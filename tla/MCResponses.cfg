\* The characters of a response sent one by one while the next are added.
CONSTANTS
  StorageSize = 3
  Elements = {0, 1}
  Zero = 0
  MaxLength = 1
  UseNames = {"responses"}
  MaxAdds = 3
  MaxInterrupts = 1
SPECIFICATION SharedSpec
INVARIANT ResponsesAccepted
CHECK_DEADLOCK FALSE
