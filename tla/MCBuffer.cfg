\* Every operation at every position of the array, and every point of every
\* operation interrupted, in each use of a buffer.
CONSTANTS
  StorageSize = 3
  Elements = {0, 1}
  Zero = 0
  MaxLength = 4
  UseNames = {"owned", "events", "timer", "commands", "readings", "responses"}
  MaxAdds = 6
  MaxInterrupts = 1
SPECIFICATION SharedSpec
INVARIANTS SharedTypeOK FlagsTell LockedIsQueue PositionsTell OldestTaken
            ClearLeavesOne
PROPERTY OwnedIsQueue
CHECK_DEADLOCK FALSE
