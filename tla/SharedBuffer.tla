----------------------------- MODULE SharedBuffer -----------------------------
(***************************************************************************)
(* A circular buffer of one owner, and one between the main loop and an    *)
(* interrupt.                                                              *)
(*                                                                         *)
(* CircularBuffer takes an operation as one step.  Here an operation of    *)
(* the main loop is its statements in the order circular_buffer.c writes   *)
(* them, each a load of what it reads and a store of what it assigns: the  *)
(* positions have 16 bits and increase_pointer reads before it writes.     *)
(* An interrupt runs one operation as a whole between any two of these     *)
(* steps, unless the caller has disabled the interrupts.                   *)
(*                                                                         *)
(* The buffers of the firmware:                                            *)
(*   owned      only the main loop uses it, every operation of             *)
(*              CircularBuffer in any order                                *)
(*   events     the queue of a state machine; add_event_type and pop_event *)
(*              disable the interrupts                                     *)
(*   timer      the same queue where it is emptied by                      *)
(*              circular_buffer_clear, which does not (TCP, UDP)           *)
(*   commands   command_string_buffer: the UART interrupt adds, the main   *)
(*              loop takes the characters of a command, or clears them all *)
(*              for USB_CONNECTED                                          *)
(*   readings   sensor_readings_buffer: an acquisition, the removal of     *)
(*              what was sent and READINGS CLEAR in the main loop, a       *)
(*              movement in an interrupt                                   *)
(*   responses  uart_command_response_buffer: the main loop adds, the UART *)
(*              interrupt takes                                            *)
(*                                                                         *)
(* An element is the number of its addition; Zero is what an erased place  *)
(* holds.  The variable "ideal" is the queue the operations would work on  *)
(* if each of them were one step, but that a clear also erases what an     *)
(* interrupt adds in its course; nothing reads it.                         *)
(***************************************************************************)
EXTENDS CircularBuffer, FiniteSets

CONSTANTS
  UseNames,       \* which of the uses
  MaxAdds,        \* bound: elements ever added
  MaxInterrupts   \* bound: interrupts during one operation.  A character
                  \* takes 87 us and the timer 1 ms, an operation a few us.
                  \* Erasing the array takes longer, but begins with the
                  \* places the next characters go to: a second one finds
                  \* its place erased, as if it came after the clear

ASSUME SharedAssumption ==
  /\ Zero = 0 /\ MaxAdds \in Nat
  /\ MaxInterrupts \in Nat
  /\ UseNames \subseteq {"owned", "events", "timer", "commands", "readings", "responses"}

VARIABLES
  use,        \* what the buffer is used for; never changes
  op,         \* the operation of the main loop, the last one when idle
  todo,       \* its statements still to run
  loaded,     \* the first of them has read its operands
  seen,       \* what it has read
  value,      \* what an ADD adds
  interrupts, \* interrupts since the operation began
  transmitting, \* transmitting_command_response: the UART sends a character
  added,      \* elements given to the buffer, by either side
  ideal,      \* see above
  erased,     \* a clear has erased what an interrupt had added in its course
  overrun,    \* an interrupt has found the buffer full
  crossed     \* an interrupt has added during an ADD

local == <<op, todo, loaded, seen, value>>
history == <<ideal, erased, overrun, crossed>>
sharedVars == <<buffer, moved, use, local, interrupts, transmitting, added, history>>

Operations == {"ADD", "POP", "CLEAR"}
Numbers    == 0..MaxAdds

MutantLocked(name) == IF name \in {"events", "timer"} THEN {"ADD"} ELSE {}

(* The operations of the main loop that run with interrupts disabled. *)
Locked(name) == IF name \in {"events", "timer"} THEN {"ADD", "POP"} ELSE {}

(* Who does what: the main loop, the interrupt.  Characters are cleared by *)
(* USB_CONNECTED (wolksensor.c 411), readings by the command READINGS      *)
(* CLEAR (commands.c 220), both with the interrupts enabled.               *)
Sharing(name) ==
  CASE name = "events"    -> [main |-> {"ADD", "POP"}, interrupt |-> "ADD", wrap |-> TRUE]
    [] name = "timer"     -> [main |-> Operations,     interrupt |-> "ADD", wrap |-> TRUE]
    [] name = "commands"  -> [main |-> {"POP", "CLEAR"}, interrupt |-> "ADD", wrap |-> TRUE]
    [] name = "readings"  -> [main |-> Operations, interrupt |-> "ADD", wrap |-> FALSE]
    [] name = "responses" -> [main |-> {"ADD"},        interrupt |-> "POP", wrap |-> FALSE]
    [] name = "owned"     -> [main |-> {},           interrupt |-> "NONE", wrap |-> FALSE]

Busy     == todo # <<>>
Rest(s)  == IF s = <<>> THEN <<>> ELSE Tail(s)
Oldest(s) == IF s = <<>> THEN Zero ELSE Head(s)
Disabled == Busy /\ op \in Locked(use)

-------------------------------------------------------------------------------
MutantEarlyFlag(operation) ==
  CASE operation = "POP"   -> <<"copy", "head", "notFull", "emptyIfEqual">>
    [] operation = "ADD"   -> <<"put", "notEmpty", "fullIfEqual", "tail">>
    [] operation = "CLEAR" -> <<"headZero", "tailZero", "setEmpty", "notFull", "erase">>

MutantEarlyTail(operation) ==
  CASE operation = "POP"   -> <<"copy", "head", "notFull", "emptyIfEqual">>
    [] operation = "ADD"   -> <<"notEmpty", "tail", "put", "fullIfEqual">>
    [] operation = "CLEAR" -> <<"headZero", "tailZero", "setEmpty", "notFull", "erase">>

MutantFlagsFirst(operation) ==
  CASE operation = "POP"   -> <<"copy", "head", "notFull", "emptyIfEqual">>
    [] operation = "ADD"   -> <<"put", "tail", "notEmpty", "fullIfEqual">>
    [] operation = "CLEAR" -> <<"setEmpty", "notFull", "headZero", "tailZero", "erase">>

(* The statements of an operation that has passed its early returns. *)
Statements(operation) ==
  CASE operation = "POP"   -> <<"copy", "head", "notFull", "emptyIfEqual">>
    [] operation = "ADD"   -> <<"put", "tail", "notEmpty", "fullIfEqual">>
    [] operation = "CLEAR" -> <<"headZero", "tailZero", "setEmpty", "notFull", "erase">>

Stored(statement) ==
  CASE statement = "head"         -> [buffer EXCEPT !.head = Increased(seen.head)]
    [] statement = "tail"         -> [buffer EXCEPT !.tail = Increased(seen.tail)]
    [] statement = "put"          -> [buffer EXCEPT !.storage[seen.tail] = value]
    [] statement = "copy"         -> buffer
    [] statement = "notEmpty"     -> [buffer EXCEPT !.empty = FALSE]
    [] statement = "fullIfEqual"  -> [buffer EXCEPT !.full = (seen.tail = seen.head)]
    [] statement = "notFull"      -> [buffer EXCEPT !.full = FALSE]
    [] statement = "emptyIfEqual" -> [buffer EXCEPT !.empty = (seen.tail = seen.head)]
    [] statement = "headZero"     -> [buffer EXCEPT !.head = 0]
    [] statement = "tailZero"     -> [buffer EXCEPT !.tail = 0]
    [] statement = "setEmpty"     -> [buffer EXCEPT !.empty = TRUE]
    [] statement = "erase"        -> [buffer EXCEPT !.storage = [p \in Places |-> Zero]]

-------------------------------------------------------------------------------
SharedInit ==
  /\ use \in UseNames
  /\ Init /\ (use # "owned" => buffer.wrap = Sharing(use).wrap)
  /\ op = "NONE" /\ todo = <<>> /\ loaded = FALSE
  /\ seen = [head |-> 0, tail |-> 0] /\ value = Zero
  /\ interrupts = 0 /\ transmitting = FALSE /\ added = 0
  /\ ideal = <<>> /\ erased = FALSE /\ overrun = FALSE /\ crossed = FALSE

Start(operation) ==
  /\ ~Busy /\ operation \in Sharing(use).main
  /\ op' = operation /\ interrupts' = 0
  /\ UNCHANGED <<buffer, use, loaded, seen, transmitting, erased, overrun, crossed>>

(* circular_buffer_add.  A buffer that wraps makes room first. *)
StartAdd ==
  /\ Start("ADD") /\ added < MaxAdds /\ ~Refuses(buffer)
  /\ added' = added + 1 /\ value' = added + 1
  /\ todo' = (IF buffer.full THEN <<"head">> ELSE <<>>) \o Statements("ADD")
  /\ ideal' = IF buffer.full THEN Rest(ideal) ELSE ideal
  /\ moved' = moved

(* circular_buffer_pop, also as a step of circular_buffer_pop_array *)
StartPop ==
  /\ Start("POP") /\ ~buffer.empty
  /\ todo' = Statements("POP")
  /\ UNCHANGED <<moved, value, added, ideal>>

StartClear ==
  /\ Start("CLEAR")
  /\ todo' = Statements("CLEAR")
  /\ UNCHANGED <<moved, value, added, ideal>>

Load ==
  /\ Busy /\ ~loaded
  /\ loaded' = TRUE /\ seen' = [head |-> buffer.head, tail |-> buffer.tail]
  /\ UNCHANGED <<buffer, moved, use, op, todo, value, interrupts, transmitting, added, history>>

(* An ADD has happened once its element is in front of the tail, a POP     *)
(* once it has the element: "moved" is what it took, and should have taken. *)
(* A CLEAR has once both positions are zero; what is in the queue when it  *)
(* comes to erase the array has been added since.                          *)
Store ==
  /\ Busy /\ loaded
  /\ buffer' = Stored(Head(todo)) /\ todo' = Tail(todo) /\ loaded' = FALSE
  /\ ideal' = CASE Head(todo) = "tail" -> Append(ideal, value)
                [] Head(todo) = "copy" -> Rest(ideal)
                [] Head(todo) = "tailZero" -> <<>>
                [] Head(todo) = "erase"    -> [i \in DOMAIN ideal |-> Zero]
                [] OTHER               -> ideal
  /\ erased' = (erased \/ (Head(todo) = "erase" /\ ideal # <<>>))
  /\ moved' = IF Head(todo) = "copy"
                THEN <<buffer.storage[seen.head], Oldest(ideal)>>
                ELSE moved
  /\ UNCHANGED <<use, op, seen, value, interrupts, transmitting, added, overrun, crossed>>

(* An interrupt, between two operations or within one.                     *)
Interrupts(operation) ==
  /\ Sharing(use).interrupt = operation /\ ~Disabled
  /\ Busy => interrupts < MaxInterrupts
  /\ interrupts' = IF Busy THEN interrupts + 1 ELSE 0
  /\ op' = IF Busy THEN op ELSE "NONE"
  /\ UNCHANGED <<use, todo, loaded, seen, value>>

InterruptAdds ==
  /\ Interrupts("ADD") /\ added < MaxAdds
  /\ added' = added + 1
  /\ buffer' = Added(buffer, added + 1)
  /\ ideal' = IF Refuses(buffer) THEN ideal
              ELSE Append(IF buffer.full THEN Rest(ideal) ELSE ideal, added + 1)
  /\ overrun' = (overrun \/ buffer.full)
  /\ crossed' = (crossed \/ (Busy /\ op = "ADD"))
  /\ UNCHANGED <<moved, transmitting, erased>>

(* transmit_command_response_character, the interrupts disabled *)
Transmits ==
  /\ buffer' = Popped(buffer) /\ ideal' = Rest(ideal)
  /\ moved' = IF buffer.empty THEN moved
              ELSE <<buffer.storage[buffer.head], Oldest(ideal)>>
  /\ UNCHANGED <<added, erased, overrun, crossed>>

(* The character is sent: the next one, or none. *)
InterruptPops ==
  /\ Interrupts("POP") /\ transmitting /\ ~buffer.empty
  /\ Transmits /\ transmitting' = TRUE

InterruptRests ==
  /\ Interrupts("POP") /\ transmitting /\ buffer.empty
  /\ transmitting' = FALSE
  /\ UNCHANGED <<buffer, moved, added, history>>

(* send_command_response, after it has added what fits *)
StartTransmission ==
  /\ use = "responses" /\ ~Busy /\ op = "ADD" /\ ~transmitting
  /\ Transmits /\ transmitting' = TRUE
  /\ UNCHANGED <<use, local, interrupts>>

(* A buffer of one owner: the operations as CircularBuffer has them. *)
Owned ==
  /\ use = "owned" /\ Next
  /\ UNCHANGED <<use, local, interrupts, transmitting, added, history>>

SharedNext ==
  \/ StartAdd \/ StartPop \/ StartClear \/ Load \/ Store
  \/ InterruptAdds \/ InterruptPops \/ InterruptRests \/ StartTransmission
  \/ Owned

SharedSpec == SharedInit /\ [][SharedNext]_sharedVars

-------------------------------------------------------------------------------
(* The type invariant. *)
SharedTypeOK ==
  /\ buffer \in [storage : [Places -> Elements \cup Numbers], head : Places,
                 tail : Places, empty : BOOLEAN, full : BOOLEAN, wrap : BOOLEAN]
  /\ moved \in Seq(Elements \cup Numbers) /\ use \in UseNames
  /\ op \in Operations \cup {"NONE"} /\ loaded \in BOOLEAN
  /\ seen \in [head : Places, tail : Places] /\ value \in Numbers
  /\ interrupts \in 0..MaxInterrupts /\ transmitting \in BOOLEAN /\ added \in Numbers
  /\ ideal \in Seq(Numbers) /\ erased \in BOOLEAN
  /\ overrun \in BOOLEAN /\ crossed \in BOOLEAN

(* Where no interrupt comes between the statements the flags tell the two  *)
(* cases of equal positions apart after any operations, wrapped or not.    *)
FlagsTell == use \in {"owned", "events"} /\ ~Busy => FlagsTellSize

(* The buffer of one owner is the queue Fifo describes: wrapped around or  *)
(* not, every operation keeps, discards and returns the elements in their  *)
(* order, refused arrays leave no trace.                                   *)
Queue == INSTANCE Fifo WITH
  Capacity <- StorageSize,
  queue <- IF use = "owned" THEN Contents(buffer) ELSE <<>>,
  wrap  <- use = "owned" /\ buffer.wrap,
  moved <- IF use = "owned" THEN moved ELSE <<>>

OwnedIsQueue == Queue!Spec

(* The array holds these elements between its positions, whatever the      *)
(* flags say.                                                              *)
Holds(b, elements) ==
  /\ (b.head + Len(elements)) % StorageSize = b.tail
  /\ \A i \in DOMAIN elements : At(b, i - 1) = elements[i]

(* The queue of events, whose two operations disable the interrupts, is    *)
(* between them the queue that every state machine is modelled with: no    *)
(* event is lost, doubled, invented or out of turn, but for the oldest of  *)
(* a full queue.                                                           *)
LockedIsQueue == use = "events" /\ ~Busy => Contents(buffer) = ideal

(* Without the lock the flags may be wrong: a pop or a clear hides what    *)
(* the interrupt adds in its course, for commands and readings until the   *)
(* next addition, and a response may look like a full buffer.  But between *)
(* head and tail is what was there: an element that comes in the middle of *)
(* a clear is removed with the others or keeps its place, erased.  Not so  *)
(* when two additions cross, or a full buffer wraps.                       *)
PositionsTell ==
  use \in {"commands", "readings", "responses"} /\ ~Busy =>
    \/ Holds(buffer, ideal)
    \/ crossed \/ (buffer.wrap /\ overrun)

(* What is taken is what is in the place of the oldest element, whoever    *)
(* takes it and whatever the flags say: elements keep their order and none *)
(* is taken twice, but where additions cross or commands overrun.          *)
OldestTaken ==
  use \in {"events", "commands", "readings", "responses"} /\ moved # <<>> =>
    \/ moved[1] = moved[2]
    \/ crossed \/ (use = "commands" /\ overrun)

(* A character nobody typed, or a reading nobody made, is taken only where *)
(* an interrupt came within a clear: no other interruption shows a place   *)
(* of the array that was never written, or has been erased.                *)
NothingInvented ==
  use \in {"events", "commands", "readings", "responses"} /\ moved # <<>> =>
    \/ moved[1] # Zero \/ erased
    \/ crossed \/ (use = "commands" /\ overrun)

(* A clear that an interrupt comes into leaves an empty queue, what the    *)
(* interrupt added, or a zero in its place, which may be hidden until the  *)
(* next is added behind it: for the timer of TCP, whose event of type zero *)
(* is SEND, what ClearTcpEvents of module Tcp chooses from.                *)
ClearLeavesOne ==
  op = "CLEAR" /\ ~Busy /\ ~overrun =>
    \E elements \in {<<>>, <<added>>, <<Zero>>} :
      /\ Holds(buffer, elements) /\ Contents(buffer) \in {<<>>, elements}
      /\ interrupts = 0 => elements = <<>>

(* The buffer of responses never looks both empty and full, a state that   *)
(* refuses every addition and that no pop ends: circular_buffer.h, "set    *)
(* when buffer is empty" and "set when buffer is full".                    *)
ResponsesAccepted ==
  use = "responses" /\ ~Busy => ~(buffer.empty /\ buffer.full)
===============================================================================
