---------------------------- MODULE CircularBuffer ----------------------------
(***************************************************************************)
(* core/circular_buffer.c, the container of everything the firmware queues *)
(* or logs: an array with the positions of its first element and of the    *)
(* first free place, and two flags, since the positions are equal both     *)
(* when it is empty and when it is full.                                   *)
(*                                                                         *)
(* An operation on the struct is an operator on the record "b"; the array  *)
(* operations are loops over the single ones, written as functions.        *)
(* Operations are atomic here; module SharedBuffer lets an interrupt into  *)
(* them and checks both.  NULL arguments, and the copying of element_size  *)
(* bytes, are left out.                                                    *)
(*                                                                         *)
(* An operator named Mutant... is the one below it with a bug; it shows    *)
(* that a property notices (README) and the specification never uses it.   *)
(***************************************************************************)
EXTENDS Naturals, Sequences

CONSTANTS
  StorageSize,   \* storage_size
  Elements,      \* what a buffer may hold
  Zero,          \* what circular_buffer_clear leaves in the array
  MaxLength      \* bound: length of the arrays handed over

ASSUME BufferAssumption ==
  StorageSize \in Nat \ {0} /\ Zero \in Elements /\ MaxLength \in Nat \ {0}

VARIABLES buffer, moved
vars == <<buffer, moved>>

Places  == 0..(StorageSize - 1)
Buffers == [storage : [Places -> Elements], head : Places, tail : Places,
            empty : BOOLEAN, full : BOOLEAN, wrap : BOOLEAN]
Arrays  == UNION {[1..n -> Elements] : n \in 0..MaxLength}
Counts  == 0..MaxLength

MutantIncreased(place) == IF place = StorageSize THEN 0 ELSE place + 1

Increased(place) == IF place = StorageSize - 1 THEN 0 ELSE place + 1
Decreased(place) == IF place = 0 THEN StorageSize - 1 ELSE place - 1

Size(b) ==
  CASE b.empty                            -> 0
    [] ~b.empty /\ b.full                 -> StorageSize
    [] ~b.empty /\ ~b.full /\ b.tail > b.head    -> b.tail - b.head
    [] ~b.empty /\ ~b.full /\ ~(b.tail > b.head) -> StorageSize - b.head + b.tail

FreeSpace(b) == StorageSize - Size(b)

(* circular_buffer_peek: the element at a position below the size *)
At(b, position) ==
  b.storage[IF b.head + position < StorageSize THEN b.head + position
                                               ELSE b.head + position - StorageSize]

-------------------------------------------------------------------------------
MutantRefuses(b) == b.full
Refuses(b)       == b.full /\ ~b.wrap

Added(b, element) ==
  IF Refuses(b) THEN b
  ELSE LET head == IF b.full THEN Increased(b.head) ELSE b.head
           tail == Increased(b.tail)
       IN  [b EXCEPT !.head = head, !.tail = tail,
                     !.storage = [@ EXCEPT ![b.tail] = element],
                     !.empty = FALSE, !.full = (tail = head)]

AddedAll(b, elements) ==
  LET after[i \in 0..Len(elements)] ==
        IF i = 0 THEN b ELSE Added(after[i - 1], elements[i])
  IN  after[Len(elements)]

MutantPopped(b) ==
  IF b.empty THEN b
  ELSE LET head == Increased(b.head)
       IN  [b EXCEPT !.head = head, !.empty = (b.tail = head)]

Popped(b) ==
  IF b.empty THEN b
  ELSE LET head == Increased(b.head)
       IN  [b EXCEPT !.head = head, !.full = FALSE, !.empty = (b.tail = head)]

PoppedAll(b, n) ==
  LET after[i \in 0..n] == IF i = 0 THEN b ELSE Popped(after[i - 1])
  IN  after[n]

DroppedFromEnd(b, n) ==
  LET tail[i \in 0..n] == IF i = 0 THEN b.tail ELSE Decreased(tail[i - 1])
  IN  [b EXCEPT !.tail = tail[n], !.full = IF n = 0 THEN @ ELSE FALSE]

Cleared(b) ==
  [b EXCEPT !.storage = [place \in Places |-> Zero], !.head = 0, !.tail = 0,
            !.empty = TRUE, !.full = FALSE]

Smaller(a, b) == IF a < b THEN a ELSE b

(* circular_buffer_peek_array: stops at the first position it cannot read *)
Peeked(b, position, n) ==
  [i \in 1..(IF position < Size(b) THEN Smaller(n, Size(b) - position) ELSE 0)
     |-> At(b, position + i - 1)]

-------------------------------------------------------------------------------
(* circular_buffer_init with clear set *)
Init ==
  /\ \E wrap \in BOOLEAN :
       buffer = [storage |-> [place \in Places |-> Zero], head |-> 0, tail |-> 0,
                 empty |-> TRUE, full |-> FALSE, wrap |-> wrap]
  /\ moved = <<>>

AddArray(elements) ==
  IF ~buffer.wrap /\ Len(elements) > FreeSpace(buffer)
    THEN buffer' = buffer /\ moved' = <<>>
    ELSE buffer' = AddedAll(buffer, elements) /\ moved' = elements

(* circular_buffer_add is the caller's way to add one element *)
Add(element) ==
  /\ buffer' = Added(buffer, element)
  /\ moved' = IF Refuses(buffer) THEN <<>> ELSE <<element>>

AddAsMany(elements) ==
  LET some == SubSeq(elements, 1, Smaller(Len(elements), FreeSpace(buffer))) IN
    buffer' = AddedAll(buffer, some) /\ moved' = some

(* circular_buffer_pop_array; circular_buffer_pop for n = 1, and           *)
(* circular_buffer_drop_from_beggining for callers who do not look         *)
PopArray(n) ==
  buffer' = PoppedAll(buffer, n) /\ moved' = Peeked(buffer, 0, n)

(* circular_buffer_drop_from_end: does not look at how many there are, nor *)
(* set the empty flag.  Its callers drop the last character of a message   *)
(* that starts with a name, so they always leave some.                     *)
DropFromEnd(n) ==
  /\ n < Size(buffer)
  /\ buffer' = DroppedFromEnd(buffer, n) /\ moved' = <<>>

PeekArray(position, n) ==
  buffer' = buffer /\ moved' = Peeked(buffer, position, n)

Clear == buffer' = Cleared(buffer) /\ moved' = <<>>

Next ==
  \/ \E element \in Elements : Add(element)
  \/ \E elements \in Arrays : AddArray(elements) \/ AddAsMany(elements)
  \/ \E n \in Counts : PopArray(n) \/ DropFromEnd(n)
  \/ \E position, n \in Counts : PeekArray(position, n)
  \/ Clear

-------------------------------------------------------------------------------
(* The type invariant. *)
TypeOK == buffer \in Buffers /\ moved \in Seq(Elements)

(* The flags tell the two cases of equal positions apart: after any        *)
(* operations exactly one of them is set when the positions are equal,     *)
(* and none otherwise.                                                     *)
Consistent(b) ==
  /\ ~(b.empty /\ b.full)
  /\ b.head = b.tail <=> b.empty \/ b.full

FlagsTellSize == Consistent(buffer)

(* What the buffer holds, by its positions and flags. *)
Contents(b) == [i \in 1..Size(b) |-> At(b, i - 1)]
===============================================================================
