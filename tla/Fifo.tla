--------------------------------- MODULE Fifo ---------------------------------
(***************************************************************************)
(* The queue of a fixed capacity that circular_buffer.c keeps in an array. *)
(* A full queue discards its oldest elements for new ones if "wrap" is     *)
(* set, and otherwise takes an array as a whole or not at all.             *)
(*                                                                         *)
(* circular_buffer.h describes this queue, but for two operations: it says *)
(* that add_as_many_as_possible overwrites the oldest elements, where the  *)
(* code adds what there is room for, wrapping or not, and that             *)
(* drop_from_end drops the first elements, where the code drops the last.  *)
(* Fifo has what the code does, which their callers in UART.c and          *)
(* protocol.c rely on.                                                     *)
(***************************************************************************)
EXTENDS Naturals, Sequences

CONSTANTS Capacity, Arrays, Counts

VARIABLES
  queue,   \* the elements, oldest first
  wrap,    \* set once
  moved    \* output: the elements the last operation put in or read

vars == <<queue, wrap, moved>>

room         == Capacity - Len(queue)
First(s, n)  == SubSeq(s, 1, IF n < Len(s) THEN n ELSE Len(s))
From(s, n)   == SubSeq(s, n + 1, Len(s))
Newest(s)    == IF Len(s) > Capacity THEN From(s, Len(s) - Capacity) ELSE s

Init == queue = <<>> /\ wrap \in BOOLEAN /\ moved = <<>>

AddArray(elements) ==
  \/ /\ wrap \/ Len(elements) <= room
     /\ queue' = Newest(queue \o elements) /\ moved' = elements
  \/ /\ ~wrap /\ Len(elements) > room
     /\ queue' = queue /\ moved' = <<>>

AddAsMany(elements) ==
  queue' = queue \o First(elements, room) /\ moved' = First(elements, room)

PopArray(n) == queue' = From(queue, Len(First(queue, n))) /\ moved' = First(queue, n)

DropFromEnd(n) == queue' = First(queue, Len(queue) - n) /\ moved' = <<>>

PeekArray(position, n) == queue' = queue /\ moved' = First(From(queue, position), n)

Clear == queue' = <<>> /\ moved' = <<>>

Next ==
  /\ wrap' = wrap
  /\ \/ \E elements \in Arrays : AddArray(elements) \/ AddAsMany(elements)
     \/ \E n \in Counts : PopArray(n)
     \/ \E n \in Counts : n <= Len(queue) /\ DropFromEnd(n)
     \/ \E position, n \in Counts : PeekArray(position, n)
     \/ Clear

Spec == Init /\ [][Next]_vars
===============================================================================
