------------------------------ MODULE EventQueue ------------------------------
(***************************************************************************)
(* The event queues of the firmware.  Every state machine (application,    *)
(* MQTT, WiFi, TCP, UDP) owns one: a circular_buffer_t of event_t with     *)
(* wrap = true, filled by add_event_type and emptied by pop_event, both    *)
(* with the interrupts disabled.  A full queue makes room by discarding    *)
(* its oldest event (circular_buffer_add).                                 *)
(*                                                                         *)
(* The queue is the sequence of its event types, oldest first; module      *)
(* CircularBuffer shows that the array with its head and tail implements   *)
(* such a sequence.                                                        *)
(***************************************************************************)
EXTENDS Naturals, Sequences

(* add_event_type on a queue of n places *)
Put(queue, event, n) ==
  IF Len(queue) < n THEN Append(queue, event)
                    ELSE Append(Tail(queue), event)

(* the places of a queue that hold an event of a set *)
PlacesOf(queue, events) == {i \in DOMAIN queue : queue[i] \in events}

AtMostOne(queue, events) ==
  \A i, j \in PlacesOf(queue, events) : i = j
===============================================================================
