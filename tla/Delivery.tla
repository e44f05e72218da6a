------------------------------- MODULE Delivery -------------------------------
(***************************************************************************)
(* What the device promises about its sensor readings: README, "Collected  *)
(* sensor data will be saved and delivered to during next connection       *)
(* sequence".  Readings are numbered in the order they are stored; the     *)
(* device keeps removed+1..stored, and everything up to "published" has    *)
(* been in a message sent to the server.  Only what was published may be   *)
(* forgotten, unless the user asks for the rest to be erased.  Nothing is  *)
(* promised about how often a reading is sent.                             *)
(***************************************************************************)
EXTENDS Naturals

VARIABLES
  stored,          \* number of the newest reading
  removed,         \* number of the newest reading that is gone
  published,       \* number of the newest reading that was sent
  eraseRequested   \* input: a user has asked to erase the readings

vars == <<stored, removed, published, eraseRequested>>

Init == stored = 0 /\ removed = 0 /\ published = 0 /\ eraseRequested = FALSE

Record ==
  /\ stored' = stored + 1
  /\ UNCHANGED <<removed, published>>

Publish ==
  /\ published' \in published..stored
  /\ UNCHANGED <<stored, removed>>

Acknowledge ==
  /\ removed' > removed /\ removed' <= published
  /\ UNCHANGED <<stored, published>>

Erase ==
  /\ eraseRequested
  /\ removed' = stored
  /\ UNCHANGED <<stored, published>>

Next == (Record \/ Publish \/ Acknowledge \/ Erase) /\ eraseRequested' \in BOOLEAN

Spec == Init /\ [][Next]_vars
===============================================================================
