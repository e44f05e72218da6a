----------------------------- MODULE MCHeartbeat -----------------------------
(***************************************************************************)
(* Heartbeat without its race: no minute passes while start_heartbeat runs *)
(* (its steps take microseconds).                                          *)
(***************************************************************************)
EXTENDS Heartbeat

UndisturbedSpec == Init /\ [][Next /\ (minutes' # minutes => MainLoop)]_vars
===============================================================================
