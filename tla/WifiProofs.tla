------------------------------ MODULE WifiProofs ------------------------------
(***************************************************************************)
(* Theorems about the WiFi machine with TCP and UDP, for every size of     *)
(* their queues, every timeout, every number of retries and sockets, and   *)
(* every order of calls, notices, seconds and steps.                       *)
(*                                                                         *)
(* The invariant says what drives the machine.  An exchange, a closing and *)
(* a reset go on by tokens in the queue, PROCESS or DONE; the states in    *)
(* between by an event that they add again or that the timer adds.  What   *)
(* drives the machine must not be pushed out by what the chip reports in   *)
(* the meantime: in most states all of that wakes the machine as well, but *)
(* not in RESET, where only a token does.  The theorems about a machine at *)
(* rest therefore assume a queue that is longer than all the faults and    *)
(* notices that can come behind a token.  No token outlives an operation:  *)
(* the faults of the earlier ones need not be counted (CountAnew).         *)
(*                                                                         *)
(* The last part follows an operation on its way: what was called, or what *)
(* stands for it, waits in the queue until it is done or something fails.  *)
(***************************************************************************)
EXTENDS Wifi, TcpProofs, EventQueueProofs

USE TcpAssumption

-------------------------------------------------------------------------------
(***************************************************************************)
(* UDP.  It is TCP's machine on a state of its own (module Udp); what      *)
(* TcpProofs shows of TCP is shown here of UDP, in the same steps.         *)
(***************************************************************************)
UdpInv == U!TcpTypeOK /\ U!TcpConsistent
UdpQuiet == QuietOf(udpState, udpEvents)
UdpWarm  == WarmOf(udpState, udpEvents)
UdpCold  == ColdOf(udpState, udpEvents)
UdpLive  == LiveOf(udpState, udpEvents)
UdpKeeps ==
  /\ UdpLive' /\ (UdpQuiet => UdpQuiet') /\ (UdpWarm => UdpWarm')
  /\ UdpCold => UdpCold' /\ udpSockets' <= udpSockets

(* add_udp_communication_module_event_type keeps a queue a queue.          *)
LEMMA UdpAddType ==
  ASSUME NEW queue \in Seq(U!TcpTypes), NEW event \in U!TcpTypes
  PROVE  U!TcpAdd(queue, event) \in Seq(U!TcpTypes)
<1>1. Append(queue, event) \in Seq(U!TcpTypes)
  OBVIOUS
<1>2. ~(Len(queue) < TcpQueueSize) => queue # <<>>
  OBVIOUS
<1>3. queue # <<>> => Append(Tail(queue), event) \in Seq(U!TcpTypes)
  OBVIOUS
<1>4. <<"SEND", event>> \in Seq(U!TcpTypes)
  BY DEF U!TcpTypes, U!TcpCalls
<1> QED
  BY <1>1, <1>2, <1>3, <1>4 DEF U!TcpAdd, U!Put

(* What is in the queue after an event was added.                          *)
LEMMA UdpAddRange ==
  ASSUME NEW queue \in Seq(U!TcpTypes), NEW event \in U!TcpTypes,
         queue = U!Ghost \/ None(queue, {"GHOST"})
  PROVE  LET added == Range(U!TcpAdd(queue, event)) IN
         /\ event \in added
         /\ queue # U!Ghost => added \subseteq Range(queue) \cup {event}
         /\ queue = U!Ghost => added = {"SEND", event}
<1>1. CASE queue = U!Ghost
  <2>1. U!TcpAdd(queue, event) = <<"SEND", event>>
    BY <1>1 DEF U!TcpAdd
  <2>2. DOMAIN <<"SEND", event>> = {1, 2}
    OBVIOUS
  <2> QED
    BY <1>1, <2>1, <2>2 DEF Range
<1>2. CASE queue # U!Ghost /\ Len(queue) < TcpQueueSize
  <2>1. U!TcpAdd(queue, event) = Append(queue, event)
    BY <1>2 DEF U!TcpAdd, U!Put
  <2>2. /\ DOMAIN Append(queue, event) = 1..(Len(queue) + 1)
        /\ Append(queue, event)[Len(queue) + 1] = event
        /\ \A i \in 1..Len(queue) : i \in DOMAIN queue /\ Append(queue, event)[i] = queue[i]
    OBVIOUS
  <2>3. Len(queue) + 1 \in 1..(Len(queue) + 1)
    OBVIOUS
  <2>4. \A i \in 1..(Len(queue) + 1) : i \in 1..Len(queue) \/ i = Len(queue) + 1
    OBVIOUS
  <2> QED
    BY <1>2, <2>1, <2>2, <2>3, <2>4 DEF Range
<1>3. CASE queue # U!Ghost /\ ~(Len(queue) < TcpQueueSize)
  <2>1. U!TcpAdd(queue, event) = Append(Tail(queue), event) /\ queue # <<>>
    BY <1>3 DEF U!TcpAdd, U!Put
  <2>2. /\ DOMAIN Append(Tail(queue), event) = 1..Len(queue)
        /\ Append(Tail(queue), event)[Len(queue)] = event
        /\ \A i \in 1..(Len(queue) - 1) :
             i + 1 \in DOMAIN queue /\ Append(Tail(queue), event)[i] = queue[i + 1]
    BY <2>1
  <2>3. Len(queue) \in 1..Len(queue)
    BY <2>1
  <2>4. \A i \in 1..Len(queue) : i \in 1..(Len(queue) - 1) \/ i = Len(queue)
    OBVIOUS
  <2> QED
    BY <1>3, <2>1, <2>2, <2>3, <2>4 DEF Range
<1> QED
  BY <1>1, <1>2, <1>3

(* What is popped, and what is left, are UDP's events.                     *)
LEMMA UdpPopType ==
  ASSUME U!TcpTypeOK, udpEvents # <<>>
  PROVE  Tail(udpEvents) \in Seq(U!TcpTypes) /\ Head(udpEvents) \in U!TcpTypes
BY DEF U!TcpTypeOK

(* So is what a clearing in the middle of an interrupt leaves.             *)
LEMMA UdpClearedType ==
  ASSUME U!ClearTcpEvents
  PROVE  udpEvents' \in Seq(U!TcpTypes)
<1>1. \A event \in U!TcpTypes : <<event>> \in Seq(U!TcpTypes)
  OBVIOUS
<1>2. /\ <<>> \in Seq(U!TcpTypes) /\ <<"TIMEOUT">> \in Seq(U!TcpTypes)
      /\ <<"SEND">> \in Seq(U!TcpTypes) /\ <<"GHOST">> \in Seq(U!TcpTypes)
  BY <1>1 DEF U!TcpTypes, U!TcpCalls
<1> QED
  BY <1>2 DEF U!ClearTcpEvents, U!Ghost

(* UDP's types and consistency, kept by each of its steps.                 *)
LEMMA UdpStep == UdpInv /\ [U!TcpNext]_udpVars => UdpInv'
<1> SUFFICES ASSUME UdpInv, [U!TcpNext]_udpVars PROVE UdpInv'
  OBVIOUS
<1> USE DEF UdpInv, U!TcpConsistent, U!Connected
<1>1. CASE UNCHANGED udpVars
  BY <1>1 DEF udpVars, U!TcpTypeOK
<1>2. ASSUME NEW operation \in U!TcpCalls, U!CallTcp(operation) PROVE UdpInv'
  BY <1>2, UdpAddType DEF U!CallTcp, U!TcpTypeOK, U!TcpTypes, U!TcpErrors
<1>3. CASE U!TcpSecond
  <2>1. udpEvents' \in Seq(U!TcpTypes)
    BY <1>3, UdpAddType DEF U!TcpSecond, U!TcpTypeOK, U!TcpTypes
  <2>2. udpTimer' \in 0..ReceiveTimeout /\ (udpTimer' > 0 => udpTimer > 0)
    BY <1>3 DEF U!TcpSecond, U!TcpTypeOK
  <2> QED
    BY <1>3, <2>1, <2>2 DEF U!TcpSecond, U!TcpTypeOK
<1>4. CASE U!SocketClosed
  BY <1>4, UdpAddType DEF U!SocketClosed, U!TcpTypeOK, U!TcpTypes
<1>5. CASE U!ChipStopped
  BY <1>5 DEF U!ChipStopped, U!TcpTypeOK
<1>6. CASE U!ParametersMissing
  BY <1>6, UdpPopType DEF U!ParametersMissing, U!TcpPop, U!SetTcpError, U!TcpTypeOK, U!TcpErrors
<1>7. CASE U!StartOpening
  <2>1. udpEvents' \in Seq(U!TcpTypes)
    BY <1>7, UdpPopType, UdpAddType DEF U!StartOpening, U!TcpPop, U!TcpTypes
  <2>2. udpState' = "OPENING" /\ udpTimer' = udpTimer /\ udpRetries' = 0
    BY <1>7 DEF U!StartOpening, U!TcpPop, U!TcpTransition
  <2>3. ~(udpTimer > 0)
    BY <1>7 DEF U!StartOpening, U!TcpPop
  <2> QED
    BY <1>7, <2>1, <2>2, <2>3 DEF U!StartOpening, U!TcpTypeOK, U!TcpStates
<1>8. CASE U!OpenSocket
  <2>1. udpEvents' \in Seq(U!TcpTypes)
    <3>1. udpEvents' \in {<<>>, Tail(udpEvents), U!TcpAdd(Tail(udpEvents), "OPEN_SOCKET")}
      BY <1>8 DEF U!OpenSocket
    <3>2. Tail(udpEvents) \in Seq(U!TcpTypes)
      BY <1>8, UdpPopType DEF U!OpenSocket, U!TcpPop
    <3>3. U!TcpAdd(Tail(udpEvents), "OPEN_SOCKET") \in Seq(U!TcpTypes)
      BY <3>2, UdpAddType DEF U!TcpTypes
    <3>4. <<>> \in Seq(U!TcpTypes)
      OBVIOUS
    <3> QED
      BY <3>1, <3>2, <3>3, <3>4
  <2>2. udpTimer' = udpTimer /\ ~(udpTimer > 0) /\ udpAccepted' = udpAccepted
        /\ udpState = "OPENING" /\ udpRetries < OpenSocketRetries
    BY <1>8 DEF U!OpenSocket, U!TcpPop, U!TcpTransition
  <2>3. udpError' \in U!TcpErrors
    BY <1>8 DEF U!OpenSocket, U!SetTcpError, U!TcpTypeOK, U!TcpErrors
  <2>4. CASE U!OpensSocket /\ udpState' = "OPENED" /\ udpRetries' = udpRetries
    BY <2>1, <2>2, <2>3, <2>4 DEF U!OpensSocket, U!TcpTypeOK, U!TcpStates
  <2>5. CASE U!OpenFails /\ udpRetries' = udpRetries + 1
             /\ IF udpRetries' = OpenSocketRetries THEN udpState' = "CLOSED"
                                                   ELSE udpState' = udpState
    <3>1. udpRetries' \in 0..OpenSocketRetries
          /\ (udpState' = "OPENING" => udpRetries' < OpenSocketRetries)
      BY <2>2, <2>5 DEF U!TcpTypeOK
    <3>2. udpState' \in {"CLOSED", "OPENING"} /\ udpHeld' = "NONE"
          /\ udpSockets' \in 0..MaxSockets
      BY <2>2, <2>5 DEF U!OpenFails
    <3> QED
      BY <2>1, <2>2, <2>3, <3>1, <3>2 DEF U!TcpTypeOK, U!TcpStates
  <2> QED
    BY <1>8, <2>4, <2>5 DEF U!OpenSocket, U!TcpTransition
<1>9. CASE U!Retain
  BY <1>9, UdpPopType, UdpAddType DEF U!Retain, U!TcpPop, U!TcpTypeOK
<1>10. CASE U!Send
  <2>1. udpEvents' \in Seq(U!TcpTypes) /\ udpError' \in U!TcpErrors /\ udpAccepted' \in BOOLEAN
    <3>1. udpEvents' \in {<<>>, Tail(udpEvents)}
      BY <1>10 DEF U!Send
    <3>2. <<>> \in Seq(U!TcpTypes) /\ Tail(udpEvents) \in Seq(U!TcpTypes)
      BY <1>10, UdpPopType DEF U!Send, U!TcpPop
    <3>3. udpError' \in U!TcpErrors /\ udpAccepted' \in BOOLEAN
      BY <1>10 DEF U!Send, U!SetTcpError, U!TcpTypeOK, U!TcpErrors
    <3> QED
      BY <3>1, <3>2, <3>3
  <2>2. udpTimer' = 0 /\ udpRetries' = udpRetries
    BY <1>10 DEF U!Send, U!TcpPop, U!TcpTransition, U!TcpTypeOK
  <2>3. /\ udpHeld' \in {"NONE", "LIVE", "GONE"} /\ udpSockets' \in 0..MaxSockets
        /\ udpHeld' = "LIVE" => udpSockets' > 0
        /\ udpState' = "CLOSED" \/ (udpState' = "OPENED" /\ udpHeld' # "NONE")
    BY <1>10 DEF U!Send, U!TcpPop, U!ClosesSocket, U!CloseFails, U!TcpTransition, U!TcpTypeOK
  <2> QED
    BY <2>1, <2>2, <2>3 DEF U!TcpTypeOK, U!TcpStates
<1>11. CASE U!StartReceive
  <2>1. udpEvents' \in Seq(U!TcpTypes)
    BY <1>11, UdpPopType, UdpAddType DEF U!StartReceive, U!TcpPop, U!TcpTypes, U!TcpCalls
  <2>2. udpTimer' \in 0..ReceiveTimeout
    BY <1>11 DEF U!StartReceive
  <2> QED
    BY <1>11, <2>1, <2>2 DEF U!StartReceive, U!TcpPop, U!TcpTypeOK, U!TcpStates
<1>12. CASE U!Receive
  <2>1. udpEvents' \in Seq(U!TcpTypes)
    BY <1>12, UdpPopType, UdpAddType, UdpClearedType
    DEF U!Receive, U!TcpPop, U!TcpTypes, U!TcpCalls
  <2> QED
    BY <1>12, <2>1
    DEF U!Receive, U!TcpPop, U!TcpTransition, U!SetTcpError, U!TcpTypeOK, U!TcpStates, U!TcpErrors
<1>13. CASE U!ReceiveTimedOut
  BY <1>13 DEF U!ReceiveTimedOut, U!TcpPop, U!TcpTransition, U!TcpTypeOK, U!TcpStates
<1>14. CASE U!ClosedByPeer
  BY <1>14, UdpClearedType
  DEF U!ClosedByPeer, U!TcpPop, U!TcpTransition, U!SetTcpError, U!TcpTypeOK, U!TcpStates, U!TcpErrors
<1>15. CASE U!CloseSocket
  <2>1. udpEvents' \in Seq(U!TcpTypes) /\ udpError' \in U!TcpErrors
    <3>1. udpEvents' \in {<<>>, Tail(udpEvents)}
      BY <1>15 DEF U!CloseSocket, U!EnterClosing
    <3>2. <<>> \in Seq(U!TcpTypes) /\ Tail(udpEvents) \in Seq(U!TcpTypes)
      BY <1>15, UdpPopType DEF U!CloseSocket, U!TcpPop
    <3>3. udpError' \in U!TcpErrors
      BY <1>15 DEF U!CloseSocket, U!EnterClosing, U!SetTcpError, U!TcpTypeOK, U!TcpErrors
    <3> QED
      BY <3>1, <3>2, <3>3
  <2>2. udpTimer' = 0 /\ udpRetries' = udpRetries /\ udpState' = "CLOSED"
    BY <1>15 DEF U!CloseSocket, U!EnterClosing, U!TcpPop, U!TcpTransition, U!TcpTypeOK
  <2>3. /\ udpHeld' \in {"NONE", "LIVE", "GONE"} /\ udpSockets' \in 0..MaxSockets
        /\ udpHeld' = "LIVE" => udpSockets' > 0
    BY <1>15 DEF U!CloseSocket, U!EnterClosing, U!ClosesSocket, U!CloseFails, U!TcpTypeOK
  <2> QED
    BY <1>15, <2>1, <2>2, <2>3 DEF U!CloseSocket, U!TcpTypeOK, U!TcpStates
<1>16. CASE U!TcpUnhandled
  BY <1>16, UdpPopType DEF U!TcpUnhandled, U!TcpPop, U!TcpTypeOK
<1> QED
  BY <1>1, <1>2, <1>3, <1>4, <1>5, <1>6, <1>7, <1>8, <1>9, <1>10, <1>11, <1>12,
     <1>13, <1>14, <1>15, <1>16
  DEF U!TcpNext, U!TcpProcess

(* They hold at first.                                                     *)
LEMMA UdpStart == U!TcpInit => UdpInv
<1> SUFFICES ASSUME U!TcpInit PROVE UdpInv
  OBVIOUS
<1>1. udpEvents \in Seq(U!TcpTypes)
  BY DEF U!TcpInit
<1>2. 0 \in 0..OpenSocketRetries /\ 0 \in 0..ReceiveTimeout /\ 0 \in 0..MaxSockets
  OBVIOUS
<1>3. U!TcpTypeOK
  BY <1>1, <1>2 DEF U!TcpInit, U!TcpTypeOK, U!TcpStates, U!TcpErrors
<1>4. U!TcpConsistent
  BY DEF U!TcpInit, U!TcpConsistent, U!Connected
<1> QED
  BY <1>3, <1>4 DEF UdpInv

(* What pop_event leaves in the queue.                                     *)
LEMMA UdpTailRange ==
  ASSUME U!TcpTypeOK, udpEvents # <<>>
  PROVE  /\ Range(Tail(udpEvents)) \subseteq Range(udpEvents)
         /\ Range(udpEvents) \subseteq Range(Tail(udpEvents)) \cup {Head(udpEvents)}
         /\ Head(udpEvents) \in Range(udpEvents)
<1>1. /\ udpEvents \in Seq(U!TcpTypes) /\ Len(udpEvents) \in Nat \ {0}
      /\ DOMAIN udpEvents = 1..Len(udpEvents) /\ Head(udpEvents) = udpEvents[1]
  BY DEF U!TcpTypeOK
<1>2. /\ DOMAIN Tail(udpEvents) = 1..(Len(udpEvents) - 1)
      /\ \A i \in 1..(Len(udpEvents) - 1) : Tail(udpEvents)[i] = udpEvents[i + 1]
  BY <1>1
<1>3. \A i \in 1..Len(udpEvents) : i = 1 \/ (i - 1 \in 1..(Len(udpEvents) - 1) /\ (i - 1) + 1 = i)
  BY <1>1
<1>4. \A i \in 1..(Len(udpEvents) - 1) : i + 1 \in 1..Len(udpEvents)
  BY <1>1
<1>5. 1 \in 1..Len(udpEvents)
  BY <1>1
<1>6. ASSUME NEW i \in 1..Len(udpEvents)
      PROVE  udpEvents[i] \in Range(Tail(udpEvents)) \cup {Head(udpEvents)}
  <2>1. CASE i = 1
    BY <1>1, <2>1
  <2>2. CASE i # 1
    <3>1. i - 1 \in DOMAIN Tail(udpEvents) /\ udpEvents[i] = Tail(udpEvents)[i - 1]
      BY <1>2, <1>3, <2>2
    <3> QED
      BY <3>1 DEF Range
  <2> QED
    BY <2>1, <2>2
<1> QED
  BY <1>1, <1>2, <1>4, <1>5, <1>6 DEF Range

(* A step of the machine keeps it quiet, warm or cold.                     *)
LEMMA UdpProcessKeeps ==
  ASSUME UdpInv, UdpLive, U!TcpProcess
  PROVE  UdpKeeps
<1> USE DEF UdpKeeps, UdpQuiet, UdpWarm, UdpCold, UdpLive, QuietOf, WarmOf, ColdOf, LiveOf,
            None
<1> DEFINE now   == Range(udpEvents)
           rest  == Range(Tail(udpEvents))
           h     == Head(udpEvents)
<1>1. udpEvents # <<>> /\ udpEvents # U!Ghost
  <2>1. udpEvents # <<>> /\ h # "GHOST"
    BY DEF U!TcpProcess, U!ParametersMissing, U!StartOpening, U!OpenSocket, U!Retain, U!Send,
           U!StartReceive, U!Receive, U!ReceiveTimedOut, U!ClosedByPeer, U!CloseSocket,
           U!TcpUnhandled, U!TcpPop, U!TcpIgnores, U!TcpStates, U!Connected
  <2>2. Head(U!Ghost) = "GHOST"
    BY DEF U!Ghost
  <2> QED
    BY <2>1, <2>2
<1>2. /\ rest \subseteq now /\ now \subseteq rest \cup {h} /\ h \in now
      /\ Tail(udpEvents) \in Seq(U!TcpTypes) /\ h \in U!TcpTypes
  BY <1>1, UdpTailRange, UdpPopType DEF UdpInv
<1>3. "GHOST" \notin now /\ "GHOST" \notin rest
  BY <1>1, <1>2 DEF U!Ghost
<1>4. Tail(udpEvents) # U!Ghost
  <2>1. Range(U!Ghost) = {"GHOST"}
    BY Singles DEF U!Ghost
  <2> QED
    BY <1>3, <2>1
<1>5. ASSUME NEW event \in U!TcpTypes \ {"GHOST"}
      PROVE  LET added == Range(U!TcpAdd(Tail(udpEvents), event)) IN
             /\ event \in added /\ added \subseteq rest \cup {event}
             /\ "GHOST" \notin added
             /\ U!TcpAdd(Tail(udpEvents), event) \in Seq(U!TcpTypes)
  <2>1. event \in U!TcpTypes /\ None(Tail(udpEvents), {"GHOST"})
    BY <1>3
  <2> QED
    <3> DEFINE added == Range(U!TcpAdd(Tail(udpEvents), event))
    <3>1. event \in added /\ added \subseteq rest \cup {event}
      BY <1>2, <1>4, <2>1, UdpAddRange
    <3>2. U!TcpAdd(Tail(udpEvents), event) \in Seq(U!TcpTypes)
      BY <1>2, <2>1, UdpAddType
    <3> HIDE DEF added
    <3>3. "GHOST" \notin added
      BY <1>3, <3>1
    <3> QED
      BY <3>1, <3>2, <3>3 DEF added
<1>6. /\ Range(<<>>) = {} /\ Range(<<"TIMEOUT">>) = {"TIMEOUT"}
      /\ Range(<<"SEND">>) = {"SEND"}
  BY Singles
<1>7. udpTimer = 1 => udpState = "RECEIVE"
  BY DEF UdpInv, U!TcpConsistent, U!TcpTypeOK
<1>8. udpSockets \in Nat
  BY DEF UdpInv, U!TcpTypeOK
<1>9. \A n \in Nat : n - 1 <= n /\ n <= n
  OBVIOUS
<1> HIDE DEF now, rest, h
<1>10. CASE U!ParametersMissing \/ U!TcpUnhandled
  <2>1. /\ udpEvents' = Tail(udpEvents) /\ udpState' = udpState /\ udpSockets' = udpSockets
        /\ udpState = "RECEIVE" => h = "OPEN_SOCKET"
    BY <1>10 DEF U!ParametersMissing, U!TcpUnhandled, U!TcpPop, U!TcpIgnores, h
  <2> QED
    BY <1>2, <1>3, <1>8, <1>9, <2>1 DEF now, rest
<1>11. CASE U!StartOpening
  <2>1. udpState' = "OPENING" /\ h \in {"SEND", "RECEIVE"}
        /\ udpEvents' = U!TcpAdd(U!TcpAdd(Tail(udpEvents), h), "OPEN_SOCKET")
    BY <1>11 DEF U!StartOpening, U!TcpPop, U!TcpTransition, h
  <2> DEFINE once == U!TcpAdd(Tail(udpEvents), h)
  <2>2. h \in U!TcpTypes \ {"GHOST"} /\ "OPEN_SOCKET" \in U!TcpTypes
    BY <1>2, <2>1 DEF U!TcpTypes
  <2>3. /\ once \in Seq(U!TcpTypes)
        /\ Range(once) \subseteq rest \cup {h} /\ "GHOST" \notin Range(once)
    BY <1>5, <2>2
  <2>4. once # U!Ghost
    <3>1. Range(U!Ghost) = {"GHOST"}
      BY Singles DEF U!Ghost
    <3> QED
      BY <2>3, <3>1
  <2> HIDE DEF once
  <2>5. Range(U!TcpAdd(once, "OPEN_SOCKET")) \subseteq Range(once) \cup {"OPEN_SOCKET"}
    BY <2>2, <2>3, <2>4, UdpAddRange
  <2>6. Range(udpEvents') \subseteq now \cup {"OPEN_SOCKET"}
    BY <1>2, <2>1, <2>3, <2>5 DEF once
  <2> QED
    BY <1>2, <1>3, <2>1, <2>6 DEF now
<1>12. CASE U!OpenSocket
  <2>1. h = "OPEN_SOCKET" /\ udpState = "OPENING" /\ udpState' # "RECEIVE"
        /\ udpEvents' \in {<<>>, Tail(udpEvents), U!TcpAdd(Tail(udpEvents), "OPEN_SOCKET")}
    BY <1>12 DEF U!OpenSocket, U!TcpPop, U!TcpTransition, h
  <2>2. Range(U!TcpAdd(Tail(udpEvents), "OPEN_SOCKET")) \subseteq rest \cup {"OPEN_SOCKET"}
    BY <1>5 DEF U!TcpTypes
  <2>3. Range(udpEvents') \subseteq now
    BY <1>2, <1>6, <2>1, <2>2 DEF rest
  <2> QED
    BY <1>2, <1>3, <2>1, <2>3 DEF now
<1>13. CASE U!Retain
  <2>1. /\ udpEvents' = U!TcpAdd(Tail(udpEvents), h) /\ udpState' = udpState
        /\ udpSockets' = udpSockets /\ udpState = "OPENING" /\ h \in {"SEND", "RECEIVE"}
    BY <1>13 DEF U!Retain, U!TcpPop, h
  <2>2. h \in U!TcpTypes \ {"GHOST"}
    BY <1>2, <2>1
  <2>3. Range(udpEvents') \subseteq rest \cup {h}
    BY <1>5, <2>1, <2>2
  <2>4. Range(udpEvents') \subseteq now
    BY <1>2, <2>3
  <2> QED
    BY <1>2, <1>3, <1>8, <1>9, <2>1, <2>4 DEF now
<1>14. CASE U!Send \/ U!CloseSocket
  <2>1. /\ udpEvents' \in {<<>>, Tail(udpEvents)} /\ udpState' # "RECEIVE"
        /\ udpSockets' \in {udpSockets, udpSockets - 1}
    BY <1>14 DEF U!Send, U!CloseSocket, U!EnterClosing, U!TcpPop, U!TcpTransition, U!ClosesSocket,
                 U!CloseFails
  <2>2. Range(udpEvents') \subseteq rest
    BY <1>6, <2>1 DEF rest
  <2> QED
    BY <1>2, <1>3, <1>8, <1>9, <2>1, <2>2 DEF now
<1>15. CASE U!StartReceive
  <2>1. h = "RECEIVE" /\ udpEvents' = U!TcpAdd(Tail(udpEvents), "RECEIVE")
    BY <1>15 DEF U!StartReceive, U!TcpPop, h
  <2>2. "RECEIVE" \in Range(udpEvents') /\ "GHOST" \notin Range(udpEvents')
    BY <1>5, <2>1 DEF U!TcpTypes, U!TcpCalls
  <2> QED
    BY <1>2, <2>1, <2>2 DEF now
<1>16. CASE U!Receive
  <2>1. /\ h = "RECEIVE"
        /\ \/ udpEvents' = Tail(udpEvents) /\ udpState' = "OPENED"
           \/ udpEvents' = U!TcpAdd(Tail(udpEvents), "RECEIVE")
           \/ U!ClearTcpEvents /\ udpState' = "CLOSED"
    BY <1>16 DEF U!Receive, U!TcpPop, U!TcpTransition, h
  <2>2. CASE udpEvents' = Tail(udpEvents) /\ udpState' = "OPENED"
    BY <1>2, <1>3, <2>1, <2>2 DEF now, rest
  <2>3. CASE udpEvents' = U!TcpAdd(Tail(udpEvents), "RECEIVE")
    <3>1. "RECEIVE" \in Range(udpEvents') /\ "GHOST" \notin Range(udpEvents')
      BY <1>5, <2>3 DEF U!TcpTypes, U!TcpCalls
    <3> QED
      BY <1>2, <2>1, <3>1 DEF now
  <2>4. CASE U!ClearTcpEvents /\ udpState' = "CLOSED"
    BY <1>2, <1>6, <2>1, <2>4 DEF U!ClearTcpEvents, U!Ghost, now
  <2> QED
    BY <2>1, <2>2, <2>3, <2>4
<1>17. CASE U!ReceiveTimedOut
  BY <1>6, <1>17 DEF U!ReceiveTimedOut, U!TcpPop, U!TcpTransition
<1>18. CASE U!ClosedByPeer
  <2>1. U!ClearTcpEvents /\ udpState' = "CLOSED" /\ udpSockets' = udpSockets
    BY <1>18 DEF U!ClosedByPeer, U!TcpTransition
  <2>2. udpState # "RECEIVE" => udpEvents' = <<>>
    BY <1>7, <2>1 DEF U!ClearTcpEvents
  <2>3. udpEvents' = U!Ghost \/ "GHOST" \notin Range(udpEvents')
    BY <1>6, <2>1 DEF U!ClearTcpEvents
  <2> QED
    BY <1>6, <1>8, <1>9, <2>1, <2>2, <2>3 DEF U!Ghost
<1> QED
  BY <1>10, <1>11, <1>12, <1>13, <1>14, <1>15, <1>16, <1>17, <1>18 DEF U!TcpProcess

(* So does an event that is added from outside but for a send or receive.  *)
LEMMA UdpAddKeeps ==
  ASSUME UdpInv, UdpLive, NEW event \in U!TcpTypes \ {"OPEN_SOCKET", "GHOST"},
         udpEvents' = U!TcpAdd(udpEvents, event), udpState' = udpState,
         udpSockets' = udpSockets
  PROVE  /\ UdpLive'
         /\ event \notin {"SEND", "RECEIVE"} => UdpKeeps
         /\ event = "CLOSE_SOCKET" /\ UdpQuiet => UdpWarm'
<1> USE DEF UdpKeeps, UdpQuiet, UdpWarm, UdpCold, UdpLive, QuietOf, WarmOf, ColdOf, LiveOf,
            None
<1>1. udpEvents \in Seq(U!TcpTypes) /\ udpSockets \in Nat /\ udpSockets <= udpSockets
  BY DEF UdpInv, U!TcpTypeOK
<1>2. udpEvents = U!Ghost \/ "GHOST" \notin Range(udpEvents)
  BY DEF U!Ghost
<1>3. Range(U!Ghost) = {"GHOST"}
  BY Singles DEF U!Ghost
<1>4. /\ event \in Range(udpEvents')
      /\ udpEvents # U!Ghost => Range(udpEvents') \subseteq Range(udpEvents) \cup {event}
      /\ udpEvents = U!Ghost => Range(udpEvents') = {"SEND", event}
  BY <1>1, <1>2, UdpAddRange
<1>5. "GHOST" \notin Range(udpEvents')
  BY <1>2, <1>4
<1>6. UdpLive'
  BY <1>3, <1>4, <1>5
<1>7. ASSUME event \notin {"SEND", "RECEIVE"} PROVE UdpKeeps
  BY <1>1, <1>3, <1>4, <1>6, <1>7
<1>8. ASSUME event = "CLOSE_SOCKET", UdpQuiet PROVE UdpWarm'
  BY <1>3, <1>4, <1>5, <1>8
<1> QED
  BY <1>6, <1>7, <1>8

(* A call to close makes a quiet machine a warm one.                       *)
LEMMA UdpCloseKeeps ==
  ASSUME UdpInv, UdpLive, U!CallTcp("CLOSE_SOCKET")
  PROVE  UdpKeeps /\ (UdpQuiet => UdpWarm')
BY UdpAddKeeps DEF U!CallTcp, U!TcpTypes, U!TcpCalls

(* Any call leaves the machine live.                                       *)
LEMMA UdpCallLives ==
  ASSUME UdpInv, UdpLive, NEW operation \in U!TcpCalls, U!CallTcp(operation)
  PROVE  UdpLive'
<1>1. operation \in U!TcpTypes \ {"OPEN_SOCKET", "GHOST"}
  BY DEF U!TcpTypes, U!TcpCalls
<1> QED
  BY <1>1, UdpAddKeeps DEF U!CallTcp

(* The clock and the chip keep it quiet, warm or cold.                     *)
LEMMA UdpOthersKeep ==
  ASSUME UdpInv, UdpLive,
         U!TcpSecond \/ U!SocketClosed \/ U!ChipStopped \/ UNCHANGED udpVars
  PROVE  UdpKeeps
<1>1. ASSUME UNCHANGED <<udpEvents, udpState>>, udpSockets' \in {0, udpSockets}
      PROVE  UdpKeeps
  <2>1. udpSockets' <= udpSockets
    BY <1>1 DEF UdpInv, U!TcpTypeOK
  <2> QED
    BY <1>1, <2>1
    DEF UdpKeeps, UdpLive, UdpQuiet, UdpWarm, UdpCold, QuietOf, WarmOf, ColdOf, LiveOf, None
<1>2. CASE U!TcpSecond
  <2>1. CASE udpTimer = 1
    BY <1>2, <2>1, UdpAddKeeps DEF U!TcpSecond, U!TcpTypes
  <2>2. CASE udpTimer # 1
    BY <1>1, <1>2, <2>2 DEF U!TcpSecond
  <2> QED
    BY <1>2, <2>1, <2>2
<1>3. CASE U!SocketClosed
  BY <1>3, UdpAddKeeps DEF U!SocketClosed, U!TcpTypes
<1>4. CASE U!ChipStopped
  BY <1>1, <1>4 DEF U!ChipStopped
<1>5. CASE UNCHANGED udpVars
  BY <1>1, <1>5 DEF udpVars
<1> QED
  BY <1>2, <1>3, <1>4, <1>5

(* A machine that has nothing to do is not receiving; a warm one is cold.  *)
LEMMA UdpIdleMeans ==
  ASSUME U!TcpIdle, UdpLive
  PROVE  UdpQuiet /\ (UdpWarm => UdpCold)
<1>1. Range(<<>>) = {} /\ Range(U!Ghost) = {"GHOST"}
  BY Singles DEF U!Ghost
<1> QED
  BY <1>1 DEF U!TcpIdle, UdpLive, UdpQuiet, UdpWarm, UdpCold, QuietOf, WarmOf, ColdOf, LiveOf, None

HIDE TcpAssumption

-------------------------------------------------------------------------------
(***************************************************************************)
(* The queue of the WiFi machine.                                          *)
(***************************************************************************)

(* pop_event.                                                              *)
LEMMA TailEvents ==
  ASSUME NEW S, NEW q \in Seq(S), q # <<>>
  PROVE  /\ Tail(q) \in Seq(S) /\ Len(Tail(q)) = Len(q) - 1 /\ Len(q) \in Nat \ {0}
         /\ Head(q) \in S /\ Head(q) \in Range(q)
         /\ Range(Tail(q)) \subseteq Range(q)
         /\ Range(q) \subseteq Range(Tail(q)) \cup {Head(q)}
<1>1. /\ Len(q) \in Nat \ {0} /\ DOMAIN q = 1..Len(q) /\ Head(q) = q[1]
  OBVIOUS
<1>2. /\ Tail(q) \in Seq(S) /\ Len(Tail(q)) = Len(q) - 1
      /\ DOMAIN Tail(q) = 1..(Len(q) - 1)
      /\ \A i \in 1..(Len(q) - 1) : Tail(q)[i] = q[i + 1]
  OBVIOUS
<1>3. \A i \in 1..(Len(q) - 1) : i + 1 \in 1..Len(q)
  BY <1>1
<1>4. 1 \in 1..Len(q) /\ q[1] \in S
  BY <1>1
<1>5. ASSUME NEW i \in 1..Len(q) PROVE q[i] \in Range(Tail(q)) \cup {Head(q)}
  <2>1. CASE i = 1
    BY <1>1, <2>1
  <2>2. CASE i # 1
    <3>1. i - 1 \in DOMAIN Tail(q) /\ q[i] = Tail(q)[i - 1]
      BY <1>1, <1>2, <2>2
    <3> QED
      BY <3>1 DEF Range
  <2> QED
    BY <2>1, <2>2
<1> QED
  BY <1>1, <1>2, <1>3, <1>4, <1>5 DEF Range

(* add_event_type.                                                         *)
LEMMA PutEvents ==
  ASSUME NEW S, NEW q \in Seq(S), NEW e \in S, NEW n \in Nat \ {0}, Len(q) <= n
  PROVE  LET p == Put(q, e, n) IN
         /\ p \in Seq(S) /\ Len(p) <= n /\ p # <<>>
         /\ e \in Range(p) /\ Range(p) \subseteq Range(q) \cup {e}
         /\ Len(q) < n => p = Append(q, e) /\ Range(q) \subseteq Range(p)
<1> DEFINE p == Put(q, e, n)
<1>1. p \in Seq(S)
  BY PutType
<1>2. PICK d \in {0, 1} :
        /\ Len(p) \in Nat /\ Len(p) = Len(q) + 1 - d /\ p[Len(p)] = e
        /\ \A i \in 1..(Len(p) - 1) : i + d \in 1..Len(q) /\ p[i] = q[i + d]
  BY PutPlaces
<1>3. Len(p) <= n /\ Len(p) # 0
  <2>1. CASE Len(q) < n
    <3>1. p = Append(q, e)
      BY <2>1 DEF Put
    <3> QED
      BY <2>1, <3>1
  <2>2. CASE ~(Len(q) < n)
    <3>1. p = Append(Tail(q), e) /\ q # <<>>
      BY <2>2 DEF Put
    <3> QED
      BY <3>1
  <2> QED
    BY <2>1, <2>2
<1>4. /\ DOMAIN p = 1..Len(p) /\ DOMAIN q = 1..Len(q)
      /\ \A i \in 1..Len(p) : i \in 1..(Len(p) - 1) \/ i = Len(p)
      /\ Len(p) \in 1..Len(p)
  BY SMTT(30), <1>1, <1>2, <1>3
<1>5. Len(q) < n => p = Append(q, e)
  BY DEF Put
<1>6. Len(q) < n => Range(q) \subseteq Range(p)
  <2> SUFFICES ASSUME Len(q) < n, NEW i \in 1..Len(q) PROVE q[i] \in Range(p)
    BY <1>4 DEF Range
  <2>1. Append(q, e)[i] = q[i] /\ i \in DOMAIN Append(q, e)
    OBVIOUS
  <2> QED
    BY <1>5, <2>1 DEF Range
<1>7. p # <<>>
  BY <1>3
<1> HIDE DEF p
<1>8. e \in Range(p) /\ Range(p) \subseteq Range(q) \cup {e}
  BY <1>2, <1>4 DEF Range
<1> QED
  BY <1>1, <1>3, <1>5, <1>6, <1>7, <1>8 DEF p

(* None, in terms of places.                                               *)
LEMMA NoneIsNoPlace ==
  ASSUME NEW queue, NEW T, None(queue, T)
  PROVE  PlacesOf(queue, T) = {}
BY DEF None, PlacesOf, Range

(* And the other way round.                                                *)
LEMMA NoPlaceIsNone ==
  ASSUME NEW queue, NEW T, PlacesOf(queue, T) = {}
  PROVE  None(queue, T)
BY DEF None, PlacesOf, Range

(* An event of the set T that is not further from the end of the queue     *)
(* than "room", one of the set B behind it not counted.                    *)
BehindOf(queue, B, i) ==
  IF \E j \in DOMAIN queue : i < j /\ queue[j] \in B THEN 1 ELSE 0
NearOf(queue, T, B, room) ==
  \E i \in PlacesOf(queue, T) : Len(queue) - i <= room + BehindOf(queue, B, i)

(* Another event pushes it out only when a queue's length of events came   *)
(* after it.                                                               *)
LEMMA NearOfPut ==
  ASSUME NEW S, NEW T, NEW B, NEW q \in Seq(S), NEW e \in S, NEW n \in Nat \ {0},
         Len(q) <= n, NEW d \in Nat, n > d + 2, NearOf(q, T, B, d)
  PROVE  NearOf(Put(q, e, n), T, B, d + 1)
<1> DEFINE p == Put(q, e, n)
<1>1. PICK c \in {0, 1} :
        /\ Len(p) \in Nat /\ Len(p) = Len(q) + 1 - c
        /\ \A i \in 1..(Len(p) - 1) : i + c \in 1..Len(q) /\ p[i] = q[i + c]
  BY PutPlaces
<1>2. p \in Seq(S)
  BY PutType
<1>3. c = 1 => Len(q) = n
  <2> SUFFICES ASSUME Len(q) < n PROVE c = 0
    OBVIOUS
  <2>1. p = Append(q, e)
    BY DEF Put
  <2>2. Len(p) = Len(q) + 1
    BY <2>1
  <2> QED
    BY <1>1, <2>2
<1>4. PICK i \in PlacesOf(q, T) : Len(q) - i <= d + BehindOf(q, B, i)
  BY DEF NearOf
<1>5. i \in 1..Len(q) /\ q[i] \in T /\ BehindOf(q, B, i) \in {0, 1} /\ Len(q) \in Nat
  BY DEF PlacesOf, BehindOf
<1> HIDE DEF p
<1>6. i - c \in 1..(Len(p) - 1)
  BY <1>1, <1>3, <1>4, <1>5
<1>7. (i - c) + c = i /\ i - c \in DOMAIN p
  BY <1>1, <1>2, <1>5, <1>6
<1>8. p[i - c] = q[i]
  BY <1>1, <1>6, <1>7
<1>9. BehindOf(q, B, i) <= BehindOf(p, B, i - c) /\ BehindOf(p, B, i - c) \in {0, 1}
  <2>1. ASSUME NEW j \in DOMAIN q, i < j, q[j] \in B
        PROVE  j - c \in DOMAIN p /\ i - c < j - c /\ p[j - c] \in B
    <3>0. j \in 1..Len(q) /\ i < j /\ i \in 1..Len(q) /\ Len(p) = Len(q) + 1 - c
      BY <1>1, <1>5, <2>1
    <3>1. j \in 1..Len(q) /\ j - c \in 1..(Len(p) - 1) /\ (j - c) + c = j /\ i - c < j - c
      BY <1>1, <1>5, <1>6, <3>0
    <3>2. p[j - c] = q[j]
      BY <1>1, <3>1
    <3>3. j - c \in DOMAIN p
      BY <1>1, <1>2, <3>1
    <3> QED
      BY <2>1, <3>1, <3>2, <3>3
  <2>2. CASE \E j \in DOMAIN q : i < j /\ q[j] \in B
    <3>1. BehindOf(p, B, i - c) = 1
      BY <2>1, <2>2 DEF BehindOf
    <3> QED
      BY <1>5, <3>1
  <2>3. CASE ~\E j \in DOMAIN q : i < j /\ q[j] \in B
    <3>1. BehindOf(q, B, i) = 0 /\ BehindOf(p, B, i - c) \in {0, 1}
      BY <2>3 DEF BehindOf
    <3> QED
      BY <3>1
  <2> QED
    BY <2>2, <2>3
<1>10. Len(p) - (i - c) <= (d + 1) + BehindOf(p, B, i - c)
  BY <1>1, <1>4, <1>5, <1>9
<1>11. i - c \in PlacesOf(p, T)
  BY <1>5, <1>7, <1>8 DEF PlacesOf
<1>12. NearOf(p, T, B, d + 1)
  BY <1>10, <1>11 DEF NearOf
<1> QED
  BY <1>12 DEF p

(* One that is added is at the end of the queue.                           *)
LEMMA NearOfNew ==
  ASSUME NEW S, NEW T, NEW B, NEW q \in Seq(S), NEW e \in S \cap T, NEW n \in Nat \ {0},
         NEW d \in Nat
  PROVE  NearOf(Put(q, e, n), T, B, d)
<1> DEFINE p == Put(q, e, n)
<1>1. p \in Seq(S) /\ Len(p) \in Nat /\ p[Len(p)] = e /\ Len(p) # 0
  <2>1. p \in Seq(S)
    BY PutType
  <2>2. p[Len(p)] = e
    BY PutPlaces
  <2>3. p # <<>>
    <3>1. CASE Len(q) < n
      <4>1. p = Append(q, e)
        BY <3>1 DEF Put
      <4> HIDE DEF p
      <4> QED
        BY <4>1
    <3>2. CASE ~(Len(q) < n)
      <4>1. p = Append(Tail(q), e) /\ q # <<>>
        BY <3>2 DEF Put
      <4> HIDE DEF p
      <4> QED
        BY <4>1
    <3> QED
      BY <3>1, <3>2
  <2> HIDE DEF p
  <2> QED
    BY <2>1, <2>2, <2>3
<1> HIDE DEF p
<1>2. Len(p) \in PlacesOf(p, T)
  BY <1>1 DEF PlacesOf
<1>3. BehindOf(p, B, Len(p)) \in {0, 1}
  BY DEF BehindOf
<1>4. Len(p) - Len(p) <= d + BehindOf(p, B, Len(p))
  BY <1>1, <1>3
<1>5. NearOf(p, T, B, d)
  BY <1>2, <1>4 DEF NearOf
<1> QED
  BY <1>5 DEF p

(* Popping another event; and adding one of B again when the only one is   *)
(* popped.                                                                 *)
LEMMA NearOfTail ==
  ASSUME NEW S, NEW T, NEW B, NEW q \in Seq(S), q # <<>>, NEW d \in Nat,
         NearOf(q, T, B, d), Head(q) \notin T, NEW e \in B
  PROVE  /\ NearOf(Tail(q), T, B, d)
         /\ Head(q) \in B /\ AtMostOne(q, B) => NearOf(Append(Tail(q), e), T, B, d)
<1> DEFINE t == Tail(q)
           p == Append(Tail(q), e)
<1>1. PICK i \in PlacesOf(q, T) : Len(q) - i <= d + BehindOf(q, B, i)
  BY DEF NearOf
<1>2. /\ DOMAIN q = 1..Len(q) /\ Len(q) \in Nat \ {0} /\ Head(q) = q[1] /\ q[i] \in T
      /\ i \in 1..Len(q) /\ i # 1 /\ i - 1 \in 1..(Len(q) - 1) /\ BehindOf(q, B, i) \in {0, 1}
      /\ (i - 1) + 1 = i
  BY DEF PlacesOf, BehindOf
<1>3. /\ DOMAIN t = 1..(Len(q) - 1) /\ Len(t) = Len(q) - 1
      /\ \A k \in 1..(Len(q) - 1) : t[k] = q[k + 1]
  OBVIOUS
<1>4. NearOf(t, T, B, d)
  <2> HIDE DEF t
  <2>1. i - 1 \in PlacesOf(t, T)
    BY <1>2, <1>3 DEF PlacesOf
  <2>2. BehindOf(q, B, i) <= BehindOf(t, B, i - 1) /\ BehindOf(t, B, i - 1) \in {0, 1}
    <3>1. ASSUME NEW j \in DOMAIN q, i < j, q[j] \in B
          PROVE  j - 1 \in DOMAIN t /\ i - 1 < j - 1 /\ t[j - 1] \in B
      <4>1. j \in 1..Len(q) /\ j - 1 \in 1..(Len(q) - 1) /\ (j - 1) + 1 = j /\ i - 1 < j - 1
        BY <1>2, <3>1
      <4> QED
        BY <1>3, <3>1, <4>1
    <3>2. CASE \E j \in DOMAIN q : i < j /\ q[j] \in B
      <4>1. BehindOf(t, B, i - 1) = 1
        BY <3>1, <3>2 DEF BehindOf
      <4> QED
        BY <1>2, <4>1
    <3>3. CASE ~\E j \in DOMAIN q : i < j /\ q[j] \in B
      <4>1. BehindOf(q, B, i) = 0 /\ BehindOf(t, B, i - 1) \in {0, 1}
        BY <3>3 DEF BehindOf
      <4> QED
        BY <4>1
    <3> QED
      BY <3>2, <3>3
  <2>3. Len(t) - (i - 1) <= d + BehindOf(t, B, i - 1)
    BY <1>1, <1>2, <1>3, <2>2
  <2> QED
    BY <2>1, <2>3 DEF NearOf
<1>5. ASSUME Head(q) \in B, AtMostOne(q, B) PROVE NearOf(p, T, B, d)
  <2>1. /\ DOMAIN p = 1..Len(q) /\ Len(p) = Len(q) /\ p[Len(q)] = e
        /\ \A k \in 1..(Len(q) - 1) : p[k] = t[k]
    <3>1. t \in Seq(S) /\ Len(t) = Len(q) - 1 /\ Len(t) \in Nat
      BY <1>2
    <3> HIDE DEF t
    <3>2. /\ DOMAIN Append(t, e) = 1..(Len(t) + 1) /\ Len(Append(t, e)) = Len(t) + 1
          /\ Append(t, e)[Len(t) + 1] = e
          /\ \A k \in 1..Len(t) : Append(t, e)[k] = t[k]
      BY <3>1
    <3>3. Len(t) + 1 = Len(q)
      BY <1>2, <3>1
    <3> QED
      BY <3>1, <3>2, <3>3 DEF t
  <2> HIDE DEF p, t
  <2>2. BehindOf(q, B, i) = 0
    <3> SUFFICES ASSUME NEW j \in DOMAIN q, i < j, q[j] \in B PROVE FALSE
      BY DEF BehindOf
    <3>1. 1 \in PlacesOf(q, B) /\ j \in PlacesOf(q, B)
      BY <1>2, <1>5 DEF PlacesOf
    <3>2. j = 1
      BY <1>5, <3>1 DEF AtMostOne
    <3> QED
      BY <1>2, <3>2
  <2>3. i - 1 \in PlacesOf(p, T)
    <3>1. p[i - 1] = q[i] /\ i - 1 \in 1..Len(q)
      BY <1>2, <1>3, <2>1
    <3> QED
      BY <1>2, <2>1, <3>1 DEF PlacesOf
  <2>4. BehindOf(p, B, i - 1) = 1
    <3>1. Len(q) \in DOMAIN p /\ i - 1 < Len(q) /\ p[Len(q)] \in B
      BY <1>2, <2>1
    <3> QED
      BY <3>1 DEF BehindOf
  <2>5. Len(p) - (i - 1) <= d + BehindOf(p, B, i - 1)
    BY <1>1, <1>2, <2>1, <2>2, <2>4
  <2> QED
    BY <2>3, <2>5 DEF NearOf
<1> QED
  BY <1>4, <1>5

(* More may come after it than has come.                                   *)
LEMMA NearOfMore ==
  ASSUME NEW S, NEW T, NEW B, NEW q \in Seq(S), NEW d \in Nat, NEW e \in Nat, d <= e,
         NearOf(q, T, B, d)
  PROVE  NearOf(q, T, B, e)
<1>1. PICK i \in PlacesOf(q, T) : Len(q) - i <= d + BehindOf(q, B, i)
  BY DEF NearOf
<1>2. BehindOf(q, B, i) \in {0, 1} /\ Len(q) \in Nat /\ i \in Nat
  BY DEF BehindOf, PlacesOf
<1>3. Len(q) - i <= e + BehindOf(q, B, i)
  BY <1>1, <1>2
<1> QED
  BY <1>3 DEF NearOf

(* What is kept of a queue is what was in it but for the starts, in order. *)
LEMMA KeptExists ==
  ASSUME NEW S, NEW q \in Seq(S)
  PROVE  \E g \in [0..Len(q) -> Seq(S)] :
           g = [n \in 0..Len(q) |->
                  IF n = 0 THEN <<>>
                  ELSE IF q[n] \in Starts THEN g[n - 1] ELSE Append(g[n - 1], q[n])]
<1> DEFINE top == Len(q)
           Step(before, n) == IF q[n] \in Starts THEN before ELSE Append(before, q[n])
           Is(g, n) == g = [i \in 0..n |-> IF i = 0 THEN <<>> ELSE Step(g[i - 1], i)]
           T == {n \in 0..top : \E g \in [0..n -> Seq(S)] : Is(g, n)}
<1>1. 0 \in T
  <2>1. 0 \in 0..top /\ 0..0 = {0}
    OBVIOUS
  <2>2. [i \in 0..0 |-> <<>>] \in [0..0 -> Seq(S)]
    OBVIOUS
  <2>3. Is([i \in 0..0 |-> <<>>], 0)
    <3> HIDE DEF Step
    <3> QED
      BY <2>1
  <2> QED
    BY <2>1, <2>2, <2>3
<1>2. ASSUME NEW n \in 0..top, n < top, n \in T PROVE n + 1 \in T
  <2>1. PICK g \in [0..n -> Seq(S)] : Is(g, n)
    BY <1>2
  <2> DEFINE h == [i \in 0..(n + 1) |-> IF i = n + 1 THEN Step(g[n], n + 1) ELSE g[i]]
  <2>2. g[n] \in Seq(S) /\ q[n + 1] \in S
    <3>1. n \in 0..n /\ n + 1 \in 1..Len(q)
      BY <1>2
    <3> QED
      BY <3>1
  <2>3. Step(g[n], n + 1) \in Seq(S)
    BY <2>2
  <2> HIDE DEF Step
  <2>4. h \in [0..(n + 1) -> Seq(S)]
    <3> SUFFICES ASSUME NEW i \in 0..(n + 1), i # n + 1 PROVE g[i] \in Seq(S)
      BY <2>3
    <3>1. i \in 0..n
      OBVIOUS
    <3> QED
      BY <3>1
  <2>5. ASSUME NEW i \in 0..(n + 1)
        PROVE  h[i] = IF i = 0 THEN <<>> ELSE Step(h[i - 1], i)
    <3>1. CASE i = n + 1
      <4>1. h[i] = Step(g[n], n + 1) /\ i - 1 = n /\ n # n + 1 /\ n \in 0..(n + 1) /\ i # 0
        BY <3>1
      <4>2. h[n] = g[n]
        BY <4>1
      <4> QED
        BY <3>1, <4>1, <4>2
    <3>2. CASE i # n + 1
      <4>1. i \in 0..n /\ h[i] = g[i]
        BY <3>2
      <4>2. g[i] = IF i = 0 THEN <<>> ELSE Step(g[i - 1], i)
        BY <2>1, <4>1
      <4>3. i # 0 => i - 1 \in 0..(n + 1) /\ i - 1 # n + 1
        BY <4>1
      <4>4. i # 0 => h[i - 1] = g[i - 1]
        BY <4>3
      <4> QED
        BY <4>1, <4>2, <4>4
    <3> QED
      BY <3>1, <3>2
  <2>6. Is(h, n + 1)
    <3> HIDE DEF h
    <3> QED
      BY <2>4, <2>5
  <2>7. n + 1 \in 0..top
    BY <1>2
  <2> QED
    BY <2>4, <2>6, <2>7
<1>3. top \in Nat /\ top \in 0..top
  OBVIOUS
<1>4. top \in T
  <2> HIDE DEF T, top
  <2> QED
    BY <1>1, <1>2, <1>3, UpTo
<1> QED
  BY <1>4

(* So Kept is that function.                                               *)
LEMMA KeptIs ==
  ASSUME NEW S, NEW q \in Seq(S)
  PROVE  Kept(q) = [n \in 0..Len(q) |->
                      IF n = 0 THEN <<>>
                      ELSE IF q[n] \in Starts THEN Kept(q)[n - 1]
                      ELSE Append(Kept(q)[n - 1], q[n])]
<1> DEFINE Is(g) == g = [n \in 0..Len(q) |->
                           IF n = 0 THEN <<>>
                           ELSE IF q[n] \in Starts THEN g[n - 1]
                           ELSE Append(g[n - 1], q[n])]
<1>1. \E g : Is(g)
  BY KeptExists
<1>2. Kept(q) = CHOOSE g : Is(g)
  BY DEF Kept
<1> HIDE DEF Is
<1>3. Is(CHOOSE g : Is(g))
  BY <1>1
<1>4. Is(Kept(q))
  BY <1>2, <1>3
<1> QED
  BY <1>4 DEF Is

(* remove_send_and_receive_events: what is kept is no start, was in the    *)
(* queue, and in no greater number.                                        *)
LEMMA KeptEvents ==
  ASSUME NEW S, NEW q \in Seq(S), NEW T, AtMostOne(q, T)
  PROVE  LET p == RemoveSendAndReceive(q) IN
         /\ p \in Seq(S) /\ Len(p) <= Len(q) /\ AtMostOne(p, T)
         /\ Range(p) \subseteq Range(q) \ Starts
<1> DEFINE g == Kept(q)
           Good(n) ==
             /\ g[n] \in Seq(S) /\ Len(g[n]) <= n /\ AtMostOne(g[n], T)
             /\ \A i \in DOMAIN g[n] :
                  g[n][i] \notin Starts /\ \E j \in 1..n : g[n][i] = q[j]
           top == Len(q)
           good == {n \in 0..top : Good(n)}
<1>1. g = [n \in 0..top |->
             IF n = 0 THEN <<>>
             ELSE IF q[n] \in Starts THEN g[n - 1] ELSE Append(g[n - 1], q[n])]
  BY KeptIs
<1> HIDE DEF g
<1>2. top \in Nat
  OBVIOUS
<1>3. 0 \in good
  <2>1. 0 \in 0..top /\ g[0] = <<>>
    BY <1>1, <1>2
  <2>2. Good(0)
    BY <2>1 DEF AtMostOne, PlacesOf
  <2> QED
    BY <2>1, <2>2
<1>4. ASSUME NEW n \in 0..top, n < top, n \in good PROVE n + 1 \in good
  <2>1. n + 1 \in 0..top /\ n + 1 \in DOMAIN q /\ (n + 1) - 1 = n /\ n + 1 # 0
    BY <1>2, <1>4
  <2>2. Good(n)
    BY <1>4
  <2>3. g[n + 1] = IF q[n + 1] \in Starts THEN g[n] ELSE Append(g[n], q[n + 1])
    BY <1>1, <2>1
  <2>4. \A j \in 1..n : j \in 1..(n + 1)
    BY <1>2
  <2>5. CASE q[n + 1] \in Starts
    <3>1. Len(g[n]) <= n + 1
      BY <1>1, <2>2
    <3>2. Good(n + 1)
      BY <2>2, <2>3, <2>4, <2>5, <3>1
    <3> QED
      BY <2>1, <3>2
  <2>6. CASE q[n + 1] \notin Starts
    <3> DEFINE last == Len(g[n]) + 1
               p == Append(g[n], q[n + 1])
    <3>1. /\ p \in Seq(S) /\ Len(p) = last /\ last <= n + 1 /\ p[last] = q[n + 1]
          /\ DOMAIN p = 1..last /\ DOMAIN g[n] = 1..(last - 1)
          /\ \A i \in 1..(last - 1) : p[i] = g[n][i]
          /\ \A i \in 1..last : i = last \/ i \in 1..(last - 1)
      BY <2>1, <2>2
    <3> HIDE DEF p, last
    <3>2. ASSUME NEW i \in DOMAIN p
          PROVE  p[i] \notin Starts /\ \E j \in 1..(n + 1) : p[i] = q[j]
      <4>1. CASE i = last
        <5>1. n + 1 \in 1..(n + 1)
          OBVIOUS
        <5> QED
          BY <2>6, <3>1, <4>1, <5>1
      <4>2. CASE i \in 1..(last - 1)
        BY <2>2, <2>4, <3>1, <4>2
      <4> QED
        BY <3>1, <4>1, <4>2
    <3>3. AtMostOne(p, T)
      <4>1. ASSUME NEW i \in 1..(last - 1), p[i] \in T, q[n + 1] \in T PROVE FALSE
        <5>1. PICK j \in 1..n : p[i] = q[j]
          BY <2>2, <3>1
        <5>2. j \in DOMAIN q /\ j # n + 1
          BY <2>1
        <5> QED
          BY <2>1, <4>1, <5>1, <5>2 DEF AtMostOne, PlacesOf
      <4>2. ASSUME NEW i \in 1..(last - 1), NEW j \in 1..(last - 1), p[i] \in T, p[j] \in T
            PROVE  i = j
        <5>1. i \in PlacesOf(g[n], T) /\ j \in PlacesOf(g[n], T)
          BY <3>1, <4>2 DEF PlacesOf
        <5> QED
          BY <2>2, <5>1 DEF AtMostOne
      <4> QED
        BY <3>1, <4>1, <4>2 DEF AtMostOne, PlacesOf
    <3>4. Good(n + 1)
      <4>1. g[n + 1] = p
        BY <2>3, <2>6 DEF p
      <4> QED
        BY <3>1, <3>2, <3>3, <4>1
    <3> QED
      BY <2>1, <3>4
  <2> QED
    BY <2>5, <2>6
<1>5. top \in good
  <2> HIDE DEF good, top
  <2>1. top \in 0..top
    BY <1>2
  <2> QED
    BY <1>2, <1>3, <1>4, <2>1, UpTo
<1>6. Good(top)
  BY <1>5
<1>7. RemoveSendAndReceive(q) = g[top]
  BY DEF RemoveSendAndReceive, g
<1>8. Range(g[top]) \subseteq Range(q) \ Starts
  BY <1>6 DEF Range
<1> QED
  BY <1>6, <1>7, <1>8

-------------------------------------------------------------------------------
(***************************************************************************)
(* The invariant.                                                          *)
(***************************************************************************)

(* The events that an operation is or leaves behind, those that drive TCP  *)
(* or UDP, and the states in which the machine returns to the caller, or   *)
(* its timer runs.                                                         *)
Ops    == Calls \cup {"DISCONNECT_SOCKET_CLOSED", "STOP_SOCKET_CLOSED"}
Tokens == {"PROCESS", "DONE"}
Rests  == {"STOPPED", "DISCONNECTED", "CONNECTED"}
Timed  == Connecting \cup {"DISCONNECTING"}

Near(queue, room) == NearOf(queue, Tokens, Ops, room)
Ordered(queue) ==
  \A i, j \in DOMAIN queue : i < j /\ queue[i] \in Starts => queue[j] \notin Notices

(* One operation at a time, and none is started while a token of an        *)
(* earlier one is left.                                                    *)
CallsInv ==
  /\ AtMostOne(wifiEvents, Ops)
  /\ ~wifiBusy => wifiState \in Rests /\ None(wifiEvents, Ops \cup Tokens)
  /\ wifiState \in Exchanges => None(wifiEvents, Ops)
  /\ \/ None(wifiEvents, Starts)
     \/ None(wifiEvents, Tokens) /\ wifiState \in Rests \cup Connecting

(* Where tokens are, and that the socket machines are past opening and     *)
(* receiving when one is left over.                                        *)
TokensInv ==
  /\ wifiState \in Timed \cup {"CONNECTED"} => None(wifiEvents, Tokens)
  /\ wifiState \in Exchanges \cup {"CLOSING"} => AtMostOne(wifiEvents, Tokens)
  /\ wifiState = "RESET" => AtMostOne(wifiEvents, Tokens) \/ (TcpWarm /\ UdpWarm)
  /\ wifiState = "RESET" /\ ~None(wifiEvents, {"DONE"}) =>
       AtMostOne(wifiEvents, Tokens) \/ (TcpCold /\ UdpCold)
  /\ wifiState = "CLOSING" /\ ~None(wifiEvents, {"DONE"}) => TcpCold /\ UdpCold
  /\ wifiState \in {"STOPPED", "DISCONNECTED"} /\ ~None(wifiEvents, Tokens) =>
       TcpCold /\ UdpCold

MachinesInv ==
  /\ TcpLive /\ UdpLive
  /\ wifiState \notin Exchanges \cup {"RESET"} => TcpQuiet /\ UdpQuiet
  /\ wifiState = "CLOSING" => TcpWarm /\ UdpWarm
  /\ wifiState \in {"SEND", "RECEIVE"} => wifiHandle = "TCP" /\ UdpQuiet
  /\ wifiState \in {"SEND_TO", "RECEIVE_FROM"} => wifiHandle = "UDP" /\ TcpQuiet
  /\ ~None(wifiEvents, {"DONE"}) => TcpQuiet /\ UdpQuiet

(* The machine is kept running by an event that it does not ignore.  In    *)
(* RESET only a token is: behind it are the faults, what the access point  *)
(* has said, and the operation, at most.                                   *)
Wakes(state) ==
  CASE state = "CONNECTING_TO_AP" ->
         {"CONNECTING", "CONNECTED", "IP_ACQUIRED", "DISCONNECTED", "TIMEOUT", "ERROR"} \cup Exchanges
    [] state = "ACQUIRING_IP" ->
         {"ACQUIRING_IP", "IP_ACQUIRED", "DISCONNECTED", "TIMEOUT", "ERROR"} \cup Exchanges
    [] state = "DISCONNECTING" -> {"DISCONNECTING", "STOP", "DISCONNECTED", "TIMEOUT", "ERROR"}
    [] OTHER -> Tokens \cup {"DISCONNECTED", "ERROR"}

LinkSteps == [JOINING |-> 0, JOINED |-> 1, UP |-> 2, DOWN |-> 3][link]

AliveInv ==
  /\ wifiTimer > 0 => wifiState \in Timed
  /\ wifiState \in Timed \cup Exchanges \cup {"CLOSING"} => ~None(wifiEvents, Wakes(wifiState))
  /\ wifiState = "RESET" => Near(wifiEvents, faults + LinkSteps)

(* What the chip says belongs to the connection there is.                  *)
LinkInv ==
  /\ wifiState \in {"STOPPED", "DISCONNECTED"} => link = "DOWN" /\ Ordered(wifiEvents)
  /\ wifiState \in {"CONNECTED", "CLOSING", "DISCONNECTING"} \cup Exchanges =>
       link \in {"UP", "DOWN"}
  /\ wifiState = "ACQUIRING_IP" => link # "JOINING"
  /\ ~None(wifiEvents, {"CONNECTED"}) => link # "JOINING"
  /\ ~None(wifiEvents, {"IP_ACQUIRED"}) => link \in {"UP", "DOWN"}
  /\ ~None(wifiEvents, {"DISCONNECTED"}) => link = "DOWN"

SocketsInv ==
  /\ wifiState = "STOPPED" => tcpSockets = 0 /\ udpSockets = 0
  /\ wifiError = "FAILED" =>
       /\ wifiState \in {"RESET", "DISCONNECTED", "STOPPED"} /\ None(wifiEvents, Starts)
       /\ wifiState = "DISCONNECTED" => tcpSockets = 0 /\ udpSockets = 0

RunInv ==
  /\ WifiTypeOK /\ TcpConsistent /\ U!TcpConsistent
  /\ CallsInv /\ TokensInv /\ MachinesInv /\ AliveInv /\ LinkInv /\ SocketsInv

(* Another event pushes a token out only when a queue's length of events   *)
(* came after it.                                                          *)
LEMMA NearPut ==
  ASSUME NEW q \in Seq(WifiTypes), NEW e \in WifiTypes, NEW n \in Nat \ {0},
         Len(q) <= n, NEW d \in Nat, n > d + 2, Near(q, d)
  PROVE  Near(Put(q, e, n), d + 1)
BY NearOfPut DEF Near

(* A token that is added is at the end of the queue.                       *)
LEMMA NearNew ==
  ASSUME NEW q \in Seq(WifiTypes), NEW e \in WifiTypes \cap Tokens, NEW n \in Nat \ {0},
         NEW d \in Nat
  PROVE  Near(Put(q, e, n), d)
BY NearOfNew DEF Near

(* Popping an event that is no token; and adding STOP again when it was    *)
(* the operation that is popped.                                           *)
LEMMA NearTail ==
  ASSUME NEW q \in Seq(WifiTypes), q # <<>>, NEW d \in Nat, Near(q, d), Head(q) \notin Tokens
  PROVE  /\ Near(Tail(q), d)
         /\ Head(q) \in Ops /\ AtMostOne(q, Ops) => Near(Append(Tail(q), "STOP"), d)
<1>1. "STOP" \in Ops
  BY DEF Ops, Calls
<1> QED
  BY <1>1, NearOfTail DEF Near

(* No notice comes after what starts something.                            *)
LEMMA OrderedTail ==
  ASSUME NEW q \in Seq(WifiTypes), q # <<>>, Ordered(q)
  PROVE  /\ Ordered(Tail(q))
         /\ Head(q) \in Starts => None(Tail(q), Notices)
<1>1. /\ DOMAIN q = 1..Len(q) /\ Len(q) \in Nat \ {0} /\ Head(q) = q[1]
      /\ DOMAIN Tail(q) = 1..(Len(q) - 1)
      /\ \A k \in 1..(Len(q) - 1) : Tail(q)[k] = q[k + 1]
  OBVIOUS
<1>2. \A k \in 1..(Len(q) - 1) : k + 1 \in 1..Len(q) /\ 1 < k + 1 /\ 1 \in 1..Len(q)
  BY <1>1
<1>3. ASSUME NEW i \in 1..(Len(q) - 1), NEW j \in 1..(Len(q) - 1), i < j, Tail(q)[i] \in Starts
      PROVE  Tail(q)[j] \notin Notices
  <2>1. i + 1 < j + 1
    BY <1>3
  <2> QED
    BY <1>1, <1>2, <1>3, <2>1 DEF Ordered
<1>4. ASSUME Head(q) \in Starts, NEW j \in 1..(Len(q) - 1) PROVE Tail(q)[j] \notin Notices
  BY <1>1, <1>2, <1>4 DEF Ordered
<1> QED
  BY <1>1, <1>3, <1>4 DEF Ordered, None, Range

(* Adding what is no notice brings none behind a start.                    *)
LEMMA OrderedPut ==
  ASSUME NEW q \in Seq(WifiTypes), NEW e \in WifiTypes, NEW n \in Nat \ {0},
         Ordered(q), e \notin Notices
  PROVE  Ordered(Put(q, e, n))
<1> DEFINE p == Put(q, e, n)
<1>1. PICK c \in {0, 1} :
        /\ Len(p) \in Nat /\ Len(p) = Len(q) + 1 - c /\ p[Len(p)] = e
        /\ \A i \in 1..(Len(p) - 1) : i + c \in 1..Len(q) /\ p[i] = q[i + c]
  BY PutPlaces
<1>2. p \in Seq(WifiTypes)
  BY PutType
<1>3. DOMAIN p = 1..Len(p) /\ DOMAIN q = 1..Len(q)
  BY <1>2
<1> HIDE DEF p
<1>4. ASSUME NEW i \in 1..Len(p), NEW j \in 1..Len(p), i < j, p[i] \in Starts
      PROVE  p[j] \notin Notices
  <2>1. CASE j = Len(p)
    BY <1>1, <2>1
  <2>2. CASE j # Len(p)
    <3>1. i \in 1..(Len(p) - 1) /\ j \in 1..(Len(p) - 1)
      BY <1>1, <1>4, <2>2
    <3>2. i + c < j + c
      BY <1>4
    <3>3. /\ i + c \in DOMAIN q /\ j + c \in DOMAIN q
          /\ p[i] = q[i + c] /\ p[j] = q[j + c]
      BY <1>1, <1>3, <3>1
    <3> QED
      BY <1>4, <3>2, <3>3 DEF Ordered
  <2> QED
    BY <2>1, <2>2
<1> QED
  BY <1>3, <1>4 DEF Ordered, p

(* A queue without starts, or without notices, is in order.                *)
LEMMA OrderedNone ==
  ASSUME NEW q, None(q, Starts) \/ None(q, Notices)
  PROVE  Ordered(q)
BY DEF Ordered, None, Range

-------------------------------------------------------------------------------
(***************************************************************************)
(* What all steps have in common.                                          *)
(***************************************************************************)
LEMMA Colder ==
  /\ (TcpCold => TcpWarm) /\ (TcpWarm => TcpQuiet)
  /\ (UdpCold => UdpWarm) /\ (UdpWarm => UdpQuiet)
BY DEF TcpCold, TcpWarm, TcpQuiet, UdpCold, UdpWarm, UdpQuiet, ColdOf, WarmOf, QuietOf, None

(* What the lemmas about TCP and UDP ask for.                              *)
LEMMA SocketTypes ==
  ASSUME RunInv
  PROVE  TcpInv /\ UdpInv /\ TcpLive /\ UdpLive
BY DEF RunInv, WifiTypeOK, TcpInv, UdpInv, MachinesInv

(* What the WiFi machine does to TCP outside of an exchange's start.       *)
LEMMA TcpPart ==
  ASSUME RunInv,
         \/ UNCHANGED tcpVars \/ TcpProcess \/ CallTcp("CLOSE_SOCKET") \/ TcpSecond
         \/ SocketClosed \/ ChipStopped
  PROVE  TcpInv' /\ TcpKeeps /\ (CallTcp("CLOSE_SOCKET") /\ TcpQuiet => TcpWarm')
<1>1. TcpInv /\ TcpLive
  BY SocketTypes
<1>2. [TcpNext]_tcpVars
  BY DEF TcpNext, TcpCalls
<1> QED
  BY <1>1, <1>2, TcpStep, TcpProcessKeeps, TcpCloseKeeps, TcpOthersKeep

(* The same for UDP.                                                       *)
LEMMA UdpPart ==
  ASSUME RunInv,
         \/ UNCHANGED udpVars \/ UdpProcess \/ CallUdp("CLOSE_SOCKET") \/ UdpSecond
         \/ UdpStopped
  PROVE  UdpInv' /\ UdpKeeps /\ (CallUdp("CLOSE_SOCKET") /\ UdpQuiet => UdpWarm')
<1>1. UdpInv /\ UdpLive
  BY SocketTypes
<1>2. UdpProcess => U!TcpProcess
  BY DEF UdpProcess, UdpClosed, UdpOpening, UdpOpened, UdpReceive, UdpClosing, UdpUnhandled,
         U!TcpProcess
<1>3. CASE UNCHANGED udpVars
  BY <1>1, <1>3, UdpStep, UdpCloseKeeps, UdpOthersKeep DEF CallUdp
<1>4. CASE UdpProcess
  BY <1>1, <1>2, <1>4, UdpStep, UdpCloseKeeps, UdpProcessKeeps DEF U!TcpNext, CallUdp
<1>5. CASE CallUdp("CLOSE_SOCKET")
  BY <1>1, <1>5, UdpStep, UdpCloseKeeps DEF U!TcpNext, U!TcpCalls, CallUdp
<1>6. CASE UdpSecond \/ UdpStopped
  BY <1>1, <1>6, UdpStep, UdpOthersKeep, UdpCloseKeeps DEF U!TcpNext, UdpSecond, UdpStopped, CallUdp
<1> QED
  BY <1>3, <1>4, <1>5, <1>6

(* A socket machine that returns false is quiet, and cold if it was warm.  *)
LEMMA BothIdle ==
  ASSUME RunInv
  PROVE  /\ TcpIdle => TcpQuiet /\ (TcpWarm => TcpCold)
         /\ UdpIdle => UdpQuiet /\ (UdpWarm => UdpCold)
BY SocketTypes, TcpIdleMeans, UdpIdleMeans DEF UdpIdle

USE WifiAssumption

(* Popping and adding, in the invariant's terms.                           *)
LEMMA Popping ==
  ASSUME RunInv, wifiEvents # <<>>
  PROVE  /\ Popped \in Seq(WifiTypes)
         /\ Len(Popped) < WifiQueueSize /\ Len(Popped) <= WifiQueueSize
         /\ Head(wifiEvents) \in WifiTypes /\ Head(wifiEvents) \in Range(wifiEvents)
         /\ Range(Popped) \subseteq Range(wifiEvents)
         /\ Range(wifiEvents) \subseteq Range(Popped) \cup {Head(wifiEvents)}
         /\ AtMostOne(Popped, Ops)
         /\ Head(wifiEvents) \in Ops => None(Popped, Ops)
         /\ AtMostOne(wifiEvents, Tokens) => AtMostOne(Popped, Tokens)
         /\ AtMostOne(wifiEvents, Tokens) /\ Head(wifiEvents) \in Tokens => None(Popped, Tokens)
         /\ Ordered(wifiEvents) => Ordered(Popped)
         /\ Ordered(wifiEvents) /\ Head(wifiEvents) \in Starts => None(Popped, Notices)
<1>1. wifiEvents \in Seq(WifiTypes) /\ Len(wifiEvents) <= WifiQueueSize
  BY DEF RunInv, WifiTypeOK
<1>2. AtMostOne(wifiEvents, Ops)
  BY DEF RunInv, CallsInv
<1>3. Len(Popped) = Len(wifiEvents) - 1 /\ Len(wifiEvents) \in Nat
  BY <1>1, TailEvents DEF Popped
<1>4. Len(Popped) < WifiQueueSize /\ Len(Popped) <= WifiQueueSize
  BY <1>1, <1>3
<1>5. /\ AtMostOne(Popped, Ops)
      /\ Head(wifiEvents) \in Ops => None(Popped, Ops)
  BY <1>1, <1>2, TailTokens, NoPlaceIsNone DEF Popped
<1>6. ASSUME AtMostOne(wifiEvents, Tokens)
      PROVE  /\ AtMostOne(Popped, Tokens)
             /\ Head(wifiEvents) \in Tokens => None(Popped, Tokens)
  BY <1>1, <1>6, TailTokens, NoPlaceIsNone DEF Popped
<1>7. ASSUME Ordered(wifiEvents)
      PROVE  Ordered(Popped) /\ (Head(wifiEvents) \in Starts => None(Popped, Notices))
  BY <1>1, <1>7, OrderedTail DEF Popped
<1> QED
  BY <1>1, <1>4, <1>5, <1>6, <1>7, TailEvents DEF Popped

(* add_wifi_communication_module_event_type.                               *)
LEMMA Adding ==
  ASSUME NEW q \in Seq(WifiTypes), NEW e \in WifiTypes, Len(q) <= WifiQueueSize
  PROVE  LET p == WifiAdd(q, e) IN
         /\ p \in Seq(WifiTypes) /\ Len(p) <= WifiQueueSize /\ p # <<>>
         /\ e \in Range(p) /\ Range(p) \subseteq Range(q) \cup {e}
         /\ Len(q) < WifiQueueSize => Range(q) \subseteq Range(p) /\ p = Append(q, e)
         /\ AtMostOne(q, Ops) /\ (e \notin Ops \/ None(q, Ops)) => AtMostOne(p, Ops)
         /\ AtMostOne(q, Tokens) /\ (e \notin Tokens \/ None(q, Tokens)) => AtMostOne(p, Tokens)
         /\ Ordered(q) /\ e \notin Notices => Ordered(p)
<1> DEFINE p == WifiAdd(q, e)
<1>1. /\ p \in Seq(WifiTypes) /\ Len(p) <= WifiQueueSize /\ p # <<>>
      /\ e \in Range(p) /\ Range(p) \subseteq Range(q) \cup {e}
      /\ Len(q) < WifiQueueSize => Range(q) \subseteq Range(p) /\ p = Append(q, e)
  BY PutEvents DEF WifiAdd
<1>2. ASSUME NEW T, AtMostOne(q, T), e \notin T \/ None(q, T) PROVE AtMostOne(p, T)
  <2>1. CASE e \notin T
    BY <1>2, <2>1, PutOther DEF WifiAdd
  <2>2. CASE None(q, T)
    <3>1. PlacesOf(q, T) = {}
      BY <2>2, NoneIsNoPlace
    <3> QED
      BY <3>1, PutFirst DEF WifiAdd
  <2> QED
    BY <1>2, <2>1, <2>2
<1>3. Ordered(q) /\ e \notin Notices => Ordered(p)
  BY OrderedPut DEF WifiAdd
<1> HIDE DEF p
<1> QED
  BY <1>1, <1>2, <1>3 DEF p

(* None is at most one.                                                    *)
LEMMA NoneAtMostOne ==
  ASSUME NEW queue, NEW T, None(queue, T)
  PROVE  AtMostOne(queue, T)
BY NoneIsNoPlace DEF AtMostOne

(* How many events can have come after the token of a reset.               *)
LEMMA RoomIsNat ==
  ASSUME RunInv
  PROVE  faults \in Nat /\ LinkSteps \in Nat /\ faults + LinkSteps \in Nat /\ LinkSteps <= 3
<1>1. faults \in Nat /\ LinkSteps \in 0..3
  BY DEF RunInv, WifiTypeOK, LinkSteps
<1> QED
  BY <1>1

-------------------------------------------------------------------------------
(***************************************************************************)
(* The steps, one lemma per action or group of actions.                    *)
(***************************************************************************)
OthersTyped ==
  /\ wifiEvents \in Seq(WifiTypes) /\ Len(wifiEvents) <= WifiQueueSize
  /\ wifiState \in WifiStates
  /\ wifiTimer \in 0..ConnectingTimeout \cup 0..DisconnectTimeout
  /\ wifiError \in WifiErrors /\ wifiHandle \in {"NONE", "TCP", "UDP"}
  /\ link \in {"DOWN", "JOINING", "JOINED", "UP"} /\ faults \in 0..MaxFaults
  /\ wifiBusy \in BOOLEAN /\ wifiCall \in Calls

(* The machine's own types are part of the invariant.                      *)
LEMMA Typed == RunInv => OthersTyped
BY DEF RunInv, WifiTypeOK, OthersTyped

(* The invariant in the next state, from its parts there.                  *)
LEMMA Together ==
  ASSUME TcpInv', UdpInv', OthersTyped', CallsInv', TokensInv', MachinesInv', AliveInv',
         LinkInv', SocketsInv'
  PROVE  RunInv'
BY DEF RunInv, WifiTypeOK, OthersTyped, TcpInv, UdpInv

(* set_wifi_communication_module_error.                                    *)
LEMMA ErrorTyped ==
  ASSUME OthersTyped, NEW error \in WifiErrors, SetWifiError(error)
  PROVE  wifiError' \in WifiErrors
BY DEF SetWifiError, OthersTyped

(* The LEAVING_STATE handlers stop the timer, and nothing else started it. *)
LEMMA TimerStops ==
  ASSUME RunInv, NEW state, WifiTransition(state)
  PROVE  wifiState' = state /\ wifiTimer' = 0
<1>1. wifiTimer \in Nat
  BY DEF RunInv, WifiTypeOK
<1>2. wifiTimer > 0 => wifiState \in Timed
  BY DEF RunInv, AliveInv
<1>3. ~(wifiTimer > 0) => wifiTimer = 0
  BY <1>1
<1> QED
  BY <1>2, <1>3 DEF WifiTransition, Timed

(* A failure that clears the queue: nothing but a token is left to run the *)
(* reset, and a TIMEOUT or DISCONNECT in front of it at most.              *)
LEMMA FailAndResetKeeps ==
  ASSUME RunInv, FailAndReset, UNCHANGED <<wifiHandle, link, faults, wifiBusy, wifiCall>>,
         wifiBusy
  PROVE  RunInv'
<1> DEFINE now == Range(wifiEvents')
<1>1. PICK queue \in ClearedWifiEvents : EnterReset(queue)
  BY DEF FailAndReset
<1>2. /\ wifiState' = "RESET" /\ wifiTimer' = 0 /\ wifiEvents' = WifiAdd(queue, "PROCESS")
      /\ CallTcp("CLOSE_SOCKET") /\ CallUdp("CLOSE_SOCKET")
  BY <1>1, TimerStops DEF EnterReset, CloseSockets
<1>3. TcpInv' /\ UdpInv' /\ TcpKeeps /\ UdpKeeps
  BY <1>2, TcpPart, UdpPart
<1>4. /\ queue \in Seq(WifiTypes) /\ Len(queue) <= WifiQueueSize
      /\ Range(queue) \subseteq {"TIMEOUT", "DISCONNECT"}
      /\ AtMostOne(queue, Ops) /\ None(queue, Tokens)
  <2>1. ASSUME NEW e \in {"TIMEOUT", "DISCONNECT"}
        PROVE  /\ <<e>> \in Seq(WifiTypes) /\ Len(<<e>>) = 1 /\ Range(<<e>>) = {e}
               /\ AtMostOne(<<e>>, Ops)
    <3>1. e \in WifiTypes
      BY DEF WifiTypes, Calls
    <3>2. DOMAIN <<e>> = {1}
      OBVIOUS
    <3> QED
      BY <3>1, <3>2, Singles DEF AtMostOne, PlacesOf
  <2>2. /\ <<>> \in Seq(WifiTypes) /\ Len(<<>>) = 0 /\ Range(<<>>) = {} /\ AtMostOne(<<>>, Ops)
    <3>1. Range(<<>>) = {}
      BY Singles
    <3>2. DOMAIN <<>> = {}
      OBVIOUS
    <3>3. AtMostOne(<<>>, Ops)
      BY <3>2 DEF AtMostOne, PlacesOf
    <3> QED
      BY <3>1, <3>3
  <2>3. 0 <= WifiQueueSize /\ 1 <= WifiQueueSize
    OBVIOUS
  <2>4. queue = <<>> \/ queue = <<"TIMEOUT">> \/ queue = <<"DISCONNECT">>
    BY DEF ClearedWifiEvents
  <2>5. /\ queue \in Seq(WifiTypes) /\ Len(queue) <= WifiQueueSize
        /\ Range(queue) \subseteq {"TIMEOUT", "DISCONNECT"} /\ AtMostOne(queue, Ops)
    BY <2>1, <2>2, <2>3, <2>4
  <2> QED
    BY <2>5 DEF None, Tokens
<1>5. "PROCESS" \in WifiTypes
  BY DEF WifiTypes
<1>6. /\ wifiEvents' \in Seq(WifiTypes) /\ Len(wifiEvents') <= WifiQueueSize
      /\ now \subseteq {"TIMEOUT", "DISCONNECT", "PROCESS"}
      /\ AtMostOne(wifiEvents', Ops) /\ AtMostOne(wifiEvents', Tokens)
  <2>1. AtMostOne(queue, Tokens)
    BY <1>4, NoneAtMostOne
  <2>2. "PROCESS" \notin Ops
    BY DEF Ops, Calls, Starts, Exchanges
  <2> QED
    BY <1>2, <1>4, <1>5, <2>1, <2>2, Adding
<1>7. Near(wifiEvents, faults + LinkSteps)'
  <2>1. Near(wifiEvents', faults + LinkSteps)
    BY <1>2, <1>4, <1>5, RoomIsNat, NearNew DEF WifiAdd, Tokens
  <2>2. (faults + LinkSteps)' = faults + LinkSteps
    BY DEF LinkSteps
  <2> QED
    BY <2>1, <2>2
<1>8. wifiError' \in WifiErrors
  BY Typed, ErrorTyped DEF FailAndReset, WifiErrors
<1>9. OthersTyped'
  BY <1>2, <1>6, <1>8, Typed DEF OthersTyped, WifiStates
<1>10. CallsInv'
  BY <1>2, <1>6 DEF CallsInv, None, Starts, Exchanges
<1>11. TokensInv'
  BY <1>2, <1>6 DEF TokensInv, None, Timed, Connecting, Exchanges
<1>12. MachinesInv'
  BY <1>2, <1>3, <1>6 DEF MachinesInv, TcpKeeps, UdpKeeps, None, Exchanges
<1>13. AliveInv'
  BY <1>2, <1>7 DEF AliveInv, Timed, Connecting, Exchanges
<1>14. LinkInv'
  BY <1>2, <1>6 DEF LinkInv, None, Exchanges
<1>15. SocketsInv'
  BY <1>2, <1>6 DEF SocketsInv, None, Starts, Exchanges
<1> QED
  BY <1>3, <1>9, <1>10, <1>11, <1>12, <1>13, <1>14, <1>15, Together

(* A failure that keeps what is no start. An old token may be left beside  *)
(* the new one; then the socket machines are warm, and cold if it is DONE. *)
LEMMA FailAndRestartKeeps ==
  ASSUME RunInv, FailAndRestart, UNCHANGED <<wifiHandle, link, faults, wifiBusy, wifiCall>>,
         wifiBusy, wifiEvents # <<>>,
         wifiState \in {"DISCONNECTED", "CONNECTED", "CLOSING", "DISCONNECTING"},
         Head(wifiEvents) = "DONE" => wifiState = "CLOSING",
         Head(wifiEvents) # "PROCESS"
  PROVE  RunInv'
<1> DEFINE now == Range(wifiEvents')
           queue == RemoveSendAndReceive(Popped)
<1>1. /\ wifiState' = "RESET" /\ wifiTimer' = 0 /\ wifiEvents' = WifiAdd(queue, "PROCESS")
      /\ CallTcp("CLOSE_SOCKET") /\ CallUdp("CLOSE_SOCKET")
  BY TimerStops DEF FailAndRestart, EnterReset, CloseSockets
<1>2. TcpInv' /\ UdpInv' /\ TcpKeeps /\ UdpKeeps
  BY <1>1, TcpPart, UdpPart
<1>3. /\ Popped \in Seq(WifiTypes) /\ Len(Popped) <= WifiQueueSize
      /\ Range(Popped) \subseteq Range(wifiEvents) /\ AtMostOne(Popped, Ops)
      /\ AtMostOne(wifiEvents, Tokens) /\ Head(wifiEvents) \in Tokens => None(Popped, Tokens)
      /\ Head(wifiEvents) \in Range(wifiEvents)
  BY Popping
<1>4. /\ queue \in Seq(WifiTypes) /\ Len(queue) <= WifiQueueSize
      /\ Range(queue) \subseteq Range(Popped) \ Starts /\ AtMostOne(queue, Ops)
  <2>1. /\ queue \in Seq(WifiTypes) /\ Len(queue) <= Len(Popped)
        /\ Range(queue) \subseteq Range(Popped) \ Starts /\ AtMostOne(queue, Ops)
    BY <1>3, KeptEvents
  <2>2. Len(queue) \in Nat /\ Len(Popped) \in Nat
    BY <1>3, <2>1
  <2> HIDE DEF queue
  <2> QED
    BY <1>3, <2>1, <2>2
<1> HIDE DEF queue
<1>5. "PROCESS" \in WifiTypes /\ "PROCESS" \notin Ops
  BY DEF WifiTypes, Ops, Calls, Starts, Exchanges
<1>6. /\ wifiEvents' \in Seq(WifiTypes) /\ Len(wifiEvents') <= WifiQueueSize
      /\ now \subseteq (Range(Popped) \ Starts) \cup {"PROCESS"}
      /\ AtMostOne(wifiEvents', Ops)
      /\ None(queue, Tokens) => AtMostOne(wifiEvents', Tokens)
  BY <1>1, <1>4, <1>5, NoneAtMostOne, Adding
<1>7. None(Popped, Tokens) => AtMostOne(wifiEvents', Tokens)
  BY <1>4, <1>6 DEF None
<1>8. Near(wifiEvents, faults + LinkSteps)'
  <2>1. Near(wifiEvents', faults + LinkSteps)
    BY <1>1, <1>4, <1>5, RoomIsNat, NearNew DEF WifiAdd, Tokens
  <2>2. (faults + LinkSteps)' = faults + LinkSteps
    BY DEF LinkSteps
  <2> QED
    BY <2>1, <2>2
<1>9. OthersTyped'
  <2>1. wifiError' \in WifiErrors
    BY Typed, ErrorTyped DEF FailAndRestart, WifiErrors
  <2> QED
    BY <1>1, <1>6, <2>1, Typed DEF OthersTyped, WifiStates
<1>10. CallsInv'
  BY <1>1, <1>6 DEF CallsInv, None, Starts, Exchanges
<1>11. TokensInv'
  <2>1. CASE None(Popped, Tokens)
    BY <1>1, <1>7, <2>1 DEF TokensInv, Timed, Connecting, Exchanges
  <2>2. CASE ~None(Popped, Tokens)
    <3>1. ~None(wifiEvents, Tokens)
      BY <1>3, <2>2 DEF None
    <3>2. wifiState \in {"DISCONNECTED", "CLOSING"}
      BY <3>1 DEF RunInv, TokensInv, Timed
    <3>3. CASE wifiState = "DISCONNECTED"
      <4>1. TcpCold /\ UdpCold
        BY <3>1, <3>3 DEF RunInv, TokensInv
      <4>2. TcpCold' /\ UdpCold' /\ TcpWarm' /\ UdpWarm'
        BY <1>2, <4>1, Colder DEF TcpKeeps, UdpKeeps
      <4> QED
        BY <1>1, <4>2 DEF TokensInv, Timed, Connecting, Exchanges
    <3>4. CASE wifiState = "CLOSING"
      <4>1. TcpWarm' /\ UdpWarm'
        BY <1>2, <3>4 DEF RunInv, MachinesInv, TcpKeeps, UdpKeeps
      <4>2. Head(wifiEvents) \notin Tokens
        BY <1>3, <2>2, <3>4 DEF RunInv, TokensInv
      <4>3. "DONE" \in now => TcpCold /\ UdpCold
        BY <1>3, <1>6, <3>4 DEF RunInv, TokensInv, None
      <4>4. "DONE" \in now => TcpCold' /\ UdpCold'
        BY <1>2, <4>3 DEF TcpKeeps, UdpKeeps
      <4> QED
        BY <1>1, <4>1, <4>4 DEF TokensInv, None, Timed, Connecting, Exchanges
    <3> QED
      BY <3>2, <3>3, <3>4
  <2> QED
    BY <2>1, <2>2
<1>12. MachinesInv'
  <2>1. "DONE" \in now => TcpQuiet /\ UdpQuiet
    BY <1>3, <1>6 DEF RunInv, MachinesInv, None
  <2> QED
    BY <1>1, <1>2, <2>1 DEF MachinesInv, TcpKeeps, UdpKeeps, None, Exchanges
<1>13. AliveInv'
  BY <1>1, <1>8 DEF AliveInv, Timed, Connecting, Exchanges
<1>14. LinkInv'
  <2>1. now \subseteq Range(wifiEvents) \cup {"PROCESS"}
    BY <1>3, <1>6
  <2> QED
    BY <1>1, <2>1 DEF RunInv, LinkInv, None, Exchanges
<1>15. SocketsInv'
  BY <1>1, <1>6 DEF SocketsInv, None, Starts, Exchanges
<1> QED
  BY <1>2, <1>9, <1>10, <1>11, <1>12, <1>13, <1>14, <1>15, Together

(* The events that a state does not ignore.                                *)
LEMMA WhatWakes ==
  /\ Wakes("CONNECTING_TO_AP") = Exchanges \cup
       {"CONNECTING", "CONNECTED", "IP_ACQUIRED", "DISCONNECTED", "TIMEOUT", "ERROR"}
  /\ Wakes("ACQUIRING_IP") = Exchanges \cup
       {"ACQUIRING_IP", "IP_ACQUIRED", "DISCONNECTED", "TIMEOUT", "ERROR"}
  /\ Wakes("DISCONNECTING") = {"DISCONNECTING", "STOP", "DISCONNECTED", "TIMEOUT", "ERROR"}
  /\ \A state \in Exchanges \cup {"CLOSING"} :
       Wakes(state) = Tokens \cup {"DISCONNECTED", "ERROR"}
BY DEF Wakes, Exchanges

(* What the socket machines keep, in a step that leaves them alone or      *)
(* stops the chip.                                                         *)
Keep == TcpInv' /\ UdpInv' /\ TcpKeeps /\ UdpKeeps

(* A step that leaves both socket machines alone, or stops the chip.       *)
LEMMA Still ==
  ASSUME RunInv
  PROVE  /\ UNCHANGED <<tcpVars, udpVars>> => Keep
         /\ ChipStopped /\ UdpStopped => Keep /\ tcpSockets' = 0 /\ udpSockets' = 0
<1>1. CASE UNCHANGED <<tcpVars, udpVars>>
  <2>1. UNCHANGED tcpVars /\ UNCHANGED udpVars
    BY <1>1
  <2>2. Keep
    BY <2>1, TcpPart, UdpPart DEF Keep
  <2>3. ChipStopped /\ UdpStopped => tcpSockets' = 0 /\ udpSockets' = 0
    BY DEF ChipStopped, UdpStopped, U!ChipStopped
  <2> QED
    BY <2>2, <2>3
<1>2. CASE ChipStopped /\ UdpStopped
  <2>1. tcpSockets' = 0 /\ udpSockets' = 0
    BY <1>2 DEF ChipStopped, UdpStopped, U!ChipStopped
  <2> QED
    BY <1>2, <2>1, TcpPart, UdpPart DEF Keep
<1> QED
  BY <1>1, <1>2

(* An event that is dropped or kept for later.                             *)
LEMMA StaysKeeps ==
  ASSUME RunInv, wifiEvents # <<>>,
         UNCHANGED <<wifiState, wifiTimer, wifiHandle, link, faults, wifiBusy, wifiCall,
                     tcpVars, udpVars>>,
         wifiBusy,
         \/ UNCHANGED wifiError \/ SetWifiError("PARAMETERS_MISSING"),
         \/ /\ wifiEvents' = Popped
            /\ wifiState \in Timed \cup Exchanges \cup {"CLOSING"} =>
                 Head(wifiEvents) \notin Wakes(wifiState)
            /\ wifiState = "RESET" => Head(wifiEvents) \notin Tokens
         \/ /\ wifiEvents' = WifiAdd(Popped, Head(wifiEvents))
            /\ wifiState \in Timed \cup {"CLOSING"} /\ Head(wifiEvents) \notin Tokens
  PROVE  RunInv'
<1> DEFINE h    == Head(wifiEvents)
           now  == Range(wifiEvents)
           then == Range(wifiEvents')
<1>1. Keep
  BY Still
<1>2. /\ Popped \in Seq(WifiTypes) /\ Len(Popped) < WifiQueueSize /\ h \in WifiTypes
      /\ Range(Popped) \subseteq now /\ now \subseteq Range(Popped) \cup {h} /\ h \in now
      /\ AtMostOne(Popped, Ops) /\ (h \in Ops => None(Popped, Ops))
      /\ AtMostOne(wifiEvents, Tokens) => AtMostOne(Popped, Tokens)
      /\ Ordered(wifiEvents) => Ordered(Popped)
  BY Popping
<1>3. Len(Popped) <= WifiQueueSize
  BY Popping
<1> DEFINE Facts ==
             /\ wifiEvents' \in Seq(WifiTypes) /\ Len(wifiEvents') <= WifiQueueSize
             /\ then \subseteq now /\ AtMostOne(wifiEvents', Ops)
             /\ AtMostOne(wifiEvents, Tokens) => AtMostOne(wifiEvents', Tokens)
             /\ wifiState \notin Timed \cup {"CLOSING"} /\ Ordered(wifiEvents) =>
                  Ordered(wifiEvents')
             /\ wifiState \in Timed \cup Exchanges \cup {"CLOSING"} =>
                  ~None(wifiEvents', Wakes(wifiState))
             /\ wifiState = "RESET" => Near(wifiEvents', faults + LinkSteps)
<1>4. ASSUME wifiState \in Timed \cup Exchanges \cup {"CLOSING"}
      PROVE  \E wake \in Wakes(wifiState) : wake \in now
  <2>1. ~None(wifiEvents, Wakes(wifiState))
    BY <1>4 DEF RunInv, AliveInv
  <2> QED
    BY <2>1 DEF None
<1>5. ASSUME wifiEvents' = Popped,
             wifiState \in Timed \cup Exchanges \cup {"CLOSING"} => h \notin Wakes(wifiState),
             wifiState = "RESET" => h \notin Tokens
      PROVE  Facts
  <2>1. wifiState \in Timed \cup Exchanges \cup {"CLOSING"} =>
          ~None(wifiEvents', Wakes(wifiState))
    <3> SUFFICES ASSUME wifiState \in Timed \cup Exchanges \cup {"CLOSING"}
                 PROVE  ~None(wifiEvents', Wakes(wifiState))
      OBVIOUS
    <3>1. PICK wake \in Wakes(wifiState) : wake \in now
      BY <1>4
    <3>2. wake # h
      BY <1>5
    <3>3. wake \in then
      BY <1>2, <1>5, <3>1, <3>2
    <3> QED
      BY <3>3 DEF None
  <2>2. wifiState = "RESET" => Near(wifiEvents', faults + LinkSteps)
    <3> SUFFICES ASSUME wifiState = "RESET" PROVE Near(wifiEvents', faults + LinkSteps)
      OBVIOUS
    <3>1. Near(wifiEvents, faults + LinkSteps) /\ h \notin Tokens
      BY <1>5 DEF RunInv, AliveInv
    <3>2. wifiEvents \in Seq(WifiTypes)
      BY DEF RunInv, WifiTypeOK
    <3> QED
      BY <1>5, <3>1, <3>2, RoomIsNat, NearTail DEF Popped
  <2> HIDE DEF h
  <2> QED
    BY <1>2, <1>3, <1>5, <2>1, <2>2
<1>6. ASSUME wifiEvents' = WifiAdd(Popped, h), wifiState \in Timed \cup {"CLOSING"},
             h \notin Tokens
      PROVE  Facts
  <2> HIDE DEF h
  <2>1. /\ wifiEvents' \in Seq(WifiTypes) /\ Len(wifiEvents') <= WifiQueueSize
        /\ h \in then /\ then \subseteq Range(Popped) \cup {h} /\ Range(Popped) \subseteq then
        /\ AtMostOne(wifiEvents', Ops)
        /\ AtMostOne(wifiEvents, Tokens) => AtMostOne(wifiEvents', Tokens)
    BY <1>2, <1>3, <1>6, Adding
  <2>2. ~None(wifiEvents', Wakes(wifiState))
    <3>1. PICK wake \in Wakes(wifiState) : wake \in now
      BY <1>4, <1>6
    <3>2. wake \in then
      BY <1>2, <2>1, <3>1
    <3> QED
      BY <3>2 DEF None
  <2>3. wifiState # "RESET"
    BY <1>6 DEF Timed, Connecting
  <2> QED
    BY <1>2, <1>6, <2>1, <2>2, <2>3
<1>7. Facts
  BY <1>5, <1>6
<1> HIDE DEF h
<1>8. OthersTyped'
  <2>1. wifiError' \in WifiErrors
    BY Typed, ErrorTyped DEF OthersTyped, WifiErrors
  <2> QED
    BY <1>7, <2>1, Typed DEF OthersTyped
<1>9. CallsInv'
  BY <1>7 DEF RunInv, CallsInv, None
<1>10. TokensInv'
  BY <1>1, <1>7 DEF RunInv, TokensInv, None, Keep, TcpKeeps, UdpKeeps
<1>11. MachinesInv'
  BY <1>1, <1>7 DEF RunInv, MachinesInv, None, Keep, TcpKeeps, UdpKeeps
<1>12. AliveInv'
  <2>1. LinkSteps' = LinkSteps
    BY DEF LinkSteps
  <2> QED
    BY <1>7, <2>1 DEF RunInv, AliveInv, None
<1>13. LinkInv'
  BY <1>7 DEF RunInv, LinkInv, None, Timed, Connecting
<1>14. SocketsInv'
  BY <1>7 DEF RunInv, SocketsInv, None, SetWifiError, tcpVars, udpVars
<1> QED
  BY <1>1, <1>8, <1>9, <1>10, <1>11, <1>12, <1>13, <1>14, Together DEF Keep

(* An operation that starts something, in a machine that rests: it is the  *)
(* only one, no step of TCP or UDP is under way, and what the access point *)
(* has said came before it.                                                *)
LEMMA StartAtHead ==
  ASSUME RunInv, wifiEvents # <<>>, Head(wifiEvents) \in Starts
  PROVE  /\ None(wifiEvents, Tokens) /\ wifiState \in Rests \cup Connecting
         /\ None(Popped, Ops) /\ wifiError # "FAILED"
         /\ wifiState \in {"STOPPED", "DISCONNECTED"} => None(Popped, Notices)
<1>1. Head(wifiEvents) \in Range(wifiEvents)
  BY Popping
<1>2. ~None(wifiEvents, Starts)
  BY <1>1 DEF None
<1>3. None(wifiEvents, Tokens) /\ wifiState \in Rests \cup Connecting
  BY <1>2 DEF RunInv, CallsInv
<1>4. wifiError # "FAILED"
  BY <1>2 DEF RunInv, SocketsInv
<1>5. None(Popped, Ops)
  BY Popping DEF Ops, Calls
<1>6. wifiState \in {"STOPPED", "DISCONNECTED"} => None(Popped, Notices)
  BY Popping DEF RunInv, LinkInv
<1> QED
  BY <1>3, <1>4, <1>5, <1>6

(* The timer only runs in the states that start it.                        *)
LEMMA TimerOff ==
  ASSUME RunInv, wifiState \notin Timed
  PROVE  wifiTimer = 0
<1>1. wifiTimer \in Nat
  BY DEF RunInv, WifiTypeOK
<1>2. ~(wifiTimer > 0)
  BY DEF RunInv, AliveInv
<1> QED
  BY <1>1, <1>2

(* state_stopped.                                                          *)
LEMMA StartWifiKeeps == RunInv /\ StartWifi => RunInv'
<1> SUFFICES ASSUME RunInv, StartWifi PROVE RunInv'
  OBVIOUS
<1> DEFINE h    == Head(wifiEvents)
           now  == Range(wifiEvents)
           then == Range(wifiEvents')
<1>1. /\ wifiBusy /\ wifiEvents # <<>> /\ wifiState = "STOPPED" /\ h \in Starts
      /\ UNCHANGED <<faults, wifiBusy, wifiCall, wifiHandle, link, tcpVars, udpVars>>
  BY DEF StartWifi, WifiPop
<1>2. /\ None(wifiEvents, Tokens) /\ None(Popped, Ops) /\ None(Popped, Notices)
      /\ wifiError # "FAILED"
  BY <1>1, StartAtHead
<1>3. /\ Popped \in Seq(WifiTypes) /\ Len(Popped) <= WifiQueueSize /\ h \in WifiTypes
      /\ Range(Popped) \subseteq now /\ h \in now /\ AtMostOne(Popped, Ops)
  BY <1>1, Popping
<1>4. Keep /\ TcpQuiet /\ UdpQuiet /\ tcpSockets = 0 /\ udpSockets = 0 /\ link = "DOWN"
  <2>1. TcpQuiet /\ UdpQuiet
    BY <1>1 DEF RunInv, MachinesInv, Exchanges
  <2>2. tcpSockets = 0 /\ udpSockets = 0
    BY <1>1 DEF RunInv, SocketsInv
  <2>3. link = "DOWN"
    BY <1>1 DEF RunInv, LinkInv
  <2> QED
    BY <1>1, <2>1, <2>2, <2>3, Still
<1>5. wifiTimer' = 0
  BY TimerStops DEF StartWifi
<1>6. \/ wifiState' = "DISCONNECTED" /\ wifiEvents' = WifiAdd(Popped, h) /\ wifiError' = wifiError
      \/ wifiState' = "STOPPED" /\ wifiEvents' = <<>> /\ SetWifiError("FAILED")
  <2>1. wifiTimer = 0
    BY <1>1, TimerOff DEF Timed, Connecting
  <2>2. ClearedWifiEvents = {<<>>}
    BY <2>1 DEF ClearedWifiEvents
  <2> QED
    BY <2>2 DEF StartWifi, WifiTransition
<1>7. /\ wifiEvents' \in Seq(WifiTypes) /\ Len(wifiEvents') <= WifiQueueSize
      /\ then \subseteq Range(Popped) \cup {h} /\ AtMostOne(wifiEvents', Ops)
      /\ wifiEvents' = <<>> => then = {}
      /\ Ordered(wifiEvents')
  <2>1. CASE wifiEvents' = WifiAdd(Popped, h)
    <3>1. Ordered(Popped) /\ h \notin Notices
      BY <1>1, <1>2, OrderedNone DEF Starts, Exchanges, Notices
    <3>2. WifiAdd(Popped, h) # <<>>
      BY <1>3, Adding
    <3> HIDE DEF h
    <3> QED
      BY <1>2, <1>3, <2>1, <3>1, <3>2, Adding
  <2>2. CASE wifiEvents' = <<>>
    <3>1. /\ <<>> \in Seq(WifiTypes) /\ Len(<<>>) = 0 /\ DOMAIN <<>> = {}
          /\ 0 <= WifiQueueSize
      OBVIOUS
    <3>2. Range(<<>>) = {}
      BY Singles
    <3> QED
      BY <2>2, <3>1, <3>2 DEF AtMostOne, PlacesOf, Ordered
  <2> QED
    BY <1>6, <2>1, <2>2
<1>8. /\ None(wifiEvents', Tokens) /\ None(wifiEvents', Notices)
      /\ wifiState' = "STOPPED" => None(wifiEvents', Starts)
  BY <1>1, <1>2, <1>3, <1>6, <1>7 DEF None, Notices, Starts, Exchanges
<1> HIDE DEF h
<1>9. OthersTyped'
  <2>1. wifiError' \in WifiErrors
    BY <1>6, Typed, ErrorTyped DEF OthersTyped, WifiErrors
  <2>2. 0 \in 0..ConnectingTimeout
    OBVIOUS
  <2> QED
    BY <1>1, <1>5, <1>6, <1>7, <2>1, <2>2, Typed DEF OthersTyped, WifiStates
<1>10. CallsInv'
  BY <1>1, <1>6, <1>7, <1>8 DEF CallsInv, Rests, Exchanges
<1>11. TokensInv'
  BY <1>6, <1>8 DEF TokensInv, None, Tokens, Timed, Connecting, Exchanges
<1>12. MachinesInv'
  BY <1>4, <1>6 DEF MachinesInv, Keep, TcpKeeps, UdpKeeps, Exchanges
<1>13. AliveInv'
  BY <1>5, <1>6 DEF AliveInv, Timed, Connecting, Exchanges
<1>14. LinkInv'
  BY <1>1, <1>4, <1>6, <1>7, <1>8 DEF LinkInv, None, Notices, Exchanges
<1>15. SocketsInv'
  BY <1>1, <1>2, <1>4, <1>6, <1>8 DEF SocketsInv, tcpVars, udpVars
<1> QED
  BY <1>4, <1>9, <1>10, <1>11, <1>12, <1>13, <1>14, <1>15, Together DEF Keep

(* state_disconnected and STOP; state_reset and DONE: the chip is stopped, *)
(* and only a cold socket machine still runs.                              *)
LEMMA ChipStopKeeps == RunInv /\ (StopWifi \/ ResetDone) => RunInv'
<1> SUFFICES ASSUME RunInv, StopWifi \/ ResetDone PROVE RunInv'
  OBVIOUS
<1> DEFINE h    == Head(wifiEvents)
           now  == Range(wifiEvents)
           then == Range(wifiEvents')
<1>1. /\ wifiBusy /\ wifiEvents # <<>> /\ wifiEvents' = Popped /\ link' = "DOWN"
      /\ UNCHANGED <<faults, wifiBusy, wifiCall, wifiHandle>>
      /\ ChipStopped /\ UdpStopped /\ (UNCHANGED wifiError \/ SetWifiError("FAILED"))
  BY DEF StopWifi, ResetDone, WifiPop
<1>2. \/ wifiState = "DISCONNECTED" /\ h = "STOP" /\ wifiState' = "STOPPED"
      \/ wifiState = "RESET" /\ h = "DONE" /\ wifiState' = "DISCONNECTED"
  BY DEF StopWifi, ResetDone, WifiPop, WifiTransition
<1>3. wifiTimer' = 0
  BY TimerStops DEF StopWifi, ResetDone
<1>4. /\ Popped \in Seq(WifiTypes) /\ Len(Popped) <= WifiQueueSize
      /\ Range(Popped) \subseteq now /\ h \in now /\ AtMostOne(Popped, Ops)
  BY <1>1, Popping
<1>5. Keep /\ TcpQuiet /\ UdpQuiet /\ tcpSockets' = 0 /\ udpSockets' = 0
  <2>1. CASE wifiState = "DISCONNECTED"
    BY <1>1, <2>1, Still DEF RunInv, MachinesInv, Exchanges
  <2>2. CASE wifiState = "RESET"
    BY <1>1, <1>2, <1>4, <2>2, Still DEF RunInv, MachinesInv, None
  <2> QED
    BY <1>2, <2>1, <2>2
<1>6. None(Popped, Starts)
  <2>1. CASE wifiState = "DISCONNECTED"
    <3>1. None(Popped, Ops)
      BY <1>1, <1>2, <2>1, Popping DEF Ops, Calls
    <3> QED
      BY <3>1 DEF None, Ops, Calls
  <2>2. CASE wifiState = "RESET"
    <3>1. None(wifiEvents, Starts)
      BY <2>2 DEF RunInv, CallsInv, Rests, Connecting
    <3> QED
      BY <1>4, <3>1 DEF None
  <2> QED
    BY <1>2, <2>1, <2>2
<1>7. ~None(Popped, Tokens) => TcpCold /\ UdpCold
  <2>1. CASE wifiState = "DISCONNECTED"
    <3>1. ~None(Popped, Tokens) => ~None(wifiEvents, Tokens)
      BY <1>4 DEF None
    <3> QED
      BY <2>1, <3>1 DEF RunInv, TokensInv
  <2>2. CASE wifiState = "RESET"
    <3>1. ~None(wifiEvents, {"DONE"}) /\ h \in Tokens
      BY <1>2, <1>4, <2>2 DEF None, Tokens
    <3>2. AtMostOne(wifiEvents, Tokens) \/ (TcpCold /\ UdpCold)
      BY <2>2, <3>1 DEF RunInv, TokensInv
    <3> QED
      BY <1>1, <3>1, <3>2, Popping
  <2> QED
    BY <1>2, <2>1, <2>2
<1> HIDE DEF h
<1>8. OthersTyped'
  <2>1. wifiError' \in WifiErrors
    BY <1>1, Typed, ErrorTyped DEF OthersTyped, WifiErrors
  <2>2. 0 \in 0..ConnectingTimeout
    OBVIOUS
  <2> QED
    BY <1>1, <1>2, <1>3, <1>4, <2>1, <2>2, Typed DEF OthersTyped, WifiStates
<1>9. CallsInv'
  BY <1>1, <1>2, <1>4, <1>6 DEF CallsInv, Rests, Exchanges
<1>10. TokensInv'
  BY <1>1, <1>2, <1>5, <1>7 DEF TokensInv, Keep, TcpKeeps, UdpKeeps, Timed, Connecting, Exchanges
<1>11. MachinesInv'
  BY <1>2, <1>5 DEF MachinesInv, Keep, TcpKeeps, UdpKeeps, Exchanges
<1>12. AliveInv'
  BY <1>2, <1>3 DEF AliveInv, Timed, Connecting, Exchanges
<1>13. LinkInv'
  BY <1>1, <1>2, <1>6, OrderedNone DEF LinkInv, Exchanges
<1>14. SocketsInv'
  BY <1>1, <1>2, <1>5, <1>6 DEF SocketsInv
<1> QED
  BY <1>5, <1>8, <1>9, <1>10, <1>11, <1>12, <1>13, <1>14, Together DEF Keep

(* state_disconnected and what starts something.                           *)
LEMMA ConnectKeeps == RunInv /\ Connect => RunInv'
<1> SUFFICES ASSUME RunInv, Connect PROVE RunInv'
  OBVIOUS
<1> DEFINE h    == Head(wifiEvents)
           now  == Range(wifiEvents)
           then == Range(wifiEvents')
           retained == IF h = "CONNECT" THEN Popped ELSE WifiAdd(Popped, h)
<1>1. /\ wifiBusy /\ wifiEvents # <<>> /\ wifiState = "DISCONNECTED" /\ h \in Starts
      /\ UNCHANGED <<faults, wifiBusy, wifiCall, wifiHandle>>
  BY DEF Connect, WifiPop
<1>2. CASE FailAndReset /\ UNCHANGED link
  BY <1>1, <1>2, FailAndResetKeeps
<1>3. CASE /\ wifiState' = "CONNECTING_TO_AP" /\ wifiTimer' = ConnectingTimeout
           /\ wifiEvents' = WifiAdd(retained, "CONNECTING") /\ link' = "JOINING"
           /\ UNCHANGED <<wifiError, tcpVars, udpVars>>
  <2>1. /\ None(wifiEvents, Tokens) /\ None(Popped, Ops) /\ None(Popped, Notices)
        /\ wifiError # "FAILED"
    BY <1>1, StartAtHead
  <2>2. /\ Popped \in Seq(WifiTypes) /\ Len(Popped) <= WifiQueueSize /\ h \in WifiTypes
        /\ Range(Popped) \subseteq now /\ h \in now /\ AtMostOne(Popped, Ops)
    BY <1>1, Popping
  <2> HIDE DEF h
  <2>3. /\ retained \in Seq(WifiTypes) /\ Len(retained) <= WifiQueueSize
        /\ Range(retained) \subseteq Range(Popped) \cup {h} /\ AtMostOne(retained, Ops)
    BY <2>1, <2>2, Adding
  <2> HIDE DEF retained
  <2>4. "CONNECTING" \in WifiTypes /\ "CONNECTING" \notin Ops \cup Tokens \cup Notices
    BY DEF WifiTypes, Ops, Tokens, Notices, Calls, Starts, Exchanges
  <2>5. /\ wifiEvents' \in Seq(WifiTypes) /\ Len(wifiEvents') <= WifiQueueSize
        /\ then \subseteq Range(Popped) \cup {h, "CONNECTING"} /\ "CONNECTING" \in then
        /\ AtMostOne(wifiEvents', Ops)
    BY <1>3, <2>3, <2>4, Adding
  <2>6. None(wifiEvents', Tokens) /\ None(wifiEvents', Notices)
    <3>1. h \notin Notices
      BY <1>1 DEF Notices, Starts, Exchanges, h
    <3> QED
      BY <2>1, <2>2, <2>4, <2>5, <3>1 DEF None
  <2>7. Keep /\ TcpQuiet /\ UdpQuiet
    BY <1>1, <1>3, Still DEF RunInv, MachinesInv, Exchanges
  <2>8. OthersTyped'
    <3>1. ConnectingTimeout \in 0..ConnectingTimeout
      OBVIOUS
    <3> QED
      BY <1>1, <1>3, <2>5, <3>1, Typed DEF OthersTyped, WifiStates, Connecting
  <2>9. CallsInv'
    BY <1>1, <1>3, <2>5, <2>6 DEF CallsInv, Connecting, Exchanges
  <2>10. TokensInv'
    BY <1>3, <2>6 DEF TokensInv, Exchanges
  <2>11. MachinesInv'
    BY <1>3, <2>7 DEF MachinesInv, Keep, TcpKeeps, UdpKeeps, Exchanges
  <2>12. AliveInv'
    <3>1. ~None(wifiEvents', Wakes("CONNECTING_TO_AP"))
      BY <2>5, WhatWakes DEF None
    <3>2. wifiState' \in Timed
      BY <1>3 DEF Timed, Connecting
    <3> QED
      BY <1>3, <3>1, <3>2 DEF AliveInv
  <2>13. LinkInv'
    BY <1>3, <2>6 DEF LinkInv, None, Notices, Exchanges
  <2>14. SocketsInv'
    BY <1>3, <2>1 DEF SocketsInv
  <2> QED
    BY <2>7, <2>8, <2>9, <2>10, <2>11, <2>12, <2>13, <2>14, Together DEF Keep
<1> QED
  BY <1>2, <1>3 DEF Connect

(* state_connecting_to_ap and CONNECTED.                                   *)
LEMMA ApConnectedKeeps == RunInv /\ ApConnected => RunInv'
<1> SUFFICES ASSUME RunInv, ApConnected PROVE RunInv'
  OBVIOUS
<1> DEFINE now  == Range(wifiEvents)
           then == Range(wifiEvents')
<1>1. /\ wifiBusy /\ wifiEvents # <<>> /\ wifiState = "CONNECTING_TO_AP"
      /\ "CONNECTED" \in now /\ wifiState' = "ACQUIRING_IP"
      /\ wifiEvents' = WifiAdd(Popped, "ACQUIRING_IP")
      /\ UNCHANGED <<faults, wifiBusy, wifiCall, wifiTimer, wifiError, wifiHandle, link,
                     tcpVars, udpVars>>
  BY Popping DEF ApConnected, WifiPop
<1>2. /\ Popped \in Seq(WifiTypes) /\ Len(Popped) <= WifiQueueSize
      /\ Range(Popped) \subseteq now /\ AtMostOne(Popped, Ops)
  BY <1>1, Popping
<1>3. "ACQUIRING_IP" \in WifiTypes /\ "ACQUIRING_IP" \notin Ops \cup Tokens \cup Notices
  BY DEF WifiTypes, Ops, Tokens, Notices, Calls, Starts, Exchanges
<1>4. /\ wifiEvents' \in Seq(WifiTypes) /\ Len(wifiEvents') <= WifiQueueSize
      /\ then \subseteq now \cup {"ACQUIRING_IP"} /\ "ACQUIRING_IP" \in then
      /\ AtMostOne(wifiEvents', Ops)
  BY <1>1, <1>2, <1>3, Adding
<1>5. None(wifiEvents', Tokens)
  <2>1. None(wifiEvents, Tokens)
    BY <1>1 DEF RunInv, TokensInv, Timed, Connecting
  <2> QED
    BY <1>3, <1>4, <2>1 DEF None
<1>6. Keep /\ TcpQuiet /\ UdpQuiet
  BY <1>1, Still DEF RunInv, MachinesInv, Exchanges
<1>7. link # "JOINING"
  BY <1>1 DEF RunInv, LinkInv, None
<1>8. OthersTyped'
  BY <1>1, <1>4, Typed DEF OthersTyped, WifiStates, Connecting
<1>9. CallsInv'
  BY <1>1, <1>4, <1>5 DEF CallsInv, Connecting, Exchanges
<1>10. TokensInv'
  BY <1>1, <1>5 DEF TokensInv, Exchanges
<1>11. MachinesInv'
  BY <1>1, <1>6 DEF MachinesInv, Keep, TcpKeeps, UdpKeeps, Exchanges
<1>12. AliveInv'
  <2>1. ~None(wifiEvents', Wakes("ACQUIRING_IP"))
    BY <1>4, WhatWakes DEF None
  <2>2. wifiState' \in Timed
    BY <1>1 DEF Timed, Connecting
  <2> QED
    BY <1>1, <2>1, <2>2 DEF AliveInv
<1>13. LinkInv'
  BY <1>1, <1>3, <1>4, <1>7 DEF RunInv, LinkInv, None, Notices, Exchanges
<1>14. SocketsInv'
  BY <1>1 DEF RunInv, SocketsInv
<1> QED
  BY <1>6, <1>8, <1>9, <1>10, <1>11, <1>12, <1>13, <1>14, Together DEF Keep

(* A state that is left for CONNECTED: no step of TCP or UDP is left, and  *)
(* no operation but one that has been called.                              *)
LEMMA IntoConnected ==
  ASSUME RunInv, wifiBusy, wifiEvents # <<>>, WifiTransition("CONNECTED"),
         wifiEvents' = Popped, None(Popped, Tokens), TcpQuiet, UdpQuiet,
         wifiState \in {"ACQUIRING_IP", "CLOSING"} \cup Exchanges,
         link \in {"UP", "DOWN"},
         UNCHANGED <<faults, wifiBusy, wifiCall, wifiError, wifiHandle, link, tcpVars, udpVars>>
  PROVE  RunInv'
<1>1. wifiState' = "CONNECTED" /\ wifiTimer' = 0
  BY TimerStops
<1>2. /\ Popped \in Seq(WifiTypes) /\ Len(Popped) <= WifiQueueSize
      /\ Range(Popped) \subseteq Range(wifiEvents) /\ AtMostOne(Popped, Ops)
  BY Popping
<1>3. Keep
  BY Still
<1>4. OthersTyped'
  <2>1. 0 \in 0..ConnectingTimeout
    OBVIOUS
  <2> QED
    BY <1>1, <1>2, <2>1, Typed DEF OthersTyped, WifiStates
<1>5. CallsInv'
  BY <1>1, <1>2 DEF CallsInv, Rests, Exchanges
<1>6. TokensInv'
  BY <1>1 DEF TokensInv, Exchanges
<1>7. MachinesInv'
  BY <1>1, <1>3 DEF MachinesInv, Keep, TcpKeeps, UdpKeeps, Exchanges
<1>8. AliveInv'
  BY <1>1 DEF AliveInv, Timed, Connecting, Exchanges
<1>9. LinkInv'
  BY <1>1, <1>2 DEF RunInv, LinkInv, None, Exchanges
<1>10. SocketsInv'
  BY <1>1 DEF RunInv, SocketsInv, Exchanges
<1> QED
  BY <1>3, <1>4, <1>5, <1>6, <1>7, <1>8, <1>9, <1>10, Together DEF Keep

(* state_acquiring_ip_address and IP_ADDRESS_ACQUIRED.                     *)
LEMMA IpAcquiredKeeps == RunInv /\ IpAcquired => RunInv'
<1> SUFFICES ASSUME RunInv, IpAcquired PROVE RunInv'
  OBVIOUS
<1>1. /\ wifiBusy /\ wifiEvents # <<>> /\ wifiState = "ACQUIRING_IP"
      /\ Head(wifiEvents) = "IP_ACQUIRED"
      /\ UNCHANGED <<faults, wifiBusy, wifiCall, wifiHandle, link>>
  BY DEF IpAcquired, WifiPop
<1>2. CASE FailAndReset
  BY <1>1, <1>2, FailAndResetKeeps
<1>3. CASE /\ WifiTransition("CONNECTED") /\ wifiEvents' = Popped
           /\ UNCHANGED <<wifiError, tcpVars, udpVars>>
  <2>1. Head(wifiEvents) \in Range(wifiEvents) /\ Range(Popped) \subseteq Range(wifiEvents)
    BY <1>1, Popping
  <2>2. None(wifiEvents, Tokens)
    BY <1>1 DEF RunInv, TokensInv, Timed, Connecting
  <2>3. None(Popped, Tokens)
    BY <2>1, <2>2 DEF None
  <2>4. TcpQuiet /\ UdpQuiet
    BY <1>1 DEF RunInv, MachinesInv, Exchanges
  <2>5. link \in {"UP", "DOWN"}
    BY <1>1, <2>1 DEF RunInv, LinkInv, None
  <2> QED
    BY <1>1, <1>3, <2>3, <2>4, <2>5, IntoConnected
<1> QED
  BY <1>2, <1>3 DEF IpAcquired

(* The exchanges and DONE, state_closing_socket and DONE.                  *)
LEMMA DoneKeeps == RunInv /\ (ExchangeDone \/ ClosingDone) => RunInv'
<1> SUFFICES ASSUME RunInv, ExchangeDone \/ ClosingDone PROVE RunInv'
  OBVIOUS
<1>1. /\ wifiBusy /\ wifiEvents # <<>> /\ wifiState \in Exchanges \cup {"CLOSING"}
      /\ Head(wifiEvents) = "DONE"
      /\ UNCHANGED <<faults, wifiBusy, wifiCall, wifiHandle, link>>
  BY DEF ExchangeDone, ClosingDone, WifiPop
<1>2. CASE FailAndReset
  BY <1>1, <1>2, FailAndResetKeeps
<1>3. CASE FailAndRestart /\ wifiState = "CLOSING"
  BY <1>1, <1>3, FailAndRestartKeeps
<1>4. CASE /\ WifiTransition("CONNECTED") /\ wifiEvents' = Popped
           /\ UNCHANGED <<wifiError, tcpVars, udpVars>>
  <2>1. Head(wifiEvents) \in Range(wifiEvents)
    BY <1>1, Popping
  <2>2. AtMostOne(wifiEvents, Tokens)
    BY <1>1 DEF RunInv, TokensInv
  <2>3. None(Popped, Tokens)
    BY <1>1, <2>2, Popping DEF Tokens
  <2>4. TcpQuiet /\ UdpQuiet
    BY <1>1, <2>1 DEF RunInv, MachinesInv, None
  <2>5. link \in {"UP", "DOWN"}
    BY <1>1 DEF RunInv, LinkInv
  <2> QED
    BY <1>1, <1>4, <2>3, <2>4, <2>5, IntoConnected
<1> QED
  BY <1>2, <1>3, <1>4 DEF ExchangeDone, ClosingDone, WifiPop

(* state_connected: an operation finds it without a step of TCP or UDP     *)
(* under way; the exchanges handle none, as there is none to handle.       *)
LEMMA CallInConnected ==
  ASSUME RunInv, wifiEvents # <<>>, wifiState \in {"CONNECTED"} \cup Exchanges,
         Head(wifiEvents) \in Ops
  PROVE  /\ wifiState = "CONNECTED" /\ None(wifiEvents, Tokens) /\ None(Popped, Ops)
         /\ TcpQuiet /\ UdpQuiet /\ link \in {"UP", "DOWN"} /\ wifiError # "FAILED"
<1>1. Head(wifiEvents) \in Range(wifiEvents) /\ None(Popped, Ops)
  BY Popping
<1>2. wifiState = "CONNECTED"
  BY <1>1 DEF RunInv, CallsInv, None
<1>3. None(wifiEvents, Tokens)
  BY <1>2 DEF RunInv, TokensInv
<1>4. TcpQuiet /\ UdpQuiet
  BY <1>2 DEF RunInv, MachinesInv, Exchanges
<1>5. link \in {"UP", "DOWN"}
  BY <1>2 DEF RunInv, LinkInv
<1>6. wifiError # "FAILED"
  BY <1>2 DEF RunInv, SocketsInv
<1> QED
  BY <1>1, <1>2, <1>3, <1>4, <1>5, <1>6

(* state_connected and an exchange.                                        *)
LEMMA StartExchangeKeeps == RunInv /\ StartExchange => RunInv'
<1> SUFFICES ASSUME RunInv, StartExchange PROVE RunInv'
  OBVIOUS
<1> DEFINE h    == Head(wifiEvents)
           now  == Range(wifiEvents)
           then == Range(wifiEvents')
<1>1. /\ wifiBusy /\ wifiEvents # <<>> /\ wifiState \in {"CONNECTED"} \cup Exchanges
      /\ h \in Exchanges /\ WifiTransition(h) /\ wifiEvents' = WifiAdd(Popped, "PROCESS")
      /\ UNCHANGED <<faults, wifiBusy, wifiCall, wifiError, link>>
  BY DEF StartExchange, WifiPop
<1>2. /\ wifiState = "CONNECTED" /\ None(wifiEvents, Tokens) /\ None(Popped, Ops)
      /\ TcpQuiet /\ UdpQuiet /\ link \in {"UP", "DOWN"} /\ wifiError # "FAILED"
  BY <1>1, CallInConnected DEF Ops, Calls, Starts
<1>3. wifiState' = h /\ wifiTimer' = 0
  BY <1>1, TimerStops
<1>4. /\ Popped \in Seq(WifiTypes) /\ Len(Popped) <= WifiQueueSize
      /\ Range(Popped) \subseteq now /\ AtMostOne(Popped, Ops)
  BY <1>1, Popping
<1>5. None(Popped, Tokens)
  BY <1>2, <1>4 DEF None
<1>6. "PROCESS" \in WifiTypes /\ "PROCESS" \notin Ops
  BY DEF WifiTypes, Ops, Calls, Starts, Exchanges
<1>7. /\ wifiEvents' \in Seq(WifiTypes) /\ Len(wifiEvents') <= WifiQueueSize
      /\ then \subseteq Range(Popped) \cup {"PROCESS"} /\ "PROCESS" \in then
      /\ AtMostOne(wifiEvents', Ops) /\ AtMostOne(wifiEvents', Tokens)
  BY <1>1, <1>4, <1>5, <1>6, NoneAtMostOne, Adding
<1>8. None(wifiEvents', Ops)
  BY <1>2, <1>6, <1>7 DEF None
<1>9. None(wifiEvents', {"DONE"})
  BY <1>5, <1>7 DEF None, Tokens
<1>10. TcpInv /\ UdpInv /\ TcpLive /\ UdpLive
  BY SocketTypes
<1>11. /\ TcpInv' /\ UdpInv' /\ TcpLive' /\ UdpLive'
       /\ h \in {"SEND", "RECEIVE"} => wifiHandle' = "TCP" /\ UdpQuiet'
       /\ h \in {"SEND_TO", "RECEIVE_FROM"} => wifiHandle' = "UDP" /\ TcpQuiet'
  <2>1. TcpCallOf(h) \in TcpCalls /\ TcpCallOf(h) \in U!TcpCalls
    BY DEF TcpCallOf, TcpCalls, U!TcpCalls
  <2>2. CASE h \in {"SEND", "RECEIVE"}
    <3>1. CallTcp(TcpCallOf(h)) /\ wifiHandle' = "TCP" /\ UNCHANGED udpVars
      BY <2>2 DEF StartExchange
    <3>2. TcpInv' /\ TcpLive'
      BY <1>10, <2>1, <3>1, TcpStep, TcpCallLives DEF TcpNext
    <3>3. UdpInv' /\ UdpKeeps
      BY <3>1, UdpPart
    <3> QED
      BY <1>2, <2>2, <3>1, <3>2, <3>3 DEF UdpKeeps
  <2>3. CASE h \notin {"SEND", "RECEIVE"}
    <3>1. CallUdp(TcpCallOf(h)) /\ wifiHandle' = "UDP" /\ UNCHANGED tcpVars
      BY <2>3 DEF StartExchange
    <3>2. UdpInv' /\ UdpLive'
      BY <1>10, <2>1, <3>1, UdpStep, UdpCallLives DEF U!TcpNext, CallUdp
    <3>3. TcpInv' /\ TcpKeeps
      BY <3>1, TcpPart
    <3> QED
      BY <1>2, <2>3, <3>1, <3>2, <3>3 DEF TcpKeeps
  <2> QED
    BY <2>2, <2>3
<1>12. h \in Exchanges /\ wifiHandle' \in {"TCP", "UDP"}
  BY <1>1, <1>11 DEF Exchanges
<1> HIDE DEF h
<1>13. OthersTyped'
  <2>1. 0 \in 0..ConnectingTimeout
    OBVIOUS
  <2> QED
    BY <1>1, <1>3, <1>7, <1>12, <2>1, Typed DEF OthersTyped, WifiStates
<1>14. CallsInv'
  BY <1>1, <1>7, <1>8 DEF CallsInv, None, Ops, Calls
<1>15. TokensInv'
  BY <1>3, <1>7, <1>12 DEF TokensInv, Timed, Connecting, Exchanges
<1>16. MachinesInv'
  BY <1>3, <1>9, <1>11, <1>12 DEF MachinesInv, Exchanges
<1>17. AliveInv'
  <2>1. ~None(wifiEvents', Wakes(h))
    BY <1>7, <1>12, WhatWakes DEF None, Tokens
  <2> QED
    BY <1>3, <1>12, <2>1 DEF AliveInv, Timed, Connecting, Exchanges
<1>18. LinkInv'
  BY <1>1, <1>2, <1>3, <1>4, <1>7, <1>12 DEF RunInv, LinkInv, None, Exchanges
<1>19. SocketsInv'
  BY <1>1, <1>2, <1>3, <1>12 DEF SocketsInv, Exchanges
<1> QED
  BY <1>11, <1>13, <1>14, <1>15, <1>16, <1>17, <1>18, <1>19, Together

(* What the entry handlers of CLOSING and DISCONNECTING are given.         *)
LEMMA EnterFromConnected ==
  ASSUME RunInv, wifiBusy, wifiEvents # <<>>, wifiState \in {"CONNECTED"} \cup Exchanges,
         Head(wifiEvents) \in Ops, NEW queue,
         queue = Popped \/ \E event \in Ops \ Starts : queue = WifiAdd(Popped, event),
         UNCHANGED <<faults, wifiBusy, wifiCall, wifiError, wifiHandle, link>>,
         \/ EnterClosingSocket(queue)
         \/ EnterDisconnecting(queue) /\ UNCHANGED <<tcpVars, udpVars>>
  PROVE  RunInv'
<1> DEFINE now  == Range(wifiEvents)
           then == Range(wifiEvents')
<1>1. /\ wifiState = "CONNECTED" /\ None(wifiEvents, Tokens) /\ None(Popped, Ops)
      /\ TcpQuiet /\ UdpQuiet /\ link \in {"UP", "DOWN"} /\ wifiError # "FAILED"
  BY CallInConnected
<1>2. /\ Popped \in Seq(WifiTypes) /\ Len(Popped) <= WifiQueueSize
      /\ Range(Popped) \subseteq now /\ AtMostOne(Popped, Ops)
  BY Popping
<1>3. Ops \subseteq WifiTypes
  BY DEF Ops, WifiTypes
<1>4. PICK event \in Ops \ Starts :
        /\ queue \in Seq(WifiTypes) /\ Len(queue) <= WifiQueueSize
        /\ Range(queue) \subseteq Range(Popped) \cup {event} /\ AtMostOne(queue, Ops)
  <2>1. CASE queue = Popped
    <3>1. "STOP" \in Ops \ Starts
      BY DEF Ops, Calls, Starts, Exchanges
    <3> QED
      BY <1>2, <2>1, <3>1
  <2>2. ASSUME NEW event \in Ops \ Starts, queue = WifiAdd(Popped, event)
        PROVE  /\ queue \in Seq(WifiTypes) /\ Len(queue) <= WifiQueueSize
               /\ Range(queue) \subseteq Range(Popped) \cup {event} /\ AtMostOne(queue, Ops)
    BY <1>1, <1>2, <1>3, <2>2, Adding
  <2> QED
    BY <2>1, <2>2
<1>5. None(queue, Starts) /\ None(queue, Tokens)
  <2>1. event \notin Tokens
    BY DEF Ops, Calls, Starts, Exchanges, Tokens
  <2>2. Starts \subseteq Ops
    BY DEF Ops, Calls
  <2> QED
    BY <1>1, <1>2, <1>4, <2>1, <2>2 DEF None
<1>6. event \notin Notices
  BY DEF Ops, Calls, Starts, Exchanges, Notices
<1>7. CASE EnterClosingSocket(queue)
  <2>1. /\ wifiState' = "CLOSING" /\ wifiTimer' = 0 /\ wifiEvents' = WifiAdd(queue, "PROCESS")
        /\ CallTcp("CLOSE_SOCKET") /\ CallUdp("CLOSE_SOCKET")
    BY <1>7, TimerStops DEF EnterClosingSocket, CloseSockets
  <2>2. TcpInv' /\ UdpInv' /\ TcpKeeps /\ UdpKeeps /\ TcpWarm' /\ UdpWarm'
    BY <1>1, <2>1, TcpPart, UdpPart
  <2>3. "PROCESS" \in WifiTypes /\ "PROCESS" \notin Ops \cup Starts
    BY DEF WifiTypes, Ops, Calls, Starts, Exchanges
  <2>4. /\ wifiEvents' \in Seq(WifiTypes) /\ Len(wifiEvents') <= WifiQueueSize
        /\ then \subseteq Range(queue) \cup {"PROCESS"} /\ "PROCESS" \in then
        /\ AtMostOne(wifiEvents', Ops) /\ AtMostOne(wifiEvents', Tokens)
    BY <1>4, <1>5, <2>1, <2>3, NoneAtMostOne, Adding
  <2>5. None(wifiEvents', Starts) /\ None(wifiEvents', {"DONE"})
    BY <1>5, <2>3, <2>4 DEF None, Tokens
  <2>6. OthersTyped'
    <3>1. 0 \in 0..ConnectingTimeout
      OBVIOUS
    <3> QED
      BY <2>1, <2>4, <3>1, Typed DEF OthersTyped, WifiStates
  <2>7. CallsInv'
    BY <2>1, <2>4, <2>5 DEF CallsInv, Exchanges
  <2>8. TokensInv'
    BY <2>1, <2>4, <2>5 DEF TokensInv, Timed, Connecting, Exchanges
  <2>9. MachinesInv'
    BY <1>1, <2>1, <2>2, <2>5 DEF MachinesInv, TcpKeeps, UdpKeeps, Exchanges
  <2>10. AliveInv'
    <3>1. ~None(wifiEvents', Wakes("CLOSING"))
      BY <2>4, WhatWakes DEF None, Tokens
    <3> QED
      BY <2>1, <3>1 DEF AliveInv
  <2>11. LinkInv'
    <3>1. then \subseteq now \cup {event, "PROCESS"}
      BY <1>2, <1>4, <2>4
    <3> QED
      BY <1>1, <1>6, <2>1, <3>1 DEF RunInv, LinkInv, None, Notices
  <2>12. SocketsInv'
    BY <1>1, <2>1 DEF SocketsInv
  <2> QED
    BY <2>2, <2>6, <2>7, <2>8, <2>9, <2>10, <2>11, <2>12, Together
<1>8. CASE EnterDisconnecting(queue) /\ UNCHANGED <<tcpVars, udpVars>>
  <2>1. /\ wifiState' = "DISCONNECTING" /\ wifiTimer' = DisconnectTimeout
        /\ wifiEvents' = WifiAdd(queue, "DISCONNECTING")
    BY <1>8 DEF EnterDisconnecting
  <2>2. Keep
    BY <1>8, Still
  <2>3. "DISCONNECTING" \in WifiTypes /\ "DISCONNECTING" \notin Ops \cup Starts \cup Tokens
    BY DEF WifiTypes, Ops, Calls, Starts, Exchanges, Tokens
  <2>4. /\ wifiEvents' \in Seq(WifiTypes) /\ Len(wifiEvents') <= WifiQueueSize
        /\ then \subseteq Range(queue) \cup {"DISCONNECTING"} /\ "DISCONNECTING" \in then
        /\ AtMostOne(wifiEvents', Ops)
    BY <1>4, <2>1, <2>3, Adding
  <2>5. None(wifiEvents', Starts) /\ None(wifiEvents', Tokens)
    BY <1>5, <2>3, <2>4 DEF None
  <2>6. OthersTyped'
    <3>1. DisconnectTimeout \in 0..DisconnectTimeout
      OBVIOUS
    <3> QED
      BY <2>1, <2>4, <3>1, Typed DEF OthersTyped, WifiStates
  <2>7. CallsInv'
    BY <2>1, <2>4, <2>5 DEF CallsInv, Exchanges
  <2>8. TokensInv'
    BY <2>1, <2>5 DEF TokensInv, Exchanges
  <2>9. MachinesInv'
    BY <1>1, <2>1, <2>2 DEF MachinesInv, Keep, TcpKeeps, UdpKeeps, Exchanges
  <2>10. AliveInv'
    <3>1. ~None(wifiEvents', Wakes("DISCONNECTING"))
      BY <2>4, WhatWakes DEF None
    <3> QED
      BY <2>1, <3>1 DEF AliveInv, Timed
  <2>11. LinkInv'
    <3>1. then \subseteq now \cup {event, "DISCONNECTING"}
      BY <1>2, <1>4, <2>4
    <3> QED
      BY <1>1, <1>6, <2>1, <3>1 DEF RunInv, LinkInv, None, Notices
  <2>12. SocketsInv'
    BY <1>1, <2>1 DEF SocketsInv
  <2> QED
    BY <2>2, <2>6, <2>7, <2>8, <2>9, <2>10, <2>11, <2>12, Together DEF Keep
<1> QED
  BY <1>7, <1>8

(* state_connected and the other operations.                               *)
LEMMA LeaveConnectedKeeps ==
  RunInv /\ (CloseSocketCalled \/ StopConnected \/ Disconnect) => RunInv'
<1> SUFFICES ASSUME RunInv, CloseSocketCalled \/ StopConnected \/ Disconnect PROVE RunInv'
  OBVIOUS
<1>1. /\ wifiBusy /\ wifiEvents # <<>> /\ wifiState \in {"CONNECTED"} \cup Exchanges
      /\ Head(wifiEvents) \in Ops
      /\ UNCHANGED <<faults, wifiBusy, wifiCall, wifiError, wifiHandle, link>>
  BY DEF CloseSocketCalled, StopConnected, Disconnect, WifiPop, Ops, Calls
<1>2. {"STOP_SOCKET_CLOSED", "DISCONNECT_SOCKET_CLOSED", "STOP"} \subseteq Ops \ Starts
  BY DEF Ops, Calls, Starts, Exchanges
<1>3. CASE CloseSocketCalled
  BY <1>1, <1>3, EnterFromConnected DEF CloseSocketCalled
<1>4. CASE StopConnected
  BY <1>1, <1>2, <1>4, EnterFromConnected DEF StopConnected
<1>5. CASE Disconnect
  BY <1>1, <1>2, <1>5, EnterFromConnected DEF Disconnect
<1> QED
  BY <1>3, <1>4, <1>5

(* state_disconnecting and DISCONNECTED.                                   *)
LEMMA DisconnectedKeeps == RunInv /\ Disconnected => RunInv'
<1> SUFFICES ASSUME RunInv, Disconnected PROVE RunInv'
  OBVIOUS
<1>1. /\ wifiBusy /\ wifiEvents # <<>> /\ wifiState = "DISCONNECTING"
      /\ Head(wifiEvents) = "DISCONNECTED" /\ wifiEvents' = Popped
      /\ UNCHANGED <<faults, wifiBusy, wifiCall, wifiError, wifiHandle, link, tcpVars, udpVars>>
  BY DEF Disconnected, WifiPop
<1>2. wifiState' = "DISCONNECTED" /\ wifiTimer' = 0
  BY TimerStops DEF Disconnected
<1>3. /\ Popped \in Seq(WifiTypes) /\ Len(Popped) <= WifiQueueSize /\ AtMostOne(Popped, Ops)
      /\ Range(Popped) \subseteq Range(wifiEvents) /\ Head(wifiEvents) \in Range(wifiEvents)
  BY <1>1, Popping
<1>4. None(Popped, Tokens) /\ None(Popped, Starts)
  <2>1. None(wifiEvents, Tokens)
    BY <1>1 DEF RunInv, TokensInv, Timed
  <2>2. None(wifiEvents, Starts)
    BY <1>1 DEF RunInv, CallsInv, Rests, Connecting
  <2> QED
    BY <1>3, <2>1, <2>2 DEF None
<1>5. Keep /\ TcpQuiet /\ UdpQuiet
  BY <1>1, Still DEF RunInv, MachinesInv, Exchanges
<1>6. link = "DOWN"
  BY <1>1, <1>3 DEF RunInv, LinkInv, None
<1>7. wifiError # "FAILED"
  BY <1>1 DEF RunInv, SocketsInv
<1>8. OthersTyped'
  <2>1. 0 \in 0..ConnectingTimeout
    OBVIOUS
  <2> QED
    BY <1>1, <1>2, <1>3, <2>1, Typed DEF OthersTyped, WifiStates
<1>9. CallsInv'
  BY <1>1, <1>2, <1>3, <1>4 DEF CallsInv, Exchanges
<1>10. TokensInv'
  BY <1>1, <1>2, <1>4 DEF TokensInv, Exchanges
<1>11. MachinesInv'
  BY <1>2, <1>5 DEF MachinesInv, Keep, TcpKeeps, UdpKeeps, Exchanges
<1>12. AliveInv'
  BY <1>2 DEF AliveInv, Timed, Connecting, Exchanges
<1>13. LinkInv'
  BY <1>1, <1>2, <1>4, <1>6, OrderedNone DEF LinkInv, Exchanges
<1>14. SocketsInv'
  BY <1>1, <1>2, <1>7 DEF SocketsInv
<1> QED
  BY <1>5, <1>8, <1>9, <1>10, <1>11, <1>12, <1>13, <1>14, Together DEF Keep

(* wifi_communication_module_handler and PROCESS: a step of the exchange,  *)
(* or of what an operation has left of one.                                *)
LEMMA RunExchangeKeeps == RunInv /\ RunExchange => RunInv'
<1> SUFFICES ASSUME RunInv, RunExchange PROVE RunInv'
  OBVIOUS
<1> DEFINE now  == Range(wifiEvents)
           then == Range(wifiEvents')
<1>1. /\ wifiBusy /\ wifiEvents # <<>> /\ wifiState \in WifiStates \ {"RESET", "CLOSING"}
      /\ Head(wifiEvents) = "PROCESS" /\ "PROCESS" \in now
      /\ UNCHANGED <<faults, wifiBusy, wifiCall, wifiState, wifiTimer, wifiError, wifiHandle,
                     link>>
  BY Popping DEF RunExchange, WifiPop
<1>2. ~None(wifiEvents, Tokens)
  BY <1>1 DEF None, Tokens
<1>3. wifiState \in Exchanges \cup {"STOPPED", "DISCONNECTED"} /\ wifiState \notin Timed
  BY <1>1, <1>2 DEF RunInv, TokensInv, WifiStates, Timed, Connecting, Exchanges
<1>4. None(wifiEvents, Starts)
  BY <1>2 DEF RunInv, CallsInv
<1>5. PICK token \in Tokens :
        /\ wifiEvents' = WifiAdd(Popped, token)
        /\ \/ TcpProcess /\ UNCHANGED udpVars
           \/ UdpProcess /\ UNCHANGED tcpVars
           \/ UNCHANGED <<tcpVars, udpVars>>
        /\ token = "DONE" => \/ wifiHandle = "TCP" /\ TcpIdle
                             \/ wifiHandle = "UDP" /\ UdpIdle
  BY DEF RunExchange, Tokens
<1>6. Keep
  <2>1. TcpInv' /\ TcpKeeps
    BY <1>5, TcpPart, Still DEF Keep
  <2>2. UdpInv' /\ UdpKeeps
    BY <1>5, UdpPart, Still DEF Keep
  <2> QED
    BY <2>1, <2>2 DEF Keep
<1>7. wifiState \in {"STOPPED", "DISCONNECTED"} => TcpCold /\ UdpCold
  BY <1>2 DEF RunInv, TokensInv
<1>8. wifiState \in {"STOPPED", "DISCONNECTED"} =>
        /\ tcpSockets = 0 => tcpSockets' = 0
        /\ udpSockets = 0 => udpSockets' = 0
  <2>1. tcpSockets' \in Nat /\ udpSockets' \in Nat
    BY <1>6 DEF Keep, TcpInv, UdpInv, TcpTypeOK, U!TcpTypeOK
  <2>2. wifiState \in {"STOPPED", "DISCONNECTED"} =>
          tcpSockets' <= tcpSockets /\ udpSockets' <= udpSockets
    BY <1>6, <1>7 DEF Keep, TcpKeeps, UdpKeeps
  <2> QED
    BY <2>1, <2>2
<1>9. /\ Popped \in Seq(WifiTypes) /\ Len(Popped) <= WifiQueueSize
      /\ Range(Popped) \subseteq now /\ AtMostOne(Popped, Ops)
      /\ AtMostOne(wifiEvents, Tokens) => None(Popped, Tokens)
      /\ Ordered(wifiEvents) => Ordered(Popped)
  BY <1>1, Popping DEF Tokens
<1>10. token \in WifiTypes /\ token \notin Ops \cup Starts \cup Notices
  BY DEF WifiTypes, Tokens, Ops, Calls, Starts, Exchanges, Notices
<1>11. /\ wifiEvents' \in Seq(WifiTypes) /\ Len(wifiEvents') <= WifiQueueSize
       /\ then \subseteq Range(Popped) \cup {token} /\ token \in then
       /\ AtMostOne(wifiEvents', Ops)
       /\ None(Popped, Tokens) => AtMostOne(wifiEvents', Tokens)
       /\ Ordered(wifiEvents) => Ordered(wifiEvents')
  BY <1>5, <1>9, <1>10, NoneAtMostOne, Adding
<1>12. then \subseteq now \cup {token}
  BY <1>9, <1>11
<1>13. None(wifiEvents', Starts)
  BY <1>4, <1>10, <1>12 DEF None
<1>14. "DONE" \in then => TcpQuiet /\ UdpQuiet
  <2>1. CASE "DONE" \in now
    BY <2>1 DEF RunInv, MachinesInv, None
  <2>2. CASE "DONE" \notin now
    <3>1. "DONE" \in then => token = "DONE"
      BY <1>12, <2>2
    <3>2. /\ TcpIdle => TcpQuiet
          /\ UdpIdle => UdpQuiet
      BY BothIdle
    <3>3. CASE wifiState \in {"STOPPED", "DISCONNECTED"}
      BY <3>3 DEF RunInv, MachinesInv, Exchanges
    <3>4. CASE wifiState \in Exchanges
      <4>1. /\ wifiHandle = "TCP" => UdpQuiet
            /\ wifiHandle = "UDP" => TcpQuiet
        BY <3>4 DEF RunInv, MachinesInv, Exchanges
      <4> QED
        BY <1>5, <3>1, <3>2, <4>1
    <3> QED
      BY <1>3, <3>3, <3>4
  <2> QED
    BY <2>1, <2>2
<1>15. OthersTyped'
  BY <1>1, <1>11, Typed DEF OthersTyped
<1>16. CallsInv'
  BY <1>1, <1>4, <1>10, <1>11, <1>12, <1>13 DEF RunInv, CallsInv, None
<1>17. TokensInv'
  <2>1. wifiState \in Exchanges => AtMostOne(wifiEvents', Tokens)
    BY <1>9, <1>11 DEF RunInv, TokensInv
  <2> QED
    BY <1>1, <1>3, <1>6, <1>7, <2>1
    DEF TokensInv, Keep, TcpKeeps, UdpKeeps, Timed, Connecting, Exchanges
<1>18. MachinesInv'
  <2>1. ~None(wifiEvents', {"DONE"}) => TcpQuiet /\ UdpQuiet
    BY <1>14 DEF None
  <2> QED
    BY <1>1, <1>6, <2>1 DEF RunInv, MachinesInv, Keep, TcpKeeps, UdpKeeps
<1>19. AliveInv'
  <2>1. wifiState \in Exchanges => ~None(wifiEvents', Wakes(wifiState))
    BY <1>11, WhatWakes DEF None
  <2> QED
    BY <1>1, <1>3, <2>1 DEF RunInv, AliveInv
<1>20. LinkInv'
  BY <1>1, <1>10, <1>11, <1>12 DEF RunInv, LinkInv, None, Notices
<1>21. SocketsInv'
  BY <1>1, <1>8, <1>13 DEF RunInv, SocketsInv
<1> QED
  BY <1>6, <1>15, <1>16, <1>17, <1>18, <1>19, <1>20, <1>21, Together DEF Keep

(* state_reset and state_closing_socket, and PROCESS.                      *)
LEMMA RunClosingKeeps == RunInv /\ RunClosing => RunInv'
<1> SUFFICES ASSUME RunInv, RunClosing PROVE RunInv'
  OBVIOUS
<1> DEFINE now  == Range(wifiEvents)
           then == Range(wifiEvents')
<1>1. /\ wifiBusy /\ wifiEvents # <<>> /\ wifiState \in {"RESET", "CLOSING"}
      /\ Head(wifiEvents) = "PROCESS" /\ "PROCESS" \in now
      /\ UNCHANGED <<faults, wifiBusy, wifiCall, wifiState, wifiTimer, wifiError, wifiHandle,
                     link>>
  BY Popping DEF RunClosing, WifiPop
<1>2. None(wifiEvents, Starts)
  BY <1>1 DEF RunInv, CallsInv, Rests, Connecting
<1>3. PICK token \in Tokens :
        /\ wifiEvents' = WifiAdd(Popped, token)
        /\ \/ TcpProcess /\ UNCHANGED udpVars
           \/ UdpProcess /\ UNCHANGED tcpVars
           \/ UNCHANGED <<tcpVars, udpVars>>
        /\ token = "DONE" => TcpIdle /\ UdpIdle
  BY DEF RunClosing, Tokens
<1>4. Keep
  <2>1. TcpInv' /\ TcpKeeps
    BY <1>3, TcpPart, Still DEF Keep
  <2>2. UdpInv' /\ UdpKeeps
    BY <1>3, UdpPart, Still DEF Keep
  <2> QED
    BY <2>1, <2>2 DEF Keep
<1>5. /\ Popped \in Seq(WifiTypes) /\ Len(Popped) <= WifiQueueSize
      /\ Range(Popped) \subseteq now /\ AtMostOne(Popped, Ops)
      /\ AtMostOne(wifiEvents, Tokens) => None(Popped, Tokens)
  BY <1>1, Popping DEF Tokens
<1>6. token \in WifiTypes /\ token \notin Ops \cup Starts \cup Notices
  BY DEF WifiTypes, Tokens, Ops, Calls, Starts, Exchanges, Notices
<1>7. /\ wifiEvents' \in Seq(WifiTypes) /\ Len(wifiEvents') <= WifiQueueSize
      /\ then \subseteq Range(Popped) \cup {token} /\ token \in then
      /\ AtMostOne(wifiEvents', Ops)
      /\ None(Popped, Tokens) => AtMostOne(wifiEvents', Tokens)
  BY <1>3, <1>5, <1>6, NoneAtMostOne, Adding
<1>8. then \subseteq now \cup {token}
  BY <1>5, <1>7
<1>9. None(wifiEvents', Starts)
  BY <1>2, <1>5, <1>6, <1>7 DEF None
<1>10. "DONE" \in then =>
         \/ "DONE" \in now
         \/ TcpIdle /\ UdpIdle
  BY <1>3, <1>5, <1>7
<1>11. /\ TcpIdle => TcpQuiet /\ (TcpWarm => TcpCold)
       /\ UdpIdle => UdpQuiet /\ (UdpWarm => UdpCold)
  BY BothIdle
<1>12. OthersTyped'
  BY <1>1, <1>7, Typed DEF OthersTyped
<1>13. CallsInv'
  BY <1>1, <1>7, <1>9 DEF CallsInv, Exchanges
<1>14. TokensInv'
  <2>1. CASE wifiState = "CLOSING"
    <3>1. AtMostOne(wifiEvents', Tokens)
      BY <1>5, <1>7, <2>1 DEF RunInv, TokensInv
    <3>2. TcpWarm /\ UdpWarm
      BY <2>1 DEF RunInv, MachinesInv
    <3>3. "DONE" \in then => TcpCold /\ UdpCold
      BY <1>10, <1>11, <2>1, <3>2 DEF RunInv, TokensInv, None
    <3>4. ~None(wifiEvents', {"DONE"}) => TcpCold' /\ UdpCold'
      BY <1>4, <3>3 DEF None, Keep, TcpKeeps, UdpKeeps
    <3> QED
      BY <1>1, <2>1, <3>1, <3>4 DEF TokensInv, Timed, Connecting, Exchanges
  <2>2. CASE wifiState = "RESET"
    <3>1. AtMostOne(wifiEvents', Tokens) \/ (TcpWarm /\ UdpWarm)
      BY <1>5, <1>7, <2>2 DEF RunInv, TokensInv
    <3>2. "DONE" \in now => AtMostOne(wifiEvents', Tokens) \/ (TcpCold /\ UdpCold)
      BY <1>5, <1>7, <2>2 DEF RunInv, TokensInv, None
    <3>3. "DONE" \in then => AtMostOne(wifiEvents', Tokens) \/ (TcpCold /\ UdpCold)
      BY <1>10, <1>11, <3>1, <3>2
    <3>4. ~None(wifiEvents', {"DONE"}) =>
            AtMostOne(wifiEvents', Tokens) \/ (TcpCold' /\ UdpCold')
      BY <1>4, <3>3 DEF None, Keep, TcpKeeps, UdpKeeps
    <3>5. AtMostOne(wifiEvents', Tokens) \/ (TcpWarm' /\ UdpWarm')
      BY <1>4, <3>1 DEF Keep, TcpKeeps, UdpKeeps
    <3> QED
      BY <1>1, <2>2, <3>4, <3>5 DEF TokensInv, Timed, Connecting, Exchanges
  <2> QED
    BY <1>1, <2>1, <2>2
<1>15. MachinesInv'
  <2>1. "DONE" \in then => TcpQuiet /\ UdpQuiet
    BY <1>10, <1>11 DEF RunInv, MachinesInv, None
  <2>2. ~None(wifiEvents', {"DONE"}) => TcpQuiet /\ UdpQuiet
    BY <2>1 DEF None
  <2> QED
    BY <1>1, <1>4, <2>2 DEF RunInv, MachinesInv, Keep, TcpKeeps, UdpKeeps
<1>16. AliveInv'
  <2>1. wifiState = "CLOSING" => ~None(wifiEvents', Wakes(wifiState))
    BY <1>7, WhatWakes DEF None
  <2>2. Near(wifiEvents, faults + LinkSteps)'
    <3>1. Near(wifiEvents', faults + LinkSteps)
      BY <1>3, <1>5, <1>6, RoomIsNat, NearNew DEF WifiAdd
    <3>2. (faults + LinkSteps)' = faults + LinkSteps
      BY <1>1 DEF LinkSteps
    <3> QED
      BY <3>1, <3>2
  <2>3. wifiState \notin Timed \cup Exchanges
    BY <1>1 DEF Timed, Connecting, Exchanges
  <2> QED
    BY <1>1, <2>1, <2>2, <2>3 DEF RunInv, AliveInv
<1>17. LinkInv'
  BY <1>1, <1>6, <1>8 DEF RunInv, LinkInv, None, Notices
<1>18. SocketsInv'
  BY <1>1, <1>9 DEF RunInv, SocketsInv
<1> QED
  BY <1>4, <1>12, <1>13, <1>14, <1>15, <1>16, <1>17, <1>18, Together DEF Keep

(* The link is lost, or the time is up.                                    *)
LEMMA LinkLostKeeps == RunInv /\ (LinkLost \/ LinkLostElsewhere) => RunInv'
<1> SUFFICES ASSUME RunInv, LinkLost \/ LinkLostElsewhere PROVE RunInv'
  OBVIOUS
<1>1. CASE LinkLost
  BY <1>1, FailAndResetKeeps DEF LinkLost, WifiPop
<1>2. CASE LinkLostElsewhere
  BY <1>2, FailAndRestartKeeps DEF LinkLostElsewhere, WifiPop
<1> QED
  BY <1>1, <1>2

(* An event that is dropped, and one that is kept for later.               *)
LEMMA DroppedKeeps == RunInv /\ (SsidMissing \/ RetainWifi \/ WifiUnhandled) => RunInv'
<1> SUFFICES ASSUME RunInv, SsidMissing \/ RetainWifi \/ WifiUnhandled PROVE RunInv'
  OBVIOUS
<1> DEFINE h == Head(wifiEvents)
<1>1. /\ wifiBusy /\ wifiEvents # <<>>
      /\ UNCHANGED <<wifiState, wifiTimer, wifiHandle, link, faults, wifiBusy, wifiCall,
                     tcpVars, udpVars>>
      /\ UNCHANGED wifiError \/ SetWifiError("PARAMETERS_MISSING")
  BY DEF SsidMissing, RetainWifi, WifiUnhandled, WifiPop
<1>2. CASE SsidMissing
  <2>1. wifiState = "DISCONNECTED" /\ wifiEvents' = Popped
    BY <1>2 DEF SsidMissing, WifiPop
  <2>2. wifiState \notin Timed \cup Exchanges \cup {"CLOSING", "RESET"}
    BY <2>1 DEF Timed, Connecting, Exchanges
  <2> QED
    BY <1>1, <2>1, <2>2, StaysKeeps
<1>3. CASE RetainWifi
  <2>1. h \in Retained(wifiState) /\ wifiEvents' = WifiAdd(Popped, h)
    BY <1>3 DEF RetainWifi, WifiPop
  <2>2. wifiState \in Timed \cup {"CLOSING"} /\ h \notin Tokens
    BY <2>1 DEF Retained, Timed, Connecting, Tokens, Exchanges
  <2> QED
    BY <1>1, <2>1, <2>2, StaysKeeps
<1>4. CASE WifiUnhandled
  <2>1. wifiState \in WifiStates /\ h \in WifiIgnores(wifiState) /\ wifiEvents' = Popped
    BY <1>4 DEF WifiUnhandled, WifiPop
  <2>2. wifiState \in Timed \cup Exchanges \cup {"CLOSING"} => h \notin Wakes(wifiState)
    <3>1. CASE wifiState = "CONNECTING_TO_AP"
      BY <2>1, <3>1, WhatWakes DEF WifiIgnores, Retained, Exchanges
    <3>2. CASE wifiState = "ACQUIRING_IP"
      BY <2>1, <3>2, WhatWakes DEF WifiIgnores, Retained, Exchanges
    <3>3. CASE wifiState = "DISCONNECTING"
      BY <2>1, <3>3, WhatWakes DEF WifiIgnores, Retained, Exchanges
    <3>4. CASE wifiState = "CLOSING"
      BY <2>1, <3>4, WhatWakes DEF WifiIgnores, Retained, Exchanges, Tokens
    <3>5. CASE wifiState \in Exchanges
      BY <2>1, <3>5, WhatWakes DEF WifiIgnores, Retained, Exchanges, Tokens
    <3> QED
      BY <3>1, <3>2, <3>3, <3>4, <3>5 DEF Timed, Connecting
  <2>3. wifiState = "RESET" => h \notin Tokens
    BY <2>1 DEF WifiIgnores, Tokens, Exchanges
  <2> QED
    BY <1>1, <2>1, <2>2, <2>3, StaysKeeps
<1> QED
  BY <1>2, <1>3, <1>4

(* state_reset and STOP, which is put behind what the reset waits for.     *)
LEMMA PreserveStopKeeps == RunInv /\ PreserveStop => RunInv'
<1> SUFFICES ASSUME RunInv, PreserveStop PROVE RunInv'
  OBVIOUS
<1> DEFINE h    == Head(wifiEvents)
           now  == Range(wifiEvents)
           then == Range(wifiEvents')
<1>1. /\ wifiBusy /\ wifiEvents # <<>> /\ wifiState = "RESET"
      /\ h \in {"STOP", "STOP_SOCKET_CLOSED"} /\ wifiEvents' = WifiAdd(Popped, "STOP")
      /\ UNCHANGED <<faults, wifiBusy, wifiCall, wifiState, wifiTimer, wifiError, wifiHandle,
                     link, tcpVars, udpVars>>
  BY DEF PreserveStop, WifiPop
<1>2. h \in Ops /\ h \notin Tokens /\ "STOP" \in WifiTypes
  BY <1>1 DEF Ops, Calls, Tokens, WifiTypes
<1>3. "STOP" \notin Tokens \cup Starts
  BY DEF Tokens, Starts, Exchanges
<1>4. Keep
  BY <1>1, Still
<1>5. /\ Popped \in Seq(WifiTypes) /\ Len(Popped) <= WifiQueueSize
      /\ Len(Popped) < WifiQueueSize
      /\ Range(Popped) \subseteq now /\ AtMostOne(Popped, Ops) /\ None(Popped, Ops)
      /\ AtMostOne(wifiEvents, Tokens) => AtMostOne(Popped, Tokens)
  BY <1>1, <1>2, Popping
<1>6. /\ wifiEvents' \in Seq(WifiTypes) /\ Len(wifiEvents') <= WifiQueueSize
      /\ then \subseteq now \cup {"STOP"} /\ wifiEvents' = Append(Popped, "STOP")
      /\ AtMostOne(wifiEvents', Ops)
      /\ AtMostOne(wifiEvents, Tokens) => AtMostOne(wifiEvents', Tokens)
  BY <1>1, <1>2, <1>3, <1>5, Adding
<1>7. None(wifiEvents', Starts)
  <2>1. None(wifiEvents, Starts)
    BY <1>1 DEF RunInv, CallsInv, Rests, Connecting
  <2> QED
    BY <1>3, <1>6, <2>1 DEF None
<1> HIDE DEF h
<1>8. OthersTyped'
  BY <1>1, <1>6, Typed DEF OthersTyped
<1>9. CallsInv'
  BY <1>1, <1>6, <1>7 DEF CallsInv, Exchanges
<1>10. TokensInv'
  <2>1. ~None(wifiEvents', {"DONE"}) => ~None(wifiEvents, {"DONE"})
    BY <1>6 DEF None
  <2> QED
    BY <1>1, <1>4, <1>6, <2>1
    DEF RunInv, TokensInv, Keep, TcpKeeps, UdpKeeps, Timed, Connecting, Exchanges
<1>11. MachinesInv'
  <2>1. ~None(wifiEvents', {"DONE"}) => TcpQuiet /\ UdpQuiet
    BY <1>6 DEF RunInv, MachinesInv, None
  <2> QED
    BY <1>1, <1>4, <2>1 DEF RunInv, MachinesInv, Keep, TcpKeeps, UdpKeeps
<1>12. AliveInv'
  <2>1. Near(wifiEvents, faults + LinkSteps)
    BY <1>1 DEF RunInv, AliveInv
  <2>2. wifiEvents \in Seq(WifiTypes) /\ AtMostOne(wifiEvents, Ops)
    BY DEF RunInv, WifiTypeOK, CallsInv
  <2>3. Near(wifiEvents', faults + LinkSteps)
    BY <1>1, <1>2, <1>6, <2>1, <2>2, RoomIsNat, NearTail DEF Popped, h
  <2>4. (faults + LinkSteps)' = faults + LinkSteps
    BY <1>1 DEF LinkSteps
  <2>5. Near(wifiEvents, faults + LinkSteps)'
    BY <2>3, <2>4
  <2> QED
    BY <1>1, <2>5 DEF RunInv, AliveInv, Timed, Connecting, Exchanges
<1>13. LinkInv'
  BY <1>1, <1>6 DEF RunInv, LinkInv, None, Exchanges
<1>14. SocketsInv'
  BY <1>1, <1>7 DEF RunInv, SocketsInv
<1> QED
  BY <1>4, <1>8, <1>9, <1>10, <1>11, <1>12, <1>13, <1>14, Together DEF Keep

(* The caller: an operation is called in a machine that rests.             *)
LEMMA CallKeeps ==
  ASSUME RunInv, NEW operation \in Calls, WifiCall(operation)
  PROVE  RunInv'
<1> DEFINE now  == Range(wifiEvents)
           then == Range(wifiEvents')
<1>1. /\ ~wifiBusy /\ wifiBusy' = TRUE /\ wifiEvents' = WifiAdd(wifiEvents, operation)
      /\ wifiError' = "NONE" /\ wifiCall' = operation
      /\ faults' = IF operation \in CountAnew THEN 0 ELSE faults
      /\ UNCHANGED <<wifiState, wifiTimer, wifiHandle, link, tcpVars, udpVars>>
  BY DEF WifiCall
<1>2. /\ wifiState \in Rests /\ None(wifiEvents, Ops) /\ None(wifiEvents, Tokens)
      /\ AtMostOne(wifiEvents, Ops)
  BY <1>1 DEF RunInv, CallsInv, None
<1>3. wifiEvents \in Seq(WifiTypes) /\ Len(wifiEvents) <= WifiQueueSize
  BY DEF RunInv, WifiTypeOK
<1>4. operation \in WifiTypes \ (Tokens \cup Notices) /\ operation \in Ops
  BY DEF WifiTypes, Tokens, Ops, Notices, Calls, Starts, Exchanges
<1>5. /\ wifiEvents' \in Seq(WifiTypes) /\ Len(wifiEvents') <= WifiQueueSize
      /\ then \subseteq now \cup {operation} /\ AtMostOne(wifiEvents', Ops)
      /\ Ordered(wifiEvents) => Ordered(wifiEvents')
  BY <1>1, <1>2, <1>3, <1>4, Adding
<1>6. None(wifiEvents', Tokens)
  BY <1>2, <1>4, <1>5 DEF None
<1>7. Keep
  BY <1>1, Still
<1>8. OthersTyped'
  <2>1. OthersTyped /\ faults' \in {0, faults}
    BY <1>1, Typed
  <2>2. faults' \in 0..MaxFaults
    BY <2>1 DEF OthersTyped
  <2> QED
    BY <1>1, <1>5, <2>1, <2>2 DEF OthersTyped, WifiErrors
<1>9. CallsInv'
  BY <1>1, <1>2, <1>5, <1>6 DEF CallsInv, Rests, Exchanges
<1>10. TokensInv'
  BY <1>1, <1>2, <1>6 DEF TokensInv, Rests, Exchanges
<1>11. MachinesInv'
  <2>1. None(wifiEvents', {"DONE"})
    BY <1>6 DEF None, Tokens
  <2> QED
    BY <1>1, <1>7, <2>1 DEF RunInv, MachinesInv, Keep, TcpKeeps, UdpKeeps
<1>12. AliveInv'
  BY <1>1, <1>2 DEF RunInv, AliveInv, Rests, Timed, Connecting, Exchanges
<1>13. LinkInv'
  BY <1>1, <1>4, <1>5 DEF RunInv, LinkInv, None, Notices
<1>14. SocketsInv'
  BY <1>1 DEF RunInv, SocketsInv, tcpVars, udpVars
<1> QED
  BY <1>7, <1>8, <1>9, <1>10, <1>11, <1>12, <1>13, <1>14, Together DEF Keep

(* An empty queue is that of a machine that rests.                         *)
LEMMA EmptyRests ==
  ASSUME RunInv, wifiEvents = <<>>
  PROVE  wifiState \in Rests
<1>1. Range(wifiEvents) = {} /\ DOMAIN wifiEvents = {}
  <2>1. DOMAIN <<>> = {}
    OBVIOUS
  <2>2. Range(<<>>) = {}
    BY Singles
  <2> QED
    BY <2>1, <2>2
<1>2. wifiState \notin Timed \cup Exchanges \cup {"CLOSING"}
  <2>1. None(wifiEvents, Wakes(wifiState))
    BY <1>1 DEF None
  <2> QED
    BY <2>1 DEF RunInv, AliveInv
<1>3. wifiState # "RESET"
  <2>1. ~Near(wifiEvents, faults + LinkSteps)
    BY <1>1 DEF Near, NearOf, PlacesOf
  <2> QED
    BY <2>1 DEF RunInv, AliveInv
<1> QED
  BY <1>2, <1>3 DEF RunInv, WifiTypeOK, WifiStates, Rests, Timed

(* process_event returns false.                                            *)
LEMMA ReturnKeeps == RunInv /\ WifiReturns => RunInv'
<1> SUFFICES ASSUME RunInv, WifiReturns PROVE RunInv'
  OBVIOUS
<1>1. /\ wifiEvents = <<>> /\ wifiBusy' = FALSE
      /\ UNCHANGED <<wifiEvents, wifiState, wifiTimer, wifiError, wifiHandle, link, faults,
                     wifiCall, tcpVars, udpVars>>
  BY DEF WifiReturns
<1>2. Range(wifiEvents) = {}
  BY <1>1, Singles
<1>3. wifiState \in Rests
  BY <1>1, EmptyRests
<1>4. Keep
  BY <1>1, Still
<1>5. OthersTyped'
  BY <1>1, Typed DEF OthersTyped
<1>6. CallsInv'
  BY <1>1, <1>2, <1>3 DEF RunInv, CallsInv, None
<1>7. TokensInv'
  BY <1>1, <1>2 DEF RunInv, TokensInv, None, tcpVars, udpVars, TcpWarm, UdpWarm, TcpCold, UdpCold
<1>8. MachinesInv'
  BY <1>1, <1>4 DEF RunInv, MachinesInv, Keep, TcpKeeps, UdpKeeps
<1>9. AliveInv'
  BY <1>1, <1>3 DEF RunInv, AliveInv, Rests, Timed, Connecting, Exchanges
<1>10. LinkInv'
  BY <1>1 DEF RunInv, LinkInv
<1>11. SocketsInv'
  BY <1>1 DEF RunInv, SocketsInv, tcpVars, udpVars
<1> QED
  BY <1>4, <1>5, <1>6, <1>7, <1>8, <1>9, <1>10, <1>11, Together DEF Keep

(* What the chip and the clock add to the queue, whatever the machine is   *)
(* about: it drops an event at most, and what it adds wakes the machine    *)
(* where it has to be woken.                                               *)
LEMMA ArrivalKeeps ==
  ASSUME RunInv, NEW event \in Notices \cup {"ERROR", "TIMEOUT"},
         wifiEvents' = WifiAdd(wifiEvents, event),
         UNCHANGED <<wifiState, wifiHandle, wifiError, wifiBusy, wifiCall>>,
         Keep,
         wifiTimer' \in 0..ConnectingTimeout \cup 0..DisconnectTimeout,
         wifiTimer' > 0 => wifiState \in Timed,
         link' \in {"DOWN", "JOINING", "JOINED", "UP"}, faults' \in 0..MaxFaults,
         wifiState \in Timed \cup Exchanges \cup {"CLOSING"} => event \in Wakes(wifiState),
         wifiState = "RESET" => Near(wifiEvents, faults + LinkSteps)',
         LinkInv',
         wifiState \in {"STOPPED", "DISCONNECTED"} =>
           tcpSockets' = tcpSockets /\ udpSockets' = udpSockets
  PROVE  RunInv'
<1> DEFINE now  == Range(wifiEvents)
           then == Range(wifiEvents')
<1>1. wifiEvents \in Seq(WifiTypes) /\ Len(wifiEvents) <= WifiQueueSize
  BY DEF RunInv, WifiTypeOK
<1>2. AtMostOne(wifiEvents, Ops)
  BY DEF RunInv, CallsInv
<1>3. event \in WifiTypes /\ event \notin Ops \cup Starts \cup Tokens
  BY DEF WifiTypes, Ops, Calls, Starts, Exchanges, Tokens, Notices
<1>4. /\ wifiEvents' \in Seq(WifiTypes) /\ Len(wifiEvents') <= WifiQueueSize
      /\ then \subseteq now \cup {event} /\ event \in then
      /\ AtMostOne(wifiEvents', Ops)
      /\ AtMostOne(wifiEvents, Tokens) => AtMostOne(wifiEvents', Tokens)
  BY <1>1, <1>2, <1>3, Adding
<1>5. /\ None(wifiEvents, Ops) => None(wifiEvents', Ops)
      /\ None(wifiEvents, Starts) => None(wifiEvents', Starts)
      /\ None(wifiEvents, Tokens) => None(wifiEvents', Tokens)
      /\ None(wifiEvents, {"DONE"}) => None(wifiEvents', {"DONE"})
      /\ None(wifiEvents, Ops \cup Tokens) => None(wifiEvents', Ops \cup Tokens)
  BY <1>3, <1>4 DEF None, Tokens
<1>6. OthersTyped'
  BY <1>4, Typed DEF OthersTyped
<1>7. CallsInv'
  BY <1>4, <1>5 DEF RunInv, CallsInv
<1>8. TokensInv'
  BY <1>4, <1>5 DEF RunInv, TokensInv, Keep, TcpKeeps, UdpKeeps
<1>9. MachinesInv'
  BY <1>5 DEF RunInv, MachinesInv, Keep, TcpKeeps, UdpKeeps
<1>10. AliveInv'
  <2>1. wifiState \in Timed \cup Exchanges \cup {"CLOSING"} =>
          ~None(wifiEvents', Wakes(wifiState))
    BY <1>4 DEF None
  <2> QED
    BY <2>1 DEF AliveInv
<1>11. SocketsInv'
  BY <1>5 DEF RunInv, SocketsInv
<1> QED
  BY <1>6, <1>7, <1>8, <1>9, <1>10, <1>11, Together DEF Keep

(* second_expired_listener.                                                *)
LEMMA SecondKeeps == RunInv /\ WifiSecond => RunInv'
<1> SUFFICES ASSUME RunInv, WifiSecond PROVE RunInv'
  OBVIOUS
<1>1. /\ wifiTimer' = IF wifiTimer > 0 THEN wifiTimer - 1 ELSE 0
      /\ wifiEvents' = IF wifiTimer = 1 THEN WifiAdd(wifiEvents, "TIMEOUT") ELSE wifiEvents
      /\ TcpSecond /\ UdpSecond
      /\ UNCHANGED <<wifiState, wifiError, wifiHandle, link, faults, wifiBusy, wifiCall>>
  BY DEF WifiSecond
<1>2. Keep
  BY <1>1, TcpPart, UdpPart DEF Keep
<1>3. tcpSockets' = tcpSockets /\ udpSockets' = udpSockets
  BY <1>1 DEF TcpSecond, UdpSecond, U!TcpSecond
<1>4. /\ wifiTimer' \in 0..ConnectingTimeout \cup 0..DisconnectTimeout
      /\ wifiTimer' > 0 => wifiTimer > 0
  <2>1. wifiTimer \in 0..ConnectingTimeout \cup 0..DisconnectTimeout
    BY DEF RunInv, WifiTypeOK
  <2> QED
    BY <1>1, <2>1
<1>5. wifiTimer > 0 => wifiState \in Timed
  BY DEF RunInv, AliveInv
<1>6. CASE wifiTimer = 1
  <2>1. wifiState \in Timed
    BY <1>5, <1>6
  <2>2. wifiState \in {"CONNECTING_TO_AP", "ACQUIRING_IP", "DISCONNECTING"}
    BY <2>1 DEF Timed, Connecting
  <2>3. "TIMEOUT" \in Wakes(wifiState)
    BY <2>2, WhatWakes
  <2>4. LinkInv'
    <3>1. wifiEvents \in Seq(WifiTypes) /\ Len(wifiEvents) <= WifiQueueSize
      BY DEF RunInv, WifiTypeOK
    <3>2. Range(wifiEvents') \subseteq Range(wifiEvents) \cup {"TIMEOUT"}
      <4>1. "TIMEOUT" \in WifiTypes
        BY DEF WifiTypes
      <4> QED
        BY <1>1, <1>6, <3>1, <4>1, Adding
    <3> QED
      BY <1>1, <2>2, <3>2 DEF RunInv, LinkInv, None, Exchanges
  <2>5. link' \in {"DOWN", "JOINING", "JOINED", "UP"} /\ faults' \in 0..MaxFaults
    BY <1>1, Typed DEF OthersTyped
  <2> QED
    BY <1>1, <1>2, <1>3, <1>4, <1>6, <2>1, <2>2, <2>3, <2>4, <2>5, ArrivalKeeps
<1>7. CASE wifiTimer # 1
  <2>1. UNCHANGED <<wifiEvents, wifiState, wifiError, wifiHandle, link, faults, wifiBusy, wifiCall>>
    BY <1>1, <1>7
  <2>2. OthersTyped'
    BY <1>4, <2>1, Typed DEF OthersTyped
  <2>3. CallsInv'
    BY <2>1 DEF RunInv, CallsInv
  <2>4. TokensInv'
    BY <1>2, <2>1 DEF RunInv, TokensInv, Keep, TcpKeeps, UdpKeeps
  <2>5. MachinesInv'
    BY <1>2, <2>1 DEF RunInv, MachinesInv, Keep, TcpKeeps, UdpKeeps
  <2>6. AliveInv'
    <3>1. LinkSteps' = LinkSteps
      BY <2>1 DEF LinkSteps
    <3> QED
      BY <1>4, <1>5, <2>1, <3>1 DEF RunInv, AliveInv
  <2>7. LinkInv'
    BY <2>1 DEF RunInv, LinkInv
  <2>8. SocketsInv'
    BY <1>3, <2>1 DEF RunInv, SocketsInv
  <2> QED
    BY <1>2, <2>2, <2>3, <2>4, <2>5, <2>6, <2>7, <2>8, Together DEF Keep
<1> QED
  BY <1>6, <1>7

(* More may come after a token than has come.                              *)
LEMMA NearMore ==
  ASSUME NEW q \in Seq(WifiTypes), NEW d \in Nat, NEW e \in Nat, d <= e, Near(q, d)
  PROVE  Near(q, e)
BY NearOfMore DEF Near

(* Where the token of a reset is after one more notice or error: the queue *)
(* is long enough for all that can come after it.                          *)
LEMMA NearAfter ==
  ASSUME RunInv, wifiState = "RESET", WifiQueueSize > MaxFaults + 4,
         NEW event \in WifiTypes, wifiEvents' = WifiAdd(wifiEvents, event),
         faults + LinkSteps <= MaxFaults + 2,
         (faults + LinkSteps)' \in Nat, faults + LinkSteps + 1 <= (faults + LinkSteps)'
  PROVE  Near(wifiEvents, faults + LinkSteps)'
<1> DEFINE d == faults + LinkSteps
           e == (faults + LinkSteps)'
<1>1. wifiEvents \in Seq(WifiTypes) /\ Len(wifiEvents) <= WifiQueueSize
  BY DEF RunInv, WifiTypeOK
<1>2. Near(wifiEvents, d)
  BY DEF RunInv, AliveInv
<1>3. d \in Nat /\ d + 1 \in Nat
  BY RoomIsNat
<1>4. d <= MaxFaults + 2 /\ e \in Nat /\ d + 1 <= e
  OBVIOUS
<1> HIDE DEF d, e
<1>5. WifiQueueSize > d + 2
  BY <1>3, <1>4
<1>6. Near(wifiEvents', d + 1)
  BY <1>1, <1>2, <1>3, <1>5, NearPut DEF WifiAdd
<1>7. wifiEvents' \in Seq(WifiTypes)
  BY <1>1, Adding
<1>8. Near(wifiEvents', e)
  BY <1>3, <1>4, <1>6, <1>7, NearMore
<1> QED
  BY <1>8 DEF e

(* The notices of the access point, and the errors of the chip.            *)
LEMMA NoticeKeeps ==
  ASSUME RunInv, WifiQueueSize > MaxFaults + 4, NEW event \in Notices, Notice(event)
  PROVE  RunInv'
<1> DEFINE now  == Range(wifiEvents)
           then == Range(wifiEvents')
<1>1. /\ wifiEvents' = WifiAdd(wifiEvents, event)
      /\ UNCHANGED <<wifiState, wifiTimer, wifiError, wifiHandle, faults, wifiBusy,
                     wifiCall, tcpVars, udpVars>>
  BY DEF Notice
<1>2. \/ event = "CONNECTED" /\ link = "JOINING" /\ link' = "JOINED"
      \/ event = "IP_ACQUIRED" /\ link = "JOINED" /\ link' = "UP"
      \/ event = "DISCONNECTED" /\ link # "DOWN" /\ link' = "DOWN"
  BY DEF Notice
<1>3. Keep
  BY <1>1, Still
<1>4. wifiState \notin {"STOPPED", "DISCONNECTED"}
  BY <1>2 DEF RunInv, LinkInv
<1>5. wifiState \in Timed \cup Exchanges \cup {"CLOSING"} => event \in Wakes(wifiState)
  <2>1. CASE wifiState = "CONNECTING_TO_AP"
    BY <1>2, <2>1, WhatWakes
  <2>2. CASE wifiState = "ACQUIRING_IP"
    <3>1. link # "JOINING"
      BY <2>2 DEF RunInv, LinkInv
    <3> QED
      BY <1>2, <2>2, <3>1, WhatWakes
  <2>3. CASE wifiState \in {"DISCONNECTING", "CLOSING"} \cup Exchanges
    <3>1. link \in {"UP", "DOWN"}
      BY <2>3 DEF RunInv, LinkInv
    <3>2. event = "DISCONNECTED"
      BY <1>2, <3>1
    <3> QED
      BY <2>3, <3>2, WhatWakes
  <2> QED
    BY <2>1, <2>2, <2>3 DEF Timed, Connecting
<1>6. wifiEvents \in Seq(WifiTypes) /\ Len(wifiEvents) <= WifiQueueSize
  BY DEF RunInv, WifiTypeOK
<1>7. event \in WifiTypes
  BY DEF WifiTypes
<1>8. then \subseteq now \cup {event}
  BY <1>1, <1>6, <1>7, Adding
<1>9. wifiState = "RESET" => Near(wifiEvents, faults + LinkSteps)'
  <2> SUFFICES ASSUME wifiState = "RESET" PROVE Near(wifiEvents, faults + LinkSteps)'
    OBVIOUS
  <2>1. LinkSteps \in 0..2 /\ LinkSteps' \in 0..3 /\ LinkSteps + 1 <= LinkSteps'
    <3>1. link \in {"DOWN", "JOINING", "JOINED", "UP"}
      BY Typed DEF OthersTyped
    <3> QED
      BY <1>2, <3>1 DEF LinkSteps
  <2>2. faults \in 0..MaxFaults /\ faults' = faults
    BY <1>1, Typed DEF OthersTyped
  <2>3. faults + LinkSteps <= MaxFaults + 2
    BY <2>1, <2>2
  <2>4. faults' \in Nat /\ LinkSteps' \in Nat /\ faults \in Nat /\ LinkSteps \in Nat
    BY <2>1, <2>2
  <2>5. ASSUME NEW a \in Nat, NEW b \in Nat, NEW c \in Nat, b + 1 <= c
        PROVE  a + c \in Nat /\ a + b + 1 <= a + c
    BY <2>5
  <2>6. faults' + LinkSteps' \in Nat /\ faults + LinkSteps + 1 <= faults' + LinkSteps'
    BY <2>1, <2>2, <2>4, <2>5
  <2> QED
    BY <1>1, <1>7, <2>3, <2>6, NearAfter
<1>10. LinkInv'
  <2>1. "CONNECTED" \in then => link' # "JOINING"
    BY <1>2
  <2>2. "IP_ACQUIRED" \in then => link' \in {"UP", "DOWN"}
    BY <1>2, <1>8 DEF RunInv, LinkInv, None
  <2>3. "DISCONNECTED" \in then => link' = "DOWN"
    BY <1>2, <1>8 DEF RunInv, LinkInv, None
  <2>4. wifiState \in {"CONNECTED", "CLOSING", "DISCONNECTING"} \cup Exchanges =>
          link' \in {"UP", "DOWN"}
    BY <1>2 DEF RunInv, LinkInv
  <2> QED
    BY <1>1, <1>2, <1>4, <2>1, <2>2, <2>3, <2>4 DEF LinkInv, None
<1>11. /\ link' \in {"DOWN", "JOINING", "JOINED", "UP"} /\ faults' \in 0..MaxFaults
       /\ wifiTimer' \in 0..ConnectingTimeout \cup 0..DisconnectTimeout
       /\ wifiTimer' > 0 => wifiState \in Timed
  <2>1. wifiTimer > 0 => wifiState \in Timed
    BY DEF RunInv, AliveInv
  <2> QED
    BY <1>1, <1>2, <2>1, Typed DEF OthersTyped
<1> QED
  BY <1>1, <1>3, <1>4, <1>5, <1>9, <1>10, <1>11, ArrivalKeeps

(* An error of the chip.                                                   *)
LEMMA ErrorNoticeKeeps ==
  ASSUME RunInv, WifiQueueSize > MaxFaults + 4, ErrorNotice
  PROVE  RunInv'
<1> DEFINE now  == Range(wifiEvents)
           then == Range(wifiEvents')
<1>1. /\ wifiState # "STOPPED" /\ faults < MaxFaults /\ faults' = faults + 1
      /\ wifiEvents' = WifiAdd(wifiEvents, "ERROR")
      /\ UNCHANGED <<wifiState, wifiTimer, wifiError, wifiHandle, link, wifiBusy,
                     wifiCall, tcpVars, udpVars>>
  BY DEF ErrorNotice
<1>2. Keep
  BY <1>1, Still
<1>3. wifiState \in Timed \cup Exchanges \cup {"CLOSING"} => "ERROR" \in Wakes(wifiState)
  BY WhatWakes DEF Timed, Connecting
<1>4. wifiEvents \in Seq(WifiTypes) /\ Len(wifiEvents) <= WifiQueueSize
  BY DEF RunInv, WifiTypeOK
<1>5. "ERROR" \in WifiTypes /\ "ERROR" \notin Notices
  BY DEF WifiTypes, Notices
<1>6. /\ then \subseteq now \cup {"ERROR"}
      /\ Ordered(wifiEvents) => Ordered(wifiEvents')
  BY <1>1, <1>4, <1>5, Adding
<1>7. faults \in 0..MaxFaults /\ faults' \in 0..MaxFaults
  <2>1. faults \in 0..MaxFaults
    BY Typed DEF OthersTyped
  <2> QED
    BY <1>1, <2>1
<1>8. wifiState = "RESET" => Near(wifiEvents, faults + LinkSteps)'
  <2> SUFFICES ASSUME wifiState = "RESET" PROVE Near(wifiEvents, faults + LinkSteps)'
    OBVIOUS
  <2>1. LinkSteps \in 0..3 /\ LinkSteps' = LinkSteps
    <3>1. LinkSteps \in Nat /\ LinkSteps <= 3
      BY RoomIsNat
    <3>2. LinkSteps' = LinkSteps
      BY <1>1 DEF LinkSteps
    <3> QED
      BY <3>1, <3>2
  <2>2. faults + LinkSteps <= MaxFaults + 2
    BY <1>1, <1>7, <2>1
  <2>3. faults' + LinkSteps' \in Nat /\ faults + LinkSteps + 1 <= faults' + LinkSteps'
    BY <1>1, <1>7, <2>1
  <2> QED
    BY <1>1, <1>5, <2>2, <2>3, NearAfter
<1>9. LinkInv'
  BY <1>1, <1>6 DEF RunInv, LinkInv, None
<1>10. /\ wifiTimer' \in 0..ConnectingTimeout \cup 0..DisconnectTimeout
       /\ wifiTimer' > 0 => wifiState \in Timed
       /\ link' \in {"DOWN", "JOINING", "JOINED", "UP"}
  <2>1. wifiTimer > 0 => wifiState \in Timed
    BY DEF RunInv, AliveInv
  <2> QED
    BY <1>1, <2>1, Typed DEF OthersTyped
<1>11. tcpSockets' = tcpSockets /\ udpSockets' = udpSockets
  BY <1>1 DEF tcpVars, udpVars
<1> QED
  BY <1>1, <1>2, <1>3, <1>7, <1>8, <1>9, <1>10, <1>11, ArrivalKeeps

(* A socket is closed by the peer.                                         *)
LEMMA SocketNoticeKeeps == RunInv /\ SocketNotice => RunInv'
<1> SUFFICES ASSUME RunInv, SocketNotice PROVE RunInv'
  OBVIOUS
<1>1. /\ faults < MaxFaults /\ faults' = faults + 1 /\ SocketClosed
      /\ UNCHANGED <<wifiEvents, wifiState, wifiTimer, wifiError, wifiHandle, link,
                     wifiBusy, wifiCall, udpVars>>
  BY DEF SocketNotice
<1>2. Keep /\ tcpSockets' = tcpSockets /\ udpSockets' = udpSockets
  <2>1. tcpSockets' = tcpSockets /\ udpSockets' = udpSockets
    BY <1>1 DEF SocketClosed, udpVars
  <2> QED
    BY <1>1, <2>1, TcpPart, UdpPart DEF Keep
<1>3. faults \in 0..MaxFaults /\ faults' \in 0..MaxFaults
  <2>1. faults \in 0..MaxFaults
    BY Typed DEF OthersTyped
  <2> QED
    BY <1>1, <2>1
<1>4. wifiState = "RESET" => Near(wifiEvents, faults + LinkSteps)'
  <2> SUFFICES ASSUME wifiState = "RESET" PROVE Near(wifiEvents, faults + LinkSteps)'
    OBVIOUS
  <2>1. Near(wifiEvents, faults + LinkSteps)
    BY DEF RunInv, AliveInv
  <2>2. LinkSteps' = LinkSteps /\ LinkSteps \in Nat
    BY <1>1, RoomIsNat DEF LinkSteps
  <2>3. /\ faults + LinkSteps \in Nat /\ faults' + LinkSteps' \in Nat
        /\ faults + LinkSteps <= faults' + LinkSteps'
    BY <1>1, <1>3, <2>2
  <2>4. wifiEvents \in Seq(WifiTypes)
    BY DEF RunInv, WifiTypeOK
  <2> QED
    BY <1>1, <2>1, <2>3, <2>4, NearMore
<1>5. OthersTyped'
  BY <1>1, <1>3, Typed DEF OthersTyped
<1>6. CallsInv'
  BY <1>1 DEF RunInv, CallsInv
<1>7. TokensInv'
  BY <1>1, <1>2 DEF RunInv, TokensInv, Keep, TcpKeeps, UdpKeeps
<1>8. MachinesInv'
  BY <1>1, <1>2 DEF RunInv, MachinesInv, Keep, TcpKeeps, UdpKeeps
<1>9. AliveInv'
  BY <1>1, <1>4 DEF RunInv, AliveInv
<1>10. LinkInv'
  BY <1>1 DEF RunInv, LinkInv
<1>11. SocketsInv'
  BY <1>1, <1>2 DEF RunInv, SocketsInv
<1> QED
  BY <1>2, <1>5, <1>6, <1>7, <1>8, <1>9, <1>10, <1>11, Together DEF Keep

-------------------------------------------------------------------------------
(***************************************************************************)
(* The invariants of all runs.                                             *)
(***************************************************************************)
LEMMA FirstInv == WifiInit => RunInv
<1> SUFFICES ASSUME WifiInit PROVE RunInv
  OBVIOUS
<1>1. /\ TcpInit /\ UdpInit /\ wifiEvents = <<>> /\ wifiState = "STOPPED" /\ wifiTimer = 0
      /\ wifiError = "NONE" /\ wifiHandle = "NONE" /\ link = "DOWN" /\ faults = 0
      /\ wifiBusy = FALSE /\ wifiCall = "STOP"
  BY DEF WifiInit
<1>2. TcpInv /\ UdpInv
  BY <1>1, TcpStart, UdpStart DEF UdpInit
<1>3. Range(<<>>) = {} /\ tcpEvents = <<>> /\ udpEvents = <<>>
  BY <1>1, Singles DEF TcpInit, UdpInit, U!TcpInit
<1>4. /\ TcpLive /\ TcpQuiet /\ UdpLive /\ UdpQuiet
      /\ tcpSockets = 0 /\ udpSockets = 0
  BY <1>1, <1>3 DEF TcpInit, UdpInit, U!TcpInit, TcpLive, TcpQuiet, UdpLive, UdpQuiet,
                    LiveOf, QuietOf, None
<1>5. \A T : None(wifiEvents, T)
  BY <1>1, <1>3 DEF None
<1>6. OthersTyped
  <2>1. <<>> \in Seq(WifiTypes) /\ Len(<<>>) = 0
    OBVIOUS
  <2>2. 0 \in 0..MaxFaults /\ 0 \in 0..ConnectingTimeout /\ 0 <= WifiQueueSize
    OBVIOUS
  <2> QED
    BY <1>1, <2>1, <2>2 DEF OthersTyped, WifiStates, WifiErrors, Calls
<1>7. CallsInv
  BY <1>1, <1>5, NoneAtMostOne DEF CallsInv, Rests, Exchanges
<1>8. TokensInv
  BY <1>1, <1>5 DEF TokensInv, Exchanges
<1>9. MachinesInv
  BY <1>1, <1>4, <1>5 DEF MachinesInv, Exchanges
<1>10. AliveInv
  BY <1>1 DEF AliveInv, Timed, Connecting, Exchanges
<1>11. LinkInv
  BY <1>1, <1>5, OrderedNone DEF LinkInv, Exchanges
<1>12. SocketsInv
  BY <1>1, <1>4 DEF SocketsInv
<1> QED
  BY <1>2, <1>6, <1>7, <1>8, <1>9, <1>10, <1>11, <1>12
  DEF RunInv, WifiTypeOK, OthersTyped, TcpInv, UdpInv

(* Every step keeps the invariant.                                         *)
LEMMA EveryStepKeeps ==
  ASSUME WifiQueueSize > MaxFaults + 4, RunInv, [WifiNext]_wifiVars
  PROVE  RunInv'
<1>1. CASE UNCHANGED wifiVars
  <2>1. UNCHANGED <<wifiEvents, wifiState, wifiTimer, wifiError, wifiHandle, link, faults,
                    wifiBusy, wifiCall, tcpVars, udpVars>>
    BY <1>1 DEF wifiVars, wifiOnly
  <2>2. Keep /\ tcpSockets' = tcpSockets /\ udpSockets' = udpSockets
    BY <2>1, Still DEF tcpVars, udpVars
  <2>3. OthersTyped'
    BY <2>1, Typed DEF OthersTyped
  <2>4. CallsInv'
    BY <2>1 DEF RunInv, CallsInv
  <2>5. TokensInv'
    BY <2>1, <2>2 DEF RunInv, TokensInv, Keep, TcpKeeps, UdpKeeps
  <2>6. MachinesInv'
    BY <2>1, <2>2 DEF RunInv, MachinesInv, Keep, TcpKeeps, UdpKeeps
  <2>7. AliveInv'
    <3>1. LinkSteps' = LinkSteps
      BY <2>1 DEF LinkSteps
    <3> QED
      BY <2>1, <3>1 DEF RunInv, AliveInv
  <2>8. LinkInv'
    BY <2>1 DEF RunInv, LinkInv
  <2>9. SocketsInv'
    BY <2>1, <2>2 DEF RunInv, SocketsInv
  <2> QED
    BY <2>2, <2>3, <2>4, <2>5, <2>6, <2>7, <2>8, <2>9, Together DEF Keep
<1>2. ASSUME NEW operation \in Operations, WifiCall(operation) PROVE RunInv'
  <2>1. operation \in Calls
    OBVIOUS
  <2> QED
    BY <1>2, <2>1, CallKeeps
<1>3. CASE WifiReturns
  BY <1>3, ReturnKeeps
<1>4. CASE WifiProcess
  BY <1>4, StartWifiKeeps, ChipStopKeeps, ConnectKeeps, ApConnectedKeeps, IpAcquiredKeeps,
     DoneKeeps, StartExchangeKeeps, LeaveConnectedKeeps, DisconnectedKeeps, RunExchangeKeeps,
     RunClosingKeeps, LinkLostKeeps, DroppedKeeps, PreserveStopKeeps
  DEF WifiProcess
<1>5. CASE WifiSecond
  BY <1>5, SecondKeeps
<1>6. CASE ErrorNotice
  BY <1>6, ErrorNoticeKeeps
<1>7. CASE SocketNotice
  BY <1>7, SocketNoticeKeeps
<1>8. ASSUME NEW event \in Notices, Notice(event) PROVE RunInv'
  BY <1>8, NoticeKeeps
<1> QED
  BY <1>1, <1>2, <1>3, <1>4, <1>5, <1>6, <1>7, <1>8 DEF WifiNext

(* So it holds always.                                                     *)
LEMMA AlwaysRunInv ==
  ASSUME WifiQueueSize > MaxFaults + 4
  PROVE  WifiSpec => []RunInv
<1>1. WifiInit => RunInv
  BY FirstInv
<1>2. RunInv /\ [WifiNext]_wifiVars => RunInv'
  BY EveryStepKeeps
<1> QED
  BY <1>1, <1>2, PTL DEF WifiSpec

(* An empty queue is that of a state without a timer, and of socket        *)
(* machines that do not receive.                                           *)
LEMMA RestIsTimeless == RunInv => TimersAtRest
<1> SUFFICES ASSUME RunInv, AtRest PROVE wifiTimer = 0 /\ tcpTimer = 0 /\ udpTimer = 0
  BY DEF TimersAtRest
<1>1. wifiState \in Rests
  BY EmptyRests DEF AtRest
<1>2. wifiTimer = 0
  BY <1>1, TimerOff DEF Rests, Timed, Connecting
<1>3. tcpState # "RECEIVE" /\ udpState # "RECEIVE"
  BY <1>1 DEF RunInv, MachinesInv, Rests, Exchanges, TcpQuiet, UdpQuiet, QuietOf
<1>4. tcpTimer \in Nat /\ (tcpTimer > 0 => tcpState = "RECEIVE")
  BY DEF RunInv, WifiTypeOK, TcpTypeOK, TcpConsistent
<1>5. udpTimer \in Nat /\ (udpTimer > 0 => udpState = "RECEIVE")
  BY DEF RunInv, WifiTypeOK, U!TcpTypeOK, U!TcpConsistent
<1> QED
  BY <1>2, <1>3, <1>4, <1>5

(* The reset is over when an operation that failed is.                     *)
LEMMA RestReclaimed == RunInv => SocketsReclaimed
<1> SUFFICES ASSUME RunInv, AtRest, wifiError = "FAILED" PROVE tcpSockets = 0 /\ udpSockets = 0
  BY DEF SocketsReclaimed
<1>1. wifiState \in Rests
  BY EmptyRests DEF AtRest
<1> QED
  BY <1>1 DEF RunInv, SocketsInv, Rests

(* Between two operations no timer runs, neither the machine's own nor     *)
(* TCP's nor UDP's: its own runs only in states that something still   *)
(* wakes, so that process_event goes on, and theirs while they receive.    *)
THEOREM TimersStop ==
  ASSUME WifiQueueSize > MaxFaults + 4
  PROVE  WifiSpec => []TimersAtRest
BY AlwaysRunInv, RestIsTimeless, PTL

(* After an operation that failed the chip holds no socket: the reset that *)
(* every failure goes through has closed them, and what is left of the     *)
(* operation in the queue opens none.                                      *)
THEOREM FailureReclaims ==
  ASSUME WifiQueueSize > MaxFaults + 4
  PROVE  WifiSpec => []SocketsReclaimed
BY AlwaysRunInv, RestReclaimed, PTL

-------------------------------------------------------------------------------
(***************************************************************************)
(* The types, whatever the size of the queue.                              *)
(***************************************************************************)
TypesInv == TcpInv /\ UdpInv /\ OthersTyped

(* To TCP and UDP every step is one of theirs, or none.                    *)
LEMMA SocketSteps ==
  ASSUME [WifiNext]_wifiVars
  PROVE  [TcpNext]_tcpVars /\ [U!TcpNext]_udpVars
<1>1. /\ "CLOSE_SOCKET" \in TcpCalls /\ \A event : TcpCallOf(event) \in TcpCalls
      /\ "CLOSE_SOCKET" \in U!TcpCalls /\ \A event : TcpCallOf(event) \in U!TcpCalls
  BY DEF TcpCalls, U!TcpCalls, TcpCallOf
<1>2. UdpProcess => U!TcpNext
  BY DEF UdpProcess, UdpClosed, UdpOpening, UdpOpened, UdpReceive, UdpClosing, UdpUnhandled,
         U!TcpProcess, U!TcpNext
<1>3. /\ TcpProcess \/ TcpSecond \/ SocketClosed \/ ChipStopped => TcpNext
      /\ \A call \in TcpCalls : CallTcp(call) => TcpNext
      /\ UdpSecond \/ UdpStopped => U!TcpNext
      /\ \A call \in U!TcpCalls : CallUdp(call) => U!TcpNext
  BY DEF TcpNext, U!TcpNext, UdpSecond, UdpStopped, CallUdp
<1>4. CASE UNCHANGED wifiVars
  BY <1>4 DEF wifiVars
<1>5. CASE WifiSecond \/ ErrorNotice \/ SocketNotice \/ WifiReturns
  BY <1>3, <1>5 DEF WifiSecond, ErrorNotice, SocketNotice, WifiReturns
<1>6. ASSUME NEW event \in Notices, Notice(event)
      PROVE  UNCHANGED <<tcpVars, udpVars>>
  BY <1>6 DEF Notice
<1>7. ASSUME NEW operation \in Operations, WifiCall(operation)
      PROVE  UNCHANGED <<tcpVars, udpVars>>
  BY <1>7 DEF WifiCall
<1>8. CASE WifiProcess
  <2>1. FailAndReset \/ FailAndRestart => TcpNext /\ U!TcpNext
    BY <1>1, <1>3 DEF FailAndReset, FailAndRestart, EnterReset, CloseSockets
  <2>2. CASE StartWifi \/ SsidMissing \/ RetainWifi \/ ApConnected \/ Disconnect
             \/ Disconnected \/ PreserveStop \/ WifiUnhandled
    BY <2>2 DEF StartWifi, SsidMissing, RetainWifi, ApConnected, Disconnect, Disconnected,
                PreserveStop, WifiUnhandled
  <2>3. CASE Connect \/ IpAcquired \/ LinkLost \/ LinkLostElsewhere \/ ExchangeDone
             \/ ClosingDone
    BY <2>1, <2>3 DEF Connect, IpAcquired, LinkLost, LinkLostElsewhere, ExchangeDone, ClosingDone
  <2>4. CASE StopWifi \/ ResetDone
    BY <1>3, <2>4 DEF StopWifi, ResetDone
  <2>5. CASE StartExchange
    BY <1>1, <1>3, <2>5 DEF StartExchange
  <2>6. CASE CloseSocketCalled \/ StopConnected
    BY <1>1, <1>3, <2>6 DEF CloseSocketCalled, StopConnected, EnterClosingSocket, CloseSockets
  <2>7. CASE RunExchange \/ RunClosing
    BY <1>2, <1>3, <2>7 DEF RunExchange, RunClosing
  <2> QED
    BY <1>8, <2>2, <2>3, <2>4, <2>5, <2>6, <2>7 DEF WifiProcess
<1> QED
  BY <1>4, <1>5, <1>6, <1>7, <1>8 DEF WifiNext

(* The queue never exceeds its size.                                       *)
LEMMA QueueTyped ==
  ASSUME OthersTyped, [WifiNext]_wifiVars
  PROVE  wifiEvents' \in Seq(WifiTypes) /\ Len(wifiEvents') <= WifiQueueSize
<1> DEFINE Fits(q) == q \in Seq(WifiTypes) /\ Len(q) <= WifiQueueSize
<1>1. ASSUME NEW q, Fits(q), NEW event \in WifiTypes PROVE Fits(WifiAdd(q, event))
  BY <1>1, Adding
<1>2. Fits(wifiEvents)
  BY DEF OthersTyped
<1>3. ASSUME wifiEvents # <<>> PROVE Fits(Popped) /\ Head(wifiEvents) \in WifiTypes
  <2>1. Len(Popped) = Len(wifiEvents) - 1 /\ Len(wifiEvents) \in Nat
    BY <1>2, <1>3, TailEvents DEF Popped
  <2>2. Len(Popped) <= WifiQueueSize
    BY <1>2, <2>1
  <2> QED
    BY <1>2, <1>3, <2>2, TailEvents DEF Popped
<1>4. \A queue \in ClearedWifiEvents : Fits(queue)
  <2>1. "TIMEOUT" \in WifiTypes /\ "DISCONNECT" \in WifiTypes
    BY DEF WifiTypes, Calls
  <2>2. /\ Fits(<<>>)
        /\ \A event \in WifiTypes : Fits(<<event>>)
    OBVIOUS
  <2> HIDE DEF Fits
  <2> QED
    BY <2>1, <2>2 DEF ClearedWifiEvents
<1>5. ASSUME wifiEvents # <<>> PROVE Fits(RemoveSendAndReceive(Popped))
  <2> DEFINE kept == RemoveSendAndReceive(Popped)
  <2>1. AtMostOne(Popped, {})
    BY DEF AtMostOne, PlacesOf
  <2>2. Fits(Popped)
    BY <1>3, <1>5
  <2>3. kept \in Seq(WifiTypes) /\ Len(kept) <= Len(Popped)
    BY <2>1, <2>2, KeptEvents
  <2> HIDE DEF kept
  <2>4. Len(kept) \in Nat /\ Len(Popped) \in Nat
    BY <2>2, <2>3
  <2>5. Len(kept) <= WifiQueueSize
    BY <2>2, <2>3, <2>4
  <2> QED
    BY <2>3, <2>5 DEF kept
<1>6. /\ {"PROCESS", "DONE", "CONNECTING", "ACQUIRING_IP", "DISCONNECTING", "TIMEOUT", "ERROR",
          "STOP", "STOP_SOCKET_CLOSED", "DISCONNECT_SOCKET_CLOSED"} \subseteq WifiTypes
      /\ Notices \subseteq WifiTypes /\ Operations \subseteq WifiTypes
  BY DEF WifiTypes, Calls
<1> HIDE DEF Fits
<1> SUFFICES Fits(wifiEvents')
  BY DEF Fits
<1>7. CASE UNCHANGED wifiVars \/ WifiReturns \/ WifiSecond \/ ErrorNotice \/ SocketNotice
  BY <1>1, <1>2, <1>6, <1>7
  DEF wifiVars, wifiOnly, WifiReturns, WifiSecond, ErrorNotice, SocketNotice
<1>8. ASSUME NEW event \in Notices, Notice(event) PROVE Fits(wifiEvents')
  BY <1>1, <1>2, <1>6, <1>8 DEF Notice
<1>9. ASSUME NEW operation \in Operations, WifiCall(operation) PROVE Fits(wifiEvents')
  BY <1>1, <1>2, <1>6, <1>9 DEF WifiCall
<1>10. CASE WifiProcess
  <2>1. wifiEvents # <<>>
    BY <1>10 DEF WifiProcess, WifiPop, StartWifi, StopWifi, SsidMissing, Connect, RetainWifi,
       ApConnected, IpAcquired, LinkLost, LinkLostElsewhere, StartExchange, ExchangeDone,
       CloseSocketCalled, StopConnected, Disconnect, Disconnected, RunExchange, RunClosing,
       ResetDone, PreserveStop, ClosingDone, WifiUnhandled
  <2>2. Fits(Popped) /\ Head(wifiEvents) \in WifiTypes
    BY <1>3, <2>1
  <2>3. FailAndReset \/ FailAndRestart => Fits(wifiEvents')
    BY <1>1, <1>4, <1>5, <1>6, <2>1 DEF FailAndReset, FailAndRestart, EnterReset
  <2>4. CASE wifiEvents' \in {Popped, WifiAdd(Popped, Head(wifiEvents))} \cup ClearedWifiEvents
    BY <1>1, <1>4, <2>2, <2>4
  <2>5. CASE StartWifi \/ StopWifi \/ SsidMissing \/ RetainWifi \/ Disconnected \/ ResetDone
             \/ WifiUnhandled
    BY <2>4, <2>5 DEF StartWifi, StopWifi, SsidMissing, RetainWifi, Disconnected, ResetDone,
                      WifiUnhandled
  <2>6. CASE IpAcquired \/ LinkLost \/ LinkLostElsewhere \/ ExchangeDone \/ ClosingDone
    BY <2>3, <2>4, <2>6 DEF IpAcquired, LinkLost, LinkLostElsewhere, ExchangeDone, ClosingDone
  <2>7. CASE Connect
    BY <1>1, <1>6, <2>2, <2>3, <2>7 DEF Connect
  <2>8. CASE ApConnected \/ StartExchange \/ CloseSocketCalled \/ StopConnected \/ Disconnect
             \/ PreserveStop
    BY <1>1, <1>6, <2>2, <2>8 DEF ApConnected, StartExchange, CloseSocketCalled, StopConnected,
       Disconnect, PreserveStop, EnterClosingSocket, EnterDisconnecting
  <2>9. CASE RunExchange \/ RunClosing
    BY <1>1, <1>6, <2>2, <2>9 DEF RunExchange, RunClosing
  <2> QED
    BY <1>10, <2>5, <2>6, <2>7, <2>8, <2>9 DEF WifiProcess
<1> QED
  BY <1>7, <1>8, <1>9, <1>10 DEF WifiNext

(* Nor do the other variables leave their types.                           *)
LEMMA RestTyped ==
  ASSUME OthersTyped, [WifiNext]_wifiVars
  PROVE  OthersTyped'
<1>1. wifiEvents' \in Seq(WifiTypes) /\ Len(wifiEvents') <= WifiQueueSize
  BY QueueTyped
<1>2. /\ wifiState \in WifiStates
      /\ wifiTimer \in 0..ConnectingTimeout \cup 0..DisconnectTimeout
      /\ wifiError \in WifiErrors /\ wifiHandle \in {"NONE", "TCP", "UDP"}
      /\ link \in {"DOWN", "JOINING", "JOINED", "UP"} /\ faults \in 0..MaxFaults
      /\ wifiBusy \in BOOLEAN /\ wifiCall \in Calls
  BY DEF OthersTyped
<1> DEFINE Times == 0..ConnectingTimeout \cup 0..DisconnectTimeout
           Rest  == /\ wifiState' \in WifiStates /\ wifiTimer' \in Times
                    /\ wifiError' \in WifiErrors /\ wifiHandle' \in {"NONE", "TCP", "UDP"}
                    /\ link' \in {"DOWN", "JOINING", "JOINED", "UP"}
                    /\ faults' \in 0..MaxFaults
                    /\ wifiBusy' \in BOOLEAN /\ wifiCall' \in Calls
<1> SUFFICES Rest
  BY <1>1 DEF OthersTyped
<1>3. /\ 0 \in Times /\ ConnectingTimeout \in Times /\ DisconnectTimeout \in Times
      /\ wifiTimer > 0 => wifiTimer - 1 \in Times
      /\ 0 \in 0..MaxFaults
      /\ faults < MaxFaults => faults + 1 \in 0..MaxFaults
  BY <1>2
<1>4. \A error \in WifiErrors : SetWifiError(error) => wifiError' \in WifiErrors
  BY ErrorTyped
<1>5. /\ {"STOPPED", "DISCONNECTED", "CONNECTED", "CLOSING", "DISCONNECTING", "RESET"}
           \cup Connecting \cup Exchanges \subseteq WifiStates
      /\ WifiErrors = {"NONE", "FAILED", "PARAMETERS_MISSING"}
      /\ Connecting = {"CONNECTING_TO_AP", "ACQUIRING_IP"}
  BY DEF WifiStates, WifiErrors, Connecting
<1>6. \A state \in WifiStates : WifiTransition(state) =>
        wifiState' \in WifiStates /\ wifiTimer' \in Times
  BY <1>2, <1>3 DEF WifiTransition
<1> HIDE DEF Times
<1>7. CASE UNCHANGED wifiVars \/ WifiReturns \/ WifiSecond \/ ErrorNotice \/ SocketNotice
  BY <1>2, <1>3, <1>7
  DEF wifiVars, wifiOnly, WifiReturns, WifiSecond, ErrorNotice, SocketNotice, Times
<1>8. ASSUME NEW event \in Notices, Notice(event) PROVE Rest
  BY <1>2, <1>8 DEF Notice, Times
<1>9. ASSUME NEW operation \in Operations, WifiCall(operation) PROVE Rest
  <2>1. faults' \in {0, faults} /\ wifiCall' \in Calls
    BY <1>9, WifiAssumption DEF WifiCall
  <2>2. /\ wifiState' = wifiState /\ wifiTimer' = wifiTimer /\ wifiError' = "NONE"
        /\ wifiHandle' = wifiHandle /\ link' = link /\ wifiBusy' = TRUE
    BY <1>9 DEF WifiCall
  <2>3. faults' \in 0..MaxFaults
    BY <1>2, <1>3, <2>1
  <2>4. wifiState' \in WifiStates /\ wifiTimer' \in Times /\ wifiError' \in WifiErrors
    BY <1>2, <1>5, <2>2 DEF Times
  <2> QED
    BY <1>2, <2>1, <2>2, <2>3, <2>4
<1>10. CASE WifiProcess
  <2>1. UNCHANGED <<faults, wifiBusy, wifiCall>>
    BY <1>10 DEF WifiProcess, WifiPop, StartWifi, StopWifi, SsidMissing, Connect, RetainWifi,
       ApConnected, IpAcquired, LinkLost, LinkLostElsewhere, StartExchange, ExchangeDone,
       CloseSocketCalled, StopConnected, Disconnect, Disconnected, RunExchange, RunClosing,
       ResetDone, PreserveStop, ClosingDone, WifiUnhandled
  <2>2. wifiTimer \in Times
    BY <1>2 DEF Times
  <2>3. wifiHandle' \in {"NONE", "TCP", "UDP"} /\ link' \in {"DOWN", "JOINING", "JOINED", "UP"}
    BY <1>2, <1>10 DEF WifiProcess, StartWifi, StopWifi, SsidMissing, Connect, RetainWifi,
       ApConnected, IpAcquired, LinkLost, LinkLostElsewhere, StartExchange, ExchangeDone,
       CloseSocketCalled, StopConnected, Disconnect, Disconnected, RunExchange, RunClosing,
       ResetDone, PreserveStop, ClosingDone, WifiUnhandled
  <2>4. ASSUME FailAndReset \/ FailAndRestart
        PROVE  wifiState' \in WifiStates /\ wifiTimer' \in Times /\ wifiError' \in WifiErrors
    BY <1>4, <1>5, <1>6, <2>4 DEF FailAndReset, FailAndRestart, EnterReset
  <2>5. CASE StartWifi \/ StopWifi \/ SsidMissing \/ RetainWifi \/ Disconnected \/ ResetDone
             \/ WifiUnhandled \/ PreserveStop
    BY <1>2, <1>4, <1>5, <1>6, <2>1, <2>2, <2>3, <2>5 DEF StartWifi, StopWifi, SsidMissing,
       RetainWifi, Disconnected, ResetDone, WifiUnhandled, PreserveStop
  <2>6. CASE IpAcquired \/ LinkLost \/ LinkLostElsewhere \/ ExchangeDone \/ ClosingDone
    BY <1>2, <1>5, <1>6, <2>1, <2>3, <2>4, <2>6 DEF IpAcquired, LinkLost, LinkLostElsewhere,
       ExchangeDone, ClosingDone
  <2>7. CASE Connect \/ ApConnected
    BY <1>2, <1>3, <1>5, <2>1, <2>2, <2>3, <2>4, <2>7 DEF Connect, ApConnected
  <2>8. CASE StartExchange
    <3>1. Head(wifiEvents) \in WifiStates
      BY <1>5, <2>8 DEF StartExchange, WifiPop
    <3> QED
      BY <1>2, <1>6, <2>1, <2>3, <2>8, <3>1 DEF StartExchange
  <2>9. CASE CloseSocketCalled \/ StopConnected \/ Disconnect
    BY <1>2, <1>3, <1>5, <1>6, <2>1, <2>3, <2>9 DEF CloseSocketCalled, StopConnected,
       Disconnect, EnterClosingSocket, EnterDisconnecting
  <2>10. CASE RunExchange \/ RunClosing
    BY <1>2, <2>1, <2>2, <2>3, <2>10 DEF RunExchange, RunClosing
  <2> QED
    BY <1>10, <2>5, <2>6, <2>7, <2>8, <2>9, <2>10 DEF WifiProcess
<1> QED
  BY <1>7, <1>8, <1>9, <1>10 DEF WifiNext

(* What every step keeps, whatever is in the queues.                       *)
LEMMA AlwaysTyped == WifiSpec => []TypesInv
<1>1. WifiInit => TypesInv
  BY FirstInv, Typed, SocketTypes DEF TypesInv
<1>2. TypesInv /\ [WifiNext]_wifiVars => TypesInv'
  BY SocketSteps, TcpStep, UdpStep, RestTyped DEF TypesInv
<1> QED
  BY <1>1, <1>2, PTL DEF WifiSpec

(* The WiFi machine's variables keep their types, and so do those of TCP   *)
(* and UDP, which it drives by their calls and process handles only; its   *)
(* queue never holds more than its size, however many faults are reported. *)
THEOREM WifiTypesKept == WifiSpec => []WifiTypeOK
<1>1. TypesInv => WifiTypeOK
  BY DEF TypesInv, TcpInv, UdpInv, OthersTyped, WifiTypeOK
<1> QED
  BY <1>1, AlwaysTyped, PTL

(* The receive timers run only while receiving and whoever sends or        *)
(* receives has opened a socket, also when the WiFi machine closes         *)
(* sockets, clears queues and calls TCP and UDP in any of its states.      *)
THEOREM SocketsStayConsistent == WifiSpec => [](TcpConsistent /\ U!TcpConsistent)
<1>1. TypesInv => TcpConsistent /\ U!TcpConsistent
  BY DEF TypesInv, TcpInv, UdpInv
<1> QED
  BY <1>1, AlwaysTyped, PTL

USE TcpAssumption

-------------------------------------------------------------------------------
(***************************************************************************)
(* The truth of the results.  A send is followed into the queue of TCP or  *)
(* UDP, where it must not be pushed out by the sockets that the peer       *)
(* closes; in the machine's own queue an operation may be pushed out, but  *)
(* only by an error that makes it fail.                                    *)
(***************************************************************************)

(* TCP opens one socket at a time.                                         *)
OpeningOf(state, queue) ==
  /\ AtMostOne(queue, {"OPEN_SOCKET"}) /\ Len(queue) <= TcpQueueSize
  /\ state # "OPENING" => None(queue, {"OPEN_SOCKET"})
SendNear(queue) == NearOf(queue, {"SEND"}, {"OPEN_SOCKET"}, faults)

(* What a step of a quiet machine does to its queue, unless it fails or    *)
(* the data are taken.                                                     *)
Moves(queue, next) ==
  \/ Head(queue) # "SEND" /\ next = Tail(queue)
  \/ Head(queue) = "SEND" /\ next = TcpAdd(TcpAdd(Tail(queue), "SEND"), "OPEN_SOCKET")
  \/ Head(queue) \in {"SEND", "OPEN_SOCKET"} /\ next = TcpAdd(Tail(queue), Head(queue))

(* UDP's queue is like TCP's.                                              *)
LEMMA SameQueues ==
  /\ U!TcpTypes = TcpTypes /\ U!Ghost = Ghost
  /\ \A queue, event : U!TcpAdd(queue, event) = TcpAdd(queue, event)
BY DEF U!TcpTypes, TcpTypes, U!TcpCalls, TcpCalls, U!Ghost, Ghost, U!TcpAdd, TcpAdd, U!Put, Put

(* An event is added: the opening of one socket stays one.                 *)
LEMMA OpeningAdd ==
  ASSUME TcpQueueSize > 1, NEW queue \in Seq(TcpTypes), NEW event \in TcpTypes,
         AtMostOne(queue, {"OPEN_SOCKET"}), Len(queue) <= TcpQueueSize,
         event = "OPEN_SOCKET" => None(queue, {"OPEN_SOCKET"})
  PROVE  LET next == TcpAdd(queue, event) IN
         /\ next \in Seq(TcpTypes)
         /\ AtMostOne(next, {"OPEN_SOCKET"}) /\ Len(next) <= TcpQueueSize
         /\ event # "OPEN_SOCKET" /\ None(queue, {"OPEN_SOCKET"}) => None(next, {"OPEN_SOCKET"})
<1> DEFINE next == TcpAdd(queue, event)
<1>1. next \in Seq(TcpTypes)
  BY TcpAddType
<1>2. CASE queue = Ghost
  <2>1. next = <<"SEND", event>>
    BY <1>2 DEF TcpAdd
  <2>2. /\ DOMAIN next = {1, 2} /\ next[1] = "SEND" /\ next[2] = event /\ Len(next) = 2
    BY <2>1
  <2> HIDE DEF next
  <2>3. PlacesOf(next, {"OPEN_SOCKET"}) \subseteq {2}
    BY <2>2 DEF PlacesOf
  <2>4. event # "OPEN_SOCKET" => PlacesOf(next, {"OPEN_SOCKET"}) = {}
    BY <2>2 DEF PlacesOf
  <2> QED
    BY <1>1, <2>2, <2>3, <2>4, NoPlaceIsNone DEF AtMostOne, next
<1>3. CASE queue # Ghost
  <2>1. next = Put(queue, event, TcpQueueSize)
    BY <1>3 DEF TcpAdd
  <2>2. Len(next) <= TcpQueueSize
    BY <2>1, PutEvents
  <2>3. AtMostOne(next, {"OPEN_SOCKET"})
    <3>1. CASE event = "OPEN_SOCKET"
      <4>1. PlacesOf(queue, {"OPEN_SOCKET"}) = {}
        BY <3>1, NoneIsNoPlace
      <4> QED
        BY <2>1, <4>1, PutFirst
    <3>2. CASE event # "OPEN_SOCKET"
      <4>1. event \notin {"OPEN_SOCKET"}
        BY <3>2
      <4> QED
        BY <2>1, <4>1, PutOther
    <3> QED
      BY <3>1, <3>2
  <2>4. ASSUME event # "OPEN_SOCKET", None(queue, {"OPEN_SOCKET"})
        PROVE  None(next, {"OPEN_SOCKET"})
    <3>1. Range(next) \subseteq Range(queue) \cup {event}
      BY <2>1, PutEvents
    <3> HIDE DEF next
    <3> QED
      BY <2>4, <3>1 DEF None
  <2> QED
    BY <1>1, <2>2, <2>3, <2>4
<1> QED
  BY <1>2, <1>3

(* What is popped leaves it at one, or at none.                            *)
LEMMA OpeningTail ==
  ASSUME NEW queue \in Seq(TcpTypes), queue # <<>>, AtMostOne(queue, {"OPEN_SOCKET"}),
         Len(queue) <= TcpQueueSize
  PROVE  /\ Tail(queue) \in Seq(TcpTypes) /\ Len(Tail(queue)) < TcpQueueSize
         /\ Len(Tail(queue)) <= TcpQueueSize
         /\ AtMostOne(Tail(queue), {"OPEN_SOCKET"})
         /\ Head(queue) = "OPEN_SOCKET" => None(Tail(queue), {"OPEN_SOCKET"})
         /\ None(queue, {"OPEN_SOCKET"}) => None(Tail(queue), {"OPEN_SOCKET"})
         /\ \A T : None(queue, T) => None(Tail(queue), T)
<1>1. /\ Tail(queue) \in Seq(TcpTypes) /\ Len(Tail(queue)) = Len(queue) - 1
      /\ Len(queue) \in Nat \ {0} /\ Range(Tail(queue)) \subseteq Range(queue)
  BY TailEvents
<1>2. Len(Tail(queue)) < TcpQueueSize /\ Len(Tail(queue)) <= TcpQueueSize
  BY <1>1
<1>3. /\ AtMostOne(Tail(queue), {"OPEN_SOCKET"})
      /\ Head(queue) \in {"OPEN_SOCKET"} => PlacesOf(Tail(queue), {"OPEN_SOCKET"}) = {}
  BY TailTokens
<1>4. Head(queue) = "OPEN_SOCKET" => None(Tail(queue), {"OPEN_SOCKET"})
  BY <1>3, NoPlaceIsNone
<1>5. \A T : None(queue, T) => None(Tail(queue), T)
  BY <1>1 DEF None
<1> QED
  BY <1>1, <1>2, <1>3, <1>4, <1>5

(* A short queue of one event, or of none, is such a queue.                *)
LEMMA OpeningShort ==
  ASSUME TcpQueueSize > 1, NEW state,
         NEW queue \in {<<>>, <<"TIMEOUT">>, <<"SEND">>, <<"GHOST">>}
  PROVE  OpeningOf(state, queue)
<1>1. ASSUME NEW event \in {"TIMEOUT", "SEND", "GHOST"}
      PROVE  Len(<<event>>) <= 1 /\ PlacesOf(<<event>>, {"OPEN_SOCKET"}) = {}
  BY <1>1 DEF PlacesOf
<1>2. Len(<<>>) <= 1 /\ PlacesOf(<<>>, {"OPEN_SOCKET"}) = {}
  BY DEF PlacesOf
<1>3. Len(queue) <= 1 /\ PlacesOf(queue, {"OPEN_SOCKET"}) = {}
  BY <1>1, <1>2
<1>4. None(queue, {"OPEN_SOCKET"})
  BY <1>3, NoPlaceIsNone
<1> QED
  BY <1>3, <1>4 DEF OpeningOf, AtMostOne

(* A send that is near the end of the queue stays so.                      *)
LEMMA MovesKeepNear ==
  ASSUME TcpQueueSize > 1, NEW queue \in Seq(TcpTypes), queue # <<>>,
         Len(queue) <= TcpQueueSize, AtMostOne(queue, {"OPEN_SOCKET"}),
         None(queue, {"GHOST"}), NEW d \in Nat,
         NearOf(queue, {"SEND"}, {"OPEN_SOCKET"}, d), NEW next, Moves(queue, next)
  PROVE  NearOf(next, {"SEND"}, {"OPEN_SOCKET"}, d)
<1>1. /\ Tail(queue) \in Seq(TcpTypes) /\ Len(Tail(queue)) < TcpQueueSize
      /\ Len(Tail(queue)) \in Nat /\ None(Tail(queue), {"GHOST"})
  BY OpeningTail
<1>2. "SEND" \in TcpTypes /\ "OPEN_SOCKET" \in TcpTypes
  BY DEF TcpTypes, TcpCalls
<1>3. \A event : TcpAdd(Tail(queue), event) = Append(Tail(queue), event)
  <2>1. Tail(queue) # Ghost
    <3>1. Range(Ghost) = {"GHOST"}
      BY Singles DEF Ghost
    <3> QED
      BY <1>1, <3>1 DEF None
  <2> QED
    BY <1>1, <2>1 DEF TcpAdd, Put
<1>4. CASE Head(queue) # "SEND" /\ next = Tail(queue)
  <2>1. Head(queue) \notin {"SEND"} /\ "OPEN_SOCKET" \in {"OPEN_SOCKET"}
    BY <1>4
  <2> QED
    BY <1>4, <2>1, NearOfTail
<1>5. CASE Head(queue) = "OPEN_SOCKET" /\ next = TcpAdd(Tail(queue), Head(queue))
  <2>1. /\ Head(queue) \notin {"SEND"} /\ Head(queue) \in {"OPEN_SOCKET"}
        /\ "OPEN_SOCKET" \in {"OPEN_SOCKET"}
    BY <1>5
  <2>2. NearOf(Append(Tail(queue), "OPEN_SOCKET"), {"SEND"}, {"OPEN_SOCKET"}, d)
    BY <2>1, NearOfTail
  <2> QED
    BY <1>3, <1>5, <2>2
<1> DEFINE once == Append(Tail(queue), "SEND")
<1>6. once \in Seq(TcpTypes) /\ Len(once) = Len(Tail(queue)) + 1 /\ once[Len(once)] = "SEND"
      /\ Len(once) \in Nat \ {0} /\ Len(once) <= TcpQueueSize
  BY <1>1, <1>2
<1>7. CASE Head(queue) = "SEND" /\ next = TcpAdd(Tail(queue), Head(queue))
  <2>1. next = once
    BY <1>3, <1>7
  <2>2. Len(next) \in PlacesOf(next, {"SEND"})
    BY <1>6, <2>1 DEF PlacesOf
  <2>3. BehindOf(next, {"OPEN_SOCKET"}, Len(next)) \in {0, 1} /\ Len(next) \in Nat
    BY <1>6, <2>1 DEF BehindOf
  <2>4. Len(next) - Len(next) <= d + BehindOf(next, {"OPEN_SOCKET"}, Len(next))
    BY <2>3
  <2> QED
    BY <2>2, <2>4 DEF NearOf
<1>8. CASE Head(queue) = "SEND" /\ next = TcpAdd(TcpAdd(Tail(queue), "SEND"), "OPEN_SOCKET")
  <2>1. TcpAdd(Tail(queue), "SEND") = once /\ once # Ghost
    <3>1. Ghost[Len(Ghost)] = "GHOST"
      BY DEF Ghost
    <3> HIDE DEF once
    <3>2. once # Ghost
      BY <1>6, <3>1
    <3> QED
      BY <1>3, <3>2 DEF once
  <2> HIDE DEF once
  <2>2. next = Put(once, "OPEN_SOCKET", TcpQueueSize)
    BY <1>8, <2>1 DEF TcpAdd
  <2>3. PICK c \in {0, 1} :
          /\ Len(next) \in Nat /\ Len(next) = Len(once) + 1 - c
          /\ next[Len(next)] = "OPEN_SOCKET"
          /\ \A i \in 1..(Len(next) - 1) : i + c \in 1..Len(once) /\ next[i] = once[i + c]
    BY <1>2, <1>6, <2>2, PutPlaces
  <2>4. next \in Seq(TcpTypes)
    BY <1>2, <1>6, <2>2, PutType
  <2>5. c = 1 => Len(once) = TcpQueueSize
    <3> SUFFICES ASSUME Len(once) # TcpQueueSize PROVE c = 0
      OBVIOUS
    <3>1. next = Append(once, "OPEN_SOCKET")
      BY <1>6, <2>2 DEF Put
    <3>2. Len(next) = Len(once) + 1
      BY <1>6, <3>1
    <3> QED
      BY <1>6, <2>3, <3>2
  <2> DEFINE k == Len(next) - 1
  <2>6. k \in 1..(Len(next) - 1) /\ k + c = Len(once) /\ k < Len(next)
    BY <1>6, <2>3, <2>5
  <2>7. next[k] = "SEND" /\ k \in DOMAIN next /\ Len(next) \in DOMAIN next
    BY <1>6, <2>3, <2>4, <2>6
  <2>8. k \in PlacesOf(next, {"SEND"})
    BY <2>7 DEF PlacesOf
  <2>9. BehindOf(next, {"OPEN_SOCKET"}, k) = 1
    BY <2>3, <2>6, <2>7 DEF BehindOf
  <2>10. Len(next) - k <= d + BehindOf(next, {"OPEN_SOCKET"}, k)
    BY <2>3, <2>9
  <2> QED
    BY <2>8, <2>10 DEF NearOf
<1> QED
  BY <1>4, <1>5, <1>7, <1>8 DEF Moves

(* What a step of TCP does to its queue: it clears it, or adds what is not *)
(* the opening of a socket, or pops the first event and may add that one   *)
(* again, or begins or ends an opening.                                    *)
QueueStep(state, queue, state2, queue2) ==
  \/ queue2 \in {<<>>, <<"TIMEOUT">>, <<"SEND">>, <<"GHOST">>}
  \/ /\ state2 = "OPENING" <=> state = "OPENING"
     /\ \/ queue2 = queue
        \/ \E event \in TcpTypes \ {"OPEN_SOCKET"} : queue2 = TcpAdd(queue, event)
        \/ queue # <<>> /\ queue2 \in {Tail(queue), TcpAdd(Tail(queue), Head(queue))}
  \/ queue # <<>> /\ Head(queue) = "OPEN_SOCKET" /\ queue2 = Tail(queue)
  \/ /\ queue # <<>> /\ Head(queue) # "OPEN_SOCKET" /\ state # "OPENING" /\ state2 = "OPENING"
     /\ queue2 = TcpAdd(TcpAdd(Tail(queue), Head(queue)), "OPEN_SOCKET")

(* So one socket at a time is opened.                                      *)
LEMMA OpeningKept ==
  ASSUME TcpQueueSize > 1, NEW state, NEW queue \in Seq(TcpTypes), OpeningOf(state, queue),
         NEW state2, NEW queue2, QueueStep(state, queue, state2, queue2)
  PROVE  OpeningOf(state2, queue2)
<1>1. /\ AtMostOne(queue, {"OPEN_SOCKET"}) /\ Len(queue) <= TcpQueueSize
      /\ state # "OPENING" => None(queue, {"OPEN_SOCKET"})
  BY DEF OpeningOf
<1>2. queue # <<>> =>
        /\ Tail(queue) \in Seq(TcpTypes) /\ Len(Tail(queue)) <= TcpQueueSize
        /\ AtMostOne(Tail(queue), {"OPEN_SOCKET"})
        /\ Head(queue) = "OPEN_SOCKET" => None(Tail(queue), {"OPEN_SOCKET"})
        /\ None(queue, {"OPEN_SOCKET"}) => None(Tail(queue), {"OPEN_SOCKET"})
  BY <1>1, OpeningTail
<1>3. queue # <<>> => Head(queue) \in TcpTypes /\ Head(queue) \in Range(queue)
  BY TailEvents
<1>4. CASE queue2 \in {<<>>, <<"TIMEOUT">>, <<"SEND">>, <<"GHOST">>}
  BY <1>4, OpeningShort
<1>5. ASSUME state2 = "OPENING" <=> state = "OPENING", queue2 = queue
      PROVE  OpeningOf(state2, queue2)
  BY <1>1, <1>5 DEF OpeningOf
<1>6. ASSUME state2 = "OPENING" <=> state = "OPENING",
             NEW event \in TcpTypes \ {"OPEN_SOCKET"}, queue2 = TcpAdd(queue, event)
      PROVE  OpeningOf(state2, queue2)
  <2>1. /\ AtMostOne(queue2, {"OPEN_SOCKET"}) /\ Len(queue2) <= TcpQueueSize
        /\ None(queue, {"OPEN_SOCKET"}) => None(queue2, {"OPEN_SOCKET"})
    BY <1>1, <1>6, OpeningAdd
  <2> QED
    BY <1>1, <1>6, <2>1 DEF OpeningOf
<1>7. ASSUME state2 = "OPENING" <=> state = "OPENING", queue # <<>>, queue2 = Tail(queue)
      PROVE  OpeningOf(state2, queue2)
  BY <1>1, <1>2, <1>7 DEF OpeningOf
<1>8. ASSUME state2 = "OPENING" <=> state = "OPENING", queue # <<>>,
             queue2 = TcpAdd(Tail(queue), Head(queue))
      PROVE  OpeningOf(state2, queue2)
  <2>1. /\ AtMostOne(queue2, {"OPEN_SOCKET"}) /\ Len(queue2) <= TcpQueueSize
        /\ Head(queue) # "OPEN_SOCKET" /\ None(Tail(queue), {"OPEN_SOCKET"}) =>
             None(queue2, {"OPEN_SOCKET"})
    BY <1>2, <1>3, <1>8, OpeningAdd
  <2>2. None(queue, {"OPEN_SOCKET"}) => Head(queue) # "OPEN_SOCKET"
    BY <1>3, <1>8 DEF None
  <2> QED
    BY <1>1, <1>2, <1>8, <2>1, <2>2 DEF OpeningOf
<1>9. ASSUME queue # <<>>, Head(queue) = "OPEN_SOCKET", queue2 = Tail(queue)
      PROVE  OpeningOf(state2, queue2)
  BY <1>2, <1>9 DEF OpeningOf
<1>10. ASSUME queue # <<>>, Head(queue) # "OPEN_SOCKET", state # "OPENING", state2 = "OPENING",
              queue2 = TcpAdd(TcpAdd(Tail(queue), Head(queue)), "OPEN_SOCKET")
       PROVE  OpeningOf(state2, queue2)
  <2> DEFINE once == TcpAdd(Tail(queue), Head(queue))
  <2>1. None(Tail(queue), {"OPEN_SOCKET"})
    BY <1>1, <1>2, <1>10
  <2>2. /\ once \in Seq(TcpTypes) /\ AtMostOne(once, {"OPEN_SOCKET"})
        /\ Len(once) <= TcpQueueSize /\ None(once, {"OPEN_SOCKET"})
    BY <1>2, <1>3, <1>10, <2>1, OpeningAdd
  <2>3. "OPEN_SOCKET" \in TcpTypes /\ queue2 = TcpAdd(once, "OPEN_SOCKET")
    BY <1>10 DEF TcpTypes
  <2> HIDE DEF once
  <2>4. AtMostOne(queue2, {"OPEN_SOCKET"}) /\ Len(queue2) <= TcpQueueSize
    BY <2>2, <2>3, OpeningAdd
  <2> QED
    BY <1>10, <2>4 DEF OpeningOf
<1> QED
  BY <1>4, <1>5, <1>6, <1>7, <1>8, <1>9, <1>10 DEF QueueStep

(* Every step of TCP is such a step of its queue.                          *)
LEMMA TcpQueueSteps ==
  ASSUME TcpTypeOK, [TcpNext]_tcpVars
  PROVE  QueueStep(tcpState, tcpEvents, tcpState', tcpEvents')
<1> USE DEF QueueStep
<1>1. CASE UNCHANGED tcpVars
  BY <1>1 DEF tcpVars
<1>2. ASSUME NEW operation \in TcpCalls, CallTcp(operation)
      PROVE  QueueStep(tcpState, tcpEvents, tcpState', tcpEvents')
  <2>1. operation \in TcpTypes \ {"OPEN_SOCKET"}
    BY DEF TcpCalls, TcpTypes
  <2> QED
    BY <1>2, <2>1 DEF CallTcp
<1>3. CASE TcpSecond \/ SocketClosed
  <2>1. {"TIMEOUT", "SOCKET_CLOSED"} \subseteq TcpTypes \ {"OPEN_SOCKET"}
    BY DEF TcpTypes, TcpCalls
  <2> QED
    BY <1>3, <2>1 DEF TcpSecond, SocketClosed
<1>4. CASE ChipStopped
  BY <1>4 DEF ChipStopped
<1>5. CASE ParametersMissing \/ Retain \/ TcpUnhandled
  BY <1>5 DEF ParametersMissing, Retain, TcpUnhandled, TcpPop
<1>6. CASE StartOpening
  BY <1>6 DEF StartOpening, TcpPop, TcpTransition
<1>7. CASE OpenSocket
  BY <1>7 DEF OpenSocket, TcpPop, TcpTransition
<1>8. CASE Send
  BY <1>8 DEF Send, TcpPop, TcpTransition, Connected
<1>9. CASE StartReceive
  BY <1>9 DEF StartReceive, TcpPop
<1>10. CASE Receive
  BY <1>10 DEF Receive, TcpPop, TcpTransition, ClearTcpEvents, Ghost
<1>11. CASE ReceiveTimedOut
  BY <1>11 DEF ReceiveTimedOut
<1>12. CASE ClosedByPeer
  BY <1>12 DEF ClosedByPeer, ClearTcpEvents, Ghost
<1>13. CASE CloseSocket
  BY <1>13 DEF CloseSocket, EnterClosing, TcpPop, TcpTransition, Connected
<1> QED
  BY <1>1, <1>2, <1>3, <1>4, <1>5, <1>6, <1>7, <1>8, <1>9, <1>10, <1>11, <1>12, <1>13
  DEF TcpNext, TcpProcess

(* And of UDP.                                                             *)
LEMMA UdpQueueSteps ==
  ASSUME U!TcpTypeOK, [U!TcpNext]_udpVars
  PROVE  QueueStep(udpState, udpEvents, udpState', udpEvents')
<1> USE SameQueues DEF QueueStep
<1>1. CASE UNCHANGED udpVars
  BY <1>1 DEF udpVars
<1>2. ASSUME NEW operation \in U!TcpCalls, U!CallTcp(operation)
      PROVE  QueueStep(udpState, udpEvents, udpState', udpEvents')
  <2>1. operation \in TcpTypes \ {"OPEN_SOCKET"}
    BY DEF U!TcpCalls, TcpCalls, TcpTypes
  <2> QED
    BY <1>2, <2>1 DEF U!CallTcp
<1>3. CASE U!TcpSecond \/ U!SocketClosed
  <2>1. {"TIMEOUT", "SOCKET_CLOSED"} \subseteq TcpTypes \ {"OPEN_SOCKET"}
    BY DEF TcpTypes, TcpCalls
  <2> QED
    BY <1>3, <2>1 DEF U!TcpSecond, U!SocketClosed
<1>4. CASE U!ChipStopped
  BY <1>4 DEF U!ChipStopped
<1>5. CASE U!ParametersMissing \/ U!Retain \/ U!TcpUnhandled
  BY <1>5 DEF U!ParametersMissing, U!Retain, U!TcpUnhandled, U!TcpPop
<1>6. CASE U!StartOpening
  BY <1>6 DEF U!StartOpening, U!TcpPop, U!TcpTransition
<1>7. CASE U!OpenSocket
  BY <1>7 DEF U!OpenSocket, U!TcpPop, U!TcpTransition
<1>8. CASE U!Send
  BY <1>8 DEF U!Send, U!TcpPop, U!TcpTransition, U!Connected
<1>9. CASE U!StartReceive
  BY <1>9 DEF U!StartReceive, U!TcpPop
<1>10. CASE U!Receive
  BY <1>10 DEF U!Receive, U!TcpPop, U!TcpTransition, U!ClearTcpEvents, U!Ghost
<1>11. CASE U!ReceiveTimedOut
  BY <1>11 DEF U!ReceiveTimedOut
<1>12. CASE U!ClosedByPeer
  BY <1>12 DEF U!ClosedByPeer, U!ClearTcpEvents, U!Ghost
<1>13. CASE U!CloseSocket
  BY <1>13 DEF U!CloseSocket, U!EnterClosing, U!TcpPop, U!TcpTransition, U!Connected
<1> QED
  BY <1>1, <1>2, <1>3, <1>4, <1>5, <1>6, <1>7, <1>8, <1>9, <1>10, <1>11, <1>12, <1>13
  DEF U!TcpNext, U!TcpProcess

(* A step of TCP that is quiet fails, or the chip takes the data, or a     *)
(* waiting send stays where it is.                                         *)
LEMMA TcpMoves ==
  ASSUME TcpTypeOK, TcpQuiet, TcpProcess
  PROVE  /\ tcpEvents # <<>> /\ Head(tcpEvents) # "GHOST"
         /\ tcpError # "NONE" => tcpError' # "NONE"
         /\ accepted => accepted'
         /\ tcpError' # "NONE" \/ accepted' \/ Moves(tcpEvents, tcpEvents')
<1> USE DEF Moves, TcpPop, SetTcpError
<1>1. tcpState # "RECEIVE" /\ tcpState \in TcpStates
  BY DEF TcpQuiet, QuietOf, TcpTypeOK
<1>2. tcpEvents # <<>> => Head(tcpEvents) # "RECEIVE"
  <2>1. tcpEvents # <<>> => Head(tcpEvents) \in Range(tcpEvents)
    BY TailEvents DEF TcpTypeOK
  <2> QED
    BY <2>1 DEF TcpQuiet, QuietOf, None
<1>3. CASE ParametersMissing
  BY <1>3 DEF ParametersMissing
<1>4. CASE StartOpening
  BY <1>2, <1>4 DEF StartOpening
<1>5. CASE OpenSocket
  BY <1>5 DEF OpenSocket
<1>6. CASE Retain
  BY <1>2, <1>6 DEF Retain
<1>7. CASE Send
  BY <1>7 DEF Send
<1>8. CASE StartReceive \/ Receive
  BY <1>2, <1>8 DEF StartReceive, Receive
<1>9. CASE ReceiveTimedOut
  BY <1>1, <1>9 DEF ReceiveTimedOut
<1>10. CASE ClosedByPeer
  BY <1>10 DEF ClosedByPeer
<1>11. CASE CloseSocket
  BY <1>11 DEF CloseSocket, EnterClosing
<1>12. CASE TcpUnhandled
  <2>1. TcpIgnores(tcpState) \subseteq {"CLOSE_SOCKET", "OPEN_SOCKET", "SOCKET_CLOSED", "TIMEOUT"}
    BY <1>1 DEF TcpIgnores, TcpStates
  <2> QED
    BY <1>12, <2>1 DEF TcpUnhandled
<1> QED
  BY <1>3, <1>4, <1>5, <1>6, <1>7, <1>8, <1>9, <1>10, <1>11, <1>12 DEF TcpProcess

(* A step of UDP that is quiet fails, or the chip takes the data, or a     *)
(* waiting send stays where it is.                                         *)
LEMMA UdpMoves ==
  ASSUME U!TcpTypeOK, UdpQuiet, U!TcpProcess
  PROVE  /\ udpEvents # <<>> /\ Head(udpEvents) # "GHOST"
         /\ udpError # "NONE" => udpError' # "NONE"
         /\ udpAccepted => udpAccepted'
         /\ udpError' # "NONE" \/ udpAccepted' \/ Moves(udpEvents, udpEvents')
<1> USE SameQueues DEF Moves, U!TcpPop, U!SetTcpError
<1>1. udpState # "RECEIVE" /\ udpState \in U!TcpStates
  BY DEF UdpQuiet, QuietOf, U!TcpTypeOK
<1>2. udpEvents # <<>> => Head(udpEvents) # "RECEIVE"
  <2>1. udpEvents # <<>> => Head(udpEvents) \in Range(udpEvents)
    BY TailEvents DEF U!TcpTypeOK
  <2> QED
    BY <2>1 DEF UdpQuiet, QuietOf, None
<1>3. CASE U!ParametersMissing
  BY <1>3 DEF U!ParametersMissing
<1>4. CASE U!StartOpening
  BY <1>2, <1>4 DEF U!StartOpening
<1>5. CASE U!OpenSocket
  BY <1>5 DEF U!OpenSocket
<1>6. CASE U!Retain
  BY <1>2, <1>6 DEF U!Retain
<1>7. CASE U!Send
  BY <1>7 DEF U!Send
<1>8. CASE U!StartReceive \/ U!Receive
  BY <1>2, <1>8 DEF U!StartReceive, U!Receive
<1>9. CASE U!ReceiveTimedOut
  BY <1>1, <1>9 DEF U!ReceiveTimedOut
<1>10. CASE U!ClosedByPeer
  BY <1>10 DEF U!ClosedByPeer
<1>11. CASE U!CloseSocket
  BY <1>11 DEF U!CloseSocket, U!EnterClosing
<1>12. CASE U!TcpUnhandled
  <2>1. U!TcpIgnores(udpState) \subseteq {"CLOSE_SOCKET", "OPEN_SOCKET", "SOCKET_CLOSED", "TIMEOUT"}
    BY <1>1 DEF U!TcpIgnores, U!TcpStates
  <2> QED
    BY <1>12, <2>1 DEF U!TcpUnhandled
<1> QED
  BY <1>3, <1>4, <1>5, <1>6, <1>7, <1>8, <1>9, <1>10, <1>11, <1>12 DEF U!TcpProcess

(* A send that was called is done, has failed, or is near the end of the   *)
(* queue of the socket machine.                                            *)
Delivering(queue, error, taken) == taken \/ error # "NONE" \/ SendNear(queue)

(* The steps of TCP, the clock and the peer that closes its socket leave a *)
(* send to be done.                                                        *)
LEMMA TcpDelivers ==
  ASSUME TcpQueueSize > MaxFaults + 1, TcpQueueSize > 1, TcpInv, TcpLive, TcpQuiet,
         faults \in 0..MaxFaults, faults' \in 0..MaxFaults,
         OpeningOf(tcpState, tcpEvents), Delivering(tcpEvents, tcpError, accepted),
         \/ faults' = faults /\ (TcpProcess \/ TcpSecond \/ UNCHANGED tcpVars)
         \/ faults' = faults + 1 /\ (SocketClosed \/ UNCHANGED tcpVars)
  PROVE  Delivering(tcpEvents, tcpError, accepted)'
<1>1. /\ TcpTypeOK /\ tcpEvents \in Seq(TcpTypes) /\ Len(tcpEvents) <= TcpQueueSize
      /\ AtMostOne(tcpEvents, {"OPEN_SOCKET"})
  BY DEF TcpInv, TcpTypeOK, OpeningOf
<1>2. CASE TcpProcess /\ faults' = faults
  <2>1. /\ tcpEvents # <<>> /\ Head(tcpEvents) # "GHOST"
        /\ tcpError # "NONE" => tcpError' # "NONE"
        /\ accepted => accepted'
        /\ tcpError' # "NONE" \/ accepted' \/ Moves(tcpEvents, tcpEvents')
    BY <1>1, <1>2, TcpMoves
  <2>2. ASSUME SendNear(tcpEvents), Moves(tcpEvents, tcpEvents')
        PROVE  SendNear(tcpEvents)'
    <3>1. None(tcpEvents, {"GHOST"})
      BY <2>1 DEF TcpLive, LiveOf
    <3> QED
      BY <1>1, <1>2, <2>1, <2>2, <3>1, MovesKeepNear DEF SendNear
  <2> QED
    BY <2>1, <2>2 DEF Delivering
<1>3. CASE (TcpSecond \/ UNCHANGED tcpVars) /\ faults' = faults
  <2>1. tcpTimer = 0
    BY DEF TcpInv, TcpConsistent, TcpTypeOK, TcpQuiet, QuietOf
  <2>2. tcpEvents' = tcpEvents /\ tcpError' = tcpError /\ accepted' = accepted
    BY <1>3, <2>1 DEF TcpSecond, tcpVars
  <2> QED
    BY <1>3, <2>2 DEF Delivering, SendNear
<1>4. CASE SocketClosed /\ faults' = faults + 1
  <2>1. /\ tcpEvents' = TcpAdd(tcpEvents, "SOCKET_CLOSED")
        /\ tcpError' = tcpError /\ accepted' = accepted
    BY <1>4 DEF SocketClosed
  <2>2. ASSUME SendNear(tcpEvents) PROVE SendNear(tcpEvents)'
    <3>1. tcpEvents # Ghost
      <4>1. PlacesOf(Ghost, {"SEND"}) = {}
        BY DEF Ghost, PlacesOf
      <4> QED
        BY <2>2, <4>1 DEF SendNear, NearOf
    <3>2. tcpEvents' = Put(tcpEvents, "SOCKET_CLOSED", TcpQueueSize)
      BY <2>1, <3>1 DEF TcpAdd
    <3>3. "SOCKET_CLOSED" \in TcpTypes
      BY DEF TcpTypes
    <3>4. faults \in Nat /\ TcpQueueSize > faults + 2
      BY <1>4
    <3> QED
      BY <1>1, <1>4, <2>2, <3>2, <3>3, <3>4, NearOfPut DEF SendNear
  <2> QED
    BY <2>1, <2>2 DEF Delivering
<1>5. CASE UNCHANGED tcpVars /\ faults' = faults + 1
  <2>1. tcpEvents' = tcpEvents /\ tcpError' = tcpError /\ accepted' = accepted
    BY <1>5 DEF tcpVars
  <2>2. faults \in Nat /\ faults' \in Nat /\ faults <= faults'
    BY <1>5
  <2>3. SendNear(tcpEvents) => SendNear(tcpEvents)'
    BY <1>1, <2>1, <2>2, NearOfMore DEF SendNear
  <2> QED
    BY <2>1, <2>3 DEF Delivering
<1> QED
  BY <1>2, <1>3, <1>4, <1>5

(* It is done when the machine has nothing left to do.                     *)
LEMMA TcpDelivered ==
  ASSUME TcpIdle, Delivering(tcpEvents, tcpError, accepted)
  PROVE  accepted \/ tcpError # "NONE"
<1>1. PlacesOf(<<>>, {"SEND"}) = {} /\ PlacesOf(Ghost, {"SEND"}) = {}
  BY DEF Ghost, PlacesOf
<1> QED
  BY <1>1 DEF TcpIdle, Delivering, SendNear, NearOf

(* A send that is called is at the end of the queue.                       *)
LEMMA TcpSendCalled ==
  ASSUME TcpInv, TcpLive, TcpQuiet, faults' \in Nat, CallTcp("SEND")
  PROVE  TcpQuiet' /\ Delivering(tcpEvents, tcpError, accepted)'
<1>1. "SEND" \in TcpTypes /\ "SEND" \in TcpTypes \cap {"SEND"}
  BY DEF TcpTypes, TcpCalls
<1>2. /\ tcpEvents \in Seq(TcpTypes) /\ tcpEvents' = TcpAdd(tcpEvents, "SEND")
      /\ tcpState' = tcpState
      /\ tcpEvents = Ghost \/ None(tcpEvents, {"GHOST"})
  BY DEF TcpInv, TcpTypeOK, CallTcp, TcpLive, LiveOf, Ghost
<1>3. TcpQuiet'
  <2>1. Range(tcpEvents') \subseteq Range(tcpEvents) \cup {"SEND"}
    BY <1>1, <1>2, TcpAddRange
  <2>2. tcpState # "RECEIVE" /\ "RECEIVE" \notin Range(tcpEvents)
    BY DEF TcpQuiet, QuietOf, None
  <2>3. "RECEIVE" \notin Range(tcpEvents')
    BY <2>1, <2>2
  <2>4. tcpState' = tcpState
    BY <1>2
  <2> QED
    BY <2>2, <2>3, <2>4 DEF TcpQuiet, QuietOf, None
<1>4. SendNear(tcpEvents)'
  <2>1. CASE tcpEvents = Ghost
    <3>1. tcpEvents' = <<"SEND", "SEND">>
      BY <1>2, <2>1 DEF TcpAdd
    <3>2. /\ 2 \in DOMAIN <<"SEND", "SEND">> /\ <<"SEND", "SEND">>[2] = "SEND"
          /\ Len(<<"SEND", "SEND">>) = 2
      OBVIOUS
    <3>3. 2 \in PlacesOf(tcpEvents', {"SEND"}) /\ Len(tcpEvents') = 2
      BY <3>1, <3>2 DEF PlacesOf
    <3>4. BehindOf(tcpEvents', {"OPEN_SOCKET"}, 2) \in {0, 1}
      BY DEF BehindOf
    <3>5. Len(tcpEvents') - 2 <= faults' + BehindOf(tcpEvents', {"OPEN_SOCKET"}, 2)
      BY <3>3, <3>4
    <3> QED
      BY <3>3, <3>5 DEF SendNear, NearOf
  <2>2. CASE tcpEvents # Ghost
    <3>1. tcpEvents' = Put(tcpEvents, "SEND", TcpQueueSize)
      BY <1>2, <2>2 DEF TcpAdd
    <3> QED
      BY <1>1, <1>2, <3>1, NearOfNew DEF SendNear
  <2> QED
    BY <2>1, <2>2
<1> QED
  BY <1>3, <1>4 DEF Delivering

(* The steps of UDP, the clock and the peer that closes its socket leave a *)
(* send to be done.                                                        *)
LEMMA UdpDelivers ==
  ASSUME TcpQueueSize > MaxFaults + 1, TcpQueueSize > 1, UdpInv, UdpLive, UdpQuiet,
         faults \in 0..MaxFaults, faults' \in 0..MaxFaults,
         OpeningOf(udpState, udpEvents), Delivering(udpEvents, udpError, udpAccepted),
         \/ faults' = faults /\ (U!TcpProcess \/ U!TcpSecond \/ UNCHANGED udpVars)
         \/ faults' = faults + 1 /\ (U!SocketClosed \/ UNCHANGED udpVars)
  PROVE  Delivering(udpEvents, udpError, udpAccepted)'
<1> USE SameQueues
<1>1. /\ U!TcpTypeOK /\ udpEvents \in Seq(TcpTypes) /\ Len(udpEvents) <= TcpQueueSize
      /\ AtMostOne(udpEvents, {"OPEN_SOCKET"})
  BY DEF UdpInv, U!TcpTypeOK, OpeningOf
<1>2. CASE U!TcpProcess /\ faults' = faults
  <2>1. /\ udpEvents # <<>> /\ Head(udpEvents) # "GHOST"
        /\ udpError # "NONE" => udpError' # "NONE"
        /\ udpAccepted => udpAccepted'
        /\ udpError' # "NONE" \/ udpAccepted' \/ Moves(udpEvents, udpEvents')
    BY <1>1, <1>2, UdpMoves
  <2>2. ASSUME SendNear(udpEvents), Moves(udpEvents, udpEvents')
        PROVE  SendNear(udpEvents)'
    <3>1. None(udpEvents, {"GHOST"})
      BY <2>1 DEF UdpLive, LiveOf
    <3> QED
      BY <1>1, <1>2, <2>1, <2>2, <3>1, MovesKeepNear DEF SendNear
  <2> QED
    BY <2>1, <2>2 DEF Delivering
<1>3. CASE (U!TcpSecond \/ UNCHANGED udpVars) /\ faults' = faults
  <2>1. udpTimer = 0
    BY DEF UdpInv, U!TcpConsistent, U!TcpTypeOK, UdpQuiet, QuietOf
  <2>2. udpEvents' = udpEvents /\ udpError' = udpError /\ udpAccepted' = udpAccepted
    BY <1>3, <2>1 DEF U!TcpSecond, udpVars
  <2> QED
    BY <1>3, <2>2 DEF Delivering, SendNear
<1>4. CASE U!SocketClosed /\ faults' = faults + 1
  <2>1. /\ udpEvents' = TcpAdd(udpEvents, "SOCKET_CLOSED")
        /\ udpError' = udpError /\ udpAccepted' = udpAccepted
    BY <1>4 DEF U!SocketClosed
  <2>2. ASSUME SendNear(udpEvents) PROVE SendNear(udpEvents)'
    <3>1. udpEvents # Ghost
      <4>1. PlacesOf(Ghost, {"SEND"}) = {}
        BY DEF Ghost, PlacesOf
      <4> QED
        BY <2>2, <4>1 DEF SendNear, NearOf
    <3>2. udpEvents' = Put(udpEvents, "SOCKET_CLOSED", TcpQueueSize)
      BY <2>1, <3>1 DEF TcpAdd
    <3>3. "SOCKET_CLOSED" \in TcpTypes
      BY DEF TcpTypes
    <3>4. faults \in Nat /\ TcpQueueSize > faults + 2
      BY <1>4
    <3> QED
      BY <1>1, <1>4, <2>2, <3>2, <3>3, <3>4, NearOfPut DEF SendNear
  <2> QED
    BY <2>1, <2>2 DEF Delivering
<1>5. CASE UNCHANGED udpVars /\ faults' = faults + 1
  <2>1. udpEvents' = udpEvents /\ udpError' = udpError /\ udpAccepted' = udpAccepted
    BY <1>5 DEF udpVars
  <2>2. faults \in Nat /\ faults' \in Nat /\ faults <= faults'
    BY <1>5
  <2>3. SendNear(udpEvents) => SendNear(udpEvents)'
    BY <1>1, <2>1, <2>2, NearOfMore DEF SendNear
  <2> QED
    BY <2>1, <2>3 DEF Delivering
<1> QED
  BY <1>2, <1>3, <1>4, <1>5

(* It is done when the machine has nothing left to do.                     *)
LEMMA UdpDelivered ==
  ASSUME U!TcpIdle, Delivering(udpEvents, udpError, udpAccepted)
  PROVE  udpAccepted \/ udpError # "NONE"
<1> USE SameQueues
<1>1. PlacesOf(<<>>, {"SEND"}) = {} /\ PlacesOf(Ghost, {"SEND"}) = {}
  BY DEF Ghost, PlacesOf
<1> QED
  BY <1>1 DEF U!TcpIdle, Delivering, SendNear, NearOf

(* A send that is called is at the end of the queue.                       *)
LEMMA UdpSendCalled ==
  ASSUME UdpInv, UdpLive, UdpQuiet, faults' \in Nat, U!CallTcp("SEND")
  PROVE  UdpQuiet' /\ Delivering(udpEvents, udpError, udpAccepted)'
<1> USE SameQueues
<1>1. "SEND" \in TcpTypes /\ "SEND" \in TcpTypes \cap {"SEND"}
  BY DEF TcpTypes, TcpCalls
<1>2. /\ udpEvents \in Seq(TcpTypes) /\ udpEvents' = TcpAdd(udpEvents, "SEND")
      /\ udpState' = udpState
      /\ udpEvents = Ghost \/ None(udpEvents, {"GHOST"})
  BY DEF UdpInv, U!TcpTypeOK, U!CallTcp, UdpLive, LiveOf, Ghost
<1>3. UdpQuiet'
  <2>1. Range(udpEvents') \subseteq Range(udpEvents) \cup {"SEND"}
    BY <1>1, <1>2, UdpAddRange
  <2>2. udpState # "RECEIVE" /\ "RECEIVE" \notin Range(udpEvents)
    BY DEF UdpQuiet, QuietOf, None
  <2>3. "RECEIVE" \notin Range(udpEvents')
    BY <2>1, <2>2
  <2>4. udpState' = udpState
    BY <1>2
  <2> QED
    BY <2>2, <2>3, <2>4 DEF UdpQuiet, QuietOf, None
<1>4. SendNear(udpEvents)'
  <2>1. CASE udpEvents = Ghost
    <3>1. udpEvents' = <<"SEND", "SEND">>
      BY <1>2, <2>1 DEF TcpAdd
    <3>2. /\ 2 \in DOMAIN <<"SEND", "SEND">> /\ <<"SEND", "SEND">>[2] = "SEND"
          /\ Len(<<"SEND", "SEND">>) = 2
      OBVIOUS
    <3>3. 2 \in PlacesOf(udpEvents', {"SEND"}) /\ Len(udpEvents') = 2
      BY <3>1, <3>2 DEF PlacesOf
    <3>4. BehindOf(udpEvents', {"OPEN_SOCKET"}, 2) \in {0, 1}
      BY DEF BehindOf
    <3>5. Len(udpEvents') - 2 <= faults' + BehindOf(udpEvents', {"OPEN_SOCKET"}, 2)
      BY <3>3, <3>4
    <3> QED
      BY <3>3, <3>5 DEF SendNear, NearOf
  <2>2. CASE udpEvents # Ghost
    <3>1. udpEvents' = Put(udpEvents, "SEND", TcpQueueSize)
      BY <1>2, <2>2 DEF TcpAdd
    <3> QED
      BY <1>1, <1>2, <3>1, NearOfNew DEF SendNear
  <2> QED
    BY <2>1, <2>2
<1> QED
  BY <1>3, <1>4 DEF Delivering

-------------------------------------------------------------------------------
(* The kinds of events of which one at most waits; only of errors there    *)
(* may be more.                                                            *)
Joined == {"CONNECTED", "ACQUIRING_IP"}
Turn   == {"CONNECTING", "DISCONNECTING"} \cup Tokens
Kinds  == {Ops, Joined, Turn, {"IP_ACQUIRED"}, {"DISCONNECTED"}, {"TIMEOUT"}}
Single(queue) == \A kind \in Kinds : AtMostOne(queue, kind)

(* A queue without what a machine adds for itself, on the way from a state *)
(* in which it rests to another.                                           *)
Own == Turn \cup {"ACQUIRING_IP", "TIMEOUT"}
Fresh(queue) == Single(queue) /\ None(queue, Own)

(* One of these events waits, or an error, which makes the operation fail. *)
Waits(queue, events) == ~None(queue, events \cup {"ERROR"})

(* Every event is of one kind, an error of none.                           *)
LEMMA KindsAre ==
  /\ \A kind \in Kinds : "ERROR" \notin kind
  /\ \A kind \in Kinds, e \in Ops : e \in kind => kind = Ops
  /\ \A kind \in Kinds, e \in Joined : e \in kind => kind = Joined
  /\ \A kind \in Kinds, e \in Turn : e \in kind => kind = Turn
  /\ \A kind \in Kinds, e \in {"IP_ACQUIRED", "DISCONNECTED", "TIMEOUT"} :
       e \in kind => kind = {e}
  /\ \A e \in WifiTypes : e # "ERROR" => \E kind \in Kinds : e \in kind
<1>1. Ops = {"SEND", "SEND_TO", "RECEIVE", "RECEIVE_FROM", "CONNECT", "DISCONNECT",
             "CLOSE_SOCKET", "STOP", "DISCONNECT_SOCKET_CLOSED", "STOP_SOCKET_CLOSED"}
  BY DEF Ops, Calls, Starts, Exchanges
<1>2. Turn = {"CONNECTING", "DISCONNECTING", "PROCESS", "DONE"}
  BY DEF Turn, Tokens
<1>3. \A kind \in Kinds : "ERROR" \notin kind
  BY <1>1, <1>2 DEF Kinds, Joined
<1>4. \A kind \in Kinds, e \in Ops : e \in kind => kind = Ops
  BY <1>1, <1>2 DEF Kinds, Joined
<1>5. \A kind \in Kinds, e \in Joined : e \in kind => kind = Joined
  BY <1>1, <1>2 DEF Kinds, Joined
<1>6. \A kind \in Kinds, e \in Turn : e \in kind => kind = Turn
  BY <1>1, <1>2 DEF Kinds, Joined
<1>7. \A kind \in Kinds, e \in {"IP_ACQUIRED", "DISCONNECTED", "TIMEOUT"} :
        e \in kind => kind = {e}
  BY <1>1, <1>2 DEF Kinds, Joined
<1>8. ASSUME NEW e \in WifiTypes, e # "ERROR"
      PROVE  \E kind \in Kinds : e \in kind
  <2>1. e \in Ops \cup Joined \cup Turn \cup {"IP_ACQUIRED"} \cup {"DISCONNECTED"} \cup {"TIMEOUT"}
    BY <1>1, <1>2, <1>8 DEF Joined, WifiTypes, Calls, Starts, Exchanges, Notices
  <2> QED
    BY <2>1 DEF Kinds
<1> QED
  BY <1>3, <1>4, <1>5, <1>6, <1>7, <1>8

(* An event may be added of which none of its kind waits.                  *)
Joins(queue, e) == \A kind \in Kinds : e \in kind => None(queue, kind)

(* When that is so.                                                        *)
LEMMA WhatJoins ==
  ASSUME NEW queue
  PROVE  /\ Joins(queue, "ERROR")
         /\ None(queue, Ops) => \A e \in Ops : Joins(queue, e)
         /\ None(queue, Joined) => \A e \in Joined : Joins(queue, e)
         /\ None(queue, Turn) => \A e \in Turn : Joins(queue, e)
         /\ \A e \in {"IP_ACQUIRED", "DISCONNECTED", "TIMEOUT"} :
              None(queue, {e}) => Joins(queue, e)
<1>1. Joins(queue, "ERROR")
  BY KindsAre DEF Joins
<1>2. ASSUME None(queue, Ops), NEW e \in Ops PROVE Joins(queue, e)
  BY <1>2, KindsAre DEF Joins
<1>3. ASSUME None(queue, Joined), NEW e \in Joined PROVE Joins(queue, e)
  BY <1>3, KindsAre DEF Joins
<1>4. ASSUME None(queue, Turn), NEW e \in Turn PROVE Joins(queue, e)
  BY <1>4, KindsAre DEF Joins
<1>5. ASSUME NEW e \in {"IP_ACQUIRED", "DISCONNECTED", "TIMEOUT"}, None(queue, {e})
      PROVE  Joins(queue, e)
  <2>1. \A kind \in Kinds : e \in kind => kind = {e}
    BY KindsAre
  <2> QED
    BY <1>5, <2>1 DEF Joins
<1> QED
  BY <1>1, <1>2, <1>3, <1>4, <1>5

(* An event of another kind keeps it so.                                   *)
LEMMA SingleAdd ==
  ASSUME NEW q \in Seq(WifiTypes), NEW e \in WifiTypes, Len(q) <= WifiQueueSize,
         Single(q), Joins(q, e)
  PROVE  Single(WifiAdd(q, e))
<1> SUFFICES ASSUME NEW kind \in Kinds PROVE AtMostOne(WifiAdd(q, e), kind)
  BY DEF Single
<1>1. AtMostOne(q, kind)
  BY DEF Single
<1>2. CASE e \notin kind
  BY <1>1, <1>2, PutOther DEF WifiAdd
<1>3. CASE e \in kind
  <2>1. PlacesOf(q, kind) = {}
    BY <1>3, NoneIsNoPlace DEF Joins
  <2> QED
    BY <2>1, PutFirst DEF WifiAdd
<1> QED
  BY <1>2, <1>3

(* So does popping; and of its kind no other is left.                      *)
LEMMA SingleTail ==
  ASSUME NEW q \in Seq(WifiTypes), q # <<>>, Single(q)
  PROVE  Single(Tail(q)) /\ Joins(Tail(q), Head(q))
<1>1. \A kind \in Kinds : /\ AtMostOne(Tail(q), kind)
                          /\ Head(q) \in kind => PlacesOf(Tail(q), kind) = {}
  BY TailTokens DEF Single
<1> QED
  BY <1>1, NoPlaceIsNone DEF Single, Joins

(* Of such events seven do not wait without an error among them.           *)
LEMMA SevenHaveError ==
  ASSUME NEW q \in Seq(WifiTypes), Single(q), Len(q) > 6
  PROVE  "ERROR" \in Range(q)
<1> SUFFICES ASSUME "ERROR" \notin Range(q) PROVE FALSE
  OBVIOUS
<1> DEFINE at == <<Ops, Joined, Turn, {"IP_ACQUIRED"}, {"DISCONNECTED"}, {"TIMEOUT"}>>
           of == [i \in DOMAIN q |-> CHOOSE k \in 1..6 : q[i] \in at[k]]
<1>1. /\ Len(q) \in Nat /\ DOMAIN q = 1..Len(q)
      /\ \A i \in DOMAIN q : q[i] \in WifiTypes /\ q[i] # "ERROR"
  BY DEF Range
<1>2. \A kind \in Kinds : \E k \in 1..6 : at[k] = kind
  <2>1. /\ at[1] = Ops /\ at[2] = Joined /\ at[3] = Turn /\ at[4] = {"IP_ACQUIRED"}
        /\ at[5] = {"DISCONNECTED"} /\ at[6] = {"TIMEOUT"}
    OBVIOUS
  <2> HIDE DEF at
  <2>2. {1, 2, 3, 4, 5, 6} \subseteq 1..6
    OBVIOUS
  <2> QED
    BY <2>1, <2>2 DEF Kinds
<1>3. \A k \in 1..6 : at[k] \in Kinds
  <2>1. /\ at[1] = Ops /\ at[2] = Joined /\ at[3] = Turn /\ at[4] = {"IP_ACQUIRED"}
        /\ at[5] = {"DISCONNECTED"} /\ at[6] = {"TIMEOUT"}
    OBVIOUS
  <2> HIDE DEF at
  <2>2. 1..6 = {1, 2, 3, 4, 5, 6}
    OBVIOUS
  <2> QED
    BY <2>1, <2>2 DEF Kinds
<1> HIDE DEF at
<1>4. \A i \in DOMAIN q : of[i] \in 1..6 /\ q[i] \in at[of[i]]
  <2> SUFFICES ASSUME NEW i \in DOMAIN q PROVE of[i] \in 1..6 /\ q[i] \in at[of[i]]
    OBVIOUS
  <2>1. \E k \in 1..6 : q[i] \in at[k]
    BY <1>1, <1>2, KindsAre
  <2> QED
    BY <2>1
<1>5. of \in [DOMAIN q -> 1..6]
  BY <1>4
<1>6. IsFiniteSet(1..6) /\ Cardinality(1..6) = 6
  <2>1. 1 \in Int /\ 6 \in Int /\ ~(1 > 6) /\ 6 - 1 + 1 = 6
    OBVIOUS
  <2> QED
    BY <2>1, FS_Interval
<1>7. IsFiniteSet(1..Len(q)) /\ Cardinality(1..Len(q)) = Len(q)
  BY <1>1, FS_Interval
<1> HIDE DEF of
<1>8. PICK i, j \in DOMAIN q : i # j /\ of[i] = of[j]
  <2>1. Cardinality(1..6) < Cardinality(1..Len(q))
    BY <1>6, <1>7
  <2>2. of \in [1..Len(q) -> 1..6]
    BY <1>1, <1>5
  <2>3. \E i, j \in 1..Len(q) : i # j /\ of[i] = of[j]
    BY SMTT(30), <1>6, <1>7, <2>1, <2>2, FS_PigeonHole
  <2> QED
    BY <1>1, <2>3
<1>9. AtMostOne(q, at[of[i]])
  BY <1>3, <1>4 DEF Single
<1>10. i \in PlacesOf(q, at[of[i]]) /\ j \in PlacesOf(q, at[of[i]])
  BY <1>4, <1>8 DEF PlacesOf
<1> QED
  BY <1>8, <1>9, <1>10 DEF AtMostOne

(* So what waits is not pushed out, but for an error.                      *)
LEMMA WaitsAdd ==
  ASSUME WifiQueueSize > 7, NEW q \in Seq(WifiTypes), NEW e \in WifiTypes, Single(q),
         NEW T, Waits(q, T)
  PROVE  Waits(WifiAdd(q, e), T)
<1>1. CASE Len(q) < WifiQueueSize
  <2>1. Range(q) \subseteq Range(WifiAdd(q, e))
    BY <1>1, Adding
  <2> QED
    BY <2>1 DEF Waits, None
<1>2. CASE ~(Len(q) < WifiQueueSize)
  <2>1. /\ q # <<>> /\ WifiAdd(q, e) = Append(Tail(q), e)
        /\ Tail(q) \in Seq(WifiTypes) /\ Len(Tail(q)) > 6
    BY <1>2 DEF WifiAdd, Put
  <2>2. Single(Tail(q))
    BY <2>1, SingleTail
  <2>3. "ERROR" \in Range(Tail(q))
    BY <2>1, <2>2, SevenHaveError
  <2>4. Range(Tail(q)) \subseteq Range(Append(Tail(q), e))
    <3> DEFINE t == Tail(q)
    <3>1. t \in Seq(WifiTypes)
      BY <2>1
    <3> HIDE DEF t
    <3>2. /\ DOMAIN t = 1..Len(t) /\ DOMAIN Append(t, e) = 1..(Len(t) + 1) /\ Len(t) \in Nat
          /\ \A i \in 1..Len(t) : Append(t, e)[i] = t[i]
      BY <3>1
    <3>3. \A i \in 1..Len(t) : i \in 1..(Len(t) + 1)
      BY <3>2
    <3>4. Range(t) \subseteq Range(Append(t, e))
      BY <3>2, <3>3 DEF Range
    <3> QED
      BY <3>4 DEF t
  <2> QED
    BY <2>1, <2>3, <2>4 DEF Waits, None
<1> QED
  BY <1>1, <1>2

-------------------------------------------------------------------------------
(***************************************************************************)
(* What becomes of a SEND, a SEND_TO, a DISCONNECT and a STOP.             *)
(***************************************************************************)

(* The events that an operation is, or leaves behind.                      *)
OpsOf(operation) ==
  {operation} \cup (IF operation = "STOP" THEN {"STOP_SOCKET_CLOSED"} ELSE {})
              \cup (IF operation = "DISCONNECT" THEN {"DISCONNECT_SOCKET_CLOSED"} ELSE {})

TimedOnce == wifiTimer > 0 => None(wifiEvents, {"TIMEOUT"})

Taken ==
  /\ wifiCall = "SEND" => accepted
  /\ wifiCall = "SEND_TO" => udpAccepted

(* The data are with the socket machine, and its result is not asked for   *)
(* before the data are taken or it has failed.                             *)
Sending ==
  /\ wifiCall = "SEND" =>
       /\ TcpQuiet /\ Delivering(tcpEvents, tcpError, accepted)
       /\ accepted \/ tcpError # "NONE" \/ None(wifiEvents, {"DONE"})
  /\ wifiCall = "SEND_TO" =>
       /\ UdpQuiet /\ Delivering(udpEvents, udpError, udpAccepted)
       /\ udpAccepted \/ udpError # "NONE" \/ None(wifiEvents, {"DONE"})

SendTruth ==
  \/ wifiState = "STOPPED" /\ Fresh(wifiEvents) /\ ~None(wifiEvents, {wifiCall})
  \/ wifiState = "DISCONNECTED" /\ Fresh(wifiEvents) /\ Waits(wifiEvents, {wifiCall})
  \/ /\ wifiState = "CONNECTING_TO_AP" /\ Single(wifiEvents) /\ Waits(wifiEvents, {wifiCall})
     /\ TimedOnce /\ None(wifiEvents, {"ACQUIRING_IP"})
  \/ /\ wifiState = "ACQUIRING_IP" /\ Single(wifiEvents) /\ Waits(wifiEvents, {wifiCall})
     /\ TimedOnce
  \/ wifiState = "CONNECTED" /\ Single(wifiEvents) /\ Waits(wifiEvents, {wifiCall})
  \/ wifiState = "CONNECTED" /\ Taken
  \/ wifiState = wifiCall /\ Sending

DisconnectTruth ==
  \/ wifiState \in {"STOPPED", "DISCONNECTED", "DISCONNECTING"}
  \/ wifiState = "CONNECTED" /\ Fresh(wifiEvents) /\ Waits(wifiEvents, {"DISCONNECT"})

StopTruth ==
  \/ wifiState = "STOPPED"
  \/ wifiState = "DISCONNECTED" /\ Single(wifiEvents) /\ Waits(wifiEvents, {"STOP"})
  \/ /\ wifiState = "DISCONNECTING" /\ Single(wifiEvents) /\ Waits(wifiEvents, {"STOP"})
     /\ TimedOnce
  \/ /\ wifiState = "CLOSING" /\ Single(wifiEvents) /\ Waits(wifiEvents, {"STOP_SOCKET_CLOSED"})
     /\ None(wifiEvents, Own \ Turn) /\ None(wifiEvents, Turn \ Tokens)
  \/ /\ wifiState = "CONNECTED" /\ Fresh(wifiEvents)
     /\ Waits(wifiEvents, {"STOP", "STOP_SOCKET_CLOSED"})

(* While nothing has failed, what was called waits in the queue, in a      *)
(* state on the way to where it is done, or is done.                       *)
Pending ==
  /\ None(wifiEvents, Ops \ OpsOf(wifiCall))
  /\ wifiCall \in {"SEND", "SEND_TO"} => SendTruth
  /\ wifiCall = "DISCONNECT" => DisconnectTruth
  /\ wifiCall = "STOP" => StopTruth

TruthInv ==
  /\ ~wifiBusy => Fresh(wifiEvents) /\ (wifiState = "STOPPED" => wifiEvents = <<>>)
  /\ wifiError = "NONE" => Pending

OpeningInv == OpeningOf(tcpState, tcpEvents) /\ OpeningOf(udpState, udpEvents)

(* Every step of the whole keeps it so.                                     *)
LEMMA OpeningStep ==
  ASSUME TcpQueueSize > 1, TypesInv, OpeningInv, [WifiNext]_wifiVars
  PROVE  OpeningInv'
<1>1. TcpTypeOK /\ U!TcpTypeOK
  BY DEF TypesInv, TcpInv, UdpInv
<1>2. tcpEvents \in Seq(TcpTypes) /\ udpEvents \in Seq(TcpTypes)
  BY <1>1, SameQueues DEF TcpTypeOK, U!TcpTypeOK
<1>3. /\ QueueStep(tcpState, tcpEvents, tcpState', tcpEvents')
      /\ QueueStep(udpState, udpEvents, udpState', udpEvents')
  BY <1>1, SocketSteps, TcpQueueSteps, UdpQueueSteps
<1> QED
  BY <1>2, <1>3, OpeningKept DEF OpeningInv

(* It holds at first.                                                      *)
LEMMA OpeningStart == ASSUME TcpQueueSize > 1 PROVE WifiInit => OpeningInv
<1> SUFFICES ASSUME WifiInit PROVE OpeningInv
  OBVIOUS
<1>1. tcpEvents = <<>> /\ udpEvents = <<>>
  BY DEF WifiInit, TcpInit, UdpInit, U!TcpInit
<1> QED
  BY <1>1, OpeningShort DEF OpeningInv

(* Popping and adding, for the invariant above.                            *)
LEMMA PopTruth ==
  ASSUME RunInv, wifiEvents # <<>>
  PROVE  /\ Popped \in Seq(WifiTypes) /\ Len(Popped) <= WifiQueueSize
         /\ Head(wifiEvents) \in WifiTypes
         /\ \A T : None(wifiEvents, T) => None(Popped, T) /\ Head(wifiEvents) \notin T
         /\ \A T : Waits(wifiEvents, T) => Waits(Popped, T) \/ Head(wifiEvents) \in T \cup {"ERROR"}
         /\ Single(wifiEvents) => Single(Popped) /\ Joins(Popped, Head(wifiEvents))
         /\ Fresh(wifiEvents) => Fresh(Popped)
         /\ Head(wifiEvents) \in Ops => None(Popped, Ops)
<1> DEFINE h == Head(wifiEvents)
<1>1. /\ Popped \in Seq(WifiTypes) /\ Len(Popped) <= WifiQueueSize /\ h \in WifiTypes
      /\ h \in Range(wifiEvents) /\ Range(Popped) \subseteq Range(wifiEvents)
      /\ Range(wifiEvents) \subseteq Range(Popped) \cup {h}
      /\ h \in Ops => None(Popped, Ops)
  BY Popping
<1>2. ASSUME NEW T, None(wifiEvents, T) PROVE None(Popped, T) /\ h \notin T
  BY <1>1, <1>2 DEF None
<1>3. ASSUME NEW T, Waits(wifiEvents, T) PROVE Waits(Popped, T) \/ h \in T \cup {"ERROR"}
  BY <1>1, <1>3 DEF None, Waits
<1>4. Single(wifiEvents) => Single(Popped) /\ Joins(Popped, h)
  BY SingleTail DEF RunInv, WifiTypeOK, Popped
<1>5. Fresh(wifiEvents) => Fresh(Popped)
  BY <1>2, <1>4 DEF Fresh
<1> QED
  BY <1>1, <1>2, <1>3, <1>4, <1>5

(* add_wifi_communication_module_event_type.                               *)
LEMMA AddTruth ==
  ASSUME WifiQueueSize > 7, NEW q \in Seq(WifiTypes), Len(q) <= WifiQueueSize,
         NEW e \in WifiTypes, NEW p, p = WifiAdd(q, e)
  PROVE  /\ p \in Seq(WifiTypes) /\ Len(p) <= WifiQueueSize
         /\ \A T : None(q, T) /\ e \notin T => None(p, T)
         /\ \A T : e \in T => ~None(p, T) /\ Waits(p, T)
         /\ \A T : Single(q) /\ Waits(q, T) => Waits(p, T)
         /\ Single(q) /\ Joins(q, e) => Single(p)
         /\ Fresh(q) /\ Joins(q, e) /\ e \notin Own => Fresh(p)
<1>1. /\ p \in Seq(WifiTypes) /\ Len(p) <= WifiQueueSize
      /\ e \in Range(p) /\ Range(p) \subseteq Range(q) \cup {e}
  BY Adding
<1>2. ASSUME NEW T, None(q, T), e \notin T PROVE None(p, T)
  BY <1>1, <1>2 DEF None
<1>3. ASSUME NEW T, e \in T PROVE ~None(p, T) /\ Waits(p, T)
  BY <1>1, <1>3 DEF None, Waits
<1>4. ASSUME NEW T, Single(q), Waits(q, T) PROVE Waits(p, T)
  BY <1>4, WaitsAdd
<1>5. Single(q) /\ Joins(q, e) => Single(p)
  BY SingleAdd
<1>6. Fresh(q) /\ Joins(q, e) /\ e \notin Own => Fresh(p)
  BY <1>2, <1>5 DEF Fresh
<1> QED
  BY <1>1, <1>2, <1>3, <1>4, <1>5, <1>6

(* None of more events is none of fewer, and so on.                        *)
LEMMA Fewer ==
  /\ \A queue, S, T : None(queue, S) /\ T \subseteq S => None(queue, T)
  /\ \A queue, S, T : Waits(queue, T) /\ T \subseteq S => Waits(queue, S)
  /\ \A queue, T, e : None(queue, T) /\ None(queue, {e}) => None(queue, T \cup {e})
BY DEF None, Waits

(* What an operation is, and leaves behind.                                *)
LEMMA OpsAre ==
  /\ Ops \subseteq WifiTypes
  /\ \A call \in Calls : call \in OpsOf(call) /\ OpsOf(call) \subseteq Ops
  /\ \A call \in Calls, e \in Ops : e \in OpsOf(call) =>
       \/ e = call
       \/ e = "STOP_SOCKET_CLOSED" /\ call = "STOP"
       \/ e = "DISCONNECT_SOCKET_CLOSED" /\ call = "DISCONNECT"
  /\ "STOP_SOCKET_CLOSED" \in OpsOf("STOP")
  /\ "DISCONNECT_SOCKET_CLOSED" \in OpsOf("DISCONNECT")
BY DEF OpsOf, Ops, Calls, Starts, Exchanges, WifiTypes

(* When a step fails there is nothing to show; otherwise what was pending  *)
(* must still be.                                                          *)
LEMMA Fails ==
  ASSUME RunInv, wifiBusy', \/ SetWifiError("FAILED") \/ SetWifiError("PARAMETERS_MISSING")
  PROVE  TruthInv'
BY DEF SetWifiError, TruthInv

(* The step does not fail.                                                 *)
LEMMA GoesOn ==
  ASSUME TruthInv, wifiBusy', UNCHANGED wifiError, wifiError = "NONE" /\ Pending => Pending'
  PROVE  TruthInv'
BY DEF TruthInv
(* An operation is popped that was called, or what it has left behind.     *)
LEMMA CalledAtHead ==
  ASSUME RunInv, Pending, wifiEvents # <<>>, Head(wifiEvents) \in Ops
  PROVE  /\ wifiCall \in Calls /\ None(Popped, Ops)
         /\ \/ Head(wifiEvents) = wifiCall
            \/ Head(wifiEvents) = "STOP_SOCKET_CLOSED" /\ wifiCall = "STOP"
            \/ Head(wifiEvents) = "DISCONNECT_SOCKET_CLOSED" /\ wifiCall = "DISCONNECT"
<1>1. wifiCall \in Calls
  BY DEF RunInv, WifiTypeOK
<1>2. None(wifiEvents, Ops \ OpsOf(wifiCall))
  BY DEF Pending
<1>3. Head(wifiEvents) \notin Ops \ OpsOf(wifiCall) /\ None(Popped, Ops)
  BY <1>2, PopTruth
<1> QED
  BY <1>1, <1>3, OpsAre

(* In the states without a part of SendTruth and the others the operation  *)
(* is another.                                                             *)
LEMMA PendingWhere ==
  ASSUME RunInv, Pending
  PROVE  /\ wifiCall \in {"SEND", "SEND_TO"} =>
              wifiState \in {"STOPPED", "DISCONNECTED", "CONNECTED", wifiCall} \cup Connecting
         /\ wifiCall = "DISCONNECT" =>
              wifiState \in {"STOPPED", "DISCONNECTED", "CONNECTED", "DISCONNECTING"}
         /\ wifiCall = "STOP" =>
              wifiState \in {"STOPPED", "DISCONNECTED", "CONNECTED", "DISCONNECTING", "CLOSING"}
         /\ wifiCall \in Calls /\ None(wifiEvents, Ops \ OpsOf(wifiCall))
BY DEF RunInv, WifiTypeOK, Pending, SendTruth, DisconnectTruth, StopTruth, Connecting

(* state_stopped: the operation is added again.                            *)
LEMMA StartWifiTruth == ASSUME WifiQueueSize > 7, RunInv, TruthInv, StartWifi PROVE TruthInv'
<1>1. /\ wifiBusy /\ wifiBusy' = wifiBusy /\ wifiCall' = wifiCall /\ wifiEvents # <<>>
      /\ wifiState = "STOPPED" /\ Head(wifiEvents) \in Starts
  BY DEF StartWifi, WifiPop
<1>2. CASE SetWifiError("FAILED")
  BY <1>1, <1>2, Fails
<1>3. CASE /\ WifiTransition("DISCONNECTED") /\ wifiEvents' = WifiAdd(Popped, Head(wifiEvents))
           /\ UNCHANGED wifiError
  <2> SUFFICES ASSUME Pending PROVE Pending'
    BY <1>1, <1>3, GoesOn
  <2>1. Head(wifiEvents) \in Ops /\ Head(wifiEvents) \notin Own
    BY <1>1 DEF Ops, Calls, Starts, Exchanges, Own, Turn, Tokens
  <2>2. wifiCall = Head(wifiEvents) /\ wifiCall \in Starts /\ wifiCall \in Calls
    BY <1>1, <2>1, CalledAtHead DEF Starts, Exchanges
  <2>3. wifiCall \notin {"STOP", "DISCONNECT"} /\ wifiState' = "DISCONNECTED"
    BY <1>3, <2>2 DEF Starts, Exchanges, WifiTransition
  <2>4. None(wifiEvents', Ops \ OpsOf(wifiCall))
    BY <1>1, <1>3, <2>2, PopTruth, AddTruth, PendingWhere
  <2>5. CASE wifiCall \in {"SEND", "SEND_TO"}
    <3>1. Fresh(wifiEvents) /\ Single(wifiEvents)
      BY <1>1, <2>5 DEF Pending, SendTruth, Connecting, Fresh
    <3>2. Fresh(Popped) /\ Joins(Popped, Head(wifiEvents))
      BY <1>1, <3>1, PopTruth
    <3>3. Fresh(wifiEvents') /\ Waits(wifiEvents', {wifiCall})
      BY <1>1, <1>3, <2>1, <2>2, <3>2, PopTruth, AddTruth
    <3> QED
      BY <1>1, <2>3, <2>4, <3>3 DEF Pending, SendTruth
  <2> QED
    BY <1>1, <2>3, <2>4, <2>5 DEF Pending
<1> QED
  BY <1>2, <1>3 DEF StartWifi

(* state_disconnected and STOP: it is done.                                *)
LEMMA StopWifiTruth == ASSUME RunInv, TruthInv, StopWifi PROVE TruthInv'
<1>1. /\ wifiBusy /\ wifiBusy' = wifiBusy /\ wifiCall' = wifiCall /\ wifiEvents # <<>>
      /\ wifiState = "DISCONNECTED" /\ Head(wifiEvents) = "STOP"
      /\ wifiState' = "STOPPED" /\ wifiEvents' = Popped
  BY DEF StopWifi, WifiPop, WifiTransition
<1>2. CASE SetWifiError("FAILED")
  BY <1>1, <1>2, Fails
<1>3. CASE UNCHANGED wifiError
  <2> SUFFICES ASSUME Pending PROVE Pending'
    BY <1>1, <1>3, GoesOn
  <2>1. wifiCall = "STOP"
    BY <1>1, CalledAtHead DEF Ops, Calls
  <2>2. None(wifiEvents', Ops \ OpsOf(wifiCall))
    BY <1>1, PopTruth, PendingWhere
  <2> QED
    BY <1>1, <2>1, <2>2 DEF Pending, StopTruth
<1> QED
  BY <1>2, <1>3 DEF StopWifi

(* state_disconnected and an exchange: it is added again, or fails.        *)
LEMMA ConnectTruth == ASSUME WifiQueueSize > 7, RunInv, TruthInv, Connect PROVE TruthInv'
<1> DEFINE retained == IF Head(wifiEvents) = "CONNECT" THEN Popped
                       ELSE WifiAdd(Popped, Head(wifiEvents))
<1>1. /\ wifiBusy /\ wifiBusy' = wifiBusy /\ wifiCall' = wifiCall /\ wifiEvents # <<>>
      /\ wifiState = "DISCONNECTED" /\ Head(wifiEvents) \in Starts
  BY DEF Connect, WifiPop
<1>2. CASE FailAndReset
  BY <1>1, <1>2, Fails DEF FailAndReset
<1>3. CASE /\ wifiState' = "CONNECTING_TO_AP" /\ wifiTimer' = ConnectingTimeout
           /\ wifiEvents' = WifiAdd(retained, "CONNECTING")
           /\ UNCHANGED wifiError
  <2> SUFFICES ASSUME Pending PROVE Pending'
    BY <1>1, <1>3, GoesOn
  <2>1. /\ Head(wifiEvents) \in Ops /\ Head(wifiEvents) \notin Own
        /\ "CONNECTING" \in WifiTypes /\ "CONNECTING" \notin Ops /\ "CONNECTING" \in Turn
        /\ "CONNECTING" \notin {"TIMEOUT", "ACQUIRING_IP"}
    BY <1>1 DEF Ops, Calls, Starts, Exchanges, Own, Turn, Tokens, WifiTypes
  <2>2. wifiCall = Head(wifiEvents) /\ wifiCall \in Starts /\ wifiCall \in Calls
    BY <1>1, <2>1, CalledAtHead DEF Starts, Exchanges
  <2>3. wifiCall \notin {"STOP", "DISCONNECT"}
    BY <2>2 DEF Starts, Exchanges
  <2>4. /\ retained \in Seq(WifiTypes) /\ Len(retained) <= WifiQueueSize
        /\ None(retained, Ops \ OpsOf(wifiCall))
    BY <1>1, <2>2, PopTruth, AddTruth, PendingWhere, OpsAre
  <2>5. None(wifiEvents', Ops \ OpsOf(wifiCall))
    BY <1>3, <2>1, <2>4, AddTruth
  <2>6. CASE wifiCall \in {"SEND", "SEND_TO"}
    <3>1. Fresh(wifiEvents)
      BY <1>1, <2>6 DEF Pending, SendTruth, Connecting
    <3>2. Fresh(Popped) /\ Joins(Popped, Head(wifiEvents))
      BY <1>1, <3>1, PopTruth DEF Fresh
    <3>3. retained = WifiAdd(Popped, Head(wifiEvents))
      BY <2>2, <2>6
    <3>4. Fresh(retained) /\ Waits(retained, {wifiCall})
      <4>1. PICK next : next = WifiAdd(Popped, Head(wifiEvents))
        OBVIOUS
      <4>2. Fresh(next) /\ Waits(next, {wifiCall})
        BY <1>1, <2>1, <2>2, <3>2, <4>1, PopTruth, AddTruth
      <4> QED
        BY <3>3, <4>1, <4>2
    <3>5. /\ None(retained, Turn) /\ None(retained, {"TIMEOUT"}) /\ None(retained, {"ACQUIRING_IP"})
          /\ Single(retained)
      BY <3>4, Fewer DEF Fresh, Own
    <3>6. Joins(retained, "CONNECTING")
      BY <2>1, <3>5, WhatJoins
    <3>7. /\ Single(wifiEvents') /\ Waits(wifiEvents', {wifiCall})
          /\ None(wifiEvents', {"TIMEOUT"}) /\ None(wifiEvents', {"ACQUIRING_IP"})
      BY <1>3, <2>1, <2>4, <3>4, <3>5, <3>6, AddTruth
    <3> QED
      BY <1>1, <1>3, <2>3, <2>5, <3>7 DEF Pending, SendTruth, TimedOnce
  <2> QED
    BY <1>1, <2>3, <2>5, <2>6 DEF Pending
<1> QED
  BY <1>2, <1>3 DEF Connect

(* An event that is kept for later.                                        *)
LEMMA Cycled ==
  ASSUME WifiQueueSize > 7, RunInv, wifiEvents # <<>>,
         wifiEvents' = WifiAdd(Popped, Head(wifiEvents))
  PROVE  /\ \A T : None(wifiEvents, T) => None(wifiEvents', T)
         /\ Single(wifiEvents) => /\ Single(wifiEvents')
                                  /\ \A T : Waits(wifiEvents, T) => Waits(wifiEvents', T)
<1>1. ASSUME NEW T, None(wifiEvents, T) PROVE None(wifiEvents', T)
  BY <1>1, PopTruth, AddTruth
<1>2. Single(wifiEvents) => Single(wifiEvents')
  BY PopTruth, AddTruth
<1>3. ASSUME Single(wifiEvents), NEW T, Waits(wifiEvents, T) PROVE Waits(wifiEvents', T)
  <2>1. /\ Head(wifiEvents) \in T \cup {"ERROR"} => ~None(wifiEvents', T \cup {"ERROR"})
        /\ Waits(Popped, T) => Waits(wifiEvents', T)
    BY <1>3, PopTruth, AddTruth
  <2> QED
    BY <1>3, <2>1, PopTruth DEF Waits
<1> QED
  BY <1>1, <1>2, <1>3

(* The states that add an event again.                                     *)
LEMMA RetainWifiTruth == ASSUME WifiQueueSize > 7, RunInv, TruthInv, RetainWifi PROVE TruthInv'
<1>1. /\ wifiBusy /\ wifiBusy' = wifiBusy /\ wifiCall' = wifiCall /\ wifiEvents # <<>>
      /\ Head(wifiEvents) \in Retained(wifiState)
      /\ wifiEvents' = WifiAdd(Popped, Head(wifiEvents))
      /\ UNCHANGED <<wifiState, wifiTimer, wifiError>>
  BY DEF RetainWifi, WifiPop
<1>2. wifiState \in {"CONNECTING_TO_AP", "ACQUIRING_IP", "CLOSING", "DISCONNECTING"}
  BY <1>1 DEF Retained
<1> SUFFICES ASSUME Pending PROVE Pending'
  BY <1>1, GoesOn
<1>3. None(wifiEvents', Ops \ OpsOf(wifiCall))
  BY <1>1, Cycled, PendingWhere
<1>4. wifiCall \in {"SEND", "SEND_TO"} => SendTruth'
  BY <1>1, <1>2, Cycled DEF Pending, SendTruth, TimedOnce
<1>5. wifiCall = "DISCONNECT" => DisconnectTruth'
  BY <1>1, <1>2 DEF Pending, DisconnectTruth
<1>6. wifiCall = "STOP" => StopTruth'
  BY <1>1, <1>2, Cycled DEF Pending, StopTruth, TimedOnce
<1> QED
  BY <1>1, <1>3, <1>4, <1>5, <1>6 DEF Pending

(* state_connecting_to_ap and CONNECTED.                                   *)
LEMMA ApConnectedTruth == ASSUME WifiQueueSize > 7, RunInv, TruthInv, ApConnected PROVE TruthInv'
<1>1. /\ wifiBusy /\ wifiBusy' = wifiBusy /\ wifiCall' = wifiCall /\ wifiEvents # <<>>
      /\ wifiState = "CONNECTING_TO_AP" /\ Head(wifiEvents) = "CONNECTED"
      /\ wifiState' = "ACQUIRING_IP" /\ wifiEvents' = WifiAdd(Popped, "ACQUIRING_IP")
      /\ UNCHANGED <<wifiTimer, wifiError>>
  BY DEF ApConnected, WifiPop
<1> SUFFICES ASSUME Pending PROVE Pending'
  BY <1>1, GoesOn
<1>2. /\ "ACQUIRING_IP" \in WifiTypes /\ "ACQUIRING_IP" \notin Ops
      /\ "ACQUIRING_IP" \in Joined /\ "CONNECTED" \in Joined
  BY DEF WifiTypes, Joined, Ops, Calls, Starts, Exchanges
<1>3. None(wifiEvents', Ops \ OpsOf(wifiCall))
  BY <1>1, <1>2, PopTruth, AddTruth, PendingWhere
<1>4. wifiCall \notin {"DISCONNECT", "STOP"}
  BY <1>1, PendingWhere
<1>5. CASE wifiCall \in {"SEND", "SEND_TO"}
  <2>1. Single(wifiEvents) /\ Waits(wifiEvents, {wifiCall}) /\ TimedOnce
    BY <1>1, <1>5 DEF Pending, SendTruth
  <2>2. /\ Single(Popped) /\ Joins(Popped, "CONNECTED") /\ Waits(Popped, {wifiCall})
        /\ TimedOnce /\ (wifiTimer > 0 => None(Popped, {"TIMEOUT"}))
    BY <1>1, <1>5, <2>1, PopTruth DEF TimedOnce
  <2>3. None(Popped, Joined)
    BY <1>2, <2>2 DEF Joins, Kinds
  <2>4. Joins(Popped, "ACQUIRING_IP")
    BY <1>2, <2>3, WhatJoins
  <2>5. Single(wifiEvents') /\ Waits(wifiEvents', {wifiCall}) /\ TimedOnce'
    BY <1>1, <1>2, <2>2, <2>4, PopTruth, AddTruth DEF TimedOnce
  <2> QED
    BY <1>1, <1>3, <1>4, <2>5 DEF Pending, SendTruth
<1> QED
  BY <1>1, <1>3, <1>4, <1>5 DEF Pending

(* state_acquiring_ip_address and IP_ADDRESS_ACQUIRED.                     *)
LEMMA IpAcquiredTruth == ASSUME RunInv, TruthInv, IpAcquired PROVE TruthInv'
<1>1. /\ wifiBusy /\ wifiBusy' = wifiBusy /\ wifiCall' = wifiCall /\ wifiEvents # <<>>
      /\ wifiState = "ACQUIRING_IP" /\ Head(wifiEvents) = "IP_ACQUIRED"
  BY DEF IpAcquired, WifiPop
<1>2. CASE FailAndReset
  BY <1>1, <1>2, Fails DEF FailAndReset
<1>3. CASE WifiTransition("CONNECTED") /\ wifiEvents' = Popped /\ UNCHANGED wifiError
  <2> SUFFICES ASSUME Pending PROVE Pending'
    BY <1>1, <1>3, GoesOn
  <2>1. None(wifiEvents', Ops \ OpsOf(wifiCall)) /\ wifiCall \notin {"DISCONNECT", "STOP"}
    BY <1>1, <1>3, PopTruth, PendingWhere
  <2>2. ASSUME wifiCall \in {"SEND", "SEND_TO"}
        PROVE  Single(wifiEvents') /\ Waits(wifiEvents', {wifiCall}) /\ wifiState' = "CONNECTED"
    BY <1>1, <1>3, <2>2, PopTruth DEF Pending, SendTruth, WifiTransition
  <2> QED
    BY <1>1, <2>1, <2>2 DEF Pending, SendTruth
<1> QED
  BY <1>2, <1>3 DEF IpAcquired
(* A link that is lost makes the operation fail.                           *)
LEMMA LinkLostTruth == ASSUME RunInv, TruthInv, LinkLost \/ LinkLostElsewhere PROVE TruthInv'
<1>1. wifiBusy' /\ SetWifiError("FAILED")
  BY DEF LinkLost, LinkLostElsewhere, WifiPop, FailAndReset, FailAndRestart
<1> QED
  BY <1>1, Fails

(* So does a network that is not configured.                               *)
LEMMA SsidMissingTruth == ASSUME RunInv, TruthInv, SsidMissing PROVE TruthInv'
<1>1. wifiBusy' /\ SetWifiError("PARAMETERS_MISSING")
  BY DEF SsidMissing, WifiPop
<1> QED
  BY <1>1, Fails

(* state_connected and an exchange: the data go to TCP or UDP.             *)
LEMMA StartExchangeTruth ==
  ASSUME WifiQueueSize > 7, RunInv, TruthInv, StartExchange
  PROVE  TruthInv'
<1> DEFINE h == Head(wifiEvents)
<1>1. /\ wifiBusy /\ wifiBusy' = wifiBusy /\ wifiCall' = wifiCall /\ wifiEvents # <<>>
      /\ wifiState \in {"CONNECTED"} \cup Exchanges /\ h \in Exchanges
      /\ wifiState' = h /\ wifiEvents' = WifiAdd(Popped, "PROCESS")
      /\ UNCHANGED wifiError /\ faults' = faults
  BY DEF StartExchange, WifiPop, WifiTransition
<1> SUFFICES ASSUME Pending PROVE Pending'
  BY <1>1, GoesOn
<1>2. h \in Ops /\ "PROCESS" \in WifiTypes /\ "PROCESS" \notin Ops /\ "PROCESS" # "DONE"
  BY <1>1 DEF Ops, Calls, Starts, Exchanges, WifiTypes
<1>3. wifiCall = h /\ wifiCall \notin {"STOP", "DISCONNECT"}
  BY <1>1, <1>2, CalledAtHead DEF Exchanges
<1>4. None(wifiEvents, Tokens) /\ TcpQuiet /\ UdpQuiet
  BY <1>1, <1>2, CallInConnected
<1>5. None(wifiEvents, {"DONE"})
  BY <1>4, Fewer DEF Tokens
<1>6. None(wifiEvents', Ops \ OpsOf(wifiCall)) /\ None(wifiEvents', {"DONE"})
  <2>1. /\ None(Popped, Ops \ OpsOf(wifiCall)) /\ None(Popped, {"DONE"})
        /\ Popped \in Seq(WifiTypes) /\ Len(Popped) <= WifiQueueSize
    BY <1>1, <1>5, PopTruth, PendingWhere
  <2>2. "PROCESS" \notin Ops \ OpsOf(wifiCall) /\ "PROCESS" \notin {"DONE"}
    BY <1>2
  <2> QED
    BY <1>1, <1>2, <2>1, <2>2, AddTruth
<1>7. faults' \in Nat
  BY <1>1 DEF RunInv, WifiTypeOK
<1>8. ASSUME wifiCall = "SEND" PROVE TcpQuiet' /\ Delivering(tcpEvents, tcpError, accepted)'
  <2>1. CallTcp("SEND")
    BY <1>3, <1>8 DEF StartExchange, TcpCallOf
  <2> QED
    BY <1>4, <1>7, <2>1, SocketTypes, TcpSendCalled
<1>9. ASSUME wifiCall = "SEND_TO" PROVE UdpQuiet' /\ Delivering(udpEvents, udpError, udpAccepted)'
  <2>1. U!CallTcp("SEND")
    BY <1>3, <1>9 DEF StartExchange, TcpCallOf, CallUdp
  <2> QED
    BY <1>4, <1>7, <2>1, SocketTypes, UdpSendCalled
<1>10. wifiCall \in {"SEND", "SEND_TO"} => Sending'
  BY <1>1, <1>6, <1>8, <1>9 DEF Sending
<1> QED
  BY <1>1, <1>3, <1>6, <1>10 DEF Pending, SendTruth

(* The exchanges and DONE: no error of TCP or UDP, so the data are taken.  *)
LEMMA ExchangeDoneTruth == ASSUME RunInv, TruthInv, ExchangeDone PROVE TruthInv'
<1>1. /\ wifiBusy /\ wifiBusy' = wifiBusy /\ wifiCall' = wifiCall /\ wifiEvents # <<>>
      /\ wifiState \in Exchanges /\ Head(wifiEvents) = "DONE"
  BY DEF ExchangeDone, WifiPop
<1>2. CASE FailAndReset
  BY <1>1, <1>2, Fails DEF FailAndReset
<1>3. CASE /\ wifiState \in {"SEND", "RECEIVE"} => tcpError = "NONE"
           /\ wifiState \notin {"SEND", "RECEIVE"} => udpError = "NONE"
           /\ WifiTransition("CONNECTED") /\ wifiEvents' = Popped
           /\ UNCHANGED <<wifiError, tcpVars, udpVars>>
  <2> SUFFICES ASSUME Pending PROVE Pending'
    BY <1>1, <1>3, GoesOn
  <2>1. None(wifiEvents', Ops \ OpsOf(wifiCall)) /\ wifiState' = "CONNECTED"
    BY <1>1, <1>3, PopTruth, PendingWhere DEF WifiTransition
  <2>2. wifiCall \notin {"DISCONNECT", "STOP"}
    BY <1>1, PendingWhere DEF Exchanges
  <2>3. ~None(wifiEvents, {"DONE"})
    BY <1>1, PopTruth
  <2>4. accepted' = accepted /\ udpAccepted' = udpAccepted
    BY <1>3 DEF tcpVars, udpVars
  <2>5. ASSUME wifiCall \in {"SEND", "SEND_TO"} PROVE Taken'
    <3>1. wifiState = wifiCall /\ Sending
      BY <1>1, <2>5 DEF Pending, SendTruth, Exchanges
    <3> QED
      BY <1>1, <1>3, <2>3, <2>4, <3>1 DEF Sending, Taken
  <2> QED
    BY <1>1, <2>1, <2>2, <2>5 DEF Pending, SendTruth
<1> QED
  BY <1>2, <1>3 DEF ExchangeDone

(* state_connected and CLOSE_SOCKET.                                       *)
LEMMA CloseSocketTruth == ASSUME WifiQueueSize > 7, RunInv, TruthInv, CloseSocketCalled PROVE TruthInv'
<1>1. /\ wifiBusy /\ wifiBusy' = wifiBusy /\ wifiCall' = wifiCall /\ wifiEvents # <<>>
      /\ Head(wifiEvents) = "CLOSE_SOCKET" /\ wifiEvents' = WifiAdd(Popped, "PROCESS")
      /\ UNCHANGED wifiError
  BY DEF CloseSocketCalled, WifiPop, EnterClosingSocket
<1> SUFFICES ASSUME Pending PROVE Pending'
  BY <1>1, GoesOn
<1>2. "CLOSE_SOCKET" \in Ops /\ "PROCESS" \in WifiTypes /\ "PROCESS" \notin Ops
  BY DEF Ops, Calls, Starts, Exchanges, WifiTypes
<1>3. wifiCall = "CLOSE_SOCKET"
  BY <1>1, <1>2, CalledAtHead
<1>4. None(wifiEvents', Ops \ OpsOf(wifiCall))
  BY <1>1, <1>2, PopTruth, AddTruth, PendingWhere
<1> QED
  BY <1>1, <1>3, <1>4 DEF Pending

(* state_connected and STOP: STOP_SOCKET_CLOSED stands for it.             *)
LEMMA StopConnectedTruth == ASSUME WifiQueueSize > 7, RunInv, TruthInv, StopConnected PROVE TruthInv'
<1>1. /\ wifiBusy /\ wifiBusy' = wifiBusy /\ wifiCall' = wifiCall /\ wifiEvents # <<>>
      /\ wifiState \in {"CONNECTED"} \cup Exchanges
      /\ Head(wifiEvents) = "STOP" /\ wifiState' = "CLOSING"
      /\ wifiEvents' = WifiAdd(WifiAdd(Popped, "STOP_SOCKET_CLOSED"), "PROCESS")
      /\ UNCHANGED wifiError
  BY DEF StopConnected, WifiPop, EnterClosingSocket, WifiTransition
<1> SUFFICES ASSUME Pending PROVE Pending'
  BY <1>1, GoesOn
<1>2. /\ "STOP" \in Ops /\ "STOP_SOCKET_CLOSED" \in Ops /\ "STOP_SOCKET_CLOSED" \in WifiTypes
      /\ "PROCESS" \in WifiTypes /\ "PROCESS" \notin Ops
      /\ "STOP_SOCKET_CLOSED" \notin Own /\ "PROCESS" \in Turn /\ "PROCESS" \in Tokens
  BY DEF Ops, Calls, Starts, Exchanges, WifiTypes, Own, Turn, Tokens
<1>3. wifiCall = "STOP" /\ wifiState = "CONNECTED" /\ None(Popped, Ops)
  BY <1>1, <1>2, CalledAtHead, CallInConnected
<1>4. Fresh(Popped) /\ Joins(Popped, "STOP_SOCKET_CLOSED")
  BY <1>1, <1>2, <1>3, PopTruth, WhatJoins DEF Pending, StopTruth
<1>5. PICK left : left = WifiAdd(Popped, "STOP_SOCKET_CLOSED")
  OBVIOUS
<1>6. /\ left \in Seq(WifiTypes) /\ Len(left) <= WifiQueueSize
      /\ Fresh(left) /\ Waits(left, {"STOP_SOCKET_CLOSED"})
      /\ None(left, Ops \ OpsOf(wifiCall))
  <2>1. /\ None(Popped, Ops \ OpsOf(wifiCall))
        /\ Popped \in Seq(WifiTypes) /\ Len(Popped) <= WifiQueueSize
    BY <1>1, PopTruth, PendingWhere
  <2>2. "STOP_SOCKET_CLOSED" \notin Ops \ OpsOf(wifiCall)
    BY <1>3, OpsAre
  <2>3. None(left, Ops \ OpsOf(wifiCall))
    BY <1>2, <1>5, <2>1, <2>2, AddTruth
  <2> QED
    BY <1>2, <1>4, <1>5, <2>1, <2>3, AddTruth
<1>7. /\ Single(left) /\ None(left, Turn) /\ None(left, Own \ Turn) /\ None(left, Turn \ Tokens)
      /\ Joins(left, "PROCESS")
  BY <1>2, <1>6, Fewer, WhatJoins DEF Fresh, Own
<1>8. wifiEvents' = WifiAdd(left, "PROCESS")
  BY <1>1, <1>5
<1>9. /\ Single(wifiEvents') /\ Waits(wifiEvents', {"STOP_SOCKET_CLOSED"})
      /\ None(wifiEvents', Own \ Turn) /\ None(wifiEvents', Turn \ Tokens)
      /\ None(wifiEvents', Ops \ OpsOf(wifiCall))
  <2>1. /\ "PROCESS" \notin Own \ Turn /\ "PROCESS" \notin Turn \ Tokens
        /\ "PROCESS" \notin Ops \ OpsOf(wifiCall)
    BY <1>2
  <2>2. Single(wifiEvents') /\ Waits(wifiEvents', {"STOP_SOCKET_CLOSED"})
    BY <1>2, <1>6, <1>7, <1>8, AddTruth
  <2>3. /\ None(wifiEvents', Own \ Turn) /\ None(wifiEvents', Turn \ Tokens)
        /\ None(wifiEvents', Ops \ OpsOf(wifiCall))
    BY <1>2, <1>6, <1>7, <1>8, <2>1, AddTruth
  <2> QED
    BY <2>2, <2>3
<1> QED
  BY <1>1, <1>3, <1>9 DEF Pending, StopTruth

(* state_connected, DISCONNECT and the SOCKET_CLOSED events.               *)
LEMMA DisconnectCalledTruth == ASSUME WifiQueueSize > 7, RunInv, TruthInv, Disconnect PROVE TruthInv'
<1>1. /\ wifiBusy /\ wifiBusy' = wifiBusy /\ wifiCall' = wifiCall /\ wifiEvents # <<>>
      /\ wifiState \in {"CONNECTED"} \cup Exchanges /\ wifiState' = "DISCONNECTING"
      /\ UNCHANGED wifiError
  BY DEF Disconnect, WifiPop, EnterDisconnecting
<1> SUFFICES ASSUME Pending PROVE Pending'
  BY <1>1, GoesOn
<1>2. /\ {"DISCONNECT", "DISCONNECT_SOCKET_CLOSED", "STOP_SOCKET_CLOSED", "STOP"} \subseteq Ops
      /\ "DISCONNECTING" \in WifiTypes /\ "DISCONNECTING" \notin Ops /\ "DISCONNECTING" \in Turn
      /\ "STOP" \notin Own /\ "DISCONNECTING" # "TIMEOUT" /\ Ops \subseteq WifiTypes
  BY OpsAre DEF Ops, Calls, Starts, Exchanges, WifiTypes, Own, Turn, Tokens
<1>3. CASE /\ Head(wifiEvents) = "DISCONNECT"
           /\ wifiEvents' = WifiAdd(WifiAdd(Popped, "DISCONNECT_SOCKET_CLOSED"), "DISCONNECTING")
  <2>1. wifiCall = "DISCONNECT"
    BY <1>1, <1>2, <1>3, CalledAtHead
  <2>2. PICK left : left = WifiAdd(Popped, "DISCONNECT_SOCKET_CLOSED")
    OBVIOUS
  <2>3. /\ left \in Seq(WifiTypes) /\ Len(left) <= WifiQueueSize
        /\ None(left, Ops \ OpsOf(wifiCall))
    BY <1>1, <1>2, <2>1, <2>2, PopTruth, AddTruth, PendingWhere, OpsAre
  <2>4. wifiEvents' = WifiAdd(left, "DISCONNECTING")
    BY <1>3, <2>2
  <2>5. None(wifiEvents', Ops \ OpsOf(wifiCall))
    BY <1>2, <2>3, <2>4, AddTruth
  <2> QED
    BY <1>1, <2>1, <2>5 DEF Pending, DisconnectTruth
<1>4. CASE /\ Head(wifiEvents) = "DISCONNECT_SOCKET_CLOSED"
           /\ wifiEvents' = WifiAdd(Popped, "DISCONNECTING")
  <2>1. wifiCall = "DISCONNECT"
    BY <1>1, <1>2, <1>4, CalledAtHead DEF Calls, Starts, Exchanges
  <2>2. None(wifiEvents', Ops \ OpsOf(wifiCall))
    BY <1>1, <1>2, <1>4, PopTruth, AddTruth, PendingWhere
  <2> QED
    BY <1>1, <2>1, <2>2 DEF Pending, DisconnectTruth
<1>5. CASE /\ Head(wifiEvents) = "STOP_SOCKET_CLOSED"
           /\ wifiEvents' = WifiAdd(WifiAdd(Popped, "STOP"), "DISCONNECTING")
  <2>1. wifiCall = "STOP" /\ wifiState = "CONNECTED" /\ None(Popped, Ops)
    BY <1>1, <1>2, <1>5, CalledAtHead, CallInConnected DEF Calls, Starts, Exchanges
  <2>2. Fresh(Popped) /\ Joins(Popped, "STOP")
    BY <1>1, <1>2, <2>1, PopTruth, WhatJoins DEF Pending, StopTruth
  <2>3. PICK left : left = WifiAdd(Popped, "STOP")
    OBVIOUS
  <2>4. /\ left \in Seq(WifiTypes) /\ Len(left) <= WifiQueueSize
        /\ Fresh(left) /\ Waits(left, {"STOP"})
        /\ None(left, Ops \ OpsOf(wifiCall))
    <3>1. /\ None(Popped, Ops \ OpsOf(wifiCall)) /\ "STOP" \in WifiTypes
          /\ Popped \in Seq(WifiTypes) /\ Len(Popped) <= WifiQueueSize
      BY <1>1, <1>2, PopTruth, PendingWhere
    <3>2. "STOP" \notin Ops \ OpsOf(wifiCall)
      BY <2>1, PendingWhere, OpsAre
    <3>3. None(left, Ops \ OpsOf(wifiCall))
      BY <2>3, <3>1, <3>2, AddTruth
    <3> QED
      BY <1>2, <2>2, <2>3, <3>1, <3>3, AddTruth
  <2>5. Single(left) /\ None(left, Turn) /\ None(left, {"TIMEOUT"}) /\ Joins(left, "DISCONNECTING")
    BY <1>2, <2>4, Fewer, WhatJoins DEF Fresh, Own
  <2>6. wifiEvents' = WifiAdd(left, "DISCONNECTING")
    BY <1>5, <2>3
  <2>7. /\ Single(wifiEvents') /\ Waits(wifiEvents', {"STOP"}) /\ None(wifiEvents', {"TIMEOUT"})
        /\ None(wifiEvents', Ops \ OpsOf(wifiCall))
    BY <1>2, <2>4, <2>5, <2>6, AddTruth
  <2> QED
    BY <1>1, <2>1, <2>7 DEF Pending, StopTruth, TimedOnce
<1> QED
  BY <1>3, <1>4, <1>5 DEF Disconnect, WifiPop, EnterDisconnecting

(* state_disconnecting and DISCONNECTED.                                   *)
LEMMA DisconnectedTruth == ASSUME RunInv, TruthInv, Disconnected PROVE TruthInv'
<1>1. /\ wifiBusy /\ wifiBusy' = wifiBusy /\ wifiCall' = wifiCall /\ wifiEvents # <<>>
      /\ wifiState = "DISCONNECTING" /\ Head(wifiEvents) = "DISCONNECTED"
      /\ wifiState' = "DISCONNECTED" /\ wifiEvents' = Popped /\ UNCHANGED wifiError
  BY DEF Disconnected, WifiPop, WifiTransition
<1> SUFFICES ASSUME Pending PROVE Pending'
  BY <1>1, GoesOn
<1>2. None(wifiEvents', Ops \ OpsOf(wifiCall)) /\ wifiCall \notin {"SEND", "SEND_TO"}
  BY <1>1, PopTruth, PendingWhere DEF Connecting
<1>3. ASSUME wifiCall = "STOP" PROVE Single(wifiEvents') /\ Waits(wifiEvents', {"STOP"})
  BY <1>1, <1>3, PopTruth DEF Pending, StopTruth
<1> QED
  BY <1>1, <1>2, <1>3 DEF Pending, DisconnectTruth, StopTruth

(* A step of TCP or UDP, or the DONE that ends the exchange.               *)
LEMMA RunExchangeTruth ==
  ASSUME WifiQueueSize > 7, TcpQueueSize > MaxFaults + 1, TcpQueueSize > 1,
         RunInv, OpeningInv, TruthInv, RunExchange
  PROVE  TruthInv'
<1>1. /\ wifiBusy /\ wifiBusy' = wifiBusy /\ wifiCall' = wifiCall /\ wifiEvents # <<>>
      /\ Head(wifiEvents) = "PROCESS" /\ wifiState \notin {"RESET", "CLOSING"}
      /\ UNCHANGED <<wifiState, wifiTimer, wifiError, faults>>
  BY DEF RunExchange, WifiPop
<1> SUFFICES ASSUME Pending PROVE Pending'
  BY <1>1, GoesOn
<1>2. "PROCESS" \in Tokens /\ "PROCESS" \in Turn /\ Tokens \subseteq Turn /\ Turn \in Kinds
  BY DEF Turn, Tokens, Kinds
<1>3. ~None(wifiEvents, Tokens) /\ ~None(wifiEvents, Own)
  BY <1>1, <1>2, PopTruth DEF Own
<1>4. wifiState \in {"STOPPED", "DISCONNECTED"} \cup Exchanges
  BY <1>1, <1>3 DEF RunInv, WifiTypeOK, WifiStates, TokensInv, Timed
<1>5. PICK e \in Tokens : /\ wifiEvents' = WifiAdd(Popped, e)
                          /\ e = "DONE" => /\ UNCHANGED <<tcpVars, udpVars>>
                                           /\ \/ wifiHandle = "TCP" /\ TcpIdle
                                              \/ wifiHandle = "UDP" /\ UdpIdle
                          /\ e = "PROCESS" => \/ wifiHandle = "TCP" /\ TcpProcess /\ UNCHANGED udpVars
                                              \/ wifiHandle = "UDP" /\ UdpProcess /\ UNCHANGED tcpVars
  BY DEF RunExchange, Tokens
<1>6. e \in WifiTypes /\ e \notin Ops /\ e \in Turn
  BY <1>2 DEF Tokens, WifiTypes, Ops, Calls, Starts, Exchanges
<1>7. None(wifiEvents', Ops \ OpsOf(wifiCall))
  BY <1>1, <1>5, <1>6, PopTruth, AddTruth, PendingWhere
<1>8. ASSUME wifiCall = "STOP" PROVE StopTruth'
  <2>1. CASE wifiState = "STOPPED"
    BY <1>1, <2>1 DEF StopTruth
  <2>2. CASE wifiState # "STOPPED"
    <3>1. wifiState = "DISCONNECTED" /\ Single(wifiEvents) /\ Waits(wifiEvents, {"STOP"})
      BY <1>4, <1>8, <2>2 DEF Pending, StopTruth, Exchanges
    <3>2. Single(Popped) /\ Joins(Popped, "PROCESS") /\ Waits(Popped, {"STOP"})
      BY <1>1, <3>1, PopTruth
    <3>3. Joins(Popped, e)
      BY <1>2, <1>6, <3>2, WhatJoins DEF Joins
    <3>4. Single(wifiEvents') /\ Waits(wifiEvents', {"STOP"})
      BY <1>1, <1>5, <1>6, <3>2, <3>3, PopTruth, AddTruth
    <3> QED
      BY <1>1, <3>1, <3>4 DEF StopTruth
  <2> QED
    BY <2>1, <2>2
<1>9. ASSUME wifiCall \in {"SEND", "SEND_TO"} PROVE SendTruth'
  <2>1. wifiState = wifiCall /\ Sending
    BY <1>3, <1>4, <1>9 DEF Pending, SendTruth, Fresh, Exchanges
  <2>2. wifiState \in Exchanges
    BY <1>9, <2>1 DEF Exchanges
  <2>3. None(Popped, Tokens)
    BY <1>1, <1>2, <2>2, Popping DEF RunInv, TokensInv
  <2>4. e = "PROCESS" => None(wifiEvents', {"DONE"})
    BY <1>1, <1>5, <1>6, <2>3, Fewer, PopTruth, AddTruth DEF Tokens
  <2>5. faults \in 0..MaxFaults /\ faults' \in 0..MaxFaults
    BY <1>1 DEF RunInv, WifiTypeOK
  <2>6. TcpInv /\ TcpLive /\ UdpInv /\ UdpLive
    BY SocketTypes
  <2>7. CASE wifiCall = "SEND"
    <3>1. wifiHandle = "TCP" /\ TcpQuiet /\ Delivering(tcpEvents, tcpError, accepted)
      BY <2>1, <2>7 DEF RunInv, MachinesInv, Sending
    <3>2. CASE e = "PROCESS"
      <4>1. TcpProcess
        BY <1>5, <3>1, <3>2
      <4>2. TcpQuiet'
        BY <3>1, <4>1, TcpPart DEF TcpKeeps
      <4>3. Delivering(tcpEvents, tcpError, accepted)'
        BY <1>1, <2>5, <2>6, <3>1, <4>1, TcpDelivers DEF OpeningInv
      <4> QED
        BY <1>1, <2>1, <2>4, <2>7, <3>2, <4>2, <4>3 DEF SendTruth, Sending
    <3>3. CASE e = "DONE"
      <4>1. TcpIdle /\ UNCHANGED tcpVars
        BY <1>5, <3>1, <3>3
      <4>2. accepted \/ tcpError # "NONE"
        BY <3>1, <4>1, TcpDelivered
      <4>3. TcpQuiet' /\ (accepted' \/ tcpError' # "NONE")
        BY <3>1, <4>1, <4>2 DEF tcpVars, TcpQuiet
      <4> QED
        BY <1>1, <2>1, <2>7, <4>3 DEF SendTruth, Sending, Delivering
    <3> QED
      BY <1>5, <3>2, <3>3 DEF Tokens
  <2>8. CASE wifiCall = "SEND_TO"
    <3>1. wifiHandle = "UDP" /\ UdpQuiet /\ Delivering(udpEvents, udpError, udpAccepted)
      BY <2>1, <2>8 DEF RunInv, MachinesInv, Sending
    <3>2. CASE e = "PROCESS"
      <4>1. UdpProcess
        BY <1>5, <3>1, <3>2
      <4>2. U!TcpProcess
        BY <4>1 DEF UdpProcess, UdpClosed, UdpOpening, UdpOpened, UdpReceive, UdpClosing,
                    UdpUnhandled, U!TcpProcess
      <4>3. UdpQuiet'
        BY <3>1, <4>1, UdpPart DEF UdpKeeps
      <4>4. Delivering(udpEvents, udpError, udpAccepted)'
        BY <1>1, <2>5, <2>6, <3>1, <4>2, UdpDelivers DEF OpeningInv
      <4> QED
        BY <1>1, <2>1, <2>4, <2>8, <3>2, <4>3, <4>4 DEF SendTruth, Sending
    <3>3. CASE e = "DONE"
      <4>1. U!TcpIdle /\ UNCHANGED udpVars
        BY <1>5, <3>1, <3>3 DEF UdpIdle
      <4>2. udpAccepted \/ udpError # "NONE"
        BY <3>1, <4>1, UdpDelivered
      <4>3. UdpQuiet' /\ (udpAccepted' \/ udpError' # "NONE")
        BY <3>1, <4>1, <4>2 DEF udpVars, UdpQuiet
      <4> QED
        BY <1>1, <2>1, <2>8, <4>3 DEF SendTruth, Sending, Delivering
    <3> QED
      BY <1>5, <3>2, <3>3 DEF Tokens
  <2> QED
    BY <1>9, <2>7, <2>8
<1>10. wifiCall = "DISCONNECT" => DisconnectTruth'
  BY <1>1, <1>4 DEF Pending, DisconnectTruth, Exchanges
<1> QED
  BY <1>1, <1>7, <1>8, <1>9, <1>10 DEF Pending
(* A step of a closing or a reset.                                         *)
LEMMA RunClosingTruth == ASSUME WifiQueueSize > 7, RunInv, TruthInv, RunClosing PROVE TruthInv'
<1>1. /\ wifiBusy /\ wifiBusy' = wifiBusy /\ wifiCall' = wifiCall /\ wifiEvents # <<>>
      /\ Head(wifiEvents) = "PROCESS" /\ wifiState \in {"RESET", "CLOSING"}
      /\ UNCHANGED <<wifiState, wifiError>>
  BY DEF RunClosing, WifiPop
<1> SUFFICES ASSUME Pending PROVE Pending'
  BY <1>1, GoesOn
<1>2. PICK e \in Tokens : wifiEvents' = WifiAdd(Popped, e)
  BY DEF RunClosing, Tokens
<1>3. /\ e \in WifiTypes /\ e \notin Ops /\ e \in Turn /\ "PROCESS" \in Turn /\ Turn \in Kinds
      /\ e \notin Own \ Turn /\ e \notin Turn \ Tokens /\ e \notin Ops \ OpsOf(wifiCall)
  BY DEF Turn, Tokens, WifiTypes, Kinds, Ops, Calls, Starts, Exchanges
<1>4. None(wifiEvents', Ops \ OpsOf(wifiCall))
  BY <1>1, <1>2, <1>3, PopTruth, AddTruth, PendingWhere
<1>5. wifiCall \notin {"SEND", "SEND_TO", "DISCONNECT"}
  BY <1>1, PendingWhere DEF Connecting
<1>6. ASSUME wifiCall = "STOP" PROVE StopTruth'
  <2>1. /\ wifiState = "CLOSING" /\ Single(wifiEvents) /\ Waits(wifiEvents, {"STOP_SOCKET_CLOSED"})
        /\ None(wifiEvents, Own \ Turn) /\ None(wifiEvents, Turn \ Tokens)
    BY <1>1, <1>6 DEF Pending, StopTruth
  <2>2. /\ Single(Popped) /\ Joins(Popped, "PROCESS") /\ Waits(Popped, {"STOP_SOCKET_CLOSED"})
        /\ None(Popped, Own \ Turn) /\ None(Popped, Turn \ Tokens)
        /\ Popped \in Seq(WifiTypes) /\ Len(Popped) <= WifiQueueSize
    BY <1>1, <2>1, PopTruth
  <2>3. Joins(Popped, e)
    BY <1>3, <2>2, WhatJoins DEF Joins
  <2>4. Single(wifiEvents') /\ Waits(wifiEvents', {"STOP_SOCKET_CLOSED"})
    BY <1>2, <1>3, <2>2, <2>3, AddTruth
  <2>5. None(wifiEvents', Own \ Turn) /\ None(wifiEvents', Turn \ Tokens)
    BY <1>2, <1>3, <2>2, AddTruth
  <2> QED
    BY <1>1, <2>1, <2>4, <2>5 DEF StopTruth
<1> QED
  BY <1>1, <1>4, <1>5, <1>6 DEF Pending

(* state_reset: something has failed before.                               *)
LEMMA ResetTruth == ASSUME RunInv, TruthInv, ResetDone \/ PreserveStop PROVE TruthInv'
<1>1. /\ wifiBusy /\ wifiBusy' = wifiBusy /\ wifiCall' = wifiCall /\ wifiEvents # <<>>
      /\ wifiState = "RESET"
      /\ UNCHANGED wifiError \/ SetWifiError("FAILED")
  BY DEF ResetDone, PreserveStop, WifiPop
<1>2. CASE SetWifiError("FAILED")
  BY <1>1, <1>2, Fails
<1>3. CASE UNCHANGED wifiError
  <2> SUFFICES ASSUME Pending PROVE Pending'
    BY <1>1, <1>3, GoesOn
  <2>1. wifiCall \notin {"SEND", "SEND_TO", "DISCONNECT", "STOP"}
    BY <1>1, PendingWhere DEF Connecting
  <2>2. CASE ResetDone
    <3>1. wifiEvents' = Popped
      BY <2>2 DEF ResetDone
    <3>2. None(wifiEvents', Ops \ OpsOf(wifiCall))
      BY <1>1, <3>1, PopTruth, PendingWhere
    <3> QED
      BY <1>1, <2>1, <3>2 DEF Pending
  <2>3. CASE PreserveStop
    <3>1. Head(wifiEvents) \in {"STOP", "STOP_SOCKET_CLOSED"} /\ Head(wifiEvents) \in Ops
      BY <2>3 DEF PreserveStop, WifiPop, Ops, Calls
    <3> QED
      BY <1>1, <2>1, <3>1, CalledAtHead DEF Calls, Starts, Exchanges
  <2> QED
    BY <2>2, <2>3
<1> QED
  BY <1>1, <1>2, <1>3

(* state_closing_socket and DONE.                                          *)
LEMMA ClosingDoneTruth == ASSUME RunInv, TruthInv, ClosingDone PROVE TruthInv'
<1>1. /\ wifiBusy /\ wifiBusy' = wifiBusy /\ wifiCall' = wifiCall /\ wifiEvents # <<>>
      /\ wifiState = "CLOSING" /\ Head(wifiEvents) = "DONE"
  BY DEF ClosingDone, WifiPop
<1>2. CASE FailAndRestart
  BY <1>1, <1>2, Fails DEF FailAndRestart
<1>3. CASE WifiTransition("CONNECTED") /\ wifiEvents' = Popped /\ UNCHANGED wifiError
  <2> SUFFICES ASSUME Pending PROVE Pending'
    BY <1>1, <1>3, GoesOn
  <2>1. None(wifiEvents', Ops \ OpsOf(wifiCall)) /\ wifiState' = "CONNECTED"
    BY <1>1, <1>3, PopTruth, PendingWhere DEF WifiTransition
  <2>2. wifiCall \notin {"SEND", "SEND_TO", "DISCONNECT"}
    BY <1>1, PendingWhere DEF Connecting
  <2>3. ASSUME wifiCall = "STOP" PROVE StopTruth'
    <3>1. /\ Single(Popped) /\ Joins(Popped, "DONE") /\ Waits(Popped, {"STOP_SOCKET_CLOSED"})
          /\ None(Popped, Own \ Turn)
      BY <1>1, <2>3, PopTruth DEF Pending, StopTruth
    <3>2. None(Popped, Turn)
      BY <3>1 DEF Joins, Kinds, Turn, Tokens
    <3>3. None(Popped, Own)
      BY <3>1, <3>2 DEF None
    <3>4. Waits(Popped, {"STOP", "STOP_SOCKET_CLOSED"})
      BY <3>1, Fewer
    <3> QED
      BY <1>3, <2>1, <3>1, <3>3, <3>4 DEF StopTruth, Fresh
  <2> QED
    BY <1>1, <2>1, <2>2, <2>3 DEF Pending
<1> QED
  BY <1>2, <1>3 DEF ClosingDone

(* What is waited for is not among the events that the state ignores.      *)
LEMMA WhatIsIgnored ==
  /\ "ERROR" \notin UNION {WifiIgnores(state) : state \in WifiStates \ {"STOPPED", "RESET"}}
  /\ WifiIgnores("STOPPED") \cap Starts = {}
  /\ WifiIgnores("DISCONNECTED") \cap (Starts \cup {"STOP"}) = {}
  /\ \A state \in Connecting \cup {"CONNECTED"} : WifiIgnores(state) \cap Exchanges = {}
  /\ "DISCONNECT" \notin WifiIgnores("CONNECTED")
  /\ WifiIgnores("CONNECTED") \cap {"STOP", "STOP_SOCKET_CLOSED"} = {}
  /\ "STOP" \notin WifiIgnores("DISCONNECTING")
  /\ "STOP_SOCKET_CLOSED" \notin WifiIgnores("CLOSING")
BY DEF WifiIgnores, Retained, WifiStates, Connecting, Exchanges, Starts

(* An event that is ignored is not the one that is waited for.             *)
LEMMA UnhandledTruth == ASSUME RunInv, TruthInv, WifiUnhandled PROVE TruthInv'
<1> DEFINE h == Head(wifiEvents)
<1>1. /\ wifiBusy /\ wifiBusy' = wifiBusy /\ wifiCall' = wifiCall /\ wifiEvents # <<>>
      /\ wifiState \in WifiStates /\ h \in WifiIgnores(wifiState) /\ wifiEvents' = Popped
      /\ UNCHANGED <<wifiState, wifiTimer, wifiError, faults, tcpVars, udpVars>>
  BY DEF WifiUnhandled, WifiPop
<1> SUFFICES ASSUME Pending PROVE Pending'
  BY <1>1, GoesOn
<1>2. \A T : None(wifiEvents, T) => None(wifiEvents', T)
  BY <1>1, PopTruth
<1>3. Single(wifiEvents) => Single(wifiEvents')
  BY <1>1, PopTruth
<1>4. Fresh(wifiEvents) => Fresh(wifiEvents')
  BY <1>1, PopTruth
<1>5. wifiState \notin {"STOPPED", "RESET"} => h # "ERROR"
  BY <1>1, WhatIsIgnored
<1>6. ASSUME NEW T, h \notin T, wifiState \notin {"STOPPED", "RESET"}, Waits(wifiEvents, T)
      PROVE  Waits(wifiEvents', T)
  BY <1>1, <1>5, <1>6, PopTruth
<1>7. TimedOnce => TimedOnce'
  BY <1>1, <1>2 DEF TimedOnce
<1>8. None(wifiEvents', Ops \ OpsOf(wifiCall))
  BY <1>2, PendingWhere
<1>9. ASSUME wifiCall \in {"SEND", "SEND_TO"} PROVE SendTruth'
  <2>1. wifiCall \in Exchanges /\ wifiCall \in Starts
    BY <1>9 DEF Exchanges, Starts
  <2>2. SendTruth
    BY <1>9 DEF Pending
  <2>3. CASE wifiState = "STOPPED" /\ Fresh(wifiEvents) /\ ~None(wifiEvents, {wifiCall})
    <3>1. h # wifiCall
      BY <1>1, <2>1, <2>3, WhatIsIgnored
    <3>2. ~None(wifiEvents', {wifiCall})
      <4>1. Range(wifiEvents) \subseteq Range(Popped) \cup {h}
        BY <1>1, Popping
      <4> QED
        BY <1>1, <2>3, <3>1, <4>1 DEF None
    <3> QED
      BY <1>1, <1>4, <2>3, <3>2 DEF SendTruth
  <2>4. CASE wifiState \in {"DISCONNECTED", "CONNECTED"} \cup Connecting
    <3>1. h # wifiCall /\ wifiState \notin {"STOPPED", "RESET"}
      BY <1>1, <2>1, <2>4, WhatIsIgnored DEF Connecting
    <3>2. Waits(wifiEvents, {wifiCall}) => Waits(wifiEvents', {wifiCall})
      BY <1>6, <3>1
    <3>3. Taken => Taken'
      BY <1>1 DEF Taken, tcpVars, udpVars
    <3> QED
      BY <1>1, <1>2, <1>3, <1>4, <1>7, <2>1, <2>2, <2>4, <3>2, <3>3
      DEF SendTruth, Connecting, Exchanges
  <2>5. CASE wifiState = wifiCall /\ Sending
    <3>1. /\ tcpState' = tcpState /\ tcpEvents' = tcpEvents /\ tcpError' = tcpError
          /\ accepted' = accepted /\ udpState' = udpState /\ udpEvents' = udpEvents
          /\ udpError' = udpError /\ udpAccepted' = udpAccepted
      BY <1>1 DEF tcpVars, udpVars
    <3>2. Sending'
      BY <1>1, <1>2, <2>5, <3>1 DEF Sending, TcpQuiet, UdpQuiet, Delivering, SendNear
    <3> QED
      BY <1>1, <2>5, <3>2 DEF SendTruth
  <2> QED
    BY <2>2, <2>3, <2>4, <2>5 DEF SendTruth, Connecting
<1>10. ASSUME wifiCall = "DISCONNECT" PROVE DisconnectTruth'
  <2>1. wifiState = "CONNECTED" /\ Waits(wifiEvents, {"DISCONNECT"}) => Waits(wifiEvents', {"DISCONNECT"})
    BY <1>1, <1>6, WhatIsIgnored
  <2> QED
    BY <1>1, <1>4, <1>10, <2>1 DEF Pending, DisconnectTruth
<1>11. ASSUME wifiCall = "STOP" PROVE StopTruth'
  <2>1. wifiState = "DISCONNECTED" /\ Waits(wifiEvents, {"STOP"}) => Waits(wifiEvents', {"STOP"})
    BY <1>1, <1>6, WhatIsIgnored
  <2>2. wifiState = "DISCONNECTING" /\ Waits(wifiEvents, {"STOP"}) => Waits(wifiEvents', {"STOP"})
    BY <1>1, <1>6, WhatIsIgnored
  <2>3. wifiState = "CLOSING" /\ Waits(wifiEvents, {"STOP_SOCKET_CLOSED"}) =>
          Waits(wifiEvents', {"STOP_SOCKET_CLOSED"})
    BY <1>1, <1>6, WhatIsIgnored
  <2>4. wifiState = "CONNECTED" /\ Waits(wifiEvents, {"STOP", "STOP_SOCKET_CLOSED"}) =>
          Waits(wifiEvents', {"STOP", "STOP_SOCKET_CLOSED"})
    <3>1. wifiState = "CONNECTED" => h \notin {"STOP", "STOP_SOCKET_CLOSED"}
      BY <1>1, WhatIsIgnored
    <3> QED
      BY <1>6, <3>1
  <2> QED
    BY <1>1, <1>2, <1>3, <1>4, <1>7, <1>11, <2>1, <2>2, <2>3, <2>4 DEF Pending, StopTruth
<1> QED
  BY <1>1, <1>8, <1>9, <1>10, <1>11 DEF Pending
-------------------------------------------------------------------------------
(***************************************************************************)
(* What comes from outside.                                                *)
(***************************************************************************)

(* A call: nothing of an earlier operation is left.                        *)
LEMMA CallTruth ==
  ASSUME WifiQueueSize > 7, RunInv, TruthInv, NEW operation \in Calls, WifiCall(operation)
  PROVE  TruthInv'
<1>1. /\ ~wifiBusy /\ wifiBusy' = TRUE /\ wifiCall' = operation /\ wifiError' = "NONE"
      /\ wifiEvents' = WifiAdd(wifiEvents, operation) /\ wifiState' = wifiState
  BY DEF WifiCall
<1>2. /\ wifiEvents \in Seq(WifiTypes) /\ Len(wifiEvents) <= WifiQueueSize
      /\ wifiState \in Rests /\ None(wifiEvents, Ops \cup Tokens)
  BY <1>1 DEF RunInv, WifiTypeOK, CallsInv
<1>3. /\ Fresh(wifiEvents) /\ operation \in WifiTypes /\ operation \in Ops /\ operation \notin Own
      /\ operation \notin Ops \ OpsOf(operation)
  BY <1>1, OpsAre DEF TruthInv, Ops, Own, Turn, Tokens, Calls, Starts, Exchanges, WifiTypes
<1>4. /\ None(wifiEvents, Ops) /\ None(wifiEvents, Ops \ OpsOf(operation))
      /\ Joins(wifiEvents, operation)
  BY <1>2, <1>3, Fewer, WhatJoins
<1>5. Fresh(wifiEvents') /\ ~None(wifiEvents', {operation}) /\ Waits(wifiEvents', {operation})
  BY <1>1, <1>2, <1>3, <1>4, AddTruth
<1>6. None(wifiEvents', Ops \ OpsOf(operation))
  BY <1>1, <1>2, <1>3, <1>4, AddTruth
<1>7. Waits(wifiEvents', {operation}) /\ operation = "STOP" =>
        Waits(wifiEvents', {"STOP", "STOP_SOCKET_CLOSED"})
  BY Fewer
<1>8. Pending'
  BY <1>1, <1>2, <1>5, <1>6, <1>7
  DEF Pending, SendTruth, DisconnectTruth, StopTruth, Rests, Fresh
<1> QED
  BY <1>1, <1>8 DEF TruthInv

(* process_event returns false.                                            *)
LEMMA ReturnTruth == ASSUME RunInv, TruthInv, WifiReturns PROVE TruthInv'
<1>1. /\ wifiEvents = <<>> /\ wifiEvents' = wifiEvents
      /\ UNCHANGED <<wifiState, wifiTimer, wifiError, wifiCall, faults, tcpVars, udpVars>>
  BY DEF WifiReturns
<1>2. \A T : None(wifiEvents, T)
  BY <1>1, Singles DEF None
<1>3. Fresh(wifiEvents)
  BY <1>2, NoneAtMostOne DEF Fresh, Single
<1>4. /\ tcpState' = tcpState /\ tcpEvents' = tcpEvents /\ tcpError' = tcpError
      /\ accepted' = accepted /\ udpState' = udpState /\ udpEvents' = udpEvents
      /\ udpError' = udpError /\ udpAccepted' = udpAccepted
  BY <1>1 DEF tcpVars, udpVars
<1>5. Sending => Sending'
  BY <1>1, <1>4 DEF Sending, TcpQuiet, UdpQuiet, Delivering, SendNear
<1>6. SendTruth => SendTruth'
  BY <1>1, <1>4, <1>5 DEF SendTruth, TimedOnce, Taken
<1>7. DisconnectTruth => DisconnectTruth'
  BY <1>1 DEF DisconnectTruth
<1>8. StopTruth => StopTruth'
  BY <1>1 DEF StopTruth, TimedOnce
<1>9. Pending => Pending'
  BY <1>1, <1>6, <1>7, <1>8 DEF Pending
<1> QED
  BY <1>1, <1>3, <1>9 DEF TruthInv

(* A step of the surroundings leaves a send that is being done to be done. *)
LEMMA SendingKept ==
  ASSUME TcpQueueSize > MaxFaults + 1, TcpQueueSize > 1, RunInv, OpeningInv, Sending,
         wifiCall' = wifiCall,
         None(wifiEvents, {"DONE"}) => None(wifiEvents', {"DONE"}),
         faults' \in 0..MaxFaults,
         \/ faults' = faults /\ (UNCHANGED tcpVars \/ TcpSecond)
         \/ faults' = faults + 1 /\ (UNCHANGED tcpVars \/ SocketClosed),
         \/ faults' = faults /\ (UNCHANGED udpVars \/ UdpSecond)
         \/ faults' = faults + 1 /\ UNCHANGED udpVars
  PROVE  Sending'
<1>1. TcpInv /\ TcpLive /\ UdpInv /\ UdpLive /\ faults \in 0..MaxFaults
  BY SocketTypes DEF RunInv, WifiTypeOK
<1>2. /\ tcpError # "NONE" => tcpError' # "NONE"
      /\ accepted => accepted'
  BY DEF tcpVars, TcpSecond, SocketClosed, SetTcpError
<1>3. /\ udpError # "NONE" => udpError' # "NONE"
      /\ udpAccepted => udpAccepted'
  BY DEF udpVars, UdpSecond, U!TcpSecond, U!SetTcpError
<1>4. ASSUME wifiCall = "SEND"
      PROVE  TcpQuiet' /\ Delivering(tcpEvents, tcpError, accepted)'
  <2>1. TcpQuiet /\ Delivering(tcpEvents, tcpError, accepted)
    BY <1>4 DEF Sending
  <2>2. UNCHANGED tcpVars \/ TcpSecond \/ SocketClosed
    OBVIOUS
  <2>3. TcpQuiet'
    BY <2>1, <2>2, TcpPart DEF TcpKeeps
  <2>4. Delivering(tcpEvents, tcpError, accepted)'
    BY <1>1, <2>1, TcpDelivers DEF OpeningInv
  <2> QED
    BY <2>3, <2>4
<1>5. ASSUME wifiCall = "SEND_TO"
      PROVE  UdpQuiet' /\ Delivering(udpEvents, udpError, udpAccepted)'
  <2>1. UdpQuiet /\ Delivering(udpEvents, udpError, udpAccepted)
    BY <1>5 DEF Sending
  <2>2. UNCHANGED udpVars \/ UdpSecond
    OBVIOUS
  <2>3. UdpQuiet'
    BY <2>1, <2>2, UdpPart DEF UdpKeeps
  <2>4. UdpSecond => U!TcpSecond
    BY DEF UdpSecond
  <2>5. Delivering(udpEvents, udpError, udpAccepted)'
    BY <1>1, <2>1, <2>4, UdpDelivers DEF OpeningInv
  <2> QED
    BY <2>3, <2>5
<1> QED
  BY <1>2, <1>3, <1>4, <1>5 DEF Sending

(* Nothing new in the queue.                                               *)
LEMMA QuietStepTruth ==
  ASSUME TcpQueueSize > MaxFaults + 1, TcpQueueSize > 1, RunInv, OpeningInv, TruthInv,
         UNCHANGED <<wifiEvents, wifiState, wifiError, wifiBusy, wifiCall>>,
         wifiTimer' > 0 => wifiTimer > 0,
         faults' \in 0..MaxFaults,
         \/ faults' = faults /\ (UNCHANGED tcpVars \/ TcpSecond)
         \/ faults' = faults + 1 /\ (UNCHANGED tcpVars \/ SocketClosed),
         \/ faults' = faults /\ (UNCHANGED udpVars \/ UdpSecond)
         \/ faults' = faults + 1 /\ UNCHANGED udpVars
  PROVE  TruthInv'
<1>1. Sending => Sending'
  BY SendingKept
<1>2. Taken => Taken'
  BY DEF Taken, tcpVars, TcpSecond, SocketClosed, udpVars, UdpSecond, U!TcpSecond
<1>3. TimedOnce => TimedOnce'
  BY DEF TimedOnce
<1>4. SendTruth => SendTruth'
  BY <1>1, <1>2, <1>3 DEF SendTruth
<1>5. DisconnectTruth => DisconnectTruth'
  BY DEF DisconnectTruth
<1>6. StopTruth => StopTruth'
  BY <1>3 DEF StopTruth
<1>7. Pending => Pending'
  BY <1>4, <1>5, <1>6 DEF Pending
<1> QED
  BY <1>7 DEF TruthInv

(* The peer closes a socket.                                               *)
LEMMA SocketNoticeTruth ==
  ASSUME TcpQueueSize > MaxFaults + 1, TcpQueueSize > 1, RunInv, OpeningInv, TruthInv,
         SocketNotice
  PROVE  TruthInv'
<1>1. /\ UNCHANGED <<wifiEvents, wifiState, wifiError, wifiBusy, wifiCall, wifiTimer>>
      /\ faults' = faults + 1 /\ SocketClosed /\ UNCHANGED udpVars /\ faults < MaxFaults
  BY DEF SocketNotice
<1>2. faults' \in 0..MaxFaults
  BY <1>1 DEF RunInv, WifiTypeOK
<1> QED
  BY <1>1, <1>2, QuietStepTruth
(* A notice, an error or a timeout comes in; of which no other waits.      *)
LEMMA ArrivalTruth ==
  ASSUME WifiQueueSize > 7, TcpQueueSize > MaxFaults + 1, TcpQueueSize > 1,
         RunInv, OpeningInv, TruthInv, NEW event \in Notices \cup {"TIMEOUT", "ERROR"},
         wifiEvents' = WifiAdd(wifiEvents, event), wifiState # "STOPPED",
         UNCHANGED <<wifiState, wifiError, wifiBusy, wifiCall>>,
         wifiTimer' > 0 => wifiTimer > 0 /\ event # "TIMEOUT",
         wifiState = "CONNECTING_TO_AP" /\ TimedOnce /\ None(wifiEvents, {"ACQUIRING_IP"}) =>
           Joins(wifiEvents, event),
         wifiState \in {"ACQUIRING_IP", "DISCONNECTING"} /\ TimedOnce => Joins(wifiEvents, event),
         wifiState \notin Timed => Joins(wifiEvents, event) /\ event # "TIMEOUT",
         faults' \in 0..MaxFaults,
         \/ faults' = faults /\ (UNCHANGED tcpVars \/ TcpSecond)
         \/ faults' = faults + 1 /\ (UNCHANGED tcpVars \/ SocketClosed),
         \/ faults' = faults /\ (UNCHANGED udpVars \/ UdpSecond)
         \/ faults' = faults + 1 /\ UNCHANGED udpVars
  PROVE  TruthInv'
<1>1. wifiEvents \in Seq(WifiTypes) /\ Len(wifiEvents) <= WifiQueueSize
  BY DEF RunInv, WifiTypeOK
<1>2. /\ event \in WifiTypes /\ event \notin Ops /\ event \notin Turn
      /\ event \notin {"DONE", "ACQUIRING_IP"}
      /\ event # "TIMEOUT" => event \notin Own
  BY DEF WifiTypes, Notices, Ops, Calls, Starts, Exchanges, Turn, Tokens, Own
<1>3. \A T : None(wifiEvents, T) /\ event \notin T => None(wifiEvents', T)
  BY <1>1, <1>2, AddTruth
<1>4. \A T : Single(wifiEvents) /\ Waits(wifiEvents, T) => Waits(wifiEvents', T)
  BY <1>1, <1>2, AddTruth
<1>5. Single(wifiEvents) /\ Joins(wifiEvents, event) => Single(wifiEvents')
  BY <1>1, <1>2, AddTruth
<1>6. wifiState \notin Timed /\ Fresh(wifiEvents) => Fresh(wifiEvents')
  BY <1>1, <1>2, AddTruth
<1>7. TimedOnce => TimedOnce'
  BY <1>3 DEF TimedOnce
<1>8. Taken => Taken'
  BY DEF Taken, tcpVars, TcpSecond, SocketClosed, udpVars, UdpSecond, U!TcpSecond
<1>9. Sending => Sending'
  <2>1. None(wifiEvents, {"DONE"}) => None(wifiEvents', {"DONE"})
    BY <1>2, <1>3
  <2> QED
    BY <2>1, SendingKept
<1>10. ASSUME NEW T, wifiState \notin Timed, Fresh(wifiEvents), Waits(wifiEvents, T)
       PROVE  Fresh(wifiEvents') /\ Waits(wifiEvents', T)
  BY <1>4, <1>6, <1>10 DEF Fresh
<1>11. ASSUME NEW T, wifiState \notin Timed, Single(wifiEvents), Waits(wifiEvents, T)
       PROVE  Single(wifiEvents') /\ Waits(wifiEvents', T)
  BY <1>4, <1>5, <1>11
<1>12. ASSUME NEW T, wifiState \in {"ACQUIRING_IP", "DISCONNECTING"}, TimedOnce,
              Single(wifiEvents), Waits(wifiEvents, T)
       PROVE  Single(wifiEvents') /\ Waits(wifiEvents', T)
  BY <1>4, <1>5, <1>12
<1>13. ASSUME wifiCall \in {"SEND", "SEND_TO"}, SendTruth PROVE SendTruth'
  <2>1. "DISCONNECTED" \notin Timed /\ "CONNECTED" \notin Timed
    BY DEF Timed, Connecting
  <2>2. CASE wifiState = "DISCONNECTED" /\ Fresh(wifiEvents) /\ Waits(wifiEvents, {wifiCall})
    BY <1>10, <2>1, <2>2 DEF SendTruth
  <2>3. CASE /\ wifiState = "CONNECTING_TO_AP" /\ Single(wifiEvents) /\ Waits(wifiEvents, {wifiCall})
             /\ TimedOnce /\ None(wifiEvents, {"ACQUIRING_IP"})
    <3>1. Single(wifiEvents') /\ Waits(wifiEvents', {wifiCall})
      BY <1>4, <1>5, <2>3
    <3>2. None(wifiEvents', {"ACQUIRING_IP"})
      BY <1>2, <1>3, <2>3
    <3> QED
      BY <1>7, <2>3, <3>1, <3>2 DEF SendTruth
  <2>4. CASE /\ wifiState = "ACQUIRING_IP" /\ Single(wifiEvents) /\ Waits(wifiEvents, {wifiCall})
             /\ TimedOnce
    BY <1>7, <1>12, <2>4 DEF SendTruth
  <2>5. CASE wifiState = "CONNECTED" /\ Single(wifiEvents) /\ Waits(wifiEvents, {wifiCall})
    BY <1>11, <2>1, <2>5 DEF SendTruth
  <2>6. CASE wifiState = "CONNECTED" /\ Taken
    BY <1>8, <2>6 DEF SendTruth
  <2>7. CASE wifiState = wifiCall /\ Sending
    BY <1>9, <2>7 DEF SendTruth
  <2> QED
    BY <1>13, <2>2, <2>3, <2>4, <2>5, <2>6, <2>7 DEF SendTruth
<1>14. DisconnectTruth => DisconnectTruth'
  <2>1. "CONNECTED" \notin Timed
    BY DEF Timed, Connecting
  <2> QED
    BY <1>10, <2>1 DEF DisconnectTruth
<1>15. ASSUME StopTruth PROVE StopTruth'
  <2>1. "DISCONNECTED" \notin Timed /\ "CONNECTED" \notin Timed /\ "CLOSING" \notin Timed
    BY DEF Timed, Connecting
  <2>2. CASE wifiState = "DISCONNECTED" /\ Single(wifiEvents) /\ Waits(wifiEvents, {"STOP"})
    BY <1>11, <2>1, <2>2 DEF StopTruth
  <2>3. CASE /\ wifiState = "DISCONNECTING" /\ Single(wifiEvents) /\ Waits(wifiEvents, {"STOP"})
             /\ TimedOnce
    BY <1>7, <1>12, <2>3 DEF StopTruth
  <2>4. CASE /\ wifiState = "CLOSING" /\ Single(wifiEvents)
             /\ Waits(wifiEvents, {"STOP_SOCKET_CLOSED"})
             /\ None(wifiEvents, Own \ Turn) /\ None(wifiEvents, Turn \ Tokens)
    <3>1. Single(wifiEvents') /\ Waits(wifiEvents', {"STOP_SOCKET_CLOSED"})
      BY <1>11, <2>1, <2>4
    <3>2. event \notin Own \ Turn /\ event \notin Turn \ Tokens
      BY <1>2, <2>1, <2>4
    <3>3. None(wifiEvents', Own \ Turn) /\ None(wifiEvents', Turn \ Tokens)
      BY <1>3, <2>4, <3>2
    <3> QED
      BY <2>4, <3>1, <3>3 DEF StopTruth
  <2>5. CASE /\ wifiState = "CONNECTED" /\ Fresh(wifiEvents)
             /\ Waits(wifiEvents, {"STOP", "STOP_SOCKET_CLOSED"})
    BY <1>10, <2>1, <2>5 DEF StopTruth
  <2> QED
    BY <1>15, <2>2, <2>3, <2>4, <2>5 DEF StopTruth
<1>16. ASSUME Pending PROVE Pending'
  <2>1. None(wifiEvents', Ops \ OpsOf(wifiCall))
    BY <1>2, <1>3, <1>16, PendingWhere
  <2> QED
    BY <1>13, <1>14, <1>15, <1>16, <2>1 DEF Pending
<1>17. ASSUME ~wifiBusy PROVE Fresh(wifiEvents')
  <2>1. wifiState \notin Timed /\ Fresh(wifiEvents)
    BY <1>17 DEF RunInv, CallsInv, TruthInv, Rests, Timed, Connecting
  <2> QED
    BY <1>6, <2>1
<1> QED
  BY <1>16, <1>17 DEF TruthInv

(* The chip reports an error.                                              *)
LEMMA ErrorTruth ==
  ASSUME WifiQueueSize > 7, TcpQueueSize > MaxFaults + 1, TcpQueueSize > 1,
         RunInv, OpeningInv, TruthInv, ErrorNotice
  PROVE  TruthInv'
<1>1. /\ wifiState # "STOPPED" /\ faults < MaxFaults /\ faults' = faults + 1
      /\ wifiEvents' = WifiAdd(wifiEvents, "ERROR")
      /\ UNCHANGED <<wifiState, wifiError, wifiBusy, wifiCall, wifiTimer>>
      /\ UNCHANGED tcpVars /\ UNCHANGED udpVars
  BY DEF ErrorNotice
<1>2. faults' \in 0..MaxFaults
  BY <1>1 DEF RunInv, WifiTypeOK
<1>3. Joins(wifiEvents, "ERROR")
  BY WhatJoins
<1> QED
  BY <1>1, <1>2, <1>3, ArrivalTruth

(* The access point answers, or is lost.                                   *)
LEMMA NoticeTruth ==
  ASSUME WifiQueueSize > 7, TcpQueueSize > MaxFaults + 1, TcpQueueSize > 1,
         RunInv, OpeningInv, TruthInv, NEW event \in Notices, Notice(event)
  PROVE  TruthInv'
<1>1. /\ faults' = faults /\ wifiEvents' = WifiAdd(wifiEvents, event)
      /\ UNCHANGED <<wifiState, wifiError, wifiBusy, wifiCall, wifiTimer>>
      /\ UNCHANGED tcpVars /\ UNCHANGED udpVars
      /\ event = "CONNECTED" => link = "JOINING"
      /\ event = "IP_ACQUIRED" => link = "JOINED"
      /\ event = "DISCONNECTED" => link # "DOWN"
      /\ link # "DOWN" /\ event # "TIMEOUT"
      /\ event \in {"CONNECTED", "IP_ACQUIRED", "DISCONNECTED"}
  BY DEF Notice, Notices
<1>2. faults' \in 0..MaxFaults /\ wifiState \in WifiStates
  BY <1>1 DEF RunInv, WifiTypeOK
<1>3. /\ wifiState \notin {"STOPPED", "DISCONNECTED"}
      /\ wifiState \in {"CONNECTED", "CLOSING", "DISCONNECTING"} \cup Exchanges => link \in {"UP", "DOWN"}
      /\ wifiState = "ACQUIRING_IP" => link # "JOINING"
      /\ event = "CONNECTED" => None(wifiEvents, {"CONNECTED"})
      /\ event = "IP_ACQUIRED" => None(wifiEvents, {"IP_ACQUIRED"})
      /\ event = "DISCONNECTED" => None(wifiEvents, {"DISCONNECTED"})
  BY <1>1 DEF RunInv, LinkInv
<1>4. event # "CONNECTED" => Joins(wifiEvents, event)
  BY <1>1, <1>3, WhatJoins
<1>5. event = "CONNECTED" /\ None(wifiEvents, {"ACQUIRING_IP"}) => Joins(wifiEvents, event)
  <2>1. None(wifiEvents, {"CONNECTED"}) /\ None(wifiEvents, {"ACQUIRING_IP"}) =>
          None(wifiEvents, Joined)
    BY DEF None, Joined
  <2> QED
    BY <1>3, <2>1, WhatJoins DEF Joined
<1>6. CASE wifiState # "RESET"
  <2>1. event = "CONNECTED" => wifiState = "CONNECTING_TO_AP"
    BY <1>1, <1>2, <1>3, <1>6 DEF WifiStates, Connecting
  <2>2. wifiState \notin Timed => Joins(wifiEvents, event)
    BY <1>4, <2>1 DEF Timed, Connecting
  <2> QED
    BY <1>1, <1>2, <1>3, <1>4, <1>5, <2>1, <2>2, ArrivalTruth
<1>7. CASE wifiState = "RESET"
  <2>1. wifiBusy /\ wifiBusy' = wifiBusy
    BY <1>1, <1>7 DEF RunInv, WifiTypeOK, CallsInv, Rests
  <2> SUFFICES ASSUME Pending PROVE Pending'
    BY <1>1, <2>1, GoesOn
  <2>2. wifiCall \notin {"SEND", "SEND_TO", "DISCONNECT", "STOP"}
    BY <1>7, PendingWhere DEF Connecting
  <2>3. None(wifiEvents', Ops \ OpsOf(wifiCall))
    <3>1. event \in WifiTypes /\ event \notin Ops
      BY <1>1 DEF WifiTypes, Notices, Ops, Calls, Starts, Exchanges
    <3>2. wifiEvents \in Seq(WifiTypes) /\ Len(wifiEvents) <= WifiQueueSize
      BY DEF RunInv, WifiTypeOK
    <3> QED
      BY <1>1, <3>1, <3>2, PendingWhere, AddTruth
  <2> QED
    BY <1>1, <2>2, <2>3 DEF Pending
<1> QED
  BY <1>6, <1>7

(* A second passes; a timer is stopped when its TIMEOUT is added.          *)
LEMMA SecondTruth ==
  ASSUME WifiQueueSize > 7, TcpQueueSize > MaxFaults + 1, TcpQueueSize > 1,
         RunInv, OpeningInv, TruthInv, WifiSecond
  PROVE  TruthInv'
<1>1. /\ wifiTimer' = IF wifiTimer > 0 THEN wifiTimer - 1 ELSE 0
      /\ wifiEvents' = IF wifiTimer = 1 THEN WifiAdd(wifiEvents, "TIMEOUT") ELSE wifiEvents
      /\ TcpSecond /\ UdpSecond /\ faults' = faults
      /\ UNCHANGED <<wifiState, wifiError, wifiBusy, wifiCall>>
  BY DEF WifiSecond
<1>2. faults' \in 0..MaxFaults /\ wifiTimer \in Nat
  BY <1>1 DEF RunInv, WifiTypeOK
<1>3. CASE wifiTimer # 1
  <2>1. wifiTimer' > 0 => wifiTimer > 0
    BY <1>1, <1>2
  <2> QED
    BY <1>1, <1>2, <1>3, <2>1, QuietStepTruth
<1>4. CASE wifiTimer = 1
  <2>1. wifiTimer > 0 /\ ~(wifiTimer' > 0) /\ wifiEvents' = WifiAdd(wifiEvents, "TIMEOUT")
    BY <1>1, <1>4
  <2>2. wifiState \in Timed /\ wifiState # "STOPPED"
    BY <2>1 DEF RunInv, AliveInv, Timed, Connecting
  <2>3. TimedOnce => Joins(wifiEvents, "TIMEOUT")
    BY <2>1, WhatJoins DEF TimedOnce
  <2> QED
    BY <1>1, <1>2, <2>1, <2>2, <2>3, ArrivalTruth
<1> QED
  BY <1>3, <1>4

-------------------------------------------------------------------------------
(* So every step keeps the invariant.                                      *)
LEMMA TruthKept ==
  ASSUME WifiQueueSize > 7, TcpQueueSize > MaxFaults + 1, TcpQueueSize > 1,
         RunInv, OpeningInv, TruthInv, [WifiNext]_wifiVars
  PROVE  TruthInv'
<1>1. CASE UNCHANGED wifiVars
  <2>1. /\ UNCHANGED <<wifiEvents, wifiState, wifiError, wifiBusy, wifiCall, wifiTimer>>
        /\ faults' = faults /\ UNCHANGED tcpVars /\ UNCHANGED udpVars
    BY <1>1 DEF wifiVars, wifiOnly
  <2>2. faults' \in 0..MaxFaults
    BY <2>1 DEF RunInv, WifiTypeOK
  <2> QED
    BY <2>1, <2>2, QuietStepTruth
<1>2. ASSUME NEW operation \in Operations, WifiCall(operation) PROVE TruthInv'
  <2>1. operation \in Calls
    OBVIOUS
  <2> QED
    BY <1>2, <2>1, CallTruth
<1>3. CASE WifiReturns
  BY <1>3, ReturnTruth
<1>4. CASE WifiProcess
  BY <1>4, StartWifiTruth, StopWifiTruth, SsidMissingTruth, ConnectTruth, RetainWifiTruth,
     ApConnectedTruth, IpAcquiredTruth, LinkLostTruth, StartExchangeTruth, ExchangeDoneTruth,
     CloseSocketTruth, StopConnectedTruth, DisconnectCalledTruth, DisconnectedTruth,
     RunExchangeTruth, RunClosingTruth, ResetTruth, ClosingDoneTruth, UnhandledTruth
  DEF WifiProcess
<1>5. CASE WifiSecond
  BY <1>5, SecondTruth
<1>6. CASE ErrorNotice
  BY <1>6, ErrorTruth
<1>7. CASE SocketNotice
  BY <1>7, SocketNoticeTruth
<1>8. ASSUME NEW event \in Notices, Notice(event) PROVE TruthInv'
  BY <1>8, NoticeTruth
<1> QED
  BY <1>1, <1>2, <1>3, <1>4, <1>5, <1>6, <1>7, <1>8 DEF WifiNext

(* It holds at first.                                                      *)
LEMMA TruthStart == WifiInit => TruthInv
<1> SUFFICES ASSUME WifiInit PROVE TruthInv
  OBVIOUS
<1>1. wifiEvents = <<>> /\ wifiState = "STOPPED" /\ wifiCall = "STOP"
  BY DEF WifiInit
<1>2. \A T : None(wifiEvents, T)
  BY <1>1, Singles DEF None
<1>3. Fresh(wifiEvents)
  BY <1>2, NoneAtMostOne DEF Fresh, Single
<1> QED
  BY <1>1, <1>2, <1>3 DEF TruthInv, Pending, StopTruth

(* At rest nothing waits any more, so it is done.                          *)
LEMMA RestIsTrue == RunInv /\ TruthInv => Truthful
<1> SUFFICES ASSUME RunInv, TruthInv, AtRest, wifiError = "NONE"
             PROVE  /\ wifiCall = "SEND" => accepted
                    /\ wifiCall = "SEND_TO" => udpAccepted
                    /\ wifiCall = "DISCONNECT" => wifiState \in {"DISCONNECTED", "STOPPED"}
                    /\ wifiCall = "STOP" => wifiState = "STOPPED"
  BY DEF Truthful
<1>1. wifiState \in {"STOPPED", "DISCONNECTED", "CONNECTED"}
  BY EmptyRests DEF AtRest, Rests
<1>2. \A T : None(wifiEvents, T) /\ ~Waits(wifiEvents, T)
  BY Singles DEF AtRest, None, Waits
<1>3. Pending
  BY DEF TruthInv
<1> QED
  BY <1>1, <1>2, <1>3 DEF Pending, SendTruth, DisconnectTruth, StopTruth, Taken

(* An operation that ends without an error has done what it was called     *)
(* for, whatever the chip, the access point and the clock do in between:   *)
(* what was called, or what stands for it, waits in the queue as long as   *)
(* it is not done, unless something has failed.  Of the events that a      *)
(* machine adds for itself and the notices of one connection at most one   *)
(* of a kind waits, so a queue that is longer than there are kinds pushes  *)
(* none out but after an error, and in TCP's and UDP's queues the data are *)
(* not pushed out by closed sockets.                                       *)
THEOREM ResultsAreTrue ==
  ASSUME WifiQueueSize > MaxFaults + 4, WifiQueueSize > 7, TcpQueueSize > MaxFaults + 1
  PROVE  WifiSpec => []Truthful
<1>0. TcpQueueSize > 1
  BY TcpAssumption
<1>1. WifiSpec => []RunInv
  BY AlwaysRunInv
<1>2. WifiSpec => []TypesInv
  BY AlwaysTyped
<1>3. WifiInit => OpeningInv /\ TruthInv
  BY <1>0, OpeningStart, TruthStart
<1>4. /\ RunInv /\ TypesInv /\ OpeningInv /\ TruthInv /\ [WifiNext]_wifiVars
      => OpeningInv' /\ TruthInv'
  BY <1>0, OpeningStep, TruthKept
<1>5. RunInv /\ TruthInv => Truthful
  BY RestIsTrue
<1> QED
  BY <1>1, <1>2, <1>3, <1>4, <1>5, PTL DEF WifiSpec
===============================================================================
