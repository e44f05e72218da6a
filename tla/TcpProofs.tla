------------------------------- MODULE TcpProofs -------------------------------
(***************************************************************************)
(* The TCP machine has its types and is consistent, whatever calls it and  *)
(* whenever the clock ticks, a socket is closed or the chip is stopped.    *)
(***************************************************************************)
EXTENDS Tcp, Functions, TLAPS

TcpInv == TcpTypeOK /\ TcpConsistent

USE TcpAssumption

(* add_tcp_communication_module_event_type keeps a queue a queue.          *)
LEMMA TcpAddType ==
  ASSUME NEW queue \in Seq(TcpTypes), NEW event \in TcpTypes
  PROVE  TcpAdd(queue, event) \in Seq(TcpTypes)
<1>1. Append(queue, event) \in Seq(TcpTypes)
  OBVIOUS
<1>2. ~(Len(queue) < TcpQueueSize) => queue # <<>>
  OBVIOUS
<1>3. queue # <<>> => Append(Tail(queue), event) \in Seq(TcpTypes)
  OBVIOUS
<1>4. <<"SEND", event>> \in Seq(TcpTypes)
  BY DEF TcpTypes, TcpCalls
<1> QED
  BY <1>1, <1>2, <1>3, <1>4 DEF TcpAdd, Put

(* What is popped, and what is left, are TCP's events.                     *)
LEMMA TcpPopType ==
  ASSUME TcpTypeOK, tcpEvents # <<>>
  PROVE  Tail(tcpEvents) \in Seq(TcpTypes) /\ Head(tcpEvents) \in TcpTypes
BY DEF TcpTypeOK

(* So is what a clearing in the middle of an interrupt leaves.             *)
LEMMA ClearedType ==
  ASSUME ClearTcpEvents
  PROVE  tcpEvents' \in Seq(TcpTypes)
<1>1. \A event \in TcpTypes : <<event>> \in Seq(TcpTypes)
  OBVIOUS
<1>2. /\ <<>> \in Seq(TcpTypes) /\ <<"TIMEOUT">> \in Seq(TcpTypes)
      /\ <<"SEND">> \in Seq(TcpTypes) /\ <<"GHOST">> \in Seq(TcpTypes)
  BY <1>1 DEF TcpTypes, TcpCalls
<1> QED
  BY <1>2 DEF ClearTcpEvents, Ghost

(* TCP's types and consistency, kept by each of its steps.                 *)
LEMMA TcpStep == TcpInv /\ [TcpNext]_tcpVars => TcpInv'
<1> SUFFICES ASSUME TcpInv, [TcpNext]_tcpVars PROVE TcpInv'
  OBVIOUS
<1> USE DEF TcpInv, TcpConsistent, Connected
<1>1. CASE UNCHANGED tcpVars
  BY <1>1 DEF tcpVars, TcpTypeOK
<1>2. ASSUME NEW operation \in TcpCalls, CallTcp(operation) PROVE TcpInv'
  BY <1>2, TcpAddType DEF CallTcp, TcpTypeOK, TcpTypes, TcpErrors
<1>3. CASE TcpSecond
  <2>1. tcpEvents' \in Seq(TcpTypes)
    BY <1>3, TcpAddType DEF TcpSecond, TcpTypeOK, TcpTypes
  <2>2. tcpTimer' \in 0..ReceiveTimeout /\ (tcpTimer' > 0 => tcpTimer > 0)
    BY <1>3 DEF TcpSecond, TcpTypeOK
  <2> QED
    BY <1>3, <2>1, <2>2 DEF TcpSecond, TcpTypeOK
<1>4. CASE SocketClosed
  BY <1>4, TcpAddType DEF SocketClosed, TcpTypeOK, TcpTypes
<1>5. CASE ChipStopped
  BY <1>5 DEF ChipStopped, TcpTypeOK
<1>6. CASE ParametersMissing
  BY <1>6, TcpPopType DEF ParametersMissing, TcpPop, SetTcpError, TcpTypeOK, TcpErrors
<1>7. CASE StartOpening
  <2>1. tcpEvents' \in Seq(TcpTypes)
    BY <1>7, TcpPopType, TcpAddType DEF StartOpening, TcpPop, TcpTypes
  <2>2. tcpState' = "OPENING" /\ tcpTimer' = tcpTimer /\ tcpRetries' = 0
    BY <1>7 DEF StartOpening, TcpPop, TcpTransition
  <2>3. ~(tcpTimer > 0)
    BY <1>7 DEF StartOpening, TcpPop
  <2> QED
    BY <1>7, <2>1, <2>2, <2>3 DEF StartOpening, TcpTypeOK, TcpStates
<1>8. CASE OpenSocket
  <2>1. tcpEvents' \in Seq(TcpTypes)
    <3>1. tcpEvents' \in {<<>>, Tail(tcpEvents), TcpAdd(Tail(tcpEvents), "OPEN_SOCKET")}
      BY <1>8 DEF OpenSocket
    <3>2. Tail(tcpEvents) \in Seq(TcpTypes)
      BY <1>8, TcpPopType DEF OpenSocket, TcpPop
    <3>3. TcpAdd(Tail(tcpEvents), "OPEN_SOCKET") \in Seq(TcpTypes)
      BY <3>2, TcpAddType DEF TcpTypes
    <3>4. <<>> \in Seq(TcpTypes)
      OBVIOUS
    <3> QED
      BY <3>1, <3>2, <3>3, <3>4
  <2>2. tcpTimer' = tcpTimer /\ ~(tcpTimer > 0) /\ accepted' = accepted
        /\ tcpState = "OPENING" /\ tcpRetries < OpenSocketRetries
    BY <1>8 DEF OpenSocket, TcpPop, TcpTransition
  <2>3. tcpError' \in TcpErrors
    BY <1>8 DEF OpenSocket, SetTcpError, TcpTypeOK, TcpErrors
  <2>4. CASE OpensSocket /\ tcpState' = "OPENED" /\ tcpRetries' = tcpRetries
    BY <2>1, <2>2, <2>3, <2>4 DEF OpensSocket, TcpTypeOK, TcpStates
  <2>5. CASE OpenFails /\ tcpRetries' = tcpRetries + 1
             /\ IF tcpRetries' = OpenSocketRetries THEN tcpState' = "CLOSED"
                                                   ELSE tcpState' = tcpState
    <3>1. tcpRetries' \in 0..OpenSocketRetries
          /\ (tcpState' = "OPENING" => tcpRetries' < OpenSocketRetries)
      BY <2>2, <2>5 DEF TcpTypeOK
    <3>2. tcpState' \in {"CLOSED", "OPENING"} /\ held' = "NONE"
          /\ tcpSockets' \in 0..MaxSockets
      BY <2>2, <2>5 DEF OpenFails
    <3> QED
      BY <2>1, <2>2, <2>3, <3>1, <3>2 DEF TcpTypeOK, TcpStates
  <2> QED
    BY <1>8, <2>4, <2>5 DEF OpenSocket, TcpTransition
<1>9. CASE Retain
  BY <1>9, TcpPopType, TcpAddType DEF Retain, TcpPop, TcpTypeOK
<1>10. CASE Send
  <2>1. tcpEvents' \in Seq(TcpTypes) /\ tcpError' \in TcpErrors /\ accepted' \in BOOLEAN
    <3>1. tcpEvents' \in {<<>>, Tail(tcpEvents)}
      BY <1>10 DEF Send
    <3>2. <<>> \in Seq(TcpTypes) /\ Tail(tcpEvents) \in Seq(TcpTypes)
      BY <1>10, TcpPopType DEF Send, TcpPop
    <3>3. tcpError' \in TcpErrors /\ accepted' \in BOOLEAN
      BY <1>10 DEF Send, SetTcpError, TcpTypeOK, TcpErrors
    <3> QED
      BY <3>1, <3>2, <3>3
  <2>2. tcpTimer' = 0 /\ tcpRetries' = tcpRetries
    BY <1>10 DEF Send, TcpPop, TcpTransition, TcpTypeOK
  <2>3. /\ held' \in {"NONE", "LIVE", "GONE"} /\ tcpSockets' \in 0..MaxSockets
        /\ held' = "LIVE" => tcpSockets' > 0
        /\ tcpState' = "CLOSED" \/ (tcpState' = "OPENED" /\ held' # "NONE")
    BY <1>10 DEF Send, TcpPop, ClosesSocket, CloseFails, TcpTransition, TcpTypeOK
  <2> QED
    BY <2>1, <2>2, <2>3 DEF TcpTypeOK, TcpStates
<1>11. CASE StartReceive
  <2>1. tcpEvents' \in Seq(TcpTypes)
    BY <1>11, TcpPopType, TcpAddType DEF StartReceive, TcpPop, TcpTypes, TcpCalls
  <2>2. tcpTimer' \in 0..ReceiveTimeout
    BY <1>11 DEF StartReceive
  <2> QED
    BY <1>11, <2>1, <2>2 DEF StartReceive, TcpPop, TcpTypeOK, TcpStates
<1>12. CASE Receive
  <2>1. tcpEvents' \in Seq(TcpTypes)
    BY <1>12, TcpPopType, TcpAddType, ClearedType
    DEF Receive, TcpPop, TcpTypes, TcpCalls
  <2> QED
    BY <1>12, <2>1
    DEF Receive, TcpPop, TcpTransition, SetTcpError, TcpTypeOK, TcpStates, TcpErrors
<1>13. CASE ReceiveTimedOut
  BY <1>13 DEF ReceiveTimedOut, TcpPop, TcpTransition, TcpTypeOK, TcpStates
<1>14. CASE ClosedByPeer
  BY <1>14, ClearedType
  DEF ClosedByPeer, TcpPop, TcpTransition, SetTcpError, TcpTypeOK, TcpStates, TcpErrors
<1>15. CASE CloseSocket
  <2>1. tcpEvents' \in Seq(TcpTypes) /\ tcpError' \in TcpErrors
    <3>1. tcpEvents' \in {<<>>, Tail(tcpEvents)}
      BY <1>15 DEF CloseSocket, EnterClosing
    <3>2. <<>> \in Seq(TcpTypes) /\ Tail(tcpEvents) \in Seq(TcpTypes)
      BY <1>15, TcpPopType DEF CloseSocket, TcpPop
    <3>3. tcpError' \in TcpErrors
      BY <1>15 DEF CloseSocket, EnterClosing, SetTcpError, TcpTypeOK, TcpErrors
    <3> QED
      BY <3>1, <3>2, <3>3
  <2>2. tcpTimer' = 0 /\ tcpRetries' = tcpRetries /\ tcpState' = "CLOSED"
    BY <1>15 DEF CloseSocket, EnterClosing, TcpPop, TcpTransition, TcpTypeOK
  <2>3. /\ held' \in {"NONE", "LIVE", "GONE"} /\ tcpSockets' \in 0..MaxSockets
        /\ held' = "LIVE" => tcpSockets' > 0
    BY <1>15 DEF CloseSocket, EnterClosing, ClosesSocket, CloseFails, TcpTypeOK
  <2> QED
    BY <1>15, <2>1, <2>2, <2>3 DEF CloseSocket, TcpTypeOK, TcpStates
<1>16. CASE TcpUnhandled
  BY <1>16, TcpPopType DEF TcpUnhandled, TcpPop, TcpTypeOK
<1> QED
  BY <1>1, <1>2, <1>3, <1>4, <1>5, <1>6, <1>7, <1>8, <1>9, <1>10, <1>11, <1>12,
     <1>13, <1>14, <1>15, <1>16
  DEF TcpNext, TcpProcess

(* They hold at first.                                                     *)
LEMMA TcpStart == TcpInit => TcpInv
<1> SUFFICES ASSUME TcpInit PROVE TcpInv
  OBVIOUS
<1>1. tcpEvents \in Seq(TcpTypes)
  BY DEF TcpInit
<1>2. 0 \in 0..OpenSocketRetries /\ 0 \in 0..ReceiveTimeout /\ 0 \in 0..MaxSockets
  OBVIOUS
<1>3. TcpTypeOK
  BY <1>1, <1>2 DEF TcpInit, TcpTypeOK, TcpStates, TcpErrors
<1>4. TcpConsistent
  BY DEF TcpInit, TcpConsistent, Connected
<1> QED
  BY <1>3, <1>4 DEF TcpInv

(* Every variable of the TCP machine keeps its type.                       *)
THEOREM TcpTypeCorrect == TcpSpec => []TcpTypeOK
<1>1. TcpInv => TcpTypeOK
  BY DEF TcpInv
<1> QED
  BY TcpStart, TcpStep, <1>1, PTL DEF TcpSpec

(* Under any sequence of calls, ticks and notices the receive timer runs   *)
(* in RECEIVE only, and only a machine that has opened a socket sends or   *)
(* receives.                                                               *)
THEOREM TcpIsConsistent == TcpSpec => []TcpConsistent
<1>1. TcpInv => TcpConsistent
  BY DEF TcpInv
<1> QED
  BY TcpStart, TcpStep, <1>1, PTL DEF TcpSpec
-------------------------------------------------------------------------------
(***************************************************************************)
(* What a machine that is left alone may still do.  Quiet: it is not       *)
(* receiving and will not.  Warm: nothing is hidden in its queue either.   *)
(* Cold: nor will it open a socket.  Live: while it receives there is an   *)
(* event it does not ignore, so that it is not idle.                       *)
(***************************************************************************)
None(queue, types) == \A type \in types : type \notin Range(queue)

QuietOf(state, queue) == state # "RECEIVE" /\ None(queue, {"RECEIVE"})
WarmOf(state, queue)  == state # "RECEIVE" /\ None(queue, {"RECEIVE", "GHOST"})
ColdOf(state, queue)  ==
  state # "RECEIVE" /\ None(queue, {"SEND", "RECEIVE", "OPEN_SOCKET", "GHOST"})
LiveOf(state, queue)  ==
  /\ state = "RECEIVE" => \E event \in Range(queue) : event \notin {"OPEN_SOCKET", "GHOST"}
  /\ queue = <<"GHOST">> \/ None(queue, {"GHOST"})

TcpQuiet == QuietOf(tcpState, tcpEvents)
TcpWarm  == WarmOf(tcpState, tcpEvents)
TcpCold  == ColdOf(tcpState, tcpEvents)
TcpLive  == LiveOf(tcpState, tcpEvents)

TcpKeeps ==
  /\ TcpLive' /\ (TcpQuiet => TcpQuiet') /\ (TcpWarm => TcpWarm')
  /\ TcpCold => TcpCold' /\ tcpSockets' <= tcpSockets

(* What is in the queue after an event was added.                          *)
LEMMA TcpAddRange ==
  ASSUME NEW queue \in Seq(TcpTypes), NEW event \in TcpTypes,
         queue = Ghost \/ None(queue, {"GHOST"})
  PROVE  LET added == Range(TcpAdd(queue, event)) IN
         /\ event \in added
         /\ queue # Ghost => added \subseteq Range(queue) \cup {event}
         /\ queue = Ghost => added = {"SEND", event}
<1>1. CASE queue = Ghost
  <2>1. TcpAdd(queue, event) = <<"SEND", event>>
    BY <1>1 DEF TcpAdd
  <2>2. DOMAIN <<"SEND", event>> = {1, 2}
    OBVIOUS
  <2> QED
    BY <1>1, <2>1, <2>2 DEF Range
<1>2. CASE queue # Ghost /\ Len(queue) < TcpQueueSize
  <2>1. TcpAdd(queue, event) = Append(queue, event)
    BY <1>2 DEF TcpAdd, Put
  <2>2. /\ DOMAIN Append(queue, event) = 1..(Len(queue) + 1)
        /\ Append(queue, event)[Len(queue) + 1] = event
        /\ \A i \in 1..Len(queue) : i \in DOMAIN queue /\ Append(queue, event)[i] = queue[i]
    OBVIOUS
  <2>3. Len(queue) + 1 \in 1..(Len(queue) + 1)
    OBVIOUS
  <2>4. \A i \in 1..(Len(queue) + 1) : i \in 1..Len(queue) \/ i = Len(queue) + 1
    OBVIOUS
  <2> QED
    BY <1>2, <2>1, <2>2, <2>3, <2>4 DEF Range
<1>3. CASE queue # Ghost /\ ~(Len(queue) < TcpQueueSize)
  <2>1. TcpAdd(queue, event) = Append(Tail(queue), event) /\ queue # <<>>
    BY <1>3 DEF TcpAdd, Put
  <2>2. /\ DOMAIN Append(Tail(queue), event) = 1..Len(queue)
        /\ Append(Tail(queue), event)[Len(queue)] = event
        /\ \A i \in 1..(Len(queue) - 1) :
             i + 1 \in DOMAIN queue /\ Append(Tail(queue), event)[i] = queue[i + 1]
    BY <2>1
  <2>3. Len(queue) \in 1..Len(queue)
    BY <2>1
  <2>4. \A i \in 1..Len(queue) : i \in 1..(Len(queue) - 1) \/ i = Len(queue)
    OBVIOUS
  <2> QED
    BY <1>3, <2>1, <2>2, <2>3, <2>4 DEF Range
<1> QED
  BY <1>1, <1>2, <1>3

(* What pop_event leaves in the queue.                                     *)
LEMMA TcpTailRange ==
  ASSUME TcpTypeOK, tcpEvents # <<>>
  PROVE  /\ Range(Tail(tcpEvents)) \subseteq Range(tcpEvents)
         /\ Range(tcpEvents) \subseteq Range(Tail(tcpEvents)) \cup {Head(tcpEvents)}
         /\ Head(tcpEvents) \in Range(tcpEvents)
<1>1. /\ tcpEvents \in Seq(TcpTypes) /\ Len(tcpEvents) \in Nat \ {0}
      /\ DOMAIN tcpEvents = 1..Len(tcpEvents) /\ Head(tcpEvents) = tcpEvents[1]
  BY DEF TcpTypeOK
<1>2. /\ DOMAIN Tail(tcpEvents) = 1..(Len(tcpEvents) - 1)
      /\ \A i \in 1..(Len(tcpEvents) - 1) : Tail(tcpEvents)[i] = tcpEvents[i + 1]
  BY <1>1
<1>3. \A i \in 1..Len(tcpEvents) : i = 1 \/ (i - 1 \in 1..(Len(tcpEvents) - 1) /\ (i - 1) + 1 = i)
  BY <1>1
<1>4. \A i \in 1..(Len(tcpEvents) - 1) : i + 1 \in 1..Len(tcpEvents)
  BY <1>1
<1>5. 1 \in 1..Len(tcpEvents)
  BY <1>1
<1>6. ASSUME NEW i \in 1..Len(tcpEvents)
      PROVE  tcpEvents[i] \in Range(Tail(tcpEvents)) \cup {Head(tcpEvents)}
  <2>1. CASE i = 1
    BY <1>1, <2>1
  <2>2. CASE i # 1
    <3>1. i - 1 \in DOMAIN Tail(tcpEvents) /\ tcpEvents[i] = Tail(tcpEvents)[i - 1]
      BY <1>2, <1>3, <2>2
    <3> QED
      BY <3>1 DEF Range
  <2> QED
    BY <2>1, <2>2
<1> QED
  BY <1>1, <1>2, <1>4, <1>5, <1>6 DEF Range

(* What is in an empty queue, and in one of one event.                     *)
LEMMA Singles ==
  ASSUME NEW a
  PROVE  Range(<<>>) = {} /\ Range(<<a>>) = {a}
<1>1. DOMAIN <<a>> = {1} /\ <<a>>[1] = a
  OBVIOUS
<1> QED
  BY <1>1 DEF Range

(* A step of the machine, the clock and the chip keep a quiet machine      *)
(* quiet, a warm one warm and a cold one cold, without a new socket.       *)
LEMMA TcpProcessKeeps ==
  ASSUME TcpInv, TcpLive, TcpProcess
  PROVE  TcpKeeps
<1> USE DEF TcpKeeps, TcpQuiet, TcpWarm, TcpCold, TcpLive, QuietOf, WarmOf, ColdOf, LiveOf,
            None
<1> DEFINE now   == Range(tcpEvents)
           rest  == Range(Tail(tcpEvents))
           h     == Head(tcpEvents)
<1>1. tcpEvents # <<>> /\ tcpEvents # Ghost
  <2>1. tcpEvents # <<>> /\ h # "GHOST"
    BY DEF TcpProcess, ParametersMissing, StartOpening, OpenSocket, Retain, Send,
           StartReceive, Receive, ReceiveTimedOut, ClosedByPeer, CloseSocket,
           TcpUnhandled, TcpPop, TcpIgnores, TcpStates, Connected
  <2>2. Head(Ghost) = "GHOST"
    BY DEF Ghost
  <2> QED
    BY <2>1, <2>2
<1>2. /\ rest \subseteq now /\ now \subseteq rest \cup {h} /\ h \in now
      /\ Tail(tcpEvents) \in Seq(TcpTypes) /\ h \in TcpTypes
  BY <1>1, TcpTailRange, TcpPopType DEF TcpInv
<1>3. "GHOST" \notin now /\ "GHOST" \notin rest
  BY <1>1, <1>2 DEF Ghost
<1>4. Tail(tcpEvents) # Ghost
  <2>1. Range(Ghost) = {"GHOST"}
    BY Singles DEF Ghost
  <2> QED
    BY <1>3, <2>1
<1>5. ASSUME NEW event \in TcpTypes \ {"GHOST"}
      PROVE  LET added == Range(TcpAdd(Tail(tcpEvents), event)) IN
             /\ event \in added /\ added \subseteq rest \cup {event}
             /\ "GHOST" \notin added
             /\ TcpAdd(Tail(tcpEvents), event) \in Seq(TcpTypes)
  <2>1. event \in TcpTypes /\ None(Tail(tcpEvents), {"GHOST"})
    BY <1>3
  <2> QED
    <3> DEFINE added == Range(TcpAdd(Tail(tcpEvents), event))
    <3>1. event \in added /\ added \subseteq rest \cup {event}
      BY <1>2, <1>4, <2>1, TcpAddRange
    <3>2. TcpAdd(Tail(tcpEvents), event) \in Seq(TcpTypes)
      BY <1>2, <2>1, TcpAddType
    <3> HIDE DEF added
    <3>3. "GHOST" \notin added
      BY <1>3, <3>1
    <3> QED
      BY <3>1, <3>2, <3>3 DEF added
<1>6. /\ Range(<<>>) = {} /\ Range(<<"TIMEOUT">>) = {"TIMEOUT"}
      /\ Range(<<"SEND">>) = {"SEND"}
  BY Singles
<1>7. tcpTimer = 1 => tcpState = "RECEIVE"
  BY DEF TcpInv, TcpConsistent, TcpTypeOK
<1>8. tcpSockets \in Nat
  BY DEF TcpInv, TcpTypeOK
<1>9. \A n \in Nat : n - 1 <= n /\ n <= n
  OBVIOUS
<1> HIDE DEF now, rest, h
<1>10. CASE ParametersMissing \/ TcpUnhandled
  <2>1. /\ tcpEvents' = Tail(tcpEvents) /\ tcpState' = tcpState /\ tcpSockets' = tcpSockets
        /\ tcpState = "RECEIVE" => h = "OPEN_SOCKET"
    BY <1>10 DEF ParametersMissing, TcpUnhandled, TcpPop, TcpIgnores, h
  <2> QED
    BY <1>2, <1>3, <1>8, <1>9, <2>1 DEF now, rest
<1>11. CASE StartOpening
  <2>1. tcpState' = "OPENING" /\ h \in {"SEND", "RECEIVE"}
        /\ tcpEvents' = TcpAdd(TcpAdd(Tail(tcpEvents), h), "OPEN_SOCKET")
    BY <1>11 DEF StartOpening, TcpPop, TcpTransition, h
  <2> DEFINE once == TcpAdd(Tail(tcpEvents), h)
  <2>2. h \in TcpTypes \ {"GHOST"} /\ "OPEN_SOCKET" \in TcpTypes
    BY <1>2, <2>1 DEF TcpTypes
  <2>3. once \in Seq(TcpTypes) /\ Range(once) \subseteq rest \cup {h} /\ "GHOST" \notin Range(once)
    BY <1>5, <2>2
  <2>4. once # Ghost
    <3>1. Range(Ghost) = {"GHOST"}
      BY Singles DEF Ghost
    <3> QED
      BY <2>3, <3>1
  <2> HIDE DEF once
  <2>5. Range(TcpAdd(once, "OPEN_SOCKET")) \subseteq Range(once) \cup {"OPEN_SOCKET"}
    BY <2>2, <2>3, <2>4, TcpAddRange
  <2>6. Range(tcpEvents') \subseteq now \cup {"OPEN_SOCKET"}
    BY <1>2, <2>1, <2>3, <2>5 DEF once
  <2> QED
    BY <1>2, <1>3, <2>1, <2>6 DEF now
<1>12. CASE OpenSocket
  <2>1. h = "OPEN_SOCKET" /\ tcpState = "OPENING" /\ tcpState' # "RECEIVE"
        /\ tcpEvents' \in {<<>>, Tail(tcpEvents), TcpAdd(Tail(tcpEvents), "OPEN_SOCKET")}
    BY <1>12 DEF OpenSocket, TcpPop, TcpTransition, h
  <2>2. Range(TcpAdd(Tail(tcpEvents), "OPEN_SOCKET")) \subseteq rest \cup {"OPEN_SOCKET"}
    BY <1>5 DEF TcpTypes
  <2>3. Range(tcpEvents') \subseteq now
    BY <1>2, <1>6, <2>1, <2>2 DEF rest
  <2> QED
    BY <1>2, <1>3, <2>1, <2>3 DEF now
<1>13. CASE Retain
  <2>1. /\ tcpEvents' = TcpAdd(Tail(tcpEvents), h) /\ tcpState' = tcpState
        /\ tcpSockets' = tcpSockets /\ tcpState = "OPENING" /\ h \in {"SEND", "RECEIVE"}
    BY <1>13 DEF Retain, TcpPop, h
  <2>2. h \in TcpTypes \ {"GHOST"}
    BY <1>2, <2>1
  <2>3. Range(tcpEvents') \subseteq rest \cup {h}
    BY <1>5, <2>1, <2>2
  <2>4. Range(tcpEvents') \subseteq now
    BY <1>2, <2>3
  <2> QED
    BY <1>2, <1>3, <1>8, <1>9, <2>1, <2>4 DEF now
<1>14. CASE Send \/ CloseSocket
  <2>1. /\ tcpEvents' \in {<<>>, Tail(tcpEvents)} /\ tcpState' # "RECEIVE"
        /\ tcpSockets' \in {tcpSockets, tcpSockets - 1}
    BY <1>14 DEF Send, CloseSocket, EnterClosing, TcpPop, TcpTransition, ClosesSocket,
                 CloseFails
  <2>2. Range(tcpEvents') \subseteq rest
    BY <1>6, <2>1 DEF rest
  <2> QED
    BY <1>2, <1>3, <1>8, <1>9, <2>1, <2>2 DEF now
<1>15. CASE StartReceive
  <2>1. h = "RECEIVE" /\ tcpEvents' = TcpAdd(Tail(tcpEvents), "RECEIVE")
    BY <1>15 DEF StartReceive, TcpPop, h
  <2>2. "RECEIVE" \in Range(tcpEvents') /\ "GHOST" \notin Range(tcpEvents')
    BY <1>5, <2>1 DEF TcpTypes, TcpCalls
  <2> QED
    BY <1>2, <2>1, <2>2 DEF now
<1>16. CASE Receive
  <2>1. /\ h = "RECEIVE"
        /\ \/ tcpEvents' = Tail(tcpEvents) /\ tcpState' = "OPENED"
           \/ tcpEvents' = TcpAdd(Tail(tcpEvents), "RECEIVE")
           \/ ClearTcpEvents /\ tcpState' = "CLOSED"
    BY <1>16 DEF Receive, TcpPop, TcpTransition, h
  <2>2. CASE tcpEvents' = Tail(tcpEvents) /\ tcpState' = "OPENED"
    BY <1>2, <1>3, <2>1, <2>2 DEF now, rest
  <2>3. CASE tcpEvents' = TcpAdd(Tail(tcpEvents), "RECEIVE")
    <3>1. "RECEIVE" \in Range(tcpEvents') /\ "GHOST" \notin Range(tcpEvents')
      BY <1>5, <2>3 DEF TcpTypes, TcpCalls
    <3> QED
      BY <1>2, <2>1, <3>1 DEF now
  <2>4. CASE ClearTcpEvents /\ tcpState' = "CLOSED"
    BY <1>2, <1>6, <2>1, <2>4 DEF ClearTcpEvents, Ghost, now
  <2> QED
    BY <2>1, <2>2, <2>3, <2>4
<1>17. CASE ReceiveTimedOut
  BY <1>6, <1>17 DEF ReceiveTimedOut, TcpPop, TcpTransition
<1>18. CASE ClosedByPeer
  <2>1. ClearTcpEvents /\ tcpState' = "CLOSED" /\ tcpSockets' = tcpSockets
    BY <1>18 DEF ClosedByPeer, TcpTransition
  <2>2. tcpState # "RECEIVE" => tcpEvents' = <<>>
    BY <1>7, <2>1 DEF ClearTcpEvents
  <2>3. tcpEvents' = Ghost \/ "GHOST" \notin Range(tcpEvents')
    BY <1>6, <2>1 DEF ClearTcpEvents
  <2> QED
    BY <1>6, <1>8, <1>9, <2>1, <2>2, <2>3 DEF Ghost
<1> QED
  BY <1>10, <1>11, <1>12, <1>13, <1>14, <1>15, <1>16, <1>17, <1>18 DEF TcpProcess

(* An event that is added from outside keeps a machine as quiet as it was, *)
(* but for a send or a receive.                                            *)
LEMMA TcpAddKeeps ==
  ASSUME TcpInv, TcpLive, NEW event \in TcpTypes \ {"OPEN_SOCKET", "GHOST"},
         tcpEvents' = TcpAdd(tcpEvents, event), tcpState' = tcpState,
         tcpSockets' = tcpSockets
  PROVE  /\ TcpLive'
         /\ event \notin {"SEND", "RECEIVE"} => TcpKeeps
         /\ event = "CLOSE_SOCKET" /\ TcpQuiet => TcpWarm'
<1> USE DEF TcpKeeps, TcpQuiet, TcpWarm, TcpCold, TcpLive, QuietOf, WarmOf, ColdOf, LiveOf,
            None
<1>1. tcpEvents \in Seq(TcpTypes) /\ tcpSockets \in Nat /\ tcpSockets <= tcpSockets
  BY DEF TcpInv, TcpTypeOK
<1>2. tcpEvents = Ghost \/ "GHOST" \notin Range(tcpEvents)
  BY DEF Ghost
<1>3. Range(Ghost) = {"GHOST"}
  BY Singles DEF Ghost
<1>4. /\ event \in Range(tcpEvents')
      /\ tcpEvents # Ghost => Range(tcpEvents') \subseteq Range(tcpEvents) \cup {event}
      /\ tcpEvents = Ghost => Range(tcpEvents') = {"SEND", event}
  BY <1>1, <1>2, TcpAddRange
<1>5. "GHOST" \notin Range(tcpEvents')
  BY <1>2, <1>4
<1>6. TcpLive'
  BY <1>3, <1>4, <1>5
<1>7. ASSUME event \notin {"SEND", "RECEIVE"} PROVE TcpKeeps
  BY <1>1, <1>3, <1>4, <1>6, <1>7
<1>8. ASSUME event = "CLOSE_SOCKET", TcpQuiet PROVE TcpWarm'
  BY <1>3, <1>4, <1>5, <1>8
<1> QED
  BY <1>6, <1>7, <1>8

(* A call to close makes a quiet machine a warm one.                       *)
LEMMA TcpCloseKeeps ==
  ASSUME TcpInv, TcpLive, CallTcp("CLOSE_SOCKET")
  PROVE  TcpKeeps /\ (TcpQuiet => TcpWarm')
BY TcpAddKeeps DEF CallTcp, TcpTypes, TcpCalls

(* Any call leaves the machine live.                                       *)
LEMMA TcpCallLives ==
  ASSUME TcpInv, TcpLive, NEW operation \in TcpCalls, CallTcp(operation)
  PROVE  TcpLive'
<1>1. operation \in TcpTypes \ {"OPEN_SOCKET", "GHOST"}
  BY DEF TcpTypes, TcpCalls
<1> QED
  BY <1>1, TcpAddKeeps DEF CallTcp

(* The clock and the chip.                                                 *)
LEMMA TcpOthersKeep ==
  ASSUME TcpInv, TcpLive,
         TcpSecond \/ SocketClosed \/ ChipStopped \/ UNCHANGED tcpVars
  PROVE  TcpKeeps
<1>1. ASSUME UNCHANGED <<tcpEvents, tcpState>>, tcpSockets' \in {0, tcpSockets}
      PROVE  TcpKeeps
  <2>1. tcpSockets' <= tcpSockets
    BY <1>1 DEF TcpInv, TcpTypeOK
  <2> QED
    BY <1>1, <2>1
    DEF TcpKeeps, TcpLive, TcpQuiet, TcpWarm, TcpCold, QuietOf, WarmOf, ColdOf, LiveOf, None
<1>2. CASE TcpSecond
  <2>1. CASE tcpTimer = 1
    BY <1>2, <2>1, TcpAddKeeps DEF TcpSecond, TcpTypes
  <2>2. CASE tcpTimer # 1
    BY <1>1, <1>2, <2>2 DEF TcpSecond
  <2> QED
    BY <1>2, <2>1, <2>2
<1>3. CASE SocketClosed
  BY <1>3, TcpAddKeeps DEF SocketClosed, TcpTypes
<1>4. CASE ChipStopped
  BY <1>1, <1>4 DEF ChipStopped
<1>5. CASE UNCHANGED tcpVars
  BY <1>1, <1>5 DEF tcpVars
<1> QED
  BY <1>2, <1>3, <1>4, <1>5

(* What an idle machine is.                                                *)
LEMMA TcpIdleMeans ==
  ASSUME TcpIdle, TcpLive
  PROVE  TcpQuiet /\ (TcpWarm => TcpCold)
<1>1. Range(<<>>) = {} /\ Range(Ghost) = {"GHOST"}
  BY Singles DEF Ghost
<1> QED
  BY <1>1 DEF TcpIdle, TcpLive, TcpQuiet, TcpWarm, TcpCold, QuietOf, WarmOf, ColdOf, LiveOf, None
===============================================================================
