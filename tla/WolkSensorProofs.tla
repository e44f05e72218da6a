--------------------------- MODULE WolkSensorProofs ---------------------------
(***************************************************************************)
(* Theorems about the application state machine, for every size of its     *)
(* buffers, every input and any number of interrupts.                      *)
(***************************************************************************)
EXTENDS WolkSensor, EventQueueProofs, SequenceTheorems

USE DEF machine, protocol, buffers, alarms, supply, vars

Phases == {"SEND", "RECEIVE", "DISCONNECT", "STOP"}

-------------------------------------------------------------------------------
(* Parsing commands, from the USB line or from a message, keeps the        *)
(* commands buffer a buffer of commands, whatever has to be discarded.     *)
LEMMA ParsedType ==
  ASSUME TypeOK, NEW string \in Seq(Kinds), NEW from \in {"USB", "SERVER"}
  PROVE  Parsed(string, from) \in Seq(Commands)
<1> DEFINE new  == [i \in DOMAIN string |->
                      [from |-> from, kind |-> string[i],
                       sounding |-> string[i] = "ALARM" /\ sound]]
           list == commands \o new
           a    == IF Len(list) > CommandsSize THEN Len(list) - CommandsSize + 1 ELSE 1
<1>1. new \in Seq(Commands)
  <2>1. DOMAIN string = 1..Len(string) /\ Len(string) \in Nat
    OBVIOUS
  <2>2. \A i \in DOMAIN string : new[i] \in Commands
    BY DEF TypeOK, Commands
  <2>3. new \in [1..Len(string) -> Commands]
    BY <2>1, <2>2
  <2> QED
    BY <2>1, <2>3
<1>2. commands \in Seq(Commands)
  BY DEF TypeOK
<1> HIDE DEF new
<1>3. list \in Seq(Commands) /\ Len(list) \in Nat
  BY <1>1, <1>2
<1> HIDE DEF list
<1>4. a \in 1..(Len(list) + 1)
  BY <1>3, SizesAssumption
<1> HIDE DEF a
<1>5. SubSeq(list, a, Len(list)) \in Seq(Commands)
  <2>1. \A i \in a..Len(list) : list[i] \in Commands
    BY <1>3, <1>4
  <2> QED
    BY <1>3, <1>4, <2>1, SubSeqProperties
<1> QED
  BY <1>5 DEF Parsed, LastCommands, list, new, a

(* Adding one of the application's events. *)
LEMMA AddType ==
  ASSUME NEW queue \in Seq(Events), NEW event \in Events
  PROVE  Add(queue, event) \in Seq(Events)
BY PutType, SizesAssumption DEF Add

(* Entering a child state of DATA_EXCHANGE. *)
LEMMA EnterPhaseType ==
  ASSUME NEW next \in Phases, NEW queue \in Seq(Events), EnterPhase(next, queue)
  PROVE  /\ events' \in Seq(Events) /\ phase' \in Phases
         /\ work' \in 0..MaxWork /\ served' \in BOOLEAN
BY AddType DEF EnterPhase, Events, Phases

(* pop_event leaves a queue of events. *)
LEMMA PopType ==
  ASSUME TypeOK, NEW types, Pop(types)
  PROVE  Tail(events) \in Seq(Events) /\ Head(events) \in Events
BY DEF TypeOK, Pop

(* process_alarms. *)
LEMMA ProcessAlarmsType ==
  ASSUME TypeOK, stored' \in Nat,
         NEW new \in BOOLEAN, NEW queue \in Seq(Events), ProcessAlarms(new, queue)
  PROVE  /\ events' \in Seq(Events) /\ sound' \in BOOLEAN
         /\ retries' \in 0..MaxAlarmRetries /\ alarmed' \in Nat
<1>1. Add(queue, "ALARM") \in Seq(Events)
  BY AddType DEF Events
<1>2. CASE new /\ sound' = TRUE /\ retries' = 0 /\ alarmed' = stored' /\ events' = Add(queue, "ALARM")
  BY <1>1, <1>2, SizesAssumption
<1>3. CASE /\ MayRetry /\ retries' = retries + 1
           /\ events' = Add(queue, "ALARM") /\ UNCHANGED <<sound, alarmed>>
  BY <1>1, <1>3, SizesAssumption DEF TypeOK, MayRetry
<1>4. CASE events' = queue /\ UNCHANGED <<sound, retries, alarmed>>
  BY <1>4 DEF TypeOK
<1> QED
  BY <1>2, <1>3, <1>4 DEF ProcessAlarms

-------------------------------------------------------------------------------
(* The type invariant holds at the start. *)
LEMMA InitTypeOK == Init => TypeOK
<1> SUFFICES ASSUME Init PROVE TypeOK
  OBVIOUS
<1>1. events \in Seq(Events) /\ commands \in Seq(Commands) /\ cmdString \in Seq(Kinds)
  BY DEF Init, Events
<1>2. lowPower \in BOOLEAN
  BY DEF Init
<1>3. /\ work \in 0..MaxWork /\ stored \in Nat /\ removed \in Nat /\ removed <= stored
      /\ sentReadings \in Nat /\ system \in Nat /\ sentSystem \in Nat
      /\ retries \in 0..MaxAlarmRetries /\ alarmed \in Nat /\ published \in Nat
  BY SizesAssumption DEF Init
<1>4. left \in [Sources -> Nat]
  BY InputsAssumption DEF Init
<1> QED
  BY <1>1, <1>2, <1>3, <1>4 DEF Init, TypeOK, Tasks

(* A reset, whatever its cause. *)
LEMMA RestartTypeOK ==
  ASSUME TypeOK, NEW start, Restart(start), left' \in [Sources -> Nat]
  PROVE  TypeOK'
<1>1. events' \in Seq(Events) /\ commands' \in Seq(Commands) /\ cmdString' \in Seq(Kinds)
  BY DEF Restart, Events
<1>2. lowPower' \in BOOLEAN
  BY DEF Restart, TypeOK
<1>3. /\ work' \in 0..MaxWork /\ stored' \in Nat /\ removed' \in Nat /\ removed' <= stored'
      /\ sentReadings' \in Nat /\ sentSystem' \in Nat
      /\ retries' \in 0..MaxAlarmRetries /\ alarmed' \in Nat /\ published' \in Nat
  BY SMTT(30), SizesAssumption DEF Restart, TypeOK
<1>4. system' \in Nat
  BY SMTT(30), SizesAssumption DEF Restart, TypeOK, Smaller
<1> QED
  BY <1>1, <1>2, <1>3, <1>4 DEF Restart, TypeOK, Tasks

(* Every handler of the state machine preserves the types. *)
LEMMA HandleEventTypeOK ==
  ASSUME TypeOK, HandleEvent
  PROVE  TypeOK'
<1> USE SizesAssumption
<1>1. CASE IdleAcquire
  <2>1. Tail(events) \in Seq(Events)
    BY <1>1, PopType DEF IdleAcquire
  <2>2. stored' \in Nat /\ removed <= stored'
    BY <1>1 DEF IdleAcquire, TypeOK, Store
  <2>3. /\ events' \in Seq(Events) /\ sound' \in BOOLEAN
        /\ retries' \in 0..MaxAlarmRetries /\ alarmed' \in Nat
    <3>1. CASE events' = Tail(events) /\ UNCHANGED alarms
      BY <2>1, <3>1 DEF TypeOK
    <3>2. CASE \E new \in BOOLEAN : ProcessAlarms(new, Tail(events))
      BY <2>1, <2>2, <3>2, ProcessAlarmsType
    <3> QED
      BY <1>1, <3>1, <3>2 DEF IdleAcquire
  <2> QED
    BY <1>1, <2>2, <2>3 DEF IdleAcquire, TypeOK
<1>2. CASE CommandReceived
  <2>1. Tail(events) \in Seq(Events)
    BY <1>2, PopType DEF CommandReceived
  <2>2. commands' \in Seq(Commands)
    BY <1>2, ParsedType DEF CommandReceived, TypeOK
  <2> QED
    BY <1>2, <2>1, <2>2 DEF CommandReceived, Executing, TypeOK, Tasks
<1>3. CASE StartExchange
  <2>1. Tail(events) \in Seq(Events)
    BY <1>3, PopType DEF StartExchange
  <2>2. /\ events' \in Seq(Events) /\ phase' \in Phases
        /\ work' \in 0..MaxWork /\ served' \in BOOLEAN
    BY <1>3, <2>1, EnterPhaseType DEF StartExchange, Phases
  <2> QED
    BY <1>3, <2>2 DEF StartExchange, TypeOK, Phases
<1>4. CASE UsbConnected
  <2>1. Tail(events) \in Seq(Events)
    BY <1>4, PopType DEF UsbConnected
  <2>2. idle' \in {"NORMAL", "BROWNOUT"} /\ brownout' \in BOOLEAN
    BY <1>4 DEF UsbConnected, TypeOK
  <2>3. cmdString' \in Seq(Kinds)
    BY <1>4 DEF UsbConnected
  <2> QED
    BY <1>4, <2>1, <2>2, <2>3 DEF UsbConnected, TypeOK
<1>5. CASE Reload
  BY <1>5, RestartTypeOK DEF Reload, TypeOK
<1>6. CASE Unhandled
  <2>1. Tail(events) \in Seq(Events) /\ Head(events) \in Events
    BY <1>6, PopType DEF Unhandled
  <2>2. Add(Tail(events), Head(events)) \in Seq(Events)
    BY <2>1, AddType
  <2>3. events' \in Seq(Events)
    BY <1>6, <2>1, <2>2 DEF Unhandled
  <2>4. UNCHANGED <<machine, task, cmdString, commands, protocol, buffers, alarms,
                    supply, published, left>>
    BY <1>6 DEF Unhandled
  <2> QED
    BY <2>3, <2>4 DEF TypeOK
<1>7. CASE ProcessContinues
  <2>1. Tail(events) \in Seq(Events)
    BY <1>7, PopType DEF ProcessContinues
  <2>2. Add(Tail(events), "PROCESS") \in Seq(Events)
    BY <2>1, AddType DEF Events
  <2>3. commands' \in Seq(Commands)
    BY <1>7, ParsedType, InputsAssumption
    DEF ProcessContinues, Publish, ReceiveCommands, Nothing, TypeOK
  <2>4. /\ served' \in BOOLEAN /\ sentReadings' \in Nat /\ sentSystem' \in Nat
        /\ published' \in Nat
    <3>1. CASE Publish
      <4>1. stored - removed \in Nat
        BY DEF TypeOK
      <4>2. sentReadings' \in Nat /\ sentSystem' \in Nat
        BY <3>1, <4>1 DEF Publish, TypeOK, readingsCount
      <4>3. published' = removed + sentReadings' \/ published' = published
        BY <3>1 DEF Publish
      <4>4. removed \in Nat /\ published \in Nat
        BY DEF TypeOK
      <4>5. published' \in Nat
        BY <4>2, <4>3, <4>4
      <4>6. served' \in BOOLEAN
        BY <3>1 DEF Publish
      <4> QED
        BY <4>2, <4>5, <4>6
    <3>2. CASE ReceiveCommands
      BY <3>2 DEF ReceiveCommands, TypeOK
    <3>3. CASE Nothing
      BY <3>3 DEF Nothing, TypeOK
    <3> QED
      BY <1>7, <3>1, <3>2, <3>3 DEF ProcessContinues
  <2> QED
    BY <1>7, <2>2, <2>3, <2>4 DEF ProcessContinues, TypeOK
<1>8. CASE ProcessFinished
  <2>1. Tail(events) \in Seq(Events)
    BY <1>8, PopType DEF ProcessFinished
  <2>2. Add(Tail(events), "DONE") \in Seq(Events)
    BY <2>1, AddType DEF Events
  <2> QED
    BY <1>8, <2>2 DEF ProcessFinished, TypeOK
<1>9. CASE SendDone
  <2>1. Tail(events) \in Seq(Events)
    BY <1>9, PopType DEF SendDone
  <2>2. /\ events' \in Seq(Events) /\ phase' \in Phases
        /\ work' \in 0..MaxWork /\ served' \in BOOLEAN
    BY <1>9, <2>1, EnterPhaseType DEF SendDone, Phases
  <2> QED
    BY <1>9, <2>2 DEF SendDone, AppendResult, TypeOK, Phases
<1>10. CASE ReceiveDoneWithCommands
  <2>1. Tail(events) \in Seq(Events)
    BY <1>10, PopType DEF ReceiveDoneWithCommands
  <2> QED
    BY <1>10, <2>1 DEF ReceiveDoneWithCommands, RemoveReadings, TypeOK, Smaller, Tasks
<1>11. CASE ReceiveDoneWithout
  <2>1. Tail(events) \in Seq(Events)
    BY <1>11, PopType DEF ReceiveDoneWithout
  <2>2. /\ events' \in Seq(Events) /\ phase' \in Phases
        /\ work' \in 0..MaxWork /\ served' \in BOOLEAN
    BY <1>11, <2>1, EnterPhaseType DEF ReceiveDoneWithout, Phases
  <2> QED
    BY <1>11, <2>2 DEF ReceiveDoneWithout, AppendResult, TypeOK, Phases
<1>12. CASE DisconnectDone
  <2>1. Tail(events) \in Seq(Events)
    BY <1>12, PopType DEF DisconnectDone
  <2>2. /\ events' \in Seq(Events) /\ phase' \in Phases
        /\ work' \in 0..MaxWork /\ served' \in BOOLEAN
    BY <1>12, <2>1, EnterPhaseType DEF DisconnectDone, Phases
  <2>3. success' \in BOOLEAN
    BY <1>12 DEF DisconnectDone, AppendResult, TypeOK
  <2> QED
    BY <1>12, <2>2, <2>3 DEF DisconnectDone, TypeOK, Phases
<1>13. CASE StopDone
  <2>1. Tail(events) \in Seq(Events)
    BY <1>13, PopType DEF StopDone
  <2>2. success' \in BOOLEAN
    BY <1>13 DEF StopDone, AppendResult, TypeOK
  <2>3. system' \in Nat /\ brownout' \in BOOLEAN /\ idle' \in {"NORMAL", "BROWNOUT"}
    BY <1>13 DEF StopDone, LeaveExchange, EnterIdle, TypeOK, Smaller
  <2>4. lowPower' \in BOOLEAN /\ sound' \in BOOLEAN
    BY <1>13, <2>2 DEF StopDone, LeaveExchange, EnterIdle, TypeOK
  <2> QED
    BY <1>13, <2>1, <2>2, <2>3, <2>4 DEF StopDone, LeaveExchange, EnterIdle, TypeOK
<1> QED
  BY <1>1, <1>2, <1>3, <1>4, <1>5, <1>6, <1>7, <1>8, <1>9, <1>10, <1>11, <1>12, <1>13
  DEF HandleEvent

(* So do the rounds of execute_commands and its return. *)
LEMMA ExecuteTypeOK ==
  ASSUME TypeOK, ExecuteCommand \/ CommandsExecuted
  PROVE  TypeOK'
<1>1. CASE ExecuteCommand
  <2>1. Tail(commands) \in Seq(Commands) /\ Head(commands) \in Commands
    BY <1>1 DEF ExecuteCommand, TypeOK
  <2>2. CASE Refused(Head(commands))
    BY <1>1, <2>1, <2>2 DEF ExecuteCommand, TypeOK
  <2>3. CASE ~Refused(Head(commands))
    <3>1. Effect(Head(commands))
      BY <1>1, <2>3 DEF ExecuteCommand
    <3>2. Requested(Head(commands)) \subseteq Events
      BY DEF Requested, Events
    <3>3. events' \in Seq(Events)
      BY <3>1, <3>2, AddType DEF Effect, TypeOK
    <3>4. removed' \in Nat /\ removed' <= stored /\ system' \in Nat
      BY <3>1 DEF Effect, TypeOK
    <3>5. sound' \in BOOLEAN
      BY <2>1, <3>1 DEF Effect, TypeOK, Commands
    <3> QED
      BY <1>1, <2>1, <3>3, <3>4, <3>5 DEF ExecuteCommand, TypeOK
  <2> QED
    BY <2>2, <2>3
<1>2. CASE CommandsExecuted
  <2>1. events \in Seq(Events)
    BY DEF TypeOK
  <2>2. CASE task = "EXECUTE_SERVER"
    <3>1. PICK next \in Phases : EnterPhase(next, events)
      BY <1>2, <2>2 DEF CommandsExecuted, Phases
    <3>2. /\ events' \in Seq(Events) /\ phase' \in Phases
          /\ work' \in 0..MaxWork /\ served' \in BOOLEAN
      BY <2>1, <3>1, EnterPhaseType
    <3>3. sentReadings' \in Nat /\ sentSystem' \in Nat
      BY <1>2, <2>2 DEF CommandsExecuted, TypeOK
    <3> QED
      BY <1>2, <3>2, <3>3 DEF CommandsExecuted, TypeOK, Phases, Tasks
  <2>3. CASE task # "EXECUTE_SERVER"
    BY <1>2, <2>3 DEF CommandsExecuted, TypeOK, Tasks
  <2> QED
    BY <2>2, <2>3
<1> QED
  BY <1>1, <1>2

(* And the interrupts. *)
LEMMA EnvironmentTypeOK ==
  ASSUME TypeOK, Environment
  PROVE  TypeOK'
<1>1. ASSUME NEW source \in Sources, Spend(source) PROVE left' \in [Sources -> Nat]
  BY <1>1 DEF Spend, TypeOK
<1>2. ASSUME NEW event \in Events PROVE Add(events, event) \in Seq(Events)
  BY AddType DEF TypeOK
<1>3. CASE MinuteExpired
  <2>1. Add(events, "ACQUIRE") \in Seq(Events)
    BY <1>2 DEF Events
  <2>2. Add(Add(events, "ACQUIRE"), "HEARTBEAT") \in Seq(Events)
    BY <2>1, AddType DEF Events
  <2>3. left' \in [Sources -> Nat]
    BY <1>1, <1>3 DEF MinuteExpired, Sources
  <2> QED
    BY <1>3, <2>1, <2>2, <2>3 DEF MinuteExpired, TypeOK
<1>4. CASE Movement
  <2>1. stored' \in Nat /\ removed <= stored'
    BY <1>4 DEF Movement, Store, TypeOK
  <2>2. /\ events' \in Seq(Events) /\ sound' \in BOOLEAN
        /\ retries' \in 0..MaxAlarmRetries /\ alarmed' \in Nat
    BY <1>4, <2>1, ProcessAlarmsType DEF Movement, TypeOK
  <2>3. left' \in [Sources -> Nat]
    BY <1>1, <1>4 DEF Movement, Sources
  <2> QED
    BY <1>4, <2>1, <2>2, <2>3 DEF Movement, TypeOK
<1>5. CASE CommandTyped
  <2>1. events' \in Seq(Events)
    BY <1>2, <1>5 DEF CommandTyped, Events
  <2>2. cmdString' \in Seq(Kinds)
    BY <1>5, InputsAssumption DEF CommandTyped, TypeOK
  <2>3. left' \in [Sources -> Nat]
    BY <1>1, <1>5 DEF CommandTyped, Sources
  <2> QED
    BY <1>5, <2>1, <2>2, <2>3 DEF CommandTyped, TypeOK
<1>6. CASE UsbChanged
  <2>1. events' \in Seq(Events)
    BY <1>2, <1>6 DEF UsbChanged, Events
  <2>2. usb' \in BOOLEAN
    BY <1>6 DEF UsbChanged
  <2>3. left' \in [Sources -> Nat]
    BY <1>1, <1>6 DEF UsbChanged, Sources
  <2> QED
    BY <1>6, <2>1, <2>2, <2>3 DEF UsbChanged, TypeOK
<1>7. CASE VoltageMeasured
  BY <1>7, InputsAssumption DEF VoltageMeasured, TypeOK
<1>8. CASE Reset
  <2>1. left' \in [Sources -> Nat]
    BY <1>1, <1>8 DEF Reset, Sources
  <2> QED
    BY <1>8, <2>1, RestartTypeOK DEF Reset
<1> QED
  BY <1>3, <1>4, <1>5, <1>6, <1>7, <1>8 DEF Environment

(* Every step keeps the types.                                             *)
LEMMA NextTypeOK == TypeOK /\ [Next]_vars => TypeOK'
<1> SUFFICES ASSUME TypeOK, [Next]_vars PROVE TypeOK'
  OBVIOUS
<1>1. CASE UNCHANGED vars
  BY <1>1 DEF TypeOK
<1> QED
  BY <1>1, HandleEventTypeOK, ExecuteTypeOK, EnvironmentTypeOK DEF Next, MainLoop

(* The type invariant: whatever arrives, the queues hold what they are     *)
(* meant to and the buffer of readings never holds a negative number.      *)
THEOREM TypeCorrect == Spec => []TypeOK
BY InitTypeOK, NextTypeOK, PTL DEF Spec

-------------------------------------------------------------------------------
(***************************************************************************)
(* Safety: a single event drives the exchange, and commands run under the  *)
(* state that asked for them.                                              *)
(***************************************************************************)
TokenTypes == {"PROCESS", "DONE"}
Single(queue) == AtMostOne(queue, TokenTypes)
Quiet(queue)  == PlacesOf(queue, TokenTypes) = {}

(* The caller of execute_commands: no event is handled while it runs.      *)
Callers ==
  /\ task = "EXECUTE_IDLE"   => top = "IDLE"
  /\ task = "EXECUTE_BUSY"   => top = "EXCHANGE"
  /\ task = "EXECUTE_SERVER" => top = "EXCHANGE" /\ phase = "RECEIVE"

(* OneToken is not inductive by itself: that no token is on its way when   *)
(* execute_commands goes back to the exchange needs to know that it goes   *)
(* back to the exchange it came from.                                      *)
TokenInv == TypeOK /\ Callers /\ OneToken

-------------------------------------------------------------------------------
(* OneToken in terms of Single and Quiet. *)
LEMMA OneTokenMeans ==
  /\ OneToken <=> Single(events) /\ (top = "IDLE" \/ task = "EXECUTE_SERVER" => Quiet(events))
  /\ OneToken' <=> /\ Single(events')
                   /\ top' = "IDLE" \/ task' = "EXECUTE_SERVER" => Quiet(events')
BY DEF OneToken, Tokens, Single, Quiet, TokenTypes

(* No token, so not two of them. *)
LEMMA QuietIsSingle == ASSUME NEW queue, Quiet(queue) PROVE Single(queue)
BY DEF Quiet, Single, AtMostOne

(* Adding an event that is no token brings none. *)
LEMMA AddOther ==
  ASSUME NEW queue \in Seq(Events), NEW event \in Events \ TokenTypes
  PROVE  /\ Single(queue) => Single(Add(queue, event))
         /\ Quiet(queue) => Quiet(Add(queue, event))
<1>1. QueueSize \in Nat \ {0}
  BY SizesAssumption
<1>2. ASSUME Single(queue) PROVE Single(Add(queue, event))
  BY <1>1, <1>2, PutOther DEF Single, Add
<1>3. ASSUME Quiet(queue) PROVE Quiet(Add(queue, event))
  BY <1>1, <1>3, PutFirst DEF Quiet, Add
<1> QED
  BY <1>2, <1>3

(* Adding an event to a queue without tokens leaves at most one. *)
LEMMA AddFirst ==
  ASSUME NEW queue \in Seq(Events), NEW event \in Events, Quiet(queue)
  PROVE  Single(Add(queue, event))
BY SizesAssumption, PutFirst DEF Single, Quiet, Add

(* A handler finds the queue without the event it was given: without any   *)
(* token if the event was one, or if the device is idle.                   *)
LEMMA PopToken ==
  ASSUME TokenInv, NEW types, Pop(types)
  PROVE  /\ Tail(events) \in Seq(Events)
         /\ Single(Tail(events))
         /\ top = "IDLE" => Quiet(Tail(events))
         /\ types \subseteq TokenTypes => Quiet(Tail(events))
<1>1. events \in Seq(Events) /\ events # <<>> /\ Head(events) \in types
  BY DEF TokenInv, TypeOK, Pop
<1>2. Single(events) /\ (top = "IDLE" => Quiet(events))
  BY OneTokenMeans DEF TokenInv
<1>3. Tail(events) \in Seq(Events)
  BY <1>1
<1>4. /\ AtMostOne(Tail(events), TokenTypes)
      /\ PlacesOf(events, TokenTypes) = {} => PlacesOf(Tail(events), TokenTypes) = {}
      /\ Head(events) \in TokenTypes => PlacesOf(Tail(events), TokenTypes) = {}
  BY <1>1, <1>2, TailTokens DEF Single
<1> QED
  BY <1>1, <1>2, <1>3, <1>4 DEF Single, Quiet

(* process_alarms adds no token. *)
LEMMA ProcessAlarmsTokens ==
  ASSUME NEW queue \in Seq(Events), NEW new \in BOOLEAN, ProcessAlarms(new, queue)
  PROVE  /\ Single(queue) => Single(events')
         /\ Quiet(queue) => Quiet(events')
<1>1. events' = queue \/ events' = Add(queue, "ALARM")
  BY DEF ProcessAlarms
<1>2. "ALARM" \in Events \ TokenTypes
  BY DEF Events, TokenTypes
<1> QED
  BY <1>1, <1>2, AddOther

-------------------------------------------------------------------------------
(* The one token of an exchange is nowhere to begin with.                  *)
LEMMA InitTokenInv == Init => TokenInv
<1> SUFFICES ASSUME Init PROVE TokenInv
  OBVIOUS
<1>1. TypeOK
  BY InitTypeOK
<1>2. Callers
  BY DEF Init, Callers
<1>3. Quiet(events)
  BY DEF Init, Quiet, PlacesOf, TokenTypes
<1> QED
  BY <1>1, <1>2, <1>3, QuietIsSingle, OneTokenMeans DEF TokenInv

(* A reset starts with a queue of one event, which is no token. *)
LEMMA RestartTokens ==
  ASSUME NEW start, Restart(start)
  PROVE  OneToken' /\ Callers'
<1>1. Quiet(events')
  BY DEF Restart, Quiet, PlacesOf, TokenTypes
<1>2. Callers'
  BY DEF Restart, Callers
<1> QED
  BY <1>1, <1>2, QuietIsSingle, OneTokenMeans

(* The handlers: each takes the token out before it adds it again. *)
LEMMA HandleEventTokens ==
  ASSUME TokenInv, HandleEvent
  PROVE  OneToken' /\ Callers'
<1> USE DEF TokenInv
<1>a. "PROCESS" \in Events /\ "DONE" \in Events
  BY DEF Events
<1>b. {"PROCESS"} \subseteq TokenTypes /\ {"DONE"} \subseteq TokenTypes
  BY DEF TokenTypes
<1>1. CASE IdleAcquire
  <2>1. Pop({"ACQUIRE"}) /\ top = "IDLE" /\ UNCHANGED <<top, task, phase>>
    BY <1>1 DEF IdleAcquire
  <2>2. Tail(events) \in Seq(Events) /\ Quiet(Tail(events))
    BY <2>1, PopToken
  <2>3. Quiet(events')
    BY <1>1, <2>2, ProcessAlarmsTokens DEF IdleAcquire
  <2> QED
    BY <2>1, <2>3, QuietIsSingle, OneTokenMeans DEF Callers
<1>2. CASE CommandReceived
  <2>1. /\ Pop({"COMMAND_RECEIVED"}) /\ events' = Tail(events)
        /\ task' = IF top = "IDLE" THEN "EXECUTE_IDLE" ELSE "EXECUTE_BUSY"
        /\ UNCHANGED <<top, phase>>
    BY <1>2 DEF CommandReceived, Executing
  <2>2. Single(events') /\ (top = "IDLE" => Quiet(events'))
    BY <2>1, PopToken
  <2>3. Callers'
    BY <2>1 DEF Callers, TypeOK
  <2> QED
    BY <2>1, <2>2, <2>3, OneTokenMeans
<1>3. CASE StartExchange
  <2>1. /\ Pop({"ALARM", "HEARTBEAT"}) /\ top = "IDLE" /\ top' = "EXCHANGE"
        /\ events' = Add(Tail(events), "PROCESS") /\ task' = task /\ task = "LOOP"
    BY <1>3 DEF StartExchange, EnterPhase, Pop
  <2>2. Tail(events) \in Seq(Events) /\ Quiet(Tail(events))
    BY <2>1, PopToken
  <2>3. Single(events')
    BY <1>a, <2>1, <2>2, AddFirst
  <2> QED
    BY <2>1, <2>3, OneTokenMeans DEF Callers
<1>4. CASE UsbConnected
  <2>1. /\ Pop({"USB_CONNECTED"}) /\ events' = Tail(events) /\ task = "LOOP"
        /\ UNCHANGED <<top, task, phase>>
    BY <1>4 DEF UsbConnected, Pop
  <2>2. Single(events') /\ (top = "IDLE" => Quiet(events'))
    BY <2>1, PopToken
  <2> QED
    BY <2>1, <2>2, OneTokenMeans DEF Callers
<1>5. CASE Reload
  BY <1>5, RestartTokens DEF Reload
<1>6. CASE Unhandled
  <2>1. UNCHANGED <<top, task, phase>>
    BY <1>6 DEF Unhandled
  <2>2. CASE Pop(Postponed) /\ events' = Add(Tail(events), Head(events))
    <3>1. top = "EXCHANGE" /\ task = "LOOP" /\ Head(events) \in {"ACQUIRE", "HEARTBEAT"}
      BY <2>2 DEF Pop, Postponed
    <3>2. Tail(events) \in Seq(Events) /\ Single(Tail(events))
      BY <2>2, PopToken
    <3>3. Head(events) \in Events \ TokenTypes
      BY <3>1 DEF Events, TokenTypes
    <3>4. Single(events')
      BY <2>2, <3>2, <3>3, AddOther
    <3> QED
      BY <2>1, <3>1, <3>4, OneTokenMeans DEF Callers
  <2>3. CASE Pop(Ignored) /\ events' = Tail(events)
    <3>1. task = "LOOP"
      BY <2>3 DEF Pop
    <3>2. Single(events') /\ (top = "IDLE" => Quiet(events'))
      BY <2>3, PopToken
    <3> QED
      BY <2>1, <3>1, <3>2, OneTokenMeans DEF Callers
  <2> QED
    BY <1>6, <2>2, <2>3 DEF Unhandled
<1>7. CASE ProcessContinues
  <2>1. /\ Pop({"PROCESS"}) /\ events' = Add(Tail(events), "PROCESS") /\ top = "EXCHANGE"
        /\ task = "LOOP" /\ UNCHANGED <<top, task, phase>>
    BY <1>7 DEF ProcessContinues, Pop
  <2>2. Tail(events) \in Seq(Events) /\ Quiet(Tail(events))
    BY <1>b, <2>1, PopToken
  <2>3. Single(events')
    BY <1>a, <2>1, <2>2, AddFirst
  <2> QED
    BY <2>1, <2>3, OneTokenMeans DEF Callers
<1>8. CASE ProcessFinished
  <2>1. /\ Pop({"PROCESS"}) /\ events' = Add(Tail(events), "DONE") /\ top = "EXCHANGE"
        /\ task = "LOOP" /\ UNCHANGED <<top, task, phase>>
    BY <1>8 DEF ProcessFinished, Pop
  <2>2. Tail(events) \in Seq(Events) /\ Quiet(Tail(events))
    BY <1>b, <2>1, PopToken
  <2>3. Single(events')
    BY <1>a, <2>1, <2>2, AddFirst
  <2> QED
    BY <2>1, <2>3, OneTokenMeans DEF Callers
<1>9. CASE SendDone \/ ReceiveDoneWithout \/ DisconnectDone
  <2>1. /\ Pop({"DONE"}) /\ events' = Add(Tail(events), "PROCESS") /\ top = "EXCHANGE"
        /\ task = "LOOP" /\ UNCHANGED <<top, task>>
    BY <1>9 DEF SendDone, ReceiveDoneWithout, DisconnectDone, EnterPhase, Pop
  <2>2. Tail(events) \in Seq(Events) /\ Quiet(Tail(events))
    BY <1>b, <2>1, PopToken
  <2>3. Single(events')
    BY <1>a, <2>1, <2>2, AddFirst
  <2> QED
    BY <2>1, <2>3, OneTokenMeans DEF Callers
<1>10. CASE ReceiveDoneWithCommands
  <2>1. /\ Pop({"DONE"}) /\ events' = Tail(events) /\ top = "EXCHANGE" /\ phase = "RECEIVE"
        /\ task' = "EXECUTE_SERVER" /\ UNCHANGED <<top, phase>>
    BY <1>10 DEF ReceiveDoneWithCommands
  <2>2. Quiet(events')
    BY <1>b, <2>1, PopToken
  <2> QED
    BY <2>1, <2>2, QuietIsSingle, OneTokenMeans DEF Callers
<1>11. CASE StopDone
  <2>1. /\ Pop({"DONE"}) /\ events' = Tail(events) /\ task = "LOOP" /\ task' = task
    BY <1>11 DEF StopDone, Pop
  <2>2. Quiet(events')
    BY <1>b, <2>1, PopToken
  <2> QED
    BY <2>1, <2>2, QuietIsSingle, OneTokenMeans DEF Callers
<1> QED
  BY <1>1, <1>2, <1>3, <1>4, <1>5, <1>6, <1>7, <1>8, <1>9, <1>10, <1>11 DEF HandleEvent

(* execute_commands: what commands add is no token, and the caller that    *)
(* starts the next operation has none on its way.                          *)
LEMMA ExecuteTokens ==
  ASSUME TokenInv, ExecuteCommand \/ CommandsExecuted
  PROVE  OneToken' /\ Callers'
<1> USE DEF TokenInv
<1>1. events \in Seq(Events)
  BY DEF TypeOK
<1>2. CASE ExecuteCommand
  <2>1. UNCHANGED <<top, task, phase>>
    BY <1>2 DEF ExecuteCommand
  <2>2. events' = events \/ \E event \in Events \ TokenTypes : events' = Add(events, event)
    <3>1. Requested(Head(commands)) \subseteq Events \ TokenTypes
      BY DEF Requested, Events, TokenTypes
    <3> QED
      BY <1>2, <3>1 DEF ExecuteCommand, Effect
  <2>3. (Single(events) => Single(events')) /\ (Quiet(events) => Quiet(events'))
    BY <1>1, <2>2, AddOther
  <2> QED
    BY <2>1, <2>3, OneTokenMeans DEF Callers
<1>3. CASE CommandsExecuted
  <2>1. task' = "LOOP" /\ top' = top
    BY <1>3 DEF CommandsExecuted
  <2>2. CASE task = "EXECUTE_SERVER"
    <3>1. Quiet(events) /\ top = "EXCHANGE"
      BY <2>2, OneTokenMeans DEF Callers
    <3>2. events' = Add(events, "PROCESS")
      BY <1>3, <2>2 DEF CommandsExecuted, EnterPhase
    <3>3. Single(events')
      BY <1>1, <3>1, <3>2, AddFirst DEF Events
    <3> QED
      BY <2>1, <3>1, <3>3, OneTokenMeans DEF Callers
  <2>3. CASE task # "EXECUTE_SERVER"
    <3>1. events' = events
      BY <1>3, <2>3 DEF CommandsExecuted
    <3> QED
      BY <2>1, <3>1, OneTokenMeans DEF Callers
  <2> QED
    BY <2>2, <2>3
<1> QED
  BY <1>2, <1>3

(* No interrupt adds a token. *)
LEMMA EnvironmentTokens ==
  ASSUME TokenInv, Environment
  PROVE  OneToken' /\ Callers'
<1> USE DEF TokenInv
<1>1. events \in Seq(Events)
  BY DEF TypeOK
<1>2. CASE Reset
  BY <1>2, RestartTokens DEF Reset
<1>3. CASE ~Reset
  <2>1. UNCHANGED <<top, task, phase>>
    BY <1>3 DEF Environment, MinuteExpired, Movement, CommandTyped, UsbChanged, VoltageMeasured
  <2>2. (Single(events) => Single(events')) /\ (Quiet(events) => Quiet(events'))
    <3>1. CASE MinuteExpired
      <4>1. "ACQUIRE" \in Events \ TokenTypes /\ "HEARTBEAT" \in Events \ TokenTypes
        BY DEF Events, TokenTypes
      <4>2. Add(events, "ACQUIRE") \in Seq(Events)
        BY <1>1, <4>1, AddType
      <4> QED
        BY <1>1, <3>1, <4>1, <4>2, AddOther DEF MinuteExpired
    <3>2. CASE Movement
      BY <1>1, <3>2, ProcessAlarmsTokens DEF Movement
    <3>3. CASE CommandTyped
      BY <1>1, <3>3, AddOther DEF CommandTyped, Events, TokenTypes
    <3>4. CASE UsbChanged
      BY <1>1, <3>4, AddOther DEF UsbChanged, Events, TokenTypes
    <3>5. CASE VoltageMeasured
      BY <3>5 DEF VoltageMeasured
    <3> QED
      BY <1>3, <3>1, <3>2, <3>3, <3>4, <3>5 DEF Environment
  <2> QED
    BY <2>1, <2>2, OneTokenMeans DEF Callers
<1> QED
  BY <1>2, <1>3

(* Every step keeps the token of an exchange in one place.                 *)
LEMMA NextTokenInv == TokenInv /\ [Next]_vars => TokenInv'
<1> SUFFICES ASSUME TokenInv, [Next]_vars PROVE TokenInv'
  OBVIOUS
<1>1. TypeOK'
  BY NextTypeOK DEF TokenInv
<1>2. OneToken' /\ Callers'
  <2>1. CASE UNCHANGED vars
    BY <2>1, OneTokenMeans DEF TokenInv, Callers
  <2> QED
    BY <2>1, HandleEventTokens, ExecuteTokens, EnvironmentTokens DEF Next, MainLoop
<1> QED
  BY <1>1, <1>2 DEF TokenInv

(* The exchange is driven by one event, however full the queue and         *)
(* whatever the interrupts add to it: no handle is called twice a round    *)
(* and none is called for an exchange that is over.                        *)
THEOREM SingleToken == Spec => []OneToken
<1>1. TokenInv => OneToken
  BY DEF TokenInv
<1> QED
  BY <1>1, InitTokenInv, NextTokenInv, PTL DEF Spec

-------------------------------------------------------------------------------
(* The acknowledgement.  The invariant is inductive as it stands.          *)
AckInv == TypeOK /\ AcknowledgedByServer

FromServer(list) == \A i \in DOMAIN list : list[i].from = "SERVER"

(* A message of the server parsed into an empty buffer: nothing else.      *)
LEMMA ParsedFromServer ==
  ASSUME TypeOK, commands = <<>>, NEW message \in Seq(Kinds)
  PROVE  FromServer(Parsed(message, "SERVER"))
<1> DEFINE new == [i \in DOMAIN message |->
                     [from |-> "SERVER", kind |-> message[i],
                      sounding |-> message[i] = "ALARM" /\ sound]]
           a   == IF Len(new) > CommandsSize THEN Len(new) - CommandsSize + 1 ELSE 1
<1>1. new \in Seq(Commands) /\ FromServer(new)
  <2>1. DOMAIN message = 1..Len(message) /\ Len(message) \in Nat
    OBVIOUS
  <2>2. \A i \in DOMAIN message : new[i] \in Commands
    BY DEF TypeOK, Commands
  <2>3. new \in [1..Len(message) -> Commands] /\ DOMAIN new = DOMAIN message
    BY <2>1, <2>2
  <2>4. FromServer(new)
    BY DEF FromServer
  <2> QED
    BY <2>1, <2>3, <2>4
<1>2. Parsed(message, "SERVER") = LastCommands(commands \o new)
  BY DEF Parsed
<1> HIDE DEF new
<1>3. commands \o new = new
  BY <1>1
<1>4. /\ Len(new) \in Nat /\ a \in 1..(Len(new) + 1)
      /\ \A i \in 1..Len(new) : new[i] \in Commands /\ new[i].from = "SERVER"
  BY <1>1, SizesAssumption DEF FromServer
<1>5. Parsed(message, "SERVER") = SubSeq(new, a, Len(new))
  BY <1>2, <1>3 DEF LastCommands
<1> HIDE DEF a
<1>6. /\ DOMAIN SubSeq(new, a, Len(new)) = 1..(Len(new) - a + 1)
      /\ \A i \in 1..(Len(new) - a + 1) : SubSeq(new, a, Len(new))[i] = new[a + i - 1]
  BY <1>1, <1>4, SubSeqProperties
<1>7. \A i \in 1..(Len(new) - a + 1) : a + i - 1 \in 1..Len(new)
  BY <1>4
<1> QED
  BY <1>4, <1>5, <1>6, <1>7 DEF FromServer

(* What is left of the server's commands is the server's.                  *)
LEMMA TailFromServer ==
  ASSUME NEW list \in Seq(Commands), list # <<>>, FromServer(list)
  PROVE  FromServer(Tail(list))
<1>1. /\ Len(list) \in Nat \ {0} /\ DOMAIN list = 1..Len(list)
      /\ DOMAIN Tail(list) = 1..(Len(list) - 1)
      /\ \A i \in 1..(Len(list) - 1) : Tail(list)[i] = list[i + 1]
  OBVIOUS
<1>2. \A i \in 1..(Len(list) - 1) : i + 1 \in 1..Len(list)
  BY <1>1
<1> QED
  BY <1>1, <1>2 DEF FromServer

(* AcknowledgedByServer in these terms. *)
LEMMA AcknowledgedMeans ==
  /\ AcknowledgedByServer <=>
       /\ top = "EXCHANGE" /\ phase = "RECEIVE" /\ task # "EXECUTE_BUSY" => FromServer(commands)
       /\ task = "LOOP" /\ ~(top = "EXCHANGE" /\ phase = "RECEIVE" /\ served) => commands = <<>>
  /\ AcknowledgedByServer' <=>
       /\ top' = "EXCHANGE" /\ phase' = "RECEIVE" /\ task' # "EXECUTE_BUSY" => FromServer(commands')
       /\ task' = "LOOP" /\ ~(top' = "EXCHANGE" /\ phase' = "RECEIVE" /\ served') => commands' = <<>>
BY DEF AcknowledgedByServer, FromServer

(* No commands at all are.                                                 *)
LEMMA EmptyFromServer == FromServer(<<>>)
BY DEF FromServer

(* An event that is handled acknowledges only commands of the server.      *)
LEMMA HandleEventAck ==
  ASSUME AckInv, HandleEvent
  PROVE  AcknowledgedByServer'
<1> USE DEF AckInv
<1>a. /\ top = "EXCHANGE" /\ phase = "RECEIVE" /\ task # "EXECUTE_BUSY" => FromServer(commands)
      /\ task = "LOOP" /\ ~(top = "EXCHANGE" /\ phase = "RECEIVE" /\ served) => commands = <<>>
  BY AcknowledgedMeans
<1>1. CASE CommandReceived
  <2>1. task' = IF top = "IDLE" THEN "EXECUTE_IDLE" ELSE "EXECUTE_BUSY"
    BY <1>1 DEF CommandReceived, Executing
  <2>2. top' = top /\ task' # "LOOP" /\ (top = "EXCHANGE" => task' = "EXECUTE_BUSY")
    BY <1>1, <2>1 DEF CommandReceived
  <2> QED
    BY <2>2, AcknowledgedMeans
<1>2. CASE IdleAcquire \/ UsbConnected \/ Unhandled \/ ProcessFinished
  <2>1. UNCHANGED <<top, phase, task, served, commands>>
    BY <1>2 DEF IdleAcquire, UsbConnected, Unhandled, ProcessFinished
  <2> QED
    BY <1>a, <2>1, AcknowledgedMeans
<1>3. CASE StartExchange \/ SendDone \/ ReceiveDoneWithout \/ DisconnectDone \/ StopDone
  <2>1. commands = <<>> /\ commands' = commands
    BY <1>3, <1>a
    DEF StartExchange, SendDone, ReceiveDoneWithout, DisconnectDone, StopDone, Pop, TypeOK
  <2> QED
    BY <2>1, EmptyFromServer, AcknowledgedMeans
<1>4. CASE Reload
  BY <1>4, EmptyFromServer, AcknowledgedMeans DEF Reload, Restart
<1>5. CASE ProcessContinues
  <2>1. top = "EXCHANGE" /\ task = "LOOP" /\ UNCHANGED <<top, phase, task>>
    BY <1>5 DEF ProcessContinues, Pop
  <2>2. CASE ReceiveCommands
    <3>1. commands = <<>> /\ phase = "RECEIVE" /\ served' = TRUE
      BY <1>a, <2>1, <2>2 DEF ReceiveCommands
    <3>2. PICK message \in ServerMessages : commands' = Parsed(message, "SERVER")
      BY <2>2 DEF ReceiveCommands
    <3>3. message \in Seq(Kinds)
      BY InputsAssumption
    <3>4. FromServer(commands')
      BY <3>1, <3>2, <3>3, ParsedFromServer
    <3> QED
      BY <2>1, <3>1, <3>4, AcknowledgedMeans
  <2>3. CASE Publish \/ Nothing
    <3>1. commands' = commands /\ (phase = "RECEIVE" => served' = served)
      BY <2>3 DEF Publish, Nothing
    <3> QED
      BY <1>a, <2>1, <3>1, AcknowledgedMeans
  <2> QED
    BY <1>5, <2>2, <2>3 DEF ProcessContinues
<1>6. CASE ReceiveDoneWithCommands
  <2>1. /\ FromServer(commands) /\ commands' = commands /\ task' = "EXECUTE_SERVER"
    BY <1>6, <1>a DEF ReceiveDoneWithCommands, Pop
  <2> QED
    BY <2>1, AcknowledgedMeans
<1> QED
  BY <1>1, <1>2, <1>3, <1>4, <1>5, <1>6 DEF HandleEvent

(* Every step acknowledges only commands of the server.                    *)
LEMMA NextAckInv == AckInv /\ [Next]_vars => AckInv'
<1> SUFFICES ASSUME AckInv, [Next]_vars PROVE AckInv'
  OBVIOUS
<1> USE DEF AckInv
<1>1. TypeOK'
  BY NextTypeOK
<1>a. top = "EXCHANGE" /\ phase = "RECEIVE" /\ task # "EXECUTE_BUSY" => FromServer(commands)
  BY AcknowledgedMeans
<1>2. CASE HandleEvent
  BY <1>1, <1>2, HandleEventAck
<1>3. CASE ExecuteCommand
  <2>1. /\ commands # <<>> /\ commands' = Tail(commands) /\ commands \in Seq(Commands)
        /\ task # "LOOP" /\ UNCHANGED <<top, phase, task, served>>
    BY <1>3 DEF ExecuteCommand, TypeOK
  <2>2. FromServer(commands) => FromServer(commands')
    BY <2>1, TailFromServer
  <2> QED
    BY <1>1, <1>a, <2>1, <2>2, AcknowledgedMeans
<1>4. CASE CommandsExecuted
  <2>1. commands = <<>> /\ commands' = <<>>
    BY <1>4 DEF CommandsExecuted
  <2> QED
    BY <1>1, <2>1, EmptyFromServer, AcknowledgedMeans
<1>5. CASE Reset
  <2>1. PICK start : Restart(start)
    BY <1>5 DEF Reset
  <2> QED
    BY <1>1, <2>1, EmptyFromServer, AcknowledgedMeans DEF Restart
<1>6. CASE UNCHANGED vars \/ (Environment /\ ~Reset)
  <2>1. UNCHANGED <<top, phase, task, served, commands>>
    BY <1>6
    DEF Environment, MinuteExpired, Movement, CommandTyped, UsbChanged, VoltageMeasured
  <2> QED
    BY <1>1, <2>1, AcknowledgedMeans
<1> QED
  BY <1>2, <1>3, <1>4, <1>5, <1>6 DEF Next, MainLoop, Environment

(* What state_receive takes for the acknowledgement of the readings has    *)
(* come from the server, in this exchange, whatever users type meanwhile.  *)
THEOREM ServerAcknowledges == Spec => []AcknowledgedByServer
<1>1. Init => AckInv
  BY InitTypeOK, EmptyFromServer, AcknowledgedMeans DEF Init, AckInv
<1>2. AckInv => AcknowledgedByServer
  BY DEF AckInv
<1> QED
  BY <1>1, <1>2, NextAckInv, PTL DEF Spec

-------------------------------------------------------------------------------
(* The low supply: the device is in BROWNOUT then.                         *)
PowerInv == TypeOK /\ (lowPower => top = "IDLE" /\ idle = "BROWNOUT")

(* Every step keeps the device that is low on power in its brownout state. *)
LEMMA NextPowerInv ==
  ASSUME PowerInv, [Next]_vars, StartTypes \subseteq {"POWER_ON"}
  PROVE  PowerInv'
<1> USE DEF PowerInv
<1>1. TypeOK'
  BY NextTypeOK
<1>2. CASE UNCHANGED <<top, idle, lowPower>>
  BY <1>1, <1>2
<1>3. CASE StartExchange
  BY <1>1, <1>3 DEF StartExchange
<1>4. CASE UsbConnected
  BY <1>1, <1>4 DEF UsbConnected
<1>5. CASE Reload
  BY <1>1, <1>5 DEF Reload, Restart
<1>6. CASE Reset
  BY <1>6 DEF Reset
<1>7. CASE StopDone
  <2>1. /\ ~lowPower /\ top' = "IDLE"
        /\ lowPower' = (lowPower \/ (~success' /\ voltage = Low))
        /\ idle' = IF brownout' THEN "BROWNOUT" ELSE "NORMAL"
        /\ brownout' = (~success' /\ voltage < Sufficient)
    BY <1>7 DEF StopDone, LeaveExchange, EnterIdle
  <2>2. voltage = Low => voltage < Sufficient
    BY DEF Low, Sufficient
  <2>3. lowPower' => brownout'
    BY <2>1, <2>2, Zenon
  <2> QED
    BY <1>1, <2>1, <2>3
<1>8. CASE /\ Next
           /\ ~(StartExchange \/ UsbConnected \/ Reload \/ Reset \/ StopDone)
  <2> SUFFICES UNCHANGED <<top, idle, lowPower>>
    BY <1>2
  <2>1. CASE HandleEvent
    <3>1. CASE IdleAcquire \/ CommandReceived \/ Unhandled
      BY <3>1 DEF IdleAcquire, CommandReceived, Unhandled
    <3>2. CASE ProcessContinues \/ ProcessFinished \/ SendDone
      BY <3>2 DEF ProcessContinues, ProcessFinished, SendDone
    <3>3. CASE ReceiveDoneWithCommands \/ ReceiveDoneWithout \/ DisconnectDone
      BY <3>3 DEF ReceiveDoneWithCommands, ReceiveDoneWithout, DisconnectDone
    <3> QED
      BY <1>8, <2>1, <3>1, <3>2, <3>3 DEF HandleEvent
  <2>2. CASE ExecuteCommand \/ CommandsExecuted
    BY <2>2 DEF ExecuteCommand, CommandsExecuted
  <2>3. CASE Environment
    BY <1>8, <2>3
    DEF Environment, MinuteExpired, Movement, CommandTyped, UsbChanged, VoltageMeasured
  <2> QED
    BY <1>8, <2>1, <2>2, <2>3 DEF Next, MainLoop
<1>9. CASE UNCHANGED vars
  BY <1>2, <1>9
<1> QED
  BY <1>3, <1>4, <1>5, <1>6, <1>7, <1>8, <1>9

(* Once the supply was found too low there is no exchange until the device *)
(* is on USB or RELOAD starts it anew: no alarm, heartbeat, NOW or         *)
(* acquisition ends the brownout.  After a reset the code has forgotten    *)
(* it: the theorem is about a device that is not reset.                    *)
THEOREM LowPowerIsQuiet ==
  ASSUME StartTypes \subseteq {"POWER_ON"}
  PROVE  Spec => []QuietOnLowPower
<1>1. Init => PowerInv
  BY InitTypeOK DEF Init, PowerInv
<1>2. PowerInv /\ [Next]_vars => PowerInv'
  BY NextPowerInv
<1>3. PowerInv => QuietOnLowPower
  BY DEF PowerInv, QuietOnLowPower
<1> QED
  BY <1>1, <1>2, <1>3, PTL DEF Spec

-------------------------------------------------------------------------------
(***************************************************************************)
(* The application implements Delivery: a reading leaves the buffer only   *)
(* after it was published in a message the server has answered, or because *)
(* a user cleared the buffer.  For every size of the buffers, every input  *)
(* and any number of interrupts and resets.                                *)
(***************************************************************************)
(* What is removed after the receive was published when the send counted   *)
(* it, and nothing was removed in between: commands run in the exchange    *)
(* only for the server, or without write access.                           *)
SentInv == TokenInv /\ SentWasPublished

(* the part of SentWasPublished that speaks of the exchange *)
Exchanging == top = "EXCHANGE" /\ phase \in {"SEND", "RECEIVE"} /\ task # "EXECUTE_SERVER"
SentStillFirst == (sentReadings = 0 \/ removed + sentReadings <= published) /\ sentSystem <= system

(* The property, in terms of what an exchange under way has sent.          *)
LEMMA SentMeans ==
  /\ SentWasPublished <=> published <= stored /\ (Exchanging => SentStillFirst)
  /\ SentWasPublished' <=> published' <= stored' /\ (Exchanging' => SentStillFirst')
BY DEF SentWasPublished, Exchanging, SentStillFirst

(* The numbers are natural numbers: all that the proofs below need of the  *)
(* type invariant.                                                         *)
LEMMA Numbers ==
  ASSUME TypeOK
  PROVE  /\ stored \in Nat /\ removed \in Nat /\ removed <= stored /\ published \in Nat
         /\ sentReadings \in Nat /\ system \in Nat /\ sentSystem \in Nat
BY DEF TypeOK

-------------------------------------------------------------------------------
(* The steps that touch none of the numbers, and those that only store.    *)
LEMMA StoringKeeps ==
  ASSUME SentInv, stored' = stored \/ stored' = stored + 1,
         UNCHANGED <<removed, published, sentReadings, system, sentSystem>>,
         Exchanging' => Exchanging
  PROVE  SentWasPublished'
<1>1. published' <= stored'
  BY Numbers, SentMeans DEF SentInv, TokenInv
<1>2. SentStillFirst => SentStillFirst'
  BY DEF SentStillFirst
<1> QED
  BY <1>1, <1>2, SentMeans DEF SentInv

(* The start of an operation that has sent nothing yet. *)
LEMMA NothingSent ==
  ASSUME SentInv, UNCHANGED <<stored, published, system>>,
         sentReadings' = 0, sentSystem' = 0
  PROVE  SentWasPublished'
<1>1. published' <= stored'
  BY SentMeans DEF SentInv
<1>2. SentStillFirst'
  BY Numbers DEF SentInv, TokenInv, SentStillFirst
<1> QED
  BY <1>1, <1>2, SentMeans

(* A step that is not in the exchange afterwards. *)
LEMMA NotExchanging ==
  ASSUME SentInv, UNCHANGED <<stored, published>>, ~Exchanging'
  PROVE  SentWasPublished'
BY SentMeans DEF SentInv

(* The number of the newest reading published so far, when n more than r   *)
(* have been.                                                              *)
LEMMA NewestPublished ==
  ASSUME NEW s \in Nat, NEW r \in Nat, r <= s, NEW p \in Nat, p <= s, NEW n \in 0..(s - r),
         NEW q, q = IF r + n > p THEN r + n ELSE p
  PROVE  q \in p..s /\ q <= s /\ r + n <= q
<1>1. s - r \in Nat /\ n \in Nat /\ n <= s - r
  OBVIOUS
<1>2. r + n \in Nat /\ r + n <= s
  BY <1>1
<1>3. CASE r + n > p
  BY <1>2, <1>3
<1>4. CASE ~(r + n > p)
  BY <1>2, <1>4
<1> QED
  BY <1>3, <1>4

(* What the handle publishes is in the buffer, and counted. *)
LEMMA PublishKeeps ==
  ASSUME SentInv, Publish, UNCHANGED <<stored, removed, system>>
  PROVE  SentWasPublished' /\ published' \in published..stored
<1>1. /\ stored \in Nat /\ removed \in Nat /\ removed <= stored /\ published \in Nat
      /\ system \in Nat /\ published <= stored
  BY Numbers, SentMeans DEF SentInv, TokenInv
<1>2. /\ sentReadings' \in 0..(stored - removed)
      /\ published' = IF removed + sentReadings' > published THEN removed + sentReadings'
                                                             ELSE published
  BY DEF Publish, readingsCount
<1>3. sentSystem' \in 0..system
  BY DEF Publish
<1>4. /\ published' \in published..stored /\ published' <= stored
      /\ removed + sentReadings' <= published'
  BY <1>1, <1>2, NewestPublished
<1>5. sentSystem' <= system
  BY <1>1, <1>3
<1>6. removed' = removed /\ stored' = stored /\ system' = system
  OBVIOUS
<1> QED
  BY <1>4, <1>5, <1>6, SentMeans DEF SentStillFirst

-------------------------------------------------------------------------------
(* Nothing has been sent to begin with.                                    *)
LEMMA InitSentInv == Init => SentInv
<1> SUFFICES ASSUME Init PROVE SentInv
  OBVIOUS
<1>1. TokenInv
  BY InitTokenInv
<1>2. published <= stored /\ ~Exchanging
  BY DEF Init, Exchanging
<1> QED
  BY <1>1, <1>2, SentMeans DEF SentInv

(* No handler, and no reset, shifts the buffers between a send and the     *)
(* removal of what it sent.                                                *)
LEMMA RestartSent ==
  ASSUME SentInv, NEW start, Restart(start)
  PROVE  SentWasPublished'
<1>1. UNCHANGED <<stored, published>> /\ ~Exchanging'
  BY DEF Restart, Exchanging
<1> QED
  BY <1>1, NotExchanging

(* An event that is handled keeps what was sent the first of what is       *)
(* stored.                                                                 *)
LEMMA HandleEventSent ==
  ASSUME SentInv, HandleEvent
  PROVE  SentWasPublished'
<1>1. CASE IdleAcquire
  <2>1. /\ stored' = stored \/ stored' = stored + 1
        /\ UNCHANGED <<removed, published, sentReadings, system, sentSystem>>
        /\ UNCHANGED <<top, phase, task>>
    BY <1>1 DEF IdleAcquire, Store
  <2> QED
    BY <2>1, StoringKeeps DEF Exchanging
<1>2. CASE CommandReceived
  <2>1. /\ UNCHANGED <<stored, removed, published, sentReadings, system, sentSystem>>
        /\ UNCHANGED <<top, phase>> /\ task = "LOOP"
    BY <1>2 DEF CommandReceived, Pop
  <2> QED
    BY <2>1, StoringKeeps DEF Exchanging
<1>3. CASE StartExchange
  <2>1. /\ UNCHANGED <<stored, published, system>> /\ sentReadings' = 0 /\ sentSystem' = 0
    BY <1>3 DEF StartExchange
  <2> QED
    BY <2>1, NothingSent
<1>4. CASE UsbConnected
  <2>1. /\ UNCHANGED <<stored, removed, published, sentReadings, system, sentSystem>>
        /\ UNCHANGED <<top, phase, task>>
    BY <1>4 DEF UsbConnected
  <2> QED
    BY <2>1, StoringKeeps DEF Exchanging
<1>5. CASE Reload
  BY <1>5, RestartSent DEF Reload
<1>6. CASE Unhandled
  <2>1. /\ UNCHANGED <<stored, removed, published, sentReadings, system, sentSystem>>
        /\ UNCHANGED <<top, phase, task>>
    BY <1>6 DEF Unhandled
  <2> QED
    BY <2>1, StoringKeeps DEF Exchanging
<1>7. CASE ProcessContinues
  <2>1. UNCHANGED <<stored, removed, system, top, phase, task>>
    BY <1>7 DEF ProcessContinues
  <2>2. CASE Publish
    BY <2>1, <2>2, PublishKeeps
  <2>3. CASE ReceiveCommands \/ Nothing
    <3>1. UNCHANGED <<published, sentReadings, sentSystem>>
      BY <2>3 DEF ReceiveCommands, Nothing
    <3> QED
      BY <2>1, <3>1, StoringKeeps DEF Exchanging
  <2> QED
    BY <1>7, <2>2, <2>3 DEF ProcessContinues
<1>8. CASE ProcessFinished
  <2>1. /\ UNCHANGED <<stored, removed, published, sentReadings, system, sentSystem>>
        /\ UNCHANGED <<top, phase, task>>
    BY <1>8 DEF ProcessFinished
  <2> QED
    BY <2>1, StoringKeeps DEF Exchanging
<1>9. CASE SendDone \/ ReceiveDoneWithout
  <2>1. /\ UNCHANGED <<stored, removed, published, sentReadings, system, sentSystem>>
        /\ UNCHANGED <<top, task>> /\ top = "EXCHANGE" /\ phase \in {"SEND", "RECEIVE"}
    BY <1>9 DEF SendDone, ReceiveDoneWithout
  <2> QED
    BY <2>1, StoringKeeps DEF Exchanging
<1>10. CASE ReceiveDoneWithCommands
  <2>1. UNCHANGED <<stored, published>> /\ task' = "EXECUTE_SERVER"
    BY <1>10 DEF ReceiveDoneWithCommands
  <2> QED
    BY <2>1, NotExchanging DEF Exchanging
<1>11. CASE DisconnectDone
  <2>1. UNCHANGED <<stored, published>> /\ phase' = "STOP"
    BY <1>11 DEF DisconnectDone, EnterPhase
  <2> QED
    BY <2>1, NotExchanging DEF Exchanging
<1>12. CASE StopDone
  <2>1. UNCHANGED <<stored, published>> /\ top' = "IDLE"
    BY <1>12 DEF StopDone, EnterIdle
  <2> QED
    BY <2>1, NotExchanging DEF Exchanging
<1> QED
  BY <1>1, <1>2, <1>3, <1>4, <1>5, <1>6, <1>7, <1>8, <1>9, <1>10, <1>11, <1>12 DEF HandleEvent

(* Commands that clear the buffers run in IDLE or for the server: those of *)
(* the user are refused during the exchange.                               *)
LEMMA ExecuteSent ==
  ASSUME SentInv, ExecuteCommand \/ CommandsExecuted
  PROVE  SentWasPublished'
<1>1. Callers /\ task \in Tasks
  BY DEF SentInv, TokenInv, TypeOK
<1>2. CASE ExecuteCommand
  <2>1. UNCHANGED <<stored, published, sentReadings, sentSystem, top, phase, task>> /\ task # "LOOP"
    BY <1>2 DEF ExecuteCommand
  <2>2. CASE task = "EXECUTE_BUSY"
    <3>1. UNCHANGED <<removed, system>>
      <4>1. CASE Refused(Head(commands))
        BY <1>2, <4>1 DEF ExecuteCommand
      <4>2. CASE ~Refused(Head(commands))
        <5>1. Head(commands).kind # "CLEAR"
          BY <2>2, <4>2 DEF Refused, Writes
        <5> QED
          BY <1>2, <4>2, <5>1 DEF ExecuteCommand, Effect
      <4> QED
        BY <4>1, <4>2
    <3> QED
      BY <2>1, <3>1, StoringKeeps DEF Exchanging
  <2>3. CASE task # "EXECUTE_BUSY"
    <3>1. ~Exchanging'
      BY <1>1, <2>1, <2>3 DEF Callers, Exchanging, Tasks
    <3> QED
      BY <2>1, <3>1, NotExchanging
  <2> QED
    BY <2>2, <2>3
<1>3. CASE CommandsExecuted
  <2>1. UNCHANGED <<stored, removed, published, system, top>> /\ task # "LOOP"
    BY <1>3 DEF CommandsExecuted
  <2>2. CASE task # "EXECUTE_SERVER"
    <3>1. UNCHANGED <<sentReadings, sentSystem, phase>>
      BY <1>3, <2>2 DEF CommandsExecuted
    <3> QED
      BY <2>1, <2>2, <3>1, StoringKeeps DEF Exchanging
  <2>3. CASE task = "EXECUTE_SERVER"
    <3>1. (sentReadings' = 0 /\ sentSystem' = 0) \/ phase' = "DISCONNECT"
      BY <1>3, <2>3 DEF CommandsExecuted, EnterPhase
    <3> QED
      BY <2>1, <3>1, NothingSent, NotExchanging DEF Exchanging
  <2> QED
    BY <2>2, <2>3
<1> QED
  BY <1>2, <1>3

(* So does what happens outside of the state machine.                      *)
LEMMA EnvironmentSent ==
  ASSUME SentInv, Environment
  PROVE  SentWasPublished'
<1>1. CASE Reset
  BY <1>1, RestartSent DEF Reset
<1>2. CASE ~Reset
  <2>1. /\ stored' = stored \/ stored' = stored + 1
        /\ UNCHANGED <<removed, published, sentReadings, system, sentSystem>>
        /\ UNCHANGED <<top, phase, task>>
    BY <1>2 DEF Environment, MinuteExpired, Movement, Store, CommandTyped, UsbChanged,
                VoltageMeasured
  <2> QED
    BY <2>1, StoringKeeps DEF Exchanging
<1> QED
  BY <1>1, <1>2

(* Every step keeps it.                                                    *)
LEMMA NextSentInv == SentInv /\ [Next]_vars => SentInv'
<1> SUFFICES ASSUME SentInv, [Next]_vars PROVE SentInv'
  OBVIOUS
<1>1. TokenInv'
  BY NextTokenInv DEF SentInv
<1>2. SentWasPublished'
  <2>1. CASE UNCHANGED vars
    BY <2>1, StoringKeeps DEF Exchanging
  <2> QED
    BY <2>1, HandleEventSent, ExecuteSent, EnvironmentSent DEF Next, MainLoop
<1> QED
  BY <1>1, <1>2 DEF SentInv

(* From the send to the removal after the receive the buffers start with   *)
(* what was sent, whatever is stored, typed or reset in between.           *)
THEOREM SentStaysFirst == Spec => []SentWasPublished
<1>1. SentInv => SentWasPublished
  BY DEF SentInv
<1> QED
  BY <1>1, InitSentInv, NextSentInv, PTL DEF Spec

-------------------------------------------------------------------------------
(***************************************************************************)
(* The refinement.  "eraseRequested" is an input of Delivery: it may       *)
(* change in every step.                                                   *)
(***************************************************************************)
LEMMA EraseIsInput == EraseRequested' \in BOOLEAN
BY DEF EraseRequested

(* A step that moves none of the three numbers is a Publish of nothing. *)
LEMMA StepNothing ==
  ASSUME SentInv, UNCHANGED <<stored, removed, published>>
  PROVE  Reports!Next
<1>1. published' \in published..stored
  BY Numbers, SentMeans DEF SentInv, TokenInv
<1> QED
  BY <1>1, EraseIsInput DEF Reports!Next, Reports!Publish

(* A reading that is stored is an input of the delivery.                   *)
LEMMA StepStore ==
  ASSUME SentInv, stored' = stored \/ stored' = stored + 1, UNCHANGED <<removed, published>>
  PROVE  Reports!Next
<1>1. CASE stored' = stored
  BY <1>1, StepNothing
<1>2. CASE stored' = stored + 1
  BY <1>2, EraseIsInput DEF Reports!Next, Reports!Record
<1> QED
  BY <1>1, <1>2

(* So is the erasure that a command asks for.                              *)
LEMMA StepErase ==
  ASSUME EraseRequested, removed' = stored, UNCHANGED <<stored, published>>
  PROVE  Reports!Next
BY EraseIsInput DEF Reports!Next, Reports!Erase

(* The removal at the end of a receive. *)
LEMMA StepAcknowledge ==
  ASSUME SentInv, ReceiveDoneWithCommands
  PROVE  Reports!Next
<1>1. UNCHANGED <<stored, published>> /\ removed' = Smaller(removed + sentReadings, stored)
  BY DEF ReceiveDoneWithCommands, RemoveReadings
<1>2. sentReadings = 0 \/ removed + sentReadings <= published
  <2>1. Exchanging
    BY DEF ReceiveDoneWithCommands, Pop, Exchanging
  <2> QED
    BY <2>1, SentMeans DEF SentInv, SentStillFirst
<1>3. /\ stored \in Nat /\ removed \in Nat /\ removed <= stored /\ published \in Nat
      /\ sentReadings \in Nat /\ published <= stored
  BY Numbers, SentMeans DEF SentInv, TokenInv
<1>4. removed' = removed \/ (removed' > removed /\ removed' <= published)
  BY <1>1, <1>2, <1>3 DEF Smaller
<1>5. CASE removed' = removed
  BY <1>1, <1>5, StepNothing
<1>6. CASE removed' > removed /\ removed' <= published
  BY <1>1, <1>6, EraseIsInput DEF Reports!Next, Reports!Acknowledge
<1> QED
  BY <1>4, <1>5, <1>6

(* An event that is handled is a step of the delivery.                     *)
LEMMA HandleEventDelivers ==
  ASSUME SentInv, HandleEvent
  PROVE  Reports!Next
<1>1. CASE IdleAcquire
  BY <1>1, StepStore DEF IdleAcquire, Store
<1>2. CASE Reload
  <2>1. EraseRequested /\ removed' = stored /\ UNCHANGED <<stored, published>>
    BY <1>2 DEF Reload, Restart, EraseRequested
  <2> QED
    BY <2>1, StepErase
<1>3. CASE ProcessContinues
  <2>1. UNCHANGED <<stored, removed, system>>
    BY <1>3 DEF ProcessContinues
  <2>2. CASE Publish
    <3>1. published' \in published..stored
      BY <2>1, <2>2, PublishKeeps
    <3> QED
      BY <2>1, <3>1, EraseIsInput DEF Reports!Next, Reports!Publish
  <2>3. CASE ReceiveCommands \/ Nothing
    BY <2>1, <2>3, StepNothing DEF ReceiveCommands, Nothing
  <2> QED
    BY <1>3, <2>2, <2>3 DEF ProcessContinues
<1>4. CASE ReceiveDoneWithCommands
  BY <1>4, StepAcknowledge
<1>5. CASE \/ CommandReceived \/ StartExchange \/ UsbConnected \/ Unhandled
           \/ ProcessFinished \/ SendDone \/ ReceiveDoneWithout \/ DisconnectDone \/ StopDone
  <2>1. UNCHANGED <<stored, removed, published>>
    BY <1>5 DEF CommandReceived, StartExchange, UsbConnected, Unhandled, ProcessFinished,
                SendDone, ReceiveDoneWithout, DisconnectDone, StopDone
  <2> QED
    BY <2>1, StepNothing
<1> QED
  BY <1>1, <1>2, <1>3, <1>4, <1>5 DEF HandleEvent

(* So is a command that is executed.                                       *)
LEMMA ExecuteDelivers ==
  ASSUME SentInv, ExecuteCommand \/ CommandsExecuted
  PROVE  Reports!Next
<1>1. UNCHANGED <<stored, published>>
  BY DEF ExecuteCommand, CommandsExecuted
<1>2. CASE removed' = removed
  BY <1>1, <1>2, StepNothing
<1>3. CASE removed' # removed
  <2>1. ExecuteCommand
    BY <1>3 DEF CommandsExecuted
  <2>2. ~Refused(Head(commands)) /\ Effect(Head(commands))
    BY <1>3, <2>1 DEF ExecuteCommand
  <2>3. Head(commands).kind = "CLEAR" /\ removed' = stored
    BY <1>3, <2>2 DEF Effect
  <2>4. EraseRequested
    BY <2>1, <2>2, <2>3 DEF ExecuteCommand, EraseRequested
  <2> QED
    BY <1>1, <2>3, <2>4, StepErase
<1> QED
  BY <1>2, <1>3

(* So is what happens outside of the state machine.                        *)
LEMMA EnvironmentDelivers ==
  ASSUME SentInv, Environment
  PROVE  Reports!Next
<1>1. /\ stored' = stored \/ stored' = stored + 1
      /\ UNCHANGED <<removed, published>>
  <2>1. CASE Reset
    <3>1. PICK start \in {"WATCHDOG_RESET", "BROWNOUT_RESET"} : Restart(start)
      BY <2>1 DEF Reset
    <3> QED
      BY <3>1 DEF Restart
  <2> QED
    BY <2>1 DEF Environment, MinuteExpired, Movement, Store, CommandTyped, UsbChanged,
                VoltageMeasured
<1> QED
  BY <1>1, StepStore

(* Nothing is stored to begin with.                                        *)
LEMMA InitDelivers == Init => Reports!Init
BY DEF Init, Reports!Init, EraseRequested, Pop

(* Delivery at least once: no reading is lost between the sensor and the   *)
(* server's answer, in any number of failed exchanges, commands and resets *)
(* that keep the memory, unless a user clears it.                          *)
THEOREM ImplementsDelivery == Spec => DeliversReadings
<1>1. SentInv /\ [Next]_vars => [Reports!Next]_(Reports!vars)
  <2> SUFFICES ASSUME SentInv, [Next]_vars PROVE [Reports!Next]_(Reports!vars)
    OBVIOUS
  <2>1. CASE UNCHANGED vars
    BY <2>1, StepNothing
  <2> QED
    BY <2>1, HandleEventDelivers, ExecuteDelivers, EnvironmentDelivers DEF Next, MainLoop
<1> QED
  BY <1>1, InitSentInv, NextSentInv, InitDelivers, PTL DEF Spec, DeliversReadings, Reports!Spec
===============================================================================
