------------------------------- MODULE MqttProofs ------------------------------
(***************************************************************************)
(* Theorems of the MQTT machine, for every broker and every network.       *)
(***************************************************************************)
EXTENDS Mqtt, EventQueueProofs, SequenceTheorems

(* The queue holds at most two events: what the state at hand waits for    *)
(* (its turn), and the request that is kept until the session is up.       *)
Turn(e)      == mqttEvents = <<e>>
TurnKept(e)  == mqttEvents = <<e, "PUBLISH">> \/ mqttEvents = <<"PUBLISH", e>>
Turns        == {"PROCESS", "DONE"} \cup ({mqttState} \cap Receiving)
Operation    == IF mqttState \in Sending THEN Packet[mqttState] ELSE "RECEIVE"
Done         == Turn("DONE") \/ TurnKept("DONE")
Gone         == Done /\ ~commOk

Resting ==
  /\ mqttEvents = <<>>
  /\ \/ /\ mqttState = "DISCONNECTED"
        /\ \/ mqttCall = "STOP" /\ ~mqttBusy
           \/ mqttCall = "DISCONNECT"
           \/ mqttCall \in {"PUBLISH", "RECEIVE_PUBLISH"} /\ mqttFailed
     \/ /\ mqttState = "CONNECTED" /\ ~mqttFailed
        /\ mqttCall \in {"PUBLISH", "RECEIVE_PUBLISH"}
  /\ mqttCall = "PUBLISH" => (counted <=> ~mqttFailed)

Called ==
  /\ Turn(mqttCall) /\ mqttBusy /\ ~mqttFailed
  /\ mqttCall = "PUBLISH" => ~counted
  /\ \/ mqttState = "DISCONNECTED" /\ mqttCall = "PUBLISH"
     \/ mqttState = "CONNECTED" /\ mqttCall \in {"PUBLISH", "RECEIVE_PUBLISH", "DISCONNECT"}

Joining ==
  /\ mqttState \in Connecting /\ mqttCall = "PUBLISH"
  /\ mqttBusy /\ ~mqttFailed /\ ~counted
  /\ \E e \in Turns : TurnKept(e) /\ (e = "PROCESS" => comm = Operation)

CallOf == [PUBLISH |-> "PUBLISH", RECEIVE_PUBLISH |-> "RECEIVE_PUBLISH",
           SEND_PUBREL |-> "RECEIVE_PUBLISH", SEND_PINGREQ |-> "RECEIVE_PUBLISH",
           RECEIVE_PINGRESP |-> "RECEIVE_PUBLISH", DISCONNECTING |-> "DISCONNECT"]

Working ==
  /\ mqttState \in DOMAIN CallOf /\ mqttCall = CallOf[mqttState]
  /\ mqttBusy /\ ~mqttFailed /\ (mqttCall = "PUBLISH" => ~counted)
  /\ \E e \in Turns : Turn(e) /\ (e = "PROCESS" => comm = Operation)

Aborting ==
  /\ mqttState = "DISCONNECTING" /\ mqttCall = "PUBLISH"
  /\ mqttBusy /\ mqttFailed /\ ~counted
  /\ \/ Turn("PROCESS") /\ comm = "DISCONNECT"
     \/ mqttEvents = <<"PUBLISH", "PROCESS">> /\ comm = "DISCONNECT"
     \/ Turn("DONE")

Stuck ==
  /\ mqttState = "RECEIVE_SUBACK" /\ mqttCall = "PUBLISH"
  /\ mqttBusy /\ mqttFailed /\ ~counted
  /\ TurnKept("STRAY") \/ Turn("PUBLISH")

MachineInv == IF mismatched THEN Stuck
              ELSE Resting \/ Called \/ Joining \/ Working \/ Aborting

(* The first packet of a connection. *)
SessionInv ==
  /\ ConnectFirst
  /\ first = "NONE" => \/ closedUnder \/ Gone \/ mqttState = "DISCONNECTED"
                       \/ mqttState = "SEND_CONNECT" /\ ~Done

(* Where the PUBLISH of the exchange is, and what may be taken for its     *)
(* answer.                                                                 *)
Silent == /\ PlacesOf(sent, {"PUBLISH", "PINGREQ"}) = {}
          /\ PlacesOf(inbox, {"ANSWER", "PINGRESP"}) = {}
Accepted == counted \/ (mqttState = "PUBLISH" /\ Done /\ commOk)
NotSent == mqttCall = "STOP" \/ (mqttCall = "PUBLISH" /\ ~Accepted)
Waiting == /\ mqttCall = "RECEIVE_PUBLISH" \/ (mqttCall = "PUBLISH" /\ Accepted)
           /\ ~mqttFailed /\ ~Gone
Received(m) == mqttState \in Receiving /\ Done /\ message = m
Pinged == \/ mqttState \in {"SEND_PINGREQ", "RECEIVE_PINGRESP"}
          \/ /\ mqttState = "CONNECTED" /\ mqttCall = "RECEIVE_PUBLISH"
             /\ mqttEvents = <<>> /\ heard = "NOTHING"
PublishAhead(queue) ==
  \E i \in DOMAIN queue : queue[i] = "PUBLISH" /\ \A j \in 1..i : queue[j] # "PINGREQ"
Answered == mqttState = "CONNECTED" /\ mqttCall = "RECEIVE_PUBLISH" /\ mqttEvents = <<>>

Pending ==
  /\ ~Answered /\ connection # "CLOSED"
  /\ connection = "OPEN" => PublishAhead(sent)
  /\ AtMostOne(sent, {"PUBLISH"})
  /\ PlacesOf(inbox, {"ANSWER", "PINGRESP"}) = {}
  /\ ~Received("ANSWER") /\ ~Received("PINGRESP")
Taken ==
  /\ PlacesOf(sent, {"PUBLISH"}) = {}
  /\ AtMostOne(inbox, {"ANSWER"})
  /\ Received("ANSWER") \/ (Answered /\ heard = "ANSWER") => PlacesOf(inbox, {"ANSWER"}) = {}

AnswerInv ==
  /\ mqttCall = "RECEIVE_PUBLISH" /\ heard = "COMMAND" => overtaken
  /\ mqttCall = "RECEIVE_PUBLISH" /\ heard = "ANSWER" => Answered
  /\ ~overtaken =>
       /\ NotSent => Silent
       /\ Waiting => IF arrived THEN Taken ELSE Pending
       /\ Waiting /\ ~Pinged =>
            PlacesOf(sent, {"PINGREQ"}) = {} /\ PlacesOf(inbox, {"PINGRESP"}) = {}

(* The types of what the queue and the state do not tell. *)
Packets == {Packet[state] : state \in Sending}
NetTypeOK ==
  /\ comm \in {"NONE", "RECEIVE"} \cup Packets
  /\ message \in Messages \cup {"NOTHING"} /\ heard \in Published \cup {"NOTHING"}
  /\ connection \in {"CLOSED", "OPEN", "LOST"}
  /\ broker \in {"NEW", "CONNECTED", "SUBSCRIBED"}
  /\ sent \in Seq(Packets) /\ inbox \in Seq(Messages)
  /\ mqttFailed \in BOOLEAN /\ commOk \in BOOLEAN /\ counted \in BOOLEAN
  /\ mqttBusy \in BOOLEAN /\ arrived \in BOOLEAN /\ mismatched \in BOOLEAN
  /\ overtaken \in BOOLEAN /\ closedUnder \in BOOLEAN

MqttInv == NetTypeOK /\ MachineInv /\ SessionInv /\ AnswerInv

-------------------------------------------------------------------------------
(* What the prover has to be told of tuples, of queues with room, and of   *)
(* the tables of states.                                                   *)
LEMMA Tuples ==
  /\ \A e : <<e>> # <<>> /\ Head(<<e>>) = e /\ Tail(<<e>>) = <<>>
  /\ \A e, f : <<e, f>> # <<>> /\ Head(<<e, f>>) = e /\ Tail(<<e, f>>) = <<f>>
  /\ \A e, f : <<e>> = <<f>> => e = f
  /\ \A e, f, g : <<e>> # <<f, g>>
  /\ \A e, f, g, h : <<e, f>> = <<g, h>> => e = g /\ f = h
OBVIOUS

(* An event is added behind what was there. *)
LEMMA Room ==
  ASSUME MqttQueueSize > 1
  PROVE  /\ \A e : MqttAdd(<<>>, e) = <<e>>
         /\ \A e, f : MqttAdd(<<e>>, f) = <<e, f>>
<1>1. MqttQueueSize \in Nat
  BY MqttAssumption
<1>2. /\ Len(<<>>) = 0 /\ \A e : Append(<<>>, e) = <<e>>
      /\ \A e : Len(<<e>>) = 1
  OBVIOUS
<1>3. \A e, f : Append(<<e>>, f) = <<e, f>>
  <2> TAKE e, f
  <2> DEFINE long == Append(<<e>>, f)
  <2>1. <<e>> \in Seq({e, f}) /\ <<e, f>> \in Seq({e, f})
    OBVIOUS
  <2>2. long \in Seq({e, f}) /\ Len(long) = 2 /\ long[1] = e /\ long[2] = f
    BY <2>1
  <2>3. Len(<<e, f>>) = 2 /\ <<e, f>>[1] = e /\ <<e, f>>[2] = f
    OBVIOUS
  <2> HIDE DEF long
  <2>4. long = <<e, f>>
    BY <2>1, <2>2, <2>3, SeqEqual
  <2> QED
    BY <2>4 DEF long
<1>4. 0 < MqttQueueSize /\ 1 < MqttQueueSize
  BY <1>1
<1> QED
  BY <1>2, <1>3, <1>4, Zenon DEF MqttAdd, Put

(* The states that send, and those that work for one call. *)
LEMMA StatesAre ==
  /\ Sending = {"SEND_CONNECT", "SEND_SUBSCRIBE", "PUBLISH", "SEND_PUBREL",
                "SEND_PINGREQ", "DISCONNECTING"}
  /\ DOMAIN CallOf = {"PUBLISH", "RECEIVE_PUBLISH", "SEND_PUBREL", "SEND_PINGREQ",
                      "RECEIVE_PINGRESP", "DISCONNECTING"}
BY DEF Sending, Packet, CallOf

(* What a state sends, where it goes then, which call it works for. *)
LEMMA TablesAre ==
  /\ Packet["SEND_CONNECT"] = "CONNECT" /\ Packet["SEND_SUBSCRIBE"] = "SUBSCRIBE"
  /\ Packet["PUBLISH"] = "PUBLISH" /\ Packet["SEND_PUBREL"] = "ZEROS"
  /\ Packet["SEND_PINGREQ"] = "PINGREQ" /\ Packet["DISCONNECTING"] = "DISCONNECT"
  /\ AfterSend["SEND_CONNECT"] = "RECEIVE_CONNACK"
  /\ AfterSend["SEND_SUBSCRIBE"] = "RECEIVE_SUBACK" /\ AfterSend["PUBLISH"] = "CONNECTED"
  /\ AfterSend["SEND_PUBREL"] = "RECEIVE_PUBLISH"
  /\ AfterSend["SEND_PINGREQ"] = "RECEIVE_PINGRESP"
  /\ AfterSend["DISCONNECTING"] = "DISCONNECTED"
  /\ CallOf["PUBLISH"] = "PUBLISH" /\ CallOf["DISCONNECTING"] = "DISCONNECT"
  /\ \A state \in {"RECEIVE_PUBLISH", "SEND_PUBREL", "SEND_PINGREQ", "RECEIVE_PINGRESP"} :
       CallOf[state] = "RECEIVE_PUBLISH"
BY DEF Packet, AfterSend, CallOf

(* The machine before its first call. *)
LEMMA MqttInitInv == MqttInit => MqttInv
<1> SUFFICES ASSUME MqttInit PROVE MqttInv
  OBVIOUS
<1>1. NetTypeOK
  <2>1. sent \in Seq(Packets) /\ inbox \in Seq(Messages)
    BY DEF MqttInit
  <2> QED
    BY <2>1 DEF MqttInit, NetTypeOK
<1>2. MachineInv
  BY DEF MqttInit, MachineInv, Resting
<1>3. SessionInv
  BY DEF MqttInit, SessionInv, ConnectFirst
<1>4. AnswerInv
  BY DEF MqttInit, AnswerInv, Silent, PlacesOf, Waiting, NotSent
<1> QED
  BY <1>1, <1>2, <1>3, <1>4 DEF MqttInv

-------------------------------------------------------------------------------
(* The queue and the states. *)

(* PROCESS is polled: the operation that runs is that of the state. *)
LEMMA PolledMachine ==
  ASSUME MachineInv, MqttQueueSize > 1, NEW event \in {"PROCESS", "DONE"}, Polled(event)
  PROVE  /\ MachineInv' /\ comm = Operation /\ ~Done /\ ~Answered /\ ~Answered'
         /\ mqttState # "DISCONNECTED" /\ ~mismatched
         /\ event = "DONE" => Done'
         /\ event = "PROCESS" => ~Done'
<1> USE DEF Turn, TurnKept
<1>1. /\ mqttBusy /\ mqttEvents # <<>> /\ Head(mqttEvents) = "PROCESS"
      /\ mqttEvents' = MqttAdd(Tail(mqttEvents), event)
      /\ UNCHANGED <<mqttBusy, mqttCall, mqttState, mqttFailed, comm, counted, mismatched>>
  BY DEF Polled, MqttPop, Rest, callVars, history
<1>2. ~mismatched /\ ~Resting /\ ~Called
  BY <1>1, Tuples DEF MachineInv, Stuck, Resting, Called
<1>3. CASE Joining
  <2>1. mqttEvents = <<"PROCESS", "PUBLISH">> /\ comm = Operation
    BY <1>1, <1>3, Tuples DEF Joining
  <2>2. mqttEvents' = <<"PUBLISH", event>>
    BY <1>1, <2>1, Tuples, Room
  <2>3. Joining'
    BY <1>1, <1>3, <2>1, <2>2 DEF Joining, Turns, Operation
  <2> QED
    BY <1>1, <1>2, <1>3, <2>1, <2>2, <2>3, Tuples DEF MachineInv, Done, Answered,
       Joining, Connecting
<1>4. CASE Working
  <2>1. mqttEvents = <<"PROCESS">> /\ comm = Operation
    BY <1>1, <1>4, Tuples DEF Working
  <2>2. mqttEvents' = <<event>>
    BY <1>1, <2>1, Tuples, Room
  <2>3. Working'
    BY <1>1, <1>4, <2>1, <2>2 DEF Working, Turns, Operation
  <2> QED
    BY <1>1, <1>2, <1>4, <2>1, <2>2, <2>3, Tuples, StatesAre
    DEF MachineInv, Done, Answered, Working
<1>5. CASE Aborting
  <2>1. mqttEvents = <<"PROCESS">> /\ comm = Operation
    BY <1>1, <1>5, Tuples, StatesAre, TablesAre DEF Aborting, Operation
  <2>2. mqttEvents' = <<event>>
    BY <1>1, <2>1, Tuples, Room
  <2>3. Aborting'
    BY <1>1, <1>5, <2>1, <2>2, StatesAre, TablesAre DEF Aborting, Operation
  <2> QED
    BY <1>1, <1>2, <1>5, <2>1, <2>2, <2>3, Tuples DEF MachineInv, Done, Answered, Aborting
<1> QED
  BY <1>2, <1>3, <1>4, <1>5 DEF MachineInv

(* What Enter adds to the queue, and what it starts. *)
LEMMA EnterIs ==
  ASSUME NEW state, NEW queue, Enter(state, queue)
  PROVE  /\ mqttState' = state
         /\ state \in Sending =>
              comm' = Packet[state] /\ mqttEvents' = MqttAdd(queue, "PROCESS")
         /\ state \in Receiving =>
              comm' = comm /\ mqttEvents' = MqttAdd(queue, state)
         /\ state = "CONNECTED" => comm' = comm /\ mqttEvents' = queue
         /\ state = "DISCONNECTED" => comm' = comm /\ mqttEvents' = <<>>
<1>1. Sending \cap Receiving = {} /\ "DISCONNECTED" \notin Sending \cup Receiving
      /\ "CONNECTED" \notin Sending \cup Receiving
  BY StatesAre DEF Receiving
<1> QED
  BY <1>1 DEF Enter

(* A request is at the head of the queue. *)
LEMMA RequestMachine ==
  ASSUME MachineInv, MqttQueueSize > 1,
         StartConnecting \/ MqttParametersMissing \/ StartRequest \/ StartDisconnecting
  PROVE  Called /\ MachineInv' /\ ~Done /\ ~Done' /\ ~Answered'
<1> USE DEF Turn, TurnKept
<1>1. /\ mqttBusy /\ mqttEvents # <<>> /\ mqttBusy' = mqttBusy /\ mqttCall' = mqttCall
      /\ UNCHANGED <<counted, mismatched>>
      /\ Head(mqttEvents) \in Requests \cup {"DISCONNECT"}
      /\ \/ mqttState = "DISCONNECTED"
         \/ mqttState \in InSession /\ Head(mqttEvents) \notin {mqttState} \cap Receiving
  BY DEF StartConnecting, MqttParametersMissing, StartRequest, StartDisconnecting, MqttPop,
         callVars, history, Requests, Receiving
<1>2. mqttState \notin Connecting \cup {"DISCONNECTING"}
  BY <1>1 DEF InSession, Connecting
<1>3. ~mismatched /\ ~Resting /\ ~Joining /\ ~Aborting
  BY <1>1, <1>2 DEF MachineInv, Stuck, Resting, Joining, Aborting, Connecting
<1>4. ~Working
  <2> SUFFICES ASSUME Working PROVE FALSE
    OBVIOUS
  <2>1. PICK e \in Turns : mqttEvents = <<e>>
    BY DEF Working
  <2>2. Head(mqttEvents) = e
    BY <2>1, Tuples
  <2>3. mqttState # "DISCONNECTED"
    BY StatesAre DEF Working
  <2> QED
    BY <1>1, <2>2, <2>3 DEF Turns, Requests
<1>5. Called
  BY <1>3, <1>4 DEF MachineInv
<1>6. mqttEvents = <<mqttCall>> /\ Head(mqttEvents) = mqttCall /\ Rest = <<>>
  BY <1>5, Tuples DEF Called, Rest
<1>7. ~Done
  BY <1>5, <1>6, Tuples DEF Done, Called
<1>8. CASE StartConnecting
  <2>1. /\ mqttState = "DISCONNECTED" /\ mqttCall = "PUBLISH" /\ UNCHANGED mqttFailed
        /\ Enter("SEND_CONNECT", <<"PUBLISH">>)
    BY <1>5, <1>6, <1>8, Room DEF StartConnecting, MqttPop, Called
  <2>2. /\ mqttState' = "SEND_CONNECT" /\ comm' = Packet["SEND_CONNECT"]
        /\ mqttEvents' = <<"PUBLISH", "PROCESS">>
    BY <2>1, EnterIs, StatesAre, Room
  <2>3. Joining'
    BY <1>1, <1>5, <2>1, <2>2, StatesAre
    DEF Joining, Called, Turns, Operation, Connecting
  <2> QED
    BY <1>1, <1>3, <1>5, <1>7, <2>2, <2>3, Tuples DEF MachineInv, Done, Answered
<1>9. CASE MqttParametersMissing
  <2>1. /\ mqttState' = "DISCONNECTED" /\ mqttCall = "PUBLISH" /\ mqttFailed'
        /\ mqttEvents' = <<>>
    BY <1>5, <1>6, <1>9, Zenon DEF MqttParametersMissing, MqttPop, Called
  <2>2. Resting'
    BY <1>1, <1>5, <2>1 DEF Resting, Called
  <2> QED
    BY <1>1, <1>3, <1>5, <1>7, <2>1, <2>2, Tuples DEF MachineInv, Done, Answered
<1>10. CASE StartRequest
  <2>1. /\ mqttCall \in {"PUBLISH", "RECEIVE_PUBLISH"} /\ UNCHANGED mqttFailed
        /\ Enter(mqttCall, <<>>)
    BY <1>5, <1>6, <1>10 DEF StartRequest, MqttPop, Called, Requests
  <2>2. /\ mqttState' = mqttCall
        /\ mqttCall = "PUBLISH" => comm' = Packet["PUBLISH"] /\ mqttEvents' = <<"PROCESS">>
        /\ mqttCall = "RECEIVE_PUBLISH" => mqttEvents' = <<"RECEIVE_PUBLISH">>
    BY <2>1, EnterIs, StatesAre, Room DEF Receiving
  <2>3. Working'
    BY <1>1, <1>5, <2>1, <2>2, StatesAre, TablesAre
    DEF Working, Called, Turns, Operation, Receiving
  <2> QED
    BY <1>1, <1>3, <1>5, <1>7, <2>1, <2>2, <2>3, Tuples DEF MachineInv, Done, Answered
<1>11. CASE StartDisconnecting
  <2>1. /\ mqttCall = "DISCONNECT" /\ UNCHANGED mqttFailed
        /\ Enter("DISCONNECTING", <<>>)
    BY <1>5, <1>6, <1>11 DEF StartDisconnecting, MqttPop, Called
  <2>2. /\ mqttState' = "DISCONNECTING" /\ comm' = Packet["DISCONNECTING"]
        /\ mqttEvents' = <<"PROCESS">>
    BY <2>1, EnterIs, StatesAre, Room
  <2>3. Working'
    BY <1>1, <1>5, <2>1, <2>2, StatesAre, TablesAre DEF Working, Called, Turns, Operation
  <2> QED
    BY <1>1, <1>3, <1>5, <1>7, <2>1, <2>2, <2>3, Tuples DEF MachineInv, Done, Answered
<1> QED
  BY <1>8, <1>9, <1>10, <1>11

(* A sending state has done its work. *)
LEMMA SentMachine ==
  ASSUME MachineInv, MqttQueueSize > 1, Sent
  PROVE  /\ MachineInv' /\ Done /\ ~Done' /\ ~Answered' /\ ~mismatched
         /\ mqttState = "PUBLISH" => mqttCall = "PUBLISH"
         /\ mqttCall = "PUBLISH" => ~counted
         /\ mqttState' = IF commOk THEN AfterSend[mqttState] ELSE "DISCONNECTED"
<1> USE DEF Turn, TurnKept
<1>1. /\ mqttBusy /\ mqttEvents # <<>> /\ mqttBusy' = mqttBusy /\ mqttCall' = mqttCall
      /\ UNCHANGED mismatched
      /\ mqttState \in Sending /\ Head(mqttEvents) = "DONE"
      /\ commOk => Enter(AfterSend[mqttState], Rest) /\ UNCHANGED mqttFailed
      /\ ~commOk => mqttFailed' /\ Enter("DISCONNECTED", Rest)
      /\ counted' = IF mqttState = "PUBLISH" THEN commOk ELSE counted
  BY DEF Sent, MqttPop, callVars, history, Fail
<1>2. ~mismatched /\ ~Resting /\ ~Called
  BY <1>1, Tuples DEF MachineInv, Stuck, Resting, Called
<1>3. ~commOk => mqttState' = "DISCONNECTED" /\ mqttEvents' = <<>>
  BY <1>1, EnterIs
<1>4. /\ Done /\ mqttState \in Connecting \cup DOMAIN CallOf
      /\ mqttEvents' = <<>> \/ commOk
      /\ mqttCall # "STOP"
      /\ mqttCall = "PUBLISH" => ~counted
      /\ mqttState = "PUBLISH" => mqttCall = "PUBLISH"
      /\ mqttCall = "PUBLISH" => mqttState \in Connecting \cup {"PUBLISH", "DISCONNECTING"}
      /\ mqttCall \in {"PUBLISH", "RECEIVE_PUBLISH", "DISCONNECT"}
  <2>1. CASE Joining
    BY <1>1, <1>3, <2>1, Tuples DEF Joining, Connecting, Done
  <2>2. CASE Working
    BY <1>1, <1>3, <2>2, StatesAre, TablesAre, Tuples DEF Working, Done
  <2>3. CASE Aborting
    BY <1>1, <1>3, <2>3, StatesAre, Tuples DEF Aborting, Done
  <2> QED
    BY <1>2, <2>1, <2>2, <2>3 DEF MachineInv
<1>5. CASE ~commOk
  <2>1. Resting'
    BY <1>1, <1>3, <1>4, <1>5 DEF Resting
  <2> QED
    BY <1>1, <1>2, <1>3, <1>4, <1>5, <2>1, Tuples DEF MachineInv, Done, Answered
<1>6. CASE commOk /\ Joining
  <2>0. mqttState \in {"SEND_CONNECT", "SEND_SUBSCRIBE"}
    BY <1>1, <1>6, StatesAre DEF Joining, Connecting
  <2>1. mqttEvents = <<"DONE", "PUBLISH">> /\ Rest = <<"PUBLISH">>
    <3>1. PICK e \in Turns : TurnKept(e)
      BY <1>6 DEF Joining
    <3>2. mqttEvents = <<"DONE", "PUBLISH">>
      BY <1>1, <3>1, Tuples
    <3> QED
      BY <3>2, Tuples DEF Rest
  <2>2. /\ mqttState' = AfterSend[mqttState]
        /\ mqttState' \in {"RECEIVE_CONNACK", "RECEIVE_SUBACK"}
        /\ mqttEvents' = <<"PUBLISH", mqttState'>>
    BY <1>1, <1>6, <2>0, <2>1, EnterIs, TablesAre, Room DEF Receiving
  <2>3. mqttState' \in Turns' /\ mqttState' # "PROCESS" /\ mqttState' \in Connecting
    BY <2>2 DEF Turns, Connecting, Receiving
  <2>4. counted' = counted
    BY <1>1, <2>0
  <2>5. TurnKept(mqttState)'
    BY <2>2
  <2>6. /\ mqttCall' = "PUBLISH" /\ mqttBusy' /\ ~mqttFailed' /\ ~counted'
    <3>1. mqttCall = "PUBLISH" /\ mqttBusy /\ ~mqttFailed /\ ~counted /\ commOk
      BY <1>6 DEF Joining
    <3>2. mqttFailed' = mqttFailed
      BY <1>1, <3>1
    <3>3. mqttCall' = mqttCall /\ mqttBusy' = mqttBusy
      BY <1>1
    <3> QED
      BY <2>4, <3>1, <3>2, <3>3
  <2>7. Joining'
    BY <2>3, <2>5, <2>6 DEF Joining
  <2> QED
    BY <1>1, <1>2, <1>4, <1>6, <2>2, <2>7, Tuples DEF MachineInv, Done, Answered
<1>7. CASE commOk /\ Working
  <2>1. mqttEvents = <<"DONE">> /\ Rest = <<>>
    BY <1>1, <1>7, Tuples DEF Working, Rest
  <2>2. CASE mqttState = "PUBLISH"
    <3>1. mqttState' = "CONNECTED" /\ mqttEvents' = <<>>
      BY <1>1, <1>7, <2>1, <2>2, EnterIs, TablesAre
    <3>2. Resting'
      BY <1>1, <1>4, <1>7, <2>2, <3>1 DEF Resting, Working
    <3> QED
      BY <1>1, <1>2, <1>4, <1>7, <2>2, <3>1, <3>2, TablesAre, Tuples
      DEF MachineInv, Done, Answered
  <2>3. CASE mqttState = "DISCONNECTING"
    <3>1. mqttState' = "DISCONNECTED" /\ mqttEvents' = <<>> /\ mqttCall = "DISCONNECT"
      BY <1>1, <1>7, <2>1, <2>3, EnterIs, TablesAre DEF Working
    <3>2. Resting'
      BY <1>1, <1>7, <3>1 DEF Resting
    <3> QED
      BY <1>1, <1>2, <1>4, <1>7, <2>3, <3>1, <3>2, TablesAre, Tuples
      DEF MachineInv, Done, Answered
  <2>4. CASE mqttState \in {"SEND_PUBREL", "SEND_PINGREQ"}
    <3>1. /\ mqttState' = AfterSend[mqttState]
          /\ mqttState' \in {"RECEIVE_PUBLISH", "RECEIVE_PINGRESP"}
          /\ mqttEvents' = <<mqttState'>> /\ mqttCall = "RECEIVE_PUBLISH"
      BY <1>1, <1>7, <2>1, <2>4, EnterIs, TablesAre, Room DEF Receiving, Working
    <3>2. mqttState' \in Turns' /\ mqttState' # "PROCESS"
      BY <3>1 DEF Turns, Receiving
    <3>3. mqttState' \in DOMAIN CallOf /\ CallOf[mqttState'] = "RECEIVE_PUBLISH"
      BY <3>1, StatesAre, TablesAre
    <3>4. Working'
      BY <1>1, <1>7, <3>1, <3>2, <3>3 DEF Working
    <3> QED
      BY <1>1, <1>2, <1>4, <1>7, <2>4, <3>1, <3>4, Tuples DEF MachineInv, Done, Answered
  <2> QED
    BY <1>1, <1>7, <2>2, <2>3, <2>4, StatesAre DEF Working
<1>8. CASE commOk /\ Aborting
  <2>1. mqttState' = "DISCONNECTED" /\ mqttEvents' = <<>> /\ mqttFailed'
    BY <1>1, <1>8, EnterIs, TablesAre DEF Aborting
  <2>2. Resting'
    BY <1>1, <1>8, <2>1 DEF Resting, Aborting
  <2> QED
    BY <1>1, <1>2, <1>4, <1>8, <2>1, <2>2, TablesAre, Tuples
    DEF MachineInv, Done, Answered, Aborting
<1> QED
  BY <1>2, <1>5, <1>6, <1>7, <1>8 DEF MachineInv

(* A receiving state starts to receive, when its own event comes. *)
LEMMA StartReceivingMachine ==
  ASSUME MachineInv, MqttQueueSize > 1, StartReceiving
  PROVE  /\ MachineInv' /\ ~Done /\ ~Done' /\ ~Answered' /\ ~Answered
         /\ mqttState \in Receiving
<1> USE DEF Turn, TurnKept
<1>1. /\ mqttBusy /\ mqttEvents # <<>> /\ Head(mqttEvents) = mqttState
      /\ mqttState \in Receiving /\ comm' = "RECEIVE"
      /\ mqttEvents' = MqttAdd(Tail(mqttEvents), "PROCESS")
      /\ UNCHANGED <<mqttBusy, mqttCall, mqttState, mqttFailed, counted, mismatched>>
  BY DEF StartReceiving, MqttPop, Rest, callVars, history
<1>2. /\ mqttState \notin Sending /\ Operation' = "RECEIVE"
      /\ mqttState \notin {"CONNECTED", "DISCONNECTED", "DISCONNECTING", "PUBLISH", "DONE"}
  BY <1>1, StatesAre DEF Receiving, Operation
<1>3. ~mismatched /\ ~Resting /\ ~Called /\ ~Aborting
  BY <1>1, <1>2, Tuples DEF MachineInv, Stuck, Resting, Called, Aborting
<1>4. CASE Joining
  <2>1. PICK e \in Turns : TurnKept(e)
    BY <1>4 DEF Joining
  <2>2. mqttEvents = <<mqttState, "PUBLISH">>
    BY <1>1, <1>2, <2>1, Tuples
  <2>3. mqttEvents' = <<"PUBLISH", "PROCESS">>
    BY <1>1, <2>2, Tuples, Room
  <2>4. Joining'
    BY <1>1, <1>2, <1>4, <2>3 DEF Joining, Turns
  <2> QED
    BY <1>1, <1>2, <1>3, <2>2, <2>3, <2>4, Tuples DEF MachineInv, Done, Answered
<1>5. CASE Working
  <2>1. PICK e \in Turns : Turn(e)
    BY <1>5 DEF Working
  <2>2. mqttEvents = <<mqttState>>
    BY <1>1, <2>1, Tuples
  <2>3. mqttEvents' = <<"PROCESS">>
    BY <1>1, <2>2, Tuples, Room
  <2>4. Working'
    BY <1>1, <1>2, <1>5, <2>3 DEF Working, Turns
  <2> QED
    BY <1>1, <1>2, <1>3, <2>2, <2>3, <2>4, Tuples DEF MachineInv, Done, Answered
<1> QED
  BY <1>3, <1>4, <1>5 DEF MachineInv

(* Events that are put back, or that no state acts upon. *)
LEMMA IdleMachine ==
  ASSUME MachineInv, MqttQueueSize > 1, RetainRequest \/ MqttIgnores
  PROVE  /\ MachineInv' /\ ~Answered /\ ~Answered' /\ mqttState # "PUBLISH"
         /\ Done <=> Done'
<1> USE DEF Turn, TurnKept
<1>1. /\ mqttBusy /\ mqttEvents # <<>>
      /\ \/ /\ mqttState \in Connecting /\ Head(mqttEvents) \in Requests
            /\ mqttEvents' = MqttAdd(Tail(mqttEvents), Head(mqttEvents))
         \/ /\ \/ Head(mqttEvents) = "STRAY"
               \/ /\ mqttState \in {"DISCONNECTED"} \cup Connecting
                  /\ Head(mqttEvents) = "DISCONNECT"
               \/ /\ mqttState = "DISCONNECTING"
                  /\ Head(mqttEvents) \in Requests \cup {"DISCONNECT"}
            /\ mqttEvents' = Tail(mqttEvents)
      /\ UNCHANGED <<mqttBusy, mqttCall, mqttState, mqttFailed, comm, counted, mismatched>>
  BY DEF RetainRequest, MqttIgnores, MqttPop, Rest, callVars, history
<1>2. ~Resting
  BY <1>1 DEF Resting
<1>3. ~Called
  BY <1>1, Tuples DEF Called, Connecting, Requests
<1>4. ~Working
  <2> SUFFICES ASSUME Working PROVE FALSE
    OBVIOUS
  <2>1. PICK e \in Turns : mqttEvents = <<e>>
    BY DEF Working
  <2>2. Head(mqttEvents) = e
    BY <2>1, Tuples
  <2>3. mqttState \notin Connecting /\ mqttState # "DISCONNECTED"
    BY StatesAre DEF Working, Connecting
  <2>4. mqttState = "DISCONNECTING" => e \in {"PROCESS", "DONE"}
    BY DEF Turns, Receiving
  <2> QED
    BY <1>1, <2>2, <2>3, <2>4 DEF Turns, Receiving, Requests
<1>5. CASE mismatched /\ Stuck
  <2>1. mqttState \in Connecting /\ mqttState # "DISCONNECTING"
    BY <1>5 DEF Stuck, Connecting
  <2>2. CASE mqttEvents = <<"STRAY", "PUBLISH">>
    <3>1. Head(mqttEvents) = "STRAY" /\ Tail(mqttEvents) = <<"PUBLISH">>
      BY <2>2, Tuples
    <3>2. mqttEvents' = <<"PUBLISH">>
      BY <1>1, <3>1 DEF Requests
    <3> QED
      BY <1>1, <1>5, <2>2, <3>2, Tuples DEF MachineInv, Stuck, Done, Answered
  <2>3. CASE mqttEvents = <<"PUBLISH", "STRAY">>
    <3>1. Head(mqttEvents) = "PUBLISH" /\ Tail(mqttEvents) = <<"STRAY">>
      BY <2>3, Tuples
    <3>2. mqttEvents' = <<"STRAY", "PUBLISH">>
      BY <1>1, <2>1, <3>1, Room
    <3> QED
      BY <1>1, <1>5, <2>3, <3>2, Tuples DEF MachineInv, Stuck, Done, Answered
  <2>4. CASE mqttEvents = <<"PUBLISH">>
    <3>1. Head(mqttEvents) = "PUBLISH" /\ Tail(mqttEvents) = <<>>
      BY <2>4, Tuples
    <3>2. mqttEvents' = <<"PUBLISH">>
      BY <1>1, <2>1, <3>1, Room
    <3> QED
      BY <1>1, <1>5, <2>4, <3>2, Tuples DEF MachineInv, Stuck, Done, Answered
  <2> QED
    BY <1>5, <2>2, <2>3, <2>4 DEF Stuck
<1>6. CASE ~mismatched /\ Joining
  <2>1. PICK e \in Turns : TurnKept(e) /\ (e = "PROCESS" => comm = Operation)
    BY <1>6 DEF Joining
  <2>2. mqttState \in Connecting /\ mqttState # "DISCONNECTING"
    BY <1>6 DEF Joining, Connecting
  <2>3. e \notin Requests \cup {"STRAY", "DISCONNECT"}
    BY <2>2 DEF Turns, Receiving, Requests, Connecting
  <2>4. mqttEvents = <<"PUBLISH", e>>
    BY <1>1, <2>1, <2>2, <2>3, Tuples
  <2>5. Head(mqttEvents) = "PUBLISH" /\ Tail(mqttEvents) = <<e>>
    BY <2>4, Tuples
  <2>6. mqttEvents' = <<e, "PUBLISH">>
    BY <1>1, <2>2, <2>5, Room
  <2>7. Turns' = Turns /\ Operation' = Operation
    BY <1>1 DEF Turns, Operation
  <2>8. Joining'
    BY <1>1, <1>6, <2>1, <2>6, <2>7 DEF Joining
  <2> QED
    BY <1>1, <1>6, <2>2, <2>4, <2>6, <2>8, Tuples
    DEF MachineInv, Done, Answered, Connecting
<1>7. CASE ~mismatched /\ Aborting
  <2>1. mqttState = "DISCONNECTING" /\ mqttState \notin Connecting
    BY <1>7 DEF Aborting, Connecting
  <2>2. mqttEvents = <<"PUBLISH", "PROCESS">> /\ comm = "DISCONNECT"
    BY <1>1, <1>7, <2>1, Tuples DEF Aborting, Requests
  <2>3. Head(mqttEvents) = "PUBLISH" /\ Tail(mqttEvents) = <<"PROCESS">>
    BY <2>2, Tuples
  <2>4. mqttEvents' = <<"PROCESS">>
    BY <1>1, <2>1, <2>3
  <2> QED
    BY <1>1, <1>7, <2>1, <2>2, <2>4, Tuples DEF MachineInv, Aborting, Done, Answered
<1> QED
  BY <1>2, <1>3, <1>4, <1>5, <1>6, <1>7 DEF MachineInv

(* A receiving state has got an answer, or none. *)
LEMMA AnswerMachine ==
  ASSUME NetTypeOK, MachineInv, MqttQueueSize > 1, AnswerReceived
  PROVE  /\ MachineInv' /\ Done /\ ~Done' /\ ~Answered'
         /\ mqttCall = "PUBLISH" /\ ~counted /\ mqttState # "PUBLISH" /\ mqttState' # "PUBLISH"
         /\ mqttState' # "DISCONNECTED" => commOk
<1> USE DEF Turn, TurnKept
<1>1. PICK answer \in {Connack, Suback, Puback, Pubrec, Pubcomp} :
        MqttPop({answer.state}, {"DONE"}) /\ AnswerOf(answer)
  BY DEF AnswerReceived
<1>2. /\ mqttBusy /\ mqttEvents # <<>> /\ Head(mqttEvents) = "DONE"
      /\ mqttState = answer.state
      /\ UNCHANGED <<mqttBusy, mqttCall, counted>>
  BY <1>1 DEF MqttPop, callVars, AnswerReceived
<1>3. mqttState \in {"RECEIVE_CONNACK", "RECEIVE_SUBACK", "RECEIVE_PUBACK",
                     "RECEIVE_PUBREC", "RECEIVE_PUBCOMP"}
  BY <1>2 DEF Connack, Suback, Puback, Pubrec, Pubcomp
<1>4. ~mismatched /\ ~Resting /\ ~Called /\ ~Working /\ ~Aborting
  BY <1>2, <1>3, StatesAre, Tuples DEF MachineInv, Stuck, Resting, Called, Working, Aborting
<1>5. Joining
  BY <1>4 DEF MachineInv
<1>6. mqttState \in {"RECEIVE_CONNACK", "RECEIVE_SUBACK"}
  BY <1>3, <1>5 DEF Joining, Connecting
<1>7. mqttEvents = <<"DONE", "PUBLISH">> /\ Rest = <<"PUBLISH">>
  <2>1. PICK e \in Turns : TurnKept(e)
    BY <1>5 DEF Joining
  <2>2. mqttEvents = <<"DONE", "PUBLISH">>
    BY <1>2, <2>1, Tuples
  <2> QED
    BY <2>2, Tuples DEF Rest
<1>8. answer = IF mqttState = "RECEIVE_CONNACK" THEN Connack ELSE Suback
  BY <1>2, <1>6 DEF Connack, Suback, Puback, Pubrec, Pubcomp
<1>9. /\ mqttCall' = "PUBLISH" /\ mqttBusy' /\ ~counted' /\ ~mqttFailed /\ Done
      /\ mqttCall = "PUBLISH" /\ ~counted
  BY <1>2, <1>5, <1>7 DEF Joining, Done
<1>10. CASE commOk /\ message = answer.expects
  <2>1. UNCHANGED <<mqttFailed, mismatched>> /\ Enter(answer.next, <<"PUBLISH">>)
    BY <1>1, <1>6, <1>7, <1>8, <1>10 DEF AnswerOf, Connack, Suback
  <2>2. CASE mqttState = "RECEIVE_CONNACK"
    <3>1. /\ mqttState' = "SEND_SUBSCRIBE" /\ comm' = Packet["SEND_SUBSCRIBE"]
          /\ mqttEvents' = <<"PUBLISH", "PROCESS">>
      BY <1>8, <2>1, <2>2, EnterIs, StatesAre, Room DEF Connack
    <3>2. TurnKept("PROCESS")' /\ "PROCESS" \in Turns' /\ comm' = Operation'
      BY <3>1, StatesAre DEF Turns, Operation
    <3>3. Joining'
      BY <1>9, <2>1, <3>1, <3>2 DEF Joining, Connecting
    <3> QED
      BY <1>4, <1>9, <1>10, <2>1, <2>2, <3>1, <3>3, Tuples DEF MachineInv, Done, Answered
  <2>3. CASE mqttState = "RECEIVE_SUBACK"
    <3>1. mqttState' = "CONNECTED" /\ mqttEvents' = <<"PUBLISH">>
      BY <1>8, <2>1, <2>3, EnterIs DEF Suback
    <3>2. Called'
      BY <1>9, <2>1, <3>1 DEF Called
    <3> QED
      BY <1>4, <1>9, <1>10, <2>1, <2>3, <3>1, <3>2, Tuples DEF MachineInv, Done, Answered
  <2> QED
    BY <1>6, <2>2, <2>3
<1>11. CASE commOk /\ message = answer.wrong
  <2>1. mqttState = "RECEIVE_SUBACK"
    <3>1. message # "NONE"
      BY MqttAssumption DEF NetTypeOK, Messages
    <3> QED
      BY <1>6, <1>8, <1>11, <3>1 DEF Connack
  <2>2. mqttFailed' /\ mismatched' /\ mqttEvents' = MqttAdd(Rest, "STRAY")
        /\ UNCHANGED mqttState
    BY <1>1, <1>8, <1>11, <2>1 DEF AnswerOf, Suback
  <2>3. mqttEvents' = <<"PUBLISH", "STRAY">>
    BY <1>7, <2>2, Room
  <2> QED
    BY <1>9, <1>11, <2>1, <2>2, <2>3, Tuples DEF MachineInv, Stuck, Done, Answered
<1>12. CASE commOk /\ message \notin {answer.expects, answer.wrong, "NOTHING"}
  <2>1. mqttEvents' = MqttAdd(Rest, mqttState) /\ UNCHANGED <<mqttState, mqttFailed, mismatched>>
    BY <1>1, <1>6, <1>8, <1>12 DEF AnswerOf, Connack, Suback
  <2>2. mqttEvents' = <<"PUBLISH", mqttState>>
    BY <1>7, <2>1, Room
  <2>3. mqttState \in Turns' /\ mqttState # "PROCESS" /\ mqttState' \in Connecting
    BY <1>6, <2>1 DEF Turns, Receiving, Connecting
  <2>4. TurnKept(mqttState)'
    BY <2>1, <2>2
  <2>5. Joining'
    BY <1>9, <2>1, <2>3, <2>4 DEF Joining
  <2> QED
    BY <1>4, <1>6, <1>9, <1>12, <2>1, <2>2, <2>5, Tuples DEF MachineInv, Done, Answered
<1>13. CASE \/ commOk /\ message = "NOTHING" /\ answer.silent = "DISCONNECTED"
            \/ ~commOk
  <2>1. mqttFailed' /\ UNCHANGED mismatched /\ Enter("DISCONNECTED", Rest)
    BY <1>1, <1>6, <1>8, <1>13 DEF AnswerOf, Fail, Connack, Suback
  <2>2. mqttState' = "DISCONNECTED" /\ mqttEvents' = <<>>
    BY <2>1, EnterIs
  <2>3. Resting'
    BY <1>9, <2>1, <2>2 DEF Resting
  <2> QED
    BY <1>4, <1>6, <1>9, <2>1, <2>2, <2>3, Tuples DEF MachineInv, Done, Answered
<1>14. CASE commOk /\ message = "NOTHING" /\ answer.silent = "DISCONNECTING"
  <2>1. mqttFailed' /\ UNCHANGED mismatched /\ Enter("DISCONNECTING", <<"PUBLISH">>)
    BY <1>1, <1>6, <1>7, <1>8, <1>14 DEF AnswerOf, Fail, Connack, Suback
  <2>2. /\ mqttState' = "DISCONNECTING" /\ comm' = "DISCONNECT"
        /\ mqttEvents' = <<"PUBLISH", "PROCESS">>
    BY <2>1, EnterIs, StatesAre, TablesAre, Room
  <2>3. Aborting'
    BY <1>9, <2>1, <2>2 DEF Aborting
  <2> QED
    BY <1>4, <1>6, <1>9, <1>14, <2>1, <2>2, <2>3, Tuples DEF MachineInv, Done, Answered
<1> QED
  BY <1>8, <1>10, <1>11, <1>12, <1>13, <1>14 DEF Connack, Suback

(* A receive of the server's commands, or of the answer to a ping, is over. *)
LEMMA ReceivedMachine ==
  ASSUME MachineInv, MqttQueueSize > 1, PublishReceived \/ PingAnswered
  PROVE  /\ MachineInv' /\ Done /\ ~Done' /\ ~mismatched /\ ~Answered /\ ~mqttFailed
         /\ mqttCall = "RECEIVE_PUBLISH" /\ mqttCall' = "RECEIVE_PUBLISH"
         /\ mqttState' # "DISCONNECTED" => commOk
         /\ mqttState' = "CONNECTED" => mqttEvents' = <<>>
<1> USE DEF Turn, TurnKept
<1>1. /\ mqttBusy /\ mqttEvents # <<>> /\ Head(mqttEvents) = "DONE"
      /\ mqttState \in {"RECEIVE_PUBLISH", "RECEIVE_PINGRESP"}
      /\ UNCHANGED <<mqttBusy, mqttCall, counted, mismatched>>
  BY DEF PublishReceived, PingAnswered, MqttPop, callVars, history
<1>2. Working /\ ~mismatched
  BY <1>1, Tuples DEF MachineInv, Stuck, Resting, Called, Joining, Connecting, Aborting
<1>3. /\ mqttCall = "RECEIVE_PUBLISH" /\ mqttCall' = "RECEIVE_PUBLISH" /\ mqttBusy'
      /\ ~mqttFailed
  BY <1>1, <1>2, TablesAre DEF Working
<1>4. mqttEvents = <<"DONE">> /\ Rest = <<>> /\ Done
  <2>1. PICK e \in Turns : Turn(e)
    BY <1>2 DEF Working
  <2>2. mqttEvents = <<"DONE">>
    BY <1>1, <2>1, Tuples
  <2> QED
    BY <2>2, Tuples DEF Rest, Done
<1>5. ~Answered
  BY <1>1 DEF Answered
<1>6. \/ ~commOk /\ mqttFailed' /\ Enter("DISCONNECTED", <<>>)
      \/ mqttFailed' /\ Enter("DISCONNECTED", <<>>)
      \/ commOk /\ UNCHANGED mqttFailed /\ Enter("CONNECTED", <<>>)
      \/ commOk /\ UNCHANGED mqttFailed /\ Enter("SEND_PUBREL", <<>>)
      \/ commOk /\ UNCHANGED mqttFailed /\ Enter("SEND_PINGREQ", <<>>)
      \/ commOk /\ UNCHANGED mqttFailed /\ Enter("RECEIVE_PUBLISH", <<>>)
  BY <1>4 DEF PublishReceived, PingAnswered, Fail
<1>7. CASE mqttFailed' /\ Enter("DISCONNECTED", <<>>)
  <2>1. mqttState' = "DISCONNECTED" /\ mqttEvents' = <<>>
    BY <1>7, EnterIs
  <2>2. Resting'
    BY <1>3, <1>7, <2>1 DEF Resting
  <2> QED
    BY <1>1, <1>2, <1>3, <1>4, <1>5, <2>1, <2>2, Tuples DEF MachineInv, Done
<1>8. CASE commOk /\ UNCHANGED mqttFailed /\ Enter("CONNECTED", <<>>)
  <2>1. mqttState' = "CONNECTED" /\ mqttEvents' = <<>>
    BY <1>8, EnterIs
  <2>2. Resting'
    BY <1>3, <1>8, <2>1 DEF Resting
  <2> QED
    BY <1>1, <1>2, <1>3, <1>4, <1>5, <1>8, <2>1, <2>2, Tuples DEF MachineInv, Done
<1>9. CASE /\ commOk /\ UNCHANGED mqttFailed
           /\ \E next \in {"SEND_PUBREL", "SEND_PINGREQ"} : Enter(next, <<>>)
  <2>1. /\ mqttState' \in {"SEND_PUBREL", "SEND_PINGREQ"}
        /\ comm' = Packet[mqttState'] /\ mqttEvents' = <<"PROCESS">>
    BY <1>9, EnterIs, StatesAre, Room
  <2>2. /\ mqttState' \in DOMAIN CallOf /\ CallOf[mqttState'] = "RECEIVE_PUBLISH"
        /\ comm' = Operation' /\ "PROCESS" \in Turns'
    BY <2>1, StatesAre, TablesAre DEF Operation, Turns
  <2>3. Working'
    BY <1>3, <1>9, <2>1, <2>2 DEF Working
  <2> QED
    BY <1>1, <1>2, <1>3, <1>4, <1>5, <1>9, <2>1, <2>3, Tuples DEF MachineInv, Done
<1>10. CASE commOk /\ UNCHANGED mqttFailed /\ Enter("RECEIVE_PUBLISH", <<>>)
  <2>1. mqttState' = "RECEIVE_PUBLISH" /\ mqttEvents' = <<"RECEIVE_PUBLISH">>
    BY <1>10, EnterIs, Room DEF Receiving
  <2>2. /\ mqttState' \in DOMAIN CallOf /\ CallOf[mqttState'] = "RECEIVE_PUBLISH"
        /\ "RECEIVE_PUBLISH" \in Turns'
    BY <2>1, StatesAre, TablesAre DEF Turns, Receiving
  <2>3. Working'
    BY <1>3, <1>10, <2>1, <2>2 DEF Working
  <2> QED
    BY <1>1, <1>2, <1>3, <1>4, <1>5, <1>10, <2>1, <2>3, Tuples DEF MachineInv, Done
<1> QED
  BY <1>6, <1>7, <1>8, <1>9, <1>10

(* What the application may call after a call. *)
LEMMA FollowsIs ==
  /\ Follows("STOP") = {"PUBLISH"} /\ Follows("DISCONNECT") = {}
  /\ mqttFailed => Follows("PUBLISH") = {} /\ Follows("RECEIVE_PUBLISH") = {}
  /\ ~mqttFailed => /\ Follows("PUBLISH") = {"RECEIVE_PUBLISH"}
                    /\ "DISCONNECT" \in Follows("RECEIVE_PUBLISH")
                    /\ Follows("RECEIVE_PUBLISH") \subseteq {"DISCONNECT", "PUBLISH"}
                    /\ "PUBLISH" \in Follows("RECEIVE_PUBLISH") => heard # "NOTHING"
BY DEF Follows

(* The application calls, gets its result and stops the module. *)
LEMMA CallMachine ==
  ASSUME MachineInv, MqttQueueSize > 1, NEW call \in Requests \cup {"DISCONNECT"},
         MqttCall(call)
  PROVE  /\ MachineInv' /\ Resting /\ ~Done /\ ~Done' /\ ~Answered' /\ mqttState # "PUBLISH"
         /\ ~mismatched
         /\ \/ mqttCall = "STOP" /\ call = "PUBLISH" /\ mqttState = "DISCONNECTED"
            \/ /\ mqttState = "CONNECTED" /\ ~mqttFailed
               /\ \/ mqttCall = "PUBLISH" /\ call = "RECEIVE_PUBLISH" /\ counted
                  \/ /\ mqttCall = "RECEIVE_PUBLISH" /\ call = "PUBLISH"
                     /\ Answered /\ heard # "NOTHING"
                  \/ mqttCall = "RECEIVE_PUBLISH" /\ call = "DISCONNECT"
<1> USE DEF Turn, TurnKept
<1>1. /\ ~mqttBusy /\ call \in Follows(mqttCall) /\ mqttBusy' /\ mqttCall' = call
      /\ mqttEvents' = MqttAdd(mqttEvents, call) /\ ~mqttFailed'
      /\ counted' = (counted /\ call # "PUBLISH")
      /\ UNCHANGED <<mqttState, mismatched>>
  BY Zenon DEF MqttCall, history
<1>2. Resting /\ ~mismatched
  BY <1>1 DEF MachineInv, Stuck, Called, Joining, Working, Aborting
<1>3. mqttEvents = <<>> /\ mqttEvents' = <<call>> /\ ~Done /\ ~Answered'
  BY <1>1, <1>2, Room, Tuples DEF Resting, Done, Answered
<1>4. \/ mqttCall = "STOP" /\ call = "PUBLISH"
      \/ mqttCall = "PUBLISH" /\ call = "RECEIVE_PUBLISH" /\ ~mqttFailed
      \/ /\ mqttCall = "RECEIVE_PUBLISH" /\ call = "PUBLISH" /\ ~mqttFailed
         /\ heard # "NOTHING"
      \/ mqttCall = "RECEIVE_PUBLISH" /\ call = "DISCONNECT" /\ ~mqttFailed
  BY <1>1, <1>2, FollowsIs DEF Resting
<1>5. \/ mqttCall = "STOP" /\ mqttState = "DISCONNECTED"
      \/ mqttCall \in {"PUBLISH", "RECEIVE_PUBLISH"} /\ mqttState = "CONNECTED"
  BY <1>2, <1>4 DEF Resting
<1>6. Called' /\ ~Done'
  <2>1. call = "PUBLISH" => ~counted'
    BY <1>1, Zenon
  <2> QED
    BY <1>1, <1>3, <1>4, <1>5, <2>1, Tuples DEF Called, Done
<1>7. mqttCall = "PUBLISH" /\ ~mqttFailed => counted
  BY <1>2 DEF Resting
<1> QED
  BY <1>1, <1>2, <1>3, <1>4, <1>5, <1>6, <1>7 DEF MachineInv, Answered

(* Between two calls the machine is not touched. *)
LEMMA RestMachine ==
  ASSUME MachineInv, MqttReturns \/ StopCommunication \/ CloseUnder
  PROVE  /\ MachineInv' /\ Resting /\ UNCHANGED <<mqttState, mqttEvents>> /\ ~Done
         /\ StopCommunication => mqttState = "DISCONNECTED"
         /\ CloseUnder => Answered /\ Answered'
<1>1. Resting /\ ~mismatched
  BY Tuples DEF MqttReturns, StopCommunication, CloseUnder, MachineInv, Stuck, Called, Joining,
       Working, Aborting, Turn, TurnKept
<1>2. ~Done
  BY <1>1, Tuples DEF Resting, Done, Turn, TurnKept
<1>3. CASE MqttReturns
  BY <1>1, <1>2, <1>3
  DEF MqttReturns, machineVars, MachineInv, Resting, StopCommunication, CloseUnder
<1>4. CASE StopCommunication
  <2>1. /\ ~mqttBusy /\ mqttCall # "STOP" /\ Follows(mqttCall) = {} /\ mqttCall' = "STOP"
        /\ UNCHANGED <<mqttEvents, mqttState, mqttFailed, counted, mismatched, mqttBusy>>
    BY <1>4 DEF StopCommunication
  <2>2. mqttState = "DISCONNECTED"
    BY <1>1, <2>1, FollowsIs DEF Resting
  <2>3. Resting'
    BY <1>1, <2>1, <2>2 DEF Resting
  <2> QED
    BY <1>1, <1>2, <2>1, <2>2, <2>3 DEF MachineInv, CloseUnder, callVars
<1>5. CASE CloseUnder
  <2>1. /\ mqttCall = "RECEIVE_PUBLISH" /\ ~mqttFailed
        /\ UNCHANGED <<mqttEvents, mqttState, mqttFailed, counted, mismatched, mqttBusy, mqttCall>>
    BY <1>5 DEF CloseUnder, machineVars, callVars
  <2> QED
    BY <1>1, <1>2, <2>1 DEF MachineInv, Resting, Answered, StopCommunication
<1> QED
  BY <1>3, <1>4, <1>5

-------------------------------------------------------------------------------
(* Types. *)
LEMMA QueueType ==
  ASSUME MachineInv
  PROVE  /\ mqttEvents \in Seq(MqttTypes) /\ Len(mqttEvents) <= 3
         /\ mqttState \in MqttStates
         /\ mqttCall \in {"STOP", "PUBLISH", "RECEIVE_PUBLISH", "DISCONNECT"}
         /\ PlacesOf(mqttEvents, {"PROCESS"}) # {} => comm = Operation
<1> DEFINE Known == /\ mqttState \in MqttStates
                    /\ mqttCall \in {"STOP", "PUBLISH", "RECEIVE_PUBLISH", "DISCONNECT"}
<1>1. Resting \/ Called \/ Joining \/ Working \/ Aborting \/ Stuck
  BY DEF MachineInv
<1>2. Known
  BY <1>1, StatesAre, TablesAre
  DEF Resting, Called, Joining, Working, Aborting, Stuck, MqttStates, Receiving, Connecting
<1>3. \/ mqttEvents = <<>>
      \/ \E e \in MqttTypes : /\ mqttEvents \in {<<e>>, <<e, "PUBLISH">>, <<"PUBLISH", e>>}
                              /\ e = "PROCESS" => comm = Operation
  <2>1. Turns \subseteq MqttTypes
    BY DEF Turns, MqttTypes
  <2>2. CASE Joining \/ Working
    BY <2>1, <2>2 DEF Joining, Working, Turn, TurnKept
  <2>3. CASE Aborting
    <3>1. Operation = "DISCONNECT" /\ "PROCESS" \in MqttTypes /\ "DONE" \in MqttTypes
      BY <2>3, StatesAre, TablesAre DEF Aborting, Operation, MqttTypes
    <3> QED
      BY <2>3, <3>1 DEF Aborting, Turn
  <2>4. CASE Called \/ Stuck
    <3>1. /\ mqttCall \in {"PUBLISH", "RECEIVE_PUBLISH", "DISCONNECT"} \/ ~Called
          /\ {"PUBLISH", "RECEIVE_PUBLISH", "DISCONNECT", "STRAY"} \subseteq MqttTypes
      BY DEF MqttTypes, Called, Receiving
    <3> QED
      BY <2>4, <3>1 DEF Called, Stuck, Turn, TurnKept
  <2> QED
    BY <1>1, <2>2, <2>3, <2>4 DEF Resting
<1>4. CASE mqttEvents = <<>>
  BY <1>2, <1>4 DEF PlacesOf
<1>5. CASE \E e \in MqttTypes : /\ mqttEvents \in {<<e>>, <<e, "PUBLISH">>, <<"PUBLISH", e>>}
                                /\ e = "PROCESS" => comm = Operation
  <2>1. PICK e \in MqttTypes : /\ mqttEvents \in {<<e>>, <<e, "PUBLISH">>, <<"PUBLISH", e>>}
                               /\ e = "PROCESS" => comm = Operation
    BY <1>5
  <2>2. "PUBLISH" \in MqttTypes
    BY DEF MqttTypes
  <2>3. /\ mqttEvents \in Seq(MqttTypes) /\ Len(mqttEvents) <= 3
        /\ \A i \in DOMAIN mqttEvents : mqttEvents[i] \in {e, "PUBLISH"}
    <3>1. CASE mqttEvents = <<e>>
      BY <2>1, <3>1
    <3>2. CASE mqttEvents = <<e, "PUBLISH">>
      BY <2>1, <2>2, <3>2
    <3>3. CASE mqttEvents = <<"PUBLISH", e>>
      BY <2>1, <2>2, <3>3
    <3> QED
      BY <2>1, <3>1, <3>2, <3>3
  <2>4. PlacesOf(mqttEvents, {"PROCESS"}) # {} => e = "PROCESS"
    BY <2>3 DEF PlacesOf
  <2> QED
    BY <1>2, <2>1, <2>3, <2>4
<1> QED
  BY <1>3, <1>4, <1>5

(* The type invariant follows. *)
LEMMA TypesTell == ASSUME MachineInv, NetTypeOK PROVE MqttTypeOK
<1>1. PlacesOf(mqttEvents, {"PROCESS"}) # {} =>
        comm = IF mqttState \in Sending THEN Packet[mqttState] ELSE "RECEIVE"
  BY QueueType DEF Operation
<1>2. mqttCall \in Requests \cup {"DISCONNECT", "STOP"}
  BY QueueType DEF Requests
<1>3. /\ comm \in {"NONE", "RECEIVE"} \cup {Packet[state] : state \in Sending}
      /\ sent \in Seq({Packet[state] : state \in Sending})
  BY DEF NetTypeOK, Packets
<1>4. {mqttFailed, commOk, counted, mqttBusy, arrived, mismatched, overtaken, closedUnder}
        \subseteq BOOLEAN
  BY DEF NetTypeOK
<1> QED
  BY <1>1, <1>2, <1>3, <1>4, QueueType DEF MqttTypeOK, NetTypeOK

(* A transition starts an operation of a known kind. *)
LEMMA EnterType ==
  ASSUME NEW state, NEW queue, Enter(state, queue),
         comm \in {"NONE", "RECEIVE"} \cup Packets
  PROVE  comm' \in {"NONE", "RECEIVE"} \cup Packets
BY DEF Enter, Packets

(* What comes is a message, what goes is a packet. *)
LEMMA NetworkType ==
  ASSUME NetTypeOK, MachineInv, MqttQueueSize > 1,
         SendEnds \/ ReceiveEnds \/ BrokerTakes \/ BrokerSends \/ Lose
  PROVE  NetTypeOK'
<1> USE DEF NetTypeOK
<1>0. <<>> \in Seq(Packets) /\ <<>> \in Seq(Messages)
  OBVIOUS
<1>1. CASE SendEnds
  <2>1. /\ Polled("DONE") /\ comm # "RECEIVE"
        /\ UNCHANGED <<mqttFailed, comm, counted, heard, mismatched, overtaken,
                       mqttBusy, closedUnder>>
    BY <1>1 DEF SendEnds, Polled, MqttPop, callVars, history
  <2>2. comm \in Packets
    BY <2>1, PolledMachine DEF Operation, Packets
  <2>3. CASE commOk' = FALSE /\ ConnectionGone /\ UNCHANGED <<message, arrived>>
    BY <1>0, <2>1, <2>3 DEF ConnectionGone
  <2>4. CASE /\ commOk' = TRUE
             /\ connection' = IF connection = "CLOSED" THEN "OPEN" ELSE connection
             /\ sent' = IF connection = "LOST" THEN <<>> ELSE Append(sent, comm)
             /\ arrived' = (arrived /\ comm # "PUBLISH")
             /\ UNCHANGED <<message, inbox, broker>>
    <3>1. sent' \in Seq(Packets) /\ arrived' \in BOOLEAN
      BY <1>0, <2>2, <2>4
    <3> QED
      BY <2>1, <2>4, <3>1
  <2> QED
    BY <1>1, <2>3, <2>4 DEF SendEnds
<1>2. CASE ReceiveEnds
  <2>1. UNCHANGED <<mqttFailed, comm, counted, heard, mismatched, overtaken,
                    mqttBusy, closedUnder>>
    BY <1>2 DEF ReceiveEnds, Polled, MqttPop, callVars, history
  <2>2. CASE /\ inbox # <<>>
             /\ \E taken \in DOMAIN inbox :
                  /\ message' = Head(inbox)
                  /\ inbox' = SubSeq(inbox, taken + 1, Len(inbox))
             /\ commOk' = TRUE
             /\ UNCHANGED <<connection, sent, broker, first, arrived>>
    <3>1. message' \in Messages /\ inbox' \in Seq(Messages)
      BY <2>2
    <3> QED
      BY <2>1, <2>2, <3>1
  <2>3. CASE /\ inbox # <<>>
             /\ message' = "NOTHING" /\ inbox' = <<"REST">> \o Tail(inbox)
             /\ commOk' = TRUE
             /\ UNCHANGED <<connection, sent, broker, first, arrived>>
    <3>1. inbox' \in Seq(Messages)
      <4>1. <<"REST">> \in Seq(Messages) /\ Tail(inbox) \in Seq(Messages)
        BY <2>3 DEF Messages
      <4> QED
        BY <2>3, <4>1
    <3> QED
      BY <2>1, <2>3, <3>1
  <2>4. CASE /\ message' = "NOTHING" /\ commOk' = TRUE
             /\ connection' = IF connection = "CLOSED" THEN "OPEN" ELSE connection
             /\ UNCHANGED <<sent, inbox, broker, first, arrived>>
    BY <2>1, <2>4
  <2>5. CASE commOk' = FALSE /\ ConnectionGone /\ UNCHANGED <<message, arrived>>
    BY <1>0, <2>1, <2>5 DEF ConnectionGone
  <2> QED
    BY <1>2, <2>2, <2>3, <2>4, <2>5 DEF ReceiveEnds
<1>3. CASE BrokerTakes
  <2>1. UNCHANGED <<comm, message, heard, mqttFailed, commOk, counted, mqttBusy,
                    mismatched, overtaken, closedUnder>>
    BY <1>3 DEF BrokerTakes, machineVars, callVars
  <2>2. arrived' \in BOOLEAN /\ sent # <<>> /\ Tail(sent) \in Seq(Packets)
    BY <1>3 DEF BrokerTakes
  <2>3. \/ /\ \E new \in {"CONNECTED", "SUBSCRIBED"} :
                \E reply \in {<<>>} \cup {<<m>> : m \in Messages} :
                   broker' = new /\ inbox' = inbox \o reply
           /\ sent' = Tail(sent) /\ UNCHANGED connection
        \/ connection' = "LOST" /\ broker' = "NEW" /\ sent' = <<>> /\ UNCHANGED inbox
    <3>1. {"CONNACK", "PINGRESP", "ANSWER"} \cup Subacks \subseteq Messages
      BY DEF Messages
    <3> QED
      BY <1>3, <3>1 DEF BrokerTakes
  <2>4. inbox' \in Seq(Messages)
    <3>1. \A m \in Messages : <<m>> \in Seq(Messages)
      OBVIOUS
    <3>2. \A q \in Seq(Messages) : inbox \o q \in Seq(Messages)
      OBVIOUS
    <3> QED
      BY <1>0, <2>3, <3>1, <3>2
  <2>5. sent' \in Seq(Packets)
    BY <1>0, <2>2, <2>3
  <2> QED
    BY <2>1, <2>2, <2>3, <2>4, <2>5
<1>4. CASE BrokerSends
  <2>1. UNCHANGED <<comm, message, heard, mqttFailed, commOk, counted, mqttBusy, arrived,
                    mismatched, overtaken, closedUnder, connection, sent, broker>>
    BY <1>4 DEF BrokerSends, machineVars, callVars
  <2>2. inbox' \in Seq(Messages)
    BY <1>4 DEF BrokerSends, Messages
  <2> QED
    BY <2>1, <2>2
<1>5. CASE Lose
  <2>1. UNCHANGED <<comm, message, heard, mqttFailed, commOk, counted, mqttBusy, arrived,
                    mismatched, overtaken, closedUnder>>
    BY <1>5 DEF Lose, machineVars, callVars
  <2>2. inbox' \in Seq(Messages) /\ sent' = <<>> /\ connection' = "LOST" /\ broker' = "NEW"
    BY <1>0, <1>5 DEF Lose
  <2> QED
    BY <1>0, <2>1, <2>2
<1> QED
  BY <1>1, <1>2, <1>3, <1>4, <1>5

(* The machine and the application. *)
LEMMA MachineType ==
  ASSUME NetTypeOK,
         \/ \E call \in Requests \cup {"DISCONNECT"} : MqttCall(call)
         \/ MqttReturns \/ StopCommunication \/ CloseUnder \/ StillRunning \/ StartConnecting
         \/ MqttParametersMissing \/ RetainRequest \/ StartRequest \/ StartDisconnecting
         \/ Sent \/ StartReceiving \/ AnswerReceived \/ PublishReceived \/ PingAnswered
         \/ MqttIgnores
  PROVE  NetTypeOK'
<1> USE DEF NetTypeOK
<1>0. <<>> \in Seq(Packets) /\ <<>> \in Seq(Messages)
  OBVIOUS
<1>1. CASE \E call \in Requests \cup {"DISCONNECT"} : MqttCall(call)
  <2>1. PICK call \in Requests \cup {"DISCONNECT"} : MqttCall(call)
    BY <1>1
  <2>2. /\ mqttBusy' = TRUE /\ mqttFailed' = FALSE
        /\ counted' = (counted /\ call # "PUBLISH")
        /\ heard' \in {"NOTHING", heard}
        /\ UNCHANGED <<comm, mismatched, overtaken, commOk, message, connection, sent, inbox,
                       broker, arrived, closedUnder>>
    BY <2>1 DEF MqttCall, history, netVars
  <2> QED
    BY ZenonT(40), <2>2
<1>2. CASE MqttReturns
  <2>1. /\ mqttBusy' \in BOOLEAN
        /\ UNCHANGED <<mqttFailed, comm, counted, heard, mismatched, overtaken, commOk, message,
                       connection, sent, inbox, broker, arrived, closedUnder>>
    BY <1>2 DEF MqttReturns, machineVars, netVars
  <2> QED
    BY <2>1
<1>3. CASE StopCommunication \/ CloseUnder
  <2>1. /\ connection' = "CLOSED" /\ sent' = <<>> /\ inbox' = <<>> /\ broker' = "NEW"
        /\ closedUnder' \in BOOLEAN /\ overtaken' \in BOOLEAN
        /\ UNCHANGED <<mqttFailed, comm, counted, heard, mismatched, mqttBusy, commOk,
                       message, arrived>>
    BY <1>3 DEF StopCommunication, CloseUnder, ConnectionGone, machineVars, callVars
  <2> QED
    BY <1>0, <2>1
<1>4. CASE \/ StillRunning \/ RetainRequest \/ StartReceiving \/ MqttIgnores
           \/ MqttParametersMissing
  <2>1. /\ mqttFailed' \in BOOLEAN /\ comm' \in {"RECEIVE", comm}
        /\ UNCHANGED <<mqttBusy, closedUnder, counted, heard, mismatched, overtaken, commOk,
                       message, connection, sent, inbox, broker, arrived>>
    BY <1>4 DEF StillRunning, RetainRequest, StartReceiving, MqttIgnores, Polled, MqttPop,
                MqttParametersMissing, callVars, history, netVars
  <2> QED
    BY <2>1
<1>5. CASE \/ StartConnecting \/ StartRequest \/ StartDisconnecting \/ Sent
           \/ AnswerReceived \/ PublishReceived \/ PingAnswered
  <2>1. /\ mqttFailed' \in BOOLEAN /\ counted' \in BOOLEAN /\ mismatched' \in BOOLEAN
        /\ overtaken' \in BOOLEAN /\ heard' \in {heard} \cup Published
        /\ UNCHANGED <<mqttBusy, closedUnder, commOk, message, connection, sent, inbox,
                       broker, arrived>>
    <3>1. CASE StartConnecting \/ StartRequest \/ StartDisconnecting
      BY <3>1 DEF StartConnecting, StartRequest, StartDisconnecting, MqttPop, callVars,
                  history, netVars
    <3>2. CASE Sent \/ PingAnswered
      BY <3>2 DEF Sent, PingAnswered, Fail, MqttPop, callVars, history, netVars
    <3>3. CASE AnswerReceived
      BY <3>3 DEF AnswerReceived, AnswerOf, Fail, MqttPop, callVars, netVars
    <3>4. CASE PublishReceived
      BY <3>4 DEF PublishReceived, Fail, MqttPop, callVars, netVars
    <3> QED
      BY <1>5, <3>1, <3>2, <3>3, <3>4
  <2>2. comm' \in {"NONE", "RECEIVE"} \cup Packets
    <3>1. comm' = comm \/ \E state, queue : Enter(state, queue)
      <4>1. CASE StartConnecting \/ StartRequest \/ StartDisconnecting
        BY <4>1 DEF StartConnecting, StartRequest, StartDisconnecting
      <4>2. CASE Sent \/ PingAnswered
        BY <4>2 DEF Sent, PingAnswered, Fail
      <4>3. CASE AnswerReceived
        BY <4>3 DEF AnswerReceived, AnswerOf, Fail
      <4>4. CASE PublishReceived
        BY <4>4 DEF PublishReceived, Fail
      <4> QED
        BY <1>5, <4>1, <4>2, <4>3, <4>4
    <3> QED
      BY <3>1, EnterType
  <2> QED
    BY <2>1, <2>2
<1> QED
  BY <1>1, <1>2, <1>3, <1>4, <1>5

-------------------------------------------------------------------------------
(* The first packet of a connection. *)

(* The broker and the network leave the machine alone. *)
LEMMA BrokerMachine ==
  ASSUME MachineInv, BrokerTakes \/ BrokerSends \/ Lose
  PROVE  /\ MachineInv'
         /\ UNCHANGED <<mqttEvents, mqttState, mqttFailed, comm, counted, heard, mismatched,
                        overtaken, mqttBusy, mqttCall, commOk, message, first, closedUnder>>
<1>1. UNCHANGED <<mqttEvents, mqttState, mqttFailed, comm, counted, heard, mismatched,
                  overtaken, mqttBusy, mqttCall, commOk, message, first, closedUnder>>
  BY DEF BrokerTakes, BrokerSends, Lose, machineVars, callVars
<1> QED
  BY <1>1
  DEF MachineInv, Resting, Called, Joining, Working, Aborting, Stuck, Turn, TurnKept, Turns,
      Operation

(* No step lets a connection begin with anything but CONNECT. *)
LEMMA SessionStep ==
  ASSUME NetTypeOK, MachineInv, SessionInv, MqttQueueSize > 1, MqttNext
  PROVE  SessionInv'
<1> USE DEF SessionInv, ConnectFirst
<1>1. CASE \E call \in Requests \cup {"DISCONNECT"} : MqttCall(call)
  <2>1. PICK call \in Requests \cup {"DISCONNECT"} : MqttCall(call)
    BY <1>1
  <2>2. ~Done /\ ~Done' /\ UNCHANGED <<mqttState, first, closedUnder>>
    BY <2>1, CallMachine DEF MqttCall, netVars
  <2> QED
    BY <2>2 DEF Gone
<1>2. CASE MqttReturns
  <2>1. ~Done /\ ~Done' /\ UNCHANGED <<mqttState, first, closedUnder>>
    <3>1. ~Done /\ UNCHANGED <<mqttState, mqttEvents>>
      BY <1>2, RestMachine
    <3> QED
      BY <1>2, <3>1 DEF MqttReturns, netVars, Done, Turn, TurnKept
  <2> QED
    BY <2>1 DEF Gone
<1>3. CASE StopCommunication
  BY <1>3, RestMachine DEF StopCommunication, ConnectionGone
<1>4. CASE CloseUnder
  BY <1>4 DEF CloseUnder
<1>5. CASE StillRunning
  <2>1. Polled("PROCESS") /\ UNCHANGED <<first, commOk>>
    BY <1>5 DEF StillRunning, netVars
  <2>2. ~Done /\ ~Done' /\ UNCHANGED <<mqttState, closedUnder>>
    BY <2>1, PolledMachine DEF Polled, MqttPop
  <2> QED
    BY <2>1, <2>2 DEF Gone
<1>6. CASE SendEnds
  <2>1. Polled("DONE") /\ comm # "RECEIVE" /\ UNCHANGED <<mqttState, closedUnder>>
    BY <1>6 DEF SendEnds, Polled, MqttPop
  <2>2. ~Done /\ Done' /\ comm = Operation /\ mqttState # "DISCONNECTED"
    BY <2>1, PolledMachine
  <2>3. CASE first' = IF first = "NONE" THEN comm ELSE first
    <3>1. comm # "NONE"
      BY <2>1, <2>2, StatesAre, TablesAre DEF Operation
    <3>2. mqttState = "SEND_CONNECT" => comm = "CONNECT"
      BY <2>2, StatesAre, TablesAre DEF Operation
    <3> QED
      BY <2>1, <2>2, <2>3, <3>1, <3>2 DEF Gone
  <2>4. CASE commOk' = FALSE /\ ConnectionGone
    BY <2>1, <2>2, <2>4 DEF Gone, ConnectionGone
  <2> QED
    BY <1>6, <2>3, <2>4 DEF SendEnds
<1>7. CASE ReceiveEnds
  <2>1. Polled("DONE") /\ comm = "RECEIVE" /\ UNCHANGED <<mqttState, closedUnder>>
    BY <1>7 DEF ReceiveEnds, Polled, MqttPop
  <2>2. ~Done /\ Done' /\ comm = Operation /\ mqttState # "DISCONNECTED"
    BY <2>1, PolledMachine
  <2>3. mqttState # "SEND_CONNECT"
    BY <2>1, <2>2, StatesAre, TablesAre DEF Operation
  <2>4. first' = first \/ (first' = "NONE" /\ commOk' = FALSE)
    BY <1>7 DEF ReceiveEnds, ConnectionGone
  <2> QED
    BY <2>1, <2>2, <2>3, <2>4 DEF Gone
<1>8. CASE StartConnecting \/ MqttParametersMissing \/ StartRequest \/ StartDisconnecting
  <2>1. ~Done /\ ~Done' /\ UNCHANGED <<first, closedUnder>>
    BY <1>8, RequestMachine
    DEF StartConnecting, MqttParametersMissing, StartRequest, StartDisconnecting, MqttPop, netVars
  <2>2. \/ mqttState' \in {"SEND_CONNECT", "DISCONNECTED"}
        \/ mqttState \notin {"SEND_CONNECT", "DISCONNECTED"}
    BY <1>8, EnterIs
    DEF StartConnecting, MqttParametersMissing, StartRequest, StartDisconnecting, MqttPop,
        InSession, Connecting
  <2> QED
    BY <2>1, <2>2 DEF Gone
<1>9. CASE Sent \/ AnswerReceived \/ PublishReceived \/ PingAnswered
  <2>1. UNCHANGED <<first, closedUnder>> /\ mqttState # "DISCONNECTED"
    <3>1. CASE Sent
      BY <3>1, StatesAre DEF Sent, MqttPop, netVars
    <3>2. CASE AnswerReceived
      BY <3>2 DEF AnswerReceived, MqttPop, netVars, Connack, Suback, Puback, Pubrec, Pubcomp
    <3>3. CASE PublishReceived \/ PingAnswered
      BY <3>3 DEF PublishReceived, PingAnswered, MqttPop, netVars
    <3> QED
      BY <1>9, <3>1, <3>2, <3>3
  <2>2. Done /\ (mqttState' = "DISCONNECTED" \/ commOk)
    BY <1>9, SentMachine, AnswerMachine, ReceivedMachine
  <2> QED
    BY <2>1, <2>2 DEF Gone
<1>10. CASE StartReceiving
  <2>1. ~Done /\ mqttState \in Receiving /\ UNCHANGED <<first, closedUnder>>
    BY <1>10, StartReceivingMachine DEF StartReceiving, MqttPop, netVars
  <2>2. mqttState \notin {"SEND_CONNECT", "DISCONNECTED"}
    BY <2>1 DEF Receiving
  <2> QED
    BY <2>1, <2>2 DEF Gone
<1>11. CASE RetainRequest \/ MqttIgnores
  <2>1. UNCHANGED <<mqttState, first, closedUnder, commOk>>
    BY <1>11 DEF RetainRequest, MqttIgnores, MqttPop, netVars
  <2>2. Done <=> Done'
    BY <1>11, IdleMachine
  <2> QED
    BY <2>1, <2>2 DEF Gone
<1>12. CASE BrokerTakes \/ BrokerSends \/ Lose
  BY <1>12, BrokerMachine DEF Gone, Done, Turn, TurnKept
<1> QED
  BY <1>1, <1>2, <1>3, <1>4, <1>5, <1>6, <1>7, <1>8, <1>9, <1>10, <1>11, <1>12
  DEF MqttNext, MqttProcess

-------------------------------------------------------------------------------
(* Packets and messages on their way.                                      *)
LEMMA AppendPlaces ==
  ASSUME NEW S, NEW q \in Seq(S), NEW e \in S, NEW T
  PROVE  /\ PlacesOf(q, T) = {} /\ e \notin T => PlacesOf(Append(q, e), T) = {}
         /\ PlacesOf(q, T) = {} => AtMostOne(Append(q, e), T)
         /\ AtMostOne(q, T) /\ e \notin T => AtMostOne(Append(q, e), T)
<1> DEFINE n == Len(q) + 1
<1>1. n \in Nat \ {0} /\ Put(q, e, n) = Append(q, e)
  BY DEF Put
<1> HIDE DEF n
<1>2. ASSUME PlacesOf(q, T) = {}
      PROVE  AtMostOne(Put(q, e, n), T) /\ (e \notin T => PlacesOf(Put(q, e, n), T) = {})
  BY <1>1, <1>2, PutFirst
<1>3. ASSUME AtMostOne(q, T), e \notin T PROVE AtMostOne(Put(q, e, n), T)
  BY <1>1, <1>3, PutOther
<1> QED
  BY <1>1, <1>2, <1>3

(* The head of a queue is none of those that are not in it. *)
LEMMA HeadPlaces ==
  ASSUME NEW S, NEW q \in Seq(S), q # <<>>, NEW T, PlacesOf(q, T) = {}
  PROVE  Head(q) \notin T
BY TailPlaces

(* What is left of a queue when its first places are gone. *)
LEMMA LaterPlaces ==
  ASSUME NEW S, NEW q \in Seq(S), NEW k \in 1..Len(q), NEW T
  PROVE  LET r == SubSeq(q, k + 1, Len(q)) IN
         /\ PlacesOf(q, T) = {} => PlacesOf(r, T) = {}
         /\ AtMostOne(q, T) => AtMostOne(r, T)
         /\ AtMostOne(q, T) /\ Head(q) \in T => PlacesOf(r, T) = {}
<1> DEFINE r == SubSeq(q, k + 1, Len(q))
<1>1. /\ r \in Seq(S) /\ Len(r) = Len(q) - k
      /\ \A i \in 1..Len(r) : r[i] = q[k + i]
  OBVIOUS
<1>2. DOMAIN r = 1..Len(r) /\ DOMAIN q = 1..Len(q) /\ Len(q) \in Nat
  BY <1>1
<1> HIDE DEF r
<1>3. \A i \in PlacesOf(r, T) : i \in Nat \ {0} /\ k + i \in PlacesOf(q, T)
  <2> SUFFICES ASSUME NEW i \in PlacesOf(r, T)
               PROVE  i \in Nat \ {0} /\ k + i \in PlacesOf(q, T)
    OBVIOUS
  <2>1. i \in 1..Len(r) /\ r[i] \in T
    BY <1>2 DEF PlacesOf
  <2>2. k + i \in 1..Len(q) /\ q[k + i] \in T
    BY <1>1, <1>2, <2>1
  <2> QED
    BY <1>2, <2>1, <2>2 DEF PlacesOf
<1>4. Head(q) \in T => 1 \in PlacesOf(q, T)
  <2>1. Head(q) = q[1] /\ 1 \in 1..Len(q)
    BY <1>2
  <2> QED
    BY <1>2, <2>1 DEF PlacesOf
<1>5. PlacesOf(q, T) = {} => PlacesOf(r, T) = {}
  BY <1>3
<1>6. AtMostOne(q, T) => AtMostOne(r, T)
  <2> SUFFICES ASSUME AtMostOne(q, T), NEW i \in PlacesOf(r, T), NEW j \in PlacesOf(r, T)
               PROVE  i = j
    BY DEF AtMostOne
  <2>1. k + i = k + j
    BY <1>3 DEF AtMostOne
  <2> QED
    BY <1>3, <2>1
<1>7. AtMostOne(q, T) /\ Head(q) \in T => PlacesOf(r, T) = {}
  <2> SUFFICES ASSUME AtMostOne(q, T), Head(q) \in T, NEW i \in PlacesOf(r, T) PROVE FALSE
    OBVIOUS
  <2>1. k + i = 1
    BY <1>3, <1>4 DEF AtMostOne
  <2> QED
    BY <1>3, <2>1
<1> QED
  BY <1>5, <1>6, <1>7 DEF r

(* The first message is replaced by another. *)
LEMMA CutPlaces ==
  ASSUME NEW S, NEW q \in Seq(S), q # <<>>, NEW e \in S, NEW T, e \notin T
  PROVE  LET r == <<e>> \o Tail(q) IN
         /\ PlacesOf(q, T) = {} => PlacesOf(r, T) = {}
         /\ AtMostOne(q, T) => AtMostOne(r, T)
<1> DEFINE r == <<e>> \o Tail(q)
<1>1. /\ r \in Seq(S) /\ Len(r) = Len(q) /\ r[1] = e
      /\ \A i \in 2..Len(r) : r[i] = q[i]
  <2>1. /\ Tail(q) \in Seq(S) /\ Len(Tail(q)) = Len(q) - 1 /\ Len(q) \in Nat \ {0}
        /\ \A i \in 1..(Len(q) - 1) : Tail(q)[i] = q[i + 1]
    OBVIOUS
  <2>2. <<e>> \in Seq(S) /\ Len(<<e>>) = 1 /\ <<e>>[1] = e
    OBVIOUS
  <2>3. r \in Seq(S) /\ Len(r) = 1 + (Len(q) - 1)
    BY <2>1, <2>2
  <2>4. \A i \in 1..Len(r) : r[i] = IF i <= 1 THEN <<e>>[i] ELSE Tail(q)[i - 1]
    BY <2>1, <2>2
  <2> HIDE DEF r
  <2>5. \A i \in 2..Len(r) : Tail(q)[i - 1] = q[i]
    BY <2>1, <2>3
  <2> QED
    BY <2>1, <2>2, <2>3, <2>4, <2>5
<1>2. DOMAIN r = 1..Len(r) /\ DOMAIN q = 1..Len(q) /\ Len(q) \in Nat
  BY <1>1
<1> HIDE DEF r
<1>3. \A i \in PlacesOf(r, T) : i \in PlacesOf(q, T)
  BY <1>1, <1>2 DEF PlacesOf
<1> QED
  BY <1>3 DEF AtMostOne, r

(* A packet added behind the PUBLISH does not come ahead of it. *)
LEMMA AheadAppend ==
  ASSUME NEW S, NEW q \in Seq(S), NEW e \in S
  PROVE  /\ PublishAhead(q) => PublishAhead(Append(q, e))
         /\ e = "PUBLISH" /\ PlacesOf(q, {"PUBLISH", "PINGREQ"}) = {} =>
              PublishAhead(Append(q, e))
<1> DEFINE r == Append(q, e)
<1>1. /\ DOMAIN r = 1..(Len(q) + 1) /\ DOMAIN q = 1..Len(q) /\ Len(q) \in Nat
      /\ \A i \in 1..Len(q) : r[i] = q[i]
      /\ r[Len(q) + 1] = e
  OBVIOUS
<1> HIDE DEF r
<1>2. ASSUME PublishAhead(q) PROVE PublishAhead(r)
  <2>1. PICK i \in 1..Len(q) : q[i] = "PUBLISH" /\ \A j \in 1..i : q[j] # "PINGREQ"
    BY <1>1, <1>2 DEF PublishAhead
  <2>2. i \in DOMAIN r /\ r[i] = "PUBLISH" /\ \A j \in 1..i : r[j] # "PINGREQ"
    BY <1>1, <2>1
  <2> QED
    BY <2>2 DEF PublishAhead
<1>3. ASSUME e = "PUBLISH", PlacesOf(q, {"PUBLISH", "PINGREQ"}) = {} PROVE PublishAhead(r)
  <2>1. \A j \in 1..Len(q) : r[j] # "PINGREQ"
    BY <1>1, <1>3 DEF PlacesOf
  <2>2. \A j \in 1..(Len(q) + 1) : r[j] # "PINGREQ"
    BY <1>1, <1>3, <2>1
  <2> QED
    BY <1>1, <1>3, <2>2 DEF PublishAhead
<1> QED
  BY <1>2, <1>3 DEF r

(* A packet taken that is not the PUBLISH is no ping either. *)
LEMMA AheadTail ==
  ASSUME NEW S, NEW q \in Seq(S), q # <<>>, PublishAhead(q), Head(q) # "PUBLISH"
  PROVE  PublishAhead(Tail(q)) /\ Head(q) # "PINGREQ"
<1>1. /\ Tail(q) \in Seq(S) /\ Len(Tail(q)) = Len(q) - 1 /\ Len(q) \in Nat \ {0}
      /\ \A i \in 1..(Len(q) - 1) : Tail(q)[i] = q[i + 1]
      /\ Head(q) = q[1]
  OBVIOUS
<1>2. DOMAIN Tail(q) = 1..(Len(q) - 1) /\ DOMAIN q = 1..Len(q)
  BY <1>1
<1>3. PICK i \in 1..Len(q) : q[i] = "PUBLISH" /\ \A j \in 1..i : q[j] # "PINGREQ"
  BY <1>2 DEF PublishAhead
<1>4. i # 1 /\ i - 1 \in 1..(Len(q) - 1)
  BY <1>1, <1>3
<1>5. Tail(q)[i - 1] = "PUBLISH"
  BY <1>1, <1>3, <1>4
<1>6. \A j \in 1..(i - 1) : Tail(q)[j] # "PINGREQ"
  BY <1>1, <1>3, <1>4
<1> QED
  <2>1. i - 1 \in DOMAIN Tail(q)
    BY <1>2, <1>4
  <2>2. PublishAhead(Tail(q))
    BY <1>5, <1>6, <2>1 DEF PublishAhead
  <2>3. Head(q) # "PINGREQ"
    BY <1>1, <1>3
  <2> QED
    BY <2>2, <2>3

-------------------------------------------------------------------------------
(* Where the PUBLISH is. *)

(* Steps that leave the connection alone, and take the exchange no further. *)
LEMMA AnswerFrame ==
  ASSUME AnswerInv,
         UNCHANGED <<sent, inbox, connection, arrived, message, overtaken, heard, mqttCall>>,
         NotSent' => NotSent, Waiting' => Waiting, Answered <=> Answered',
         Received("ANSWER")' => Received("ANSWER"),
         Received("PINGRESP")' => Received("PINGRESP"),
         Waiting' /\ Pinged => Pinged'
  PROVE  AnswerInv'
<1>1. Silent' <=> Silent
  BY DEF Silent, PlacesOf
<1>2. Pending => Pending'
  BY DEF Pending, PlacesOf, AtMostOne, PublishAhead
<1>3. Taken => Taken'
  BY DEF Taken, PlacesOf, AtMostOne
<1>4. Waiting' /\ ~Pinged' /\ ~overtaken =>
        PlacesOf(sent, {"PINGREQ"})' = {} /\ PlacesOf(inbox, {"PINGRESP"})' = {}
  BY DEF AnswerInv, PlacesOf
<1> QED
  BY <1>1, <1>2, <1>3, <1>4 DEF AnswerInv

(* The steps of the machine that move no packet. *)
LEMMA AnswerQuiet ==
  ASSUME NetTypeOK, MachineInv, AnswerInv, MqttQueueSize > 1,
         \/ MqttReturns \/ StillRunning \/ RetainRequest \/ MqttIgnores \/ StartReceiving
         \/ StartConnecting \/ MqttParametersMissing \/ StartRequest \/ StartDisconnecting
         \/ Sent \/ AnswerReceived
  PROVE  AnswerInv'
<1>1. UNCHANGED <<sent, inbox, connection, arrived, message, overtaken, heard, mqttCall, commOk>>
  BY DEF MqttReturns, StillRunning, RetainRequest, MqttIgnores, StartReceiving, StartConnecting,
         MqttParametersMissing, StartRequest, StartDisconnecting, Sent, AnswerReceived, Polled,
         MqttPop, callVars, netVars, machineVars, history
<1>2. CASE MqttReturns
  <2>1. UNCHANGED <<mqttState, mqttEvents, counted, mqttFailed>>
    BY <1>2 DEF MqttReturns, machineVars
  <2> QED
    BY <1>1, <2>1, AnswerFrame
    DEF NotSent, Waiting, Answered, Received, Pinged, Accepted, Gone, Done, Turn, TurnKept
<1>3. CASE StillRunning \/ RetainRequest \/ MqttIgnores \/ StartReceiving
  <2>1. UNCHANGED <<mqttState, counted, mqttFailed>>
    BY <1>3 DEF StillRunning, RetainRequest, MqttIgnores, StartReceiving, Polled
  <2>2. (Done <=> Done') /\ mqttEvents # <<>> /\ ~Answered'
    <3>1. CASE StillRunning
      <4>1. Polled("PROCESS")
        BY <3>1 DEF StillRunning
      <4> QED
        BY <4>1, PolledMachine DEF Polled, MqttPop
    <3>2. CASE RetainRequest \/ MqttIgnores
      BY <3>2, IdleMachine DEF RetainRequest, MqttIgnores, MqttPop
    <3>3. CASE StartReceiving
      BY <3>3, StartReceivingMachine DEF StartReceiving, MqttPop
    <3> QED
      BY <1>3, <3>1, <3>2, <3>3
  <2>3. ~Answered
    BY <2>2 DEF Answered
  <2>4. (NotSent <=> NotSent') /\ (Waiting <=> Waiting')
    BY <1>1, <2>1, <2>2 DEF NotSent, Waiting, Accepted, Gone
  <2>5. /\ Received("ANSWER")' => Received("ANSWER")
        /\ Received("PINGRESP")' => Received("PINGRESP")
    BY <1>1, <2>1, <2>2 DEF Received
  <2>6. Pinged => Pinged'
    BY <2>1, <2>2, <2>3 DEF Pinged
  <2> QED
    BY <1>1, <2>2, <2>3, <2>4, <2>5, <2>6, AnswerFrame
<1>4. CASE StartConnecting \/ MqttParametersMissing \/ StartRequest \/ StartDisconnecting
  <2>1. Called /\ ~Done /\ ~Done' /\ ~Answered' /\ UNCHANGED counted
    BY <1>4, RequestMachine
    DEF StartConnecting, MqttParametersMissing, StartRequest, StartDisconnecting
  <2>2. /\ mqttState \in {"CONNECTED", "DISCONNECTED"} /\ mqttEvents # <<>> /\ ~mqttFailed
        /\ mqttCall = "PUBLISH" => ~counted
    BY <2>1, Tuples DEF Called, Turn
  <2>3. ~Answered /\ ~Pinged /\ ~Gone /\ ~Gone'
    BY <2>1, <2>2 DEF Answered, Pinged, Gone
  <2>4. (NotSent' => NotSent) /\ (Waiting' => Waiting)
    BY <1>1, <2>1, <2>2, <2>3 DEF NotSent, Waiting, Accepted
  <2>5. ~Received("ANSWER")' /\ ~Received("PINGRESP")'
    BY <2>1 DEF Received
  <2> QED
    BY <1>1, <2>1, <2>3, <2>4, <2>5, AnswerFrame
<1>5. CASE Sent
  <2>1. /\ Done /\ ~Done' /\ ~Answered' /\ (mqttState = "PUBLISH" => mqttCall = "PUBLISH")
        /\ mqttState' = IF commOk THEN AfterSend[mqttState] ELSE "DISCONNECTED"
        /\ mqttCall = "PUBLISH" => ~counted
    BY <1>5, SentMachine
  <2>2. /\ mqttEvents # <<>> /\ mqttState \in Sending
        /\ counted' = IF mqttState = "PUBLISH" THEN commOk ELSE counted
        /\ ~mqttFailed' => commOk /\ ~mqttFailed
    BY <1>5 DEF Sent, MqttPop, Fail
  <2>3. ~Answered /\ ~Gone'
    BY <2>1, <2>2 DEF Answered, Gone
  <2>4. NotSent' => NotSent
    BY <1>1, <2>1, <2>2 DEF NotSent, Accepted
  <2>5. Waiting' => Waiting
    BY <1>1, <2>1, <2>2 DEF Waiting, Accepted, Gone
  <2>6. ~Received("ANSWER")' /\ ~Received("PINGRESP")'
    BY <2>1 DEF Received
  <2>7. Waiting' /\ Pinged => Pinged'
    <3> SUFFICES ASSUME Waiting', Pinged PROVE Pinged'
      OBVIOUS
    <3>1. mqttState = "SEND_PINGREQ"
      BY <2>2, <2>3, StatesAre DEF Pinged, Answered
    <3>2. mqttState' = "RECEIVE_PINGRESP"
      BY <2>1, <2>2, <3>1, TablesAre DEF Waiting
    <3> QED
      BY <3>2 DEF Pinged
  <2> QED
    BY <1>1, <2>1, <2>3, <2>4, <2>5, <2>6, <2>7, AnswerFrame
<1>6. CASE AnswerReceived
  <2>1. /\ Done /\ ~Done' /\ ~Answered' /\ mqttCall = "PUBLISH" /\ ~counted
        /\ mqttState # "PUBLISH"
    BY <1>6, AnswerMachine
  <2>2. mqttEvents # <<>> /\ counted' = counted
    BY <1>6 DEF AnswerReceived, MqttPop
  <2>3. NotSent /\ ~Waiting' /\ ~Answered
    BY <1>1, <2>1, <2>2 DEF NotSent, Waiting, Accepted, Answered
  <2>4. ~Received("ANSWER")' /\ ~Received("PINGRESP")'
    BY <2>1 DEF Received
  <2> QED
    BY <1>1, <2>1, <2>3, <2>4, AnswerFrame
<1> QED
  BY <1>2, <1>3, <1>4, <1>5, <1>6

(* A new call. *)
LEMMA AnswerCall ==
  ASSUME NetTypeOK, MachineInv, AnswerInv, MqttQueueSize > 1,
         NEW call \in Requests \cup {"DISCONNECT"}, MqttCall(call)
  PROVE  AnswerInv'
<1>1. /\ mqttCall' = call /\ heard' = IF call = "RECEIVE_PUBLISH" THEN "NOTHING" ELSE heard
      /\ counted' = (counted /\ call # "PUBLISH")
      /\ UNCHANGED <<mqttState, sent, inbox, connection, arrived, message, overtaken, commOk>>
  BY Zenon DEF MqttCall, history, netVars
<1>2. /\ Resting /\ ~Done /\ ~Done' /\ ~Answered' /\ mqttState # "PUBLISH"
      /\ \/ mqttCall = "STOP" /\ call = "PUBLISH" /\ mqttState = "DISCONNECTED"
         \/ /\ mqttState = "CONNECTED" /\ ~mqttFailed
            /\ \/ mqttCall = "PUBLISH" /\ call = "RECEIVE_PUBLISH" /\ counted
               \/ /\ mqttCall = "RECEIVE_PUBLISH" /\ call = "PUBLISH"
                  /\ Answered /\ heard # "NOTHING"
               \/ mqttCall = "RECEIVE_PUBLISH" /\ call = "DISCONNECT"
  BY CallMachine
<1>3. (Silent' <=> Silent) /\ ~Gone /\ ~Gone'
  BY <1>1, <1>2 DEF Silent, PlacesOf, Gone
<1>4. CASE call = "PUBLISH"
  <2>1. ~counted'
    BY <1>1, <1>4, Zenon
  <2>2. ~Accepted' /\ ~Waiting'
    BY <1>1, <1>2, <1>4, <2>1 DEF Accepted, Waiting
  <2>3. ~overtaken => Silent
    <3> SUFFICES ASSUME ~overtaken PROVE Silent
      OBVIOUS
    <3>1. CASE mqttCall = "STOP"
      BY <3>1 DEF AnswerInv, NotSent
    <3>2. CASE mqttCall = "RECEIVE_PUBLISH" /\ Answered /\ heard # "NOTHING" /\ ~mqttFailed
      <4>1. heard = "ANSWER"
        BY <3>2 DEF AnswerInv, NetTypeOK, Published
      <4>2. Waiting /\ ~Pinged
        BY <1>3, <3>2, <4>1 DEF Waiting, Pinged, Answered
      <4>3. /\ arrived /\ Taken
            /\ PlacesOf(sent, {"PINGREQ"}) = {} /\ PlacesOf(inbox, {"PINGRESP"}) = {}
        BY <3>2, <4>2 DEF AnswerInv, Pending
      <4>4. PlacesOf(sent, {"PUBLISH"}) = {} /\ PlacesOf(inbox, {"ANSWER"}) = {}
        BY <3>2, <4>1, <4>3 DEF Taken
      <4> QED
        BY <4>3, <4>4 DEF Silent, PlacesOf
    <3> QED
      BY <1>2, <1>4, <3>1, <3>2
  <2> QED
    BY <1>1, <1>3, <1>4, <2>2, <2>3 DEF AnswerInv
<1>5. CASE call = "RECEIVE_PUBLISH"
  <2>1. Waiting /\ ~Pinged /\ ~Pinged' /\ ~NotSent'
    BY <1>1, <1>2, <1>3, <1>5 DEF Waiting, Accepted, Pinged, NotSent, Answered
  <2>2. ~Received("ANSWER")' /\ ~Received("PINGRESP")' /\ ~Answered'
    BY <1>2 DEF Received
  <2>3. (Pending => Pending') /\ (Taken => Taken')
    BY <1>1, <2>2 DEF Pending, Taken, PlacesOf, AtMostOne, PublishAhead
  <2>4. ~overtaken =>
          PlacesOf(sent, {"PINGREQ"})' = {} /\ PlacesOf(inbox, {"PINGRESP"})' = {}
    BY <1>1, <2>1 DEF AnswerInv, PlacesOf
  <2> QED
    BY <1>1, <1>5, <2>1, <2>3, <2>4 DEF AnswerInv
<1>6. CASE call = "DISCONNECT"
  BY <1>1, <1>6 DEF AnswerInv, NotSent, Waiting
<1> QED
  BY <1>2, <1>4, <1>5, <1>6

(* The connection is gone: whatever was on its way is lost with it. *)
LEMMA AnswerGone ==
  ASSUME AnswerInv, MachineInv, NetTypeOK, StopCommunication \/ CloseUnder
  PROVE  AnswerInv'
<1>1. sent' = <<>> /\ inbox' = <<>>
  BY DEF StopCommunication, CloseUnder, ConnectionGone
<1>2. /\ Silent' /\ \A T : PlacesOf(<<>>, T) = {} /\ AtMostOne(<<>>, T)
  BY <1>1 DEF Silent, PlacesOf, AtMostOne
<1>3. CASE StopCommunication
  <2>1. mqttCall' = "STOP"
    BY <1>3 DEF StopCommunication
  <2> QED
    BY <1>2, <2>1 DEF AnswerInv, Waiting
<1>4. CASE CloseUnder
  <2>1. /\ mqttCall = "RECEIVE_PUBLISH" /\ heard # "NOTHING"
        /\ UNCHANGED <<mqttCall, heard, overtaken, arrived>>
    BY <1>4 DEF CloseUnder, machineVars, callVars
  <2>2. Answered /\ Answered'
    BY <1>4, RestMachine
  <2>3. ~overtaken => arrived
    <3>1. ~mqttFailed /\ ~Done
      BY <1>4, RestMachine DEF CloseUnder
    <3>2. Waiting
      BY <2>1, <3>1 DEF Waiting, Gone
    <3> QED
      BY <2>2, <3>2 DEF AnswerInv, Pending
  <2>4. Taken' /\ PlacesOf(sent, {"PINGREQ"})' = {} /\ PlacesOf(inbox, {"PINGRESP"})' = {}
    BY <1>1, <1>2 DEF Taken
  <2> QED
    BY <1>2, <2>1, <2>2, <2>3, <2>4 DEF AnswerInv, NotSent
<1> QED
  BY <1>3, <1>4

(* The server's commands, or the answer to the ping, are looked at. *)
LEMMA AnswerRead ==
  ASSUME NetTypeOK, MachineInv, AnswerInv, MqttQueueSize > 1, PublishReceived \/ PingAnswered
  PROVE  AnswerInv'
<1>1. /\ UNCHANGED <<sent, inbox, connection, arrived, message, commOk>>
      /\ mqttState \in {"RECEIVE_PUBLISH", "RECEIVE_PINGRESP"}
  BY DEF PublishReceived, PingAnswered, MqttPop, netVars
<1>2. /\ Done /\ ~Done' /\ ~Answered /\ ~mqttFailed
      /\ mqttCall = "RECEIVE_PUBLISH" /\ mqttCall' = "RECEIVE_PUBLISH"
      /\ mqttState' = "CONNECTED" => mqttEvents' = <<>>
  BY ReceivedMachine
<1>3. ~Received("ANSWER")' /\ ~Received("PINGRESP")' /\ ~NotSent'
  BY <1>2 DEF Received, NotSent
<1>4. heard # "ANSWER" /\ (heard = "COMMAND" => overtaken)
  BY <1>2 DEF AnswerInv
<1>5. CASE mqttFailed'
  <2>1. UNCHANGED heard /\ (overtaken => overtaken') /\ ~Waiting'
    <3>1. CASE PublishReceived
      BY <1>2, <1>5, <3>1 DEF PublishReceived, Waiting
    <3>2. CASE PingAnswered
      BY <1>5, <3>2 DEF PingAnswered, history, Waiting
    <3> QED
      BY <3>1, <3>2
  <2> QED
    BY <1>2, <1>3, <1>4, <2>1 DEF AnswerInv
<1>6. CASE ~mqttFailed'
  <2>1. commOk /\ Waiting
    <3>1. commOk
      BY <1>6 DEF PublishReceived, PingAnswered, Fail
    <3> QED
      BY <1>2, <3>1 DEF Waiting, Gone
  <2>2. \/ /\ message = "PINGRESP" /\ mqttState = "RECEIVE_PINGRESP"
           /\ mqttState' = "CONNECTED" /\ UNCHANGED <<heard, overtaken>>
        \/ /\ mqttState = "RECEIVE_PUBLISH"
           /\ \/ message \in Published /\ heard' = message /\ mqttState' = "CONNECTED"
              \/ /\ mqttState' \in {"SEND_PUBREL", "RECEIVE_PUBLISH", "SEND_PINGREQ"}
                 /\ UNCHANGED heard
           /\ overtaken' = (overtaken \/ heard' = "COMMAND")
    <3>1. CASE PublishReceived
      BY <1>6, <3>1, EnterIs DEF PublishReceived, MqttPop, Fail
    <3>2. CASE PingAnswered
      BY <1>6, <3>2, EnterIs DEF PingAnswered, MqttPop, Fail, history
    <3> QED
      BY <3>1, <3>2
  <2>3. CASE overtaken'
    <3>1. ~NotSent' /\ overtaken'
      BY <1>3, <2>3
    <3>2. heard' = "ANSWER" => Answered'
      BY <1>2, <1>4, <2>2 DEF Answered
    <3> QED
      BY <3>1, <3>2 DEF AnswerInv
  <2>4. CASE ~overtaken'
    <3>1. ~overtaken /\ heard' # "COMMAND"
      BY <1>2, <1>4, <2>2, <2>4
    <3>2. \A m : message = m => Received(m)
      BY <1>1, <1>2 DEF Received, Receiving
    <3>3. CASE message = "PINGRESP" /\ mqttState' = "CONNECTED" /\ UNCHANGED heard
      <4>1. arrived /\ Taken
        BY <2>1, <3>1, <3>2, <3>3 DEF AnswerInv, Pending
      <4>2. Taken'
        BY <1>1, <1>3, <1>4, <3>3, <4>1 DEF Taken, PlacesOf, AtMostOne
      <4>3. heard' = "NOTHING"
        BY <1>4, <3>1, <3>3 DEF NetTypeOK, Published
      <4>4. Pinged'
        BY <1>2, <3>3, <4>3 DEF Pinged
      <4> QED
        BY <1>1, <1>3, <4>1, <4>2, <4>3, <4>4 DEF AnswerInv
    <3>4. ASSUME mqttState = "RECEIVE_PUBLISH"
          PROVE  PlacesOf(sent, {"PINGREQ"})' = {} /\ PlacesOf(inbox, {"PINGRESP"})' = {}
      <4>1. ~Pinged
        BY <3>4 DEF Pinged
      <4> QED
        BY <1>1, <2>1, <3>1, <4>1 DEF AnswerInv, PlacesOf
    <3>5. CASE /\ mqttState = "RECEIVE_PUBLISH" /\ message \in Published
               /\ heard' = message /\ mqttState' = "CONNECTED"
      <4>1. heard' = "ANSWER" /\ Received("ANSWER") /\ Answered'
        BY <1>2, <3>1, <3>2, <3>5 DEF Published, Answered
      <4>2. arrived /\ Taken
        BY <2>1, <3>1, <4>1 DEF AnswerInv, Pending
      <4>3. Taken'
        BY <1>1, <4>1, <4>2 DEF Taken, PlacesOf, AtMostOne
      <4> QED
        BY <1>1, <1>3, <3>4, <3>5, <4>1, <4>2, <4>3 DEF AnswerInv
    <3>6. CASE /\ mqttState = "RECEIVE_PUBLISH" /\ UNCHANGED heard
               /\ mqttState' \in {"SEND_PUBREL", "RECEIVE_PUBLISH", "SEND_PINGREQ"}
      <4>1. ~Answered'
        BY <3>6 DEF Answered
      <4>2. (Taken => Taken') /\ (Pending => Pending')
        BY <1>1, <1>3, <4>1 DEF Taken, Pending, PlacesOf, AtMostOne, PublishAhead
      <4>3. IF arrived THEN Taken ELSE Pending
        BY <2>1, <3>1 DEF AnswerInv
      <4> QED
        BY <1>1, <1>3, <1>4, <3>1, <3>4, <3>6, <4>2, <4>3 DEF AnswerInv
    <3> QED
      BY <2>2, <3>3, <3>5, <3>6
  <2> QED
    BY <2>3, <2>4
<1> QED
  BY <1>5, <1>6

(* The call and the state of a machine that has something to do. *)
LEMMA BusyTells ==
  ASSUME MachineInv, mqttEvents # <<>>
  PROVE  /\ mqttCall # "STOP"
         /\ mqttState = "PUBLISH" => mqttCall = "PUBLISH" /\ ~counted
         /\ mqttState = "SEND_PINGREQ" => mqttCall = "RECEIVE_PUBLISH"
<1>1. Called \/ Joining \/ Working \/ Aborting \/ Stuck
  BY DEF MachineInv, Resting
<1>2. CASE Called \/ Joining \/ Aborting \/ Stuck
  BY <1>2 DEF Called, Joining, Aborting, Stuck, Connecting
<1>3. CASE Working
  <2>1. mqttCall = CallOf[mqttState] /\ mqttState \in DOMAIN CallOf
        /\ (mqttCall = "PUBLISH" => ~counted)
    BY <1>3 DEF Working
  <2> QED
    BY <2>1, StatesAre, TablesAre
<1> QED
  BY <1>1, <1>2, <1>3

(* A send is over. *)
LEMMA AnswerSend ==
  ASSUME NetTypeOK, MachineInv, AnswerInv, MqttQueueSize > 1, SendEnds
  PROVE  AnswerInv'
<1>1. /\ Polled("DONE") /\ comm # "RECEIVE" /\ mqttEvents # <<>>
      /\ UNCHANGED <<mqttState, mqttCall, mqttFailed, counted, heard, overtaken>>
  BY DEF SendEnds, Polled, MqttPop, callVars, history
<1>2. ~Done /\ Done' /\ ~Answered /\ ~Answered' /\ comm = Operation
  BY <1>1, PolledMachine
<1>3. /\ mqttState \in Sending /\ comm = Packet[mqttState] /\ comm \in Packets
      /\ mqttState \notin Receiving
  <2>1. mqttState \in Sending
    BY <1>1, <1>2 DEF Operation
  <2> QED
    BY <1>2, <2>1, StatesAre DEF Operation, Packets, Receiving
<1>4. /\ mqttCall = "RECEIVE_PUBLISH" /\ heard = "COMMAND" => overtaken
      /\ mqttCall = "RECEIVE_PUBLISH" => heard # "ANSWER"
  BY <1>2 DEF AnswerInv
<1>5. ~Received("ANSWER")' /\ ~Received("PINGRESP")'
  BY <1>1, <1>3 DEF Received
<1>6. CASE commOk' = FALSE /\ ConnectionGone
  <2>1. ~Waiting' /\ Silent'
    BY <1>2, <1>6 DEF Waiting, Gone, Silent, ConnectionGone, PlacesOf
  <2> QED
    BY <1>1, <1>4, <2>1 DEF AnswerInv
<1>7. CASE /\ commOk' = TRUE
           /\ connection' = IF connection = "CLOSED" THEN "OPEN" ELSE connection
           /\ sent' = IF connection = "LOST" THEN <<>> ELSE Append(sent, comm)
           /\ arrived' = (arrived /\ comm # "PUBLISH")
           /\ UNCHANGED <<message, inbox, broker>>
  <2>1. ~Gone /\ ~Gone' /\ connection' # "CLOSED" /\ sent \in Seq(Packets)
    BY <1>2, <1>7 DEF Gone, NetTypeOK
  <2>2. \A T : PlacesOf(<<>>, T) = {} /\ AtMostOne(<<>>, T)
    BY DEF PlacesOf, AtMostOne
  <2>3. \A T : /\ PlacesOf(sent, T) = {} /\ comm \notin T => PlacesOf(sent', T) = {}
               /\ PlacesOf(sent, T) = {} => AtMostOne(sent', T)
               /\ AtMostOne(sent, T) /\ comm \notin T => AtMostOne(sent', T)
    <3> TAKE T
    <3> QED
      BY <1>3, <1>7, <2>1, <2>2, AppendPlaces
  <2>4. \A T : PlacesOf(inbox', T) = PlacesOf(inbox, T) /\ (AtMostOne(inbox, T) => AtMostOne(inbox', T))
    BY <1>7
  <2>5. connection' = "OPEN" => sent' = Append(sent, comm) /\ (connection # "CLOSED" => connection = "OPEN")
    BY <1>7
  <2>6. CASE mqttState = "PUBLISH"
    <3>1. comm = "PUBLISH" /\ mqttCall = "PUBLISH" /\ ~counted /\ ~Accepted
      BY <1>1, <1>2, <1>3, <2>6, BusyTells, TablesAre DEF Accepted
    <3>2. ~NotSent' /\ ~arrived' /\ NotSent
      BY <1>1, <1>2, <1>7, <2>6, <3>1 DEF NotSent, Accepted
    <3>3. ASSUME ~overtaken
          PROVE  Pending' /\ PlacesOf(sent', {"PINGREQ"}) = {} /\ PlacesOf(inbox', {"PINGRESP"}) = {}
      <4>1. /\ PlacesOf(sent, {"PUBLISH", "PINGREQ"}) = {}
            /\ PlacesOf(inbox, {"ANSWER", "PINGRESP"}) = {}
        BY <3>2, <3>3 DEF AnswerInv, Silent
      <4>2. PlacesOf(sent, {"PUBLISH"}) = {} /\ PlacesOf(sent, {"PINGREQ"}) = {}
        BY <4>1 DEF PlacesOf
      <4>3. connection' = "OPEN" => PublishAhead(sent')
        BY <1>3, <2>1, <2>5, <3>1, <4>1, AheadAppend
      <4>4. AtMostOne(sent', {"PUBLISH"}) /\ PlacesOf(sent', {"PINGREQ"}) = {}
        BY <2>3, <3>1, <4>2
      <4>5. /\ PlacesOf(inbox', {"ANSWER", "PINGRESP"}) = {}
            /\ PlacesOf(inbox', {"PINGRESP"}) = {}
        BY <2>4, <4>1 DEF PlacesOf
      <4> QED
        BY <1>2, <1>5, <2>1, <4>3, <4>4, <4>5 DEF Pending
    <3> QED
      BY <1>1, <1>4, <3>1, <3>2, <3>3 DEF AnswerInv
  <2>7. CASE mqttState # "PUBLISH"
    <3>1. comm # "PUBLISH" /\ (arrived' <=> arrived)
      BY <1>3, <1>7, <2>7, StatesAre, TablesAre
    <3>2. mqttState # "SEND_PINGREQ" => comm # "PINGREQ"
      BY <1>3, <2>7, StatesAre, TablesAre
    <3>3. (NotSent' <=> NotSent) /\ (Waiting' <=> Waiting) /\ (Pinged' <=> Pinged)
      BY <1>1, <1>2, <2>1, <2>7
      DEF NotSent, Waiting, Accepted, Pinged, Answered
    <3>4. ASSUME NotSent, ~overtaken PROVE Silent'
      <4>1. comm # "PINGREQ"
        BY <1>1, <3>2, <3>4, BusyTells DEF NotSent
      <4> QED
        BY <2>3, <2>4, <3>1, <3>4, <4>1 DEF Silent, AnswerInv
    <3>5. ASSUME Waiting, ~overtaken, arrived PROVE Taken'
      <4>1. Taken
        BY <3>5 DEF AnswerInv
      <4> QED
        BY <1>2, <1>5, <2>3, <2>4, <3>1, <4>1 DEF Taken
    <3>6. ASSUME Waiting, ~overtaken, ~arrived PROVE Pending'
      <4>1. Pending
        BY <3>6 DEF AnswerInv
      <4>2. connection' = "OPEN" => PublishAhead(sent')
        BY <1>3, <2>1, <2>5, <4>1, AheadAppend DEF Pending
      <4> QED
        BY <1>2, <1>5, <2>1, <2>3, <2>4, <3>1, <4>1, <4>2 DEF Pending
    <3>7. ASSUME Waiting, ~overtaken, ~Pinged
          PROVE  PlacesOf(sent', {"PINGREQ"}) = {} /\ PlacesOf(inbox', {"PINGRESP"}) = {}
      <4>1. mqttState # "SEND_PINGREQ"
        BY <3>7 DEF Pinged
      <4> QED
        BY <2>3, <2>4, <3>2, <3>7, <4>1 DEF AnswerInv
    <3> QED
      BY <1>1, <1>4, <3>1, <3>3, <3>4, <3>5, <3>6, <3>7 DEF AnswerInv
  <2> QED
    BY <2>6, <2>7
<1> QED
  BY <1>6, <1>7 DEF SendEnds

(* A receive is over. *)
LEMMA AnswerReceive ==
  ASSUME NetTypeOK, MachineInv, AnswerInv, MqttQueueSize > 1, ReceiveEnds
  PROVE  AnswerInv'
<1>1. /\ Polled("DONE") /\ comm = "RECEIVE"
      /\ UNCHANGED <<mqttState, mqttCall, mqttFailed, counted, heard, overtaken>>
  BY DEF ReceiveEnds, Polled, MqttPop, callVars, history
<1>2. ~Done /\ Done' /\ ~Answered /\ ~Answered' /\ comm = Operation
  BY <1>1, PolledMachine
<1>3. mqttState # "PUBLISH"
  BY <1>1, <1>2, StatesAre, TablesAre DEF Operation
<1>4. /\ mqttCall = "RECEIVE_PUBLISH" /\ heard = "COMMAND" => overtaken
      /\ mqttCall = "RECEIVE_PUBLISH" => heard # "ANSWER"
  BY <1>2 DEF AnswerInv
<1>5. CASE commOk' = FALSE /\ ConnectionGone
  <2>1. ~Waiting' /\ Silent'
    BY <1>2, <1>5 DEF Waiting, Gone, Silent, ConnectionGone, PlacesOf
  <2> QED
    BY <1>1, <1>4, <2>1 DEF AnswerInv
<1>6. ASSUME commOk' = TRUE, UNCHANGED <<sent, arrived>>,
             connection # "CLOSED" => UNCHANGED connection,
             \A T : PlacesOf(inbox, {"ANSWER", "PINGRESP"} \cap T) = {} =>
                      PlacesOf(inbox', {"ANSWER", "PINGRESP"} \cap T) = {},
             AtMostOne(inbox, {"ANSWER"}) => AtMostOne(inbox', {"ANSWER"}),
             message' = "NOTHING" \/ (inbox # <<>> /\ message' = Head(inbox)),
             message' = "ANSWER" /\ AtMostOne(inbox, {"ANSWER"}) =>
               PlacesOf(inbox', {"ANSWER"}) = {}
      PROVE  AnswerInv'
  <2>1. (NotSent' <=> NotSent) /\ (Waiting' <=> Waiting) /\ (Pinged' <=> Pinged)
    BY <1>1, <1>2, <1>3, <1>6 DEF NotSent, Waiting, Accepted, Pinged, Gone, Answered
  <2>2. /\ {"ANSWER", "PINGRESP"} \cap {"ANSWER"} = {"ANSWER"}
        /\ {"ANSWER", "PINGRESP"} \cap {"PINGRESP"} = {"PINGRESP"}
        /\ {"ANSWER", "PINGRESP"} \cap {"ANSWER", "PINGRESP"} = {"ANSWER", "PINGRESP"}
    OBVIOUS
  <2>3. /\ PlacesOf(inbox, {"ANSWER"}) = {} => PlacesOf(inbox', {"ANSWER"}) = {}
        /\ PlacesOf(inbox, {"PINGRESP"}) = {} => PlacesOf(inbox', {"PINGRESP"}) = {}
        /\ PlacesOf(inbox, {"ANSWER", "PINGRESP"}) = {} =>
             PlacesOf(inbox', {"ANSWER", "PINGRESP"}) = {}
    BY <1>6, <2>2
  <2>4. \A T : /\ PlacesOf(sent', T) = PlacesOf(sent, T)
               /\ AtMostOne(sent, T) => AtMostOne(sent', T)
    BY <1>6
  <2>5. Silent => Silent'
    BY <2>3, <2>4 DEF Silent
  <2>6. Taken => Taken'
    <3> SUFFICES ASSUME Taken PROVE Taken'
      OBVIOUS
    <3>1. Received("ANSWER")' => PlacesOf(inbox', {"ANSWER"}) = {}
      BY <1>6 DEF Received, Taken
    <3> QED
      BY <1>2, <1>6, <2>4, <3>1 DEF Taken
  <2>7. Pending => Pending'
    <3> SUFFICES ASSUME Pending PROVE Pending'
      OBVIOUS
    <3>1. message' \notin {"ANSWER", "PINGRESP"}
      <4>1. inbox \in Seq(Messages) /\ PlacesOf(inbox, {"ANSWER", "PINGRESP"}) = {}
        BY DEF NetTypeOK, Pending
      <4>2. inbox # <<>> => Head(inbox) \notin {"ANSWER", "PINGRESP"}
        BY <4>1, HeadPlaces
      <4> QED
        BY <1>6, <4>2
    <3>2. connection' = connection /\ connection' # "CLOSED"
      BY <1>6 DEF Pending
    <3>3. PublishAhead(sent) => PublishAhead(sent')
      BY <1>6
    <3>4. ~Received("ANSWER")' /\ ~Received("PINGRESP")'
      BY <3>1 DEF Received
    <3> QED
      BY <1>2, <2>3, <2>4, <3>2, <3>3, <3>4 DEF Pending
  <2> QED
    BY <1>1, <1>4, <1>6, <2>1, <2>3, <2>4, <2>5, <2>6, <2>7 DEF AnswerInv
<1>7. CASE /\ inbox # <<>> /\ commOk' = TRUE
           /\ \E taken \in DOMAIN inbox :
                /\ message' = Head(inbox)
                /\ inbox' = SubSeq(inbox, taken + 1, Len(inbox))
           /\ UNCHANGED <<connection, sent, broker, first, arrived>>
  <2>1. PICK taken \in DOMAIN inbox :
          /\ message' = Head(inbox)
          /\ inbox' = SubSeq(inbox, taken + 1, Len(inbox))
    BY <1>7
  <2>2. inbox \in Seq(Messages) /\ taken \in 1..Len(inbox)
    BY <2>1 DEF NetTypeOK
  <2>3. \A T : /\ PlacesOf(inbox, T) = {} => PlacesOf(inbox', T) = {}
               /\ AtMostOne(inbox, T) => AtMostOne(inbox', T)
               /\ AtMostOne(inbox, T) /\ Head(inbox) \in T => PlacesOf(inbox', T) = {}
    BY <2>1, <2>2, LaterPlaces
  <2> QED
    BY <1>6, <1>7, <2>1, <2>3
<1>8. CASE /\ inbox # <<>> /\ commOk' = TRUE
           /\ message' = "NOTHING" /\ inbox' = <<"REST">> \o Tail(inbox)
           /\ UNCHANGED <<connection, sent, broker, first, arrived>>
  <2>1. inbox \in Seq(Messages) /\ "REST" \in Messages
    BY DEF NetTypeOK, Messages
  <2>2. \A T : "REST" \notin T => /\ PlacesOf(inbox, T) = {} => PlacesOf(inbox', T) = {}
                                  /\ AtMostOne(inbox, T) => AtMostOne(inbox', T)
    BY <1>8, <2>1, CutPlaces
  <2>3. \A T : PlacesOf(inbox, {"ANSWER", "PINGRESP"} \cap T) = {} =>
                 PlacesOf(inbox', {"ANSWER", "PINGRESP"} \cap T) = {}
    BY <2>2
  <2> QED
    BY <1>6, <1>8, <2>2, <2>3
<1>9. CASE /\ message' = "NOTHING" /\ commOk' = TRUE
           /\ connection' = IF connection = "CLOSED" THEN "OPEN" ELSE connection
           /\ UNCHANGED <<sent, inbox, broker, first, arrived>>
  BY <1>6, <1>9
<1> QED
  BY <1>5, <1>7, <1>8, <1>9 DEF ReceiveEnds

(* The broker takes a packet, or the connection does something on its own. *)
LEMMA AnswerBroker ==
  ASSUME NetTypeOK, MachineInv, AnswerInv, BrokerTakes \/ BrokerSends \/ Lose
  PROVE  AnswerInv'
<1>1. UNCHANGED <<mqttEvents, mqttState, mqttFailed, counted, heard, overtaken, mqttCall,
                  commOk, message>>
  BY BrokerMachine
<1>2. /\ NotSent' <=> NotSent
      /\ Waiting' <=> Waiting
      /\ Pinged' <=> Pinged
      /\ Answered' <=> Answered
      /\ \A m : Received(m)' <=> Received(m)
  BY <1>1 DEF NotSent, Waiting, Pinged, Answered, Received, Accepted, Gone, Done, Turn, TurnKept
<1>3. ASSUME NotSent /\ ~overtaken => Silent',
             Waiting /\ ~overtaken => IF arrived' THEN Taken' ELSE Pending',
             Waiting /\ ~overtaken /\ ~Pinged =>
               PlacesOf(sent', {"PINGREQ"}) = {} /\ PlacesOf(inbox', {"PINGRESP"}) = {}
      PROVE  AnswerInv'
  BY <1>1, <1>2, <1>3 DEF AnswerInv
<1>4. sent \in Seq(Packets) /\ inbox \in Seq(Messages)
  BY DEF NetTypeOK
<1>5. \A T : PlacesOf(<<>>, T) = {} /\ AtMostOne(<<>>, T)
  BY DEF PlacesOf, AtMostOne
<1>6. ASSUME connection' = "LOST", sent' = <<>>, UNCHANGED arrived,
             inbox' = inbox \/ inbox' = <<>>
      PROVE  AnswerInv'
  <2>1. \A T : /\ PlacesOf(inbox, T) = {} => PlacesOf(inbox', T) = {}
               /\ AtMostOne(inbox, T) => AtMostOne(inbox', T)
    BY <1>5, <1>6
  <2>2. \A T : PlacesOf(sent', T) = {} /\ AtMostOne(sent', T)
    BY <1>5, <1>6
  <2>3. (Silent => Silent') /\ (Taken => Taken')
    BY <1>1, <1>2, <2>1, <2>2 DEF Silent, Taken
  <2>4. Pending => Pending'
    BY <1>2, <1>6, <2>1, <2>2 DEF Pending
  <2> QED
    BY <1>3, <1>6, <2>1, <2>2, <2>3, <2>4 DEF AnswerInv
<1>7. ASSUME UNCHANGED <<connection, sent, arrived>>,
             NEW m \in Messages, m \notin {"ANSWER", "PINGRESP"}, inbox' = Append(inbox, m)
      PROVE  AnswerInv'
  <2>1. \A T : m \notin T => /\ PlacesOf(inbox, T) = {} => PlacesOf(inbox', T) = {}
                             /\ AtMostOne(inbox, T) => AtMostOne(inbox', T)
    BY <1>4, <1>7, AppendPlaces
  <2>2. \A T : /\ PlacesOf(sent', T) = PlacesOf(sent, T)
               /\ AtMostOne(sent, T) => AtMostOne(sent', T)
    BY <1>7
  <2>3. (Silent => Silent') /\ (Taken => Taken')
    BY <1>1, <1>2, <1>7, <2>1, <2>2 DEF Silent, Taken
  <2>4. Pending => Pending'
    <3>1. PublishAhead(sent) => PublishAhead(sent')
      BY <1>7
    <3> QED
      BY <1>2, <1>7, <2>1, <2>2, <3>1 DEF Pending
  <2> QED
    BY <1>3, <1>7, <2>1, <2>2, <2>3, <2>4 DEF AnswerInv
<1>8. CASE Lose
  BY <1>6, <1>8 DEF Lose
<1>9. CASE BrokerSends
  <2>1. PICK m \in Unasked : inbox' = Append(inbox, m)
    BY <1>9 DEF BrokerSends
  <2>2. m \in Messages /\ m \notin {"ANSWER", "PINGRESP"}
    BY MqttAssumption DEF Messages
  <2>3. UNCHANGED <<connection, sent, arrived>>
    BY <1>9 DEF BrokerSends
  <2> QED
    BY <1>7, <2>1, <2>2, <2>3
<1>10. CASE BrokerTakes
  <2> DEFINE packet == Head(sent)
             Replied(reply) == /\ inbox' = inbox \o reply /\ sent' = Tail(sent)
                               /\ UNCHANGED connection
  <2>0. /\ connection = "OPEN" /\ sent # <<>>
        /\ arrived' = (arrived \/ (packet = "PUBLISH" /\ broker = "SUBSCRIBED"))
        /\ \/ packet = "CONNECT" /\ Replied(<<"CONNACK">>)
           \/ packet = "SUBSCRIBE" /\ \E suback \in Subacks : Replied(<<suback>>)
           \/ /\ packet = "PUBLISH" /\ broker = "SUBSCRIBED"
              /\ Replied(<<>>) \/ Replied(<<"ANSWER">>)
           \/ packet = "PINGREQ" /\ Replied(<<"PINGRESP">>)
           \/ /\ ~(packet = "PUBLISH" /\ broker = "SUBSCRIBED")
              /\ connection' = "LOST" /\ sent' = <<>> /\ UNCHANGED inbox
    BY <1>10 DEF BrokerTakes
  <2>1. \A m : inbox \o <<m>> = Append(inbox, m) /\ inbox \o <<>> = inbox
    BY <1>4
  <2>2. \A T : /\ PlacesOf(sent, T) = {} => PlacesOf(Tail(sent), T) = {} /\ packet \notin T
               /\ AtMostOne(sent, T) => AtMostOne(Tail(sent), T)
               /\ AtMostOne(sent, T) /\ packet \in T => PlacesOf(Tail(sent), T) = {}
    <3> TAKE T
    <3>1. ASSUME AtMostOne(sent, T)
          PROVE  /\ AtMostOne(Tail(sent), T)
                 /\ PlacesOf(sent, T) = {} => PlacesOf(Tail(sent), T) = {}
                 /\ packet \in T => PlacesOf(Tail(sent), T) = {}
      BY <1>4, <2>0, <3>1, TailTokens
    <3>2. PlacesOf(sent, T) = {} => AtMostOne(sent, T) /\ packet \notin T
      BY <1>4, <2>0, HeadPlaces DEF AtMostOne
    <3> QED
      BY <3>1, <3>2
  <2>3. PublishAhead(sent) /\ packet # "PUBLISH" => PublishAhead(Tail(sent)) /\ packet # "PINGREQ"
    BY <1>4, <2>0, AheadTail
  <2> HIDE DEF packet
  <2>4. CASE /\ packet \in {"CONNECT", "SUBSCRIBE", "PINGREQ"}
             /\ \E m \in {"CONNACK", "PINGRESP"} \cup Subacks :
                  Replied(<<m>>) /\ (m = "PINGRESP" => packet = "PINGREQ")
    <3>1. PICK m \in {"CONNACK", "PINGRESP"} \cup Subacks :
                  Replied(<<m>>) /\ (m = "PINGRESP" => packet = "PINGREQ")
      BY <2>4
    <3>2. /\ sent' = Tail(sent) /\ inbox' = Append(inbox, m) /\ UNCHANGED connection
          /\ m \in Messages /\ m # "ANSWER" /\ (arrived' <=> arrived)
      BY <2>0, <2>1, <2>4, <3>1, MqttAssumption DEF Messages
    <3>3. \A T : m \notin T => /\ PlacesOf(inbox, T) = {} => PlacesOf(inbox', T) = {}
                               /\ AtMostOne(inbox, T) => AtMostOne(inbox', T)
      BY <1>4, <3>2, AppendPlaces
    <3>4. Silent => Silent'
      <4> SUFFICES ASSUME Silent PROVE Silent'
        OBVIOUS
      <4>1. packet # "PINGREQ"
        BY <2>2 DEF Silent
      <4> QED
        BY <2>2, <3>1, <3>2, <3>3, <4>1 DEF Silent
    <3>5. Taken => Taken'
      BY <1>1, <1>2, <2>2, <3>2, <3>3 DEF Taken
    <3>6. Pending => Pending'
      <4> SUFFICES ASSUME Pending PROVE Pending'
        OBVIOUS
      <4>1. PublishAhead(sent)
        BY <2>0 DEF Pending
      <4>2. PublishAhead(sent') /\ m # "PINGRESP"
        BY <2>3, <2>4, <3>1, <3>2, <4>1
      <4> QED
        BY <1>2, <2>2, <3>2, <3>3, <4>2 DEF Pending
    <3>7. PlacesOf(sent, {"PINGREQ"}) = {} /\ PlacesOf(inbox, {"PINGRESP"}) = {} =>
            PlacesOf(sent', {"PINGREQ"}) = {} /\ PlacesOf(inbox', {"PINGRESP"}) = {}
      BY <2>2, <3>1, <3>2, <3>3
    <3> QED
      BY <1>3, <3>2, <3>4, <3>5, <3>6, <3>7 DEF AnswerInv
  <2>5. CASE /\ packet = "PUBLISH" /\ broker = "SUBSCRIBED"
             /\ Replied(<<>>) \/ Replied(<<"ANSWER">>)
    <3>1. /\ sent' = Tail(sent) /\ arrived'
          /\ inbox' = inbox \/ inbox' = Append(inbox, "ANSWER")
      BY <2>0, <2>1, <2>5
    <3>2. "ANSWER" \in Messages
      BY DEF Messages
    <3>3. /\ PlacesOf(inbox, {"ANSWER"}) = {} => AtMostOne(inbox', {"ANSWER"})
          /\ PlacesOf(inbox, {"PINGRESP"}) = {} => PlacesOf(inbox', {"PINGRESP"}) = {}
      <4>1. CASE inbox' = inbox
        BY <4>1 DEF AtMostOne
      <4>2. CASE inbox' = Append(inbox, "ANSWER")
        BY <1>4, <3>2, <4>2, AppendPlaces
      <4> QED
        BY <3>1, <4>1, <4>2
    <3>4. ~Silent /\ ~Taken
      BY <2>2, <2>5 DEF Silent, Taken
    <3>5. Pending => Taken'
      <4> SUFFICES ASSUME Pending PROVE Taken'
        OBVIOUS
      <4>1. PlacesOf(inbox, {"ANSWER"}) = {}
        BY DEF Pending, PlacesOf
      <4>2. PlacesOf(sent', {"PUBLISH"}) = {}
        BY <2>2, <2>5, <3>1 DEF Pending
      <4>3. ~Received("ANSWER")' /\ ~Answered'
        BY <1>2 DEF Pending
      <4> QED
        BY <3>3, <4>1, <4>2, <4>3 DEF Taken
    <3>6. PlacesOf(sent, {"PINGREQ"}) = {} => PlacesOf(sent', {"PINGREQ"}) = {}
      BY <2>2, <3>1
    <3> QED
      BY <1>3, <3>1, <3>3, <3>4, <3>5, <3>6 DEF AnswerInv
  <2>6. CASE /\ ~(packet = "PUBLISH" /\ broker = "SUBSCRIBED")
             /\ connection' = "LOST" /\ sent' = <<>> /\ UNCHANGED inbox
    <3>1. arrived' = arrived
      BY <2>0, <2>6 DEF NetTypeOK
    <3> QED
      BY <1>6, <2>6, <3>1
  <2> HIDE DEF Replied
  <2>7. ASSUME NEW m \in {"CONNACK", "PINGRESP"} \cup Subacks, Replied(<<m>>),
               packet \in {"CONNECT", "SUBSCRIBE", "PINGREQ"},
               m = "PINGRESP" => packet = "PINGREQ"
        PROVE  AnswerInv'
    BY <2>4, <2>7
  <2>8. CASE packet = "CONNECT" /\ Replied(<<"CONNACK">>)
    BY <2>7, <2>8
  <2>9. CASE packet = "SUBSCRIBE" /\ \E suback \in Subacks : Replied(<<suback>>)
    BY <2>7, <2>9, MqttAssumption
  <2>10. CASE packet = "PINGREQ" /\ Replied(<<"PINGRESP">>)
    BY <2>7, <2>10
  <2> QED
    BY <2>0, <2>5, <2>6, <2>8, <2>9, <2>10
<1> QED
  BY <1>8, <1>9, <1>10

-------------------------------------------------------------------------------
(* One step of the machine, the application, the broker or the network. *)
LEMMA MqttStep ==
  ASSUME MqttInv, MqttQueueSize > 1, [MqttNext]_mqttVars
  PROVE  MqttInv'
<1> USE DEF MqttInv
<1>1. CASE UNCHANGED mqttVars
  <2>1. UNCHANGED <<mqttEvents, mqttState, mqttFailed, comm, commOk, message, counted, heard,
                    mqttBusy, mqttCall, connection, sent, inbox, broker, first, arrived,
                    mismatched, overtaken, closedUnder>>
    BY <1>1 DEF mqttVars, machineVars, history, callVars, netVars
  <2>2. NetTypeOK'
    BY <2>1 DEF NetTypeOK
  <2>3. MachineInv'
    BY <2>1 DEF MachineInv, Resting, Called, Joining, Working, Aborting, Stuck, Turn,
                TurnKept, Turns, Operation
  <2>4. SessionInv'
    BY <2>1 DEF SessionInv, ConnectFirst, Gone, Done, Turn, TurnKept
  <2>5. AnswerInv'
    <3>1. /\ NotSent' <=> NotSent
          /\ Waiting' <=> Waiting
          /\ Pinged' <=> Pinged
          /\ Answered' <=> Answered
          /\ \A m : Received(m)' <=> Received(m)
      BY <2>1 DEF NotSent, Waiting, Pinged, Answered, Received, Accepted, Gone, Done, Turn,
                  TurnKept
    <3> QED
      BY <2>1, <3>1, AnswerFrame
  <2> QED
    BY <2>2, <2>3, <2>4, <2>5
<1>2. CASE MqttNext
  <2>1. SessionInv'
    BY <1>2, SessionStep
  <2>2. CASE \E call \in Requests \cup {"DISCONNECT"} : MqttCall(call)
    <3>1. PICK call \in Requests \cup {"DISCONNECT"} : MqttCall(call)
      BY <2>2
    <3>2. MachineInv'
      BY <3>1, CallMachine
    <3>3. AnswerInv'
      BY <3>1, AnswerCall
    <3> QED
      BY <2>1, <2>2, <3>2, <3>3, MachineType
  <2>3. CASE MqttReturns
    BY <2>1, <2>3, MachineType, RestMachine, AnswerQuiet
  <2>4. CASE StopCommunication \/ CloseUnder
    BY <2>1, <2>4, MachineType, RestMachine, AnswerGone
  <2>5. CASE StillRunning
    <3>1. MachineInv'
      BY <2>5, PolledMachine DEF StillRunning
    <3> QED
      BY <2>1, <2>5, <3>1, MachineType, AnswerQuiet
  <2>6. CASE SendEnds
    <3>1. MachineInv'
      BY <2>6, PolledMachine DEF SendEnds
    <3> QED
      BY <2>1, <2>6, <3>1, NetworkType, AnswerSend
  <2>7. CASE ReceiveEnds
    <3>1. MachineInv'
      BY <2>7, PolledMachine DEF ReceiveEnds
    <3> QED
      BY <2>1, <2>7, <3>1, NetworkType, AnswerReceive
  <2>8. CASE StartConnecting \/ MqttParametersMissing \/ StartRequest \/ StartDisconnecting
    BY <2>1, <2>8, MachineType, RequestMachine, AnswerQuiet
  <2>9. CASE RetainRequest \/ MqttIgnores
    BY <2>1, <2>9, MachineType, IdleMachine, AnswerQuiet
  <2>10. CASE Sent
    BY <2>1, <2>10, MachineType, SentMachine, AnswerQuiet
  <2>11. CASE StartReceiving
    BY <2>1, <2>11, MachineType, StartReceivingMachine, AnswerQuiet
  <2>12. CASE AnswerReceived
    BY <2>1, <2>12, MachineType, AnswerMachine, AnswerQuiet
  <2>13. CASE PublishReceived \/ PingAnswered
    BY <2>1, <2>13, MachineType, ReceivedMachine, AnswerRead
  <2>14. CASE BrokerTakes \/ BrokerSends \/ Lose
    BY <2>1, <2>14, NetworkType, BrokerMachine, AnswerBroker
  <2> QED
    BY <1>2, <2>2, <2>3, <2>4, <2>5, <2>6, <2>7, <2>8, <2>9, <2>10, <2>11, <2>12, <2>13,
       <2>14 DEF MqttNext, MqttProcess
<1> QED
  BY <1>1, <1>2

(* An operation that is over has left the machine at rest, or an answer    *)
(* with the wrong id has left it stuck, and then the operation goes on.    *)
LEMMA OverIsResting ==
  ASSUME MachineInv, ~mqttBusy
  PROVE  Resting /\ ~mismatched
BY DEF MachineInv, Called, Joining, Working, Aborting, Stuck

(* Every state satisfies the inductive invariant. *)
LEMMA MqttAlways == ASSUME MqttQueueSize > 1 PROVE MqttSpec => []MqttInv
<1>1. MqttInit => MqttInv
  BY MqttInitInv
<1>2. MqttInv /\ [MqttNext]_mqttVars => MqttInv'
  BY MqttStep
<1> QED
  BY <1>1, <1>2, PTL DEF MqttSpec

(* At most three events are queued, of the types and in the states that    *)
(* mqtt_communication_protocol_handler() knows, and PROCESS is queued only *)
(* while the operation of the state at hand runs.                          *)
THEOREM MqttTypesKept == ASSUME MqttQueueSize > 1 PROVE MqttSpec => []MqttTypeOK
<1>1. MqttInv => MqttTypeOK
  BY TypesTell DEF MqttInv
<1> QED
  BY <1>1, MqttAlways, PTL

(* A connection begins with CONNECT, whatever failed before and whenever,  *)
(* as long as no command has closed the socket under the session.          *)
THEOREM SessionsConnectFirst ==
  ASSUME MqttQueueSize > 1 PROVE MqttSpec => []ConnectFirst
<1>1. MqttInv => ConnectFirst
  BY DEF MqttInv, SessionInv
<1> QED
  BY <1>1, MqttAlways, PTL

(* set_mqtt_communication_protocol_error() is always followed by the       *)
(* transition to DISCONNECTED before the operation returns.                *)
THEOREM ErrorsEndSessions ==
  ASSUME MqttQueueSize > 1 PROVE MqttSpec => []ErrorsDisconnect
<1>1. MqttInv => ErrorsDisconnect
  BY OverIsResting DEF MqttInv, ErrorsDisconnect, OperationOver, Resting
<1> QED
  BY <1>1, MqttAlways, PTL

(* sensor_readings_sent counts readings exactly when the operation that    *)
(* sent them returned without an error.                                    *)
THEOREM SentAreCounted ==
  ASSUME MqttQueueSize > 1 PROVE MqttSpec => []CountsSent
<1>1. MqttInv => CountsSent
  BY OverIsResting DEF MqttInv, CountsSent, OperationOver, Resting
<1> QED
  BY <1>1, MqttAlways, PTL

(* A receive that returns without an error means that the broker has the   *)
(* last PUBLISH: what was taken for an answer is not an old one, and the   *)
(* ping is answered after the PUBLISH before it.  A message of the         *)
(* broker's own is the exception.                                          *)
THEOREM ReceivedMeansArrived ==
  ASSUME MqttQueueSize > 1 PROVE MqttSpec => []SuccessMeansArrived
<1>1. MqttInv => SuccessMeansArrived
  <2> SUFFICES ASSUME MqttInv, OperationOver, mqttCall = "RECEIVE_PUBLISH", ~mqttFailed,
                      ~overtaken
               PROVE  arrived
    BY DEF SuccessMeansArrived
  <2>1. Resting
    BY OverIsResting DEF MqttInv, OperationOver
  <2>2. Answered
    BY <2>1 DEF Resting, Answered
  <2>3. ~Gone
    BY <2>1, Tuples DEF Resting, Gone, Done, Turn, TurnKept
  <2>4. Waiting
    BY <2>3 DEF Waiting
  <2> QED
    BY <2>2, <2>4 DEF MqttInv, AnswerInv, Pending
<1> QED
  BY <1>1, MqttAlways, PTL
===============================================================================
