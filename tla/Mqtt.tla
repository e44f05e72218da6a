---------------------------------- MODULE Mqtt ---------------------------------
(***************************************************************************)
(* The MQTT machine, core/mqtt_communication_protocol.c, between the       *)
(* application that calls it, the communication module it calls and the    *)
(* broker at the other end.                                                *)
(*                                                                         *)
(*   DISCONNECTED                                                          *)
(*   CONNECTING  (SEND_CONNECT RECEIVE_CONNACK SEND_SUBSCRIBE              *)
(*                RECEIVE_SUBACK)                                          *)
(*   CONNECTED   (PUBLISH RECEIVE_PUBLISH SEND_PUBREL RECEIVE_PUBACK ...,  *)
(*                PING with SEND_PINGREQ RECEIVE_PINGRESP)                 *)
(*   DISCONNECTING                                                         *)
(*                                                                         *)
(* The communication module is what module Wifi shows of itself: an        *)
(* operation runs for some polls and ends in success or failure; a failed  *)
(* one has reset the chip, so that the connection is gone; a receive that  *)
(* times out succeeds with no data; a socket that has been closed is       *)
(* opened again by the next operation.                                     *)
(*                                                                         *)
(* An operator named Mutant... is the one below it with a bug; it shows    *)
(* that a property notices (README) and the specification never uses it.   *)
(***************************************************************************)
EXTENDS EventQueue, FiniteSets

CONSTANTS
  MqttQueueSize,   \* MQTT_COMMUNICATION_PROTOCOL_EVENT_BUFFER_SIZE
  MqttParameters,  \* the values mqtt_parameters_set() may have
  Subacks,         \* the answers the broker may give to SUBSCRIBE
  MaxUnasked,      \* bound: messages the broker sends on its own
  Unasked,         \* what these are
  MaxLosses,       \* bound: connections lost
  MaxExchanges     \* bound: exchanges of the application

ASSUME MqttAssumption ==
  /\ MqttQueueSize \in Nat \ {0} /\ MqttParameters \subseteq BOOLEAN
  /\ Subacks \subseteq {"SUBACK", "WRONG_SUBACK"}
  /\ Unasked \subseteq {"COMMAND", "PUBREC", "PUBACK"}
  /\ MaxUnasked \in Nat /\ MaxLosses \in Nat /\ MaxExchanges \in Nat

VARIABLES
  mqttEvents,  \* mqtt_communication_protocol_event_buffer
  mqttState,   \* the innermost state
  mqttFailed,  \* communication_protocol_type_data tells an error
  comm,        \* what communication_module_process_handle runs
  commOk,      \* the result of the operation that ran last
  message,     \* mqtt_buffer as mqtt_parse_message sees it
  counted,     \* sensor_readings_sent counts what the last message held
  heard,       \* received_commands_buffer: the message extracted last
  mqttBusy,    \* the application: the operation is not over yet
  mqttCall,    \* the application: the operation called last
  connection,  \* the TCP connection: CLOSED, OPEN or LOST
  sent,        \* packets on their way to the broker
  inbox,       \* messages on their way to the device
  broker,      \* the broker's view of the session
  left,        \* what the bounds leave: unasked messages, losses, exchanges
  first,       \* history: the first packet of the connection
  arrived,     \* history: the broker has taken the last PUBLISH
  mismatched,  \* history: an answer with the id of another message came
  overtaken,   \* history: a message of the broker's own was heard
  closedUnder  \* history: a command has closed the socket under a session

machineVars == <<mqttEvents, mqttState, mqttFailed, comm, counted, heard,
                 mismatched, overtaken>>
history     == <<mismatched, overtaken>>
callVars    == <<mqttBusy, mqttCall>>
netVars     == <<commOk, message, connection, sent, inbox, broker, first, arrived>>
mqttVars    == <<machineVars, callVars, netVars, left, closedUnder>>

Packet ==
  [SEND_CONNECT |-> "CONNECT", SEND_SUBSCRIBE |-> "SUBSCRIBE", PUBLISH |-> "PUBLISH",
   SEND_PUBREL |-> "ZEROS", SEND_PINGREQ |-> "PINGREQ", DISCONNECTING |-> "DISCONNECT"]
Sending    == DOMAIN Packet
Receiving  == {"RECEIVE_CONNACK", "RECEIVE_SUBACK", "RECEIVE_PUBLISH",
               "RECEIVE_PUBACK", "RECEIVE_PUBREC", "RECEIVE_PUBCOMP",
               "RECEIVE_PINGRESP"}
Connecting == {"SEND_CONNECT", "RECEIVE_CONNACK", "SEND_SUBSCRIBE", "RECEIVE_SUBACK"}
MqttStates == Sending \cup Receiving \cup {"DISCONNECTED", "CONNECTED"}
InSession  == MqttStates \ (Connecting \cup {"DISCONNECTED", "DISCONNECTING"})
Requests   == {"PUBLISH", "RECEIVE_PUBLISH", "RECEIVE_PUBACK", "RECEIVE_PUBREC",
               "RECEIVE_PUBCOMP"}
MqttTypes  == Receiving \cup {"PUBLISH", "DISCONNECT", "PROCESS", "DONE", "STRAY"}
Messages   == {"CONNACK", "PINGRESP", "ANSWER", "REST"} \cup Subacks \cup Unasked
Published  == {"ANSWER", "COMMAND"}

MqttAdd(queue, event) == Put(queue, event, MqttQueueSize)

MqttInit ==
  /\ mqttEvents = <<>> /\ mqttState = "DISCONNECTED" /\ mqttFailed = FALSE
  /\ comm = "NONE" /\ commOk = TRUE /\ message = "NOTHING"
  /\ counted = FALSE /\ heard = "NOTHING" /\ mqttBusy = FALSE /\ mqttCall = "STOP"
  /\ connection = "CLOSED" /\ sent = <<>> /\ inbox = <<>> /\ broker = "NEW"
  /\ left = [unasked |-> MaxUnasked, losses |-> MaxLosses, exchanges |-> MaxExchanges]
  /\ first = "NONE" /\ arrived = FALSE /\ mismatched = FALSE
  /\ overtaken = FALSE /\ closedUnder = FALSE

-------------------------------------------------------------------------------
(***************************************************************************)
(* Helpers.                                                                *)
(***************************************************************************)
MqttPop(states, types) ==
  /\ mqttBusy /\ mqttEvents # <<>>
  /\ mqttState \in states /\ Head(mqttEvents) \in types
  /\ UNCHANGED <<callVars, left, closedUnder>>

Rest == Tail(mqttEvents)

(* transition: the entry handlers.  A sending state packs its message and  *)
(* starts the module, a receiving one adds its event, DISCONNECTED clears  *)
(* the queue.                                                              *)
MutantEnter(state, queue) ==
  /\ mqttState' = state
  /\ comm' = comm
  /\ mqttEvents' = CASE state = "DISCONNECTED" -> <<>>
                     [] state \in Sending      -> MqttAdd(queue, "PROCESS")
                     [] state \in Receiving    -> MqttAdd(queue, state)
                     [] OTHER                  -> queue

MutantEnterUncleared(state, queue) ==
  /\ mqttState' = state
  /\ comm' = IF state \in Sending THEN Packet[state] ELSE comm
  /\ mqttEvents' = CASE state \in Sending   -> MqttAdd(queue, "PROCESS")
                     [] state \in Receiving -> MqttAdd(queue, state)
                     [] OTHER               -> queue

Enter(state, queue) ==
  /\ mqttState' = state
  /\ comm' = IF state \in Sending THEN Packet[state] ELSE comm
  /\ mqttEvents' = CASE state = "DISCONNECTED" -> <<>>
                     [] state \in Sending      -> MqttAdd(queue, "PROCESS")
                     [] state \in Receiving    -> MqttAdd(queue, state)
                     [] OTHER                  -> queue

(* set_mqtt_communication_protocol_error, and the transition after it *)
MutantFail(state) == mqttFailed' = TRUE /\ Enter("CONNECTED", Rest)
Fail(state)       == mqttFailed' = TRUE /\ Enter(state, Rest)

-------------------------------------------------------------------------------
(***************************************************************************)
(* The application: SEND, RECEIVE, and SEND again or DISCONNECT, then the  *)
(* communication module is stopped; a failure goes straight to the stop.   *)
(***************************************************************************)
Follows(call) ==
  CASE call = "STOP" -> {"PUBLISH"}
    [] call = "PUBLISH" /\ ~mqttFailed -> {"RECEIVE_PUBLISH"}
    [] call = "RECEIVE_PUBLISH" /\ ~mqttFailed ->
         {"DISCONNECT"} \cup IF heard # "NOTHING" THEN {"PUBLISH"} ELSE {}
    [] OTHER -> {}

(* mqtt_protocol_send_sensor_readings_and_system_data, _receive_commands   *)
(* and _disconnect                                                         *)
MqttCall(call) ==
  /\ ~mqttBusy /\ call \in Follows(mqttCall)
  /\ left.exchanges > 0
  /\ mqttBusy' = TRUE /\ mqttCall' = call
  /\ mqttEvents' = MqttAdd(mqttEvents, call)
  /\ mqttFailed' = FALSE
  /\ counted' = (counted /\ call # "PUBLISH")
  /\ heard' = IF call = "RECEIVE_PUBLISH" THEN "NOTHING" ELSE heard
  /\ UNCHANGED <<mqttState, comm, history, netVars, left, closedUnder>>

(* mqtt_communinication_protocol_process returns false *)
MqttReturns ==
  /\ mqttBusy /\ mqttEvents = <<>>
  /\ mqttBusy' = FALSE
  /\ UNCHANGED <<machineVars, mqttCall, netVars, left, closedUnder>>

ConnectionGone ==
  /\ connection' = "CLOSED" /\ sent' = <<>> /\ inbox' = <<>> /\ broker' = "NEW"
  /\ first' = "NONE"

(* state_stop_communication_module of the application *)
StopCommunication ==
  /\ ~mqttBusy /\ mqttCall # "STOP" /\ Follows(mqttCall) = {}
  /\ mqttCall' = "STOP"
  /\ left' = [left EXCEPT !.exchanges = @ - 1]
  /\ closedUnder' = FALSE /\ overtaken' = FALSE
  /\ ConnectionGone
  /\ UNCHANGED <<mqttEvents, mqttState, mqttFailed, comm, counted, heard, mismatched,
                 mqttBusy, commOk, message, arrived>>

(* URL, PORT, SSID and the others, sent by the server, close the socket or *)
(* leave the network while the session goes on.                            *)
CloseUnder ==
  /\ ~mqttBusy /\ mqttCall = "RECEIVE_PUBLISH" /\ heard # "NOTHING" /\ ~mqttFailed
  /\ connection # "CLOSED"
  /\ ConnectionGone
  /\ closedUnder' = TRUE
  /\ UNCHANGED <<machineVars, callVars, commOk, message, arrived, left>>

-------------------------------------------------------------------------------
(***************************************************************************)
(* The communication module, and PROCESS in mqtt_communication_protocol_   *)
(* handler.                                                                *)
(***************************************************************************)
Polled(event) ==
  /\ MqttPop(MqttStates, {"PROCESS"})
  /\ mqttEvents' = MqttAdd(Rest, event)
  /\ UNCHANGED <<mqttState, mqttFailed, comm, counted, heard, history>>

StillRunning == Polled("PROCESS") /\ UNCHANGED netVars

(* A packet is accepted on an open connection, on a new one, or on one     *)
(* that is lost without the chip knowing.                                  *)
SendEnds ==
  /\ comm # "RECEIVE" /\ Polled("DONE")
  /\ \/ /\ commOk' = TRUE
        /\ connection' = IF connection = "CLOSED" THEN "OPEN" ELSE connection
        /\ sent' = IF connection = "LOST" THEN <<>> ELSE Append(sent, comm)
        /\ first' = IF first = "NONE" THEN comm ELSE first
        /\ arrived' = (arrived /\ comm # "PUBLISH")
        /\ UNCHANGED <<message, inbox, broker>>
     \/ commOk' = FALSE /\ ConnectionGone /\ UNCHANGED <<message, arrived>>

(* One receive takes what has come so far: only its first message is       *)
(* looked at, what follows goes with the buffer.  Of a long message it may *)
(* take the beginning; the rest then comes as something else.              *)
ReceiveEnds ==
  /\ comm = "RECEIVE" /\ Polled("DONE")
  /\ \/ /\ inbox # <<>>
        /\ \E taken \in DOMAIN inbox :
             /\ message' = Head(inbox)
             /\ inbox' = SubSeq(inbox, taken + 1, Len(inbox))
        /\ commOk' = TRUE
        /\ UNCHANGED <<connection, sent, broker, first, arrived>>
     \/ /\ inbox # <<>> /\ Head(inbox) \in Published
        /\ message' = "NOTHING" /\ inbox' = <<"REST">> \o Tail(inbox)
        /\ commOk' = TRUE
        /\ UNCHANGED <<connection, sent, broker, first, arrived>>
     \/ /\ message' = "NOTHING" /\ commOk' = TRUE
        /\ connection' = IF connection = "CLOSED" THEN "OPEN" ELSE connection
        /\ UNCHANGED <<sent, inbox, broker, first, arrived>>
     \/ /\ commOk' = FALSE /\ ConnectionGone /\ UNCHANGED <<message, arrived>>

-------------------------------------------------------------------------------
(***************************************************************************)
(* process_event: what the states do.                                      *)
(***************************************************************************)

(* state_mqtt_disconnected: a request connects first, or is refused *)
StartConnecting ==
  /\ MqttPop({"DISCONNECTED"}, Requests) /\ TRUE \in MqttParameters
  /\ Enter("SEND_CONNECT", MqttAdd(Rest, Head(mqttEvents)))
  /\ UNCHANGED <<mqttFailed, counted, heard, history, netVars>>

MqttParametersMissing ==
  /\ MqttPop({"DISCONNECTED"}, Requests) /\ FALSE \in MqttParameters
  /\ mqttFailed' = TRUE
  /\ mqttEvents' = Rest
  /\ UNCHANGED <<mqttState, comm, counted, heard, history, netVars>>

(* state_mqtt_connecting retains the request, except that RECEIVE_... is   *)
(* the event of a state that is being entered                              *)
RetainRequest ==
  /\ MqttPop(Connecting, Requests)
  /\ mqttEvents' = MqttAdd(Rest, Head(mqttEvents))
  /\ UNCHANGED <<mqttState, mqttFailed, comm, counted, heard, history, netVars>>

(* state_mqtt_connected *)
StartRequest ==
  /\ MqttPop(InSession, Requests \ ({mqttState} \cap Receiving))
  /\ Enter(Head(mqttEvents), Rest)
  /\ UNCHANGED <<mqttFailed, counted, heard, history, netVars>>

StartDisconnecting ==
  /\ MqttPop(InSession, {"DISCONNECT"})
  /\ Enter("DISCONNECTING", Rest)
  /\ UNCHANGED <<mqttFailed, counted, heard, history, netVars>>

(* the sending states, DONE *)
AfterSend ==
  [SEND_CONNECT |-> "RECEIVE_CONNACK", SEND_SUBSCRIBE |-> "RECEIVE_SUBACK",
   PUBLISH |-> "CONNECTED", SEND_PUBREL |-> "RECEIVE_PUBLISH",
   SEND_PINGREQ |-> "RECEIVE_PINGRESP", DISCONNECTING |-> "DISCONNECTED"]

MutantSent ==
  /\ MqttPop(Sending, {"DONE"})
  /\ IF commOk THEN Enter(AfterSend[mqttState], Rest) /\ UNCHANGED mqttFailed
               ELSE Fail("DISCONNECTED")
  /\ counted' = IF mqttState = "PUBLISH" THEN TRUE ELSE counted
  /\ UNCHANGED <<heard, history, netVars>>
Sent ==
  /\ MqttPop(Sending, {"DONE"})
  /\ IF commOk THEN Enter(AfterSend[mqttState], Rest) /\ UNCHANGED mqttFailed
               ELSE Fail("DISCONNECTED")
  /\ counted' = IF mqttState = "PUBLISH" THEN commOk ELSE counted
  /\ UNCHANGED <<heard, history, netVars>>

(* the receiving states, on their own event *)
StartReceiving ==
  /\ MqttPop(Receiving, {mqttState})
  /\ comm' = "RECEIVE"
  /\ mqttEvents' = MqttAdd(Rest, "PROCESS")
  /\ UNCHANGED <<mqttState, mqttFailed, counted, heard, history, netVars>>

(* the receiving states that wait for one answer: what they expect, where  *)
(* they go with it and without it, and the event with which they try again *)
Connack == [state |-> "RECEIVE_CONNACK", expects |-> "CONNACK", wrong |-> "NONE",
            next |-> "SEND_SUBSCRIBE", silent |-> "DISCONNECTED",
            retry |-> "RECEIVE_CONNACK"]
Suback  == [state |-> "RECEIVE_SUBACK", expects |-> "SUBACK", wrong |-> "WRONG_SUBACK",
            next |-> "CONNECTED", silent |-> "DISCONNECTING", retry |-> "RECEIVE_SUBACK"]
Puback  == [state |-> "RECEIVE_PUBACK", expects |-> "PUBACK", wrong |-> "WRONG_PUBACK",
            next |-> "CONNECTED", silent |-> "DISCONNECTING", retry |-> "RECEIVE_PUBACK"]
Pubrec  == [state |-> "RECEIVE_PUBREC", expects |-> "PUBREC", wrong |-> "WRONG_PUBREC",
            next |-> "SEND_PUBREL", silent |-> "DISCONNECTING", retry |-> "RECEIVE_PUBACK"]
Pubcomp == [state |-> "RECEIVE_PUBCOMP", expects |-> "PUBCOMP", wrong |-> "WRONG_PUBCOMP",
            next |-> "CONNECTED", silent |-> "DISCONNECTING", retry |-> "RECEIVE_PUBCOMP"]

AnswerOf(answer) ==
  \/ /\ commOk /\ message = answer.expects
     /\ Enter(answer.next, Rest)
     /\ UNCHANGED <<mqttFailed, mismatched>>
  \/ /\ commOk /\ message = answer.wrong
     /\ mqttFailed' = TRUE /\ mismatched' = TRUE
     /\ mqttEvents' = MqttAdd(Rest, "STRAY")
     /\ UNCHANGED <<mqttState, comm>>
  \/ /\ commOk /\ message \notin {answer.expects, answer.wrong, "NOTHING"}
     /\ mqttEvents' = MqttAdd(Rest, answer.retry)
     /\ UNCHANGED <<mqttState, mqttFailed, comm, mismatched>>
  \/ commOk /\ message = "NOTHING" /\ Fail(answer.silent) /\ UNCHANGED mismatched
  \/ ~commOk /\ Fail("DISCONNECTED") /\ UNCHANGED mismatched

AnswerReceived ==
  \E answer \in {Connack, Suback, Puback, Pubrec, Pubcomp} :
    /\ MqttPop({answer.state}, {"DONE"})
    /\ AnswerOf(answer)
    /\ UNCHANGED <<counted, heard, overtaken, netVars>>

(* state_mqtt_receive_publish, DONE *)
PublishReceived ==
  /\ MqttPop({"RECEIVE_PUBLISH"}, {"DONE"})
  /\ \/ /\ commOk /\ message \in Published
        /\ heard' = message
        /\ Enter("CONNECTED", Rest) /\ UNCHANGED mqttFailed
     \/ /\ commOk /\ message = "PUBREC"
        /\ Enter("SEND_PUBREL", Rest) /\ UNCHANGED <<mqttFailed, heard>>
     \/ /\ commOk /\ message \notin Published \cup {"PUBREC", "NOTHING"}
        /\ Enter("RECEIVE_PUBLISH", Rest) /\ UNCHANGED <<mqttFailed, heard>>
     \/ /\ commOk /\ message = "NOTHING"
        /\ Enter("SEND_PINGREQ", Rest) /\ UNCHANGED <<mqttFailed, heard>>
     \/ ~commOk /\ Fail("DISCONNECTED") /\ UNCHANGED heard
  /\ overtaken' = (overtaken \/ heard' = "COMMAND")
  /\ UNCHANGED <<counted, mismatched, netVars>>

(* state_mqtt_receive_pingresp, DONE: nothing else is tried again *)
MutantPingAnswered ==
  /\ MqttPop({"RECEIVE_PINGRESP"}, {"DONE"})
  /\ Enter("CONNECTED", Rest) /\ UNCHANGED mqttFailed
  /\ UNCHANGED <<counted, heard, history, netVars>>
PingAnswered ==
  /\ MqttPop({"RECEIVE_PINGRESP"}, {"DONE"})
  /\ IF commOk /\ message = "PINGRESP"
       THEN Enter("CONNECTED", Rest) /\ UNCHANGED mqttFailed
       ELSE Fail("DISCONNECTED")
  /\ UNCHANGED <<counted, heard, history, netVars>>

(* events no state acts upon: the state that is added for an event when an *)
(* id does not match, DISCONNECT unless the session is up, requests in     *)
(* DISCONNECTING                                                           *)
MqttIgnores ==
  /\ \/ MqttPop(MqttStates, {"STRAY"})
     \/ MqttPop({"DISCONNECTED"} \cup Connecting, {"DISCONNECT"})
     \/ MqttPop({"DISCONNECTING"}, Requests \cup {"DISCONNECT"})
  /\ mqttEvents' = Rest
  /\ UNCHANGED <<mqttState, mqttFailed, comm, counted, heard, history, netVars>>

MqttProcess ==
  \/ StillRunning \/ SendEnds \/ ReceiveEnds \/ StartConnecting
  \/ MqttParametersMissing \/ RetainRequest \/ StartRequest \/ StartDisconnecting
  \/ Sent \/ StartReceiving \/ AnswerReceived \/ PublishReceived \/ PingAnswered
  \/ MqttIgnores

-------------------------------------------------------------------------------
(***************************************************************************)
(* The broker and the network.                                             *)
(***************************************************************************)

(* The packet it takes next.  A packet that is no MQTT packet, or is out   *)
(* of order, makes it close the connection.                                *)
BrokerTakes ==
  LET packet == Head(sent)
      answers(new, reply) == broker' = new /\ inbox' = inbox \o reply
                             /\ sent' = Tail(sent) /\ UNCHANGED connection
  IN  /\ connection = "OPEN" /\ sent # <<>>
      /\ CASE packet = "CONNECT" /\ broker = "NEW" ->
                answers("CONNECTED", <<"CONNACK">>)
           [] packet = "SUBSCRIBE" /\ broker = "CONNECTED" ->
                \E suback \in Subacks : answers("SUBSCRIBED", <<suback>>)
           [] packet = "PUBLISH" /\ broker = "SUBSCRIBED" ->
                \E reply \in {<<>>, <<"ANSWER">>} : answers(broker, reply)
           [] packet = "PINGREQ" /\ broker = "SUBSCRIBED" ->
                answers(broker, <<"PINGRESP">>)
           [] OTHER -> /\ connection' = "LOST" /\ broker' = "NEW"
                       /\ sent' = <<>> /\ UNCHANGED inbox
      /\ arrived' = (arrived \/ (packet = "PUBLISH" /\ broker = "SUBSCRIBED"))
      /\ UNCHANGED <<machineVars, callVars, commOk, message, left, first, closedUnder>>

(* what it sends on its own *)
BrokerSends ==
  /\ connection = "OPEN" /\ broker = "SUBSCRIBED" /\ left.unasked > 0
  /\ \E unasked \in Unasked : inbox' = Append(inbox, unasked)
  /\ left' = [left EXCEPT !.unasked = @ - 1]
  /\ UNCHANGED <<machineVars, callVars, commOk, message, connection, sent, broker,
                 first, arrived, closedUnder>>

(* The connection is lost: what the device has got already, it may read.   *)
Lose ==
  /\ connection = "OPEN" /\ left.losses > 0
  /\ connection' = "LOST" /\ broker' = "NEW" /\ sent' = <<>>
  /\ inbox' \in {inbox, <<>>}
  /\ left' = [left EXCEPT !.losses = @ - 1]
  /\ UNCHANGED <<machineVars, callVars, commOk, message, first, arrived, closedUnder>>

MqttNext ==
  \/ \E call \in Requests \cup {"DISCONNECT"} : MqttCall(call)
  \/ MqttReturns \/ StopCommunication \/ CloseUnder \/ MqttProcess
  \/ BrokerTakes \/ BrokerSends \/ Lose

(* The main loop polls the machine, and every operation of the             *)
(* communication module comes to an end (Wifi!OperationEnds).              *)
MqttSpec ==
  /\ MqttInit /\ [][MqttNext]_mqttVars
  /\ WF_mqttVars(MqttProcess \/ MqttReturns) /\ SF_mqttVars(SendEnds \/ ReceiveEnds)

-------------------------------------------------------------------------------
(***************************************************************************)
(* Properties.                                                             *)
(***************************************************************************)

(* Types; and a queued PROCESS always finds an operation to run: its       *)
(* handle is never called before one was started.                          *)
MqttTypeOK ==
  /\ mqttEvents \in Seq(MqttTypes) /\ Len(mqttEvents) <= 3
  /\ mqttState \in MqttStates
  /\ comm \in {"NONE", "RECEIVE"} \cup {Packet[state] : state \in Sending}
  /\ message \in Messages \cup {"NOTHING"} /\ heard \in Published \cup {"NOTHING"}
  /\ mqttCall \in Requests \cup {"DISCONNECT", "STOP"}
  /\ connection \in {"CLOSED", "OPEN", "LOST"}
  /\ broker \in {"NEW", "CONNECTED", "SUBSCRIBED"}
  /\ sent \in Seq({Packet[state] : state \in Sending}) /\ inbox \in Seq(Messages)
  /\ {mqttFailed, commOk, counted, mqttBusy, arrived, mismatched, overtaken, closedUnder}
       \subseteq BOOLEAN
  /\ PlacesOf(mqttEvents, {"PROCESS"}) # {} =>
       comm = IF mqttState \in Sending THEN Packet[mqttState] ELSE "RECEIVE"

OperationOver == ~mqttBusy /\ mqttCall # "STOP"

(* A new connection begins with CONNECT: whatever fails, and whenever, the *)
(* machine knows that its session is gone, unless a command of the server  *)
(* has closed the socket behind its back.                                  *)
ConnectFirst == first \in {"NONE", "CONNECT"} \/ closedUnder

(* After an error the machine is disconnected, so that the next exchange   *)
(* starts from the beginning; the one exception is an id that mismatched.  *)
ErrorsDisconnect ==
  OperationOver /\ mqttFailed => mqttState = "DISCONNECTED" \/ mismatched

(* The readings are counted as sent exactly when the send has succeeded:   *)
(* the count is what the application removes from its buffer.              *)
CountsSent == OperationOver /\ mqttCall = "PUBLISH" => (counted <=> ~mqttFailed)

(* A receive that succeeds means that the broker has taken the readings:   *)
(* it has answered them, or the ping sent after them.  A command it sends  *)
(* on its own breaks the rule, from then to the end of the exchange.       *)
SuccessMeansArrived ==
  OperationOver /\ mqttCall = "RECEIVE_PUBLISH" /\ ~mqttFailed =>
    arrived \/ overtaken

(* Every operation ends, however late, cut or missing the answers of the   *)
(* broker are, unless the id of one of them mismatched.                    *)
EndsUnlessMismatched == mqttBusy ~> ~mqttBusy \/ mismatched

(* The same without the exception: the machine says that an error aborts   *)
(* the sequence, which is then started again (README.md:57).               *)
EveryOperationEnds == mqttBusy ~> ~mqttBusy
===============================================================================
