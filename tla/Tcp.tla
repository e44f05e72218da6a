---------------------------------- MODULE Tcp ----------------------------------
(***************************************************************************)
(* The TCP machine, core/tcp_communication_module.c, with the sockets of   *)
(* the CC3100 as src/OS/CC3100/wifi_cc3100.c uses them.                    *)
(*                                                                         *)
(*   CLOSED  OPENING  OPENED (with the child RECEIVE)                      *)
(*                                                                         *)
(* SEND and CLOSING leave themselves in their entry handlers, so they are  *)
(* never the state between two events.  A caller adds an event with one of *)
(* the API functions and then calls process_event until it returns false;  *)
(* it may also give up and call tcp_communication_module_close_socket.     *)
(* The second interrupt adds TIMEOUT, a callback of the chip driver adds   *)
(* SOCKET_CLOSED.                                                          *)
(*                                                                         *)
(* An operator named Mutant... is the one below it with a bug; it shows    *)
(* that a property notices (README) and the specification never uses it.   *)
(***************************************************************************)
EXTENDS EventQueue

CONSTANTS
  TcpQueueSize,      \* EVENTS_BUFFER_SIZE
  OpenSocketRetries, \* OPEN_SOCKET_MAX_RETRIES
  ReceiveTimeout,    \* RECEIVE_TIMEOUT
  ParametersSet,     \* the values connection_parameters_set() may have
  MaxSockets         \* SL_MAX_SOCKETS, what the chip can allocate

ASSUME TcpAssumption ==
  /\ TcpQueueSize \in Nat \ {0} /\ OpenSocketRetries \in Nat \ {0}
  /\ ReceiveTimeout \in Nat \ {0} /\ MaxSockets \in Nat \ {0}
  /\ ParametersSet \subseteq BOOLEAN

VARIABLES
  tcpEvents,    \* events_buffer
  tcpState,     \* the innermost state
  tcpRetries,   \* open_socket_retries
  tcpTimer,     \* timeout_timer
  tcpError,     \* tcp_communication_module_data.error
  held,         \* the socket behind open_socket_id: none, alive, or gone
  tcpSockets,   \* sockets the chip has allocated
  accepted      \* history: the chip has taken the data of the last call

tcpVars == <<tcpEvents, tcpState, tcpRetries, tcpTimer, tcpError, held,
             tcpSockets, accepted>>

TcpStates == {"CLOSED", "OPENING", "OPENED", "RECEIVE"}
TcpCalls  == {"SEND", "RECEIVE", "CLOSE_SOCKET"}
TcpTypes  == TcpCalls \cup {"OPEN_SOCKET", "SOCKET_CLOSED", "TIMEOUT", "GHOST"}
TcpErrors == {"NONE", "OPERATION_FAILED", "SOCKET_CLOSED", "PARAMETERS_MISSING"}
Connected == {"OPENED", "RECEIVE"}

(***************************************************************************)
(* circular_buffer_clear(&events_buffer) runs with the interrupts enabled  *)
(* and, while receiving, the timer running.  A TIMEOUT added after its     *)
(* last assignment stays; one added before the memset is zeroed and        *)
(* becomes an event of type 0, EVENT_SEND; one added before empty = true   *)
(* is zeroed and hidden as well, until the next event is added behind it.  *)
(***************************************************************************)
Ghost == <<"GHOST">>

TcpAdd(queue, event) ==
  IF queue = Ghost THEN <<"SEND", event>> ELSE Put(queue, event, TcpQueueSize)

TcpIdle == tcpEvents \in {<<>>, Ghost}

ClearTcpEvents ==
  \/ tcpEvents' = <<>>
  \/ tcpTimer = 1 /\ tcpEvents' \in {<<"TIMEOUT">>, <<"SEND">>, Ghost}

TcpInit ==
  /\ tcpEvents = <<>> /\ tcpState = "CLOSED" /\ tcpRetries = 0 /\ tcpTimer = 0
  /\ tcpError = "NONE" /\ held = "NONE" /\ tcpSockets = 0
  /\ accepted = FALSE

(* tcp_communication_module_send, _receive and _close_socket *)
CallTcp(operation) ==
  /\ tcpEvents' = TcpAdd(tcpEvents, operation)
  /\ tcpError' = "NONE"
  /\ accepted' = FALSE
  /\ UNCHANGED <<tcpState, tcpRetries, tcpTimer, held, tcpSockets>>

-------------------------------------------------------------------------------
(***************************************************************************)
(* The chip.                                                               *)
(***************************************************************************)

(* wifi_open_socket: besides failing cleanly it may leave the socket it    *)
(* has created behind, when one of its options cannot be set.              *)
OpensSocket ==
  tcpSockets < MaxSockets /\ held' = "LIVE" /\ tcpSockets' = tcpSockets + 1
OpenFails ==
  held' = "NONE" /\ tcpSockets' \in {tcpSockets, tcpSockets + 1} \cap 0..MaxSockets

(* wifi_close_socket returns true, or false *)
ClosesSocket == held = "LIVE" /\ held' = "NONE" /\ tcpSockets' = tcpSockets - 1
CloseFails   == UNCHANGED <<held, tcpSockets>>

(* sl_Stop ends all sockets; open_socket_id is not told. *)
ChipStopped ==
  /\ tcpSockets' = 0
  /\ held' = IF held = "LIVE" THEN "GONE" ELSE held
  /\ UNCHANGED <<tcpEvents, tcpState, tcpRetries, tcpTimer, tcpError, accepted>>

-------------------------------------------------------------------------------
(***************************************************************************)
(* Helpers.                                                                *)
(***************************************************************************)
TcpPop(states, types) ==
  /\ tcpEvents # <<>>
  /\ tcpState \in states /\ Head(tcpEvents) \in types

(* set_tcp_communication_module_error: the first one is kept *)
SetTcpError(error) == tcpError' = IF tcpError = "NONE" THEN error ELSE tcpError

(* The LEAVING_STATE handler of RECEIVE stops the timer. *)
MutantTcpTransition(state) == tcpState' = state /\ UNCHANGED tcpTimer
TcpTransition(state) ==
  /\ tcpState' = state
  /\ tcpTimer' = IF tcpState = "RECEIVE" THEN 0 ELSE tcpTimer

(* the entry handler of CLOSING, which goes on to CLOSED *)
EnterClosing(queue) ==
  /\ TcpTransition("CLOSED")
  /\ \/ ClosesSocket /\ tcpEvents' = queue /\ UNCHANGED tcpError
     \/ CloseFails /\ tcpEvents' = <<>> /\ SetTcpError("OPERATION_FAILED")

-------------------------------------------------------------------------------
(***************************************************************************)
(* process_event: one action per state and event.                          *)
(***************************************************************************)

(* state_socket_closed, SEND and RECEIVE *)
ParametersMissing ==
  /\ TcpPop({"CLOSED"}, {"SEND", "RECEIVE"}) /\ FALSE \in ParametersSet
  /\ SetTcpError("PARAMETERS_MISSING")
  /\ tcpEvents' = Tail(tcpEvents)
  /\ UNCHANGED <<tcpState, tcpRetries, tcpTimer, held, tcpSockets, accepted>>

MutantStartOpening ==
  /\ TcpPop({"CLOSED"}, {"SEND", "RECEIVE"}) /\ TRUE \in ParametersSet
  /\ TcpTransition("OPENING")
  /\ tcpEvents' = TcpAdd(TcpAdd(Tail(tcpEvents), Head(tcpEvents)), "OPEN_SOCKET")
  /\ UNCHANGED <<tcpRetries, tcpError, held, tcpSockets, accepted>>

StartOpening ==
  /\ TcpPop({"CLOSED"}, {"SEND", "RECEIVE"}) /\ TRUE \in ParametersSet
  /\ TcpTransition("OPENING")
  /\ tcpRetries' = 0
  /\ tcpEvents' = TcpAdd(TcpAdd(Tail(tcpEvents), Head(tcpEvents)), "OPEN_SOCKET")
  /\ UNCHANGED <<tcpError, held, tcpSockets, accepted>>

(* state_opening_socket, OPEN_SOCKET *)
OpenSocket ==
  /\ TcpPop({"OPENING"}, {"OPEN_SOCKET"})
  /\ \/ /\ OpensSocket
        /\ TcpTransition("OPENED")
        /\ tcpEvents' = Tail(tcpEvents)
        /\ UNCHANGED <<tcpRetries, tcpError>>
     \/ /\ OpenFails
        /\ tcpRetries' = tcpRetries + 1
        /\ IF tcpRetries' = OpenSocketRetries
             THEN /\ SetTcpError("OPERATION_FAILED")
                  /\ tcpEvents' = <<>>
                  /\ TcpTransition("CLOSED")
             ELSE /\ tcpEvents' = TcpAdd(Tail(tcpEvents), "OPEN_SOCKET")
                  /\ UNCHANGED <<tcpError, tcpState, tcpTimer>>
  /\ UNCHANGED accepted

(* state_opening_socket retains SEND and RECEIVE while it opens *)
Retain ==
  /\ TcpPop({"OPENING"}, {"SEND", "RECEIVE"})
  /\ tcpEvents' = TcpAdd(Tail(tcpEvents), Head(tcpEvents))
  /\ UNCHANGED <<tcpState, tcpRetries, tcpTimer, tcpError, held, tcpSockets, accepted>>

(* state_socket_opened, SEND, and the entry handler of SEND: the chip      *)
(* takes all of the data, or the socket is closed                          *)
Send ==
  /\ TcpPop(Connected, {"SEND"})
  /\ \/ /\ held = "LIVE"
        /\ accepted' = TRUE
        /\ TcpTransition("OPENED")
        /\ tcpEvents' = Tail(tcpEvents)
        /\ UNCHANGED <<tcpError, held, tcpSockets>>
     \/ /\ TcpTransition("CLOSED")
        /\ SetTcpError("OPERATION_FAILED")
        /\ tcpEvents' = <<>>
        /\ ClosesSocket \/ CloseFails
        /\ UNCHANGED accepted
  /\ UNCHANGED tcpRetries

(* state_socket_opened, RECEIVE, and the entry handler of RECEIVE *)
StartReceive ==
  /\ TcpPop({"OPENED"}, {"RECEIVE"})
  /\ tcpState' = "RECEIVE" /\ tcpTimer' = ReceiveTimeout
  /\ tcpEvents' = TcpAdd(Tail(tcpEvents), "RECEIVE")
  /\ UNCHANGED <<tcpRetries, tcpError, held, tcpSockets, accepted>>

(* state_receive, RECEIVE: data, nothing yet, or a failure, after which    *)
(* the socket is not closed                                                *)
Receive ==
  /\ TcpPop({"RECEIVE"}, {"RECEIVE"})
  /\ \/ /\ held = "LIVE"
        /\ TcpTransition("OPENED")
        /\ tcpEvents' = Tail(tcpEvents)
        /\ UNCHANGED tcpError
     \/ /\ held = "LIVE"
        /\ tcpEvents' = TcpAdd(Tail(tcpEvents), "RECEIVE")
        /\ UNCHANGED <<tcpState, tcpTimer, tcpError>>
     \/ /\ SetTcpError("OPERATION_FAILED")
        /\ ClearTcpEvents
        /\ TcpTransition("CLOSED")
  /\ UNCHANGED <<tcpRetries, held, tcpSockets, accepted>>

(* state_receive, TIMEOUT *)
ReceiveTimedOut ==
  /\ TcpPop({"RECEIVE"}, {"TIMEOUT"})
  /\ TcpTransition("OPENED")
  /\ tcpEvents' = <<>>
  /\ UNCHANGED <<tcpRetries, tcpError, held, tcpSockets, accepted>>

(* state_socket_opened and state_receive, SOCKET_CLOSED *)
ClosedByPeer ==
  /\ TcpPop(Connected, {"SOCKET_CLOSED"})
  /\ SetTcpError("SOCKET_CLOSED")
  /\ ClearTcpEvents
  /\ TcpTransition("CLOSED")
  /\ UNCHANGED <<tcpRetries, held, tcpSockets, accepted>>

(* state_socket_opened, CLOSE_SOCKET *)
CloseSocket ==
  /\ TcpPop(Connected, {"CLOSE_SOCKET"})
  /\ EnterClosing(Tail(tcpEvents))
  /\ UNCHANGED <<tcpRetries, accepted>>

(* events nobody acts upon end in tcp_communication_module_handler *)
TcpIgnores(state) ==
  CASE state = "CLOSED"  -> {"CLOSE_SOCKET", "OPEN_SOCKET", "SOCKET_CLOSED", "TIMEOUT"}
    [] state = "OPENING" -> {"CLOSE_SOCKET", "SOCKET_CLOSED", "TIMEOUT"}
    [] state = "OPENED"  -> {"OPEN_SOCKET", "TIMEOUT"}
    [] state = "RECEIVE" -> {"OPEN_SOCKET"}

TcpUnhandled ==
  /\ TcpPop(TcpStates, TcpIgnores(tcpState))
  /\ tcpEvents' = Tail(tcpEvents)
  /\ UNCHANGED <<tcpState, tcpRetries, tcpTimer, tcpError, held, tcpSockets, accepted>>

TcpProcess ==
  \/ ParametersMissing \/ StartOpening \/ OpenSocket \/ Retain \/ Send
  \/ StartReceive \/ Receive \/ ReceiveTimedOut \/ ClosedByPeer \/ CloseSocket
  \/ TcpUnhandled

-------------------------------------------------------------------------------
(* second_expired_listener *)
TcpSecond ==
  /\ tcpTimer' = IF tcpTimer > 0 THEN tcpTimer - 1 ELSE 0
  /\ tcpEvents' = IF tcpTimer = 1 THEN TcpAdd(tcpEvents, "TIMEOUT") ELSE tcpEvents
  /\ UNCHANGED <<tcpState, tcpRetries, tcpError, held, tcpSockets, accepted>>

(* socket_closed_listener *)
SocketClosed ==
  /\ tcpEvents' = TcpAdd(tcpEvents, "SOCKET_CLOSED")
  /\ UNCHANGED <<tcpState, tcpRetries, tcpTimer, tcpError, held, tcpSockets, accepted>>

(* Whatever is around the machine, it does one of these.                   *)
TcpNext ==
  \/ \E operation \in TcpCalls : CallTcp(operation)
  \/ TcpProcess \/ TcpSecond \/ SocketClosed \/ ChipStopped

TcpSpec == TcpInit /\ [][TcpNext]_tcpVars

-------------------------------------------------------------------------------
TcpTypeOK ==
  /\ tcpEvents \in Seq(TcpTypes) /\ tcpState \in TcpStates
  /\ tcpRetries \in 0..OpenSocketRetries /\ tcpTimer \in 0..ReceiveTimeout
  /\ tcpError \in TcpErrors
  /\ held \in {"NONE", "LIVE", "GONE"} /\ tcpSockets \in 0..MaxSockets
  /\ accepted \in BOOLEAN

(* The timer runs only while receiving, so that no later operation is cut  *)
(* short, and whoever sends or receives has opened a socket before.        *)
TcpConsistent ==
  /\ tcpTimer > 0 => tcpState = "RECEIVE"
  /\ tcpState \in Connected => held # "NONE"
  /\ held = "LIVE" => tcpSockets > 0
  /\ tcpState = "OPENING" => tcpRetries < OpenSocketRetries
===============================================================================
