---------------------------------- MODULE Wifi ---------------------------------
(***************************************************************************)
(* The WiFi machine, core/wifi_communication_module.c, on top of the TCP   *)
(* and the UDP machine, which it runs by calling their process handles.    *)
(*                                                                         *)
(*   STOPPED  DISCONNECTED  CONNECTING_TO_AP  ACQUIRING_IP                 *)
(*   CONNECTED (SEND, SEND_TO, RECEIVE, RECEIVE_FROM, CLOSING)             *)
(*   DISCONNECTING  RESET                                                  *)
(*                                                                         *)
(* STARTING and STOPPING leave themselves in their entry handlers.  A      *)
(* caller starts an operation with one of the API functions and calls      *)
(* process_event until it returns false.  The chip's notices, from         *)
(* sl_Task in the main loop or from inside a call of its driver, are       *)
(* taken between two events; one second interrupt drives all timers.       *)
(*                                                                         *)
(* An operator named Mutant... is the one below it with a bug; it shows    *)
(* that a property notices (README) and the specification never uses it.   *)
(***************************************************************************)
EXTENDS Udp

CONSTANTS
  WifiQueueSize,      \* WIFI_COMMUNICATION_MODULE_EVENTS_BUFFER_SIZE
  ConnectingTimeout,  \* WIFI_CONNECTING_TIMEOUT
  DisconnectTimeout,  \* WIFI_DISCONECT_TIMEOUT
  SsidSet,            \* the values "wifi_ssid is set" may have
  Operations,         \* the API functions that are called
  MaxFaults,          \* bound: errors and closed sockets the chip reports
  CountAnew           \* bound: the functions at whose call that count restarts

VARIABLES
  wifiEvents,   \* wifi_communication_module_event_buffer
  wifiState,    \* the innermost state
  wifiTimer,    \* wifi_sequence_timeout_timer
  wifiError,    \* wifi_communication_module_data.error, the failures as one
  wifiHandle,   \* communication_module_process_handle: TCP's or UDP's
  link,         \* the chip: how far its connection to the access point is
  faults,       \* errors and closed sockets reported, as far as they count
  wifiBusy,     \* the caller: the operation is not over yet
  wifiCall      \* history: the operation called last

wifiOnly == <<wifiEvents, wifiState, wifiTimer, wifiError, wifiHandle, link,
              faults, wifiBusy, wifiCall>>
wifiVars == <<wifiOnly, tcpVars, udpVars>>

TcpCallOf(event) == IF event \in {"SEND", "SEND_TO"} THEN "SEND" ELSE "RECEIVE"

Exchanges  == {"SEND", "SEND_TO", "RECEIVE", "RECEIVE_FROM"}
Starts     == Exchanges \cup {"CONNECT"}
Calls      == Starts \cup {"DISCONNECT", "CLOSE_SOCKET", "STOP"}
Connecting == {"CONNECTING_TO_AP", "ACQUIRING_IP"}
Notices    == {"CONNECTED", "IP_ACQUIRED", "DISCONNECTED"}
WifiStates == Connecting \cup Exchanges \cup
  {"STOPPED", "DISCONNECTED", "CONNECTED", "CLOSING", "DISCONNECTING", "RESET"}
WifiTypes  == Calls \cup Notices \cup
  {"ERROR", "CONNECTING", "ACQUIRING_IP", "DISCONNECTING", "TIMEOUT", "PROCESS",
   "DONE", "DISCONNECT_SOCKET_CLOSED", "STOP_SOCKET_CLOSED"}

WifiErrors == {"NONE", "FAILED", "PARAMETERS_MISSING"}

ASSUME WifiAssumption ==
  /\ WifiQueueSize \in Nat \ {0} /\ MaxFaults \in Nat
  /\ ConnectingTimeout \in Nat \ {0} /\ DisconnectTimeout \in Nat \ {0}
  /\ SsidSet \subseteq BOOLEAN /\ UdpParametersSet \subseteq BOOLEAN
  /\ Operations \subseteq Calls

WifiAdd(queue, event) == Put(queue, event, WifiQueueSize)

WifiInit ==
  /\ TcpInit /\ UdpInit
  /\ wifiEvents = <<>> /\ wifiState = "STOPPED" /\ wifiTimer = 0
  /\ wifiError = "NONE" /\ wifiHandle = "NONE"
  /\ link = "DOWN" /\ faults = 0
  /\ wifiBusy = FALSE /\ wifiCall = "STOP"

-------------------------------------------------------------------------------
(***************************************************************************)
(* Helpers.                                                                *)
(***************************************************************************)
WifiPop(states, types) ==
  /\ wifiBusy /\ wifiEvents # <<>>
  /\ wifiState \in states /\ Head(wifiEvents) \in types
  /\ UNCHANGED <<faults, wifiBusy, wifiCall>>

Popped == Tail(wifiEvents)

(* set_wifi_communication_module_error: the first one is kept *)
SetWifiError(error) == wifiError' = IF wifiError = "NONE" THEN error ELSE wifiError

(* The LEAVING_STATE handlers of CONNECTING and DISCONNECTING stop the     *)
(* timer.                                                                  *)
MutantWifiTransition(state) == wifiState' = state /\ UNCHANGED wifiTimer

WifiTransition(state) ==
  /\ wifiState' = state
  /\ wifiTimer' = IF wifiState \in Connecting \cup {"DISCONNECTING"}
                    THEN 0 ELSE wifiTimer

(* circular_buffer_clear, as in module Tcp; here type 0 is                 *)
(* EVENT_WIFI_DISCONNECT and an event is always added next.                *)
ClearedWifiEvents ==
  {<<>>} \cup IF wifiTimer = 1 THEN {<<"TIMEOUT">>, <<"DISCONNECT">>} ELSE {}

(* remove_send_and_receive_events pops every event and adds it again, but  *)
(* for those that start something: what is kept of the first n             *)
Kept(queue) ==
  LET kept[n \in 0..Len(queue)] ==
        IF n = 0 THEN <<>>
        ELSE IF queue[n] \in Starts THEN kept[n - 1] ELSE Append(kept[n - 1], queue[n])
  IN  kept
RemoveSendAndReceive(queue) == Kept(queue)[Len(queue)]

CloseSockets == CallTcp("CLOSE_SOCKET") /\ CallUdp("CLOSE_SOCKET")

(* state_reset and state_closing_socket, EVENT_ENTERING_STATE *)
EnterReset(queue) ==
  /\ WifiTransition("RESET")
  /\ CloseSockets
  /\ wifiEvents' = WifiAdd(queue, "PROCESS")

EnterClosingSocket(queue) ==
  /\ WifiTransition("CLOSING")
  /\ CloseSockets
  /\ wifiEvents' = WifiAdd(queue, "PROCESS")

(* state_disconnecting, EVENT_ENTERING_STATE: wifi_disconnect never fails  *)
EnterDisconnecting(queue) ==
  /\ wifiState' = "DISCONNECTING" /\ wifiTimer' = DisconnectTimeout
  /\ wifiEvents' = WifiAdd(queue, "DISCONNECTING")

FailAndReset == SetWifiError("FAILED") /\ \E queue \in ClearedWifiEvents : EnterReset(queue)

MutantFailAndRestart ==
  /\ SetWifiError("FAILED")
  /\ wifiEvents' = RemoveSendAndReceive(Popped)
  /\ WifiTransition("DISCONNECTED")
  /\ UNCHANGED <<tcpVars, udpVars>>
FailAndRestart == SetWifiError("FAILED") /\ EnterReset(RemoveSendAndReceive(Popped))

-------------------------------------------------------------------------------
(***************************************************************************)
(* The caller.                                                             *)
(***************************************************************************)

(* wifi_communication_module_send, _receive, _stop and the others *)
WifiCall(operation) ==
  /\ ~wifiBusy
  /\ wifiEvents' = WifiAdd(wifiEvents, operation)
  /\ wifiError' = "NONE" /\ wifiBusy' = TRUE /\ wifiCall' = operation
  /\ faults' = IF operation \in CountAnew THEN 0 ELSE faults
  /\ UNCHANGED <<wifiState, wifiTimer, wifiHandle, link, tcpVars, udpVars>>

(* process_event returns false *)
WifiReturns ==
  /\ wifiBusy /\ wifiEvents = <<>>
  /\ wifiBusy' = FALSE
  /\ UNCHANGED <<wifiEvents, wifiState, wifiTimer, wifiError, wifiHandle, link, faults,
                 wifiCall, tcpVars, udpVars>>

-------------------------------------------------------------------------------
(***************************************************************************)
(* process_event: one action per group of states and events.               *)
(***************************************************************************)

(* state_stopped, and the entry handlers of STARTING and STARTED *)
StartWifi ==
  /\ WifiPop({"STOPPED"}, Starts)
  /\ \/ /\ WifiTransition("DISCONNECTED")
        /\ wifiEvents' = WifiAdd(Popped, Head(wifiEvents))
        /\ UNCHANGED wifiError
     \/ /\ SetWifiError("FAILED")
        /\ wifiEvents' \in ClearedWifiEvents
        /\ WifiTransition("STOPPED")
  /\ UNCHANGED <<wifiHandle, link, tcpVars, udpVars>>

(* state_disconnected, STOP, and the entry handler of STOPPING: sl_Stop    *)
(* powers the chip off even when it reports a failure                      *)
StopWifi ==
  /\ WifiPop({"DISCONNECTED"}, {"STOP"})
  /\ WifiTransition("STOPPED")
  /\ UNCHANGED wifiError \/ SetWifiError("FAILED")
  /\ wifiEvents' = Popped
  /\ ChipStopped /\ UdpStopped /\ link' = "DOWN"
  /\ UNCHANGED wifiHandle

(* state_disconnected, an exchange without a network to connect to *)
SsidMissing ==
  /\ WifiPop({"DISCONNECTED"}, Exchanges) /\ FALSE \in SsidSet
  /\ SetWifiError("PARAMETERS_MISSING")
  /\ wifiEvents' = Popped
  /\ UNCHANGED <<wifiState, wifiTimer, wifiHandle, link, tcpVars, udpVars>>

(* state_disconnected, and the entry handlers of CONNECTING and            *)
(* CONNECTING_TO_AP: wifi_connect may fail                                 *)
MutantConnect ==
  /\ WifiPop({"DISCONNECTED"}, Starts)
  /\ Head(wifiEvents) \in Exchanges => TRUE \in SsidSet
  /\ wifiEvents' = WifiAdd(WifiAdd(Popped, Head(wifiEvents)), "CONNECTING")
  /\ wifiState' = "CONNECTING_TO_AP"
  /\ link' = "JOINING"
  /\ UNCHANGED <<wifiTimer, wifiError, wifiHandle, tcpVars, udpVars>>

Connect ==
  LET retained == IF Head(wifiEvents) = "CONNECT" THEN Popped
                  ELSE WifiAdd(Popped, Head(wifiEvents))
  IN  /\ WifiPop({"DISCONNECTED"}, Starts)
      /\ Head(wifiEvents) \in Exchanges => TRUE \in SsidSet
      /\ \/ /\ wifiState' = "CONNECTING_TO_AP" /\ wifiTimer' = ConnectingTimeout
            /\ wifiEvents' = WifiAdd(retained, "CONNECTING")
            /\ link' = "JOINING"
            /\ UNCHANGED <<wifiError, tcpVars, udpVars>>
         \/ FailAndReset /\ UNCHANGED link
      /\ UNCHANGED wifiHandle

(* events that a state adds again, to act upon them later or to keep the   *)
(* machine running                                                         *)
Retained(state) ==
  CASE state = "CONNECTING_TO_AP" -> Exchanges \cup {"CONNECTING", "IP_ACQUIRED"}
    [] state = "ACQUIRING_IP"     -> Exchanges \cup {"ACQUIRING_IP"}
    [] state = "CLOSING"          -> {"DISCONNECT_SOCKET_CLOSED", "STOP_SOCKET_CLOSED"}
    [] state = "DISCONNECTING"    -> {"STOP", "DISCONNECTING"}
    [] OTHER                      -> {}

RetainWifi ==
  /\ WifiPop(WifiStates, Retained(wifiState))
  /\ wifiEvents' = WifiAdd(Popped, Head(wifiEvents))
  /\ UNCHANGED <<wifiState, wifiTimer, wifiError, wifiHandle, link, tcpVars, udpVars>>

(* state_connecting_to_ap, CONNECTED: the timer runs on *)
ApConnected ==
  /\ WifiPop({"CONNECTING_TO_AP"}, {"CONNECTED"})
  /\ wifiState' = "ACQUIRING_IP"
  /\ wifiEvents' = WifiAdd(Popped, "ACQUIRING_IP")
  /\ UNCHANGED <<wifiTimer, wifiError, wifiHandle, link, tcpVars, udpVars>>

(* state_acquiring_ip_address, IP_ADDRESS_ACQUIRED: verify_static_ip *)
IpAcquired ==
  /\ WifiPop({"ACQUIRING_IP"}, {"IP_ACQUIRED"})
  /\ \/ /\ WifiTransition("CONNECTED")
        /\ wifiEvents' = Popped
        /\ UNCHANGED <<wifiError, tcpVars, udpVars>>
     \/ FailAndReset
  /\ UNCHANGED <<wifiHandle, link>>

(* CONNECTING and the exchanges: the link is lost, or the time is up *)
LinkLost ==
  /\ \/ WifiPop(Connecting, {"DISCONNECTED", "TIMEOUT", "ERROR"})
     \/ WifiPop(Exchanges, {"DISCONNECTED", "ERROR"})
  /\ FailAndReset
  /\ UNCHANGED <<wifiHandle, link>>

(* the other states keep what is not an exchange, STOP above all *)
LinkLostElsewhere ==
  /\ \/ WifiPop({"DISCONNECTED"}, {"ERROR"})
     \/ WifiPop({"CONNECTED", "CLOSING"}, {"DISCONNECTED", "ERROR"})
     \/ WifiPop({"DISCONNECTING"}, {"TIMEOUT", "ERROR"})
  /\ FailAndRestart
  /\ UNCHANGED <<wifiHandle, link>>

(* state_connected, an exchange, and the entry handler of its state *)
StartExchange ==
  /\ WifiPop({"CONNECTED"} \cup Exchanges, Exchanges)
  /\ WifiTransition(Head(wifiEvents))
  /\ wifiEvents' = WifiAdd(Popped, "PROCESS")
  /\ IF Head(wifiEvents) \in {"SEND", "RECEIVE"}
       THEN /\ CallTcp(TcpCallOf(Head(wifiEvents))) /\ wifiHandle' = "TCP"
            /\ UNCHANGED udpVars
       ELSE /\ CallUdp(TcpCallOf(Head(wifiEvents))) /\ wifiHandle' = "UDP"
            /\ UNCHANGED tcpVars
  /\ UNCHANGED <<wifiError, link>>

(* the exchanges, DONE: get_tcp_communication_module_result, or UDP's *)
MutantExchangeDone ==
  /\ WifiPop(Exchanges, {"DONE"})
  /\ WifiTransition("CONNECTED") /\ wifiEvents' = Popped
  /\ UNCHANGED <<wifiError, wifiHandle, link, tcpVars, udpVars>>

ExchangeDone ==
  LET error == IF wifiState \in {"SEND", "RECEIVE"} THEN tcpError ELSE udpError
  IN  /\ WifiPop(Exchanges, {"DONE"})
      /\ \/ /\ error = "NONE"
            /\ WifiTransition("CONNECTED")
            /\ wifiEvents' = Popped
            /\ UNCHANGED <<wifiError, tcpVars, udpVars>>
         \/ error # "NONE" /\ FailAndReset
      /\ UNCHANGED <<wifiHandle, link>>

(* state_connected, CLOSE_SOCKET and STOP *)
CloseSocketCalled ==
  /\ WifiPop({"CONNECTED"} \cup Exchanges, {"CLOSE_SOCKET"})
  /\ EnterClosingSocket(Popped)
  /\ UNCHANGED <<wifiError, wifiHandle, link>>

StopConnected ==
  /\ WifiPop({"CONNECTED"} \cup Exchanges, {"STOP"})
  /\ EnterClosingSocket(WifiAdd(Popped, "STOP_SOCKET_CLOSED"))
  /\ UNCHANGED <<wifiError, wifiHandle, link>>

(* state_connected, DISCONNECT and the two SOCKET_CLOSED events; the       *)
(* socket is not closed before a DISCONNECT                                *)
Disconnect ==
  /\ \/ /\ WifiPop({"CONNECTED"} \cup Exchanges, {"DISCONNECT"})
        /\ EnterDisconnecting(WifiAdd(Popped, "DISCONNECT_SOCKET_CLOSED"))
     \/ /\ WifiPop({"CONNECTED"} \cup Exchanges, {"DISCONNECT_SOCKET_CLOSED"})
        /\ EnterDisconnecting(Popped)
     \/ /\ WifiPop({"CONNECTED"} \cup Exchanges, {"STOP_SOCKET_CLOSED"})
        /\ EnterDisconnecting(WifiAdd(Popped, "STOP"))
  /\ UNCHANGED <<wifiError, wifiHandle, link, tcpVars, udpVars>>

(* state_disconnecting, DISCONNECTED *)
Disconnected ==
  /\ WifiPop({"DISCONNECTING"}, {"DISCONNECTED"})
  /\ WifiTransition("DISCONNECTED")
  /\ wifiEvents' = Popped
  /\ UNCHANGED <<wifiError, wifiHandle, link, tcpVars, udpVars>>

(* wifi_communication_module_handler, PROCESS: one step of TCP or of UDP *)
RunExchange ==
  /\ WifiPop(WifiStates \ {"RESET", "CLOSING"}, {"PROCESS"})
  /\ \/ wifiHandle = "TCP" /\ TcpProcess /\ UNCHANGED udpVars
                           /\ wifiEvents' = WifiAdd(Popped, "PROCESS")
     \/ wifiHandle = "UDP" /\ UdpProcess /\ UNCHANGED tcpVars
                           /\ wifiEvents' = WifiAdd(Popped, "PROCESS")
     \/ /\ \/ wifiHandle = "TCP" /\ TcpIdle
           \/ wifiHandle = "UDP" /\ UdpIdle
        /\ wifiEvents' = WifiAdd(Popped, "DONE")
        /\ UNCHANGED <<tcpVars, udpVars>>
  /\ UNCHANGED <<wifiState, wifiTimer, wifiError, wifiHandle, link>>

(* state_reset and state_closing_socket, PROCESS: UDP after TCP *)
RunClosing ==
  /\ WifiPop({"RESET", "CLOSING"}, {"PROCESS"})
  /\ \/ TcpProcess /\ UNCHANGED udpVars /\ wifiEvents' = WifiAdd(Popped, "PROCESS")
     \/ TcpIdle /\ UdpProcess /\ UNCHANGED tcpVars
                /\ wifiEvents' = WifiAdd(Popped, "PROCESS")
     \/ TcpIdle /\ UdpIdle /\ UNCHANGED <<tcpVars, udpVars>>
                /\ wifiEvents' = WifiAdd(Popped, "DONE")
  /\ UNCHANGED <<wifiState, wifiTimer, wifiError, wifiHandle, link>>

(* state_reset, DONE: wifi_reset, which stops and starts the chip *)
ResetDone ==
  /\ WifiPop({"RESET"}, {"DONE"})
  /\ ChipStopped /\ UdpStopped /\ link' = "DOWN"
  /\ UNCHANGED wifiError \/ SetWifiError("FAILED")
  /\ WifiTransition("DISCONNECTED")
  /\ wifiEvents' = Popped
  /\ UNCHANGED wifiHandle

(* state_reset preserves STOP *)
PreserveStop ==
  /\ WifiPop({"RESET"}, {"STOP", "STOP_SOCKET_CLOSED"})
  /\ wifiEvents' = WifiAdd(Popped, "STOP")
  /\ UNCHANGED <<wifiState, wifiTimer, wifiError, wifiHandle, link, tcpVars, udpVars>>

(* state_closing_socket, DONE: a socket closed by the peer is closed *)
ClosingDone ==
  /\ WifiPop({"CLOSING"}, {"DONE"})
  /\ IF tcpError = "SOCKET_CLOSED" \/ (tcpError = "NONE" /\ udpError = "NONE")
       THEN /\ WifiTransition("CONNECTED")
            /\ wifiEvents' = Popped
            /\ UNCHANGED <<wifiError, tcpVars, udpVars>>
       ELSE FailAndRestart
  /\ UNCHANGED <<wifiHandle, link>>

(* state_closing_socket swallows what it does not know; elsewhere an event *)
(* nobody acts upon ends in wifi_communication_module_handler              *)
WifiIgnores(state) ==
  LET asConnected == {"DISCONNECTED", "ERROR", "CLOSE_SOCKET", "STOP", "DISCONNECT",
                      "DISCONNECT_SOCKET_CLOSED", "STOP_SOCKET_CLOSED"} \cup Exchanges
      acted ==
        CASE state = "STOPPED"          -> Starts
          [] state = "DISCONNECTED"     -> Starts \cup {"STOP", "ERROR"}
          [] state = "CONNECTING_TO_AP" -> {"CONNECTED", "DISCONNECTED", "TIMEOUT", "ERROR"}
          [] state = "ACQUIRING_IP"     -> {"IP_ACQUIRED", "DISCONNECTED", "TIMEOUT", "ERROR"}
          [] state = "CONNECTED"        -> asConnected
          [] state \in Exchanges        -> asConnected \cup {"DONE"}
          [] state = "CLOSING"          -> {"DONE", "DISCONNECTED", "ERROR"}
          [] state = "DISCONNECTING"    -> {"DISCONNECTED", "TIMEOUT", "ERROR"}
          [] state = "RESET"            -> {"DONE", "STOP", "STOP_SOCKET_CLOSED"}
  IN  WifiTypes \ (acted \cup Retained(state) \cup {"PROCESS"})

WifiUnhandled ==
  /\ WifiPop(WifiStates, WifiIgnores(wifiState))
  /\ wifiEvents' = Popped
  /\ UNCHANGED <<wifiState, wifiTimer, wifiError, wifiHandle, link, tcpVars, udpVars>>

WifiProcess ==
  \/ StartWifi \/ StopWifi \/ SsidMissing \/ Connect \/ RetainWifi \/ ApConnected
  \/ IpAcquired \/ LinkLost \/ LinkLostElsewhere \/ StartExchange \/ ExchangeDone
  \/ CloseSocketCalled \/ StopConnected \/ Disconnect \/ Disconnected
  \/ RunExchange \/ RunClosing \/ ResetDone \/ PreserveStop \/ ClosingDone
  \/ WifiUnhandled

-------------------------------------------------------------------------------
(***************************************************************************)
(* The surroundings.                                                       *)
(***************************************************************************)

(* second_expired_listener *)
WifiSecond ==
  /\ wifiTimer' = IF wifiTimer > 0 THEN wifiTimer - 1 ELSE 0
  /\ wifiEvents' = IF wifiTimer = 1 THEN WifiAdd(wifiEvents, "TIMEOUT") ELSE wifiEvents
  /\ TcpSecond /\ UdpSecond
  /\ UNCHANGED <<wifiState, wifiError, wifiHandle, link, faults, wifiBusy, wifiCall>>

(* the listeners of the chip's events: the access point answers in order,  *)
(* however late; the link may go down once it is asked to come up          *)
Notice(event) ==
  /\ \/ event = "CONNECTED" /\ link = "JOINING" /\ link' = "JOINED"
     \/ event = "IP_ACQUIRED" /\ link = "JOINED" /\ link' = "UP"
     \/ event = "DISCONNECTED" /\ link # "DOWN" /\ link' = "DOWN"
  /\ wifiEvents' = WifiAdd(wifiEvents, event)
  /\ UNCHANGED <<wifiState, wifiTimer, wifiError, wifiHandle, faults, wifiBusy,
                 wifiCall, tcpVars, udpVars>>

ErrorNotice ==
  /\ wifiState # "STOPPED" /\ faults < MaxFaults
  /\ faults' = faults + 1
  /\ wifiEvents' = WifiAdd(wifiEvents, "ERROR")
  /\ UNCHANGED <<wifiState, wifiTimer, wifiError, wifiHandle, link, wifiBusy,
                 wifiCall, tcpVars, udpVars>>

SocketNotice ==
  /\ tcpSockets > 0 /\ faults < MaxFaults
  /\ faults' = faults + 1
  /\ SocketClosed
  /\ UNCHANGED <<wifiEvents, wifiState, wifiTimer, wifiError, wifiHandle, link,
                 wifiBusy, wifiCall, udpVars>>

WifiNext ==
  \/ \E operation \in Operations : WifiCall(operation)
  \/ WifiReturns \/ WifiProcess \/ WifiSecond \/ ErrorNotice \/ SocketNotice
  \/ \E event \in Notices : Notice(event)

(* The main loop polls the handle again and again; the clock ticks on. *)
WifiSpec ==
  /\ WifiInit /\ [][WifiNext]_wifiVars
  /\ WF_wifiVars(WifiProcess \/ WifiReturns) /\ WF_wifiVars(WifiSecond)

-------------------------------------------------------------------------------
(***************************************************************************)
(* Properties.                                                             *)
(***************************************************************************)
WifiTypeOK ==
  /\ TcpTypeOK /\ U!TcpTypeOK
  /\ wifiEvents \in Seq(WifiTypes) /\ Len(wifiEvents) <= WifiQueueSize
  /\ wifiState \in WifiStates
  /\ wifiTimer \in 0..ConnectingTimeout \cup 0..DisconnectTimeout
  /\ wifiError \in WifiErrors /\ wifiHandle \in {"NONE", "TCP", "UDP"}
  /\ link \in {"DOWN", "JOINING", "JOINED", "UP"} /\ faults \in 0..MaxFaults
  /\ wifiBusy \in BOOLEAN /\ wifiCall \in Calls

AtRest == ~wifiBusy /\ wifiEvents = <<>>

(* An operation that ends without an error has done what it was called     *)
(* for: the chip has taken all of the data of a send, and a disconnect,    *)
(* a stop leave no connection behind.                                      *)
Truthful ==
  AtRest /\ wifiError = "NONE" =>
    /\ wifiCall = "SEND" => accepted
    /\ wifiCall = "SEND_TO" => udpAccepted
    /\ wifiCall = "DISCONNECT" => wifiState \in {"DISCONNECTED", "STOPPED"}
    /\ wifiCall = "STOP" => wifiState = "STOPPED"

(* A stop ends with the chip stopped, whatever fails or times out on the   *)
(* way: the event is handed from state to state, through RESET too.        *)
StopStops == AtRest /\ wifiCall = "STOP" => wifiState = "STOPPED"

(* After an operation that failed, the chip has been reset: it holds no    *)
(* socket, not even one that a failed receive or a callback has left open. *)
SocketsReclaimed ==
  AtRest /\ wifiError = "FAILED" => tcpSockets = 0 /\ udpSockets = 0

(* Between two operations no timer runs: none can end a later one early,   *)
(* or keep the device from sleeping.                                       *)
TimersAtRest == AtRest => wifiTimer = 0 /\ tcpTimer = 0 /\ udpTimer = 0

(* Every operation ends: the polls of a connection, a receive or a         *)
(* disconnection go on until the chip answers or the timer expires.        *)
OperationEnds == wifiBusy ~> ~wifiBusy
===============================================================================
