---------------------------------- MODULE Udp ----------------------------------
(***************************************************************************)
(* The UDP machine, core/udp_communication_module.c: state by state the    *)
(* TCP machine of module Tcp, on a queue, timer and socket of its own,     *)
(* without the callback that says a socket was closed.                     *)
(***************************************************************************)
EXTENDS Tcp

CONSTANT UdpParametersSet   \* the values connection_parameters_set() may have

VARIABLES udpEvents, udpState, udpRetries, udpTimer, udpError, udpHeld,
          udpSockets, udpAccepted

udpVars == <<udpEvents, udpState, udpRetries, udpTimer, udpError, udpHeld,
             udpSockets, udpAccepted>>

U == INSTANCE Tcp WITH
  ParametersSet <- UdpParametersSet,
  tcpEvents <- udpEvents, tcpState <- udpState, tcpRetries <- udpRetries,
  tcpTimer <- udpTimer, tcpError <- udpError, held <- udpHeld,
  tcpSockets <- udpSockets, accepted <- udpAccepted

UdpInit == U!TcpInit

(* udp_communication_module_send, _receive and _close_socket *)
CallUdp(operation) == U!CallTcp(operation)

(* state_socket_closed *)
UdpClosed == U!ParametersMissing \/ U!StartOpening

(* state_opening_socket *)
UdpOpening == U!OpenSocket \/ U!Retain

(* state_socket_opened and state_send *)
UdpOpened == U!Send \/ U!StartReceive

(* state_receive *)
UdpReceive == U!Receive \/ U!ReceiveTimedOut

(* state_closing_socket *)
UdpClosing == U!CloseSocket

(* udp_communication_module_handler *)
UdpUnhandled == U!TcpUnhandled

(* process_event *)
UdpProcess ==
  UdpClosed \/ UdpOpening \/ UdpOpened \/ UdpReceive \/ UdpClosing \/ UdpUnhandled

(* second_expired_listener *)
UdpSecond == U!TcpSecond

UdpStopped == U!ChipStopped
UdpIdle    == U!TcpIdle
===============================================================================
