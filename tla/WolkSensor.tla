------------------------------ MODULE WolkSensor ------------------------------
(***************************************************************************)
(* The application state machine of the sensor, application/wolksensor.c:  *)
(* one main loop that pops an event and hands it to a hierarchical state   *)
(* machine, and the interrupt routines that add events behind its back.    *)
(*                                                                         *)
(*   IDLE          BROWNOUT | NORMAL                                       *)
(*   ACQUISITION   left by its own entry handler, so it is never the state *)
(*                 between two events and has no value here                *)
(*   EXCHANGE      SEND | RECEIVE | DISCONNECT | STOP  (DATA_EXCHANGE)     *)
(*                                                                         *)
(* One action is one event handled by the state machine, the nested        *)
(* transitions included.  The only handlers that are not one step are the  *)
(* ones that run commands: execute_commands is a loop, interrupts come     *)
(* between its rounds, and "task" says which caller it returns to.         *)
(*                                                                         *)
(* The protocol below (MQTT over WiFi) is what this file sees of it: a     *)
(* process handle that returns true a number of times, and a result.  The  *)
(* minutes between two heartbeats are counted in module Heartbeat; here    *)
(* the minute interrupt may or may not raise one.                          *)
(*                                                                         *)
(* An operator named Mutant... is the one below it with a bug; it shows    *)
(* that a property notices (README) and the specification never uses it.   *)
(***************************************************************************)
EXTENDS EventQueue

CONSTANTS
  QueueSize,        \* EVENTS_BUFFER_SIZE
  CommandsSize,     \* COMMANDS_BUFFER_SIZE
  ReadingsSize,     \* SENSOR_READINGS_BUFFER_SIZE
  SystemSize,       \* SYSTEM_BUFFER_SIZE
  MaxAlarmRetries,  \* MAX_ALARM_RETRIES
  UsbCommands,      \* the kinds of command the user types
  Fit,              \* items a message has room for at least
  ServerMessages,   \* the sequences of kinds the server may answer with
  StartTypes,       \* the ways the device may start
  Voltages,         \* the voltages the battery may show in an exchange
  MaxWork,          \* bound: rounds a process handle returns true
  MaxStored,        \* bound: readings stored in a behaviour
  Budget            \* bound: how often each interrupt source fires

(* WRITE stands for the commands with an argument that change nothing of   *)
(* this module; the argument of ALARM holds a copy of the alarms and their *)
(* sound flags, made when the command was parsed.                          *)
Kinds    == {"READ", "WRITE", "CLEAR", "ALARM", "NOW", "ACQUISITION", "RELOAD"}
Commands == [from : {"USB", "SERVER"}, kind : Kinds, sounding : BOOLEAN]
Starts   == {"POWER_ON", "WATCHDOG_RESET", "BROWNOUT_RESET"}
Sources  == {"minute", "movement", "command", "usb", "reset"}
Events   == {"HEARTBEAT", "ACQUIRE", "COMMAND_RECEIVED", "USB_CONNECTED",
             "USB_DISCONNECTED", "ALARM", "PROCESS", "DONE", "RESET"}
Tasks    == {"LOOP", "EXECUTE_IDLE", "EXECUTE_BUSY", "EXECUTE_SERVER"}

(* The battery voltage as the code tells it apart: not measured, below     *)
(* COMMUNICATION_MODULE_MINIMUM_REQUIRED_VOLTAGE, sufficient.              *)
NotMeasured == 0
Low         == 1
Sufficient  == 2

ASSUME SizesAssumption ==
  /\ QueueSize \in Nat \ {0} /\ CommandsSize \in Nat \ {0}
  /\ ReadingsSize \in Nat \ {0} /\ SystemSize \in Nat \ {0}
  /\ Fit \in Nat \ {0} /\ MaxAlarmRetries \in Nat /\ MaxWork \in Nat /\ MaxStored \in Nat
ASSUME InputsAssumption ==
  /\ UsbCommands \subseteq Kinds
  /\ ServerMessages \subseteq Seq(Kinds)
  /\ StartTypes \subseteq Starts /\ Voltages \subseteq {Low, Sufficient}
  /\ Budget \in [Sources -> Nat]

VARIABLES
  events,        \* events_buffer
  top,           \* state_machine.current_state
  idle,          \* states[STATE_IDLE].current_state
  phase,         \* states[STATE_DATA_EXCHANGE].current_state
  brownout,      \* brownout
  task,          \* what the main loop is in the middle of
  cmdString,     \* the complete commands in command_string_buffer
  commands,      \* commands_buffer
  work,          \* rounds until the process handle returns false
  served,        \* the operation has published, or brought commands
  success,       \* communication_and_battery_data holds no error
  stored,        \* readings stored so far: the newest is number stored
  removed,       \* readings gone from the buffer: it holds removed+1..stored
  sentReadings,  \* sent_sensor_readings
  system,        \* number of items in system_buffer
  sentSystem,    \* sent_system_items
  sound,         \* some alarm has its sound flag set
  retries,       \* sound_alarm_retries
  usb,           \* power_state
  voltage,       \* battery_voltage
  published,     \* history: number of the newest reading sent to the server
  alarmed,       \* history: number of the reading behind the newest alarm
  lowPower,      \* history: supply found low and not restored over USB since
  left           \* bound: what is left of Budget

machine   == <<top, idle, phase, brownout>>
protocol  == <<work, served, success>>
buffers   == <<stored, removed, sentReadings, system, sentSystem>>
alarms    == <<sound, retries, alarmed>>
supply    == <<usb, voltage, lowPower>>
vars == <<events, machine, task, cmdString, commands, protocol, buffers,
          alarms, supply, published, left>>

Add(queue, event) == Put(queue, event, QueueSize)
Smaller(a, b)     == IF a < b THEN a ELSE b

readingsCount == stored - removed
readingsFull  == readingsCount = ReadingsSize

-------------------------------------------------------------------------------
(***************************************************************************)
(* Start.  The noinit buffers of readings and system items survive every   *)
(* reset but a power on; RELOAD, a software reset, counts as a power on.   *)
(* All other memory is initialised again.  The entry handler of IDLE picks *)
(* its child from the brownout flag, which is false at this point.         *)
(***************************************************************************)
Init ==
  /\ events = <<"ACQUIRE">>
  /\ top = "IDLE" /\ idle = "NORMAL" /\ phase = "SEND" /\ brownout = FALSE
  /\ task = "LOOP" /\ cmdString = <<>> /\ commands = <<>>
  /\ work = 0 /\ served = FALSE /\ success = TRUE
  /\ stored = 0 /\ removed = 0 /\ sentReadings = 0
  /\ system = 1 /\ sentSystem = 0
  /\ sound = FALSE /\ retries = 0 /\ alarmed = 0
  /\ usb = FALSE /\ voltage = NotMeasured
  /\ \E start \in StartTypes : lowPower = (start = "BROWNOUT_RESET")
  /\ published = 0 /\ left = Budget

Restart(start) ==
  /\ events' = <<"ACQUIRE">>
  /\ top' = "IDLE" /\ idle' = "NORMAL" /\ phase' = "SEND" /\ brownout' = FALSE
  /\ task' = "LOOP" /\ cmdString' = <<>> /\ commands' = <<>>
  /\ work' = 0 /\ served' = FALSE /\ success' = TRUE
  /\ removed' = IF start = "POWER_ON" THEN stored ELSE removed
  /\ system' = IF start = "POWER_ON" THEN 1 ELSE Smaller(system + 1, SystemSize)
  /\ sentReadings' = 0 /\ sentSystem' = 0
  /\ sound' = FALSE /\ retries' = 0 /\ alarmed' = 0
  /\ usb' = FALSE /\ voltage' = NotMeasured
  /\ lowPower' = CASE start = "POWER_ON"       -> FALSE
                   [] start = "BROWNOUT_RESET" -> TRUE
                   [] OTHER                    -> lowPower
  /\ UNCHANGED <<stored, published>>

-------------------------------------------------------------------------------
(***************************************************************************)
(* Helpers of several handlers.  "queue" is events_buffer as the handler   *)
(* finds it when it comes to add an event.                                 *)
(***************************************************************************)

(* circular_buffer_add to the readings: a full buffer refuses the new one. *)
Store == stored' = IF readingsFull THEN stored ELSE stored + 1

(* an alarm is retried as long as an exchange has not sounded it            *)
MutantMayRetry == sound /\ retries <= MaxAlarmRetries
MayRetry       == sound /\ retries < MaxAlarmRetries

(* process_alarms, after check_sensor_alarm_updates found new alarms or not *)
ProcessAlarms(new, queue) ==
  \/ /\ new
     /\ sound' = TRUE /\ retries' = 0 /\ alarmed' = stored'
     /\ events' = Add(queue, "ALARM")
  \/ /\ ~new /\ MayRetry
     /\ retries' = retries + 1
     /\ events' = Add(queue, "ALARM")
     /\ UNCHANGED <<sound, alarmed>>
  \/ /\ ~new /\ ~MayRetry
     /\ events' = queue
     /\ UNCHANGED <<sound, retries, alarmed>>

(* transition to a child of DATA_EXCHANGE: its entry handler starts an     *)
(* operation of the protocol, or the stop of the module, and adds PROCESS. *)
MutantEnterPhaseTwice(next, queue) ==
  /\ phase' = next
  /\ work' \in 0..MaxWork
  /\ served' = FALSE
  /\ events' = Add(Add(queue, "PROCESS"), "PROCESS")

MutantEnterPhaseStop(next, queue) ==
  /\ phase' = next
  /\ work' \in 0..MaxWork
  /\ served' = FALSE
  /\ events' = IF next = "STOP" THEN queue ELSE Add(queue, "PROCESS")

EnterPhase(next, queue) ==
  /\ phase' = next
  /\ work' \in 0..MaxWork
  /\ served' = FALSE
  /\ events' = Add(queue, "PROCESS")

(* circular_buffer_add_array to commands_buffer: the oldest make room *)
LastCommands(list) ==
  SubSeq(list, IF Len(list) > CommandsSize THEN Len(list) - CommandsSize + 1 ELSE 1,
         Len(list))

(* extract_commands_from_string_buffer on a string of commands *)
Parsed(string, from) ==
  LastCommands(commands \o
    [i \in DOMAIN string |->
       [from |-> from, kind |-> string[i], sounding |-> string[i] = "ALARM" /\ sound]])

-------------------------------------------------------------------------------
(***************************************************************************)
(* The main loop: process_wolksensor_event pops the oldest event and the   *)
(* state machine offers it to the innermost state first.                   *)
(***************************************************************************)
Pop(types) ==
  /\ task = "LOOP"
  /\ events # <<>>
  /\ Head(events) \in types

(* state_idle, EVENT_ACQUIRE, through state_acquisition and back to IDLE:  *)
(* the sensors are read unless they are switched off (atmo_status) or the  *)
(* buffer is full; reading them may fail.                                  *)
IdleAcquire ==
  /\ top = "IDLE" /\ Pop({"ACQUIRE"})
  /\ \/ \* atmo off, buffer full, or get_sensors_states fails
        /\ events' = Tail(events)
        /\ UNCHANGED <<stored, alarms>>
     \/ /\ ~readingsFull /\ stored < MaxStored
        /\ Store
        /\ \E new \in BOOLEAN : ProcessAlarms(new, Tail(events))
  /\ UNCHANGED <<machine, task, cmdString, commands, protocol, removed,
                 sentReadings, system, sentSystem, supply, published, left>>

(* EVENT_COMMAND_RECEIVED: extract_commands_from_string_buffer, then       *)
(* execute_commands(true) in state_idle, (false) in state_data_exchange.   *)
MutantExecuting == IF top = "IDLE" THEN "EXECUTE_IDLE" ELSE "LOOP"
Executing       == IF top = "IDLE" THEN "EXECUTE_IDLE" ELSE "EXECUTE_BUSY"

CommandReceived ==
  /\ Pop({"COMMAND_RECEIVED"})
  /\ events' = Tail(events)
  /\ commands' = Parsed(cmdString, "USB")
  /\ cmdString' = <<>>
  /\ task' = Executing
  /\ UNCHANGED <<machine, protocol, buffers, alarms, supply, published, left>>

(* state_normal, EVENT_ALARM and EVENT_HEARTBEAT: the connection sequence  *)
(* starts with the entry handlers of DATA_EXCHANGE and SEND.               *)
StartExchange ==
  /\ top = "IDLE" /\ idle = "NORMAL"
  /\ Pop({"ALARM", "HEARTBEAT"})
  /\ top' = "EXCHANGE"
  /\ EnterPhase("SEND", Tail(events))
  /\ sentReadings' = 0 /\ sentSystem' = 0
  /\ success' = TRUE
  /\ UNCHANGED <<idle, brownout, task, cmdString, commands, stored, removed,
                 system, alarms, supply, published, left>>

(* EVENT_USB_CONNECTED: state_brownout goes to NORMAL and lets the event   *)
(* through to wolksensor_handler, which clears the command string buffer.  *)
UsbConnected ==
  /\ Pop({"USB_CONNECTED"})
  /\ events' = Tail(events)
  /\ IF top = "IDLE" THEN idle' = "NORMAL" /\ brownout' = FALSE
                     ELSE UNCHANGED <<idle, brownout>>
  /\ cmdString' = <<>>
  /\ lowPower' = FALSE
  /\ UNCHANGED <<top, phase, task, commands, protocol, buffers, alarms, usb,
                 voltage, published, left>>

(* state_idle, EVENT_RESET: system_reset does not return. *)
Reload ==
  /\ top = "IDLE" /\ Pop({"RESET"})
  /\ Restart("POWER_ON")
  /\ UNCHANGED left

(* Events nobody acts upon.  wolksensor_handler puts ACQUIRE and HEARTBEAT *)
(* back for a state that wants them; state_brownout swallows ALARM and     *)
(* HEARTBEAT; everything else ends in wolksensor_handler.                  *)
Postponed == IF top = "EXCHANGE" THEN {"ACQUIRE", "HEARTBEAT"} ELSE {}

MutantSwallowed == IF idle = "BROWNOUT" \/ usb THEN {"ALARM", "HEARTBEAT"} ELSE {}
Swallowed       == IF idle = "BROWNOUT" THEN {"ALARM", "HEARTBEAT"} ELSE {}

Ignored ==
  {"USB_DISCONNECTED"} \cup
    IF top = "EXCHANGE" THEN {"ALARM", "RESET"} ELSE {"PROCESS", "DONE"} \cup Swallowed

Unhandled ==
  /\ \/ Pop(Postponed) /\ events' = Add(Tail(events), Head(events))
     \/ Pop(Ignored) /\ events' = Tail(events)
  /\ UNCHANGED <<machine, task, cmdString, commands, protocol, buffers, alarms,
                 supply, published, left>>

-------------------------------------------------------------------------------
(***************************************************************************)
(* execute_commands: one round of its loop, and its return.                *)
(***************************************************************************)
Writes(command) == command.kind \in {"WRITE", "CLEAR", "ALARM", "RELOAD"}

MutantRefused(command) == FALSE
Refused(command) == task = "EXECUTE_BUSY" /\ Writes(command)

(* the command handlers that act on this state machine: cmd_now,           *)
(* cmd_acquisition, cmd_reload, CLEAR of cmd_readings or cmd_system, and   *)
(* cmd_alarm, which puts the copy of the alarms in place                   *)
Requested(command) ==
  CASE command.kind = "NOW"         -> {"HEARTBEAT"}
    [] command.kind = "ACQUISITION" -> {"ACQUIRE"}
    [] command.kind = "RELOAD"      -> {"RESET"}
    [] OTHER                        -> {}

Effect(command) ==
  /\ IF Requested(command) = {}
       THEN events' = events
       ELSE \E event \in Requested(command) : events' = Add(events, event)
  /\ \/ command.kind = "CLEAR" /\ removed' = stored /\ system' = system
     \/ command.kind = "CLEAR" /\ removed' = removed /\ system' = 0
     \/ command.kind # "CLEAR" /\ removed' = removed /\ system' = system
  /\ sound' = IF command.kind = "ALARM" THEN command.sounding ELSE sound

ExecuteCommand ==
  /\ task # "LOOP" /\ commands # <<>>
  /\ commands' = Tail(commands)
  /\ IF Refused(Head(commands)) THEN UNCHANGED <<events, removed, system, sound>>
                                ELSE Effect(Head(commands))
  /\ UNCHANGED <<machine, task, cmdString, protocol, stored, sentReadings,
                 sentSystem, retries, alarmed, supply, published, left>>

(* back to the caller: the main loop, or state_receive, which goes for     *)
(* another round while there are readings                                  *)
CommandsExecuted ==
  /\ task # "LOOP" /\ commands = <<>>
  /\ task' = "LOOP"
  /\ IF task = "EXECUTE_SERVER"
       THEN IF readingsCount > 0
              THEN /\ EnterPhase("SEND", events)
                   /\ sentReadings' = 0 /\ sentSystem' = 0
              ELSE /\ EnterPhase("DISCONNECT", events)
                   /\ UNCHANGED <<sentReadings, sentSystem>>
       ELSE UNCHANGED <<events, phase, work, served, sentReadings, sentSystem>>
  /\ UNCHANGED <<top, idle, brownout, cmdString, commands, success, stored,
                 removed, system, alarms, supply, published, left>>

-------------------------------------------------------------------------------
(***************************************************************************)
(* The exchange.  PROCESS calls the process handle once: it comes back     *)
(* true, and PROCESS is added again, or false, and DONE is.  While sending *)
(* one of the rounds puts readings and system items into the published     *)
(* message, as many as fit, always the oldest; while receiving one of them *)
(* may put the commands of the server into commands_buffer.                *)
(***************************************************************************)
Publish ==
  /\ phase = "SEND" /\ ~served
  /\ served' = TRUE
  /\ sentReadings' \in 0..readingsCount
  /\ sentSystem' \in 0..system
  /\ sentReadings' + sentSystem' >= Smaller(Fit, readingsCount + system)
  /\ published' = IF removed + sentReadings' > published THEN removed + sentReadings'
                                                         ELSE published
  /\ UNCHANGED commands

ReceiveCommands ==
  /\ phase = "RECEIVE" /\ ~served
  /\ served' = TRUE
  /\ \E message \in ServerMessages : commands' = Parsed(message, "SERVER")
  /\ UNCHANGED <<sentReadings, sentSystem, published>>

Nothing == UNCHANGED <<served, commands, sentReadings, sentSystem, published>>

ProcessContinues ==
  /\ top = "EXCHANGE" /\ Pop({"PROCESS"})
  /\ work > 0
  /\ work' = work - 1
  /\ Publish \/ ReceiveCommands \/ Nothing
  /\ events' = Add(Tail(events), "PROCESS")
  /\ UNCHANGED <<machine, task, cmdString, success, stored, removed, system,
                 alarms, supply, left>>

ProcessFinished ==
  /\ top = "EXCHANGE" /\ Pop({"PROCESS"})
  /\ work = 0
  /\ events' = Add(Tail(events), "DONE")
  /\ UNCHANGED <<machine, task, cmdString, commands, protocol, buffers, alarms,
                 supply, published, left>>

(* DONE: the result is appended to the data of this exchange, which keeps  *)
(* the first error.                                                        *)
AppendResult(result) == success' = (success /\ result)

(* state_send: a send succeeded when its message has been published *)
SendDone ==
  /\ top = "EXCHANGE" /\ phase = "SEND" /\ Pop({"DONE"})
  /\ AppendResult(served)
  /\ EnterPhase(IF served THEN "RECEIVE" ELSE "STOP", Tail(events))
  /\ UNCHANGED <<top, idle, brownout, task, cmdString, commands, buffers,
                 alarms, supply, published, left>>

(* remove_sensor_readings *)
MutantRemoveReadings(n) == removed' = stored
RemoveReadings(n)       == removed' = Smaller(removed + n, stored)

(* state_receive: a receive succeeded when a message of the server came.   *)
(* With commands in it, what was sent is removed and they are executed.    *)
ReceiveDoneWithCommands ==
  /\ top = "EXCHANGE" /\ phase = "RECEIVE" /\ Pop({"DONE"})
  /\ served /\ commands # <<>>
  /\ RemoveReadings(sentReadings)
  /\ system' = IF sentSystem < system THEN system - sentSystem ELSE 0
  /\ task' = "EXECUTE_SERVER"
  /\ events' = Tail(events)
  /\ UNCHANGED <<machine, cmdString, commands, protocol, stored, sentReadings,
                 sentSystem, alarms, supply, published, left>>

(* state_receive, success without commands, or failure *)
ReceiveDoneWithout ==
  /\ top = "EXCHANGE" /\ phase = "RECEIVE" /\ Pop({"DONE"})
  /\ ~served \/ commands = <<>>
  /\ AppendResult(served)
  /\ EnterPhase(IF served THEN "DISCONNECT" ELSE "STOP", Tail(events))
  /\ UNCHANGED <<top, idle, brownout, task, cmdString, commands, buffers,
                 alarms, supply, published, left>>

(* state_disconnect: the module is stopped whatever the result *)
DisconnectDone ==
  /\ top = "EXCHANGE" /\ phase = "DISCONNECT" /\ Pop({"DONE"})
  /\ \E result \in BOOLEAN : AppendResult(result)
  /\ EnterPhase("STOP", Tail(events))
  /\ UNCHANGED <<top, idle, brownout, task, cmdString, commands, buffers,
                 alarms, supply, published, left>>

(* EVENT_LEAVING_STATE of state_data_exchange.  The heartbeat is adjusted  *)
(* here too: see Heartbeat.                                                *)
LeaveExchange ==
  /\ LET short == ~success' /\ voltage < Sufficient IN
       /\ system' = Smaller(system + (IF short THEN 2 ELSE 1), SystemSize)
       /\ brownout' = short
  /\ lowPower' = (lowPower \/ (~success' /\ voltage = Low))
  /\ sound' = (sound /\ ~success')
  /\ voltage' = NotMeasured

(* the entry handlers of IDLE and of its child, after that *)
MutantEnterIdle == top' = "IDLE" /\ idle' = IF brownout THEN "BROWNOUT" ELSE "NORMAL"
EnterIdle       == top' = "IDLE" /\ idle' = IF brownout' THEN "BROWNOUT" ELSE "NORMAL"

(* state_stop_communication_module *)
StopDone ==
  /\ top = "EXCHANGE" /\ phase = "STOP" /\ Pop({"DONE"})
  /\ \E result \in BOOLEAN : AppendResult(result)
  /\ LeaveExchange
  /\ EnterIdle
  /\ events' = Tail(events)
  /\ UNCHANGED <<phase, task, cmdString, commands, work, served, stored, removed,
                 sentReadings, sentSystem, retries, alarmed, usb, published, left>>

-------------------------------------------------------------------------------
(***************************************************************************)
(* The interrupt routines and the polling of the USB line.                 *)
(***************************************************************************)
Spend(source) ==
  /\ left[source] > 0
  /\ left' = [left EXCEPT ![source] = @ - 1]

(* minute_expired_listener *)
MinuteExpired ==
  /\ Spend("minute")
  /\ \/ events' = Add(events, "ACQUIRE")
     \/ events' = Add(Add(events, "ACQUIRE"), "HEARTBEAT")
  /\ UNCHANGED <<machine, task, cmdString, commands, protocol, buffers, alarms,
                 supply, published>>

(* the interrupt of the movement sensor through sensors_states_listener: a *)
(* movement is a new alarm every time (ALARM_TYPE_NOTIFY_ALWAYS)           *)
Movement ==
  /\ Spend("movement") /\ stored < MaxStored
  /\ Store
  /\ ProcessAlarms(TRUE, events)
  /\ UNCHANGED <<machine, task, cmdString, commands, protocol, removed,
                 sentReadings, system, sentSystem, supply, published>>

(* command_data_listener, when the terminator of a command arrives *)
CommandTyped ==
  /\ Spend("command") /\ usb
  /\ \E kind \in UsbCommands :
       cmdString' = Append(cmdString, kind)
  /\ events' = Add(events, "COMMAND_RECEIVED")
  /\ UNCHANGED <<machine, task, commands, protocol, buffers, alarms, supply,
                 published>>

(* usb_state_change_listener *)
UsbChanged ==
  /\ Spend("usb")
  /\ usb' = ~usb
  /\ events' = Add(events, IF usb THEN "USB_DISCONNECTED" ELSE "USB_CONNECTED")
  /\ UNCHANGED <<machine, task, cmdString, commands, protocol, buffers, alarms,
                 voltage, lowPower, published>>

(* battery_voltage_listener, while the monitor is enabled *)
VoltageMeasured ==
  /\ top = "EXCHANGE"
  /\ \E v \in Voltages :
       /\ voltage = NotMeasured \/ v < voltage
       /\ voltage' = v
  /\ UNCHANGED <<events, machine, task, cmdString, commands, protocol, buffers,
                 alarms, usb, lowPower, published, left>>

(* the watchdog or the brownout detector resets the device at any moment *)
Reset ==
  /\ Spend("reset")
  /\ \E start \in {"WATCHDOG_RESET", "BROWNOUT_RESET"} \cap StartTypes : Restart(start)

-------------------------------------------------------------------------------
HandleEvent ==
  \/ IdleAcquire \/ CommandReceived \/ StartExchange \/ UsbConnected
  \/ Reload \/ Unhandled
  \/ ProcessContinues \/ ProcessFinished \/ SendDone
  \/ ReceiveDoneWithCommands \/ ReceiveDoneWithout \/ DisconnectDone \/ StopDone

MainLoop == HandleEvent \/ ExecuteCommand \/ CommandsExecuted

Environment ==
  MinuteExpired \/ Movement \/ CommandTyped \/ UsbChanged \/ VoltageMeasured \/ Reset

Next == MainLoop \/ Environment

Spec == Init /\ [][Next]_vars

(* The processor always gets back to the main loop: interrupt routines end. *)
FairSpec == Spec /\ WF_vars(MainLoop)

-------------------------------------------------------------------------------
(***************************************************************************)
(* Properties.                                                             *)
(***************************************************************************)

(* The type invariant of the application's variables. *)
TypeOK ==
  /\ events \in Seq(Events)
  /\ top \in {"IDLE", "EXCHANGE"} /\ idle \in {"NORMAL", "BROWNOUT"}
  /\ phase \in {"SEND", "RECEIVE", "DISCONNECT", "STOP"} /\ brownout \in BOOLEAN
  /\ task \in Tasks
  /\ cmdString \in Seq(Kinds) /\ commands \in Seq(Commands)
  /\ work \in 0..MaxWork /\ served \in BOOLEAN /\ success \in BOOLEAN
  /\ stored \in Nat /\ removed \in Nat /\ removed <= stored
  /\ sentReadings \in Nat /\ system \in Nat /\ sentSystem \in Nat
  /\ sound \in BOOLEAN /\ retries \in 0..MaxAlarmRetries /\ alarmed \in Nat
  /\ usb \in BOOLEAN /\ voltage \in {NotMeasured, Low, Sufficient}
  /\ published \in Nat /\ lowPower \in BOOLEAN
  /\ left \in [Sources -> Nat]

Tokens == PlacesOf(events, {"PROCESS", "DONE"})

(* The process handle of an exchange is driven by an event that goes round *)
(* the queue: whatever the interrupts add, there are never two of them,    *)
(* none is left over when the device is back in IDLE, and none is on its   *)
(* way while the server's commands run (a second one would make the next   *)
(* exchange call its handle, or see it finish, out of turn).  That there   *)
(* is one when it is needed is a matter of ExchangeTerminates.             *)
OneToken ==
  /\ AtMostOne(events, {"PROCESS", "DONE"})
  /\ top = "IDLE" \/ task = "EXECUTE_SERVER" => Tokens = {}

(* Commands do not get mixed up: state_receive takes commands_buffer for   *)
(* the acknowledgement of the server, so nothing the user typed, and       *)
(* nothing left from an earlier exchange, may ever be in it then.          *)
AcknowledgedByServer ==
  /\ top = "EXCHANGE" /\ phase = "RECEIVE" /\ task # "EXECUTE_BUSY" =>
       \A i \in DOMAIN commands : commands[i].from = "SERVER"
  /\ task = "LOOP" /\ ~(top = "EXCHANGE" /\ phase = "RECEIVE" /\ served) =>
       commands = <<>>

(* From the send to the removal after the receive, which drops as many     *)
(* readings and system items as the send counted, these are still the      *)
(* oldest of the buffers, and the readings among them have been published: *)
(* no command, interrupt or reset shifts the buffers underneath.           *)
SentWasPublished ==
  /\ published <= stored
  /\ top = "EXCHANGE" /\ phase \in {"SEND", "RECEIVE"} /\ task # "EXECUTE_SERVER" =>
       /\ sentReadings = 0 \/ removed + sentReadings <= published
       /\ sentSystem <= system

(* No exchange once the supply was found too low to communicate, until the *)
(* device is on USB or started anew: brownout survives alarms, heartbeats, *)
(* acquisitions and NOW.  "DO NOT HANDLE WE ARE LOW ON POWER!"             *)
QuietOnLowPower == lowPower => top # "EXCHANGE"

(* No event of these types is left, and the queue is full: the last one    *)
(* has been pushed out by the interrupts or by a command.                  *)
PushedOut(types) == PlacesOf(events, types) = {} /\ Len(events) = QueueSize

(* An exchange with its PROCESS or DONE, or whose commands are executed.   *)
UnderWay == top = "EXCHANGE" /\ (Tokens # {} \/ task = "EXECUTE_SERVER")

(* An exchange ends, success or not, whatever arrives meanwhile, unless so *)
(* much arrives that its PROCESS or DONE is pushed out of the full queue;  *)
(* nothing adds it again then.                                             *)
ExchangeTerminates ==
  UnderWay ~> top = "IDLE" \/ (~UnderWay /\ PushedOut({"PROCESS", "DONE"}))

(* Typed commands are parsed and run, in a caller that executes or refuses *)
(* them, and that returns, although the events of the exchange go round    *)
(* the same queue.  They are not when USB_CONNECTED, still to be handled,  *)
(* erases them, when their COMMAND_RECEIVED is pushed out (they then wait  *)
(* for the next), or when RELOAD restarts the device; of more than         *)
(* CommandsSize at once only the last are run.                             *)
CommandsAnswered ==
  /\ cmdString # <<>> /\ PlacesOf(events, {"COMMAND_RECEIVED"}) # {} ~>
       \/ commands # <<>> /\ task \in {"EXECUTE_IDLE", "EXECUTE_BUSY"}
       \/ PlacesOf(events, {"USB_CONNECTED"}) # {} \/ PushedOut({"COMMAND_RECEIVED"})
  /\ task # "LOOP" ~> task = "LOOP" /\ commands = <<>>

(* An alarm that waits for an idle, not browned out, device makes it       *)
(* connect, unless its event is pushed out first.                          *)
AlarmStartsExchange ==
  top = "IDLE" /\ idle = "NORMAL" /\ PlacesOf(events, {"ALARM"}) # {}
    ~> UnderWay \/ PushedOut({"ALARM"})

(* When an exchange withdraws the alarms it has sounded, the reading that  *)
(* raised the newest of them has been sent, or the device will still act   *)
(* on its ALARM event: README, "Whenever movement occurs and movement is   *)
(* enabled WolkSensor reports this event".                                 *)
AlarmsReported ==
  ~sound /\ task = "LOOP" =>
    alarmed <= published \/ PlacesOf(events, {"ALARM"}) # {}

(* What the delivery of readings promises, see Delivery. *)
EraseRequested ==
  \/ task # "LOOP" /\ commands # <<>> /\ Head(commands).kind = "CLEAR"
                   /\ ~Refused(Head(commands))
  \/ top = "IDLE" /\ Pop({"RESET"})

Reports == INSTANCE Delivery WITH eraseRequested <- EraseRequested

(* The buffer of readings delivers at least once: a reading leaves it only *)
(* after it was published in a message the server has answered, or because *)
(* a user cleared it.                                                      *)
DeliversReadings == Reports!Spec

===============================================================================
