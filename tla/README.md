# A verification project for the WolkSensor firmware

WolkSensor is a battery powered sensor on an AVR XMEGA: every minute it reads temperature, humidity and
pressure, it watches for movement, and now and then it turns its WiFi chip on and delivers what it has
collected to a server over MQTT. This directory holds TLA+ models of the program that does this, the TLC
configurations that check them, and theorems about them that TLAPS checks. Paths below are relative to
`src/wolksensor/SDK`, unless they start with `src/`.

## 1. Inventory

### Shape of the program

One main loop (`src/wolksensor/wolksensor/WolkSensor/main.c`, 284-310) pops events from queues and offers
each to a hierarchical state machine (`core/state_machine.c`); when all queues are empty it sleeps.
Interrupt routines (minute clock, UART, movement, ADC, timers, WiFi chip) call *listeners* that add events
behind its back. There are no threads: concurrency is the main loop against interrupts, and four state
machines stacked on each other, each driving the one below by calling a *process handle* until it returns
false and then asking for its result:

    application  --send / receive / disconnect-->  MQTT  --send / receive-->  WiFi  --open / send-->  TCP, UDP
        ^                                                                      ^                       ^
     minute, UART, movement, USB, ADC interrupts                       WiFi chip callbacks        timers

### Components

| Component | State | Operations | Hard behaviour | What makes it correct |
|---|---|---|---|---|
| Application `application/wolksensor.c` | event queue, state, brownout, command buffers, readings and system items, sent counts, alarms, battery voltage | events ACQUIRE, HEARTBEAT, ALARM, COMMAND_RECEIVED, USB, PROCESS, DONE, RESET; five listeners | interrupts during an exchange; one queue for everything; commands of two origins; resets | readings are delivered at least once; exchanges end; no exchange on an empty battery; nothing typed or reported is lost |
| Heartbeat `application/wolksensor.c` 163-202, 648-679 | interval, timer, no connection state | minute interrupt, start, adjust | 16-bit race, 8-bit wrap, several writers | the interval the user asked for, doubled after failures, the user's again on USB |
| Circular buffer `core/circular_buffer.c` | array, head, tail, two flags | add, add array, pop, peek, drop, clear | equal positions; an interrupt in the middle of an operation | it is a bounded queue, for whoever uses it |
| Event buffer `core/event_buffer.c` | circular buffer of events | add, pop with interrupts disabled | overflow discards the oldest | no event that must not be lost is |
| Commands `core/commands.c`, `core/command_parser.c` | parameters, pending command | 30 commands, partial answers | parse buffers, stale copies, writes during an exchange | each command has its effect once |
| Sensors `core/sensors.c` | sensor table, alarms, sound flags | check updates, clear sounded | called from interrupts | notified once, sounded until reported |
| MQTT `core/mqtt_communication_protocol.c`, `core/libemqtt.c` | 15 states, message buffer, ids | send, receive, disconnect | lost and unexpected messages, retries | each operation ends with a truthful result |
| WiFi `core/wifi_communication_module.c` | 13 states, timeouts | start, connect, send, receive, stop | stop at any time, chip callbacks, timeouts | stop always succeeds; no socket is left open |
| TCP, UDP `core/tcp_...c`, `core/udp_...c` | 5 states, socket, timeout | open, send, receive, close | timer and callback against unsynchronised clears | an operation ends once |
| Protocol `core/protocol.c` | message buffer | serialize readings, system items | what fits | what is counted as sent is in the message |
| Configuration `core/config.c`, `src/wolksensor/wolksensor/src/OS/nonvolatile_memory.c` | parameters in memory, in EEPROM pages and in the chip | load, assign, write page by page, apply | resets between pages; copies that go stale | what is used is what would be loaded; a connection has what is configured |
| Chrono, logger, actuators | time | convert | - | - |
| Main loop, board drivers | sleep flag, reset reason | init, process, sleep | lost wake-ups, resets | an event is served before the next sleep |

`PROJECT.json` lists all of them, also those left out, and the hazards at their lines.

## 2. Plan

| Step | Modules | Status |
|---|---|---|
| 1. The application | `EventQueue`, `WolkSensor`, `Delivery`, `Heartbeat`, `SensorAlarms`, `Fifo`, `CircularBuffer` | done; all safety and action properties of `WolkSensor` and `Heartbeat` proved |
| 2. The communication stack | `Tcp`, `Udp`, `Wifi` (which composes them), `Mqtt` | done; the consistency of Tcp and all safety of Wifi and Mqtt but the deviations of section 6 proved |
| 3. Data | `SharedBuffer` (a buffer interrupted in the middle of an operation), `Parameters` (commands, EEPROM, chip) | done; all safety and action properties of both proved |
| 4. Left | `Protocol` (separators, what fits), `MainLoop` (sleep and lost wake-ups), calendar arithmetic | not modelled, see section 7 |

Abstract specifications: `Delivery`, which the application implements (proved), and `Fifo`, which a circular
buffer of one owner implements (proved). Between the layers the promise is that a started operation ends,
and ends truthfully: `Wifi!OperationEnds` and `Wifi!Truthful` are what `Mqtt` assumes of its communication
module, `Mqtt!EndsUnlessMismatched`, `CountsSent` and `SuccessMeansArrived` what `WolkSensor` assumes of its
protocol.

## 3. Modules

| Module | Models | Code |
|---|---|---|
| `EventQueue` | `add_event_type` on a queue that discards its oldest event | `core/event_buffer.c` |
| `WolkSensor` | the application: one action per event and per listener | `application/wolksensor.c`, `core/state_machine.c`, `core/commands.c` |
| `Delivery` | abstract: readings leave the device only after they were published | `src/README.md` 57 |
| `Heartbeat` | the interval between connections, with the race of `start_heartbeat` | `application/wolksensor.c` |
| `SensorAlarms` | the alarms of the sensors and the ALARM command; Heartbeat extends it | `core/sensors.c`, `core/command_parser.c` |
| `Mqtt` | the MQTT machine between the application, the communication module and a broker | `core/mqtt_communication_protocol.c` |
| `Wifi` | the WiFi machine with TCP, UDP and the chip | `core/wifi_communication_module.c`, `CC3100/wifi_cc3100.c` |
| `Tcp`, `Udp` | the socket machines; Udp is an instance of Tcp | `core/tcp_communication_module.c`, `core/udp_communication_module.c` |
| `CircularBuffer` | the array, its positions and flags, an operation being one step | `core/circular_buffer.c` |
| `SharedBuffer` | the same statement by statement, between the main loop and an interrupt | `core/circular_buffer.c`, `UART.c`, the callers |
| `Fifo` | abstract: a bounded queue, as the code keeps it and its callers need it; the header says otherwise of two operations (section 6) | `core/circular_buffer.c` |
| `Parameters` | what the user configures, in memory, in EEPROM and in the chip | `core/config.c`, `core/commands.c`, `nonvolatile_memory.c`, `CC3100/wifi_cc3100.c` |
| `MCWolkSensor`, `MCHeartbeat`, `MCParameters` | instances for TLC | - |
| `EventQueueProofs`, `WolkSensorProofs`, `HeartbeatProofs`, `TcpProofs`, `WifiProofs`, `MqttProofs`, `ParametersProofs`, `BufferProofs` | theorems | - |

Common to all: a history variable is read by no guard; a bound on what the environment does is a constant
named `Max...` or a field of `left`. An operator named `Mutant...`, next to the one it resembles, is that one
with a bug; no specification uses it, and `PROJECT.json` pairs each property with one that violates it.

### WolkSensor

State and code: `events` is `events_buffer`; `top`, `idle` and `phase` are the `current_state` of the state
machine and of its two states with children (ACQUISITION leaves itself in its entry handler, so it is never
observed between events); `cmdString`, `commands` the two command buffers; `stored` and `removed` number the
readings, so the buffer holds `removed+1 .. stored` and a lost reading is visible; `system` counts the system
items; `sentReadings`, `sentSystem` are the counts of the last send; `sound` says that some alarm waits to be
sounded; `work`, `served` and the result of DONE are what this file sees of MQTT.

One action is one event with all nested transitions (exit, entry handlers). The exceptions are
`execute_commands` (`task` names its caller: interrupts come between its rounds) and the exchange, which the
code itself cuts into PROCESS events. `Restart` is a start of the program: the readings are in memory that is
not initialised, everything else is reset. Handlers of interrupts are atomic: the XMEGA runs all of them at
the same or a nested level and `add_event_type` disables interrupts; what they do between two steps of
`start_heartbeat` is in `Heartbeat`, what they do in the middle of a buffer operation in `SharedBuffer`.

External parts, seen through their use: the protocol publishes any number of readings up to what is there, at
least `Fit` items; it may fail before or after publishing; the server may answer with any of
`ServerMessages`; the battery shows any of `Voltages`.

History variables: `published`, `alarmed`, `lowPower`. Bounds: `left` (how often each interrupt source fires),
`MaxStored`, `MaxWork`.

### Heartbeat

`current`, `timer`, `system`, `noConnection` and `count` are the variables of the code with their widths
(`TimerRange`, `CountRange`). `start_heartbeat` takes three steps (`setting`): read the timer, write it, write
the interval. Exchanges end at any time, with or without success. `failed`, `base` are histories; `minutes`,
`moved` bounds. `MCHeartbeat!UndisturbedSpec` leaves no minute within `start_heartbeat`, to show that the missed
heartbeat needs no race.

### SensorAlarms

`enabled`, `active`, `sounding` are the sets of limits (a sensor and low or high) whose flag of that name is set,
`copies` the ALARM commands parsed and not executed, each with its copy of the table. A sample is the set of
limits it is beyond, any set, because users choose the limits. `AtmoLimits` belong to P, T and H, read by
`Acquisition` in the main loop, `MovementLimits` to M, reported by the interrupt of LSM303.c at any time.
Heartbeat extends the module: it says when samples and commands come, and its failures do not count while
`Unsounded`. A batch is parsed and executed without a sample or the end of an exchange in between: by one event
in IDLE, by DONE of the receive for the server's; only interrupts, other commands and the USB event come between.
`beyond` is a history. Between the test of `sound_alarm_retries` and its increment an interrupt may set it to 0;
process_alarms is one step here.

### Tcp, Udp, Wifi

`tcpEvents`, `tcpState`, `tcpTimer`, ... are the static variables of the file; a state that leaves itself in its
entry handler (SEND, CLOSING, STARTING, STOPPING) is never seen between two events and is folded into the
transition that enters it. One action is one event popped and handled. `tcpSockets` counts what the chip has
allocated, `held` whether `open_socket_id` names one of them: the code may forget a socket that the chip still
holds, and `SocketsReclaimed` says when that is made good.

`circular_buffer_clear` runs with the interrupts enabled, and the timer may add TIMEOUT in its middle.
`ClearTcpEvents` chooses what may be left: nothing, the event, an event of type zero, which is SEND, or one
that stays hidden until the next is added (`Ghost`). That this is all, and that all of it happens, is
`SharedBuffer!ClearLeavesOne`.

In `Wifi` the caller may call any of `Operations` at rest, and may abandon one to stop or close, as the
application does. The chip (`link`) accepts a connection, gives an address, disconnects, or reports an error
or a closed socket at any time; `faults` bounds the last two only (`MaxFaults`); the count starts again at the calls of `CountAnew`. Every call of
its driver may fail.

### Mqtt

One action is one event. The communication module is what `Wifi` promises: an operation (`comm`) runs for some
polls and ends in success or failure, a failure has reset the chip and so closed the connection, a receive that
times out succeeds with no data. The broker takes the packets in order (`sent`), answers each, and may in
between send messages of its own (`Unasked`), have its messages cut in two, or lose the connection (`Lose`) with
any of them. What the parser makes of the message buffer is `message`. `closedUnder` tells that a command
received from the server has closed the socket under the session.

### CircularBuffer and SharedBuffer

Operations are operators on the record of the struct; the loops of the array operations are functions. `moved`
is what an operation returns or takes. In `SharedBuffer` add, pop and clear are their statements in the order
of the source, each a load and a store, and an interrupt runs a whole operation between any two of them, unless
the caller has disabled interrupts (`Locked`). `use` names the buffer and with it who does what:
`uart_command_response_buffer`, `command_string_buffer`, the readings, an event queue, an event queue that is
being cleared. The main loop also clears the characters (USB_CONNECTED, `wolksensor.c` 411) and the readings
(READINGS CLEAR, `commands.c` 220) with the interrupts enabled. `ideal` is the queue there would be if operations
were atomic, but that a clear also erases what an interrupt adds in its course: clear resets the positions first and
the array last, and an element that comes in between stays in the queue as a zero (`erased`). `Queue` maps the
buffer of one owner to `Fifo`, its contents read from the head.

### Parameters

A command assigns a variable of `core/config.c`, then writes its pages one after the other (`todo`), then closes
the socket or leaves the network (`EndCommand`). A page is found or given out by a scan (`SlotFor`) and programmed
by the hardware after `config_write_eeprom` has returned (`programming`, `Programmed`); a reset meanwhile leaves
the old contents, the new ones, or an erased page. `cached` are the copies `wifi_connect` compares with to tell
whether the chip needs new addresses, `chip` what it keeps itself, across resets too. `joined`, `before`,
`misled` are histories; `misled` says that `cached` is not what the chip has. Texts are sequences of pieces, as
long as a page each; one parameter stands for all that are treated alike.

## 4. Runs

| Run | Shows | Bounds and why they are enough |
|---|---|---|
| `delivery` | TypeOK, OneToken, SentWasPublished, AcknowledgedByServer, DeliversReadings: readings leave the buffer only after they were published and answered, or cleared | two movements and an acquisition the user asks for in a buffer of two, one command of each side, a USB change, a watchdog reset; the user and the server may both clear. A reading added during the exchange is what distinguishes "what was sent" from "everything", the third what can retry an alarm once too often |
| `progress` | QuietOnLowPower, ExchangeTerminates, CommandsAnswered, AlarmStartsExchange: exchanges end unless the queue overflows and their event is the one discarded; typed commands are run unless they are erased by USB_CONNECTED or their event is discarded | a minute that is a heartbeat and an acquisition (which may raise an alarm), two commands and a USB change, a battery that may be low: a failed exchange is followed by every kind of attempt at another. The queue holds three events, not the code's ten, so that these fill it and push PROCESS, DONE, ALARM or COMMAND_RECEIVED out |
| `heartbeat` | TypeOK, BackOff, UsersIntervalOnUsb, NotifiedOnce, SoundsUntilReported | maximum 3, timer of five values, up to 4 failures: past the maximum; two USB changes, a minute at every point of `start_heartbeat`; a limit of each type, batches of two ALARM commands: the second's copy is older than what the first did |
| `buffer` | SharedTypeOK, FlagsTell, OwnedIsQueue for every operation on a buffer of one owner; LockedIsQueue, PositionsTell, OldestTaken, NothingInvented, ClearLeavesOne for those shared with an interrupt, which comes in the middle of their additions, removals and clears | three places, arrays up to four: longer than the buffer, at every position; six additions go around it twice; one interrupt in each operation (they are a character, or a millisecond, apart; the erasing of a clear takes longer, but begins with the next places, so that a second interrupt meets what comes after it) |
| `wifi` | WifiTypeOK, TcpConsistent, Truthful, SocketsReclaimed, TimersAtRest, OperationEnds | every operation after every other; queues as in the code; two sockets in the chip; two attempts at opening one; timeouts of one and two seconds, so that an answer may come before, at and after them; one reported fault beside the failures of calls, in the whole history (`CountAnew` is empty; with a count for every stop there are more than two million states, in `stop_lost` and the proofs the set is not empty). UDP without parameters (as the firmware is configured; SEND_TO and RECEIVE_FROM are not called), so that its machine only refuses |
| `mqtt` | MqttTypeOK, ConnectFirst, ErrorsDisconnect, CountsSent, SuccessMeansArrived, EndsUnlessMismatched | three exchanges, two lost connections, two unasked messages: an exchange may fail, be followed by one that meets what is left of it, and by one more |
| `parameters` | ParametersTypeOK, ReadBack, NoMixture, FactoryKept, ConnectedAsConfigured, StaticIpVerified | a name of two pages, two addresses, an offset and the factory's; four commands: long, short, long again and another; two faults: a reset that spoils a page and a failure that misleads the driver |
| `alarm_lost`, `heartbeat_missed`, `mismatch`, `stop_lost`, `responses_stuck` | violations, section 6 | each the smallest instance that meets the case |

Deadlock is checked in `wifi` and `stop_lost`. In the others the system may stop: when the bounds are used up
the device sleeps.

### Fairness

`WolkSensor!FairSpec` is `Spec /\ WF_vars(MainLoop)`: while there is something in the queue, or a command to
execute, the main loop gets on. Interrupt routines are short and the loop of `main.c` does not sleep before
`wolksensor_process` has returned false. Nothing is assumed of the environment: no interrupt is fair. That the
process handle returns false in the end (`work` counts down) is assumed of MQTT, and checked by `mqtt`.

`Wifi!WifiSpec` is fair to the machine, which is polled, and to the seconds of the clock, which an interrupt
counts; the chip owes nothing. `Mqtt!MqttSpec` is weakly fair to the machine and to the return to the caller,
and strongly fair to the end of an operation of the communication module: the polls of it go on in between, so
the end is enabled again and again, not continuously. This is what `Wifi!OperationEnds` justifies. The broker
owes nothing: a receive that gets no answer times out.

## 5. Proofs

All theorems hold for every value of the constants, under the assumptions of the modules (`SizesAssumption`,
`InputsAssumption`, `AlarmsAssumption`, `HeartbeatAssumption`, `TcpAssumption`, `WifiAssumption`,
`MqttAssumption`, `ParametersAssumption`, `BufferAssumption`, `SharedAssumption`), which TLC also evaluates in the
runs. Some theorems have a hypothesis
more, stated with them: `LowPowerIsQuiet` is
about devices that were switched on (a watchdog or brownout reset during low power forgets it, section 6),
`BackOffInClosedForm` about fewer failures in a row than the count of eight bits holds (section 6 too),
those of `MqttProofs` about a queue of at least two events (the code has ten), `TimersStop` and
`FailureReclaims` about `WifiQueueSize > MaxFaults + 4`, `ResultsAreTrue` about `WifiQueueSize > 7` and
`TcpQueueSize > MaxFaults + 1` as well (below; the code has queues of ten), and the four theorems of `BufferProofs`
about interrupted operations about at most one interrupt in each (a character takes 87 us, the timer a millisecond, an
operation a few us; erasing the array in a clear takes longer, but begins with the places the next elements go to).
Three of them, which have to tell a cleared queue from a full one by its positions, also ask for more than one place
(the code has 10, 150, 256 and 768). `ParametersAssumption` says that a
text fits its pages, which `commands.c` 314 and the like see to.

* `TypeCorrect`: `Spec => []TypeOK`; TypeOK is inductive, one lemma for the handlers, one for
  `execute_commands`, one for the interrupts.
* `SingleToken`: the invariant is `TokenInv == TypeOK /\ Callers /\ OneToken`, where `Callers` says in which states
  `execute_commands` can have been called. OneToken alone is not inductive: when `execute_commands` goes back to the
  exchange it adds PROCESS, which is right only if it came from RECEIVE, with the token taken out. The lemmas of `EventQueueProofs` say what adding and popping do
  to the events of a set, also when the oldest is discarded.
* `SentStaysFirst`: `SentInv == TokenInv /\ SentWasPublished`. The buffers do not shift during an exchange
  because the user's commands that clear them are refused there and the server's run after the removal.
* `ImplementsDelivery`: `Spec => Reports!Spec`. Steps that leave the numbers alone are stutters or a Publish of
  nothing (the input `eraseRequested` may change at any time), storing is Record, the removal after a receive is
  Acknowledge because SentWasPublished holds, clearing and RELOAD are Erase.
* `UsersInterval`: while `start_heartbeat` is at work on USB it is on its way to the user's interval (`UsbInv`).
* `OncePerCrossing`, `KeptUntilReported`: the invariant `AlarmsInv` adds that every waiting copy has the flags of
  the table as they are (`Current`), for NOTIFY_ONCE limits: samples of these and ends of exchanges do not come
  while copies wait, and movement has limits of its own. Without it, executing a command could bring back flags
  of another time, which is what happens to movement.
* `TcpTypeCorrect`, `TcpIsConsistent`: `TcpInv == TcpTypeOK /\ TcpConsistent` is inductive: the timer runs only
  while receiving and whoever sends or receives has opened a socket. The type of the queue is what takes care:
  a cleared queue may hold an event nobody added.
* `PagesEnoughAndUnique`: `Spec => []ParametersTypeOK`. The invariant `ParametersInv` adds that the page being
  programmed keeps its type or was empty, which is what a reset needs, and that all pages still to write belong
  to parameters. That there is always a page for a parameter without one is the pigeonhole principle: slots of
  other types, no two the same, cannot be more than the other types. That a nonempty set of slots has a first
  one (`Least`) is proved without induction, which the provers do not have: the numbers below all of them
  would otherwise be a finite set with an injection into itself that misses 0.
* `ServerAcknowledges`: AcknowledgedByServer is inductive with the types; what the server's buffer holds and
  where commands come from (`FromServer`) is followed through parsing and execution.
* `LowPowerIsQuiet`: until USB comes or RELOAD starts the device anew, the machine stays in IDLE's BROWNOUT, which
  handles nothing that connects.
* `IntervalsBounded`, `BackOffInClosedForm`: the invariant `BackOffInv` relates the interval, or the write of it
  that is under way (`setting`), to the failures counted. The closed form doubles once for two failures;
  that its recursive function (`Doublings`) exists is proved from `UpTo`, which replaces the induction that is
  out of the provers' reach: numbers without a successor in a set would make the successor an injection that
  misses 0.
* `ConnectedIsAsConfigured`, `StaticIpAsAsked`: these properties are about moments without a command.
  `ConnectionInv` says what holds during one: only the command that changes a parameter may differ from the
  chip, only commands of addresses write addresses (`Allowed`, a condition on every page in `todo`), and the chip
  has what `cached` says unless `misled`. The case that takes thought is an address written while not all are
  set: the chip is told nothing, and need not be, since DHCP is wanted before and after.
* `ParametersReadBack`, `ResetsMixNothing`, `FactoryOffsetKept`: `ReadInv` says how far the list of pages under way
  has been written: what is in front of it reads back (`Written`, `WrittenIsLoaded`), the rest are pages of one
  parameter, in order, and the last ones (`Run`), all other parameters read back (`AsLoaded`), and what a reset
  would bring back of a page being programmed is the old contents (`BeforeKept`). The factory's offset comes first
  and once (`FactoryOnce`). `Loaded` joins at most three pages, so its recursion is written out (`UpToThree`).
* `SessionsConnectFirst`, `ErrorsEndSessions`, `SentAreCounted`, `ReceivedMeansArrived`, `MqttTypesKept`: the
  invariant is `MqttInv == NetTypeOK /\ MachineInv /\ SessionInv /\ AnswerInv`. `MachineInv` gives, for each
  situation of the machine (resting, called, joining, working, aborting, stuck), what exactly is in its queue: one
  event, or one and the retained PUBLISH, in either order. `SessionInv` adds where an unopened session can be.
  `AnswerInv` follows the PUBLISH of an exchange from `sent` through the broker to `inbox`: until the broker took it
  (`Pending`) no answer is on its way, afterwards (`Taken`) at most one is; without it a PINGRESP or the answer to an
  earlier exchange could be taken for it.
* `WifiTypesKept`, `SocketsStayConsistent`: `TypesInv`, the types of the three machines and the consistency of TCP
  and UDP, is inductive by itself, for every size of the queues. UDP's part is proved as TCP's is, on its own
  variables.
* `TimersStop`, `FailureReclaims`: the invariant is `RunInv`. `CallsInv` says that there is one operation at a time and
  none is started while a token (PROCESS or DONE) of an earlier one is left; `TokensInv` where tokens may be;
  `MachinesInv` that TCP and UDP are at rest when the WiFi machine does not use them, in the terms of `TcpProofs`:
  quiet (nothing to do), warm (past opening a socket), cold (closing at most); `AliveInv` that every state that waits
  has an event in the queue that it does not ignore (`Wakes`); `LinkInv` that the chip's notices in the queue
  belong to the link as it is; `SocketsInv` what is open. TimersAtRest needs `AliveInv`: a machine that forgot
  its token would keep the timer, or TCP, running. SocketsReclaimed needs `TokensInv`: in RESET a token left over
  from before must not let TCP open a socket again, nor end the reset while one is still to be closed.
  In RESET the only event that wakes the machine is a token, and the interrupts may push it out of the queue: one
  event for each fault, three for a link that comes and goes, one for the operation. This is what the hypothesis
  excludes. The theorems hold for every `CountAnew`: with all operations in it, they are about any number of
  operations in a row with, for the code's queue of ten, at most five reported faults from one call to the next (no
  token outlives an operation, so older faults do not matter). The hypothesis cannot be dropped: with two faults TLC
  finds SocketsReclaimed violated for a queue of five (and TimersAtRest for one of two), and true for six. The proof
  asks for seven, one more than needed.
* `ResultsAreTrue`: `TruthInv` follows an operation on its way. As long as no error is noted, what was called, or
  what stands for it in the state reached (a stop is STOP, then STOP_SOCKET_CLOSED, then STOP again), waits in the
  queue or has been done (`Pending`; `SendTruth`, `DisconnectTruth` and `StopTruth` say where). Two things could
  break this. The first is that the event waited for is pushed out of the queue. All events but errors are of six
  kinds, of each of which at most one is in the queue on that way (`Single`: what the machine adds for itself, what
  the timer adds once, what the link does in order), so that of seven events one is an ERROR (`SevenHaveError`).
  A full queue of more than seven still holds seven after its oldest is pushed out: what waits stays, or an error
  waits in its place, which makes the operation fail (`WaitsAdd`). The second
  is that the data get lost in the queue of TCP or UDP: they are there as SEND, with at most the reported closed
  sockets and the opening of one socket behind it (`Delivering`, `SendNear`), one because a socket is opened at a time
  (`OpeningInv`, an invariant of its own). DONE is then read only after the chip took the data or TCP noted an error,
  which the WiFi machine takes over.

* `SharedTypesKept`, `FlagsAlwaysTell`, `ImplementsFifo`: a buffer of one owner is `Filled` by a sequence: it lies from
  head to tail, and each flag says what its length says. `Filled` is kept by every operation (`AddedFills`,
  `PoppedFills`, ...), and a buffer whose flags are consistent is filled by its `Contents` and nothing else
  (`FilledMeans`), so that Fifo's operations are those of the buffer on its contents. The array operations are
  loops, in the module recursive functions: that these exist, and what they compute after n rounds, is proved from
  `UpTo` (`Iterated`, then the set of the rounds for which it holds).
* `EventsAreAQueue`: with the interrupts disabled, what the statements run so far have left to do makes of the buffer
  what the operation as a whole would (`Began`, `Adding`, `Removing` name the buffer and queue from before).
* `PositionsAlwaysTell`, `OldestAlwaysTaken`: with interrupts the flags may be wrong for good, so `Filled` is not
  invariant; that the elements lie from head to tail is (`Lies`). `TakenInv` (commands, readings) and `ResponsesInv` add
  what each statement has read and whether that is still so: a pop that is interrupted by an addition has read a tail
  that is behind, an addition that is interrupted by a pop a head that is; both write back a position the
  interrupt does not move. `TakenClear` does the same for the statements of a clear, before and after an addition
  in its middle: one that comes before the tail is reset is removed with the rest, one that comes later lies in the
  first place, or erased there.
* `NothingIsInvented`: `GenuineInv` says that no element of `ideal` is a zero until a clear has erased one, and each
  take finds `ideal` non-empty (`Orderly`), so that by OldestTaken what it takes is an element of it.
* `ClearLeavesAtMostOne`: `ClearInv` follows the five statements of clear, before and after the timer's event
  (`Untouched`, `Touched`): as the head is reset first, the event lies in the first place or is erased with it.

Only model-checked: liveness (`ExchangeTerminates`, `CommandsAnswered`, `AlarmStartsExchange`, `OperationEnds`,
`EndsUnlessMismatched`), which is out of the prover's reach. Every invariant and action property of the passing runs
is the property of a theorem.

## 6. Known deviations

Checked as violations, with the text of the repository they disagree with in `PROJECT.json`:

* `alarm_lost`: an exchange that ends well clears the sound flags of alarms that came after its message, and
  their ALARM event was ignored.
* `heartbeat_missed`: a timer that is a multiple of the new interval is set to the interval, the next minute
  steps over it.
* `mismatch`: a SUBACK with the id of another message makes the machine enter the state numbered like an event;
  no event leaves it and the operation never ends.
* `stop_lost`: an access point that disappears while a stop closes the socket makes the stop end with the chip
  disconnected, not stopped.
* `responses_stuck`: `circular_buffer_add` decides on the flags after it has moved the tail; the interrupt that
  pops in between leaves a buffer that is empty and full, which refuses every later response.

Observed in the same way, or while modelling, and not among the runs:

* Application. What a user types while the server's commands wait in `commands_buffer` is executed together
  with them, with writing refused: the server's HEARTBEAT and ALARM are gone (`wolksensor.c` 701). IDLE's initial
  child BROWNOUT is overwritten by its own entry handler, so that after a brownout reset the device connects at
  the next heartbeat (364, 478); a watchdog reset during low power forgets it as well. With a
  HEARTBEAT of 60 the device stays at the first minute's interval of 1, however often it fails to connect: the
  interval to double is 60 from the first failure on, and `start_heartbeat` is not called (671; `src/README.md` 59
  says the interval is doubled). Ten terminators during an exchange push out PROCESS; the exchange never ends
  (`event_buffer.c` 19). What was
  typed before USB_CONNECTED is handled is erased by it, neither executed nor refused (411). The count of failures is
  eight bits wide: the interval drops from 60 after 256 failures (668). `sound_alarm_retries <= MAX_ALARM_RETRIES` always holds, so a pending alarm ends the back-off (656). The
  second of two ALARM commands in one batch was parsed from a copy made before the first was executed, and
  undoes it. Commands that leave the network run `while(handle())` without the chip's tasks or the watchdog.
* WiFi, TCP. A failed receive and a socket closed by the peer leave the chip's socket allocated until a reset or
  a stop; DISCONNECT does not close it; an abandoned exchange followed by CLOSE_SOCKET opens the socket again
  after the close, and the next exchange fails once.
* MQTT. Only the first message of a receive is looked at; a command the broker sends on its own shifts the
  answers by one; the remaining length is one byte; the return code of CONNACK is not looked at; the states that
  wait for PUBACK, PUBREC and PUBCOMP are not reached with the QoS used, and SEND_PUBREL sends a cleared buffer;
  a PUBLISH before the answer to the ping ends the session, the branch that logs "retrying" being dead (1577).
* Parameters. STATIC_IP OFF is the only OFF: for the mask, gateway and DNS it is stored as an address. After a
  `sl_NetCfgSet` that failed, or a reset between STATIC_IP OFF and the next connection, `wifi_connect` believes
  that the chip has the settings: with static addresses no connection is then verified until they change, with
  dynamic ones the chip keeps its static address. SSID and PASS may be a mixture of two values after a reset.
  `cmd_pressure_offset` uses index 5 of an array of five.
* Buffers. The positions and flags of the readings survive a reset in the middle of an operation; a movement in
  the middle of an acquisition's addition loses one of the two. A movement in the middle of READINGS CLEAR, or a
  character in the middle of the clear of USB_CONNECTED, is removed with the others, hidden until the next addition,
  or erased in its place: what is then delivered is a reading of zeros, what is parsed a character 0. The comments
  of `circular_buffer.h` on two operations are not what the code does: `circular_buffer_add_as_many_as_possible`
  "will overwrite the oldest element" (43-46), where the code adds only what there is room for, and
  `circular_buffer_drop_from_end` "Drops first number_of_elements" (64-67), where the code drops the last.

## 7. Not modelled

* The values of limits and samples: a sample is the set of limits it is beyond, and in `WolkSensor` whether it
  raises a new alarm is a choice.
* The text of messages and commands (`core/protocol.c`, `core/command_parser.c`, `core/libemqtt.c`): how many
  items fit is a choice.
* The sleep of `main.c`: an interrupt between the last poll of the queues and `cli` is served only after the next
  one. The models take the main loop as always polling.
* Calendar arithmetic, fields of system and error data, the SSL and location flags.
* Ethernet (`core/ethernet_communication_module.c`): not wired in `main.c`. Its receive that times out does not
  clear its queue, and starts again.
* Actuators, logging, register accesses of the drivers, cryptography, the bootloader, and the vendored ASF and
  SimpleLink libraries, which are nine tenths of the repository: their behaviour appears as far as the firmware
  depends on it.
* A start by watchdog or brownout reset as the first start: `Init` takes the surviving buffers as empty; the
  states after a reset of a running device are reached by `Reset`.
