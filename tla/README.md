# Verification of the iec2modbus gateway

iec2modbus polls Modbus RTU slaves on serial buses and serves what it reads to
IEC 60870-5-104 clients, whose commands it writes to the slaves. This directory
holds TLA+ models of the gateway, the TLC configurations that check them, and
proofs that the TLA+ proof system checks.

Paths below are relative to the repository; `cs104_slave.c` is
`src/lib60870-C/cs104/cs104_slave.c`, other C files are in `src/`.

## 1. The system

### Components

| Component | State | Operations | Talks to | Hard behaviour | What makes it correct |
|---|---|---|---|---|---|
| Process image (`memory.h`, `ext_configs.c`) | per point: mutex, `mem_state`, value | allocate; lock and unlock by its users | shared by all threads | one mutex per point, nested with the locks of the server | mutexes are taken and given back in pairs; a state means what its name says |
| Modbus threads (`modbus_m.c`), one per bus | position in the list of slaves and commands | `ModbusThread`, `modbus_write`, `modbus_read` | libmodbus, process image | test of `mem_state` before the lock, blocking requests, failing requests | polls for ever; writes each accepted command once |
| Main loop (`main.c`) | `iec_send_timer` | `iec104_send_changed_data` high and low, `iec104_send_dio` | process image, event queues | change hidden by a re-read, event overtaken by a reply | clients learn every lasting change |
| Handlers (`iec104_server.c`) | none of their own | `asduHandler`, `interrogation_command`, `iec104_receive_cmd`, `find_iec_cmd` | run in a connection thread; process image | early return with a mutex held, several elements in an ASDU | each request is answered; commands are kept |
| Event queue (`MessageQueue`, `cs104_slave.c`) | ring of entries, indices, counter | enqueue, getNextWaiting, markAsConfirmed | main loop, connection thread | overwriting, late acknowledgement of a reused slot | a bounded FIFO |
| Reply queue (`HighPriorityASDUQueue`) | ring, counter | enqueue, getNext, reset | connection thread | full queue drops replies | - |
| Master connection (`MasterConnection`) | sequence numbers, k-buffer, timers, isActive, isRunning | receive, handleTimeouts, sendWaitingASDUs | socket, both queues, handlers | wrap-around, windows full on both sides, silent peer | nothing lost or reordered, windows reopen, silence is noticed |
| Server (`CS104_Slave`) | table of connections, `openConnectionsLock`, flags of the listening thread | start, accept, register, activate, enqueueASDU, remove, stop, destroy | all connections, main loop | teardown against enqueue, blocking writes, shutdown | the slave is freed after its last thread, no queue is used after it was freed (it is: section 3, Findings); every queue gets every event; dispatch and shutdown end |
| Modbus stack (`libmodbus/`) | context, bytes in the port | request, receive, check, confirm; the reply of a server | field | answers late, lost, in pieces, garbled | an answer is one to the request; commands are not repeated; a request ends (with a `time_t` of 64 bits it may not: Findings) |
| Information objects and ASDUs (`cs101_asdu.c`, `cs101_information_objects.c`, `cs101_bcr.c`, `cpXXtime2a.c`) | header and payload of an ASDU | create, encode, add, remove, decode, header and time tag setters | server, client, handlers | sixty-five layouts written by hand twice, as encoder and decoder | what is added is what is read; no ASDU outgrows its limit |
| IEC 60870-5-101 (`cs101_master.c`, `cs101_slave.c`, `cs101_queue.c`, `link_layer.c`) | link states, count bits, queues | send, poll, handleMessage, runStateMachine | serial line, applications | lost and late frames, repeats, busy stations | confirmation means delivery; in balanced mode ASDUs arrive at most once and in order, in unbalanced mode a fault costs at most one; every fault is recovered from |
| IEC 104 client, serial inputs, platform, logging, JSON, TLS | - | - | - | - | out of scope, see section 5 |

The build has threads and semaphores, `CS104_MODE_CONNECTION_IS_REDUNDANCY_GROUP`
(each connection has its own queues of 100 entries), k = 12, w = 8,
t1 = 15 s, t2 = 10 s, t3 = 20 s, at most five clients. The repository has no tests.

Threads: the main thread, one `ModbusThread` per bus, the listening thread of
the server, and one thread per connection, which also runs the handlers. They
share the process image (one mutex per point), the table of connections
(`openConnectionsLock`), and per connection the k-buffer (`sentASDUsLock`) and
two queues (`queueLock`).

The hazards - what can go wrong in this code and is hard to test - are listed in
`PROJECT.json`, each at its line with the properties that would catch it, or the
reason why none does yet.

## 2. Modules

| Module | Models |
|---|---|
| `Gateway` | process image, Modbus threads, main loop, handlers, connections reduced to their event queue |
| `MCGateway` | small gateways for TLC |
| `GatewayProofs` | proofs about `Gateway` |
| `EventBuffer` | what an event queue promises: a bounded FIFO whose oldest entry is overwritten when it is full |
| `MessageQueue` | the ring in `cs104_slave.c` that implements it, with the k-buffer and late acknowledgements |
| `MessageQueueProofs` | proofs about `MessageQueue` |
| `MasterConnection`, `MCMasterConnection` | the thread of one connection with both directions of TCP and the peer; the instance for TLC |
| `MasterConnectionProofs` | proofs about its types, data transfers, acknowledgements and the order of events |
| `SequenceNumberProofs` | proofs about its sequence numbers, and that nothing is lost |
| `CS104Slave`, `MCCS104Slave` | the server's life cycle: listening thread, table of connections, activation, dispatch, stop and destroy, with peers that stop reading |
| `CS104SlaveProofs` | proofs about `CS104Slave` |
| `ModbusFrames` | requests, replies of a device, and the lengths a receiver computes (pure operators) |
| `ModbusMaster`, `MCModbusMaster` | a Modbus thread over a serial line, byte by byte, its devices, and the main thread that stops it |
| `ModbusMasterProofs` | proofs about `ModbusMaster` |
| `InformationObjects` | the layout of every class of information object (pure operators) |
| `CS101ASDU` | an ASDU that is filled, changed and read through the layouts |
| `CS101ASDUProofs` | proofs about the fields, the layouts and `CS101ASDU` |
| `TimeTags` | time tags and binary counters (pure operators) |
| `MCCS101ASDU` | the types and parameters for TLC; the conversions checked over all values |
| `CS101Queue` | the queue of ASDUs of a CS 101 station: the ring, and the sequence the other modules use |
| `LinkLayer` | what both modes of the CS 101 link layer share |
| `LinkLayerUnbalanced` | a master that polls several slaves |
| `LinkLayerBalanced` | two stations with a primary and a secondary link layer each |
| `CS101`, `MCCS101` | the composition by `linkLayerMode`, its fairness and its properties; the instance for TLC |
| `CS101Proofs` | proofs about the ring of `CS101Queue` and both modes of `CS101` |

`Gateway` and `MasterConnection` both use the event queue as the sequence
`EventBuffer` describes, and `MessageQueue` shows that the ring is one. `Gateway`
leaves out acknowledgements (an event is consumed when it is transmitted);
`MasterConnection` has them and leaves out what the events say. `CS104Slave` is the
layer above: it has the threads of all connections and the locks between them and
the main loop, and reduces what `MasterConnection` sends to one write that holds
the lock of the queue. `ModbusMaster` is the layer below `Gateway`: it refines
what a bus does with one request, which `Gateway` takes to yield the device's
value or to fail. `CS101ASDU` and `CS101` model the rest of the vendored
library's servers and masters; they share no state with the gateway.

### Gateway

State: `lock`, `mem_state`, `mem` are `data_mem` of every point; `mb_*` the
program counters of the Modbus threads; `main_*` and `iec_send_timer` those of the
main loop; `session`, `events`, `view` the connections and what each client
knows; `task`, `asdu`, `cot`, `at`, `reply` the handler a connection thread runs.
`field`, `output` and `linkUp` are the devices. `commanded` is a history
variable: the accepted command of a point that has not been sent yet.

An action is what a thread does between two places where another thread can
interfere: testing `mem_state` (`WriteCheck`), taking the mutex (`WriteLock`), the
request (`WriteIO`, `ReadIO`), storing the result under the mutex
(`ReadStore`); `MainLock` and `MainSend` for the main loop; one action per
element and outcome of a command (`AcceptCommand`, `RefuseCommand`,
`UnknownCause`, `NotFound`, and `GiveUp` for an ASDU with fewer objects than it
announces); lock and send for each point of an interrogation; an interrogation of
a group is refused at once (`RefuseInterrogation`). A mutex that is held makes the
step that needs it impossible.

Values are model values. Two effects of widths are parameters. `Function` is the
Modbus function of a write point and `LowByte` what is left of a value in its first
byte: `OnTheWire` is what a device is told, and function 06 gets only that byte.
`Ragged` names the points whose comparison in `modbus_read` also looks at a byte
nobody wrote, so that unchanged data may look changed (a free choice).
`Unreportable` and `Unstored` are points of a type that `iec104_create_asdu` or
`iec104_receive_cmd` has no case for: the first are never reported, the second
are confirmed and nothing is stored. `WriteIO` has the case of function 15, which
does nothing; `WriteFunctions` are those `parse_modbus_write_cmd` accepts, and 15 is
not among them (`ext_configs.c:321-329`).

### MessageQueue

`asdus`, `entryCounter`, `firstMsgIndex` and `lastMsgIndex` are the fields of
`sMessageQueue`; `sentASDUs` the entries of the k-buffer that refer to the queue.
The clock stamps entries with milliseconds that need not differ, which is what
makes a late acknowledgement ambiguous. `ImplementsEventBuffer` maps the window
of the ring, oldest entry first, to the buffer of `EventBuffer`.

### MasterConnection

The thread repeats three phases (`pc`): receive at most one message, handle
timeouts, send what waits. One action per kind of message, one for
`handleTimeouts`, one for `sendWaitingASDUs`, and one for the end of the thread.
Only this thread touches the k-buffer; the main loop's `Enqueue` may come between
any two phases, and commutes with the steps inside one. Sequence numbers wrap at
`M`; the k-buffer keeps N(S) + 1 as the code does. Time is abstract: a timer that
runs may expire in any round. Replies of handlers are counted, not told apart.

The queue is the sequence of `EventBuffer`; `marks` adds what the ring knows an
event by, its slot and its time stamp. An acknowledgement frees what was sent under
the mark of a released entry, with all before it (`Confirmed`), as
`MessageQueue_markAsduAsConfirmed` does. When a full queue has overwritten events,
a slot is used again, and with it possibly the time stamp: then an acknowledgement
of the older event frees the newer one, which was sent, but not yet acknowledged.

The peer is external. It keeps the protocol, closes or falls silent at any time,
and, where `MayErr` allows it, once sends a number that is out of sequence or
acknowledges what cannot have been sent.

### CS104Slave

State: `masterConnections`, `openConnections` and `openConnectionsLock` are the
table, `isStarting`, `isRunning`, `stopRunning` the flags of the listening thread,
`conRunning` and `conActive` those of a connection; `thread`, `mainPc` and
`serverPc` are program counters; `queue` is the length of each queue, or
`Destroyed`. Steps are split wherever another thread can come between: at each
lock (`BeginDispatch`, `LockQueue`, `RemoveConnection`), between the deactivation
of the others and the activation of oneself, between the destruction of the
queues (`DestroyQueues`) and the removal from the table, between the creation of a
connection, its registration and the start of its thread. A dispatch that meets a
destroyed queue waits for ever (`mainPc` is `"hung"`) or ends the program
(`"crashed"`), or goes on by luck. `maxOpenConnections` is one of `Limits`. A write of an event
holds the lock of its queue from `BeginWrite` to `EndWrite`, and a stalled peer
delays it. The history variables are `reached`, the queues the current dispatch
has been to, and `told`, the connections that were told to close.

### ModbusFrames and ModbusMaster

One turn of `ModbusThread` goes through `Jobs` in the order `Before`: per slave its
write commands, then its reads. A job sends a request, reads the answer in the three steps of
`_modbus_receive_msg` (function, length, data), and then checks and confirms it (`check_integrity`,
`check_confirmation`). The devices answer as `modbus_reply` does. The line loses
requests and answers; a `"faulty"` line also lets an answer come after its
time-out or in pieces and garbles a byte. Nothing is flushed in the mode the
gateway uses, so what is left in the port is read as part of the next answer.
The time-out between bytes is that of the code: `modbus_set_byte_timeout(ctx, -1, 0)`
stores 4294967295 s in a `time_t`. With 32 bits (`timeWidth`) that is -1, which
counts as no byte time-out, and the response time-out ends the wait; with 64 bits
the wait for the rest of an answer ends after 136 years, which the model takes for
never (`TimeCounts`).
The CRC is ideal: a message passes exactly when it is a frame that was sent. The
field `by` of a request is history: it tells for which job it was sent, and is not
on the line.

The module MCModbusMaster also checks, as assumptions TLC evaluates, that packed
bits and registers come back, that every answer is as long as its reader
computes, and that a write is read back.

### InformationObjects, CS101ASDU and TimeTags

A class of information object is one record, its layout: the fields `encode`
writes, the room it asks for, what it returns, where `getFromBuffer` reads each
field, what it asks to be left, and which fields `create` leaves as it found the
memory. The two functions of the C code are derived from it, so an encoder and a
decoder that disagree differ in their layout. `CS101ASDU` is the state machine of
an ASDU: `AddInformationObject` with its room and address checks,
`RemoveAllElements`, and the setters of the header, which share bytes. The
reader's side (`GetElement` and the getters) is evaluated in every state.

The tables `Elements` follow the cases of `CS101_ASDU_getElementEx`. What the
application gives to an object, and at which addresses it adds it, are parameters
(`Given`, `Offered`); they are assumed to be values its fields can hold (`Holds`) and
addresses that fit where they are written. TLC gets a few of each from `MCCS101ASDU`,
the proofs have all. `TypesAssumption` leaves out what the layouts show not to work
(`SoundTypes`, `SoundInSequence`):

- `M_ST_TB_1`: `encode` returns false after it has written, so the object is
  counted as refused; `M_ST_TA_1`: the time is read one byte early; `F_LS_NA_1`:
  two fields are read from one byte; `F_DR_TA_1`: `create` does not store the length
  of the file.
- Sequences of any type whose decoder asks for the bytes of an address that a
  sequence does not repeat: the last element of such an ASDU cannot be read.
- File segments and sections, whose encoders ask for less room than they write:
  a segment is `SegmentLength` bytes long, and `ParametersAssumption` asks for an ASDU
  that takes a section; larger ones their callers must see to.
- Bit strings of 2^31 and more pass through `int` (`Holds` takes those of them that
  survive); the decoders of several commands with a time tag ask for too few bytes,
  which matters only for ASDUs cut short; `getOA` reads the wrong byte and the getters
  of a status-and-change detection use `^` as if it were a power: neither is modelled.

`addInformationObject` does not compare the type of an object with that of the
ASDU. The model's caller adds objects of one type, as the API demands.

### CS101Queue and the link layer

`CS101Queue` has the ring and the sequence that stands for it; TLC compares both
over all calls up to seven, with rings of 1 to 3, and `RingActsAsSequence` is the
proof for every size. A frame is a record, and the octets of FT 1.2
(`serial_transceiver_ft_1_2.c`) are left out. The master's thread alternates
between reading a frame and running the state machines (`CS101_Master_run`), a
slave answers each frame. Repeats are counted up to `MaxRepeats`, which stands for
`timeoutRepeat`. Faults of the line - a lost frame, a time-out while an answer is
under way, a busy answer - are bounded by `MaxFaults`. `late` says that a time-out
has passed an answer: frames carry no number, so the code takes such an answer for
that to the next frame, and the properties that speak of confirmations exclude it.

What the code does beside the properties: a NACK to a reset counts as success; in
balanced mode a reset leaves the primary's count bit, so that the next ASDU after a
lost acknowledgement is taken for a repeat and lost; a test of the link in
unbalanced mode always ends in an error; a slave or station that answers busy is
never asked again, and in the current turn keeps the others waiting;
`CS101_Master_sendASDU` ignores that a second ASDU is refused; an answer to an ASDU
with a wrong cause is sent twice.

## 3. What TLC checks

| Run | Question | Bounds |
|---|---|---|
| `MessageQueue` | does the ring stay consistent, implement the FIFO, and drain? | ring of 3, two ASDUs, two time stamps, k-buffer of 4 |
| `GatewayReporting` | are types right, does `mem_cur` mean reported, does a client end with the true picture? | two read points, one ragged, the other high priority and unreportable; one bus, one client, queue of 2 |
| `GatewayCommanding` | are commands kept, written once and tried; is each request answered; what does the mutex leaked by a refusal stop? | two buses, two clients, functions 05, 06 and 16, a type nobody stores; single, double, two-element, truncated, deactivated and over-full addresses, one point that refuses OFF |
| `MasterConnectionOrder` | are events lost, reordered, sent outside a data transfer; are numbers right across the wrap-around and errors noticed? | M = 4, k = w = 2, queues of 2 and 1, four events, two time stamps, one request with a reply, STARTDT and STOPDT |
| `MasterConnectionDelivery` | do events and acknowledgements get through, is w ever owed, is a silent peer noticed? | M = 4, k = w = 2, queues of 1, two events, two requests, all timers |
| `CS104Slave` | is the slave freed too early, when does a dispatch meet a destroyed queue, does an event miss a queue, do dispatch and shutdown end? | two connections, limits of 1 and 2, all three modes, queues of 1 |
| `ModbusMaster` | where do the values of the image come from, how often is a command carried out, does the image become current again, does the thread stop? | two slaves, three points, one command, one change, one fault, `time_t` of 32 and 64 bits |
| `CS101ASDU` | is what was added what is read, within the limit, and is a refusal without trace? | all sound types, three sets of parameters, three objects, single points without end (127 in a sequence) |
| `CS101` | are ASDUs confirmed only if delivered, once and in order, do the count bits agree, is everything sent? | both modes, two slaves, queues of 1, two calls, one fault, one repeat |
| `GatewayRefused` | violated: a client's refused command stops another client | one write point, two clients |
| `CS104SlaveTeardown` | violated: a dispatch only meets queues that exist | as `CS104Slave`, in the gateway's mode |
| `ModbusMasterHangs` | violated: a request ends | as `ModbusMaster`, `time_t` of 64 bits |

Why the bounds are enough to be interesting: a ring of 3 wraps, overwrites a
transmitted and an untransmitted entry, and with two time stamps meets slots that
are reused within one millisecond. `MaxStimuli` (3 to 4) bounds only what field,
network and clients do of their own; threads run without a bound. With M = 4 the
k-buffer lies across the wrap-around after three messages, and M > k + 1 is what
makes acknowledgements unambiguous, as 32768 does for k = 12. `MaxInFlight`
bounds the messages under way when the peer adds a request, `MaxTests` the tests
a live peer leaves unread when t3 expires again: without it the queue of unread
tests would grow for ever. In `MasterConnectionOrder` four events in a queue of 2 use a
slot again while the acknowledgement of its former event is due, and with two time
stamps (which are interchangeable: `TimeSymmetry`) the new event may have the same
one or not; without `Mistakable` in `NothingLost` TLC finds the coincidence. In
`MasterConnectionDelivery` two requests fill the peer's window of w = 2 while two
unacknowledged events fill the k-buffer. The bounds `MaxEvents`, `MaxRequests`, `MaxControls`
and `MaxReplies` cap what the environment asks for.

In `CS104Slave` two connections are enough for a hole in the table (the first
ends while the second is open) and for an accept while the last slot is taken. In
`ModbusMaster` one fault leaves bytes of one answer in the port, which shift every
later one until the reader is in step again: its consequences are not bounded. Two
points of one slave and one of another have answers of the same length, as late
answers need. In `CS101` one fault is any of the losses at any time, with every
repeat after it; queues of 1 are full with one ASDU. One foreign slave stands
beside one of this library, and only the latter gets calls (`Acting`).

Deadlock is checked in all runs of `Gateway`, `MessageQueue`, `CS101ASDU` and
`CS101`. The runs of `MasterConnection`, `CS104Slave` and `ModbusMaster` switch it
off: a connection, the server and a thread end.

Fairness. In `Gateway` every thread is strongly fair: the loops that compete for
a mutex sleep without holding it (30 ms in `ModbusThread`, 1 s in `main`), so a
waiting thread gets it when it is free again and again. Clients, field and
network promise nothing. In `MessageQueue` the connection thread calls
`sendWaitingASDUs` in every round and the peer acknowledges before t1; the
producer promises nothing. In `MasterConnection` the thread keeps running,
`Handleset_waitReady` reports what has arrived, t2 expires while messages are
unacknowledged and t3 while nothing arrives, and a live peer reads and
acknowledges; nothing obliges the peer to stay alive. In `CS104Slave` each thread
is strongly fair, for the same reason as in `Gateway`; that peers read is not
assumed but a premise (`PeersRead`) of the properties that need it. In
`ModbusMaster` the thread runs, its time-outs end a wait, a device answers a request
that reached it and bytes under way arrive; losses may still happen at any time.
In `CS101` frames on the line are read, the state machines run, a time-out that has
passed is acted on (strong, since a busy line may interrupt it), a balanced station
takes its next ASDU when it is free again and again, and the master's application
polls.

### What the properties show

- `FreedAfterUse`: the slave, the queues connections share and the image are freed
  after the last thread, because `openConnections` counts every thread until it is
  through with its removal and `CS104_Slave_destroy` waits for that count.
- `DestroyedOnlyByRemoval`: the lock of the table keeps the connection a dispatch
  works on in the table, and its object valid. It does not protect the queue, which
  the connection's thread frees without that lock: the dispatch may meet a freed
  queue, exactly while that thread waits to be removed (`CS104SlaveTeardown`).
- `EnqueueReturns`, `ShutdownEnds`: a peer that never reads keeps the lock of its
  queue and thereby stops the main loop, every other client and the shutdown.
  Without such a peer (`PeersRead`) a dispatch returns, if it meets no freed queue,
  after which nothing is promised; and the shutdown ends, but for a connection that
  was told to close before its thread began: that thread sets `isRunning` once more
  (`Revived`).
- `NothingLost`: only the full queue drops an event. An acknowledgement that meets a
  reused slot with the same time stamp frees an event before its own acknowledgement
  came, but only one that was sent and, while the connection lives, is on its way;
  if the connection then ends, that event is lost.
- `OnlyCommandsAreWritten`: a device is told what its function conveys of the
  latest accepted command; with function 06 a set-point above 255 loses its high
  byte (`modbus_m.c:85`).
- `StopReturns`: the thread can be stopped on a line that never leaves an answer
  incomplete, or where `time_t` has 32 bits; otherwise see `ModbusMasterHangs`.
- `InOrderOnce` is about balanced mode. In unbalanced mode `LostOnlyByFaults` and
  `FrameCountsAgree` are what is shown, and an ASDU may come twice after a reset.
- `NeverInvented`, `FreshAnswers`, `AtMostOnce`: on a line that answers in time or
  not at all a value is one the addressed registers had. On a faulty line it is
  still an answer of the same slave, function and length, but possibly that to an
  earlier request: an RTU answer names neither address nor request.
- `RequestsAnswered`, `CommandsAreTried`: the mutex leaked by a refusal stops only
  the clients that command this point and the bus it is on.
- `LostOnlyByFaults`, `FrameCountsAgree`: the slaves keep no copy of what they
  sent, so a fault costs an ASDU, but never more than one.

### Findings

- `iec104_receive_cmd` returns without unlocking when a single command is refused
  (`iec104_server.c:469`). Another client that commands the point hangs with its
  connection (`GatewayRefused`).
- A closing connection frees its queues (`cs104_slave.c:2533`) before it leaves the
  table. `CS104_Slave_enqueueASDU`, whose loop is to dispatch "to all open client
  connections", may use such a queue: it writes into freed memory or waits for a
  destroyed semaphore with the lock of the table held (`CS104SlaveTeardown`). The
  gateway runs in the mode that is exposed.
- The byte time-out that `modbus_m.c:196` calls disabled is 136 years where `time_t`
  has 64 bits: a bus with an incomplete answer is not polled any more and cannot be
  stopped (`ModbusMasterHangs`).

## 4. What is proved

For every value of the constants that satisfies the assumptions in the modules:

| Theorem | States |
|---|---|
| `GatewayProofs!TypeCorrect` | `Spec => []TypeOK` |
| `GatewayProofs!LocksCorrect` | `Spec => []LockDiscipline` |
| `GatewayProofs!CommandsCorrect` | `Spec => []CommandsAreKept` |
| `GatewayProofs!WritesCorrect` | `Spec => OnlyCommandsAreWritten`, an action property |
| `GatewayProofs!CurrentHolds` | `Spec => []CurrentMeansReported` |
| `MessageQueueProofs!TypeCorrect`, `RingCorrect` | `Spec => []TypeOK`, `Spec => []RingInv` |
| `MessageQueueProofs!RefinementHolds` | `Spec => ImplementsEventBuffer`, the refinement |
| `MasterConnectionProofs!TypeCorrect` | `Spec => []TypeOK` |
| `MasterConnectionProofs!StartedHolds` | `Spec => []OnlyWhenStarted` |
| `MasterConnectionProofs!DebtHolds` | `Spec => []AcknowledgementDebt` |
| `MasterConnectionProofs!OrderHolds` | `Spec => []InOrder` |
| `SequenceNumberProofs!NumbersHold` | `Spec => []SequenceNumbers` |
| `SequenceNumberProofs!ErrorsNoticed` | `Spec => []SequenceErrorsNoticed` |
| `SequenceNumberProofs!NothingLostHolds` | `Spec => []NothingLost` |
| `CS104SlaveProofs!TypeCorrect` | `Spec => []TypeOK` |
| `CS104SlaveProofs!FreedAfterUseHolds` | `Spec => []FreedAfterUse` |
| `CS104SlaveProofs!DestroyedOnlyHolds` | `Spec => []DestroyedOnlyByRemoval` |
| `CS104SlaveProofs!EventsReach` | `Spec => []EventsReachEveryQueue` |
| `ModbusMasterProofs!TypeCorrect` | `Spec => []TypeOK` |
| `ModbusMasterProofs!OnceHolds` | `Spec => []AtMostOnce` |
| `ModbusMasterProofs!InventedHolds` | `Spec => []NeverInvented` |
| `ModbusMasterProofs!FreshHolds` | `Spec => []FreshAnswers` |
| `CS101Proofs!RingActsAsSequence` | the ring of `CS101Queue` is the sequence the link layers use, for every size |
| `CS101Proofs!LimitsHold` | `Spec => []TypeOK` |
| `CS101Proofs!OrderedOnceHolds` | `Spec => []InOrderOnce` |
| `CS101Proofs!CountsAgree` | `Spec => []FrameCountsAgree` |
| `CS101Proofs!LossIsCounted` | `Spec => []LostOnlyByFaults` |
| `CS101Proofs!ConfirmedHolds` | `Spec => []ConfirmedIsDelivered` |
| `CS101ASDUProofs!FieldIsKept` | a field is decoded as the value it was encoded from |
| `CS101ASDUProofs!ElementsAreSound` | reader, writer, table and room of every sound type agree |
| `CS101ASDUProofs!BytesStayBytes` | `Spec => []TypeOK` |
| `CS101ASDUProofs!NeverTooLong` | `Spec => []FitsInTheASDU` |
| `CS101ASDUProofs!RefusalIsClean` | `Spec => RefusedLeavesNoTrace`, an action property |
| `CS101ASDUProofs!WhatIsAddedIsRead` | `Spec => []AddedIsRead` |

Gateway. The inductive invariant is `TypeOK /\ ControlInv /\ LockDiscipline /\
CommandsAreKept`. `ControlInv` says where a thread that holds a mutex stands (a
bus about to write is at a write point, the main loop that sends is inside its
list); without it `LockDiscipline` is not inductive, because the thread that
releases a mutex could be at another point than the one it locked.
`CommandsAreKept` rests on `OneBusAssumption`: a point belongs to one bus, so the
test of `mem_state` without the mutex is only ever outdated in the direction of a
newer command. Each invariant has one lemma per group of actions;
`WritesCorrect` follows from `CommandsAreKept` in the one step that writes.
`CurrentMeansReported` needs `ClosedInv`, that the queue of a closed connection is
empty: a client that connects starts with an empty queue, and what its queue
holds was put there while it was open.

MessageQueue. `TypeOK` and `RingInv` are inductive together. The heart is
`WalkReachesOldest`: freeing backwards from an acknowledged slot stops at the
oldest entry, so what remains is again a window. The refinement reads the window
slot by slot (`SlotPlace`); a step of the ring is an enqueue, a transmission or a
confirmation of `EventBuffer`, or leaves the window alone, and the temporal part
is one rule.

MasterConnection. `ThreadAdds` says of every step of the thread at once what it
appends to the line, what it releases from the k-buffer and what it frees in the
queue; the invariants are proved about that summary, and one step each of the
main loop and the peer. `ActivatedInv` is `OnlyWhenStarted` for the end of the line
too; `OrderInv` puts what was delivered, what is under way and what waits in one
order. For the sequence numbers, everything is measured as the distance from the
oldest number that is not acknowledged (`Acked`): such distances are at most
k + 1 < M and do not wrap, so that comparing them is comparing the k-buffer's
places. `NumbersInv` relates the k-buffer to the line, `WayInv` the peer's numbers
to both, `ServerInv` says that every acknowledgement under way from a peer that
keeps the protocol lies in the k-buffer, and `DeliveredInv` and `QueueInv` that an
entry is freed from the queue only when the peer has passed it, or when its mark or
that of a newer entry freed with it is also another event's (`Excused`): such an entry
was sent, so it was delivered or stays on its way (`OnTheWayStays`), and marks never
change (`MistakableStays`).

CS104Slave. `TableInv` says which slots are taken and that `openConnections` counts
them; `LockInv` who holds `openConnectionsLock`; `ThreadsInv` which threads are in
the table; `DispatchInv` what the cursor of a dispatch has passed while it holds the
lock. `FreedInv` says that a slave is freed only when the count is zero. The table
of slots is handled with the theorems on cardinalities. `QueueInv` says which queues are
destroyed: in the gateway's mode those of connections that are between `DestroyQueues`
and the end of their threads (`DestroyedIsRemoved`), in the other modes none before
the slave is freed; with `DispatchInv` this gives `DestroyedOnlyByRemoval`.

ModbusMaster. `AtMostOnce` follows from `executed + OnBus + Pending <= accepted`: a
command given is either still to be written, on the bus, or carried out, and
reading the answer never puts one back. For `NeverInvented` each byte on the line
knows the frame it belongs to and its place in it, and `SentInv` says of what was
read, what is in the port and what is under way together: bytes that form a
complete frame in their order end in the last byte of a frame that was sent.
Hence whatever is garbled, late or left over, a message that passes the check is
such a frame. On a timely line (`TimelyInv`) there is at most one request or
answer at a time, an answer is as long as its reader computes, and nothing is left
when the thread is done: therefore `FreshAnswers`.

CS101Queue. `Consistent` says that the newest entry is as far behind the oldest as there
are entries. The remainder is first put as "wraps once at most" (`Slot`), and places from
the oldest are compared instead of indices: enqueuing into a full ring moves the oldest
by one place, so that what was the second is now the first, and the slot that is
overwritten is none of the others (`EnqueueIsPut`, `DequeueIsRest`).

CS101. A step of the balanced mode is one of its station (`StepOf`): what it takes
from its wire (`Receives`) and what it puts on the other (`Transmits`). `OrderOn`
is about one direction. A wire is a queue, all frames of an ASDU have one count
bit and stand together, and what was given to the application is not expected
again (`NotTwice`); while the sender waits for a confirmation, that also holds for
the repeats it has yet to send (`Repeatable`). Nothing is assumed of the line:
frames may be lost and answers come late, any number of times.

The other properties speak of lines where no time-out has passed an answer
(`~late`), and the invariants have the same premise. In unbalanced mode at most one
connection waits, it is the current one, and at most one frame on the line belongs to
what it waits for (`OneLive`). The line need not be otherwise empty: a request may be
repeated although its answer was read, because a test sets the state `respond` and the
answer that it is not implemented, or a refusal, clears `waitingForResponse` but not
the state. Such a repeat has a count bit
that its slave does not expect (`RequestOK`), so that only a slave of another make
answers it, with a refusal (`AnswerOK`). `Exchange` says this of all frames at once,
and a step of the master is told as one of four kinds (`RunOf`): nothing is sent, the
turn passes, something new is sent, or something is repeated. `Accounted` counts the
answers with an ASDU by the cardinality of their places on the line. In balanced mode each station has its own exchange (`Fits`),
and a frame that is sent, read or lost in the exchange of one station does not disturb
that of the other. A test asked for while an ASDU waits would break `TestFits`: what is
repeated is then the test, and its acknowledgement is taken for the ASDU's. That is why
`ConfirmedIsDelivered` excludes it.

`LimitsHold` needs beside the types only `LimitsOK`: a queue takes an entry or the replies
to a command within its ring (`StaysShort`, `RepliesStayShort`), and only a repeat counts
one up, below its limit (`MasterLimits`, `RunWithin`).

For these proofs some definitions were put in first-order form without changing
what they say: the properties of `MasterConnection` speak of indices instead of
filtered sequences, the turn of a Modbus thread is an order on jobs instead of a
sequence, `CS101` keeps what the master received in one sequence, and constants have
the types their users assume (function codes, addresses and registers of 16 bits; the
names that stand for no thread and for the main thread are no connections).

CS101ASDU. The proof goes from small to large: a byte is put together from parts and
taken apart again, a number from bytes (`NumberIsKept`), hence a field
(`FieldIsKept`); a layout whose fields are read where they are written and whose room
is enough is sound, and so is each entry of the table that is not in `Faulty`, class by
class (`ElementsAreSound`); the contents of an object are as long as its fields and have
each of them in its place (`ContentsHold`). The inductive invariant is `HeaderHolds`,
that the three setters that share a byte leave one another's bits alone, and
`PayloadHolds`, that the payload is as long as its objects and has each of them at its
place (`StoredAt`) - in a sequence counted from the one address at its start - together
with `FitsInTheASDU`. Appending keeps what is stored (`StoredAppend`); `GetElement`
computes the place the invariant speaks of (`ElementIsRead`). The sums of sizes and the
joins of bytes are recursive functions: the library's induction is out of the prover's
reach, so a statement about all numbers is proved by looking at the least number it
fails for (`LeastElement`, from the well-foundedness of `<`), and that a recursive
definition has a function at all is proved the same way (`SumsExist`). `Elements` is one
function by cases instead of a chain of `@@`, which the prover does not know.
`RefusalIsClean` needs that no sound class answers false after it has written.

Only model-checked: liveness, since the prover has no rule for ENABLED and fairness,
and the conversions of `TimeTags`, which TLC compares over all values. The `TypeOK` of
`CS101`, `CS104Slave`, `ModbusMaster` and `CS101ASDU` are proved though no run lists them.

## 5. Not modelled

- The IEC 104 client (`cs104_connection.c`): the gateway never calls it. Its frame
  code (`cs104_frame.c`) and TLS are not modelled either.
- Of the server: choosing a redundancy group by the peer's address, the threadless
  mode, frames that TCP splits, and a server without a limit of connections
  (`CS104_Slave_setMaxOpenConnections` with 0, which the gateway never calls): its
  threads beyond the table are counted nowhere. `HasRoom` has the branch,
  `SlaveParametersAssumption` leaves the value out. Only the main thread dispatches:
  the library's answer to a clock synchronisation would do so in the thread of a
  connection, but the gateway sets no handler for it (`iec104_server.c:760` is
  commented out).
- The mutex of a point held around a dispatch: `Gateway` has the mutexes, `CS104Slave`
  the locks of the server, no module both.
- Of libmodbus: TCP, mask and combined functions of a client, the recovery modes,
  the settings of the serial port; none is used by the gateway.
- Of IEC 60870-5-101: the octets of FT 1.2 frames, broadcasts (which
  `LinkLayerPrimaryUnbalanced_sendNoReply` never sends), the idle time-out and the
  user-visible state of a secondary station, setters, and starting and stopping the
  threads.
- The conversions between registers and information objects in
  `iec104_server.c` (but for the low byte of function 06), and sizes computed in eight bits in `ext_configs.c`.
- Clock synchronisation: time is abstract in every module.
- Configuration files, logging, JSON, GPIO and the wrappers around the operating
  system: I/O and third-party code.

## 6. Plan

Done: all modules of section 2, the proofs of section 4. Every safety property that a
passing run checks is proved. Left: the hazards of `PROJECT.json` that no property covers yet.
