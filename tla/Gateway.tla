------------------------------ MODULE Gateway ------------------------------
(***************************************************************************)
(* The process image of the gateway (data_mem, memory.h) and the threads   *)
(* that share it:                                                          *)
(*   - one ModbusThread per serial bus (modbus_m.c) polls its slaves,      *)
(*     writes pending commands and stores what it reads;                   *)
(*   - the main loop (main.c) reports the image to the IEC 104 clients;    *)
(*   - the connection thread of each client (cs104_slave.c) transmits the  *)
(*     queued events and runs asduHandler (iec104_server.c) for its        *)
(*     commands and interrogations.                                        *)
(* Every point has a mutex of its own; a step that needs it is disabled    *)
(* while another thread holds it.  The event queue of a connection is the  *)
(* abstract buffer of EventBuffer with acknowledgements left out.          *)
(***************************************************************************)
EXTENDS Integers, Sequences

CONSTANTS
  ReadPoints, WritePoints,   \* points read from and written to the field
  Ragged,        \* read points of 8, 16, ... coils or discrete inputs
  Values,        \* the values of a point
  Zero,          \* its value before the first read or command
  Masters,       \* one Modbus master (thread) per serial bus
  Script,        \* per master, the points in the order its thread visits them
  ReadOrder,     \* the read points in the order of the IEC 104 configuration
  HighPriority,  \* read points configured with priority=hight
  SendRate,      \* iec104_send_rate_s
  Clients,
  Candidates,    \* per command address, the write points find_iec_cmd can yield
  Refused,       \* per write point, the values its ON/OFF parameters refuse
  Function,      \* per write point, its Modbus function (mb_func)
  LowByte,       \* per value, what is left of it in mem_ptr[0]
  Unreportable,  \* read points of a type iec104_create_asdu does not know
  Unstored,      \* write points of a type iec104_receive_cmd does not know
  Indeterminate, \* a double command that is neither ON nor OFF
  Main,          \* the main thread
  None,
  QueueSize,     \* maxLowPrioQueueSize
  Requests,      \* the command ASDUs clients send
  MaxStimuli     \* bound: what field, network and clients do of their own

MAX_CMD_CNT == 4
Points == ReadPoints \union WritePoints
Threads == Masters \union Clients \union {Main}
Addresses == DOMAIN Candidates
Elements == [address : Addresses, value : Values \union {Indeterminate}]
Truncated == [address |-> None, value |-> Indeterminate]   \* getElement gives NULL

MODBUS_FC_WRITE_MULTIPLE_COILS == 15
WriteFunctions == {5, 6, 16}   \* what parse_modbus_write_cmd accepts

OnTheWire(w, v) == IF Function[w] = 6 THEN LowByte[v] ELSE v

ASSUME PointsAssumption ==
  ReadPoints \intersect WritePoints = {} /\ None \notin Points /\ Ragged \subseteq ReadPoints
  /\ Unreportable \subseteq ReadPoints /\ Unstored \subseteq WritePoints
ASSUME ValuesAssumption == Zero \in Values /\ None \notin Values /\ Indeterminate \notin Values
ASSUME ScriptAssumption ==
  /\ Script \in [Masters -> Seq(Points) \ {<< >>}]
  /\ ReadOrder \in Seq(ReadPoints)
ASSUME OneBusAssumption ==   \* a point belongs to one slave, a slave to one bus
  \A m1, m2 \in Masters :
     \A i \in 1 .. Len(Script[m1]), j \in 1 .. Len(Script[m2]) :
        Script[m1][i] = Script[m2][j] => m1 = m2
ASSUME ThreadsAssumption ==
  /\ Main \notin Masters \union Clients
  /\ Masters \intersect Clients = {}
  /\ None \notin Threads
ASSUME CandidatesAssumption ==
  /\ \A a \in Addresses : Candidates[a] \in Seq(WritePoints)
  /\ Refused \in [WritePoints -> SUBSET Values]
  /\ \A w \in Unstored : Refused[w] = {}
  /\ None \notin Addresses
ASSUME FunctionAssumption ==
  Function \in [WritePoints -> WriteFunctions] /\ LowByte \in [Values -> Values]
ASSUME RequestsAssumption ==
  Requests \subseteq [cot : {"ACTIVATION", "DEACTIVATION"},
                     elements : Seq(Elements \union {Truncated})]
ASSUME BoundsAssumption == SendRate \in Nat /\ QueueSize \in Nat \ {0} /\ MaxStimuli \in Nat

VARIABLES
  \* the process image
  lock,        \* per point, the thread that holds its mutex, or None
  mem_state,   \* per point, init, cur, new, chg or err
  mem,         \* per point, the value (*mem_ptr)
  \* the field
  field,       \* per read point, the value in the device
  output,      \* per write point, the value the device was told last
  linkUp,      \* per point, whether its device answers
  \* the Modbus threads
  mb_pc, mb_at, mb_data,
  \* the main loop
  main_pc, main_pass, main_at, iec_send_timer,
  \* the connections
  session,     \* closed, open (before STARTDT) or active
  events,      \* the low-priority queue
  view,        \* what the client knows of each read point
  task, asdu, cot, at, reply,   \* asduHandler: what it runs and its locals
  \* history and bound
  commanded,   \* per write point, the accepted command not yet tried
  stimuli

image == <<lock, mem_state, mem>>
fieldVars == <<field, output, linkUp>>
mbVars == <<mb_pc, mb_at, mb_data>>
mainVars == <<main_pc, main_pass, main_at, iec_send_timer>>
connVars == <<session, events, view>>
handlerVars == <<task, asdu, cot, at, reply>>
vars == <<image, fieldVars, mbVars, mainVars, connVars, handlerVars, commanded, stimuli>>

States == {"init", "cur", "new", "chg", "err"}
Report == [value : Values, quality : {"good", "invalid"}]

Init ==
  /\ lock = [p \in Points |-> None]
  /\ mem_state = [p \in Points |-> "init"]
  /\ mem = [p \in Points |-> Zero]
  /\ field \in [ReadPoints -> Values]
  /\ output = [w \in WritePoints |-> None]
  /\ linkUp = [p \in Points |-> TRUE]
  /\ mb_pc = [m \in Masters |-> "visit"]
  /\ mb_at = [m \in Masters |-> 1]
  /\ mb_data = [m \in Masters |-> None]
  /\ main_pc = "lock" /\ main_pass = "high" /\ main_at = 1
  /\ iec_send_timer = 0
  /\ session = [c \in Clients |-> "closed"]
  /\ events = [c \in Clients |-> << >>]
  /\ view = [c \in Clients |-> [r \in ReadPoints |-> None]]
  /\ task = [c \in Clients |-> "idle"]
  /\ asdu = [c \in Clients |-> << >>]
  /\ cot = [c \in Clients |-> None]
  /\ at = [c \in Clients |-> 1]
  /\ reply = [c \in Clients |-> None]
  /\ commanded = [w \in WritePoints |-> None]
  /\ stimuli = 0

-----------------------------------------------------------------------------
(* pthread_mutex_lock and pthread_mutex_unlock on the mutex of a point.    *)
Acquire(p, t) == lock[p] = None /\ lock' = [lock EXCEPT ![p] = t]

ReleaseForgotten(p) == UNCHANGED lock   \* mutant
Release(p) == lock' = [lock EXCEPT ![p] = None]

-----------------------------------------------------------------------------
(* ModbusThread: modbus_write, then modbus_read, for every slave in turn.  *)

Visited(m) == Script[m][mb_at[m]]

AdvancePastEnd(m) ==   \* mutant: <= for < in the loop
  /\ mb_pc' = [mb_pc EXCEPT ![m] = "visit"]
  /\ mb_at' = [mb_at EXCEPT ![m] = IF @ > Len(Script[m]) THEN 1 ELSE @ + 1]
Advance(m) ==
  /\ mb_pc' = [mb_pc EXCEPT ![m] = "visit"]
  /\ mb_at' = [mb_at EXCEPT ![m] = IF @ = Len(Script[m]) THEN 1 ELSE @ + 1]

(* modbus_write looks at mem_state before it takes the mutex.              *)
PendingWhenChanged(w) == mem_state[w] = "chg"   \* mutant: the wrong state
PendingUnlessInit(w) == mem_state[w] # "init"   \* mutant: the wrong state
Pending(w) == mem_state[w] = "new"

WriteCheck(m) ==
  /\ mb_pc[m] = "visit" /\ Visited(m) \in WritePoints
  /\ IF Pending(Visited(m))
       THEN mb_pc' = [mb_pc EXCEPT ![m] = "lock"] /\ UNCHANGED mb_at
       ELSE Advance(m)
  /\ UNCHANGED <<image, fieldVars, mb_data, mainVars, connVars, handlerVars,
                 commanded, stimuli>>

WriteLock(m) ==
  /\ mb_pc[m] = "lock"
  /\ Acquire(Visited(m), m)
  /\ mb_pc' = [mb_pc EXCEPT ![m] = "write"]
  /\ UNCHANGED <<mem_state, mem, fieldVars, mb_at, mb_data, mainVars, connVars,
                 handlerVars, commanded, stimuli>>

(* The request goes out with the mutex held.  Functions 05 and 16 convey   *)
(* the value, function 06 the low byte of it (mem_ptr[0]).  The outcome is *)
(* not looked at: the command counts as done even if no answer came back   *)
(* (in which case the device may have acted on it or not).  The case of    *)
(* function 15 does nothing; no configuration can select that function.    *)
Sent(w) ==
  /\ \/ output' = [output EXCEPT ![w] = OnTheWire(w, mem[w])]
     \/ ~ linkUp[w] /\ UNCHANGED output
  /\ mem_state' = [mem_state EXCEPT ![w] = "cur"]
  /\ commanded' = [commanded EXCEPT ![w] = None]

WriteIO(m) ==
  LET w == Visited(m)
  IN  /\ mb_pc[m] = "write"
      /\ IF Function[w] = MODBUS_FC_WRITE_MULTIPLE_COILS
           THEN UNCHANGED <<output, mem_state, commanded>>
           ELSE Sent(w)
      /\ Release(w)
      /\ Advance(m)
      /\ UNCHANGED <<mem, field, linkUp, mb_data, mainVars, connVars, handlerVars,
                     stimuli>>

(* modbus_read requests the value into a buffer of its own ...             *)
ReadIO(m) ==
  LET r == Visited(m)
  IN  /\ mb_pc[m] = "visit" /\ r \in ReadPoints
      /\ mb_data' = [mb_data EXCEPT ![m] = IF linkUp[r] THEN field[r] ELSE None]
      /\ mb_pc' = [mb_pc EXCEPT ![m] = "store"]
      /\ UNCHANGED <<image, fieldVars, mb_at, mainVars, connVars, handlerVars,
                     commanded, stimuli>>

(* ... and compares it with the image under the mutex.  With a multiple of *)
(* eight bits the buffer has a byte that no answer fills: unchanged data   *)
(* may then look changed.                                                  *)
StatesAfterReadCurrent(r, data) ==   \* mutant: unchanged data taken for reported
  CASE data = None   -> {"err"}
    [] data = mem[r] -> {"cur"}
    [] OTHER         -> {"chg"}
StatesAfterRead(r, data) ==
  CASE data = None   -> {"err"}
    [] data = mem[r] -> IF r \in Ragged THEN {"new", "chg"} ELSE {"new"}
    [] OTHER         -> {"chg"}

ReadStore(m) ==
  LET r == Visited(m)
  IN  /\ mb_pc[m] = "store" /\ lock[r] = None
      /\ \E state \in StatesAfterRead(r, mb_data[m]) :
           mem_state' = [mem_state EXCEPT ![r] = state]
      /\ mem' = [mem EXCEPT ![r] = IF mb_data[m] = None THEN @ ELSE mb_data[m]]
      /\ mb_data' = [mb_data EXCEPT ![m] = None]
      /\ Advance(m)
      /\ UNCHANGED <<lock, fieldVars, mainVars, connVars, handlerVars, commanded,
                     stimuli>>

ModbusStep(m) ==
  WriteCheck(m) \/ WriteLock(m) \/ WriteIO(m) \/ ReadIO(m) \/ ReadStore(m)

-----------------------------------------------------------------------------
(* The main loop: a high pass every second, a low pass and the digital     *)
(* inputs every SendRate seconds.                                          *)

ReportOf(r) ==
  [value |-> mem[r], quality |-> IF mem_state[r] = "err" THEN "invalid" ELSE "good"]

(* A full queue gives up its oldest event.                                 *)
Push(queue, e) == Append(IF Len(queue) < QueueSize THEN queue ELSE Tail(queue), e)

(* CS104_Slave_enqueueASDU: into the queue of every open connection,       *)
(* started or not; without a connection the ASDU is dropped.               *)
EnqueueASDU(e) ==
  events' = [c \in Clients |-> IF session[c] = "closed" THEN events[c]
                                                        ELSE Push(events[c], e)]

(* The condition of iec104_send_changed_data.                              *)
DueWhenChanged(r) ==   \* mutant: the low pass leaves out unchanged data
  \/ mem_state[r] = "chg"
  \/ mem_state[r] # "init" /\ r \in HighPriority
Due(r) ==
  \/ mem_state[r] = "chg" /\ main_pass = "high"
  \/ mem_state[r] # "init" /\ r \in HighPriority
  \/ mem_state[r] # "init" /\ main_pass = "low"

MainLock ==
  /\ main_pc = "lock" /\ main_at <= Len(ReadOrder)
  /\ Acquire(ReadOrder[main_at], Main)
  /\ main_pc' = "send"
  /\ UNCHANGED <<mem_state, mem, fieldVars, mbVars, main_pass, main_at,
                 iec_send_timer, connVars, handlerVars, commanded, stimuli>>

(* iec104_create_asdu fails for a type it does not know: nothing is sent   *)
(* and the point keeps its state.                                          *)
MainSend ==
  LET r == ReadOrder[main_at]
  IN  /\ main_pc = "send"
      /\ IF Due(r) /\ r \notin Unreportable
           THEN /\ EnqueueASDU([point |-> r, report |-> ReportOf(r)])
                /\ mem_state' = [mem_state EXCEPT ![r] = IF @ = "err" THEN @ ELSE "cur"]
           ELSE UNCHANGED <<events, mem_state>>
      /\ Release(r)
      /\ main_pc' = "lock"
      /\ main_at' = main_at + 1
      /\ UNCHANGED <<mem, fieldVars, mbVars, main_pass, iec_send_timer, session,
                     view, handlerVars, commanded, stimuli>>

(* The timer is compared for equality before it is incremented; beyond     *)
(* SendRate (which it only gets when SendRate = 0) its value is of no      *)
(* consequence and is capped.                                              *)
MainEndsHighPass ==
  /\ main_pass = "high" /\ main_at > Len(ReadOrder)
  /\ main_at' = 1
  /\ IF iec_send_timer = SendRate
       THEN main_pass' = "low" /\ UNCHANGED iec_send_timer
       ELSE /\ UNCHANGED main_pass
            /\ iec_send_timer' = IF iec_send_timer > SendRate THEN iec_send_timer
                                                              ELSE iec_send_timer + 1
  /\ UNCHANGED <<image, fieldVars, mbVars, main_pc, connVars, handlerVars, commanded,
                 stimuli>>

MainEndsLowPass ==
  /\ main_pass = "low" /\ main_at > Len(ReadOrder)
  /\ EnqueueASDU([point |-> None, report |-> None])   \* iec104_send_dio
  /\ main_at' = 1 /\ main_pass' = "high" /\ iec_send_timer' = 1
  /\ UNCHANGED <<image, fieldVars, mbVars, main_pc, session, view, handlerVars,
                 commanded, stimuli>>

MainStep == MainLock \/ MainSend \/ MainEndsHighPass \/ MainEndsLowPass

-----------------------------------------------------------------------------
(* The thread of a connection transmits events between two messages of its *)
(* client and runs asduHandler for each command or interrogation.          *)

Stimulus == stimuli < MaxStimuli /\ stimuli' = stimuli + 1

Connect(c) ==
  /\ session[c] = "closed" /\ Stimulus
  /\ session' = [session EXCEPT ![c] = "open"]
  /\ UNCHANGED <<image, fieldVars, mbVars, mainVars, events, view, handlerVars, commanded>>

StartDT(c) ==
  /\ session[c] = "open"
  /\ session' = [session EXCEPT ![c] = "active"]
  /\ UNCHANGED <<image, fieldVars, mbVars, mainVars, events, view, handlerVars,
                 commanded, stimuli>>

(* The queue is destroyed with its connection.                             *)
Disconnect(c) ==
  /\ session[c] # "closed" /\ task[c] = "idle" /\ Stimulus
  /\ session' = [session EXCEPT ![c] = "closed"]
  /\ events' = [events EXCEPT ![c] = << >>]
  /\ view' = [view EXCEPT ![c] = [r \in ReadPoints |-> None]]
  /\ reply' = [reply EXCEPT ![c] = None]
  /\ UNCHANGED <<image, fieldVars, mbVars, mainVars, task, asdu, cot, at, commanded>>

Transmit(c) ==
  LET e == Head(events[c])
  IN  /\ session[c] = "active" /\ task[c] = "idle" /\ events[c] # << >>
      /\ events' = [events EXCEPT ![c] = Tail(@)]
      /\ view' = [view EXCEPT ![c] =
                    [r \in ReadPoints |-> IF r = e.point THEN e.report ELSE @[r]]]
      /\ UNCHANGED <<image, fieldVars, mbVars, mainVars, session, handlerVars,
                     commanded, stimuli>>

StartInterrogation(c) ==
  /\ session[c] = "active" /\ task[c] = "idle" /\ Stimulus
  /\ task' = [task EXCEPT ![c] = "interrogate"]
  /\ at' = [at EXCEPT ![c] = 1]
  /\ reply' = [reply EXCEPT ![c] = "ACTIVATION_CON"]
  /\ UNCHANGED <<image, fieldVars, mbVars, mainVars, connVars, asdu, cot, commanded>>

(* An interrogation of a group is confirmed negatively, one without an     *)
(* object is left to handleASDU.                                           *)
RefuseInterrogation(c) ==
  /\ session[c] = "active" /\ task[c] = "idle" /\ Stimulus
  /\ \E answer \in {"ACTIVATION_CON_NEGATIVE", "UNKNOWN_TYPE_ID"} :
       reply' = [reply EXCEPT ![c] = answer]
  /\ UNCHANGED <<image, fieldVars, mbVars, mainVars, connVars, task, asdu, cot, at,
                 commanded>>

(* interrogation_command takes the mutex of each point in turn and sends   *)
(* under it.  Its condition (state # init or state # err) excludes nothing:*)
(* a point that was never read is reported as Zero with good quality.      *)
InterrogateLock(c) ==
  /\ task[c] = "interrogate" /\ at[c] <= Len(ReadOrder)
  /\ Acquire(ReadOrder[at[c]], c)
  /\ task' = [task EXCEPT ![c] = "interrogate_send"]
  /\ UNCHANGED <<mem_state, mem, fieldVars, mbVars, mainVars, connVars, asdu, cot,
                 at, reply, commanded, stimuli>>

InterrogateSend(c) ==
  LET r == ReadOrder[at[c]]
  IN  /\ task[c] = "interrogate_send"
      /\ view' = IF r \in Unreportable THEN view
                                        ELSE [view EXCEPT ![c][r] = ReportOf(r)]
      /\ Release(r)
      /\ task' = [task EXCEPT ![c] = "interrogate"]
      /\ at' = [at EXCEPT ![c] = @ + 1]
      /\ UNCHANGED <<mem_state, mem, fieldVars, mbVars, mainVars, session, events,
                     asdu, cot, reply, commanded, stimuli>>

EndInterrogation(c) ==
  /\ task[c] = "interrogate" /\ at[c] > Len(ReadOrder)
  /\ task' = [task EXCEPT ![c] = "idle"]
  /\ at' = [at EXCEPT ![c] = 1]
  /\ reply' = [reply EXCEPT ![c] = "ACTIVATION_TERMINATION"]
  /\ UNCHANGED <<image, fieldVars, mbVars, mainVars, connVars, asdu, cot, commanded,
                 stimuli>>

StartCommand(c) ==
  /\ session[c] = "active" /\ task[c] = "idle" /\ Stimulus
  /\ task' = [task EXCEPT ![c] = "command"]
  /\ \E request \in Requests :
       /\ asdu' = [asdu EXCEPT ![c] = request.elements]
       /\ cot' = [cot EXCEPT ![c] = request.cot]
  /\ at' = [at EXCEPT ![c] = 1]
  /\ reply' = [reply EXCEPT ![c] = None]
  /\ UNCHANGED <<image, fieldVars, mbVars, mainVars, connVars, commanded>>

(* find_iec_cmd gives up when MAX_CMD_CNT or more points have the address. *)
Found(address) ==
  IF Len(Candidates[address]) >= MAX_CMD_CNT THEN << >> ELSE Candidates[address]

(* The element asduHandler is at, and the point it tries for it.           *)
Element(c) == Head(asdu[c])
Tried(c) == Found(Element(c).address)[at[c]]
Decoded(c) ==
  task[c] = "command" /\ asdu[c] # << >> /\ Element(c).address \in Addresses
Trying(c) ==
  /\ Decoded(c)
  /\ at[c] <= Len(Found(Element(c).address))

NextElement(c) ==
  /\ asdu' = [asdu EXCEPT ![c] = Tail(@)]
  /\ at' = [at EXCEPT ![c] = 1]

(* iec104_receive_cmd accepts an activation: the image gets the value, the *)
(* ASDU goes back with its cause changed, for this element and all that    *)
(* follow.  An indeterminate double command is confirmed too, and so is a  *)
(* command of a type that is not stored at all.                            *)
Stored(w, v) ==
  IF v = Indeterminate
    THEN /\ mem_state' = [mem_state EXCEPT ![w] = "err"]
         /\ UNCHANGED <<mem, commanded>>
    ELSE /\ mem_state' = [mem_state EXCEPT ![w] = "new"]
         /\ mem' = [mem EXCEPT ![w] = v]
         /\ commanded' = [commanded EXCEPT ![w] = v]

AcceptCommand(c) ==
  LET v == Element(c).value
      w == Tried(c)
  IN  /\ Trying(c) /\ cot[c] = "ACTIVATION"
      /\ lock[w] = None
      /\ v \notin Refused[w]
      /\ IF w \in Unstored THEN UNCHANGED <<mem_state, mem, commanded>>
                            ELSE Stored(w, v)
      /\ cot' = [cot EXCEPT ![c] = "ACTIVATION_CON"]
      /\ reply' = [reply EXCEPT ![c] = "ACTIVATION_CON"]
      /\ NextElement(c)
      /\ UNCHANGED <<lock, fieldVars, mbVars, mainVars, connVars, task, stimuli>>

(* A single command that the ON/OFF parameters refuse: the early return    *)
(* leaves the mutex locked, and the next candidate is tried.               *)
RefuseCommand(c) ==
  LET w == Tried(c)
  IN  /\ Trying(c) /\ cot[c] = "ACTIVATION"
      /\ Element(c).value \in Refused[w]
      /\ Acquire(w, c)
      /\ at' = [at EXCEPT ![c] = @ + 1]
      /\ UNCHANGED <<mem_state, mem, fieldVars, mbVars, mainVars, connVars, task,
                     asdu, cot, reply, commanded, stimuli>>

(* Any other cause of transmission is answered without touching the point. *)
UnknownCause(c) ==
  /\ Trying(c) /\ cot[c] # "ACTIVATION"
  /\ cot' = [cot EXCEPT ![c] = "UNKNOWN_COT"]
  /\ reply' = [reply EXCEPT ![c] = "UNKNOWN_COT"]
  /\ NextElement(c)
  /\ UNCHANGED <<image, fieldVars, mbVars, mainVars, connVars, task, commanded, stimuli>>

(* No (further) point has the address of the element.                      *)
NotFound(c) ==
  /\ Decoded(c)
  /\ at[c] > Len(Found(Element(c).address))
  /\ NextElement(c)
  /\ UNCHANGED <<image, fieldVars, mbVars, mainVars, connVars, task, cot, reply,
                 commanded, stimuli>>

(* CS101_ASDU_getElement finds no further object in the ASDU: the handler  *)
(* gives up, and handleASDU answers as if nothing had been handled.        *)
GiveUp(c) ==
  /\ task[c] = "command" /\ asdu[c] # << >> /\ ~ Decoded(c)
  /\ task' = [task EXCEPT ![c] = "idle"]
  /\ asdu' = [asdu EXCEPT ![c] = << >>]
  /\ cot' = [cot EXCEPT ![c] = None]
  /\ reply' = [reply EXCEPT ![c] = "UNKNOWN_TYPE_ID"]
  /\ UNCHANGED <<image, fieldVars, mbVars, mainVars, connVars, at, commanded, stimuli>>

(* handleASDU answers an ASDU that asduHandler did not handle.             *)
EndCommand(c) ==
  /\ task[c] = "command" /\ asdu[c] = << >>
  /\ task' = [task EXCEPT ![c] = "idle"]
  /\ cot' = [cot EXCEPT ![c] = None]
  /\ reply' = [reply EXCEPT ![c] = IF @ = None THEN "UNKNOWN_TYPE_ID" ELSE @]
  /\ UNCHANGED <<image, fieldVars, mbVars, mainVars, connVars, asdu, at, commanded, stimuli>>

HandlerStep(c) ==
  \/ InterrogateLock(c) \/ InterrogateSend(c) \/ EndInterrogation(c)
  \/ AcceptCommand(c) \/ RefuseCommand(c) \/ UnknownCause(c)
  \/ NotFound(c) \/ GiveUp(c) \/ EndCommand(c)

ClientStep(c) ==
  \/ Connect(c) \/ StartDT(c) \/ Disconnect(c)
  \/ StartInterrogation(c) \/ RefuseInterrogation(c) \/ StartCommand(c)

-----------------------------------------------------------------------------
(* The field: values change, devices stop answering and come back.         *)

FieldChange(r) ==
  /\ Stimulus
  /\ \E v \in Values \ {field[r]} : field' = [field EXCEPT ![r] = v]
  /\ UNCHANGED <<image, output, linkUp, mbVars, mainVars, connVars, handlerVars, commanded>>

LinkChange(p) ==
  /\ Stimulus
  /\ linkUp' = [linkUp EXCEPT ![p] = ~ @]
  /\ UNCHANGED <<image, field, output, mbVars, mainVars, connVars, handlerVars, commanded>>

Next ==
  \/ \E m \in Masters : ModbusStep(m)
  \/ MainStep
  \/ \E c \in Clients : HandlerStep(c) \/ Transmit(c) \/ ClientStep(c)
  \/ \E r \in ReadPoints : FieldChange(r)
  \/ \E p \in Points : LinkChange(p)

(* Every thread keeps running.  Strong fairness stands for the mutexes: a  *)
(* thread waiting for one gets it if it is free again and again, which is  *)
(* so because the loops that compete for it sleep (30 ms, 1 s) unlocked.   *)
Fairness ==
  /\ \A m \in Masters : SF_vars(ModbusStep(m))
  /\ SF_vars(MainStep)
  /\ \A c \in Clients : SF_vars(HandlerStep(c)) /\ WF_vars(Transmit(c))

Spec == Init /\ [][Next]_vars
FairSpec == Spec /\ Fairness

-----------------------------------------------------------------------------
(* The types of the variables.                                             *)
Event == [point : ReadPoints, report : Report] \union [point : {None}, report : {None}]
Owners == Threads \union {None}
Causes == {"ACTIVATION", "DEACTIVATION", "ACTIVATION_CON", "UNKNOWN_COT"}
Replies == {"ACTIVATION_CON", "ACTIVATION_CON_NEGATIVE", "ACTIVATION_TERMINATION",
            "UNKNOWN_COT", "UNKNOWN_TYPE_ID"}

ImageOK ==
  /\ lock \in [Points -> Owners]
  /\ mem_state \in [Points -> States]
  /\ mem \in [Points -> Values]

FieldOK ==
  /\ field \in [ReadPoints -> Values]
  /\ output \in [WritePoints -> Values \union {None}]
  /\ linkUp \in [Points -> BOOLEAN]

ModbusOK ==
  /\ mb_pc \in [Masters -> {"visit", "lock", "write", "store"}]
  /\ mb_at \in [Masters -> Nat]
  /\ \A m \in Masters : mb_at[m] \in 1 .. Len(Script[m])
  /\ mb_data \in [Masters -> Values \union {None}]

MainOK ==
  /\ main_pc \in {"lock", "send"} /\ main_pass \in {"high", "low"}
  /\ main_at \in 1 .. Len(ReadOrder) + 1
  /\ iec_send_timer \in 0 .. SendRate + 1

ConnectionOK ==
  /\ session \in [Clients -> {"closed", "open", "active"}]
  /\ events \in [Clients -> Seq(Event)]
  /\ view \in [Clients -> [ReadPoints -> Report \union {None}]]

HandlerOK ==
  /\ task \in [Clients -> {"idle", "interrogate", "interrogate_send", "command"}]
  /\ asdu \in [Clients -> Seq(Elements \union {Truncated})]
  /\ cot \in [Clients -> Causes \union {None}]
  /\ at \in [Clients -> Nat \ {0}]
  /\ reply \in [Clients -> Replies \union {None}]

HistoryOK ==
  /\ commanded \in [WritePoints -> Values \union {None}]
  /\ stimuli \in 0 .. MaxStimuli

TypeOK ==
  ImageOK /\ FieldOK /\ ModbusOK /\ MainOK /\ ConnectionOK /\ HandlerOK /\ HistoryOK

(* Thread t is in its critical section for point p.                        *)
Holds(t, p) ==
  \/ t \in Masters /\ mb_pc[t] = "write" /\ Visited(t) = p
  \/ t = Main /\ main_pc = "send" /\ ReadOrder[main_at] = p
  \/ t \in Clients /\ task[t] = "interrogate_send" /\ ReadOrder[at[t]] = p

(* modbus_write, iec104_send_changed_data and interrogation_command hold   *)
(* the mutex of a point exactly while they work on it; a mutex whose       *)
(* holder is elsewhere was leaked, which only happens to a command point   *)
(* that refuses a value, in the thread of a client.                        *)
LockDiscipline ==
  \A p \in Points :
     /\ \A t \in Threads : Holds(t, p) => lock[p] = t
     /\ lock[p] # None /\ ~ Holds(lock[p], p) =>
          p \in WritePoints /\ lock[p] \in Clients /\ Refused[p] # {}

(* The latest command that was accepted and not yet sent to the device is  *)
(* still in the image, and marked (it may replace an earlier one that was  *)
(* confirmed to its client and never sent).  A thread about to write a     *)
(* point writes such a command, never an old one a second time, though     *)
(* modbus_write looks at mem_state before it has the mutex.                *)
CommandsAreKept ==
  \A w \in WritePoints :
     /\ commanded[w] # None => mem[w] = commanded[w] /\ mem_state[w] \in {"new", "err"}
     /\ mem_state[w] = "new" => commanded[w] # None
     /\ \A m \in Masters :
          mb_pc[m] \in {"lock", "write"} /\ Visited(m) = w => commanded[w] # None

(* What a device is told is the latest accepted command for it, in the form*)
(* its Modbus function conveys: never an older value, never one that was   *)
(* sent already, never a value no client commanded.                        *)
OnlyCommandsAreWritten ==
  [][\A w \in WritePoints :
       output'[w] # output[w] =>
         commanded[w] # None /\ output'[w] = OnTheWire(w, commanded[w])]_vars

(* mem_cur means reported: the latest event about the point that a         *)
(* connection still has to transmit carries the present value.             *)
CurrentMeansReported ==
  \A r \in ReadPoints, c \in Clients :
     mem_state[r] = "cur" =>
       \A i \in 1 .. Len(events[c]) :
          \/ events[c][i].point # r
          \/ events[c][i].report = [value |-> mem[r], quality |-> "good"]
          \/ \E j \in i + 1 .. Len(events[c]) : events[c][j].point = r

(* When field and network are at rest, a client that stays connected and   *)
(* keeps up with its queue ends with the true picture of the field: the    *)
(* value, or invalid quality where the device does not answer.  (A point   *)
(* configured with a type that cannot be created is never reported.)       *)
(* A change hidden by a re-read before it was reported (mem_chg turned     *)
(* mem_new), an event overtaken by an interrogation, an overwritten event: *)
(* the low pass makes up for all of them.                                  *)
Truth(c, r) ==
  /\ view[c][r] # None
  /\ IF linkUp[r] THEN view[c][r] = [value |-> field[r], quality |-> "good"]
                  ELSE view[c][r].quality = "invalid"

Reported ==
  \A c \in Clients, r \in ReadPoints \ Unreportable :
     /\ <>[](session[c] = "active")
     /\ []<>(task[c] = "idle")
     /\ <>[](Len(events[c]) < QueueSize)
     => <>[]Truth(c, r)

(* A client whose own thread left no mutex locked gets its requests        *)
(* served, whatever other clients asked for.                               *)
ClientsAreIndependent ==
  \A c \in Clients :
     task[c] # "idle" /\ (\A w \in WritePoints : lock[w] # c) ~> task[c] = "idle"

(* The mutex of a point for commands is left locked by a refused command.  *)
Leaked(w) == w \in WritePoints /\ lock[w] \in Clients

(* asduHandler answers every command and interrogation, unless a refused   *)
(* command left the mutex of the very point locked it is for.              *)
RequestsAnswered ==
  \A c \in Clients :
     task[c] # "idle" ~> \/ task[c] = "idle" /\ reply[c] # None
                         \/ Trying(c) /\ Leaked(Tried(c))

(* An accepted command is sent to the device (which may not get it, or not *)
(* answer: nobody looks at the outcome), unless a double command that      *)
(* is neither ON nor OFF marks the point mem_err first, or the thread of   *)
(* its bus waits for the mutex of a point that refused a command: no other *)
(* bus suffers from that.                                                  *)
Stuck(m) == mb_pc[m] = "lock" /\ Leaked(Visited(m))
BusOf(w) == {m \in Masters : \E i \in 1 .. Len(Script[m]) : Script[m][i] = w}
CommandsAreTried ==
  \A w \in WritePoints :
     commanded[w] # None ~> \/ commanded[w] = None \/ mem_state[w] = "err"
                            \/ \E m \in BusOf(w) : Stuck(m)
=============================================================================
