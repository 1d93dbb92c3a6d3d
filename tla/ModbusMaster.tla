---------------------------- MODULE ModbusMaster ----------------------------
(***************************************************************************)
(* A Modbus master of the gateway (modbus_m.c on libmodbus): the thread    *)
(* that writes the commands and polls the points of each slave over one    *)
(* serial line, down to the bytes it reads, the devices, and the main      *)
(* thread that stops it.                                                   *)
(*                                                                         *)
(* The master runs without error recovery and never flushes the line: the  *)
(* bytes of an answer that comes after the response timeout, or that a     *)
(* garbled count makes it leave, are still there when the next request is  *)
(* answered.  A "timely" line loses requests and answers but does neither. *)
(***************************************************************************)
EXTENDS ModbusFrames

CONSTANTS
  Slaves,              \* addresses of the slaves, in the order they are polled
  Reads, Writes,       \* for each of them, the sequence of its commands [fn, addr, nb]
  InitialDevice,       \* per slave, the tables of the device
  FieldValues,         \* per slave and table, values its cells take
  CommandData,         \* per function, bytes of the values written
  Lines,               \* what the line may do: subset of {"timely", "faulty"}
  TimeWidths,          \* bits of a time_t of the build: subset of {32, 64}
  GarbledValues,       \* what a garbled byte, or one of a checksum, may read as
  MaxChanges, MaxCommands, MaxFaults   \* bounds on the environment

ASSUME MasterParametersAssumption ==
  /\ Slaves \in Seq(1 .. 247)
  /\ Lines \subseteq {"timely", "faulty"} /\ TimeWidths \subseteq {32, 64}
  /\ GarbledValues \subseteq 0 .. 255
  /\ MaxChanges \in Nat /\ MaxCommands \in Nat /\ MaxFaults \in Nat

\* What the thread does for one slave, the n-th: the i-th write, the i-th read.
Job(n, phase, i) == [n |-> n, slave |-> Slaves[n], phase |-> phase, i |-> i]
JobsOf(n) == {Job(n, "write", i) : i \in DOMAIN Writes[n]}
               \union {Job(n, "read", i) : i \in DOMAIN Reads[n]}
Jobs == UNION {JobsOf(n) : n \in DOMAIN Slaves}
Points == {j \in Jobs : j.phase = "read"}
Commands == {j \in Jobs : j.phase = "write"}
CmdOf(j) == IF j.phase = "read" THEN Reads[j.n][j.i] ELSE Writes[j.n][j.i]

\* modbus_read and modbus_write know these functions; a single write is of one value.
ASSUME FunctionsAssumption ==
  /\ \A p \in Points : CmdOf(p).fn \in ReadBits \union ReadRegisters
  /\ \A c \in Commands : CmdOf(c).fn \in {5, 6, 16}
  /\ \A j \in Jobs : CmdOf(j).addr \in Words /\ CmdOf(j).nb \in Words
  /\ \A c \in Commands : CmdOf(c).fn \in WriteSingle => CmdOf(c).nb = 1

\* What the devices hold, and what is written to them.
Device == [bits : Seq({0, 1}), inputBits : Seq({0, 1}),
           registers : Seq(Words), inputRegisters : Seq(Words)]

ASSUME DevicesAssumption ==
  /\ InitialDevice \in [ToSet(Slaves) -> Device]
  /\ \A s \in ToSet(Slaves) :
       FieldValues[s].bits \subseteq {0, 1} /\ FieldValues[s].registers \subseteq Words
  /\ \A c \in Commands : \A data \in CommandData[CmdOf(c).fn] :
       data \in Seq(0 .. 255) /\ (CmdOf(c).fn \in WriteSingle => Len(data) = 2)

\* One turn of ModbusThread: per slave, the writes and then the reads.
Before(j, k) ==
  \/ j.n < k.n
  \/ j.n = k.n /\ j.phase = "write" /\ k.phase = "read"
  \/ j.n = k.n /\ j.phase = k.phase /\ j.i < k.i
Earliest(jobs) == {j \in jobs : \A k \in jobs : ~Before(k, j)}
Later(j) == {k \in Jobs : Before(j, k)}

VARIABLES
  pc, job,             \* the thread: "job", "receive", "check", "ended"; what it is at
  req,                 \* the request in progress
  msg, length_to_read, \* what was received for it, and what is still to be read
  step, function,      \* _STEP_FUNCTION, _STEP_META, _STEP_DATA; the function received
  image, mem_state,    \* memory of the points, and of the commands
  mb_thread_stop, mb_thread_run,
  mainPc,              \* "running", "stopping", "freed"
  bus,                 \* the request a device is about to answer
  wire, rx,            \* bytes of answers under way, and in the input of the port
  device,
  line, timeWidth, changes, commands, faults,
  \* history
  answered,            \* frames the devices have sent
  seen,                \* what the addressed cells have held since the request
  accepted, executed   \* per command, times it was given, and carried out

thread == <<pc, job, req, msg, length_to_read, step, function>>
memory == <<image, mem_state>>
control == <<mb_thread_stop, mb_thread_run, mainPc>>
field == <<bus, wire, rx, device>>
budget == <<line, timeWidth, changes, commands, faults>>
history == <<answered, seen, accepted, executed>>
vars == <<thread, memory, control, field, budget, history>>

NoJob == [n |-> 0, slave |-> 0, phase |-> "none", i |-> 0]
NoRequest == [by |-> NoJob, slave |-> 0, fn |-> 0, addr |-> 0, nb |-> 0, data |-> <<>>]

\* Function 06 is given one byte of the memory, the low byte of the value.
OnTheWire(j) == IF CmdOf(j).fn = 6 THEN <<0, image[j][2]>> ELSE image[j]

\* by is history: it tells what the request is for, and is not on the line.
RequestOf(j) ==
  [by |-> j, slave |-> j.slave, fn |-> CmdOf(j).fn, addr |-> CmdOf(j).addr, nb |-> CmdOf(j).nb,
   data |-> IF j.phase = "write" THEN OnTheWire(j) ELSE <<>>]

ReadBack(r) == IF r.fn \in ReadBits \union ReadRegisters
                  /\ Refusal(device[r.slave], r) = 0
                 THEN Held(device[r.slave], r) ELSE <<>>

\* A memory of the size of the values.
Zeroes(j) ==
  [i \in 1 .. IF CmdOf(j).fn \in ReadBits THEN BytesFor(CmdOf(j).nb) ELSE 2 * CmdOf(j).nb |-> 0]

Init ==
  /\ pc = "job" /\ job \in Earliest(Jobs) /\ req = NoRequest
  /\ msg = <<>> /\ length_to_read = 0 /\ step = "function" /\ function = 0
  /\ image = [j \in Points \union Commands |-> Zeroes(j)]
  /\ mem_state = [j \in Points \union Commands |-> "init"]
  /\ mb_thread_stop = FALSE /\ mb_thread_run = TRUE /\ mainPc = "running"
  /\ bus = NoRequest /\ wire = <<>> /\ rx = <<>>
  /\ device = InitialDevice
  /\ line \in Lines /\ timeWidth \in TimeWidths /\ changes = 0 /\ commands = 0 /\ faults = 0
  /\ answered = {} /\ seen = {}
  /\ accepted = [j \in Commands |-> 0] /\ executed = [j \in Commands |-> 0]

-----------------------------------------------------------------------------
(***************************************************************************)
(* The thread                                                              *)
(***************************************************************************)

\* The next command, of this slave or the next; after the last one a new turn
\* begins if the thread is not to stop.
NextJob ==
  IF Later(job) # {}
    THEN /\ job' \in Earliest(Later(job)) /\ pc' = "job"
         /\ UNCHANGED <<mb_thread_run, mb_thread_stop>>
    ELSE /\ job' \in Earliest(Jobs)
         /\ IF mb_thread_stop
              THEN pc' = "ended" /\ mb_thread_run' = FALSE /\ mb_thread_stop' = FALSE
              ELSE pc' = "job" /\ UNCHANGED <<mb_thread_run, mb_thread_stop>>

\* modbus_write: only a command that is new is written.
ToBeDone(j) == j.phase = "write" => mem_state[j] = "new"

SkipWrite ==
  /\ pc = "job" /\ ~ToBeDone(job)
  /\ NextJob
  /\ UNCHANGED <<req, msg, length_to_read, step, function, memory, mainPc, field, budget,
                 history>>

AfterWriteRetried(rc) == IF rc = -1 THEN "new" ELSE "cur"
\* A command is current whatever came of it; a point that could not be read is
\* in error and keeps its value.
AfterWrite(rc) == "cur"
AfterRead(rc, same) ==
  CASE rc = -1 -> "err"
    [] rc # -1 /\ same -> "new"
    [] OTHER -> "chg"

Finish(rc, data) ==
  /\ mem_state' = [mem_state EXCEPT ![job] =
       IF job.phase = "write" THEN AfterWrite(rc) ELSE AfterRead(rc, data = image[job])]
  /\ image' = [image EXCEPT ![job] = IF job.phase = "read" /\ rc # -1 THEN data ELSE @]
  /\ NextJob
  /\ msg' = <<>> /\ length_to_read' = 0 /\ step' = "function" /\ function' = 0
  /\ req' = NoRequest /\ seen' = {}

Fault == line = "faulty" /\ faults < MaxFaults /\ faults' = faults + 1
Loss == faults < MaxFaults /\ faults' = faults + 1

\* send_msg writes the request; the previous one may still be on its way to
\* its device, and is lost in the collision.
SendRequest ==
  /\ pc = "job" /\ ToBeDone(job)
  /\ req' = RequestOf(job) /\ bus' = RequestOf(job)
  /\ pc' = "receive" /\ msg' = <<>> /\ step' = "function"
  /\ length_to_read' = HeaderLength + 1
  /\ seen' = {ReadBack(RequestOf(job))}
  /\ UNCHANGED <<job, function, memory, control, wire, rx, device, budget, answered, accepted,
                 executed>>

\* The port does not take the request.
SendFails ==
  /\ pc = "job" /\ ToBeDone(job) /\ Loss
  /\ Finish(-1, <<>>)
  /\ UNCHANGED <<mainPc, field, line, timeWidth, changes, commands, answered, accepted, executed>>

\* The values a byte may be read as.
Reading(byte) == IF byte.v = Crc THEN GarbledValues ELSE {byte.v}

\* select finds bytes and recv reads as many as are there and are wanted.
Receive ==
  LET n == IF Len(rx) < length_to_read THEN Len(rx) ELSE length_to_read
      got == msg \o SubSeq(rx, 1, n)
      left == length_to_read - n
  IN
  /\ pc = "receive" /\ rx # <<>>
  /\ msg' = got /\ rx' = SubSeq(rx, n + 1, Len(rx))
  /\ \/ /\ left > 0
        /\ length_to_read' = left /\ UNCHANGED <<pc, step, function>>
     \/ /\ left = 0 /\ step = "function"
        /\ \E fn \in Reading(got[HeaderLength + 1]) :
             function' = fn /\ length_to_read' = MetaLength(fn)
        /\ step' = "meta" /\ UNCHANGED pc
     \/ /\ left = 0 /\ step = "meta"
        /\ \E count \in Reading(got[HeaderLength + 2]) :
             /\ length_to_read' = DataLength(function, count)
             /\ pc' = IF Len(got) + DataLength(function, count) > MaxAduLength
                        THEN "tooLong" ELSE "receive"
        /\ step' = "data" /\ UNCHANGED function
     \/ /\ left = 0 /\ step = "data"
        /\ length_to_read' = 0 /\ pc' = "check" /\ UNCHANGED <<step, function>>
  /\ UNCHANGED <<job, req, memory, control, bus, wire, device, budget, history>>

TooLong ==
  /\ pc = "tooLong"
  /\ Finish(-1, <<>>)
  /\ UNCHANGED <<mainPc, field, budget, answered, accepted, executed>>

TimeCountsUntilFirstByte == msg = <<>>   \* mutant: the sign of the byte timeout is not looked at
\* The response timeout counts until the first byte.  From then on the byte
\* timeout would count, if it is positive: (uint32_t) -1 seconds, which the
\* gateway sets to disable it, are -1 in a time_t of 32 bits, so that the
\* response timeout counts on, and 136 years, in effect no end, in one of 64.
TimeCounts == msg = <<>> \/ timeWidth = 32
Timeout ==
  /\ pc = "receive" /\ rx = <<>> /\ TimeCounts
  /\ IF bus = NoRequest /\ wire = <<>> THEN UNCHANGED faults ELSE Fault
  /\ Finish(-1, <<>>)
  /\ UNCHANGED <<mainPc, field, line, timeWidth, changes, commands, answered, accepted, executed>>

FromAnySlave == TRUE
\* check_integrity lets pass a frame of the slave asked whose checksum is
\* right, check_confirmation one with the function, the length and the
\* number of values of the request.  The address is not compared.
FromSlave == msg[1].v = req.slave
ChecksumRight == IsFrame(msg)
QuantityInBytes ==
  CASE req.fn \in ReadBits \union ReadRegisters -> msg[3].v = req.nb
    [] req.fn \in WriteMultiple -> Word(msg[5].v, msg[6].v) = req.nb
    [] OTHER -> TRUE
Quantity ==
  CASE req.fn \in ReadBits -> msg[3].v = BytesFor(req.nb)
    [] req.fn \in ReadRegisters -> msg[3].v \div 2 = req.nb
    [] req.fn \in WriteMultiple -> Word(msg[5].v, msg[6].v) = req.nb
    [] OTHER -> TRUE
Confirms ==
  /\ FromSlave /\ ChecksumRight
  /\ function < ExceptionBit /\ Len(msg) = ResponseLength(req)
  /\ function = req.fn /\ Quantity

DataWithCount(m) == [i \in 1 .. Len(m) - 5 |-> m[i + 2].v]
DataOf(m) == [i \in 1 .. Len(m) - 5 |-> m[i + 3].v]

CheckConfirmation ==
  /\ pc = "check"
  /\ IF Confirms THEN Finish(0, DataOf(msg)) ELSE Finish(-1, <<>>)
  /\ UNCHANGED <<mainPc, field, budget, answered, accepted, executed>>

ThreadStep ==
  \/ SkipWrite \/ SendRequest \/ SendFails \/ Receive \/ TooLong \/ Timeout
  \/ CheckConfirmation

-----------------------------------------------------------------------------
(***************************************************************************)
(* Stopping                                                                *)
(***************************************************************************)
Stop ==
  /\ mainPc = "running" /\ mainPc' = "stopping"
  /\ mb_thread_stop' = TRUE
  /\ UNCHANGED <<thread, memory, mb_thread_run, field, budget, history>>

\* The line is closed and everything freed when the thread has said that it
\* ended; Thread_destroy joins it.
MayFree == ~mb_thread_run
Free ==
  /\ mainPc = "stopping" /\ MayFree /\ mainPc' = "freed"
  /\ UNCHANGED <<thread, memory, mb_thread_stop, mb_thread_run, field, budget, history>>

-----------------------------------------------------------------------------
(***************************************************************************)
(* The IEC side: a command is stored, unless the thread is at it and holds *)
(* its lock.                                                               *)
(***************************************************************************)
Command(j, data) ==
  /\ mainPc = "running" /\ commands < MaxCommands
  /\ ~(pc # "job" /\ job = j)
  /\ image' = [image EXCEPT ![j] = data]
  /\ mem_state' = [mem_state EXCEPT ![j] = "new"]
  /\ commands' = commands + 1
  /\ accepted' = [accepted EXCEPT ![j] = @ + 1]
  /\ UNCHANGED <<thread, control, field, line, timeWidth, changes, faults, answered, seen,
                 executed>>

-----------------------------------------------------------------------------
(***************************************************************************)
(* The devices and the line                                                *)
(***************************************************************************)
Observe(d) == seen' = IF req = NoRequest THEN seen
                        ELSE seen \union {LET h == d[req.slave] IN
                               IF req.fn \in ReadBits \union ReadRegisters
                                  /\ Refusal(h, req) = 0
                                 THEN Held(h, req) ELSE <<>>}

\* A device carries out a request and answers.
Execute ==
  /\ bus # NoRequest /\ bus' = NoRequest
  /\ device' = [device EXCEPT ![bus.slave] = Executed(@, bus)]
  /\ executed' = [j \in Commands |-> IF j = bus.by THEN executed[j] + 1 ELSE executed[j]]
  /\ Observe(device')
  /\ UNCHANGED <<thread, memory, control, rx, line, timeWidth, changes, commands, accepted>>

Answer == Reply(device[bus.slave], bus)

Serve ==
  /\ Execute
  /\ LET answer == Answer IN wire' = wire \o Bytes(answer) /\ answered' = answered \union {answer}
  /\ UNCHANGED faults

\* The answer is lost, or one of its bytes garbled.
LoseAnswer ==
  /\ Execute /\ Loss
  /\ UNCHANGED <<wire, answered>>

GarbleAnswer ==
  /\ Execute /\ Fault
  /\ LET bytes == Bytes(Answer) IN
       \E i \in DOMAIN bytes, v \in GarbledValues :
         v # bytes[i].v /\ wire' = wire \o [bytes EXCEPT ![i].v = v]
  /\ UNCHANGED answered

LoseRequest ==
  /\ bus # NoRequest /\ Loss
  /\ bus' = NoRequest
  /\ UNCHANGED <<thread, memory, control, wire, rx, device, line, timeWidth, changes, commands,
                 history>>

\* Bytes reach the port; a part of them alone only on a faulty line.
Arrive ==
  /\ wire # <<>>
  /\ \E n \in 1 .. Len(wire) :
       /\ IF n = Len(wire) THEN UNCHANGED faults ELSE Fault
       /\ rx' = rx \o SubSeq(wire, 1, n) /\ wire' = SubSeq(wire, n + 1, Len(wire))
  /\ UNCHANGED <<thread, memory, control, bus, device, line, timeWidth, changes, commands, history>>

FieldChange ==
  /\ changes < MaxChanges /\ changes' = changes + 1
  /\ \E s \in ToSet(Slaves) : \E t \in {"bits", "registers"} :
       \E i \in DOMAIN device[s][t], v \in FieldValues[s][t] :
         /\ device[s][t][i] # v
         /\ device' = [device EXCEPT ![s][t][i] = v]
  /\ Observe(device')
  /\ UNCHANGED <<thread, memory, control, bus, wire, rx, line, timeWidth, commands, faults,
                 answered, accepted, executed>>

LineStep == Serve \/ LoseAnswer \/ GarbleAnswer \/ LoseRequest \/ Arrive \/ FieldChange

GiveCommand == \E j \in Commands : \E data \in CommandData[CmdOf(j).fn] : Command(j, data)

Next == ThreadStep \/ Stop \/ Free \/ GiveCommand \/ LineStep

Spec == Init /\ [][Next]_vars

Fairness == WF_vars(ThreadStep) /\ WF_vars(Free) /\ WF_vars(Serve) /\ WF_vars(Arrive)
FairSpec == Spec /\ Fairness

-----------------------------------------------------------------------------
(***************************************************************************)
(* Properties                                                              *)
(***************************************************************************)
\* Every variable has its type; what is received is never longer than an ADU.
TypeOK ==
  /\ pc \in {"job", "receive", "tooLong", "check", "ended"} /\ job \in Jobs
  /\ step \in {"function", "meta", "data"} /\ function \in 0 .. 255
  /\ Len(msg) <= MaxAduLength /\ length_to_read \in 0 .. 255 + ChecksumLength
  /\ mem_state \in [Points \union Commands -> {"init", "cur", "new", "chg", "err"}]
  /\ mb_thread_run \in BOOLEAN /\ mb_thread_stop \in BOOLEAN
  /\ mainPc \in {"running", "stopping", "freed"}

\* Whatever the line does - answers that come late, in pieces or garbled,
\* bytes left over that shift what is read next - a point only ever holds what
\* the device of its slave has answered to a request for as many values of the
\* same kind (check_integrity, check_confirmation).
NeverInvented ==
  \A p \in Points : image[p] # Zeroes(p) =>
    \E f \in answered :
      /\ f.slave = p.slave /\ f.fn = CmdOf(p).fn
      /\ f.body = <<Len(image[p])>> \o image[p]

\* The result of a write is ignored and the write is not repeated
\* (modbus_write): a device carries out a command at most as often as it was
\* given, however slow or lossy the line.
AtMostOnce == \A j \in Commands : executed[j] <= accepted[j]

\* On a line that answers in time or not at all, an answer that is accepted is
\* one to this request: a value the addressed cells had after it was sent,
\* although neither the address nor a number of the request is in the answer.
FreshAnswers ==
  line = "timely" /\ pc = "check" /\ Confirms /\ job \in Points => DataOf(msg) \in seen

Answerable(p) == Refusal(InitialDevice[p.slave], RequestOf(p)) = 0
Matches(p) ==
  /\ image[p] = Held(device[p.slave], [RequestOf(p) EXCEPT !.data = <<>>])
  /\ mem_state[p] \in {"new", "chg"}

\* On a timely line every point in the end agrees with its device again, after
\* the losses and the changes, as long as the gateway runs.
CurrentAgain ==
  <>[](line = "timely" /\ mainPc = "running" => \A p \in Points : Answerable(p) => Matches(p))

\* Modbus_Thread_Stop returns, and the line is closed, when the line never
\* leaves an answer incomplete or a time_t has 32 bits: then no answer keeps the
\* thread in a request for ever.
StopReturns ==
  mainPc = "stopping" /\ (line = "timely" \/ timeWidth = 32) ~> mainPc = "freed"

\* A request ends: "the full response must be read before expiration of
\* response timeout", with a byte timeout that is "disabled".  The code does
\* not do so for an answer of which a part is missing.
RequestsEnd == pc = "receive" ~> pc # "receive"
=============================================================================
