------------------------- MODULE ModbusMasterProofs -------------------------
(***************************************************************************)
(* Proofs about the Modbus masters of the gateway, for any slaves, points, *)
(* commands and values, and any behaviour of the line.                     *)
(***************************************************************************)
EXTENDS ModbusMaster, SequenceTheorems, TLAPS

-----------------------------------------------------------------------------
(* What the thread is at.                                                  *)
LEMMA JobsAre ==
  /\ \A j \in Jobs : /\ j.n \in DOMAIN Slaves /\ j.slave \in ToSet(Slaves)
                     /\ j.phase \in {"read", "write"} /\ j # NoJob
  /\ Points \union Commands = Jobs /\ Points \intersect Commands = {}
  /\ ToSet(Slaves) \subseteq 1 .. 247
<1>1. Slaves \in Seq(1 .. 247)
  BY MasterParametersAssumption
<1>2. ToSet(Slaves) \subseteq 1 .. 247
  <2> DEFINE S == 1 .. 247
  <2>1. Slaves \in Seq(S)
    BY <1>1
  <2> HIDE DEF S
  <2>2. \A i \in DOMAIN Slaves : Slaves[i] \in S
    BY <2>1
  <2> QED BY <2>2 DEF ToSet, S
<1>3. ASSUME NEW j \in Jobs
      PROVE  /\ j.n \in DOMAIN Slaves /\ j.slave \in ToSet(Slaves)
             /\ j.phase \in {"read", "write"} /\ j # NoJob
  <2>1. PICK n \in DOMAIN Slaves, phase \in {"read", "write"} : \E i : j = Job(n, phase, i)
    BY DEF Jobs, JobsOf
  <2>2. j.n = n /\ j.slave = Slaves[n] /\ j.phase = phase
    BY <2>1 DEF Job
  <2>3. NoJob.phase = "none"
    BY DEF NoJob
  <2> QED BY <2>1, <2>2, <2>3 DEF ToSet
<1> QED BY <1>2, <1>3 DEF Points, Commands

-----------------------------------------------------------------------------
(* At most once.  A command that was given and not yet carried out is      *)
(* either pending in its memory or on its way to the device, never both    *)
(* for one time it was given: the request leaves the line when the device  *)
(* carries it out, and the thread, which has its lock till then, marks it  *)
(* current whatever came of it.                                            *)
ToBeWritten(j) == mem_state[j] = "new" /\ ~(pc \in {"receive", "tooLong", "check"} /\ job = j)
Pending(j) == IF ToBeWritten(j) THEN 1 ELSE 0
OnBus(j) == IF bus # NoRequest /\ bus.by = j THEN 1 ELSE 0

States == {"init", "cur", "new", "chg", "err"}

ThreadInv ==
  /\ pc \in {"job", "receive", "tooLong", "check", "ended"} /\ job \in Jobs
  /\ mem_state \in [Jobs -> States]
  /\ mb_thread_run \in BOOLEAN /\ mb_thread_stop \in BOOLEAN
  /\ mainPc \in {"running", "stopping", "freed"}

OnceInv ==
  /\ accepted \in [Commands -> Nat] /\ executed \in [Commands -> Nat]
  /\ \A j \in Commands : executed[j] + OnBus(j) + Pending(j) <= accepted[j]

(* The next job is one of the jobs.                                        *)
LEMMA NextJobOK ==
  ASSUME ThreadInv, NextJob
  PROVE  /\ job' \in Jobs /\ pc' \in {"job", "ended"}
         /\ mb_thread_run' \in BOOLEAN /\ mb_thread_stop' \in BOOLEAN
<1>1. /\ Later(job) \subseteq Jobs
      /\ Earliest(Later(job)) \subseteq Jobs /\ Earliest(Jobs) \subseteq Jobs
  BY DEF Later, Earliest
<1> QED BY <1>1 DEF NextJob, ThreadInv

(* What came of a request is written to the memory of its job.             *)
LEMMA FinishOK ==
  ASSUME ThreadInv, NEW rc, NEW data, Finish(rc, data)
  PROVE  /\ job' \in Jobs /\ pc' \in {"job", "ended"}
         /\ mb_thread_run' \in BOOLEAN /\ mb_thread_stop' \in BOOLEAN
         /\ mem_state' \in [Jobs -> States]
         /\ job \in Commands => mem_state'[job] = "cur"
         /\ \A j \in Jobs \ {job} : mem_state'[j] = mem_state[j]
<1>1. AfterWrite(rc) \in States /\ \A same : AfterRead(rc, same) \in States
  BY DEF AfterWrite, AfterRead, States
<1>2. NextJob
  BY DEF Finish
<1>3. mem_state' = [mem_state EXCEPT ![job] =
        IF job.phase = "write" THEN AfterWrite(rc) ELSE AfterRead(rc, data = image[job])]
  BY DEF Finish
<1>4. mem_state \in [Jobs -> States] /\ job \in Jobs
  BY DEF ThreadInv
<1>5. job \in Commands => job.phase = "write"
  BY DEF Commands
<1> QED BY <1>1, <1>2, <1>3, <1>4, <1>5, NextJobOK DEF AfterWrite

(* The thread starts with a job.                                           *)
LEMMA InitThread == Init => ThreadInv
<1> SUFFICES ASSUME Init PROVE ThreadInv
  OBVIOUS
<1>1. job \in Jobs
  BY DEF Init, Earliest
<1>2. mem_state \in [Jobs -> States]
  BY JobsAre DEF Init, States
<1> QED BY <1>1, <1>2 DEF Init, ThreadInv

(* The thread stays at a job, and a command in one of its states.          *)
LEMMA NextThread == ThreadInv /\ [Next]_vars => ThreadInv'
<1> SUFFICES ASSUME ThreadInv, [Next]_vars PROVE ThreadInv'
  OBVIOUS
<1> USE DEF ThreadInv
<1>1. CASE UNCHANGED vars
  BY <1>1 DEF vars, thread, memory, control
<1>2. CASE SkipWrite
  BY <1>2, NextJobOK DEF SkipWrite, memory
<1>3. CASE SendRequest
  BY <1>3 DEF SendRequest, memory, control
<1>4. CASE SendFails
  BY <1>4, FinishOK DEF SendFails
<1>5. CASE Receive
  BY <1>5 DEF Receive, memory, control
<1>6. CASE TooLong
  BY <1>6, FinishOK DEF TooLong
<1>7. CASE Timeout
  BY <1>7, FinishOK DEF Timeout
<1>8. CASE CheckConfirmation
  BY <1>8, FinishOK DEF CheckConfirmation
<1>9. CASE Stop
  BY <1>9 DEF Stop, thread, memory
<1>10. CASE Free
  BY <1>10 DEF Free, thread, memory
<1>11. CASE GiveCommand
  <2>1. PICK j \in Commands : \E data : Command(j, data)
    BY <1>11 DEF GiveCommand
  <2>2. j \in Jobs /\ "new" \in States
    BY DEF Commands, States
  <2> QED BY <2>1, <2>2 DEF Command, thread, control
<1>12. CASE LineStep
  BY <1>12 DEF LineStep, Serve, LoseAnswer, GarbleAnswer, LoseRequest, Arrive, FieldChange, Execute,
         thread, memory, control
<1> QED BY <1>1, <1>2, <1>3, <1>4, <1>5, <1>6, <1>7, <1>8, <1>9, <1>10, <1>11, <1>12
        DEF Next, ThreadStep

(* At the start nothing was given, sent or carried out.                    *)
LEMMA InitOnce == Init => OnceInv
<1> SUFFICES ASSUME Init PROVE OnceInv
  OBVIOUS
<1>1. \A j \in Commands : mem_state[j] = "init"
  BY DEF Init
<1> QED BY <1>1 DEF Init, OnceInv, OnBus, Pending, ToBeWritten

(* A request that is finished, or was not sent, is not pending any more.   *)
LEMMA FinishOnce ==
  ASSUME ThreadInv, OnceInv, NEW rc, NEW data, Finish(rc, data),
         UNCHANGED <<bus, accepted, executed>>
  PROVE  OnceInv'
<1> SUFFICES ASSUME NEW j \in Commands
             PROVE  executed'[j] + OnBus(j)' + Pending(j)' <= accepted'[j]
  BY DEF OnceInv
<1>1. OnBus(j)' = OnBus(j) /\ OnBus(j) \in {0, 1}
  BY DEF OnBus
<1>2. Pending(j)' <= Pending(j) /\ Pending(j) \in {0, 1} /\ Pending(j)' \in {0, 1}
  <2>1. CASE j = job
    BY <2>1, FinishOK DEF Pending, ToBeWritten
  <2>2. CASE j # job
    <3>1. j \in Jobs \ {job}
      BY <2>2 DEF Commands
    <3>2. mem_state'[j] = mem_state[j]
      BY <3>1, FinishOK
    <3> QED BY <2>2, <3>2 DEF Pending, ToBeWritten
  <2> QED BY <2>1, <2>2
<1>3. /\ executed[j] \in Nat /\ accepted[j] \in Nat
      /\ executed[j] + OnBus(j) + Pending(j) <= accepted[j]
  BY DEF OnceInv
<1> QED BY <1>1, <1>2, <1>3

(* A device carries out the request on the line, or it is lost.            *)
LEMMA LineOnce ==
  ASSUME ThreadInv, OnceInv, LineStep
  PROVE  OnceInv'
<1>1. UNCHANGED <<pc, job, mem_state, accepted>>
  BY DEF LineStep, Serve, LoseAnswer, GarbleAnswer, LoseRequest, Arrive, FieldChange, Execute,
         thread, memory, history
<1>2. \A j \in Commands : Pending(j)' = Pending(j)
  BY <1>1 DEF Pending, ToBeWritten
<1>3. CASE Execute
  <2>1. \A j \in Commands : OnBus(j)' = 0 /\ executed'[j] = executed[j] + OnBus(j)
    BY <1>3 DEF Execute, OnBus, OnceInv
  <2>2. executed' \in [Commands -> Nat]
    BY <1>3 DEF Execute, OnceInv
  <2> HIDE DEF OnBus, Pending
  <2>3. \A j \in Commands : executed[j] \in Nat /\ OnBus(j) \in {0, 1} /\ Pending(j) \in {0, 1}
    BY DEF OnceInv, OnBus, Pending
  <2> QED BY <1>1, <1>2, <2>1, <2>2, <2>3 DEF OnceInv
<1>4. CASE LoseRequest \/ Arrive \/ FieldChange
  <2>1. UNCHANGED executed /\ (UNCHANGED bus \/ bus' = NoRequest)
    BY <1>4 DEF LoseRequest, Arrive, FieldChange, history
  <2>2. \A j \in Commands : OnBus(j)' <= OnBus(j) /\ OnBus(j)' \in {0, 1} /\ OnBus(j) \in {0, 1}
    BY <2>1 DEF OnBus
  <2>3. \A j \in Commands : executed[j] \in Nat /\ accepted[j] \in Nat /\ Pending(j) \in {0, 1}
    BY DEF OnceInv, Pending
  <2> QED BY <1>1, <1>2, <2>1, <2>2, <2>3 DEF OnceInv
<1> QED BY <1>3, <1>4 DEF LineStep, Serve, LoseAnswer, GarbleAnswer

(* No step carries a command out more often than it was given.             *)
LEMMA NextOnce == ThreadInv /\ OnceInv /\ [Next]_vars => OnceInv'
<1> SUFFICES ASSUME ThreadInv, OnceInv, [Next]_vars PROVE OnceInv'
  OBVIOUS
<1>1. CASE UNCHANGED vars \/ Stop \/ Free
  BY <1>1 DEF vars, thread, memory, field, history, Stop, Free, OnceInv, OnBus, Pending, ToBeWritten
<1>2. CASE SkipWrite
  <2>1. pc' \in {"job", "ended"} /\ pc = "job" /\ UNCHANGED <<mem_state, bus, accepted, executed>>
    BY <1>2, NextJobOK DEF SkipWrite, memory, field, history
  <2> QED BY <2>1 DEF OnceInv, OnBus, Pending, ToBeWritten
<1>3. CASE SendRequest
  <2>1. /\ pc = "job" /\ pc' = "receive" /\ UNCHANGED <<job, mem_state, accepted, executed>>
        /\ bus' = RequestOf(job) /\ bus'.by = job
        /\ job \in Commands => mem_state[job] = "new"
    BY <1>3 DEF SendRequest, memory, RequestOf, ToBeDone, Commands
  <2>2. \A j \in Commands : OnBus(j)' + Pending(j)' <= Pending(j) + OnBus(j)
    BY <2>1 DEF OnBus, Pending, ToBeWritten
  <2>3. \A j \in Commands : /\ executed[j] \in Nat /\ accepted[j] \in Nat
                            /\ OnBus(j) \in {0, 1} /\ Pending(j) \in {0, 1}
                            /\ OnBus(j)' \in {0, 1} /\ Pending(j)' \in {0, 1}
    BY DEF OnceInv, OnBus, Pending
  <2> QED BY <2>1, <2>2, <2>3 DEF OnceInv
<1>4. CASE SendFails
  BY <1>4, FinishOnce DEF SendFails, field
<1>5. CASE Receive
  <2>1. /\ pc = "receive" /\ pc' \in {"receive", "tooLong", "check"}
        /\ UNCHANGED <<job, mem_state, bus, accepted, executed>>
    BY <1>5 DEF Receive, memory, history
  <2> QED BY <2>1 DEF OnceInv, OnBus, Pending, ToBeWritten
<1>6. CASE TooLong
  BY <1>6, FinishOnce DEF TooLong, field
<1>7. CASE Timeout
  BY <1>7, FinishOnce DEF Timeout, field
<1>8. CASE CheckConfirmation
  BY <1>8, FinishOnce DEF CheckConfirmation, field
<1>9. CASE GiveCommand
  <2>1. PICK k \in Commands : \E data : Command(k, data)
    BY <1>9 DEF GiveCommand
  <2>2. /\ UNCHANGED <<pc, job, bus, executed>>
        /\ mem_state' = [mem_state EXCEPT ![k] = "new"]
        /\ accepted' = [accepted EXCEPT ![k] = @ + 1]
    BY <2>1 DEF Command, thread, field
  <2>3. \A j \in Commands : /\ OnBus(j)' = OnBus(j)
                            /\ Pending(j)' <= Pending(j) + (IF j = k THEN 1 ELSE 0)
    BY <2>2, JobsAre DEF OnBus, Pending, ToBeWritten, ThreadInv
  <2>4. \A j \in Commands : accepted'[j] = accepted[j] + (IF j = k THEN 1 ELSE 0)
    BY <2>2 DEF OnceInv
  <2>5. \A j \in Commands : /\ executed[j] \in Nat /\ accepted[j] \in Nat
                            /\ OnBus(j) \in {0, 1} /\ Pending(j) \in {0, 1} /\ Pending(j)' \in {0, 1}
    BY DEF OnceInv, OnBus, Pending
  <2>6. accepted' \in [Commands -> Nat]
    BY <2>2 DEF OnceInv
  <2> QED BY <2>2, <2>3, <2>4, <2>5, <2>6 DEF OnceInv
<1>10. CASE LineStep
  BY <1>10, LineOnce
<1> QED BY <1>1, <1>2, <1>3, <1>4, <1>5, <1>6, <1>7, <1>8, <1>9, <1>10 DEF Next, ThreadStep

(* A device carries out a command at most as often as it was given.        *)
THEOREM OnceHolds == Spec => []AtMostOnce
<1>1. ThreadInv /\ OnceInv => AtMostOnce
  <2> SUFFICES ASSUME OnceInv, NEW j \in Commands PROVE executed[j] <= accepted[j]
    BY DEF AtMostOnce
  <2>1. /\ executed[j] \in Nat /\ accepted[j] \in Nat
        /\ executed[j] + OnBus(j) + Pending(j) <= accepted[j]
    BY DEF OnceInv
  <2>2. OnBus(j) \in {0, 1} /\ Pending(j) \in {0, 1}
    BY DEF OnBus, Pending
  <2> QED BY <2>1, <2>2
<1> QED BY <1>1, InitThread, NextThread, InitOnce, NextOnce, PTL DEF Spec

-----------------------------------------------------------------------------
(* Requests and answers.                                                   *)
ByteValue == 0 .. 255

Request == [by : Jobs, slave : ToSet(Slaves), fn : {1, 2, 3, 4, 5, 6, 16},
            addr : Words, nb : Words, data : Seq(ByteValue)]

(* A request for a point or a command of the configuration.                *)
RequestOK(r) ==
  /\ r \in Request
  /\ r.slave = r.by.slave /\ r.fn = CmdOf(r.by).fn /\ r.nb = CmdOf(r.by).nb
  /\ r.by \in Points => r.fn \in ReadBits \union ReadRegisters
  /\ r.fn \in WriteSingle => r.nb = 1 /\ Len(r.data) = 2

Frame == [slave : 1 .. 247, fn : ByteValue, body : Seq(ByteValue)]

(* An answer with values begins with their number of bytes.                *)
Counted(f) ==
  f.fn \in ReadBits \union ReadRegisters => Len(f.body) >= 1 /\ f.body[1] = Len(f.body) - 1

(* The ranges of bytes and words, without their members.                   *)
LEMMA ByteValues ==
  /\ \A b : b \in ByteValue <=> b \in Int /\ 0 <= b /\ b <= 255
  /\ \A w : w \in Words <=> w \in Int /\ 0 <= w /\ w <= MaxWord
  /\ MaxWord \in Nat /\ MaxWord = 65535
<1>1. MaxWord \in Nat
  BY DEF MaxWord
<1>2. \A b : b \in ByteValue <=> b \in Int /\ 0 <= b /\ b <= 255
  BY DEF ByteValue
<1>3. \A w : w \in Words <=> w \in Int /\ 0 <= w /\ w <= MaxWord
  BY <1>1 DEF Words
<1>4. MaxWord = 65535
  BY DEF MaxWord
<1> QED BY <1>1, <1>2, <1>3, <1>4

(* The tables and limits of the functions.                                 *)
LEMMA Tables ==
  /\ \A fn \in {1, 5} : TableOf(fn) = "bits"
  /\ TableOf(2) = "inputBits" /\ TableOf(4) = "inputRegisters"
  /\ \A fn \in {3, 6, 16} : TableOf(fn) = "registers"
  /\ \A fn \in ReadBits : MaxNb(fn) = 2000
  /\ \A fn \in ReadRegisters : MaxNb(fn) = 125
BY DEF TableOf, MaxNb, ReadBits, ReadRegisters

Eight(b0, b1, b2, b3, b4, b5, b6, b7) ==
  b0 + 2 * b1 + 4 * b2 + 8 * b3 + 16 * b4 + 32 * b5 + 64 * b6 + 128 * b7

(* Eight bits make a number below 256.                                     *)
LEMMA EightBits ==
  ASSUME NEW b0 \in {0, 1}, NEW b1 \in {0, 1}, NEW b2 \in {0, 1}, NEW b3 \in {0, 1},
         NEW b4 \in {0, 1}, NEW b5 \in {0, 1}, NEW b6 \in {0, 1}, NEW b7 \in {0, 1}
  PROVE  Eight(b0, b1, b2, b3, b4, b5, b6, b7) \in ByteValue
<1>1. \A b : b \in {0, 1} => b \in Int /\ 0 <= b /\ b <= 1
  OBVIOUS
<1> QED BY <1>1, ByteValues DEF Eight

(* Eight bits make a byte.                                                 *)
LEMMA PackBitsType ==
  ASSUME NEW bits \in Seq({0, 1})
  PROVE  PackBits(bits) \in Seq(ByteValue) /\ Len(PackBits(bits)) = BytesFor(Len(bits))
<1> DEFINE At(i, b) == LET j == 8 * (i - 1) + b + 1 IN IF j <= Len(bits) THEN bits[j] ELSE 0
           Packed(i) == At(i, 0) + 2 * At(i, 1) + 4 * At(i, 2) + 8 * At(i, 3)
                          + 16 * At(i, 4) + 32 * At(i, 5) + 64 * At(i, 6) + 128 * At(i, 7)
           n == BytesFor(Len(bits))
<1>1. \A i \in 1 .. n, b \in 0 .. 7 : At(i, b) \in {0, 1}
  <2> TAKE i \in 1 .. n, b \in 0 .. 7
  <2>1. 8 * (i - 1) + b + 1 \in Nat \ {0}
    OBVIOUS
  <2> QED BY <2>1
<1>2. n \in Nat
  BY DEF BytesFor
<1> HIDE DEF At, n
<1>3. \A i \in 1 .. n : Packed(i) \in ByteValue
  <2> TAKE i \in 1 .. n
  <2>1. /\ At(i, 0) \in {0, 1} /\ At(i, 1) \in {0, 1} /\ At(i, 2) \in {0, 1}
        /\ At(i, 3) \in {0, 1} /\ At(i, 4) \in {0, 1} /\ At(i, 5) \in {0, 1}
        /\ At(i, 6) \in {0, 1} /\ At(i, 7) \in {0, 1}
    BY <1>1
  <2>2. Packed(i) = Eight(At(i, 0), At(i, 1), At(i, 2), At(i, 3),
                          At(i, 4), At(i, 5), At(i, 6), At(i, 7))
    BY DEF Eight
  <2> HIDE DEF Packed
  <2> QED BY <2>1, <2>2, EightBits
<1>4. PackBits(bits) = [i \in 1 .. n |-> Packed(i)]
  BY DEF PackBits, At, n
<1> HIDE DEF Packed, ByteValue
<1>5. [i \in 1 .. n |-> Packed(i)] \in [1 .. n -> ByteValue]
  BY <1>3
<1> QED BY <1>2, <1>4, <1>5 DEF n

(* Two bytes make a register.                                              *)
LEMMA PackRegistersType ==
  ASSUME NEW words \in Seq(Words)
  PROVE  PackRegisters(words) \in Seq(ByteValue) /\ Len(PackRegisters(words)) = 2 * Len(words)
<1> DEFINE n == 2 * Len(words)
           Packed(i) == IF i % 2 = 1 THEN Hi(words[(i + 1) \div 2]) ELSE Lo(words[i \div 2])
<1>1. n \in Nat
  OBVIOUS
<1>2. \A i \in 1 .. n : Packed(i) \in ByteValue
  <2> TAKE i \in 1 .. n
  <2>1. i % 2 = 1 => (i + 1) \div 2 \in 1 .. Len(words)
    OBVIOUS
  <2>2. i % 2 # 1 => i \div 2 \in 1 .. Len(words)
    OBVIOUS
  <2>3. \A k \in 1 .. Len(words) : words[k] \in Words
    OBVIOUS
  <2>4. \A w \in Words : Hi(w) \in ByteValue /\ Lo(w) \in ByteValue
    BY ByteValues DEF Hi, Lo
  <2> QED BY <2>1, <2>2, <2>3, <2>4
<1>3. PackRegisters(words) = [i \in 1 .. n |-> Packed(i)]
  BY DEF PackRegisters
<1> HIDE DEF Packed, ByteValue
<1>4. [i \in 1 .. n |-> Packed(i)] \in [1 .. n -> ByteValue]
  BY <1>2
<1> HIDE DEF n
<1>5. PackRegisters(words) \in Seq(ByteValue) /\ Len(PackRegisters(words)) = n
  BY <1>1, <1>3, <1>4
<1> QED BY <1>5 DEF n

(* The cells of a request that are there.                                  *)
LEMMA CellsType ==
  ASSUME NEW S, NEW table \in Seq(S), NEW addr \in Nat, NEW nb \in Nat,
         addr + nb <= Len(table)
  PROVE  /\ SubSeq(table, addr + 1, addr + nb) \in Seq(S)
         /\ Len(SubSeq(table, addr + 1, addr + nb)) = nb
<1>1. \A i \in addr + 1 .. addr + nb : table[i] \in S
  OBVIOUS
<1> QED BY <1>1, SubSeqProperties

(* A request for a point or a command: what it reads, or writes.           *)
LEMMA RequestFacts ==
  ASSUME NEW r, RequestOK(r)
  PROVE  /\ r.slave \in 1 .. 247 /\ r.addr \in Words /\ r.nb \in Words /\ r.data \in Seq(ByteValue)
         /\ r.by \in Jobs
         /\ \/ r.fn \in ReadBits \union ReadRegisters
            \/ r.fn \in WriteSingle /\ r.nb = 1 /\ Len(r.data) = 2
            \/ r.fn = 16
<1> HIDE DEF ByteValue
<1>1. r \in Request /\ (r.fn \in WriteSingle => r.nb = 1 /\ Len(r.data) = 2)
  BY DEF RequestOK
<1>2. r.slave \in ToSet(Slaves) /\ ToSet(Slaves) \subseteq 1 .. 247
  BY <1>1, JobsAre DEF Request
<1> QED BY <1>1, <1>2 DEF Request, ReadBits, ReadRegisters, WriteSingle

(* A request of the gateway is refused for its address or value only.      *)
LEMMA RefusalIs ==
  ASSUME NEW dev, NEW r, RequestOK(r)
  PROVE  /\ Refusal(dev, r) \in {0, IllegalAddress, IllegalValue}
         /\ Refusal(dev, r) = 0 =>
              /\ r.addr + r.nb <= Len(dev[TableOf(r.fn)])
              /\ r.fn = 16 => Len(r.data) = 2 * r.nb
              /\ r.fn \in ReadBits \union ReadRegisters => r.nb \in 1 .. MaxNb(r.fn)
<1> HIDE DEF ByteValue
<1>1. r.fn \in Functions
  BY RequestFacts DEF Functions, WriteMultiple
<1>2. /\ r.fn \in WriteSingle => r.fn \notin WriteMultiple
      /\ r.fn = 16 => r.fn \in Functions \ WriteSingle /\ r.fn \notin {5, 6, 15}
      /\ r.fn \in ReadBits \union ReadRegisters =>
           r.fn \in Functions \ WriteSingle /\ r.fn \notin {5, 6, 15, 16}
  BY <1>1 DEF Functions, ReadBits, ReadRegisters, WriteSingle, WriteMultiple
<1>3. /\ r.fn = 16 /\ ValueInRange(r) => Len(r.data) = 2 * r.nb
      /\ r.fn \in ReadBits \union ReadRegisters /\ ValueInRange(r) => r.nb \in 1 .. MaxNb(r.fn)
  <2>1. ASSUME r.fn = 16, ValueInRange(r) PROVE Len(r.data) = 2 * r.nb
    BY <1>2, <2>1 DEF ValueInRange
  <2>2. ASSUME r.fn \in ReadBits \union ReadRegisters, ValueInRange(r)
        PROVE  r.nb \in 1 .. MaxNb(r.fn)
    <3>1. r.fn # 5 /\ r.fn # 6 /\ r.fn # 15 /\ r.fn # 16
      BY <1>2, <2>2
    <3> QED BY <2>2, <3>1, Zenon DEF ValueInRange
  <2> QED BY <2>1, <2>2
<1>4. AddressInRange(dev, r) => r.addr + r.nb <= Len(dev[TableOf(r.fn)])
  BY DEF AddressInRange
<1> HIDE DEF Functions, WriteSingle
<1> QED BY <1>1, <1>2, <1>3, <1>4 DEF Refusal, IllegalFunction, IllegalAddress, IllegalValue

(* What is held at an address: as many bytes as the answer is expected to  *)
(* have, and few enough to be counted in one.                              *)
LEMMA HeldType ==
  ASSUME NEW dev \in Device, NEW r, RequestOK(r), Refusal(dev, r) = 0,
         r.fn \in ReadBits \union ReadRegisters
  PROVE  /\ Held(dev, r) \in Seq(ByteValue) /\ Len(Held(dev, r)) \in ByteValue
         /\ Len(Held(dev, r)) <= 250
         /\ Len(Held(dev, r)) = IF r.fn \in ReadBits THEN BytesFor(r.nb) ELSE 2 * r.nb
         /\ r.nb \in Nat
<1>0. /\ r.addr \in Words /\ r.nb \in Words /\ r.nb \in 1 .. MaxNb(r.fn)
      /\ r.addr + r.nb <= Len(dev[TableOf(r.fn)])
  BY RequestFacts, RefusalIs
<1>1. /\ r.addr \in Nat /\ r.nb \in Nat /\ 1 <= r.nb
      /\ r.addr + r.nb <= Len(dev[TableOf(r.fn)])
      /\ MaxNb(r.fn) \in Int => r.nb <= MaxNb(r.fn)
  BY <1>0, ByteValues
<1>2. CASE r.fn \in ReadBits
  <2>1. dev[TableOf(r.fn)] \in Seq({0, 1}) /\ MaxNb(r.fn) = 2000
    BY <1>2, Tables DEF Device, ReadBits
  <2>2. Cells(dev, r) \in Seq({0, 1}) /\ Len(Cells(dev, r)) = r.nb
    <3> DEFINE S == {0, 1}
               table == dev[TableOf(r.fn)]
    <3>1. table \in Seq(S) /\ r.addr \in Nat /\ r.nb \in Nat /\ r.addr + r.nb <= Len(table)
      BY <1>1, <2>1
    <3> HIDE DEF S, table
    <3>2. /\ SubSeq(table, r.addr + 1, r.addr + r.nb) \in Seq(S)
          /\ Len(SubSeq(table, r.addr + 1, r.addr + r.nb)) = r.nb
      BY <3>1, CellsType
    <3> QED BY <3>2 DEF Cells, S, table
  <2>3. BytesFor(r.nb) \in ByteValue /\ BytesFor(r.nb) <= 250
    <3>1. ASSUME NEW n \in Nat, n <= 2000
          PROVE  BytesFor(n) \in Nat /\ BytesFor(n) <= 250
      BY <3>1 DEF BytesFor
    <3>2. r.nb \in Nat /\ r.nb <= 2000
      BY <1>1, <2>1
    <3>3. BytesFor(r.nb) \in Nat /\ BytesFor(r.nb) <= 250
      BY <3>1, <3>2
    <3> QED BY <3>3, ByteValues
  <2> QED BY <1>1, <1>2, <2>2, <2>3, PackBitsType DEF Held
<1>3. CASE r.fn \in ReadRegisters
  <2>1. /\ dev[TableOf(r.fn)] \in Seq(Words) /\ MaxNb(r.fn) = 125
        /\ r.fn \notin ReadBits
    BY <1>3, Tables DEF Device, ReadBits, ReadRegisters
  <2>2. Cells(dev, r) \in Seq(Words) /\ Len(Cells(dev, r)) = r.nb
    <3> DEFINE S == Words
               table == dev[TableOf(r.fn)]
    <3>1. table \in Seq(S) /\ r.addr \in Nat /\ r.nb \in Nat /\ r.addr + r.nb <= Len(table)
      BY <1>1, <2>1
    <3> HIDE DEF S, table
    <3>2. /\ SubSeq(table, r.addr + 1, r.addr + r.nb) \in Seq(S)
          /\ Len(SubSeq(table, r.addr + 1, r.addr + r.nb)) = r.nb
      BY <3>1, CellsType
    <3> QED BY <3>2 DEF Cells, S, table
  <2>3. 2 * r.nb \in ByteValue /\ 2 * r.nb <= 250
    <3>1. \A n \in Nat : n <= 125 => 2 * n \in ByteValue /\ 2 * n <= 250
      BY ByteValues
    <3> QED BY <1>1, <2>1, <3>1
  <2> QED BY <1>1, <2>1, <2>2, <2>3, PackRegistersType DEF Held
<1> QED BY <1>2, <1>3

(* An answer is a frame, and tells how many bytes of values it has.        *)
LEMMA ReplyType ==
  ASSUME NEW dev \in Device, NEW r, RequestOK(r)
  PROVE  Reply(dev, r) \in Frame /\ Counted(Reply(dev, r))
<1> HIDE DEF ByteValue
<1> DEFINE f == Reply(dev, r)
<1>1. CASE Refusal(dev, r) # 0
  <2>1. f = [slave |-> r.slave, fn |-> r.fn + 128, body |-> <<Refusal(dev, r)>>]
    BY <1>1 DEF Reply, Exception, ExceptionBit
  <2>2. Refusal(dev, r) \in {2, 3}
    BY <1>1, RefusalIs DEF IllegalAddress, IllegalValue
  <2>3. r.fn \in {1, 2, 3, 4, 5, 6, 16} /\ r.slave \in 1 .. 247
    BY RequestFacts DEF ReadBits, ReadRegisters, WriteSingle
  <2>4. r.fn + 128 \in ByteValue /\ Refusal(dev, r) \in ByteValue
    BY <2>2, <2>3, ByteValues
  <2>5. r.fn + 128 \notin ReadBits \union ReadRegisters
    BY <2>3 DEF ReadBits, ReadRegisters
  <2> QED BY <2>1, <2>3, <2>4, <2>5 DEF Frame, Counted
<1>2. CASE Refusal(dev, r) = 0 /\ r.fn \in ReadBits \union ReadRegisters
  <2> DEFINE held == Held(dev, r)
  <2>1. f = [slave |-> r.slave, fn |-> r.fn, body |-> <<Len(held)>> \o held]
    <3>1. Reply(dev, r) = [slave |-> r.slave, fn |-> r.fn,
                           body |->
                             CASE r.fn \in ReadBits \union ReadRegisters -> <<Len(held)>> \o held
                               [] r.fn \in WriteSingle -> <<Hi(r.addr), Lo(r.addr)>> \o r.data
                               [] OTHER -> <<Hi(r.addr), Lo(r.addr), Hi(r.nb), Lo(r.nb)>>]
      BY <1>2 DEF Reply
    <3>2. \A a, b, c : (CASE r.fn \in ReadBits \union ReadRegisters -> a
                          [] r.fn \in WriteSingle -> b [] OTHER -> c) = a
      BY <1>2 DEF ReadBits, ReadRegisters, WriteSingle
    <3> QED BY <3>1, <3>2
  <2>2. held \in Seq(ByteValue) /\ Len(held) \in ByteValue
    BY <1>2, HeldType
  <2>3. r.fn \in ByteValue /\ r.slave \in 1 .. 247
    <3>1. r.fn \in {1, 2, 3, 4}
      BY <1>2 DEF ReadBits, ReadRegisters
    <3>2. r.fn \in ByteValue
      BY <3>1, ByteValues
    <3> QED BY <3>2, RequestFacts
  <2> HIDE DEF f, held
  <2>4. /\ <<Len(held)>> \o held \in Seq(ByteValue) /\ Len(<<Len(held)>> \o held) = Len(held) + 1
        /\ (<<Len(held)>> \o held)[1] = Len(held) /\ Len(held) \in Nat
    BY <2>2
  <2> QED BY <2>1, <2>3, <2>4 DEF Frame, Counted, f
<1>3. CASE Refusal(dev, r) = 0 /\ r.fn \in WriteSingle
  <2>1. r.fn \notin ReadBits \union ReadRegisters /\ r.fn \in ByteValue
    BY <1>3, ByteValues DEF ReadBits, ReadRegisters, WriteSingle
  <2>2. f = [slave |-> r.slave, fn |-> r.fn, body |-> <<Hi(r.addr), Lo(r.addr)>> \o r.data]
    BY <1>3, <2>1 DEF Reply
  <2>3. Hi(r.addr) \in ByteValue /\ Lo(r.addr) \in ByteValue
    BY RequestFacts, ByteValues DEF Hi, Lo
  <2>4. <<Hi(r.addr), Lo(r.addr)>> \o r.data \in Seq(ByteValue)
    BY <2>3, RequestFacts
  <2> QED BY <2>1, <2>2, <2>4, RequestFacts DEF Frame, Counted
<1>4. CASE Refusal(dev, r) = 0 /\ r.fn = 16
  <2>1. r.fn \notin ReadBits \union ReadRegisters /\ r.fn \in ByteValue /\ r.fn \notin WriteSingle
    BY <1>4, ByteValues DEF ReadBits, ReadRegisters, WriteSingle
  <2>2. f = [slave |-> r.slave, fn |-> r.fn,
             body |-> <<Hi(r.addr), Lo(r.addr), Hi(r.nb), Lo(r.nb)>>]
    BY <1>4, <2>1 DEF Reply
  <2>3. /\ Hi(r.addr) \in ByteValue /\ Lo(r.addr) \in ByteValue
        /\ Hi(r.nb) \in ByteValue /\ Lo(r.nb) \in ByteValue
    <3>1. \A w \in Words : Hi(w) \in ByteValue /\ Lo(w) \in ByteValue
      BY ByteValues DEF Hi, Lo
    <3> QED BY <3>1, RequestFacts
  <2> QED BY <2>1, <2>2, <2>3, RequestFacts DEF Frame, Counted
<1> QED BY <1>1, <1>2, <1>3, <1>4, RequestFacts

(* What is written are values of the table.                                *)
LEMMA ValuesType ==
  ASSUME NEW dev, NEW r, RequestOK(r), Refusal(dev, r) = 0
  PROVE  /\ r.fn = 5 => \A k \in 1 .. r.nb : Values(r)[k] \in {0, 1}
         /\ r.fn \in {6, 16} => \A k \in 1 .. r.nb : Values(r)[k] \in Words
<1> HIDE DEF ByteValue
<1>1. ASSUME r.fn = 5
      PROVE  \A k \in 1 .. r.nb : Values(r)[k] \in {0, 1}
  <2>1. r.nb = 1
    BY <1>1, RequestFacts DEF ReadBits, ReadRegisters
  <2>2. Values(r) = <<IF r.data[1] = 255 THEN 1 ELSE 0>>
    BY <1>1 DEF Values
  <2> QED BY <2>1, <2>2
<1>2. ASSUME r.fn \in {6, 16}
      PROVE  \A k \in 1 .. r.nb : Values(r)[k] \in Words
  <2>1. r.data \in Seq(ByteValue) /\ r.nb \in Nat
    BY RequestFacts, ByteValues
  <2>2. Len(r.data) = 2 * r.nb
    <3>1. CASE r.fn = 6
      <4>1. r.nb = 1 /\ Len(r.data) = 2
        BY <3>1, RequestFacts DEF ReadBits, ReadRegisters
      <4> QED BY <4>1
    <3>2. CASE r.fn = 16
      BY <3>2, RefusalIs
    <3> QED BY <1>2, <3>1, <3>2
  <2>3. Values(r) = UnpackRegisters(r.data)
    BY <1>2 DEF Values
  <2>4. ASSUME NEW k \in 1 .. r.nb PROVE Values(r)[k] \in Words
    <3>1. k \in 1 .. Len(r.data) \div 2
      BY <2>1, <2>2
    <3>2. Values(r)[k] = Word(r.data[2 * k - 1], r.data[2 * k])
      BY <2>3, <3>1 DEF UnpackRegisters
    <3>3. r.data[2 * k - 1] \in ByteValue /\ r.data[2 * k] \in ByteValue
      BY <2>1, <2>2
    <3> QED BY <3>2, <3>3, ByteValues DEF Word
  <2> QED BY <2>4
<1> QED BY <1>1, <1>2

(* A table some cells of which are written is a table.                     *)
LEMMA WrittenType ==
  ASSUME NEW S, NEW table \in Seq(S), NEW addr \in Nat, NEW nb \in Nat, NEW values,
         \A k \in 1 .. nb : values[k] \in S
  PROVE  [i \in DOMAIN table |-> IF i \in addr + 1 .. addr + nb THEN values[i - addr] ELSE table[i]]
           \in Seq(S)
<1> DEFINE W(i) == IF i \in addr + 1 .. addr + nb THEN values[i - addr] ELSE table[i]
<1>1. ASSUME NEW i \in 1 .. Len(table) PROVE W(i) \in S
  <2>1. i \in addr + 1 .. addr + nb => i - addr \in 1 .. nb
    OBVIOUS
  <2> QED BY <2>1
<1> HIDE DEF W
<1>2. [i \in 1 .. Len(table) |-> W(i)] \in [1 .. Len(table) -> S]
  BY <1>1
<1>3. [i \in 1 .. Len(table) |-> W(i)] \in Seq(S)
  BY <1>2
<1>4. DOMAIN table = 1 .. Len(table)
  OBVIOUS
<1> QED BY <1>3, <1>4 DEF W

(* A device that carries out a request is a device.                        *)
LEMMA ExecutedType ==
  ASSUME NEW dev \in Device, NEW r, RequestOK(r)
  PROVE  Executed(dev, r) \in Device
<1> HIDE DEF ByteValue
<1>1. CASE Refusal(dev, r) # 0 \/ r.fn \in ReadBits \union ReadRegisters
  BY <1>1 DEF Executed
<1>2. CASE Refusal(dev, r) = 0 /\ r.fn \notin ReadBits \union ReadRegisters
  <2> DEFINE Written(table) == [i \in DOMAIN table |-> IF i \in r.addr + 1 .. r.addr + r.nb
                                                         THEN Values(r)[i - r.addr] ELSE table[i]]
  <2>1. Executed(dev, r) = [dev EXCEPT ![TableOf(r.fn)] = Written(dev[TableOf(r.fn)])]
    BY <1>2 DEF Executed
  <2>2. r.fn \in {5, 6, 16} /\ r.addr \in Nat /\ r.nb \in Nat
    BY <1>2, RequestFacts, ByteValues DEF WriteSingle
  <2>3. CASE r.fn = 5
    <3>1. dev.bits \in Seq({0, 1}) /\ TableOf(r.fn) = "bits"
      BY <2>3, Tables DEF Device
    <3>2. Written(dev.bits) \in Seq({0, 1})
      <4> DEFINE S == {0, 1}
      <4>1. \A k \in 1 .. r.nb : Values(r)[k] \in S
        BY <1>2, <2>3, ValuesType
      <4>2. dev.bits \in Seq(S)
        BY <3>1
      <4> HIDE DEF S
      <4>3. Written(dev.bits) \in Seq(S)
        BY <2>2, <4>1, <4>2, WrittenType
      <4> QED BY <4>3 DEF S
    <3> HIDE DEF Written
    <3> QED BY <2>1, <3>1, <3>2 DEF Device
  <2>4. CASE r.fn \in {6, 16}
    <3>1. dev.registers \in Seq(Words) /\ TableOf(r.fn) = "registers"
      BY <2>4, Tables DEF Device
    <3>2. Written(dev.registers) \in Seq(Words)
      BY <1>2, <2>2, <2>4, <3>1, ValuesType, WrittenType
    <3> HIDE DEF Written
    <3> QED BY <2>1, <3>1, <3>2 DEF Device
  <2> QED BY <2>2, <2>3, <2>4
<1> QED BY <1>1, <1>2

-----------------------------------------------------------------------------
(* Bytes on the line.                                                      *)
Byte == [frame : Frame, at : Nat, v : ByteValue \union {Crc}]
Size(f) == Len(f.body) + 4

(* The bytes of a frame.                                                   *)
LEMMA ContentsAre ==
  ASSUME NEW f \in Frame
  PROVE  /\ Contents(f) \in Seq(ByteValue \union {Crc}) /\ Len(Contents(f)) = Size(f)
         /\ Size(f) \in Nat /\ Size(f) >= 4
         /\ Contents(f)[1] = f.slave /\ Contents(f)[2] = f.fn
         /\ \A i \in 1 .. Len(f.body) : Contents(f)[i + 2] = f.body[i]
<1> DEFINE B == ByteValue \union {Crc}
<1>1. f.slave \in B /\ f.fn \in B /\ Crc \in B
  <2>1. f.slave \in 1 .. 247 /\ f.fn \in ByteValue
    BY DEF Frame
  <2>2. f.slave \in ByteValue
    BY <2>1, ByteValues
  <2> QED BY <2>1, <2>2
<1>2. f.body \in Seq(B)
  <2>1. f.body \in Seq(ByteValue)
    BY DEF Frame
  <2> HIDE DEF ByteValue
  <2>2. \A i \in 1 .. Len(f.body) : f.body[i] \in B
    BY <2>1
  <2> HIDE DEF B
  <2> QED BY <2>1, <2>2
<1> HIDE DEF B, ByteValue
<1> DEFINE b == f.body
<1> HIDE DEF b
<1>3. b \in Seq(B)
  BY <1>2 DEF b
<1>4. /\ (<<f.slave, f.fn>> \o b) \o <<Crc, Crc>> \in Seq(B)
      /\ Len((<<f.slave, f.fn>> \o b) \o <<Crc, Crc>>) = Len(b) + 4
      /\ ((<<f.slave, f.fn>> \o b) \o <<Crc, Crc>>)[1] = f.slave
      /\ ((<<f.slave, f.fn>> \o b) \o <<Crc, Crc>>)[2] = f.fn
      /\ \A i \in 1 .. Len(b) : ((<<f.slave, f.fn>> \o b) \o <<Crc, Crc>>)[i + 2] = b[i]
  BY <1>1, <1>3
<1>5. Len(b) \in Nat
  BY <1>3
<1>6. Contents(f) = (<<f.slave, f.fn>> \o b) \o <<Crc, Crc>> /\ Size(f) = Len(b) + 4
  BY DEF Contents, Size, b
<1> HIDE DEF Crc
<1>7. /\ Contents(f) \in Seq(B) /\ Len(Contents(f)) = Size(f)
      /\ Size(f) \in Nat /\ Size(f) >= 4
      /\ Contents(f)[1] = f.slave /\ Contents(f)[2] = f.fn
      /\ \A i \in 1 .. Len(b) : Contents(f)[i + 2] = b[i]
  BY <1>4, <1>5, <1>6
<1> QED BY <1>7 DEF B, b

(* The bytes of a frame know it and their places in it.                    *)
LEMMA BytesAre ==
  ASSUME NEW f \in Frame
  PROVE  /\ Bytes(f) \in Seq(Byte) /\ Len(Bytes(f)) = Size(f) /\ DOMAIN Bytes(f) = 1 .. Size(f)
         /\ \A i \in 1 .. Size(f) : /\ Bytes(f)[i] \in Byte
                                    /\ Bytes(f)[i].frame = f /\ Bytes(f)[i].at = i
                                    /\ Bytes(f)[i].v = Contents(f)[i]
<1> DEFINE Its(i) == [frame |-> f, at |-> i, v |-> Contents(f)[i]]
<1>1. DOMAIN Contents(f) = 1 .. Size(f) /\ Size(f) \in Nat
  BY ContentsAre
<1>2. Bytes(f) = [i \in 1 .. Size(f) |-> Its(i)]
  BY <1>1 DEF Bytes
<1>3. \A i \in 1 .. Size(f) : Its(i) \in Byte
  <2> HIDE DEF ByteValue
  <2> QED BY ContentsAre DEF Byte
<1>4. \A i \in 1 .. Size(f) : /\ Its(i).frame = f /\ Its(i).at = i
                              /\ Its(i).v = Contents(f)[i]
  OBVIOUS
<1> HIDE DEF Its, Byte
<1>5. [i \in 1 .. Size(f) |-> Its(i)] \in [1 .. Size(f) -> Byte]
  BY <1>3
<1>6. [i \in 1 .. Size(f) |-> Its(i)] \in Seq(Byte)
  BY <1>1, <1>5
<1> QED BY <1>1, <1>2, <1>3, <1>4, <1>6

-----------------------------------------------------------------------------
(* The stream.  What was received, is in the input of the port and is      *)
(* under way is one stream of bytes.  A frame stands in it complete only   *)
(* if it was sent as it is.                                                *)
Stream == msg \o rx \o wire
CompleteAt(s, k, f) ==
  k + Size(f) <= Len(s) /\ \A i \in 1 .. Size(f) : s[k + i] = Bytes(f)[i]
AllSent(s, sent) == \A k \in Nat, f \in Frame : CompleteAt(s, k, f) => f \in sent

(* What is read, or thrown away, leaves the rest as it was.                *)
LEMMA RestSent ==
  ASSUME NEW s \in Seq(Byte), NEW t \in Seq(Byte), NEW d \in Nat, NEW sent,
         Len(s) = d + Len(t), \A i \in 1 .. Len(t) : t[i] = s[d + i],
         AllSent(s, sent)
  PROVE  AllSent(t, sent)
<1> SUFFICES ASSUME NEW k \in Nat, NEW f \in Frame, CompleteAt(t, k, f)
             PROVE  f \in sent
  BY DEF AllSent
<1> HIDE DEF Byte
<1>1. Size(f) \in Nat
  BY ContentsAre
<1>2. CompleteAt(s, d + k, f)
  <2>1. k + Size(f) <= Len(t) /\ \A i \in 1 .. Size(f) : t[k + i] = Bytes(f)[i]
    BY DEF CompleteAt
  <2>2. ASSUME NEW i \in 1 .. Size(f) PROVE s[d + k + i] = Bytes(f)[i]
    <3>1. k + i \in 1 .. Len(t)
      BY <1>1, <2>1
    <3>2. t[k + i] = s[d + (k + i)] /\ d + (k + i) = d + k + i
      BY <3>1
    <3> QED BY <2>1, <3>2
  <2> QED BY <1>1, <2>1, <2>2 DEF CompleteAt
<1> QED BY <1>2 DEF AllSent

(* The bytes of one answer, garbled or not, are a frame or the end of one  *)
(* only together: each knows its place, and the last one ends the frame.   *)
LEMMA MoreSent ==
  ASSUME NEW s \in Seq(Byte), NEW t \in Seq(Byte), NEW g \in Frame, NEW sent, NEW more,
         AllSent(s, sent), sent \subseteq more,
         Len(t) = Size(g), \A i \in 1 .. Size(g) : t[i].frame = g /\ t[i].at = i,
         t = Bytes(g) => g \in more
  PROVE  AllSent(s \o t, more)
<1> SUFFICES ASSUME NEW k \in Nat, NEW f \in Frame, CompleteAt(s \o t, k, f)
             PROVE  f \in more
  BY DEF AllSent
<1> HIDE DEF Byte
<1>1. Size(f) \in Nat /\ Size(f) >= 4 /\ Size(g) \in Nat
  BY ContentsAre
<1>2. /\ Len(s \o t) = Len(s) + Len(t) /\ Len(s) \in Nat /\ Len(t) \in Nat
      /\ \A i \in 1 .. Len(s) : (s \o t)[i] = s[i]
      /\ \A i \in 1 .. Len(t) : (s \o t)[Len(s) + i] = t[i]
  OBVIOUS
<1>3. k + Size(f) <= Len(s) + Len(t) /\ \A i \in 1 .. Size(f) : (s \o t)[k + i] = Bytes(f)[i]
  BY <1>2 DEF CompleteAt
<1>4. CASE k + Size(f) <= Len(s)
  <2>1. \A i \in 1 .. Size(f) : k + i \in 1 .. Len(s)
    BY <1>1, <1>2, <1>4
  <2>2. CompleteAt(s, k, f)
    BY <1>2, <1>3, <1>4, <2>1 DEF CompleteAt
  <2> QED BY <2>2 DEF AllSent
<1>5. CASE k + Size(f) > Len(s)
  <2> DEFINE e == k + Size(f) - Len(s)
  <2>1. e \in 1 .. Len(t) /\ Len(s) + e = k + Size(f)
    BY <1>1, <1>2, <1>3, <1>5
  <2> HIDE DEF e
  <2>2. t[e] = (s \o t)[k + Size(f)]
    BY <1>2, <2>1
  <2>3. Size(f) \in 1 .. Size(f)
    BY <1>1
  <2>4. t[e] = Bytes(f)[Size(f)]
    BY <1>3, <2>2, <2>3
  <2>5. t[e].frame = f /\ t[e].at = Size(f)
    BY <2>3, <2>4, BytesAre
  <2>6. g = f /\ e = Size(f)
    BY <2>1, <2>5
  <2>7. k = Len(s) /\ Len(t) = Size(f)
    BY <1>1, <1>2, <2>1, <2>6
  <2>8. \A i \in 1 .. Len(t) : t[i] = Bytes(f)[i]
    BY <1>2, <1>3, <2>7
  <2>9. Bytes(f) \in Seq(Byte) /\ Len(Bytes(f)) = Len(t)
    BY <2>7, BytesAre
  <2>10. t = Bytes(f)
    BY <2>8, <2>9, SeqEqual
  <2> QED BY <2>6, <2>10
<1> QED BY <1>1, <1>2, <1>4, <1>5

(* A message that is a frame as it was sent was sent.                      *)
LEMMA FrameSent ==
  ASSUME NEW m \in Seq(Byte), NEW rest \in Seq(Byte), NEW sent,
         AllSent(m \o rest, sent), IsFrame(m)
  PROVE  /\ m[1].frame \in Frame /\ m[1].frame \in sent /\ m = Bytes(m[1].frame)
         /\ Len(m) = Size(m[1].frame)
<1> DEFINE f == m[1].frame
<1>1. Len(m) > 0 /\ m = Bytes(f)
  BY DEF IsFrame
<1>2. m[1] \in Byte
  BY <1>1
<1>3. f \in Frame
  BY <1>2 DEF Byte
<1> HIDE DEF Byte, f
<1>4. Len(m) = Size(f) /\ Size(f) \in Nat
  BY <1>1, <1>3, BytesAre, ContentsAre
<1>5. /\ Len(m) <= Len(m \o rest)
      /\ \A i \in 1 .. Len(m) : (m \o rest)[i] = m[i]
  OBVIOUS
<1>6. CompleteAt(m \o rest, 0, f)
  BY <1>1, <1>4, <1>5 DEF CompleteAt
<1>7. f \in sent
  BY <1>3, <1>6 DEF AllSent
<1> QED BY <1>1, <1>3, <1>4, <1>7 DEF f

-----------------------------------------------------------------------------
(* What the thread and the devices hold.                                   *)
InRequest == {"receive", "tooLong", "check"}

DataInv ==
  /\ msg \in Seq(Byte) /\ rx \in Seq(Byte) /\ wire \in Seq(Byte)
  /\ device \in [ToSet(Slaves) -> Device]
  /\ image \in [Jobs -> Seq(ByteValue)]
  /\ \A c \in Commands : CmdOf(c).fn \in WriteSingle => Len(image[c]) = 2
  /\ req = NoRequest \/ RequestOK(req)
  /\ bus = NoRequest \/ RequestOK(bus)
  /\ pc \in InRequest => RequestOK(req) /\ req.by = job

(* How far a message is read: the function is one its second byte may read *)
(* as, and a message is never longer than an ADU.                          *)
ReadInv ==
  /\ step \in {"function", "meta", "data"} /\ function \in ByteValue
  /\ length_to_read \in Nat /\ length_to_read <= 257 /\ Len(msg) <= MaxAduLength
  /\ pc = "receive" =>
       /\ length_to_read > 0
       /\ step = "function" => Len(msg) + length_to_read = 2
       /\ step = "meta" => /\ Len(msg) >= 2 /\ function \in Reading(msg[2])
                           /\ Len(msg) + length_to_read = 2 + MetaLength(function)
       /\ step = "data" => /\ Len(msg) >= 3 /\ function \in Reading(msg[2])
                           /\ Len(msg) + length_to_read <= MaxAduLength
  /\ pc = "check" => Len(msg) >= 3 /\ function \in Reading(msg[2])

(* Every frame that stands in the stream was sent.                         *)
SentInv ==
  /\ AllSent(Stream, answered)
  /\ \A f \in answered : f \in Frame /\ Counted(f)

(* What a byte may read as, and the lengths that are read.                 *)
LEMMA ReadingIs ==
  ASSUME NEW b \in Byte
  PROVE  Reading(b) \subseteq ByteValue /\ (b.v # Crc => Reading(b) = {b.v})
<1>1. GarbledValues \subseteq ByteValue
  BY MasterParametersAssumption DEF ByteValue
<1> HIDE DEF ByteValue
<1> QED BY <1>1 DEF Byte, Reading

(* How many bytes are read after the function and after a count.           *)
LEMMA LengthsAre ==
  /\ \A fn : MetaLength(fn) \in {1, 4, 6}
  /\ \A fn \in ByteValue, count \in ByteValue :
       /\ DataLength(fn, count) \in Nat
       /\ DataLength(fn, count) >= 2 /\ DataLength(fn, count) <= 257
<1>1. \A fn : MetaLength(fn) \in {1, 4, 6}
  BY DEF MetaLength
<1>2. ASSUME NEW fn \in ByteValue, NEW count \in ByteValue
      PROVE  /\ DataLength(fn, count) \in Nat
             /\ DataLength(fn, count) >= 2 /\ DataLength(fn, count) <= 257
  BY ByteValues DEF DataLength, ChecksumLength
<1> QED BY <1>1, <1>2

(* Concatenation may be regrouped.                                         *)
Regroups(a, b, c) == (a \o b) \o c = a \o (b \o c)

(* Bytes may be regrouped.                                                 *)
LEMMA Regrouped == \A a, b, c \in Seq(Byte) : Regroups(a, b, c)
<1> TAKE a, b, c \in Seq(Byte)
<1> HIDE DEF Byte
<1> QED BY ConcatAssociative DEF Regroups

(* Bytes go from one sequence to the next in their order.                  *)
Split(b, n, x, y) == x = SubSeq(b, 1, n) /\ y = SubSeq(b, n + 1, Len(b))

Moved(a, b, n, x, y) ==
  /\ x \in Seq(Byte) /\ y \in Seq(Byte) /\ x \o y = b /\ a \o x \in Seq(Byte)
  /\ Len(a \o x) = Len(a) + n /\ \A i \in 1 .. Len(a) : (a \o x)[i] = a[i]

(* The bytes that are moved, and those that are left.                      *)
LEMMA MovedBytes ==
  ASSUME NEW a \in Seq(Byte), NEW b \in Seq(Byte), NEW n \in 0 .. Len(b),
         NEW x, NEW y, Split(b, n, x, y)
  PROVE  Moved(a, b, n, x, y)
<1> DEFINE S == Byte
<1>0. a \in Seq(S) /\ b \in Seq(S)
  OBVIOUS
<1> HIDE DEF S
<1>1. x \in Seq(S) /\ Len(x) = n /\ \A i \in 1 .. n : x[i] = b[i]
  <2>1. \A i \in 1 .. n : b[i] \in S
    BY <1>0
  <2> QED BY <1>0, <2>1, SubSeqProperties DEF Split
<1>2. y \in Seq(S) /\ Len(y) = Len(b) - n /\ \A i \in 1 .. Len(b) - n : y[i] = b[n + i]
  <2>1. \A i \in n + 1 .. Len(b) : b[i] \in S
    BY <1>0
  <2> QED BY <1>0, <2>1, SubSeqProperties DEF Split
<1>3. x \o y = b
  <2>1. 1 \in 1 .. Len(b) + 1 /\ n \in 1 - 1 .. Len(b) /\ Len(b) \in n .. Len(b)
    BY <1>0
  <2>2. x \o y = SubSeq(b, 1, Len(b))
    BY <1>0, <2>1, ConcatAdjacentSubSeq DEF Split
  <2> QED BY <1>0, <2>2, SubSeqFull
<1>4. a \o x \in Seq(S) /\ Len(a \o x) = Len(a) + n /\ \A i \in 1 .. Len(a) : (a \o x)[i] = a[i]
  BY <1>0, <1>1
<1> QED BY <1>1, <1>2, <1>3, <1>4 DEF Moved, S

(* At the start nothing is on the line.                                    *)
LEMMA InitData == Init => DataInv /\ ReadInv /\ SentInv
<1> SUFFICES ASSUME Init PROVE DataInv /\ ReadInv /\ SentInv
  OBVIOUS
<1> HIDE DEF ByteValue, Byte, RequestOK, Frame
<1>1. /\ image \in [Jobs -> Seq(ByteValue)]
      /\ \A c \in Commands : CmdOf(c).fn \in WriteSingle => Len(image[c]) = 2
  <2>1. image = [j \in Jobs |-> Zeroes(j)]
    BY JobsAre DEF Init
  <2>2. ASSUME NEW j \in Jobs
        PROVE  Zeroes(j) \in Seq(ByteValue)
    <3> DEFINE n == IF CmdOf(j).fn \in ReadBits THEN BytesFor(CmdOf(j).nb) ELSE 2 * CmdOf(j).nb
    <3>1. n \in Nat
      BY FunctionsAssumption, ByteValues DEF BytesFor
    <3>2. Zeroes(j) = [i \in 1 .. n |-> 0]
      BY DEF Zeroes
    <3> HIDE DEF n
    <3>3. 0 \in ByteValue
      BY ByteValues
    <3>4. [i \in 1 .. n |-> 0] \in [1 .. n -> ByteValue]
      BY <3>3
    <3> QED BY <3>1, <3>2, <3>4
  <2>3. ASSUME NEW c \in Commands, CmdOf(c).fn \in WriteSingle
        PROVE  Len(Zeroes(c)) = 2
    <3>1. CmdOf(c).nb = 1 /\ CmdOf(c).fn \notin ReadBits
      BY <2>3, FunctionsAssumption DEF ReadBits, WriteSingle
    <3>2. Zeroes(c) = [i \in 1 .. 2 |-> 0]
      BY <3>1 DEF Zeroes
    <3> QED BY <3>2
  <2> QED BY <2>1, <2>2, <2>3, JobsAre
<1>2. AllSent(Stream, answered)
  <2>1. Stream = <<>>
    BY DEF Init, Stream
  <2>2. \A f \in Frame : Size(f) > 0 /\ Size(f) \in Nat
    BY ContentsAre
  <2> QED BY <2>1, <2>2 DEF AllSent, CompleteAt
<1>3. DataInv
  BY <1>1, DevicesAssumption DEF Init, DataInv, InRequest
<1>4. ReadInv
  BY ByteValues DEF Init, ReadInv, MaxAduLength
<1> QED BY <1>2, <1>3, <1>4 DEF Init, SentInv

-----------------------------------------------------------------------------
(* The request of a job is one for it.                                     *)
LEMMA RequestOfOK ==
  ASSUME DataInv, ThreadInv
  PROVE  RequestOK(RequestOf(job)) /\ RequestOf(job).by = job
<1> HIDE DEF ByteValue
<1> DEFINE r == RequestOf(job)
           data == IF job.phase = "write" THEN OnTheWire(job) ELSE <<>>
<1>1. job \in Jobs /\ job.slave \in ToSet(Slaves) /\ job.phase \in {"read", "write"}
  BY JobsAre DEF ThreadInv
<1>2. /\ r.by = job /\ r.slave = job.slave /\ r.fn = CmdOf(job).fn /\ r.addr = CmdOf(job).addr
      /\ r.nb = CmdOf(job).nb /\ r.data = data
      /\ r = [by |-> job, slave |-> job.slave, fn |-> CmdOf(job).fn, addr |-> CmdOf(job).addr,
              nb |-> CmdOf(job).nb, data |-> data]
  BY DEF RequestOf
<1>7. job.phase = "write" =>
        OnTheWire(job) \in Seq(ByteValue) /\ (CmdOf(job).fn \in WriteSingle => Len(OnTheWire(job)) = 2)
  <2>1. image[job] \in Seq(ByteValue)
    BY <1>1 DEF DataInv
  <2>2. CASE CmdOf(job).fn = 6 /\ job.phase = "write"
    <3>1. job \in Commands
      BY <1>1, <2>2 DEF Commands
    <3>2. Len(image[job]) = 2
      BY <2>2, <3>1 DEF DataInv, WriteSingle
    <3>3. image[job][2] \in ByteValue /\ 0 \in ByteValue
      <4>1. 2 \in 1 .. Len(image[job])
        BY <3>2
      <4>2. image[job][2] \in ByteValue
        BY <2>1, <4>1
      <4> QED BY <4>2 DEF ByteValue
    <3> QED BY <2>2, <3>3 DEF OnTheWire
  <2>3. CASE CmdOf(job).fn # 6 /\ job.phase = "write"
    <3>1. job \in Commands
      BY <1>1, <2>3 DEF Commands
    <3> QED BY <2>1, <2>3, <3>1 DEF OnTheWire, DataInv
  <2> QED BY <2>2, <2>3
<1>3. data \in Seq(ByteValue)
  BY <1>7
<1>4. CmdOf(job).addr \in Words /\ CmdOf(job).nb \in Words
  BY <1>1, FunctionsAssumption
<1>5. CASE job.phase = "read"
  <2>1. job \in Points
    BY <1>1, <1>5 DEF Points
  <2>2. CmdOf(job).fn \in ReadBits \union ReadRegisters
    BY <2>1, FunctionsAssumption
  <2>3. CmdOf(job).fn \in {1, 2, 3, 4, 5, 6, 16} /\ CmdOf(job).fn \notin WriteSingle
    BY <2>2 DEF ReadBits, ReadRegisters, WriteSingle
  <2> HIDE DEF r, data
  <2> QED BY <1>1, <1>2, <1>3, <1>4, <2>2, <2>3 DEF RequestOK, Request, r
<1>6. CASE job.phase = "write"
  <2>1. job \in Commands /\ job \notin Points
    BY <1>1, <1>6 DEF Points, Commands
  <2>2. CmdOf(job).fn \in {5, 6, 16} /\ (CmdOf(job).fn \in WriteSingle => CmdOf(job).nb = 1)
    BY <2>1, FunctionsAssumption
  <2>3. CmdOf(job).fn \in WriteSingle => Len(data) = 2
    BY <1>6, <1>7
  <2>4. CmdOf(job).fn \in {1, 2, 3, 4, 5, 6, 16}
    BY <2>2
  <2> HIDE DEF r, data
  <2> QED BY <1>1, <1>2, <1>3, <1>4, <2>1, <2>2, <2>3, <2>4 DEF RequestOK, Request, r
<1> QED BY <1>1, <1>5, <1>6

(* An answer that is accepted was sent, by the slave that was asked, and   *)
(* for as many values of the same kind.                                    *)
LEMMA ConfirmedFrame ==
  ASSUME ThreadInv, DataInv, ReadInv, SentInv, pc = "check", Confirms
  PROVE  LET f == msg[1].frame IN
         /\ f \in answered /\ f \in Frame /\ msg = Bytes(f)
         /\ f.slave = job.slave /\ f.fn = CmdOf(job).fn
         /\ job \in Points =>
              /\ DataOf(msg) \in Seq(ByteValue)
              /\ f.body = <<Len(DataOf(msg))>> \o DataOf(msg)
<1> HIDE DEF ByteValue, Byte
<1> DEFINE f == msg[1].frame
           data == DataOf(msg)
<1>1. msg \in Seq(Byte) /\ rx \o wire \in Seq(Byte) /\ RequestOK(req) /\ req.by = job
  BY DEF DataInv, InRequest
<1>2. AllSent(msg \o (rx \o wire), answered)
  <2>1. Regroups(msg, rx, wire)
    BY Regrouped DEF DataInv
  <2> QED BY <2>1 DEF SentInv, Stream, Regroups
<1>3. f \in answered /\ f \in Frame /\ msg = Bytes(f) /\ Len(msg) = Size(f)
  BY <1>1, <1>2, FrameSent DEF Confirms, ChecksumRight
<1> HIDE DEF f
<1>4. Size(f) \in Nat /\ Size(f) >= 4 /\ Size(f) = Len(f.body) + 4
  BY <1>3, ContentsAre DEF Size
<1>5. \A i \in 1 .. Size(f) : msg[i].v = Contents(f)[i]
  BY <1>3, BytesAre
<1>6. f.slave = req.slave
  BY <1>3, <1>4, <1>5, ContentsAre DEF Confirms, FromSlave
<1>7. f.fn = req.fn
  <2>1. msg[2].v = f.fn /\ msg[2] \in Byte
    BY <1>1, <1>3, <1>4, <1>5, ContentsAre
  <2>2. f.fn \in ByteValue
    BY <1>3 DEF Frame
  <2>3. f.fn # Crc
    BY <2>2, ByteValues DEF Crc
  <2>4. function \in Reading(msg[2])
    BY DEF ReadInv
  <2>5. function = f.fn
    BY <2>1, <2>3, <2>4, ReadingIs
  <2> QED BY <2>5 DEF Confirms
<1>8. f.slave = job.slave /\ f.fn = CmdOf(job).fn
  BY <1>1, <1>6, <1>7 DEF RequestOK
<1>9. ASSUME job \in Points
      PROVE  data \in Seq(ByteValue) /\ f.body = <<Len(data)>> \o data
  <2> DEFINE body == f.body
             n == IF req.fn \in ReadBits THEN BytesFor(req.nb) ELSE 2 * req.nb
  <2>1. req.fn \in ReadBits \union ReadRegisters
    BY <1>1, <1>9 DEF RequestOK
  <2>2. n \in Nat /\ req.nb \in Nat
    BY <1>1, RequestFacts, ByteValues DEF BytesFor
  <2>3. Len(msg) = 3 + (2 + n)
    <3>1. ResponseLength(req) = 3 + (2 + n)
      <4>1. CASE req.fn \in ReadBits
        <5>1. ResponseLength(req) = 1 + 2 + (2 + BytesFor(req.nb))
          <6>1. req.fn \notin ReadRegisters \union {WriteAndRead} /\ req.fn # MaskWrite
            BY <4>1 DEF ReadBits, ReadRegisters, WriteAndRead, MaskWrite
          <6> QED BY <4>1, <6>1, Zenon DEF ResponseLength, HeaderLength, ChecksumLength
        <5>2. n = BytesFor(req.nb)
          BY <4>1
        <5> HIDE DEF n
        <5> QED BY <2>2, <5>1, <5>2
      <4>2. CASE req.fn \in ReadRegisters
        <5>1. req.fn \notin ReadBits /\ req.fn # MaskWrite
          BY <4>2 DEF ReadBits, ReadRegisters, MaskWrite
        <5>2. ResponseLength(req) = 1 + 2 + (2 + 2 * req.nb)
          BY <4>2, <5>1, Zenon DEF ResponseLength, HeaderLength, ChecksumLength
        <5>3. n = 2 * req.nb
          BY <5>1
        <5> HIDE DEF n
        <5> QED BY <2>2, <5>2, <5>3
      <4> QED BY <2>1, <4>1, <4>2
    <3> QED BY <3>1 DEF Confirms
  <2> HIDE DEF n
  <2>4. body \in Seq(ByteValue) /\ Len(body) = 1 + n
    BY <1>3, <1>4, <2>2, <2>3 DEF Frame
  <2>5. body[1] = n
    <3>1. Counted(f)
      BY <1>3 DEF SentInv
    <3>2. body[1] = Len(body) - 1
      BY <1>7, <2>1, <3>1 DEF Counted
    <3> QED BY <2>2, <2>4, <3>2
  <2>6. data = [i \in 1 .. n |-> msg[i + 3].v]
    <3>1. Len(msg) - 5 = n
      BY <2>2, <2>3
    <3> QED BY <3>1 DEF DataOf
  <2>7. \A i \in 1 .. n : msg[i + 3].v = body[i + 1]
    <3> TAKE i \in 1 .. n
    <3>1. i + 1 \in 1 .. Len(f.body) /\ i + 3 \in 1 .. Size(f)
      BY <1>4, <2>2, <2>4
    <3>2. Contents(f)[i + 1 + 2] = f.body[i + 1]
      BY <1>3, <3>1, ContentsAre
    <3> QED BY <1>5, <3>1, <3>2
  <2> HIDE DEF body, data
  <2>8. \A i \in 1 .. n : body[i + 1] \in ByteValue
    BY <2>2, <2>4
  <2>9. data = [i \in 1 .. n |-> body[i + 1]]
    BY <2>6, <2>7
  <2>10. data \in Seq(ByteValue) /\ Len(data) = n /\ \A i \in 1 .. n : data[i] = body[i + 1]
    <3>1. [i \in 1 .. n |-> body[i + 1]] \in [1 .. n -> ByteValue]
      BY <2>8
    <3> QED BY <2>2, <2>9, <3>1
  <2>11. body = <<Len(data)>> \o data
    <3> DEFINE other == <<n>> \o data
    <3>1. n \in ByteValue
      <4>1. 1 \in 1 .. Len(body)
        BY <2>2, <2>4
      <4> QED BY <2>4, <2>5, <4>1
    <3>2. /\ other \in Seq(ByteValue) /\ Len(other) = 1 + n /\ other[1] = n
          /\ \A i \in 1 .. n : other[i + 1] = data[i]
      BY <2>2, <2>10, <3>1
    <3> HIDE DEF other
    <3>3. ASSUME NEW i \in 1 .. Len(body) PROVE body[i] = other[i]
      <4>1. CASE i = 1
        BY <2>5, <3>2, <4>1
      <4>2. CASE i # 1
        <5>1. i - 1 \in 1 .. n /\ (i - 1) + 1 = i
          BY <2>2, <2>4, <4>2
        <5> QED BY <2>10, <3>2, <5>1
      <4> QED BY <4>1, <4>2
    <3>4. body = other
      BY <2>4, <3>2, <3>3, SeqEqual
    <3> QED BY <2>10, <3>4 DEF other
  <2> QED BY <2>10, <2>11 DEF body, data
<1> QED BY <1>3, <1>8, <1>9 DEF f, data

-----------------------------------------------------------------------------
(* What was received of an answer is thrown away.                          *)
LEMMA DropSent ==
  ASSUME DataInv, SentInv, msg' = <<>>, UNCHANGED <<rx, wire, answered>>
  PROVE  SentInv'
<1> HIDE DEF Byte
<1>1. msg \in Seq(Byte) /\ rx \in Seq(Byte) /\ wire \in Seq(Byte)
  BY DEF DataInv
<1> DEFINE t == rx \o wire
<1>2. Stream = msg \o t /\ t \in Seq(Byte)
  BY <1>1, Regrouped DEF Stream, Regroups
<1>3. Stream' = t
  <2>1. <<>> \o rx = rx
    BY <1>1, ConcatEmptySeq
  <2> QED BY <2>1 DEF Stream
<1> HIDE DEF t
<1>4. /\ msg \o t \in Seq(Byte) /\ Len(msg \o t) = Len(msg) + Len(t) /\ Len(msg) \in Nat
      /\ \A i \in 1 .. Len(t) : t[i] = (msg \o t)[Len(msg) + i]
  BY <1>1, <1>2
<1>5. AllSent(msg \o t, answered)
  BY <1>2 DEF SentInv
<1>6. AllSent(t, answered)
  BY <1>2, <1>4, <1>5, RestSent
<1> QED BY <1>3, <1>6 DEF SentInv

(* The thread is done with a request.                                      *)
LEMMA FinishData ==
  ASSUME ThreadInv, DataInv, ReadInv, SentInv, NEW rc, NEW data, Finish(rc, data),
         rc # -1 /\ job \in Points => data \in Seq(ByteValue),
         UNCHANGED <<rx, wire, device, bus, answered>>
  PROVE  DataInv' /\ ReadInv' /\ SentInv'
<1> HIDE DEF ByteValue, Byte, RequestOK
<1>1. /\ msg' = <<>> /\ length_to_read' = 0 /\ step' = "function" /\ function' = 0
      /\ req' = NoRequest
      /\ image' = [image EXCEPT ![job] = IF job.phase = "read" /\ rc # -1 THEN data ELSE @]
  BY DEF Finish
<1>2. pc' \in {"job", "ended"}
  BY FinishOK
<1>3. image' \in [Jobs -> Seq(ByteValue)]
  BY <1>1 DEF DataInv, ThreadInv, Points
<1>4. ASSUME NEW c \in Commands, CmdOf(c).fn \in WriteSingle
      PROVE  Len(image'[c]) = 2
  <2>1. c \in Jobs /\ c.phase # "read"
    BY DEF Commands
  <2>2. image'[c] = image[c]
    BY <1>1, <2>1 DEF DataInv, ThreadInv
  <2> QED BY <1>4, <2>2 DEF DataInv
<1>5. DataInv'
  BY <1>1, <1>2, <1>3, <1>4 DEF DataInv, InRequest
<1>6. ReadInv'
  BY <1>1, <1>2, ByteValues DEF ReadInv, MaxAduLength
<1> QED BY <1>1, <1>5, <1>6, DropSent

(* The thread asks.                                                        *)
LEMMA SendData ==
  ASSUME ThreadInv, DataInv, ReadInv, SentInv, SendRequest
  PROVE  DataInv' /\ ReadInv' /\ SentInv'
<1> HIDE DEF ByteValue, Byte, RequestOK
<1>1. /\ req' = RequestOf(job) /\ bus' = RequestOf(job) /\ pc' = "receive" /\ msg' = <<>>
      /\ step' = "function" /\ length_to_read' = 2
      /\ UNCHANGED <<job, function, image, wire, rx, device, answered>>
  BY DEF SendRequest, memory, HeaderLength
<1>2. DataInv'
  <2>1. RequestOK(RequestOf(job)) /\ RequestOf(job).by = job
    BY RequestOfOK
  <2>2. RequestOK(req)' /\ RequestOK(bus)' /\ req'.by = job'
    BY <1>1, <2>1 DEF RequestOK
  <2> QED BY <1>1, <2>2 DEF DataInv, InRequest
<1>3. ReadInv'
  BY <1>1 DEF ReadInv, MaxAduLength
<1> QED BY <1>1, <1>2, <1>3, DropSent

(* The thread reads what has come.                                         *)
LEMMA ReceiveData ==
  ASSUME ThreadInv, DataInv, ReadInv, SentInv, Receive
  PROVE  DataInv' /\ ReadInv' /\ SentInv'
<1> HIDE DEF ByteValue, Byte, RequestOK
<1> DEFINE n == IF Len(rx) < length_to_read THEN Len(rx) ELSE length_to_read
           got == msg \o SubSeq(rx, 1, n)
           left == length_to_read - n
<1>1. /\ msg \in Seq(Byte) /\ rx \in Seq(Byte) /\ wire \in Seq(Byte) /\ rx # <<>>
      /\ pc = "receive" /\ length_to_read \in Nat /\ length_to_read > 0
      /\ Len(rx) \in Nat /\ Len(msg) \in Nat
  BY DEF DataInv, ReadInv, Receive
<1>2. n \in 0 .. Len(rx) /\ n <= length_to_read /\ left \in Nat /\ left <= length_to_read
  BY <1>1
<1>3. /\ msg' = got /\ rx' = SubSeq(rx, n + 1, Len(rx))
      /\ UNCHANGED <<job, req, image, bus, wire, device, answered>>
      /\ \/ /\ left > 0
            /\ length_to_read' = left /\ UNCHANGED <<pc, step, function>>
         \/ /\ left = 0 /\ step = "function"
            /\ \E fn \in Reading(got[HeaderLength + 1]) :
                 function' = fn /\ length_to_read' = MetaLength(fn)
            /\ step' = "meta" /\ UNCHANGED pc
         \/ /\ left = 0 /\ step = "meta"
            /\ \E count \in Reading(got[HeaderLength + 2]) :
                 /\ length_to_read' = DataLength(function, count)
                 /\ pc' = IF Len(got) + DataLength(function, count) > MaxAduLength
                            THEN "tooLong" ELSE "receive"
            /\ step' = "data" /\ UNCHANGED function
         \/ /\ left = 0 /\ step = "data"
            /\ length_to_read' = 0 /\ pc' = "check" /\ UNCHANGED <<step, function>>
  BY DEF Receive, memory, history
<1> HIDE DEF n, left
<1>4. /\ got \in Seq(Byte) /\ rx' \in Seq(Byte) /\ got \o rx' = msg \o rx
      /\ Len(got) = Len(msg) + n /\ \A i \in 1 .. Len(msg) : got[i] = msg[i]
  <2> DEFINE x == SubSeq(rx, 1, n)
             y == SubSeq(rx, n + 1, Len(rx))
  <2> HIDE DEF x, y
  <2>1. /\ y \in Seq(Byte) /\ msg \o x \in Seq(Byte) /\ (msg \o x) \o y = msg \o rx
        /\ Len(msg \o x) = Len(msg) + n /\ \A i \in 1 .. Len(msg) : (msg \o x)[i] = msg[i]
    <3>1. Split(rx, n, x, y)
      BY DEF Split, x, y
    <3>2. Moved(msg, rx, n, x, y)
      BY <1>1, <1>2, <3>1, MovedBytes
    <3>3. msg \in Seq(Byte) /\ x \in Seq(Byte) /\ y \in Seq(Byte)
      BY <1>1, <3>2 DEF Moved
    <3>4. Regroups(msg, x, y)
      BY <3>3, Regrouped
    <3> QED BY <3>2, <3>4 DEF Regroups, Moved
  <2>2. got = msg \o x /\ rx' = y
    BY <1>3 DEF x, y
  <2> HIDE DEF got
  <2> QED BY <2>1, <2>2
<1> HIDE DEF got
<1>5. Len(got) + left = Len(msg) + length_to_read /\ Len(got) \in Nat /\ Len(got) >= Len(msg)
  BY <1>1, <1>2, <1>4 DEF left
<1>6. SentInv'
  <2>1. Stream' = Stream
    BY <1>3, <1>4 DEF Stream
  <2> QED BY <1>3, <2>1 DEF SentInv
<1>7. \A i \in 1 .. Len(got) : got[i] \in Byte /\ Reading(got[i]) \subseteq ByteValue
  BY <1>4, ReadingIs
<1>8. Len(msg) >= 2 => got[2] = msg[2]
  BY <1>1, <1>4
<1>9. ReadInv'
  <2>1. /\ step \in {"function", "meta", "data"} /\ function \in ByteValue /\ length_to_read <= 257
        /\ step = "function" => Len(msg) + length_to_read = 2
        /\ step = "meta" => /\ Len(msg) >= 2 /\ function \in Reading(msg[2])
                            /\ Len(msg) + length_to_read = 2 + MetaLength(function)
        /\ step = "data" => /\ Len(msg) >= 3 /\ function \in Reading(msg[2])
                            /\ Len(msg) + length_to_read <= 256
    BY <1>1 DEF ReadInv, MaxAduLength
  <2>2. MetaLength(function) \in {1, 4, 6}
    BY LengthsAre
  <2>3. CASE left > 0
    <3>1. length_to_read' = left /\ UNCHANGED <<pc, step, function>>
      BY <1>2, <1>3, <2>3
    <3> QED BY <1>1, <1>2, <1>3, <1>5, <1>8, <2>1, <2>2, <2>3, <3>1 DEF ReadInv, MaxAduLength
  <2>4. CASE left = 0 /\ step = "function"
    <3>1. PICK fn \in Reading(got[2]) : function' = fn /\ length_to_read' = MetaLength(fn)
      BY <1>2, <1>3, <2>4 DEF HeaderLength
    <3>2. Len(got) = 2
      BY <1>1, <1>5, <2>1, <2>4
    <3>3. fn \in ByteValue /\ MetaLength(fn) \in {1, 4, 6}
      BY <1>7, <3>2, LengthsAre
    <3>4. step' = "meta" /\ pc' = "receive"
      BY <1>1, <1>2, <1>3, <2>4
    <3> QED BY <1>3, <3>1, <3>2, <3>3, <3>4 DEF ReadInv, MaxAduLength
  <2>5. CASE left = 0 /\ step = "meta"
    <3>1. PICK count \in Reading(got[3]) :
            /\ length_to_read' = DataLength(function, count)
            /\ pc' = IF Len(got) + DataLength(function, count) > MaxAduLength
                       THEN "tooLong" ELSE "receive"
            /\ step' = "data" /\ UNCHANGED function
      BY <1>2, <1>3, <2>5 DEF HeaderLength
    <3>2. Len(got) >= 3 /\ Len(got) <= 8
      BY <1>1, <1>5, <2>1, <2>2, <2>5
    <3>3. count \in ByteValue
      BY <1>5, <1>7, <3>2
    <3>4. /\ DataLength(function, count) \in Nat
          /\ DataLength(function, count) >= 2 /\ DataLength(function, count) <= 257
      BY <2>1, <3>3, LengthsAre
    <3> QED BY <1>3, <1>5, <1>8, <2>1, <2>5, <3>1, <3>2, <3>4 DEF ReadInv, MaxAduLength
  <2>6. CASE left = 0 /\ step = "data"
    <3>1. length_to_read' = 0 /\ pc' = "check" /\ UNCHANGED <<step, function>>
      BY <1>2, <1>3, <2>6
    <3> QED BY <1>1, <1>3, <1>5, <1>8, <2>1, <2>6, <3>1 DEF ReadInv, MaxAduLength
  <2> QED BY <1>2, <2>1, <2>3, <2>4, <2>5, <2>6
<1>10. DataInv'
  <2>1. RequestOK(req) /\ req.by = job
    BY <1>1 DEF DataInv, InRequest
  <2>2. RequestOK(req)' /\ req'.by = job' /\ (bus' = NoRequest \/ RequestOK(bus)')
    BY <1>3, <2>1 DEF DataInv, RequestOK
  <2> QED BY <1>3, <1>4, <2>2 DEF DataInv
<1> QED BY <1>6, <1>9, <1>10

(* A device carries out a request.                                         *)
LEMMA ExecuteData ==
  ASSUME DataInv, Execute
  PROVE  /\ RequestOK(bus) /\ bus.slave \in ToSet(Slaves) /\ device[bus.slave] \in Device
         /\ device' \in [ToSet(Slaves) -> Device]
         /\ Answer \in Frame /\ Counted(Answer)
<1> HIDE DEF ByteValue, Byte, RequestOK, Frame
<1>1. RequestOK(bus) /\ device \in [ToSet(Slaves) -> Device]
  BY DEF Execute, DataInv
<1>2. bus.slave \in ToSet(Slaves)
  BY <1>1 DEF RequestOK, Request
<1>3. device[bus.slave] \in Device
  BY <1>1, <1>2
<1>4. Executed(device[bus.slave], bus) \in Device
  BY <1>1, <1>3, ExecutedType
<1>5. device' = [device EXCEPT ![bus.slave] = Executed(device[bus.slave], bus)]
  BY DEF Execute
<1>6. device' \in [ToSet(Slaves) -> Device]
  BY <1>1, <1>4, <1>5
<1> QED BY <1>1, <1>2, <1>3, <1>6, ReplyType DEF Answer

(* The bytes of an answer come to the line.                                *)
LEMMA AnswerSent ==
  ASSUME DataInv, SentInv, NEW g \in Frame, NEW t \in Seq(Byte),
         UNCHANGED <<msg, rx>>, wire' = wire \o t,
         answered \subseteq answered', \A f \in answered' : f \in Frame /\ Counted(f),
         Len(t) = Size(g), \A i \in 1 .. Size(g) : t[i].frame = g /\ t[i].at = i,
         t = Bytes(g) => g \in answered'
  PROVE  SentInv' /\ wire' \in Seq(Byte)
<1> HIDE DEF Byte, Frame
<1>1. msg \in Seq(Byte) /\ rx \in Seq(Byte) /\ wire \in Seq(Byte)
  BY DEF DataInv
<1>2. msg \o rx \in Seq(Byte) /\ Stream \in Seq(Byte)
  BY <1>1 DEF Stream
<1>3. Stream' = Stream \o t
  <2> DEFINE a == msg \o rx
  <2> HIDE DEF a
  <2>1. a \in Seq(Byte)
    BY <1>2 DEF a
  <2>2. Regroups(a, wire, t)
    BY <1>1, <2>1, Regrouped
  <2>3. Stream = a \o wire /\ Stream' = a \o (wire \o t)
    BY DEF a, Stream
  <2> QED BY <2>2, <2>3 DEF Regroups
<1>4. AllSent(Stream \o t, answered')
  BY <1>2, MoreSent DEF SentInv
<1>5. wire' \in Seq(Byte)
  BY <1>1
<1> QED BY <1>3, <1>4, <1>5 DEF SentInv

(* The devices and the line.                                               *)
LEMMA LineData ==
  ASSUME ThreadInv, DataInv, ReadInv, SentInv, LineStep
  PROVE  DataInv' /\ ReadInv' /\ SentInv'
<1> HIDE DEF ByteValue, Byte, RequestOK, Frame
<1>1. UNCHANGED <<pc, job, req, msg, length_to_read, step, function, image>>
  BY DEF LineStep, Serve, LoseAnswer, GarbleAnswer, LoseRequest, Arrive, FieldChange, Execute,
         thread, memory
<1>2. ReadInv'
  BY <1>1 DEF ReadInv
<1>3. ASSUME rx' \in Seq(Byte), wire' \in Seq(Byte), device' \in [ToSet(Slaves) -> Device],
             bus' = bus \/ bus' = NoRequest
      PROVE  DataInv'
  <2>1. bus' = NoRequest \/ RequestOK(bus)'
    BY <1>3 DEF DataInv, RequestOK
  <2>2. req' = NoRequest \/ RequestOK(req)'
    BY <1>1 DEF DataInv, RequestOK
  <2>3. pc' \in InRequest => RequestOK(req)' /\ req'.by = job'
    BY <1>1 DEF DataInv, RequestOK
  <2> QED BY <1>1, <1>3, <2>1, <2>2, <2>3 DEF DataInv
<1>4. rx \in Seq(Byte) /\ wire \in Seq(Byte) /\ device \in [ToSet(Slaves) -> Device]
  BY DEF DataInv
<1>5. CASE Serve
  <2> DEFINE g == Answer
  <2>1. Execute /\ wire' = wire \o Bytes(g) /\ answered' = answered \union {g}
    BY <1>5 DEF Serve
  <2>2. UNCHANGED rx /\ bus' = NoRequest
    BY <2>1 DEF Execute
  <2>3. device' \in [ToSet(Slaves) -> Device] /\ g \in Frame /\ Counted(g)
    BY <2>1, ExecuteData
  <2> HIDE DEF g
  <2>4. /\ Bytes(g) \in Seq(Byte) /\ Len(Bytes(g)) = Size(g)
        /\ \A i \in 1 .. Size(g) : Bytes(g)[i].frame = g /\ Bytes(g)[i].at = i
    BY <2>3, BytesAre
  <2>5. SentInv' /\ wire' \in Seq(Byte)
    <3>1. \A f \in answered' : f \in Frame /\ Counted(f)
      BY <2>1, <2>3 DEF SentInv
    <3> QED BY <1>1, <2>1, <2>2, <2>3, <2>4, <3>1, AnswerSent
  <2> QED BY <1>2, <1>3, <1>4, <2>2, <2>3, <2>5
<1>6. CASE LoseAnswer
  <2>1. Execute /\ UNCHANGED <<wire, answered>>
    BY <1>6 DEF LoseAnswer
  <2>2. UNCHANGED rx /\ bus' = NoRequest /\ device' \in [ToSet(Slaves) -> Device]
    BY <2>1, ExecuteData DEF Execute
  <2>3. SentInv'
    BY <1>1, <2>1, <2>2 DEF SentInv, Stream
  <2> QED BY <1>2, <1>3, <1>4, <2>1, <2>2, <2>3
<1>7. CASE GarbleAnswer
  <2> DEFINE g == Answer
             bytes == Bytes(g)
  <2>1. /\ Execute /\ UNCHANGED answered
        /\ \E i \in DOMAIN bytes, v \in GarbledValues :
             v # bytes[i].v /\ wire' = wire \o [bytes EXCEPT ![i].v = v]
    BY <1>7 DEF GarbleAnswer
  <2>2. UNCHANGED rx /\ bus' = NoRequest
    BY <2>1 DEF Execute
  <2>3. device' \in [ToSet(Slaves) -> Device] /\ g \in Frame
    BY <2>1, ExecuteData
  <2> HIDE DEF g
  <2>4. /\ bytes \in Seq(Byte) /\ Len(bytes) = Size(g) /\ DOMAIN bytes = 1 .. Size(g)
        /\ \A i \in 1 .. Size(g) : bytes[i] \in Byte /\ bytes[i].frame = g /\ bytes[i].at = i
    BY <2>3, BytesAre
  <2>5. PICK i \in 1 .. Size(g), v \in GarbledValues :
          v # bytes[i].v /\ wire' = wire \o [bytes EXCEPT ![i].v = v]
    BY <2>1, <2>4
  <2> DEFINE t == [bytes EXCEPT ![i].v = v]
  <2>6. v \in ByteValue \union {Crc}
    BY MasterParametersAssumption DEF ByteValue
  <2>7. [bytes[i] EXCEPT !.v = v] \in Byte /\ [bytes[i] EXCEPT !.v = v].frame = g
        /\ [bytes[i] EXCEPT !.v = v].at = i /\ [bytes[i] EXCEPT !.v = v].v = v
    BY <2>4, <2>6 DEF Byte
  <2>8. t = [bytes EXCEPT ![i] = [bytes[i] EXCEPT !.v = v]]
    OBVIOUS
  <2> HIDE DEF bytes, t
  <2>9. /\ t \in Seq(Byte) /\ Len(t) = Size(g)
        /\ t[i] = [bytes[i] EXCEPT !.v = v] /\ \A k \in 1 .. Size(g) : k # i => t[k] = bytes[k]
    BY <2>4, <2>7, <2>8, ExceptSeq
  <2>10. \A k \in 1 .. Size(g) : t[k].frame = g /\ t[k].at = k
    BY <2>4, <2>7, <2>9
  <2>11. t # bytes
    BY <2>5, <2>7, <2>9
  <2>12. wire' = wire \o t
    BY <2>5 DEF t
  <2>13. SentInv' /\ wire' \in Seq(Byte)
    <3>1. \A f \in answered' : f \in Frame /\ Counted(f)
      BY <2>1 DEF SentInv
    <3>2. t # Bytes(g)
      BY <2>11 DEF bytes
    <3> QED BY <1>1, <2>1, <2>2, <2>3, <2>9, <2>10, <2>12, <3>1, <3>2, AnswerSent
  <2> QED BY <1>2, <1>3, <1>4, <2>2, <2>3, <2>13
<1>8. CASE LoseRequest
  <2>1. bus' = NoRequest /\ UNCHANGED <<wire, rx, device, answered>>
    BY <1>8 DEF LoseRequest, history
  <2>2. SentInv'
    BY <1>1, <2>1 DEF SentInv, Stream
  <2> QED BY <1>2, <1>3, <1>4, <2>1, <2>2
<1>9. CASE Arrive
  <2>1. PICK n \in 1 .. Len(wire) :
          rx' = rx \o SubSeq(wire, 1, n) /\ wire' = SubSeq(wire, n + 1, Len(wire))
    BY <1>9 DEF Arrive
  <2>2. UNCHANGED <<bus, device, answered>>
    BY <1>9 DEF Arrive, history
  <2> DEFINE x == SubSeq(wire, 1, n)
             y == SubSeq(wire, n + 1, Len(wire))
  <2> HIDE DEF x, y
  <2>3. Split(wire, n, x, y) /\ rx' = rx \o x /\ wire' = y
    BY <2>1 DEF Split, x, y
  <2>4. x \in Seq(Byte) /\ y \in Seq(Byte) /\ rx \o x \in Seq(Byte) /\ x \o y = wire
    <3>1. Moved(rx, wire, n, x, y)
      BY <1>4, <2>3, MovedBytes
    <3> QED BY <3>1 DEF Moved
  <2>5. Stream' = Stream
    <3>1. msg \in Seq(Byte) /\ rx \in Seq(Byte) /\ x \in Seq(Byte) /\ y \in Seq(Byte)
      BY <2>4 DEF DataInv
    <3>2. Regroups(msg, rx, x)
      BY <3>1, Regrouped
    <3>3. msg \o rx \in Seq(Byte)
      BY <3>1
    <3> DEFINE a == msg \o rx
    <3> HIDE DEF a
    <3>4. a \in Seq(Byte)
      BY <3>3 DEF a
    <3>5. Regroups(a, x, y)
      BY <3>1, <3>4, Regrouped
    <3>6. Stream' = (a \o x) \o y
      BY <1>1, <2>3, <3>2 DEF Stream, Regroups, a
    <3>7. Stream = a \o (x \o y)
      BY <2>4 DEF Stream, a
    <3> QED BY <3>5, <3>6, <3>7 DEF Regroups
  <2>6. SentInv'
    BY <2>2, <2>5 DEF SentInv
  <2> QED BY <1>2, <1>3, <1>4, <2>2, <2>3, <2>4, <2>6
<1>10. CASE FieldChange
  <2>1. UNCHANGED <<bus, wire, rx, answered>>
    BY <1>10 DEF FieldChange
  <2>2. PICK s \in ToSet(Slaves), u \in {"bits", "registers"} :
          \E i \in DOMAIN device[s][u], v \in FieldValues[s][u] :
            device' = [device EXCEPT ![s][u][i] = v]
    BY <1>10 DEF FieldChange
  <2>3. PICK i \in DOMAIN device[s][u], v \in FieldValues[s][u] :
          device' = [device EXCEPT ![s][u][i] = v]
    BY <2>2
  <2> DEFINE dev == device[s]
  <2>4. /\ dev \in Device /\ i \in DOMAIN dev[u]
        /\ device' = [device EXCEPT ![s] = [dev EXCEPT ![u] = [dev[u] EXCEPT ![i] = v]]]
    BY <1>4, <2>3
  <2> HIDE DEF dev
  <2>5. [dev EXCEPT ![u] = [dev[u] EXCEPT ![i] = v]] \in Device
    <3>1. CASE u = "bits"
      <4> DEFINE S == {0, 1}
      <4>1. v \in S /\ dev.bits \in Seq(S) /\ i \in DOMAIN dev.bits
        BY <2>4, <3>1, DevicesAssumption DEF Device
      <4> HIDE DEF S
      <4>2. [dev.bits EXCEPT ![i] = v] \in Seq(S)
        BY <4>1, ExceptSeq
      <4> QED BY <2>4, <3>1, <4>2 DEF Device, S
    <3>2. CASE u = "registers"
      <4>1. v \in Words /\ dev.registers \in Seq(Words) /\ i \in DOMAIN dev.registers
        BY <2>4, <3>2, DevicesAssumption DEF Device
      <4>2. [dev.registers EXCEPT ![i] = v] \in Seq(Words)
        BY <4>1, ExceptSeq
      <4> QED BY <2>4, <3>2, <4>2 DEF Device
    <3> QED BY <3>1, <3>2
  <2>6. device' \in [ToSet(Slaves) -> Device]
    BY <1>4, <2>4, <2>5
  <2>7. SentInv'
    BY <1>1, <2>1 DEF SentInv, Stream
  <2> QED BY <1>2, <1>3, <1>4, <2>1, <2>6, <2>7
<1> QED BY <1>5, <1>6, <1>7, <1>8, <1>9, <1>10 DEF LineStep

(* No step breaks a type, reads beyond an ADU or makes up a frame.         *)
LEMMA NextData ==
  ThreadInv /\ DataInv /\ ReadInv /\ SentInv /\ [Next]_vars => DataInv' /\ ReadInv' /\ SentInv'
<1> SUFFICES ASSUME ThreadInv, DataInv, ReadInv, SentInv, [Next]_vars
             PROVE  DataInv' /\ ReadInv' /\ SentInv'
  OBVIOUS
<1> HIDE DEF ByteValue, Byte, RequestOK, Frame
<1>1. ASSUME UNCHANGED <<req, msg, length_to_read, step, function, image, field, answered>>,
             UNCHANGED <<pc, job>> \/ pc' \in {"job", "ended"}
      PROVE  DataInv' /\ ReadInv' /\ SentInv'
  <2>1. RequestOK(req)' = RequestOK(req) /\ RequestOK(bus)' = RequestOK(bus)
    BY <1>1 DEF field, RequestOK
  <2>2. DataInv'
    BY <1>1, <2>1 DEF DataInv, field, InRequest
  <2> QED BY <1>1, <2>2 DEF ReadInv, SentInv, Stream, field
<1>2. CASE UNCHANGED vars \/ Stop \/ Free
  BY <1>1, <1>2 DEF vars, Stop, Free, thread, memory, history
<1>3. CASE SkipWrite
  BY <1>1, <1>3, NextJobOK DEF SkipWrite, memory, history
<1>4. CASE SendRequest
  BY <1>4, SendData
<1>5. CASE SendFails
  BY <1>5, FinishData DEF SendFails, field
<1>6. CASE Receive
  BY <1>6, ReceiveData
<1>7. CASE TooLong
  BY <1>7, FinishData DEF TooLong, field
<1>8. CASE Timeout
  BY <1>8, FinishData DEF Timeout, field
<1>9. CASE CheckConfirmation
  <2>1. pc = "check" /\ UNCHANGED <<rx, wire, device, bus, answered>>
    BY <1>9 DEF CheckConfirmation, field
  <2>2. CASE Confirms
    <3>1. Finish(0, DataOf(msg))
      BY <1>9, <2>2 DEF CheckConfirmation
    <3>2. job \in Points => DataOf(msg) \in Seq(ByteValue)
      BY <2>1, <2>2, ConfirmedFrame
    <3> QED BY <2>1, <3>1, <3>2, FinishData
  <2>3. CASE ~Confirms
    <3>1. Finish(-1, <<>>)
      BY <1>9, <2>3 DEF CheckConfirmation
    <3> QED BY <2>1, <3>1, FinishData
  <2> QED BY <2>2, <2>3
<1>10. CASE GiveCommand
  <2>0. PICK c \in Commands : \E data \in CommandData[CmdOf(c).fn] : Command(c, data)
    BY <1>10 DEF GiveCommand
  <2>1. PICK data \in CommandData[CmdOf(c).fn] : Command(c, data)
    BY <2>0
  <2>2. /\ UNCHANGED <<pc, job, req, msg, length_to_read, step, function, field, answered>>
        /\ image' = [image EXCEPT ![c] = data]
    BY <2>1 DEF Command, thread
  <2>3. data \in Seq(ByteValue) /\ (CmdOf(c).fn \in WriteSingle => Len(data) = 2)
    BY DevicesAssumption DEF ByteValue
  <2>4. c \in Jobs
    BY DEF Commands
  <2>5. RequestOK(req)' = RequestOK(req) /\ RequestOK(bus)' = RequestOK(bus)
    BY <2>2 DEF field, RequestOK
  <2>6. /\ image' \in [Jobs -> Seq(ByteValue)]
        /\ \A d \in Commands : CmdOf(d).fn \in WriteSingle => Len(image'[d]) = 2
    BY <2>2, <2>3, <2>4, JobsAre DEF DataInv
  <2>7. DataInv'
    BY <2>2, <2>5, <2>6 DEF DataInv, field
  <2> QED BY <2>2, <2>7 DEF ReadInv, SentInv, Stream, field
<1>11. CASE LineStep
  BY <1>11, LineData
<1> QED BY <1>2, <1>3, <1>4, <1>5, <1>6, <1>7, <1>8, <1>9, <1>10, <1>11 DEF Next, ThreadStep

-----------------------------------------------------------------------------
(* Every variable has its type; what is received is never longer than an   *)
(* ADU.                                                                    *)
THEOREM TypeCorrect == Spec => []TypeOK
<1>1. ThreadInv /\ ReadInv => TypeOK
  <2> SUFFICES ASSUME ThreadInv, ReadInv PROVE TypeOK
    OBVIOUS
  <2>1. function \in 0 .. 255
    BY DEF ReadInv, ByteValue
  <2>2. length_to_read \in 0 .. 255 + ChecksumLength
    BY DEF ReadInv, ChecksumLength
  <2>3. mem_state \in [Points \union Commands -> {"init", "cur", "new", "chg", "err"}]
    BY JobsAre DEF ThreadInv, States
  <2> QED BY <2>1, <2>2, <2>3 DEF ThreadInv, ReadInv, TypeOK
<1> QED BY <1>1, InitThread, NextThread, InitData, NextData, PTL DEF Spec

(* Frames that were answered stay answered.                                *)
LEMMA AnsweredGrows == [Next]_vars => answered \subseteq answered'
BY DEF Next, ThreadStep, vars, SkipWrite, SendRequest, SendFails, Receive, TooLong, Timeout,
       CheckConfirmation, Stop, Free, GiveCommand, Command, LineStep, Serve, LoseAnswer, GarbleAnswer,
       LoseRequest, Arrive, FieldChange, history

(* A point takes the values of an answer only, and of one to it.           *)
LEMMA NextInvented ==
  ThreadInv /\ DataInv /\ ReadInv /\ SentInv /\ NeverInvented /\ [Next]_vars => NeverInvented'
<1> SUFFICES ASSUME ThreadInv, DataInv, ReadInv, SentInv, NeverInvented, [Next]_vars,
                    NEW p \in Points, image'[p] # Zeroes(p)
             PROVE  \E f \in answered' : /\ f.slave = p.slave /\ f.fn = CmdOf(p).fn
                                         /\ f.body = <<Len(image'[p])>> \o image'[p]
  BY DEF NeverInvented
<1> HIDE DEF ByteValue, Byte, RequestOK, Frame
<1>1. answered \subseteq answered'
  BY AnsweredGrows
<1>2. CASE image'[p] = image[p]
  BY <1>1, <1>2 DEF NeverInvented
<1>3. image'[p] # image[p] => pc = "check" /\ Confirms /\ job = p /\ image'[p] = DataOf(msg)
  <2>1. p \in Jobs /\ p \notin Commands
    BY JobsAre DEF Points
  <2>2. ASSUME NEW data, Finish(-1, data) PROVE image'[p] = image[p]
    BY <2>1, <2>2 DEF Finish, DataInv
  <2>3. ASSUME CheckConfirmation, image'[p] # image[p]
        PROVE  pc = "check" /\ Confirms /\ job = p /\ image'[p] = DataOf(msg)
    <3>1. Confirms /\ pc = "check" /\ Finish(0, DataOf(msg))
      BY <2>2, <2>3 DEF CheckConfirmation
    <3> QED BY <2>1, <2>3, <3>1 DEF Finish, DataInv
  <2>4. ASSUME GiveCommand PROVE image'[p] = image[p]
    <3>1. PICK c \in Commands : \E data : Command(c, data)
      BY <2>4 DEF GiveCommand
    <3> QED BY <2>1, <3>1 DEF Command, DataInv
  <2>5. ASSUME LineStep PROVE image' = image
    BY <2>5 DEF LineStep, Serve, LoseAnswer, GarbleAnswer, LoseRequest, Arrive, FieldChange, Execute,
           memory
  <2>6. ASSUME UNCHANGED vars \/ Stop \/ Free \/ SkipWrite \/ SendRequest \/ Receive
        PROVE  image' = image
    BY <2>6 DEF vars, Stop, Free, SkipWrite, SendRequest, Receive, memory
  <2>7. ASSUME SendFails \/ TooLong \/ Timeout PROVE image'[p] = image[p]
    BY <2>2, <2>7 DEF SendFails, TooLong, Timeout
  <2> QED BY <2>3, <2>4, <2>5, <2>6, <2>7 DEF Next, ThreadStep
<1>4. CASE image'[p] # image[p]
  BY <1>1, <1>3, <1>4, ConfirmedFrame
<1> QED BY <1>2, <1>4

(* A point only ever holds what the device of its slave has answered.      *)
THEOREM InventedHolds == Spec => []NeverInvented
<1>1. Init => NeverInvented
  BY JobsAre DEF Init, NeverInvented
<1> QED BY <1>1, InitThread, NextThread, InitData, NextData, NextInvented, PTL DEF Spec

-----------------------------------------------------------------------------
(* Fresh answers.  On a timely line there is never more than one request   *)
(* or answer, and an answer is as long as it is read: it is gone when the  *)
(* thread is done with it.                                                 *)
AnswerLength(f) == 2 + MetaLength(f.fn) + DataLength(f.fn, f.body[1])

(* An answer to the request in progress.                                   *)
AnswersIt(f) ==
  /\ f \in Frame /\ Len(f.body) >= 1 /\ AnswerLength(f) = Size(f) /\ Size(f) <= MaxAduLength
  /\ req.fn \in ReadBits \union ReadRegisters /\ f.fn = req.fn =>
       \E values \in seen \intersect Seq(ByteValue) : f.body = <<Len(values)>> \o values

Quiet == bus = NoRequest /\ msg = <<>> /\ rx = <<>> /\ wire = <<>>
Unanswered == bus \in {req, NoRequest} /\ msg = <<>> /\ rx = <<>> /\ wire = <<>>
UnderWay(f) ==
  bus = NoRequest /\ msg = <<>> /\ rx = <<>> /\ wire = Bytes(f) /\ AnswersIt(f)
BeingRead(f) ==
  /\ bus = NoRequest /\ wire = <<>> /\ msg \o rx = Bytes(f) /\ AnswersIt(f)
  /\ pc = "check" => Len(msg) = Size(f)
  /\ pc = "receive" /\ step = "data" => Len(msg) + length_to_read = Size(f)

TimelyInv ==
  line = "timely" =>
    \/ pc \in {"job", "ended"} /\ Quiet
    \/ pc = "receive" /\ Unanswered
    \/ pc = "receive" /\ \E f \in Frame : UnderWay(f)
    \/ pc \in {"receive", "check"} /\ \E f \in Frame : BeingRead(f)

(* An answer is as long as its reader, who knows the function and the      *)
(* first byte after it, takes it to be.                                    *)
LEMMA ReplyLength ==
  ASSUME NEW dev \in Device, NEW r, RequestOK(r)
  PROVE  LET f == Reply(dev, r) IN
         /\ Len(f.body) >= 1 /\ AnswerLength(f) = Size(f) /\ Size(f) <= 256
         /\ r.fn \in ReadBits \union ReadRegisters /\ f.fn = r.fn =>
              Refusal(dev, r) = 0 /\ f.body = <<Len(Held(dev, r))>> \o Held(dev, r)
<1> HIDE DEF ByteValue
<1> DEFINE f == Reply(dev, r)
<1>0. r.fn \in {1, 2, 3, 4, 5, 6, 16}
  BY RequestFacts DEF ReadBits, ReadRegisters, WriteSingle
<1>1. CASE Refusal(dev, r) # 0
  <2>1. f.fn = r.fn + 128 /\ f.body = <<Refusal(dev, r)>> /\ Len(f.body) = 1
    BY <1>1 DEF Reply, Exception, ExceptionBit
  <2>2. MetaLength(f.fn) = 1
    <3>1. f.fn \notin WriteSingle \union WriteMultiple /\ f.fn # MaskWrite
      BY <1>0, <2>1 DEF WriteSingle, WriteMultiple, MaskWrite
    <3> QED BY <3>1 DEF MetaLength
  <2>3. DataLength(f.fn, f.body[1]) = 2
    <3> DEFINE n == f.fn
               c == f.body[1]
    <3>1. n \in Int /\ n > 4 /\ n \notin {ReportSlaveId, WriteAndRead}
      BY <1>0, <2>1 DEF ReportSlaveId, WriteAndRead
    <3> HIDE DEF n, c
    <3>2. DataLength(n, c) = 2
      BY <3>1 DEF DataLength, ChecksumLength
    <3> QED BY <3>2 DEF n, c
  <2>4. f.fn # r.fn
    BY <1>0, <2>1
  <2> HIDE DEF f
  <2> QED BY <2>1, <2>2, <2>3, <2>4 DEF AnswerLength, Size, f
<1>2. CASE Refusal(dev, r) = 0 /\ r.fn \in ReadBits \union ReadRegisters
  <2> DEFINE held == Held(dev, r)
  <2>1. f.fn = r.fn /\ f.body = <<Len(held)>> \o held
    <3>1. \A a, b, c : (CASE r.fn \in ReadBits \union ReadRegisters -> a
                          [] r.fn \in WriteSingle -> b [] OTHER -> c) = a
      BY <1>2 DEF ReadBits, ReadRegisters, WriteSingle
    <3> QED BY <1>2, <3>1 DEF Reply
  <2>2. held \in Seq(ByteValue) /\ Len(held) \in ByteValue /\ Len(held) <= 250
    BY <1>2, HeldType
  <2>3. MetaLength(f.fn) = 1
    <3>1. f.fn \notin WriteSingle \union WriteMultiple /\ f.fn # MaskWrite
      BY <1>2, <2>1 DEF WriteSingle, WriteMultiple, MaskWrite, ReadBits, ReadRegisters
    <3> QED BY <3>1 DEF MetaLength
  <2> HIDE DEF held, f
  <2>4. Len(f.body) = Len(held) + 1 /\ f.body[1] = Len(held) /\ Len(held) \in Nat
    BY <2>1, <2>2
  <2>5. DataLength(f.fn, f.body[1]) = Len(held) + 2
    <3> DEFINE n == f.fn
               c == f.body[1]
    <3>1. n \in Int /\ n <= 4 /\ c = Len(held)
      BY <1>2, <2>1, <2>4 DEF ReadBits, ReadRegisters
    <3> HIDE DEF n, c
    <3>2. DataLength(n, c) = c + 2
      BY <3>1 DEF DataLength, ChecksumLength
    <3> QED BY <3>1, <3>2 DEF n, c
  <2> QED BY <1>2, <2>1, <2>2, <2>3, <2>4, <2>5 DEF AnswerLength, Size, f, held
<1>3. CASE Refusal(dev, r) = 0 /\ r.fn \notin ReadBits \union ReadRegisters
  <2>1. f.fn = r.fn /\ Len(f.body) = 4
    <3>1. CASE r.fn \in WriteSingle
      <4>1. f = [slave |-> r.slave, fn |-> r.fn, body |-> <<Hi(r.addr), Lo(r.addr)>> \o r.data]
        BY <1>3, <3>1 DEF Reply
      <4>2. r.data \in Seq(ByteValue) /\ Len(r.data) = 2
        BY <3>1, RequestFacts DEF ReadBits, ReadRegisters, WriteSingle
      <4>3. Hi(r.addr) \in ByteValue /\ Lo(r.addr) \in ByteValue
        BY RequestFacts, ByteValues DEF Hi, Lo
      <4>4. Len(<<Hi(r.addr), Lo(r.addr)>> \o r.data) = 4
        <5> DEFINE h == Hi(r.addr)
                   l == Lo(r.addr)
                   d == r.data
        <5>1. h \in ByteValue /\ l \in ByteValue /\ d \in Seq(ByteValue) /\ Len(d) = 2
          BY <4>2, <4>3
        <5> HIDE DEF h, l, d
        <5>2. <<h, l>> \in Seq(ByteValue) /\ Len(<<h, l>>) = 2
          BY <5>1
        <5>3. Len(<<h, l>> \o d) = Len(<<h, l>>) + Len(d)
          BY <5>1, <5>2, ConcatProperties
        <5>4. Len(<<h, l>> \o d) = 4
          BY <5>1, <5>2, <5>3
        <5> QED BY <5>4 DEF h, l, d
      <4> QED BY <4>1, <4>4
    <3>2. CASE r.fn \notin WriteSingle
      <4>1. f = [slave |-> r.slave, fn |-> r.fn,
                 body |-> <<Hi(r.addr), Lo(r.addr), Hi(r.nb), Lo(r.nb)>>]
        BY <1>3, <3>2 DEF Reply
      <4> QED BY <4>1
    <3> QED BY <3>1, <3>2
  <2>2. f.fn \in {5, 6, 16}
    BY <1>0, <1>3, <2>1 DEF ReadBits, ReadRegisters
  <2>3. MetaLength(f.fn) = 4
    <3>1. f.fn \in WriteSingle \union WriteMultiple /\ f.fn # MaskWrite
      BY <2>2 DEF WriteSingle, WriteMultiple, MaskWrite
    <3> QED BY <3>1 DEF MetaLength
  <2>4. DataLength(f.fn, f.body[1]) = 2
    <3> DEFINE n == f.fn
               c == f.body[1]
    <3>1. n \in Int /\ n > 4 /\ n \notin {ReportSlaveId, WriteAndRead}
      BY <2>2 DEF ReportSlaveId, WriteAndRead
    <3> HIDE DEF n, c
    <3>2. DataLength(n, c) = 2
      BY <3>1 DEF DataLength, ChecksumLength
    <3> QED BY <3>2 DEF n, c
  <2> HIDE DEF f
  <2> QED BY <1>3, <2>1, <2>3, <2>4 DEF AnswerLength, Size, f
<1> QED BY <1>1, <1>2, <1>3

(* A device answers the request in progress.                               *)
LEMMA ServeAnswers ==
  ASSUME DataInv, Serve, bus = req
  PROVE  /\ bus' = NoRequest /\ UNCHANGED <<msg, rx, req>>
         /\ \E f \in Frame : wire' = wire \o Bytes(f) /\ AnswersIt(f)'
<1> HIDE DEF ByteValue, Byte, RequestOK, Frame
<1>0. PICK f \in Frame : f = Answer
  BY ExecuteData DEF Serve
<1> DEFINE dev == device[bus.slave]
<1>1. Execute /\ wire' = wire \o Bytes(f) /\ bus # NoRequest
  BY <1>0 DEF Serve, Execute
<1>2. UNCHANGED <<msg, rx, req>> /\ bus' = NoRequest
  BY <1>1 DEF Execute, thread
<1>3. /\ RequestOK(req) /\ dev \in Device /\ f \in Frame
      /\ device \in [ToSet(Slaves) -> Device] /\ bus.slave \in ToSet(Slaves)
  BY <1>1, ExecuteData DEF DataInv
<1>4. f = Reply(dev, req)
  BY <1>0 DEF Answer
<1>5. /\ Len(f.body) >= 1 /\ AnswerLength(f) = Size(f) /\ Size(f) <= 256
      /\ req.fn \in ReadBits \union ReadRegisters /\ f.fn = req.fn =>
           Refusal(dev, req) = 0 /\ f.body = <<Len(Held(dev, req))>> \o Held(dev, req)
  BY <1>3, <1>4, ReplyLength
<1>6. ASSUME req.fn \in ReadBits \union ReadRegisters, f.fn = req.fn
      PROVE  Held(dev, req) \in seen' \intersect Seq(ByteValue)
  <2>1. Executed(dev, req) = dev
    BY <1>6 DEF Executed
  <2>2. device' = [device EXCEPT ![bus.slave] = Executed(dev, req)]
    BY <1>1 DEF Execute
  <2>3. device'[req.slave] = dev
    BY <1>3, <2>1, <2>2
  <2>4. Observe(device')
    BY <1>1 DEF Execute
  <2>5. Refusal(dev, req) = 0
    BY <1>5, <1>6
  <2> HIDE DEF dev
  <2>6. Held(dev, req) \in Seq(ByteValue)
    BY <1>3, <1>6, <2>5, HeldType
  <2> QED BY <1>1, <1>6, <2>3, <2>4, <2>5, <2>6 DEF Observe
<1>7. AnswersIt(f)'
  BY <1>2, <1>3, <1>5, <1>6 DEF AnswersIt, MaxAduLength, AnswerLength, Size
<1> QED BY <1>1, <1>2, <1>7

(* What is read of an answer, to its end and not beyond it.                *)
LEMMA ReceiveTimely ==
  ASSUME ThreadInv, DataInv, ReadInv, Receive, NEW f \in Frame, BeingRead(f)
  PROVE  BeingRead(f)' /\ pc' \in {"receive", "check"}
<1> HIDE DEF ByteValue, Byte, RequestOK, Frame
<1> DEFINE n == IF Len(rx) < length_to_read THEN Len(rx) ELSE length_to_read
           got == msg \o SubSeq(rx, 1, n)
           left == length_to_read - n
           rest == SubSeq(rx, n + 1, Len(rx))
<1>1. /\ msg \in Seq(Byte) /\ rx \in Seq(Byte) /\ rx # <<>>
      /\ pc = "receive" /\ length_to_read \in Nat /\ length_to_read > 0
      /\ Len(rx) \in Nat /\ Len(msg) \in Nat
  BY DEF DataInv, ReadInv, Receive
<1>2. n \in 0 .. Len(rx) /\ n <= length_to_read /\ left \in Nat
  BY <1>1
<1>3. /\ msg' = got /\ rx' = rest
      /\ UNCHANGED <<req, bus, wire, seen>>
      /\ \/ /\ left > 0
            /\ length_to_read' = left /\ UNCHANGED <<pc, step, function>>
         \/ /\ left = 0 /\ step = "function"
            /\ \E fn \in Reading(got[HeaderLength + 1]) :
                 function' = fn /\ length_to_read' = MetaLength(fn)
            /\ step' = "meta" /\ UNCHANGED pc
         \/ /\ left = 0 /\ step = "meta"
            /\ \E count \in Reading(got[HeaderLength + 2]) :
                 /\ length_to_read' = DataLength(function, count)
                 /\ pc' = IF Len(got) + DataLength(function, count) > MaxAduLength
                            THEN "tooLong" ELSE "receive"
            /\ step' = "data" /\ UNCHANGED function
         \/ /\ left = 0 /\ step = "data"
            /\ length_to_read' = 0 /\ pc' = "check" /\ UNCHANGED <<step, function>>
  BY DEF Receive, memory, history
<1> HIDE DEF n, left, rest
<1> DEFINE x == SubSeq(rx, 1, n)
<1> HIDE DEF x
<1>4. Split(rx, n, x, rest) /\ got = msg \o x
  BY DEF Split, x, rest
<1>5. /\ x \in Seq(Byte) /\ rest \in Seq(Byte) /\ x \o rest = rx
      /\ msg \o x \in Seq(Byte) /\ Len(msg \o x) = Len(msg) + n
      /\ \A i \in 1 .. Len(msg) : (msg \o x)[i] = msg[i]
  <2>1. Moved(msg, rx, n, x, rest)
    BY <1>1, <1>2, <1>4, MovedBytes
  <2> QED BY <2>1 DEF Moved
<1> HIDE DEF got
<1>6. got \in Seq(Byte) /\ Len(got) = Len(msg) + n
  BY <1>4, <1>5
<1>7. got \o rest = Bytes(f)
  <2>1. Regroups(msg, x, rest)
    BY <1>1, <1>5, Regrouped
  <2> QED BY <1>4, <1>5, <2>1 DEF Regroups, BeingRead
<1>8. /\ Len(got) <= Size(f) /\ \A i \in 1 .. Len(got) : got[i] \in Byte /\ got[i].v = Contents(f)[i]
  <2>1. /\ Len(got \o rest) = Len(got) + Len(rest) /\ Len(rest) \in Nat /\ Len(got) \in Nat
        /\ \A i \in 1 .. Len(got) : (got \o rest)[i] = got[i]
    BY <1>5, <1>6
  <2>2. Size(f) \in Nat /\ Len(Bytes(f)) = Size(f)
    BY BytesAre, ContentsAre
  <2>3. Len(got) <= Size(f)
    BY <1>7, <2>1, <2>2
  <2>4. ASSUME NEW i \in 1 .. Len(got) PROVE got[i] \in Byte /\ got[i].v = Contents(f)[i]
    <3>1. i \in 1 .. Size(f)
      BY <2>1, <2>2, <2>3
    <3>2. got[i] = Bytes(f)[i]
      BY <1>7, <2>1
    <3> QED BY <3>1, <3>2, BytesAre
  <2> QED BY <2>3, <2>4
<1>9. AnswersIt(f)'
  BY <1>3 DEF BeingRead, AnswersIt
<1>10. wire' = <<>> /\ bus' = NoRequest /\ msg' \o rx' = Bytes(f)
  BY <1>3, <1>7 DEF BeingRead
<1>11. Len(got) + left = Len(msg) + length_to_read
  BY <1>1, <1>2, <1>6 DEF left
<1>12. CASE left > 0
  <2>1. length_to_read' = left /\ UNCHANGED <<pc, step>>
    BY <1>2, <1>3, <1>12
  <2> QED BY <1>1, <1>3, <1>9, <1>10, <1>11, <2>1 DEF BeingRead
<1>13. CASE left = 0 /\ step = "function"
  <2>1. step' = "meta" /\ pc' = "receive"
    BY <1>1, <1>3, <1>13
  <2> QED BY <1>9, <1>10, <2>1 DEF BeingRead
<1>14. CASE left = 0 /\ step = "meta"
  <2>1. PICK count \in Reading(got[HeaderLength + 2]) :
          /\ length_to_read' = DataLength(function, count)
          /\ pc' = IF Len(got) + DataLength(function, count) > MaxAduLength
                     THEN "tooLong" ELSE "receive"
    BY <1>3, <1>14
  <2>2. /\ Len(msg) >= 2 /\ function \in Reading(msg[2])
        /\ Len(got) = 2 + MetaLength(function) /\ MetaLength(function) \in {1, 4, 6}
    BY <1>1, <1>6, <1>11, <1>14, LengthsAre DEF ReadInv
  <2>3. function = f.fn
    <3>1. got[2] = msg[2]
      BY <1>1, <1>4, <1>5, <2>2
    <3>2. got[2] \in Byte /\ got[2].v = f.fn
      BY <1>8, <2>2, ContentsAre
    <3>3. f.fn \in ByteValue
      BY DEF Frame
    <3>4. f.fn # Crc
      BY <3>3, ByteValues DEF Crc
    <3> QED BY <2>2, <3>1, <3>2, <3>4, ReadingIs
  <2>4. count = f.body[1]
    <3>1. Len(f.body) >= 1 /\ f.body \in Seq(ByteValue)
      BY DEF BeingRead, AnswersIt, Frame
    <3>2. Contents(f)[3] = f.body[1]
      <4>1. 1 \in 1 .. Len(f.body) /\ 1 + 2 = 3
        BY <3>1
      <4> QED BY <4>1, ContentsAre
    <3>3. got[3] \in Byte /\ got[3].v = f.body[1]
      BY <1>8, <2>2, <3>2
    <3>4. f.body[1] \in ByteValue
      BY <3>1
    <3>5. f.body[1] # Crc
      BY <3>4, ByteValues DEF Crc
    <3>6. count \in Reading(got[3])
      BY DEF HeaderLength
    <3> QED BY <3>3, <3>5, <3>6, ReadingIs
  <2>5. Len(got) + DataLength(function, count) = Size(f) /\ Size(f) <= MaxAduLength
    BY <2>2, <2>3, <2>4 DEF BeingRead, AnswersIt, AnswerLength
  <2>6. pc' = "receive"
    <3>1. Size(f) \in Nat
      BY ContentsAre
    <3> QED BY <2>1, <2>5, <3>1 DEF MaxAduLength
  <2> QED BY <1>3, <1>9, <1>10, <2>1, <2>5, <2>6 DEF BeingRead
<1>15. CASE left = 0 /\ step = "data"
  <2>1. pc' = "check"
    BY <1>3, <1>15
  <2>2. Len(got) = Size(f)
    <3>1. Len(msg) + length_to_read = Size(f)
      BY <1>1, <1>15 DEF BeingRead
    <3> QED BY <1>6, <1>11, <1>15, <3>1, <1>1, <1>2
  <2> QED BY <1>3, <1>9, <1>10, <2>1, <2>2 DEF BeingRead
<1> QED BY <1>2, <1>12, <1>13, <1>14, <1>15 DEF ReadInv

(* The thread is done with a request on a timely line.                     *)
LEMMA FinishTimely ==
  ASSUME ThreadInv, NEW rc, NEW data, Finish(rc, data), bus = NoRequest, wire = <<>>, rx = <<>>,
         UNCHANGED field
  PROVE  pc' \in {"job", "ended"} /\ Quiet'
BY FinishOK DEF Finish, field, Quiet

(* What is seen only grows while a request is in progress.                 *)
LEMMA SeenGrows ==
  ASSUME NEW f, AnswersIt(f), UNCHANGED req, seen \subseteq seen'
  PROVE  AnswersIt(f)'
BY DEF AnswersIt, AnswerLength, Size

(* The devices and a timely line: at most one request or answer at a time. *)
LEMMA LineTimely ==
  ASSUME ThreadInv, DataInv, ReadInv, TimelyInv, line = "timely", LineStep
  PROVE  TimelyInv'
<1> HIDE DEF ByteValue, Byte, RequestOK, Frame
<1>1. UNCHANGED <<pc, job, req, msg, length_to_read, step, function>>
  BY DEF LineStep, Serve, LoseAnswer, GarbleAnswer, LoseRequest, Arrive, FieldChange, Execute,
         thread
<1>2. \/ pc \in {"job", "ended"} /\ Quiet
      \/ pc = "receive" /\ Unanswered
      \/ pc = "receive" /\ \E f \in Frame : UnderWay(f)
      \/ pc \in {"receive", "check"} /\ \E f \in Frame : BeingRead(f)
  BY DEF TimelyInv
<1>3. ~Fault
  BY DEF Fault
<1>4. bus # NoRequest => pc = "receive" /\ Unanswered /\ bus = req
  BY <1>2 DEF Quiet, Unanswered, UnderWay, BeingRead
<1>5. wire # <<>> => pc = "receive" /\ \E f \in Frame : UnderWay(f)
  BY <1>2 DEF Quiet, Unanswered, UnderWay, BeingRead
<1>6. CASE Serve
  <2>1. bus # NoRequest
    BY <1>6 DEF Serve, Execute
  <2>2. pc = "receive" /\ Unanswered /\ bus = req
    BY <1>4, <2>1
  <2>3. PICK f \in Frame : wire' = wire \o Bytes(f) /\ AnswersIt(f)'
    BY <1>6, <2>2, ServeAnswers
  <2>4. bus' = NoRequest /\ UNCHANGED rx
    BY <1>6, <2>2, ServeAnswers
  <2>5. wire' = Bytes(f)
    BY <2>2, <2>3, BytesAre DEF Unanswered
  <2>6. UnderWay(f)'
    BY <1>1, <2>2, <2>3, <2>4, <2>5 DEF Unanswered, UnderWay
  <2> QED BY <1>1, <2>2, <2>6 DEF TimelyInv
<1>7. CASE LoseAnswer \/ LoseRequest
  <2>1. bus # NoRequest /\ bus' = NoRequest /\ UNCHANGED <<rx, wire>>
    BY <1>7 DEF LoseAnswer, LoseRequest, Execute
  <2>2. Unanswered'
    BY <1>1, <1>4, <2>1 DEF Unanswered
  <2> QED BY <1>1, <1>4, <2>1, <2>2 DEF TimelyInv
<1>8. CASE GarbleAnswer
  BY <1>3, <1>8 DEF GarbleAnswer
<1>9. CASE Arrive
  <2>1. wire # <<>> /\ UNCHANGED <<bus, seen>>
    BY <1>9 DEF Arrive, history
  <2>2. pc = "receive"
    BY <1>5, <2>1
  <2>3. PICK f \in Frame : UnderWay(f)
    BY <1>5, <2>1
  <2>4. PICK n \in 1 .. Len(wire) :
          /\ IF n = Len(wire) THEN UNCHANGED faults ELSE Fault
          /\ rx' = rx \o SubSeq(wire, 1, n) /\ wire' = SubSeq(wire, n + 1, Len(wire))
    BY <1>9 DEF Arrive
  <2>5. n = Len(wire)
    BY <1>3, <2>4
  <2>6. wire \in Seq(Byte) /\ wire = Bytes(f) /\ rx = <<>> /\ msg = <<>>
    BY <2>3 DEF DataInv, UnderWay
  <2>7. SubSeq(wire, 1, n) = wire /\ SubSeq(wire, n + 1, Len(wire)) = <<>>
    <3>1. SubSeq(wire, 1, Len(wire)) = wire
      BY <2>6, SubSeqFull
    <3>2. Len(wire) \in Nat
      BY <2>6
    <3>3. SubSeq(wire, Len(wire) + 1, Len(wire)) = <<>>
      BY <3>2, SubSeqEmpty
    <3> QED BY <2>5, <3>1, <3>3
  <2>8. rx' = Bytes(f) /\ wire' = <<>>
    BY <2>4, <2>6, <2>7
  <2>9. msg' \o rx' = Bytes(f)
    BY <1>1, <2>6, <2>8
  <2>10. AnswersIt(f)'
    BY <1>1, <2>1, <2>3, SeenGrows DEF UnderWay
  <2>11. ~(pc = "receive" /\ step = "data")
    BY <2>6 DEF ReadInv
  <2>12. BeingRead(f)'
    BY <1>1, <2>1, <2>2, <2>3, <2>8, <2>9, <2>10, <2>11 DEF BeingRead, UnderWay
  <2> QED BY <1>1, <2>2, <2>12 DEF TimelyInv
<1>10. CASE FieldChange
  <2>1. UNCHANGED <<bus, wire, rx>> /\ seen \subseteq seen'
    BY <1>10 DEF FieldChange, Observe
  <2>2. \A f : AnswersIt(f) => AnswersIt(f)'
    BY <1>1, <2>1, SeenGrows
  <2>3. (Quiet => Quiet') /\ (Unanswered => Unanswered')
    BY <1>1, <2>1 DEF Quiet, Unanswered
  <2>4. \A f : (UnderWay(f) => UnderWay(f)') /\ (BeingRead(f) => BeingRead(f)')
    BY <1>1, <2>1, <2>2 DEF UnderWay, BeingRead, Size
  <2> QED BY <1>1, <1>2, <2>3, <2>4 DEF TimelyInv
<1> QED BY <1>6, <1>7, <1>8, <1>9, <1>10 DEF LineStep

(* Every step on a timely line.                                            *)
LEMMA NextTimely ==
  ThreadInv /\ DataInv /\ ReadInv /\ SentInv /\ TimelyInv /\ [Next]_vars => TimelyInv'
<1> SUFFICES ASSUME ThreadInv, DataInv, ReadInv, SentInv, TimelyInv, [Next]_vars, line' = "timely"
             PROVE  TimelyInv'
  BY DEF TimelyInv
<1> HIDE DEF ByteValue, Byte, RequestOK, Frame
<1>1. line = "timely"
  BY DEF Next, ThreadStep, vars, budget, SkipWrite, SendRequest, SendFails, Receive, TooLong,
         Timeout, CheckConfirmation, Stop, Free, GiveCommand, Command, LineStep, Serve, LoseAnswer,
         GarbleAnswer, LoseRequest, Arrive, FieldChange, Execute
<1>2. \/ pc \in {"job", "ended"} /\ Quiet
      \/ pc = "receive" /\ Unanswered
      \/ pc = "receive" /\ \E f \in Frame : UnderWay(f)
      \/ pc \in {"receive", "check"} /\ \E f \in Frame : BeingRead(f)
  BY <1>1 DEF TimelyInv
<1>3. ~Fault
  BY <1>1 DEF Fault
<1>4. CASE UNCHANGED <<thread, field, seen>>
  <2>1. UNCHANGED <<pc, req, msg, length_to_read, step, bus, wire, rx, seen>>
    BY <1>4 DEF thread, field
  <2>2. \A f : AnswersIt(f) => AnswersIt(f)'
    BY <2>1, SeenGrows
  <2>3. (Quiet => Quiet') /\ (Unanswered => Unanswered')
    BY <2>1 DEF Quiet, Unanswered
  <2>4. \A f : (UnderWay(f) => UnderWay(f)') /\ (BeingRead(f) => BeingRead(f)')
    BY <2>1, <2>2 DEF UnderWay, BeingRead, Size
  <2> QED BY <1>2, <2>1, <2>3, <2>4 DEF TimelyInv
<1>5. CASE UNCHANGED vars \/ Stop \/ Free \/ GiveCommand
  BY <1>4, <1>5 DEF vars, Stop, Free, GiveCommand, Command, history
<1>6. CASE SkipWrite
  <2>1. pc = "job" /\ pc' \in {"job", "ended"} /\ UNCHANGED <<msg, bus, wire, rx>>
    BY <1>6, NextJobOK DEF SkipWrite, field
  <2>2. Quiet'
    BY <1>2, <2>1 DEF Quiet
  <2> QED BY <2>1, <2>2 DEF TimelyInv
<1>7. CASE SendRequest
  <2>1. /\ pc = "job" /\ pc' = "receive" /\ bus' = RequestOf(job) /\ req' = RequestOf(job)
        /\ msg' = <<>> /\ UNCHANGED <<wire, rx>>
    BY <1>7 DEF SendRequest
  <2>2. Unanswered'
    BY <1>2, <2>1 DEF Quiet, Unanswered
  <2> QED BY <2>1, <2>2 DEF TimelyInv
<1>8. CASE SendFails
  <2>1. pc = "job" /\ Finish(-1, <<>>) /\ UNCHANGED field
    BY <1>8 DEF SendFails
  <2>2. bus = NoRequest /\ wire = <<>> /\ rx = <<>>
    BY <1>2, <2>1 DEF Quiet
  <2> QED BY <2>1, <2>2, FinishTimely DEF TimelyInv
<1>9. CASE Receive
  <2>1. rx # <<>>
    BY <1>9 DEF Receive
  <2>2. PICK f \in Frame : BeingRead(f)
    BY <1>2, <2>1 DEF Quiet, Unanswered, UnderWay
  <2> QED BY <1>9, <2>2, ReceiveTimely DEF TimelyInv
<1>10. CASE TooLong
  BY <1>2, <1>10 DEF TooLong
<1>11. CASE Timeout
  <2>1. /\ rx = <<>> /\ bus = NoRequest /\ wire = <<>>
        /\ Finish(-1, <<>>) /\ UNCHANGED field
    BY <1>3, <1>11 DEF Timeout
  <2> QED BY <2>1, FinishTimely DEF TimelyInv
<1>12. CASE CheckConfirmation
  <2>1. pc = "check" /\ UNCHANGED field
    BY <1>12 DEF CheckConfirmation
  <2>2. PICK f \in Frame : BeingRead(f)
    BY <1>2, <2>1
  <2>3. rx = <<>>
    <3>1. Len(msg) = Len(Bytes(f)) /\ msg \o rx = Bytes(f)
      BY <2>1, <2>2, BytesAre DEF BeingRead
    <3>2. msg \in Seq(Byte) /\ rx \in Seq(Byte)
      BY DEF DataInv
    <3>3. Len(msg \o rx) = Len(msg) + Len(rx)
      BY <3>2
    <3>4. Len(rx) = 0
      BY <3>1, <3>2, <3>3
    <3> QED BY <3>2, <3>4, EmptySeq
  <2>4. \E rc, data : Finish(rc, data)
    BY <1>12 DEF CheckConfirmation
  <2>5. bus = NoRequest /\ wire = <<>>
    BY <2>2 DEF BeingRead
  <2> QED BY <2>1, <2>3, <2>4, <2>5, FinishTimely DEF TimelyInv
<1>13. CASE LineStep
  BY <1>1, <1>13, LineTimely
<1> QED BY <1>5, <1>6, <1>7, <1>8, <1>9, <1>10, <1>11, <1>12, <1>13 DEF Next, ThreadStep

(* What follows the count is one sequence only.                            *)
LEMMA SameAfterCount ==
  ASSUME NEW S, NEW a \in Seq(S), NEW b \in Seq(S), <<Len(a)>> \o a = <<Len(b)>> \o b
  PROVE  a = b
<1>1. /\ Len(<<Len(a)>> \o a) = 1 + Len(a) /\ \A i \in 1 .. Len(a) : (<<Len(a)>> \o a)[i + 1] = a[i]
      /\ Len(<<Len(b)>> \o b) = 1 + Len(b) /\ \A i \in 1 .. Len(b) : (<<Len(b)>> \o b)[i + 1] = b[i]
  OBVIOUS
<1>2. Len(a) = Len(b) /\ Len(a) \in Nat
  BY <1>1
<1>3. \A i \in 1 .. Len(a) : a[i] = b[i]
  BY <1>1, <1>2
<1> QED BY <1>2, <1>3, SeqEqual

(* On a timely line an answer that is accepted is one to this request: a   *)
(* value its cells had after it was sent.                                  *)
THEOREM FreshHolds == Spec => []FreshAnswers
<1>1. Init => TimelyInv
  BY DEF Init, TimelyInv, Quiet
<1>2. ThreadInv /\ DataInv /\ ReadInv /\ SentInv /\ TimelyInv => FreshAnswers
  <2> SUFFICES ASSUME ThreadInv, DataInv, ReadInv, SentInv, TimelyInv,
                      line = "timely", pc = "check", Confirms, job \in Points
               PROVE  DataOf(msg) \in seen
    BY DEF FreshAnswers
  <2> HIDE DEF ByteValue, Byte, RequestOK, Frame
  <2>1. PICK f \in Frame : BeingRead(f)
    BY DEF TimelyInv
  <2> DEFINE g == msg[1].frame
             data == DataOf(msg)
  <2>2. /\ g \in Frame /\ msg = Bytes(g) /\ g.fn = CmdOf(job).fn
        /\ data \in Seq(ByteValue) /\ g.body = <<Len(data)>> \o data
    BY ConfirmedFrame
  <2> HIDE DEF g, data
  <2>3. RequestOK(req) /\ req.by = job
    BY DEF DataInv, InRequest
  <2>4. req.fn = CmdOf(job).fn /\ req.fn \in ReadBits \union ReadRegisters
    BY <2>3 DEF RequestOK
  <2>5. f = g
    <3>1. msg \o rx = Bytes(f) /\ msg \in Seq(Byte) /\ rx \in Seq(Byte) /\ Len(msg) = Size(f)
      BY <2>1 DEF BeingRead, DataInv
    <3>2. Size(f) \in Nat /\ Size(f) >= 4
      BY ContentsAre
    <3>3. (msg \o rx)[1] = msg[1] /\ 1 \in 1 .. Size(f)
      BY <3>1, <3>2
    <3>4. msg[1].frame = f
      BY <3>1, <3>3, BytesAre
    <3> QED BY <3>4 DEF g
  <2>6. PICK values \in seen \intersect Seq(ByteValue) : f.body = <<Len(values)>> \o values
    BY <2>1, <2>2, <2>4, <2>5 DEF BeingRead, AnswersIt
  <2>7. values = data
    BY <2>2, <2>5, <2>6, SameAfterCount
  <2> QED BY <2>6, <2>7 DEF data
<1> QED BY <1>1, <1>2, InitThread, NextThread, InitData, NextData, NextTimely, PTL DEF Spec
=============================================================================
