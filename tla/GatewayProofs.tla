--------------------------- MODULE GatewayProofs ---------------------------
(***************************************************************************)
(* Proofs about the process image of the gateway, for any number of points,*)
(* buses and clients.                                                      *)
(***************************************************************************)
EXTENDS Gateway, SequenceTheorems, TLAPS

(* Where a thread that holds, or is about to take, a mutex stands.         *)
ControlInv ==
  /\ \A m \in Masters :
       /\ mb_pc[m] \in {"lock", "write"} => Visited(m) \in WritePoints
       /\ mb_pc[m] = "store" => Visited(m) \in ReadPoints
  /\ main_pc = "send" => main_at <= Len(ReadOrder)
  /\ \A c \in Clients : task[c] = "interrogate_send" => at[c] <= Len(ReadOrder)

(* The values of the constants.                                            *)
LEMMA Constants ==
  /\ None \notin Values /\ None \notin Threads /\ Zero \in Values
  /\ \A m \in Masters : Script[m] \in Seq(Points) /\ Len(Script[m]) \in Nat \ {0}
  /\ \A m \in Masters : \A i \in 1 .. Len(Script[m]) : Script[m][i] \in Points
  /\ Len(ReadOrder) \in Nat
  /\ \A i \in 1 .. Len(ReadOrder) : ReadOrder[i] \in ReadPoints
BY PointsAssumption, ValuesAssumption, ScriptAssumption, ThreadsAssumption

(* The initial state.                                                      *)
LEMMA InitIInv == Init => TypeOK /\ ControlInv /\ LockDiscipline /\ CommandsAreKept
<1> SUFFICES ASSUME Init PROVE TypeOK /\ ControlInv /\ LockDiscipline /\ CommandsAreKept
  OBVIOUS
<1>1. TypeOK
  BY Constants, BoundsAssumption DEF Init, TypeOK, ImageOK, FieldOK, ModbusOK, MainOK, ConnectionOK,
                                     HandlerOK, HistoryOK, Owners, States
<1>2. ControlInv
  BY DEF Init, ControlInv
<1>3. LockDiscipline
  BY Constants DEF Init, LockDiscipline, Holds, Points, Threads
<1>4. CommandsAreKept
  BY DEF Init, CommandsAreKept, Points
<1> QED BY <1>1, <1>2, <1>3, <1>4

-----------------------------------------------------------------------------
(* Types.                                                                  *)

(* What a step leaves alone keeps its type.                                *)
LEMMA Unchanged ==
  ASSUME TypeOK
  PROVE  /\ UNCHANGED image => ImageOK'
         /\ UNCHANGED fieldVars => FieldOK'
         /\ UNCHANGED mbVars => ModbusOK'
         /\ UNCHANGED mainVars => MainOK'
         /\ UNCHANGED connVars => ConnectionOK'
         /\ UNCHANGED handlerVars => HandlerOK'
         /\ UNCHANGED <<commanded, stimuli>> => HistoryOK'
BY DEF TypeOK, ImageOK, FieldOK, ModbusOK, MainOK, ConnectionOK, HandlerOK, HistoryOK,
       image, fieldVars, mbVars, mainVars, connVars, handlerVars

(* The place of a Modbus thread in its script.                             *)
LEMMA AdvanceType ==
  ASSUME TypeOK, NEW m \in Masters, Advance(m)
  PROVE  /\ mb_pc' \in [Masters -> {"visit", "lock", "write", "store"}]
         /\ mb_at' \in [Masters -> Nat]
         /\ \A n \in Masters : mb_at'[n] \in 1 .. Len(Script[n])
BY Constants DEF Advance, TypeOK, ModbusOK

(* A thread visits a point.                                                *)
LEMMA VisitedType ==
  ASSUME TypeOK, NEW m \in Masters
  PROVE  Visited(m) \in Points
BY Constants DEF TypeOK, ModbusOK, Visited

(* Events have their type.                                                 *)
LEMMA EnqueueType ==
  ASSUME TypeOK, NEW e \in Event, EnqueueASDU(e)
  PROVE  events' \in [Clients -> Seq(Event)]
<1>1. ASSUME NEW c \in Clients PROVE Push(events[c], e) \in Seq(Event)
  BY BoundsAssumption DEF TypeOK, ConnectionOK, Push
<1> QED BY <1>1 DEF EnqueueASDU, TypeOK, ConnectionOK

(* Every configurable function writes, and writes a value.                 *)
LEMMA WriteSends ==
  ASSUME TypeOK, ControlInv, NEW m \in Masters, WriteIO(m)
  PROVE  /\ Visited(m) \in WritePoints
         /\ Sent(Visited(m))
         /\ OnTheWire(Visited(m), mem[Visited(m)]) \in Values
<1>1. Visited(m) \in WritePoints
  BY DEF WriteIO, ControlInv
<1>2. Function[Visited(m)] # MODBUS_FC_WRITE_MULTIPLE_COILS
  BY <1>1, FunctionAssumption DEF WriteFunctions, MODBUS_FC_WRITE_MULTIPLE_COILS
<1>3. mem[Visited(m)] \in Values
  BY <1>1 DEF TypeOK, ImageOK, Points
<1> QED BY <1>1, <1>2, <1>3, FunctionAssumption DEF WriteIO, OnTheWire

(* What is reported of a point is an event.                                *)
LEMMA ReportType ==
  ASSUME TypeOK, NEW r \in ReadPoints
  PROVE  ReportOf(r) \in Report /\ [point |-> r, report |-> ReportOf(r)] \in Event
BY DEF TypeOK, ImageOK, ReportOf, Report, Event, Points

(* Steps of a Modbus thread keep the types.                                *)
LEMMA ModbusType ==
  ASSUME TypeOK, ControlInv, NEW m \in Masters, ModbusStep(m)
  PROVE  TypeOK'
<1>1. CASE WriteCheck(m)
  <2>1. ModbusOK'
    BY <1>1, AdvanceType DEF WriteCheck, TypeOK, ModbusOK
  <2> QED BY <1>1, <2>1, Unchanged DEF WriteCheck, TypeOK
<1>2. CASE WriteLock(m)
  <2>1. ImageOK'
    BY <1>2, VisitedType DEF WriteLock, Acquire, TypeOK, ImageOK, Owners, Threads
  <2>2. ModbusOK'
    BY <1>2 DEF WriteLock, TypeOK, ModbusOK
  <2> QED BY <1>2, <2>1, <2>2, Unchanged DEF WriteLock, TypeOK
<1>3. CASE WriteIO(m)
  <2>1. Visited(m) \in WritePoints
    BY <1>3 DEF WriteIO, Sent, ControlInv
  <2>2. ImageOK'
    BY <1>3, <2>1 DEF WriteIO, Sent, Release, TypeOK, ImageOK, Owners, States, Points
  <2>3. FieldOK'
    BY <1>3, <2>1, WriteSends DEF WriteIO, Sent, TypeOK, FieldOK
  <2>4. ModbusOK'
    BY <1>3, AdvanceType DEF WriteIO, Sent, TypeOK, ModbusOK
  <2>5. HistoryOK'
    BY <1>3, <2>1 DEF WriteIO, Sent, TypeOK, HistoryOK
  <2> QED BY <1>3, <2>2, <2>3, <2>4, <2>5, Unchanged DEF WriteIO, Sent, TypeOK
<1>4. CASE ReadIO(m)
  <2>1. ModbusOK'
    BY <1>4 DEF ReadIO, TypeOK, ModbusOK, FieldOK
  <2> QED BY <1>4, <2>1, Unchanged DEF ReadIO, TypeOK
<1>5. CASE ReadStore(m)
  <2>1. Visited(m) \in Points /\ StatesAfterRead(Visited(m), mb_data[m]) \subseteq States
    BY VisitedType DEF StatesAfterRead, States
  <2>2. ImageOK'
    BY <1>5, <2>1 DEF ReadStore, TypeOK, ImageOK, ModbusOK
  <2>3. ModbusOK'
    BY <1>5, AdvanceType DEF ReadStore, TypeOK, ModbusOK
  <2> QED BY <1>5, <2>2, <2>3, Unchanged DEF ReadStore, TypeOK
<1> QED BY <1>1, <1>2, <1>3, <1>4, <1>5 DEF ModbusStep

(* Steps of the main loop keep the types.                                  *)
LEMMA MainType ==
  ASSUME TypeOK, ControlInv, MainStep
  PROVE  TypeOK'
<1> USE DEF mainVars
<1>1. CASE MainLock
  <2>1. ReadOrder[main_at] \in Points /\ main_at \in Nat
    BY <1>1, Constants DEF MainLock, TypeOK, MainOK, Points
  <2>2. ImageOK'
    BY <1>1, <2>1 DEF MainLock, Acquire, TypeOK, ImageOK, Owners, Threads
  <2>3. MainOK'
    BY <1>1 DEF MainLock, TypeOK, MainOK
  <2> QED BY <1>1, <2>2, <2>3, Unchanged DEF MainLock, TypeOK
<1>2. CASE MainSend
  <2> DEFINE r == ReadOrder[main_at]
  <2>1. r \in ReadPoints /\ main_at \in 1 .. Len(ReadOrder)
    BY <1>2, Constants DEF MainSend, ControlInv, TypeOK, MainOK
  <2>2. ImageOK'
    BY <1>2, <2>1 DEF MainSend, Release, TypeOK, ImageOK, Owners, States, Points
  <2>3. MainOK'
    BY <1>2, <2>1, Constants DEF MainSend, TypeOK, MainOK
  <2>4. events' \in [Clients -> Seq(Event)]
    BY <1>2, <2>1, ReportType, EnqueueType DEF MainSend, TypeOK, ConnectionOK
  <2>5. ConnectionOK'
    BY <1>2, <2>4 DEF MainSend, TypeOK, ConnectionOK
  <2> QED BY <1>2, <2>2, <2>3, <2>5, Unchanged DEF MainSend, TypeOK
<1>3. CASE MainEndsHighPass
  <2>1. MainOK'
    BY <1>3, Constants, BoundsAssumption DEF MainEndsHighPass, TypeOK, MainOK
  <2> QED BY <1>3, <2>1, Unchanged DEF MainEndsHighPass, TypeOK
<1>4. CASE MainEndsLowPass
  <2>1. MainOK'
    BY <1>4, Constants, BoundsAssumption DEF MainEndsLowPass, TypeOK, MainOK
  <2>2. [point |-> None, report |-> None] \in Event
    BY DEF Event
  <2>3. ConnectionOK'
    BY <1>4, <2>2, EnqueueType DEF MainEndsLowPass, TypeOK, ConnectionOK
  <2> QED BY <1>4, <2>1, <2>3, Unchanged DEF MainEndsLowPass, TypeOK
<1> QED BY <1>1, <1>2, <1>3, <1>4 DEF MainStep

(* The point asduHandler tries is one that commands can address.           *)
LEMMA TriedType ==
  ASSUME TypeOK, NEW c \in Clients, Trying(c)
  PROVE  /\ Tried(c) \in WritePoints
         /\ Element(c) \in Elements
<1>1. Element(c) \in Elements
  <2>1. Element(c) \in Elements \union {Truncated} /\ Element(c).address \in Addresses
    BY DEF Trying, Decoded, Element, TypeOK, HandlerOK
  <2> QED BY <2>1, CandidatesAssumption DEF Truncated
<1>2. Found(Element(c).address) \in Seq(WritePoints)
  BY <1>1, CandidatesAssumption DEF Found, Elements
<1>3. at[c] \in 1 .. Len(Found(Element(c).address))
  BY <1>2 DEF Trying, Decoded, TypeOK, HandlerOK
<1> QED BY <1>1, <1>2, <1>3 DEF Tried

(* Steps of the handlers keep the types.                                   *)
LEMMA HandlerType ==
  ASSUME TypeOK, ControlInv, NEW c \in Clients, HandlerStep(c)
  PROVE  TypeOK'
<1> USE DEF handlerVars
<1>a. ASSUME NextElement(c), asdu[c] # << >>
      PROVE  /\ asdu' \in [Clients -> Seq(Elements \union {Truncated})]
             /\ at' \in [Clients -> Nat \ {0}]
  BY <1>a DEF NextElement, TypeOK, HandlerOK
<1>1. CASE InterrogateLock(c)
  <2>1. ReadOrder[at[c]] \in Points
    BY <1>1, Constants DEF InterrogateLock, TypeOK, HandlerOK, Points
  <2>2. ImageOK'
    BY <1>1, <2>1 DEF InterrogateLock, Acquire, TypeOK, ImageOK, Owners, Threads
  <2>3. HandlerOK'
    BY <1>1 DEF InterrogateLock, TypeOK, HandlerOK
  <2> QED BY <1>1, <2>2, <2>3, Unchanged DEF InterrogateLock, TypeOK
<1>2. CASE InterrogateSend(c)
  <2> DEFINE r == ReadOrder[at[c]]
  <2>1. r \in ReadPoints
    BY <1>2, Constants DEF InterrogateSend, ControlInv, TypeOK, HandlerOK
  <2>2. ImageOK'
    BY <1>2, <2>1 DEF InterrogateSend, Release, TypeOK, ImageOK, Owners, Points
  <2>3. ConnectionOK'
    BY <1>2, <2>1, ReportType DEF InterrogateSend, TypeOK, ConnectionOK
  <2>4. HandlerOK'
    BY <1>2 DEF InterrogateSend, TypeOK, HandlerOK
  <2> QED BY <1>2, <2>2, <2>3, <2>4, Unchanged DEF InterrogateSend, TypeOK
<1>3. CASE EndInterrogation(c)
  <2>1. HandlerOK'
    BY <1>3 DEF EndInterrogation, TypeOK, HandlerOK, Replies
  <2> QED BY <1>3, <2>1, Unchanged DEF EndInterrogation, TypeOK
<1>4. CASE AcceptCommand(c)
  <2>1. Tried(c) \in WritePoints /\ Element(c).value \in Values \union {Indeterminate}
    BY <1>4, TriedType DEF AcceptCommand, Stored, Elements
  <2>2. ImageOK'
    BY <1>4, <2>1 DEF AcceptCommand, Stored, TypeOK, ImageOK, States, Points
  <2>3. HandlerOK'
    BY <1>4, <1>a DEF AcceptCommand, Stored, Trying, Decoded, TypeOK, HandlerOK, Causes, Replies
  <2>4. HistoryOK'
    BY <1>4, <2>1 DEF AcceptCommand, Stored, TypeOK, HistoryOK
  <2> QED BY <1>4, <2>2, <2>3, <2>4, Unchanged DEF AcceptCommand, Stored, TypeOK
<1>5. CASE RefuseCommand(c)
  <2>1. Tried(c) \in Points
    BY <1>5, TriedType DEF RefuseCommand, Points
  <2>2. ImageOK'
    BY <1>5, <2>1 DEF RefuseCommand, Acquire, TypeOK, ImageOK, Owners, Threads
  <2>3. HandlerOK'
    BY <1>5 DEF RefuseCommand, TypeOK, HandlerOK
  <2> QED BY <1>5, <2>2, <2>3, Unchanged DEF RefuseCommand, TypeOK
<1>6. CASE UnknownCause(c)
  <2>1. HandlerOK'
    BY <1>6, <1>a DEF UnknownCause, Trying, Decoded, TypeOK, HandlerOK, Causes, Replies
  <2> QED BY <1>6, <2>1, Unchanged DEF UnknownCause, TypeOK
<1>7. CASE NotFound(c)
  <2>1. HandlerOK'
    BY <1>7, <1>a DEF NotFound, Decoded, TypeOK, HandlerOK
  <2> QED BY <1>7, <2>1, Unchanged DEF NotFound, Decoded, TypeOK
<1>8. CASE EndCommand(c)
  <2>1. HandlerOK'
    BY <1>8 DEF EndCommand, TypeOK, HandlerOK, Replies
  <2> QED BY <1>8, <2>1, Unchanged DEF EndCommand, TypeOK
<1>9. CASE GiveUp(c)
  <2>1. HandlerOK'
    BY <1>9 DEF GiveUp, TypeOK, HandlerOK, Replies
  <2> QED BY <1>9, <2>1, Unchanged DEF GiveUp, TypeOK
<1> QED BY <1>1, <1>2, <1>3, <1>4, <1>5, <1>6, <1>7, <1>8, <1>9 DEF HandlerStep

(* The steps of a client, and the transmission of an event to it.          *)
LEMMA ClientType ==
  ASSUME TypeOK, NEW c \in Clients, ClientStep(c) \/ Transmit(c)
  PROVE  TypeOK'
<1>a. Stimulus /\ UNCHANGED commanded => HistoryOK'
  BY BoundsAssumption DEF Stimulus, TypeOK, HistoryOK
<1>1. CASE Connect(c)
  <2>1. ConnectionOK'
    BY <1>1 DEF Connect, TypeOK, ConnectionOK
  <2> QED BY <1>1, <1>a, <2>1, Unchanged DEF Connect, TypeOK
<1>2. CASE StartDT(c)
  <2>1. ConnectionOK'
    BY <1>2 DEF StartDT, TypeOK, ConnectionOK
  <2> QED BY <1>2, <2>1, Unchanged DEF StartDT, TypeOK
<1>3. CASE Disconnect(c)
  <2>1. ConnectionOK'
    BY <1>3 DEF Disconnect, TypeOK, ConnectionOK
  <2>2. HandlerOK'
    BY <1>3 DEF Disconnect, TypeOK, HandlerOK
  <2> QED BY <1>3, <1>a, <2>1, <2>2, Unchanged DEF Disconnect, TypeOK
<1>4. CASE Transmit(c)
  <2> DEFINE e == Head(events[c])
  <2>1. e \in Event /\ Tail(events[c]) \in Seq(Event)
    BY <1>4 DEF Transmit, TypeOK, ConnectionOK
  <2>2. \A r \in ReadPoints : r = e.point => e.report \in Report
    BY <2>1, PointsAssumption DEF Event, Points
  <2>3. ConnectionOK'
    BY <1>4, <2>1, <2>2 DEF Transmit, TypeOK, ConnectionOK
  <2> QED BY <1>4, <2>3, Unchanged DEF Transmit, TypeOK
<1>5. CASE StartInterrogation(c)
  <2>1. HandlerOK'
    BY <1>5 DEF StartInterrogation, TypeOK, HandlerOK, Replies
  <2> QED BY <1>5, <1>a, <2>1, Unchanged DEF StartInterrogation, TypeOK
<1>6. CASE StartCommand(c)
  <2>1. HandlerOK'
    BY <1>6, RequestsAssumption DEF StartCommand, TypeOK, HandlerOK, Causes
  <2> QED BY <1>6, <1>a, <2>1, Unchanged DEF StartCommand, TypeOK
<1>7. CASE RefuseInterrogation(c)
  <2>1. HandlerOK'
    BY <1>7 DEF RefuseInterrogation, TypeOK, HandlerOK, Replies
  <2> QED BY <1>7, <1>a, <2>1, Unchanged DEF RefuseInterrogation, TypeOK
<1> QED BY <1>1, <1>2, <1>3, <1>4, <1>5, <1>6, <1>7 DEF ClientStep

(* Steps of field and network keep the types.                              *)
LEMMA EnvironmentType ==
  ASSUME TypeOK,
         (\E r \in ReadPoints : FieldChange(r)) \/ (\E p \in Points : LinkChange(p))
  PROVE  TypeOK'
<1>a. Stimulus /\ UNCHANGED commanded => HistoryOK'
  BY BoundsAssumption DEF Stimulus, TypeOK, HistoryOK
<1>1. ASSUME NEW r \in ReadPoints, FieldChange(r) PROVE TypeOK'
  <2>1. FieldOK'
    BY <1>1 DEF FieldChange, TypeOK, FieldOK
  <2> QED BY <1>1, <1>a, <2>1, Unchanged DEF FieldChange, TypeOK
<1>2. ASSUME NEW p \in Points, LinkChange(p) PROVE TypeOK'
  <2>1. FieldOK'
    BY <1>2 DEF LinkChange, TypeOK, FieldOK
  <2> QED BY <1>2, <1>a, <2>1, Unchanged DEF LinkChange, TypeOK
<1> QED BY <1>1, <1>2

-----------------------------------------------------------------------------
(* The mutexes.                                                            *)

(* Control state only enters a critical section at a point of its kind.    *)
LEMMA NextControl ==
  ASSUME TypeOK, ControlInv, [Next]_vars
  PROVE  ControlInv'
<1>1. ASSUME NEW m \in Masters, ModbusStep(m) PROVE ControlInv'
  <2>1. Visited(m) \in Points
    BY VisitedType
  <2>2. \A n \in Masters : n # m => mb_pc'[n] = mb_pc[n] /\ Visited(n)' = Visited(n)
    BY <1>1 DEF ModbusStep, WriteCheck, WriteLock, WriteIO, Sent, ReadIO, ReadStore, Advance,
                Visited, TypeOK, ModbusOK
  <2>3. /\ mb_pc'[m] \in {"lock", "write"} => Visited(m)' \in WritePoints
        /\ mb_pc'[m] = "store" => Visited(m)' \in ReadPoints
    BY <1>1, <2>1 DEF ModbusStep, WriteCheck, WriteLock, WriteIO, Sent, ReadIO, ReadStore,
                      Advance, Visited, TypeOK, ModbusOK, ControlInv
  <2>4. UNCHANGED <<main_pc, main_at, task, at>>
    BY <1>1 DEF ModbusStep, WriteCheck, WriteLock, WriteIO, Sent, ReadIO, ReadStore, mainVars,
                handlerVars
  <2> QED BY <2>2, <2>3, <2>4 DEF ControlInv
<1>2. CASE MainStep
  <2>1. UNCHANGED <<mb_pc, mb_at, task, at>>
    BY <1>2 DEF MainStep, MainLock, MainSend, MainEndsHighPass, MainEndsLowPass, mbVars,
                handlerVars
  <2>2. main_pc' = "send" => main_at' <= Len(ReadOrder)
    BY <1>2, Constants DEF MainStep, MainLock, MainSend, MainEndsHighPass, MainEndsLowPass,
                           ControlInv, TypeOK, MainOK
  <2> QED BY <2>1, <2>2 DEF ControlInv, Visited
<1>3. ASSUME NEW c \in Clients, HandlerStep(c) \/ Transmit(c) \/ ClientStep(c)
      PROVE  ControlInv'
  <2>1. UNCHANGED <<mb_pc, mb_at, main_pc, main_at>>
    BY <1>3 DEF HandlerStep, Transmit, ClientStep, InterrogateLock, InterrogateSend,
                EndInterrogation, AcceptCommand, Stored, RefuseCommand, UnknownCause, NotFound,
                GiveUp, Decoded, EndCommand, Connect, StartDT, Disconnect, StartInterrogation,
                RefuseInterrogation, StartCommand, mbVars, mainVars
  <2>2. ASSUME NEW d \in Clients, task'[d] = "interrogate_send"
        PROVE  at'[d] <= Len(ReadOrder)
    BY <1>3, <2>2 DEF HandlerStep, Transmit, ClientStep, InterrogateLock, InterrogateSend,
                      EndInterrogation, AcceptCommand, Stored, RefuseCommand, UnknownCause,
                      NotFound, GiveUp, Decoded, EndCommand, Connect, StartDT, Disconnect,
                      StartInterrogation, RefuseInterrogation, StartCommand, handlerVars,
                      NextElement, Trying, ControlInv, TypeOK, HandlerOK
  <2> QED BY <2>1, <2>2 DEF ControlInv, Visited
<1>4. CASE \/ \E r \in ReadPoints : FieldChange(r)
           \/ \E p \in Points : LinkChange(p)
           \/ UNCHANGED vars
  BY <1>4 DEF FieldChange, LinkChange, vars, mbVars, mainVars, handlerVars, ControlInv,
              Visited
<1> QED BY <1>1, <1>2, <1>3, <1>4 DEF Next

(* Thread t enters the critical section of p, leaves it, or neither.       *)
Enters(t, p) == \A s \in Threads, q \in Points : Holds(s, q)' <=> Holds(s, q) \/ (s = t /\ q = p)
Leaves(t, p) == \A s \in Threads, q \in Points : Holds(s, q)' <=> Holds(s, q) /\ ~ (s = t /\ q = p)
Stays == \A s \in Threads, q \in Points : Holds(s, q)' <=> Holds(s, q)

(* A thread that takes a mutex enters the place where it holds it.         *)
LEMMA AcquireKeeps ==
  ASSUME TypeOK, LockDiscipline, NEW t \in Threads, NEW p \in Points,
         Acquire(p, t), Enters(t, p)
  PROVE  LockDiscipline'
BY Constants DEF Acquire, Enters, LockDiscipline, TypeOK, ImageOK, Owners

(* A thread that gives a mutex back leaves the place where it held it.     *)
LEMMA ReleaseKeeps ==
  ASSUME TypeOK, LockDiscipline, NEW t \in Threads, NEW p \in Points,
         Release(p), Holds(t, p), Leaves(t, p)
  PROVE  LockDiscipline'
BY Constants DEF Release, Leaves, LockDiscipline, TypeOK, ImageOK, Owners

(* A step without locks in which every thread stays where it holds one.    *)
LEMMA StayKeeps ==
  ASSUME TypeOK, LockDiscipline, UNCHANGED lock, Stays
  PROVE  LockDiscipline'
BY Constants DEF Stays, LockDiscipline, TypeOK, ImageOK, Owners

(* A Modbus thread takes and gives back the mutex of the point it writes.  *)
LEMMA ModbusLocks ==
  ASSUME TypeOK, ControlInv, LockDiscipline, NEW m \in Masters, ModbusStep(m)
  PROVE  LockDiscipline'
<1>1. /\ UNCHANGED <<main_pc, main_at, task, at>>
      /\ \A n \in Masters : n # m => mb_pc'[n] = mb_pc[n] /\ Visited(n)' = Visited(n)
  BY DEF ModbusStep, WriteCheck, WriteLock, WriteIO, Sent, ReadIO, ReadStore, Advance, Visited,
         TypeOK, ModbusOK, mainVars, handlerVars
<1>2. m \in Threads /\ m # Main /\ m \notin Clients /\ Visited(m) \in Points
  BY ThreadsAssumption, VisitedType DEF Threads
<1>3. CASE WriteLock(m)
  <2>1. mb_pc[m] = "lock" /\ mb_pc'[m] = "write" /\ Visited(m)' = Visited(m)
    BY <1>3 DEF WriteLock, Visited, TypeOK, ModbusOK
  <2>2. Enters(m, Visited(m))
    BY <1>1, <1>2, <2>1, ThreadsAssumption DEF Enters, Holds, Threads
  <2> QED BY <1>2, <1>3, <2>2, AcquireKeeps DEF WriteLock
<1>4. CASE WriteIO(m)
  <2>1. mb_pc[m] = "write" /\ mb_pc'[m] = "visit"
    BY <1>4 DEF WriteIO, Sent, Advance, TypeOK, ModbusOK
  <2>2. Holds(m, Visited(m)) /\ Leaves(m, Visited(m))
    BY <1>1, <1>2, <2>1, ThreadsAssumption DEF Leaves, Holds, Threads
  <2> QED BY <1>2, <1>4, <2>2, ReleaseKeeps DEF WriteIO, Sent
<1>5. CASE WriteCheck(m) \/ ReadIO(m) \/ ReadStore(m)
  <2>1. UNCHANGED lock /\ mb_pc[m] # "write" /\ mb_pc'[m] # "write"
    BY <1>5 DEF WriteCheck, ReadIO, ReadStore, Advance, TypeOK, ModbusOK, image
  <2>2. Stays
    BY <1>1, <1>2, <2>1, ThreadsAssumption DEF Stays, Holds, Threads
  <2> QED BY <2>1, <2>2, StayKeeps
<1> QED BY <1>3, <1>4, <1>5 DEF ModbusStep

(* The main loop holds at most the mutex of the point it reports.          *)
LEMMA MainLocks ==
  ASSUME TypeOK, ControlInv, LockDiscipline, MainStep
  PROVE  LockDiscipline'
<1>1. UNCHANGED <<mb_pc, mb_at, task, at>>
  BY DEF MainStep, MainLock, MainSend, MainEndsHighPass, MainEndsLowPass, mbVars, handlerVars
<1>2. Main \in Threads /\ Main \notin Masters /\ Main \notin Clients
  BY ThreadsAssumption DEF Threads
<1>3. CASE MainLock
  <2>1. main_pc = "lock" /\ main_pc' = "send" /\ main_at' = main_at
        /\ ReadOrder[main_at] \in Points
    BY <1>3, Constants DEF MainLock, TypeOK, MainOK, Points
  <2>2. Enters(Main, ReadOrder[main_at])
    BY <1>1, <1>2, <2>1 DEF Enters, Holds, Visited
  <2> QED BY <1>2, <1>3, <2>1, <2>2, AcquireKeeps DEF MainLock
<1>4. CASE MainSend
  <2>1. main_pc = "send" /\ main_pc' = "lock" /\ ReadOrder[main_at] \in Points
    BY <1>4, Constants DEF MainSend, ControlInv, TypeOK, MainOK, Points
  <2>2. Holds(Main, ReadOrder[main_at]) /\ Leaves(Main, ReadOrder[main_at])
    BY <1>1, <1>2, <2>1 DEF Leaves, Holds, Visited
  <2> QED BY <1>2, <1>4, <2>1, <2>2, ReleaseKeeps DEF MainSend
<1>5. CASE MainEndsHighPass \/ MainEndsLowPass
  <2>1. UNCHANGED lock /\ main_pc # "send" /\ main_pc' # "send"
    BY <1>5, Constants DEF MainEndsHighPass, MainEndsLowPass, ControlInv, TypeOK, MainOK, image
  <2>2. Stays
    BY <1>1, <1>2, <2>1 DEF Stays, Holds, Visited
  <2> QED BY <2>1, <2>2, StayKeeps
<1> QED BY <1>3, <1>4, <1>5 DEF MainStep

(* The thread of a client leaves a mutex locked when it refuses a command, *)
(* otherwise it holds at most the one of the point it interrogates.        *)
LEMMA HandlerLocks ==
  ASSUME TypeOK, ControlInv, LockDiscipline, NEW c \in Clients, HandlerStep(c)
  PROVE  LockDiscipline'
<1>1. /\ UNCHANGED <<mb_pc, mb_at, main_pc, main_at>>
      /\ \A d \in Clients : d # c => task'[d] = task[d] /\ at'[d] = at[d]
  BY DEF HandlerStep, InterrogateLock, InterrogateSend, EndInterrogation, AcceptCommand, Stored,
         RefuseCommand, UnknownCause, NotFound, GiveUp, Decoded, EndCommand, NextElement, TypeOK,
         HandlerOK, mbVars, mainVars
<1>2. c \in Threads /\ c # Main /\ c \notin Masters
  BY ThreadsAssumption DEF Threads
<1>3. CASE InterrogateLock(c)
  <2>1. /\ task[c] = "interrogate" /\ task'[c] = "interrogate_send" /\ at'[c] = at[c]
        /\ ReadOrder[at[c]] \in Points
    BY <1>3, Constants DEF InterrogateLock, TypeOK, HandlerOK, Points
  <2>2. Enters(c, ReadOrder[at[c]])
    BY <1>1, <1>2, <2>1 DEF Enters, Holds, Visited
  <2> QED BY <1>2, <1>3, <2>1, <2>2, AcquireKeeps DEF InterrogateLock
<1>4. CASE InterrogateSend(c)
  <2>1. /\ task[c] = "interrogate_send" /\ task'[c] = "interrogate"
        /\ ReadOrder[at[c]] \in Points
    BY <1>4, Constants DEF InterrogateSend, ControlInv, TypeOK, HandlerOK, Points
  <2>2. Holds(c, ReadOrder[at[c]]) /\ Leaves(c, ReadOrder[at[c]])
    BY <1>1, <1>2, <2>1 DEF Leaves, Holds, Visited
  <2> QED BY <1>2, <1>4, <2>1, <2>2, ReleaseKeeps DEF InterrogateSend
<1>5. CASE RefuseCommand(c)
  <2>1. task[c] # "interrogate_send" /\ task'[c] # "interrogate_send"
    BY <1>5 DEF RefuseCommand, Trying, Decoded, TypeOK, HandlerOK
  <2>2. Stays
    BY <1>1, <1>2, <2>1 DEF Stays, Holds, Visited
  <2>3. Tried(c) \in WritePoints /\ Refused[Tried(c)] # {} /\ Acquire(Tried(c), c)
    BY <1>5, TriedType DEF RefuseCommand
  <2> QED BY <1>2, <2>2, <2>3, Constants DEF Acquire, Stays, LockDiscipline, TypeOK, ImageOK,
                                             Owners, Points
<1>6. CASE EndInterrogation(c) \/ AcceptCommand(c) \/ UnknownCause(c) \/ NotFound(c)
           \/ GiveUp(c) \/ EndCommand(c)
  <2>1. UNCHANGED lock /\ task[c] # "interrogate_send" /\ task'[c] # "interrogate_send"
    BY <1>6 DEF EndInterrogation, AcceptCommand, Stored, UnknownCause, NotFound, GiveUp, Decoded,
                EndCommand, Trying, TypeOK, HandlerOK, image
  <2>2. Stays
    BY <1>1, <1>2, <2>1 DEF Stays, Holds, Visited
  <2> QED BY <2>1, <2>2, StayKeeps
<1> QED BY <1>3, <1>4, <1>5, <1>6 DEF HandlerStep

(* Every step keeps the discipline of the locks.                           *)
LEMMA NextLocks ==
  ASSUME TypeOK, ControlInv, LockDiscipline, [Next]_vars
  PROVE  LockDiscipline'
<1>1. ASSUME NEW c \in Clients, Transmit(c) \/ ClientStep(c) PROVE LockDiscipline'
  <2>1. UNCHANGED <<lock, mb_pc, mb_at, main_pc, main_at>>
    BY <1>1 DEF Transmit, ClientStep, Connect, StartDT, Disconnect, StartInterrogation,
                RefuseInterrogation, StartCommand, image, mbVars, mainVars
  <2>2. \A d \in Clients :
          /\ task'[d] = "interrogate_send" <=> task[d] = "interrogate_send"
          /\ task[d] = "interrogate_send" => at'[d] = at[d]
    BY <1>1 DEF Transmit, ClientStep, Connect, StartDT, Disconnect, StartInterrogation,
                RefuseInterrogation, StartCommand, TypeOK, HandlerOK, handlerVars
  <2>3. Stays
    BY <2>1, <2>2 DEF Stays, Holds, Visited
  <2> QED BY <2>1, <2>3, StayKeeps
<1>2. CASE \/ \E r \in ReadPoints : FieldChange(r)
           \/ \E p \in Points : LinkChange(p)
           \/ UNCHANGED vars
  <2>1. UNCHANGED <<lock, mb_pc, mb_at, main_pc, main_at, task, at>>
    BY <1>2 DEF FieldChange, LinkChange, vars, image, mbVars, mainVars, handlerVars
  <2>2. Stays
    BY <2>1 DEF Stays, Holds, Visited
  <2> QED BY <2>1, <2>2, StayKeeps
<1> QED BY <1>1, <1>2, ModbusLocks, MainLocks, HandlerLocks DEF Next

-----------------------------------------------------------------------------
(* The commands.                                                           *)

(* Two Modbus threads never visit the same point.                          *)
LEMMA OwnPoints ==
  ASSUME TypeOK, NEW m \in Masters, NEW n \in Masters, Visited(m) = Visited(n)
  PROVE  m = n
BY OneBusAssumption DEF Visited, TypeOK, ModbusOK

(* A Modbus thread takes a command from the image only to send it.         *)
LEMMA ModbusCommands ==
  ASSUME TypeOK, ControlInv, CommandsAreKept, NEW m \in Masters, ModbusStep(m)
  PROVE  CommandsAreKept'
<1>1. \A n \in Masters : n # m => mb_pc'[n] = mb_pc[n] /\ Visited(n)' = Visited(n)
  BY DEF ModbusStep, WriteCheck, WriteLock, WriteIO, Sent, ReadIO, ReadStore, Advance, Visited,
         TypeOK, ModbusOK
<1>2. CASE WriteIO(m)
  <2> DEFINE w == Visited(m)
  <2>1. w \in WritePoints /\ mb_pc'[m] = "visit"
    BY <1>2 DEF WriteIO, Sent, Advance, ControlInv, TypeOK, ModbusOK
  <2>2. /\ commanded' = [commanded EXCEPT ![w] = None]
        /\ mem_state' = [mem_state EXCEPT ![w] = "cur"]
        /\ mem' = mem
    BY <1>2, WriteSends DEF WriteIO, Sent
  <2>3. \A n \in Masters : n # m => Visited(n)' # w
    BY <1>1, OwnPoints
  <2> HIDE DEF w
  <2> QED BY <1>1, <2>1, <2>2, <2>3 DEF CommandsAreKept, TypeOK, ImageOK, HistoryOK, Points
<1>3. CASE ReadStore(m)
  <2>1. Visited(m) \in ReadPoints
    BY <1>3 DEF ReadStore, ControlInv
  <2>2. \A w \in WritePoints : mem'[w] = mem[w] /\ mem_state'[w] = mem_state[w]
    BY <1>3, <2>1, PointsAssumption DEF ReadStore, TypeOK, ImageOK, Points
  <2>3. commanded' = commanded /\ mb_pc'[m] = "visit"
    BY <1>3 DEF ReadStore, Advance, TypeOK, ModbusOK
  <2> QED BY <1>1, <2>2, <2>3 DEF CommandsAreKept
<1>4. CASE WriteCheck(m) \/ WriteLock(m) \/ ReadIO(m)
  <2>1. UNCHANGED <<mem, mem_state, commanded>>
    BY <1>4 DEF WriteCheck, WriteLock, ReadIO, image
  <2>2. mb_pc'[m] \in {"lock", "write"} =>
          /\ Visited(m)' = Visited(m)
          /\ mb_pc[m] \in {"lock", "write"} \/ mem_state[Visited(m)] = "new"
    BY <1>4 DEF WriteCheck, WriteLock, ReadIO, Advance, Pending, Visited, TypeOK, ModbusOK
  <2> QED BY <1>1, <2>1, <2>2 DEF CommandsAreKept
<1> QED BY <1>2, <1>3, <1>4 DEF ModbusStep

(* A handler replaces a command only by a later one.                       *)
LEMMA HandlerCommands ==
  ASSUME TypeOK, CommandsAreKept, NEW c \in Clients, HandlerStep(c)
  PROVE  CommandsAreKept'
<1>1. UNCHANGED <<mb_pc, mb_at>>
  BY DEF HandlerStep, InterrogateLock, InterrogateSend, EndInterrogation, AcceptCommand, Stored,
         RefuseCommand, UnknownCause, NotFound, GiveUp, Decoded, EndCommand, mbVars
<1>2. CASE AcceptCommand(c)
  <2> DEFINE w == Tried(c)
             v == Element(c).value
  <2>1. w \in WritePoints /\ v \in Values \union {Indeterminate}
    BY <1>2, TriedType DEF AcceptCommand, Stored, Elements
  <2>2. CASE w \in Unstored
    <3>1. UNCHANGED <<mem, mem_state, commanded>>
      BY <1>2, <2>2 DEF AcceptCommand
    <3> QED BY <1>1, <3>1 DEF CommandsAreKept, Visited
  <2>3. CASE w \notin Unstored /\ v = Indeterminate
    BY <1>1, <1>2, <2>1, <2>3 DEF AcceptCommand, Stored, CommandsAreKept, Visited, TypeOK,
                                  ImageOK, Points
  <2>4. CASE w \notin Unstored /\ v # Indeterminate
    <3>1. /\ mem_state' = [mem_state EXCEPT ![w] = "new"]
          /\ mem' = [mem EXCEPT ![w] = v]
          /\ commanded' = [commanded EXCEPT ![w] = v]
          /\ v # None
      BY <1>2, <2>1, <2>4, Constants DEF AcceptCommand, Stored
    <3> HIDE DEF w, v
    <3> QED BY <1>1, <2>1, <3>1 DEF CommandsAreKept, Visited, TypeOK, ImageOK, HistoryOK,
                                    Points
  <2> QED BY <2>2, <2>3, <2>4
<1>3. CASE ~ AcceptCommand(c)
  <2>1. UNCHANGED <<mem, mem_state, commanded>>
    BY <1>3 DEF HandlerStep, InterrogateLock, InterrogateSend, EndInterrogation, RefuseCommand,
                UnknownCause, NotFound, GiveUp, Decoded, EndCommand, image
  <2> QED BY <1>1, <2>1 DEF CommandsAreKept, Visited
<1> QED BY <1>2, <1>3

(* Every step keeps the commands.                                          *)
LEMMA NextCommands ==
  ASSUME TypeOK, ControlInv, CommandsAreKept, [Next]_vars
  PROVE  CommandsAreKept'
<1>1. CASE MainStep
  <2>1. UNCHANGED <<mb_pc, mb_at, mem, commanded>>
    BY <1>1 DEF MainStep, MainLock, MainSend, MainEndsHighPass, MainEndsLowPass, mbVars, image
  <2>2. \A w \in WritePoints : mem_state'[w] = mem_state[w]
    <3>1. main_pc = "send" => ReadOrder[main_at] \in ReadPoints
      BY Constants DEF ControlInv, TypeOK, MainOK
    <3> QED BY <1>1, <3>1, PointsAssumption DEF MainStep, MainLock, MainSend,
              MainEndsHighPass, MainEndsLowPass, image, TypeOK, ImageOK, Points
  <2> QED BY <2>1, <2>2 DEF CommandsAreKept, Visited
<1>2. ASSUME NEW c \in Clients, Transmit(c) \/ ClientStep(c) PROVE CommandsAreKept'
  <2>1. UNCHANGED <<mb_pc, mb_at, mem, mem_state, commanded>>
    BY <1>2 DEF Transmit, ClientStep, Connect, StartDT, Disconnect, StartInterrogation,
                RefuseInterrogation, StartCommand, mbVars, image
  <2> QED BY <2>1 DEF CommandsAreKept, Visited
<1>3. CASE \/ \E r \in ReadPoints : FieldChange(r)
           \/ \E p \in Points : LinkChange(p)
           \/ UNCHANGED vars
  <2>1. UNCHANGED <<mb_pc, mb_at, mem, mem_state, commanded>>
    BY <1>3 DEF FieldChange, LinkChange, vars, mbVars, image
  <2> QED BY <2>1 DEF CommandsAreKept, Visited
<1> QED BY <1>1, <1>2, <1>3, ModbusCommands, HandlerCommands DEF Next

-----------------------------------------------------------------------------
(* The inductive invariant: the types, the control state, the mutexes and  *)
(* the commands.                                                           *)
IInv == TypeOK /\ ControlInv /\ LockDiscipline /\ CommandsAreKept

(* Every step keeps the types.                                             *)
LEMMA NextType == ASSUME TypeOK, ControlInv, [Next]_vars PROVE TypeOK'
<1>1. CASE UNCHANGED vars
  BY <1>1, Unchanged DEF vars, TypeOK
<1> QED BY <1>1, ModbusType, MainType, HandlerType, ClientType, EnvironmentType DEF Next

(* The inductive invariant.                                                *)
LEMMA Inductive == Spec => []IInv
<1>1. Init => IInv
  BY InitIInv DEF IInv
<1>2. IInv /\ [Next]_vars => IInv'
  BY NextType, NextControl, NextLocks, NextCommands DEF IInv
<1> QED BY <1>1, <1>2, PTL DEF Spec

(* Every variable of the gateway always has its type.                      *)
THEOREM TypeCorrect == Spec => []TypeOK
<1>1. IInv => TypeOK
  BY DEF IInv
<1> QED BY <1>1, Inductive, PTL

(* The mutex of a point is held by the thread that works on it, and by no  *)
(* other; only refused commands leave one locked.                          *)
THEOREM LocksCorrect == Spec => []LockDiscipline
<1>1. IInv => LockDiscipline
  BY DEF IInv
<1> QED BY <1>1, Inductive, PTL

(* The latest accepted command of a point stays in the image until         *)
(* modbus_write sends it, and none is sent twice.                          *)
THEOREM CommandsCorrect == Spec => []CommandsAreKept
<1>1. IInv => CommandsAreKept
  BY DEF IInv
<1> QED BY <1>1, Inductive, PTL

(* A step that changes what a device was told is the write of a pending    *)
(* command.                                                                *)
LEMMA OutputStep ==
  ASSUME IInv, Next, NEW w \in WritePoints, output'[w] # output[w]
  PROVE  commanded[w] # None /\ output'[w] = OnTheWire(w, commanded[w])
<1>1. ASSUME NEW m \in Masters, WriteIO(m)
      PROVE  commanded[w] # None /\ output'[w] = OnTheWire(w, commanded[w])
  <2>1. Visited(m) = w /\ output'[w] = OnTheWire(w, mem[w]) /\ mb_pc[m] = "write"
    BY <1>1, WriteSends DEF WriteIO, Sent, IInv, TypeOK, FieldOK
  <2> QED BY <2>1 DEF IInv, CommandsAreKept
<1>2. CASE UNCHANGED output
  BY <1>2
<1>3. CASE \E m \in Masters : ModbusStep(m) /\ ~ WriteIO(m)
  BY <1>3 DEF ModbusStep, WriteCheck, WriteLock, ReadIO, ReadStore, fieldVars
<1>4. CASE MainStep
  BY <1>4 DEF MainStep, MainLock, MainSend, MainEndsHighPass, MainEndsLowPass, fieldVars
<1>5. CASE \E c \in Clients : HandlerStep(c)
  BY <1>5 DEF HandlerStep, InterrogateLock, InterrogateSend, EndInterrogation, AcceptCommand,
              Stored, RefuseCommand, UnknownCause, NotFound, GiveUp, Decoded, EndCommand,
              fieldVars
<1>6. CASE \E c \in Clients : Transmit(c) \/ ClientStep(c)
  BY <1>6 DEF Transmit, ClientStep, Connect, StartDT, Disconnect, StartInterrogation,
              RefuseInterrogation, StartCommand, fieldVars
<1>7. CASE (\E r \in ReadPoints : FieldChange(r)) \/ (\E p \in Points : LinkChange(p))
  BY <1>7 DEF FieldChange, LinkChange
<1> QED BY <1>1, <1>3, <1>4, <1>5, <1>6, <1>7 DEF Next

(* A device is only ever told the latest accepted command, once.           *)
THEOREM WritesCorrect == Spec => OnlyCommandsAreWritten
<1> DEFINE Written == \A w \in WritePoints :
                        output'[w] # output[w] =>
                          commanded[w] # None /\ output'[w] = OnTheWire(w, commanded[w])
<1>1. IInv /\ [Next]_vars => [Written]_vars
  BY OutputStep
<1> QED BY <1>1, Inductive, PTL DEF Spec, OnlyCommandsAreWritten
-----------------------------------------------------------------------------
(* What the queued events say of a point.                                  *)

(* The latest event of a queue about point r, if there is one, reports     *)
(* value v with good quality.                                              *)
Shown(queue, r, v) ==
  \A i \in 1 .. Len(queue) :
     \/ queue[i].point # r
     \/ queue[i].report = [value |-> v, quality |-> "good"]
     \/ \E j \in i + 1 .. Len(queue) : queue[j].point = r

(* An event leaves a queue at its head.                                    *)
LEMMA ShownTail ==
  ASSUME NEW queue \in Seq(Event), queue # << >>, NEW r, NEW v, Shown(queue, r, v)
  PROVE  Shown(Tail(queue), r, v)
<1> DEFINE rest == Tail(queue)
<1>1. /\ Len(queue) \in Nat /\ Len(rest) = Len(queue) - 1
      /\ \A i \in 1 .. Len(rest) : rest[i] = queue[i + 1]
  <2> HIDE DEF Event
  <2> QED BY HeadTailProperties
<1> HIDE DEF rest
<1>2. ASSUME NEW i \in 1 .. Len(rest), rest[i].point = r,
             rest[i].report # [value |-> v, quality |-> "good"]
      PROVE  \E j \in i + 1 .. Len(rest) : rest[j].point = r
  <2>1. i + 1 \in 1 .. Len(queue) /\ rest[i] = queue[i + 1]
    BY <1>1
  <2>2. PICK j \in i + 2 .. Len(queue) : queue[j].point = r
    BY <1>2, <2>1 DEF Shown
  <2>3. j - 1 \in i + 1 .. Len(rest) /\ rest[j - 1] = queue[j - 1 + 1] /\ j - 1 + 1 = j
    BY <1>1, <2>2
  <2> QED BY <2>2, <2>3
<1> QED BY <1>2 DEF Shown, rest

(* An event about another point joins it.                                  *)
LEMMA ShownAppend ==
  ASSUME NEW queue \in Seq(Event), NEW e \in Event, NEW r, NEW v,
         \/ e.point # r /\ Shown(queue, r, v)
         \/ e.point = r /\ e.report = [value |-> v, quality |-> "good"]
  PROVE  Shown(Append(queue, e), r, v)
<1> DEFINE longer == Append(queue, e)
           n == Len(queue)
<1>1. /\ n \in Nat /\ Len(longer) = n + 1 /\ longer[n + 1] = e
      /\ \A i \in 1 .. n : longer[i] = queue[i]
  <2> HIDE DEF Event
  <2> QED BY AppendProperties
<1>2. Shown(queue, r, v) = \A i \in 1 .. n :
         \/ queue[i].point # r
         \/ queue[i].report = [value |-> v, quality |-> "good"]
         \/ \E j \in i + 1 .. n : queue[j].point = r
  BY DEF Shown
<1> HIDE DEF longer, n
<1>3. ASSUME NEW i \in 1 .. n + 1, longer[i].point = r,
             longer[i].report # [value |-> v, quality |-> "good"]
      PROVE  \E j \in i + 1 .. n + 1 : longer[j].point = r
  <2>1. CASE e.point = r /\ e.report = [value |-> v, quality |-> "good"]
    <3>1. i # n + 1
      BY <1>1, <1>3, <2>1
    <3> QED BY <1>1, <2>1, <3>1
  <2>2. CASE e.point # r /\ Shown(queue, r, v)
    <3>1. i \in 1 .. n /\ longer[i] = queue[i]
      BY <1>1, <1>3, <2>2
    <3>2. PICK j \in i + 1 .. n : queue[j].point = r
      BY <1>2, <1>3, <2>2, <3>1
    <3>3. j \in i + 1 .. n + 1 /\ longer[j] = queue[j]
      BY <1>1, <3>1
    <3> QED BY <3>2, <3>3
  <2> QED BY <2>1, <2>2
<1> QED BY <1>1, <1>3 DEF Shown, longer

(* An event joins a queue of limited size.                                 *)
LEMMA ShownPush ==
  ASSUME NEW queue \in Seq(Event), NEW e \in Event, NEW r, NEW v,
         \/ e.point # r /\ Shown(queue, r, v)
         \/ e.point = r /\ e.report = [value |-> v, quality |-> "good"]
  PROVE  Shown(Push(queue, e), r, v)
<1>1. CASE Len(queue) < QueueSize
  BY <1>1, ShownAppend DEF Push
<1>2. CASE ~ (Len(queue) < QueueSize)
  <2>1. queue # << >>
    BY <1>2, BoundsAssumption
  <2>2. Tail(queue) \in Seq(Event)
    BY <2>1
  <2>3. e.point # r => Shown(Tail(queue), r, v)
    BY <2>1, ShownTail
  <2> QED BY <1>2, <2>2, <2>3, ShownAppend DEF Push
<1> QED BY <1>1, <1>2

(* The queue of a closed connection is gone.                               *)
ClosedInv == \A c \in Clients : session[c] = "closed" => events[c] = << >>

(* What CurrentMeansReported says of the queues.                           *)
LEMMA ReportedIs ==
  CurrentMeansReported <=>
    \A r \in ReadPoints, c \in Clients : mem_state[r] = "cur" => Shown(events[c], r, mem[r])
BY DEF CurrentMeansReported, Shown

(* What is current and what was reported of it after a step.               *)
LEMMA ReportedIsNext ==
  CurrentMeansReported' <=>
    \A r \in ReadPoints, c \in Clients :
       mem_state'[r] = "cur" => Shown(events'[c], r, mem'[r])
BY DEF CurrentMeansReported, Shown

(* Steps that touch no queue: no point becomes current, and the value of a *)
(* current point stays.                                                    *)
LEMMA ReportedStays ==
  ASSUME CurrentMeansReported, UNCHANGED events,
         \A r \in ReadPoints : mem_state'[r] = "cur" => mem_state[r] = "cur" /\ mem'[r] = mem[r]
  PROVE  CurrentMeansReported'
BY ReportedIs, ReportedIsNext

(* The main loop reports a point and makes it current in one step.         *)
LEMMA SendReported ==
  ASSUME TypeOK, ControlInv, ClosedInv, CurrentMeansReported, MainSend
  PROVE  CurrentMeansReported'
<1> DEFINE r == ReadOrder[main_at]
           e == [point |-> r, report |-> ReportOf(r)]
<1>1. r \in ReadPoints /\ e \in Event /\ e.point = r
  BY Constants, ReportType DEF MainSend, ControlInv, TypeOK, MainOK
<1>2. CASE ~ Due(r) \/ r \in Unreportable
  BY <1>2, ReportedStays DEF MainSend
<1>3. CASE Due(r) /\ r \notin Unreportable
  <2>1. /\ EnqueueASDU(e)
        /\ mem_state' = [mem_state EXCEPT ![r] = IF @ = "err" THEN @ ELSE "cur"]
        /\ mem' = mem
    BY <1>3 DEF MainSend
  <2>2. mem_state[r] # "err" => e.report = [value |-> mem[r], quality |-> "good"]
    BY DEF ReportOf
  <2> HIDE DEF e, r
  <2> SUFFICES ASSUME NEW s \in ReadPoints, NEW c \in Clients, mem_state'[s] = "cur"
               PROVE  Shown(events'[c], s, mem'[s])
    BY ReportedIsNext
  <2>3. events[c] \in Seq(Event) /\ mem_state \in [Points -> States]
    BY DEF TypeOK, ConnectionOK, ImageOK
  <2>4. IF s = r THEN mem_state[r] # "err" ELSE mem_state[s] = "cur"
    BY <1>1, <2>1, <2>3 DEF Points
  <2>5. \/ e.point # s /\ Shown(events[c], s, mem[s])
        \/ e.point = s /\ e.report = [value |-> mem[s], quality |-> "good"]
    BY <1>1, <2>2, <2>4, ReportedIs
  <2>6. CASE session[c] = "closed"
    <3>1. events'[c] = << >>
      BY <2>1, <2>6 DEF EnqueueASDU, ClosedInv
    <3> QED BY <3>1 DEF Shown
  <2>7. CASE session[c] # "closed"
    <3>1. events'[c] = Push(events[c], e)
      BY <2>1, <2>7 DEF EnqueueASDU
    <3> QED BY <1>1, <2>1, <2>3, <2>5, <3>1, ShownPush
  <2> QED BY <2>6, <2>7
<1> QED BY <1>2, <1>3

(* The digital inputs are none of the points.                              *)
LEMMA LowPassReported ==
  ASSUME TypeOK, CurrentMeansReported, MainEndsLowPass
  PROVE  CurrentMeansReported'
<1> DEFINE e == [point |-> None, report |-> None]
<1>1. e \in Event /\ e.point = None
  BY DEF Event
<1>2. EnqueueASDU(e) /\ mem' = mem /\ mem_state' = mem_state
  BY DEF MainEndsLowPass, image
<1> HIDE DEF e
<1> SUFFICES ASSUME NEW s \in ReadPoints, NEW c \in Clients, mem_state'[s] = "cur"
             PROVE  Shown(events'[c], s, mem'[s])
  BY ReportedIsNext
<1>3. events[c] \in Seq(Event) /\ e.point # s
  BY <1>1, PointsAssumption DEF TypeOK, ConnectionOK, Points
<1>4. Shown(events[c], s, mem[s])
  BY <1>2, ReportedIs
<1>5. Shown(Push(events[c], e), s, mem[s])
  BY <1>1, <1>3, <1>4, ShownPush
<1> QED BY <1>2, <1>4, <1>5 DEF EnqueueASDU

(* A transmitted event was the oldest one.                                 *)
LEMMA TransmitReported ==
  ASSUME TypeOK, CurrentMeansReported, NEW c \in Clients, Transmit(c)
  PROVE  CurrentMeansReported'
<1>1. /\ events[c] # << >> /\ events' = [events EXCEPT ![c] = Tail(@)]
      /\ mem' = mem /\ mem_state' = mem_state
      /\ \A d \in Clients : events[d] \in Seq(Event)
      /\ events \in [Clients -> Seq(Event)]
  BY DEF Transmit, image, TypeOK, ConnectionOK
<1> SUFFICES ASSUME NEW s \in ReadPoints, NEW d \in Clients, mem_state'[s] = "cur"
             PROVE  Shown(events'[d], s, mem'[s])
  BY ReportedIsNext
<1>2. Shown(events[d], s, mem[s])
  BY <1>1, ReportedIs
<1>3. CASE d = c
  BY <1>1, <1>2, <1>3, ShownTail
<1>4. CASE d # c
  BY <1>1, <1>2, <1>4
<1> QED BY <1>3, <1>4

(* What a Modbus thread reads is to be reported again, whether it changed  *)
(* or not; only the points of commands become current in it.               *)
LEMMA ModbusReported ==
  ASSUME TypeOK, ControlInv, CurrentMeansReported, NEW m \in Masters, ModbusStep(m)
  PROVE  CurrentMeansReported'
<1>1. UNCHANGED events
  BY DEF ModbusStep, WriteCheck, WriteLock, WriteIO, Sent, ReadIO, ReadStore, connVars
<1>2. mem_state \in [Points -> States] /\ mem \in [Points -> Values]
  BY DEF TypeOK, ImageOK
<1>3. CASE WriteIO(m)
  <2>1. Visited(m) \in WritePoints
    BY <1>3 DEF WriteIO, Sent, ControlInv
  <2>2. mem' = mem /\ mem_state' = [mem_state EXCEPT ![Visited(m)] = "cur"]
    BY <1>3, WriteSends DEF WriteIO, Sent
  <2> QED BY <1>1, <1>2, <2>1, <2>2, PointsAssumption, ReportedStays DEF Points
<1>4. CASE ReadStore(m)
  <2> DEFINE r == Visited(m)
  <2>1. PICK state \in StatesAfterRead(r, mb_data[m]) :
          mem_state' = [mem_state EXCEPT ![r] = state]
    BY <1>4 DEF ReadStore
  <2>2. state # "cur"
    BY <2>1 DEF StatesAfterRead
  <2>3. mem' = [mem EXCEPT ![r] = IF mb_data[m] = None THEN @ ELSE mb_data[m]] /\ r \in Points
    BY <1>4, VisitedType DEF ReadStore
  <2> HIDE DEF r
  <2> QED BY <1>1, <1>2, <2>1, <2>2, <2>3, ReportedStays DEF Points
<1>5. CASE WriteCheck(m) \/ WriteLock(m) \/ ReadIO(m)
  BY <1>1, <1>5, ReportedStays DEF WriteCheck, WriteLock, ReadIO, image
<1> QED BY <1>3, <1>4, <1>5 DEF ModbusStep

(* Commands go to other points than readings.                              *)
LEMMA HandlerReported ==
  ASSUME TypeOK, CurrentMeansReported, NEW c \in Clients, HandlerStep(c)
  PROVE  CurrentMeansReported'
<1>1. UNCHANGED events
  BY DEF HandlerStep, InterrogateLock, InterrogateSend, EndInterrogation, AcceptCommand, Stored,
         RefuseCommand, UnknownCause, NotFound, GiveUp, Decoded, EndCommand, connVars
<1>2. CASE AcceptCommand(c)
  <2>1. Tried(c) \in WritePoints
    BY <1>2, TriedType DEF AcceptCommand, Stored
  <2>2. \A r \in ReadPoints : mem_state'[r] = mem_state[r] /\ mem'[r] = mem[r]
    BY <1>2, <2>1, PointsAssumption DEF AcceptCommand, Stored, TypeOK, ImageOK, Points
  <2> QED BY <1>1, <2>2, ReportedStays
<1>3. CASE ~ AcceptCommand(c)
  <2>1. UNCHANGED <<mem, mem_state>>
    BY <1>3 DEF HandlerStep, InterrogateLock, InterrogateSend, EndInterrogation, RefuseCommand,
                UnknownCause, NotFound, GiveUp, Decoded, EndCommand, image
  <2> QED BY <1>1, <2>1, ReportedStays
<1> QED BY <1>2, <1>3

(* A connection that is closed loses its queue.                            *)
LEMMA ClientReported ==
  ASSUME TypeOK, CurrentMeansReported, NEW c \in Clients, ClientStep(c)
  PROVE  CurrentMeansReported'
<1>1. UNCHANGED <<mem, mem_state>>
  BY DEF ClientStep, Connect, StartDT, Disconnect, StartInterrogation, RefuseInterrogation,
         StartCommand, image
<1>2. CASE Disconnect(c)
  <2> SUFFICES ASSUME NEW s \in ReadPoints, NEW d \in Clients, mem_state'[s] = "cur"
               PROVE  Shown(events'[d], s, mem'[s])
    BY ReportedIsNext
  <2>1. events'[d] = IF d = c THEN << >> ELSE events[d]
    BY <1>2 DEF Disconnect, TypeOK, ConnectionOK
  <2>2. Shown(events[d], s, mem[s]) /\ Shown(<< >>, s, mem[s])
    BY <1>1, ReportedIs DEF Shown
  <2> QED BY <1>1, <2>1, <2>2
<1>3. CASE ~ Disconnect(c)
  <2>1. UNCHANGED events
    BY <1>3 DEF ClientStep, Connect, StartDT, StartInterrogation, RefuseInterrogation,
                StartCommand, connVars
  <2> QED BY <1>1, <2>1, ReportedStays
<1> QED BY <1>2, <1>3

(* Every step keeps what was reported.                                     *)
LEMMA NextReported ==
  ASSUME TypeOK, ControlInv, ClosedInv, CurrentMeansReported, [Next]_vars
  PROVE  CurrentMeansReported'
<1>1. CASE MainLock \/ MainEndsHighPass
  BY <1>1, ReportedStays DEF MainLock, MainEndsHighPass, connVars, image
<1>2. CASE \/ \E r \in ReadPoints : FieldChange(r)
           \/ \E p \in Points : LinkChange(p)
           \/ UNCHANGED vars
  BY <1>2, ReportedStays DEF FieldChange, LinkChange, vars, connVars, image
<1> QED BY <1>1, <1>2, SendReported, LowPassReported, TransmitReported, ModbusReported,
           HandlerReported, ClientReported DEF Next, MainStep

(* Only open connections get events.                                       *)
LEMMA NextClosed ==
  ASSUME TypeOK, ClosedInv, [Next]_vars
  PROVE  ClosedInv'
<1>a. session \in [Clients -> {"closed", "open", "active"}] /\ events \in [Clients -> Seq(Event)]
  BY DEF TypeOK, ConnectionOK
<1>1. CASE UNCHANGED <<session, events>>
  BY <1>1 DEF ClosedInv
<1>2. ASSUME NEW e, EnqueueASDU(e), UNCHANGED session PROVE ClosedInv'
  BY <1>2 DEF EnqueueASDU, ClosedInv
<1>3. CASE MainStep
  BY <1>1, <1>2, <1>3 DEF MainStep, MainLock, MainSend, MainEndsHighPass, MainEndsLowPass,
                          connVars
<1>4. ASSUME NEW c \in Clients, Transmit(c) \/ ClientStep(c) PROVE ClosedInv'
  BY <1>a, <1>4 DEF Transmit, ClientStep, Connect, StartDT, Disconnect, StartInterrogation,
                    RefuseInterrogation, StartCommand, connVars, ClosedInv
<1>5. CASE \E c \in Clients : HandlerStep(c)
  BY <1>1, <1>5 DEF HandlerStep, InterrogateLock, InterrogateSend, EndInterrogation,
                    AcceptCommand, Stored, RefuseCommand, UnknownCause, NotFound, GiveUp, Decoded,
                    EndCommand, connVars
<1>6. CASE \E m \in Masters : ModbusStep(m)
  BY <1>1, <1>6 DEF ModbusStep, WriteCheck, WriteLock, WriteIO, Sent, ReadIO, ReadStore, connVars
<1>7. CASE \/ \E r \in ReadPoints : FieldChange(r)
           \/ \E p \in Points : LinkChange(p)
           \/ UNCHANGED vars
  BY <1>1, <1>7 DEF FieldChange, LinkChange, vars, connVars
<1> QED BY <1>3, <1>4, <1>5, <1>6, <1>7 DEF Next

(* mem_cur means reported, for any number of points and connections and    *)
(* any size of the queue: the main loop enqueues the report and marks the  *)
(* point in one critical section, and whatever is read afterwards is to be *)
(* reported again.                                                         *)
THEOREM CurrentHolds == Spec => []CurrentMeansReported
<1>1. Init => ClosedInv /\ CurrentMeansReported
  BY DEF Init, ClosedInv, CurrentMeansReported, Points
<1>2. IInv /\ ClosedInv /\ CurrentMeansReported /\ [Next]_vars
        => ClosedInv' /\ CurrentMeansReported'
  BY NextReported, NextClosed DEF IInv
<1> QED BY <1>1, <1>2, Inductive, PTL DEF Spec
=============================================================================
