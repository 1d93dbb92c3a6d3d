-------------------------- MODULE CS104SlaveProofs --------------------------
(***************************************************************************)
(* Proofs about the life cycle of the server, for any number of            *)
(* connections, slots of the table and redundancy groups.                  *)
(***************************************************************************)
EXTENDS CS104Slave, FiniteSetTheorems, WellFoundedInduction, TLAPS

(* Connections, groups and the owners of a free lock are different things, *)
(* and every connection belongs to a group.                                *)
LEMMA Parameters ==
  /\ Nobody \notin Connections /\ Main \notin Connections /\ Main # Nobody
  /\ Nobody \notin Groups /\ Main \notin Groups /\ Connections \intersect Groups = {}
  /\ \A l \in Limits : l \in Nat /\ 0 < l /\ l <= MaxClients
  /\ MaxClients \in Nat \ {0} /\ NumGroups \in Nat \ {0} /\ QueueSize \in Nat \ {0}
  /\ \A c \in Connections : RedundancyGroup[c] \in Groups
  /\ 1 \in Groups
BY SlaveParametersAssumption DEF Groups

Occupied == {i \in Slots : masterConnections[i] # Nobody}

(* A connection has one slot of the table, and openConnections counts them.*)
TableInv ==
  /\ \A i, j \in Slots :
       masterConnections[i] = masterConnections[j] /\ masterConnections[i] # Nobody => i = j
  /\ openConnections = Cardinality(Occupied)

(* The one connection that is created and not started is the listening     *)
(* thread's; there was room for it, and nobody but that thread takes it.   *)
ServerInv ==
  /\ serverPc \in {"register", "start"} =>
       newConnection \in Connections /\ thread[newConnection] = "created"
  /\ \A c \in Connections :
       thread[c] = "created" => serverPc \in {"register", "start"} /\ newConnection = c
  /\ serverPc = "register" => openConnections < maxOpenConnections
  /\ mainPc = "init" => serverPc = "none"
  /\ mainPc \in {"closing", "waiting", "freed"} => serverPc = "exited"

(* The slots of the table hold the connections whose threads may run.      *)
ThreadsInv ==
  \A c \in Connections :
    IsOpen(c) <=> \/ thread[c] \notin {"none", "created", "free"}
                  \/ thread[c] = "created" /\ serverPc = "start"

(* The main loop is in a dispatch, or stuck or dead inside it.             *)
Dispatching == {"dispatch", "insert", "crashed", "hung"}

(* Who has the lock of the table.                                          *)
LockInv ==
  /\ \A c \in Connections : openConnectionsLock = c <=> thread[c] = "free"
  /\ openConnectionsLock = Main <=> serverMode = "connection" /\ mainPc \in Dispatching

(* The queue of a connection exists until its thread destroys it, a shared *)
(* one until the slave is freed.                                           *)
QueueInv ==
  /\ serverMode = "connection" /\ mainPc # "freed" =>
       \A c \in Connections : queue[c] = Destroyed <=> thread[c] \in {"none", "remove", "free"}
  /\ serverMode # "connection" /\ mainPc \notin {"init", "freed"} =>
       \A g \in Groups : queue[g] # Destroyed

(* The slots or groups a dispatch has passed are empty, reached, the one   *)
(* in use, or of a connection that waits to be removed.                    *)
Removing(c) == serverMode = "connection" /\ c \in Connections /\ thread[c] = "remove"
Passed(q) == q \in reached \union {Nobody, target} \/ Removing(q)
DispatchInv ==
  /\ cursor >= 1
  /\ mainPc \notin Dispatching => cursor = 1
  /\ mainPc \notin {"insert", "crashed", "hung"} => target = Nobody
  /\ mainPc = "insert" => target \in Queues
  /\ target # Nobody => IF serverMode = "connection" THEN IsOpen(target) ELSE target \in Groups
  /\ mainPc \in {"dispatch", "insert"} => \A i \in Targets : i < cursor => Passed(Target(i))

(* The slave is freed with an empty table that nobody is removing from.    *)
FreedInv == mainPc = "freed" => openConnections = 0 /\ openConnectionsLock = Nobody

IInv ==
  TypeOK /\ TableInv /\ ServerInv /\ ThreadsInv /\ LockInv /\ QueueInv /\ DispatchInv /\ FreedInv

-----------------------------------------------------------------------------
(* The table.                                                              *)

(* A set of slots is finite and no larger than the table.                  *)
LEMMA SlotsAreFinite ==
  ASSUME NEW S \in SUBSET Slots
  PROVE  /\ IsFiniteSet(S) /\ Cardinality(S) \in Nat /\ Cardinality(S) <= MaxClients
         /\ Cardinality(S) = MaxClients => S = Slots
<1>1. IsFiniteSet(Slots) /\ Cardinality(Slots) = MaxClients
  BY Parameters, FS_Interval DEF Slots
<1> QED BY <1>1, FS_Subset, FS_CardinalityType

(* A set of numbers that is not empty has a least one.                     *)
LEMMA LeastElement ==
  ASSUME NEW S \in SUBSET Nat, S # {}
  PROVE  \E m \in S : \A k \in S : m <= k
<1>1. PICK m \in S : \A k \in S : <<k, m>> \notin OpToRel(<, Nat)
  BY WFMin, NatLessThanWellFounded, Zenon
<1>2. \A k \in S : ~ (k < m)
  BY <1>1, Zenon DEF OpToRel
<1>3. \A k \in S : m <= k
  BY <1>2
<1> QED BY <1>3

(* addOpenConnection takes a slot of the table that is free.               *)
LEMMA FirstFreeSlot ==
  ASSUME FreeSlots # {}
  PROVE  (CHOOSE i \in FreeSlots : \A k \in FreeSlots : i <= k) \in FreeSlots
<1>1. FreeSlots \in SUBSET Nat
  BY DEF FreeSlots, Slots
<1> QED BY <1>1, LeastElement

(* While the count is below its limit a slot is free.                      *)
LEMMA RoomForOne ==
  ASSUME TypeOK, TableInv, openConnections < maxOpenConnections
  PROVE  FreeSlots # {}
<1>1. Occupied \in SUBSET Slots /\ (FreeSlots = {} => Occupied = Slots)
  BY DEF Occupied, FreeSlots
<1>2. Cardinality(Occupied) < MaxClients
  BY Parameters DEF TypeOK, TableInv
<1> QED BY <1>1, <1>2, SlotsAreFinite, Parameters, FS_Interval DEF Slots

(* A connection is open when it is in an occupied slot; one that is, is    *)
(* counted.                                                                *)
LEMMA OpenIsCounted ==
  ASSUME TypeOK, TableInv, NEW c \in Connections, IsOpen(c)
  PROVE  openConnections >= 1
<1>1. Occupied \in SUBSET Slots /\ Occupied # {}
  BY Parameters DEF Occupied, IsOpen
<1> QED BY <1>1, SlotsAreFinite, FS_EmptySet DEF TableInv

-----------------------------------------------------------------------------
(* The invariant holds at first.                                           *)
LEMMA InitIInv == Init => IInv
<1> SUFFICES ASSUME Init PROVE IInv
  OBVIOUS
<1> USE Parameters DEF Init
<1>1. TypeOK
  <2>1. /\ masterConnections \in [Slots -> Connections \union {Nobody}]
        /\ queueLock \in [Queues -> Connections \union {Nobody, Main}]
        /\ queue \in [Queues -> {Destroyed} \union 0 .. QueueSize]
    OBVIOUS
  <2>2. openConnections \in 0 .. maxOpenConnections
    OBVIOUS
  <2> QED BY <2>1, <2>2 DEF TypeOK
<1>2. TableInv
  <2>1. Occupied = {}
    BY DEF Occupied, Slots
  <2> QED BY <2>1, FS_EmptySet DEF TableInv
<1>3. ServerInv /\ ThreadsInv /\ LockInv /\ QueueInv /\ DispatchInv /\ FreedInv
  <2>1. \A c \in Connections : queue[c] = Destroyed
    BY DEF Queues
  <2> QED BY <2>1 DEF ServerInv, ThreadsInv, LockInv, QueueInv, DispatchInv, FreedInv, IsOpen, Dispatching
<1> QED BY <1>1, <1>2, <1>3 DEF IInv

-----------------------------------------------------------------------------
(* Types.                                                                  *)

(* The queue an event goes to is one there is.                             *)
LEMMA TargetType ==
  ASSUME TypeOK, cursor \in Targets
  PROVE  Target(cursor) \in Queues \union {Nobody}
BY Parameters, SlaveParametersAssumption DEF TypeOK, Targets, Target, Queues

(* A connection has a queue and a group.                                   *)
LEMMA QueueOfType ==
  ASSUME TypeOK, NEW c \in Connections
  PROVE  QueueOf(c) \in Queues /\ Group(c) \in Groups
BY Parameters DEF QueueOf, Group, Queues

(* Steps of the main thread keep the types.                                *)
LEMMA MainType ==
  ASSUME IInv, Start \/ Stop \/ BeginEnqueue \/ MainStep
  PROVE  TypeOK'
<1> USE DEF IInv, TypeOK, parameters, mainVars, serverVars, flags, table, locks, conFlags, history
<1>1. CASE Start
  <2>1. queue' \in [Queues -> {Destroyed} \union 0 .. QueueSize]
    BY <1>1, Parameters DEF Start
  <2> QED BY <1>1, <2>1 DEF Start
<1>2. CASE Stop
  BY <1>2 DEF Stop
<1>3. CASE BeginEnqueue
  BY <1>3 DEF BeginEnqueue
<1>4. CASE FinishStart
  BY <1>4 DEF FinishStart
<1>5. CASE BeginDispatch
  BY <1>5 DEF BeginDispatch, DispatchLock
<1>6. CASE SkipEmptySlot
  BY <1>6 DEF SkipEmptySlot
<1>7. CASE LockQueue
  <2>1. Target(cursor) \in Queues
    BY <1>7, TargetType DEF LockQueue
  <2> QED BY <1>7, <2>1 DEF LockQueue
<1>8. CASE Insert
  <2>1. target \in Queues
    BY <1>8 DEF Insert, DispatchInv
  <2>2. queue' \in [Queues -> {Destroyed} \union 0 .. QueueSize]
    BY <1>8, <2>1, Parameters DEF Insert, Destroyed
  <2> QED BY <1>8, <2>1, <2>2 DEF Insert
<1>9. CASE EndDispatch
  BY <1>9 DEF EndDispatch
<1>10. CASE JoinServerThread
  BY <1>10 DEF JoinServerThread
<1>11. CASE CloseConnections
  <2>1. Open \subseteq Connections
    BY DEF Open
  <2> QED BY <1>11, <2>1 DEF CloseConnections
<1>12. CASE FreeSlave
  BY <1>12 DEF FreeSlave
<1> QED BY <1>1, <1>2, <1>3, <1>4, <1>5, <1>6, <1>7, <1>8, <1>9, <1>10, <1>11, <1>12
        DEF MainStep, DispatchStep

(* Steps of the listening thread keep the types.                           *)
LEMMA ServerType ==
  ASSUME IInv, ServerStep
  PROVE  TypeOK'
<1> USE DEF IInv, TypeOK, parameters, mainVars, serverVars, flags, table, locks, conFlags, history
<1>1. CASE OpenServerSocket
  BY <1>1 DEF OpenServerSocket
<1>2. CASE ReportStart
  BY <1>2 DEF ReportStart
<1>3. CASE Register
  <2>1. openConnections < maxOpenConnections /\ newConnection \in Connections
    BY <1>3 DEF Register, ServerInv
  <2>2. openConnections' \in 0 .. maxOpenConnections
    BY <1>3, <2>1, Parameters DEF Register
  <2>3. masterConnections' \in [Slots -> Connections \union {Nobody}]
    BY <1>3, <2>1 DEF Register
  <2> QED BY <1>3, <2>2, <2>3 DEF Register
<1>4. CASE StartThread
  BY <1>4 DEF StartThread
<1>5. CASE EndServerThread
  BY <1>5 DEF EndServerThread
<1> QED BY <1>1, <1>2, <1>3, <1>4, <1>5 DEF ServerStep

(* Steps of a connection and of its peer keep the types.                   *)
LEMMA ConnectionType ==
  ASSUME IInv, NEW c \in Connections,
         \/ Accept(c) \/ ConnectionStep(c) \/ ConnectionInput(c)
         \/ Stall(c) \/ Resume(c) \/ Leave(c)
  PROVE  TypeOK'
<1> USE DEF IInv, TypeOK, Moves,
        parameters, mainVars, serverVars, flags, table, locks, conFlags, history
<1>1. CASE Accept(c)
  <2>1. queue' \in [Queues -> {Destroyed} \union 0 .. QueueSize]
    BY <1>1, Parameters DEF Accept, NewConnection, Queues
  <2> QED BY <1>1, <2>1 DEF Accept, NewConnection
<1>2. CASE BeginThread(c) \/ ActivateSelf(c) \/ EndLoop(c)
  BY <1>2 DEF BeginThread, ActivateSelf, EndLoop
<1>3. CASE DeactivateOthers(c)
  <2>1. conActive' \in [Connections -> BOOLEAN]
    BY <1>3 DEF DeactivateOthers
  <2> QED BY <1>3, <2>1 DEF DeactivateOthers
<1>4. CASE BeginWrite(c)
  <2>1. queue' \in [Queues -> {Destroyed} \union 0 .. QueueSize]
    BY <1>4, QueueOfType, Parameters DEF BeginWrite, Destroyed
  <2> QED BY <1>4, <2>1, QueueOfType DEF BeginWrite
<1>5. CASE EndWrite(c)
  BY <1>5, QueueOfType DEF EndWrite, ReleaseQueueLock
<1>6. CASE DestroyQueues(c)
  BY <1>6 DEF DestroyQueues
<1>7. CASE RemoveConnection(c)
  <2>1. openConnections >= 1
    BY <1>7, OpenIsCounted DEF RemoveConnection, ThreadsInv
  <2>2. openConnections' \in 0 .. maxOpenConnections
    BY <1>7, <2>1, Parameters DEF RemoveConnection
  <2> QED BY <1>7, <2>2 DEF RemoveConnection
<1>8. CASE DestroyConnection(c)
  BY <1>8 DEF DestroyConnection
<1>9. CASE ConnectionInput(c)
  <2>1. CASE ReceiveStartDT(c)
    BY <2>1 DEF ReceiveStartDT
  <2>2. CASE ReceiveStopDT(c)
    BY <2>2 DEF ReceiveStopDT
  <2>3. CASE GiveUp(c)
    BY <2>3 DEF GiveUp
  <2> QED BY <1>9, <2>1, <2>2, <2>3 DEF ConnectionInput
<1>10. CASE Stall(c) \/ Resume(c) \/ Leave(c)
  BY <1>10 DEF Stall, Resume, Leave
<1> QED BY <1>1, <1>2, <1>3, <1>4, <1>5, <1>6, <1>7, <1>8, <1>9, <1>10 DEF ConnectionStep

-----------------------------------------------------------------------------
(* What a step may change that the other parts of the invariant speak of:  *)
(* the steps that touch none of it keep them.                              *)
Quiet ==
  UNCHANGED <<serverMode, maxOpenConnections, mainPc, cursor, target, serverPc, newConnection,
              masterConnections, openConnections, openConnectionsLock, thread, reached>>

Parts == TableInv /\ ServerInv /\ ThreadsInv /\ LockInv /\ DispatchInv

(* A step that touches neither table nor locks keeps the invariants.       *)
LEMMA QuietStep ==
  ASSUME Parts, Quiet
  PROVE  Parts'
<1> USE DEF Quiet, Passed, Removing
<1>1. Occupied' = Occupied /\ Targets' = Targets
  BY DEF Occupied, Targets
<1>2. \A c : IsOpen(c)' = IsOpen(c)
  BY DEF IsOpen
<1>3. \A i : Target(i)' = Target(i)
  BY DEF Target
<1> QED BY <1>1, <1>2, <1>3 DEF Parts, TableInv, ServerInv, ThreadsInv, LockInv, DispatchInv

(* The table stays as it is.                                               *)
LEMMA SameTable ==
  ASSUME TableInv, UNCHANGED <<table, serverMode>>
  PROVE  /\ TableInv' /\ Targets' = Targets
         /\ \A c : IsOpen(c)' <=> IsOpen(c)
         /\ \A i : Target(i)' = Target(i)
BY DEF TableInv, Occupied, table, IsOpen, Targets, Target

(* The thread of a connection moves on, and stays among those that run.    *)
LEMMA MoveStep ==
  ASSUME IInv, NEW c \in Connections, NEW from, NEW to,
         from \notin {"none", "created", "free", "remove"}, to \notin {"none", "created", "free"},
         Moves(c, from, to),
         UNCHANGED <<parameters, mainVars, serverVars, table, openConnectionsLock, reached>>
  PROVE  Parts'
<1> USE DEF IInv, Moves, parameters, mainVars, serverVars
<1>1. /\ TableInv' /\ Targets' = Targets
      /\ \A d : IsOpen(d)' <=> IsOpen(d)
      /\ \A i : Target(i)' = Target(i)
  BY SameTable
<1>2. /\ \A d \in Connections : d # c => thread'[d] = thread[d]
      /\ thread[c] = from /\ thread'[c] = to
  BY DEF TypeOK
<1>3. ServerInv'
  BY <1>2 DEF ServerInv, table
<1>4. ThreadsInv'
  BY <1>1, <1>2 DEF ThreadsInv
<1>5. LockInv'
  BY <1>2 DEF LockInv
<1>6. DispatchInv'
  <2>1. \A q : Passed(q) => Passed(q)'
    BY <1>2 DEF Passed, Removing
  <2> QED BY <1>1, <2>1 DEF DispatchInv
<1> QED BY <1>1, <1>3, <1>4, <1>5, <1>6 DEF Parts

(* The thread of a connection leaves the table, and then is gone.          *)
LEMMA RemoveStep ==
  ASSUME IInv, NEW c \in Connections, RemoveConnection(c)
  PROVE  Parts'
<1> USE DEF IInv, RemoveConnection, Moves, parameters, mainVars, serverVars, history
<1>1. PICK i \in Slots : masterConnections[i] = c
  BY DEF ThreadsInv, IsOpen
<1>2. \A j \in Slots : masterConnections[j] = c <=> j = i
  BY <1>1, Parameters DEF TableInv
<1>3. /\ \A j \in Slots : masterConnections'[j] = IF j = i THEN Nobody ELSE masterConnections[j]
      /\ \A d \in Connections : IsOpen(d)' <=> IsOpen(d) /\ d # c
  <2>1. \A j \in Slots : masterConnections'[j] = IF j = i THEN Nobody ELSE masterConnections[j]
    BY <1>2
  <2> QED BY <1>2, <2>1, Parameters DEF IsOpen
<1>4. TableInv'
  <2>1. Occupied' = Occupied \ {i} /\ i \in Occupied /\ Occupied \in SUBSET Slots
    BY <1>1, <1>3, Parameters DEF Occupied
  <2>2. Cardinality(Occupied') = Cardinality(Occupied) - 1
    BY <2>1, SlotsAreFinite, FS_RemoveElement
  <2> QED BY <1>3, <2>2 DEF TableInv
<1>5. /\ \A d \in Connections : d # c => thread'[d] = thread[d]
      /\ thread[c] = "remove" /\ thread'[c] = "free"
  BY DEF TypeOK
<1>6. ServerInv'
  <2>1. openConnections \in Int /\ maxOpenConnections \in Int
    BY Parameters DEF TypeOK
  <2> QED BY <1>5, <2>1 DEF ServerInv
<1>7. ThreadsInv'
  BY <1>3, <1>5 DEF ThreadsInv
<1>8. LockInv'
  BY <1>5, Parameters DEF LockInv
<1>9. DispatchInv'
  <2>1. ~ (serverMode = "connection" /\ mainPc \in Dispatching)
    BY Parameters DEF LockInv
  <2>4. serverMode # "connection" => \A q : Passed(q)' <=> Passed(q)
    BY DEF Passed, Removing
  <2>5. serverMode = "connection" => target = Nobody
    BY <2>1 DEF DispatchInv, Dispatching
  <2>2. Targets' = Targets
    BY DEF Targets
  <2>3. serverMode # "connection" => \A k : Target(k)' = k /\ Target(k) = k
    BY DEF Target
  <2> QED BY <2>1, <2>2, <2>3, <2>4, <2>5 DEF DispatchInv, Dispatching
<1> QED BY <1>4, <1>6, <1>7, <1>8, <1>9 DEF Parts

(* A connection that leaves the table frees its slot and is not counted.   *)
LEMMA DestroyStep ==
  ASSUME IInv, NEW c \in Connections, DestroyConnection(c)
  PROVE  Parts'
<1> USE DEF IInv, DestroyConnection, Moves, parameters, mainVars, serverVars
<1>1. /\ TableInv' /\ Targets' = Targets
      /\ \A d : IsOpen(d)' <=> IsOpen(d)
      /\ \A i : Target(i)' = Target(i)
  BY SameTable
<1>2. /\ \A d \in Connections : d # c => thread'[d] = thread[d]
      /\ thread[c] = "free" /\ thread'[c] = "none"
  BY DEF TypeOK
<1>3. ServerInv'
  BY <1>2 DEF ServerInv, table
<1>4. ThreadsInv'
  BY <1>1, <1>2 DEF ThreadsInv
<1>5. LockInv'
  BY <1>2, Parameters DEF LockInv
<1>6. DispatchInv'
  <2>1. \A q : Passed(q) => Passed(q)'
    BY <1>2 DEF Passed, Removing
  <2> QED BY <1>1, <2>1 DEF DispatchInv
<1> QED BY <1>1, <1>3, <1>4, <1>5, <1>6 DEF Parts

(* A connection is accepted: nothing of it is in the table yet.            *)
LEMMA AcceptStep ==
  ASSUME IInv, NEW c \in Connections, Accept(c)
  PROVE  Parts'
<1> USE DEF IInv, Accept, NewConnection, parameters, mainVars
<1>1. /\ TableInv' /\ Targets' = Targets
      /\ \A d : IsOpen(d)' <=> IsOpen(d)
      /\ \A i : Target(i)' = Target(i)
  BY SameTable
<1>2. /\ \A d \in Connections : d # c => thread'[d] = thread[d]
      /\ thread[c] = "none" /\ thread'[c] = "created"
  BY DEF TypeOK
<1>3. ServerInv'
  <2>1. openConnections < maxOpenConnections
    BY Parameters DEF HasRoom, TypeOK
  <2> QED BY <1>2, <2>1 DEF ServerInv, table
<1>4. ThreadsInv'
  BY <1>1, <1>2 DEF ThreadsInv
<1>5. LockInv'
  BY <1>2 DEF LockInv, locks
<1>6. DispatchInv'
  <2>1. \A q : Passed(q) => Passed(q)'
    BY <1>2 DEF Passed, Removing
  <2> QED BY <1>1, <2>1 DEF DispatchInv
<1> QED BY <1>1, <1>3, <1>4, <1>5, <1>6 DEF Parts

(* Every step of a connection keeps the invariant.                         *)
LEMMA ConnectionStepInv ==
  ASSUME IInv, NEW c \in Connections,
         \/ Accept(c) \/ ConnectionStep(c) \/ ConnectionInput(c)
         \/ Stall(c) \/ Resume(c) \/ Leave(c)
  PROVE  Parts'
<1> USE DEF locks, history
<1>1. CASE Accept(c)
  BY <1>1, AcceptStep
<1>2. CASE BeginThread(c)
  BY <1>2, MoveStep DEF BeginThread
<1>3. CASE DeactivateOthers(c)
  BY <1>3, MoveStep DEF DeactivateOthers
<1>4. CASE ActivateSelf(c)
  BY <1>4, MoveStep DEF ActivateSelf
<1>5. CASE BeginWrite(c)
  BY <1>5, MoveStep DEF BeginWrite
<1>6. CASE EndWrite(c)
  BY <1>6, MoveStep DEF EndWrite
<1>7. CASE EndLoop(c)
  BY <1>7, MoveStep DEF EndLoop
<1>8. CASE DestroyQueues(c)
  BY <1>8, MoveStep DEF DestroyQueues
<1>9. CASE RemoveConnection(c)
  BY <1>9, RemoveStep
<1>10. CASE DestroyConnection(c)
  BY <1>10, DestroyStep
<1>11. CASE ReceiveStartDT(c)
  BY <1>11, MoveStep DEF ReceiveStartDT
<1>12. CASE GiveUp(c)
  BY <1>12, MoveStep DEF GiveUp
<1>13. CASE ReceiveStopDT(c) \/ Stall(c) \/ Resume(c) \/ Leave(c)
  <2>1. Quiet
    BY <1>13 DEF ReceiveStopDT, Stall, Resume, Leave, Quiet, parameters, mainVars, serverVars, table
  <2> QED BY <2>1, QuietStep DEF IInv, Parts
<1> QED BY <1>1, <1>2, <1>3, <1>4, <1>5, <1>6, <1>7, <1>8, <1>9, <1>10, <1>11, <1>12, <1>13
        DEF ConnectionStep, ConnectionInput

(* The listening thread registers the connection it accepted: it takes a   *)
(* free slot, which the count allowed, and no other.                       *)
LEMMA RegisterStep ==
  ASSUME IInv, Register
  PROVE  Parts'
<1> USE DEF IInv, Register, parameters, mainVars, locks, history
<1> DEFINE i == CHOOSE j \in FreeSlots : \A k \in FreeSlots : j <= k
<1>1. /\ newConnection \in Connections /\ thread[newConnection] = "created"
      /\ openConnections < maxOpenConnections /\ ~ IsOpen(newConnection)
  BY DEF ServerInv, ThreadsInv
<1>2. FreeSlots # {} /\ i \in FreeSlots
  BY <1>1, RoomForOne, FirstFreeSlot
<1>3. /\ i \in Slots /\ masterConnections[i] = Nobody
      /\ masterConnections' = [masterConnections EXCEPT ![i] = newConnection]
      /\ openConnections' = openConnections + 1
  BY <1>2 DEF FreeSlots
<1> HIDE DEF i
<1>4. \A j \in Slots :
        masterConnections'[j] = IF j = i THEN newConnection ELSE masterConnections[j]
  BY <1>3 DEF TypeOK
<1>5. \A d \in Connections : IsOpen(d)' <=> IsOpen(d) \/ d = newConnection
  BY <1>3, <1>4, Parameters DEF IsOpen
<1>6. TableInv'
  <2>1. Occupied' = Occupied \union {i} /\ i \notin Occupied /\ Occupied \in SUBSET Slots
    BY <1>1, <1>3, <1>4, Parameters DEF Occupied
  <2>2. Cardinality(Occupied') = Cardinality(Occupied) + 1
    BY <2>1, SlotsAreFinite, FS_AddElement
  <2>3. \A j \in Slots : masterConnections[j] # newConnection
    BY <1>1 DEF IsOpen
  <2> QED BY <1>1, <1>3, <1>4, <2>2, <2>3 DEF TableInv
<1>7. ServerInv'
  BY <1>1 DEF ServerInv
<1>8. ThreadsInv'
  BY <1>1, <1>5 DEF ThreadsInv, ServerInv
<1>9. LockInv'
  BY DEF LockInv
<1>10. DispatchInv'
  <2>1. ~ (serverMode = "connection" /\ mainPc \in Dispatching)
    BY Parameters DEF LockInv
  <2>4. serverMode # "connection" => \A q : Passed(q)' <=> Passed(q)
    BY DEF Passed, Removing
  <2>5. serverMode = "connection" => target = Nobody
    BY <2>1 DEF DispatchInv, Dispatching
  <2>2. Targets' = Targets
    BY DEF Targets
  <2>3. serverMode # "connection" => \A k : Target(k)' = k /\ Target(k) = k
    BY DEF Target
  <2> QED BY <2>1, <2>2, <2>3, <2>4, <2>5 DEF DispatchInv, Dispatching
<1> QED BY <1>6, <1>7, <1>8, <1>9, <1>10 DEF Parts

(* Every step of the listening thread keeps the invariants.                *)
LEMMA ServerStepInv ==
  ASSUME IInv, ServerStep
  PROVE  Parts'
<1> USE DEF IInv, parameters, mainVars, serverVars, locks, history
<1>1. CASE Register
  BY <1>1, RegisterStep
<1>2. CASE OpenServerSocket \/ ReportStart \/ StartThread \/ EndServerThread
  <2>1. UNCHANGED <<mainPc, cursor, target, reached, openConnectionsLock, table, parameters>>
    BY <1>2 DEF OpenServerSocket, ReportStart, StartThread, EndServerThread
  <2>2. /\ TableInv' /\ Targets' = Targets
        /\ \A d : IsOpen(d)' <=> IsOpen(d)
        /\ \A i : Target(i)' = Target(i)
    BY <2>1, SameTable
  <2>3. DispatchInv'
    <3>1. \A c \in Connections : thread[c] = "remove" => thread'[c] = "remove"
      BY <1>2 DEF OpenServerSocket, ReportStart, StartThread, EndServerThread, ServerInv, TypeOK
    <3>2. \A q : Passed(q) => Passed(q)'
      BY <2>1, <3>1 DEF Passed, Removing
    <3> QED BY <2>1, <2>2, <3>2 DEF DispatchInv
  <2>4. CASE StartThread
    <3>1. newConnection \in Connections /\ thread[newConnection] = "created"
      BY <2>4 DEF StartThread, ServerInv
    <3>2. /\ \A d \in Connections : d # newConnection => thread'[d] = thread[d]
          /\ thread'[newConnection] = "spawned"
      BY <2>4, <3>1 DEF StartThread, TypeOK
    <3>3. ServerInv'
      BY <2>4, <3>1, <3>2 DEF StartThread, ServerInv
    <3>4. ThreadsInv'
      BY <2>2, <2>4, <3>1, <3>2 DEF StartThread, ThreadsInv, ServerInv
    <3>5. LockInv'
      BY <2>1, <3>1, <3>2 DEF LockInv
    <3> QED BY <2>2, <2>3, <3>3, <3>4, <3>5 DEF Parts
  <2>5. CASE OpenServerSocket \/ ReportStart \/ EndServerThread
    <3>1. /\ UNCHANGED thread /\ serverPc' \notin {"register", "start"}
          /\ serverPc \notin {"none", "register", "start", "exited"}
      BY <2>5 DEF OpenServerSocket, ReportStart, EndServerThread
    <3>2. ServerInv' /\ ThreadsInv' /\ LockInv'
      BY <2>1, <2>2, <3>1 DEF ServerInv, ThreadsInv, LockInv
    <3> QED BY <2>2, <2>3, <3>2 DEF Parts
  <2> QED BY <1>2, <2>4, <2>5
<1> QED BY <1>1, <1>2 DEF ServerStep

(* The steps of the main thread: none changes the table, who runs, or the  *)
(* mode of the server.                                                     *)
LEMMA MainFrame ==
  ASSUME IInv, Start \/ Stop \/ BeginEnqueue \/ MainStep
  PROVE  /\ UNCHANGED <<parameters, table, thread, newConnection>>
         /\ TableInv' /\ Targets' = Targets
         /\ \A d : IsOpen(d)' <=> IsOpen(d)
         /\ \A i : Target(i)' = Target(i)
<1>1. UNCHANGED <<parameters, table, thread, newConnection>>
  BY DEF Start, Stop, BeginEnqueue, MainStep, DispatchStep, FinishStart, JoinServerThread,
         CloseConnections, FreeSlave, BeginDispatch, SkipEmptySlot, LockQueue, Insert, EndDispatch,
         serverVars
<1> QED BY <1>1, SameTable DEF IInv, parameters

(* A destroyed queue in use is that of a connection about to be removed.   *)
LEMMA DestroyedIsRemoved ==
  ASSUME IInv, target # Nobody
  PROVE  queue[target] = Destroyed <=> Removing(target)
<1>1. mainPc \in {"insert", "crashed", "hung"}
  BY DEF IInv, DispatchInv
<1>2. CASE serverMode = "connection"
  <2>1. IsOpen(target) /\ target \in Connections
    BY <1>2 DEF IInv, DispatchInv, IsOpen, TypeOK
  <2>2. thread[target] \notin {"none", "free"}
    BY <2>1 DEF IInv, ThreadsInv
  <2> QED BY <1>1, <1>2, <2>1, <2>2 DEF IInv, QueueInv, Removing
<1>3. CASE serverMode # "connection"
  BY <1>1, <1>3 DEF IInv, DispatchInv, QueueInv, Removing
<1> QED BY <1>2, <1>3

(* Every step of a dispatch keeps the invariants.                          *)
LEMMA DispatchStepInv ==
  ASSUME IInv, DispatchStep
  PROVE  Parts'
<1> USE Parameters, MainFrame
    DEF IInv, MainStep, parameters, serverVars, table, locks, history
<1>1. CASE BeginDispatch
  <2>1. ServerInv' /\ ThreadsInv'
    BY <1>1 DEF BeginDispatch, ServerInv, ThreadsInv
  <2>2. LockInv'
    BY <1>1 DEF BeginDispatch, DispatchLock, LockInv, Dispatching
  <2>3. DispatchInv'
    <3>1. \A i \in Targets : i \in Nat \ {0}
      BY SlaveParametersAssumption DEF Targets, Slots, Groups, TypeOK
    <3> QED BY <1>1, <3>1 DEF BeginDispatch, DispatchInv, Dispatching
  <2> QED BY <2>1, <2>2, <2>3 DEF Parts
<1>2. CASE SkipEmptySlot
  <2>1. ServerInv' /\ ThreadsInv' /\ LockInv'
    BY <1>2 DEF SkipEmptySlot, ServerInv, ThreadsInv, LockInv, Dispatching
  <2>2. DispatchInv'
    <3>1. cursor \in Nat /\ \A i \in Targets : i \in Nat /\ (i < cursor + 1 => i < cursor \/ i = cursor)
      BY SlaveParametersAssumption DEF Targets, Slots, Groups, TypeOK
    <3>2. \A i \in Targets : i < cursor' => Passed(Target(i))
      BY <1>2, <3>1 DEF SkipEmptySlot, DispatchInv, Passed
    <3>3. /\ cursor' >= 1 /\ UNCHANGED <<mainPc, target, reached, serverMode, thread>>
          /\ \A q : Passed(q)' <=> Passed(q)
      BY <1>2, <3>1 DEF SkipEmptySlot, Passed, Removing
    <3>4. mainPc = "dispatch" /\ target = Nobody
      BY <1>2 DEF SkipEmptySlot, DispatchInv
    <3> QED BY <3>2, <3>3, <3>4 DEF DispatchInv, Dispatching
  <2> QED BY <2>1, <2>2 DEF Parts
<1>3. CASE LockQueue
  <2>1. ServerInv' /\ ThreadsInv' /\ LockInv'
    BY <1>3 DEF LockQueue, ServerInv, ThreadsInv, LockInv, Dispatching
  <2>2. DispatchInv'
    <3>1. cursor \in Nat /\ \A i \in Targets : i \in Nat /\ (i < cursor + 1 => i < cursor \/ i = cursor)
      BY SlaveParametersAssumption DEF Targets, Slots, Groups, TypeOK
    <3>2. Target(cursor) \in Queues
      BY <1>3, TargetType DEF LockQueue
    <3>3. IF serverMode = "connection" THEN IsOpen(Target(cursor)) ELSE Target(cursor) \in Groups
      BY <1>3, SlaveParametersAssumption DEF LockQueue, Targets, Target, IsOpen, TypeOK
    <3>4. /\ cursor' >= 1 /\ target' = Target(cursor) /\ UNCHANGED <<reached, serverMode, thread>>
          /\ mainPc = "dispatch" /\ target = Nobody /\ mainPc' \in {"insert", "hung", "crashed"}
      BY <1>3, <3>1 DEF LockQueue, DispatchInv
    <3>5. \A q : Passed(q) \/ q = Target(cursor) => Passed(q)'
      BY <3>4 DEF Passed, Removing
    <3>6. \A i \in Targets : i < cursor' => Passed(Target(i))'
      BY <1>3, <3>1, <3>5 DEF LockQueue, DispatchInv
    <3>7. /\ Queues' = Queues
          /\ target' # Nobody =>
               IF serverMode' = "connection" THEN IsOpen(target)' ELSE target' \in Groups
      BY <3>3, <3>4, MainFrame DEF Queues, IsOpen
    <3> QED BY <3>2, <3>4, <3>6, <3>7 DEF DispatchInv, Dispatching
  <2> QED BY <2>1, <2>2 DEF Parts
<1>4. CASE Insert
  <2>1. ServerInv' /\ ThreadsInv' /\ LockInv'
    BY <1>4 DEF Insert, ServerInv, ThreadsInv, LockInv, Dispatching
  <2>2. DispatchInv'
    <3>1. mainPc = "insert" /\ target # Nobody /\ target \in Queues
      BY <1>4 DEF Insert, DispatchInv, Queues
    <3>2. queue[target] = Destroyed => Removing(target)
      BY <3>1, DestroyedIsRemoved
    <3>3. \A q : Passed(q) => Passed(q)'
      BY <1>4, <3>2 DEF Insert, Passed, Removing
    <3> QED BY <1>4, <3>1, <3>3 DEF Insert, DispatchInv, Dispatching
  <2> QED BY <2>1, <2>2 DEF Parts
<1>5. CASE EndDispatch
  <2>1. ServerInv' /\ ThreadsInv'
    BY <1>5 DEF EndDispatch, ServerInv, ThreadsInv
  <2>2. LockInv'
    BY <1>5 DEF EndDispatch, LockInv, Dispatching
  <2>3. DispatchInv'
    BY <1>5 DEF EndDispatch, DispatchInv, Dispatching
  <2> QED BY <2>1, <2>2, <2>3 DEF Parts
<1> QED BY <1>1, <1>2, <1>3, <1>4, <1>5 DEF DispatchStep

(* Starting, stopping and freeing: the listening thread is over when the   *)
(* connections are told to close.                                          *)
LEMMA MainStepInv ==
  ASSUME IInv, Start \/ Stop \/ BeginEnqueue \/ MainStep,
         mainPc \notin {"freed", "failed", "crashed"}
  PROVE  Parts'
<1> USE MainFrame DEF IInv, parameters, serverVars, table, locks, history
<1>1. CASE DispatchStep
  BY <1>1, DispatchStepInv
<1>2. CASE Start \/ Stop \/ BeginEnqueue \/ FinishStart \/ JoinServerThread
           \/ CloseConnections \/ FreeSlave
  <2> USE DEF Start, Stop, BeginEnqueue, FinishStart, JoinServerThread, CloseConnections, FreeSlave
  <2>1. /\ UNCHANGED <<openConnectionsLock, cursor, target, reached>>
        /\ mainPc \notin Dispatching /\ mainPc' \notin Dispatching
    BY <1>2 DEF Dispatching
  <2>2. ServerInv'
    BY <1>2 DEF ServerInv
  <2>3. ThreadsInv'
    BY <1>2 DEF ThreadsInv, ServerInv
  <2>4. LockInv' /\ DispatchInv'
    BY <2>1 DEF LockInv, DispatchInv, Dispatching
  <2> QED BY <2>2, <2>3, <2>4 DEF Parts
<1> QED BY <1>1, <1>2 DEF MainStep

-----------------------------------------------------------------------------
(* No step is taken once the slave is freed.                               *)
LEMMA FreedStep ==
  ASSUME Next
  PROVE  FreedInv'
<1>1. CASE Start \/ Stop \/ BeginEnqueue \/ MainStep
  BY <1>1 DEF FreedInv, Start, Stop, BeginEnqueue, MainStep, FinishStart, DispatchStep,
              BeginDispatch, SkipEmptySlot, LockQueue, Insert, EndDispatch, JoinServerThread,
              CloseConnections, FreeSlave, AllClosed, Next, table, locks
<1>2. CASE ServerStep
  <2>1. UNCHANGED mainPc
    BY <1>2 DEF ServerStep, OpenServerSocket, ReportStart, Register, StartThread, EndServerThread,
                mainVars
  <2> QED BY <2>1 DEF Next, FreedInv
<1>3. ASSUME NEW c \in Connections,
             \/ Accept(c) \/ ConnectionStep(c) \/ ConnectionInput(c)
             \/ Stall(c) \/ Resume(c) \/ Leave(c)
      PROVE  FreedInv'
  <2>1. UNCHANGED mainPc
    BY <1>3 DEF Accept, ConnectionStep, ConnectionInput, Stall, Resume, Leave, BeginThread,
                DeactivateOthers, ActivateSelf, BeginWrite, EndWrite, EndLoop, DestroyQueues,
                RemoveConnection, DestroyConnection, ReceiveStartDT, ReceiveStopDT, GiveUp, mainVars
  <2> QED BY <2>1 DEF Next, FreedInv
<1> QED BY <1>1, <1>2, <1>3 DEF Next

(* A queue is created with its connection and destroyed by its thread; the *)
(* shared ones are created by Start and destroyed with the slave.          *)
LEMMA QueueStep ==
  ASSUME IInv, Next
  PROVE  QueueInv'
<1> USE DEF IInv, Moves, locks, history, parameters, conFlags
<1>1. CASE Start \/ Stop \/ BeginEnqueue \/ MainStep
  <2>1. UNCHANGED <<serverMode, thread>>
    BY <1>1, MainFrame DEF parameters
  <2>2. CASE Start
    <3>1. /\ serverMode # "connection" => \A g \in Groups : queue'[g] = 0
          /\ serverMode = "connection" => \A c \in Connections : queue'[c] = queue[c]
      BY <2>2, Parameters DEF Start, TypeOK, Queues
    <3> QED BY <2>1, <2>2, <3>1 DEF Start, QueueInv, Destroyed
  <2>3. CASE Insert
    <3>1. \A q \in Queues : queue'[q] = Destroyed <=> queue[q] = Destroyed
      BY <2>3, Parameters DEF Insert, TypeOK, Destroyed
    <3> QED BY <2>1, <2>3, <3>1 DEF Insert, QueueInv, Queues
  <2>4. CASE FreeSlave
    BY <2>1, <2>4 DEF FreeSlave, QueueInv
  <2>5. CASE ~ (Start \/ Insert \/ FreeSlave)
    <3>1. UNCHANGED queue /\ mainPc \notin {"init", "freed"}
      BY <1>1, <2>5 DEF Stop, BeginEnqueue, MainStep, FinishStart, DispatchStep, BeginDispatch,
                        SkipEmptySlot, LockQueue, EndDispatch, JoinServerThread, CloseConnections
    <3> QED BY <2>1, <3>1 DEF QueueInv
  <2> QED BY <2>2, <2>3, <2>4, <2>5
<1>2. CASE ServerStep
  <2>1. UNCHANGED <<serverMode, queue, mainPc>>
    BY <1>2 DEF ServerStep, OpenServerSocket, ReportStart, Register, StartThread, EndServerThread,
                mainVars
  <2>2. \A c \in Connections : \/ thread'[c] = thread[c]
                               \/ thread[c] = "created" /\ thread'[c] = "spawned"
    BY <1>2 DEF ServerStep, OpenServerSocket, ReportStart, Register, StartThread, EndServerThread,
                ServerInv, TypeOK
  <2> QED BY <2>1, <2>2 DEF QueueInv
<1>3. ASSUME NEW c \in Connections,
             \/ Accept(c) \/ ConnectionStep(c) \/ ConnectionInput(c)
             \/ Stall(c) \/ Resume(c) \/ Leave(c)
      PROVE  QueueInv'
  <2>1. UNCHANGED <<serverMode, mainPc>> /\ c \notin Groups
    BY <1>3, Parameters DEF Accept, ConnectionStep, ConnectionInput, Stall, Resume, Leave, BeginThread,
                DeactivateOthers, ActivateSelf, BeginWrite, EndWrite, EndLoop, DestroyQueues,
                RemoveConnection, DestroyConnection, ReceiveStartDT, ReceiveStopDT, GiveUp, mainVars
  <2> USE <2>1 DEF QueueInv
  <2>2. CASE Accept(c)
    <3>1. /\ \A d \in Connections : d # c => queue'[d] = queue[d] /\ thread'[d] = thread[d]
          /\ \A g \in Groups : queue'[g] = queue[g]
          /\ thread'[c] = "created" /\ (serverMode = "connection" => queue'[c] = 0)
      BY <2>2, Parameters DEF Accept, NewConnection, TypeOK, Queues
    <3> QED BY <3>1 DEF Destroyed
  <2>3. CASE DestroyQueues(c)
    <3>1. /\ \A d \in Connections : d # c => queue'[d] = queue[d] /\ thread'[d] = thread[d]
          /\ \A g \in Groups : queue'[g] = queue[g]
          /\ thread'[c] = "remove" /\ (serverMode = "connection" => queue'[c] = Destroyed)
      BY <2>3, Parameters DEF DestroyQueues, TypeOK, Queues
    <3> QED BY <3>1
  <2>4. CASE BeginWrite(c)
    <3>1. \A q \in Queues : queue'[q] = Destroyed <=> queue[q] = Destroyed
      BY <2>4, QueueOfType, Parameters DEF BeginWrite, TypeOK, Destroyed
    <3>2. \A d \in Connections : d # c => thread'[d] = thread[d]
      BY <2>4 DEF BeginWrite, TypeOK
    <3>3. thread[c] = "loop" /\ thread'[c] = "write"
      BY <2>4 DEF BeginWrite, TypeOK
    <3> QED BY <3>1, <3>2, <3>3 DEF Queues
  <2>5. CASE ~ (Accept(c) \/ DestroyQueues(c) \/ BeginWrite(c))
    <3>1. UNCHANGED queue
      BY <1>3, <2>5 DEF ConnectionStep, ConnectionInput, Stall, Resume, Leave, BeginThread,
                DeactivateOthers, ActivateSelf, EndWrite, EndLoop,
                RemoveConnection, DestroyConnection, ReceiveStartDT, ReceiveStopDT, GiveUp
    <3>2. \A d \in Connections :
            thread'[d] \in {"none", "remove", "free"} <=> thread[d] \in {"none", "remove", "free"}
      BY <1>3, <2>5 DEF ConnectionStep, ConnectionInput, Stall, Resume, Leave, BeginThread,
                DeactivateOthers, ActivateSelf, EndWrite, EndLoop,
                RemoveConnection, DestroyConnection, ReceiveStartDT, ReceiveStopDT, GiveUp, TypeOK
    <3> QED BY <3>1, <3>2
  <2> QED BY <2>2, <2>3, <2>4, <2>5
<1> QED BY <1>1, <1>2, <1>3 DEF Next

(* The invariant is inductive.                                             *)
LEMMA IInvStep == IInv /\ [Next]_vars => IInv'
<1> SUFFICES ASSUME IInv, [Next]_vars PROVE TypeOK' /\ Parts' /\ QueueInv' /\ FreedInv'
  BY DEF IInv, Parts
<1>1. CASE Next
  <2>1. CASE Start \/ Stop \/ BeginEnqueue \/ MainStep
    BY <1>1, <2>1, MainType, MainStepInv, QueueStep, FreedStep DEF Next
  <2>2. CASE ServerStep
    BY <1>1, <2>2, ServerType, ServerStepInv, QueueStep, FreedStep
  <2>3. ASSUME NEW c \in Connections,
               \/ Accept(c) \/ ConnectionStep(c) \/ ConnectionInput(c)
               \/ Stall(c) \/ Resume(c) \/ Leave(c)
        PROVE  TypeOK' /\ Parts'
    BY <2>3, ConnectionType, ConnectionStepInv
  <2> QED BY <1>1, <2>1, <2>2, <2>3, QueueStep, FreedStep DEF Next
<1>2. CASE UNCHANGED vars
  <2> USE <1>2 DEF vars, parameters, mainVars, serverVars, flags, table, locks, conFlags, history
  <2>1. TypeOK' /\ QueueInv' /\ FreedInv'
    BY DEF IInv, TypeOK, QueueInv, FreedInv
  <2>2. Quiet
    BY DEF Quiet
  <2> QED BY <2>1, <2>2, QuietStep DEF IInv, Parts
<1> QED BY <1>1, <1>2

(* Every variable keeps its type, whatever the number of connections.      *)
THEOREM TypeCorrect == Spec => []TypeOK
<1>1. IInv => TypeOK
  BY DEF IInv
<1> QED BY <1>1, InitIInv, IInvStep, PTL DEF Spec

(* The count CS104_Slave_destroy waits on misses no thread, and the slave  *)
(* is freed when no thread of a connection is left, not even one that is   *)
(* inside its own removal.                                                 *)
THEOREM FreedAfterUseHolds == Spec => []FreedAfterUse
<1>1. IInv => FreedAfterUse
  <2> SUFFICES ASSUME IInv PROVE FreedAfterUse
    OBVIOUS
  <2>1. EveryThreadIsCounted
    BY DEF IInv, TableInv, ThreadsInv, EveryThreadIsCounted, Occupied
  <2>2. ASSUME mainPc = "freed", NEW c \in Connections
        PROVE  serverPc = "exited" /\ thread[c] = "none"
    <3>1. ~ IsOpen(c)
      BY <2>2, OpenIsCounted DEF IInv, FreedInv
    <3>2. thread[c] # "free"
      BY <2>2, Parameters DEF IInv, LockInv, FreedInv
    <3>3. serverPc = "exited" /\ thread[c] # "created"
      BY <2>2 DEF IInv, ServerInv
    <3> QED BY <3>1, <3>2, <3>3 DEF IInv, ThreadsInv
  <2>3. mainPc = "freed" => serverPc = "exited"
    BY DEF IInv, ServerInv
  <2> QED BY <2>1, <2>2, <2>3 DEF FreedAfterUse
<1> QED BY <1>1, InitIInv, IInvStep, PTL DEF Spec

(* While the main loop works on a queue, its connection is in the table    *)
(* and its object valid; the queue itself has been destroyed exactly when  *)
(* the connection waits to be removed.  Shared queues are never destroyed  *)
(* under a dispatch.                                                       *)
THEOREM DestroyedOnlyHolds == Spec => []DestroyedOnlyByRemoval
<1>1. IInv => DestroyedOnlyByRemoval
  <2> SUFFICES ASSUME IInv, target # Nobody PROVE DestroyedOnlyByRemoval
    BY DEF DestroyedOnlyByRemoval
  <2>1. queue[target] = Destroyed <=> Removing(target)
    BY DestroyedIsRemoved
  <2>2. IF serverMode = "connection" THEN IsOpen(target) /\ target \in Connections
                                     ELSE target \in Groups
    BY DEF IInv, DispatchInv, IsOpen, TypeOK
  <2> QED BY <2>1, <2>2 DEF Removing, DestroyedOnlyByRemoval
<1> QED BY <1>1, InitIInv, IInvStep, PTL DEF Spec

(* A dispatch that ends has reached the queue of every connection in the   *)
(* table that is not about to be removed, whatever holes the table has, or *)
(* the queue of every group.                                               *)
THEOREM EventsReach == Spec => []EventsReachEveryQueue
<1>1. IInv => EventsReachEveryQueue
  <2> SUFFICES ASSUME IInv, mainPc = "dispatch", cursor \notin Targets
               PROVE  EventsReachEveryQueue
    BY DEF EventsReachEveryQueue
  <2>1. cursor \in Nat /\ cursor >= 1 /\ target = Nobody
    BY DEF IInv, TypeOK, DispatchInv
  <2>2. \A i \in Targets : i < cursor
    BY <2>1, SlaveParametersAssumption DEF IInv, TypeOK, Targets, Slots, Groups
  <2>3. \A i \in Targets : Target(i) \in reached \union {Nobody} \/ Removing(Target(i))
    BY <2>1, <2>2 DEF IInv, DispatchInv, Passed
  <2>4. CASE serverMode = "connection"
    <3>1. ASSUME NEW c \in Connections, IsOpen(c), thread[c] # "remove" PROVE c \in reached
      BY <2>3, <2>4, <3>1, Parameters DEF IsOpen, Targets, Target, Removing
    <3> QED BY <2>4, <3>1 DEF EventsReachEveryQueue
  <2>5. CASE serverMode # "connection"
    <3>1. \A c \in Connections : Group(c) \in Targets
      BY <2>5, Parameters, SlaveParametersAssumption DEF IInv, TypeOK, Group, Targets
    <3>2. \A c \in Connections : Group(c) \in reached
      BY <2>3, <2>5, <3>1, QueueOfType, Parameters DEF IInv, Target, Removing
    <3> QED BY <2>5, <3>2 DEF EventsReachEveryQueue
  <2> QED BY <2>4, <2>5
<1> QED BY <1>1, InitIInv, IInvStep, PTL DEF Spec
=============================================================================
