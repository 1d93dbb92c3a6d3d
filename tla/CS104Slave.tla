----------------------------- MODULE CS104Slave -----------------------------
(***************************************************************************)
(* The life cycle of the IEC 104 server (cs104_slave.c): the listening     *)
(* thread that accepts, registers and starts connections, the thread of    *)
(* each connection from its start to the removal from the table, the       *)
(* activation of one connection per redundancy group, the dispatch of an   *)
(* event to all queues by the main loop, and stop and destroy.             *)
(*                                                                         *)
(* Steps are split where another thread can come between: at every lock,   *)
(* between a flag and its use, between the destruction of a queue and the  *)
(* removal of its connection.  What a connection sends is left to          *)
(* MasterConnection: here a thread writes one event at a time, holding the *)
(* lock of its queue, and the write lasts as long as the peer does not     *)
(* read.  The server mode is any of the three the library offers; the      *)
(* gateway uses "connection", a queue per connection.                      *)
(*                                                                         *)
(* Limits: CS104_Slave_create sets maxOpenConnections to the size of the   *)
(* table, the gateway leaves it there.  A server without a limit (0) starts *)
(* threads that are in no table; the assumption leaves it out.  Only the   *)
(* main thread dispatches: the library's own answer to clock               *)
(* synchronisation would do so too, but the gateway sets no                *)
(* clockSyncHandler.                                                       *)
(***************************************************************************)
EXTENDS Integers, FiniteSets

CONSTANTS
  Connections,         \* connections there can be at one time
  MaxClients,          \* CONFIG_CS104_MAX_CLIENT_CONNECTIONS: the slots of the table
  Modes,               \* server modes: "single", "connection", "multiple"
  Limits,              \* what maxOpenConnections may be set to
  RedundancyGroup,     \* group of a connection in mode "multiple", 1 .. NumGroups
  NumGroups,
  QueueSize,           \* entries of a queue, the oldest of which a new one overwrites
  Nobody, Main         \* owner of a free lock; the main thread

ASSUME SlaveParametersAssumption ==
  /\ MaxClients \in Nat \ {0} /\ NumGroups \in Nat \ {0}
  /\ Modes \subseteq {"single", "connection", "multiple"}
  /\ Limits \subseteq 1 .. MaxClients
  /\ RedundancyGroup \in [Connections -> 1 .. NumGroups]
  /\ QueueSize \in Nat \ {0}
  /\ Connections \intersect 1 .. NumGroups = {}
  /\ {Nobody, Main} \intersect (Connections \union 1 .. NumGroups) = {} /\ Main # Nobody

Slots == 1 .. MaxClients
Groups == 1 .. NumGroups
Queues == Connections \union Groups

VARIABLES
  serverMode, maxOpenConnections,
  mainPc,              \* the main thread
  cursor, target,      \* its place in a dispatch: index, and queue in use
  serverPc, newConnection,
  isStarting, isRunning, stopRunning,
  masterConnections, openConnections,
  openConnectionsLock, queueLock,
  thread,              \* where the thread of a connection is
  conRunning, conActive,
  queue,               \* events that wait in a queue, or Destroyed
  peer,
  \* history
  reached,             \* queues the dispatch has reached
  told                 \* connections told to close

mainVars == <<mainPc, cursor, target>>
serverVars == <<serverPc, newConnection>>
flags == <<isStarting, isRunning, stopRunning>>
table == <<masterConnections, openConnections>>
locks == <<openConnectionsLock, queueLock>>
conFlags == <<conRunning, conActive>>
history == <<reached, told>>
parameters == <<serverMode, maxOpenConnections>>
vars == <<parameters, mainVars, serverVars, flags, table, locks, thread, conFlags, queue,
          peer, history>>

Destroyed == 0 - 1

(* The mode "single" is one group of all connections.                      *)
Group(c) == IF serverMode = "multiple" THEN RedundancyGroup[c] ELSE 1
QueueOf(c) == IF serverMode = "connection" THEN c ELSE Group(c)

Init ==
  /\ serverMode \in Modes /\ maxOpenConnections \in Limits
  /\ mainPc = "init" /\ cursor = 1 /\ target = Nobody
  /\ serverPc = "none" /\ newConnection = Nobody
  /\ isStarting = FALSE /\ isRunning = FALSE /\ stopRunning = FALSE
  /\ masterConnections = [i \in Slots |-> Nobody] /\ openConnections = 0
  /\ openConnectionsLock = Nobody /\ queueLock = [q \in Queues |-> Nobody]
  /\ thread = [c \in Connections |-> "none"]
  /\ conRunning = [c \in Connections |-> FALSE]
  /\ conActive = [c \in Connections |-> FALSE]
  /\ queue = [q \in Queues |-> Destroyed]
  /\ peer = [c \in Connections |-> "away"]
  /\ reached = {} /\ told = {}

-----------------------------------------------------------------------------
(* Starting: CS104_Slave_start waits for the listening thread, which       *)
(* reports success in isRunning before it clears isStarting.               *)

Start ==
  /\ mainPc = "init" /\ mainPc' = "starting"
  /\ isStarting' = TRUE /\ stopRunning' = FALSE
  /\ queue' = [q \in Queues |-> IF serverMode # "connection" /\ q \in Groups
                                  THEN 0 ELSE queue[q]]
  /\ serverPc' = "open"
  /\ UNCHANGED <<parameters, cursor, target, newConnection, isRunning, table, locks, thread, conFlags,
                 peer, history>>

OpenServerSocket ==
  /\ serverPc = "open"
  /\ serverPc' \in {"listening", "failed"}
  /\ isRunning' = (serverPc' = "listening")
  /\ UNCHANGED <<parameters, mainVars, newConnection, isStarting, stopRunning, table, locks,
                 thread, conFlags, queue, peer, history>>

ReportStart ==
  /\ serverPc \in {"listening", "failed"}
  /\ serverPc' = IF serverPc = "listening" THEN "accept" ELSE "exited"
  /\ isStarting' = FALSE
  /\ UNCHANGED <<parameters, mainVars, newConnection, isRunning, stopRunning, table, locks,
                 thread, conFlags, queue, peer, history>>

FinishStart ==
  /\ mainPc = "starting" /\ ~ isStarting
  /\ mainPc' = IF isRunning THEN "idle" ELSE "failed"
  /\ UNCHANGED <<parameters, cursor, target, serverVars, flags, table, locks, thread, conFlags, queue,
                 peer, history>>

-----------------------------------------------------------------------------
(* The listening thread (serverThread).  It alone makes openConnections    *)
(* grow, and reads it without the lock.                                    *)

NewConnection(c) ==
  /\ thread' = [thread EXCEPT ![c] = "created"]
  /\ conRunning' = [conRunning EXCEPT ![c] = FALSE]
  /\ conActive' = [conActive EXCEPT ![c] = FALSE]
  /\ queue' = [queue EXCEPT ![c] = IF serverMode = "connection" THEN 0 ELSE @]
  /\ peer' = [peer EXCEPT ![c] = "reading"]
  /\ told' = told \ {c}

(* A limit of 0 or less is none.                                           *)
HasRoom == maxOpenConnections > 0 => openConnections < maxOpenConnections

Accept(c) ==
  /\ serverPc = "accept" /\ ~ stopRunning /\ thread[c] = "none"
  /\ HasRoom
  /\ serverPc' = "register" /\ newConnection' = c
  /\ NewConnection(c)
  /\ UNCHANGED <<parameters, mainVars, flags, table, locks, reached>>

FreeSlots == {i \in Slots : masterConnections[i] = Nobody}

(* addOpenConnection takes the first free slot; without one it leaves the  *)
(* connection out of the table, and its thread is started all the same.    *)
Register ==
  /\ serverPc = "register" /\ openConnectionsLock = Nobody
  /\ serverPc' = "start"
  /\ IF FreeSlots = {}
       THEN UNCHANGED table
       ELSE LET i == CHOOSE j \in FreeSlots : \A k \in FreeSlots : j <= k
            IN  /\ masterConnections' = [masterConnections EXCEPT ![i] = newConnection]
                /\ openConnections' = openConnections + 1
  /\ UNCHANGED <<parameters, mainVars, newConnection, flags, locks, thread, conFlags, queue,
                 peer, history>>

StartThread ==
  /\ serverPc = "start" /\ serverPc' = "accept" /\ newConnection' = Nobody
  /\ thread' = [thread EXCEPT ![newConnection] = "spawned"]
  /\ UNCHANGED <<parameters, mainVars, flags, table, locks, conFlags, queue, peer, history>>

EndServerThread ==
  /\ serverPc = "accept" /\ stopRunning
  /\ serverPc' = "exited" /\ isRunning' = FALSE /\ stopRunning' = FALSE
  /\ UNCHANGED <<parameters, mainVars, newConnection, isStarting, table, locks, thread,
                 conFlags, queue, peer, history>>

ServerStep ==
  OpenServerSocket \/ ReportStart \/ Register \/ StartThread \/ EndServerThread

-----------------------------------------------------------------------------
(* The thread of a connection (connectionHandlingThread).                  *)

Moves(c, from, to) == thread[c] = from /\ thread' = [thread EXCEPT ![c] = to]

BeginThread(c) ==
  /\ Moves(c, "spawned", "loop")
  /\ conRunning' = [conRunning EXCEPT ![c] = TRUE]
  /\ UNCHANGED <<parameters, mainVars, serverVars, flags, table, locks, conActive, queue,
                 peer, history>>

(* STARTDT: CS104_Slave_activate first deactivates the other connections of*)
(* the group, under the lock of the table, and then activates this one.    *)
ReceiveStartDT(c) ==
  /\ Moves(c, "loop", "activate") /\ conRunning[c] /\ peer[c] # "gone" /\ ~ conActive[c]
  /\ UNCHANGED <<parameters, mainVars, serverVars, flags, table, locks, conFlags, queue,
                 peer, history>>

OthersOf(c) ==
  {d \in Connections : d # c /\ Group(d) = Group(c) /\ \E i \in Slots : masterConnections[i] = d}

DeactivateOthers(c) ==
  /\ Moves(c, "activate", "activateSelf")
  /\ IF serverMode = "connection"
       THEN UNCHANGED conActive
       ELSE /\ openConnectionsLock = Nobody
            /\ conActive' = [d \in Connections |-> conActive[d] /\ d \notin OthersOf(c)]
  /\ UNCHANGED <<parameters, mainVars, serverVars, flags, table, locks, conRunning, queue,
                 peer, history>>

ActivateSelf(c) ==
  /\ Moves(c, "activateSelf", "loop")
  /\ conActive' = [conActive EXCEPT ![c] = TRUE]
  /\ UNCHANGED <<parameters, mainVars, serverVars, flags, table, locks, conRunning, queue,
                 peer, history>>

ReceiveStopDT(c) ==
  /\ thread[c] = "loop" /\ conRunning[c] /\ peer[c] # "gone" /\ conActive[c]
  /\ conActive' = [conActive EXCEPT ![c] = FALSE]
  /\ UNCHANGED <<parameters, mainVars, serverVars, flags, table, locks, thread, conRunning,
                 queue, peer, history>>

(* sendNextLowPriorityASDU marks an event and writes it under the lock of  *)
(* the queue; the result of the write is not looked at, but before every    *)
(* write the thread looks at its socket.                                   *)
BeginWrite(c) ==
  LET q == QueueOf(c)
  IN  /\ Moves(c, "loop", "write") /\ conRunning[c] /\ conActive[c] /\ peer[c] # "gone"
      /\ queue[q] > 0 /\ queueLock[q] = Nobody
      /\ queueLock' = [queueLock EXCEPT ![q] = c]
      /\ queue' = [queue EXCEPT ![q] = @ - 1]
      /\ UNCHANGED <<parameters, mainVars, serverVars, flags, table, openConnectionsLock,
                     conFlags, peer, history>>

KeepQueueLock(c) == UNCHANGED queueLock   \* mutant: the unlock is skipped
ReleaseQueueLock(c) == queueLock' = [queueLock EXCEPT ![QueueOf(c)] = Nobody]

EndWrite(c) ==
  /\ Moves(c, "write", "loop") /\ peer[c] # "stalled"
  /\ ReleaseQueueLock(c)
  /\ UNCHANGED <<parameters, mainVars, serverVars, flags, table, openConnectionsLock, conFlags,
                 queue, peer, history>>

(* The loop ends when isRunning is cleared or the socket reports an error, *)
(* and at any time by a time-out or a message out of sequence.             *)
EndLoop(c) ==
  /\ Moves(c, "loop", "ended") /\ (~ conRunning[c] \/ peer[c] = "gone")
  /\ conRunning' = [conRunning EXCEPT ![c] = FALSE]
  /\ UNCHANGED <<parameters, mainVars, serverVars, flags, table, locks, conActive, queue,
                 peer, history>>

GiveUp(c) ==
  /\ Moves(c, "loop", "ended") /\ conRunning[c]
  /\ conRunning' = [conRunning EXCEPT ![c] = FALSE]
  /\ UNCHANGED <<parameters, mainVars, serverVars, flags, table, locks, conActive, queue,
                 peer, history>>

(* The queues of a connection are destroyed before it leaves the table.    *)
DestroyQueues(c) ==
  /\ Moves(c, "ended", "remove")
  /\ queue' = [queue EXCEPT ![c] = IF serverMode = "connection" THEN Destroyed ELSE @]
  /\ UNCHANGED <<parameters, mainVars, serverVars, flags, table, locks, conFlags, peer, history>>

(* The lock of the table is held until the object is freed.                *)
RemoveConnection(c) ==
  /\ Moves(c, "remove", "free")
  /\ openConnectionsLock = Nobody /\ openConnectionsLock' = c
  /\ openConnections' = openConnections - 1
  /\ masterConnections' =
       [i \in Slots |-> IF masterConnections[i] = c THEN Nobody ELSE masterConnections[i]]
  /\ UNCHANGED <<parameters, mainVars, serverVars, flags, queueLock, conFlags, queue, peer,
                 history>>

DestroyConnection(c) ==
  /\ Moves(c, "free", "none")
  /\ openConnectionsLock' = IF openConnectionsLock = c THEN Nobody ELSE openConnectionsLock
  /\ peer' = [peer EXCEPT ![c] = "away"]
  /\ conActive' = [conActive EXCEPT ![c] = FALSE]
  /\ told' = told \ {c}
  /\ UNCHANGED <<parameters, mainVars, serverVars, flags, table, queueLock, conRunning, queue,
                 reached>>

ConnectionStep(c) ==
  \/ BeginThread(c) \/ DeactivateOthers(c) \/ ActivateSelf(c) \/ BeginWrite(c) \/ EndWrite(c)
  \/ EndLoop(c) \/ DestroyQueues(c) \/ RemoveConnection(c) \/ DestroyConnection(c)

ConnectionInput(c) == ReceiveStartDT(c) \/ ReceiveStopDT(c) \/ GiveUp(c)

-----------------------------------------------------------------------------
(* CS104_Slave_enqueueASDU, called by the main loop: an event goes to the  *)
(* queues of all connections in the table, or of all groups.               *)

Target(i) == IF serverMode = "connection" THEN masterConnections[i] ELSE i
DispatchUnlocked == UNCHANGED openConnectionsLock   \* mutant: without the lock of the table
DispatchLock ==
  IF serverMode = "connection"
    THEN openConnectionsLock = Nobody /\ openConnectionsLock' = Main
    ELSE UNCHANGED openConnectionsLock

BeginEnqueue ==
  /\ mainPc = "idle" /\ mainPc' = "enqueue"
  /\ UNCHANGED <<parameters, cursor, target, serverVars, flags, table, locks, thread, conFlags, queue,
                 peer, history>>

BeginDispatch ==
  /\ mainPc = "enqueue" /\ mainPc' = "dispatch"
  /\ DispatchLock
  /\ UNCHANGED <<parameters, cursor, target, serverVars, flags, table, queueLock, thread, conFlags,
                 queue, peer, history>>

TargetsUntilHole ==   \* mutant: the loop ends at the first empty slot
  IF serverMode = "connection"
    THEN {i \in Slots : \A j \in 1 .. i - 1 : masterConnections[j] # Nobody}
    ELSE Groups
Targets ==
  CASE serverMode = "connection" -> Slots
    [] serverMode = "multiple"   -> Groups
    [] serverMode = "single"     -> {1}

SkipEmptySlot ==
  /\ mainPc = "dispatch" /\ cursor \in Targets /\ Target(cursor) = Nobody
  /\ cursor' = cursor + 1
  /\ UNCHANGED <<parameters, mainPc, target, serverVars, flags, table, locks, thread, conFlags,
                 queue, peer, history>>

(* MessageQueue_enqueueASDU.  Locking or using a queue that a closing      *)
(* connection has destroyed is undefined: it goes unnoticed, never returns *)
(* (a semaphore that was freed), or ends the program.  The lock of the     *)
(* table does not prevent it.                                              *)
LockQueue ==
  /\ mainPc = "dispatch" /\ cursor \in Targets /\ Target(cursor) # Nobody
  /\ queueLock[Target(cursor)] = Nobody
  /\ target' = Target(cursor) /\ cursor' = cursor + 1
  /\ \/ /\ mainPc' = "insert"
        /\ queueLock' = [queueLock EXCEPT ![Target(cursor)] = Main]
     \/ /\ queue[Target(cursor)] = Destroyed
        /\ mainPc' \in {"hung", "crashed"} /\ UNCHANGED queueLock
  /\ UNCHANGED <<parameters, serverVars, flags, table, openConnectionsLock, thread, conFlags,
                 queue, peer, history>>

Insert ==
  /\ mainPc = "insert"
  /\ target' = Nobody
  /\ queueLock' = [queueLock EXCEPT ![target] = Nobody]
  /\ IF queue[target] = Destroyed
       THEN mainPc' \in {"dispatch", "crashed"} /\ UNCHANGED <<queue, reached>>
       ELSE /\ mainPc' = "dispatch"
            /\ queue' = [queue EXCEPT ![target] = IF @ < QueueSize THEN @ + 1 ELSE @]
            /\ reached' = reached \union {target}
  /\ UNCHANGED <<parameters, cursor, serverVars, flags, table, openConnectionsLock, thread,
                 conFlags, peer, told>>

EndDispatch ==
  /\ mainPc = "dispatch" /\ cursor \notin Targets
  /\ mainPc' = "idle" /\ cursor' = 1 /\ reached' = {}
  /\ openConnectionsLock' = IF openConnectionsLock = Main THEN Nobody ELSE openConnectionsLock
  /\ UNCHANGED <<parameters, target, serverVars, flags, table, queueLock, thread, conFlags,
                 queue, peer, told>>

DispatchStep == BeginDispatch \/ SkipEmptySlot \/ LockQueue \/ Insert \/ EndDispatch

-----------------------------------------------------------------------------
(* Shutting down: CS104_Slave_stop ends and joins the listening thread;    *)
(* CS104_Slave_destroy tells the connections to close and waits for them.  *)

Stop ==
  /\ mainPc = "idle" /\ mainPc' = "stopping"
  /\ stopRunning' = TRUE
  /\ UNCHANGED <<parameters, cursor, target, serverVars, isStarting, isRunning, table, locks, thread,
                 conFlags, queue, peer, history>>

JoinServerThread ==
  /\ mainPc = "stopping" /\ ~ isRunning /\ serverPc = "exited"
  /\ mainPc' = "closing"
  /\ UNCHANGED <<parameters, cursor, target, serverVars, flags, table, locks, thread, conFlags, queue,
                 peer, history>>

OpenButTheLast ==   \* mutant: the last slot is left out
  {masterConnections[i] : i \in Slots \ {MaxClients}} \ {Nobody}
Open == {masterConnections[i] : i \in Slots} \ {Nobody}

CloseConnections ==
  /\ mainPc = "closing" /\ openConnectionsLock = Nobody
  /\ mainPc' = "waiting"
  /\ conRunning' = [c \in Connections |-> conRunning[c] /\ c \notin Open]
  /\ told' = Open
  /\ UNCHANGED <<parameters, cursor, target, serverVars, flags, table, locks, thread, conActive,
                 queue, peer, reached>>

AllClosedUnlocked == openConnections = 0   \* mutant: read without the lock
AllClosed == openConnectionsLock = Nobody /\ openConnections = 0

FreeSlave ==
  /\ mainPc = "waiting" /\ AllClosed
  /\ mainPc' = "freed"
  /\ queue' = [q \in Queues |-> Destroyed]
  /\ UNCHANGED <<parameters, cursor, target, serverVars, flags, table, locks, thread, conFlags, peer,
                 history>>

MainStep ==
  FinishStart \/ DispatchStep \/ JoinServerThread \/ CloseConnections \/ FreeSlave

-----------------------------------------------------------------------------
(* A peer stops reading, reads on, or goes away.                           *)
Stall(c) ==
  /\ peer[c] = "reading"
  /\ peer' = [peer EXCEPT ![c] = "stalled"]
  /\ UNCHANGED <<parameters, mainVars, serverVars, flags, table, locks, thread, conFlags, queue,
                 history>>

Resume(c) ==
  /\ peer[c] = "stalled" /\ peer' = [peer EXCEPT ![c] = "reading"]
  /\ UNCHANGED <<parameters, mainVars, serverVars, flags, table, locks, thread, conFlags, queue,
                 history>>

Leave(c) ==
  /\ peer[c] \in {"reading", "stalled"} /\ peer' = [peer EXCEPT ![c] = "gone"]
  /\ UNCHANGED <<parameters, mainVars, serverVars, flags, table, locks, thread, conFlags, queue,
                 history>>

(* The program ends with its main thread.                                  *)
Next ==
  /\ mainPc \notin {"freed", "failed", "crashed"}
  /\ \/ Start \/ Stop \/ BeginEnqueue \/ MainStep
     \/ ServerStep
     \/ \E c \in Connections :
          \/ Accept(c) \/ ConnectionStep(c) \/ ConnectionInput(c)
          \/ Stall(c) \/ Resume(c) \/ Leave(c)

(* Every thread that can run does, a lock that is released again and again *)
(* is got in the end.  Nothing is assumed of the peers, of the messages and *)
(* of when the program is stopped.                                         *)
Fairness ==
  /\ SF_vars(MainStep) /\ SF_vars(ServerStep)
  /\ \A c \in Connections : SF_vars(ConnectionStep(c))

Spec == Init /\ [][Next]_vars
FairSpec == Spec /\ Fairness

-----------------------------------------------------------------------------
(* Type invariant.                                                         *)
TypeOK ==
  /\ serverMode \in Modes /\ maxOpenConnections \in Limits
  /\ mainPc \in {"init", "starting", "idle", "enqueue", "dispatch", "insert", "stopping",
                 "closing", "waiting", "freed", "failed", "crashed", "hung"}
  /\ cursor \in Nat /\ target \in Queues \union {Nobody}
  /\ serverPc \in {"none", "open", "listening", "failed", "accept", "register", "start",
                   "exited"}
  /\ newConnection \in Connections \union {Nobody}
  /\ {isStarting, isRunning, stopRunning} \subseteq BOOLEAN
  /\ masterConnections \in [Slots -> Connections \union {Nobody}]
  /\ openConnections \in 0 .. maxOpenConnections
  /\ openConnectionsLock \in Connections \union {Nobody, Main}
  /\ queueLock \in [Queues -> Connections \union {Nobody, Main}]
  /\ thread \in [Connections -> {"none", "created", "spawned", "loop", "activate",
                                 "activateSelf", "write", "ended", "remove", "free"}]
  /\ conRunning \in [Connections -> BOOLEAN] /\ conActive \in [Connections -> BOOLEAN]
  /\ peer \in [Connections -> {"away", "reading", "stalled", "gone"}]
  /\ queue \in [Queues -> {Destroyed} \union 0 .. QueueSize]
  /\ reached \subseteq Queues /\ told \subseteq Connections

(* openConnections counts the connections in the table, and every          *)
(* connection whose thread was started is in it until its thread removes   *)
(* it: the count CS104_Slave_destroy waits on misses no thread.            *)
(* (addOpenConnection, CS104_Slave_removeConnection)                       *)
IsOpen(c) == \E i \in Slots : masterConnections[i] = c
EveryThreadIsCounted ==
  /\ openConnections = Cardinality({i \in Slots : masterConnections[i] # Nobody})
  /\ \A c \in Connections :
       IsOpen(c) <=> \/ thread[c] \notin {"none", "created", "free"}
                     \/ thread[c] = "created" /\ serverPc = "start"

(* CS104_Slave_destroy frees the slave, its shared queues and after it the  *)
(* process image only when no thread of a connection is left, not even     *)
(* inside its removal: the count that is waited for misses none.  (The     *)
(* queues of one connection, which its own thread frees, are the subject of *)
(* DestroyedOnlyByRemoval and DispatchUsesLiveQueues.)                      *)
(* (CS104_Slave_destroy, CS104_Slave_getOpenConnections)                   *)
FreedAfterUse ==
  /\ EveryThreadIsCounted
  /\ mainPc = "freed" => serverPc = "exited" /\ \A c \in Connections : thread[c] = "none"

(* What the lock of the table does and does not protect while the main    *)
(* loop uses a queue: the connection stays in the table, so that its object *)
(* is valid, and the shared queues of the other modes exist; but the queue *)
(* of a connection may be gone, exactly when the connection's thread is    *)
(* between the destruction of its queues and its removal, where it waits    *)
(* for the lock the main loop holds.                                       *)
(* (CS104_Slave_enqueueASDU, connectionHandlingThread)                     *)
DestroyedOnlyByRemoval ==
  target # Nobody =>
    IF serverMode = "connection"
      THEN IsOpen(target) /\ (queue[target] = Destroyed <=> thread[target] = "remove")
      ELSE queue[target] # Destroyed

(* The event is dispatched "to all open client connections": the queue the *)
(* main loop works on has not been destroyed.  The code does not ensure it. *)
(* (CS104_Slave_enqueueASDU, connectionHandlingThread)                     *)
DispatchUsesLiveQueues == target # Nobody => queue[target] # Destroyed

(* A dispatch that ends has reached the queue of every connection that is  *)
(* open by then and not just being removed, or of every group, however     *)
(* connections come and go and leave holes in the table.                   *)
(* (CS104_Slave_enqueueASDU)                                               *)
EventsReachEveryQueue ==
  mainPc = "dispatch" /\ cursor \notin Targets =>
    IF serverMode = "connection"
      THEN \A c \in Connections : IsOpen(c) /\ thread[c] # "remove" => c \in reached
      ELSE {Group(c) : c \in Connections} \subseteq reached

-----------------------------------------------------------------------------
(* A dispatch ends and the main loop goes on, unless a peer never reads     *)
(* again - its thread then keeps the lock of its queue, and the main loop  *)
(* that of the table - or the dispatch meets a destroyed queue: after that *)
(* nothing is promised.  (sendNextLowPriorityASDU, CS104_Slave_enqueueASDU)*)
PeersRead == \A c \in Connections : []<>(peer[c] # "stalled")
EnqueueReturns ==
  PeersRead /\ []DispatchUsesLiveQueues =>
    (mainPc \in {"enqueue", "dispatch", "insert"} ~> mainPc = "idle")

(* Stopping ends, unless a peer never reads again or a connection was told *)
(* to close before its thread had started: that thread sets isRunning once *)
(* more and goes on for as long as its peer does.  (CS104_Slave_destroy,   *)
(* connectionHandlingThread)                                               *)
Revived == \E c \in told : conRunning[c]
ShutdownEnds == PeersRead => (mainPc = "stopping" ~> (mainPc = "freed" \/ Revived))
=============================================================================
