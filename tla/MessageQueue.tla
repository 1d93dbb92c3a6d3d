---------------------------- MODULE MessageQueue ----------------------------
(***************************************************************************)
(* The low-priority event queue of lib60870 (cs104_slave.c, MessageQueue): *)
(* a ring of slots between the producer, which enqueues spontaneous and    *)
(* periodic ASDUs, and the connection, which transmits them in order and   *)
(* frees them when the peer acknowledges them.  Every operation runs under *)
(* queueLock, so each is one action.                                       *)
(*                                                                         *)
(* sentASDUs stands for the k-buffer of the connection that drains the     *)
(* queue: the (slot, timestamp) pairs of the transmitted entries, in the   *)
(* order in which checkSequenceNumber hands them back.                     *)
(***************************************************************************)
EXTENDS Integers, Sequences

CONSTANTS
  Size,        \* number of slots of the ring
  ASDUs,       \* the ASDUs that can be queued
  NoASDU,      \* content of a slot that was never written
  Timestamps,  \* the values the millisecond clock may show
  K            \* APCI parameter k: at most K unacknowledged ASDUs

ASSUME SizeAssumption == Size \in Nat \ {0}
ASSUME KAssumption == K \in Nat \ {0}
ASSUME TimeAssumption == Timestamps \subseteq Nat
ASSUME NoASDUAssumption == NoASDU \notin ASDUs

VARIABLES
  asdus,          \* the slots
  entryCounter,   \* number of slots in use
  firstMsgIndex,  \* slot of the oldest entry
  lastMsgIndex,   \* slot of the latest entry
  sentASDUs       \* entries transmitted and not yet acknowledged

vars == <<asdus, entryCounter, firstMsgIndex, lastMsgIndex, sentASDUs>>

NOT_USED == "QUEUE_ENTRY_STATE_NOT_USED"
WAITING  == "QUEUE_ENTRY_STATE_WAITING_FOR_TRANSMISSION"
SENT     == "QUEUE_ENTRY_STATE_SENT_BUT_NOT_CONFIRMED"

Index == 0 .. Size - 1

ASDUQueueEntry ==
  [asdu : ASDUs \union {NoASDU},
   entryTimestamp : Timestamps \union {0},   \* 0 in a free slot
   state : {NOT_USED, WAITING, SENT}]

SentASDU == [queueIndex : Index, entryTime : Timestamps \union {0}]

(* Index arithmetic of the ring, for operands below 2 * Size.              *)
WrapLate(i) == IF i > Size THEN i - Size ELSE i   \* mutant: > for >=
Wrap(i) == IF i >= Size THEN i - Size ELSE i

(* How many steps forward along the ring lead from slot p to slot q.       *)
Distance(p, q) == IF q >= p THEN q - p ELSE q - p + Size

(* The place of slot q in the queue, 0 being the place of the oldest entry,*)
(* and the slot at place i.                                                *)
Place(q) == Distance(firstMsgIndex, q)
Slot(i) == Wrap(firstMsgIndex + i)

-----------------------------------------------------------------------------
Init ==
  /\ asdus = [i \in Index |-> [asdu |-> NoASDU, entryTimestamp |-> 0,
                               state |-> NOT_USED]]
  /\ entryCounter = 0
  /\ firstMsgIndex = 0
  /\ lastMsgIndex = 0
  /\ sentASDUs = << >>

(* MessageQueue_enqueueASDU: "When queue is full, override oldest entry."  *)
(* now is what Hal_getTimeInMs returns; the clock can be set in between    *)
(* (clock synchronisation command), so now need not grow.                  *)
EnqueueASDU(asdu, now) ==
  LET nextIndex == IF entryCounter = 0 THEN 0 ELSE Wrap(lastMsgIndex + 1)
  IN  /\ lastMsgIndex' = nextIndex
      /\ asdus' = [asdus EXCEPT ![nextIndex] =
                     [asdu |-> asdu, entryTimestamp |-> now, state |-> WAITING]]
      /\ \/ /\ entryCounter = 0
            /\ firstMsgIndex' = 0
            /\ entryCounter' = 1
         \/ /\ entryCounter \in 1 .. Size - 1
            /\ entryCounter' = entryCounter + 1
            /\ UNCHANGED firstMsgIndex
         \/ /\ entryCounter = Size
            /\ firstMsgIndex' = Wrap(nextIndex + 1)
            /\ UNCHANGED entryCounter
      /\ UNCHANGED sentASDUs

(* The scan of MessageQueue_getNextWaitingASDU passes over SENT slots,     *)
(* stops at the first other one, and takes it if it is WAITING.            *)
AnyWaiting(q) == asdus[q].state = WAITING   \* mutant: not the oldest one
NextWaiting(q) ==
  /\ asdus[q].state = WAITING
  /\ \A p \in Index : Place(p) < Place(q) => asdus[p].state = SENT

(* sendNextLowPriorityASDU: with room in the k-buffer, transmit the next   *)
(* waiting entry and record its slot and timestamp.                        *)
GetNextWaitingASDU(q) ==
  /\ Len(sentASDUs) < K
  /\ entryCounter # 0
  /\ NextWaiting(q)
  /\ asdus' = [asdus EXCEPT ![q].state = SENT]
  /\ sentASDUs' = Append(sentASDUs, [queueIndex |-> q,
                                     entryTime  |-> asdus[q].entryTimestamp])
  /\ UNCHANGED <<entryCounter, firstMsgIndex, lastMsgIndex>>

(* The loop of MessageQueue_markAsduAsConfirmed frees slots from q         *)
(* backwards.  It ends after n slots when the queue is empty, when the     *)
(* oldest entry was freed, or when the next slot is not SENT (slot q       *)
(* itself is NOT_USED by then, so a full turn ends it too).                *)
StopsAfter(q, n) ==
  \/ entryCounter = n
  \/ Distance(firstMsgIndex, q) = n - 1
  \/ n = Size
  \/ \E p \in Index : Distance(p, q) = n /\ asdus[p].state # SENT

FreedInPart(asdu) == [asdu EXCEPT !.entryTimestamp = 0]   \* mutant: still SENT
Freed(asdu) == [asdu EXCEPT !.state = NOT_USED, !.entryTimestamp = 0]

FreeBackwards(q, n) ==
  LET oldestFreed == Distance(firstMsgIndex, q) = n - 1
  IN  /\ asdus' = [p \in Index |->
                     IF Distance(p, q) < n THEN Freed(asdus[p]) ELSE asdus[p]]
      /\ entryCounter' = entryCounter - n
      /\ firstMsgIndex' = IF entryCounter = n THEN -1
                          ELSE IF oldestFreed THEN Wrap(q + 1)
                          ELSE firstMsgIndex
      /\ lastMsgIndex' = IF entryCounter = n THEN -1
                         ELSE IF oldestFreed /\ entryCounter = n + 1
                           THEN firstMsgIndex'
                         ELSE lastMsgIndex

(* The acknowledged slot may meanwhile hold a newer entry: the timestamp   *)
(* tells, and such an acknowledgement is ignored.                          *)
ConfirmsWaiting(q, timestamp) ==   \* mutant: the state before transmission
  /\ entryCounter > 0
  /\ asdus[q].state = WAITING
  /\ asdus[q].entryTimestamp = timestamp
Confirms(q, timestamp) ==
  /\ entryCounter > 0
  /\ asdus[q].state = SENT
  /\ asdus[q].entryTimestamp = timestamp

MarkAsduAsConfirmed(q, timestamp) ==
  \/ /\ Confirms(q, timestamp)
     /\ \E n \in 1 .. Size :
          /\ StopsAfter(q, n)
          /\ \A m \in 1 .. n - 1 : ~ StopsAfter(q, m)
          /\ FreeBackwards(q, n)
  \/ /\ ~ Confirms(q, timestamp)
     /\ UNCHANGED <<asdus, entryCounter, firstMsgIndex, lastMsgIndex>>

(* checkSequenceNumber returns the k-buffer entries oldest first.          *)
Acknowledge ==
  /\ sentASDUs # << >>
  /\ MarkAsduAsConfirmed(Head(sentASDUs).queueIndex, Head(sentASDUs).entryTime)
  /\ sentASDUs' = Tail(sentASDUs)

Enqueue == \E asdu \in ASDUs, now \in Timestamps : EnqueueASDU(asdu, now)
Transmit == \E q \in Index : GetNextWaitingASDU(q)

Next == Enqueue \/ Transmit \/ Acknowledge

(* Fairness: the connection thread polls at least every 100 ms and calls   *)
(* sendWaitingASDUs each time; a peer that wants to stay connected         *)
(* acknowledges before timeout t1.  Nothing obliges the producer.          *)
Fairness == WF_vars(Transmit) /\ WF_vars(Acknowledge)

Spec == Init /\ [][Next]_vars
FairSpec == Spec /\ Fairness

-----------------------------------------------------------------------------
(* The types of the ring and of the k-buffer.  Both indices are -1 after   *)
(* the last entry was freed, until the next enqueue.                       *)
TypeOK ==
  /\ asdus \in [Index -> ASDUQueueEntry]
  /\ entryCounter \in 0 .. Size
  /\ firstMsgIndex \in Index \union {-1}
  /\ lastMsgIndex \in Index \union {-1}
  /\ sentASDUs \in Seq(SentASDU)

(* The counter and the two indices describe one window of the ring.        *)
WindowBounds ==
  entryCounter > 0 => /\ firstMsgIndex \in Index
                      /\ lastMsgIndex = Slot(entryCounter - 1)

(* A slot is in use exactly when it lies in the window, so the scan for    *)
(* the next ASDU never misses an entry nor meets a stale one.              *)
WindowIsOccupied ==
  \A q \in Index : asdus[q].state # NOT_USED
                     <=> entryCounter > 0 /\ Place(q) < entryCounter

(* No entry is transmitted before an older one.                            *)
SentBeforeWaiting ==
  \A p, q \in Index :
     entryCounter > 0 /\ Place(p) < Place(q) /\ asdus[q].state = SENT
       => asdus[p].state = SENT

(* MessageQueue_enqueueASDU, getNextWaitingASDU and markAsduAsConfirmed    *)
(* keep the ring consistent whatever the order in which producer and       *)
(* connection call them: wrapped, overwritten while transmitted, freed     *)
(* out of step.                                                            *)
RingInv == WindowBounds /\ WindowIsOccupied /\ SentBeforeWaiting

(* The window, oldest entry first, is the abstract event buffer: entries   *)
(* are transmitted in the order of MessageQueue_enqueueASDU, each one once,*)
(* and none that was not transmitted is lost unless the queue is full.     *)
Window ==
  [i \in 1 .. entryCounter |->
     [asdu |-> asdus[Slot(i - 1)].asdu, sent |-> asdus[Slot(i - 1)].state = SENT]]

Abstract == INSTANCE EventBuffer WITH buffer <- Window

(* The ring implements the bounded first-in first-out buffer.              *)
ImplementsEventBuffer == Abstract!Spec

(* When the producer pauses, a connection that transmits and a peer that   *)
(* acknowledges empty the queue: no entry is stuck behind a freed slot.    *)
Drains == <>[][~ Enqueue]_vars => <>[](entryCounter = 0)
=============================================================================
