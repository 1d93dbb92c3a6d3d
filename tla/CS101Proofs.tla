----------------------------- MODULE CS101Proofs -----------------------------
(***************************************************************************)
(* Proofs about the ring of CS101Queue and about the two modes of CS101,   *)
(* for any number of slaves, any size of queues and any number of repeats, *)
(* calls and faults.                                                       *)
(*                                                                         *)
(* Balanced: the ASDUs of a station arrive at most once and in order.  A   *)
(* wire is a queue, and all frames a station sends for one ASDU have the   *)
(* same count bit and come together: the secondary link layer that has     *)
(* taken one of them expects the other bit and takes none of the rest.     *)
(*                                                                         *)
(* Unbalanced: the count bits agree, and a fault costs at most one ASDU.   *)
(* The master waits for one slave at a time.  While no answer comes late at*)
(* most one frame on the line belongs to the exchange that is waited for;  *)
(* the others are repeats of requests the slave has taken already, with a  *)
(* count bit it does not expect.                                           *)
(*                                                                         *)
(* Both: what is confirmed was given, and queues and repeats stay within   *)
(* their limits.                                                           *)
(***************************************************************************)
EXTENDS CS101, SequenceTheorems, FiniteSetTheorems, TLAPS

-----------------------------------------------------------------------------
(* The ring of the queues (cs101_queue.c). *)

(* A ring with entries of S: its counter and indices agree, so that the    *)
(* newest entry is as far behind the oldest as there are entries between   *)
(* them, and no slot counts as an entry before one was put into it.        *)
Ring(S) ==
  [entryCounter : 0..QueueSize, firstMsgIndex : 0..(QueueSize - 1),
   lastMsgIndex : 0..(QueueSize - 1), elements : [0..(QueueSize - 1) -> S \union {NoEntry}]]

Consistent(r, S) ==
  /\ r \in Ring(S)
  /\ r.entryCounter > 0 =>
       r.lastMsgIndex = (r.firstMsgIndex + r.entryCounter - 1) % QueueSize
  /\ \A k \in 1..r.entryCounter : r.elements[(r.firstMsgIndex + k - 1) % QueueSize] \in S

LEMMA SizeOfRing ==
  ASSUME NEW r, DOMAIN r.elements = 0..(QueueSize - 1)
  PROVE  RingSize(r) = QueueSize
<1>1. Cardinality(0..(QueueSize - 1)) = QueueSize
  BY FS_Interval, LinkLayerAssumption
<1> QED BY <1>1 DEF RingSize

(* The slot of the k-th entry after the index f: it wraps once at most.    *)
Slot(f, k) == IF f + k - 1 < QueueSize THEN f + k - 1 ELSE f + k - 1 - QueueSize

LEMMA SlotIs ==
  ASSUME NEW f \in 0..(QueueSize - 1), NEW k \in 1..QueueSize
  PROVE  (f + k - 1) % QueueSize = Slot(f, k) /\ Slot(f, k) \in 0..(QueueSize - 1)
<1> USE LinkLayerAssumption
<1>1. CASE f + k - 1 < QueueSize
  BY <1>1 DEF Slot
<1>2. CASE f + k - 1 >= QueueSize
  <2>1. (f + k - 1) % QueueSize = f + k - 1 - QueueSize
    BY <1>2
  <2> QED BY <1>2, <2>1 DEF Slot
<1> QED BY <1>1, <1>2

LEMMA NextSlot ==
  ASSUME NEW f \in 0..(QueueSize - 1), NEW k \in 1..(QueueSize - 1)
  PROVE  Slot(f, k + 1) = IF Slot(f, k) + 1 = QueueSize THEN 0 ELSE Slot(f, k) + 1
BY LinkLayerAssumption DEF Slot

LEMMA SlotsDiffer ==
  ASSUME NEW f \in 0..(QueueSize - 1), NEW k \in 1..QueueSize, NEW j \in 1..QueueSize, k # j
  PROVE  Slot(f, k) # Slot(f, j)
BY LinkLayerAssumption DEF Slot

(* Consistency without the remainder.                                      *)
LEMMA ConsistentIs ==
  ASSUME NEW S, NEW r \in Ring(S)
  PROVE  Consistent(r, S) <=>
           /\ r.entryCounter > 0 => r.lastMsgIndex = Slot(r.firstMsgIndex, r.entryCounter)
           /\ \A k \in 1..r.entryCounter : r.elements[Slot(r.firstMsgIndex, k)] \in S
<1>1. /\ r.firstMsgIndex \in 0..(QueueSize - 1) /\ r.entryCounter \in 0..QueueSize
  BY DEF Ring
<1>2. \A k \in 1..r.entryCounter : (r.firstMsgIndex + k - 1) % QueueSize = Slot(r.firstMsgIndex, k)
  <2> TAKE k \in 1..r.entryCounter
  <2>1. k \in 1..QueueSize BY <1>1, LinkLayerAssumption
  <2> QED BY <1>1, <2>1, SlotIs
<1>3. r.entryCounter > 0 => r.entryCounter \in 1..r.entryCounter
  BY <1>1
<1> QED BY <1>2, <1>3 DEF Consistent

(* What a ring holds, by its slots.                                        *)
LEMMA HeldIs ==
  ASSUME NEW S, NEW r, Consistent(r, S)
  PROVE  /\ Held(r) \in Seq(S) /\ Len(Held(r)) = r.entryCounter
         /\ \A k \in 1..r.entryCounter : Held(r)[k] = r.elements[Slot(r.firstMsgIndex, k)]
<1>1. /\ r \in Ring(S) /\ r.entryCounter \in 0..QueueSize /\ r.firstMsgIndex \in 0..(QueueSize - 1)
      /\ DOMAIN r.elements = 0..(QueueSize - 1)
  BY DEF Consistent, Ring
<1>2. RingSize(r) = QueueSize
  BY <1>1, SizeOfRing
<1>3. Held(r) = [k \in 1..r.entryCounter |-> r.elements[(r.firstMsgIndex + k - 1) % QueueSize]]
  BY <1>2 DEF Held
<1>4. \A k \in 1..r.entryCounter : (r.firstMsgIndex + k - 1) % QueueSize = Slot(r.firstMsgIndex, k)
  <2> TAKE k \in 1..r.entryCounter
  <2>1. k \in 1..QueueSize BY <1>1, LinkLayerAssumption
  <2> QED BY <1>1, <2>1, SlotIs
<1>5. \A k \in 1..r.entryCounter : r.elements[(r.firstMsgIndex + k - 1) % QueueSize] \in S
  BY DEF Consistent
<1>6. r.entryCounter \in Nat
  BY <1>1, LinkLayerAssumption
<1>7. Held(r) \in [1..r.entryCounter -> S]
  BY <1>3, <1>5
<1>8. Held(r) \in Seq(S) /\ Len(Held(r)) = r.entryCounter
  BY <1>6, <1>7, SeqDef
<1> QED BY <1>3, <1>4, <1>8

(* CS101_Queue_enqueue: one entry more, or the oldest for the new one.     *)
LEMMA EnqueueIsPut ==
  ASSUME NEW S, NEW r, Consistent(r, S), NEW asdu \in S
  PROVE  /\ Consistent(Enqueue(r, asdu), S)
         /\ Held(Enqueue(r, asdu)) = Put(Held(r), asdu, QueueSize)
<1> DEFINE n    == r.entryCounter
           f    == r.firstMsgIndex
           next == IF n = 0 THEN 0 ELSE IF r.lastMsgIndex + 1 = QueueSize THEN 0
                   ELSE r.lastMsgIndex + 1
           q    == Enqueue(r, asdu)
<1>1. /\ r \in Ring(S) /\ n \in 0..QueueSize /\ f \in 0..(QueueSize - 1)
      /\ r.lastMsgIndex \in 0..(QueueSize - 1)
      /\ r.elements \in [0..(QueueSize - 1) -> S \union {NoEntry}]
      /\ QueueSize \in Nat /\ QueueSize > 0
  BY LinkLayerAssumption DEF Consistent, Ring
<1>2. RingSize(r) = QueueSize
  BY <1>1, SizeOfRing
<1>3. /\ n > 0 => r.lastMsgIndex = Slot(f, n)
      /\ \A k \in 1..n : r.elements[Slot(f, k)] \in S
  BY <1>1, ConsistentIs
<1>4. /\ q.elements = [r.elements EXCEPT ![next] = asdu] /\ q.lastMsgIndex = next
      /\ q.entryCounter = (IF n = QueueSize THEN n ELSE n + 1)
      /\ q.firstMsgIndex = (IF n = 0 THEN 0
                            ELSE IF n = QueueSize THEN (IF next + 1 = QueueSize THEN 0 ELSE next + 1)
                            ELSE f)
  BY <1>2 DEF Enqueue, After
<1>5. next \in 0..(QueueSize - 1)
  BY <1>1
<1>6. q \in Ring(S)
  <2>1. q.elements \in [0..(QueueSize - 1) -> S \union {NoEntry}]
    BY <1>1, <1>4
  <2>2. q.entryCounter \in 0..QueueSize
    BY <1>1, <1>4
  <2>3. q.firstMsgIndex \in 0..(QueueSize - 1)
    BY <1>1, <1>4, <1>5
  <2>4. q = [elements |-> q.elements, lastMsgIndex |-> q.lastMsgIndex,
             entryCounter |-> q.entryCounter, firstMsgIndex |-> q.firstMsgIndex]
    BY DEF Enqueue
  <2> HIDE DEF q, next
  <2> QED BY <1>4, <1>5, <2>1, <2>2, <2>3, <2>4 DEF Ring
<1> HIDE DEF q
<1>7. q.entryCounter \in 1..QueueSize /\ q.firstMsgIndex \in 0..(QueueSize - 1)
  BY <1>1, <1>4, <1>6 DEF Ring
<1>8. next = Slot(q.firstMsgIndex, q.entryCounter)
  <2>1. CASE n = 0
    BY <1>1, <1>4, <2>1 DEF Slot
  <2>2. CASE n # 0 /\ n # QueueSize
    <3>1. /\ n \in 1..(QueueSize - 1)
          /\ next = IF Slot(f, n) + 1 = QueueSize THEN 0 ELSE Slot(f, n) + 1
      BY <1>1, <1>3, <2>2
    <3>2. next = Slot(f, n + 1)
      BY <1>1, <3>1, NextSlot
    <3> HIDE DEF next
    <3> QED BY <1>4, <2>2, <3>2
  <2>3. CASE n # 0 /\ n = QueueSize
    <3>1. next = f
      BY <1>1, <1>3, <2>3 DEF Slot
    <3> HIDE DEF next
    <3> QED BY <1>1, <1>4, <2>3, <3>1 DEF Slot
  <2> QED BY <2>1, <2>2, <2>3
<1>9. ASSUME NEW k \in 1..(q.entryCounter - 1)
      PROVE  LET old == IF n = QueueSize THEN k + 1 ELSE k
             IN  /\ old \in 1..n /\ Slot(q.firstMsgIndex, k) = Slot(f, old)
                 /\ Slot(f, old) # next /\ Slot(f, old) \in 0..(QueueSize - 1)
  <2>1. CASE n # QueueSize
    <3>1. k \in 1..n /\ n # 0 /\ q.firstMsgIndex = f /\ q.entryCounter = n + 1
      BY <1>1, <1>4, <2>1
    <3>2. next = Slot(f, n + 1)
      BY <1>8, <3>1
    <3> HIDE DEF next
    <3>3. Slot(f, k) # next /\ Slot(f, k) \in 0..(QueueSize - 1)
      <4>1. k \in 1..QueueSize /\ n + 1 \in 1..QueueSize /\ k # n + 1
        BY <1>1, <2>1, <3>1
      <4> QED BY <1>1, <3>2, <4>1, SlotsDiffer, SlotIs
    <3> QED BY <2>1, <3>1, <3>3
  <2>2. CASE n = QueueSize
    <3>1. k + 1 \in 1..n /\ k + 1 \in 2..n
      BY <1>1, <1>4, <2>2
    <3>2. next = f
      BY <1>1, <1>3, <2>2 DEF Slot
    <3>3. q.firstMsgIndex = IF f + 1 = QueueSize THEN 0 ELSE f + 1
      BY <1>1, <1>4, <2>2, <3>2
    <3> HIDE DEF next
    <3>4. Slot(q.firstMsgIndex, k) = Slot(f, k + 1)
      BY <1>1, <2>2, <3>1, <3>3, SMTT(30) DEF Slot
    <3>5. Slot(f, k + 1) # next /\ Slot(f, k + 1) \in 0..(QueueSize - 1)
      BY <1>1, <2>2, <3>1, <3>2 DEF Slot
    <3> QED BY <2>2, <3>1, <3>4, <3>5
  <2> QED BY <2>1, <2>2
<1>10. /\ q.elements[next] = asdu
       /\ \A i \in 0..(QueueSize - 1) : i # next => q.elements[i] = r.elements[i]
  BY <1>1, <1>4, <1>5
<1>11. \A k \in 1..q.entryCounter :
         q.elements[Slot(q.firstMsgIndex, k)] =
           IF k = q.entryCounter THEN asdu
           ELSE r.elements[Slot(f, IF n = QueueSize THEN k + 1 ELSE k)]
  <2> HIDE DEF next
  <2> TAKE k \in 1..q.entryCounter
  <2>1. CASE k = q.entryCounter
    BY <1>8, <1>10, <2>1
  <2>2. CASE k # q.entryCounter
    <3>1. k \in 1..(q.entryCounter - 1)
      BY <1>7, <2>2
    <3> QED BY <1>9, <1>10, <2>2, <3>1
  <2> QED BY <2>1, <2>2
<1>12. Consistent(q, S)
  <2>1. \A k \in 1..q.entryCounter : q.elements[Slot(q.firstMsgIndex, k)] \in S
    <3> TAKE k \in 1..q.entryCounter
    <3>1. CASE k = q.entryCounter
      BY <1>11, <3>1
    <3>2. CASE k # q.entryCounter
      <4>1. k \in 1..(q.entryCounter - 1)
        BY <1>7, <3>2
      <4> QED BY <1>3, <1>9, <1>11, <3>2, <4>1
    <3> QED BY <3>1, <3>2
  <2> QED BY <1>4, <1>6, <1>8, <2>1, ConsistentIs
<1>13. /\ Held(q) \in Seq(S) /\ Len(Held(q)) = q.entryCounter
       /\ \A k \in 1..q.entryCounter : Held(q)[k] = q.elements[Slot(q.firstMsgIndex, k)]
  BY <1>12, HeldIs
<1>14. /\ Held(r) \in Seq(S) /\ Len(Held(r)) = n
       /\ \A k \in 1..n : Held(r)[k] = r.elements[Slot(f, k)]
  BY HeldIs
<1> DEFINE p == Put(Held(r), asdu, QueueSize)
<1>15. p \in Seq(S) /\ Len(p) = q.entryCounter
       /\ \A k \in 1..q.entryCounter :
            p[k] = IF k = q.entryCounter THEN asdu
                   ELSE Held(r)[IF n = QueueSize THEN k + 1 ELSE k]
  <2> HIDE DEF next
  <2>1. CASE n < QueueSize
    BY <1>1, <1>4, <1>14, <2>1 DEF Put
  <2>2. CASE n = QueueSize
    BY <1>1, <1>4, <1>14, <2>2 DEF Put
  <2> QED BY <1>1, <2>1, <2>2
<1>16. \A k \in 1..q.entryCounter : p[k] = Held(q)[k]
  <2> HIDE DEF next, p
  <2> TAKE k \in 1..q.entryCounter
  <2>1. CASE k = q.entryCounter
    BY <1>11, <1>13, <1>15, <2>1
  <2>2. CASE k # q.entryCounter
    <3>1. k \in 1..(q.entryCounter - 1)
      BY <1>7, <2>2
    <3>2. (IF n = QueueSize THEN k + 1 ELSE k) \in 1..n
      BY <1>9, <3>1
    <3>3. Held(q)[k] = r.elements[Slot(f, IF n = QueueSize THEN k + 1 ELSE k)]
      BY <1>11, <1>13, <2>2
    <3>4. p[k] = Held(r)[IF n = QueueSize THEN k + 1 ELSE k]
      BY <1>15, <2>2
    <3> QED BY <1>14, <3>2, <3>3, <3>4
  <2> QED BY <2>1, <2>2
<1>17. p = Held(q)
  <2> HIDE DEF next, p
  <2> QED BY <1>13, <1>15, <1>16, SeqEqual
<1> QED BY <1>12, <1>17 DEF q

(* CS101_Queue_dequeue: the oldest entry leaves.                           *)
LEMMA DequeueIsRest ==
  ASSUME NEW S, NEW r, Consistent(r, S)
  PROVE  /\ Consistent(Dequeue(r), S)
         /\ Held(Dequeue(r)) = Rest(Held(r))
         /\ Dequeued(r) = IF Held(r) = <<>> THEN NoEntry ELSE Head(Held(r))
<1> DEFINE n == r.entryCounter
           f == r.firstMsgIndex
           q == Dequeue(r)
<1>1. /\ r \in Ring(S) /\ n \in 0..QueueSize /\ f \in 0..(QueueSize - 1)
      /\ r.lastMsgIndex \in 0..(QueueSize - 1)
      /\ DOMAIN r.elements = 0..(QueueSize - 1) /\ QueueSize \in Nat /\ QueueSize > 0
  BY LinkLayerAssumption DEF Consistent, Ring
<1>2. RingSize(r) = QueueSize
  BY <1>1, SizeOfRing
<1>3. /\ n > 0 => r.lastMsgIndex = Slot(f, n)
      /\ \A k \in 1..n : r.elements[Slot(f, k)] \in S
  BY <1>1, ConsistentIs
<1>4. /\ Held(r) \in Seq(S) /\ Len(Held(r)) = n
      /\ \A k \in 1..n : Held(r)[k] = r.elements[Slot(f, k)]
  BY HeldIs
<1>5. CASE n = 0
  <2>1. Held(r) = <<>>
    BY <1>4, <1>5, EmptySeq
  <2>2. q = r /\ Dequeued(r) = NoEntry
    BY <1>5 DEF Dequeue, Dequeued
  <2> QED BY <2>1, <2>2 DEF Rest
<1>6. CASE n # 0
  <2>1. q = [r EXCEPT !.firstMsgIndex = (f + 1) % QueueSize, !.entryCounter = n - 1]
    BY <1>2, <1>6 DEF Dequeue
  <2>2. (f + 1) % QueueSize = IF f + 1 = QueueSize THEN 0 ELSE f + 1
    <3>1. CASE f + 1 = QueueSize BY <1>1, <3>1
    <3>2. CASE f + 1 # QueueSize BY <1>1, <3>2
    <3> QED BY <3>1, <3>2
  <2>3. /\ q \in Ring(S) /\ q.elements = r.elements /\ q.lastMsgIndex = r.lastMsgIndex
        /\ q.entryCounter = n - 1 /\ q.firstMsgIndex = IF f + 1 = QueueSize THEN 0 ELSE f + 1
    <3>1. /\ (IF f + 1 = QueueSize THEN 0 ELSE f + 1) \in 0..(QueueSize - 1)
          /\ n - 1 \in 0..QueueSize
      BY <1>1, <1>6
    <3> HIDE DEF q
    <3> QED BY <1>1, <2>1, <2>2, <3>1 DEF Ring
  <2> HIDE DEF q
  <2>4. \A k \in 1..(n - 1) : k + 1 \in 1..n /\ Slot(q.firstMsgIndex, k) = Slot(f, k + 1)
    BY <1>1, <2>3, SMTT(30) DEF Slot
  <2>5. n - 1 > 0 => Slot(q.firstMsgIndex, n - 1) = Slot(f, n)
    BY <1>1, <2>4
  <2>6. Consistent(q, S)
    BY <1>1, <1>3, <2>3, <2>4, <2>5, ConsistentIs
  <2>7. /\ Held(q) \in Seq(S) /\ Len(Held(q)) = n - 1
        /\ \A k \in 1..(n - 1) : Held(q)[k] = q.elements[Slot(q.firstMsgIndex, k)]
    BY <2>3, <2>6, HeldIs
  <2>8. /\ Held(r) # <<>> /\ Tail(Held(r)) \in Seq(S) /\ Len(Tail(Held(r))) = n - 1
        /\ \A k \in 1..(n - 1) : Tail(Held(r))[k] = Held(r)[k + 1]
    BY <1>1, <1>4, <1>6
  <2>9. \A k \in 1..(n - 1) : Held(q)[k] = Tail(Held(r))[k]
    BY <1>4, <2>3, <2>4, <2>7, <2>8
  <2>10. Held(q) = Tail(Held(r))
    BY <2>7, <2>8, <2>9, SeqEqual
  <2>11. Dequeued(r) = r.elements[f]
    BY <1>6 DEF Dequeued
  <2>12. 1 \in 1..n /\ Slot(f, 1) = f
    BY <1>1, <1>6 DEF Slot
  <2>13. Dequeued(r) = Head(Held(r))
    BY <1>4, <2>8, <2>11, <2>12
  <2> QED BY <2>6, <2>8, <2>10, <2>13 DEF Rest, q
<1> QED BY <1>5, <1>6

(* CS101_Queue_initialize, CS101_Queue_flush: a ring without entries is the*)
(* empty sequence.                                                         *)
LEMMA EmptyIsEmpty ==
  ASSUME NEW S, NEW r \in Ring(S), r.entryCounter = 0
  PROVE  Consistent(r, S) /\ Held(r) = <<>>
<1>1. Consistent(r, S)
  BY DEF Consistent
<1> QED BY <1>1, HeldIs, EmptySeq

(* The ring of a queue is the sequence with which the link layers are      *)
(* modelled, for any size: a new or flushed ring is empty, and each call   *)
(* does to what is held what Put and Rest do to the sequence, also when    *)
(* the ring wraps and when it is full and gives up its oldest entry; the   *)
(* indices stay consistent, so that no call finds or leaves another ring.  *)
THEOREM RingActsAsSequence ==
  ASSUME NEW S
  PROVE  /\ Consistent(EmptyRing(QueueSize), S) /\ Held(EmptyRing(QueueSize)) = << >>
         /\ \A r : Consistent(r, S) =>
              /\ \A asdu \in S :
                   /\ Consistent(Enqueue(r, asdu), S)
                   /\ Held(Enqueue(r, asdu)) = Put(Held(r), asdu, QueueSize)
              /\ Consistent(Dequeue(r), S) /\ Held(Dequeue(r)) = Rest(Held(r))
              /\ Dequeued(r) = IF Held(r) = << >> THEN NoEntry ELSE Head(Held(r))
              /\ Consistent(Flush(r), S) /\ Held(Flush(r)) = << >>
<1>1. EmptyRing(QueueSize) \in Ring(S) /\ EmptyRing(QueueSize).entryCounter = 0
  BY LinkLayerAssumption DEF EmptyRing, Ring
<1>2. ASSUME NEW r, Consistent(r, S)
      PROVE  Flush(r) \in Ring(S) /\ Flush(r).entryCounter = 0
  <2>1. r \in Ring(S) /\ 0 \in 0..QueueSize /\ 0 \in 0..(QueueSize - 1)
    BY <1>2, LinkLayerAssumption DEF Consistent
  <2> QED BY <2>1 DEF Flush, Ring
<1> HIDE DEF Consistent
<1> QED BY <1>1, <1>2, EmptyIsEmpty, EnqueueIsPut, DequeueIsRest

-----------------------------------------------------------------------------
(* The balanced mode. *)

(* The entries of the queues: commands of the master, events and replies of*)
(* the slave.                                                              *)
Commanded == {Command(n, kind) : n \in Nat, kind \in Commands}
Reported == {Event(n) : n \in Nat} \union {Reply(n) : n \in Nat}
EntriesOf(x) == IF x = "master" THEN Commanded ELSE Reported

Asdus(x) == {NoAsdu} \union [number : Nat, asdu : EntriesOf(x)]

Primary(x) ==
  [state : LinkLayerState, primaryState : PrimaryLinkLayerState, testFunction : BOOLEAN,
   waiting : BOOLEAN, nextFcb : BOOLEAN, repeats : Nat, lastSendAsdu : Asdus(x)]

LinkRequests == {"RESET_REMOTE_LINK", "REQUEST_LINK_STATUS", "TEST_FUNCTION",
                 "USER_DATA_CONFIRMED"}
LinkAnswers == {"ACK", "NACK", "NOT_IMPLEMENTED", "STATUS_OF_LINK"}

(* The frames on the way to station x: requests of the other and answers   *)
(* to its own. The count bit of a service is not valid.                    *)
FrameTo(x) ==
  {f \in [prm : BOOLEAN, fc : LinkRequests \union LinkAnswers, fcv : BOOLEAN, fcb : BOOLEAN,
          dfc : BOOLEAN, asdu : Asdus(Other(x))] :
     /\ f.prm <=> f.fc \in LinkRequests
     /\ f.prm => (f.fcv <=> f.fc \in {"TEST_FUNCTION", "USER_DATA_CONFIRMED"})
     /\ f.prm /\ f.fc = "USER_DATA_CONFIRMED" => f.asdu # NoAsdu}

(* What is repeated is an ASDU, unless it is a test.                       *)
StationOK(x) ==
  /\ primary[x] \in Primary(x)
  /\ primary[x].primaryState = "sendConfirm" /\ primary[x].lastSendAsdu = NoAsdu
       => primary[x].testFunction
  /\ expectedFcb[x] \in BOOLEAN
  /\ queue1[x] \in Seq(EntriesOf(x)) /\ queue2[x] \in Seq(EntriesOf(x))
  /\ wire[x] \in Seq(FrameTo(x))
  /\ sent[x] \in Nat /\ got[x] \in Seq(Nat)

PairTypeOK ==
  /\ DOMAIN primary = Stations /\ DOMAIN expectedFcb = Stations /\ DOMAIN queue1 = Stations
  /\ DOMAIN queue2 = Stations /\ DOMAIN wire = Stations /\ DOMAIN sent = Stations
  /\ DOMAIN got = Stations /\ DOMAIN confirmed = Stations
  /\ \A x \in Stations : StationOK(x)

(* What an answer makes of a primary link layer: it no longer waits for an *)
(* ASDU to be confirmed.                                                   *)
LEMMA AnswerIs ==
  ASSUME NEW x \in Stations, NEW p \in Primary(x), NEW f \in FrameTo(x), ~ f.prm
  PROVE  AfterAnswer(p, f) \in Primary(x) /\ AfterAnswer(p, f).primaryState # "sendConfirm"
<1> USE DEF Primary, PrimaryLinkLayerState, LinkLayerState
<1>1. Busy(p) \in Primary(x) /\ Busy(p).primaryState # "sendConfirm"
  BY DEF Busy
<1>2. Available(p) \in Primary(x) /\ Illegal(p) \in Primary(x)
      /\ Available(p).primaryState = "available" /\ Illegal(p).primaryState = "idle"
  BY DEF Available, Illegal
<1>3. \A q \in Primary(x) : /\ NotWaiting(q) \in Primary(x)
                            /\ NotWaiting(q).primaryState = q.primaryState
                            /\ [q EXCEPT !.testFunction = FALSE] \in Primary(x)
                            /\ [q EXCEPT !.testFunction = FALSE].primaryState = q.primaryState
  BY DEF NotWaiting
<1>4. StatusOfLink(p) \in Primary(x) /\ StatusOfLink(p).primaryState # "sendConfirm"
  BY <1>2 DEF StatusOfLink
<1>5. AfterAck(p) \in Primary(x) /\ AfterAck(p).primaryState # "sendConfirm"
  <2>1. CASE p.primaryState = "reset"
    <3>1. AfterAck(p) = NotWaiting(Available(p))
      BY <2>1 DEF AfterAck
    <3>2. Available(p) \in Primary(x) /\ Available(p).primaryState = "available"
      BY <1>2
    <3> HIDE DEF Primary
    <3> QED BY <3>1, <3>2, <1>3
  <2>2. CASE p.primaryState = "sendConfirm"
    <3>1. AfterAck(p) = NotWaiting([Available(p) EXCEPT !.testFunction = FALSE])
      BY <2>2 DEF AfterAck
    <3> DEFINE q == [Available(p) EXCEPT !.testFunction = FALSE]
    <3>2. q \in Primary(x) /\ q.primaryState = "available"
      BY <1>2, <1>3
    <3> HIDE DEF q
    <3>3. NotWaiting(q) \in Primary(x) /\ NotWaiting(q).primaryState = "available"
      BY <3>2, <1>3
    <3> QED BY <3>1, <3>3 DEF q
  <2>3. CASE p.primaryState \notin {"reset", "sendConfirm"}
    <3>1. AfterAck(p) = NotWaiting(p)
      BY <2>3 DEF AfterAck
    <3> QED BY <2>3, <3>1, <1>3
  <2> QED BY <2>1, <2>2, <2>3
<1>6. AfterNack(p) \in Primary(x) /\ AfterNack(p).primaryState # "sendConfirm"
  BY DEF AfterNack
<1>7. AfterNotImplemented(p) \in Primary(x) /\ AfterNotImplemented(p).primaryState # "sendConfirm"
  BY <1>2, <1>3 DEF AfterNotImplemented
<1>8. f.fc \in LinkAnswers
  BY DEF FrameTo
<1>9. CASE f.dfc
  BY <1>1, <1>9 DEF AfterAnswer
<1>10. CASE ~ f.dfc /\ f.fc = "ACK"
  <2>1. AfterAnswer(p, f) = AfterAck(p)
    BY <1>10 DEF AfterAnswer
  <2> QED BY <2>1, <1>5
<1>11. CASE ~ f.dfc /\ f.fc = "NACK"
  <2>1. AfterAnswer(p, f) = AfterNack(p)
    BY <1>11 DEF AfterAnswer
  <2> QED BY <2>1, <1>6
<1>12. CASE ~ f.dfc /\ f.fc = "STATUS_OF_LINK"
  <2>1. AfterAnswer(p, f) = StatusOfLink(p)
    BY <1>12 DEF AfterAnswer
  <2> QED BY <2>1, <1>4
<1>13. CASE ~ f.dfc /\ f.fc = "NOT_IMPLEMENTED"
  <2>1. AfterAnswer(p, f) = AfterNotImplemented(p)
    BY <1>13 DEF AfterAnswer
  <2> QED BY <2>1, <1>7
<1> QED BY <1>8, <1>9, <1>10, <1>11, <1>12, <1>13 DEF LinkAnswers

(* The replies of a slave to a command, in its queue.                      *)
LEMMA RepliesAre ==
  ASSUME NEW S, NEW queue \in Seq(S), NEW m \in Commanded, Reply(m.id) \in S
  PROVE  AfterReplies(queue, m) \in Seq(S)
<1>1. QueueSize \in Nat /\ QueueSize > 0
  BY LinkLayerAssumption
<1>2. \A q \in Seq(S) : Put(q, Reply(m.id), QueueSize) \in Seq(S)
  BY <1>1 DEF Put
<1>3. m.kind \in {"known", "test", "unknown", "wrongCause"}
  BY LinkLayerAssumption DEF Commanded, Command
<1>4. Replies(m.kind) \in {0, 1, 2}
  BY <1>3 DEF Replies
<1> DEFINE one == Put(queue, Reply(m.id), QueueSize)
<1>5. CASE Replies(m.kind) = 0
  <2>1. AfterReplies(queue, m) = queue
    BY <1>5 DEF AfterReplies
  <2> QED BY <2>1
<1>6. CASE Replies(m.kind) = 1
  <2>1. AfterReplies(queue, m) = one
    BY <1>6 DEF AfterReplies
  <2> QED BY <2>1, <1>2
<1>7. CASE Replies(m.kind) = 2
  <2>1. AfterReplies(queue, m) = Put(one, Reply(m.id), QueueSize)
    BY <1>7 DEF AfterReplies
  <2> QED BY <2>1, <1>2
<1> QED BY <1>4, <1>5, <1>6, <1>7

(* The two stations.                                                       *)
LEMMA Others ==
  /\ \A x \in Stations : /\ Other(x) \in Stations /\ Other(x) # x /\ Other(Other(x)) = x
                         /\ \A z \in Stations : z = x \/ z = Other(x)
BY DEF Stations, Other

(* The frames that are sent.                                               *)
LEMMA FramesAre ==
  ASSUME NEW x \in Stations
  PROVE  /\ \A fc \in {"RESET_REMOTE_LINK", "REQUEST_LINK_STATUS"} :
              LinkService(fc) \in FrameTo(Other(x)) /\ LinkService(fc).prm /\ ~ LinkService(fc).fcv
         /\ \A fcb \in BOOLEAN :
              LET f == CountedService("TEST_FUNCTION", fcb, NoAsdu)
              IN  f \in FrameTo(Other(x)) /\ f.prm /\ f.fcv /\ f.fcb = fcb
                    /\ f.fc = "TEST_FUNCTION"
         /\ \A fcb \in BOOLEAN, asdu \in Asdus(x) \ {NoAsdu} :
              LET f == CountedService("USER_DATA_CONFIRMED", fcb, asdu)
              IN  f \in FrameTo(Other(x)) /\ f.prm /\ f.fcv /\ f.fcb = fcb
                    /\ f.fc = "USER_DATA_CONFIRMED" /\ f.asdu = asdu
         /\ \A fc \in LinkAnswers, dfc \in BOOLEAN :
              /\ LinkAnswer(fc) \in FrameTo(Other(x)) /\ ~ LinkAnswer(fc).prm
              /\ [LinkAnswer(fc) EXCEPT !.dfc = dfc] \in FrameTo(Other(x))
              /\ ~ [LinkAnswer(fc) EXCEPT !.dfc = dfc].prm
<1>1. Other(Other(x)) = x /\ NoAsdu \in Asdus(x)
  BY Others DEF Asdus
<1>2. NoAsdu \in Asdus(Other(Other(x))) /\ NoAsdu \in Asdus(Other(x))
  BY <1>1 DEF Asdus
<1> HIDE DEF Asdus, NoAsdu
<1>3. ASSUME NEW fc \in {"RESET_REMOTE_LINK", "REQUEST_LINK_STATUS"}
      PROVE  LinkService(fc) \in FrameTo(Other(x)) /\ LinkService(fc).prm /\ ~ LinkService(fc).fcv
  BY <1>2 DEF LinkService, FrameTo, LinkRequests, LinkAnswers
<1>4. ASSUME NEW fcb \in BOOLEAN
      PROVE  LET f == CountedService("TEST_FUNCTION", fcb, NoAsdu)
             IN  f \in FrameTo(Other(x)) /\ f.prm /\ f.fcv /\ f.fcb = fcb
                   /\ f.fc = "TEST_FUNCTION"
  BY <1>2 DEF CountedService, FrameTo, LinkRequests, LinkAnswers
<1>5. ASSUME NEW fcb \in BOOLEAN, NEW asdu \in Asdus(x) \ {NoAsdu}
      PROVE  LET f == CountedService("USER_DATA_CONFIRMED", fcb, asdu)
             IN  f \in FrameTo(Other(x)) /\ f.prm /\ f.fcv /\ f.fcb = fcb
                   /\ f.fc = "USER_DATA_CONFIRMED" /\ f.asdu = asdu
  BY <1>1 DEF CountedService, FrameTo, LinkRequests, LinkAnswers
<1>6. ASSUME NEW fc \in LinkAnswers, NEW dfc \in BOOLEAN
      PROVE  /\ LinkAnswer(fc) \in FrameTo(Other(x)) /\ ~ LinkAnswer(fc).prm
             /\ [LinkAnswer(fc) EXCEPT !.dfc = dfc] \in FrameTo(Other(x))
             /\ ~ [LinkAnswer(fc) EXCEPT !.dfc = dfc].prm
  BY <1>2 DEF LinkAnswer, FrameTo, LinkRequests, LinkAnswers
<1> QED BY <1>3, <1>4, <1>5, <1>6

(* At the start.                                                           *)
LEMMA InitPairType == PairInit => PairTypeOK
<1> SUFFICES ASSUME PairInit PROVE PairTypeOK
  OBVIOUS
<1>1. \A x \in Stations : FreshPrimary \in Primary(x) /\ FreshPrimary.primaryState = "idle"
  BY DEF FreshPrimary, Primary, PrimaryLinkLayerState, LinkLayerState, Asdus
<1> HIDE DEF FreshPrimary
<1> QED BY <1>1 DEF PairInit, PairTypeOK, StationOK

(* A station reads a frame: an answer for its primary, or a request that   *)
(* it answers or ignores.                                                  *)
LEMMA HeadIs ==
  ASSUME PairTypeOK, NEW x \in Stations, NEW prm, Reads(x, prm)
  PROVE  /\ wire[x] # << >> /\ Head(wire[x]) \in FrameTo(x) /\ Head(wire[x]).prm = prm
         /\ Tail(wire[x]) \in Seq(FrameTo(x))
         /\ Len(wire[x]) \in Nat \ {0} /\ Head(wire[x]) = wire[x][1]
<1>1. wire[x] \in Seq(FrameTo(x))
  BY DEF PairTypeOK, StationOK
<1> HIDE DEF FrameTo
<1> QED BY <1>1 DEF Reads

-----------------------------------------------------------------------------
(* What a step of station x does to what it reads: nothing, or the first   *)
(* frame is dropped, or it is accepted, which changes the count bit, and   *)
(* its ASDU given to the application.                                      *)
Drops(x) == wire'[x] = Tail(wire[x]) /\ wire[x] # << >>
Receives(x) ==
  \/ /\ wire'[x] = wire[x] \/ Drops(x)
     /\ expectedFcb'[x] = expectedFcb[x] /\ got'[x] = got[x]
  \/ /\ Drops(x) /\ Head(wire[x]).prm /\ got'[x] = got[x]
     /\ IF Head(wire[x]).fcv
          THEN Head(wire[x]).fcb = expectedFcb[x] /\ expectedFcb'[x] = ~ expectedFcb[x]
          ELSE TRUE
  \/ /\ Drops(x) /\ Head(wire[x]).prm /\ Head(wire[x]).fc = "USER_DATA_CONFIRMED"
     /\ Head(wire[x]).fcb = expectedFcb[x] /\ expectedFcb'[x] = ~ expectedFcb[x]
     /\ got'[x] = Append(got[x], Head(wire[x]).asdu.number)

(* What it does to what it sends. While it waits for an ASDU to be         *)
(* confirmed, all it sends has the same count bit.                         *)
Adds(x, f) == f \in FrameTo(Other(x)) /\ wire'[Other(x)] = Append(wire[Other(x)], f)
SameExchange(x) ==
  /\ primary'[x].primaryState = primary[x].primaryState
  /\ primary'[x].nextFcb = primary[x].nextFcb
  /\ primary'[x].lastSendAsdu = primary[x].lastSendAsdu
NoExchange(x) == primary'[x].primaryState # "sendConfirm"
Transmits(x) ==
  \/ /\ SameExchange(x) \/ NoExchange(x)
     /\ \/ wire'[Other(x)] = wire[Other(x)]
        \/ \E f \in FrameTo(Other(x)) : ~ f.prm /\ Adds(x, f)
     /\ sent'[x] = sent[x]
  \/ NoExchange(x) /\ (\E f \in FrameTo(Other(x)) : f.prm /\ ~ f.fcv /\ Adds(x, f))
       /\ sent'[x] = sent[x]
  \/ /\ primary'[x].primaryState = "sendConfirm" /\ primary'[x].lastSendAsdu = NoAsdu
     /\ \E f \in FrameTo(Other(x)) : f.prm /\ f.fc = "TEST_FUNCTION" /\ Adds(x, f)
     /\ sent'[x] = sent[x]
  \/ /\ primary'[x].primaryState = "sendConfirm"
     /\ primary'[x].nextFcb = ~ primary[x].nextFcb
     /\ primary'[x].lastSendAsdu.number = sent'[x] /\ primary'[x].lastSendAsdu # NoAsdu
     /\ \E f \in FrameTo(Other(x)) :
          /\ f.prm /\ f.fc = "USER_DATA_CONFIRMED" /\ f.fcb = primary[x].nextFcb
          /\ f.asdu = primary'[x].lastSendAsdu /\ Adds(x, f)
     /\ sent'[x] = sent[x] + 1
  \/ /\ primary[x].primaryState = "sendConfirm" /\ SameExchange(x)
     /\ \E f \in FrameTo(Other(x)) :
          /\ f.prm /\ f.fcv /\ f.fcb = ~ primary[x].nextFcb /\ Adds(x, f)
          /\ f.fc = "USER_DATA_CONFIRMED" =>
               f.asdu = primary[x].lastSendAsdu /\ primary[x].lastSendAsdu # NoAsdu
     /\ sent'[x] = sent[x]

(* The rest of the other station is left alone.                            *)
Alone(x) ==
  /\ primary'[Other(x)] = primary[Other(x)] /\ expectedFcb'[Other(x)] = expectedFcb[Other(x)]
  /\ queue1'[Other(x)] = queue1[Other(x)] /\ queue2'[Other(x)] = queue2[Other(x)]
  /\ sent'[Other(x)] = sent[Other(x)] /\ got'[Other(x)] = got[Other(x)]

StepOf(x) == PairTypeOK' /\ Receives(x) /\ Transmits(x) /\ Alone(x)

(* When the wires keep their type, it is enough to look at the station.    *)
LEMMA TypeOfStep ==
  ASSUME PairTypeOK, NEW x \in Stations, Alone(x), StationOK(x)',
         wire'[Other(x)] \in Seq(FrameTo(Other(x))),
         DOMAIN primary' = Stations, DOMAIN expectedFcb' = Stations,
         DOMAIN queue1' = Stations, DOMAIN queue2' = Stations,
         DOMAIN wire' = Stations, DOMAIN sent' = Stations,
         DOMAIN got' = Stations, DOMAIN confirmed' = Stations
  PROVE  PairTypeOK'
<1>1. StationOK(Other(x))
  BY Others DEF PairTypeOK
<1>2. StationOK(Other(x))'
  BY <1>1 DEF StationOK, Alone
<1>3. \A z \in Stations : z = x \/ z = Other(x)
  BY Others
<1> QED BY <1>2, <1>3 DEF PairTypeOK

(* The parts of a station's type.                                          *)
LEMMA StationIs ==
  ASSUME PairTypeOK, NEW x \in Stations
  PROVE  /\ Other(x) \in Stations /\ Other(x) # x /\ Other(Other(x)) = x
         /\ primary[x] \in Primary(x) /\ expectedFcb[x] \in BOOLEAN
         /\ queue1[x] \in Seq(EntriesOf(x)) /\ queue2[x] \in Seq(EntriesOf(x))
         /\ wire[x] \in Seq(FrameTo(x)) /\ wire[Other(x)] \in Seq(FrameTo(Other(x)))
         /\ sent[x] \in Nat /\ got[x] \in Seq(Nat)
         /\ (primary[x].primaryState = "sendConfirm" /\ primary[x].lastSendAsdu = NoAsdu
               => primary[x].testFunction)
BY Others DEF PairTypeOK, StationOK

(* Sequences stay sequences of their elements.                             *)
LEMMA SequencesOf ==
  ASSUME NEW S, NEW s \in Seq(S)
  PROVE  /\ \A e \in S : Append(s, e) \in Seq(S)
         /\ s # << >> => Tail(s) \in Seq(S) /\ Head(s) \in S
         /\ Rest(s) \in Seq(S)
         /\ \A e \in S : Put(s, e, QueueSize) \in Seq(S)
<1>1. QueueSize \in Nat /\ QueueSize > 0
  BY LinkLayerAssumption
<1> QED BY <1>1 DEF Rest, Put

(* Requests that are ignored, frames that are lost.                        *)
LEMMA DropStep ==
  ASSUME PairTypeOK, NEW x \in Stations, IgnoreRequest(x) \/ LoseFrameTo(x)
  PROVE  StepOf(x)
<1> HIDE DEF FrameTo, Primary, EntriesOf
<1>1. wire[x] # << >> /\ wire' = [wire EXCEPT ![x] = Tail(wire[x])]
  BY DEF IgnoreRequest, LoseFrameTo, Reads, Discarded
<1>2. UNCHANGED <<primary, expectedFcb, queue1, queue2, sent, got, confirmed>>
  BY DEF IgnoreRequest, LoseFrameTo, stationQueues, pairHistory
<1>3. wire'[x] = Tail(wire[x]) /\ wire'[Other(x)] = wire[Other(x)] /\ DOMAIN wire' = Stations
  BY <1>1, StationIs DEF PairTypeOK
<1>4. Alone(x) /\ Receives(x) /\ Transmits(x)
  BY <1>1, <1>2, <1>3 DEF Alone, Receives, Drops, Transmits, SameExchange
<1>5. wire'[x] \in Seq(FrameTo(x)) /\ wire'[Other(x)] \in Seq(FrameTo(Other(x)))
  BY <1>1, <1>3, StationIs, SequencesOf
<1>6. StationOK(x)'
  BY <1>2, <1>5, StationIs DEF StationOK
<1> QED BY <1>2, <1>3, <1>4, <1>5, <1>6, TypeOfStep DEF StepOf, PairTypeOK

(* A request that is answered.                                             *)
LEMMA AcceptStep ==
  ASSUME PairTypeOK, NEW x \in Stations,
         AnswerLinkService(x) \/ ReceiveUserData(x) \/ RefuseLinkService(x)
  PROVE  StepOf(x)
<1> HIDE DEF FrameTo, Primary, EntriesOf
<1> DEFINE f == Head(wire[x])
<1>1. Reads(x, TRUE)
  BY DEF AnswerLinkService, ReceiveUserData, AcceptRequest, RefuseLinkService
<1>2. /\ wire[x] # << >> /\ f \in FrameTo(x) /\ f.prm
      /\ Tail(wire[x]) \in Seq(FrameTo(x))
  BY <1>1, HeadIs
<1>3. PICK a \in FrameTo(Other(x)) :
        ~ a.prm /\ wire' = [[wire EXCEPT ![x] = Tail(@)] EXCEPT ![Other(x)] = Append(@, a)]
  <2>1. ASSUME NEW fc \in LinkAnswers, AnsweredWith(x, fc)
        PROVE  \E a \in FrameTo(Other(x)) : ~ a.prm
                 /\ wire' = [[wire EXCEPT ![x] = Tail(@)] EXCEPT ![Other(x)] = Append(@, a)]
    BY <2>1, FramesAre DEF AnsweredWith, Discarded
  <2>2. CASE AnswerLinkService(x)
    BY <2>1, <2>2 DEF AnswerLinkService, LinkAnswers
  <2>3. CASE ReceiveUserData(x)
    BY <2>1, <2>3 DEF ReceiveUserData, LinkAnswers
  <2>4. CASE RefuseLinkService(x)
    <3>1. PICK fc \in LinkAnswers, dfc \in BOOLEAN :
            wire' = [[wire EXCEPT ![x] = Tail(@)] EXCEPT
                       ![Other(x)] = Append(@, [LinkAnswer(fc) EXCEPT !.dfc = dfc])]
      BY <2>4 DEF RefuseLinkService, LinkAnswers, Discarded
    <3> QED BY <3>1, FramesAre
  <2> QED BY <2>2, <2>3, <2>4
<1>4. a \in FrameTo(Other(x)) /\ ~ a.prm
  BY <1>3
<1> HIDE DEF f
<1>5. /\ wire'[x] = Tail(wire[x]) /\ wire'[Other(x)] = Append(wire[Other(x)], a)
      /\ DOMAIN wire' = Stations
  BY <1>3, StationIs DEF PairTypeOK
<1>6. wire'[x] \in Seq(FrameTo(x)) /\ wire'[Other(x)] \in Seq(FrameTo(Other(x)))
  BY <1>2, <1>4, <1>5, StationIs, SequencesOf
<1>7. UNCHANGED <<primary, queue2, sent, confirmed>>
  BY DEF AnswerLinkService, ReceiveUserData, AcceptRequest, RefuseLinkService, stationQueues,
         pairHistory
<1>8. Transmits(x)
  BY <1>4, <1>5, <1>7 DEF Transmits, SameExchange, Adds
<1>9. f.fcv => f.fcb = expectedFcb[x]
  BY DEF AnswerLinkService, ReceiveUserData, AcceptRequest, RefuseLinkService, CountAgrees, f
<1>10. /\ DOMAIN expectedFcb' = Stations /\ expectedFcb'[Other(x)] = expectedFcb[Other(x)]
       /\ expectedFcb'[x] \in BOOLEAN
       /\ f.fcv => expectedFcb'[x] = ~ expectedFcb[x]
  <2>1. f.fcv => f.fc # "RESET_REMOTE_LINK"
    BY <1>2 DEF FrameTo
  <2>2. \E b : /\ expectedFcb' = [expectedFcb EXCEPT ![x] = b]
               /\ b \in BOOLEAN /\ (f.fcv => b = ~ expectedFcb[x])
    <3>1. CASE RefuseLinkService(x)
      <4>1. expectedFcb' = [expectedFcb EXCEPT ![x] = IF f.fcv THEN ~ @ ELSE @]
        BY <3>1 DEF RefuseLinkService, f
      <4> QED BY <4>1, StationIs
    <3>2. CASE AcceptRequest(x)
      <4>1. expectedFcb' = [expectedFcb EXCEPT ![x] = IF f.fc = "RESET_REMOTE_LINK" THEN TRUE
                                                      ELSE IF f.fcv THEN ~ @ ELSE @]
        BY <3>2 DEF AcceptRequest, f
      <4> QED BY <2>1, <4>1, StationIs
    <3> QED BY <3>1, <3>2 DEF AnswerLinkService, ReceiveUserData
  <2> QED BY <2>2, StationIs DEF PairTypeOK
<1>11. CASE ~ ReceiveUserData(x)
  <2>1. UNCHANGED <<queue1, got>>
    BY <1>11 DEF AnswerLinkService, RefuseLinkService, stationQueues, pairHistory
  <2>2. Receives(x)
    BY <1>2, <1>5, <1>9, <1>10, <2>1 DEF Receives, Drops, f
  <2>3. Alone(x)
    BY <1>7, <1>10, <2>1 DEF Alone
  <2>4. StationOK(x)'
    BY <1>6, <1>7, <1>10, <2>1, StationIs DEF StationOK
  <2> QED BY <1>5, <1>6, <1>7, <1>8, <1>10, <2>1, <2>2, <2>3, <2>4, TypeOfStep
          DEF StepOf, PairTypeOK
<1>12. CASE ReceiveUserData(x)
  <2>1. /\ f.fc = "USER_DATA_CONFIRMED" /\ got' = [got EXCEPT ![x] = Append(@, f.asdu.number)]
        /\ queue1' = IF x = "slave" THEN [queue1 EXCEPT ![x] = AfterReplies(@, f.asdu.asdu)]
                     ELSE queue1
    BY <1>12 DEF ReceiveUserData, f
  <2>2. f.fcv /\ f.asdu \in [number : Nat, asdu : EntriesOf(Other(x))]
    BY <1>2, <2>1 DEF FrameTo, Asdus
  <2>3. f.asdu.number \in Nat /\ f.asdu.asdu \in EntriesOf(Other(x))
    BY <2>2
  <2>4. /\ got'[x] = Append(got[x], f.asdu.number) /\ got'[Other(x)] = got[Other(x)]
        /\ DOMAIN got' = Stations
    BY <2>1, StationIs DEF PairTypeOK
  <2>5. got'[x] \in Seq(Nat)
    BY <2>3, <2>4, StationIs
  <2>6. queue1'[x] \in Seq(EntriesOf(x)) /\ queue1'[Other(x)] = queue1[Other(x)]
        /\ DOMAIN queue1' = Stations
    <3>1. CASE x = "slave"
      <4>1. Other(x) = "master"
        BY <3>1 DEF Other
      <4>2. f.asdu.asdu \in Commanded
        BY <2>3, <4>1 DEF EntriesOf
      <4>3. f.asdu.asdu.id \in Nat
        BY <4>2 DEF Commanded, Command
      <4>4. Reply(f.asdu.asdu.id) \in EntriesOf(x)
        BY <3>1, <4>3 DEF EntriesOf, Reported
      <4>5. AfterReplies(queue1[x], f.asdu.asdu) \in Seq(EntriesOf(x))
        BY <4>2, <4>4, StationIs, RepliesAre
      <4> QED BY <2>1, <3>1, <4>5, StationIs DEF PairTypeOK
    <3>2. CASE x # "slave"
      BY <2>1, <3>2, StationIs DEF PairTypeOK
    <3> QED BY <3>1, <3>2
  <2>7. Receives(x)
    BY <1>2, <1>5, <1>9, <1>10, <2>1, <2>2, <2>4 DEF Receives, Drops, f
  <2>8. Alone(x)
    BY <1>7, <1>10, <2>4, <2>6 DEF Alone
  <2>9. StationOK(x)'
    BY <1>6, <1>7, <1>10, <2>5, <2>6, StationIs DEF StationOK
  <2> QED BY <1>5, <1>6, <1>7, <1>8, <1>10, <2>4, <2>6, <2>7, <2>8, <2>9, TypeOfStep
          DEF StepOf, PairTypeOK
<1> QED BY <1>11, <1>12

(* An answer is read, and that to a request for the status answered with a *)
(* reset.                                                                  *)
LEMMA AnswerStep ==
  ASSUME PairTypeOK, NEW x \in Stations, ReadAnswer(x)
  PROVE  StepOf(x)
<1> HIDE DEF FrameTo, Primary, EntriesOf
<1> DEFINE f == Head(wire[x])
           p == AfterAnswer(primary[x], f)
           r == LinkService("RESET_REMOTE_LINK")
<1>1. /\ wire[x] # << >> /\ f \in FrameTo(x) /\ ~ f.prm
      /\ Tail(wire[x]) \in Seq(FrameTo(x))
  BY HeadIs DEF ReadAnswer
<1>2. p \in Primary(x) /\ p.primaryState # "sendConfirm"
  BY <1>1, AnswerIs, StationIs
<1>3. primary' = [primary EXCEPT ![x] = p]
  BY DEF ReadAnswer
<1>4. UNCHANGED <<expectedFcb, queue1, queue2, sent, got>>
  BY DEF ReadAnswer, stationQueues
<1>5. \/ wire' = [wire EXCEPT ![x] = Tail(@)]
      \/ wire' = [[wire EXCEPT ![x] = Tail(@)] EXCEPT ![Other(x)] = Append(@, r)]
  BY DEF ReadAnswer, Discarded
<1>6. DOMAIN confirmed' = Stations
  <2>1. confirmed' = confirmed \/ \E s : confirmed' = [confirmed EXCEPT ![x] = s]
    BY DEF ReadAnswer
  <2> QED BY <2>1 DEF PairTypeOK
<1>7. r \in FrameTo(Other(x)) /\ r.prm /\ ~ r.fcv
  BY FramesAre
<1> HIDE DEF f, p, r
<1>8. /\ wire'[x] = Tail(wire[x]) /\ DOMAIN wire' = Stations
      /\ wire'[Other(x)] = wire[Other(x)] \/ wire'[Other(x)] = Append(wire[Other(x)], r)
  BY <1>5, StationIs DEF PairTypeOK
<1>9. wire'[x] \in Seq(FrameTo(x)) /\ wire'[Other(x)] \in Seq(FrameTo(Other(x)))
  <2>1. wire'[x] \in Seq(FrameTo(x))
    BY <1>1, <1>8
  <2>2. Append(wire[Other(x)], r) \in Seq(FrameTo(Other(x)))
    BY <1>7, StationIs, SequencesOf
  <2> QED BY <1>8, <2>1, <2>2, StationIs
<1>10. /\ primary'[x] = p /\ primary'[Other(x)] = primary[Other(x)]
       /\ DOMAIN primary' = Stations
  BY <1>3, StationIs DEF PairTypeOK
<1>11. Receives(x)
  BY <1>1, <1>4, <1>8 DEF Receives, Drops
<1>12. Transmits(x)
  BY <1>2, <1>4, <1>7, <1>8, <1>10 DEF Transmits, NoExchange, Adds
<1>13. Alone(x)
  BY <1>4, <1>10 DEF Alone
<1>14. StationOK(x)'
  BY <1>2, <1>4, <1>9, <1>10, StationIs DEF StationOK
<1> QED BY <1>4, <1>6, <1>8, <1>9, <1>10, <1>11, <1>12, <1>13, <1>14, TypeOfStep
        DEF StepOf, PairTypeOK

(* A step of the state machine that neither takes an ASDU from a queue nor *)
(* reads anything.                                                         *)
LEMMA RunsStep ==
  ASSUME PairTypeOK, NEW x \in Stations, NEW p \in Primary(x),
         \/ primary' = [primary EXCEPT ![x] = p]
         \/ primary' = primary /\ p = primary[x],
         p.primaryState = "sendConfirm" /\ p.lastSendAsdu = NoAsdu => p.testFunction,
         UNCHANGED <<expectedFcb, queue1, queue2, sent, got, confirmed>>,
         \/ wire' = wire
         \/ \E f \in FrameTo(Other(x)) :
              wire' = [wire EXCEPT ![Other(x)] = Append(@, f)],
         Transmits(x)
  PROVE  StepOf(x)
<1> HIDE DEF FrameTo, Primary, EntriesOf
<1>1. /\ wire'[x] = wire[x] /\ DOMAIN wire' = Stations
      /\ wire'[Other(x)] \in Seq(FrameTo(Other(x)))
  <2>1. CASE wire' = wire
    BY <2>1, StationIs DEF PairTypeOK
  <2>2. ASSUME NEW f \in FrameTo(Other(x)), wire' = [wire EXCEPT ![Other(x)] = Append(@, f)]
        PROVE  wire'[x] = wire[x] /\ DOMAIN wire' = Stations
               /\ wire'[Other(x)] \in Seq(FrameTo(Other(x)))
    BY <2>2, StationIs, SequencesOf DEF PairTypeOK
  <2> QED BY <2>1, <2>2, StationIs
<1>2. primary'[x] = p /\ primary'[Other(x)] = primary[Other(x)] /\ DOMAIN primary' = Stations
  BY StationIs DEF PairTypeOK
<1>3. Receives(x)
  BY <1>1 DEF Receives
<1>4. Alone(x)
  BY <1>2 DEF Alone
<1>5. StationOK(x)'
  BY <1>1, <1>2, StationIs DEF StationOK
<1> QED BY <1>1, <1>2, <1>3, <1>4, <1>5, TypeOfStep DEF StepOf, PairTypeOK

(* A link is begun, reset or asked for its status, or waits.               *)
LEMMA LinkStep ==
  ASSUME PairTypeOK, NEW x \in Stations,
         \/ BeginLink(x) \/ ResetLink(x) \/ AskStatus(x) \/ ResetExpired(x) \/ NotConfirmed(x)
         \/ Wait(x) \/ AskForTest(x)
  PROVE  StepOf(x)
<1> DEFINE P == primary[x]
<1>1. P \in Primary(x)
  BY StationIs
<1>2. \A fc \in {"RESET_REMOTE_LINK", "REQUEST_LINK_STATUS"} :
        LinkService(fc) \in FrameTo(Other(x)) /\ LinkService(fc).prm /\ ~ LinkService(fc).fcv
  BY FramesAre
<1>3. ASSUME NEW p \in Primary(x), primary' = [primary EXCEPT ![x] = p]
      PROVE  primary'[x] = p
  BY <1>3 DEF PairTypeOK
<1> HIDE DEF FrameTo
<1>4. CASE BeginLink(x)
  <2> DEFINE p == [P EXCEPT !.primaryState = "status", !.waiting = FALSE, !.testFunction = FALSE]
  <2>1. p \in Primary(x) /\ p.primaryState = "status"
    BY <1>1 DEF Primary, PrimaryLinkLayerState
  <2>2. /\ primary' = [primary EXCEPT ![x] = p] /\ wire' = wire
        /\ UNCHANGED <<expectedFcb, queue1, queue2, sent, got, confirmed>>
    BY <1>4 DEF BeginLink, Runs, To, stationQueues
  <2> HIDE DEF p
  <2>3. Transmits(x)
    BY <1>3, <2>1, <2>2 DEF Transmits, NoExchange
  <2> QED BY <2>1, <2>2, <2>3, RunsStep
<1>5. CASE ResetLink(x)
  <2> DEFINE p == [P EXCEPT !.primaryState = "reset", !.waiting = TRUE]
             r == LinkService("RESET_REMOTE_LINK")
  <2>1. p \in Primary(x) /\ p.primaryState = "reset"
    BY <1>1 DEF Primary, PrimaryLinkLayerState
  <2>2. /\ primary' = [primary EXCEPT ![x] = p]
        /\ wire' = [wire EXCEPT ![Other(x)] = Append(@, r)]
        /\ UNCHANGED <<expectedFcb, queue1, queue2, sent, got, confirmed>>
    BY <1>5 DEF ResetLink, Runs, To, Sends, stationQueues
  <2>3. r \in FrameTo(Other(x)) /\ r.prm /\ ~ r.fcv
    BY <1>2
  <2> HIDE DEF p, r
  <2>4. Adds(x, r)
    BY <2>2, <2>3, StationIs DEF Adds, PairTypeOK
  <2>5. Transmits(x)
    BY <1>3, <2>1, <2>2, <2>3, <2>4 DEF Transmits, NoExchange
  <2> QED BY <2>1, <2>2, <2>3, <2>5, RunsStep
<1>6. CASE AskStatus(x)
  <2> DEFINE r == LinkService("REQUEST_LINK_STATUS")
  <2>1. /\ primary' = primary /\ P.primaryState = "status"
        /\ wire' = [wire EXCEPT ![Other(x)] = Append(@, r)]
        /\ UNCHANGED <<expectedFcb, queue1, queue2, sent, got, confirmed>>
    BY <1>6 DEF AskStatus, Runs, Sends, stationQueues
  <2>2. r \in FrameTo(Other(x)) /\ r.prm /\ ~ r.fcv
    BY <1>2
  <2> HIDE DEF r
  <2>3. Adds(x, r)
    BY <2>1, <2>2, StationIs DEF Adds, PairTypeOK
  <2>4. Transmits(x)
    BY <2>1, <2>2, <2>3 DEF Transmits, NoExchange
  <2> QED BY <1>1, <2>1, <2>2, <2>4, RunsStep
<1>7. CASE ResetExpired(x) \/ NotConfirmed(x)
  <2>1. PICK p \in Primary(x) : p.primaryState = "idle" /\ primary' = [primary EXCEPT ![x] = p]
    <3>1. Illegal(P) \in Primary(x) /\ Illegal(P).primaryState = "idle"
      BY <1>1 DEF Illegal, Primary, PrimaryLinkLayerState, LinkLayerState
    <3>2. NotWaiting(Illegal(P)) \in Primary(x) /\ NotWaiting(Illegal(P)).primaryState = "idle"
      BY <3>1 DEF NotWaiting, Primary
    <3> QED BY <1>7, <3>1, <3>2 DEF ResetExpired, NotConfirmed, To
  <2>2. wire' = wire /\ UNCHANGED <<expectedFcb, queue1, queue2, sent, got, confirmed>>
    BY <1>7 DEF ResetExpired, NotConfirmed, Runs, stationQueues
  <2>3. Transmits(x)
    BY <1>3, <2>1, <2>2 DEF Transmits, NoExchange
  <2> QED BY <2>1, <2>2, <2>3, RunsStep
<1>8. CASE Wait(x)
  <2>1. /\ primary' = primary /\ wire' = wire
        /\ UNCHANGED <<expectedFcb, queue1, queue2, sent, got, confirmed>>
    BY <1>8 DEF Wait, Runs, stationQueues
  <2>2. Transmits(x)
    BY <2>1 DEF Transmits, SameExchange
  <2> QED BY <1>1, <2>1, <2>2, StationIs, RunsStep
<1>9. CASE AskForTest(x)
  <2> DEFINE p == [P EXCEPT !.testFunction = TRUE]
  <2>1. /\ p \in Primary(x) /\ p.primaryState = P.primaryState /\ p.nextFcb = P.nextFcb
        /\ p.lastSendAsdu = P.lastSendAsdu /\ p.testFunction
    BY <1>1 DEF Primary
  <2>2. /\ primary' = [primary EXCEPT ![x] = p] /\ wire' = wire
        /\ UNCHANGED <<expectedFcb, queue1, queue2, sent, got, confirmed>>
    BY <1>9 DEF AskForTest, stationQueues, pairHistory
  <2> HIDE DEF p
  <2>3. Transmits(x)
    BY <1>3, <2>1, <2>2 DEF Transmits, SameExchange
  <2> QED BY <2>1, <2>2, <2>3, RunsStep
<1> QED BY <1>4, <1>5, <1>6, <1>7, <1>8, <1>9

(* A test is sent, or what was not confirmed is repeated.                  *)
LEMMA CountedStep ==
  ASSUME PairTypeOK, NEW x \in Stations, SendTest(x) \/ RepeatFrame(x)
  PROVE  StepOf(x)
<1> DEFINE P == primary[x]
<1>1. P \in Primary(x) /\ P.nextFcb \in BOOLEAN /\ P.lastSendAsdu \in Asdus(x)
  BY StationIs DEF Primary
<1> HIDE DEF FrameTo
<1>2. CASE SendTest(x)
  <2> DEFINE p == [SentCounted(P) EXCEPT !.testFunction = TRUE, !.lastSendAsdu = NoAsdu]
             f == CountedService("TEST_FUNCTION", P.nextFcb, NoAsdu)
  <2>1. /\ p \in Primary(x) /\ p.primaryState = "sendConfirm" /\ p.testFunction
        /\ p.lastSendAsdu = NoAsdu
    BY <1>1 DEF SentCounted, Primary, PrimaryLinkLayerState, Asdus
  <2>2. f \in FrameTo(Other(x)) /\ f.prm /\ f.fc = "TEST_FUNCTION"
    BY <1>1, FramesAre
  <2>3. /\ primary' = [primary EXCEPT ![x] = p]
        /\ wire' = [wire EXCEPT ![Other(x)] = Append(@, f)]
        /\ UNCHANGED <<expectedFcb, queue1, queue2, sent, got, confirmed>>
    BY <1>2 DEF SendTest, Runs, To, Sends, stationQueues
  <2> HIDE DEF p, f
  <2>4. Adds(x, f) /\ primary'[x] = p
    BY <2>2, <2>3, StationIs DEF Adds, PairTypeOK
  <2>5. Transmits(x)
    BY <2>1, <2>2, <2>3, <2>4 DEF Transmits
  <2> QED BY <2>1, <2>2, <2>3, <2>5, RunsStep
<1>3. CASE RepeatFrame(x)
  <2> DEFINE p == [P EXCEPT !.repeats = @ + 1]
             f == RepeatedFrame(P)
  <2>1. /\ p \in Primary(x) /\ p.primaryState = P.primaryState /\ p.nextFcb = P.nextFcb
        /\ p.lastSendAsdu = P.lastSendAsdu /\ p.testFunction = P.testFunction
    BY <1>1 DEF Primary
  <2>2. P.primaryState = "sendConfirm" /\ (P.lastSendAsdu = NoAsdu => P.testFunction)
    BY <1>3, StationIs DEF RepeatFrame, Runs
  <2>3. /\ f \in FrameTo(Other(x)) /\ f.prm /\ f.fcv /\ f.fcb = ~ P.nextFcb
        /\ f.fc = "USER_DATA_CONFIRMED" => f.asdu = P.lastSendAsdu /\ P.lastSendAsdu # NoAsdu
    <3>1. CASE P.testFunction
      BY <1>1, <3>1, FramesAre DEF RepeatedFrame
    <3>2. CASE ~ P.testFunction
      <4>1. P.lastSendAsdu \in Asdus(x) \ {NoAsdu} /\ (~ P.nextFcb) \in BOOLEAN
        BY <1>1, <2>2, <3>2
      <4>2. f = CountedService("USER_DATA_CONFIRMED", ~ P.nextFcb, P.lastSendAsdu)
        BY <3>2 DEF RepeatedFrame
      <4> HIDE DEF f, P
      <4>3. \A fcb \in BOOLEAN, asdu \in Asdus(x) \ {NoAsdu} :
              LET g == CountedService("USER_DATA_CONFIRMED", fcb, asdu)
              IN  g \in FrameTo(Other(x)) /\ g.prm /\ g.fcv /\ g.fcb = fcb
                    /\ g.fc = "USER_DATA_CONFIRMED" /\ g.asdu = asdu
        BY FramesAre
      <4> QED BY <4>1, <4>2, <4>3
    <3> QED BY <3>1, <3>2
  <2>4. /\ primary' = [primary EXCEPT ![x] = p]
        /\ wire' = [wire EXCEPT ![Other(x)] = Append(@, f)]
        /\ UNCHANGED <<expectedFcb, queue1, queue2, sent, got, confirmed>>
    BY <1>3 DEF RepeatFrame, Runs, To, Sends, stationQueues
  <2> HIDE DEF p, f
  <2>5. Adds(x, f) /\ primary'[x] = p
    BY <2>1, <2>3, <2>4, StationIs DEF Adds, PairTypeOK
  <2>6. Transmits(x)
    BY <2>1, <2>2, <2>3, <2>4, <2>5 DEF Transmits, SameExchange
  <2> QED BY <2>1, <2>2, <2>3, <2>4, <2>6, RunsStep
<1> QED BY <1>2, <1>3

(* The next ASDU is taken from a queue and sent.                           *)
LEMMA SendStep ==
  ASSUME PairTypeOK, NEW x \in Stations, SendNextAsdu(x)
  PROVE  StepOf(x)
<1> DEFINE P == primary[x]
           asdu == [number |-> sent[x] + 1, asdu |-> NextUserData(x)]
           p == [SentCounted(P) EXCEPT !.waiting = TRUE, !.lastSendAsdu = asdu]
           f == CountedService("USER_DATA_CONFIRMED", P.nextFcb, asdu)
<1>1. P \in Primary(x) /\ P.nextFcb \in BOOLEAN
  BY StationIs DEF Primary
<1> HIDE DEF FrameTo, EntriesOf
<1>2. NextUserData(x) \in EntriesOf(x)
  BY StationIs, SequencesOf DEF SendNextAsdu, HasUserData, NextUserData
<1>3. asdu \in Asdus(x) \ {NoAsdu} /\ asdu.number = sent[x] + 1
  BY <1>2, StationIs DEF Asdus, NoAsdu
<1> HIDE DEF asdu
<1>4. /\ p \in Primary(x) /\ p.primaryState = "sendConfirm" /\ p.lastSendAsdu = asdu
      /\ p.nextFcb = ~ P.nextFcb
  BY <1>1, <1>3 DEF SentCounted, Primary, PrimaryLinkLayerState
<1>5. /\ f \in FrameTo(Other(x)) /\ f.prm /\ f.fcb = P.nextFcb /\ f.fc = "USER_DATA_CONFIRMED"
      /\ f.asdu = asdu
  BY <1>1, <1>3, FramesAre
<1>6. /\ primary' = [primary EXCEPT ![x] = p] /\ sent' = [sent EXCEPT ![x] = @ + 1]
      /\ wire' = [wire EXCEPT ![Other(x)] = Append(@, f)]
      /\ queue1' = [queue1 EXCEPT ![x] = Rest(@)]
      /\ queue2' = IF queue1[x] = <<>> THEN [queue2 EXCEPT ![x] = Rest(@)] ELSE queue2
      /\ UNCHANGED <<expectedFcb, got, confirmed>>
  BY DEF SendNextAsdu, Runs, To, Sends, asdu
<1> HIDE DEF p, f
<1>7. Adds(x, f) /\ primary'[x] = p /\ wire'[x] = wire[x] /\ sent'[x] = sent[x] + 1
      /\ primary'[Other(x)] = primary[Other(x)] /\ sent'[Other(x)] = sent[Other(x)]
      /\ DOMAIN primary' = Stations /\ DOMAIN wire' = Stations /\ DOMAIN sent' = Stations
  BY <1>5, <1>6, StationIs DEF Adds, PairTypeOK
<1>8. /\ queue1'[Other(x)] = queue1[Other(x)] /\ queue2'[Other(x)] = queue2[Other(x)]
      /\ queue1'[x] \in Seq(EntriesOf(x)) /\ queue2'[x] \in Seq(EntriesOf(x))
      /\ DOMAIN queue1' = Stations /\ DOMAIN queue2' = Stations
  BY <1>6, StationIs, SequencesOf DEF PairTypeOK
<1>9. Transmits(x)
  BY <1>3, <1>4, <1>5, <1>7 DEF Transmits
<1>10. Receives(x) /\ Alone(x)
  BY <1>6, <1>7, <1>8 DEF Receives, Alone
<1>11. wire'[Other(x)] \in Seq(FrameTo(Other(x)))
  BY <1>7, StationIs, SequencesOf DEF Adds
<1>12. StationOK(x)'
  BY <1>3, <1>4, <1>6, <1>7, <1>8, StationIs DEF StationOK
<1> QED BY <1>6, <1>7, <1>8, <1>9, <1>10, <1>11, <1>12, TypeOfStep DEF StepOf, PairTypeOK

(* The application adds an ASDU to a queue.                                *)
LEMMA EnqueueStep ==
  ASSUME PairTypeOK, NEW x \in Stations, EnqueueASDU(x), messages' \in Nat, events' \in Nat
  PROVE  StepOf(x)
<1>1. UNCHANGED <<primary, expectedFcb, wire, sent, got, confirmed>>
  BY DEF EnqueueASDU, pairHistory
<1>2. ASSUME x = "master", NEW kind \in Commands PROVE Command(messages', kind) \in EntriesOf(x)
  BY <1>2 DEF EntriesOf, Commanded
<1>3. ASSUME x = "slave" PROVE Event(events') \in EntriesOf(x)
  BY <1>3 DEF EntriesOf, Reported
<1> HIDE DEF EntriesOf, FrameTo
<1>4. \/ \E e \in EntriesOf(x) : queue1' = [queue1 EXCEPT ![x] = Put(@, e, QueueSize)]
            /\ queue2' = queue2
      \/ \E e \in EntriesOf(x) : queue2' = [queue2 EXCEPT ![x] = Put(@, e, QueueSize)]
            /\ queue1' = queue1
  BY <1>2, <1>3 DEF EnqueueASDU
<1>5. \A e \in EntriesOf(x) : /\ Put(queue1[x], e, QueueSize) \in Seq(EntriesOf(x))
                              /\ Put(queue2[x], e, QueueSize) \in Seq(EntriesOf(x))
  BY StationIs, SequencesOf
<1>6. /\ queue1'[Other(x)] = queue1[Other(x)] /\ queue2'[Other(x)] = queue2[Other(x)]
      /\ queue1'[x] \in Seq(EntriesOf(x)) /\ queue2'[x] \in Seq(EntriesOf(x))
      /\ DOMAIN queue1' = Stations /\ DOMAIN queue2' = Stations
  BY <1>4, <1>5, StationIs DEF PairTypeOK
<1>7. Receives(x) /\ Transmits(x) /\ Alone(x)
  BY <1>1, <1>6 DEF Receives, Transmits, Alone, SameExchange
<1>8. StationOK(x)'
  BY <1>1, <1>6, StationIs DEF StationOK
<1> QED BY <1>1, <1>6, <1>7, <1>8, StationIs, TypeOfStep DEF StepOf, PairTypeOK

(* What is left for every step of the two stations.                        *)
LEMMA StepsAre ==
  ASSUME PairTypeOK, PairNext, messages \in Nat, events \in Nat
  PROVE  \E x \in Stations : StepOf(x)
<1>1. PICK x \in Stations :
        \/ ReadsFrame(x) \/ RefuseLinkService(x) \/ RunLink(x)
        \/ EnqueueASDU(x) \/ AskForTest(x) \/ LoseFrameTo(x)
  BY DEF PairNext
<1>2. CASE IgnoreRequest(x) \/ LoseFrameTo(x)
  BY <1>2, DropStep
<1>3. CASE AnswerLinkService(x) \/ ReceiveUserData(x) \/ RefuseLinkService(x)
  BY <1>3, AcceptStep
<1>4. CASE ReadAnswer(x)
  BY <1>4, AnswerStep
<1>5. CASE \/ BeginLink(x) \/ ResetLink(x) \/ AskStatus(x) \/ ResetExpired(x) \/ NotConfirmed(x)
           \/ Wait(x) \/ AskForTest(x)
  BY <1>5, LinkStep
<1>6. CASE SendTest(x) \/ RepeatFrame(x)
  BY <1>6, CountedStep
<1>7. CASE SendNextAsdu(x)
  BY <1>7, SendStep
<1>8. CASE EnqueueASDU(x)
  <2>1. messages' \in Nat /\ events' \in Nat
    BY <1>8 DEF EnqueueASDU, NewMessage, NewEvent
  <2> QED BY <1>8, <2>1, EnqueueStep
<1> QED BY <1>1, <1>2, <1>3, <1>4, <1>5, <1>6, <1>7, <1>8 DEF ReadsFrame, RunLink, ExpireAt

-----------------------------------------------------------------------------
(* The invariant of one direction: w is the wire, e the count bit the      *)
(* receiver expects, g the numbers it has been given and n the last the    *)
(* sender has taken.                                                       *)
Flip(b) == ~ b
Carries(f) == f.prm /\ f.fc = "USER_DATA_CONFIRMED"
Number(f) == f.asdu.number
HasCount(f, b) == f.prm => f.fcv /\ f.fcb = b

InOrderOn(w, g, n) ==
  /\ \A i \in 1..Len(w) :
       Carries(w[i]) => Number(w[i]) \in 1..n /\ \A k \in 1..Len(g) : g[k] <= Number(w[i])
  /\ \A i, j \in 1..Len(w) :
       i < j /\ Carries(w[i]) /\ Carries(w[j]) => Number(w[i]) <= Number(w[j])

(* The frames of one ASDU have one count bit, and no other frame comes     *)
(* between them.                                                           *)
Together(w) ==
  \A i, j \in 1..Len(w) :
    i <= j /\ Carries(w[i]) /\ Carries(w[j]) /\ Number(w[i]) = Number(w[j])
      => \A m \in i..j : HasCount(w[m], w[i].fcb)

(* What is repeated on the wire is not expected.                           *)
NotTwice(w, e, g) ==
  \A i \in 1..Len(w), k \in 1..Len(g) :
    Carries(w[i]) /\ g[k] = Number(w[i]) => \A m \in 1..i : HasCount(w[m], Flip(e))

GivenOnce(g, n) == Increasing(g) /\ \A k \in 1..Len(g) : g[k] \in 1..n

OrderOn(w, e, g, n) ==
  InOrderOn(w, g, n) /\ Together(w) /\ NotTwice(w, e, g) /\ GivenOnce(g, n)

(* While the sender waits for its last ASDU to be confirmed: the frames    *)
(* after the first of it have its count bit, and when it was given to the  *)
(* application none is expected.                                           *)
Repeatable(w, e, g, n, fcb) ==
  /\ \A i \in 1..Len(w) :
       Carries(w[i]) /\ Number(w[i]) = n => \A m \in i..Len(w) : HasCount(w[m], Flip(fcb))
  /\ \A k \in 1..Len(g) :
       g[k] = n => e = fcb /\ \A m \in 1..Len(w) : HasCount(w[m], Flip(fcb))

LEMMA Flips ==
  ASSUME NEW b \in BOOLEAN
  PROVE  Flip(b) \in BOOLEAN /\ Flip(b) # b /\ Flip(Flip(b)) = b
BY DEF Flip

(* The receiver drops the first frame.                                     *)
LEMMA DroppedKeepsOrder ==
  ASSUME NEW S, NEW w \in Seq(S), w # << >>, NEW e, NEW g \in Seq(Nat), NEW n \in Nat,
         OrderOn(w, e, g, n)
  PROVE  /\ OrderOn(Tail(w), e, g, n)
         /\ \A fcb : Repeatable(w, e, g, n, fcb) => Repeatable(Tail(w), e, g, n, fcb)
<1>1. Len(w) \in Nat \ {0} /\ Len(Tail(w)) = Len(w) - 1 /\ Len(g) \in Nat
      /\ \A i \in 1..Len(Tail(w)) : Tail(w)[i] = w[i + 1]
  OBVIOUS
<1> DEFINE t == Tail(w)
<1> HIDE DEF t
<1>2. Len(t) = Len(w) - 1 /\ \A i \in 1..Len(t) : t[i] = w[i + 1] /\ i + 1 \in 1..Len(w)
  BY <1>1 DEF t
<1>3. InOrderOn(t, g, n)
  BY <1>1, <1>2 DEF OrderOn, InOrderOn
<1>4. Together(t)
  <2> SUFFICES ASSUME NEW i \in 1..Len(t), NEW j \in 1..Len(t), i <= j, Carries(t[i]),
                      Carries(t[j]), Number(t[i]) = Number(t[j]), NEW m \in i..j
               PROVE  HasCount(t[m], t[i].fcb)
    BY DEF Together
  <2>1. m + 1 \in (i + 1)..(j + 1) /\ i + 1 <= j + 1 /\ m \in 1..Len(t)
    BY <1>1, <1>2
  <2>2. HasCount(w[m + 1], w[i + 1].fcb)
    BY <1>2, <2>1 DEF OrderOn, Together
  <2> QED BY <1>2, <2>1, <2>2
<1>5. NotTwice(t, e, g)
  <2> SUFFICES ASSUME NEW i \in 1..Len(t), NEW k \in 1..Len(g), Carries(t[i]), g[k] = Number(t[i]),
                      NEW m \in 1..i
               PROVE  HasCount(t[m], Flip(e))
    BY DEF NotTwice
  <2>1. m + 1 \in 1..(i + 1) /\ m \in 1..Len(t)
    BY <1>1, <1>2
  <2>2. HasCount(w[m + 1], Flip(e))
    BY <1>2, <2>1 DEF OrderOn, NotTwice
  <2> QED BY <1>2, <2>1, <2>2
<1>6. ASSUME NEW fcb, Repeatable(w, e, g, n, fcb) PROVE Repeatable(t, e, g, n, fcb)
  <2>1. ASSUME NEW i \in 1..Len(t), Carries(t[i]), Number(t[i]) = n, NEW m \in i..Len(t)
        PROVE  HasCount(t[m], Flip(fcb))
    <3>1. m + 1 \in (i + 1)..Len(w) /\ m \in 1..Len(t)
      BY <1>1, <1>2
    <3>2. HasCount(w[m + 1], Flip(fcb))
      BY <1>2, <1>6, <2>1, <3>1 DEF Repeatable
    <3> QED BY <1>2, <3>1, <3>2
  <2>2. ASSUME NEW k \in 1..Len(g), g[k] = n
        PROVE  e = fcb /\ \A m \in 1..Len(t) : HasCount(t[m], Flip(fcb))
    BY <1>2, <1>6, <2>2 DEF Repeatable
  <2> QED BY <2>1, <2>2 DEF Repeatable
<1> QED BY <1>3, <1>4, <1>5, <1>6 DEF OrderOn, t

(* It accepts the first frame: then nothing that was given to the          *)
(* application is still on the wire.                                       *)
LEMMA AcceptedIsNew ==
  ASSUME NEW S, NEW w \in Seq(S), w # << >>, NEW e \in BOOLEAN, NEW g \in Seq(Nat), NEW n \in Nat,
         OrderOn(w, e, g, n), w[1].prm, w[1].fcv => w[1].fcb = e
  PROVE  /\ \A i \in 1..Len(w), k \in 1..Len(g) : Carries(w[i]) => g[k] # Number(w[i])
         /\ \A fcb \in BOOLEAN : Repeatable(w, e, g, n, fcb) => \A k \in 1..Len(g) : g[k] # n
<1>1. Len(w) \in Nat \ {0} /\ Len(g) \in Nat
  OBVIOUS
<1>2. ~ HasCount(w[1], Flip(e))
  BY Flips DEF HasCount
<1>3. ASSUME NEW i \in 1..Len(w), NEW k \in 1..Len(g), Carries(w[i]), g[k] = Number(w[i])
      PROVE  FALSE
  <2>1. 1 \in 1..i
    BY <1>1
  <2> QED BY <1>2, <1>3, <2>1 DEF OrderOn, NotTwice
<1>4. ASSUME NEW fcb \in BOOLEAN, Repeatable(w, e, g, n, fcb), NEW k \in 1..Len(g), g[k] = n
      PROVE  FALSE
  <2>1. 1 \in 1..Len(w)
    BY <1>1
  <2> QED BY <1>2, <1>4, <2>1 DEF Repeatable
<1> QED BY <1>3, <1>4

(* It accepts it, and whatever it expects then, order is kept: a request   *)
(* that is no ASDU, or an ASDU given to the application.                   *)
LEMMA AcceptedKeepsOrder ==
  ASSUME NEW S, NEW w \in Seq(S), w # << >>, NEW e \in BOOLEAN, NEW g \in Seq(Nat), NEW n \in Nat,
         OrderOn(w, e, g, n), w[1].prm, w[1].fcv => w[1].fcb = e, NEW e2
  PROVE  /\ OrderOn(Tail(w), e2, g, n)
         /\ \A fcb \in BOOLEAN : Repeatable(w, e, g, n, fcb) => Repeatable(Tail(w), e2, g, n, fcb)
<1> DEFINE t == Tail(w)
<1>1. OrderOn(t, e, g, n) /\ \A fcb : Repeatable(w, e, g, n, fcb) => Repeatable(t, e, g, n, fcb)
  BY DroppedKeepsOrder
<1>2. /\ \A i \in 1..Len(w), k \in 1..Len(g) : Carries(w[i]) => g[k] # Number(w[i])
      /\ \A fcb \in BOOLEAN : Repeatable(w, e, g, n, fcb) => \A k \in 1..Len(g) : g[k] # n
  BY AcceptedIsNew
<1>3. \A i \in 1..Len(t) : i + 1 \in 1..Len(w) /\ t[i] = w[i + 1]
  OBVIOUS
<1> HIDE DEF t
<1>4. NotTwice(t, e2, g)
  BY <1>2, <1>3 DEF NotTwice
<1>5. \A fcb \in BOOLEAN : Repeatable(w, e, g, n, fcb) => Repeatable(t, e2, g, n, fcb)
  BY <1>1, <1>2 DEF Repeatable
<1> QED BY <1>1, <1>4, <1>5 DEF OrderOn, t

LEMMA GivenKeepsOrder ==
  ASSUME NEW S, NEW w \in Seq(S), w # << >>, NEW e \in BOOLEAN, NEW g \in Seq(Nat), NEW n \in Nat,
         OrderOn(w, e, g, n), Carries(w[1]), w[1].fcb = e
  PROVE  LET given == Append(g, Number(w[1]))
         IN  /\ OrderOn(Tail(w), Flip(e), given, n)
             /\ \A fcb \in BOOLEAN :
                  Repeatable(w, e, g, n, fcb) => Repeatable(Tail(w), Flip(e), given, n, fcb)
<1> DEFINE t == Tail(w)
           new == Number(w[1])
           given == Append(g, new)
<1>1. /\ OrderOn(t, Flip(e), g, n)
      /\ \A fcb \in BOOLEAN : Repeatable(w, e, g, n, fcb) => Repeatable(t, Flip(e), g, n, fcb)
  BY AcceptedKeepsOrder DEF Carries
<1>2. /\ \A i \in 1..Len(w), k \in 1..Len(g) : Carries(w[i]) => g[k] # Number(w[i])
      /\ \A fcb \in BOOLEAN : Repeatable(w, e, g, n, fcb) => \A k \in 1..Len(g) : g[k] # n
  BY AcceptedIsNew DEF Carries
<1>3. /\ Len(w) \in Nat \ {0} /\ Len(g) \in Nat /\ Len(t) = Len(w) - 1
      /\ \A i \in 1..Len(t) : i + 1 \in 2..Len(w) /\ t[i] = w[i + 1]
  OBVIOUS
<1>4. new \in 1..n /\ \A k \in 1..Len(g) : g[k] < new
  <2>1. 1 \in 1..Len(w)
    BY <1>3
  <2>2. new \in 1..n /\ \A k \in 1..Len(g) : g[k] <= new /\ g[k] # new /\ g[k] \in Nat
    BY <1>2, <2>1 DEF OrderOn, InOrderOn
  <2> QED BY <2>2
<1>5. /\ given \in Seq(Nat) /\ Len(given) = Len(g) + 1
      /\ \A k \in 1..Len(g) : given[k] = g[k]
      /\ given[Len(g) + 1] = new
      /\ \A k \in 1..Len(given) : k \in 1..Len(g) \/ k = Len(g) + 1
      /\ DOMAIN given = 1..Len(given) /\ DOMAIN g = 1..Len(g)
  BY <1>3, <1>4, SMTT(30)
<1> HIDE DEF t, given, new
<1>6. GivenOnce(given, n)
  <2>1. \A i, j \in 1..Len(given) : i < j => given[i] < given[j]
    <3> SUFFICES ASSUME NEW i \in 1..Len(given), NEW j \in 1..Len(given), i < j
                 PROVE  given[i] < given[j]
      OBVIOUS
    <3>1. i \in 1..Len(g) /\ given[i] = g[i]
      BY <1>3, <1>5
    <3>2. CASE j \in 1..Len(g)
      BY <1>5, <3>1, <3>2 DEF OrderOn, GivenOnce, Increasing
    <3>3. CASE j = Len(g) + 1
      BY <1>4, <1>5, <3>1, <3>3
    <3> QED BY <1>5, <3>2, <3>3
  <2>2. \A k \in 1..Len(given) : given[k] \in 1..n
    BY <1>3, <1>4, <1>5 DEF OrderOn, GivenOnce
  <2> QED BY <1>5, <2>1, <2>2 DEF GivenOnce, Increasing
<1>7. InOrderOn(t, given, n)
  <2>1. \A i \in 1..Len(t) : Carries(t[i]) => Number(t[i]) \in 1..n /\ new <= Number(t[i])
    <3>1. 1 \in 1..Len(w)
      BY <1>3
    <3> QED BY <1>3, <3>1, SMTT(30) DEF OrderOn, InOrderOn, new
  <2>2. InOrderOn(t, g, n)
    BY <1>1 DEF OrderOn
  <2>3. ASSUME NEW i \in 1..Len(t), Carries(t[i]), NEW k \in 1..Len(given)
        PROVE  given[k] <= Number(t[i])
    <3>1. CASE k \in 1..Len(g)
      BY <1>5, <2>2, <2>3, <3>1 DEF InOrderOn
    <3>2. CASE k = Len(g) + 1
      BY <1>5, <2>1, <2>3, <3>2
    <3> QED BY <1>5, <3>1, <3>2
  <2> QED BY <2>1, <2>2, <2>3 DEF InOrderOn
<1>8. NotTwice(t, Flip(e), given)
  <2> SUFFICES ASSUME NEW i \in 1..Len(t), NEW k \in 1..Len(given), Carries(t[i]),
                      given[k] = Number(t[i]), NEW m \in 1..i
               PROVE  HasCount(t[m], e)
    BY Flips DEF NotTwice
  <2>1. i + 1 \in 1..Len(w) /\ t[i] = w[i + 1] /\ m \in 1..Len(t) /\ t[m] = w[m + 1]
        /\ m + 1 \in 1..(i + 1) /\ 1 \in 1..Len(w) /\ 1 <= i + 1
    BY <1>3
  <2>2. ASSUME k \in 1..Len(g) PROVE FALSE
    BY <1>2, <1>5, <2>1, <2>2
  <2>3. given[k] = new
    BY <1>5, <2>2
  <2>4. HasCount(w[m + 1], w[1].fcb)
    BY <2>1, <2>3 DEF OrderOn, Together, new
  <2> QED BY <2>1, <2>4
<1>9. ASSUME NEW fcb \in BOOLEAN, Repeatable(w, e, g, n, fcb)
      PROVE  Repeatable(t, Flip(e), given, n, fcb)
  <2>1. Repeatable(t, Flip(e), g, n, fcb) /\ \A k \in 1..Len(g) : g[k] # n
    BY <1>1, <1>2, <1>9
  <2>2. ASSUME new = n PROVE Flip(e) = fcb /\ \A m \in 1..Len(t) : HasCount(t[m], Flip(fcb))
    <3>1. \A m \in 1..Len(w) : HasCount(w[m], Flip(fcb))
      BY <1>3, <1>9, <2>2 DEF Repeatable, new
    <3>2. e = Flip(fcb)
      <4>1. 1 \in 1..Len(w)
        BY <1>3
      <4> QED BY <3>1, <4>1 DEF HasCount, Carries
    <3>3. \A m \in 1..Len(t) : HasCount(t[m], Flip(fcb))
      <4>1. \A m \in 1..Len(t) : m + 1 \in 1..Len(w)
        BY <1>3
      <4> QED BY <1>3, <3>1, <4>1
    <3> QED BY <3>2, <3>3, Flips
  <2>3. \A k \in 1..Len(given) :
          given[k] = n => Flip(e) = fcb /\ \A m \in 1..Len(t) : HasCount(t[m], Flip(fcb))
    <3> SUFFICES ASSUME NEW k \in 1..Len(given), given[k] = n PROVE new = n
      BY <2>2
    <3> QED BY <1>5, <2>1
  <2> QED BY <2>1, <2>3 DEF Repeatable
<1> QED BY <1>1, <1>6, <1>7, <1>8, <1>9 DEF OrderOn, t, given, new

(* The sender adds a frame. A wire with one more frame:                    *)
LEMMA Longer ==
  ASSUME NEW S, NEW w \in Seq(S), NEW f \in S
  PROVE  /\ Len(w) \in Nat /\ Len(Append(w, f)) = Len(w) + 1
         /\ \A i \in 1..Len(w) : Append(w, f)[i] = w[i] /\ i \in 1..Len(Append(w, f))
         /\ Append(w, f)[Len(w) + 1] = f
         /\ \A i \in 1..Len(Append(w, f)) : i \in 1..Len(w) \/ i = Len(w) + 1
OBVIOUS

(* an answer, or a request that carries no ASDU,                           *)
LEMMA ServiceKeepsOrder ==
  ASSUME NEW S, NEW w \in Seq(S), NEW f \in S, NEW e, NEW g \in Seq(Nat), NEW n \in Nat,
         OrderOn(w, e, g, n), ~ Carries(f)
  PROVE  /\ OrderOn(Append(w, f), e, g, n)
         /\ \A fcb : Repeatable(w, e, g, n, fcb) /\ HasCount(f, Flip(fcb))
                       => Repeatable(Append(w, f), e, g, n, fcb)
<1> DEFINE t == Append(w, f)
<1>1. /\ Len(w) \in Nat /\ Len(t) = Len(w) + 1 /\ t[Len(w) + 1] = f
      /\ \A i \in 1..Len(w) : t[i] = w[i]
      /\ \A i \in 1..Len(t) : i \in 1..Len(w) \/ i = Len(w) + 1
  BY Longer
<1> HIDE DEF t
<1>2. \A i \in 1..Len(t) : Carries(t[i]) => i \in 1..Len(w) /\ t[i] = w[i]
  BY <1>1
<1>3. InOrderOn(t, g, n)
  <2>1. InOrderOn(w, g, n)
    BY DEF OrderOn
  <2>2. \A i \in 1..Len(t) :
          Carries(t[i]) => Number(t[i]) \in 1..n /\ \A k \in 1..Len(g) : g[k] <= Number(t[i])
    BY <1>2, <2>1 DEF InOrderOn
  <2>3. \A i, j \in 1..Len(t) :
          i < j /\ Carries(t[i]) /\ Carries(t[j]) => Number(t[i]) <= Number(t[j])
    BY <1>2, <2>1 DEF InOrderOn
  <2> QED BY <2>2, <2>3 DEF InOrderOn
<1>4. Together(t)
  <2> SUFFICES ASSUME NEW i \in 1..Len(t), NEW j \in 1..Len(t), i <= j, Carries(t[i]),
                      Carries(t[j]), Number(t[i]) = Number(t[j]), NEW m \in i..j
               PROVE  HasCount(t[m], t[i].fcb)
    BY DEF Together
  <2>1. i \in 1..Len(w) /\ t[i] = w[i] /\ j \in 1..Len(w) /\ t[j] = w[j]
    BY <1>2
  <2>2. m \in 1..Len(w) /\ t[m] = w[m]
    BY <1>1, <2>1
  <2> QED BY <2>1, <2>2 DEF OrderOn, Together
<1>5. NotTwice(t, e, g)
  <2> SUFFICES ASSUME NEW i \in 1..Len(t), NEW k \in 1..Len(g), Carries(t[i]), g[k] = Number(t[i]),
                      NEW m \in 1..i
               PROVE  HasCount(t[m], Flip(e))
    BY DEF NotTwice
  <2>1. i \in 1..Len(w) /\ t[i] = w[i]
    BY <1>2
  <2>2. m \in 1..Len(w) /\ t[m] = w[m]
    BY <1>1, <2>1
  <2> QED BY <2>1, <2>2 DEF OrderOn, NotTwice
<1>6. ASSUME NEW fcb, Repeatable(w, e, g, n, fcb), HasCount(f, Flip(fcb))
      PROVE  Repeatable(t, e, g, n, fcb)
  <2>1. ASSUME NEW i \in 1..Len(t), Carries(t[i]), Number(t[i]) = n, NEW m \in i..Len(t)
        PROVE  HasCount(t[m], Flip(fcb))
    <3>1. i \in 1..Len(w) /\ t[i] = w[i] /\ (m \in i..Len(w) \/ m = Len(w) + 1)
          /\ (m \in i..Len(w) => m \in 1..Len(w))
      BY <1>1, <1>2, <2>1
    <3>2. CASE m \in i..Len(w)
      BY <1>1, <1>6, <2>1, <3>1, <3>2 DEF Repeatable
    <3>3. CASE m = Len(w) + 1
      BY <1>1, <1>6, <3>3
    <3> QED BY <3>1, <3>2, <3>3
  <2>2. ASSUME NEW k \in 1..Len(g), g[k] = n
        PROVE  e = fcb /\ \A m \in 1..Len(t) : HasCount(t[m], Flip(fcb))
    BY <1>1, <1>6, <2>2 DEF Repeatable
  <2> QED BY <2>1, <2>2 DEF Repeatable
<1> QED BY <1>3, <1>4, <1>5, <1>6 DEF OrderOn, t

(* the next ASDU, with the count bit of the primary link layer, which then *)
(* changes its own,                                                        *)
LEMMA NextKeepsOrder ==
  ASSUME NEW S, NEW w \in Seq(S), NEW f \in S, NEW e, NEW g \in Seq(Nat), NEW n \in Nat,
         OrderOn(w, e, g, n), Carries(f), Number(f) = n + 1, f.fcv, f.fcb \in BOOLEAN
  PROVE  /\ OrderOn(Append(w, f), e, g, n + 1)
         /\ Repeatable(Append(w, f), e, g, n + 1, Flip(f.fcb))
<1> DEFINE t == Append(w, f)
<1>1. /\ Len(w) \in Nat /\ Len(t) = Len(w) + 1 /\ t[Len(w) + 1] = f
      /\ \A i \in 1..Len(w) : t[i] = w[i]
      /\ \A i \in 1..Len(t) : i \in 1..Len(w) \/ i = Len(w) + 1
  BY Longer
<1> HIDE DEF t
<1>2. /\ \A i \in 1..Len(w) : Carries(w[i]) => Number(w[i]) \in 1..n
      /\ \A k \in 1..Len(g) : g[k] \in 1..n
      /\ InOrderOn(w, g, n) /\ Together(w) /\ NotTwice(w, e, g)
  BY DEF OrderOn, InOrderOn, GivenOnce
<1>3. InOrderOn(t, g, n + 1)
  <2>1. ASSUME NEW i \in 1..Len(t), Carries(t[i])
        PROVE  Number(t[i]) \in 1..(n + 1) /\ \A k \in 1..Len(g) : g[k] <= Number(t[i])
    <3>1. CASE i \in 1..Len(w)
      BY <1>1, <1>2, <2>1, <3>1 DEF InOrderOn
    <3>2. CASE i = Len(w) + 1
      BY <1>1, <1>2, <2>1, <3>2
    <3> QED BY <1>1, <3>1, <3>2
  <2>2. ASSUME NEW i \in 1..Len(t), NEW j \in 1..Len(t), i < j, Carries(t[i]), Carries(t[j])
        PROVE  Number(t[i]) <= Number(t[j])
    <3>1. i \in 1..Len(w)
      BY <1>1, <2>2
    <3>2. CASE j \in 1..Len(w)
      BY <1>1, <1>2, <2>2, <3>1, <3>2 DEF InOrderOn
    <3>3. CASE j = Len(w) + 1
      <4>1. Number(t[i]) \in 1..n
        BY <1>1, <1>2, <2>2, <3>1
      <4>2. Number(t[j]) = n + 1
        BY <1>1, <3>3
      <4> QED BY <4>1, <4>2
    <3> QED BY <1>1, <3>2, <3>3
  <2> QED BY <2>1, <2>2 DEF InOrderOn
<1>4. ASSUME NEW i \in 1..Len(t), Carries(t[i]), Number(t[i]) = n + 1
      PROVE  i = Len(w) + 1
  BY <1>1, <1>2, <1>4
<1>5. Together(t)
  <2> SUFFICES ASSUME NEW i \in 1..Len(t), NEW j \in 1..Len(t), i <= j, Carries(t[i]),
                      Carries(t[j]), Number(t[i]) = Number(t[j]), NEW m \in i..j
               PROVE  HasCount(t[m], t[i].fcb)
    BY DEF Together
  <2>1. CASE j \in 1..Len(w)
    <3>1. i \in 1..Len(w) /\ m \in 1..Len(w)
      BY <1>1, <2>1
    <3> QED BY <1>1, <1>2, <2>1, <3>1 DEF Together
  <2>2. CASE j = Len(w) + 1
    <3>1. i = Len(w) + 1
      BY <1>1, <1>4, <2>2
    <3>2. m = Len(w) + 1
      BY <1>1, <2>2, <3>1
    <3> QED BY <1>1, <3>1, <3>2 DEF HasCount
  <2> QED BY <1>1, <2>1, <2>2
<1>6. NotTwice(t, e, g)
  <2> SUFFICES ASSUME NEW i \in 1..Len(t), NEW k \in 1..Len(g), Carries(t[i]), g[k] = Number(t[i]),
                      NEW m \in 1..i
               PROVE  HasCount(t[m], Flip(e))
    BY DEF NotTwice
  <2>1. i # Len(w) + 1
    <3>1. Number(t[i]) \in 1..n
      BY <1>2
    <3> QED BY <1>1, <3>1
  <2>2. i \in 1..Len(w) /\ m \in 1..Len(w)
    BY <1>1, <2>1
  <2> QED BY <1>1, <1>2, <2>2 DEF NotTwice
<1>7. GivenOnce(g, n + 1)
  BY <1>2 DEF OrderOn, GivenOnce
<1>8. Repeatable(t, e, g, n + 1, Flip(f.fcb))
  <2>1. ASSUME NEW i \in 1..Len(t), Carries(t[i]), Number(t[i]) = n + 1, NEW m \in i..Len(t)
        PROVE  HasCount(t[m], Flip(Flip(f.fcb)))
    <3>1. m = Len(w) + 1
      BY <1>1, <1>4, <2>1
    <3> QED BY <1>1, <3>1, Flips DEF HasCount
  <2>2. \A k \in 1..Len(g) : g[k] # n + 1
    BY <1>2
  <2> QED BY <2>1, <2>2 DEF Repeatable
<1> QED BY <1>3, <1>5, <1>6, <1>7, <1>8 DEF OrderOn, t

(* the last ASDU again.                                                    *)
LEMMA RepeatKeepsOrder ==
  ASSUME NEW S, NEW w \in Seq(S), NEW f \in S, NEW e \in BOOLEAN, NEW g \in Seq(Nat),
         NEW n \in Nat \ {0}, NEW fcb \in BOOLEAN, OrderOn(w, e, g, n),
         Repeatable(w, e, g, n, fcb), Carries(f), Number(f) = n, f.fcv, f.fcb = Flip(fcb)
  PROVE  OrderOn(Append(w, f), e, g, n) /\ Repeatable(Append(w, f), e, g, n, fcb)
<1> DEFINE t == Append(w, f)
<1>1. /\ Len(w) \in Nat /\ Len(t) = Len(w) + 1 /\ t[Len(w) + 1] = f
      /\ \A i \in 1..Len(w) : t[i] = w[i]
      /\ \A i \in 1..Len(t) : i \in 1..Len(w) \/ i = Len(w) + 1
  BY Longer
<1> HIDE DEF t
<1>2. /\ \A i \in 1..Len(w) : Carries(w[i]) => Number(w[i]) \in 1..n
      /\ \A k \in 1..Len(g) : g[k] \in 1..n
      /\ InOrderOn(w, g, n) /\ Together(w) /\ NotTwice(w, e, g)
  BY DEF OrderOn, InOrderOn, GivenOnce
<1>3. HasCount(f, Flip(fcb))
  BY DEF HasCount
<1>4. InOrderOn(t, g, n)
  <2>1. ASSUME NEW i \in 1..Len(t), Carries(t[i])
        PROVE  Number(t[i]) \in 1..n /\ \A k \in 1..Len(g) : g[k] <= Number(t[i])
    <3>1. CASE i \in 1..Len(w)
      BY <1>1, <1>2, <2>1, <3>1 DEF InOrderOn
    <3>2. CASE i = Len(w) + 1
      BY <1>1, <1>2, <2>1, <3>2
    <3> QED BY <1>1, <3>1, <3>2
  <2>2. ASSUME NEW i \in 1..Len(t), NEW j \in 1..Len(t), i < j, Carries(t[i]), Carries(t[j])
        PROVE  Number(t[i]) <= Number(t[j])
    <3>1. i \in 1..Len(w)
      BY <1>1, <2>2
    <3>2. CASE j \in 1..Len(w)
      BY <1>1, <1>2, <2>2, <3>1, <3>2 DEF InOrderOn
    <3>3. CASE j = Len(w) + 1
      <4>1. Number(t[i]) \in 1..n
        BY <1>1, <1>2, <2>2, <3>1
      <4>2. Number(t[j]) = n
        BY <1>1, <3>3
      <4> QED BY <4>1, <4>2
    <3> QED BY <1>1, <3>2, <3>3
  <2> QED BY <2>1, <2>2 DEF InOrderOn
<1>5. ASSUME NEW i \in 1..Len(t), Carries(t[i]), Number(t[i]) = n, NEW m \in i..Len(t)
      PROVE  HasCount(t[m], Flip(fcb))
  <2>1. CASE m = Len(w) + 1
    BY <1>1, <1>3, <2>1
  <2>2. CASE m # Len(w) + 1
    <3>1. i \in 1..Len(w) /\ m \in i..Len(w) /\ m \in 1..Len(w)
      BY <1>1, <2>2
    <3> QED BY <1>1, <1>5, <3>1 DEF Repeatable
  <2> QED BY <2>1, <2>2
<1>6. Together(t)
  <2> SUFFICES ASSUME NEW i \in 1..Len(t), NEW j \in 1..Len(t), i <= j, Carries(t[i]),
                      Carries(t[j]), Number(t[i]) = Number(t[j]), NEW m \in i..j
               PROVE  HasCount(t[m], t[i].fcb)
    BY DEF Together
  <2>1. CASE j \in 1..Len(w)
    <3>1. i \in 1..Len(w) /\ m \in 1..Len(w)
      BY <1>1, <2>1
    <3> QED BY <1>1, <1>2, <2>1, <3>1 DEF Together
  <2>2. CASE j = Len(w) + 1
    <3>1. Number(t[i]) = n /\ m \in i..Len(t) /\ i \in i..Len(t)
      BY <1>1, <2>2
    <3>2. HasCount(t[m], Flip(fcb)) /\ HasCount(t[i], Flip(fcb))
      BY <1>5, <3>1
    <3> QED BY <3>2 DEF HasCount, Carries
  <2> QED BY <1>1, <2>1, <2>2
<1>7. ASSUME NEW k \in 1..Len(g), g[k] = n
      PROVE  e = fcb /\ \A m \in 1..Len(t) : HasCount(t[m], Flip(fcb))
  BY <1>1, <1>3, <1>7 DEF Repeatable
<1>8. NotTwice(t, e, g)
  <2> SUFFICES ASSUME NEW i \in 1..Len(t), NEW k \in 1..Len(g), Carries(t[i]), g[k] = Number(t[i]),
                      NEW m \in 1..i
               PROVE  HasCount(t[m], Flip(e))
    BY DEF NotTwice
  <2>1. CASE i \in 1..Len(w)
    <3>1. m \in 1..Len(w)
      BY <1>1, <2>1
    <3> QED BY <1>1, <1>2, <2>1, <3>1 DEF NotTwice
  <2>2. CASE i = Len(w) + 1
    <3>1. g[k] = n /\ m \in 1..Len(t)
      BY <1>1, <2>2
    <3> QED BY <1>7, <3>1
  <2> QED BY <1>1, <2>1, <2>2
<1> QED BY <1>4, <1>5, <1>6, <1>7, <1>8 DEF OrderOn, Repeatable, t

-----------------------------------------------------------------------------
(* The ASDUs of one station on their way to x.                             *)
OrderOK(x) ==
  LET p == primary[Other(x)]
      n == sent[Other(x)]
  IN  /\ OrderOn(wire[x], expectedFcb[x], got[x], n)
      /\ p.primaryState = "sendConfirm" /\ p.lastSendAsdu # NoAsdu
           => /\ p.lastSendAsdu.number = n /\ n > 0
              /\ Repeatable(wire[x], expectedFcb[x], got[x], n, p.nextFcb)

PairOrderOK == PairTypeOK /\ \A x \in Stations : OrderOK(x)

LEMMA InitPairOrder == PairInit => PairOrderOK
<1> SUFFICES ASSUME PairInit PROVE PairOrderOK
  OBVIOUS
<1>1. PairTypeOK
  BY InitPairType
<1>2. ASSUME NEW x \in Stations PROVE OrderOK(x)
  <2>1. /\ wire[x] = << >> /\ got[x] = << >> /\ sent[Other(x)] = 0
        /\ primary[Other(x)].primaryState = "idle"
    BY Others DEF PairInit, FreshPrimary
  <2>2. OrderOn(<< >>, expectedFcb[x], << >>, 0)
    BY DEF OrderOn, InOrderOn, Together, NotTwice, GivenOnce, Increasing
  <2> QED BY <2>1, <2>2 DEF OrderOK
<1> QED BY <1>1, <1>2 DEF PairOrderOK

(* What station x receives.                                                *)
LEMMA ReceivesKeepsOrder ==
  ASSUME PairTypeOK, NEW x \in Stations, OrderOK(x), Receives(x), Alone(x)
  PROVE  OrderOK(x)'
<1> DEFINE w == wire[x]
           e == expectedFcb[x]
           g == got[x]
           n == sent[Other(x)]
           p == primary[Other(x)]
<1>1. /\ w \in Seq(FrameTo(x)) /\ e \in BOOLEAN /\ g \in Seq(Nat) /\ n \in Nat
      /\ p.nextFcb \in BOOLEAN
  BY StationIs DEF Primary
<1>2. sent'[Other(x)] = n /\ primary'[Other(x)] = p
  BY DEF Alone
<1>3. /\ OrderOn(w, e, g, n)
      /\ p.primaryState = "sendConfirm" /\ p.lastSendAsdu # NoAsdu
           => p.lastSendAsdu.number = n /\ n > 0 /\ Repeatable(w, e, g, n, p.nextFcb)
  BY DEF OrderOK
<1>4. w # << >> => Head(w) = w[1] /\ w[1] \in FrameTo(x)
  <2> HIDE DEF FrameTo
  <2> QED BY <1>1
<1> SUFFICES /\ OrderOn(wire'[x], expectedFcb'[x], got'[x], n)
             /\ Repeatable(w, e, g, n, p.nextFcb)
                  => Repeatable(wire'[x], expectedFcb'[x], got'[x], n, p.nextFcb)
  BY <1>2, <1>3 DEF OrderOK
<1> HIDE DEF FrameTo, w, e, g, n, p
<1>5. CASE wire'[x] = w /\ expectedFcb'[x] = e /\ got'[x] = g
  BY <1>3, <1>5
<1>6. CASE wire'[x] = Tail(w) /\ w # << >> /\ expectedFcb'[x] = e /\ got'[x] = g
  BY <1>1, <1>3, <1>6, DroppedKeepsOrder
<1>7. CASE /\ wire'[x] = Tail(w) /\ w # << >> /\ w[1].prm /\ got'[x] = g
           /\ w[1].fcv => w[1].fcb = e
  BY <1>1, <1>3, <1>7, AcceptedKeepsOrder
<1>8. CASE /\ wire'[x] = Tail(w) /\ w # << >> /\ w[1].prm /\ w[1].fc = "USER_DATA_CONFIRMED"
           /\ w[1].fcb = e /\ expectedFcb'[x] = ~ e
           /\ got'[x] = Append(g, w[1].asdu.number)
  <2>1. Carries(w[1]) /\ Number(w[1]) = w[1].asdu.number
    BY <1>8 DEF Carries, Number
  <2>2. expectedFcb'[x] = Flip(e) /\ got'[x] = Append(g, Number(w[1]))
    BY <1>8, <2>1 DEF Flip
  <2> QED BY <1>1, <1>3, <1>8, <2>1, <2>2, GivenKeepsOrder
<1> QED BY <1>4, <1>5, <1>6, <1>7, <1>8 DEF Receives, Drops, w, e, g

(* What it sends.                                                          *)
LEMMA TransmitsKeepsOrder ==
  ASSUME PairTypeOK, NEW x \in Stations, OrderOK(Other(x)), Transmits(x), Alone(x)
  PROVE  OrderOK(Other(x))'
<1> DEFINE y == Other(x)
           w == wire[y]
           e == expectedFcb[y]
           g == got[y]
           n == sent[x]
           p == primary[x]
           q == primary'[x]
<1>1. /\ w \in Seq(FrameTo(y)) /\ e \in BOOLEAN /\ g \in Seq(Nat) /\ n \in Nat
      /\ p.nextFcb \in BOOLEAN /\ Other(y) = x
  BY StationIs DEF PairTypeOK, StationOK, Primary
<1>2. expectedFcb'[y] = e /\ got'[y] = g
  BY DEF Alone
<1>3. /\ OrderOn(w, e, g, n)
      /\ p.primaryState = "sendConfirm" /\ p.lastSendAsdu # NoAsdu
           => p.lastSendAsdu.number = n /\ n > 0 /\ Repeatable(w, e, g, n, p.nextFcb)
  BY <1>1 DEF OrderOK
<1>4. \A f \in FrameTo(y) : Carries(f) => f.fcv /\ f.fcb \in BOOLEAN
  BY DEF FrameTo, Carries
<1> DEFINE Kept == /\ OrderOn(wire'[y], e, g, sent'[x])
                   /\ q.primaryState = "sendConfirm" /\ q.lastSendAsdu # NoAsdu
                        => /\ q.lastSendAsdu.number = sent'[x] /\ sent'[x] > 0
                           /\ Repeatable(wire'[y], e, g, sent'[x], q.nextFcb)
<1> SUFFICES Kept
  BY <1>1, <1>2 DEF OrderOK
<1>5. CASE /\ SameExchange(x) \/ NoExchange(x)
           /\ wire'[y] = w \/ \E f \in FrameTo(y) : ~ f.prm /\ wire'[y] = Append(w, f)
           /\ sent'[x] = n
  <2>1. q.primaryState = "sendConfirm"
          => /\ p.primaryState = "sendConfirm"
             /\ q.nextFcb = p.nextFcb /\ q.lastSendAsdu = p.lastSendAsdu
    BY <1>5 DEF SameExchange, NoExchange
  <2> HIDE DEF FrameTo, w, e, g, n, p, q, y
  <2>2. CASE wire'[y] = w
    BY <1>3, <1>5, <2>1, <2>2
  <2>3. ASSUME NEW f \in FrameTo(y), ~ f.prm, wire'[y] = Append(w, f)
        PROVE  Kept
    <3>1. ~ Carries(f) /\ \A b : HasCount(f, b)
      BY <2>3 DEF Carries, HasCount
    <3>2. /\ OrderOn(Append(w, f), e, g, n)
          /\ \A fcb : Repeatable(w, e, g, n, fcb) => Repeatable(Append(w, f), e, g, n, fcb)
      BY <1>1, <1>3, <3>1, ServiceKeepsOrder
    <3> QED BY <1>3, <1>5, <2>1, <2>3, <3>2
  <2> QED BY <1>5, <2>2, <2>3
<1>6. ASSUME NEW f \in FrameTo(y), f.prm, ~ Carries(f), wire'[y] = Append(w, f), sent'[x] = n,
             ~ (q.primaryState = "sendConfirm" /\ q.lastSendAsdu # NoAsdu)
      PROVE  Kept
  <2> HIDE DEF FrameTo, w, e, g, n, p, q, y
  <2>1. OrderOn(Append(w, f), e, g, n)
    BY <1>1, <1>3, <1>6, ServiceKeepsOrder
  <2> QED BY <1>6, <2>1
<1>7. ASSUME NEW f \in FrameTo(y), Carries(f), f.fcb = p.nextFcb, f.asdu = q.lastSendAsdu,
             wire'[y] = Append(w, f), sent'[x] = n + 1, q.nextFcb = ~ p.nextFcb,
             q.lastSendAsdu.number = sent'[x]
      PROVE  Kept
  <2>1. Number(f) = n + 1 /\ f.fcv /\ f.fcb \in BOOLEAN /\ q.nextFcb = Flip(f.fcb)
    BY <1>1, <1>4, <1>7 DEF Number, Flip
  <2> HIDE DEF FrameTo, w, e, g, n, p, q, y
  <2>2. OrderOn(Append(w, f), e, g, n + 1) /\ Repeatable(Append(w, f), e, g, n + 1, q.nextFcb)
    BY <1>1, <1>3, <1>7, <2>1, NextKeepsOrder
  <2> QED BY <1>1, <1>7, <2>2
<1>8. ASSUME NEW f \in FrameTo(y), f.prm, f.fcv, f.fcb = ~ p.nextFcb, wire'[y] = Append(w, f),
             Carries(f) => f.asdu = p.lastSendAsdu /\ p.lastSendAsdu # NoAsdu,
             sent'[x] = n, p.primaryState = "sendConfirm", SameExchange(x)
      PROVE  Kept
  <2>1. q.nextFcb = p.nextFcb /\ q.lastSendAsdu = p.lastSendAsdu /\ f.fcb = Flip(p.nextFcb)
    BY <1>8 DEF SameExchange, Flip
  <2> HIDE DEF FrameTo, w, e, g, n, p, q, y
  <2>2. CASE Carries(f)
    <3>1. n \in Nat \ {0} /\ Number(f) = n /\ Repeatable(w, e, g, n, p.nextFcb)
      BY <1>1, <1>3, <1>8, <2>2 DEF Number
    <3>2. OrderOn(Append(w, f), e, g, n) /\ Repeatable(Append(w, f), e, g, n, p.nextFcb)
      BY <1>1, <1>3, <1>8, <2>1, <2>2, <3>1, RepeatKeepsOrder
    <3> QED BY <1>3, <1>8, <2>1, <3>2
  <2>3. CASE ~ Carries(f)
    <3>1. HasCount(f, Flip(p.nextFcb))
      BY <1>8, <2>1 DEF HasCount
    <3>2. /\ OrderOn(Append(w, f), e, g, n)
          /\ Repeatable(w, e, g, n, p.nextFcb) => Repeatable(Append(w, f), e, g, n, p.nextFcb)
      BY <1>1, <1>3, <2>3, <3>1, ServiceKeepsOrder
    <3> QED BY <1>3, <1>8, <2>1, <3>2
  <2> QED BY <2>2, <2>3
<1> HIDE DEF Kept, FrameTo
<1>9. CASE NoExchange(x) /\ (\E f \in FrameTo(Other(x)) : f.prm /\ ~ f.fcv /\ Adds(x, f))
             /\ sent'[x] = sent[x]
  BY <1>4, <1>6, <1>9 DEF NoExchange, Adds
<1>10. CASE /\ primary'[x].primaryState = "sendConfirm" /\ primary'[x].lastSendAsdu = NoAsdu
            /\ \E f \in FrameTo(Other(x)) : f.prm /\ f.fc = "TEST_FUNCTION" /\ Adds(x, f)
            /\ sent'[x] = sent[x]
  BY <1>6, <1>10 DEF Carries, Adds
<1>11. CASE /\ primary'[x].nextFcb = ~ primary[x].nextFcb
            /\ primary'[x].lastSendAsdu.number = sent'[x]
            /\ \E f \in FrameTo(Other(x)) :
                 /\ f.prm /\ f.fc = "USER_DATA_CONFIRMED" /\ f.fcb = primary[x].nextFcb
                 /\ f.asdu = primary'[x].lastSendAsdu /\ Adds(x, f)
            /\ sent'[x] = sent[x] + 1
  BY <1>7, <1>11 DEF Carries, Adds
<1>12. CASE /\ primary[x].primaryState = "sendConfirm" /\ SameExchange(x)
            /\ \E f \in FrameTo(Other(x)) :
                 /\ f.prm /\ f.fcv /\ f.fcb = ~ primary[x].nextFcb /\ Adds(x, f)
                 /\ f.fc = "USER_DATA_CONFIRMED" =>
                      f.asdu = primary[x].lastSendAsdu /\ primary[x].lastSendAsdu # NoAsdu
            /\ sent'[x] = sent[x]
  BY <1>8, <1>12 DEF Carries, Adds
<1>13. CASE /\ SameExchange(x) \/ NoExchange(x)
            /\ \/ wire'[Other(x)] = wire[Other(x)]
               \/ \E f \in FrameTo(Other(x)) : ~ f.prm /\ Adds(x, f)
            /\ sent'[x] = sent[x]
  BY <1>5, <1>13 DEF Adds
<1> QED BY <1>9, <1>10, <1>11, <1>12, <1>13 DEF Transmits

(* A step of either station, in either direction.                          *)
LEMMA PairOrderStep ==
  ASSUME PairOrderOK, NEW x \in Stations, StepOf(x)
  PROVE  PairOrderOK'
<1>1. OrderOK(x)' /\ OrderOK(Other(x))'
  BY Others, ReceivesKeepsOrder, TransmitsKeepsOrder DEF PairOrderOK, StepOf
<1>2. \A z \in Stations : z = x \/ z = Other(x)
  BY Others
<1> QED BY <1>1, <1>2 DEF PairOrderOK, StepOf

-----------------------------------------------------------------------------
(* The invariant of the balanced mode. The counters of both modes number   *)
(* the calls and count the faults.                                         *)
CallsOK == messages \in Nat /\ events \in Nat /\ tests \in Nat /\ faults \in Nat
           /\ late \in BOOLEAN
BalancedOK == CallsOK /\ PairOrderOK

LEMMA InitBalanced == Init => BalancedOK
<1>1. ASSUME Init PROVE CallsOK
  <2>1. late = FALSE
    BY <1>1 DEF Init, PairInit, BoundsInit
  <2>2. late \in BOOLEAN
    BY <2>1
  <2> QED BY <1>1, <2>2 DEF Init, PairInit, BoundsInit, CallsOK
<1> QED BY <1>1, InitPairOrder DEF Init, BalancedOK

(* Every call and every fault is counted, in either mode.                  *)
LEMMA CallsStep ==
  ASSUME CallsOK, [Next]_vars
  PROVE  CallsOK' /\ tests <= tests' /\ faults <= faults' /\ (late => late')
<1> DEFINE Count == /\ messages' \in {messages, messages + 1} /\ events' \in {events, events + 1}
                    /\ tests' \in {tests, tests + 1} /\ faults' \in {faults, faults + 1}
                    /\ late' = late \/ late' = TRUE
<1> SUFFICES Count
  <2>1. ASSUME Count PROVE late' \in BOOLEAN /\ (late => late')
    <3>1. CASE late' = TRUE
      BY <3>1
    <3>2. CASE late' = late
      <4>1. late \in BOOLEAN
        BY DEF CallsOK
      <4> QED BY <3>2, <4>1
    <3> QED BY <2>1, <3>1, <3>2
  <2>2. ASSUME Count
        PROVE  /\ messages' \in Nat /\ events' \in Nat /\ tests' \in Nat /\ faults' \in Nat
               /\ tests <= tests' /\ faults <= faults'
    BY <2>2 DEF CallsOK
  <2> QED BY <2>1, <2>2 DEF CallsOK
<1>1. UNCHANGED bounds \/ NewMessage \/ NewEvent \/ NewTest \/ LineFault => Count
  BY DEF bounds, NewMessage, NewEvent, NewTest, NewCall, Fault, LineFault
<1>2. \A silent : AckTimeout(silent) => Count
  BY <1>1 DEF AckTimeout, Fault
<1> HIDE DEF Count
<1>3. CASE UNCHANGED vars
  BY <1>1, <1>3 DEF vars
<1>4. CASE BusNext
  <2>1. CASE HandleMessage
    BY <1>1, <2>1 DEF HandleMessage
  <2>2. CASE RunStateMachine
    BY <1>1, <1>2, <2>2 DEF RunStateMachine, Begin, ResetRemoteLink, ResetAnswered,
         SendTestFunction, SendUserData, RequestData, Expire, Pass, RequestStatus, ResetTimeout,
         Repeat, GiveUp
  <2>3. CASE LoseFrame
    BY <1>1, <2>3 DEF LoseFrame
  <2>4. ASSUME NEW s \in Slaves, SlaveStep(s) \/ RefuseBusy(s) \/ Poll(s) PROVE Count
    BY <1>1, <2>4 DEF SlaveStep, RefuseBusy, Poll, RejectRepeated, AnswerService, AnswerRequest,
         HandleUserData, Accepted
  <2>5. ASSUME NEW s \in Acting, EnqueueUserData(s) \/ RequestTest(s) PROVE Count
    BY <1>1, <2>5 DEF EnqueueUserData, RequestTest
  <2>6. ASSUME NEW s \in Acting, NEW kind \in Commands, SendASDU(s, kind) PROVE Count
    BY <1>1, <2>6 DEF SendASDU
  <2> QED BY <1>4, <2>1, <2>2, <2>3, <2>4, <2>5, <2>6 DEF BusNext
<1>5. ASSUME NEW x \in Stations,
             \/ ReadsFrame(x) \/ RefuseLinkService(x) \/ RunLink(x)
             \/ EnqueueASDU(x) \/ AskForTest(x) \/ LoseFrameTo(x)
      PROVE  Count
  <2>1. CASE ReadsFrame(x)
    BY <1>1, <2>1 DEF ReadsFrame, IgnoreRequest, AnswerLinkService, ReceiveUserData, ReadAnswer,
         AcceptRequest
  <2>2. CASE RunLink(x)
    BY <1>1, <1>2, <2>2 DEF RunLink, BeginLink, ResetLink, SendTest, SendNextAsdu, ExpireAt, Wait,
         AskStatus, ResetExpired, RepeatFrame, NotConfirmed
  <2>3. CASE RefuseLinkService(x) \/ LoseFrameTo(x)
    BY <1>1, <2>3 DEF RefuseLinkService, LoseFrameTo
  <2>4. CASE EnqueueASDU(x) \/ AskForTest(x)
    BY <1>1, <2>4 DEF EnqueueASDU, AskForTest
  <2> QED BY <1>5, <2>1, <2>2, <2>3, <2>4
<1> QED BY <1>3, <1>4, <1>5 DEF Next, InUnbalanced, InBalanced, PairNext

LEMMA BalancedStep == ASSUME BalancedOK, [Next]_vars PROVE BalancedOK'
<1>1. CallsOK'
  BY CallsStep DEF BalancedOK
<1>2. CASE UNCHANGED pairState
  <2>1. UNCHANGED <<primary, expectedFcb, queue1, queue2, wire, sent, got, confirmed>>
    BY <1>2 DEF pairState, stationQueues, pairHistory
  <2>2. PairTypeOK'
    BY <2>1 DEF BalancedOK, PairOrderOK, PairTypeOK, StationOK
  <2>3. \A x \in Stations : OrderOK(x)'
    BY <2>1 DEF BalancedOK, PairOrderOK, OrderOK
  <2> QED BY <1>1, <2>2, <2>3 DEF BalancedOK, PairOrderOK
<1>3. CASE PairNext
  <2>1. \E x \in Stations : StepOf(x)
    BY <1>3, StepsAre DEF BalancedOK, PairOrderOK, CallsOK
  <2>2. PairOrderOK'
    BY <2>1, PairOrderStep DEF BalancedOK
  <2> QED BY <1>1, <2>2 DEF BalancedOK
<1> QED BY <1>2, <1>3 DEF Next, InUnbalanced, InBalanced, vars

(* In balanced mode the ASDUs of a station arrive at most once and in the  *)
(* order in which they were taken from its queues, for any size of the     *)
(* queues, any number of repeats, calls and faults, late answers included. *)
THEOREM OrderedOnceHolds == Spec => []InOrderOnce
<1>1. BalancedOK => InOrderOnce
  BY DEF BalancedOK, PairOrderOK, OrderOK, OrderOn, GivenOnce, InOrderOnce
<1> QED BY <1>1, InitBalanced, BalancedStep, PTL DEF Spec

-----------------------------------------------------------------------------
(* A confirmation is one of the ASDU it is taken for. While no answer comes*)
(* late, at most one frame on the wires belongs to the exchange a primary  *)
(* link layer has begun: p is that link layer, u what is on the way from it*)
(* and v on the way to it, and given are the ASDUs the other was given.    *)
Given(given, number) == \E k \in 1..Len(given) : given[k] = number

(* As no test is asked for, a test is sent when no ASDU waits for its      *)
(* confirmation.                                                           *)
TestFits(p) ==
  p.testFunction => \/ p.primaryState \in {"idle", "busy"}
                    \/ p.primaryState = "sendConfirm" /\ p.lastSendAsdu = NoAsdu

RequestFits(f, p) ==
  /\ f.fc = "USER_DATA_CONFIRMED" => p.primaryState = "sendConfirm" /\ p.lastSendAsdu = f.asdu
  /\ f.fc = "TEST_FUNCTION" => p.primaryState = "sendConfirm" /\ p.lastSendAsdu = NoAsdu
  /\ f.fc = "RESET_REMOTE_LINK" => p.primaryState = "reset"
  /\ f.fc = "REQUEST_LINK_STATUS" => p.primaryState = "status" /\ p.waiting
AnswerFits(f, p, given) ==
  /\ f.fc = "STATUS_OF_LINK" => ~ f.dfc
  /\ p.primaryState \in {"reset", "sendConfirm"} \/ (p.primaryState = "status" /\ p.waiting)
  /\ f.fc = "ACK" /\ p.primaryState = "sendConfirm" /\ p.lastSendAsdu # NoAsdu
       => Given(given, p.lastSendAsdu.number)

OneFrame(u, v) ==
  /\ \A i, j \in 1..Len(u) : u[i].prm /\ u[j].prm => i = j
  /\ \A i, j \in 1..Len(v) : ~ v[i].prm /\ ~ v[j].prm => i = j
  /\ \A i \in 1..Len(u), j \in 1..Len(v) : ~ (u[i].prm /\ ~ v[j].prm)
NoFrame(u, v) ==
  (\A i \in 1..Len(u) : ~ u[i].prm) /\ (\A i \in 1..Len(v) : v[i].prm)

Fits(p, u, v, given) ==
  /\ TestFits(p) /\ OneFrame(u, v)
  /\ \A i \in 1..Len(u) : u[i].prm => RequestFits(u[i], p)
  /\ \A i \in 1..Len(v) : ~ v[i].prm => AnswerFits(v[i], p, given)

PairExchange(x) ==
  /\ Fits(primary[x], wire[Other(x)], wire[x], got[Other(x)])
  /\ \A n \in confirmed[x] : Given(got[Other(x)], n)
PairConfirmed == ~ late /\ tests = 0 => \A x \in Stations : PairExchange(x)

(* A frame leaves: when it was the one of the exchange, none is left.      *)
LEMMA RequestLeft ==
  ASSUME NEW S, NEW T, NEW p, NEW given, NEW u \in Seq(S), NEW v \in Seq(T),
         Fits(p, u, v, given), u # << >>
  PROVE  /\ Fits(p, Tail(u), v, given)
         /\ Head(u).prm => RequestFits(Head(u), p) /\ NoFrame(Tail(u), v)
<1> DEFINE t == Tail(u)
<1>1. /\ Len(u) \in Nat \ {0} /\ Head(u) = u[1] /\ 1 \in 1..Len(u)
      /\ \A i \in 1..Len(t) : t[i] = u[i + 1] /\ i + 1 \in 1..Len(u) /\ i + 1 # 1
      /\ \A i, j \in 1..Len(t) : i + 1 = j + 1 => i = j
  OBVIOUS
<1> HIDE DEF t
<1>2. OneFrame(t, v)
  BY <1>1 DEF Fits, OneFrame
<1>3. Head(u).prm => RequestFits(Head(u), p) /\ NoFrame(t, v)
  BY <1>1 DEF Fits, OneFrame, NoFrame
<1>4. \A i \in 1..Len(t) : t[i].prm => RequestFits(t[i], p)
  BY <1>1 DEF Fits
<1> QED BY <1>2, <1>3, <1>4 DEF Fits, t

LEMMA AnswerLeft ==
  ASSUME NEW S, NEW T, NEW p, NEW given, NEW u \in Seq(S), NEW v \in Seq(T),
         Fits(p, u, v, given), v # << >>
  PROVE  /\ Fits(p, u, Tail(v), given)
         /\ ~ Head(v).prm => AnswerFits(Head(v), p, given) /\ NoFrame(u, Tail(v))
<1> DEFINE t == Tail(v)
<1>1. /\ Len(v) \in Nat \ {0} /\ Head(v) = v[1] /\ 1 \in 1..Len(v)
      /\ \A i \in 1..Len(t) : t[i] = v[i + 1] /\ i + 1 \in 1..Len(v) /\ i + 1 # 1
      /\ \A i, j \in 1..Len(t) : i + 1 = j + 1 => i = j
  OBVIOUS
<1> HIDE DEF t
<1>2. OneFrame(u, t)
  BY <1>1 DEF Fits, OneFrame
<1>3. ~ Head(v).prm => AnswerFits(Head(v), p, given) /\ NoFrame(u, t)
  BY <1>1 DEF Fits, OneFrame, NoFrame
<1>4. \A i \in 1..Len(t) : ~ t[i].prm => AnswerFits(t[i], p, given)
  BY <1>1 DEF Fits
<1> QED BY <1>2, <1>3, <1>4 DEF Fits, t

(* A frame of the exchange of the other station is sent.                   *)
LEMMA OthersSent ==
  ASSUME NEW S, NEW T, NEW p, NEW given, NEW u \in Seq(S), NEW v \in Seq(T),
         Fits(p, u, v, given)
  PROVE  /\ \A a \in S : ~ a.prm => Fits(p, Append(u, a), v, given)
         /\ \A r \in T : r.prm => Fits(p, u, Append(v, r), given)
<1>1. ASSUME NEW a \in S, ~ a.prm PROVE Fits(p, Append(u, a), v, given)
  <2> DEFINE t == Append(u, a)
  <2>1. /\ Len(u) \in Nat /\ Len(t) = Len(u) + 1 /\ t[Len(u) + 1] = a
        /\ \A i \in 1..Len(u) : t[i] = u[i]
        /\ \A i \in 1..Len(t) : i \in 1..Len(u) \/ i = Len(u) + 1
    BY Longer
  <2> HIDE DEF t
  <2>2. OneFrame(t, v)
    BY <1>1, <2>1 DEF Fits, OneFrame
  <2>3. \A i \in 1..Len(t) : t[i].prm => RequestFits(t[i], p)
    BY <1>1, <2>1 DEF Fits
  <2> QED BY <2>2, <2>3 DEF Fits, t
<1>2. ASSUME NEW r \in T, r.prm PROVE Fits(p, u, Append(v, r), given)
  <2> DEFINE t == Append(v, r)
  <2>1. /\ Len(v) \in Nat /\ Len(t) = Len(v) + 1 /\ t[Len(v) + 1] = r
        /\ \A i \in 1..Len(v) : t[i] = v[i]
        /\ \A i \in 1..Len(t) : i \in 1..Len(v) \/ i = Len(v) + 1
    BY Longer
  <2> HIDE DEF t
  <2>2. OneFrame(u, t)
    BY <1>2, <2>1 DEF Fits, OneFrame
  <2>3. \A i \in 1..Len(t) : ~ t[i].prm => AnswerFits(t[i], p, given)
    BY <1>2, <2>1 DEF Fits
  <2> QED BY <2>2, <2>3 DEF Fits, t
<1> QED BY <1>1, <1>2

(* The link layer changes when no frame of its exchange is left, and sends *)
(* one; the other answers it.                                              *)
LEMMA FrameSent ==
  ASSUME NEW S, NEW T, NEW p, NEW given, NEW u \in Seq(S), NEW v \in Seq(T),
         NoFrame(u, v), TestFits(p)
  PROVE  /\ Fits(p, u, v, given)
         /\ \A f \in S : RequestFits(f, p) => Fits(p, Append(u, f), v, given)
         /\ \A f \in T : AnswerFits(f, p, given) => Fits(p, u, Append(v, f), given)
<1>1. OneFrame(u, v)
  BY DEF OneFrame, NoFrame
<1>2. ASSUME NEW f \in S, RequestFits(f, p) PROVE Fits(p, Append(u, f), v, given)
  <2> DEFINE t == Append(u, f)
  <2>1. /\ Len(u) \in Nat /\ Len(t) = Len(u) + 1 /\ t[Len(u) + 1] = f
        /\ \A i \in 1..Len(u) : t[i] = u[i]
        /\ \A i \in 1..Len(t) : i \in 1..Len(u) \/ i = Len(u) + 1
    BY Longer
  <2> HIDE DEF t
  <2>2. OneFrame(t, v)
    BY <2>1 DEF NoFrame, OneFrame
  <2>3. \A i \in 1..Len(t) : t[i].prm => RequestFits(t[i], p)
    BY <1>2, <2>1 DEF NoFrame
  <2> QED BY <2>2, <2>3 DEF Fits, NoFrame, t
<1>3. ASSUME NEW f \in T, AnswerFits(f, p, given) PROVE Fits(p, u, Append(v, f), given)
  <2> DEFINE t == Append(v, f)
  <2>1. /\ Len(v) \in Nat /\ Len(t) = Len(v) + 1 /\ t[Len(v) + 1] = f
        /\ \A i \in 1..Len(v) : t[i] = v[i]
        /\ \A i \in 1..Len(t) : i \in 1..Len(v) \/ i = Len(v) + 1
    BY Longer
  <2> HIDE DEF t
  <2>2. OneFrame(u, t)
    BY <2>1 DEF NoFrame, OneFrame
  <2>3. \A i \in 1..Len(t) : ~ t[i].prm => AnswerFits(t[i], p, given)
    BY <1>3, <2>1 DEF NoFrame
  <2> QED BY <2>2, <2>3 DEF Fits, NoFrame, t
<1> QED BY <1>1, <1>2, <1>3 DEF Fits, NoFrame

(* More is given to the other.                                             *)
LEMMA MoreGiven ==
  ASSUME NEW p, NEW u, NEW v, NEW given, NEW given2,
         \A n : Given(given, n) => Given(given2, n), Fits(p, u, v, given)
  PROVE  Fits(p, u, v, given2)
BY DEF Fits, AnswerFits

(* No frame is left of a link layer that waits for none, or in silence.    *)
LEMMA NoneLeft ==
  ASSUME PairTypeOK, NEW x \in Stations, PairExchange(x),
         \/ primary[x].primaryState \in {"idle", "available", "busy"}
         \/ primary[x].primaryState = "status" /\ ~ primary[x].waiting
         \/ ExchangeSilent(x)
  PROVE  NoFrame(wire[Other(x)], wire[x])
<1> DEFINE u == wire[Other(x)]
           v == wire[x]
<1>1. u \in Seq(FrameTo(Other(x))) /\ v \in Seq(FrameTo(x))
  BY StationIs
<1>2. \A i \in 1..Len(u) : u[i] \in FrameTo(Other(x))
  <2> HIDE DEF FrameTo, u
  <2> QED BY <1>1
<1>3. \A i \in 1..Len(u) : u[i].prm => u[i].fc \in LinkRequests
  BY <1>2 DEF FrameTo
<1>4. DOMAIN u = 1..Len(u) /\ DOMAIN v = 1..Len(v)
  <2> HIDE DEF FrameTo, u, v
  <2> QED BY <1>1
<1>5. CASE ExchangeSilent(x)
  BY <1>4, <1>5 DEF ExchangeSilent, HasFrame, NoFrame
<1>6. CASE \/ primary[x].primaryState \in {"idle", "available", "busy"}
           \/ primary[x].primaryState = "status" /\ ~ primary[x].waiting
  BY <1>3, <1>6 DEF PairExchange, Fits, NoFrame, RequestFits, AnswerFits, LinkRequests
<1> QED BY <1>5, <1>6

(* The number of an ASDU.                                                  *)
LEMMA AsduIs ==
  ASSUME NEW x \in Stations, NEW f \in FrameTo(x), f.prm, f.fc = "USER_DATA_CONFIRMED"
  PROVE  f.asdu.number \in Nat
<1>1. f.asdu \in [number : Nat, asdu : EntriesOf(Other(x))]
  BY DEF FrameTo, Asdus
<1> QED BY <1>1

(* What an answer makes of the link layer.                                 *)
LEMMA AnswerKeepsTest ==
  ASSUME NEW x \in Stations, NEW p \in Primary(x), NEW f \in FrameTo(x), ~ f.prm, TestFits(p)
  PROVE  /\ TestFits(AfterAnswer(p, f))
         /\ f.fc = "STATUS_OF_LINK" /\ ~ f.dfc /\ p.primaryState = "status"
              => AfterAnswer(p, f).primaryState = "reset"
<1> USE DEF Primary, TestFits
<1>1. f.fc \in LinkAnswers
  BY DEF FrameTo
<1>2. CASE f.dfc
  <2>1. AfterAnswer(p, f) = Busy(p)
    BY <1>2 DEF AfterAnswer
  <2>2. /\ Busy(p).testFunction = p.testFunction /\ Busy(p).lastSendAsdu = p.lastSendAsdu
        /\ Busy(p).primaryState = CASE p.primaryState \in {"status", "reset"} -> "status"
                                    [] p.primaryState \in {"sendConfirm", "busy"} -> "busy"
                                    [] OTHER -> p.primaryState
    BY DEF Busy
  <2> HIDE DEF Primary
  <2> QED BY <1>2, <2>1, <2>2
<1>3. CASE ~ f.dfc /\ f.fc = "ACK"
  <2>1. AfterAnswer(p, f) = AfterAck(p)
    BY <1>3 DEF AfterAnswer
  <2>2. CASE p.primaryState = "reset"
    <3>1. AfterAck(p) = NotWaiting(Available(p))
      BY <2>2 DEF AfterAck
    <3> QED BY <1>3, <2>1, <2>2, <3>1 DEF NotWaiting, Available
  <2>3. CASE p.primaryState = "sendConfirm"
    <3>1. AfterAck(p) = NotWaiting([Available(p) EXCEPT !.testFunction = FALSE])
      BY <2>3 DEF AfterAck
    <3>2. ~ AfterAck(p).testFunction
      BY <3>1 DEF NotWaiting, Available
    <3> QED BY <1>3, <2>1, <3>2
  <2>4. CASE p.primaryState \notin {"reset", "sendConfirm"}
    <3>1. AfterAck(p) = NotWaiting(p)
      BY <2>4 DEF AfterAck
    <3> QED BY <1>3, <2>1, <3>1 DEF NotWaiting
  <2> QED BY <2>2, <2>3, <2>4
<1>4. CASE ~ f.dfc /\ f.fc = "NACK"
  <2>1. AfterAnswer(p, f) = AfterNack(p)
    BY <1>4 DEF AfterAnswer
  <2> QED BY <1>4, <2>1 DEF AfterNack
<1>5. CASE ~ f.dfc /\ f.fc = "STATUS_OF_LINK"
  <2>1. AfterAnswer(p, f) = StatusOfLink(p)
    BY <1>5 DEF AfterAnswer
  <2> QED BY <2>1 DEF StatusOfLink, Illegal
<1>6. CASE ~ f.dfc /\ f.fc = "NOT_IMPLEMENTED"
  <2>1. AfterAnswer(p, f) = AfterNotImplemented(p)
    BY <1>6 DEF AfterAnswer
  <2>2. ~ AfterNotImplemented(p).testFunction
    BY DEF AfterNotImplemented, Available
  <2> QED BY <1>6, <2>1, <2>2
<1> QED BY <1>1, <1>2, <1>3, <1>4, <1>5, <1>6 DEF LinkAnswers

-----------------------------------------------------------------------------
(* The exchange of either station after a step of x.                       *)
BothExchanges(x) == PairExchange(x) /\ PairExchange(Other(x))

(* A request is ignored, or a frame lost.                                  *)
LEMMA DropExchange ==
  ASSUME PairTypeOK, NEW x \in Stations, BothExchanges(x), IgnoreRequest(x) \/ LoseFrameTo(x)
  PROVE  BothExchanges(x)'
<1> HIDE DEF FrameTo
<1>1. wire[x] # << >> /\ wire' = [wire EXCEPT ![x] = Tail(wire[x])]
  BY DEF IgnoreRequest, LoseFrameTo, Reads, Discarded
<1>2. UNCHANGED <<primary, got, confirmed>>
  BY DEF IgnoreRequest, LoseFrameTo, stationQueues, pairHistory
<1>3. /\ wire'[x] = Tail(wire[x]) /\ wire'[Other(x)] = wire[Other(x)]
      /\ wire[x] \in Seq(FrameTo(x)) /\ wire[Other(x)] \in Seq(FrameTo(Other(x)))
  BY <1>1, StationIs DEF PairTypeOK
<1>4. Other(Other(x)) = x
  BY Others
<1>5. /\ Fits(primary[x], wire[Other(x)], Tail(wire[x]), got[Other(x)])
      /\ Fits(primary[Other(x)], Tail(wire[x]), wire[Other(x)], got[x])
  BY <1>1, <1>3, <1>4, RequestLeft, AnswerLeft DEF BothExchanges, PairExchange
<1> QED BY <1>2, <1>3, <1>4, <1>5 DEF BothExchanges, PairExchange

(* A request is answered.                                                  *)
LEMMA AcceptExchange ==
  ASSUME PairTypeOK, NEW x \in Stations, BothExchanges(x),
         AnswerLinkService(x) \/ ReceiveUserData(x) \/ RefuseLinkService(x)
  PROVE  BothExchanges(x)'
<1> HIDE DEF FrameTo
<1> DEFINE y == Other(x)
           f == Head(wire[x])
           t == Tail(wire[x])
           p == primary[y]
<1>1. /\ wire[x] # << >> /\ f \in FrameTo(x) /\ f.prm /\ t \in Seq(FrameTo(x))
  <2>1. Reads(x, TRUE)
    BY DEF AnswerLinkService, ReceiveUserData, AcceptRequest, RefuseLinkService
  <2> QED BY <2>1, HeadIs
<1>2. y \in Stations /\ y # x /\ Other(y) = x
  BY Others
<1>3. UNCHANGED <<primary, confirmed>>
  BY DEF AnswerLinkService, ReceiveUserData, AcceptRequest, RefuseLinkService, pairHistory
<1>4. PICK a \in FrameTo(y) :
        /\ ~ a.prm /\ wire' = [Discarded(x) EXCEPT ![y] = Append(@, a)]
        /\ a.fc = "STATUS_OF_LINK" => ~ a.dfc
        /\ a.fc = "ACK" => f.fc # "REQUEST_LINK_STATUS"
  <2>1. ASSUME NEW fc \in LinkAnswers
        PROVE  LinkAnswer(fc) \in FrameTo(y) /\ ~ LinkAnswer(fc).prm /\ LinkAnswer(fc).fc = fc
               /\ ~ LinkAnswer(fc).dfc
    <3>1. LinkAnswer(fc) \in FrameTo(y)
      BY FramesAre
    <3> QED BY <3>1 DEF LinkAnswer
  <2>2. CASE AnswerLinkService(x)
    <3> DEFINE fc == IF f.fc = "REQUEST_LINK_STATUS" THEN "STATUS_OF_LINK" ELSE "ACK"
    <3>1. AnsweredWith(x, fc) /\ fc \in LinkAnswers
      BY <2>2 DEF AnswerLinkService, LinkAnswers
    <3>2. fc = "ACK" => f.fc # "REQUEST_LINK_STATUS"
      OBVIOUS
    <3> HIDE DEF fc, f
    <3> QED BY <2>1, <3>1, <3>2 DEF AnsweredWith
  <2>3. CASE ReceiveUserData(x)
    <3>1. AnsweredWith(x, "ACK") /\ "ACK" \in LinkAnswers /\ f.fc = "USER_DATA_CONFIRMED"
      BY <2>3 DEF ReceiveUserData, LinkAnswers
    <3> HIDE DEF f
    <3> QED BY <2>1, <3>1 DEF AnsweredWith
  <2>4. CASE RefuseLinkService(x)
    <3>1. PICK fc \in {"NACK", "NOT_IMPLEMENTED"}, dfc \in BOOLEAN :
            wire' = [Discarded(x) EXCEPT ![y] = Append(@, [LinkAnswer(fc) EXCEPT !.dfc = dfc])]
      BY <2>4 DEF RefuseLinkService
    <3> DEFINE a == [LinkAnswer(fc) EXCEPT !.dfc = dfc]
    <3>2. a \in FrameTo(y) /\ ~ a.prm
      <4>1. fc \in LinkAnswers
        BY DEF LinkAnswers
      <4> QED BY <4>1, FramesAre
    <3>3. a.fc = fc
      BY DEF LinkAnswer
    <3> HIDE DEF a, f
    <3> QED BY <3>1, <3>2, <3>3 DEF a
  <2> QED BY <2>2, <2>3, <2>4
<1> HIDE DEF f, t, p
<1>5. /\ wire'[x] = t /\ wire'[y] = Append(wire[y], a)
      /\ wire[x] \in Seq(FrameTo(x)) /\ wire[y] \in Seq(FrameTo(y))
  BY <1>2, <1>4, StationIs DEF PairTypeOK, Discarded, t
<1>6. /\ got'[y] = got[y]
      /\ \A n : Given(got[x], n) => Given(got'[x], n)
      /\ f.fc = "USER_DATA_CONFIRMED" /\ ~ RefuseLinkService(x) => Given(got'[x], f.asdu.number)
  <2>1. DOMAIN got = Stations /\ got[x] \in Seq(Nat)
    BY StationIs DEF PairTypeOK
  <2>2. CASE ReceiveUserData(x)
    <3> DEFINE n == f.asdu.number
    <3>1. got' = [got EXCEPT ![x] = Append(@, n)] /\ f.fc = "USER_DATA_CONFIRMED"
      BY <2>2 DEF ReceiveUserData, f
    <3>2. n \in Nat
      BY <1>1, <3>1, AsduIs
    <3> HIDE DEF n
    <3>3. got'[x] = Append(got[x], n) /\ got'[y] = got[y]
      BY <1>2, <2>1, <3>1
    <3>4. Given(Append(got[x], n), n) /\ \A m : Given(got[x], m) => Given(Append(got[x], n), m)
      <4> DEFINE g == got[x]
                 h == Append(g, n)
      <4>1. /\ Len(g) \in Nat /\ Len(h) = Len(g) + 1 /\ h[Len(g) + 1] = n
            /\ \A i \in 1..Len(g) : h[i] = g[i] /\ i \in 1..Len(h)
            /\ Len(g) + 1 \in 1..Len(h)
        <5>1. g \in Seq(Nat)
          BY <2>1
        <5> HIDE DEF g
        <5> QED BY <3>2, <5>1
      <4> HIDE DEF g, h
      <4>2. Given(h, n) /\ \A m : Given(g, m) => Given(h, m)
        BY <4>1 DEF Given
      <4> QED BY <4>2 DEF g, h
    <3> QED BY <3>3, <3>4 DEF n
  <2>3. CASE AnswerLinkService(x)
    BY <2>3 DEF AnswerLinkService, f
  <2>4. CASE RefuseLinkService(x)
    BY <2>4 DEF RefuseLinkService, pairHistory
  <2> QED BY <2>2, <2>3, <2>4
<1>7. /\ Fits(primary[x], wire[y], wire[x], got[y]) /\ Fits(p, wire[x], wire[y], got[x])
  BY <1>2 DEF BothExchanges, PairExchange, p
<1>8. Fits(p, t, wire[y], got[x]) /\ RequestFits(f, p) /\ NoFrame(t, wire[y])
  BY <1>1, <1>5, <1>7, RequestLeft DEF f, t
<1>9. AnswerFits(a, p, got'[x])
  <2>1. f.fc \in LinkRequests
    BY <1>1 DEF FrameTo
  <2>2. a.fc = "ACK" => ~ RefuseLinkService(x)
    <3>1. ASSUME RefuseLinkService(x)
          PROVE  a.fc \in {"NACK", "NOT_IMPLEMENTED"}
      <4>1. PICK fc \in {"NACK", "NOT_IMPLEMENTED"}, dfc \in BOOLEAN :
              wire' = [Discarded(x) EXCEPT ![y] = Append(@, [LinkAnswer(fc) EXCEPT !.dfc = dfc])]
        BY <3>1 DEF RefuseLinkService
      <4> DEFINE b == [LinkAnswer(fc) EXCEPT !.dfc = dfc]
      <4>2. b.fc = fc
        BY DEF LinkAnswer
      <4> HIDE DEF b
      <4>3. Append(wire[y], a) = Append(wire[y], b)
        BY <1>2, <1>4, <4>1, StationIs DEF PairTypeOK, Discarded, b
      <4>4. a = b
        BY <4>3, <1>5
      <4> QED BY <4>2, <4>4
    <3> QED BY <3>1
  <2> QED BY <1>4, <1>6, <1>8, <2>1, <2>2 DEF RequestFits, AnswerFits, LinkRequests
<1>10. Fits(p, t, Append(wire[y], a), got'[x])
  BY <1>1, <1>4, <1>5, <1>8, <1>9, FrameSent DEF Fits
<1>11. Fits(primary[x], Append(wire[y], a), t, got[y])
  <2>1. Fits(primary[x], wire[y], t, got[y])
    BY <1>1, <1>5, <1>7, AnswerLeft DEF t
  <2>2. f \in FrameTo(x) /\ f.prm
    BY <1>1
  <2> QED BY <1>1, <1>4, <1>5, <2>1, <2>2, OthersSent
<1>12. /\ \A n \in confirmed[x] : Given(got[y], n)
       /\ \A n \in confirmed[y] : Given(got'[x], n)
  BY <1>2, <1>6 DEF BothExchanges, PairExchange
<1> QED BY <1>2, <1>3, <1>5, <1>6, <1>10, <1>11, <1>12 DEF BothExchanges, PairExchange, p

(* The station x sends a frame, or none, when no frame of its exchange is  *)
(* left; it may have read one before.                                      *)
LEMMA NewExchange ==
  ASSUME PairTypeOK, NEW x \in Stations, BothExchanges(x),
         wire'[x] \in Seq(FrameTo(x)), NoFrame(wire[Other(x)], wire'[x]),
         Fits(primary[Other(x)], wire'[x], wire[Other(x)], got[x]),
         got' = got, primary'[Other(x)] = primary[Other(x)],
         confirmed'[Other(x)] = confirmed[Other(x)],
         \A n \in confirmed'[x] : Given(got[Other(x)], n),
         TestFits(primary'[x]),
         \/ wire'[Other(x)] = wire[Other(x)]
         \/ \E f \in FrameTo(Other(x)) : /\ f.prm /\ RequestFits(f, primary'[x])
                                         /\ wire'[Other(x)] = Append(wire[Other(x)], f)
  PROVE  BothExchanges(x)'
<1> HIDE DEF FrameTo
<1> DEFINE y == Other(x)
<1>1. /\ Other(y) = x /\ wire[y] \in Seq(FrameTo(y))
  BY StationIs
<1> DEFINE p == primary'[x]
           u == wire[y]
           v == wire'[x]
           w == wire'[y]
<1>2. /\ Fits(p, u, v, got[y])
      /\ \A f \in FrameTo(y) : RequestFits(f, p) => Fits(p, Append(u, f), v, got[y])
  BY <1>1, FrameSent
<1>3. Fits(p, w, v, got[y])
  BY <1>2
<1>4. \A f \in FrameTo(y) : f.prm => Fits(primary[y], v, Append(u, f), got[x])
  BY <1>1, OthersSent
<1>5. Fits(primary[y], v, w, got[x])
  BY <1>4
<1>6. \A n \in confirmed[y] : Given(got[x], n)
  BY <1>1 DEF BothExchanges, PairExchange
<1> QED BY <1>1, <1>3, <1>5, <1>6 DEF BothExchanges, PairExchange

(* An answer is read.                                                      *)
LEMMA AnswerExchange ==
  ASSUME PairTypeOK, NEW x \in Stations, BothExchanges(x), ReadAnswer(x)
  PROVE  BothExchanges(x)'
<1> HIDE DEF FrameTo, Primary
<1> DEFINE y == Other(x)
           f == Head(wire[x])
           t == Tail(wire[x])
           p == primary[x]
           q == AfterAnswer(p, f)
           r == LinkService("RESET_REMOTE_LINK")
<1>1. /\ wire[x] # << >> /\ f \in FrameTo(x) /\ ~ f.prm /\ t \in Seq(FrameTo(x))
  <2>1. Reads(x, FALSE)
    BY DEF ReadAnswer
  <2> QED BY <2>1, HeadIs
<1>2. /\ Other(y) = x /\ y # x /\ y \in Stations /\ p \in Primary(x)
      /\ wire[x] \in Seq(FrameTo(x)) /\ wire[y] \in Seq(FrameTo(y))
  BY StationIs
<1>3. /\ Fits(p, wire[y], t, got[y]) /\ AnswerFits(f, p, got[y]) /\ NoFrame(wire[y], t)
      /\ Fits(primary[y], t, wire[y], got[x])
  BY <1>1, <1>2, AnswerLeft, RequestLeft DEF BothExchanges, PairExchange
<1>4. /\ TestFits(q)
      /\ f.fc = "STATUS_OF_LINK" /\ p.primaryState = "status" => q.primaryState = "reset"
  BY <1>1, <1>2, <1>3, AnswerKeepsTest DEF Fits, AnswerFits
<1>5. primary'[x] = q /\ primary'[y] = primary[y] /\ got' = got
  <2>1. primary' = [primary EXCEPT ![x] = q] /\ got' = got
    BY DEF ReadAnswer
  <2> HIDE DEF q
  <2> QED BY <1>2, <2>1 DEF PairTypeOK
<1>6. \/ wire'[x] = t /\ wire'[y] = wire[y]
      \/ /\ f.fc = "STATUS_OF_LINK" /\ p.primaryState = "status"
         /\ wire'[x] = t /\ wire'[y] = Append(wire[y], r)
  <2>1. \/ wire' = [wire EXCEPT ![x] = Tail(@)]
        \/ /\ f.fc = "STATUS_OF_LINK" /\ p.primaryState = "status"
           /\ wire' = [[wire EXCEPT ![x] = Tail(@)] EXCEPT ![y] = Append(@, r)]
    BY DEF ReadAnswer, Discarded
  <2> HIDE DEF r, f, p
  <2> QED BY <1>2, <2>1 DEF PairTypeOK
<1>7. r \in FrameTo(y) /\ r.prm /\ (q.primaryState = "reset" => RequestFits(r, q))
  <2>1. r \in FrameTo(y) /\ r.prm
    BY FramesAre
  <2>2. r.fc = "RESET_REMOTE_LINK"
    BY DEF LinkService
  <2> HIDE DEF r, q
  <2> QED BY <2>1, <2>2 DEF RequestFits
<1>8. /\ confirmed'[y] = confirmed[y]
      /\ \A n \in confirmed'[x] : Given(got[y], n)
  <2>1. \A n \in confirmed[x] : Given(got[y], n)
    BY DEF BothExchanges, PairExchange
  <2>2. CASE confirmed' = confirmed
    BY <2>1, <2>2
  <2>3. CASE /\ f.fc = "ACK" /\ p.primaryState = "sendConfirm" /\ p.lastSendAsdu # NoAsdu
             /\ confirmed' = [confirmed EXCEPT ![x] = @ \cup {p.lastSendAsdu.number}]
    <3>1. Given(got[y], p.lastSendAsdu.number)
      BY <1>3, <2>3 DEF AnswerFits
    <3> HIDE DEF p, f
    <3> QED BY <1>2, <2>1, <2>3, <3>1 DEF PairTypeOK
  <2> QED BY <2>2, <2>3 DEF ReadAnswer
<1> HIDE DEF f, t, p, q, r
<1>9. \/ wire'[y] = wire[y]
      \/ \E g \in FrameTo(y) : g.prm /\ RequestFits(g, primary'[x])
                               /\ wire'[y] = Append(wire[y], g)
  BY <1>4, <1>5, <1>6, <1>7
<1> QED BY <1>1, <1>3, <1>4, <1>5, <1>6, <1>8, <1>9, NewExchange

(* The state machine runs.                                                 *)
LEMMA RunExchange ==
  ASSUME PairTypeOK, NEW x \in Stations, BothExchanges(x), RunLink(x), ~ late'
  PROVE  BothExchanges(x)'
<1> HIDE DEF FrameTo, Primary
<1> DEFINE y == Other(x)
           P == primary[x]
<1>1. /\ Other(y) = x /\ y # x /\ y \in Stations /\ P \in Primary(x)
      /\ P.nextFcb \in BOOLEAN /\ P.lastSendAsdu \in Asdus(x)
      /\ wire[x] \in Seq(FrameTo(x)) /\ wire[y] \in Seq(FrameTo(y))
  BY StationIs DEF Primary
<1>2. /\ TestFits(P) /\ Fits(primary[y], wire[x], wire[y], got[x])
      /\ \A n \in confirmed[x] : Given(got[y], n)
  BY <1>1 DEF BothExchanges, PairExchange, Fits
<1>3. ASSUME AckTimeout(ExchangeSilent(x)) PROVE ExchangeSilent(x)
  BY <1>3 DEF AckTimeout
<1>4. ASSUME primary'[y] = primary[y], TestFits(primary'[x]),
             UNCHANGED <<got, confirmed>>,
             \/ P.primaryState \in {"idle", "available", "busy"}
             \/ P.primaryState = "status" /\ ~ P.waiting
             \/ ExchangeSilent(x),
             \/ wire' = wire
             \/ \E f \in FrameTo(y) : /\ f.prm /\ RequestFits(f, primary'[x])
                                      /\ wire' = [wire EXCEPT ![y] = Append(@, f)]
      PROVE  BothExchanges(x)'
  <2>1. NoFrame(wire[y], wire[x])
    BY <1>4, NoneLeft DEF BothExchanges
  <2>2. /\ wire'[x] = wire[x]
        /\ \/ wire'[y] = wire[y]
           \/ \E f \in FrameTo(y) : /\ f.prm /\ RequestFits(f, primary'[x])
                                    /\ wire'[y] = Append(wire[y], f)
    BY <1>1, <1>4 DEF PairTypeOK
  <2> HIDE DEF P
  <2> QED BY <1>1, <1>2, <1>4, <2>1, <2>2, NewExchange
<1>5. \A p : primary' = [primary EXCEPT ![x] = p] => primary'[x] = p /\ primary'[y] = primary[y]
  BY <1>1 DEF PairTypeOK
<1>6. ASSUME NEW fc \in {"RESET_REMOTE_LINK", "REQUEST_LINK_STATUS"}
      PROVE  LinkService(fc) \in FrameTo(y) /\ LinkService(fc).prm /\ LinkService(fc).fc = fc
  <2>1. LinkService(fc) \in FrameTo(y) /\ LinkService(fc).prm
    BY FramesAre
  <2> QED BY <2>1 DEF LinkService
<1>7. CASE BeginLink(x)
  <2> DEFINE p == [P EXCEPT !.primaryState = "status", !.waiting = FALSE, !.testFunction = FALSE]
  <2>1. TestFits(p)
    BY <1>1 DEF TestFits, Primary
  <2>2. primary' = [primary EXCEPT ![x] = p] /\ wire' = wire /\ UNCHANGED <<got, confirmed>>
        /\ P.primaryState \in {"idle", "available", "busy"}
    BY <1>7 DEF BeginLink, Runs, To
  <2> HIDE DEF p, P
  <2> QED BY <1>4, <1>5, <2>1, <2>2
<1>8. CASE ResetLink(x)
  <2> DEFINE p == [P EXCEPT !.primaryState = "reset", !.waiting = TRUE]
             r == LinkService("RESET_REMOTE_LINK")
  <2>1. /\ primary' = [primary EXCEPT ![x] = p] /\ UNCHANGED <<got, confirmed>>
        /\ wire' = [wire EXCEPT ![y] = Append(@, r)]
        /\ P.primaryState = "status" /\ ~ P.waiting
    BY <1>8 DEF ResetLink, Runs, To, Sends
  <2>2. p.primaryState = "reset" /\ TestFits(p)
    BY <1>1, <1>2, <2>1 DEF TestFits, Primary
  <2>3. r \in FrameTo(y) /\ r.prm /\ r.fc = "RESET_REMOTE_LINK"
    BY <1>6
  <2> HIDE DEF p, P, r
  <2>4. RequestFits(r, p)
    BY <2>2, <2>3 DEF RequestFits
  <2> QED BY <1>4, <1>5, <2>1, <2>2, <2>3, <2>4
<1>9. CASE AskStatus(x)
  <2> DEFINE r == LinkService("REQUEST_LINK_STATUS")
  <2>1. /\ primary' = primary /\ UNCHANGED <<got, confirmed>>
        /\ wire' = [wire EXCEPT ![y] = Append(@, r)]
        /\ P.primaryState = "status" /\ P.waiting /\ ExchangeSilent(x)
    BY <1>3, <1>9 DEF AskStatus, Runs, Sends
  <2>2. r \in FrameTo(y) /\ r.prm /\ r.fc = "REQUEST_LINK_STATUS"
    BY <1>6
  <2> HIDE DEF r
  <2>3. RequestFits(r, primary'[x])
    BY <2>1, <2>2 DEF RequestFits
  <2>4. primary'[y] = primary[y] /\ TestFits(primary'[x])
    BY <1>2, <2>1
  <2> QED BY <1>4, <2>1, <2>2, <2>3, <2>4
<1>10. CASE ResetExpired(x) \/ NotConfirmed(x)
  <2>1. PICK p : p.primaryState = "idle" /\ primary' = [primary EXCEPT ![x] = p]
    <3>1. Illegal(P).primaryState = "idle" /\ NotWaiting(Illegal(P)).primaryState = "idle"
      BY <1>1 DEF Illegal, NotWaiting, Primary
    <3> QED BY <1>10, <3>1 DEF ResetExpired, NotConfirmed, To
  <2>2. wire' = wire /\ UNCHANGED <<got, confirmed>> /\ ExchangeSilent(x)
    BY <1>3, <1>10 DEF ResetExpired, NotConfirmed, Runs
  <2>3. TestFits(p)
    BY <2>1 DEF TestFits
  <2> HIDE DEF P
  <2> QED BY <1>4, <1>5, <2>1, <2>2, <2>3
<1>11. CASE SendTest(x)
  <2> DEFINE p == [SentCounted(P) EXCEPT !.testFunction = TRUE, !.lastSendAsdu = NoAsdu]
             f == CountedService("TEST_FUNCTION", P.nextFcb, NoAsdu)
  <2>1. /\ primary' = [primary EXCEPT ![x] = p] /\ UNCHANGED <<got, confirmed>>
        /\ wire' = [wire EXCEPT ![y] = Append(@, f)] /\ P.primaryState = "available"
    BY <1>11 DEF SendTest, Runs, To, Sends
  <2>2. p.primaryState = "sendConfirm" /\ p.lastSendAsdu = NoAsdu
    BY <1>1 DEF SentCounted, Primary
  <2>3. f \in FrameTo(y) /\ f.prm /\ f.fc = "TEST_FUNCTION"
    BY <1>1, FramesAre
  <2> HIDE DEF p, P, f
  <2>4. RequestFits(f, p) /\ TestFits(p)
    BY <2>2, <2>3 DEF RequestFits, TestFits
  <2> QED BY <1>4, <1>5, <2>1, <2>3, <2>4
<1>12. CASE SendNextAsdu(x)
  <2> DEFINE asdu == [number |-> sent[x] + 1, asdu |-> NextUserData(x)]
             p == [SentCounted(P) EXCEPT !.waiting = TRUE, !.lastSendAsdu = asdu]
             f == CountedService("USER_DATA_CONFIRMED", P.nextFcb, asdu)
  <2>1. asdu \in Asdus(x) \ {NoAsdu}
    <3> HIDE DEF EntriesOf
    <3>1. NextUserData(x) \in EntriesOf(x)
      BY <1>12, StationIs, SequencesOf DEF SendNextAsdu, HasUserData, NextUserData
    <3> QED BY <3>1, StationIs DEF Asdus, NoAsdu
  <2> HIDE DEF asdu
  <2>2. /\ primary' = [primary EXCEPT ![x] = p] /\ UNCHANGED <<got, confirmed>>
        /\ wire' = [wire EXCEPT ![y] = Append(@, f)]
        /\ P.primaryState = "available" /\ ~ P.testFunction
    BY <1>12 DEF SendNextAsdu, Runs, To, Sends, asdu
  <2>3. p.primaryState = "sendConfirm" /\ p.lastSendAsdu = asdu /\ ~ p.testFunction
    BY <1>1, <2>2 DEF SentCounted, Primary
  <2>4. f \in FrameTo(y) /\ f.prm /\ f.fc = "USER_DATA_CONFIRMED" /\ f.asdu = asdu
    BY <1>1, <2>1, FramesAre
  <2> HIDE DEF p, P, f
  <2>5. RequestFits(f, p) /\ TestFits(p)
    BY <2>3, <2>4 DEF RequestFits, TestFits
  <2> QED BY <1>4, <1>5, <2>2, <2>4, <2>5
<1>13. CASE RepeatFrame(x)
  <2> DEFINE p == [P EXCEPT !.repeats = @ + 1]
             f == RepeatedFrame(P)
  <2>1. /\ primary' = [primary EXCEPT ![x] = p] /\ UNCHANGED <<got, confirmed>>
        /\ wire' = [wire EXCEPT ![y] = Append(@, f)] /\ P.primaryState = "sendConfirm"
        /\ ExchangeSilent(x)
    BY <1>3, <1>13 DEF RepeatFrame, Runs, To, Sends
  <2>2. /\ p.primaryState = P.primaryState /\ p.lastSendAsdu = P.lastSendAsdu
        /\ p.testFunction = P.testFunction /\ p.waiting = P.waiting
    BY <1>1 DEF Primary
  <2>3. P.lastSendAsdu = NoAsdu <=> P.testFunction
    <3>1. P.lastSendAsdu = NoAsdu => P.testFunction
      BY <2>1, StationIs
    <3> QED BY <1>2, <2>1, <3>1 DEF TestFits
  <2>4. f \in FrameTo(y) /\ f.prm /\ RequestFits(f, P)
    <3>1. CASE P.testFunction
      <4>1. f \in FrameTo(y) /\ f.prm /\ f.fc = "TEST_FUNCTION"
        BY <1>1, <3>1, FramesAre DEF RepeatedFrame
      <4> HIDE DEF f, P
      <4> QED BY <2>1, <2>3, <3>1, <4>1 DEF RequestFits
    <3>2. CASE ~ P.testFunction
      <4>1. f = CountedService("USER_DATA_CONFIRMED", ~ P.nextFcb, P.lastSendAsdu)
        BY <3>2 DEF RepeatedFrame
      <4>2. P.lastSendAsdu \in Asdus(x) \ {NoAsdu} /\ (~ P.nextFcb) \in BOOLEAN
        BY <1>1, <2>3, <3>2
      <4>3. \A fcb \in BOOLEAN, asdu \in Asdus(x) \ {NoAsdu} :
              LET g == CountedService("USER_DATA_CONFIRMED", fcb, asdu)
              IN  g \in FrameTo(y) /\ g.prm /\ g.fc = "USER_DATA_CONFIRMED" /\ g.asdu = asdu
        BY FramesAre
      <4> HIDE DEF f, P
      <4>4. f \in FrameTo(y) /\ f.prm /\ f.fc = "USER_DATA_CONFIRMED" /\ f.asdu = P.lastSendAsdu
        BY <4>1, <4>2, <4>3
      <4> QED BY <2>1, <4>4 DEF RequestFits
    <3> QED BY <3>1, <3>2
  <2> HIDE DEF p, P, f
  <2>5. RequestFits(f, p) /\ TestFits(p)
    BY <1>2, <2>2, <2>4 DEF RequestFits, TestFits
  <2> QED BY <1>4, <1>5, <2>1, <2>4, <2>5
<1>14. CASE Wait(x)
  <2>1. UNCHANGED <<primary, wire, got, confirmed>>
    BY <1>14 DEF Wait, Runs
  <2> QED BY <2>1 DEF BothExchanges, PairExchange
<1> QED BY <1>7, <1>8, <1>9, <1>10, <1>11, <1>12, <1>13, <1>14 DEF RunLink, ExpireAt

(* While no answer comes late and no test is asked for.                    *)
LEMMA InitPairConfirmed == PairInit => PairConfirmed
<1> SUFFICES ASSUME PairInit, NEW x \in Stations PROVE PairExchange(x)
  BY DEF PairConfirmed
<1>1. Other(x) \in Stations
  BY Others
<1>2. /\ wire[x] = << >> /\ wire[Other(x)] = << >> /\ primary[x] = FreshPrimary
      /\ confirmed[x] = {}
  BY <1>1 DEF PairInit
<1>3. ~ primary[x].testFunction
  BY <1>2 DEF FreshPrimary
<1> QED BY <1>2, <1>3 DEF PairExchange, Fits, TestFits, OneFrame

LEMMA PairConfirmedStep ==
  ASSUME BalancedOK, PairConfirmed, [Next]_vars
  PROVE  PairConfirmed'
<1>1. tests \in Nat /\ tests' \in Nat /\ tests <= tests' /\ (late => late')
  BY CallsStep DEF BalancedOK, CallsOK
<1> SUFFICES ASSUME ~ late', tests' = 0
             PROVE  \A x \in Stations : PairExchange(x)'
  BY DEF PairConfirmed
<1>2. PairTypeOK /\ \A x \in Stations : PairExchange(x)
  BY <1>1 DEF BalancedOK, PairOrderOK, PairConfirmed
<1>3. CASE UNCHANGED pairState
  <2>1. UNCHANGED <<primary, wire, got, confirmed>>
    BY <1>3 DEF pairState, pairHistory
  <2> QED BY <1>2, <2>1 DEF PairExchange
<1>4. ASSUME NEW x \in Stations,
             \/ ReadsFrame(x) \/ RefuseLinkService(x) \/ RunLink(x)
             \/ EnqueueASDU(x) \/ AskForTest(x) \/ LoseFrameTo(x)
      PROVE  \A z \in Stations : PairExchange(z)'
  <2> SUFFICES BothExchanges(x)'
    BY Others DEF BothExchanges
  <2>1. BothExchanges(x)
    BY <1>2, Others DEF BothExchanges
  <2>2. CASE IgnoreRequest(x) \/ LoseFrameTo(x)
    BY <1>2, <2>1, <2>2, DropExchange
  <2>3. CASE AnswerLinkService(x) \/ ReceiveUserData(x) \/ RefuseLinkService(x)
    BY <1>2, <2>1, <2>3, AcceptExchange
  <2>4. CASE ReadAnswer(x)
    BY <1>2, <2>1, <2>4, AnswerExchange
  <2>5. CASE RunLink(x)
    BY <1>2, <2>1, <2>5, RunExchange
  <2>6. CASE EnqueueASDU(x)
    <3>1. UNCHANGED <<primary, wire, got, confirmed>>
      BY <2>6 DEF EnqueueASDU, pairHistory
    <3> QED BY <2>1, <3>1 DEF BothExchanges, PairExchange
  <2>7. CASE AskForTest(x)
    BY <1>1, <2>7 DEF AskForTest, NewTest
  <2> QED BY <1>4, <2>2, <2>3, <2>4, <2>5, <2>6, <2>7 DEF ReadsFrame
<1> QED BY <1>3, <1>4 DEF Next, InUnbalanced, InBalanced, PairNext, vars

-----------------------------------------------------------------------------
(* The unbalanced mode. *)

(* The messages of the master and the entries of a slave's queues.         *)
Messages == {NoMessage} \union Commanded
Entries == {NoEntry} \union Reported

Connection ==
  {c \in [state : LinkLayerState, primaryState : PrimaryLinkLayerState, hasMessage : BOOLEAN,
          message : Messages, requestClass1Data : BOOLEAN, requestClass2Data : BOOLEAN,
          testFunction : BOOLEAN, waiting : BOOLEAN, nextFcb : BOOLEAN, repeats : Nat] :
     /\ c.hasMessage => c.message \in Commanded
     /\ c.primaryState = "sendConfirm" => c.hasMessage}

SlaveAnswers == {"ACK", "NACK", "STATUS_OF_LINK", "USER_DATA", "NO_DATA", "NOT_IMPLEMENTED"}

(* The frames on the line. The flow control bit comes with a refusal, and a*)
(* single character, which names no sender, is an acknowledgement.         *)
DownFrame ==
  {f \in [to : Slaves, fc : MasterServices, fcv : BOOLEAN, fcb : BOOLEAN, asdu : Messages] :
     /\ f.fcv <=> f.fc \notin {"RESET_REMOTE_LINK", "REQUEST_LINK_STATUS"}
     /\ f.fc = "USER_DATA_CONFIRMED" => f.asdu \in Commanded}
UpFrame ==
  {f \in [from : Slaves \union {Nobody}, fc : SlaveAnswers, acd : BOOLEAN, dfc : BOOLEAN,
          asdu : Entries] :
     /\ f.dfc => f.fc = "NACK"
     /\ f.from = Nobody => f.fc = "ACK"}

BusTypeOK ==
  /\ conn \in [Slaves -> Connection] /\ slaveFcb \in [Slaves -> BOOLEAN]
  /\ currentSlave \in Slaves \union {Nobody} /\ currentSlaveIndex \in Slaves
  /\ currentSlave = Nobody => Silent
  /\ class1 \in [Slaves -> Seq(Reported)] /\ class2 \in [Slaves -> Seq(Reported)]
  /\ down \in Seq(DownFrame) /\ up \in Seq(UpFrame)
  /\ delivered \in [Slaves -> Seq(Nat)] /\ received \in Seq(Entries) /\ taken \in Nat

-----------------------------------------------------------------------------
(* A connection c, with the count bit fcb its slave expects and the ASDUs  *)
(* its slave was given: a connection that is available does not wait for   *)
(* an answer, and a message that is gone was given to its slave. A request *)
(* that is repeated although its answer was read (respond, not waiting) is *)
(* one the slave has taken.                                                *)
ConnectionOK(c, foreign, fcb, given) ==
  /\ c.primaryState = "status" /\ c.waiting => foreign
  /\ c.primaryState = "reset" /\ ~ foreign => c.waiting /\ c.nextFcb
  /\ c.primaryState = "available" => ~ c.waiting /\ (~ foreign => c.nextFcb = fcb)
  /\ c.primaryState = "sendConfirm" => c.waiting
  /\ c.primaryState = "respond" /\ ~ c.waiting => c.nextFcb = fcb
  /\ c.message.id > 0 /\ ~ c.hasMessage => Given(given, c.message.id)

(* A request on the line belongs to what its connection waits for, or has  *)
(* a count bit its slave does not expect.                                  *)
RequestOK(f, c) ==
  IF c.waiting
    THEN \/ f.fc = "RESET_REMOTE_LINK" /\ c.primaryState = "reset"
         \/ f.fc = "REQUEST_LINK_STATUS" /\ c.primaryState = "status"
         \/ /\ f.fcv /\ f.fcb = ~ c.nextFcb /\ c.primaryState \in {"sendConfirm", "respond"}
            /\ (f.fc = "USER_DATA_CONFIRMED"
                  => c.primaryState = "sendConfirm" /\ f.asdu = c.message)
            /\ (f.fc \in {"CLASS_1", "CLASS_2"} => c.primaryState = "respond")
    ELSE f.fcv /\ f.fcb = ~ c.nextFcb /\ c.primaryState = "respond"

(* An answer is one to what the connection waits for, or the refusal of    *)
(* such a repeat by a slave of another make.                               *)
AnswerOK(f, c, foreign, fcb, given) ==
  IF c.waiting
    THEN /\ c.primaryState \in {"status", "reset", "sendConfirm", "respond"}
         /\ c.primaryState \in {"sendConfirm", "respond"} => c.nextFcb = fcb
         /\ c.primaryState = "reset" /\ ~ foreign => fcb
         /\ f.fc = "ACK" => c.primaryState # "status"
         /\ f.fc = "ACK" /\ c.primaryState = "sendConfirm" => Given(given, c.message.id)
         /\ f.fc \in {"USER_DATA", "NO_DATA"} => c.primaryState = "respond"
         /\ f.fc = "STATUS_OF_LINK" => c.primaryState = "status"
         /\ f.fc = "NOT_IMPLEMENTED" => c.primaryState \in {"sendConfirm", "respond"}
         /\ f.fc = "NACK" => foreign
    ELSE f.fc = "NACK" /\ foreign /\ c.primaryState = "respond"

-----------------------------------------------------------------------------
(* What the master makes of an answer.                                     *)
LEMMA HandledIs ==
  ASSUME NEW c \in Connection, NEW f \in UpFrame
  PROVE  /\ Handled(c, f) \in Connection
         /\ Handled(c, f).message = c.message /\ Handled(c, f).nextFcb = c.nextFcb
         /\ Handled(c, f).waiting =>
              c.waiting \/ (f.fc = "STATUS_OF_LINK" /\ c.primaryState = "status")
         /\ Handled(c, f).repeats = c.repeats
<1> USE DEF Connection, PrimaryLinkLayerState, LinkLayerState
<1>1. f.fc \in SlaveAnswers /\ f.acd \in BOOLEAN
  BY DEF UpFrame
<1> DEFINE Is(h) == /\ h \in Connection /\ h.message = c.message /\ h.nextFcb = c.nextFcb
                    /\ h.repeats = c.repeats
                    /\ h.waiting =>
                         c.waiting \/ (f.fc = "STATUS_OF_LINK" /\ c.primaryState = "status")
<1>2. Is(Busy(c))
  BY DEF Busy
<1>3. \A h : Is(h) => Is([h EXCEPT !.requestClass1Data = @ \/ f.acd])
  BY <1>1
<1>4. \A h : Is(h) => Is(NotWaiting(h)) /\ NotWaiting(h).primaryState = h.primaryState
  BY DEF NotWaiting
<1>5. \A h : Is(h) => Is(Available(h)) /\ Is(Illegal(h))
  BY DEF Available, Illegal
<1>6. Is(c)
  OBVIOUS
<1>7. Is(Acknowledged(c))
  <2>1. CASE c.primaryState \in {"reset", "respond"}
    <3>1. Acknowledged(c) = NotWaiting(Available(c))
      BY <2>1 DEF Acknowledged
    <3> HIDE DEF Is
    <3> QED BY <1>4, <1>5, <1>6, <3>1
  <2>2. CASE c.primaryState = "sendConfirm"
    <3>1. Acknowledged(c) = NotWaiting(Available(Confirmed(c)))
      BY <2>2 DEF Acknowledged
    <3>2. Is(Available(Confirmed(c)))
      BY DEF Available, Confirmed
    <3> HIDE DEF Is
    <3> QED BY <1>4, <3>1, <3>2
  <2>3. CASE c.primaryState \notin {"reset", "respond", "sendConfirm"}
    <3>1. Acknowledged(c) = NotWaiting(c)
      BY <2>3 DEF Acknowledged
    <3> HIDE DEF Is
    <3> QED BY <1>4, <1>6, <3>1
  <2> QED BY <2>1, <2>2, <2>3
<1>8. Is(Refused(c))
  <2>1. Is(IF c.primaryState = "sendConfirm"
             THEN [c EXCEPT !.primaryState = "busy", !.state = "busy"] ELSE c)
    BY ZenonT(40)
  <2> HIDE DEF Is
  <2> QED BY <1>4, <2>1 DEF Refused
<1>9. Is(DataReceived(c))
  <2>1. Is(IF c.primaryState = "respond"
             THEN [Available(c) EXCEPT !.requestClass1Data = FALSE, !.requestClass2Data = FALSE]
             ELSE Illegal(c))
    BY DEF Available, Illegal
  <2> HIDE DEF Is
  <2> QED BY <1>4, <2>1 DEF DataReceived
<1>10. Is(NoData(c)) /\ Is(NotImplemented(c))
  <2>1. Is(IF c.primaryState = "respond" THEN Available(c) ELSE Illegal(c))
        /\ Is(IF c.primaryState = "sendConfirm" THEN Available(c) ELSE c)
    BY <1>5, <1>6
  <2> HIDE DEF Is
  <2> QED BY <1>4, <2>1 DEF NoData, NotImplemented
<1>11. f.fc = "STATUS_OF_LINK" => Is(StatusOfLink(c))
  BY <1>5, <1>6 DEF StatusOfLink
<1> DEFINE handled == CASE f.fc = "ACK" -> Acknowledged(c)
                        [] f.fc = "NACK" -> Refused(c)
                        [] f.fc = "STATUS_OF_LINK" -> StatusOfLink(c)
                        [] f.fc = "USER_DATA" -> DataReceived(c)
                        [] f.fc = "NO_DATA" -> NoData(c)
                        [] f.fc = "NOT_IMPLEMENTED" -> NotImplemented(c)
<1> HIDE DEF Is, Connection
<1>12. Is(handled)
  BY <1>1, <1>7, <1>8, <1>9, <1>10, <1>11 DEF SlaveAnswers
<1>13. Handled(c, f) = IF f.dfc THEN Busy(c) ELSE [handled EXCEPT !.requestClass1Data = @ \/ f.acd]
  BY DEF Handled
<1> HIDE DEF handled
<1>14. Is(Handled(c, f))
  BY <1>2, <1>3, <1>12, <1>13
<1> QED BY <1>14 DEF Is

-----------------------------------------------------------------------------
(* The ASDUs on the way to the master.                                     *)
Data(q) == {i \in DOMAIN q : q[i].fc = "USER_DATA"}
AsOne(f) == IF f.fc = "USER_DATA" THEN 1 ELSE 0

(* How many there are is a number.                                         *)
LEMMA DataIs ==
  ASSUME NEW S, NEW q \in Seq(S)
  PROVE  IsFiniteSet(Data(q)) /\ Cardinality(Data(q)) \in Nat
<1>1. Data(q) \subseteq 1..Len(q) /\ Len(q) \in Nat
  BY DEF Data
<1>2. IsFiniteSet(1..Len(q))
  BY <1>1, FS_Interval
<1>3. IsFiniteSet(Data(q))
  BY <1>1, <1>2, FS_Subset
<1> QED BY <1>3, FS_CardinalityType

(* An answer is sent.                                                      *)
LEMMA DataSent ==
  ASSUME NEW S, NEW q \in Seq(S), NEW f \in S
  PROVE  Cardinality(Data(Append(q, f))) = Cardinality(Data(q)) + AsOne(f)
<1> DEFINE n == Len(q) + 1
<1>1. /\ Len(q) \in Nat /\ DOMAIN q = 1..Len(q) /\ DOMAIN Append(q, f) = 1..n
      /\ Append(q, f)[n] = f /\ \A i \in 1..Len(q) : Append(q, f)[i] = q[i] /\ i # n
      /\ \A i \in 1..n : i \in 1..Len(q) \/ i = n
      /\ n \in 1..n /\ \A i \in 1..Len(q) : i \in 1..n
  OBVIOUS
<1>2. n \notin Data(q) /\ IsFiniteSet(Data(q)) /\ Cardinality(Data(q)) \in Nat
  BY <1>1, DataIs DEF Data
<1>3. CASE f.fc = "USER_DATA"
  <2>1. Data(Append(q, f)) = Data(q) \cup {n}
    <3> HIDE DEF n
    <3> QED BY <1>1, <1>3 DEF Data
  <2> HIDE DEF n
  <2> QED BY <1>2, <1>3, <2>1, FS_AddElement DEF AsOne
<1>4. CASE f.fc # "USER_DATA"
  <2>1. Data(Append(q, f)) = Data(q)
    <3> HIDE DEF n
    <3> QED BY <1>1, <1>4 DEF Data
  <2> QED BY <1>2, <1>4, <2>1 DEF AsOne
<1> QED BY <1>3, <1>4

(* An answer is read, or lost.                                             *)
LEMMA DataGone ==
  ASSUME NEW S, NEW q \in Seq(S), q # << >>
  PROVE  /\ Cardinality(Data(q)) = Cardinality(Data(Tail(q))) + AsOne(Head(q))
         /\ Cardinality(Data(Tail(q))) \in Nat
<1> DEFINE t == Tail(q)
           D == Data(t)
           E == Data(q) \ {1}
           shift == [i \in D |-> i + 1]
<1>1. /\ Len(q) \in Nat /\ 1 \in 1..Len(q) /\ DOMAIN q = 1..Len(q) /\ Head(q) = q[1]
      /\ t \in Seq(S) /\ DOMAIN t = 1..Len(t) /\ Len(t) = Len(q) - 1 /\ Len(t) \in Nat
      /\ \A i \in 1..Len(t) : t[i] = q[i + 1]
  OBVIOUS
<1> HIDE DEF t
<1>2. /\ D \subseteq Nat /\ \A i \in D : i + 1 \in E
      /\ \A j \in E : j - 1 \in D /\ j \in Nat
  BY <1>1 DEF Data
<1>3. shift \in [D -> E] /\ \A i \in D : shift[i] = i + 1
  BY <1>2
<1>4. \A i, j \in D : shift[i] = shift[j] => i = j
  BY <1>2, <1>3
<1>5. \A j \in E : \E i \in D : shift[i] = j
  <2> SUFFICES ASSUME NEW j \in E PROVE \E i \in D : shift[i] = j
    OBVIOUS
  <2>1. j - 1 \in D /\ (j - 1) + 1 = j
    BY <1>2
  <2> QED BY <1>3, <2>1
<1>6. ExistsBijection(D, E)
  <2> DOMAIN shift = D
    OBVIOUS
  <2> HIDE DEF D, E, shift
  <2> QED BY <1>3, <1>4, <1>5 DEF ExistsBijection, Bijection, Injection, Surjection, IsInjective
<1>7. /\ IsFiniteSet(D) /\ Cardinality(D) \in Nat
      /\ IsFiniteSet(Data(q)) /\ Cardinality(Data(q)) \in Nat
  BY <1>1, DataIs
<1>8. Cardinality(E) = Cardinality(D)
  <2> HIDE DEF D, E
  <2> QED BY <1>6, <1>7, FS_Bijection
<1>9. Cardinality(E) = IF 1 \in Data(q) THEN Cardinality(Data(q)) - 1 ELSE Cardinality(Data(q))
  BY <1>7, FS_RemoveElement
<1>10. 1 \in Data(q) <=> Head(q).fc = "USER_DATA"
  BY <1>1 DEF Data
<1> HIDE DEF D, E
<1> QED BY <1>7, <1>8, <1>9, <1>10 DEF AsOne, D, t

(* The state an answer leaves the connection in.                           *)
LEMMA HandledState ==
  ASSUME NEW c \in Connection, NEW f \in UpFrame
  PROVE  LET h == Handled(c, f)
             from == c.primaryState
         IN  /\ f.fc = "ACK" =>
                  /\ h.primaryState = IF from \in {"reset", "respond", "sendConfirm"}
                                        THEN "available" ELSE from
                  /\ ~ h.waiting /\ (from # "sendConfirm" => h.hasMessage = c.hasMessage)
             /\ f.fc = "NACK" /\ ~ f.dfc =>
                  /\ h.primaryState = IF from = "sendConfirm" THEN "busy" ELSE from
                  /\ ~ h.waiting
             /\ f.fc = "NACK" /\ f.dfc =>
                  /\ h.primaryState = CASE from \in {"status", "reset"} -> "status"
                                        [] from \in {"sendConfirm", "busy"} -> "busy"
                                        [] OTHER -> from
                  /\ h.waiting = c.waiting
             /\ f.fc \in {"USER_DATA", "NO_DATA"} =>
                  /\ h.primaryState = IF from = "respond" THEN "available" ELSE "idle"
                  /\ ~ h.waiting
             /\ f.fc = "STATUS_OF_LINK" =>
                  /\ h.primaryState = IF from = "status" THEN "reset" ELSE "idle"
                  /\ from = "status" => h.waiting
             /\ f.fc = "NOT_IMPLEMENTED" =>
                  /\ h.primaryState = IF from = "sendConfirm" THEN "available" ELSE from
                  /\ ~ h.waiting
             /\ f.fc # "ACK" => h.hasMessage = c.hasMessage
<1> DEFINE Fields(h, ps, w) == /\ h.primaryState = ps /\ h.waiting = w
                               /\ (f.fc = "ACK" /\ c.primaryState = "sendConfirm")
                                    \/ h.hasMessage = c.hasMessage
           from == c.primaryState
<1>1. /\ f.fc \in SlaveAnswers /\ f.acd \in BOOLEAN /\ (f.dfc => f.fc = "NACK")
      /\ c.primaryState \in PrimaryLinkLayerState
  BY DEF UpFrame, Connection
<1> USE DEF Connection
<1>2. CASE f.fc = "ACK"
  <2>1. Handled(c, f) = [Acknowledged(c) EXCEPT !.requestClass1Data = @ \/ f.acd]
    BY <1>1, <1>2 DEF Handled
  <2>2. CASE c.primaryState \in {"reset", "respond"}
    <3>1. Acknowledged(c) = NotWaiting(Available(c))
      BY <2>2 DEF Acknowledged
    <3>2. Fields(Handled(c, f), "available", FALSE)
      BY <2>1, <3>1 DEF NotWaiting, Available
    <3> QED BY <1>2, <2>2, <3>2
  <2>3. CASE c.primaryState = "sendConfirm"
    <3>1. Acknowledged(c) = NotWaiting(Available(Confirmed(c)))
      BY <2>3 DEF Acknowledged
    <3>2. /\ Handled(c, f).primaryState = "available" /\ ~ Handled(c, f).waiting
      BY <2>1, <3>1 DEF NotWaiting, Available, Confirmed
    <3> QED BY <1>2, <2>3, <3>2
  <2>4. CASE c.primaryState \notin {"reset", "respond", "sendConfirm"}
    <3>1. Acknowledged(c) = NotWaiting(c)
      BY <2>4 DEF Acknowledged
    <3>2. Fields(Handled(c, f), from, FALSE)
      BY <2>1, <3>1 DEF NotWaiting
    <3> QED BY <1>2, <2>4, <3>2
  <2> QED BY <2>2, <2>3, <2>4
<1>3. CASE f.fc = "NACK" /\ ~ f.dfc
  <2>1. Handled(c, f) = [Refused(c) EXCEPT !.requestClass1Data = @ \/ f.acd]
    BY <1>1, <1>3 DEF Handled
  <2>2. Fields(Handled(c, f), IF from = "sendConfirm" THEN "busy" ELSE from, FALSE)
    BY <2>1 DEF Refused, NotWaiting
  <2> QED BY <1>3, <2>2
<1>4. CASE f.fc = "NACK" /\ f.dfc
  <2>1. Handled(c, f) = Busy(c)
    BY <1>4 DEF Handled
  <2>2. Fields(Handled(c, f), CASE from \in {"status", "reset"} -> "status"
                                [] from \in {"sendConfirm", "busy"} -> "busy"
                                [] OTHER -> from, c.waiting)
    BY <2>1 DEF Busy
  <2> QED BY <1>4, <2>2
<1>5. CASE f.fc = "USER_DATA"
  <2>1. Handled(c, f) = [DataReceived(c) EXCEPT !.requestClass1Data = @ \/ f.acd]
    BY <1>1, <1>5 DEF Handled
  <2>2. Fields(Handled(c, f), IF from = "respond" THEN "available" ELSE "idle", FALSE)
    BY <2>1 DEF DataReceived, NotWaiting, Available, Illegal
  <2> QED BY <1>5, <2>2
<1>6. CASE f.fc = "NO_DATA"
  <2>1. Handled(c, f) = [NoData(c) EXCEPT !.requestClass1Data = @ \/ f.acd]
    BY <1>1, <1>6 DEF Handled
  <2>2. Fields(Handled(c, f), IF from = "respond" THEN "available" ELSE "idle", FALSE)
    BY <2>1 DEF NoData, NotWaiting, Available, Illegal
  <2> QED BY <1>6, <2>2
<1>7. CASE f.fc = "STATUS_OF_LINK"
  <2>1. Handled(c, f) = [StatusOfLink(c) EXCEPT !.requestClass1Data = @ \/ f.acd]
    BY <1>1, <1>7 DEF Handled
  <2>2. Fields(Handled(c, f), IF from = "status" THEN "reset" ELSE "idle",
               IF from = "status" THEN TRUE ELSE c.waiting)
    BY <2>1 DEF StatusOfLink, Illegal
  <2> QED BY <1>7, <2>2
<1>8. CASE f.fc = "NOT_IMPLEMENTED"
  <2>1. Handled(c, f) = [NotImplemented(c) EXCEPT !.requestClass1Data = @ \/ f.acd]
    BY <1>1, <1>8 DEF Handled
  <2>2. Fields(Handled(c, f), IF from = "sendConfirm" THEN "available" ELSE from, FALSE)
    BY <2>1 DEF NotImplemented, NotWaiting, Available
  <2> QED BY <1>8, <2>2
<1> QED BY <1>1, <1>2, <1>3, <1>4, <1>5, <1>6, <1>7, <1>8 DEF SlaveAnswers

(* What it makes of an answer to what the connection waits for, or of the  *)

(* refusal of a repeat.                                                    *)
LEMMA AnswerHandled ==
  ASSUME NEW c \in Connection, NEW f \in UpFrame, NEW foreign \in BOOLEAN, NEW fcb \in BOOLEAN,
         NEW given, ConnectionOK(c, foreign, fcb, given), AnswerOK(f, c, foreign, fcb, given)
  PROVE  /\ ConnectionOK(Handled(c, f), foreign, fcb, given)
         /\ ~ c.waiting => /\ Handled(c, f).primaryState = "respond" /\ ~ Handled(c, f).waiting
                           /\ f.fc = "NACK"
         /\ f.fc = "STATUS_OF_LINK" => /\ Handled(c, f).primaryState = "reset"
                                       /\ Handled(c, f).waiting
<1> DEFINE h == Handled(c, f)
           from == c.primaryState
<1>1. /\ f.fc \in SlaveAnswers /\ (f.dfc => f.fc = "NACK") /\ f.dfc \in BOOLEAN
      /\ from \in PrimaryLinkLayerState /\ c.nextFcb \in BOOLEAN /\ c.waiting \in BOOLEAN
      /\ c.hasMessage \in BOOLEAN
  BY DEF UpFrame, Connection
<1>2. /\ h.message = c.message /\ h.nextFcb = c.nextFcb
      /\ h.waiting \in BOOLEAN /\ h.hasMessage \in BOOLEAN
  BY HandledIs DEF Connection
<1>3. /\ f.fc = "ACK" =>
           /\ h.primaryState = IF from \in {"reset", "respond", "sendConfirm"}
                                 THEN "available" ELSE from
           /\ ~ h.waiting /\ (from # "sendConfirm" => h.hasMessage = c.hasMessage)
      /\ f.fc = "NACK" /\ ~ f.dfc =>
           /\ h.primaryState = IF from = "sendConfirm" THEN "busy" ELSE from
           /\ ~ h.waiting
      /\ f.fc = "NACK" /\ f.dfc =>
           /\ h.primaryState = CASE from \in {"status", "reset"} -> "status"
                                 [] from \in {"sendConfirm", "busy"} -> "busy"
                                 [] OTHER -> from
           /\ h.waiting = c.waiting
      /\ f.fc \in {"USER_DATA", "NO_DATA"} =>
           /\ h.primaryState = IF from = "respond" THEN "available" ELSE "idle"
           /\ ~ h.waiting
      /\ f.fc = "STATUS_OF_LINK" =>
           /\ h.primaryState = IF from = "status" THEN "reset" ELSE "idle"
           /\ from = "status" => h.waiting
      /\ f.fc = "NOT_IMPLEMENTED" =>
           /\ h.primaryState = IF from = "sendConfirm" THEN "available" ELSE from
           /\ ~ h.waiting
      /\ f.fc # "ACK" => h.hasMessage = c.hasMessage
  BY HandledState
<1>4. ~ c.waiting => f.fc = "NACK" /\ from = "respond"
  BY DEF AnswerOK
<1> HIDE DEF h
<1>5. CASE f.fc = "ACK"
  <2>1. /\ c.waiting /\ from \in {"reset", "sendConfirm", "respond"}
        /\ from \in {"sendConfirm", "respond"} => c.nextFcb = fcb
        /\ from = "reset" /\ ~ foreign => fcb /\ c.nextFcb
        /\ from = "sendConfirm" => Given(given, c.message.id)
    BY <1>4, <1>5 DEF AnswerOK, ConnectionOK
  <2>2. ~ foreign => h.nextFcb = fcb
    BY <1>2, <2>1
  <2>3. h.message.id > 0 /\ ~ h.hasMessage => Given(given, h.message.id)
    BY <1>2, <1>3, <1>5, <2>1 DEF ConnectionOK
  <2> QED BY <1>3, <1>5, <2>1, <2>2, <2>3 DEF ConnectionOK, h
<1>6. CASE f.fc = "NACK"
  <2>1. foreign /\ from \in {"status", "reset", "sendConfirm", "respond"}
        /\ (from = "respond" => c.nextFcb = fcb)
    BY <1>6 DEF AnswerOK, ConnectionOK
  <2>2. h.message.id > 0 /\ ~ h.hasMessage => Given(given, h.message.id)
    BY <1>2, <1>3, <1>6 DEF ConnectionOK
  <2>3. /\ h.primaryState \in {"status", "reset", "respond", "busy"}
        /\ h.primaryState = "respond" <=> from = "respond"
        /\ ~ c.waiting => h.primaryState = "respond" /\ ~ h.waiting
    <3>1. CASE f.dfc
      BY <1>3, <1>4, <1>6, <2>1, <3>1
    <3>2. CASE ~ f.dfc
      BY <1>3, <1>4, <1>6, <2>1, <3>2
    <3> QED BY <3>1, <3>2
  <2> QED BY <1>2, <1>6, <2>1, <2>2, <2>3 DEF ConnectionOK, h
<1>7. CASE f.fc \in {"USER_DATA", "NO_DATA"}
  <2>1. c.waiting /\ from = "respond" /\ c.nextFcb = fcb
    BY <1>4, <1>7 DEF AnswerOK
  <2>2. h.message.id > 0 /\ ~ h.hasMessage => Given(given, h.message.id)
    BY <1>2, <1>3, <1>7 DEF ConnectionOK
  <2> QED BY <1>2, <1>3, <1>7, <2>1, <2>2 DEF ConnectionOK, h
<1>8. CASE f.fc = "STATUS_OF_LINK"
  <2>1. c.waiting /\ from = "status" /\ foreign
    BY <1>4, <1>8 DEF AnswerOK, ConnectionOK
  <2>2. h.message.id > 0 /\ ~ h.hasMessage => Given(given, h.message.id)
    BY <1>2, <1>3, <1>8 DEF ConnectionOK
  <2> QED BY <1>2, <1>3, <1>8, <2>1, <2>2 DEF ConnectionOK, h
<1>9. CASE f.fc = "NOT_IMPLEMENTED"
  <2>1. c.waiting /\ from \in {"sendConfirm", "respond"} /\ c.nextFcb = fcb
    BY <1>4, <1>9 DEF AnswerOK
  <2>2. h.message.id > 0 /\ ~ h.hasMessage => Given(given, h.message.id)
    BY <1>2, <1>3, <1>9 DEF ConnectionOK
  <2> QED BY <1>2, <1>3, <1>9, <2>1, <2>2 DEF ConnectionOK, h
<1> QED BY <1>1, <1>5, <1>6, <1>7, <1>8, <1>9 DEF SlaveAnswers

-----------------------------------------------------------------------------
(* The exchange of the line: cn are the connections, fb and gv what their  *)
(* slaves expect and were given, cur is the current slave, dn and an are   *)
(* the frames on the line. At most one of these frames is live: it belongs *)
(* to a connection that waits, which is the current one.                   *)
Owner(f, cur) == IF f.from = Nobody THEN cur ELSE f.from

Live(cn, s) == cn[s].waiting

OneLive(cn, cur, dn, an) ==
  /\ \A i, j \in 1..Len(dn) : Live(cn, dn[i].to) /\ Live(cn, dn[j].to) => i = j
  /\ \A i, j \in 1..Len(an) : Live(cn, Owner(an[i], cur)) /\ Live(cn, Owner(an[j], cur)) => i = j
  /\ \A i \in 1..Len(dn), j \in 1..Len(an) :
       ~ (Live(cn, dn[i].to) /\ Live(cn, Owner(an[j], cur)))

NoneLive(cn, cur, dn, an) ==
  /\ \A i \in 1..Len(dn) : ~ Live(cn, dn[i].to)
  /\ \A i \in 1..Len(an) : ~ Live(cn, Owner(an[i], cur))

ConnectionsOK(cn, fb, gv, cur) ==
  \A s \in Slaves : /\ ConnectionOK(cn[s], s \in Foreign, fb[s], gv[s])
                    /\ Live(cn, s) => s = cur
RequestsOK(cn, dn) ==
  \A i \in 1..Len(dn) : dn[i].to \in Slaves /\ RequestOK(dn[i], cn[dn[i].to])
AnswersOK(cn, fb, gv, cur, an) ==
  \A i \in 1..Len(an) :
    LET s == Owner(an[i], cur)
    IN  s \in Slaves /\ AnswerOK(an[i], cn[s], s \in Foreign, fb[s], gv[s])

Exchange(cn, fb, gv, cur, dn, an) ==
  /\ ConnectionsOK(cn, fb, gv, cur)
  /\ RequestsOK(cn, dn) /\ AnswersOK(cn, fb, gv, cur, an)
  /\ OneLive(cn, cur, dn, an)

(* A frame leaves the line. If it was live none is left that is.           *)
LEMMA RequestGone ==
  ASSUME NEW S, NEW cn, NEW fb, NEW gv, NEW cur, NEW dn \in Seq(S), NEW an \in Seq(S),
         Exchange(cn, fb, gv, cur, dn, an), dn # << >>
  PROVE  /\ Exchange(cn, fb, gv, cur, Tail(dn), an)
         /\ Head(dn).to \in Slaves /\ RequestOK(Head(dn), cn[Head(dn).to])
         /\ Live(cn, Head(dn).to) => NoneLive(cn, cur, Tail(dn), an)
<1> DEFINE t == Tail(dn)
<1>1. /\ Len(dn) \in Nat \ {0} /\ Head(dn) = dn[1] /\ 1 \in 1..Len(dn)
      /\ \A i \in 1..Len(t) : t[i] = dn[i + 1] /\ i + 1 \in 1..Len(dn) /\ i + 1 # 1
      /\ \A i, j \in 1..Len(t) : i + 1 = j + 1 => i = j
  OBVIOUS
<1> HIDE DEF t
<1>2. RequestsOK(cn, t)
  BY <1>1 DEF Exchange, RequestsOK
<1>3. OneLive(cn, cur, t, an)
  BY <1>1 DEF Exchange, OneLive
<1>4. Head(dn).to \in Slaves /\ RequestOK(Head(dn), cn[Head(dn).to])
  BY <1>1 DEF Exchange, RequestsOK
<1>5. Live(cn, Head(dn).to) => NoneLive(cn, cur, t, an)
  BY <1>1 DEF Exchange, OneLive, NoneLive
<1> QED BY <1>2, <1>3, <1>4, <1>5 DEF Exchange, t

(* Of an answer the connection is told.                                    *)
LEMMA AnswerGone ==
  ASSUME NEW S, NEW cn, NEW fb, NEW gv, NEW cur, NEW dn \in Seq(S), NEW an \in Seq(S),
         Exchange(cn, fb, gv, cur, dn, an), an # << >>
  PROVE  LET s == Owner(Head(an), cur)
         IN  /\ Exchange(cn, fb, gv, cur, dn, Tail(an))
             /\ s \in Slaves /\ AnswerOK(Head(an), cn[s], s \in Foreign, fb[s], gv[s])
             /\ Live(cn, s) => NoneLive(cn, cur, dn, Tail(an))
<1> DEFINE t == Tail(an)
           s == Owner(Head(an), cur)
<1>1. /\ Len(an) \in Nat \ {0} /\ Head(an) = an[1] /\ 1 \in 1..Len(an)
      /\ \A i \in 1..Len(t) : t[i] = an[i + 1] /\ i + 1 \in 1..Len(an) /\ i + 1 # 1
      /\ \A i, j \in 1..Len(t) : i + 1 = j + 1 => i = j
  OBVIOUS
<1> HIDE DEF t
<1>2. AnswersOK(cn, fb, gv, cur, t)
  BY <1>1 DEF Exchange, AnswersOK
<1>3. OneLive(cn, cur, dn, t)
  BY <1>1 DEF Exchange, OneLive
<1>4. s \in Slaves /\ AnswerOK(Head(an), cn[s], s \in Foreign, fb[s], gv[s])
  BY <1>1 DEF Exchange, AnswersOK
<1>5. Live(cn, s) => NoneLive(cn, cur, dn, t)
  BY <1>1 DEF Exchange, OneLive, NoneLive
<1> QED BY <1>2, <1>3, <1>4, <1>5 DEF Exchange, t, s

(* A connection changes, and with it what its slave expects and was given. *)
SameButFor(s, cn, fb, gv, cn2, fb2, gv2) ==
  \A t \in Slaves \ {s} : cn2[t] = cn[t] /\ fb2[t] = fb[t] /\ gv2[t] = gv[t]

(* It does not disturb the exchange,                                       *)
LEMMA QuietChange ==
  ASSUME NEW S, NEW cn, NEW fb, NEW gv, NEW cn2, NEW fb2, NEW gv2, NEW cur,
         NEW dn \in Seq(S), NEW an \in Seq(S), NEW s \in Slaves,
         Exchange(cn, fb, gv, cur, dn, an), SameButFor(s, cn, fb, gv, cn2, fb2, gv2),
         ConnectionOK(cn2[s], s \in Foreign, fb2[s], gv2[s]), Live(cn2, s) <=> Live(cn, s),
         \A f : RequestOK(f, cn[s]) => RequestOK(f, cn2[s]),
         \A f : AnswerOK(f, cn[s], s \in Foreign, fb[s], gv[s])
                  => AnswerOK(f, cn2[s], s \in Foreign, fb2[s], gv2[s])
  PROVE  Exchange(cn2, fb2, gv2, cur, dn, an)
<1>1. \A t \in Slaves : Live(cn2, t) <=> Live(cn, t)
  BY DEF SameButFor, Live
<1>2. ConnectionsOK(cn2, fb2, gv2, cur)
  BY <1>1 DEF Exchange, ConnectionsOK, SameButFor
<1>3. RequestsOK(cn2, dn)
  BY DEF Exchange, RequestsOK, SameButFor
<1>4. AnswersOK(cn2, fb2, gv2, cur, an)
  BY DEF Exchange, AnswersOK, SameButFor
<1>5. OneLive(cn2, cur, dn, an)
  <2>1. /\ \A i \in 1..Len(dn) : dn[i].to \in Slaves
        /\ \A i \in 1..Len(an) : Owner(an[i], cur) \in Slaves
    BY DEF Exchange, RequestsOK, AnswersOK
  <2> QED BY <1>1, <2>1 DEF Exchange, OneLive
<1> QED BY <1>2, <1>3, <1>4, <1>5 DEF Exchange

(* or nothing on the line is its.                                          *)
Unused(s, cur, dn, an) ==
  /\ \A i \in 1..Len(dn) : dn[i].to # s
  /\ \A i \in 1..Len(an) : Owner(an[i], cur) # s

(* a connection none of whose frames is on the line may change.            *)
LEMMA LoneChange ==
  ASSUME NEW S, NEW cn, NEW fb, NEW gv, NEW cn2, NEW fb2, NEW gv2, NEW cur,
         NEW dn \in Seq(S), NEW an \in Seq(S), NEW s \in Slaves,
         Exchange(cn, fb, gv, cur, dn, an), SameButFor(s, cn, fb, gv, cn2, fb2, gv2),
         Unused(s, cur, dn, an), ConnectionOK(cn2[s], s \in Foreign, fb2[s], gv2[s]),
         Live(cn2, s) => s = cur
  PROVE  /\ Exchange(cn2, fb2, gv2, cur, dn, an)
         /\ NoneLive(cn, cur, dn, an) => NoneLive(cn2, cur, dn, an)
<1>1. \A t \in Slaves \ {s} : Live(cn2, t) <=> Live(cn, t)
  BY DEF SameButFor, Live
<1>2. ConnectionsOK(cn2, fb2, gv2, cur)
  BY <1>1 DEF Exchange, ConnectionsOK, SameButFor
<1>3. RequestsOK(cn2, dn)
  BY DEF Exchange, RequestsOK, SameButFor, Unused
<1>4. AnswersOK(cn2, fb2, gv2, cur, an)
  BY DEF Exchange, AnswersOK, SameButFor, Unused
<1>5. /\ \A i \in 1..Len(dn) : dn[i].to \in Slaves \ {s}
      /\ \A i \in 1..Len(an) : Owner(an[i], cur) \in Slaves \ {s}
  BY DEF Exchange, RequestsOK, AnswersOK, Unused
<1>6. OneLive(cn2, cur, dn, an) /\ (NoneLive(cn, cur, dn, an) => NoneLive(cn2, cur, dn, an))
  BY <1>1, <1>5 DEF Exchange, OneLive, NoneLive
<1> QED BY <1>2, <1>3, <1>4, <1>6 DEF Exchange

(* When nothing is live, the line is unused by a connection that waits, and*)

(* by any that does not repeat what was answered.                          *)
LEMMA UnusedIf ==
  ASSUME NEW cn, NEW fb, NEW gv, NEW cur, NEW dn, NEW an, NEW s \in Slaves,
         Exchange(cn, fb, gv, cur, dn, an),
         \/ NoneLive(cn, cur, dn, an) /\ Live(cn, s)
         \/ ~ Live(cn, s) /\ cn[s].primaryState # "respond"
         \/ Live(cn, s) /\ cn[s].primaryState \in {"idle", "busy", "available"}
  PROVE  Unused(s, cur, dn, an)
BY DEF Exchange, NoneLive, Unused, RequestsOK, AnswersOK, RequestOK, AnswerOK, Live

(* A frame is sent.                                                        *)
LEMMA RequestSent ==
  ASSUME NEW S, NEW cn, NEW fb, NEW gv, NEW cur, NEW dn \in Seq(S), NEW an \in Seq(S),
         NEW f \in S, Exchange(cn, fb, gv, cur, dn, an), f.to \in Slaves, RequestOK(f, cn[f.to]),
         NoneLive(cn, cur, dn, an) \/ ~ Live(cn, f.to)
  PROVE  Exchange(cn, fb, gv, cur, Append(dn, f), an)
<1> DEFINE t == Append(dn, f)
<1>1. /\ Len(dn) \in Nat /\ Len(t) = Len(dn) + 1 /\ t[Len(dn) + 1] = f
      /\ \A i \in 1..Len(dn) : t[i] = dn[i]
      /\ \A i \in 1..Len(t) : i \in 1..Len(dn) \/ i = Len(dn) + 1
  BY Longer
<1> HIDE DEF t
<1>2. RequestsOK(cn, t)
  BY <1>1 DEF Exchange, RequestsOK
<1>3. OneLive(cn, cur, t, an)
  BY <1>1 DEF Exchange, OneLive, NoneLive
<1> QED BY <1>2, <1>3 DEF Exchange, t

(* A slave sends an answer when nothing else is live.                      *)
LEMMA AnswerSent ==
  ASSUME NEW S, NEW cn, NEW fb, NEW gv, NEW cur, NEW dn \in Seq(S), NEW an \in Seq(S),
         NEW f \in S, Exchange(cn, fb, gv, cur, dn, an), Owner(f, cur) \in Slaves,
         LET s == Owner(f, cur) IN AnswerOK(f, cn[s], s \in Foreign, fb[s], gv[s]),
         NoneLive(cn, cur, dn, an) \/ ~ Live(cn, Owner(f, cur))
  PROVE  Exchange(cn, fb, gv, cur, dn, Append(an, f))
<1> DEFINE t == Append(an, f)
<1>1. /\ Len(an) \in Nat /\ Len(t) = Len(an) + 1 /\ t[Len(an) + 1] = f
      /\ \A i \in 1..Len(an) : t[i] = an[i]
      /\ \A i \in 1..Len(t) : i \in 1..Len(an) \/ i = Len(an) + 1
  BY Longer
<1> HIDE DEF t
<1>2. AnswersOK(cn, fb, gv, cur, t)
  BY <1>1 DEF Exchange, AnswersOK
<1>3. OneLive(cn, cur, dn, t)
  BY <1>1 DEF Exchange, OneLive, NoneLive
<1> QED BY <1>2, <1>3 DEF Exchange, t

(* The next slave has its turn when none waits.                            *)
LEMMA TurnPassed ==
  ASSUME NEW cn, NEW fb, NEW gv, NEW cur, NEW cur2, NEW dn, NEW an \in Seq(UpFrame),
         Exchange(cn, fb, gv, cur, dn, an), cur2 = cur \/ \A s \in Slaves : ~ Live(cn, s)
  PROVE  Exchange(cn, fb, gv, cur2, dn, an)
<1>1. CASE cur2 = cur
  BY <1>1
<1>2. CASE \A s \in Slaves : ~ Live(cn, s)
  <2>1. \A i \in 1..Len(an) : an[i] \in UpFrame /\ Owner(an[i], cur2) = Owner(an[i], cur)
    <3> SUFFICES ASSUME NEW i \in 1..Len(an) PROVE an[i] \in UpFrame /\ an[i].from # Nobody
      BY DEF Owner
    <3>1. an[i] \in UpFrame
      <4> HIDE DEF UpFrame
      <4> QED OBVIOUS
    <3>2. an[i].fc = "NACK"
      BY <1>2 DEF Exchange, AnswersOK, AnswerOK, Live
    <3> QED BY <3>1, <3>2 DEF UpFrame
  <2>2. ConnectionsOK(cn, fb, gv, cur2)
    BY <1>2 DEF Exchange, ConnectionsOK
  <2>3. AnswersOK(cn, fb, gv, cur2, an)
    BY <2>1 DEF Exchange, AnswersOK
  <2>4. OneLive(cn, cur2, dn, an)
    BY <2>1 DEF Exchange, OneLive
  <2> QED BY <2>2, <2>3, <2>4 DEF Exchange
<1> QED BY <1>1, <1>2

-----------------------------------------------------------------------------
(* The exchange of the line as it is.                                      *)
ExchangeNow == Exchange(conn, slaveFcb, delivered, currentSlave, down, up)

(* What a connection is made to keep.                                      *)
StaysOK(c, c2) ==
  \A foreign, fcb \in BOOLEAN : \A given :
    ConnectionOK(c, foreign, fcb, given) => ConnectionOK(c2, foreign, fcb, given)

(* A step of the state machine of the connection c, which becomes c2:      *)
(* nothing is sent; something new is sent; or something is repeated.       *)
LetsBe(c, c2) == c2 = c /\ down' = down
Turns(c, c2) ==
  /\ down' = down /\ StaysOK(c, c2) /\ (c2.waiting => c.waiting)
  /\ \/ c.primaryState = "idle"
     \/ c.primaryState = "reset" /\ ~ c.waiting
     \/ late' \/ Silent
Begins(c, c2) ==
  /\ c.primaryState = "available" \/ (c.primaryState = "status" /\ ~ c.waiting)
  /\ StaysOK(c, c2) /\ c2.waiting
  /\ \E f \in DownFrame : f.to = Current /\ RequestOK(f, c2) /\ down' = Append(down, f)
Repeats(c, c2) ==
  /\ late' \/ Silent
  /\ StaysOK(c, c2) /\ c2.waiting = c.waiting
  /\ \E f \in DownFrame :
       /\ f.to = Current /\ down' = Append(down, f)
       /\ c.waiting \/ c.primaryState = "respond" => RequestOK(f, c2)
  /\ c.primaryState \in {"status", "respond", "sendConfirm"}
  /\ c.primaryState = "status" => c.waiting

RunOf(c2) ==
  LET c == conn[Current]
  IN  LetsBe(c, c2) \/ Turns(c, c2) \/ Begins(c, c2) \/ Repeats(c, c2)

(* The frames that the master sends.                                       *)
LEMMA RequestsAre ==
  ASSUME NEW s \in Slaves, NEW m \in Commanded, NEW fcb \in BOOLEAN
  PROVE  /\ Service(s, "RESET_REMOTE_LINK") \in DownFrame
         /\ Service(s, "REQUEST_LINK_STATUS") \in DownFrame
         /\ \A fc \in {"TEST_FUNCTION", "CLASS_1", "CLASS_2"} :
              Counted(s, fc, fcb, NoMessage) \in DownFrame
         /\ Counted(s, "USER_DATA_CONFIRMED", fcb, m) \in DownFrame
<1>1. NoMessage \in Messages /\ m \in Messages
  BY DEF Messages
<1> HIDE DEF Messages, Commanded, NoMessage
<1> QED BY <1>1 DEF Service, Counted, DownFrame, MasterServices

(* The connection whose turn it is.                                        *)
LEMMA CurrentIs == ASSUME BusTypeOK PROVE Current \in Slaves /\ conn[Current] \in Connection
<1>1. Current \in Slaves
  BY DEF BusTypeOK, Current, Keeps
<1> HIDE DEF Connection
<1> QED BY <1>1 DEF BusTypeOK

(* One step for each case of the state machine.                            *)
LEMMA RunIs ==
  ASSUME BusTypeOK, RunStateMachine
  PROVE  \E c2 \in Connection :
           /\ RunOf(c2)
           /\ conn' = [conn EXCEPT ![Current] = c2] \/ (conn' = conn /\ c2 = conn[Current])
<1> DEFINE c == conn[Current]
           s == Current
<1>1. s \in Slaves /\ c \in Connection
  BY CurrentIs
<1>2. /\ c.nextFcb \in BOOLEAN /\ c.waiting \in BOOLEAN /\ c.message \in Messages
      /\ c.hasMessage => c.message \in Commanded
      /\ c.primaryState = "sendConfirm" => c.hasMessage
  BY <1>1 DEF Connection
<1>3. \A silent : AckTimeout(silent) => late' \/ silent
  BY DEF AckTimeout
<1> HIDE DEF s, c
<1>4. CASE Begin
  <2> DEFINE c2 == [c EXCEPT !.primaryState = "status", !.waiting = FALSE, !.testFunction = FALSE]
  <2>1. c2 \in Connection /\ StaysOK(c, c2) /\ ~ c2.waiting
    BY <1>1, ZenonT(40) DEF Connection, PrimaryLinkLayerState, StaysOK, ConnectionOK
  <2>2. c.primaryState = "idle" /\ conn' = [conn EXCEPT ![Current] = c2] /\ down' = down
    BY <1>4 DEF Begin, Set, c
  <2> HIDE DEF c2
  <2> QED BY <2>1, <2>2 DEF RunOf, Turns, c
<1>5. CASE ResetRemoteLink
  <2> DEFINE c2 == Reset(c)
             f == Service(s, "RESET_REMOTE_LINK")
  <2>1. /\ c2 \in Connection /\ StaysOK(c, c2) /\ c2.waiting /\ c2.primaryState = "reset"
    BY <1>1 DEF Reset, Connection, PrimaryLinkLayerState, StaysOK, ConnectionOK
  <2>2. f \in DownFrame /\ f.to = s /\ f.fc = "RESET_REMOTE_LINK"
    BY <1>1 DEF Service, DownFrame, MasterServices, Messages
  <2>3. /\ c.primaryState = "status" /\ ~ c.waiting
        /\ conn' = [conn EXCEPT ![Current] = c2] /\ down' = Append(down, f)
    BY <1>5 DEF ResetRemoteLink, Set, Send, c, s
  <2>4. RequestOK(f, c2)
    BY <2>1, <2>2 DEF RequestOK
  <2> HIDE DEF c2, f
  <2> QED BY <2>1, <2>2, <2>3, <2>4 DEF RunOf, Begins, c, s
<1> DEFINE Done(c2) == /\ c2 \in Connection /\ RunOf(c2)
                       /\ conn' = [conn EXCEPT ![Current] = c2] \/ (conn' = conn /\ c2 = c)
<1>6. ASSUME NEW c2, \/ c2 = Illegal(c) \/ c2 = [Illegal(c) EXCEPT !.waiting = FALSE]
                     \/ c2 = [Illegal(c) EXCEPT !.requestClass1Data = FALSE,
                                                !.requestClass2Data = FALSE],
             conn' = [conn EXCEPT ![Current] = c2], down' = down, AckTimeout(Silent)
      PROVE  Done(c2)
  <2>1. /\ c2 \in Connection /\ (c2.waiting => c.waiting) /\ c2.primaryState = "idle"
        /\ c2.message = c.message /\ c2.hasMessage = c.hasMessage
    BY <1>1, <1>6 DEF Illegal, Connection, PrimaryLinkLayerState, LinkLayerState
  <2> HIDE DEF Connection
  <2>2. StaysOK(c, c2)
    BY <2>1 DEF StaysOK, ConnectionOK
  <2>3. Turns(c, c2)
    BY <1>3, <1>6, <2>1, <2>2 DEF Turns
  <2> QED BY <1>6, <2>1, <2>3 DEF RunOf, c
<1>7. CASE ResetTimeout \/ GiveUp
  <2>1. \E c2 : /\ \/ c2 = Illegal(c) \/ c2 = [Illegal(c) EXCEPT !.waiting = FALSE]
                   \/ c2 = [Illegal(c) EXCEPT !.requestClass1Data = FALSE,
                                              !.requestClass2Data = FALSE]
                /\ conn' = [conn EXCEPT ![Current] = c2] /\ down' = down /\ AckTimeout(Silent)
    BY <1>7 DEF ResetTimeout, GiveUp, Set, c
  <2> QED BY <1>6, <2>1 DEF c
<1>8. CASE ResetAnswered
  <2> DEFINE c2 == Available(c)
  <2>1. c.primaryState = "reset" /\ ~ c.waiting
        /\ conn' = [conn EXCEPT ![Current] = c2] /\ down' = down
    BY <1>8 DEF ResetAnswered, Set, c
  <2>2. c2 \in Connection /\ StaysOK(c, c2) /\ ~ c2.waiting
    BY <1>1, <2>1 DEF Available, Connection, PrimaryLinkLayerState, LinkLayerState, StaysOK,
       ConnectionOK
  <2> HIDE DEF c2
  <2> QED BY <2>1, <2>2 DEF RunOf, Turns, c
<1>9. ASSUME NEW state \in {"sendConfirm", "respond"}, NEW c1 \in BOOLEAN, NEW c2d \in BOOLEAN,
             c.primaryState = "available", state = "sendConfirm" => c.hasMessage,
             NEW c2, \/ c2 = Sent(c, state)
                     \/ c2 = [Sent(c, state) EXCEPT !.requestClass1Data = c1,
                                                    !.requestClass2Data = c2d]
      PROVE  /\ c2 \in Connection /\ StaysOK(c, c2) /\ c2.waiting /\ c2.primaryState = state
             /\ c2.nextFcb = ~ c.nextFcb /\ c2.message = c.message
  <2>1. /\ c2 \in Connection /\ c2.waiting /\ c2.primaryState = state
        /\ c2.nextFcb = ~ c.nextFcb /\ c2.message = c.message /\ c2.hasMessage = c.hasMessage
    <3> DEFINE d == Sent(c, state)
    <3>1. /\ d \in Connection /\ d.waiting /\ d.primaryState = state
          /\ d.nextFcb = ~ c.nextFcb /\ d.message = c.message /\ d.hasMessage = c.hasMessage
      BY <1>1, <1>9 DEF Sent, Connection, PrimaryLinkLayerState
    <3> HIDE DEF d
    <3> QED BY <1>9, <3>1 DEF d, Connection
  <2> HIDE DEF Connection
  <2>2. StaysOK(c, c2)
    BY <1>9, <2>1 DEF StaysOK, ConnectionOK
  <2> QED BY <2>1, <2>2
<1>10. CASE SendTestFunction
  <2> DEFINE c2 == Sent(c, "respond")
             f == Counted(s, "TEST_FUNCTION", c.nextFcb, NoMessage)
  <2>1. /\ c.primaryState = "available"
        /\ conn' = [conn EXCEPT ![Current] = c2] /\ down' = Append(down, f)
    BY <1>10 DEF SendTestFunction, Set, Send, c, s
  <2>2. /\ c2 \in Connection /\ StaysOK(c, c2) /\ c2.waiting /\ c2.primaryState = "respond"
        /\ c2.nextFcb = ~ c.nextFcb
    BY <1>9, <2>1
  <2>3. f \in DownFrame /\ f.to = s /\ f.fc = "TEST_FUNCTION" /\ f.fcv /\ f.fcb = c.nextFcb
    BY <1>1, <1>2 DEF Counted, DownFrame, MasterServices, Messages
  <2> HIDE DEF c2, f
  <2>4. RequestOK(f, c2)
    BY <1>2, <2>2, <2>3 DEF RequestOK
  <2> QED BY <2>1, <2>2, <2>3, <2>4 DEF RunOf, Begins, c, s
<1>11. CASE SendUserData
  <2> DEFINE c2 == Sent(c, "sendConfirm")
             f == Counted(s, "USER_DATA_CONFIRMED", c.nextFcb, c.message)
  <2>1. /\ c.primaryState = "available" /\ c.hasMessage
        /\ conn' = [conn EXCEPT ![Current] = c2] /\ down' = Append(down, f)
    BY <1>11 DEF SendUserData, Set, Send, c, s
  <2>2. /\ c2 \in Connection /\ StaysOK(c, c2) /\ c2.waiting /\ c2.primaryState = "sendConfirm"
        /\ c2.nextFcb = ~ c.nextFcb /\ c2.message = c.message
    BY <1>9, <2>1
  <2>3. /\ f \in DownFrame /\ f.to = s /\ f.fc = "USER_DATA_CONFIRMED" /\ f.fcv
        /\ f.fcb = c.nextFcb /\ f.asdu = c.message
    BY <1>1, <1>2, <2>1 DEF Counted, DownFrame, MasterServices, Messages
  <2> HIDE DEF c2, f
  <2>4. RequestOK(f, c2)
    BY <1>2, <2>2, <2>3 DEF RequestOK
  <2> QED BY <2>1, <2>2, <2>3, <2>4 DEF RunOf, Begins, c, s
<1>12. CASE RequestData
  <2> DEFINE d == IF c.requestClass1Data THEN c.requestClass2Data ELSE FALSE
             c2 == [Sent(c, "respond") EXCEPT !.requestClass1Data = FALSE, !.requestClass2Data = d]
             f == Counted(s, ClassOf(c), c.nextFcb, NoMessage)
  <2>1. /\ c.primaryState = "available"
        /\ conn' = [conn EXCEPT ![Current] = c2] /\ down' = Append(down, f)
    <3>1. [Sent(c, "respond") EXCEPT !.requestClass1Data = FALSE,
                                     !.requestClass2Data = IF c.requestClass1Data THEN @ ELSE FALSE]
          = c2
      BY <1>1 DEF Sent, Connection
    <3> QED BY <1>12, <3>1 DEF RequestData, Set, Send, c, s
  <2>2. d \in BOOLEAN
    BY <1>1 DEF Connection
  <2> HIDE DEF d
  <2>3. /\ c2 \in Connection /\ StaysOK(c, c2) /\ c2.waiting /\ c2.primaryState = "respond"
        /\ c2.nextFcb = ~ c.nextFcb
    BY <1>9, <2>1, <2>2
  <2>4. f \in DownFrame /\ f.to = s /\ f.fc \in {"CLASS_1", "CLASS_2"} /\ f.fcv
        /\ f.fcb = c.nextFcb
    BY <1>1, <1>2 DEF Counted, ClassOf, DownFrame, MasterServices, Messages
  <2> HIDE DEF c2, f
  <2>5. RequestOK(f, c2)
    BY <1>2, <2>3, <2>4 DEF RequestOK
  <2> QED BY <2>1, <2>3, <2>4, <2>5 DEF RunOf, Begins, c, s
<1>13. CASE RequestStatus
  <2> DEFINE f == Service(s, "REQUEST_LINK_STATUS")
  <2>1. f \in DownFrame /\ f.to = s /\ f.fc = "REQUEST_LINK_STATUS"
    BY <1>1 DEF Service, DownFrame, MasterServices, Messages
  <2>2. c.primaryState = "status" /\ c.waiting /\ conn' = conn /\ down' = Append(down, f)
        /\ AckTimeout(Silent)
    BY <1>13 DEF RequestStatus, Send, c, s
  <2>3. RequestOK(f, c) /\ StaysOK(c, c)
    BY <2>1, <2>2 DEF RequestOK, StaysOK
  <2> HIDE DEF f
  <2>4. late' \/ Silent
    BY <1>3, <2>2
  <2>5. Repeats(c, c)
    BY <2>1, <2>2, <2>3, <2>4 DEF Repeats, s
  <2> QED BY <1>1, <2>2, <2>5 DEF RunOf, c
<1>14. CASE Repeat
  <2> DEFINE c2 == [c EXCEPT !.repeats = @ + 1]
             f == Repeated(c)
  <2>1. /\ c.primaryState \in {"sendConfirm", "respond"} /\ AckTimeout(Silent)
        /\ conn' = [conn EXCEPT ![Current] = c2] /\ down' = Append(down, f)
    BY <1>14 DEF Repeat, Set, Send, c
  <2>2. /\ c2 \in Connection /\ StaysOK(c, c2) /\ c2.waiting = c.waiting
        /\ c2.primaryState = c.primaryState /\ c2.nextFcb = c.nextFcb /\ c2.message = c.message
    BY <1>1 DEF Connection, StaysOK, ConnectionOK
  <2>3. /\ f \in DownFrame /\ f.to = s /\ f.fcv /\ f.fcb = ~ c.nextFcb
        /\ f.fc = "USER_DATA_CONFIRMED" => c.primaryState = "sendConfirm" /\ f.asdu = c.message
        /\ f.fc \in {"CLASS_1", "CLASS_2"} => c.primaryState = "respond"
    <3> DEFINE Is(g) ==
          /\ g \in DownFrame /\ g.to = s /\ g.fcv /\ g.fcb = ~ c.nextFcb
          /\ g.fc = "USER_DATA_CONFIRMED" => c.primaryState = "sendConfirm" /\ g.asdu = c.message
          /\ g.fc \in {"CLASS_1", "CLASS_2"} => c.primaryState = "respond"
    <3>1. Is(Counted(s, "TEST_FUNCTION", ~ c.nextFcb, NoMessage))
      BY <1>1, <1>2 DEF Counted, DownFrame, MasterServices, Messages
    <3>2. c.primaryState = "sendConfirm"
            => Is(Counted(s, "USER_DATA_CONFIRMED", ~ c.nextFcb, c.message))
      BY <1>1, <1>2 DEF Counted, DownFrame, MasterServices, Messages
    <3>3. c.primaryState = "respond" => Is(Counted(s, ClassOf(c), ~ c.nextFcb, NoMessage))
      BY <1>1, <1>2 DEF Counted, ClassOf, DownFrame, MasterServices, Messages
    <3> HIDE DEF Is
    <3>4. Is(f)
      BY <2>1, <3>1, <3>2, <3>3 DEF Repeated, s
    <3> QED BY <3>4 DEF Is
  <2> HIDE DEF c2, f
  <2>4. c.waiting \/ c.primaryState = "respond" => RequestOK(f, c2)
    BY <1>2, <2>1, <2>2, <2>3 DEF RequestOK
  <2>5. late' \/ Silent
    BY <1>3, <2>1
  <2>6. Repeats(c, c2)
    BY <2>1, <2>2, <2>3, <2>4, <2>5 DEF Repeats, s
  <2> QED BY <2>1, <2>2, <2>6 DEF RunOf, c
<1>15. CASE Pass
  <2>1. conn' = conn /\ down' = down
    BY <1>15 DEF Pass
  <2> QED BY <1>1, <2>1 DEF RunOf, LetsBe, c
<1> QED BY <1>4, <1>5, <1>6, <1>7, <1>8, <1>10, <1>11, <1>12, <1>13, <1>14, <1>15
        DEF RunStateMachine, Expire

(* Frames of either direction; a frame that was appended or left.          *)
Frames == DownFrame \union UpFrame

(* A sequence of one kind of frames is one of frames.                      *)
LEMMA SequenceIn == ASSUME NEW A, NEW B, A \subseteq B, NEW q \in Seq(A) PROVE q \in Seq(B)
OBVIOUS

(* Both directions of the line.                                            *)
LEMMA LineIs == ASSUME BusTypeOK PROVE down \in Seq(Frames) /\ up \in Seq(Frames)
<1>1. down \in Seq(DownFrame) /\ up \in Seq(UpFrame)
  BY DEF BusTypeOK
<1>2. DownFrame \subseteq Frames /\ UpFrame \subseteq Frames
  BY DEF Frames
<1> HIDE DEF Frames, DownFrame, UpFrame
<1> QED BY <1>1, <1>2, SequenceIn

(* Nothing is live on a silent line.                                       *)
LEMMA SilentIs ==
  ASSUME Silent, NEW cn, NEW cur, NEW s
  PROVE  Unused(s, cur, down, up) /\ NoneLive(cn, cur, down, up)
BY DEF Silent, Unused, NoneLive

(* The master's state machine keeps the exchange, unless a time-out passes *)

(* while an answer is under way.                                           *)
LEMMA RunKeeps ==
  ASSUME BusTypeOK, ExchangeNow, RunStateMachine, ~ late'
  PROVE  ExchangeNow'
<1> DEFINE s == Current
           Ex(cn, dn) == Exchange(cn, slaveFcb, delivered, s, dn, up)
<1>1. /\ currentSlave' = s /\ slaveFcb' = slaveFcb /\ delivered' = delivered /\ up' = up
  BY DEF RunStateMachine, Begin, ResetRemoteLink, ResetAnswered, SendTestFunction, SendUserData,
         RequestData, Expire, Pass, RequestStatus, ResetTimeout, Repeat, GiveUp, Select, busHistory
<1>2. s \in Slaves /\ conn[s] \in Connection
  BY CurrentIs
<1>3. Ex(conn, down)
  <2>1. s = currentSlave \/ \A t \in Slaves : ~ Live(conn, t)
    BY DEF Current, Keeps, ExchangeNow, Exchange, ConnectionsOK, Live, Slaves, Nobody
  <2>2. up \in Seq(UpFrame)
    BY DEF BusTypeOK
  <2> HIDE DEF s
  <2> QED BY <2>1, <2>2, TurnPassed DEF ExchangeNow
<1>4. PICK c2 \in Connection :
        /\ RunOf(c2)
        /\ conn' = [conn EXCEPT ![s] = c2] \/ (conn' = conn /\ c2 = conn[s])
  BY RunIs
<1>5. /\ down \in Seq(Frames) /\ up \in Seq(Frames)
      /\ conn \in [Slaves -> Connection]
  BY LineIs DEF BusTypeOK
<1>6. /\ conn'[s] = c2
      /\ SameButFor(s, conn, slaveFcb, delivered, conn', slaveFcb, delivered)
  <2> HIDE DEF Connection, s
  <2> QED BY <1>2, <1>4, <1>5 DEF SameButFor
<1> SUFFICES Ex(conn', down')
  BY <1>1 DEF ExchangeNow
<1>7. /\ ConnectionOK(conn[s], s \in Foreign, slaveFcb[s], delivered[s])
      /\ \A t \in Slaves : Live(conn, t) => t = s
  BY <1>2, <1>3 DEF Exchange, ConnectionsOK
<1>8. slaveFcb[s] \in BOOLEAN /\ (s \in Foreign) \in BOOLEAN
  BY <1>2 DEF BusTypeOK
<1> DEFINE c == conn[s]
<1>9. StaysOK(c, c2) => ConnectionOK(c2, s \in Foreign, slaveFcb[s], delivered[s])
  <2> HIDE DEF s
  <2> QED BY <1>7, <1>8 DEF StaysOK
<1>10. Live(conn', s) = c2.waiting /\ Live(conn, s) = c.waiting
  BY <1>6 DEF Live
<1>11. ASSUME Unused(s, s, down, up), StaysOK(c, c2)
       PROVE  /\ Ex(conn', down)
              /\ NoneLive(conn, s, down, up) => NoneLive(conn', s, down, up)
  <2> HIDE DEF s, c
  <2> QED BY <1>2, <1>3, <1>5, <1>6, <1>9, <1>11, LoneChange
<1>12. ASSUME Ex(conn', down), NEW f \in DownFrame, f.to = s, RequestOK(f, c2),
              down' = Append(down, f), NoneLive(conn', s, down, up)
       PROVE  Ex(conn', down')
  <2>1. f \in Frames
    BY DEF Frames
  <2> HIDE DEF s, c, Frames, DownFrame
  <2> QED BY <1>2, <1>5, <1>6, <1>12, <2>1, RequestSent
<1>13. CASE LetsBe(c, c2)
  <2>1. conn' = conn
    <3> HIDE DEF Connection
    <3> QED BY <1>2, <1>4, <1>5, <1>13 DEF LetsBe
  <2> QED BY <1>3, <1>13, <2>1 DEF LetsBe
<1>14. ASSUME ~ c.waiting, c.primaryState # "respond"
       PROVE  Unused(s, s, down, up) /\ NoneLive(conn, s, down, up)
  <2>1. Unused(s, s, down, up)
    BY <1>2, <1>3, <1>10, <1>14, UnusedIf
  <2>2. \A t \in Slaves : ~ Live(conn, t)
    BY <1>7, <1>10, <1>14
  <2>3. NoneLive(conn, s, down, up)
    BY <1>3, <2>2 DEF NoneLive, Exchange, RequestsOK, AnswersOK
  <2> QED BY <2>1, <2>3
<1>15. CASE Turns(c, c2)
  <2>1. Unused(s, s, down, up)
    <3>1. CASE late' \/ Silent
      BY <3>1, SilentIs
    <3>2. CASE ~ c.waiting /\ c.primaryState \in {"idle", "reset"}
      BY <1>14, <3>2
    <3>3. CASE c.waiting /\ c.primaryState = "idle"
      BY <1>2, <1>3, <1>10, <3>3, UnusedIf
    <3> QED BY <1>15, <3>1, <3>2, <3>3 DEF Turns
  <2> QED BY <1>11, <1>15, <2>1 DEF Turns
<1>16. CASE Begins(c, c2)
  <2>1. ~ c.waiting /\ c.primaryState # "respond"
    BY <1>7, <1>16 DEF Begins, ConnectionOK
  <2>2. Ex(conn', down) /\ NoneLive(conn', s, down, up)
    BY <1>11, <1>14, <1>16, <2>1 DEF Begins
  <2>3. PICK f \in DownFrame : f.to = s /\ RequestOK(f, c2) /\ down' = Append(down, f)
    BY <1>16 DEF Begins
  <2> QED BY <1>12, <2>2, <2>3
<1>17. CASE Repeats(c, c2)
  <2>1. Unused(s, s, down, up) /\ NoneLive(conn, s, down, up)
    BY <1>17, SilentIs DEF Repeats
  <2>2. Ex(conn', down) /\ NoneLive(conn', s, down, up)
    BY <1>11, <1>17, <2>1 DEF Repeats
  <2>3. c.waiting \/ c.primaryState = "respond"
    BY <1>7, <1>17 DEF Repeats, ConnectionOK
  <2>4. PICK f \in DownFrame : f.to = s /\ RequestOK(f, c2) /\ down' = Append(down, f)
    BY <1>17, <2>3 DEF Repeats
  <2> QED BY <1>12, <2>2, <2>4
<1> QED BY <1>4, <1>13, <1>15, <1>16, <1>17 DEF RunOf

(* The answer the master reads.                                            *)
LEMMA HandleKeeps ==
  ASSUME BusTypeOK, ExchangeNow, HandleMessage
  PROVE  /\ ExchangeNow'
         /\ Head(up).fc = "USER_DATA" => conn[Sender(Head(up))].primaryState = "respond"
<1> DEFINE f == Head(up)
           s == Sender(f)
           c == conn[s]
           h == Handled(c, f)
           Ex(cn, dn) == Exchange(cn, slaveFcb, delivered, currentSlave, dn, Tail(up))
<1>1. /\ currentSlave' = currentSlave /\ slaveFcb' = slaveFcb /\ delivered' = delivered
      /\ up # << >> /\ up' = Tail(up) /\ conn' = [conn EXCEPT ![s] = h]
      /\ down' = IF f.fc = "STATUS_OF_LINK" /\ ~ f.dfc /\ c.primaryState = "status"
                   THEN Append(down, Service(s, "RESET_REMOTE_LINK")) ELSE down
  BY DEF HandleMessage
<1>2. /\ down \in Seq(Frames) /\ up \in Seq(Frames) /\ Tail(up) \in Seq(Frames)
      /\ f \in UpFrame /\ conn \in [Slaves -> Connection]
  <2>1. down \in Seq(Frames) /\ up \in Seq(Frames) /\ up \in Seq(UpFrame)
    BY LineIs DEF BusTypeOK
  <2> HIDE DEF UpFrame, Frames
  <2> QED BY <1>1, <2>1 DEF BusTypeOK
<1>3. s = Owner(f, currentSlave)
  BY DEF Sender, Owner
<1>4. /\ Ex(conn, down) /\ s \in Slaves
      /\ AnswerOK(f, c, s \in Foreign, slaveFcb[s], delivered[s])
      /\ Live(conn, s) => NoneLive(conn, currentSlave, down, Tail(up))
  <2> HIDE DEF Frames, s, f
  <2> QED BY <1>1, <1>2, <1>3, AnswerGone DEF ExchangeNow, f
<1>5. c \in Connection /\ slaveFcb[s] \in BOOLEAN /\ (s \in Foreign) \in BOOLEAN
  <2> HIDE DEF s, Connection
  <2> QED BY <1>2, <1>4 DEF BusTypeOK
<1>6. /\ ConnectionOK(c, s \in Foreign, slaveFcb[s], delivered[s])
      /\ Live(conn, s) => s = currentSlave
  BY <1>4 DEF Exchange, ConnectionsOK
<1>7. /\ ConnectionOK(h, s \in Foreign, slaveFcb[s], delivered[s])
      /\ ~ c.waiting => h.primaryState = "respond" /\ ~ h.waiting /\ f.fc = "NACK"
      /\ f.fc = "STATUS_OF_LINK" => h.primaryState = "reset" /\ h.waiting
  <2> DEFINE foreign == s \in Foreign
             fcb == slaveFcb[s]
             given == delivered[s]
  <2>1. /\ foreign \in BOOLEAN /\ fcb \in BOOLEAN /\ f \in UpFrame /\ c \in Connection
        /\ ConnectionOK(c, foreign, fcb, given) /\ AnswerOK(f, c, foreign, fcb, given)
    BY <1>2, <1>4, <1>5, <1>6
  <2> HIDE DEF s, c, f, UpFrame, Connection, foreign, fcb, given
  <2>2. ConnectionOK(h, foreign, fcb, given)
    BY <2>1, AnswerHandled
  <2>3. /\ ~ c.waiting => h.primaryState = "respond" /\ ~ h.waiting /\ f.fc = "NACK"
        /\ f.fc = "STATUS_OF_LINK" => h.primaryState = "reset" /\ h.waiting
    BY <2>1, AnswerHandled
  <2> QED BY <2>2, <2>3 DEF foreign, fcb, given
<1>8. h \in Connection /\ h.nextFcb = c.nextFcb
  <2> HIDE DEF s, c, f, UpFrame, Connection
  <2> QED BY <1>2, <1>5, HandledIs
<1> HIDE DEF h, s, c, f, UpFrame, Connection, Frames
<1>9. /\ conn'[s] = h
      /\ SameButFor(s, conn, slaveFcb, delivered, conn', slaveFcb, delivered)
      /\ Live(conn', s) = h.waiting /\ Live(conn, s) = c.waiting
  BY <1>1, <1>2, <1>4 DEF SameButFor, Live, c
<1>10. f.fc = "USER_DATA" => c.primaryState = "respond"
  BY <1>4 DEF AnswerOK
<1>11. CASE c.waiting
  <2>1. Unused(s, currentSlave, down, Tail(up))
    BY <1>4, <1>9, <1>11, UnusedIf
  <2>2. Ex(conn', down) /\ NoneLive(conn', currentSlave, down, Tail(up))
    BY <1>2, <1>4, <1>6, <1>7, <1>9, <1>11, <2>1, LoneChange
  <2>3. CASE down' = down
    BY <1>1, <1>10, <2>2, <2>3 DEF ExchangeNow, s, f, c
  <2>4. CASE down' # down
    <3> DEFINE g == Service(s, "RESET_REMOTE_LINK")
    <3>1. f.fc = "STATUS_OF_LINK" /\ down' = Append(down, g)
      BY <1>1, <2>4
    <3>2. g.to = s /\ g.fc = "RESET_REMOTE_LINK" /\ g \in Frames
      <4>1. g \in DownFrame
        BY <1>4 DEF Service, DownFrame, MasterServices, Messages
      <4> QED BY <4>1 DEF Frames, Service
    <3> HIDE DEF g
    <3>3. RequestOK(g, conn'[g.to])
      BY <1>7, <1>9, <3>1, <3>2 DEF RequestOK
    <3>4. Ex(conn', down')
      BY <1>2, <1>4, <2>2, <3>1, <3>2, <3>3, RequestSent
    <3> QED BY <1>1, <1>10, <3>4 DEF ExchangeNow, s, f, c
  <2> QED BY <2>3, <2>4
<1>12. CASE ~ c.waiting
  <2>1. /\ f.fc = "NACK" /\ h.primaryState = "respond" /\ ~ h.waiting
        /\ c.primaryState = "respond" /\ s \in Foreign /\ down' = down
    BY <1>1, <1>4, <1>7, <1>12 DEF AnswerOK
  <2>2. \A g : RequestOK(g, c) => RequestOK(g, h)
    BY <1>8, <1>12, <2>1 DEF RequestOK
  <2>3. \A g : AnswerOK(g, c, s \in Foreign, slaveFcb[s], delivered[s])
                 => AnswerOK(g, h, s \in Foreign, slaveFcb[s], delivered[s])
    BY <1>12, <2>1 DEF AnswerOK
  <2>4. Live(conn', s) <=> Live(conn, s)
    BY <1>9, <1>12, <2>1
  <2>5. Ex(conn', down)
    <3>1. conn[s] = c
      BY DEF c
    <3> QED BY <1>2, <1>4, <1>7, <1>9, <2>2, <2>3, <2>4, <3>1, QuietChange
  <2> QED BY <1>1, <1>10, <2>1, <2>5 DEF ExchangeNow, s, f, c
<1>13. c.waiting \in BOOLEAN
  BY <1>5 DEF Connection
<1> QED BY <1>11, <1>12

-----------------------------------------------------------------------------
(* A slave answers a request, which is that of the connection that waits:  *)
(* its other requests have a count bit the slave does not expect.          *)
LEMMA RequestTaken ==
  ASSUME BusTypeOK, ExchangeNow, NEW s \in Slaves, down # << >>, Head(down).to = s,
         InOrder(s, Head(down))
  PROVE  conn[s].waiting /\ RequestOK(Head(down), conn[s])
<1> DEFINE f == Head(down)
           c == conn[s]
<1>1. down \in Seq(Frames) /\ up \in Seq(Frames)
  BY LineIs
<1>2. RequestOK(f, c) /\ ConnectionOK(c, s \in Foreign, slaveFcb[s], delivered[s])
  <2> HIDE DEF Frames
  <2> QED BY <1>1, RequestGone DEF ExchangeNow, Exchange, ConnectionsOK
<1>3. c.nextFcb \in BOOLEAN /\ c.waiting \in BOOLEAN
  BY DEF BusTypeOK, Connection
<1>4. CASE ~ c.waiting
  <2>1. f.fcv /\ f.fcb = ~ c.nextFcb /\ c.nextFcb = slaveFcb[s]
    BY <1>2, <1>4 DEF RequestOK, ConnectionOK
  <2> QED BY <1>3, <2>1 DEF InOrder
<1> QED BY <1>2, <1>4

LEMMA AnsweredKeeps ==
  ASSUME BusTypeOK, ExchangeNow, NEW s \in Slaves, down # << >>, Head(down).to = s,
         NEW g \in UpFrame, Owner(g, currentSlave) = s, conn[s].waiting,
         AnswerOK(g, conn[s], s \in Foreign, slaveFcb'[s], delivered'[s]),
         \A id : Given(delivered[s], id) => Given(delivered'[s], id),
         \A t \in Slaves \ {s} : slaveFcb'[t] = slaveFcb[t] /\ delivered'[t] = delivered[t],
         conn' = conn, currentSlave' = currentSlave, down' = Tail(down), up' = Append(up, g)
  PROVE  ExchangeNow'
<1> DEFINE Ex(fb, gv, an) == Exchange(conn, fb, gv, currentSlave, Tail(down), an)
<1>1. down \in Seq(Frames) /\ up \in Seq(Frames) /\ Tail(down) \in Seq(Frames) /\ g \in Frames
  <2>1. down \in Seq(Frames) /\ up \in Seq(Frames) /\ g \in Frames
    BY LineIs DEF Frames
  <2> HIDE DEF Frames
  <2> QED BY <2>1
<1> HIDE DEF Frames, UpFrame
<1>2. /\ Ex(slaveFcb, delivered, up) /\ NoneLive(conn, currentSlave, Tail(down), up)
      /\ Live(conn, s)
  BY <1>1, RequestGone DEF ExchangeNow, Live
<1>3. ConnectionOK(conn[s], s \in Foreign, slaveFcb[s], delivered[s]) /\ s = currentSlave
  BY <1>2 DEF Exchange, ConnectionsOK
<1>4. ConnectionOK(conn[s], s \in Foreign, slaveFcb'[s], delivered'[s])
  BY <1>3 DEF ConnectionOK
<1>5. SameButFor(s, conn, slaveFcb, delivered, conn, slaveFcb', delivered')
  BY DEF SameButFor
<1>6. Unused(s, currentSlave, Tail(down), up)
  BY <1>2, UnusedIf
<1>7. Ex(slaveFcb', delivered', up)
  BY <1>1, <1>2, <1>3, <1>4, <1>5, <1>6, LoneChange
<1>8. Ex(slaveFcb', delivered', Append(up, g))
  BY <1>1, <1>2, <1>7, AnswerSent
<1> QED BY <1>8 DEF ExchangeNow

(* A slave's answers.                                                      *)
LEMMA AnswersAre ==
  ASSUME NEW s \in Slaves, NEW acd \in BOOLEAN, NEW asdu \in Reported
  PROVE  /\ \A fc \in SlaveAnswers : Answer(s, fc, acd) \in UpFrame
         /\ Acks(s, acd) \in UpFrame /\ Without(s, acd) \in UpFrame
         /\ UserData(s, asdu, acd) \in UpFrame
<1>1. NoEntry \in Entries /\ asdu \in Entries /\ s # Nobody /\ FALSE \in BOOLEAN
  BY DEF Entries, Slaves, Nobody
<1>2. \A fc \in SlaveAnswers : Answer(s, fc, acd) \in UpFrame
  <2> HIDE DEF Entries, Reported, NoEntry, Slaves
  <2> QED BY <1>1 DEF Answer, UpFrame
<1>3. SingleChar \in UpFrame
  <2> HIDE DEF Entries, Reported, NoEntry, Slaves
  <2> QED BY <1>1 DEF SingleChar, Answer, UpFrame, SlaveAnswers
<1>4. UserData(s, asdu, acd) \in UpFrame
  <2> HIDE DEF Entries, Reported, NoEntry, Slaves
  <2> QED BY <1>1 DEF UserData, UpFrame, SlaveAnswers
<1>5. "ACK" \in SlaveAnswers /\ "NO_DATA" \in SlaveAnswers
  BY DEF SlaveAnswers
<1> HIDE DEF UpFrame, SlaveAnswers
<1> QED BY <1>2, <1>3, <1>4, <1>5 DEF Acks, Without

(* They belong to the slave, even a single character: the connection that  *)

(* waits is that of the slave that was sent to last.                       *)
LEMMA OwnersAre ==
  ASSUME NEW s \in Slaves, s = currentSlave, NEW acd, NEW asdu
  PROVE  /\ \A fc : LET g == Answer(s, fc, acd) IN Owner(g, currentSlave) = s /\ g.fc = fc
         /\ LET g == Acks(s, acd) IN Owner(g, currentSlave) = s /\ g.fc = "ACK"
         /\ LET g == Without(s, acd) IN Owner(g, currentSlave) = s /\ g.fc \in {"ACK", "NO_DATA"}
         /\ LET g == UserData(s, asdu, acd) IN Owner(g, currentSlave) = s /\ g.fc = "USER_DATA"
<1>1. s # Nobody
  BY DEF Slaves, Nobody
<1> QED BY <1>1 DEF Acks, Without, Answer, UserData, SingleChar, Owner

(* The number of a message.                                                *)
LEMMA NumberIs ==
  ASSUME NEW f \in DownFrame, f.fc = "USER_DATA_CONFIRMED"
  PROVE  f.asdu.id \in Nat
<1>1. \A n \in Nat, kind \in Commands : Command(n, kind).id \in Nat
  BY DEF Command
<1>2. f.asdu \in Commanded
  BY DEF DownFrame
<1> QED BY <1>1, <1>2 DEF Commanded

(* What the steps of a slave make of its request.                          *)
SlaveAnswered(s) ==
  LET f == Head(down)
  IN  /\ down # << >> /\ f.to = s /\ InOrder(s, f) /\ down' = Tail(down)
      /\ UNCHANGED <<conn, currentSlave, currentSlaveIndex>>
      /\ slaveFcb' = [slaveFcb EXCEPT ![s] = IF f.fc = "RESET_REMOTE_LINK" THEN TRUE
                                            ELSE IF f.fcv THEN ~@ ELSE @]
      /\ \E g \in UpFrame :
           /\ up' = Append(up, g) /\ (s = currentSlave => Owner(g, currentSlave) = s)
           /\ taken' = taken + AsOne(g)
           /\ \/ /\ f.fc = "REQUEST_LINK_STATUS" /\ g.fc = "STATUS_OF_LINK"
              \/ /\ f.fc = "RESET_REMOTE_LINK" /\ g.fc = "ACK"
              \/ /\ f.fc = "TEST_FUNCTION" /\ g.fc = "NOT_IMPLEMENTED"
              \/ /\ f.fc \in {"CLASS_1", "CLASS_2"} /\ g.fc \in {"ACK", "NO_DATA", "USER_DATA"}
              \/ /\ f.fc = "USER_DATA_CONFIRMED" /\ g.fc = "ACK"
      /\ IF f.fc = "USER_DATA_CONFIRMED"
           THEN delivered' = [delivered EXCEPT ![s] = Append(@, f.asdu.id)]
           ELSE delivered' = delivered

LEMMA SlaveAnsweredKeeps ==
  ASSUME BusTypeOK, ExchangeNow, NEW s \in Slaves, SlaveAnswered(s)
  PROVE  ExchangeNow'
<1> DEFINE f == Head(down)
           c == conn[s]
<1>1. c.waiting /\ RequestOK(f, c)
  BY RequestTaken DEF SlaveAnswered
<1>2. ConnectionOK(c, s \in Foreign, slaveFcb[s], delivered[s]) /\ s = currentSlave
  BY <1>1 DEF ExchangeNow, Exchange, ConnectionsOK, Live
<1>3. PICK g \in UpFrame :
        /\ up' = Append(up, g) /\ Owner(g, currentSlave) = s
        /\ \/ /\ f.fc = "REQUEST_LINK_STATUS" /\ g.fc = "STATUS_OF_LINK"
           \/ /\ f.fc = "RESET_REMOTE_LINK" /\ g.fc = "ACK"
           \/ /\ f.fc = "TEST_FUNCTION" /\ g.fc = "NOT_IMPLEMENTED"
           \/ /\ f.fc \in {"CLASS_1", "CLASS_2"} /\ g.fc \in {"ACK", "NO_DATA", "USER_DATA"}
           \/ /\ f.fc = "USER_DATA_CONFIRMED" /\ g.fc = "ACK"
  BY <1>2 DEF SlaveAnswered
<1>4. /\ slaveFcb \in [Slaves -> BOOLEAN] /\ delivered \in [Slaves -> Seq(Nat)]
      /\ c \in Connection /\ down \in Seq(DownFrame) /\ f \in DownFrame
  <2>1. down \in Seq(DownFrame) /\ down # << >>
    BY DEF BusTypeOK, SlaveAnswered
  <2> HIDE DEF DownFrame, Connection
  <2> QED BY <2>1 DEF BusTypeOK
<1>5. /\ f.asdu \in Messages /\ c.nextFcb \in BOOLEAN
      /\ f.fcv <=> f.fc \notin {"RESET_REMOTE_LINK", "REQUEST_LINK_STATUS"}
      /\ f.fc = "USER_DATA_CONFIRMED" => f.asdu \in Commanded
  BY <1>4 DEF DownFrame, Connection
<1>6. f.fc = "USER_DATA_CONFIRMED" => f.asdu.id \in Nat
  BY <1>4, NumberIs
<1>7. /\ slaveFcb'[s] = IF f.fc = "RESET_REMOTE_LINK" THEN TRUE
                         ELSE IF f.fcv THEN ~ slaveFcb[s] ELSE slaveFcb[s]
      /\ delivered'[s] = IF f.fc = "USER_DATA_CONFIRMED" THEN Append(delivered[s], f.asdu.id)
                         ELSE delivered[s]
      /\ \A t \in Slaves \ {s} : slaveFcb'[t] = slaveFcb[t] /\ delivered'[t] = delivered[t]
  BY <1>4 DEF SlaveAnswered
<1>8. /\ \A id : Given(delivered[s], id) => Given(delivered'[s], id)
      /\ f.fc = "USER_DATA_CONFIRMED" => Given(delivered'[s], f.asdu.id)
  <2>1. CASE f.fc # "USER_DATA_CONFIRMED"
    BY <1>7, <2>1
  <2>2. CASE f.fc = "USER_DATA_CONFIRMED"
    <3> DEFINE q == delivered[s]
               n == f.asdu.id
               t == Append(q, n)
    <3>1. q \in Seq(Nat) /\ n \in Nat /\ delivered'[s] = t
      BY <1>4, <1>6, <1>7, <2>2
    <3> HIDE DEF q, n
    <3>2. /\ Len(q) \in Nat /\ Len(t) = Len(q) + 1 /\ t[Len(q) + 1] = n
          /\ \A i \in 1..Len(q) : t[i] = q[i] /\ i \in 1..Len(t)
      BY <3>1
    <3> HIDE DEF t
    <3>3. Given(t, n) /\ \A id : Given(q, id) => Given(t, id)
      BY <3>2 DEF Given
    <3> QED BY <3>1, <3>3 DEF q, n
  <2> QED BY <2>1, <2>2
<1>9. f.fcv => f.fcb = slaveFcb[s]
  BY DEF SlaveAnswered, InOrder
<1>10. AnswerOK(g, c, s \in Foreign, slaveFcb'[s], delivered'[s])
  <2>1. f.fcv => slaveFcb'[s] = c.nextFcb /\ c.primaryState \in {"sendConfirm", "respond"}
    BY <1>1, <1>4, <1>5, <1>7, <1>9 DEF RequestOK
  <2>2. CASE f.fc = "REQUEST_LINK_STATUS"
    BY <1>1, <1>3, <1>5, <2>2 DEF RequestOK, AnswerOK
  <2>3. CASE f.fc = "RESET_REMOTE_LINK"
    BY <1>1, <1>3, <1>5, <1>7, <2>3 DEF RequestOK, AnswerOK
  <2>4. CASE f.fc = "TEST_FUNCTION"
    BY <1>1, <1>3, <1>5, <2>1, <2>4 DEF RequestOK, AnswerOK
  <2>5. CASE f.fc \in {"CLASS_1", "CLASS_2"}
    BY <1>1, <1>3, <1>5, <2>1, <2>5 DEF RequestOK, AnswerOK
  <2>6. CASE f.fc = "USER_DATA_CONFIRMED"
    BY <1>1, <1>3, <1>5, <1>8, <2>1, <2>6 DEF RequestOK, AnswerOK
  <2> QED BY <1>3, <2>2, <2>3, <2>4, <2>5, <2>6
<1> HIDE DEF UpFrame, DownFrame
<1> QED BY <1>1, <1>3, <1>7, <1>8, <1>10, AnsweredKeeps DEF SlaveAnswered

(* One that is busy.                                                       *)
LEMMA RefuseBusyKeeps ==
  ASSUME BusTypeOK, ExchangeNow, NEW s \in Slaves, RefuseBusy(s)
  PROVE  ExchangeNow'
<1> DEFINE f == Head(down)
           c == conn[s]
<1>1. /\ s \in Foreign /\ down # << >> /\ f.to = s /\ down' = Tail(down)
      /\ slaveFcb' = [slaveFcb EXCEPT ![s] = IF f.fcv THEN ~ f.fcb ELSE @]
      /\ conn' = conn /\ currentSlave' = currentSlave /\ delivered' = delivered
  BY DEF RefuseBusy, ToSlave, link, busHistory
<1>2. PICK g \in UpFrame : up' = Append(up, g) /\ g.from = s /\ g.fc = "NACK"
  <2>1. PICK dfc \in BOOLEAN :
          up' = Append(up, [from |-> s, fc |-> "NACK", acd |-> FALSE, dfc |-> dfc,
                              asdu |-> NoEntry])
    BY DEF RefuseBusy
  <2>2. NoEntry \in Entries /\ s # Nobody
    BY DEF Entries, Slaves, Nobody
  <2> DEFINE g == [from |-> s, fc |-> "NACK", acd |-> FALSE, dfc |-> dfc, asdu |-> NoEntry]
  <2>3. g \in UpFrame /\ g.from = s /\ g.fc = "NACK"
    <3> HIDE DEF Entries, NoEntry, Slaves
    <3> QED BY <2>2 DEF UpFrame, SlaveAnswers
  <2> HIDE DEF g
  <2> QED BY <2>1, <2>3 DEF g
<1>3. Owner(g, currentSlave) = s
  BY <1>2 DEF Owner, Slaves, Nobody
<1>4. /\ slaveFcb \in [Slaves -> BOOLEAN] /\ c \in Connection
      /\ down \in Seq(Frames) /\ up \in Seq(Frames) /\ Tail(down) \in Seq(Frames) /\ g \in Frames
  <2>1. down \in Seq(Frames) /\ up \in Seq(Frames) /\ g \in Frames
    BY LineIs DEF Frames
  <2> HIDE DEF Frames, Connection
  <2> QED BY <1>1, <2>1 DEF BusTypeOK
<1>5. c.nextFcb \in BOOLEAN /\ c.waiting \in BOOLEAN
  BY <1>4 DEF Connection
<1> HIDE DEF Frames, UpFrame, DownFrame, Connection
<1>6. /\ RequestOK(f, c) /\ ConnectionOK(c, s \in Foreign, slaveFcb[s], delivered[s])
      /\ Exchange(conn, slaveFcb, delivered, currentSlave, Tail(down), up)
  BY <1>1, <1>4, RequestGone DEF ExchangeNow, Exchange, ConnectionsOK
<1>7. /\ slaveFcb'[s] = IF f.fcv THEN ~ f.fcb ELSE slaveFcb[s]
      /\ \A t \in Slaves \ {s} : slaveFcb'[t] = slaveFcb[t]
  BY <1>1, <1>4
<1>8. CASE c.waiting
  <2>1. AnswerOK(g, c, s \in Foreign, slaveFcb'[s], delivered'[s])
    BY <1>1, <1>2, <1>5, <1>6, <1>7, <1>8 DEF AnswerOK, RequestOK
  <2> QED BY <1>1, <1>2, <1>3, <1>7, <1>8, <2>1, AnsweredKeeps
<1>9. CASE ~ c.waiting
  <2>1. /\ f.fcv /\ f.fcb = ~ c.nextFcb /\ c.primaryState = "respond" /\ c.nextFcb = slaveFcb[s]
    BY <1>6, <1>9 DEF RequestOK, ConnectionOK
  <2>2. slaveFcb' = slaveFcb
    <3>1. slaveFcb'[s] = slaveFcb[s]
      BY <1>5, <1>7, <2>1
    <3> QED BY <1>1, <1>4, <3>1
  <2>3. AnswerOK(g, c, s \in Foreign, slaveFcb[s], delivered[s])
    BY <1>1, <1>2, <1>9, <2>1 DEF AnswerOK
  <2>4. ~ Live(conn, s)
    BY <1>9 DEF Live
  <2>5. Exchange(conn, slaveFcb, delivered, currentSlave, Tail(down), Append(up, g))
    BY <1>3, <1>4, <1>6, <2>3, <2>4, AnswerSent
  <2> QED BY <1>1, <1>2, <2>2, <2>5 DEF ExchangeNow
<1> QED BY <1>8, <1>9

(* A frame is lost, or a repeat is rejected.                               *)
LEMMA LostKeeps ==
  ASSUME BusTypeOK, ExchangeNow, UNCHANGED <<conn, currentSlave, slaveFcb, delivered>>,
         \/ down # << >> /\ down' = Tail(down) /\ up' = up
         \/ up # << >> /\ up' = Tail(up) /\ down' = down
  PROVE  ExchangeNow'
<1>1. down \in Seq(Frames) /\ up \in Seq(Frames)
  BY LineIs
<1> HIDE DEF Frames
<1> QED BY <1>1, RequestGone, AnswerGone DEF ExchangeNow

(* The calls of the master's application do not disturb the exchange.      *)
LEMMA CallKeeps ==
  ASSUME BusTypeOK, ExchangeNow, NEW s \in Slaves, NEW c2 \in Connection,
         conn' = [conn EXCEPT ![s] = c2],
         /\ c2.primaryState = conn[s].primaryState /\ c2.waiting = conn[s].waiting
         /\ c2.nextFcb = conn[s].nextFcb,
         \/ c2.message = conn[s].message /\ c2.hasMessage = conn[s].hasMessage
         \/ ~ conn[s].hasMessage /\ c2.hasMessage,
         UNCHANGED <<slaveFcb, currentSlave, down, up, delivered>>
  PROVE  ExchangeNow'
<1> DEFINE c == conn[s]
<1>1. /\ down \in Seq(Frames) /\ up \in Seq(Frames) /\ conn \in [Slaves -> Connection]
      /\ c \in Connection
  <2> HIDE DEF Connection, Frames
  <2> QED BY LineIs DEF BusTypeOK
<1>2. ConnectionOK(c, s \in Foreign, slaveFcb[s], delivered[s])
  BY DEF ExchangeNow, Exchange, ConnectionsOK
<1>3. /\ c.primaryState = "sendConfirm" => c.hasMessage
      /\ c.hasMessage => c.message \in Commanded
  BY <1>1 DEF Connection
<1> HIDE DEF c, Connection, Frames
<1>4. /\ conn'[s] = c2 /\ Live(conn', s) = Live(conn, s)
      /\ SameButFor(s, conn, slaveFcb, delivered, conn', slaveFcb, delivered)
  BY <1>1 DEF SameButFor, Live
<1>5. ConnectionOK(c2, s \in Foreign, slaveFcb[s], delivered[s])
  BY <1>2 DEF ConnectionOK, c
<1>6. \A g : RequestOK(g, c) => RequestOK(g, c2)
  BY <1>3 DEF RequestOK, c
<1>7. \A g : AnswerOK(g, c, s \in Foreign, slaveFcb[s], delivered[s])
               => AnswerOK(g, c2, s \in Foreign, slaveFcb[s], delivered[s])
  BY <1>3 DEF AnswerOK, c
<1>8. Exchange(conn', slaveFcb, delivered, currentSlave, down, up)
  <2>1. conn[s] = c
    BY DEF c
  <2> QED BY <1>1, <1>4, <1>5, <1>6, <1>7, <2>1, QuietChange DEF ExchangeNow
<1> QED BY <1>8 DEF ExchangeNow

-----------------------------------------------------------------------------
(* The types of the bus. What the master's state machine changes,          *)
LEMMA RunTypes ==
  ASSUME BusTypeOK, RunStateMachine
  PROVE  BusTypeOK'
<1>1. /\ currentSlave' = Current /\ UNCHANGED <<slaveFcb, class1, class2, up, delivered,
                                               received, taken>>
      /\ currentSlaveIndex' = IF Keeps THEN currentSlaveIndex ELSE (Current % NumSlaves) + 1
  BY DEF RunStateMachine, Begin, ResetRemoteLink, ResetAnswered, SendTestFunction, SendUserData,
         RequestData, Expire, Pass, RequestStatus, ResetTimeout, Repeat, GiveUp, Select, busHistory,
         queues
<1>2. Current \in Slaves /\ currentSlave' \in Slaves
  BY <1>1, CurrentIs
<1>3. currentSlaveIndex' \in Slaves
  BY <1>1, <1>2, UnbalancedAssumption DEF BusTypeOK, Slaves
<1>4. PICK c2 \in Connection :
        /\ RunOf(c2)
        /\ conn' = [conn EXCEPT ![Current] = c2] \/ (conn' = conn /\ c2 = conn[Current])
  BY RunIs
<1>5. conn' \in [Slaves -> Connection]
  <2> HIDE DEF Connection
  <2> QED BY <1>2, <1>4 DEF BusTypeOK
<1>6. down' = down \/ \E f \in DownFrame : down' = Append(down, f)
  BY <1>4 DEF RunOf, LetsBe, Turns, Begins, Repeats
<1>7. down' \in Seq(DownFrame)
  <2> HIDE DEF DownFrame
  <2>1. down \in Seq(DownFrame)
    BY DEF BusTypeOK
  <2> QED BY <1>6, <2>1, SequencesOf
<1>8. currentSlave' # Nobody
  BY <1>2 DEF Slaves, Nobody
<1> HIDE DEF Slaves, Connection, DownFrame, UpFrame, Entries, Reported
<1> QED BY <1>1, <1>2, <1>3, <1>5, <1>7, <1>8 DEF BusTypeOK

(* an answer,                                                              *)
LEMMA HandleTypes ==
  ASSUME BusTypeOK, HandleMessage
  PROVE  BusTypeOK'
<1> DEFINE f == Head(up)
           s == Sender(f)
           c == conn[s]
           g == Service(s, "RESET_REMOTE_LINK")
<1>1. /\ UNCHANGED <<currentSlave, currentSlaveIndex, slaveFcb, class1, class2, delivered, taken>>
      /\ up # << >> /\ up' = Tail(up) /\ conn' = [conn EXCEPT ![s] = Handled(c, f)]
      /\ down' = down \/ down' = Append(down, g)
      /\ received' = received \/ received' = Append(received, f.asdu)
  BY DEF HandleMessage, queues
<1>2. f \in UpFrame /\ up' \in Seq(UpFrame) /\ conn \in [Slaves -> Connection]
  <2> HIDE DEF UpFrame, Connection
  <2> QED BY <1>1 DEF BusTypeOK
<1>3. f.asdu \in Entries /\ f.from \in Slaves \union {Nobody}
  BY <1>2 DEF UpFrame
<1>4. currentSlave # Nobody
  BY <1>1 DEF BusTypeOK, Silent
<1>5. s \in Slaves
  BY <1>3, <1>4 DEF BusTypeOK, Sender
<1>6. g \in DownFrame
  BY <1>5 DEF Service, DownFrame, MasterServices, Messages
<1> HIDE DEF Slaves, Connection, DownFrame, UpFrame, Entries, Reported, f, s, g
<1>7. Handled(c, f) \in Connection
  BY <1>2, <1>5, HandledIs
<1>8. conn' \in [Slaves -> Connection]
  BY <1>1, <1>2, <1>5, <1>7
<1>9. down' \in Seq(DownFrame) /\ received' \in Seq(Entries)
  <2>1. down \in Seq(DownFrame) /\ received \in Seq(Entries)
    BY DEF BusTypeOK
  <2> QED BY <1>1, <1>3, <1>6, <2>1, SequencesOf
<1> QED BY <1>1, <1>2, <1>4, <1>8, <1>9 DEF BusTypeOK

-----------------------------------------------------------------------------
(* The steps of a slave are those told above.                              *)
LEMMA AnswersOf ==
  ASSUME BusTypeOK, NEW s \in Slaves, AnswerService(s) \/ AnswerRequest(s) \/ HandleUserData(s)
  PROVE  /\ SlaveAnswered(s) /\ UNCHANGED <<received, bounds>>
         /\ class1' \in [Slaves -> Seq(Reported)] /\ class2' \in [Slaves -> Seq(Reported)]
<1> DEFINE f == Head(down)
<1>1. /\ down # << >> /\ f.to = s /\ InOrder(s, f) /\ down' = Tail(down)
      /\ UNCHANGED <<conn, currentSlave, currentSlaveIndex, received, bounds>>
      /\ slaveFcb' = [slaveFcb EXCEPT ![s] = IF f.fc = "RESET_REMOTE_LINK" THEN TRUE
                                            ELSE IF f.fcv THEN ~@ ELSE @]
  BY DEF AnswerService, AnswerRequest, HandleUserData, Accepted, ToSlave, link
<1>2. /\ class1 \in [Slaves -> Seq(Reported)] /\ class2 \in [Slaves -> Seq(Reported)]
      /\ delivered \in [Slaves -> Seq(Nat)] /\ taken \in Nat
  BY DEF BusTypeOK
<1> DEFINE Answered(g) ==
             /\ g \in UpFrame /\ up' = Append(up, g)
             /\ (s = currentSlave => Owner(g, currentSlave) = s) /\ taken' = taken + AsOne(g)
             /\ \/ /\ f.fc = "REQUEST_LINK_STATUS" /\ g.fc = "STATUS_OF_LINK"
                \/ /\ f.fc = "RESET_REMOTE_LINK" /\ g.fc = "ACK"
                \/ /\ f.fc = "TEST_FUNCTION" /\ g.fc = "NOT_IMPLEMENTED"
                \/ /\ f.fc \in {"CLASS_1", "CLASS_2"} /\ g.fc \in {"ACK", "NO_DATA", "USER_DATA"}
                \/ /\ f.fc = "USER_DATA_CONFIRMED" /\ g.fc = "ACK"
<1>3. ASSUME NEW g, Answered(g), NEW q1 \in Seq(Reported), NEW q2 \in Seq(Reported),
             class1' = [class1 EXCEPT ![s] = q1], class2' = [class2 EXCEPT ![s] = q2],
             IF f.fc = "USER_DATA_CONFIRMED"
               THEN delivered' = [delivered EXCEPT ![s] = Append(@, f.asdu.id)]
               ELSE delivered' = delivered
      PROVE  /\ SlaveAnswered(s)
             /\ class1' \in [Slaves -> Seq(Reported)] /\ class2' \in [Slaves -> Seq(Reported)]
  <2>1. class1' \in [Slaves -> Seq(Reported)] /\ class2' \in [Slaves -> Seq(Reported)]
    <3> HIDE DEF Reported
    <3> QED BY <1>2, <1>3
  <2> HIDE DEF UpFrame
  <2> QED BY <1>1, <1>3, <2>1 DEF SlaveAnswered
<1> HIDE DEF Answered, UpFrame, Reported
<1>4. \A acd \in BOOLEAN, asdu \in Reported :
        /\ \A fc \in SlaveAnswers :
             /\ Answer(s, fc, acd) \in UpFrame
             /\ s = currentSlave => Owner(Answer(s, fc, acd), currentSlave) = s
        /\ \A g \in {Acks(s, acd), Without(s, acd), UserData(s, asdu, acd)} :
             g \in UpFrame /\ (s = currentSlave => Owner(g, currentSlave) = s)
  BY AnswersAre, OwnersAre
<1>5. \A acd, asdu, fc :
        /\ Answer(s, fc, acd).fc = fc /\ Acks(s, acd).fc = "ACK"
        /\ Without(s, acd).fc \in {"ACK", "NO_DATA"} /\ UserData(s, asdu, acd).fc = "USER_DATA"
  BY DEF Acks, Without, Answer, UserData, SingleChar
<1>6. \E e : e \in Reported
  <2>1. Event(0) \in Reported
    BY DEF Reported
  <2> QED BY <2>1
<1>7. taken + 0 = taken
  BY <1>2
<1>8. /\ class1[s] \in Seq(Reported) /\ class2[s] \in Seq(Reported)
      /\ class1 = [class1 EXCEPT ![s] = class1[s]] /\ class2 = [class2 EXCEPT ![s] = class2[s]]
  BY <1>2
<1>9. \A q : (q # << >>) \in BOOLEAN /\ FALSE \in BOOLEAN
  OBVIOUS
<1>10. CASE AnswerService(s)
  <2>1. class1' = class1 /\ class2' = class2 /\ delivered' = delivered /\ taken' = taken
    BY <1>10 DEF AnswerService, queues
  <2>2. \/ /\ f.fc = "REQUEST_LINK_STATUS"
           /\ up' = Append(up, Answer(s, "STATUS_OF_LINK", class1[s] # << >>))
        \/ f.fc = "RESET_REMOTE_LINK" /\ up' = Append(up, Acks(s, FALSE))
        \/ f.fc = "TEST_FUNCTION" /\ up' = Append(up, Answer(s, "NOT_IMPLEMENTED", FALSE))
    BY <1>10 DEF AnswerService
  <2>3. {"STATUS_OF_LINK", "NOT_IMPLEMENTED"} \subseteq SlaveAnswers
    BY DEF SlaveAnswers
  <2>4. \E g : Answered(g)
    <3> DEFINE acd == class1[s] # << >>
    <3>1. acd \in BOOLEAN
      OBVIOUS
    <3> HIDE DEF acd
    <3>2. CASE f.fc = "REQUEST_LINK_STATUS" /\ up' = Append(up, Answer(s, "STATUS_OF_LINK", acd))
      <4>1. Answered(Answer(s, "STATUS_OF_LINK", acd))
        BY <1>4, <1>5, <1>6, <1>7, <2>1, <2>3, <3>1, <3>2 DEF Answered, AsOne
      <4> QED BY <4>1
    <3>3. CASE f.fc = "RESET_REMOTE_LINK" /\ up' = Append(up, Acks(s, FALSE))
      <4>1. Answered(Acks(s, FALSE))
        BY <1>4, <1>5, <1>6, <1>7, <1>9, <2>1, <3>3 DEF Answered, AsOne
      <4> QED BY <4>1
    <3>4. CASE f.fc = "TEST_FUNCTION" /\ up' = Append(up, Answer(s, "NOT_IMPLEMENTED", FALSE))
      <4>1. Answered(Answer(s, "NOT_IMPLEMENTED", FALSE))
        BY <1>4, <1>5, <1>6, <1>7, <1>9, <2>1, <2>3, <3>4 DEF Answered, AsOne
      <4> QED BY <4>1
    <3> QED BY <2>2, <3>2, <3>3, <3>4 DEF acd
  <2>5. f.fc # "USER_DATA_CONFIRMED"
    BY <2>2
  <2> QED BY <1>1, <1>3, <1>8, <2>1, <2>4, <2>5
<1>11. CASE AnswerRequest(s)
  <2> DEFINE queue == IF f.fc = "CLASS_1" THEN class1[s] ELSE class2[s]
             demand == class1'[s] # << >>
  <2>1. /\ f.fc \in {"CLASS_1", "CLASS_2"} /\ delivered' = delivered
        /\ class1' = [class1 EXCEPT ![s] = IF f.fc = "CLASS_1" THEN Rest(@) ELSE @]
        /\ class2' = [class2 EXCEPT ![s] = IF f.fc = "CLASS_2" THEN Rest(@) ELSE @]
        /\ up' = Append(up, IF queue = << >> THEN Without(s, demand)
                            ELSE UserData(s, Head(queue), demand))
        /\ taken' = IF queue = << >> THEN taken ELSE taken + 1
    BY <1>11 DEF AnswerRequest
  <2>2. queue \in Seq(Reported)
    BY <1>8
  <2> HIDE DEF queue, demand
  <2>3. queue # << >> => Head(queue) \in Reported
    BY <2>2, SequencesOf
  <2>4. demand \in BOOLEAN
    BY DEF demand
  <2>5. CASE queue = << >>
    <3>1. Answered(Without(s, demand))
      BY <1>4, <1>5, <1>6, <1>7, <2>1, <2>4, <2>5 DEF Answered, AsOne
    <3> QED BY <1>1, <1>3, <1>8, <2>1, <3>1, SequencesOf
  <2>6. CASE queue # << >>
    <3>1. Answered(UserData(s, Head(queue), demand))
      BY <1>4, <1>5, <2>1, <2>3, <2>4, <2>6 DEF Answered, AsOne
    <3> QED BY <1>1, <1>3, <1>8, <2>1, <3>1, SequencesOf
  <2> QED BY <2>5, <2>6
<1>12. CASE HandleUserData(s)
  <2> DEFINE m == f.asdu
             demand == class1'[s] # << >>
  <2>1. /\ f.fc = "USER_DATA_CONFIRMED" /\ taken' = taken /\ class2' = class2
        /\ delivered' = [delivered EXCEPT ![s] = Append(@, m.id)]
        /\ class1' = [class1 EXCEPT ![s] = AfterReplies(@, m)]
        /\ up' = Append(up, Acks(s, demand))
    BY <1>12 DEF HandleUserData
  <2>2. f \in DownFrame
    <3>1. down \in Seq(DownFrame)
      BY DEF BusTypeOK
    <3> HIDE DEF DownFrame
    <3> QED BY <1>1, <3>1
  <2>3. m \in Commanded
    BY <2>1, <2>2 DEF DownFrame
  <2>4. Reply(m.id) \in Reported
    <3>1. \A n \in Nat, kind \in Commands : Reply(Command(n, kind).id) \in Reported
      BY DEF Command, Reported
    <3> QED BY <2>3, <3>1 DEF Commanded
  <2> HIDE DEF demand, m
  <2>5. AfterReplies(class1[s], m) \in Seq(Reported)
    BY <1>8, <2>3, <2>4, RepliesAre
  <2>6. demand \in BOOLEAN
    BY DEF demand
  <2>7. Answered(Acks(s, demand))
    BY <1>4, <1>5, <1>6, <1>7, <2>1, <2>6 DEF Answered, AsOne
  <2>8. class1' = [class1 EXCEPT ![s] = AfterReplies(class1[s], m)]
        /\ class2' = [class2 EXCEPT ![s] = class2[s]]
    BY <1>8, <2>1
  <2> QED BY <1>1, <1>3, <1>8, <2>1, <2>5, <2>7, <2>8 DEF m
<1> QED BY <1>10, <1>11, <1>12

-----------------------------------------------------------------------------
(* What no fault has cost. A frame that is lost may be an ASDU.            *)
Accounted == taken <= Len(received) + Cardinality(Data(up)) + faults

(* The lengths and numbers that are counted.                               *)
LEMMA Counts ==
  ASSUME BusTypeOK, CallsOK
  PROVE  taken \in Nat /\ Len(received) \in Nat /\ Cardinality(Data(up)) \in Nat /\ faults \in Nat
<1>1. /\ taken \in Nat /\ received \in Seq(Entries) /\ up \in Seq(UpFrame) /\ faults \in Nat
  BY DEF BusTypeOK, CallsOK
<1> HIDE DEF Entries, UpFrame
<1> QED BY <1>1, DataIs

(* Nothing is taken, sent or read.                                         *)
LEMMA QuietAccount ==
  ASSUME BusTypeOK, CallsOK, CallsOK', Accounted, faults <= faults',
         UNCHANGED <<taken, received, up>>
  PROVE  Accounted'
<1>1. faults' \in Nat
  BY DEF CallsOK
<1> QED BY <1>1, Counts DEF Accounted

(* An answer is read: its ASDU is received.                                *)
LEMMA ReadAccount ==
  ASSUME BusTypeOK, CallsOK, Accounted, faults' = faults, taken' = taken,
         up # << >>, up' = Tail(up),
         received' = IF Head(up).fc = "USER_DATA" THEN Append(received, Head(up).asdu)
                     ELSE received
  PROVE  Accounted'
<1>1. up \in Seq(UpFrame) /\ received \in Seq(Entries)
  BY DEF BusTypeOK
<1>2. Len(received') = Len(received) + AsOne(Head(up)) /\ Len(received) \in Nat
  BY <1>1 DEF AsOne
<1>3. /\ Cardinality(Data(up)) = Cardinality(Data(Tail(up))) + AsOne(Head(up))
      /\ Cardinality(Data(Tail(up))) \in Nat
  <2> HIDE DEF UpFrame
  <2> QED BY <1>1, DataGone
<1>4. AsOne(Head(up)) \in Nat
  BY DEF AsOne
<1> QED BY <1>2, <1>3, <1>4, Counts DEF Accounted

(* An answer is sent: its ASDU was taken.                                  *)
LEMMA SentAccount ==
  ASSUME BusTypeOK, CallsOK, CallsOK', Accounted, faults <= faults', UNCHANGED received,
         NEW g \in UpFrame, up' = Append(up, g), taken' = taken + AsOne(g)
  PROVE  Accounted'
<1>1. up \in Seq(UpFrame) /\ faults' \in Nat
  BY DEF BusTypeOK, CallsOK
<1>2. Cardinality(Data(up')) = Cardinality(Data(up)) + AsOne(g)
  <2> HIDE DEF UpFrame
  <2> QED BY <1>1, DataSent
<1>3. AsOne(g) \in Nat
  BY DEF AsOne
<1> QED BY <1>1, <1>2, <1>3, Counts DEF Accounted

(* A frame is lost: it may have been an ASDU, and is a fault.              *)
LEMMA LostAccount ==
  ASSUME BusTypeOK, CallsOK, Accounted, faults' = faults + 1, UNCHANGED <<taken, received>>,
         up' = up \/ (up # << >> /\ up' = Tail(up))
  PROVE  Accounted'
<1>1. up \in Seq(UpFrame)
  BY DEF BusTypeOK
<1>2. CASE up' = up
  BY <1>2, Counts DEF Accounted
<1>3. CASE up # << >> /\ up' = Tail(up)
  <2>1. /\ Cardinality(Data(up)) = Cardinality(Data(Tail(up))) + AsOne(Head(up))
        /\ Cardinality(Data(Tail(up))) \in Nat
    <3> HIDE DEF UpFrame
    <3> QED BY <1>1, <1>3, DataGone
  <2> QED BY <1>3, <2>1, Counts DEF Accounted, AsOne
<1> QED BY <1>2, <1>3

-----------------------------------------------------------------------------
(* The invariant of the unbalanced mode, and each of its steps.            *)
BusOK == BusTypeOK /\ (~ late => ExchangeNow /\ Accounted)

Counted3 == CallsOK /\ CallsOK' /\ faults <= faults' /\ (late => late')

(* The master reads an answer or runs its state machine.                   *)
LEMMA MasterStep ==
  ASSUME BusOK, Counted3, HandleMessage \/ RunStateMachine
  PROVE  BusOK'
<1>1. CASE HandleMessage
  <2>1. BusTypeOK'
    BY <1>1, HandleTypes DEF BusOK
  <2>2. ASSUME ~ late' PROVE ExchangeNow' /\ Accounted'
    <3>1. /\ ExchangeNow' /\ ExchangeNow /\ Accounted
          /\ Head(up).fc = "USER_DATA" => conn[Sender(Head(up))].primaryState = "respond"
      BY <1>1, <2>2, HandleKeeps DEF BusOK, Counted3
    <3>2. /\ faults' = faults /\ taken' = taken /\ up # << >> /\ up' = Tail(up)
          /\ received' = IF Head(up).fc = "USER_DATA" THEN Append(received, Head(up).asdu)
                         ELSE received
      BY <1>1, <3>1 DEF HandleMessage, bounds
    <3> QED BY <3>1, <3>2, ReadAccount DEF BusOK, Counted3
  <2> QED BY <2>1, <2>2 DEF BusOK
<1>2. CASE RunStateMachine
  <2>1. BusTypeOK'
    BY <1>2, RunTypes DEF BusOK
  <2>2. ASSUME ~ late' PROVE ExchangeNow' /\ Accounted'
    <3>1. UNCHANGED <<taken, received, up>>
      BY <1>2 DEF RunStateMachine, Begin, ResetRemoteLink, ResetAnswered, SendTestFunction,
         SendUserData, RequestData, Expire, Pass, RequestStatus, ResetTimeout, Repeat, GiveUp,
         Select, busHistory
    <3> QED BY <1>2, <2>2, <3>1, RunKeeps, QuietAccount DEF BusOK, Counted3
  <2> QED BY <2>1, <2>2 DEF BusOK
<1> QED BY <1>1, <1>2

(* A slave answers a request, or ignores it.                               *)
LEMMA SlaveStepKeeps ==
  ASSUME BusOK, Counted3, NEW s \in Slaves, SlaveStep(s)
  PROVE  BusOK'
<1>1. CASE RejectRepeated(s)
  <2>1. /\ down # << >> /\ down' = Tail(down)
        /\ UNCHANGED <<conn, currentSlave, currentSlaveIndex, slaveFcb, class1, class2, up,
                       delivered, received, taken>>
    BY <1>1 DEF RejectRepeated, ToSlave, link, queues, busHistory
  <2>2. BusTypeOK'
    <3>1. down' \in Seq(DownFrame)
      <4>1. down \in Seq(DownFrame)
        BY DEF BusOK, BusTypeOK
      <4> HIDE DEF DownFrame
      <4> QED BY <2>1, <4>1
    <3>2. currentSlave # Nobody
      BY <2>1 DEF BusOK, BusTypeOK, Silent
    <3> HIDE DEF Slaves, Connection, DownFrame, UpFrame, Entries, Reported
    <3> QED BY <2>1, <3>1, <3>2 DEF BusOK, BusTypeOK
  <2> QED BY <2>1, <2>2, LostKeeps, QuietAccount DEF BusOK, Counted3
<1>2. CASE AnswerService(s) \/ AnswerRequest(s) \/ HandleUserData(s)
  <2>1. /\ SlaveAnswered(s) /\ UNCHANGED received
        /\ class1' \in [Slaves -> Seq(Reported)] /\ class2' \in [Slaves -> Seq(Reported)]
    BY <1>2, AnswersOf DEF BusOK
  <2>2. /\ down # << >> /\ down' = Tail(down)
        /\ UNCHANGED <<conn, currentSlave, currentSlaveIndex>>
        /\ \E g \in UpFrame : up' = Append(up, g) /\ taken' = taken + AsOne(g)
    BY <2>1 DEF SlaveAnswered
  <2>3. BusTypeOK'
    <3>1. down' \in Seq(DownFrame) /\ up' \in Seq(UpFrame) /\ Head(down) \in DownFrame
      <4>1. down \in Seq(DownFrame) /\ up \in Seq(UpFrame)
        BY DEF BusOK, BusTypeOK
      <4> HIDE DEF DownFrame, UpFrame
      <4> QED BY <2>2, <4>1, SequencesOf
    <3>2. currentSlave # Nobody
      BY <2>2 DEF BusOK, BusTypeOK, Silent
    <3>3. slaveFcb' \in [Slaves -> BOOLEAN] /\ slaveFcb \in [Slaves -> BOOLEAN]
      BY <2>1 DEF SlaveAnswered, BusOK, BusTypeOK
    <3>4. delivered' \in [Slaves -> Seq(Nat)]
      <4>1. delivered \in [Slaves -> Seq(Nat)]
        BY DEF BusOK, BusTypeOK
      <4>2. Head(down).fc = "USER_DATA_CONFIRMED" => Head(down).asdu.id \in Nat
        BY <3>1, NumberIs
      <4>3. CASE Head(down).fc = "USER_DATA_CONFIRMED"
        <5> DEFINE n == Head(down).asdu.id
        <5>1. delivered' = [delivered EXCEPT ![s] = Append(@, n)] /\ n \in Nat
          BY <2>1, <4>2, <4>3 DEF SlaveAnswered
        <5> HIDE DEF n
        <5> QED BY <4>1, <5>1
      <4>4. CASE Head(down).fc # "USER_DATA_CONFIRMED"
        BY <2>1, <4>1, <4>4 DEF SlaveAnswered
      <4> QED BY <4>3, <4>4
    <3>5. taken' \in Nat
      BY <2>2 DEF BusOK, BusTypeOK, AsOne
    <3> HIDE DEF Slaves, Connection, DownFrame, UpFrame, Entries, Reported
    <3> QED BY <2>1, <2>2, <3>1, <3>2, <3>3, <3>4, <3>5 DEF BusOK, BusTypeOK
  <2>4. ASSUME ~ late' PROVE ExchangeNow' /\ Accounted'
    <3>1. PICK g \in UpFrame : up' = Append(up, g) /\ taken' = taken + AsOne(g)
      BY <2>2
    <3> HIDE DEF UpFrame
    <3> QED BY <2>1, <2>4, <3>1, SlaveAnsweredKeeps, SentAccount DEF BusOK, Counted3
  <2> QED BY <2>3, <2>4 DEF BusOK
<1> QED BY <1>1, <1>2 DEF SlaveStep

(* A frame is lost, or refused by a slave of another make.                 *)
LEMMA LineStep ==
  ASSUME BusOK, Counted3, LoseFrame \/ \E s \in Slaves : RefuseBusy(s)
  PROVE  BusOK'
<1>1. /\ down \in Seq(DownFrame) /\ up \in Seq(UpFrame) /\ BusTypeOK
      /\ slaveFcb \in [Slaves -> BOOLEAN] /\ faults' = faults + 1
  BY DEF BusOK, BusTypeOK, LoseFrame, RefuseBusy, LineFault, Fault
<1>2. CASE LoseFrame
  <2>1. /\ UNCHANGED <<conn, currentSlave, currentSlaveIndex, slaveFcb, class1, class2, delivered,
                       received, taken>>
        /\ \/ down # << >> /\ down' = Tail(down) /\ up' = up
           \/ up # << >> /\ up' = Tail(up) /\ down' = down
    BY <1>2 DEF LoseFrame, link, queues, busHistory
  <2>2. BusTypeOK'
    <3>1. down' \in Seq(DownFrame) /\ up' \in Seq(UpFrame)
      <4> HIDE DEF DownFrame, UpFrame
      <4> QED BY <1>1, <2>1, SequencesOf
    <3>2. currentSlave # Nobody
      BY <1>1, <2>1 DEF BusTypeOK, Silent
    <3> HIDE DEF Slaves, Connection, DownFrame, UpFrame, Entries, Reported
    <3> QED BY <1>1, <2>1, <3>1, <3>2 DEF BusTypeOK
  <2>3. ASSUME ~ late' PROVE ExchangeNow' /\ Accounted'
    <3>1. ExchangeNow /\ Accounted
      BY <2>3 DEF BusOK, Counted3
    <3> QED BY <1>1, <2>1, <3>1, LostKeeps, LostAccount DEF Counted3
  <2> QED BY <2>2, <2>3 DEF BusOK
<1>3. ASSUME NEW s \in Slaves, RefuseBusy(s) PROVE BusOK'
  <2>1. /\ down # << >> /\ down' = Tail(down)
        /\ UNCHANGED <<conn, currentSlave, currentSlaveIndex, class1, class2, delivered,
                       received, taken>>
        /\ slaveFcb' = [slaveFcb EXCEPT ![s] = IF Head(down).fcv THEN ~ Head(down).fcb ELSE @]
    BY <1>3 DEF RefuseBusy, ToSlave, link, queues, busHistory
  <2>2. PICK g \in UpFrame : up' = Append(up, g) /\ g.fc = "NACK"
    <3>1. PICK dfc \in BOOLEAN :
            up' = Append(up, [from |-> s, fc |-> "NACK", acd |-> FALSE, dfc |-> dfc,
                              asdu |-> NoEntry])
      BY <1>3 DEF RefuseBusy
    <3>2. NoEntry \in Entries /\ s # Nobody
      BY DEF Entries, Slaves, Nobody
    <3> DEFINE g == [from |-> s, fc |-> "NACK", acd |-> FALSE, dfc |-> dfc, asdu |-> NoEntry]
    <3>3. g \in UpFrame /\ g.fc = "NACK"
      <4> HIDE DEF Entries, NoEntry, Slaves
      <4> QED BY <3>2 DEF UpFrame, SlaveAnswers
    <3> HIDE DEF g
    <3> QED BY <3>1, <3>3 DEF g
  <2>3. BusTypeOK'
    <3>1. down' \in Seq(DownFrame) /\ up' \in Seq(UpFrame)
      <4> HIDE DEF DownFrame, UpFrame
      <4> QED BY <1>1, <2>1, <2>2, SequencesOf
    <3>2. currentSlave # Nobody
      BY <1>1, <2>1 DEF BusTypeOK, Silent
    <3>3. slaveFcb' \in [Slaves -> BOOLEAN]
      BY <1>1, <2>1
    <3> HIDE DEF Slaves, Connection, DownFrame, UpFrame, Entries, Reported
    <3> QED BY <1>1, <2>1, <3>1, <3>2, <3>3 DEF BusTypeOK
  <2>4. ASSUME ~ late' PROVE ExchangeNow' /\ Accounted'
    <3>1. ExchangeNow /\ Accounted
      BY <2>4 DEF BusOK, Counted3
    <3>2. taken' = taken + AsOne(g)
      BY <1>1, <2>1, <2>2 DEF AsOne, BusTypeOK
    <3> HIDE DEF UpFrame
    <3> QED BY <1>1, <1>3, <2>1, <2>2, <3>1, <3>2, RefuseBusyKeeps, SentAccount DEF Counted3
  <2> QED BY <2>3, <2>4 DEF BusOK
<1> QED BY <1>2, <1>3

(* The calls of the applications. What changes of a connection is what the *)

(* exchange does not rest on.                                              *)
LEMMA CallStep ==
  ASSUME BusOK, Counted3, NEW s \in Slaves,
         Poll(s) \/ RequestTest(s) \/ \E kind \in Commands : SendASDU(s, kind)
  PROVE  BusOK'
<1> DEFINE c == conn[s]
<1>1. /\ BusTypeOK /\ conn \in [Slaves -> Connection] /\ c \in Connection
      /\ UNCHANGED <<currentSlave, currentSlaveIndex, slaveFcb, class1, class2, down, up,
                     delivered, received, taken>>
  <2>1. conn \in [Slaves -> Connection]
    BY DEF BusOK, BusTypeOK
  <2>2. c \in Connection
    <3> HIDE DEF Connection
    <3> QED BY <2>1
  <2> QED BY <2>1, <2>2 DEF Poll, RequestTest, SendASDU, queues, line, busHistory, BusOK
<1>2. \/ conn' = conn
      \/ \E c2 \in Connection :
           /\ conn' = [conn EXCEPT ![s] = c2]
           /\ c2.primaryState = c.primaryState /\ c2.waiting = c.waiting /\ c2.nextFcb = c.nextFcb
           /\ \/ c2.message = c.message /\ c2.hasMessage = c.hasMessage
              \/ ~ c.hasMessage /\ c2.hasMessage
  <2>1. CASE Poll(s)
    <3> DEFINE c2 == [c EXCEPT !.requestClass2Data = TRUE]
    <3>1. conn' = [conn EXCEPT ![s] = c2]
      BY <1>1, <2>1 DEF Poll
    <3>2. /\ c2 \in Connection
          /\ c2.primaryState = c.primaryState /\ c2.waiting = c.waiting /\ c2.nextFcb = c.nextFcb
          /\ c2.message = c.message /\ c2.hasMessage = c.hasMessage
      BY <1>1 DEF Connection
    <3> HIDE DEF c2, c
    <3> QED BY <3>1, <3>2
  <2>2. CASE RequestTest(s)
    <3> DEFINE c2 == [c EXCEPT !.testFunction = TRUE]
    <3>1. conn' = [conn EXCEPT ![s] = c2]
      BY <1>1, <2>2 DEF RequestTest
    <3>2. /\ c2 \in Connection
          /\ c2.primaryState = c.primaryState /\ c2.waiting = c.waiting /\ c2.nextFcb = c.nextFcb
          /\ c2.message = c.message /\ c2.hasMessage = c.hasMessage
      BY <1>1 DEF Connection
    <3> HIDE DEF c2, c
    <3> QED BY <3>1, <3>2
  <2>3. ASSUME NEW kind \in Commands, SendASDU(s, kind), conn' # conn
        PROVE  \E c2 \in Connection :
                 /\ conn' = [conn EXCEPT ![s] = c2]
                 /\ c2.primaryState = c.primaryState /\ c2.waiting = c.waiting
                 /\ c2.nextFcb = c.nextFcb /\ ~ c.hasMessage /\ c2.hasMessage
    <3> DEFINE m == Command(messages + 1, kind)
               c2 == [c EXCEPT !.hasMessage = TRUE, !.message = m]
    <3>1. conn' = [conn EXCEPT ![s] = c2] /\ ~ c.hasMessage
      BY <1>1, <2>3 DEF SendASDU, Accepts
    <3>2. m \in Commanded /\ m \in Messages
      <4>1. messages + 1 \in Nat
        BY DEF Counted3, CallsOK
      <4> QED BY <4>1 DEF Commanded, Messages
    <3> HIDE DEF m
    <3>3. /\ c2 \in Connection /\ c2.hasMessage
          /\ c2.primaryState = c.primaryState /\ c2.waiting = c.waiting /\ c2.nextFcb = c.nextFcb
      <4> HIDE DEF Commanded, Messages
      <4> QED BY <1>1, <3>2 DEF Connection
    <3> HIDE DEF c2, c
    <3> QED BY <3>1, <3>3
  <2> HIDE DEF Connection, c
  <2> QED BY <2>1, <2>2, <2>3
<1>3. BusTypeOK'
  <2>1. conn' \in [Slaves -> Connection]
    <3> HIDE DEF Connection
    <3> QED BY <1>1, <1>2
  <2>2. Silent' <=> Silent
    BY <1>1 DEF Silent
  <2> HIDE DEF Slaves, Connection, DownFrame, UpFrame, Entries, Reported, Silent
  <2> QED BY <1>1, <2>1, <2>2 DEF BusTypeOK
<1>4. ExchangeNow => ExchangeNow'
  <2>1. CASE conn' = conn
    BY <1>1, <2>1 DEF ExchangeNow
  <2> HIDE DEF Connection
  <2> QED BY <1>1, <1>2, <2>1, CallKeeps
<1>5. Accounted /\ ~ late => Accounted'
  BY <1>1, QuietAccount DEF Counted3
<1> QED BY <1>3, <1>4, <1>5 DEF BusOK, Counted3

(* A slave has something to report.                                        *)
LEMMA EventStep ==
  ASSUME BusOK, Counted3, NEW s \in Slaves, EnqueueUserData(s)
  PROVE  BusOK'
<1>1. /\ BusTypeOK
      /\ UNCHANGED <<conn, currentSlave, currentSlaveIndex, slaveFcb, down, up, delivered, received,
                     taken>>
      /\ \/ /\ class1' = [class1 EXCEPT ![s] = Put(@, Event(events + 1), QueueSize)]
            /\ class2' = class2
         \/ /\ class2' = [class2 EXCEPT ![s] = Put(@, Event(events + 1), QueueSize)]
            /\ class1' = class1
  BY DEF EnqueueUserData, link, line, busHistory, BusOK
<1>2. Event(events + 1) \in Reported
  <2>1. events + 1 \in Nat
    BY DEF Counted3, CallsOK
  <2> QED BY <2>1 DEF Reported
<1>3. class1' \in [Slaves -> Seq(Reported)] /\ class2' \in [Slaves -> Seq(Reported)]
  <2>1. class1 \in [Slaves -> Seq(Reported)] /\ class2 \in [Slaves -> Seq(Reported)]
    BY <1>1 DEF BusTypeOK
  <2>2. /\ Put(class1[s], Event(events + 1), QueueSize) \in Seq(Reported)
        /\ Put(class2[s], Event(events + 1), QueueSize) \in Seq(Reported)
    <3> HIDE DEF Reported
    <3> QED BY <1>2, <2>1, SequencesOf
  <2> HIDE DEF Reported
  <2> QED BY <1>1, <2>1, <2>2
<1>4. BusTypeOK'
  <2>1. Silent' <=> Silent
    BY <1>1 DEF Silent
  <2> HIDE DEF Slaves, Connection, DownFrame, UpFrame, Entries, Reported, Silent
  <2> QED BY <1>1, <1>3, <2>1 DEF BusTypeOK
<1>5. ExchangeNow => ExchangeNow'
  BY <1>1 DEF ExchangeNow
<1> QED BY <1>1, <1>4, <1>5, QuietAccount DEF BusOK, Counted3

(* The other mode leaves the bus alone.                                    *)
LEMMA QuietBus == ASSUME BusOK, Counted3, UNCHANGED busState PROVE BusOK'
<1>1. /\ BusTypeOK
      /\ UNCHANGED <<conn, currentSlave, currentSlaveIndex, slaveFcb, class1, class2, down, up,
                     delivered, received, taken>>
  BY DEF busState, link, queues, line, busHistory, BusOK
<1>2. BusTypeOK'
  <2>1. Silent' <=> Silent
    BY <1>1 DEF Silent
  <2> HIDE DEF Slaves, Connection, DownFrame, UpFrame, Entries, Reported, Silent
  <2> QED BY <1>1, <2>1 DEF BusTypeOK
<1>3. ExchangeNow => ExchangeNow'
  BY <1>1 DEF ExchangeNow
<1> QED BY <1>1, <1>2, <1>3, QuietAccount DEF BusOK, Counted3

(* At the start the line is silent and every connection idle.              *)
LEMMA InitBus == BusInit => BusOK
<1> SUFFICES ASSUME BusInit PROVE BusOK
  OBVIOUS
<1>1. FreshConnection \in Connection
  BY DEF FreshConnection, Connection, Messages, LinkLayerState, PrimaryLinkLayerState
<1>2. /\ conn = [s \in Slaves |-> FreshConnection] /\ slaveFcb = [s \in Slaves |-> TRUE]
      /\ currentSlave = Nobody /\ currentSlaveIndex = 1 /\ 1 \in Slaves
      /\ class1 = [s \in Slaves |-> << >>] /\ class2 = [s \in Slaves |-> << >>]
      /\ down = << >> /\ up = << >> /\ delivered = [s \in Slaves |-> << >>]
      /\ received = << >> /\ taken = 0 /\ faults = 0
  BY UnbalancedAssumption DEF BusInit, BoundsInit, Slaves
<1>3. BusTypeOK
  <2> HIDE DEF Slaves, Connection, DownFrame, UpFrame, Entries, Reported, FreshConnection, Nobody
  <2> QED BY <1>1, <1>2 DEF BusTypeOK, Silent
<1>4. ExchangeNow
  <2>1. \A s \in Slaves : ConnectionOK(conn[s], s \in Foreign, slaveFcb[s], delivered[s])
                          /\ ~ Live(conn, s)
    <3> SUFFICES ASSUME NEW s \in Slaves
                 PROVE  ConnectionOK(conn[s], s \in Foreign, slaveFcb[s], delivered[s])
                        /\ ~ Live(conn, s)
      OBVIOUS
    <3>1. /\ conn[s].primaryState = "idle" /\ ~ conn[s].waiting /\ conn[s].message.id = 0
      BY <1>2 DEF FreshConnection, NoMessage
    <3> QED BY <3>1 DEF ConnectionOK, Live
  <2>2. /\ \A i \in 1..Len(down) : FALSE
        /\ \A i \in 1..Len(up) : FALSE
    BY <1>2
  <2> QED BY <2>1, <2>2 DEF ExchangeNow, Exchange, ConnectionsOK, RequestsOK, AnswersOK, OneLive
<1>5. Accounted
  <2>1. Data(up) = {}
    BY <1>2 DEF Data
  <2> QED BY <1>2, <2>1, FS_EmptySet DEF Accounted
<1> QED BY <1>3, <1>4, <1>5 DEF BusOK

-----------------------------------------------------------------------------
UnbalancedOK == CallsOK /\ BusOK

(* Every step of either mode keeps it.                                     *)
LEMMA UnbalancedStep == ASSUME UnbalancedOK, [Next]_vars PROVE UnbalancedOK'
<1>1. BusOK /\ Counted3
  BY CallsStep DEF UnbalancedOK, Counted3
<1>2. UNCHANGED busState => BusOK'
  BY <1>1, QuietBus
<1>3. ASSUME BusNext PROVE BusOK'
  <2>1. \A s \in Acting : s \in Slaves
    BY UnbalancedAssumption DEF Slaves
  <2> QED BY <1>1, <1>3, <2>1, MasterStep, SlaveStepKeeps, LineStep, CallStep, EventStep DEF BusNext
<1>4. BusOK'
  BY <1>2, <1>3 DEF Next, InUnbalanced, InBalanced, vars
<1> QED BY <1>1, <1>4 DEF UnbalancedOK, Counted3

(* It holds at the start.                                                  *)
LEMMA InitUnbalanced == Init => UnbalancedOK
BY InitBus, InitBalanced DEF Init, BalancedOK, UnbalancedOK

(* In unbalanced mode the count bits of a connection that is available and *)
(* of its slave agree: the slave takes the next frame for a new one and    *)
(* not for a repeat of the last (checkFCB), unless an answer came after    *)
(* its time-out; for any number of slaves, size of queues, number of       *)
(* repeats, calls and faults.                                              *)
THEOREM CountsAgree == Spec => []FrameCountsAgree
<1>1. UnbalancedOK => FrameCountsAgree
  BY DEF UnbalancedOK, BusOK, ExchangeNow, Exchange, ConnectionsOK, ConnectionOK, FrameCountsAgree
<1> QED BY <1>1, InitUnbalanced, UnbalancedStep, PTL DEF Spec

(* In unbalanced mode each fault of the line costs at most one of the      *)
(* ASDUs that slaves have taken from their queues and of which they keep   *)
(* no copy, unless an answer came after its time-out; for any number of    *)
(* slaves, size of queues, number of repeats, calls and faults.            *)
THEOREM LossIsCounted == Spec => []LostOnlyByFaults
<1>1. UnbalancedOK => LostOnlyByFaults
  BY DEF UnbalancedOK, BusOK, Accounted, Data, LostOnlyByFaults, OnTheWay
<1> QED BY <1>1, InitUnbalanced, UnbalancedStep, PTL DEF Spec

(* In either mode an ASDU its sender takes for confirmed was given to the  *)
(* application it was for, whatever is lost or repeated and whichever      *)
(* station is busy, unless an answer came after its time-out or, in        *)
(* balanced mode, a test was asked for; for any number of slaves, size of  *)
(* queues, number of repeats, calls and faults.                            *)
THEOREM ConfirmedHolds == Spec => []ConfirmedIsDelivered
<1>1. UnbalancedOK /\ BalancedOK /\ PairConfirmed => ConfirmedIsDelivered
  <2> SUFFICES ASSUME UnbalancedOK, BalancedOK, PairConfirmed, ~ late
               PROVE  /\ \A s \in Slaves :
                           conn[s].message.id > 0 /\ ~ conn[s].hasMessage
                             => conn[s].message.id \in NumbersOf(delivered[s])
                      /\ tests = 0
                           => \A x \in Stations : confirmed[x] \subseteq NumbersOf(got[Other(x)])
    BY DEF ConfirmedIsDelivered
  <2>1. \A q \in Seq(Nat) : \A n : Given(q, n) => n \in NumbersOf(q)
    BY DEF Given, NumbersOf
  <2>2. ASSUME NEW s \in Slaves, conn[s].message.id > 0, ~ conn[s].hasMessage
        PROVE  conn[s].message.id \in NumbersOf(delivered[s])
    <3>1. Given(delivered[s], conn[s].message.id)
      BY <2>2 DEF UnbalancedOK, BusOK, ExchangeNow, Exchange, ConnectionsOK, ConnectionOK
    <3>2. delivered[s] \in Seq(Nat)
      BY DEF UnbalancedOK, BusOK, BusTypeOK
    <3> QED BY <2>1, <3>1, <3>2
  <2>3. ASSUME tests = 0, NEW x \in Stations, NEW n \in confirmed[x]
        PROVE  n \in NumbersOf(got[Other(x)])
    <3>1. Given(got[Other(x)], n)
      BY <2>3 DEF PairConfirmed, PairExchange
    <3>2. got[Other(x)] \in Seq(Nat)
      BY Others DEF BalancedOK, PairOrderOK, PairTypeOK, StationOK
    <3> QED BY <2>1, <3>1, <3>2
  <2> QED BY <2>2, <2>3
<1>2. Init => UnbalancedOK /\ BalancedOK /\ PairConfirmed
  BY InitUnbalanced, InitBalanced, InitPairConfirmed DEF Init
<1>3. UnbalancedOK /\ BalancedOK /\ PairConfirmed /\ [Next]_vars
        => UnbalancedOK' /\ BalancedOK' /\ PairConfirmed'
  BY UnbalancedStep, BalancedStep, PairConfirmedStep
<1> QED BY <1>1, <1>2, <1>3, PTL DEF Spec

-----------------------------------------------------------------------------
(* The limits of the queues and of the repeats, in both modes.             *)
Short(queue) == Len(queue) <= QueueSize

(* A queue takes an entry, gives one, or takes replies within its ring.    *)
LEMMA StaysShort ==
  ASSUME NEW S, NEW queue \in Seq(S), Short(queue)
  PROVE  /\ Short(Rest(queue))
         /\ \A e \in S : Put(queue, e, QueueSize) \in Seq(S) /\ Short(Put(queue, e, QueueSize))
<1>1. QueueSize \in Nat /\ QueueSize > 0
  BY LinkLayerAssumption
<1>2. ASSUME NEW e \in S
      PROVE  Put(queue, e, QueueSize) \in Seq(S) /\ Short(Put(queue, e, QueueSize))
  <2>1. CASE Len(queue) < QueueSize
    BY <1>1, <2>1 DEF Put, Short
  <2>2. CASE ~ Len(queue) < QueueSize
    <3>1. queue # << >> /\ Len(Tail(queue)) = Len(queue) - 1 /\ Tail(queue) \in Seq(S)
      BY <1>1, <2>2
    <3>2. Put(queue, e, QueueSize) = Append(Tail(queue), e)
      BY <2>2 DEF Put
    <3>3. Len(Append(Tail(queue), e)) = Len(queue) /\ Append(Tail(queue), e) \in Seq(S)
      BY <3>1
    <3> QED BY <3>2, <3>3 DEF Short
  <2> QED BY <2>1, <2>2
<1>3. Short(Rest(queue))
  BY <1>1 DEF Rest, Short
<1> QED BY <1>2, <1>3

LEMMA RepliesStayShort ==
  ASSUME NEW S, NEW queue \in Seq(S), Short(queue), NEW m \in Commanded, Reply(m.id) \in S
  PROVE  Short(AfterReplies(queue, m))
<1>1. m.kind \in {"known", "test", "unknown", "wrongCause"}
  BY LinkLayerAssumption DEF Commanded, Command
<1>2. Replies(m.kind) \in {0, 1, 2}
  BY <1>1 DEF Replies
<1> DEFINE one == Put(queue, Reply(m.id), QueueSize)
<1>3. one \in Seq(S) /\ Short(one)
  BY StaysShort
<1>4. Short(Put(one, Reply(m.id), QueueSize))
  <2> HIDE DEF one
  <2> QED BY <1>3, StaysShort
<1> HIDE DEF Short
<1>5. CASE Replies(m.kind) = 0
  <2>1. AfterReplies(queue, m) = queue
    BY <1>5 DEF AfterReplies
  <2> QED BY <2>1
<1>6. CASE Replies(m.kind) = 1
  <2>1. AfterReplies(queue, m) = one
    BY <1>6 DEF AfterReplies
  <2> QED BY <2>1, <1>3
<1>7. CASE Replies(m.kind) = 2
  <2>1. AfterReplies(queue, m) = Put(one, Reply(m.id), QueueSize)
    BY <1>7 DEF AfterReplies
  <2> QED BY <2>1, <1>4
<1> QED BY <1>2, <1>5, <1>6, <1>7

(* The calls and faults stay within their bounds.                          *)
LEMMA BoundsStep ==
  ASSUME BoundsOK, [Next]_vars
  PROVE  BoundsOK'
<1> DEFINE Bounded == BoundsOK'
<1>1. {MaxMessages, MaxEvents, MaxTests, MaxFaults} \subseteq Nat
  BY LinkLayerAssumption
<1>2. UNCHANGED bounds => Bounded
  BY DEF bounds, BoundsOK
<1>3. NewMessage \/ NewEvent \/ NewTest \/ LineFault => Bounded
  <2>1. NewMessage => Bounded
    BY <1>1 DEF NewMessage, NewCall, BoundsOK
  <2>2. NewEvent => Bounded
    BY <1>1 DEF NewEvent, NewCall, BoundsOK
  <2>3. NewTest => Bounded
    BY <1>1 DEF NewTest, NewCall, BoundsOK
  <2>4. LineFault => Bounded
    BY <1>1 DEF LineFault, Fault, BoundsOK
  <2> QED BY <2>1, <2>2, <2>3, <2>4
<1>4. \A silent : AckTimeout(silent) => Bounded
  <2>1. Fault /\ late' = TRUE => Bounded
    <3>1. ASSUME Fault, late' = TRUE
          PROVE  /\ messages' \in 0..MaxMessages /\ events' \in 0..MaxEvents
                 /\ tests' \in 0..MaxTests /\ faults' \in 0..MaxFaults
      BY <1>1, <3>1 DEF Fault, BoundsOK
    <3>2. late' = TRUE => late' \in BOOLEAN
      OBVIOUS
    <3> QED BY <3>1, <3>2 DEF BoundsOK
  <2> HIDE DEF Bounded
  <2> QED BY <1>2, <2>1 DEF AckTimeout
<1> HIDE DEF Bounded
<1> SUFFICES Bounded
  BY DEF Bounded
<1>5. CASE UNCHANGED vars
  BY <1>2, <1>5 DEF vars
<1>6. CASE BusNext
  <2>1. CASE HandleMessage
    BY <1>2, <2>1 DEF HandleMessage
  <2>2. CASE RunStateMachine
    BY <1>2, <1>4, <2>2 DEF RunStateMachine, Begin, ResetRemoteLink, ResetAnswered,
         SendTestFunction, SendUserData, RequestData, Expire, Pass, RequestStatus, ResetTimeout,
         Repeat, GiveUp
  <2>3. CASE LoseFrame
    BY <1>3, <2>3 DEF LoseFrame
  <2>4. ASSUME NEW s \in Slaves, SlaveStep(s) \/ RefuseBusy(s) \/ Poll(s) PROVE Bounded
    BY <1>2, <1>3, <2>4 DEF SlaveStep, RefuseBusy, Poll, RejectRepeated, AnswerService,
         AnswerRequest, HandleUserData, Accepted
  <2>5. ASSUME NEW s \in Acting, EnqueueUserData(s) \/ RequestTest(s) PROVE Bounded
    BY <1>3, <2>5 DEF EnqueueUserData, RequestTest
  <2>6. ASSUME NEW s \in Acting, NEW kind \in Commands, SendASDU(s, kind) PROVE Bounded
    BY <1>3, <2>6 DEF SendASDU
  <2> QED BY <1>6, <2>1, <2>2, <2>3, <2>4, <2>5, <2>6 DEF BusNext
<1>7. ASSUME NEW x \in Stations,
             \/ ReadsFrame(x) \/ RefuseLinkService(x) \/ RunLink(x)
             \/ EnqueueASDU(x) \/ AskForTest(x) \/ LoseFrameTo(x)
      PROVE  Bounded
  <2>1. CASE ReadsFrame(x)
    BY <1>2, <2>1 DEF ReadsFrame, IgnoreRequest, AnswerLinkService, ReceiveUserData, ReadAnswer,
         AcceptRequest
  <2>2. CASE RunLink(x)
    BY <1>2, <1>4, <2>2 DEF RunLink, BeginLink, ResetLink, SendTest, SendNextAsdu, ExpireAt, Wait,
         AskStatus, ResetExpired, RepeatFrame, NotConfirmed
  <2>3. CASE RefuseLinkService(x) \/ LoseFrameTo(x)
    BY <1>3, <2>3 DEF RefuseLinkService, LoseFrameTo
  <2>4. CASE EnqueueASDU(x) \/ AskForTest(x)
    BY <1>3, <2>4 DEF EnqueueASDU, AskForTest
  <2> QED BY <1>7, <2>1, <2>2, <2>3, <2>4
<1> QED BY <1>5, <1>6, <1>7 DEF Next, InUnbalanced, InBalanced, PairNext

-----------------------------------------------------------------------------
(* Unbalanced: a connection repeats within its limit.                      *)
BusLimited ==
  \A s \in Slaves :
    conn[s].repeats \in 0..MaxRepeats /\ Short(class1[s]) /\ Short(class2[s])

(* One step for each case of the state machine.                            *)
LEMMA MasterLimits ==
  ASSUME BusTypeOK, BusLimited, RunStateMachine
  PROVE  \A s \in Slaves : conn'[s].repeats \in 0..MaxRepeats
<1> DEFINE c == conn[Current]
<1>1. /\ Current \in Slaves /\ c \in Connection /\ MaxRepeats \in Nat
      /\ c.repeats \in 0..MaxRepeats
  BY CurrentIs, LinkLayerAssumption DEF BusLimited
<1>2. conn \in [Slaves -> Connection]
  BY DEF BusTypeOK
<1>3. 0 \in 0..MaxRepeats /\ (c.repeats < MaxRepeats => c.repeats + 1 \in 0..MaxRepeats)
  BY <1>1
<1>4. ASSUME NEW d, conn' = [conn EXCEPT ![Current] = d], d.repeats \in 0..MaxRepeats
      PROVE  \A s \in Slaves : conn'[s].repeats \in 0..MaxRepeats
  <2> HIDE DEF Slaves, Connection
  <2> QED BY <1>1, <1>2, <1>4 DEF BusLimited
<1>5. CASE UNCHANGED conn
  BY <1>5 DEF BusLimited
<1>6. CASE Begin
  <2> DEFINE d == [c EXCEPT !.primaryState = "status", !.waiting = FALSE, !.testFunction = FALSE]
  <2>1. d.repeats = c.repeats
    BY <1>1 DEF Connection
  <2>2. conn' = [conn EXCEPT ![Current] = d]
    BY <1>6 DEF Begin, Set
  <2> HIDE DEF d
  <2> QED BY <1>1, <1>4, <2>1, <2>2
<1>7. CASE ResetRemoteLink
  <2>1. Reset(c).repeats = c.repeats
    BY <1>1 DEF Connection, Reset
  <2>2. conn' = [conn EXCEPT ![Current] = Reset(c)]
    BY <1>7 DEF ResetRemoteLink, Set
  <2> QED BY <1>1, <1>4, <2>1, <2>2
<1>8. CASE ResetAnswered
  <2>1. Available(c).repeats = c.repeats
    BY <1>1 DEF Connection, Available
  <2>2. conn' = [conn EXCEPT ![Current] = Available(c)]
    BY <1>8 DEF ResetAnswered, Set
  <2> QED BY <1>1, <1>4, <2>1, <2>2
<1>9. ASSUME NEW state PROVE Sent(c, state).repeats = 0
  BY <1>1 DEF Connection, Sent
<1>10. CASE SendTestFunction
  <2>1. conn' = [conn EXCEPT ![Current] = Sent(c, "respond")]
    BY <1>10 DEF SendTestFunction, Set
  <2> QED BY <1>3, <1>4, <1>9, <2>1
<1>11. CASE SendUserData
  <2>1. conn' = [conn EXCEPT ![Current] = Sent(c, "sendConfirm")]
    BY <1>11 DEF SendUserData, Set
  <2> QED BY <1>3, <1>4, <1>9, <2>1
<1>12. CASE RequestData
  <2> DEFINE d == [Sent(c, "respond") EXCEPT
                     !.requestClass1Data = FALSE,
                     !.requestClass2Data = IF c.requestClass1Data THEN @ ELSE FALSE]
  <2>1. d.repeats = 0
    BY <1>1 DEF Connection, Sent
  <2>2. conn' = [conn EXCEPT ![Current] = d]
    BY <1>12 DEF RequestData, Set
  <2> HIDE DEF d
  <2> QED BY <1>3, <1>4, <2>1, <2>2
<1>13. CASE ResetTimeout
  <2> DEFINE d == [Illegal(c) EXCEPT !.waiting = FALSE]
  <2>1. d.repeats = c.repeats
    BY <1>1 DEF Connection, Illegal
  <2>2. conn' = [conn EXCEPT ![Current] = d]
    BY <1>13 DEF ResetTimeout, Set
  <2> HIDE DEF d
  <2> QED BY <1>1, <1>4, <2>1, <2>2
<1>14. CASE Repeat
  <2> DEFINE d == [c EXCEPT !.repeats = @ + 1]
  <2>1. d.repeats = c.repeats + 1
    BY <1>1 DEF Connection
  <2>2. conn' = [conn EXCEPT ![Current] = d] /\ c.repeats < MaxRepeats
    BY <1>14 DEF Repeat, Set
  <2> HIDE DEF d
  <2> QED BY <1>3, <1>4, <2>1, <2>2
<1>15. CASE GiveUp
  <2> DEFINE d == IF c.primaryState = "respond"
                    THEN [Illegal(c) EXCEPT !.requestClass1Data = FALSE,
                                            !.requestClass2Data = FALSE]
                    ELSE Illegal(c)
  <2>1. d.repeats = c.repeats
    BY <1>1 DEF Connection, Illegal
  <2>2. conn' = [conn EXCEPT ![Current] = d]
    BY <1>15 DEF GiveUp, Set
  <2> HIDE DEF d
  <2> QED BY <1>1, <1>4, <2>1, <2>2
<1>16. CASE RequestStatus \/ Pass
  BY <1>5, <1>16 DEF RequestStatus, Pass
<1> QED BY <1>6, <1>7, <1>8, <1>10, <1>11, <1>12, <1>13, <1>14, <1>15, <1>16
        DEF RunStateMachine, Expire

(* What a step makes of connections and queues within their limits.        *)
LEMMA ConnectionsWithin ==
  ASSUME BusTypeOK, BusLimited,
         \/ UNCHANGED conn
         \/ \E s \in Slaves, d \in {e \in Connection : e.repeats \in 0..MaxRepeats} :
              conn' = [conn EXCEPT ![s] = d]
  PROVE  \A s \in Slaves : conn'[s].repeats \in 0..MaxRepeats
<1>1. conn \in [Slaves -> Connection]
  BY DEF BusTypeOK
<1> HIDE DEF Slaves, Connection
<1> QED BY <1>1 DEF BusLimited

LEMMA QueuesWithin ==
  ASSUME BusTypeOK, BusLimited,
         \/ UNCHANGED class1
         \/ \E s \in Slaves : \E q : Short(q) /\ class1' = [class1 EXCEPT ![s] = q],
         \/ UNCHANGED class2
         \/ \E s \in Slaves : \E q : Short(q) /\ class2' = [class2 EXCEPT ![s] = q]
  PROVE  \A s \in Slaves : Short(class1'[s]) /\ Short(class2'[s])
<1>1. DOMAIN class1 = Slaves /\ DOMAIN class2 = Slaves
  BY DEF BusTypeOK
<1> HIDE DEF Slaves, Short
<1> QED BY <1>1 DEF BusLimited

LEMMA BusLimitsStep ==
  ASSUME BusTypeOK, BusLimited, messages \in Nat, BusNext
  PROVE  BusLimited'
<1>1. \A s \in Slaves : /\ conn[s] \in Connection /\ conn[s].repeats \in 0..MaxRepeats
                        /\ class1[s] \in Seq(Reported) /\ class2[s] \in Seq(Reported)
                        /\ Short(class1[s]) /\ Short(class2[s])
  <2> HIDE DEF Connection, Reported, Slaves, Short
  <2> QED BY DEF BusTypeOK, BusLimited
<1>2. \A s \in Acting : s \in Slaves
  BY UnbalancedAssumption DEF Slaves
<1> DEFINE ConnWithin == \A s \in Slaves : conn'[s].repeats \in 0..MaxRepeats
           QueuesWithinNow == \A s \in Slaves : Short(class1'[s]) /\ Short(class2'[s])
<1>3. UNCHANGED conn => ConnWithin
  BY ConnectionsWithin
<1>4. UNCHANGED <<class1, class2>> => QueuesWithinNow
  BY QueuesWithin
<1>5. ConnWithin /\ QueuesWithinNow => BusLimited'
  BY DEF BusLimited
<1> HIDE DEF ConnWithin, QueuesWithinNow
<1>6. CASE HandleMessage
  <2> DEFINE f == Head(up)
             s == Sender(f)
  <2>1. /\ UNCHANGED <<class1, class2>> /\ up # << >>
        /\ conn' = [conn EXCEPT ![s] = Handled(conn[s], f)]
    BY <1>6 DEF HandleMessage, queues
  <2>2. f \in UpFrame
    <3> HIDE DEF UpFrame
    <3> QED BY <2>1 DEF BusTypeOK
  <2>3. s \in Slaves
    BY <2>1, <2>2 DEF UpFrame, BusTypeOK, Sender, Silent
  <2>4. Handled(conn[s], f) \in Connection /\ Handled(conn[s], f).repeats = conn[s].repeats
    <3> HIDE DEF s, f, Connection, UpFrame
    <3> QED BY <1>1, <2>2, <2>3, HandledIs
  <2>5. ConnWithin
    <3> HIDE DEF s, f, Connection, Slaves
    <3> QED BY <1>1, <2>1, <2>3, <2>4, ConnectionsWithin DEF ConnWithin
  <2> QED BY <1>4, <1>5, <2>1, <2>5
<1>7. CASE RunStateMachine
  <2>1. UNCHANGED <<class1, class2>>
    BY <1>7 DEF RunStateMachine, Begin, ResetRemoteLink, ResetAnswered,
         SendTestFunction, SendUserData, RequestData, Expire, Pass, RequestStatus, ResetTimeout,
         Repeat, GiveUp, Select, queues
  <2>2. ConnWithin
    BY <1>7, MasterLimits DEF ConnWithin
  <2> QED BY <1>4, <1>5, <2>1, <2>2
<1>8. CASE LoseFrame
  BY <1>3, <1>4, <1>5, <1>8 DEF LoseFrame, link, queues
<1>9. ASSUME NEW s \in Slaves, SlaveStep(s) PROVE BusLimited'
  <2> DEFINE f == Head(down)
  <2>1. UNCHANGED conn
    BY <1>9 DEF SlaveStep, RejectRepeated, AnswerService, AnswerRequest, HandleUserData, Accepted,
         link
  <2>2. CASE RejectRepeated(s) \/ AnswerService(s)
    <3>1. UNCHANGED <<class1, class2>>
      BY <2>2 DEF RejectRepeated, AnswerService, queues
    <3> QED BY <1>3, <1>4, <1>5, <2>1, <3>1
  <2>3. CASE AnswerRequest(s)
    <3>1. Short(Rest(class1[s])) /\ Short(Rest(class2[s])) /\ Short(class1[s]) /\ Short(class2[s])
      BY <1>1, StaysShort
    <3>2. /\ \E q : Short(q) /\ class1' = [class1 EXCEPT ![s] = q]
          /\ \E q : Short(q) /\ class2' = [class2 EXCEPT ![s] = q]
      <4>1. /\ class1' = [class1 EXCEPT ![s] = IF f.fc = "CLASS_1" THEN Rest(class1[s])
                                               ELSE class1[s]]
            /\ class2' = [class2 EXCEPT ![s] = IF f.fc = "CLASS_2" THEN Rest(class2[s])
                                               ELSE class2[s]]
        BY <2>3 DEF AnswerRequest
      <4> HIDE DEF f, Short
      <4> QED BY <3>1, <4>1
    <3>3. QueuesWithinNow
      <4> HIDE DEF Slaves, Short
      <4> QED BY <3>2, QueuesWithin DEF QueuesWithinNow
    <3> QED BY <1>3, <1>5, <2>1, <3>3
  <2>4. CASE HandleUserData(s)
    <3>1. /\ down # << >> /\ f.fc = "USER_DATA_CONFIRMED" /\ UNCHANGED class2
          /\ class1' = [class1 EXCEPT ![s] = AfterReplies(class1[s], f.asdu)]
      BY <2>4 DEF HandleUserData, Accepted, ToSlave
    <3>2. f \in DownFrame
      <4> HIDE DEF DownFrame
      <4> QED BY <3>1 DEF BusTypeOK
    <3>3. f.asdu \in Commanded
      BY <3>1, <3>2 DEF DownFrame
    <3>4. Reply(f.asdu.id) \in Reported
      <4>1. \A n \in Nat, kind \in Commands : Reply(Command(n, kind).id) \in Reported
        BY DEF Command, Reported
      <4> HIDE DEF f
      <4> QED BY <3>3, <4>1 DEF Commanded
    <3>5. Short(AfterReplies(class1[s], f.asdu))
      <4> HIDE DEF f, Commanded, Reported, Short
      <4> QED BY <1>1, <3>3, <3>4, RepliesStayShort
    <3>6. QueuesWithinNow
      <4> HIDE DEF f, Slaves, Short
      <4> QED BY <3>1, <3>5, QueuesWithin DEF QueuesWithinNow
    <3> QED BY <1>3, <1>5, <2>1, <3>6
  <2> QED BY <1>9, <2>2, <2>3, <2>4 DEF SlaveStep
<1>10. ASSUME NEW s \in Slaves, RefuseBusy(s) PROVE BusLimited'
  BY <1>3, <1>4, <1>5, <1>10 DEF RefuseBusy, link, queues
<1>11. ASSUME NEW s \in Slaves, NEW d, conn' = [conn EXCEPT ![s] = d], d \in Connection,
              d.repeats = conn[s].repeats, UNCHANGED <<class1, class2>>
       PROVE  BusLimited'
  <2>1. ConnWithin
    <3> HIDE DEF Connection, Slaves
    <3> QED BY <1>1, <1>11, ConnectionsWithin DEF ConnWithin
  <2> QED BY <1>4, <1>5, <1>11, <2>1
<1>12. ASSUME NEW s \in Slaves, Poll(s) PROVE BusLimited'
  <2> DEFINE d == [conn[s] EXCEPT !.requestClass2Data = TRUE]
  <2>1. conn' = [conn EXCEPT ![s] = d] /\ UNCHANGED <<class1, class2>>
    BY <1>12 DEF Poll, queues
  <2>2. d \in Connection /\ d.repeats = conn[s].repeats
    BY <1>1 DEF Connection
  <2> HIDE DEF d
  <2> QED BY <1>11, <2>1, <2>2
<1>13. ASSUME NEW s \in Acting, RequestTest(s) PROVE BusLimited'
  <2> DEFINE d == [conn[s] EXCEPT !.testFunction = TRUE]
  <2>1. conn' = [conn EXCEPT ![s] = d] /\ UNCHANGED <<class1, class2>>
    BY <1>13 DEF RequestTest, queues
  <2>2. d \in Connection /\ d.repeats = conn[s].repeats
    BY <1>1, <1>2 DEF Connection
  <2> HIDE DEF d
  <2> QED BY <1>2, <1>11, <2>1, <2>2
<1>14. ASSUME NEW s \in Acting, NEW kind \in Commands, SendASDU(s, kind)
       PROVE  BusLimited'
  <2> DEFINE m == Command(messages + 1, kind)
             d == [conn[s] EXCEPT !.hasMessage = TRUE, !.message = m]
  <2>1. UNCHANGED <<class1, class2>> /\ (UNCHANGED conn \/ conn' = [conn EXCEPT ![s] = d])
    <3>1. DOMAIN conn = Slaves
      BY DEF BusTypeOK
    <3> QED BY <1>2, <1>14, <3>1 DEF SendASDU, queues
  <2>2. d \in Connection /\ d.repeats = conn[s].repeats
    <3>1. m \in Commanded
      <4>1. messages + 1 \in Nat
        OBVIOUS
      <4> QED BY <4>1 DEF Commanded
    <3> HIDE DEF m
    <3> QED BY <1>1, <1>2, <3>1 DEF Connection, Messages
  <2> HIDE DEF d
  <2> QED BY <1>2, <1>3, <1>4, <1>5, <1>11, <2>1, <2>2
<1>15. ASSUME NEW s \in Acting, EnqueueUserData(s) PROVE BusLimited'
  <2>1. UNCHANGED conn
    BY <1>15 DEF EnqueueUserData, link
  <2>2. \/ \E q : Short(q) /\ class1' = [class1 EXCEPT ![s] = q] /\ UNCHANGED class2
        \/ \E q : Short(q) /\ class2' = [class2 EXCEPT ![s] = q] /\ UNCHANGED class1
    <3> DEFINE e == Event(events + 1)
    <3>1. \/ class1' = [class1 EXCEPT ![s] = Put(class1[s], e, QueueSize)] /\ UNCHANGED class2
          \/ class2' = [class2 EXCEPT ![s] = Put(class2[s], e, QueueSize)] /\ UNCHANGED class1
      BY <1>15 DEF EnqueueUserData
    <3>2. class1[s] \in Seq(Reported \union {e}) /\ class2[s] \in Seq(Reported \union {e})
      BY <1>1, <1>2, SequenceIn
    <3> HIDE DEF e, Short, Reported
    <3>3. Short(Put(class1[s], e, QueueSize)) /\ Short(Put(class2[s], e, QueueSize))
      BY <1>1, <1>2, <3>2, StaysShort
    <3> QED BY <3>1, <3>3
  <2>3. QueuesWithinNow
    <3> HIDE DEF Slaves, Short
    <3> QED BY <1>2, <2>2, QueuesWithin DEF QueuesWithinNow
  <2> QED BY <1>3, <1>5, <2>1, <2>3
<1> QED BY <1>6, <1>7, <1>8, <1>9, <1>10, <1>12, <1>13, <1>14, <1>15 DEF BusNext

-----------------------------------------------------------------------------
(* Balanced: a primary link layer repeats within its limit, and never asks *)
(* for data.                                                               *)
PairLimited ==
  \A x \in Stations :
    /\ primary[x].repeats \in 0..MaxRepeats /\ primary[x].primaryState # "respond"
    /\ Short(queue1[x]) /\ Short(queue2[x])

(* What an answer makes of one within its limit.                           *)
Within(p, x) ==
  p \in Primary(x) /\ p.repeats \in 0..MaxRepeats /\ p.primaryState # "respond"

LEMMA AnswerWithin ==
  ASSUME NEW x \in Stations, NEW p, Within(p, x), NEW f \in FrameTo(x), ~ f.prm
  PROVE  Within(AfterAnswer(p, f), x)
<1> USE DEF Primary, PrimaryLinkLayerState, LinkLayerState
<1>1. Within(Busy(p), x)
  BY DEF Busy, Within
<1>2. Within(Available(p), x) /\ Within(Illegal(p), x)
  BY DEF Available, Illegal, Within
<1>3. \A q : Within(q, x) => Within(NotWaiting(q), x)
  BY DEF NotWaiting, Within
<1>4. \A q : Within(q, x) => Within([q EXCEPT !.testFunction = FALSE], x)
  BY DEF Within
<1>5. Within(StatusOfLink(p), x)
  BY <1>2, ZenonT(40) DEF StatusOfLink, Within
<1>6. Within(AfterNack(p), x)
  BY DEF AfterNack, Within
<1> HIDE DEF Primary
<1>7. Within(AfterAck(p), x)
  <2>1. CASE p.primaryState = "reset"
    <3>1. AfterAck(p) = NotWaiting(Available(p))
      BY <2>1 DEF AfterAck
    <3> QED BY <3>1, <1>2, <1>3
  <2>2. CASE p.primaryState = "sendConfirm"
    <3>1. AfterAck(p) = NotWaiting([Available(p) EXCEPT !.testFunction = FALSE])
      BY <2>2 DEF AfterAck
    <3> QED BY <3>1, <1>2, <1>3, <1>4
  <2>3. CASE p.primaryState \notin {"reset", "sendConfirm"}
    <3>1. AfterAck(p) = NotWaiting(p)
      BY <2>3 DEF AfterAck
    <3> QED BY <3>1, <1>3
  <2> QED BY <2>1, <2>2, <2>3
<1>8. Within(AfterNotImplemented(p), x)
  <2>1. Within(IF p.primaryState = "sendConfirm" THEN Available(p) ELSE p, x)
    BY <1>2
  <2> QED BY <2>1, <1>4 DEF AfterNotImplemented
<1>9. f.fc \in LinkAnswers
  BY DEF FrameTo
<1>10. CASE f.dfc
  BY <1>1, <1>10 DEF AfterAnswer
<1>11. CASE ~ f.dfc /\ f.fc = "ACK"
  <2>1. AfterAnswer(p, f) = AfterAck(p)
    BY <1>11 DEF AfterAnswer
  <2> QED BY <2>1, <1>7
<1>12. CASE ~ f.dfc /\ f.fc = "NACK"
  <2>1. AfterAnswer(p, f) = AfterNack(p)
    BY <1>12 DEF AfterAnswer
  <2> QED BY <2>1, <1>6
<1>13. CASE ~ f.dfc /\ f.fc = "STATUS_OF_LINK"
  <2>1. AfterAnswer(p, f) = StatusOfLink(p)
    BY <1>13 DEF AfterAnswer
  <2> QED BY <2>1, <1>5
<1>14. CASE ~ f.dfc /\ f.fc = "NOT_IMPLEMENTED"
  <2>1. AfterAnswer(p, f) = AfterNotImplemented(p)
    BY <1>14 DEF AfterAnswer
  <2> QED BY <2>1, <1>8
<1> QED BY <1>9, <1>10, <1>11, <1>12, <1>13, <1>14 DEF LinkAnswers

LEMMA PairWithin ==
  ASSUME PairTypeOK, PairLimited, NEW x \in Stations,
         \/ UNCHANGED primary
         \/ \E d : /\ d.repeats \in 0..MaxRepeats /\ d.primaryState # "respond"
                  /\ primary' = [primary EXCEPT ![x] = d],
         \/ UNCHANGED queue1
         \/ \E q : Short(q) /\ queue1' = [queue1 EXCEPT ![x] = q],
         \/ UNCHANGED queue2
         \/ \E q : Short(q) /\ queue2' = [queue2 EXCEPT ![x] = q]
  PROVE  PairLimited'
<1>1. DOMAIN primary = Stations /\ DOMAIN queue1 = Stations /\ DOMAIN queue2 = Stations
  BY DEF PairTypeOK
<1>2. \A y \in Stations :
        primary'[y].repeats \in 0..MaxRepeats /\ primary'[y].primaryState # "respond"
  <2> HIDE DEF Stations
  <2> QED BY <1>1 DEF PairLimited, Within
<1>3. \A y \in Stations : Short(queue1'[y]) /\ Short(queue2'[y])
  <2> HIDE DEF Stations, Short
  <2> QED BY <1>1 DEF PairLimited
<1> QED BY <1>2, <1>3 DEF PairLimited, Short

LEMMA RunWithin ==
  ASSUME PairTypeOK, PairLimited, NEW x \in Stations, RunLink(x)
  PROVE  PairLimited'
<1> DEFINE p == primary[x]
           Limited(q) == q.repeats \in 0..MaxRepeats /\ q.primaryState # "respond"
<1>1. p \in Primary(x) /\ Limited(p) /\ MaxRepeats \in Nat
  BY StationIs, LinkLayerAssumption DEF PairLimited
<1>2. ASSUME NEW q, Limited(q), primary' = [primary EXCEPT ![x] = q], UNCHANGED <<queue1, queue2>>
      PROVE  PairLimited'
  BY <1>2, PairWithin
<1>3. ASSUME UNCHANGED <<primary, queue1, queue2>>
      PROVE  PairLimited'
  BY <1>3, PairWithin
<1>4. Limited(Illegal(p)) /\ Limited(NotWaiting(Illegal(p)))
  BY <1>1 DEF Primary, Illegal, NotWaiting
<1>6. CASE BeginLink(x)
  <2> DEFINE q == [p EXCEPT !.primaryState = "status", !.waiting = FALSE, !.testFunction = FALSE]
  <2>1. Limited(q)
    BY <1>1 DEF Primary
  <2>2. primary' = [primary EXCEPT ![x] = q] /\ UNCHANGED <<queue1, queue2>>
    BY <1>6 DEF BeginLink, To, stationQueues
  <2> HIDE DEF q, Limited
  <2> QED BY <1>2, <2>1, <2>2
<1>7. CASE ResetLink(x)
  <2> DEFINE q == [p EXCEPT !.primaryState = "reset", !.waiting = TRUE]
  <2>1. Limited(q)
    BY <1>1 DEF Primary
  <2>2. primary' = [primary EXCEPT ![x] = q] /\ UNCHANGED <<queue1, queue2>>
    BY <1>7 DEF ResetLink, To, stationQueues
  <2> HIDE DEF q, Limited
  <2> QED BY <1>2, <2>1, <2>2
<1>8. CASE SendTest(x)
  <2> DEFINE q == [SentCounted(p) EXCEPT !.testFunction = TRUE, !.lastSendAsdu = NoAsdu]
  <2>1. Limited(q)
    BY <1>1 DEF Primary, SentCounted
  <2>2. primary' = [primary EXCEPT ![x] = q] /\ UNCHANGED <<queue1, queue2>>
    BY <1>8 DEF SendTest, To, stationQueues
  <2> HIDE DEF q, Limited
  <2> QED BY <1>2, <2>1, <2>2
<1>9. CASE SendNextAsdu(x)
  <2> DEFINE asdu == [number |-> sent[x] + 1, asdu |-> NextUserData(x)]
             q == [SentCounted(p) EXCEPT !.waiting = TRUE, !.lastSendAsdu = asdu]
  <2>1. Limited(q)
    <3> HIDE DEF asdu
    <3> QED BY <1>1 DEF Primary, SentCounted
  <2>2. /\ primary' = [primary EXCEPT ![x] = q]
        /\ queue1' = [queue1 EXCEPT ![x] = Rest(queue1[x])]
        /\ \/ UNCHANGED queue2
           \/ queue2' = [queue2 EXCEPT ![x] = Rest(queue2[x])]
    BY <1>9 DEF SendNextAsdu, To
  <2>3. Short(Rest(queue1[x])) /\ Short(Rest(queue2[x]))
    <3> HIDE DEF Short
    <3> QED BY StationIs, StaysShort DEF PairLimited
  <2> HIDE DEF q, Short
  <2> QED BY <2>1, <2>2, <2>3, PairWithin
<1>10. CASE AskStatus(x) \/ Wait(x)
  BY <1>3, <1>10 DEF AskStatus, Wait, stationQueues
<1>11. CASE ResetExpired(x) \/ NotConfirmed(x)
  <2>1. /\ UNCHANGED <<queue1, queue2>>
        /\ \/ primary' = [primary EXCEPT ![x] = Illegal(p)]
           \/ primary' = [primary EXCEPT ![x] = NotWaiting(Illegal(p))]
    BY <1>11 DEF ResetExpired, NotConfirmed, To, stationQueues
  <2> HIDE DEF Limited
  <2> QED BY <1>2, <1>4, <2>1
<1>12. CASE RepeatFrame(x)
  <2> DEFINE q == [p EXCEPT !.repeats = @ + 1]
  <2>1. /\ primary' = [primary EXCEPT ![x] = q] /\ UNCHANGED <<queue1, queue2>>
        /\ p.repeats < MaxRepeats
    BY <1>12 DEF RepeatFrame, To, stationQueues
  <2>2. q.repeats = p.repeats + 1 /\ q.primaryState = p.primaryState
    BY <1>1 DEF Primary
  <2>3. Limited(q)
    <3> HIDE DEF q, p
    <3> QED BY <1>1, <2>1, <2>2
  <2> HIDE DEF q, Limited
  <2> QED BY <1>2, <2>1, <2>3
<1> QED BY <1>6, <1>7, <1>8, <1>9, <1>10, <1>11, <1>12 DEF RunLink, ExpireAt

LEMMA PairLimitsStep ==
  ASSUME PairTypeOK, PairLimited, messages' \in Nat, events' \in Nat, PairNext
  PROVE  PairLimited'
<1> PICK x \in Stations :
      \/ ReadsFrame(x) \/ RefuseLinkService(x) \/ RunLink(x)
      \/ EnqueueASDU(x) \/ AskForTest(x) \/ LoseFrameTo(x)
  BY DEF PairNext
<1>1. /\ primary[x] \in Primary(x) /\ Within(primary[x], x) /\ wire[x] \in Seq(FrameTo(x))
      /\ queue1[x] \in Seq(EntriesOf(x)) /\ queue2[x] \in Seq(EntriesOf(x))
      /\ Short(queue1[x]) /\ Short(queue2[x])
  BY StationIs DEF PairLimited, Within
<1>2. UNCHANGED <<primary, queue1, queue2>> => PairLimited'
  BY PairWithin
<1>3. CASE IgnoreRequest(x) \/ AnswerLinkService(x) \/ RefuseLinkService(x) \/ LoseFrameTo(x)
  BY <1>2, <1>3 DEF IgnoreRequest, AnswerLinkService, AcceptRequest, RefuseLinkService,
       LoseFrameTo, stationQueues
<1>4. CASE ReceiveUserData(x)
  <2> DEFINE f == Head(wire[x])
             m == f.asdu.asdu
  <2>1. /\ UNCHANGED <<primary, queue2>> /\ f.fc = "USER_DATA_CONFIRMED"
        /\ wire[x] # << >> /\ f.prm
        /\ x = "slave" => queue1' = [queue1 EXCEPT ![x] = AfterReplies(queue1[x], m)]
        /\ x # "slave" => UNCHANGED queue1
    BY <1>4 DEF ReceiveUserData, AcceptRequest, Reads
  <2>2. CASE x # "slave"
    BY <1>2, <2>1, <2>2
  <2>3. CASE x = "slave"
    <3>1. f \in FrameTo(x)
      <4> HIDE DEF FrameTo
      <4> QED BY <1>1, <2>1
    <3>2. f.asdu \in [number : Nat, asdu : EntriesOf(Other(x))]
      BY <2>1, <3>1 DEF FrameTo, Asdus
    <3>3. m \in Commanded
      BY <2>3, <3>2 DEF EntriesOf, Other
    <3>4. m.id \in Nat
      <4> HIDE DEF m
      <4> QED BY <3>3 DEF Commanded, Command
    <3> HIDE DEF f, m, Short
    <3>5. Reply(m.id) \in EntriesOf(x)
      BY <2>3, <3>4 DEF EntriesOf, Reported
    <3> HIDE DEF EntriesOf
    <3>6. Short(AfterReplies(queue1[x], m))
      BY <1>1, <3>3, <3>5, RepliesStayShort
    <3> QED BY <2>1, <2>3, <3>6, PairWithin
  <2> QED BY <2>2, <2>3
<1>5. CASE ReadAnswer(x)
  <2> DEFINE f == Head(wire[x])
             q == AfterAnswer(primary[x], f)
  <2>1. /\ wire[x] # << >> /\ ~ f.prm /\ UNCHANGED <<queue1, queue2>>
        /\ primary' = [primary EXCEPT ![x] = q]
    BY <1>5 DEF ReadAnswer, Reads, stationQueues
  <2>2. f \in FrameTo(x)
    <3> HIDE DEF FrameTo
    <3> QED BY <1>1, <2>1
  <2>3. Within(q, x)
    <3> HIDE DEF f
    <3> QED BY <1>1, <2>1, <2>2, AnswerWithin
  <2> HIDE DEF q
  <2> QED BY <2>1, <2>3, PairWithin DEF Within
<1>6. CASE RunLink(x)
  BY <1>6, RunWithin
<1>7. CASE EnqueueASDU(x)
  <2>1. /\ UNCHANGED primary
        /\ \E e : \/ /\ queue1' = [queue1 EXCEPT ![x] = Put(queue1[x], e, QueueSize)]
                     /\ UNCHANGED queue2
                  \/ /\ queue2' = [queue2 EXCEPT ![x] = Put(queue2[x], e, QueueSize)]
                     /\ UNCHANGED queue1
    BY <1>7 DEF EnqueueASDU
  <2>2. PICK e : \/ /\ queue1' = [queue1 EXCEPT ![x] = Put(queue1[x], e, QueueSize)]
                    /\ UNCHANGED queue2
                 \/ /\ queue2' = [queue2 EXCEPT ![x] = Put(queue2[x], e, QueueSize)]
                    /\ UNCHANGED queue1
    BY <2>1
  <2> HIDE DEF Short, EntriesOf
  <2>3. /\ queue1[x] \in Seq(EntriesOf(x) \union {e})
        /\ queue2[x] \in Seq(EntriesOf(x) \union {e})
    BY <1>1, SequenceIn
  <2>4. Short(Put(queue1[x], e, QueueSize)) /\ Short(Put(queue2[x], e, QueueSize))
    BY <1>1, <2>3, StaysShort
  <2> QED BY <2>1, <2>2, <2>4, PairWithin
<1>8. CASE AskForTest(x)
  <2> DEFINE q == [primary[x] EXCEPT !.testFunction = TRUE]
  <2>1. primary' = [primary EXCEPT ![x] = q] /\ UNCHANGED <<queue1, queue2>>
    BY <1>8 DEF AskForTest, stationQueues
  <2>2. q.repeats = primary[x].repeats /\ q.primaryState = primary[x].primaryState
    BY <1>1 DEF Primary
  <2> HIDE DEF q
  <2> QED BY <1>1, <2>1, <2>2, PairWithin DEF Within
<1> QED BY <1>3, <1>4, <1>5, <1>6, <1>7, <1>8 DEF ReadsFrame

-----------------------------------------------------------------------------
LimitsOK == BoundsOK /\ linkLayerMode \in Modes /\ BusLimited /\ PairLimited

LEMMA InitLimits == Init => LimitsOK
<1> SUFFICES ASSUME Init PROVE LimitsOK
  OBVIOUS
<1>1. QueueSize \in Nat /\ MaxRepeats \in Nat /\ 0 \in 0..MaxRepeats
  BY LinkLayerAssumption
<1>2. BoundsOK
  <2>1. late = FALSE
    BY DEF Init, PairInit, BoundsInit
  <2>2. late \in BOOLEAN
    BY <2>1
  <2> QED BY <2>2, LinkLayerAssumption DEF Init, PairInit, BoundsInit, BoundsOK
<1>3. Short(<< >>)
  BY <1>1 DEF Short
<1>4. BusLimited
  BY <1>1, <1>3 DEF Init, BusInit, BusLimited, FreshConnection
<1>5. PairLimited
  BY <1>1, <1>3 DEF Init, PairInit, PairLimited, FreshPrimary
<1> QED BY <1>2, <1>4, <1>5 DEF LimitsOK, Init

LEMMA LimitsStep ==
  ASSUME UnbalancedOK, BalancedOK, LimitsOK, [Next]_vars
  PROVE  LimitsOK'
<1>1. BoundsOK'
  BY BoundsStep DEF LimitsOK
<1>2. linkLayerMode' \in Modes
  BY DEF LimitsOK, Next, InUnbalanced, InBalanced, vars
<1>3. BusTypeOK /\ PairTypeOK /\ messages \in Nat /\ messages' \in Nat /\ events' \in Nat
  BY CallsStep DEF UnbalancedOK, BusOK, BalancedOK, PairOrderOK, CallsOK
<1>4. UNCHANGED busState => BusLimited'
  BY DEF LimitsOK, BusLimited, Short, busState, link, queues
<1>5. UNCHANGED pairState => PairLimited'
  BY DEF LimitsOK, PairLimited, Short, pairState, stationQueues
<1>6. BusLimited'
  BY <1>3, <1>4, BusLimitsStep DEF LimitsOK, Next, InUnbalanced, InBalanced, vars
<1>7. PairLimited'
  BY <1>3, <1>5, PairLimitsStep DEF LimitsOK, Next, InUnbalanced, InBalanced, vars
<1> QED BY <1>1, <1>2, <1>6, <1>7 DEF LimitsOK

(* In both modes queues, connections, link layers and frames are well      *)
(* formed: no queue outgrows its ring, no frame is repeated more often than*)
(* timeoutRepeat allows (link_layer.c), and a primary link layer of the    *)
(* balanced mode never waits for data; for any number of slaves, size of   *)
(* queues, number of repeats, calls and faults.                            *)
THEOREM LimitsHold == Spec => []TypeOK
<1>1. UnbalancedOK /\ BalancedOK /\ LimitsOK => TypeOK
  <2> SUFFICES ASSUME UnbalancedOK, BalancedOK, LimitsOK PROVE TypeOK
    OBVIOUS
  <2>1. BusTypeOK /\ PairTypeOK
    BY DEF UnbalancedOK, BusOK, BalancedOK, PairOrderOK
  <2>2. \A s \in Slaves : /\ conn[s] \in Connection /\ slaveFcb[s] \in BOOLEAN
    <3> HIDE DEF Connection, Slaves
    <3> QED BY <2>1 DEF BusTypeOK
  <2>3. \A s \in Slaves : conn[s].state \in LinkLayerState
                          /\ conn[s].primaryState \in PrimaryLinkLayerState
    BY <2>2 DEF Connection
  <2>4. \A i \in DOMAIN down : down[i].fc \in MasterServices
    <3>1. \A f \in DownFrame : f.fc \in MasterServices
      BY DEF DownFrame
    <3> HIDE DEF DownFrame
    <3> QED BY <2>1, <3>1 DEF BusTypeOK
  <2>5. \A x \in Stations : /\ primary[x].state \in LinkLayerState /\ sent[x] \in Nat
                            /\ primary[x].primaryState \in PrimaryLinkLayerState
    BY <2>1, StationIs DEF Primary
  <2>6. currentSlave \in Slaves \union {Nobody} /\ currentSlaveIndex \in Slaves
    BY <2>1 DEF BusTypeOK
  <2> HIDE DEF Slaves, Stations, LinkLayerState, PrimaryLinkLayerState, MasterServices
  <2> QED BY <2>2, <2>3, <2>4, <2>5, <2>6 DEF TypeOK, LimitsOK, BusLimited, PairLimited, Short
<1> QED BY <1>1, InitUnbalanced, UnbalancedStep, InitBalanced, BalancedStep, InitLimits,
        LimitsStep, PTL DEF Spec
=============================================================================
