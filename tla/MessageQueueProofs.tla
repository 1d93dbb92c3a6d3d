------------------------- MODULE MessageQueueProofs -------------------------
(***************************************************************************)
(* Proofs about the event queue of cs104_slave.c, for every ring size, ASDU*)
(* set, clock range and k.                                                 *)
(***************************************************************************)
EXTENDS MessageQueue, SequenceTheorems, TLAPS

(* TypeOK and RingInv only hold together: where the scan stops and how far *)
(* an acknowledgement walks back depends on the shape of the window.       *)
IInv == TypeOK /\ RingInv

(* The three slot states are distinct.                                     *)
LEMMA StatesDiffer ==
  /\ NOT_USED # WAITING
  /\ NOT_USED # SENT
  /\ WAITING # SENT
BY DEF NOT_USED, WAITING, SENT

(* Initially the ring is empty.                                            *)
LEMMA InitIInv == Init => IInv
<1> SUFFICES ASSUME Init PROVE IInv
  OBVIOUS
<1>1. TypeOK
  BY SizeAssumption DEF Init, TypeOK, Index, ASDUQueueEntry
<1>2. WindowBounds /\ WindowIsOccupied /\ SentBeforeWaiting
  BY StatesDiffer DEF Init, WindowBounds, WindowIsOccupied, SentBeforeWaiting
<1> QED BY <1>1, <1>2 DEF IInv, RingInv

(* MessageQueue_enqueueASDU preserves the ring: the new entry lands behind *)
(* the latest one, or in place of the oldest.                              *)
LEMMA EnqueueIInv ==
  ASSUME IInv, NEW asdu \in ASDUs, NEW now \in Timestamps, EnqueueASDU(asdu, now)
  PROVE  IInv'
<1> DEFINE new  == [asdu |-> asdu, entryTimestamp |-> now, state |-> WAITING]
           next == IF entryCounter = 0 THEN 0 ELSE Wrap(lastMsgIndex + 1)
<1> USE SizeAssumption DEF Index, TypeOK
<1>1. /\ asdus' = [asdus EXCEPT ![next] = new]
      /\ lastMsgIndex' = next
      /\ sentASDUs' = sentASDUs
  BY DEF EnqueueASDU
<1>2. /\ next \in Index
      /\ entryCounter > 0 => /\ firstMsgIndex \in Index
                             /\ Place(next) = IF entryCounter = Size THEN 0
                                                ELSE entryCounter
  BY DEF IInv, RingInv, WindowBounds, Wrap, Slot, Place, Distance
<1>3. new \in ASDUQueueEntry /\ new.state = WAITING
  BY DEF ASDUQueueEntry
<1>4. \/ /\ entryCounter = 0
         /\ next = 0 /\ firstMsgIndex' = 0 /\ entryCounter' = 1
      \/ /\ entryCounter \in 1 .. Size - 1
         /\ firstMsgIndex \in Index /\ Place(next) = entryCounter
         /\ firstMsgIndex' = firstMsgIndex /\ entryCounter' = entryCounter + 1
      \/ /\ entryCounter = Size
         /\ firstMsgIndex \in Index /\ next = firstMsgIndex
         /\ firstMsgIndex' = Wrap(next + 1) /\ entryCounter' = Size
  BY <1>2 DEF EnqueueASDU, Place, Distance
<1> HIDE DEF next
<1>a. firstMsgIndex' \in Index /\ entryCounter' \in 1 .. Size
  BY <1>2, <1>4 DEF Wrap
<1>b. next = Wrap(firstMsgIndex' + entryCounter' - 1)
  BY <1>2, <1>4 DEF Wrap, Place, Distance
<1>c. Distance(firstMsgIndex', next) = entryCounter' - 1
  BY <1>2, <1>4 DEF Wrap, Place, Distance
<1>d. ASSUME NEW q \in Index, q # next
      PROVE  Distance(firstMsgIndex', q) < entryCounter'
               <=> entryCounter > 0 /\ Place(q) < entryCounter
  BY <1>2, <1>4, <1>d DEF Wrap, Place, Distance
<1>e. ASSUME NEW p \in Index, NEW q \in Index, p # next, q # next, entryCounter > 0
      PROVE  Distance(firstMsgIndex', p) < Distance(firstMsgIndex', q)
               <=> Place(p) < Place(q)
  BY <1>2, <1>4, <1>e DEF Wrap, Place, Distance
<1> HIDE DEF new
<1>5. TypeOK'
  BY <1>1, <1>2, <1>3, <1>a DEF IInv
<1>6. \A q \in Index : asdus'[q] = IF q = next THEN new ELSE asdus[q]
  BY <1>1, <1>2 DEF IInv
<1>7. WindowBounds'
  BY <1>1, <1>a, <1>b DEF WindowBounds, Slot
<1>8. WindowIsOccupied'
  BY <1>a, <1>2, <1>3, <1>c, <1>d, <1>6, StatesDiffer DEF WindowIsOccupied, IInv, RingInv, Place
<1>9. SentBeforeWaiting'
  <2> SUFFICES ASSUME NEW p \in Index, NEW q \in Index,
                      Distance(firstMsgIndex', p) < Distance(firstMsgIndex', q),
                      asdus'[q].state = SENT
               PROVE  asdus'[p].state = SENT
    BY DEF SentBeforeWaiting, Place
  <2>1. q # next /\ asdus[q].state = SENT
    BY <1>3, <1>6, StatesDiffer
  <2>2. entryCounter > 0 /\ Place(q) < entryCounter
    BY <2>1, StatesDiffer DEF IInv, RingInv, WindowIsOccupied
  <2>3. p # next
    <3>1. Distance(firstMsgIndex', q) < entryCounter'
      BY <1>d, <2>1, <2>2
    <3>2. p = next => Distance(firstMsgIndex', p) = entryCounter' - 1
      BY <1>c
    <3>3. Distance(firstMsgIndex', p) \in Int /\ Distance(firstMsgIndex', q) \in Int
      BY <1>a DEF Distance
    <3> QED BY <1>a, <3>1, <3>2, <3>3
  <2> QED BY <1>e, <1>6, <2>1, <2>2, <2>3 DEF SentBeforeWaiting, IInv, RingInv
<1> QED BY <1>5, <1>7, <1>8, <1>9 DEF IInv, RingInv

(* getNextWaitingASDU preserves the ring: the slot it turns SENT is the    *)
(* oldest waiting one.                                                     *)
LEMMA TransmitIInv ==
  ASSUME IInv, NEW q \in Index, GetNextWaitingASDU(q)
  PROVE  IInv'
<1>1. /\ asdus' = [asdus EXCEPT ![q].state = SENT]
      /\ UNCHANGED <<entryCounter, firstMsgIndex, lastMsgIndex>>
      /\ asdus[q].state = WAITING
      /\ \A p \in Index : Place(p) < Place(q) => asdus[p].state = SENT
  BY DEF GetNextWaitingASDU, NextWaiting
<1>2. \A p \in Index : asdus'[p].state = IF p = q THEN SENT ELSE asdus[p].state
  BY <1>1 DEF IInv, TypeOK, ASDUQueueEntry
<1>3. /\ asdus[q] \in ASDUQueueEntry
      /\ [asdus[q] EXCEPT !.state = SENT] \in ASDUQueueEntry
      /\ [queueIndex |-> q, entryTime |-> asdus[q].entryTimestamp] \in SentASDU
  BY DEF IInv, TypeOK, ASDUQueueEntry, SentASDU
<1>4. TypeOK'
  BY <1>1, <1>3 DEF IInv, TypeOK, GetNextWaitingASDU
<1>5. WindowBounds'
  BY <1>1 DEF IInv, RingInv, WindowBounds, Slot
<1>6. WindowIsOccupied'
  BY <1>1, <1>2, StatesDiffer DEF IInv, RingInv, WindowIsOccupied, Place
<1>7. SentBeforeWaiting'
  <2> SUFFICES ASSUME NEW p1 \in Index, NEW p2 \in Index, entryCounter > 0,
                      Place(p1) < Place(p2), asdus'[p2].state = SENT
               PROVE  asdus'[p1].state = SENT
    BY <1>1 DEF SentBeforeWaiting, Place
  <2> QED BY <1>1, <1>2 DEF IInv, RingInv, SentBeforeWaiting
<1> QED BY <1>4, <1>5, <1>6, <1>7 DEF IInv, RingInv

(* Under the invariant the walk back of markAsduAsConfirmed from slot q    *)
(* frees q and every older entry, nothing else.                            *)
LEMMA WalkReachesOldest ==
  ASSUME IInv, NEW q \in Index, entryCounter > 0, asdus[q].state = SENT,
         NEW n \in 1 .. Size, StopsAfter(q, n),
         \A m \in 1 .. n - 1 : ~ StopsAfter(q, m)
  PROVE  n = Place(q) + 1 /\ n <= entryCounter
<1> USE SizeAssumption DEF Index
<1>1. Place(q) \in 0 .. entryCounter - 1 /\ firstMsgIndex \in Index
  BY StatesDiffer DEF IInv, TypeOK, RingInv, WindowBounds, WindowIsOccupied, Place, Distance
<1>2. StopsAfter(q, Place(q) + 1)
  BY <1>1 DEF StopsAfter, Place, IInv, TypeOK
<1>3. n <= Place(q) + 1
  BY <1>1, <1>2 DEF IInv, TypeOK
<1>4. ASSUME n < Place(q) + 1 PROVE FALSE
  <2>1. \E p \in Index : Distance(p, q) = n /\ asdus[p].state # SENT
    BY <1>1, <1>4 DEF StopsAfter, Place, IInv, TypeOK
  <2>2. PICK p \in Index : Distance(p, q) = n /\ asdus[p].state # SENT
    BY <2>1
  <2>3. Place(p) < Place(q)
    BY <1>1, <1>4, <2>2 DEF Place, Distance
  <2> QED BY <2>2, <2>3 DEF IInv, RingInv, SentBeforeWaiting
<1> QED BY <1>1, <1>3, <1>4 DEF IInv, TypeOK

(* markAsduAsConfirmed preserves the ring: what is left is the rest of the *)
(* window, from the slot behind the acknowledged one.                      *)
LEMMA ConfirmIInv ==
  ASSUME IInv, NEW q \in Index, NEW t,
         MarkAsduAsConfirmed(q, t), sentASDUs' \in Seq(SentASDU)
  PROVE  IInv'
<1> USE SizeAssumption DEF Index
<1>1. CASE UNCHANGED <<asdus, entryCounter, firstMsgIndex, lastMsgIndex>>
  BY <1>1 DEF IInv, TypeOK, RingInv, WindowBounds, WindowIsOccupied, SentBeforeWaiting,
              Place, Slot
<1>2. ASSUME entryCounter > 0, asdus[q].state = SENT,
             NEW n \in 1 .. Size, StopsAfter(q, n),
             \A m \in 1 .. n - 1 : ~ StopsAfter(q, m), FreeBackwards(q, n)
      PROVE  IInv'
  <2>1. n = Place(q) + 1 /\ n <= entryCounter
    BY <1>2, WalkReachesOldest
  <2>2. /\ firstMsgIndex \in Index
        /\ lastMsgIndex = Slot(entryCounter - 1)
        /\ entryCounter \in 1 .. Size
    BY <1>2 DEF IInv, TypeOK, RingInv, WindowBounds
  <2>3. /\ entryCounter' = entryCounter - n
        /\ firstMsgIndex' = IF entryCounter = n THEN -1 ELSE Wrap(q + 1)
        /\ lastMsgIndex' = IF entryCounter = n THEN -1
                           ELSE IF entryCounter = n + 1 THEN Wrap(q + 1)
                           ELSE lastMsgIndex
        /\ asdus' = [p \in Index |->
                       IF Distance(p, q) < n THEN Freed(asdus[p]) ELSE asdus[p]]
    BY <1>2, <2>1, <2>2 DEF FreeBackwards, Place, Distance
  <2>4. \A p \in Index : Distance(p, q) < n <=> Place(p) < n
    BY <2>1, <2>2 DEF Place, Distance
  <2>5. \A p \in Index : asdus'[p] = IF Place(p) < n THEN Freed(asdus[p]) ELSE asdus[p]
    BY <2>3, <2>4
  <2>6. \A p \in Index : Freed(asdus[p]) \in ASDUQueueEntry /\ Freed(asdus[p]).state = NOT_USED
    BY DEF IInv, TypeOK, ASDUQueueEntry, Freed
  <2>7. TypeOK'
    <3>1. asdus' \in [Index -> ASDUQueueEntry]
      BY <2>3, <2>6 DEF IInv, TypeOK
    <3> QED BY <2>1, <2>2, <2>3, <3>1 DEF IInv, TypeOK, Wrap
  <2>8. CASE entryCounter = n
    <3>1. WindowBounds' /\ SentBeforeWaiting'
      BY <2>3, <2>8 DEF WindowBounds, SentBeforeWaiting
    <3>2. WindowIsOccupied'
      BY <2>3, <2>5, <2>6, <2>8, <1>2 DEF WindowIsOccupied, IInv, RingInv
    <3> QED BY <2>7, <3>1, <3>2 DEF IInv, RingInv
  <2>9. CASE entryCounter > n
    <3>1. firstMsgIndex' = Wrap(q + 1) /\ firstMsgIndex' \in Index
      BY <2>3, <2>9 DEF Wrap
    <3>2. WindowBounds'
      BY <2>1, <2>2, <2>3, <2>9, <3>1 DEF WindowBounds, Slot, Wrap, Place, Distance
    <3>3. \A p \in Index : Distance(firstMsgIndex', p) =
             IF Place(p) < n THEN Place(p) - n + Size ELSE Place(p) - n
      BY <2>1, <2>2, <3>1 DEF Wrap, Place, Distance
    <3>4. \A p \in Index : Place(p) \in 0 .. Size - 1
      BY <2>2 DEF Place, Distance
    <3>5. WindowIsOccupied'
      <4> SUFFICES ASSUME NEW p \in Index
                   PROVE  asdus'[p].state # NOT_USED
                            <=> Distance(firstMsgIndex', p) < entryCounter'
        BY <2>3, <2>9, <2>2 DEF WindowIsOccupied, Place
      <4>1. asdus[p].state # NOT_USED <=> Place(p) < entryCounter
        BY <2>2 DEF IInv, RingInv, WindowIsOccupied
      <4>2. /\ Place(p) \in 0 .. Size - 1
            /\ Distance(firstMsgIndex', p) =
                 IF Place(p) < n THEN Place(p) - n + Size ELSE Place(p) - n
        BY <3>3, <3>4
      <4>3. CASE Place(p) < n
        <5>1. asdus'[p].state = NOT_USED
          BY <2>5, <2>6, <4>3
        <5> QED BY <1>2, <2>2, <2>3, <4>2, <4>3, <5>1
      <4>4. CASE ~ (Place(p) < n)
        <5>1. asdus'[p].state = asdus[p].state
          BY <2>5, <4>4
        <5> QED BY <1>2, <2>2, <2>3, <4>1, <4>2, <4>4, <5>1
      <4> QED BY <4>3, <4>4
    <3>6. SentBeforeWaiting'
      <4> SUFFICES ASSUME NEW p1 \in Index, NEW p2 \in Index,
                          Distance(firstMsgIndex', p1) < Distance(firstMsgIndex', p2),
                          asdus'[p2].state = SENT
                   PROVE  asdus'[p1].state = SENT
        BY DEF SentBeforeWaiting, Place
      <4>1. ~ (Place(p2) < n) /\ asdus[p2].state = SENT
        BY <2>5, <2>6, StatesDiffer
      <4>2. /\ Place(p1) \in 0 .. Size - 1 /\ Place(p2) \in 0 .. Size - 1
            /\ Distance(firstMsgIndex', p1) =
                 IF Place(p1) < n THEN Place(p1) - n + Size ELSE Place(p1) - n
            /\ Distance(firstMsgIndex', p2) = Place(p2) - n
        BY <3>3, <3>4, <4>1
      <4>3. ~ (Place(p1) < n) /\ Place(p1) < Place(p2)
        BY <1>2, <4>1, <4>2
      <4>4. asdus'[p1] = asdus[p1] /\ asdus[p1].state = SENT
        BY <1>2, <2>5, <4>1, <4>3 DEF IInv, RingInv, SentBeforeWaiting
      <4> QED BY <4>4
    <3> QED BY <2>7, <3>2, <3>5, <3>6 DEF IInv, RingInv
  <2> QED BY <2>1, <2>2, <2>8, <2>9
<1> QED BY <1>1, <1>2 DEF MarkAsduAsConfirmed, Confirms

(* Every step of the queue preserves the invariant.                        *)
LEMMA NextIInv == IInv /\ [Next]_vars => IInv'
<1> SUFFICES ASSUME IInv, [Next]_vars PROVE IInv'
  OBVIOUS
<1>1. CASE Enqueue
  BY <1>1, EnqueueIInv DEF Enqueue
<1>2. CASE Transmit
  BY <1>2, TransmitIInv DEF Transmit
<1>3. CASE Acknowledge
  <2>1. Head(sentASDUs) \in SentASDU /\ Tail(sentASDUs) \in Seq(SentASDU)
    BY <1>3 DEF Acknowledge, IInv, TypeOK
  <2>2. Head(sentASDUs).queueIndex \in Index
    BY <2>1 DEF SentASDU
  <2> QED BY <1>3, <2>1, <2>2, ConfirmIInv DEF Acknowledge
<1>4. CASE UNCHANGED vars
  BY <1>4 DEF vars, IInv, TypeOK, RingInv, WindowBounds, WindowIsOccupied,
              SentBeforeWaiting, Place, Slot
<1> QED BY <1>1, <1>2, <1>3, <1>4 DEF Next

(* The ring and the k-buffer always have their types.                      *)
THEOREM TypeCorrect == Spec => []TypeOK
<1>1. IInv => TypeOK
  BY DEF IInv
<1> QED BY <1>1, InitIInv, NextIInv, PTL DEF Spec

(* No sequence of enqueues, transmissions and acknowledgements breaks the  *)
(* ring of cs104_slave.c, whatever its size and whatever the clock shows.  *)
THEOREM RingCorrect == Spec => []RingInv
<1>1. IInv => RingInv
  BY DEF IInv
<1> QED BY <1>1, InitIInv, NextIInv, PTL DEF Spec
-----------------------------------------------------------------------------
(* The refinement: the window of the ring is the buffer of EventBuffer.    *)

(* An entry as the abstract buffer sees it.                                *)
Content == [asdu : ASDUs \union {NoASDU}, sent : BOOLEAN]
ContentOf(entry) == [asdu |-> entry.asdu, sent |-> entry.state = SENT]

(* A slot holds what was sent if its state says so.                        *)
LEMMA SentOf == \A entry : ContentOf(entry).sent <=> entry.state = SENT
BY DEF ContentOf

(* A window of n slots from slot first is a sequence of n entries.         *)
WindowOf(slots, first, n) == [i \in 1 .. n |-> ContentOf(slots[Wrap(first + (i - 1))])]

(* Its entries are those of the slots from the first on.                   *)
LEMMA WindowIs ==
  ASSUME NEW slots \in [Index -> ASDUQueueEntry], NEW n \in 0 .. Size,
         NEW first \in Int, n > 0 => first \in Index
  PROVE  /\ WindowOf(slots, first, n) \in Seq(Content)
         /\ Len(WindowOf(slots, first, n)) = n
         /\ \A i \in 1 .. n :
              /\ Wrap(first + i - 1) \in Index
              /\ WindowOf(slots, first, n)[i] = ContentOf(slots[Wrap(first + i - 1)])
<1> DEFINE w == WindowOf(slots, first, n)
<1> USE SizeAssumption
<1>1. ASSUME NEW i \in 1 .. n
      PROVE  /\ Wrap(first + i - 1) \in Index
             /\ w[i] = ContentOf(slots[Wrap(first + i - 1)])
             /\ w[i] \in Content
  <2>1. Wrap(first + i - 1) \in Index /\ first + i - 1 = first + (i - 1)
    BY DEF Wrap, Index
  <2>2. w[i] = ContentOf(slots[Wrap(first + i - 1)])
    BY <2>1 DEF WindowOf
  <2>3. slots[Wrap(first + i - 1)] \in ASDUQueueEntry
    BY <2>1
  <2>4. \A entry \in ASDUQueueEntry : ContentOf(entry) \in Content
    BY DEF ASDUQueueEntry, Content, ContentOf
  <2> QED BY <2>1, <2>2, <2>3, <2>4
<1>2. w = [i \in 1 .. n |-> w[i]]
  BY DEF WindowOf
<1> HIDE DEF w, Content
<1>3. w \in [1 .. n -> Content]
  BY <1>1, <1>2
<1>4. w \in Seq(Content) /\ Len(w) = n
  BY <1>3
<1>5. \A i \in 1 .. n : Wrap(first + i - 1) \in Index
                        /\ w[i] = ContentOf(slots[Wrap(first + i - 1)])
  BY <1>1
<1> QED BY <1>4, <1>5 DEF w

(* The window of a state, and of the next one.                             *)
LEMMA WindowNow ==
  ASSUME TypeOK, WindowBounds
  PROVE  /\ Window \in Seq(Content) /\ Len(Window) = entryCounter
         /\ \A i \in 1 .. entryCounter :
              /\ Wrap(firstMsgIndex + i - 1) \in Index
              /\ Window[i] = ContentOf(asdus[Wrap(firstMsgIndex + i - 1)])
<1>1. /\ asdus \in [Index -> ASDUQueueEntry] /\ entryCounter \in 0 .. Size
      /\ firstMsgIndex \in Int /\ (entryCounter > 0 => firstMsgIndex \in Index)
  BY SizeAssumption DEF TypeOK, WindowBounds, Index
<1>2. Window = WindowOf(asdus, firstMsgIndex, entryCounter)
  BY DEF Window, WindowOf, ContentOf, Slot
<1> QED BY <1>1, <1>2, WindowIs

(* The window after a step, entry by entry.                                *)
LEMMA WindowNext ==
  ASSUME TypeOK', WindowBounds'
  PROVE  /\ Window' \in Seq(Content) /\ Len(Window') = entryCounter'
         /\ \A i \in 1 .. entryCounter' :
              /\ Wrap(firstMsgIndex' + i - 1) \in Index
              /\ Window'[i] = ContentOf(asdus'[Wrap(firstMsgIndex' + i - 1)])
<1>1. /\ asdus' \in [Index -> ASDUQueueEntry] /\ entryCounter' \in 0 .. Size
      /\ firstMsgIndex' \in Int /\ (entryCounter' > 0 => firstMsgIndex' \in Index)
  BY SizeAssumption DEF TypeOK, WindowBounds, Index
<1>2. Window' = WindowOf(asdus', firstMsgIndex', entryCounter')
  BY DEF Window, WindowOf, ContentOf, Slot
<1> QED BY <1>1, <1>2, WindowIs

(* The place of a slot, and the slot of a place.                           *)
LEMMA SlotPlace ==
  ASSUME firstMsgIndex \in Index
  PROVE  /\ \A i \in 0 .. Size - 1 : Slot(i) \in Index /\ Place(Slot(i)) = i
         /\ \A q \in Index : Place(q) \in 0 .. Size - 1 /\ Slot(Place(q)) = q
BY SizeAssumption DEF Slot, Place, Distance, Wrap, Index

(* MessageQueue_enqueueASDU queues the event behind all others, a full     *)
(* queue gives up its oldest one.                                          *)
LEMMA EnqueueRefines ==
  ASSUME IInv, IInv', NEW asdu \in ASDUs, NEW now \in Timestamps, EnqueueASDU(asdu, now)
  PROVE  Abstract!Enqueue(asdu)
<1> DEFINE entry == [asdu |-> asdu, entryTimestamp |-> now, state |-> WAITING]
           new == [asdu |-> asdu, sent |-> FALSE]
           next == IF entryCounter = 0 THEN 0 ELSE Wrap(lastMsgIndex + 1)
           n == entryCounter
           A(i) == Wrap(firstMsgIndex + i - 1)
           B(i) == Wrap(firstMsgIndex' + i - 1)
<1>1. /\ Window \in Seq(Content) /\ Len(Window) = n
      /\ \A i \in 1 .. n : A(i) \in Index /\ Window[i] = ContentOf(asdus[A(i)])
  BY WindowNow DEF IInv, RingInv
<1>2. /\ Window' \in Seq(Content) /\ Len(Window') = entryCounter'
      /\ \A i \in 1 .. entryCounter' : B(i) \in Index /\ Window'[i] = ContentOf(asdus'[B(i)])
  BY WindowNext DEF IInv, RingInv
<1>3. /\ next \in Index /\ n \in 0 .. Size /\ firstMsgIndex \in Int
      /\ n > 0 => firstMsgIndex \in Index /\ next = Wrap(firstMsgIndex + n)
  BY SizeAssumption DEF IInv, TypeOK, RingInv, WindowBounds, Wrap, Slot, Index
<1>4. \A q \in Index : asdus'[q] = IF q = next THEN entry ELSE asdus[q]
  BY <1>3 DEF EnqueueASDU, IInv, TypeOK
<1>5. new \in Content /\ ContentOf(entry) = new
  BY StatesDiffer DEF Content, ContentOf
<1>6. \/ n = 0 /\ firstMsgIndex' = 0 /\ entryCounter' = 1
      \/ n \in 1 .. Size - 1 /\ firstMsgIndex' = firstMsgIndex /\ entryCounter' = n + 1
      \/ n = Size /\ firstMsgIndex' = Wrap(next + 1) /\ entryCounter' = n
  BY DEF EnqueueASDU
<1> HIDE DEF entry, new, next
<1> USE SizeAssumption
<1>7. CASE n < Size
  <2>1. entryCounter' = n + 1 /\ n + 1 \in 1 .. Size
    BY <1>3, <1>6, <1>7
  <2>2. \A i \in 1 .. n : B(i) = A(i) /\ A(i) # next
    BY <1>3, <1>6, <1>7 DEF Wrap, Index
  <2>3. B(n + 1) = next
    <3>1. n = 0 => next = 0
      BY DEF next
    <3> QED BY <1>3, <1>6, <1>7, <3>1 DEF Wrap, Index
  <2> HIDE DEF A, B
  <2>4. \A i \in 1 .. n : Window'[i] = Window[i]
    BY <1>1, <1>2, <1>4, <2>1, <2>2
  <2>5. Window'[n + 1] = new
    BY <1>2, <1>3, <1>4, <1>5, <2>1, <2>3
  <2> HIDE DEF Content
  <2>6. /\ Append(Window, new) \in Seq(Content)
        /\ Len(Append(Window, new)) = n + 1
        /\ \A i \in 1 .. n : Append(Window, new)[i] = Window[i]
        /\ Append(Window, new)[n + 1] = new
    BY <1>1, <1>5, AppendProperties
  <2>7. \A i \in 1 .. n + 1 : Window'[i] = Append(Window, new)[i]
    <3>1. \A i \in 1 .. n + 1 : i \in 1 .. n \/ i = n + 1
      BY <1>3
    <3> QED BY <2>4, <2>5, <2>6, <3>1
  <2>8. Window' = Append(Window, new)
    BY <1>2, <2>1, <2>6, <2>7, SeqEqual
  <2> QED BY <1>1, <1>7, <2>8 DEF Abstract!Enqueue, new
<1>8. CASE n = Size
  <2>1. /\ entryCounter' = n /\ n > 0 /\ firstMsgIndex \in Index /\ next = firstMsgIndex
        /\ firstMsgIndex' = Wrap(next + 1)
    BY <1>3, <1>6, <1>8, SizeAssumption DEF Wrap, Index
  <2>2. \A i \in 1 .. n - 1 : B(i) = A(i + 1) /\ A(i + 1) # next
    BY <1>3, <1>8, <2>1 DEF Wrap, Index
  <2>3. B(n) = next
    BY <1>3, <1>8, <2>1 DEF Wrap, Index
  <2> HIDE DEF A, B
  <2>4. ASSUME NEW i \in 1 .. n - 1 PROVE Window'[i] = Window[i + 1]
    <3>1. i \in 1 .. entryCounter' /\ i + 1 \in 1 .. n
      BY <1>3, <2>1
    <3>2. Window'[i] = ContentOf(asdus'[B(i)]) /\ asdus'[B(i)] = asdus[A(i + 1)]
      BY <1>1, <1>2, <1>4, <2>2, <3>1
    <3>3. Window[i + 1] = ContentOf(asdus[A(i + 1)])
      BY <1>1, <3>1
    <3> QED BY <3>2, <3>3
  <2>5. Window'[n] = new
    BY <1>2, <1>3, <1>4, <1>5, <2>1, <2>3
  <2> HIDE DEF Content
  <2>6. /\ Tail(Window) \in Seq(Content) /\ Len(Tail(Window)) = n - 1
        /\ \A i \in 1 .. n - 1 : Tail(Window)[i] = Window[i + 1]
    BY <1>1, <2>1, HeadTailProperties
  <2>7. /\ Append(Tail(Window), new) \in Seq(Content)
        /\ Len(Append(Tail(Window), new)) = n
        /\ \A i \in 1 .. n - 1 : Append(Tail(Window), new)[i] = Tail(Window)[i]
        /\ Append(Tail(Window), new)[n] = new
    <3>1. n - 1 + 1 = n
      BY <1>3
    <3> QED BY <1>5, <2>6, <3>1, AppendProperties
  <2>8. \A i \in 1 .. n : Window'[i] = Append(Tail(Window), new)[i]
    BY <1>3, <2>1, <2>4, <2>5, <2>6, <2>7
  <2>9. Window' = Append(Tail(Window), new)
    BY <1>2, <2>1, <2>7, <2>8, SeqEqual
  <2> QED BY <1>1, <1>8, <2>9 DEF Abstract!Enqueue, new
<1> QED BY <1>3, <1>7, <1>8

(* A transmitted entry was the first that waited.                          *)
LEMMA TransmitRefines ==
  ASSUME IInv, IInv', NEW q \in Index, GetNextWaitingASDU(q)
  PROVE  \E n \in 1 .. Len(Window) : Abstract!Transmit(n)
<1> DEFINE n == Place(q) + 1
           A(i) == Wrap(firstMsgIndex + i - 1)
           next == [Window EXCEPT ![n].sent = TRUE]
<1> USE SizeAssumption
<1>1. /\ Window \in Seq(Content) /\ Len(Window) = entryCounter
      /\ \A i \in 1 .. entryCounter : A(i) \in Index /\ Window[i] = ContentOf(asdus[A(i)])
  BY WindowNow DEF IInv, RingInv
<1>2. /\ Window' \in Seq(Content) /\ Len(Window') = entryCounter'
      /\ \A i \in 1 .. entryCounter' :
           Window'[i] = ContentOf(asdus'[Wrap(firstMsgIndex' + i - 1)])
  BY WindowNext DEF IInv, RingInv
<1>3. /\ asdus' = [asdus EXCEPT ![q].state = SENT]
      /\ UNCHANGED <<entryCounter, firstMsgIndex, lastMsgIndex>>
      /\ entryCounter # 0 /\ entryCounter \in Nat
      /\ asdus[q].state = WAITING
      /\ \A p \in Index : Place(p) < Place(q) => asdus[p].state = SENT
  BY DEF GetNextWaitingASDU, NextWaiting, IInv, TypeOK
<1>4. firstMsgIndex \in Index /\ entryCounter \in 1 .. Size
  BY <1>3 DEF IInv, TypeOK, RingInv, WindowBounds
<1>5. n \in 1 .. entryCounter /\ n \in 1 .. Size
  BY <1>3, <1>4, SlotPlace, StatesDiffer DEF IInv, RingInv, WindowIsOccupied
<1>6. \A i \in 1 .. entryCounter : A(i) \in Index /\ Place(A(i)) = i - 1
  BY <1>4, SlotPlace DEF Slot
<1>7. A(n) = q
  BY <1>4, SlotPlace DEF Slot
<1>8. \A i \in 1 .. entryCounter : A(i) = q => i = n
  BY <1>4, <1>6
<1>9. asdus[q] \in ASDUQueueEntry /\ asdus \in [Index -> ASDUQueueEntry]
  BY DEF IInv, TypeOK
<1>10. /\ ContentOf(asdus'[q]) = [ContentOf(asdus[q]) EXCEPT !.sent = TRUE]
       /\ \A p \in Index : p # q => asdus'[p] = asdus[p]
  <2>1. asdus'[q] = [asdus[q] EXCEPT !.state = SENT]
        /\ \A p \in Index : p # q => asdus'[p] = asdus[p]
    BY <1>3, <1>9
  <2>2. asdus'[q].asdu = asdus[q].asdu /\ asdus'[q].state = SENT
    BY <1>9, <2>1 DEF ASDUQueueEntry
  <2>3. ContentOf(asdus'[q]) = [asdu |-> asdus[q].asdu, sent |-> TRUE]
    BY <2>2 DEF ContentOf
  <2>4. [ContentOf(asdus[q]) EXCEPT !.sent = TRUE] = [asdu |-> asdus[q].asdu, sent |-> TRUE]
    <3> DEFINE c == ContentOf(asdus[q])
               d == [c EXCEPT !.sent = TRUE]
               e == [asdu |-> asdus[q].asdu, sent |-> TRUE]
    <3>1. c \in Content /\ c.asdu = asdus[q].asdu /\ e \in Content
      BY <1>9 DEF Content, ContentOf, ASDUQueueEntry
    <3> HIDE DEF c
    <3>2. d \in Content /\ d.asdu = e.asdu /\ d.sent = e.sent
      BY <3>1 DEF Content
    <3> HIDE DEF d, e
    <3>3. d = e
      BY <3>1, <3>2 DEF Content
    <3> QED BY <3>3 DEF c, d, e
  <2> QED BY <2>1, <2>3, <2>4
<1>11. ~ Window[n].sent
  <2>1. Window[n] = ContentOf(asdus[q])
    BY <1>1, <1>5, <1>7
  <2> QED BY <1>3, <2>1, SentOf, StatesDiffer
<1>12. \A m \in 1 .. n - 1 : Window[m].sent
  <2> TAKE m \in 1 .. n - 1
  <2>1. m \in 1 .. entryCounter /\ m - 1 < Place(q)
    <3>1. Place(q) \in Int /\ n \in 1 .. entryCounter
      BY <1>4, <1>5, SlotPlace
    <3> QED BY <1>4, <3>1
  <2>2. asdus[A(m)].state = SENT
    BY <1>3, <1>6, <2>1
  <2>3. Window[m] = ContentOf(asdus[A(m)])
    BY <1>1, <2>1
  <2> QED BY <2>2, <2>3, SentOf
<1>13. next \in Seq(Content) /\ Len(next) = entryCounter
       /\ \A i \in 1 .. entryCounter :
            next[i] = IF i = n THEN [Window[n] EXCEPT !.sent = TRUE] ELSE Window[i]
  <2>1. next = [Window EXCEPT ![n] = [Window[n] EXCEPT !.sent = TRUE]]
    OBVIOUS
  <2>2. Window[n] \in Content
    <3> HIDE DEF Content, n
    <3> QED BY <1>1, <1>5
  <2>3. [Window[n] EXCEPT !.sent = TRUE] \in Content
    BY <2>2 DEF Content
  <2> HIDE DEF Content, n, next
  <2> QED BY <1>1, <1>5, <2>1, <2>3, ExceptSeq
<1> HIDE DEF n, A, next
<1>14. \A i \in 1 .. entryCounter : Window'[i] = next[i]
  <2> TAKE i \in 1 .. entryCounter
  <2>1. Window'[i] = ContentOf(asdus'[A(i)])
    BY <1>2, <1>3 DEF A
  <2>2. CASE i = n
    BY <1>1, <1>5, <1>7, <1>10, <1>13, <2>1, <2>2
  <2>3. CASE i # n
    BY <1>1, <1>6, <1>8, <1>10, <1>13, <2>1, <2>3
  <2> QED BY <2>2, <2>3
<1>15. Window' = next
  <2> HIDE DEF Content
  <2> QED BY <1>2, <1>3, <1>13, <1>14, SeqEqual
<1>16. n \in 1 .. Len(Window)
  BY <1>1, <1>5
<1> QED BY <1>11, <1>12, <1>15, <1>16 DEF Abstract!Transmit, next

(* markAsduAsConfirmed frees the acknowledged entry and all before it, or  *)
(* nothing.                                                                *)
LEMMA ConfirmRefines ==
  ASSUME IInv, IInv', NEW q \in Index, NEW t, MarkAsduAsConfirmed(q, t)
  PROVE  \/ \E n \in 1 .. Len(Window) : Abstract!Confirm(n)
         \/ UNCHANGED Window
<1> USE SizeAssumption
<1>1. CASE UNCHANGED <<asdus, entryCounter, firstMsgIndex, lastMsgIndex>>
  BY <1>1 DEF Window, Slot
<1>2. ASSUME entryCounter > 0, asdus[q].state = SENT,
             NEW n \in 1 .. Size, StopsAfter(q, n),
             \A m \in 1 .. n - 1 : ~ StopsAfter(q, m), FreeBackwards(q, n)
      PROVE  n \in 1 .. Len(Window) /\ Abstract!Confirm(n)
  <2> DEFINE A(i) == Wrap(firstMsgIndex + i - 1)
             B(i) == Wrap(firstMsgIndex' + i - 1)
             rest == SubSeq(Window, n + 1, Len(Window))
  <2>1. /\ Window \in Seq(Content) /\ Len(Window) = entryCounter
        /\ \A i \in 1 .. entryCounter : A(i) \in Index /\ Window[i] = ContentOf(asdus[A(i)])
    BY WindowNow DEF IInv, RingInv
  <2>2. /\ Window' \in Seq(Content) /\ Len(Window') = entryCounter'
        /\ \A i \in 1 .. entryCounter' :
             B(i) \in Index /\ Window'[i] = ContentOf(asdus'[B(i)])
    BY WindowNext DEF IInv, RingInv
  <2>3. n = Place(q) + 1 /\ n <= entryCounter
    BY <1>2, WalkReachesOldest
  <2>4. firstMsgIndex \in Index /\ entryCounter \in 1 .. Size
    BY <1>2 DEF IInv, TypeOK, RingInv, WindowBounds
  <2>5. /\ entryCounter' = entryCounter - n
        /\ entryCounter > n => firstMsgIndex' = Wrap(q + 1)
        /\ \A p \in Index : Place(p) >= n => asdus'[p] = asdus[p]
    BY <1>2, <2>3, <2>4 DEF FreeBackwards, Place, Distance, Index
  <2>6. \A i \in 1 .. entryCounter : Place(A(i)) = i - 1
    BY <2>4, SlotPlace DEF Slot
  <2>7. \A i \in 1 .. entryCounter - n : B(i) = A(n + i)
    BY <2>3, <2>4, <2>5 DEF Wrap, Place, Distance, Index
  <2>8. Window[n].sent
    <3>1. A(n) = q
      BY <2>3, <2>4, SlotPlace DEF Slot
    <3>2. Window[n] = ContentOf(asdus[q])
      BY <2>1, <2>3, <3>1
    <3> QED BY <1>2, <3>2, SentOf
  <2>9. /\ rest \in Seq(Content) /\ Len(rest) = entryCounter - n
        /\ \A i \in 1 .. entryCounter - n : rest[i] = Window[n + i]
    <3>1. \A i \in n + 1 .. entryCounter : Window[i] \in Content
      <4> HIDE DEF Content
      <4> QED BY <2>1, <2>4
    <3> DEFINE e == entryCounter
    <3>2. n + 1 \in Int /\ e \in Int /\ Len(Window) = e /\ n <= e
      BY <2>1, <2>3, <2>4
    <3> HIDE DEF Content, e
    <3>3. /\ SubSeq(Window, n + 1, e) \in Seq(Content)
          /\ Len(SubSeq(Window, n + 1, e)) = IF n + 1 <= e THEN e - (n + 1) + 1 ELSE 0
          /\ \A i \in 1 .. e - (n + 1) + 1 : SubSeq(Window, n + 1, e)[i] = Window[n + 1 + i - 1]
      BY <3>1, <3>2, SubSeqProperties DEF e
    <3>4. /\ e - (n + 1) + 1 = e - n
          /\ \A i \in 1 .. e - n : n + 1 + i - 1 = n + i
          /\ (IF n + 1 <= e THEN e - (n + 1) + 1 ELSE 0) = e - n
      BY <3>2
    <3> QED BY <3>2, <3>3, <3>4 DEF e
  <2> HIDE DEF A, B, rest
  <2>10. \A i \in 1 .. entryCounter - n : Window'[i] = rest[i]
    <3> TAKE i \in 1 .. entryCounter - n
    <3>1. n + i \in 1 .. entryCounter /\ i \in 1 .. entryCounter'
      BY <2>3, <2>4, <2>5
    <3>2. Place(A(n + i)) >= n /\ A(n + i) \in Index
      BY <2>1, <2>4, <2>6, <3>1
    <3> QED BY <2>1, <2>2, <2>5, <2>7, <2>9, <3>1, <3>2
  <2>11. Window' = rest
    <3> HIDE DEF Content
    <3> QED BY <2>2, <2>5, <2>9, <2>10, SeqEqual
  <2> QED BY <2>1, <2>3, <2>4, <2>8, <2>11 DEF Abstract!Confirm, rest
<1> QED BY <1>1, <1>2 DEF MarkAsduAsConfirmed, Confirms

(* Every step of the ring is a step of the buffer, or none.                *)
LEMMA NextRefines == IInv /\ [Next]_vars => [Abstract!Next]_Window
<1> SUFFICES ASSUME IInv, [Next]_vars PROVE Abstract!Next \/ UNCHANGED Window
  OBVIOUS
<1>1. IInv'
  BY NextIInv
<1>2. CASE Enqueue
  BY <1>1, <1>2, EnqueueRefines DEF Enqueue, Abstract!Next
<1>3. CASE Transmit
  BY <1>1, <1>3, TransmitRefines DEF Transmit, Abstract!Next
<1>4. CASE Acknowledge
  <2>a. Head(sentASDUs) \in SentASDU
    BY <1>4 DEF Acknowledge, IInv, TypeOK
  <2>1. Head(sentASDUs).queueIndex \in Index
    BY <2>a DEF SentASDU
  <2> QED BY <1>1, <1>4, <2>1, ConfirmRefines DEF Acknowledge, Abstract!Next
<1>5. CASE UNCHANGED vars
  BY <1>5 DEF vars, Window, Slot
<1> QED BY <1>2, <1>3, <1>4, <1>5 DEF Next

(* The ring implements the bounded first-in first-out buffer, whatever its *)
(* size: entries are transmitted in the order they were queued, each one   *)
(* once, and none is lost before its transmission unless the ring is full. *)
THEOREM RefinementHolds == Spec => ImplementsEventBuffer
<1>1. Init => Abstract!Init
  BY DEF Init, Abstract!Init, Window
<1>2. IInv /\ [Next]_vars => [Abstract!Next]_Window
  BY NextRefines
<1> QED BY <1>1, <1>2, InitIInv, NextIInv, PTL DEF Spec, ImplementsEventBuffer, Abstract!Spec
=============================================================================
