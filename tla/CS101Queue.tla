----------------------------- MODULE CS101Queue -----------------------------
(***************************************************************************)
(* The queue of ASDUs of cs101_queue.c: a ring whose oldest entry makes    *)
(* room when it is full.  Enqueue and Dequeue are the ring as the code     *)
(* keeps it; Put and Rest are what its users see of it, a sequence.        *)
(* MCCS101 compares the two.                                               *)
(***************************************************************************)
EXTENDS Integers, Sequences, FiniteSets

NoEntry == "none"

\* CS101_Queue_initialize, CS101_Queue_flush. Flushing leaves the entries where they are.
EmptyRing(size) ==
    [entryCounter |-> 0, firstMsgIndex |-> 0, lastMsgIndex |-> 0,
     elements |-> [i \in 0..(size - 1) |-> NoEntry]]
Flush(ring) == [ring EXCEPT !.entryCounter = 0, !.firstMsgIndex = 0, !.lastMsgIndex = 0]

RingSize(ring) == Cardinality(DOMAIN ring.elements)
After(ring, index) == IF index + 1 = RingSize(ring) THEN 0 ELSE index + 1

\* CS101_Queue_enqueue: an empty ring starts at 0 again, a full one loses its oldest entry.
Enqueue(ring, asdu) ==
    LET empty == ring.entryCounter = 0
        full  == ring.entryCounter = RingSize(ring)
        next  == IF empty THEN 0 ELSE After(ring, ring.lastMsgIndex)
    IN  [elements      |-> [ring.elements EXCEPT ![next] = asdu],
         lastMsgIndex  |-> next,
         entryCounter  |-> IF full THEN ring.entryCounter ELSE ring.entryCounter + 1,
         firstMsgIndex |-> IF empty THEN 0
                           ELSE IF full THEN After(ring, next) ELSE ring.firstMsgIndex]

\* CS101_Queue_dequeue
Dequeued(ring) == IF ring.entryCounter = 0 THEN NoEntry ELSE ring.elements[ring.firstMsgIndex]
Dequeue(ring) ==
    IF ring.entryCounter = 0 THEN ring
    ELSE [ring EXCEPT !.firstMsgIndex = (@ + 1) % RingSize(ring), !.entryCounter = @ - 1]

----------------------------------------------------------------------------
\* What a ring holds, the oldest first, and the sequence that behaves like it.
Held(ring) ==
    [k \in 1..ring.entryCounter |->
       ring.elements[(ring.firstMsgIndex + k - 1) % RingSize(ring)]]

Put(queue, asdu, size) ==
    IF Len(queue) < size THEN Append(queue, asdu) ELSE Append(Tail(queue), asdu)
Rest(queue) == IF queue = <<>> THEN <<>> ELSE Tail(queue)
=============================================================================
