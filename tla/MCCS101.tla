------------------------------ MODULE MCCS101 ------------------------------
(***************************************************************************)
(* CS101 for TLC. The ring of cs101_queue.c is compared here with the      *)
(* sequence that stands for it in CS101.                                   *)
(***************************************************************************)
EXTENDS CS101

\* Bounds: the sizes of the ring, and the calls made of it.
RingSizes == 1..3
RingCalls == 7

\* A ring beside the sequence, after every series of at most n calls.
AfterCall(size, pair) ==
    {<<Enqueue(pair[1], asdu), Put(pair[2], asdu, size)>> : asdu \in {"a", "b"}}
    \cup {<<Dequeue(pair[1]), Rest(pair[2])>>, <<Flush(pair[1]), <<>>>>}
RingsBeside(size) ==
    LET pairs[n \in 0..RingCalls] ==
          IF n = 0 THEN {<<EmptyRing(size), <<>>>>}
          ELSE pairs[n - 1] \cup UNION {AfterCall(size, pair) : pair \in pairs[n - 1]}
    IN  pairs[RingCalls]

\* The ring of CS101_Queue holds what the sequence holds and gives its oldest entry.
ASSUME RingIsASequence ==
    \A size \in RingSizes : \A pair \in RingsBeside(size) :
      /\ Held(pair[1]) = pair[2]
      /\ Dequeued(pair[1]) = IF pair[2] = <<>> THEN NoEntry ELSE Head(pair[2])
=============================================================================
