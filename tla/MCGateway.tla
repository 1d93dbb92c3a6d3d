----------------------------- MODULE MCGateway -----------------------------
(***************************************************************************)
(* Small gateways for TLC.                                                 *)
(***************************************************************************)
EXTENDS Gateway

CONSTANTS r1, r2, w1, w2, m1, m2, w3, c1, c2, a1, a2, a3, zero, one

(* One bus with two read points.                                           *)
ReportingScript == [m \in {m1} |-> <<r1, r2>>]
ReportingOrder == <<r1, r2>>
NoCandidates == [a \in {} |-> << >>]
NoRefusals == [w \in {} |-> {}]
NoRequests == {}
NoFunctions == [w \in {} |-> 5]
AllBits == [v \in Values |-> v]

(* Two buses: w1 takes ON and indeterminate commands only and is alone on  *)
(* its bus; it is written with function 06, and ON is 256, whose low byte  *)
(* is zero.  On the other bus w3, after w2, has a type that is not stored. *)
CommandingScript == [m \in {m1, m2} |-> IF m = m1 THEN <<w1>> ELSE <<w2, w3>>]
CommandingOrder == << >>
CommandingCandidates ==
  [a \in {a1, a2, a3} |-> CASE a = a1 -> <<w1, w2>>
                             [] a = a2 -> <<w2, w2, w2, w2>>
                             [] a = a3 -> <<w3>>]
CommandingRefusals == [w \in {w1, w2, w3} |-> IF w = w1 THEN {zero} ELSE {}]
CommandingFunctions == [w \in WritePoints |-> CASE w = w1 -> 6 [] w = w2 -> 5 [] w = w3 -> 16]
NoHighByte == [v \in Values |-> zero]
Activate(a, v) == [cot |-> "ACTIVATION", elements |-> <<[address |-> a, value |-> v]>>]
CommandingRequests ==
  {Activate(a1, Indeterminate), Activate(a1, one), Activate(a2, one), Activate(a3, one),
   [cot |-> "ACTIVATION", elements |-> <<[address |-> a1, value |-> one], Truncated>>],
   [cot |-> "DEACTIVATION", elements |-> <<[address |-> a1, value |-> one]>>],
   [cot |-> "ACTIVATION", elements |-> <<[address |-> a1, value |-> zero],
                                         [address |-> a1, value |-> one]>>]}

(* A bus with the point w1, which has no OFF value.                        *)
RefusedScript == [m \in {m1} |-> <<w1>>]
RefusingCandidates == [a \in {a1} |-> <<w1>>]
RefusingRefusals == [w \in {w1} |-> {zero}]
RefusingRequests ==
  {Activate(a1, one), Activate(a1, zero)}
=============================================================================
