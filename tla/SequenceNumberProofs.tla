------------------------ MODULE SequenceNumberProofs ------------------------
(***************************************************************************)
(* Proofs about the sequence numbers of a connection, for every modulus M, *)
(* k, w and window of the peer: the numbers have no gap, a peer that keeps *)
(* the protocol is never refused although numbers wrap around, and no event*)
(* leaves its queue before the peer has it.                                *)
(*                                                                         *)
(* Everything is measured as a distance from the oldest number not yet     *)
(* acknowledged: comparisons of numbers modulo M become comparisons of     *)
(* distances, which do not wrap as k + 1 < M.                              *)
(***************************************************************************)
EXTENDS MasterConnectionProofs

(* The number of the oldest message not acknowledged, and how far a number *)
(* is ahead of it.                                                         *)
Distance(a, x) == (x - a) % M
Acked == (sendCount - Len(sentASDUs)) % M
Ahead(x) == Distance(Acked, x)

(* A connection that found a number out of sequence handles no message any *)
(* more.                                                                   *)
StoppedInv ==
  /\ cause = "sequence" => ~ isRunning
  /\ ~ isRunning => pc # "receive"
  /\ conforms => cause # "sequence"

(* What the peer has yet to receive is in the k-buffer, at the place its   *)
(* number says.                                                            *)
WayInv ==
  /\ Ahead(peerReceive) <= Len(sentASDUs)
  /\ \A i \in 1 .. Len(toPeer) : IsI(toPeer[i]) =>
       /\ Ahead(peerReceive) <= Ahead(toPeer[i].ns) /\ Ahead(toPeer[i].ns) < Len(sentASDUs)
       /\ sentASDUs[Ahead(toPeer[i].ns) + 1].asdu = toPeer[i].asdu
  /\ \A i, j \in 1 .. Len(toPeer) :
       IsI(toPeer[i]) /\ IsI(toPeer[j]) /\ i < j => Ahead(toPeer[i].ns) < Ahead(toPeer[j].ns)

(* What it has received was delivered to it.                               *)
Delivered(e) == \E d \in 1 .. Len(delivered) : delivered[d] = e
DeliveredInv ==
  \A p \in 1 .. Len(sentASDUs) :
    p <= Ahead(peerReceive) /\ sentASDUs[p].asdu # Reply => Delivered(sentASDUs[p].asdu)

(* The entries that were sent are the front of the queue, and each is      *)
(* delivered or on its way.                                                *)
QueueInv ==
  /\ \A i, j \in 1 .. Len(lowPrioQueue) : i < j /\ lowPrioQueue[j].sent => lowPrioQueue[i].sent
  /\ \A i \in 1 .. Len(lowPrioQueue) : lowPrioQueue[i].sent =>
       \/ Delivered(lowPrioQueue[i].event)
       \/ \E w \in OnTheWay : toPeer[w].asdu = lowPrioQueue[i].event

(* The first g messages to the server are those of a peer that keeps the   *)
(* protocol: their N(S) count from what the server expects to what the peer*)
(* sends next, and their N(R) from what is acknowledged to the last one the*)
(* peer sent.  The numbered message after them, if the peer erred, is      *)
(* wrong, and no other follows.                                            *)
After(frames, first, n) ==
  LET sent == {m \in 1 .. n : IsI(frames[m])}
  IN  IF sent = {} THEN first ELSE Succ(frames[LastOf(sent)].ns)

IsWrong(f, send, ackSent) ==
  \/ f.kind = "I" /\ f.ns # send
  \/ f.kind = "S" /\ f.nr \notin {(ackSent + n) % M : n \in 0 .. K}

Conforms(g, frames, expected, acked, ok, send, received, ackSent) ==
  /\ ok => g = Len(frames)
  /\ ~ ok => /\ g < Len(frames) /\ IsWrong(frames[g + 1], send, ackSent)
             /\ \A i \in g + 2 .. Len(frames) : ~ IsNumbered(frames[i])
  /\ \A i \in 1 .. g : IsI(frames[i]) => frames[i].ns = After(frames, expected, i - 1)
  /\ After(frames, expected, g) = send
  /\ Distance(acked, ackSent) <= Distance(acked, received)
  /\ \A i \in 1 .. g :
       IsNumbered(frames[i]) => Distance(acked, frames[i].nr) <= Distance(acked, ackSent)
  /\ \A i, j \in 1 .. g : IsNumbered(frames[i]) /\ IsNumbered(frames[j]) /\ i < j
                            => Distance(acked, frames[i].nr) <= Distance(acked, frames[j].nr)
  /\ \/ Distance(acked, ackSent) = 0
     \/ \E i \in 1 .. g : IsNumbered(frames[i]) /\ frames[i].nr = ackSent

Conforming(g) ==
  Conforms(g, toServer, receiveCount, Acked, conforms, peerSend, peerReceive, peerAckSent)

ServerInv == cause # "sequence" => \E g \in 0 .. Len(toServer) : Conforming(g)

-----------------------------------------------------------------------------
(* Distances between sequence numbers.                                     *)

(* The remainder of a sum may be taken before or after adding.             *)
LEMMA ModuloSum ==
  ASSUME NEW x \in Nat, NEW y \in Nat
  PROVE  ((x % M) + y) % M = (x + y) % M
<1>1. M \in Nat /\ M > 2
  BY Modulo
<1>2. PICK q \in Nat, d \in 0 .. M - 1 : x = q * M + d /\ x % M = d
  BY Division
<1>3. d + y \in Nat
  BY <1>1
<1>4. PICK r \in Nat, e \in 0 .. M - 1 : d + y = r * M + e /\ (d + y) % M = e
  BY <1>3, Division
<1>5. x + y = (q + r) * M + e /\ q + r \in Int
  BY <1>1, <1>2, <1>4
<1>6. (x + y) % M = e
  BY <1>5, Remainder
<1> QED BY <1>2, <1>4, <1>6

(* A distance and a number at a distance wrap around at most once.         *)
LEMMA Distances ==
  ASSUME NEW a \in SeqNo
  PROVE  /\ \A x \in SeqNo : /\ Distance(a, x) \in 0 .. M - 1
                             /\ Distance(a, x) = IF x < a THEN x - a + M ELSE x - a
         /\ \A p \in 0 .. M - 1 : /\ (a + p) % M \in SeqNo
                                  /\ (a + p) % M = IF a + p < M THEN a + p ELSE a + p - M
<1>1. M \in Nat /\ M > 2 /\ a \in 0 .. M - 1 /\ SeqNo = 0 .. M - 1
  BY Modulo DEF SeqNo
<1>2. ASSUME NEW x \in SeqNo
      PROVE  (x - a) % M \in 0 .. M - 1 /\ (x - a) % M = IF x < a THEN x - a + M ELSE x - a
  <2> DEFINE u == x - a
  <2>1. u \in 0 - M .. 2 * M - 1 /\ u < M /\ (u < 0 <=> x < a)
    BY <1>1
  <2> HIDE DEF u
  <2>2. u % M = IF u < 0 THEN u + M ELSE u
    BY <1>1, <2>1, Wraps
  <2>3. u = x - a
    BY DEF u
  <2> QED BY <1>1, <2>1, <2>2, <2>3
<1>3. ASSUME NEW p \in 0 .. M - 1
      PROVE  (a + p) % M \in SeqNo /\ (a + p) % M = IF a + p < M THEN a + p ELSE a + p - M
  <2> DEFINE u == a + p
  <2>1. u \in 0 - M .. 2 * M - 1 /\ u >= 0
    BY <1>1
  <2> HIDE DEF u
  <2>2. u % M = IF u < M THEN u ELSE u - M
    <3>1. u % M = IF u < 0 THEN u + M ELSE IF u < M THEN u ELSE u - M
      BY <2>1, Wraps
    <3> QED BY <2>1, <3>1
  <2>3. u = a + p
    BY DEF u
  <2> QED BY <1>1, <2>1, <2>2, <2>3
<1> QED BY <1>2, <1>3 DEF Distance

(* A number at distance p is at distance p,                                *)
LEMMA DistanceOfSum ==
  ASSUME NEW a \in SeqNo, NEW p \in 0 .. M - 1
  PROVE  (a + p) % M \in SeqNo /\ Distance(a, (a + p) % M) = p
<1>1. M \in Nat /\ M > 2 /\ a \in 0 .. M - 1 /\ SeqNo = 0 .. M - 1
  BY Modulo DEF SeqNo
<1>2. PICK s \in SeqNo : s = (a + p) % M /\ s = IF a + p < M THEN a + p ELSE a + p - M
  BY Distances
<1>3. Distance(a, s) = IF s < a THEN s - a + M ELSE s - a
  BY Distances
<1>4. Distance(a, s) = p
  BY <1>1, <1>2, <1>3
<1> QED BY <1>2, <1>4

(* and the number at the distance of x is x.                               *)
LEMMA SumOfDistance ==
  ASSUME NEW a \in SeqNo, NEW x \in SeqNo
  PROVE  (a + Distance(a, x)) % M = x
<1>1. M \in Nat /\ M > 2 /\ a \in 0 .. M - 1 /\ x \in 0 .. M - 1
  BY Modulo DEF SeqNo
<1>2. PICK d \in 0 .. M - 1 : d = Distance(a, x) /\ d = IF x < a THEN x - a + M ELSE x - a
  BY Distances
<1>3. (a + d) % M = IF a + d < M THEN a + d ELSE a + d - M
  BY Distances
<1>4. (a + d) % M = x
  BY <1>1, <1>2, <1>3
<1> QED BY <1>2, <1>4

(* Distances from the same number tell numbers apart, count up, and        *)
(* subtract.                                                               *)
LEMMA DistanceFacts ==
  ASSUME NEW a \in SeqNo, NEW x \in SeqNo
  PROVE  /\ Distance(a, x) \in 0 .. M - 1 /\ Distance(a, a) = 0
         /\ \A y \in SeqNo : Distance(a, x) = Distance(a, y) => x = y
         /\ Distance(a, x) + 1 < M => Distance(a, Succ(x)) = Distance(a, x) + 1
         /\ \A b \in SeqNo : Distance(a, b) <= Distance(a, x) =>
              Distance(b, x) = Distance(a, x) - Distance(a, b)
<1>1. M \in Nat /\ M > 2 /\ a \in 0 .. M - 1 /\ x \in 0 .. M - 1 /\ SeqNo = 0 .. M - 1
  BY Modulo DEF SeqNo
<1>2. PICK d \in 0 .. M - 1 : d = Distance(a, x) /\ d = IF x < a THEN x - a + M ELSE x - a
  BY Distances
<1>3. Distance(a, a) = 0
  <2>1. Distance(a, a) = IF a < a THEN a - a + M ELSE a - a
    BY Distances
  <2> QED BY <1>1, <2>1
<1>4. ASSUME NEW y \in SeqNo, d = Distance(a, y)
      PROVE  x = y
  <2>1. d = IF y < a THEN y - a + M ELSE y - a
    BY <1>4, Distances
  <2> QED BY <1>1, <1>2, <1>4, <2>1
<1>5. ASSUME d + 1 < M
      PROVE  Distance(a, Succ(x)) = d + 1
  <2>1. PICK s \in SeqNo : s = Succ(x)
    BY Modulo
  <2>2. s = IF x + 1 < M THEN x + 1 ELSE x + 1 - M
    <3>1. 1 \in 0 .. M - 1
      BY <1>1
    <3> QED BY <2>1, <3>1, Distances DEF Succ
  <2>3. Distance(a, s) = IF s < a THEN s - a + M ELSE s - a
    BY Distances
  <2>4. Distance(a, s) = d + 1
    BY <1>1, <1>2, <1>5, <2>2, <2>3
  <2> QED BY <2>1, <2>4
<1>6. ASSUME NEW b \in SeqNo, Distance(a, b) <= d
      PROVE  Distance(b, x) = d - Distance(a, b)
  <2>1. PICK e \in 0 .. M - 1 : e = Distance(a, b) /\ e = IF b < a THEN b - a + M ELSE b - a
    BY Distances
  <2>2. Distance(b, x) = IF x < b THEN x - b + M ELSE x - b
    BY Distances
  <2>3. Distance(b, x) = d - e
    BY <1>1, <1>2, <1>6, <2>1, <2>2
  <2> QED BY <2>1, <2>3
<1> QED BY <1>2, <1>3, <1>4, <1>5, <1>6

-----------------------------------------------------------------------------
(* The k-buffer holds the numbers after the last one acknowledged.         *)
NumbersInv ==
  \A p \in 1 .. Len(sentASDUs) : sentASDUs[p].seqNo = (Acked + p) % M

(* The next number is as far ahead as the k-buffer is long, and the        *)
(* numbers in it have distances of their own.                              *)
LEMMA AckedFacts ==
  ASSUME TypeOK
  PROVE  /\ M \in Nat /\ M > 2 /\ K \in Nat /\ K + 1 < M /\ Len(sentASDUs) \in 0 .. K
         /\ Acked \in SeqNo /\ sendCount \in SeqNo /\ Ahead(sendCount) = Len(sentASDUs)
         /\ sendCount = (Acked + Len(sentASDUs)) % M
         /\ \A p \in 0 .. K : (Acked + p) % M \in SeqNo /\ Ahead((Acked + p) % M) = p
         /\ \A x \in SeqNo : Ahead(x) \in 0 .. M - 1 /\ (Acked + Ahead(x)) % M = x
<1>1. /\ M \in Nat /\ M > 2 /\ K \in Nat /\ K + 1 < M /\ sendCount \in SeqNo
      /\ SeqNo = 0 .. M - 1 /\ Len(sentASDUs) \in Nat /\ Len(sentASDUs) <= K
  BY Modulo, Elements, ParametersAssumption DEF TypeOK, SeqNo
<1> DEFINE n == Len(sentASDUs)
           u == sendCount - n
<1>2. u \in 0 - M .. 2 * M - 1 /\ u < M /\ n \in 0 .. M - 1 /\ n \in 0 .. K
  BY <1>1
<1>3. u \in 0 - M .. 2 * M - 1 => u % M = IF u < 0 THEN u + M ELSE IF u < M THEN u ELSE u - M
  BY Wraps
<1>4. PICK a \in SeqNo : a = Acked /\ a = IF u < 0 THEN u + M ELSE u
  <2>1. Acked = u % M
    BY DEF Acked
  <2> HIDE DEF u, n
  <2> QED BY <1>1, <1>2, <1>3, <2>1
<1>5. (a + n) % M = IF a + n < M THEN a + n ELSE a + n - M
  BY <1>2, Distances
<1>6. (a + n) % M = sendCount
  BY <1>1, <1>4, <1>5
<1>7. Ahead(sendCount) = n
  BY <1>2, <1>4, <1>6, DistanceOfSum DEF Ahead
<1>8. \A p \in 0 .. K : (a + p) % M \in SeqNo /\ Distance(a, (a + p) % M) = p
  <2>1. \A p \in 0 .. K : p \in 0 .. M - 1
    BY <1>1
  <2> QED BY <2>1, DistanceOfSum
<1>9. \A x \in SeqNo : Distance(a, x) \in 0 .. M - 1 /\ (a + Distance(a, x)) % M = x
  BY DistanceFacts, SumOfDistance
<1> QED BY <1>1, <1>2, <1>4, <1>6, <1>7, <1>8, <1>9 DEF Ahead

(* Equally good is what SequenceNumbers says of the k-buffer.              *)
LEMMA NumbersAgree ==
  ASSUME TypeOK
  PROVE  NumbersInv <=>
           \A p \in 1 .. Len(sentASDUs) :
             (sentASDUs[p].seqNo + Len(sentASDUs) - p) % M = sendCount
<1> DEFINE n == Len(sentASDUs)
<1>1. /\ M \in Nat /\ M > 2 /\ K \in Nat /\ K + 1 < M /\ n \in 0 .. K /\ SeqNo = 0 .. M - 1
      /\ sendCount = (Acked + n) % M
  BY AckedFacts DEF SeqNo
<1>2. PICK a \in SeqNo : a = Acked
  BY AckedFacts
<1>3. ASSUME NEW p \in 1 .. n
      PROVE  sentASDUs[p].seqNo = (a + p) % M
               <=> (sentASDUs[p].seqNo + n - p) % M = sendCount
  <2>1. PICK s \in SeqNo : s = sentASDUs[p].seqNo
    BY <1>3, Elements DEF Numbers
  <2>2. PICK q \in 0 .. M - 1 : q = n - p
    BY <1>1, <1>3
  <2>3. (s + q) % M = IF s + q < M THEN s + q ELSE s + q - M
    BY Distances
  <2>4. p \in 0 .. M - 1 /\ n \in 0 .. M - 1
    BY <1>1, <1>3
  <2>5. (a + p) % M = IF a + p < M THEN a + p ELSE a + p - M
    BY <2>4, Distances
  <2>6. (a + n) % M = IF a + n < M THEN a + n ELSE a + n - M
    BY <2>4, Distances
  <2>7. PICK v \in SeqNo : v = sendCount /\ v = (a + n) % M
    BY <1>1, <1>2, AckedFacts
  <2>8. s = (a + p) % M <=> (s + q) % M = v
    <3>1. s \in 0 .. M - 1 /\ a \in 0 .. M - 1 /\ q = n - p /\ n \in 0 .. M - 1 /\ p \in 0 .. M - 1
      BY <1>1, <2>2, <2>4
    <3> HIDE DEF n
    <3> DEFINE x == (a + p) % M
               y == (s + q) % M
               z == (a + n) % M
    <3>2. /\ y = IF s + q < M THEN s + q ELSE s + q - M
          /\ x = IF a + p < M THEN a + p ELSE a + p - M
          /\ z = IF a + n < M THEN a + n ELSE a + n - M
          /\ v = z
      BY <2>3, <2>5, <2>6, <2>7
    <3> HIDE DEF x, y, z
    <3>3. s = x <=> y = v
      BY <1>1, <3>1, <3>2
    <3> QED BY <3>3 DEF x, y
  <2>9. s + n - p = s + q
    BY <1>1, <1>3, <2>2
  <2> QED BY <2>1, <2>7, <2>8, <2>9
<1> QED BY <1>2, <1>3 DEF NumbersInv

(* An acknowledgement of rel entries moves it on by rel.                   *)
LEMMA AckedStep ==
  ASSUME TypeOK, TypeOK', NEW asdus \in Seq(ASDUs), NEW rel \in 0 .. Len(sentASDUs),
         Keeps(asdus, rel), sendCount' = (sendCount + Len(asdus)) % M
  PROVE  /\ Acked' = (Acked + rel) % M /\ Acked' \in SeqNo
         /\ \A x \in SeqNo : rel <= Ahead(x) => Distance(Acked', x) = Ahead(x) - rel
         /\ \A j \in 0 .. Len(asdus) :
              (sendCount + j) % M = (Acked' + (Len(sentASDUs) - rel + j)) % M
<1> DEFINE n == Len(sentASDUs)
           l == Len(asdus)
<1>1. /\ M \in Nat /\ M > 2 /\ K \in Nat /\ K + 1 < M /\ n \in 0 .. K /\ SeqNo = 0 .. M - 1
      /\ sendCount = (Acked + n) % M /\ l \in Nat /\ SeqNo \subseteq Nat
  BY AckedFacts, LenProperties, Modulo DEF SeqNo
<1>2. PICK m \in 0 .. K : m = Len(sentASDUs') /\ m = n - rel + l
  <2>1. Len(sentASDUs)' \in 0 .. K
    BY <1>1, LenProperties DEF TypeOK
  <2> QED BY <2>1 DEF Keeps
<1>3. PICK a \in SeqNo : a = Acked
  BY AckedFacts
<1>4. PICK b \in SeqNo : b = (a + rel) % M /\ Distance(a, b) = rel
  <2>1. rel \in 0 .. M - 1
    BY <1>1
  <2> QED BY <2>1, DistanceOfSum
<1>5. ASSUME NEW j \in 0 .. l
      PROVE  (sendCount + j) % M = (b + (n - rel + j)) % M
  <2>1. a \in Nat /\ a + n \in Nat /\ a + rel \in Nat /\ j \in Nat /\ n - rel + j \in Nat
    BY <1>1
  <2>2. (sendCount + j) % M = (a + n + j) % M
    BY <1>1, <1>3, <2>1, ModuloSum
  <2>3. (b + (n - rel + j)) % M = (a + rel + (n - rel + j)) % M
    BY <1>4, <2>1, ModuloSum
  <2>4. a + rel + (n - rel + j) = a + n + j
    BY <1>1, <2>1
  <2> QED BY <2>2, <2>3, <2>4
<1>6. sendCount' = (b + m) % M
  <2>1. l \in 0 .. l
    BY <1>1
  <2> QED BY <1>2, <1>5, <2>1
<1>7. Acked' = b
  <2>1. PICK v \in SeqNo : v = sendCount'
    BY DEF TypeOK
  <2>2. m \in 0 .. M - 1
    BY <1>1
  <2>3. (b + m) % M = IF b + m < M THEN b + m ELSE b + m - M
    BY <2>2, Distances
  <2> DEFINE u == v - m
  <2>4. u \in 0 - M .. 2 * M - 1 /\ (u = b \/ u = b - M) /\ (u < 0 <=> u = b - M)
    <3>1. b \in 0 .. M - 1 /\ v \in 0 .. M - 1 /\ M \in Nat
      BY <1>1
    <3>2. \/ v = b + m /\ b + m < M
          \/ v = b + m - M /\ b + m >= M
      BY <1>6, <2>1, <2>2, <2>3, <3>1
    <3> QED BY <2>2, <3>1, <3>2
  <2>5. u \in 0 - M .. 2 * M - 1 => u % M = IF u < 0 THEN u + M ELSE IF u < M THEN u ELSE u - M
    BY Wraps
  <2>6. Acked' = u % M
    BY <1>2, <2>1 DEF Acked
  <2> HIDE DEF u
  <2>7. b \in 0 .. M - 1 /\ (u < 0 => u + M = b) /\ (~ (u < 0) => u = b)
    BY <1>1, <2>4
  <2>8. u % M = b
    <3> DEFINE r == u % M
    <3>1. r = IF u < 0 THEN u + M ELSE IF u < M THEN u ELSE u - M
      BY <2>4, <2>5
    <3> HIDE DEF r
    <3>2. r = b
      BY <1>1, <2>4, <2>7, <3>1
    <3> QED BY <3>2 DEF r
  <2> QED BY <2>6, <2>8
<1>8. ASSUME NEW x \in SeqNo, rel <= Distance(a, x)
      PROVE  Distance(b, x) = Distance(a, x) - rel
  BY <1>4, <1>8, DistanceFacts
<1> QED BY <1>3, <1>4, <1>5, <1>7, <1>8 DEF Ahead

(* The numbers stay consecutive when the thread takes off and adds         *)
(* entries.                                                                *)
LEMMA NumbersStep ==
  ASSUME TypeOK, TypeOK', NumbersInv, NEW asdus \in Seq(ASDUs),
         NEW rel \in 0 .. Len(sentASDUs),
         Keeps(asdus, rel), sendCount' = (sendCount + Len(asdus)) % M
  PROVE  NumbersInv'
<1> DEFINE n == Len(sentASDUs)
           kept == n - rel
<1>1. /\ n \in Nat /\ Len(asdus) \in Nat /\ Acked \in SeqNo /\ Acked' \in SeqNo
      /\ SeqNo \subseteq Nat /\ Acked' = (Acked + rel) % M /\ Len(sentASDUs') = kept + Len(asdus)
  <2>1. n \in Nat /\ Len(asdus) \in Nat /\ Acked \in SeqNo /\ SeqNo \subseteq Nat
    BY AckedFacts, LenProperties, Modulo
  <2>2. Acked' \in SeqNo /\ Acked' = (Acked + rel) % M
    BY AckedStep
  <2> QED BY <2>1, <2>2 DEF Keeps
<1>2. ASSUME NEW i \in 1 .. kept
      PROVE  sentASDUs'[i].seqNo = (Acked' + i) % M
  <2>1. sentASDUs'[i] = sentASDUs[rel + i] /\ rel + i \in 1 .. n
    BY <1>1, <1>2 DEF Keeps
  <2>2. sentASDUs'[i].seqNo = (Acked + (rel + i)) % M
    BY <2>1 DEF NumbersInv
  <2>3. (Acked' + i) % M = (Acked + rel + i) % M
    <3>1. Acked + rel \in Nat /\ i \in Nat
      BY <1>1
    <3> QED BY <1>1, <3>1, ModuloSum
  <2>4. Acked + (rel + i) = Acked + rel + i
    BY <1>1
  <2> QED BY <2>2, <2>3, <2>4
<1>3. ASSUME NEW j \in 1 .. Len(asdus)
      PROVE  sentASDUs'[kept + j].seqNo = (Acked' + (kept + j)) % M
  <2>1. sentASDUs'[kept + j].seqNo = (sendCount + j) % M
    <3>1. sentASDUs'[kept + j] = [seqNo |-> (sendCount + j) % M, asdu |-> asdus[j]]
      BY <1>3 DEF Keeps
    <3> QED BY <3>1
  <2>2. j \in 0 .. Len(asdus)
    BY <1>1
  <2> QED BY <2>1, <2>2, AckedStep
<1>4. ASSUME NEW p \in 1 .. Len(sentASDUs')
      PROVE  sentASDUs'[p].seqNo = (Acked' + p) % M
  <2>1. CASE p <= kept
    BY <1>1, <1>2, <2>1
  <2>2. CASE ~ (p <= kept)
    <3> DEFINE j == p - kept
    <3>1. j \in 1 .. Len(asdus) /\ kept + j = p
      BY <1>1, <2>2
    <3> HIDE DEF j
    <3> QED BY <1>3, <3>1
  <2> QED BY <2>1, <2>2
<1> QED BY <1>4 DEF NumbersInv

(* A valid acknowledgement is one of at most what the k-buffer holds, and  *)
(* takes off exactly the entries up to it, also when the numbers in the    *)
(* k-buffer wrap around.                                                   *)
LEMMA ValidIs ==
  ASSUME TypeOK, NumbersInv, NEW nr \in SeqNo
  PROVE  /\ SeqNoIsValid(nr) <=> Ahead(nr) <= Len(sentASDUs)
         /\ SeqNoIsValid(nr) => Released(nr) = Ahead(nr)
<1> DEFINE n == Len(sentASDUs)
<1>1. /\ M \in Nat /\ M > 2 /\ K \in Nat /\ K + 1 < M /\ n \in 0 .. K /\ SeqNo = 0 .. M - 1
      /\ sendCount = (Acked + n) % M /\ (sentASDUs = << >> <=> n = 0)
  BY AckedFacts, Elements, EmptySeq DEF SeqNo
<1>2. PICK a \in SeqNo : a = Acked
  BY AckedFacts
<1>3. PICK d \in 0 .. M - 1 : d = Ahead(nr) /\ d = IF nr < a THEN nr - a + M ELSE nr - a
  BY <1>2, Distances DEF Ahead
<1>4. ASSUME NEW p \in 1 .. n
      PROVE  sentASDUs[p].seqNo = IF a + p < M THEN a + p ELSE a + p - M
  <2>1. p \in 0 .. M - 1 /\ sentASDUs[p].seqNo = (a + p) % M
    <3>1. p \in 0 .. M - 1
      BY <1>1
    <3>2. sentASDUs[p].seqNo = (Acked + p) % M
      BY DEF NumbersInv
    <3> QED BY <1>2, <3>1, <3>2
  <2> QED BY <2>1, Distances
<1>5. Released(nr) \in 0 .. n /\ StopsAfter(nr, Released(nr))
      /\ \A m \in 0 .. Released(nr) - 1 : ~ StopsAfter(nr, m)
  BY ReleasedType
<1>6. CASE n = 0
  <2>1. sendCount = a
    <3>1. 0 \in 0 .. M - 1
      BY <1>1
    <3>2. (a + 0) % M = IF a + 0 < M THEN a + 0 ELSE a + 0 - M
      BY <3>1, Distances
    <3> QED BY <1>1, <1>2, <1>6, <3>2
  <2>2. nr = a <=> d = 0
    BY <1>1, <1>3
  <2>3. Released(nr) = 0
    BY <1>5, <1>6
  <2> QED BY <1>1, <1>3, <1>6, <2>1, <2>2, <2>3 DEF SeqNoIsValid
<1>7. CASE n # 0
  <2>1. 1 \in 1 .. n /\ n \in 1 .. n /\ n \in Nat
    BY <1>1, <1>7
  <2>2. PICK o \in Int : o = OldestSeqNo /\ o = IF a + 1 < M THEN a + 1 ELSE a + 1 - M
    BY <1>1, <1>4, <2>1 DEF OldestSeqNo
  <2>3. PICK w \in Int : w = NewestSeqNo /\ w = IF a + n < M THEN a + n ELSE a + n - M
    BY <1>1, <1>4, <2>1 DEF NewestSeqNo
  <2>4. OldestValidSeqNo = a
    BY <1>1, <2>2 DEF OldestValidSeqNo
  <2>5. CounterOverflow <=> o > w
    BY <2>2, <2>3 DEF CounterOverflow
  <2>6. SeqNoIsValid(nr) <=> \/ ~ (o > w) /\ o <= nr /\ nr <= w
                             \/ o > w /\ (o <= nr \/ nr <= w)
                             \/ nr = a
    BY <1>1, <1>7, <2>2, <2>3, <2>4, <2>5 DEF SeqNoIsValid
  <2>7. SeqNoIsValid(nr) <=> d <= n
    <3> HIDE DEF n
    <3> QED BY <1>1, <1>3, <1>7, <2>2, <2>3, <2>6
  <2>8. ASSUME d <= n
        PROVE  Released(nr) = d
    <3>1. StopsAfter(nr, d)
      <4>1. CASE d = 0
        <5>1. nr = a
          BY <1>1, <1>3, <4>1
        <5> QED BY <2>4, <5>1 DEF StopsAfter
      <4>2. CASE d # 0
        <5>1. d \in 1 .. n
          BY <1>1, <2>8, <4>2
        <5>2. sentASDUs[d].seqNo = nr
          <6>1. sentASDUs[d].seqNo = IF a + d < M THEN a + d ELSE a + d - M
            BY <1>4, <5>1
          <6> QED BY <1>1, <1>3, <6>1
        <5> QED BY <5>1, <5>2 DEF StopsAfter
      <4> QED BY <4>1, <4>2
    <3>2. ASSUME NEW m \in 0 .. d - 1
          PROVE  ~ StopsAfter(nr, m)
      <4>1. m # n /\ m + 1 \in 1 .. n /\ d # 0
        BY <1>1, <1>3, <2>8, <3>2
      <4>2. nr # OldestValidSeqNo
        BY <1>1, <1>3, <2>4, <4>1
      <4>3. m > 0 => sentASDUs[m].seqNo # nr
        <5> SUFFICES ASSUME m > 0 PROVE sentASDUs[m].seqNo # nr
          OBVIOUS
        <5>1. m \in 1 .. n
          BY <1>1, <4>1
        <5>2. sentASDUs[m].seqNo = IF a + m < M THEN a + m ELSE a + m - M
          BY <1>4, <5>1
        <5> QED BY <1>1, <1>3, <3>2, <5>1, <5>2
      <4>4. ~ (~ CounterOverflow /\ nr < sentASDUs[m + 1].seqNo)
        <5>1. PICK i \in 1 .. n : i = m + 1
          BY <4>1
        <5>2. sentASDUs[i].seqNo = IF a + i < M THEN a + i ELSE a + i - M
          BY <1>4
        <5>3. ~ (~ (o > w) /\ nr < sentASDUs[i].seqNo)
          <6> DEFINE s == sentASDUs[i].seqNo
          <6>1. s = IF a + i < M THEN a + i ELSE a + i - M
            BY <5>2
          <6>2. i <= d /\ i >= 1 /\ i \in Int
            BY <3>2, <5>1
          <6> HIDE DEF n, s
          <6>3. ~ (~ (o > w) /\ nr < s)
            BY <1>1, <1>3, <1>7, <2>2, <2>3, <2>8, <6>1, <6>2
          <6> QED BY <6>3 DEF s
        <5> QED BY <2>5, <5>1, <5>3
      <4> QED BY <4>1, <4>2, <4>3, <4>4 DEF StopsAfter
    <3>3. PICK r \in 0 .. n : r = Released(nr)
      BY <1>5
    <3>4. ~ (r < d)
      <4>1. r < d => r \in 0 .. d - 1
        BY <3>3
      <4> QED BY <1>5, <3>2, <3>3, <4>1
    <3>5. ~ (d < r)
      <4>1. d < r => d \in 0 .. r - 1
        BY <3>3
      <4> QED BY <1>5, <3>1, <3>3, <4>1
    <3> QED BY <1>3, <3>3, <3>4, <3>5
  <2> QED BY <1>3, <2>7, <2>8
<1> QED BY <1>6, <1>7

-----------------------------------------------------------------------------
(* The number after the last I message of the first n.                     *)
LEMMA AfterCases ==
  ASSUME NEW frames, NEW first, NEW n \in Nat
  PROVE  \/ /\ \A m \in 1 .. n : ~ IsI(frames[m])
            /\ After(frames, first, n) = first
         \/ \E i \in 1 .. n : /\ IsI(frames[i]) /\ \A m \in i + 1 .. n : ~ IsI(frames[m])
                              /\ After(frames, first, n) = Succ(frames[i].ns)
<1> DEFINE S == {m \in 1 .. n : IsI(frames[m])}
<1>1. CASE S = {}
  BY <1>1 DEF After
<1>2. CASE S # {}
  <2>1. S \in SUBSET (0 .. n) /\ S \in SUBSET Nat
    OBVIOUS
  <2>2. PICK i \in S : \A m \in S : m <= i
    <3> HIDE DEF S
    <3> QED BY <1>2, <2>1, GreatestElement
  <2>3. LastOf(S) = i
    <3> HIDE DEF S
    <3> QED BY <2>1, <2>2, LastOfIs
  <2>4. After(frames, first, n) = Succ(frames[i].ns)
    BY <1>2, <2>3 DEF After
  <2>5. i \in 1 .. n /\ IsI(frames[i])
    OBVIOUS
  <2>6. ASSUME NEW m \in i + 1 .. n PROVE ~ IsI(frames[m])
    <3>1. m \in 1 .. n /\ ~ (m <= i)
      BY <2>5
    <3> QED BY <2>2, <3>1
  <2> QED BY <2>4, <2>5, <2>6
<1> QED BY <1>1, <1>2

(* What follows the last I message of the first n is its successor.        *)
LEMMA AfterIs ==
  ASSUME NEW frames, NEW first, NEW n \in Nat
  PROVE  /\ (\A m \in 1 .. n : ~ IsI(frames[m])) => After(frames, first, n) = first
         /\ \A i \in 1 .. n : IsI(frames[i]) /\ (\A m \in i + 1 .. n : ~ IsI(frames[m]))
                                => After(frames, first, n) = Succ(frames[i].ns)
<1>1. ASSUME NEW i \in 1 .. n, IsI(frames[i]), \A m \in i + 1 .. n : ~ IsI(frames[m])
      PROVE  After(frames, first, n) = Succ(frames[i].ns)
  <2>1. PICK j \in 1 .. n : /\ IsI(frames[j]) /\ \A m \in j + 1 .. n : ~ IsI(frames[m])
                            /\ After(frames, first, n) = Succ(frames[j].ns)
    BY <1>1, AfterCases
  <2>2. ~ (j < i) /\ ~ (i < j)
    <3>1. j < i => i \in j + 1 .. n
      BY <1>1
    <3>2. i < j => j \in i + 1 .. n
      BY <1>1
    <3> QED BY <1>1, <2>1, <3>1, <3>2
  <2>3. i = j
    BY <1>1, <2>1, <2>2
  <2> QED BY <2>1, <2>3
<1>2. ASSUME \A m \in 1 .. n : ~ IsI(frames[m])
      PROVE  After(frames, first, n) = first
  BY <1>2, AfterCases
<1> QED BY <1>1, <1>2

(* Messages that are not I messages make no difference, nor do those that  *)
(* follow.                                                                 *)
LEMMA AfterNone ==
  ASSUME NEW frames, NEW first, NEW l \in Nat, NEW n \in Nat, l <= n,
         \A m \in l + 1 .. n : ~ IsI(frames[m])
  PROVE  After(frames, first, n) = After(frames, first, l)
<1>1. CASE \A m \in 1 .. l : ~ IsI(frames[m])
  <2>1. \A m \in 1 .. n : ~ IsI(frames[m])
    BY <1>1
  <2> QED BY <1>1, <2>1, AfterIs
<1>2. CASE \E i \in 1 .. l : /\ IsI(frames[i]) /\ \A m \in i + 1 .. l : ~ IsI(frames[m])
                             /\ After(frames, first, l) = Succ(frames[i].ns)
  <2>1. PICK i \in 1 .. l : /\ IsI(frames[i]) /\ \A m \in i + 1 .. l : ~ IsI(frames[m])
                            /\ After(frames, first, l) = Succ(frames[i].ns)
    BY <1>2
  <2>2. i \in 1 .. n /\ \A m \in i + 1 .. n : m \in i + 1 .. l \/ m \in l + 1 .. n
    OBVIOUS
  <2> QED BY <2>1, <2>2, AfterIs
<1> QED BY <1>1, <1>2, AfterCases

(* It depends on the first n messages alone.                               *)
LEMMA AfterSame ==
  ASSUME NEW old, NEW new, NEW first, NEW n \in Nat, \A m \in 1 .. n : new[m] = old[m]
  PROVE  After(new, first, n) = After(old, first, n)
<1>1. CASE \A m \in 1 .. n : ~ IsI(old[m])
  <2>1. \A m \in 1 .. n : ~ IsI(new[m])
    BY <1>1
  <2> QED BY <1>1, <2>1, AfterIs
<1>2. CASE \E i \in 1 .. n : /\ IsI(old[i]) /\ \A m \in i + 1 .. n : ~ IsI(old[m])
                             /\ After(old, first, n) = Succ(old[i].ns)
  <2>1. PICK i \in 1 .. n : /\ IsI(old[i]) /\ \A m \in i + 1 .. n : ~ IsI(old[m])
                            /\ After(old, first, n) = Succ(old[i].ns)
    BY <1>2
  <2>2. \A m \in i + 1 .. n : m \in 1 .. n
    OBVIOUS
  <2>3. IsI(new[i]) /\ new[i] = old[i] /\ \A m \in i + 1 .. n : ~ IsI(new[m])
    BY <2>1, <2>2
  <2> QED BY <2>1, <2>3, AfterIs
<1> QED BY <1>1, <1>2, AfterCases

(* When the first message is read, what it announces is what comes first.  *)
LEMMA AfterTail ==
  ASSUME NEW old, NEW new, NEW first, NEW n \in Nat, \A m \in 1 .. n : new[m] = old[m + 1],
         NEW next, IsI(old[1]) => next = Succ(old[1].ns), ~ IsI(old[1]) => next = first
  PROVE  After(new, next, n) = After(old, first, n + 1)
<1>1. CASE \A m \in 1 .. n : ~ IsI(new[m])
  <2>1. After(new, next, n) = next
    BY <1>1, AfterIs
  <2>2. \A m \in 2 .. n + 1 : ~ IsI(old[m])
    <3> TAKE m \in 2 .. n + 1
    <3>1. m - 1 \in 1 .. n /\ m - 1 + 1 = m
      OBVIOUS
    <3>2. new[m - 1] = old[m - 1 + 1]
      BY <3>1
    <3> QED BY <1>1, <3>1, <3>2
  <2>3. CASE IsI(old[1])
    <3>1. 1 \in 1 .. n + 1 /\ n + 1 \in Nat /\ \A m \in 1 + 1 .. n + 1 : ~ IsI(old[m])
      BY <2>2
    <3>2. After(old, first, n + 1) = Succ(old[1].ns)
      BY <2>3, <3>1, AfterIs
    <3> QED BY <2>1, <2>3, <3>2
  <2>4. CASE ~ IsI(old[1])
    <3>1. n + 1 \in Nat /\ \A m \in 1 .. n + 1 : m = 1 \/ m \in 2 .. n + 1
      OBVIOUS
    <3>2. After(old, first, n + 1) = first
      BY <2>2, <2>4, <3>1, AfterIs
    <3> QED BY <2>1, <2>4, <3>2
  <2> QED BY <2>3, <2>4
<1>2. CASE \E i \in 1 .. n : /\ IsI(new[i]) /\ \A m \in i + 1 .. n : ~ IsI(new[m])
                             /\ After(new, next, n) = Succ(new[i].ns)
  <2>1. PICK i \in 1 .. n : /\ IsI(new[i]) /\ \A m \in i + 1 .. n : ~ IsI(new[m])
                            /\ After(new, next, n) = Succ(new[i].ns)
    BY <1>2
  <2>2. i + 1 \in 1 .. n + 1 /\ n + 1 \in Nat /\ new[i] = old[i + 1]
    OBVIOUS
  <2>3. \A m \in i + 1 + 1 .. n + 1 : ~ IsI(old[m])
    <3> TAKE m \in i + 1 + 1 .. n + 1
    <3>1. m - 1 \in 1 .. n /\ m - 1 + 1 = m /\ m - 1 \in i + 1 .. n
      OBVIOUS
    <3>2. new[m - 1] = old[m - 1 + 1]
      BY <3>1
    <3> QED BY <2>1, <3>1, <3>2
  <2>4. After(old, first, n + 1) = Succ(old[i + 1].ns)
    BY <2>1, <2>2, <2>3, AfterIs
  <2> QED BY <2>1, <2>2, <2>4
<1> QED BY <1>1, <1>2, AfterCases

(* The same for every number of messages.                                  *)
LEMMA AfterTails ==
  ASSUME NEW old, NEW new, NEW n \in Nat, \A m \in 1 .. n : new[m] = old[m + 1],
         NEW first, NEW next,
         IsI(old[1]) => next = Succ(old[1].ns), ~ IsI(old[1]) => next = first
  PROVE  \A m \in 0 .. n : After(new, next, m) = After(old, first, m + 1)
<1> TAKE m \in 0 .. n
<1>1. m \in Nat /\ \A i \in 1 .. m : new[i] = old[i + 1]
  OBVIOUS
<1> QED BY <1>1, AfterTail

-----------------------------------------------------------------------------
(* Sequence numbers.                                                       *)

(* Where the thread puts the messages it adds.                             *)
LEMMA AddedNumbers ==
  ASSUME TypeOK, NEW asdus \in Seq(ASDUs), NEW extra \in 0 .. 2, Adds(asdus, extra)
  PROVE  LET L == Len(toPeer)
             a == Len(asdus)
         IN  /\ L \in Nat /\ a \in Nat /\ Len(toPeer') = L + a + extra
             /\ \A i \in 1 .. L : toPeer'[i] = toPeer[i]
             /\ \A i \in L + 1 .. L + a :
                  /\ i - L \in 1 .. a
                  /\ toPeer'[i] = IFrame((sendCount + (i - L) - 1) % M, receiveCount', asdus[i - L])
                  /\ IsI(toPeer'[i]) /\ toPeer'[i].ns = (sendCount + (i - L) - 1) % M
                  /\ Succ(toPeer'[i].ns) = (sendCount + (i - L)) % M
             /\ \A i \in L + a + 1 .. L + a + extra : ~ IsI(toPeer'[i])
<1> DEFINE L == Len(toPeer)
           a == Len(asdus)
<1>1. L \in Nat /\ a \in Nat /\ sendCount \in Nat
  BY Elements, LenProperties, Modulo DEF TypeOK
<1>2. /\ Len(toPeer') = L + a + extra
      /\ \A i \in 1 .. L : toPeer'[i] = toPeer[i]
      /\ \A i \in L + a + 1 .. L + a + extra : ~ IsI(toPeer'[i])
  BY DEF Adds
<1>3. ASSUME NEW i \in L + 1 .. L + a
      PROVE  /\ i - L \in 1 .. a
             /\ toPeer'[i] = IFrame((sendCount + (i - L) - 1) % M, receiveCount', asdus[i - L])
             /\ IsI(toPeer'[i]) /\ toPeer'[i].ns = (sendCount + (i - L) - 1) % M
             /\ Succ(toPeer'[i].ns) = (sendCount + (i - L)) % M
  <2>1. i - L \in 1 .. a /\ L + (i - L) = i
    BY <1>1, <1>3
  <2>2. toPeer'[i] = IFrame((sendCount + (i - L) - 1) % M, receiveCount', asdus[i - L])
    BY <2>1 DEF Adds
  <2>3. IsI(toPeer'[i]) /\ toPeer'[i].ns = (sendCount + (i - L) - 1) % M
    BY <2>2 DEF IFrame, IsI
  <2>4. Succ((sendCount + (i - L) - 1) % M) = (sendCount + (i - L)) % M
    <3> DEFINE u == sendCount + (i - L) - 1
    <3>1. u \in Nat /\ u + 1 = sendCount + (i - L)
      BY <1>1, <2>1
    <3> HIDE DEF u
    <3>2. 1 \in Nat /\ ((u % M) + 1) % M = (u + 1) % M
      BY <3>1, ModuloSum
    <3>3. Succ(u % M) = (sendCount + (i - L)) % M
      BY <3>1, <3>2 DEF Succ
    <3> QED BY <3>3 DEF u
  <2> QED BY <2>1, <2>2, <2>3, <2>4
<1> QED BY <1>1, <1>2, <1>3

(* Every step keeps the numbers without a gap.                             *)
LEMMA SequenceStep ==
  ASSUME TypeOK, SequenceNumbers, [Next]_vars
  PROVE  SequenceNumbers'
<1> DEFINE Wire(n) == After(toPeer, peerReceive, n)
           L == Len(toPeer)
<1>1. /\ L \in Nat /\ NumbersInv
      /\ \A n \in 1 .. L : IsI(toPeer[n]) => toPeer[n].ns = After(toPeer, peerReceive, n - 1)
      /\ After(toPeer, peerReceive, L) = sendCount
  BY NumbersAgree, Elements DEF SequenceNumbers, NumberAfter, After
<1>2. TypeOK'
  BY StepType
<1>3. ASSUME NumbersInv',
             \A n \in 1 .. Len(toPeer') :
               IsI(toPeer'[n]) => toPeer'[n].ns = After(toPeer', peerReceive', n - 1),
             After(toPeer', peerReceive', Len(toPeer')) = sendCount'
      PROVE  SequenceNumbers'
  <2>1. \A p \in 1 .. Len(sentASDUs') :
          (sentASDUs'[p].seqNo + Len(sentASDUs') - p) % M = sendCount'
    <3>1. (NumbersInv <=> \A p \in 1 .. Len(sentASDUs) :
            (sentASDUs[p].seqNo + Len(sentASDUs) - p) % M = sendCount)'
      BY <1>2, NumbersAgree, PTL
    <3> QED BY <1>3, <3>1
  <2> QED BY <1>3, <2>1 DEF SequenceNumbers, NumberAfter, After
<1>4. CASE ThreadStep
  <2>1. PICK asdus \in Seq(ASDUs), extra \in 0 .. 2, rel \in 0 .. Len(sentASDUs) :
          Adds(asdus, extra) /\ Keeps(asdus, rel)
    BY <1>4, ThreadAdds DEF Serves
  <2> DEFINE a == Len(asdus)
  <2>2. sendCount' = (sendCount + a) % M /\ UNCHANGED peerReceive
    <3>1. UNCHANGED peerVars
      BY <1>4 DEF ThreadStep, ReceiveMessage, ReceiveNothing, ReceiveI, ReceiveS, RejectMessage,
        ReceiveStartDT, ReceiveStopDT, ReceiveTestFR, ReceiveTestFRCon, ReceiveClose,
        Timeouts, HandleTimeouts, SendWaitingASDUs, SkipSending, EndThread
    <3> QED BY <2>1, <3>1 DEF Adds, peerVars
  <2>3. NumbersInv'
    BY <1>1, <1>2, <2>1, <2>2, NumbersStep
  <2>4. /\ L \in Nat /\ a \in Nat /\ Len(toPeer') = L + a + extra
        /\ \A i \in 1 .. L : toPeer'[i] = toPeer[i]
        /\ \A i \in L + 1 .. L + a :
             /\ i - L \in 1 .. a
             /\ IsI(toPeer'[i]) /\ toPeer'[i].ns = (sendCount + (i - L) - 1) % M
             /\ Succ(toPeer'[i].ns) = (sendCount + (i - L)) % M
        /\ \A i \in L + a + 1 .. L + a + extra : ~ IsI(toPeer'[i])
    BY <2>1, AddedNumbers
  <2> HIDE DEF L, a
  <2>5. ASSUME NEW n \in 0 .. L
        PROVE  After(toPeer', peerReceive, n) = After(toPeer, peerReceive, n)
    <3>1. n \in Nat /\ \A m \in 1 .. n : toPeer'[m] = toPeer[m]
      BY <2>4
    <3> QED BY <3>1, AfterSame
  <2>6. ASSUME NEW n \in L .. L + a
        PROVE  After(toPeer', peerReceive, n) = (sendCount + (n - L)) % M
    <3>1. CASE n = L
      <4>1. L \in 0 .. L /\ sendCount + (n - L) = sendCount /\ sendCount % M = sendCount
        BY <2>4, <3>1, Modulo DEF TypeOK
      <4> QED BY <1>1, <2>5, <3>1, <4>1 DEF L
    <3>2. CASE n # L
      <4>1. n \in L + 1 .. L + a /\ n \in Nat /\ n \in 1 .. n /\ \A m \in n + 1 .. n : FALSE
        BY <2>4, <3>2
      <4>2. IsI(toPeer'[n]) /\ Succ(toPeer'[n].ns) = (sendCount + (n - L)) % M
        BY <2>4, <4>1
      <4>3. After(toPeer', peerReceive, n) = Succ(toPeer'[n].ns)
        BY <4>1, <4>2, AfterIs
      <4> QED BY <4>2, <4>3
    <3> QED BY <3>1, <3>2
  <2>7. ASSUME NEW n \in 1 .. Len(toPeer'), IsI(toPeer'[n])
        PROVE  toPeer'[n].ns = After(toPeer', peerReceive', n - 1)
    <3>1. CASE n <= L
      <4>1. n \in 1 .. L /\ n - 1 \in 0 .. L /\ toPeer'[n] = toPeer[n]
        BY <2>4, <3>1
      <4>2. After(toPeer', peerReceive, n - 1) = After(toPeer, peerReceive, n - 1)
        BY <2>5, <4>1
      <4> QED BY <1>1, <2>2, <2>7, <4>1, <4>2 DEF L
    <3>2. CASE ~ (n <= L)
      <4>1. n <= L + a
        BY <2>4, <2>7, <3>2
      <4> DEFINE i == n - 1
      <4>2. n \in L + 1 .. L + a /\ i \in L .. L + a /\ i - L = n - L - 1
            /\ sendCount + (i - L) = sendCount + (n - L) - 1
        BY <2>4, <3>2, <4>1, Modulo DEF TypeOK
      <4>3. toPeer'[n].ns = (sendCount + (n - L) - 1) % M
        BY <2>4, <4>2
      <4>4. After(toPeer', peerReceive, i) = (sendCount + (i - L)) % M
        BY <2>6, <4>2
      <4> QED BY <2>2, <4>2, <4>3, <4>4
    <3> QED BY <2>4, <3>1, <3>2
  <2>8. After(toPeer', peerReceive', Len(toPeer')) = sendCount'
    <3> PICK last \in L .. L + a : last = L + a
      BY <2>4
    <3>1. last \in Nat /\ Len(toPeer') \in Nat /\ last <= Len(toPeer')
          /\ (\A m \in last + 1 .. Len(toPeer') : ~ IsI(toPeer'[m])) /\ last - L = a
      BY <2>4
    <3>2. After(toPeer', peerReceive, Len(toPeer')) = After(toPeer', peerReceive, last)
      BY <3>1, AfterNone
    <3>3. After(toPeer', peerReceive, last) = (sendCount + (last - L)) % M
      BY <2>6
    <3> QED BY <2>2, <3>1, <3>2, <3>3 DEF a
  <2> QED BY <1>3, <2>3, <2>7, <2>8
<1>5. CASE PeerReceives
  <2>1. /\ UNCHANGED <<sendCount, sentASDUs>>
        /\ peerReceive' = IF IsI(toPeer[1]) THEN Succ(peerReceive) ELSE peerReceive
        /\ L \in Nat \ {0} /\ Len(toPeer') = L - 1
        /\ \A i \in 1 .. L - 1 : toPeer'[i] = toPeer[i + 1]
    BY <1>5, PeerReceivedType DEF PeerReceives, serverVars, counters, IsI
  <2>2. peerReceive' = IF IsI(toPeer[1]) THEN Succ(toPeer[1].ns) ELSE peerReceive
    <3>1. 1 \in 1 .. L /\ 1 - 1 = 0 /\ 0 \in Nat /\ \A m \in 1 .. 0 : ~ IsI(toPeer[m])
      BY <2>1
    <3>2. After(toPeer, peerReceive, 0) = peerReceive
      BY <3>1, AfterIs
    <3>3. IsI(toPeer[1]) => toPeer[1].ns = peerReceive
      BY <1>1, <3>1, <3>2
    <3> QED BY <2>1, <3>3
  <2>3. NumbersInv'
    BY <1>1, <2>1 DEF NumbersInv, Acked
  <2>4. ASSUME NEW n \in 0 .. L - 1
        PROVE  After(toPeer', peerReceive', n) = After(toPeer, peerReceive, n + 1)
    <3>1. n \in Nat /\ \A m \in 1 .. n : toPeer'[m] = toPeer[m + 1]
      BY <2>1
    <3> QED BY <2>2, <3>1, AfterTail
  <2>5. ASSUME NEW n \in 1 .. Len(toPeer'), IsI(toPeer'[n])
        PROVE  toPeer'[n].ns = After(toPeer', peerReceive', n - 1)
    <3>1. n - 1 \in 0 .. L - 1 /\ n - 1 + 1 = n /\ n + 1 \in 1 .. L /\ n + 1 - 1 = n
          /\ toPeer'[n] = toPeer[n + 1]
      BY <2>1
    <3>2. After(toPeer', peerReceive', n - 1) = After(toPeer, peerReceive, n)
      BY <2>4, <3>1
    <3>3. \A k \in 1 .. L :
            IsI(toPeer[k]) /\ k - 1 = n => toPeer[k].ns = After(toPeer, peerReceive, n)
      BY <1>1
    <3> QED BY <2>5, <3>1, <3>2, <3>3
  <2>6. After(toPeer', peerReceive', Len(toPeer')) = sendCount'
    <3>1. L - 1 \in 0 .. L - 1 /\ L - 1 + 1 = L
      BY <2>1
    <3>2. After(toPeer', peerReceive', L - 1) = After(toPeer, peerReceive, L)
      BY <2>4, <3>1
    <3> QED BY <1>1, <2>1, <3>2
  <2> QED BY <1>3, <2>3, <2>5, <2>6
<1>6. CASE Enqueue \/ PeerSendsI \/ PeerSendsS \/ PeerControls \/ PeerErrs \/ PeerStops
           \/ UNCHANGED vars
  <2>1. UNCHANGED <<toPeer, sentASDUs, sendCount, peerReceive>>
    BY <1>6 DEF Enqueue, PeerSendsI, PeerSendsS, PeerControls, PeerErrs, PeerStops, PeerSends,
                vars, serverVars, peerVars, counters
  <2> QED BY <2>1 DEF SequenceNumbers, NumberAfter
<1> QED BY <1>4, <1>5, <1>6 DEF Next, PeerStep

(* The numbers in the k-buffer are consecutive modulo M and end with the   *)
(* number of the next message; the I messages on their way are numbered    *)
(* without a gap from what the peer expects up to what is sent next.       *)
THEOREM NumbersHold == Spec => []SequenceNumbers
<1>1. Init => SequenceNumbers
  <2> SUFFICES ASSUME Init PROVE SequenceNumbers
    OBVIOUS
  <2>1. Len(sentASDUs) = 0 /\ Len(toPeer) = 0 /\ peerReceive = sendCount
    BY EmptySeq DEF Init
  <2>2. NumberAfter(Len(toPeer)) = peerReceive
    BY <2>1 DEF NumberAfter
  <2> QED BY <2>1, <2>2 DEF SequenceNumbers
<1>2. TypeOK /\ SequenceNumbers /\ [Next]_vars => SequenceNumbers'
  BY SequenceStep
<1> QED BY <1>1, <1>2, TypeCorrect, PTL DEF Spec

-----------------------------------------------------------------------------
(* What the server accepts.                                                *)

Acceptable ==
  LET f == Head(toServer)
  IN  IsNumbered(f) => (IsI(f) => f.ns = receiveCount) /\ SeqNoIsValid(f.nr)

(* The oldest message to the server is accepted exactly if it is one of a  *)
(* peer that keeps the protocol.                                           *)
LEMMA AcceptableIs ==
  ASSUME TypeOK, NumbersInv, WayInv, toServer # << >>, NEW g \in 0 .. Len(toServer), Conforming(g)
  PROVE  /\ Acceptable <=> g # 0
         /\ g # 0 /\ IsNumbered(Head(toServer)) => Ahead(Head(toServer).nr) <= Ahead(peerAckSent)
<1> DEFINE f == Head(toServer)
           L == Len(toServer)
<1>1. /\ f = toServer[1] /\ L \in Nat \ {0} /\ 1 \in 1 .. L
      /\ IsNumbered(f) => f.nr \in SeqNo
      /\ IsI(f) => IsNumbered(f)
  BY ReceivedType DEF IsNumbered, IsI
<1>2. /\ peerAckSent \in SeqNo /\ peerReceive \in SeqNo /\ Len(sentASDUs) \in 0 .. K
      /\ \A x \in SeqNo : Ahead(x) \in Nat /\ (Acked + Ahead(x)) % M = x
      /\ K \in Nat /\ M \in Nat
  BY AckedFacts DEF TypeOK
<1>3. IsNumbered(f) => (SeqNoIsValid(f.nr) <=> Ahead(f.nr) <= Len(sentASDUs))
  BY <1>1, ValidIs
<1>4. /\ Ahead(peerAckSent) <= Ahead(peerReceive) /\ Ahead(peerReceive) <= Len(sentASDUs)
  BY DEF Conforming, Conforms, Ahead, WayInv
<1>5. After(toServer, receiveCount, 0) = receiveCount
  <2>1. 0 \in Nat /\ \A m \in 1 .. 0 : ~ IsI(toServer[m])
    OBVIOUS
  <2> QED BY <2>1, AfterIs
<1>6. CASE g # 0
  <2>1. 1 \in 1 .. g /\ 1 - 1 = 0
    BY <1>6
  <2>2. IsI(f) => f.ns = receiveCount
    BY <1>1, <1>5, <2>1 DEF Conforming, Conforms, Ahead
  <2>3. IsNumbered(f) => Ahead(f.nr) <= Ahead(peerAckSent)
    BY <1>1, <2>1 DEF Conforming, Conforms, Ahead
  <2>4. IsNumbered(f) => SeqNoIsValid(f.nr)
    BY <1>1, <1>2, <1>3, <1>4, <2>3
  <2> QED BY <1>6, <2>2, <2>3, <2>4 DEF Acceptable
<1>7. CASE g = 0
  <2>1. IsWrong(f, peerSend, peerAckSent) /\ receiveCount = peerSend
    <3>1. ~ conforms /\ g + 1 = 1
      BY <1>1, <1>7 DEF Conforming, Conforms, Ahead
    <3> QED BY <1>1, <1>5, <1>7, <3>1 DEF Conforming, Conforms, Ahead
  <2>2. Ahead(peerAckSent) = 0
    BY <1>7 DEF Conforming, Conforms, Ahead
  <2>3. CASE f.kind = "I"
    BY <1>7, <2>1, <2>3 DEF IsWrong, Acceptable, IsNumbered, IsI
  <2>4. CASE f.kind = "S"
    <3>1. f.nr \notin {(peerAckSent + n) % M : n \in 0 .. K} /\ IsNumbered(f)
      BY <2>1, <2>4 DEF IsWrong, IsNumbered
    <3>2. peerAckSent = Acked
      <4>1. 0 \in 0 .. K /\ Ahead(Acked) = 0 /\ Acked \in SeqNo
        BY <1>2, AckedFacts, DistanceFacts DEF Ahead
      <4>2. (Acked + 0) % M = Acked /\ (Acked + 0) % M = peerAckSent
        BY <1>2, <2>2, <4>1
      <4> QED BY <4>2
    <3>3. ~ (Ahead(f.nr) \in 0 .. K)
      <4>1. (peerAckSent + Ahead(f.nr)) % M = f.nr
        BY <1>1, <1>2, <3>1, <3>2
      <4> QED BY <3>1, <4>1
    <3>4. ~ SeqNoIsValid(f.nr)
      BY <1>1, <1>2, <1>3, <3>1, <3>3
    <3> QED BY <1>7, <3>1, <3>4 DEF Acceptable
  <2> QED BY <2>1, <2>3, <2>4 DEF IsWrong
<1> QED BY <1>6, <1>7

(* An accepted acknowledgement releases no more than the peer has received.*)
LEMMA ReleaseBound ==
  ASSUME TypeOK, NumbersInv, WayInv, StoppedInv, ServerInv, ThreadStep,
         NEW asdus, NEW rel \in 0 .. Len(sentASDUs), NEW freed, NEW next,
         Serves(asdus, rel, freed, next)
  PROVE  /\ rel <= Ahead(peerReceive)
         /\ Accepts => /\ rel = Ahead(Head(toServer).nr) /\ rel <= Ahead(peerAckSent)
                       /\ toServer # << >> /\ IsNumbered(Head(toServer)) /\ Acceptable
                       /\ cause # "sequence"
<1>1. peerReceive \in SeqNo /\ Ahead(peerReceive) \in Nat
  BY AckedFacts DEF TypeOK
<1>2. CASE ~ Accepts
  BY <1>1, <1>2 DEF Serves
<1>3. CASE Accepts
  <2>1. /\ toServer # << >> /\ pc = "receive" /\ IsNumbered(Head(toServer))
        /\ SeqNoIsValid(Head(toServer).nr) /\ Acceptable
    BY <1>3 DEF Accepts, ReceiveI, ReceiveS, Receives, IsNumbered, Acceptable, IsI
  <2>2. cause # "sequence"
    BY <2>1 DEF StoppedInv
  <2>3. PICK g \in 0 .. Len(toServer) : Conforming(g)
    BY <2>2 DEF ServerInv
  <2>4. Ahead(Head(toServer).nr) <= Ahead(peerAckSent)
    BY <2>1, <2>3, AcceptableIs
  <2>5. Ahead(peerAckSent) <= Ahead(peerReceive)
    BY <2>3 DEF Conforming, Conforms, Ahead
  <2>6. Head(toServer).nr \in SeqNo
    BY <2>1, ReceivedType DEF IsNumbered
  <2>7. rel = Ahead(Head(toServer).nr)
    BY <1>3, <2>1, <2>6, ValidIs DEF Serves
  <2>8. Ahead(Head(toServer).nr) \in Nat /\ Ahead(peerAckSent) \in Nat
    <3>1. peerAckSent \in SeqNo /\ \A x \in SeqNo : Ahead(x) \in Nat
      BY AckedFacts DEF TypeOK
    <3> QED BY <2>6, <3>1
  <2> QED BY <1>1, <2>1, <2>2, <2>4, <2>5, <2>7, <2>8
<1> QED BY <1>2, <1>3

(* A message is rejected only after the peer erred.                        *)
LEMMA RejectedErred ==
  ASSUME TypeOK, NumbersInv, WayInv, StoppedInv, ServerInv, RejectMessage
  PROVE  ~ conforms
<1>1. toServer # << >> /\ pc = "receive" /\ IsNumbered(Head(toServer)) /\ ~ Acceptable
  BY DEF RejectMessage, Receives, IsNumbered, Acceptable, IsI
<1>2. cause # "sequence"
  BY <1>1 DEF StoppedInv
<1>3. PICK g \in 0 .. Len(toServer) : Conforming(g)
  BY <1>2 DEF ServerInv
<1>4. g = 0 /\ Len(toServer) # 0
  BY <1>1, <1>3, AcceptableIs, ReceivedType
<1> QED BY <1>3, <1>4 DEF Conforming, Conforms, Ahead

(* Only a wrong number ends the connection for a wrong number.             *)
LEMMA StoppedStep ==
  ASSUME TypeOK, NumbersInv, WayInv, StoppedInv, ServerInv, [Next]_vars
  PROVE  StoppedInv'
<1>1. CASE RejectMessage
  <2>1. ~ conforms /\ UNCHANGED conforms /\ pc' = "timeouts" /\ ~ isRunning'
    BY <1>1, RejectedErred DEF RejectMessage, Receives, peerVars
  <2> QED BY <1>1, <2>1 DEF StoppedInv
<1>2. CASE ReceiveNothing \/ ReceiveI \/ ReceiveS \/ ReceiveStartDT \/ ReceiveStopDT
           \/ ReceiveTestFR \/ ReceiveTestFRCon \/ ReceiveClose
  BY <1>2 DEF StoppedInv, ReceiveNothing, ReceiveI, ReceiveS, ReceiveStartDT, ReceiveStopDT,
     ReceiveTestFR, ReceiveTestFRCon, ReceiveClose, Receives, peerVars, history
<1>3. CASE Timeouts
  <2>1. PICK t1 \in BOOLEAN, t2 \in BOOLEAN, t3 \in BOOLEAN : HandleTimeouts(t1, t2, t3)
    BY <1>3 DEF Timeouts, MayExpire
  <2>2. pc' = "send" /\ UNCHANGED conforms /\ (cause' = cause \/ cause' = "timeout")
    BY <2>1 DEF HandleTimeouts, peerVars
  <2>3. isRunning' => isRunning
    BY <2>1, Zenon DEF HandleTimeouts
  <2> QED BY <2>2, <2>3 DEF StoppedInv
<1>4. CASE SendWaitingASDUs \/ SkipSending \/ EndThread
  BY <1>4 DEF StoppedInv, SendWaitingASDUs, SkipSending, EndThread, peerVars, history
<1>5. CASE Enqueue \/ PeerReceives \/ PeerSendsI \/ PeerSendsS \/ PeerControls \/ PeerErrs
           \/ PeerStops \/ UNCHANGED vars
  <2>1. UNCHANGED <<pc, isRunning, cause>> /\ (conforms' = conforms \/ ~ conforms')
    BY <1>5 DEF Enqueue, PeerReceives, PeerSendsI, PeerSendsS, PeerControls, PeerErrs, PeerStops,
       PeerSends, vars, serverVars, peerVars, history
  <2> QED BY <2>1 DEF StoppedInv
<1> QED BY <1>1, <1>2, <1>3, <1>4, <1>5 DEF Next, ThreadStep, ReceiveMessage, PeerStep

-----------------------------------------------------------------------------
(* What is on its way to the peer.                                         *)

(* Places in the k-buffer after a step of the thread.                      *)
LEMMA Places ==
  ASSUME TypeOK, TypeOK', NumbersInv, WayInv, NEW asdus \in Seq(ASDUs), NEW extra \in 0 .. 2,
         NEW rel \in 0 .. Len(sentASDUs), Adds(asdus, extra), Keeps(asdus, rel),
         rel <= Ahead(peerReceive)
  PROVE  LET L == Len(toPeer)
             a == Len(asdus)
             kept == Len(sentASDUs) - rel
         IN  /\ L \in Nat /\ a \in Nat /\ kept \in Nat /\ Len(sentASDUs') = kept + a
             /\ Distance(Acked', peerReceive) = Ahead(peerReceive) - rel
             /\ Ahead(peerReceive) \in Nat /\ Ahead(peerReceive) <= Len(sentASDUs)
             /\ \A i \in 1 .. Len(toPeer') : IsI(toPeer'[i]) =>
                  \/ /\ i \in 1 .. L /\ toPeer'[i] = toPeer[i]
                     /\ Ahead(toPeer[i].ns) \in Nat /\ Ahead(peerReceive) <= Ahead(toPeer[i].ns)
                     /\ Ahead(toPeer[i].ns) < Len(sentASDUs)
                     /\ Distance(Acked', toPeer'[i].ns) = Ahead(toPeer[i].ns) - rel
                  \/ /\ i \in L + 1 .. L + a /\ toPeer'[i].asdu = asdus[i - L]
                     /\ Distance(Acked', toPeer'[i].ns) = kept + (i - L) - 1
<1> DEFINE L == Len(toPeer)
           a == Len(asdus)
           n == Len(sentASDUs)
           kept == n - rel
<1>1. /\ M \in Nat /\ K \in Nat /\ K + 1 < M /\ n \in 0 .. K
      /\ \A x \in SeqNo : Ahead(x) \in Nat
      /\ peerReceive \in SeqNo /\ Ahead(peerReceive) <= n
  <2>1. /\ M \in Nat /\ K \in Nat /\ K + 1 < M /\ n \in 0 .. K
        /\ \A x \in SeqNo : Ahead(x) \in 0 .. M - 1
    BY AckedFacts
  <2>2. peerReceive \in SeqNo /\ Ahead(peerReceive) <= n
    BY DEF TypeOK, WayInv
  <2> QED BY <2>1, <2>2
<1>2. /\ sendCount' = (sendCount + a) % M
  BY DEF Adds
<1>3. /\ Acked' \in SeqNo
      /\ \A x \in SeqNo : rel <= Ahead(x) => Distance(Acked', x) = Ahead(x) - rel
      /\ \A j \in 0 .. a : (sendCount + j) % M = (Acked' + (kept + j)) % M
  BY <1>2, AckedStep
<1>4. /\ L \in Nat /\ a \in Nat /\ Len(toPeer') = L + a + extra
      /\ \A i \in 1 .. L : toPeer'[i] = toPeer[i]
      /\ \A i \in L + 1 .. L + a :
           /\ i - L \in 1 .. a
           /\ toPeer'[i] = IFrame((sendCount + (i - L) - 1) % M, receiveCount', asdus[i - L])
      /\ \A i \in L + a + 1 .. L + a + extra : ~ IsI(toPeer'[i])
  BY AddedNumbers
<1>5. Len(sentASDUs') = kept + a /\ kept \in Nat /\ kept + a <= K
  <2>1. Len(sentASDUs') = kept + a
    BY DEF Keeps
  <2>2. Len(sentASDUs') <= K
    BY DEF TypeOK
  <2> QED BY <1>1, <2>1, <2>2
<1>6. ASSUME NEW i \in 1 .. Len(toPeer'), IsI(toPeer'[i]), i <= L
      PROVE  /\ i \in 1 .. L /\ toPeer'[i] = toPeer[i]
             /\ Ahead(toPeer[i].ns) \in Nat /\ Ahead(peerReceive) <= Ahead(toPeer[i].ns)
             /\ Ahead(toPeer[i].ns) < n
             /\ Distance(Acked', toPeer'[i].ns) = Ahead(toPeer[i].ns) - rel
  <2>1. i \in 1 .. L /\ toPeer'[i] = toPeer[i] /\ IsI(toPeer[i])
    BY <1>4, <1>6
  <2>2. PICK x \in SeqNo : x = toPeer[i].ns
    <3>1. toPeer[i] \in Frames /\ \A f \in Frames : IsI(f) => f.ns \in SeqNo
      BY <2>1, Elements DEF Frames, IsI
    <3> QED BY <2>1, <3>1
  <2>3. Ahead(x) \in Nat /\ Ahead(peerReceive) <= Ahead(x) /\ Ahead(x) < n
    BY <1>1, <2>1, <2>2 DEF WayInv
  <2>4. rel <= Ahead(x)
    BY <1>1, <2>3
  <2>5. Distance(Acked', x) = Ahead(x) - rel
    BY <1>3, <2>4
  <2> QED BY <2>1, <2>2, <2>3, <2>5
<1>7. ASSUME NEW i \in 1 .. Len(toPeer'), IsI(toPeer'[i]), ~ (i <= L)
      PROVE  /\ i \in L + 1 .. L + a /\ toPeer'[i].asdu = asdus[i - L]
             /\ Distance(Acked', toPeer'[i].ns) = kept + (i - L) - 1
  <2>1. i \in L + 1 .. L + a /\ i - L \in 1 .. a
    BY <1>4, <1>7
  <2>2. PICK j \in 0 .. a : j = i - L - 1
    BY <1>4, <2>1
  <2>3. toPeer'[i].asdu = asdus[i - L] /\ toPeer'[i].ns = (sendCount + (i - L) - 1) % M
    <3>1. toPeer'[i] = IFrame((sendCount + (i - L) - 1) % M, receiveCount', asdus[i - L])
      BY <1>4, <2>1
    <3> QED BY <3>1 DEF IFrame
  <2>4. sendCount + (i - L) - 1 = sendCount + j
    BY <1>4, <2>2, Modulo DEF TypeOK
  <2>5. PICK p \in 0 .. M - 1 : p = kept + j /\ p = kept + (i - L) - 1
    <3>1. PICK d \in 1 .. a : d = i - L /\ j = d - 1
      BY <2>1, <2>2
    <3>2. kept + j = kept + d - 1 /\ kept + j \in 0 .. M - 1
      <4>1. kept \in Nat /\ a \in Nat /\ kept + a <= K /\ K + 1 < M /\ K \in Nat /\ M \in Nat
        BY <1>1, <1>4, <1>5
      <4> HIDE DEF a, kept, n
      <4> QED BY <3>1, <4>1
    <3> QED BY <3>1, <3>2
  <2>6. toPeer'[i].ns = (Acked' + p) % M
    BY <1>3, <2>3, <2>4, <2>5
  <2> QED BY <1>3, <2>1, <2>3, <2>5, <2>6, DistanceOfSum
<1>8. Distance(Acked', peerReceive) = Ahead(peerReceive) - rel
  BY <1>1, <1>3
<1> QED BY <1>1, <1>4, <1>5, <1>6, <1>7, <1>8

(* A step of the thread keeps what is on its way in the k-buffer.          *)
LEMMA WayThreadStep ==
  ASSUME TypeOK, TypeOK', NumbersInv, WayInv, NEW asdus \in Seq(ASDUs), NEW extra \in 0 .. 2,
         NEW rel \in 0 .. Len(sentASDUs), Adds(asdus, extra), Keeps(asdus, rel),
         rel <= Ahead(peerReceive), UNCHANGED peerReceive
  PROVE  WayInv'
<1> DEFINE L == Len(toPeer)
           a == Len(asdus)
           n == Len(sentASDUs)
           kept == n - rel
           D(i) == Distance(Acked', toPeer'[i].ns)
<1>1. /\ L \in Nat /\ a \in Nat /\ kept \in Nat /\ n \in Nat /\ Len(sentASDUs') = kept + a
      /\ Distance(Acked', peerReceive) = Ahead(peerReceive) - rel
      /\ Ahead(peerReceive) \in Nat /\ Ahead(peerReceive) <= n
      /\ \A i \in 1 .. Len(toPeer') : IsI(toPeer'[i]) =>
           \/ /\ i \in 1 .. L /\ toPeer'[i] = toPeer[i]
              /\ Ahead(toPeer[i].ns) \in Nat /\ Ahead(peerReceive) <= Ahead(toPeer[i].ns)
              /\ Ahead(toPeer[i].ns) < n
              /\ D(i) = Ahead(toPeer[i].ns) - rel
           \/ /\ i \in L + 1 .. L + a /\ toPeer'[i].asdu = asdus[i - L]
              /\ D(i) = kept + (i - L) - 1
  BY Places, Elements
<1> HIDE DEF D
<1>2. ASSUME NEW i \in 1 .. Len(toPeer'), IsI(toPeer'[i])
      PROVE  /\ Distance(Acked', peerReceive) <= D(i) /\ D(i) < Len(sentASDUs')
             /\ sentASDUs'[D(i) + 1].asdu = toPeer'[i].asdu
  <2>1. CASE /\ i \in 1 .. L /\ toPeer'[i] = toPeer[i]
             /\ Ahead(toPeer[i].ns) \in Nat /\ Ahead(peerReceive) <= Ahead(toPeer[i].ns)
             /\ Ahead(toPeer[i].ns) < n
             /\ D(i) = Ahead(toPeer[i].ns) - rel
    <3>1. PICK q \in Nat : q = Ahead(toPeer[i].ns)
      BY <2>1
    <3>2. q - rel + 1 \in 1 .. kept /\ rel + (q - rel + 1) = q + 1
      <4>1. q < n /\ rel <= q /\ rel \in Nat /\ n \in Nat
        <5>1. Ahead(peerReceive) <= q /\ q < n
          BY <2>1, <3>1
        <5>2. rel <= Ahead(peerReceive) /\ rel \in Nat /\ n \in Nat /\ Ahead(peerReceive) \in Nat
          BY <1>1
        <5> QED BY <3>1, <5>1, <5>2
      <4> HIDE DEF n
      <4> QED BY <3>1, <4>1
    <3>3. sentASDUs'[q - rel + 1] = sentASDUs[q + 1]
      BY <3>2 DEF Keeps
    <3>4. sentASDUs[q + 1].asdu = toPeer[i].asdu
      <4>1. i \in 1 .. L /\ IsI(toPeer[i])
        BY <1>2, <2>1
      <4> QED BY <3>1, <4>1 DEF WayInv
    <3>5. rel \in Nat /\ Ahead(peerReceive) \in Nat /\ Ahead(peerReceive) <= q /\ q < n
          /\ n \in Nat /\ a \in Nat /\ D(i) = q - rel
      BY <1>1, <2>1, <3>1
    <3>6. D(i) + 1 = q - rel + 1
      BY <3>5
    <3>7. sentASDUs'[D(i) + 1].asdu = toPeer'[i].asdu
      BY <2>1, <3>3, <3>4, <3>6
    <3>8. Distance(Acked', peerReceive) = Ahead(peerReceive) - rel /\ Len(sentASDUs') = n - rel + a
      BY <1>1
    <3> HIDE DEF n, a
    <3>9. Distance(Acked', peerReceive) <= D(i) /\ D(i) < Len(sentASDUs')
      BY <3>5, <3>8
    <3> QED BY <3>7, <3>9
  <2>2. CASE /\ i \in L + 1 .. L + a /\ toPeer'[i].asdu = asdus[i - L]
             /\ D(i) = kept + (i - L) - 1
    <3>1. PICK j \in 1 .. a : j = i - L
      <4>1. L \in Nat /\ a \in Nat
        BY <1>1
      <4>2. i \in L + 1 .. L + a
        BY <2>2
      <4> HIDE DEF L, a
      <4> QED BY <4>1, <4>2
    <3>2. sentASDUs'[kept + j] = [seqNo |-> (sendCount + j) % M, asdu |-> asdus[j]]
      BY DEF Keeps
    <3>3. D(i) + 1 = kept + j
      BY <1>1, <2>2, <3>1
    <3>4. sentASDUs'[D(i) + 1].asdu = toPeer'[i].asdu
      <4>1. sentASDUs'[kept + j].asdu = asdus[j] /\ toPeer'[i].asdu = asdus[j]
        BY <2>2, <3>1, <3>2
      <4> QED BY <3>3, <4>1
    <3>5. /\ rel \in Nat /\ Ahead(peerReceive) <= n /\ Ahead(peerReceive) \in Nat /\ n \in Nat
          /\ a \in Nat /\ D(i) = kept + j - 1 /\ kept = n - rel
          /\ Distance(Acked', peerReceive) = Ahead(peerReceive) - rel
          /\ Len(sentASDUs') = kept + a
      BY <1>1, <2>2, <3>1
    <3> HIDE DEF n, a, kept
    <3>6. Distance(Acked', peerReceive) <= D(i) /\ D(i) < Len(sentASDUs')
      BY <3>1, <3>5
    <3> QED BY <3>4, <3>6
  <2> QED BY <1>1, <1>2, <2>1, <2>2
<1>3. ASSUME NEW i \in 1 .. Len(toPeer'), NEW j \in 1 .. Len(toPeer'),
             IsI(toPeer'[i]), IsI(toPeer'[j]), i < j
      PROVE  D(i) < D(j)
  <2>1. CASE i \in 1 .. L /\ j \in 1 .. L
    <3>1. Ahead(toPeer[i].ns) < Ahead(toPeer[j].ns)
      <4>1. toPeer'[i] = toPeer[i] /\ toPeer'[j] = toPeer[j]
        BY <2>1 DEF Adds
      <4>2. IsI(toPeer[i]) /\ IsI(toPeer[j])
        BY <1>3, <4>1
      <4> QED BY <1>3, <2>1, <4>2 DEF WayInv
    <3>2. \A k \in {i, j} : /\ D(k) = Ahead(toPeer[k].ns) - rel /\ Ahead(toPeer[k].ns) \in Nat
      <4> TAKE k \in {i, j}
      <4>1. k \in 1 .. L /\ k \in 1 .. Len(toPeer') /\ IsI(toPeer'[k])
        BY <1>3, <2>1
      <4>2. k \notin L + 1 .. L + a
        <5>1. L \in Nat
          BY <1>1
        <5> QED BY <4>1, <5>1
      <4> QED BY <1>1, <4>1, <4>2
    <3> QED BY <3>1, <3>2
  <2>2. CASE ~ (i \in 1 .. L /\ j \in 1 .. L)
    <3>1. \A k \in {i, j} :
            \/ k \in 1 .. L /\ D(k) \in Int /\ D(k) < kept
            \/ k \in L + 1 .. L + a /\ D(k) = kept + (k - L) - 1
      <4> TAKE k \in {i, j}
      <4>1. k \in 1 .. Len(toPeer') /\ IsI(toPeer'[k])
        BY <1>3
      <4>2. CASE k \in L + 1 .. L + a /\ D(k) = kept + (k - L) - 1
        BY <4>2
      <4>3. CASE /\ k \in 1 .. L /\ Ahead(toPeer[k].ns) \in Nat /\ Ahead(toPeer[k].ns) < n
                 /\ D(k) = Ahead(toPeer[k].ns) - rel
        <5>1. PICK q \in Nat : q = Ahead(toPeer[k].ns) /\ q < n /\ D(k) = q - rel
          BY <4>3
        <5>2. rel \in Nat /\ n \in Nat
          BY <1>1
        <5>3. D(k) \in Int /\ D(k) < kept
          BY <5>1, <5>2
        <5> QED BY <4>3, <5>3
      <4> QED BY <1>1, <4>1, <4>2, <4>3
    <3>2. L \in Nat /\ a \in Nat /\ kept \in Nat
      BY <1>1
    <3> HIDE DEF L, a, kept
    <3>3. i \in Nat /\ j \in Nat /\ (j \in 1 .. L => i \in 1 .. L)
      <4>1. Len(toPeer') \in Nat
        BY <3>2, LenProperties DEF TypeOK
      <4> QED BY <1>3, <3>2, <4>1
    <3>4. j \in L + 1 .. L + a /\ D(j) = kept + (j - L) - 1
      BY <2>2, <3>1, <3>3
    <3>5. CASE i \in 1 .. L /\ D(i) \in Int /\ D(i) < kept
      BY <3>2, <3>4, <3>5
    <3>6. CASE i \in L + 1 .. L + a /\ D(i) = kept + (i - L) - 1
      BY <1>3, <3>2, <3>4, <3>6
    <3> QED BY <3>1, <3>5, <3>6
  <2> QED BY <2>1, <2>2
<1>4. Distance(Acked', peerReceive) <= Len(sentASDUs')
  BY <1>1
<1> QED BY <1>2, <1>3, <1>4 DEF WayInv, Ahead, D

(* The peer reads the oldest message, which carries what it expects.       *)
LEMMA PeerReads ==
  ASSUME TypeOK, SequenceNumbers, WayInv, PeerReceives
  PROVE  LET f == toPeer[1]
             p == Ahead(peerReceive)
         IN  /\ Len(toPeer) \in Nat \ {0} /\ Len(toPeer') = Len(toPeer) - 1
             /\ \A i \in 1 .. Len(toPeer) - 1 : toPeer'[i] = toPeer[i + 1]
             /\ UNCHANGED <<sentASDUs, sendCount, Acked, receiveCount, lowPrioQueue, pc, produced,
                            overwritten, cause>>
             /\ p \in Nat
             /\ IsI(f) => /\ Ahead(f.ns) = p /\ Distance(Acked, peerReceive') = p + 1
                          /\ p < Len(sentASDUs) /\ sentASDUs[p + 1].asdu = f.asdu
             /\ ~ IsI(f) => peerReceive' = peerReceive
             /\ delivered' = IF IsEvent(f) THEN Append(delivered, f.asdu) ELSE delivered
<1> DEFINE f == toPeer[1]
           p == Ahead(peerReceive)
<1>1. /\ Len(toPeer) \in Nat \ {0} /\ Len(toPeer') = Len(toPeer) - 1
      /\ \A i \in 1 .. Len(toPeer) - 1 : toPeer'[i] = toPeer[i + 1]
      /\ f = Head(toPeer)
  BY PeerReceivedType DEF PeerReceives
<1>2. /\ UNCHANGED <<sentASDUs, sendCount, receiveCount, lowPrioQueue, pc, produced, overwritten,
                     cause>>
      /\ IsI(f) => peerReceive' = Succ(peerReceive)
      /\ ~ IsI(f) => peerReceive' = peerReceive
      /\ delivered' = IF IsEvent(f) THEN Append(delivered, f.asdu) ELSE delivered
  BY <1>1 DEF PeerReceives, serverVars, counters, queues, IsI, IsEvent
<1>3. UNCHANGED Acked
  BY <1>2 DEF Acked
<1>4. peerReceive \in SeqNo /\ p \in Nat /\ Acked \in SeqNo
      /\ M \in Nat /\ K \in Nat /\ K + 1 < M /\ Len(sentASDUs) \in 0 .. K
  BY AckedFacts DEF TypeOK
<1>5. ASSUME IsI(f)
      PROVE  /\ Ahead(f.ns) = p /\ Distance(Acked, peerReceive') = p + 1
             /\ p < Len(sentASDUs) /\ sentASDUs[p + 1].asdu = f.asdu
  <2>1. f.ns = peerReceive
    <3>1. 1 \in 1 .. Len(toPeer) /\ 1 - 1 = 0 /\ 0 \in Nat /\ \A m \in 1 .. 0 : ~ IsI(toPeer[m])
      BY <1>1
    <3>2. After(toPeer, peerReceive, 0) = peerReceive
      BY <3>1, AfterIs
    <3>3. f.ns = NumberAfter(0)
      BY <1>5, <3>1 DEF SequenceNumbers
    <3> QED BY <3>2, <3>3 DEF NumberAfter, After
  <2>2. p < Len(sentASDUs) /\ sentASDUs[p + 1].asdu = f.asdu
    BY <1>1, <1>5, <2>1 DEF WayInv
  <2>3. p + 1 < M
    BY <1>4, <2>2
  <2>4. Distance(Acked, Succ(peerReceive)) = p + 1
    BY <1>4, <2>3, DistanceFacts DEF Ahead
  <2> QED BY <1>2, <1>5, <2>1, <2>2, <2>4
<1> QED BY <1>1, <1>2, <1>3, <1>4, <1>5

(* What is on its way stays in the k-buffer: no acknowledgement overtakes  *)
(* it.                                                                     *)
LEMMA WayStep ==
  ASSUME TypeOK, SequenceNumbers, NumbersInv, WayInv, StoppedInv, ServerInv, [Next]_vars
  PROVE  WayInv'
<1>1. TypeOK'
  BY StepType
<1>2. CASE ThreadStep
  <2>1. PICK asdus \in Seq(ASDUs), extra \in 0 .. 2, rel \in 0 .. Len(sentASDUs),
             freed \in 0 .. Len(lowPrioQueue), next \in 0 .. Len(lowPrioQueue) :
          Adds(asdus, extra) /\ Serves(asdus, rel, freed, next)
    BY <1>2, ThreadAdds
  <2>2. rel <= Ahead(peerReceive) /\ Keeps(asdus, rel)
    BY <1>2, <2>1, ReleaseBound DEF Serves
  <2>3. UNCHANGED peerReceive
    BY <1>2 DEF ThreadStep, ReceiveMessage, ReceiveNothing, ReceiveI, ReceiveS, RejectMessage,
        ReceiveStartDT, ReceiveStopDT, ReceiveTestFR, ReceiveTestFRCon, ReceiveClose,
        Timeouts, HandleTimeouts, SendWaitingASDUs, SkipSending, EndThread, peerVars
  <2> QED BY <1>1, <2>1, <2>2, <2>3, WayThreadStep
<1>3. CASE PeerReceives
  <2> DEFINE f == toPeer[1]
             p == Ahead(peerReceive)
             L == Len(toPeer)
  <2>1. /\ L \in Nat \ {0} /\ Len(toPeer') = L - 1
        /\ \A i \in 1 .. L - 1 : toPeer'[i] = toPeer[i + 1]
        /\ UNCHANGED <<sentASDUs, Acked>> /\ p \in Nat
        /\ IsI(f) => /\ Ahead(f.ns) = p /\ Distance(Acked, peerReceive') = p + 1
                     /\ p < Len(sentASDUs)
        /\ ~ IsI(f) => peerReceive' = peerReceive
    BY <1>3, PeerReads
  <2>2. \A i \in 1 .. L - 1 : i + 1 \in 1 .. L /\ 1 \in 1 .. L /\ 1 < i + 1
    BY <2>1
  <2>3. Distance(Acked, peerReceive') <= Len(sentASDUs)
    <3>1. Len(sentASDUs) \in Nat
      BY Elements
    <3> QED BY <2>1, <3>1 DEF WayInv, Ahead
  <2>4. ASSUME NEW i \in 1 .. L - 1, IsI(toPeer'[i])
        PROVE  /\ Distance(Acked, peerReceive') <= Ahead(toPeer'[i].ns)
               /\ Ahead(toPeer'[i].ns) < Len(sentASDUs)
               /\ sentASDUs[Ahead(toPeer'[i].ns) + 1].asdu = toPeer'[i].asdu
    <3>1. toPeer'[i] = toPeer[i + 1] /\ i + 1 \in 1 .. L /\ IsI(toPeer[i + 1])
      BY <2>1, <2>2, <2>4
    <3>2. /\ p <= Ahead(toPeer'[i].ns)
          /\ Ahead(toPeer'[i].ns) < Len(sentASDUs)
          /\ sentASDUs[Ahead(toPeer'[i].ns) + 1].asdu = toPeer'[i].asdu
      BY <3>1 DEF WayInv
    <3>3. IsI(f) => p < Ahead(toPeer'[i].ns)
      BY <2>1, <2>2, <3>1 DEF WayInv
    <3>4. Ahead(toPeer'[i].ns) \in Nat
      <4>1. toPeer[i + 1] \in Frames /\ \A h \in Frames : IsI(h) => h.ns \in SeqNo
        BY <3>1, Elements DEF Frames, IsI
      <4>2. M \in Nat /\ \A x \in SeqNo : Ahead(x) \in 0 .. M - 1
        BY AckedFacts
      <4> QED BY <3>1, <4>1, <4>2
    <3> QED BY <2>1, <3>2, <3>3, <3>4 DEF Ahead
  <2>5. ASSUME NEW i \in 1 .. L - 1, NEW j \in 1 .. L - 1, IsI(toPeer'[i]), IsI(toPeer'[j]), i < j
        PROVE  Ahead(toPeer'[i].ns) < Ahead(toPeer'[j].ns)
    <3>1. /\ toPeer'[i] = toPeer[i + 1] /\ toPeer'[j] = toPeer[j + 1]
          /\ i + 1 \in 1 .. L /\ j + 1 \in 1 .. L /\ i + 1 < j + 1
      BY <2>1, <2>5
    <3> QED BY <2>5, <3>1 DEF WayInv
  <2> QED BY <2>1, <2>3, <2>4, <2>5 DEF WayInv, Ahead
<1>4. CASE Enqueue \/ PeerSendsI \/ PeerSendsS \/ PeerControls \/ PeerErrs \/ PeerStops
           \/ UNCHANGED vars
  <2>1. UNCHANGED <<toPeer, sentASDUs, sendCount, peerReceive>>
    BY <1>4 DEF Enqueue, PeerSendsI, PeerSendsS, PeerControls, PeerErrs, PeerStops, PeerSends,
                vars, serverVars, peerVars, counters
  <2> QED BY <2>1 DEF WayInv, Ahead, Acked
<1> QED BY <1>2, <1>3, <1>4 DEF Next, PeerStep

-----------------------------------------------------------------------------
(* What the peer received and what the queue still holds.                  *)

DeliveredNext(e) == \E d \in 1 .. Len(delivered') : delivered'[d] = e

(* A message that is read is delivered, and nothing is taken back.         *)
LEMMA DeliveredGrows ==
  ASSUME TypeOK, SequenceNumbers, WayInv, PeerReceives
  PROVE  /\ \A e \in Events : Delivered(e) => DeliveredNext(e)
         /\ IsEvent(toPeer[1]) => DeliveredNext(toPeer[1].asdu)
<1>1. delivered' = IF IsEvent(toPeer[1]) THEN Append(delivered, toPeer[1].asdu) ELSE delivered
  BY PeerReads
<1>2. delivered \in Seq(Events) /\ Len(delivered) \in Nat
  BY Elements DEF TypeOK
<1>3. CASE IsEvent(toPeer[1])
  <2> PICK x \in Events : x = toPeer[1].asdu
    <3>1. toPeer[1] \in Frames /\ \A g \in Frames : IsEvent(g) => g.asdu \in Events
      BY PeerReads, Elements DEF Frames, IsEvent, IsI
    <3> QED BY <1>3, <3>1
  <2>1. /\ Len(delivered') = Len(delivered) + 1 /\ delivered'[Len(delivered) + 1] = x
        /\ \A l \in 1 .. Len(delivered) : delivered'[l] = delivered[l]
    BY <1>1, <1>2, <1>3, AppendProperties
  <2>2. Len(delivered) + 1 \in 1 .. Len(delivered')
    BY <1>2, <2>1
  <2>3. \A l \in 1 .. Len(delivered) : l \in 1 .. Len(delivered')
    BY <1>2, <2>1
  <2> QED BY <2>1, <2>2, <2>3 DEF Delivered, DeliveredNext
<1>4. CASE ~ IsEvent(toPeer[1])
  BY <1>1, <1>4 DEF Delivered, DeliveredNext
<1> QED BY <1>3, <1>4

(* What the k-buffer holds and the peer received was delivered.            *)
LEMMA DeliveredStep ==
  ASSUME TypeOK, SequenceNumbers, NumbersInv, WayInv, StoppedInv, ServerInv, DeliveredInv,
         [Next]_vars
  PROVE  DeliveredInv'
<1>1. TypeOK'
  BY StepType
<1>2. CASE ThreadStep
  <2>1. PICK asdus \in Seq(ASDUs), extra \in 0 .. 2, rel \in 0 .. Len(sentASDUs),
             freed \in 0 .. Len(lowPrioQueue), next \in 0 .. Len(lowPrioQueue) :
          Adds(asdus, extra) /\ Serves(asdus, rel, freed, next)
    BY <1>2, ThreadAdds
  <2>2. rel <= Ahead(peerReceive) /\ Keeps(asdus, rel)
    BY <1>2, <2>1, ReleaseBound DEF Serves
  <2>3. UNCHANGED <<peerReceive, delivered>>
    BY <1>2 DEF ThreadStep, ReceiveMessage, ReceiveNothing, ReceiveI, ReceiveS, RejectMessage,
        ReceiveStartDT, ReceiveStopDT, ReceiveTestFR, ReceiveTestFRCon, ReceiveClose,
        Timeouts, HandleTimeouts, SendWaitingASDUs, SkipSending, EndThread, peerVars, history
  <2>4. /\ Len(sentASDUs) - rel \in Nat /\ Len(sentASDUs) \in Nat
        /\ Distance(Acked', peerReceive) = Ahead(peerReceive) - rel
        /\ Ahead(peerReceive) \in Nat /\ Ahead(peerReceive) <= Len(sentASDUs)
    BY <1>1, <2>1, <2>2, Places, Elements
  <2>5. ASSUME NEW p \in 1 .. Len(sentASDUs'), p <= Distance(Acked', peerReceive),
               sentASDUs'[p].asdu # Reply
        PROVE  Delivered(sentASDUs'[p].asdu)
    <3>1. p \in 1 .. Len(sentASDUs) - rel /\ rel + p \in 1 .. Len(sentASDUs)
          /\ rel + p <= Ahead(peerReceive)
      BY <2>4, <2>5
    <3>2. sentASDUs'[p] = sentASDUs[rel + p]
      BY <2>2, <3>1 DEF Keeps
    <3> QED BY <2>5, <3>1, <3>2 DEF DeliveredInv
  <2> QED BY <2>3, <2>5 DEF DeliveredInv, Ahead, Delivered
<1>3. CASE PeerReceives
  <2> DEFINE f == toPeer[1]
             p == Ahead(peerReceive)
  <2>1. /\ UNCHANGED <<sentASDUs, Acked>> /\ p \in Nat
        /\ IsI(f) => /\ Distance(Acked, peerReceive') = p + 1
                     /\ sentASDUs[p + 1].asdu = f.asdu
        /\ ~ IsI(f) => peerReceive' = peerReceive
    BY <1>3, PeerReads
  <2>2. ASSUME NEW q \in 1 .. Len(sentASDUs), q <= Distance(Acked, peerReceive'),
               sentASDUs[q].asdu # Reply
        PROVE  DeliveredNext(sentASDUs[q].asdu)
    <3>1. CASE q <= p
      <4>1. Delivered(sentASDUs[q].asdu) /\ sentASDUs[q].asdu \in Events
        BY <2>2, <3>1, Elements DEF DeliveredInv, Numbers, ASDUs
      <4> QED BY <1>3, <4>1, DeliveredGrows
    <3>2. CASE ~ (q <= p)
      <4>1. IsI(f)
        BY <2>1, <2>2, <3>2 DEF Ahead
      <4>2. q = p + 1 /\ sentASDUs[q].asdu = f.asdu
        BY <2>1, <2>2, <3>2, <4>1
      <4>3. IsEvent(f)
        BY <2>2, <4>1, <4>2 DEF IsEvent
      <4> QED BY <1>3, <4>2, <4>3, DeliveredGrows
    <3> QED BY <3>1, <3>2
  <2> QED BY <2>1, <2>2 DEF DeliveredInv, Ahead, Delivered, DeliveredNext
<1>4. CASE Enqueue \/ PeerSendsI \/ PeerSendsS \/ PeerControls \/ PeerErrs \/ PeerStops
           \/ UNCHANGED vars
  <2>1. UNCHANGED <<delivered, sentASDUs, sendCount, peerReceive>>
    BY <1>4 DEF Enqueue, PeerSendsI, PeerSendsS, PeerControls, PeerErrs, PeerStops, PeerSends,
                vars, serverVars, peerVars, counters, history
  <2> QED BY <2>1 DEF DeliveredInv, Delivered, Ahead, Acked
<1> QED BY <1>2, <1>3, <1>4 DEF Next, PeerStep

(* The thread leaves what is on its way where it is.                       *)
LEMMA OnTheWayStays ==
  ASSUME TypeOK, NEW asdus \in Seq(ASDUs), NEW extra \in 0 .. 2, Adds(asdus, extra)
  PROVE  \A w \in OnTheWay : w \in OnTheWay' /\ toPeer'[w] = toPeer[w]
<1> SUFFICES ASSUME NEW w \in OnTheWay
             PROVE  w \in OnTheWay' /\ toPeer'[w] = toPeer[w]
  OBVIOUS
<1>1. w \in 1 .. Len(toPeer) /\ IsEvent(toPeer[w]) /\ Len(toPeer) \in Nat
  BY Elements DEF OnTheWay
<1>2. toPeer'[w] = toPeer[w] /\ Len(toPeer) <= Len(toPeer') /\ Len(toPeer') \in Nat
  <2>1. Len(asdus) \in Nat
    BY LenProperties
  <2> QED BY <1>1, <2>1 DEF Adds
<1>3. w \in 1 .. Len(toPeer')
  BY <1>1, <1>2
<1> QED BY <1>1, <1>2, <1>3 DEF OnTheWay

(* The events that were sent stay the front of the queue.                  *)
LEMMA QueueStep ==
  ASSUME TypeOK, SequenceNumbers, WayInv, QueueInv, [Next]_vars
  PROVE  QueueInv'
<1> DEFINE Q == Len(lowPrioQueue)
<1>1. CASE ThreadStep
  <2>1. PICK asdus \in Seq(ASDUs), extra \in 0 .. 2, rel \in 0 .. Len(sentASDUs),
             freed \in 0 .. Len(lowPrioQueue), next \in 0 .. Len(lowPrioQueue) :
          Adds(asdus, extra) /\ Serves(asdus, rel, freed, next)
    BY <1>1, ThreadAdds
  <2>2. UNCHANGED delivered
    BY <1>1 DEF ThreadStep, ReceiveMessage, ReceiveNothing, ReceiveI, ReceiveS, RejectMessage,
        ReceiveStartDT, ReceiveStopDT, ReceiveTestFR, ReceiveTestFRCon, ReceiveClose,
        Timeouts, HandleTimeouts, SendWaitingASDUs, SkipSending, EndThread, history
  <2>3. /\ Q \in Nat /\ Len(asdus) \in Nat /\ Queues(asdus, freed, next)
        /\ Len(lowPrioQueue') = Q - freed
    BY <2>1, Elements, LenProperties DEF Serves, Queues
  <2>4. ASSUME NEW i \in 1 .. Q - freed
        PROVE  /\ freed + i \in 1 .. Q
               /\ lowPrioQueue'[i].event = lowPrioQueue[freed + i].event
               /\ lowPrioQueue'[i].sent <=> (lowPrioQueue[freed + i].sent \/ i = next)
    <3>1. lowPrioQueue'[i] = [event |-> lowPrioQueue[freed + i].event,
                              sent |-> lowPrioQueue[freed + i].sent \/ i = next]
      BY <2>3 DEF Queues
    <3>2. lowPrioQueue'[i].sent = (lowPrioQueue[freed + i].sent \/ i = next)
      BY <3>1
    <3>3. lowPrioQueue'[i].sent <=> (lowPrioQueue[freed + i].sent \/ i = next)
      BY <3>2, Zenon
    <3>4. freed + i \in 1 .. Q /\ lowPrioQueue'[i].event = lowPrioQueue[freed + i].event
      BY <2>3, <3>1
    <3> QED BY <3>3, <3>4
  <2>5. next # 0 => /\ freed = 0 /\ \A j \in 1 .. next - 1 : lowPrioQueue[j].sent
                    /\ Len(asdus) # 0 /\ asdus[Len(asdus)] = lowPrioQueue[next].event
                    /\ next \in 1 .. Q
    BY <2>3 DEF Queues, IsNext
  <2>6. ASSUME NEW i \in 1 .. Q - freed, NEW j \in 1 .. Q - freed, i < j, lowPrioQueue'[j].sent
        PROVE  lowPrioQueue'[i].sent
    <3>1. CASE lowPrioQueue[freed + j].sent
      <4>1. freed + i \in 1 .. Q /\ freed + j \in 1 .. Q /\ freed + i < freed + j
        BY <2>3, <2>4, <2>6
      <4>2. lowPrioQueue[freed + i].sent
        BY <3>1, <4>1 DEF QueueInv
      <4> QED BY <2>4, <4>2
    <3>2. CASE j = next
      <4>1. i \in 1 .. next - 1 /\ freed + i = i
        BY <2>3, <2>5, <2>6, <3>2
      <4>2. lowPrioQueue[i].sent
        BY <2>3, <2>5, <2>6, <3>2, <4>1
      <4> QED BY <2>4, <4>1, <4>2
    <3> QED BY <2>4, <2>6, <3>1, <3>2
  <2>7. ASSUME NEW i \in 1 .. Q - freed, lowPrioQueue'[i].sent
        PROVE  \/ Delivered(lowPrioQueue'[i].event)
               \/ \E w \in OnTheWay' : toPeer'[w].asdu = lowPrioQueue'[i].event
    <3>1. CASE lowPrioQueue[freed + i].sent
      <4>1. \/ Delivered(lowPrioQueue[freed + i].event)
            \/ \E w \in OnTheWay : toPeer[w].asdu = lowPrioQueue[freed + i].event
        BY <2>4, <3>1 DEF QueueInv
      <4>2. \A w \in OnTheWay : w \in OnTheWay' /\ toPeer'[w] = toPeer[w]
        BY <2>1, OnTheWayStays
      <4> QED BY <2>4, <4>1, <4>2
    <3>2. CASE i = next
      <4>1. freed = 0 /\ next # 0 /\ freed + i = next /\ next \in 1 .. Q
        BY <2>3, <2>5, <3>2
      <4> DEFINE w == Len(toPeer) + Len(asdus)
      <4>2. w \in Len(toPeer) + 1 .. Len(toPeer) + Len(asdus) /\ w - Len(toPeer) = Len(asdus)
            /\ Len(toPeer) \in Nat
        BY <2>3, <2>5, <4>1, Elements
      <4>3. /\ toPeer'[w] = IFrame((sendCount + (w - Len(toPeer)) - 1) % M, receiveCount',
                                   asdus[w - Len(toPeer)])
            /\ Len(toPeer') = Len(toPeer) + Len(asdus) + extra
        BY <2>1, <4>2, AddedNumbers
      <4>4. IsI(toPeer'[w]) /\ toPeer'[w].asdu = lowPrioQueue[next].event
        BY <2>5, <4>1, <4>2, <4>3 DEF IFrame, IsI
      <4>5. lowPrioQueue[next].event # Reply
        BY <4>1, Elements DEF Entries, Events, Reply
      <4>6. w \in 1 .. Len(toPeer')
        BY <2>3, <4>2, <4>3
      <4> HIDE DEF w
      <4>7. w \in OnTheWay'
        BY <4>4, <4>5, <4>6 DEF OnTheWay, IsEvent
      <4>8. lowPrioQueue'[i].event = lowPrioQueue[next].event
        BY <2>4, <4>1
      <4> QED BY <4>4, <4>7, <4>8
    <3> QED BY <2>4, <2>7, <3>1, <3>2
  <2> QED BY <2>2, <2>3, <2>6, <2>7 DEF QueueInv, Delivered
<1>2. CASE PeerReceives
  <2> DEFINE L == Len(toPeer)
  <2>1. /\ L \in Nat \ {0} /\ Len(toPeer') = L - 1
        /\ \A i \in 1 .. L - 1 : toPeer'[i] = toPeer[i + 1]
        /\ UNCHANGED lowPrioQueue
    BY <1>2, PeerReads
  <2>2. ASSUME NEW i \in 1 .. Q, lowPrioQueue[i].sent
        PROVE  \/ DeliveredNext(lowPrioQueue[i].event)
               \/ \E w \in OnTheWay' : toPeer'[w].asdu = lowPrioQueue[i].event
    <3>1. lowPrioQueue[i].event \in Events
      BY <2>2, Elements DEF Entries
    <3>2. CASE Delivered(lowPrioQueue[i].event)
      BY <1>2, <3>1, <3>2, DeliveredGrows
    <3>3. CASE \E w \in OnTheWay : toPeer[w].asdu = lowPrioQueue[i].event
      <4>1. PICK w \in OnTheWay : toPeer[w].asdu = lowPrioQueue[i].event
        BY <3>3
      <4>2. w \in 1 .. L /\ IsEvent(toPeer[w])
        BY DEF OnTheWay
      <4>3. CASE w = 1
        BY <1>2, <4>1, <4>2, <4>3, DeliveredGrows
      <4>4. CASE w # 1
        <5>1. w - 1 \in 1 .. L - 1 /\ w - 1 + 1 = w
          BY <2>1, <4>2, <4>4
        <5>2. toPeer'[w - 1] = toPeer[w - 1 + 1]
          BY <2>1, <5>1
        <5>3. w - 1 \in OnTheWay' /\ toPeer'[w - 1] = toPeer[w]
          BY <2>1, <4>2, <5>1, <5>2 DEF OnTheWay
        <5> QED BY <4>1, <5>3
      <4> QED BY <4>3, <4>4
    <3> QED BY <2>2, <3>2, <3>3 DEF QueueInv
  <2> QED BY <2>1, <2>2 DEF QueueInv, Delivered, DeliveredNext
<1>3. CASE Enqueue
  <2>1. UNCHANGED <<toPeer, delivered>>
    BY <1>3 DEF Enqueue
  <2>2. PICK dropped \in {0, 1} :
          LET kept == Len(lowPrioQueue) - dropped
          IN  /\ kept \in Nat /\ Len(lowPrioQueue') = kept + 1
              /\ \A i \in 1 .. kept : lowPrioQueue'[i] = lowPrioQueue[i + dropped]
              /\ lowPrioQueue'[kept + 1] = [event |-> produced + 1, sent |-> FALSE]
    BY <1>3, EnqueueType
  <2>3. PICK kept \in Nat : kept = Len(lowPrioQueue) - dropped
    BY <2>2
  <2>4. /\ Q \in Nat /\ Len(lowPrioQueue') = kept + 1 /\ ~ lowPrioQueue'[kept + 1].sent
        /\ \A i \in 1 .. kept :
             lowPrioQueue'[i] = lowPrioQueue[i + dropped] /\ i + dropped \in 1 .. Q
    <3>1. Q \in Nat /\ \A i \in 1 .. kept : i + dropped \in 1 .. Q
      BY <2>3, Elements
    <3>2. /\ Len(lowPrioQueue') = kept + 1
          /\ \A i \in 1 .. kept : lowPrioQueue'[i] = lowPrioQueue[i + dropped]
          /\ lowPrioQueue'[kept + 1] = [event |-> produced + 1, sent |-> FALSE]
      BY <2>2, <2>3
    <3> QED BY <3>1, <3>2
  <2>5. \A i \in 1 .. kept + 1 : lowPrioQueue'[i].sent => i \in 1 .. kept
    BY <2>4
  <2>6. OnTheWay' = OnTheWay
    BY <2>1 DEF OnTheWay
  <2>7. ASSUME NEW i \in 1 .. kept + 1, NEW j \in 1 .. kept + 1, i < j, lowPrioQueue'[j].sent
        PROVE  lowPrioQueue'[i].sent
    <3>1. i \in 1 .. kept /\ j \in 1 .. kept
      BY <2>5, <2>7
    <3>2. i + dropped < j + dropped /\ i + dropped \in 1 .. Q /\ j + dropped \in 1 .. Q
          /\ lowPrioQueue[j + dropped].sent
      BY <2>4, <2>7, <3>1
    <3>3. lowPrioQueue[i + dropped].sent
      BY <3>2 DEF QueueInv
    <3> QED BY <2>4, <3>1, <3>3
  <2>8. ASSUME NEW i \in 1 .. kept + 1, lowPrioQueue'[i].sent
        PROVE  \/ Delivered(lowPrioQueue'[i].event)
               \/ \E w \in OnTheWay : toPeer[w].asdu = lowPrioQueue'[i].event
    <3>1. i \in 1 .. kept
      BY <2>5, <2>8
    <3>2. lowPrioQueue'[i] = lowPrioQueue[i + dropped] /\ i + dropped \in 1 .. Q
      BY <2>4, <3>1
    <3> QED BY <2>8, <3>2 DEF QueueInv
  <2> QED BY <2>1, <2>4, <2>6, <2>7, <2>8 DEF QueueInv, Delivered
<1>4. CASE PeerSendsI \/ PeerSendsS \/ PeerControls \/ PeerErrs \/ PeerStops \/ UNCHANGED vars
  <2>1. UNCHANGED <<lowPrioQueue, toPeer, delivered>>
    BY <1>4 DEF PeerSendsI, PeerSendsS, PeerControls, PeerErrs, PeerStops,
                vars, serverVars, queues, history
  <2> QED BY <2>1 DEF QueueInv, Delivered, OnTheWay
<1> QED BY <1>1, <1>2, <1>3, <1>4 DEF Next, PeerStep

(* An event that left the queue too soon is still on its way to the peer.  *)
Excused(e) == Mistakable(e) /\ \E w \in OnTheWay : toPeer[w].asdu = e

(* Only a new event gets a slot and a time stamp.                          *)
LEMMA MarksStay ==
  ASSUME TypeOK, [Next]_vars
  PROVE  /\ ~ Enqueue => UNCHANGED <<marks, produced>>
         /\ \A g \in 1 .. produced : marks'[g] = marks[g] /\ g \in 1 .. produced'
<1>1. CASE ThreadStep
  <2>1. UNCHANGED <<marks, produced>>
    BY <1>1 DEF ThreadStep, ReceiveMessage, ReceiveNothing, ReceiveI, ReceiveS, RejectMessage,
        ReceiveStartDT, ReceiveStopDT, ReceiveTestFR, ReceiveTestFRCon, ReceiveClose,
        Timeouts, HandleTimeouts, SendWaitingASDUs, SkipSending, EndThread, history, queues
  <2> QED BY <2>1
<1>2. CASE PeerStep \/ UNCHANGED vars
  <2>1. UNCHANGED <<marks, produced>>
    BY <1>2 DEF PeerStep, PeerReceives, PeerSendsI, PeerSendsS, PeerControls, PeerErrs,
                PeerStops, vars, serverVars, queues, history
  <2> QED BY <2>1
<1>3. CASE Enqueue
  <2>1. PICK now \in Times : marks' = Append(marks, [slot |-> NextSlot, time |-> now])
    BY <1>3 DEF Enqueue
  <2>2. marks \in Seq(Marks) /\ Len(marks) = produced /\ produced \in Nat /\ TypeOK'
    BY StepType, EnqueueType, <1>3 DEF TypeOK, Marks
  <2>3. \A g \in 1 .. produced : marks'[g] = marks[g]
    BY <2>1, <2>2 DEF Marks
  <2>4. \A g \in 1 .. produced : g \in 1 .. produced'
    BY <1>3, <2>2, EnqueueType
  <2> QED BY <1>3, <2>3, <2>4
<1> QED BY <1>1, <1>2, <1>3 DEF Next

(* An event stays mistakable.                                              *)
LEMMA MistakableStays ==
  ASSUME TypeOK, [Next]_vars, NEW e \in 1 .. produced, Mistakable(e)
  PROVE  Mistakable(e)'
<1>1. PICK f \in e .. produced, g \in 1 .. produced : g # f /\ marks[g] = marks[f]
  BY DEF Mistakable
<1>2. f \in 1 .. produced /\ f >= e /\ f \in Int /\ e \in Int
  BY <1>1 DEF TypeOK
<1>3. /\ marks'[g] = marks[g] /\ marks'[f] = marks[f]
      /\ g \in 1 .. produced' /\ f \in 1 .. produced'
  BY <1>2, MarksStay
<1>4. f \in e .. produced'
  BY <1>2, <1>3
<1> QED BY <1>1, <1>3, <1>4 DEF Mistakable

(* What leaves the queue was delivered or overwritten, or is on its way.   *)
LEMMA LostStep ==
  ASSUME TypeOK, SequenceNumbers, NumbersInv, OrderInv, WayInv, StoppedInv, ServerInv,
         DeliveredInv, QueueInv, NothingLost, [Next]_vars
  PROVE  NothingLost'
<1> DEFINE Q == Len(lowPrioQueue)
           Queued(e) == \E i \in 1 .. Q : lowPrioQueue[i].event = e
<1>0. Q \in Nat /\ produced \in 0 .. MaxEvents /\ MaxEvents \in Nat
  BY Elements, ConnectionBoundsAssumption DEF TypeOK
<1>1. CASE ThreadStep
  <2>1. PICK asdus \in Seq(ASDUs), extra \in 0 .. 2, rel \in 0 .. Len(sentASDUs),
             freed \in 0 .. Len(lowPrioQueue), next \in 0 .. Len(lowPrioQueue) :
          Adds(asdus, extra) /\ Serves(asdus, rel, freed, next)
    BY <1>1, ThreadAdds
  <2>2. UNCHANGED <<delivered, produced, overwritten>> /\ pc # "closed"
    BY <1>1 DEF ThreadStep, ReceiveMessage, ReceiveNothing, ReceiveI, ReceiveS, RejectMessage,
        ReceiveStartDT, ReceiveStopDT, ReceiveTestFR, ReceiveTestFRCon, ReceiveClose, Receives,
        Timeouts, HandleTimeouts, SendWaitingASDUs, SkipSending, EndThread, history
  <2>3. Queues(asdus, freed, next) /\ Len(lowPrioQueue') = Q - freed
    BY <2>1 DEF Serves, Queues
  <2>4. ASSUME NEW n \in 1 .. Q, n <= freed, pc' # "closed"
        PROVE  Delivered(lowPrioQueue[n].event) \/ Excused(lowPrioQueue[n].event)
    <3>1. Accepts
      <4>1. freed # 0
        BY <1>0, <2>4
      <4> QED BY <2>1, <2>4, <4>1 DEF Serves
    <3> DEFINE nr == Head(toServer).nr
    <3>2. rel = Released(nr) /\ freed \in Confirmed(nr)
      BY <1>0, <2>1, <2>4, <3>1 DEF Serves
    <3>3. PICK q \in 1 .. rel : /\ sentASDUs[q].asdu # Reply
                               /\ marks[sentASDUs[q].asdu] = marks[lowPrioQueue[freed].event]
      BY <3>2 DEF Confirmed
    <3>4. freed \in 1 .. Q /\ lowPrioQueue[freed].sent
      BY <3>2 DEF Confirmed
    <3>5. /\ \A i \in 1 .. Q : lowPrioQueue[i].event \in Events /\ lowPrioQueue[i].event # Reply
          /\ \A i \in 1 .. Q : lowPrioQueue[i].event \in Nat
      <4>1. \A i \in 1 .. Q : lowPrioQueue[i].event \in Events
        BY Elements
      <4> QED BY <4>1 DEF Events, Reply
    <3>6. Delivered(sentASDUs[q].asdu)
      <4>1. rel <= Ahead(peerReceive) /\ Ahead(peerReceive) \in Nat /\ Len(sentASDUs) \in Nat
        <5>1. M \in Nat /\ peerReceive \in SeqNo /\ \A x \in SeqNo : Ahead(x) \in 0 .. M - 1
          BY AckedFacts DEF TypeOK
        <5> QED BY <1>1, <2>1, <5>1, ReleaseBound, Elements
      <4>2. q \in 1 .. Len(sentASDUs) /\ q <= Ahead(peerReceive)
        BY <4>1
      <4> QED BY <3>3, <4>2 DEF DeliveredInv
    <3>7. /\ lowPrioQueue[n].sent
          /\ n # freed => lowPrioQueue[n].event < lowPrioQueue[freed].event
      <4>1. CASE n = freed
        BY <3>4, <4>1
      <4>2. CASE n # freed
        <5>1. n < freed
          BY <1>0, <2>4, <3>4, <4>2
        <5> QED BY <3>4, <5>1 DEF OrderInv, QueueInv
      <4> QED BY <4>1, <4>2
    <3>8. CASE sentASDUs[q].asdu = lowPrioQueue[freed].event
      <4>1. CASE n = freed
        BY <3>6, <3>8, <4>1
      <4>2. CASE n # freed
        <5>1. CASE \E w \in OnTheWay : toPeer[w].asdu = lowPrioQueue[n].event
          <6>1. PICK w \in OnTheWay : toPeer[w].asdu = lowPrioQueue[n].event
            BY <5>1
          <6>2. PICK d \in 1 .. Len(delivered) : delivered[d] = lowPrioQueue[freed].event
            BY <3>6, <3>8 DEF Delivered
          <6>3. delivered[d] < toPeer[w].asdu
            BY DEF OrderInv, InOrder
          <6> QED BY <3>4, <3>5, <3>7, <4>2, <6>1, <6>2, <6>3
        <5> QED BY <3>7, <5>1 DEF QueueInv
      <4> QED BY <4>1, <4>2
    <3>9. CASE sentASDUs[q].asdu # lowPrioQueue[freed].event
      <4>1. sentASDUs[q].asdu \in 1 .. produced
        <5>1. PICK d \in 1 .. Len(delivered) : delivered[d] = sentASDUs[q].asdu
          BY <3>6 DEF Delivered
        <5>2. delivered[d] \in Events /\ delivered[d] <= produced
          BY Elements DEF OrderInv
        <5> QED BY <1>0, <5>1, <5>2 DEF Events
      <4>2. lowPrioQueue[freed].event \in lowPrioQueue[n].event .. produced
        BY <1>0, <3>4, <3>5, <3>7 DEF OrderInv
      <4>3. Mistakable(lowPrioQueue[n].event)
        BY <3>3, <3>9, <4>1, <4>2 DEF Mistakable
      <4> QED BY <3>7, <4>3 DEF QueueInv, Excused
    <3> QED BY <3>8, <3>9
  <2>6. ASSUME NEW e \in 1 .. produced, Excused(e)
        PROVE  Excused(e)'
    <3>1. Mistakable(e)'
      BY <2>6, MistakableStays DEF Excused
    <3>2. PICK w \in OnTheWay : toPeer[w].asdu = e
      BY <2>6 DEF Excused
    <3>3. w \in OnTheWay' /\ toPeer'[w] = toPeer[w]
      BY <2>1, OnTheWayStays
    <3> QED BY <3>1, <3>2, <3>3 DEF Excused
  <2>5. ASSUME pc' # "closed", NEW e \in 1 .. produced
        PROVE  \/ \E n \in 1 .. Len(lowPrioQueue') : lowPrioQueue'[n].event = e
               \/ Delivered(e) \/ e \in overwritten \/ Excused(e)'
    <3>1. CASE Queued(e)
      <4>1. PICK n \in 1 .. Q : lowPrioQueue[n].event = e
        BY <3>1
      <4>2. CASE n <= freed
        BY <2>4, <2>5, <2>6, <4>1, <4>2
      <4>3. CASE ~ (n <= freed)
        <5>1. n - freed \in 1 .. Q - freed /\ freed + (n - freed) = n
          BY <1>0, <4>3
        <5>2. lowPrioQueue'[n - freed] =
                [event |-> lowPrioQueue[freed + (n - freed)].event,
                 sent |-> lowPrioQueue[freed + (n - freed)].sent \/ (n - freed) = next]
          BY <2>3, <5>1 DEF Queues
        <5>3. lowPrioQueue'[n - freed].event = e
          BY <4>1, <5>1, <5>2
        <5> QED BY <2>3, <5>1, <5>3
      <4> QED BY <4>2, <4>3
    <3>2. CASE ~ Queued(e)
      BY <2>2, <2>5, <2>6, <3>2 DEF NothingLost, Delivered, Excused
    <3> QED BY <3>1, <3>2
  <2> QED BY <2>2, <2>5 DEF NothingLost, Delivered, Excused
<1>2. CASE PeerReceives
  <2>1. UNCHANGED <<lowPrioQueue, pc, produced, overwritten>>
    BY <1>2, PeerReads
  <2>2. \A e \in Events : Delivered(e) => DeliveredNext(e)
    BY <1>2, DeliveredGrows
  <2>3. \A e \in 1 .. produced : e \in Events
    BY <1>0 DEF Events
  <2>4. ASSUME NEW e \in 1 .. produced, Excused(e)
        PROVE  DeliveredNext(e) \/ Excused(e)'
    <3>1. Mistakable(e)'
      BY <2>4, MistakableStays DEF Excused
    <3>2. PICK w \in OnTheWay : toPeer[w].asdu = e
      BY <2>4 DEF Excused
    <3>3. /\ Len(toPeer) \in Nat \ {0} /\ Len(toPeer') = Len(toPeer) - 1
          /\ \A i \in 1 .. Len(toPeer) - 1 : toPeer'[i] = toPeer[i + 1]
      BY <1>2, PeerReads
    <3>4. w \in 1 .. Len(toPeer) /\ IsEvent(toPeer[w])
      BY DEF OnTheWay
    <3>5. CASE w = 1
      BY <1>2, <3>2, <3>4, <3>5, DeliveredGrows
    <3>6. CASE w # 1
      <4>1. w - 1 \in 1 .. Len(toPeer) - 1 /\ w - 1 + 1 = w
        BY <3>3, <3>4, <3>6
      <4>2. w - 1 \in OnTheWay' /\ toPeer'[w - 1] = toPeer[w]
        BY <3>3, <3>4, <4>1 DEF OnTheWay
      <4> QED BY <3>1, <3>2, <4>2 DEF Excused
    <3> QED BY <3>5, <3>6
  <2> QED BY <2>1, <2>2, <2>3, <2>4 DEF NothingLost, Delivered, DeliveredNext, Excused
<1>3. CASE Enqueue
  <2>1. UNCHANGED delivered /\ pc # "closed" /\ produced' = produced + 1
    BY <1>3, EnqueueType DEF Enqueue
  <2>2. PICK dropped \in {0, 1} :
          LET kept == Len(lowPrioQueue) - dropped
          IN  /\ kept \in Nat /\ Len(lowPrioQueue') = kept + 1
              /\ \A i \in 1 .. kept : lowPrioQueue'[i] = lowPrioQueue[i + dropped]
              /\ lowPrioQueue'[kept + 1] = [event |-> produced + 1, sent |-> FALSE]
              /\ overwritten' = overwritten \union {lowPrioQueue[i].event : i \in 1 .. dropped}
    BY <1>3, EnqueueType
  <2>3. PICK kept \in Nat : kept = Len(lowPrioQueue) - dropped
    BY <2>2
  <2>4. /\ Len(lowPrioQueue') = kept + 1 /\ lowPrioQueue'[kept + 1].event = produced + 1
        /\ \A i \in 1 .. kept : lowPrioQueue'[i] = lowPrioQueue[i + dropped]
        /\ overwritten' = overwritten \union {lowPrioQueue[i].event : i \in 1 .. dropped}
    <3>1. /\ Len(lowPrioQueue') = kept + 1
          /\ lowPrioQueue'[kept + 1] = [event |-> produced + 1, sent |-> FALSE]
          /\ \A i \in 1 .. kept : lowPrioQueue'[i] = lowPrioQueue[i + dropped]
          /\ overwritten' = overwritten \union {lowPrioQueue[i].event : i \in 1 .. dropped}
      BY <2>2, <2>3
    <3> QED BY <3>1
  <2>5. ASSUME NEW e \in 1 .. produced + 1
        PROVE  \/ \E n \in 1 .. Len(lowPrioQueue') : lowPrioQueue'[n].event = e
               \/ Delivered(e) \/ e \in overwritten' \/ Excused(e)'
    <3>1. CASE e = produced + 1
      <4>1. kept + 1 \in 1 .. Len(lowPrioQueue')
        BY <2>3, <2>4
      <4> QED BY <2>4, <3>1, <4>1
    <3>2. CASE e # produced + 1 /\ Queued(e)
      <4>1. PICK n \in 1 .. Q : lowPrioQueue[n].event = e
        BY <3>2
      <4>2. CASE n \in 1 .. dropped
        BY <2>4, <4>1, <4>2
      <4>3. CASE n \notin 1 .. dropped
        <5>1. n - dropped \in 1 .. kept /\ n - dropped + dropped = n
          BY <1>0, <2>3, <4>3
        <5>2. lowPrioQueue'[n - dropped] = lowPrioQueue[n - dropped + dropped]
          BY <2>4, <5>1
        <5>3. n - dropped \in 1 .. Len(lowPrioQueue')
          BY <2>3, <2>4, <5>1
        <5> QED BY <4>1, <5>1, <5>2, <5>3
      <4> QED BY <4>2, <4>3
    <3>3. CASE e # produced + 1 /\ ~ Queued(e)
      <4>1. e \in 1 .. produced
        BY <1>0, <3>3
      <4>2. Delivered(e) \/ e \in overwritten \/ Excused(e)
        BY <2>1, <3>3, <4>1 DEF NothingLost, Delivered, Excused
      <4>3. Excused(e) => Excused(e)'
        <5>1. Mistakable(e) => Mistakable(e)'
          BY <4>1, MistakableStays
        <5>2. UNCHANGED toPeer
          BY <1>3 DEF Enqueue
        <5> QED BY <5>1, <5>2 DEF Excused, OnTheWay
      <4> QED BY <2>4, <4>2, <4>3
    <3> QED BY <3>1, <3>2, <3>3
  <2> QED BY <2>1, <2>5 DEF NothingLost, Delivered, Excused
<1>4. CASE PeerSendsI \/ PeerSendsS \/ PeerControls \/ PeerErrs \/ PeerStops \/ UNCHANGED vars
  <2>1. UNCHANGED <<pc, lowPrioQueue, delivered, produced, overwritten, marks, toPeer>>
    BY <1>4 DEF PeerSendsI, PeerSendsS, PeerControls, PeerErrs, PeerStops,
                vars, serverVars, queues, history
  <2> QED BY <2>1 DEF NothingLost, Mistakable, OnTheWay
<1> QED BY <1>1, <1>2, <1>3, <1>4 DEF Next, PeerStep

-----------------------------------------------------------------------------
(* Messages to the server.                                                 *)

(* The peer adds a message without a number, or receives.                  *)
LEMMA ConformsWithU ==
  ASSUME NEW frames \in Seq(Frames), NEW expected \in SeqNo, NEW acked \in SeqNo,
         NEW ok \in BOOLEAN, NEW send \in SeqNo, NEW received \in SeqNo, NEW ackSent \in SeqNo,
         NEW g \in 0 .. Len(frames),
         Conforms(g, frames, expected, acked, ok, send, received, ackSent),
         NEW f \in Frames, ~ IsNumbered(f), NEW later \in SeqNo,
         Distance(acked, received) <= Distance(acked, later)
  PROVE  /\ Conforms(g, frames, expected, acked, ok, send, later, ackSent)
         /\ \E h \in 0 .. Len(Append(frames, f)) :
              Conforms(h, Append(frames, f), expected, acked, ok, send, later, ackSent)
<1> DEFINE L == Len(frames)
           more == Append(frames, f)
<1>1. /\ L \in Nat /\ Len(more) = L + 1 /\ more[L + 1] = f
      /\ \A i \in 1 .. L : more[i] = frames[i]
  BY AppendedType, LenProperties
<1>2. ~ IsI(f) /\ M \in Nat
  BY Modulo DEF IsNumbered, IsI
<1>3. /\ Distance(acked, received) \in Nat /\ Distance(acked, later) \in Nat
      /\ Distance(acked, ackSent) \in Nat
  <2>1. \A x \in SeqNo : Distance(acked, x) \in 0 .. M - 1
    BY Distances
  <2> QED BY <1>2, <2>1
<1>4. Conforms(g, frames, expected, acked, ok, send, later, ackSent)
  BY <1>3 DEF Conforms
<1> HIDE DEF more, L
<1>5. \A n \in 0 .. L : After(more, expected, n) = After(frames, expected, n)
  <2> TAKE n \in 0 .. L
  <2>1. n \in Nat /\ \A i \in 1 .. n : more[i] = frames[i]
    BY <1>1
  <2> QED BY <2>1, AfterSame
<1>6. CASE ok
  <2>1. g = L
    BY <1>6 DEF Conforms, L
  <2>2. After(more, expected, L + 1) = After(more, expected, L)
    <3>1. L + 1 \in Nat /\ L <= L + 1 /\ \A m \in L + 1 .. L + 1 : ~ IsI(more[m])
      BY <1>1, <1>2
    <3> QED BY <1>1, <3>1, AfterNone
  <2>3. After(more, expected, L + 1) = send
    BY <1>1, <1>5, <2>1, <2>2 DEF Conforms
  <2>4. \A i \in 1 .. L + 1 : IsNumbered(more[i]) => i \in 1 .. L /\ more[i] = frames[i]
    BY <1>1
  <2>5. \A i \in 1 .. L + 1 : IsI(more[i]) => IsNumbered(more[i])
    BY DEF IsI, IsNumbered
  <2>6. \A i \in 1 .. L + 1 : IsI(more[i]) => more[i].ns = After(more, expected, i - 1)
    <3> SUFFICES ASSUME NEW i \in 1 .. L + 1, IsI(more[i])
                 PROVE  more[i].ns = After(more, expected, i - 1)
      OBVIOUS
    <3>1. i \in 1 .. L /\ more[i] = frames[i] /\ i - 1 \in 0 .. L
      BY <1>1, <2>4, <2>5
    <3>2. frames[i].ns = After(frames, expected, i - 1)
      BY <1>4, <2>1, <3>1 DEF Conforms
    <3> QED BY <1>5, <3>1, <3>2
  <2>7. \A i \in 1 .. L : i \in 1 .. L + 1
    BY <1>1
  <2>8. Conforms(L + 1, more, expected, acked, ok, send, later, ackSent)
    <3>1. /\ Distance(acked, ackSent) <= Distance(acked, later)
          /\ \A i \in 1 .. L + 1 :
               IsNumbered(more[i]) => Distance(acked, more[i].nr) <= Distance(acked, ackSent)
          /\ \A i, j \in 1 .. L + 1 : IsNumbered(more[i]) /\ IsNumbered(more[j]) /\ i < j
                            => Distance(acked, more[i].nr) <= Distance(acked, more[j].nr)
      BY <1>4, <2>1, <2>4 DEF Conforms
    <3>2. \/ Distance(acked, ackSent) = 0
          \/ \E i \in 1 .. L + 1 : IsNumbered(more[i]) /\ more[i].nr = ackSent
      BY <1>1, <1>4, <2>1, <2>7 DEF Conforms
    <3> QED BY <1>1, <1>6, <2>3, <2>6, <3>1, <3>2 DEF Conforms
  <2> QED BY <1>1, <1>4, <2>8 DEF more
<1>7. CASE ~ ok
  <2>1. /\ g < L /\ IsWrong(frames[g + 1], send, ackSent)
        /\ \A i \in g + 2 .. L : ~ IsNumbered(frames[i])
    BY <1>7 DEF Conforms, L
  <2>2. g + 1 \in 1 .. L /\ g < L + 1
        /\ \A i \in g + 2 .. L + 1 : (i \in 1 .. L /\ i \in g + 2 .. L) \/ i = L + 1
    BY <1>1, <2>1
  <2>3. \A i \in g + 2 .. L + 1 : ~ IsNumbered(more[i])
    BY <1>1, <2>1, <2>2
  <2>4. \A i \in 1 .. g : i \in 1 .. L /\ more[i] = frames[i] /\ i - 1 \in 0 .. L
    BY <1>1, <2>1
  <2>5. g \in 0 .. L /\ g \in 0 .. L + 1
    BY <1>1, <2>1 DEF L
  <2>6. Conforms(g, more, expected, acked, ok, send, later, ackSent)
    <3>1. /\ \A i \in 1 .. g : IsI(more[i]) => more[i].ns = After(more, expected, i - 1)
          /\ After(more, expected, g) = send
      BY <1>4, <1>5, <2>4, <2>5 DEF Conforms
    <3>2. /\ Distance(acked, ackSent) <= Distance(acked, later)
          /\ \A i \in 1 .. g :
               IsNumbered(more[i]) => Distance(acked, more[i].nr) <= Distance(acked, ackSent)
          /\ \A i, j \in 1 .. g : IsNumbered(more[i]) /\ IsNumbered(more[j]) /\ i < j
                            => Distance(acked, more[i].nr) <= Distance(acked, more[j].nr)
          /\ \/ Distance(acked, ackSent) = 0
             \/ \E i \in 1 .. g : IsNumbered(more[i]) /\ more[i].nr = ackSent
      BY <1>4, <2>4 DEF Conforms
    <3>3. g < Len(more) /\ IsWrong(more[g + 1], send, ackSent)
          /\ \A i \in g + 2 .. Len(more) : ~ IsNumbered(more[i])
      BY <1>1, <2>1, <2>2, <2>3
    <3> QED BY <1>7, <3>1, <3>2, <3>3 DEF Conforms
  <2> QED BY <1>1, <1>4, <2>5, <2>6 DEF more
<1> QED BY <1>6, <1>7

(* The peer adds a numbered message with its next number and an            *)
(* acknowledgement of all it received.                                     *)
LEMMA ConformsWithNumbered ==
  ASSUME NEW frames \in Seq(Frames), NEW expected \in SeqNo, NEW acked \in SeqNo,
         NEW send \in SeqNo, NEW received \in SeqNo, NEW ackSent \in SeqNo,
         Conforms(Len(frames), frames, expected, acked, TRUE, send, received, ackSent),
         NEW f \in Frames, IsNumbered(f), f.nr = received, IsI(f) => f.ns = send,
         NEW send2, send2 = IF IsI(f) THEN Succ(send) ELSE send
  PROVE  /\ Len(Append(frames, f)) \in Nat
         /\ Conforms(Len(Append(frames, f)), Append(frames, f), expected, acked, TRUE, send2,
                     received, received)
<1> DEFINE L == Len(frames)
           more == Append(frames, f)
<1>1. /\ L \in Nat /\ Len(more) = L + 1 /\ more[L + 1] = f
      /\ \A i \in 1 .. L : more[i] = frames[i] /\ frames[i] \in Frames
  <2>1. \A i \in 1 .. L : frames[i] \in Frames
    <3> HIDE DEF Frames
    <3> QED BY ElementOfSeq
  <2> QED BY <2>1, AppendedType, LenProperties
<1>2. \A x \in SeqNo : Distance(acked, x) \in Int
  <2>1. M \in Nat /\ \A x \in SeqNo : Distance(acked, x) \in 0 .. M - 1
    BY Distances, Modulo
  <2> QED BY <2>1
<1>3. \A h \in Frames : IsNumbered(h) => h.nr \in SeqNo
  BY DEF Frames, IsNumbered
<1>4. Conforms(L, frames, expected, acked, TRUE, send, received, ackSent)
  OBVIOUS
<1> HIDE DEF more, L
<1>5. \A n \in 0 .. L : After(more, expected, n) = After(frames, expected, n)
  <2> TAKE n \in 0 .. L
  <2>1. n \in Nat /\ \A i \in 1 .. n : more[i] = frames[i]
    BY <1>1
  <2> QED BY <2>1, AfterSame
<1>6. After(more, expected, L) = send
  BY <1>1, <1>4, <1>5 DEF Conforms
<1>7. After(more, expected, L + 1) = send2
  <2>1. CASE IsI(f)
    <3>1. L + 1 \in 1 .. L + 1 /\ L + 1 \in Nat /\ \A m \in L + 1 + 1 .. L + 1 : FALSE
      BY <1>1
    <3> QED BY <1>1, <2>1, <3>1, AfterIs
  <2>2. CASE ~ IsI(f)
    <3>1. L + 1 \in Nat /\ L <= L + 1 /\ \A m \in L + 1 .. L + 1 : ~ IsI(more[m])
      BY <1>1, <2>2
    <3>2. After(more, expected, L + 1) = After(more, expected, L)
      BY <1>1, <3>1, AfterNone
    <3> QED BY <1>6, <2>2, <3>2
  <2> QED BY <2>1, <2>2
<1>8. \A i \in 1 .. L + 1 : i \in 1 .. L \/ i = L + 1
  BY <1>1
<1>9. ASSUME NEW i \in 1 .. L + 1, IsI(more[i])
      PROVE  more[i].ns = After(more, expected, i - 1)
  <2>1. CASE i \in 1 .. L
    <3>1. i - 1 \in 0 .. L /\ more[i] = frames[i]
      BY <1>1, <2>1
    <3> QED BY <1>4, <1>5, <1>9, <2>1, <3>1 DEF Conforms
  <2>2. CASE i = L + 1
    <3>1. i - 1 = L
      BY <1>1, <2>2
    <3> QED BY <1>1, <1>6, <1>9, <2>2, <3>1
  <2> QED BY <1>8, <2>1, <2>2
<1>10. ASSUME NEW i \in 1 .. L, IsNumbered(more[i])
       PROVE  /\ frames[i] = more[i] /\ more[i].nr \in SeqNo
              /\ Distance(acked, more[i].nr) <= Distance(acked, received)
  <2>1. frames[i] = more[i] /\ more[i].nr \in SeqNo
    BY <1>1, <1>3, <1>10
  <2>2. /\ Distance(acked, more[i].nr) <= Distance(acked, ackSent)
        /\ Distance(acked, ackSent) <= Distance(acked, received)
    BY <1>4, <1>10, <2>1 DEF Conforms
  <2>3. /\ Distance(acked, more[i].nr) \in Int /\ Distance(acked, ackSent) \in Int
        /\ Distance(acked, received) \in Int
    BY <1>2, <2>1
  <2> QED BY <2>1, <2>2, <2>3
<1>11. Distance(acked, received) <= Distance(acked, received)
  BY <1>2
<1>12. \A i \in 1 .. L + 1 :
         IsNumbered(more[i]) => Distance(acked, more[i].nr) <= Distance(acked, received)
  BY <1>1, <1>8, <1>10, <1>11
<1>13. ASSUME NEW i \in 1 .. L + 1, NEW j \in 1 .. L + 1,
              IsNumbered(more[i]), IsNumbered(more[j]), i < j
       PROVE  Distance(acked, more[i].nr) <= Distance(acked, more[j].nr)
  <2>1. i \in 1 .. L
    BY <1>1, <1>13
  <2>2. CASE j \in 1 .. L
    BY <1>4, <1>10, <1>13, <2>1, <2>2 DEF Conforms
  <2>3. CASE j = L + 1
    BY <1>1, <1>10, <1>13, <2>1, <2>3
  <2> QED BY <1>8, <2>2, <2>3
<1>14. \E i \in 1 .. L + 1 : IsNumbered(more[i]) /\ more[i].nr = received
  <2>1. L + 1 \in 1 .. L + 1
    BY <1>1
  <2> QED BY <1>1, <2>1
<1>15. Conforms(L + 1, more, expected, acked, TRUE, send2, received, received)
  BY <1>1, <1>7, <1>9, <1>11, <1>12, <1>13, <1>14 DEF Conforms
<1>16. L + 1 \in Nat
  BY <1>1
<1> QED BY <1>1, <1>15, <1>16 DEF more

(* The peer errs.                                                          *)
LEMMA ConformsUpToWrong ==
  ASSUME NEW frames \in Seq(Frames), NEW expected, NEW acked,
         NEW send, NEW received, NEW ackSent,
         Conforms(Len(frames), frames, expected, acked, TRUE, send, received, ackSent),
         NEW f \in Frames, IsWrong(f, send, ackSent)
  PROVE  /\ Len(frames) \in 0 .. Len(Append(frames, f))
         /\ Conforms(Len(frames), Append(frames, f), expected, acked, FALSE, send, received,
                     ackSent)
<1> DEFINE L == Len(frames)
           more == Append(frames, f)
<1>1. /\ L \in Nat /\ Len(more) = L + 1 /\ more[L + 1] = f
      /\ \A i \in 1 .. L : more[i] = frames[i]
  BY AppendedType, LenProperties
<1>2. Conforms(L, frames, expected, acked, TRUE, send, received, ackSent)
  OBVIOUS
<1> HIDE DEF more, L
<1>3. \A n \in 0 .. L : After(more, expected, n) = After(frames, expected, n)
  <2> TAKE n \in 0 .. L
  <2>1. n \in Nat /\ \A i \in 1 .. n : more[i] = frames[i]
    BY <1>1
  <2> QED BY <2>1, AfterSame
<1>4. L \in 0 .. L /\ L < L + 1 /\ L \in 0 .. L + 1 /\ \A i \in 1 .. L : i - 1 \in 0 .. L
  BY <1>1
<1>5. /\ \A i \in 1 .. L : IsI(more[i]) => more[i].ns = After(more, expected, i - 1)
      /\ After(more, expected, L) = send
  BY <1>1, <1>2, <1>3, <1>4 DEF Conforms
<1>6. \A i \in L + 2 .. L + 1 : FALSE
  BY <1>1
<1>7. /\ Distance(acked, ackSent) <= Distance(acked, received)
      /\ \A i \in 1 .. L :
           IsNumbered(more[i]) => Distance(acked, more[i].nr) <= Distance(acked, ackSent)
      /\ \A i, j \in 1 .. L : IsNumbered(more[i]) /\ IsNumbered(more[j]) /\ i < j
                        => Distance(acked, more[i].nr) <= Distance(acked, more[j].nr)
      /\ \/ Distance(acked, ackSent) = 0
         \/ \E i \in 1 .. L : IsNumbered(more[i]) /\ more[i].nr = ackSent
  BY <1>1, <1>2 DEF Conforms
<1>8. Conforms(L, more, expected, acked, FALSE, send, received, ackSent)
  BY <1>1, <1>4, <1>5, <1>6, <1>7 DEF Conforms
<1> QED BY <1>1, <1>4, <1>8 DEF more, L

(* The server takes a message of a peer that keeps the protocol.           *)
LEMMA ConformsAfterTail ==
  ASSUME NEW frames, Len(frames) \in Nat \ {0}, NEW rest, Len(rest) = Len(frames) - 1,
         \A i \in 1 .. Len(frames) - 1 : rest[i] = frames[i + 1],
         \A i \in 1 .. Len(frames) : IsNumbered(frames[i]) => frames[i].nr \in SeqNo,
         NEW expected, NEW acked \in SeqNo, NEW ok \in BOOLEAN,
         NEW send, NEW received \in SeqNo, NEW ackSent \in SeqNo,
         NEW g \in 1 .. Len(frames),
         Conforms(g, frames, expected, acked, ok, send, received, ackSent),
         NEW next,
         \A n \in 0 .. Len(frames) - 1 : After(rest, next, n) = After(frames, expected, n + 1),
         NEW rel \in Nat, NEW acked2 \in SeqNo,
         \A x \in SeqNo :
           rel <= Distance(acked, x) => Distance(acked2, x) = Distance(acked, x) - rel,
         IsNumbered(frames[1]) => rel = Distance(acked, frames[1].nr),
         ~ IsNumbered(frames[1]) => rel = 0
  PROVE  /\ g - 1 \in 0 .. Len(rest)
         /\ Conforms(g - 1, rest, next, acked2, ok, send, received, ackSent)
<1> DEFINE L == Len(frames)
<1>1. /\ L \in Nat \ {0} /\ Len(rest) = L - 1 /\ 1 \in 1 .. g /\ g \in 1 .. L
      /\ g - 1 \in 0 .. L - 1
      /\ \A i \in 1 .. L - 1 : rest[i] = frames[i + 1]
      /\ \A i \in 1 .. g - 1 : /\ i \in 1 .. L - 1 /\ i + 1 \in 1 .. g /\ 1 < i + 1
                               /\ rest[i] = frames[i + 1]
  OBVIOUS
<1>2. \A x \in SeqNo : Distance(acked, x) \in Nat
  <2>1. M \in Nat /\ \A x \in SeqNo : Distance(acked, x) \in 0 .. M - 1
    BY Distances, Modulo
  <2> QED BY <2>1
<1>3. \A n \in 0 .. L - 1 : After(rest, next, n) = After(frames, expected, n + 1)
  OBVIOUS
<1>4. ASSUME NEW i \in 1 .. g - 1, IsI(rest[i])
      PROVE  rest[i].ns = After(rest, next, i - 1)
  <2>1. i + 1 \in 1 .. g /\ i + 1 - 1 = i /\ rest[i] = frames[i + 1] /\ i - 1 \in 0 .. L - 1
        /\ i - 1 + 1 = i
    BY <1>1
  <2>2. \A k \in 1 .. g : IsI(frames[k]) => frames[k].ns = After(frames, expected, k - 1)
    BY DEF Conforms
  <2>3. frames[i + 1].ns = After(frames, expected, i)
    <3>1. IsI(frames[i + 1])
      BY <1>4, <2>1
    <3>2. PICK k \in 1 .. g : k = i + 1 /\ k - 1 = i
      BY <2>1
    <3> QED BY <2>2, <3>1, <3>2
  <2>4. After(rest, next, i - 1) = After(frames, expected, i - 1 + 1)
    BY <1>3, <2>1
  <2> QED BY <2>1, <2>3, <2>4
<1>5. After(rest, next, g - 1) = send
  <2>1. g - 1 + 1 = g
    OBVIOUS
  <2>2. After(rest, next, g - 1) = After(frames, expected, g - 1 + 1)
    BY <1>1, <1>3
  <2> QED BY <2>1, <2>2 DEF Conforms
<1>6. rel <= Distance(acked, ackSent) /\ Distance(acked, ackSent) <= Distance(acked, received)
  BY <1>1, <1>2 DEF Conforms
<1>7. /\ Distance(acked2, ackSent) = Distance(acked, ackSent) - rel
      /\ Distance(acked2, received) = Distance(acked, received) - rel
      /\ Distance(acked2, ackSent) <= Distance(acked2, received)
  <2>1. rel <= Distance(acked, received) /\ Distance(acked, received) \in Nat
        /\ Distance(acked, ackSent) \in Nat
    BY <1>2, <1>6
  <2>2. /\ Distance(acked2, ackSent) = Distance(acked, ackSent) - rel
        /\ Distance(acked2, received) = Distance(acked, received) - rel
    BY <1>6, <2>1
  <2> QED BY <1>6, <2>1, <2>2
<1>8. ASSUME NEW i \in 1 .. g - 1, IsNumbered(rest[i])
      PROVE  /\ rest[i] = frames[i + 1] /\ i + 1 \in 1 .. g /\ rest[i].nr \in SeqNo
             /\ Distance(acked, rest[i].nr) \in Nat
             /\ Distance(acked2, rest[i].nr) = Distance(acked, rest[i].nr) - rel
  <2>1. rest[i] = frames[i + 1] /\ i + 1 \in 1 .. g /\ 1 < i + 1 /\ i + 1 \in 1 .. L
    BY <1>1
  <2>2. rest[i].nr \in SeqNo
    BY <1>8, <2>1
  <2>3. rel <= Distance(acked, rest[i].nr)
    <3>1. CASE IsNumbered(frames[1])
      BY <1>1, <1>8, <2>1, <3>1 DEF Conforms
    <3>2. CASE ~ IsNumbered(frames[1])
      BY <1>2, <2>2, <3>2
    <3> QED BY <3>1, <3>2
  <2> QED BY <1>2, <2>1, <2>2, <2>3
<1>9. ASSUME NEW i \in 1 .. g - 1, IsNumbered(rest[i])
      PROVE  Distance(acked2, rest[i].nr) <= Distance(acked2, ackSent)
  <2>1. Distance(acked, rest[i].nr) <= Distance(acked, ackSent)
    BY <1>8, <1>9 DEF Conforms
  <2> QED BY <1>2, <1>7, <1>8, <1>9, <2>1
<1>10. ASSUME NEW i \in 1 .. g - 1, NEW j \in 1 .. g - 1,
              IsNumbered(rest[i]), IsNumbered(rest[j]), i < j
       PROVE  Distance(acked2, rest[i].nr) <= Distance(acked2, rest[j].nr)
  <2>1. i + 1 < j + 1 /\ i + 1 \in 1 .. g /\ j + 1 \in 1 .. g
    BY <1>8, <1>10
  <2>2. Distance(acked, rest[i].nr) <= Distance(acked, rest[j].nr)
    BY <1>8, <1>10, <2>1 DEF Conforms
  <2> QED BY <1>8, <1>10, <2>2
<1>11. \/ Distance(acked2, ackSent) = 0
       \/ \E i \in 1 .. g - 1 : IsNumbered(rest[i]) /\ rest[i].nr = ackSent
  <2>1. CASE Distance(acked, ackSent) = 0
    BY <1>6, <1>7, <2>1
  <2>2. CASE \E i \in 1 .. g : IsNumbered(frames[i]) /\ frames[i].nr = ackSent
    <3>1. PICK i \in 1 .. g : IsNumbered(frames[i]) /\ frames[i].nr = ackSent
      BY <2>2
    <3>2. CASE i = 1
      <4>1. rel = Distance(acked, ackSent)
        BY <3>1, <3>2
      <4> QED BY <1>2, <1>7, <4>1
    <3>3. CASE i # 1
      <4>1. i - 1 \in 1 .. g - 1 /\ i - 1 + 1 = i
        BY <3>3
      <4>2. rest[i - 1] = frames[i - 1 + 1]
        BY <1>1, <4>1
      <4> QED BY <3>1, <4>1, <4>2
    <3> QED BY <3>2, <3>3
  <2> QED BY <2>1, <2>2 DEF Conforms
<1>12. /\ ok => g - 1 = Len(rest)
       /\ ~ ok => /\ g - 1 < Len(rest) /\ IsWrong(rest[g - 1 + 1], send, ackSent)
                  /\ \A i \in g - 1 + 2 .. Len(rest) : ~ IsNumbered(rest[i])
  <2>1. CASE ok
    BY <1>1, <2>1 DEF Conforms
  <2>2. CASE ~ ok
    <3>1. /\ g < L /\ IsWrong(frames[g + 1], send, ackSent)
          /\ \A i \in g + 2 .. L : ~ IsNumbered(frames[i])
      BY <2>2 DEF Conforms
    <3>2. g \in 1 .. L - 1 /\ g - 1 + 1 = g /\ g - 1 < L - 1
      BY <1>1, <3>1
    <3>3. rest[g - 1 + 1] = frames[g + 1]
      BY <1>1, <3>2
    <3>4. ASSUME NEW i \in g - 1 + 2 .. Len(rest) PROVE ~ IsNumbered(rest[i])
      <4>1. i \in 1 .. L - 1 /\ i + 1 \in g + 2 .. L
        BY <1>1
      <4> QED BY <1>1, <3>1, <4>1
    <3> QED BY <1>1, <2>2, <3>1, <3>2, <3>3, <3>4
  <2> QED BY <2>1, <2>2
<1>13. Conforms(g - 1, rest, next, acked2, ok, send, received, ackSent)
  BY <1>4, <1>5, <1>7, <1>9, <1>10, <1>11, <1>12 DEF Conforms
<1> QED BY <1>1, <1>13

-----------------------------------------------------------------------------
(* What the server keeps and what it takes.                                *)

(* The oldest number not acknowledged moves on with an accepted message,   *)
(* and with nothing else.                                                  *)
LEMMA AckedMoves ==
  ASSUME TypeOK, NumbersInv, WayInv, StoppedInv, ServerInv, ThreadStep
  PROVE  \E rel \in Nat :
           /\ Acked \in SeqNo /\ Acked' \in SeqNo
           /\ \A x \in SeqNo : rel <= Distance(Acked, x) =>
                Distance(Acked', x) = Distance(Acked, x) - rel
           /\ Accepts => rel = Ahead(Head(toServer).nr)
           /\ ~ Accepts => rel = 0 /\ Acked' = Acked
<1>1. TypeOK'
  BY StepType DEF Next
<1>2. PICK asdus \in Seq(ASDUs), extra \in 0 .. 2, rel \in 0 .. Len(sentASDUs),
           freed \in 0 .. Len(lowPrioQueue), next \in 0 .. Len(lowPrioQueue) :
        Adds(asdus, extra) /\ Serves(asdus, rel, freed, next)
  BY ThreadAdds
<1>3. Keeps(asdus, rel) /\ sendCount' = (sendCount + Len(asdus)) % M
  BY <1>2 DEF Serves, Adds
<1>4. /\ Acked' = (Acked + rel) % M /\ Acked' \in SeqNo
      /\ \A x \in SeqNo : rel <= Ahead(x) => Distance(Acked', x) = Ahead(x) - rel
  BY <1>1, <1>3, AckedStep
<1>5. Acked \in SeqNo /\ rel \in Nat
  BY AckedFacts
<1>6. Accepts => rel = Ahead(Head(toServer).nr)
  BY <1>2, ReleaseBound
<1>7. ~ Accepts => rel = 0
  BY <1>2 DEF Serves
<1>8. rel = 0 => Acked' = Acked
  <2>1. PICK a \in SeqNo : a = Acked
    BY <1>5
  <2>2. (a + 0) % M = a
    BY Modulo
  <2> QED BY <1>4, <2>1, <2>2
<1>9. \A x \in SeqNo : rel <= Distance(Acked, x) =>
        Distance(Acked', x) = Distance(Acked, x) - rel
  BY <1>4 DEF Ahead
<1> QED BY <1>4, <1>5, <1>6, <1>7, <1>8, <1>9

(* A message is taken that is not rejected.                                *)
Takes ==
  /\ toServer # << >> /\ Acceptable /\ pc = "receive" /\ toServer' = Tail(toServer)
  /\ UNCHANGED peerVars
  /\ receiveCount' = IF IsI(Head(toServer)) THEN Succ(receiveCount) ELSE receiveCount
  /\ IsNumbered(Head(toServer)) <=> Accepts

(* Taking it leaves what conforms.                                         *)
LEMMA TakenConforms ==
  ASSUME TypeOK, NumbersInv, WayInv, StoppedInv, ServerInv, ThreadStep, Takes
  PROVE  ServerInv'
<1> DEFINE L == Len(toServer)
           f == Head(toServer)
<1>1. PICK g \in 0 .. L : Conforming(g)
  BY DEF Takes, ServerInv, StoppedInv
<1>2. g \in 1 .. L
  <2>1. g # 0 /\ L \in Nat
    BY <1>1, AcceptableIs, ReceivedType DEF Takes
  <2> QED BY <2>1
<1>3. /\ L \in Nat \ {0} /\ f = toServer[1] /\ Len(toServer') = L - 1
      /\ \A i \in 1 .. L - 1 : toServer'[i] = toServer[i + 1]
  BY ReceivedType DEF Takes
<1>4. \A i \in 1 .. L : IsNumbered(toServer[i]) => toServer[i].nr \in SeqNo
  <2>1. \A i \in 1 .. L : toServer[i] \in Frames
    <3> HIDE DEF Frames
    <3> QED BY ElementOfSeq DEF TypeOK
  <2> QED BY <2>1 DEF Frames, IsNumbered
<1>5. PICK rel \in Nat :
        /\ Acked \in SeqNo /\ Acked' \in SeqNo
        /\ \A x \in SeqNo : rel <= Distance(Acked, x) =>
             Distance(Acked', x) = Distance(Acked, x) - rel
        /\ Accepts => rel = Ahead(f.nr)
        /\ ~ Accepts => rel = 0
  BY AckedMoves
<1>6. /\ IsNumbered(toServer[1]) => rel = Distance(Acked, toServer[1].nr)
      /\ ~ IsNumbered(toServer[1]) => rel = 0
  BY <1>3, <1>5 DEF Ahead, Takes
<1>7. /\ IsI(toServer[1]) => receiveCount' = Succ(toServer[1].ns)
      /\ ~ IsI(toServer[1]) => receiveCount' = receiveCount
  BY <1>3 DEF Acceptable, IsI, IsNumbered, Takes
<1>8. PICK rest : rest = toServer'
  OBVIOUS
<1>9. PICK next : next = receiveCount'
  OBVIOUS
<1>10. PICK acked2 \in SeqNo :
         /\ acked2 = Acked'
         /\ \A x \in SeqNo : rel <= Distance(Acked, x) =>
              Distance(acked2, x) = Distance(Acked, x) - rel
  BY <1>5
<1>11. \A n \in 0 .. L - 1 :
         After(rest, next, n) = After(toServer, receiveCount, n + 1)
  <2>1. L - 1 \in Nat /\ \A i \in 1 .. L - 1 : rest[i] = toServer[i + 1]
    BY <1>3, <1>8
  <2>2. /\ IsI(toServer[1]) => next = Succ(toServer[1].ns)
        /\ ~ IsI(toServer[1]) => next = receiveCount
    BY <1>7, <1>9
  <2>3. PICK l \in Nat : l = L - 1
    BY <2>1
  <2>4. \A i \in 1 .. l : rest[i] = toServer[i + 1]
    BY <2>1, <2>3
  <2>5. \A n \in 0 .. l : After(rest, next, n) = After(toServer, receiveCount, n + 1)
    <3> TAKE n \in 0 .. l
    <3>1. n \in Nat /\ \A i \in 1 .. n : rest[i] = toServer[i + 1]
      BY <2>4
    <3> HIDE DEF L, f
    <3> QED BY <2>2, <3>1, AfterTail
  <2> QED BY <2>3, <2>5
<1>12. conforms \in BOOLEAN /\ peerReceive \in SeqNo /\ peerAckSent \in SeqNo
  BY DEF TypeOK
<1>13. Conforms(g, toServer, receiveCount, Acked, conforms, peerSend, peerReceive, peerAckSent)
  BY <1>1 DEF Conforming
<1>14. /\ g - 1 \in 0 .. Len(rest)
       /\ Conforms(g - 1, rest, next, acked2, conforms, peerSend, peerReceive, peerAckSent)
  <2>1. Len(rest) = L - 1 /\ \A i \in 1 .. L - 1 : rest[i] = toServer[i + 1]
    BY <1>3, <1>8
  <2>2. Acked \in SeqNo
    BY <1>5
  <2>3. L \in Nat \ {0}
    BY <1>3
  <2> HIDE DEF f
  <2> QED BY <1>2, <1>4, <1>6, <1>10, <1>11, <1>12, <1>13, <2>1, <2>2, <2>3,
             ConformsAfterTail, SMTT(30)
<1>15. \E h \in 0 .. Len(toServer') :
         Conforms(h, toServer', receiveCount', Acked', conforms', peerSend', peerReceive',
                  peerAckSent')
  BY <1>8, <1>9, <1>10, <1>14 DEF peerVars, Takes
<1> QED BY <1>15 DEF ServerInv, Conforming

(* What is on its way to the server stays what it accepts.                 *)
LEMMA ServerStep ==
  ASSUME TypeOK, SequenceNumbers, NumbersInv, WayInv, StoppedInv, ServerInv, [Next]_vars
  PROVE  ServerInv'
<1>1. ASSUME UNCHANGED <<toServer, receiveCount, Acked, peerVars>>,
             cause' # "sequence" => cause # "sequence"
      PROVE  ServerInv'
  <2>1. ASSUME NEW g \in 0 .. Len(toServer), Conforming(g)
        PROVE  Conforms(g, toServer', receiveCount', Acked', conforms', peerSend', peerReceive',
                        peerAckSent')
    BY <1>1, <2>1 DEF Conforming, peerVars
  <2> QED BY <1>1, <2>1 DEF ServerInv, Conforming
<1>2. CASE ReceiveNothing \/ Timeouts \/ SendWaitingASDUs \/ SkipSending \/ EndThread
  <2>1. /\ UNCHANGED <<toServer, receiveCount, peerVars>>
        /\ cause' = cause \/ (cause' = "timeout" /\ cause = "none")
    BY <1>2 DEF ReceiveNothing, Timeouts, HandleTimeouts, SendWaitingASDUs, SkipSending, EndThread,
                counters, history
  <2>2. ThreadStep /\ ~ Accepts
    BY <1>2, OnlyMessagesAccepted DEF ThreadStep
  <2>3. UNCHANGED Acked
    BY <2>2, AckedMoves
  <2> QED BY <1>1, <2>1, <2>3
<1>3. CASE ReceiveI \/ ReceiveS
  <2>1. /\ toServer # << >> /\ Acceptable /\ pc = "receive" /\ toServer' = Tail(toServer)
        /\ IsNumbered(Head(toServer)) /\ UNCHANGED peerVars
    BY <1>3 DEF ReceiveI, ReceiveS, Receives, Acceptable, IsNumbered, IsI
  <2>2. receiveCount' = IF IsI(Head(toServer)) THEN Succ(receiveCount) ELSE receiveCount
    BY <1>3 DEF ReceiveI, ReceiveS, Receives, IsI, counters
  <2> QED BY <1>3, <2>1, <2>2, TakenConforms DEF Takes, Accepts, ThreadStep, ReceiveMessage
<1>4. CASE ReceiveStartDT \/ ReceiveStopDT \/ ReceiveTestFR \/ ReceiveTestFRCon \/ ReceiveClose
  <2>1. /\ toServer # << >> /\ pc = "receive" /\ toServer' = Tail(toServer)
        /\ ~ IsNumbered(Head(toServer)) /\ UNCHANGED <<peerVars, receiveCount>>
    BY <1>4 DEF ReceiveStartDT, ReceiveStopDT, ReceiveTestFR, ReceiveTestFRCon, ReceiveClose,
                Receives, Deactivate, IsNumbered, counters
  <2>2. ~ IsI(Head(toServer)) /\ Acceptable
    BY <2>1 DEF Acceptable, IsNumbered, IsI
  <2>3. ~ Accepts /\ ThreadStep
    BY <1>4, OnlyMessagesAccepted DEF ThreadStep, ReceiveMessage
  <2> QED BY <2>1, <2>2, <2>3, TakenConforms DEF Takes
<1>5. CASE RejectMessage
  BY <1>5 DEF RejectMessage, ServerInv
<1>6. /\ toServer \in Seq(Frames) /\ receiveCount \in SeqNo /\ Acked \in SeqNo
      /\ conforms \in BOOLEAN
      /\ peerSend \in SeqNo /\ peerReceive \in SeqNo /\ peerAckSent \in SeqNo
  BY AckedFacts DEF TypeOK
<1>7. CASE PeerReceives
  <2> SUFFICES ASSUME cause' # "sequence"
               PROVE  \E h \in 0 .. Len(toServer') :
                        Conforms(h, toServer', receiveCount', Acked', conforms', peerSend',
                                 peerReceive', peerAckSent')
    BY DEF ServerInv, Conforming
  <2>1. UNCHANGED <<receiveCount, Acked, cause>>
    BY <1>7, PeerReads
  <2>2. UNCHANGED <<conforms, peerSend, peerAckSent>>
    BY <1>7 DEF PeerReceives
  <2>3. Distance(Acked, peerReceive) <= Distance(Acked, peerReceive')
    <3>1. /\ Ahead(peerReceive) \in Nat
          /\ \/ Distance(Acked, peerReceive') = Ahead(peerReceive) + 1
             \/ peerReceive' = peerReceive
      BY <1>7, PeerReads
    <3> QED BY <3>1 DEF Ahead
  <2>4. peerReceive' \in SeqNo
    BY StepType DEF TypeOK
  <2>5. UFrame("TESTFR_CON") \in Frames /\ ~ IsNumbered(UFrame("TESTFR_CON"))
    BY FrameTypes DEF IsNumbered, UFrame
  <2>6. toServer' = toServer \/ toServer' = Append(toServer, UFrame("TESTFR_CON"))
    BY <1>7 DEF PeerReceives
  <2>7. PICK g \in 0 .. Len(toServer) : Conforming(g)
    BY <2>1 DEF ServerInv
  <2>8. Conforms(g, toServer, receiveCount, Acked, conforms, peerSend, peerReceive, peerAckSent)
    BY <2>7 DEF Conforming
  <2>9. PICK later \in SeqNo : later = peerReceive'
    BY <2>4
  <2>10. PICK f \in Frames : f = UFrame("TESTFR_CON") /\ ~ IsNumbered(f)
    BY <2>5
  <2>11. Distance(Acked, peerReceive) <= Distance(Acked, later)
    BY <2>3, <2>9
  <2> HIDE DEF Frames
  <2>12. /\ Conforms(g, toServer, receiveCount, Acked, conforms, peerSend, later, peerAckSent)
         /\ \E h \in 0 .. Len(Append(toServer, f)) :
              Conforms(h, Append(toServer, f), receiveCount, Acked, conforms, peerSend, later,
                       peerAckSent)
    BY <1>6, <2>7, <2>8, <2>10, <2>11, ConformsWithU, SMTT(30)
  <2> QED BY <2>1, <2>2, <2>6, <2>7, <2>9, <2>10, <2>12
<1>8. CASE PeerSendsI \/ PeerSendsS
  <2> DEFINE f == IF PeerSendsI THEN IFrame(peerSend, peerReceive, Reply) ELSE SFrame(peerReceive)
  <2> SUFFICES ASSUME cause' # "sequence"
               PROVE  \E h \in 0 .. Len(toServer') :
                        Conforms(h, toServer', receiveCount', Acked', conforms', peerSend',
                                 peerReceive', peerAckSent')
    BY DEF ServerInv, Conforming
  <2>1. UNCHANGED <<receiveCount, Acked, cause, peerReceive, conforms>> /\ conforms
    BY <1>8 DEF PeerSendsI, PeerSendsS, PeerSends, serverVars, counters, Acked, history
  <2>2. peerAckSent' = peerReceive /\ toServer' = Append(toServer, f)
        /\ f \in Frames /\ IsNumbered(f) /\ f.nr = peerReceive /\ (IsI(f) => f.ns = peerSend)
    BY <1>6, <1>8, FrameTypes DEF PeerSendsI, PeerSendsS, PeerSends, IFrame, SFrame, IsNumbered, IsI
  <2>3. peerSend' = IF IsI(f) THEN Succ(peerSend) ELSE peerSend
    BY <1>8 DEF PeerSendsI, PeerSendsS, IFrame, SFrame, IsI
  <2> HIDE DEF f
  <2>4. Conforms(Len(toServer), toServer, receiveCount, Acked, TRUE, peerSend, peerReceive,
                 peerAckSent)
    <3>1. PICK g \in 0 .. Len(toServer) : Conforming(g)
      BY <2>1 DEF ServerInv
    <3>2. g = Len(toServer)
      BY <2>1, <3>1 DEF Conforming, Conforms
    <3>3. conforms = TRUE
      BY <1>6, <2>1
    <3> QED BY <3>1, <3>2, <3>3 DEF Conforming
  <2>5. /\ Len(toServer') \in Nat
        /\ Conforms(Len(toServer'), toServer', receiveCount, Acked, TRUE, peerSend', peerReceive,
                    peerReceive)
    BY <1>6, <2>2, <2>3, <2>4, ConformsWithNumbered
  <2>6. Len(toServer') \in 0 .. Len(toServer') /\ conforms' = TRUE
    BY <1>6, <2>1, <2>5
  <2> QED BY <2>1, <2>2, <2>5, <2>6
<1>9. CASE PeerControls \/ PeerStops
  <2> SUFFICES ASSUME cause' # "sequence"
               PROVE  \E h \in 0 .. Len(toServer') :
                        Conforms(h, toServer', receiveCount', Acked', conforms', peerSend',
                                 peerReceive', peerAckSent')
    BY DEF ServerInv, Conforming
  <2>1. UNCHANGED <<receiveCount, Acked, cause, peerReceive, conforms, peerSend, peerAckSent>>
    BY <1>9 DEF PeerControls, PeerStops, serverVars, counters, Acked, history
  <2>2. \/ toServer' = toServer
        \/ \E kind \in {"STARTDT_ACT", "STOPDT_ACT", "TESTFR_ACT", "CLOSE"} :
             toServer' = Append(toServer, UFrame(kind))
    BY <1>9 DEF PeerControls, PeerStops, PeerSends
  <2>3. PICK g \in 0 .. Len(toServer) : Conforming(g)
    BY <2>1 DEF ServerInv
  <2>4. Conforms(g, toServer, receiveCount, Acked, conforms, peerSend, peerReceive, peerAckSent)
    BY <2>3 DEF Conforming
  <2>5. CASE toServer' = toServer
    BY <2>1, <2>3, <2>4, <2>5
  <2>6. CASE \E kind \in {"STARTDT_ACT", "STOPDT_ACT", "TESTFR_ACT", "CLOSE"} :
               toServer' = Append(toServer, UFrame(kind))
    <3>1. PICK kind \in {"STARTDT_ACT", "STOPDT_ACT", "TESTFR_ACT", "CLOSE"} :
            toServer' = Append(toServer, UFrame(kind))
      BY <2>6
    <3>2. UFrame(kind) \in Frames /\ ~ IsNumbered(UFrame(kind))
      BY <3>1, FrameTypes DEF UFrame, IsNumbered
    <3>3. Distance(Acked, peerReceive) <= Distance(Acked, peerReceive)
      <4>1. M \in Nat /\ Distance(Acked, peerReceive) \in 0 .. M - 1
        BY <1>6, Distances, Modulo
      <4> QED BY <4>1
    <3>4. PICK f \in Frames : f = UFrame(kind) /\ ~ IsNumbered(f)
      BY <3>2
    <3>5. \E h \in 0 .. Len(Append(toServer, f)) :
            Conforms(h, Append(toServer, f), receiveCount, Acked, conforms, peerSend, peerReceive,
                     peerAckSent)
      BY <1>6, <2>3, <2>4, <3>3, <3>4, ConformsWithU
    <3> QED BY <2>1, <3>1, <3>4, <3>5
  <2> QED BY <2>2, <2>5, <2>6
<1>10. CASE PeerErrs
  <2> SUFFICES ASSUME cause' # "sequence"
               PROVE  \E h \in 0 .. Len(toServer') :
                        Conforms(h, toServer', receiveCount', Acked', conforms', peerSend',
                                 peerReceive', peerAckSent')
    BY DEF ServerInv, Conforming
  <2>1. /\ UNCHANGED <<receiveCount, Acked, cause, peerReceive, peerSend, peerAckSent>>
        /\ conforms /\ conforms' = FALSE
    BY <1>10 DEF PeerErrs, PeerSends, serverVars, counters, Acked, history
  <2>2. PICK f \in WrongFrames : toServer' = Append(toServer, f)
    BY <1>10 DEF PeerErrs, PeerSends
  <2>3. f \in Frames
    BY <1>6, FrameTypes DEF WrongFrames
  <2>4. IsWrong(f, peerSend, peerAckSent)
    BY DEF WrongFrames, IsWrong, IFrame, SFrame
  <2>5. Conforms(Len(toServer), toServer, receiveCount, Acked, TRUE, peerSend, peerReceive,
                 peerAckSent)
    <3>1. PICK g \in 0 .. Len(toServer) : Conforming(g)
      BY <2>1 DEF ServerInv
    <3>2. g = Len(toServer)
      BY <2>1, <3>1 DEF Conforming, Conforms
    <3>3. conforms = TRUE
      BY <1>6, <2>1
    <3> QED BY <3>1, <3>2, <3>3 DEF Conforming
  <2>6. /\ Len(toServer) \in 0 .. Len(toServer')
        /\ Conforms(Len(toServer), toServer', receiveCount, Acked, FALSE, peerSend, peerReceive,
                    peerAckSent)
    BY <1>6, <2>2, <2>3, <2>4, <2>5, ConformsUpToWrong
  <2> QED BY <2>1, <2>6
<1>11. CASE Enqueue \/ UNCHANGED vars
  <2>1. UNCHANGED <<toServer, receiveCount, sendCount, sentASDUs, peerVars, cause>>
    BY <1>11 DEF Enqueue, vars, serverVars, counters, history
  <2>2. UNCHANGED Acked
    BY <2>1 DEF Acked
  <2> QED BY <1>1, <2>1, <2>2
<1> QED BY <1>2, <1>3, <1>4, <1>5, <1>7, <1>8, <1>9, <1>10, <1>11
        DEF Next, ThreadStep, ReceiveMessage, PeerStep

-----------------------------------------------------------------------------
(* All of it together is inductive: what the server expects follows from   *)
(* what is on the way to it, and what the peer may acknowledge from what is*)
(* on the way to the peer.                                                 *)
BothWaysInv ==
  /\ SequenceNumbers /\ NumbersInv /\ OrderInv
  /\ StoppedInv /\ WayInv /\ ServerInv
  /\ DeliveredInv /\ QueueInv /\ NothingLost

(* It holds in the beginning,                                              *)
LEMMA BothWaysInit == Init => BothWaysInv
<1> SUFFICES ASSUME Init PROVE BothWaysInv
  OBVIOUS
<1>1. TypeOK
  BY InitType
<1>2. Len(sentASDUs) = 0 /\ Len(toPeer) = 0 /\ Len(toServer) = 0 /\ Len(lowPrioQueue) = 0
      /\ Len(delivered) = 0
  BY EmptySeq DEF Init
<1>3. SequenceNumbers
  <2>1. NumberAfter(Len(toPeer)) = peerReceive
    BY <1>2 DEF NumberAfter
  <2> QED BY <1>2, <2>1 DEF SequenceNumbers, Init
<1>4. NumbersInv
  BY <1>2 DEF NumbersInv
<1>5. OrderInv
  BY <1>2 DEF OrderInv, InOrder, OnTheWay, Waiting
<1>6. StoppedInv
  BY DEF Init, StoppedInv
<1>7. Acked = 0 /\ 0 \in SeqNo /\ Distance(0, 0) = 0
  <2>1. 0 \in SeqNo /\ 0 % M = 0 /\ 0 - 0 = 0
    BY Modulo
  <2> QED BY <1>2, <2>1 DEF Acked, Distance, Init
<1>8. WayInv
  BY <1>2, <1>7 DEF WayInv, Ahead, Init
<1>9. ServerInv
  <2>1. After(toServer, receiveCount, 0) = receiveCount
    <3>1. 0 \in Nat /\ \A m \in 1 .. 0 : ~ IsI(toServer[m])
      OBVIOUS
    <3> QED BY <3>1, AfterIs
  <2>2. 0 \in 0 .. Len(toServer) /\ \A i \in 1 .. 0 : FALSE
    BY <1>2
  <2>3. receiveCount = peerSend /\ conforms = TRUE /\ peerReceive = 0 /\ peerAckSent = 0
    BY DEF Init
  <2>4. Conforming(0)
    BY <1>2, <1>7, <2>1, <2>2, <2>3 DEF Conforming, Conforms
  <2> QED BY <2>2, <2>4 DEF ServerInv
<1>10. DeliveredInv /\ QueueInv
  BY <1>2 DEF DeliveredInv, QueueInv
<1>11. NothingLost
  BY DEF Init, NothingLost
<1> QED BY <1>3, <1>4, <1>5, <1>6, <1>8, <1>9, <1>10, <1>11 DEF BothWaysInv

(* and every step keeps it.                                                *)
LEMMA BothWaysStep == TypeOK /\ BothWaysInv /\ [Next]_vars => BothWaysInv'
<1> SUFFICES ASSUME TypeOK, BothWaysInv, [Next]_vars PROVE BothWaysInv'
  OBVIOUS
<1>1. TypeOK'
  BY StepType
<1>2. /\ SequenceNumbers /\ NumbersInv /\ OrderInv /\ StoppedInv /\ WayInv /\ ServerInv
      /\ DeliveredInv /\ QueueInv /\ NothingLost
  BY DEF BothWaysInv
<1>3. SequenceNumbers'
  BY <1>2, SequenceStep
<1>4. NumbersInv'
  <2>1. (NumbersInv <=>
           \A p \in 1 .. Len(sentASDUs) :
             (sentASDUs[p].seqNo + Len(sentASDUs) - p) % M = sendCount)'
    BY <1>1, NumbersAgree, PTL
  <2> QED BY <1>3, <2>1 DEF SequenceNumbers
<1>5. OrderInv'
  BY <1>2, OrderStep
<1>6. StoppedInv'
  BY <1>2, StoppedStep
<1>7. WayInv'
  BY <1>2, WayStep
<1>8. ServerInv'
  BY <1>2, ServerStep
<1>9. DeliveredInv'
  BY <1>2, DeliveredStep
<1>10. QueueInv'
  BY <1>2, QueueStep
<1>11. NothingLost'
  BY <1>2, LostStep
<1> QED BY <1>3, <1>4, <1>5, <1>6, <1>7, <1>8, <1>9, <1>10, <1>11 DEF BothWaysInv

(* A peer that keeps the protocol never has its connection closed for a    *)
(* sequence number, also when the numbers wrap around between two          *)
(* acknowledgements; one that erred has the wrong message still before the *)
(* server, or its connection ended.                                        *)
THEOREM ErrorsNoticed == Spec => []SequenceErrorsNoticed
<1>1. TypeOK /\ BothWaysInv => SequenceErrorsNoticed
  <2> SUFFICES ASSUME TypeOK, BothWaysInv PROVE SequenceErrorsNoticed
    OBVIOUS
  <2>1. conforms => cause # "sequence"
    BY DEF BothWaysInv, StoppedInv
  <2>2. ASSUME ~ conforms, cause = "none"
        PROVE  \E n \in 1 .. Len(toServer) : IsNumbered(toServer[n])
    <3>1. PICK g \in 0 .. Len(toServer) : Conforming(g)
      BY <2>2 DEF BothWaysInv, ServerInv
    <3>2. g < Len(toServer) /\ IsWrong(toServer[g + 1], peerSend, peerAckSent)
      BY <2>2, <3>1 DEF Conforming, Conforms
    <3>3. Len(toServer) \in Nat
      BY LenProperties DEF TypeOK
    <3>4. g + 1 \in 1 .. Len(toServer) /\ IsNumbered(toServer[g + 1])
      BY <3>1, <3>2, <3>3 DEF IsWrong, IsNumbered
    <3> QED BY <3>4
  <2> QED BY <2>1, <2>2 DEF SequenceErrorsNoticed
<1> QED BY <1>1, BothWaysInit, BothWaysStep, TypeCorrect, PTL DEF Spec

(* While the connection lives, an event is in its queue until the peer has *)
(* received it or the full queue has dropped it.  An acknowledgement       *)
(* releases an event the peer has not seen only when slot and time stamp of*)
(* two events coincide, and then the event is on its way.                  *)
THEOREM NothingLostHolds == Spec => []NothingLost
<1>1. BothWaysInv => NothingLost
  BY DEF BothWaysInv
<1> QED BY <1>1, BothWaysInit, BothWaysStep, TypeCorrect, PTL DEF Spec
=============================================================================
