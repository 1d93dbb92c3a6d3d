----------------------- MODULE MasterConnectionProofs -----------------------
(***************************************************************************)
(* Proofs about the thread of a connection, for every k, w, modulus of the *)
(* sequence numbers and size of the queues: types, what waits and in which *)
(* order, acknowledgements, and STARTDT and STOPDT.                        *)
(***************************************************************************)
EXTENDS MasterConnection, SequenceTheorems, WellFoundedInduction, TLAPS

ASDUs == Events \union {Reply}
Numbers == [seqNo : SeqNo, asdu : ASDUs]
Entries == [event : 1 .. produced, sent : BOOLEAN]
Marks == [slot : 0 .. LowSize - 1, time : Times]

-----------------------------------------------------------------------------
(* Numbers modulo M, and sequences.                                        *)

(* Sums and differences of sequence numbers wrap around at most once.      *)
LEMMA Modulo ==
  /\ M \in Nat /\ M > 2 /\ SeqNo \subseteq Nat /\ 0 \in SeqNo
  /\ \A n \in Int : n % M \in SeqNo
  /\ \A n \in SeqNo : n % M = n
  /\ \A n \in Nat : n >= M /\ n < 2 * M => n % M = n - M
  /\ \A n \in Int : n < 0 /\ n >= 0 - M => n % M = n + M
  /\ \A n \in SeqNo : Succ(n) \in SeqNo
BY ParametersAssumption DEF SeqNo, Succ

(* A number less than M outside the range wraps around once.               *)
LEMMA Wraps ==
  ASSUME NEW x \in 0 - M .. 2 * M - 1
  PROVE  x % M = IF x < 0 THEN x + M ELSE IF x < M THEN x ELSE x - M
<1>1. M \in Nat /\ M > 2
  BY Modulo
<1>2. CASE x < 0
  BY <1>1, <1>2, Modulo
<1>3. CASE x >= 0 /\ x < M
  BY <1>1, <1>3, Modulo DEF SeqNo
<1>4. CASE x >= M
  BY <1>1, <1>4, Modulo
<1> QED BY <1>1, <1>2, <1>3, <1>4

(* A set of numbers that is not empty has a least one.                     *)
LEMMA LeastElement ==
  ASSUME NEW S \in SUBSET Nat, S # {}
  PROVE  \E m \in S : \A k \in S : m <= k
<1>1. PICK m \in S : \A k \in S : <<k, m>> \notin OpToRel(<, Nat)
  BY WFMin, NatLessThanWellFounded, Zenon
<1>2. \A k \in S : ~ (k < m)
  BY <1>1, Zenon DEF OpToRel
<1>3. \A k \in S : m <= k
  BY <1>2
<1> QED BY <1>3

(* So has one that is bounded a greatest one.                              *)
LEMMA GreatestElement ==
  ASSUME NEW b \in Nat, NEW S \in SUBSET (0 .. b), S # {}
  PROVE  \E m \in S : \A k \in S : k <= m
<1> DEFINE T == {n \in Nat : b - n \in S}
<1>1. PICK x \in S : TRUE
  OBVIOUS
<1>2. b - x \in T
  BY <1>1
<1>3. PICK n \in T : \A k \in T : n <= k
  BY <1>2, LeastElement
<1>4. \A k \in S : b - k \in T /\ n <= b - k
  BY <1>3
<1>5. b - n \in S /\ \A k \in S : k <= b - n
  BY <1>3, <1>4
<1> QED BY <1>5

(* Division with remainder by M.                                           *)
LEMMA Remainder ==
  ASSUME NEW q \in Int, NEW d \in 0 .. M - 1
  PROVE  (q * M + d) % M = d
BY Modulo

(* There is one such division for every number.                           *)
LEMMA Division ==
  ASSUME NEW u \in Nat
  PROVE  \E q \in Nat, d \in 0 .. M - 1 : u = q * M + d /\ u % M = d
<1> DEFINE S == {n \in Nat : \A q \in Nat, d \in 0 .. M - 1 : n # q * M + d}
<1>1. M \in Nat /\ M > 2
  BY Modulo
<1>2. S = {}
  <2> SUFFICES ASSUME S # {} PROVE FALSE
    OBVIOUS
  <2>1. PICK n \in S : \A k \in S : n <= k
    <3>1. S \in SUBSET Nat
      OBVIOUS
    <3> HIDE DEF S
    <3> QED BY <3>1, LeastElement
  <2>2. CASE n < M
    <3>1. n = 0 * M + n /\ n \in 0 .. M - 1
      BY <1>1, <2>2
    <3> QED BY <3>1
  <2>3. CASE n >= M
    <3>1. n - M \in Nat /\ ~ (n <= n - M)
      BY <1>1, <2>3
    <3>2. n - M \notin S
      BY <2>1, <3>1
    <3>3. PICK q \in Nat, d \in 0 .. M - 1 : n - M = q * M + d
      BY <3>1, <3>2
    <3>4. n = (q + 1) * M + d
      BY <1>1, <3>3
    <3> QED BY <3>4
  <2> QED BY <1>1, <2>2, <2>3
<1>3. PICK q \in Nat, d \in 0 .. M - 1 : u = q * M + d
  BY <1>2
<1>4. u % M = d
  BY <1>3, Remainder
<1> QED BY <1>3, <1>4

(* The remainder of the next number is the successor of the remainder.     *)
LEMMA ModuloNext ==
  ASSUME NEW u \in Nat
  PROVE  (u + 1) % M = ((u % M) + 1) % M
<1>1. M \in Nat /\ M > 2
  BY Modulo
<1>2. PICK q \in Nat, d \in 0 .. M - 1 : u = q * M + d /\ u % M = d
  BY Division
<1>3. CASE d + 1 < M
  <2>1. u + 1 = q * M + (d + 1) /\ d + 1 \in 0 .. M - 1
    BY <1>1, <1>2, <1>3
  <2>2. (u + 1) % M = d + 1
    BY <2>1, Remainder
  <2>3. (d + 1) % M = d + 1
    BY <2>1, Modulo DEF SeqNo
  <2> QED BY <1>2, <2>2, <2>3
<1>4. CASE d + 1 = M
  <2>1. u + 1 = (q + 1) * M + 0 /\ 0 \in 0 .. M - 1 /\ q + 1 \in Int
    BY <1>1, <1>2, <1>4
  <2>2. (u + 1) % M = 0
    BY <2>1, Remainder
  <2>3. M % M = 0
    BY <1>1, Modulo
  <2> QED BY <1>2, <1>4, <2>2, <2>3
<1> QED BY <1>1, <1>2, <1>3, <1>4

(* A function on 1 .. n is a sequence.                                     *)
LEMMA FunctionIsSeq ==
  ASSUME NEW S, NEW n \in Nat, NEW f \in [1 .. n -> S]
  PROVE  f \in Seq(S) /\ Len(f) = n
OBVIOUS

(* The messages and the entries of the k-buffer that carry some ASDUs.     *)
LEMMA IFramesType ==
  ASSUME NEW asdus \in Seq(ASDUs), NEW nr \in SeqNo, sendCount \in SeqNo
  PROVE  /\ IFrames(asdus, nr) \in Seq(Frames) /\ Len(IFrames(asdus, nr)) = Len(asdus)
         /\ Numbered(asdus) \in Seq(Numbers) /\ Len(Numbered(asdus)) = Len(asdus)
         /\ \A i \in 1 .. Len(asdus) :
              /\ IFrames(asdus, nr)[i] = IFrame((sendCount + i - 1) % M, nr, asdus[i])
              /\ Numbered(asdus)[i] = [seqNo |-> (sendCount + i) % M, asdu |-> asdus[i]]
              /\ asdus[i] \in ASDUs
<1> DEFINE a == Len(asdus)
<1>1. a \in Nat /\ \A i \in 1 .. a : asdus[i] \in ASDUs
  BY LenProperties, ElementOfSeq
<1>2. ASSUME NEW i \in 1 .. a
      PROVE  (sendCount + i - 1) % M \in SeqNo /\ (sendCount + i) % M \in SeqNo
  <2>1. sendCount + i - 1 \in Int /\ sendCount + i \in Int
    BY <1>1, Modulo
  <2> QED BY <2>1, Modulo
<1>3. IFrames(asdus, nr) \in [1 .. a -> Frames] /\ Numbered(asdus) \in [1 .. a -> Numbers]
  BY <1>1, <1>2 DEF IFrames, IFrame, Numbered, Frames, Numbers, ASDUs
<1>4. /\ IFrames(asdus, nr) \in Seq(Frames) /\ Len(IFrames(asdus, nr)) = a
      /\ Numbered(asdus) \in Seq(Numbers) /\ Len(Numbered(asdus)) = a
  <2> HIDE DEF a, Frames, Numbers
  <2> QED BY <1>1, <1>3, FunctionIsSeq
<1>5. ASSUME NEW i \in 1 .. a
      PROVE  /\ IFrames(asdus, nr)[i] = IFrame((sendCount + i - 1) % M, nr, asdus[i])
             /\ Numbered(asdus)[i] = [seqNo |-> (sendCount + i) % M, asdu |-> asdus[i]]
  BY Zenon DEF IFrames, Numbered
<1> QED BY <1>1, <1>4, <1>5

(* Replies of a handler are ASDUs.                                         *)
LEMMA RepliesType ==
  ASSUME NEW n \in Nat
  PROVE  /\ Replies(n) \in Seq(ASDUs) /\ Len(Replies(n)) = n
         /\ Replies(n) = << >> <=> n = 0
<1>1. Replies(n) \in [1 .. n -> ASDUs]
  BY DEF Replies, ASDUs
<1>2. Replies(n) \in Seq(ASDUs) /\ Len(Replies(n)) = n
  BY <1>1, FunctionIsSeq
<1> QED BY <1>2, EmptySeq

(* The entries of the k-buffer and of the queue, and the messages.         *)
LEMMA Elements ==
  ASSUME TypeOK
  PROVE  /\ Len(sentASDUs) \in Nat /\ sentASDUs \in Seq(Numbers)
         /\ \A n \in 1 .. Len(sentASDUs) : sentASDUs[n] \in Numbers
         /\ Len(lowPrioQueue) \in Nat /\ lowPrioQueue \in Seq(Entries)
         /\ \A n \in 1 .. Len(lowPrioQueue) : lowPrioQueue[n] \in Entries
         /\ \A n \in 1 .. Len(lowPrioQueue) : lowPrioQueue[n].event \in Events
         /\ Len(toPeer) \in Nat /\ \A n \in 1 .. Len(toPeer) : toPeer[n] \in Frames
         /\ Len(toServer) \in Nat /\ \A n \in 1 .. Len(toServer) : toServer[n] \in Frames
         /\ Len(delivered) \in Nat /\ \A n \in 1 .. Len(delivered) : delivered[n] \in Events
<1>1. /\ sentASDUs \in Seq(Numbers) /\ lowPrioQueue \in Seq(Entries)
      /\ toPeer \in Seq(Frames) /\ toServer \in Seq(Frames) /\ delivered \in Seq(Events)
  BY DEF TypeOK, Numbers, Entries, ASDUs
<1>2. \A entry \in Entries : entry.event \in Events
  BY ConnectionBoundsAssumption DEF TypeOK, Entries, Events
<1> HIDE DEF Numbers, Entries, Frames
<1> QED BY <1>1, <1>2, LenProperties, ElementOfSeq

(* The loop of checkSequenceNumber stops somewhere in the k-buffer.        *)
LEMMA ReleasedType ==
  ASSUME TypeOK, NEW nr \in SeqNo
  PROVE  /\ Released(nr) \in 0 .. Len(sentASDUs) /\ StopsAfter(nr, Released(nr))
         /\ \A m \in 0 .. Released(nr) - 1 : ~ StopsAfter(nr, m)
<1> DEFINE S == {n \in 0 .. Len(sentASDUs) : StopsAfter(nr, n)}
<1>1. Len(sentASDUs) \in Nat /\ Len(sentASDUs) \in S /\ S \in SUBSET Nat
  BY Elements DEF StopsAfter
<1>2. PICK n \in S : \A k \in S : n <= k
  <2> HIDE DEF S
  <2> QED BY <1>1, LeastElement
<1>3. \A m \in 0 .. n - 1 : m \in 0 .. Len(sentASDUs) /\ m \notin S
  BY <1>1, <1>2
<1>4. n \in 0 .. Len(sentASDUs) /\ StopsAfter(nr, n) /\ \A m \in 0 .. n - 1 : ~ StopsAfter(nr, m)
  BY <1>2, <1>3
<1> HIDE DEF S
<1> QED BY <1>4 DEF Released

(* What an acknowledgement leaves of the k-buffer.                         *)
LEMMA UnreleasedType ==
  ASSUME TypeOK, NEW nr \in SeqNo
  PROVE  /\ Unreleased(nr) \in Seq(Numbers)
         /\ Len(Unreleased(nr)) = Len(sentASDUs) - Released(nr)
         /\ \A i \in 1 .. Len(sentASDUs) - Released(nr) :
              Unreleased(nr)[i] = sentASDUs[Released(nr) + i]
<1>1. Released(nr) \in 0 .. Len(sentASDUs) /\ Len(sentASDUs) \in Nat
  BY ReleasedType, Elements
<1>2. \A i \in Released(nr) + 1 .. Len(sentASDUs) : sentASDUs[i] \in Numbers
  BY <1>1, Elements
<1> HIDE DEF Numbers
<1> QED BY <1>1, <1>2, SubSeqProperties DEF Unreleased

(* What an acknowledgement takes off the event queue is its front: up to   *)
(* the newest released event that is still there.                          *)
LEMMA UnconfirmedType ==
  ASSUME TypeOK, NEW nr \in SeqNo
  PROVE  \E freed \in 0 .. Len(lowPrioQueue) :
           /\ freed \in Confirmed(nr) \union {0} /\ \A i \in Confirmed(nr) : i <= freed
           /\ Unconfirmed(nr) \in Seq(Entries)
           /\ Len(Unconfirmed(nr)) = Len(lowPrioQueue) - freed
           /\ \A i \in 1 .. Len(lowPrioQueue) - freed :
                Unconfirmed(nr)[i] = lowPrioQueue[freed + i]
<1> DEFINE S == Confirmed(nr) \union {0}
           freed == CHOOSE n \in S : \A i \in Confirmed(nr) : i <= n
<1>1. Len(lowPrioQueue) \in Nat /\ S \in SUBSET (0 .. Len(lowPrioQueue)) /\ S # {}
  BY DEF TypeOK, Confirmed
<1>2. \E n \in S : \A i \in S : i <= n
  BY <1>1, GreatestElement
<1>3. freed \in S /\ \A i \in Confirmed(nr) : i <= freed
  BY <1>2
<1>4. Unconfirmed(nr) = SubSeq(lowPrioQueue, freed + 1, Len(lowPrioQueue))
  BY DEF Unconfirmed
<1> HIDE DEF freed, S, Entries
<1>5. freed \in 0 .. Len(lowPrioQueue)
  BY <1>1, <1>3
<1>6. \A i \in freed + 1 .. Len(lowPrioQueue) : lowPrioQueue[i] \in Entries
  BY <1>1, <1>5, Elements
<1>7. /\ SubSeq(lowPrioQueue, freed + 1, Len(lowPrioQueue)) \in Seq(Entries)
      /\ Len(SubSeq(lowPrioQueue, freed + 1, Len(lowPrioQueue))) = Len(lowPrioQueue) - freed
      /\ \A i \in 1 .. Len(lowPrioQueue) - freed :
           SubSeq(lowPrioQueue, freed + 1, Len(lowPrioQueue))[i] = lowPrioQueue[freed + i]
  BY <1>1, <1>5, <1>6, SubSeqProperties
<1> QED BY <1>3, <1>4, <1>5, <1>7 DEF S

-----------------------------------------------------------------------------
(* Types.                                                                  *)

(* The types at the start.                                                 *)
LEMMA InitType == Init => TypeOK
<1> SUFFICES ASSUME Init PROVE TypeOK
  OBVIOUS
<1>1. 0 \in SeqNo /\ 0 \in 0 .. W - 1 /\ 0 \in 0 .. HighSize /\ 0 \in 0 .. MaxEvents
      /\ 0 \in 0 .. MaxRequests /\ 0 \in 0 .. MaxControls /\ 0 <= K /\ 0 <= LowSize
  BY ParametersAssumption, ConnectionBoundsAssumption DEF SeqNo
<1>2. /\ sentASDUs \in Seq([seqNo : SeqNo, asdu : Events \union {Reply}]) /\ Len(sentASDUs) = 0
      /\ lowPrioQueue \in Seq([event : 1 .. produced, sent : BOOLEAN])
      /\ Len(lowPrioQueue) = 0
      /\ marks \in Seq([slot : 0 .. LowSize - 1, time : Times]) /\ Len(marks) = produced
      /\ toPeer \in Seq(Frames) /\ toServer \in Seq(Frames) /\ delivered \in Seq(Events)
  BY EmptySeq DEF Init
<1>3. Len(sentASDUs) <= K /\ Len(lowPrioQueue) <= LowSize
  BY <1>1, <1>2
<1>4. /\ {peerSend, peerReceive, peerAckSent, peerAcked} \subseteq SeqNo
      /\ produced \in 0 .. MaxEvents /\ requests \in 0 .. MaxRequests
      /\ controls \in 0 .. MaxControls /\ overwritten \subseteq Events
      /\ unconfirmedReceivedIMessages \in 0 .. W - 1 /\ highPrioQueue \in 0 .. HighSize
      /\ outstandingTestFRConMessages \in 0 .. 3 /\ sendCount \in SeqNo /\ receiveCount \in SeqNo
  BY <1>1 DEF Init
<1>5. /\ pc \in {"receive", "timeouts", "send", "closed"} /\ isRunning \in BOOLEAN
      /\ isActive \in BOOLEAN /\ peerAlive \in BOOLEAN /\ conforms \in BOOLEAN
      /\ peerState \in {"stopped", "starting", "started", "stopping"}
      /\ cause \in {"none", "sequence", "timeout", "peer"}
  BY DEF Init
<1> QED BY <1>2, <1>3, <1>4, <1>5 DEF TypeOK

(* The message at hand, and what remains.                                  *)
LEMMA ReceivedType ==
  ASSUME TypeOK, toServer # << >>
  PROVE  /\ Tail(toServer) \in Seq(Frames) /\ Len(toServer) \in Nat \ {0}
         /\ Head(toServer) = toServer[1] /\ Head(toServer) \in Frames
         /\ Len(Tail(toServer)) = Len(toServer) - 1
         /\ \A i \in 1 .. Len(toServer) - 1 : Tail(toServer)[i] = toServer[i + 1]
         /\ Head(toServer).kind \in {"I", "S"} => Head(toServer).nr \in SeqNo
         /\ Head(toServer).kind = "I" => Head(toServer).ns \in SeqNo
<1>1. toServer \in Seq(Frames)
  BY DEF TypeOK
<1>2. /\ Tail(toServer) \in Seq(Frames) /\ Len(toServer) \in Nat \ {0}
      /\ Head(toServer) = toServer[1] /\ Head(toServer) \in Frames
      /\ Len(Tail(toServer)) = Len(toServer) - 1
      /\ \A i \in 1 .. Len(toServer) - 1 : Tail(toServer)[i] = toServer[i + 1]
  <2> HIDE DEF Frames
  <2> QED BY <1>1, HeadTailProperties, EmptySeq
<1>3. \A f \in Frames : /\ f.kind \in {"I", "S"} => f.nr \in SeqNo
                        /\ f.kind = "I" => f.ns \in SeqNo
  BY DEF Frames
<1> QED BY <1>2, <1>3

(* What the peer leaves on its way.                                        *)
LEMMA PeerReceivedType ==
  ASSUME TypeOK, toPeer # << >>
  PROVE  /\ Tail(toPeer) \in Seq(Frames) /\ Len(toPeer) \in Nat \ {0}
         /\ Head(toPeer) = toPeer[1] /\ Head(toPeer) \in Frames
         /\ Len(Tail(toPeer)) = Len(toPeer) - 1
         /\ \A i \in 1 .. Len(toPeer) - 1 : Tail(toPeer)[i] = toPeer[i + 1]
         /\ Head(toPeer).kind \in {"I", "S"} => Head(toPeer).nr \in SeqNo
         /\ Head(toPeer).kind = "I" => /\ Head(toPeer).ns \in SeqNo /\ Head(toPeer).asdu \in ASDUs
<1>1. toPeer \in Seq(Frames)
  BY DEF TypeOK
<1>2. /\ Tail(toPeer) \in Seq(Frames) /\ Len(toPeer) \in Nat \ {0}
      /\ Head(toPeer) = toPeer[1] /\ Head(toPeer) \in Frames
      /\ Len(Tail(toPeer)) = Len(toPeer) - 1
      /\ \A i \in 1 .. Len(toPeer) - 1 : Tail(toPeer)[i] = toPeer[i + 1]
  <2> HIDE DEF Frames
  <2> QED BY <1>1, HeadTailProperties, EmptySeq
<1>3. \A f \in Frames : /\ f.kind \in {"I", "S"} => f.nr \in SeqNo
                        /\ f.kind = "I" => f.ns \in SeqNo /\ f.asdu \in ASDUs
  BY DEF Frames, ASDUs
<1> QED BY <1>2, <1>3

(* Messages one direction carries after some were appended.                *)
LEMMA AppendedType ==
  ASSUME NEW frames \in Seq(Frames), NEW f \in Frames
  PROVE  /\ Append(frames, f) \in Seq(Frames) /\ Len(Append(frames, f)) = Len(frames) + 1
         /\ \A i \in 1 .. Len(frames) : Append(frames, f)[i] = frames[i]
         /\ Append(frames, f)[Len(frames) + 1] = f
<1> HIDE DEF Frames
<1> QED BY AppendProperties

(* The frames that are sent are frames.                                    *)
LEMMA FrameTypes ==
  /\ \A nr \in SeqNo : SFrame(nr) \in Frames /\ <<SFrame(nr)>> \in Seq(Frames)
  /\ \A ns, nr \in SeqNo : IFrame(ns, nr, Reply) \in Frames
  /\ \A k \in {"STARTDT_ACT", "STARTDT_CON", "STOPDT_ACT", "STOPDT_CON",
               "TESTFR_ACT", "TESTFR_CON", "CLOSE"} :
       UFrame(k) \in Frames /\ <<UFrame(k)>> \in Seq(Frames)
BY DEF SFrame, IFrame, UFrame, Frames

(* A handled I message: what it releases, and the replies it causes.       *)
LEMMA RoomForReplies ==
  ASSUME TypeOK, NEW nr \in SeqNo, NEW replies \in Nat
  PROVE  LET room == K - Len(Unreleased(nr))
             n == Smaller(replies, room)
         IN  /\ room \in Nat /\ n \in Nat /\ n <= room /\ n <= replies
             /\ Len(Unreleased(nr)) \in Nat
<1>1. Len(Unreleased(nr)) \in Nat /\ Len(Unreleased(nr)) <= K /\ K \in Nat
  <2>1. Released(nr) \in 0 .. Len(sentASDUs) /\ Len(sentASDUs) \in Nat /\ Len(sentASDUs) <= K
    BY ReleasedType, Elements DEF TypeOK
  <2> QED BY <2>1, UnreleasedType, ParametersAssumption
<1> QED BY <1>1 DEF Smaller

(* What a message adds: replies, an acknowledgement or nothing.            *)
LEMMA ReceiveIType ==
  ASSUME TypeOK, ReceiveI
  PROVE  /\ TypeOK'
         /\ \E direct \in Seq(ASDUs), sendS \in BOOLEAN :
              /\ \A i \in 1 .. Len(direct) : direct[i] = Reply
              /\ direct # << >> => isActive
              /\ sentASDUs' = Unreleased(Head(toServer).nr) \o Numbered(direct)
              /\ sendCount' = (sendCount + Len(direct)) % M
              /\ toPeer' = (toPeer \o IFrames(direct, receiveCount'))
                            \o (IF sendS THEN <<SFrame(receiveCount')>> ELSE << >>)
              /\ unconfirmedReceivedIMessages' =
                   IF direct # << >> \/ sendS THEN 0 ELSE unconfirmedReceivedIMessages + 1
<1> DEFINE f == Head(toServer)
           nr == Succ(receiveCount)
           room == K - Len(Unreleased(f.nr))
<1>1. toServer' \in Seq(Frames) /\ f.nr \in SeqNo /\ nr \in SeqNo
  BY ReceivedType, Modulo DEF ReceiveI, Receives, TypeOK
<1>2. PICK replies \in (IF isActive THEN 0 .. MaxReplies ELSE {0}) :
        LET direct == Replies(Smaller(replies, room))
            rest == replies - Len(direct)
            sendS == direct = << >> /\ Acknowledges(unconfirmedReceivedIMessages + 1)
        IN  /\ sentASDUs' = Unreleased(f.nr) \o Numbered(direct)
            /\ sendCount' = (sendCount + Len(direct)) % M
            /\ highPrioQueue' = Smaller(highPrioQueue + rest, HighSize)
            /\ toPeer' = toPeer \o IFrames(direct, nr)
                                \o (IF sendS THEN <<SFrame(nr)>> ELSE << >>)
            /\ unconfirmedReceivedIMessages' =
                 IF direct # << >> \/ sendS THEN 0 ELSE unconfirmedReceivedIMessages + 1
  BY DEF ReceiveI
<1> DEFINE direct == Replies(Smaller(replies, room))
           sendS == direct = << >> /\ Acknowledges(unconfirmedReceivedIMessages + 1)
           more == IF sendS THEN <<SFrame(nr)>> ELSE << >>
<1>3. /\ replies \in Nat /\ Smaller(replies, room) \in Nat
      /\ Smaller(replies, room) <= room /\ Smaller(replies, room) <= replies
  <2>1. replies \in Nat
    BY ConnectionBoundsAssumption
  <2> HIDE DEF f
  <2> QED BY <1>1, <2>1, RoomForReplies
<1>4. direct \in Seq(ASDUs) /\ Len(direct) = Smaller(replies, room)
  BY <1>3, RepliesType
<1>5. more \in Seq(Frames)
  BY <1>1, FrameTypes, EmptySeq
<1>6. /\ sentASDUs' = Unreleased(f.nr) \o Numbered(direct)
      /\ sendCount' = (sendCount + Len(direct)) % M
      /\ highPrioQueue' = Smaller(highPrioQueue + (replies - Len(direct)), HighSize)
      /\ toPeer' = (toPeer \o IFrames(direct, nr)) \o more
      /\ unconfirmedReceivedIMessages' =
           IF direct # << >> \/ sendS THEN 0 ELSE unconfirmedReceivedIMessages + 1
  BY <1>2
<1> HIDE DEF direct, more, room, nr, f
<1>7. sendCount \in SeqNo /\ receiveCount \in SeqNo
  BY DEF TypeOK
<1>8. sentASDUs' \in Seq(Numbers) /\ Len(sentASDUs') <= K
  <2>1. /\ Unreleased(f.nr) \in Seq(Numbers) /\ Numbered(direct) \in Seq(Numbers)
        /\ Len(Numbered(direct)) = Len(direct) /\ Len(Unreleased(f.nr)) \in Nat
    BY <1>1, <1>4, <1>7, UnreleasedType, IFramesType, RoomForReplies
  <2> QED BY <1>3, <1>4, <1>6, <2>1, ConcatProperties, ParametersAssumption DEF room, Numbers
<1>9. toPeer' \in Seq(Frames)
  <2>1. toPeer \in Seq(Frames) /\ IFrames(direct, nr) \in Seq(Frames)
    BY <1>1, <1>4, <1>7, IFramesType DEF TypeOK
  <2> HIDE DEF Frames
  <2> QED BY <1>5, <1>6, <2>1, ConcatProperties
<1>10. sendCount' \in SeqNo
  BY <1>3, <1>4, <1>6, <1>7, Modulo
<1>0. highPrioQueue' \in 0 .. HighSize
  <2>1. /\ highPrioQueue \in 0 .. HighSize /\ HighSize \in Nat
        /\ replies - Len(direct) \in Nat
    BY <1>3, <1>4, ParametersAssumption DEF TypeOK
  <2> QED BY <1>6, <2>1 DEF Smaller
<1>12. unconfirmedReceivedIMessages' \in 0 .. W - 1
  <2>1. unconfirmedReceivedIMessages \in 0 .. W - 1 /\ W \in Nat \ {0}
    BY ParametersAssumption DEF TypeOK
  <2>2. CASE direct # << >> \/ sendS
    BY <1>6, <2>1, <2>2
  <2>3. CASE ~ (direct # << >> \/ sendS)
    BY <1>6, <2>1, <2>3 DEF Acknowledges
  <2> QED BY <2>2, <2>3
<1>13. /\ lowPrioQueue' \in Seq(Entries) /\ Len(lowPrioQueue') <= LowSize
  <2>1. lowPrioQueue' = Unconfirmed(f.nr)
    BY DEF ReceiveI, f
  <2>2. PICK freed \in 0 .. Len(lowPrioQueue) :
          Unconfirmed(f.nr) \in Seq(Entries) /\ Len(Unconfirmed(f.nr)) = Len(lowPrioQueue) - freed
    BY <1>1, UnconfirmedType
  <2> QED BY <2>1, <2>2, Elements, ParametersAssumption DEF TypeOK
<1>14. receiveCount' \in SeqNo
  BY <1>1 DEF ReceiveI, nr
<1>15. pc' = "timeouts"
  BY DEF ReceiveI, Receives
<1>16. UNCHANGED <<isRunning, isActive, outstandingTestFRConMessages, marks, peerVars, history>>
  BY DEF ReceiveI
<1>17. TypeOK'
  BY <1>1, <1>8, <1>9, <1>10, <1>0, <1>12, <1>13, <1>14, <1>15, <1>16
     DEF TypeOK, peerVars, history, Numbers, Entries, ASDUs
<1>18. (\A i \in 1 .. Len(direct) : direct[i] = Reply) /\ (direct # << >> => isActive)
  <2>1. direct = Replies(Smaller(replies, room))
    BY DEF direct
  <2>2. \A i \in 1 .. Len(direct) : direct[i] = Reply
    BY <1>3, <1>4, <2>1 DEF Replies
  <2>3. ASSUME direct # << >> PROVE isActive
    <3>1. Smaller(replies, room) # 0
      BY <1>3, <2>1, <2>3, RepliesType
    <3> QED BY <1>2, <1>3, <3>1
  <2> QED BY <2>2, <2>3
<1>19. sendS \in BOOLEAN /\ receiveCount' = nr
  BY DEF ReceiveI, nr
<1> QED BY <1>4, <1>6, <1>17, <1>18, <1>19 DEF more, f

(* Receiving keeps the types.                                              *)
LEMMA ReceiveType ==
  ASSUME TypeOK, ReceiveNothing \/ ReceiveMessage
  PROVE  TypeOK'
<1> USE DEF TypeOK, counters, queues, peerVars, history
<1>1. CASE ReceiveNothing
  BY <1>1 DEF ReceiveNothing
<1>2. CASE ReceiveI
  BY <1>2, ReceiveIType
<1>3. CASE ReceiveS
  <2> DEFINE f == Head(toServer)
  <2>1. toServer' \in Seq(Frames) /\ f.nr \in SeqNo /\ pc' = "timeouts"
    BY <1>3, ReceivedType DEF ReceiveS, Receives
  <2>2. sentASDUs' \in Seq(Numbers) /\ Len(sentASDUs') <= K
    <3>1. Released(f.nr) \in 0 .. Len(sentASDUs) /\ Len(sentASDUs) \in Nat /\ Len(sentASDUs) <= K
      BY <2>1, ReleasedType, Elements
    <3>2. sentASDUs' = Unreleased(f.nr)
      BY <1>3 DEF ReceiveS
    <3>3. /\ Unreleased(f.nr) \in Seq(Numbers)
          /\ Len(Unreleased(f.nr)) = Len(sentASDUs) - Released(f.nr)
      BY <2>1, UnreleasedType
    <3>4. K \in Nat
      BY ParametersAssumption
    <3>5. Len(Unreleased(f.nr)) <= K
      BY <3>1, <3>3, <3>4
    <3> QED BY <3>2, <3>3, <3>5
  <2>3. lowPrioQueue' \in Seq(Entries) /\ Len(lowPrioQueue') <= LowSize
    <3>1. PICK freed \in 0 .. Len(lowPrioQueue) :
            Unconfirmed(f.nr) \in Seq(Entries) /\ Len(Unconfirmed(f.nr)) = Len(lowPrioQueue) - freed
      BY <2>1, UnconfirmedType
    <3>2. lowPrioQueue' = Unconfirmed(f.nr) /\ Len(lowPrioQueue) <= LowSize
      BY <1>3 DEF ReceiveS
    <3> QED BY <3>1, <3>2, Elements, ParametersAssumption
  <2> QED BY <1>3, <2>1, <2>2, <2>3 DEF ReceiveS, Numbers, Entries, ASDUs
<1>4. CASE RejectMessage
  <2>1. toServer' \in Seq(Frames)
    BY <1>4, ReceivedType DEF RejectMessage, Receives
  <2> QED BY <1>4, <2>1 DEF RejectMessage, Receives
<1>5. CASE ReceiveStartDT
  <2>1. toServer' \in Seq(Frames) /\ toPeer' \in Seq(Frames)
    BY <1>5, ReceivedType, FrameTypes, AppendedType DEF ReceiveStartDT, Receives
  <2> QED BY <1>5, <2>1, ParametersAssumption DEF ReceiveStartDT, Receives
<1>6. CASE ReceiveStopDT
  <2>1. toServer' \in Seq(Frames) /\ toPeer' \in Seq(Frames)
    BY <1>6, ReceivedType, FrameTypes, AppendedType DEF ReceiveStopDT, Receives
  <2> QED BY <1>6, <2>1 DEF ReceiveStopDT, Receives, Deactivate
<1>7. CASE ReceiveTestFR
  <2>1. toServer' \in Seq(Frames) /\ toPeer' \in Seq(Frames)
    BY <1>7, ReceivedType, FrameTypes, AppendedType DEF ReceiveTestFR, Receives
  <2> QED BY <1>7, <2>1 DEF ReceiveTestFR, Receives
<1>8. CASE ReceiveTestFRCon
  <2>1. toServer' \in Seq(Frames)
    BY <1>8, ReceivedType DEF ReceiveTestFRCon, Receives
  <2> QED BY <1>8, <2>1 DEF ReceiveTestFRCon, Receives
<1>9. CASE ReceiveClose
  <2>1. toServer' \in Seq(Frames)
    BY <1>9, ReceivedType DEF ReceiveClose
  <2>2. /\ lowPrioQueue' \in Seq([event : 1 .. produced', sent : BOOLEAN])
        /\ Len(lowPrioQueue') = 0
    BY <1>9, EmptySeq DEF ReceiveClose
  <2>3. Len(lowPrioQueue') <= LowSize /\ highPrioQueue' \in 0 .. HighSize
    BY <1>9, <2>2, ParametersAssumption DEF ReceiveClose
  <2> QED BY <1>9, <2>1, <2>2, <2>3 DEF ReceiveClose
<1> QED BY <1>1, <1>2, <1>3, <1>4, <1>5, <1>6, <1>7, <1>8, <1>9 DEF ReceiveMessage

(* Handling time-outs keeps the types.                                     *)
LEMMA TimeoutsType ==
  ASSUME TypeOK, Timeouts
  PROVE  TypeOK'
<1>1. PICK t1 \in BOOLEAN, t2 \in BOOLEAN, t3 \in BOOLEAN : HandleTimeouts(t1, t2, t3)
  BY DEF Timeouts, MayExpire
<1> DEFINE test == IF t3 /\ Supervised THEN <<UFrame("TESTFR_ACT")>> ELSE << >>
           confirm == IF Confirms(t2) THEN <<SFrame(receiveCount)>> ELSE << >>
<1>2. toPeer' = (toPeer \o test) \o confirm
  BY <1>1 DEF HandleTimeouts
<1>3. test \in Seq(Frames) /\ confirm \in Seq(Frames) /\ toPeer \in Seq(Frames)
  BY FrameTypes, EmptySeq DEF TypeOK
<1>4. toPeer' \in Seq(Frames)
  <2> HIDE DEF test, confirm, Frames
  <2> QED BY <1>2, <1>3, ConcatProperties
<1>5. outstandingTestFRConMessages' \in 0 .. 3
  BY <1>1 DEF HandleTimeouts, Supervised, TypeOK
<1>6. unconfirmedReceivedIMessages' \in 0 .. W - 1
  BY <1>1, ParametersAssumption DEF HandleTimeouts, TypeOK
<1>7. isRunning' \in BOOLEAN /\ cause' \in {"none", "sequence", "timeout", "peer"} /\ pc' = "send"
  BY <1>1 DEF HandleTimeouts, TypeOK
<1>8. UNCHANGED <<isActive, sendCount, receiveCount, sentASDUs, queues, toServer, peerVars,
                  produced, requests, controls, delivered, overwritten>>
  BY <1>1 DEF HandleTimeouts
<1> QED BY <1>4, <1>5, <1>6, <1>7, <1>8 DEF TypeOK, queues, peerVars

(* What the third phase sends: replies, and one event when there is room   *)
(* for it behind them.                                                     *)
LEMMA SendType ==
  ASSUME TypeOK, SendWaitingASDUs
  PROVE  /\ TypeOK'
         /\ \E next \in 0 .. Len(lowPrioQueue), asdus \in Seq(ASDUs) :
              /\ next # 0 => IsNext(next)
              /\ \A i \in 1 .. Len(asdus) :
                   asdus[i] # Reply =>
                     next # 0 /\ i = Len(asdus) /\ asdus[i] = lowPrioQueue[next].event
              /\ next # 0 => asdus # << >> /\ asdus[Len(asdus)] = lowPrioQueue[next].event
              /\ lowPrioQueue' = [i \in 1 .. Len(lowPrioQueue) |->
                                    IF i = next THEN [lowPrioQueue[i] EXCEPT !.sent = TRUE]
                                                ELSE lowPrioQueue[i]]
              /\ sentASDUs' = sentASDUs \o Numbered(asdus)
              /\ toPeer' = toPeer \o IFrames(asdus, receiveCount)
              /\ sendCount' = (sendCount + Len(asdus)) % M
              /\ unconfirmedReceivedIMessages' =
                   IF asdus # << >> THEN 0 ELSE unconfirmedReceivedIMessages
<1> DEFINE room == K - Len(sentASDUs)
           high == Replies(Smaller(highPrioQueue, room))
           lowMayBeSent == Len(high) = highPrioQueue /\ Len(high) < room
<1>1. PICK next \in {i \in 1 .. Len(lowPrioQueue) : lowMayBeSent /\ IsNext(i)} \union {0} :
        LET low == IF next = 0 THEN << >> ELSE <<lowPrioQueue[next].event>>
            asdus == high \o low
        IN  /\ lowPrioQueue' = [i \in 1 .. Len(lowPrioQueue) |->
                                  IF i = next THEN [lowPrioQueue[i] EXCEPT !.sent = TRUE]
                                              ELSE lowPrioQueue[i]]
            /\ sentASDUs' = sentASDUs \o Numbered(asdus)
            /\ toPeer' = toPeer \o IFrames(asdus, receiveCount)
            /\ sendCount' = (sendCount + Len(asdus)) % M
            /\ unconfirmedReceivedIMessages' =
                 IF asdus # << >> THEN 0 ELSE unconfirmedReceivedIMessages
  BY DEF SendWaitingASDUs
<1> DEFINE low == IF next = 0 THEN << >> ELSE <<lowPrioQueue[next].event>>
           asdus == high \o low
<1>2. /\ lowPrioQueue' = [i \in 1 .. Len(lowPrioQueue) |->
                            IF i = next THEN [lowPrioQueue[i] EXCEPT !.sent = TRUE]
                                        ELSE lowPrioQueue[i]]
      /\ sentASDUs' = sentASDUs \o Numbered(asdus)
      /\ toPeer' = toPeer \o IFrames(asdus, receiveCount)
      /\ sendCount' = (sendCount + Len(asdus)) % M
      /\ unconfirmedReceivedIMessages' = IF asdus # << >> THEN 0 ELSE unconfirmedReceivedIMessages
  BY <1>1
<1>3. /\ room \in Nat /\ highPrioQueue \in Nat /\ Smaller(highPrioQueue, room) \in Nat
      /\ Smaller(highPrioQueue, room) <= room /\ Smaller(highPrioQueue, room) <= highPrioQueue
  BY Elements, ParametersAssumption DEF TypeOK, Smaller
<1>4. /\ high \in Seq(ASDUs) /\ Len(high) = Smaller(highPrioQueue, room)
      /\ \A i \in 1 .. Len(high) : high[i] = Reply
  <2>1. high \in Seq(ASDUs) /\ Len(high) = Smaller(highPrioQueue, room)
    BY <1>3, RepliesType
  <2> HIDE DEF room
  <2> QED BY <1>3, <2>1 DEF Replies
<1>5. next \in 0 .. Len(lowPrioQueue) /\ (next # 0 => lowMayBeSent /\ IsNext(next))
  BY <1>1, Elements
<1> HIDE DEF room, high, lowMayBeSent
<1>6. /\ low \in Seq(ASDUs) /\ Len(low) = IF next = 0 THEN 0 ELSE 1
      /\ next # 0 => low[1] = lowPrioQueue[next].event
  <2>1. next # 0 => lowPrioQueue[next].event \in ASDUs
    BY <1>5, Elements DEF ASDUs
  <2>2. CASE next = 0
    BY <2>2, EmptySeq
  <2>3. CASE next # 0
    BY <2>1, <2>3
  <2> QED BY <2>2, <2>3
<1> HIDE DEF low
<1>7. /\ asdus \in Seq(ASDUs) /\ Len(asdus) = Len(high) + Len(low)
      /\ \A i \in 1 .. Len(high) + Len(low) :
           asdus[i] = IF i <= Len(high) THEN high[i] ELSE low[i - Len(high)]
  BY <1>4, <1>6, ConcatProperties
<1>8. /\ \A i \in 1 .. Len(asdus) :
           asdus[i] # Reply =>
             next # 0 /\ i = Len(asdus) /\ asdus[i] = lowPrioQueue[next].event
      /\ next # 0 => asdus # << >> /\ asdus[Len(asdus)] = lowPrioQueue[next].event
  <2> HIDE DEF asdus
  <2>1. Len(high) \in Nat /\ Len(asdus) \in Nat
    BY <1>3, <1>4, <1>6, <1>7
  <2>2. ASSUME next # 0 PROVE asdus # << >> /\ asdus[Len(asdus)] = lowPrioQueue[next].event
    BY <1>6, <1>7, <2>1, <2>2, EmptySeq
  <2>3. ASSUME NEW i \in 1 .. Len(asdus), asdus[i] # Reply
        PROVE  next # 0 /\ i = Len(asdus) /\ asdus[i] = lowPrioQueue[next].event
    BY <1>4, <1>6, <1>7, <2>1, <2>3
  <2> QED BY <2>2, <2>3
<1> HIDE DEF asdus
<1>9. sendCount \in SeqNo /\ receiveCount \in SeqNo
  BY DEF TypeOK
<1>10. sentASDUs' \in Seq(Numbers) /\ Len(sentASDUs') <= K
  <2>1. Len(asdus) <= room
    BY <1>3, <1>4, <1>5, <1>6, <1>7 DEF lowMayBeSent
  <2>2. Numbered(asdus) \in Seq(Numbers) /\ Len(Numbered(asdus)) = Len(asdus)
    BY <1>7, <1>9, IFramesType
  <2>3. sentASDUs \in Seq(Numbers) /\ Len(sentASDUs) \in Nat
    BY Elements
  <2>4. Len(asdus) \in Nat
    BY <1>7, LenProperties
  <2> HIDE DEF Numbers
  <2> QED BY <1>2, <2>1, <2>2, <2>3, <2>4, ConcatProperties, ParametersAssumption DEF room
<1>0. toPeer' \in Seq(Frames)
  <2>1. toPeer \in Seq(Frames) /\ IFrames(asdus, receiveCount) \in Seq(Frames)
    BY <1>7, <1>9, IFramesType DEF TypeOK
  <2> HIDE DEF Frames
  <2> QED BY <1>2, <2>1, ConcatProperties
<1>12. sendCount' \in SeqNo
  <2>1. sendCount + Len(asdus) \in Int
    <3>1. Len(asdus) \in Nat /\ sendCount \in Nat
      BY <1>7, <1>9, LenProperties, Modulo
    <3> QED BY <3>1
  <2> QED BY <1>2, <2>1, Modulo
<1>13. lowPrioQueue' \in Seq(Entries) /\ Len(lowPrioQueue') <= LowSize
  <2>1. \A i \in 1 .. Len(lowPrioQueue) : lowPrioQueue[i] \in Entries
    BY Elements
  <2>2. lowPrioQueue' \in [1 .. Len(lowPrioQueue) -> Entries]
    BY <1>2, <2>1 DEF Entries
  <2>3. lowPrioQueue' \in Seq(Entries) /\ Len(lowPrioQueue') = Len(lowPrioQueue)
    BY <2>2, Elements, FunctionIsSeq
  <2> QED BY <2>3 DEF TypeOK
<1>14. highPrioQueue' \in 0 .. HighSize
  <2>1. highPrioQueue' = highPrioQueue - Len(high)
    BY DEF SendWaitingASDUs, high, room
  <2> QED BY <1>3, <1>4, <2>1, ParametersAssumption DEF TypeOK
<1>15. unconfirmedReceivedIMessages' \in 0 .. W - 1
  BY <1>2, ParametersAssumption, SMTT(20) DEF TypeOK
<1>16. /\ pc' = "receive"
       /\ UNCHANGED <<isRunning, isActive, receiveCount, outstandingTestFRConMessages, marks,
                      toServer, peerVars, history>>
  BY DEF SendWaitingASDUs
<1>17. TypeOK'
  BY <1>10, <1>0, <1>12, <1>13, <1>14, <1>15, <1>16
     DEF TypeOK, peerVars, history, Numbers, Entries, ASDUs
<1> QED BY <1>2, <1>5, <1>7, <1>8, <1>17

(* An event adds one entry or replaces the oldest.                         *)
LEMMA EnqueueType ==
  ASSUME TypeOK, Enqueue
  PROVE  /\ TypeOK'
         /\ produced' = produced + 1 /\ produced \in Nat
         /\ \E dropped \in {0, 1} :
              LET kept == Len(lowPrioQueue) - dropped
              IN  /\ kept \in Nat /\ Len(lowPrioQueue') = kept + 1
                  /\ \A i \in 1 .. kept : lowPrioQueue'[i] = lowPrioQueue[i + dropped]
                  /\ lowPrioQueue'[kept + 1] = [event |-> produced + 1, sent |-> FALSE]
                  /\ overwritten' = overwritten \union {lowPrioQueue[i].event : i \in 1 .. dropped}
<1> DEFINE entry == [event |-> produced + 1, sent |-> FALSE]
<1>1. /\ produced \in Nat /\ produced + 1 \in 1 .. MaxEvents /\ produced' = produced + 1
  BY ConnectionBoundsAssumption DEF Enqueue, TypeOK
<1> DEFINE Later == [event : 1 .. produced + 1, sent : BOOLEAN]
<1>2. entry \in Later /\ Entries \subseteq Later
  BY <1>1 DEF Entries
<1>3. lowPrioQueue \in Seq(Later) /\ Len(lowPrioQueue) \in Nat /\ LowSize \in Nat \ {0}
      /\ Len(lowPrioQueue) <= LowSize
  <2>1. lowPrioQueue \in Seq(Entries)
    BY Elements
  <2>2. lowPrioQueue \in Seq(Later)
    <3> HIDE DEF Later, Entries
    <3> QED BY <1>2, <2>1, ElementOfSeq, LenProperties, SeqDef
  <2> QED BY <2>2, Elements, ParametersAssumption DEF TypeOK
<1>4. IF Len(lowPrioQueue) < LowSize
        THEN lowPrioQueue' = Append(lowPrioQueue, entry) /\ UNCHANGED overwritten
        ELSE /\ lowPrioQueue' = Append(Tail(lowPrioQueue), entry)
             /\ overwritten' = overwritten \union {lowPrioQueue[1].event}
  BY DEF Enqueue
<1>5. UNCHANGED <<pc, isRunning, isActive, counters, outstandingTestFRConMessages, sentASDUs,
                  highPrioQueue, toPeer, toServer, peerVars, requests, controls, delivered, cause>>
  BY DEF Enqueue
<1>8. marks' \in Seq(Marks) /\ Len(marks') = produced + 1
  <2>1. marks \in Seq(Marks) /\ Len(marks) = produced
    BY DEF TypeOK, Marks
  <2>2. NextSlot \in 0 .. LowSize - 1
    <3>1. CASE lowPrioQueue = << >>
      BY <1>3, <3>1 DEF NextSlot
    <3>2. CASE lowPrioQueue # << >>
      <4> DEFINE e == lowPrioQueue[Len(lowPrioQueue)].event
      <4>1. Len(lowPrioQueue) \in 1 .. Len(lowPrioQueue)
        BY <1>3, <3>2, EmptySeq
      <4>2. e \in 1 .. Len(marks)
        BY <2>1, <4>1, Elements DEF Entries
      <4>3. marks[e] \in Marks
        <5> HIDE DEF e, Marks
        <5> QED BY <2>1, <4>2, ElementOfSeq
      <4>4. marks[e].slot + 1 \in Int
        BY <4>3 DEF Marks
      <4>5. NextSlot = (marks[e].slot + 1) % LowSize
        BY <3>2 DEF NextSlot
      <4> HIDE DEF e
      <4> QED BY <1>3, <4>4, <4>5
    <3> QED BY <3>1, <3>2
  <2>3. PICK now \in Times : marks' = Append(marks, [slot |-> NextSlot, time |-> now])
    BY DEF Enqueue
  <2>4. [slot |-> NextSlot, time |-> now] \in Marks
    BY <2>2 DEF Marks
  <2> HIDE DEF Marks
  <2> QED BY <2>1, <2>3, <2>4, AppendProperties
<1> HIDE DEF entry, Later
<1>6. CASE Len(lowPrioQueue) < LowSize
  <2>1. /\ lowPrioQueue' \in Seq(Later) /\ Len(lowPrioQueue') = Len(lowPrioQueue) + 1
        /\ \A i \in 1 .. Len(lowPrioQueue) : lowPrioQueue'[i] = lowPrioQueue[i]
        /\ lowPrioQueue'[Len(lowPrioQueue) + 1] = entry
        /\ UNCHANGED overwritten
    <3> QED BY <1>2, <1>3, <1>4, <1>6, AppendProperties
  <2>2. Len(lowPrioQueue') <= LowSize
    BY <1>3, <1>6, <2>1
  <2>3. TypeOK'
    BY <1>1, <1>5, <1>8, <2>1, <2>2 DEF TypeOK, Later, Marks, counters, peerVars
  <2>4. {lowPrioQueue[i].event : i \in 1 .. 0} = {}
    OBVIOUS
  <2> QED BY <1>1, <1>3, <2>1, <2>3, <2>4 DEF entry
<1>7. CASE ~ (Len(lowPrioQueue) < LowSize)
  <2>1. lowPrioQueue # << >> /\ Len(lowPrioQueue) = LowSize
    BY <1>3, <1>7, EmptySeq
  <2>2. /\ Tail(lowPrioQueue) \in Seq(Later)
        /\ Len(Tail(lowPrioQueue)) = Len(lowPrioQueue) - 1
        /\ \A i \in 1 .. Len(lowPrioQueue) - 1 : Tail(lowPrioQueue)[i] = lowPrioQueue[i + 1]
    <3> QED BY <1>3, <2>1, HeadTailProperties
  <2>3. /\ lowPrioQueue' \in Seq(Later) /\ Len(lowPrioQueue') = Len(lowPrioQueue) - 1 + 1
        /\ \A i \in 1 .. Len(lowPrioQueue) - 1 : lowPrioQueue'[i] = lowPrioQueue[i + 1]
        /\ lowPrioQueue'[Len(lowPrioQueue) - 1 + 1] = entry
    <3> QED BY <1>2, <1>3, <1>4, <1>7, <2>1, <2>2, AppendProperties, SMTT(20)
  <2>4. lowPrioQueue[1].event \in Events /\ overwritten' = overwritten \union {lowPrioQueue[1].event}
    BY <1>3, <1>4, <1>7, <2>1, Elements
  <2>5. TypeOK'
    <3>1. Len(lowPrioQueue') <= LowSize
      BY <1>3, <2>1, <2>3
    <3>2. overwritten' \subseteq Events
      BY <2>4 DEF TypeOK
    <3> QED BY <1>1, <1>5, <1>8, <2>3, <3>1, <3>2 DEF TypeOK, Later, Marks, counters, peerVars
  <2>6. {lowPrioQueue[i].event : i \in 1 .. 1} = {lowPrioQueue[1].event}
    OBVIOUS
  <2> QED BY <1>1, <1>3, <2>1, <2>3, <2>4, <2>5, <2>6 DEF entry
<1> QED BY <1>6, <1>7

(* The peer takes the oldest message off its side of the connection.       *)
LEMMA PeerReceivesType ==
  ASSUME TypeOK, PeerReceives
  PROVE  TypeOK'
<1> DEFINE f == Head(toPeer)
<1>1. /\ toPeer # << >> /\ toPeer' \in Seq(Frames) /\ f \in Frames
      /\ f.kind \in {"I", "S"} => f.nr \in SeqNo
      /\ f.kind = "I" => f.asdu \in ASDUs
  BY PeerReceivedType DEF PeerReceives
<1>2. peerReceive' \in SeqNo /\ peerAcked' \in SeqNo
  BY <1>1, Modulo DEF PeerReceives, TypeOK
<1>3. delivered' \in Seq(Events)
  <2>1. CASE f.kind = "I" /\ f.asdu # Reply
    <3>1. f.asdu \in Events /\ delivered' = Append(delivered, f.asdu) /\ delivered \in Seq(Events)
      BY <1>1, <2>1 DEF PeerReceives, TypeOK, ASDUs
    <3> QED BY <3>1, AppendProperties
  <2>2. CASE ~ (f.kind = "I" /\ f.asdu # Reply)
    BY <2>2 DEF PeerReceives, TypeOK
  <2> QED BY <2>1, <2>2
<1>4. peerState' \in {"stopped", "starting", "started", "stopping"}
  BY DEF PeerReceives, TypeOK
<1>5. toServer' \in Seq(Frames)
  <2>1. UFrame("TESTFR_CON") \in Frames /\ toServer \in Seq(Frames)
    BY FrameTypes DEF TypeOK
  <2>2. toServer' = toServer \/ toServer' = Append(toServer, UFrame("TESTFR_CON"))
    BY DEF PeerReceives
  <2> QED BY <2>1, <2>2, AppendedType
<1>6. UNCHANGED <<serverVars, peerAlive, peerSend, peerAckSent, conforms, produced,
                  requests, controls, overwritten, cause>>
  BY DEF PeerReceives
<1> QED BY <1>1, <1>2, <1>3, <1>4, <1>5, <1>6 DEF TypeOK, serverVars, counters, queues

(* What the peer sends on its own.                                         *)
LEMMA PeerSendsType ==
  ASSUME TypeOK, PeerSendsI \/ PeerSendsS \/ PeerControls \/ PeerErrs \/ PeerStops
  PROVE  /\ TypeOK'
         /\ toServer' = toServer \/ \E f \in Frames : toServer' = Append(toServer, f)
<1>1. toServer' = toServer \/ \E f \in Frames : toServer' = Append(toServer, f)
  <2>1. \A f \in WrongFrames : f \in Frames
    BY FrameTypes DEF WrongFrames, TypeOK
  <2>2. IFrame(peerSend, peerReceive, Reply) \in Frames /\ SFrame(peerReceive) \in Frames
    BY FrameTypes DEF TypeOK
  <2> QED BY <2>1, <2>2, FrameTypes
          DEF PeerSendsI, PeerSendsS, PeerControls, PeerErrs, PeerStops, PeerSends
<1>2. toServer' \in Seq(Frames)
  <2>1. toServer \in Seq(Frames)
    BY DEF TypeOK
  <2> QED BY <1>1, <2>1, AppendedType
<1>3. /\ {peerSend', peerAckSent'} \subseteq SeqNo /\ requests' \in 0 .. MaxRequests
      /\ controls' \in 0 .. MaxControls
      /\ peerState' \in {"stopped", "starting", "started", "stopping"}
      /\ peerAlive' \in BOOLEAN /\ conforms' \in BOOLEAN
  <2>1. CASE PeerSendsI
    <3>1. peerSend' \in SeqNo /\ peerAckSent' \in SeqNo
      BY <2>1, Modulo DEF PeerSendsI, TypeOK
    <3>2. requests' \in 0 .. MaxRequests
      BY <2>1, ConnectionBoundsAssumption DEF PeerSendsI, TypeOK
    <3> QED BY <2>1, <3>1, <3>2 DEF PeerSendsI, PeerSends, TypeOK
  <2>2. CASE PeerSendsS
    BY <2>2 DEF PeerSendsS, PeerSends, TypeOK, history
  <2>3. CASE PeerControls
    BY <2>3, ConnectionBoundsAssumption DEF PeerControls, PeerSends, TypeOK
  <2>4. CASE PeerErrs
    BY <2>4 DEF PeerErrs, PeerSends, TypeOK, history
  <2>5. CASE PeerStops
    BY <2>5 DEF PeerStops, PeerSends, TypeOK, history
  <2> QED BY <2>1, <2>2, <2>3, <2>4, <2>5
<1>4. UNCHANGED <<serverVars, toPeer, peerReceive, peerAcked, produced, delivered, overwritten,
                  cause>>
  BY DEF PeerSendsI, PeerSendsS, PeerControls, PeerErrs, PeerStops, PeerSends, history
<1> QED BY <1>1, <1>2, <1>3, <1>4 DEF TypeOK, serverVars, counters, queues

(* Every step keeps the types.                                             *)
LEMMA StepType == TypeOK /\ [Next]_vars => TypeOK'
<1> SUFFICES ASSUME TypeOK, [Next]_vars PROVE TypeOK'
  OBVIOUS
<1>1. CASE SkipSending
  BY <1>1 DEF SkipSending, TypeOK, counters, queues, peerVars, history
<1>2. CASE EndThread
  <2>1. /\ lowPrioQueue' \in Seq([event : 1 .. produced', sent : BOOLEAN])
        /\ Len(lowPrioQueue') = 0
    BY <1>2, EmptySeq DEF EndThread
  <2>2. Len(lowPrioQueue') <= LowSize /\ highPrioQueue' \in 0 .. HighSize
    BY <1>2, <2>1, ParametersAssumption DEF EndThread
  <2> QED BY <1>2, <2>1, <2>2 DEF EndThread, TypeOK, counters, peerVars, history
<1>3. CASE UNCHANGED vars
  BY <1>3 DEF vars, serverVars, TypeOK, counters, queues, peerVars, history
<1> QED BY <1>1, <1>2, <1>3, ReceiveType, TimeoutsType, SendType, EnqueueType,
           PeerReceivesType, PeerSendsType DEF Next, ThreadStep, PeerStep

(* Counters, queues and messages keep their types, and neither the k-buffer*)
(* nor the queues outgrow their sizes, whatever arrives and in whatever    *)
(* order.                                                                  *)
THEOREM TypeCorrect == Spec => []TypeOK
BY InitType, StepType, PTL DEF Spec

-----------------------------------------------------------------------------
(* What the thread adds to the messages to the peer: I messages with the   *)
(* next numbers, which only an active connection sends, then at most two   *)
(* messages without a number or with the same acknowledgement.             *)
Adds(asdus, extra) ==
  LET L == Len(toPeer)
      a == Len(asdus)
      others == L + a + 1 .. L + a + extra
  IN  /\ Len(toPeer') = L + a + extra
      /\ \A i \in 1 .. L : toPeer'[i] = toPeer[i]
      /\ \A i \in 1 .. a :
           toPeer'[L + i] = IFrame((sendCount + i - 1) % M, receiveCount', asdus[i])
      /\ \A i \in others :
           /\ ~ IsI(toPeer'[i])
           /\ IsNumbered(toPeer'[i]) => toPeer'[i].nr = receiveCount'
      /\ sendCount' = (sendCount + a) % M
      /\ a # 0 => isActive /\ isActive'
      /\ isActive' => \A i \in others : ~ IsStopping(i)'
      /\ isActive' /\ ~ isActive => extra = 1 /\ toPeer'[L + 1].kind = "STARTDT_CON"
      /\ (a # 0 \/ \E i \in others : IsNumbered(toPeer'[i])) =>
           unconfirmedReceivedIMessages' = 0
      /\ (a = 0 /\ \A i \in others : ~ IsNumbered(toPeer'[i])) =>
           \/ UNCHANGED <<receiveCount, unconfirmedReceivedIMessages>>
           \/ /\ receiveCount' = Succ(receiveCount)
              /\ unconfirmedReceivedIMessages' = unconfirmedReceivedIMessages + 1

(* Indices into sequences, one after the other.                            *)
TwoParts(c, s, t) ==
  /\ Len(c) = Len(s) + Len(t)
  /\ \A i \in 1 .. Len(s) : c[i] = s[i]
  /\ \A i \in 1 .. Len(t) : c[Len(s) + i] = t[i]

(* The places of two sequences in their concatenation.                     *)
LEMMA ConcatParts ==
  ASSUME NEW S, NEW s \in Seq(S), NEW t \in Seq(S), NEW c, c = s \o t
  PROVE  TwoParts(c, s, t)
<1>1. /\ c \in Seq(S) /\ Len(c) = Len(s) + Len(t)
      /\ \A i \in 1 .. Len(s) + Len(t) : c[i] = IF i <= Len(s) THEN s[i] ELSE t[i - Len(s)]
      /\ Len(s) \in Nat /\ Len(t) \in Nat
  BY ConcatProperties, LenProperties
<1>2. \A i \in 1 .. Len(s) : c[i] = s[i]
  BY <1>1
<1>3. \A i \in 1 .. Len(t) : c[Len(s) + i] = t[i]
  <2> TAKE i \in 1 .. Len(t)
  <2> DEFINE j == Len(s) + i
  <2>1. j \in 1 .. Len(s) + Len(t) /\ ~ (j <= Len(s)) /\ j - Len(s) = i
    BY <1>1
  <2> HIDE DEF j
  <2>2. c[j] = t[i]
    BY <1>1, <2>1
  <2> QED BY <2>2 DEF j
<1> QED BY <1>1, <1>2, <1>3 DEF TwoParts

(* The places of three sequences in their concatenation.                   *)
LEMMA ThreeParts ==
  ASSUME NEW S, NEW s \in Seq(S), NEW t \in Seq(S), NEW u \in Seq(S),
         NEW c, c = (s \o t) \o u
  PROVE  /\ Len(s) \in Nat /\ Len(t) \in Nat /\ Len(u) \in Nat
         /\ c \in Seq(S) /\ Len(c) = Len(s) + Len(t) + Len(u)
         /\ \A i \in 1 .. Len(s) : c[i] = s[i]
         /\ \A i \in 1 .. Len(t) : c[Len(s) + i] = t[i]
         /\ \A i \in 1 .. Len(u) : c[Len(s) + Len(t) + i] = u[i]
<1>1. /\ s \o t \in Seq(S) /\ Len(s \o t) = Len(s) + Len(t)
      /\ \A i \in 1 .. Len(s) + Len(t) : (s \o t)[i] = IF i <= Len(s) THEN s[i] ELSE t[i - Len(s)]
      /\ Len(s) \in Nat /\ Len(t) \in Nat /\ Len(u) \in Nat
  BY ConcatProperties, LenProperties
<1> DEFINE r == s \o t
<1>0. c = r \o u
  OBVIOUS
<1> HIDE DEF r
<1>2. /\ c \in Seq(S) /\ Len(c) = Len(r) + Len(u)
      /\ \A i \in 1 .. Len(r) + Len(u) : c[i] = IF i <= Len(r) THEN r[i] ELSE u[i - Len(r)]
  <2>1. r \in Seq(S)
    BY <1>1 DEF r
  <2> QED BY <1>0, <2>1, ConcatProperties
<1>3. Len(r) = Len(s) + Len(t)
  BY <1>1 DEF r
<1>4. \A i \in 1 .. Len(s) : c[i] = s[i]
  BY <1>1, <1>2, <1>3 DEF r
<1>5. \A i \in 1 .. Len(t) : c[Len(s) + i] = t[i]
  <2> TAKE i \in 1 .. Len(t)
  <2>1. c[Len(s) + i] = r[Len(s) + i]
    BY <1>1, <1>2, <1>3
  <2>2. r[Len(s) + i] = t[Len(s) + i - Len(s)] /\ Len(s) + i - Len(s) = i
    BY <1>1 DEF r
  <2> QED BY <2>1, <2>2
<1>6. \A i \in 1 .. Len(u) : c[Len(s) + Len(t) + i] = u[i]
  <2> TAKE i \in 1 .. Len(u)
  <2> DEFINE j == Len(s) + Len(t) + i
  <2>1. j \in 1 .. Len(r) + Len(u) /\ ~ (j <= Len(r)) /\ j - Len(r) = i
    BY <1>1, <1>3
  <2> HIDE DEF j
  <2>2. c[j] = u[i]
    BY <1>2, <2>1
  <2> QED BY <2>2 DEF j
<1> QED BY <1>1, <1>2, <1>3, <1>4, <1>5, <1>6

(* What becomes of the k-buffer: rel entries leave it, the ASDUs sent enter*)
(* it; and of the event queue: freed entries leave its front, and one, if  *)
(* next is not 0, is the last of the ASDUs sent.                           *)
Keeps(asdus, rel) ==
  LET kept == Len(sentASDUs) - rel
  IN  /\ Len(sentASDUs') = kept + Len(asdus)
      /\ \A i \in 1 .. kept : sentASDUs'[i] = sentASDUs[rel + i]
      /\ \A i \in 1 .. Len(asdus) :
           sentASDUs'[kept + i] = [seqNo |-> (sendCount + i) % M, asdu |-> asdus[i]]

Queues(asdus, freed, next) ==
  /\ Len(lowPrioQueue') = Len(lowPrioQueue) - freed
  /\ \A i \in 1 .. Len(lowPrioQueue) - freed :
       lowPrioQueue'[i] = [event |-> lowPrioQueue[freed + i].event,
                           sent  |-> lowPrioQueue[freed + i].sent \/ i = next]
  /\ \A i \in 1 .. Len(asdus) : asdus[i] # Reply =>
       next # 0 /\ i = Len(asdus) /\ asdus[i] = lowPrioQueue[next].event
  /\ next # 0 => /\ IsNext(next) /\ freed = 0
                 /\ Len(asdus) # 0 /\ asdus[Len(asdus)] = lowPrioQueue[next].event

Accepts == ReceiveI \/ ReceiveS

(* Only an accepted acknowledgement takes entries off, except at the end.  *)
Serves(asdus, rel, freed, next) ==
  /\ Keeps(asdus, rel) /\ Queues(asdus, freed, next)
  /\ Accepts => /\ rel = Released(Head(toServer).nr)
                /\ next = 0 /\ freed \in Confirmed(Head(toServer).nr) \union {0}
  /\ ~ Accepts => rel = 0 /\ (freed = 0 \/ pc' = "closed")

(* An accepted message frees entries and adds replies.                     *)
LEMMA AcceptedServes ==
  ASSUME TypeOK, Accepts, NEW asdus \in Seq(ASDUs), \A i \in 1 .. Len(asdus) : asdus[i] = Reply,
         \/ sentASDUs' = Unreleased(Head(toServer).nr) \o Numbered(asdus)
         \/ sentASDUs' = Unreleased(Head(toServer).nr) /\ Len(asdus) = 0
  PROVE  \E rel \in 0 .. Len(sentASDUs), freed \in 0 .. Len(lowPrioQueue) :
           Serves(asdus, rel, freed, 0)
<1> DEFINE nr == Head(toServer).nr
<1>1. nr \in SeqNo /\ sendCount \in SeqNo /\ Len(asdus) \in Nat
  BY ReceivedType, LenProperties DEF Accepts, ReceiveI, ReceiveS, Receives, TypeOK
<1> HIDE DEF nr
<1>2. /\ Released(nr) \in 0 .. Len(sentASDUs) /\ Len(sentASDUs) \in Nat
      /\ Unreleased(nr) \in Seq(Numbers)
      /\ Len(Unreleased(nr)) = Len(sentASDUs) - Released(nr)
      /\ \A i \in 1 .. Len(sentASDUs) - Released(nr) :
           Unreleased(nr)[i] = sentASDUs[Released(nr) + i]
  BY <1>1, ReleasedType, UnreleasedType, Elements
<1>3. Keeps(asdus, Released(nr))
  <2>1. CASE sentASDUs' = Unreleased(nr) /\ Len(asdus) = 0
    BY <1>2, <2>1 DEF Keeps
  <2>2. CASE sentASDUs' = Unreleased(nr) \o Numbered(asdus)
    <3>1. /\ Numbered(asdus) \in Seq(Numbers) /\ Len(Numbered(asdus)) = Len(asdus)
          /\ \A i \in 1 .. Len(asdus) :
               Numbered(asdus)[i] = [seqNo |-> (sendCount + i) % M, asdu |-> asdus[i]]
      BY <1>1, IFramesType
    <3>2. TwoParts(sentASDUs', Unreleased(nr), Numbered(asdus))
      <4> HIDE DEF Numbers
      <4> QED BY <1>2, <2>2, <3>1, ConcatParts
    <3> QED BY <1>2, <3>1, <3>2 DEF Keeps, TwoParts
  <2> QED BY <2>1, <2>2 DEF nr
<1>4. lowPrioQueue' = Unconfirmed(nr)
  BY DEF Accepts, ReceiveI, ReceiveS, nr
<1>5. PICK freed \in 0 .. Len(lowPrioQueue) :
        /\ freed \in Confirmed(nr) \union {0}
        /\ Len(Unconfirmed(nr)) = Len(lowPrioQueue) - freed
        /\ \A i \in 1 .. Len(lowPrioQueue) - freed : Unconfirmed(nr)[i] = lowPrioQueue[freed + i]
  BY <1>1, UnconfirmedType
<1>6. Queues(asdus, freed, 0)
  <2>1. ASSUME NEW i \in 1 .. Len(lowPrioQueue) - freed
        PROVE  lowPrioQueue[freed + i] = [event |-> lowPrioQueue[freed + i].event,
                                          sent |-> lowPrioQueue[freed + i].sent \/ i = 0]
    <3>1. freed + i \in 1 .. Len(lowPrioQueue) /\ i # 0
      BY Elements
    <3>2. lowPrioQueue[freed + i] \in Entries
      BY <3>1, Elements
    <3> QED BY <3>1, <3>2 DEF Entries
  <2> QED BY <1>4, <1>5, <2>1 DEF Queues
<1> QED BY <1>2, <1>3, <1>5, <1>6 DEF Serves, nr

(* Everything else leaves both as they are, or ends the connection.        *)
LEMMA NothingServed ==
  ASSUME TypeOK, sentASDUs' = sentASDUs, ~ Accepts,
         lowPrioQueue' = lowPrioQueue \/ (Len(lowPrioQueue') = 0 /\ pc' = "closed")
  PROVE  \E rel \in 0 .. Len(sentASDUs), freed \in 0 .. Len(lowPrioQueue) :
           Serves(<< >>, rel, freed, 0)
<1>1. Len(sentASDUs) \in Nat /\ Len(lowPrioQueue) \in Nat /\ Len(<< >>) = 0
  BY Elements, EmptySeq
<1>2. Keeps(<< >>, 0)
  BY <1>1 DEF Keeps
<1>3. CASE lowPrioQueue' = lowPrioQueue
  <2>1. ASSUME NEW i \in 1 .. Len(lowPrioQueue)
        PROVE  lowPrioQueue[i] = [event |-> lowPrioQueue[i].event,
                                  sent |-> lowPrioQueue[i].sent \/ i = 0]
    <3>1. lowPrioQueue[i] \in Entries /\ i # 0
      BY Elements
    <3> QED BY <3>1 DEF Entries
  <2>2. Queues(<< >>, 0, 0)
    BY <1>1, <1>3, <2>1 DEF Queues
  <2> QED BY <1>1, <1>2, <2>2 DEF Serves
<1>4. CASE Len(lowPrioQueue') = 0 /\ pc' = "closed"
  <2>1. Queues(<< >>, Len(lowPrioQueue), 0)
    BY <1>1, <1>4 DEF Queues
  <2> QED BY <1>1, <1>2, <1>4, <2>1 DEF Serves
<1> QED BY <1>3, <1>4

(* Sending what waits frees nothing and adds events and replies.           *)
LEMMA SentServes ==
  ASSUME TypeOK, ~ Accepts, NEW asdus \in Seq(ASDUs), NEW next \in 0 .. Len(lowPrioQueue),
         sentASDUs' = sentASDUs \o Numbered(asdus),
         lowPrioQueue' = [i \in 1 .. Len(lowPrioQueue) |->
                            IF i = next THEN [lowPrioQueue[i] EXCEPT !.sent = TRUE]
                                        ELSE lowPrioQueue[i]],
         next # 0 => IsNext(next),
         \A i \in 1 .. Len(asdus) : asdus[i] # Reply =>
           next # 0 /\ i = Len(asdus) /\ asdus[i] = lowPrioQueue[next].event,
         next # 0 => asdus # << >> /\ asdus[Len(asdus)] = lowPrioQueue[next].event
  PROVE  Serves(asdus, 0, 0, next)
<1>1. Len(sentASDUs) \in Nat /\ Len(lowPrioQueue) \in Nat /\ sentASDUs \in Seq(Numbers)
      /\ sendCount \in SeqNo /\ Len(asdus) \in Nat /\ (asdus # << >> <=> Len(asdus) # 0)
  BY Elements, LenProperties, EmptySeq DEF TypeOK
<1>2. Keeps(asdus, 0)
  <2>1. /\ Numbered(asdus) \in Seq(Numbers) /\ Len(Numbered(asdus)) = Len(asdus)
        /\ \A i \in 1 .. Len(asdus) :
             Numbered(asdus)[i] = [seqNo |-> (sendCount + i) % M, asdu |-> asdus[i]]
    BY <1>1, IFramesType
  <2>2. TwoParts(sentASDUs', sentASDUs, Numbered(asdus))
    <3> HIDE DEF Numbers
    <3> QED BY <1>1, <2>1, ConcatParts
  <2> QED BY <1>1, <2>1, <2>2 DEF Keeps, TwoParts
<1>3. Queues(asdus, 0, next)
  <2>1. ASSUME NEW i \in 1 .. Len(lowPrioQueue)
        PROVE  lowPrioQueue'[i] = [event |-> lowPrioQueue[0 + i].event,
                                   sent |-> lowPrioQueue[0 + i].sent \/ i = next]
    <3>1. lowPrioQueue[i] \in Entries /\ 0 + i = i
      BY Elements
    <3> QED BY <3>1 DEF Entries
  <2>2. Len(lowPrioQueue') = Len(lowPrioQueue)
    <3>1. lowPrioQueue' \in [1 .. Len(lowPrioQueue) -> Entries]
      BY Elements DEF Entries
    <3> QED BY <1>1, <3>1, FunctionIsSeq
  <2>3. Len(lowPrioQueue) - 0 = Len(lowPrioQueue)
    BY <1>1
  <2> QED BY <1>1, <2>1, <2>2, <2>3 DEF Queues
<1> QED BY <1>2, <1>3 DEF Serves

(* Only an I-frame or an S-frame is accepted.                              *)
LEMMA OnlyMessagesAccepted ==
  ASSUME TypeOK, ReceiveNothing \/ RejectMessage \/ ReceiveStartDT \/ ReceiveStopDT
                 \/ ReceiveTestFR \/ ReceiveTestFRCon \/ ReceiveClose \/ Timeouts
                 \/ SendWaitingASDUs \/ SkipSending \/ EndThread
  PROVE  ~ Accepts
<1> SUFFICES ASSUME Accepts PROVE FALSE
  OBVIOUS
<1>1. /\ pc = "receive" /\ toServer # << >> /\ toServer' = Tail(toServer)
      /\ \/ /\ Head(toServer).kind = "I" /\ Head(toServer).ns = receiveCount
            /\ SeqNoIsValid(Head(toServer).nr)
         \/ Head(toServer).kind = "S" /\ SeqNoIsValid(Head(toServer).nr)
  BY DEF Accepts, ReceiveI, ReceiveS, Receives
<1>2. toServer' # toServer
  <2>1. Len(Tail(toServer)) = Len(toServer) - 1 /\ Len(toServer) \in Nat \ {0}
    BY <1>1, ReceivedType
  <2>2. \A n \in Nat : n - 1 # n
    OBVIOUS
  <2> QED BY <1>1, <2>2
<1> QED BY <1>1, <1>2 DEF ReceiveNothing, RejectMessage, ReceiveStartDT, ReceiveStopDT, Receives,
        ReceiveTestFR, ReceiveTestFRCon, ReceiveClose, Timeouts, HandleTimeouts,
        SendWaitingASDUs, SkipSending, EndThread

(* What any step of the thread adds, frees and acknowledges.               *)
LEMMA ThreadAdds ==
  ASSUME TypeOK, ThreadStep
  PROVE  \E asdus \in Seq(ASDUs), extra \in 0 .. 2, rel \in 0 .. Len(sentASDUs),
            freed \in 0 .. Len(lowPrioQueue), next \in 0 .. Len(lowPrioQueue) :
           Adds(asdus, extra) /\ Serves(asdus, rel, freed, next)
<1> DEFINE L == Len(toPeer)
<1>1. L \in Nat /\ toPeer \in Seq(Frames) /\ sendCount \in SeqNo /\ receiveCount \in SeqNo
      /\ << >> \in Seq(ASDUs) /\ << >> \in Seq(Frames) /\ sendCount % M = sendCount
  BY Elements, EmptySeq, Modulo DEF TypeOK
<1>2. IFrames(<< >>, receiveCount') = << >>
  BY DEF IFrames
<1>3. Len(<< >>) = 0 /\ sendCount + 0 = sendCount
  BY <1>1, Modulo
<1>0. ASSUME ~ Accepts, sentASDUs' = sentASDUs,
              lowPrioQueue' = lowPrioQueue \/ (Len(lowPrioQueue') = 0 /\ pc' = "closed")
       PROVE  \E rel \in 0 .. Len(sentASDUs), freed \in 0 .. Len(lowPrioQueue),
                 next \in 0 .. Len(lowPrioQueue) : Serves(<< >>, rel, freed, next)
  <2>1. PICK rel \in 0 .. Len(sentASDUs), freed \in 0 .. Len(lowPrioQueue) :
          Serves(<< >>, rel, freed, 0)
    BY <1>0, NothingServed
  <2>2. 0 \in 0 .. Len(lowPrioQueue)
    BY Elements
  <2> QED BY <2>1, <2>2
<1>4. CASE ReceiveI
  <2>1. PICK direct \in Seq(ASDUs), sendS \in BOOLEAN :
          /\ \A i \in 1 .. Len(direct) : direct[i] = Reply
          /\ direct # << >> => isActive
          /\ sentASDUs' = Unreleased(Head(toServer).nr) \o Numbered(direct)
          /\ sendCount' = (sendCount + Len(direct)) % M
          /\ toPeer' = (toPeer \o IFrames(direct, receiveCount'))
                        \o (IF sendS THEN <<SFrame(receiveCount')>> ELSE << >>)
          /\ unconfirmedReceivedIMessages' =
               IF direct # << >> \/ sendS THEN 0 ELSE unconfirmedReceivedIMessages + 1
    BY <1>4, ReceiveIType
  <2> DEFINE others == IF sendS THEN <<SFrame(receiveCount')>> ELSE << >>
             extra == IF sendS THEN 1 ELSE 0
  <2>2. receiveCount' = Succ(receiveCount) /\ receiveCount' \in SeqNo
    BY <1>1, <1>4, Modulo DEF ReceiveI
  <2>3. others \in Seq(Frames) /\ Len(others) = extra /\ \A i \in 1 .. extra : others[i] = SFrame(receiveCount')
    BY <1>1, <1>3, <2>2, FrameTypes
  <2>4. /\ IFrames(direct, receiveCount') \in Seq(Frames)
        /\ Len(IFrames(direct, receiveCount')) = Len(direct) /\ Len(direct) \in Nat
        /\ \A i \in 1 .. Len(direct) : IFrames(direct, receiveCount')[i] =
             IFrame((sendCount + i - 1) % M, receiveCount', direct[i])
        /\ direct = << >> <=> Len(direct) = 0
    <3>1. Len(direct) \in Nat /\ (direct = << >> <=> Len(direct) = 0)
      BY LenProperties, EmptySeq
    <3>2. receiveCount' \in SeqNo /\ sendCount \in SeqNo
      BY <1>1, <2>2
    <3> QED BY <3>1, <3>2, IFramesType
  <2>5. /\ Len(toPeer') = L + Len(direct) + extra
        /\ \A i \in 1 .. L : toPeer'[i] = toPeer[i]
        /\ \A i \in 1 .. Len(direct) :
             toPeer'[L + i] = IFrame((sendCount + i - 1) % M, receiveCount', direct[i])
        /\ \A i \in 1 .. extra : toPeer'[L + Len(direct) + i] = SFrame(receiveCount')
    <3>1. PICK frames \in Seq(Frames), more \in Seq(Frames), sent \in Seq(Frames) :
            /\ frames = IFrames(direct, receiveCount') /\ more = others /\ sent = toPeer
      BY <1>1, <2>3, <2>4
    <3>2. toPeer' = (sent \o frames) \o more
      BY <2>1, <3>1
    <3>3. /\ Len(toPeer') = Len(sent) + Len(frames) + Len(more)
          /\ \A i \in 1 .. Len(sent) : toPeer'[i] = sent[i]
          /\ \A i \in 1 .. Len(frames) : toPeer'[Len(sent) + i] = frames[i]
          /\ \A i \in 1 .. Len(more) : toPeer'[Len(sent) + Len(frames) + i] = more[i]
      <4> HIDE DEF Frames, others
      <4> QED BY <3>2, ThreeParts
    <3>4. /\ Len(frames) = Len(direct) /\ Len(more) = extra /\ Len(sent) = L
          /\ \A i \in 1 .. Len(direct) :
               frames[i] = IFrame((sendCount + i - 1) % M, receiveCount', direct[i])
          /\ \A i \in 1 .. extra : more[i] = SFrame(receiveCount')
      BY <2>3, <2>4, <3>1
    <3> HIDE DEF L, extra, others
    <3> QED BY <3>1, <3>3, <3>4
  <2>6. \A i \in L + Len(direct) + 1 .. L + Len(direct) + extra : toPeer'[i] = SFrame(receiveCount')
    <3> HIDE DEF L, extra
    <3> TAKE i \in L + Len(direct) + 1 .. L + Len(direct) + extra
    <3>1. extra \in Nat
      BY DEF extra
    <3>2. i - L - Len(direct) \in 1 .. extra /\ L + Len(direct) + (i - L - Len(direct)) = i
      BY <1>1, <2>4, <3>1
    <3> QED BY <2>5, <3>2
  <2>7. isActive' = isActive /\ extra \in 0 .. 2
    BY <1>4 DEF ReceiveI
  <2>8. sendS => L + Len(direct) + 1 \in L + Len(direct) + 1 .. L + Len(direct) + extra
    BY <1>1, <2>4
  <2> HIDE DEF others
  <2>9. Adds(direct, extra)
    <3>1. \A i \in L + Len(direct) + 1 .. L + Len(direct) + extra :
            /\ ~ IsI(toPeer'[i]) /\ IsNumbered(toPeer'[i]) /\ toPeer'[i].nr = receiveCount'
            /\ ~ IsStopping(i)'
      BY <2>6 DEF SFrame, IsI, IsNumbered, IsStopping
    <3>2. sendCount' = (sendCount + Len(direct)) % M
          /\ (Len(direct) # 0 => isActive /\ isActive')
      BY <2>1, <2>4, <2>7
    <3>3. Len(direct) # 0 \/ extra # 0 => unconfirmedReceivedIMessages' = 0
      BY <2>1, <2>4
    <3>4. Len(direct) = 0 /\ extra = 0 =>
            unconfirmedReceivedIMessages' = unconfirmedReceivedIMessages + 1
      BY <2>1, <2>4
    <3>5. extra = 0 \/ L + Len(direct) + 1 \in L + Len(direct) + 1 .. L + Len(direct) + extra
      BY <2>8
    <3>6. extra = 0 => \A i \in L + Len(direct) + 1 .. L + Len(direct) + extra : FALSE
      BY <1>1, <2>4
    <3> HIDE DEF extra
    <3> QED BY <2>2, <2>5, <2>7, <3>1, <3>2, <3>3, <3>4, <3>5, <3>6 DEF Adds
  <2>10. PICK rel \in 0 .. Len(sentASDUs), freed \in 0 .. Len(lowPrioQueue) :
           Serves(direct, rel, freed, 0)
    BY <1>4, <2>1, AcceptedServes DEF Accepts
  <2>11. 0 \in 0 .. Len(lowPrioQueue)
    BY Elements
  <2> QED BY <2>7, <2>9, <2>10, <2>11
<1>5. CASE Timeouts
  <2>1. PICK t1 \in BOOLEAN, t2 \in BOOLEAN, t3 \in BOOLEAN : HandleTimeouts(t1, t2, t3)
    BY <1>5 DEF Timeouts, MayExpire
  <2> DEFINE test == IF t3 /\ Supervised THEN <<UFrame("TESTFR_ACT")>> ELSE << >>
             confirm == IF Confirms(t2) THEN <<SFrame(receiveCount)>> ELSE << >>
             extra == Len(test) + Len(confirm)
  <2>2. /\ test \in Seq(Frames) /\ confirm \in Seq(Frames)
        /\ Len(test) \in {0, 1} /\ \A i \in 1 .. Len(test) : test[i] = UFrame("TESTFR_ACT")
        /\ Len(confirm) \in {0, 1} /\ \A i \in 1 .. Len(confirm) : confirm[i] = SFrame(receiveCount)
        /\ Len(confirm) = 1 <=> Confirms(t2)
    BY <1>1, FrameTypes
  <2>3. toPeer' = (toPeer \o test) \o confirm
    BY <2>1 DEF HandleTimeouts
  <2> HIDE DEF test, confirm
  <2>4. /\ Len(toPeer') = L + Len(test) + Len(confirm)
        /\ \A i \in 1 .. L : toPeer'[i] = toPeer[i]
        /\ \A i \in 1 .. Len(test) : toPeer'[L + i] = test[i]
        /\ \A i \in 1 .. Len(confirm) : toPeer'[L + Len(test) + i] = confirm[i]
    <3> HIDE DEF Frames, L
    <3> QED BY <1>1, <2>2, <2>3, ThreeParts DEF L
  <2>5. \A i \in L + 1 .. L + extra :
          \/ Len(confirm) = 1 /\ toPeer'[i] = SFrame(receiveCount)
          \/ toPeer'[i] = UFrame("TESTFR_ACT")
    <3> HIDE DEF L
    <3> TAKE i \in L + 1 .. L + extra
    <3>1. CASE i = L + 1 /\ Len(test) = 1
      BY <1>1, <2>2, <2>4, <3>1
    <3>2. CASE ~ (i = L + 1 /\ Len(test) = 1)
      <4>1. Len(confirm) = 1 /\ i = L + Len(test) + 1
        BY <1>1, <2>2, <3>2
      <4> QED BY <2>2, <2>4, <4>1
    <3> QED BY <3>1, <3>2
  <2>6. Len(confirm) = 1 => /\ L + extra \in L + 1 .. L + extra
                            /\ toPeer'[L + extra] = SFrame(receiveCount)
    <3> HIDE DEF L
    <3> QED BY <1>1, <2>2, <2>4
  <2>7. /\ UNCHANGED <<isActive, sendCount, receiveCount>>
        /\ unconfirmedReceivedIMessages' = IF Confirms(t2) THEN 0 ELSE unconfirmedReceivedIMessages
    BY <2>1 DEF HandleTimeouts
  <2>8. Adds(<< >>, extra)
    BY <1>1, <1>3, <2>2, <2>4, <2>5, <2>6, <2>7
       DEF Adds, SFrame, UFrame, IsI, IsNumbered, IsStopping
  <2>9. extra \in 0 .. 2
    BY <2>2
  <2>10. ~ Accepts /\ sentASDUs' = sentASDUs /\ lowPrioQueue' = lowPrioQueue
    BY <1>5, <2>1, OnlyMessagesAccepted DEF HandleTimeouts, queues
  <2>11. PICK rel \in 0 .. Len(sentASDUs), freed \in 0 .. Len(lowPrioQueue),
             next \in 0 .. Len(lowPrioQueue) : Serves(<< >>, rel, freed, next)
    BY <1>0, <2>10
  <2> QED BY <1>1, <2>8, <2>9, <2>11
<1>6. CASE SendWaitingASDUs
  <2>1. PICK next \in 0 .. Len(lowPrioQueue), asdus \in Seq(ASDUs) :
          /\ next # 0 => IsNext(next)
          /\ \A i \in 1 .. Len(asdus) :
               asdus[i] # Reply =>
                 next # 0 /\ i = Len(asdus) /\ asdus[i] = lowPrioQueue[next].event
          /\ next # 0 => asdus # << >> /\ asdus[Len(asdus)] = lowPrioQueue[next].event
          /\ lowPrioQueue' = [i \in 1 .. Len(lowPrioQueue) |->
                                IF i = next THEN [lowPrioQueue[i] EXCEPT !.sent = TRUE]
                                            ELSE lowPrioQueue[i]]
          /\ sentASDUs' = sentASDUs \o Numbered(asdus)
          /\ toPeer' = toPeer \o IFrames(asdus, receiveCount)
          /\ sendCount' = (sendCount + Len(asdus)) % M
          /\ unconfirmedReceivedIMessages' = IF asdus # << >> THEN 0 ELSE unconfirmedReceivedIMessages
    BY <1>6, SendType
  <2>2. isActive /\ UNCHANGED <<isActive, receiveCount>>
    BY <1>6 DEF SendWaitingASDUs
  <2>3. /\ IFrames(asdus, receiveCount) \in Seq(Frames)
        /\ Len(IFrames(asdus, receiveCount)) = Len(asdus) /\ Len(asdus) \in Nat
        /\ \A i \in 1 .. Len(asdus) : IFrames(asdus, receiveCount)[i] =
             IFrame((sendCount + i - 1) % M, receiveCount, asdus[i])
        /\ asdus = << >> <=> Len(asdus) = 0
    <3>1. /\ IFrames(asdus, receiveCount) \in Seq(Frames)
          /\ Len(IFrames(asdus, receiveCount)) = Len(asdus)
          /\ \A i \in 1 .. Len(asdus) : IFrames(asdus, receiveCount)[i] =
               IFrame((sendCount + i - 1) % M, receiveCount, asdus[i])
      BY <1>1, IFramesType, Zenon
    <3>2. Len(asdus) \in Nat /\ (asdus = << >> <=> Len(asdus) = 0)
      BY LenProperties, EmptySeq
    <3> QED BY <3>1, <3>2, Zenon
  <2>4. /\ Len(toPeer') = L + Len(asdus)
        /\ \A i \in 1 .. L : toPeer'[i] = toPeer[i]
        /\ \A i \in 1 .. Len(asdus) : toPeer'[L + i] = IFrames(asdus, receiveCount)[i]
    <3> HIDE DEF Frames, L
    <3> DEFINE frames == IFrames(asdus, receiveCount)
    <3>1. /\ toPeer' = toPeer \o frames /\ frames \in Seq(Frames) /\ toPeer \in Seq(Frames)
          /\ Len(frames) = Len(asdus)
      BY <1>1, <2>1, <2>3
    <3> HIDE DEF frames
    <3>2. /\ Len(toPeer') = L + Len(frames)
          /\ \A i \in 1 .. L + Len(frames) :
               toPeer'[i] = IF i <= L THEN toPeer[i] ELSE frames[i - L]
      <4>1. PICK old \in Seq(Frames) : old = toPeer
        BY <3>1
      <4>2. PICK new \in Seq(Frames) : new = frames
        BY <3>1
      <4>3. /\ Len(old \o new) = Len(old) + Len(new)
            /\ \A i \in 1 .. Len(old) + Len(new) :
                 (old \o new)[i] = IF i <= Len(old) THEN old[i] ELSE new[i - Len(old)]
        BY ConcatProperties
      <4> QED BY <3>1, <4>1, <4>2, <4>3 DEF L
    <3>3. \A i \in 1 .. Len(frames) : toPeer'[L + i] = frames[i]
      <4> TAKE i \in 1 .. Len(frames)
      <4> DEFINE j == L + i
      <4>1. j \in 1 .. L + Len(frames) /\ ~ (j <= L) /\ j - L = i
        BY <1>1, <2>3, <3>1
      <4> HIDE DEF j
      <4>2. toPeer'[j] = frames[i]
        BY <3>2, <4>1
      <4> QED BY <4>2 DEF j
    <3>4. \A i \in 1 .. L : toPeer'[i] = toPeer[i]
      BY <1>1, <2>3, <3>1, <3>2
    <3> QED BY <3>1, <3>2, <3>3, <3>4 DEF frames
  <2>5. Adds(asdus, 0)
    <3>1. \A i \in L + Len(asdus) + 1 .. L + Len(asdus) + 0 : FALSE
      BY <1>1, <2>3
    <3>2. Len(asdus) # 0 => isActive'
      BY <2>2
    <3> QED BY <2>1, <2>2, <2>3, <2>4, <3>1, <3>2 DEF Adds
  <2>6. ~ Accepts
    BY <1>6, OnlyMessagesAccepted
  <2>7. Serves(asdus, 0, 0, next)
    BY <2>1, <2>6, SentServes
  <2>8. 0 \in 0 .. 2 /\ 0 \in 0 .. Len(lowPrioQueue) /\ 0 \in 0 .. Len(sentASDUs)
    BY Elements
  <2> QED BY <2>5, <2>7, <2>8
<1>7. CASE ReceiveStartDT \/ ReceiveStopDT \/ ReceiveTestFR
  <2>1. /\ \E k \in {"STARTDT_CON", "STOPDT_CON", "TESTFR_CON"} :
             /\ toPeer' = Append(toPeer, UFrame(k))
             /\ isActive' => k # "STOPDT_CON"
             /\ isActive' /\ ~ isActive => k = "STARTDT_CON"
        /\ UNCHANGED counters
    BY <1>7 DEF ReceiveStartDT, ReceiveStopDT, ReceiveTestFR, Deactivate
  <2>2. PICK k \in {"STARTDT_CON", "STOPDT_CON", "TESTFR_CON"} :
          /\ toPeer' = Append(toPeer, UFrame(k))
          /\ isActive' => k # "STOPDT_CON"
          /\ isActive' /\ ~ isActive => k = "STARTDT_CON"
    BY <2>1
  <2>3. UFrame(k) \in Frames
    BY FrameTypes
  <2>4. /\ Len(toPeer') = L + 1 /\ toPeer'[L + 1] = UFrame(k)
        /\ \A i \in 1 .. L : toPeer'[i] = toPeer[i]
    <3> HIDE DEF Frames
    <3> QED BY <1>1, <2>2, <2>3, AppendedType
  <2>5. Adds(<< >>, 1)
    <3> HIDE DEF Frames, L
    <3>1. \A i \in L + 0 + 1 .. L + 0 + 1 : i = L + 1
      BY <1>1
    <3>2. toPeer'[L + 1].kind = k
      BY <2>4 DEF UFrame
    <3>3. Len(toPeer) = L
      BY DEF L
    <3>4. /\ UNCHANGED <<sendCount, receiveCount, unconfirmedReceivedIMessages>>
          /\ sendCount' = (sendCount + 0) % M
      BY <1>1, <1>3, <2>1 DEF counters
    <3>5. \A i \in 1 .. 0 : FALSE
      OBVIOUS
    <3>6. L \in Nat
      BY <1>1
    <3>7. \A i \in L + 0 + 1 .. L + 0 + 1 :
            ~ IsI(toPeer'[i]) /\ ~ IsNumbered(toPeer'[i]) /\ (isActive' => ~ IsStopping(i)')
      BY <2>2, <3>1, <3>2 DEF IsI, IsNumbered, IsStopping
    <3>8. isActive' /\ ~ isActive => toPeer'[L + 1].kind = "STARTDT_CON"
      BY <2>2, <3>2
    <3>9. L + 0 + 1 = L + 1
      BY <3>6
    <3> QED BY <1>3, <2>4, <3>3, <3>4, <3>5, <3>7, <3>8, <3>9 DEF Adds
  <2>6. 1 \in 0 .. 2
    OBVIOUS
  <2>7. ~ Accepts /\ sentASDUs' = sentASDUs /\ lowPrioQueue' = lowPrioQueue
    <3>1. ~ Accepts
      BY <1>7, OnlyMessagesAccepted
    <3> QED BY <1>7, <3>1 DEF ReceiveStartDT, ReceiveStopDT, ReceiveTestFR, queues
  <2>8. PICK rel \in 0 .. Len(sentASDUs), freed \in 0 .. Len(lowPrioQueue),
             next \in 0 .. Len(lowPrioQueue) : Serves(<< >>, rel, freed, next)
    BY <1>0, <2>7
  <2> QED BY <1>1, <2>5, <2>6, <2>8
<1>8. ASSUME UNCHANGED <<toPeer, isActive, counters>>
      PROVE  Adds(<< >>, 0)
  BY <1>1, <1>3, <1>8 DEF Adds, counters
<1>9. CASE ReceiveNothing \/ RejectMessage \/ ReceiveTestFRCon \/ ReceiveClose
           \/ SkipSending \/ EndThread
  <2>1. UNCHANGED <<toPeer, isActive, counters, sentASDUs>>
    BY <1>9 DEF ReceiveNothing, RejectMessage, ReceiveTestFRCon, ReceiveClose,
                SkipSending, EndThread, counters
  <2>2. Adds(<< >>, 0) /\ 0 \in 0 .. 2
    BY <1>8, <2>1
  <2>3. lowPrioQueue' = lowPrioQueue \/ (Len(lowPrioQueue') = 0 /\ pc' = "closed")
    <3>1. CASE ReceiveNothing \/ RejectMessage \/ ReceiveTestFRCon \/ SkipSending
      <4>1. UNCHANGED queues
        BY <3>1 DEF ReceiveNothing, RejectMessage, ReceiveTestFRCon, SkipSending
      <4> QED BY <4>1 DEF queues
    <3>2. CASE ReceiveClose \/ EndThread
      <4>1. lowPrioQueue' = << >> /\ pc' = "closed"
        BY <3>2 DEF ReceiveClose, EndThread
      <4> QED BY <1>3, <4>1
    <3> QED BY <1>9, <3>1, <3>2
  <2>4. ~ Accepts
    BY <1>9, OnlyMessagesAccepted
  <2>5. PICK rel \in 0 .. Len(sentASDUs), freed \in 0 .. Len(lowPrioQueue),
             next \in 0 .. Len(lowPrioQueue) : Serves(<< >>, rel, freed, next)
    BY <1>0, <2>1, <2>3, <2>4
  <2> QED BY <1>1, <2>2, <2>5
<1>10. CASE ReceiveS
  <2>1. UNCHANGED <<toPeer, isActive, counters>>
    BY <1>10 DEF ReceiveS, counters
  <2>2. Adds(<< >>, 0) /\ 0 \in 0 .. 2 /\ 0 \in 0 .. Len(lowPrioQueue)
    BY <1>8, <2>1, Elements
  <2>3. \A i \in 1 .. Len(<< >>) : FALSE
    BY <1>3
  <2>4. Accepts /\ sentASDUs' = Unreleased(Head(toServer).nr)
    BY <1>10 DEF ReceiveS, Accepts
  <2>5. PICK rel \in 0 .. Len(sentASDUs), freed \in 0 .. Len(lowPrioQueue) :
          Serves(<< >>, rel, freed, 0)
    BY <1>1, <1>3, <2>3, <2>4, AcceptedServes
  <2> QED BY <1>1, <2>2, <2>5
<1> QED BY <1>4, <1>5, <1>6, <1>7, <1>9, <1>10 DEF ThreadStep, ReceiveMessage

-----------------------------------------------------------------------------
(* STARTDT and STOPDT.                                                     *)

(* The peer is started when it has read the messages before the nth one.   *)
Started(n) ==
  \/ /\ peerState \in {"started", "stopping"}
     /\ \A m \in 1 .. n - 1 : ~ IsStopping(m)
  \/ \E m \in 1 .. n - 1 : IsStarting(m) /\ \A l \in m .. n - 1 : ~ IsStopping(l)

(* An active connection may send: the peer will be started when it reads   *)
(* what comes next.                                                        *)
ActivatedInv == OnlyWhenStarted /\ (isActive => Started(Len(toPeer) + 1))

(* Reading a frame does not change what was started after it.              *)
LEMMA StartedAfterReading ==
  ASSUME TypeOK, PeerReceives, NEW n \in 2 .. Len(toPeer) + 1, Started(n)
  PROVE  Started(n - 1)'
<1> DEFINE f == Head(toPeer)
<1>1. /\ f = toPeer[1] /\ Len(toPeer) \in Nat /\ Len(toPeer') = Len(toPeer) - 1
      /\ \A i \in 1 .. Len(toPeer) - 1 : toPeer'[i] = toPeer[i + 1]
      /\ peerState' = CASE f.kind = "STARTDT_CON" -> "started"
                        [] f.kind = "STOPDT_CON"  -> "stopped"
                        [] OTHER                  -> peerState
  BY PeerReceivedType DEF PeerReceives
<1>2. \A m \in 1 .. n - 2 : toPeer'[m] = toPeer[m + 1]
  BY <1>1
<1>3. CASE /\ peerState \in {"started", "stopping"}
           /\ \A m \in 1 .. n - 1 : ~ IsStopping(m)
  <2>1. ~ IsStopping(1) /\ \A m \in 1 .. n - 2 : ~ IsStopping(m + 1)
    BY <1>3
  <2>2. peerState' \in {"started", "stopping"}
    BY <1>1, <1>3, <2>1 DEF IsStopping
  <2>3. \A m \in 1 .. n - 2 : ~ IsStopping(m)'
    BY <1>2, <2>1 DEF IsStopping
  <2> QED BY <2>2, <2>3 DEF Started
<1>4. CASE \E m \in 1 .. n - 1 : IsStarting(m) /\ \A l \in m .. n - 1 : ~ IsStopping(l)
  <2>1. PICK m \in 1 .. n - 1 : IsStarting(m) /\ \A l \in m .. n - 1 : ~ IsStopping(l)
    BY <1>4
  <2>2. CASE m = 1
    <3>1. peerState' = "started"
      BY <1>1, <2>1, <2>2 DEF IsStarting
    <3>2. \A l \in 1 .. n - 2 : ~ IsStopping(l + 1)
      BY <2>1, <2>2
    <3>3. \A l \in 1 .. n - 2 : ~ IsStopping(l)'
      BY <1>2, <3>2 DEF IsStopping
    <3> QED BY <3>1, <3>3 DEF Started
  <2>3. CASE m # 1
    <3>1. m - 1 \in 1 .. n - 2 /\ IsStarting((m - 1) + 1)
      BY <2>1, <2>3
    <3>2. toPeer'[m - 1].kind = "STARTDT_CON"
      BY <1>2, <3>1 DEF IsStarting
    <3>3. \A l \in m - 1 .. n - 2 : ~ IsStopping(l + 1) /\ l \in 1 .. n - 2
      BY <2>1, <2>3
    <3>4. \A l \in m - 1 .. n - 2 : ~ IsStopping(l)'
      BY <1>2, <3>3 DEF IsStopping
    <3>5. \E k \in 1 .. n - 2 : IsStarting(k)' /\ \A l \in k .. n - 2 : ~ IsStopping(l)'
      BY <3>1, <3>2, <3>4 DEF IsStarting
    <3> QED BY <3>5 DEF Started
  <2> QED BY <2>2, <2>3
<1> QED BY <1>3, <1>4 DEF Started

(* Every step keeps the data transfer where it was started.                *)
LEMMA ActivatedStep ==
  ASSUME TypeOK, ActivatedInv, [Next]_vars
  PROVE  ActivatedInv'
<1> USE DEF ActivatedInv
<1>1. CASE ThreadStep
  <2>1. PICK asdus \in Seq(ASDUs), extra \in 0 .. 2 : Adds(asdus, extra)
    BY <1>1, ThreadAdds
  <2> DEFINE L == Len(toPeer)
             a == Len(asdus)
  <2>2. L \in Nat /\ a \in Nat /\ UNCHANGED peerState
    <3>1. UNCHANGED peerVars
      BY <1>1 DEF ThreadStep, ReceiveMessage, ReceiveNothing, ReceiveI, ReceiveS, RejectMessage,
        ReceiveStartDT, ReceiveStopDT, ReceiveTestFR, ReceiveTestFRCon, ReceiveClose,
        Timeouts, HandleTimeouts, SendWaitingASDUs, SkipSending, EndThread
    <3> QED BY <3>1, Elements, LenProperties DEF peerVars
  <2>3. /\ Len(toPeer') = L + a + extra
        /\ \A i \in 1 .. L : toPeer'[i] = toPeer[i]
        /\ \A i \in L + 1 .. L + a : IsI(toPeer'[i])
        /\ \A i \in L + a + 1 .. L + a + extra : ~ IsI(toPeer'[i])
        /\ a # 0 => isActive /\ isActive'
        /\ isActive' => \A i \in L + a + 1 .. L + a + extra : ~ IsStopping(i)'
        /\ isActive' /\ ~ isActive => extra = 1 /\ toPeer'[L + 1].kind = "STARTDT_CON"
    <3>1. \A i \in L + 1 .. L + a : IsI(toPeer'[i])
      <4> TAKE i \in L + 1 .. L + a
      <4>1. i - L \in 1 .. a /\ L + (i - L) = i
        BY <2>2
      <4>2. toPeer'[i] = IFrame((sendCount + (i - L) - 1) % M, receiveCount', asdus[i - L])
        BY <2>1, <4>1 DEF Adds
      <4> QED BY <4>2 DEF IsI, IFrame
    <3> QED BY <2>1, <3>1 DEF Adds
  <2> HIDE DEF L, a
  <2>4. ASSUME NEW n \in 1 .. L + 1, Started(n) PROVE Started(n)'
    <3>1. \A m \in 1 .. n - 1 : toPeer'[m] = toPeer[m]
      BY <2>2, <2>3
    <3>2. \A m \in 1 .. n - 1 : /\ IsStopping(m)' <=> IsStopping(m)
                                /\ IsStarting(m)' <=> IsStarting(m)
      BY <3>1 DEF IsStopping, IsStarting
    <3>3. \A m \in 1 .. n - 1 : \A l \in m .. n - 1 : l \in 1 .. n - 1
      BY <2>2
    <3> QED BY <2>2, <2>4, <3>2, <3>3 DEF Started
  <2>5. \A i \in L + 1 .. L + a + extra : isActive' => ~ IsStopping(i)'
    <3>1. \A i \in L + 1 .. L + a : ~ IsStopping(i)'
      BY <2>3 DEF IsI, IsStopping
    <3> QED BY <2>2, <2>3, <3>1
  <2>6. ASSUME isActive', isActive, NEW n \in L + 1 .. L + a + extra + 1
        PROVE  Started(n)'
    <3>1. Started(L + 1)
      BY <2>6 DEF L
    <3>2. CASE /\ peerState \in {"started", "stopping"}
               /\ \A m \in 1 .. L : ~ IsStopping(m)
      <4>1. \A m \in 1 .. n - 1 : ~ IsStopping(m)'
        BY <2>2, <2>3, <2>5, <2>6, <3>2 DEF IsStopping
      <4> QED BY <2>2, <3>2, <4>1 DEF Started
    <3>3. CASE \E m \in 1 .. L : IsStarting(m) /\ \A l \in m .. L : ~ IsStopping(l)
      <4>1. PICK m \in 1 .. L : IsStarting(m) /\ \A l \in m .. L : ~ IsStopping(l)
        BY <3>3
      <4>2. IsStarting(m)' /\ m \in 1 .. n - 1
        BY <2>2, <2>3, <4>1 DEF IsStarting
      <4>3. \A l \in m .. n - 1 : ~ IsStopping(l)'
        BY <2>2, <2>3, <2>5, <2>6, <4>1 DEF IsStopping
      <4> QED BY <4>2, <4>3 DEF Started
    <3>4. L + 1 - 1 = L
      BY <2>2
    <3> QED BY <2>2, <3>1, <3>2, <3>3, <3>4 DEF Started
  <2>7. OnlyWhenStarted'
    <3> SUFFICES ASSUME NEW n \in 1 .. Len(toPeer'), IsI(toPeer'[n]) PROVE Started(n)'
      BY DEF OnlyWhenStarted, Started
    <3>1. CASE n <= L
      <4>1. n \in 1 .. L /\ n \in 1 .. L + 1 /\ IsI(toPeer[n])
        BY <2>2, <2>3, <3>1
      <4>2. Started(n)
        BY <4>1 DEF OnlyWhenStarted, Started, L
      <4> QED BY <2>4, <4>1, <4>2
    <3>2. CASE n > L
      <4>1. n \in L + 1 .. L + a /\ a # 0
        BY <2>2, <2>3, <3>2
      <4>2. n \in L + 1 .. L + a + extra + 1 /\ isActive /\ isActive'
        BY <2>2, <2>3, <4>1
      <4> QED BY <2>6, <4>2
    <3> QED BY <2>2, <2>3, <3>1, <3>2
  <2>8. ASSUME isActive', NEW n \in Nat, n = L + a + extra + 1 PROVE Started(n)'
    <3>1. CASE isActive
      <4>1. n \in L + 1 .. L + a + extra + 1
        BY <2>2, <2>8
      <4> QED BY <2>6, <2>8, <3>1, <4>1
    <3>2. CASE ~ isActive
      <4>1. a = 0 /\ extra = 1 /\ toPeer'[L + 1].kind = "STARTDT_CON"
        BY <2>3, <2>8, <3>2
      <4>2. n - 1 \in 1 .. n - 1 /\ n - 1 = L + 1 /\ \A l \in n - 1 .. n - 1 : l = n - 1
        BY <2>2, <2>8, <4>1
      <4>3. IsStarting(n - 1)' /\ \A l \in n - 1 .. n - 1 : ~ IsStopping(l)'
        BY <4>1, <4>2 DEF IsStarting, IsStopping
      <4> QED BY <4>2, <4>3 DEF Started
    <3> QED BY <3>1, <3>2
  <2>9. isActive' => Started(Len(toPeer) + 1)'
    <3>1. Len(toPeer') + 1 \in Nat /\ Len(toPeer') + 1 = L + a + extra + 1
      BY <2>2, <2>3
    <3>2. \A n \in Nat : isActive' /\ n = Len(toPeer') + 1 => Started(n)'
      BY <2>8, <3>1
    <3> QED BY <3>1, <3>2
  <2> QED BY <2>7, <2>9
<1>2. CASE PeerReceives
  <2>1. /\ Len(toPeer) \in Nat \ {0} /\ Len(toPeer') = Len(toPeer) - 1
        /\ \A i \in 1 .. Len(toPeer) - 1 : toPeer'[i] = toPeer[i + 1]
        /\ UNCHANGED isActive
    BY <1>2, PeerReceivedType DEF PeerReceives, serverVars
  <2>2. \A n \in 2 .. Len(toPeer) + 1 : Started(n) => Started(n - 1)'
    BY <1>2, StartedAfterReading
  <2>3. OnlyWhenStarted'
    <3> SUFFICES ASSUME NEW n \in 1 .. Len(toPeer'), IsI(toPeer'[n]) PROVE Started(n)'
      BY DEF OnlyWhenStarted, Started
    <3>1. n + 1 \in 2 .. Len(toPeer) /\ n + 1 - 1 = n /\ toPeer'[n] = toPeer[n + 1]
      BY <2>1
    <3>2. Started(n + 1)
      BY <3>1 DEF OnlyWhenStarted, Started
    <3>3. Started(n + 1 - 1)'
      BY <2>1, <2>2, <3>1, <3>2
    <3> QED BY <3>1, <3>3
  <2>4. ASSUME isActive' PROVE Started(Len(toPeer) + 1)'
    <3>1. Started(Len(toPeer) + 1) /\ Len(toPeer) + 1 \in 2 .. Len(toPeer) + 1
      BY <2>1, <2>4
    <3> DEFINE n == Len(toPeer) + 1
    <3>2. \A k \in 2 .. Len(toPeer) + 1 : Started(k) /\ k - 1 = Len(toPeer') + 1
                                            => Started(Len(toPeer) + 1)'
      BY <2>2
    <3>3. n - 1 = Len(toPeer') + 1
      BY <2>1
    <3> QED BY <3>1, <3>2, <3>3
  <2> QED BY <2>3, <2>4
<1>3. ASSUME UNCHANGED <<toPeer, isActive>>,
             peerState \in {"started", "stopping"} => peerState' \in {"started", "stopping"}
      PROVE  ActivatedInv'
  BY <1>3 DEF Started, OnlyWhenStarted, IsStopping, IsStarting
<1>4. CASE Enqueue \/ PeerSendsI \/ PeerSendsS \/ PeerControls \/ PeerErrs \/ PeerStops
           \/ UNCHANGED vars
  <2>1. /\ UNCHANGED <<toPeer, isActive>>
        /\ peerState \in {"started", "stopping"} => peerState' \in {"started", "stopping"}
    BY <1>4 DEF Enqueue, PeerSendsI, PeerSendsS, PeerControls, PeerErrs, PeerStops, PeerSends,
                vars, serverVars, peerVars, counters
  <2> QED BY <1>3, <2>1
<1> QED BY <1>1, <1>2, <1>4 DEF Next, PeerStep

(* Every I message of the server lies between a STARTDT confirmation and   *)
(* the next STOPDT confirmation.  What makes it inductive: an active       *)
(* connection has confirmed STARTDT and no STOPDT since.                   *)
THEOREM StartedHolds == Spec => []OnlyWhenStarted
<1>1. Init => ActivatedInv
  BY DEF Init, ActivatedInv, OnlyWhenStarted
<1>2. TypeOK /\ ActivatedInv /\ [Next]_vars => ActivatedInv'
  BY ActivatedStep
<1>3. ActivatedInv => OnlyWhenStarted
  BY DEF ActivatedInv
<1> QED BY <1>1, <1>2, <1>3, TypeCorrect, PTL DEF Spec

-----------------------------------------------------------------------------
(* Acknowledgements of what the server received.                           *)

(* The last of a set of places.                                            *)
LEMMA LastOfIs ==
  ASSUME NEW S \in SUBSET Nat, NEW x \in S, \A m \in S : m <= x
  PROVE  LastOf(S) = x
<1>1. LastOf(S) \in S /\ \A m \in S : m <= LastOf(S)
  BY DEF LastOf
<1>2. LastOf(S) \in Nat /\ x \in Nat /\ LastOf(S) <= x /\ x <= LastOf(S)
  BY <1>1
<1> QED BY <1>2

(* The acknowledgement that is on its way, or the one that arrived last.   *)
LEMMA LastNRCases ==
  ASSUME TypeOK
  PROVE  /\ LastNR \in SeqNo
         /\ \/ /\ \A n \in 1 .. Len(toPeer) : ~ IsNumbered(toPeer[n])
               /\ LastNR = peerAcked
            \/ \E n \in 1 .. Len(toPeer) :
                 /\ IsNumbered(toPeer[n]) /\ LastNR = toPeer[n].nr
                 /\ \A m \in n + 1 .. Len(toPeer) : ~ IsNumbered(toPeer[m])
<1> DEFINE S == {n \in 1 .. Len(toPeer) : IsNumbered(toPeer[n])}
<1>1. /\ Len(toPeer) \in Nat /\ S \in SUBSET (0 .. Len(toPeer)) /\ peerAcked \in SeqNo
      /\ \A n \in 1 .. Len(toPeer) : toPeer[n] \in Frames
  BY Elements DEF TypeOK
<1>2. \A f \in Frames : IsNumbered(f) => f.nr \in SeqNo
  BY DEF Frames, IsNumbered
<1>3. CASE S = {}
  BY <1>1, <1>3 DEF LastNR
<1>4. CASE S # {}
  <2>1. PICK n \in S : \A m \in S : m <= n
    <3> HIDE DEF S
    <3> QED BY <1>1, <1>4, GreatestElement
  <2>2. LastOf(S) = n
    <3>1. S \in SUBSET Nat
      BY <1>1
    <3> HIDE DEF S
    <3> QED BY <2>1, <3>1, LastOfIs
  <2>3. LastNR = toPeer[n].nr
    BY <1>4, <2>2 DEF LastNR
  <2>4. n \in 1 .. Len(toPeer) /\ IsNumbered(toPeer[n])
    OBVIOUS
  <2>5. ASSUME NEW m \in n + 1 .. Len(toPeer) PROVE ~ IsNumbered(toPeer[m])
    <3>1. m \in 1 .. Len(toPeer) /\ ~ (m <= n)
      BY <1>1, <2>4
    <3> QED BY <2>1, <3>1
  <2> QED BY <1>1, <1>2, <2>3, <2>4, <2>5
<1> QED BY <1>3, <1>4

(* The same, read the other way, after a step.                             *)
LEMMA LastNRIs ==
  ASSUME Len(toPeer)' \in Nat
  PROVE  /\ (\A n \in 1 .. Len(toPeer') : ~ IsNumbered(toPeer'[n])) => LastNR' = peerAcked'
         /\ \A n \in 1 .. Len(toPeer') :
              /\ IsNumbered(toPeer'[n])
              /\ \A m \in n + 1 .. Len(toPeer') : ~ IsNumbered(toPeer'[m])
              => LastNR' = toPeer'[n].nr
<1> DEFINE S == {n \in 1 .. Len(toPeer') : IsNumbered(toPeer'[n])}
<1>1. LastNR' = IF S = {} THEN peerAcked' ELSE toPeer'[LastOf(S)].nr
  BY DEF LastNR
<1>2. ASSUME NEW n \in 1 .. Len(toPeer'), IsNumbered(toPeer'[n]),
             \A m \in n + 1 .. Len(toPeer') : ~ IsNumbered(toPeer'[m])
      PROVE  LastNR' = toPeer'[n].nr
  <2>1. n \in S /\ S \in SUBSET Nat
    BY <1>2
  <2>2. ASSUME NEW m \in S PROVE m <= n
    BY <1>2
  <2>3. LastOf(S) = n
    <3> HIDE DEF S
    <3> QED BY <2>1, <2>2, LastOfIs
  <2> QED BY <1>1, <2>1, <2>3
<1>3. ASSUME \A n \in 1 .. Len(toPeer') : ~ IsNumbered(toPeer'[n])
      PROVE  LastNR' = peerAcked'
  BY <1>1, <1>3
<1> QED BY <1>2, <1>3

(* One more message received is one more to acknowledge.                   *)
LEMMA OneMore ==
  ASSUME NEW r \in SeqNo, NEW nr \in SeqNo, NEW u \in Nat, (r - nr) % M = u % M
  PROVE  (Succ(r) - nr) % M = (u + 1) % M
<1>1. M \in Nat /\ M > 2 /\ r \in 0 .. M - 1 /\ nr \in 0 .. M - 1
  BY Modulo DEF SeqNo
<1>2. (u + 1) % M = (((r - nr) % M) + 1) % M
  BY ModuloNext
<1>3. Succ(r) = IF r + 1 = M THEN 0 ELSE r + 1
  <2>1. r + 1 \in Nat /\ r + 1 < 2 * M
    BY <1>1
  <2>2. CASE r + 1 = M
    <3>1. M % M = 0
      BY <1>1, Modulo
    <3> QED BY <2>2, <3>1 DEF Succ
  <2>3. CASE r + 1 # M
    <3>1. r + 1 \in SeqNo
      BY <1>1, <2>3 DEF SeqNo
    <3> QED BY <2>3, <3>1, Modulo DEF Succ
  <2> QED BY <2>2, <2>3
<1>4. \A x \in 0 - M .. M - 1 : x % M = IF x < 0 THEN x + M ELSE x
  BY <1>1, Wraps
<1>5. (r - nr) % M = IF r - nr < 0 THEN r - nr + M ELSE r - nr
  BY <1>1, <1>4
<1>6. PICK s \in SeqNo : s = Succ(r)
  BY Modulo
<1>7. s - nr \in 0 - M .. M - 1 /\ s = IF r + 1 = M THEN 0 ELSE r + 1
  BY <1>1, <1>3, <1>6
<1>8. (s - nr) % M = IF s - nr < 0 THEN s - nr + M ELSE s - nr
  BY <1>4, <1>7
<1> DEFINE d == (r - nr) % M
           e == (s - nr) % M
<1>9. d \in 0 .. M - 1 /\ e = IF d + 1 = M THEN 0 ELSE d + 1
  BY <1>1, <1>5, <1>7, <1>8
<1>10. (u + 1) % M = (d + 1) % M
  BY <1>2
<1> HIDE DEF d, e
<1>0. (d + 1) % M = e
  <2>1. d + 1 \in 0 - M .. 2 * M - 1
    BY <1>1, <1>9
  <2>2. (d + 1) % M = IF d + 1 < 0 THEN d + 1 + M ELSE IF d + 1 < M THEN d + 1 ELSE d + 1 - M
    BY <1>1, <1>9, <2>1, Wraps
  <2> QED BY <1>1, <1>9, <2>2
<1>12. (u + 1) % M = e
  BY <1>10, <1>0
<1> QED BY <1>6, <1>12 DEF e

(* Every step keeps the debt below w.                                      *)
LEMMA DebtStep ==
  ASSUME TypeOK, AcknowledgementDebt, [Next]_vars
  PROVE  AcknowledgementDebt'
<1>1. TypeOK' /\ LastNR \in SeqNo /\ Len(toPeer) \in Nat /\ Len(toPeer') \in Nat
  <2>1. TypeOK'
    BY StepType
  <2>2. Len(toPeer)' \in Nat
    BY <2>1, LenProperties DEF TypeOK
  <2> QED BY <2>1, <2>2, LastNRCases, Elements
<1>2. unconfirmedReceivedIMessages' < W
  BY <1>1, ParametersAssumption DEF TypeOK
<1>3. (receiveCount - LastNR) % M = unconfirmedReceivedIMessages % M
  BY DEF AcknowledgementDebt
<1>4. ASSUME UNCHANGED <<receiveCount, LastNR, unconfirmedReceivedIMessages>>
      PROVE  AcknowledgementDebt'
  BY <1>2, <1>3, <1>4 DEF AcknowledgementDebt
<1>5. CASE ThreadStep
  <2>1. PICK asdus \in Seq(ASDUs), extra \in 0 .. 2 : Adds(asdus, extra)
    BY <1>5, ThreadAdds
  <2>2. UNCHANGED peerAcked
    BY <1>5 DEF ThreadStep, ReceiveMessage, ReceiveNothing, ReceiveI, ReceiveS, RejectMessage,
        ReceiveStartDT, ReceiveStopDT, ReceiveTestFR, ReceiveTestFRCon, ReceiveClose,
        Timeouts, HandleTimeouts, SendWaitingASDUs, SkipSending, EndThread, peerVars
  <2> DEFINE L == Len(toPeer)
             a == Len(asdus)
             N == Len(toPeer')
  <2>3. /\ L \in Nat /\ a \in Nat /\ N = L + a + extra
        /\ \A i \in 1 .. L : toPeer'[i] = toPeer[i]
    BY <1>1, <2>1, LenProperties DEF Adds
  <2>4. \A i \in L + 1 .. N : IsNumbered(toPeer'[i]) => toPeer'[i].nr = receiveCount'
    <3> TAKE i \in L + 1 .. N
    <3>1. CASE i <= L + a
      <4>1. i - L \in 1 .. a /\ L + (i - L) = i
        BY <2>3, <3>1
      <4>2. toPeer'[i] = IFrame((sendCount + (i - L) - 1) % M, receiveCount', asdus[i - L])
        BY <2>1, <4>1 DEF Adds
      <4> QED BY <4>2 DEF IFrame
    <3>2. CASE i > L + a
      <4>1. i \in L + a + 1 .. L + a + extra
        BY <2>3, <3>2
      <4> QED BY <2>1, <4>1 DEF Adds
    <3> QED BY <2>3, <3>1, <3>2
  <2>5. CASE \E i \in L + 1 .. N : IsNumbered(toPeer'[i])
    <3> DEFINE S == {i \in L + 1 .. N : IsNumbered(toPeer'[i])}
    <3>1. S \in SUBSET (0 .. N) /\ S # {} /\ N \in Nat
      BY <1>1, <2>3, <2>5
    <3>2. PICK n \in S : \A m \in S : m <= n
      <4> HIDE DEF S, N
      <4> QED BY <3>1, GreatestElement
    <3>3. /\ n \in 1 .. N /\ IsNumbered(toPeer'[n])
          /\ \A m \in n + 1 .. N : ~ IsNumbered(toPeer'[m])
      <4>1. n \in L + 1 .. N /\ IsNumbered(toPeer'[n])
        OBVIOUS
      <4>2. ASSUME NEW m \in n + 1 .. N PROVE ~ IsNumbered(toPeer'[m])
        <5>1. m \in L + 1 .. N /\ ~ (m <= n)
          BY <2>3, <4>1
        <5> QED BY <3>2, <5>1
      <4> QED BY <2>3, <4>1, <4>2
    <3>4. LastNR' = toPeer'[n].nr
      BY <1>1, <3>3, LastNRIs
    <3>5. LastNR' = receiveCount'
      BY <2>4, <3>3, <3>4
    <3>6. unconfirmedReceivedIMessages' = 0
      <4>1. a # 0 \/ n \in L + a + 1 .. L + a + extra
        BY <2>3
      <4> QED BY <2>1, <3>3, <4>1 DEF Adds
    <3>7. receiveCount' \in SeqNo
      BY <1>1 DEF TypeOK
    <3>8. (receiveCount' - receiveCount') % M = 0 % M
      BY <3>7, Modulo
    <3> QED BY <1>2, <3>5, <3>6, <3>8 DEF AcknowledgementDebt
  <2>6. CASE \A i \in L + 1 .. N : ~ IsNumbered(toPeer'[i])
    <3>1. a = 0 /\ \A i \in L + a + 1 .. L + a + extra : ~ IsNumbered(toPeer'[i])
      <4>1. ASSUME a # 0 PROVE FALSE
        <5>1. L + 1 \in L + 1 .. N /\ 1 \in 1 .. a
          BY <2>3, <4>1
        <5>2. toPeer'[L + 1] = IFrame((sendCount + 1 - 1) % M, receiveCount', asdus[1])
          BY <2>1, <5>1 DEF Adds
        <5> QED BY <2>6, <5>1, <5>2 DEF IFrame, IsNumbered
      <4> QED BY <2>3, <2>6, <4>1
    <3>2. LastNR' = LastNR
      <4>1. CASE /\ \A n \in 1 .. Len(toPeer) : ~ IsNumbered(toPeer[n])
                 /\ LastNR = peerAcked
        <5>1. \A n \in 1 .. N : ~ IsNumbered(toPeer'[n])
          BY <2>3, <2>6, <4>1
        <5> QED BY <1>1, <2>2, <4>1, <5>1, LastNRIs
      <4>2. CASE \E n \in 1 .. Len(toPeer) :
                   /\ IsNumbered(toPeer[n]) /\ LastNR = toPeer[n].nr
                   /\ \A m \in n + 1 .. Len(toPeer) : ~ IsNumbered(toPeer[m])
        <5>1. PICK n \in 1 .. L : /\ IsNumbered(toPeer[n]) /\ LastNR = toPeer[n].nr
                                  /\ \A m \in n + 1 .. L : ~ IsNumbered(toPeer[m])
          BY <4>2
        <5>2. n \in 1 .. N /\ toPeer'[n] = toPeer[n]
          BY <2>3
        <5>3. \A m \in n + 1 .. N : ~ IsNumbered(toPeer'[m])
          BY <2>3, <2>6, <5>1
        <5> QED BY <1>1, <5>1, <5>2, <5>3, LastNRIs
      <4> QED BY <4>1, <4>2, LastNRCases
    <3>3. CASE UNCHANGED <<receiveCount, unconfirmedReceivedIMessages>>
      BY <1>4, <3>2, <3>3
    <3>4. CASE /\ receiveCount' = Succ(receiveCount)
               /\ unconfirmedReceivedIMessages' = unconfirmedReceivedIMessages + 1
      <4>1. receiveCount \in SeqNo /\ unconfirmedReceivedIMessages \in Nat
        BY ParametersAssumption DEF TypeOK
      <4>2. (Succ(receiveCount) - LastNR) % M = (unconfirmedReceivedIMessages + 1) % M
        BY <1>1, <1>3, <4>1, OneMore
      <4> QED BY <1>2, <3>2, <3>4, <4>2 DEF AcknowledgementDebt
    <3> QED BY <2>1, <3>1, <3>3, <3>4 DEF Adds
  <2> QED BY <2>5, <2>6
<1>6. CASE PeerReceives
  <2>1. /\ Len(toPeer') = Len(toPeer) - 1 /\ Len(toPeer) \in Nat \ {0}
        /\ \A i \in 1 .. Len(toPeer) - 1 : toPeer'[i] = toPeer[i + 1]
        /\ Head(toPeer) = toPeer[1]
        /\ UNCHANGED <<receiveCount, unconfirmedReceivedIMessages>>
        /\ peerAcked' = IF IsNumbered(toPeer[1]) THEN toPeer[1].nr ELSE peerAcked
    BY <1>6, PeerReceivedType DEF PeerReceives, serverVars, counters, IsNumbered
  <2>2. CASE /\ \A n \in 1 .. Len(toPeer) : ~ IsNumbered(toPeer[n])
             /\ LastNR = peerAcked
    <3>1. \A n \in 1 .. Len(toPeer') : ~ IsNumbered(toPeer'[n])
      BY <2>1, <2>2
    <3>2. peerAcked' = peerAcked
      BY <2>1, <2>2
    <3> QED BY <1>1, <1>4, <2>1, <2>2, <3>1, <3>2, LastNRIs
  <2>3. CASE \E n \in 1 .. Len(toPeer) :
               /\ IsNumbered(toPeer[n]) /\ LastNR = toPeer[n].nr
               /\ \A m \in n + 1 .. Len(toPeer) : ~ IsNumbered(toPeer[m])
    <3>1. PICK n \in 1 .. Len(toPeer) :
               /\ IsNumbered(toPeer[n]) /\ LastNR = toPeer[n].nr
               /\ \A m \in n + 1 .. Len(toPeer) : ~ IsNumbered(toPeer[m])
      BY <2>3
    <3>2. \A m \in n .. Len(toPeer') : m + 1 \in n + 1 .. Len(toPeer) /\ m \in 1 .. Len(toPeer) - 1
      BY <2>1
    <3>3. \A m \in n .. Len(toPeer') : ~ IsNumbered(toPeer'[m])
      BY <2>1, <3>1, <3>2
    <3>4. CASE n = 1
      <4>1. LastNR' = peerAcked'
        BY <1>1, <3>3, <3>4, LastNRIs
      <4> QED BY <1>4, <2>1, <3>1, <3>4, <4>1
    <3>5. CASE n # 1
      <4>1. n - 1 \in 1 .. Len(toPeer') /\ n - 1 \in 1 .. Len(toPeer) - 1 /\ n - 1 + 1 = n
        BY <2>1, <3>5
      <4>2. toPeer'[n - 1] = toPeer[n]
        BY <2>1, <4>1
      <4>3. LastNR' = toPeer'[n - 1].nr
        BY <1>1, <3>1, <3>3, <4>1, <4>2, LastNRIs
      <4> QED BY <1>4, <2>1, <3>1, <4>2, <4>3
    <3> QED BY <3>4, <3>5
  <2> QED BY <2>2, <2>3, LastNRCases
<1>7. CASE Enqueue \/ PeerSendsI \/ PeerSendsS \/ PeerControls \/ PeerErrs \/ PeerStops
           \/ UNCHANGED vars
  <2>1. UNCHANGED <<receiveCount, unconfirmedReceivedIMessages, toPeer, peerAcked>>
    BY <1>7 DEF Enqueue, PeerSendsI, PeerSendsS, PeerControls, PeerErrs, PeerStops, PeerSends,
                vars, serverVars, peerVars, counters
  <2>2. LastNR' = LastNR
    BY <2>1 DEF LastNR
  <2> QED BY <1>4, <2>1, <2>2
<1> QED BY <1>5, <1>6, <1>7 DEF Next, PeerStep

(* The messages received since the last N(R) the server sent are those it  *)
(* counts, and they stay fewer than w.                                     *)
THEOREM DebtHolds == Spec => []AcknowledgementDebt
<1>1. Init => AcknowledgementDebt
  <2> SUFFICES ASSUME Init PROVE AcknowledgementDebt
    OBVIOUS
  <2>1. TypeOK
    BY InitType
  <2>2. LastNR = 0
    BY <2>1, LastNRCases DEF Init
  <2> QED BY <2>2, ParametersAssumption DEF Init, AcknowledgementDebt
<1>2. TypeOK /\ AcknowledgementDebt /\ [Next]_vars => AcknowledgementDebt'
  BY DebtStep
<1> QED BY <1>1, <1>2, TypeCorrect, PTL DEF Spec

-----------------------------------------------------------------------------
(* The order of the events.                                                *)

(* Also the sent entries are in order, and no event is newer than the last *)
(* one produced.                                                           *)
OrderInv ==
  /\ InOrder
  /\ \A m, n \in 1 .. Len(lowPrioQueue) : m < n => lowPrioQueue[m].event < lowPrioQueue[n].event
  /\ \A n \in 1 .. Len(lowPrioQueue) : lowPrioQueue[n].event <= produced
  /\ \A n \in OnTheWay : toPeer[n].asdu <= produced
  /\ \A n \in 1 .. Len(delivered) : delivered[n] <= produced

(* Events have numbers.                                                    *)
LEMMA EventTypes ==
  ASSUME TypeOK
  PROVE  /\ \A n \in 1 .. Len(lowPrioQueue) : lowPrioQueue[n].event \in Nat
         /\ \A n \in OnTheWay : n \in 1 .. Len(toPeer) /\ toPeer[n].asdu \in Nat
         /\ \A n \in 1 .. Len(delivered) : delivered[n] \in Nat
         /\ produced \in Nat
<1>1. produced \in Nat /\ Events \subseteq Nat
  BY ConnectionBoundsAssumption DEF TypeOK, Events
<1>2. \A f \in Frames : IsEvent(f) => f.asdu \in Events
  BY DEF Frames, IsEvent, IsI
<1> QED BY <1>1, <1>2, Elements DEF OnTheWay

(* What waits after a step of the thread waited before, and what is on its *)
(* way was there or was the first that waited.                             *)
LEMMA ThreadEvents ==
  ASSUME TypeOK, ThreadStep
  PROVE  \E next \in 0 .. Len(lowPrioQueue), freed \in 0 .. Len(lowPrioQueue) :
           /\ \A i \in 1 .. Len(lowPrioQueue') :
                /\ freed + i \in 1 .. Len(lowPrioQueue)
                /\ lowPrioQueue'[i].event = lowPrioQueue[freed + i].event
                /\ ~ lowPrioQueue'[i].sent => ~ lowPrioQueue[freed + i].sent /\ freed + i # next
           /\ next # 0 => next \in Waiting /\ \A j \in Waiting : next <= j
           /\ \A i \in OnTheWay' :
                \/ i \in OnTheWay /\ toPeer'[i] = toPeer[i]
                \/ i > Len(toPeer) /\ next # 0 /\ toPeer'[i].asdu = lowPrioQueue[next].event
           /\ \A i, j \in OnTheWay' : i > Len(toPeer) /\ j > Len(toPeer) => i = j
<1>1. PICK asdus \in Seq(ASDUs), extra \in 0 .. 2, rel \in 0 .. Len(sentASDUs),
           freed \in 0 .. Len(lowPrioQueue), next \in 0 .. Len(lowPrioQueue) :
        Adds(asdus, extra) /\ Serves(asdus, rel, freed, next)
  BY ThreadAdds
<1> DEFINE L == Len(toPeer)
           a == Len(asdus)
           Q == Len(lowPrioQueue)
<1>2. L \in Nat /\ a \in Nat /\ Q \in Nat /\ Queues(asdus, freed, next)
  BY <1>1, Elements, LenProperties DEF Serves
<1>3. \A i \in 1 .. Len(lowPrioQueue') :
        /\ freed + i \in 1 .. Q
        /\ lowPrioQueue'[i].event = lowPrioQueue[freed + i].event
        /\ ~ lowPrioQueue'[i].sent => ~ lowPrioQueue[freed + i].sent /\ freed + i # next
  <2> TAKE i \in 1 .. Len(lowPrioQueue')
  <2>1. i \in 1 .. Q - freed /\ freed + i \in 1 .. Q
    BY <1>2 DEF Queues
  <2>2. lowPrioQueue'[i] = [event |-> lowPrioQueue[freed + i].event,
                            sent |-> lowPrioQueue[freed + i].sent \/ i = next]
    BY <1>2, <2>1 DEF Queues
  <2>3. next # 0 => freed = 0 /\ freed + i = i
    BY <1>2 DEF Queues
  <2>4. lowPrioQueue'[i].event = lowPrioQueue[freed + i].event
    BY <2>2
  <2>5. lowPrioQueue'[i].sent = (lowPrioQueue[freed + i].sent \/ i = next)
    BY <2>2
  <2>6. freed + i = next => i = next
    BY <1>2, <2>1, <2>3
  <2> QED BY <2>1, <2>4, <2>5, <2>6
<1>4. ASSUME next # 0 PROVE next \in Waiting /\ \A j \in Waiting : next <= j
  <2>1. next \in 1 .. Q /\ IsNext(next)
    BY <1>2, <1>4 DEF Queues
  <2> QED BY <1>2, <2>1 DEF IsNext, Waiting
<1>5. ASSUME NEW i \in OnTheWay'
      PROVE  \/ i \in OnTheWay /\ toPeer'[i] = toPeer[i]
             \/ i > L /\ i = L + a /\ next # 0 /\ toPeer'[i].asdu = lowPrioQueue[next].event
  <2>1. i \in 1 .. Len(toPeer') /\ IsI(toPeer'[i]) /\ toPeer'[i].asdu # Reply
    BY DEF OnTheWay, IsEvent
  <2>2. CASE i <= L
    <3>1. toPeer'[i] = toPeer[i] /\ i \in 1 .. L
      BY <1>1, <1>2, <2>1, <2>2 DEF Adds
    <3> QED BY <2>1, <3>1 DEF OnTheWay, IsEvent
  <2>3. CASE i > L
    <3>1. i <= L + a
      BY <1>1, <1>2, <2>1, <2>3 DEF Adds
    <3>2. i - L \in 1 .. a /\ L + (i - L) = i
      BY <1>2, <2>1, <2>3, <3>1
    <3>3. toPeer'[i] = IFrame((sendCount + (i - L) - 1) % M, receiveCount', asdus[i - L])
      BY <1>1, <3>2 DEF Adds
    <3>4. toPeer'[i].asdu = asdus[i - L]
      BY <3>3 DEF IFrame
    <3>5. next # 0 /\ i - L = a /\ asdus[i - L] = lowPrioQueue[next].event
      BY <1>2, <2>1, <3>2, <3>4 DEF Queues
    <3> QED BY <1>2, <2>1, <2>3, <3>2, <3>4, <3>5
  <2> QED BY <1>2, <2>1, <2>2, <2>3
<1>6. \A i \in OnTheWay : ~ (i > L)
  BY <1>2 DEF OnTheWay
<1>7. \A i, j \in OnTheWay' : i > L /\ j > L => i = j
  BY <1>5, <1>6
<1> QED BY <1>3, <1>4, <1>5, <1>7

(* Every step keeps the order.                                             *)
LEMMA OrderStep ==
  ASSUME TypeOK, OrderInv, [Next]_vars
  PROVE  OrderInv'
<1>1. CASE ThreadStep
  <2>1. UNCHANGED <<delivered, produced>>
    BY <1>1 DEF ThreadStep, ReceiveMessage, ReceiveNothing, ReceiveI, ReceiveS, RejectMessage,
        ReceiveStartDT, ReceiveStopDT, ReceiveTestFR, ReceiveTestFRCon, ReceiveClose,
        Timeouts, HandleTimeouts, SendWaitingASDUs, SkipSending, EndThread, history
  <2>2. PICK next \in 0 .. Len(lowPrioQueue), freed \in 0 .. Len(lowPrioQueue) :
           /\ \A i \in 1 .. Len(lowPrioQueue') :
                /\ freed + i \in 1 .. Len(lowPrioQueue)
                /\ lowPrioQueue'[i].event = lowPrioQueue[freed + i].event
                /\ ~ lowPrioQueue'[i].sent => ~ lowPrioQueue[freed + i].sent /\ freed + i # next
           /\ next # 0 => next \in Waiting /\ \A j \in Waiting : next <= j
           /\ \A i \in OnTheWay' :
                \/ i \in OnTheWay /\ toPeer'[i] = toPeer[i]
                \/ i > Len(toPeer) /\ next # 0 /\ toPeer'[i].asdu = lowPrioQueue[next].event
           /\ \A i, j \in OnTheWay' : i > Len(toPeer) /\ j > Len(toPeer) => i = j
    BY <1>1, ThreadEvents
  <2>3. \A i \in Waiting' : /\ i \in 1 .. Len(lowPrioQueue')
                            /\ freed + i \in Waiting /\ freed + i # next
                            /\ lowPrioQueue'[i].event = lowPrioQueue[freed + i].event
    BY <2>2 DEF Waiting
  <2>4. \A m, n \in 1 .. Len(lowPrioQueue') :
          m < n => lowPrioQueue'[m].event < lowPrioQueue'[n].event
    <3> TAKE m, n \in 1 .. Len(lowPrioQueue')
    <3>1. m < n => freed + m < freed + n
      BY Elements
    <3> QED BY <2>2, <3>1 DEF OrderInv
  <2>5. /\ \A n \in 1 .. Len(lowPrioQueue) : n \in Nat /\ lowPrioQueue[n].event \in Nat
        /\ \A n \in OnTheWay : n \in 1 .. Len(toPeer) /\ toPeer[n].asdu \in Nat
        /\ \A n \in 1 .. Len(delivered) : delivered[n] \in Nat
        /\ Len(toPeer) \in Nat /\ \A n \in OnTheWay' : n \in Nat
    BY EventTypes, Elements DEF OnTheWay
  <2>6. Waiting \subseteq 1 .. Len(lowPrioQueue)
    BY DEF Waiting
  <2>7. \A j \in Waiting : next # 0 /\ j # next => lowPrioQueue[next].event < lowPrioQueue[j].event
    <3> TAKE j \in Waiting
    <3> SUFFICES ASSUME next # 0, j # next
                 PROVE  lowPrioQueue[next].event < lowPrioQueue[j].event
      OBVIOUS
    <3>1. next \in 1 .. Len(lowPrioQueue) /\ j \in 1 .. Len(lowPrioQueue) /\ next < j
      BY <2>2, <2>5, <2>6
    <3> QED BY <3>1 DEF OrderInv
  <2>8. \A m, n \in OnTheWay' : m < n => toPeer'[m].asdu < toPeer'[n].asdu
    <3> SUFFICES ASSUME NEW m \in OnTheWay', NEW n \in OnTheWay', m < n
                 PROVE  toPeer'[m].asdu < toPeer'[n].asdu
      OBVIOUS
    <3>1. CASE m \in OnTheWay /\ toPeer'[m] = toPeer[m] /\ n \in OnTheWay /\ toPeer'[n] = toPeer[n]
      BY <3>1 DEF OrderInv, InOrder
    <3>2. CASE /\ m \in OnTheWay /\ toPeer'[m] = toPeer[m]
               /\ next # 0 /\ toPeer'[n].asdu = lowPrioQueue[next].event
      <4>1. next \in Waiting
        BY <2>2, <3>2
      <4> QED BY <3>2, <4>1 DEF OrderInv, InOrder
    <3>3. CASE m > Len(toPeer)
      BY <2>2, <2>5, <3>3
    <3> QED BY <2>2, <3>1, <3>2, <3>3
  <2>9. \A l \in 1 .. Len(delivered), m \in OnTheWay' : delivered[l] < toPeer'[m].asdu
    BY <2>2 DEF OrderInv, InOrder
  <2>10. \A l \in 1 .. Len(delivered), n \in Waiting' : delivered[l] < lowPrioQueue'[n].event
    BY <2>3 DEF OrderInv, InOrder
  <2>11. \A m \in OnTheWay', n \in Waiting' : toPeer'[m].asdu < lowPrioQueue'[n].event
    <3> TAKE m \in OnTheWay', n \in Waiting'
    <3>1. CASE m \in OnTheWay /\ toPeer'[m] = toPeer[m]
      BY <2>3, <3>1 DEF OrderInv, InOrder
    <3>2. CASE next # 0 /\ toPeer'[m].asdu = lowPrioQueue[next].event
      BY <2>3, <2>7, <3>2
    <3> QED BY <2>2, <3>1, <3>2
  <2>12. \A m, n \in Waiting' : m < n => lowPrioQueue'[m].event < lowPrioQueue'[n].event
    BY <2>3, <2>4
  <2>13. InOrder'
    BY <2>1, <2>8, <2>9, <2>10, <2>11, <2>12 DEF OrderInv, InOrder
  <2>14. \A n \in OnTheWay' : toPeer'[n].asdu <= produced
    BY <2>2, <2>6 DEF OrderInv
  <2>15. \A n \in 1 .. Len(lowPrioQueue') : lowPrioQueue'[n].event <= produced
    BY <2>2 DEF OrderInv
  <2> QED BY <2>1, <2>4, <2>13, <2>14, <2>15 DEF OrderInv
<1>2. CASE PeerReceives
  <2> DEFINE f == toPeer[1]
             d == Len(delivered)
  <2>1. /\ Len(toPeer') = Len(toPeer) - 1 /\ Len(toPeer) \in Nat \ {0}
        /\ \A i \in 1 .. Len(toPeer) - 1 : toPeer'[i] = toPeer[i + 1]
        /\ UNCHANGED <<lowPrioQueue, produced>>
        /\ delivered' = IF IsEvent(f) THEN Append(delivered, f.asdu) ELSE delivered
    BY <1>2, PeerReceivedType DEF PeerReceives, serverVars, queues, IsEvent, IsI
  <2>2. \A i \in OnTheWay' : /\ i + 1 \in OnTheWay /\ toPeer'[i] = toPeer[i + 1]
                             /\ i + 1 > 1 /\ i \in Nat
    BY <2>1 DEF OnTheWay
  <2>3. /\ IsEvent(f) => 1 \in OnTheWay /\ f.asdu \in Events /\ f.asdu <= produced
        /\ d \in Nat
    <3>1. IsEvent(f) => 1 \in OnTheWay
      BY <2>1 DEF OnTheWay
    <3>2. \A g \in Frames : IsEvent(g) => g.asdu \in Events
      BY DEF Frames, IsEvent, IsI
    <3> QED BY <2>1, <3>1, <3>2, Elements DEF OrderInv
  <2>4. /\ Len(delivered') = IF IsEvent(f) THEN d + 1 ELSE d
        /\ \A l \in 1 .. Len(delivered') : delivered'[l] = IF l <= d THEN delivered[l] ELSE f.asdu
        /\ \A l \in 1 .. Len(delivered') : l > d => l = d + 1 /\ IsEvent(f)
    <3>1. CASE IsEvent(f)
      <4>1. delivered \in Seq(Events) /\ delivered' = Append(delivered, f.asdu)
        BY <2>1, <3>1 DEF TypeOK
      <4>2. /\ Len(delivered') = d + 1 /\ delivered'[d + 1] = f.asdu
            /\ \A l \in 1 .. d : delivered'[l] = delivered[l]
        BY <2>3, <3>1, <4>1, AppendProperties
      <4>3. \A l \in 1 .. d + 1 : l <= d \/ l = d + 1
        BY <2>3
      <4> QED BY <2>3, <3>1, <4>2, <4>3
    <3>2. CASE ~ IsEvent(f)
      BY <2>1, <2>3, <3>2
    <3> QED BY <3>1, <3>2
  <2>5. /\ \A m, n \in 1 .. d : m < n => delivered[m] < delivered[n]
        /\ \A l \in 1 .. d : IsEvent(f) => delivered[l] < f.asdu
        /\ \A n \in OnTheWay : IsEvent(f) /\ n > 1 => f.asdu < toPeer[n].asdu
        /\ \A n \in Waiting : IsEvent(f) => f.asdu < lowPrioQueue[n].event
        /\ \A l \in 1 .. d, m \in OnTheWay : delivered[l] < toPeer[m].asdu
        /\ \A l \in 1 .. d, n \in Waiting : delivered[l] < lowPrioQueue[n].event
        /\ \A m \in OnTheWay, n \in Waiting : toPeer[m].asdu < lowPrioQueue[n].event
        /\ \A m, n \in OnTheWay : m < n => toPeer[m].asdu < toPeer[n].asdu
    BY <2>3 DEF OrderInv, InOrder
  <2>6. Waiting' = Waiting
    BY <2>1 DEF Waiting
  <2> HIDE DEF f, d
  <2>7. \A m, n \in 1 .. Len(delivered') : m < n => delivered'[m] < delivered'[n]
    BY <2>3, <2>4, <2>5
  <2>8. \A m, n \in OnTheWay' : m < n => toPeer'[m].asdu < toPeer'[n].asdu
    <3> TAKE m, n \in OnTheWay'
    <3>1. m < n => m + 1 < n + 1
      BY <2>2
    <3> QED BY <2>2, <2>5, <3>1
  <2>9. \A l \in 1 .. Len(delivered'), m \in OnTheWay' : delivered'[l] < toPeer'[m].asdu
    BY <2>2, <2>3, <2>4, <2>5
  <2>10. \A l \in 1 .. Len(delivered'), n \in Waiting : delivered'[l] < lowPrioQueue[n].event
    BY <2>3, <2>4, <2>5
  <2>11. \A m \in OnTheWay', n \in Waiting : toPeer'[m].asdu < lowPrioQueue[n].event
    BY <2>2, <2>5
  <2>12. InOrder'
    <3>1. \A m, n \in Waiting' : m < n => lowPrioQueue'[m].event < lowPrioQueue'[n].event
      BY <2>1, <2>6 DEF OrderInv, InOrder
    <3> QED BY <2>1, <2>6, <2>7, <2>8, <2>9, <2>10, <2>11, <3>1 DEF InOrder
  <2>13. \A n \in OnTheWay' : toPeer'[n].asdu <= produced
    BY <2>2 DEF OrderInv
  <2>14. \A l \in 1 .. Len(delivered') : delivered'[l] <= produced
    BY <2>3, <2>4 DEF OrderInv, d
  <2> QED BY <2>1, <2>12, <2>13, <2>14 DEF OrderInv
<1>3. CASE Enqueue
  <2>1. UNCHANGED <<toPeer, delivered>> /\ produced' = produced + 1 /\ produced \in Nat
    BY <1>3, EnqueueType DEF Enqueue
  <2>2. PICK dropped \in {0, 1} :
          LET kept == Len(lowPrioQueue) - dropped
          IN  /\ kept \in Nat /\ Len(lowPrioQueue') = kept + 1
              /\ \A i \in 1 .. kept : lowPrioQueue'[i] = lowPrioQueue[i + dropped]
              /\ lowPrioQueue'[kept + 1] = [event |-> produced + 1, sent |-> FALSE]
    BY <1>3, EnqueueType
  <2> DEFINE kept == Len(lowPrioQueue) - dropped
  <2>3. kept \in Nat /\ Len(lowPrioQueue) \in Nat /\ Len(lowPrioQueue') = kept + 1
    BY <2>2, Elements
  <2>4. \A n \in 1 .. kept + 1 :
          \/ /\ n <= kept /\ n + dropped \in 1 .. Len(lowPrioQueue)
             /\ lowPrioQueue'[n] = lowPrioQueue[n + dropped]
          \/ n = kept + 1 /\ lowPrioQueue'[n].event = produced + 1
    <3> TAKE n \in 1 .. kept + 1
    <3>1. CASE n <= kept
      <4>1. n \in 1 .. kept /\ n + dropped \in 1 .. Len(lowPrioQueue)
        BY <2>3, <3>1
      <4> QED BY <2>2, <3>1, <4>1
    <3>2. CASE n = kept + 1
      BY <2>2, <3>2
    <3> QED BY <2>3, <3>1, <3>2
  <2>5. \A n \in Waiting' :
          /\ n \in 1 .. kept + 1
          /\ \/ /\ n <= kept /\ n + dropped \in Waiting
                /\ lowPrioQueue'[n].event = lowPrioQueue[n + dropped].event
             \/ n = kept + 1 /\ lowPrioQueue'[n].event = produced + 1
    BY <2>3, <2>4 DEF Waiting
  <2> HIDE DEF kept
  <2>6. /\ \A n \in 1 .. Len(lowPrioQueue) : lowPrioQueue[n].event \in Nat
        /\ \A n \in OnTheWay : toPeer[n].asdu \in Nat
        /\ \A n \in 1 .. Len(delivered) : delivered[n] \in Nat
    BY EventTypes
  <2>7. \A m, n \in 1 .. kept + 1 : m < n => lowPrioQueue'[m].event < lowPrioQueue'[n].event
    <3> SUFFICES ASSUME NEW m \in 1 .. kept + 1, NEW n \in 1 .. kept + 1, m < n
                 PROVE  lowPrioQueue'[m].event < lowPrioQueue'[n].event
      OBVIOUS
    <3>1. m <= kept /\ m + dropped \in 1 .. Len(lowPrioQueue)
          /\ lowPrioQueue'[m] = lowPrioQueue[m + dropped]
      BY <2>3, <2>4
    <3>2. CASE n <= kept
      <4>1. n + dropped \in 1 .. Len(lowPrioQueue) /\ lowPrioQueue'[n] = lowPrioQueue[n + dropped]
        BY <2>3, <2>4, <3>2
      <4>2. m + dropped < n + dropped
        BY <2>3
      <4> QED BY <3>1, <4>1, <4>2 DEF OrderInv
    <3>3. CASE n = kept + 1
      <4>1. lowPrioQueue'[n].event = produced + 1
        BY <2>3, <2>4, <3>3
      <4> QED BY <2>1, <2>6, <3>1, <4>1 DEF OrderInv
    <3> QED BY <2>3, <3>2, <3>3
  <2>8. OnTheWay' = OnTheWay
    BY <2>1 DEF OnTheWay
  <2>9. \A l \in 1 .. Len(delivered), n \in Waiting' : delivered[l] < lowPrioQueue'[n].event
    BY <2>1, <2>5, <2>6 DEF OrderInv, InOrder
  <2>10. \A m \in OnTheWay, n \in Waiting' : toPeer[m].asdu < lowPrioQueue'[n].event
    BY <2>1, <2>5, <2>6 DEF OrderInv, InOrder
  <2>11. \A m, n \in Waiting' : m < n => lowPrioQueue'[m].event < lowPrioQueue'[n].event
    BY <2>5, <2>7
  <2>12. InOrder'
    BY <2>1, <2>8, <2>9, <2>10, <2>11 DEF OrderInv, InOrder
  <2>13. \A n \in 1 .. kept + 1 : lowPrioQueue'[n].event <= produced'
    BY <2>1, <2>4, <2>6 DEF OrderInv
  <2>14. /\ \A n \in OnTheWay : toPeer[n].asdu <= produced'
         /\ \A n \in 1 .. Len(delivered) : delivered[n] <= produced'
    BY <2>1, <2>6, SMTT(20) DEF OrderInv
  <2> QED BY <2>1, <2>3, <2>7, <2>8, <2>12, <2>13, <2>14 DEF OrderInv
<1>4. CASE PeerSendsI \/ PeerSendsS \/ PeerControls \/ PeerErrs \/ PeerStops \/ UNCHANGED vars
  <2>1. UNCHANGED <<lowPrioQueue, toPeer, delivered, produced>>
    BY <1>4 DEF PeerSendsI, PeerSendsS, PeerControls, PeerErrs, PeerStops,
                vars, serverVars, queues, history
  <2> QED BY <2>1 DEF OrderInv, InOrder, OnTheWay, Waiting
<1> QED BY <1>1, <1>2, <1>3, <1>4 DEF Next, PeerStep

(* What the peer has received, what is on its way and what waits is one    *)
(* sequence of events in the order they happened, none of them twice.      *)
THEOREM OrderHolds == Spec => []InOrder
<1>1. Init => OrderInv
  BY DEF Init, OrderInv, InOrder, OnTheWay, Waiting
<1>2. TypeOK /\ OrderInv /\ [Next]_vars => OrderInv'
  BY OrderStep
<1>3. OrderInv => InOrder
  BY DEF OrderInv
<1> QED BY <1>1, <1>2, <1>3, TypeCorrect, PTL DEF Spec
=============================================================================
