-------------------------- MODULE MasterConnection --------------------------
(***************************************************************************)
(* The thread of a connection of the IEC 104 server (cs104_slave.c,        *)
(* connectionHandlingThread): sequence numbers, the buffer of the at most k*)
(* ASDUs that wait for an acknowledgement, acknowledgements after w        *)
(* messages or after t2, supervision by t1 and t3, STARTDT and STOPDT, and *)
(* the order in which replies and events are sent.                         *)
(*                                                                         *)
(* The thread repeats three phases: receive at most one message, handle    *)
(* timeouts, send what waits.  Time is abstract: a timer that runs may     *)
(* expire in any round.  Both directions of the TCP connection are         *)
(* sequences.  The peer is a client that keeps the protocol until, at most *)
(* once, it gets a sequence number wrong, or stops.  The event queue is    *)
(* the buffer of EventBuffer, which MessageQueue implements; an event is   *)
(* its number, and has the slot and the time stamp by which MessageQueue   *)
(* recognises it when it is acknowledged.                                  *)
(***************************************************************************)
EXTENDS Integers, Sequences

CONSTANTS
  M,             \* sequence numbers are counted modulo M (32768)
  K, W,          \* APCI parameters k and w
  LowSize,       \* maxLowPrioQueueSize
  HighSize,      \* maxHighPrioQueueSize
  Times,         \* the time stamps (Hal_getTimeInMs) events may get
  Expiring,      \* the timers that may expire, a subset of t1, t2, t3
  MaxReplies,    \* bound: ASDUs the handlers send for one message
  PeerWindow,    \* the k of the peer
  MaxEvents,     \* bound: events
  MaxRequests,   \* bound: I messages of the peer
  MaxControls,   \* bound: STARTDT, STOPDT and TESTFR messages of the peer
  MayErr,        \* does the peer get a sequence number wrong, once?
  MaxTests,      \* bound: tests of t3 a peer that is alive leaves unread
  MaxInFlight    \* bound: messages under way when the peer adds to its I and U messages

ASSUME ParametersAssumption ==
  /\ K \in Nat \ {0} /\ W \in Nat \ {0} /\ PeerWindow \in Nat
  /\ M \in Nat /\ K + 1 < M /\ PeerWindow < M
  /\ LowSize \in Nat \ {0} /\ HighSize \in Nat /\ Times # {}
  /\ Expiring \subseteq {"t1", "t2", "t3"} /\ MayErr \in BOOLEAN
ASSUME ConnectionBoundsAssumption ==
  /\ MaxReplies \in Nat \ {0} /\ MaxEvents \in Nat /\ MaxRequests \in Nat
  /\ MaxControls \in Nat /\ MaxTests \in Nat /\ MaxInFlight \in Nat \ {0}

VARIABLES
  pc,             \* the phase of the thread: receive, timeouts, send or closed
  isRunning, isActive,
  sendCount, receiveCount,
  unconfirmedReceivedIMessages,
  outstandingTestFRConMessages,
  sentASDUs,      \* the k-buffer, oldest first
  lowPrioQueue, highPrioQueue,
  marks,          \* per event queued so far, its slot and time stamp
  toPeer, toServer,
  \* the peer
  peerAlive, peerState, peerSend, peerReceive,
  peerAckSent,    \* the last N(R) the peer sent
  peerAcked,      \* the last N(R) the peer received
  conforms,       \* has it kept the protocol so far?
  \* history and bounds
  produced, requests, controls, delivered, overwritten, cause

counters == <<sendCount, receiveCount, unconfirmedReceivedIMessages>>
queues == <<lowPrioQueue, highPrioQueue, marks>>
peerVars == <<peerAlive, peerState, peerSend, peerReceive, peerAckSent, peerAcked,
              conforms>>
history == <<produced, requests, controls, delivered, overwritten, cause>>
serverVars == <<pc, isRunning, isActive, counters, outstandingTestFRConMessages,
                sentASDUs, queues>>
vars == <<serverVars, toPeer, toServer, peerVars, history>>

(* An ASDU is an event or a reply of a handler (queueIndex -1).            *)
Reply == 0
SeqNo == 0 .. M - 1
IFrame(ns, nr, asdu) == [kind |-> "I", ns |-> ns, nr |-> nr, asdu |-> asdu]
SFrame(nr) == [kind |-> "S", nr |-> nr]
UFrame(kind) == [kind |-> kind]

Succ(n) == (n + 1) % M
Smaller(m, n) == IF m < n THEN m ELSE n

Init ==
  /\ pc = "receive" /\ isRunning = TRUE /\ isActive = FALSE
  /\ sendCount = 0 /\ receiveCount = 0
  /\ unconfirmedReceivedIMessages = 0
  /\ outstandingTestFRConMessages = 0
  /\ sentASDUs = << >> /\ lowPrioQueue = << >> /\ highPrioQueue = 0
  /\ marks = << >>
  /\ toPeer = << >> /\ toServer = << >>
  /\ peerAlive = TRUE /\ peerState = "stopped"
  /\ peerSend = 0 /\ peerReceive = 0 /\ peerAckSent = 0 /\ peerAcked = 0
  /\ conforms = TRUE
  /\ produced = 0 /\ requests = 0 /\ controls = 0
  /\ delivered = << >> /\ overwritten = {} /\ cause = "none"

-----------------------------------------------------------------------------
(* checkSequenceNumber: is seqNo valid, and how many entries of the        *)
(* k-buffer does it release?                                               *)

OldestSeqNo == sentASDUs[1].seqNo
NewestSeqNo == sentASDUs[Len(sentASDUs)].seqNo
OldestValidSeqNo == IF OldestSeqNo = 0 THEN M - 1 ELSE OldestSeqNo - 1
CounterOverflow == OldestSeqNo > NewestSeqNo

SeqNoIsValidInOrder(seqNo) ==   \* mutant: without the overflow case
  IF sentASDUs = << >>
    THEN seqNo = sendCount
    ELSE \/ OldestSeqNo <= seqNo /\ seqNo <= NewestSeqNo
         \/ seqNo = OldestValidSeqNo
SeqNoIsValid(seqNo) ==
  IF sentASDUs = << >>
    THEN seqNo = sendCount
    ELSE \/ ~ CounterOverflow /\ OldestSeqNo <= seqNo /\ seqNo <= NewestSeqNo
         \/ CounterOverflow /\ (OldestSeqNo <= seqNo \/ seqNo <= NewestSeqNo)
         \/ seqNo = OldestValidSeqNo

(* The loop stops after n entries.                                         *)
StopsAfterNewer(seqNo, n) ==   \* mutant: the break on seqNo forgotten
  \/ n = Len(sentASDUs)
  \/ ~ CounterOverflow /\ seqNo < sentASDUs[n + 1].seqNo
  \/ seqNo = OldestValidSeqNo
StopsAfter(seqNo, n) ==
  \/ n = Len(sentASDUs)
  \/ n > 0 /\ sentASDUs[n].seqNo = seqNo
  \/ ~ CounterOverflow /\ seqNo < sentASDUs[n + 1].seqNo
  \/ seqNo = OldestValidSeqNo

Released(seqNo) ==
  CHOOSE n \in 0 .. Len(sentASDUs) :
     StopsAfter(seqNo, n) /\ \A m \in 0 .. n - 1 : ~ StopsAfter(seqNo, m)

UnreleasedAll(seqNo) == sentASDUs   \* mutant: the entry is not removed
Unreleased(seqNo) == SubSeq(sentASDUs, Released(seqNo) + 1, Len(sentASDUs))

(* markAsduAsConfirmed for the released events, oldest first: what was sent*)
(* from the slot and with the time stamp of a released event leaves the    *)
(* queue, with all before it.  That may be another event, put into the slot*)
(* of one that was overwritten, in the same millisecond or after the clock *)
(* was set back.                                                           *)
Confirmed(seqNo) ==
  {i \in 1 .. Len(lowPrioQueue) :
     /\ lowPrioQueue[i].sent
     /\ \E n \in 1 .. Released(seqNo) :
          /\ sentASDUs[n].asdu # Reply
          /\ marks[sentASDUs[n].asdu] = marks[lowPrioQueue[i].event]}

Unconfirmed(seqNo) ==
  LET freed == CHOOSE n \in Confirmed(seqNo) \union {0} :
                 \A i \in Confirmed(seqNo) : i <= n
  IN  SubSeq(lowPrioQueue, freed + 1, Len(lowPrioQueue))

-----------------------------------------------------------------------------
(* sendIMessage and sendASDU: the ASDUs get the next sequence numbers; the *)
(* number kept in the k-buffer is the one after (N(S) + 1).                *)
IFrames(asdus, nr) ==
  [i \in 1 .. Len(asdus) |-> IFrame((sendCount + i - 1) % M, nr, asdus[i])]
NumberedBefore(asdus) ==   \* mutant: N(S) instead of N(S) + 1
  [i \in 1 .. Len(asdus) |-> [seqNo |-> (sendCount + i - 1) % M, asdu |-> asdus[i]]]
Numbered(asdus) ==
  [i \in 1 .. Len(asdus) |-> [seqNo |-> (sendCount + i) % M, asdu |-> asdus[i]]]
Replies(n) == [i \in 1 .. n |-> Reply]

-----------------------------------------------------------------------------
(* The first phase: at most one message is received and handled.           *)

Receives(kind) ==
  /\ pc = "receive" /\ toServer # << >> /\ Head(toServer).kind = kind
  /\ pc' = "timeouts"
  /\ toServer' = Tail(toServer)

ReceiveNothing ==
  /\ pc = "receive"
  /\ pc' = "timeouts"
  /\ UNCHANGED <<isRunning, isActive, counters, outstandingTestFRConMessages, sentASDUs,
                 queues, toPeer, toServer, peerVars, history>>

(* An I message is acknowledged with the first reply of its handlers, or   *)
(* with the S message that follows when w messages are unacknowledged.     *)
(* sendASDUInternal sends a reply at once while the k-buffer has room and  *)
(* queues it otherwise; a full queue rejects it, and nobody looks.         *)
AcknowledgesLate(n) == n > W   \* mutant: > for >=
Acknowledges(n) == n >= W

ReceiveI ==
  LET f == Head(toServer)
      room == K - Len(Unreleased(f.nr))
      nr == Succ(receiveCount)
  IN  /\ Receives("I")
      /\ f.ns = receiveCount /\ SeqNoIsValid(f.nr)
      /\ receiveCount' = nr
      /\ lowPrioQueue' = Unconfirmed(f.nr)
      /\ \E replies \in (IF isActive THEN 0 .. MaxReplies ELSE {0}) :
           LET direct == Replies(Smaller(replies, room))
               rest == replies - Len(direct)
               sendS == direct = << >> /\ Acknowledges(unconfirmedReceivedIMessages + 1)
           IN  /\ sentASDUs' = Unreleased(f.nr) \o Numbered(direct)
               /\ sendCount' = (sendCount + Len(direct)) % M
               /\ highPrioQueue' = Smaller(highPrioQueue + rest, HighSize)
               /\ toPeer' = toPeer \o IFrames(direct, nr)
                                   \o (IF sendS THEN <<SFrame(nr)>> ELSE << >>)
               /\ unconfirmedReceivedIMessages' =
                    IF direct # << >> \/ sendS THEN 0 ELSE unconfirmedReceivedIMessages + 1
      /\ UNCHANGED <<isRunning, isActive, outstandingTestFRConMessages, marks, peerVars,
                     history>>

ReceiveS ==
  LET f == Head(toServer)
  IN  /\ Receives("S")
      /\ SeqNoIsValid(f.nr)
      /\ sentASDUs' = Unreleased(f.nr)
      /\ lowPrioQueue' = Unconfirmed(f.nr)
      /\ UNCHANGED <<isRunning, isActive, counters, outstandingTestFRConMessages,
                     highPrioQueue, marks, toPeer, peerVars, history>>

(* A message out of sequence, or an acknowledgement of what was not sent.  *)
RejectMessage ==
  LET f == Head(toServer)
  IN  /\ \E kind \in {"I", "S"} : Receives(kind)
      /\ (f.kind = "I" /\ f.ns # receiveCount) \/ ~ SeqNoIsValid(f.nr)
      /\ isRunning' = FALSE /\ cause' = "sequence"
      /\ UNCHANGED <<isActive, counters, outstandingTestFRConMessages, sentASDUs, queues,
                     toPeer, peerVars, produced, requests, controls, delivered, overwritten>>

ReceiveStartDT ==
  /\ Receives("STARTDT_ACT")
  /\ isActive' = TRUE
  /\ highPrioQueue' = 0     \* HighPriorityASDUQueue_resetConnectionQueue
  /\ toPeer' = Append(toPeer, UFrame("STARTDT_CON"))
  /\ UNCHANGED <<isRunning, counters, outstandingTestFRConMessages, sentASDUs,
                 lowPrioQueue, marks, peerVars, history>>

DeactivateForgotten == UNCHANGED isActive   \* mutant
Deactivate == isActive' = FALSE

ReceiveStopDT ==
  /\ Receives("STOPDT_ACT")
  /\ Deactivate
  /\ toPeer' = Append(toPeer, UFrame("STOPDT_CON"))
  /\ UNCHANGED <<isRunning, counters, outstandingTestFRConMessages, sentASDUs, queues,
                 peerVars, history>>

ReceiveTestFR ==
  /\ Receives("TESTFR_ACT")
  /\ toPeer' = Append(toPeer, UFrame("TESTFR_CON"))
  /\ UNCHANGED <<isRunning, isActive, counters, outstandingTestFRConMessages, sentASDUs,
                 queues, peerVars, history>>

ReceiveTestFRCon ==
  /\ Receives("TESTFR_CON")
  /\ outstandingTestFRConMessages' = 0
  /\ UNCHANGED <<isRunning, isActive, counters, sentASDUs, queues, toPeer, peerVars, history>>

(* The peer closed the connection: the loop ends at once.                  *)
ReceiveClose ==
  /\ pc = "receive" /\ toServer # << >> /\ Head(toServer).kind = "CLOSE"
  /\ pc' = "closed" /\ isRunning' = FALSE /\ cause' = "peer"
  /\ toServer' = Tail(toServer)
  /\ lowPrioQueue' = << >> /\ highPrioQueue' = 0
  /\ UNCHANGED <<isActive, counters, outstandingTestFRConMessages, sentASDUs, marks,
                 toPeer, peerVars, produced, requests, controls, delivered, overwritten>>

ReceiveMessage ==
  \/ ReceiveI \/ ReceiveS \/ RejectMessage \/ ReceiveStartDT \/ ReceiveStopDT
  \/ ReceiveTestFR \/ ReceiveTestFRCon \/ ReceiveClose

-----------------------------------------------------------------------------
(* The second phase: handleTimeouts, which also runs when the message just *)
(* handled has ended the connection.                                       *)

Supervised == outstandingTestFRConMessages <= 2

FailsOnT1(t1, t3) == t1 /\ sentASDUs # << >>   \* mutant: unanswered TESTFR forgotten
Fails(t1, t3) == (t3 /\ ~ Supervised) \/ (t1 /\ sentASDUs # << >>)

ConfirmsAtW(t2) == t2 /\ unconfirmedReceivedIMessages >= W   \* mutant: the limit of w
Confirms(t2) == t2 /\ unconfirmedReceivedIMessages > 0

HandleTimeouts(t1, t2, t3) ==
  LET test == t3 /\ Supervised
      confirm == Confirms(t2)
      fails == Fails(t1, t3)
  IN  /\ pc = "timeouts"
      /\ pc' = "send"
      /\ outstandingTestFRConMessages' =
           IF test THEN outstandingTestFRConMessages + 1 ELSE outstandingTestFRConMessages
      /\ unconfirmedReceivedIMessages' = IF confirm THEN 0 ELSE unconfirmedReceivedIMessages
      /\ toPeer' = toPeer \o (IF test THEN <<UFrame("TESTFR_ACT")>> ELSE << >>)
                          \o (IF confirm THEN <<SFrame(receiveCount)>> ELSE << >>)
      /\ isRunning' = (isRunning /\ ~ fails)
      /\ cause' = IF fails /\ cause = "none" THEN "timeout" ELSE cause
      /\ UNCHANGED <<isActive, sendCount, receiveCount, sentASDUs, queues, toServer, peerVars,
                     produced, requests, controls, delivered, overwritten>>

(* t3 runs from the last message received: what is on its way arrives      *)
(* before it expires, and a peer that is alive leaves few tests unread.    *)
IsTest(f) == f.kind = "TESTFR_ACT"
Silence ==
  /\ toServer = << >>
  /\ peerAlive => Len(SelectSeq(toPeer, IsTest)) < MaxTests
MayExpire(t) == IF t \in Expiring /\ (t = "t3" => Silence) THEN BOOLEAN ELSE {FALSE}

Timeouts ==
  \E t1 \in MayExpire("t1"), t2 \in MayExpire("t2"), t3 \in MayExpire("t3") :
     HandleTimeouts(t1, t2, t3)

-----------------------------------------------------------------------------
(* The third phase: sendWaitingASDUs sends all replies the k-buffer has    *)
(* room for and, when none is left, one event.                             *)

IsNextOfAny(i) == ~ lowPrioQueue[i].sent   \* mutant: not the oldest one
IsNext(i) == ~ lowPrioQueue[i].sent /\ \A j \in 1 .. i - 1 : lowPrioQueue[j].sent

SendWaitingASDUs ==
  LET room == K - Len(sentASDUs)
      high == Replies(Smaller(highPrioQueue, room))
      lowMayBeSent == Len(high) = highPrioQueue /\ Len(high) < room
  IN  /\ pc = "send" /\ isRunning /\ isActive
      /\ pc' = "receive"
      /\ highPrioQueue' = highPrioQueue - Len(high)
      /\ \E next \in {i \in 1 .. Len(lowPrioQueue) : lowMayBeSent /\ IsNext(i)} \union {0} :
           LET low == IF next = 0 THEN << >> ELSE <<lowPrioQueue[next].event>>
               asdus == high \o low
           IN  /\ next = 0 => \A i \in 1 .. Len(lowPrioQueue) : ~ (lowMayBeSent /\ IsNext(i))
               /\ lowPrioQueue' = [i \in 1 .. Len(lowPrioQueue) |->
                                     IF i = next THEN [lowPrioQueue[i] EXCEPT !.sent = TRUE]
                                                 ELSE lowPrioQueue[i]]
               /\ sentASDUs' = sentASDUs \o Numbered(asdus)
               /\ toPeer' = toPeer \o IFrames(asdus, receiveCount)
               /\ sendCount' = (sendCount + Len(asdus)) % M
               /\ unconfirmedReceivedIMessages' =
                    IF asdus # << >> THEN 0 ELSE unconfirmedReceivedIMessages
      /\ UNCHANGED <<isRunning, isActive, receiveCount, outstandingTestFRConMessages, marks,
                     toServer, peerVars, history>>

SkipSending ==
  /\ pc = "send" /\ isRunning /\ ~ isActive
  /\ pc' = "receive"
  /\ UNCHANGED <<isRunning, isActive, counters, outstandingTestFRConMessages, sentASDUs,
                 queues, toPeer, toServer, peerVars, history>>

(* The loop ends: both queues are destroyed.                               *)
EndThread ==
  /\ pc = "send" /\ ~ isRunning
  /\ pc' = "closed"
  /\ lowPrioQueue' = << >> /\ highPrioQueue' = 0
  /\ UNCHANGED <<isRunning, isActive, counters, outstandingTestFRConMessages, sentASDUs,
                 marks, toPeer, toServer, peerVars, history>>

ThreadStep ==
  ReceiveNothing \/ ReceiveMessage \/ Timeouts \/ SendWaitingASDUs \/ SkipSending \/ EndThread

-----------------------------------------------------------------------------
(* The main loop, through CS104_Slave_enqueueASDU.  The slots are filled in*)
(* turn; an empty queue begins again with the first one.                   *)
NextSlot ==
  IF lowPrioQueue = << >> THEN 0
  ELSE (marks[lowPrioQueue[Len(lowPrioQueue)].event].slot + 1) % LowSize

Enqueue ==
  /\ pc # "closed" /\ produced < MaxEvents
  /\ produced' = produced + 1
  /\ \E now \in Times : marks' = Append(marks, [slot |-> NextSlot, time |-> now])
  /\ LET entry == [event |-> produced + 1, sent |-> FALSE]
     IN  IF Len(lowPrioQueue) < LowSize
           THEN /\ lowPrioQueue' = Append(lowPrioQueue, entry)
                /\ UNCHANGED overwritten
           ELSE /\ lowPrioQueue' = Append(Tail(lowPrioQueue), entry)
                /\ overwritten' = overwritten \union {lowPrioQueue[1].event}
  /\ UNCHANGED <<pc, isRunning, isActive, counters, outstandingTestFRConMessages, sentASDUs,
                 highPrioQueue, toPeer, toServer, peerVars, requests, controls, delivered, cause>>

-----------------------------------------------------------------------------
(* The peer.                                                               *)

PeerSends(frame) ==
  /\ peerAlive /\ pc # "closed" /\ conforms
  /\ toServer' = Append(toServer, frame)

PeerReceives ==
  LET f == Head(toPeer)
  IN  /\ peerAlive /\ toPeer # << >>
      /\ toPeer' = Tail(toPeer)
      /\ IF f.kind = "I"
           THEN /\ peerReceive' = Succ(peerReceive)
                /\ delivered' = IF f.asdu = Reply THEN delivered ELSE Append(delivered, f.asdu)
           ELSE UNCHANGED <<peerReceive, delivered>>
      /\ peerAcked' = IF f.kind \in {"I", "S"} THEN f.nr ELSE peerAcked
      /\ peerState' = CASE f.kind = "STARTDT_CON" -> "started"
                        [] f.kind = "STOPDT_CON"  -> "stopped"
                        [] OTHER                  -> peerState
      /\ toServer' = IF f.kind = "TESTFR_ACT" THEN Append(toServer, UFrame("TESTFR_CON"))
                                              ELSE toServer
      /\ UNCHANGED <<serverVars, peerAlive, peerSend, peerAckSent, conforms, produced,
                     requests, controls, overwritten, cause>>

PeerSendsI ==
  /\ peerState = "started" /\ requests < MaxRequests /\ Len(toServer) < MaxInFlight
  /\ (peerSend - peerAcked) % M < PeerWindow
  /\ PeerSends(IFrame(peerSend, peerReceive, Reply))
  /\ peerSend' = Succ(peerSend)
  /\ peerAckSent' = peerReceive
  /\ requests' = requests + 1
  /\ UNCHANGED <<serverVars, toPeer, peerAlive, peerState, peerReceive, peerAcked, conforms,
                 produced, controls, delivered, overwritten, cause>>

PeerSendsS ==
  /\ peerAckSent # peerReceive
  /\ PeerSends(SFrame(peerReceive))
  /\ peerAckSent' = peerReceive
  /\ UNCHANGED <<serverVars, toPeer, peerAlive, peerState, peerSend, peerReceive, peerAcked,
                 conforms, history>>

PeerControls ==
  /\ controls < MaxControls /\ Len(toServer) < MaxInFlight
  /\ controls' = controls + 1
  /\ \/ /\ peerState = "stopped" /\ peerState' = "starting"
        /\ PeerSends(UFrame("STARTDT_ACT"))
     \/ /\ peerState = "started" /\ peerState' = "stopping"
        /\ PeerSends(UFrame("STOPDT_ACT"))
     \/ PeerSends(UFrame("TESTFR_ACT")) /\ UNCHANGED peerState
  /\ UNCHANGED <<serverVars, toPeer, peerAlive, peerSend, peerReceive, peerAckSent, peerAcked,
                 conforms, produced, requests, delivered, overwritten, cause>>

(* A message out of sequence, or an acknowledgement of what the server     *)
(* cannot have sent; the peer then only answers tests.                     *)
WrongFrames ==
  {IFrame(ns, peerReceive, Reply) : ns \in SeqNo \ {peerSend}}
    \union {SFrame(nr) : nr \in SeqNo \ {(peerAckSent + n) % M : n \in 0 .. K}}
PeerErrs ==
  /\ MayErr /\ Len(toServer) < MaxInFlight
  /\ \E f \in WrongFrames : PeerSends(f)
  /\ conforms' = FALSE
  /\ UNCHANGED <<serverVars, toPeer, peerAlive, peerState, peerSend, peerReceive, peerAckSent,
                 peerAcked, history>>

(* The peer closes the connection, or is cut off without a word.           *)
PeerStops ==
  /\ peerAlive' = FALSE
  /\ \/ PeerSends(UFrame("CLOSE"))
     \/ peerAlive /\ UNCHANGED toServer
  /\ UNCHANGED <<serverVars, toPeer, peerState, peerSend, peerReceive, peerAckSent, peerAcked,
                 conforms, history>>

PeerStep ==
  PeerReceives \/ PeerSendsI \/ PeerSendsS \/ PeerControls \/ PeerErrs \/ PeerStops

Next == ThreadStep \/ Enqueue \/ PeerStep

(* The thread keeps running and its socket reports what arrived.  While    *)
(* messages are unacknowledged t2 expires in the end, and t3 does as long  *)
(* as nothing arrives.  A peer that is alive reads and acknowledges.       *)
Fairness ==
  /\ WF_vars(ThreadStep)
  /\ SF_vars(ReceiveMessage)
  /\ SF_vars(/\ unconfirmedReceivedIMessages > 0
             /\ \E t1 \in MayExpire("t1"), t2 \in MayExpire("t2") \ {FALSE},
                   t3 \in MayExpire("t3") : HandleTimeouts(t1, t2, t3))
  /\ SF_vars(/\ ~ peerAlive
             /\ \E t1 \in MayExpire("t1"), t2 \in MayExpire("t2"),
                   t3 \in MayExpire("t3") \ {FALSE} : HandleTimeouts(t1, t2, t3))
  /\ WF_vars(PeerReceives) /\ WF_vars(PeerSendsS)

Spec == Init /\ [][Next]_vars
FairSpec == Spec /\ Fairness

-----------------------------------------------------------------------------
(* Type invariant: counters stay in their ranges, and neither the k-buffer *)
(* nor the queues of the connection outgrow their sizes.                   *)
Events == 1 .. MaxEvents
Frames ==
  [kind : {"I"}, ns : SeqNo, nr : SeqNo, asdu : Events \union {Reply}]
    \union [kind : {"S"}, nr : SeqNo]
    \union [kind : {"STARTDT_ACT", "STARTDT_CON", "STOPDT_ACT", "STOPDT_CON",
                    "TESTFR_ACT", "TESTFR_CON", "CLOSE"}]

TypeOK ==
  /\ pc \in {"receive", "timeouts", "send", "closed"}
  /\ isRunning \in BOOLEAN /\ isActive \in BOOLEAN
  /\ sendCount \in SeqNo /\ receiveCount \in SeqNo
  /\ unconfirmedReceivedIMessages \in 0 .. W - 1
  /\ outstandingTestFRConMessages \in 0 .. 3
  /\ sentASDUs \in Seq([seqNo : SeqNo, asdu : Events \union {Reply}])
  /\ Len(sentASDUs) <= K
  /\ lowPrioQueue \in Seq([event : 1 .. produced, sent : BOOLEAN])
  /\ Len(lowPrioQueue) <= LowSize
  /\ highPrioQueue \in 0 .. HighSize
  /\ marks \in Seq([slot : 0 .. LowSize - 1, time : Times]) /\ Len(marks) = produced
  /\ toPeer \in Seq(Frames) /\ toServer \in Seq(Frames)
  /\ peerAlive \in BOOLEAN
  /\ peerState \in {"stopped", "starting", "started", "stopping"}
  /\ {peerSend, peerReceive, peerAckSent, peerAcked} \subseteq SeqNo
  /\ conforms \in BOOLEAN
  /\ produced \in 0 .. MaxEvents /\ requests \in 0 .. MaxRequests
  /\ controls \in 0 .. MaxControls
  /\ delivered \in Seq(Events) /\ overwritten \subseteq Events
  /\ cause \in {"none", "sequence", "timeout", "peer"}

(* The numbers in the k-buffer are consecutive modulo M and end with the   *)
(* number of the next message; the I messages on their way are numbered    *)
(* without a gap from what the peer expects up to what is sent next.       *)
(* (sendIMessage, sendASDU, checkSequenceNumber)                           *)
IsI(f) == f.kind = "I"
LastOf(S) == CHOOSE n \in S : \A m \in S : m <= n

\* The number of the I message that follows the first n messages to the peer.
NumberAfter(n) ==
  LET sent == {m \in 1 .. n : IsI(toPeer[m])}
  IN  IF sent = {} THEN peerReceive ELSE Succ(toPeer[LastOf(sent)].ns)

SequenceNumbers ==
  /\ \A n \in 1 .. Len(sentASDUs) :
       (sentASDUs[n].seqNo + Len(sentASDUs) - n) % M = sendCount
  /\ \A n \in 1 .. Len(toPeer) : IsI(toPeer[n]) => toPeer[n].ns = NumberAfter(n - 1)
  /\ NumberAfter(Len(toPeer)) = sendCount

(* Whatever a peer that keeps the protocol sends is accepted, also when    *)
(* the sequence numbers wrap around between two acknowledgements; and a    *)
(* wrong number ends the connection.  (handleMessage, checkSequenceNumber) *)
IsNumbered(f) == f.kind \in {"I", "S"}
SequenceErrorsNoticed ==
  /\ conforms => cause # "sequence"
  /\ ~ conforms /\ cause = "none" => \E n \in 1 .. Len(toServer) : IsNumbered(toServer[n])

IsEvent(f) == IsI(f) /\ f.asdu # Reply
OnTheWay == {n \in 1 .. Len(toPeer) : IsEvent(toPeer[n])}

(* While the connection lives, an event is in its queue until the peer has *)
(* received it or the full queue has dropped it: an acknowledgement        *)
(* releases an event the peer has not seen only if that event, or a newer  *)
(* one freed with it, has slot and time stamp of another event.  Even then *)
(* it was sent, and is on its way.  (checkSequenceNumber,                  *)
(* MessageQueue_markAsduAsConfirmed)                                       *)
Mistakable(e) ==
  \E f \in e .. produced, g \in 1 .. produced : g # f /\ marks[g] = marks[f]
NothingLost ==
  pc # "closed" =>
    \A e \in 1 .. produced :
       \/ \E n \in 1 .. Len(lowPrioQueue) : lowPrioQueue[n].event = e
       \/ \E n \in 1 .. Len(delivered) : delivered[n] = e
       \/ e \in overwritten
       \/ Mistakable(e) /\ \E n \in OnTheWay : toPeer[n].asdu = e

(* What the peer has received, what is on its way and what waits is one    *)
(* sequence of events in the order they happened, none of them twice.      *)
(* (sendNextLowPriorityASDU)                                               *)
Waiting == {n \in 1 .. Len(lowPrioQueue) : ~ lowPrioQueue[n].sent}

InOrder ==
  /\ \A m, n \in 1 .. Len(delivered) : m < n => delivered[m] < delivered[n]
  /\ \A m, n \in OnTheWay : m < n => toPeer[m].asdu < toPeer[n].asdu
  /\ \A m, n \in Waiting : m < n => lowPrioQueue[m].event < lowPrioQueue[n].event
  /\ \A l \in 1 .. Len(delivered), m \in OnTheWay : delivered[l] < toPeer[m].asdu
  /\ \A l \in 1 .. Len(delivered), n \in Waiting : delivered[l] < lowPrioQueue[n].event
  /\ \A m \in OnTheWay, n \in Waiting : toPeer[m].asdu < lowPrioQueue[n].event

(* The messages received since the last N(R) the server sent are those it  *)
(* counts, and between two messages they are fewer than w: the peer's      *)
(* window never stays full.  (sendIMessage, the loop's check of w,         *)
(* handleTimeouts)                                                         *)
LastNR ==
  LET numbered == {n \in 1 .. Len(toPeer) : IsNumbered(toPeer[n])}
  IN  IF numbered = {} THEN peerAcked ELSE toPeer[LastOf(numbered)].nr
AcknowledgementDebt ==
  /\ (receiveCount - LastNR) % M = unconfirmedReceivedIMessages % M
  /\ unconfirmedReceivedIMessages < W

(* Every I message of the server lies between a STARTDT confirmation and   *)
(* the next STOPDT confirmation, in the order in which the peer reads      *)
(* them.  (sendASDUInternal and the thread's check of isActive)            *)
IsStarting(n) == toPeer[n].kind = "STARTDT_CON"
IsStopping(n) == toPeer[n].kind = "STOPDT_CON"
OnlyWhenStarted ==
  \A n \in 1 .. Len(toPeer) :
     IsI(toPeer[n]) =>
       \/ /\ peerState \in {"started", "stopping"}
          /\ \A m \in 1 .. n - 1 : ~ IsStopping(m)
       \/ \E m \in 1 .. n - 1 :
            IsStarting(m) /\ \A l \in m .. n - 1 : ~ IsStopping(l)

-----------------------------------------------------------------------------
(* An event reaches a peer that stays connected and started, unless newer  *)
(* events push it out of the queue: the k-buffer never stays full.         *)
(* (checkSequenceNumber, sendWaitingASDUs)                                 *)
EventsDelivered ==
  <>[](isActive /\ isRunning /\ peerAlive) =>
    \A e \in Events :
      produced >= e ~> (e \in overwritten \/ \E n \in 1 .. Len(delivered) : delivered[n] = e)

(* Received messages are acknowledged in the end, however few they are,    *)
(* unless the connection ends.  (handleTimeouts)                           *)
Acknowledged ==
  unconfirmedReceivedIMessages > 0 ~> (unconfirmedReceivedIMessages = 0 \/ ~ isRunning)

(* A connection whose peer has fallen silent is closed in the end, with    *)
(* the queues freed, also when nothing waits for an acknowledgement.       *)
(* (handleTimeouts, connectionHandlingThread)                              *)
DeadPeerNoticed == ~ peerAlive ~> pc = "closed"
=============================================================================
