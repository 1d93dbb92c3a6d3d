------------------------- MODULE LinkLayerBalanced -------------------------
(***************************************************************************)
(* IEC 60870-5-101 in balanced mode (link_layer.c): two stations that      *)
(* both have a primary link layer, which sends their ASDUs and waits for   *)
(* each to be confirmed, and a secondary one, which answers the primary of *)
(* the other.  The applications are those of a CS101_Master and of a       *)
(* CS101_Slave.  The ASDUs of a station are numbered as they are taken     *)
(* from its queues.                                                        *)
(***************************************************************************)
EXTENDS LinkLayer

CONSTANT BusyStations     \* those not built with this library: they may be busy

Stations == {"master", "slave"}
Other(x) == IF x = "master" THEN "slave" ELSE "master"

ASSUME BalancedAssumption == BusyStations \subseteq Stations

VARIABLES
    primary,              \* per station, its LinkLayerPrimaryBalanced
    expectedFcb,          \* per station, the count bit its secondary link layer expects
    stationPc,            \* LinkLayerBalanced_run: "read" a frame, then "run" the state machine
    queue1, queue2,       \* per station, the queues of its ASDUs; a master has one
    wire,                 \* per station, the frames on the way to it
    \* history
    sent,                 \* per station, how many ASDUs were taken from its queues
    got,                  \* per station, the numbers of the ASDUs its application was given
    confirmed             \* per station, the numbers of its ASDUs that were confirmed

stationQueues == <<queue1, queue2>>
pairHistory == <<sent, got, confirmed>>
pairState == <<primary, expectedFcb, stationPc, stationQueues, wire, pairHistory>>

NoAsdu == [number |-> 0, asdu |-> NoMessage]

FreshPrimary ==
    [state |-> "idle", primaryState |-> "idle", testFunction |-> FALSE, waiting |-> FALSE,
     nextFcb |-> TRUE, repeats |-> 0, lastSendAsdu |-> NoAsdu]

PairInit ==
    /\ primary = [x \in Stations |-> FreshPrimary]
    /\ expectedFcb = [x \in Stations |-> TRUE]
    /\ stationPc = [x \in Stations |-> "read"]
    /\ queue1 = [x \in Stations |-> <<>>] /\ queue2 = [x \in Stations |-> <<>>]
    /\ wire = [x \in Stations |-> <<>>]
    /\ sent = [x \in Stations |-> 0] /\ got = [x \in Stations |-> <<>>]
    /\ confirmed = [x \in Stations |-> {}]
    /\ BoundsInit

----------------------------------------------------------------------------
(* Frames: a request of a primary link layer (prm), or the answer of a secondary one.     *)
LinkService(fc) ==
    [prm |-> TRUE, fc |-> fc, fcv |-> FALSE, fcb |-> FALSE, dfc |-> FALSE, asdu |-> NoAsdu]
CountedService(fc, fcb, asdu) ==
    [prm |-> TRUE, fc |-> fc, fcv |-> TRUE, fcb |-> fcb, dfc |-> FALSE, asdu |-> asdu]
LinkAnswer(fc) ==
    [prm |-> FALSE, fc |-> fc, fcv |-> FALSE, fcb |-> FALSE, dfc |-> FALSE, asdu |-> NoAsdu]

HasFrame(x, prm) == \E i \in DOMAIN wire[x] : wire[x][i].prm = prm

\* Nothing of the exchange that the primary of x has begun is on the line.
ExchangeSilent(x) == ~HasFrame(Other(x), TRUE) /\ ~HasFrame(x, FALSE)

----------------------------------------------------------------------------
(* Reading a frame (HandleMessageBalancedAndPrimaryUnbalanced).                           *)
Reads(x, prm) ==
    /\ stationPc[x] = "read" /\ wire[x] # <<>> /\ Head(wire[x]).prm = prm
    /\ stationPc' = [stationPc EXCEPT ![x] = "run"]

Discarded(x) == [wire EXCEPT ![x] = Tail(@)]
AnsweredWith(x, fc) ==
    wire' = [Discarded(x) EXCEPT ![Other(x)] = Append(@, LinkAnswer(fc))]

\* Mutant: the count bit is not looked at.
AnyCount(x, f) == TRUE

\* LinkLayerSecondaryBalanced_checkFCB
CountAgrees(x, f) == f.fcv => f.fcb = expectedFcb[x]

\* A frame with the wrong count bit gets no answer, though it may repeat one whose answer was
\* lost.
IgnoreRequest(x) ==
    /\ Reads(x, TRUE) /\ ~CountAgrees(x, Head(wire[x]))
    /\ wire' = Discarded(x)
    /\ UNCHANGED <<primary, expectedFcb, stationQueues, pairHistory, bounds>>

AcceptRequest(x) ==
    /\ Reads(x, TRUE) /\ CountAgrees(x, Head(wire[x]))
    /\ expectedFcb' =
         [expectedFcb EXCEPT ![x] = IF Head(wire[x]).fc = "RESET_REMOTE_LINK" THEN TRUE
                                    ELSE IF Head(wire[x]).fcv THEN ~@ ELSE @]
    /\ UNCHANGED <<primary, queue2, bounds, sent, confirmed>>

AnswerLinkService(x) ==
    LET fc == Head(wire[x]).fc IN
    /\ AcceptRequest(x)
    /\ fc \in {"RESET_REMOTE_LINK", "TEST_FUNCTION", "REQUEST_LINK_STATUS"}
    /\ AnsweredWith(x, IF fc = "REQUEST_LINK_STATUS" THEN "STATUS_OF_LINK" ELSE "ACK")
    /\ UNCHANGED <<queue1, got>>

ReceiveUserData(x) ==
    LET f == Head(wire[x]) IN
    /\ AcceptRequest(x)
    /\ f.fc = "USER_DATA_CONFIRMED"
    /\ got' = [got EXCEPT ![x] = Append(@, f.asdu.number)]
    /\ queue1' = IF x = "slave" THEN [queue1 EXCEPT ![x] = AfterReplies(@, f.asdu.asdu)]
                 ELSE queue1
    /\ AnsweredWith(x, "ACK")

\* A station not of this library is busy: it does nothing and says so.
RefuseLinkService(x) ==
    /\ x \in BusyStations
    /\ Reads(x, TRUE) /\ CountAgrees(x, Head(wire[x])) /\ LineFault
    /\ \E fc \in {"NACK", "NOT_IMPLEMENTED"}, dfc \in BOOLEAN :
         wire' = [Discarded(x) EXCEPT ![Other(x)] =
                    Append(@, [LinkAnswer(fc) EXCEPT !.dfc = dfc])]
    /\ expectedFcb' = [expectedFcb EXCEPT ![x] = IF Head(wire[x]).fcv THEN ~@ ELSE @]
    /\ UNCHANGED <<primary, stationQueues, pairHistory>>

\* LinkLayerPrimaryBalanced_handleMessage
AfterAck(p) ==
    NotWaiting(CASE p.primaryState = "reset" -> Available(p)
                 [] p.primaryState = "sendConfirm" ->
                      [Available(p) EXCEPT !.testFunction = FALSE]
                 [] OTHER -> p)

AfterNack(p) ==
    IF p.primaryState = "sendConfirm" THEN [p EXCEPT !.primaryState = "busy", !.state = "busy"]
    ELSE p

AfterNotImplemented(p) ==
    [(IF p.primaryState = "sendConfirm" THEN Available(p) ELSE p) EXCEPT !.testFunction = FALSE]

AfterAnswer(p, f) ==
    IF f.dfc THEN Busy(p)
    ELSE CASE f.fc = "ACK" -> AfterAck(p)
           [] f.fc = "NACK" -> AfterNack(p)
           [] f.fc = "STATUS_OF_LINK" -> StatusOfLink(p)
           [] f.fc = "NOT_IMPLEMENTED" -> AfterNotImplemented(p)

ReadAnswer(x) ==
    LET f == Head(wire[x])
        p == primary[x]
    IN
    /\ Reads(x, FALSE)
    /\ primary' = [primary EXCEPT ![x] = AfterAnswer(p, f)]
    /\ wire' = IF f.fc = "STATUS_OF_LINK" /\ p.primaryState = "status"
                 THEN [Discarded(x) EXCEPT ![Other(x)] =
                         Append(@, LinkService("RESET_REMOTE_LINK"))]
                 ELSE Discarded(x)
    /\ confirmed' =
         IF f.fc = "ACK" /\ p.primaryState = "sendConfirm" /\ p.lastSendAsdu # NoAsdu
           THEN [confirmed EXCEPT ![x] = @ \cup {p.lastSendAsdu.number}] ELSE confirmed
    /\ UNCHANGED <<expectedFcb, stationQueues, bounds, sent, got>>

----------------------------------------------------------------------------
(* The state machine of a primary link layer (LinkLayerPrimaryBalanced_runStateMachine).  *)
Runs(x, from) ==
    /\ primary[x].primaryState \in from
    /\ stationPc' = [stationPc EXCEPT ![x] = "read"]
    /\ UNCHANGED <<expectedFcb, got, confirmed>>

To(x, p) == primary' = [primary EXCEPT ![x] = p]
Sends(x, f) == wire' = [wire EXCEPT ![Other(x)] = Append(@, f)]

BeginLink(x) ==
    /\ Runs(x, {"idle"})
    /\ To(x, [primary[x] EXCEPT !.primaryState = "status", !.waiting = FALSE,
                                !.testFunction = FALSE])
    /\ UNCHANGED <<stationQueues, wire, sent, bounds>>

\* The count bit stays what it was before the reset, while the other station expects 1.
ResetLink(x) ==
    /\ Runs(x, {"status"}) /\ ~primary[x].waiting
    /\ To(x, [primary[x] EXCEPT !.primaryState = "reset", !.waiting = TRUE])
    /\ Sends(x, LinkService("RESET_REMOTE_LINK"))
    /\ UNCHANGED <<stationQueues, sent, bounds>>

AskStatus(x) ==
    /\ Runs(x, {"status"}) /\ primary[x].waiting /\ AckTimeout(ExchangeSilent(x))
    /\ Sends(x, LinkService("REQUEST_LINK_STATUS"))
    /\ UNCHANGED <<primary, stationQueues, sent>>

ResetExpired(x) ==
    /\ Runs(x, {"reset"}) /\ primary[x].waiting /\ AckTimeout(ExchangeSilent(x))
    /\ To(x, NotWaiting(Illegal(primary[x])))
    /\ UNCHANGED <<stationQueues, wire, sent>>

SentCounted(p) == [p EXCEPT !.nextFcb = ~@, !.repeats = 0, !.primaryState = "sendConfirm"]

\* A test that was asked for, or one because nothing was received for idleTimeout.
SendTest(x) ==
    /\ Runs(x, {"available"})
    /\ primary[x].testFunction \/ wire[x] = <<>>
    /\ To(x, [SentCounted(primary[x]) EXCEPT !.testFunction = TRUE, !.lastSendAsdu = NoAsdu])
    /\ Sends(x, CountedService("TEST_FUNCTION", primary[x].nextFcb, NoAsdu))
    /\ UNCHANGED <<stationQueues, sent, bounds>>

\* GetUserData takes the ASDU from its queue: class 1 first.
HasUserData(x) == queue1[x] # <<>> \/ queue2[x] # <<>>
NextUserData(x) == IF queue1[x] # <<>> THEN Head(queue1[x]) ELSE Head(queue2[x])

SendNextAsdu(x) ==
    LET asdu == [number |-> sent[x] + 1, asdu |-> NextUserData(x)] IN
    /\ Runs(x, {"available"}) /\ ~primary[x].testFunction /\ HasUserData(x)
    /\ queue1' = [queue1 EXCEPT ![x] = Rest(@)]
    /\ queue2' = IF queue1[x] = <<>> THEN [queue2 EXCEPT ![x] = Rest(@)] ELSE queue2
    /\ sent' = [sent EXCEPT ![x] = @ + 1]
    /\ To(x, [SentCounted(primary[x]) EXCEPT !.waiting = TRUE, !.lastSendAsdu = asdu])
    /\ Sends(x, CountedService("USER_DATA_CONFIRMED", primary[x].nextFcb, asdu))
    /\ UNCHANGED bounds

\* What is repeated depends on the flag, not on what was sent.
RepeatedFrame(p) ==
    IF p.testFunction THEN CountedService("TEST_FUNCTION", ~p.nextFcb, NoAsdu)
    ELSE CountedService("USER_DATA_CONFIRMED", ~p.nextFcb, p.lastSendAsdu)

RepeatFrame(x) ==
    /\ Runs(x, {"sendConfirm"}) /\ primary[x].repeats < MaxRepeats
    /\ AckTimeout(ExchangeSilent(x))
    /\ To(x, [primary[x] EXCEPT !.repeats = @ + 1])
    /\ Sends(x, RepeatedFrame(primary[x]))
    /\ UNCHANGED <<stationQueues, sent>>

NotConfirmed(x) ==
    /\ Runs(x, {"sendConfirm"}) /\ primary[x].repeats = MaxRepeats
    /\ AckTimeout(ExchangeSilent(x))
    /\ To(x, Illegal(primary[x]))
    /\ UNCHANGED <<stationQueues, wire, sent>>

\* Nothing to do, or not yet.
Wait(x) ==
    /\ Runs(x, PrimaryLinkLayerState)
    /\ CASE primary[x].primaryState = "available" ->
              ~primary[x].testFunction /\ ~HasUserData(x)
         [] primary[x].primaryState \in {"status", "reset"} -> primary[x].waiting
         [] OTHER -> primary[x].primaryState \in {"sendConfirm", "busy"}
    /\ UNCHANGED <<primary, stationQueues, wire, sent, bounds>>

ExpireAt(x) == AskStatus(x) \/ ResetExpired(x) \/ RepeatFrame(x) \/ NotConfirmed(x)

----------------------------------------------------------------------------
(* The applications and the line.                                                         *)
\* CS101_Master_sendASDU, CS101_Slave_enqueueUserDataClass1, CS101_Slave_enqueueUserDataClass2
EnqueueASDU(x) ==
    /\ IF x = "master" THEN NewMessage ELSE NewEvent
    /\ \/ /\ x = "master"
          /\ \E kind \in Commands :
               queue1' = [queue1 EXCEPT ![x] = Put(@, Command(messages', kind), QueueSize)]
          /\ UNCHANGED queue2
       \/ /\ x = "slave"
          /\ queue1' = [queue1 EXCEPT ![x] = Put(@, Event(events'), QueueSize)]
          /\ UNCHANGED queue2
       \/ /\ x = "slave"
          /\ queue2' = [queue2 EXCEPT ![x] = Put(@, Event(events'), QueueSize)]
          /\ UNCHANGED queue1
    /\ UNCHANGED <<primary, expectedFcb, stationPc, wire, pairHistory>>

\* LinkLayerBalanced_sendLinkLayerTestFunction, from a thread of the application.
AskForTest(x) ==
    /\ NewTest
    /\ primary' = [primary EXCEPT ![x].testFunction = TRUE]
    /\ UNCHANGED <<expectedFcb, stationPc, stationQueues, wire, pairHistory>>

\* A frame is lost, or garbled: it is dropped without a word.
LoseFrameTo(x) ==
    /\ LineFault /\ wire[x] # <<>>
    /\ wire' = Discarded(x)
    /\ UNCHANGED <<primary, expectedFcb, stationPc, stationQueues, pairHistory>>

ReadsFrame(x) ==
    IgnoreRequest(x) \/ AnswerLinkService(x) \/ ReceiveUserData(x) \/ ReadAnswer(x)

RunLink(x) ==
    \/ BeginLink(x) \/ ResetLink(x) \/ SendTest(x) \/ SendNextAsdu(x) \/ ExpireAt(x) \/ Wait(x)

PairNext ==
    \E x \in Stations :
      \/ ReadsFrame(x) \/ RefuseLinkService(x) \/ RunLink(x)
      \/ EnqueueASDU(x) \/ AskForTest(x) \/ LoseFrameTo(x)
=============================================================================
