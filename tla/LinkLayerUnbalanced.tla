------------------------ MODULE LinkLayerUnbalanced ------------------------
(***************************************************************************)
(* IEC 60870-5-101 in unbalanced mode (link_layer.c, cs101_master.c,       *)
(* cs101_slave.c): one master polls several slaves over a line, with one   *)
(* connection per slave on its side and the secondary link layer and two   *)
(* queues of ASDUs on theirs.  A frame is a record; that of a single       *)
(* character names no sender.                                              *)
(***************************************************************************)
EXTENDS LinkLayer

CONSTANTS
    NumSlaves,        \* slaves, in the order they were added
    Foreign,          \* those not built with this library: they may be busy
    Acting            \* those for which the applications do more than poll

ASSUME UnbalancedAssumption ==
    NumSlaves \in Nat \ {0} /\ Foreign \subseteq 1..NumSlaves /\ Acting \subseteq 1..NumSlaves

Slaves == 1..NumSlaves
Nobody == 0

VARIABLES
    conn,                 \* per slave, the LinkLayerSlaveConnection of the master
    currentSlave, currentSlaveIndex,
    masterPc,             \* CS101_Master_run: "read" the line, then "run" the state machine
    slaveFcb,             \* per slave, expectedFcb of its LinkLayerSecondaryUnbalanced
    class1, class2,       \* per slave, the queues of its ASDUs
    down, up,             \* frames on the line to the slaves and to the master
    \* history
    delivered,            \* per slave, ASDUs its application was given
    received,             \* ASDUs the master's application was given
    taken                 \* ASDUs taken from the queues

link == <<conn, currentSlave, currentSlaveIndex, masterPc>>
queues == <<class1, class2>>
line == <<down, up>>
busHistory == <<delivered, received, taken>>
busState == <<link, slaveFcb, queues, line, busHistory>>

FreshConnection ==
    [state |-> "idle", primaryState |-> "idle", hasMessage |-> FALSE, message |-> NoMessage,
     requestClass1Data |-> FALSE, requestClass2Data |-> FALSE, testFunction |-> FALSE,
     waiting |-> FALSE, nextFcb |-> TRUE, repeats |-> 0]

BusInit ==
    /\ conn = [s \in Slaves |-> FreshConnection]
    /\ currentSlave = Nobody /\ currentSlaveIndex = 1
    /\ masterPc = "read"
    /\ slaveFcb = [s \in Slaves |-> TRUE]
    /\ class1 = [s \in Slaves |-> <<>>] /\ class2 = [s \in Slaves |-> <<>>]
    /\ down = <<>> /\ up = <<>>
    /\ BoundsInit
    /\ delivered = [s \in Slaves |-> <<>>] /\ received = <<>>
    /\ taken = 0

----------------------------------------------------------------------------
(* Frames. Those of the master carry a frame count bit, valid when fcv; those of a slave  *)
(* the access demand and the flow control bit.                                            *)
Service(s, fc) ==
    [to |-> s, fc |-> fc, fcv |-> FALSE, fcb |-> FALSE, asdu |-> NoMessage]
Counted(s, fc, fcb, asdu) == [to |-> s, fc |-> fc, fcv |-> TRUE, fcb |-> fcb, asdu |-> asdu]

Answer(s, fc, acd) == [from |-> s, fc |-> fc, acd |-> acd, dfc |-> FALSE, asdu |-> NoEntry]
UserData(s, asdu, acd) ==
    [from |-> s, fc |-> "USER_DATA", acd |-> acd, dfc |-> FALSE, asdu |-> asdu]
SingleChar == Answer(Nobody, "ACK", FALSE)

Silent == down = <<>> /\ up = <<>>

----------------------------------------------------------------------------
(* The master reads a frame (LinkLayerSlaveConnection_HandleMessage).                     *)
\* An acknowledgement of a test function is none of the message.
Confirmed(c) ==
    IF c.testFunction THEN [c EXCEPT !.testFunction = FALSE] ELSE [c EXCEPT !.hasMessage = FALSE]

\* A single character is also the answer that there are no data.
Acknowledged(c) ==
    NotWaiting(CASE c.primaryState \in {"reset", "respond"} -> Available(c)
                 [] c.primaryState = "sendConfirm" -> Available(Confirmed(c))
                 [] OTHER -> c)

Refused(c) ==
    NotWaiting(IF c.primaryState = "sendConfirm"
                 THEN [c EXCEPT !.primaryState = "busy", !.state = "busy"] ELSE c)

DataReceived(c) ==
    NotWaiting(IF c.primaryState = "respond"
                 THEN [Available(c) EXCEPT !.requestClass1Data = FALSE,
                                           !.requestClass2Data = FALSE]
                 ELSE Illegal(c))

NoData(c) == NotWaiting(IF c.primaryState = "respond" THEN Available(c) ELSE Illegal(c))

NotImplemented(c) ==
    NotWaiting(IF c.primaryState = "sendConfirm" THEN Available(c) ELSE c)

\* An access demand is noted before and, by the application, after the rest.
Handled(c, f) ==
    LET handled == CASE f.fc = "ACK" -> Acknowledged(c)
                     [] f.fc = "NACK" -> Refused(c)
                     [] f.fc = "STATUS_OF_LINK" -> StatusOfLink(c)
                     [] f.fc = "USER_DATA" -> DataReceived(c)
                     [] f.fc = "NO_DATA" -> NoData(c)
                     [] f.fc = "NOT_IMPLEMENTED" -> NotImplemented(c)
    IN  IF f.dfc THEN Busy(c)
        ELSE [handled EXCEPT !.requestClass1Data = @ \/ f.acd]

\* A single character is taken to come from the slave that was sent to last.
Sender(f) == IF f.from = Nobody THEN currentSlave ELSE f.from

HandleMessage ==
    /\ masterPc = "read" /\ up # <<>>
    /\ masterPc' = "run"
    /\ up' = Tail(up)
    /\ LET f == Head(up)
           s == Sender(f)
       IN  /\ conn' = [conn EXCEPT ![s] = Handled(@, f)]
           /\ down' = IF f.fc = "STATUS_OF_LINK" /\ ~f.dfc /\ conn[s].primaryState = "status"
                        THEN Append(down, Service(s, "RESET_REMOTE_LINK")) ELSE down
           /\ received' =
                IF f.fc = "USER_DATA" /\ conn[s].primaryState = "respond"
                  THEN Append(received, f.asdu) ELSE received
    /\ UNCHANGED <<currentSlave, currentSlaveIndex, slaveFcb, queues, bounds, delivered,
                   taken>>

----------------------------------------------------------------------------
(* The master runs its state machine (LinkLayerPrimaryUnbalanced_runStateMachine): that   *)
(* of the connection that waits for an answer, else that of the next one.                 *)
Keeps == currentSlave # Nobody /\ conn[currentSlave].waiting
\* Mutant: the next one although an answer is still to come.
CurrentInTurn == currentSlaveIndex

Current == IF Keeps THEN currentSlave ELSE currentSlaveIndex

Select ==
    /\ masterPc' = "read"
    /\ currentSlave' = Current
    /\ currentSlaveIndex' = IF Keeps THEN currentSlaveIndex ELSE (Current % NumSlaves) + 1
    /\ UNCHANGED <<slaveFcb, queues, up, busHistory>>

Set(c) == conn' = [conn EXCEPT ![Current] = c]
Send(f) == down' = Append(down, f)

\* PLL_IDLE
Begin ==
    /\ conn[Current].primaryState = "idle"
    /\ Select
    /\ Set([conn[Current] EXCEPT !.primaryState = "status", !.waiting = FALSE,
                                 !.testFunction = FALSE])
    /\ UNCHANGED <<down, bounds>>

\* PLL_EXECUTE_REQUEST_STATUS_OF_LINK. The status is asked for only after a busy answer.
\* Mutant: the frame count bit is not set with the reset.
ResetKeepingCount(c) == [c EXCEPT !.primaryState = "reset", !.waiting = TRUE]
Reset(c) == [c EXCEPT !.primaryState = "reset", !.waiting = TRUE, !.nextFcb = TRUE]

ResetRemoteLink ==
    /\ conn[Current].primaryState = "status" /\ ~conn[Current].waiting
    /\ Select
    /\ Set(Reset(conn[Current]))
    /\ Send(Service(Current, "RESET_REMOTE_LINK"))
    /\ UNCHANGED bounds

RequestStatus ==
    /\ conn[Current].primaryState = "status" /\ conn[Current].waiting
    /\ AckTimeout(Silent)
    /\ Select
    /\ Send(Service(Current, "REQUEST_LINK_STATUS"))
    /\ UNCHANGED conn

\* PLL_EXECUTE_RESET_REMOTE_LINK. A reset that was refused is as good as one acknowledged.
ResetTimeout ==
    /\ conn[Current].primaryState = "reset" /\ conn[Current].waiting
    /\ AckTimeout(Silent)
    /\ Select
    /\ Set([Illegal(conn[Current]) EXCEPT !.waiting = FALSE])
    /\ UNCHANGED down

ResetAnswered ==
    /\ conn[Current].primaryState = "reset" /\ ~conn[Current].waiting
    /\ Select
    /\ Set(Available(conn[Current]))
    /\ UNCHANGED <<down, bounds>>

\* PLL_LINK_LAYERS_AVAILABLE: a test, else a message, else a request for data.
Requests(c) == c.requestClass1Data \/ c.requestClass2Data

Sent(c, state) ==
    [c EXCEPT !.nextFcb = ~@, !.waiting = TRUE, !.repeats = 0, !.primaryState = state]

SendTestFunction ==
    LET c == conn[Current] IN
    /\ c.primaryState = "available" /\ c.testFunction
    /\ Select
    /\ Set(Sent(c, "respond"))
    /\ Send(Counted(Current, "TEST_FUNCTION", c.nextFcb, NoMessage))
    /\ UNCHANGED bounds

SendUserData ==
    LET c == conn[Current] IN
    /\ c.primaryState = "available" /\ ~c.testFunction /\ c.hasMessage
    /\ Select
    /\ Set(Sent(c, "sendConfirm"))
    /\ Send(Counted(Current, "USER_DATA_CONFIRMED", c.nextFcb, c.message))
    /\ UNCHANGED bounds

ClassOf(c) == IF c.requestClass1Data THEN "CLASS_1" ELSE "CLASS_2"

RequestData ==
    LET c == conn[Current] IN
    /\ c.primaryState = "available" /\ ~c.testFunction /\ ~c.hasMessage /\ Requests(c)
    /\ Select
    /\ Set([Sent(c, "respond") EXCEPT
              !.requestClass1Data = FALSE,
              !.requestClass2Data = IF c.requestClass1Data THEN @ ELSE FALSE])
    /\ Send(Counted(Current, ClassOf(c), c.nextFcb, NoMessage))
    /\ UNCHANGED bounds

\* PLL_EXECUTE_SERVICE_SEND_CONFIRM, PLL_EXECUTE_SERVICE_REQUEST_RESPOND: the frame is
\* repeated with the same count bit until timeoutRepeat has passed, or the connection starts
\* again; waitingForResponse stays. Whether a request was for class 1 is forgotten by then.
Repeated(c) ==
    CASE c.primaryState = "sendConfirm" /\ c.testFunction ->
           Counted(Current, "TEST_FUNCTION", ~c.nextFcb, NoMessage)
      [] c.primaryState = "sendConfirm" /\ ~c.testFunction ->
           Counted(Current, "USER_DATA_CONFIRMED", ~c.nextFcb, c.message)
      [] c.primaryState = "respond" -> Counted(Current, ClassOf(c), ~c.nextFcb, NoMessage)

Repeat ==
    LET c == conn[Current] IN
    /\ c.primaryState \in {"sendConfirm", "respond"} /\ c.repeats < MaxRepeats
    /\ AckTimeout(Silent)
    /\ Select
    /\ Set([c EXCEPT !.repeats = @ + 1])
    /\ Send(Repeated(c))

GiveUp ==
    LET c == conn[Current] IN
    /\ c.primaryState \in {"sendConfirm", "respond"} /\ c.repeats = MaxRepeats
    /\ AckTimeout(Silent)
    /\ Select
    /\ Set(IF c.primaryState = "respond"
             THEN [Illegal(c) EXCEPT !.requestClass1Data = FALSE, !.requestClass2Data = FALSE]
             ELSE Illegal(c))
    /\ UNCHANGED down

\* Nothing to do, or not yet.
Pass ==
    LET c == conn[Current] IN
    /\ \/ c.primaryState = "available" /\ ~c.testFunction /\ ~c.hasMessage /\ ~Requests(c)
       \/ c.primaryState \in {"sendConfirm", "respond", "busy"}
       \/ c.primaryState \in {"status", "reset"} /\ c.waiting
    /\ Select
    /\ UNCHANGED <<conn, down, bounds>>

Expire == RequestStatus \/ ResetTimeout \/ Repeat \/ GiveUp
RunStateMachine ==
    \/ Begin \/ ResetRemoteLink \/ ResetAnswered \/ SendTestFunction \/ SendUserData
    \/ RequestData \/ Expire \/ Pass

----------------------------------------------------------------------------
(* The application of the master.                                                         *)
\* Mutant: a message replaces the one that is being sent.
AcceptsAlways(c) == TRUE

\* sendConfirmed has room for one message per slave and refuses another.
Accepts(c) == ~c.hasMessage

\* CS101_Master_sendASDU does not look at the refusal: the ASDU is gone.
SendASDU(s, kind) ==
    /\ NewMessage
    /\ conn' = IF Accepts(conn[s])
                 THEN [conn EXCEPT ![s].hasMessage = TRUE,
                                   ![s].message = Command(messages + 1, kind)]
                 ELSE conn
    /\ UNCHANGED <<currentSlave, currentSlaveIndex, masterPc, slaveFcb, queues, line,
                   busHistory>>

\* CS101_Master_pollSingleSlave
Poll(s) ==
    /\ ~conn[s].requestClass2Data
    /\ conn' = [conn EXCEPT ![s].requestClass2Data = TRUE]
    /\ UNCHANGED <<currentSlave, currentSlaveIndex, masterPc, slaveFcb, queues, line,
                   bounds, busHistory>>

\* CS101_Master_sendLinkLayerTestFunction
RequestTest(s) ==
    /\ NewTest
    /\ conn' = [conn EXCEPT ![s].testFunction = TRUE]
    /\ UNCHANGED <<currentSlave, currentSlaveIndex, masterPc, slaveFcb, queues, line,
                   busHistory>>

----------------------------------------------------------------------------
(* A slave (LinkLayerSecondaryUnbalanced).                                                *)
Acks(s, acd) == IF SingleCharACK /\ ~acd THEN SingleChar ELSE Answer(s, "ACK", acd)
Without(s, acd) == IF SingleCharACK /\ ~acd THEN SingleChar ELSE Answer(s, "NO_DATA", acd)

\* checkFCB
InOrder(s, f) == f.fcv => f.fcb = slaveFcb[s]

ToSlave(s) == down # <<>> /\ Head(down).to = s /\ down' = Tail(down)

\* A frame whose count bit is not the expected one gets no answer, not even that of the frame
\* it repeats.
RejectRepeated(s) ==
    /\ ToSlave(s) /\ ~InOrder(s, Head(down))
    /\ UNCHANGED <<link, slaveFcb, queues, up, bounds, busHistory>>

Accepted(s) ==
    LET f == Head(down) IN
    /\ ToSlave(s) /\ InOrder(s, f)
    /\ slaveFcb' = [slaveFcb EXCEPT ![s] = IF f.fc = "RESET_REMOTE_LINK" THEN TRUE
                                          ELSE IF f.fcv THEN ~@ ELSE @]
    /\ UNCHANGED <<link, bounds, received>>

AnswerService(s) ==
    LET f == Head(down) IN
    /\ Accepted(s)
    /\ \/ /\ f.fc = "REQUEST_LINK_STATUS"
          /\ up' = Append(up, Answer(s, "STATUS_OF_LINK", class1[s] # <<>>))
       \/ /\ f.fc = "RESET_REMOTE_LINK"
          /\ up' = Append(up, Acks(s, FALSE))
       \/ /\ f.fc = "TEST_FUNCTION"
          /\ up' = Append(up, Answer(s, "NOT_IMPLEMENTED", FALSE))
    /\ UNCHANGED <<queues, delivered, taken>>

AnswerRequest(s) ==
    LET f     == Head(down)
        queue == IF f.fc = "CLASS_1" THEN class1[s] ELSE class2[s]
    IN
    /\ Accepted(s)
    /\ f.fc \in {"CLASS_1", "CLASS_2"}
    /\ class1' = [class1 EXCEPT ![s] = IF f.fc = "CLASS_1" THEN Rest(@) ELSE @]
    /\ class2' = [class2 EXCEPT ![s] = IF f.fc = "CLASS_2" THEN Rest(@) ELSE @]
    /\ LET demand == class1'[s] # <<>>
       IN  up' = Append(up, IF queue = <<>> THEN Without(s, demand)
                            ELSE UserData(s, Head(queue), demand))
    /\ taken' = IF queue = <<>> THEN taken ELSE taken + 1
    /\ UNCHANGED delivered

HandleUserData(s) ==
    LET m == Head(down).asdu IN
    /\ Accepted(s)
    /\ Head(down).fc = "USER_DATA_CONFIRMED"
    /\ delivered' = [delivered EXCEPT ![s] = Append(@, m.id)]
    /\ class1' = [class1 EXCEPT ![s] = AfterReplies(@, m)]
    /\ up' = Append(up, Acks(s, class1'[s] # <<>>))
    /\ UNCHANGED <<class2, taken>>

SlaveStep(s) == RejectRepeated(s) \/ AnswerService(s) \/ AnswerRequest(s) \/ HandleUserData(s)

\* A slave not of this library is busy: it does nothing and says so, by a refusal or by the
\* flow control bit.
RefuseBusy(s) ==
    /\ s \in Foreign /\ ToSlave(s) /\ LineFault
    /\ \E dfc \in BOOLEAN :
         up' = Append(up, [from |-> s, fc |-> "NACK", acd |-> FALSE, dfc |-> dfc,
                           asdu |-> NoEntry])
    /\ slaveFcb' = [slaveFcb EXCEPT ![s] = IF Head(down).fcv THEN ~Head(down).fcb ELSE @]
    /\ UNCHANGED <<link, queues, busHistory>>

\* CS101_Slave_enqueueUserDataClass1, CS101_Slave_enqueueUserDataClass2
EnqueueUserData(s) ==
    /\ NewEvent
    /\ \/ /\ class1' = [class1 EXCEPT ![s] = Put(@, Event(events + 1), QueueSize)]
          /\ UNCHANGED class2
       \/ /\ class2' = [class2 EXCEPT ![s] = Put(@, Event(events + 1), QueueSize)]
          /\ UNCHANGED class1
    /\ UNCHANGED <<link, slaveFcb, line, busHistory>>

----------------------------------------------------------------------------
(* The line loses a frame, or garbles it: it is dropped without a word.                   *)
LoseFrame ==
    /\ LineFault
    /\ \/ /\ down # <<>> /\ down' = Tail(down) /\ UNCHANGED up
       \/ /\ up # <<>> /\ up' = Tail(up) /\ UNCHANGED down
    /\ UNCHANGED <<link, slaveFcb, queues, busHistory>>

BusNext ==
    \/ HandleMessage \/ RunStateMachine \/ LoseFrame
    \/ \E s \in Slaves : SlaveStep(s) \/ RefuseBusy(s) \/ Poll(s)
    \/ \E s \in Acting :
         \/ EnqueueUserData(s) \/ RequestTest(s)
         \/ \E kind \in Commands : SendASDU(s, kind)
=============================================================================
