------------------------------- MODULE CS101 -------------------------------
(***************************************************************************)
(* A CS101_Master and its CS101_Slaves over a serial line, in the mode     *)
(* they were created for (linkLayerMode): unbalanced or balanced.          *)
(***************************************************************************)
EXTENDS LinkLayerUnbalanced, LinkLayerBalanced

CONSTANT Modes            \* the modes explored

ASSUME ModesAssumption == Modes \subseteq {"unbalanced", "balanced"}

VARIABLE linkLayerMode

vars == <<linkLayerMode, busState, pairState, bounds>>

\* CS101_Master_create, CS101_Slave_create
Init == linkLayerMode \in Modes /\ BusInit /\ PairInit

\* CS101_Master_run, CS101_Slave_run and the calls of the applications, by the mode.
InUnbalanced(step) ==
    linkLayerMode = "unbalanced" /\ step /\ UNCHANGED <<linkLayerMode, pairState>>
InBalanced(step) ==
    linkLayerMode = "balanced" /\ step /\ UNCHANGED <<linkLayerMode, busState>>

Next == InUnbalanced(BusNext) \/ InBalanced(PairNext)
Spec == Init /\ [][Next]_vars

\* The threads run, and the application of a master polls. A time-out that has passed stays
\* so until the state machine gets its turn, and a station that has just received an answer is
\* not idle. Nothing is assumed of the line.
BusFairness ==
    /\ WF_vars(InUnbalanced(HandleMessage \/ \E s \in Slaves : SlaveStep(s)))
    /\ WF_vars(InUnbalanced(RunStateMachine)) /\ SF_vars(InUnbalanced(Expire))
    /\ \A s \in Acting : WF_vars(InUnbalanced(Poll(s)))

PairFairness ==
    /\ WF_vars(InBalanced(\E x \in Stations : ReadsFrame(x)))
    /\ \A x \in Stations : WF_vars(InBalanced(RunLink(x)))
    /\ SF_vars(InBalanced(\E x \in Stations : ExpireAt(x)))
    /\ SF_vars(InBalanced(\E x \in Stations : SendNextAsdu(x)))

FairSpec == Spec /\ BusFairness /\ PairFairness

----------------------------------------------------------------------------
NumbersOf(asdus) == {asdus[i] : i \in DOMAIN asdus}
Increasing(numbers) ==
    \A i, j \in DOMAIN numbers : i < j => numbers[i] < numbers[j]

MasterServices ==
    {"RESET_REMOTE_LINK", "TEST_FUNCTION", "USER_DATA_CONFIRMED", "REQUEST_LINK_STATUS",
     "CLASS_1", "CLASS_2"}

\* The queues, the connections and the link layers are well formed: no queue is longer than
\* its ring, no frame is repeated more often than timeoutRepeat allows, and every frame on the
\* line to a slave is one the code sends.
TypeOK ==
    /\ linkLayerMode \in Modes /\ BoundsOK
    /\ \A s \in Slaves :
         /\ conn[s].state \in LinkLayerState /\ conn[s].primaryState \in PrimaryLinkLayerState
         /\ conn[s].repeats \in 0..MaxRepeats
         /\ slaveFcb[s] \in BOOLEAN
         /\ Len(class1[s]) <= QueueSize /\ Len(class2[s]) <= QueueSize
    /\ currentSlave \in Slaves \cup {Nobody} /\ currentSlaveIndex \in Slaves
    /\ \A i \in DOMAIN down : down[i].fc \in MasterServices
    /\ \A x \in Stations :
         /\ primary[x].state \in LinkLayerState
         /\ primary[x].primaryState \in PrimaryLinkLayerState \ {"respond"}
         /\ primary[x].repeats \in 0..MaxRepeats
         /\ Len(queue1[x]) <= QueueSize /\ Len(queue2[x]) <= QueueSize
         /\ sent[x] \in Nat

\* An ASDU its sender takes for confirmed was given to the application it was for: in
\* unbalanced mode one the connection no longer holds, in balanced mode one acknowledged.
\* Excluded are an answer that comes after its time-out, which the next frame takes for its
\* own, and in balanced mode a test asked for while an ASDU waits to be confirmed.
ConfirmedIsDelivered ==
    ~late =>
      /\ \A s \in Slaves :
           conn[s].message.id > 0 /\ ~conn[s].hasMessage
             => conn[s].message.id \in NumbersOf(delivered[s])
      /\ tests = 0 => \A x \in Stations : confirmed[x] \subseteq NumbersOf(got[Other(x)])

\* In balanced mode the ASDUs of a station arrive at most once and in the order in which they
\* were taken from its queues, whatever is lost, late or repeated.
InOrderOnce == \A x \in Stations : Increasing(got[x])

\* The count bits of a connection that is available and of its slave agree: the next frame
\* is not taken for a repeat.
FrameCountsAgree ==
    \A s \in Slaves \ Foreign :
      conn[s].primaryState = "available" /\ Silent /\ ~late => conn[s].nextFcb = slaveFcb[s]

\* Each fault of the line costs at most one of the ASDUs that slaves have taken from their
\* queues, though they keep no copy of what they have sent.
OnTheWay == Cardinality({i \in DOMAIN up : up[i].fc = "USER_DATA"})
LostOnlyByFaults == ~late => taken <= Len(received) + OnTheWay + faults

\* What waits to be sent is sent, unless a station is busy: every connection and link layer
\* finds its way back from every fault.
Waiting ==
    \/ \E s \in Slaves : conn[s].hasMessage \/ class1[s] # <<>> \/ class2[s] # <<>>
    \/ \E x \in Stations : HasUserData(x)
SomeoneBusy ==
    \/ \E s \in Slaves : conn[s].primaryState = "busy"
    \/ \E x \in Stations : primary[x].primaryState = "busy"
EverythingIsSent == Waiting ~> (~Waiting \/ SomeoneBusy)
=============================================================================
