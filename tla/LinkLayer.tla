----------------------------- MODULE LinkLayer -----------------------------
(***************************************************************************)
(* What both modes of the IEC 60870-5-101 link layer (link_layer.c) share: *)
(* the states of a primary link layer, the ASDUs of the two applications   *)
(* (cs101_master.c, cs101_slave.c) and the faults of the line.             *)
(*                                                                         *)
(* The clock is left out: a station that waits for an answer may time out  *)
(* when nothing is under way to it or from it, MaxRepeats times before     *)
(* timeoutRepeat has passed as well.  A frame that is lost or garbled, a   *)
(* time-out while an answer is under way and a station that is busy count  *)
(* as faults.                                                              *)
(***************************************************************************)
EXTENDS CS101Queue, FiniteSets

CONSTANTS
    SingleCharACK,    \* useSingleCharACK
    QueueSize,        \* CS101_MAX_QUEUE_SIZE
    Commands,         \* kinds of ASDUs the master sends
    MaxRepeats,       \* repeats of a frame until timeoutRepeat
    MaxMessages,      \* bound on the ASDUs of the master
    MaxEvents,        \* bound on the events of the slaves
    MaxTests,         \* bound on the tests of the link that are asked for
    MaxCalls,         \* bound on all of these
    MaxFaults         \* bound on the faults

ASSUME LinkLayerAssumption ==
    /\ SingleCharACK \in BOOLEAN /\ QueueSize \in Nat \ {0}
    /\ Commands \subseteq {"known", "test", "unknown", "wrongCause"}
    /\ {MaxRepeats, MaxMessages, MaxEvents, MaxTests, MaxCalls, MaxFaults} \subseteq Nat

VARIABLES
    messages, events, tests, faults,   \* how many so far
    late                               \* a time-out has passed while an answer was under way

bounds == <<messages, events, tests, faults, late>>

BoundsInit == messages = 0 /\ events = 0 /\ tests = 0 /\ faults = 0 /\ late = FALSE

BoundsOK ==
    /\ messages \in 0..MaxMessages /\ events \in 0..MaxEvents
    /\ tests \in 0..MaxTests /\ faults \in 0..MaxFaults /\ late \in BOOLEAN

NewCall == messages + events + tests < MaxCalls /\ UNCHANGED <<faults, late>>
NewMessage ==
    NewCall /\ messages < MaxMessages /\ messages' = messages + 1 /\ UNCHANGED <<events, tests>>
NewEvent ==
    NewCall /\ events < MaxEvents /\ events' = events + 1 /\ UNCHANGED <<messages, tests>>
NewTest ==
    NewCall /\ tests < MaxTests /\ tests' = tests + 1 /\ UNCHANGED <<messages, events>>
Fault ==
    faults < MaxFaults /\ faults' = faults + 1 /\ UNCHANGED <<messages, events, tests>>
LineFault == Fault /\ UNCHANGED late

\* currentTime > lastSendTime + timeoutForAck
AckTimeout(silent) == IF silent THEN UNCHANGED bounds ELSE Fault /\ late' = TRUE

----------------------------------------------------------------------------
(* The application of a slave.                                                            *)
NoMessage == [id |-> 0, kind |-> "none"]
Command(id, kind) == [id |-> id, kind |-> kind]
Event(id) == [event |-> id]
Reply(message) == [reply |-> message]

\* handleASDU, with handlers that accept what is "known": how many ASDUs answer. A wrong
\* cause of transmission is answered and then, as nobody has handled it, answered again.
Replies(kind) ==
    CASE kind = "known" -> 0
      [] kind \in {"test", "unknown"} -> 1
      [] kind = "wrongCause" -> 2

AfterReplies(queue, m) ==
    LET one == Put(queue, Reply(m.id), QueueSize)
    IN  CASE Replies(m.kind) = 0 -> queue
          [] Replies(m.kind) = 1 -> one
          [] Replies(m.kind) = 2 -> Put(one, Reply(m.id), QueueSize)

----------------------------------------------------------------------------
(* A primary link layer: the state its user sees and the one it is in.                    *)
PrimaryLinkLayerState == {"idle", "status", "reset", "available", "sendConfirm", "respond", "busy"}
LinkLayerState == {"idle", "error", "busy", "available"}

\* The flow control bit: the other station takes nothing for now.
Busy(p) ==
    [p EXCEPT !.state = "busy",
              !.primaryState = CASE @ \in {"status", "reset"} -> "status"
                                 [] @ \in {"sendConfirm", "busy"} -> "busy"
                                 [] OTHER -> @]

Available(p) == [p EXCEPT !.primaryState = "available", !.state = "available"]
Illegal(p) == [p EXCEPT !.primaryState = "idle", !.state = "error"]
\* Mutant: an answer leaves the station waiting for it.
StillWaiting(p) == p

NotWaiting(p) == [p EXCEPT !.waiting = FALSE]

\* A status that was asked for is answered with a reset.
StatusOfLink(p) ==
    IF p.primaryState = "status"
      THEN [p EXCEPT !.primaryState = "reset", !.state = "busy", !.waiting = TRUE]
      ELSE Illegal(p)
=============================================================================
