---------------------------- MODULE EventBuffer ----------------------------
(***************************************************************************)
(* What the event (low-priority) queue of the IEC 60870-5-104 server       *)
(* promises to its users: a bounded first-in first-out buffer whose        *)
(* entries stay until the peer acknowledges them, and which overwrites its *)
(* oldest entry when it is full.  MessageQueue implements it with a ring   *)
(* of slots.                                                               *)
(***************************************************************************)
EXTENDS Integers, Sequences

CONSTANTS
  Size,      \* the capacity of the buffer, at least one
  ASDUs      \* the ASDUs that can be queued

VARIABLE buffer   \* the queued entries, oldest first

Entry == [asdu : ASDUs, sent : BOOLEAN]

TypeOK == buffer \in Seq(Entry)

Init == buffer = << >>

(* An event is queued behind all others; a full buffer gives up its oldest *)
(* entry for it.                                                           *)
Enqueue(a) ==
  LET new == [asdu |-> a, sent |-> FALSE]
  IN  \/ /\ Len(buffer) < Size
         /\ buffer' = Append(buffer, new)
      \/ /\ Len(buffer) = Size
         /\ buffer' = Append(Tail(buffer), new)

(* The oldest entry that was not transmitted yet is transmitted; it stays  *)
(* in the buffer.                                                          *)
Transmit(n) ==
  /\ ~ buffer[n].sent
  /\ \A m \in 1 .. n - 1 : buffer[m].sent
  /\ buffer' = [buffer EXCEPT ![n].sent = TRUE]

(* An acknowledgement of a transmitted entry frees it and all before it.   *)
Confirm(n) ==
  /\ buffer[n].sent
  /\ buffer' = SubSeq(buffer, n + 1, Len(buffer))

Next ==
  \/ \E a \in ASDUs : Enqueue(a)
  \/ \E n \in 1 .. Len(buffer) : Transmit(n)
  \/ \E n \in 1 .. Len(buffer) : Confirm(n)

Spec == Init /\ [][Next]_buffer
=============================================================================
