\* An active connection with a full k-buffer, wrap-around and a full event queue whose
\* slots are reused, so that a late acknowledgement may meet another event.
SPECIFICATION Spec
CONSTANTS
  M = 4
  K = 2
  W = 2
  LowSize = 2
  HighSize = 1
  Times = {now, later}
  Expiring = {"t2"}
  MaxReplies = 1
  PeerWindow = 2
  MaxEvents = 4
  MaxRequests = 1
  MaxControls = 2
  MayErr = TRUE
  MaxTests = 2
  MaxInFlight = 2
INVARIANT SequenceNumbers
INVARIANT SequenceErrorsNoticed
INVARIANT NothingLost
INVARIANT InOrder
INVARIANT OnlyWhenStarted
SYMMETRY TimeSymmetry
CHECK_DEADLOCK FALSE
