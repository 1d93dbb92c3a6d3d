\* All timers run, the peer may fall silent, and both windows may be full at once.
SPECIFICATION FairSpec
CONSTANTS
  M = 4
  K = 2
  W = 2
  LowSize = 1
  HighSize = 1
  Times = {1}
  Expiring = {"t1", "t2", "t3"}
  MaxReplies = 1
  PeerWindow = 2
  MaxEvents = 2
  MaxRequests = 2
  MaxControls = 1
  MayErr = FALSE
  MaxTests = 1
  MaxInFlight = 2
INVARIANT TypeOK
INVARIANT AcknowledgementDebt
PROPERTY EventsDelivered
PROPERTY Acknowledged
PROPERTY DeadPeerNoticed
CHECK_DEADLOCK FALSE
