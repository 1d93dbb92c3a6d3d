\* Both modes, every fault once; a slave of another make beside one of this library.
SPECIFICATION FairSpec
CONSTANTS
  Modes = {"unbalanced", "balanced"}
  SingleCharACK = TRUE
  QueueSize = 1
  Commands = {"wrongCause"}
  MaxRepeats = 1
  MaxMessages = 2
  MaxEvents = 1
  MaxTests = 1
  MaxCalls = 2
  MaxFaults = 1
  NumSlaves = 2
  Foreign = {1}
  Acting = {2}
  BusyStations = {"slave"}
INVARIANT ConfirmedIsDelivered
INVARIANT InOrderOnce
INVARIANT FrameCountsAgree
INVARIANT LostOnlyByFaults
PROPERTY EverythingIsSent
