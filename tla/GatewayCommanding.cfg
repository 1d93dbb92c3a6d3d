SPECIFICATION FairSpec
CONSTANTS
  r1 = r1
  r2 = r2
  w1 = w1
  w2 = w2
  w3 = w3
  m1 = m1
  m2 = m2
  c1 = c1
  c2 = c2
  a1 = a1
  a2 = a2
  a3 = a3
  zero = zero
  one = one
  None = None
  Main = Main
  Indeterminate = Indeterminate
  ReadPoints = {}
  WritePoints = {w1, w2, w3}
  Ragged = {}
  Values = {zero, one}
  Zero = zero
  Masters = {m1, m2}
  Script <- CommandingScript
  ReadOrder <- CommandingOrder
  HighPriority = {}
  SendRate = 1
  Clients = {c1, c2}
  Candidates <- CommandingCandidates
  Refused <- CommandingRefusals
  Function <- CommandingFunctions
  LowByte <- NoHighByte
  Unreportable = {}
  Unstored = {w3}
  QueueSize = 1
  Requests <- CommandingRequests
  MaxStimuli = 4
INVARIANT LockDiscipline
INVARIANT CommandsAreKept
PROPERTY OnlyCommandsAreWritten
PROPERTY RequestsAnswered
PROPERTY CommandsAreTried
