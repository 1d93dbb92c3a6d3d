SPECIFICATION FairSpec
CONSTANTS
  r1 = r1
  r2 = r2
  w1 = w1
  w2 = w2
  w3 = w3
  m1 = m1
  m2 = m2
  c1 = c1
  c2 = c2
  a1 = a1
  a2 = a2
  a3 = a3
  zero = zero
  one = one
  None = None
  Main = Main
  Indeterminate = Indeterminate
  ReadPoints = {r1, r2}
  WritePoints = {}
  Ragged = {r1}
  Values = {zero, one}
  Zero = zero
  Masters = {m1}
  Script <- ReportingScript
  ReadOrder <- ReportingOrder
  HighPriority = {r2}
  SendRate = 1
  Clients = {c1}
  Candidates <- NoCandidates
  Refused <- NoRefusals
  Function <- NoFunctions
  LowByte <- AllBits
  Unreportable = {r2}
  Unstored = {}
  QueueSize = 2
  Requests <- NoRequests
  MaxStimuli = 3
INVARIANT TypeOK
INVARIANT CurrentMeansReported
PROPERTY Reported
