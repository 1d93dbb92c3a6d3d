SPECIFICATION FairSpec
CONSTANTS
  r1 = r1
  r2 = r2
  w1 = w1
  w2 = w2
  w3 = w3
  m1 = m1
  m2 = m2
  c1 = c1
  c2 = c2
  a1 = a1
  a2 = a2
  a3 = a3
  zero = zero
  one = one
  None = None
  Main = Main
  Indeterminate = Indeterminate
  ReadPoints = {}
  WritePoints = {w1}
  Ragged = {}
  Values = {zero, one}
  Zero = zero
  Masters = {m1}
  Script <- RefusedScript
  ReadOrder <- CommandingOrder
  HighPriority = {}
  SendRate = 1
  Clients = {c1, c2}
  Candidates <- RefusingCandidates
  Refused <- RefusingRefusals
  Function <- CommandingFunctions
  LowByte <- AllBits
  Unreportable = {}
  Unstored = {}
  QueueSize = 2
  Requests <- RefusingRequests
  MaxStimuli = 4
PROPERTY ClientsAreIndependent
