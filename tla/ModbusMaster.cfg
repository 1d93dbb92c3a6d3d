SPECIFICATION FairSpec
CONSTANTS
  Slaves <- TwoSlaves
  Reads <- TheReads
  Writes <- TheWrites
  InitialDevice <- TheDevices
  FieldValues <- TheValues
  CommandData <- TheData
  Lines = {"timely", "faulty"}
  TimeWidths = {32, 64}
  GarbledValues = {1, 255}
  MaxChanges = 1
  MaxCommands = 1
  MaxFaults = 1
INVARIANT NeverInvented
INVARIANT AtMostOnce
INVARIANT FreshAnswers
PROPERTY CurrentAgain
PROPERTY StopReturns
CHECK_DEADLOCK FALSE
