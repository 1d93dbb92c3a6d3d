SPECIFICATION FairSpec
CONSTANTS
  Slaves <- TwoSlaves
  Reads <- TheReads
  Writes <- TheWrites
  InitialDevice <- TheDevices
  FieldValues <- TheValues
  CommandData <- TheData
  Lines = {"faulty"}
  TimeWidths = {64}
  GarbledValues = {1, 255}
  MaxChanges = 0
  MaxCommands = 0
  MaxFaults = 1
PROPERTY RequestsEnd
CHECK_DEADLOCK FALSE
