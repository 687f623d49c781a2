SPECIFICATION SimSpec
CONSTANTS
  None = None
  Students = {1}
  Concurrency = 1
  SlotCap = 1
  SlotTries = 1
  StepsToDo = 1
  WindowsPerStep = 1
  MaxWindows = 1
  Tasks = 1
  HasPair = TRUE
  Offsets = {0}
  MaxOthers = 1
INVARIANT SlotsCovered
CHECK_DEADLOCK FALSE
