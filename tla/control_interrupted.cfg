SPECIFICATION MCSpec
CONSTANTS
  Process = {"zosbd2cmd", "other"}
  Driver = "zosbd2cmd"
  device_name = "disk"
  device_name_2 = "disk2"
  Name = {"disk", "disk2"}
  TooLong = {}
  EmptyName = "empty"
  Lower <- LowerCase
  MaxDevices = 2
  MaxHandles = 7
  MayRefuse = FALSE
  MaxInterrupts = 1
  MaxCalls = 0
INVARIANTS
  KnowsItsDevices
CHECK_DEADLOCK FALSE
