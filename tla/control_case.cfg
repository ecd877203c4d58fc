SPECIFICATION MCSpec
CONSTANTS
  Process = {"zosbd2cmd", "other"}
  Driver = "zosbd2cmd"
  device_name = "disk"
  device_name_2 = "disk2"
  Name = {"disk", "disk2", "DISK"}
  TooLong = {}
  EmptyName = "empty"
  Lower <- LowerCase
  MaxDevices = 2
  MaxHandles = 7
  MayRefuse = FALSE
  MaxInterrupts = 0
  MaxCalls = 3
PROPERTIES
  StatusMapIsSnapshot
CHECK_DEADLOCK FALSE
