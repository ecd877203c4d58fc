SPECIFICATION MCFairSpec
CONSTANTS
  Process = {"zosbd2cmd", "other"}
  Driver = "zosbd2cmd"
  device_name = "disk"
  device_name_2 = "disk2"
  Name = {"disk", "disk2", "long"}
  TooLong = {"long"}
  EmptyName = "empty"
  Lower <- LowerCase
  MaxDevices = 2
  MaxHandles = 7
  MayRefuse = TRUE
  MaxInterrupts = 1
  MaxCalls = 3
INVARIANTS
  TypeOK
  DriverLeavesNothing
  UninterruptedKnowsItsDevices
PROPERTIES
  StatusMapIsSnapshot
  DestroysOnlyNamed
  SparesDevicesOfOthers
  CallsReturn
  DriverEnds
CHECK_DEADLOCK FALSE
