SPECIFICATION MCFairSpec
CONSTANTS
  BlockSize = 3
  U32 = 8
  DeviceSize = 8
  BufSize = 5
  Zero = 0
  Byte <- MCByte
  Junk = Junk
  Absent = Absent
  Pipeline <- TwoElements
  Faulty = {}
  MaxCalls = 2
PROPERTIES
  ImplementsStorageMechanism
CHECK_DEADLOCK FALSE
