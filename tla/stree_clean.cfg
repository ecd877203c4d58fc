SPECIFICATION MCFairSpec
CONSTANTS
  BlockSize = 2
  U32 = 6
  DeviceSize = 7
  BufSize = 3
  Zero = 0
  Byte <- MCByte
  Junk = Junk
  Absent = Absent
  Pipeline <- NoElement
  Faulty = {}
  MaxCalls = 4
PROPERTIES
  ImplementsStorageMechanism
CHECK_DEADLOCK FALSE
