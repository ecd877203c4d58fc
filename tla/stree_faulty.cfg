SPECIFICATION MCFairSpec
CONSTANTS
  BlockSize = 3
  U32 = 8
  DeviceSize = 8
  BufSize = 5
  Zero = 0
  Byte <- MCByte
  Junk = Junk
  Absent = Absent
  Pipeline <- OneElement
  Faulty = {"fetch", "update", "pipe"}
  MaxCalls = 2
INVARIANTS
  TypeOK
  LoopPosition
  DeletesOnlyWholeBlocks
PROPERTIES
  FreesWholeBlocks
  CallReturns
  ImplementsStorageMechanism
CHECK_DEADLOCK FALSE
