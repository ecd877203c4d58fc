SPECIFICATION MCFairSpec
CONSTANTS
  BlockSize = 2
  U32 = 6
  DeviceSize = 9
  BufSize = 4
  Zero = 0
  Byte <- MCByte
  Junk = Junk
  Empty = Empty
  EmptyReads = "nothing"
  Pipeline <- OneElement
  Faulty = {"fetch", "update", "pipe"}
  MaxCalls = 4
INVARIANTS
  TypeOK
  EmptiesOnlyWholeBlocks
PROPERTIES
  FreesWholeBlocks
  CallReturns
  ImplementsStorageMechanism
CHECK_DEADLOCK FALSE
