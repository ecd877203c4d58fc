SPECIFICATION MCFairSpec
CONSTANTS
  DeviceSize = 10
  NearSize = 4
  MaxSegments = 3
  ChunkSize = 2
  BlockSize = 2
  BufSize = 6
  U32 = 8
  Byte <- MCByte
  Zero = 0
  MaxRequests = 2
INVARIANTS
  TypeOK
  PanicsOnlyPastMetadata
PROPERTIES
  HandsOverTheSegments
  ServesEverySegment
  RejectsOnlyGaps
  RequestReturns
  ImplementsStorageMechanism
CHECK_DEADLOCK FALSE
