SPECIFICATION FairSpec
CONSTANTS
  Bio = {b1, b2}
  Zero = Zero
  NoBio = NoBio
  Shapes <- AllShapes
  MaxSignals = 2
  MaxRefusals = 1
  StorageMayFail = TRUE
INVARIANTS
  NothingForgotten
PROPERTIES
  HandlerStops
  RequestsAnswered
  ImplementsBlockDevice
CHECK_DEADLOCK FALSE
