SPECIFICATION FairSpec
CONSTANTS
  Bio = {b1, b2}
  Zero = Zero
  NoBio = NoBio
  Shapes <- AllShapes
  MaxSignals = 0
  MaxRefusals = 0
  StorageMayFail = TRUE
INVARIANTS
  NeverPanics
CHECK_DEADLOCK FALSE
