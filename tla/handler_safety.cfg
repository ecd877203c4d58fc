SPECIFICATION Spec
CONSTANTS
  Bio = {b1, b2, b3}
  Zero = Zero
  NoBio = NoBio
  Shapes <- PlainShapes
  MaxSignals = 1
  MaxRefusals = 2
  StorageMayFail = TRUE
SYMMETRY Symmetry
INVARIANTS
  TypeOK
  AnswersMatchRequests
  NothingForgotten
PROPERTIES
  ImplementsBlockDevice
CHECK_DEADLOCK FALSE
