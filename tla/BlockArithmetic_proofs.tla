----------------------- MODULE BlockArithmetic_proofs -----------------------
(***************************************************************************)
(* What the loops of both storage mechanisms need to know of the           *)
(* arithmetic of blocks.                                                   *)
(***************************************************************************)
EXTENDS BlockArithmetic, TLAPS

\* A position is its block's first byte plus its offset in the block.
LEMMA FirstBlockAndOffset ==
  ASSUME NEW s \in Nat
  PROVE  /\ FirstBlock(s) \in Nat
         /\ FirstOffset(s) \in 0 .. BlockSize - 1
         /\ FirstBlock(s) * BlockSize + FirstOffset(s) = s
  BY BlockSizeAssumption DEF FirstBlock, FirstOffset

\* The next block starts where this one ends.
LEMMA NextBlockStart ==
  ASSUME NEW c \in Int
  PROVE  (c + 1) * BlockSize = c * BlockSize + BlockSize
  BY BlockSizeAssumption

\* Later blocks start later.
LEMMA BlockPositions ==
  ASSUME NEW a \in Int, NEW b \in Int
  PROVE  /\ a * BlockSize \in Int
         /\ (a + 1) * BlockSize = a * BlockSize + BlockSize
         /\ a < b => (a + 1) * BlockSize <= b * BlockSize
  BY BlockSizeAssumption

\* Two blocks that hold the same position are the same block.
LEMMA BlockIsUnique ==
  ASSUME NEW a \in Int, NEW b \in Int, NEW x \in Int,
         a * BlockSize <= x, x < (a + 1) * BlockSize,
         b * BlockSize <= x, x < (b + 1) * BlockSize
  PROVE  a = b
<1>1. a * BlockSize \in Int /\ b * BlockSize \in Int
      /\ (a + 1) * BlockSize \in Int /\ (b + 1) * BlockSize \in Int
  BY BlockSizeAssumption
<1>2. ~(a < b)
  <2>1. a < b => (a + 1) * BlockSize <= b * BlockSize
    BY BlockPositions
  <2> QED
    BY <1>1, <2>1
<1>3. ~(b < a)
  <2>1. b < a => (b + 1) * BlockSize <= a * BlockSize
    BY BlockPositions
  <2> QED
    BY <1>1, <2>1
<1> QED
  BY <1>2, <1>3
=============================================================================
