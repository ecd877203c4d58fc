-------------------------- MODULE BlockArithmetic --------------------------
(***************************************************************************)
(* How a byte range is cut into storage blocks.  The loops of Read_block,  *)
(* Write_block and Discard_block all visit the blocks of the range in      *)
(* order; in each they touch the bytes from an offset (0 after the first   *)
(* block) up to the end of the range or of the block.  Reads and writes    *)
(* compute that end in uint32, discards in uint64, because the length of a *)
(* discard can be close to 2^32.                                           *)
(***************************************************************************)
EXTENDS Integers

CONSTANTS
  BlockSize,   \* bytes in one block of the storage (Get_block_size)
  U32          \* the number of values of a uint32: 2^32 in the code

ASSUME BlockSizeAssumption == BlockSize \in Nat \ {0}
ASSUME U32Assumption == U32 \in Nat /\ BlockSize < U32

\* The block a range starts in, and where in that block.
FirstBlock(start)  == start \div BlockSize
FirstOffset(start) == start % BlockSize

\* Where a range with `left' bytes still to go ends, relative to the start
\* of the block it has reached: uint32 arithmetic, and uint64 arithmetic.
End32(offset, left) == (offset + left) % U32
End64_Narrow(offset, left) == (offset + left) % U32   \* mutated: as before 3/19/2022
End64(offset, left) == offset + left

\* The part of this block that the range covers stops at the block's end.
Clip(end) == IF end > BlockSize THEN BlockSize ELSE end

\* Does the range cover only a part of this block?  Then its old contents
\* must be read before it is written (cases 1, 2 and 4 of the code).
IsPartial_HeadOnly(offset, end) == offset > 0   \* mutated: the last block is forgotten
IsPartial(offset, end) == offset > 0 \/ end < BlockSize

\* A block whose bytes from..to-1 are replaced by src[pos], src[pos + 1], ...
Overlay_FromZero(block, from, to, src, pos) ==   \* mutated: readpos is not advanced
  [j \in 0 .. BlockSize - 1 |->
     IF from <= j /\ j < to THEN src[j - from] ELSE block[j]]
Overlay(block, from, to, src, pos) ==
  [j \in 0 .. BlockSize - 1 |->
     IF from <= j /\ j < to THEN src[pos + j - from] ELSE block[j]]
=============================================================================
