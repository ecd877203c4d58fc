------------------------ MODULE StreeContract_proofs ------------------------
(***************************************************************************)
(* The stree storage mechanism implements StorageMechanism, for every      *)
(* block size, device size of 64 bits, buffer size and set of faults that  *)
(* leaves deletes alone, with a pipeline whose elements are undone in the  *)
(* order the code calls them.                                              *)
(***************************************************************************)
EXTENDS StreeStorage_proofs

\* The pipeline reads back what it stored.
PipelineFits == Undone(PipeInOrder)

\* The size of a device is a uint64, and so is the number of a block.
U64 == 256 * 256 * 256 * 256 * 256 * 256 * 256 * 256

DeviceSizeFits == DeviceSize <= U64

Fits == PipelineFits /\ DeviceSizeFits

MayFail == Faulty # {}

Positions == 0 .. DeviceSize - 1

Key(b) == Generate_key_from_block_num(b)

\* The byte of a stored block, and of a position, as a read would find it.
StoredByte(stored, j) == IF stored = Absent THEN Zero ELSE PipedOut(stored)[j]

ByteAt(store, x) == StoredByte(store[Key(FirstBlock(x))], FirstOffset(x))

LEMMA DiskByteIsByteAt ==
  ASSUME NEW x
  PROVE  DiskByte(x) = ByteAt(rawstore, x) /\ DiskByte(x)' = ByteAt(rawstore', x)
  BY DEF DiskByte, ByteAt, StoredByte, FirstOffset, FirstBlock, Key

LEMMA Sizes ==
  /\ BlockSize \in Nat /\ BlockSize > 0 /\ U32 \in Nat /\ BlockSize < U32
  /\ DeviceSize \in Nat /\ DeviceSize > 0
  /\ BufSize \in Nat
  BY BlockSizeAssumption, U32Assumption, DeviceSizeAssumption, BufSizeAssumption

-----------------------------------------------------------------------------
(***************************************************************************)
(* Two blocks of a device never share a key: the eight bytes hold the      *)
(* whole of a uint64.                                                      *)
(***************************************************************************)
LEMMA LastByte ==
  ASSUME NEW m \in Nat, NEW n \in Nat, m % 256 = n % 256, m \div 256 = n \div 256
  PROVE  m = n
  OBVIOUS

LEMMA Shifted ==
  ASSUME NEW n \in Nat, NEW k \in Nat, n < 256 * k
  PROVE  n \div 256 \in Nat /\ n \div 256 < k
  OBVIOUS

LEMMA KeyIsUnique ==
  ASSUME NEW a \in Nat, NEW b \in Nat, a < U64, b < U64, Key(a) = Key(b)
  PROVE  a = b
<1> DEFINE a1 == a \div 256   b1 == b \div 256
           a2 == a1 \div 256  b2 == b1 \div 256
           a3 == a2 \div 256  b3 == b2 \div 256
           a4 == a3 \div 256  b4 == b3 \div 256
           a5 == a4 \div 256  b5 == b4 \div 256
           a6 == a5 \div 256  b6 == b5 \div 256
           a7 == a6 \div 256  b7 == b6 \div 256
<1>1. /\ a % 256 = b % 256 /\ a1 % 256 = b1 % 256 /\ a2 % 256 = b2 % 256
      /\ a3 % 256 = b3 % 256 /\ a4 % 256 = b4 % 256 /\ a5 % 256 = b5 % 256
      /\ a6 % 256 = b6 % 256 /\ a7 % 256 = b7 % 256
  BY DEF Key, Generate_key_from_block_num
<1>2. /\ a1 \in Nat /\ a1 < 256 * 256 * 256 * 256 * 256 * 256 * 256
      /\ b1 \in Nat /\ b1 < 256 * 256 * 256 * 256 * 256 * 256 * 256
  BY Shifted DEF U64
<1> HIDE DEF a1, b1
<1>3. /\ a2 \in Nat /\ a2 < 256 * 256 * 256 * 256 * 256 * 256
      /\ b2 \in Nat /\ b2 < 256 * 256 * 256 * 256 * 256 * 256
  BY <1>2, Shifted
<1> HIDE DEF a2, b2
<1>4. /\ a3 \in Nat /\ a3 < 256 * 256 * 256 * 256 * 256
      /\ b3 \in Nat /\ b3 < 256 * 256 * 256 * 256 * 256
  BY <1>3, Shifted
<1> HIDE DEF a3, b3
<1>5. /\ a4 \in Nat /\ a4 < 256 * 256 * 256 * 256
      /\ b4 \in Nat /\ b4 < 256 * 256 * 256 * 256
  BY <1>4, Shifted
<1> HIDE DEF a4, b4
<1>6. /\ a5 \in Nat /\ a5 < 256 * 256 * 256
      /\ b5 \in Nat /\ b5 < 256 * 256 * 256
  BY <1>5, Shifted
<1> HIDE DEF a5, b5
<1>7. /\ a6 \in Nat /\ a6 < 256 * 256
      /\ b6 \in Nat /\ b6 < 256 * 256
  BY <1>6, Shifted
<1> HIDE DEF a6, b6
<1>8. /\ a7 \in Nat /\ a7 < 256
      /\ b7 \in Nat /\ b7 < 256
  BY <1>7, Shifted
<1> HIDE DEF a7, b7
<1>9. a7 = b7
  BY <1>1, <1>8
<1>10. a6 = b6
  BY <1>1, <1>7, <1>9, LastByte DEF a7, b7
<1>11. a5 = b5
  BY <1>1, <1>6, <1>10, LastByte DEF a6, b6
<1>12. a4 = b4
  BY <1>1, <1>5, <1>11, LastByte DEF a5, b5
<1>13. a3 = b3
  BY <1>1, <1>4, <1>12, LastByte DEF a4, b4
<1>14. a2 = b2
  BY <1>1, <1>3, <1>13, LastByte DEF a3, b3
<1>15. a1 = b1
  BY <1>1, <1>2, <1>14, LastByte DEF a2, b2
<1> QED
  BY <1>1, <1>15, LastByte DEF a1, b1

LEMMA BlockIsUint64 ==
  ASSUME DeviceSizeFits, NEW b \in Blocks
  PROVE  b \in Nat /\ b < U64
<1> DEFINE last == FirstBlock(DeviceSize - 1)
<1>1. /\ last \in Nat /\ FirstOffset(DeviceSize - 1) \in Nat
      /\ last * BlockSize + FirstOffset(DeviceSize - 1) = DeviceSize - 1
  BY FirstBlockAndOffset, Sizes
<1>2. b \in Nat /\ b <= last
  BY <1>1 DEF Blocks, FirstBlock
<1>3. last * BlockSize \in Int /\ last <= last * BlockSize
  <2> HIDE DEF last
  <2> QED
    BY <1>1, Sizes
<1> DEFINE here == last * BlockSize
<1>4. here + FirstOffset(DeviceSize - 1) = DeviceSize - 1 /\ here \in Int /\ last <= here
  BY <1>1, <1>3
<1> HIDE DEF last, here
<1>5. b < DeviceSize
  BY <1>1, <1>2, <1>4, Sizes
<1> QED
  BY <1>2, <1>5, Sizes DEF DeviceSizeFits, U64

LEMMA KeysDiffer ==
  ASSUME DeviceSizeFits, NEW a \in Blocks, NEW b \in Blocks
  PROVE  Key(a) = Key(b) <=> a = b
  BY BlockIsUint64, KeyIsUnique

-----------------------------------------------------------------------------
(***************************************************************************)
(* Positions and blocks                                                    *)
(***************************************************************************)
LEMMA PositionInBlock ==
  ASSUME NEW x \in Positions
  PROVE  /\ FirstBlock(x) \in Blocks /\ FirstBlock(x) \in Nat
         /\ FirstOffset(x) \in 0 .. BlockSize - 1
         /\ FirstBlock(x) * BlockSize + FirstOffset(x) = x
<1> DEFINE b == FirstBlock(x)
           here == b * BlockSize
<1>1. x \in Nat /\ x < DeviceSize
  BY Sizes DEF Positions
<1>2. b \in Nat /\ FirstOffset(x) \in 0 .. BlockSize - 1 /\ here + FirstOffset(x) = x
  BY <1>1, FirstBlockAndOffset
<1>3. here \in Int
  BY <1>2, BlockPositions
<1>4. here < DeviceSize
  <2> HIDE DEF here
  <2> QED
    BY <1>1, <1>2, <1>3, Sizes
<1>5. b \in Blocks
  <2> HIDE DEF b
  <2> QED
    BY <1>2, <1>4, BlockInDevice
<1> QED
  BY <1>2, <1>5

\* A position that lies between the bounds of a block is in that block.
LEMMA BlockOfPosition ==
  ASSUME NEW x \in Positions, NEW c \in Nat,
         c * BlockSize <= x, x < c * BlockSize + BlockSize
  PROVE  FirstBlock(x) = c
<1> DEFINE b == FirstBlock(x)
<1>1. /\ b \in Nat /\ FirstOffset(x) \in 0 .. BlockSize - 1
      /\ b * BlockSize + FirstOffset(x) = x
  BY PositionInBlock
<1>2. /\ b * BlockSize \in Int /\ (b + 1) * BlockSize = b * BlockSize + BlockSize
      /\ (c + 1) * BlockSize = c * BlockSize + BlockSize
  BY <1>1, BlockPositions
<1>3. b * BlockSize <= x /\ x < (b + 1) * BlockSize
  <2> DEFINE here == b * BlockSize
  <2>1. here \in Int /\ here + FirstOffset(x) = x /\ (b + 1) * BlockSize = here + BlockSize
    BY <1>1, <1>2
  <2> HIDE DEF here
  <2>2. here <= x /\ x < here + BlockSize
    BY <1>1, <2>1, Sizes
  <2> QED
    BY <2>1, <2>2 DEF here
<1>4. x \in Int
  BY Sizes DEF Positions
<1> QED
  BY <1>1, <1>2, <1>3, <1>4, BlockIsUnique

-----------------------------------------------------------------------------
(***************************************************************************)
(* What a block reads as, once it was stored                               *)
(***************************************************************************)
LEMMA PipedInReads ==
  ASSUME PipelineFits, NEW block \in Block, NEW j
  PROVE  StoredByte(PipedIn(block), j) = block[j]
<1>1. PipedIn(block) # Absent
  BY PipedInType, StreeAbsent
<1>2. PipedOut(PipedIn(block)) = block
  BY DEF PipelineFits, PipedIn, PipedOut
<1> QED
  BY <1>1, <1>2 DEF StoredByte

LEMMA ByteAfterPut ==
  ASSUME DeviceSizeFits, Types, NEW c \in Blocks, NEW stored, NEW x \in Positions
  PROVE  ByteAt([rawstore EXCEPT ![Key(c)] = stored], x)
           = IF FirstBlock(x) = c THEN StoredByte(stored, FirstOffset(x)) ELSE ByteAt(rawstore, x)
<1>1. DOMAIN rawstore = Keys /\ FirstBlock(x) \in Blocks
  BY PositionInBlock DEF Types
<1>2. Key(FirstBlock(x)) \in Keys /\ (Key(FirstBlock(x)) = Key(c) <=> FirstBlock(x) = c)
  BY <1>1, KeyOfBlock, KeysDiffer DEF Key
<1> QED
  BY <1>1, <1>2 DEF ByteAt

\* A read of a block brings its bytes, or zeros if it was never stored; it
\* fails only if the stree or the pipeline does.
LEMMA ReadOutcome ==
  ASSUME NEW b, NEW r \in read_one_block(Key(b))
  PROVE  /\ r.ok => \A j \in 0 .. BlockSize - 1 : r.block[j] = StoredByte(rawstore[Key(b)], j)
         /\ ~r.ok => MayFail
<1> DEFINE stored == rawstore[Key(b)]
<1>1. \/ r = [ok |-> FALSE, block |-> ZeroBlock] /\ MayFail
      \/ stored = Absent /\ r = [ok |-> TRUE, block |-> ZeroBlock]
      \/ stored # Absent /\ r = [ok |-> TRUE, block |-> PipedOut(stored)]
  BY DEF read_one_block, MayFail
<1>2. \A j \in 0 .. BlockSize - 1 : ZeroBlock[j] = Zero
  BY DEF ZeroBlock
<1> HIDE DEF stored
<1> QED
  BY <1>1, <1>2 DEF StoredByte, stored

-----------------------------------------------------------------------------
(***************************************************************************)
(* What one turn of a loop does to the bytes of the device                 *)
(***************************************************************************)
\* The positions that one turn of a loop is about, amount bytes of them.
Turn(x, amount) == start_in_bytes + done <= x /\ x < start_in_bytes + (done + amount)

\* They are those at the loop's offset in the current block.
LEMMA TurnInBlock ==
  ASSUME IInv, pc \in {"read", "write", "discard"}, done < length,
         NEW amount, amount = Clip(offsetinblock + (length - done)) - offsetinblock,
         NEW x \in Positions
  PROVE  /\ Turn(x, amount) <=> /\ FirstBlock(x) = currentblock
                                /\ offsetinblock <= FirstOffset(x)
                                /\ FirstOffset(x) < offsetinblock + amount
         /\ FirstBlock(x) = currentblock =>
              FirstOffset(x) - offsetinblock = x - (start_in_bytes + done)
         /\ Turn(x, amount) => start_in_bytes <= x /\ x < start_in_bytes + length
<1> DEFINE here == currentblock * BlockSize
<1>1. /\ here + offsetinblock = start_in_bytes + done
      /\ amount \in Nat /\ amount <= length - done /\ offsetinblock + amount <= BlockSize
  BY LoopStep DEF IInv
<1>2. /\ currentblock \in Nat /\ here \in Int /\ x \in Nat
      /\ offsetinblock \in Nat /\ start_in_bytes \in Nat /\ done \in Nat /\ length \in Nat
  BY LoopTypes, Sizes, BlockPositions DEF IInv, Positions
<1>3. FirstOffset(x) \in 0 .. BlockSize - 1
  BY PositionInBlock
<1>4. FirstBlock(x) = currentblock => here + FirstOffset(x) = x
  BY PositionInBlock
<1>5. here <= x /\ x < here + BlockSize => FirstBlock(x) = currentblock
  BY <1>2, BlockOfPosition
<1> HIDE DEF here
<1> QED
  BY <1>1, <1>2, <1>3, <1>4, <1>5, Sizes DEF Turn

\* The bytes of a block after it was overlaid: those of the turn come from
\* src, the others are the old ones, because a block of which only a part is
\* written is read first.
LEMMA OverlayByte ==
  ASSUME IInv, Fits, pc \in {"write", "discard"}, done < length,
         NEW amount, amount = Clip(offsetinblock + (length - done)) - offsetinblock,
         NEW old \in prefetch(Key(currentblock), IsPartial(offsetinblock, offsetinblock + (length - done))), old.ok,
         NEW src, NEW pos \in Nat,
         NEW block \in Block,
         block = Overlay(old.block, offsetinblock, Clip(offsetinblock + (length - done)), src, pos),
         NEW x \in Positions
  PROVE  ByteAt([rawstore EXCEPT ![Key(currentblock)] = PipedIn(block)], x)
           = IF Turn(x, amount) THEN src[pos + (x - (start_in_bytes + done))]
             ELSE ByteAt(rawstore, x)
<1> DEFINE o == FirstOffset(x)
           end == Clip(offsetinblock + (length - done))
           partial == IsPartial(offsetinblock, offsetinblock + (length - done))
           stored == ByteAt([rawstore EXCEPT ![Key(currentblock)] = PipedIn(block)], x)
<1>1. currentblock \in Blocks /\ amount \in Nat /\ offsetinblock + amount <= BlockSize
  BY LoopStep DEF IInv
<1>2. stored = IF FirstBlock(x) = currentblock THEN block[o] ELSE ByteAt(rawstore, x)
  BY <1>1, ByteAfterPut, PipedInReads DEF IInv, Fits
<1>3. o \in 0 .. BlockSize - 1 /\ offsetinblock \in Nat /\ end \in Int /\ end = offsetinblock + amount
      /\ done \in Nat /\ length \in Nat /\ start_in_bytes \in Nat /\ x \in Nat /\ BlockSize \in Nat
  BY PositionInBlock, LoopTypes, Sizes DEF IInv, Clip, Positions
<1>4. CASE Turn(x, amount)
  <2>1. FirstBlock(x) = currentblock /\ offsetinblock <= o /\ o < end
        /\ o - offsetinblock = x - (start_in_bytes + done)
    BY <1>3, <1>4, TurnInBlock
  <2>2. block[o] = src[pos + o - offsetinblock]
    BY <1>3, <2>1 DEF Overlay
  <2>3. pos + o - offsetinblock = pos + (x - (start_in_bytes + done))
    BY <1>3, <2>1
  <2> QED
    BY <1>2, <1>4, <2>1, <2>2, <2>3
<1>5. CASE ~Turn(x, amount) /\ FirstBlock(x) = currentblock
  <2>1. ~(offsetinblock <= o /\ o < end)
    BY <1>3, <1>5, TurnInBlock
  <2>2. block[o] = old.block[o]
    BY <1>3, <2>1 DEF Overlay
  <2>3. partial
    <3>1. IsPartial(offsetinblock, offsetinblock + (length - done))
      BY <1>3, <2>1 DEF IsPartial, Clip
    <3> QED
      BY <3>1
  <2>4. old \in read_one_block(Key(currentblock))
    BY <2>3 DEF prefetch
  <2>5. old.block[o] = StoredByte(rawstore[Key(currentblock)], o)
    BY <1>1, <1>3, <2>4, ReadOutcome
  <2> QED
    BY <1>2, <1>5, <2>2, <2>5 DEF ByteAt
<1>6. CASE ~Turn(x, amount) /\ FirstBlock(x) # currentblock
  BY <1>2, <1>6
<1> QED
  BY <1>4, <1>5, <1>6

\* One block is updated: the bytes of the turn take their new values, all of
\* them if the call goes on, and no other byte changes.
Updated(amount, src, pos) ==
  \A x \in Positions :
    /\ Turn(x, amount) =>
         \/ ByteAt(rawstore', x) = src[pos + (x - (start_in_bytes + done))]
         \/ ByteAt(rawstore', x) = ByteAt(rawstore, x) /\ pc' = "idle"
    /\ ~Turn(x, amount) => ByteAt(rawstore', x) = ByteAt(rawstore, x)

\* A turn of Write_block, or of Discard_block over a part of a block.
UpdateBlock(src, pos) ==
  LET absoluteend == offsetinblock + (length - done)
      end == Clip(absoluteend)
  IN  \E old \in prefetch(Key(currentblock), IsPartial(offsetinblock, absoluteend)) :
        \/ ~old.ok /\ Return("error") /\ UNCHANGED rawstore
        \/ /\ old.ok
           /\ \E new \in write_one_block(Key(currentblock),
                  Overlay(old.block, offsetinblock, end, src, pos)) :
                /\ rawstore' = new.store
                /\ \/ ~new.ok /\ Return("error")
                   \/ /\ new.ok /\ NextBlock(end - offsetinblock)
                      /\ UNCHANGED <<pc, args, discard_range, ret>>

LEMMA UpdateOutcome ==
  ASSUME IInv, Fits, pc \in {"write", "discard"}, done < length,
         NEW amount, amount = Clip(offsetinblock + (length - done)) - offsetinblock,
         NEW src, NEW pos \in Nat,
         \A i \in Int : pos <= i /\ i < pos + (length - done) /\ i < pos + BlockSize
                          => src[i] \in Byte \union {Junk},
         UpdateBlock(src, pos)
  PROVE  /\ Updated(amount, src, pos)
         /\ \/ Return("error") /\ MayFail
            \/ NextBlock(amount) /\ UNCHANGED <<pc, args, discard_range, ret>>
<1> DEFINE absoluteend == offsetinblock + (length - done)
           end == Clip(absoluteend)
           partial == IsPartial(offsetinblock, absoluteend)
           updated(old) == Overlay(old.block, offsetinblock, end, src, pos)
<1>1. /\ currentblock \in Blocks /\ amount \in Nat /\ amount <= length - done
      /\ offsetinblock + amount <= BlockSize
  BY LoopStep DEF IInv
<1>2. PICK old \in prefetch(Key(currentblock), partial) :
        \/ ~old.ok /\ Return("error") /\ UNCHANGED rawstore
        \/ /\ old.ok
           /\ \E new \in write_one_block(Key(currentblock), updated(old)) :
             /\ rawstore' = new.store
             /\ \/ ~new.ok /\ Return("error")
                \/ /\ new.ok /\ NextBlock(amount)
                   /\ UNCHANGED <<pc, args, discard_range, ret>>
  BY DEF UpdateBlock
<1>3. CASE ~old.ok /\ Return("error") /\ UNCHANGED rawstore
  <2>1. MayFail
    <3>1. CASE partial
      <4>1. old \in read_one_block(Key(currentblock))
        BY <3>1 DEF prefetch
      <4> QED
        BY <1>1, <1>3, <4>1, ReadOutcome
    <3>2. CASE ~partial
      BY <1>3, <3>2 DEF prefetch
    <3> QED
      BY <3>1, <3>2
  <2> QED
    BY <1>3, <2>1 DEF Updated, Return
<1>4. ASSUME old.ok,
             NEW new \in write_one_block(Key(currentblock), updated(old)),
             rawstore' = new.store,
             \/ ~new.ok /\ Return("error")
             \/ new.ok /\ NextBlock(amount) /\ UNCHANGED <<pc, args, discard_range, ret>>
      PROVE  /\ Updated(amount, src, pos)
             /\ \/ Return("error") /\ MayFail
                \/ NextBlock(amount) /\ UNCHANGED <<pc, args, discard_range, ret>>
  <2> DEFINE block == updated(old)
             stored == [rawstore EXCEPT ![Key(currentblock)] = PipedIn(block)]
  <2>1. block \in Block
    <3>1. old.block \in Block
      BY <1>1, KeyOfBlock, PrefetchType DEF IInv, IsPartial, Key
    <3>2. /\ offsetinblock \in Nat /\ end \in Int /\ BlockSize \in Nat
          /\ length \in Nat /\ done \in Nat /\ end - offsetinblock = amount
      BY LoopTypes, Sizes DEF IInv, Clip
    <3>3. ASSUME NEW i \in Int, pos <= i, i < pos + (end - offsetinblock)
          PROVE  src[i] \in Byte \union {Junk}
      <4>1. i < pos + (length - done) /\ i < pos + BlockSize
        <5> HIDE DEF end
        <5> QED
          BY <1>1, <3>2, <3>3
      <4> QED
        BY <3>3, <4>1
    <3> QED
      BY <3>1, <3>2, <3>3, OverlayType
  <2>2. \A x \in Positions :
          ByteAt(stored, x) = IF Turn(x, amount) THEN src[pos + (x - (start_in_bytes + done))]
                              ELSE ByteAt(rawstore, x)
    <3>1. old \in prefetch(Key(currentblock), IsPartial(offsetinblock, offsetinblock + (length - done)))
      OBVIOUS
    <3>2. block = Overlay(old.block, offsetinblock, Clip(offsetinblock + (length - done)), src, pos)
      OBVIOUS
    <3>3. PICK b \in Block : b = block
      BY <2>1
    <3>4. b = Overlay(old.block, offsetinblock, Clip(offsetinblock + (length - done)), src, pos)
      BY <3>2, <3>3
    <3> HIDE DEF block
    <3>5. ASSUME NEW x \in Positions
          PROVE  ByteAt([rawstore EXCEPT ![Key(currentblock)] = PipedIn(b)], x)
                   = IF Turn(x, amount) THEN src[pos + (x - (start_in_bytes + done))]
                     ELSE ByteAt(rawstore, x)
      BY <1>4, <3>1, <3>4, OverlayByte
    <3> QED
      BY <3>3, <3>5
  <2>3. /\ new.store \in {rawstore, stored} /\ (new.ok => new.store = stored)
        /\ ~new.ok => MayFail
    <3>1. \/ new = [ok |-> TRUE, store |-> stored]
          \/ Faulty # {} /\ \E st \in {rawstore, stored} : new = [ok |-> FALSE, store |-> st]
      BY <1>4 DEF write_one_block
    <3> HIDE DEF stored
    <3> QED
      BY <3>1 DEF MayFail
  <2> HIDE DEF stored
  <2>4. ~new.ok => pc' = "idle"
    BY <1>4 DEF Return
  <2>5. Updated(amount, src, pos)
    BY <1>4, <2>2, <2>3, <2>4 DEF Updated
  <2> QED
    BY <1>4, <2>3, <2>5
<1> QED
  BY <1>2, <1>3, <1>4

-----------------------------------------------------------------------------
(***************************************************************************)
(* The steps of the contract                                               *)
(***************************************************************************)
InRange(x) == start_in_bytes <= x /\ x < start_in_bytes + length

\* What the call wants a byte of its range to become.
Wanted(x) == IF pc = "write" THEN data[x - start_in_bytes] ELSE Zero

\* No byte changes but those of the range, to what is wanted.
ChangesWanted ==
  \A x \in Positions :
    ByteAt(rawstore', x) # ByteAt(rawstore, x) => InRange(x) /\ ByteAt(rawstore', x) = Wanted(x)

LEMMA StepIsChange ==
  ASSUME pc \in {"write", "discard", "delete"},
         pc' = pc \/ (pc = "discard" /\ pc' = "delete"),
         UNCHANGED <<args, data, ret>>, ChangesWanted
  PROVE  Contract!Change
<1>1. /\ start_in_bytes' = start_in_bytes /\ length' = length /\ data' = data /\ ret' = ret
      /\ (IF pc' = "delete" THEN "discard" ELSE pc') = (IF pc = "delete" THEN "discard" ELSE pc)
      /\ (IF pc = "delete" THEN "discard" ELSE pc) \in {"write", "discard"}
      /\ (IF pc = "delete" THEN "discard" ELSE pc) = "write" <=> pc = "write"
  BY DEF args
<1>2. \A x \in Positions : DiskByte(x)' # DiskByte(x) => InRange(x) /\ DiskByte(x)' = Wanted(x)
  BY DiskByteIsByteAt DEF ChangesWanted
<1> QED
  BY <1>1, <1>2 DEF Contract!Change, Contract!Covered, Contract!Target, InRange, Wanted, Positions

LEMMA StepIsReturnError ==
  ASSUME pc # "idle", Return("error"), data' = data,
         MayFail \/ (pc = "read" /\ length > BufSize),
         \/ rawstore' = rawstore
         \/ pc # "read" /\ ChangesWanted
  PROVE  Contract!ReturnError
<1>1. /\ pc' = "idle" /\ ret' = "error" /\ start_in_bytes' = 0 /\ length' = 0
      /\ (IF pc = "delete" THEN "discard" ELSE pc) # "idle"
      /\ (IF pc = "delete" THEN "discard" ELSE pc) = "write" <=> pc = "write"
      /\ (IF pc = "delete" THEN "discard" ELSE pc) = "read" <=> pc = "read"
  BY DEF Return
<1>2. \A x \in Positions : DiskByte(x)' # DiskByte(x) =>
        pc # "read" /\ InRange(x) /\ DiskByte(x)' = Wanted(x)
  BY DiskByteIsByteAt DEF ChangesWanted
<1> QED
  BY <1>1, <1>2 DEF Contract!ReturnError, Contract!NoCall, Contract!Covered, Contract!Target,
                    InRange, Wanted, Positions, MayFail

LEMMA StepIsReturnOk ==
  ASSUME IInv, pc # "idle", Return("ok"), UNCHANGED <<rawstore, data>>,
         pc = "read" => length <= BufSize /\ \A x \in Positions : InRange(x) =>
                          ByteAt(rawstore, x) = data[x - start_in_bytes],
         pc # "read" => \A x \in Positions : InRange(x) => ByteAt(rawstore, x) = Wanted(x)
  PROVE  Contract!ReturnOk
<1>1. /\ pc' = "idle" /\ ret' = "ok" /\ start_in_bytes' = 0 /\ length' = 0
      /\ (IF pc = "delete" THEN "discard" ELSE pc) # "idle"
      /\ (IF pc = "delete" THEN "discard" ELSE pc) = "write" <=> pc = "write"
      /\ (IF pc = "delete" THEN "discard" ELSE pc) = "read" <=> pc = "read"
  BY DEF Return
<1>2. \A x \in Positions : DiskByte(x)' = DiskByte(x) /\ DiskByte(x) = ByteAt(rawstore, x)
  BY DiskByteIsByteAt
<1>3. ASSUME pc = "read", NEW i \in 0 .. length - 1
      PROVE  /\ start_in_bytes + i \in 0 .. DeviceSize - 1
             /\ data[i] = DiskByte(start_in_bytes + i)
  <2>1. /\ start_in_bytes + i \in Positions /\ InRange(start_in_bytes + i)
        /\ (start_in_bytes + i) - start_in_bytes = i
    BY LoopTypes, Sizes DEF IInv, ArgumentsInv, Positions, InRange
  <2>2. ByteAt(rawstore, start_in_bytes + i) = data[(start_in_bytes + i) - start_in_bytes]
    BY <1>3, <2>1
  <2> QED
    BY <2>1, <2>2, DiskByteIsByteAt DEF Positions
<1>4. [x \in 0 .. DeviceSize - 1 |-> DiskByte(x)]' = [x \in 0 .. DeviceSize - 1 |-> DiskByte(x)]
  BY <1>2 DEF Positions
<1>5. CASE pc = "read"
  BY <1>1, <1>3, <1>4, <1>5 DEF Contract!ReturnOk, Contract!NoCall
<1>6. CASE pc # "read"
  <2>1. \A x \in Positions : InRange(x) => DiskByte(x) = Wanted(x)
    BY <1>2, <1>6
  <2> QED
    BY <1>1, <1>4, <1>6, <2>1 DEF Contract!ReturnOk, Contract!NoCall, Contract!Covered,
                             Contract!Target, InRange, Wanted, Positions
<1> QED
  BY <1>5, <1>6

LEMMA CallIsIssue ==
  ASSUME IInv, pc = "idle" => start_in_bytes = 0 /\ length = 0, SomeCall
  PROVE  Contract!Issue
<1>1. PICK op \in {"read", "write", "discard"}, start \in 0 .. DeviceSize - 1,
           len \in 0 .. DeviceSize, buffer \in Buffer : Call(op, start, len, buffer)
  BY DEF SomeCall
<1>2. /\ pc = "idle" /\ start_in_bytes = 0 /\ length = 0
      /\ pc' = op /\ start_in_bytes' = start /\ length' = len /\ data' = buffer
      /\ start + len <= DeviceSize /\ ret' = ret
      /\ (IF pc' = "delete" THEN "discard" ELSE pc') = op
      /\ (IF pc = "delete" THEN "discard" ELSE pc) = "idle"
  BY <1>1 DEF Call
<1>3. rawstore' = rawstore
  BY <1>1 DEF Call
<1>4. [x \in 0 .. DeviceSize - 1 |-> DiskByte(x)]' = [x \in 0 .. DeviceSize - 1 |-> DiskByte(x)]
  BY <1>3, DiskByteIsByteAt
<1> QED
  BY <1>2, <1>4 DEF Contract!Issue, Contract!NoCall, Contract!Buffer, Buffer

LEMMA StepIsFill ==
  ASSUME pc = "read", UNCHANGED <<rawstore, pc, args, ret>>,
         data \in DataType, data' \in DataType,
         \A i \in 0 .. BufSize - 1 :
           data'[i] # data[i] => i < length /\ start_in_bytes + i \in Positions
                                   /\ data'[i] = ByteAt(rawstore, start_in_bytes + i)
  PROVE  Contract!Fill
<1>1. /\ pc' = "read" /\ start_in_bytes' = start_in_bytes /\ length' = length /\ ret' = ret
      /\ (IF pc = "delete" THEN "discard" ELSE pc) = "read"
      /\ (IF pc' = "delete" THEN "discard" ELSE pc') = "read"
  BY DEF args
<1>2. [x \in 0 .. DeviceSize - 1 |-> DiskByte(x)]' = [x \in 0 .. DeviceSize - 1 |-> DiskByte(x)]
  BY DiskByteIsByteAt
<1>3. \A i \in 0 .. BufSize - 1 :
        data'[i] # data[i] => i < length /\ start_in_bytes + i \in 0 .. DeviceSize - 1
                                /\ data'[i] = DiskByte(start_in_bytes + i)
  BY DiskByteIsByteAt DEF Positions
<1>4. DOMAIN data = 0 .. BufSize - 1 /\ DOMAIN data' = 0 .. BufSize - 1
  BY DEF DataType
<1> QED
  BY <1>1, <1>2, <1>3, <1>4 DEF Contract!Fill
-----------------------------------------------------------------------------
(***************************************************************************)
(* How far a call has got                                                  *)
(***************************************************************************)
Passed(x) == start_in_bytes <= x /\ x < start_in_bytes + done

\* A read or a write has copied what it has passed; a discard has zeroed it,
\* or is going to delete its block.
CopiedInv ==
  pc \in {"read", "write"} =>
    \A x \in Positions : Passed(x) => ByteAt(rawstore, x) = data[x - start_in_bytes]

ZeroedInv ==
  pc = "discard" =>
    \A x \in Positions : Passed(x) => ByteAt(rawstore, x) = Zero \/ Gathered(FirstBlock(x))

DeletedInv ==
  pc = "delete" =>
    \A x \in Positions : InRange(x) =>
      \/ ByteAt(rawstore, x) = Zero
      \/ currentblock <= FirstBlock(x) /\ FirstBlock(x) <= discard_range_end

IdleInv == pc = "idle" => start_in_bytes = 0 /\ length = 0

ContractInv == CopiedInv /\ ZeroedInv /\ DeletedInv /\ IdleInv

LEMMA InitContractInv == Init => ContractInv
  BY DEF Init, ContractInv, CopiedInv, ZeroedInv, DeletedInv, IdleInv

LEMMA ReturnKeepsContractInv ==
  ASSUME NEW result, Return(result)
  PROVE  ContractInv'
  BY DEF Return, ContractInv, CopiedInv, ZeroedInv, DeletedInv, IdleInv

LEMMA CallKeepsContractInv ==
  ASSUME SomeCall
  PROVE  ContractInv'
<1>1. /\ done' = 0 /\ pc' \in {"read", "write", "discard"}
      /\ start_in_bytes' \in 0 .. DeviceSize - 1
  <2>1. PICK op \in {"read", "write", "discard"}, start \in 0 .. DeviceSize - 1,
             len \in 0 .. DeviceSize, buffer \in Buffer : Call(op, start, len, buffer)
    BY DEF SomeCall
  <2> QED
    BY <2>1 DEF Call
<1>2. ASSUME NEW x \in Positions PROVE ~(Passed(x)')
  <2>1. PICK start \in Int : start = start_in_bytes'
    BY <1>1
  <2>2. x \in Int /\ ~(start <= x /\ x < start + 0)
    BY Sizes DEF Positions
  <2> QED
    BY <1>1, <2>1, <2>2, Zenon DEF Passed
<1> QED
  BY <1>1, <1>2 DEF ContractInv, CopiedInv, ZeroedInv, DeletedInv, IdleInv

-----------------------------------------------------------------------------
(***************************************************************************)
(* Read_block                                                              *)
(***************************************************************************)
\* The bytes a turn of the loop copies are those of the positions it is about.
LEMMA ReadOneCopies ==
  ASSUME IInv, Fits, pc = "read", length <= BufSize, done < length,
         NEW amount, amount = Clip(offsetinblock + (length - done)) - offsetinblock,
         NEW read \in read_one_block(Key(currentblock)), read.ok,
         NEW i \in Int, done <= i, i < done + amount
  PROVE  /\ start_in_bytes + i \in Positions /\ i < length
         /\ Turn(start_in_bytes + i, amount)
         /\ read.block[offsetinblock + i - done] = ByteAt(rawstore, start_in_bytes + i)
<1> DEFINE x == start_in_bytes + i
<1>1. /\ currentblock \in Blocks /\ amount \in Nat /\ amount <= length - done
      /\ offsetinblock + amount <= BlockSize
  BY LoopStep DEF IInv
<1>2. /\ start_in_bytes \in Nat /\ length \in Nat /\ done \in Nat /\ offsetinblock \in Nat
      /\ start_in_bytes + length <= DeviceSize /\ BlockSize \in Nat /\ DeviceSize \in Nat
  BY LoopTypes, Sizes DEF IInv, ArgumentsInv
<1>3. x \in Positions /\ i < length /\ Turn(x, amount)
  BY <1>1, <1>2 DEF Positions, Turn
<1>4. FirstBlock(x) = currentblock /\ FirstOffset(x) - offsetinblock = x - (start_in_bytes + done)
  BY <1>3, TurnInBlock
<1>5. FirstOffset(x) \in 0 .. BlockSize - 1
  BY <1>3, PositionInBlock
<1>6. offsetinblock + i - done = FirstOffset(x)
  BY <1>2, <1>4, <1>5
<1>7. read.block[FirstOffset(x)] = StoredByte(rawstore[Key(currentblock)], FirstOffset(x))
  BY <1>1, <1>5, ReadOutcome
<1> QED
  BY <1>3, <1>4, <1>6, <1>7 DEF ByteAt

LEMMA ReadOneImplements ==
  ASSUME IInv, Fits, ContractInv, ReadOne
  PROVE  (Contract!Fill \/ Contract!ReturnError) /\ ContractInv'
<1> DEFINE amount == Clip(offsetinblock + (length - done)) - offsetinblock
           copied(block) == [i \in DOMAIN data |->
                               IF done <= i /\ i < done + amount
                                 THEN block[offsetinblock + i - done] ELSE data[i]]
<1>1. pc = "read" /\ length <= BufSize /\ done < length /\ rawstore' = rawstore
  BY DEF ReadOne
<1>2. End32(offsetinblock, length - done) = offsetinblock + (length - done)
  BY <1>1, ReadWriteEnd
<1>3. currentblock \in Blocks /\ amount \in Nat
  BY <1>1, LoopStep DEF IInv
<1>4. PICK read \in read_one_block(Key(currentblock)) :
        \/ ~read.ok /\ Return("error") /\ UNCHANGED data
        \/ /\ read.ok
           /\ data' = copied(read.block)
           /\ NextBlock(amount)
           /\ UNCHANGED <<pc, args, discard_range, ret>>
  BY <1>2 DEF ReadOne, Key
<1>5. CASE ~read.ok /\ Return("error") /\ UNCHANGED data
  <2>1. MayFail
    BY <1>3, <1>5, ReadOutcome
  <2> QED
    BY <1>1, <1>5, <2>1, StepIsReturnError, ReturnKeepsContractInv
<1>6. CASE /\ read.ok
           /\ data' = copied(read.block)
           /\ NextBlock(amount)
           /\ UNCHANGED <<pc, args, discard_range, ret>>
  <2>1. /\ data \in DataType /\ data' \in DataType /\ DOMAIN data = 0 .. BufSize - 1
        /\ start_in_bytes \in Nat /\ done \in Nat /\ length \in Nat /\ BufSize \in Nat
    BY ReadOneKeepsInv, LoopTypes, Sizes DEF IInv, Types, DataType
  <2>2. /\ pc' = "read" /\ start_in_bytes' = start_in_bytes /\ done' = done + amount
    BY <1>1, <1>6 DEF NextBlock, args
  <2>3. ASSUME NEW i \in 0 .. BufSize - 1, done <= i, i < done + amount
        PROVE  /\ start_in_bytes + i \in Positions /\ i < length
               /\ data'[i] = ByteAt(rawstore, start_in_bytes + i)
    <3>1. i \in Int
      BY <2>1
    <3>2. data'[i] = read.block[offsetinblock + i - done]
      BY <1>6, <2>1, <2>3
    <3> HIDE DEF amount
    <3> QED
      BY <1>1, <1>6, <2>3, <3>1, <3>2, ReadOneCopies DEF amount
  <2>4. ASSUME NEW i \in 0 .. BufSize - 1, ~(done <= i /\ i < done + amount)
        PROVE  data'[i] = data[i]
    BY <1>6, <2>1, <2>4
  <2> HIDE DEF amount
  <2>5. Contract!Fill
    <3>1. \A i \in 0 .. BufSize - 1 :
            data'[i] # data[i] => i < length /\ start_in_bytes + i \in Positions
                                    /\ data'[i] = ByteAt(rawstore, start_in_bytes + i)
      BY <2>3, <2>4
    <3> QED
      BY <1>1, <1>6, <2>1, <3>1, StepIsFill
  <2>6. ASSUME NEW x \in Positions, start_in_bytes <= x, x < start_in_bytes + (done + amount)
        PROVE  ByteAt(rawstore, x) = data'[x - start_in_bytes]
    <3> DEFINE i == x - start_in_bytes
    <3>1. x \in Int
      BY Sizes DEF Positions
    <3>2. amount \in Nat /\ amount <= length - done
      BY <1>1, LoopStep DEF IInv, amount
    <3>3. i \in 0 .. BufSize - 1 /\ start_in_bytes + i = x /\ i < done + amount
      BY <1>1, <2>1, <2>6, <3>1, <3>2
    <3>4. CASE done <= i
      BY <2>3, <3>3, <3>4
    <3>5. CASE ~(done <= i)
      <4>1. Passed(x)
        BY <2>1, <2>6, <3>1, <3>5 DEF Passed
      <4>2. ByteAt(rawstore, x) = data[i]
        BY <1>1, <4>1 DEF ContractInv, CopiedInv
      <4> QED
        BY <2>4, <3>3, <3>5, <4>2
    <3> QED
      BY <3>4, <3>5
  <2>7. ContractInv'
    BY <1>1, <2>2, <2>6 DEF ContractInv, CopiedInv, ZeroedInv, DeletedInv, IdleInv, Passed
  <2> QED
    BY <2>5, <2>7
<1> QED
  BY <1>4, <1>5, <1>6

-----------------------------------------------------------------------------
(***************************************************************************)
(* Write_block, and the partial blocks of Discard_block                    *)
(***************************************************************************)
\* A turn that updates one block with what is wanted there.
LEMMA UpdateImplements ==
  ASSUME IInv, Fits, pc \in {"write", "discard"}, done < length, data' = data,
         NEW amount, amount = Clip(offsetinblock + (length - done)) - offsetinblock,
         NEW src, NEW pos \in Nat, Updated(amount, src, pos),
         \A x \in Positions : Turn(x, amount) =>
           src[pos + (x - (start_in_bytes + done))] = Wanted(x),
         \/ Return("error") /\ MayFail
         \/ NextBlock(amount) /\ UNCHANGED <<pc, args, discard_range, ret>>
  PROVE  /\ Contract!Change \/ Contract!ReturnError
         /\ pc' # "idle" => \A x \in Positions :
              /\ Turn(x, amount) => ByteAt(rawstore', x) = Wanted(x)
              /\ ~Turn(x, amount) => ByteAt(rawstore', x) = ByteAt(rawstore, x)
<1>1. ChangesWanted
  <2>1. ASSUME NEW x \in Positions, Turn(x, amount) PROVE InRange(x)
    BY <2>1, TurnInBlock DEF InRange
  <2> QED
    BY <2>1 DEF ChangesWanted, Updated
<1>2. CASE Return("error") /\ MayFail
  BY <1>1, <1>2, StepIsReturnError DEF Return
<1>3. CASE NextBlock(amount) /\ UNCHANGED <<pc, args, discard_range, ret>>
  <2>1. Contract!Change
    BY <1>1, <1>3, StepIsChange
  <2> QED
    BY <2>1 DEF Updated
<1> QED
  BY <1>2, <1>3

LEMMA WriteOneImplements ==
  ASSUME IInv, Fits, ContractInv, WriteOne
  PROVE  (Contract!Change \/ Contract!ReturnError) /\ ContractInv'
<1> DEFINE amount == Clip(offsetinblock + (length - done)) - offsetinblock
<1>1. pc = "write" /\ length <= BufSize /\ done < length /\ data' = data
  BY DEF WriteOne, IInv, ArgumentsInv
<1>2. UpdateBlock(data, done)
  BY <1>1, ReadWriteEnd DEF WriteOne, UpdateBlock, Key
<1>3. /\ done \in Nat /\ start_in_bytes \in Nat /\ length \in Nat
      /\ amount \in Nat /\ amount <= length - done
  BY <1>1, LoopTypes, LoopStep DEF IInv
<1>4. ASSUME NEW i \in Int, done <= i, i < done + (length - done)
      PROVE  data[i] \in Byte \union {Junk}
  <2>1. i \in 0 .. BufSize - 1
    BY <1>1, <1>3, <1>4, Sizes
  <2> QED
    BY <2>1 DEF IInv, Types
<1> HIDE DEF amount
<1>5. /\ Updated(amount, data, done)
      /\ \/ Return("error") /\ MayFail
         \/ NextBlock(amount) /\ UNCHANGED <<pc, args, discard_range, ret>>
  BY <1>1, <1>2, <1>3, <1>4, UpdateOutcome DEF amount
<1>6. ASSUME NEW x \in Positions
      PROVE  data[done + (x - (start_in_bytes + done))] = Wanted(x)
  <2>1. x \in Int
    BY Sizes DEF Positions
  <2>2. done + (x - (start_in_bytes + done)) = x - start_in_bytes
    BY <1>3, <2>1
  <2> QED
    BY <1>1, <2>2 DEF Wanted
<1>7. /\ Contract!Change \/ Contract!ReturnError
      /\ pc' # "idle" => \A x \in Positions :
           /\ Turn(x, amount) => ByteAt(rawstore', x) = Wanted(x)
           /\ ~Turn(x, amount) => ByteAt(rawstore', x) = ByteAt(rawstore, x)
  BY <1>1, <1>3, <1>5, <1>6, UpdateImplements DEF amount
<1>8. ContractInv'
  <2>1. CASE Return("error")
    BY <2>1, ReturnKeepsContractInv
  <2>2. CASE NextBlock(amount) /\ UNCHANGED <<pc, args, discard_range, ret>>
    <3>1. /\ pc' = "write" /\ start_in_bytes' = start_in_bytes /\ done' = done + amount
      BY <1>1, <2>2 DEF NextBlock, args
    <3>2. ASSUME NEW x \in Positions, start_in_bytes <= x, x < start_in_bytes + (done + amount)
          PROVE  ByteAt(rawstore', x) = data[x - start_in_bytes]
      <4>1. CASE Turn(x, amount)
        BY <1>1, <1>7, <3>1, <4>1 DEF Wanted
      <4>2. CASE ~Turn(x, amount)
        <5>1. x \in Int
          BY Sizes DEF Positions
        <5>2. Passed(x)
          BY <1>3, <3>2, <4>2, <5>1 DEF Turn, Passed
        <5> QED
          BY <1>1, <1>7, <3>1, <4>2, <5>2 DEF ContractInv, CopiedInv
      <4> QED
        BY <4>1, <4>2
    <3> QED
      BY <1>1, <3>1, <3>2 DEF ContractInv, CopiedInv, ZeroedInv, DeletedInv, IdleInv, Passed
  <2> QED
    BY <1>5, <2>1, <2>2
<1> QED
  BY <1>7, <1>8

LEMMA DiscardPartialImplements ==
  ASSUME IInv, Fits, ContractInv, DiscardPartial
  PROVE  (Contract!Change \/ Contract!ReturnError) /\ ContractInv'
<1> DEFINE amount == Clip(offsetinblock + (length - done)) - offsetinblock
<1>1. pc = "discard" /\ done < length /\ data' = data
  BY DEF DiscardPartial
<1>2. UpdateBlock(ZeroBlock, 0)
  BY DEF DiscardPartial, End64, UpdateBlock, prefetch, Key
<1>3. /\ done \in Nat /\ start_in_bytes \in Nat /\ length \in Nat
      /\ amount \in Nat /\ amount <= length - done
      /\ offsetinblock \in Nat /\ offsetinblock + amount <= BlockSize
  BY <1>1, LoopTypes, LoopStep DEF IInv
<1>4. ASSUME NEW i \in Int, 0 <= i, i < 0 + BlockSize
      PROVE  ZeroBlock[i] \in Byte \union {Junk}
  <2>1. i \in 0 .. BlockSize - 1
    BY <1>4, Sizes
  <2> QED
    BY <2>1, ZeroBlockType DEF Block
<1> HIDE DEF amount
<1>5. /\ Updated(amount, ZeroBlock, 0)
      /\ \/ Return("error") /\ MayFail
         \/ NextBlock(amount) /\ UNCHANGED <<pc, args, discard_range, ret>>
  BY <1>1, <1>2, <1>4, UpdateOutcome DEF amount
<1>6. ASSUME NEW x \in Positions, Turn(x, amount)
      PROVE  ZeroBlock[0 + (x - (start_in_bytes + done))] = Wanted(x)
  <2>1. x \in Int /\ BlockSize \in Nat
    BY Sizes DEF Positions
  <2>2. 0 + (x - (start_in_bytes + done)) \in 0 .. BlockSize - 1
    BY <1>3, <1>6, <2>1 DEF Turn
  <2> QED
    BY <1>1, <2>2 DEF Wanted, ZeroBlock
<1>7. /\ Contract!Change \/ Contract!ReturnError
      /\ pc' # "idle" => \A x \in Positions :
           /\ Turn(x, amount) => ByteAt(rawstore', x) = Wanted(x)
           /\ ~Turn(x, amount) => ByteAt(rawstore', x) = ByteAt(rawstore, x)
  BY <1>1, <1>5, <1>6, UpdateImplements DEF amount
<1>8. ContractInv'
  <2>1. CASE Return("error")
    BY <2>1, ReturnKeepsContractInv
  <2>2. CASE NextBlock(amount) /\ UNCHANGED <<pc, args, discard_range, ret>>
    <3>1. /\ pc' = "discard" /\ start_in_bytes' = start_in_bytes /\ done' = done + amount
          /\ discard_range_start' = discard_range_start
          /\ discard_range_end' = discard_range_end
      BY <1>1, <2>2 DEF NextBlock, args, discard_range
    <3>2. ASSUME NEW x \in Positions, start_in_bytes <= x, x < start_in_bytes + (done + amount)
          PROVE  ByteAt(rawstore', x) = Zero \/ Gathered(FirstBlock(x))
      <4>1. CASE Turn(x, amount)
        BY <1>1, <1>7, <3>1, <4>1 DEF Wanted
      <4>2. CASE ~Turn(x, amount)
        <5>1. x \in Int
          BY Sizes DEF Positions
        <5>2. Passed(x)
          BY <1>3, <3>2, <4>2, <5>1 DEF Turn, Passed
        <5> QED
          BY <1>1, <1>7, <3>1, <4>2, <5>2 DEF ContractInv, ZeroedInv
      <4> QED
        BY <4>1, <4>2
    <3> QED
      BY <1>1, <3>1, <3>2 DEF ContractInv, CopiedInv, ZeroedInv, DeletedInv, IdleInv, Passed,
                              Gathered
  <2> QED
    BY <1>5, <2>1, <2>2
<1> QED
  BY <1>7, <1>8

-----------------------------------------------------------------------------
(***************************************************************************)
(* The whole blocks of Discard_block                                       *)
(***************************************************************************)
LEMMA DiscardWholeImplements ==
  ASSUME IInv, ContractInv, DiscardWhole
  PROVE  Contract!Change /\ ContractInv'
<1> DEFINE amount == Clip(offsetinblock + (length - done)) - offsetinblock
<1>1. /\ pc = "discard" /\ done < length /\ pc' = "discard" /\ rawstore' = rawstore
      /\ NextBlock(amount)
      /\ UNCHANGED <<args, data, ret>>
      /\ discard_range_start' = IF discard_range_start = -1 THEN currentblock
                                                            ELSE discard_range_start
      /\ discard_range_end' = currentblock
  BY DEF DiscardWhole, End64
<1>2. /\ amount \in Nat /\ done \in Nat /\ start_in_bytes \in Nat /\ currentblock \in Nat
      /\ discard_range_start \in Int /\ discard_range_end \in Int
  BY <1>1, LoopTypes, LoopStep DEF IInv
<1> HIDE DEF amount
<1>3. start_in_bytes' = start_in_bytes /\ done' = done + amount
  BY <1>1 DEF NextBlock, args
<1>4. Contract!Change
  BY <1>1, StepIsChange DEF ChangesWanted
<1>5. ASSUME NEW x \in Positions, start_in_bytes <= x, x < start_in_bytes + (done + amount)
      PROVE  ByteAt(rawstore, x) = Zero \/ Gathered(FirstBlock(x))'
  <2> DEFINE b == FirstBlock(x)
  <2>1. b \in Nat /\ x \in Int
    BY PositionInBlock, Sizes DEF Positions
  <2>2. /\ discard_range_end < currentblock
        /\ discard_range_start # -1 => discard_range_start <= discard_range_end
    BY <1>1 DEF IInv, DiscardRangeInv, DeletesOnlyWholeBlocks
  <2>3. CASE Turn(x, amount)
    <3>1. b = currentblock
      BY <1>1, <2>3, TurnInBlock DEF amount
    <3> HIDE DEF b
    <3> QED
      BY <1>1, <1>2, <2>2, <3>1 DEF Gathered, b
  <2>4. CASE ~Turn(x, amount)
    <3>1. Passed(x)
      BY <1>2, <1>5, <2>1, <2>4 DEF Turn, Passed
    <3>2. ByteAt(rawstore, x) = Zero \/ Gathered(b)
      BY <1>1, <3>1 DEF ContractInv, ZeroedInv
    <3> HIDE DEF b
    <3>3. Gathered(b) => /\ discard_range_start' # -1 /\ discard_range_start' <= b
                         /\ b <= discard_range_end'
      BY <1>1, <1>2, <2>1, <2>2 DEF Gathered
    <3> QED
      BY <3>2, <3>3 DEF Gathered, b
  <2> QED
    BY <2>3, <2>4
<1>6. ContractInv'
  BY <1>1, <1>3, <1>5 DEF ContractInv, CopiedInv, ZeroedInv, DeletedInv, IdleInv, Passed
<1> QED
  BY <1>4, <1>6

LEMMA DoneHasPassed ==
  ASSUME IInv, pc \in {"read", "write", "discard"}, done >= length,
         NEW x, InRange(x)
  PROVE  Passed(x)
<1>1. done = length
  BY LoopTypes DEF IInv, LoopPosition
<1> QED
  BY <1>1 DEF InRange, Passed

LEMMA StartDeletingImplements ==
  ASSUME IInv, ContractInv, StartDeleting
  PROVE  Contract!Change /\ ContractInv'
<1>1. /\ pc = "discard" /\ done >= length /\ pc' = "delete" /\ rawstore' = rawstore
      /\ start_in_bytes' = start_in_bytes /\ length' = length
      /\ discard_range_end' = discard_range_end
      /\ currentblock' = discard_range_start
      /\ UNCHANGED <<args, data, ret>>
  BY DEF StartDeleting, args, discard_range
<1>2. Contract!Change
  BY <1>1, StepIsChange DEF ChangesWanted
<1>3. ASSUME NEW x \in Positions, InRange(x)
      PROVE  \/ ByteAt(rawstore, x) = Zero
             \/ discard_range_start <= FirstBlock(x) /\ FirstBlock(x) <= discard_range_end
  BY <1>1, <1>3, DoneHasPassed DEF ContractInv, ZeroedInv, Gathered
<1>4. ContractInv'
  BY <1>1, <1>3 DEF ContractInv, CopiedInv, ZeroedInv, DeletedInv, IdleInv, InRange
<1> QED
  BY <1>2, <1>4

\* The block to be deleted lies wholly in the range of the call.
LEMMA DeletedIsInRange ==
  ASSUME IInv, pc = "delete", currentblock <= discard_range_end,
         NEW x \in Positions, FirstBlock(x) = currentblock
  PROVE  InRange(x)
<1> DEFINE first == discard_range_start * BlockSize
           here == currentblock * BlockSize
           next == (currentblock + 1) * BlockSize
           beyond == (discard_range_end + 1) * BlockSize
<1>1. /\ discard_range_start # -1 /\ discard_range_start <= currentblock
      /\ start_in_bytes <= first /\ beyond <= start_in_bytes + length
  BY LoopTypes DEF IInv, DiscardRangeInv, DeletesOnlyWholeBlocks
<1>2. /\ discard_range_start \in Int /\ discard_range_end \in Int /\ currentblock \in Nat
      /\ start_in_bytes \in Nat /\ length \in Nat
  BY LoopTypes DEF IInv
<1>3. /\ first \in Int /\ here \in Int /\ next \in Int /\ beyond \in Int
      /\ next = here + BlockSize
      /\ (discard_range_start + 1) * BlockSize = first + BlockSize
  BY <1>2, BlockPositions
<1>4. first <= here
  <2> DEFINE after == (discard_range_start + 1) * BlockSize
  <2>1. after = first + BlockSize
    BY <1>3
  <2>2. discard_range_start = currentblock => first = here
    OBVIOUS
  <2>3. ASSUME NEW a \in Int, NEW b \in Int PROVE a < b => (a + 1) * BlockSize <= b * BlockSize
    BY BlockPositions
  <2>4. currentblock \in Int
    BY <1>2
  <2>5. discard_range_start < currentblock => after <= here
    BY <1>2, <2>3, <2>4, Zenon
  <2> HIDE DEF first, here, after
  <2> QED
    BY <1>1, <1>2, <1>3, <2>1, <2>2, <2>5, Sizes
<1>5. next <= beyond
  <2> DEFINE second == ((currentblock + 1) + 1) * BlockSize
  <2>1. currentblock + 1 < discard_range_end + 1 => second <= beyond
    BY <1>2, BlockPositions
  <2>2. second = next + BlockSize
    BY <1>2, BlockPositions
  <2>3. currentblock = discard_range_end => next = beyond
    OBVIOUS
  <2> HIDE DEF next, beyond, second
  <2> QED
    BY <1>2, <1>3, <2>1, <2>2, <2>3, Sizes
<1>6. FirstOffset(x) \in 0 .. BlockSize - 1 /\ here + FirstOffset(x) = x
  BY PositionInBlock
<1> HIDE DEF first, here, next, beyond
<1> QED
  BY <1>1, <1>2, <1>3, <1>4, <1>5, <1>6, Sizes DEF InRange

LEMMA DeleteOneImplements ==
  ASSUME IInv, Fits, "delete" \notin Faulty, ContractInv, DeleteOne
  PROVE  Contract!Change /\ ContractInv'
<1>1. /\ pc = "delete" /\ currentblock <= discard_range_end
      /\ rawstore' = [rawstore EXCEPT ![Key(currentblock)] = Absent]
      /\ currentblock' = currentblock + 1
      /\ UNCHANGED <<pc, args, data, discard_range, ret>>
  BY DEF DeleteOne, Key
<1>2. currentblock \in Blocks
  <2> DEFINE last == (DeviceSize - 1) \div BlockSize
  <2>1. Blocks = 0 .. last
    BY DEF Blocks
  <2>2. /\ discard_range_start \in 0 .. last /\ discard_range_end \in 0 .. last
        /\ discard_range_start <= currentblock /\ currentblock \in Nat
    BY <1>1, <2>1, LoopTypes DEF IInv, Types, DiscardRangeInv
  <2>3. last \in Int
    BY Sizes
  <2> HIDE DEF last
  <2> QED
    BY <1>1, <2>1, <2>2, <2>3
<1>3. \A x \in Positions :
        ByteAt(rawstore', x) = IF FirstBlock(x) = currentblock THEN Zero ELSE ByteAt(rawstore, x)
  <2>1. Types /\ DeviceSizeFits
    BY DEF IInv, Fits
  <2>2. ASSUME NEW j PROVE StoredByte(Absent, j) = Zero
    BY DEF StoredByte
  <2>3. ASSUME NEW x \in Positions
        PROVE  ByteAt([rawstore EXCEPT ![Key(currentblock)] = Absent], x)
                 = IF FirstBlock(x) = currentblock THEN StoredByte(Absent, FirstOffset(x))
                   ELSE ByteAt(rawstore, x)
    BY <1>2, <2>1, ByteAfterPut
  <2> QED
    BY <1>1, <2>2, <2>3
<1>4. ChangesWanted
  BY <1>1, <1>3, DeletedIsInRange DEF ChangesWanted, Wanted
<1>5. Contract!Change
  BY <1>1, <1>4, StepIsChange
<1>6. /\ pc' = "delete" /\ start_in_bytes' = start_in_bytes /\ length' = length
      /\ discard_range_end' = discard_range_end
  BY <1>1 DEF args, discard_range
<1>7. ASSUME NEW x \in Positions, InRange(x)
      PROVE  \/ ByteAt(rawstore', x) = Zero
             \/ currentblock + 1 <= FirstBlock(x) /\ FirstBlock(x) <= discard_range_end
  <2>1. CASE FirstBlock(x) = currentblock
    BY <1>3, <2>1
  <2>2. CASE FirstBlock(x) # currentblock
    <3>1. ByteAt(rawstore', x) = ByteAt(rawstore, x)
      BY <1>3, <2>2
    <3>2. \/ ByteAt(rawstore, x) = Zero
          \/ currentblock <= FirstBlock(x) /\ FirstBlock(x) <= discard_range_end
      BY <1>1, <1>7 DEF ContractInv, DeletedInv
    <3>3. FirstBlock(x) \in Nat /\ currentblock \in Nat
      BY PositionInBlock, LoopTypes
    <3>4. currentblock <= FirstBlock(x) => currentblock + 1 <= FirstBlock(x)
      BY <2>2, <3>3
    <3> QED
      BY <3>1, <3>2, <3>4
  <2> QED
    BY <2>1, <2>2
<1>8. ContractInv'
  BY <1>1, <1>6, <1>7 DEF ContractInv, CopiedInv, ZeroedInv, DeletedInv, IdleInv, InRange
<1> QED
  BY <1>5, <1>8

-----------------------------------------------------------------------------
(***************************************************************************)
(* The returns                                                             *)
(***************************************************************************)
LEMMA ReturnsImplement ==
  ASSUME IInv, ContractInv,
         ReadTooLong \/ ReadDone \/ WriteDone \/ DiscardNothingWhole \/ DeleteDone
  PROVE  (Contract!ReturnOk \/ Contract!ReturnError) /\ ContractInv'
<1>1. CASE ReadTooLong
  <2>1. pc = "read" /\ length > BufSize /\ Return("error") /\ UNCHANGED <<rawstore, data>>
    BY <1>1, LoopTypes, Sizes DEF ReadTooLong, IInv
  <2> QED
    BY <2>1, StepIsReturnError, ReturnKeepsContractInv
<1>2. CASE ReadDone
  <2>1. /\ pc = "read" /\ length <= BufSize /\ done >= length /\ Return("ok")
        /\ UNCHANGED <<rawstore, data>>
    BY <1>2 DEF ReadDone
  <2>2. \A x \in Positions : InRange(x) => ByteAt(rawstore, x) = data[x - start_in_bytes]
    BY <2>1, DoneHasPassed DEF ContractInv, CopiedInv
  <2> QED
    BY <2>1, <2>2, StepIsReturnOk, ReturnKeepsContractInv
<1>3. CASE WriteDone
  <2>1. /\ pc = "write" /\ done >= length /\ Return("ok")
        /\ UNCHANGED <<rawstore, data>>
    BY <1>3 DEF WriteDone
  <2>2. \A x \in Positions : InRange(x) => ByteAt(rawstore, x) = Wanted(x)
    BY <2>1, DoneHasPassed DEF ContractInv, CopiedInv, Wanted
  <2> QED
    BY <2>1, <2>2, StepIsReturnOk, ReturnKeepsContractInv
<1>4. CASE DiscardNothingWhole
  <2>1. /\ pc = "discard" /\ done >= length /\ discard_range_start = -1 /\ Return("ok")
        /\ UNCHANGED <<rawstore, data>>
    BY <1>4 DEF DiscardNothingWhole
  <2>2. \A x \in Positions : InRange(x) => ByteAt(rawstore, x) = Wanted(x)
    BY <2>1, DoneHasPassed DEF ContractInv, ZeroedInv, Gathered, Wanted
  <2> QED
    BY <2>1, <2>2, StepIsReturnOk, ReturnKeepsContractInv
<1>5. CASE DeleteDone
  <2>1. /\ pc = "delete" /\ currentblock > discard_range_end /\ Return("ok")
        /\ UNCHANGED <<rawstore, data>>
    BY <1>5 DEF DeleteDone
  <2>2. ASSUME NEW x \in Positions, InRange(x) PROVE ByteAt(rawstore, x) = Wanted(x)
    <3>1. FirstBlock(x) \in Nat /\ currentblock \in Nat /\ discard_range_end \in Int
      BY PositionInBlock, LoopTypes DEF IInv
    <3>2. ~(currentblock <= FirstBlock(x) /\ FirstBlock(x) <= discard_range_end)
      BY <2>1, <3>1
    <3> QED
      BY <2>1, <2>2, <3>2 DEF ContractInv, DeletedInv, Wanted
  <2> QED
    BY <2>1, <2>2, StepIsReturnOk, ReturnKeepsContractInv
<1> QED
  BY <1>1, <1>2, <1>3, <1>4, <1>5

-----------------------------------------------------------------------------
LEMMA InitImplements == Init => Contract!Init
<1> SUFFICES ASSUME Init PROVE Contract!Init
  OBVIOUS
<1>1. ASSUME NEW x \in 0 .. DeviceSize - 1 PROVE DiskByte(x) = Zero
  <2>1. Key(FirstBlock(x)) \in Keys
    BY PositionInBlock, KeyOfBlock DEF Positions, Key
  <2>2. rawstore[Key(FirstBlock(x))] = Absent
    BY <2>1 DEF Init
  <2> QED
    BY <2>2, DiskByteIsByteAt DEF ByteAt, StoredByte
<1>2. [x \in 0 .. DeviceSize - 1 |-> DiskByte(x)] \in [0 .. DeviceSize - 1 -> {Zero}]
  BY <1>1
<1>3. data \in [0 .. BufSize - 1 -> Byte] /\ ret = "none"
  BY ByteAssumption DEF Init
<1>4. pc = "idle" /\ start_in_bytes = 0 /\ length = 0
  BY DEF Init
<1>5. [op |-> IF pc = "delete" THEN "discard" ELSE pc, start |-> start_in_bytes,
       length |-> length] = Contract!NoCall
  BY <1>4 DEF Contract!NoCall
<1> QED
  BY <1>2, <1>3, <1>5 DEF Contract!Init, Contract!Buffer

LEMMA StepImplements ==
  ASSUME Fits, "delete" \notin Faulty, IInv, ContractInv, [Next]_vars
  PROVE  [Contract!Next]_(Contract!vars) /\ ContractInv'
<1>1. CASE SomeCall
  BY <1>1, CallIsIssue, CallKeepsContractInv DEF Contract!Next, ContractInv, IdleInv
<1>2. CASE ReadTooLong \/ ReadDone \/ WriteDone \/ DiscardNothingWhole \/ DeleteDone
  BY <1>2, ReturnsImplement DEF Contract!Next
<1>3. CASE ReadOne
  BY <1>3, ReadOneImplements DEF Contract!Next
<1>4. CASE WriteOne
  BY <1>4, WriteOneImplements DEF Contract!Next
<1>5. CASE DiscardPartial
  BY <1>5, DiscardPartialImplements DEF Contract!Next
<1>6. CASE DiscardWhole
  BY <1>6, DiscardWholeImplements DEF Contract!Next
<1>7. CASE StartDeleting
  BY <1>7, StartDeletingImplements DEF Contract!Next
<1>8. CASE DeleteOne
  BY <1>8, DeleteOneImplements DEF Contract!Next
<1>9. CASE UNCHANGED vars
  <2>1. /\ rawstore' = rawstore /\ pc' = pc /\ start_in_bytes' = start_in_bytes
        /\ length' = length /\ data' = data /\ ret' = ret /\ currentblock' = currentblock
        /\ done' = done /\ discard_range_start' = discard_range_start
        /\ discard_range_end' = discard_range_end
    BY <1>9 DEF vars, args, loop, discard_range
  <2>2. ContractInv'
    BY <2>1 DEF ContractInv, CopiedInv, ZeroedInv, DeletedInv, IdleInv, Passed, InRange, Gathered
  <2>3. [x \in 0 .. DeviceSize - 1 |-> DiskByte(x)]' = [x \in 0 .. DeviceSize - 1 |-> DiskByte(x)]
    BY <2>1, DiskByteIsByteAt
  <2>4. UNCHANGED Contract!vars
    BY <2>1, <2>3 DEF Contract!vars
  <2> QED
    BY <2>2, <2>4
<1> QED
  BY <1>1, <1>2, <1>3, <1>4, <1>5, <1>6, <1>7, <1>8, <1>9 DEF Next, Step

\* Read_block, Write_block and Discard_block keep the contract of a storage
\* mechanism: outside the range of a call no byte changes, inside it a byte
\* takes the value asked for or keeps its own, and a call that returns
\* success has done all of it, whichever of the calls below it fail.  Only
\* Delete must not: the code drops its result.
THEOREM StreeImplementsStorageMechanism ==
  ASSUME PipelineFits, DeviceSizeFits, "delete" \notin Faulty
  PROVE  Spec => ImplementsStorageMechanism
<1>1. IInv /\ ContractInv /\ [Next]_vars => [Contract!Next]_(Contract!vars) /\ ContractInv'
  BY StepImplements DEF Fits
<1> QED
  BY <1>1, InitImplements, InitContractInv, Invariance, NextKeepsInv, PTL
  DEF Spec, ImplementsStorageMechanism, Contract!Spec
=============================================================================
