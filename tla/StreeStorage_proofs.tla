------------------------ MODULE StreeStorage_proofs ------------------------
(***************************************************************************)
(* The loops of the stree storage mechanism stay inside their range, for   *)
(* every block size, device size, buffer size, pipeline and set of         *)
(* faults; a discard deletes only what lies wholly inside its range, and,  *)
(* if deletes do not fail, all of that before it returns success.          *)
(***************************************************************************)
EXTENDS StreeStorage, BlockArithmetic_proofs

-----------------------------------------------------------------------------
(***************************************************************************)
(* Arithmetic of blocks.                                                   *)
(***************************************************************************)
\* A block that starts inside the device is one of its blocks.
LEMMA BlockInDevice ==
  ASSUME NEW c \in Nat, c * BlockSize < DeviceSize
  PROVE  c \in Blocks
<1> DEFINE last == (DeviceSize - 1) \div BlockSize
<1>1. /\ last \in Nat
      /\ DeviceSize - 1 < (last + 1) * BlockSize
  BY BlockSizeAssumption, DeviceSizeAssumption
<1>2. c * BlockSize < (last + 1) * BlockSize
  BY <1>1, BlockSizeAssumption, DeviceSizeAssumption
<1>3. ~(last + 1 <= c)
  <2> SUFFICES ASSUME last + 1 <= c PROVE FALSE
    OBVIOUS
  <2>1. (last + 1) * BlockSize <= c * BlockSize
    BY <1>1, BlockSizeAssumption
  <2> QED
    BY <2>1, <1>1, <1>2, BlockSizeAssumption
<1> QED
  BY <1>1, <1>3 DEF Blocks

\* The uint32 sums of reads and writes never overflow.
LEMMA End32Exact ==
  ASSUME NEW o \in 0 .. BlockSize - 1, NEW left \in 0 .. BufSize
  PROVE  End32(o, left) = o + left
  BY BlockSizeAssumption, BufSizeAssumption, U32Assumption DEF End32

-----------------------------------------------------------------------------
(***************************************************************************)
(* The inductive invariant.                                                *)
(***************************************************************************)
\* The arguments describe a range of the device.  The kernel sends no more
\* bytes to write than the buffer holds.
ArgumentsInv ==
  /\ start_in_bytes + length <= DeviceSize
  /\ pc = "write" => length <= BufSize

\* The blocks to delete are behind the loop that gathers them, and the loop
\* that deletes them runs through them.
DiscardRangeInv ==
  /\ discard_range_start = -1 <=> discard_range_end = -1
  /\ pc \in {"idle", "read", "write"} => discard_range_start = -1
  /\ pc = "discard" => discard_range_end < currentblock
  /\ pc = "delete" =>
       /\ discard_range_start # -1
       /\ discard_range_start <= currentblock
       /\ currentblock <= discard_range_end + 1

IInv ==
  /\ Types
  /\ ArgumentsInv
  /\ LoopPosition
  /\ DiscardRangeInv
  /\ DeletesOnlyWholeBlocks

-----------------------------------------------------------------------------
(***************************************************************************)
(* Types of what the helpers compute.                                      *)
(***************************************************************************)
Block == [0 .. BlockSize - 1 -> Byte \union {Junk}]

LEMMA PipedInType ==
  ASSUME NEW b \in Block
  PROVE  PipedIn(b) \in StoredBlocks
  BY DEF PipedIn, StoredBlocks, Block

LEMMA PipedOutType ==
  ASSUME NEW s \in StoredBlocks
  PROVE  PipedOut(s) \in Block
<1>1. s.bytes \in Block
  BY DEF StoredBlocks, Block
<1>2. [j \in DOMAIN s.bytes |-> Junk] \in Block
  BY <1>1 DEF Block
<1> QED
  BY <1>1, <1>2 DEF PipedOut

LEMMA ZeroBlockType == ZeroBlock \in Block
  BY ByteAssumption DEF ZeroBlock, Block

\* A block that is read is a block, whether it is there or not.
LEMMA ReadType ==
  ASSUME Types, NEW key \in Keys, NEW r \in read_one_block(key)
  PROVE  r.block \in Block
<1>1. rawstore[key] # Absent => rawstore[key] \in StoredBlocks
  BY DEF Types
<1>2. rawstore[key] # Absent => PipedOut(rawstore[key]) \in Block
  BY <1>1, PipedOutType
<1>3. \/ r = [ok |-> FALSE, block |-> ZeroBlock]
      \/ /\ rawstore[key] = Absent
         /\ r = [ok |-> TRUE, block |-> ZeroBlock]
      \/ /\ rawstore[key] # Absent
         /\ r = [ok |-> TRUE, block |-> PipedOut(rawstore[key])]
  BY Zenon DEF read_one_block
<1> QED
  BY <1>2, <1>3, ZeroBlockType

LEMMA PrefetchType ==
  ASSUME Types, NEW key \in Keys, NEW partial \in BOOLEAN,
         NEW r \in prefetch(key, partial)
  PROVE  r.block \in Block
<1>1. CASE partial
  BY <1>1, ReadType DEF prefetch
<1>2. CASE ~partial
  BY <1>2, ZeroBlockType DEF prefetch
<1> QED
  BY <1>1, <1>2

\* Whatever the outcome of a write, the stree holds stored blocks.
LEMMA WriteType ==
  ASSUME Types, NEW key \in Keys, NEW b \in Block, NEW w \in write_one_block(key, b)
  PROVE  w.store \in [Keys -> StoredBlocks \union {Absent}]
<1>1. PipedIn(b) \in StoredBlocks
  BY PipedInType
<1>2. [rawstore EXCEPT ![key] = PipedIn(b)] \in [Keys -> StoredBlocks \union {Absent}]
  BY <1>1 DEF Types
<1> QED
  BY <1>2 DEF write_one_block, Types

\* Replacing bytes from..to-1 of a block needs only that many source bytes.
LEMMA OverlayType ==
  ASSUME NEW b \in Block, NEW from \in Nat, NEW to \in Int, NEW src, NEW pos \in Nat,
         \A i \in Int : pos <= i /\ i < pos + (to - from) => src[i] \in Byte \union {Junk}
  PROVE  Overlay(b, from, to, src, pos) \in Block
<1>1. ASSUME NEW j \in 0 .. BlockSize - 1, from <= j, j < to
      PROVE  src[pos + j - from] \in Byte \union {Junk}
  <2>1. pos + j - from \in Int /\ pos <= pos + j - from /\ pos + j - from < pos + (to - from)
    BY <1>1, BlockSizeAssumption
  <2> QED
    BY <2>1
<1>2. ASSUME NEW j \in 0 .. BlockSize - 1
      PROVE  b[j] \in Byte \union {Junk}
  BY DEF Block
<1> QED
  BY <1>1, <1>2 DEF Overlay, Block

LEMMA KeyOfBlock ==
  ASSUME NEW b \in Blocks
  PROVE  Generate_key_from_block_num(b) \in Keys
  BY DEF Keys

\* The block a loop stands at, before it has reached the end of its range, is
\* a block of the device, and the bytes it takes there advance it to the next
\* block's first byte or to the end of the range.
LEMMA LoopStep ==
  ASSUME Types, ArgumentsInv, LoopPosition,
         pc \in {"read", "write", "discard"}, done < length,
         NEW amount, amount = Clip(offsetinblock + (length - done)) - offsetinblock
  PROVE  /\ currentblock * BlockSize + offsetinblock = start_in_bytes + done
         /\ currentblock \in Blocks
         /\ amount \in Nat /\ amount <= length - done
         /\ offsetinblock + amount <= BlockSize
         /\ \/ (currentblock + 1) * BlockSize = start_in_bytes + (done + amount)
            \/ /\ done + amount = length
               /\ (currentblock + 1) * BlockSize >= start_in_bytes + (done + amount)
<1> DEFINE c == currentblock
           cb == currentblock * BlockSize
<1>0. /\ currentblock \in Nat /\ offsetinblock \in Nat /\ offsetinblock < BlockSize
      /\ done \in Nat /\ length \in Nat /\ start_in_bytes \in Nat
      /\ BlockSize \in Nat /\ BlockSize > 0 /\ cb \in Nat
      /\ start_in_bytes + length <= DeviceSize /\ DeviceSize \in Nat
  BY BlockSizeAssumption, DeviceSizeAssumption, U32Assumption DEF Types, ArgumentsInv
<1>1. cb + offsetinblock = start_in_bytes + done
  BY <1>0 DEF LoopPosition
<1>2. cb < DeviceSize
  BY <1>0, <1>1
<1>3. currentblock \in Blocks
  BY <1>0, <1>2, BlockInDevice
<1>4. (currentblock + 1) * BlockSize = cb + BlockSize
  BY <1>0, NextBlockStart
<1> HIDE DEF cb
<1>5. /\ amount \in Nat /\ amount <= length - done
      /\ offsetinblock + amount <= BlockSize
      /\ \/ cb + BlockSize = start_in_bytes + (done + amount)
         \/ /\ done + amount = length
            /\ cb + BlockSize >= start_in_bytes + (done + amount)
  <2>1. CASE offsetinblock + (length - done) > BlockSize
    BY <1>0, <1>1, <2>1 DEF Clip
  <2>2. CASE ~(offsetinblock + (length - done) > BlockSize)
    BY <1>0, <1>1, <2>2 DEF Clip
  <2> QED
    BY <2>1, <2>2
<1> QED
  BY <1>1, <1>3, <1>4, <1>5 DEF cb

-----------------------------------------------------------------------------
(***************************************************************************)
(* Every step keeps the invariant.  Three ways to end a step come back in  *)
(* many actions: return from the call, go on to the next block, and change *)
(* nothing but the stree.                                                  *)
(***************************************************************************)
Stree == [Keys -> StoredBlocks \union {Absent}]

DataType == [0 .. BufSize - 1 -> Byte \union {Junk}]

LEMMA ReturnKeepsInv ==
  ASSUME IInv, NEW result \in {"ok", "error"}, Return(result),
         rawstore' \in Stree, data' \in DataType
  PROVE  IInv'
<1>1. Types'
  BY BlockSizeAssumption, DeviceSizeAssumption, U32Assumption
  DEF Types, Return, Stree, DataType
<1>2. ArgumentsInv'
  BY DeviceSizeAssumption DEF Return, ArgumentsInv
<1>3. LoopPosition' /\ DiscardRangeInv' /\ DeletesOnlyWholeBlocks'
  BY DEF Return, LoopPosition, DiscardRangeInv, DeletesOnlyWholeBlocks
<1> QED
  BY <1>1, <1>2, <1>3 DEF IInv

LEMMA NextBlockKeepsInv ==
  ASSUME IInv, pc \in {"read", "write", "discard"}, done < length,
         NEW amount, amount = Clip(offsetinblock + (length - done)) - offsetinblock,
         NextBlock(amount), UNCHANGED <<pc, args, discard_range, ret>>,
         rawstore' \in Stree, data' \in DataType
  PROVE  IInv'
<1>1. /\ amount \in Nat /\ amount <= length - done
      /\ \/ (currentblock + 1) * BlockSize = start_in_bytes + (done + amount)
         \/ /\ done + amount = length
            /\ (currentblock + 1) * BlockSize >= start_in_bytes + (done + amount)
  BY LoopStep DEF IInv
<1>2. /\ currentblock \in Nat /\ done \in Nat /\ length \in Nat
      /\ length < U32 /\ U32 \in Nat /\ start_in_bytes \in Nat
  BY U32Assumption, DeviceSizeAssumption DEF IInv, Types
<1>3. /\ currentblock' = currentblock + 1 /\ offsetinblock' = 0
      /\ done' = done + amount
      /\ pc' = pc /\ start_in_bytes' = start_in_bytes /\ length' = length
      /\ discard_range_start' = discard_range_start
      /\ discard_range_end' = discard_range_end /\ ret' = ret
  BY DEF NextBlock, args, discard_range
<1>4. Types'
  <2>1. done' \in 0 .. U32 - 1 /\ currentblock' \in Nat
    BY <1>1, <1>2, <1>3
  <2>2. offsetinblock' \in 0 .. BlockSize - 1
    BY <1>3, BlockSizeAssumption
  <2> QED
    BY <1>3, <2>1, <2>2 DEF IInv, Types, Stree, DataType
<1>5. ArgumentsInv'
  BY <1>3 DEF IInv, ArgumentsInv
<1>6. LoopPosition'
  <2> DEFINE cb == (currentblock + 1) * BlockSize
  <2>1. cb \in Int
    BY <1>2, BlockSizeAssumption
  <2>2. currentblock' * BlockSize = cb
    BY <1>3
  <2> HIDE DEF cb
  <2>3. done + amount <= length
    BY <1>1, <1>2
  <2>4. \/ cb = start_in_bytes + (done + amount)
        \/ done + amount = length /\ cb >= start_in_bytes + (done + amount)
    BY <1>1 DEF cb
  <2> QED
    BY <1>2, <1>3, <2>1, <2>2, <2>3, <2>4 DEF LoopPosition
<1>7. DiscardRangeInv'
  <2>1. discard_range_end \in Int /\ discard_range_start \in Int
    BY BlockSizeAssumption, DeviceSizeAssumption DEF IInv, Types, Blocks
  <2> QED
    BY <1>2, <1>3, <2>1 DEF IInv, DiscardRangeInv
<1>8. DeletesOnlyWholeBlocks'
  BY <1>3 DEF IInv, DeletesOnlyWholeBlocks
<1> QED
  BY <1>4, <1>5, <1>6, <1>7, <1>8 DEF IInv

LEMMA InitInv == Init => IInv
<1> SUFFICES ASSUME Init PROVE IInv
  OBVIOUS
<1>1. Types
  BY BlockSizeAssumption, DeviceSizeAssumption, U32Assumption, ByteAssumption
  DEF Init, Types
<1>2. ArgumentsInv
  BY DeviceSizeAssumption DEF Init, ArgumentsInv
<1>3. LoopPosition /\ DiscardRangeInv /\ DeletesOnlyWholeBlocks
  BY DEF Init, LoopPosition, DiscardRangeInv, DeletesOnlyWholeBlocks
<1> QED
  BY <1>1, <1>2, <1>3 DEF IInv

LEMMA CallKeepsInv ==
  ASSUME IInv, NEW op \in {"read", "write", "discard"},
         NEW start \in 0 .. DeviceSize - 1, NEW len \in 0 .. DeviceSize,
         NEW buffer \in Buffer, Call(op, start, len, buffer)
  PROVE  IInv'
<1>1. /\ start \in Nat /\ FirstBlock(start) \in Nat
      /\ FirstOffset(start) \in 0 .. BlockSize - 1
      /\ FirstBlock(start) * BlockSize + FirstOffset(start) = start
  BY FirstBlockAndOffset, DeviceSizeAssumption
<1>2. Types'
  <2>1. length' \in 0 .. U32 - 1 /\ done' \in 0 .. U32 - 1
    BY DeviceSizeAssumption, U32Assumption DEF Call
  <2>2. buffer \in DataType
    BY DEF Buffer, DataType
  <2> QED
    BY <1>1, <2>1, <2>2 DEF Call, IInv, Types, DataType
<1>3. ArgumentsInv'
  BY DEF Call, ArgumentsInv
<1>4. LoopPosition'
  BY <1>1, DeviceSizeAssumption DEF Call, LoopPosition
<1>5. DiscardRangeInv' /\ DeletesOnlyWholeBlocks'
  BY <1>1 DEF Call, DiscardRangeInv, DeletesOnlyWholeBlocks
<1> QED
  BY <1>2, <1>3, <1>4, <1>5 DEF IInv

\* The two uint32 ends of a read or a write are the exact ones.
LEMMA ReadWriteEnd ==
  ASSUME IInv, pc \in {"read", "write"}, length <= BufSize, done < length
  PROVE  End32(offsetinblock, length - done) = offsetinblock + (length - done)
<1>1. length - done \in 0 .. BufSize
  BY BufSizeAssumption, U32Assumption DEF IInv, Types
<1> QED
  BY <1>1, End32Exact DEF IInv, Types

LEMMA ReadOneKeepsInv == IInv /\ ReadOne => IInv'
<1> SUFFICES ASSUME IInv, ReadOne PROVE IInv'
  OBVIOUS
<1> DEFINE key == Generate_key_from_block_num(currentblock)
           amount == Clip(offsetinblock + (length - done)) - offsetinblock
<1>1. pc = "read" /\ length <= BufSize /\ done < length /\ rawstore' = rawstore
  BY DEF ReadOne
<1>2. End32(offsetinblock, length - done) = offsetinblock + (length - done)
  BY <1>1, ReadWriteEnd
<1>3. /\ currentblock \in Blocks /\ amount \in Nat
      /\ offsetinblock + amount <= BlockSize
  BY <1>1, LoopStep DEF IInv
<1>4. key \in Keys
  BY <1>3, KeyOfBlock
<1>5. rawstore' \in Stree /\ data \in DataType
  BY <1>1 DEF IInv, Types, Stree, DataType
<1>6. PICK read \in read_one_block(key) :
        \/ Return("error") /\ UNCHANGED data
        \/ /\ data' = [i \in DOMAIN data |->
                         IF done <= i /\ i < done + amount
                           THEN read.block[offsetinblock + i - done] ELSE data[i]]
           /\ NextBlock(amount)
           /\ UNCHANGED <<pc, args, discard_range, ret>>
  BY <1>2 DEF ReadOne
<1>7. CASE Return("error") /\ UNCHANGED data
  BY <1>5, <1>7, ReturnKeepsInv
<1>8. CASE /\ data' = [i \in DOMAIN data |->
                         IF done <= i /\ i < done + amount
                           THEN read.block[offsetinblock + i - done] ELSE data[i]]
           /\ NextBlock(amount)
           /\ UNCHANGED <<pc, args, discard_range, ret>>
  <2>1. read.block \in Block
    BY <1>4, ReadType DEF IInv
  <2>2. ASSUME NEW i \in 0 .. BufSize - 1, done <= i, i < done + amount
        PROVE  read.block[offsetinblock + i - done] \in Byte \union {Junk}
    <3>1. offsetinblock + i - done \in 0 .. BlockSize - 1
      BY <1>3, <2>2, BlockSizeAssumption, BufSizeAssumption, U32Assumption DEF IInv, Types
    <3> QED
      BY <2>1, <3>1 DEF Block
  <2>3. data' \in DataType
    BY <1>5, <1>8, <2>2 DEF DataType
  <2> QED
    BY <1>1, <1>5, <1>8, <2>3, NextBlockKeepsInv
<1> QED
  BY <1>6, <1>7, <1>8

LEMMA WriteOneKeepsInv == IInv /\ WriteOne => IInv'
<1> SUFFICES ASSUME IInv, WriteOne PROVE IInv'
  OBVIOUS
<1> DEFINE key == Generate_key_from_block_num(currentblock)
           absoluteend == offsetinblock + (length - done)
           end == Clip(absoluteend)
           partial == IsPartial(offsetinblock, absoluteend)
<1>1. pc = "write" /\ length <= BufSize /\ done < length /\ data' = data
  BY DEF WriteOne, IInv, ArgumentsInv
<1>2. End32(offsetinblock, length - done) = absoluteend
  BY <1>1, ReadWriteEnd
<1>3. /\ currentblock \in Blocks
      /\ end - offsetinblock \in Nat /\ end - offsetinblock <= length - done
  BY <1>1, LoopStep DEF IInv
<1>4. key \in Keys
  BY <1>3, KeyOfBlock
<1>5. rawstore \in Stree /\ data' \in DataType
  BY <1>1 DEF IInv, Types, Stree, DataType
<1>6. PICK old \in prefetch(key, partial) :
        \/ Return("error") /\ UNCHANGED rawstore
        \/ \E new \in write_one_block(key,
                        Overlay(old.block, offsetinblock, end, data, done)) :
             /\ rawstore' = new.store
             /\ \/ Return("error")
                \/ /\ NextBlock(end - offsetinblock)
                   /\ UNCHANGED <<pc, args, discard_range, ret>>
  BY <1>2 DEF WriteOne
<1>7. CASE Return("error") /\ UNCHANGED rawstore
  BY <1>5, <1>7, ReturnKeepsInv
<1>8. CASE \E new \in write_one_block(key,
                        Overlay(old.block, offsetinblock, end, data, done)) :
             /\ rawstore' = new.store
             /\ \/ Return("error")
                \/ /\ NextBlock(end - offsetinblock)
                   /\ UNCHANGED <<pc, args, discard_range, ret>>
  <2> DEFINE written == Overlay(old.block, offsetinblock, end, data, done)
  <2>1. old.block \in Block
    BY <1>4, PrefetchType DEF IInv, IsPartial
  <2>2. ASSUME NEW i \in Int, done <= i, i < done + (end - offsetinblock)
        PROVE  data[i] \in Byte \union {Junk}
    <3>1. i \in 0 .. BufSize - 1
      BY <1>1, <1>3, <2>2, BufSizeAssumption, U32Assumption DEF IInv, Types
    <3> QED
      BY <3>1 DEF IInv, Types
  <2>3. offsetinblock \in Nat /\ done \in Nat /\ end \in Int
    BY <1>3, BlockSizeAssumption, U32Assumption DEF IInv, Types, Clip
  <2>4. written \in Block
    BY <2>1, <2>2, <2>3, OverlayType
  <2>5. rawstore' \in Stree
    BY <1>4, <1>8, <2>4, WriteType DEF IInv, Stree
  <2>6. CASE Return("error")
    BY <1>5, <2>5, <2>6, ReturnKeepsInv
  <2>7. CASE /\ NextBlock(end - offsetinblock)
             /\ UNCHANGED <<pc, args, discard_range, ret>>
    BY <1>1, <1>5, <2>5, <2>7, NextBlockKeepsInv
  <2> QED
    BY <1>8, <2>6, <2>7
<1> QED
  BY <1>6, <1>7, <1>8

LEMMA DiscardPartialKeepsInv == IInv /\ DiscardPartial => IInv'
<1> SUFFICES ASSUME IInv, DiscardPartial PROVE IInv'
  OBVIOUS
<1> DEFINE key == Generate_key_from_block_num(currentblock)
           end == Clip(offsetinblock + (length - done))
<1>1. pc = "discard" /\ done < length /\ data' = data
  BY DEF DiscardPartial
<1>2. /\ currentblock \in Blocks
      /\ end - offsetinblock \in Nat
      /\ offsetinblock + (end - offsetinblock) <= BlockSize
  BY <1>1, LoopStep DEF IInv
<1>3. key \in Keys
  BY <1>2, KeyOfBlock
<1>4. rawstore \in Stree /\ data' \in DataType
  BY <1>1 DEF IInv, Types, Stree, DataType
<1>5. PICK old \in read_one_block(key) :
        \/ Return("error") /\ UNCHANGED rawstore
        \/ \E new \in write_one_block(key,
                        Overlay(old.block, offsetinblock, end, ZeroBlock, 0)) :
             /\ rawstore' = new.store
             /\ \/ Return("error")
                \/ /\ NextBlock(end - offsetinblock)
                   /\ UNCHANGED <<pc, args, discard_range, ret>>
  BY DEF DiscardPartial, End64
<1>6. CASE Return("error") /\ UNCHANGED rawstore
  BY <1>4, <1>6, ReturnKeepsInv
<1>7. CASE \E new \in write_one_block(key,
                        Overlay(old.block, offsetinblock, end, ZeroBlock, 0)) :
             /\ rawstore' = new.store
             /\ \/ Return("error")
                \/ /\ NextBlock(end - offsetinblock)
                   /\ UNCHANGED <<pc, args, discard_range, ret>>
  <2> DEFINE zeroed == Overlay(old.block, offsetinblock, end, ZeroBlock, 0)
  <2>1. old.block \in Block
    BY <1>3, ReadType DEF IInv
  <2>2. offsetinblock \in Nat /\ end \in Int
    BY <1>2, BlockSizeAssumption, U32Assumption DEF IInv, Types, Clip
  <2>3. ASSUME NEW i \in Int, 0 <= i, i < 0 + (end - offsetinblock)
        PROVE  ZeroBlock[i] \in Byte \union {Junk}
    <3>1. i \in 0 .. BlockSize - 1
      BY <1>2, <2>2, <2>3, BlockSizeAssumption
    <3> QED
      BY <3>1, ZeroBlockType DEF Block
  <2>4. zeroed \in Block
    BY <2>1, <2>2, <2>3, OverlayType
  <2>5. rawstore' \in Stree
    BY <1>3, <1>7, <2>4, WriteType DEF IInv, Stree
  <2>6. CASE Return("error")
    BY <1>4, <2>5, <2>6, ReturnKeepsInv
  <2>7. CASE /\ NextBlock(end - offsetinblock)
             /\ UNCHANGED <<pc, args, discard_range, ret>>
    BY <1>1, <1>4, <2>5, <2>7, NextBlockKeepsInv
  <2> QED
    BY <1>7, <2>6, <2>7
<1> QED
  BY <1>5, <1>6, <1>7

LEMMA DiscardWholeKeepsInv == IInv /\ DiscardWhole => IInv'
<1> SUFFICES ASSUME IInv, DiscardWhole PROVE IInv'
  OBVIOUS
<1> DEFINE amount == Clip(offsetinblock + (length - done)) - offsetinblock
<1>1. /\ pc = "discard" /\ pc' = pc /\ done < length /\ NextBlock(amount)
      /\ ~IsPartial(offsetinblock, offsetinblock + (length - done))
      /\ start_in_bytes' = start_in_bytes /\ length' = length
      /\ rawstore' = rawstore /\ data' = data /\ ret' = ret
      /\ discard_range_end' = currentblock
      /\ discard_range_start' = IF discard_range_start = -1 THEN currentblock
                                                            ELSE discard_range_start
  BY DEF DiscardWhole, End64, args
<1>2. /\ currentblock \in Nat /\ done \in Nat /\ length \in Nat /\ offsetinblock \in Nat
      /\ length < U32 /\ U32 \in Nat /\ start_in_bytes \in Nat
      /\ BlockSize \in Nat /\ BlockSize > 0
  BY BlockSizeAssumption, U32Assumption, DeviceSizeAssumption DEF IInv, Types
\* The block is covered from its first byte to its last.
<1>3. offsetinblock = 0 /\ length - done >= BlockSize /\ amount = BlockSize
  BY <1>1, <1>2 DEF IsPartial, Clip
<1>4. /\ currentblock * BlockSize + offsetinblock = start_in_bytes + done
      /\ currentblock \in Blocks
  BY <1>1, LoopStep DEF IInv
<1>5. (currentblock + 1) * BlockSize = currentblock * BlockSize + BlockSize
  BY <1>2, NextBlockStart
<1>6. /\ currentblock' = currentblock + 1 /\ offsetinblock' = 0
      /\ done' = done + BlockSize
  BY <1>1, <1>3 DEF NextBlock
<1>7. /\ currentblock * BlockSize = start_in_bytes + done
      /\ (currentblock + 1) * BlockSize = start_in_bytes + (done + BlockSize)
  <2> DEFINE cb == currentblock * BlockSize
  <2>1. cb \in Int
    BY <1>2
  <2> HIDE DEF cb
  <2>2. cb + 0 = start_in_bytes + done
    BY <1>3, <1>4 DEF cb
  <2>3. cb = start_in_bytes + done
    BY <1>2, <2>1, <2>2
  <2>4. cb + BlockSize = start_in_bytes + (done + BlockSize)
    BY <1>2, <2>3
  <2> QED
    BY <1>5, <2>3, <2>4 DEF cb
<1>8. Types'
  <2>1. done' \in 0 .. U32 - 1 /\ currentblock' \in Nat
    BY <1>2, <1>3, <1>6
  <2>2. offsetinblock' \in 0 .. BlockSize - 1
    BY <1>2, <1>6
  <2> QED
    BY <1>1, <1>4, <2>1, <2>2 DEF IInv, Types
<1>9. ArgumentsInv'
  BY <1>1 DEF IInv, ArgumentsInv
<1>10. LoopPosition'
  <2>1. currentblock' * BlockSize = start_in_bytes' + done'
    BY <1>1, <1>6, <1>7
  <2>2. currentblock' * BlockSize + offsetinblock' = start_in_bytes' + done'
    BY <1>1, <1>2, <1>6, <2>1
  <2>3. done' <= length'
    BY <1>1, <1>2, <1>3, <1>6
  <2> QED
    BY <2>2, <2>3 DEF LoopPosition
<1>11. /\ discard_range_end \in Int /\ discard_range_start \in Int
       /\ discard_range_start # -1 =>
            /\ discard_range_start <= currentblock
            /\ start_in_bytes <= discard_range_start * BlockSize
  <2>1. discard_range_end \in Int /\ discard_range_start \in Int
    BY BlockSizeAssumption, DeviceSizeAssumption DEF IInv, Types, Blocks
  <2> QED
    BY <1>1, <1>2, <2>1 DEF IInv, DiscardRangeInv, DeletesOnlyWholeBlocks
<1>12. DiscardRangeInv'
  BY <1>1, <1>2, <1>6, <1>11 DEF DiscardRangeInv
<1>13. DeletesOnlyWholeBlocks'
  <2>1. discard_range_start' <= discard_range_end'
    BY <1>1, <1>2, <1>11
  <2>2. start_in_bytes' <= discard_range_start' * BlockSize
    BY <1>1, <1>2, <1>7, <1>11
  <2>3. (discard_range_end' + 1) * BlockSize <= start_in_bytes' + length'
    BY <1>1, <1>2, <1>3, <1>7
  <2> QED
    BY <2>1, <2>2, <2>3 DEF DeletesOnlyWholeBlocks
<1> QED
  BY <1>8, <1>9, <1>10, <1>12, <1>13 DEF IInv

LEMMA StartDeletingKeepsInv == IInv /\ StartDeleting => IInv'
<1> SUFFICES ASSUME IInv, StartDeleting PROVE IInv'
  OBVIOUS
<1>1. discard_range_start \in Blocks /\ Blocks \subseteq Nat
  BY BlockSizeAssumption, DeviceSizeAssumption DEF StartDeleting, IInv, Types, Blocks
<1>2. discard_range_end \in Int
  BY BlockSizeAssumption, DeviceSizeAssumption DEF IInv, Types, Blocks
<1>3. Types'
  BY <1>1 DEF IInv, Types, StartDeleting, args, discard_range
<1>4. ArgumentsInv' /\ LoopPosition' /\ DeletesOnlyWholeBlocks'
  BY DEF IInv, StartDeleting, args, discard_range, ArgumentsInv, LoopPosition,
         DeletesOnlyWholeBlocks
<1>5. DiscardRangeInv'
  BY <1>1, <1>2 DEF IInv, StartDeleting, args, discard_range, DiscardRangeInv,
                    DeletesOnlyWholeBlocks
<1> QED
  BY <1>3, <1>4, <1>5 DEF IInv

LEMMA DeleteOneKeepsInv == IInv /\ DeleteOne => IInv'
<1> SUFFICES ASSUME IInv, DeleteOne PROVE IInv'
  OBVIOUS
<1>1. currentblock \in Nat /\ discard_range_end \in Int /\ discard_range_start \in Int
  BY BlockSizeAssumption, DeviceSizeAssumption DEF IInv, Types, Blocks
<1>2. currentblock' = currentblock + 1 /\ currentblock <= discard_range_end /\ pc = "delete"
  BY DEF DeleteOne
<1>3. rawstore' \in Stree
  BY DEF DeleteOne, IInv, Types, Stree
<1>4. Types'
  BY <1>1, <1>2, <1>3 DEF DeleteOne, IInv, Types, args, discard_range, Stree
<1>5. ArgumentsInv' /\ LoopPosition' /\ DeletesOnlyWholeBlocks'
  BY DEF IInv, DeleteOne, args, discard_range, ArgumentsInv, LoopPosition,
         DeletesOnlyWholeBlocks
<1>6. DiscardRangeInv'
  BY <1>1, <1>2 DEF IInv, DeleteOne, args, discard_range, DiscardRangeInv
<1> QED
  BY <1>4, <1>5, <1>6 DEF IInv

LEMMA NextKeepsInv == IInv /\ [Next]_vars => IInv'
<1> SUFFICES ASSUME IInv, [Next]_vars PROVE IInv'
  OBVIOUS
<1> DEFINE Returning == /\ Return("ok") \/ Return("error")
                        /\ UNCHANGED <<rawstore, data>>
<1>1. CASE Returning
  BY <1>1, ReturnKeepsInv DEF IInv, Types, Stree, DataType
<1>2. CASE SomeCall
  BY <1>2, CallKeepsInv DEF SomeCall
<1>3. CASE ReadTooLong \/ ReadDone \/ WriteDone \/ DiscardNothingWhole \/ DeleteDone
  BY <1>1, <1>3 DEF ReadTooLong, ReadDone, WriteDone, DiscardNothingWhole, DeleteDone
<1>4. CASE ReadOne
  BY <1>4, ReadOneKeepsInv
<1>5. CASE WriteOne
  BY <1>5, WriteOneKeepsInv
<1>6. CASE DiscardPartial
  BY <1>6, DiscardPartialKeepsInv
<1>7. CASE DiscardWhole
  BY <1>7, DiscardWholeKeepsInv
<1>8. CASE StartDeleting
  BY <1>8, StartDeletingKeepsInv
<1>9. CASE DeleteOne
  BY <1>9, DeleteOneKeepsInv
<1>10. CASE UNCHANGED vars
  BY <1>10 DEF vars, args, loop, discard_range, IInv, Types, ArgumentsInv,
               LoopPosition, DiscardRangeInv, DeletesOnlyWholeBlocks
<1> QED
  BY <1>2, <1>3, <1>4, <1>5, <1>6, <1>7, <1>8, <1>9, <1>10 DEF Next, Step

LEMMA Invariance == Spec => []IInv
  BY InitInv, NextKeepsInv, PTL DEF Spec

\* The variables of Read_block, Write_block and Discard_block keep their
\* types, and every block that one of their loops still has to read, store or
\* delete is one of the device's.
THEOREM TypeCorrect == Spec => []TypeOK
<1>1. IInv => TypeOK
  <2> SUFFICES ASSUME IInv, AtABlock PROVE currentblock \in Blocks
    BY DEF IInv, TypeOK
  <2>1. CASE pc \in {"read", "write", "discard"} /\ done < length
    BY <2>1, LoopStep DEF IInv
  <2>2. CASE pc = "delete" /\ currentblock <= discard_range_end
    <3>1. currentblock \in Nat /\ discard_range_end \in Blocks \union {-1}
      BY DEF IInv, Types
    <3> QED
      BY <2>2, <3>1, BlockSizeAssumption, DeviceSizeAssumption DEF Blocks
  <2> QED
    BY <2>1, <2>2 DEF AtABlock
<1> QED
  BY <1>1, Invariance, PTL

\* The loops of Read_block, Write_block and Discard_block never lose their
\* place in the range, whatever its alignment.
THEOREM LoopsKeepTheirPlace == Spec => []LoopPosition
<1>1. IInv => LoopPosition
  BY DEF IInv
<1> QED
  BY <1>1, Invariance, PTL

\* Discard_block deletes no block that is not wholly inside its range.
THEOREM DiscardsAreExact == Spec => []DeletesOnlyWholeBlocks
<1>1. IInv => DeletesOnlyWholeBlocks
  BY DEF IInv
<1> QED
  BY <1>1, Invariance, PTL

-----------------------------------------------------------------------------
(***************************************************************************)
(* Nothing was forgotten on the way: the blocks the loop has passed and    *)
(* that are covered whole are in the range to delete, and the part of the  *)
(* range that the deleting loop has passed is gone from the stree.  Only   *)
(* the first turn of a loop starts inside a block.                         *)
(***************************************************************************)
OnlyFirstOffset == offsetinblock > 0 => done = 0

Gathered(b) ==
  /\ discard_range_start # -1
  /\ discard_range_start <= b /\ b <= discard_range_end

CoveredAreGathered ==
  \A b \in Blocks :
    CoveredWhole(b) =>
      /\ pc = "discard" /\ b < currentblock => Gathered(b)
      /\ pc = "delete" => Gathered(b)

PassedAreDeleted ==
  pc = "delete" =>
    \A b \in Blocks :
      discard_range_start <= b /\ b < currentblock =>
        rawstore[Generate_key_from_block_num(b)] = Absent

FreesInv == OnlyFirstOffset /\ CoveredAreGathered /\ PassedAreDeleted

-----------------------------------------------------------------------------
(***************************************************************************)
(* Which blocks are covered whole.                                         *)
(***************************************************************************)
LEMMA BlockNumbers == Blocks \subseteq Nat
  BY BlockSizeAssumption, DeviceSizeAssumption DEF Blocks

\* The types of the loop's variables, as the arithmetic needs them.
LEMMA LoopTypes ==
  ASSUME IInv
  PROVE  /\ currentblock \in Nat /\ done \in Nat /\ length \in Nat
         /\ offsetinblock \in Nat /\ offsetinblock < BlockSize
         /\ start_in_bytes \in Nat /\ BlockSize \in Nat
         /\ discard_range_start \in Int /\ discard_range_end \in Int
  BY BlockSizeAssumption, U32Assumption, DeviceSizeAssumption DEF IInv, Types, Blocks

\* A block that the loop must read first is not covered whole.
LEMMA PartialIsNotCovered ==
  ASSUME IInv, OnlyFirstOffset, pc = "discard", done < length,
         IsPartial(offsetinblock, offsetinblock + (length - done))
  PROVE  ~CoveredWhole(currentblock)
<1> DEFINE first == currentblock * BlockSize
<1>1. first \in Int /\ (currentblock + 1) * BlockSize = first + BlockSize
  BY LoopTypes, BlockPositions
<1>2. first + offsetinblock = start_in_bytes + done
  BY LoopStep DEF IInv
<1> HIDE DEF first
<1>3. CASE offsetinblock > 0
  <2>1. done = 0
    BY <1>3 DEF OnlyFirstOffset
  <2>2. ~(start_in_bytes <= first)
    BY <1>1, <1>2, <1>3, <2>1, LoopTypes
  <2> QED
    BY <2>2 DEF CoveredWhole, first
<1>4. CASE offsetinblock + (length - done) < BlockSize
  <2>1. ~(first + BlockSize <= start_in_bytes + length)
    BY <1>1, <1>2, <1>4, LoopTypes
  <2> QED
    BY <1>1, <2>1 DEF CoveredWhole
<1> QED
  BY <1>3, <1>4 DEF IsPartial

\* When the loop is done it has passed every block that is covered whole.
LEMMA CoveredIsPassed ==
  ASSUME IInv, pc = "discard", done >= length, NEW b \in Blocks, CoveredWhole(b)
  PROVE  b < currentblock
<1> DEFINE here == currentblock * BlockSize
           beyond == (b + 1) * BlockSize
<1>1. b \in Int /\ here \in Int /\ beyond \in Int
  BY LoopTypes, BlockNumbers, BlockPositions
<1>2. (currentblock + 1) * BlockSize = here + BlockSize
  BY LoopTypes, BlockPositions
<1>3. currentblock < b + 1 => (currentblock + 1) * BlockSize <= beyond
  BY <1>1, LoopTypes, BlockPositions
<1>4. beyond <= start_in_bytes + length
  BY DEF CoveredWhole
<1>5. here + offsetinblock >= start_in_bytes + length
  <2>1. \/ here + offsetinblock = start_in_bytes + done
        \/ done = length /\ offsetinblock = 0 /\ here >= start_in_bytes + done
    BY DEF IInv, LoopPosition
  <2> HIDE DEF here
  <2> QED
    BY <1>1, <2>1, LoopTypes
<1> HIDE DEF here, beyond
<1>6. ~(currentblock < b + 1)
  BY <1>1, <1>2, <1>3, <1>4, <1>5, LoopTypes
<1> QED
  BY <1>1, <1>6, LoopTypes

-----------------------------------------------------------------------------
(***************************************************************************)
(* Every step keeps FreesInv.                                              *)
(***************************************************************************)
LEMMA InitFrees == Init => FreesInv
  BY DEF Init, FreesInv, OnlyFirstOffset, CoveredAreGathered, PassedAreDeleted

LEMMA ReturnKeepsFrees ==
  ASSUME NEW result, Return(result)
  PROVE  FreesInv'
  BY DEF Return, FreesInv, OnlyFirstOffset, CoveredAreGathered, PassedAreDeleted

LEMMA CallKeepsFrees ==
  ASSUME NEW op \in {"read", "write", "discard"},
         NEW start \in 0 .. DeviceSize - 1, NEW len \in 0 .. DeviceSize,
         NEW buffer \in Buffer, Call(op, start, len, buffer)
  PROVE  FreesInv'
<1>1. OnlyFirstOffset' /\ PassedAreDeleted'
  BY DEF Call, OnlyFirstOffset, PassedAreDeleted
\* No block before the first one of the range is covered.
<1>2. ASSUME NEW b \in Blocks, b < FirstBlock(start)
      PROVE  ~(start <= b * BlockSize)
  <2> DEFINE first == FirstBlock(start) * BlockSize
             beyond == (b + 1) * BlockSize
             here == b * BlockSize
  <2>1. /\ start \in Nat /\ FirstBlock(start) \in Nat /\ b \in Int
        /\ FirstOffset(start) \in Nat /\ first + FirstOffset(start) = start
    BY FirstBlockAndOffset, BlockNumbers, BlockSizeAssumption, DeviceSizeAssumption
  <2>2. here \in Int /\ first \in Int /\ beyond = here + BlockSize /\ beyond <= first
    BY <1>2, <2>1, BlockPositions
  <2> HIDE DEF first, beyond, here
  <2>3. here < start
    BY <2>1, <2>2, BlockSizeAssumption
  <2> QED
    BY <2>1, <2>2, <2>3 DEF here
<1>3. CoveredAreGathered'
  BY <1>2 DEF Call, CoveredAreGathered, CoveredWhole
<1> QED
  BY <1>1, <1>3 DEF FreesInv

\* A turn of the loop of a read or a write.
LEMMA NextBlockKeepsFrees ==
  ASSUME NEW amount, NextBlock(amount), pc' = pc, pc \in {"read", "write"}
  PROVE  FreesInv'
  BY DEF NextBlock, FreesInv, OnlyFirstOffset, CoveredAreGathered, PassedAreDeleted

LEMMA DiscardPartialKeepsFrees ==
  ASSUME IInv, FreesInv, DiscardPartial
  PROVE  FreesInv'
<1> DEFINE amount == Clip(End64(offsetinblock, length - done)) - offsetinblock
<1>1. \/ Return("error")
      \/ NextBlock(amount) /\ UNCHANGED <<pc, args, discard_range, ret>>
  BY DEF DiscardPartial
<1>2. CASE NextBlock(amount) /\ UNCHANGED <<pc, args, discard_range, ret>>
  <2>1. /\ pc = "discard" /\ pc' = pc
        /\ start_in_bytes' = start_in_bytes /\ length' = length
        /\ discard_range_start' = discard_range_start
        /\ discard_range_end' = discard_range_end
        /\ currentblock' = currentblock + 1 /\ offsetinblock' = 0
    BY <1>2 DEF DiscardPartial, NextBlock, args, discard_range
  <2>2. ~CoveredWhole(currentblock)
    BY PartialIsNotCovered DEF DiscardPartial, End64, FreesInv
  <2>3. ASSUME NEW b \in Blocks, CoveredWhole(b), b < currentblock + 1
        PROVE  Gathered(b)
    <3>1. b # currentblock
      BY <2>2, <2>3
    <3>2. b < currentblock
      BY <2>3, <3>1, LoopTypes, BlockNumbers
    <3> QED
      BY <2>1, <2>3, <3>2 DEF FreesInv, CoveredAreGathered
  <2>4. CoveredAreGathered'
    BY <2>1, <2>3 DEF CoveredAreGathered, CoveredWhole, Gathered
  <2> QED
    BY <2>1, <2>4 DEF FreesInv, OnlyFirstOffset, PassedAreDeleted
<1> QED
  BY <1>1, <1>2, ReturnKeepsFrees

LEMMA DiscardWholeKeepsFrees ==
  ASSUME IInv, FreesInv, DiscardWhole
  PROVE  FreesInv'
<1>1. /\ pc = "discard" /\ pc' = pc
      /\ start_in_bytes' = start_in_bytes /\ length' = length
      /\ currentblock' = currentblock + 1 /\ offsetinblock' = 0
      /\ discard_range_start' = IF discard_range_start = -1 THEN currentblock
                                                            ELSE discard_range_start
      /\ discard_range_end' = currentblock
  BY DEF DiscardWhole, NextBlock, args
<1>2. ASSUME NEW b \in Blocks, CoveredWhole(b), b < currentblock + 1
      PROVE  Gathered(b)'
  <2>1. b \in Nat
    BY BlockNumbers
  <2>2. CASE b < currentblock
    <3>1. Gathered(b)
      BY <1>1, <1>2, <2>2 DEF FreesInv, CoveredAreGathered
    <3> QED
      BY <1>1, <2>1, <2>2, <3>1, LoopTypes DEF Gathered
  <2>3. CASE b = currentblock
    <3>1. discard_range_start # -1 => discard_range_start <= currentblock
      BY <1>1, LoopTypes DEF IInv, DiscardRangeInv, DeletesOnlyWholeBlocks
    <3> QED
      BY <1>1, <2>1, <2>3, <3>1, LoopTypes DEF Gathered
  <2> QED
    BY <1>2, <2>1, <2>2, <2>3, LoopTypes
<1>3. CoveredAreGathered'
  BY <1>1, <1>2 DEF CoveredAreGathered, CoveredWhole
<1> QED
  BY <1>1, <1>3 DEF FreesInv, OnlyFirstOffset, PassedAreDeleted

LEMMA StartDeletingKeepsFrees ==
  ASSUME IInv, FreesInv, StartDeleting
  PROVE  FreesInv'
<1>1. /\ pc = "discard" /\ done >= length /\ pc' = "delete"
      /\ start_in_bytes' = start_in_bytes /\ length' = length
      /\ offsetinblock' = offsetinblock /\ done' = done
      /\ discard_range_start' = discard_range_start
      /\ discard_range_end' = discard_range_end
      /\ currentblock' = discard_range_start
  BY DEF StartDeleting, args, discard_range
<1>2. ASSUME NEW b \in Blocks, CoveredWhole(b)
      PROVE  Gathered(b)
  BY <1>1, <1>2, CoveredIsPassed DEF FreesInv, CoveredAreGathered
<1>3. CoveredAreGathered'
  BY <1>1, <1>2 DEF CoveredAreGathered, CoveredWhole, Gathered
<1>4. PassedAreDeleted'
  BY <1>1, BlockNumbers, LoopTypes DEF PassedAreDeleted
<1> QED
  BY <1>1, <1>3, <1>4 DEF FreesInv, OnlyFirstOffset

LEMMA DeleteOneKeepsFrees ==
  ASSUME IInv, FreesInv, DeleteOne, "delete" \notin Faulty
  PROVE  FreesInv'
<1> DEFINE key(b) == Generate_key_from_block_num(b)
<1>1. /\ pc = "delete" /\ pc' = pc /\ currentblock <= discard_range_end
      /\ start_in_bytes' = start_in_bytes /\ length' = length
      /\ offsetinblock' = offsetinblock /\ done' = done
      /\ discard_range_start' = discard_range_start
      /\ discard_range_end' = discard_range_end
      /\ currentblock' = currentblock + 1
      /\ rawstore' = [rawstore EXCEPT ![key(currentblock)] = Absent]
  BY DEF DeleteOne, args, discard_range
<1> HIDE DEF key
<1>2. CoveredAreGathered'
  BY <1>1 DEF FreesInv, CoveredAreGathered, CoveredWhole, Gathered
<1>3. ASSUME NEW b \in Blocks, discard_range_start <= b, b < currentblock + 1
      PROVE  rawstore'[key(b)] = Absent
  <2>1. key(b) \in Keys /\ DOMAIN rawstore = Keys
    BY KeyOfBlock DEF key, IInv, Types
  <2>2. CASE b = currentblock
    BY <1>1, <2>1, <2>2
  <2>3. CASE b # currentblock
    <3>1. b < currentblock
      BY <1>3, <2>3, BlockNumbers, LoopTypes
    <3>2. rawstore[key(b)] = Absent
      BY <1>1, <1>3, <3>1 DEF FreesInv, PassedAreDeleted, key
    <3> QED
      BY <1>1, <2>1, <3>2
  <2> QED
    BY <2>2, <2>3
<1>4. PassedAreDeleted'
  BY <1>1, <1>3 DEF PassedAreDeleted, key
<1> QED
  BY <1>1, <1>2, <1>4 DEF FreesInv, OnlyFirstOffset

LEMMA NextKeepsFrees ==
  ASSUME IInv, FreesInv, [Next]_vars, "delete" \notin Faulty
  PROVE  FreesInv'
<1>1. CASE SomeCall
  BY <1>1, CallKeepsFrees DEF SomeCall
<1>2. CASE ReadTooLong \/ ReadDone \/ WriteDone \/ DiscardNothingWhole \/ DeleteDone
  BY <1>2, ReturnKeepsFrees
  DEF ReadTooLong, ReadDone, WriteDone, DiscardNothingWhole, DeleteDone
<1>3. CASE ReadOne
  <2>1. \/ Return("error")
        \/ \E amount : NextBlock(amount) /\ pc' = pc /\ pc \in {"read", "write"}
    BY <1>3 DEF ReadOne
  <2> QED
    BY <2>1, ReturnKeepsFrees, NextBlockKeepsFrees
<1>4. CASE WriteOne
  <2>1. \/ Return("error")
        \/ \E amount : NextBlock(amount) /\ pc' = pc /\ pc \in {"read", "write"}
    BY <1>4 DEF WriteOne
  <2> QED
    BY <2>1, ReturnKeepsFrees, NextBlockKeepsFrees
<1>5. CASE DiscardPartial
  BY <1>5, DiscardPartialKeepsFrees
<1>6. CASE DiscardWhole
  BY <1>6, DiscardWholeKeepsFrees
<1>7. CASE StartDeleting
  BY <1>7, StartDeletingKeepsFrees
<1>8. CASE DeleteOne
  BY <1>8, DeleteOneKeepsFrees
<1>9. CASE UNCHANGED vars
  BY <1>9 DEF vars, args, loop, discard_range, FreesInv, OnlyFirstOffset,
              CoveredAreGathered, CoveredWhole, Gathered, PassedAreDeleted
<1> QED
  BY <1>1, <1>2, <1>3, <1>4, <1>5, <1>6, <1>7, <1>8, <1>9 DEF Next, Step

\* A discard returns success from two places; at both, every block that it
\* covers whole is gone.
LEMMA ReturningFrees ==
  ASSUME IInv, FreesInv, [Next]_vars, DiscardReturnsOk, NEW b \in Blocks, CoveredWhole(b)
  PROVE  rawstore'[Generate_key_from_block_num(b)] = Absent
<1>1. \/ DiscardNothingWhole
      \/ DeleteDone
  <2>1. ~UNCHANGED vars
    BY DEF DiscardReturnsOk, vars
  <2>2. ~SomeCall
    BY DEF DiscardReturnsOk, SomeCall, Call
  <2>3. ~(ReadTooLong \/ ReadOne \/ ReadDone \/ WriteOne \/ WriteDone)
    BY DEF DiscardReturnsOk, ReadTooLong, ReadOne, ReadDone, WriteOne, WriteDone
  <2>4. ~(DiscardWhole \/ StartDeleting \/ DeleteOne)
    BY DEF DiscardReturnsOk, DiscardWhole, StartDeleting, DeleteOne
  <2>5. ~DiscardPartial
    <3>1. DiscardPartial => Return("error") \/ pc' = pc
      BY DEF DiscardPartial
    <3> QED
      BY <3>1 DEF DiscardReturnsOk, Return
  <2> QED
    BY <2>1, <2>2, <2>3, <2>4, <2>5 DEF Next, Step
<1>2. ~DiscardNothingWhole
  <2> SUFFICES ASSUME DiscardNothingWhole PROVE FALSE
    OBVIOUS
  <2>1. pc = "discard" /\ done >= length /\ discard_range_start = -1
    BY DEF DiscardNothingWhole
  <2>2. Gathered(b)
    BY <2>1, CoveredIsPassed DEF FreesInv, CoveredAreGathered
  <2> QED
    BY <2>1, <2>2 DEF Gathered
<1>3. pc = "delete" /\ currentblock > discard_range_end /\ rawstore' = rawstore
  BY <1>1, <1>2 DEF DeleteDone
<1>4. discard_range_start <= b /\ b < currentblock
  <2>1. Gathered(b)
    BY <1>3 DEF FreesInv, CoveredAreGathered
  <2> QED
    BY <1>3, <2>1, LoopTypes, BlockNumbers DEF Gathered
<1> QED
  BY <1>3, <1>4 DEF FreesInv, PassedAreDeleted

\* Discard_block deletes every block that is wholly inside its range before
\* it returns success, provided that Delete does what it is asked: the code
\* does not look at its result, and without the proviso the run
\* stree_delete_fails refutes the property.
THEOREM DiscardsFreeWholeBlocks ==
  ASSUME "delete" \notin Faulty
  PROVE  Spec => FreesWholeBlocks
<1>1. Init => FreesInv
  BY InitFrees
<1>2. IInv /\ FreesInv /\ [Next]_vars => FreesInv'
  BY NextKeepsFrees
<1>3. IInv /\ FreesInv /\ [Next]_vars =>
        [DiscardReturnsOk =>
           \A b \in Blocks : CoveredWhole(b) =>
             rawstore'[Generate_key_from_block_num(b)] = Absent]_vars
  BY ReturningFrees
<1> QED
  BY <1>1, <1>2, <1>3, Invariance, PTL DEF Spec, FreesWholeBlocks
=============================================================================
