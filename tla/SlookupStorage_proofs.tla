----------------------- MODULE SlookupStorage_proofs -----------------------
(***************************************************************************)
(* The loops of the slookup storage mechanism, for every block size,       *)
(* device size, buffer size, pipeline and set of faults: they use entries  *)
(* of the device only, although the block number is a uint32, a discard    *)
(* empties only what lies wholly inside its range, and all of that before  *)
(* it returns success.                                                     *)
(***************************************************************************)
EXTENDS SlookupStorage, BlockArithmetic_proofs

-----------------------------------------------------------------------------
(***************************************************************************)
(* Block numbers: a device has fewer than 2^32 - 1 blocks, so nothing is   *)
(* lost when a number is cut to 32 bits, nor when it is incremented.       *)
(***************************************************************************)
LEMMA Sizes ==
  /\ BlockSize \in Nat /\ BlockSize > 0 /\ U32 \in Nat /\ BlockSize < U32
  /\ DeviceSize \in Nat /\ DeviceSize > 0 /\ DeviceSize <= (U32 - 1) * BlockSize
  /\ BufSize \in Nat /\ BufSize + BlockSize <= U32
<1>1. BlockSize \in Nat /\ BlockSize > 0 /\ U32 \in Nat /\ BlockSize < U32
  BY BlockSizeAssumption, U32Assumption
<1>2. (U32 - 1) * BlockSize \in Int
  BY <1>1
<1> QED
  BY <1>1, <1>2, SlookupDeviceSize, SlookupBufSize

\* The number of the block a position of the device is in.
LEMMA BlockNumberExact ==
  ASSUME NEW x \in 0 .. DeviceSize - 1
  PROVE  /\ FirstBlock(x) \in Nat /\ FirstBlock(x) < U32 - 1
         /\ BlockNumber(x) = FirstBlock(x)
<1> DEFINE b == FirstBlock(x)
           here == b * BlockSize
           limit == (U32 - 1) * BlockSize
<1>1. b \in Nat /\ FirstOffset(x) \in Nat /\ here + FirstOffset(x) = x
  BY FirstBlockAndOffset, Sizes
<1>2. here \in Int /\ limit \in Int
  BY <1>1, Sizes
<1>3. U32 - 1 < b => U32 * BlockSize <= here
  <2>1. U32 - 1 \in Int /\ (U32 - 1) + 1 = U32
    BY Sizes
  <2> QED
    BY <1>1, <2>1, BlockPositions
<1>4. U32 * BlockSize = limit + BlockSize
  BY Sizes
<1>5. b = U32 - 1 => here = limit
  OBVIOUS
<1>6. x < limit
  BY <1>2, Sizes
<1> HIDE DEF b, here, limit
<1>7. b < U32 - 1
  BY <1>1, <1>2, <1>3, <1>4, <1>5, <1>6, Sizes
<1>8. b % U32 = b
  BY <1>1, <1>7, Sizes
<1> QED
  BY <1>1, <1>7, <1>8 DEF b, BlockNumber

LEMMA BlockNumbers == \A b \in Blocks : b \in Nat /\ b < U32 - 1
  BY BlockNumberExact DEF Blocks

\* A block that starts inside the device is one of its blocks.
LEMMA BlockInDevice ==
  ASSUME NEW c \in Nat, c * BlockSize < DeviceSize
  PROVE  c \in Blocks
<1> DEFINE x == c * BlockSize
           b == FirstBlock(x)
<1>1. x \in 0 .. DeviceSize - 1
  BY Sizes
<1>2. /\ b \in Nat /\ FirstOffset(x) \in 0 .. BlockSize - 1
      /\ b * BlockSize + FirstOffset(x) = x
  BY <1>1, FirstBlockAndOffset
<1>3. (b + 1) * BlockSize = b * BlockSize + BlockSize /\ b * BlockSize \in Int
      /\ (c + 1) * BlockSize = c * BlockSize + BlockSize
  BY <1>2, BlockPositions
<1>4. b * BlockSize <= x /\ x < (b + 1) * BlockSize
  <2> HIDE DEF x, b
  <2> QED
    BY <1>1, <1>2, <1>3, Sizes
<1>5. c * BlockSize <= x /\ x < (c + 1) * BlockSize
  BY <1>1, <1>3, Sizes
<1>6. b = c
  <2> HIDE DEF b
  <2> QED
    BY <1>1, <1>2, <1>4, <1>5, BlockIsUnique
<1>7. BlockNumber(x) = c
  BY <1>1, <1>6, BlockNumberExact
<1> QED
  BY <1>1, <1>7 DEF Blocks

\* The uint32 sums of reads and writes never overflow.
LEMMA End32Exact ==
  ASSUME NEW o \in 0 .. BlockSize - 1, NEW left \in 0 .. BufSize
  PROVE  End32(o, left) = o + left
  BY Sizes DEF End32

-----------------------------------------------------------------------------
(***************************************************************************)
(* The inductive invariant.                                                *)
(***************************************************************************)
\* The arguments describe a range of the device.  The kernel sends no more
\* bytes to write than the buffer holds.
ArgumentsInv ==
  /\ start_in_bytes + length <= DeviceSize
  /\ pc = "write" => length <= BufSize

\* Where a loop stands: exactly done bytes into its range, or, when the
\* range is done, at the block after it.
LoopInv ==
  pc \in {"read", "write", "discard"} =>
    /\ done <= length
    /\ \/ currentblock * BlockSize + offsetinblock = start_in_bytes + done
       \/ done = length /\ offsetinblock = 0
          /\ currentblock * BlockSize >= start_in_bytes + done

\* What is gathered is behind the loop that gathers it.
DiscardRangeInv ==
  /\ discard_range_start = -1 <=> discard_range_end = -1
  /\ pc \in {"idle", "read", "write"} => discard_range_start = -1
  /\ pc = "discard" => discard_range_end < currentblock
  /\ pc = "delete" => discard_range_start # -1

IInv ==
  /\ Types
  /\ ArgumentsInv
  /\ LoopInv
  /\ DiscardRangeInv
  /\ EmptiesOnlyWholeBlocks

\* The types, as the arithmetic needs them.
LEMMA LoopTypes ==
  ASSUME Types
  PROVE  /\ currentblock \in Nat /\ currentblock < U32
         /\ done \in Nat /\ length \in Nat /\ length < U32
         /\ offsetinblock \in Nat /\ offsetinblock < BlockSize
         /\ start_in_bytes \in Nat
         /\ discard_range_start \in Int /\ discard_range_end \in Int
  BY Sizes, BlockNumbers DEF Types

-----------------------------------------------------------------------------
(***************************************************************************)
(* Types of what the helpers compute.                                      *)
(***************************************************************************)
Block == [0 .. BlockSize - 1 -> Byte \union {Junk}]

Entries == [Blocks -> StoredBlocks \union {Empty}]

DataType == [0 .. BufSize - 1 -> Byte \union {Junk}]

LEMMA PipedInType ==
  ASSUME NEW b \in Block
  PROVE  PipedIn(b) \in StoredBlocks
  BY DEF PipedIn, StoredBlocks, Block

LEMMA PipedOutType ==
  ASSUME NEW s, s.bytes \in Block
  PROVE  PipedOut(s) \in Block
<1>1. [j \in DOMAIN s.bytes |-> Junk] \in Block
  BY DEF Block
<1> QED
  BY <1>1 DEF PipedOut

LEMMA ZeroBlockType == ZeroBlock \in Block
  BY SlookupByte DEF ZeroBlock, Block

\* Whatever an entry holds, a read of it brings a block.
LEMMA ReadType ==
  ASSUME Types, NEW b \in Blocks, NEW r \in read_one_block(b)
  PROVE  r.block \in Block
<1> DEFINE entry == rawstore[b]
           empty == [bytes |-> ZeroBlock, layers |-> <<>>]
<1>1. entry # Empty => PipedOut(entry) \in Block
  <2>1. entry # Empty => entry.bytes \in Block
    BY DEF Types, StoredBlocks, Block
  <2> QED
    BY <2>1, PipedOutType
<1>2. PipedOut(empty) \in Block
  <2>1. empty.bytes \in Block
    BY ZeroBlockType
  <2> HIDE DEF empty
  <2> QED
    BY <2>1, PipedOutType
<1>3. \/ r = Failed(ZeroBlock)
      \/ entry # Empty /\ r = Got(PipedOut(entry))
      \/ r = Got(PipedOut(empty))
  <2>1. CASE entry # Empty
    BY <2>1 DEF read_one_block
  <2>2. CASE entry = Empty /\ EmptyReads = "zeros"
    BY <2>2 DEF read_one_block
  <2>3. CASE entry = Empty /\ EmptyReads # "zeros"
    BY <2>3 DEF read_one_block
  <2> QED
    BY <2>1, <2>2, <2>3
<1> QED
  BY <1>1, <1>2, <1>3, ZeroBlockType DEF Failed, Got

LEMMA PrefetchType ==
  ASSUME Types, currentblock \in Blocks, NEW partial \in BOOLEAN, NEW r \in prefetch(partial)
  PROVE  r.block \in Block
<1>1. CASE partial
  BY <1>1, ReadType DEF prefetch
<1>2. CASE ~partial
  BY <1>2, ZeroBlockType DEF prefetch, Got
<1> QED
  BY <1>1, <1>2

\* Whatever the outcome of a write, the slookup holds entries; one that
\* succeeds has changed the entry.
LEMMA PutType ==
  ASSUME Types, NEW b \in Blocks, NEW entry \in StoredBlocks \union {Empty},
         NEW w \in Put(b, entry)
  PROVE  w.store \in Entries /\ (w.ok => w.store = [rawstore EXCEPT ![b] = entry])
<1>1. rawstore \in Entries /\ [rawstore EXCEPT ![b] = entry] \in Entries
  BY DEF Types, Entries
<1> QED
  BY <1>1 DEF Put

LEMMA WriteType ==
  ASSUME Types, NEW b \in Blocks, NEW block \in Block, NEW w \in write_one_block(b, block)
  PROVE  w.store \in Entries
<1>1. CASE w \in Put(b, PipedIn(block))
  BY <1>1, PutType, PipedInType
<1>2. CASE w.store = rawstore
  BY <1>2 DEF Types, Entries
<1> QED
  BY <1>1, <1>2 DEF write_one_block

\* Replacing bytes from..to-1 of a block needs only that many source bytes.
LEMMA OverlayType ==
  ASSUME NEW b \in Block, NEW from \in Nat, NEW to \in Int, NEW src, NEW pos \in Nat,
         \A i \in Int : pos <= i /\ i < pos + (to - from) => src[i] \in Byte \union {Junk}
  PROVE  Overlay(b, from, to, src, pos) \in Block
<1>1. ASSUME NEW j \in 0 .. BlockSize - 1, from <= j, j < to
      PROVE  src[pos + j - from] \in Byte \union {Junk}
  <2>1. pos + j - from \in Int /\ pos <= pos + j - from /\ pos + j - from < pos + (to - from)
    BY <1>1, Sizes
  <2> QED
    BY <2>1
<1>2. ASSUME NEW j \in 0 .. BlockSize - 1
      PROVE  b[j] \in Byte \union {Junk}
  BY DEF Block
<1> QED
  BY <1>1, <1>2 DEF Overlay, Block

\* The block a loop stands at, before it has reached the end of its range, is
\* a block of the device, so the next number is no overflow, and the bytes it
\* takes there advance it to the next block's first byte or to the end of the
\* range.
LEMMA LoopStep ==
  ASSUME Types, ArgumentsInv, LoopInv,
         pc \in {"read", "write", "discard"}, done < length,
         NEW amount, amount = Clip(offsetinblock + (length - done)) - offsetinblock
  PROVE  /\ currentblock * BlockSize + offsetinblock = start_in_bytes + done
         /\ currentblock \in Blocks /\ (currentblock + 1) % U32 = currentblock + 1
         /\ amount \in Nat /\ amount <= length - done
         /\ offsetinblock + amount <= BlockSize
         /\ \/ (currentblock + 1) * BlockSize = start_in_bytes + (done + amount)
            \/ /\ done + amount = length
               /\ (currentblock + 1) * BlockSize >= start_in_bytes + (done + amount)
<1> DEFINE here == currentblock * BlockSize
<1>0. /\ currentblock \in Nat /\ offsetinblock \in Nat /\ offsetinblock < BlockSize
      /\ done \in Nat /\ length \in Nat /\ start_in_bytes \in Nat
      /\ BlockSize \in Nat /\ BlockSize > 0 /\ here \in Nat
      /\ start_in_bytes + length <= DeviceSize /\ DeviceSize \in Nat
  BY LoopTypes, Sizes DEF ArgumentsInv
<1>1. here + offsetinblock = start_in_bytes + done
  BY <1>0 DEF LoopInv
<1>2. here < DeviceSize
  BY <1>0, <1>1
<1>3. currentblock \in Blocks
  BY <1>0, <1>2, BlockInDevice
<1>4. (currentblock + 1) % U32 = currentblock + 1
  BY <1>3, BlockNumbers, Sizes
<1>5. (currentblock + 1) * BlockSize = here + BlockSize
  BY <1>0, NextBlockStart
<1> HIDE DEF here
<1>6. /\ amount \in Nat /\ amount <= length - done
      /\ offsetinblock + amount <= BlockSize
      /\ \/ here + BlockSize = start_in_bytes + (done + amount)
         \/ /\ done + amount = length
            /\ here + BlockSize >= start_in_bytes + (done + amount)
  <2>1. CASE offsetinblock + (length - done) > BlockSize
    BY <1>0, <1>1, <2>1 DEF Clip
  <2>2. CASE ~(offsetinblock + (length - done) > BlockSize)
    BY <1>0, <1>1, <2>2 DEF Clip
  <2> QED
    BY <2>1, <2>2
<1> QED
  BY <1>1, <1>3, <1>4, <1>5, <1>6 DEF here

-----------------------------------------------------------------------------
(***************************************************************************)
(* Every step keeps the invariant.  Three ways to end a step come back:    *)
(* return from the call, go on to the next block, and update one block.    *)
(***************************************************************************)
LEMMA ReturnKeepsInv ==
  ASSUME IInv, NEW result \in {"ok", "error"}, Return(result),
         rawstore' \in Entries, data' \in DataType
  PROVE  IInv'
<1>1. Types'
  BY Sizes DEF Types, Return, Entries, DataType
<1>2. ArgumentsInv'
  BY Sizes DEF Return, ArgumentsInv
<1>3. LoopInv' /\ DiscardRangeInv' /\ EmptiesOnlyWholeBlocks'
  BY DEF Return, LoopInv, DiscardRangeInv, EmptiesOnlyWholeBlocks
<1> QED
  BY <1>1, <1>2, <1>3 DEF IInv

LEMMA NextBlockKeepsInv ==
  ASSUME IInv, pc \in {"read", "write", "discard"}, done < length,
         NEW amount, amount = Clip(offsetinblock + (length - done)) - offsetinblock,
         NextBlock(amount), UNCHANGED <<pc, args, discard_range, ret>>,
         rawstore' \in Entries, data' \in DataType
  PROVE  IInv'
<1>1. /\ amount \in Nat /\ amount <= length - done
      /\ (currentblock + 1) % U32 = currentblock + 1 /\ currentblock \in Blocks
      /\ \/ (currentblock + 1) * BlockSize = start_in_bytes + (done + amount)
         \/ /\ done + amount = length
            /\ (currentblock + 1) * BlockSize >= start_in_bytes + (done + amount)
  BY LoopStep DEF IInv
<1>2. /\ currentblock \in Nat /\ currentblock + 1 < U32
      /\ done \in Nat /\ length \in Nat
      /\ length < U32 /\ U32 \in Nat /\ start_in_bytes \in Nat
      /\ discard_range_end \in Int /\ discard_range_start \in Int
  BY <1>1, LoopTypes, BlockNumbers, Sizes DEF IInv
<1>3. /\ currentblock' = currentblock + 1 /\ offsetinblock' = 0
      /\ done' = done + amount
      /\ pc' = pc /\ start_in_bytes' = start_in_bytes /\ length' = length
      /\ discard_range_start' = discard_range_start
      /\ discard_range_end' = discard_range_end /\ ret' = ret
  BY <1>1 DEF NextBlock, args, discard_range
<1>4. Types'
  <2>1. done' \in 0 .. U32 - 1 /\ currentblock' \in 0 .. U32 - 1
    BY <1>1, <1>2, <1>3
  <2>2. offsetinblock' \in 0 .. BlockSize - 1
    BY <1>3, Sizes
  <2> QED
    BY <1>3, <2>1, <2>2 DEF IInv, Types, Entries, DataType
<1>5. ArgumentsInv'
  BY <1>3 DEF IInv, ArgumentsInv
<1>6. LoopInv'
  <2> DEFINE next == (currentblock + 1) * BlockSize
  <2>1. next \in Int
    BY <1>2, Sizes
  <2>2. currentblock' * BlockSize = next
    BY <1>3
  <2>3. \/ next = start_in_bytes + (done + amount)
        \/ done + amount = length /\ next >= start_in_bytes + (done + amount)
    BY <1>1
  <2> HIDE DEF next
  <2>4. done + amount <= length
    BY <1>1, <1>2
  <2> QED
    BY <1>2, <1>3, <2>1, <2>2, <2>3, <2>4 DEF LoopInv
<1>7. DiscardRangeInv'
  BY <1>2, <1>3 DEF IInv, DiscardRangeInv
<1>8. EmptiesOnlyWholeBlocks'
  BY <1>3 DEF IInv, EmptiesOnlyWholeBlocks
<1> QED
  BY <1>4, <1>5, <1>6, <1>7, <1>8 DEF IInv

LEMMA UpdateBlockKeepsInv ==
  ASSUME IInv, pc \in {"write", "discard"}, done < length, data' = data,
         NEW src, NEW pos \in Nat,
         \A i \in Int : pos <= i /\ i < pos + (length - done) /\ i < pos + BlockSize
                          => src[i] \in Byte \union {Junk},
         UpdateBlock(offsetinblock + (length - done), src, pos)
  PROVE  IInv'
<1> DEFINE absoluteend == offsetinblock + (length - done)
           end == Clip(absoluteend)
           partial == IsPartial(offsetinblock, absoluteend)
<1>1. /\ currentblock \in Blocks
      /\ end - offsetinblock \in Nat /\ end - offsetinblock <= length - done
      /\ offsetinblock + (end - offsetinblock) <= BlockSize
  BY LoopStep DEF IInv
<1>2. rawstore \in Entries /\ data' \in DataType
  BY DEF IInv, Types, Entries, DataType
<1>3. PICK old \in prefetch(partial) :
        \/ Return("error") /\ UNCHANGED rawstore
        \/ \E new \in write_one_block(currentblock,
                        Overlay(old.block, offsetinblock, end, src, pos)) :
             /\ rawstore' = new.store
             /\ \/ Return("error")
                \/ /\ NextBlock(end - offsetinblock)
                   /\ UNCHANGED <<pc, args, discard_range, ret>>
  BY DEF UpdateBlock
<1>4. CASE Return("error") /\ UNCHANGED rawstore
  BY <1>2, <1>4, ReturnKeepsInv
<1>5. CASE \E new \in write_one_block(currentblock,
                        Overlay(old.block, offsetinblock, end, src, pos)) :
             /\ rawstore' = new.store
             /\ \/ Return("error")
                \/ /\ NextBlock(end - offsetinblock)
                   /\ UNCHANGED <<pc, args, discard_range, ret>>
  <2> DEFINE updated == Overlay(old.block, offsetinblock, end, src, pos)
  <2>1. old.block \in Block
    BY <1>1, PrefetchType DEF IInv, IsPartial
  <2>2. offsetinblock \in Nat /\ end \in Int /\ BlockSize \in Nat
        /\ length \in Nat /\ done \in Nat
    BY LoopTypes, Sizes DEF IInv, Clip
  <2>3. ASSUME NEW i \in Int, pos <= i, i < pos + (end - offsetinblock)
        PROVE  src[i] \in Byte \union {Junk}
    <3>1. i < pos + (length - done) /\ i < pos + BlockSize
      <4> HIDE DEF end
      <4> QED
        BY <1>1, <2>2, <2>3
    <3> QED
      BY <2>3, <3>1
  <2>4. updated \in Block
    BY <2>1, <2>2, <2>3, OverlayType
  <2>5. rawstore' \in Entries
    BY <1>1, <1>5, <2>4, WriteType DEF IInv
  <2>6. CASE Return("error")
    BY <1>2, <2>5, <2>6, ReturnKeepsInv
  <2>7. CASE /\ NextBlock(end - offsetinblock)
             /\ UNCHANGED <<pc, args, discard_range, ret>>
    BY <1>2, <2>5, <2>7, NextBlockKeepsInv
  <2> QED
    BY <1>5, <2>6, <2>7
<1> QED
  BY <1>3, <1>4, <1>5

LEMMA InitInv == Init => IInv
<1> SUFFICES ASSUME Init PROVE IInv
  OBVIOUS
<1>1. Types
  BY Sizes, SlookupByte DEF Init, Types
<1>2. ArgumentsInv
  BY Sizes DEF Init, ArgumentsInv
<1>3. LoopInv /\ DiscardRangeInv /\ EmptiesOnlyWholeBlocks
  BY DEF Init, LoopInv, DiscardRangeInv, EmptiesOnlyWholeBlocks
<1> QED
  BY <1>1, <1>2, <1>3 DEF IInv

LEMMA CallKeepsInv ==
  ASSUME IInv, NEW op \in {"read", "write", "discard"},
         NEW start \in 0 .. DeviceSize - 1, NEW len \in 0 .. DeviceSize,
         NEW buffer \in Buffer, Call(op, start, len, buffer)
  PROVE  IInv'
<1>1. /\ start \in Nat /\ FirstBlock(start) \in Nat
      /\ FirstOffset(start) \in 0 .. BlockSize - 1
      /\ FirstBlock(start) * BlockSize + FirstOffset(start) = start
  BY FirstBlockAndOffset, Sizes
<1>2. BlockNumber(start) = FirstBlock(start) /\ FirstBlock(start) < U32 - 1
  BY BlockNumberExact
<1>3. Types'
  <2>1. length' \in 0 .. U32 - 1 /\ done' \in 0 .. U32 - 1
    BY Sizes DEF Call
  <2>2. buffer \in DataType
    BY DEF Buffer, DataType
  <2>3. currentblock' \in 0 .. U32 - 1
    BY <1>1, <1>2, Sizes DEF Call
  <2> QED
    BY <1>1, <2>1, <2>2, <2>3 DEF Call, IInv, Types, DataType
<1>4. ArgumentsInv'
  BY DEF Call, ArgumentsInv
<1>5. LoopInv'
  BY <1>1, <1>2, Sizes DEF Call, LoopInv
<1>6. DiscardRangeInv' /\ EmptiesOnlyWholeBlocks'
  BY <1>1, <1>2 DEF Call, DiscardRangeInv, EmptiesOnlyWholeBlocks
<1> QED
  BY <1>3, <1>4, <1>5, <1>6 DEF IInv

\* The two uint32 ends of a read or a write are the exact ones.
LEMMA ReadWriteEnd ==
  ASSUME IInv, pc \in {"read", "write"}, length <= BufSize, done < length
  PROVE  End32(offsetinblock, length - done) = offsetinblock + (length - done)
<1>1. length - done \in 0 .. BufSize
  BY LoopTypes, Sizes DEF IInv
<1> QED
  BY <1>1, End32Exact DEF IInv, Types

LEMMA ReadOneKeepsInv ==
  ASSUME IInv, ReadOne
  PROVE  IInv'
<1> DEFINE amount == Clip(offsetinblock + (length - done)) - offsetinblock
           copied(block) == [i \in DOMAIN data |->
                               IF done <= i /\ i < done + amount
                                 THEN block[offsetinblock + i - done] ELSE data[i]]
<1>1. pc = "read" /\ length <= BufSize /\ done < length /\ rawstore' = rawstore
  BY DEF ReadOne
<1>2. End32(offsetinblock, length - done) = offsetinblock + (length - done)
  BY <1>1, ReadWriteEnd
<1>3. /\ currentblock \in Blocks /\ amount \in Nat
      /\ offsetinblock + amount <= BlockSize
  BY <1>1, LoopStep DEF IInv
<1>4. rawstore' \in Entries /\ data \in DataType
  BY <1>1 DEF IInv, Types, Entries, DataType
<1>5. PICK read \in read_one_block(currentblock) :
        \/ Return("error") /\ UNCHANGED data
        \/ /\ data' = copied(read.block)
           /\ NextBlock(amount)
           /\ UNCHANGED <<pc, args, discard_range, ret>>
  BY <1>2 DEF ReadOne
<1>6. CASE Return("error") /\ UNCHANGED data
  BY <1>4, <1>6, ReturnKeepsInv
<1>7. CASE /\ data' = copied(read.block)
           /\ NextBlock(amount)
           /\ UNCHANGED <<pc, args, discard_range, ret>>
  <2>1. read.block \in Block
    BY <1>3, ReadType DEF IInv
  <2>2. ASSUME NEW i \in 0 .. BufSize - 1, done <= i, i < done + amount
        PROVE  read.block[offsetinblock + i - done] \in Byte \union {Junk}
    <3>1. offsetinblock + i - done \in 0 .. BlockSize - 1
      <4> HIDE DEF amount
      <4> QED
        BY <1>3, <2>2, LoopTypes, Sizes DEF IInv
    <3> QED
      BY <2>1, <3>1 DEF Block
  <2>3. data' \in DataType
    BY <1>4, <1>7, <2>2 DEF DataType
  <2> QED
    BY <1>1, <1>4, <1>7, <2>3, NextBlockKeepsInv
<1> QED
  BY <1>5, <1>6, <1>7

LEMMA WriteOneKeepsInv ==
  ASSUME IInv, WriteOne
  PROVE  IInv'
<1>1. pc = "write" /\ length <= BufSize /\ done < length /\ data' = data
  BY DEF WriteOne, IInv, ArgumentsInv
<1>2. UpdateBlock(offsetinblock + (length - done), data, done)
  BY <1>1, ReadWriteEnd DEF WriteOne
<1>3. done \in Nat
  BY LoopTypes DEF IInv
<1>4. ASSUME NEW i \in Int, done <= i, i < done + (length - done)
      PROVE  data[i] \in Byte \union {Junk}
  <2>1. i \in 0 .. BufSize - 1
    BY <1>1, <1>4, LoopTypes, Sizes DEF IInv
  <2> QED
    BY <2>1 DEF IInv, Types
<1> QED
  BY <1>1, <1>2, <1>3, <1>4, UpdateBlockKeepsInv

LEMMA DiscardPartialKeepsInv ==
  ASSUME IInv, DiscardPartial
  PROVE  IInv'
<1>1. pc = "discard" /\ done < length /\ data' = data
  BY DEF DiscardPartial
<1>2. UpdateBlock(offsetinblock + (length - done), ZeroBlock, 0)
  BY DEF DiscardPartial, absoluteend64, End64
<1>3. ASSUME NEW i \in Int, 0 <= i, i < 0 + BlockSize
      PROVE  ZeroBlock[i] \in Byte \union {Junk}
  <2>1. i \in 0 .. BlockSize - 1
    BY <1>3, Sizes
  <2> QED
    BY <2>1, ZeroBlockType DEF Block
<1> QED
  BY <1>1, <1>2, <1>3, UpdateBlockKeepsInv

LEMMA DiscardWholeKeepsInv ==
  ASSUME IInv, DiscardWhole
  PROVE  IInv'
<1> DEFINE amount == Clip(offsetinblock + (length - done)) - offsetinblock
           here == currentblock * BlockSize
<1>1. /\ pc = "discard" /\ pc' = pc /\ done < length /\ NextBlock(amount)
      /\ ~IsPartial(offsetinblock, offsetinblock + (length - done))
      /\ start_in_bytes' = start_in_bytes /\ length' = length
      /\ rawstore' = rawstore /\ data' = data /\ ret' = ret
      /\ discard_range_end' = currentblock
      /\ discard_range_start' = IF discard_range_start = -1 THEN currentblock
                                                            ELSE discard_range_start
  BY DEF DiscardWhole, absoluteend64, End64, args
<1>2. /\ here + offsetinblock = start_in_bytes + done /\ here \in Int
      /\ currentblock \in Blocks /\ (currentblock + 1) % U32 = currentblock + 1
      /\ (currentblock + 1) * BlockSize = here + BlockSize
  BY <1>1, LoopStep, LoopTypes, BlockPositions DEF IInv
<1>3. /\ currentblock \in Nat /\ currentblock + 1 < U32
      /\ done \in Nat /\ length \in Nat /\ length < U32 /\ start_in_bytes \in Nat
      /\ offsetinblock \in Nat
      /\ discard_range_end \in Int /\ discard_range_start \in Int
      /\ BlockSize \in Nat /\ BlockSize > 0 /\ U32 \in Nat
  BY <1>2, LoopTypes, BlockNumbers, Sizes DEF IInv
\* The block is covered from its first byte to its last.
<1>4. offsetinblock = 0 /\ length - done >= BlockSize /\ amount = BlockSize
  BY <1>1, <1>3 DEF IsPartial, Clip
<1>5. /\ currentblock' = currentblock + 1 /\ offsetinblock' = 0
      /\ done' = done + BlockSize
  BY <1>1, <1>2, <1>4 DEF NextBlock
<1> HIDE DEF here
<1>6. /\ here = start_in_bytes + done
      /\ (currentblock + 1) * BlockSize = start_in_bytes + (done + BlockSize)
      /\ done + BlockSize <= length
  <2>1. here = start_in_bytes + done /\ here + BlockSize = start_in_bytes + (done + BlockSize)
    BY <1>2, <1>3, <1>4
  <2>2. done + BlockSize <= length
    BY <1>3, <1>4
  <2> QED
    BY <1>2, <2>1, <2>2
<1>7. Types'
  <2>1. done' \in 0 .. U32 - 1 /\ currentblock' \in 0 .. U32 - 1
    BY <1>3, <1>5, <1>6
  <2>2. offsetinblock' \in 0 .. BlockSize - 1
    BY <1>3, <1>5
  <2> QED
    BY <1>1, <1>2, <2>1, <2>2 DEF IInv, Types
<1>8. ArgumentsInv'
  BY <1>1 DEF IInv, ArgumentsInv
<1>9. LoopInv'
  <2> DEFINE next == (currentblock + 1) * BlockSize
  <2>1. next = start_in_bytes + (done + BlockSize) /\ currentblock' * BlockSize = next
    BY <1>5, <1>6
  <2> HIDE DEF next
  <2>2. next + 0 = start_in_bytes + (done + BlockSize)
    BY <1>3, <2>1
  <2> QED
    BY <1>1, <1>5, <1>6, <2>1, <2>2 DEF LoopInv
<1>10. discard_range_start # -1 =>
         discard_range_start <= currentblock
           /\ start_in_bytes <= discard_range_start * BlockSize
  BY <1>1, <1>3 DEF IInv, DiscardRangeInv, EmptiesOnlyWholeBlocks
<1>11. DiscardRangeInv'
  BY <1>1, <1>3, <1>5 DEF DiscardRangeInv
<1>12. EmptiesOnlyWholeBlocks'
  <2>1. discard_range_start' <= discard_range_end'
    BY <1>1, <1>3, <1>10
  <2>2. start_in_bytes' <= discard_range_start' * BlockSize
    <3>1. start_in_bytes <= here
      BY <1>3, <1>6
    <3> QED
      BY <1>1, <1>10, <3>1 DEF here
  <2>3. (discard_range_end' + 1) * BlockSize <= start_in_bytes' + length'
    <3>1. start_in_bytes + (done + BlockSize) <= start_in_bytes + length
      BY <1>3, <1>6
    <3> QED
      BY <1>1, <1>6, <3>1
  <2> QED
    BY <1>1, <2>1, <2>2, <2>3 DEF EmptiesOnlyWholeBlocks
<1> QED
  BY <1>7, <1>8, <1>9, <1>11, <1>12 DEF IInv

LEMMA StartEmptyingKeepsInv ==
  ASSUME IInv, StartEmptying
  PROVE  IInv'
<1>1. /\ discard_range_start \in Blocks /\ discard_range_start # -1
      /\ discard_range_start \in Nat /\ discard_range_start < U32 - 1 /\ U32 \in Nat
      /\ discard_range_end \in Int
  BY BlockNumbers, LoopTypes, Sizes DEF StartEmptying, IInv, Types
<1>2. Types'
  <2>1. currentblock' \in 0 .. U32 - 1
    BY <1>1 DEF StartEmptying
  <2> QED
    BY <2>1 DEF IInv, Types, StartEmptying, args, discard_range
<1>3. ArgumentsInv' /\ LoopInv' /\ DiscardRangeInv'
  BY <1>1 DEF IInv, StartEmptying, args, discard_range, ArgumentsInv, LoopInv,
              DiscardRangeInv
<1>4. EmptiesOnlyWholeBlocks'
  BY <1>1 DEF IInv, StartEmptying, args, discard_range, EmptiesOnlyWholeBlocks
<1> QED
  BY <1>2, <1>3, <1>4 DEF IInv

\* The loop that empties ends before its counter could go round.
LEMMA NextToEmpty ==
  ASSUME IInv, pc = "delete", currentblock <= discard_range_end
  PROVE  /\ (currentblock + 1) % U32 = currentblock + 1
         /\ currentblock \in Blocks /\ currentblock + 1 < U32
<1>1. /\ discard_range_end \in Blocks /\ discard_range_end < U32 - 1
      /\ discard_range_end \in Nat /\ currentblock \in Nat
  BY BlockNumbers, LoopTypes DEF IInv, Types, DiscardRangeInv
<1>2. currentblock * BlockSize < DeviceSize
  <2> DEFINE here == currentblock * BlockSize
             next == (currentblock + 1) * BlockSize
             last == discard_range_end * BlockSize
             beyond == (discard_range_end + 1) * BlockSize
  <2>1. /\ here \in Int /\ last \in Int /\ next = here + BlockSize
        /\ beyond = last + BlockSize
        /\ currentblock < discard_range_end => next <= last
    <3>1. currentblock \in Int /\ discard_range_end \in Int
      BY <1>1
    <3> QED
      BY <3>1, BlockPositions, Zenon
  <2>2. currentblock = discard_range_end => here = last
    OBVIOUS
  <2>3. beyond <= start_in_bytes + length /\ start_in_bytes + length <= DeviceSize
    BY DEF IInv, EmptiesOnlyWholeBlocks, ArgumentsInv, DiscardRangeInv
  <2>4. start_in_bytes \in Nat /\ length \in Nat
    BY LoopTypes DEF IInv
  <2> HIDE DEF here, next, last, beyond
  <2>5. here <= last
    BY <1>1, <2>1, <2>2, Sizes
  <2>6. here < DeviceSize
    BY <2>1, <2>3, <2>4, <2>5, Sizes
  <2> QED
    BY <2>6 DEF here
<1> QED
  BY <1>1, <1>2, BlockInDevice, Sizes

LEMMA EmptyOneKeepsInv ==
  ASSUME IInv, EmptyOne
  PROVE  IInv'
<1>1. /\ pc = "delete" /\ currentblock <= discard_range_end /\ data' = data
      /\ (currentblock + 1) % U32 = currentblock + 1
      /\ currentblock \in Blocks /\ currentblock + 1 < U32
  BY NextToEmpty DEF EmptyOne
<1>2. rawstore' \in Entries /\ data' \in DataType
  <2>1. PICK new \in Put(currentblock, Empty) : rawstore' = new.store
    BY DEF EmptyOne
  <2>2. new.store \in Entries
    BY <1>1, <2>1, PutType DEF IInv
  <2> QED
    BY <1>1, <2>1, <2>2 DEF IInv, Types, DataType
<1>3. CASE Return("error")
  BY <1>2, <1>3, ReturnKeepsInv
<1>4. CASE /\ currentblock' = currentblock + 1
           /\ UNCHANGED <<pc, args, offsetinblock, done, discard_range, ret>>
  <2>1. currentblock \in Nat /\ discard_range_end \in Int /\ discard_range_start \in Int
    BY LoopTypes DEF IInv
  <2>2. Types'
    <3>1. currentblock' \in 0 .. U32 - 1
      BY <1>1, <1>4, <2>1, Sizes
    <3> QED
      BY <1>2, <1>4, <3>1 DEF IInv, Types, args, discard_range, Entries, DataType
  <2>3. ArgumentsInv' /\ LoopInv' /\ DiscardRangeInv'
    BY <1>1, <1>4 DEF IInv, args, discard_range, ArgumentsInv, LoopInv, DiscardRangeInv
  <2>4. EmptiesOnlyWholeBlocks'
    BY <1>1, <1>4, <2>1 DEF IInv, args, discard_range, EmptiesOnlyWholeBlocks
  <2> QED
    BY <2>2, <2>3, <2>4 DEF IInv
<1> QED
  BY <1>1, <1>3, <1>4 DEF EmptyOne

LEMMA NextKeepsInv == IInv /\ [Next]_vars => IInv'
<1> SUFFICES ASSUME IInv, [Next]_vars PROVE IInv'
  OBVIOUS
<1>1. CASE SomeCall
  BY <1>1, CallKeepsInv DEF SomeCall
<1>2. CASE ReadTooLong \/ ReadDone \/ WriteDone \/ DiscardNothingWhole \/ EmptyDone
  <2>1. /\ Return("ok") \/ Return("error")
        /\ UNCHANGED <<rawstore, data>>
    BY <1>2 DEF ReadTooLong, ReadDone, WriteDone, DiscardNothingWhole, EmptyDone
  <2> QED
    BY <2>1, ReturnKeepsInv DEF IInv, Types, Entries, DataType
<1>3. CASE ReadOne
  BY <1>3, ReadOneKeepsInv
<1>4. CASE WriteOne
  BY <1>4, WriteOneKeepsInv
<1>5. CASE DiscardPartial
  BY <1>5, DiscardPartialKeepsInv
<1>6. CASE DiscardWhole
  BY <1>6, DiscardWholeKeepsInv
<1>7. CASE StartEmptying
  BY <1>7, StartEmptyingKeepsInv
<1>8. CASE EmptyOne
  BY <1>8, EmptyOneKeepsInv
<1>9. CASE UNCHANGED vars
  BY <1>9 DEF vars, args, loop, discard_range, IInv, Types, ArgumentsInv,
              LoopInv, DiscardRangeInv, EmptiesOnlyWholeBlocks
<1> QED
  BY <1>1, <1>2, <1>3, <1>4, <1>5, <1>6, <1>7, <1>8, <1>9 DEF Next, Step

LEMMA Invariance == Spec => []IInv
  BY InitInv, NextKeepsInv, PTL DEF Spec

\* While a loop has bytes to go, its uint32 block number is the exact number
\* of the block that holds the position it has reached.
LEMMA NumberIsExact ==
  ASSUME IInv, Visiting
  PROVE  /\ currentblock = (start_in_bytes + done) \div BlockSize
         /\ currentblock \in Blocks
<1> DEFINE x == start_in_bytes + done
           b == FirstBlock(x)
           here == currentblock * BlockSize
           there == b * BlockSize
<1>1. /\ currentblock \in Blocks /\ here + offsetinblock = x
  BY LoopStep DEF IInv, Visiting
<1>2. /\ currentblock \in Nat /\ offsetinblock \in Nat
      /\ offsetinblock < BlockSize /\ x \in Nat
  BY LoopTypes DEF IInv
<1> HIDE DEF x
<1>3. b \in Nat /\ FirstOffset(x) \in 0 .. BlockSize - 1 /\ there + FirstOffset(x) = x
  BY <1>2, FirstBlockAndOffset
<1> HIDE DEF b
<1>4. here \in Int /\ (currentblock + 1) * BlockSize = here + BlockSize
  BY <1>2, BlockPositions
<1>5. there \in Int /\ (b + 1) * BlockSize = there + BlockSize
  BY <1>3, BlockPositions
<1>6. here <= x /\ x < here + BlockSize /\ there <= x /\ x < there + BlockSize
  <2> HIDE DEF here, there
  <2> QED
    BY <1>1, <1>2, <1>3, <1>4, <1>5, Sizes
<1>7. currentblock = b
  BY <1>2, <1>3, <1>4, <1>5, <1>6, BlockIsUnique
<1> QED
  BY <1>1, <1>7 DEF b, x, FirstBlock

\* The numbers of the device's blocks are those up to that of its last byte.
LEMMA DeviceBlocks ==
  ASSUME NEW c \in Blocks
  PROVE  c \in 0 .. (DeviceSize - 1) \div BlockSize
<1>1. PICK x \in 0 .. DeviceSize - 1 : c = BlockNumber(x)
  BY DEF Blocks
<1> DEFINE last == FirstBlock(DeviceSize - 1)
<1>2. c = FirstBlock(x) /\ c \in Nat
  BY <1>1, BlockNumberExact
<1>3. /\ last \in Nat /\ FirstOffset(DeviceSize - 1) \in 0 .. BlockSize - 1
      /\ last * BlockSize + FirstOffset(DeviceSize - 1) = DeviceSize - 1
  BY FirstBlockAndOffset, Sizes
<1>4. FirstOffset(x) \in 0 .. BlockSize - 1 /\ c * BlockSize + FirstOffset(x) = x
  BY <1>2, FirstBlockAndOffset, Sizes
<1> HIDE DEF last
<1>5. last < c => (last + 1) * BlockSize <= c * BlockSize
  BY <1>2, <1>3, BlockPositions
<1>6. (last + 1) * BlockSize = last * BlockSize + BlockSize
      /\ last * BlockSize \in Int /\ c * BlockSize \in Int
  BY <1>2, <1>3, BlockPositions
<1>7. ~(last < c)
  <2> DEFINE here == c * BlockSize
             top == last * BlockSize
  <2>1. here \in Int /\ top \in Int
    BY <1>6
  <2>2. last < c => top + BlockSize <= here
    BY <1>5, <1>6
  <2>3. here + FirstOffset(x) = x /\ top + FirstOffset(DeviceSize - 1) = DeviceSize - 1
    BY <1>3, <1>4
  <2> HIDE DEF here, top
  <2> QED
    BY <1>3, <1>4, <2>1, <2>2, <2>3, Sizes
<1> QED
  BY <1>2, <1>3, <1>7 DEF last, FirstBlock

\* The variables of Read_block, Write_block and Discard_block keep their
\* types.  The block number, a uint32, is always the exact number of the
\* block the loop has reached: it is never cut and never wraps.  Every entry
\* a loop still has to read, write or empty is that of a block of the device.
THEOREM TypeCorrect == Spec => []TypeOK
<1>1. IInv => TypeOK
  <2> SUFFICES ASSUME IInv PROVE TypeOK
    OBVIOUS
  <2>1. Types
    BY DEF IInv
  <2>2. Visiting => /\ currentblock = (start_in_bytes + done) \div BlockSize
                    /\ currentblock \in Blocks
    BY NumberIsExact
  <2>3. ASSUME Emptying
        PROVE  currentblock \in 0 .. (DeviceSize - 1) \div BlockSize
    <3>1. currentblock \in Nat /\ currentblock <= discard_range_end
      BY <2>3, LoopTypes DEF IInv, Emptying
    <3>2. discard_range_end \in Blocks
      BY <3>1, <2>1 DEF Types
    <3>3. discard_range_end \in 0 .. (DeviceSize - 1) \div BlockSize
      BY <3>2, DeviceBlocks
    <3>4. (DeviceSize - 1) \div BlockSize \in Int
      BY Sizes
    <3> QED
      BY <3>1, <3>3, <3>4
  <2> QED
    BY <2>1, <2>2, <2>3, DeviceBlocks DEF TypeOK
<1> QED
  BY <1>1, Invariance, PTL

\* Discard_block empties no entry of a block that is not wholly inside its
\* range, and stays in the range it gathered.
THEOREM DiscardsAreExact == Spec => []EmptiesOnlyWholeBlocks
<1>1. IInv => EmptiesOnlyWholeBlocks
  BY DEF IInv
<1> QED
  BY <1>1, Invariance, PTL

-----------------------------------------------------------------------------
(***************************************************************************)
(* Nothing covered is left: the blocks the loop has passed and that are    *)
(* covered whole are in the range to empty, and the part of the range that *)
(* the emptying loop has passed is empty.  Only the first turn of a loop   *)
(* starts inside a block.                                                  *)
(***************************************************************************)
Whole(b) ==
  /\ start_in_bytes <= b * BlockSize
  /\ (b + 1) * BlockSize <= start_in_bytes + length

OnlyFirstOffset == offsetinblock > 0 => done = 0

Gathered(b) ==
  /\ discard_range_start # -1
  /\ discard_range_start <= b /\ b <= discard_range_end

WholeAreGathered ==
  \A b \in Blocks :
    Whole(b) =>
      /\ pc = "discard" /\ b < currentblock => Gathered(b)
      /\ pc = "delete" => Gathered(b)

PassedAreEmpty ==
  pc = "delete" =>
    \A b \in Blocks :
      discard_range_start <= b /\ b < currentblock => rawstore[b] = Empty

FreesInv == OnlyFirstOffset /\ WholeAreGathered /\ PassedAreEmpty

\* A block that the loop must read first is not covered whole.
LEMMA PartialIsNotWhole ==
  ASSUME IInv, OnlyFirstOffset, pc = "discard", done < length,
         IsPartial(offsetinblock, offsetinblock + (length - done))
  PROVE  ~Whole(currentblock)
<1> DEFINE here == currentblock * BlockSize
<1>1. here \in Int /\ (currentblock + 1) * BlockSize = here + BlockSize
  BY LoopTypes, BlockPositions DEF IInv
<1>2. here + offsetinblock = start_in_bytes + done
  BY LoopStep DEF IInv
<1> HIDE DEF here
<1>3. CASE offsetinblock > 0
  <2>1. done = 0
    BY <1>3 DEF OnlyFirstOffset
  <2>2. ~(start_in_bytes <= here)
    BY <1>1, <1>2, <1>3, <2>1, LoopTypes DEF IInv
  <2> QED
    BY <2>2 DEF Whole, here
<1>4. CASE offsetinblock + (length - done) < BlockSize
  <2>1. ~(here + BlockSize <= start_in_bytes + length)
    BY <1>1, <1>2, <1>4, LoopTypes, Sizes DEF IInv
  <2> QED
    BY <1>1, <2>1 DEF Whole
<1> QED
  BY <1>3, <1>4 DEF IsPartial

\* When the loop is done it has passed every block that is covered whole.
LEMMA WholeIsPassed ==
  ASSUME IInv, pc = "discard", done >= length, NEW b \in Blocks, Whole(b)
  PROVE  b < currentblock
<1> DEFINE here == currentblock * BlockSize
           beyond == (b + 1) * BlockSize
<1>1. b \in Int /\ here \in Int /\ beyond \in Int
  BY LoopTypes, BlockNumbers, BlockPositions DEF IInv
<1>2. (currentblock + 1) * BlockSize = here + BlockSize
  BY LoopTypes, BlockPositions DEF IInv
<1>3. currentblock < b + 1 => (currentblock + 1) * BlockSize <= beyond
  BY <1>1, LoopTypes, BlockPositions DEF IInv
<1>4. beyond <= start_in_bytes + length
  BY DEF Whole
<1>5. here + offsetinblock >= start_in_bytes + length
  <2>1. \/ here + offsetinblock = start_in_bytes + done
        \/ done = length /\ offsetinblock = 0 /\ here >= start_in_bytes + done
    BY DEF IInv, LoopInv
  <2> HIDE DEF here
  <2> QED
    BY <1>1, <2>1, LoopTypes DEF IInv
<1> HIDE DEF here, beyond
<1>6. ~(currentblock < b + 1)
  BY <1>1, <1>2, <1>3, <1>4, <1>5, LoopTypes, Sizes DEF IInv
<1> QED
  BY <1>1, <1>6, LoopTypes DEF IInv

LEMMA InitFrees == Init => FreesInv
  BY DEF Init, FreesInv, OnlyFirstOffset, WholeAreGathered, PassedAreEmpty

LEMMA ReturnKeepsFrees ==
  ASSUME NEW result, Return(result)
  PROVE  FreesInv'
  BY DEF Return, FreesInv, OnlyFirstOffset, WholeAreGathered, PassedAreEmpty

LEMMA CallKeepsFrees ==
  ASSUME NEW op \in {"read", "write", "discard"},
         NEW start \in 0 .. DeviceSize - 1, NEW len \in 0 .. DeviceSize,
         NEW buffer \in Buffer, Call(op, start, len, buffer)
  PROVE  FreesInv'
<1>1. OnlyFirstOffset' /\ PassedAreEmpty'
  BY DEF Call, OnlyFirstOffset, PassedAreEmpty
\* No block before the first one of the range is covered.
<1>2. ASSUME NEW b \in Blocks, b < BlockNumber(start)
      PROVE  ~(start <= b * BlockSize)
  <2> DEFINE first == FirstBlock(start) * BlockSize
             beyond == (b + 1) * BlockSize
             here == b * BlockSize
  <2>1. /\ start \in Nat /\ FirstBlock(start) \in Nat /\ b \in Int
        /\ FirstOffset(start) \in Nat /\ first + FirstOffset(start) = start
    BY FirstBlockAndOffset, BlockNumbers, Sizes
  <2>2. b < FirstBlock(start)
    BY <1>2, BlockNumberExact
  <2>3. here \in Int /\ first \in Int /\ beyond = here + BlockSize /\ beyond <= first
    BY <2>1, <2>2, BlockPositions
  <2> HIDE DEF first, beyond, here
  <2>4. here < start
    BY <2>1, <2>3, Sizes
  <2> QED
    BY <2>1, <2>3, <2>4 DEF here
<1>3. WholeAreGathered'
  BY <1>2 DEF Call, WholeAreGathered, Whole
<1> QED
  BY <1>1, <1>3 DEF FreesInv

\* A turn of the loop of a read or a write.
LEMMA NextBlockKeepsFrees ==
  ASSUME NEW amount, NextBlock(amount), pc' = pc, pc \in {"read", "write"}
  PROVE  FreesInv'
  BY DEF NextBlock, FreesInv, OnlyFirstOffset, WholeAreGathered, PassedAreEmpty

LEMMA DiscardPartialKeepsFrees ==
  ASSUME IInv, FreesInv, DiscardPartial
  PROVE  FreesInv'
<1> DEFINE amount == Clip(absoluteend64) - offsetinblock
<1>1. \/ Return("error")
      \/ NextBlock(amount) /\ UNCHANGED <<pc, args, discard_range, ret>>
  BY DEF DiscardPartial, UpdateBlock
<1>2. CASE NextBlock(amount) /\ UNCHANGED <<pc, args, discard_range, ret>>
  <2>1. (currentblock + 1) % U32 = currentblock + 1
    BY LoopStep DEF DiscardPartial, IInv
  <2>2. /\ pc = "discard" /\ pc' = pc
        /\ start_in_bytes' = start_in_bytes /\ length' = length
        /\ discard_range_start' = discard_range_start
        /\ discard_range_end' = discard_range_end
        /\ currentblock' = currentblock + 1 /\ offsetinblock' = 0
    BY <1>2, <2>1 DEF DiscardPartial, NextBlock, args, discard_range
  <2>3. ~Whole(currentblock)
    BY PartialIsNotWhole DEF DiscardPartial, absoluteend64, End64, FreesInv
  <2>4. ASSUME NEW b \in Blocks, Whole(b), b < currentblock + 1
        PROVE  Gathered(b)
    <3>1. b # currentblock
      BY <2>3, <2>4
    <3>2. b < currentblock
      BY <2>4, <3>1, LoopTypes, BlockNumbers DEF IInv
    <3> QED
      BY <2>2, <2>4, <3>2 DEF FreesInv, WholeAreGathered
  <2>5. WholeAreGathered'
    BY <2>2, <2>4 DEF WholeAreGathered, Whole, Gathered
  <2> QED
    BY <2>2, <2>5 DEF FreesInv, OnlyFirstOffset, PassedAreEmpty
<1> QED
  BY <1>1, <1>2, ReturnKeepsFrees

LEMMA DiscardWholeKeepsFrees ==
  ASSUME IInv, FreesInv, DiscardWhole
  PROVE  FreesInv'
<1>1. (currentblock + 1) % U32 = currentblock + 1
  BY LoopStep DEF DiscardWhole, IInv
<1>2. /\ pc = "discard" /\ pc' = pc
      /\ start_in_bytes' = start_in_bytes /\ length' = length
      /\ currentblock' = currentblock + 1 /\ offsetinblock' = 0
      /\ discard_range_start' = IF discard_range_start = -1 THEN currentblock
                                                            ELSE discard_range_start
      /\ discard_range_end' = currentblock
  BY <1>1 DEF DiscardWhole, NextBlock, args
<1>3. ASSUME NEW b \in Blocks, Whole(b), b < currentblock + 1
      PROVE  Gathered(b)'
  <2>1. b \in Nat
    BY BlockNumbers
  <2>2. CASE b < currentblock
    <3>1. Gathered(b)
      BY <1>2, <1>3, <2>2 DEF FreesInv, WholeAreGathered
    <3> QED
      BY <1>2, <2>1, <2>2, <3>1, LoopTypes DEF Gathered, IInv
  <2>3. CASE b = currentblock
    <3>1. discard_range_start # -1 => discard_range_start <= currentblock
      BY <1>2, LoopTypes DEF IInv, DiscardRangeInv, EmptiesOnlyWholeBlocks
    <3> QED
      BY <1>2, <2>1, <2>3, <3>1, LoopTypes DEF Gathered, IInv
  <2> QED
    BY <1>3, <2>1, <2>2, <2>3, LoopTypes DEF IInv
<1>4. WholeAreGathered'
  BY <1>2, <1>3 DEF WholeAreGathered, Whole
<1> QED
  BY <1>2, <1>4 DEF FreesInv, OnlyFirstOffset, PassedAreEmpty

LEMMA StartEmptyingKeepsFrees ==
  ASSUME IInv, FreesInv, StartEmptying
  PROVE  FreesInv'
<1>1. /\ pc = "discard" /\ done >= length /\ pc' = "delete"
      /\ start_in_bytes' = start_in_bytes /\ length' = length
      /\ offsetinblock' = offsetinblock /\ done' = done
      /\ discard_range_start' = discard_range_start
      /\ discard_range_end' = discard_range_end
      /\ currentblock' = discard_range_start
  BY DEF StartEmptying, args, discard_range
<1>2. ASSUME NEW b \in Blocks, Whole(b)
      PROVE  Gathered(b)
  BY <1>1, <1>2, WholeIsPassed DEF FreesInv, WholeAreGathered
<1>3. WholeAreGathered'
  BY <1>1, <1>2 DEF WholeAreGathered, Whole, Gathered
<1>4. PassedAreEmpty'
  BY <1>1, BlockNumbers, LoopTypes DEF PassedAreEmpty, IInv
<1> QED
  BY <1>1, <1>3, <1>4 DEF FreesInv, OnlyFirstOffset

\* The loop goes on only after a write of nil that succeeded.
LEMMA EmptyOneKeepsFrees ==
  ASSUME IInv, FreesInv, EmptyOne
  PROVE  FreesInv'
<1>1. /\ pc = "delete" /\ currentblock <= discard_range_end
      /\ (currentblock + 1) % U32 = currentblock + 1 /\ currentblock \in Blocks
  BY NextToEmpty DEF EmptyOne
<1>2. PICK new \in Put(currentblock, Empty) :
        /\ rawstore' = new.store
        /\ \/ Return("error")
           \/ /\ new.ok
              /\ currentblock' = currentblock + 1
              /\ UNCHANGED <<pc, args, offsetinblock, done, discard_range, ret>>
  BY <1>1 DEF EmptyOne
<1>3. CASE Return("error")
  BY <1>3, ReturnKeepsFrees
<1>4. CASE /\ new.ok
           /\ currentblock' = currentblock + 1
           /\ UNCHANGED <<pc, args, offsetinblock, done, discard_range, ret>>
  <2>1. /\ pc' = pc /\ start_in_bytes' = start_in_bytes /\ length' = length
        /\ offsetinblock' = offsetinblock /\ done' = done
        /\ discard_range_start' = discard_range_start
        /\ discard_range_end' = discard_range_end
    BY <1>4 DEF args, discard_range
  <2>2. rawstore' = [rawstore EXCEPT ![currentblock] = Empty]
    BY <1>1, <1>2, <1>4, PutType DEF IInv
  <2>3. WholeAreGathered'
    BY <1>1, <2>1 DEF FreesInv, WholeAreGathered, Whole, Gathered
  <2>4. ASSUME NEW b \in Blocks, discard_range_start <= b, b < currentblock + 1
        PROVE  rawstore'[b] = Empty
    <3>1. DOMAIN rawstore = Blocks
      BY DEF IInv, Types
    <3>2. CASE b = currentblock
      BY <2>2, <3>1, <3>2
    <3>3. CASE b # currentblock
      <4>1. b < currentblock
        BY <2>4, <3>3, BlockNumbers, LoopTypes DEF IInv
      <4>2. rawstore[b] = Empty
        BY <1>1, <2>4, <4>1 DEF FreesInv, PassedAreEmpty
      <4> QED
        BY <2>2, <3>1, <4>2
    <3> QED
      BY <3>2, <3>3
  <2>5. PassedAreEmpty'
    BY <1>4, <2>1, <2>4 DEF PassedAreEmpty
  <2> QED
    BY <2>1, <2>3, <2>5 DEF FreesInv, OnlyFirstOffset
<1> QED
  BY <1>2, <1>3, <1>4

LEMMA NextKeepsFrees ==
  ASSUME IInv, FreesInv, [Next]_vars
  PROVE  FreesInv'
<1>1. CASE SomeCall
  BY <1>1, CallKeepsFrees DEF SomeCall
<1>2. CASE ReadTooLong \/ ReadDone \/ WriteDone \/ DiscardNothingWhole \/ EmptyDone
  BY <1>2, ReturnKeepsFrees
  DEF ReadTooLong, ReadDone, WriteDone, DiscardNothingWhole, EmptyDone
<1>3. CASE ReadOne
  <2>1. \/ Return("error")
        \/ \E amount : NextBlock(amount) /\ pc' = pc /\ pc \in {"read", "write"}
    BY <1>3 DEF ReadOne
  <2> QED
    BY <2>1, ReturnKeepsFrees, NextBlockKeepsFrees
<1>4. CASE WriteOne
  <2>1. \/ Return("error")
        \/ \E amount : NextBlock(amount) /\ pc' = pc /\ pc \in {"read", "write"}
    BY <1>4 DEF WriteOne, UpdateBlock
  <2> QED
    BY <2>1, ReturnKeepsFrees, NextBlockKeepsFrees
<1>5. CASE DiscardPartial
  BY <1>5, DiscardPartialKeepsFrees
<1>6. CASE DiscardWhole
  BY <1>6, DiscardWholeKeepsFrees
<1>7. CASE StartEmptying
  BY <1>7, StartEmptyingKeepsFrees
<1>8. CASE EmptyOne
  BY <1>8, EmptyOneKeepsFrees
<1>9. CASE UNCHANGED vars
  BY <1>9 DEF vars, args, loop, discard_range, FreesInv, OnlyFirstOffset,
              WholeAreGathered, Whole, Gathered, PassedAreEmpty
<1> QED
  BY <1>1, <1>2, <1>3, <1>4, <1>5, <1>6, <1>7, <1>8, <1>9 DEF Next, Step

\* A discard returns success from two places; at both, every block that it
\* covers whole is empty.
LEMMA ReturningFrees ==
  ASSUME IInv, FreesInv, [Next]_vars, DiscardReturnsOk, NEW b \in Blocks, Whole(b)
  PROVE  rawstore'[b] = Empty
<1>1. \/ DiscardNothingWhole
      \/ EmptyDone
  <2>1. ~UNCHANGED vars
    BY DEF DiscardReturnsOk, vars
  <2>2. ~SomeCall
    BY DEF DiscardReturnsOk, SomeCall, Call
  <2>3. ~(ReadTooLong \/ ReadOne \/ ReadDone \/ WriteOne \/ WriteDone)
    BY DEF DiscardReturnsOk, ReadTooLong, ReadOne, ReadDone, WriteOne, WriteDone
  <2>4. ~(DiscardWhole \/ StartEmptying)
    BY DEF DiscardReturnsOk, DiscardWhole, StartEmptying
  <2>5. ~DiscardPartial
    <3>1. DiscardPartial => Return("error") \/ pc' = pc
      BY DEF DiscardPartial, UpdateBlock
    <3> QED
      BY <3>1 DEF DiscardReturnsOk, Return
  <2>6. ~EmptyOne
    <3>1. EmptyOne => Return("error") \/ pc' = pc
      BY DEF EmptyOne
    <3> QED
      BY <3>1 DEF DiscardReturnsOk, Return
  <2> QED
    BY <2>1, <2>2, <2>3, <2>4, <2>5, <2>6 DEF Next, Step
<1>2. ~DiscardNothingWhole
  <2> SUFFICES ASSUME DiscardNothingWhole PROVE FALSE
    OBVIOUS
  <2>1. pc = "discard" /\ done >= length /\ discard_range_start = -1
    BY DEF DiscardNothingWhole
  <2>2. Gathered(b)
    BY <2>1, WholeIsPassed DEF FreesInv, WholeAreGathered
  <2> QED
    BY <2>1, <2>2 DEF Gathered
<1>3. pc = "delete" /\ currentblock > discard_range_end /\ rawstore' = rawstore
  BY <1>1, <1>2 DEF EmptyDone
<1>4. discard_range_start <= b /\ b < currentblock
  <2>1. Gathered(b)
    BY <1>3 DEF FreesInv, WholeAreGathered
  <2> QED
    BY <1>3, <2>1, LoopTypes, BlockNumbers DEF Gathered, IInv
<1> QED
  BY <1>3, <1>4 DEF FreesInv, PassedAreEmpty

\* The position where a covered block starts is that of a block of the
\* device that is covered whole.
LEMMA CoveredIsWhole ==
  ASSUME IInv, NEW x \in 0 .. DeviceSize - 1, CoveredWhole(x)
  PROVE  BlockNumber(x) \in Blocks /\ Whole(BlockNumber(x))
<1> DEFINE b == FirstBlock(x)
<1>1. b \in Nat /\ BlockNumber(x) = b /\ b \in Blocks
  BY BlockNumberExact DEF Blocks
<1>2. b * BlockSize + FirstOffset(x) = x /\ FirstOffset(x) = 0
  BY FirstBlockAndOffset, Sizes DEF CoveredWhole, FirstOffset
<1>3. b * BlockSize \in Int /\ (b + 1) * BlockSize = b * BlockSize + BlockSize
  BY <1>1, BlockPositions
<1> DEFINE here == b * BlockSize
<1>4. here = x
  <2> HIDE DEF here
  <2> QED
    BY <1>2, <1>3 DEF here
<1>5. start_in_bytes <= here /\ (b + 1) * BlockSize <= start_in_bytes + length
  BY <1>3, <1>4 DEF CoveredWhole
<1> QED
  BY <1>1, <1>5 DEF Whole

\* Discard_block empties the entry of every block that is wholly inside its
\* range before it returns success, whichever calls fail on the way: unlike
\* the stree mechanism, the code looks at the result of each write of nil.
THEOREM DiscardsFreeWholeBlocks == Spec => FreesWholeBlocks
<1>1. Init => FreesInv
  BY InitFrees
<1>2. IInv /\ FreesInv /\ [Next]_vars => FreesInv'
  BY NextKeepsFrees
<1>3. IInv /\ FreesInv /\ [Next]_vars =>
        [DiscardReturnsOk =>
           \A x \in 0 .. DeviceSize - 1 :
             CoveredWhole(x) => rawstore'[BlockNumber(x)] = Empty]_vars
  BY ReturningFrees, CoveredIsWhole
<1> QED
  BY <1>1, <1>2, <1>3, Invariance, PTL DEF Spec, FreesWholeBlocks
=============================================================================
