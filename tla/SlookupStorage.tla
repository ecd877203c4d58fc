--------------------------- MODULE SlookupStorage ---------------------------
(***************************************************************************)
(* Zosbd2_slookup_i_storage_mechanism: Read_block, Write_block and         *)
(* Discard_block over a slookup, a table that has an entry for every block *)
(* number.  The loops are those of StreeStorage, but block numbers are     *)
(* uint32, an entry is never "not found", and a whole block is discarded   *)
(* by writing an empty value to its entry, whose failure is reported.      *)
(***************************************************************************)
EXTENDS Integers, BlockArithmetic, DataPipeline

CONSTANTS
  DeviceSize,   \* bytes of the block device; need not be whole blocks
  BufSize,      \* bytes of the caller's buffer
  Byte,         \* values of a byte
  Zero,         \* the zero byte
  Empty,        \* an entry never written, or written with nil
  EmptyReads,   \* what the slookup returns for such an entry: a block of
                \* "zeros", or "nothing" (no bytes)
  Faulty        \* the external calls that may fail

\* The kernel makes no device of more than 3221225472 blocks of 4096 bytes
\* (CREATE_DEVICE_MAX_NUMBER_BLOCK_COUNT), so 2^32 - 1 blocks of that size,
\* or of a larger one, always suffice.
ASSUME SlookupDeviceSize == DeviceSize \in 1 .. (U32 - 1) * BlockSize
ASSUME SlookupBufSize == BufSize \in Nat /\ BlockSize + BufSize <= U32
ASSUME SlookupByte == Zero \in Byte /\ Junk \notin Byte
ASSUME SlookupEmptyReads == EmptyReads \in {"zeros", "nothing"}
ASSUME SlookupFaulty == Faulty \subseteq {"fetch", "update", "pipe"}

VARIABLES
  rawstore,             \* the slookup: a stored block, or Empty, in each entry
  pc,                   \* the loop that runs: "idle", "read", "write",
                        \* "discard" or "delete"
  start_in_bytes, length, data,   \* the arguments of the call
  currentblock, offsetinblock,    \* the block the loop has reached
  done,                 \* howmuchread (and dataoutcopypos), written (and readpos)
  discard_range_start, discard_range_end,   \* whole blocks to empty, or -1
  ret                   \* what the last call returned

args == <<start_in_bytes, length>>
discard_range == <<discard_range_start, discard_range_end>>
loop == <<currentblock, offsetinblock, done, discard_range>>
vars == <<rawstore, pc, args, data, loop, ret>>

\* The block a position is in, cut to a uint32.
BlockNumber_NarrowStart(start) == FirstBlock(start % U32)   \* mutated: cut too early
BlockNumber(start) == FirstBlock(start) % U32

Blocks == {BlockNumber(x) : x \in 0 .. DeviceSize - 1}

ZeroBlock == [j \in 0 .. BlockSize - 1 |-> Zero]

Buffer == [0 .. BufSize - 1 -> Byte]

Failed(block) == [ok |-> FALSE, block |-> block]
Got(block)    == [ok |-> TRUE, block |-> block]

-----------------------------------------------------------------------------
(***************************************************************************)
(* read_one_block and write_one_block, as the sets of their outcomes.      *)
(***************************************************************************)
\* Whatever the slookup returns goes through the pipeline, and must be as
\* long as a block afterwards.
read_one_block_Pads(block_num) ==   \* mutated: what is too short is padded first
  LET entry == rawstore[block_num]
  IN  (IF Faulty \intersect {"fetch", "pipe"} # {} THEN {Failed(ZeroBlock)} ELSE {})
        \union
      {Got(PipedOut(IF entry # Empty THEN entry
                                     ELSE [bytes |-> ZeroBlock, layers |-> <<>>]))}
read_one_block(block_num) ==
  LET entry == rawstore[block_num]
  IN  (IF Faulty \intersect {"fetch", "pipe"} # {} THEN {Failed(ZeroBlock)} ELSE {})
        \union
      (CASE entry # Empty -> {Got(PipedOut(entry))}
         [] entry = Empty /\ EmptyReads = "zeros" ->
              {Got(PipedOut([bytes |-> ZeroBlock, layers |-> <<>>]))}
         [] OTHER -> {Failed(ZeroBlock)})

\* A failed write of an entry may have reached the slookup or not.
Put(block_num, entry) ==
  LET stored == [rawstore EXCEPT ![block_num] = entry]
  IN  {[ok |-> TRUE, store |-> stored]}
        \union (IF "update" \in Faulty
                  THEN {[ok |-> FALSE, store |-> s] : s \in {rawstore, stored}}
                  ELSE {})

write_one_block(block_num, block) ==
  Put(block_num, PipedIn(block))
    \union (IF "pipe" \in Faulty THEN {[ok |-> FALSE, store |-> rawstore]} ELSE {})

\* Cases 1, 2 and 4 of the code read the old block first.
prefetch(partial) ==
  IF partial THEN read_one_block(currentblock) ELSE {Got(ZeroBlock)}

-----------------------------------------------------------------------------
Init ==
  /\ rawstore = [b \in Blocks |-> Empty]
  /\ pc = "idle"
  /\ start_in_bytes = 0 /\ length = 0
  /\ data = [i \in 0 .. BufSize - 1 |-> Zero]
  /\ currentblock = 0 /\ offsetinblock = 0 /\ done = 0
  /\ discard_range_start = -1 /\ discard_range_end = -1
  /\ ret = "none"

\* Entry of Read_block, Write_block and Discard_block, as in StreeStorage.
Call(op, start, len, buffer) ==
  /\ pc = "idle"
  /\ start + len <= DeviceSize /\ len < U32
  /\ op = "write" => len <= BufSize
  /\ pc' = op
  /\ start_in_bytes' = start /\ length' = len /\ data' = buffer
  /\ currentblock' = BlockNumber(start) /\ offsetinblock' = FirstOffset(start)
  /\ done' = 0
  /\ discard_range_start' = -1 /\ discard_range_end' = -1
  /\ UNCHANGED <<rawstore, ret>>

\* The call returns and its local variables go.
Return(result) ==
  /\ pc' = "idle" /\ ret' = result
  /\ start_in_bytes' = 0 /\ length' = 0
  /\ currentblock' = 0 /\ offsetinblock' = 0 /\ done' = 0
  /\ discard_range_start' = -1 /\ discard_range_end' = -1

\* The last lines of each loop.
NextBlock(amount) ==
  /\ currentblock' = (currentblock + 1) % U32
  /\ offsetinblock' = 0
  /\ done' = done + amount

\* One block is read, overlaid with amount bytes of src, and written back.
\* A failure ends the call.
UpdateBlock(absoluteend, src, pos) ==
  LET end == Clip(absoluteend)
  IN  \E old \in prefetch(IsPartial(offsetinblock, absoluteend)) :
        \/ /\ ~old.ok
           /\ Return("error")
           /\ UNCHANGED rawstore
        \/ /\ old.ok
           /\ \E new \in write_one_block(currentblock,
                  Overlay(old.block, offsetinblock, end, src, pos)) :
                /\ rawstore' = new.store
                /\ \/ /\ ~new.ok
                      /\ Return("error")
                   \/ /\ new.ok
                      /\ NextBlock(end - offsetinblock)
                      /\ UNCHANGED <<pc, args, discard_range, ret>>

-----------------------------------------------------------------------------
(***************************************************************************)
(* Read_block                                                              *)
(***************************************************************************)
ReadTooLong ==
  /\ pc = "read" /\ BufSize < length
  /\ Return("error")
  /\ UNCHANGED <<rawstore, data>>

ReadOne ==
  /\ pc = "read" /\ length <= BufSize /\ done < length
  /\ LET end == Clip(End32(offsetinblock, length - done))
         amounttoread == end - offsetinblock
     IN  \E read \in read_one_block(currentblock) :
           \/ /\ ~read.ok
              /\ Return("error")
              /\ UNCHANGED data
           \/ /\ read.ok
              /\ data' = [i \in DOMAIN data |->
                            IF done <= i /\ i < done + amounttoread
                              THEN read.block[offsetinblock + i - done]
                              ELSE data[i]]
              /\ NextBlock(amounttoread)
              /\ UNCHANGED <<pc, args, discard_range, ret>>
  /\ UNCHANGED rawstore

ReadDone ==
  /\ pc = "read" /\ length <= BufSize /\ done >= length
  /\ Return("ok")
  /\ UNCHANGED <<rawstore, data>>

-----------------------------------------------------------------------------
(***************************************************************************)
(* Write_block                                                             *)
(***************************************************************************)
WriteOne ==
  /\ pc = "write" /\ done < length
  /\ UpdateBlock(End32(offsetinblock, length - done), data, done)
  /\ UNCHANGED data

WriteDone ==
  /\ pc = "write" /\ done >= length
  /\ Return("ok")
  /\ UNCHANGED <<rawstore, data>>

-----------------------------------------------------------------------------
(***************************************************************************)
(* Discard_block: partial blocks are zeroed in place, whole blocks are     *)
(* gathered in a range whose entries are emptied at the end.               *)
(***************************************************************************)
absoluteend64 == End64(offsetinblock, length - done)

DiscardPartial ==
  /\ pc = "discard" /\ done < length
  /\ IsPartial(offsetinblock, absoluteend64)
  /\ UpdateBlock(absoluteend64, ZeroBlock, 0)
  /\ UNCHANGED data

DiscardWhole ==
  /\ pc = "discard" /\ done < length
  /\ ~IsPartial(offsetinblock, absoluteend64)
  /\ NextBlock(Clip(absoluteend64) - offsetinblock)
  /\ discard_range_start' = IF discard_range_start = -1 THEN currentblock
                                                       ELSE discard_range_start
  /\ discard_range_end' = currentblock
  /\ UNCHANGED <<rawstore, pc, args, data, ret>>

\* Also the early return of a discard of no bytes.
DiscardNothingWhole ==
  /\ pc = "discard" /\ done >= length /\ discard_range_start = -1
  /\ Return("ok")
  /\ UNCHANGED <<rawstore, data>>

StartEmptying ==
  /\ pc = "discard" /\ done >= length /\ discard_range_start # -1
  /\ pc' = "delete"
  /\ currentblock' = discard_range_start
  /\ UNCHANGED <<rawstore, args, data, offsetinblock, done, discard_range, ret>>

\* Write(currentblock, nil): the entry stays, its value becomes empty.  The
\* loop counter is a uint32, and an error ends the call.
EmptyOne_DropsError ==   \* mutated: errors are ignored, as with the stree
  /\ pc = "delete" /\ currentblock <= discard_range_end
  /\ \E new \in Put(currentblock, Empty) :
       /\ rawstore' = new.store
       /\ currentblock' = (currentblock + 1) % U32
       /\ UNCHANGED <<pc, args, offsetinblock, done, discard_range, ret>>
  /\ UNCHANGED data
EmptyOne_Narrow ==   \* mutated: the counter is narrower than the range
  /\ pc = "delete" /\ currentblock <= discard_range_end
  /\ \E new \in Put(currentblock, Empty) :
       /\ rawstore' = new.store
       /\ \/ /\ ~new.ok
             /\ Return("error")
          \/ /\ new.ok
             /\ currentblock' = (currentblock + 1) % (U32 \div 2)
             /\ UNCHANGED <<pc, args, offsetinblock, done, discard_range, ret>>
  /\ UNCHANGED data
EmptyOne ==
  /\ pc = "delete" /\ currentblock <= discard_range_end
  /\ \E new \in Put(currentblock, Empty) :
       /\ rawstore' = new.store
       /\ \/ /\ ~new.ok
             /\ Return("error")
          \/ /\ new.ok
             /\ currentblock' = (currentblock + 1) % U32
             /\ UNCHANGED <<pc, args, offsetinblock, done, discard_range, ret>>
  /\ UNCHANGED data

EmptyDone ==
  /\ pc = "delete" /\ currentblock > discard_range_end
  /\ Return("ok")
  /\ UNCHANGED <<rawstore, data>>

-----------------------------------------------------------------------------
Step ==
  \/ ReadTooLong \/ ReadOne \/ ReadDone
  \/ WriteOne \/ WriteDone
  \/ DiscardPartial \/ DiscardWhole \/ DiscardNothingWhole
  \/ StartEmptying \/ EmptyOne \/ EmptyDone

SomeCall ==
  \E op \in {"read", "write", "discard"}, start \in 0 .. DeviceSize - 1,
     len \in 0 .. DeviceSize, buffer \in Buffer : Call(op, start, len, buffer)

Next == SomeCall \/ Step

Spec == Init /\ [][Next]_vars

-----------------------------------------------------------------------------
(***************************************************************************)
(* Correctness                                                             *)
(***************************************************************************)
StoredBlocks ==
  [bytes : [0 .. BlockSize - 1 -> Byte \union {Junk}], layers : {PipeInOrder}]

\* An entry that was never written can be told from one that was.
ASSUME SlookupEmpty == Empty \notin StoredBlocks

Types ==
  /\ rawstore \in [Blocks -> StoredBlocks \union {Empty}]
  /\ pc \in {"idle", "read", "write", "discard", "delete"}
  /\ start_in_bytes \in 0 .. DeviceSize - 1 /\ length \in 0 .. U32 - 1
  /\ data \in [0 .. BufSize - 1 -> Byte \union {Junk}]
  /\ currentblock \in 0 .. U32 - 1 /\ offsetinblock \in 0 .. BlockSize - 1
  /\ done \in 0 .. U32 - 1
  /\ discard_range_start \in Blocks \union {-1}
  /\ discard_range_end \in Blocks \union {-1}
  /\ ret \in {"none", "ok", "error"}

\* The loop has a block still to visit; at its end it stands one past them.
Visiting == pc \in {"read", "write", "discard"} /\ done < length
Emptying == pc = "delete" /\ currentblock <= discard_range_end

\* Every variable keeps its type.  The uint32 that a loop counts blocks with
\* is the number of the block that holds the position it has reached, never
\* a number cut or wrapped to 32 bits, and every entry it uses is that of a
\* block of the device.
TypeOK ==
  /\ Types
  /\ Visiting => currentblock = (start_in_bytes + done) \div BlockSize
  /\ Visiting \/ Emptying =>
       currentblock \in 0 .. (DeviceSize - 1) \div BlockSize

\* Whatever has been gathered, and whatever is still to be emptied, lies
\* wholly inside the discarded range.
EmptiesOnlyWholeBlocks ==
  discard_range_start # -1 =>
    /\ discard_range_start <= discard_range_end
    /\ start_in_bytes <= discard_range_start * BlockSize
    /\ (discard_range_end + 1) * BlockSize <= start_in_bytes + length
    /\ pc = "delete" => currentblock \in discard_range_start .. discard_range_end + 1

\* A discard that returns success has emptied the entry of every block it
\* covers whole, although any of the writes that empty them may fail.
CoveredWhole(x) ==
  /\ start_in_bytes <= x /\ x % BlockSize = 0
  /\ x + BlockSize <= start_in_bytes + length

DiscardReturnsOk ==
  pc \in {"discard", "delete"} /\ pc' = "idle" /\ ret' = "ok"

FreesWholeBlocks ==
  [][DiscardReturnsOk =>
       \A x \in 0 .. DeviceSize - 1 :
         CoveredWhole(x) => rawstore'[BlockNumber(x)] = Empty]_vars

\* Every call returns; the loop over the range to empty ends although its
\* counter is as wide as the block numbers it runs through.
CallReturns == pc # "idle" ~> pc = "idle"

\* The byte of the device that a read of position x would find.
DiskByte(x) ==
  LET entry == rawstore[BlockNumber(x)]
  IN  IF entry = Empty THEN Zero ELSE PipedOut(entry)[x % BlockSize]

\* The storage mechanism implements its contract: the bytes of the range and
\* no others take the values asked for, success means all of them did, and
\* what was never written, or was discarded, reads as zeros, or fails if the
\* slookup has nothing to return for it.
Contract == INSTANCE StorageMechanism WITH
  disk <- [x \in 0 .. DeviceSize - 1 |-> DiskByte(x)],
  call <- [op |-> IF pc = "delete" THEN "discard" ELSE pc,
           start |-> start_in_bytes, length |-> length],
  MayFail <- Faulty # {} \/ EmptyReads = "nothing"

ImplementsStorageMechanism == Contract!Spec
=============================================================================
