---------------------------- MODULE StreeStorage ----------------------------
(***************************************************************************)
(* Zosbd2_stree_v_storage_mechanism: Read_block, Write_block and           *)
(* Discard_block over a stree, a tree that stores one block per key.  One  *)
(* action is one turn of a loop: the block it reads, mutates and stores,   *)
(* with every way the store or the pipeline can fail.  The block device    *)
(* handler calls it one call at a time.                                    *)
(***************************************************************************)
EXTENDS Integers, BlockArithmetic, DataPipeline

CONSTANTS
  DeviceSize,   \* bytes of the block device; need not be whole blocks
  BufSize,      \* bytes of the caller's buffer, the part of the kernel
                \* buffer that follows the operation struct
  Byte,         \* values of a byte
  Zero,         \* the zero byte
  Absent,       \* what the stree holds under a key it does not have
  Faulty        \* the external calls that may fail

ASSUME DeviceSizeAssumption == DeviceSize \in Nat \ {0}
ASSUME BufSizeAssumption == BufSize \in Nat /\ BlockSize + BufSize <= U32
ASSUME ByteAssumption == Zero \in Byte /\ Junk \notin Byte
ASSUME FaultyAssumption == Faulty \subseteq {"fetch", "update", "delete", "pipe"}

VARIABLES
  rawstore,             \* the stree: a stored block, or Absent, under each key
  pc,                   \* the loop that runs: "idle", "read", "write",
                        \* "discard" or "delete"
  start_in_bytes, length, data,   \* the arguments of the call
  currentblock, offsetinblock,    \* the block the loop has reached
  done,                 \* howmuchread (and dataoutcopypos), written (and readpos)
  discard_range_start, discard_range_end,   \* whole blocks to delete, or -1
  ret                   \* what the last call returned

args == <<start_in_bytes, length>>
discard_range == <<discard_range_start, discard_range_end>>
loop == <<currentblock, offsetinblock, done, discard_range>>
vars == <<rawstore, pc, args, data, loop, ret>>

Blocks == 0 .. (DeviceSize - 1) \div BlockSize

\* The key of a block: its number as eight bytes, little endian.
Generate_key_from_block_num(block_num) ==
  LET d1 == block_num \div 256
      d2 == d1 \div 256
      d3 == d2 \div 256
      d4 == d3 \div 256
      d5 == d4 \div 256
      d6 == d5 \div 256
      d7 == d6 \div 256
  IN  <<block_num % 256, d1 % 256, d2 % 256, d3 % 256,
        d4 % 256, d5 % 256, d6 % 256, d7 % 256>>

Keys == {Generate_key_from_block_num(b) : b \in Blocks}

ZeroBlock == [j \in 0 .. BlockSize - 1 |-> Zero]

Buffer == [0 .. BufSize - 1 -> Byte]

-----------------------------------------------------------------------------
(***************************************************************************)
(* read_one_block and write_one_block, as the sets of their outcomes.      *)
(***************************************************************************)
\* A key the stree does not have reads as zeros, without the pipeline.
read_one_block(key) ==
  LET found == rawstore[key] # Absent
      fails == "fetch" \in Faulty \/ (found /\ "pipe" \in Faulty)
  IN  {[ok |-> TRUE, block |-> IF found THEN PipedOut(rawstore[key]) ELSE ZeroBlock]}
        \union (IF fails THEN {[ok |-> FALSE, block |-> ZeroBlock]} ELSE {})

\* A failed update may have reached the stree or not.
write_one_block(key, block) ==
  LET stored == [rawstore EXCEPT ![key] = PipedIn(block)]
  IN  {[ok |-> TRUE, store |-> stored]}
        \union (IF Faulty \intersect {"pipe", "update"} # {}
                  THEN {[ok |-> FALSE, store |-> rawstore]} ELSE {})
        \union (IF "update" \in Faulty
                  THEN {[ok |-> FALSE, store |-> stored]} ELSE {})

\* Cases 1, 2 and 4 of the code read the old block first; a whole block
\* starts from the zeros of a fresh buffer.
prefetch_Never(key, partial) == {[ok |-> TRUE, block |-> ZeroBlock]}   \* mutated

prefetch(key, partial) ==
  IF partial THEN read_one_block(key) ELSE {[ok |-> TRUE, block |-> ZeroBlock]}

-----------------------------------------------------------------------------
Init ==
  /\ rawstore = [k \in Keys |-> Absent]
  /\ pc = "idle"
  /\ start_in_bytes = 0 /\ length = 0
  /\ data = [i \in 0 .. BufSize - 1 |-> Zero]
  /\ currentblock = 0 /\ offsetinblock = 0 /\ done = 0
  /\ discard_range_start = -1 /\ discard_range_end = -1
  /\ ret = "none"

\* Entry of Read_block, Write_block and Discard_block.  The kernel sends
\* ranges of the device, and never more data than the buffer holds; the
\* length of a read is the one argument the code checks against the buffer.
Call(op, start, len, buffer) ==
  /\ pc = "idle"
  /\ start + len <= DeviceSize /\ len < U32
  /\ op = "write" => len <= BufSize
  /\ pc' = op
  /\ start_in_bytes' = start /\ length' = len /\ data' = buffer
  /\ currentblock' = FirstBlock(start) /\ offsetinblock' = FirstOffset(start)
  /\ done' = 0
  /\ discard_range_start' = -1 /\ discard_range_end' = -1
  /\ UNCHANGED <<rawstore, ret>>

\* The call returns and its local variables go.
Return(result) ==
  /\ pc' = "idle" /\ ret' = result
  /\ start_in_bytes' = 0 /\ length' = 0
  /\ currentblock' = 0 /\ offsetinblock' = 0 /\ done' = 0
  /\ discard_range_start' = -1 /\ discard_range_end' = -1

\* The last lines of each loop.
NextBlock_KeepsOffset(amount) ==   \* mutated: offsetinblock is not reset
  /\ currentblock' = currentblock + 1
  /\ offsetinblock' = offsetinblock
  /\ done' = done + amount

NextBlock(amount) ==
  /\ currentblock' = currentblock + 1
  /\ offsetinblock' = 0
  /\ done' = done + amount

-----------------------------------------------------------------------------
(***************************************************************************)
(* Read_block                                                              *)
(***************************************************************************)
ReadTooLong ==
  /\ pc = "read" /\ BufSize < length
  /\ Return("error")
  /\ UNCHANGED <<rawstore, data>>

ReadOne ==
  /\ pc = "read" /\ length <= BufSize /\ done < length
  /\ LET end == Clip(End32(offsetinblock, length - done))
         amounttoread == end - offsetinblock
     IN  \E read \in read_one_block(Generate_key_from_block_num(currentblock)) :
           \/ /\ ~read.ok
              /\ Return("error")
              /\ UNCHANGED data
           \/ /\ read.ok
              /\ data' = [i \in DOMAIN data |->
                            IF done <= i /\ i < done + amounttoread
                              THEN read.block[offsetinblock + i - done]
                              ELSE data[i]]
              /\ NextBlock(amounttoread)
              /\ UNCHANGED <<pc, args, discard_range, ret>>
  /\ UNCHANGED rawstore

ReadDone ==
  /\ pc = "read" /\ length <= BufSize /\ done >= length
  /\ Return("ok")
  /\ UNCHANGED <<rawstore, data>>

-----------------------------------------------------------------------------
(***************************************************************************)
(* Write_block                                                             *)
(***************************************************************************)
WriteOne ==
  /\ pc = "write" /\ done < length
  /\ LET key == Generate_key_from_block_num(currentblock)
         absoluteend == End32(offsetinblock, length - done)
         end == Clip(absoluteend)
     IN  \E old \in prefetch(key, IsPartial(offsetinblock, absoluteend)) :
           \/ /\ ~old.ok
              /\ Return("error")
              /\ UNCHANGED rawstore
           \/ /\ old.ok
              /\ \E new \in write_one_block(key,
                     Overlay(old.block, offsetinblock, end, data, done)) :
                   /\ rawstore' = new.store
                   /\ \/ /\ ~new.ok
                         /\ Return("error")
                      \/ /\ new.ok
                         /\ NextBlock(end - offsetinblock)
                         /\ UNCHANGED <<pc, args, discard_range, ret>>
  /\ UNCHANGED data

WriteDone ==
  /\ pc = "write" /\ done >= length
  /\ Return("ok")
  /\ UNCHANGED <<rawstore, data>>

-----------------------------------------------------------------------------
(***************************************************************************)
(* Discard_block: partial blocks are zeroed in place, whole blocks are     *)
(* gathered in a range and deleted at the end.                             *)
(***************************************************************************)
DiscardPartial ==
  /\ pc = "discard" /\ done < length
  /\ LET key == Generate_key_from_block_num(currentblock)
         absoluteend == End64(offsetinblock, length - done)
         end == Clip(absoluteend)
     IN  /\ IsPartial(offsetinblock, absoluteend)
         /\ \E old \in read_one_block(key) :
              \/ /\ ~old.ok
                 /\ Return("error")
                 /\ UNCHANGED rawstore
              \/ /\ old.ok
                 /\ \E new \in write_one_block(key,
                        Overlay(old.block, offsetinblock, end, ZeroBlock, 0)) :
                      /\ rawstore' = new.store
                      /\ \/ /\ ~new.ok
                            /\ Return("error")
                         \/ /\ new.ok
                            /\ NextBlock(end - offsetinblock)
                            /\ UNCHANGED <<pc, args, discard_range, ret>>
  /\ UNCHANGED data

DiscardWhole ==
  /\ pc = "discard" /\ done < length
  /\ LET absoluteend == End64(offsetinblock, length - done)
     IN  /\ ~IsPartial(offsetinblock, absoluteend)
         /\ NextBlock(Clip(absoluteend) - offsetinblock)
  /\ discard_range_start' = IF discard_range_start = -1 THEN currentblock
                                                       ELSE discard_range_start
  /\ discard_range_end' = currentblock
  /\ UNCHANGED <<rawstore, pc, args, data, ret>>

DiscardNothingWhole ==
  /\ pc = "discard" /\ done >= length /\ discard_range_start = -1
  /\ Return("ok")
  /\ UNCHANGED <<rawstore, data>>

StartDeleting_SkipsFirst ==   \* mutated: off by one
  /\ pc = "discard" /\ done >= length /\ discard_range_start # -1
  /\ pc' = "delete"
  /\ currentblock' = discard_range_start + 1
  /\ UNCHANGED <<rawstore, args, data, offsetinblock, done, discard_range, ret>>

StartDeleting ==
  /\ pc = "discard" /\ done >= length /\ discard_range_start # -1
  /\ pc' = "delete"
  /\ currentblock' = discard_range_start
  /\ UNCHANGED <<rawstore, args, data, offsetinblock, done, discard_range, ret>>

\* The code drops what Delete returns.
DeleteOne_Stays ==   \* mutated: currentblock++ is missing
  /\ pc = "delete" /\ currentblock <= discard_range_end
  /\ rawstore' = [rawstore EXCEPT
                    ![Generate_key_from_block_num(currentblock)] = Absent]
  /\ UNCHANGED <<pc, args, data, loop, ret>>

DeleteOne ==
  /\ pc = "delete" /\ currentblock <= discard_range_end
  /\ \/ rawstore' = [rawstore EXCEPT
                       ![Generate_key_from_block_num(currentblock)] = Absent]
     \/ "delete" \in Faulty /\ rawstore' = rawstore
  /\ currentblock' = currentblock + 1
  /\ UNCHANGED <<pc, args, data, offsetinblock, done, discard_range, ret>>

DeleteDone ==
  /\ pc = "delete" /\ currentblock > discard_range_end
  /\ Return("ok")
  /\ UNCHANGED <<rawstore, data>>

-----------------------------------------------------------------------------
Step ==
  \/ ReadTooLong \/ ReadOne \/ ReadDone
  \/ WriteOne \/ WriteDone
  \/ DiscardPartial \/ DiscardWhole \/ DiscardNothingWhole
  \/ StartDeleting \/ DeleteOne \/ DeleteDone

SomeCall ==
  \E op \in {"read", "write", "discard"}, start \in 0 .. DeviceSize - 1,
     len \in 0 .. DeviceSize, buffer \in Buffer : Call(op, start, len, buffer)

Next == SomeCall \/ Step

Spec == Init /\ [][Next]_vars

\* The code that runs a call is sequential and never waits for another
\* thread; it calls the store and the pipeline, which are taken to return.
FairSpec == Spec /\ WF_vars(Step)

-----------------------------------------------------------------------------
(***************************************************************************)
(* Correctness                                                             *)
(***************************************************************************)
StoredBlocks ==
  [bytes : [0 .. BlockSize - 1 -> Byte \union {Junk}], layers : {PipeInOrder}]

\* A key the stree does not have can be told from one it has.
ASSUME StreeAbsent == Absent \notin StoredBlocks

Types ==
  /\ rawstore \in [Keys -> StoredBlocks \union {Absent}]
  /\ pc \in {"idle", "read", "write", "discard", "delete"}
  /\ start_in_bytes \in 0 .. DeviceSize - 1 /\ length \in 0 .. U32 - 1
  /\ data \in [0 .. BufSize - 1 -> Byte \union {Junk}]
  /\ currentblock \in Nat /\ offsetinblock \in 0 .. BlockSize - 1
  /\ done \in 0 .. U32 - 1
  /\ discard_range_start \in Blocks \union {-1}
  /\ discard_range_end \in Blocks \union {-1}
  /\ ret \in {"none", "ok", "error"}

\* The loop has a block still to visit; at its end it stands one past them.
AtABlock ==
  \/ pc \in {"read", "write", "discard"} /\ done < length
  \/ pc = "delete" /\ currentblock <= discard_range_end

\* Every variable keeps its type, no byte counter leaves the range of a
\* uint32, and the block that a loop reads, stores or deletes next is one of
\* the device's: no loop runs past the end of the device.
TypeOK == Types /\ (AtABlock => currentblock \in Blocks)

\* The loop of a call stands exactly `done' bytes into its range: block and
\* offset (advanced separately, one reset and one incremented per turn) and
\* the position in the buffer never drift apart, so no byte of the range is
\* skipped, visited twice, or taken from the wrong place in the buffer.
LoopPosition ==
  pc \in {"read", "write", "discard"} =>
    /\ done <= length
    /\ \/ currentblock * BlockSize + offsetinblock = start_in_bytes + done
       \/ done = length /\ offsetinblock = 0
          /\ currentblock * BlockSize >= start_in_bytes + done

\* The blocks gathered for deletion lie wholly inside the discarded range:
\* a discard never deletes the bytes next to it, whatever its alignment and
\* however close its length is to 2^32.
DeletesOnlyWholeBlocks ==
  discard_range_start # -1 =>
    /\ discard_range_start <= discard_range_end
    /\ start_in_bytes <= discard_range_start * BlockSize
    /\ (discard_range_end + 1) * BlockSize <= start_in_bytes + length

\* A discard that returns success frees the space of every block it covers
\* whole, instead of storing zeros in it.
CoveredWhole(b) ==
  /\ start_in_bytes <= b * BlockSize
  /\ (b + 1) * BlockSize <= start_in_bytes + length

DiscardReturnsOk ==
  pc \in {"discard", "delete"} /\ pc' = "idle" /\ ret' = "ok"

FreesWholeBlocks ==
  [][DiscardReturnsOk =>
       \A b \in Blocks : CoveredWhole(b) =>
         rawstore'[Generate_key_from_block_num(b)] = Absent]_vars

\* Every call returns.
CallReturns == pc # "idle" ~> pc = "idle"

\* The byte of the device that a read of position x would find.
DiskByte(x) ==
  LET stored == rawstore[Generate_key_from_block_num(x \div BlockSize)]
  IN  IF stored = Absent THEN Zero ELSE PipedOut(stored)[x % BlockSize]

\* The storage mechanism implements its contract: the bytes of the range and
\* no others take the values asked for, success means all of them did, and a
\* call fails only if the stree or the pipeline did.
Contract == INSTANCE StorageMechanism WITH
  disk <- [x \in 0 .. DeviceSize - 1 |-> DiskByte(x)],
  call <- [op |-> IF pc = "delete" THEN "discard" ELSE pc,
           start |-> start_in_bytes, length |-> length],
  MayFail <- Faulty # {}

ImplementsStorageMechanism == Contract!Spec
=============================================================================
