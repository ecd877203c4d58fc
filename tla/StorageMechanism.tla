-------------------------- MODULE StorageMechanism --------------------------
(***************************************************************************)
(* What the caller of a Storage_mechanism may rely on.  The storage is an  *)
(* array of bytes.  A call reads, writes or discards a range of it; while  *)
(* the call runs, bytes of the range take their new values one by one, in  *)
(* any order; bytes outside the range never change.  A call that returns   *)
(* without an error has done all of its work.  A call that returns an      *)
(* error has done some of it.                                              *)
(***************************************************************************)
EXTENDS Integers

CONSTANTS
  DeviceSize,   \* bytes of the block device
  BufSize,      \* bytes of the caller's buffer
  Byte,         \* the values of a byte
  Zero,         \* what a byte never written, or discarded, reads as
  MayFail       \* can the storage below fail?

VARIABLES
  disk,   \* the contents of the device
  call,   \* the call in progress, or NoCall
  data,   \* the caller's buffer
  ret     \* what the last call returned

vars == <<disk, call, data, ret>>

NoCall == [op |-> "idle", start |-> 0, length |-> 0]

Buffer == [0 .. BufSize - 1 -> Byte]

Covered(x) == call.start <= x /\ x < call.start + call.length

Target(x) == IF call.op = "write" THEN data[x - call.start] ELSE Zero

Init ==
  /\ disk \in [0 .. DeviceSize - 1 -> {Zero}]
  /\ call = NoCall
  /\ data \in Buffer
  /\ ret = "none"

Issue ==
  /\ call = NoCall
  /\ call' \in [op : {"read", "write", "discard"}, start : 0 .. DeviceSize - 1,
                length : 0 .. DeviceSize]
  /\ call'.start + call'.length <= DeviceSize
  /\ data' \in Buffer
  /\ UNCHANGED <<disk, ret>>

\* Some bytes of the range are written or discarded, or read into the buffer.
Change ==
  /\ call.op \in {"write", "discard"}
  /\ \A x \in DOMAIN disk :
       disk'[x] # disk[x] => Covered(x) /\ disk'[x] = Target(x)
  /\ DOMAIN disk' = DOMAIN disk
  /\ UNCHANGED <<call, data, ret>>

Fill ==
  /\ call.op = "read"
  /\ \A i \in DOMAIN data :
       data'[i] # data[i] => i < call.length /\ data'[i] = disk[call.start + i]
  /\ DOMAIN data' = DOMAIN data
  /\ UNCHANGED <<disk, call, ret>>

ReturnOk ==
  /\ call # NoCall
  /\ IF call.op = "read"
       THEN /\ call.length <= BufSize
            /\ \A i \in 0 .. call.length - 1 : data[i] = disk[call.start + i]
       ELSE \A x \in DOMAIN disk : Covered(x) => disk[x] = Target(x)
  /\ call' = NoCall
  /\ ret' = "ok"
  /\ UNCHANGED <<disk, data>>

\* The failing step may itself have changed bytes of the range.
ReturnError ==
  /\ call # NoCall
  /\ MayFail \/ (call.op = "read" /\ call.length > BufSize)
  /\ \A x \in DOMAIN disk :
       disk'[x] # disk[x] =>
         call.op # "read" /\ Covered(x) /\ disk'[x] = Target(x)
  /\ DOMAIN disk' = DOMAIN disk
  /\ call' = NoCall
  /\ ret' = "error"
  /\ UNCHANGED data

Next == Issue \/ Change \/ Fill \/ ReturnOk \/ ReturnError

Spec == Init /\ [][Next]_vars
=============================================================================
