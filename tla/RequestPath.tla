---------------------------- MODULE RequestPath ----------------------------
(***************************************************************************)
(* One request of the kernel on its way through Respond_to_read_request,   *)
(* Respond_to_write_request or respond_to_discard_request to the Ramdisk   *)
(* of zosbd2cmd.  The request is a list of segments of the device, whose   *)
(* data lie one behind the other in the kernel buffer; validate_adjacency  *)
(* merges them to one range, and the Ramdisk cuts the range to chunks.     *)
(***************************************************************************)
EXTENDS Integers, Sequences

CONSTANTS
  DeviceSize,    \* bytes of the block device
  MaxSegments,   \* MAX_BIO_SEGMENTS_PER_REQUEST: 256
  ChunkSize,     \* what Write_block stores at a time: 4096
  BlockSize,     \* m_block_size, what Read_block copies at a time
  BufSize,       \* MAX_BIO_SEGMENTS_BUFFER_SIZE_PER_REQUEST: 256 * 4096
  U32,           \* the number of values of a uint32
  Byte, Zero     \* values of a byte, and the zero byte

ASSUME RequestPathAssumption ==
  /\ {DeviceSize, MaxSegments, ChunkSize, BlockSize, U32} \subseteq Nat \ {0}
  /\ BufSize = MaxSegments * ChunkSize /\ BufSize < U32
  /\ Zero \in Byte

VARIABLES
  ramdisk,    \* byte position -> the chunk written there
  pc,         \* "idle", "arrived", "adjacent" (the loop over the segments),
              \* "read" or "write" (the loops of the Ramdisk), "discard", or
              \* "panicked"
  request,    \* the request being served
  lp, verify_start,         \* the segments visited, and where the next must be
  start_in_bytes, length,   \* the range: entire_start and entire_length, which
                            \* the loop of the Ramdisk then moves
  start_copy_location,      \* where in the buffer the loop stands
  data,       \* the part of the kernel buffer that holds the data
  answer,     \* what became of the last request: "ok" or "error" in a
              \* response, or "rejected" without one
  before      \* history: the device when the last request was done

visited == <<lp, verify_start>>
range == <<start_in_bytes, length, start_copy_location>>
vars == <<ramdisk, pc, request, visited, range, data, answer, before>>

\* Segments lie on the device.  The place of a segment is where in the buffer
\* its data lie: that is agreed with the kernel, the code never looks at it.
Segment ==
  {s \in [start : 0 .. DeviceSize - 1, length : 0 .. DeviceSize, place : Nat] :
     s.start + s.length <= DeviceSize}

NoRequest == [op |-> "none", segments |-> <<>>]

\* The device, as a read of one byte would find it.
Disk ==
  [x \in 0 .. DeviceSize - 1 |->
     LET chunk == x - (x % ChunkSize)
     IN  IF chunk \in DOMAIN ramdisk THEN ramdisk[chunk][x - chunk] ELSE Zero]

\* The data of the segments lie one behind the other.
Placed(segments) ==
  \A i \in DOMAIN segments :
    segments[i].place =
      IF i = 1 THEN 0 ELSE segments[i - 1].place + segments[i - 1].length

\* The bytes of all segments together.
Total(segments) ==
  LET n == Len(segments)
  IN  IF n = 0 THEN 0 ELSE segments[n].place + segments[n].length

Init ==
  /\ ramdisk = [x \in {} |-> Zero]
  /\ pc = "idle"
  /\ request = NoRequest
  /\ lp = 0 /\ verify_start = 0
  /\ start_in_bytes = 0 /\ length = 0 /\ start_copy_location = 0
  /\ data = [i \in 0 .. BufSize - 1 |-> Zero]
  /\ answer = "none"
  /\ before = Disk

-----------------------------------------------------------------------------
(***************************************************************************)
(* The checks of the Respond functions                                     *)
(***************************************************************************)
\* Only reads have a check of the number of segments.
Validate_read_request_OffByOne(op, segments) ==   \* mutated: the limit is the size
  op = "read" => Len(segments) \in 1 .. MaxSegments + 1
Validate_read_request(op, segments) ==
  op = "read" => Len(segments) \in 1 .. MaxSegments

\* A request begins at a block of the device and is whole blocks long, however
\* it is cut into segments.  The data of a read or write fit the buffer.  That
\* there are no more segments than the metadata has room for, and that the
\* length of a discard is a uint32, is not taken for granted here.
KernelSends(op, segments) ==
  /\ Placed(segments)
  /\ op # "discard" => Total(segments) <= BufSize
  /\ Total(segments) % ChunkSize = 0
  /\ segments # <<>> => segments[1].start % ChunkSize = 0

Arrive(op, segments, buffer) ==
  /\ pc = "idle"
  /\ KernelSends(op, segments)
  /\ pc' = "arrived"
  /\ request' = [op |-> op, segments |-> segments]
  /\ data' = buffer
  /\ UNCHANGED <<ramdisk, visited, range, answer, before>>

\* The Respond function returns, with a response to the request or without.
Return(result) ==
  /\ pc' = "idle" /\ answer' = result
  /\ request' = NoRequest
  /\ lp' = 0 /\ verify_start' = 0
  /\ start_in_bytes' = 0 /\ length' = 0 /\ start_copy_location' = 0
  /\ before' = Disk

Panic ==
  /\ pc' = "panicked"
  /\ UNCHANGED <<request, visited, range, data, answer, before>>

Validate ==
  /\ pc = "arrived"
  /\ IF Validate_read_request(request.op, request.segments)
       THEN pc' = "adjacent" /\ UNCHANGED <<request, visited, range, answer, before>>
       ELSE Return("rejected")
  /\ UNCHANGED <<ramdisk, data>>

\* Is a segment where the last one ended?
Adjacent_OnlyStarts(entry) ==   \* mutated: segments need only ascend
  lp > 0 => verify_start <= entry.start
Adjacent(entry) ==
  lp > 0 => verify_start = entry.start

Entire_start_Last(entry) ==   \* mutated: set at each segment
  entry.start
Entire_start_Narrow(entry) ==   \* mutated: the start is a uint32, too
  IF lp = 0 THEN entry.start % U32 ELSE start_in_bytes
Entire_start(entry) ==
  IF lp = 0 THEN entry.start ELSE start_in_bytes

\* One turn of the loop of validate_adjacency.  The lengths are added in 32
\* bits; an index past the entries of the metadata is a panic.
VisitSegment ==
  /\ pc = "adjacent" /\ lp < Len(request.segments)
  /\ LET entry == request.segments[lp + 1]
         len == entry.length % U32
     IN  IF lp >= MaxSegments THEN Panic
         ELSE IF Adjacent(entry)
           THEN /\ lp' = lp + 1
                /\ verify_start' = entry.start + len
                /\ start_in_bytes' = Entire_start(entry)
                /\ length' = (length + len) % U32
                /\ UNCHANGED <<pc, request, start_copy_location, answer, before>>
           ELSE Return("rejected")
  /\ UNCHANGED <<ramdisk, data>>

\* The segments are one range: the storage is called for it.
AllVisited ==
  /\ pc = "adjacent" /\ lp = Len(request.segments)
  /\ pc' = request.op
  /\ UNCHANGED <<ramdisk, request, visited, range, data, answer, before>>

-----------------------------------------------------------------------------
(***************************************************************************)
(* The Ramdisk                                                             *)
(***************************************************************************)
\* A slice of the buffer that ends behind it is a panic.
Panics(size) == start_copy_location + size > BufSize

\* length is a uint32: below zero it starts again from the top.
Advance_StaysInBuffer(size) ==   \* mutated: the place in the buffer stays
  /\ start_in_bytes' = start_in_bytes + size
  /\ length' = (length - size) % U32
  /\ start_copy_location' = start_copy_location
  /\ UNCHANGED <<pc, request, visited, answer, before>>
Advance_TooLittle(size) ==   \* mutated: the length is off by one
  /\ start_in_bytes' = start_in_bytes + size
  /\ length' = (length - (size - 1)) % U32
  /\ start_copy_location' = start_copy_location + size
  /\ UNCHANGED <<pc, request, visited, answer, before>>
Advance(size) ==
  /\ start_in_bytes' = start_in_bytes + size
  /\ length' = (length - size) % U32
  /\ start_copy_location' = start_copy_location + size
  /\ UNCHANGED <<pc, request, visited, answer, before>>

\* What is not there is a block of zeros; what is there is one chunk, which
\* is too short for a larger block.
ReadChunk ==
  /\ pc = "read" /\ length > 0
  /\ LET block == IF start_in_bytes \in DOMAIN ramdisk THEN ramdisk[start_in_bytes]
                  ELSE [j \in 0 .. BlockSize - 1 |-> Zero]
         copied == [i \in DOMAIN data |->
                      LET j == i - start_copy_location
                      IN  IF j \in DOMAIN block /\ j < BlockSize THEN block[j] ELSE data[i]]
     IN  IF Panics(BlockSize) THEN Panic
         ELSE /\ data' = copied
              /\ IF BlockSize - 1 \in DOMAIN block THEN Advance(BlockSize) ELSE Return("error")
  /\ UNCHANGED ramdisk

WriteChunk ==
  /\ pc = "write" /\ length > 0
  /\ IF Panics(ChunkSize) THEN Panic /\ UNCHANGED ramdisk
     ELSE /\ ramdisk' = [x \in DOMAIN ramdisk \union {start_in_bytes} |->
                           IF x = start_in_bytes
                             THEN [j \in 0 .. ChunkSize - 1 |-> data[start_copy_location + j]]
                             ELSE ramdisk[x]]
          /\ Advance(ChunkSize)
          /\ UNCHANGED data

ChunksDone_Early ==   \* mutated: the loop runs while more than a chunk is left
  /\ pc \in {"read", "write"} /\ length <= ChunkSize
  /\ Return("ok")
  /\ UNCHANGED <<ramdisk, data>>
ChunksDone ==
  /\ pc \in {"read", "write"} /\ length = 0
  /\ Return("ok")
  /\ UNCHANGED <<ramdisk, data>>

Discard_block ==
  /\ pc = "discard"
  /\ Return("error")
  /\ UNCHANGED <<ramdisk, data>>

-----------------------------------------------------------------------------
Step ==
  \/ Validate \/ VisitSegment \/ AllVisited
  \/ ReadChunk \/ WriteChunk \/ ChunksDone \/ Discard_block

Next ==
  \/ Step
  \/ \E op \in {"read", "write", "discard"},
        segments \in Seq(Segment),
        buffer \in [0 .. BufSize - 1 -> Byte] : Arrive(op, segments, buffer)

Spec == Init /\ [][Next]_vars

-----------------------------------------------------------------------------
(***************************************************************************)
(* Correctness                                                             *)
(***************************************************************************)
\* Every variable keeps its type; only whole chunks at multiples of the chunk
\* size are ever in the map, so no two of them overlap.
TypeOK ==
  /\ \A x \in DOMAIN ramdisk :
       /\ x \in 0 .. DeviceSize - 1 /\ x % ChunkSize = 0
       /\ ramdisk[x] \in [0 .. ChunkSize - 1 -> Byte]
  /\ pc \in {"idle", "arrived", "adjacent", "read", "write", "discard", "panicked"}
  /\ length \in 0 .. U32 - 1 /\ start_copy_location \in 0 .. BufSize
  /\ data \in [0 .. BufSize - 1 -> Byte]
  /\ answer \in {"none", "ok", "error", "rejected"}

\* No slice leaves the buffer, wherever a request is cut into segments, and no
\* index leaves the metadata unless the kernel sends a write or a discard of
\* more segments than it has room for: then the process panics, before it has
\* changed a byte of the device.  A read of too many is rejected.
Overfull == request.op # "read" /\ Len(request.segments) > MaxSegments

PanicsOnlyPastMetadata == pc = "panicked" => Overfull /\ Disk = before

\* A request that is answered with success did for every byte of every
\* segment what was asked for that byte, although the storage never saw the
\* segments: its place on the device and its place in the buffer agree.  No
\* other byte changed, and a request that failed or was rejected changed none.
Covers(segments, x) ==
  \E i \in DOMAIN segments :
    segments[i].start <= x /\ x < segments[i].start + segments[i].length

\* Each byte of each segment, on the device and in the buffer, is the same.
Agree(segments, disk, buffer) ==
  \A i \in DOMAIN segments : \A j \in 0 .. segments[i].length - 1 :
    disk[segments[i].start + j] = buffer[segments[i].place + j]

Done ==
  IF answer' = "ok" /\ request.op = "write"
    THEN /\ Agree(request.segments, Disk', data)
         /\ \A x \in DOMAIN before : ~Covers(request.segments, x) => Disk'[x] = before[x]
    ELSE /\ Disk' = before
         /\ answer' = "ok" => Agree(request.segments, before, data')

Returns == pc # "idle" /\ pc' = "idle"

ServesEverySegment == [][Returns => Done]_vars

\* Exactly the requests that are no single range are rejected, as long as the
\* sum of their lengths is a uint32: the segments of a request that is served
\* name the bytes of one range, each once and in order, and a request is
\* rejected only if they do not, or one of them is empty, or a read has too few
\* or too many.
Filled(segments) == {i \in DOMAIN segments : segments[i].length > 0}

\* Where the byte lies that is the first of the data, going by one segment.
Origin(segment) == segment.start - segment.place

OneRange(segments) ==
  \A i, j \in Filled(segments) : Origin(segments[i]) = Origin(segments[j])

Servable(op, segments) ==
  /\ OneRange(segments)
  /\ op = "read" => Len(segments) \in 1 .. MaxSegments

Fits32(segments) == Total(segments) < U32

Checked == pc \in {"arrived", "adjacent"} /\ Fits32(request.segments)

RejectsOnlyGaps ==
  [][Checked =>
       /\ pc' \in {"read", "write", "discard"} => Servable(request.op, request.segments)
       /\ pc' = "idle" =>
            \/ ~Servable(request.op, request.segments)
            \/ Filled(request.segments) # DOMAIN request.segments]_vars

\* The storage is never called for a byte that no segment names.  Lengths are
\* cut to 32 bits, each and their sum, but starts are not: of a discard longer
\* than a uint32 less is discarded than was asked for, or nothing, but nothing
\* else.  What fits 32 bits is handed over to the last byte.
HandsOver == pc = "adjacent" /\ pc' \in {"read", "write", "discard"}

HandsOverTheSegments ==
  [][HandsOver =>
       LET handed == start_in_bytes' .. start_in_bytes' + length' - 1
       IN  /\ \A x \in handed : Covers(request.segments, x)
           /\ Fits32(request.segments) =>
                \A x \in 0 .. DeviceSize - 1 : Covers(request.segments, x) => x \in handed]_vars

\* To the kernel a request is one call of a storage mechanism for the range its
\* segments make up: chunk by chunk, bytes of that range and no others take the
\* values asked for, and success means all of them did.  A request that is
\* rejected, and a discard, is a call that fails.
Call(op, segments) ==
  IF Servable(op, segments) /\ Filled(segments) # {}
    THEN [op |-> op, start |-> Origin(segments[CHOOSE i \in Filled(segments) : TRUE]),
          length |-> Total(segments)]
    ELSE [op |-> op, start |-> 0, length |-> 0]

InProgress ==
  IF pc = "idle" THEN [op |-> "idle", start |-> 0, length |-> 0]
  ELSE Call(request.op, request.segments)

Returned == IF answer = "rejected" THEN "error" ELSE answer

Contract == INSTANCE StorageMechanism WITH
  disk <- Disk, call <- InProgress, ret <- Returned, MayFail <- TRUE

ImplementsStorageMechanism == Contract!Spec

\* Every Respond function returns, unless the kernel sends more segments than
\* the metadata has room for: the loops of the Ramdisk, which run until a uint32
\* is exactly zero, end.
RequestReturns == pc # "idle" /\ ~Overfull ~> pc = "idle"
=============================================================================
