--------------------------- MODULE MCRequestPath ---------------------------
(***************************************************************************)
(* RequestPath for TLC: a bounded number of requests, each with the same   *)
(* buffer of bytes that all differ.                                        *)
(***************************************************************************)
EXTENDS RequestPath, SequencesExt

CONSTANTS
  NearSize,     \* bytes at the beginning of the device that get lists of any shape
  MaxRequests   \* how many requests a behaviour makes

VARIABLE requests      \* the requests made so far

mcvars == <<vars, requests>>

Payload == [i \in 0 .. BufSize - 1 |-> i + 1]

MCByte == 0 .. BufSize

Extent ==
  {e \in [start : 0 .. DeviceSize - 1, length : 0 .. DeviceSize] :
     e.start + e.length <= DeviceSize}

\* The segments of a list of extents, whose data lie one behind the other.
Segments(extents) ==
  [i \in DOMAIN extents |->
     [start |-> extents[i].start, length |-> extents[i].length,
      place |-> FoldLeft(LAMBDA sum, e : sum + e.length, 0, SubSeq(extents, 1, i - 1))]]

\* Lists that are one longer than the metadata has room for.
Overlong ==
  {[i \in 1 .. MaxSegments + 1 |-> [start |-> (i - 1) * step, length |-> len]] :
     step \in 0 .. 2, len \in 1 .. 2}

\* All lists of segments that adjoin, overlap or are apart, at the beginning
\* of the device, and all short ones that reach past what a uint32 can count.
Near == {e \in Extent : e.start + e.length <= NearSize}

Far(extents) == \E i \in DOMAIN extents : extents[i].start + extents[i].length > U32

Lists ==
  {Segments(extents) : extents \in
     BoundedSeq(Near, MaxSegments)
       \union {list \in Overlong : \A i \in DOMAIN list : list[i] \in Extent}
       \union {list \in BoundedSeq(Extent, 2) : Far(list)}}

MCInit == Init /\ requests = 0

MCArrive ==
  /\ requests < MaxRequests
  /\ requests' = requests + 1
  /\ \E op \in {"read", "write", "discard"}, segments \in Lists :
       Arrive(op, segments, Payload)

MCStep == Step /\ UNCHANGED requests

MCNext == MCArrive \/ MCStep

MCSpec == MCInit /\ [][MCNext]_mcvars

MCFairSpec == MCSpec /\ WF_mcvars(MCStep)
=============================================================================
