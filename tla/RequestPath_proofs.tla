------------------------ MODULE RequestPath_proofs ------------------------
(***************************************************************************)
(* Theorems about RequestPath, for every device, chunk, number and list of *)
(* segments, with a Ramdisk that reads by the size it writes by, as        *)
(* zosbd2cmd makes it.                                                     *)
(***************************************************************************)
EXTENDS RequestPath, WellFoundedInduction, TLAPS

\* main of zosbd2cmd makes its Ramdisk with BLOCK_SIZE, which is 4096.
OneSize == BlockSize = ChunkSize

LEMMA Sizes ==
  /\ DeviceSize \in Nat /\ DeviceSize > 0
  /\ MaxSegments \in Nat /\ MaxSegments > 0
  /\ ChunkSize \in Nat /\ ChunkSize > 0
  /\ BlockSize \in Nat /\ BlockSize > 0
  /\ BufSize \in Nat /\ BufSize > 0 /\ U32 \in Nat /\ BufSize < U32
<1>1. /\ DeviceSize \in Nat /\ DeviceSize > 0
      /\ MaxSegments \in Nat /\ MaxSegments > 0
      /\ ChunkSize \in Nat /\ ChunkSize > 0
      /\ BlockSize \in Nat /\ BlockSize > 0
      /\ U32 \in Nat /\ BufSize < U32 /\ BufSize = MaxSegments * ChunkSize
  BY RequestPathAssumption
<1>2. MaxSegments * ChunkSize \in Nat /\ MaxSegments * ChunkSize > 0
  BY <1>1
<1> QED
  BY <1>1, <1>2

-----------------------------------------------------------------------------
(***************************************************************************)
(* Numbers                                                                 *)
(***************************************************************************)
LEMMA LeastElement ==
  ASSUME NEW T, T \subseteq Nat, T # {}
  PROVE  \E x \in T : \A y \in T : x <= y
<1> DEFINE R == OpToRel(<, Nat)
<1>1. PICK x \in T : \A y \in T : ~(<<y, x>> \in R)
  <2> HIDE DEF R
  <2>1. IsWellFoundedOn(R, Nat)
    BY NatLessThanWellFounded DEF R
  <2> QED
    BY <2>1, WFMin
<1>2. ASSUME NEW y \in T PROVE x <= y
  <2>1. x \in Nat /\ y \in Nat
    OBVIOUS
  <2>2. y < x => <<y, x>> \in R
    BY <2>1, Zenon DEF OpToRel
  <2> HIDE DEF R
  <2> QED
    BY <1>1, <2>1, <2>2
<1> QED
  BY <1>2

LEMMA Division ==
  ASSUME NEW x \in Nat
  PROVE  /\ x \div ChunkSize \in Nat
         /\ x % ChunkSize \in 0 .. ChunkSize - 1
         /\ (x \div ChunkSize) * ChunkSize + (x % ChunkSize) = x
<1>1. ChunkSize \in Nat \ {0}
  BY Sizes
<1> QED
  BY <1>1

LEMMA Quotient ==
  ASSUME NEW a \in Nat, a % ChunkSize = 0
  PROVE  \E q \in Nat : a = q * ChunkSize
<1> DEFINE q == a \div ChunkSize
<1>1. q \in Nat /\ q * ChunkSize + (a % ChunkSize) = a
  BY Division
<1>2. q * ChunkSize \in Nat
  BY <1>1, Sizes
<1>3. q * ChunkSize + 0 = a
  BY <1>1
<1> DEFINE here == q * ChunkSize
<1>4. here \in Nat /\ here + 0 = a
  BY <1>2, <1>3
<1> HIDE DEF here
<1>5. a = here
  BY <1>4
<1> QED
  BY <1>1, <1>5 DEF here

LEMMA Multiple ==
  ASSUME NEW q \in Nat
  PROVE  /\ q * ChunkSize \in Nat /\ (q * ChunkSize) % ChunkSize = 0
         /\ (q + 1) * ChunkSize = q * ChunkSize + ChunkSize
  BY Sizes

LEMMA MultiplesOrdered ==
  ASSUME NEW q \in Nat, NEW r \in Nat, q < r
  PROVE  q * ChunkSize + ChunkSize <= r * ChunkSize
<1>1. PICK d \in Nat : r = q + 1 + d
  <2>1. r - q - 1 \in Nat /\ r = q + 1 + (r - q - 1)
    OBVIOUS
  <2> QED
    BY <2>1
<1>2. r * ChunkSize = (q + 1) * ChunkSize + d * ChunkSize
  BY <1>1, Sizes
<1>3. d * ChunkSize \in Nat /\ (q + 1) * ChunkSize = q * ChunkSize + ChunkSize
      /\ q * ChunkSize \in Nat
  BY Multiple
<1> DEFINE here == q * ChunkSize   more == d * ChunkSize
<1>4. r * ChunkSize = here + ChunkSize + more /\ here \in Nat /\ more \in Nat
  BY <1>2, <1>3
<1> HIDE DEF here, more
<1>5. here + ChunkSize <= here + ChunkSize + more
  BY <1>4, Sizes
<1> QED
  BY <1>4, <1>5 DEF here

LEMMA SumOfMultiples ==
  ASSUME NEW a \in Nat, NEW b \in Nat, a % ChunkSize = 0, b % ChunkSize = 0
  PROVE  (a + b) % ChunkSize = 0
<1>1. PICK q \in Nat : a = q * ChunkSize
  BY Quotient
<1>2. PICK r \in Nat : b = r * ChunkSize
  BY Quotient
<1>3. a + b = (q + r) * ChunkSize
  BY <1>1, <1>2, Sizes
<1> QED
  BY <1>3, Multiple

LEMMA NextMultiple ==
  ASSUME NEW a \in Nat, NEW b \in Nat, a % ChunkSize = 0, b % ChunkSize = 0, a < b
  PROVE  a + ChunkSize <= b
<1>1. PICK q \in Nat : a = q * ChunkSize
  BY Quotient
<1>2. PICK r \in Nat : b = r * ChunkSize
  BY Quotient
<1>3. q < r
  <2>1. r < q => r * ChunkSize + ChunkSize <= q * ChunkSize
    BY MultiplesOrdered
  <2>2. r # q
    BY <1>1, <1>2
  <2>3. ~(b + ChunkSize <= a)
    BY Sizes
  <2>4. ~(r < q)
    BY <2>1, <2>3, <1>1, <1>2
  <2> QED
    BY <2>2, <2>4
<1> QED
  BY <1>1, <1>2, <1>3, MultiplesOrdered

\* A length of 32 bits is not cut.
LEMMA FitsU32 ==
  ASSUME NEW n \in Nat, n < U32
  PROVE  n % U32 = n
<1>1. U32 \in Nat \ {0}
  BY Sizes
<1> QED
  BY <1>1

\* What is cut to 32 bits does not grow.
LEMMA RemainderSmall ==
  ASSUME NEW n \in Nat
  PROVE  n % U32 \in 0 .. U32 - 1 /\ n % U32 <= n
<1>1. U32 \in Nat \ {0}
  BY Sizes
<1>2. /\ n \div U32 \in Nat /\ n % U32 \in 0 .. U32 - 1
      /\ (n \div U32) * U32 + (n % U32) = n
  BY <1>1
<1> DEFINE q == (n \div U32) * U32   r == n % U32
<1>3. q \in Nat
  BY <1>1, <1>2
<1> HIDE DEF q
<1>4. q + r = n /\ r \in 0 .. U32 - 1
  BY <1>2 DEF q
<1> HIDE DEF r
<1>5. r <= n
  BY <1>1, <1>3, <1>4
<1> QED
  BY <1>4, <1>5 DEF r

\* Where the chunk of a position begins.
ChunkOf(x) == x - (x % ChunkSize)

LEMMA ChunkBounds ==
  ASSUME NEW x \in Nat
  PROVE  /\ ChunkOf(x) \in Nat /\ ChunkOf(x) % ChunkSize = 0
         /\ ChunkOf(x) <= x /\ x < ChunkOf(x) + ChunkSize
<1> DEFINE q == x \div ChunkSize
           here == q * ChunkSize
           rest == x % ChunkSize
<1>1. q \in Nat /\ rest \in 0 .. ChunkSize - 1 /\ here + rest = x
  BY Division
<1>2. here \in Nat /\ here % ChunkSize = 0
  BY <1>1, Multiple
<1>3. ChunkOf(x) = x - rest
  BY DEF ChunkOf
<1> HIDE DEF q, here, rest
<1>4. ChunkOf(x) = here
  BY <1>1, <1>2, <1>3, Sizes
<1>5. here <= x /\ x < here + ChunkSize
  BY <1>1, <1>2, Sizes
<1> QED
  BY <1>2, <1>4, <1>5

\* The chunk of a position is the one whose bounds it lies between.
LEMMA ChunkOfPosition ==
  ASSUME NEW a \in Nat, a % ChunkSize = 0, NEW x \in Nat
  PROVE  ChunkOf(x) = a <=> a <= x /\ x < a + ChunkSize
<1>1. /\ ChunkOf(x) \in Nat /\ ChunkOf(x) % ChunkSize = 0
      /\ ChunkOf(x) <= x /\ x < ChunkOf(x) + ChunkSize
  BY ChunkBounds
<1>2. ASSUME a <= x, x < a + ChunkSize
      PROVE  ChunkOf(x) = a
  <2>1. PICK c \in Nat : c = ChunkOf(x) /\ c % ChunkSize = 0
    BY <1>1
  <2>2. c < a => c + ChunkSize <= a
    BY <2>1, NextMultiple
  <2>3. a < c => a + ChunkSize <= c
    BY <2>1, NextMultiple
  <2> QED
    BY <1>1, <1>2, <2>1, <2>2, <2>3, Sizes
<1> QED
  BY <1>1, <1>2

-----------------------------------------------------------------------------
(***************************************************************************)
(* Lists of segments                                                       *)
(***************************************************************************)
\* Where the data of the first n segments end.
EndOf(segments, n) ==
  IF n = 0 THEN 0 ELSE segments[n].place + segments[n].length

LEMMA SegmentFields ==
  ASSUME NEW segments \in Seq(Segment), NEW i \in DOMAIN segments
  PROVE  /\ segments[i].start \in Nat /\ segments[i].start < DeviceSize
         /\ segments[i].length \in Nat /\ segments[i].place \in Nat
         /\ segments[i].start + segments[i].length <= DeviceSize
         /\ EndOf(segments, i) = segments[i].place + segments[i].length
<1>1. segments[i] \in Segment /\ i # 0
  OBVIOUS
<1> DEFINE s == segments[i]
<1>2. s \in [start : 0 .. DeviceSize - 1, length : 0 .. DeviceSize, place : Nat]
      /\ s.start + s.length <= DeviceSize
  BY <1>1 DEF Segment
<1> QED
  BY <1>1, <1>2, Sizes DEF EndOf

LEMMA ListFacts ==
  ASSUME NEW segments \in Seq(Segment)
  PROVE  /\ Len(segments) \in Nat /\ DOMAIN segments = 1 .. Len(segments)
         /\ Total(segments) = EndOf(segments, Len(segments))
         /\ \A n \in 0 .. Len(segments) : EndOf(segments, n) \in Nat
         /\ segments # <<>> <=> Len(segments) # 0
<1>1. Len(segments) \in Nat /\ DOMAIN segments = 1 .. Len(segments)
      /\ (segments # <<>> <=> Len(segments) # 0)
  OBVIOUS
<1>2. Total(segments) = EndOf(segments, Len(segments))
  BY DEF Total, EndOf
<1>3. ASSUME NEW n \in 0 .. Len(segments)
      PROVE  EndOf(segments, n) \in Nat
  <2>1. CASE n = 0
    BY <2>1 DEF EndOf
  <2>2. CASE n # 0
    <3>1. n \in DOMAIN segments
      BY <1>1, <2>2
    <3> QED
      BY <3>1, SegmentFields
  <2> QED
    BY <2>1, <2>2
<1> QED
  BY <1>1, <1>2, <1>3

\* The data of a segment begin where those before it end.
LEMMA PlaceIsEnd ==
  ASSUME NEW segments \in Seq(Segment), Placed(segments), NEW i \in DOMAIN segments
  PROVE  segments[i].place = EndOf(segments, i - 1) /\ i - 1 \in 0 .. Len(segments)
<1>1. i \in Nat /\ i > 0 /\ i <= Len(segments)
  BY ListFacts
<1>2. segments[i].place =
        IF i = 1 THEN 0 ELSE segments[i - 1].place + segments[i - 1].length
  BY DEF Placed
<1>3. i - 1 = 0 <=> i = 1
  BY <1>1
<1> QED
  BY <1>1, <1>2, <1>3 DEF EndOf

\* Later segments end later.
LEMMA EndsAscend ==
  ASSUME NEW segments \in Seq(Segment), Placed(segments), NEW i \in DOMAIN segments
  PROVE  EndOf(segments, i) <= Total(segments)
<1> DEFINE n == Len(segments)
           T == {k \in i .. n : ~(EndOf(segments, i) <= EndOf(segments, k))}
<1>1. n \in Nat /\ DOMAIN segments = 1 .. n /\ i \in 1 .. n
      /\ Total(segments) = EndOf(segments, n)
      /\ \A k \in 0 .. n : EndOf(segments, k) \in Nat
  BY ListFacts
<1>2. SUFFICES ASSUME n \in T
               PROVE  FALSE
  BY <1>1
<1>3. PICK k \in T : \A m \in T : k <= m
  <2>1. T \subseteq Nat /\ T # {}
    BY <1>1, <1>2
  <2> HIDE DEF T
  <2> QED
    BY <2>1, LeastElement
<1>4. k \in DOMAIN segments /\ k - 1 \in i .. n
  <2>1. EndOf(segments, i) \in Nat
    BY <1>1
  <2>2. k # i
    BY <1>3, <2>1
  <2> QED
    BY <1>1, <1>3, <2>2
<1>5. EndOf(segments, i) <= EndOf(segments, k - 1)
  <2>1. k - 1 \notin T
    BY <1>3, <1>4
  <2> QED
    BY <1>4, <2>1
<1>6. EndOf(segments, k - 1) <= EndOf(segments, k)
  <2>1. segments[k].place = EndOf(segments, k - 1)
    BY <1>4, PlaceIsEnd
  <2>2. /\ segments[k].place \in Nat /\ segments[k].length \in Nat
        /\ EndOf(segments, k) = segments[k].place + segments[k].length
    BY <1>4, SegmentFields
  <2>3. PICK place \in Nat : place = segments[k].place
    BY <2>2
  <2>4. PICK len \in Nat : len = segments[k].length
    BY <2>2
  <2>5. EndOf(segments, k) = place + len /\ EndOf(segments, k - 1) = place
    BY <2>1, <2>2, <2>3, <2>4, Zenon
  <2>6. place <= place + len
    OBVIOUS
  <2> QED
    BY <2>5, <2>6, Zenon
<1>7. EndOf(segments, i) \in Nat /\ EndOf(segments, k) \in Nat /\ EndOf(segments, k - 1) \in Nat
  BY <1>1, <1>4
<1>8. EndOf(segments, i) <= EndOf(segments, k)
  BY <1>5, <1>6, <1>7
<1> QED
  BY <1>3, <1>8

\* The segment behind the first n.
LEMMA NextSegment ==
  ASSUME NEW segments \in Seq(Segment), Placed(segments),
         NEW n \in Nat, n < Len(segments)
  PROVE  /\ n + 1 \in DOMAIN segments
         /\ segments[n + 1].place = EndOf(segments, n)
         /\ EndOf(segments, n + 1) = EndOf(segments, n) + segments[n + 1].length
         /\ EndOf(segments, n + 1) <= Total(segments)
<1>1. n + 1 \in DOMAIN segments /\ n + 1 - 1 = n
  BY ListFacts
<1>2. segments[n + 1].place = EndOf(segments, n + 1 - 1)
  BY <1>1, PlaceIsEnd
<1>3. segments[n + 1].place = EndOf(segments, n)
  BY <1>1, <1>2
<1>4. EndOf(segments, n + 1) = segments[n + 1].place + segments[n + 1].length
  BY <1>1, SegmentFields
<1>5. EndOf(segments, n + 1) <= Total(segments)
  BY <1>1, EndsAscend
<1> QED
  BY <1>1, <1>3, <1>4, <1>5

\* Each byte of the data is that of a segment.
LEMMA SomeSegmentHolds ==
  ASSUME NEW segments \in Seq(Segment), Placed(segments),
         NEW p \in Nat, p < Total(segments)
  PROVE  \E i \in Filled(segments) :
           segments[i].place <= p /\ p < segments[i].place + segments[i].length
<1> DEFINE n == Len(segments)
           T == {i \in 0 .. n : p < EndOf(segments, i)}
<1>1. n \in Nat /\ DOMAIN segments = 1 .. n
      /\ Total(segments) = EndOf(segments, n)
      /\ \A k \in 0 .. n : EndOf(segments, k) \in Nat
  BY ListFacts
<1>2. T \subseteq Nat /\ n \in T
  BY <1>1
<1>3. PICK i \in T : \A k \in T : i <= k
  <2> HIDE DEF T
  <2> QED
    BY <1>2, LeastElement
<1>4. i \in DOMAIN segments
  <2>1. EndOf(segments, 0) = 0
    BY DEF EndOf
  <2> QED
    BY <1>1, <1>3, <2>1
<1>5. segments[i].place <= p
  <2>1. segments[i].place = EndOf(segments, i - 1) /\ i - 1 \in 0 .. n
    BY <1>4, PlaceIsEnd
  <2>2. i - 1 \notin T
    BY <1>1, <1>3, <1>4
  <2> QED
    BY <1>1, <2>1, <2>2
<1>6. p < segments[i].place + segments[i].length
  BY <1>3, <1>4, SegmentFields
<1>7. i \in Filled(segments)
  <2>1. segments[i].length \in Nat /\ segments[i].place \in Nat
    BY <1>4, SegmentFields
  <2> QED
    BY <1>4, <1>5, <1>6, <2>1 DEF Filled
<1> QED
  BY <1>5, <1>6, <1>7

\* The segments that hold bytes all have their first byte of the data at S.
AllFrom(segments, S) ==
  \A i \in Filled(segments) : Origin(segments[i]) = S

\* Segments that make up one range are a range of the device.
LEMMA RangeOfList ==
  ASSUME NEW segments \in Seq(Segment), Placed(segments), OneRange(segments),
         Total(segments) > 0
  PROVE  \E S \in Nat :
           /\ AllFrom(segments, S)
           /\ S < DeviceSize /\ S + Total(segments) <= DeviceSize
           /\ Filled(segments) # {}
           /\ Origin(segments[CHOOSE i \in Filled(segments) : TRUE]) = S
<1>1. Total(segments) \in Nat
  BY ListFacts
<1>2. PICK first \in Filled(segments) :
        segments[first].place <= 0 /\ 0 < segments[first].place + segments[first].length
  BY <1>1, SomeSegmentHolds
<1>3. PICK last \in Filled(segments) :
        /\ segments[last].place <= Total(segments) - 1
        /\ Total(segments) - 1 < segments[last].place + segments[last].length
  <2>1. Total(segments) - 1 \in Nat /\ Total(segments) - 1 < Total(segments)
    BY <1>1
  <2> QED
    BY <2>1, SomeSegmentHolds
<1> DEFINE S == segments[first].start
<1>4. first \in DOMAIN segments /\ last \in DOMAIN segments
  BY <1>2, <1>3 DEF Filled
<1>5. S \in Nat /\ S < DeviceSize /\ Origin(segments[first]) = S
  BY <1>2, <1>4, SegmentFields DEF Origin
<1>6. AllFrom(segments, S)
  BY <1>2, <1>5 DEF AllFrom, OneRange
<1>7. S + Total(segments) <= DeviceSize
  <2>1. segments[last].place + segments[last].length = Total(segments)
    <3>1. EndOf(segments, last) <= Total(segments)
      BY <1>4, EndsAscend
    <3> QED
      BY <1>1, <1>3, <1>4, <3>1, SegmentFields
  <2>2. segments[last].start - segments[last].place = S
    BY <1>3, <1>6 DEF AllFrom, Origin
  <2>3. /\ segments[last].start \in Nat /\ segments[last].length \in Nat
        /\ segments[last].place \in Nat
        /\ segments[last].start + segments[last].length <= DeviceSize
    BY <1>4, SegmentFields
  <2> QED
    BY <1>5, <2>1, <2>2, <2>3, Sizes
<1>8. Origin(segments[CHOOSE i \in Filled(segments) : TRUE]) = S
  <2>1. (CHOOSE i \in Filled(segments) : TRUE) \in Filled(segments)
    BY <1>2
  <2> QED
    BY <1>6, <2>1 DEF AllFrom
<1> QED
  BY <1>2, <1>5, <1>6, <1>7, <1>8

-----------------------------------------------------------------------------
(***************************************************************************)
(* The inductive invariant                                                 *)
(***************************************************************************)
Positions == 0 .. DeviceSize - 1

Ops == {"read", "write", "discard"}

\* Where the range began, while the loop of the Ramdisk moves it.
Base == start_in_bytes - start_copy_location

\* What is served is what the kernel sends, and no read of too many segments
\* goes on to the loop that visits them.
RequestInv ==
  /\ pc # "idle" =>
       /\ request.op \in Ops /\ request.segments \in Seq(Segment)
       /\ KernelSends(request.op, request.segments)
  /\ pc \in Ops \union {"adjacent"} => Validate_read_request(request.op, request.segments)

\* The segments visited begin where the range says, and end where the next
\* must begin, unless their lengths do not fit 32 bits.
VisitedInv ==
  /\ pc \in {"idle", "arrived"} =>
       lp = 0 /\ verify_start = 0 /\ start_in_bytes = 0 /\ length = 0
  /\ pc \in {"idle", "arrived", "adjacent"} => start_copy_location = 0
  /\ pc = "adjacent" =>
       /\ lp \in 0 .. Len(request.segments)
       /\ start_in_bytes \in Nat /\ (lp = 0 => start_in_bytes = 0 /\ length = 0)
       /\ Fits32(request.segments) =>
            /\ length = EndOf(request.segments, lp)
            /\ verify_start = start_in_bytes + length
            /\ \A i \in 1 .. lp : Origin(request.segments[i]) = start_in_bytes

\* Whether they fit or not, each byte up to where the next segment must begin
\* is one of a segment, and the range goes no further.
HandedInv ==
  pc = "adjacent" =>
    /\ verify_start \in Nat /\ length \in Nat
    /\ start_in_bytes + length <= verify_start
    /\ \A x \in Nat : start_in_bytes <= x /\ x < verify_start => Covers(request.segments, x)

\* The loops of the Ramdisk stand at chunks, and what is behind them and what
\* is left are together the request.
ServedInv ==
  pc \in {"read", "write"} =>
    /\ pc = request.op
    /\ start_in_bytes \in Nat /\ Base \in Nat
    /\ start_copy_location \in Nat /\ length \in Nat
    /\ start_copy_location + length = Total(request.segments)
    /\ start_copy_location % ChunkSize = 0 /\ Base % ChunkSize = 0
    /\ \A i \in DOMAIN request.segments : Origin(request.segments[i]) = Base

\* What is behind the loop is done, the rest is as it was.
CopiedInv ==
  /\ before \in [Positions -> Byte]
  /\ pc # "write" => Disk = before
  /\ pc = "write" =>
       \A x \in Positions :
         Disk[x] = IF Base <= x /\ x < start_in_bytes THEN data[x - Base] ELSE before[x]
  /\ pc = "read" => \A i \in 0 .. start_copy_location - 1 : data[i] = Disk[Base + i]

IInv ==
  /\ TypeOK /\ PanicsOnlyPastMetadata /\ RequestInv
  /\ VisitedInv /\ HandedInv /\ ServedInv /\ CopiedInv

-----------------------------------------------------------------------------
(***************************************************************************)
(* The device                                                              *)
(***************************************************************************)
ByteAt(store, x) ==
  IF ChunkOf(x) \in DOMAIN store THEN store[ChunkOf(x)][x - ChunkOf(x)] ELSE Zero

LEMMA DiskIsByteAt ==
  /\ Disk = [x \in Positions |-> ByteAt(ramdisk, x)]
  /\ Disk' = [x \in Positions |-> ByteAt(ramdisk', x)]
  BY DEF Disk, ByteAt, ChunkOf, Positions

LEMMA DiskSame ==
  ASSUME UNCHANGED ramdisk
  PROVE  Disk' = Disk
  BY DiskIsByteAt

LEMMA DiskType ==
  ASSUME TypeOK
  PROVE  Disk \in [Positions -> Byte]
<1>1. ASSUME NEW x \in Positions
      PROVE  ByteAt(ramdisk, x) \in Byte
  <2>1. x \in Nat
    BY Sizes DEF Positions
  <2>2. x - ChunkOf(x) \in 0 .. ChunkSize - 1
    <3>1. ChunkOf(x) \in Nat /\ ChunkOf(x) <= x /\ x < ChunkOf(x) + ChunkSize
      BY <2>1, ChunkBounds
    <3> QED
      BY <2>1, <3>1, Sizes
  <2>3. CASE ChunkOf(x) \in DOMAIN ramdisk
    <3>1. ramdisk[ChunkOf(x)] \in [0 .. ChunkSize - 1 -> Byte]
      BY <2>3 DEF TypeOK
    <3> QED
      BY <2>2, <2>3, <3>1 DEF ByteAt
  <2>4. CASE ChunkOf(x) \notin DOMAIN ramdisk
    BY <2>4, RequestPathAssumption DEF ByteAt
  <2> QED
    BY <2>3, <2>4
<1> QED
  BY <1>1, DiskIsByteAt

-----------------------------------------------------------------------------
(***************************************************************************)
(* The steps ahead of the storage                                          *)
(***************************************************************************)
LEMMA InitInv ==
  ASSUME Init
  PROVE  IInv
<1>1. TypeOK
  <2>1. 0 \in 0 .. U32 - 1 /\ 0 \in 0 .. BufSize
    BY Sizes
  <2>2. [i \in 0 .. BufSize - 1 |-> Zero] \in [0 .. BufSize - 1 -> Byte]
    BY RequestPathAssumption
  <2> QED
    BY <2>1, <2>2 DEF Init, TypeOK
<1>2. PanicsOnlyPastMetadata /\ RequestInv /\ VisitedInv /\ HandedInv /\ ServedInv
  BY DEF Init, PanicsOnlyPastMetadata, RequestInv, VisitedInv, HandedInv, ServedInv, Ops
<1>3. CopiedInv
  BY <1>1, DiskType DEF Init, CopiedInv
<1> QED
  BY <1>1, <1>2, <1>3 DEF IInv

LEMMA ArriveKeepsInv ==
  ASSUME IInv, NEW op \in Ops, NEW segments \in Seq(Segment),
         NEW buffer \in [0 .. BufSize - 1 -> Byte], Arrive(op, segments, buffer)
  PROVE  IInv'
<1> USE DEF IInv
<1>1. /\ pc = "idle" /\ pc' = "arrived" /\ KernelSends(op, segments)
      /\ request'.op = op /\ request'.segments = segments /\ data' = buffer
      /\ UNCHANGED <<ramdisk, lp, verify_start, start_in_bytes, length>>
      /\ UNCHANGED <<start_copy_location, answer, before>>
  BY DEF Arrive, visited, range
<1>2. TypeOK' /\ PanicsOnlyPastMetadata'
  BY <1>1 DEF TypeOK, PanicsOnlyPastMetadata
<1>3. RequestInv'
  BY <1>1 DEF RequestInv, Ops
<1>4. VisitedInv' /\ HandedInv' /\ ServedInv'
  BY <1>1 DEF VisitedInv, HandedInv, ServedInv, Ops
<1>5. CopiedInv'
  BY <1>1, DiskSame DEF CopiedInv
<1> QED
  BY <1>2, <1>3, <1>4, <1>5

LEMMA ReturnKeepsInv ==
  ASSUME IInv, NEW result \in {"ok", "error", "rejected"}, Return(result),
         UNCHANGED ramdisk, data' \in [0 .. BufSize - 1 -> Byte]
  PROVE  IInv'
<1> USE DEF IInv
<1>1. /\ pc' = "idle" /\ answer' = result /\ before' = Disk
      /\ lp' = 0 /\ verify_start' = 0 /\ start_in_bytes' = 0 /\ length' = 0
      /\ start_copy_location' = 0
  BY DEF Return
<1>2. TypeOK' /\ PanicsOnlyPastMetadata'
  <2>1. 0 \in 0 .. U32 - 1 /\ 0 \in 0 .. BufSize
    BY Sizes
  <2> QED
    BY <1>1, <2>1 DEF TypeOK, PanicsOnlyPastMetadata
<1>3. RequestInv' /\ VisitedInv' /\ HandedInv' /\ ServedInv'
  BY <1>1 DEF RequestInv, VisitedInv, HandedInv, ServedInv, Ops
<1>4. CopiedInv'
  BY <1>1, DiskSame, DiskType DEF CopiedInv
<1> QED
  BY <1>2, <1>3, <1>4

LEMMA ValidateKeepsInv ==
  ASSUME IInv, Validate
  PROVE  IInv'
<1> USE DEF IInv
<1>1. pc = "arrived" /\ UNCHANGED <<ramdisk, data>>
  BY DEF Validate
<1>2. CASE Validate_read_request(request.op, request.segments)
  <2>1. /\ pc' = "adjacent"
        /\ UNCHANGED <<request, lp, verify_start, start_in_bytes, length>>
        /\ UNCHANGED <<start_copy_location, answer, before>>
    BY <1>2 DEF Validate, visited, range
  <2>2. TypeOK' /\ PanicsOnlyPastMetadata'
    BY <1>1, <2>1 DEF TypeOK, PanicsOnlyPastMetadata
  <2>3. RequestInv'
    BY <1>1, <1>2, <2>1 DEF RequestInv, Ops
  <2>4. VisitedInv'
    <3>1. request.segments \in Seq(Segment)
      BY <1>1 DEF RequestInv
    <3>2. EndOf(request.segments, 0) = 0 /\ 0 \in 0 .. Len(request.segments)
      BY <3>1, ListFacts DEF EndOf
    <3> QED
      BY <1>1, <2>1, <3>2 DEF VisitedInv
  <2>5. ServedInv' /\ HandedInv'
    <3>1. /\ start_in_bytes' = 0 /\ verify_start' = 0 /\ length' = 0
      BY <1>1, <2>1 DEF VisitedInv
    <3>2. \A x \in Nat : ~(0 <= x /\ x < 0)
      OBVIOUS
    <3> QED
      BY <2>1, <3>1, <3>2 DEF ServedInv, HandedInv, Ops
  <2>6. CopiedInv'
    BY <1>1, <2>1, DiskSame DEF CopiedInv
  <2> QED
    BY <2>2, <2>3, <2>4, <2>5, <2>6
<1>3. CASE ~Validate_read_request(request.op, request.segments)
  <2>1. Return("rejected") /\ data' \in [0 .. BufSize - 1 -> Byte]
    BY <1>1, <1>3 DEF Validate, TypeOK
  <2> QED
    BY <1>1, <2>1, ReturnKeepsInv
<1> QED
  BY <1>2, <1>3

\* What the loop of validate_adjacency knows of the segment it visits.
LEMMA VisitFacts ==
  ASSUME IInv, pc = "adjacent", lp < Len(request.segments)
  PROVE  /\ request.segments \in Seq(Segment) /\ lp \in Nat
         /\ lp + 1 \in DOMAIN request.segments
         /\ lp >= MaxSegments => Overfull
         /\ request.segments[lp + 1].start \in Nat /\ request.segments[lp + 1].length \in Nat
<1>1. PICK segments \in Seq(Segment) : segments = request.segments
  BY DEF IInv, RequestInv
<1>2. Validate_read_request(request.op, segments)
  BY <1>1 DEF IInv, RequestInv
<1>3. lp \in Nat /\ lp < Len(segments) /\ Len(segments) \in Nat
  BY <1>1, ListFacts DEF IInv, VisitedInv
<1>4. lp >= MaxSegments => Overfull
  <2>1. lp >= MaxSegments => Len(segments) > MaxSegments
    BY <1>3, Sizes
  <2>2. Len(segments) > MaxSegments => request.op # "read"
    BY <1>2, <1>3, Sizes DEF Validate_read_request
  <2> QED
    BY <1>1, <2>1, <2>2 DEF Overfull
<1>5. lp + 1 \in DOMAIN segments
  BY <1>3, ListFacts
<1> QED
  BY <1>1, <1>3, <1>4, <1>5, SegmentFields

\* What it knows as long as the lengths fit 32 bits.
LEMMA VisitFits ==
  ASSUME IInv, pc = "adjacent", lp < Len(request.segments), Fits32(request.segments)
  PROVE  /\ request.segments[lp + 1].place = length /\ length \in Nat
         /\ request.segments[lp + 1].length % U32 = request.segments[lp + 1].length
         /\ length + request.segments[lp + 1].length = EndOf(request.segments, lp + 1)
         /\ EndOf(request.segments, lp + 1) \in 0 .. U32 - 1
<1>1. PICK segments \in Seq(Segment) : segments = request.segments
  BY DEF IInv, RequestInv
<1>2. KernelSends(request.op, segments)
  BY <1>1 DEF IInv, RequestInv
<1>3. lp \in 0 .. Len(segments) /\ length = EndOf(segments, lp)
  BY <1>1 DEF IInv, VisitedInv
<1>4. lp \in Nat /\ lp < Len(segments) /\ Len(segments) \in Nat
  BY <1>1, <1>3, ListFacts
<1> DEFINE entry == segments[lp + 1]
<1>6. /\ lp + 1 \in DOMAIN segments
      /\ entry.place = length /\ EndOf(segments, lp + 1) = length + entry.length
      /\ EndOf(segments, lp + 1) <= Total(segments)
  BY <1>2, <1>3, <1>4, NextSegment DEF KernelSends
<1>7. entry.length \in Nat /\ length \in Nat
  BY <1>3, <1>6, SegmentFields, ListFacts
<1>8. Total(segments) < U32 /\ Total(segments) \in Nat
  BY <1>1, ListFacts, Sizes DEF Fits32
<1> HIDE DEF entry
<1>9. EndOf(segments, lp + 1) \in 0 .. U32 - 1 /\ entry.length < U32
  BY <1>6, <1>7, <1>8, Sizes
<1>10. entry.length % U32 = entry.length
  BY <1>7, <1>9, FitsU32
<1> QED
  BY <1>1, <1>6, <1>7, <1>9, <1>10 DEF entry

\* A turn of the loop, as long as they fit: the segments are still one range.
LEMMA VisitKeepsVisited ==
  ASSUME IInv, VisitSegment, pc' = "adjacent", lp' = lp + 1, UNCHANGED request,
         Fits32(request.segments)
  PROVE  /\ length' = EndOf(request.segments, lp')
         /\ verify_start' = start_in_bytes' + length' /\ start_in_bytes' \in Nat
         /\ \A i \in 1 .. lp' : Origin(request.segments[i]) = start_in_bytes'
<1>1. pc = "adjacent" /\ lp < Len(request.segments)
  BY DEF VisitSegment
<1>2. PICK segments \in Seq(Segment) : segments = request.segments
  BY <1>1 DEF IInv, RequestInv
<1> DEFINE entry == segments[lp + 1]
<1>3. /\ lp \in Nat /\ lp + 1 \in DOMAIN segments
      /\ entry.place = length /\ entry.length % U32 = entry.length
      /\ length + entry.length = EndOf(segments, lp + 1)
      /\ EndOf(segments, lp + 1) \in 0 .. U32 - 1
  BY <1>1, <1>2, VisitFacts, VisitFits
<1>4. entry.start \in Nat /\ entry.length \in Nat /\ entry.place \in Nat
  BY <1>3, SegmentFields
<1>5. Adjacent(entry) /\ ~(lp >= MaxSegments)
  BY <1>2 DEF VisitSegment, Panic, Return
<1>6. /\ verify_start' = entry.start + entry.length
      /\ start_in_bytes' = Entire_start(entry)
      /\ length' = (length + entry.length) % U32
  BY <1>2, <1>3, <1>5 DEF VisitSegment
<1>7. length' = EndOf(segments, lp + 1)
  <2>1. PICK n \in Nat : n = EndOf(segments, lp + 1) /\ n < U32
    BY <1>3, Sizes
  <2>2. n % U32 = n
    BY <2>1, FitsU32
  <2> QED
    BY <1>3, <1>6, <2>1, <2>2
<1>8. Origin(entry) = Entire_start(entry) /\ Entire_start(entry) \in Nat
  <2>1. CASE lp = 0
    <3>1. length = 0
      BY <1>1, <1>2, <2>1 DEF IInv, VisitedInv, EndOf
    <3> QED
      BY <1>3, <1>4, <2>1, <3>1 DEF Entire_start, Origin
  <2>2. CASE lp > 0
    <3>1. entry.start = start_in_bytes + length /\ start_in_bytes \in Nat
      BY <1>1, <1>5, <2>2 DEF IInv, VisitedInv, Adjacent
    <3>2. length \in Nat
      BY <1>3, <1>4
    <3> QED
      BY <1>3, <1>4, <2>2, <3>1, <3>2 DEF Entire_start, Origin
  <2> QED
    BY <1>3, <2>1, <2>2
<1>9. verify_start' = start_in_bytes' + length'
  BY <1>3, <1>4, <1>6, <1>7, <1>8 DEF Origin
<1>10. ASSUME NEW i \in 1 .. lp'
       PROVE  Origin(segments[i]) = start_in_bytes'
  <2>1. CASE i = lp + 1
    BY <1>6, <1>8, <2>1
  <2>2. CASE i # lp + 1
    <3>1. i \in 1 .. lp /\ lp # 0
      BY <1>3, <2>2
    <3>2. start_in_bytes' = start_in_bytes
      BY <1>6, <3>1 DEF Entire_start
    <3> QED
      BY <1>1, <1>2, <3>1, <3>2 DEF IInv, VisitedInv
  <2> QED
    BY <2>1, <2>2
<1> QED
  BY <1>2, <1>6, <1>7, <1>8, <1>9, <1>10

\* A turn of the loop, whether they fit or not: what the range holds is held
\* by segments.
LEMMA VisitKeepsHanded ==
  ASSUME IInv, VisitSegment, pc' = "adjacent", UNCHANGED request
  PROVE  HandedInv' /\ start_in_bytes' \in Nat /\ length' \in 0 .. U32 - 1
<1>1. pc = "adjacent" /\ lp < Len(request.segments)
  BY DEF VisitSegment
<1>2. PICK segments \in Seq(Segment) : segments = request.segments
  BY <1>1 DEF IInv, RequestInv
<1> DEFINE entry == segments[lp + 1]
           len   == entry.length % U32
           sum   == (length + len) % U32
<1>3. lp \in Nat /\ lp + 1 \in DOMAIN segments /\ entry.start \in Nat /\ entry.length \in Nat
  BY <1>1, <1>2, VisitFacts
<1>4. Adjacent(entry) /\ ~(lp >= MaxSegments)
  BY <1>2, <1>3 DEF VisitSegment, Panic, Return
<1>5. /\ verify_start' = entry.start + len
      /\ start_in_bytes' = Entire_start(entry)
      /\ length' = sum
  BY <1>2, <1>4 DEF VisitSegment
<1>6. /\ verify_start \in Nat /\ length \in Nat /\ start_in_bytes \in Nat
      /\ start_in_bytes + length <= verify_start
      /\ \A x \in Nat : start_in_bytes <= x /\ x < verify_start => Covers(segments, x)
      /\ lp = 0 => length = 0
  BY <1>1, <1>2 DEF IInv, HandedInv, VisitedInv
<1>7. len \in Nat /\ len <= entry.length /\ sum \in 0 .. U32 - 1 /\ sum <= length + len
  <2>1. U32 \in Nat \ {0}
    BY Sizes
  <2>2. ASSUME NEW n \in Nat
        PROVE  n % U32 \in 0 .. U32 - 1 /\ n % U32 <= n
    BY <2>1, RemainderSmall
  <2>3. len \in 0 .. U32 - 1 /\ len <= entry.length
    BY <1>3, <2>2
  <2> HIDE DEF len
  <2>4. length + len \in Nat
    BY <1>6, <2>1, <2>3
  <2>5. sum \in 0 .. U32 - 1 /\ sum <= length + len
    BY <2>2, <2>4
  <2> QED
    BY <2>1, <2>3, <2>5
<1>8. ASSUME NEW x \in Nat, entry.start <= x, x < entry.start + len
      PROVE  Covers(segments, x)
  <2> HIDE DEF len
  <2>1. x < entry.start + entry.length
    BY <1>3, <1>7, <1>8
  <2> QED
    BY <1>3, <1>8, <2>1 DEF Covers
<1> HIDE DEF len, sum
<1>9. CASE lp = 0
  <2>1. start_in_bytes' = entry.start
    BY <1>5, <1>9 DEF Entire_start
  <2>2. start_in_bytes' + length' <= verify_start' /\ verify_start' \in Nat
    BY <1>3, <1>5, <1>6, <1>7, <1>9, <2>1
  <2> QED
    BY <1>2, <1>3, <1>5, <1>7, <1>8, <2>1, <2>2, Sizes DEF HandedInv
<1>10. CASE lp > 0
  <2>1. start_in_bytes' = start_in_bytes /\ verify_start = entry.start
    BY <1>3, <1>4, <1>5, <1>10 DEF Entire_start, Adjacent
  <2>2. start_in_bytes' + length' <= verify_start' /\ verify_start' \in Nat
    BY <1>3, <1>5, <1>6, <1>7, <2>1
  <2>3. ASSUME NEW x \in Nat, start_in_bytes' <= x, x < verify_start'
        PROVE  Covers(segments, x)
    <3>1. CASE x < verify_start
      BY <1>6, <2>1, <2>3, <3>1
    <3>2. CASE ~(x < verify_start)
      BY <1>3, <1>5, <1>6, <1>8, <2>1, <2>3, <3>2
    <3> QED
      BY <3>1, <3>2
  <2> QED
    BY <1>2, <1>5, <1>6, <1>7, <2>1, <2>2, <2>3, Sizes DEF HandedInv
<1> QED
  BY <1>3, <1>9, <1>10

LEMMA VisitKeepsInv ==
  ASSUME IInv, VisitSegment
  PROVE  IInv'
<1>1. pc = "adjacent" /\ lp < Len(request.segments) /\ UNCHANGED <<ramdisk, data>>
  BY DEF VisitSegment
<1>2. PICK segments \in Seq(Segment) : segments = request.segments
  BY <1>1 DEF IInv, RequestInv
<1> DEFINE entry == segments[lp + 1]
<1>3. lp \in Nat /\ lp + 1 \in DOMAIN segments /\ (lp >= MaxSegments => Overfull)
  BY <1>1, <1>2, VisitFacts
<1>4. CASE lp >= MaxSegments
  <2>1. /\ pc' = "panicked"
        /\ UNCHANGED <<request, lp, verify_start, start_in_bytes, length>>
        /\ UNCHANGED <<start_copy_location, answer, before>>
    BY <1>4 DEF VisitSegment, Panic, visited, range
  <2>2. TypeOK'
    BY <1>1, <2>1 DEF IInv, TypeOK
  <2>3. PanicsOnlyPastMetadata'
    BY <1>1, <1>3, <1>4, <2>1, DiskSame DEF IInv, CopiedInv, PanicsOnlyPastMetadata, Overfull
  <2>4. RequestInv' /\ VisitedInv' /\ HandedInv' /\ ServedInv'
    BY <1>1, <2>1 DEF IInv, RequestInv, VisitedInv, HandedInv, ServedInv, Ops
  <2>5. CopiedInv'
    BY <1>1, <2>1, DiskSame DEF IInv, CopiedInv
  <2> QED
    BY <2>2, <2>3, <2>4, <2>5 DEF IInv
<1>5. CASE ~(lp >= MaxSegments) /\ Adjacent(entry)
  <2>1. /\ lp' = lp + 1 /\ UNCHANGED <<pc, request, start_copy_location, answer, before>>
    BY <1>2, <1>5 DEF VisitSegment
  <2>2. HandedInv' /\ start_in_bytes' \in Nat /\ length' \in 0 .. U32 - 1
    BY <1>1, <2>1, VisitKeepsHanded
  <2>3. TypeOK' /\ PanicsOnlyPastMetadata'
    BY <1>1, <2>1, <2>2 DEF IInv, TypeOK, PanicsOnlyPastMetadata
  <2>4. RequestInv' /\ ServedInv'
    BY <1>1, <2>1 DEF IInv, RequestInv, ServedInv, Ops
  <2>5. VisitedInv'
    <3>1. lp' \in 0 .. Len(segments) /\ lp' # 0
      BY <1>3, <2>1, ListFacts
    <3>2. Fits32(segments) =>
            /\ length' = EndOf(segments, lp')
            /\ verify_start' = start_in_bytes' + length'
            /\ \A i \in 1 .. lp' : Origin(segments[i]) = start_in_bytes'
      BY <1>1, <1>2, <2>1, VisitKeepsVisited
    <3> QED
      BY <1>1, <1>2, <2>1, <2>2, <3>1, <3>2 DEF IInv, VisitedInv
  <2>6. CopiedInv'
    BY <1>1, <2>1, DiskSame DEF IInv, CopiedInv
  <2> QED
    BY <2>2, <2>3, <2>4, <2>5, <2>6 DEF IInv
<1>6. CASE ~(lp >= MaxSegments) /\ ~Adjacent(entry)
  <2>1. Return("rejected") /\ data' \in [0 .. BufSize - 1 -> Byte]
    BY <1>1, <1>2, <1>6 DEF VisitSegment, IInv, TypeOK
  <2> QED
    BY <1>1, <2>1, ReturnKeepsInv
<1> QED
  BY <1>4, <1>5, <1>6

LEMMA AllVisitedKeepsInv ==
  ASSUME IInv, AllVisited
  PROVE  IInv'
<1>1. /\ pc = "adjacent" /\ lp = Len(request.segments) /\ pc' = request.op
      /\ UNCHANGED <<ramdisk, request, lp, verify_start, start_in_bytes, length>>
      /\ UNCHANGED <<start_copy_location, data, answer, before>>
  BY DEF AllVisited, visited, range
<1>2. PICK segments \in Seq(Segment) : segments = request.segments
  BY <1>1 DEF IInv, RequestInv
<1>3. request.op \in Ops /\ KernelSends(request.op, segments)
  BY <1>1, <1>2 DEF IInv, RequestInv
<1>4. TypeOK' /\ PanicsOnlyPastMetadata'
  BY <1>1, <1>3 DEF IInv, TypeOK, PanicsOnlyPastMetadata, Ops
<1>5. RequestInv' /\ VisitedInv' /\ HandedInv'
  BY <1>1, <1>3 DEF IInv, RequestInv, VisitedInv, HandedInv, Ops
<1>6. ASSUME request.op \in {"read", "write"}
      PROVE  ServedInv'
  <2>0. Fits32(segments)
    BY <1>2, <1>3, <1>6, ListFacts, Sizes DEF KernelSends, Fits32
  <2>1. /\ start_in_bytes \in Nat /\ start_copy_location = 0
        /\ length = EndOf(segments, Len(segments))
        /\ \A i \in 1 .. Len(segments) : Origin(segments[i]) = start_in_bytes
        /\ Len(segments) = 0 => start_in_bytes = 0
    BY <1>1, <1>2, <2>0 DEF IInv, VisitedInv
  <2>2. Base' = start_in_bytes
    BY <1>1, <2>1 DEF Base
  <2>3. length \in Nat /\ start_copy_location + length = Total(segments)
    BY <2>1, ListFacts
  <2>4. start_in_bytes % ChunkSize = 0 /\ 0 % ChunkSize = 0
    <3>1. 0 % ChunkSize = 0
      BY Sizes
    <3>2. CASE segments = <<>>
      BY <2>1, <3>1, <3>2
    <3>3. CASE segments # <<>>
      <4>1. 1 \in DOMAIN segments /\ segments[1].start % ChunkSize = 0
            /\ segments[1].place = 0
        <5>1. 1 \in DOMAIN segments
          BY <3>3, ListFacts
        <5> QED
          BY <1>3, <3>3, <5>1 DEF KernelSends, Placed
      <4>2. segments[1].start - 0 = start_in_bytes /\ segments[1].start \in Nat
        BY <2>1, <4>1, ListFacts, SegmentFields DEF Origin
      <4>3. segments[1].start = start_in_bytes
        BY <4>2
      <4> QED
        BY <3>1, <4>1, <4>3
    <3> QED
      BY <3>2, <3>3
  <2>5. \A i \in DOMAIN segments : Origin(segments[i]) = start_in_bytes
    BY <2>1, ListFacts
  <2>6. /\ start_copy_location' = 0 /\ length' = length
        /\ request'.segments = segments /\ pc' = request'.op
        /\ start_in_bytes' = start_in_bytes
    BY <1>1, <1>2, <2>1
  <2> QED
    BY <2>1, <2>2, <2>3, <2>4, <2>5, <2>6 DEF ServedInv
<1>7. CopiedInv'
  <2>1. start_copy_location = 0 /\ start_in_bytes \in Nat
    BY <1>1 DEF IInv, VisitedInv
  <2>2. Base' = start_in_bytes /\ start_in_bytes' = start_in_bytes
    BY <1>1, <2>1 DEF Base
  <2>3. \A x \in Positions : ~(start_in_bytes <= x /\ x < start_in_bytes)
    BY <2>1, Sizes DEF Positions
  <2>4. Disk' = before' /\ before' \in [Positions -> Byte]
    BY <1>1, DiskSame DEF IInv, CopiedInv
  <2>5. start_copy_location' = 0 /\ 0 .. 0 - 1 = {}
    BY <1>1, <2>1
  <2> QED
    BY <2>2, <2>3, <2>4, <2>5 DEF CopiedInv
<1>8. ServedInv'
  BY <1>1, <1>6 DEF ServedInv
<1> QED
  BY <1>4, <1>5, <1>7, <1>8 DEF IInv

-----------------------------------------------------------------------------
(***************************************************************************)
(* The loops of the Ramdisk                                                *)
(***************************************************************************)
LEMMA ServedRange ==
  ASSUME IInv, pc \in {"read", "write"}
  PROVE  /\ request.segments \in Seq(Segment) /\ Placed(request.segments)
         /\ Servable(request.op, request.segments)
         /\ AllFrom(request.segments, Base)
         /\ Total(request.segments) \in Nat /\ Base \in Nat
         /\ Total(request.segments) > 0 => Base + Total(request.segments) <= DeviceSize
         /\ Total(request.segments) <= BufSize /\ Total(request.segments) < U32
<1>1. PICK segments \in Seq(Segment) : segments = request.segments
  BY DEF IInv, RequestInv, Ops
<1>2. /\ KernelSends(request.op, segments) /\ Validate_read_request(request.op, segments)
      /\ pc = request.op /\ Base \in Nat
      /\ \A i \in DOMAIN segments : Origin(segments[i]) = Base
  BY <1>1 DEF IInv, RequestInv, ServedInv, Ops
<1>3. AllFrom(segments, Base) /\ OneRange(segments)
  BY <1>2 DEF AllFrom, OneRange, Filled
<1>4. Total(segments) \in Nat /\ Placed(segments)
  BY <1>2, ListFacts DEF KernelSends
<1>5. ASSUME Total(segments) > 0
      PROVE  Base + Total(segments) <= DeviceSize
  <2>1. PICK S \in Nat : /\ AllFrom(segments, S) /\ Filled(segments) # {}
                         /\ S + Total(segments) <= DeviceSize
    BY <1>3, <1>4, <1>5, RangeOfList
  <2>2. S = Base
    BY <1>3, <2>1 DEF AllFrom
  <2> QED
    BY <2>1, <2>2
<1>6. Servable(request.op, segments)
  BY <1>2, <1>3 DEF Servable, Validate_read_request
<1>7. Total(segments) < U32 /\ Total(segments) <= BufSize
  BY <1>2, <1>4, Sizes DEF KernelSends
<1> QED
  BY <1>1, <1>2, <1>3, <1>4, <1>5, <1>6, <1>7

\* Where a loop of the Ramdisk stands when another chunk is to be copied.
LEMMA LoopFacts ==
  ASSUME IInv, pc \in {"read", "write"}, length > 0
  PROVE  /\ start_in_bytes \in Nat /\ start_in_bytes % ChunkSize = 0
         /\ start_in_bytes = Base + start_copy_location
         /\ start_copy_location \in Nat /\ Base \in Nat
         /\ start_copy_location + ChunkSize <= BufSize
         /\ start_in_bytes + ChunkSize <= DeviceSize
         /\ (start_copy_location + ChunkSize) % ChunkSize = 0
         /\ length \in Nat /\ length - ChunkSize \in Nat
         /\ (length - ChunkSize) % U32 = length - ChunkSize
<1> DEFINE T == Total(request.segments)
<1>1. /\ start_copy_location \in Nat /\ length \in Nat /\ Base \in Nat
      /\ start_copy_location + length = T
      /\ start_copy_location % ChunkSize = 0 /\ Base % ChunkSize = 0
  BY DEF IInv, ServedInv, Ops
<1>2. /\ T \in Nat /\ T <= BufSize /\ T < U32
      /\ T > 0 => Base + T <= DeviceSize
  BY ServedRange DEF Ops
<1>3. T % ChunkSize = 0
  BY DEF IInv, RequestInv, KernelSends
<1>4. start_in_bytes - start_copy_location = Base
  BY DEF Base
<1> HIDE DEF T
<1>5. start_in_bytes = Base + start_copy_location
  <2>1. start_in_bytes \in Int
    BY DEF IInv, ServedInv, Ops
  <2> QED
    BY <1>1, <1>4, <2>1
<1>6. start_in_bytes \in Nat /\ start_in_bytes % ChunkSize = 0
  BY <1>1, <1>5, SumOfMultiples
<1>7. start_copy_location + ChunkSize <= T
  <2>1. start_copy_location < T
    BY <1>1
  <2> QED
    BY <1>1, <1>2, <1>3, <2>1, NextMultiple
<1>8. (start_copy_location + ChunkSize) % ChunkSize = 0
  <2>1. ChunkSize % ChunkSize = 0 /\ ChunkSize \in Nat
    BY Sizes, Multiple
  <2> QED
    BY <1>1, <2>1, SumOfMultiples
<1>9. length - ChunkSize \in Nat /\ length - ChunkSize < U32
  BY <1>1, <1>2, <1>7, Sizes
<1>10. start_in_bytes + ChunkSize <= DeviceSize /\ start_copy_location + ChunkSize <= BufSize
  BY <1>1, <1>2, <1>5, <1>7, Sizes
<1> QED
  BY <1>1, <1>5, <1>6, <1>8, <1>9, <1>10, FitsU32

\* Behind a chunk the loop stands where it should.
LEMMA AdvanceKeepsPlace ==
  ASSUME IInv, pc \in {"read", "write"}, length > 0, Advance(ChunkSize)
  PROVE  /\ PanicsOnlyPastMetadata' /\ RequestInv' /\ VisitedInv' /\ HandedInv' /\ ServedInv'
         /\ length' \in 0 .. U32 - 1 /\ start_copy_location' \in 0 .. BufSize
         /\ Base' = Base /\ start_copy_location' = start_copy_location + ChunkSize
         /\ start_in_bytes' = start_in_bytes + ChunkSize
         /\ UNCHANGED <<pc, request, answer, before>>
<1>1. /\ start_in_bytes' = start_in_bytes + ChunkSize
      /\ length' = (length - ChunkSize) % U32
      /\ start_copy_location' = start_copy_location + ChunkSize
      /\ UNCHANGED <<pc, request, lp, verify_start, answer, before>>
  BY DEF Advance, visited
<1>2. PICK start \in Nat, place \in Nat, left \in Nat, base \in Nat :
        start = start_in_bytes /\ place = start_copy_location /\ left = length /\ base = Base
  BY LoopFacts
<1>3. /\ start = base + place /\ place + ChunkSize <= BufSize
      /\ (place + ChunkSize) % ChunkSize = 0 /\ left - ChunkSize \in Nat
      /\ (left - ChunkSize) % U32 = left - ChunkSize
  BY <1>2, LoopFacts
<1>4. PICK T \in Nat : T = Total(request.segments) /\ place + left = T /\ T < U32
  BY <1>2, ServedRange DEF IInv, ServedInv, Ops
<1>5. /\ start + ChunkSize \in Nat /\ place + ChunkSize \in Nat
      /\ (start + ChunkSize) - (place + ChunkSize) = base
      /\ (place + ChunkSize) + (left - ChunkSize) = T
      /\ left - ChunkSize \in 0 .. U32 - 1 /\ place + ChunkSize \in 0 .. BufSize
  BY <1>3, <1>4, Sizes
<1>6. /\ start_in_bytes' = start + ChunkSize /\ start_copy_location' = place + ChunkSize
      /\ length' = left - ChunkSize
  BY <1>1, <1>2, <1>3
<1>7. Base' = base
  BY <1>5, <1>6 DEF Base
<1>8. PanicsOnlyPastMetadata' /\ RequestInv' /\ VisitedInv' /\ HandedInv'
  BY <1>1 DEF IInv, PanicsOnlyPastMetadata, RequestInv, VisitedInv, HandedInv, Ops
<1>9. ServedInv'
  <2>1. /\ pc = request.op /\ base % ChunkSize = 0
        /\ \A i \in DOMAIN request.segments : Origin(request.segments[i]) = base
    BY <1>2 DEF IInv, ServedInv, Ops
  <2> QED
    BY <1>1, <1>3, <1>4, <1>5, <1>6, <1>7, <2>1 DEF ServedInv
<1> QED
  BY <1>1, <1>2, <1>5, <1>6, <1>7, <1>8, <1>9

\* The bytes that ReadChunk finds are those of the device.
LEMMA ChunkRead ==
  ASSUME IInv, NEW start \in Nat, start % ChunkSize = 0, start + ChunkSize <= DeviceSize,
         NEW j \in 0 .. ChunkSize - 1
  PROVE  Disk[start + j] = IF start \in DOMAIN ramdisk THEN ramdisk[start][j] ELSE Zero
<1>1. start + j \in Positions /\ start + j \in Nat
  BY Sizes DEF Positions
<1>2. ChunkOf(start + j) = start /\ (start + j) - start = j
  BY <1>1, ChunkOfPosition, Sizes
<1> QED
  BY <1>1, <1>2, DiskIsByteAt DEF ByteAt

\* A turn of the loop of Read_block, when sizes are the same.
LEMMA ReadChunkFacts ==
  ASSUME OneSize, IInv, ReadChunk
  PROVE  /\ pc = "read" /\ length > 0 /\ UNCHANGED ramdisk /\ Advance(ChunkSize)
         /\ data' = [i \in 0 .. BufSize - 1 |->
                       IF start_copy_location <= i /\ i < start_copy_location + ChunkSize
                         THEN Disk[Base + i] ELSE data[i]]
<1> DEFINE block == IF start_in_bytes \in DOMAIN ramdisk THEN ramdisk[start_in_bytes]
                    ELSE [j \in 0 .. ChunkSize - 1 |-> Zero]
<1>1. pc = "read" /\ length > 0 /\ UNCHANGED ramdisk
  BY DEF ReadChunk
<1>2. /\ start_in_bytes \in Nat /\ start_in_bytes % ChunkSize = 0
      /\ start_in_bytes + ChunkSize <= DeviceSize
      /\ start_in_bytes = Base + start_copy_location
      /\ start_copy_location \in Nat /\ Base \in Nat
      /\ start_copy_location + ChunkSize <= BufSize
  BY <1>1, LoopFacts
<1>3. ~Panics(ChunkSize)
  BY <1>2, Sizes DEF Panics
<1>4. DOMAIN block = 0 .. ChunkSize - 1
  BY DEF IInv, TypeOK
<1>5. ASSUME NEW j \in 0 .. ChunkSize - 1
      PROVE  block[j] = Disk[start_in_bytes + j]
  BY <1>2, ChunkRead
<1>6. ChunkSize - 1 \in 0 .. ChunkSize - 1
  BY Sizes
<1>7. DOMAIN data = 0 .. BufSize - 1
  BY DEF IInv, TypeOK
<1> HIDE DEF block
<1>8. /\ Advance(ChunkSize)
      /\ data' = [i \in DOMAIN data |->
                    LET j == i - start_copy_location
                    IN  IF j \in DOMAIN block /\ j < ChunkSize THEN block[j] ELSE data[i]]
  BY <1>3, <1>4, <1>6 DEF ReadChunk, OneSize, block
<1>9. ASSUME NEW i \in 0 .. BufSize - 1
      PROVE  (LET j == i - start_copy_location
              IN  IF j \in DOMAIN block /\ j < ChunkSize THEN block[j] ELSE data[i])
             = IF start_copy_location <= i /\ i < start_copy_location + ChunkSize
                 THEN Disk[Base + i] ELSE data[i]
  <2> DEFINE j == i - start_copy_location
  <2>1. j \in Int /\ (j \in 0 .. ChunkSize - 1
                      <=> start_copy_location <= i /\ i < start_copy_location + ChunkSize)
    BY <1>2, Sizes
  <2>2. start_in_bytes + j = Base + i
    BY <1>2
  <2>3. j \in 0 .. ChunkSize - 1 => j < ChunkSize /\ block[j] = Disk[start_in_bytes + j]
    BY <1>5, Sizes
  <2> HIDE DEF j
  <2>4. (IF j \in DOMAIN block /\ j < ChunkSize THEN block[j] ELSE data[i])
        = IF start_copy_location <= i /\ i < start_copy_location + ChunkSize
            THEN Disk[Base + i] ELSE data[i]
    BY <1>4, <2>1, <2>2, <2>3
  <2> QED
    BY <2>4 DEF j
<1> QED
  BY <1>1, <1>7, <1>8, <1>9

LEMMA ReadChunkKeepsInv ==
  ASSUME OneSize, IInv, ReadChunk
  PROVE  IInv'
<1> DEFINE here == start_copy_location
<1>1. /\ pc = "read" /\ length > 0 /\ UNCHANGED ramdisk /\ Advance(ChunkSize)
      /\ data' = [i \in 0 .. BufSize - 1 |->
                    IF here <= i /\ i < here + ChunkSize THEN Disk[Base + i] ELSE data[i]]
  BY ReadChunkFacts
<1>2. /\ PanicsOnlyPastMetadata' /\ RequestInv' /\ VisitedInv' /\ HandedInv' /\ ServedInv'
      /\ length' \in 0 .. U32 - 1 /\ start_copy_location' \in 0 .. BufSize
      /\ Base' = Base /\ start_copy_location' = here + ChunkSize
      /\ UNCHANGED <<pc, request, answer, before>>
  BY <1>1, AdvanceKeepsPlace
<1>3. /\ here \in Nat /\ Base \in Nat /\ here + ChunkSize <= BufSize
      /\ Base + here + ChunkSize <= DeviceSize
  BY <1>1, LoopFacts, Sizes
<1>4. Disk \in [Positions -> Byte] /\ data \in [0 .. BufSize - 1 -> Byte]
  BY DiskType DEF IInv, TypeOK
<1>5. ASSUME NEW i \in 0 .. BufSize - 1, here <= i, i < here + ChunkSize
      PROVE  Disk[Base + i] \in Byte
  <2>1. Base + i \in Positions
    <3>1. PICK base \in Nat : base = Base
      BY <1>3
    <3>2. base + i \in 0 .. DeviceSize - 1
      BY <1>3, <1>5, <3>1, Sizes
    <3> QED
      BY <3>1, <3>2 DEF Positions
  <2> QED
    BY <1>4, <2>1
<1>6. data' \in [0 .. BufSize - 1 -> Byte]
  BY <1>1, <1>4, <1>5
<1>7. TypeOK'
  BY <1>1, <1>2, <1>6 DEF IInv, TypeOK
<1>8. Disk' = Disk
  BY <1>1, DiskSame
<1>9. ASSUME NEW i \in 0 .. here + ChunkSize - 1
      PROVE  data'[i] = Disk[Base + i]
  <2>1. i \in 0 .. BufSize - 1
    BY <1>3, Sizes
  <2>2. CASE i < here
    <3>1. i \in 0 .. here - 1
      BY <1>3, <2>2
    <3>2. data[i] = Disk[Base + i]
      BY <1>1, <3>1 DEF IInv, CopiedInv
    <3>3. data'[i] = data[i]
      BY <1>1, <1>3, <2>1, <2>2
    <3> QED
      BY <3>2, <3>3
  <2>3. CASE here <= i
    <3>1. i < here + ChunkSize
      BY <1>3, Sizes
    <3> QED
      BY <1>1, <2>1, <2>3, <3>1
  <2> QED
    BY <1>3, <2>2, <2>3
<1>10. CopiedInv'
  <2>1. Disk' = before' /\ before' \in [Positions -> Byte] /\ pc' = "read"
    BY <1>1, <1>2, <1>8 DEF IInv, CopiedInv
  <2>2. ASSUME NEW i \in 0 .. start_copy_location' - 1
        PROVE  data'[i] = Disk'[Base' + i]
    <3>1. start_copy_location' = here + ChunkSize /\ Base' = Base
      BY <1>2
    <3> HIDE DEF here
    <3>2. i \in 0 .. here + ChunkSize - 1
      <4>1. PICK end \in Nat : end = start_copy_location'
        BY <1>2
      <4> QED
        BY <1>3, <3>1, <4>1, Sizes
    <3>3. data'[i] = Disk[Base + i]
      BY <1>9, <3>2 DEF here
    <3>4. Base' + i = Base + i
      BY <3>1, Zenon
    <3> QED
      BY <1>8, <3>3, <3>4, Zenon
  <2> QED
    BY <2>1, <2>2 DEF CopiedInv
<1> QED
  BY <1>2, <1>7, <1>10 DEF IInv

\* A turn of the loop of Write_block.
LEMMA WriteChunkFacts ==
  ASSUME IInv, WriteChunk
  PROVE  /\ pc = "write" /\ length > 0 /\ Advance(ChunkSize) /\ UNCHANGED data
         /\ ramdisk' = [x \in DOMAIN ramdisk \union {start_in_bytes} |->
                          IF x = start_in_bytes
                            THEN [j \in 0 .. ChunkSize - 1 |-> data[start_copy_location + j]]
                            ELSE ramdisk[x]]
         /\ \A x \in Positions :
              Disk'[x] = IF start_in_bytes <= x /\ x < start_in_bytes + ChunkSize
                           THEN data[x - Base] ELSE Disk[x]
<1> DEFINE chunk == [j \in 0 .. ChunkSize - 1 |-> data[start_copy_location + j]]
           start == start_in_bytes
<1>1. pc = "write" /\ length > 0
  BY DEF WriteChunk
<1>2. /\ start \in Nat /\ start % ChunkSize = 0
      /\ start = Base + start_copy_location /\ Base \in Nat
      /\ start_copy_location \in Nat
      /\ start_copy_location + ChunkSize <= BufSize
  BY <1>1, LoopFacts
<1>3. ~Panics(ChunkSize)
  BY <1>2, Sizes DEF Panics
<1>4. /\ Advance(ChunkSize) /\ UNCHANGED data
      /\ ramdisk' = [x \in DOMAIN ramdisk \union {start} |->
                       IF x = start THEN chunk ELSE ramdisk[x]]
  BY <1>3 DEF WriteChunk
<1>5. ASSUME NEW x \in Positions
      PROVE  Disk'[x] = IF start <= x /\ x < start + ChunkSize THEN data[x - Base] ELSE Disk[x]
  <2>1. x \in Nat /\ (ChunkOf(x) = start <=> start <= x /\ x < start + ChunkSize)
    BY <1>2, ChunkOfPosition, Sizes DEF Positions
  <2>2. Disk'[x] = ByteAt(ramdisk', x) /\ Disk[x] = ByteAt(ramdisk, x)
    BY DiskIsByteAt
  <2>3. CASE start <= x /\ x < start + ChunkSize
    <3>1. ChunkOf(x) = start
      BY <2>1, <2>3
    <3>2. x - start \in 0 .. ChunkSize - 1 /\ start_copy_location + (x - start) = x - Base
      BY <1>2, <2>1, <2>3, Sizes
    <3>3. chunk[x - start] = data[x - Base]
      BY <3>2
    <3> HIDE DEF chunk
    <3>4. ramdisk'[start] = chunk /\ start \in DOMAIN ramdisk'
      BY <1>4
    <3> QED
      BY <2>2, <2>3, <3>1, <3>3, <3>4 DEF ByteAt
  <2>4. CASE ~(start <= x /\ x < start + ChunkSize)
    <3>1. ChunkOf(x) # start
      BY <2>1, <2>4
    <3> HIDE DEF chunk
    <3>2. /\ ChunkOf(x) \in DOMAIN ramdisk' <=> ChunkOf(x) \in DOMAIN ramdisk
          /\ ChunkOf(x) \in DOMAIN ramdisk => ramdisk'[ChunkOf(x)] = ramdisk[ChunkOf(x)]
      BY <1>4, <3>1
    <3> QED
      BY <2>2, <2>4, <3>2 DEF ByteAt
  <2> QED
    BY <2>3, <2>4
<1> QED
  BY <1>1, <1>4, <1>5

LEMMA WriteChunkKeepsInv ==
  ASSUME IInv, WriteChunk
  PROVE  IInv'
<1> DEFINE start == start_in_bytes
           chunk == [j \in 0 .. ChunkSize - 1 |-> data[start_copy_location + j]]
<1>1. /\ pc = "write" /\ length > 0 /\ Advance(ChunkSize) /\ UNCHANGED data
      /\ ramdisk' = [x \in DOMAIN ramdisk \union {start} |->
                       IF x = start THEN chunk ELSE ramdisk[x]]
      /\ \A x \in Positions :
           Disk'[x] = IF start <= x /\ x < start + ChunkSize THEN data[x - Base] ELSE Disk[x]
  BY WriteChunkFacts
<1>2. /\ PanicsOnlyPastMetadata' /\ RequestInv' /\ VisitedInv' /\ HandedInv' /\ ServedInv'
      /\ length' \in 0 .. U32 - 1 /\ start_copy_location' \in 0 .. BufSize
      /\ Base' = Base /\ start_in_bytes' = start + ChunkSize
      /\ UNCHANGED <<pc, request, answer, before>>
  BY <1>1, AdvanceKeepsPlace
<1>3. /\ start \in Nat /\ start % ChunkSize = 0 /\ start + ChunkSize <= DeviceSize
      /\ Base \in Nat /\ start = Base + start_copy_location /\ start_copy_location \in Nat
      /\ start_copy_location + ChunkSize <= BufSize
  BY <1>1, LoopFacts
<1>4. data \in [0 .. BufSize - 1 -> Byte]
  BY DEF IInv, TypeOK
<1>5. chunk \in [0 .. ChunkSize - 1 -> Byte]
  <2>1. \A j \in 0 .. ChunkSize - 1 : start_copy_location + j \in 0 .. BufSize - 1
    BY <1>3, Sizes
  <2> QED
    BY <1>4, <2>1
<1>6. TypeOK'
  <2> HIDE DEF chunk
  <2>1. start \in 0 .. DeviceSize - 1
    BY <1>3, Sizes
  <2>2. ASSUME NEW x \in DOMAIN ramdisk'
        PROVE  /\ x \in 0 .. DeviceSize - 1 /\ x % ChunkSize = 0
               /\ ramdisk'[x] \in [0 .. ChunkSize - 1 -> Byte]
    <3>1. CASE x = start
      BY <1>1, <1>3, <1>5, <2>1, <3>1
    <3>2. CASE x # start
      <4>1. x \in DOMAIN ramdisk /\ ramdisk'[x] = ramdisk[x]
        BY <1>1, <3>2
      <4> QED
        BY <4>1 DEF IInv, TypeOK
    <3> QED
      BY <3>1, <3>2
  <2> QED
    BY <1>1, <1>2, <2>2 DEF IInv, TypeOK
<1>7. CopiedInv'
  <2>1. before' \in [Positions -> Byte] /\ pc' = "write"
    BY <1>1, <1>2 DEF IInv, CopiedInv
  <2>2. ASSUME NEW x \in Positions
        PROVE  Disk'[x] = IF Base' <= x /\ x < start_in_bytes'
                            THEN data'[x - Base'] ELSE before'[x]
    <3>1. x \in Nat /\ Base <= start
      BY <1>3, Sizes DEF Positions
    <3>2. Disk[x] = IF Base <= x /\ x < start THEN data[x - Base] ELSE before[x]
      BY <1>1 DEF IInv, CopiedInv
    <3>3. Disk'[x] = IF start <= x /\ x < start + ChunkSize THEN data[x - Base] ELSE Disk[x]
      BY <1>1
    <3>4. Disk'[x] = IF Base <= x /\ x < start + ChunkSize THEN data[x - Base] ELSE before[x]
      BY <1>3, <3>1, <3>2, <3>3, Sizes
    <3> QED
      BY <1>1, <1>2, <3>4
  <2> QED
    BY <2>1, <2>2 DEF CopiedInv
<1> QED
  BY <1>2, <1>6, <1>7 DEF IInv

LEMMA InvIsInductive ==
  ASSUME OneSize, IInv, [Next]_vars
  PROVE  IInv'
<1>1. CASE \E op \in {"read", "write", "discard"}, segments \in Seq(Segment),
              buffer \in [0 .. BufSize - 1 -> Byte] : Arrive(op, segments, buffer)
  BY <1>1, ArriveKeepsInv DEF Ops
<1>2. CASE Validate
  BY <1>2, ValidateKeepsInv
<1>3. CASE VisitSegment
  BY <1>3, VisitKeepsInv
<1>4. CASE AllVisited
  BY <1>4, AllVisitedKeepsInv
<1>5. CASE ReadChunk
  BY <1>5, ReadChunkKeepsInv
<1>6. CASE WriteChunk
  BY <1>6, WriteChunkKeepsInv
<1>7. CASE ChunksDone \/ Discard_block
  <2>1. \E result \in {"ok", "error", "rejected"} : Return(result)
    BY <1>7 DEF ChunksDone, Discard_block
  <2>2. UNCHANGED <<ramdisk, data>> /\ data \in [0 .. BufSize - 1 -> Byte]
    BY <1>7 DEF ChunksDone, Discard_block, IInv, TypeOK
  <2> QED
    BY <2>1, <2>2, ReturnKeepsInv
<1>8. CASE UNCHANGED vars
  <2>1. /\ UNCHANGED <<ramdisk, pc, request, lp, verify_start, start_in_bytes, length>>
        /\ UNCHANGED <<start_copy_location, data, answer, before>>
    BY <1>8 DEF vars, visited, range
  <2>2. Disk' = Disk /\ Base' = Base
    BY <2>1, DiskSame DEF Base
  <2> QED
    BY <2>1, <2>2 DEF IInv, TypeOK, PanicsOnlyPastMetadata, Overfull, RequestInv,
                      VisitedInv, HandedInv, ServedInv, CopiedInv
<1> QED
  BY <1>1, <1>2, <1>3, <1>4, <1>5, <1>6, <1>7, <1>8 DEF Next, Step

LEMMA InvHolds ==
  ASSUME OneSize
  PROVE  Spec => []IInv
<1>1. Init => IInv
  BY InitInv
<1>2. IInv /\ [Next]_vars => IInv'
  BY InvIsInductive
<1> QED
  BY <1>1, <1>2, PTL DEF Spec

-----------------------------------------------------------------------------
(***************************************************************************)
(* What is answered                                                        *)
(***************************************************************************)
\* The bytes of the segments are those of the range the Ramdisk is called for.
LEMMA SegmentInRange ==
  ASSUME NEW segments \in Seq(Segment), Placed(segments), NEW S \in Nat,
         AllFrom(segments, S), NEW i \in DOMAIN segments,
         NEW j \in 0 .. segments[i].length - 1
  PROVE  /\ segments[i].place + j \in Nat
         /\ segments[i].place + j < Total(segments)
         /\ segments[i].start + j = S + (segments[i].place + j)
<1>1. /\ segments[i].start \in Nat /\ segments[i].length \in Nat /\ segments[i].place \in Nat
      /\ EndOf(segments, i) = segments[i].place + segments[i].length
  BY SegmentFields
<1>2. i \in Filled(segments)
  BY <1>1 DEF Filled
<1>3. segments[i].start - segments[i].place = S
  BY <1>2 DEF AllFrom, Origin
<1>4. segments[i].place + segments[i].length <= Total(segments)
  BY <1>1, EndsAscend
<1>5. Total(segments) \in Nat
  BY ListFacts
<1>6. PICK start \in Nat : start = segments[i].start
  BY <1>1
<1>7. PICK len \in Nat : len = segments[i].length
  BY <1>1
<1>8. PICK place \in Nat : place = segments[i].place
  BY <1>1
<1>9. PICK total \in Nat : total = Total(segments)
  BY <1>5
<1>10. j \in 0 .. len - 1 /\ start - place = S /\ place + len <= total
  BY <1>3, <1>4, <1>6, <1>7, <1>8, <1>9
<1>11. place + j \in Nat /\ place + j < total /\ start + j = S + (place + j)
  BY <1>10
<1> QED
  BY <1>6, <1>8, <1>9, <1>11

\* What no segment covers is outside the range.
LEMMA NotCovered ==
  ASSUME NEW segments \in Seq(Segment), Placed(segments), NEW S \in Nat,
         AllFrom(segments, S), NEW x \in Positions, ~Covers(segments, x)
  PROVE  ~(S <= x /\ x < S + Total(segments))
<1>1. SUFFICES ASSUME S <= x, x < S + Total(segments)
               PROVE  FALSE
  OBVIOUS
<1>2. x \in Nat /\ Total(segments) \in Nat
  BY ListFacts, Sizes DEF Positions
<1>3. PICK i \in Filled(segments) :
        segments[i].place <= x - S /\ x - S < segments[i].place + segments[i].length
  <2>1. x - S \in Nat /\ x - S < Total(segments)
    BY <1>1, <1>2
  <2> QED
    BY <2>1, SomeSegmentHolds
<1>4. i \in DOMAIN segments
  BY DEF Filled
<1>5. /\ segments[i].start \in Nat /\ segments[i].length \in Nat /\ segments[i].place \in Nat
      /\ segments[i].start - segments[i].place = S
  BY <1>4, SegmentFields DEF AllFrom, Origin
<1>6. segments[i].start <= x /\ x < segments[i].start + segments[i].length
  BY <1>2, <1>3, <1>5
<1> QED
  BY <1>4, <1>6 DEF Covers

\* A request that ends without success has left the device alone.
LEMMA FailureIsDone ==
  ASSUME IInv, pc # "write", UNCHANGED ramdisk, answer' # "ok"
  PROVE  Done
<1>1. Disk' = before
  BY DiskSame DEF IInv, CopiedInv
<1> QED
  BY <1>1 DEF Done

LEMMA SuccessIsDone ==
  ASSUME IInv, ChunksDone
  PROVE  Done
<1> DEFINE T == Total(request.segments)
<1>1. /\ pc \in {"read", "write"} /\ length = 0 /\ answer' = "ok"
      /\ UNCHANGED <<ramdisk, data>>
  BY DEF ChunksDone, Return
<1>2. PICK segments \in Seq(Segment) : segments = request.segments
  BY <1>1 DEF IInv, RequestInv
<1>3. PICK S \in Nat : S = Base
  BY <1>1, ServedRange DEF Ops
<1>4. /\ Placed(segments) /\ AllFrom(segments, S) /\ Total(segments) \in Nat
      /\ Total(segments) > 0 => S + Total(segments) <= DeviceSize
      /\ Total(segments) <= BufSize
  BY <1>1, <1>2, <1>3, ServedRange DEF Ops
<1>5. /\ pc = request.op /\ start_copy_location = Total(segments)
      /\ start_in_bytes = S + Total(segments)
  <2>1. /\ pc = request.op /\ start_copy_location \in Nat /\ start_in_bytes \in Nat
        /\ start_copy_location + 0 = Total(segments)
    BY <1>1, <1>2 DEF IInv, ServedInv, Ops
  <2>2. start_in_bytes - start_copy_location = S
    BY <1>3 DEF Base
  <2> QED
    BY <1>4, <2>1, <2>2
<1>6. Disk' = Disk
  BY <1>1, DiskSame
<1>7. ASSUME NEW i \in DOMAIN segments, NEW j \in 0 .. segments[i].length - 1
      PROVE  /\ segments[i].place + j \in 0 .. Total(segments) - 1
             /\ segments[i].start + j = S + (segments[i].place + j)
             /\ segments[i].start + j \in Positions
  <2>1. PICK p \in Nat : p = segments[i].place + j /\ p < Total(segments)
                         /\ segments[i].start + j = S + p
    BY <1>4, SegmentInRange
  <2>2. S + p \in Positions /\ p \in 0 .. Total(segments) - 1
    BY <1>4, <2>1, Sizes DEF Positions
  <2> QED
    BY <2>1, <2>2
<1>8. CASE pc = "write"
  <2>1. \A x \in Positions :
          Disk[x] = IF S <= x /\ x < S + Total(segments) THEN data[x - S] ELSE before[x]
    BY <1>3, <1>5, <1>8 DEF IInv, CopiedInv
  <2>2. Agree(segments, Disk, data)
    <3>1. ASSUME NEW i \in DOMAIN segments, NEW j \in 0 .. segments[i].length - 1
          PROVE  Disk[segments[i].start + j] = data[segments[i].place + j]
      <4>1. PICK p \in 0 .. Total(segments) - 1 :
              /\ p = segments[i].place + j /\ segments[i].start + j = S + p
              /\ S + p \in Positions
        BY <1>7
      <4>2. S <= S + p /\ S + p < S + Total(segments) /\ (S + p) - S = p
        BY <1>4
      <4> QED
        BY <2>1, <4>1, <4>2
    <3> QED
      BY <3>1 DEF Agree
  <2>3. ASSUME NEW x \in DOMAIN before, ~Covers(segments, x)
        PROVE  Disk[x] = before[x]
    <3>1. x \in Positions
      BY DEF IInv, CopiedInv
    <3> QED
      BY <1>4, <2>1, <2>3, <3>1, NotCovered
  <2> QED
    BY <1>1, <1>2, <1>5, <1>6, <1>8, <2>2, <2>3 DEF Done
<1>9. CASE pc = "read"
  <2>1. Disk = before /\ \A p \in 0 .. Total(segments) - 1 : data[p] = Disk[S + p]
    BY <1>3, <1>5, <1>9 DEF IInv, CopiedInv
  <2>2. Agree(segments, before, data)
    <3>1. ASSUME NEW i \in DOMAIN segments, NEW j \in 0 .. segments[i].length - 1
          PROVE  before[segments[i].start + j] = data[segments[i].place + j]
      BY <1>7, <2>1
    <3> QED
      BY <3>1 DEF Agree
  <2> QED
    BY <1>1, <1>2, <1>5, <1>6, <1>9, <2>1, <2>2 DEF Done
<1> QED
  BY <1>1, <1>8, <1>9

LEMMA ReturnsAreDone ==
  ASSUME OneSize, IInv, [Next]_vars, Returns
  PROVE  Done
<1>1. pc # "idle" /\ pc' = "idle"
  BY DEF Returns
<1>2. CASE Validate \/ VisitSegment
  <2>1. pc \in {"arrived", "adjacent"} /\ UNCHANGED ramdisk
    BY <1>2 DEF Validate, VisitSegment
  <2>2. answer' = "rejected"
    BY <1>1, <1>2, <2>1 DEF Validate, VisitSegment, Return, Panic
  <2> QED
    BY <2>1, <2>2, FailureIsDone
<1>3. CASE AllVisited
  <2>1. request.op \in Ops /\ pc' = request.op
    BY <1>3 DEF AllVisited, IInv, RequestInv
  <2> QED
    BY <1>1, <2>1 DEF Ops
<1>4. CASE ReadChunk
  BY <1>1, <1>4, ReadChunkFacts, AdvanceKeepsPlace
<1>5. CASE WriteChunk
  BY <1>1, <1>5, WriteChunkFacts, AdvanceKeepsPlace
<1>6. CASE ChunksDone
  BY <1>6, SuccessIsDone
<1>7. CASE Discard_block
  <2>1. pc = "discard" /\ UNCHANGED ramdisk /\ answer' = "error"
    BY <1>7 DEF Discard_block, Return
  <2> QED
    BY <2>1, FailureIsDone
<1>8. CASE \E op \in {"read", "write", "discard"}, segments \in Seq(Segment),
              buffer \in [0 .. BufSize - 1 -> Byte] : Arrive(op, segments, buffer)
  BY <1>1, <1>8 DEF Arrive
<1>9. CASE UNCHANGED vars
  BY <1>1, <1>9 DEF vars
<1> QED
  BY <1>2, <1>3, <1>4, <1>5, <1>6, <1>7, <1>8, <1>9 DEF Next, Step

-----------------------------------------------------------------------------
(***************************************************************************)
(* What is rejected                                                        *)
(***************************************************************************)
\* A list whose segments hold bytes has a gap where the loop finds one.
LEMMA GapIsFound ==
  ASSUME IInv, VisitSegment, pc' = "idle", Fits32(request.segments)
  PROVE  \/ ~Servable(request.op, request.segments)
         \/ Filled(request.segments) # DOMAIN request.segments
<1>1. pc = "adjacent" /\ lp < Len(request.segments)
  BY DEF VisitSegment
<1>2. PICK segments \in Seq(Segment) : segments = request.segments
  BY <1>1 DEF IInv, RequestInv
<1> DEFINE entry == segments[lp + 1]
<1>3. /\ lp \in Nat /\ lp + 1 \in DOMAIN segments
      /\ entry.place = length
  BY <1>1, <1>2, VisitFacts, VisitFits
<1>4. ~Adjacent(entry)
  <2>1. ~(lp >= MaxSegments)
    BY <1>1 DEF VisitSegment, Panic
  <2> QED
    BY <1>1, <1>2, <2>1 DEF VisitSegment
<1>5. lp > 0 /\ entry.start # verify_start
  BY <1>4 DEF Adjacent
<1>6. /\ verify_start = start_in_bytes + length /\ start_in_bytes \in Nat
      /\ \A i \in 1 .. lp : Origin(segments[i]) = start_in_bytes
  BY <1>1, <1>2 DEF IInv, VisitedInv
<1>7. entry.start \in Nat /\ entry.place \in Nat
  BY <1>3, SegmentFields
<1>8. Origin(entry) # Origin(segments[1]) /\ 1 \in DOMAIN segments
  <2>1. Origin(segments[1]) = start_in_bytes /\ 1 \in DOMAIN segments
    BY <1>3, <1>5, <1>6, ListFacts
  <2>2. entry.start - length # start_in_bytes
    BY <1>3, <1>5, <1>6, <1>7
  <2> QED
    BY <1>3, <2>1, <2>2 DEF Origin
<1>9. Filled(segments) = DOMAIN segments => ~OneRange(segments)
  BY <1>3, <1>8 DEF OneRange
<1> QED
  BY <1>2, <1>9 DEF Servable

\* A list that was visited to its end is one range.
LEMMA VisitedIsServable ==
  ASSUME IInv, AllVisited, Fits32(request.segments)
  PROVE  Servable(request.op, request.segments)
<1>1. pc = "adjacent" /\ lp = Len(request.segments)
  BY DEF AllVisited
<1>2. PICK segments \in Seq(Segment) : segments = request.segments
  BY <1>1 DEF IInv, RequestInv
<1>3. \A i \in DOMAIN segments : Origin(segments[i]) = start_in_bytes
  <2>1. \A i \in 1 .. Len(segments) : Origin(segments[i]) = start_in_bytes
    BY <1>1, <1>2 DEF IInv, VisitedInv
  <2> QED
    BY <2>1, ListFacts
<1>4. OneRange(segments)
  BY <1>3 DEF OneRange, Filled
<1>5. Validate_read_request(request.op, segments)
  BY <1>1, <1>2 DEF IInv, RequestInv
<1> QED
  BY <1>2, <1>4, <1>5 DEF Servable, Validate_read_request

LEMMA ChecksAreExact ==
  ASSUME IInv, [Next]_vars, Checked
  PROVE  /\ pc' \in {"read", "write", "discard"} => Servable(request.op, request.segments)
         /\ pc' = "idle" =>
              \/ ~Servable(request.op, request.segments)
              \/ Filled(request.segments) # DOMAIN request.segments
<1>1. (pc = "arrived" \/ pc = "adjacent") /\ Fits32(request.segments)
  BY DEF Checked
<1>2. CASE Validate
  <2>1. \/ pc' = "adjacent"
        \/ pc' = "idle" /\ ~Validate_read_request(request.op, request.segments)
    BY <1>2 DEF Validate, Return
  <2> QED
    BY <2>1 DEF Servable, Validate_read_request
<1>3. CASE VisitSegment
  <2>1. pc' \in {"adjacent", "panicked", "idle"}
    BY <1>1, <1>3 DEF VisitSegment, Panic, Return
  <2> QED
    BY <1>1, <1>3, <2>1, GapIsFound
<1>4. CASE AllVisited
  <2>1. pc' = request.op /\ request.op \in Ops
    BY <1>1, <1>4 DEF AllVisited, IInv, RequestInv
  <2> QED
    BY <1>1, <1>4, <2>1, VisitedIsServable DEF Ops
<1>5. CASE UNCHANGED vars
  BY <1>1, <1>5 DEF vars
<1>6. ~ReadChunk /\ ~WriteChunk /\ ~ChunksDone /\ ~Discard_block
  BY <1>1 DEF ReadChunk, WriteChunk, ChunksDone, Discard_block
<1>7. ~ \E op \in {"read", "write", "discard"}, segments \in Seq(Segment),
          buffer \in [0 .. BufSize - 1 -> Byte] : Arrive(op, segments, buffer)
  BY <1>1 DEF Arrive
<1> QED
  BY <1>2, <1>3, <1>4, <1>5, <1>6, <1>7 DEF Next, Step

-----------------------------------------------------------------------------
(***************************************************************************)
(* What the storage is called for                                          *)
(***************************************************************************)
LEMMA StorageGetsTheSegments ==
  ASSUME OneSize, IInv, [Next]_vars, HandsOver
  PROVE  LET handed == start_in_bytes' .. start_in_bytes' + length' - 1
         IN  /\ \A x \in handed : Covers(request.segments, x)
             /\ Fits32(request.segments) =>
                  \A x \in 0 .. DeviceSize - 1 : Covers(request.segments, x) => x \in handed
<1>1. pc = "adjacent" /\ pc' \in {"read", "write", "discard"}
  BY DEF HandsOver
<1>2. AllVisited
  <2>1. ~VisitSegment
    BY <1>1 DEF VisitSegment, Panic, Return
  <2>2. ~Validate /\ ~ReadChunk /\ ~WriteChunk /\ ~ChunksDone /\ ~Discard_block
    BY <1>1 DEF Validate, ReadChunk, WriteChunk, ChunksDone, Discard_block
  <2>3. ~ \E op \in {"read", "write", "discard"}, segments \in Seq(Segment),
            buffer \in [0 .. BufSize - 1 -> Byte] : Arrive(op, segments, buffer)
    BY <1>1 DEF Arrive
  <2>4. ~UNCHANGED vars
    BY <1>1 DEF vars
  <2> QED
    BY <2>1, <2>2, <2>3, <2>4 DEF Next, Step
<1>3. lp = Len(request.segments) /\ UNCHANGED <<start_in_bytes, length>>
  BY <1>2 DEF AllVisited, range
<1>4. PICK segments \in Seq(Segment) : segments = request.segments
  BY <1>1 DEF IInv, RequestInv
<1>5. PICK start \in Nat, len \in Nat, end \in Nat :
        /\ start = start_in_bytes /\ len = length /\ end = verify_start
        /\ start + len <= end
        /\ \A x \in Nat : start <= x /\ x < end => Covers(segments, x)
  BY <1>1, <1>4 DEF IInv, VisitedInv, HandedInv
<1>6. start_in_bytes' = start /\ length' = len
  BY <1>3, <1>5
<1>7. ASSUME NEW x \in start .. start + len - 1
      PROVE  Covers(segments, x)
  <2>1. x \in Nat /\ start <= x /\ x < end
    BY <1>5
  <2> QED
    BY <1>5, <2>1
<1>8. ASSUME Fits32(segments), NEW x \in 0 .. DeviceSize - 1, Covers(segments, x)
      PROVE  x \in start .. start + len - 1
  <2>1. len = Total(segments) /\ AllFrom(segments, start)
    <3>1. /\ length = EndOf(segments, Len(segments))
          /\ \A i \in 1 .. Len(segments) : Origin(segments[i]) = start
      BY <1>1, <1>3, <1>4, <1>5, <1>8 DEF IInv, VisitedInv
    <3> QED
      BY <1>5, <3>1, ListFacts DEF AllFrom, Filled
  <2>2. Placed(segments) /\ x \in Nat
    BY <1>1, <1>4, Sizes DEF IInv, RequestInv, KernelSends
  <2>3. PICK i \in DOMAIN segments :
          segments[i].start <= x /\ x < segments[i].start + segments[i].length
    BY <1>8 DEF Covers
  <2>4. PICK first \in Nat, size \in Nat, place \in Nat :
          first = segments[i].start /\ size = segments[i].length /\ place = segments[i].place
    BY SegmentFields
  <2>5. x - first \in 0 .. size - 1 /\ first + (x - first) = x
    BY <2>2, <2>3, <2>4
  <2>6. /\ place + (x - first) \in Nat /\ place + (x - first) < len
        /\ first + (x - first) = start + (place + (x - first))
    BY <2>1, <2>2, <2>4, <2>5, SegmentInRange
  <2> QED
    BY <2>2, <2>4, <2>5, <2>6
<1> QED
  BY <1>4, <1>6, <1>7, <1>8

-----------------------------------------------------------------------------
(***************************************************************************)
(* The request path implements StorageMechanism                            *)
(***************************************************************************)
\* The range a request stands for is one a storage mechanism can be called for.
LEMMA CallIsRange ==
  ASSUME NEW op \in Ops, NEW segments \in Seq(Segment), Placed(segments)
  PROVE  /\ Call(op, segments) \in [op : Ops, start : Positions, length : 0 .. DeviceSize]
         /\ Call(op, segments).start + Call(op, segments).length <= DeviceSize
         /\ Call(op, segments).op = op
<1>1. CASE Servable(op, segments) /\ Filled(segments) # {}
  <2>1. Total(segments) \in Nat /\ Total(segments) > 0
    <3>1. PICK i \in Filled(segments) : TRUE
      BY <1>1
    <3>2. i \in DOMAIN segments /\ segments[i].length > 0
      BY DEF Filled
    <3>3. /\ segments[i].length \in Nat /\ segments[i].place \in Nat
          /\ segments[i].place + segments[i].length <= Total(segments)
      BY <3>2, SegmentFields, EndsAscend
    <3> QED
      BY <3>2, <3>3, ListFacts
  <2>2. PICK S \in Nat : /\ S < DeviceSize /\ S + Total(segments) <= DeviceSize
                         /\ Origin(segments[CHOOSE i \in Filled(segments) : TRUE]) = S
    BY <1>1, <2>1, RangeOfList DEF Servable
  <2>3. Call(op, segments) = [op |-> op, start |-> S, length |-> Total(segments)]
    BY <1>1, <2>2 DEF Call
  <2> QED
    BY <2>1, <2>2, <2>3, Sizes DEF Positions
<1>2. CASE ~(Servable(op, segments) /\ Filled(segments) # {})
  <2>1. Call(op, segments) = [op |-> op, start |-> 0, length |-> 0]
    BY <1>2 DEF Call
  <2> QED
    BY <2>1, Sizes DEF Positions
<1> QED
  BY <1>1, <1>2

\* The call in progress is the one the Ramdisk was called for.
LEMMA ServedCall ==
  ASSUME IInv, pc \in {"read", "write"}
  PROVE  /\ InProgress.op = pc /\ InProgress.length = Total(request.segments)
         /\ InProgress.start \in Nat
         /\ Total(request.segments) > 0 => InProgress.start = Base
<1>1. PICK segments \in Seq(Segment) : segments = request.segments
  BY ServedRange
<1>2. /\ Placed(segments) /\ Servable(request.op, segments) /\ AllFrom(segments, Base)
      /\ Total(segments) \in Nat
  BY <1>1, ServedRange
<1>3. pc = request.op /\ InProgress = Call(pc, segments)
  BY <1>1 DEF IInv, ServedInv, InProgress, Ops
<1>4. CASE Total(segments) > 0
  <2>1. PICK S \in Nat : /\ AllFrom(segments, S) /\ Filled(segments) # {}
                         /\ Origin(segments[CHOOSE i \in Filled(segments) : TRUE]) = S
    BY <1>2, <1>4, RangeOfList DEF Servable
  <2>2. S = Base
    BY <1>2, <2>1 DEF AllFrom
  <2>3. InProgress = [op |-> pc, start |-> S, length |-> Total(segments)]
    BY <1>2, <1>3, <2>1 DEF Call
  <2> QED
    BY <1>1, <2>2, <2>3
<1>5. CASE Total(segments) = 0
  <2>1. Filled(segments) = {}
    <3>1. ASSUME NEW i \in Filled(segments)
          PROVE  FALSE
      <4>1. i \in DOMAIN segments /\ segments[i].length > 0
        BY DEF Filled
      <4>2. /\ segments[i].length \in Nat /\ segments[i].place \in Nat
            /\ segments[i].place + segments[i].length <= Total(segments)
        BY <1>2, <4>1, SegmentFields, EndsAscend
      <4> QED
        BY <1>5, <4>1, <4>2
    <3> QED
      BY <3>1
  <2>2. InProgress = [op |-> pc, start |-> 0, length |-> 0]
    BY <1>3, <2>1 DEF Call
  <2> QED
    BY <1>1, <1>5, <2>2
<1> QED
  BY <1>2, <1>4, <1>5

LEMMA NotIdle ==
  ASSUME IInv, pc # "idle"
  PROVE  InProgress.op \in Ops /\ InProgress # Contract!NoCall
<1>1. /\ request.op \in Ops /\ request.segments \in Seq(Segment) /\ Placed(request.segments)
  BY DEF IInv, RequestInv, KernelSends
<1>2. InProgress = Call(request.op, request.segments)
  BY DEF InProgress
<1>3. InProgress.op \in Ops
  BY <1>1, <1>2, CallIsRange
<1> QED
  BY <1>3 DEF Ops, Contract!NoCall

LEMMA ArriveIsIssue ==
  ASSUME NEW op \in Ops, NEW segments \in Seq(Segment),
         NEW buffer \in [0 .. BufSize - 1 -> Byte], Arrive(op, segments, buffer)
  PROVE  Contract!Issue
<1>1. /\ pc = "idle" /\ pc' = "arrived" /\ Placed(segments)
      /\ request'.op = op /\ request'.segments = segments /\ data' = buffer
      /\ UNCHANGED <<ramdisk, answer>>
  BY DEF Arrive, KernelSends
<1>2. InProgress = Contract!NoCall
  BY <1>1 DEF InProgress, Contract!NoCall
<1>3. InProgress' = Call(op, segments)
  BY <1>1 DEF InProgress
<1>4. /\ InProgress' \in [op : {"read", "write", "discard"}, start : 0 .. DeviceSize - 1,
                          length : 0 .. DeviceSize]
      /\ InProgress'.start + InProgress'.length <= DeviceSize
  BY <1>1, <1>3, CallIsRange DEF Ops, Positions
<1>5. Disk' = Disk /\ Returned' = Returned
  BY <1>1, DiskSame DEF Returned
<1> QED
  BY <1>1, <1>2, <1>4, <1>5 DEF Contract!Issue, Contract!Buffer

LEMMA ReturnIsError ==
  ASSUME IInv, pc # "idle", pc' = "idle", UNCHANGED <<ramdisk, data>>,
         answer' \in {"error", "rejected"}
  PROVE  Contract!ReturnError
<1>1. InProgress # Contract!NoCall
  BY NotIdle
<1>2. InProgress' = Contract!NoCall
  BY DEF InProgress, Contract!NoCall
<1>3. Returned' = "error"
  BY DEF Returned
<1>4. Disk' = Disk
  BY DiskSame
<1> QED
  BY <1>1, <1>2, <1>3, <1>4 DEF Contract!ReturnError

LEMMA SameIsStutter ==
  ASSUME UNCHANGED <<ramdisk, request, data, answer>>, pc = "idle" <=> pc' = "idle"
  PROVE  UNCHANGED Contract!vars
<1>1. Disk' = Disk
  BY DiskSame
<1>2. InProgress' = InProgress /\ Returned' = Returned
  BY DEF InProgress, Returned
<1> QED
  BY <1>1, <1>2 DEF Contract!vars

LEMMA ReadChunkIsFill ==
  ASSUME OneSize, IInv, ReadChunk
  PROVE  Contract!Fill
<1> DEFINE here == start_copy_location
           T == Total(request.segments)
<1>1. /\ pc = "read" /\ length > 0 /\ UNCHANGED ramdisk /\ Advance(ChunkSize)
      /\ data' = [i \in 0 .. BufSize - 1 |->
                    IF here <= i /\ i < here + ChunkSize THEN Disk[Base + i] ELSE data[i]]
  BY ReadChunkFacts
<1>2. UNCHANGED <<pc, request, answer>>
  BY <1>1, AdvanceKeepsPlace
<1>3. /\ here \in Nat /\ length \in Nat /\ length - ChunkSize \in Nat /\ here + length = T
  BY <1>1, LoopFacts DEF IInv, ServedInv, Ops
<1>4. here + ChunkSize <= T /\ T > 0 /\ T \in Nat
  BY <1>1, <1>3, Sizes
<1>5. InProgress.op = "read" /\ InProgress.length = T /\ InProgress.start = Base
  BY <1>1, <1>4, ServedCall DEF Ops
<1>6. DOMAIN data = 0 .. BufSize - 1
  BY DEF IInv, TypeOK
<1>7. ASSUME NEW i \in DOMAIN data, data'[i] # data[i]
      PROVE  i < T /\ data'[i] = Disk[Base + i]
  <2>1. here <= i /\ i < here + ChunkSize
    BY <1>1, <1>6, <1>7
  <2>2. data'[i] = Disk[Base + i]
    BY <1>1, <1>6, <2>1
  <2>3. i < T
    BY <1>3, <1>4, <1>6, <2>1, Sizes
  <2> QED
    BY <2>2, <2>3
<1>8. DOMAIN data' = DOMAIN data
  BY <1>1, <1>6
<1>9. Disk' = Disk /\ InProgress' = InProgress /\ Returned' = Returned
  BY <1>1, <1>2, DiskSame DEF InProgress, Returned
<1> HIDE DEF T
<1>10. \A i \in DOMAIN data :
         data'[i] # data[i] =>
           i < InProgress.length /\ data'[i] = Disk[InProgress.start + i]
  BY <1>5, <1>7
<1> QED
  BY <1>5, <1>8, <1>9, <1>10 DEF Contract!Fill

LEMMA WriteChunkIsChange ==
  ASSUME IInv, WriteChunk
  PROVE  Contract!Change
<1> DEFINE start == start_in_bytes
           T == Total(request.segments)
<1>1. /\ pc = "write" /\ length > 0 /\ Advance(ChunkSize) /\ UNCHANGED data
      /\ \A x \in Positions :
           Disk'[x] = IF start <= x /\ x < start + ChunkSize THEN data[x - Base] ELSE Disk[x]
  BY WriteChunkFacts
<1>2. UNCHANGED <<pc, request, answer>>
  BY <1>1, AdvanceKeepsPlace
<1>3. /\ start_copy_location \in Nat /\ length \in Nat /\ length - ChunkSize \in Nat
      /\ start_copy_location + length = T
      /\ start = Base + start_copy_location /\ Base \in Nat
  BY <1>1, LoopFacts DEF IInv, ServedInv, Ops
<1>4. start + ChunkSize <= Base + T /\ Base <= start /\ T > 0 /\ T \in Nat /\ start \in Nat
  BY <1>1, <1>3, Sizes
<1>5. InProgress.op = "write" /\ InProgress.length = T /\ InProgress.start = Base
  BY <1>1, <1>4, ServedCall DEF Ops
<1>6. DOMAIN Disk = Positions /\ DOMAIN Disk' = Positions
  BY DiskIsByteAt
<1> HIDE DEF T
<1>7. ASSUME NEW x \in Positions, Disk'[x] # Disk[x]
      PROVE  Base <= x /\ x < Base + T /\ Disk'[x] = data[x - Base]
  <2>1. start <= x /\ x < start + ChunkSize /\ Disk'[x] = data[x - Base]
    BY <1>1, <1>7
  <2>2. x \in Nat
    BY Sizes DEF Positions
  <2> QED
    BY <1>3, <1>4, <2>1, <2>2, Sizes
<1>8. InProgress' = InProgress /\ Returned' = Returned
  BY <1>2 DEF InProgress, Returned
<1>9. \A x \in DOMAIN Disk :
        Disk'[x] # Disk[x] => Contract!Covered(x) /\ Disk'[x] = Contract!Target(x)
  BY <1>5, <1>6, <1>7 DEF Contract!Covered, Contract!Target
<1> QED
  BY <1>1, <1>5, <1>6, <1>8, <1>9 DEF Contract!Change

LEMMA ChunksDoneIsReturnOk ==
  ASSUME IInv, ChunksDone
  PROVE  Contract!ReturnOk
<1> DEFINE T == Total(request.segments)
<1>1. /\ pc \in {"read", "write"} /\ length = 0 /\ pc' = "idle" /\ answer' = "ok"
      /\ UNCHANGED <<ramdisk, data>>
  BY DEF ChunksDone, Return
<1>2. /\ T \in Nat /\ Base \in Nat /\ T <= BufSize
  BY <1>1, ServedRange DEF Ops
<1>3. start_copy_location = T /\ start_in_bytes = Base + T
  <2>1. start_copy_location \in Nat /\ start_in_bytes \in Nat /\ start_copy_location + 0 = T
    BY <1>1 DEF IInv, ServedInv, Ops
  <2>2. Base = start_in_bytes - start_copy_location
    BY DEF Base
  <2> HIDE DEF T
  <2> QED
    BY <1>2, <2>1, <2>2
<1>4. /\ InProgress.op = pc /\ InProgress.length = T /\ InProgress.start \in Nat
      /\ T > 0 => InProgress.start = Base
  BY <1>1, ServedCall DEF Ops
<1>5. InProgress # Contract!NoCall /\ InProgress' = Contract!NoCall
  BY <1>1, NotIdle DEF InProgress, Contract!NoCall
<1>6. Returned' = "ok" /\ Disk' = Disk /\ DOMAIN Disk = Positions
  BY <1>1, DiskSame, DiskIsByteAt DEF Returned
<1> HIDE DEF T
<1>7. CASE pc = "read"
  <2>1. \A i \in 0 .. T - 1 : data[i] = Disk[Base + i]
    BY <1>3, <1>7 DEF IInv, CopiedInv
  <2>2. \A i \in 0 .. InProgress.length - 1 : data[i] = Disk[InProgress.start + i]
    <3>1. ASSUME NEW i \in 0 .. T - 1
          PROVE  data[i] = Disk[InProgress.start + i]
      <4>1. T > 0
        BY <1>2
      <4> QED
        BY <1>4, <2>1, <4>1
    <3> QED
      BY <1>4, <3>1
  <2>3. InProgress.length <= BufSize
    BY <1>2, <1>4
  <2> QED
    BY <1>1, <1>4, <1>5, <1>6, <1>7, <2>2, <2>3 DEF Contract!ReturnOk
<1>8. CASE pc = "write"
  <2>1. ASSUME NEW x \in Positions, InProgress.start <= x,
               x < InProgress.start + InProgress.length
        PROVE  Disk[x] = data[x - InProgress.start]
    <3>1. x \in Nat
      BY Sizes DEF Positions
    <3>2. T > 0
      BY <1>2, <1>4, <2>1, <3>1
    <3>3. InProgress.start = Base
      BY <1>4, <3>2
    <3>4. Base <= x /\ x < start_in_bytes
      BY <1>3, <1>4, <2>1, <3>3
    <3> QED
      BY <1>8, <3>3, <3>4 DEF IInv, CopiedInv
  <2>2. \A x \in DOMAIN Disk : Contract!Covered(x) => Disk[x] = Contract!Target(x)
    BY <1>4, <1>6, <1>8, <2>1 DEF Contract!Covered, Contract!Target
  <2> QED
    BY <1>1, <1>4, <1>5, <1>6, <1>8, <2>2 DEF Contract!ReturnOk
<1> QED
  BY <1>1, <1>7, <1>8

LEMMA InitImplements ==
  ASSUME Init
  PROVE  Contract!Init
<1>1. Disk \in [0 .. DeviceSize - 1 -> {Zero}]
  <2>1. \A x \in Positions : ByteAt(ramdisk, x) = Zero
    BY DEF Init, ByteAt
  <2> QED
    BY <2>1, DiskIsByteAt DEF Positions
<1>2. InProgress = Contract!NoCall /\ Returned = "none"
  BY DEF Init, InProgress, Returned, Contract!NoCall
<1>3. data \in [0 .. BufSize - 1 -> Byte]
  BY RequestPathAssumption DEF Init
<1> QED
  BY <1>1, <1>2, <1>3 DEF Contract!Init, Contract!Buffer

LEMMA StepImplements ==
  ASSUME OneSize, IInv, [Next]_vars
  PROVE  [Contract!Next]_(Contract!vars)
<1>1. CASE \E op \in {"read", "write", "discard"}, segments \in Seq(Segment),
              buffer \in [0 .. BufSize - 1 -> Byte] : Arrive(op, segments, buffer)
  BY <1>1, ArriveIsIssue DEF Ops, Contract!Next
<1>2. CASE Validate \/ VisitSegment
  <2>1. pc # "idle" /\ UNCHANGED <<ramdisk, data>>
    BY <1>2 DEF Validate, VisitSegment
  <2>2. CASE pc' = "idle"
    <3>1. answer' = "rejected"
      BY <1>2, <2>1, <2>2 DEF Validate, VisitSegment, Return, Panic
    <3> QED
      BY <2>1, <2>2, <3>1, ReturnIsError DEF Contract!Next
  <2>3. CASE pc' # "idle"
    <3>1. UNCHANGED <<request, answer>>
      BY <1>2, <2>3 DEF Validate, VisitSegment, Return, Panic
    <3> QED
      BY <2>1, <2>3, <3>1, SameIsStutter
  <2> QED
    BY <2>2, <2>3
<1>3. CASE AllVisited
  <2>1. /\ pc = "adjacent" /\ pc' = request.op
        /\ UNCHANGED <<ramdisk, request, data, answer>>
    BY <1>3 DEF AllVisited
  <2>2. pc' # "idle"
    BY <2>1 DEF IInv, RequestInv, Ops
  <2> QED
    BY <2>1, <2>2, SameIsStutter
<1>4. CASE ReadChunk
  BY <1>4, ReadChunkIsFill DEF Contract!Next
<1>5. CASE WriteChunk
  BY <1>5, WriteChunkIsChange DEF Contract!Next
<1>6. CASE ChunksDone
  BY <1>6, ChunksDoneIsReturnOk DEF Contract!Next
<1>7. CASE Discard_block
  <2>1. /\ pc = "discard" /\ pc' = "idle" /\ UNCHANGED <<ramdisk, data>>
        /\ answer' = "error"
    BY <1>7 DEF Discard_block, Return
  <2> QED
    BY <2>1, ReturnIsError DEF Contract!Next
<1>8. CASE UNCHANGED vars
  <2>1. UNCHANGED <<ramdisk, pc, request, data, answer>>
    BY <1>8 DEF vars
  <2> QED
    BY <2>1, SameIsStutter
<1> QED
  BY <1>1, <1>2, <1>3, <1>4, <1>5, <1>6, <1>7, <1>8 DEF Next, Step

-----------------------------------------------------------------------------
(***************************************************************************)
(* Theorems                                                                *)
(***************************************************************************)
\* Every variable of the request path keeps its type: the Ramdisk holds whole
\* chunks at multiples of their size on the device, and the length that its
\* loops count down never goes below zero.
THEOREM TypeCorrect ==
  ASSUME OneSize
  PROVE  Spec => []TypeOK
<1>1. IInv => TypeOK
  BY DEF IInv
<1> QED
  BY <1>1, InvHolds, PTL

\* However a request is cut into segments, the loops of the Ramdisk stay in the
\* buffer, and the loop over the segments stays in the metadata unless a write
\* or a discard has more segments than the metadata has room for: then it
\* panics before a byte of the device changed.
THEOREM IndexesAreInBounds ==
  ASSUME OneSize
  PROVE  Spec => []PanicsOnlyPastMetadata
<1>1. IInv => PanicsOnlyPastMetadata
  BY DEF IInv
<1> QED
  BY <1>1, InvHolds, PTL

\* A request that is answered with success did for each byte of each segment
\* what was asked for that byte, however it was cut into segments; one that
\* failed or was rejected changed nothing.
THEOREM SegmentsAreServed ==
  ASSUME OneSize
  PROVE  Spec => ServesEverySegment
<1>1. IInv /\ [Next]_vars => [Returns => Done]_vars
  BY ReturnsAreDone
<1> QED
  BY <1>1, InvHolds, PTL DEF Spec, ServesEverySegment

\* As long as the lengths of a request add up to a uint32, what reaches the
\* storage is one range, and what is rejected is none, or has an empty segment,
\* or is a read of too few or too many.
THEOREM GapsAreRejected ==
  ASSUME OneSize
  PROVE  Spec => RejectsOnlyGaps
<1>1. IInv /\ [Next]_vars =>
        [Checked =>
           /\ pc' \in {"read", "write", "discard"} => Servable(request.op, request.segments)
           /\ pc' = "idle" =>
                \/ ~Servable(request.op, request.segments)
                \/ Filled(request.segments) # DOMAIN request.segments]_vars
  BY ChecksAreExact
<1> QED
  BY <1>1, InvHolds, PTL DEF Spec, RejectsOnlyGaps

\* The storage is called for bytes of the segments only, however long a discard
\* is, and for all of them when their lengths add up to a uint32.
THEOREM OnlySegmentsAreHandedOver ==
  ASSUME OneSize
  PROVE  Spec => HandsOverTheSegments
<1>1. IInv /\ [Next]_vars =>
        [HandsOver =>
           LET handed == start_in_bytes' .. start_in_bytes' + length' - 1
           IN  /\ \A x \in handed : Covers(request.segments, x)
               /\ Fits32(request.segments) =>
                    \A x \in 0 .. DeviceSize - 1 :
                      Covers(request.segments, x) => x \in handed]_vars
  BY StorageGetsTheSegments
<1> QED
  BY <1>1, InvHolds, PTL DEF Spec, HandsOverTheSegments

\* To the kernel, the Respond functions with the Ramdisk behind them are a
\* storage mechanism called for the range the segments make up.
THEOREM RequestPathImplementsStorageMechanism ==
  ASSUME OneSize
  PROVE  Spec => ImplementsStorageMechanism
<1>1. IInv /\ [Next]_vars => [Contract!Next]_(Contract!vars)
  BY StepImplements
<1>2. Init => Contract!Init
  BY InitImplements
<1> QED
  BY <1>1, <1>2, InvHolds, PTL DEF Spec, ImplementsStorageMechanism, Contract!Spec
=============================================================================
