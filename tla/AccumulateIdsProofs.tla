--------------------------- MODULE AccumulateIdsProofs ---------------------------
(***************************************************************************)
(* What the proofs of all decoders rest on: the geometry of the channels,  *)
(* sums of samples, and the parallel scan, which returns the set of ids of *)
(* every rank buffer, for every buffer size and number of threads.         *)
(***************************************************************************)
EXTENDS AccumulateIds, TLAPS

LEMMA ChunkGeometry ==
    ASSUME NEW k \in Chunks
    PROVE  /\ k \in Nat
           /\ ChunkLen(k) \in Nat /\ 1 <= ChunkLen(k) /\ ChunkLen(k) <= ChunkElems
           /\ Filled(k) \subseteq Slots
           /\ \A i \in Slots : i \in Filled(k) <=> i < ChunkLen(k)
           /\ \A i \in Filled(k) : i \in Nat /\ <<k, i>> \in Pixels
BY GeometryAssumption DEF Chunks, ChunkLen, Filled, Slots, Pixels

LEMMA PixelGeometry ==
    ASSUME NEW p \in Pixels
    PROVE  p[1] \in Chunks /\ p[2] \in Filled(p[1]) /\ p = <<p[1], p[2]>>
BY GeometryAssumption DEF Chunks, ChunkLen, Filled, Slots, Pixels

LEMMA LevelsNat == Levels \subseteq Nat /\ 0 \in Levels /\ 0 \in Chunks
BY GeometryAssumption DEF Levels, Chunks

LEMMA SumTypes ==
    /\ NoCoverage \in PixelSums
    /\ Uninitialised \in PixelSums
    /\ ZeroMask \in Masks
    /\ \A sum \in PixelSums, t \in Tags : Plus(sum, t) \in PixelSums
BY DEF NoCoverage, Uninitialised, ZeroMask, Plus, PixelSums, Masks

LEMMA CoverageType ==
    ASSUME NEW r, NEW h, NEW p, NEW n
    PROVE  CoverageOf(r, h, p, n) \in PixelSums
BY DEF CoverageOf, PixelSums

\* One more level adds its sample if its rank names the object ...
LEMMA CoverageHit ==
    ASSUME NEW r, NEW p \in Pixels, NEW l \in Levels, r[l][p] # Zero
    PROVE  CoverageOf(r, r[l][p], p, l + 1) = Plus(CoverageOf(r, r[l][p], p, l), <<l, p>>)
<1> DEFINE h == r[l][p]
           f == CoverageOf(r, h, p, l)
           g == CoverageOf(r, h, p, l + 1)
<1>1. f \in [Tags -> Nat] /\ g \in [Tags -> Nat]
  BY CoverageType DEF PixelSums
<1>2. <<l, p>> \in Tags
  BY DEF Tags, Samples
<1>3. ASSUME NEW t \in Tags PROVE g[t] = IF t = <<l, p>> THEN f[t] + 1 ELSE f[t]
  <2>1. CASE t = <<l, p>>
    <3>1. ~ \E m \in Levels : m < l /\ t = <<m, p>> /\ r[m][p] = h /\ h # Zero
      BY <2>1, LevelsNat
    <3>2. f[t] = 0
      BY <3>1 DEF CoverageOf
    <3>3. g[t] = 1
      BY <2>1, LevelsNat DEF CoverageOf
    <3> QED BY <2>1, <3>2, <3>3
  <2>2. CASE t # <<l, p>>
    <3>1. \A m \in Levels : t = <<m, p>> => (m < l <=> m < l + 1)
      BY <2>2, LevelsNat
    <3> QED BY <2>2, <3>1 DEF CoverageOf
  <2> QED BY <2>1, <2>2
<1> HIDE DEF f, g
<1> QED BY <1>1, <1>2, <1>3 DEF Plus, f, g

\* ... and changes nothing otherwise.
LEMMA CoverageMiss ==
    ASSUME NEW r, NEW h, NEW p \in Pixels, NEW l \in Levels, h = Zero \/ r[l][p] # h
    PROVE  CoverageOf(r, h, p, l + 1) = CoverageOf(r, h, p, l)
<1>1. \A m \in Levels : r[m][p] = h /\ h # Zero => (m < l <=> m < l + 1)
  BY LevelsNat
<1> QED BY <1>1 DEF CoverageOf

LEMMA CoverageNone ==
    ASSUME NEW r, NEW h, NEW p, NEW n,
           \A l \in Levels : l < n => h = Zero \/ r[l][p] # h
    PROVE  CoverageOf(r, h, p, n) = NoCoverage
BY DEF CoverageOf, NoCoverage

LEMMA GetChunkFacts ==
    ASSUME NEW channel, NEW k \in Chunks, NEW buf
    PROVE  /\ DOMAIN GetChunk(channel, k, buf) = Slots
           /\ \A i \in Filled(k) : GetChunk(channel, k, buf)[i] = channel[<<k, i>>]
           /\ \A i \in Slots : \/ i \in Filled(k) /\ GetChunk(channel, k, buf)[i] = channel[<<k, i>>]
                               \/ i \notin Filled(k) /\ GetChunk(channel, k, buf)[i] = buf[i]
BY ChunkGeometry DEF GetChunk

-----------------------------------------------------------------------------
(* Masks as vectors of all pixels, one chunk behind the other.                 *)

LEMMA ProductMonotonic ==
    ASSUME NEW a \in Nat, NEW b \in Nat, NEW n \in Nat, a <= b
    PROVE  a * n \in Nat /\ a * n <= b * n
<1>1. PICK d \in Nat : b = a + d
  <2>1. b - a \in Nat /\ b = a + (b - a)
    OBVIOUS
  <2> QED BY <2>1
<1>2. b * n = a * n + d * n
  BY <1>1
<1>3. a * n \in Nat /\ d * n \in Nat
  OBVIOUS
<1> QED BY <1>2, <1>3

\* Where chunk k starts, the next one, and the end.
LEMMA ChunkStarts ==
    ASSUME NEW k \in Chunks
    PROVE  /\ k * ChunkElems \in Nat
           /\ (k + 1) * ChunkElems = k * ChunkElems + ChunkElems
           /\ (NumChunks - 1) * ChunkElems \in Nat
           /\ k * ChunkElems <= (NumChunks - 1) * ChunkElems
           /\ k # NumChunks - 1 => k * ChunkElems + ChunkElems <= (NumChunks - 1) * ChunkElems
<1>1. /\ k \in Nat /\ k + 1 \in Nat /\ NumChunks - 1 \in Nat /\ k <= NumChunks - 1
      /\ ChunkElems \in Nat
      /\ k # NumChunks - 1 => k + 1 <= NumChunks - 1
  BY GeometryAssumption DEF Chunks
<1>2. (k + 1) * ChunkElems = k * ChunkElems + ChunkElems
  BY <1>1
<1> QED BY <1>1, <1>2, ProductMonotonic

\* Every pixel has an element of its own inside a vector of all pixels.
LEMMA PixelsInVector ==
    /\ \A p \in Pixels :
          /\ p[1] * ChunkElems + p[2] \in Nat
          /\ p[1] * ChunkElems + p[2] < (NumChunks - 1) * ChunkElems + LastLen
    /\ \A p, q \in Pixels :
          p[1] * ChunkElems + p[2] = q[1] * ChunkElems + q[2] => p = q
<1>1. ASSUME NEW p \in Pixels
      PROVE  /\ p[1] * ChunkElems \in Nat /\ p[2] \in Nat /\ p[2] < ChunkElems
             /\ p[1] * ChunkElems + p[2] < (NumChunks - 1) * ChunkElems + LastLen
  <2>1. /\ p[1] \in Chunks /\ p[2] \in Nat /\ p[2] < ChunkLen(p[1])
        /\ ChunkLen(p[1]) <= ChunkElems /\ ChunkElems \in Nat /\ LastLen \in Nat /\ LastLen > 0
        /\ ChunkLen(p[1]) = IF p[1] = NumChunks - 1 THEN LastLen ELSE ChunkElems
    BY PixelGeometry, ChunkGeometry, GeometryAssumption DEF ChunkLen, Filled
  <2> QED BY <2>1, ChunkStarts
<1>2. ASSUME NEW p \in Pixels, NEW q \in Pixels, p[1] < q[1]
      PROVE  p[1] * ChunkElems + p[2] < q[1] * ChunkElems + q[2]
  <2>1. /\ p[1] \in Chunks /\ q[1] \in Chunks /\ p[1] \in Nat /\ q[1] \in Nat
        /\ ChunkElems \in Nat
    BY PixelGeometry, GeometryAssumption DEF Chunks
  <2>2. /\ (p[1] + 1) * ChunkElems = p[1] * ChunkElems + ChunkElems
        /\ (p[1] + 1) * ChunkElems <= q[1] * ChunkElems
    BY <1>2, <2>1, ChunkStarts, ProductMonotonic
  <2>3. /\ p[1] * ChunkElems \in Nat /\ p[2] \in Nat /\ p[2] < ChunkElems
        /\ q[1] * ChunkElems \in Nat /\ q[2] \in Nat
    BY <1>1
  <2> DEFINE start == p[1] * ChunkElems
             next == q[1] * ChunkElems
  <2>4. /\ start \in Nat /\ next \in Nat /\ ChunkElems \in Nat
        /\ start + ChunkElems <= next
    BY <2>1, <2>2, <2>3
  <2> HIDE DEF start, next
  <2>5. start + p[2] < next + q[2]
    BY <2>3, <2>4
  <2> QED BY <2>5 DEF start, next
<1>3. ASSUME NEW p \in Pixels, NEW q \in Pixels,
             p[1] * ChunkElems + p[2] = q[1] * ChunkElems + q[2]
      PROVE  p = q
  <2>1. p[1] \in Nat /\ q[1] \in Nat
    BY PixelGeometry, GeometryAssumption DEF Chunks
  <2>2. p[1] = q[1]
    BY <1>1, <1>2, <1>3, <2>1
  <2>3. p[2] = q[2]
    BY <1>1, <1>3, <2>2
  <2> QED BY <2>2, <2>3, PixelGeometry
<1> QED BY <1>1, <1>3

-----------------------------------------------------------------------------
(* The scan. *)

\* The rounded-up block size: the blocks together are at least the buffer.
LEMMA BlocksSuffice ==
    BlockSize \in Nat /\ ThreadCount * BlockSize >= ChunkElems
<1> DEFINE n == ChunkElems + ThreadCount - 1
<1>1. n \in Nat /\ ThreadCount \in Nat /\ ThreadCount > 0 /\ ChunkElems \in Nat
  BY GeometryAssumption, ThreadCountAssumption
<1>2. n \div ThreadCount \in Nat /\ n % ThreadCount \in 0 .. ThreadCount - 1
  BY <1>1
<1>3. n = ThreadCount * (n \div ThreadCount) + (n % ThreadCount)
  BY <1>1
<1>4. ThreadCount * (n \div ThreadCount) \in Nat
  BY <1>1, <1>2
<1> HIDE DEF n
<1>5. ThreadCount * (n \div ThreadCount) >= n - (ThreadCount - 1)
  BY <1>1, <1>2, <1>3, <1>4
<1>6. n - (ThreadCount - 1) = ChunkElems
  BY <1>1 DEF n
<1>7. BlockSize = n \div ThreadCount
  BY DEF BlockSize, n
<1> QED BY <1>2, <1>5, <1>6, <1>7

LEMMA BlocksInBuffer ==
    ASSUME NEW t \in Threads
    PROVE  BlockStart(t) \in Nat /\ BlockEnd(t) \in Nat /\ BlockEnd(t) <= ChunkElems
<1>1. t \in Nat /\ BlockSize \in Nat /\ ChunkElems \in Nat
  BY BlocksSuffice, GeometryAssumption, ThreadCountAssumption DEF Threads
<1>2. BlockStart(t) \in Nat
  BY <1>1 DEF BlockStart
<1> QED BY <1>1, <1>2 DEF BlockEnd

\* No gap: every element of the buffer is in the block of some thread.
LEMMA BlocksCover ==
    ASSUME NEW i \in Slots
    PROVE  \E t \in Threads : i \in Block(t)
<1>1. i \in Nat /\ ChunkElems \in Nat /\ i < ChunkElems
  BY GeometryAssumption, ThreadCountAssumption DEF Slots
<1>2. BlockSize \in Nat /\ BlockSize > 0
  <2>1. BlockSize \in Nat /\ ThreadCount * BlockSize >= ChunkElems
    BY BlocksSuffice
  <2>2. BlockSize = 0 => ThreadCount * BlockSize = 0
    BY GeometryAssumption, ThreadCountAssumption
  <2> QED BY <1>1, <2>1, <2>2
<1> DEFINE q == i \div BlockSize
<1>3. q \in Nat /\ i = BlockSize * q + (i % BlockSize) /\ i % BlockSize \in 0 .. BlockSize - 1
  BY <1>1, <1>2
<1>4. q * BlockSize \in Nat /\ q * BlockSize = BlockSize * q
  BY <1>2, <1>3
<1> HIDE DEF q
<1>5. q * BlockSize <= i /\ i < q * BlockSize + BlockSize
  BY <1>1, <1>2, <1>3, <1>4
<1>6. q < ThreadCount
  <2> SUFFICES ASSUME ThreadCount <= q PROVE FALSE
    BY <1>3, GeometryAssumption, ThreadCountAssumption
  <2>1. ThreadCount * BlockSize <= q * BlockSize
    BY ProductMonotonic, <1>2, <1>3, GeometryAssumption, ThreadCountAssumption
  <2>2. ThreadCount * BlockSize \in Nat
    BY <1>2, GeometryAssumption, ThreadCountAssumption
  <2> QED BY <1>1, <1>4, <1>5, <2>1, <2>2, BlocksSuffice
<1>7. q \in Threads
  BY <1>3, <1>6, GeometryAssumption, ThreadCountAssumption DEF Threads
<1>8. i \in Block(q)
  BY <1>1, <1>4, <1>5 DEF Block, BlockStart, BlockEnd
<1> QED BY <1>7, <1>8

-----------------------------------------------------------------------------
(* LocalSetsExact is not inductive: it needs the cursors to stay in their      *)
(* blocks, and ResultExact needs to know that merging waits for every scan.    *)

CursorInBlock ==
    \A t \in Threads : /\ BlockStart(t) <= cursor[t]
                       /\ cursor[t] <= BlockEnd(t) \/ cursor[t] = BlockStart(t)

MergeAfterScan ==
    /\ merged # {} => \A t \in Threads : ~Scanning(t)
    /\ ids_in_chunk = UNION {local_sets[t] : t \in merged}

ScanInv == ScanTypeOK /\ CursorInBlock /\ LocalSetsExact /\ MergeAfterScan

LEMMA ScanInitInv == ScanInit => ScanInv
<1> SUFFICES ASSUME ScanInit PROVE ScanInv
  OBVIOUS
<1>1. ScanTypeOK
  BY BlocksInBuffer DEF ScanInit, ScanTypeOK
<1>2. CursorInBlock
  BY BlocksInBuffer DEF ScanInit, CursorInBlock
<1>3. LocalSetsExact
  <2> SUFFICES ASSUME NEW t \in Threads
               PROVE  /\ Scanning(t) => cursor[t] \in Slots
                      /\ local_sets[t] =
                            {rank_chunk[i] : i \in {j \in Block(t) : j < cursor[t]}} \ {Zero}
    BY DEF LocalSetsExact
  <2>1. cursor[t] = BlockStart(t) /\ local_sets[t] = {}
    BY DEF ScanInit
  <2>2. Scanning(t) => cursor[t] \in Slots
    BY <2>1, BlocksInBuffer, GeometryAssumption, ThreadCountAssumption DEF Scanning, Slots
  <2>3. {j \in Block(t) : j < cursor[t]} = {}
    BY <2>1, BlocksInBuffer DEF Block, Slots
  <2> QED BY <2>1, <2>2, <2>3
<1>4. MergeAfterScan
  BY DEF ScanInit, MergeAfterScan
<1> QED BY <1>1, <1>2, <1>3, <1>4 DEF ScanInv

LEMMA ScanElementInv ==
    ASSUME ScanInv, NEW t \in Threads, ScanElement(t)
    PROVE  ScanInv'
<1> USE DEF ScanInv
<1>0. /\ cursor[t] \in Nat /\ BlockStart(t) \in Nat /\ BlockEnd(t) \in Nat /\ BlockEnd(t) <= ChunkElems
      /\ cursor[t] < BlockEnd(t) /\ BlockStart(t) <= cursor[t] /\ ChunkElems \in Nat
  BY BlocksInBuffer, GeometryAssumption, ThreadCountAssumption DEF ScanTypeOK, ScanElement, Scanning, CursorInBlock
<1>1. cursor[t] \in Block(t) /\ cursor[t] \in Slots
  BY <1>0 DEF Block, Slots
<1>2. rank_chunk[cursor[t]] \in Vals
  BY <1>1 DEF ScanTypeOK
<1>3. ScanTypeOK'
  BY <1>0, <1>2 DEF ScanTypeOK, ScanElement, Vals
<1>4. CursorInBlock'
  BY <1>0 DEF ScanTypeOK, ScanElement, CursorInBlock, BlockStart, BlockEnd
<1>5. LocalSetsExact'
  <2> SUFFICES ASSUME NEW u \in Threads
               PROVE  /\ Scanning(u)' => cursor'[u] \in Slots
                      /\ local_sets'[u] =
                            {rank_chunk[i] : i \in {j \in Block(u) : j < cursor'[u]}} \ {Zero}
    BY DEF LocalSetsExact, ScanElement, Block, BlockStart, BlockEnd
  <2>1. CASE u # t
    <3>1. cursor'[u] = cursor[u] /\ local_sets'[u] = local_sets[u] /\ Scanning(u)' = Scanning(u)
      BY <2>1 DEF ScanElement, ScanTypeOK, Scanning, BlockEnd, BlockStart
    <3> QED BY <3>1 DEF LocalSetsExact
  <2>2. CASE u = t
    <3>1. cursor'[t] = cursor[t] + 1
      BY DEF ScanElement, ScanTypeOK
    <3>2. Scanning(t)' => cursor'[t] \in Slots
      BY <1>0, <3>1 DEF Scanning, Slots, BlockEnd, BlockStart
    <3>3. local_sets'[t] = local_sets[t] \cup ({rank_chunk[cursor[t]]} \ {Zero})
      BY DEF ScanElement, ScanTypeOK
    <3>4. {j \in Block(t) : j < cursor'[t]} = {j \in Block(t) : j < cursor[t]} \cup {cursor[t]}
      BY <1>0, <1>1, <3>1 DEF Block, Slots
    <3>5. local_sets[t] = {rank_chunk[i] : i \in {j \in Block(t) : j < cursor[t]}} \ {Zero}
      BY DEF LocalSetsExact
    <3> HIDE DEF ScanInv
    <3> QED BY <2>2, <3>2, <3>3, <3>4, <3>5
  <2> QED BY <2>1, <2>2
<1>6. MergeAfterScan'
  <2>1. merged = {}
    BY DEF ScanElement, MergeAfterScan
  <2> QED BY <2>1 DEF ScanElement, MergeAfterScan
<1> QED BY <1>3, <1>4, <1>5, <1>6

LEMMA MergeLocalSetInv ==
    ASSUME ScanInv, NEW t \in Threads, MergeLocalSet(t)
    PROVE  ScanInv'
<1> USE DEF ScanInv
<1>1. ScanTypeOK'
  BY DEF ScanTypeOK, MergeLocalSet
<1>2. CursorInBlock' /\ LocalSetsExact'
  BY DEF MergeLocalSet, CursorInBlock, LocalSetsExact, Scanning, Block, BlockStart, BlockEnd
<1>3. MergeAfterScan'
  BY DEF MergeLocalSet, MergeAfterScan, Scanning, BlockStart, BlockEnd
<1> QED BY <1>1, <1>2, <1>3

LEMMA ScanNextInv == ScanInv /\ [ScanNext]_scanVars => ScanInv'
<1> SUFFICES ASSUME ScanInv, [ScanNext]_scanVars PROVE ScanInv'
  OBVIOUS
<1>1. CASE \E t \in Threads : ScanElement(t)
  BY <1>1, ScanElementInv
<1>2. CASE \E t \in Threads : MergeLocalSet(t)
  BY <1>2, MergeLocalSetInv
<1>3. CASE UNCHANGED scanVars
  BY <1>3 DEF scanVars, ScanInv, ScanTypeOK, CursorInBlock, LocalSetsExact, MergeAfterScan, Scanning,
              Block, BlockStart, BlockEnd
<1> QED BY <1>1, <1>2, <1>3 DEF ScanNext, ScanTerminated

\* When all sets are merged, all blocks are scanned, and the blocks cover the buffer.
LEMMA ScanInvResult == ScanInv => ResultExact
<1> SUFFICES ASSUME ScanInv, ScanReturned
             PROVE  ids_in_chunk = {rank_chunk[i] : i \in Slots} \ {Zero}
  BY DEF ResultExact, NonZero, ScanInv, ScanTypeOK
<1> USE DEF ScanInv
<1>1. ids_in_chunk = UNION {local_sets[t] : t \in Threads}
  BY DEF ScanReturned, MergeAfterScan
<1>2. \A t \in Threads : ~Scanning(t)
  <2>1. 0 \in Threads
    BY GeometryAssumption, ThreadCountAssumption DEF Threads
  <2> QED BY <2>1 DEF ScanReturned, MergeAfterScan
<1>3. ASSUME NEW t \in Threads
      PROVE  local_sets[t] = {rank_chunk[i] : i \in Block(t)} \ {Zero}
  <2>1. {j \in Block(t) : j < cursor[t]} = Block(t)
    BY <1>2, BlocksInBuffer DEF Scanning, Block, Slots, ScanTypeOK
  <2> QED BY <2>1 DEF LocalSetsExact
<1>4. \A t \in Threads : Block(t) \subseteq Slots
  BY DEF Block
<1>5. \A i \in Slots : \E t \in Threads : i \in Block(t)
  BY BlocksCover
<1> HIDE DEF ScanInv
<1> QED BY <1>1, <1>3, <1>4, <1>5

\* The scan of every rank buffer returns its nonzero values, all of them and
\* only them, for every buffer size, thread count and schedule.
THEOREM ResultCorrect == ScanSpec => []ResultExact
<1>1. ScanSpec => []ScanInv
  BY ScanInitInv, ScanNextInv, PTL DEF ScanSpec
<1> QED BY <1>1, ScanInvResult, PTL

\* Every variable keeps its type, and merging adds ranks only.
THEOREM ScanTypeCorrect == ScanSpec => []ScanTypeOK
<1>1. ScanSpec => []ScanInv
  BY ScanInitInv, ScanNextInv, PTL DEF ScanSpec
<1>2. ScanInv => ScanTypeOK
  BY DEF ScanInv
<1> QED BY <1>1, <1>2, PTL

\* No thread reads outside the buffer or knows more than its own block.
THEOREM LocalSetsCorrect == ScanSpec => []LocalSetsExact
<1>1. ScanSpec => []ScanInv
  BY ScanInitInv, ScanNextInv, PTL DEF ScanSpec
<1>2. ScanInv => LocalSetsExact
  BY DEF ScanInv
<1> QED BY <1>1, <1>2, PTL
=============================================================================
