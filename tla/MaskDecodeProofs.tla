---------------------------- MODULE MaskDecodeProofs ----------------------------
(***************************************************************************)
(* mask(hash) and mask_compressed(hash) return the exact mask of the hash, *)
(* for every number of levels, chunks and pixels, every picture and every  *)
(* hash, the zero hash included.                                           *)
(*                                                                         *)
(* PairsAddUp speaks of the moments between two chunks.  The inductive     *)
(* invariant IInv adds what holds inside the loop over the pixels of a     *)
(* chunk: how many levels each pixel holds already (Counted), in the mask  *)
(* or in the buffer the chunk of the mask was taken out to, and that the   *)
(* rank and coverage buffers hold the chunk where the loop goes.           *)
(***************************************************************************)
EXTENDS MaskDecode, AccumulateIdsProofs

Element(p) == BaseIdx(p[1]) + p[2]

\* How many levels the mask holds at pixel p.
Counted(p) ==
    IF \/ p[1] < chunk
       \/ p[1] = chunk /\ pc \in {"next", "done"}
       \/ p[1] = chunk /\ pc = "accumulate" /\ routine = "mask" /\ p[2] \notin idxs
    THEN level + 1 ELSE level

OutExact == \A p \in Pixels : out[Element(p)] = MaskOf(p, Counted(p))

BufsExact ==
    pc = "accumulate" =>
        \A i \in Filled(chunk) :
            rankBuf[i] = rank[level][<<chunk, i>>] /\ covrBuf[i] = <<level, <<chunk, i>>>>

MaskBufExact ==
    pc = "accumulate" /\ routine = "mask_compressed" =>
        \A i \in Filled(chunk) :
            maskBuf[i] = MaskOf(<<chunk, i>>, IF i \in idxs THEN level ELSE level + 1)

LoopBound ==
    /\ pc = "accumulate" => idxs \subseteq Filled(chunk)
    /\ pc # "accumulate" => idxs = {}
    /\ pc = "begin" => chunk = 0
    /\ pc = "done" => chunk + 1 = NumChunks /\ level + 1 = NumLevels

IInv == TypeOK /\ LoopBound /\ BufsExact /\ MaskBufExact /\ OutExact

-----------------------------------------------------------------------------
(* The elements of the mask. *)

\* Chunks tile the vector, and the number of elements mask() visits in a chunk
\* is the number the chunk has.
LEMMA VectorGeometry ==
    ASSUME NEW k \in Chunks
    PROVE  /\ VectorSize \in Nat
           /\ BaseIdx(k) = k * ChunkElems /\ BaseIdx(k) \in Nat
           /\ BaseIdx(k) + ChunkLen(k) <= VectorSize
           /\ NumElements(k) = ChunkLen(k)
<1> DEFINE start == k * ChunkElems
           last == (NumChunks - 1) * ChunkElems
<1>1. /\ start \in Nat /\ last \in Nat /\ start <= last
      /\ k # NumChunks - 1 => start + ChunkElems <= last
      /\ k = NumChunks - 1 => start = last
      /\ ChunkElems \in Nat /\ LastLen \in Nat /\ 1 <= LastLen /\ LastLen <= ChunkElems
  BY ChunkStarts, GeometryAssumption
<1>2. BaseIdx(k) = start /\ VectorSize = last + LastLen
  BY ChunkGeometry, GeometryAssumption DEF BaseIdx, VectorSize
<1> HIDE DEF start, last
<1>3. BaseIdx(k) + ChunkLen(k) <= VectorSize /\ NumElements(k) = ChunkLen(k)
  <2>1. CASE k = NumChunks - 1
    <3>1. ChunkLen(k) = LastLen /\ start = last
      BY <1>1, <2>1 DEF ChunkLen
    <3>2. VectorSize - BaseIdx(k) = LastLen
      BY <1>1, <1>2, <3>1
    <3>3. NumElements(k) = LastLen
      BY <1>1, <3>2 DEF NumElements
    <3> QED BY <1>1, <1>2, <3>1, <3>3
  <2>2. CASE k # NumChunks - 1
    <3>1. ChunkLen(k) = ChunkElems /\ start + ChunkElems <= last
      BY <1>1, <2>2 DEF ChunkLen
    <3>2. ~(VectorSize - BaseIdx(k) < ChunkElems)
      BY <1>1, <1>2, <3>1
    <3>3. NumElements(k) = ChunkElems
      BY <3>2 DEF NumElements
    <3> QED BY <1>1, <1>2, <3>1, <3>3
  <2> QED BY <2>1, <2>2
<1> QED BY <1>1, <1>2, <1>3 DEF start

\* Every pixel has an element of its own.
LEMMA PixelElements ==
    /\ \A p \in Pixels : Element(p) \in Elements
    /\ \A p, q \in Pixels : Element(p) = Element(q) => p = q
<1>1. \A p \in Pixels : Element(p) = p[1] * ChunkElems + p[2]
  BY PixelGeometry, VectorGeometry DEF Element
<1>2. \A p \in Pixels : Element(p) \in Nat /\ Element(p) < VectorSize
  BY <1>1, PixelsInVector DEF VectorSize
<1>3. VectorSize \in Nat
  BY VectorGeometry, LevelsNat
<1>4. \A p \in Pixels : Element(p) \in Elements
  BY <1>2, <1>3 DEF Elements
<1>5. \A p, q \in Pixels : Element(p) = Element(q) => p = q
  BY <1>1, PixelsInVector
<1> QED BY <1>4, <1>5

\* The elements of a chunk are those of its pixels.
LEMMA ChunkElements ==
    ASSUME NEW p \in Pixels, NEW k \in Chunks
    PROVE  /\ p[1] = k => Element(p) - BaseIdx(k) = p[2] /\ p[2] \in Filled(k)
           /\ p[1] # k => Element(p) - BaseIdx(k) \notin Filled(k)
<1>1. /\ p[1] \in Chunks /\ p[2] \in Filled(p[1]) /\ p = <<p[1], p[2]>>
      /\ p[2] \in Nat /\ BaseIdx(p[1]) \in Nat /\ BaseIdx(k) \in Nat
  BY PixelGeometry, ChunkGeometry, VectorGeometry
<1>2. ASSUME p[1] = k PROVE Element(p) - BaseIdx(k) = p[2]
  BY <1>1, <1>2 DEF Element
<1>3. ASSUME NEW i \in Filled(k), Element(p) - BaseIdx(k) = i PROVE p[1] = k
  <2>1. <<k, i>> \in Pixels /\ i \in Nat
    BY ChunkGeometry
  <2>2. Element(<<k, i>>) = BaseIdx(k) + i
    BY DEF Element
  <2>3. Element(p) \in Nat
    BY <1>1 DEF Element
  <2>4. Element(p) = Element(<<k, i>>)
    BY <1>1, <1>3, <2>1, <2>2, <2>3
  <2>5. p = <<k, i>>
    BY <2>1, <2>4, PixelElements
  <2> QED BY <2>5
<1> QED BY <1>1, <1>2, <1>3

-----------------------------------------------------------------------------
(* The mask of the hash, level by level. *)

LEMMA MaskType ==
    ASSUME NEW p, NEW n
    PROVE  MaskOf(p, n) \in PixelSums
BY DEF MaskOf, PixelSums

LEMMA MaskEmpty ==
    ASSUME NEW p
    PROVE  MaskOf(p, 0) = NoCoverage
BY LevelsNat DEF MaskOf, NoCoverage

\* One more level adds its sample if its rank is the hash, zero or not ...
LEMMA MaskHit ==
    ASSUME NEW p \in Pixels, NEW l \in Levels, rank[l][p] = hash_val
    PROVE  MaskOf(p, l + 1) = Plus(MaskOf(p, l), <<l, p>>)
<1> DEFINE f == MaskOf(p, l)
           g == MaskOf(p, l + 1)
<1>1. f \in [Tags -> Nat] /\ g \in [Tags -> Nat]
  BY MaskType DEF PixelSums
<1>2. <<l, p>> \in Tags
  BY DEF Tags, Samples
<1>3. ASSUME NEW t \in Tags PROVE g[t] = IF t = <<l, p>> THEN f[t] + 1 ELSE f[t]
  <2>1. CASE t = <<l, p>>
    <3>1. ~ \E m \in Levels : m < l /\ t = <<m, p>> /\ rank[m][p] = hash_val
      BY <2>1, LevelsNat
    <3>2. f[t] = 0
      BY <3>1 DEF MaskOf
    <3>3. g[t] = 1
      BY <2>1, LevelsNat DEF MaskOf
    <3> QED BY <2>1, <3>2, <3>3
  <2>2. CASE t # <<l, p>>
    <3>1. \A m \in Levels : t = <<m, p>> => (m < l <=> m < l + 1)
      BY <2>2, LevelsNat
    <3> QED BY <2>2, <3>1 DEF MaskOf
  <2> QED BY <2>1, <2>2
<1> HIDE DEF f, g
<1> QED BY <1>1, <1>2, <1>3 DEF Plus, f, g

\* ... and changes nothing otherwise.
LEMMA MaskMiss ==
    ASSUME NEW p \in Pixels, NEW l \in Levels, rank[l][p] # hash_val
    PROVE  MaskOf(p, l + 1) = MaskOf(p, l)
<1>1. \A m \in Levels : rank[m][p] = hash_val => (m < l <=> m < l + 1)
  BY LevelsNat
<1> QED BY <1>1 DEF MaskOf

-----------------------------------------------------------------------------
(* Every initial state satisfies the invariant, and every step preserves it. *)

LEMMA InitIInv == Init => IInv
<1> SUFFICES ASSUME Init PROVE IInv
  OBVIOUS
<1>1. TypeOK
  BY InputAssumption, LevelsNat, SumTypes DEF Init, TypeOK, Tags, Vals
<1>2. OutExact
  <2> SUFFICES ASSUME NEW p \in Pixels PROVE out[Element(p)] = MaskOf(p, Counted(p))
    BY DEF OutExact
  <2>1. p[1] \in Nat /\ chunk = 0 /\ level = 0 /\ pc = "begin"
    BY PixelGeometry, ChunkGeometry DEF Init
  <2>2. Counted(p) = 0
    BY <2>1 DEF Counted
  <2>3. Element(p) \in Elements
    BY PixelElements
  <2> QED BY <2>2, <2>3, MaskEmpty DEF Init
<1>3. LoopBound /\ BufsExact /\ MaskBufExact
  BY DEF Init, LoopBound, BufsExact, MaskBufExact
<1> QED BY <1>1, <1>2, <1>3 DEF IInv

\* A pixel that a step neither adds to nor counts.
LEMMA PixelUntouched ==
    ASSUME OutExact, NEW p \in Pixels, UNCHANGED <<rank, hash_val>>,
           out'[Element(p)] = out[Element(p)], Counted(p)' = Counted(p)
    PROVE  out'[Element(p)] = MaskOf(p, Counted(p))'
<1>1. PICK n : n = Counted(p)
  OBVIOUS
<1>2. Counted(p)' = n /\ out[Element(p)] = MaskOf(p, n)
  BY <1>1 DEF OutExact
<1>3. MaskOf(p, n)' = MaskOf(p, n)
  BY DEF MaskOf
<1> QED BY <1>2, <1>3

LEMMA FreshBuffersIInv == IInv /\ FreshBuffers => IInv'
<1> SUFFICES ASSUME IInv, FreshBuffers PROVE IInv'
  OBVIOUS
<1> USE DEF IInv
<1>1. TypeOK'
  BY DEF TypeOK, FreshBuffers, input, position, Tags, Vals
<1>2. OutExact'
  <2> SUFFICES ASSUME NEW p \in Pixels PROVE out'[Element(p)] = MaskOf(p, Counted(p))'
    BY DEF OutExact
  <2>1. Counted(p)' = Counted(p)
    BY DEF FreshBuffers, Counted, position, input
  <2> QED BY <2>1, PixelUntouched DEF FreshBuffers, input
<1>3. LoopBound' /\ BufsExact' /\ MaskBufExact'
  BY DEF FreshBuffers, LoopBound, BufsExact, MaskBufExact
<1> QED BY <1>1, <1>2, <1>3

\* Reading a chunk of both channels.
LEMMA ChunkRead ==
    ASSUME TypeOK,
           rankBuf' = GetChunk(rank[level], chunk, rankBuf),
           covrBuf' = GetChunk(CoverageChannel(level), chunk, covrBuf),
           UNCHANGED <<rank, level, chunk>>
    PROVE  /\ rankBuf' \in [Slots -> Vals]
           /\ covrBuf' \in [Slots -> Tags]
           /\ BufsExact'
<1>1. chunk \in Chunks /\ level \in Levels
  BY DEF TypeOK
<1>2. \A p \in Pixels : rank[level][p] \in Vals
  BY <1>1 DEF TypeOK, RankPictures
<1>3. \A p \in Pixels : CoverageChannel(level)[p] = <<level, p>> /\ <<level, p>> \in Tags
  BY <1>1 DEF CoverageChannel, Tags, Samples
<1>4. \A i \in Filled(chunk) : <<chunk, i>> \in Pixels
  BY <1>1, ChunkGeometry
<1>5. /\ \A i \in Filled(chunk) : rankBuf'[i] = rank[level][<<chunk, i>>]
      /\ \A i \in Filled(chunk) : covrBuf'[i] = CoverageChannel(level)[<<chunk, i>>]
  BY <1>1, GetChunkFacts
<1>6. /\ \A i \in Slots \ Filled(chunk) : rankBuf'[i] = rankBuf[i]
      /\ \A i \in Slots \ Filled(chunk) : covrBuf'[i] = covrBuf[i]
  BY <1>1, ChunkGeometry DEF GetChunk
<1>7. \A i \in Slots : rankBuf'[i] \in Vals /\ covrBuf'[i] \in Tags
  <2> TAKE i \in Slots
  <2>1. CASE i \in Filled(chunk)
    BY <2>1, <1>2, <1>3, <1>4, <1>5
  <2>2. CASE i \notin Filled(chunk)
    BY <2>2, <1>6 DEF TypeOK
  <2> QED BY <2>1, <2>2
<1>8. rankBuf' \in [Slots -> Vals] /\ covrBuf' \in [Slots -> Tags]
  BY <1>7 DEF GetChunk
<1>9. BufsExact'
  BY <1>3, <1>4, <1>5 DEF BufsExact
<1> QED BY <1>8, <1>9

LEMMA ReadChunkIInv == IInv /\ ReadChunk => IInv'
<1> SUFFICES ASSUME IInv, ReadChunk PROVE IInv'
  OBVIOUS
<1> USE DEF IInv
<1>0. /\ chunk \in Chunks /\ UNCHANGED <<rank, hash_val, routine, level, chunk, maskBuf, out>>
      /\ pc = "read" /\ pc' = "accumulate" /\ routine = "mask"
      /\ idxs' = Filled(chunk)
  <2>1. chunk \in Chunks
    BY DEF TypeOK
  <2>2. NumElements(chunk) = ChunkLen(chunk)
    BY <2>1, VectorGeometry
  <2> QED BY <2>1, <2>2 DEF ReadChunk, input, position, Filled
<1>1. rankBuf' \in [Slots -> Vals] /\ covrBuf' \in [Slots -> Tags] /\ BufsExact'
  BY <1>0, ChunkRead DEF ReadChunk
<1>2. TypeOK'
  <2>1. Filled(chunk) \subseteq Slots
    BY <1>0, ChunkGeometry
  <2> QED BY <1>0, <1>1, <2>1 DEF TypeOK
<1>3. OutExact'
  <2> SUFFICES ASSUME NEW p \in Pixels PROVE out'[Element(p)] = MaskOf(p, Counted(p))'
    BY DEF OutExact
  <2>1. Counted(p)' = Counted(p)
    <3>1. p[1] = chunk => p[2] \in idxs'
      BY <1>0, PixelGeometry
    <3> QED BY <1>0, <3>1 DEF Counted
  <2> QED BY <1>0, <2>1, PixelUntouched
<1>4. LoopBound' /\ MaskBufExact'
  BY <1>0 DEF LoopBound, MaskBufExact
<1> QED BY <1>1, <1>2, <1>3, <1>4

LEMMA ReadChunkAndMaskIInv == IInv /\ ReadChunkAndMask => IInv'
<1> SUFFICES ASSUME IInv, ReadChunkAndMask PROVE IInv'
  OBVIOUS
<1> USE DEF IInv
<1>0. /\ chunk \in Chunks /\ UNCHANGED <<rank, hash_val, routine, level, chunk, out>>
      /\ pc = "read" /\ pc' = "accumulate" /\ routine = "mask_compressed"
      /\ idxs' = Filled(chunk)
      /\ out \in [Elements -> PixelSums] /\ maskBuf \in [Slots -> PixelSums]
      /\ maskBuf' = [i \in Slots |-> IF i < ChunkLen(chunk) THEN out[BaseIdx(chunk) + i]
                                     ELSE maskBuf[i]]
  BY DEF TypeOK, ReadChunkAndMask, input, position
<1>1. rankBuf' \in [Slots -> Vals] /\ covrBuf' \in [Slots -> Tags] /\ BufsExact'
  BY <1>0, ChunkRead DEF ReadChunkAndMask
<1>2. \A i \in Filled(chunk) :
          /\ i \in Slots /\ i < ChunkLen(chunk) /\ <<chunk, i>> \in Pixels
          /\ BaseIdx(chunk) + i = Element(<<chunk, i>>)
  BY <1>0, ChunkGeometry DEF Element
<1>3. \A i \in Filled(chunk) : maskBuf'[i] = out[Element(<<chunk, i>>)]
  BY <1>0, <1>2
<1>4. TypeOK'
  <2>1. Filled(chunk) \subseteq Slots
    BY <1>0, ChunkGeometry
  <2>2. \A i \in Filled(chunk) : maskBuf'[i] \in PixelSums
    BY <1>0, <1>2, <1>3, PixelElements
  <2>3. \A i \in Slots : maskBuf'[i] \in PixelSums
    BY <1>0, <2>2, ChunkGeometry
  <2>4. maskBuf' \in [Slots -> PixelSums]
    BY <1>0, <2>3
  <2> QED BY <1>0, <1>1, <2>1, <2>4 DEF TypeOK
<1>5. MaskBufExact'
  <2> SUFFICES ASSUME NEW i \in Filled(chunk)
               PROVE  i \in idxs' /\ maskBuf'[i] = MaskOf(<<chunk, i>>, level)'
    BY <1>0 DEF MaskBufExact
  <2>1. Counted(<<chunk, i>>) = level
    BY <1>0, ChunkGeometry DEF Counted
  <2>2. maskBuf'[i] = MaskOf(<<chunk, i>>, level)
    BY <1>2, <1>3, <2>1 DEF OutExact
  <2>3. MaskOf(<<chunk, i>>, level)' = MaskOf(<<chunk, i>>, level)
    BY <1>0 DEF MaskOf
  <2> QED BY <1>0, <2>2, <2>3
<1>6. OutExact'
  <2> SUFFICES ASSUME NEW p \in Pixels PROVE out'[Element(p)] = MaskOf(p, Counted(p))'
    BY DEF OutExact
  <2>1. Counted(p)' = Counted(p)
    BY <1>0 DEF Counted
  <2> QED BY <1>0, <2>1, PixelUntouched
<1>7. LoopBound'
  BY <1>0 DEF LoopBound
<1> QED BY <1>1, <1>4, <1>5, <1>6, <1>7

LEMMA AccumulateInVectorIInv ==
    ASSUME IInv, NEW i \in Slots, AccumulateInVector(i)
    PROVE  IInv'
<1> USE DEF IInv
<1> DEFINE o == <<chunk, i>>
<1>0. /\ chunk \in Chunks /\ level \in Levels
      /\ UNCHANGED <<rank, hash_val, routine, pc, level, chunk, rankBuf, covrBuf, maskBuf>>
      /\ pc = "accumulate" /\ routine = "mask"
      /\ i \in idxs /\ idxs' = idxs \ {i} /\ i \in Filled(chunk)
      /\ out \in [Elements -> PixelSums]
  BY DEF TypeOK, LoopBound, AccumulateInVector, input, position, buffers
<1>1. /\ o \in Pixels /\ Element(o) = BaseIdx(chunk) + i /\ Element(o) \in Elements
      /\ o[1] = chunk /\ o[2] = i
  BY <1>0, ChunkGeometry, PixelElements DEF Element
<1>2. /\ rank[level][o] = hash_val /\ covrBuf[i] = <<level, o>> /\ <<level, o>> \in Tags
      /\ out' = [out EXCEPT ![Element(o)] = Plus(out[Element(o)], <<level, o>>)]
  BY <1>0, <1>1 DEF AccumulateInVector, BufsExact, Tags, Samples
<1>3. out'[Element(o)] = Plus(out[Element(o)], <<level, o>>)
  BY <1>0, <1>1, <1>2
<1>4. TypeOK'
  <2>1. Plus(out[Element(o)], <<level, o>>) \in PixelSums
    BY <1>0, <1>1, <1>2, SumTypes
  <2>2. out' \in [Elements -> PixelSums]
    BY <1>0, <1>1, <1>2, <2>1
  <2> QED BY <1>0, <2>2 DEF TypeOK
<1>5. OutExact'
  <2> SUFFICES ASSUME NEW p \in Pixels PROVE out'[Element(p)] = MaskOf(p, Counted(p))'
    BY DEF OutExact
  <2>1. CASE p = o
    <3>1. Counted(o) = level
      BY <1>0, <1>1, ChunkGeometry DEF Counted
    <3>2. Counted(o)' = level + 1
      BY <1>0, <1>1 DEF Counted
    <3>3. out'[Element(o)] = MaskOf(o, level + 1)
      BY <1>0, <1>1, <1>2, <1>3, <3>1, MaskHit DEF OutExact
    <3>4. MaskOf(o, level + 1)' = MaskOf(o, level + 1)
      BY <1>0 DEF MaskOf
    <3> QED BY <1>0, <2>1, <3>2, <3>3, <3>4
  <2>2. CASE p # o
    <3>1. Counted(p)' = Counted(p)
      <4>1. p[1] = chunk => p[2] # i
        BY <2>2, PixelGeometry
      <4> QED BY <1>0, <4>1 DEF Counted
    <3>2. Element(p) # Element(o) /\ Element(p) \in Elements
      BY <1>1, <2>2, PixelElements
    <3>3. out'[Element(p)] = out[Element(p)]
      BY <1>0, <1>2, <3>2
    <3> QED BY <1>0, <3>1, <3>3, PixelUntouched
  <2> QED BY <2>1, <2>2
<1>6. LoopBound' /\ BufsExact' /\ MaskBufExact'
  BY <1>0 DEF LoopBound, BufsExact, MaskBufExact
<1> QED BY <1>4, <1>5, <1>6

LEMMA AccumulateInBufferIInv ==
    ASSUME IInv, NEW i \in Slots, AccumulateInBuffer(i)
    PROVE  IInv'
<1> USE DEF IInv
<1> DEFINE o == <<chunk, i>>
<1>0. /\ chunk \in Chunks /\ level \in Levels
      /\ UNCHANGED <<rank, hash_val, routine, pc, level, chunk, rankBuf, covrBuf, out>>
      /\ pc = "accumulate" /\ routine = "mask_compressed"
      /\ i \in idxs /\ idxs' = idxs \ {i} /\ i \in Filled(chunk)
      /\ maskBuf \in [Slots -> PixelSums]
  BY DEF TypeOK, LoopBound, AccumulateInBuffer, input, position, buffers
<1>1. o \in Pixels
  BY <1>0, ChunkGeometry
<1>2. /\ rank[level][o] = hash_val /\ covrBuf[i] = <<level, o>> /\ <<level, o>> \in Tags
      /\ maskBuf' = [maskBuf EXCEPT ![i] = Plus(maskBuf[i], <<level, o>>)]
  BY <1>0, <1>1 DEF AccumulateInBuffer, BufsExact, Tags, Samples
<1>3. maskBuf'[i] = Plus(maskBuf[i], <<level, o>>)
  BY <1>0, <1>2
<1>4. TypeOK'
  <2>1. Plus(maskBuf[i], <<level, o>>) \in PixelSums
    BY <1>0, <1>2, SumTypes
  <2>2. maskBuf' \in [Slots -> PixelSums]
    BY <1>0, <1>2, <2>1
  <2> QED BY <1>0, <2>2 DEF TypeOK
<1>5. MaskBufExact'
  <2> SUFFICES ASSUME NEW j \in Filled(chunk)
               PROVE  maskBuf'[j] = MaskOf(<<chunk, j>>, IF j \in idxs' THEN level ELSE level + 1)
    BY <1>0 DEF MaskBufExact, MaskOf
  <2>1. CASE j = i
    BY <1>0, <1>1, <1>2, <1>3, <2>1, MaskHit DEF MaskBufExact
  <2>2. CASE j # i
    <3>1. maskBuf'[j] = maskBuf[j]
      BY <1>0, <1>2, <2>2, ChunkGeometry
    <3> QED BY <1>0, <2>2, <3>1 DEF MaskBufExact
  <2> QED BY <2>1, <2>2
<1>6. OutExact'
  <2> SUFFICES ASSUME NEW p \in Pixels PROVE out'[Element(p)] = MaskOf(p, Counted(p))'
    BY DEF OutExact
  <2>1. Counted(p)' = Counted(p)
    BY <1>0 DEF Counted
  <2> QED BY <1>0, <2>1, PixelUntouched
<1>7. LoopBound' /\ BufsExact'
  BY <1>0 DEF LoopBound, BufsExact
<1> QED BY <1>4, <1>5, <1>6, <1>7

LEMMA AccumulateMissIInv ==
    ASSUME IInv, NEW i \in Slots, AccumulateMiss(i)
    PROVE  IInv'
<1> USE DEF IInv
<1> DEFINE o == <<chunk, i>>
<1>0. /\ chunk \in Chunks /\ level \in Levels
      /\ UNCHANGED <<rank, hash_val, routine, pc, level, chunk, rankBuf, covrBuf, maskBuf, out>>
      /\ pc = "accumulate"
      /\ i \in idxs /\ idxs' = idxs \ {i} /\ i \in Filled(chunk)
  BY DEF TypeOK, LoopBound, AccumulateMiss, input, position, buffers
<1>1. o \in Pixels /\ o[1] = chunk /\ o[2] = i
  BY <1>0, ChunkGeometry
<1>2. MaskOf(o, level + 1) = MaskOf(o, level)
  <2>1. rank[level][o] # hash_val
    BY <1>0 DEF AccumulateMiss, BufsExact
  <2> QED BY <1>0, <1>1, <2>1, MaskMiss
<1>3. TypeOK'
  BY <1>0 DEF TypeOK
<1>4. MaskBufExact'
  <2> SUFFICES ASSUME routine = "mask_compressed", NEW j \in Filled(chunk)
               PROVE  maskBuf[j] = MaskOf(<<chunk, j>>, IF j \in idxs' THEN level ELSE level + 1)
    BY <1>0 DEF MaskBufExact, MaskOf
  <2>1. CASE j = i
    BY <1>0, <1>2, <2>1 DEF MaskBufExact
  <2>2. CASE j # i
    BY <1>0, <2>2 DEF MaskBufExact
  <2> QED BY <2>1, <2>2
<1>5. OutExact'
  <2> SUFFICES ASSUME NEW p \in Pixels PROVE out'[Element(p)] = MaskOf(p, Counted(p))'
    BY DEF OutExact
  <2>1. CASE p = o /\ routine = "mask"
    <3>1. Counted(o) = level
      BY <1>0, <1>1, ChunkGeometry DEF Counted
    <3>2. Counted(o)' = level + 1
      BY <1>0, <1>1, <2>1 DEF Counted
    <3>3. out'[Element(o)] = MaskOf(o, level + 1)
      BY <1>0, <1>1, <1>2, <3>1 DEF OutExact
    <3>4. MaskOf(o, level + 1)' = MaskOf(o, level + 1)
      BY <1>0 DEF MaskOf
    <3> QED BY <1>0, <2>1, <3>2, <3>3, <3>4
  <2>2. CASE p # o \/ routine # "mask"
    <3>1. Counted(p)' = Counted(p)
      <4>1. routine = "mask" /\ p[1] = chunk => p[2] # i
        BY <2>2, PixelGeometry
      <4> QED BY <1>0, <4>1 DEF Counted
    <3> QED BY <1>0, <3>1, PixelUntouched
  <2> QED BY <2>1, <2>2
<1>6. LoopBound' /\ BufsExact'
  BY <1>0 DEF LoopBound, BufsExact
<1> QED BY <1>3, <1>4, <1>5, <1>6

LEMMA SetChunkIInv == IInv /\ SetChunk => IInv'
<1> SUFFICES ASSUME IInv, SetChunk PROVE IInv'
  OBVIOUS
<1> USE DEF IInv
<1>0. /\ chunk \in Chunks /\ level \in Levels
      /\ UNCHANGED <<rank, hash_val, routine, level, chunk, rankBuf, covrBuf, maskBuf, idxs>>
      /\ pc = "accumulate" /\ pc' = "next" /\ idxs = {}
      /\ routine \in {"mask", "mask_compressed"}
      /\ out \in [Elements -> PixelSums] /\ maskBuf \in [Slots -> PixelSums]
  BY DEF TypeOK, SetChunk, input, position, buffers
<1>1. \A e \in Elements :
          out'[e] = IF routine # "mask" /\ e - BaseIdx(chunk) \in Filled(chunk)
                    THEN maskBuf[e - BaseIdx(chunk)] ELSE out[e]
  BY <1>0 DEF SetChunk
<1>2. TypeOK'
  <2>1. \A e \in Elements : out'[e] \in PixelSums
    BY <1>0, <1>1, ChunkGeometry
  <2>2. out' = out \/ out' = [e \in Elements |-> out'[e]]
    BY <1>0 DEF SetChunk
  <2>3. out' \in [Elements -> PixelSums]
    BY <1>0, <2>1, <2>2
  <2> QED BY <1>0, <2>3 DEF TypeOK
<1>3. OutExact'
  <2> SUFFICES ASSUME NEW p \in Pixels PROVE out'[Element(p)] = MaskOf(p, Counted(p))'
    BY DEF OutExact
  <2>0. Element(p) \in Elements /\ p[1] \in Nat /\ p = <<p[1], p[2]>>
    BY PixelElements, PixelGeometry, ChunkGeometry
  <2>1. CASE p[1] = chunk
    <3>1. Counted(p)' = level + 1
      BY <1>0, <2>1 DEF Counted
    <3>2. Element(p) - BaseIdx(chunk) = p[2] /\ p[2] \in Filled(chunk)
      BY <1>0, <2>1, ChunkElements
    <3>3. CASE routine = "mask"
      <4>1. Counted(p) = level + 1
        BY <1>0, <2>1, <3>3 DEF Counted
      <4>2. out'[Element(p)] = out[Element(p)]
        BY <1>1, <2>0, <3>3
      <4> QED BY <1>0, <3>1, <4>1, <4>2, PixelUntouched
    <3>4. CASE routine = "mask_compressed"
      <4>1. out'[Element(p)] = maskBuf[p[2]]
        BY <1>1, <2>0, <3>2, <3>4
      <4>2. maskBuf[p[2]] = MaskOf(p, level + 1)
        BY <1>0, <2>0, <2>1, <3>2, <3>4 DEF MaskBufExact
      <4>3. MaskOf(p, level + 1)' = MaskOf(p, level + 1)
        BY <1>0 DEF MaskOf
      <4> QED BY <1>0, <3>1, <4>1, <4>2, <4>3
    <3> QED BY <1>0, <3>3, <3>4
  <2>2. CASE p[1] # chunk
    <3>1. Counted(p)' = Counted(p)
      BY <1>0, <2>2 DEF Counted
    <3>2. out'[Element(p)] = out[Element(p)]
      BY <1>0, <1>1, <2>0, <2>2, ChunkElements
    <3> QED BY <1>0, <3>1, <3>2, PixelUntouched
  <2> QED BY <2>1, <2>2
<1>4. LoopBound' /\ BufsExact' /\ MaskBufExact'
  BY <1>0 DEF LoopBound, BufsExact, MaskBufExact
<1> QED BY <1>2, <1>3, <1>4

LEMMA NextChunkIInv == IInv /\ NextChunk => IInv'
<1> SUFFICES ASSUME IInv, NextChunk PROVE IInv'
  OBVIOUS
<1> USE DEF IInv
<1>0. /\ chunk \in Nat /\ chunk + 1 \in Chunks /\ chunk' = chunk + 1
      /\ pc = "next" /\ pc' = "read"
      /\ UNCHANGED <<rank, hash_val, routine, level, rankBuf, covrBuf, maskBuf, out, idxs>>
  BY GeometryAssumption DEF TypeOK, NextChunk, input, buffers, Chunks
<1>1. TypeOK'
  BY <1>0 DEF TypeOK
<1>2. OutExact'
  <2> SUFFICES ASSUME NEW p \in Pixels PROVE out'[Element(p)] = MaskOf(p, Counted(p))'
    BY DEF OutExact
  <2>1. p[1] \in Nat
    BY PixelGeometry, ChunkGeometry
  <2>2. Counted(p)' = Counted(p)
    BY <1>0, <2>1 DEF Counted
  <2> QED BY <1>0, <2>2, PixelUntouched
<1>3. LoopBound' /\ BufsExact' /\ MaskBufExact'
  BY <1>0 DEF LoopBound, BufsExact, MaskBufExact
<1> QED BY <1>1, <1>2, <1>3

\* All pixels of the last chunk hold all levels up to the current one.
LEMMA LevelComplete ==
    ASSUME IInv, pc \in {"next", "done"}, chunk + 1 = NumChunks, NEW p \in Pixels
    PROVE  Counted(p) = level + 1
<1>1. p[1] \in Chunks /\ chunk \in Chunks
  BY PixelGeometry DEF IInv, TypeOK
<1>2. p[1] < chunk \/ p[1] = chunk
  BY <1>1, GeometryAssumption DEF Chunks
<1> QED BY <1>2 DEF Counted

LEMMA NextLevelIInv == IInv /\ NextLevel => IInv'
<1> SUFFICES ASSUME IInv, NextLevel PROVE IInv'
  OBVIOUS
<1> USE DEF IInv
<1>0. /\ 0 \in Chunks /\ chunk' = 0 /\ level + 1 \in Levels /\ level' = level + 1
      /\ pc = "next" /\ pc' = "begin" /\ chunk + 1 = NumChunks
      /\ UNCHANGED <<rank, hash_val, routine, rankBuf, covrBuf, maskBuf, out, idxs>>
  BY GeometryAssumption DEF TypeOK, NextLevel, input, buffers, Chunks, Levels
<1>1. TypeOK'
  BY <1>0 DEF TypeOK
<1>2. OutExact'
  <2> SUFFICES ASSUME NEW p \in Pixels PROVE out'[Element(p)] = MaskOf(p, Counted(p))'
    BY DEF OutExact
  <2>1. p[1] \in Nat
    BY PixelGeometry, ChunkGeometry
  <2>2. Counted(p) = level + 1 /\ Counted(p)' = level + 1
    BY <1>0, <2>1, LevelComplete DEF Counted
  <2> QED BY <1>0, <2>2, PixelUntouched
<1>3. LoopBound' /\ BufsExact' /\ MaskBufExact'
  BY <1>0 DEF LoopBound, BufsExact, MaskBufExact
<1> QED BY <1>1, <1>2, <1>3

LEMMA FinishIInv == IInv /\ Finish => IInv'
<1> SUFFICES ASSUME IInv, Finish PROVE IInv'
  OBVIOUS
<1> USE DEF IInv
<1>0. /\ pc = "next" /\ pc' = "done" /\ chunk + 1 = NumChunks /\ level + 1 = NumLevels
      /\ UNCHANGED <<rank, hash_val, routine, level, chunk, rankBuf, covrBuf, maskBuf, out, idxs>>
  BY DEF Finish, input, position, buffers
<1>1. TypeOK'
  BY <1>0 DEF TypeOK
<1>2. OutExact'
  <2> SUFFICES ASSUME NEW p \in Pixels PROVE out'[Element(p)] = MaskOf(p, Counted(p))'
    BY DEF OutExact
  <2>1. Counted(p)' = Counted(p)
    BY <1>0 DEF Counted
  <2> QED BY <1>0, <2>1, PixelUntouched
<1>3. LoopBound' /\ BufsExact' /\ MaskBufExact'
  BY <1>0 DEF LoopBound, BufsExact, MaskBufExact
<1> QED BY <1>1, <1>2, <1>3

LEMMA StutterIInv == IInv /\ UNCHANGED vars => IInv'
<1> SUFFICES ASSUME IInv, UNCHANGED vars PROVE IInv'
  OBVIOUS
<1> USE DEF IInv, vars
<1>1. TypeOK'
  BY DEF TypeOK
<1>2. OutExact'
  <2> SUFFICES ASSUME NEW p \in Pixels PROVE out'[Element(p)] = MaskOf(p, Counted(p))'
    BY DEF OutExact
  <2>1. Counted(p)' = Counted(p)
    BY DEF Counted
  <2> QED BY <2>1, PixelUntouched
<1>3. LoopBound' /\ BufsExact'
  BY DEF LoopBound, BufsExact
<1>4. MaskBufExact'
  BY DEF MaskBufExact, MaskOf
<1> QED BY <1>1, <1>2, <1>3, <1>4

\* The invariant is inductive: every state of both routines satisfies it.
THEOREM IInvHolds == Spec => []IInv
<1>1. IInv /\ [Next]_vars => IInv'
  BY FreshBuffersIInv, ReadChunkIInv, ReadChunkAndMaskIInv, AccumulateInVectorIInv,
     AccumulateInBufferIInv, AccumulateMissIInv, SetChunkIInv, NextChunkIInv, NextLevelIInv,
     FinishIInv, StutterIInv
  DEF Next, Terminated
<1> QED BY <1>1, InitIInv, PTL DEF Spec

-----------------------------------------------------------------------------
(* The properties the runs check. *)

\* The state of both routines keeps its type: no element outside the mask is
\* ever written, and no count becomes anything but a natural number.
THEOREM TypeCorrect == Spec => []TypeOK
<1>1. IInv => TypeOK
  BY DEF IInv
<1> QED BY <1>1, IInvHolds, PTL

\* The unsigned bound of the loop of mask() never wraps, and the loop visits
\* only elements get_chunk has just written, all of them inside the vector.
THEOREM ChunkVisited == Spec => []VisitsTheChunk
<1>1. IInv => VisitsTheChunk
  <2> SUFFICES ASSUME IInv, pc = "accumulate"
               PROVE  /\ BaseIdx(chunk) <= VectorSize
                      /\ idxs \subseteq Filled(chunk)
                      /\ \A i \in idxs : BaseIdx(chunk) + i < VectorSize
    BY DEF VisitsTheChunk
  <2>1. chunk \in Chunks /\ idxs \subseteq Filled(chunk)
    BY DEF IInv, TypeOK, LoopBound
  <2>2. /\ VectorSize \in Nat /\ BaseIdx(chunk) \in Nat /\ ChunkLen(chunk) \in Nat
        /\ BaseIdx(chunk) + ChunkLen(chunk) <= VectorSize
    BY <2>1, VectorGeometry, ChunkGeometry
  <2>3. \A i \in idxs : i \in Nat /\ i < ChunkLen(chunk)
    BY <2>1, <2>2 DEF Filled
  <2> QED BY <2>1, <2>2, <2>3
<1> QED BY <1>1, IInvHolds, PTL

\* Between two chunks the mask of either routine holds exactly what the pairs and
\* chunks read so far contribute.
THEOREM PairsAdded == Spec => []PairsAddUp
<1>1. IInv => PairsAddUp
  <2> SUFFICES ASSUME IInv, pc # "accumulate", NEW p \in Pixels
               PROVE  out[BaseIdx(p[1]) + p[2]] =
                        MaskOf(p, IF p[1] < chunk \/ (p[1] = chunk /\ pc \in {"next", "done"})
                                  THEN level + 1 ELSE level)
    BY DEF PairsAddUp
  <2> QED BY DEF IInv, OutExact, Counted, Element
<1> QED BY <1>1, IInvHolds, PTL

\* mask(hash) and mask_compressed(hash) return the mask of the hash over all
\* levels.
THEOREM MaskExact == Spec => []Result
<1>1. IInv => Result
  <2> SUFFICES ASSUME IInv, pc = "done", NEW p \in Pixels
               PROVE  out[BaseIdx(p[1]) + p[2]] = MaskOf(p, NumLevels)
    BY DEF Result
  <2>1. chunk + 1 = NumChunks /\ level + 1 = NumLevels
    BY DEF IInv, LoopBound
  <2>2. Counted(p) = NumLevels
    BY <2>1, LevelComplete
  <2> QED BY <2>2 DEF IInv, OutExact, Element
<1> QED BY <1>1, IInvHolds, PTL
=============================================================================
