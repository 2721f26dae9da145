---------------------------- MODULE MasksFlatProofs -----------------------------
(***************************************************************************)
(* masks(hashes) and masks() return exact masks, for every number of       *)
(* levels, chunks, pixels and ids, every picture and request and every     *)
(* order of the parallel iterations; and the call implements the one-step  *)
(* extraction.                                                             *)
(*                                                                         *)
(* ProgressExact speaks of the moments outside the parallel loop.  The     *)
(* inductive invariant IInv says also inside it how many levels each pixel *)
(* of every mask holds (Counted), what the shared buffers and the spans    *)
(* are, and which ids have a mask.  Since the early exit is never taken,   *)
(* no assumption that ranks cascade is needed.                             *)
(***************************************************************************)
EXTENDS MasksFlat, AccumulateIdsProofs

InChunk == {"coverage", "accumulate"}

\* How many levels every mask holds at pixel p.
Counted(p) ==
    IF \/ p[1] < chunk
       \/ p[1] = chunk /\ pc \in {"next", "check", "done"}
       \/ p[1] = chunk /\ pc = "accumulate" /\ p[2] \notin idxs
    THEN level + 1 ELSE level

\* Which pixels of which levels have been scanned for ids.
Scanned(l, p) ==
    \/ l < level
    \/ /\ l = level
       /\ p[1] < chunk \/ (p[1] = chunk /\ pc \notin {"begin", "rank", "scan"})

OutExact ==
    \A h \in DOMAIN out, p \in Pixels :
        out[h][Element(p)] = CoverageOf(rank, h, p, Counted(p))

RankBufExact ==
    pc \in InChunk \cup {"scan"} =>
        \A i \in Filled(chunk) : rankBuf[i] = rank[level][<<chunk, i>>]

IdsExact ==
    pc \in InChunk =>
        /\ ids = IF overload = "all" THEN NonZero(rankBuf) ELSE NonZero(rankBuf) \cap request
        /\ ids \subseteq DOMAIN out

SpansExact ==
    pc = "accumulate" =>
        /\ \A i \in Filled(chunk) : covrBuf[i] = <<level, <<chunk, i>>>>
        /\ DOMAIN offsets = ids
        /\ \A h \in ids : offsets[h] = SpanStart(chunk)

MasksPresent ==
    /\ pc = "begin" => DOMAIN out = {} /\ level = 0 /\ chunk = 0
    /\ overload = "hashes" /\ pc # "begin" => DOMAIN out = request
    /\ overload = "all" =>
          \A l \in Levels, p \in Pixels :
              Scanned(l, p) /\ rank[l][p] # Zero => rank[l][p] \in DOMAIN out

\* The tail of rank_chunk holds nothing but ids of the picture, if there is a
\* chunk that fills it.
TailBenign ==
    FullFirstChunk =>
        /\ pc \notin {"begin", "rank"} \/ chunk > 0 =>
              \A i \in Slots : \E p \in Pixels : rankBuf[i] = rank[level][p]
        /\ overload = "all" => DOMAIN out \subseteq IdsOf(rank)

\* The loops end at the last chunk and the last level only.
LoopsExact ==
    /\ pc # "accumulate" => idxs = {}
    /\ pc \in InChunk \cup {"check"} => seen # {}
    /\ pc = "done" => chunk + 1 = NumChunks /\ level + 1 = NumLevels

IInv ==
    /\ TypeOK
    /\ OutExact
    /\ RankBufExact
    /\ IdsExact
    /\ SpansExact
    /\ MasksPresent
    /\ TailBenign
    /\ LoopsExact

-----------------------------------------------------------------------------
(* The elements of a mask. *)

LEMMA PixelElements ==
    /\ \A p \in Pixels : Element(p) \in Elements
    /\ \A p, q \in Pixels : Element(p) = Element(q) => p = q
    /\ \A k \in Chunks : \A i \in Filled(k) : SpanStart(k) + i = Element(<<k, i>>)
<1>1. \A p \in Pixels : Element(p) \in Nat /\ Element(p) < VectorSize
  BY PixelsInVector DEF Element, VectorSize
<1>2. VectorSize \in Nat
  BY ChunkStarts, LevelsNat, GeometryAssumption DEF VectorSize
<1>3. \A p \in Pixels : Element(p) \in Elements
  BY <1>1, <1>2 DEF Elements
<1>4. \A p, q \in Pixels : Element(p) = Element(q) => p = q
  BY PixelsInVector DEF Element
<1>5. \A k \in Chunks : \A i \in Filled(k) : SpanStart(k) + i = Element(<<k, i>>)
  BY DEF SpanStart, Element
<1> QED BY <1>3, <1>4, <1>5

LEMMA VectorType == ZeroVector \in [Elements -> PixelSums]
BY SumTypes DEF ZeroVector

-----------------------------------------------------------------------------
(* Every initial state satisfies the invariant. *)

LEMMA InitIInv == Init => IInv
<1> SUFFICES ASSUME Init PROVE IInv
  OBVIOUS
<1>1. TypeOK
  BY InputAssumption, LevelsNat DEF Init, TypeOK, Tags, Vals
<1>2. OutExact
  BY DEF Init, OutExact
<1>3. RankBufExact /\ IdsExact /\ SpansExact /\ LoopsExact
  BY DEF Init, RankBufExact, IdsExact, SpansExact, LoopsExact, InChunk
<1>4. MasksPresent
  BY LevelsNat, PixelGeometry, GeometryAssumption DEF Init, MasksPresent, Scanned, Chunks, Levels
<1>5. TailBenign
  BY LevelsNat DEF Init, TailBenign
<1> QED BY <1>1, <1>2, <1>3, <1>4, <1>5 DEF IInv

-----------------------------------------------------------------------------
(* Every step preserves it, one lemma per action. *)

LEMMA BeginRequestedIInv == IInv /\ BeginRequested => IInv'
<1> SUFFICES ASSUME IInv, BeginRequested PROVE IInv'
  OBVIOUS
<1> USE DEF IInv
<1>1. TypeOK'
  BY VectorType DEF TypeOK, BeginRequested, input, position, scan
<1>2. OutExact'
  <2> SUFFICES ASSUME NEW h \in request, NEW p \in Pixels
               PROVE  out'[h][Element(p)] = CoverageOf(rank, h, p, Counted(p)')
    BY DEF OutExact, BeginRequested, input
  <2>1. Counted(p)' = 0
    BY PixelGeometry, ChunkGeometry
    DEF BeginRequested, MasksPresent, Counted, position
  <2>2. CoverageOf(rank, h, p, 0) = NoCoverage
    BY LevelsNat, CoverageNone
  <2>3. Element(p) \in Elements
    BY PixelElements
  <2> QED BY <2>1, <2>2, <2>3 DEF BeginRequested, ZeroVector
<1>3. RankBufExact' /\ IdsExact' /\ SpansExact' /\ LoopsExact'
  BY DEF BeginRequested, RankBufExact, IdsExact, SpansExact, LoopsExact, InChunk
<1>4. MasksPresent'
  BY DEF BeginRequested, MasksPresent, input
<1>5. TailBenign'
  BY DEF BeginRequested, TailBenign, input, position
<1> QED BY <1>1, <1>2, <1>3, <1>4, <1>5

LEMMA BeginAllIInv == IInv /\ BeginAll => IInv'
<1> SUFFICES ASSUME IInv, BeginAll PROVE IInv'
  OBVIOUS
<1> USE DEF IInv
<1>1. TypeOK'
  BY DEF TypeOK, BeginAll, input, position, scan
<1>2. OutExact' /\ RankBufExact' /\ IdsExact' /\ SpansExact' /\ LoopsExact'
  BY DEF BeginAll, MasksPresent, OutExact, RankBufExact, IdsExact, SpansExact, LoopsExact, InChunk
<1>3. MasksPresent'
  BY DEF BeginAll, MasksPresent, Scanned, input, position
<1>4. TailBenign'
  BY DEF BeginAll, TailBenign, input, position
<1> QED BY <1>1, <1>2, <1>3, <1>4

LEMMA ReadRankIInv == IInv /\ ReadRank => IInv'
<1> SUFFICES ASSUME IInv, ReadRank PROVE IInv'
  OBVIOUS
<1> USE DEF IInv
<1>0. /\ chunk \in Chunks /\ level \in Levels
      /\ rankBuf' = GetChunk(rank[level], chunk, rankBuf)
      /\ rank \in RankPictures /\ rankBuf \in [Slots -> Vals]
      /\ UNCHANGED <<chunk, level, rank, out>>
      /\ pc = "rank" /\ pc' = "scan"
  BY DEF TypeOK, ReadRank, position, input
<1>b. \A j \in Slots :
         \/ j \in Filled(chunk) /\ <<chunk, j>> \in Pixels /\ rankBuf'[j] = rank[level][<<chunk, j>>]
         \/ j \notin Filled(chunk) /\ rankBuf'[j] = rankBuf[j]
  BY <1>0, ChunkGeometry DEF GetChunk
<1>1. TypeOK'
  <2>1. rankBuf' \in [Slots -> Vals]
    <3>1. ASSUME NEW j \in Slots PROVE rankBuf'[j] \in Vals
      <4>1. ASSUME NEW p \in Pixels PROVE rank[level][p] \in Vals
        BY <1>0 DEF RankPictures
      <4>2. rankBuf[j] \in Vals
        BY <1>0
      <4> QED BY <1>b, <4>1, <4>2
    <3> QED BY <1>0, <3>1 DEF GetChunk
  <2> QED BY <2>1 DEF TypeOK, ReadRank, input, position, scan
<1>2. OutExact'
  BY <1>0 DEF OutExact, Counted
<1>3. RankBufExact'
  BY <1>0, GetChunkFacts DEF RankBufExact
<1>4. IdsExact' /\ SpansExact' /\ LoopsExact'
  BY DEF ReadRank, IdsExact, SpansExact, LoopsExact, InChunk
<1>5. MasksPresent'
  BY DEF ReadRank, MasksPresent, Scanned, input, position
<1>6. TailBenign'
  <2> SUFFICES ASSUME FullFirstChunk
               PROVE  \A j \in Slots : \E p \in Pixels : rankBuf'[j] = rank[level][p]
    BY <1>0 DEF ReadRank, TailBenign, input
  <2> TAKE j \in Slots
  <2>1. CASE j \in Filled(chunk)
    BY <1>b, <2>1
  <2>2. CASE j \notin Filled(chunk)
    <3>1. chunk > 0
      BY <1>0, <2>2, ChunkGeometry, GeometryAssumption DEF FullFirstChunk, Slots, Chunks
    <3>2. rankBuf'[j] = rankBuf[j]
      BY <1>b, <2>2
    <3> QED BY <3>1, <3>2 DEF TailBenign
  <2> QED BY <2>1, <2>2
<1> QED BY <1>1, <1>2, <1>3, <1>4, <1>5, <1>6

\* An id that a scan of the buffer does not report is at no pixel of the chunk.
LEMMA UnreportedIsAbsent ==
    ASSUME IInv, pc \in InChunk \cup {"scan"}, NEW h, h # Zero, h \notin NonZero(rankBuf),
           NEW p \in Pixels, p[1] = chunk
    PROVE  rank[level][p] # h
<1>1. p[2] \in Filled(chunk) /\ p = <<chunk, p[2]>>
  BY PixelGeometry
<1>2. rankBuf[p[2]] = rank[level][p]
  BY <1>1 DEF IInv, RankBufExact
<1>3. p[2] \in DOMAIN rankBuf
  BY <1>1, ChunkGeometry DEF IInv, TypeOK
<1> QED BY <1>2, <1>3 DEF NonZero

\* A chunk without wanted ids leaves every mask complete up to this level.
LEMMA SkippedChunk ==
    ASSUME IInv, pc = "scan", pc' = "next",
           UNCHANGED <<rank, level, chunk, out>>,
           \A h \in DOMAIN out : h = Zero \/ h \notin NonZero(rankBuf)
    PROVE  OutExact'
<1> SUFFICES ASSUME NEW h \in DOMAIN out, NEW p \in Pixels
             PROVE  out[h][Element(p)] = CoverageOf(rank, h, p, Counted(p)')
  BY DEF OutExact
<1>1. out[h][Element(p)] = CoverageOf(rank, h, p, Counted(p))
  BY DEF IInv, OutExact
<1>2. level \in Levels
  BY DEF IInv, TypeOK
<1>3. CASE p[1] = chunk
  <2>1. p[1] \in Nat /\ ~(p[1] < chunk)
    BY <1>3, PixelGeometry, ChunkGeometry
  <2>2. Counted(p) = level /\ Counted(p)' = level + 1
    BY <1>3, <2>1 DEF Counted
  <2>3. h = Zero \/ rank[level][p] # h
    BY <1>3, UnreportedIsAbsent
  <2> QED BY <1>1, <1>2, <2>2, <2>3, CoverageMiss
<1>4. CASE p[1] # chunk
  BY <1>1, <1>4 DEF Counted
<1> QED BY <1>3, <1>4

\* What a scan reports are ids, and ids of the picture if no tail is in the way.
LEMMA ReportedIds ==
    ASSUME IInv, pc = "scan"
    PROVE  /\ NonZero(rankBuf) \subseteq Ids
           /\ FullFirstChunk => NonZero(rankBuf) \subseteq IdsOf(rank)
<1>1. NonZero(rankBuf) \subseteq Ids
  BY DEF IInv, TypeOK, NonZero, Vals
<1>2. ASSUME FullFirstChunk, NEW h \in NonZero(rankBuf) PROVE h \in IdsOf(rank)
  <2>1. PICK i \in Slots : h = rankBuf[i] /\ h # Zero
    BY <1>2 DEF IInv, TypeOK, NonZero
  <2>2. level \in Levels /\ \E p \in Pixels : h = rank[level][p]
    BY <1>2, <2>1 DEF IInv, TypeOK, TailBenign
  <2> QED BY <2>1, <2>2 DEF IdsOf
<1> QED BY <1>1, <1>2

LEMMA ScanRequestedIInv == IInv /\ ScanRequested => IInv'
<1> SUFFICES ASSUME IInv, ScanRequested PROVE IInv'
  OBVIOUS
<1> USE DEF IInv
<1>0. /\ UNCHANGED <<rank, overload, request, level, chunk, rankBuf, covrBuf, out, offsets, idxs>>
      /\ pc = "scan" /\ pc' = IF ids' = {} THEN "next" ELSE "coverage"
      /\ seen' = seen \cup NonZero(rankBuf)
      /\ ids' = NonZero(rankBuf) \cap request
      /\ overload = "hashes" /\ DOMAIN out = request
      /\ NonZero(rankBuf) \subseteq Ids
  BY ReportedIds DEF ScanRequested, position, input, MasksPresent
<1>1. TypeOK'
  BY <1>0 DEF TypeOK
<1>2. OutExact'
  <2>1. CASE ids' = {}
    BY <1>0, <2>1, SkippedChunk
  <2>2. CASE ids' # {}
    BY <1>0, <2>2 DEF OutExact, Counted
  <2> QED BY <2>1, <2>2
<1>3. RankBufExact' /\ IdsExact' /\ SpansExact' /\ LoopsExact'
  BY <1>0 DEF RankBufExact, IdsExact, SpansExact, LoopsExact, InChunk
<1>4. MasksPresent'
  BY <1>0 DEF MasksPresent
<1>5. TailBenign'
  BY <1>0 DEF TailBenign
<1> QED BY <1>1, <1>2, <1>3, <1>4, <1>5

LEMMA ScanAllIInv == IInv /\ ScanAll => IInv'
<1> SUFFICES ASSUME IInv, ScanAll PROVE IInv'
  OBVIOUS
<1> USE DEF IInv
<1>0. /\ UNCHANGED <<rank, overload, request, level, chunk, rankBuf, covrBuf, offsets, idxs>>
      /\ pc = "scan" /\ pc' = IF ids' = {} THEN "next" ELSE "coverage"
      /\ seen' = seen \cup NonZero(rankBuf)
      /\ ids' = NonZero(rankBuf)
      /\ overload = "all"
      /\ DOMAIN out' = DOMAIN out \cup ids'
      /\ \A h \in DOMAIN out : out'[h] = out[h]
      /\ \A h \in ids' \ DOMAIN out : out'[h] = ZeroVector
  BY DEF ScanAll, position, input
<1>a. ids' \subseteq Ids /\ (FullFirstChunk => ids' \subseteq IdsOf(rank))
  BY <1>0, ReportedIds
<1>1. TypeOK'
  <2>1. DOMAIN out' \in SUBSET Vals
    BY <1>0, <1>a DEF TypeOK, Vals
  <2>2. out' \in [DOMAIN out' -> [Elements -> PixelSums]]
    <3>1. \A h \in DOMAIN out' : out'[h] \in [Elements -> PixelSums]
      BY <1>0, VectorType DEF TypeOK
    <3>2. out' = [h \in DOMAIN out \cup ids' |-> out'[h]]
      BY <1>0 DEF ScanAll
    <3> QED BY <1>0, <3>1, <3>2
  <2> QED BY <1>0, <1>a, <2>1, <2>2 DEF TypeOK
<1>2. OutExact'
  <2>1. CASE ids' = {}
    <3>1. out' = out
      BY <1>0, <2>1 DEF ScanAll, TypeOK
    <3> QED BY <1>0, <2>1, <3>1, SkippedChunk
  <2>2. CASE ids' # {}
    <3> SUFFICES ASSUME NEW h \in DOMAIN out', NEW p \in Pixels
                 PROVE  out'[h][Element(p)] = CoverageOf(rank, h, p, Counted(p)')
      BY <1>0 DEF OutExact
    <3>1. Counted(p)' = Counted(p)
      BY <1>0, <2>2 DEF Counted
    <3>2. CASE h \in DOMAIN out
      BY <1>0, <3>1, <3>2 DEF OutExact
    <3>3. CASE h \notin DOMAIN out
      <4>1. ASSUME NEW l \in Levels, l < Counted(p) PROVE h = Zero \/ rank[l][p] # h
        <5>1. Scanned(l, p)
          BY <4>1, <1>0, LevelsNat DEF Counted, Scanned, TypeOK
        <5> QED BY <5>1, <1>0, <3>3 DEF MasksPresent
      <4>2. out'[h][Element(p)] = NoCoverage
        BY <1>0, <3>3, PixelElements DEF ZeroVector
      <4> QED BY <3>1, <4>1, <4>2, CoverageNone
    <3> QED BY <3>2, <3>3
  <2> QED BY <2>1, <2>2
<1>3. RankBufExact' /\ IdsExact' /\ SpansExact' /\ LoopsExact'
  BY <1>0 DEF RankBufExact, IdsExact, SpansExact, LoopsExact, InChunk
<1>4. MasksPresent'
  <2> SUFFICES ASSUME NEW l \in Levels, NEW p \in Pixels, Scanned(l, p)', rank[l][p] # Zero
               PROVE  rank[l][p] \in DOMAIN out'
    BY <1>0 DEF MasksPresent
  <2>1. CASE l = level /\ p[1] = chunk
    BY <1>0, <2>1, UnreportedIsAbsent
  <2>2. CASE ~(l = level /\ p[1] = chunk)
    <3>1. Scanned(l, p)
      BY <1>0, <2>2, LevelsNat DEF Scanned, TypeOK
    <3> QED BY <1>0, <3>1 DEF MasksPresent
  <2> QED BY <2>1, <2>2
<1>5. TailBenign'
  BY <1>0, <1>a DEF TailBenign
<1> QED BY <1>1, <1>2, <1>3, <1>4, <1>5

LEMMA ReadCoverageIInv == IInv /\ ReadCoverage => IInv'
<1> SUFFICES ASSUME IInv, ReadCoverage PROVE IInv'
  OBVIOUS
<1> USE DEF IInv
<1>0. /\ chunk \in Chunks /\ level \in Levels /\ covrBuf \in [Slots -> Tags]
      /\ covrBuf' = GetChunk(CoverageChannel(level), chunk, covrBuf)
      /\ UNCHANGED <<rank, overload, request, level, chunk, rankBuf, seen, ids, out>>
      /\ pc = "coverage" /\ pc' = "accumulate" /\ idxs' = Filled(chunk)
      /\ offsets' = [h \in ids |-> SpanStart(chunk)]
      /\ ids \in SUBSET Ids
  BY DEF TypeOK, ReadCoverage, position, input, scan
<1>b. \A j \in Slots :
         \/ j \in Filled(chunk) /\ <<chunk, j>> \in Pixels /\ covrBuf'[j] = <<level, <<chunk, j>>>>
         \/ j \notin Filled(chunk) /\ covrBuf'[j] = covrBuf[j]
  BY <1>0, ChunkGeometry DEF GetChunk, CoverageChannel
<1>1. TypeOK'
  <2>1. ASSUME NEW j \in Slots PROVE covrBuf'[j] \in Tags
    <3>1. ASSUME NEW p \in Pixels PROVE <<level, p>> \in Tags
      BY <1>0 DEF Tags, Samples
    <3>2. covrBuf[j] \in Tags
      BY <1>0
    <3> QED BY <1>b, <3>1, <3>2
  <2>2. covrBuf' \in [Slots -> Tags]
    BY <1>0, <2>1 DEF GetChunk
  <2>3. SpanStart(chunk) \in Nat
    BY <1>0, ChunkStarts DEF SpanStart
  <2>4. DOMAIN offsets' = ids /\ offsets' \in [ids -> Nat]
    BY <1>0, <2>3
  <2> QED BY <1>0, <2>2, <2>4 DEF TypeOK
<1>2. OutExact'
  <2> SUFFICES ASSUME NEW h \in DOMAIN out, NEW p \in Pixels
               PROVE  out[h][Element(p)] = CoverageOf(rank, h, p, Counted(p)')
    BY <1>0 DEF OutExact
  <2>1. Counted(p)' = Counted(p)
    BY <1>0, PixelGeometry DEF Counted
  <2> QED BY <2>1 DEF OutExact
<1>3. SpansExact'
  BY <1>0, <1>b, ChunkGeometry DEF SpansExact
<1>4. RankBufExact' /\ IdsExact' /\ LoopsExact'
  BY <1>0 DEF RankBufExact, IdsExact, LoopsExact, InChunk
<1>5. MasksPresent' /\ TailBenign'
  BY <1>0 DEF MasksPresent, Scanned, TailBenign
<1> QED BY <1>1, <1>2, <1>3, <1>4, <1>5

\* A pixel of the loop that has an id the call wants: its span and mask exist.
LEMMA HitFacts ==
    ASSUME IInv, pc = "accumulate", NEW i \in Filled(chunk), rankBuf[i] # Zero,
           overload = "all" \/ rankBuf[i] \in request
    PROVE  /\ rankBuf[i] \in ids /\ rankBuf[i] \in DOMAIN offsets /\ rankBuf[i] \in DOMAIN out
           /\ <<chunk, i>> \in Pixels
           /\ offsets[rankBuf[i]] + i = Element(<<chunk, i>>)
           /\ rank[level][<<chunk, i>>] = rankBuf[i]
           /\ covrBuf[i] = <<level, <<chunk, i>>>> /\ covrBuf[i] \in Tags
<1> USE DEF IInv
<1>0. chunk \in Chunks /\ i \in DOMAIN rankBuf /\ <<chunk, i>> \in Pixels
  BY ChunkGeometry DEF TypeOK
<1>1. rankBuf[i] \in NonZero(rankBuf)
  BY <1>0 DEF NonZero
<1>2. rankBuf[i] \in ids
  BY <1>1 DEF IdsExact, InChunk
<1>3. rankBuf[i] \in DOMAIN offsets /\ offsets[rankBuf[i]] = SpanStart(chunk)
  BY <1>2 DEF SpansExact
<1>4. rankBuf[i] \in DOMAIN out
  BY <1>2 DEF IdsExact, InChunk
<1>5. offsets[rankBuf[i]] + i = Element(<<chunk, i>>)
  BY <1>0, <1>3, PixelElements
<1>6. rank[level][<<chunk, i>>] = rankBuf[i]
  BY DEF RankBufExact, InChunk
<1>7. covrBuf[i] = <<level, <<chunk, i>>>> /\ covrBuf[i] \in Tags
  BY ChunkGeometry DEF SpansExact, TypeOK
<1> QED BY <1>0, <1>2, <1>3, <1>4, <1>5, <1>6, <1>7

LEMMA AccumulateHitIInv == ASSUME NEW i \in Slots PROVE IInv /\ AccumulateHit(i) => IInv'
<1> SUFFICES ASSUME IInv, AccumulateHit(i) PROVE IInv'
  OBVIOUS
<1> USE DEF IInv
<1> DEFINE h == rankBuf[i]
           o == <<chunk, i>>
<1>0. /\ UNCHANGED <<rank, overload, request, level, chunk, rankBuf, covrBuf, seen, ids, offsets, pc>>
      /\ pc = "accumulate"
      /\ i \in idxs /\ i \in Filled(chunk) /\ idxs' = idxs \ {i}
      /\ chunk \in Chunks /\ level \in Levels
      /\ h # Zero /\ out \in [DOMAIN out -> [Elements -> PixelSums]]
  BY DEF AccumulateHit, TypeOK, position, input, scan
<1>1. overload = "all" \/ h \in request
  BY DEF AccumulateHit, IdsExact, InChunk
<1>2. /\ h \in DOMAIN out /\ o \in Pixels /\ offsets[h] + i = Element(o) /\ Element(o) \in Elements
      /\ rank[level][o] = h /\ covrBuf[i] = <<level, o>> /\ covrBuf[i] \in Tags
      /\ o[1] = chunk /\ o[2] = i
  BY <1>0, <1>1, HitFacts, PixelElements
<1>3. out' = [out EXCEPT ![h][Element(o)] = Plus(out[h][Element(o)], <<level, o>>)]
  BY <1>2 DEF AccumulateHit
<1>4. /\ DOMAIN out' = DOMAIN out
      /\ \A g \in DOMAIN out \ {h} : out'[g] = out[g]
      /\ out'[h] = [out[h] EXCEPT ![Element(o)] = Plus(out[h][Element(o)], <<level, o>>)]
      /\ out' = [g \in DOMAIN out |-> out'[g]]
  BY <1>0, <1>2, <1>3
<1>5. /\ out[h] \in [Elements -> PixelSums]
      /\ Plus(out[h][Element(o)], <<level, o>>) \in PixelSums
      /\ out'[h][Element(o)] = Plus(out[h][Element(o)], <<level, o>>)
      /\ \A e \in Elements \ {Element(o)} : out'[h][e] = out[h][e]
  BY <1>0, <1>2, <1>4, SumTypes
<1>6. TypeOK'
  <2>1. out'[h] \in [Elements -> PixelSums]
    BY <1>4, <1>5
  <2>2. out' \in [DOMAIN out' -> [Elements -> PixelSums]]
    BY <1>0, <1>4, <2>1
  <2> QED BY <1>0, <1>4, <2>2 DEF TypeOK
<1>7. OutExact'
  <2> SUFFICES ASSUME NEW g \in DOMAIN out, NEW p \in Pixels
               PROVE  out'[g][Element(p)] = CoverageOf(rank, g, p, Counted(p)')
    BY <1>0, <1>4 DEF OutExact
  <2>1. out[g][Element(p)] = CoverageOf(rank, g, p, Counted(p))
    BY DEF OutExact
  <2>2. CASE p = o
    <3>1. Counted(o) = level /\ Counted(o)' = level + 1
      BY <1>0, <1>2, ChunkGeometry DEF Counted
    <3>2. CASE g = h
      BY <1>0, <1>2, <1>5, <2>1, <2>2, <3>1, <3>2, CoverageHit
    <3>3. CASE g # h
      BY <1>0, <1>2, <1>4, <2>1, <2>2, <3>1, <3>3, CoverageMiss
    <3> QED BY <3>2, <3>3
  <2>3. CASE p # o
    <3>1. Counted(p)' = Counted(p)
      <4>1. p[1] = chunk => p[2] # i
        BY <2>3, PixelGeometry
      <4> QED BY <1>0, <4>1 DEF Counted
    <3>2. Element(p) # Element(o) /\ Element(p) \in Elements
      BY <1>2, <2>3, PixelElements
    <3>3. out'[g][Element(p)] = out[g][Element(p)]
      BY <1>4, <1>5, <3>2
    <3> QED BY <2>1, <3>1, <3>3
  <2> QED BY <2>2, <2>3
<1>8. RankBufExact' /\ IdsExact' /\ SpansExact' /\ LoopsExact'
  BY <1>0, <1>4 DEF RankBufExact, IdsExact, SpansExact, LoopsExact, InChunk
<1>9. MasksPresent' /\ TailBenign'
  BY <1>0, <1>4 DEF MasksPresent, Scanned, TailBenign
<1> QED BY <1>6, <1>7, <1>8, <1>9

LEMMA AccumulateMissIInv == ASSUME NEW i \in Slots PROVE IInv /\ AccumulateMiss(i) => IInv'
<1> SUFFICES ASSUME IInv, AccumulateMiss(i) PROVE IInv'
  OBVIOUS
<1> USE DEF IInv
<1> DEFINE o == <<chunk, i>>
<1>0. /\ UNCHANGED <<rank, overload, request, level, chunk, rankBuf, covrBuf, seen, ids, offsets, pc, out>>
      /\ pc = "accumulate"
      /\ i \in idxs /\ i \in Filled(chunk) /\ idxs' = idxs \ {i}
      /\ chunk \in Chunks /\ level \in Levels
  BY DEF AccumulateMiss, TypeOK, position, input, scan
<1>1. o \in Pixels /\ o[1] = chunk /\ o[2] = i /\ rank[level][o] = rankBuf[i]
  BY <1>0, ChunkGeometry DEF RankBufExact, InChunk
<1>2. ASSUME NEW h \in DOMAIN out PROVE h = Zero \/ rank[level][o] # h
  <2>1. CASE rankBuf[i] = Zero
    BY <1>1, <2>1
  <2>2. CASE rankBuf[i] # Zero
    <3>1. overload = "hashes" /\ rankBuf[i] \notin ids
      BY <2>2 DEF AccumulateMiss
    <3>2. i \in DOMAIN rankBuf
      BY <1>0, ChunkGeometry DEF TypeOK
    <3>3. rankBuf[i] \in NonZero(rankBuf)
      BY <2>2, <3>2 DEF NonZero
    <3>4. rankBuf[i] \notin request
      BY <1>0, <3>1, <3>3 DEF IdsExact, InChunk
    <3>5. DOMAIN out = request
      BY <1>0, <3>1 DEF MasksPresent
    <3> QED BY <1>1, <3>4, <3>5
  <2> QED BY <2>1, <2>2
<1>3. TypeOK'
  BY <1>0 DEF TypeOK
<1>4. OutExact'
  <2> SUFFICES ASSUME NEW g \in DOMAIN out, NEW p \in Pixels
               PROVE  out[g][Element(p)] = CoverageOf(rank, g, p, Counted(p)')
    BY <1>0 DEF OutExact
  <2>1. out[g][Element(p)] = CoverageOf(rank, g, p, Counted(p))
    BY DEF OutExact
  <2>2. CASE p = o
    <3>1. Counted(o) = level /\ Counted(o)' = level + 1
      BY <1>0, <1>1, ChunkGeometry DEF Counted
    <3> QED BY <1>0, <1>1, <1>2, <2>1, <2>2, <3>1, CoverageMiss
  <2>3. CASE p # o
    <3>1. Counted(p)' = Counted(p)
      <4>1. p[1] = chunk => p[2] # i
        BY <2>3, PixelGeometry
      <4> QED BY <1>0, <4>1 DEF Counted
    <3> QED BY <2>1, <3>1
  <2> QED BY <2>2, <2>3
<1>5. RankBufExact' /\ IdsExact' /\ SpansExact' /\ LoopsExact'
  BY <1>0 DEF RankBufExact, IdsExact, SpansExact, LoopsExact, InChunk
<1>6. MasksPresent' /\ TailBenign'
  BY <1>0 DEF MasksPresent, Scanned, TailBenign
<1> QED BY <1>3, <1>4, <1>5, <1>6

LEMMA AccumulateDoneIInv == IInv /\ AccumulateDone => IInv'
<1> SUFFICES ASSUME IInv, AccumulateDone PROVE IInv'
  OBVIOUS
<1> USE DEF IInv
<1>0. /\ UNCHANGED <<rank, overload, request, level, chunk, rankBuf, covrBuf, seen, ids, out, offsets, idxs>>
      /\ pc = "accumulate" /\ pc' = "check" /\ idxs = {}
  BY DEF AccumulateDone, position, input, scan
<1>1. TypeOK'
  BY <1>0 DEF TypeOK
<1>2. OutExact'
  BY <1>0 DEF OutExact, Counted
<1>3. RankBufExact' /\ IdsExact' /\ SpansExact' /\ LoopsExact'
  BY <1>0 DEF RankBufExact, IdsExact, SpansExact, LoopsExact, InChunk
<1>4. MasksPresent' /\ TailBenign'
  BY <1>0 DEF MasksPresent, Scanned, TailBenign
<1> QED BY <1>1, <1>2, <1>3, <1>4

\* The early exit is never taken: where it is tested, an id has been seen.
LEMMA NoEarlyExit ==
    ASSUME IInv, pc \in {"next", "check"}
    PROVE  ChunksDone <=> chunk + 1 = NumChunks
BY DEF IInv, LoopsExact, ChunksDone

LEMMA NextChunkIInv == IInv /\ NextChunk => IInv'
<1> SUFFICES ASSUME IInv, NextChunk PROVE IInv'
  OBVIOUS
<1> USE DEF IInv
<1>0. /\ UNCHANGED <<rank, overload, request, level, rankBuf, covrBuf, seen, ids, out, offsets, idxs>>
      /\ pc \in {"next", "check"} /\ pc' = "rank" /\ chunk' = chunk + 1
      /\ chunk \in Nat /\ chunk' \in Chunks /\ level \in Levels /\ idxs = {}
  <2>1. pc \in {"next", "check"} /\ chunk + 1 # NumChunks
    BY NoEarlyExit DEF NextChunk
  <2>2. chunk \in Nat /\ chunk + 1 \in Chunks
    BY <2>1, GeometryAssumption DEF TypeOK, Chunks
  <2> QED BY <2>1, <2>2 DEF NextChunk, TypeOK, LoopsExact, input, scan
<1>1. TypeOK'
  BY <1>0 DEF TypeOK
<1>2. ASSUME NEW p \in Pixels
      PROVE  p[1] \in Nat /\ (p[1] < chunk' <=> p[1] < chunk \/ p[1] = chunk)
  BY <1>0, PixelGeometry, ChunkGeometry
<1>3. OutExact'
  <2> SUFFICES ASSUME NEW h \in DOMAIN out, NEW p \in Pixels
               PROVE  out[h][Element(p)] = CoverageOf(rank, h, p, Counted(p)')
    BY <1>0 DEF OutExact
  <2>1. Counted(p)' = Counted(p)
    BY <1>0, <1>2 DEF Counted
  <2> QED BY <2>1 DEF OutExact
<1>4. RankBufExact' /\ IdsExact' /\ SpansExact' /\ LoopsExact'
  BY <1>0 DEF RankBufExact, IdsExact, SpansExact, LoopsExact, InChunk
<1>5. ASSUME NEW l \in Levels, NEW p \in Pixels, Scanned(l, p)' PROVE Scanned(l, p)
  BY <1>0, <1>2, <1>5 DEF Scanned
<1>6. MasksPresent'
  BY <1>0, <1>5 DEF MasksPresent
<1>7. TailBenign'
  BY <1>0 DEF TailBenign
<1> QED BY <1>1, <1>3, <1>4, <1>6, <1>7

\* After the last chunk everything of the level has been scanned and counted.
LEMMA LevelScanned ==
    ASSUME IInv, pc \in {"next", "check", "done"}, chunk + 1 = NumChunks, NEW p \in Pixels
    PROVE  Scanned(level, p) /\ Counted(p) = level + 1
<1>1. chunk \in Nat /\ p[1] \in Nat /\ (p[1] < chunk \/ p[1] = chunk)
  BY PixelGeometry, ChunkGeometry, GeometryAssumption DEF IInv, TypeOK, Chunks
<1> QED BY <1>1 DEF Scanned, Counted

LEMMA NextLevelIInv == IInv /\ NextLevel => IInv'
<1> SUFFICES ASSUME IInv, NextLevel PROVE IInv'
  OBVIOUS
<1>0. /\ UNCHANGED <<rank, overload, request, rankBuf, covrBuf, ids, out, offsets, idxs>>
      /\ pc \in {"next", "check"} /\ pc' = "rank" /\ chunk' = 0 /\ chunk + 1 = NumChunks
      /\ level' = level + 1 /\ level \in Nat /\ level' \in Levels
      /\ seen' = {} /\ idxs = {}
  <2>1. pc \in {"next", "check"} /\ chunk + 1 = NumChunks
    BY NoEarlyExit DEF NextLevel
  <2>2. level \in Nat /\ level + 1 \in Levels
    BY LevelsNat, GeometryAssumption DEF IInv, TypeOK, NextLevel, Levels
  <2> QED BY <2>1, <2>2 DEF IInv, NextLevel, LoopsExact, input
<1>1. TypeOK'
  BY <1>0, LevelsNat DEF IInv, TypeOK
<1>2. ASSUME NEW p \in Pixels
      PROVE  p[1] \in Nat /\ ~(p[1] < chunk')
  BY <1>0, PixelGeometry, ChunkGeometry
<1>3. OutExact'
  <2> SUFFICES ASSUME NEW h \in DOMAIN out, NEW p \in Pixels
               PROVE  out[h][Element(p)] = CoverageOf(rank, h, p, Counted(p)')
    BY <1>0 DEF OutExact
  <2>1. Counted(p)' = level + 1
    BY <1>0, <1>2 DEF Counted
  <2>2. Counted(p) = level + 1
    BY <1>0, LevelScanned
  <2> QED BY <2>1, <2>2 DEF IInv, OutExact
<1>4. RankBufExact' /\ IdsExact' /\ SpansExact' /\ LoopsExact'
  BY <1>0 DEF RankBufExact, IdsExact, SpansExact, LoopsExact, InChunk
<1>5. ASSUME NEW l \in Levels, NEW p \in Pixels, Scanned(l, p)' PROVE Scanned(l, p)
  <2>1. l < level + 1 /\ l \in Nat
    BY <1>0, <1>2, <1>5, LevelsNat DEF Scanned
  <2>2. l < level \/ l = level
    BY <1>0, <2>1
  <2> QED BY <1>0, <2>2, LevelScanned DEF Scanned
<1>6. MasksPresent'
  BY <1>0, <1>5 DEF IInv, MasksPresent
<1>7. TailBenign'
  BY <1>0 DEF IInv, TailBenign
<1> QED BY <1>1, <1>3, <1>4, <1>6, <1>7 DEF IInv

LEMMA FinishIInv == IInv /\ Finish => IInv'
<1> SUFFICES ASSUME IInv, Finish PROVE IInv'
  OBVIOUS
<1> USE DEF IInv
<1>0. /\ UNCHANGED <<rank, overload, request, level, chunk, rankBuf, covrBuf, seen, ids, out, offsets, idxs>>
      /\ pc \in {"next", "check"} /\ pc' = "done"
      /\ chunk + 1 = NumChunks /\ level + 1 = NumLevels
  BY NoEarlyExit DEF Finish, position, input, scan
<1>1. TypeOK'
  BY <1>0 DEF TypeOK
<1>2. OutExact'
  BY <1>0 DEF OutExact, Counted
<1>3. RankBufExact' /\ IdsExact' /\ SpansExact' /\ LoopsExact'
  BY <1>0 DEF RankBufExact, IdsExact, SpansExact, LoopsExact, InChunk
<1>4. MasksPresent' /\ TailBenign'
  BY <1>0 DEF MasksPresent, Scanned, TailBenign
<1> QED BY <1>1, <1>2, <1>3, <1>4

LEMMA StutterIInv == IInv /\ UNCHANGED vars => IInv'
<1> SUFFICES ASSUME IInv, UNCHANGED vars PROVE IInv'
  OBVIOUS
<1> USE DEF IInv, vars
<1>1. TypeOK' /\ OutExact' /\ RankBufExact' /\ IdsExact'
  BY DEF TypeOK, OutExact, Counted, RankBufExact, IdsExact, InChunk
<1>2. SpansExact' /\ LoopsExact' /\ MasksPresent' /\ TailBenign'
  BY DEF SpansExact, LoopsExact, MasksPresent, Scanned, TailBenign, InChunk
<1> QED BY <1>1, <1>2

LEMMA NextIInv == IInv /\ [Next]_vars => IInv'
BY BeginRequestedIInv, BeginAllIInv, ReadRankIInv, ScanRequestedIInv, ScanAllIInv,
   ReadCoverageIInv, AccumulateHitIInv, AccumulateMissIInv, AccumulateDoneIInv, NextChunkIInv,
   NextLevelIInv, FinishIInv, StutterIInv
DEF Next, Terminated

-----------------------------------------------------------------------------
(* What the invariant says of the properties the runs check. *)

LEMMA IInvWrites == IInv => WritesLandOnTheirPixel
<1> SUFFICES ASSUME IInv, pc = "accumulate", NEW i \in idxs, rankBuf[i] # Zero,
                    overload = "all" \/ rankBuf[i] \in request
             PROVE  /\ rankBuf[i] \in DOMAIN offsets
                    /\ rankBuf[i] \in DOMAIN out
                    /\ offsets[rankBuf[i]] + i < VectorSize
                    /\ offsets[rankBuf[i]] + i = Element(<<chunk, i>>)
  BY DEF WritesLandOnTheirPixel
<1>1. i \in Filled(chunk)
  BY DEF IInv, TypeOK
<1>2. /\ rankBuf[i] \in DOMAIN offsets /\ rankBuf[i] \in DOMAIN out
      /\ <<chunk, i>> \in Pixels /\ offsets[rankBuf[i]] + i = Element(<<chunk, i>>)
  BY <1>1, HitFacts
<1>3. Element(<<chunk, i>>) < VectorSize
  BY <1>2, PixelsInVector DEF Element, VectorSize
<1> QED BY <1>2, <1>3

LEMMA IInvProgress == IInv => ProgressExact
<1> SUFFICES ASSUME IInv, pc \notin {"begin", "accumulate"}, NEW h \in DOMAIN out, NEW p \in Pixels
             PROVE  out[h][Element(p)] =
                       CoverageOf(rank, h, p,
                           IF p[1] < chunk \/ (p[1] = chunk /\ pc \in {"next", "check", "done"})
                           THEN level + 1 ELSE level)
  BY DEF ProgressExact
<1> QED BY DEF IInv, OutExact, Counted

-----------------------------------------------------------------------------
(* The detailed specification implements the one-step extraction. *)

ObjectsAsked == IF overload = "hashes" THEN request ELSE IdsOf(rank)

\* The result as a caller reads it, pixel by pixel.
Answered == [h \in DOMAIN out |-> [p \in Pixels |-> out[h][Element(p)]]]

\* When the loops have ended, every level has been scanned and counted.
LEMMA ResultWhenDone ==
    IInv /\ pc = "done" /\ FullFirstChunk =>
        Answered = [h \in ObjectsAsked |-> [p \in Pixels |-> CoverageOf(rank, h, p, NumLevels)]]
<1> SUFFICES ASSUME IInv, pc = "done", FullFirstChunk
             PROVE  Answered = [h \in ObjectsAsked |->
                                   [p \in Pixels |-> CoverageOf(rank, h, p, NumLevels)]]
  OBVIOUS
<1>1. chunk + 1 = NumChunks /\ level + 1 = NumLevels /\ level \in Levels
  BY DEF IInv, LoopsExact, TypeOK
<1>2. ASSUME NEW h \in DOMAIN out, NEW p \in Pixels
      PROVE  out[h][Element(p)] = CoverageOf(rank, h, p, NumLevels)
  BY <1>1, LevelScanned DEF IInv, OutExact
<1>3. DOMAIN out = ObjectsAsked
  <2>1. CASE overload = "hashes"
    BY <2>1 DEF IInv, MasksPresent, ObjectsAsked
  <2>2. CASE overload = "all"
    <3>1. ASSUME NEW l \in Levels, NEW p \in Pixels, rank[l][p] # Zero
          PROVE  rank[l][p] \in DOMAIN out
      <4>1. l < level \/ l = level
        BY <1>1, GeometryAssumption DEF Levels
      <4>2. Scanned(l, p)
        BY <1>1, <4>1, LevelScanned DEF Scanned
      <4> QED BY <2>2, <3>1, <4>2 DEF IInv, MasksPresent
    <3>2. IdsOf(rank) \subseteq DOMAIN out
      BY <3>1 DEF IdsOf
    <3>3. DOMAIN out \subseteq IdsOf(rank)
      BY <2>2 DEF IInv, TailBenign
    <3> QED BY <2>2, <3>2, <3>3 DEF ObjectsAsked
  <2> QED BY <2>1, <2>2 DEF IInv, TypeOK
<1> QED BY <1>2, <1>3 DEF Answered

\* Every step is an answer or leaves what a caller sees unchanged.
LEMMA StepImplements ==
    ASSUME IInv, [Next]_vars,
           pc' = "done" => Answered' = [h \in ObjectsAsked' |->
                               [p \in Pixels |-> CoverageOf(rank', h, p, NumLevels)]]
    PROVE  [Extraction!Answer]_Extraction!vars
<1>1. rank' = rank /\ overload' = overload /\ request' = request
  BY DEF Next, vars, BeginRequested, BeginAll, ReadRank, ScanRequested, ScanAll, ReadCoverage,
         AccumulateHit, AccumulateMiss, AccumulateDone, NextChunk, NextLevel, Finish, Terminated,
         input
<1>2. CASE pc = "done"
  <2>1. UNCHANGED vars
    BY <1>2 DEF Next, vars, BeginRequested, BeginAll, ReadRank, ScanRequested, ScanAll,
         ReadCoverage, AccumulateHit, AccumulateMiss, AccumulateDone, NextChunk, NextLevel, Finish,
         Terminated
  <2> QED BY <2>1 DEF vars, Extraction!vars
<1>3. CASE pc # "done" /\ pc' # "done"
  BY <1>1, <1>3 DEF Extraction!vars
<1>4. CASE pc # "done" /\ pc' = "done"
  <2>1. Answered' = [h \in ObjectsAsked |->
                        [p \in Pixels |-> CoverageOf(rank, h, p, NumLevels)]]
    BY <1>1, <1>4 DEF ObjectsAsked
  <2>2. (IF pc = "done" THEN Answered ELSE <<>>)' =
           [h \in Extraction!Objects |->
               [p \in Extraction!Pixels |-> Extraction!CoverageOf(rank, h, p, NumLevels)]]
    <3>1. Extraction!Objects = ObjectsAsked /\ Extraction!Pixels = Pixels
      BY DEF Extraction!Objects, ObjectsAsked, IdsOf, Extraction!IdsOf, Pixels, Extraction!Pixels,
             Levels, Extraction!Levels, Chunks, Extraction!Chunks, Slots, Extraction!Slots,
             ChunkLen, Extraction!ChunkLen
    <3>2. \A h, p : Extraction!CoverageOf(rank, h, p, NumLevels) = CoverageOf(rank, h, p, NumLevels)
      BY <3>1 DEF CoverageOf, Extraction!CoverageOf, Tags, Extraction!Tags, Samples,
                  Extraction!Samples, Levels, Extraction!Levels
    <3> QED BY <1>4, <2>1, <3>1, <3>2
  <2> QED BY <1>1, <1>4, <2>2 DEF Extraction!Answer, Answered
<1> QED BY <1>2, <1>3, <1>4

-----------------------------------------------------------------------------
(* The theorems. *)

\* The invariant holds throughout every call.
LEMMA Invariance == Spec => []IInv
BY InitIInv, NextIInv, PTL DEF Spec

\* Every variable keeps its type, for every geometry, picture and request: the
\* vectors keep their length and no iteration leaves its chunk.
THEOREM TypeCorrect == Spec => []TypeOK
<1>1. IInv => TypeOK
  BY DEF IInv
<1> QED BY <1>1, Invariance, PTL

\* Every add of the parallel loop finds its span, stays inside the vector of its
\* id and hits the element of its own pixel: no two iterations meet.
THEOREM WritesSafe == Spec => []WritesLandOnTheirPixel
BY IInvWrites, Invariance, PTL

\* Outside the parallel loop every mask holds exactly the coverage of the levels
\* read so far, chunk by chunk, in both overloads.
THEOREM ProgressCorrect == Spec => []ProgressExact
BY IInvProgress, Invariance, PTL

\* If the first chunk fills the scanned buffer, the chunked, parallel extraction is
\* seen by its caller as the one-step extraction, on every picture: it starts as
\* that does, and each of its steps answers correctly or changes nothing.
THEOREM ExtractionImplemented ==
    ASSUME FullFirstChunk
    PROVE  Spec => Extraction!Init /\ [][Extraction!Answer]_Extraction!vars
<1>1. Init => Extraction!Init
  BY DEF Init, Extraction!Init
<1>2. IInv /\ pc = "done" =>
         Answered = [h \in ObjectsAsked |-> [p \in Pixels |-> CoverageOf(rank, h, p, NumLevels)]]
  BY ResultWhenDone
<1>3. IInv /\ [Next]_vars /\ (pc = "done" =>
            Answered = [h \in ObjectsAsked |-> [p \in Pixels |-> CoverageOf(rank, h, p, NumLevels)]])'
         => [Extraction!Answer]_Extraction!vars
  BY StepImplements
<1> QED BY <1>1, <1>2, <1>3, Invariance, PTL DEF Spec
=============================================================================
