------------------------- MODULE MasksCompressedProofs -------------------------
(***************************************************************************)
(* masks_compressed returns exact masks, for every number of levels,       *)
(* chunks, pixels and ids, every picture and request, every layout of the  *)
(* mask buffer and every order of the parallel iterations.                 *)
(*                                                                         *)
(* CoverageExact speaks of the end of the call only.  The inductive        *)
(* invariant IInv says for every moment of the loop how many levels each   *)
(* chunk of each mask already holds (Merged), what the shared buffers      *)
(* hold, and which ids have been met.  On cascading ranks the same         *)
(* invariant shows that the call implements the abstract extraction.       *)
(***************************************************************************)
EXTENDS MasksCompressed, AccumulateIdsProofs, FiniteSetTheorems, TLAPS

InChunk == {"coverage", "layout", "fill", "accumulate", "recompress"}

\* How many levels chunk k of mask h holds.
Merged(h, k) ==
    IF \/ k < chunk
       \/ k = chunk /\ pc \in {"next", "done"}
       \/ k = chunk /\ pc = "recompress" /\ h \notin keys
    THEN level + 1 ELSE level

\* Which pixels of which levels have been scanned for ids.
Scanned(l, p) ==
    \/ l < level
    \/ /\ l = level
       /\ p[1] < chunk \/ (p[1] = chunk /\ pc \notin {"begin", "rank", "scan"})

OutExact ==
    \A h \in DOMAIN out, p \in Pixels :
        out[h][p] = CoverageOf(rank, h, p, Merged(h, p[1]))

RankBufExact ==
    pc \in InChunk \cup {"scan"} =>
        \A i \in Filled(chunk) : rankBuf[i] = rank[level][<<chunk, i>>]

IdsExact ==
    pc \in InChunk =>
        /\ ids = IF overload = "all" THEN NonZero(rankBuf) ELSE NonZero(rankBuf) \cap request
        /\ ids \subseteq DOMAIN out

CovrBufExact ==
    pc \in {"layout", "fill", "accumulate"} =>
        \A i \in Filled(chunk) : covrBuf[i] = <<level, <<chunk, i>>>>

SpansLaidOut ==
    pc \in {"fill", "accumulate", "recompress"} =>
        /\ DOMAIN spans = ids
        /\ \A h \in ids, i \in Filled(chunk) : spans[h] + i < bufSize
        /\ \A g, h \in ids, i, j \in Filled(chunk) :
              spans[g] + i = spans[h] + j => g = h /\ i = j

SpanExact(h, i, n) == maskBuf[spans[h] + i] = CoverageOf(rank, h, <<chunk, i>>, n)

MaskBufExact ==
    /\ pc = "fill" => \A h \in ids \ keys, i \in Filled(chunk) : SpanExact(h, i, level)
    /\ pc = "accumulate" =>
          \A h \in ids, i \in Filled(chunk) :
              SpanExact(h, i, IF i \in idxs THEN level ELSE level + 1)
    /\ pc = "recompress" => \A h \in ids, i \in Filled(chunk) : SpanExact(h, i, level + 1)

MasksPresent ==
    /\ pc = "begin" => DOMAIN out = {} /\ level = 0 /\ chunk = 0
    /\ overload = "hashes" /\ pc # "begin" => DOMAIN out = request
    /\ overload = "all" =>
          \A l \in Levels, p \in Pixels :
              Scanned(l, p) /\ rank[l][p] # Zero => rank[l][p] \in DOMAIN out

SeenExact ==
    /\ \A p \in Pixels : Scanned(level, p) /\ rank[level][p] # Zero => rank[level][p] \in seen
    /\ pc = "done" => chunk + 1 = NumChunks /\ (seen = {} \/ level + 1 = NumLevels)

\* What holds because the tail of rank_chunk never holds anything but the level's
\* own ids.
TailBenign ==
    FullFirstChunk =>
        /\ pc \notin {"begin", "rank"} \/ chunk > 0 =>
              \A i \in Slots : \E p \in Pixels : rankBuf[i] = rank[level][p]
        /\ \A h \in seen : h # Zero /\ \E p \in Pixels : rank[level][p] = h
        /\ \A m \in Levels : m < level => ~BlankLevel(rank, m)
        /\ overload = "all" =>
              \A h \in DOMAIN out :
                  h # Zero /\ \E l \in Levels, p \in Pixels : l <= level /\ rank[l][p] = h

LoopsIdle ==
    /\ pc \notin {"fill", "recompress"} => keys = {}
    /\ pc # "accumulate" => idxs = {}

IInv ==
    /\ TypeOK
    /\ LoopsIdle
    /\ OutExact
    /\ RankBufExact
    /\ IdsExact
    /\ CovrBufExact
    /\ SpansLaidOut
    /\ MaskBufExact
    /\ MasksPresent
    /\ SeenExact
    /\ TailBenign

-----------------------------------------------------------------------------
(* Every initial state satisfies the invariant. *)

LEMMA InitIInv == Init => IInv
<1> SUFFICES ASSUME Init PROVE IInv
  OBVIOUS
<1>1. TypeOK
  BY InputAssumption, LevelsNat DEF Init, TypeOK, Tags, Vals
<1>2. OutExact
  BY DEF Init, OutExact
<1>3. RankBufExact /\ IdsExact /\ CovrBufExact /\ SpansLaidOut /\ MaskBufExact
  BY DEF Init, RankBufExact, IdsExact, CovrBufExact, SpansLaidOut, MaskBufExact, InChunk
<1>4. MasksPresent
  BY LevelsNat, PixelGeometry, GeometryAssumption DEF Init, MasksPresent, Scanned, Chunks, Levels
<1>5. SeenExact
  BY LevelsNat, PixelGeometry, GeometryAssumption DEF Init, SeenExact, Scanned, Chunks
<1>6. TailBenign
  BY LevelsNat DEF Init, TailBenign
<1>7. LoopsIdle
  BY DEF Init, LoopsIdle
<1> QED BY <1>1, <1>2, <1>3, <1>4, <1>5, <1>6, <1>7 DEF IInv

-----------------------------------------------------------------------------
(* Every step preserves it, one lemma per action. *)

LEMMA BeginRequestedIInv == IInv /\ BeginRequested => IInv'
<1> SUFFICES ASSUME IInv, BeginRequested PROVE IInv'
  OBVIOUS
<1> USE DEF IInv
<1>1. TypeOK'
  BY SumTypes DEF TypeOK, BeginRequested, input, position, scan, buffer
<1>2. OutExact'
  <2> SUFFICES ASSUME NEW h \in request, NEW p \in Pixels
               PROVE  out'[h][p] = CoverageOf(rank, h, p, Merged(h, p[1])')
    BY DEF OutExact, BeginRequested, input
  <2>1. Merged(h, p[1])' = 0
    BY PixelGeometry, ChunkGeometry
    DEF BeginRequested, MasksPresent, Merged, position
  <2>2. CoverageOf(rank, h, p, 0) = NoCoverage
    BY LevelsNat, CoverageNone
  <2> QED BY <2>1, <2>2 DEF BeginRequested, ZeroMask
<1>3. RankBufExact' /\ IdsExact' /\ CovrBufExact' /\ SpansLaidOut' /\ MaskBufExact'
  BY DEF BeginRequested, RankBufExact, IdsExact, CovrBufExact, SpansLaidOut, MaskBufExact, InChunk
<1>4. MasksPresent'
  BY DEF BeginRequested, MasksPresent, input
<1>5. SeenExact'
  BY DEF BeginRequested, SeenExact, Scanned, input, position, scan
<1>6. TailBenign'
  BY DEF BeginRequested, TailBenign, input, position, scan
<1>7. LoopsIdle'
  BY DEF BeginRequested, LoopsIdle
<1> QED BY <1>1, <1>2, <1>3, <1>4, <1>5, <1>6, <1>7

LEMMA BeginAllIInv == IInv /\ BeginAll => IInv'
<1> SUFFICES ASSUME IInv, BeginAll PROVE IInv'
  OBVIOUS
<1> USE DEF IInv
<1>1. TypeOK'
  BY DEF TypeOK, BeginAll, input, position, scan, buffer
<1>2. OutExact' /\ RankBufExact' /\ IdsExact' /\ CovrBufExact' /\ SpansLaidOut' /\ MaskBufExact'
  BY DEF BeginAll, MasksPresent, OutExact, RankBufExact, IdsExact, CovrBufExact, SpansLaidOut,
         MaskBufExact, InChunk
<1>3. MasksPresent'
  BY DEF BeginAll, MasksPresent, Scanned, input, position
<1>4. SeenExact'
  BY DEF BeginAll, SeenExact, Scanned, input, position, scan
<1>5. TailBenign'
  BY DEF BeginAll, TailBenign, input, position, scan
<1>6. LoopsIdle'
  BY DEF BeginAll, LoopsIdle
<1> QED BY <1>1, <1>2, <1>3, <1>4, <1>5, <1>6

LEMMA ReadRankIInv == IInv /\ ReadRank => IInv'
<1> SUFFICES ASSUME IInv, ReadRank PROVE IInv'
  OBVIOUS
<1> USE DEF IInv
<1>0. /\ chunk \in Chunks /\ level \in Levels
      /\ rankBuf' = GetChunk(rank[level], chunk, rankBuf)
      /\ rank \in RankPictures /\ rankBuf \in [Slots -> Vals]
      /\ chunk' = chunk /\ level' = level /\ rank' = rank
  BY DEF TypeOK, ReadRank, position, input
<1>b. \A j \in Slots :
         \/ j \in Filled(chunk) /\ <<chunk, j>> \in Pixels /\ rankBuf'[j] = rank[level][<<chunk, j>>]
         \/ j \notin Filled(chunk) /\ rankBuf'[j] = rankBuf[j]
  BY <1>0, ChunkGeometry DEF GetChunk
<1>1. TypeOK'
  <2>1. rankBuf' \in [Slots -> Vals]
    <3>1. ASSUME NEW j \in Slots PROVE rankBuf'[j] \in Vals
      <4>1. ASSUME NEW p \in Pixels PROVE rank[level][p] \in Vals
        BY <1>0 DEF RankPictures
      <4>2. rankBuf[j] \in Vals
        BY <1>0
      <4> QED BY <1>b, <4>1, <4>2
    <3> QED BY <1>0, <3>1 DEF GetChunk
  <2> QED BY <2>1 DEF TypeOK, ReadRank, input, position, scan, buffer
<1>2. OutExact'
  BY DEF OutExact, ReadRank, Merged, input, position
<1>3. RankBufExact'
  BY <1>0, GetChunkFacts DEF RankBufExact
<1>4. IdsExact' /\ CovrBufExact' /\ SpansLaidOut' /\ MaskBufExact'
  BY DEF ReadRank, IdsExact, CovrBufExact, SpansLaidOut, MaskBufExact, InChunk
<1>5. MasksPresent'
  BY DEF ReadRank, MasksPresent, Scanned, input, position
<1>6. SeenExact'
  BY DEF ReadRank, SeenExact, Scanned, input, position, scan
<1>7. TailBenign'
  <2> SUFFICES ASSUME FullFirstChunk
               PROVE  \A j \in Slots : \E p \in Pixels : rankBuf'[j] = rank[level][p]
    BY <1>0 DEF ReadRank, TailBenign, input, scan
  <2> TAKE j \in Slots
  <2>1. CASE j \in Filled(chunk)
    BY <1>b, <2>1
  <2>2. CASE j \notin Filled(chunk)
    <3>1. chunk > 0
      BY <1>0, <2>2, ChunkGeometry, GeometryAssumption DEF FullFirstChunk, Slots, Chunks
    <3>2. rankBuf'[j] = rankBuf[j]
      BY <1>b, <2>2
    <3> QED BY <3>1, <3>2 DEF TailBenign
  <2> QED BY <2>1, <2>2
<1>8. LoopsIdle'
  BY DEF ReadRank, LoopsIdle
<1> QED BY <1>1, <1>2, <1>3, <1>4, <1>5, <1>6, <1>7, <1>8

\* An id that a scan of the buffer does not report is at no pixel of the chunk.
LEMMA UnreportedIsAbsent ==
    ASSUME IInv, pc \in InChunk \cup {"scan"}, NEW h, h # Zero, h \notin NonZero(rankBuf),
           NEW p \in Pixels, p[1] = chunk
    PROVE  rank[level][p] # h
<1>1. p[2] \in Filled(chunk) /\ p = <<chunk, p[2]>>
  BY PixelGeometry
<1>2. rankBuf[p[2]] = rank[level][p]
  BY <1>1 DEF IInv, RankBufExact
<1>3. p[2] \in DOMAIN rankBuf
  BY <1>1, ChunkGeometry DEF IInv, TypeOK
<1> QED BY <1>2, <1>3 DEF NonZero

\* A chunk without wanted ids leaves every mask complete up to this level.
LEMMA SkippedChunk ==
    ASSUME IInv, pc = "scan", pc' = "next",
           UNCHANGED <<rank, level, chunk, out>>,
           \A h \in DOMAIN out : h = Zero \/ h \notin NonZero(rankBuf)
    PROVE  OutExact'
<1> SUFFICES ASSUME NEW h \in DOMAIN out, NEW p \in Pixels
             PROVE  out[h][p] = CoverageOf(rank, h, p, Merged(h, p[1])')
  BY DEF OutExact
<1>1. out[h][p] = CoverageOf(rank, h, p, Merged(h, p[1]))
  BY DEF IInv, OutExact
<1>2. level \in Levels
  BY DEF IInv, TypeOK
<1>3. CASE p[1] = chunk
  <2>1. p[1] \in Nat /\ ~(p[1] < chunk)
    BY <1>3, PixelGeometry, ChunkGeometry
  <2>2. Merged(h, p[1]) = level /\ Merged(h, p[1])' = level + 1
    BY <1>3, <2>1 DEF Merged
  <2>3. h = Zero \/ rank[level][p] # h
    BY <1>3, UnreportedIsAbsent
  <2> QED BY <1>1, <1>2, <2>2, <2>3, CoverageMiss
<1>4. CASE p[1] # chunk
  BY <1>1, <1>4 DEF Merged
<1> QED BY <1>3, <1>4

\* Scanning a chunk for ids keeps the records of what was seen exact.
LEMMA SeenAfterScan ==
    ASSUME IInv, pc = "scan", pc' \in {"next", "coverage"},
           seen' = seen \cup NonZero(rankBuf),
           UNCHANGED <<rank, level, chunk, rankBuf>>
    PROVE  /\ SeenExact'
           /\ FullFirstChunk => \A h \in seen' : h # Zero /\ \E p \in Pixels : rank[level][p] = h
           /\ NonZero(rankBuf) \subseteq Ids
<1> USE DEF IInv
<1>1. SeenExact'
  <2> SUFFICES ASSUME NEW p \in Pixels, Scanned(level, p)', rank[level][p] # Zero
               PROVE  rank[level][p] \in seen'
    BY DEF SeenExact
  <2>1. CASE p[1] = chunk
    BY <2>1, UnreportedIsAbsent
  <2>2. CASE p[1] # chunk
    BY <2>2, LevelsNat DEF SeenExact, Scanned, TypeOK
  <2> QED BY <2>1, <2>2
<1>2. FullFirstChunk => \A h \in NonZero(rankBuf) : h # Zero /\ \E p \in Pixels : rank[level][p] = h
  BY DEF TailBenign, NonZero, TypeOK
<1>3. NonZero(rankBuf) \subseteq Ids
  BY DEF NonZero, TypeOK, Vals
<1> QED BY <1>1, <1>2, <1>3 DEF TailBenign

LEMMA ScanRequestedIInv == IInv /\ ScanRequested => IInv'
<1> SUFFICES ASSUME IInv, ScanRequested PROVE IInv'
  OBVIOUS
<1> USE DEF IInv
<1>0. /\ UNCHANGED <<rank, level, chunk, rankBuf, out>>
      /\ pc = "scan" /\ pc' \in {"next", "coverage"}
      /\ seen' = seen \cup NonZero(rankBuf)
      /\ DOMAIN out = request
  BY DEF ScanRequested, position, input, MasksPresent
<1>a. /\ SeenExact' /\ NonZero(rankBuf) \subseteq Ids
      /\ FullFirstChunk => \A h \in seen' : h # Zero /\ \E p \in Pixels : rank[level][p] = h
  BY <1>0, SeenAfterScan
<1>1. TypeOK'
  <2>1. keys = {}
    BY DEF ScanRequested, LoopsIdle
  <2> QED BY <2>1, <1>a DEF TypeOK, ScanRequested, input, position, buffer
<1>2. OutExact'
  <2>1. CASE ids' = {}
    BY <1>0, <2>1, SkippedChunk DEF ScanRequested
  <2>2. CASE ids' # {}
    BY <1>0, <2>2 DEF ScanRequested, OutExact, Merged
  <2> QED BY <2>1, <2>2
<1>3. RankBufExact' /\ IdsExact'
  BY <1>0 DEF ScanRequested, RankBufExact, IdsExact, InChunk, input
<1>4. CovrBufExact' /\ SpansLaidOut' /\ MaskBufExact'
  BY <1>0 DEF CovrBufExact, SpansLaidOut, MaskBufExact
<1>5. MasksPresent'
  BY <1>0 DEF ScanRequested, MasksPresent, input
<1>6. TailBenign'
  BY <1>0, <1>a DEF ScanRequested, TailBenign, input
<1>7. LoopsIdle'
  BY <1>0 DEF ScanRequested, LoopsIdle
<1> QED BY <1>1, <1>2, <1>3, <1>4, <1>5, <1>6, <1>7, <1>a

LEMMA ScanAllIInv == IInv /\ ScanAll => IInv'
<1> SUFFICES ASSUME IInv, ScanAll PROVE IInv'
  OBVIOUS
<1> USE DEF IInv
<1>0. /\ UNCHANGED <<rank, level, chunk, rankBuf>>
      /\ pc = "scan" /\ pc' \in {"next", "coverage"}
      /\ seen' = seen \cup NonZero(rankBuf)
      /\ ids' = NonZero(rankBuf)
      /\ overload = "all"
      /\ DOMAIN out' = DOMAIN out \cup ids'
      /\ \A h \in DOMAIN out : out'[h] = out[h]
      /\ \A h \in ids' \ DOMAIN out : out'[h] = ZeroMask
  BY DEF ScanAll, position, input
<1>a. /\ SeenExact' /\ NonZero(rankBuf) \subseteq Ids
      /\ FullFirstChunk => \A h \in seen' : h # Zero /\ \E p \in Pixels : rank[level][p] = h
  BY <1>0, SeenAfterScan
<1>1. TypeOK'
  <2>1. keys = {}
    BY DEF ScanAll, LoopsIdle
  <2>2. DOMAIN out' \in SUBSET Vals
    BY <1>0, <1>a DEF TypeOK, Vals
  <2>3. out' \in [DOMAIN out' -> Masks]
    <3>1. \A h \in DOMAIN out' : out'[h] \in Masks
      BY <1>0, SumTypes DEF TypeOK
    <3>2. out' = [h \in DOMAIN out \cup ids' |-> out'[h]]
      BY <1>0 DEF ScanAll
    <3> QED BY <1>0, <3>1, <3>2
  <2> QED BY <2>1, <2>2, <2>3, <1>a DEF TypeOK, ScanAll, input, position, buffer
<1>2. OutExact'
  <2>1. CASE ids' = {}
    <3>1. out' = out
      BY <1>0, <2>1 DEF ScanAll, TypeOK
    <3> QED BY <1>0, <2>1, <3>1, SkippedChunk DEF ScanAll
  <2>2. CASE ids' # {}
    <3> SUFFICES ASSUME NEW h \in DOMAIN out', NEW p \in Pixels
                 PROVE  out'[h][p] = CoverageOf(rank, h, p, Merged(h, p[1])')
      BY <1>0 DEF OutExact
    <3>1. Merged(h, p[1])' = Merged(h, p[1])
      BY <1>0, <2>2 DEF ScanAll, Merged
    <3>2. CASE h \in DOMAIN out
      BY <1>0, <3>1, <3>2 DEF OutExact
    <3>3. CASE h \notin DOMAIN out
      <4>1. ASSUME NEW l \in Levels, l < Merged(h, p[1]) PROVE h = Zero \/ rank[l][p] # h
        <5>1. Scanned(l, p)
          BY <4>1, <1>0, LevelsNat DEF Merged, Scanned, TypeOK
        <5> QED BY <5>1, <1>0, <3>3 DEF MasksPresent
      <4>2. out'[h][p] = NoCoverage
        BY <1>0, <3>3 DEF ZeroMask
      <4> QED BY <3>1, <4>1, <4>2, CoverageNone
    <3> QED BY <3>2, <3>3
  <2> QED BY <2>1, <2>2
<1>3. RankBufExact' /\ IdsExact'
  BY <1>0 DEF ScanAll, RankBufExact, IdsExact, InChunk, input
<1>4. CovrBufExact' /\ SpansLaidOut' /\ MaskBufExact'
  BY <1>0 DEF CovrBufExact, SpansLaidOut, MaskBufExact
<1>5. MasksPresent'
  <2> SUFFICES ASSUME NEW l \in Levels, NEW p \in Pixels, Scanned(l, p)', rank[l][p] # Zero
               PROVE  rank[l][p] \in DOMAIN out'
    BY <1>0 DEF ScanAll, MasksPresent, input
  <2>1. CASE l = level /\ p[1] = chunk
    BY <1>0, <2>1, UnreportedIsAbsent
  <2>2. CASE ~(l = level /\ p[1] = chunk)
    <3>1. Scanned(l, p)
      BY <1>0, <2>2, LevelsNat DEF Scanned, TypeOK
    <3> QED BY <1>0, <3>1 DEF MasksPresent
  <2> QED BY <2>1, <2>2
<1>6. TailBenign'
  <2>1. FullFirstChunk =>
           \A h \in NonZero(rankBuf) :
              h # Zero /\ \E l \in Levels, p \in Pixels : l <= level /\ rank[l][p] = h
    <3>1. level \in Levels /\ level <= level
      BY LevelsNat DEF TypeOK
    <3>2. FullFirstChunk =>
             \A h \in NonZero(rankBuf) : h # Zero /\ \E p \in Pixels : rank[level][p] = h
      BY <1>0, <1>a
    <3> QED BY <3>1, <3>2
  <2> QED BY <1>0, <1>a, <2>1 DEF ScanAll, TailBenign, input
<1>7. LoopsIdle'
  BY <1>0 DEF ScanAll, LoopsIdle
<1> QED BY <1>1, <1>2, <1>3, <1>4, <1>5, <1>6, <1>7, <1>a

LEMMA ReadCoverageIInv == IInv /\ ReadCoverage => IInv'
<1> SUFFICES ASSUME IInv, ReadCoverage PROVE IInv'
  OBVIOUS
<1> USE DEF IInv
<1>0. /\ chunk \in Chunks /\ level \in Levels /\ covrBuf \in [Slots -> Tags]
      /\ covrBuf' = GetChunk(CoverageChannel(level), chunk, covrBuf)
      /\ chunk' = chunk /\ level' = level
      /\ pc = "coverage" /\ pc' = "layout"
  BY DEF TypeOK, ReadCoverage, position
<1>b. \A j \in Slots :
         \/ j \in Filled(chunk) /\ <<chunk, j>> \in Pixels /\ covrBuf'[j] = <<level, <<chunk, j>>>>
         \/ j \notin Filled(chunk) /\ covrBuf'[j] = covrBuf[j]
  BY <1>0, ChunkGeometry DEF GetChunk, CoverageChannel
<1>1. TypeOK'
  <2>1. ASSUME NEW j \in Slots PROVE covrBuf'[j] \in Tags
    <3>1. ASSUME NEW p \in Pixels PROVE <<level, p>> \in Tags
      BY <1>0 DEF Tags, Samples
    <3>2. covrBuf[j] \in Tags
      BY <1>0
    <3> QED BY <1>b, <3>1, <3>2
  <2>2. covrBuf' \in [Slots -> Tags]
    BY <1>0, <2>1 DEF GetChunk
  <2> QED BY <2>2 DEF TypeOK, ReadCoverage, input, position, scan, buffer
<1>2. OutExact'
  BY DEF OutExact, ReadCoverage, Merged, input, position
<1>3. CovrBufExact'
  BY <1>0, <1>b, ChunkGeometry DEF CovrBufExact
<1>4. RankBufExact' /\ IdsExact' /\ SpansLaidOut' /\ MaskBufExact'
  BY DEF ReadCoverage, RankBufExact, IdsExact, SpansLaidOut, MaskBufExact, InChunk, input,
         position, scan
<1>5. MasksPresent' /\ SeenExact'
  BY DEF ReadCoverage, MasksPresent, SeenExact, Scanned, input, position, scan
<1>6. TailBenign' /\ LoopsIdle'
  BY DEF ReadCoverage, TailBenign, LoopsIdle, input, position, scan
<1> QED BY <1>1, <1>2, <1>3, <1>4, <1>5, <1>6

\* Spans of equal length at distinct places of the buffer do not meet.
LEMMA PlacesApart ==
    ASSUME NEW n \in Nat, NEW a \in Nat, NEW b \in Nat,
           NEW i \in Nat, NEW j \in Nat, i < n, j < n,
           a * n + i = b * n + j
    PROVE  a = b /\ i = j
<1>1. ASSUME NEW c \in Nat, NEW d \in Nat, c < d PROVE c * n + n <= d * n
  <2>1. PICK e \in Nat : d = c + 1 + e
    <3>1. d - c - 1 \in Nat /\ d = c + 1 + (d - c - 1)
      BY <1>1
    <3> QED BY <3>1
  <2>2. d * n = c * n + n + e * n
    BY <2>1
  <2>3. c * n \in Nat /\ e * n \in Nat
    OBVIOUS
  <2> QED BY <2>2, <2>3
<1>2. a * n \in Nat /\ b * n \in Nat
  OBVIOUS
<1>3. ~(a < b)
  BY <1>1, <1>2
<1>4. ~(b < a)
  BY <1>1, <1>2
<1> QED BY <1>2, <1>3, <1>4

\* A span at one of m places of a buffer of m spans does not reach past it.
LEMMA PlaceInside ==
    ASSUME NEW n \in Nat, NEW m \in Nat, NEW a \in 0 .. m - 1, NEW i \in Nat, i < n
    PROVE  a * n \in Nat /\ a * n + i < m * n
<1>1. PICK e \in Nat : m = a + 1 + e
  <2>1. m - a - 1 \in Nat /\ m = a + 1 + (m - a - 1)
    OBVIOUS
  <2> QED BY <2>1
<1>2. m * n = a * n + n + e * n
  BY <1>1
<1>3. a * n \in Nat /\ e * n \in Nat
  OBVIOUS
<1> QED BY <1>2, <1>3

LEMMA LayoutSpansIInv == IInv /\ LayoutSpans => IInv'
<1> SUFFICES ASSUME IInv, LayoutSpans PROVE IInv'
  OBVIOUS
<1> USE DEF IInv
<1> DEFINE n == ChunkLen(chunk)
           m == Cardinality(ids)
<1>0. /\ chunk \in Chunks /\ chunk' = chunk /\ ids' = ids /\ pc = "layout" /\ pc' = "fill"
      /\ ids \in SUBSET Ids /\ bufSize \in Nat /\ maskBuf \in [0 .. bufSize - 1 -> PixelSums]
      /\ keys' = ids
  BY DEF TypeOK, LayoutSpans, position, scan
<1>1. n \in Nat /\ m \in Nat /\ Filled(chunk) = 0 .. n - 1
  <2>1. IsFiniteSet(ids)
    BY <1>0, ValueAssumption, FS_Subset
  <2> QED BY <1>0, <2>1, ChunkGeometry, FS_CardinalityType DEF Filled
<1>2. bufSize' \in Nat /\ bufSize' >= m * n /\ bufSize' >= bufSize
  <2>1. m * n \in Nat
    BY <1>1
  <2>2. bufSize' = IF bufSize >= m * n THEN bufSize
                   ELSE IF 2 * bufSize >= m * n THEN 2 * bufSize ELSE m * n
    BY DEF LayoutSpans, Grown
  <2> HIDE DEF n, m
  <2> QED BY <1>0, <2>1, <2>2
<1>3. PICK place \in [ids -> 0 .. m - 1] :
         /\ \A g, h \in ids : place[g] = place[h] => g = h
         /\ spans' = [h \in ids |-> place[h] * n]
  BY DEF LayoutSpans, SpanOffset
<1>4. maskBuf' \in [0 .. bufSize' - 1 -> PixelSums]
  <2>1. ASSUME NEW j \in 0 .. bufSize' - 1
        PROVE  (IF j < bufSize THEN maskBuf[j] ELSE Uninitialised) \in PixelSums
    BY <1>0, <1>2, SumTypes
  <2>2. maskBuf' = [j \in 0 .. bufSize' - 1 |->
                       IF j < bufSize THEN maskBuf[j] ELSE Uninitialised]
    BY DEF LayoutSpans
  <2> QED BY <2>1, <2>2
<1> HIDE DEF n, m
<1>5. ASSUME NEW h \in ids, NEW i \in Filled(chunk)
      PROVE  spans'[h] \in Nat /\ spans'[h] + i < bufSize' /\ spans'[h] = place[h] * n
  <2>1. place[h] \in 0 .. m - 1 /\ spans'[h] = place[h] * n
    BY <1>3
  <2>2. i \in Nat /\ i < n
    BY <1>1
  <2>3. place[h] * n \in Nat /\ place[h] * n + i < m * n
    BY <1>1, <2>1, <2>2, PlaceInside
  <2>4. m * n \in Nat
    BY <1>1
  <2> QED BY <1>2, <2>1, <2>2, <2>3, <2>4
<1>6. 0 \in Filled(chunk)
  BY <1>0, ChunkGeometry DEF Filled
<1>7. TypeOK'
  <2>1. spans' \in [ids -> Nat]
    BY <1>3, <1>5, <1>6
  <2> QED BY <1>0, <1>2, <1>4, <2>1 DEF TypeOK, LayoutSpans, input, position, scan
<1>8. SpansLaidOut'
  <2>1. ASSUME NEW g \in ids, NEW h \in ids, NEW i \in Filled(chunk), NEW j \in Filled(chunk),
               spans'[g] + i = spans'[h] + j
        PROVE  g = h /\ i = j
    <3>1. place[g] * n + i = place[h] * n + j
      BY <1>5, <2>1
    <3>2. place[g] \in Nat /\ place[h] \in Nat /\ i \in Nat /\ j \in Nat /\ i < n /\ j < n
      BY <1>1, <1>3
    <3>3. place[g] = place[h] /\ i = j
      BY <1>1, <3>1, <3>2, PlacesApart
    <3> QED BY <1>3, <3>3
  <2>2. DOMAIN spans' = ids
    BY <1>3
  <2> QED BY <1>0, <1>5, <2>1, <2>2 DEF SpansLaidOut
<1>9. OutExact' /\ RankBufExact' /\ IdsExact' /\ CovrBufExact'
  BY DEF LayoutSpans, OutExact, Merged, RankBufExact, IdsExact, CovrBufExact, InChunk, input,
         position, scan
<1>10. MaskBufExact'
  BY <1>0 DEF MaskBufExact
<1>11. MasksPresent' /\ SeenExact'
  BY DEF LayoutSpans, MasksPresent, SeenExact, Scanned, input, position, scan
<1>12. TailBenign' /\ LoopsIdle'
  BY DEF LayoutSpans, TailBenign, LoopsIdle, input, position, scan
<1> QED BY <1>7, <1>8, <1>9, <1>10, <1>11, <1>12

LEMMA FillIInv == ASSUME NEW h \in Vals PROVE IInv /\ Fill(h) => IInv'
<1> SUFFICES ASSUME IInv, Fill(h) PROVE IInv'
  OBVIOUS
<1> USE DEF IInv
<1>0. /\ UNCHANGED <<rank, level, chunk, ids, out, spans, bufSize>> /\ pc = "fill" /\ pc' = "fill"
      /\ h \in keys /\ h \in ids /\ keys' = keys \ {h}
      /\ chunk \in Chunks /\ level \in Levels
  BY DEF Fill, TypeOK, position, input, scan
<1>1. /\ h \in DOMAIN out
      /\ DOMAIN spans = ids /\ spans \in [ids -> Nat]
      /\ out \in [DOMAIN out -> [Pixels -> PixelSums]]
      /\ maskBuf \in [0 .. bufSize - 1 -> PixelSums]
  BY <1>0 DEF IdsExact, InChunk, SpansLaidOut, TypeOK, Masks
<1>2. ASSUME NEW i \in Filled(chunk)
      PROVE  <<chunk, i>> \in Pixels /\ i \in Nat
  BY <1>0, ChunkGeometry
<1>3. ASSUME NEW g \in ids, NEW i \in Filled(chunk)
      PROVE  /\ spans[g] + i \in DOMAIN maskBuf
             /\ maskBuf'[spans[g] + i] = IF g = h THEN out[h][<<chunk, i>>] ELSE maskBuf[spans[g] + i]
  <2>0. i \in Nat
    BY <1>0, ChunkGeometry
  <2>1. spans[g] \in Nat /\ spans[h] \in Nat /\ bufSize \in Nat /\ spans[g] + i < bufSize
    BY <1>0, <1>1 DEF SpansLaidOut, TypeOK
  <2>2. spans[g] + i \in DOMAIN maskBuf
    BY <1>1, <2>0, <2>1
  <2>3. CASE g = h
    <3>1. (spans[g] + i) - spans[h] = i
      BY <2>0, <2>1, <2>3
    <3> QED BY <2>2, <2>3, <3>1 DEF Fill, InSpan
  <2>4. CASE g # h
    <3>1. ASSUME InSpan(h, spans[g] + i) PROVE FALSE
      <4>1. PICK j \in Filled(chunk) : j = (spans[g] + i) - spans[h]
        BY <3>1 DEF InSpan
      <4>2. spans[g] + i = spans[h] + j
        BY <1>2, <2>1, <4>1
      <4> QED BY <1>0, <2>4, <4>2 DEF SpansLaidOut
    <3> QED BY <2>2, <2>4, <3>1 DEF Fill
  <2> QED BY <2>2, <2>3, <2>4
<1>4. TypeOK'
  <2>1. ASSUME NEW j \in DOMAIN maskBuf, InSpan(h, j)
        PROVE  out[h][<<chunk, j - spans[h]>>] \in PixelSums
    BY <1>1, <1>2, <2>1 DEF InSpan
  <2>2. maskBuf' \in [0 .. bufSize - 1 -> PixelSums]
    BY <1>1, <2>1 DEF Fill
  <2> QED BY <1>0, <2>2 DEF TypeOK, Fill, input, position, scan
<1>5. MaskBufExact'
  <2> SUFFICES ASSUME NEW g \in ids \ keys', NEW i \in Filled(chunk)
               PROVE  maskBuf'[spans[g] + i] = CoverageOf(rank, g, <<chunk, i>>, level)
    BY <1>0 DEF MaskBufExact, SpanExact
  <2>1. CASE g = h
    <3>1. out[h][<<chunk, i>>] = CoverageOf(rank, h, <<chunk, i>>, Merged(h, chunk))
      BY <1>1, <1>2 DEF OutExact
    <3>2. Merged(h, chunk) = level
      BY <1>0, ChunkGeometry DEF Merged
    <3> QED BY <1>3, <2>1, <3>1, <3>2
  <2>2. CASE g # h
    BY <1>0, <1>3, <2>2 DEF MaskBufExact, SpanExact
  <2> QED BY <2>1, <2>2
<1>6. OutExact'
  BY <1>0 DEF OutExact, Merged
<1>7. RankBufExact' /\ IdsExact' /\ CovrBufExact' /\ SpansLaidOut'
  BY <1>0 DEF Fill, RankBufExact, IdsExact, CovrBufExact, SpansLaidOut, InChunk, input
<1>8. MasksPresent' /\ SeenExact'
  BY <1>0 DEF Fill, MasksPresent, SeenExact, Scanned, input, scan
<1>9. TailBenign' /\ LoopsIdle'
  BY <1>0 DEF Fill, TailBenign, LoopsIdle, input, scan
<1> QED BY <1>4, <1>5, <1>6, <1>7, <1>8, <1>9

LEMMA FillDoneIInv == IInv /\ FillDone => IInv'
<1> SUFFICES ASSUME IInv, FillDone PROVE IInv'
  OBVIOUS
<1> USE DEF IInv
<1>1. TypeOK'
  BY DEF TypeOK, FillDone, input, position, scan, buffer
<1>2. OutExact' /\ RankBufExact' /\ IdsExact' /\ CovrBufExact' /\ SpansLaidOut'
  BY DEF FillDone, OutExact, Merged, RankBufExact, IdsExact, CovrBufExact, SpansLaidOut, InChunk,
         input, position, scan, buffer
<1>3. MaskBufExact'
  BY DEF FillDone, MaskBufExact, SpanExact, input, position, scan, buffer
<1>4. MasksPresent' /\ SeenExact'
  BY DEF FillDone, MasksPresent, SeenExact, Scanned, input, position, scan
<1>5. TailBenign' /\ LoopsIdle'
  BY DEF FillDone, TailBenign, LoopsIdle, input, position, scan
<1> QED BY <1>1, <1>2, <1>3, <1>4, <1>5

LEMMA AccumulateHitIInv == ASSUME NEW i \in Slots PROVE IInv /\ AccumulateHit(i) => IInv'
<1> SUFFICES ASSUME IInv, AccumulateHit(i) PROVE IInv'
  OBVIOUS
<1> USE DEF IInv
<1> DEFINE h == rankBuf[i]
<1>0. /\ UNCHANGED <<rank, level, chunk, ids, out, spans, bufSize>>
      /\ pc = "accumulate" /\ pc' = "accumulate"
      /\ i \in idxs /\ i \in Filled(chunk) /\ idxs' = idxs \ {i}
      /\ chunk \in Chunks /\ level \in Levels
      /\ h # Zero
  BY DEF AccumulateHit, TypeOK, position, input, scan
<1>1. h \in ids
  BY <1>0 DEF AccumulateHit, IdsExact, InChunk, NonZero, TypeOK
<1>2. /\ DOMAIN spans = ids /\ spans \in [ids -> Nat]
      /\ maskBuf \in [0 .. bufSize - 1 -> PixelSums]
      /\ covrBuf[i] = <<level, <<chunk, i>>>> /\ covrBuf[i] \in Tags
      /\ rank[level][<<chunk, i>>] = h
  BY <1>0 DEF SpansLaidOut, TypeOK, CovrBufExact, RankBufExact, InChunk
<1>3. ASSUME NEW g \in ids, NEW j \in Filled(chunk)
      PROVE  /\ spans[g] + j \in DOMAIN maskBuf
             /\ spans[g] + j = spans[h] + i => g = h /\ j = i
  <2>1. spans[g] \in Nat /\ bufSize \in Nat /\ spans[g] + j < bufSize /\ j \in Nat
    BY <1>0, <1>2, ChunkGeometry DEF SpansLaidOut, TypeOK
  <2>2. spans[g] + j \in DOMAIN maskBuf
    BY <1>2, <2>1
  <2>3. spans[g] + j = spans[h] + i => g = h /\ j = i
    BY <1>0, <1>1 DEF SpansLaidOut
  <2> QED BY <2>2, <2>3
<1>4. maskBuf' = [maskBuf EXCEPT ![spans[h] + i] = Plus(maskBuf[spans[h] + i], covrBuf[i])]
  BY DEF AccumulateHit
<1> HIDE DEF h
<1>5. TypeOK'
  <2>1. Plus(maskBuf[spans[h] + i], covrBuf[i]) \in PixelSums
    BY <1>0, <1>1, <1>2, <1>3, SumTypes
  <2>2. maskBuf' \in [0 .. bufSize - 1 -> PixelSums]
    BY <1>2, <1>4, <2>1
  <2> QED BY <1>0, <2>2 DEF TypeOK, AccumulateHit, input, position, scan
<1>6. MaskBufExact'
  <2> SUFFICES ASSUME NEW g \in ids, NEW j \in Filled(chunk)
               PROVE  maskBuf'[spans[g] + j] =
                         CoverageOf(rank, g, <<chunk, j>>, IF j \in idxs' THEN level ELSE level + 1)
    BY <1>0 DEF MaskBufExact, SpanExact
  <2>0. maskBuf[spans[g] + j] =
           CoverageOf(rank, g, <<chunk, j>>, IF j \in idxs THEN level ELSE level + 1)
    BY <1>0 DEF MaskBufExact, SpanExact
  <2>1. CASE j # i
    <3>1. spans[g] + j # spans[h] + i
      BY <1>3, <2>1
    <3>2. maskBuf'[spans[g] + j] = maskBuf[spans[g] + j]
      BY <1>2, <1>3, <1>4, <3>1
    <3>3. j \in idxs' <=> j \in idxs
      BY <1>0, <2>1
    <3> QED BY <2>0, <3>2, <3>3
  <2>2. CASE j = i /\ g = h
    <3>1. maskBuf'[spans[h] + i] = Plus(maskBuf[spans[h] + i], <<level, <<chunk, i>>>>)
      BY <1>0, <1>1, <1>2, <1>3, <1>4
    <3>2. maskBuf[spans[h] + i] = CoverageOf(rank, h, <<chunk, i>>, level)
      BY <1>0, <2>0, <2>2
    <3>3. <<chunk, i>> \in Pixels /\ rank[level][<<chunk, i>>] # Zero
      BY <1>0, <1>2, ChunkGeometry DEF h
    <3>4. CoverageOf(rank, h, <<chunk, i>>, level + 1)
             = Plus(CoverageOf(rank, h, <<chunk, i>>, level), <<level, <<chunk, i>>>>)
      BY <1>0, <1>2, <3>3, CoverageHit DEF h
    <3>5. i \notin idxs'
      BY <1>0
    <3> QED BY <2>2, <3>1, <3>2, <3>4, <3>5
  <2>3. CASE j = i /\ g # h
    <3>1. spans[g] + j # spans[h] + i
      BY <1>3, <2>3
    <3>2. maskBuf'[spans[g] + j] = maskBuf[spans[g] + j]
      BY <1>2, <1>3, <1>4, <3>1
    <3>3. <<chunk, i>> \in Pixels /\ rank[level][<<chunk, i>>] # g
      BY <1>0, <1>2, <2>3, ChunkGeometry DEF h
    <3>4. CoverageOf(rank, g, <<chunk, i>>, level + 1) = CoverageOf(rank, g, <<chunk, i>>, level)
      BY <1>0, <3>3, CoverageMiss
    <3> QED BY <1>0, <2>0, <2>3, <3>2, <3>4
  <2> QED BY <2>1, <2>2, <2>3
<1>7. OutExact'
  BY <1>0 DEF OutExact, Merged
<1>8. RankBufExact' /\ IdsExact' /\ CovrBufExact' /\ SpansLaidOut'
  BY <1>0 DEF AccumulateHit, RankBufExact, IdsExact, CovrBufExact, SpansLaidOut, InChunk, input
<1>9. MasksPresent' /\ SeenExact'
  BY <1>0 DEF AccumulateHit, MasksPresent, SeenExact, Scanned, input, scan
<1>10. TailBenign' /\ LoopsIdle'
  BY <1>0 DEF AccumulateHit, TailBenign, LoopsIdle, input, scan
<1> QED BY <1>5, <1>6, <1>7, <1>8, <1>9, <1>10

LEMMA AccumulateMissIInv == ASSUME NEW i \in Slots PROVE IInv /\ AccumulateMiss(i) => IInv'
<1> SUFFICES ASSUME IInv, AccumulateMiss(i) PROVE IInv'
  OBVIOUS
<1> USE DEF IInv
<1>0. /\ UNCHANGED <<rank, level, chunk, ids, out, spans, bufSize, maskBuf>>
      /\ pc = "accumulate" /\ pc' = "accumulate"
      /\ i \in idxs /\ i \in Filled(chunk) /\ idxs' = idxs \ {i}
      /\ chunk \in Chunks /\ level \in Levels /\ ids \subseteq Ids
  BY DEF AccumulateMiss, TypeOK, position, input, scan, buffer
<1>1. rankBuf[i] \notin ids
  BY <1>0, ValueAssumption DEF AccumulateMiss
<1>2. TypeOK'
  BY <1>0 DEF TypeOK, AccumulateMiss, input, position, scan, buffer
<1>3. MaskBufExact'
  <2> SUFFICES ASSUME NEW g \in ids, NEW j \in Filled(chunk)
               PROVE  maskBuf[spans[g] + j] =
                         CoverageOf(rank, g, <<chunk, j>>, IF j \in idxs' THEN level ELSE level + 1)
    BY <1>0 DEF MaskBufExact, SpanExact
  <2>0. maskBuf[spans[g] + j] =
           CoverageOf(rank, g, <<chunk, j>>, IF j \in idxs THEN level ELSE level + 1)
    BY <1>0 DEF MaskBufExact, SpanExact
  <2>1. CASE j # i
    BY <1>0, <2>0, <2>1
  <2>2. CASE j = i
    <3>1. <<chunk, i>> \in Pixels /\ rank[level][<<chunk, i>>] # g
      BY <1>0, <1>1, ChunkGeometry DEF RankBufExact, InChunk
    <3>2. CoverageOf(rank, g, <<chunk, i>>, level + 1) = CoverageOf(rank, g, <<chunk, i>>, level)
      BY <1>0, <3>1, CoverageMiss
    <3> QED BY <1>0, <2>0, <2>2, <3>2
  <2> QED BY <2>1, <2>2
<1>4. OutExact'
  BY <1>0 DEF OutExact, Merged
<1>5. RankBufExact' /\ IdsExact' /\ CovrBufExact' /\ SpansLaidOut'
  BY <1>0 DEF AccumulateMiss, RankBufExact, IdsExact, CovrBufExact, SpansLaidOut, InChunk, input
<1>6. MasksPresent' /\ SeenExact'
  BY <1>0 DEF AccumulateMiss, MasksPresent, SeenExact, Scanned, input, scan
<1>7. TailBenign' /\ LoopsIdle'
  BY <1>0 DEF AccumulateMiss, TailBenign, LoopsIdle, input, scan
<1> QED BY <1>2, <1>3, <1>4, <1>5, <1>6, <1>7

\* A mask without a span has no pixel in the chunk that this level would change.
LEMMA AccumulateDoneIInv == IInv /\ AccumulateDone => IInv'
<1> SUFFICES ASSUME IInv, AccumulateDone PROVE IInv'
  OBVIOUS
<1> USE DEF IInv
<1>0. /\ UNCHANGED <<rank, overload, request, level, chunk, seen, ids, out, spans, bufSize, maskBuf>>
      /\ pc = "accumulate" /\ pc' = "recompress" /\ keys' = ids /\ idxs = {}
      /\ chunk \in Chunks /\ level \in Levels
  BY DEF AccumulateDone, TypeOK, position, input, scan, buffer
<1>1. TypeOK'
  BY <1>0 DEF TypeOK, AccumulateDone
<1>2. OutExact'
  <2> SUFFICES ASSUME NEW h \in DOMAIN out, NEW p \in Pixels
               PROVE  out[h][p] = CoverageOf(rank, h, p, Merged(h, p[1])')
    BY <1>0 DEF OutExact
  <2>1. out[h][p] = CoverageOf(rank, h, p, Merged(h, p[1]))
    BY DEF OutExact
  <2>2. CASE p[1] = chunk /\ h \notin ids
    <3>1. h = Zero \/ h \notin NonZero(rankBuf)
      BY <1>0, <2>2 DEF IdsExact, InChunk, MasksPresent, TypeOK
    <3>2. h = Zero \/ rank[level][p] # h
      BY <1>0, <2>2, <3>1, UnreportedIsAbsent DEF InChunk
    <3>3. Merged(h, p[1]) = level /\ Merged(h, p[1])' = level + 1
      BY <1>0, <2>2, ChunkGeometry DEF Merged
    <3> QED BY <1>0, <2>1, <3>2, <3>3, CoverageMiss
  <2>3. CASE ~(p[1] = chunk /\ h \notin ids)
    <3>1. Merged(h, p[1]) = Merged(h, p[1])'
      BY <1>0, <2>3 DEF Merged
    <3> QED BY <2>1, <3>1
  <2> QED BY <2>2, <2>3
<1>3. RankBufExact' /\ IdsExact' /\ CovrBufExact' /\ SpansLaidOut'
  BY <1>0 DEF AccumulateDone, RankBufExact, IdsExact, CovrBufExact, SpansLaidOut, InChunk
<1>4. MaskBufExact'
  BY <1>0 DEF MaskBufExact, SpanExact
<1>5. MasksPresent' /\ SeenExact'
  BY <1>0 DEF AccumulateDone, MasksPresent, SeenExact, Scanned
<1>6. TailBenign' /\ LoopsIdle'
  BY <1>0 DEF AccumulateDone, TailBenign, LoopsIdle
<1> QED BY <1>1, <1>2, <1>3, <1>4, <1>5, <1>6

LEMMA RecompressIInv == ASSUME NEW h \in Vals PROVE IInv /\ Recompress(h) => IInv'
<1> SUFFICES ASSUME IInv, Recompress(h) PROVE IInv'
  OBVIOUS
<1> USE DEF IInv
<1>0. /\ UNCHANGED <<rank, overload, request, level, chunk, seen, ids, spans, bufSize, maskBuf, rankBuf>>
      /\ pc = "recompress" /\ pc' = "recompress"
      /\ h \in keys /\ h \in ids /\ keys' = keys \ {h}
      /\ chunk \in Chunks /\ level \in Levels
  BY DEF Recompress, TypeOK, position, input, scan, buffer
<1>1. /\ h \in DOMAIN out /\ DOMAIN spans = ids
      /\ out \in [DOMAIN out -> [Pixels -> PixelSums]]
      /\ maskBuf \in [0 .. bufSize - 1 -> PixelSums]
      /\ bufSize \in Nat /\ spans \in [ids -> Nat]
  BY <1>0 DEF IdsExact, InChunk, SpansLaidOut, TypeOK, Masks
<1>2. /\ DOMAIN out' = DOMAIN out
      /\ \A g \in DOMAIN out \ {h} : out'[g] = out[g]
      /\ \A p \in Pixels : out'[h][p] = IF p[1] = chunk THEN maskBuf[spans[h] + p[2]] ELSE out[h][p]
      /\ out'[h] = [p \in Pixels |-> out'[h][p]]
  BY <1>1 DEF Recompress
<1>3. ASSUME NEW p \in Pixels, p[1] = chunk
      PROVE  /\ p[2] \in Filled(chunk) /\ p = <<chunk, p[2]>>
             /\ spans[h] + p[2] \in DOMAIN maskBuf
             /\ maskBuf[spans[h] + p[2]] = CoverageOf(rank, h, p, level + 1)
  <2>1. p[2] \in Filled(chunk) /\ p = <<chunk, p[2]>>
    BY <1>3, PixelGeometry
  <2>2. p[2] \in Nat
    BY <1>0, <2>1, ChunkGeometry
  <2>3. spans[h] + p[2] < bufSize /\ spans[h] \in Nat
    BY <1>0, <1>1, <2>1 DEF SpansLaidOut
  <2>4. spans[h] + p[2] \in DOMAIN maskBuf
    BY <1>1, <2>2, <2>3
  <2>5. maskBuf[spans[h] + p[2]] = CoverageOf(rank, h, p, level + 1)
    BY <1>0, <2>1 DEF MaskBufExact, SpanExact
  <2> QED BY <2>1, <2>4, <2>5
<1>4. TypeOK'
  <2>1. ASSUME NEW p \in Pixels PROVE out'[h][p] \in PixelSums
    <3>1. CASE p[1] = chunk
      <4>1. out'[h][p] = maskBuf[spans[h] + p[2]]
        BY <1>2, <3>1
      <4>2. spans[h] + p[2] \in 0 .. bufSize - 1
        BY <1>1, <1>3, <3>1
      <4> QED BY <1>1, <4>1, <4>2
    <3>2. CASE p[1] # chunk
      BY <1>1, <1>2, <3>2
    <3> QED BY <3>1, <3>2
  <2>2. out'[h] \in Masks
    BY <1>2, <2>1 DEF Masks
  <2>3. \A g \in DOMAIN out : out'[g] \in Masks
    BY <1>1, <1>2, <2>2 DEF Masks
  <2>4. out' \in [DOMAIN out' -> Masks]
    BY <1>2, <2>3 DEF Recompress
  <2> QED BY <1>0, <1>2, <2>4 DEF TypeOK, Recompress
<1>5. OutExact'
  <2> SUFFICES ASSUME NEW g \in DOMAIN out, NEW p \in Pixels
               PROVE  out'[g][p] = CoverageOf(rank, g, p, Merged(g, p[1])')
    BY <1>0, <1>2 DEF OutExact
  <2>1. out[g][p] = CoverageOf(rank, g, p, Merged(g, p[1]))
    BY DEF OutExact
  <2>2. CASE g = h /\ p[1] = chunk
    <3>1. Merged(g, p[1])' = level + 1
      BY <1>0, <2>2 DEF Merged
    <3> QED BY <1>2, <1>3, <2>2, <3>1
  <2>3. CASE ~(g = h /\ p[1] = chunk)
    <3>1. Merged(g, p[1])' = Merged(g, p[1])
      BY <1>0, <2>3 DEF Merged
    <3>2. out'[g][p] = out[g][p]
      BY <1>2, <2>3
    <3> QED BY <2>1, <3>1, <3>2
  <2> QED BY <2>2, <2>3
<1>6. RankBufExact' /\ IdsExact' /\ CovrBufExact' /\ SpansLaidOut' /\ MaskBufExact'
  BY <1>0, <1>2 DEF Recompress, RankBufExact, IdsExact, CovrBufExact, SpansLaidOut, MaskBufExact,
                    SpanExact, InChunk
<1>7. MasksPresent' /\ SeenExact'
  BY <1>0, <1>2 DEF MasksPresent, SeenExact, Scanned
<1>8. TailBenign' /\ LoopsIdle'
  BY <1>0, <1>2 DEF Recompress, TailBenign, LoopsIdle
<1> QED BY <1>4, <1>5, <1>6, <1>7, <1>8

LEMMA RecompressDoneIInv == IInv /\ RecompressDone => IInv'
<1> SUFFICES ASSUME IInv, RecompressDone PROVE IInv'
  OBVIOUS
<1> USE DEF IInv
<1>1. TypeOK' /\ LoopsIdle'
  BY DEF TypeOK, LoopsIdle, RecompressDone, input, position, scan, buffer
<1>2. OutExact'
  <2> SUFFICES ASSUME NEW h \in DOMAIN out, NEW p \in Pixels
               PROVE  out[h][p] = CoverageOf(rank, h, p, Merged(h, p[1])')
    BY DEF OutExact, RecompressDone, input
  <2>1. Merged(h, p[1])' = Merged(h, p[1])
    BY DEF RecompressDone, Merged, position
  <2> QED BY <2>1 DEF OutExact
<1>3. RankBufExact' /\ IdsExact' /\ CovrBufExact' /\ SpansLaidOut' /\ MaskBufExact'
  BY DEF RecompressDone, RankBufExact, IdsExact, CovrBufExact, SpansLaidOut, MaskBufExact, InChunk
<1>4. MasksPresent' /\ SeenExact'
  BY DEF RecompressDone, MasksPresent, SeenExact, Scanned, input, position, scan
<1>5. TailBenign'
  BY DEF RecompressDone, TailBenign, input, position, scan
<1> QED BY <1>1, <1>2, <1>3, <1>4, <1>5

LEMMA NextChunkIInv == IInv /\ NextChunk => IInv'
<1> SUFFICES ASSUME IInv, NextChunk PROVE IInv'
  OBVIOUS
<1> USE DEF IInv
<1>0. /\ UNCHANGED <<rank, overload, request, level, rankBuf, seen, ids, out>>
      /\ pc = "next" /\ pc' = "rank" /\ chunk' = chunk + 1
      /\ chunk \in Nat /\ chunk' \in Chunks /\ level \in Levels
      /\ idxs = {} /\ idxs' = {}
  BY ChunkGeometry, GeometryAssumption DEF NextChunk, TypeOK, LoopsIdle, input, scan, Chunks
<1>1. TypeOK' /\ LoopsIdle'
  BY <1>0 DEF TypeOK, LoopsIdle, NextChunk, input, scan, buffer
<1>2. ASSUME NEW p \in Pixels
      PROVE  p[1] \in Nat /\ (p[1] < chunk' <=> p[1] < chunk \/ p[1] = chunk)
  BY <1>0, PixelGeometry, ChunkGeometry
<1>3. OutExact'
  <2> SUFFICES ASSUME NEW h \in DOMAIN out, NEW p \in Pixels
               PROVE  out[h][p] = CoverageOf(rank, h, p, Merged(h, p[1])')
    BY <1>0 DEF OutExact
  <2>1. Merged(h, p[1])' = Merged(h, p[1])
    BY <1>0, <1>2 DEF Merged
  <2> QED BY <2>1 DEF OutExact
<1>4. RankBufExact' /\ IdsExact' /\ CovrBufExact' /\ SpansLaidOut' /\ MaskBufExact'
  BY <1>0 DEF RankBufExact, IdsExact, CovrBufExact, SpansLaidOut, MaskBufExact, InChunk
<1>5. ASSUME NEW l \in Levels, NEW p \in Pixels, Scanned(l, p)' PROVE Scanned(l, p)
  BY <1>0, <1>2, <1>5 DEF Scanned
<1>6. MasksPresent' /\ SeenExact'
  BY <1>0, <1>5 DEF MasksPresent, SeenExact
<1>7. TailBenign'
  BY <1>0 DEF TailBenign
<1> QED BY <1>1, <1>3, <1>4, <1>6, <1>7

\* After the last chunk everything of the level has been scanned.
LEMMA LevelScanned ==
    ASSUME IInv, pc \in {"next", "done"}, chunk + 1 = NumChunks, NEW p \in Pixels
    PROVE  /\ Scanned(level, p)
           /\ \A h : Merged(h, p[1]) = level + 1
<1>1. chunk \in Nat /\ p[1] \in Nat /\ (p[1] < chunk \/ p[1] = chunk)
  BY PixelGeometry, ChunkGeometry, GeometryAssumption DEF IInv, TypeOK, Chunks
<1> QED BY <1>1 DEF Scanned, Merged

LEMMA NextLevelIInv == IInv /\ NextLevel => IInv'
<1> SUFFICES ASSUME IInv, NextLevel PROVE IInv'
  OBVIOUS
<1>0. /\ UNCHANGED <<rank, overload, request, rankBuf, ids, out>>
      /\ pc = "next" /\ pc' = "rank" /\ chunk' = 0 /\ chunk + 1 = NumChunks
      /\ level' = level + 1 /\ level \in Nat /\ level' \in Levels
      /\ seen # {} /\ seen' = {} /\ idxs = {} /\ idxs' = {}
  BY LevelsNat, GeometryAssumption DEF IInv, NextLevel, TypeOK, LoopsIdle, input, Levels
<1>1. TypeOK' /\ LoopsIdle'
  BY <1>0, LevelsNat DEF IInv, TypeOK, LoopsIdle, NextLevel, input, buffer
<1>2. ASSUME NEW p \in Pixels
      PROVE  p[1] \in Nat /\ ~(p[1] < chunk')
  BY <1>0, PixelGeometry, ChunkGeometry
<1>3. OutExact'
  <2> SUFFICES ASSUME NEW h \in DOMAIN out, NEW p \in Pixels
               PROVE  out[h][p] = CoverageOf(rank, h, p, Merged(h, p[1])')
    BY <1>0 DEF OutExact
  <2>1. Merged(h, p[1])' = level + 1
    BY <1>0, <1>2 DEF Merged
  <2>2. Merged(h, p[1]) = level + 1
    BY <1>0, LevelScanned
  <2> QED BY <2>1, <2>2 DEF IInv, OutExact
<1>4. RankBufExact' /\ IdsExact' /\ CovrBufExact' /\ SpansLaidOut' /\ MaskBufExact'
  BY <1>0 DEF RankBufExact, IdsExact, CovrBufExact, SpansLaidOut, MaskBufExact, InChunk
<1>5. ASSUME NEW l \in Levels, NEW p \in Pixels, Scanned(l, p)' PROVE l # level' /\ Scanned(l, p)
  <2>1. l < level + 1 /\ l \in Nat
    BY <1>0, <1>2, <1>5, LevelsNat DEF Scanned
  <2>2. l < level \/ l = level
    BY <1>0, <2>1
  <2>3. Scanned(l, p)
    BY <1>0, <2>2, LevelScanned DEF Scanned
  <2> QED BY <1>0, <2>1, <2>3
<1>6. MasksPresent'
  BY <1>0, <1>5 DEF IInv, MasksPresent
<1>7. SeenExact'
  BY <1>0, <1>5 DEF SeenExact
<1>8. TailBenign'
  <2> SUFFICES ASSUME FullFirstChunk PROVE TailBenign'
    BY DEF TailBenign
  <2>1. \E p \in Pixels : rank[level][p] # Zero
    BY <1>0 DEF IInv, TailBenign
  <2>2. ASSUME NEW m \in Levels, m < level' PROVE ~BlankLevel(rank, m)
    <3>1. m < level \/ m = level
      BY <1>0, <2>2, LevelsNat
    <3> QED BY <2>1, <3>1 DEF IInv, TailBenign, BlankLevel
  <2>3. ASSUME NEW l \in Levels, l <= level PROVE l <= level'
    BY <1>0, <2>3, LevelsNat
  <2> QED BY <1>0, <2>2, <2>3 DEF IInv, TailBenign
<1> QED BY <1>1, <1>3, <1>4, <1>6, <1>7, <1>8 DEF IInv

LEMMA FinishIInv == IInv /\ Finish => IInv'
<1> SUFFICES ASSUME IInv, Finish PROVE IInv'
  OBVIOUS
<1> USE DEF IInv
<1>1. TypeOK' /\ LoopsIdle'
  BY DEF TypeOK, LoopsIdle, Finish, input, position, scan, buffer
<1>2. OutExact'
  <2> SUFFICES ASSUME NEW h \in DOMAIN out, NEW p \in Pixels
               PROVE  out[h][p] = CoverageOf(rank, h, p, Merged(h, p[1])')
    BY DEF OutExact, Finish, input
  <2>1. Merged(h, p[1])' = Merged(h, p[1])
    BY DEF Finish, Merged, position
  <2> QED BY <2>1 DEF OutExact
<1>3. RankBufExact' /\ IdsExact' /\ CovrBufExact' /\ SpansLaidOut' /\ MaskBufExact'
  BY DEF Finish, RankBufExact, IdsExact, CovrBufExact, SpansLaidOut, MaskBufExact, InChunk
<1>4. MasksPresent' /\ SeenExact'
  BY DEF Finish, MasksPresent, SeenExact, Scanned, input, position, scan
<1>5. TailBenign'
  BY DEF Finish, TailBenign, input, position, scan
<1> QED BY <1>1, <1>2, <1>3, <1>4, <1>5

LEMMA StutterIInv == IInv /\ UNCHANGED vars => IInv'
<1> SUFFICES ASSUME IInv, UNCHANGED vars PROVE IInv'
  OBVIOUS
<1> USE DEF IInv, vars
<1>1. TypeOK' /\ LoopsIdle' /\ OutExact' /\ RankBufExact' /\ IdsExact' /\ CovrBufExact'
  BY DEF TypeOK, LoopsIdle, OutExact, Merged, RankBufExact, IdsExact, CovrBufExact, InChunk
<1>2. SpansLaidOut' /\ MaskBufExact' /\ MasksPresent' /\ SeenExact' /\ TailBenign'
  BY DEF SpansLaidOut, MaskBufExact, SpanExact, MasksPresent, SeenExact, Scanned, TailBenign
<1> QED BY <1>1, <1>2

LEMMA NextIInv == IInv /\ [Next]_vars => IInv'
<1> SUFFICES ASSUME IInv, [Next]_vars PROVE IInv'
  OBVIOUS
<1>1. CASE BeginRequested \/ BeginAll \/ ReadRank \/ ScanRequested \/ ScanAll
  BY <1>1, BeginRequestedIInv, BeginAllIInv, ReadRankIInv, ScanRequestedIInv, ScanAllIInv
<1>2. CASE ReadCoverage \/ LayoutSpans
  BY <1>2, ReadCoverageIInv, LayoutSpansIInv
<1>3. CASE \E h \in Vals : Fill(h) \/ Recompress(h)
  BY <1>3, FillIInv, RecompressIInv
<1>4. CASE \E i \in Slots : AccumulateHit(i) \/ AccumulateMiss(i)
  BY <1>4, AccumulateHitIInv, AccumulateMissIInv
<1>5. CASE FillDone \/ AccumulateDone \/ RecompressDone
  BY <1>5, FillDoneIInv, AccumulateDoneIInv, RecompressDoneIInv
<1>6. CASE NextChunk \/ NextLevel \/ Finish
  BY <1>6, NextChunkIInv, NextLevelIInv, FinishIInv
<1>7. CASE UNCHANGED vars
  BY <1>7, StutterIInv
<1> QED BY <1>1, <1>2, <1>3, <1>4, <1>5, <1>6, <1>7 DEF Next, Terminated

-----------------------------------------------------------------------------
(* What the invariant says of the result. *)

\* When the loop has ended, the levels it read are the reached ones.
LEMMA ReachedWhenDone ==
    ASSUME IInv, pc = "done", FullFirstChunk,
           NEW l \in Levels, \E p \in Pixels : rank[l][p] # Zero
    PROVE  Reached(l) <=> l < level + 1
<1>0. level \in Nat /\ l \in Nat /\ level \in Levels
  BY LevelsNat DEF IInv, TypeOK
<1>1. ASSUME l < level + 1 PROVE Reached(l)
  <2> SUFFICES ASSUME NEW m \in Levels, m < l PROVE ~BlankLevel(rank, m)
    BY DEF Reached
  <2>1. m < level
    BY <1>0, <1>1, LevelsNat
  <2> QED BY <2>1 DEF IInv, TailBenign
<1>2. ASSUME Reached(l), ~(l < level + 1) PROVE FALSE
  <2>1. level + 1 # NumLevels /\ level < l
    BY <1>0, <1>2, GeometryAssumption DEF Levels
  <2>2. seen = {} /\ chunk + 1 = NumChunks
    BY <2>1 DEF IInv, SeenExact
  <2>3. BlankLevel(rank, level)
    BY <2>2, LevelScanned DEF IInv, SeenExact, BlankLevel
  <2> QED BY <1>0, <1>2, <2>1, <2>3 DEF Reached
<1> QED BY <1>1, <1>2

LEMMA IInvCoverage == IInv => CoverageExact
<1> SUFFICES ASSUME IInv, FullFirstChunk, pc = "done",
                    NEW h \in DOMAIN out, NEW p \in Pixels, NEW t \in Tags
             PROVE  out[h][p][t] = IF \E l \in Levels : /\ t = <<l, p>> /\ rank[l][p] = h
                                                       /\ h # Zero /\ Reached(l)
                                   THEN 1 ELSE 0
  BY DEF CoverageExact
<1>1. chunk + 1 = NumChunks
  BY DEF IInv, SeenExact
<1>2. out[h][p] = CoverageOf(rank, h, p, level + 1)
  BY <1>1, LevelScanned DEF IInv, OutExact
<1>3. ASSUME NEW l \in Levels, rank[l][p] = h, h # Zero PROVE Reached(l) <=> l < level + 1
  BY <1>3, ReachedWhenDone
<1> QED BY <1>2, <1>3 DEF CoverageOf

LEMMA IInvMaskSet == IInv => MaskSetExact
<1> SUFFICES ASSUME IInv, pc = "done" PROVE MaskSetExact
  BY DEF MaskSetExact
<1>1. CASE overload = "hashes"
  BY <1>1 DEF IInv, MasksPresent, MaskSetExact
<1>2. CASE overload # "hashes"
  <2>0. overload = "all" /\ level \in Levels /\ chunk + 1 = NumChunks
    BY <1>2 DEF IInv, TypeOK, SeenExact
  <2> SUFFICES ASSUME FullFirstChunk
               PROVE  DOMAIN out =
                         {rank[l][p] : l \in {m \in Levels : Reached(m)}, p \in Pixels} \ {Zero}
    BY <1>2 DEF MaskSetExact
  <2>1. ASSUME NEW h \in DOMAIN out
        PROVE  h # Zero /\ \E l \in Levels, p \in Pixels : Reached(l) /\ rank[l][p] = h
    <3>1. h # Zero
      BY <2>0 DEF IInv, TailBenign
    <3>2. PICK l \in Levels, p \in Pixels : l <= level /\ rank[l][p] = h
      BY <2>0 DEF IInv, TailBenign
    <3>3. l < level + 1
      BY <2>0, <3>2, LevelsNat
    <3> QED BY <3>1, <3>2, <3>3, ReachedWhenDone
  <2>2. ASSUME NEW l \in Levels, NEW p \in Pixels, Reached(l), rank[l][p] # Zero
        PROVE  rank[l][p] \in DOMAIN out
    <3>1. l < level \/ l = level
      BY <2>0, <2>2, ReachedWhenDone, LevelsNat
    <3>2. Scanned(l, p)
      BY <2>0, <3>1, LevelScanned DEF Scanned
    <3> QED BY <2>0, <2>2, <3>2 DEF IInv, MasksPresent
  <2> DEFINE Shown == {rank[l][p] : l \in {m \in Levels : Reached(m)}, p \in Pixels} \ {Zero}
  <2>3. DOMAIN out \subseteq Shown
    BY <2>1
  <2>4. Shown \subseteq DOMAIN out
    BY <2>2
  <2> HIDE DEF Shown
  <2>5. DOMAIN out = Shown
    BY <2>3, <2>4
  <2> QED BY <2>5 DEF Shown
<1> QED BY <1>1, <1>2

LEMMA IInvSpans == IInv => SpansDisjoint
BY DEF IInv, SpansLaidOut, SpansDisjoint

LEMMA IInvLookups == IInv => LookupsSucceed
<1> SUFFICES ASSUME IInv PROVE LookupsSucceed
  OBVIOUS
<1>1. pc \in {"fill", "recompress"} => keys \subseteq DOMAIN out
  BY DEF IInv, TypeOK, IdsExact, InChunk
<1>2. ASSUME pc = "accumulate", NEW i \in idxs, rankBuf[i] # Zero,
             overload = "all" \/ rankBuf[i] \in request
      PROVE  rankBuf[i] \in DOMAIN spans
  <2>1. i \in DOMAIN rankBuf
    BY ChunkGeometry DEF IInv, TypeOK
  <2>2. rankBuf[i] \in NonZero(rankBuf)
    BY <1>2, <2>1 DEF NonZero
  <2> QED BY <1>2, <2>2 DEF IInv, IdsExact, InChunk, SpansLaidOut
<1> QED BY <1>1, <1>2 DEF LookupsSucceed

\* No step takes samples away from a mask.
LEMMA StepKeepsCoverage ==
    ASSUME IInv, IInv', [Next]_vars, NEW h \in DOMAIN out
    PROVE  h \in DOMAIN out' /\ \A p \in Pixels, t \in Tags : out'[h][p][t] >= out[h][p][t]
<1>0. rank' = rank
  BY DEF Next, vars, BeginRequested, BeginAll, ReadRank, ScanRequested, ScanAll, ReadCoverage,
         LayoutSpans, Fill, FillDone, AccumulateHit, AccumulateMiss, AccumulateDone, Recompress,
         RecompressDone, NextChunk, NextLevel, Finish, Terminated, input
<1>1. CASE out' = out
  <2>1. ASSUME NEW p \in Pixels, NEW t \in Tags PROVE out[h][p][t] \in Nat
    BY DEF IInv, TypeOK, Masks, PixelSums
  <2> QED BY <1>1, <2>1
<1>2. CASE out' # out
  <2>1. BeginRequested \/ ScanAll \/ \E g \in Vals : Recompress(g)
    BY <1>2 DEF Next, vars, BeginAll, ReadRank, ScanRequested, ReadCoverage, LayoutSpans, Fill,
                FillDone, AccumulateHit, AccumulateMiss, AccumulateDone, RecompressDone, NextChunk,
                NextLevel, Finish, Terminated
  <2>2. ~BeginRequested
    BY DEF BeginRequested, IInv, MasksPresent
  <2>3. /\ DOMAIN out \subseteq DOMAIN out'
        /\ level' = level /\ chunk' = chunk
        /\ \/ pc = "scan" /\ pc' \in {"next", "coverage"}
           \/ pc = "recompress" /\ pc' = "recompress" /\ keys' \subseteq keys
    BY <2>1, <2>2 DEF ScanAll, Recompress, position, IInv, TypeOK
  <2>4. ASSUME NEW p \in Pixels, NEW t \in Tags PROVE out'[h][p][t] >= out[h][p][t]
    <3>1. /\ out[h][p] = CoverageOf(rank, h, p, Merged(h, p[1]))
          /\ out'[h][p] = CoverageOf(rank, h, p, Merged(h, p[1])')
      BY <1>0, <2>3 DEF IInv, OutExact
    <3>2. ASSUME NEW l \in Levels, l < Merged(h, p[1]) PROVE l < Merged(h, p[1])'
      <4>1. level \in Nat /\ l \in Nat
        BY LevelsNat DEF IInv, TypeOK
      <4> QED BY <2>3, <3>2, <4>1 DEF Merged
    <3> QED BY <3>1, <3>2 DEF CoverageOf
  <2> QED BY <2>3, <2>4
<1> QED BY <1>1, <1>2

-----------------------------------------------------------------------------
(* The detailed specification implements the one-step extraction. *)

ObjectsAsked == IF overload = "hashes" THEN request ELSE IdsOf(rank)

\* On a cascading picture every level that shows an id is reached, so the result
\* is the extraction's.
LEMMA ResultWhenDone ==
    IInv /\ pc = "done" /\ FullFirstChunk /\ Cascading(rank) =>
        out = [h \in ObjectsAsked |-> [p \in Pixels |-> CoverageOf(rank, h, p, NumLevels)]]
<1> SUFFICES ASSUME IInv, pc = "done", FullFirstChunk, Cascading(rank)
             PROVE  out = [h \in ObjectsAsked |->
                              [p \in Pixels |-> CoverageOf(rank, h, p, NumLevels)]]
  OBVIOUS
<1>1. ASSUME NEW l \in Levels, NEW p \in Pixels, rank[l][p] # Zero
      PROVE  Reached(l)
  BY <1>1 DEF Cascading, BlankLevel, Reached
<1>2. DOMAIN out = ObjectsAsked
  <2>1. CASE overload = "hashes"
    BY <2>1, IInvMaskSet DEF MaskSetExact, ObjectsAsked
  <2>2. CASE overload # "hashes"
    <3>1. DOMAIN out = {rank[l][p] : l \in {m \in Levels : Reached(m)}, p \in Pixels} \ {Zero}
      BY <2>2, IInvMaskSet DEF MaskSetExact
    <3>2. {rank[l][p] : l \in {m \in Levels : Reached(m)}, p \in Pixels} \ {Zero} = IdsOf(rank)
      BY <1>1 DEF IdsOf
    <3> QED BY <2>2, <3>1, <3>2 DEF ObjectsAsked
  <2> QED BY <2>1, <2>2
<1>3. ASSUME NEW h \in DOMAIN out, NEW p \in Pixels
      PROVE  out[h][p] = CoverageOf(rank, h, p, NumLevels)
  <2>1. chunk + 1 = NumChunks
    BY DEF IInv, SeenExact
  <2>2. out[h][p] = CoverageOf(rank, h, p, level + 1)
    BY <2>1, LevelScanned DEF IInv, OutExact
  <2>3. ASSUME NEW l \in Levels, rank[l][p] = h, h # Zero
        PROVE  l < level + 1 /\ l < NumLevels
    BY <1>1, <2>3, ReachedWhenDone, GeometryAssumption DEF Levels
  <2> QED BY <2>2, <2>3 DEF CoverageOf
<1>4. ASSUME NEW h \in DOMAIN out
      PROVE  out[h] = [p \in Pixels |-> CoverageOf(rank, h, p, NumLevels)]
  <2>1. out[h] \in Masks
    BY DEF IInv, TypeOK
  <2> QED BY <1>3, <2>1 DEF Masks
<1>5. out = [h \in DOMAIN out |-> out[h]]
  BY DEF IInv, TypeOK
<1> QED BY <1>2, <1>4, <1>5

\* Every step is an answer or leaves what a caller sees unchanged.
LEMMA StepImplements ==
    ASSUME IInv, [Next]_vars,
           pc' = "done" => out' = [h \in ObjectsAsked' |->
                               [p \in Pixels |-> CoverageOf(rank', h, p, NumLevels)]]
    PROVE  [Extraction!Answer]_Extraction!vars
<1>1. rank' = rank /\ overload' = overload /\ request' = request
  BY DEF Next, vars, BeginRequested, BeginAll, ReadRank, ScanRequested, ScanAll, ReadCoverage,
         LayoutSpans, Fill, FillDone, AccumulateHit, AccumulateMiss, AccumulateDone, Recompress,
         RecompressDone, NextChunk, NextLevel, Finish, Terminated, input
<1>2. CASE pc = "done"
  <2>1. UNCHANGED vars
    BY <1>2 DEF Next, vars, BeginRequested, BeginAll, ReadRank, ScanRequested, ScanAll,
         ReadCoverage, LayoutSpans, Fill, FillDone, AccumulateHit, AccumulateMiss, AccumulateDone,
         Recompress, RecompressDone, NextChunk, NextLevel, Finish, Terminated
  <2> QED BY <2>1 DEF vars, Extraction!vars
<1>3. CASE pc # "done" /\ pc' # "done"
  BY <1>1, <1>3 DEF Extraction!vars
<1>4. CASE pc # "done" /\ pc' = "done"
  <2>1. out' = [h \in ObjectsAsked |->
                   [p \in Pixels |-> CoverageOf(rank, h, p, NumLevels)]]
    BY <1>1, <1>4 DEF ObjectsAsked
  <2> QED BY <1>1, <1>4, <2>1
          DEF Extraction!Answer, Extraction!Objects, ObjectsAsked, IdsOf, Extraction!IdsOf,
              CoverageOf, Extraction!CoverageOf, Pixels, Extraction!Pixels, Levels,
              Extraction!Levels, Tags, Extraction!Tags, Samples, Extraction!Samples, Chunks,
              Extraction!Chunks, Slots, Extraction!Slots, ChunkLen, Extraction!ChunkLen
<1> QED BY <1>2, <1>3, <1>4

-----------------------------------------------------------------------------
(* The theorems. *)

\* The invariant holds throughout every call.
LEMMA Invariance == Spec => []IInv
BY InitIInv, NextIInv, PTL DEF Spec

\* Every variable keeps its type, for every geometry, picture and request.
THEOREM TypeCorrect == Spec => []TypeOK
<1>1. IInv => TypeOK
  BY DEF IInv
<1> QED BY <1>1, Invariance, PTL

\* Every mask a call returns holds exactly the coverage of its object on the
\* reached levels: masks_compressed loses, repeats and misplaces nothing.
THEOREM CoverageCorrect == Spec => []CoverageExact
BY IInvCoverage, Invariance, PTL

\* The call returns a mask for each id asked for, or for each id of the reached
\* levels, and no other.
THEOREM MaskSetCorrect == Spec => []MaskSetExact
BY IInvMaskSet, Invariance, PTL

\* The spans of the mask buffer stay apart and inside it, so no two parallel
\* iterations meet in an element.
THEOREM ParallelLoopsSafe == Spec => []SpansDisjoint
BY IInvSpans, Invariance, PTL

\* The unguarded lookups in the parallel loops, of a span and of a mask, succeed.
THEOREM LookupsSafe == Spec => []LookupsSucceed
BY IInvLookups, Invariance, PTL

\* No step of the loop takes coverage away from a mask.
THEOREM CoverageNeverLost == Spec => CoverageKept
<1>1. IInv /\ IInv' /\ [Next]_vars =>
         [\A h \in DOMAIN out :
             /\ h \in DOMAIN out'
             /\ \A p \in Pixels, t \in Tags : out'[h][p][t] >= out[h][p][t]]_vars
  BY StepKeepsCoverage
<1> QED BY <1>1, Invariance, PTL DEF Spec, CoverageKept

\* If the first chunk fills the scanned buffer and the pictures cascade, the chunked,
\* parallel extraction is seen by its caller as the one-step extraction: it starts
\* as that does, and each of its steps answers correctly or changes nothing.
THEOREM ExtractionImplemented ==
    ASSUME FullFirstChunk, \A r \in RankData : Cascading(r)
    PROVE  Spec => Extraction!Init /\ [][Extraction!Answer]_Extraction!vars
<1>1. Init => Extraction!Init
  BY DEF Init, Extraction!Init
<1>2. Init => rank \in RankData
  BY DEF Init
<1>3. rank \in RankData /\ [Next]_vars => (rank \in RankData)'
  BY DEF Next, vars, BeginRequested, BeginAll, ReadRank, ScanRequested, ScanAll, ReadCoverage,
         LayoutSpans, Fill, FillDone, AccumulateHit, AccumulateMiss, AccumulateDone, Recompress,
         RecompressDone, NextChunk, NextLevel, Finish, Terminated, input
<1>4. IInv /\ pc = "done" /\ rank \in RankData =>
         out = [h \in ObjectsAsked |-> [p \in Pixels |-> CoverageOf(rank, h, p, NumLevels)]]
  BY ResultWhenDone
<1>5. IInv /\ [Next]_vars /\ (pc = "done" =>
            out = [h \in ObjectsAsked |-> [p \in Pixels |-> CoverageOf(rank, h, p, NumLevels)]])'
         => [Extraction!Answer]_Extraction!vars
  BY StepImplements
<1> QED BY <1>1, <1>2, <1>3, <1>4, <1>5, Invariance, PTL DEF Spec
=============================================================================
