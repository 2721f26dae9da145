---------------------------- MODULE MasksCompressed ----------------------------
(***************************************************************************)
(* cryptomatte::masks_compressed(hashes) and masks_compressed(): decode    *)
(* the masks of the requested ids, or of every id, into lazily filled      *)
(* compressed channels, one chunk of one rank-coverage pair at a time.     *)
(*                                                                         *)
(* For each chunk the calling thread reads the ranks, collects their ids,  *)
(* reads the coverage, lays out one span per id in a shared mask buffer,   *)
(* and runs three parallel loops: fill each span from its mask, add each   *)
(* pixel's coverage to the span of its id, write each span back.  The      *)
(* iterations of such a loop may run in any order; the loop returns when   *)
(* all have run.                                                           *)
(***************************************************************************)
EXTENDS RankCoverage

CONSTANTS
    RankData,    \* the rank pictures the cryptomatte may hold
    Requests     \* the hash sets callers ask for

ASSUME InputAssumption ==
    /\ RankData \subseteq RankPictures
    /\ Requests \subseteq SUBSET Vals

VARIABLES
    rank,       \* rank[l][p]: pixel p of the l-th rank channel
    overload,   \* "hashes": masks_compressed(hashes), "all": masks_compressed()
    request,    \* the hashes asked for
    pc,         \* where the calling thread is
    level,      \* the rank-coverage pair being read
    chunk,      \* chunk_idx
    rankBuf,    \* rank_chunk
    covrBuf,    \* covr_chunk
    seen,       \* hashes_in_rank_channel
    ids,        \* ids_in_chunk / ids_in_chunk_isection
    out,        \* the masks produced so far, by id
    bufSize,    \* _mask_buffer.size()
    maskBuf,    \* _mask_buffer
    spans,      \* mask_spans: where in maskBuf each id's span starts
    keys,       \* iterations left of the loop over mask_spans
    idxs        \* iterations left of the loop over the pixels of the chunk

input == <<rank, overload, request>>
position == <<level, chunk>>
scan == <<seen, ids>>
buffer == <<bufSize, maskBuf>>
vars == <<rank, overload, request, pc, level, chunk, rankBuf, covrBuf, seen, ids, out,
          bufSize, maskBuf, spans, keys, idxs>>

InSpan(h, j) == j - spans[h] \in Filled(chunk)

\* Mutant of SpanOffset: spans an element too close.
SpanOffsetTight(place, elems) == place * (elems - 1)

\* Where the span of the place-th id of a chunk of that many elements starts.
SpanOffset(place, elems) == place * elems

\* The mask buffer at least doubles when it grows.
Grown(size, needed) ==
    IF size >= needed THEN size ELSE IF 2 * size >= needed THEN 2 * size ELSE needed

-----------------------------------------------------------------------------
Init ==
    /\ rank \in RankData
    /\ \/ overload = "hashes" /\ request \in Requests
       \/ overload = "all" /\ request = {}
    /\ pc = "begin"
    /\ level = 0
    /\ chunk = 0
    /\ rankBuf \in [Slots -> Vals]      \* default_init_vector: not initialised
    /\ covrBuf = [i \in Slots |-> Junk]
    /\ seen = {}
    /\ ids = {}
    /\ out = <<>>
    /\ bufSize = 0
    /\ maskBuf = <<>>
    /\ spans = <<>>
    /\ keys = {}
    /\ idxs = {}

\* One zero channel per requested hash, whether or not it occurs.
BeginRequested ==
    /\ pc = "begin"
    /\ overload = "hashes"
    /\ out' = [h \in request |-> ZeroMask]
    /\ pc' = "rank"
    /\ UNCHANGED <<input, position, rankBuf, covrBuf, scan, buffer, spans, keys, idxs>>

\* The other overload creates its channels on demand.
BeginAll ==
    /\ pc = "begin"
    /\ overload = "all"
    /\ pc' = "rank"
    /\ UNCHANGED <<input, position, rankBuf, covrBuf, scan, out, buffer, spans, keys, idxs>>

ReadRank ==
    /\ pc = "rank"
    /\ rankBuf' = GetChunk(rank[level], chunk, rankBuf)
    /\ pc' = "scan"
    /\ UNCHANGED <<input, position, covrBuf, scan, out, buffer, spans, keys, idxs>>

\* accumulate_ids_in_rank_chunk over the whole buffer, then the intersection
\* with the request; an empty one skips the chunk.
ScanRequested ==
    /\ pc = "scan"
    /\ overload = "hashes"
    /\ seen' = seen \cup NonZero(rankBuf)
    /\ ids' = NonZero(rankBuf) \cap request
    /\ pc' = IF ids' = {} THEN "next" ELSE "coverage"
    /\ UNCHANGED <<input, position, rankBuf, covrBuf, out, buffer, spans, keys, idxs>>

\* Mutant of ScanAll: `continue` without counting the chunk.
ScanAllAgain ==
    /\ pc = "scan"
    /\ overload = "all"
    /\ seen' = seen \cup NonZero(rankBuf)
    /\ ids' = NonZero(rankBuf)
    /\ out' = [h \in DOMAIN out \cup NonZero(rankBuf) |->
                  IF h \in DOMAIN out THEN out[h] ELSE ZeroMask]
    /\ pc' = IF ids' = {} THEN "rank" ELSE "coverage"
    /\ UNCHANGED <<input, position, rankBuf, covrBuf, buffer, spans, keys, idxs>>

\* The same for every id, with a lazy channel for each id met for the first time.
ScanAll ==
    /\ pc = "scan"
    /\ overload = "all"
    /\ seen' = seen \cup NonZero(rankBuf)
    /\ ids' = NonZero(rankBuf)
    /\ out' = [h \in DOMAIN out \cup NonZero(rankBuf) |->
                  IF h \in DOMAIN out THEN out[h] ELSE ZeroMask]
    /\ pc' = IF ids' = {} THEN "next" ELSE "coverage"
    /\ UNCHANGED <<input, position, rankBuf, covrBuf, buffer, spans, keys, idxs>>

\* Mutant of ReadCoverage: always the first pair's coverage channel.
ReadFirstCoverage ==
    /\ pc = "coverage"
    /\ covrBuf' = GetChunk(CoverageChannel(0), chunk, covrBuf)
    /\ pc' = "layout"
    /\ UNCHANGED <<input, position, rankBuf, scan, out, buffer, spans, keys, idxs>>

ReadCoverage ==
    /\ pc = "coverage"
    /\ covrBuf' = GetChunk(CoverageChannel(level), chunk, covrBuf)
    /\ pc' = "layout"
    /\ UNCHANGED <<input, position, rankBuf, scan, out, buffer, spans, keys, idxs>>

\* realloc_mask_buffer_if_necessary: the buffer grows if it has to, and the spans follow each other in the set's unspecified iteration order.
LayoutSpans ==
    LET needed == Cardinality(ids) * ChunkLen(chunk) IN
    /\ pc = "layout"
    /\ bufSize' = Grown(bufSize, needed)
    /\ maskBuf' = [j \in 0 .. bufSize' - 1 |->
                      IF j < bufSize THEN maskBuf[j] ELSE Uninitialised]
    /\ \E place \in [ids -> 0 .. Cardinality(ids) - 1] :
          /\ \A g, h \in ids : place[g] = place[h] => g = h
          /\ spans' = [h \in ids |-> SpanOffset(place[h], ChunkLen(chunk))]
    /\ keys' = ids
    /\ pc' = "fill"
    /\ UNCHANGED <<input, position, rankBuf, covrBuf, scan, out, idxs>>

\* Mutant of Fill: zeros, as if no earlier pair had met the id.
FillWithZeros(h) ==
    /\ pc = "fill"
    /\ h \in keys
    /\ maskBuf' = [j \in DOMAIN maskBuf |->
                      IF InSpan(h, j) THEN NoCoverage ELSE maskBuf[j]]
    /\ keys' = keys \ {h}
    /\ UNCHANGED <<input, pc, position, rankBuf, covrBuf, scan, out, bufSize, spans, idxs>>

\* One iteration of "decompress mask chunks".
Fill(h) ==
    /\ pc = "fill"
    /\ h \in keys
    /\ maskBuf' = [j \in DOMAIN maskBuf |->
                      IF InSpan(h, j) THEN out[h][<<chunk, j - spans[h]>>] ELSE maskBuf[j]]
    /\ keys' = keys \ {h}
    /\ UNCHANGED <<input, pc, position, rankBuf, covrBuf, scan, out, bufSize, spans, idxs>>

FillDone ==
    /\ pc = "fill"
    /\ keys = {}
    /\ idxs' = Filled(chunk)
    /\ pc' = "accumulate"
    /\ UNCHANGED <<input, position, rankBuf, covrBuf, scan, out, buffer, spans, keys>>

\* One iteration of "accumulate masks": a pixel whose id is wanted.
AccumulateHit(i) ==
    /\ pc = "accumulate"
    /\ i \in idxs
    /\ rankBuf[i] # Zero
    /\ overload = "all" \/ rankBuf[i] \in ids
    /\ maskBuf' = [maskBuf EXCEPT ![spans[rankBuf[i]] + i] = Plus(@, covrBuf[i])]
    /\ idxs' = idxs \ {i}
    /\ UNCHANGED <<input, pc, position, rankBuf, covrBuf, scan, out, bufSize, spans, keys>>

\* One iteration of the same loop that has nothing to add.
AccumulateMiss(i) ==
    /\ pc = "accumulate"
    /\ i \in idxs
    /\ rankBuf[i] = Zero \/ (overload = "hashes" /\ rankBuf[i] \notin ids)
    /\ idxs' = idxs \ {i}
    /\ UNCHANGED <<input, pc, position, rankBuf, covrBuf, scan, out, buffer, spans, keys>>

AccumulateDone ==
    /\ pc = "accumulate"
    /\ idxs = {}
    /\ keys' = ids
    /\ pc' = "recompress"
    /\ UNCHANGED <<input, position, rankBuf, covrBuf, scan, out, buffer, spans, idxs>>

\* One iteration of "recompress mask chunks".
Recompress(h) ==
    /\ pc = "recompress"
    /\ h \in keys
    /\ out' = [out EXCEPT ![h] =
                  [p \in Pixels |-> IF p[1] = chunk THEN maskBuf[spans[h] + p[2]] ELSE @[p]]]
    /\ keys' = keys \ {h}
    /\ UNCHANGED <<input, pc, position, rankBuf, covrBuf, scan, buffer, spans, idxs>>

RecompressDone ==
    /\ pc = "recompress"
    /\ keys = {}
    /\ pc' = "next"
    /\ UNCHANGED <<input, position, rankBuf, covrBuf, scan, out, buffer, spans, keys, idxs>>

NextChunk ==
    /\ pc = "next"
    /\ chunk + 1 < NumChunks
    /\ chunk' = chunk + 1
    /\ pc' = "rank"
    /\ UNCHANGED <<input, level, rankBuf, covrBuf, scan, out, buffer, spans, keys, idxs>>

\* The last chunk of a rank channel that held ids: go on with the next pair.
NextLevel ==
    /\ pc = "next"
    /\ chunk + 1 = NumChunks
    /\ seen # {}
    /\ level + 1 < NumLevels
    /\ level' = level + 1
    /\ chunk' = 0
    /\ seen' = {}
    /\ pc' = "rank"
    /\ UNCHANGED <<input, rankBuf, covrBuf, ids, out, buffer, spans, keys, idxs>>

\* Mutant of Finish: the early exit does not wait for the last chunk.
FinishAtAnyChunk ==
    /\ pc = "next"
    /\ seen = {} \/ (chunk + 1 = NumChunks /\ level + 1 = NumLevels)
    /\ pc' = "done"
    /\ UNCHANGED <<input, position, rankBuf, covrBuf, scan, out, buffer, spans, keys, idxs>>

\* The last pair, or a rank channel without any id: the masks are complete.
Finish ==
    /\ pc = "next"
    /\ chunk + 1 = NumChunks
    /\ seen = {} \/ level + 1 = NumLevels
    /\ pc' = "done"
    /\ UNCHANGED <<input, position, rankBuf, covrBuf, scan, out, buffer, spans, keys, idxs>>

Terminated == pc = "done" /\ UNCHANGED vars

Next ==
    \/ BeginRequested \/ BeginAll
    \/ ReadRank \/ ScanRequested \/ ScanAll \/ ReadCoverage \/ LayoutSpans
    \/ \E h \in Vals : Fill(h) \/ Recompress(h)
    \/ \E i \in Slots : AccumulateHit(i) \/ AccumulateMiss(i)
    \/ FillDone \/ AccumulateDone \/ RecompressDone
    \/ NextChunk \/ NextLevel \/ Finish
    \/ Terminated

\* The call runs to its end: every iteration of a parallel loop is executed.
Spec == Init /\ [][Next]_vars /\ WF_vars(Next)

-----------------------------------------------------------------------------
TypeOK ==
    /\ rank \in RankPictures
    /\ overload \in {"hashes", "all"}
    /\ request \in SUBSET Vals
    /\ pc \in {"begin", "rank", "scan", "coverage", "layout", "fill", "accumulate",
               "recompress", "next", "done"}
    /\ level \in Levels
    /\ chunk \in Chunks
    /\ rankBuf \in [Slots -> Vals]
    /\ covrBuf \in [Slots -> Tags]
    /\ seen \in SUBSET Ids
    /\ ids \in SUBSET Ids
    /\ DOMAIN out \in SUBSET Vals
    /\ out \in [DOMAIN out -> Masks]
    /\ bufSize \in Nat
    /\ maskBuf \in [0 .. bufSize - 1 -> PixelSums]
    /\ DOMAIN spans \in SUBSET Ids
    /\ spans \in [DOMAIN spans -> Nat]
    /\ keys \in SUBSET ids
    /\ idxs \in SUBSET Filled(chunk)

\* The spans are where several iterations write at once: two of them never share
\* an element, and none reaches past the buffer, so the parallel loops are free
\* of data races (decoding_impl.h, realloc_mask_buffer_if_necessary).
SpansDisjoint ==
    pc \in {"fill", "accumulate", "recompress"} =>
        \A g, h \in ids, i, j \in Filled(chunk) :
            /\ spans[g] + i < bufSize
            /\ spans[g] + i = spans[h] + j => g = h /\ i = j

\* The unguarded mask_spans.at and out.at inside the parallel loops, whose
\* std::out_of_range would end the process, always find their key.
LookupsSucceed ==
    /\ pc \in {"fill", "recompress"} => keys \subseteq DOMAIN out
    /\ pc = "accumulate" =>
          \A i \in idxs : rankBuf[i] # Zero /\ (overload = "all" \/ rankBuf[i] \in request)
                             => rankBuf[i] \in DOMAIN spans

\* The levels the loop gets to: those below no level without ids.
Reached(l) == \A m \in Levels : m < l => ~BlankLevel(rank, m)

\* When the call returns, every mask holds, at every pixel, exactly once the
\* coverage of each reached level whose rank names the mask's object, and
\* nothing else: nothing lost between two pairs, added twice, taken from the
\* wrong pixel, from another chunk or from uninitialised memory.  Which levels
\* are reached is exact if the first chunk fills the scanned buffer.
CoverageExact ==
    FullFirstChunk /\ pc = "done" =>
        \A h \in DOMAIN out, p \in Pixels, t \in Tags :
            out[h][p][t] = IF \E l \in Levels : /\ t = <<l, p>> /\ rank[l][p] = h
                                               /\ h # Zero /\ Reached(l)
                           THEN 1 ELSE 0

\* The masks returned are those asked for, or one for each id of the reached
\* levels.  The second part needs the first chunk to fill the scanned buffer.
MaskSetExact ==
    pc = "done" =>
        IF overload = "hashes" THEN DOMAIN out = request
        ELSE FullFirstChunk =>
                DOMAIN out = {rank[l][p] : l \in {m \in Levels : Reached(m)}, p \in Pixels} \ {Zero}

\* cryptomatte.h, masks_compressed(hashes): hashes that are not found "will be
\* skipped and will also not appear in the output".  They do, with a blank mask.
OnlyFoundHashes == pc = "done" /\ overload = "hashes" => DOMAIN out \subseteq IdsOf(rank)

\* cryptomatte.h, masks_compressed(): "Extract all of the cryptomatte masks"; no
\* mask of anything else.  Not if the whole image is a chunk shorter than the
\* scanned buffer: what the uninitialised rest holds is taken for ids.
OnlyShownMasks == pc = "done" /\ overload = "all" => DOMAIN out \subseteq IdsOf(rank)

\* A later chunk, a later pair or a growing buffer never takes coverage away
\* from a mask: get_chunk, add, set_chunk only ever adds.
CoverageKept ==
    [][\A h \in DOMAIN out :
          /\ h \in DOMAIN out'
          /\ \A p \in Pixels, t \in Tags : out'[h][p][t] >= out[h][p][t]]_vars

Extraction ==
    INSTANCE MaskExtraction WITH
        answered <- pc = "done",
        masks <- IF pc = "done" THEN out ELSE <<>>

\* On cascading ranks, with a first chunk that fills the scanned buffer, the call
\* is an implementation of the one-step extraction: what it returns is that answer,
\* although it leaves at the first level that shows none of its objects; on other
\* ranks the early exit may lose what is below a blank level.  On any ranks it
\* answers at last (Extraction's WF_vars(Answer)).
ImplementsExtraction ==
    /\ Extraction!Init
    /\ [][FullFirstChunk /\ Cascading(rank) => Extraction!Answer]_(Extraction!vars)
    /\ <>(pc = "done")
=============================================================================
