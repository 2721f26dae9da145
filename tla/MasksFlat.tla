------------------------------- MODULE MasksFlat -------------------------------
(***************************************************************************)
(* cryptomatte::masks(hashes) and masks(): decode the masks of the         *)
(* requested ids, or of every id, into plain vectors of width * height     *)
(* floats, one chunk of one rank-coverage pair at a time.                  *)
(*                                                                         *)
(* There is no mask buffer here: the span of an id is the part of its      *)
(* vector that starts at chunk_idx * first_chunk_num_elems, and the        *)
(* parallel loop over the pixels of a chunk adds to it in any order.       *)
(***************************************************************************)
EXTENDS RankCoverage

CONSTANTS
    RankData,    \* the rank pictures the cryptomatte may hold
    Requests     \* the hash sets callers ask for

ASSUME InputAssumption ==
    /\ RankData \subseteq RankPictures
    /\ Requests \subseteq SUBSET Vals

VARIABLES
    rank,       \* rank[l][p]: pixel p of the l-th rank channel
    overload,   \* "hashes": masks(hashes), "all": masks()
    request,    \* the hashes asked for
    pc,         \* where the calling thread is
    level,      \* the rank-coverage pair being read
    chunk,      \* chunk_idx
    rankBuf,    \* rank_chunk
    covrBuf,    \* covr_chunk
    seen,       \* hashes_in_rank_channel
    ids,        \* _ids_in_chunk / ids_in_chunk_isection
    out,        \* the masks produced so far, vectors by id
    offsets,    \* mask_spans: where in its mask each id's span starts
    idxs        \* iterations left of the loop over the pixels of the chunk

input == <<rank, overload, request>>
position == <<level, chunk>>
scan == <<seen, ids>>
vars == <<rank, overload, request, pc, level, chunk, rankBuf, covrBuf, seen, ids,
          out, offsets, idxs>>

\* Mutant of SpanStart: the chunk's own size instead of the first one's.
SpanStartOwn(k) == k * ChunkLen(k)

\* Where in each mask chunk k goes: chunk_idx * first_chunk_num_elems.
SpanStart(k) == k * ChunkElems

VectorSize == (NumChunks - 1) * ChunkElems + LastLen    \* _width * _height
Elements == 0 .. VectorSize - 1
ZeroVector == [e \in Elements |-> NoCoverage]

\* Where the channels keep pixel p: chunk k of a channel is the run of
\* elements that starts at k * chunk_size.
Element(p) == p[1] * ChunkElems + p[2]

-----------------------------------------------------------------------------
Init ==
    /\ rank \in RankData
    /\ \/ overload = "hashes" /\ request \in Requests
       \/ overload = "all" /\ request = {}
    /\ pc = "begin"
    /\ level = 0
    /\ chunk = 0
    /\ rankBuf \in [Slots -> Vals]      \* default_init_vector: not initialised
    /\ covrBuf = [i \in Slots |-> Junk]
    /\ seen = {}
    /\ ids = {}
    /\ out = <<>>
    /\ offsets = <<>>
    /\ idxs = {}

\* One vector of zeros per requested hash, whether or not it occurs.
BeginRequested ==
    /\ pc = "begin"
    /\ overload = "hashes"
    /\ out' = [h \in request |-> ZeroVector]
    /\ pc' = "rank"
    /\ UNCHANGED <<input, position, rankBuf, covrBuf, scan, offsets, idxs>>

BeginAll ==
    /\ pc = "begin"
    /\ overload = "all"
    /\ pc' = "rank"
    /\ UNCHANGED <<input, position, rankBuf, covrBuf, scan, out, offsets, idxs>>

ReadRank ==
    /\ pc = "rank"
    /\ rankBuf' = GetChunk(rank[level], chunk, rankBuf)
    /\ pc' = "scan"
    /\ UNCHANGED <<input, position, covrBuf, scan, out, offsets, idxs>>

\* accumulate_ids_in_rank_chunk over the whole buffer, then the intersection
\* with the request; `continue` when that is empty.
ScanRequested ==
    /\ pc = "scan"
    /\ overload = "hashes"
    /\ seen' = seen \cup NonZero(rankBuf)
    /\ ids' = NonZero(rankBuf) \cap request
    /\ pc' = IF ids' = {} THEN "next" ELSE "coverage"
    /\ UNCHANGED <<input, position, rankBuf, covrBuf, out, offsets, idxs>>

\* Mutant of ScanAll: a new vector for every id, met before or not.
ScanAllAfresh ==
    /\ pc = "scan"
    /\ overload = "all"
    /\ seen' = seen \cup NonZero(rankBuf)
    /\ ids' = NonZero(rankBuf)
    /\ out' = [h \in DOMAIN out \cup NonZero(rankBuf) |->
                  IF h \in NonZero(rankBuf) THEN ZeroVector ELSE out[h]]
    /\ pc' = IF ids' = {} THEN "next" ELSE "coverage"
    /\ UNCHANGED <<input, position, rankBuf, covrBuf, offsets, idxs>>

\* The same for every id, with a new vector for each id met for the first time.
ScanAll ==
    /\ pc = "scan"
    /\ overload = "all"
    /\ seen' = seen \cup NonZero(rankBuf)
    /\ ids' = NonZero(rankBuf)
    /\ out' = [h \in DOMAIN out \cup NonZero(rankBuf) |->
                  IF h \in DOMAIN out THEN out[h] ELSE ZeroVector]
    /\ pc' = IF ids' = {} THEN "next" ELSE "coverage"
    /\ UNCHANGED <<input, position, rankBuf, covrBuf, offsets, idxs>>

ReadCoverage ==
    /\ pc = "coverage"
    /\ covrBuf' = GetChunk(CoverageChannel(level), chunk, covrBuf)
    /\ offsets' = [h \in ids |-> SpanStart(chunk)]
    /\ idxs' = Filled(chunk)
    /\ pc' = "accumulate"
    /\ UNCHANGED <<input, position, rankBuf, scan, out>>

\* One iteration of "accumulate masks": a pixel whose id is wanted.
AccumulateHit(i) ==
    /\ pc = "accumulate"
    /\ i \in idxs
    /\ rankBuf[i] # Zero
    /\ overload = "all" \/ rankBuf[i] \in ids
    /\ out' = [out EXCEPT ![rankBuf[i]][offsets[rankBuf[i]] + i] = Plus(@, covrBuf[i])]
    /\ idxs' = idxs \ {i}
    /\ UNCHANGED <<input, pc, position, rankBuf, covrBuf, scan, offsets>>

\* One iteration of the same loop that has nothing to add.
AccumulateMiss(i) ==
    /\ pc = "accumulate"
    /\ i \in idxs
    /\ rankBuf[i] = Zero \/ (overload = "hashes" /\ rankBuf[i] \notin ids)
    /\ idxs' = idxs \ {i}
    /\ UNCHANGED <<input, pc, position, rankBuf, covrBuf, scan, out, offsets>>

AccumulateDone ==
    /\ pc = "accumulate"
    /\ idxs = {}
    /\ pc' = "check"
    /\ UNCHANGED <<input, position, rankBuf, covrBuf, scan, out, offsets, idxs>>

\* Mutant of ChunksDone: `break` where the code says `continue`.
ChunksDoneAtBlank == chunk + 1 = NumChunks \/ (pc = "next")

\* The early exit stands inside the chunk loop, behind the `continue`: it breaks
\* out of the chunks, not of the pairs, and only if nothing was seen so far.
ChunksDone == chunk + 1 = NumChunks \/ (pc = "check" /\ seen = {})

NextChunk ==
    /\ pc \in {"next", "check"}
    /\ ~ChunksDone
    /\ chunk' = chunk + 1
    /\ pc' = "rank"
    /\ UNCHANGED <<input, level, rankBuf, covrBuf, scan, out, offsets, idxs>>

NextLevel ==
    /\ pc \in {"next", "check"}
    /\ ChunksDone
    /\ level + 1 < NumLevels
    /\ level' = level + 1
    /\ chunk' = 0
    /\ seen' = {}
    /\ pc' = "rank"
    /\ UNCHANGED <<input, rankBuf, covrBuf, ids, out, offsets, idxs>>

Finish ==
    /\ pc \in {"next", "check"}
    /\ ChunksDone
    /\ level + 1 = NumLevels
    /\ pc' = "done"
    /\ UNCHANGED <<input, position, rankBuf, covrBuf, scan, out, offsets, idxs>>

Terminated == pc = "done" /\ UNCHANGED vars

Next ==
    \/ BeginRequested \/ BeginAll
    \/ ReadRank \/ ScanRequested \/ ScanAll \/ ReadCoverage
    \/ \E i \in Slots : AccumulateHit(i) \/ AccumulateMiss(i)
    \/ AccumulateDone
    \/ NextChunk \/ NextLevel \/ Finish
    \/ Terminated

\* The call runs to its end: every iteration of the parallel loop is executed.
Spec == Init /\ [][Next]_vars /\ WF_vars(Next)

-----------------------------------------------------------------------------
TypeOK ==
    /\ rank \in RankPictures
    /\ overload \in {"hashes", "all"}
    /\ request \in SUBSET Vals
    /\ pc \in {"begin", "rank", "scan", "coverage", "accumulate", "next", "check", "done"}
    /\ level \in Levels
    /\ chunk \in Chunks
    /\ rankBuf \in [Slots -> Vals]
    /\ covrBuf \in [Slots -> Tags]
    /\ seen \in SUBSET Ids
    /\ ids \in SUBSET Ids
    /\ DOMAIN out \in SUBSET Vals
    /\ out \in [DOMAIN out -> [Elements -> PixelSums]]
    /\ DOMAIN offsets \in SUBSET Ids
    /\ offsets \in [DOMAIN offsets -> Nat]
    /\ idxs \in SUBSET Filled(chunk)

\* Every add of the parallel loop finds its span (mask_spans.at throws nothing
\* inside a parallel algorithm, where an exception ends the process), stays
\* inside the id's vector, and hits the element of its own pixel.
WritesLandOnTheirPixel ==
    pc = "accumulate" =>
        \A i \in idxs : rankBuf[i] # Zero /\ (overload = "all" \/ rankBuf[i] \in request) =>
            /\ rankBuf[i] \in DOMAIN offsets
            /\ rankBuf[i] \in DOMAIN out
            /\ offsets[rankBuf[i]] + i < VectorSize
            /\ offsets[rankBuf[i]] + i = Element(<<chunk, i>>)

\* A chunk the loop has left behind is complete in every mask, whatever the
\* later pairs hold: up to here, exactly the coverage of the levels read.
\* For the masks of both overloads, at every step of the loop.
ProgressExact ==
    LET Read(p) == IF p[1] < chunk \/ (p[1] = chunk /\ pc \in {"next", "check", "done"})
                   THEN level + 1 ELSE level
    IN pc \notin {"begin", "accumulate"} =>
        \A h \in DOMAIN out, p \in Pixels :
            out[h][Element(p)] = CoverageOf(rank, h, p, Read(p))

\* With a first chunk that fills the scanned buffer the call is an
\* implementation of the one-step extraction, on every picture, cascading or
\* not: it returns, with the coverage of all levels.
Extraction ==
    INSTANCE MaskExtraction WITH
        answered <- pc = "done",
        masks <- IF pc = "done"
                 THEN [h \in DOMAIN out |-> [p \in Pixels |-> out[h][Element(p)]]]
                 ELSE <<>>

ImplementsExtraction == Extraction!Spec
=============================================================================
