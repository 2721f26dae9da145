------------------------------- MODULE MaskDecode -------------------------------
(***************************************************************************)
(* cryptomatte::mask(hash) and mask_compressed(hash): decode the mask of   *)
(* one id.  Both go over every chunk of every rank-coverage pair, with no  *)
(* scan for ids and no early exit.  mask() adds straight into a vector of  *)
(* width * height floats; mask_compressed() takes the mask's chunk out of  *)
(* a lazy channel, adds to it and puts it back.                            *)
(*                                                                         *)
(* The hash may be any bit pattern, the two zeros included: unlike the     *)
(* routines for many masks, these compare a rank with the hash only, so    *)
(* the zero hash collects the coverage of the background.                  *)
(***************************************************************************)
EXTENDS RankCoverage

CONSTANTS
    RankData,    \* the rank pictures the cryptomatte may hold
    Hashes       \* the hashes callers ask for

ASSUME InputAssumption == RankData \subseteq RankPictures /\ Hashes \subseteq Vals

VARIABLES
    rank,       \* rank[l][p]: pixel p of the l-th rank channel
    routine,    \* "mask" or "mask_compressed"
    hash_val,   \* the hash asked for, as a float
    pc,         \* where the calling thread is
    level,      \* the rank-coverage pair being read
    chunk,      \* chunk_idx
    rankBuf,    \* rank_chunk
    covrBuf,    \* covr_chunk
    maskBuf,    \* chunk_buffer, of mask_compressed
    out,        \* the mask
    idxs        \* iterations left of the loop over the pixels of the chunk

input == <<rank, routine, hash_val>>
position == <<level, chunk>>
buffers == <<rankBuf, covrBuf>>
vars == <<rank, routine, hash_val, pc, level, chunk, rankBuf, covrBuf, maskBuf, out, idxs>>

VectorSize == (NumChunks - 1) * ChunkElems + LastLen    \* out.size()
Elements == 0 .. VectorSize - 1

\* Chunk k of a channel is the run of elements that starts at k * chunk_size.
BaseIdx(k) == ChunkElems * k

\* Mutants of NumElements: all that is left of the vector; a full chunk.
NumElementsLeft(k) == VectorSize - BaseIdx(k)
NumElementsFull(k) == ChunkElems

\* The number of pixels mask() visits in chunk k.
NumElements(k) ==
    IF VectorSize - BaseIdx(k) < ChunkElems THEN VectorSize - BaseIdx(k) ELSE ChunkElems

-----------------------------------------------------------------------------
Init ==
    /\ rank \in RankData
    /\ routine \in {"mask", "mask_compressed"}
    /\ hash_val \in Hashes
    /\ pc = "begin"
    /\ level = 0
    /\ chunk = 0
    /\ rankBuf = [i \in Slots |-> Zero]
    /\ covrBuf = [i \in Slots |-> Junk]
    /\ maskBuf = [i \in Slots |-> Uninitialised]    \* default_init_vector
    /\ out = [e \in Elements |-> NoCoverage]
    /\ idxs = {}

\* Fresh buffers of zeros for every pair, that is of no id and no sample.
FreshBuffers ==
    /\ pc = "begin"
    /\ rankBuf' = [i \in Slots |-> Zero]
    /\ covrBuf' = [i \in Slots |-> Junk]
    /\ pc' = "read"
    /\ UNCHANGED <<input, position, maskBuf, out, idxs>>

\* mask(): get_chunk is given the whole buffer, the loop bound is computed
\* from what is left of the vector.
ReadChunk ==
    /\ pc = "read"
    /\ routine = "mask"
    /\ rankBuf' = GetChunk(rank[level], chunk, rankBuf)
    /\ covrBuf' = GetChunk(CoverageChannel(level), chunk, covrBuf)
    /\ idxs' = 0 .. NumElements(chunk) - 1
    /\ pc' = "accumulate"
    /\ UNCHANGED <<input, position, maskBuf, out>>

\* Mutant of ReadChunkAndMask: keeps the buffer of the chunk before.
ReadChunkOnly ==
    /\ pc = "read"
    /\ routine = "mask_compressed"
    /\ rankBuf' = GetChunk(rank[level], chunk, rankBuf)
    /\ covrBuf' = GetChunk(CoverageChannel(level), chunk, covrBuf)
    /\ idxs' = Filled(chunk)
    /\ pc' = "accumulate"
    /\ UNCHANGED <<input, position, maskBuf, out>>

\* mask_compressed(): the chunk of the mask is read along with the others.
ReadChunkAndMask ==
    /\ pc = "read"
    /\ routine = "mask_compressed"
    /\ maskBuf' = [i \in Slots |-> IF i < ChunkLen(chunk) THEN out[BaseIdx(chunk) + i]
                                   ELSE maskBuf[i]]
    /\ rankBuf' = GetChunk(rank[level], chunk, rankBuf)
    /\ covrBuf' = GetChunk(CoverageChannel(level), chunk, covrBuf)
    /\ idxs' = Filled(chunk)
    /\ pc' = "accumulate"
    /\ UNCHANGED <<input, position, out>>

\* Mutant of AccumulateInVector: assigns the coverage instead of adding it.
AssignInVector(i) ==
    /\ pc = "accumulate"
    /\ routine = "mask"
    /\ i \in idxs
    /\ rankBuf[i] = hash_val
    /\ out' = [out EXCEPT ![BaseIdx(chunk) + i] = Plus(NoCoverage, covrBuf[i])]
    /\ idxs' = idxs \ {i}
    /\ UNCHANGED <<input, pc, position, buffers, maskBuf>>

AccumulateInVector(i) ==
    /\ pc = "accumulate"
    /\ routine = "mask"
    /\ i \in idxs
    /\ rankBuf[i] = hash_val
    /\ out' = [out EXCEPT ![BaseIdx(chunk) + i] = Plus(@, covrBuf[i])]
    /\ idxs' = idxs \ {i}
    /\ UNCHANGED <<input, pc, position, buffers, maskBuf>>

AccumulateInBuffer(i) ==
    /\ pc = "accumulate"
    /\ routine = "mask_compressed"
    /\ i \in idxs
    /\ rankBuf[i] = hash_val
    /\ maskBuf' = [maskBuf EXCEPT ![i] = Plus(@, covrBuf[i])]
    /\ idxs' = idxs \ {i}
    /\ UNCHANGED <<input, pc, position, buffers, out>>

AccumulateMiss(i) ==
    /\ pc = "accumulate"
    /\ i \in idxs
    /\ rankBuf[i] # hash_val
    /\ idxs' = idxs \ {i}
    /\ UNCHANGED <<input, pc, position, buffers, maskBuf, out>>

\* mask_compressed() stores the chunk again; mask() has nothing to store.
SetChunk ==
    /\ pc = "accumulate"
    /\ idxs = {}
    /\ out' = IF routine = "mask" THEN out
              ELSE [e \in Elements |-> IF e - BaseIdx(chunk) \in Filled(chunk)
                                       THEN maskBuf[e - BaseIdx(chunk)] ELSE out[e]]
    /\ pc' = "next"
    /\ UNCHANGED <<input, position, buffers, maskBuf, idxs>>

NextChunk ==
    /\ pc = "next"
    /\ chunk + 1 < NumChunks
    /\ chunk' = chunk + 1
    /\ pc' = "read"
    /\ UNCHANGED <<input, level, buffers, maskBuf, out, idxs>>

NextLevel ==
    /\ pc = "next"
    /\ chunk + 1 = NumChunks
    /\ level + 1 < NumLevels
    /\ level' = level + 1
    /\ chunk' = 0
    /\ pc' = "begin"
    /\ UNCHANGED <<input, buffers, maskBuf, out, idxs>>

Finish ==
    /\ pc = "next"
    /\ chunk + 1 = NumChunks
    /\ level + 1 = NumLevels
    /\ pc' = "done"
    /\ UNCHANGED <<input, position, buffers, maskBuf, out, idxs>>

Terminated == pc = "done" /\ UNCHANGED vars

Next ==
    \/ FreshBuffers \/ ReadChunk \/ ReadChunkAndMask
    \/ \E i \in Slots : AccumulateInVector(i) \/ AccumulateInBuffer(i) \/ AccumulateMiss(i)
    \/ SetChunk
    \/ NextChunk \/ NextLevel \/ Finish
    \/ Terminated

Spec == Init /\ [][Next]_vars /\ WF_vars(Next)

-----------------------------------------------------------------------------
TypeOK ==
    /\ rank \in RankPictures
    /\ routine \in {"mask", "mask_compressed"}
    /\ hash_val \in Vals
    /\ pc \in {"begin", "read", "accumulate", "next", "done"}
    /\ level \in Levels
    /\ chunk \in Chunks
    /\ rankBuf \in [Slots -> Vals]
    /\ covrBuf \in [Slots -> Tags]
    /\ maskBuf \in [Slots -> PixelSums]
    /\ out \in [Elements -> PixelSums]
    /\ idxs \in SUBSET Slots

\* The unsigned out.size() - base_idx of mask() never wraps, and the loop bound
\* derived from it stops at the elements get_chunk has just written and inside
\* the vector: no leftover of the chunk before is visited in a short last chunk.
VisitsTheChunk ==
    pc = "accumulate" =>
        /\ BaseIdx(chunk) <= VectorSize
        /\ idxs \subseteq Filled(chunk)
        /\ \A i \in idxs : BaseIdx(chunk) + i < VectorSize

\* The coverage of the hash at pixel p on the first n levels, each once; the
\* hash may be zero here.
MaskOf(p, n) ==
    [t \in Tags |-> IF \E l \in Levels : l < n /\ t = <<l, p>> /\ rank[l][p] = hash_val
                    THEN 1 ELSE 0]

\* Between two chunks, and at the end, the mask holds exactly what the pairs and
\* chunks read so far contribute, in both routines: a pair never overwrites or
\* repeats what an earlier one added, although mask_compressed takes the chunk
\* out of the mask and puts it back once per pair, from a buffer it never clears.
PairsAddUp ==
    pc # "accumulate" =>
        \A p \in Pixels :
            out[BaseIdx(p[1]) + p[2]] =
                MaskOf(p, IF p[1] < chunk \/ (p[1] = chunk /\ pc \in {"next", "done"})
                          THEN level + 1 ELSE level)

\* The same of the result alone: both routines return the mask of the hash over
\* all levels, so mask() and mask_compressed() agree on every picture.
Result ==
    pc = "done" => \A p \in Pixels : out[BaseIdx(p[1]) + p[2]] = MaskOf(p, NumLevels)
=============================================================================
