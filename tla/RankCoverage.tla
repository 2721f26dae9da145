------------------------------ MODULE RankCoverage ------------------------------
(***************************************************************************)
(* The data every decoding routine of cryptomatte-api works on, and what   *)
(* the mask of one object is.                                              *)
(*                                                                         *)
(* A validated cryptomatte holds NumLevels pairs of channels: a rank       *)
(* channel, whose pixels are object ids stored as float32, and a coverage  *)
(* channel, whose pixels say how much of the pixel that object covers.     *)
(* The channels are compressed in NumChunks chunks of ChunkElems elements, *)
(* except that the last one may hold fewer, LastLen.  A pixel is named by  *)
(* its chunk and its place in the chunk.                                   *)
(*                                                                         *)
(* Coverage is kept symbolically: the coverage value of pixel p at level l *)
(* is the sample <<l, p>>, and a pixel of a mask is the bag of samples that*)
(* were added to it.  A sample that is lost, added twice, added to the     *)
(* wrong pixel or read from a buffer nobody filled is then visible, which  *)
(* it would not be in a sum of numbers.                                    *)
(*                                                                         *)
(* Every comparison of ids in the decoders is a float32 comparison, so     *)
(* Zero stands for both zeros; NaN ranks are left out (a conforming        *)
(* encoder never writes one).                                              *)
(***************************************************************************)
EXTENDS Integers, FiniteSets

CONSTANTS
    Ids,          \* the nonzero id values that occur
    Zero,         \* the rank value 0.0: no object at this level
    Junk,         \* what a read of memory nobody has written returns
    NumLevels,    \* rank-coverage pairs, cryptomatte::num_levels()
    NumChunks,    \* channel::num_chunks()
    ChunkElems,   \* channel::chunk_size() in elements
    LastLen       \* elements of the last chunk

ASSUME GeometryAssumption ==
    /\ NumLevels \in Nat \ {0}
    /\ NumChunks \in Nat \ {0}
    /\ ChunkElems \in Nat \ {0}
    /\ LastLen \in 1 .. ChunkElems

Vals == Ids \cup {Zero}

Levels == 0 .. NumLevels - 1
Chunks == 0 .. NumChunks - 1
Slots  == 0 .. ChunkElems - 1

\* channel::chunk_size(chunk_idx) in elements: only the last chunk may be short.
ChunkLen(k) == IF k = NumChunks - 1 THEN LastLen ELSE ChunkElems

Filled(k) == 0 .. ChunkLen(k) - 1

\* The first chunk fills a buffer of chunk_size elements: always, unless the
\* channel consists of a single short chunk.
FullFirstChunk == ChunkLen(0) = ChunkElems

Pixels == {p \in Chunks \X Slots : p[2] < ChunkLen(p[1])}

Samples == Levels \X Pixels
Tags == Samples \cup {Junk}

ASSUME ValueAssumption == Zero \notin Ids /\ Junk \notin Samples /\ IsFiniteSet(Ids)

-----------------------------------------------------------------------------
(* A pixel of a mask: how often each sample was added to it. *)

PixelSums == [Tags -> Nat]
NoCoverage == [t \in Tags |-> 0]
Uninitialised == [t \in Tags |-> IF t = Junk THEN 1 ELSE 0]
Plus(sum, t) == [sum EXCEPT ![t] = @ + 1]

Masks == [Pixels -> PixelSums]
ZeroMask == [p \in Pixels |-> NoCoverage]

\* channel::get_chunk: overwrites the part of the buffer the chunk fills, and
\* leaves the rest of it as it was.
GetChunk(channel, k, buffer) ==
    [i \in Slots |-> IF i < ChunkLen(k) THEN channel[<<k, i>>] ELSE buffer[i]]

\* A coverage channel holds one distinct sample per pixel.
CoverageChannel(l) == [p \in Pixels |-> <<l, p>>]

\* Mutants of NonZero: a scan without the zero test; one that misses the last
\* element.
NonZeroUnfiltered(buffer) == {buffer[i] : i \in DOMAIN buffer}
NonZeroShort(buffer) == {buffer[i] : i \in DOMAIN buffer \ {ChunkElems - 1}} \ {Zero}

\* What remains of a scan for ids: the values of a buffer that are not zero.
NonZero(buffer) == {buffer[i] : i \in DOMAIN buffer} \ {Zero}

-----------------------------------------------------------------------------
(* What a mask should be. *)

\* The samples that belong to object h at pixel p among the first n levels.
CoverageOf(ranks, h, p, n) ==
    [t \in Tags |->
        IF \E l \in Levels : /\ l < n
                             /\ t = <<l, p>>
                             /\ ranks[l][p] = h
                             /\ h # Zero
        THEN 1 ELSE 0]

BlankLevel(ranks, l) == \A p \in Pixels : ranks[l][p] = Zero

\* "the cascading nature of hashes" the decoders' comments rely on: below a
\* level without ids there are only levels without ids.
Cascading(ranks) ==
    \A l, m \in Levels : l < m /\ BlankLevel(ranks, l) => BlankLevel(ranks, m)

\* The objects a rank picture shows.
IdsOf(ranks) == {ranks[l][p] : l \in Levels, p \in Pixels} \ {Zero}

RankPictures == [Levels -> [Pixels -> Vals]]
=============================================================================
