# Formal models of cryptomatte-api

cryptomatte-api reads cryptomattes: images in which every pixel says, in several
levels, which object it shows (a *rank*, a 32-bit hash stored as a float) and how
much of the pixel that object covers (its *coverage*). The library checks and
stores such channels in compressed chunks and decodes them into one mask per
object. This directory holds TLA+ models of it, the TLC configurations that
check them, and proofs for TLAPS.

Paths below are relative to `src/cryptomatte_api/` unless they start with `src/`.

## 1. Inventory

| part | state | operations | what makes it correct |
|---|---|---|---|
| decoders for many masks, compressed: `masks_compressed(hashes)`, `masks_compressed()` (`src/cryptomatte.cpp:758-1052`) | buffers for one rank and one coverage chunk, one buffer shared by all masks, the spans into it, a lazy channel per mask, the ids met on this rank channel | per pair and chunk: read ranks, collect ids, read coverage, lay out spans, three parallel loops (fill, accumulate, recompress); leave early at a blank level | every sample once in the mask of its object and nowhere else; the masks are those asked for or shown; parallel iterations never meet in an element; no exception inside them |
| decoders for many masks, flat: `masks(hashes)`, `masks()` (`:517-733`) | the same without the mask buffer: a vector per mask | read, collect, accumulate in parallel | the same; a write lands on its own pixel |
| decoders for one mask: `mask(hash)`, `mask_compressed(hash)` (`:359-491`) | chunk buffers, the mask | every chunk of every pair, no scan, no early exit | the same, and both agree |
| parallel scan `accumulate_ids_in_rank_chunk` (`include/cryptomatte/detail/decoding_impl.h:29-66`) | a set per thread | each thread scans a block; the caller merges | the result is the set of nonzero values; it returns |
| span layout `realloc_mask_buffer_if_necessary` (`decoding_impl.h:114-140`) | the mask buffer's size | grow, assign offsets | spans disjoint and inside the buffer |
| constructors, classification, validation (`src/cryptomatte.cpp:25-179`, `src/detail/channel_util.cpp`, `src/metadata.cpp:285-345`) | `m_Channels`, `m_LegacyChannels` | classify, sort, validate, compare, store; extract the previews; be moved | pairs in order; consistent input accepted, other input refused; each channel in one place; an object that was given channels can be decoded until it is moved from |
| naming (`src/cryptomatte.cpp:336-355, 406-425, 496-513, 737-754`, `decoding_impl.h:77-103`, `manifest::hash`) | the result by name | look up names, decode, name the masks | no mask under a wrong name, none lost, unknown names refused |
| `load` (`src/cryptomatte.cpp:183-281`, `src/detail/oiio_util.cpp`) | the cryptomattes built so far | open, read metadata, choose channels, construct | one cryptomatte per metadata, each with its own channels |
| `metadata::from_spec`, `from_json` (`src/metadata.cpp:72-246`) | a metadata per key | one step per attribute | each key gets its own attributes however they interleave |
| manifest loading (`src/manifest.cpp:14-104`) | the mapping of names to hashes | parse, or read a sidecar file; warn if that fails | a broken manifest costs only itself |
| hash texts (`src/detail/detail.cpp`) | none | `hex_str_to_uint32_t`, `uint32_t_to_hex_str` | a text of eight digits means its number, no other text one that large |
| logger (`src/logger.cpp`) | the global `s_logger`; spdlog's registry | `get_logger` (creates a default one), `set_logger` | the logger set is the one used; usable from several threads only if no calls overlap |
| profiling (`include/cryptomatte/detail/scoped_timer.h`) | the stream, the number of events, a lock | begin and end a session; an event per scope that ends | one well-formed array of all the session's scopes |
| benchmark program (`src/benchmark/`) | the samples and the sampling flag, both global; the sampling thread | start sampling, iterate, stop, join, analyse | a run's samples are its own; the join comes through |
| python bindings (`src/python/bindings/`) | none | wrappers; `mask` and `masks` choose an overload by the type of the argument | the overload chosen is the one asked for |

**How the parts meet.** `load` reads a file's metadata, chooses channels per
metadata and calls the first constructor. A constructed object is immutable but
for its previews, so decoders share no state between calls; inside a call the
calling thread runs parallel algorithms of the standard library whose iterations
share the buffers of that call. The overloads by name look the hashes up in the
manifest, call the overload by hash and get its result named by `map_to_string`.
The compressed channels are those of the compressed-image library: reading a
chunk fills a buffer, writing one replaces it. The logger is the one global of the
library: every `load` of every thread may warn through it. In a build with
profiling the instrumentor is another, which the decoders write to whenever a
scope ends.

**What is hard.** The parallel loops (unordered, `par_unseq`, without locks); the
reuse of buffers across chunks and pairs, which must leave nothing behind; the
short last chunk; masks that are met on several pairs and are taken out of
compression and put back each time; an early exit that relies on the order in
which encoders fill the levels; hash maps, whose order decides which channel is
the reference and which of two colliding masks survives; float32 as a key, with
two zeros that are one; globals without a lock (logger), or with a lock that some
of the writers do not take (profiling). PROJECT.json lists these hazards line by line.

## 2. Modules

| module | models | checked by | proved in |
|---|---|---|---|
| `RankCoverage` | geometry of the channels, pictures, `get_chunk`, what a mask should be | used by all decoders and the scan | `AccumulateIdsProofs` (lemmas) |
| `MaskExtraction` | abstract: a call answers, in one step, with exact masks | refined by the next two | |
| `MasksCompressed` | both `masks_compressed` overloads | `masks_compressed`, `not_found`, `uninitialised_tail` | `MasksCompressedProofs` |
| `MasksFlat` | both `masks` overloads | `masks_flat` | `MasksFlatProofs` |
| `MaskDecode` | `mask(hash)` and `mask_compressed(hash)` | `mask_decode` | `MaskDecodeProofs` |
| `AccumulateIds` | the parallel scan | `accumulate_ids` | `AccumulateIdsProofs` |
| `ChannelNames` | validity of channel names, their order, `sort_and_validate_channels` | used by the next two | |
| `Construction` | the constructors, classification, validation; extraction of previews, moves | `construction` | `ConstructionProofs` |
| `HexHash` | hash texts, with `std::stoull` | used by `Loading` | `LoadingProofs` |
| `Logger` | `get_logger`, `set_logger` | composed in `Loading` | `LoadingProofs` |
| `Loading` | `load`, `metadata::from_json`, `manifest::load`, and another thread at the logger | `loading`, `manifest_precedence`, `logger_reset` | `LoadingProofs` |
| `MaskNaming` | look-up by name, `map_to_string`, the dispatch of the bindings | `mask_naming` | `MaskNamingProofs` |
| `Profiling` | the instrumentor and its timers | composed in `Benchmark` | `BenchmarkProofs` |
| `Benchmark` | the benchmark program with its sampling thread | `benchmark` | `BenchmarkProofs` |

The `MC` modules give the sets of pictures, requests, names, hashes and files to TLC.

### Correspondence

*Decoders.* `rank[l][p]` is pixel `p` of the l-th rank channel, a pixel being a
chunk and a place in it. Coverage is symbolic: the coverage value of pixel `p` at
level `l` is the sample `<<l, p>>`, a pixel of a mask is the bag of samples added
to it, and memory nobody has written holds `Junk`. A lost, repeated or misplaced
addition is then visible, which it need not be in a sum. Ids are float32 values;
`Zero` stands for both zeros, which compare equal. `pc`, `level` and `chunk` are
the place of the calling thread in the two loops; `rankBuf`, `covrBuf`, `maskBuf`
and `spans` are `rank_chunk`, `covr_chunk`, `_mask_buffer` and `mask_spans`;
`seen` is `hashes_in_rank_channel`. Each iteration of a parallel loop is an action
(`Fill(h)`, `AccumulateHit(i)`, `AccumulateMiss(i)`, `Recompress(h)`), the sets
`keys` and `idxs` hold those left, and the loop's end is an action of the calling
thread (`FillDone` ...). The iteration order of the hash set that decides the
layout of the spans is a choice. Memory that is not initialised starts as an
arbitrary choice of values.

In the decoders' modules the scan of a rank buffer is one step, and its result the
set `NonZero` of that buffer. `AccumulateIds` is the scan itself, and its `ResultExact`
says that it computes that set.

*An iteration is atomic.* In an iteration of the accumulate loop the read and the
write of `it[idx] += covr_chunk[idx]` form one step. That is sound exactly if no
two iterations share an element, which is `SpansDisjoint` (proved) for the mask
buffer and `WritesLandOnTheirPixel` for the vectors of `masks`, where iteration
`i` of a chunk writes only element `i` of a span.

*Scan.* `cursor[t]` is the loop variable of thread `t`. The code's callers pass
`hardware_concurrency()`, which the standard lets be 0; the division by it is
then undefined, and `ThreadCountAssumption` excludes it. The buffer is a rank buffer
of the decoders, with the same values; an element after the other is read.

*Construction.* A name is kept as the facts the code reads from it: what follows
the typename, the two digits before the last dot, the channel type, and the
spelling. `StoreChannel`, `RejectChannel` and the legacy ones are one round of
the store loops each; `Misfit` stands for the comparisons that throw. Once constructed
the object can be emptied of its previews (`ExtractPreviewCompressed`) and moved
(`Move`): `successor` is the object it was moved to, and what a move leaves behind
is empty, as it is for every standard library. `DecodeEmpty` is a decoder for
several masks that dereferences the begin of an empty vector.

*Loading.* A file is what OpenImageIO reports of it: whether it opens, its
attributes in order, its channels and which of them are half floats. An attribute
is a key, the attribute's name (or why it is not one) and a value; a channel is a
name as in `Construction`, but with what follows *each* typename, since one channel
can belong to two (`AA00.r` is a data channel of `A` too: `lstrip` strips the
typename as often as it is found). `position` is the loop variable of `from_json`,
`result`, `metadatas`, `channel_names`, `image` and `out` are the code's. The
text of a manifest is the sequence of its hash texts, or `{}` if it is no json or
has a value that is no string; `Decoded` applies `HexStrToUint` to each. `Disk` and
`Unreachable` are the file system beside the image. A manifest that cannot be
loaded is warned of: `Warn` enters `get_logger`, whose steps (`WarnStep`) may
interleave with those of another thread that runs a script of logger calls
(`OtherNext`), and `ParseAttribute` goes on with the result. `Terminate` is an
exception inside the `noexcept` function, or a warning through a null pointer.
`FinishParse` is the end of `from_json` with the sort in
`load`: every order of the hash map and every tie of the sort. A channel that two
cryptomattes select is asked for twice, and the second extraction may fail or be
served (`ExtractFails`, `ConstructNext`), as the image library is external. One
image has one size and encoding, so the comparisons of the constructor cannot fail
here, and `Validates` is what is left of it.

*Hash texts.* `HexHash` works on characters. `StoULL` says what `std::stoull` does
in base 16: it skips white space (`Blanks`; the vertical tab, the one character of
`isspace` that TLA+ cannot write, is left out), takes a sign and `0x`, reads digits as
long as there are any and counts modulo the range of `unsigned long long`.
`PlaceValue[n]` is 16 to the power of `n`. `HexLength` is 8 in the code; the range of
`uint32_t` and that of `unsigned long long` are derived from it, so the run can use a
smaller one, while the proofs hold for each.

*Logger.* `at[t]` is the place of thread `t` in `get_logger` or `set_logger`: the
test, the creation (atomic, spdlog's registry has a lock), the assignment, the
level, the copy. `registered` is spdlog's registry, which keeps a name for good. An
access of the `shared_ptr` that meets a write of another thread is a data race
(`Collide`): the process may end, or it goes on as if one had come after the other.

*Naming.* A mask is known by the hash it was decoded for; `Same` is the equality
of two hashes as float32; `NameMask(h)` is a round of the loop of `map_to_string`
in the hash map's order. A Python call starts with its argument, a list of items
each a string, an integer or something else, or `None` (`{}`); the `Dispatch`
actions try the alternatives of the `std::variant` in their order, strings first.

*Profiling.* The file is the sequence of tokens written to it: header, events,
commas, footer. `BeginSession` and `EndSession` are several steps each, as they do
not take the lock that `WriteProfile` holds from `Lock` to `WriteEvent`. `due` and
`strayed` are history: the scopes that ended in this session, and whether one did
so while no session was running.

*Benchmark.* `pc` is the place of the main thread, `sampler` that of
`memory_profiler`. A measurement is known by the run it was taken in, and `samples`
is the set of the runs the vector holds measurements of. The profiled scopes of an
iteration are one scope of the main thread. An exception of the benchmarked
function ends the program: the thread object that unwinding would destroy is still
joinable, and nothing in `main` catches one either.

## 3. Runs

| run | properties | bounds | shows |
|---|---|---|---|
| `masks_compressed` | `TypeOK` `SpansDisjoint` `LookupsSucceed` `CoverageExact` `MaskSetExact` `CoverageKept` `ImplementsExtraction` | 2 levels, 2 chunks of 2 and 1 elements, 2 ids, all pictures, 5 requests and the overload without | exact masks in every interleaving and layout; on cascading pictures the early exit loses nothing; the call returns |
| `masks_flat` | `TypeOK` `WritesLandOnTheirPixel` `ProgressExact` `ImplementsExtraction` | as the first | `masks` needs no cascade: its early exit is never taken |
| `mask_decode` | `TypeOK` `VisitsTheChunk` `PairsAddUp` `Result` | as the first, every hash with zero | both routines exact, loop bound never past the chunk |
| `accumulate_ids` | `ScanTypeOK` `LocalSetsExact` `ResultExact` `ScanReturns` | 5 elements, 4 threads | one short block, one block behind the buffer |
| `construction` | `TypeOK` `PairsInOrder` `EachChannelInOnePlace` `DecodableUntilMoved` `WellFormedAccepted` | subsets of 10 names, 2 forms | every hash map order and sort order, every life of the object |
| `mask_naming` | `TypeOK` `ThrowsOnUnknown` `NoMislabelledMask` `EachMaskNamed` | manifests and calls of up to 2 entries, 4 hashes, 6 names; from C++ and from Python | collisions, both zeros, names that look like hashes |
| `loading` | `TypeOK` `MetadataOwn` `CryptomattesOwn` `FailsExactlyIfWrong` `HashesAsWritten` `BrokenManifestSurvives` `LoggerKept` `Returns` | up to 3 of 16 attributes, and 5 attributes of 2 cryptomattes, in every order; 6 sets of channels; hash texts of 3 characters; 3 logger calls of another thread | a file is loaded as a whole or not at all; a broken manifest costs only itself |
| `benchmark` | `TypeOK` `TraceWellFormed` `SamplesOfThisRun` `Ends` | 2 sessions, 2 runs of 1 iteration, 3 scopes of another thread | traces, samples, the join |
| `not_found` | `OnlyFoundHashes` (violated) | as the first | finding 1 |
| `uninitialised_tail` | `OnlyShownMasks` (violated) | one chunk of 1 in a buffer of 2 | finding 2 |
| `manifest_precedence` | `FirstManifestPreferred` (violated) | 5 attributes of 2 cryptomattes in every order | finding 3 |
| `logger_reset` | `LoggerAvailable` (violated) | the three files of `loading` that make it warn, 3 logger calls of another thread | finding 4 |

What the properties say stands before each in its module. Of those that a reader may
take for more than they are: `WellFormedAccepted` says that canonical uniform channels
are accepted and that whatever is accepted has all four types of every number below the
last and two, or four, of the last; which two is not checked by the code (section 4).
`MetadataOwn` is about attributes that interleave, and leaves open which of several
manifest attributes of one key counts (finding 3). `BrokenManifestSurvives` and
`LoggerKept` say in which cases the process ends or `get_logger` throws, as long as
calls do not overlap; that there are such cases is finding 4 and a behaviour listed
there. `EachMaskNamed` is about manifests in which no two names collide,
`NoMislabelledMask` about every manifest. `TraceWellFormed` is about sessions no scope
strayed into.

**Why the bounds are enough.** What can go wrong in a decoder takes two of a kind:
two levels (a mask met twice), two chunks of different size (a short last one
after a full one, whose leftovers are in the buffer), two ids (two spans, a
request that names one of them), a buffer that grows between two chunks. An early
exit after the first of two levels is the one that could lose something. The
proofs of section 5 remove the bounds, for every module and every property that is
not about liveness. Five elements and four threads give the smallest case with a
remainder, a short block and an empty one together. The ten names hold a complete number, half of a second one, a
second spelling, a name that passes the classification but not `channel_repr`, a
preview and a foreign channel. Two manifest entries suffice for a collision.
In `loading` a key's metadata depends on its name and its last two manifest
attributes, which three attributes hold together with a bad or foreign one; five
hold two complete cryptomattes, with names that are equal, prefixes of each other
or unrelated. A file where nothing was wrong and one where each thing was are both
among the sets of channels. The hash texts are all of three characters over digits
of both cases, `x`, both signs, a space and a character that is no digit, and some
of other lengths: the code's eight characters only repeat their cases. Three logger
calls hold a default logger that is taken away again. In `benchmark` a second
session shows what a first one leaves behind; `main` has one. `MaxScopes`,
`Sessions` and `Runs` are bounds of that model.
`MaxManifest` and `MaxArguments` are the only bounds that are not sizes of the
program's own inputs.

**Fairness.** The decoders have `WF_vars(Next)`: a call that can take a step does,
because its thread is running and a parallel algorithm returns only after all its
iterations have. Nothing is assumed of the order of iterations. `AccumulateIds`
has weak fairness per thread: an iteration of a parallel loop makes progress, and the
caller merges.
`Loading` has weak fairness for each of its two threads, as both are running and
neither ever waits for the other. `Benchmark` has it for the main thread, the
sampler and each writer inside `WriteProfile`; the lock is handed on because the
scopes of the other writers are bounded.
`Construction` and `MaskNaming` have no liveness properties and no fairness. Every
module has a self-loop for the end of the call, so deadlock is checked everywhere:
a call never gets stuck half way.

## 4. Findings

1. **Hashes that do not occur are in the output.** `masks_compressed(hashes)` (and
   `masks(hashes)`) creates a mask per requested hash first; `cryptomatte.h:252`
   promises that unknown ones do not appear. `not_found`.
2. **Uninitialised memory taken for ids.** The scan covers the whole buffer, also
   when the only chunk is shorter, as for small images built from vectors.
   `masks_compressed()` then returns blank masks of objects that do not exist, or
   leaves the loop later than it would. `uninitialised_tail`. Hence the premise
   `FullFirstChunk` of `MaskSetExact` and `CoverageExact`; `load` lowers the chunk
   size to the image's and so satisfies it.
3. **The last manifest counts, not the first.** When a key has both a `manifest` and a
   `manif_file`, the later one in the file replaces the earlier, even if it cannot be
   read; `manifest.cpp:47-49` says "preferring whichever it finds first".
   `manifest_precedence`.
4. **No default logger after a reset.** After `set_logger(nullptr)`, if the default
   logger was created before, `get_logger` registers its name a second time and spdlog
   throws, where `logger.h:18` and `:25` promise a default logger; a `load` that warns
   then ends the process, since `manifest::load` is `noexcept`. `logger_reset`.

Some behaviours are worth knowing, though they have no run of their own; the first
three are against what the headers say:

- Sets that are not pairs are accepted: the validation counts distinct types, so red and
  blue alone, or two spellings of one channel, pass and are decoded as a rank with its
  coverage, where `cryptomatte.h:285` speaks of "multiple rank-coverage pairs in the
  correct order". `PairsInOrder` therefore has the premise `Canonical`.
- Consistent channels may be refused: the reference is the first channel of the hash
  map, which can be a preview or a foreign channel encoded otherwise, where
  `cryptomatte.h:52` speaks of cryptomatte channels only. `WellFormedAccepted` therefore
  has all channels handed over of one form.
- A sidecar path whose status the system refuses to tell ends the process: `exists` is
  called outside the `try` block of the `noexcept` function and throws, where
  `manifest.h:53` promises `std::nullopt` (the first case of `BrokenManifestSurvives`).
- Two overlapping calls of the logger, one of them the first or a `set_logger`, are a
  data race (`Collide`); besides, if two threads both find no logger, the second to
  register the default one's name gets an exception. What is shown of the logger holds
  for calls that do not overlap.
- Texts such as `+12345ff` or `0x12345g` decode as hashes (`HashesAsWritten`).
- An empty Python list is a list of names: `masks([])` throws without a manifest
  (`ThrowsOnUnknown`).
- `preview()` returns as many channels as there are, where `cryptomatte.h` speaks of
  none or three.
- A profiled scope that ends outside a session, or while one begins or ends, may
  spoil the trace of one session, and no later one (`TraceWellFormed`).
- If the sampler first looks after the run has ended there is no sample: the average
  is 0/0 and the minimum the largest `size_t`.

## 5. Proofs

Every safety invariant and every action property of the runs that pass is a theorem.

`AccumulateIdsProofs`, for every buffer size, every content of the buffer and every
positive number of threads (`ThreadCountAssumption`):

| theorem | states |
|---|---|
| `ScanTypeCorrect` | `ScanSpec => []ScanTypeOK` |
| `ResultCorrect` | `ScanSpec => []ResultExact` |
| `LocalSetsCorrect` | `ScanSpec => []LocalSetsExact` |

The block lemmas say that rounding up covers the buffer (`BlocksSuffice`,
`BlocksCover`); the invariant adds to `LocalSetsExact` that cursors stay in their
blocks and that merging waits for every scan. The module also holds what is true of
chunks, places and sums of samples whatever the decoder is; the proofs of the
decoders extend it.

`MasksCompressedProofs`, for all sets of ids, all numbers of levels, chunks and
elements, all pictures and requests, from `GeometryAssumption` (positive sizes, a
last chunk no longer than the others), `ValueAssumption` (zero is no id, ids are
finite) and `InputAssumption`.

| theorem | states |
|---|---|
| `TypeCorrect` | `Spec => []TypeOK` |
| `CoverageCorrect` | `Spec => []CoverageExact` |
| `MaskSetCorrect` | `Spec => []MaskSetExact` |
| `ParallelLoopsSafe` | `Spec => []SpansDisjoint` |
| `LookupsSafe` | `Spec => []LookupsSucceed` |
| `CoverageNeverLost` | `Spec => CoverageKept` |
| `ExtractionImplemented` | on cascading pictures with a full first chunk, initial states and steps map to those of `MaskExtraction` |

`CoverageExact` says something of the end only and is not inductive. `IInv` says
at every moment how many levels each chunk of each mask holds: `level + 1` behind
the chunk being read, `level` from there on, and in the middle of the recompress
loop one or the other by whether the mask is still in `keys` (`Merged`,
`OutExact`). To carry that through a chunk it also says what the buffers hold
(`RankBufExact`, `CovrBufExact`), that the ids are those of the rank buffer
(`IdsExact`), where the spans are (`SpansLaidOut`), and, per phase, what each
span holds (`MaskBufExact`). For the set of masks and the early exit it says which
ids have been seen so far. The one step with arithmetic is the layout: two offsets
that are distinct multiples of the chunk's length are at least that length apart.
There is a lemma per action, and `NextIInv` combines them.

`MasksFlatProofs`, from the same assumptions:

| theorem | states |
|---|---|
| `TypeCorrect` | `Spec => []TypeOK` |
| `WritesSafe` | `Spec => []WritesLandOnTheirPixel` |
| `ProgressCorrect` | `Spec => []ProgressExact` |
| `ExtractionImplemented` | with a full first chunk, initial states and steps map to those of `MaskExtraction`, on every picture |

`ProgressExact` holds between the parallel loops. Inside one the invariant counts
the levels of each pixel by whether its place is still in `idxs` (`Counted`), and
says that each id of the chunk has a span and that span starts where the chunk does
(`SpansExact`). The break for a channel that showed no id is tested behind the
accumulation, which a chunk without ids never gets to: `seen` is not empty there
(`LoopsExact`, `NoEarlyExit`), so no level is left out and the refinement needs no
cascade. `TailBenign` says that what is scanned behind a short chunk are values of an
earlier chunk of the same channel, so that no mask is made of an id the picture does
not have; that is where `FullFirstChunk` is needed.

`MaskDecodeProofs`, for every hash, zero included, from the same assumptions:

| theorem | states |
|---|---|
| `TypeCorrect` | `Spec => []TypeOK` |
| `ChunkVisited` | `Spec => []VisitsTheChunk` |
| `PairsAdded` | `Spec => []PairsAddUp` |
| `MaskExact` | `Spec => []Result` |

Here one invariant carries both routines, though they hold the sums in different
places: `mask` adds into the vector itself, `mask_compressed` into a buffer the
chunk was copied to (`MaskBufExact`), so that the element of the vector is behind
until `SetChunk`. That `mask`'s loop bound, a minimum of two unsigned differences,
is the length of the chunk is the lemma `VectorGeometry`.

`ConstructionProofs`, for every finite set of channel names and every set of
encodings that is not empty (`InputAssumption`):

| theorem | states |
|---|---|
| `TypeCorrect` | `Spec => []TypeOK` |
| `PairsSorted` | `Spec => []PairsInOrder` |
| `ChannelsKept` | `Spec => []EachChannelInOnePlace` |
| `AlwaysDecodable` | `Spec => []DecodableUntilMoved` |
| `RefusalsJustified` | `Spec => []WellFormedAccepted` |

The properties speak of a call that has ended; what went before only the invariant
knows. In the store loops the stored names and the pending ones
are together those handed over (`Kept`, which counts them, so none is stored twice);
the one of the two objects that has the channels is their `Holder` (`Held`); a call
that threw had a reason (`Refused`). For the order it says that the stored names
have the keys `4 * index + type` from 0 on without a gap and the pending ones the
rest (`Ordered`). That is inductive because the keys of a set of the prescribed form
are an initial segment of the numbers (`CanonicalKeys`), so the least pending
channel, whichever the sort takes, has the next one (`NextKey`).

`MaskNamingProofs`, for every manifest and every call, from `NamingAssumption`
(zeros are hashes, different hashes are written differently):

| theorem | states |
|---|---|
| `TypeCorrect` | `Spec => []TypeOK` |
| `UnknownNamesThrow` | `Spec => []ThrowsOnUnknown` |
| `NamesTrue` | `Spec => []NoMislabelledMask` |
| `MasksAllNamed` | `Spec => []EachMaskNamed` |

The invariant follows the call: the names looked up are those of the argument
(`NamesAsked`), each has the manifest's hash (`HashesFound`), and the result names
each key of the decoded map that is no longer pending, and nothing else
(`MasksNamed`). The rest is about data. Which name a key gets is the last of its
entries in the manifest (`NameOfFacts`, `EntryNames`, by the largest of a finite set
of places), and with an unambiguous manifest two keys that are different floats get
different names (`NamesApart`), so that no round of the loop overwrites another's.

`LoadingProofs`, for every set of files and scripts of logger calls that satisfies
`FileAssumption` (an attribute is given at most once per key, typenames have an
order, the text of a manifest is text) and for the two threads of `ThreadAssumption`:

| theorem | states |
|---|---|
| `TypeCorrect` | `Spec => []TypeOK` |
| `MetadataCorrect` | `Spec => []MetadataOwn` |
| `CryptomattesCorrect` | `Spec => []CryptomattesOwn` |
| `FailuresJustified` | `Spec => []FailsExactlyIfWrong` |
| `ManifestsSurvived` | `Spec => []BrokenManifestSurvives` |
| `LoggerStays` | `Spec => []LoggerKept` |
| `HashesCorrect` | `Spec => []HashesAsWritten` |
| `HashesReadBack` | the text of each 32-bit number decodes to that number |

`LoggerStays` covers both ways `get_logger` can end: what it returns, and that it throws
only behind a default logger that was taken away (`TakenAway`).

Most of these properties speak of the end. Before it, the metadata of each key is
what the attributes up to `position` make of it: its name is the one read, its
manifest that of the last manifest attribute read (`ParsedSoFar`). The sort leaves
each key once in the list (`ListedOnce`, which counts them), each entry selects the
channels of its name (`SelectedOwn`), and a channel that was selected is in the
image still or has gone to an earlier cryptomatte that selected it too
(`DividedOwn`): an extraction that fails, therefore, has a channel two of them share,
which is one of the reasons listed (`Blamed`). The logger has its own part
(`LoggerInv`): while calls have not overlapped, one thread at most is inside
(`OneAtATime`), and at each place of `get_logger` the global and the registry are as
that place expects (`GetsHeld`). A warning that throws is then one behind a logger
that was taken away, which `BrokenManifestSurvives` excepts.

About the hash texts, for every length (`HexLengthAssumption`) and so for the code's
eight characters: a text of digits only is read as its value, of both cases
(`PlainIsRead`, `PrintedIsRead`); any other text that is read at all is too short in
digits to reach the place of the first one (`OthersAreSmall`), which is why no broken
text decodes to a number that large. The places and the value of a sequence of digits
are recursive functions. That they exist and obey their equations is proved here
(`Recursion`, `PlaceValues`, `PositionalIs`) from an induction for sets of numbers
(`CountingUp`), which is drawn from the well-foundedness of the strict subsets of a
finite set, as the library's induction theorems are stated for operators. The bounds
are `PlacesGrow` and `PositionalBound`; `CutOff` says that the places printed up to one
are the number divided by the place.

`BenchmarkProofs`, for every set of profiled threads and every number of scopes,
sessions, runs and iterations (`WriterAssumption`, `BenchmarkAssumption`):

| theorem | states |
|---|---|
| `TypeCorrect` | `Spec => []TypeOK` |
| `TraceCorrect` | `Spec => []TraceWellFormed` |
| `SamplesOwn` | `Spec => []SamplesOfThisRun` |

`TraceWellFormed` speaks of a file that is closed. Before, in a session nothing
strayed into, the file is a header followed by events and commas in turn; its length
is twice the count, or one less while an event is still to come, since `WriteProfile`
counts a scope when it writes the comma before it (`BodyLength`, `Alternates`); and the
scopes in it are those that have ended without those that are still being written
(`FileInv`). That nobody writes when no session is running (`QuietInv`) and that a new
session starts from zero (`FreshInv`) is what a strayed scope breaks, for one session.
The samples are the main thread's own because the sampler lives inside a run only:
`run_benchmark` joins it before it analyses, and starts a new one behind that
(`MainInv`).

The invariants of all these modules were checked by TLC, on the instances of the runs
and before they were proved.

**Only model-checked.** Liveness: `ScanReturns`, `Returns` and `Ends`, and of
`ImplementsExtraction` that an answer is given at all (its safety part are the two
theorems `ExtractionImplemented`). Liveness under fairness, like `ENABLED` and so the
absence of deadlock, is out of the prover's reach.

## 6. Not modelled

- NaN ranks and NaN hashes. The encoding excludes them, the code does not check: for a
  rank `mask_spans.at` would throw inside a parallel loop, and a hash that is a NaN
  equals no key in `map_to_string`, not even itself (`Same` takes it for equal).
- Zero threads: `hardware_concurrency()` may return 0 and is divided by.
- Failed allocations and errors of the compression library, and a file that opens but
  cannot be read: `compressed::image::read` may throw for it, which `ReadImage` does only
  if it is asked for no channel.
- Names character by character: `str::split`, `lstrip`, `join`.
- OpenImageIO, spdlog, the json parser and the compressed-image library, but for
  what the code uses of them.
- The metadata constructor that takes the fields (it compares two constants), and
  the chunk and block sizes `load` chooses.
- Of the Python bindings, the conversion of arrays and the wrappers of single
  functions. The text of the profiler's events.

## 7. State of the work

Every part of the library that keeps state is modelled, and so are the programs
around it. The runs check these models on small instances, in every interleaving, and
section 5 proves what they check, liveness apart, for all instances.

What could be added: the metadata constructor that takes the fields, as an initial
state of `Loading`, if it ever does more than compare constants; NaN ranks, if the
decoders come to treat them; zero threads, if `accumulate_ids_in_rank_chunk` comes to
test for them.

A change of the code is brought in at the definition that PROJECT.json maps to its
lines: first the action, then the run, and where an invariant of section 5 breaks,
the lemma of that action shows in which part.
