------------------------------ MODULE AccumulateIds ------------------------------
(***************************************************************************)
(* detail::accumulate_ids_in_rank_chunk: collect the distinct nonzero      *)
(* values of a rank buffer in parallel.  The buffer is cut into            *)
(* thread_count blocks of equal size, rounded up; each iteration of the    *)
(* parallel loop scans one block into a set of its own, without locks, and *)
(* after the loop the calling thread merges the sets.                      *)
(*                                                                         *)
(* The buffer is the rank buffer of a decoder, of chunk_size elements: the *)
(* decoders' modules have this call in one step, with the result NonZero.  *)
(***************************************************************************)
EXTENDS RankCoverage

CONSTANT ThreadCount   \* thread_count; the callers pass hardware_concurrency()

ASSUME ThreadCountAssumption == ThreadCount \in Nat \ {0}

VARIABLES
    rank_chunk,     \* the buffer, read by all threads
    cursor,         \* cursor[t]: the loop variable i of thread t
    local_sets,     \* thread_local_sets
    merged,         \* the threads whose sets the caller has merged
    ids_in_chunk    \* the result

scanVars == <<rank_chunk, cursor, local_sets, merged, ids_in_chunk>>

Threads == 0 .. ThreadCount - 1

\* Mutant of BlockSize: rounded down.
BlockSizeDown == ChunkElems \div ThreadCount

BlockSize == (ChunkElems + ThreadCount - 1) \div ThreadCount

\* A late thread's block may start behind the buffer, and is then empty.
BlockStart(t) == t * BlockSize

\* Mutant of BlockEnd: a block that may reach past the buffer.
BlockEndUnclamped(t) == BlockStart(t) + BlockSize

BlockEnd(t) == IF BlockStart(t) + BlockSize < ChunkElems THEN BlockStart(t) + BlockSize
               ELSE ChunkElems

Scanning(t) == cursor[t] < BlockEnd(t)

ScanInit ==
    /\ rank_chunk \in [Slots -> Vals]
    /\ cursor = [t \in Threads |-> BlockStart(t)]
    /\ local_sets = [t \in Threads |-> {}]
    /\ merged = {}
    /\ ids_in_chunk = {}

\* Mutants of ScanElement: no zero test; `continue` before the increment.
ScanAnyElement(t) ==
    /\ Scanning(t)
    /\ local_sets' = [local_sets EXCEPT ![t] = @ \cup {rank_chunk[cursor[t]]}]
    /\ cursor' = [cursor EXCEPT ![t] = @ + 1]
    /\ UNCHANGED <<rank_chunk, merged, ids_in_chunk>>
ScanElementStuck(t) ==
    /\ Scanning(t)
    /\ local_sets' = [local_sets EXCEPT ![t] = @ \cup ({rank_chunk[cursor[t]]} \ {Zero})]
    /\ cursor' = [cursor EXCEPT ![t] = IF rank_chunk[cursor[t]] = Zero THEN @ ELSE @ + 1]
    /\ UNCHANGED <<rank_chunk, merged, ids_in_chunk>>

\* One round of the scan of thread t.
ScanElement(t) ==
    /\ Scanning(t)
    /\ local_sets' = [local_sets EXCEPT ![t] = @ \cup ({rank_chunk[cursor[t]]} \ {Zero})]
    /\ cursor' = [cursor EXCEPT ![t] = @ + 1]
    /\ UNCHANGED <<rank_chunk, merged, ids_in_chunk>>

\* for_each returns once every iteration has; then the sets are merged in turn.
MergeLocalSet(t) ==
    /\ \A u \in Threads : ~Scanning(u)
    /\ t \notin merged
    /\ \A u \in Threads : u < t => u \in merged
    /\ ids_in_chunk' = ids_in_chunk \cup local_sets[t]
    /\ merged' = merged \cup {t}
    /\ UNCHANGED <<rank_chunk, cursor, local_sets>>

ScanReturned == merged = Threads

ScanTerminated == ScanReturned /\ UNCHANGED scanVars

ScanNext ==
    \/ \E t \in Threads : ScanElement(t) \/ MergeLocalSet(t)
    \/ ScanTerminated

\* Each iteration of the parallel loop makes progress on its own.
ScanFairness == \A t \in Threads : WF_scanVars(ScanElement(t)) /\ WF_scanVars(MergeLocalSet(t))

ScanSpec == ScanInit /\ [][ScanNext]_scanVars /\ ScanFairness

-----------------------------------------------------------------------------
\* A set of positions of the buffer that thread t has scanned, or will scan.
Block(t) == {i \in Slots : BlockStart(t) <= i /\ i < BlockEnd(t)}

ScanTypeOK ==
    /\ rank_chunk \in [Slots -> Vals]
    /\ cursor \in [Threads -> Nat]
    /\ local_sets \in [Threads -> SUBSET Ids]
    /\ merged \in SUBSET Threads
    /\ ids_in_chunk \in SUBSET Ids

\* Each thread knows exactly the ids of the part of its block behind its cursor,
\* whatever the others do, and never reads outside the buffer.
LocalSetsExact ==
    \A t \in Threads :
        /\ Scanning(t) => cursor[t] \in Slots
        /\ local_sets[t] = {rank_chunk[i] : i \in {j \in Block(t) : j < cursor[t]}} \ {Zero}

\* The blocks cut the buffer without gap or overlap, for every remainder of the
\* division and for more threads than elements; so the merged result is the set
\* of nonzero values of the buffer: the decoders' mask_spans.at relies on it.
ResultExact ==
    ScanReturned => ids_in_chunk = NonZero(rank_chunk)

\* The scan returns, whatever the order in which the threads run.
ScanReturns == <>ScanReturned
=============================================================================
