-------------------------------- MODULE Benchmark --------------------------------
(***************************************************************************)
(* The benchmark program: main opens a profiling session, runs benchmarks  *)
(* and closes the session; run_with_memory_sampling starts a thread that   *)
(* samples the memory in use while the benchmarked function iterates, and  *)
(* waits for it before it looks at the samples.                            *)
(*                                                                         *)
(* The function loads and decodes, so each iteration ends profiled scopes  *)
(* on the main thread.  The instrumentor is shared by the whole process:   *)
(* other threads that use the library end theirs at any time.              *)
(***************************************************************************)
EXTENDS Profiling

CONSTANTS
    Main,       \* the thread of main(), one of the writers
    Sessions,   \* bound: profiling sessions one after the other; main() has one
    Runs,       \* bound: the calls of run_with_memory_sampling
    Iterations  \* the iterations of each, 3 in main()

ASSUME BenchmarkAssumption ==
    /\ Main \in Writers
    /\ Sessions \in Nat \ {0}
    /\ Runs \in Nat
    /\ Iterations \in Nat
    /\ Runs * Iterations <= MaxScopes

VARIABLES
    pc,         \* where main() and run_with_memory_sampling are
    sessions,   \* the number of sessions begun
    run,        \* the number of the run
    iteration,  \* the iterations done in it
    g_sampling, \* whether to sample
    sampler,    \* where memory_profiler is
    mem_used,   \* the measurement it holds, known by the run it was taken in
    samples     \* g_memory_samples, as the set of the runs it has measurements of

mainVars == <<pc, sessions, run, iteration>>
samplingVars == <<g_sampling, sampler, mem_used, samples>>
vars == <<mainVars, samplingVars, profilingVars>>

Init ==
    /\ ProfilingInit
    /\ pc = "begin"
    /\ sessions = 0
    /\ run = 0
    /\ iteration = 0
    /\ g_sampling = FALSE
    /\ sampler = "none"
    /\ mem_used = 0
    /\ samples = {}

Busy(t) == writing[t] # "no"

-----------------------------------------------------------------------------
(* main.                                                                   *)

Begin ==
    /\ pc = "begin"
    /\ BeginSession
    /\ pc' = IF session' = "running" THEN "benchmarks" ELSE "begin"
    /\ sessions' = IF session = "none" THEN sessions + 1 ELSE sessions
    /\ UNCHANGED <<run, iteration, samplingVars>>

\* get_images has no directory to look into, or the file of a benchmark does not
\* load: nothing in main() catches it.
Throw ==
    /\ pc = "benchmarks"
    /\ pc' = "terminated"
    /\ UNCHANGED <<sessions, run, iteration, samplingVars, profilingVars>>

\* RunSpecifiedBenchmarks comes back.
End ==
    /\ pc = "benchmarks" \/ pc = "end"
    /\ EndSession
    /\ pc' = IF session' # "none" THEN "end" ELSE IF sessions < Sessions THEN "begin" ELSE "exit"
    /\ UNCHANGED <<sessions, run, iteration, samplingVars>>

-----------------------------------------------------------------------------
(* run_with_memory_sampling.                                               *)

\* Mutant of StartSampling: the samples of the run before are kept.
StartSamplingAgain ==
    /\ pc = "benchmarks"
    /\ run < Runs
    /\ run' = run + 1
    /\ iteration' = 0
    /\ g_sampling' = TRUE
    /\ sampler' = "test"
    /\ pc' = "iterate"
    /\ UNCHANGED <<sessions, mem_used, samples, profilingVars>>

\* The samples are cleared without the lock: no sampler is left.
StartSampling ==
    /\ pc = "benchmarks"
    /\ run < Runs
    /\ run' = run + 1
    /\ iteration' = 0
    /\ samples' = {}
    /\ g_sampling' = TRUE
    /\ sampler' = "test"
    /\ pc' = "iterate"
    /\ UNCHANGED <<sessions, mem_used, profilingVars>>

\* One iteration ends, and with it the scope it is profiled as.
Iterate ==
    /\ pc = "iterate"
    /\ iteration < Iterations
    /\ iteration' = iteration + 1
    /\ EndScope(Main)
    /\ UNCHANGED <<pc, sessions, run, samplingVars>>

\* The function throws.  Unwinding would destroy mem_thread, which is joinable.
FunctionThrows ==
    /\ pc = "iterate"
    /\ iteration < Iterations
    /\ ~Busy(Main)
    /\ pc' = "terminated"
    /\ UNCHANGED <<sessions, run, iteration, samplingVars, profilingVars>>

\* Mutant of StopSampling: the flag is left for the next run to set.
StopNothing ==
    /\ pc = "iterate"
    /\ iteration = Iterations
    /\ ~Busy(Main)
    /\ pc' = "join"
    /\ UNCHANGED <<sessions, run, iteration, samplingVars, profilingVars>>

StopSampling ==
    /\ pc = "iterate"
    /\ iteration = Iterations
    /\ ~Busy(Main)
    /\ g_sampling' = FALSE
    /\ pc' = "join"
    /\ UNCHANGED <<sessions, run, iteration, sampler, mem_used, samples, profilingVars>>

\* Mutant of Join: the thread is detached.
Detach ==
    /\ pc = "join"
    /\ pc' = "analyse"
    /\ UNCHANGED <<sessions, run, iteration, samplingVars, profilingVars>>

Join ==
    /\ pc = "join"
    /\ sampler = "ended"
    /\ pc' = "analyse"
    /\ UNCHANGED <<sessions, run, iteration, samplingVars, profilingVars>>

\* The counters are written from the samples; the benchmark returns to main.
Analyse ==
    /\ pc = "analyse"
    /\ pc' = "benchmarks"
    /\ UNCHANGED <<sessions, run, iteration, samplingVars, profilingVars>>

RunWithMemorySampling ==
    StartSampling \/ Iterate \/ FunctionThrows \/ StopSampling \/ Join \/ Analyse

-----------------------------------------------------------------------------
(* memory_profiler.                                                        *)

Alive == pc \notin {"exit", "terminated"}

TestSampling ==
    /\ Alive
    /\ sampler = "test"
    /\ sampler' = IF g_sampling THEN "measure" ELSE "ended"
    /\ UNCHANGED <<mainVars, g_sampling, mem_used, samples, profilingVars>>

Measure ==
    /\ Alive
    /\ sampler = "measure"
    /\ mem_used' = run
    /\ sampler' = "push"
    /\ UNCHANGED <<mainVars, g_sampling, samples, profilingVars>>

\* Under g_mem_mutex; the thread then sleeps and tests again.
PushSample ==
    /\ Alive
    /\ sampler = "push"
    /\ samples' = samples \cup {mem_used}
    /\ sampler' = "test"
    /\ UNCHANGED <<mainVars, g_sampling, mem_used, profilingVars>>

MemoryProfiler == TestSampling \/ Measure \/ PushSample

-----------------------------------------------------------------------------
(* Profiled scopes.                                                        *)

WriteOwnProfile(t) ==
    /\ Alive
    /\ WriteProfile(t)
    /\ UNCHANGED <<mainVars, samplingVars>>

OtherScope ==
    /\ Alive
    /\ \E t \in Writers \ {Main} : EndScope(t)
    /\ UNCHANGED <<mainVars, samplingVars>>

\* The program has ended, or been ended.
Over ==
    /\ ~Alive
    /\ UNCHANGED vars

MainStep == Begin \/ Throw \/ End \/ RunWithMemorySampling

Next ==
    \/ MainStep
    \/ MemoryProfiler
    \/ \E t \in Writers : WriteOwnProfile(t)
    \/ OtherScope
    \/ Over

\* Every thread of the program runs on; a writer that waits for the lock is served
\* at last, for each of the others enters a bounded number of scopes.
Fairness ==
    /\ WF_vars(MainStep)
    /\ WF_vars(MemoryProfiler)
    /\ \A t \in Writers : WF_vars(WriteOwnProfile(t))

Spec == Init /\ [][Next]_vars /\ Fairness

-----------------------------------------------------------------------------
TypeOK ==
    /\ ProfilingTypeOK
    /\ pc \in {"begin", "benchmarks", "iterate", "join", "analyse", "end", "exit", "terminated"}
    /\ sessions \in 0 .. Sessions
    /\ run \in 0 .. Runs
    /\ iteration \in 0 .. Iterations
    /\ g_sampling \in BOOLEAN
    /\ sampler \in {"none", "test", "measure", "push", "ended"}
    /\ mem_used \in 0 .. Runs
    /\ samples \subseteq 1 .. Runs

\* run_with_memory_sampling clears the samples before it starts a sampler, and reads their
\* size after it has joined it, both without the lock: at neither of these places is a
\* sampler left, be it one of an earlier run, and none of the samples is from an
\* earlier run when they are analysed.
SamplesOfThisRun ==
    /\ pc \in {"benchmarks", "analyse"} => sampler \in {"none", "ended"} /\ ~g_sampling
    /\ pc = "analyse" => samples \subseteq {run}

\* main and run_with_memory_sampling: the join always comes through, for whatever the
\* sampler is doing it sees the flag down at its next test, and the program ends.
Ends == <>~Alive
==================================================================================
