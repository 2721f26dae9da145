-------------------------------- MODULE Profiling --------------------------------
(***************************************************************************)
(* detail::Instrumentor and InstrumentationTimer of scoped_timer.h: scopes *)
(* that end write an event each to one stream, under a lock; the session   *)
(* that opens and closes the stream does so without it.                    *)
(*                                                                         *)
(* The file is the sequence of the tokens in it.  What is written to a     *)
(* stream that is not open is lost.                                        *)
(***************************************************************************)
EXTENDS Naturals, Sequences

CONSTANTS
    Writers,    \* the threads that enter profiled scopes
    Nobody,     \* no thread
    MaxScopes   \* bound: the scopes each of them enters

ASSUME WriterAssumption == Nobody \notin Writers /\ MaxScopes \in Nat

VARIABLES
    session,        \* how far BeginSession and EndSession are
    open,           \* m_OutputStream.is_open()
    file,           \* results.json
    m_ProfileCount, \* the events counted since the last reset
    m_lock,         \* the writer that holds the lock
    writing,        \* where in WriteProfile each writer is
    scopes,         \* the number of scopes each writer has ended
    due,            \* history: the scopes that ended in this session
    strayed         \* history: since the reset, one ended outside a running session

sessionVars == <<session, open, file, m_ProfileCount>>
writerVars == <<m_lock, writing, scopes>>
profilingVars == <<sessionVars, writerVars, due, strayed>>

Token(kind) == [token |-> kind]
Event(scope) == [token |-> "event", scope |-> scope]

ProfilingInit ==
    /\ session = "none"
    /\ open = FALSE
    /\ file = <<>>
    /\ m_ProfileCount = 0
    /\ m_lock = Nobody
    /\ writing = [t \in Writers |-> "no"]
    /\ scopes = [t \in Writers |-> 0]
    /\ due = {}
    /\ strayed = FALSE

Put(token) == file' = IF open THEN Append(file, token) ELSE file

\* Whether any thread is in WriteProfile while no session is running.
Astray == \E t \in Writers : writing[t] # "no" /\ session # "running"

-----------------------------------------------------------------------------
(* BeginSession and EndSession.                                            *)

OpenFile ==
    /\ session = "none"
    /\ open' = TRUE
    /\ file' = <<>>
    /\ session' = "opened"
    /\ due' = {}
    /\ strayed' = (strayed \/ Astray)
    /\ UNCHANGED <<m_ProfileCount, writerVars>>

WriteHeader ==
    /\ session = "opened"
    /\ Put(Token("header"))
    /\ session' = "running"
    /\ strayed' = (strayed \/ Astray)
    /\ UNCHANGED <<open, m_ProfileCount, writerVars, due>>

WriteFooter ==
    /\ session = "running"
    /\ Put(Token("footer"))
    /\ session' = "ending"
    /\ strayed' = (strayed \/ \E t \in Writers : writing[t] # "no")
    /\ UNCHANGED <<open, m_ProfileCount, writerVars, due>>

CloseFile ==
    /\ session = "ending"
    /\ open' = FALSE
    /\ session' = "closed"
    /\ UNCHANGED <<file, m_ProfileCount, writerVars, due, strayed>>

\* Mutant of ResetCount: the count goes on in the next session.
KeepCount ==
    /\ session = "closed"
    /\ session' = "none"
    /\ strayed' = \E t \in Writers : writing[t] # "no"
    /\ UNCHANGED <<open, file, m_ProfileCount, writerVars, due>>

ResetCount ==
    /\ session = "closed"
    /\ m_ProfileCount' = 0
    /\ session' = "none"
    /\ strayed' = \E t \in Writers : writing[t] # "no"
    /\ UNCHANGED <<open, file, writerVars, due>>

BeginSession == OpenFile \/ WriteHeader
EndSession == WriteFooter \/ CloseFile \/ ResetCount

-----------------------------------------------------------------------------
(* The destructor of a timer, and WriteProfile.                            *)

Scope(t) == <<t, scopes[t]>>

EndScope(t) ==
    /\ writing[t] = "no"
    /\ scopes[t] < MaxScopes
    /\ scopes' = [scopes EXCEPT ![t] = @ + 1]
    /\ writing' = [writing EXCEPT ![t] = "lock"]
    /\ due' = due \cup {<<t, scopes[t] + 1>>}
    /\ strayed' = (strayed \/ session # "running")
    /\ UNCHANGED <<sessionVars, m_lock>>

\* Mutant of Lock: the lock is not waited for.
LockAnyway(t) ==
    /\ writing[t] = "lock"
    /\ m_lock' = t
    /\ writing' = [writing EXCEPT ![t] = "comma"]
    /\ UNCHANGED <<sessionVars, scopes, due, strayed>>

Lock(t) ==
    /\ writing[t] = "lock"
    /\ m_lock = Nobody
    /\ m_lock' = t
    /\ writing' = [writing EXCEPT ![t] = "comma"]
    /\ UNCHANGED <<sessionVars, scopes, due, strayed>>

WriteComma(t) ==
    /\ writing[t] = "comma"
    /\ IF m_ProfileCount > 0 THEN Put(Token("comma")) ELSE UNCHANGED file
    /\ m_ProfileCount' = m_ProfileCount + 1
    /\ writing' = [writing EXCEPT ![t] = "event"]
    /\ UNCHANGED <<session, open, m_lock, scopes, due, strayed>>

\* The lock is released on return.
WriteEvent(t) ==
    /\ writing[t] = "event"
    /\ Put(Event(Scope(t)))
    /\ m_lock' = Nobody
    /\ writing' = [writing EXCEPT ![t] = "no"]
    /\ UNCHANGED <<session, open, m_ProfileCount, scopes, due, strayed>>

WriteProfile(t) == Lock(t) \/ WriteComma(t) \/ WriteEvent(t)

-----------------------------------------------------------------------------
ProfilingTypeOK ==
    /\ session \in {"none", "opened", "running", "ending", "closed"}
    /\ open \in BOOLEAN
    /\ \A j \in DOMAIN file : file[j].token \in {"header", "comma", "event", "footer"}
    /\ m_ProfileCount \in Nat
    /\ m_lock \in Writers \cup {Nobody}
    /\ writing \in [Writers -> {"no", "lock", "comma", "event"}]
    /\ \A t \in Writers : writing[t] \in {"comma", "event"} => m_lock = t
    /\ scopes \in [Writers -> 0 .. MaxScopes]
    /\ due \subseteq Writers \X (1 .. MaxScopes)
    /\ strayed \in BOOLEAN

\* An array of events with commas between them, and nothing else.
WellFormed(tokens) ==
    LET n == Len(tokens) IN
    /\ n = 2 \/ n % 2 = 1
    /\ \A j \in 1 .. n :
          tokens[j].token = IF j = 1 THEN "header" ELSE IF j = n THEN "footer"
                            ELSE IF j % 2 = 0 THEN "event" ELSE "comma"

\* scoped_timer.h: the profiler is "to be used for chrome://tracing", which reads JSON.  When a
\* session is closed its file is a well-formed array with each scope that ended in
\* it once, from whatever threads and in whatever order, unless a scope has ended
\* before or after the session or while it was being begun or ended.  A stray
\* scope spoils one file at most: its comma or its count is gone with the reset.
TraceWellFormed ==
    session = "closed" /\ ~strayed =>
        /\ WellFormed(file)
        /\ {file[j].scope : j \in {k \in DOMAIN file : file[k].token = "event"}} = due
        /\ \A j, k \in DOMAIN file : file[j] = file[k] /\ file[j].token = "event" => j = k
=============================================================================
