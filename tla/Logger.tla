--------------------------------- MODULE Logger ---------------------------------
(***************************************************************************)
(* logger.cpp: get_logger and set_logger, called by several threads.  The  *)
(* logger is a global shared_ptr without a lock: get_logger tests it,      *)
(* registers a default logger with spdlog (whose registry has a lock, and  *)
(* throws if the name is taken), assigns it, sets its level and copies it. *)
(* spdlog's registry keeps the default logger for good.                    *)
(*                                                                         *)
(* An access that meets a write of the shared_ptr is undefined behaviour;  *)
(* here the process may end at that moment, or the two happen one after    *)
(* the other.  So is the use of a null pointer, which ends the process.    *)
(***************************************************************************)
EXTENDS Sequences, FiniteSets

CONSTANT Threads

Null == "null"
Default == "default"
User == "user"

VARIABLES
    s_logger,    \* the global: Null, Default or User
    registered,  \* spdlog's registry holds a logger of the default name
    at,          \* where in get_logger or set_logger each thread is
    got,         \* what get_logger last returned to each thread
    alive,       \* the process has not ended
    sets,        \* history: the arguments of the completed set_logger calls
    alone        \* history: so far no two calls have overlapped

loggerVars == <<s_logger, registered, at, got, alive, sets, alone>>

LoggerInit ==
    /\ s_logger = Null
    /\ registered = FALSE
    /\ at = [t \in Threads |-> "outside"]
    /\ got = [t \in Threads |-> Null]
    /\ alive = TRUE
    /\ sets = <<>>
    /\ alone = TRUE

\* Thread t goes on at place.
Goes(t, place) ==
    /\ at' = [at EXCEPT ![t] = place]
    /\ alone' = (alone /\ (place = "outside" \/ \A u \in Threads \ {t} : at[u] = "outside"))

EnterGetLogger(t) ==
    /\ at[t] = "outside"
    /\ Goes(t, "test")
    /\ UNCHANGED <<s_logger, registered, got, alive, sets>>

\* Mutant of TestLogger: a default logger each time.
TestNothing(t) ==
    /\ at[t] = "test"
    /\ Goes(t, "create")
    /\ UNCHANGED <<s_logger, registered, got, alive, sets>>

TestLogger(t) ==
    /\ at[t] = "test"
    /\ Goes(t, IF s_logger = Null THEN "create" ELSE "copy")
    /\ UNCHANGED <<s_logger, registered, got, alive, sets>>

\* spdlog::stdout_color_mt.
CreateDefault(t) ==
    /\ at[t] = "create"
    /\ registered' = TRUE
    /\ Goes(t, IF registered THEN "threw" ELSE "assign")
    /\ UNCHANGED <<s_logger, got, alive, sets>>

\* Mutant of AssignDefault: the new logger is only returned.
ReturnDefault(t) ==
    /\ at[t] = "assign"
    /\ got' = [got EXCEPT ![t] = Default]
    /\ Goes(t, "returned")
    /\ UNCHANGED <<s_logger, registered, alive, sets>>

AssignDefault(t) ==
    /\ at[t] = "assign"
    /\ s_logger' = Default
    /\ Goes(t, "level")
    /\ UNCHANGED <<registered, got, alive, sets>>

SetLevel(t) ==
    /\ at[t] = "level"
    /\ alive' = (s_logger # Null)
    /\ Goes(t, "copy")
    /\ UNCHANGED <<s_logger, registered, got, sets>>

CopyLogger(t) ==
    /\ at[t] = "copy"
    /\ got' = [got EXCEPT ![t] = s_logger]
    /\ Goes(t, "returned")
    /\ UNCHANGED <<s_logger, registered, alive, sets>>

\* The caller has the result, or the exception.
LeaveGetLogger(t) ==
    /\ at[t] \in {"returned", "threw"}
    /\ Goes(t, "outside")
    /\ UNCHANGED <<s_logger, registered, got, alive, sets>>

EnterSetLogger(t) ==
    /\ at[t] = "outside"
    /\ Goes(t, "set")
    /\ UNCHANGED <<s_logger, registered, got, alive, sets>>

SetLogger(t, new_logger) ==
    /\ at[t] = "set"
    /\ s_logger' = new_logger
    /\ sets' = Append(sets, new_logger)
    /\ Goes(t, "outside")
    /\ UNCHANGED <<registered, got, alive>>

\* Two threads at the shared_ptr at once, one of them writing.
Writing(t) == at[t] \in {"assign", "set"}
Accessing(t) == Writing(t) \/ at[t] \in {"test", "level", "copy"}

Collide ==
    /\ \E t, u \in Threads : t # u /\ Writing(t) /\ Accessing(u)
    /\ alive' = FALSE
    /\ UNCHANGED <<s_logger, registered, at, got, sets, alone>>

\* The rest of a call of get_logger that has been entered.
GetLogger(t) ==
    TestLogger(t) \/ CreateDefault(t) \/ AssignDefault(t) \/ SetLevel(t) \/ CopyLogger(t)

LoggerTypeOK ==
    /\ s_logger \in {Null, Default, User}
    /\ registered \in BOOLEAN
    /\ at \in [Threads -> {"outside", "test", "create", "assign", "level", "copy",
                           "returned", "threw", "set"}]
    /\ got \in [Threads -> {Null, Default, User}]
    /\ alive \in BOOLEAN
    /\ sets \in Seq({Null, User})
    /\ alone \in BOOLEAN

\* The logger of the last set_logger.
Chosen == IF sets = <<>> THEN Null ELSE sets[Len(sets)]

\* The default logger was created, and then replaced by set_logger(nullptr): its name
\* is registered still and cannot be registered again.
TakenAway == registered /\ Chosen = Null /\ sets # <<>>

\* As long as no call overlaps another, get_logger either returns the logger last set,
\* or the default one if none is; or it throws, after the default logger was taken away
\* and in no other case: over any sequence of calls the default logger is created once,
\* by the first call that needs it.  That it throws at all is against logger.h
\* (LoggerAvailable).
LoggerKept ==
    alone => \A t \in Threads :
        /\ at[t] = "returned" => got[t] = IF Chosen = Null THEN Default ELSE Chosen
        /\ at[t] = "threw" => TakenAway

\* logger.h, set_logger: "If no logger is set, the library will lazily create a default
\* one"; get_logger: "If no logger has been previously set via set_logger, this function
\* will initialize a default logger".  So get_logger never throws, whatever was set before.
LoggerAvailable == alone => \A t \in Threads : at[t] # "threw"
=============================================================================
