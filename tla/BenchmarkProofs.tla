---------------------------- MODULE BenchmarkProofs ----------------------------
(***************************************************************************)
(* What the benchmark program and the profiling it uses keep, for any      *)
(* number of threads, scopes, sessions, runs and iterations.               *)
(*                                                                         *)
(* Two invariants, one for each half.  The first says what the file of an  *)
(* unspoilt session holds at every moment: a header, then events and       *)
(* commas in turn, as many as the count says, and exactly the scopes that  *)
(* ended and are not being written.  The second says who may touch the     *)
(* samples: the sampler lives in a run only.                               *)
(***************************************************************************)
EXTENDS Benchmark, TLAPS

(***************************************************************************)
(* The parts of the invariants.  What a part says of the file is an        *)
(* operator of the values it is about, for the sake of its next value.     *)
(***************************************************************************)

\* The tokens the program puts into a file.
Tokens ==
    {Token(kind) : kind \in {"header", "comma", "footer"}}
        \cup {Event(s) : s \in Writers \X (1 .. MaxScopes)}

\* The scopes whose events are in a file.
ScopesIn(tokens) ==
    {tokens[j].scope : j \in {k \in DOMAIN tokens : tokens[k].token = "event"}}

EachScopeOnce(tokens) ==
    \A j, k \in DOMAIN tokens : tokens[j] = tokens[k] /\ tokens[j].token = "event" => j = k

\* The scopes that have ended and whose events are still to be written.
Pending(where, ended) == {<<t, ended[t]>> : t \in {u \in Writers : where[u] # "no"}}

AtEvent(where) == \E t \in Writers : where[t] = "event"

\* The length of the file without its footer: the count runs ahead of an event
\* by the comma before it.
BodyLength(count, where) ==
    IF count = 0 THEN 1 ELSE IF AtEvent(where) THEN 2 * count - 1 ELSE 2 * count

Alternates(tokens, n) ==
    \A j \in 1 .. n :
       tokens[j].token = IF j = 1 THEN "header" ELSE IF j % 2 = 0 THEN "event" ELSE "comma"

-----------------------------------------------------------------------------
StreamInv ==
    /\ ProfilingTypeOK
    /\ file \in Seq(Tokens)
    /\ open <=> session \in {"opened", "running", "ending"}
    /\ \A t \in Writers, n \in Nat : <<t, n>> \in due => n <= scopes[t]
    /\ \A t \in Writers : writing[t] # "no" => scopes[t] > 0

\* Nobody writes outside a running session, or the file is spoilt.
QuietInv == ~strayed /\ session # "running" => \A t \in Writers : writing[t] = "no"

\* A session begins with nothing counted, and an empty file.
FreshInv ==
    ~strayed =>
        /\ session \in {"none", "opened"} => m_ProfileCount = 0
        /\ session = "opened" => file = <<>> /\ due = {}

\* The file so far, the footer apart.
FileInv ==
    ~strayed =>
        /\ AtEvent(writing) => m_ProfileCount > 0
        /\ Pending(writing, scopes) \subseteq due
        /\ session \in {"running", "ending", "closed"} =>
              /\ Alternates(file, BodyLength(m_ProfileCount, writing))
              /\ ScopesIn(file) = due \ Pending(writing, scopes)
              /\ EachScopeOnce(file)
        /\ session = "running" => Len(file) = BodyLength(m_ProfileCount, writing)
        /\ session \in {"ending", "closed"} =>
              /\ Len(file) = BodyLength(m_ProfileCount, writing) + 1
              /\ file[Len(file)] = Token("footer")

ProfilingInv == StreamInv /\ QuietInv /\ FreshInv /\ FileInv

\* main and the sampler.
MainInv ==
    /\ TypeOK
    /\ pc = "begin" /\ session = "none" => sessions < Sessions
    /\ sampler # "none" => run > 0
    /\ sampler = "push" => mem_used = run
    /\ sampler \in {"test", "measure", "push"} => pc \in {"iterate", "join", "terminated"}
    /\ g_sampling => pc \in {"iterate", "terminated"}
    /\ pc \in {"iterate", "join", "analyse"} => sampler # "none" /\ samples \subseteq {run}

IInv == ProfilingInv /\ MainInv

-----------------------------------------------------------------------------
(* One token more.                                                         *)

LEMMA TokenForms ==
    ASSUME NEW tok \in Tokens
    PROVE  \/ tok.token \in {"header", "comma", "footer"}
           \/ tok.token = "event" /\ tok.scope \in Writers \X (1 .. MaxScopes) /\ tok = Event(tok.scope)
  BY DEF Tokens, Token, Event

LEMMA TokensAre ==
    /\ \A kind \in {"header", "comma", "footer"} : Token(kind) \in Tokens /\ Token(kind).token = kind
    /\ \A s \in Writers \X (1 .. MaxScopes) :
          Event(s) \in Tokens /\ Event(s).token = "event" /\ Event(s).scope = s
  BY DEF Tokens, Token, Event

\* A token behind the part that alternates.
LEMMA AlternatesStays ==
    ASSUME NEW tokens \in Seq(Tokens), NEW tok \in Tokens, NEW n \in 0 .. Len(tokens),
           Alternates(tokens, n)
    PROVE  Alternates(Append(tokens, tok), n)
  BY DEF Alternates

\* The next token in turn.
LEMMA AlternatesOn ==
    ASSUME NEW tokens \in Seq(Tokens), NEW tok \in Tokens, NEW n \in Nat \ {0},
           n = Len(tokens), Alternates(tokens, n),
           tok.token = IF (n + 1) % 2 = 0 THEN "event" ELSE "comma"
    PROVE  Alternates(Append(tokens, tok), n + 1)
<1> DEFINE longer == Append(tokens, tok)
<1>1. SUFFICES ASSUME NEW j \in 1 .. n + 1
               PROVE  longer[j].token
                        = IF j = 1 THEN "header" ELSE IF j % 2 = 0 THEN "event" ELSE "comma"
  BY DEF Alternates
<1>2. CASE j = n + 1
  <2>1. longer[j] = tok /\ j # 1
    BY <1>2
  <2> QED BY <1>2, <2>1
<1>3. CASE j # n + 1
  <2>1. j \in 1 .. n /\ longer[j] = tokens[j]
    BY <1>3
  <2> QED BY <2>1 DEF Alternates
<1> QED BY <1>2, <1>3

\* Only an event adds a scope.
LEMMA OtherToken ==
    ASSUME NEW tokens \in Seq(Tokens), NEW kind \in {"header", "comma", "footer"}
    PROVE  /\ ScopesIn(Append(tokens, Token(kind))) = ScopesIn(tokens)
           /\ EachScopeOnce(tokens) => EachScopeOnce(Append(tokens, Token(kind)))
<1> DEFINE longer == Append(tokens, Token(kind))
<1>1. Token(kind) \in Tokens /\ Token(kind).token # "event"
  BY TokensAre
<1>2. /\ longer \in Seq(Tokens)
      /\ DOMAIN longer = DOMAIN tokens \cup {Len(tokens) + 1}
      /\ longer[Len(tokens) + 1] = Token(kind)
      /\ \A j \in DOMAIN tokens : longer[j] = tokens[j]
  BY <1>1
<1> HIDE DEF longer
<1>3. {k \in DOMAIN longer : longer[k].token = "event"} = {k \in DOMAIN tokens : tokens[k].token = "event"}
  BY <1>1, <1>2
<1>4. ScopesIn(longer) = ScopesIn(tokens)
  BY <1>2, <1>3 DEF ScopesIn
<1>5. ASSUME EachScopeOnce(tokens)
      PROVE  EachScopeOnce(longer)
  BY <1>1, <1>2, <1>5 DEF EachScopeOnce
<1> QED BY <1>4, <1>5 DEF longer

LEMMA EventToken ==
    ASSUME NEW tokens \in Seq(Tokens), NEW s \in Writers \X (1 .. MaxScopes),
           s \notin ScopesIn(tokens)
    PROVE  /\ ScopesIn(Append(tokens, Event(s))) = ScopesIn(tokens) \cup {s}
           /\ EachScopeOnce(tokens) => EachScopeOnce(Append(tokens, Event(s)))
<1> DEFINE longer == Append(tokens, Event(s))
<1>1. Event(s) \in Tokens /\ Event(s).token = "event" /\ Event(s).scope = s
  BY TokensAre
<1>2. /\ longer \in Seq(Tokens)
      /\ DOMAIN longer = DOMAIN tokens \cup {Len(tokens) + 1}
      /\ longer[Len(tokens) + 1] = Event(s)
      /\ \A j \in DOMAIN tokens : longer[j] = tokens[j]
  BY <1>1
<1> HIDE DEF longer
<1>3. {k \in DOMAIN longer : longer[k].token = "event"}
        = {k \in DOMAIN tokens : tokens[k].token = "event"} \cup {Len(tokens) + 1}
  BY <1>1, <1>2
<1>4. ScopesIn(longer) = ScopesIn(tokens) \cup {s}
  BY <1>1, <1>2, <1>3 DEF ScopesIn
<1>5. ASSUME EachScopeOnce(tokens)
      PROVE  EachScopeOnce(longer)
  <2>1. \A j \in DOMAIN tokens : tokens[j].token = "event" => tokens[j].scope # s
    BY DEF ScopesIn
  <2>2. \A j \in DOMAIN tokens : tokens[j] = Event(s) => FALSE
    BY <1>1, <2>1
  <2> QED BY <1>2, <1>5, <2>2 DEF EachScopeOnce
<1> QED BY <1>4, <1>5 DEF longer

-----------------------------------------------------------------------------
(* The session.                                                            *)

\* Nobody writes: nothing is pending, and nobody is at an event.
LEMMA NobodyWrites ==
    ASSUME \A t \in Writers : writing[t] = "no"
    PROVE  Pending(writing, scopes) = {} /\ ~AtEvent(writing)
  BY DEF Pending, AtEvent

LEMMA OpenFileKeeps ==
    ASSUME ProfilingInv, OpenFile
    PROVE  ProfilingInv'
<1> USE DEF OpenFile, writerVars
<1>1. StreamInv'
  BY DEF ProfilingInv, StreamInv, ProfilingTypeOK
<1>2. QuietInv'
  BY DEF ProfilingInv, QuietInv, Astray
<1>3. FreshInv'
  BY DEF ProfilingInv, FreshInv
<1>4. ASSUME ~strayed'
      PROVE  \A t \in Writers : writing[t] = "no"
  BY <1>4 DEF Astray
<1>5. FileInv'
  BY <1>4, NobodyWrites DEF FileInv
<1> QED BY <1>1, <1>2, <1>3, <1>5 DEF ProfilingInv

LEMMA WriteHeaderKeeps ==
    ASSUME ProfilingInv, WriteHeader
    PROVE  ProfilingInv'
<1> USE DEF WriteHeader, writerVars
<1>1. open = TRUE /\ open' = TRUE /\ Token("header") \in Tokens /\ file' = Append(file, Token("header"))
  BY TokensAre DEF ProfilingInv, StreamInv, Put
<1>2. StreamInv'
  BY <1>1, TokensAre DEF ProfilingInv, StreamInv, ProfilingTypeOK
<1>3. QuietInv' /\ FreshInv'
  BY DEF QuietInv, FreshInv
<1>4. ASSUME ~strayed'
      PROVE  FileInv'
  <2>1. ~strayed /\ \A t \in Writers : writing[t] = "no"
    BY <1>4 DEF Astray
  <2>2. Pending(writing, scopes) = {} /\ ~AtEvent(writing)
    BY <2>1, NobodyWrites
  <2>3. file = <<>> /\ due = {} /\ m_ProfileCount = 0
    BY <2>1 DEF ProfilingInv, FreshInv
  <2>4. file' = <<Token("header")>> /\ Len(file') = 1 /\ file'[1].token = "header"
    BY <1>1, <2>3, TokensAre
  <2>5. BodyLength(m_ProfileCount, writing)' = 1
    BY <2>3 DEF BodyLength
  <2>6. Alternates(file', 1) /\ ScopesIn(file') = {} /\ EachScopeOnce(file')
    BY <2>4 DEF Alternates, ScopesIn, EachScopeOnce
  <2> QED BY <2>2, <2>3, <2>4, <2>5, <2>6 DEF FileInv
<1>5. FileInv'
  BY <1>4 DEF FileInv
<1> QED BY <1>2, <1>3, <1>5 DEF ProfilingInv

LEMMA WriteFooterKeeps ==
    ASSUME ProfilingInv, WriteFooter
    PROVE  ProfilingInv'
<1> USE DEF WriteFooter, writerVars
<1>1. open = TRUE /\ open' = TRUE /\ Token("footer") \in Tokens /\ file' = Append(file, Token("footer"))
  BY TokensAre DEF ProfilingInv, StreamInv, Put
<1>2. StreamInv'
  BY <1>1, TokensAre DEF ProfilingInv, StreamInv, ProfilingTypeOK
<1>3. QuietInv' /\ FreshInv'
  BY DEF QuietInv, FreshInv
<1>4. ASSUME ~strayed'
      PROVE  FileInv'
  <2> DEFINE n == BodyLength(m_ProfileCount, writing)
  <2>1. ~strayed /\ file \in Seq(Tokens)
    BY <1>4 DEF ProfilingInv, StreamInv
  <2>2. /\ Alternates(file, n) /\ Len(file) = n
        /\ ScopesIn(file) = due \ Pending(writing, scopes)
        /\ EachScopeOnce(file)
        /\ Pending(writing, scopes) \subseteq due
        /\ AtEvent(writing) => m_ProfileCount > 0
    BY <2>1 DEF ProfilingInv, FileInv
  <2>3. n' = n
    BY DEF BodyLength
  <2> HIDE DEF n
  <2>4. n \in 0 .. Len(file)
    BY <2>1, <2>2
  <2>5. Alternates(file', n)
    BY <1>1, <2>1, <2>2, <2>4, AlternatesStays
  <2>6. ScopesIn(file') = ScopesIn(file) /\ EachScopeOnce(file')
    BY <1>1, <2>1, <2>2, OtherToken
  <2>7. Len(file') = n + 1 /\ file'[Len(file')] = Token("footer")
    BY <1>1, <2>1, <2>2
  <2> QED BY <2>2, <2>3, <2>5, <2>6, <2>7 DEF FileInv, n
<1>5. FileInv'
  BY <1>4 DEF FileInv
<1> QED BY <1>2, <1>3, <1>5 DEF ProfilingInv

LEMMA CloseFileKeeps ==
    ASSUME ProfilingInv, CloseFile
    PROVE  ProfilingInv'
<1> USE DEF CloseFile, writerVars
<1>1. StreamInv'
  BY DEF ProfilingInv, StreamInv, ProfilingTypeOK
<1>2. QuietInv' /\ FreshInv'
  BY DEF ProfilingInv, QuietInv, FreshInv
<1>3. FileInv'
  BY DEF ProfilingInv, FileInv
<1> QED BY <1>1, <1>2, <1>3 DEF ProfilingInv

LEMMA ResetCountKeeps ==
    ASSUME ProfilingInv, ResetCount
    PROVE  ProfilingInv'
<1> USE DEF ResetCount, writerVars
<1>1. StreamInv'
  BY DEF ProfilingInv, StreamInv, ProfilingTypeOK
<1>2. QuietInv' /\ FreshInv'
  BY DEF QuietInv, FreshInv
<1>3. FileInv'
  BY NobodyWrites DEF FileInv
<1> QED BY <1>1, <1>2, <1>3 DEF ProfilingInv

-----------------------------------------------------------------------------
(* The writers.                                                            *)

\* A scope that ends is due and pending at once: what is in the file stays right.
LEMMA EndScopeKeeps ==
    ASSUME ProfilingInv, NEW t \in Writers, EndScope(t)
    PROVE  ProfilingInv'
<1> DEFINE ended == <<t, scopes[t] + 1>>
<1>1. /\ session' = session /\ open' = open /\ file' = file /\ m_ProfileCount' = m_ProfileCount
      /\ m_lock' = m_lock /\ due' = due \cup {ended}
      /\ strayed' = (strayed \/ session # "running")
      /\ writing[t] = "no" /\ scopes[t] < MaxScopes
      /\ writing' = [writing EXCEPT ![t] = "lock"] /\ scopes' = [scopes EXCEPT ![t] = @ + 1]
  BY DEF EndScope, sessionVars
<1>2. /\ writing \in [Writers -> {"no", "lock", "comma", "event"}]
      /\ scopes \in [Writers -> 0 .. MaxScopes] /\ MaxScopes \in Nat
      /\ \A n \in Nat : <<t, n>> \in due => n <= scopes[t]
  BY WriterAssumption DEF ProfilingInv, StreamInv, ProfilingTypeOK
<1>3. /\ writing'[t] = "lock" /\ scopes'[t] = scopes[t] + 1
      /\ \A u \in Writers \ {t} : writing'[u] = writing[u] /\ scopes'[u] = scopes[u]
  BY <1>1, <1>2
<1>4. ended \in Writers \X (1 .. MaxScopes) /\ ended \notin due
  BY <1>1, <1>2
<1>5. StreamInv'
  <2>1. ProfilingTypeOK'
    <3>1. writing' \in [Writers -> {"no", "lock", "comma", "event"}]
      BY <1>1, <1>2
    <3>2. scopes' \in [Writers -> 0 .. MaxScopes]
      BY <1>1, <1>2
    <3>3. \A u \in Writers : writing'[u] \in {"comma", "event"} => m_lock' = u
      BY <1>1, <1>3 DEF ProfilingInv, StreamInv, ProfilingTypeOK
    <3> QED BY <1>1, <1>4, <3>1, <3>2, <3>3 DEF ProfilingInv, StreamInv, ProfilingTypeOK
  <2>2. ASSUME NEW u \in Writers, NEW n \in Nat, <<u, n>> \in due'
        PROVE  n <= scopes'[u]
    <3>1. CASE <<u, n>> \in due
      BY <1>2, <1>3, <3>1 DEF ProfilingInv, StreamInv
    <3>2. CASE <<u, n>> = ended
      BY <1>2, <1>3, <3>2
    <3> QED BY <1>1, <2>2, <3>1, <3>2
  <2>3. \A u \in Writers : writing'[u] # "no" => scopes'[u] > 0
    BY <1>2, <1>3 DEF ProfilingInv, StreamInv
  <2> QED BY <1>1, <2>1, <2>2, <2>3 DEF ProfilingInv, StreamInv
<1>6. QuietInv' /\ FreshInv'
  BY <1>1 DEF QuietInv, FreshInv
<1>7. Pending(writing, scopes)' = Pending(writing, scopes) \cup {ended}
  BY <1>1, <1>3 DEF Pending
<1>8. AtEvent(writing)' = AtEvent(writing)
  BY <1>1, <1>3 DEF AtEvent
<1>9. BodyLength(m_ProfileCount, writing)' = BodyLength(m_ProfileCount, writing)
  BY <1>1, <1>8 DEF BodyLength
<1>10. due' \ Pending(writing, scopes)' = due \ Pending(writing, scopes)
  BY <1>1, <1>4, <1>7
<1>11. FileInv'
  <2> HIDE DEF ended
  <2> QED BY <1>1, <1>7, <1>8, <1>9, <1>10 DEF ProfilingInv, FileInv
<1> QED BY <1>5, <1>6, <1>11 DEF ProfilingInv

\* What a writer finds: the session runs, or the file is spoilt.
LEMMA WriterFinds ==
    ASSUME ProfilingInv, NEW t \in Writers, writing[t] # "no", ~strayed
    PROVE  /\ session = "running" /\ open = TRUE /\ file \in Seq(Tokens)
           /\ m_ProfileCount \in Nat
           /\ AtEvent(writing) => m_ProfileCount > 0
           /\ Pending(writing, scopes) \subseteq due
           /\ Alternates(file, BodyLength(m_ProfileCount, writing))
           /\ ScopesIn(file) = due \ Pending(writing, scopes)
           /\ EachScopeOnce(file)
           /\ Len(file) = BodyLength(m_ProfileCount, writing)
<1>1. session = "running"
  BY DEF ProfilingInv, QuietInv
<1>2. open = TRUE
  BY <1>1 DEF ProfilingInv, StreamInv, ProfilingTypeOK
<1> QED BY <1>1, <1>2 DEF ProfilingInv, StreamInv, ProfilingTypeOK, FileInv

LEMMA LockKeeps ==
    ASSUME ProfilingInv, NEW t \in Writers, Lock(t)
    PROVE  ProfilingInv'
<1>1. /\ session' = session /\ open' = open /\ file' = file /\ m_ProfileCount' = m_ProfileCount
      /\ m_lock = Nobody /\ m_lock' = t /\ scopes' = scopes /\ due' = due /\ strayed' = strayed
      /\ writing[t] = "lock" /\ writing' = [writing EXCEPT ![t] = "comma"]
  BY DEF Lock, sessionVars
<1>2. /\ writing \in [Writers -> {"no", "lock", "comma", "event"}]
      /\ \A u \in Writers : writing[u] \notin {"comma", "event"}
  BY <1>1, WriterAssumption DEF ProfilingInv, StreamInv, ProfilingTypeOK
<1>3. /\ writing' \in [Writers -> {"no", "lock", "comma", "event"}]
      /\ writing'[t] = "comma" /\ \A u \in Writers \ {t} : writing'[u] = writing[u]
  BY <1>1, <1>2
<1>4. StreamInv'
  BY <1>1, <1>2, <1>3 DEF ProfilingInv, StreamInv, ProfilingTypeOK
<1>5. QuietInv' /\ FreshInv'
  BY <1>1, <1>3 DEF ProfilingInv, QuietInv, FreshInv
<1>6. Pending(writing, scopes)' = Pending(writing, scopes)
  BY <1>1, <1>3 DEF Pending
<1>7. AtEvent(writing)' = AtEvent(writing)
  BY <1>1, <1>3 DEF AtEvent
<1>8. BodyLength(m_ProfileCount, writing)' = BodyLength(m_ProfileCount, writing)
  BY <1>1, <1>7 DEF BodyLength
<1>9. FileInv'
  BY <1>1, <1>6, <1>7, <1>8 DEF ProfilingInv, FileInv
<1> QED BY <1>4, <1>5, <1>9 DEF ProfilingInv

\* A comma, unless nothing is counted yet.  The event it stands before is counted.
LEMMA WriteCommaKeeps ==
    ASSUME ProfilingInv, NEW t \in Writers, WriteComma(t)
    PROVE  ProfilingInv'
<1>1. /\ session' = session /\ open' = open /\ m_ProfileCount' = m_ProfileCount + 1
      /\ m_lock' = m_lock /\ scopes' = scopes /\ due' = due /\ strayed' = strayed
      /\ writing[t] = "comma" /\ writing' = [writing EXCEPT ![t] = "event"]
  BY DEF WriteComma
<1>2. file' = IF m_ProfileCount > 0 /\ open THEN Append(file, Token("comma")) ELSE file
  BY DEF WriteComma, Put
<1>3. /\ writing \in [Writers -> {"no", "lock", "comma", "event"}]
      /\ \A u \in Writers : writing[u] \in {"comma", "event"} => u = t
      /\ m_ProfileCount \in Nat /\ file \in Seq(Tokens) /\ Token("comma") \in Tokens
  BY <1>1, TokensAre DEF ProfilingInv, StreamInv, ProfilingTypeOK
<1>4. /\ writing' \in [Writers -> {"no", "lock", "comma", "event"}]
      /\ writing'[t] = "event" /\ \A u \in Writers \ {t} : writing'[u] = writing[u]
  BY <1>1, <1>3
<1>5. StreamInv'
  <2>1. file' \in Seq(Tokens)
    BY <1>2, <1>3
  <2>2. \A j \in DOMAIN file' : file'[j].token \in {"header", "comma", "event", "footer"}
    BY <2>1, TokenForms
  <2> QED BY <1>1, <1>3, <1>4, <2>1, <2>2 DEF ProfilingInv, StreamInv, ProfilingTypeOK
<1>6. QuietInv' /\ FreshInv'
  BY <1>1, <1>4 DEF ProfilingInv, QuietInv, FreshInv
<1>7. ASSUME ~strayed
      PROVE  FileInv'
  <2> DEFINE c == m_ProfileCount
  <2>1. Pending(writing, scopes)' = Pending(writing, scopes)
    BY <1>1, <1>4 DEF Pending
  <2>2. ~AtEvent(writing) /\ AtEvent(writing)'
    BY <1>1, <1>3, <1>4 DEF AtEvent
  <2>3. /\ BodyLength(c, writing) = IF c = 0 THEN 1 ELSE 2 * c
        /\ BodyLength(c, writing)' = 2 * c + 1
    BY <1>1, <1>3, <2>2 DEF BodyLength
  <2>4. /\ session = "running" /\ open = TRUE /\ Len(file) = BodyLength(c, writing)
        /\ Alternates(file, BodyLength(c, writing)) /\ EachScopeOnce(file)
        /\ ScopesIn(file) = due \ Pending(writing, scopes)
        /\ Pending(writing, scopes) \subseteq due
    <3>1. writing[t] # "no"
      BY <1>1
    <3> QED BY <1>7, <3>1, WriterFinds
  <2> HIDE DEF c
  <2>5. /\ Alternates(file', 2 * c + 1) /\ Len(file') = 2 * c + 1
        /\ ScopesIn(file') = ScopesIn(file) /\ EachScopeOnce(file')
    <3>1. CASE c = 0
      <4>1. file' = file /\ 2 * c + 1 = 1 /\ BodyLength(c, writing) = 1
        BY <1>2, <2>3, <3>1 DEF c
      <4> QED BY <2>4, <4>1
    <3>2. CASE c # 0
      <4>1. /\ file' = Append(file, Token("comma"))
            /\ Len(file) = 2 * c /\ Alternates(file, 2 * c) /\ EachScopeOnce(file)
        BY <1>2, <1>3, <2>3, <2>4, <3>2 DEF c
      <4>2. c \in Nat /\ (2 * c + 1) % 2 # 0 /\ 2 * c \in Nat \ {0}
        BY <1>3, <3>2 DEF c
      <4>3. Alternates(file', 2 * c + 1)
        BY <1>3, <4>1, <4>2, AlternatesOn, TokensAre
      <4>4. ScopesIn(file') = ScopesIn(file) /\ EachScopeOnce(file')
        BY <1>3, <4>1, OtherToken
      <4>5. Len(file') = 2 * c + 1
        BY <1>3, <4>1, <4>2
      <4> QED BY <4>3, <4>4, <4>5
    <3> QED BY <3>1, <3>2
  <2>6. m_ProfileCount' > 0
    BY <1>1, <1>3
  <2>7. BodyLength(m_ProfileCount, writing)' = 2 * c + 1
    BY <2>3 DEF c
  <2> QED BY <1>1, <2>1, <2>4, <2>5, <2>6, <2>7 DEF FileInv
<1>8. FileInv'
  BY <1>1, <1>7 DEF FileInv
<1> QED BY <1>5, <1>6, <1>8 DEF ProfilingInv

\* The event of a scope that is in the file no more than once: now.
LEMMA WriteEventKeeps ==
    ASSUME ProfilingInv, NEW t \in Writers, WriteEvent(t)
    PROVE  ProfilingInv'
<1> DEFINE s == <<t, scopes[t]>>
<1>1. /\ session' = session /\ open' = open /\ m_ProfileCount' = m_ProfileCount
      /\ m_lock' = Nobody /\ scopes' = scopes /\ due' = due /\ strayed' = strayed
      /\ writing[t] = "event" /\ writing' = [writing EXCEPT ![t] = "no"]
      /\ file' = IF open THEN Append(file, Event(s)) ELSE file
  BY DEF WriteEvent, Put, Scope
<1>2. /\ writing \in [Writers -> {"no", "lock", "comma", "event"}]
      /\ \A u \in Writers : writing[u] \in {"comma", "event"} => u = t
      /\ m_ProfileCount \in Nat /\ file \in Seq(Tokens)
      /\ s \in Writers \X (1 .. MaxScopes)
  BY <1>1 DEF ProfilingInv, StreamInv, ProfilingTypeOK
<1>3. /\ writing' \in [Writers -> {"no", "lock", "comma", "event"}]
      /\ writing'[t] = "no" /\ \A u \in Writers \ {t} : writing'[u] = writing[u]
  BY <1>1, <1>2
<1>4. s \in Pending(writing, scopes)
  BY <1>1 DEF Pending
<1>5. Event(s) \in Tokens
  BY <1>2, TokensAre
<1>6. StreamInv'
  <2>1. file' \in Seq(Tokens)
    BY <1>1, <1>2, <1>5
  <2>2. \A j \in DOMAIN file' : file'[j].token \in {"header", "comma", "event", "footer"}
    BY <2>1, TokenForms
  <2>3. m_lock' \in Writers \cup {Nobody} /\ \A u \in Writers : writing'[u] \notin {"comma", "event"}
    BY <1>1, <1>2, <1>3
  <2> QED BY <1>1, <1>3, <2>1, <2>2, <2>3 DEF ProfilingInv, StreamInv, ProfilingTypeOK
<1>7. QuietInv' /\ FreshInv'
  BY <1>1, <1>3 DEF ProfilingInv, QuietInv, FreshInv
<1>8. ASSUME ~strayed
      PROVE  FileInv'
  <2> DEFINE c == m_ProfileCount
  <2>1. Pending(writing, scopes)' = Pending(writing, scopes) \ {s}
    BY <1>1, <1>3 DEF Pending
  <2>2. AtEvent(writing) /\ ~AtEvent(writing)'
    BY <1>1, <1>2, <1>3 DEF AtEvent
  <2>3. c > 0 /\ Pending(writing, scopes) \subseteq due /\ s \notin ScopesIn(file)
    BY <1>1, <1>4, <1>8, <2>2, WriterFinds
  <2>4. BodyLength(c, writing) = 2 * c - 1 /\ BodyLength(c, writing)' = 2 * c
    BY <1>1, <1>2, <2>2, <2>3 DEF BodyLength
  <2>5. /\ file' = Append(file, Event(s)) /\ session = "running"
        /\ Len(file) = 2 * c - 1 /\ Alternates(file, 2 * c - 1) /\ EachScopeOnce(file)
        /\ ScopesIn(file) = due \ Pending(writing, scopes)
    BY <1>1, <1>8, <2>4, WriterFinds
  <2>6. Alternates(file', 2 * c)
    <3>1. 2 * c - 1 \in Nat \ {0} /\ (2 * c - 1 + 1) % 2 = 0 /\ (2 * c - 1) + 1 = 2 * c
      BY <1>2, <2>3
    <3>2. Alternates(file', (2 * c - 1) + 1)
      BY <1>2, <1>5, <2>5, <3>1, AlternatesOn, TokensAre
    <3> QED BY <3>1, <3>2
  <2>7. Len(file') = 2 * c
    BY <1>2, <1>5, <2>5
  <2>8. ScopesIn(file') = ScopesIn(file) \cup {s} /\ EachScopeOnce(file')
    BY <1>2, <2>3, <2>5, EventToken
  <2>9. ScopesIn(file') = due \ Pending(writing, scopes)'
    BY <1>4, <2>1, <2>3, <2>5, <2>8
  <2> QED BY <1>1, <2>1, <2>2, <2>3, <2>4, <2>5, <2>6, <2>7, <2>8, <2>9 DEF FileInv
<1>9. FileInv'
  BY <1>1, <1>8 DEF FileInv
<1> QED BY <1>6, <1>7, <1>9 DEF ProfilingInv

LEMMA ProfilingStutters ==
    ASSUME ProfilingInv, UNCHANGED profilingVars
    PROVE  ProfilingInv'
<1> USE DEF profilingVars, sessionVars, writerVars
<1>1. StreamInv'
  BY DEF ProfilingInv, StreamInv, ProfilingTypeOK
<1>2. QuietInv' /\ FreshInv'
  BY DEF ProfilingInv, QuietInv, FreshInv
<1>3. FileInv'
  BY DEF ProfilingInv, FileInv
<1> QED BY <1>1, <1>2, <1>3 DEF ProfilingInv

LEMMA ProfilingInitially ==
    ASSUME ProfilingInit
    PROVE  ProfilingInv
<1> USE DEF ProfilingInit
<1>1. StreamInv
  <2>1. file \in Seq(Tokens) /\ DOMAIN file = {}
    OBVIOUS
  <2>2. scopes \in [Writers -> 0 .. MaxScopes]
    BY WriterAssumption
  <2>3. ProfilingTypeOK
    BY <2>1, <2>2 DEF ProfilingTypeOK
  <2> QED BY <2>1, <2>3 DEF StreamInv
<1>2. QuietInv /\ FreshInv
  BY DEF QuietInv, FreshInv
<1>3. FileInv
  BY NobodyWrites DEF FileInv
<1> QED BY <1>1, <1>2, <1>3 DEF ProfilingInv

\* What the invariant is for: a closed file reads as an array of the scopes.
LEMMA ClosedFile ==
    ASSUME ProfilingInv
    PROVE  TraceWellFormed
<1> SUFFICES ASSUME session = "closed", ~strayed
             PROVE  /\ WellFormed(file)
                    /\ ScopesIn(file) = due
                    /\ EachScopeOnce(file)
  BY DEF TraceWellFormed, ScopesIn, EachScopeOnce
<1> DEFINE n == BodyLength(m_ProfileCount, writing)
<1>1. Pending(writing, scopes) = {} /\ ~AtEvent(writing)
  BY NobodyWrites DEF ProfilingInv, QuietInv
<1>2. /\ file \in Seq(Tokens) /\ Len(file) = n + 1 /\ file[Len(file)] = Token("footer")
      /\ Alternates(file, n) /\ ScopesIn(file) = due /\ EachScopeOnce(file)
      /\ m_ProfileCount \in Nat
  BY <1>1 DEF ProfilingInv, StreamInv, ProfilingTypeOK, FileInv
<1>3. n = IF m_ProfileCount = 0 THEN 1 ELSE 2 * m_ProfileCount
  BY <1>1 DEF BodyLength
<1> HIDE DEF n
<1>4. n \in Nat \ {0} /\ (n + 1 = 2 \/ (n + 1) % 2 = 1)
  BY <1>2, <1>3
<1>5. ASSUME NEW j \in 1 .. n + 1
      PROVE  file[j].token = IF j = 1 THEN "header" ELSE IF j = n + 1 THEN "footer"
                             ELSE IF j % 2 = 0 THEN "event" ELSE "comma"
  <2>1. CASE j = n + 1
    BY <1>2, <1>4, <2>1, TokensAre
  <2>2. CASE j # n + 1
    <3>1. j \in 1 .. n
      BY <1>4, <2>2
    <3> QED BY <1>2, <2>2, <3>1 DEF Alternates
  <2> QED BY <2>1, <2>2
<1>6. WellFormed(file)
  BY <1>2, <1>4, <1>5 DEF WellFormed
<1> QED BY <1>2, <1>6

-----------------------------------------------------------------------------
(* main and the sampler.  Their steps are the profiling's, or leave it.    *)

LEMMA BeginSessionKeeps ==
    ASSUME ProfilingInv, BeginSession
    PROVE  ProfilingInv' /\ session' \in {"opened", "running"}
  BY OpenFileKeeps, WriteHeaderKeeps DEF BeginSession, OpenFile, WriteHeader

LEMMA EndSessionKeeps ==
    ASSUME ProfilingInv, EndSession
    PROVE  ProfilingInv'
  BY WriteFooterKeeps, CloseFileKeeps, ResetCountKeeps DEF EndSession

LEMMA WriteProfileKeeps ==
    ASSUME ProfilingInv, NEW t \in Writers, WriteProfile(t)
    PROVE  ProfilingInv' /\ session' = session
<1>1. ProfilingInv'
  BY LockKeeps, WriteCommaKeeps, WriteEventKeeps DEF WriteProfile
<1>2. session' = session
  BY DEF WriteProfile, Lock, WriteComma, WriteEvent, sessionVars
<1> QED BY <1>1, <1>2

\* Every step of the program is a step of the profiling or leaves it alone.
LEMMA ProfilingStep ==
    ASSUME ProfilingInv, [Next]_vars
    PROVE  ProfilingInv'
<1>1. CASE MainStep
  <2>1. CASE Begin
    BY <2>1, BeginSessionKeeps DEF Begin
  <2>2. CASE End
    BY <2>2, EndSessionKeeps DEF End
  <2>3. CASE Iterate
    BY <2>3, EndScopeKeeps, BenchmarkAssumption DEF Iterate
  <2>4. CASE Throw \/ StartSampling \/ FunctionThrows \/ StopSampling \/ Join \/ Analyse
    BY <2>4, ProfilingStutters
    DEF Throw, StartSampling, FunctionThrows, StopSampling, Join, Analyse
  <2> QED BY <1>1, <2>1, <2>2, <2>3, <2>4 DEF MainStep, RunWithMemorySampling
<1>2. CASE MemoryProfiler
  BY <1>2, ProfilingStutters DEF MemoryProfiler, TestSampling, Measure, PushSample
<1>3. ASSUME NEW t \in Writers, WriteOwnProfile(t)
      PROVE  ProfilingInv'
  BY <1>3, WriteProfileKeeps DEF WriteOwnProfile
<1>4. CASE OtherScope
  BY <1>4, EndScopeKeeps DEF OtherScope
<1>5. CASE Over
  BY <1>5, ProfilingStutters DEF Over, vars
<1>6. CASE UNCHANGED vars
  BY <1>6, ProfilingStutters DEF vars
<1> QED BY <1>1, <1>2, <1>3, <1>4, <1>5, <1>6 DEF Next

\* The steps of main, once the profiling is dealt with.
LEMMA MainStepKeeps ==
    ASSUME IInv, ProfilingInv', MainStep
    PROVE  MainInv'
<1>1. ProfilingTypeOK'
  BY DEF ProfilingInv, StreamInv
<1> USE <1>1, BenchmarkAssumption DEF IInv, MainInv, TypeOK, samplingVars
<1>2. CASE Begin
  <2>1. session' \in {"opened", "running"}
    BY <1>2 DEF Begin, BeginSession, OpenFile, WriteHeader
  <2> QED BY <1>2, <2>1 DEF Begin
<1>3. CASE Throw
  BY <1>3 DEF Throw
<1>4. CASE End
  BY <1>4 DEF End
<1>5. CASE StartSampling
  BY <1>5 DEF StartSampling
<1>6. CASE Iterate
  BY <1>6 DEF Iterate
<1>7. CASE FunctionThrows
  BY <1>7 DEF FunctionThrows
<1>8. CASE StopSampling
  BY <1>8 DEF StopSampling
<1>9. CASE Join
  BY <1>9 DEF Join
<1>10. CASE Analyse
  BY <1>10 DEF Analyse
<1> QED
  BY <1>2, <1>3, <1>4, <1>5, <1>6, <1>7, <1>8, <1>9, <1>10 DEF MainStep, RunWithMemorySampling

LEMMA SamplerStepKeeps ==
    ASSUME IInv, ProfilingInv', MemoryProfiler
    PROVE  MainInv'
<1>1. ProfilingTypeOK'
  BY DEF ProfilingInv, StreamInv
<1>2. session' = session
  BY DEF MemoryProfiler, TestSampling, Measure, PushSample, profilingVars, sessionVars
<1> USE <1>1, <1>2, BenchmarkAssumption DEF IInv, MainInv, TypeOK, mainVars
<1>3. CASE TestSampling
  BY <1>3 DEF TestSampling
<1>4. CASE Measure
  BY <1>4 DEF Measure
<1>5. CASE PushSample
  BY <1>5 DEF PushSample, Alive
<1> QED BY <1>3, <1>4, <1>5 DEF MemoryProfiler

\* The steps of the writers, and of a program that is over.
LEMMA OthersKeep ==
    ASSUME IInv, ProfilingInv', UNCHANGED <<mainVars, samplingVars, session>>
    PROVE  MainInv'
<1>1. ProfilingTypeOK'
  BY DEF ProfilingInv, StreamInv
<1> QED BY <1>1 DEF IInv, MainInv, TypeOK, mainVars, samplingVars

-----------------------------------------------------------------------------
LEMMA Inductive == IInv /\ [Next]_vars => IInv'
<1> SUFFICES ASSUME IInv, [Next]_vars
             PROVE  IInv'
  OBVIOUS
<1>1. ProfilingInv'
  BY ProfilingStep DEF IInv
<1>2. MainInv'
  <2>1. CASE MainStep
    BY <1>1, <2>1, MainStepKeeps
  <2>2. CASE MemoryProfiler
    BY <1>1, <2>2, SamplerStepKeeps
  <2>3. ASSUME NEW t \in Writers, WriteOwnProfile(t)
        PROVE  MainInv'
    <3>1. session' = session
      BY <2>3, WriteProfileKeeps DEF WriteOwnProfile, IInv
    <3> QED BY <1>1, <2>3, <3>1, OthersKeep DEF WriteOwnProfile
  <2>4. CASE OtherScope
    <3>1. session' = session
      BY <2>4 DEF OtherScope, EndScope, sessionVars
    <3> QED BY <1>1, <2>4, <3>1, OthersKeep DEF OtherScope
  <2>5. CASE UNCHANGED vars
    BY <1>1, <2>5, OthersKeep DEF vars, profilingVars, sessionVars
  <2>6. CASE Over
    BY <2>5, <2>6 DEF Over
  <2> QED BY <2>1, <2>2, <2>3, <2>4, <2>5, <2>6 DEF Next
<1> QED BY <1>1, <1>2 DEF IInv

LEMMA Initially == Init => IInv
<1> SUFFICES ASSUME Init
             PROVE  IInv
  OBVIOUS
<1>1. ProfilingInv
  BY ProfilingInitially DEF Init
<1>2. TypeOK
  <2>1. ProfilingTypeOK
    BY <1>1 DEF ProfilingInv, StreamInv
  <2>2. sessions \in 0 .. Sessions /\ run \in 0 .. Runs /\ iteration \in 0 .. Iterations
    BY BenchmarkAssumption DEF Init
  <2>3. mem_used \in 0 .. Runs /\ samples \subseteq 1 .. Runs
    BY BenchmarkAssumption DEF Init
  <2> QED BY <2>1, <2>2, <2>3 DEF Init, TypeOK
<1>3. MainInv
  BY <1>2, BenchmarkAssumption DEF Init, MainInv
<1> QED BY <1>1, <1>3 DEF IInv

LEMMA Always == Spec => []IInv
  BY Initially, Inductive, PTL DEF Spec

\* main and memory_profiler of benchmark, Instrumentor of scoped_timer.h: every variable
\* has its type, and only the holder of the lock is between the lock and the event.
THEOREM TypeCorrect == Spec => []TypeOK
<1>1. IInv => TypeOK
  BY DEF IInv, MainInv
<1> QED BY <1>1, Always, PTL

\* Instrumentor of scoped_timer.h: however many threads end however many scopes, and in
\* whatever order their commas and events interleave with the session, the file
\* of a session that none of them strayed from is a well-formed array of exactly
\* its scopes when it is closed.
THEOREM TraceCorrect == Spec => []TraceWellFormed
<1>1. IInv => TraceWellFormed
  BY ClosedFile DEF IInv
<1> QED BY <1>1, Always, PTL

\* run_with_memory_sampling: whatever the number of runs and iterations, the two accesses
\* to the samples without the lock, the clear and the size, never meet a sampler, and
\* the samples that are analysed are of this run.
THEOREM SamplesOwn == Spec => []SamplesOfThisRun
<1>1. IInv => SamplesOfThisRun
  BY DEF IInv, MainInv, TypeOK, SamplesOfThisRun
<1> QED BY <1>1, Always, PTL
=============================================================================
