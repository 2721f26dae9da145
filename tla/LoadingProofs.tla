------------------------------ MODULE LoadingProofs ------------------------------
(***************************************************************************)
(* Loading, for every file that OpenImageIO may report, every order of its *)
(* attributes and of the hash map they are collected in, every selection   *)
(* of channels, and whatever another thread does with the logger meanwhile.*)
(*                                                                         *)
(* The inductive invariant IInv follows load through its phases: what the  *)
(* attributes read so far have made of each key (ParsedSoFar), that the    *)
(* sorted list has each key once (ListedOnce), that each metadata selects  *)
(* its own channels (SelectedOwn), that what is constructed so far is made *)
(* of them and what is not has kept its channels unless another has taken  *)
(* them (DividedOwn), and why it threw (Blamed).  LoggerInv is about the   *)
(* logger as long as no two calls overlap; CallsPending is about the calls *)
(* the other thread has left.  What the hash texts of a manifest stand for *)
(* does not depend on the phase: it is proved of HexHash by itself.        *)
(***************************************************************************)
EXTENDS Loading, FiniteSetTheorems, TLAPS

-----------------------------------------------------------------------------
(* The logger.                                                             *)

OneAtATime == \A t, u \in Threads : t = u \/ at[t] = "outside" \/ at[u] = "outside"

LoggerHeld ==
    /\ Chosen # Null => s_logger = Chosen
    /\ Chosen = Null => s_logger # User
    /\ registered /\ s_logger = Null => sets # <<>> \/ \E t \in Threads : at[t] = "assign"

GetsHeld(t) ==
    /\ at[t] \in {"create", "assign"} => s_logger = Null
    /\ at[t] = "assign" => registered
    /\ at[t] \in {"level", "copy", "returned"} => s_logger # Null
    /\ at[t] = "returned" => got[t] = s_logger
    /\ at[t] = "threw" => TakenAway

LoggerInv ==
    /\ LoggerTypeOK
    /\ alone => OneAtATime /\ LoggerHeld /\ \A t \in Threads : GetsHeld(t)

-----------------------------------------------------------------------------
(* The loader.                                                             *)

ManifestAttribs == {"manifest", "manif_file"}
NoName == ""

\* The places among the first p of f's attributes.
Read(f, p, key, attrs) ==
    {i \in 1 .. p : f.attributes[i].key = key /\ f.attributes[i].attr \in attrs}

NameRead(f, p, key, meta) ==
    \/ Read(f, p, key, {"name"}) = {} /\ meta.name = NoName
    \/ \E i \in Read(f, p, key, {"name"}) : meta.name = f.attributes[i].value

ManifestRead(f, p, key, meta) ==
    \/ Read(f, p, key, ManifestAttribs) = {} /\ meta.manifest = NoManifest
    \/ \E i \in Read(f, p, key, ManifestAttribs) :
          /\ \A j \in Read(f, p, key, ManifestAttribs) : j <= i
          /\ meta.manifest = LoadManifest(f.attributes[i])

IsResult(meta) ==
    /\ meta = [name |-> meta.name, manifest |-> meta.manifest]
    /\ meta.name \in DOMAIN Alphabetical
    /\ meta.manifest \subseteq Seq(0 .. UintMax)
    /\ \A g, h \in meta.manifest : g = h

KeysRead(f, p) == {f.attributes[i].key : i \in {j \in 1 .. p : f.attributes[j].attr \in ValidAttribs}}

ParsedSoFar ==
    /\ position \in 0 .. Len(file.attributes)
    /\ \A i \in 1 .. position : ~IsRejected(file.attributes[i])
    /\ DOMAIN result = KeysRead(file, position)
    /\ result = [key \in DOMAIN result |-> result[key]]
    /\ \A key \in DOMAIN result :
          /\ IsResult(result[key])
          /\ NameRead(file, position, key, result[key])
          /\ ManifestRead(file, position, key, result[key])

Listed(key, meta) == [key |-> key, name |-> meta.name, manifest |-> meta.manifest]

ListedOnce ==
    /\ position = Len(file.attributes)
    /\ metadatas \in Seq({Listed(key, result[key]) : key \in DOMAIN result})
    /\ \A key \in DOMAIN result :
          /\ result[key].name # NoName
          /\ \E i \in DOMAIN metadatas : metadatas[i] = Listed(key, result[key])
    /\ \A i, j \in DOMAIN metadatas : metadatas[i].key = metadatas[j].key => i = j
    /\ Len(metadatas) = Cardinality(DOMAIN result)
    /\ SortedByName(metadatas)

Phases ==
    /\ pc \in {"open", "parse", "select", "divide", "returned", "threw", "terminated"}
    /\ load_preview \in BOOLEAN
    /\ pc \notin {"open", "threw"} => file.opens
    /\ pc = "open" => position = 0
    /\ pc \in {"open", "parse"} => metadatas = <<>>
    /\ pc \in {"select", "divide"} => metadatas # <<>>
    /\ metadatas # <<>> \/ pc \in {"select", "divide", "returned"} => ListedOnce
    /\ out # <<>> => pc \in {"divide", "returned"}

DataIn(channels, meta) == {n \in channels : IsValidChannelName(n, n.rest[meta.name])}
PreviewsIn(channels, meta) == {n \in channels : IsValidLegacyChannelName(n, n.rest[meta.name])}
Selection(f, preview, meta) ==
    DataIn(f.channels, meta) \cup IF preview THEN PreviewsIn(f.channels, meta) ELSE {}

SelectedOwn ==
    /\ channel_names \in Seq(SUBSET file.channels)
    /\ Len(channel_names) <= Len(metadatas)
    /\ pc \in {"divide", "returned"} => Len(channel_names) = Len(metadatas)
    /\ \A i \in DOMAIN channel_names :
          /\ channel_names[i] = Selection(file, load_preview, metadatas[i])
          /\ DataIn(file.channels, metadatas[i]) \cap file.halves = {}

Cryptomatte(f, preview, meta) ==
    [metadata |-> meta, channels |-> DataIn(f.channels, meta),
     previews |-> Selection(f, preview, meta) \ DataIn(f.channels, meta)]

DividedOwn ==
    /\ out \in Seq({Cryptomatte(file, load_preview, metadatas[i]) : i \in DOMAIN metadatas})
    /\ Len(out) <= Len(metadatas)
    /\ pc = "returned" => Len(out) = Len(metadatas)
    /\ \A i \in DOMAIN out :
          /\ out[i] = Cryptomatte(file, load_preview, metadatas[i])
          /\ Validates(DataIn(file.channels, metadatas[i]))
    /\ image \subseteq file.channels
    /\ pc = "divide" =>
          \A i \in DOMAIN channel_names : \A c \in channel_names[i] :
              c \in image \/ \E j \in DOMAIN out : c \in channel_names[j]

Wrong == ~file.opens \/ Rejects \/ Nameless \/ SomeHalf \/ SomeInvalid \/ SomeShared
Blamed == pc = "threw" => Wrong

LoaderInv ==
    /\ file \in Files
    /\ ParsedSoFar
    /\ Phases
    /\ SelectedOwn
    /\ DividedOwn
    /\ Blamed

\* What the other thread is doing is its first call not yet finished.
CallsPending ==
    /\ calls \in Seq({"get", "set", "reset"})
    /\ at[Other] # "outside" => calls # <<>>

IInv ==
    /\ LoaderInv
    /\ CallsPending
    /\ LoggerInv
    /\ BrokenManifestSurvives

-----------------------------------------------------------------------------
(* The logger's actions, of whatever thread.                               *)

\* As long as calls do not overlap, all others are outside when one goes on.
LEMMA OthersOutside ==
    ASSUME NEW u \in Threads, NEW place, LoggerInv, Goes(u, place), alone',
           place # "outside" \/ at[u] # "outside"
    PROVE  /\ alone /\ OneAtATime' /\ LoggerHeld /\ GetsHeld(u)
           /\ at'[u] = place
           /\ \A t \in Threads \ {u} : at[t] = "outside" /\ at'[t] = "outside"
<1>1. alone /\ OneAtATime /\ LoggerHeld /\ GetsHeld(u)
  BY DEF LoggerInv, Goes
<1>2. at'[u] = place /\ \A t \in Threads \ {u} : at'[t] = at[t]
  BY DEF Goes, LoggerInv, LoggerTypeOK
<1>3. \A t \in Threads \ {u} : at[t] = "outside"
  BY <1>1 DEF OneAtATime, Goes
<1> QED BY <1>1, <1>2, <1>3 DEF OneAtATime

LEMMA EnterGetInv ==
    ASSUME NEW u \in Threads, LoggerInv, EnterGetLogger(u) PROVE LoggerInv'
<1> USE DEF Null, Default, User
<1>1. LoggerTypeOK'
  BY DEF LoggerInv, LoggerTypeOK, EnterGetLogger, Goes
<1>2. ASSUME alone' PROVE OneAtATime' /\ LoggerHeld' /\ \A t \in Threads : GetsHeld(t)'
  <2>1. /\ alone /\ OneAtATime' /\ LoggerHeld /\ GetsHeld(u)
        /\ \A t \in Threads \ {u} : at[t] = "outside" /\ at'[t] = "outside"
    BY <1>2, OthersOutside DEF EnterGetLogger
  <2>2. at'[u] = "test"
    BY <1>2, OthersOutside DEF EnterGetLogger
  <2>3. LoggerHeld'
    BY <2>1, <2>2 DEF EnterGetLogger, LoggerHeld, Chosen
  <2>4. GetsHeld(u)'
    BY <2>1, <2>2 DEF EnterGetLogger, GetsHeld
  <2>5. ASSUME NEW t \in Threads PROVE GetsHeld(t)'
    BY <2>1, <2>4 DEF GetsHeld
  <2> QED BY <2>1, <2>3, <2>5
<1> QED BY <1>1, <1>2 DEF LoggerInv

LEMMA TestInv ==
    ASSUME NEW u \in Threads, LoggerInv, TestLogger(u) PROVE LoggerInv'
<1> USE DEF Null, Default, User
<1>1. LoggerTypeOK'
  BY DEF LoggerInv, LoggerTypeOK, TestLogger, Goes
<1>2. ASSUME alone' PROVE OneAtATime' /\ LoggerHeld' /\ \A t \in Threads : GetsHeld(t)'
  <2>1. /\ alone /\ OneAtATime' /\ LoggerHeld /\ GetsHeld(u)
        /\ \A t \in Threads \ {u} : at[t] = "outside" /\ at'[t] = "outside"
    BY <1>2, OthersOutside DEF TestLogger
  <2>2. at'[u] = IF s_logger = Null THEN "create" ELSE "copy"
    BY <1>2, OthersOutside DEF TestLogger
  <2>3. LoggerHeld'
    BY <2>1, <2>2 DEF TestLogger, LoggerHeld, Chosen
  <2>4. GetsHeld(u)'
    BY <2>1, <2>2 DEF TestLogger, GetsHeld
  <2>5. ASSUME NEW t \in Threads PROVE GetsHeld(t)'
    BY <2>1, <2>4 DEF GetsHeld
  <2> QED BY <2>1, <2>3, <2>5
<1> QED BY <1>1, <1>2 DEF LoggerInv

LEMMA CreateInv ==
    ASSUME NEW u \in Threads, LoggerInv, CreateDefault(u) PROVE LoggerInv'
<1> USE DEF Null, Default, User
<1>1. LoggerTypeOK'
  BY DEF LoggerInv, LoggerTypeOK, CreateDefault, Goes
<1>2. ASSUME alone' PROVE OneAtATime' /\ LoggerHeld' /\ \A t \in Threads : GetsHeld(t)'
  <2>1. /\ alone /\ OneAtATime' /\ LoggerHeld /\ GetsHeld(u)
        /\ \A t \in Threads \ {u} : at[t] = "outside" /\ at'[t] = "outside"
    BY <1>2, OthersOutside DEF CreateDefault
  <2>2. at'[u] = IF registered THEN "threw" ELSE "assign"
    BY <1>2, OthersOutside DEF CreateDefault
  <2>3. LoggerHeld'
    BY <2>1, <2>2 DEF CreateDefault, LoggerHeld, Chosen, GetsHeld
  <2>4. GetsHeld(u)'
    BY <2>1, <2>2 DEF CreateDefault, GetsHeld, LoggerHeld, TakenAway, Chosen
  <2>5. ASSUME NEW t \in Threads PROVE GetsHeld(t)'
    BY <2>1, <2>4 DEF GetsHeld
  <2> QED BY <2>1, <2>3, <2>5
<1> QED BY <1>1, <1>2 DEF LoggerInv

LEMMA AssignInv ==
    ASSUME NEW u \in Threads, LoggerInv, AssignDefault(u) PROVE LoggerInv'
<1> USE DEF Null, Default, User
<1>1. LoggerTypeOK'
  BY DEF LoggerInv, LoggerTypeOK, AssignDefault, Goes
<1>2. ASSUME alone' PROVE OneAtATime' /\ LoggerHeld' /\ \A t \in Threads : GetsHeld(t)'
  <2>1. /\ alone /\ OneAtATime' /\ LoggerHeld /\ GetsHeld(u)
        /\ \A t \in Threads \ {u} : at[t] = "outside" /\ at'[t] = "outside"
    BY <1>2, OthersOutside DEF AssignDefault
  <2>2. at'[u] = "level"
    BY <1>2, OthersOutside DEF AssignDefault
  <2>3. LoggerHeld'
    BY <2>1, <2>2 DEF AssignDefault, LoggerHeld, Chosen, GetsHeld
  <2>4. GetsHeld(u)'
    BY <2>1, <2>2 DEF AssignDefault, GetsHeld
  <2>5. ASSUME NEW t \in Threads PROVE GetsHeld(t)'
    BY <2>1, <2>4 DEF GetsHeld
  <2> QED BY <2>1, <2>3, <2>5
<1> QED BY <1>1, <1>2 DEF LoggerInv

LEMMA SetLevelInv ==
    ASSUME NEW u \in Threads, LoggerInv, SetLevel(u) PROVE LoggerInv'
<1> USE DEF Null, Default, User
<1>1. LoggerTypeOK'
  BY DEF LoggerInv, LoggerTypeOK, SetLevel, Goes
<1>2. ASSUME alone' PROVE OneAtATime' /\ LoggerHeld' /\ \A t \in Threads : GetsHeld(t)'
  <2>1. /\ alone /\ OneAtATime' /\ LoggerHeld /\ GetsHeld(u)
        /\ \A t \in Threads \ {u} : at[t] = "outside" /\ at'[t] = "outside"
    BY <1>2, OthersOutside DEF SetLevel
  <2>2. at'[u] = "copy"
    BY <1>2, OthersOutside DEF SetLevel
  <2>3. LoggerHeld'
    BY <2>1, <2>2 DEF SetLevel, LoggerHeld, Chosen
  <2>4. GetsHeld(u)'
    BY <2>1, <2>2 DEF SetLevel, GetsHeld
  <2>5. ASSUME NEW t \in Threads PROVE GetsHeld(t)'
    BY <2>1, <2>4 DEF GetsHeld
  <2> QED BY <2>1, <2>3, <2>5
<1> QED BY <1>1, <1>2 DEF LoggerInv

LEMMA CopyInv ==
    ASSUME NEW u \in Threads, LoggerInv, CopyLogger(u) PROVE LoggerInv'
<1> USE DEF Null, Default, User
<1>1. LoggerTypeOK'
  BY DEF LoggerInv, LoggerTypeOK, CopyLogger, Goes
<1>2. ASSUME alone' PROVE OneAtATime' /\ LoggerHeld' /\ \A t \in Threads : GetsHeld(t)'
  <2>1. /\ alone /\ OneAtATime' /\ LoggerHeld /\ GetsHeld(u)
        /\ \A t \in Threads \ {u} : at[t] = "outside" /\ at'[t] = "outside"
    BY <1>2, OthersOutside DEF CopyLogger
  <2>2. at'[u] = "returned"
    BY <1>2, OthersOutside DEF CopyLogger
  <2>3. LoggerHeld'
    BY <2>1, <2>2 DEF CopyLogger, LoggerHeld, Chosen
  <2>4. GetsHeld(u)'
    BY <2>1, <2>2 DEF CopyLogger, GetsHeld, LoggerInv, LoggerTypeOK
  <2>5. ASSUME NEW t \in Threads PROVE GetsHeld(t)'
    BY <2>1, <2>4 DEF GetsHeld
  <2> QED BY <2>1, <2>3, <2>5
<1> QED BY <1>1, <1>2 DEF LoggerInv

LEMMA LeaveInv ==
    ASSUME NEW u \in Threads, LoggerInv, LeaveGetLogger(u) PROVE LoggerInv'
<1> USE DEF Null, Default, User
<1>1. LoggerTypeOK'
  BY DEF LoggerInv, LoggerTypeOK, LeaveGetLogger, Goes
<1>2. ASSUME alone' PROVE OneAtATime' /\ LoggerHeld' /\ \A t \in Threads : GetsHeld(t)'
  <2>1. /\ alone /\ OneAtATime' /\ LoggerHeld /\ GetsHeld(u)
        /\ \A t \in Threads \ {u} : at[t] = "outside" /\ at'[t] = "outside"
    BY <1>2, OthersOutside DEF LeaveGetLogger
  <2>2. at'[u] = "outside"
    BY <1>2, OthersOutside DEF LeaveGetLogger
  <2>3. LoggerHeld'
    BY <2>1, <2>2 DEF LeaveGetLogger, LoggerHeld, Chosen
  <2>4. GetsHeld(u)'
    BY <2>1, <2>2 DEF LeaveGetLogger, GetsHeld
  <2>5. ASSUME NEW t \in Threads PROVE GetsHeld(t)'
    BY <2>1, <2>4 DEF GetsHeld
  <2> QED BY <2>1, <2>3, <2>5
<1> QED BY <1>1, <1>2 DEF LoggerInv

LEMMA EnterSetInv ==
    ASSUME NEW u \in Threads, LoggerInv, EnterSetLogger(u) PROVE LoggerInv'
<1> USE DEF Null, Default, User
<1>1. LoggerTypeOK'
  BY DEF LoggerInv, LoggerTypeOK, EnterSetLogger, Goes
<1>2. ASSUME alone' PROVE OneAtATime' /\ LoggerHeld' /\ \A t \in Threads : GetsHeld(t)'
  <2>1. /\ alone /\ OneAtATime' /\ LoggerHeld /\ GetsHeld(u)
        /\ \A t \in Threads \ {u} : at[t] = "outside" /\ at'[t] = "outside"
    BY <1>2, OthersOutside DEF EnterSetLogger
  <2>2. at'[u] = "set"
    BY <1>2, OthersOutside DEF EnterSetLogger
  <2>3. LoggerHeld'
    BY <2>1, <2>2 DEF EnterSetLogger, LoggerHeld, Chosen
  <2>4. GetsHeld(u)'
    BY <2>1, <2>2 DEF EnterSetLogger, GetsHeld
  <2>5. ASSUME NEW t \in Threads PROVE GetsHeld(t)'
    BY <2>1, <2>4 DEF GetsHeld
  <2> QED BY <2>1, <2>3, <2>5
<1> QED BY <1>1, <1>2 DEF LoggerInv

LEMMA SetInv ==
    ASSUME NEW u \in Threads, NEW new_logger \in {Null, User},
           LoggerInv, SetLogger(u, new_logger)
    PROVE  LoggerInv'
<1> USE DEF Null, Default, User
<1>1. LoggerTypeOK'
  BY DEF LoggerInv, LoggerTypeOK, SetLogger, Goes
<1>2. ASSUME alone' PROVE OneAtATime' /\ LoggerHeld' /\ \A t \in Threads : GetsHeld(t)'
  <2>1. /\ alone /\ OneAtATime' /\ LoggerHeld /\ GetsHeld(u)
        /\ \A t \in Threads \ {u} : at[t] = "outside" /\ at'[t] = "outside"
    BY <1>2, OthersOutside DEF SetLogger
  <2>2. at'[u] = "outside"
    BY <1>2, OthersOutside DEF SetLogger
  <2>3. LoggerHeld'
    BY <2>1, <2>2 DEF SetLogger, LoggerHeld, Chosen, LoggerInv, LoggerTypeOK
  <2>4. GetsHeld(u)'
    BY <2>1, <2>2 DEF SetLogger, GetsHeld
  <2>5. ASSUME NEW t \in Threads PROVE GetsHeld(t)'
    BY <2>1, <2>4 DEF GetsHeld
  <2> QED BY <2>1, <2>3, <2>5
<1> QED BY <1>1, <1>2 DEF LoggerInv

\* Only whether the process goes on changes.
LEMMA LoggerRests ==
    ASSUME LoggerInv, alive' \in BOOLEAN, UNCHANGED <<s_logger, registered, at, got, sets, alone>>
    PROVE  LoggerInv'
<1>1. LoggerTypeOK' /\ OneAtATime' = OneAtATime
  BY DEF LoggerInv, LoggerTypeOK, OneAtATime
<1>2. LoggerHeld' = LoggerHeld
  BY DEF LoggerHeld, Chosen
<1>3. ASSUME NEW t \in Threads PROVE GetsHeld(t)' = GetsHeld(t)
  BY DEF GetsHeld, TakenAway, Chosen
<1> QED BY <1>1, <1>2, <1>3 DEF LoggerInv

-----------------------------------------------------------------------------
(* Hashes and their texts.  The place values and the value of a text are   *)
(* recursive functions: Recursion shows that there are such functions, and *)
(* CountingUp, which is induction for a set in place of a predicate, what  *)
(* they compute.                                                           *)

\* A set with 0, and with each number the next one, has them all.
LEMMA CountingUp ==
    ASSUME NEW N \in Nat, NEW S, 0 \in S, \A n \in 0 .. N - 1 : n \in S => n + 1 \in S
    PROVE  0 .. N \subseteq S
<1> DEFINE Missing(x) == {n \in 0 .. x : n \notin S}
           T == {Missing(x) : x \in {y \in 0 .. N : y \notin S}}
<1> SUFFICES ASSUME NEW z \in 0 .. N, z \notin S
             PROVE  FALSE
  OBVIOUS
<1>1. T \subseteq FiniteSubsetsOf(0 .. N) /\ T # {}
  <2>1. IsFiniteSet(0 .. N)
    BY FS_Interval
  <2>2. \A x \in 0 .. N : Missing(x) \in SUBSET (0 .. N)
    OBVIOUS
  <2> HIDE DEF Missing
  <2>3. \A x \in 0 .. N : IsFiniteSet(Missing(x))
    BY <2>1, <2>2, FS_Subset
  <2> QED BY <2>2, <2>3 DEF FiniteSubsetsOf
<1>2. PICK U \in T : \A V \in T : <<V, U>> \notin StrictSubsetOrdering(0 .. N)
  BY <1>1, FS_StrictSubsetOrderingWellFounded, FS_Interval, WFMin
<1>3. PICK x \in 0 .. N : x \notin S /\ U = Missing(x)
  BY <1>2
<1>4. x # 0 /\ x - 1 \in 0 .. N - 1 /\ x - 1 \in 0 .. N /\ x = (x - 1) + 1
  BY <1>3
<1>5. x - 1 \notin S
  BY <1>3, <1>4
<1>6. Missing(x - 1) \subseteq Missing(x) /\ x \in Missing(x) /\ x \notin Missing(x - 1)
      /\ Missing(x) \subseteq 0 .. N
  BY <1>3, <1>4
<1> HIDE DEF Missing
<1>7. Missing(x - 1) \in T
  BY <1>4, <1>5
<1>8. <<Missing(x - 1), U>> \in StrictSubsetOrdering(0 .. N)
  BY <1>3, <1>6 DEF StrictSubsetOrdering
<1> QED BY <1>2, <1>7, <1>8

\* Approximations on 0 .. m, for every m.
LEMMA Recursion ==
    ASSUME NEW N \in Nat, NEW c \in Nat, NEW d \in [1 .. N -> Nat]
    PROVE  \E f \in [0 .. N -> Nat] : f[0] = c /\ \A n \in 1 .. N : f[n] = 16 * f[n - 1] + d[n]
<1> DEFINE Upto(f, m) == f[0] = c /\ \A n \in 1 .. m : f[n] = 16 * f[n - 1] + d[n]
           S == {m \in 0 .. N : \E f \in [0 .. N -> Nat] : Upto(f, m)}
<1>1. 0 \in S
  <2>1. Upto([n \in 0 .. N |-> c], 0) /\ [n \in 0 .. N |-> c] \in [0 .. N -> Nat]
    OBVIOUS
  <2> HIDE DEF Upto
  <2> QED BY <2>1
<1>2. ASSUME NEW m \in 0 .. N - 1, m \in S
      PROVE  m + 1 \in S
  <2>1. PICK f \in [0 .. N -> Nat] : Upto(f, m)
    BY <1>2
  <2> DEFINE g == [f EXCEPT ![m + 1] = 16 * f[m] + d[m + 1]]
  <2>2. m \in 0 .. N /\ m + 1 \in 1 .. N /\ m + 1 \in 0 .. N /\ f[m] \in Nat /\ d[m + 1] \in Nat
    OBVIOUS
  <2>3. g \in [0 .. N -> Nat] /\ g[m + 1] = 16 * f[m] + d[m + 1] /\ \A n \in 0 .. m : g[n] = f[n]
    BY <2>2
  <2> HIDE DEF g
  <2>4. ASSUME NEW n \in 1 .. m + 1
        PROVE  g[n] = 16 * g[n - 1] + d[n]
    <3>1. CASE n = m + 1
      BY <2>3, <3>1
    <3>2. CASE n # m + 1
      <4>1. n \in 1 .. m /\ n \in 0 .. m /\ n - 1 \in 0 .. m
        BY <3>2
      <4> QED BY <2>1, <2>3, <4>1
    <3> QED BY <3>1, <3>2
  <2>5. Upto(g, m + 1)
    BY <2>1, <2>3, <2>4
  <2> HIDE DEF Upto
  <2> QED BY <2>2, <2>3, <2>5
<1> HIDE DEF S
<1>3. 0 .. N \subseteq S
  BY <1>1, <1>2, CountingUp
<1>4. N \in S
  BY <1>3
<1> QED BY <1>4 DEF S

\* All that satisfies the equation takes natural values.
LEMMA Solution ==
    ASSUME NEW N \in Nat, NEW c \in Nat, NEW d \in [1 .. N -> Nat], NEW p,
           p[0] = c, \A n \in 1 .. N : p[n] = 16 * p[n - 1] + d[n]
    PROVE  \A n \in 0 .. N : p[n] \in Nat
<1> DEFINE S == {n \in 0 .. N : p[n] \in Nat}
<1>1. 0 \in S
  OBVIOUS
<1>2. ASSUME NEW n \in 0 .. N - 1, n \in S
      PROVE  n + 1 \in S
  <2>1. n + 1 \in 1 .. N /\ n + 1 \in 0 .. N /\ (n + 1) - 1 = n
    OBVIOUS
  <2>2. p[n + 1] = 16 * p[n] + d[n + 1]
    BY <2>1
  <2>3. d[n + 1] \in Nat /\ p[n] \in Nat
    BY <1>2, <2>1
  <2> QED BY <2>1, <2>2, <2>3
<1> HIDE DEF S
<1>3. 0 .. N \subseteq S
  BY <1>1, <1>2, CountingUp
<1> QED BY <1>3 DEF S

LEMMA PlaceValues ==
    /\ PlaceValue[0] = 1
    /\ \A n \in 0 .. 2 * HexLength : PlaceValue[n] \in Nat
    /\ \A n \in 1 .. 2 * HexLength : PlaceValue[n] = 16 * PlaceValue[n - 1]
<1> DEFINE N == 2 * HexLength
           d == [n \in 1 .. N |-> 0]
           Is(f) == f = [n \in 0 .. N |-> IF n = 0 THEN 1 ELSE 16 * f[n - 1]]
           p == PlaceValue
<1>1. N \in Nat /\ 1 \in Nat
  BY HexLengthAssumption
<1>2. p = CHOOSE f : Is(f)
  BY DEF PlaceValue
<1> HIDE DEF N, p
<1>3. d \in [1 .. N -> Nat] /\ \A n \in 1 .. N : d[n] = 0
  OBVIOUS
<1> HIDE DEF d
<1>4. PICK f \in [0 .. N -> Nat] : f[0] = 1 /\ \A n \in 1 .. N : f[n] = 16 * f[n - 1] + d[n]
  BY <1>1, <1>3, Recursion
<1>5. Is(f)
  <2>1. \A n \in 1 .. N : n - 1 \in 0 .. N
    BY <1>1
  <2>2. \A n \in 1 .. N : f[n] = 16 * f[n - 1]
    BY <1>3, <1>4, <2>1
  <2>3. \A n \in 0 .. N : n # 0 => n \in 1 .. N
    BY <1>1
  <2> DEFINE h == [n \in 0 .. N |-> IF n = 0 THEN 1 ELSE 16 * f[n - 1]]
  <2>4. \A n \in 0 .. N : f[n] = h[n]
    BY <1>4, <2>2, <2>3
  <2> QED BY <1>4, <2>4
<1>6. Is(p)
  <2> HIDE DEF Is
  <2> QED BY <1>2, <1>5
<1>7. p[0] = 1 /\ \A n \in 1 .. N : p[n] = 16 * p[n - 1]
  <2>1. 0 \in 0 .. N /\ \A n \in 1 .. N : n \in 0 .. N /\ n # 0
    BY <1>1
  <2> QED BY <1>6, <2>1
<1> HIDE DEF Is
<1>8. \A n \in 0 .. N : p[n] \in Nat
  <2> DEFINE S == {n \in 0 .. N : p[n] \in Nat}
  <2>1. 0 \in S
    BY <1>1, <1>7
  <2>2. ASSUME NEW n \in 0 .. N - 1, n \in S
        PROVE  n + 1 \in S
    <3>1. n + 1 \in 1 .. N /\ n + 1 \in 0 .. N /\ (n + 1) - 1 = n
      BY <1>1
    <3>2. p[n + 1] = 16 * p[n]
      BY <1>7, <3>1
    <3> QED BY <2>2, <3>1, <3>2
  <2> HIDE DEF S
  <2>3. 0 .. N \subseteq S
    BY <1>1, <2>1, <2>2, CountingUp
  <2> QED BY <2>3 DEF S
<1> QED BY <1>7, <1>8 DEF N, p

LEMMA PlacesGrow ==
    /\ \A n \in 0 .. 2 * HexLength : PlaceValue[n] \in Nat \ {0}
    /\ \A m, n \in 0 .. 2 * HexLength : m <= n => PlaceValue[m] <= PlaceValue[n]
<1> DEFINE N == 2 * HexLength
           S == {n \in 0 .. N : /\ PlaceValue[n] > 0
                                /\ \A m \in 0 .. N : m <= n => PlaceValue[m] <= PlaceValue[n]}
<1>1. /\ N \in Nat /\ PlaceValue[0] = 1
      /\ \A n \in 0 .. N : PlaceValue[n] \in Nat
      /\ \A n \in 1 .. N : PlaceValue[n] = 16 * PlaceValue[n - 1]
  BY PlaceValues, HexLengthAssumption
<1> HIDE DEF N
<1>2. 0 \in S
  BY <1>1
<1>3. ASSUME NEW n \in 0 .. N - 1, n \in S
      PROVE  n + 1 \in S
  <2>1. n + 1 \in 1 .. N /\ n + 1 \in 0 .. N /\ n \in 0 .. N /\ (n + 1) - 1 = n
    BY <1>1
  <2>2. PlaceValue[n + 1] = 16 * PlaceValue[n] /\ PlaceValue[n] \in Nat /\ PlaceValue[n] > 0
    BY <1>1, <1>3, <2>1
  <2>3. PlaceValue[n + 1] > 0 /\ PlaceValue[n] <= PlaceValue[n + 1]
    BY <2>2
  <2>4. ASSUME NEW m \in 0 .. N, m <= n + 1
        PROVE  PlaceValue[m] <= PlaceValue[n + 1]
    <3>1. CASE m = n + 1
      BY <1>1, <2>1, <3>1
    <3>2. CASE m # n + 1
      <4>1. m <= n
        BY <1>1, <2>4, <3>2
      <4>2. PlaceValue[m] <= PlaceValue[n] /\ PlaceValue[m] \in Nat /\ PlaceValue[n + 1] \in Nat
        BY <1>1, <1>3, <2>1, <4>1
      <4> QED BY <2>2, <2>3, <4>2
    <3> QED BY <3>1, <3>2
  <2> QED BY <2>1, <2>3, <2>4
<1> HIDE DEF S
<1>4. 0 .. N \subseteq S
  BY <1>1, <1>2, <1>3, CountingUp
<1>5. \A n \in 0 .. N : PlaceValue[n] \in Nat /\ PlaceValue[n] > 0
  BY <1>1, <1>4 DEF S
<1>6. \A m, n \in 0 .. N : m <= n => PlaceValue[m] <= PlaceValue[n]
  BY <1>4 DEF S
<1>7. \A n \in 0 .. N : PlaceValue[n] \in Nat \ {0}
  BY <1>5
<1> QED BY <1>6, <1>7 DEF N

\* The digits of a text, and the values of the digits before each place.
LEMMA PositionalIs ==
    ASSUME NEW s, Len(s) \in Nat, \A n \in 1 .. Len(s) : DigitValue(s[n]) \in 0 .. 15
    PROVE  \E f \in [0 .. Len(s) -> Nat] :
              /\ f[0] = 0
              /\ \A n \in 1 .. Len(s) : f[n] = 16 * f[n - 1] + DigitValue(s[n])
              /\ Positional(s) = f[Len(s)]
<1> DEFINE N == Len(s)
           v(n) == DigitValue(s[n])
           d == [n \in 1 .. N |-> v(n)]
           Is(f) == f = [n \in 0 .. N |-> IF n = 0 THEN 0 ELSE 16 * f[n - 1] + v(n)]
           p == CHOOSE f : Is(f)
<1>1. Positional(s) = p[N]
  BY DEF Positional
<1>2. N \in Nat /\ 0 \in Nat /\ \A n \in 1 .. N : v(n) \in 0 .. 15
  OBVIOUS
<1> HIDE DEF N, v, p
<1>3. d \in [1 .. N -> Nat] /\ \A n \in 1 .. N : d[n] = v(n)
  BY <1>2
<1> HIDE DEF d
<1>4. PICK f \in [0 .. N -> Nat] : f[0] = 0 /\ \A n \in 1 .. N : f[n] = 16 * f[n - 1] + d[n]
  BY <1>2, <1>3, Recursion
<1>5. Is(f)
  <2>1. \A n \in 0 .. N : n # 0 => n \in 1 .. N
    BY <1>2
  <2>2. \A n \in 1 .. N : f[n] = 16 * f[n - 1] + v(n)
    BY <1>3, <1>4
  <2> DEFINE h == [n \in 0 .. N |-> IF n = 0 THEN 0 ELSE 16 * f[n - 1] + v(n)]
  <2>3. \A n \in 0 .. N : f[n] = h[n]
    BY <1>4, <2>1, <2>2
  <2> QED BY <1>4, <2>3
<1>6. Is(p)
  <2> HIDE DEF Is
  <2> QED BY <1>5 DEF p
<1>7. p[0] = 0 /\ \A n \in 1 .. N : p[n] = 16 * p[n - 1] + v(n)
  <2>1. 0 \in 0 .. N /\ \A n \in 1 .. N : n \in 0 .. N /\ n # 0
    BY <1>2
  <2> QED BY <1>6, <2>1
<1>8. p = [n \in 0 .. N |-> p[n]]
  BY <1>6
<1> HIDE DEF Is
<1>9. \A n \in 0 .. N : p[n] \in Nat
  <2>1. \A n \in 1 .. N : p[n] = 16 * p[n - 1] + d[n]
    BY <1>3, <1>7
  <2> QED BY <1>2, <1>3, <1>7, <2>1, Solution
<1>10. p \in [0 .. N -> Nat]
  BY <1>8, <1>9
<1> QED BY <1>1, <1>7, <1>10 DEF N, v

-----------------------------------------------------------------------------
LEMMA DigitForms ==
    /\ \A c \in HexDigits : \E v \in 0 .. 15 : c \in {LowerDigits[v + 1], UpperDigits[v + 1]}
    /\ \A v \in 1 .. 16 : LowerDigits[v] \in HexDigits /\ UpperDigits[v] \in HexDigits
<1>1. DOMAIN LowerDigits = 1 .. 16 /\ DOMAIN UpperDigits = 1 .. 16
  BY DEF LowerDigits, UpperDigits
<1>2. HexDigits = {LowerDigits[v] : v \in 1 .. 16} \cup {UpperDigits[v] : v \in 1 .. 16}
  BY <1>1 DEF HexDigits, SeqExt!ToSet
<1>3. \A v \in 1 .. 16 : v - 1 \in 0 .. 15 /\ (v - 1) + 1 = v
  OBVIOUS
<1> QED BY <1>2, <1>3

LEMMA DigitsDiffer ==
    \A u, v \in 1 .. 16 :
       u # v => /\ LowerDigits[u] # LowerDigits[v]
                /\ UpperDigits[u] # UpperDigits[v]
                /\ LowerDigits[u] # UpperDigits[v]
  BY DEF LowerDigits, UpperDigits

LEMMA DigitIs ==
    ASSUME NEW v \in 0 .. 15, NEW c \in {LowerDigits[v + 1], UpperDigits[v + 1]}
    PROVE  DigitValue(c) = v /\ LowerCase(c) = LowerDigits[v + 1]
<1>1. \A u \in 0 .. 15 : u + 1 \in 1 .. 16 /\ (u # v => u + 1 # v + 1)
  OBVIOUS
<1>2. \A u \in 0 .. 15 : c \in {LowerDigits[u + 1], UpperDigits[u + 1]} => u = v
  BY <1>1, DigitsDiffer
<1>3. DigitValue(c) = v
  BY <1>2 DEF DigitValue
<1>4. \A d \in 1 .. 16 : UpperDigits[d] = c => d = v + 1
  BY <1>1, DigitsDiffer
<1>5. LowerCase(c) = LowerDigits[v + 1]
  BY <1>1, <1>4 DEF LowerCase
<1> QED BY <1>3, <1>5

LEMMA DigitInRange == \A c \in HexDigits : DigitValue(c) \in 0 .. 15
  BY DigitForms, DigitIs

LEMMA NotADigit == \A c \in HexDigits : c \notin Blanks /\ c \notin {"+", "-"} /\ c \notin {"x", "X"}
<1>1. \A v \in 1 .. 16 : /\ LowerDigits[v] \notin {"+", "-"} /\ LowerDigits[v] \notin {"x", "X"}
                         /\ UpperDigits[v] \notin {"+", "-"} /\ UpperDigits[v] \notin {"x", "X"}
  BY DEF LowerDigits, UpperDigits
<1>2. /\ "0" \notin Blanks /\ "1" \notin Blanks /\ "2" \notin Blanks /\ "3" \notin Blanks
      /\ "4" \notin Blanks /\ "5" \notin Blanks /\ "6" \notin Blanks /\ "7" \notin Blanks
      /\ "8" \notin Blanks /\ "9" \notin Blanks
      /\ "a" \notin Blanks /\ "b" \notin Blanks /\ "c" \notin Blanks /\ "d" \notin Blanks
      /\ "e" \notin Blanks /\ "f" \notin Blanks
      /\ "A" \notin Blanks /\ "B" \notin Blanks /\ "C" \notin Blanks /\ "D" \notin Blanks
      /\ "E" \notin Blanks /\ "F" \notin Blanks
  BY Zenon DEF Blanks
<1>3. \A v \in 1 .. 16 : LowerDigits[v] \notin Blanks /\ UpperDigits[v] \notin Blanks
  BY <1>2 DEF LowerDigits, UpperDigits
<1>4. \A v \in 0 .. 15 : v + 1 \in 1 .. 16
  OBVIOUS
<1> QED BY <1>1, <1>3, <1>4, DigitForms

\* How many of the first characters are in chars: so many, and the next is not.
LEMMA LeadingIs ==
    ASSUME NEW s, Len(s) \in Nat, NEW chars
    PROVE  /\ Leading(s, chars) \in 0 .. Len(s)
           /\ \A i \in 1 .. Leading(s, chars) : s[i] \in chars
           /\ Leading(s, chars) < Len(s) => s[Leading(s, chars) + 1] \notin chars
<1> DEFINE N == Len(s)
           S == {n \in 0 .. N : \A i \in 1 .. n : s[i] \in chars}
<1>1. N \in Nat /\ 0 \in S
  OBVIOUS
<1> HIDE DEF N
<1>2. \E m \in S : \A y \in S : m >= y
  <2>1. CASE \E m \in 0 .. N - 1 : m \in S /\ m + 1 \notin S
    <3>1. PICK m \in 0 .. N - 1 : m \in S /\ m + 1 \notin S
      BY <2>1
    <3>2. s[m + 1] \notin chars
      BY <1>1, <3>1
    <3>3. \A y \in S : y <= m
      BY <1>1, <3>2
    <3> QED BY <1>1, <3>1, <3>3
  <2>2. CASE \A m \in 0 .. N - 1 : m \in S => m + 1 \in S
    <3> HIDE DEF S
    <3>1. 0 .. N \subseteq S
      BY <1>1, <2>2, CountingUp
    <3>2. N \in S /\ \A y \in S : N >= y
      BY <1>1, <3>1 DEF S
    <3> QED BY <3>2
  <2> QED BY <2>1, <2>2
<1>3. Leading(s, chars) = CHOOSE m \in S : \A y \in S : m >= y
  BY DEF Leading, FinSetExt!Max, N
<1> DEFINE L == Leading(s, chars)
<1> HIDE DEF L
<1>4. L \in S /\ \A y \in S : L >= y
  <2> HIDE DEF S
  <2> QED BY <1>2, <1>3 DEF L
<1>5. L < N => s[L + 1] \notin chars
  <2> SUFFICES ASSUME L < N, s[L + 1] \in chars
               PROVE  FALSE
    OBVIOUS
  <2>1. L \in 0 .. N /\ L + 1 \in 0 .. N
    BY <1>1, <1>4
  <2>2. \A i \in 1 .. L + 1 : i \in 1 .. L \/ i = L + 1
    BY <2>1
  <2>3. L + 1 \in S
    BY <1>4, <2>1, <2>2
  <2> QED BY <1>4, <2>1, <2>3
<1> QED BY <1>4, <1>5 DEF L, N

\* Texts all of whose characters are digits.
LEMMA DigitsOfPlain ==
    ASSUME NEW s \in Seq(HexDigits)
    PROVE  DigitsOf(s) = s /\ ~Negated(s)
<1>0. Len(s) \in Nat /\ DOMAIN s = 1 .. Len(s) /\ \A i \in 1 .. Len(s) : s[i] \in HexDigits
  OBVIOUS
<1>1. Trimmed(s) = s
  <2>1. Leading(s, Blanks) = 0
    <3> DEFINE L == Leading(s, Blanks)
    <3>1. L \in 0 .. Len(s) /\ \A i \in 1 .. L : s[i] \in Blanks
      BY <1>0, LeadingIs
    <3> HIDE DEF L
    <3>2. L # 0 => 1 \in 1 .. L /\ 1 \in 1 .. Len(s)
      BY <1>0, <3>1
    <3>3. L = 0
      BY <1>0, <3>1, <3>2, NotADigit
    <3> QED BY <3>3 DEF L
  <2> QED BY <2>1 DEF Trimmed, Without
<1>2. ~IsSigned(s)
  <2>1. s # <<>> => 1 \in 1 .. Len(s)
    BY <1>0
  <2> QED BY <1>0, <2>1, NotADigit DEF IsSigned
<1>3. ~IsPrefixed(s)
  <2>1. Len(s) > 2 => 2 \in 1 .. Len(s)
    BY <1>0
  <2> QED BY <1>0, <2>1, NotADigit DEF IsPrefixed
<1>4. Unprefixed(Unsigned(Trimmed(s))) = s
  BY <1>1, <1>2, <1>3 DEF Unprefixed, Unsigned
<1>5. Leading(s, HexDigits) = Len(s)
  <2> DEFINE L == Leading(s, HexDigits)
             N == Len(s)
  <2>1. L \in 0 .. N /\ (L < N => s[L + 1] \notin HexDigits)
    BY <1>0, LeadingIs
  <2>2. N \in Nat /\ \A i \in 1 .. N : s[i] \in HexDigits
    BY <1>0
  <2> HIDE DEF L, N
  <2>3. ~(L < N)
    BY <2>1, <2>2
  <2>4. L = N
    BY <2>1, <2>2, <2>3
  <2> QED BY <2>4 DEF L, N
<1>6. DigitsOf(s) = s
  BY <1>4, <1>5 DEF DigitsOf
<1>7. ~Negated(s)
  BY <1>1, <1>2 DEF Negated
<1> QED BY <1>6, <1>7

\* The digits of a text are digits; they are fewer than its characters unless it is
\* nothing but digits.
LEMMA DigitsOfAny ==
    ASSUME NEW C, NEW s \in Seq(C)
    PROVE  /\ DigitsOf(s) \in Seq(HexDigits)
           /\ Len(DigitsOf(s)) <= Len(s)
           /\ Len(DigitsOf(s)) = Len(s) => s \in Seq(HexDigits)
<1> DEFINE a == Trimmed(s)
           b == Unsigned(a)
           t == Unprefixed(b)
           L == Leading(t, HexDigits)
<1>1. a \in Seq(C) /\ Len(a) <= Len(s) /\ (Len(a) = Len(s) => a = s)
  <2> DEFINE n == Leading(s, Blanks)
  <2>1. n \in 0 .. Len(s)
    BY LeadingIs
  <2>2. a = SubSeq(s, n + 1, Len(s))
    BY DEF Trimmed, Without
  <2> HIDE DEF n, a
  <2>3. a \in Seq(C) /\ Len(a) = Len(s) - n
    BY <2>1, <2>2
  <2>4. n = 0 => a = s
    BY <2>2
  <2> QED BY <2>1, <2>3, <2>4
<1>2. b \in Seq(C) /\ Len(b) <= Len(a) /\ (Len(b) = Len(a) => b = a)
  <2> HIDE DEF a
  <2>1. CASE IsSigned(a)
    <3>1. b = Tail(a) /\ a # <<>>
      BY <2>1 DEF Unsigned, IsSigned
    <3> HIDE DEF b
    <3> QED BY <1>1, <3>1
  <2>2. CASE ~IsSigned(a)
    BY <1>1, <2>2 DEF Unsigned
  <2> QED BY <2>1, <2>2
<1>3. t \in Seq(C) /\ Len(t) <= Len(b) /\ (Len(t) = Len(b) => t = b)
  <2> HIDE DEF b
  <2>1. CASE IsPrefixed(b)
    <3>1. t = SubSeq(b, 3, Len(b)) /\ Len(b) > 2
      BY <2>1 DEF Unprefixed, IsPrefixed, Without
    <3> HIDE DEF t
    <3>2. t \in Seq(C) /\ Len(t) = Len(b) - 2
      BY <1>2, <3>1
    <3> QED BY <1>2, <3>1, <3>2
  <2>2. CASE ~IsPrefixed(b)
    BY <1>2, <2>2 DEF Unprefixed
  <2> QED BY <2>1, <2>2
<1>4. DigitsOf(s) = SubSeq(t, 1, L)
  BY DEF DigitsOf
<1> HIDE DEF t, b, a
<1>5. L \in 0 .. Len(t) /\ \A i \in 1 .. L : t[i] \in HexDigits
  BY <1>3, LeadingIs
<1> HIDE DEF L
<1>6. DigitsOf(s) \in Seq(HexDigits) /\ Len(DigitsOf(s)) = L
  <2> DEFINE d == SubSeq(t, 1, L)
  <2>1. Len(d) = L /\ d \in Seq(C) /\ \A i \in 1 .. L : d[i] = t[i]
    BY <1>3, <1>5
  <2> HIDE DEF d
  <2>2. \A i \in 1 .. Len(d) : d[i] \in HexDigits
    BY <1>5, <2>1
  <2>3. d \in Seq(HexDigits)
    BY <2>1, <2>2
  <2> QED BY <1>4, <2>1, <2>3 DEF d
<1>7. ASSUME L = Len(s)
      PROVE  s \in Seq(HexDigits)
  <2>1. t = s /\ L = Len(t)
    BY <1>1, <1>2, <1>3, <1>5, <1>7
  <2>2. \A i \in 1 .. Len(s) : s[i] \in HexDigits
    BY <1>5, <2>1
  <2> QED BY <2>2
<1>8. L <= Len(s)
  BY <1>1, <1>2, <1>3, <1>5
<1> QED BY <1>6, <1>7, <1>8

-----------------------------------------------------------------------------
LEMMA OneDigitMore ==
    ASSUME NEW a \in Nat, NEW p \in Nat, a < p, NEW w \in 0 .. 15
    PROVE  16 * a + w < 16 * p
  OBVIOUS

\* The value of n digits stays below the place value of n.
LEMMA PositionalBound ==
    ASSUME NEW d \in Seq(HexDigits), Len(d) <= HexLength
    PROVE  Positional(d) \in 0 .. PlaceValue[Len(d)] - 1
<1> DEFINE N == Len(d)
<1>1. /\ N \in Nat /\ N <= 2 * HexLength /\ 2 * HexLength \in Nat
      /\ \A n \in 1 .. N : DigitValue(d[n]) \in 0 .. 15
  BY DigitInRange, HexLengthAssumption
<1>2. PICK f \in [0 .. N -> Nat] :
         /\ f[0] = 0
         /\ \A n \in 1 .. N : f[n] = 16 * f[n - 1] + DigitValue(d[n])
         /\ Positional(d) = f[N]
  BY <1>1, PositionalIs
<1> HIDE DEF N
<1> DEFINE S == {n \in 0 .. N : f[n] < PlaceValue[n]}
<1>3. 0 \in S
  BY <1>1, <1>2, PlaceValues
<1>4. ASSUME NEW n \in 0 .. N - 1, n \in S
      PROVE  n + 1 \in S
  <2>1. n + 1 \in 1 .. N /\ n + 1 \in 0 .. N /\ n \in 0 .. N /\ (n + 1) - 1 = n
        /\ n \in 0 .. 2 * HexLength /\ n + 1 \in 1 .. 2 * HexLength
    BY <1>1
  <2>2. f[n + 1] = 16 * f[n] + DigitValue(d[n + 1]) /\ DigitValue(d[n + 1]) \in 0 .. 15 /\ f[n] \in Nat
    BY <1>1, <1>2, <2>1
  <2>3. PlaceValue[n + 1] = 16 * PlaceValue[n] /\ PlaceValue[n] \in Nat
    BY <2>1, PlaceValues
  <2>4. f[n] < PlaceValue[n]
    BY <1>4
  <2>5. f[n + 1] < PlaceValue[n + 1]
    BY <2>2, <2>3, <2>4, OneDigitMore
  <2> QED BY <2>1, <2>5
<1> HIDE DEF S
<1>5. 0 .. N \subseteq S
  BY <1>1, <1>3, <1>4, CountingUp
<1>6. f[N] < PlaceValue[N] /\ f[N] \in Nat /\ PlaceValue[N] \in Nat
  BY <1>1, <1>5, PlaceValues DEF S
<1> QED BY <1>2, <1>6 DEF N

LEMMA Quotient ==
    ASSUME NEW a \in Nat, NEW p \in Nat \ {0}, NEW r \in 0 .. p - 1
    PROVE  (a * p + r) \div p = a
  OBVIOUS

LEMMA CutOneMore ==
    ASSUME NEW v \in Nat, NEW p \in Nat \ {0}
    PROVE  v \div (16 * p) = (v \div p) \div 16
<1> DEFINE a == v \div p
           b == a \div 16
           r == v % p
           c == a % 16
<1>1. a \in Nat /\ r \in 0 .. p - 1 /\ v = a * p + r
  OBVIOUS
<1> HIDE DEF a, r
<1>2. b \in Nat /\ c \in 0 .. 15 /\ a = 16 * b + c
  BY <1>1
<1> HIDE DEF b, c
<1>3. v = b * (16 * p) + (c * p + r)
  BY <1>1, <1>2
<1>4. c * p + r \in 0 .. 16 * p - 1 /\ 16 * p \in Nat \ {0}
  BY <1>1, <1>2
<1>5. v \div (16 * p) = b
  BY <1>2, <1>3, <1>4, Quotient
<1> QED BY <1>5 DEF b, a

LEMMA LastDigit ==
    ASSUME NEW a \in Nat, NEW w \in 0 .. 15
    PROVE  (16 * a + w) % 16 = w
  OBVIOUS

\* Dividing by a place value cuts off the digits behind the place.
LEMMA CutOff ==
    ASSUME NEW N \in 0 .. HexLength, NEW f \in [0 .. N -> Nat], NEW v \in [1 .. N -> 0 .. 15],
           \A n \in 1 .. N : f[n] = 16 * f[n - 1] + v[n],
           NEW i \in 1 .. N
    PROVE  (f[N] \div PlaceValue[N - i]) % 16 = v[i]
<1> DEFINE M == N - i
           S == {n \in 0 .. M : \E r \in 0 .. PlaceValue[n] - 1 : f[i + n] = f[i] * PlaceValue[n] + r}
<1>0. HexLength \in Nat /\ N \in Nat /\ i \in Nat /\ M \in Nat /\ M <= 2 * HexLength /\ i \in 0 .. N
      /\ i - 1 \in 0 .. N
  BY HexLengthAssumption
<1>1. \A n \in 0 .. M : i + n \in 0 .. N /\ n \in 0 .. 2 * HexLength
  BY <1>0
<1>2. N = i + M
  BY <1>0
<1> HIDE DEF M
<1>3. 0 \in S
  <2>1. PlaceValue[0] = 1 /\ i + 0 = i /\ f[i] \in Nat
    BY <1>0, PlaceValues
  <2>2. 0 \in 0 .. PlaceValue[0] - 1 /\ f[i + 0] = f[i] * PlaceValue[0] + 0
    BY <2>1
  <2> QED BY <1>0, <2>2
<1>4. ASSUME NEW n \in 0 .. M - 1, n \in S
      PROVE  n + 1 \in S
  <2>1. PICK r \in 0 .. PlaceValue[n] - 1 : f[i + n] = f[i] * PlaceValue[n] + r
    BY <1>4
  <2>2. n \in 0 .. M /\ n + 1 \in 0 .. M /\ i + (n + 1) \in 1 .. N /\ (i + (n + 1)) - 1 = i + n
        /\ n \in 0 .. 2 * HexLength /\ n + 1 \in 1 .. 2 * HexLength /\ (n + 1) - 1 = n
    BY <1>0, <1>1, <1>2
  <2>3. f[i + (n + 1)] = 16 * f[i + n] + v[i + (n + 1)]
    BY <2>2
  <2>4. PlaceValue[n + 1] = 16 * PlaceValue[n] /\ PlaceValue[n] \in Nat
    BY <2>2, PlaceValues
  <2> DEFINE p == PlaceValue[n]
             a == f[i]
             w == v[i + (n + 1)]
  <2>5. a \in Nat /\ p \in Nat /\ r \in 0 .. p - 1 /\ w \in 0 .. 15
    BY <1>0, <2>1, <2>2, <2>4
  <2>6. f[i + (n + 1)] = 16 * (a * p + r) + w /\ PlaceValue[n + 1] = 16 * p
    BY <2>1, <2>3, <2>4
  <2> HIDE DEF p, a, w
  <2>7. 16 * (a * p + r) + w = a * (16 * p) + (16 * r + w)
    BY <2>5
  <2>8. 16 * r + w \in 0 .. 16 * p - 1
    BY <2>5
  <2>9. 16 * r + w \in 0 .. PlaceValue[n + 1] - 1
        /\ f[i + (n + 1)] = f[i] * PlaceValue[n + 1] + (16 * r + w)
    BY <2>6, <2>7, <2>8 DEF a
  <2> QED BY <2>2, <2>9
<1> HIDE DEF S
<1>5. 0 .. M \subseteq S
  BY <1>0, <1>3, <1>4, CountingUp
<1>6. M \in S
  BY <1>0, <1>5
<1>7. PICK r \in 0 .. PlaceValue[M] - 1 : f[N] = f[i] * PlaceValue[M] + r
  BY <1>2, <1>6 DEF S
<1>8. PlaceValue[M] \in Nat \ {0}
  BY <1>0, PlacesGrow
<1>9. f[N] \div PlaceValue[M] = f[i]
  <2> DEFINE p == PlaceValue[M]
             a == f[i]
  <2>1. a \in Nat /\ p \in Nat \ {0} /\ r \in 0 .. p - 1 /\ f[N] = a * p + r
    BY <1>0, <1>7, <1>8
  <2> HIDE DEF a, p
  <2>2. (a * p + r) \div p = a
    BY <2>1, Quotient
  <2> QED BY <2>1, <2>2 DEF a, p
<1>10. f[i] % 16 = v[i]
  <2>1. f[i] = 16 * f[i - 1] + v[i] /\ f[i - 1] \in Nat /\ v[i] \in 0 .. 15
    BY <1>0
  <2>2. (16 * f[i - 1] + v[i]) % 16 = v[i]
    BY <2>1, LastDigit
  <2> QED BY <2>1, <2>2
<1> QED BY <1>9, <1>10 DEF M

-----------------------------------------------------------------------------
LEMMA PlainDigits ==
    ASSUME NEW C, NEW s \in Seq(C)
    PROVE  Plain(s) <=> Len(s) = HexLength /\ s \in Seq(HexDigits)
<1>1. DOMAIN s = 1 .. Len(s) /\ SeqExt!ToSet(s) = {s[i] : i \in 1 .. Len(s)}
  BY DEF SeqExt!ToSet
<1>2. SeqExt!ToSet(s) \subseteq HexDigits <=> \A i \in 1 .. Len(s) : s[i] \in HexDigits
  BY <1>1
<1>3. s \in Seq(HexDigits) <=> \A i \in 1 .. Len(s) : s[i] \in HexDigits
  OBVIOUS
<1> QED BY <1>2, <1>3 DEF Plain

\* A text of digits is read as the number that prints as the text.
LEMMA PlainIsRead ==
    ASSUME NEW C, NEW s \in Seq(C), Plain(s)
    PROVE  /\ HexStrToUint(s) = {Positional(s)}
           /\ UintToHexStr(Positional(s)) = Printed(s)
<1>1. s \in Seq(HexDigits) /\ Len(s) = HexLength /\ DOMAIN s = 1 .. HexLength
      /\ HexLength \in Nat \ {0} /\ s # <<>>
  BY PlainDigits, HexLengthAssumption
<1>2. HexStrToUint(s) = {Positional(s)}
  <2>1. StoULL(s) = {Positional(s)}
    BY <1>1, DigitsOfPlain DEF StoULL
  <2>2. Positional(s) \in 0 .. UintMax
    BY <1>1, PositionalBound DEF UintMax
  <2> QED BY <1>1, <2>1, <2>2 DEF HexStrToUint
<1> DEFINE v == [n \in 1 .. HexLength |-> DigitValue(s[n])]
<1>3. v \in [1 .. HexLength -> 0 .. 15] /\ \A n \in 1 .. HexLength : v[n] = DigitValue(s[n])
  BY <1>1, DigitInRange
<1> HIDE DEF v
<1>4. PICK f \in [0 .. HexLength -> Nat] :
         /\ \A n \in 1 .. HexLength : f[n] = 16 * f[n - 1] + v[n]
         /\ Positional(s) = f[HexLength]
  BY <1>1, <1>3, PositionalIs
<1>5. ASSUME NEW i \in 1 .. HexLength
      PROVE  LowerDigits[((Positional(s) \div PlaceValue[HexLength - i]) % 16) + 1] = LowerCase(s[i])
  <2>1. (Positional(s) \div PlaceValue[HexLength - i]) % 16 = v[i]
    <3>1. HexLength \in 0 .. HexLength
      BY <1>1
    <3>2. (f[HexLength] \div PlaceValue[HexLength - i]) % 16 = v[i]
      BY <1>3, <1>4, <3>1, CutOff
    <3> QED BY <1>4, <3>2
  <2>2. s[i] \in HexDigits
    BY <1>1
  <2>3. PICK u \in 0 .. 15 : s[i] \in {LowerDigits[u + 1], UpperDigits[u + 1]}
    BY <2>2, DigitForms
  <2>4. DigitValue(s[i]) = u /\ LowerCase(s[i]) = LowerDigits[u + 1]
    BY <2>3, DigitIs
  <2> QED BY <1>3, <2>1, <2>4
<1>6. UintToHexStr(Positional(s)) = Printed(s)
  BY <1>1, <1>5 DEF UintToHexStr, Printed
<1> QED BY <1>2, <1>6

\* Any other text loses a character at least, and its minus sign shows.
LEMMA OthersAreSmall ==
    ASSUME NEW C, NEW s \in Seq(C), ~Plain(s), NEW v \in HexStrToUint(s)
    PROVE  v < PlaceValue[HexLength - 1]
<1> DEFINE d == DigitsOf(s)
           p == Positional(d)
           P == PlaceValue[HexLength - 1]
           Q == PlaceValue[HexLength]
           R == PlaceValue[2 * HexLength]
<1>1. /\ v \in Nat /\ v <= Q - 1 /\ Len(s) = HexLength
      /\ v = IF Negated(s) THEN (R - p) % R ELSE p
  BY DEF HexStrToUint, StoULL, UintMax, ULLongRange
<1>2. d \in Seq(HexDigits) /\ Len(d) <= HexLength - 1
  <2>1. d \in Seq(HexDigits) /\ Len(d) <= Len(s) /\ Len(d) # Len(s)
    BY <1>1, DigitsOfAny, PlainDigits
  <2> HIDE DEF d
  <2>2. Len(d) \in Nat
    BY <2>1
  <2> QED BY <1>1, <2>1, <2>2, HexLengthAssumption
<1> HIDE DEF d
<1>3. p \in Nat /\ p < P
  <2>0. Len(d) \in Nat /\ HexLength \in Nat \ {0}
    BY <1>2, HexLengthAssumption
  <2>1. p \in 0 .. PlaceValue[Len(d)] - 1
    BY <1>2, <2>0, PositionalBound
  <2>2. Len(d) \in 0 .. 2 * HexLength /\ HexLength - 1 \in 0 .. 2 * HexLength
    BY <1>2, <2>0
  <2>3. PlaceValue[Len(d)] <= P /\ P \in Nat /\ PlaceValue[Len(d)] \in Nat
    BY <1>2, <2>2, PlacesGrow
  <2> QED BY <2>1, <2>3
<1>4. /\ P \in Nat \ {0} /\ Q \in Nat \ {0} /\ R \in Nat \ {0}
      /\ Q = 16 * P /\ R >= 16 * Q
  <2>1. HexLength - 1 \in 0 .. 2 * HexLength /\ HexLength \in 1 .. 2 * HexLength
        /\ HexLength + 1 \in 1 .. 2 * HexLength /\ 2 * HexLength \in 0 .. 2 * HexLength
        /\ (HexLength + 1) - 1 = HexLength /\ HexLength + 1 <= 2 * HexLength
        /\ HexLength \in 0 .. 2 * HexLength /\ HexLength + 1 \in 0 .. 2 * HexLength
    BY HexLengthAssumption
  <2>2. P \in Nat \ {0} /\ Q \in Nat \ {0} /\ R \in Nat \ {0} /\ PlaceValue[HexLength + 1] <= R
    BY <2>1, PlacesGrow
  <2>3. Q = 16 * P /\ PlaceValue[HexLength + 1] = 16 * Q
    BY <2>1, PlaceValues
  <2> QED BY <2>2, <2>3
<1> HIDE DEF p, P, Q, R
<1>5. CASE ~Negated(s)
  BY <1>1, <1>3, <1>5 DEF P
<1>6. CASE Negated(s)
  <2>1. v = (R - p) % R
    BY <1>1, <1>6
  <2>2. CASE p = 0
    <3>1. R % R = 0
      BY <1>4
    <3>2. v = 0
      BY <1>4, <2>1, <2>2, <3>1
    <3> QED BY <1>4, <3>2 DEF P
  <2>3. CASE p # 0
    <3>1. R - p \in 0 .. R - 1 /\ R - p >= Q
      BY <1>3, <1>4, <2>3
    <3>2. (R - p) % R = R - p
      BY <1>4, <3>1
    <3>3. v >= Q
      BY <2>1, <3>1, <3>2
    <3>4. ~(v >= Q)
      BY <1>1, <1>4
    <3> QED BY <3>3, <3>4
  <2> QED BY <2>2, <2>3
<1> QED BY <1>5, <1>6

\* The other way round: what is printed is read as the number.
LEMMA PrintedIsRead ==
    ASSUME NEW v \in 0 .. UintMax
    PROVE  Plain(UintToHexStr(v)) /\ HexStrToUint(UintToHexStr(v)) = {v}
<1> DEFINE H == HexLength
           digit(n) == (v \div PlaceValue[H - n]) % 16
           s == [i \in 1 .. H |-> LowerDigits[digit(i) + 1]]
<1>0. UintToHexStr(v) = s
  BY DEF UintToHexStr
<1>1. H \in Nat \ {0} /\ v \in Nat /\ v < PlaceValue[H]
  <2>1. H \in Nat \ {0} /\ H \in 0 .. 2 * H
    BY HexLengthAssumption
  <2>2. PlaceValue[H] \in Nat
    BY <2>1, PlaceValues
  <2> QED BY <2>1, <2>2 DEF UintMax
<1>2. /\ \A n \in 0 .. H : H - n \in 0 .. 2 * H /\ PlaceValue[H - n] \in Nat \ {0}
      /\ \A n \in 1 .. H : PlaceValue[H - (n - 1)] = 16 * PlaceValue[H - n]
  <2>1. \A n \in 0 .. H : H - n \in 0 .. 2 * H
    BY <1>1
  <2>2. \A n \in 1 .. H : H - (n - 1) \in 1 .. 2 * H /\ (H - (n - 1)) - 1 = H - n
    BY <1>1
  <2> QED BY <2>1, <2>2, PlaceValues, PlacesGrow
<1> HIDE DEF H
<1>3. \A n \in 0 .. H : v \div PlaceValue[H - n] \in Nat
  BY <1>1, <1>2
<1>4. \A n \in 1 .. H : digit(n) \in 0 .. 15
  <2>1. \A n \in 1 .. H : n \in 0 .. H
    BY <1>1
  <2>2. \A q \in Nat : q % 16 \in 0 .. 15
    OBVIOUS
  <2> QED BY <1>3, <2>1, <2>2
<1> HIDE DEF digit
<1>5. /\ s \in Seq(HexDigits) /\ Len(s) = H
      /\ \A n \in 1 .. H : DigitValue(s[n]) = digit(n)
  <2>1. \A n \in 1 .. H : s[n] = LowerDigits[digit(n) + 1] /\ digit(n) + 1 \in 1 .. 16
    BY <1>4
  <2>2. \A n \in 1 .. H : s[n] \in HexDigits
    BY <2>1, DigitForms
  <2>3. s \in [1 .. H -> HexDigits]
    BY <2>2
  <2> HIDE DEF s
  <2>4. \A n \in 1 .. H : DigitValue(s[n]) = digit(n)
    BY <1>4, <2>1, DigitIs
  <2> QED BY <1>1, <2>3, <2>4
<1> HIDE DEF s
<1>6. PICK f \in [0 .. H -> Nat] :
         /\ f[0] = 0
         /\ \A n \in 1 .. H : f[n] = 16 * f[n - 1] + digit(n)
         /\ Positional(s) = f[H]
  <2>1. Len(s) \in Nat /\ \A n \in 1 .. Len(s) : DigitValue(s[n]) \in 0 .. 15
    BY <1>1, <1>4, <1>5
  <2> QED BY <1>5, <2>1, PositionalIs
<1> DEFINE S == {n \in 0 .. H : f[n] = v \div PlaceValue[H - n]}
<1>7. 0 \in S
  <2>1. H - 0 = H /\ 0 \in 0 .. H /\ PlaceValue[H] \in Nat \ {0}
    BY <1>1, <1>2
  <2>2. v \div PlaceValue[H] = 0
    <3> DEFINE p == PlaceValue[H]
    <3>1. p \in Nat \ {0} /\ v \in 0 .. p - 1 /\ 0 * p + v = v /\ 0 \in Nat
      BY <1>1, <2>1
    <3> HIDE DEF p
    <3>2. (0 * p + v) \div p = 0
      BY <3>1, Quotient
    <3> QED BY <3>1, <3>2 DEF p
  <2> QED BY <1>6, <2>1, <2>2
<1>8. ASSUME NEW n \in 0 .. H - 1, n \in S
      PROVE  n + 1 \in S
  <2> DEFINE p == PlaceValue[H - (n + 1)]
             q == v \div p
  <2>1. n \in 0 .. H /\ n + 1 \in 1 .. H /\ n + 1 \in 0 .. H /\ (n + 1) - 1 = n
    BY <1>1
  <2>2. p \in Nat \ {0} /\ PlaceValue[H - n] = 16 * p /\ q \in Nat
    BY <1>2, <1>3, <2>1
  <2>3. f[n + 1] = 16 * f[n] + (q % 16)
    BY <1>6, <2>1 DEF digit
  <2>4. f[n] = v \div (16 * p)
    BY <1>8, <2>2
  <2>5. f[n + 1] = q
    <3> HIDE DEF p, q
    <3>1. v \div (16 * p) = q \div 16
      BY <1>1, <2>2, CutOneMore DEF q
    <3>2. 16 * (q \div 16) + (q % 16) = q
      BY <2>2
    <3> QED BY <2>3, <2>4, <3>1, <3>2
  <2> QED BY <2>1, <2>5
<1> HIDE DEF S
<1>9. H \in S
  <2>1. 0 .. H \subseteq S
    BY <1>1, <1>7, <1>8, CountingUp
  <2> QED BY <1>1, <2>1
<1>10. Positional(s) = v
  <2>1. f[H] = v \div PlaceValue[H - H] /\ H - H = 0 /\ PlaceValue[0] = 1
    BY <1>1, <1>9, PlaceValues DEF S
  <2>2. v \div 1 = v
    BY <1>1
  <2> QED BY <1>6, <2>1, <2>2
<1>11. Plain(s)
  BY <1>5, PlainDigits DEF H
<1> QED BY <1>0, <1>5, <1>10, <1>11, PlainIsRead

-----------------------------------------------------------------------------
(* Files and manifests.                                                    *)

LEMMA FileFacts ==
    ASSUME NEW f \in Files
    PROVE  /\ Len(f.attributes) \in Nat /\ DOMAIN f.attributes = 1 .. Len(f.attributes)
           /\ \A i \in DOMAIN f.attributes :
                 LET a == f.attributes[i] IN
                 /\ a \in SeqExt!ToSet(f.attributes)
                 /\ a.attr \in ValidAttribs \cup OtherAttribs
                 /\ a.attr = "name" => a.value \in DOMAIN Alphabetical \cup {NotAString}
                 /\ a.attr \in ManifestAttribs /\ IsEmbedded(a) =>
                       a.value = NotAString \/ IsText(a.value)
           /\ \A i, j \in DOMAIN f.attributes :
                 f.attributes[i].key = f.attributes[j].key /\ f.attributes[i].attr = f.attributes[j].attr
                 => i = j
<1>1. f.attributes \in Seq(SeqExt!ToSet(f.attributes))
  BY FileAssumption
<1>2. \A i \in DOMAIN f.attributes : f.attributes[i] \in SeqExt!ToSet(f.attributes)
  BY DEF SeqExt!ToSet
<1>3. Len(f.attributes) \in Nat /\ DOMAIN f.attributes = 1 .. Len(f.attributes)
  BY <1>1
<1>4. ASSUME NEW a \in SeqExt!ToSet(f.attributes)
      PROVE  /\ a.attr \in ValidAttribs \cup OtherAttribs
             /\ a.attr = "name" => a.value \in DOMAIN Alphabetical \cup {NotAString}
             /\ a.attr \in ManifestAttribs /\ IsEmbedded(a) => a.value = NotAString \/ IsText(a.value)
  BY FileAssumption DEF ManifestAttribs
<1>5. \A i, j \in DOMAIN f.attributes :
         f.attributes[i].key = f.attributes[j].key /\ f.attributes[i].attr = f.attributes[j].attr
         => i = j
  BY FileAssumption
<1> QED BY <1>2, <1>3, <1>4, <1>5

\* A manifest is one list of numbers, or none.
LEMMA DecodedFacts ==
    ASSUME NEW text, IsText(text)
    PROVE  Decoded(text) \subseteq Seq(0 .. UintMax) /\ \A g, h \in Decoded(text) : g = h
<1> DEFINE Value(h) == CHOOSE v \in HexStrToUint(h) : TRUE
           Good == {h \in text : \A i \in DOMAIN h : HexStrToUint(h[i]) # {}}
           Values(h) == [i \in DOMAIN h |-> Value(h[i])]
<1>1. Decoded(text) = {Values(h) : h \in Good}
  BY DEF Decoded
<1>2. \A h \in Good : h \in Seq(Seq(STRING)) /\ \A i \in DOMAIN h : HexStrToUint(h[i]) # {}
  BY DEF IsText
<1>3. \A h : HexStrToUint(h) # {} => Value(h) \in 0 .. UintMax
  BY DEF HexStrToUint
<1> HIDE DEF Value
<1>4. ASSUME NEW h \in Good PROVE Values(h) \in Seq(0 .. UintMax)
  <2>1. \A i \in DOMAIN h : Value(h[i]) \in 0 .. UintMax
    BY <1>2, <1>3
  <2>2. Len(h) \in Nat /\ DOMAIN h = 1 .. Len(h)
    BY <1>2
  <2>3. Values(h) \in [1 .. Len(h) -> 0 .. UintMax]
    BY <2>1, <2>2
  <2> QED BY <2>2, <2>3
<1>5. \A g, h \in Good : g = h
  BY DEF IsText
<1> HIDE DEF Good, Values
<1> QED BY <1>1, <1>4, <1>5

\* What a manifest says of its text, the round trip of each hash included.
LEMMA DecodedAsWritten ==
    ASSUME NEW texts, IsText(texts), NEW text \in texts
    PROVE  /\ (\A j \in DOMAIN text : Plain(text[j])) => Decoded(texts) # {}
           /\ \A hashes \in Decoded(texts) :
                 /\ Len(hashes) = Len(text)
                 /\ \A j \in DOMAIN text :
                       /\ Len(text[j]) = HexLength
                       /\ IF Plain(text[j]) THEN UintToHexStr(hashes[j]) = Printed(text[j])
                          ELSE hashes[j] < PlaceValue[HexLength - 1]
<1> DEFINE Value(h) == CHOOSE v \in HexStrToUint(h) : TRUE
           Good == {h \in texts : \A i \in DOMAIN h : HexStrToUint(h[i]) # {}}
           Values(h) == [i \in DOMAIN h |-> Value(h[i])]
<1>1. Decoded(texts) = {Values(h) : h \in Good}
  BY DEF Decoded
<1>2. /\ text \in Seq(Seq(STRING)) /\ \A h \in texts : h = text
      /\ Len(text) \in Nat /\ DOMAIN text = 1 .. Len(text)
      /\ \A j \in DOMAIN text : text[j] \in Seq(STRING)
  BY DEF IsText
<1>3. \A h : HexStrToUint(h) # {} => Value(h) \in HexStrToUint(h)
  OBVIOUS
<1> HIDE DEF Value
<1>4. ASSUME \A j \in DOMAIN text : Plain(text[j])
      PROVE  Decoded(texts) # {}
  <2>1. \A j \in DOMAIN text : HexStrToUint(text[j]) # {}
    BY <1>2, <1>4, PlainIsRead
  <2>2. text \in Good
    BY <2>1
  <2> HIDE DEF Good, Values
  <2> QED BY <1>1, <2>2
<1>5. ASSUME NEW hashes \in Decoded(texts)
      PROVE  /\ Len(hashes) = Len(text)
             /\ \A j \in DOMAIN text :
                   hashes[j] \in HexStrToUint(text[j])
  <2>1. hashes = Values(text) /\ \A j \in DOMAIN text : HexStrToUint(text[j]) # {}
    <3>1. PICK h \in Good : hashes = Values(h)
      BY <1>1
    <3>2. h \in texts /\ \A j \in DOMAIN h : HexStrToUint(h[j]) # {}
      OBVIOUS
    <3>3. h = text
      BY <1>2, <3>2
    <3> QED BY <3>1, <3>2, <3>3
  <2>2. DOMAIN hashes = 1 .. Len(text) /\ \A j \in DOMAIN text : hashes[j] = Value(text[j])
    BY <1>2, <2>1
  <2>3. Len(hashes) = Len(text)
    BY <1>2, <2>2
  <2> QED BY <1>3, <2>1, <2>2, <2>3
<1>6. ASSUME NEW hashes \in Decoded(texts), NEW j \in DOMAIN text
      PROVE  /\ Len(text[j]) = HexLength
             /\ IF Plain(text[j]) THEN UintToHexStr(hashes[j]) = Printed(text[j])
                ELSE hashes[j] < PlaceValue[HexLength - 1]
  <2>1. text[j] \in Seq(STRING) /\ hashes[j] \in HexStrToUint(text[j])
    BY <1>2, <1>5
  <2>2. Len(text[j]) = HexLength
    BY <2>1 DEF HexStrToUint
  <2>3. CASE Plain(text[j])
    <3>1. hashes[j] = Positional(text[j])
      BY <2>1, <2>3, PlainIsRead
    <3> QED BY <2>1, <2>2, <2>3, <3>1, PlainIsRead
  <2>4. CASE ~Plain(text[j])
    BY <2>1, <2>2, <2>4, OthersAreSmall
  <2> QED BY <2>3, <2>4
<1> QED BY <1>4, <1>5, <1>6

LEMMA LoadManifestFacts ==
    ASSUME NEW f \in Files, NEW i \in DOMAIN f.attributes,
           f.attributes[i].attr \in ManifestAttribs, ~IsRejected(f.attributes[i])
    PROVE  LET m == LoadManifest(f.attributes[i]) IN
           m \subseteq Seq(0 .. UintMax) /\ \A g, h \in m : g = h
<1> DEFINE a == f.attributes[i]
<1>1. a.value # NotAString
  BY DEF IsRejected, ManifestAttribs, ValidAttribs
<1>2. CASE IsEmbedded(a)
  <2>1. IsText(a.value) /\ LoadManifest(a) = Decoded(a.value)
    BY <1>1, <1>2, FileFacts DEF LoadManifest
  <2> QED BY <2>1, DecodedFacts
<1>3. CASE ~IsEmbedded(a)
  <2>1. CASE a.value \in DOMAIN Disk
    <3>1. IsText(Disk[a.value]) /\ LoadManifest(a) = Decoded(Disk[a.value])
      BY <1>3, <2>1, FileAssumption DEF LoadManifest, Sidecar
    <3> QED BY <3>1, DecodedFacts
  <2>2. CASE a.value \notin DOMAIN Disk
    BY <1>3, <2>2 DEF LoadManifest, Sidecar, NoManifest
  <2> QED BY <2>1, <2>2
<1> QED BY <1>2, <1>3

-----------------------------------------------------------------------------
(* The loader's actions.                                                   *)

LEMMA WrongRests ==
    ASSUME UNCHANGED <<file, load_preview>> PROVE Wrong' = Wrong
BY DEF Wrong, Rejects, Nameless, SomeHalf, SomeInvalid, SomeShared, Keys, NamesGiven, Places,
       GivenNames, DataOf

LEMMA LoaderRests ==
    ASSUME LoaderInv, UNCHANGED loading PROVE LoaderInv'
<1>1. UNCHANGED <<file, load_preview, pc, position, result, metadatas, channel_names, image, out>>
  BY DEF loading, arguments, parsed
<1>2. ParsedSoFar' /\ Phases'
  BY <1>1 DEF LoaderInv, ParsedSoFar, Phases, ListedOnce
<1>3. SelectedOwn' /\ DividedOwn'
  BY <1>1 DEF LoaderInv, SelectedOwn, DividedOwn
<1> QED BY <1>1, <1>2, <1>3, WrongRests DEF LoaderInv, Blamed

LEMMA OpenInv == ASSUME LoaderInv, Open PROVE LoaderInv'
<1>1. /\ UNCHANGED <<file, load_preview, position, result, metadatas, channel_names, image, out>>
      /\ pc = "open" /\ pc' = (IF file.opens THEN "parse" ELSE "threw")
      /\ metadatas = <<>> /\ out = <<>>
  BY DEF Open, arguments, parsed, LoaderInv, Phases
<1>2. ParsedSoFar' /\ Phases'
  BY <1>1 DEF LoaderInv, ParsedSoFar, Phases, ListedOnce
<1>3. SelectedOwn' /\ DividedOwn'
  BY <1>1 DEF LoaderInv, SelectedOwn, DividedOwn
<1>4. Blamed'
  BY <1>1 DEF Blamed, Wrong
<1> QED BY <1>1, <1>2, <1>3, <1>4 DEF LoaderInv

LEMMA SkipForeignInv == ASSUME LoaderInv, SkipForeign PROVE LoaderInv'
<1>1. /\ UNCHANGED <<file, load_preview, pc, result, metadatas, channel_names, image, out>>
      /\ pc = "parse" /\ position' = position + 1 /\ position < Len(file.attributes)
      /\ file.attributes[position + 1].attr = "foreign"
      /\ metadatas = <<>> /\ out = <<>> /\ file \in Files
  BY DEF SkipForeign, Parsing, Attribute, arguments, LoaderInv, Phases
<1>2. position \in Nat /\ Len(file.attributes) \in Nat /\ position \in 0 .. Len(file.attributes)
  BY <1>1, FileFacts DEF LoaderInv, ParsedSoFar
<1>3. /\ position + 1 \in 0 .. Len(file.attributes)
      /\ \A i : i \in 1 .. position + 1 <=> i \in 1 .. position \/ i = position + 1
  BY <1>1, <1>2
<1>4. \A key : \A attrs \in SUBSET ValidAttribs :
          Read(file, position + 1, key, attrs) = Read(file, position, key, attrs)
  BY <1>1, <1>3 DEF Read, ValidAttribs
<1>5. KeysRead(file, position + 1) = KeysRead(file, position)
  BY <1>1, <1>3 DEF KeysRead, ValidAttribs
<1>6. {"name"} \subseteq ValidAttribs /\ ManifestAttribs \subseteq ValidAttribs
  BY DEF ValidAttribs, ManifestAttribs
<1>7. \A key, meta : NameRead(file, position, key, meta) = NameRead(file, position + 1, key, meta)
  BY <1>4, <1>6 DEF NameRead
<1>8. \A key, meta : ManifestRead(file, position, key, meta) = ManifestRead(file, position + 1, key, meta)
  BY <1>4, <1>6 DEF ManifestRead
<1>9. ~IsRejected(file.attributes[position + 1])
  BY <1>1 DEF IsRejected, ValidAttribs
<1>10. ParsedSoFar'
  BY <1>1, <1>3, <1>5, <1>7, <1>8, <1>9 DEF LoaderInv, ParsedSoFar
<1>11. Phases'
  BY <1>1 DEF LoaderInv, Phases
<1>12. SelectedOwn' /\ DividedOwn'
  BY <1>1 DEF LoaderInv, SelectedOwn, DividedOwn
<1> QED BY <1>1, <1>10, <1>11, <1>12 DEF LoaderInv, Blamed

LEMMA RejectAttributeInv == ASSUME LoaderInv, RejectAttribute PROVE LoaderInv'
<1>1. /\ UNCHANGED <<file, load_preview, position, result, metadatas, channel_names, image, out>>
      /\ pc = "parse" /\ pc' = "threw" /\ position < Len(file.attributes)
      /\ IsRejected(file.attributes[position + 1])
      /\ metadatas = <<>> /\ out = <<>> /\ file \in Files
  BY DEF RejectAttribute, Parsing, Attribute, arguments, parsed, LoaderInv, Phases
<1>2. ParsedSoFar' /\ Phases'
  BY <1>1 DEF LoaderInv, ParsedSoFar, Phases, ListedOnce
<1>3. SelectedOwn' /\ DividedOwn'
  BY <1>1 DEF LoaderInv, SelectedOwn, DividedOwn
<1>4. Blamed'
  <2>1. position + 1 \in DOMAIN file.attributes
    BY <1>1, FileFacts DEF LoaderInv, ParsedSoFar
  <2>2. file.attributes[position + 1] \in SeqExt!ToSet(file.attributes)
    BY <1>1, <2>1, FileFacts
  <2>3. Rejects
    BY <1>1, <2>2 DEF Rejects
  <2> QED BY <1>1, <2>3, WrongRests DEF Blamed, Wrong
<1> QED BY <1>1, <1>2, <1>3, <1>4 DEF LoaderInv

LEMMA TerminateInv == ASSUME LoaderInv, Terminate PROVE LoaderInv'
<1>1. /\ UNCHANGED <<file, load_preview, position, result, metadatas, channel_names, image, out>>
      /\ pc = "parse" /\ pc' = "terminated" /\ metadatas = <<>> /\ out = <<>>
  BY DEF Terminate, Parsing, arguments, parsed, LoaderInv, Phases
<1>2. ParsedSoFar' /\ Phases'
  BY <1>1 DEF LoaderInv, ParsedSoFar, Phases, ListedOnce
<1>3. SelectedOwn' /\ DividedOwn'
  BY <1>1 DEF LoaderInv, SelectedOwn, DividedOwn
<1> QED BY <1>1, <1>2, <1>3 DEF LoaderInv, Blamed

\* The metadata of a key that the next attribute is added to, partial or default.
LEMMA PartialFacts ==
    ASSUME LoaderInv, NEW key
    PROVE  /\ IsResult(Partial(key))
           /\ NameRead(file, position, key, Partial(key))
           /\ ManifestRead(file, position, key, Partial(key))
<1>1. CASE key \in DOMAIN result
  BY <1>1 DEF LoaderInv, ParsedSoFar, Partial
<1>2. CASE key \notin DOMAIN result
  <2> DEFINE meta == Partial(key)
  <2>1. meta = [name |-> NoName, manifest |-> {}]
    BY <1>2 DEF Partial, NoManifest, NoName
  <2>2. key \notin KeysRead(file, position)
    BY <1>2 DEF LoaderInv, ParsedSoFar
  <2>3. {"name"} \subseteq ValidAttribs /\ ManifestAttribs \subseteq ValidAttribs
    BY DEF ValidAttribs, ManifestAttribs
  <2>4. Read(file, position, key, {"name"}) = {} /\ Read(file, position, key, ManifestAttribs) = {}
    BY <2>2, <2>3 DEF KeysRead, Read
  <2>5. meta.name = NoName /\ meta.manifest = {}
    <3> HIDE DEF meta
    <3> QED BY <2>1
  <2>6. meta = [name |-> meta.name, manifest |-> meta.manifest]
    BY <2>1, <2>5
  <2> HIDE DEF meta
  <2>7. NoName \in DOMAIN Alphabetical
    BY FileAssumption DEF NoName
  <2>8. IsResult(meta)
    BY <2>5, <2>6, <2>7 DEF IsResult
  <2>9. NameRead(file, position, key, meta) /\ ManifestRead(file, position, key, meta)
    BY <2>4, <2>5 DEF NameRead, ManifestRead, NoManifest
  <2> QED BY <2>8, <2>9 DEF meta
<1> QED BY <1>1, <1>2

LEMMA ParseAttributeInv == ASSUME LoaderInv, ParseAttribute PROVE LoaderInv'
<1> DEFINE q == position + 1
           a == file.attributes[q]
           old == Partial(a.key)
           meta == Updated(old, a)
<1>1. /\ UNCHANGED <<file, load_preview, pc, metadatas, channel_names, image, out>>
      /\ pc = "parse" /\ position' = q /\ position < Len(file.attributes)
      /\ a.attr \in ValidAttribs /\ ~IsRejected(a)
      /\ result' = [k \in DOMAIN result \cup {a.key} |-> IF k = a.key THEN meta ELSE result[k]]
      /\ metadatas = <<>> /\ out = <<>> /\ file \in Files
  BY DEF ParseAttribute, Parsing, Attribute, arguments, LoaderInv, Phases
<1>2. /\ position \in Nat /\ Len(file.attributes) \in Nat /\ q \in 0 .. Len(file.attributes)
      /\ q \in DOMAIN file.attributes /\ q \in Nat
      /\ \A i : i \in 1 .. q <=> i \in 1 .. position \/ i = q
      /\ \A i \in 1 .. position : i <= q
  <2>1. position \in 0 .. Len(file.attributes) /\ DOMAIN file.attributes = 1 .. Len(file.attributes)
        /\ Len(file.attributes) \in Nat
    BY <1>1, FileFacts DEF LoaderInv, ParsedSoFar
  <2> QED BY <1>1, <2>1
<1> HIDE DEF q
<1>3. \A k, attrs : k # a.key => Read(file, q, k, attrs) = Read(file, position, k, attrs)
  BY <1>2 DEF Read
<1>4. \A attrs : Read(file, q, a.key, attrs) =
          Read(file, position, a.key, attrs) \cup IF a.attr \in attrs THEN {q} ELSE {}
  BY <1>2 DEF Read
<1>5. KeysRead(file, q) = KeysRead(file, position) \cup {a.key}
  BY <1>1, <1>2 DEF KeysRead
<1>6. ASSUME NEW k \in DOMAIN result, k # a.key
      PROVE  /\ IsResult(result'[k])
             /\ NameRead(file, q, k, result'[k]) /\ ManifestRead(file, q, k, result'[k])
  <2>1. result'[k] = result[k]
    BY <1>1, <1>6
  <2>2. /\ IsResult(result[k])
        /\ NameRead(file, position, k, result[k]) /\ ManifestRead(file, position, k, result[k])
    BY DEF LoaderInv, ParsedSoFar
  <2>3. NameRead(file, q, k, result[k])
    BY <1>3, <1>6, <2>2 DEF NameRead
  <2>4. ManifestRead(file, q, k, result[k])
    BY <1>3, <1>6, <2>2 DEF ManifestRead
  <2> QED BY <2>1, <2>2, <2>3, <2>4
<1>7. /\ IsResult(old)
      /\ NameRead(file, position, a.key, old) /\ ManifestRead(file, position, a.key, old)
  BY PartialFacts
<1>8. IsResult(meta) /\ NameRead(file, q, a.key, meta) /\ ManifestRead(file, q, a.key, meta)
  <2> HIDE DEF old
  <2>1. CASE a.attr = "name"
    <3>1. meta = [name |-> a.value, manifest |-> old.manifest]
      BY <1>7, <2>1 DEF Updated, IsResult
    <3>2. a.value \in DOMAIN Alphabetical
      BY <1>1, <1>2, <2>1, FileFacts DEF IsRejected
    <3>3. Read(file, q, a.key, ManifestAttribs) = Read(file, position, a.key, ManifestAttribs)
      BY <1>4, <2>1 DEF ManifestAttribs
    <3>4. q \in Read(file, q, a.key, {"name"})
      BY <1>4, <2>1
    <3> HIDE DEF a, meta
    <3>5. IsResult(meta)
      BY <1>7, <3>1, <3>2 DEF IsResult
    <3>6. NameRead(file, q, a.key, meta)
      BY <3>1, <3>4 DEF NameRead, a
    <3>7. ManifestRead(file, q, a.key, meta)
      BY <1>7, <3>1, <3>3 DEF ManifestRead
    <3> QED BY <3>5, <3>6, <3>7
  <2>2. CASE a.attr \in ManifestAttribs
    <3>1. meta = [name |-> old.name, manifest |-> LoadManifest(a)]
      BY <1>7, <2>2 DEF Updated, IsResult, ManifestAttribs
    <3>2. LoadManifest(a) \subseteq Seq(0 .. UintMax) /\ \A g, h \in LoadManifest(a) : g = h
      BY <1>1, <1>2, <2>2, LoadManifestFacts
    <3>3. Read(file, q, a.key, {"name"}) = Read(file, position, a.key, {"name"})
      BY <1>4, <2>2 DEF ManifestAttribs
    <3>4. q \in Read(file, q, a.key, ManifestAttribs)
      BY <1>4, <2>2
    <3>5. \A j \in Read(file, q, a.key, ManifestAttribs) : j <= q
      BY <1>2 DEF Read
    <3> HIDE DEF a, meta
    <3>6. IsResult(meta)
      BY <1>7, <3>1, <3>2 DEF IsResult
    <3>7. NameRead(file, q, a.key, meta)
      BY <1>7, <3>1, <3>3 DEF NameRead
    <3>8. ManifestRead(file, q, a.key, meta)
      BY <3>1, <3>4, <3>5 DEF ManifestRead, a
    <3> QED BY <3>6, <3>7, <3>8
  <2>3. CASE a.attr # "name" /\ a.attr \notin ManifestAttribs
    <3>1. meta = old
      BY <2>3 DEF Updated, ManifestAttribs
    <3>2. /\ Read(file, q, a.key, ManifestAttribs) = Read(file, position, a.key, ManifestAttribs)
          /\ Read(file, q, a.key, {"name"}) = Read(file, position, a.key, {"name"})
      BY <1>4, <2>3
    <3> QED BY <1>7, <3>1, <3>2 DEF NameRead, ManifestRead
  <2> QED BY <2>1, <2>2, <2>3
<1> HIDE DEF meta, old
<1>9. ParsedSoFar'
  <2>1. DOMAIN result' = DOMAIN result \cup {a.key}
        /\ result' = [k \in DOMAIN result' |-> result'[k]]
    BY <1>1
  <2>2. DOMAIN result' = KeysRead(file, q)
    BY <1>5, <2>1 DEF LoaderInv, ParsedSoFar
  <2>3. ASSUME NEW k \in DOMAIN result'
        PROVE  /\ IsResult(result'[k])
               /\ NameRead(file, q, k, result'[k]) /\ ManifestRead(file, q, k, result'[k])
    <3>1. CASE k = a.key
      <4>1. result'[k] = meta
        BY <1>1, <3>1
      <4> QED BY <1>8, <3>1, <4>1
    <3>2. CASE k # a.key
      BY <1>6, <2>1, <3>2
    <3> QED BY <3>1, <3>2
  <2>4. \A i \in 1 .. q : ~IsRejected(file.attributes[i])
    BY <1>1, <1>2 DEF LoaderInv, ParsedSoFar
  <2> QED BY <1>1, <1>2, <2>1, <2>2, <2>3, <2>4 DEF ParsedSoFar
<1>10. Phases'
  BY <1>1 DEF LoaderInv, Phases
<1>11. SelectedOwn' /\ DividedOwn'
  BY <1>1 DEF LoaderInv, SelectedOwn, DividedOwn
<1> QED BY <1>1, <1>9, <1>10, <1>11 DEF LoaderInv, Blamed

-----------------------------------------------------------------------------
(* What the attributes have made of each key when all are read.                *)

\* The manifest of the last attribute that could give one, readable or not.
ManifestGiven(key) ==
    IF ManifestPlaces(key) = {} THEN NoManifest ELSE LoadManifest(LastManifest(key))

LEMMA AllRead ==
    ASSUME LoaderInv, position = Len(file.attributes)
    PROVE  /\ DOMAIN result = Keys
           /\ \A key \in Keys :
                 /\ \/ NamesGiven(key) = {} /\ result[key].name = NoName
                    \/ NamesGiven(key) = {result[key].name}
                 /\ ManifestGiven(key) = result[key].manifest
           /\ ~Rejects
<1>1. file \in Files /\ DOMAIN file.attributes = 1 .. position
  BY FileFacts DEF LoaderInv
<1>2. \A key, attrs : Places(key, attrs) = Read(file, position, key, attrs)
  BY <1>1 DEF Places, Read
<1>3. DOMAIN result = Keys
  <2>1. SeqExt!ToSet(file.attributes) = {file.attributes[i] : i \in 1 .. position}
    BY <1>1 DEF SeqExt!ToSet
  <2>2. Keys = KeysRead(file, position)
    BY <2>1 DEF Keys, KeysRead
  <2> QED BY <2>2 DEF LoaderInv, ParsedSoFar
<1>4. ASSUME NEW key \in Keys
      PROVE  \/ NamesGiven(key) = {} /\ result[key].name = NoName
             \/ NamesGiven(key) = {result[key].name}
  <2>1. NamesGiven(key) = {file.attributes[i].value : i \in Read(file, position, key, {"name"})}
    BY <1>2 DEF NamesGiven
  <2>2. NameRead(file, position, key, result[key])
    BY <1>3 DEF LoaderInv, ParsedSoFar
  <2>3. \A i, j \in Read(file, position, key, {"name"}) : i = j
    BY <1>1, FileFacts DEF Read
  <2> QED BY <2>1, <2>2, <2>3 DEF NameRead
<1>5. ASSUME NEW key \in Keys PROVE ManifestGiven(key) = result[key].manifest
  <2> DEFINE places == Read(file, position, key, ManifestAttribs)
  <2>1. places \in SUBSET Int
    <3>1. 1 .. position \subseteq Int
      OBVIOUS
    <3> QED BY <3>1 DEF Read
  <2>2. ManifestPlaces(key) = places
    BY <1>2 DEF ManifestPlaces, ManifestAttribs
  <2>3. ManifestRead(file, position, key, result[key])
    BY <1>3 DEF LoaderInv, ParsedSoFar
  <2> HIDE DEF places
  <2>4. ASSUME NEW i \in places, \A j \in places : j <= i PROVE Max(places) = i
    <3>1. i \in Int /\ \A j \in places : j \in Int /\ i >= j
      BY <2>1, <2>4
    <3>2. \A j \in places : j >= i => j = i
      BY <3>1
    <3> QED BY <3>1, <3>2 DEF Max
  <2>5. CASE places = {}
    BY <2>2, <2>3, <2>5 DEF ManifestGiven, ManifestRead, places
  <2>6. CASE places # {}
    <3>1. PICK i \in places :
             (\A j \in places : j <= i) /\ result[key].manifest = LoadManifest(file.attributes[i])
      BY <2>3, <2>6 DEF ManifestRead, places
    <3>2. Max(places) = i
      BY <2>4, <3>1
    <3> QED BY <2>2, <2>6, <3>1, <3>2 DEF ManifestGiven, LastManifest
  <2> QED BY <2>5, <2>6
<1>6. ~Rejects
  <2>1. \A a \in SeqExt!ToSet(file.attributes) : \E i \in 1 .. position : a = file.attributes[i]
    BY <1>1 DEF SeqExt!ToSet
  <2> QED BY <2>1 DEF Rejects, LoaderInv, ParsedSoFar
<1> QED BY <1>3, <1>4, <1>5, <1>6

LEMMA KeysFinite ==
    ASSUME LoaderInv PROVE IsFiniteSet(DOMAIN result)
<1> DEFINE Places1 == {j \in 1 .. position : file.attributes[j].attr \in ValidAttribs}
           f == [i \in Places1 |-> file.attributes[i].key]
<1>1. 1 \in Int /\ position \in Int
  <2>1. position \in 0 .. Len(file.attributes) /\ Len(file.attributes) \in Nat
    BY FileFacts DEF LoaderInv, ParsedSoFar
  <2> QED BY <2>1
<1>2. IsFiniteSet(Places1)
  <2>1. IsFiniteSet(1 .. position)
    BY <1>1, FS_Interval
  <2>2. Places1 \in SUBSET (1 .. position)
    OBVIOUS
  <2> QED BY <2>1, <2>2, FS_Subset
<1>3. f \in Surjection(Places1, KeysRead(file, position))
  BY DEF Surjection, KeysRead
<1> HIDE DEF f, Places1
<1>4. IsFiniteSet(KeysRead(file, position))
  BY <1>2, <1>3, FS_Surjection
<1> QED BY <1>4 DEF LoaderInv, ParsedSoFar

\* A list of a set without repetitions has each of its elements.
LEMMA Permutations ==
    ASSUME NEW S, IsFiniteSet(S), NEW s \in SeqExt!SetToSeqs(S)
    PROVE  /\ s \in Seq(S) /\ Len(s) = Cardinality(S)
           /\ \A i, j \in DOMAIN s : s[i] = s[j] => i = j
           /\ \A x \in S : \E i \in DOMAIN s : s[i] = x
<1>1. Cardinality(S) \in Nat
  BY FS_CardinalityType
<1> DEFINE D == 1 .. Cardinality(S)
<1>2. s \in [D -> S] /\ \A i, j \in D : i # j => s[i] # s[j]
  <2>1. SeqExt!Cardinality(S) = Cardinality(S)
    BY DEF SeqExt!Cardinality, Cardinality
  <2> QED BY <2>1 DEF SeqExt!SetToSeqs
<1>3. s \in Seq(S) /\ Len(s) = Cardinality(S) /\ DOMAIN s = D
  <2> DEFINE n == Cardinality(S)
  <2>1. n \in Nat /\ s \in [1 .. n -> S]
    BY <1>1, <1>2
  <2> HIDE DEF n
  <2>2. s \in Seq(S) /\ Len(s) = n /\ DOMAIN s = 1 .. n
    BY <2>1
  <2> QED BY <2>2 DEF n
<1>4. s \in Surjection(D, S)
  <2>1. s \in Injection(D, S)
    <3>1. \A i, j \in D : s[i] = s[j] => i = j
      BY <1>2
    <3> HIDE DEF D
    <3> QED BY <1>2, <3>1 DEF Injection, IsInjective
  <2>2. Cardinality(D) = Cardinality(S)
    <3>1. 1 \in Int /\ Cardinality(S) \in Int
      BY <1>1
    <3>2. Cardinality(D) = IF 1 > Cardinality(S) THEN 0 ELSE Cardinality(S) - 1 + 1
      BY <3>1, FS_Interval
    <3> QED BY <1>1, <3>2
  <2> HIDE DEF D
  <2> QED BY <2>1, <2>2, FS_Injection
<1>5. \A x \in S : \E i \in D : s[i] = x
  BY <1>4 DEF Surjection
<1> QED BY <1>2, <1>3, <1>5

LEMMA FinishParseInv == ASSUME LoaderInv, FinishParse PROVE LoaderInv'
<1> DEFINE S == {Listed(key, result[key]) : key \in DOMAIN result}
           Named == \A key \in DOMAIN result : result[key].name # NoName
<1>1. /\ pc = "parse" /\ position = Len(file.attributes)
      /\ UNCHANGED <<arguments, parsed, channel_names, image, out, others>>
      /\ \/ ~Named /\ pc' = "threw" /\ UNCHANGED metadatas
         \/ /\ Named
            /\ metadatas' \in {s \in SeqExt!SetToSeqs({MetadataOf(key) : key \in DOMAIN result}) :
                                  SortedByName(s)}
            /\ pc' = IF metadatas' = <<>> THEN "returned" ELSE "select"
  BY Zenon DEF FinishParse, NoName
<1> HIDE DEF Named
<1>2. /\ UNCHANGED <<file, load_preview, position, result, channel_names, image, out>>
      /\ metadatas = <<>> /\ out = <<>> /\ file.opens /\ file \in Files
  BY <1>1 DEF arguments, parsed, LoaderInv, Phases
<1>3. channel_names = <<>>
  BY <1>2 DEF LoaderInv, SelectedOwn
<1>4. ParsedSoFar'
  BY <1>2 DEF LoaderInv, ParsedSoFar
<1>5. CASE ~Named /\ pc' = "threw" /\ UNCHANGED metadatas
  <2>1. PICK key \in Keys : result[key].name = NoName
    BY <1>1, <1>5, AllRead DEF Named
  <2>2. NamesGiven(key) \subseteq {NoName}
    BY <1>1, <2>1, AllRead
  <2>3. Wrong
    BY <2>2 DEF Wrong, Nameless, NoName
  <2>4. Blamed'
    BY <1>2, <2>3, WrongRests DEF Blamed
  <2>5. Phases'
    BY <1>2, <1>5 DEF LoaderInv, Phases, ListedOnce
  <2>6. SelectedOwn' /\ DividedOwn'
    BY <1>2, <1>5 DEF LoaderInv, SelectedOwn, DividedOwn
  <2> QED BY <1>2, <1>4, <2>4, <2>5, <2>6 DEF LoaderInv
<1>6. CASE /\ Named
           /\ metadatas' \in {s \in SeqExt!SetToSeqs({MetadataOf(key) : key \in DOMAIN result}) :
                                 SortedByName(s)}
           /\ pc' = IF metadatas' = <<>> THEN "returned" ELSE "select"
  <2>1. {MetadataOf(key) : key \in DOMAIN result} = S
    BY DEF MetadataOf, Listed
  <2>2. metadatas' \in SeqExt!SetToSeqs(S) /\ SortedByName(metadatas')
    BY <1>6, <2>1
  <2>3. IsFiniteSet(S) /\ Cardinality(S) = Cardinality(DOMAIN result)
    <3> DEFINE f == [key \in DOMAIN result |-> Listed(key, result[key])]
    <3>1. \A k, l \in DOMAIN result : f[k] = f[l] => k = l
      BY DEF Listed
    <3>2. f \in Bijection(DOMAIN result, S)
      BY <3>1 DEF Bijection, Injection, Surjection, IsInjective
    <3> HIDE DEF f, S
    <3> QED BY <3>2, KeysFinite, FS_Bijection DEF ExistsBijection
  <2> HIDE DEF S
  <2>4. /\ metadatas' \in Seq(S) /\ Len(metadatas') = Cardinality(DOMAIN result)
        /\ \A i, j \in DOMAIN metadatas' : metadatas'[i] = metadatas'[j] => i = j
        /\ \A x \in S : \E i \in DOMAIN metadatas' : metadatas'[i] = x
    BY <2>2, <2>3, Permutations
  <2>5. \A i \in DOMAIN metadatas' : metadatas'[i] \in S
    BY <2>4
  <2>6. \A x, y \in S : x.key = y.key => x = y
    BY DEF S, Listed
  <2>7. \A i, j \in DOMAIN metadatas' : metadatas'[i].key = metadatas'[j].key => i = j
    BY <2>4, <2>5, <2>6
  <2>8. \A key \in DOMAIN result :
           /\ result[key].name # NoName
           /\ \E i \in DOMAIN metadatas' : metadatas'[i] = Listed(key, result[key])
    BY <1>6, <2>4 DEF S, Named
  <2>9. ListedOnce'
    BY <1>1, <1>2, <2>2, <2>4, <2>7, <2>8 DEF ListedOnce, S
  <2>10. Phases'
    BY <1>2, <1>6, <2>9 DEF LoaderInv, Phases
  <2>11. metadatas' = <<>> \/ pc' = "select"
    BY <1>6
  <2>12. Len(metadatas') \in Nat /\ (metadatas' = <<>> => Len(metadatas') = 0)
    BY <2>4
  <2>13. SelectedOwn'
    BY <1>2, <1>3, <1>6, <2>11, <2>12 DEF LoaderInv, SelectedOwn
  <2>14. DividedOwn'
    BY <1>2, <1>3, <1>6, <2>11, <2>12 DEF LoaderInv, DividedOwn
  <2>15. Blamed'
    BY <1>6 DEF Blamed
  <2> QED BY <1>2, <1>4, <2>10, <2>13, <2>14, <2>15 DEF LoaderInv
<1> QED BY <1>1, <1>5, <1>6

-----------------------------------------------------------------------------
(* The list of metadata, once there.                                           *)

LEMMA ListedFacts ==
    ASSUME LoaderInv, NEW i \in DOMAIN metadatas
    PROVE  /\ metadatas[i].key \in Keys
           /\ NamesGiven(metadatas[i].key) = {metadatas[i].name}
           /\ metadatas[i].name \in GivenNames
           /\ metadatas[i].manifest = ManifestGiven(metadatas[i].key)
           /\ IsResult(result[metadatas[i].key])
           /\ metadatas[i] = Listed(metadatas[i].key, result[metadatas[i].key])
<1>1. ListedOnce
  <2>1. metadatas # <<>>
    OBVIOUS
  <2> QED BY <2>1 DEF LoaderInv, Phases
<1>2. PICK key \in DOMAIN result : metadatas[i] = Listed(key, result[key])
  BY <1>1 DEF ListedOnce
<1>3. metadatas[i].key = key /\ metadatas[i].name = result[key].name
      /\ metadatas[i].manifest = result[key].manifest
  BY <1>2 DEF Listed
<1>4. key \in Keys /\ result[key].name # NoName
  BY <1>1, AllRead DEF ListedOnce
<1>5. NamesGiven(key) = {result[key].name} /\ ManifestGiven(key) = result[key].manifest
  BY <1>1, <1>4, AllRead DEF ListedOnce
<1>6. result[key].name \in GivenNames
  <2>1. GivenNames = (UNION {NamesGiven(k) : k \in Keys}) \ {NoName}
    BY DEF GivenNames, NoName
  <2> QED BY <1>4, <1>5, <2>1
<1>7. IsResult(result[key])
  BY DEF LoaderInv, ParsedSoFar
<1> QED BY <1>2, <1>3, <1>4, <1>5, <1>6, <1>7

LEMMA AllListed ==
    ASSUME LoaderInv, ListedOnce
    PROVE  /\ \A key \in Keys : \E i \in DOMAIN metadatas : metadatas[i].key = key
           /\ \A name \in GivenNames : \E i \in DOMAIN metadatas : metadatas[i].name = name
           /\ ~Nameless
<1>1. DOMAIN result = Keys /\ \A key \in Keys : result[key].name # NoName
  BY AllRead DEF ListedOnce
<1>2. ASSUME NEW key \in Keys
      PROVE  /\ NamesGiven(key) = {result[key].name}
             /\ \E i \in DOMAIN metadatas : metadatas[i].key = key /\ metadatas[i].name = result[key].name
  BY <1>1, AllRead DEF ListedOnce, Listed
<1>3. ASSUME NEW name \in GivenNames PROVE \E i \in DOMAIN metadatas : metadatas[i].name = name
  <2>1. PICK key \in Keys : name \in NamesGiven(key)
    BY DEF GivenNames
  <2> QED BY <1>2, <2>1
<1>4. ~Nameless
  <2>1. \A key \in Keys : NamesGiven(key) \subseteq {NoName} => FALSE
    BY <1>1, <1>2
  <2> QED BY <2>1 DEF Nameless, NoName
<1> QED BY <1>2, <1>3, <1>4

LEMMA DataFacts ==
    ASSUME NEW meta
    PROVE  /\ Data(meta) = DataIn(file.channels, meta)
           /\ Previews(meta) = PreviewsIn(file.channels, meta)
           /\ DataOf(meta.name) = DataIn(file.channels, meta)
           /\ DataIn(file.channels, meta) \subseteq file.channels
           /\ Selection(file, load_preview, meta) \subseteq file.channels
           /\ {n \in Selection(file, load_preview, meta) : IsValidChannelName(n, n.rest[meta.name])}
              = DataIn(file.channels, meta)
           /\ \A n \in Selection(file, load_preview, meta) :
                 n.rest[meta.name] \in {"numbered"} \cup IF load_preview THEN {"bare"} ELSE {}
BY DEF Data, Previews, DataOf, DataIn, PreviewsIn, Selection, IsValidChannelName,
       IsValidLegacyChannelName

LEMMA SelectChannelsInv == ASSUME LoaderInv, SelectChannels PROVE LoaderInv'
<1> DEFINE n == Len(channel_names)
           meta == metadatas[n + 1]
<1>1. /\ UNCHANGED <<file, load_preview, pc, position, result, metadatas, image, out>>
      /\ pc = "select" /\ n < Len(metadatas) /\ Mismatched(meta) = {}
      /\ channel_names' = Append(channel_names,
            Data(meta) \cup IF load_preview THEN Previews(meta) ELSE {})
  BY DEF SelectChannels, arguments, parsed
<1>2. /\ channel_names \in Seq(SUBSET file.channels) /\ n \in Nat
      /\ metadatas \in Seq({Listed(key, result[key]) : key \in DOMAIN result})
      /\ Len(metadatas) \in Nat
  <2>1. ListedOnce
    BY <1>1 DEF LoaderInv, Phases
  <2> QED BY <2>1 DEF LoaderInv, SelectedOwn, ListedOnce
<1> DEFINE own == Selection(file, load_preview, meta)
<1>3. channel_names' = Append(channel_names, own) /\ own \in SUBSET file.channels
  BY <1>1, DataFacts DEF Selection
<1>4. DataIn(file.channels, meta) \cap file.halves = {}
  BY <1>1, DataFacts DEF Mismatched
<1> HIDE DEF own
<1>5. /\ channel_names' \in Seq(SUBSET file.channels) /\ Len(channel_names') = n + 1
      /\ DOMAIN channel_names' = 1 .. n + 1 /\ DOMAIN channel_names = 1 .. n
      /\ channel_names'[n + 1] = own
      /\ \A i \in 1 .. n : channel_names'[i] = channel_names[i]
  BY <1>2, <1>3
<1>6. ASSUME NEW i \in DOMAIN channel_names'
      PROVE  /\ channel_names'[i] = Selection(file, load_preview, metadatas[i])
             /\ DataIn(file.channels, metadatas[i]) \cap file.halves = {}
  <2>1. CASE i = n + 1
    BY <1>4, <1>5, <2>1 DEF own
  <2>2. CASE i # n + 1
    <3>1. i \in 1 .. n
      BY <1>2, <1>5, <2>2
    <3> QED BY <1>5, <3>1 DEF LoaderInv, SelectedOwn
  <2> QED BY <2>1, <2>2
<1>7. SelectedOwn'
  <2>1. Len(channel_names') <= Len(metadatas) /\ pc' = "select"
    BY <1>1, <1>2, <1>5
  <2> HIDE DEF n, meta
  <2>2. \A i \in DOMAIN channel_names' :
           /\ channel_names'[i] = Selection(file, load_preview, metadatas[i])
           /\ DataIn(file.channels, metadatas[i]) \cap file.halves = {}
    BY <1>6
  <2> QED BY <1>1, <1>5, <2>1, <2>2 DEF SelectedOwn
<1>8. ParsedSoFar' /\ Phases'
  BY <1>1 DEF LoaderInv, ParsedSoFar, Phases, ListedOnce
<1>9. DividedOwn'
  BY <1>1 DEF LoaderInv, DividedOwn
<1> QED BY <1>1, <1>7, <1>8, <1>9 DEF LoaderInv, Blamed

LEMMA RejectFormatInv == ASSUME LoaderInv, RejectFormat PROVE LoaderInv'
<1> DEFINE i == Len(channel_names) + 1
<1>1. /\ UNCHANGED <<file, load_preview, position, result, metadatas, channel_names, image, out>>
      /\ pc = "select" /\ pc' = "threw" /\ Len(channel_names) < Len(metadatas)
      /\ Mismatched(metadatas[i]) # {}
  BY DEF RejectFormat, arguments, parsed
<1>2. i \in DOMAIN metadatas
  <2>1. ListedOnce
    BY <1>1 DEF LoaderInv, Phases
  <2>2. metadatas \in Seq({Listed(key, result[key]) : key \in DOMAIN result})
        /\ Len(channel_names) \in Nat
    BY <2>1 DEF LoaderInv, SelectedOwn, ListedOnce
  <2> QED BY <1>1, <2>2
<1> HIDE DEF i
<1>3. metadatas[i].name \in GivenNames /\ DataOf(metadatas[i].name) \cap file.halves # {}
  BY <1>1, <1>2, ListedFacts, DataFacts DEF Mismatched
<1>4. Wrong
  BY <1>3 DEF Wrong, SomeHalf
<1>5. ParsedSoFar' /\ Phases'
  BY <1>1 DEF LoaderInv, ParsedSoFar, Phases, ListedOnce
<1>6. SelectedOwn' /\ DividedOwn'
  BY <1>1 DEF LoaderInv, SelectedOwn, DividedOwn
<1> QED BY <1>1, <1>4, <1>5, <1>6, WrongRests DEF LoaderInv, Blamed

LEMMA ReadImageInv == ASSUME LoaderInv, ReadImage PROVE LoaderInv'
<1>1. /\ UNCHANGED <<file, load_preview, position, result, metadatas, channel_names, out>>
      /\ pc = "select" /\ Len(channel_names) = Len(metadatas)
      /\ image' = UNION SeqExt!ToSet(channel_names)
      /\ pc' \in {"divide"} \cup IF image' = {} THEN {"threw"} ELSE {}
  BY DEF ReadImage, arguments, parsed
<1>2. /\ metadatas # <<>> /\ ListedOnce
      /\ metadatas \in Seq({Listed(key, result[key]) : key \in DOMAIN result})
      /\ channel_names \in Seq(SUBSET file.channels)
      /\ out = <<>>
  <2>1. metadatas # <<>> /\ ListedOnce /\ out = <<>>
    BY <1>1 DEF LoaderInv, Phases
  <2> QED BY <2>1 DEF LoaderInv, SelectedOwn, ListedOnce
<1>3. \A i \in DOMAIN channel_names : channel_names[i] \subseteq image'
  BY <1>1 DEF SeqExt!ToSet
<1>4. image' \subseteq file.channels
  BY <1>1, <1>2 DEF SeqExt!ToSet
<1>5. ASSUME image' = {} PROVE Wrong
  <2>1. 1 \in DOMAIN metadatas /\ 1 \in DOMAIN channel_names
    BY <1>1, <1>2
  <2>2. channel_names[1] = Selection(file, load_preview, metadatas[1])
    BY <2>1 DEF LoaderInv, SelectedOwn
  <2>3. DataIn(file.channels, metadatas[1]) = {}
    BY <1>3, <1>5, <2>1, <2>2 DEF Selection
  <2>4. metadatas[1].name \in GivenNames /\ DataOf(metadatas[1].name) = {}
    BY <2>1, <2>3, ListedFacts, DataFacts
  <2>5. ~Validates(DataOf(metadatas[1].name))
    BY <2>4 DEF Validates
  <2> QED BY <2>4, <2>5 DEF Wrong, SomeInvalid
<1>6. pc' \in {"divide", "threw"} /\ (pc' = "threw" => image' = {})
  BY <1>1
<1>7. Blamed'
  BY <1>1, <1>5, <1>6, WrongRests DEF Blamed
<1>8. ParsedSoFar' /\ Phases'
  BY <1>1, <1>2, <1>6 DEF LoaderInv, ParsedSoFar, Phases, ListedOnce
<1>9. SelectedOwn'
  BY <1>1, <1>6 DEF LoaderInv, SelectedOwn
<1>10. DividedOwn'
  BY <1>1, <1>2, <1>3, <1>4, <1>6 DEF LoaderInv, DividedOwn
<1> QED BY <1>1, <1>7, <1>8, <1>9, <1>10 DEF LoaderInv

\* The cryptomatte constructed next is the next metadata's.
LEMMA NextFacts ==
    ASSUME LoaderInv, Dividing
    PROVE  LET i == Len(out) + 1 IN
           /\ i \in DOMAIN metadatas /\ i \in DOMAIN channel_names /\ Len(out) \in Nat
           /\ pc = "divide" /\ metadatas # <<>> /\ ListedOnce /\ Len(out) < Len(metadatas)
           /\ Len(metadatas) \in Nat
           /\ out \in Seq({Cryptomatte(file, load_preview, metadatas[j]) : j \in DOMAIN metadatas})
           /\ Own = Selection(file, load_preview, metadatas[i])
           /\ {n \in Own : IsValidChannelName(n, n.rest[Current.name])}
              = DataIn(file.channels, metadatas[i])
<1> DEFINE i == Len(out) + 1
<1>1. pc = "divide" /\ Len(out) < Len(metadatas) /\ ListedOnce /\ metadatas # <<>>
  BY DEF Dividing, LoaderInv, Phases
<1>2. /\ metadatas \in Seq({Listed(key, result[key]) : key \in DOMAIN result})
      /\ channel_names \in Seq(SUBSET file.channels) /\ Len(channel_names) = Len(metadatas)
      /\ out \in Seq({Cryptomatte(file, load_preview, metadatas[j]) : j \in DOMAIN metadatas})
  BY <1>1 DEF LoaderInv, SelectedOwn, DividedOwn, ListedOnce
<1>3. i \in DOMAIN metadatas /\ i \in DOMAIN channel_names /\ Len(out) \in Nat /\ Len(metadatas) \in Nat
  BY <1>1, <1>2
<1> HIDE DEF i
<1>4. Own = Selection(file, load_preview, metadatas[i])
  BY <1>3 DEF LoaderInv, SelectedOwn, Own, i
<1>5. {n \in Own : IsValidChannelName(n, n.rest[Current.name])} = DataIn(file.channels, metadatas[i])
  BY <1>4, DataFacts DEF Current, i
<1> QED BY <1>1, <1>2, <1>3, <1>4, <1>5 DEF i

LEMMA ConstructNextInv == ASSUME LoaderInv, ConstructNext PROVE LoaderInv'
<1> DEFINE n == Len(out)
           meta == metadatas[n + 1]
           own == channel_names[n + 1]
           C == {Cryptomatte(file, load_preview, metadatas[j]) : j \in DOMAIN metadatas}
<1>1. /\ UNCHANGED <<file, load_preview, pc, position, result, metadatas, channel_names>>
      /\ Dividing /\ image' = image \ Own
      /\ LET data == {c \in Own : IsValidChannelName(c, c.rest[Current.name])} IN
         Validates(data) /\ out' = Append(out, [metadata |-> Current, channels |-> data,
                                                previews |-> Own \ data])
  BY DEF ConstructNext, arguments, parsed
<1>2. /\ n + 1 \in DOMAIN metadatas /\ n + 1 \in DOMAIN channel_names /\ n \in Nat
      /\ pc = "divide" /\ n < Len(metadatas) /\ Len(metadatas) \in Nat /\ out \in Seq(C)
      /\ own = Selection(file, load_preview, meta) /\ Own = own
  BY <1>1, NextFacts DEF Own
<1>3. /\ Validates(DataIn(file.channels, meta))
      /\ out' = Append(out, Cryptomatte(file, load_preview, meta))
  BY <1>1, <1>2, NextFacts DEF Cryptomatte, Current
<1>4. Cryptomatte(file, load_preview, meta) \in C
  BY <1>2
<1> HIDE DEF C
<1>5. /\ out' \in Seq(C) /\ Len(out') = n + 1 /\ DOMAIN out' = 1 .. n + 1 /\ DOMAIN out = 1 .. n
      /\ out'[n + 1] = Cryptomatte(file, load_preview, meta)
      /\ \A i \in 1 .. n : out'[i] = out[i]
  BY <1>2, <1>3, <1>4
<1>6. ASSUME NEW i \in DOMAIN out'
      PROVE  /\ out'[i] = Cryptomatte(file, load_preview, metadatas[i])
             /\ Validates(DataIn(file.channels, metadatas[i]))
  <2>1. CASE i = n + 1
    BY <1>3, <1>5, <2>1
  <2>2. CASE i # n + 1
    <3>1. i \in 1 .. n
      BY <1>2, <1>5, <2>2
    <3> QED BY <1>5, <3>1 DEF LoaderInv, DividedOwn
  <2> QED BY <2>1, <2>2
<1>7. ASSUME NEW i \in DOMAIN channel_names, NEW c \in channel_names[i]
      PROVE  c \in image' \/ \E j \in DOMAIN out' : c \in channel_names[j]
  <2>1. CASE c \in own
    BY <1>5, <1>2, <2>1
  <2>2. CASE c \notin own
    <3>1. c \in image \/ \E j \in DOMAIN out : c \in channel_names[j]
      BY <1>2 DEF LoaderInv, DividedOwn
    <3>2. DOMAIN out \subseteq DOMAIN out'
      BY <1>2, <1>5
    <3> QED BY <1>1, <1>2, <2>2, <3>1, <3>2
  <2> QED BY <2>1, <2>2
<1>8. DividedOwn'
  <2>1. Len(out') <= Len(metadatas) /\ pc' = "divide"
    BY <1>1, <1>2, <1>5
  <2>2. image' \subseteq file.channels
    BY <1>1 DEF LoaderInv, DividedOwn
  <2> HIDE DEF n, meta, own
  <2>3. \A i \in DOMAIN out' :
           /\ out'[i] = Cryptomatte(file, load_preview, metadatas[i])
           /\ Validates(DataIn(file.channels, metadatas[i]))
    BY <1>6
  <2>4. \A i \in DOMAIN channel_names : \A c \in channel_names[i] :
           c \in image' \/ \E j \in DOMAIN out' : c \in channel_names[j]
    BY <1>7
  <2> QED BY <1>1, <1>5, <2>1, <2>2, <2>3, <2>4 DEF DividedOwn, C
<1>9. ParsedSoFar' /\ Phases'
  BY <1>1, <1>2 DEF LoaderInv, ParsedSoFar, Phases, ListedOnce
<1>10. SelectedOwn'
  BY <1>1 DEF LoaderInv, SelectedOwn
<1> QED BY <1>1, <1>8, <1>9, <1>10, <1>2 DEF LoaderInv, Blamed

\* Nothing is kept of a call that throws while the image is divided.
LEMMA DivisionFails ==
    ASSUME LoaderInv, Wrong, pc = "divide", pc' = "threw", out' = <<>>,
           UNCHANGED <<arguments, parsed, metadatas, channel_names, image>>
    PROVE  LoaderInv'
<1>1. UNCHANGED <<file, load_preview, position, result, metadatas, channel_names, image>>
  BY DEF arguments, parsed
<1>2. ParsedSoFar' /\ Phases'
  BY <1>1 DEF LoaderInv, ParsedSoFar, Phases, ListedOnce
<1>3. SelectedOwn'
  BY <1>1 DEF LoaderInv, SelectedOwn
<1>4. DividedOwn'
  <2>1. Len(out') = 0 /\ DOMAIN out' = {} /\ \A S : out' \in Seq(S)
    OBVIOUS
  <2>2. Len(metadatas) \in Nat
    <3>1. ListedOnce
      BY DEF LoaderInv, Phases
    <3> QED BY <3>1 DEF ListedOnce
  <2> QED BY <1>1, <2>1, <2>2 DEF LoaderInv, DividedOwn
<1> QED BY <1>1, <1>2, <1>3, <1>4, WrongRests DEF LoaderInv, Blamed

LEMMA ExtractFailsInv == ASSUME LoaderInv, ExtractFails PROVE LoaderInv'
<1> DEFINE i == Len(out) + 1
<1>1. /\ Dividing /\ ~(Own \subseteq image) /\ pc' = "threw" /\ out' = <<>>
      /\ UNCHANGED <<arguments, parsed, metadatas, channel_names, image>>
  BY DEF ExtractFails
<1>2. /\ i \in DOMAIN metadatas /\ i \in DOMAIN channel_names /\ Len(out) \in Nat
      /\ pc = "divide" /\ ListedOnce /\ Own = Selection(file, load_preview, metadatas[i])
      /\ Len(out) < Len(metadatas) /\ Len(metadatas) \in Nat
      /\ DOMAIN out = 1 .. Len(out) /\ DOMAIN metadatas = 1 .. Len(metadatas)
  <2>1. out \in Seq({Cryptomatte(file, load_preview, metadatas[j]) : j \in DOMAIN metadatas})
    BY <1>1, NextFacts
  <2>2. metadatas \in Seq({Listed(key, result[key]) : key \in DOMAIN result})
    BY <1>1, NextFacts DEF ListedOnce
  <2> QED BY <1>1, <2>1, <2>2, NextFacts
<1>3. PICK c \in Own : c \notin image
  BY <1>1
<1>4. Own = channel_names[i]
  BY DEF Own
<1>5. PICK j \in DOMAIN out : c \in channel_names[j]
  BY <1>2, <1>3, <1>4 DEF LoaderInv, DividedOwn
<1>6. j \in DOMAIN metadatas /\ j # i /\ j \in DOMAIN channel_names
  <2>1. Len(channel_names) = Len(metadatas) /\ DOMAIN channel_names = 1 .. Len(channel_names)
    BY <1>2 DEF LoaderInv, SelectedOwn
  <2> QED BY <1>2, <2>1
<1> HIDE DEF i
<1>7. metadatas[i].key # metadatas[j].key
  BY <1>2, <1>6 DEF ListedOnce
<1>8. channel_names[j] = Selection(file, load_preview, metadatas[j])
  BY <1>6 DEF LoaderInv, SelectedOwn
<1>9. /\ c \in file.channels
      /\ c.rest[metadatas[i].name] \in {"numbered"} \cup IF load_preview THEN {"bare"} ELSE {}
      /\ c.rest[metadatas[j].name] \in {"numbered"} \cup IF load_preview THEN {"bare"} ELSE {}
  BY <1>2, <1>3, <1>5, <1>8, DataFacts
<1>10. /\ metadatas[i].key \in Keys /\ metadatas[i].name \in NamesGiven(metadatas[i].key)
       /\ metadatas[j].key \in Keys /\ metadatas[j].name \in NamesGiven(metadatas[j].key)
  BY <1>2, <1>6, ListedFacts
<1>11. SomeShared
  BY <1>7, <1>9, <1>10 DEF SomeShared
<1> QED BY <1>1, <1>2, <1>11, DivisionFails DEF Wrong

LEMMA ConstructFailsInv == ASSUME LoaderInv, ConstructFails PROVE LoaderInv'
<1> DEFINE i == Len(out) + 1
<1>1. /\ Dividing /\ pc' = "threw" /\ out' = <<>>
      /\ ~Validates({n \in Own : IsValidChannelName(n, n.rest[Current.name])})
      /\ UNCHANGED <<arguments, parsed, metadatas, channel_names, image>>
  BY DEF ConstructFails
<1>2. /\ pc = "divide" /\ i \in DOMAIN metadatas
      /\ ~Validates(DataIn(file.channels, metadatas[i]))
  BY <1>1, NextFacts
<1>3. metadatas[i].name \in GivenNames /\ ~Validates(DataOf(metadatas[i].name))
  BY <1>2, ListedFacts, DataFacts
<1>4. Wrong
  BY <1>3 DEF Wrong, SomeInvalid
<1> QED BY <1>1, <1>2, <1>4, DivisionFails

LEMMA ReturnInv == ASSUME LoaderInv, Return PROVE LoaderInv'
<1>1. /\ UNCHANGED <<file, load_preview, position, result, metadatas, channel_names, image, out>>
      /\ pc = "divide" /\ pc' = "returned" /\ Len(out) = Len(metadatas)
  BY DEF Return, arguments, parsed
<1>2. ParsedSoFar' /\ Phases'
  BY <1>1 DEF LoaderInv, ParsedSoFar, Phases, ListedOnce
<1>3. SelectedOwn' /\ DividedOwn'
  BY <1>1 DEF LoaderInv, SelectedOwn, DividedOwn
<1> QED BY <1>1, <1>2, <1>3 DEF LoaderInv, Blamed

-----------------------------------------------------------------------------
(* All together.                                                           *)

LEMMA InitIInv == Init => IInv
<1> SUFFICES ASSUME Init PROVE IInv
  OBVIOUS
<1>1. /\ file \in Files /\ calls \in Scripts
      /\ load_preview \in BOOLEAN /\ pc = "open" /\ position = 0 /\ result = <<>>
      /\ metadatas = <<>> /\ channel_names = <<>> /\ image = {} /\ out = <<>>
      /\ LoggerInit
  BY DEF Init, Files, Scripts
<1>2. ParsedSoFar
  <2>1. 0 \in 0 .. Len(file.attributes) /\ 1 .. 0 = {}
    BY <1>1, FileFacts
  <2>2. DOMAIN result = {} /\ result = [key \in DOMAIN result |-> result[key]]
    BY <1>1
  <2>3. KeysRead(file, 0) = {}
    BY <2>1 DEF KeysRead
  <2> QED BY <1>1, <2>1, <2>2, <2>3 DEF ParsedSoFar
<1>3. Phases
  BY <1>1 DEF Phases
<1>4. SelectedOwn /\ DividedOwn
  <2>1. Len(<<>>) = 0 /\ DOMAIN <<>> = {} /\ \A S : <<>> \in Seq(S)
    OBVIOUS
  <2> QED BY <1>1, <2>1 DEF SelectedOwn, DividedOwn
<1>5. CallsPending
  BY <1>1, FileAssumption, ThreadAssumption DEF CallsPending, LoggerInit
<1>6. LoggerInv
  <2> USE <1>1 DEF LoggerInit, Null, Default, User
  <2>1. LoggerTypeOK
    <3>1. sets \in Seq({Null, User})
      OBVIOUS
    <3> QED BY <3>1 DEF LoggerTypeOK
  <2>2. OneAtATime /\ LoggerHeld
    BY DEF OneAtATime, LoggerHeld, Chosen
  <2>3. \A t \in Threads : GetsHeld(t)
    BY DEF GetsHeld
  <2> QED BY <2>1, <2>2, <2>3 DEF LoggerInv
<1>7. BrokenManifestSurvives /\ Blamed
  BY <1>1 DEF BrokenManifestSurvives, Blamed, LoggerInit
<1> QED BY <1>1, <1>2, <1>3, <1>4, <1>5, <1>6, <1>7 DEF IInv, LoaderInv

LEMMA GetLoggerInv ==
    ASSUME NEW u \in Threads, LoggerInv, GetLogger(u) PROVE LoggerInv'
BY TestInv, CreateInv, AssignInv, SetLevelInv, CopyInv DEF GetLogger

LEMMA UntouchedInv ==
    ASSUME LoggerInv, UNCHANGED loggerVars PROVE LoggerInv'
<1>1. alive' \in BOOLEAN /\ UNCHANGED <<s_logger, registered, at, got, sets, alone>>
  BY DEF LoggerInv, LoggerTypeOK, loggerVars
<1> QED BY <1>1, LoggerRests

\* Without overlapping calls, get_logger and set_logger do not end the process.
LEMMA NoOverlapNoCrash ==
    ASSUME LoggerInv, alive, alone', NEW u \in Threads, GetLogger(u) PROVE alive'
<1>1. CASE SetLevel(u)
  <2>1. GetsHeld(u)
    BY <1>1, OthersOutside DEF SetLevel
  <2> QED BY <1>1, <2>1 DEF SetLevel, GetsHeld
<1>2. CASE TestLogger(u) \/ CreateDefault(u) \/ AssignDefault(u) \/ CopyLogger(u)
  BY <1>2 DEF TestLogger, CreateDefault, AssignDefault, CopyLogger
<1> QED BY <1>1, <1>2 DEF GetLogger

LEMMA LoaderStep ==
    ASSUME IInv, LoadNext PROVE LoaderInv' /\ calls' = calls
<1> USE DEF IInv
<1>1. CASE Warn \/ WarnStep
  BY <1>1, LoaderRests DEF Warn, WarnStep
<1>2. CASE Open \/ SkipForeign \/ RejectAttribute \/ FinishParse
  BY <1>2, OpenInv, SkipForeignInv, RejectAttributeInv, FinishParseInv
  DEF Open, SkipForeign, RejectAttribute, FinishParse, others
<1>3. CASE ParseAttribute \/ Terminate
  BY <1>3, ParseAttributeInv, TerminateInv DEF ParseAttribute, Terminate
<1>4. CASE SelectChannels \/ RejectFormat \/ ReadImage
  BY <1>4, SelectChannelsInv, RejectFormatInv, ReadImageInv
  DEF SelectChannels, RejectFormat, ReadImage, others
<1>5. CASE ConstructNext \/ ExtractFails \/ ConstructFails \/ Return
  BY <1>5, ConstructNextInv, ExtractFailsInv, ConstructFailsInv, ReturnInv
  DEF ConstructNext, ExtractFails, ConstructFails, Return, others
<1> QED BY <1>1, <1>2, <1>3, <1>4, <1>5 DEF LoadNext

\* What the loader does does not move the other thread.
LEMMA LoaderAlone ==
    ASSUME IInv, LoadNext PROVE at'[Other] = at[Other]
<1>0. Other \in Threads /\ Loader # Other /\ at \in [Threads -> {at[t] : t \in Threads}]
  BY ThreadAssumption DEF IInv, LoggerInv, LoggerTypeOK
<1>1. ASSUME NEW place, Goes(Loader, place) PROVE at'[Other] = at[Other]
  BY <1>0, <1>1 DEF Goes
<1>2. CASE Warn \/ WarnStep \/ ParseAttribute
  BY <1>1, <1>2
  DEF Warn, WarnStep, ParseAttribute, EnterGetLogger, GetLogger, TestLogger, CreateDefault,
      AssignDefault, SetLevel, CopyLogger, LeaveGetLogger, loggerVars
<1>3. CASE UNCHANGED at
  BY <1>3
<1>4. LoadNext => Warn \/ WarnStep \/ ParseAttribute \/ UNCHANGED at
  BY DEF LoadNext, Open, SkipForeign, RejectAttribute, Terminate, FinishParse, SelectChannels,
         RejectFormat, ReadImage, ConstructNext, ExtractFails, ConstructFails, Return, others,
         loggerVars
<1> QED BY <1>2, <1>3, <1>4

LEMMA LoaderLogs ==
    ASSUME IInv, LoadNext PROVE LoggerInv' /\ BrokenManifestSurvives'
<1> USE DEF IInv
<1>0. Loader \in Threads /\ alive
  BY ThreadAssumption DEF LoadNext
<1>1. CASE Warn
  <2>1. EnterGetLogger(Loader)
    BY <1>1 DEF Warn
  <2>2. LoggerInv' /\ alive'
    BY <1>0, <2>1, EnterGetInv DEF EnterGetLogger
  <2> QED BY <2>2 DEF BrokenManifestSurvives
<1>2. CASE WarnStep
  <2>1. GetLogger(Loader)
    BY <1>2 DEF WarnStep
  <2>2. LoggerInv' /\ (alone' => alive')
    BY <1>0, <2>1, GetLoggerInv, NoOverlapNoCrash
  <2> QED BY <2>2 DEF BrokenManifestSurvives
<1>3. CASE ParseAttribute
  <2>1. LeaveGetLogger(Loader) \/ UNCHANGED loggerVars
    BY <1>3 DEF ParseAttribute
  <2>2. LoggerInv' /\ alive'
    BY <1>0, <2>1, LeaveInv, UntouchedInv DEF LeaveGetLogger, loggerVars
  <2> QED BY <2>2 DEF BrokenManifestSurvives
<1>4. CASE Terminate
  <2>1. /\ UNCHANGED <<file, position, s_logger, registered, at, got, sets, alone>>
        /\ alive' = FALSE /\ position < Len(file.attributes)
    BY <1>4 DEF Terminate, Parsing, arguments, parsed
  <2>2. LoggerInv'
    BY <2>1, LoggerRests
  <2>3. ASSUME alone PROVE (position < Len(file.attributes) /\ Terminates(Attribute)) \/ TakenAway
    <3>1. GetsHeld(Loader)
      BY <1>0, <2>3 DEF LoggerInv
    <3>2. Terminates(Attribute) \/ at[Loader] = "threw" \/ (at[Loader] = "returned" /\ got[Loader] = Null)
      BY <1>4 DEF Terminate
    <3> QED BY <2>1, <3>1, <3>2 DEF GetsHeld
  <2>4. Attribute' = Attribute /\ TakenAway' = TakenAway
    BY <2>1 DEF Attribute, TakenAway, Chosen
  <2>5. Terminates(Attribute)' = Terminates(Attribute)
    BY <2>1 DEF Attribute, Terminates, IsEmbedded
  <2> QED BY <2>1, <2>2, <2>3, <2>4, <2>5 DEF BrokenManifestSurvives, TakenAway
<1>5. CASE UNCHANGED others
  <2>1. UNCHANGED loggerVars
    BY <1>5 DEF others
  <2>2. LoggerInv' /\ alive'
    BY <1>0, <2>1, UntouchedInv DEF loggerVars
  <2> QED BY <2>2 DEF BrokenManifestSurvives
<1>6. LoadNext => Warn \/ WarnStep \/ ParseAttribute \/ Terminate \/ UNCHANGED others
  BY DEF LoadNext, Open, SkipForeign, RejectAttribute, FinishParse, SelectChannels, RejectFormat,
         ReadImage, ConstructNext, ExtractFails, ConstructFails, Return
<1> QED BY <1>1, <1>2, <1>3, <1>4, <1>5, <1>6

LEMMA OtherStepInv ==
    ASSUME IInv, OtherNext PROVE IInv'
<1> USE DEF IInv
<1>0. Other \in Threads /\ alive /\ calls \in Seq({"get", "set", "reset"})
      /\ at \in [Threads -> {at[t] : t \in Threads}]
  BY ThreadAssumption DEF OtherNext, CallsPending, LoggerInv, LoggerTypeOK
<1>1. LoaderInv'
  BY LoaderRests DEF OtherNext, OtherCalls, OtherStep, OtherSets, OtherLeaves
<1>2. CASE OtherCalls
  <2>1. (EnterGetLogger(Other) \/ EnterSetLogger(Other)) /\ UNCHANGED calls
    BY <1>2 DEF OtherCalls
  <2>2. LoggerInv' /\ alive'
    BY <1>0, <2>1, EnterGetInv, EnterSetInv DEF EnterGetLogger, EnterSetLogger
  <2>3. calls # <<>>
    BY <1>2 DEF OtherCalls
  <2> QED BY <1>1, <2>1, <2>2, <2>3 DEF BrokenManifestSurvives, CallsPending
<1>3. CASE OtherStep
  <2>1. GetLogger(Other) /\ UNCHANGED calls
    BY <1>3 DEF OtherStep
  <2>2. LoggerInv' /\ (alone' => alive')
    BY <1>0, <2>1, GetLoggerInv, NoOverlapNoCrash
  <2>3. at[Other] # "outside"
    BY <2>1 DEF GetLogger, TestLogger, CreateDefault, AssignDefault, SetLevel, CopyLogger
  <2> QED BY <1>1, <2>1, <2>2, <2>3 DEF BrokenManifestSurvives, CallsPending
<1>4. CASE OtherSets
  <2>1. PICK new_logger \in {Null, User} : SetLogger(Other, new_logger)
    BY <1>4 DEF OtherSets
  <2>2. LoggerInv' /\ alive'
    BY <1>0, <2>1, SetInv DEF SetLogger
  <2>3. calls' \in Seq({"get", "set", "reset"})
    BY <1>0, <1>4 DEF OtherSets
  <2>4. at'[Other] = "outside"
    BY <1>0, <2>1 DEF SetLogger, Goes
  <2> QED BY <1>1, <2>2, <2>3, <2>4 DEF BrokenManifestSurvives, CallsPending
<1>5. CASE OtherLeaves
  <2>1. LeaveGetLogger(Other) /\ calls' = Tail(calls)
    BY <1>5 DEF OtherLeaves
  <2>2. LoggerInv' /\ alive'
    BY <1>0, <2>1, LeaveInv DEF LeaveGetLogger
  <2>3. calls # <<>>
    BY <2>1 DEF LeaveGetLogger, CallsPending
  <2>4. calls' \in Seq({"get", "set", "reset"})
    BY <1>0, <2>1, <2>3
  <2>5. at'[Other] = "outside"
    BY <1>0, <2>1 DEF LeaveGetLogger, Goes
  <2> QED BY <1>1, <2>2, <2>4, <2>5 DEF BrokenManifestSurvives, CallsPending
<1> QED BY <1>2, <1>3, <1>4, <1>5 DEF OtherNext

\* Two threads at the shared_ptr have overlapped.
LEMMA RaceInv == ASSUME IInv, Race PROVE IInv'
<1> USE DEF IInv
<1>1. /\ Collide /\ UNCHANGED <<loading, calls>> /\ alive' = FALSE
      /\ UNCHANGED <<s_logger, registered, at, got, sets, alone>>
  BY DEF Race, Collide
<1>2. LoaderInv' /\ LoggerInv'
  BY <1>1, LoaderRests, LoggerRests
<1>3. ~alone
  <2>1. PICK t \in Threads, u \in Threads : t # u /\ Writing(t) /\ Accessing(u)
    BY <1>1 DEF Collide
  <2>2. at[t] # "outside" /\ at[u] # "outside"
    BY <2>1 DEF Writing, Accessing
  <2> QED BY <2>1, <2>2 DEF LoggerInv, OneAtATime
<1> QED BY <1>1, <1>2, <1>3 DEF BrokenManifestSurvives, CallsPending

LEMMA StutterInv == ASSUME IInv, UNCHANGED vars PROVE IInv'
<1> USE DEF IInv
<1>1. UNCHANGED loading /\ UNCHANGED calls /\ UNCHANGED loggerVars
  BY DEF vars, others
<1>2. LoaderInv' /\ LoggerInv'
  BY <1>1, LoaderRests, UntouchedInv
<1>3. UNCHANGED <<file, position, alone, alive, registered, sets>>
  BY <1>1 DEF loading, arguments, parsed, loggerVars
<1>4. BrokenManifestSurvives'
  BY <1>3 DEF BrokenManifestSurvives, TakenAway, Terminates, IsEmbedded, Attribute, Chosen
<1>5. CallsPending'
  BY <1>1 DEF CallsPending, loggerVars
<1> QED BY <1>2, <1>4, <1>5

\* The invariant holds throughout the loading of every file.
LEMMA Invariance == Spec => []IInv
<1>1. IInv /\ [Next]_vars => IInv'
  <2>1. ASSUME IInv, LoadNext PROVE IInv'
    BY <2>1, LoaderStep, LoaderLogs, LoaderAlone DEF IInv, CallsPending
  <2> QED BY <2>1, OtherStepInv, RaceInv, StutterInv DEF Next, Terminated
<1> QED BY <1>1, InitIInv, PTL DEF Spec

-----------------------------------------------------------------------------
(* The properties the run checks.                                          *)

LEMMA ResultIsMetadata ==
    ASSUME LoaderInv, NEW key \in DOMAIN result
    PROVE  IsMetadata(Listed(key, result[key]))
<1> DEFINE meta == result[key]
           m == Listed(key, meta)
<1>1. m.key = key /\ m.name = meta.name /\ m.manifest = meta.manifest
  BY DEF Listed
<1>2. IsResult(meta)
  BY DEF LoaderInv, ParsedSoFar
<1>3. key \in {a.key : a \in SeqExt!ToSet(file.attributes)}
  <2>1. PICK i \in 1 .. position : file.attributes[i].key = key
    BY DEF LoaderInv, ParsedSoFar, KeysRead
  <2>2. i \in DOMAIN file.attributes
    BY FileFacts DEF LoaderInv, ParsedSoFar
  <2> QED BY <2>1, <2>2, FileFacts DEF LoaderInv
<1> HIDE DEF meta, m
<1>4. Cardinality(meta.manifest) <= 1
  <2>1. CASE meta.manifest = {}
    BY <2>1, FS_EmptySet
  <2>2. CASE meta.manifest # {}
    <3>1. PICK h : meta.manifest = {h}
      BY <1>2, <2>2 DEF IsResult
    <3>2. Cardinality({h}) = 1
      BY FS_Singleton
    <3> QED BY <3>1, <3>2
  <2> QED BY <2>1, <2>2
<1>5. IsMetadata(m)
  BY <1>1, <1>2, <1>3, <1>4 DEF IsMetadata, IsResult
<1> QED BY <1>5 DEF m, meta

\* Every variable of the loader and of the logger keeps its type: the parsed metadata,
\* in the list and in the cryptomattes, have a key of the file, a name, and at most one
\* manifest, of 32-bit hashes.
THEOREM TypeCorrect == Spec => []TypeOK
<1>1. IInv => TypeOK
  <2> SUFFICES ASSUME IInv PROVE TypeOK
    OBVIOUS
  <2>1. LoaderInv
    BY DEF IInv
  <2>2. \A key \in DOMAIN result : IsMetadata(MetadataOf(key))
    BY <2>1, ResultIsMetadata DEF MetadataOf, Listed
  <2>3. ASSUME NEW i \in DOMAIN metadatas PROVE IsMetadata(metadatas[i])
    <3>1. metadatas[i].key \in DOMAIN result
      <4>1. ListedOnce
        BY <2>1, metadatas # <<>> DEF LoaderInv, Phases
      <4> QED BY <2>1, <4>1, ListedFacts, AllRead DEF ListedOnce
    <3> QED BY <2>1, <3>1, ListedFacts, ResultIsMetadata
  <2>4. ASSUME NEW i \in DOMAIN out PROVE IsMetadata(out[i].metadata)
    <3>1. out # <<>>
      OBVIOUS
    <3>2. ListedOnce
      BY <2>1, <3>1 DEF LoaderInv, Phases
    <3>3. i \in DOMAIN metadatas
      BY <2>1, <3>2 DEF LoaderInv, DividedOwn, ListedOnce
    <3>4. out[i].metadata = metadatas[i]
      BY <2>1 DEF LoaderInv, DividedOwn, Cryptomatte
    <3> QED BY <2>3, <3>3, <3>4
  <2> QED BY <2>1, <2>2, <2>3, <2>4
          DEF TypeOK, IInv, LoaderInv, ParsedSoFar, Phases, SelectedOwn, DividedOwn, CallsPending,
              LoggerInv
<1> QED BY <1>1, Invariance, PTL

\* However the attributes of several keys interleave, each key gets one metadata, with
\* its own name and the manifest of an attribute of its own.
THEOREM MetadataCorrect == Spec => []MetadataOwn
<1>1. IInv => MetadataOwn
  <2> SUFFICES ASSUME IInv, metadatas # <<>> PROVE MetadataOwn
    BY DEF MetadataOwn
  <2>1. LoaderInv /\ ListedOnce
    BY DEF IInv, LoaderInv, Phases
  <2>2. Len(metadatas) = Cardinality(Keys)
    BY <2>1, AllRead DEF ListedOnce
  <2>3. {metadatas[i].key : i \in DOMAIN metadatas} = Keys
    BY <2>1, AllListed, ListedFacts
  <2>4. ASSUME NEW i \in DOMAIN metadatas
        PROVE  LET key == metadatas[i].key IN
               /\ metadatas[i].name \in NamesGiven(key)
               /\ IF ManifestPlaces(key) = {} THEN metadatas[i].manifest = NoManifest
                  ELSE \E j \in ManifestPlaces(key) :
                          metadatas[i].manifest = LoadManifest(file.attributes[j])
    <3> DEFINE key == metadatas[i].key
    <3>1. metadatas[i].name \in NamesGiven(key)
      BY <2>1, ListedFacts
    <3>2. metadatas[i].manifest = result[key].manifest
      BY <2>1, ListedFacts DEF Listed
    <3>3. ManifestRead(file, position, key, result[key])
      <4>1. key \in DOMAIN result
        BY <2>1, ListedFacts, AllRead DEF ListedOnce
      <4> QED BY <2>1, <4>1 DEF LoaderInv, ParsedSoFar
    <3>4. ManifestPlaces(key) = Read(file, position, key, ManifestAttribs)
      BY <2>1, FileFacts DEF ManifestPlaces, Places, Read, ManifestAttribs, LoaderInv, ListedOnce
    <3> HIDE DEF key
    <3>5. IF ManifestPlaces(key) = {} THEN metadatas[i].manifest = NoManifest
          ELSE \E j \in ManifestPlaces(key) :
                  metadatas[i].manifest = LoadManifest(file.attributes[j])
      BY <3>2, <3>3, <3>4 DEF ManifestRead
    <3> QED BY <3>1, <3>5 DEF key
  <2> QED BY <2>2, <2>3, <2>4 DEF MetadataOwn
<1> QED BY <1>1, Invariance, PTL

\* The cryptomattes returned are one per key, in the order of their names, and each
\* has the channels of its name and no others, and the previews if asked for.
THEOREM CryptomattesCorrect == Spec => []CryptomattesOwn
<1>1. IInv => CryptomattesOwn
  <2> SUFFICES ASSUME IInv, pc = "returned" PROVE CryptomattesOwn
    BY DEF CryptomattesOwn
  <2>1. LoaderInv /\ ListedOnce
    BY DEF IInv, LoaderInv, Phases
  <2>2. DOMAIN out = DOMAIN metadatas /\ Len(out) = Len(metadatas)
    BY <2>1 DEF LoaderInv, DividedOwn, ListedOnce
  <2>3. \A i \in DOMAIN out : out[i] = Cryptomatte(file, load_preview, metadatas[i])
    BY <2>1 DEF LoaderInv, DividedOwn
  <2>4. \A i \in DOMAIN out : out[i].metadata = metadatas[i]
    BY <2>3 DEF Cryptomatte
  <2>5. Len(out) = Cardinality(Keys)
    BY <2>1, <2>2, AllRead DEF ListedOnce
  <2>6. {out[i].metadata.key : i \in DOMAIN out} = Keys
    BY <2>1, <2>2, <2>4, AllListed, ListedFacts
  <2>7. \A i, j \in DOMAIN out :
           i < j => Alphabetical[out[i].metadata.name] <= Alphabetical[out[j].metadata.name]
    BY <2>1, <2>2, <2>4 DEF ListedOnce, SortedByName
  <2>8. ASSUME NEW i \in DOMAIN out
        PROVE  LET name == out[i].metadata.name IN
               /\ name \in NamesGiven(out[i].metadata.key)
               /\ out[i].channels = DataOf(name)
               /\ out[i].previews = {n \in file.channels :
                     load_preview /\ n.rest[name] = "bare" /\ n.type # NoType}
    <3> DEFINE meta == metadatas[i]
    <3>1. out[i].metadata = meta /\ meta.name \in NamesGiven(meta.key)
      BY <2>1, <2>2, <2>4, ListedFacts
    <3>2. out[i].channels = DataOf(meta.name)
      BY <2>3, DataFacts DEF Cryptomatte
    <3>3. out[i].previews = Selection(file, load_preview, meta) \ DataIn(file.channels, meta)
      BY <2>3 DEF Cryptomatte
    <3> HIDE DEF meta
    <3>4. Selection(file, load_preview, meta) \ DataIn(file.channels, meta)
          = {n \in file.channels : load_preview /\ n.rest[meta.name] = "bare" /\ n.type # NoType}
      BY DEF Selection, DataIn, PreviewsIn, IsValidChannelName, IsValidLegacyChannelName
    <3> QED BY <3>1, <3>2, <3>3, <3>4
  <2> QED BY <2>5, <2>6, <2>7, <2>8 DEF CryptomattesOwn
<1> QED BY <1>1, Invariance, PTL

\* load throws for the reasons listed and no others, and what it returns had none of
\* those that are about a single cryptomatte.
THEOREM FailuresJustified == Spec => []FailsExactlyIfWrong
<1>1. IInv => FailsExactlyIfWrong
  <2> SUFFICES ASSUME IInv PROVE FailsExactlyIfWrong
    OBVIOUS
  <2>1. LoaderInv
    BY DEF IInv
  <2>2. ASSUME pc = "returned" PROVE file.opens /\ ~Rejects /\ ~Nameless /\ ~SomeHalf /\ ~SomeInvalid
    <3>1. file.opens /\ ListedOnce
      BY <2>1, <2>2 DEF LoaderInv, Phases
    <3>2. ~Rejects /\ ~Nameless
      BY <2>1, <3>1, AllRead, AllListed DEF ListedOnce
    <3>3. /\ DOMAIN channel_names = DOMAIN metadatas /\ DOMAIN out = DOMAIN metadatas
      BY <2>1, <2>2, <3>1 DEF LoaderInv, SelectedOwn, DividedOwn, ListedOnce
    <3>4. \A i \in DOMAIN metadatas :
             /\ DataOf(metadatas[i].name) \cap file.halves = {}
             /\ Validates(DataOf(metadatas[i].name))
      BY <2>1, <3>3, DataFacts DEF LoaderInv, SelectedOwn, DividedOwn
    <3>5. \A name \in GivenNames : \E i \in DOMAIN metadatas : metadatas[i].name = name
      BY <2>1, <3>1, AllListed
    <3> QED BY <3>1, <3>2, <3>4, <3>5 DEF SomeHalf, SomeInvalid
  <2> QED BY <2>1, <2>2 DEF FailsExactlyIfWrong, LoaderInv, Blamed, Wrong
<1> QED BY <1>1, Invariance, PTL

\* While no two calls to the logger overlap, a broken manifest does not end the
\* process, but for the two exceptions.
THEOREM ManifestsSurvived == Spec => []BrokenManifestSurvives
<1>1. IInv => BrokenManifestSurvives
  BY DEF IInv
<1> QED BY <1>1, Invariance, PTL

\* While no two calls to the logger overlap, get_logger returns the logger last set, or
\* a default one if there is none; and it throws only if the default logger had been
\* created and was then taken away by set_logger(nullptr).
THEOREM LoggerStays == Spec => []LoggerKept
<1>1. IInv => LoggerKept
  <2> SUFFICES ASSUME IInv, alone, NEW t \in Threads
               PROVE  /\ at[t] = "returned" => got[t] = IF Chosen = Null THEN Default ELSE Chosen
                      /\ at[t] = "threw" => TakenAway
    BY DEF LoggerKept
  <2>1. LoggerTypeOK /\ LoggerHeld /\ GetsHeld(t)
    BY DEF IInv, LoggerInv
  <2>2. ASSUME at[t] = "returned" PROVE got[t] = IF Chosen = Null THEN Default ELSE Chosen
    <3>1. got[t] = s_logger /\ s_logger # Null /\ s_logger \in {Null, Default, User}
      BY <2>1, <2>2 DEF GetsHeld, LoggerTypeOK
    <3> QED BY <2>1, <3>1 DEF LoggerHeld
  <2>3. at[t] = "threw" => TakenAway
    BY <2>1 DEF GetsHeld
  <2> QED BY <2>2, <2>3
<1> QED BY <1>1, Invariance, PTL

\* A manifest of hashes in the form uint32_t_to_hex_str prints them in is read, for
\* any number of digits, and each of its numbers prints as its text; other texts are
\* refused, or read as a number with a digit less.
THEOREM HashesCorrect == Spec => []HashesAsWritten
<1>1. IInv => HashesAsWritten
  <2> SUFFICES ASSUME IInv, NEW i \in DOMAIN metadatas,
                      ManifestPlaces(metadatas[i].key) # {},
                      NEW text \in TextGiven(LastManifest(metadatas[i].key))
               PROVE  /\ (\A j \in DOMAIN text : Plain(text[j])) => metadatas[i].manifest # {}
                      /\ \A hashes \in metadatas[i].manifest :
                            /\ Len(hashes) = Len(text)
                            /\ \A j \in DOMAIN text :
                                  /\ Len(text[j]) = HexLength
                                  /\ IF Plain(text[j]) THEN UintToHexStr(hashes[j]) = Printed(text[j])
                                     ELSE hashes[j] < PlaceValue[HexLength - 1]
    BY DEF HashesAsWritten
  <2> DEFINE key == metadatas[i].key
             places == ManifestPlaces(key)
             a == LastManifest(key)
  <2>1. LoaderInv /\ ListedOnce
    <3>1. metadatas # <<>>
      OBVIOUS
    <3> QED BY <3>1 DEF IInv, LoaderInv, Phases
  <2>2. a = file.attributes[Max(places)] /\ Max(places) \in places
    <3>1. places = Read(file, position, key, ManifestAttribs)
      BY <2>1, FileFacts DEF ManifestPlaces, Places, Read, ManifestAttribs, LoaderInv, ListedOnce
    <3>2. ManifestRead(file, position, key, result[key])
      <4>1. key \in DOMAIN result
        BY <2>1, ListedFacts, AllRead DEF ListedOnce
      <4> QED BY <2>1, <4>1 DEF LoaderInv, ParsedSoFar
    <3>3. PICK k \in places : \A j \in places : j <= k
      BY <3>1, <3>2 DEF ManifestRead
    <3>4. \A k1, k2 \in places : k1 \in Int /\ k2 \in Int
      BY <2>1, FileFacts DEF ManifestPlaces, Places, LoaderInv
    <3>5. Max(places) = k
      <4> HIDE DEF places
      <4> QED BY <3>3, <3>4 DEF Max
    <3> QED BY <3>3, <3>5 DEF LastManifest
  <2>3. a \in SeqExt!ToSet(file.attributes) /\ a.attr \in ManifestAttribs /\ ~IsRejected(a)
    <3>1. Max(places) \in DOMAIN file.attributes /\ a.attr \in ManifestAttribs
      BY <2>2 DEF ManifestPlaces, Places, ManifestAttribs
    <3>2. a \in SeqExt!ToSet(file.attributes)
      BY <2>1, <2>2, <3>1, FileFacts DEF LoaderInv
    <3>3. ~Rejects
      BY <2>1, AllRead DEF ListedOnce
    <3> QED BY <3>1, <3>2, <3>3 DEF Rejects
  <2>4. metadatas[i].manifest = LoadManifest(a)
    <3>1. metadatas[i].manifest = ManifestGiven(key)
      BY <2>1, ListedFacts
    <3>2. ManifestGiven(key) = LoadManifest(a)
      BY DEF ManifestGiven
    <3> QED BY <3>1, <3>2
  <2>5. IsText(TextGiven(a)) /\ LoadManifest(a) = Decoded(TextGiven(a))
    <3>1. a.value # NotAString
      BY <2>3 DEF IsRejected, ManifestAttribs, ValidAttribs
    <3>2. CASE IsEmbedded(a)
      <4>1. IsText(a.value)
        <5> HIDE DEF a
        <5> QED BY <2>1, <2>3, <3>1, <3>2, FileAssumption DEF LoaderInv, ManifestAttribs
      <4> QED BY <3>2, <4>1 DEF TextGiven, LoadManifest
    <3>3. CASE ~IsEmbedded(a) /\ a.value \in DOMAIN Disk
      BY <3>3, FileAssumption DEF TextGiven, LoadManifest, Sidecar
    <3>4. CASE ~IsEmbedded(a) /\ a.value \notin DOMAIN Disk
      <4>1. TextGiven(a) = {} /\ LoadManifest(a) = {}
        BY <3>4 DEF TextGiven, LoadManifest, Sidecar, NoManifest
      <4>2. IsText({}) /\ Decoded({}) = {}
        BY DEF IsText, Decoded
      <4> QED BY <4>1, <4>2
    <3> QED BY <3>2, <3>3, <3>4
  <2> HIDE DEF a
  <2>6. text \in TextGiven(a)
    BY DEF a
  <2> QED BY <2>4, <2>5, <2>6, DecodedAsWritten
<1> QED BY <1>1, Invariance, PTL

\* uint32_t_to_hex_str and hex_str_to_uint32_t: what is printed is read again as the
\* same number, for any number of digits.
THEOREM HashesReadBack ==
    ASSUME NEW v \in 0 .. UintMax
    PROVE  HexStrToUint(UintToHexStr(v)) = {v}
  BY PrintedIsRead
=============================================================================
