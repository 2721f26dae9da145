---------------------------- MODULE MaskNamingProofs ----------------------------
(***************************************************************************)
(* The overloads by name and the naming of several masks, for every        *)
(* manifest, every list of names or hashes, every order of the hash map    *)
(* and every argument from Python.                                         *)
(*                                                                         *)
(* The inductive invariant IInv follows the call: what is asked for once   *)
(* the argument is dispatched (NamesAsked), that each hash looked up so    *)
(* far is the manifest's for its name (HashesFound), and that the result   *)
(* so far names exactly the keys that are not pending (MasksNamed).        *)
(***************************************************************************)
EXTENDS MaskNaming, FiniteSetTheorems, TLAPS

OneMask == {"mask(name)", "mask(hash)"}

ArgumentOK ==
    /\ \/ argument = {}
       \/ \E items \in SeqExt!BoundedSeq(Items, MaxArguments) : argument = {items}
    /\ ~python => argument = {}

\* Which calls get where.
Phases ==
    /\ pc = "dispatch" => python /\ call \in {"mask", "masks"} /\ names = <<>> /\ hashes = <<>>
    /\ pc \in {"begin", "lookup", "threw"} => call \in ByName
    /\ pc \in {"decode", "name"} => call \in {"masks(names)", "masks(hashes)", "masks()"}
    /\ pc \notin {"dispatch", "TypeError"} => call \notin {"mask", "masks"}
    /\ pc = "begin" => hashes = <<>>

\* Once dispatched, the names are those of the argument.
NamesAsked ==
    /\ Len(names) <= MaxArguments
    /\ pc \notin {"dispatch", "TypeError"} /\ call \in ByName =>
          Asked = names /\ (~python \/ \E items \in argument : AllOf("str", items))

Found(j) == \E i \in DOMAIN manifest : manifest[i] = <<names[j], hashes[j]>>

HashesFound ==
    /\ pc = "lookup" => present /\ Len(hashes) <= Len(names) /\ \A j \in DOMAIN hashes : Found(j)
    /\ pc \in {"decode", "name", "returned"} /\ call \in ByName =>
          present /\ Len(hashes) = Len(names) /\ \A j \in DOMAIN names : Found(j)
    /\ pc = "threw" => ~present \/ \E j \in DOMAIN names : ~Contains(names[j])
    /\ pc = "TypeError" =>
          \E items \in argument : \E i, j \in DOMAIN items :
              items[i].type = "other" \/ items[i].type # items[j].type

MasksNamed ==
    /\ pc \notin {"name", "returned"} \/ call \in OneMask => keys = {} /\ out = <<>>
    /\ pc = "returned" => keys = {}
    /\ keys \subseteq Inserted(hashes)
    /\ pc \in {"name", "returned"} /\ call \notin OneMask =>
          \A h \in Inserted(hashes) \ keys : NameOf(h) \in DOMAIN out
    /\ \A n \in DOMAIN out : \E g \in Inserted(hashes) \ keys : out[n] = g /\ n = NameOf(g)

IInv ==
    /\ TypeOK
    /\ manifest \in Manifests
    /\ ArgumentOK
    /\ Phases
    /\ NamesAsked
    /\ HashesFound
    /\ MasksNamed

-----------------------------------------------------------------------------
(* Lists, and the first and last of some places in a list.                     *)

LEMMA BoundedLists ==
    ASSUME NEW S, NEW n \in Nat, NEW s \in SeqExt!BoundedSeq(S, n)
    PROVE  s \in Seq(S) /\ Len(s) <= n
<1>1. PICK m \in 0 .. n : s \in [1 .. m -> S]
  BY DEF SeqExt!BoundedSeq, SeqExt!SeqOf
<1>2. s \in Seq(S) /\ Len(s) = m
  BY <1>1
<1> QED BY <1>2

LEMMA OneElementLists ==
    ASSUME NEW S, NEW n \in Nat \ {0}
    PROVE  /\ [{1} -> S] \subseteq SeqExt!BoundedSeq(S, n)
           /\ \A e \in S : <<e>> \in SeqExt!BoundedSeq(S, n)
<1>1. {1} = 1 .. 1 /\ 1 \in 0 .. n
  OBVIOUS
<1>2. \A s \in [{1} -> S] : s \in SeqExt!BoundedSeq(S, n)
  BY <1>1 DEF SeqExt!BoundedSeq, SeqExt!SeqOf
<1>3. ASSUME NEW e \in S PROVE <<e>> \in SeqExt!BoundedSeq(S, n)
  <2>1. <<e>> \in [1 .. 1 -> S] /\ 1 \in 0 .. n
    OBVIOUS
  <2> QED BY <2>1 DEF SeqExt!BoundedSeq, SeqExt!SeqOf
<1> QED BY <1>2, <1>3

\* A finite set of integers that is not empty has a largest element.
LEMMA LargestExists ==
    ASSUME NEW S \in SUBSET Int, IsFiniteSet(S), S # {}
    PROVE  \E m \in S : \A y \in S : m >= y
<1> DEFINE From(x) == {y \in S : y >= x}
           T == {From(x) : x \in S}
<1>1. T \subseteq FiniteSubsetsOf(S) /\ T # {}
  <2>1. \A x \in S : From(x) \in SUBSET S
    OBVIOUS
  <2> HIDE DEF From
  <2>2. \A x \in S : IsFiniteSet(From(x))
    BY <2>1, FS_Subset
  <2> QED BY <2>1, <2>2 DEF FiniteSubsetsOf
<1>2. PICK U \in T : \A V \in T : <<V, U>> \notin StrictSubsetOrdering(S)
  BY <1>1, FS_StrictSubsetOrderingWellFounded, WFMin
<1>3. PICK x \in S : U = From(x)
  BY <1>2
<1>4. ASSUME NEW y \in S, ~(x >= y) PROVE FALSE
  <2>a. x \in Int /\ y \in Int /\ \A z \in S : z \in Int
    OBVIOUS
  <2>b. y > x
    BY <2>a, <1>4
  <2>0. x \in Int /\ y \in Int /\ y > x /\ \A z \in S : z \in Int
    BY <2>a, <2>b
  <2>1. x >= x /\ \A z \in S : z >= y => z >= x
    BY <2>0
  <2> HIDE DEF T
  <2>2. x \in From(x) /\ x \notin From(y) /\ From(y) \subseteq From(x)
    BY <1>3, <1>4, <2>1
  <2>3. From(y) \in T /\ From(y) \in SUBSET S /\ U \in SUBSET S
    BY <1>3 DEF T
  <2> HIDE DEF From
  <2>4. <<From(y), U>> \in StrictSubsetOrdering(S)
    BY <1>3, <2>2, <2>3 DEF StrictSubsetOrdering
  <2> QED BY <1>2, <2>3, <2>4
<1> QED BY <1>3, <1>4

LEMMA PlacesExtremes ==
    ASSUME NEW n \in Nat, NEW S \in SUBSET (1 .. n), S # {}
    PROVE  /\ Max(S) \in S /\ \A y \in S : Max(S) >= y
           /\ Min(S) \in S /\ \A y \in S : Min(S) <= y
<1>1. ASSUME NEW T \in SUBSET (1 .. n), T # {}
      PROVE  \E m \in T : \A y \in T : m >= y
  <2>1. 1 \in Int /\ n \in Int
    OBVIOUS
  <2>2. IsFiniteSet(1 .. n)
    BY <2>1, FS_Interval
  <2>3. IsFiniteSet(T)
    BY <2>2, FS_Subset
  <2>4. T \in SUBSET Int
    OBVIOUS
  <2> QED BY <1>1, <2>3, <2>4, LargestExists
<1>2. \E m \in S : \A y \in S : m >= y
  BY <1>1
<1>3. \E m \in S : \A y \in S : m <= y
  <2> DEFINE T == {(n + 1) - y : y \in S}
  <2>1. \A y \in S : y \in Int /\ (n + 1) - y \in 1 .. n
    OBVIOUS
  <2>2. T \in SUBSET (1 .. n) /\ T # {}
    BY <2>1
  <2>3. PICK t \in T : \A y \in T : t >= y
    BY <1>1, <2>2
  <2>4. PICK m \in S : t = (n + 1) - m
    OBVIOUS
  <2>5. \A y \in S : (n + 1) - m >= (n + 1) - y
    BY <2>3, <2>4
  <2>6. \A y \in S : m <= y
    BY <2>1, <2>5
  <2> QED BY <2>6
<1> QED BY <1>2, <1>3 DEF Max, Min

-----------------------------------------------------------------------------
(* Hashes, keys and names.                                                     *)

LEMMA SameIsEquality ==
    /\ \A h : Same(h, h)
    /\ \A g, h : Same(g, h) => Same(h, g)
    /\ \A f, g, h : Same(f, g) /\ Same(g, h) => Same(f, h)
BY DEF Same

\* The map holds each float once, and has a key for every hash inserted.
LEMMA InsertedFacts ==
    ASSUME NEW hs \in Seq(Hashes)
    PROVE  /\ Inserted(hs) \subseteq Hashes
           /\ \A g, h \in Inserted(hs) : Same(g, h) => g = h
           /\ \A h \in Inserted(hs) : \E j \in DOMAIN hs : h = hs[j]
           /\ \A j \in DOMAIN hs : \E h \in Inserted(hs) : Same(h, hs[j])
<1>0. Len(hs) \in Nat /\ DOMAIN hs = 1 .. Len(hs) /\ \A j \in DOMAIN hs : hs[j] \in Hashes
  OBVIOUS
<1> DEFINE Firsts == {k \in DOMAIN hs : \A i \in 1 .. k - 1 : ~Same(hs[i], hs[k])}
<1>1. Inserted(hs) = {hs[j] : j \in Firsts}
  BY DEF Inserted
<1>2. ASSUME NEW j \in Firsts, NEW k \in Firsts, Same(hs[j], hs[k]) PROVE hs[j] = hs[k]
  <2>1. j \in 1 .. Len(hs) /\ k \in 1 .. Len(hs)
    BY <1>0
  <2>2. ~(j < k)
    <3>1. j < k => j \in 1 .. k - 1
      BY <2>1
    <3> QED BY <1>2, <3>1
  <2>3. ~(k < j)
    <3>1. k < j => k \in 1 .. j - 1
      BY <2>1
    <3> QED BY <1>2, <3>1, SameIsEquality
  <2> QED BY <2>1, <2>2, <2>3
<1>3. ASSUME NEW j \in DOMAIN hs PROVE \E k \in Firsts : Same(hs[k], hs[j])
  <2> DEFINE Alike == {k \in DOMAIN hs : Same(hs[k], hs[j])}
  <2>1. Alike \in SUBSET (1 .. Len(hs)) /\ Alike # {}
    BY <1>0, SameIsEquality
  <2> DEFINE k == Min(Alike)
  <2>2. k \in Alike /\ \A y \in Alike : k <= y
    BY <1>0, <2>1, PlacesExtremes
  <2>3. k \in DOMAIN hs /\ k \in 1 .. Len(hs) /\ Same(hs[k], hs[j])
    BY <1>0, <2>2
  <2>4. ASSUME NEW i \in 1 .. k - 1, Same(hs[i], hs[k]) PROVE FALSE
    <3>1. i \in DOMAIN hs /\ ~(k <= i)
      BY <1>0, <2>3
    <3>2. i \in Alike
      BY <2>3, <2>4, <3>1, SameIsEquality
    <3> QED BY <2>2, <3>1, <3>2
  <2> HIDE DEF k, Alike
  <2> QED BY <2>3, <2>4
<1> HIDE DEF Firsts
<1>4. Firsts \subseteq DOMAIN hs
  BY DEF Firsts
<1>5. Inserted(hs) \subseteq Hashes
  BY <1>0, <1>1, <1>4
<1>6. \A g, h \in Inserted(hs) : Same(g, h) => g = h
  BY <1>1, <1>2
<1>7. \A h \in Inserted(hs) : \E j \in DOMAIN hs : h = hs[j]
  BY <1>1, <1>4
<1>8. \A j \in DOMAIN hs : \E h \in Inserted(hs) : Same(h, hs[j])
  BY <1>1, <1>3
<1> QED BY <1>5, <1>6, <1>7, <1>8

\* The name of a key: its hex string, or what an entry of the manifest says.
LEMMA NameOfFacts ==
    ASSUME TypeOK, NEW h \in Hashes
    PROVE  /\ NameOf(h) \in Names
           /\ \/ EntriesFor(h) = {} /\ NameOf(h) = Hex[h]
              \/ \E j \in EntriesFor(h) : NameOf(h) = manifest[j][1]
<1>1. CASE EntriesFor(h) = {}
  BY <1>1, NamingAssumption DEF NameOf
<1>2. CASE EntriesFor(h) # {}
  <2>1. /\ Len(manifest) \in Nat /\ DOMAIN manifest = 1 .. Len(manifest)
        /\ \A j \in DOMAIN manifest : manifest[j][1] \in Names
    BY DEF TypeOK
  <2>2. EntriesFor(h) \in SUBSET (1 .. Len(manifest))
    BY <2>1 DEF EntriesFor
  <2>3. Max(EntriesFor(h)) \in EntriesFor(h)
    BY <1>2, <2>1, <2>2, PlacesExtremes
  <2>4. NameOf(h) = manifest[Max(EntriesFor(h))][1]
    BY <1>2 DEF NameOf
  <2> QED BY <2>1, <2>2, <2>3, <2>4
<1> QED BY <1>1, <1>2

\* The hash the manifest gives to a name it contains.
LEMMA HashFacts ==
    ASSUME TypeOK, NEW n, Contains(n)
    PROVE  Hash(n) \in Hashes /\ \E i \in DOMAIN manifest : manifest[i] = <<n, Hash(n)>>
<1> DEFINE Places == {j \in DOMAIN manifest : manifest[j][1] = n}
<1>1. /\ Len(manifest) \in Nat /\ DOMAIN manifest = 1 .. Len(manifest)
      /\ \A j \in DOMAIN manifest : manifest[j] \in Names \X Hashes
  BY DEF TypeOK
<1>2. Places \in SUBSET (1 .. Len(manifest)) /\ Places # {}
  BY <1>1 DEF Contains
<1>3. Min(Places) \in Places
  BY <1>1, <1>2, PlacesExtremes
<1>4. Hash(n) = manifest[Min(Places)][2]
  BY DEF Hash
<1> DEFINE first == Min(Places)
<1>5. first \in DOMAIN manifest /\ manifest[first][1] = n
  BY <1>3
<1>6. Hash(n) = manifest[first][2]
  BY <1>4
<1> HIDE DEF Places, first
<1>7. manifest[first] \in Names \X Hashes
  BY <1>1, <1>5
<1>8. manifest[first] = <<manifest[first][1], manifest[first][2]>> /\ manifest[first][2] \in Hashes
  BY <1>7
<1> QED BY <1>5, <1>6, <1>8

-----------------------------------------------------------------------------
(* Every initial state satisfies the invariant, and every step preserves it.   *)

LEMMA InitIInv == Init => IInv
<1> SUFFICES ASSUME Init PROVE IInv
  OBVIOUS
<1>0. MaxArguments \in Nat \ {0} /\ MaxManifest \in Nat
  BY NamingAssumption
<1>1. /\ manifest \in Manifests /\ manifest \in Seq(Names \X Hashes) /\ present \in BOOLEAN
      /\ keys = {} /\ out = <<>>
  <2>1. manifest \in SeqExt!BoundedSeq(Names \X Hashes, MaxManifest)
    BY DEF Init, Manifests
  <2>2. manifest \in Seq(Names \X Hashes)
    BY <1>0, <2>1, BoundedLists
  <2> QED BY <2>2 DEF Init
<1>2. CASE InitCpp
  <2>0. /\ python = FALSE /\ argument = {} /\ pc = IF call \in ByName THEN "begin" ELSE "decode"
        /\ call \in ByName \cup {"masks(hashes)", "masks()"}
        /\ call \in ByName => hashes = <<>>
    BY <1>2 DEF InitCpp, ByName
  <2>1. names \in SeqExt!BoundedSeq(Names, MaxArguments)
    <3>1. <<>> \in SeqExt!BoundedSeq(Names, MaxArguments)
      BY <1>0 DEF SeqExt!BoundedSeq, SeqExt!SeqOf
    <3> QED BY <1>0, <1>2, <3>1, OneElementLists DEF InitCpp
  <2>2. hashes \in SeqExt!BoundedSeq(Hashes, MaxArguments)
    <3>1. <<>> \in SeqExt!BoundedSeq(Hashes, MaxArguments)
      BY <1>0 DEF SeqExt!BoundedSeq, SeqExt!SeqOf
    <3>2. Ids \subseteq SeqExt!BoundedSeq(Hashes, MaxArguments)
      BY <1>0 DEF Ids, SeqExt!BoundedSeq, SeqExt!SeqOf
    <3> QED BY <1>2, <3>1, <3>2 DEF InitCpp
  <2>3. /\ names \in Seq(Names) /\ Len(names) <= MaxArguments
        /\ hashes \in Seq(Hashes) /\ Len(hashes) <= MaxArguments
    BY <1>0, <2>1, <2>2, BoundedLists
  <2>4. Asked = names
    BY <2>0 DEF Asked
  <2>5. TypeOK
    <3>1. DOMAIN out \subseteq Names /\ keys \subseteq Hashes /\ \A g, h \in keys : Same(g, h) => g = h
      BY <1>1
    <3>2. pc \in {"begin", "decode"}
      BY <2>0
    <3> QED BY <1>1, <2>0, <2>3, <3>1, <3>2 DEF TypeOK
  <2>6. ArgumentOK /\ Phases /\ NamesAsked
    BY <2>0, <2>3, <2>4 DEF ArgumentOK, Phases, NamesAsked, ByName
  <2>7. HashesFound /\ MasksNamed
    BY <1>1, <2>0 DEF HashesFound, MasksNamed, OneMask
  <2> QED BY <1>1, <2>5, <2>6, <2>7 DEF IInv
<1>3. CASE InitPython
  <2>0. /\ python = TRUE /\ call \in {"mask", "masks"} /\ names = <<>> /\ hashes = <<>>
        /\ pc = "dispatch"
    BY <1>3 DEF InitPython
  <2>1. argument = {} \/ \E items \in SeqExt!BoundedSeq(Items, MaxArguments) : argument = {items}
    BY <1>0, <1>3, OneElementLists DEF InitPython
  <2>2. \A items \in argument : items \in Seq(Items)
    BY <1>0, <2>1, BoundedLists
  <2>3. names \in Seq(Names) /\ Len(names) = 0 /\ hashes \in Seq(Hashes) /\ Len(hashes) = 0
    BY <2>0
  <2>4. TypeOK
    BY <1>0, <1>1, <2>0, <2>2, <2>3 DEF TypeOK
  <2>5. ArgumentOK /\ Phases /\ NamesAsked
    BY <1>0, <2>0, <2>1, <2>3 DEF ArgumentOK, Phases, NamesAsked, ByName
  <2>6. HashesFound /\ MasksNamed
    BY <1>1, <2>0 DEF HashesFound, MasksNamed, OneMask
  <2> QED BY <1>1, <2>4, <2>5, <2>6 DEF IInv
<1> QED BY <1>2, <1>3 DEF Init

\* The values of a list of strings, or of integers.
LEMMA ValuesOf ==
    ASSUME NEW items \in SeqExt!BoundedSeq(Items, MaxArguments)
    PROVE  /\ AllOf("str", items) => Values(items) \in Seq(Names) /\ Len(Values(items)) <= MaxArguments
           /\ AllOf("int", items) => Values(items) \in Seq(Hashes) /\ Len(Values(items)) <= MaxArguments
<1>1. items \in Seq(Items) /\ Len(items) <= MaxArguments
  BY BoundedLists, NamingAssumption
<1>2. /\ Values(items) = [j \in 1 .. Len(items) |-> items[j].value] /\ Len(items) \in Nat
      /\ DOMAIN items = 1 .. Len(items)
  BY <1>1 DEF Values
<1>3. \A j \in 1 .. Len(items) :
          /\ items[j].type = "str" => items[j].value \in Names
          /\ items[j].type = "int" => items[j].value \in Hashes
  <2> TAKE j \in 1 .. Len(items)
  <2>1. items[j] \in Items
    BY <1>1
  <2> QED BY <2>1 DEF Items
<1>4. AllOf("str", items) => Values(items) \in [1 .. Len(items) -> Names]
  BY <1>2, <1>3 DEF AllOf
<1>5. AllOf("int", items) => Values(items) \in [1 .. Len(items) -> Hashes]
  BY <1>2, <1>3 DEF AllOf
<1>6. ASSUME NEW S, NEW n \in Nat, NEW s \in [1 .. n -> S] PROVE s \in Seq(S) /\ Len(s) = n
  OBVIOUS
<1> QED BY <1>1, <1>2, <1>4, <1>5, <1>6

LEMMA DispatchNamesIInv == IInv /\ DispatchNames => IInv'
<1> SUFFICES ASSUME IInv, DispatchNames PROVE IInv'
  OBVIOUS
<1> USE DEF IInv
<1>1. PICK items \in SeqExt!BoundedSeq(Items, MaxArguments) :
         argument = {items} /\ AllOf("str", items) /\ names' = Values(items)
  BY DEF DispatchNames, ArgumentOK
<1>2. names' \in Seq(Names) /\ Len(names') <= MaxArguments
  BY <1>1, ValuesOf
<1>3. /\ UNCHANGED <<manifest, present, python, argument, hashes, keys, out>>
      /\ pc = "dispatch" /\ pc' = "begin" /\ call' \in ByName /\ python /\ hashes = <<>>
      /\ keys = {} /\ out = <<>>
  BY DEF DispatchNames, object, ByName, Phases, MasksNamed
<1>4. Asked' = names'
  BY <1>1, <1>3 DEF Asked
<1>5. TypeOK'
  BY <1>2, <1>3 DEF TypeOK
<1>6. ArgumentOK' /\ Phases' /\ NamesAsked'
  BY <1>1, <1>2, <1>3, <1>4 DEF ArgumentOK, Phases, NamesAsked, ByName
<1>7. HashesFound' /\ MasksNamed'
  BY <1>3 DEF HashesFound, MasksNamed, Inserted
<1> QED BY <1>3, <1>5, <1>6, <1>7 DEF Manifests

LEMMA DispatchHashesIInv == IInv /\ DispatchHashes => IInv'
<1> SUFFICES ASSUME IInv, DispatchHashes PROVE IInv'
  OBVIOUS
<1> USE DEF IInv
<1>1. PICK items \in SeqExt!BoundedSeq(Items, MaxArguments) :
         argument = {items} /\ AllOf("int", items) /\ hashes' = Values(items)
  BY DEF DispatchHashes, ArgumentOK
<1>2. hashes' \in Seq(Hashes) /\ Len(hashes') <= MaxArguments
  BY <1>1, ValuesOf
<1>3. /\ UNCHANGED <<manifest, present, python, argument, names, keys, out>>
      /\ pc = "dispatch" /\ python /\ keys = {} /\ out = <<>>
      /\ \/ call' = "mask(hash)" /\ pc' = "returned"
         \/ call' = "masks(hashes)" /\ pc' = "decode"
  BY DEF DispatchHashes, object, Phases, MasksNamed
<1>4. TypeOK'
  BY <1>2, <1>3 DEF TypeOK
<1>5. ArgumentOK' /\ Phases' /\ NamesAsked'
  BY <1>3 DEF ArgumentOK, Phases, NamesAsked, ByName
<1>6. HashesFound' /\ MasksNamed'
  BY <1>3 DEF HashesFound, MasksNamed, OneMask, ByName
<1> QED BY <1>3, <1>4, <1>5, <1>6 DEF Manifests

LEMMA DispatchNoneIInv == IInv /\ DispatchNone => IInv'
<1> SUFFICES ASSUME IInv, DispatchNone PROVE IInv'
  OBVIOUS
<1> USE DEF IInv
<1>1. hashes' \in Seq(Hashes) /\ Len(hashes') <= MaxArguments
  <2>1. hashes' \in SeqExt!BoundedSeq(Hashes, MaxArguments)
    BY NamingAssumption DEF DispatchNone, Ids, SeqExt!BoundedSeq, SeqExt!SeqOf
  <2> QED BY <2>1, BoundedLists, NamingAssumption
<1>2. /\ UNCHANGED <<manifest, present, python, argument, names, keys, out>>
      /\ pc = "dispatch" /\ python /\ keys = {} /\ out = <<>>
      /\ call' = "masks()" /\ pc' = "decode"
  BY DEF DispatchNone, object, Phases, MasksNamed
<1>3. TypeOK'
  BY <1>1, <1>2 DEF TypeOK
<1>4. ArgumentOK' /\ Phases' /\ NamesAsked'
  BY <1>2 DEF ArgumentOK, Phases, NamesAsked, ByName
<1>5. HashesFound' /\ MasksNamed'
  BY <1>2 DEF HashesFound, MasksNamed, OneMask, ByName
<1> QED BY <1>2, <1>3, <1>4, <1>5 DEF Manifests

LEMMA RaiseTypeErrorIInv == IInv /\ RaiseTypeError => IInv'
<1> SUFFICES ASSUME IInv, RaiseTypeError PROVE IInv'
  OBVIOUS
<1> USE DEF IInv
<1>1. PICK items \in argument : ~AllOf("str", items) /\ ~AllOf("int", items)
  BY DEF RaiseTypeError
<1>2. /\ UNCHANGED <<manifest, present, python, argument, call, names, hashes, keys, out>>
      /\ pc = "dispatch" /\ pc' = "TypeError" /\ keys = {} /\ out = <<>>
  BY DEF RaiseTypeError, input, object, MasksNamed
<1>3. \E i, j \in DOMAIN items : items[i].type = "other" \/ items[i].type # items[j].type
  <2>1. PICK i \in DOMAIN items : items[i].type # "str"
    BY <1>1 DEF AllOf
  <2>2. PICK j \in DOMAIN items : items[j].type # "int"
    BY <1>1 DEF AllOf
  <2>3. items[i] \in Items /\ items[j] \in Items
    BY <1>1, <2>1, <2>2 DEF TypeOK
  <2>4. items[i].type \in {"str", "int", "other"} /\ items[j].type \in {"str", "int", "other"}
    BY <2>3 DEF Items
  <2> QED BY <2>1, <2>2, <2>4
<1>4. TypeOK' /\ ArgumentOK' /\ Phases' /\ NamesAsked'
  BY <1>2 DEF TypeOK, ArgumentOK, Phases, NamesAsked
<1>5. HashesFound' /\ MasksNamed'
  BY <1>1, <1>2, <1>3 DEF HashesFound, MasksNamed
<1> QED BY <1>2, <1>4, <1>5 DEF Manifests

LEMMA CheckManifestIInv == IInv /\ CheckManifest => IInv'
<1> SUFFICES ASSUME IInv, CheckManifest PROVE IInv'
  OBVIOUS
<1> USE DEF IInv
<1>1. /\ UNCHANGED <<manifest, present, python, argument, call, names, hashes, keys, out>>
      /\ pc = "begin" /\ pc' = (IF present THEN "lookup" ELSE "threw") /\ hashes = <<>>
      /\ call \in ByName /\ keys = {} /\ out = <<>>
  BY DEF CheckManifest, input, object, Phases, MasksNamed
<1>2. TypeOK' /\ ArgumentOK' /\ Phases'
  BY <1>1 DEF TypeOK, ArgumentOK, Phases
<1>3. NamesAsked'
  <2>1. Asked' = Asked
    BY <1>1 DEF Asked
  <2> QED BY <1>1, <2>1 DEF NamesAsked
<1>4. HashesFound'
  <2>1. Len(names) \in Nat /\ Len(hashes) = 0 /\ DOMAIN hashes = {}
    BY <1>1 DEF TypeOK
  <2> QED BY <1>1, <2>1 DEF HashesFound
<1>5. MasksNamed'
  BY <1>1 DEF MasksNamed, Inserted
<1> QED BY <1>1, <1>2, <1>3, <1>4, <1>5 DEF Manifests

LEMMA LookUpIInv == IInv /\ LookUp => IInv'
<1> SUFFICES ASSUME IInv, LookUp PROVE IInv'
  OBVIOUS
<1> USE DEF IInv
<1> DEFINE n == names[Position]
<1>1. /\ UNCHANGED <<manifest, present, python, argument, call, names, keys, out>>
      /\ pc = "lookup" /\ pc' = "lookup" /\ Position <= Len(names) /\ Contains(n)
      /\ hashes' = Append(hashes, Hash(n)) /\ keys = {} /\ out = <<>>
      /\ call \in ByName
  BY DEF LookUp, input, object, MasksNamed, Phases
<1>2. Hash(n) \in Hashes /\ \E i \in DOMAIN manifest : manifest[i] = <<n, Hash(n)>>
  BY <1>1, HashFacts
<1>3. /\ hashes' \in Seq(Hashes) /\ Len(hashes') = Len(hashes) + 1 /\ Len(hashes) \in Nat
      /\ hashes'[Len(hashes) + 1] = Hash(n)
      /\ \A j \in 1 .. Len(hashes) : hashes'[j] = hashes[j]
      /\ DOMAIN hashes = 1 .. Len(hashes) /\ DOMAIN hashes' = 1 .. Len(hashes) + 1
  BY <1>1, <1>2 DEF TypeOK
<1>4. Len(hashes') <= Len(names) /\ Len(names) <= MaxArguments /\ Len(names) \in Nat
  BY <1>1, <1>3 DEF Position, NamesAsked, TypeOK
<1>5. TypeOK'
  BY <1>1, <1>3, <1>4, NamingAssumption DEF TypeOK
<1>6. ArgumentOK' /\ Phases'
  BY <1>1 DEF ArgumentOK, Phases
<1>7. NamesAsked'
  <2>1. Asked' = Asked
    BY <1>1 DEF Asked
  <2> QED BY <1>1, <2>1 DEF NamesAsked
<1>8. HashesFound'
  <2> SUFFICES ASSUME NEW j \in DOMAIN hashes'
               PROVE  \E i \in DOMAIN manifest : manifest[i] = <<names[j], hashes'[j]>>
    BY <1>1, <1>4 DEF HashesFound, Found
  <2>1. CASE j = Len(hashes) + 1
    BY <1>2, <1>3, <2>1 DEF Position
  <2>2. CASE j # Len(hashes) + 1
    <3>1. j \in DOMAIN hashes /\ hashes'[j] = hashes[j]
      BY <1>3, <2>2
    <3> QED BY <1>1, <3>1 DEF HashesFound, Found
  <2> QED BY <2>1, <2>2
<1>9. MasksNamed'
  BY <1>1 DEF MasksNamed
<1> QED BY <1>1, <1>5, <1>6, <1>7, <1>8, <1>9 DEF Manifests

LEMMA LookUpFailsIInv == IInv /\ LookUpFails => IInv'
<1> SUFFICES ASSUME IInv, LookUpFails PROVE IInv'
  OBVIOUS
<1> USE DEF IInv
<1>1. /\ UNCHANGED <<manifest, present, python, argument, call, names, hashes, keys, out>>
      /\ pc = "lookup" /\ pc' = "threw" /\ Position <= Len(names) /\ ~Contains(names[Position])
      /\ call \in ByName /\ keys = {} /\ out = <<>>
  BY DEF LookUpFails, input, object, Phases, MasksNamed
<1>2. TypeOK' /\ ArgumentOK' /\ Phases'
  BY <1>1 DEF TypeOK, ArgumentOK, Phases
<1>3. NamesAsked'
  <2>1. Asked' = Asked
    BY <1>1 DEF Asked
  <2> QED BY <1>1, <2>1 DEF NamesAsked
<1>4. HashesFound'
  <2>1. Position \in DOMAIN names
    BY <1>1 DEF Position, TypeOK
  <2>2. PICK j \in DOMAIN names : ~Contains(names[j])
    BY <1>1, <2>1
  <2>3. ~Contains(names[j])'
    BY <1>1, <2>2 DEF Contains
  <2> QED BY <1>1, <2>2, <2>3 DEF HashesFound, Contains
<1>5. MasksNamed'
  BY <1>1 DEF MasksNamed, Inserted
<1> QED BY <1>1, <1>2, <1>3, <1>4, <1>5 DEF Manifests

LEMMA LookedUpIInv == IInv /\ LookedUp => IInv'
<1> SUFFICES ASSUME IInv, LookedUp PROVE IInv'
  OBVIOUS
<1> USE DEF IInv
<1>1. /\ UNCHANGED <<manifest, present, python, argument, call, names, hashes, keys, out>>
      /\ pc = "lookup" /\ pc' = (IF call = "mask(name)" THEN "returned" ELSE "decode")
      /\ Position > Len(names)
      /\ call \in ByName /\ keys = {} /\ out = <<>>
  BY DEF LookedUp, input, object, Phases, MasksNamed
<1>2. TypeOK' /\ ArgumentOK' /\ Phases'
  BY <1>1 DEF TypeOK, ArgumentOK, Phases, ByName
<1>3. NamesAsked'
  <2>1. Asked' = Asked
    BY <1>1 DEF Asked
  <2> QED BY <1>1, <2>1 DEF NamesAsked
<1>4. HashesFound'
  <2>1. Len(hashes) = Len(names) /\ DOMAIN hashes = DOMAIN names
    BY <1>1 DEF Position, TypeOK, HashesFound
  <2> QED BY <1>1, <2>1 DEF HashesFound, Found
<1>5. MasksNamed'
  BY <1>1 DEF MasksNamed, Inserted, OneMask, ByName
<1> QED BY <1>1, <1>2, <1>3, <1>4, <1>5 DEF Manifests

LEMMA DecodeIInv == IInv /\ Decode => IInv'
<1> SUFFICES ASSUME IInv, Decode PROVE IInv'
  OBVIOUS
<1> USE DEF IInv
<1>1. /\ UNCHANGED <<manifest, present, python, argument, call, names, hashes, out>>
      /\ pc = "decode" /\ pc' = "name" /\ keys' = Inserted(hashes)
      /\ call \notin OneMask /\ out = <<>>
  BY DEF Decode, input, object, Phases, MasksNamed, OneMask
<1>2. Inserted(hashes) \subseteq Hashes /\ \A g, h \in Inserted(hashes) : Same(g, h) => g = h
  BY InsertedFacts DEF TypeOK
<1>3. TypeOK' /\ ArgumentOK' /\ Phases'
  BY <1>1, <1>2 DEF TypeOK, ArgumentOK, Phases
<1>4. NamesAsked'
  <2>1. Asked' = Asked
    BY <1>1 DEF Asked
  <2> QED BY <1>1, <2>1 DEF NamesAsked
<1>5. HashesFound'
  BY <1>1 DEF HashesFound, Found
<1>6. MasksNamed'
  <2>1. Inserted(hashes)' = Inserted(hashes)
    BY <1>1
  <2> QED BY <1>1, <2>1 DEF MasksNamed
<1> QED BY <1>1, <1>3, <1>4, <1>5, <1>6 DEF Manifests

LEMMA NameMaskIInv == ASSUME NEW h \in Hashes PROVE IInv /\ NameMask(h) => IInv'
<1> SUFFICES ASSUME IInv, NameMask(h) PROVE IInv'
  OBVIOUS
<1> USE DEF IInv
<1>1. /\ UNCHANGED <<manifest, present, python, argument, call, names, hashes, pc>>
      /\ pc = "name" /\ h \in keys /\ keys' = keys \ {h} /\ keys \subseteq Inserted(hashes)
      /\ call \notin OneMask
      /\ out' = [n \in DOMAIN out \cup {NameOf(h)} |-> IF n = NameOf(h) THEN h ELSE out[n]]
  BY DEF NameMask, input, object, Phases, MasksNamed, OneMask
<1>2. NameOf(h) \in Names
  BY NameOfFacts
<1>3. TypeOK' /\ ArgumentOK' /\ Phases'
  <2>1. DOMAIN out' \subseteq Names
    BY <1>1, <1>2 DEF TypeOK
  <2> QED BY <1>1, <2>1 DEF TypeOK, ArgumentOK, Phases
<1>4. NamesAsked'
  <2>1. Asked' = Asked
    BY <1>1 DEF Asked
  <2> QED BY <1>1, <2>1 DEF NamesAsked
<1>5. HashesFound'
  BY <1>1 DEF HashesFound, Found
<1>6. MasksNamed'
  <2>1. Inserted(hashes)' = Inserted(hashes)
    BY <1>1
  <2>2. ASSUME NEW g PROVE NameOf(g)' = NameOf(g)
    BY <1>1 DEF NameOf, EntriesFor
  <2>3. ASSUME NEW g \in Inserted(hashes), g \notin keys'
        PROVE  NameOf(g)' \in DOMAIN out'
    <3>1. CASE g = h
      BY <1>1, <2>2, <3>1
    <3>2. CASE g # h
      <4>1. NameOf(g) \in DOMAIN out
        BY <1>1, <2>3, <3>2 DEF MasksNamed
      <4> QED BY <1>1, <2>2, <4>1
    <3> QED BY <3>1, <3>2
  <2>4. ASSUME NEW n \in DOMAIN out'
        PROVE  \E g \in Inserted(hashes) \ keys' : out'[n] = g /\ n = NameOf(g)'
    <3>1. CASE n = NameOf(h)
      <4>1. out'[n] = h /\ h \in Inserted(hashes) \ keys' /\ n = NameOf(h)'
        BY <1>1, <2>2, <3>1
      <4> QED BY <4>1
    <3>2. CASE n # NameOf(h)
      <4>1. n \in DOMAIN out /\ out'[n] = out[n]
        BY <1>1, <3>2
      <4>2. PICK g \in Inserted(hashes) \ keys : out[n] = g /\ n = NameOf(g)
        BY <4>1 DEF MasksNamed
      <4>3. n = NameOf(g)' /\ g \in Inserted(hashes) \ keys'
        BY <1>1, <2>2, <4>2
      <4> QED BY <4>1, <4>2, <4>3
    <3> QED BY <3>1, <3>2
  <2> QED BY <1>1, <2>1, <2>3, <2>4 DEF MasksNamed
<1> QED BY <1>1, <1>3, <1>4, <1>5, <1>6 DEF Manifests

LEMMA ReturnIInv == IInv /\ Return => IInv'
<1> SUFFICES ASSUME IInv, Return PROVE IInv'
  OBVIOUS
<1> USE DEF IInv
<1>1. /\ UNCHANGED <<manifest, present, python, argument, call, names, hashes, keys, out>>
      /\ pc = "name" /\ pc' = "returned" /\ keys = {}
  BY DEF Return, input, object
<1>2. TypeOK' /\ ArgumentOK' /\ Phases'
  BY <1>1 DEF TypeOK, ArgumentOK, Phases
<1>3. NamesAsked'
  <2>1. Asked' = Asked
    BY <1>1 DEF Asked
  <2> QED BY <1>1, <2>1 DEF NamesAsked
<1>4. HashesFound'
  BY <1>1 DEF HashesFound, Found
<1>5. MasksNamed'
  <2>1. Inserted(hashes)' = Inserted(hashes)
    BY <1>1
  <2>2. ASSUME NEW g PROVE NameOf(g)' = NameOf(g)
    BY <1>1 DEF NameOf, EntriesFor
  <2>3. ASSUME NEW g \in Inserted(hashes), g \notin keys', pc' \in {"name", "returned"}, call' \notin OneMask
        PROVE  NameOf(g)' \in DOMAIN out'
    BY <1>1, <2>2, <2>3 DEF MasksNamed
  <2>4. ASSUME NEW n \in DOMAIN out'
        PROVE  \E g \in Inserted(hashes) \ keys' : out'[n] = g /\ n = NameOf(g)'
    <3>1. PICK g \in Inserted(hashes) \ keys : out[n] = g /\ n = NameOf(g)
      BY <1>1, <2>4 DEF MasksNamed
    <3>2. n = NameOf(g)'
      BY <2>2, <3>1
    <3> QED BY <1>1, <3>1, <3>2
  <2> QED BY <1>1, <2>1, <2>3, <2>4 DEF MasksNamed
<1> QED BY <1>1, <1>2, <1>3, <1>4, <1>5 DEF Manifests

LEMMA StutterIInv == IInv /\ UNCHANGED vars => IInv'
<1> SUFFICES ASSUME IInv, UNCHANGED vars PROVE IInv'
  OBVIOUS
<1> USE DEF IInv
<1>1. UNCHANGED <<manifest, present, python, argument, call, names, pc, hashes, keys, out>>
  BY DEF vars, input, object
<1>2. TypeOK' /\ ArgumentOK' /\ Phases'
  BY <1>1 DEF TypeOK, ArgumentOK, Phases
<1>3. NamesAsked'
  <2>1. Asked' = Asked
    BY <1>1 DEF Asked
  <2> QED BY <1>1, <2>1 DEF NamesAsked
<1>4. HashesFound'
  BY <1>1 DEF HashesFound, Found, Contains
<1>5. MasksNamed'
  <2>1. Inserted(hashes)' = Inserted(hashes)
    BY <1>1
  <2>2. ASSUME NEW g PROVE NameOf(g)' = NameOf(g)
    BY <1>1 DEF NameOf, EntriesFor
  <2>3. ASSUME NEW g \in Inserted(hashes), g \notin keys', pc' \in {"name", "returned"}, call' \notin OneMask
        PROVE  NameOf(g)' \in DOMAIN out'
    BY <1>1, <2>2, <2>3 DEF MasksNamed
  <2>4. ASSUME NEW n \in DOMAIN out'
        PROVE  \E g \in Inserted(hashes) \ keys' : out'[n] = g /\ n = NameOf(g)'
    <3>1. PICK g \in Inserted(hashes) \ keys : out[n] = g /\ n = NameOf(g)
      BY <1>1, <2>4 DEF MasksNamed
    <3>2. n = NameOf(g)'
      BY <2>2, <3>1
    <3> QED BY <1>1, <3>1, <3>2
  <2> QED BY <1>1, <2>1, <2>3, <2>4 DEF MasksNamed
<1> QED BY <1>1, <1>2, <1>3, <1>4, <1>5 DEF Manifests

\* The invariant holds throughout every call.
LEMMA Invariance == Spec => []IInv
<1>1. IInv /\ [Next]_vars => IInv'
  BY DispatchNamesIInv, DispatchHashesIInv, DispatchNoneIInv, RaiseTypeErrorIInv,
     CheckManifestIInv, LookUpIInv, LookUpFailsIInv, LookedUpIInv, DecodeIInv, NameMaskIInv,
     ReturnIInv, StutterIInv
  DEF Next, Terminated
<1> QED BY <1>1, InitIInv, PTL DEF Spec

-----------------------------------------------------------------------------
(* An unambiguous manifest names the keys apart.                               *)

LEMMA NamesApart ==
    ASSUME IInv, Unambiguous, NEW g \in Inserted(hashes), NEW h \in Inserted(hashes),
           NameOf(g) = NameOf(h)
    PROVE  g = h
<1>1. TypeOK /\ hashes \in Seq(Hashes)
  BY DEF IInv, TypeOK
<1>2. g \in Hashes /\ h \in Hashes /\ (Same(g, h) => g = h)
  BY <1>1, InsertedFacts
<1>3. \A i, j \in DOMAIN manifest : manifest[i][1] = manifest[j][1] => i = j
  BY DEF IInv, Manifests
<1>4. ASSUME NEW e \in Hashes, NEW f \in Hashes, NEW j \in EntriesFor(e), EntriesFor(f) = {},
             manifest[j][1] = Hex[f]
      PROVE  FALSE
  <2>1. j \in DOMAIN manifest
    BY DEF EntriesFor
  <2>2. Same(manifest[j][2], f)
    BY <1>4, <2>1 DEF Unambiguous
  <2> QED BY <1>4, <2>1, <2>2 DEF EntriesFor
<1>5. CASE EntriesFor(g) = {} /\ EntriesFor(h) = {}
  <2>1. Hex[g] = Hex[h]
    BY <1>1, <1>2, <1>5, NameOfFacts
  <2> QED BY <1>2, <2>1, NamingAssumption
<1>6. CASE EntriesFor(g) # {} /\ EntriesFor(h) # {}
  <2>1. PICK i \in EntriesFor(g) : NameOf(g) = manifest[i][1]
    BY <1>1, <1>2, <1>6, NameOfFacts
  <2>2. PICK j \in EntriesFor(h) : NameOf(h) = manifest[j][1]
    BY <1>1, <1>2, <1>6, NameOfFacts
  <2>3. i = j
    BY <1>3, <2>1, <2>2 DEF EntriesFor
  <2> QED BY <1>2, <2>3, SameIsEquality DEF EntriesFor
<1>7. CASE EntriesFor(g) # {} /\ EntriesFor(h) = {}
  <2>1. PICK i \in EntriesFor(g) : NameOf(g) = manifest[i][1]
    BY <1>1, <1>2, <1>7, NameOfFacts
  <2>2. NameOf(h) = Hex[h]
    BY <1>1, <1>2, <1>7, NameOfFacts
  <2> QED BY <1>2, <1>4, <1>7, <2>1, <2>2
<1>8. CASE EntriesFor(g) = {} /\ EntriesFor(h) # {}
  <2>1. PICK i \in EntriesFor(h) : NameOf(h) = manifest[i][1]
    BY <1>1, <1>2, <1>8, NameOfFacts
  <2>2. NameOf(g) = Hex[g]
    BY <1>1, <1>2, <1>8, NameOfFacts
  <2> QED BY <1>2, <1>4, <1>8, <2>1, <2>2
<1> QED BY <1>5, <1>6, <1>7, <1>8

\* There, a key like the hash of an entry gets the entry's name.
LEMMA EntryNames ==
    ASSUME IInv, Unambiguous, NEW i \in DOMAIN manifest, NEW h \in Hashes, Same(h, manifest[i][2])
    PROVE  NameOf(h) = manifest[i][1]
<1>1. i \in EntriesFor(h)
  BY SameIsEquality DEF EntriesFor
<1>2. PICK j \in EntriesFor(h) : NameOf(h) = manifest[j][1]
  BY <1>1, NameOfFacts DEF IInv
<1>3. j \in DOMAIN manifest /\ Same(manifest[j][2], h)
  BY <1>2 DEF EntriesFor
<1>4. Same(manifest[j][2], manifest[i][2])
  BY <1>3, SameIsEquality
<1>5. i = j
  BY <1>3, <1>4 DEF Unambiguous
<1> QED BY <1>2, <1>5

-----------------------------------------------------------------------------
(* The properties the runs check.                                              *)

\* Every variable keeps its type; no two keys of the map of masks are the same
\* float.
THEOREM TypeCorrect == Spec => []TypeOK
<1>1. IInv => TypeOK
  BY DEF IInv
<1> QED BY <1>1, Invariance, PTL

\* A call by name throws exactly when there is no manifest or a name is not in it,
\* and otherwise decodes the manifest's hash for each of its names, in order; from
\* Python the argument decides which overload that is.
THEOREM UnknownNamesThrow == Spec => []ThrowsOnUnknown
<1>1. IInv => ThrowsOnUnknown
  <2> SUFFICES ASSUME IInv PROVE ThrowsOnUnknown
    OBVIOUS
  <2> USE DEF IInv
  <2>1. ASSUME pc \in {"threw", "decode", "name", "returned"}, call \in ByName
        PROVE  Asked = names /\ (~python \/ \E items \in argument : AllOf("str", items))
    BY <2>1 DEF NamesAsked
  <2>2. ASSUME pc = "threw"
        PROVE  call \in ByName /\ ~(present /\ \A j \in DOMAIN Asked : Contains(Asked[j]))
    <3>1. call \in ByName
      BY <2>2 DEF Phases
    <3> QED BY <2>1, <2>2, <3>1 DEF HashesFound
  <2>3. ASSUME pc \in {"decode", "name", "returned"}, call \in ByName
        PROVE  /\ present /\ Len(hashes) = Len(Asked)
               /\ \A j \in DOMAIN Asked :
                     \E i \in DOMAIN manifest : manifest[i] = <<Asked[j], hashes[j]>>
    BY <2>1, <2>3 DEF HashesFound, Found
  <2>4. ASSUME pc \in {"decode", "name", "returned"}, call \in ByName, NEW j \in DOMAIN Asked
        PROVE  Contains(Asked[j])
    <3>1. PICK i \in DOMAIN manifest : manifest[i] = <<Asked[j], hashes[j]>>
      BY <2>3, <2>4
    <3> QED BY <3>1 DEF Contains
  <2>5. pc = "TypeError" =>
           \E items \in argument : \E i, j \in DOMAIN items :
               items[i].type = "other" \/ items[i].type # items[j].type
    BY DEF HashesFound
  <2> QED BY <2>1, <2>2, <2>3, <2>4, <2>5 DEF ThrowsOnUnknown
<1> QED BY <1>1, Invariance, PTL

\* Whatever collides in the manifest, no mask is returned under another object's
\* name.
THEOREM NamesTrue == Spec => []NoMislabelledMask
<1>1. IInv => NoMislabelledMask
  <2> SUFFICES ASSUME IInv, NEW n \in DOMAIN out
               PROVE  \/ n = Hex[out[n]] /\ \A j \in DOMAIN manifest : ~Same(manifest[j][2], out[n])
                      \/ \E j \in DOMAIN manifest : manifest[j][1] = n /\ Same(manifest[j][2], out[n])
    BY DEF NoMislabelledMask
  <2>1. out[n] \in Hashes /\ n = NameOf(out[n])
    BY InsertedFacts DEF IInv, MasksNamed, TypeOK
  <2> QED BY <2>1, NameOfFacts DEF IInv, EntriesFor
<1> QED BY <1>1, Invariance, PTL

\* With an unambiguous manifest every mask keeps its entry through the renaming,
\* and masks(names) answers exactly the names asked for.
THEOREM MasksAllNamed == Spec => []EachMaskNamed
<1>1. IInv => EachMaskNamed
  <2> SUFFICES ASSUME IInv, Unambiguous PROVE EachMaskNamed
    BY DEF EachMaskNamed
  <2> USE DEF IInv
  <2>1. ASSUME NEW h \in Inserted(hashes) \ keys, pc \in {"name", "returned"}, call \notin OneMask
        PROVE  NameOf(h) \in DOMAIN out /\ out[NameOf(h)] = h
    <3>1. NameOf(h) \in DOMAIN out
      BY <2>1 DEF MasksNamed
    <3>2. out[NameOf(h)] \in Inserted(hashes) /\ NameOf(out[NameOf(h)]) = NameOf(h)
      BY <3>1 DEF MasksNamed
    <3> QED BY <3>1, <3>2, NamesApart
  <2>2. ASSUME pc = "returned", call = "masks(names)"
        PROVE  DOMAIN out = {Asked[j] : j \in DOMAIN Asked}
    <3>1. /\ Asked = names /\ DOMAIN names = DOMAIN hashes /\ keys = {} /\ call \notin OneMask
          /\ hashes \in Seq(Hashes) /\ \A j \in DOMAIN names : Found(j)
      BY <2>2 DEF NamesAsked, HashesFound, MasksNamed, ByName, OneMask, TypeOK
    <3>2. ASSUME NEW j \in DOMAIN names, NEW h \in Inserted(hashes), Same(h, hashes[j])
          PROVE  NameOf(h) = names[j]
      <4>1. PICK i \in DOMAIN manifest : manifest[i] = <<names[j], hashes[j]>>
        BY <3>1 DEF Found
      <4>2. manifest[i][1] = names[j] /\ manifest[i][2] = hashes[j] /\ h \in Hashes
        BY <3>1, <4>1, InsertedFacts
      <4> QED BY <3>2, <4>2, EntryNames
    <3>3. ASSUME NEW j \in DOMAIN names PROVE names[j] \in DOMAIN out
      <4>1. PICK h \in Inserted(hashes) : Same(h, hashes[j])
        BY <3>1, InsertedFacts
      <4> QED BY <2>1, <2>2, <3>1, <3>2, <4>1
    <3>4. ASSUME NEW n \in DOMAIN out PROVE \E j \in DOMAIN names : n = names[j]
      <4>1. out[n] \in Inserted(hashes) /\ n = NameOf(out[n])
        BY DEF MasksNamed
      <4>2. PICK j \in DOMAIN hashes : out[n] = hashes[j]
        BY <3>1, <4>1, InsertedFacts
      <4> QED BY <3>1, <3>2, <4>1, <4>2, SameIsEquality
    <3> QED BY <3>1, <3>3, <3>4
  <2> QED BY <2>1, <2>2 DEF EachMaskNamed, OneMask
<1> QED BY <1>1, Invariance, PTL
=============================================================================
