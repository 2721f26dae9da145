--------------------------- MODULE ConstructionProofs ---------------------------
(***************************************************************************)
(* For every set of channel names and of encodings: what the constructors  *)
(* accept, what they refuse, and what becomes of each channel, through     *)
(* extraction of the previews and a move of the object.                    *)
(***************************************************************************)
EXTENDS Construction, FiniteSetTheorems, TLAPS

(* The inductive invariant follows the constructor: what is classified, what   *)
(* is still to be stored, and why a call threw.                                *)

NothingStored == m_Channels = <<>> /\ m_LegacyChannels = {} /\ successor = {} /\ extracted = {}

Classified == pending = Channels(given) /\ pendingLegacy = Previews(given)

\* The pairs in chs and the names in rest are the channels handed over, each once.
Kept(chs, rest) ==
    /\ {chs[j] : j \in DOMAIN chs} \cup rest = Channels(given)
    /\ Len(chs) + Cardinality(rest) = Cardinality(Channels(given))
    /\ \A j \in DOMAIN chs : given[chs[j]] = reference

\* The place of a channel in the prescribed order.
Key(n) == 4 * n.index + n.type

\* The keys of chs count from 0, and those of rest from there on.
Ordered(chs, rest) ==
    Canonical(Channels(given)) =>
        /\ \A j \in DOMAIN chs : Key(chs[j]) = j - 1
        /\ \A n \in rest : Key(n) >= Len(chs)

Storing ==
    /\ Kept(m_Channels, pending)
    /\ Ordered(m_Channels, pending)
    /\ m_LegacyChannels \cup pendingLegacy = Previews(given)
    /\ successor = {} /\ extracted = {}

\* An object with the channels chs and the previews prs.
Holds(chs, prs) ==
    /\ chs \in Seq({n \in Names : n.rest = "numbered"})
    /\ Kept(chs, {})
    /\ Ordered(chs, {})
    /\ prs \cap extracted = {}
    /\ prs \cup extracted = Previews(given)

Held ==
    \/ successor = {} /\ Holds(m_Channels, m_LegacyChannels)
    \/ /\ m_Channels = <<>> /\ m_LegacyChannels = {}
       /\ \E o \in [channels : Seq(Names), previews : SUBSET Names] :
              successor = {o} /\ Holds(o.channels, o.previews)

\* Why a constructor throws.
Refused ==
    \/ given = <<>>
    \/ ~Validates(Channels(given))
    \/ \E m, n \in DOMAIN given : given[m] # given[n]
    \/ \E n \in DOMAIN given : given[n] \notin Fitting

IInv ==
    /\ TypeOK
    /\ overload = "default" => given = <<>> /\ pc \in {"constructed", "undefined"}
    /\ pc = "classify" => NothingStored /\ pending = {} /\ pendingLegacy = {}
    /\ pc = "validate" => NothingStored /\ Classified /\ \E n \in DOMAIN given : reference = given[n]
    /\ pc = "store" => Storing /\ \E n \in DOMAIN given : reference = given[n]
    /\ pc \in {"store", "constructed", "undefined"} /\ overload # "default" =>
          Validates(Channels(given))
    /\ pc \in {"constructed", "undefined"} => Held /\ pending = {} /\ pendingLegacy = {}
    /\ pc = "undefined" /\ overload # "default" => successor # {}
    /\ pc = "threw" => Refused

-----------------------------------------------------------------------------
(* Names.                                                                      *)

\* The channels handed over are finitely many of the names, with a type each.
LEMMA GivenNames ==
    ASSUME TypeOK
    PROVE  /\ Channels(given) \subseteq {n \in Names : n.rest = "numbered"}
           /\ Previews(given) \subseteq {n \in Names : n.rest = "bare"}
           /\ IsFiniteSet(Channels(given))
           /\ \A n \in Channels(given) : n \in NameRecords /\ n.type \in ChannelTypes
<1>1. /\ Channels(given) \subseteq {n \in Names : n.rest = "numbered"}
      /\ Previews(given) \subseteq {n \in Names : n.rest = "bare"}
  BY DEF TypeOK, Channels, Previews
<1>2. IsFiniteSet(Channels(given))
  BY <1>1, FS_Subset, InputAssumption
<1>3. \A n \in Channels(given) : n \in NameRecords /\ n.type \in ChannelTypes
  BY <1>1, InputAssumption DEF NameRecords, Channels
<1> QED BY <1>1, <1>2, <1>3

LEMMA TypesAre == ChannelTypes = 0 .. 3 /\ NoType = -1 /\ NoIndex = -1
BY DEF ChannelTypes, Red, Green, Blue, Alpha, NoType, NoIndex

\* Every number is the key of one index and one type.
LEMMA KeyParts ==
    ASSUME NEW k \in Nat
    PROVE  k \div 4 \in Nat /\ k % 4 \in 0 .. 3 /\ k = 4 * (k \div 4) + (k % 4)
  OBVIOUS

\* In a set of the prescribed form the key tells the names apart, and the keys are
\* the numbers below an even one.
LEMMA CanonicalKeys ==
    ASSUME TypeOK, Canonical(Channels(given))
    PROVE  /\ \A n \in Channels(given) :
                 /\ n.index \in Nat /\ n.type \in 0 .. 3 /\ Key(n) \in Nat
                 /\ n.index = Key(n) \div 4 /\ n.type = Key(n) % 4
           /\ \A m, n \in Channels(given) : Key(m) = Key(n) => m = n
           /\ \E count \in Nat : /\ count > 0 /\ count % 2 = 0
                                 /\ {Key(n) : n \in Channels(given)} = 0 .. count - 1
<1> DEFINE names == Channels(given)
           last == LastIndex(names)
<1>1. \A n \in names : n.index \in Nat /\ n.type \in 0 .. 3
  BY GivenNames, TypesAre DEF Canonical, HasRepr, NameRecords
<1>2. \A n \in names : Key(n) \in Nat /\ n.index = Key(n) \div 4 /\ n.type = Key(n) % 4
  BY <1>1 DEF Key
<1>3. \A m, n \in names : Key(m) = Key(n) => m = n
  BY <1>2 DEF Canonical
<1>4. PICK types \in {{Red, Green}, ChannelTypes} :
          {<<n.index, n.type>> : n \in names} =
             ((0 .. last - 1) \X ChannelTypes) \cup ({last} \X types)
  BY DEF Canonical
<1> HIDE DEF last
<1> DEFINE half == IF types = ChannelTypes THEN 4 ELSE 2
<1>5. types = 0 .. half - 1 /\ half \in {2, 4}
  <2>1. CASE types = {Red, Green}
    <3>1. types = 0 .. 1 /\ 3 \notin types /\ 3 \in ChannelTypes
      BY <2>1, TypesAre DEF Red, Green
    <3> QED BY <3>1
  <2>2. CASE types = ChannelTypes
    BY <2>2, TypesAre
  <2> QED BY <2>1, <2>2
<1> HIDE DEF half
<1>6. last \in Nat
  <2>1. <<last, 0>> \in {last} \X types
    BY <1>5
  <2>2. PICK n \in names : <<n.index, n.type>> = <<last, 0>>
    BY <1>4, <2>1
  <2> QED BY <1>1, <2>2
<1> DEFINE count == 4 * last + half
<1>7. count \in Nat /\ count > 0 /\ count % 2 = 0
  BY <1>5, <1>6
<1> HIDE DEF names
<1>8. ASSUME NEW n \in names PROVE Key(n) \in 0 .. count - 1
  <2>1. <<n.index, n.type>> \in ((0 .. last - 1) \X ChannelTypes) \cup ({last} \X types)
    BY <1>4
  <2>2. \/ n.index \in 0 .. last - 1
        \/ n.index = last /\ n.type \in 0 .. half - 1
    BY <1>5, <2>1
  <2> DEFINE i == n.index
             t == n.type
  <2>3. /\ i \in Nat /\ t \in 0 .. 3 /\ Key(n) = 4 * i + t
        /\ i \in 0 .. last - 1 \/ (i = last /\ t \in 0 .. half - 1)
    BY <1>1, <2>2 DEF Key
  <2> HIDE DEF i, t
  <2> QED BY <1>5, <1>6, <2>3
<1>9. ASSUME NEW k \in 0 .. count - 1 PROVE \E n \in names : Key(n) = k
  <2>1. /\ k \div 4 \in 0 .. last /\ k % 4 \in 0 .. 3 /\ k = 4 * (k \div 4) + (k % 4)
        /\ k \div 4 = last => k % 4 \in 0 .. half - 1
    <3>1. k \in Nat /\ k < 4 * last + half
      <4>1. k \in 0 .. count - 1 /\ count \in Nat /\ count = 4 * last + half
        BY <1>7
      <4> HIDE DEF count
      <4> QED BY <4>1
    <3>2. k \div 4 \in Nat /\ k % 4 \in 0 .. 3 /\ k = 4 * (k \div 4) + (k % 4)
      BY <3>1, KeyParts
    <3> DEFINE q == k \div 4
               t == k % 4
    <3>3. q \in Nat /\ t \in 0 .. 3 /\ k = 4 * q + t
      BY <3>2
    <3> HIDE DEF q, t
    <3>4. q \in 0 .. last /\ (q = last => t \in 0 .. half - 1)
      BY <1>5, <1>6, <3>1, <3>3
    <3> QED BY <3>2, <3>4 DEF q, t
  <2>2. \/ k \div 4 \in 0 .. last - 1 /\ k % 4 \in ChannelTypes
        \/ k \div 4 = last /\ k % 4 \in types
    BY <1>5, <1>6, <2>1, TypesAre
  <2>3. <<k \div 4, k % 4>> \in {<<n.index, n.type>> : n \in names}
    BY <1>4, <2>2
  <2>4. PICK n \in names : <<n.index, n.type>> = <<k \div 4, k % 4>>
    BY <2>3
  <2> QED BY <2>1, <2>4 DEF Key
<1>10. {Key(n) : n \in names} = 0 .. count - 1
  BY <1>8, <1>9
<1> QED BY <1>1, <1>2, <1>3, <1>7, <1>10 DEF names

\* A finite set of integers that is not empty has a maximum.
LEMMA MaxExists ==
    ASSUME NEW S \in SUBSET Int, IsFiniteSet(S), S # {}
    PROVE  Max(S) \in S /\ \A x \in S : Max(S) >= x
<1> DEFINE From(x) == {y \in S : y >= x}
           T == {From(x) : x \in S}
<1>1. T \subseteq FiniteSubsetsOf(S) /\ T # {}
  <2>1. \A x \in S : From(x) \in SUBSET S
    OBVIOUS
  <2> HIDE DEF From
  <2>2. \A x \in S : IsFiniteSet(From(x))
    BY <2>1, FS_Subset
  <2> QED BY <2>1, <2>2 DEF FiniteSubsetsOf
<1>2. PICK U \in T : \A V \in T : <<V, U>> \notin StrictSubsetOrdering(S)
  BY <1>1, FS_StrictSubsetOrderingWellFounded, WFMin
<1>3. PICK x \in S : U = From(x)
  BY <1>2
<1>4. ASSUME NEW y \in S, y > x PROVE FALSE
  <2>1. From(y) \in T /\ From(y) \subseteq U /\ x \in U /\ x \notin From(y)
    <3>1. x \in Int /\ y \in Int /\ y > x /\ \A z \in S : z \in Int
      BY <1>3, <1>4
    <3>2. x >= x /\ ~ x >= y /\ \A z \in S : z >= y => z >= x
      BY <3>1
    <3> HIDE DEF T
    <3>3. x \in From(x) /\ x \notin From(y) /\ From(y) \subseteq From(x)
      BY <3>2
    <3> QED BY <1>3, <3>3 DEF T
  <2>2. <<From(y), U>> \in StrictSubsetOrdering(S)
    <3>1. From(y) \in SUBSET S /\ U \in SUBSET S /\ From(y) # U
      BY <1>3, <2>1
    <3> HIDE DEF From
    <3> QED BY <2>1, <3>1 DEF StrictSubsetOrdering
  <2> QED BY <1>2, <2>1, <2>2
<1>5. \E m \in S : \A y \in S : m >= y
  BY <1>4
<1> QED BY <1>5 DEF Max

LEMMA IntervalSize ==
    /\ IsFiniteSet(0 .. 3) /\ Cardinality(0 .. 3) = 4
    /\ IsFiniteSet(0 .. 1) /\ Cardinality(0 .. 1) = 2
    /\ IsFiniteSet(0 .. 99)
<1>1. 0 \in Int /\ 1 \in Int /\ 3 \in Int /\ 99 \in Int
  OBVIOUS
<1>2. /\ ~(0 > 3) /\ 3 - 0 + 1 = 4
      /\ ~(0 > 1) /\ 1 - 0 + 1 = 2
  OBVIOUS
<1> QED BY <1>1, <1>2, FS_Interval, Zenon

LEMMA TypesAtCardinality ==
    /\ IsFiniteSet(ChannelTypes) /\ Cardinality(ChannelTypes) = 4
    /\ Cardinality({Red, Green}) = 2
<1>1. ChannelTypes = 0 .. 3 /\ {Red, Green} = 0 .. 1
  BY TypesAre DEF Red, Green
<1>2. /\ IsFiniteSet(0 .. 3) /\ Cardinality(0 .. 3) = 4
      /\ Cardinality(0 .. 1) = 2
  BY IntervalSize
<1> QED BY <1>1, <1>2

\* What the validation means: all types of every number but the last, which has
\* two of them or four.
LEMMA ValidatesComplete ==
    ASSUME TypeOK, Validates(Channels(given))
    PROVE  LET names == Channels(given)
               last == LastIndex(names)
           IN  /\ Cardinality(names) % 2 = 0
               /\ \A i \in 0 .. last - 1 : TypesAt(names, i) = ChannelTypes
               /\ Cardinality(TypesAt(names, last)) \in {2, 4}
<1> DEFINE names == Channels(given)
           last == LastIndex(names)
<1>1. \A m \in names : m.index \in 0 .. 99 /\ m.type \in ChannelTypes
  BY GivenNames, TypesAre DEF Validates, HasRepr, NameRecords
<1>2. Indices(names) \subseteq 0 .. 99 /\ Indices(names) # {}
  BY <1>1 DEF Indices, Validates
<1>3. last \in Indices(names)
  <2>1. IsFiniteSet(Indices(names))
    <3>1. IsFiniteSet(0 .. 99)
      BY IntervalSize
    <3> QED BY <1>2, <3>1, FS_Subset
  <2>2. Indices(names) \in SUBSET Int
    BY <1>2
  <2> HIDE DEF names
  <2> QED BY <1>2, <2>1, <2>2, MaxExists DEF LastIndex
<1>4. /\ Indices(names) = 0 .. last
      /\ Cardinality(names) % 2 = 0
      /\ \A i \in Indices(names) :
            Cardinality(TypesAt(names, i)) \in IF i = last THEN {2, 4} ELSE {4}
  BY DEF Validates
<1>5. \A i : TypesAt(names, i) \subseteq ChannelTypes
  BY <1>1 DEF TypesAt
<1> HIDE DEF last
<1>6. ASSUME NEW i \in 0 .. last - 1 PROVE TypesAt(names, i) = ChannelTypes
  <2>1. i \in Indices(names) /\ i # last
    BY <1>2, <1>3, <1>4
  <2>2. Cardinality(TypesAt(names, i)) = 4
    BY <1>4, <2>1
  <2> QED BY <1>5, <2>2, TypesAtCardinality, FS_Subset
<1>7. Cardinality(TypesAt(names, last)) \in {2, 4}
  BY <1>3, <1>4
<1> QED BY <1>4, <1>6, <1>7 DEF last

\* The validation refuses no set of the prescribed form.
LEMMA CanonicalValidates ==
    ASSUME TypeOK, Canonical(Channels(given))
    PROVE  Validates(Channels(given))
<1> DEFINE names == Channels(given)
           last == LastIndex(names)
<1>1. /\ \A n \in names : n.index \in Nat /\ n.type \in ChannelTypes
      /\ names # {} /\ \A n \in names : HasRepr(n)
  BY CanonicalKeys, TypesAre DEF Canonical
<1>2. Cardinality(names) % 2 = 0
  <2>1. PICK count \in Nat : /\ count > 0 /\ count % 2 = 0
                             /\ {Key(n) : n \in names} = 0 .. count - 1
    BY CanonicalKeys
  <2> DEFINE f == [n \in names |-> Key(n)]
  <2>2. f \in Bijection(names, 0 .. count - 1)
    <3>1. f \in [names -> 0 .. count - 1]
      BY <2>1
    <3>2. \A m, n \in names : f[m] = f[n] => m = n
      BY CanonicalKeys
    <3>3. \A k \in 0 .. count - 1 : \E n \in names : f[n] = k
      BY <2>1
    <3> HIDE DEF f, names
    <3> QED BY <3>1, <3>2, <3>3 DEF Bijection, Injection, Surjection, IsInjective
  <2>3. Cardinality(names) = Cardinality(0 .. count - 1)
    BY <2>2, FS_Bijection, GivenNames DEF ExistsBijection
  <2> HIDE DEF names
  <2> QED BY <2>1, <2>3, FS_Interval
<1>3. PICK types \in {{Red, Green}, ChannelTypes} :
          {<<n.index, n.type>> : n \in names} =
             ((0 .. last - 1) \X ChannelTypes) \cup ({last} \X types)
  BY DEF Canonical
<1> HIDE DEF names, last
<1>4. 0 \in types /\ types \subseteq ChannelTypes
  BY TypesAre DEF Red, Green
<1>5. last \in Nat
  <2>1. PICK n \in names : <<n.index, n.type>> = <<last, 0>>
    BY <1>3, <1>4
  <2> QED BY <1>1, <2>1
<1>6. /\ \A n \in names : \/ n.index \in 0 .. last - 1 /\ n.type \in ChannelTypes
                          \/ n.index = last /\ n.type \in types
      /\ \A i \in 0 .. last - 1, t \in ChannelTypes :
            \E n \in names : n.index = i /\ n.type = t
      /\ \A t \in types : \E n \in names : n.index = last /\ n.type = t
  <2>1. ASSUME NEW n \in names
        PROVE  \/ n.index \in 0 .. last - 1 /\ n.type \in ChannelTypes
               \/ n.index = last /\ n.type \in types
    <3>1. <<n.index, n.type>> \in ((0 .. last - 1) \X ChannelTypes) \cup ({last} \X types)
      BY <1>3
    <3> QED BY <3>1
  <2>2. ASSUME NEW i \in 0 .. last - 1, NEW t \in ChannelTypes
        PROVE  \E n \in names : n.index = i /\ n.type = t
    <3>1. PICK n \in names : <<n.index, n.type>> = <<i, t>>
      BY <1>3
    <3> QED BY <3>1
  <2>3. ASSUME NEW t \in types
        PROVE  \E n \in names : n.index = last /\ n.type = t
    <3>1. PICK n \in names : <<n.index, n.type>> = <<last, t>>
      BY <1>3
    <3> QED BY <3>1
  <2> QED BY <2>1, <2>2, <2>3
<1>7. Indices(names) = 0 .. last
  <2>1. \A i \in 0 .. last : \E n \in names : n.index = i
    BY <1>4, <1>5, <1>6
  <2>2. \A n \in names : n.index \in 0 .. last
    BY <1>5, <1>6
  <2> QED BY <2>1, <2>2 DEF Indices
<1>8. ASSUME NEW i \in Indices(names)
      PROVE  Cardinality(TypesAt(names, i)) \in IF i = last THEN {2, 4} ELSE {4}
  <2>1. /\ \A t \in TypesAt(names, i) : \E n \in names : n.index = i /\ n.type = t
        /\ \A n \in names : n.index = i => n.type \in TypesAt(names, i)
    BY DEF TypesAt
  <2>2. CASE i = last
    <3>1. \A n \in names : n.index = last => n.type \in types
      BY <1>5, <1>6
    <3>2. TypesAt(names, i) = types
      BY <1>6, <2>1, <2>2, <3>1
    <3> QED BY <2>2, <3>2, TypesAtCardinality
  <2>3. CASE i # last
    <3>1. i \in 0 .. last - 1
      BY <1>5, <1>7, <2>3
    <3>2. TypesAt(names, i) = ChannelTypes
      <4>1. TypesAt(names, i) \subseteq ChannelTypes
        BY <1>1, <2>1
      <4>2. \A t \in ChannelTypes : \E n \in names : n.index = i /\ n.type = t
        BY <1>6, <3>1
      <4> QED BY <2>1, <4>1, <4>2
    <3> QED BY <2>3, <3>2, TypesAtCardinality
  <2> QED BY <2>2, <2>3
<1> QED BY <1>1, <1>2, <1>7, <1>8 DEF Validates, names, last

-----------------------------------------------------------------------------
(* Every step keeps the invariant.                                             *)

LEMMA InitIInv == Init => IInv
<1> SUFFICES ASSUME Init PROVE IInv
  OBVIOUS
<1>1. reference \in Forms
  BY InputAssumption DEF Init
<1>2. /\ Cardinality({}) = 0 /\ DOMAIN given \subseteq Names /\ given \in [DOMAIN given -> Forms]
      /\ m_Channels \in Seq({n \in Names : n.rest = "numbered"})
  <2>1. Cardinality({}) = 0
    BY FS_EmptySet
  <2>2. CASE overload = "default"
    BY <2>1, <2>2 DEF Init
  <2>3. CASE overload # "default"
    BY <2>1, <2>3 DEF Init
  <2> QED BY <2>2, <2>3
<1>3. TypeOK
  BY <1>1, <1>2 DEF Init, TypeOK
<1>4. CASE overload = "default"
  <2>1. given = <<>> /\ Channels(given) = {} /\ Previews(given) = {}
    BY <1>4 DEF Init, Channels, Previews
  <2>2. Kept(<<>>, {})
    <3>1. {<<>>[j] : j \in DOMAIN <<>>} = {} /\ Len(<<>>) = 0
      OBVIOUS
    <3>2. \A j \in DOMAIN <<>> : given[<<>>[j]] = reference
      OBVIOUS
    <3>3. {<<>>[j] : j \in DOMAIN <<>>} \cup {} = Channels(given)
      BY <2>1, <3>1
    <3>4. Len(<<>>) + Cardinality({}) = Cardinality(Channels(given))
      <4>1. Cardinality(Channels(given)) = Cardinality({})
        BY <2>1, Zenon
      <4>2. Cardinality({}) = 0
        BY <1>2
      <4>3. Len(<<>>) + 0 = 0
        OBVIOUS
      <4> QED BY <4>1, <4>2, <4>3, Zenon
    <3> QED BY <3>2, <3>3, <3>4, Zenon DEF Kept
  <2>3. Ordered(<<>>, {})
    BY DEF Ordered
  <2>4. Held
    BY <1>2, <2>1, <2>2, <2>3 DEF Init, Held, Holds
  <2> QED BY <1>3, <1>4, <2>1, <2>4 DEF Init, IInv
<1>5. CASE overload # "default"
  BY <1>3, <1>5 DEF Init, IInv, NothingStored
<1> QED BY <1>4, <1>5

\* A constructor that throws leaves everything as it was.
LEMMA ThrowIInv ==
    ASSUME IInv, Refused, overload # "default", pc' = "threw",
           UNCHANGED <<arguments, reference, pending, pendingLegacy, m_Channels,
                       m_LegacyChannels, successor, extracted>>
    PROVE  IInv'
<1>1. TypeOK'
  BY DEF IInv, TypeOK, arguments
<1>2. Refused'
  BY DEF Refused, arguments
<1> QED BY <1>1, <1>2 DEF IInv, arguments

LEMMA ClassifyIInv == ASSUME IInv, Classify PROVE IInv'
<1>1. overload # "default"
  BY DEF IInv, Classify
<1>2. NothingStored' /\ given' = given /\ pc' = "validate"
  BY DEF IInv, Classify, NothingStored, arguments
<1>3. pending' = Channels(given) /\ pendingLegacy' = Previews(given)
  BY DEF Classify, IsValidChannelName, IsValidLegacyChannelName, Channels, Previews
<1>4. TypeOK'
  BY <1>3, GivenNames DEF IInv, Classify, TypeOK, NothingStored, arguments
<1> QED BY <1>1, <1>2, <1>3, <1>4 DEF IInv, Classify, Classified, arguments

LEMMA ValidateIInv == ASSUME IInv, Validate PROVE IInv'
<1>1. /\ NothingStored /\ Classified /\ overload # "default"
      /\ TypeOK /\ \E n \in DOMAIN given : reference = given[n]
  BY DEF IInv, Validate
<1>2. CASE ~Validates(pending)
  BY <1>1, <1>2, ThrowIInv DEF Refused, Classified, Validate
<1>3. CASE Validates(pending)
  <2>1. TypeOK'
    BY <1>1, <1>3 DEF Validate, TypeOK, arguments
  <2>2. Cardinality(Channels(given)) \in Nat
    BY <1>1, GivenNames, FS_CardinalityType
  <2>3. Kept(<<>>, Channels(given))
    BY <2>2 DEF Kept
  <2>4. Ordered(<<>>, Channels(given))
    BY <1>1, CanonicalKeys DEF Ordered
  <2>5. Storing
    BY <1>1, <2>3, <2>4 DEF Storing, NothingStored, Classified
  <2>6. Storing'
    BY <2>5 DEF Storing, Validate, Kept, Ordered, arguments
  <2> QED BY <1>1, <1>3, <2>1, <2>6 DEF IInv, Validate, Classified, arguments
<1> QED BY <1>2, <1>3

\* Whichever of the least channels the sort puts first, its key is the next one.
LEMMA NextKey ==
    ASSUME TypeOK, Storing, Canonical(Channels(given)), NEW n, Sorted(n)
    PROVE  /\ Key(n) = Len(m_Channels)
           /\ \A m \in pending \ {n} : Key(m) >= Len(m_Channels) + 1
<1>1. /\ {m_Channels[j] : j \in DOMAIN m_Channels} \cup pending = Channels(given)
      /\ \A j \in DOMAIN m_Channels : Key(m_Channels[j]) = j - 1
      /\ \A m \in pending : Key(m) >= Len(m_Channels)
      /\ Len(m_Channels) \in Nat /\ DOMAIN m_Channels = 1 .. Len(m_Channels)
  BY DEF Storing, Kept, Ordered, TypeOK
<1>2. /\ n \in pending /\ \A m \in pending : ~Before(m, n)
      /\ pending \subseteq Channels(given)
  BY <1>1 DEF Sorted
<1>3. /\ \A m \in Channels(given) : m.index \in Nat /\ m.type \in 0 .. 3 /\ Key(m) \in Nat
      /\ \A l, m \in Channels(given) : Key(l) = Key(m) => l = m
  BY CanonicalKeys
<1>4. PICK count \in Nat : {Key(m) : m \in Channels(given)} = 0 .. count - 1
  BY CanonicalKeys
<1>5. Key(n) \in 0 .. count - 1 /\ Key(n) >= Len(m_Channels)
  BY <1>1, <1>2, <1>4
<1>6. Len(m_Channels) \in 0 .. count - 1
  BY <1>1, <1>5
<1>7. PICK m \in Channels(given) : Key(m) = Len(m_Channels)
  BY <1>4, <1>6
<1>8. m \in pending
  BY <1>1, <1>7
<1>9. ~Before(m, n)
  BY <1>2, <1>8
<1>10. Key(n) <= Key(m)
  <2>1. /\ m.index \in Nat /\ m.type \in 0 .. 3
        /\ n.index \in Nat /\ n.type \in 0 .. 3
    BY <1>2, <1>3
  <2> QED BY <1>9, <2>1 DEF Before, Key
<1>11. Key(n) = Len(m_Channels)
  BY <1>1, <1>2, <1>3, <1>5, <1>7, <1>10
<1>12. ASSUME NEW l \in pending, l # n PROVE Key(l) >= Len(m_Channels) + 1
  BY <1>1, <1>2, <1>3, <1>11, <1>12
<1> QED BY <1>11, <1>12

LEMMA StoreChannelIInv == ASSUME IInv, NEW n \in Names, StoreChannel(n) PROVE IInv'
<1>1. /\ TypeOK /\ Storing /\ overload # "default" /\ n \in pending
      /\ n.rest = "numbered" /\ given[n] = reference
  BY DEF IInv, StoreChannel, Sorted, Misfit, TypeOK
<1>2. TypeOK'
  BY <1>1 DEF StoreChannel, TypeOK, arguments
<1>3. /\ IsFiniteSet(pending) /\ Cardinality(pending) \in Nat
      /\ Cardinality(pending \ {n}) = Cardinality(pending) - 1
  <2>1. pending \subseteq Channels(given) /\ IsFiniteSet(Channels(given))
    BY <1>1, GivenNames DEF Storing, Kept
  <2> QED BY <1>1, <2>1, FS_Subset, FS_CardinalityType, FS_RemoveElement
<1> DEFINE chs == Append(m_Channels, n)
<1>4. /\ DOMAIN chs = DOMAIN m_Channels \cup {Len(m_Channels) + 1}
      /\ Len(chs) = Len(m_Channels) + 1 /\ Len(m_Channels) \in Nat
      /\ DOMAIN m_Channels = 1 .. Len(m_Channels)
      /\ \A j \in DOMAIN m_Channels : chs[j] = m_Channels[j]
      /\ chs[Len(m_Channels) + 1] = n
  BY <1>1 DEF TypeOK
<1> HIDE DEF chs
<1>5. Kept(chs, pending \ {n})
  <2>1. {chs[j] : j \in DOMAIN chs} = {m_Channels[j] : j \in DOMAIN m_Channels} \cup {n}
    BY <1>4
  <2>2. {m_Channels[j] : j \in DOMAIN m_Channels} \cup pending = Channels(given)
    BY <1>1 DEF Storing, Kept
  <2>3. {chs[j] : j \in DOMAIN chs} \cup (pending \ {n}) = Channels(given)
    BY <1>1, <2>1, <2>2
  <2>4. Len(chs) + Cardinality(pending \ {n}) = Cardinality(Channels(given))
    BY <1>1, <1>3, <1>4 DEF Storing, Kept
  <2>5. \A j \in DOMAIN chs : given[chs[j]] = reference
    BY <1>1, <1>4 DEF Storing, Kept
  <2> QED BY <2>3, <2>4, <2>5 DEF Kept
<1>6. Ordered(chs, pending \ {n})
  <2> SUFFICES ASSUME Canonical(Channels(given))
               PROVE  /\ \A j \in DOMAIN chs : Key(chs[j]) = j - 1
                      /\ \A m \in pending \ {n} : Key(m) >= Len(chs)
    BY DEF Ordered
  <2>1. /\ Key(n) = Len(m_Channels)
        /\ \A m \in pending \ {n} : Key(m) >= Len(m_Channels) + 1
    BY <1>1, NextKey DEF StoreChannel
  <2>2. \A j \in DOMAIN m_Channels : Key(m_Channels[j]) = j - 1
    BY <1>1 DEF Storing, Ordered
  <2> QED BY <1>4, <2>1, <2>2
<1>7. Storing'
  <2>1. m_Channels' = chs /\ pending' = pending \ {n} /\ given' = given /\ reference' = reference
    BY DEF StoreChannel, arguments, chs
  <2>2. Kept(m_Channels, pending)' /\ Ordered(m_Channels, pending)'
    BY <1>5, <1>6, <2>1 DEF Kept, Ordered
  <2> QED BY <1>1, <2>1, <2>2 DEF Storing, StoreChannel
<1> QED BY <1>1, <1>2, <1>7 DEF IInv, StoreChannel, arguments

LEMMA RejectChannelIInv == ASSUME IInv, NEW n \in Names, RejectChannel(n) PROVE IInv'
<1>1. n \in Channels(given)
  BY DEF IInv, RejectChannel, Sorted, Storing, Kept
<1>2. Refused
  BY <1>1 DEF IInv, RejectChannel, Misfit, Refused, Channels
<1> QED BY <1>2, ThrowIInv DEF RejectChannel, IInv

LEMMA StoreLegacyChannelIInv == ASSUME IInv, NEW n \in Names, StoreLegacyChannel(n) PROVE IInv'
<1>1. TypeOK /\ Storing
  BY DEF IInv, StoreLegacyChannel
<1>2. TypeOK'
  BY <1>1 DEF StoreLegacyChannel, TypeOK, arguments
<1>3. Storing'
  BY <1>1 DEF StoreLegacyChannel, Storing, Kept, Ordered, arguments
<1> QED BY <1>2, <1>3 DEF IInv, StoreLegacyChannel, arguments

LEMMA RejectLegacyChannelIInv == ASSUME IInv, NEW n \in Names, RejectLegacyChannel(n) PROVE IInv'
<1>1. n \in Previews(given)
  BY DEF IInv, RejectLegacyChannel, Storing
<1>2. Refused
  BY <1>1 DEF RejectLegacyChannel, Refused, Previews
<1> QED BY <1>2, ThrowIInv DEF RejectLegacyChannel, IInv

LEMMA ConstructIInv == ASSUME IInv, Construct PROVE IInv'
<1>1. TypeOK /\ Storing /\ pending = {} /\ pendingLegacy = {}
  BY DEF IInv, Construct
<1>2. TypeOK'
  BY <1>1 DEF Construct, TypeOK, arguments
<1>3. Held
  BY <1>1 DEF Storing, Held, Holds, TypeOK
<1>4. Held'
  BY <1>3 DEF Held, Holds, Kept, Ordered, Construct, arguments
<1> QED BY <1>1, <1>2, <1>4 DEF IInv, Construct, arguments

\* The object, and so what it holds, is one of two.
LEMMA HolderHolds ==
    ASSUME TypeOK, Held
    PROVE  /\ Holds(Holder.channels, Holder.previews)
           /\ successor # {} => m_Channels = <<>> /\ m_LegacyChannels = {}
           /\ successor # {} => successor = {Holder}
<1>1. CASE successor = {}
  <2>1. Holder = [channels |-> m_Channels, previews |-> m_LegacyChannels]
    BY <1>1 DEF Holder
  <2>2. Holds(m_Channels, m_LegacyChannels)
    BY <1>1 DEF Held
  <2> QED BY <1>1, <2>1, <2>2
<1>2. CASE successor # {}
  <2>1. PICK o \in [channels : Seq(Names), previews : SUBSET Names] :
            successor = {o} /\ Holds(o.channels, o.previews)
    BY <1>2 DEF Held
  <2>2. Holder = o
    BY <1>2, <2>1 DEF Holder
  <2> QED BY <1>2, <2>1, <2>2 DEF Held
<1> QED BY <1>1, <1>2

LEMMA ExtractPreviewCompressedIInv == ASSUME IInv, ExtractPreviewCompressed PROVE IInv'
<1>1. TypeOK /\ Held
  BY DEF IInv, ExtractPreviewCompressed
<1>2. TypeOK'
  BY <1>1 DEF ExtractPreviewCompressed, TypeOK, arguments
<1>3. Held'
  BY <1>1 DEF Held, Holds, Kept, Ordered, ExtractPreviewCompressed, arguments
<1> QED BY <1>2, <1>3 DEF IInv, ExtractPreviewCompressed, arguments

LEMMA ExtractFromSuccessorIInv == ASSUME IInv, ExtractFromSuccessor PROVE IInv'
<1>1. TypeOK /\ Held /\ successor # {}
  BY DEF IInv, ExtractFromSuccessor
<1>2. PICK o \in [channels : Seq(Names), previews : SUBSET Names] :
          successor = {o} /\ Holds(o.channels, o.previews)
  BY <1>1 DEF Held
<1> DEFINE emptied == [o EXCEPT !.previews = {}]
<1>3. /\ successor' = {emptied} /\ extracted' = extracted \cup o.previews
      /\ emptied \in [channels : Seq(Names), previews : SUBSET Names]
      /\ emptied.channels = o.channels /\ emptied.previews = {}
  BY <1>2 DEF ExtractFromSuccessor
<1> HIDE DEF emptied
<1>4. Previews(given) \subseteq {n \in Names : n.rest = "bare"}
  BY <1>1, GivenNames
<1>5. Cardinality(successor') <= 1
  BY <1>3, FS_Singleton
<1>6. o.previews \subseteq Previews(given)
  BY <1>2 DEF Holds
<1>7. TypeOK'
  BY <1>1, <1>3, <1>4, <1>5, <1>6 DEF ExtractFromSuccessor, TypeOK, arguments
<1>8. Holds(emptied.channels, emptied.previews)'
  BY <1>2, <1>3 DEF Holds, Kept, Ordered, ExtractFromSuccessor, arguments
<1>9. Held'
  BY <1>1, <1>3, <1>8 DEF Held, ExtractFromSuccessor
<1> QED BY <1>3, <1>7, <1>9 DEF IInv, ExtractFromSuccessor, arguments

LEMMA MoveIInv == ASSUME IInv, Move PROVE IInv'
<1>1. TypeOK /\ Held /\ successor = {}
  BY DEF IInv, Move
<1>2. PICK o \in [channels : Seq(Names), previews : SUBSET Names] :
          o.channels = m_Channels /\ o.previews = m_LegacyChannels /\ successor' = {o}
  <2> DEFINE o == [channels |-> m_Channels, previews |-> m_LegacyChannels]
  <2>1. o \in [channels : Seq(Names), previews : SUBSET Names]
    BY <1>1 DEF TypeOK
  <2>2. successor' = {o}
    BY DEF Move
  <2> QED BY <2>1, <2>2
<1>3. Cardinality(successor') <= 1
  <2>1. Cardinality({o}) = 1
    BY FS_Singleton
  <2> QED BY <1>2, <2>1
<1>4. TypeOK'
  BY <1>1, <1>3 DEF Move, TypeOK, arguments
<1>5. Holds(m_Channels, m_LegacyChannels)
  BY <1>1 DEF Held
<1>6. Holds(o.channels, o.previews)'
  BY <1>2, <1>5 DEF Holds, Kept, Ordered, Move, arguments
<1>7. Held'
  BY <1>2, <1>6 DEF Held, Move
<1> QED BY <1>4, <1>7 DEF IInv, Move, arguments

\* Accepted channels are at least one pair.
LEMMA ValidatedPairs ==
    ASSUME TypeOK, Validates(Channels(given)), NEW chs, NEW prs, Holds(chs, prs)
    PROVE  chs # <<>> /\ Len(chs) % 2 = 0
<1>1. Channels(given) # {} /\ Cardinality(Channels(given)) % 2 = 0
  BY DEF Validates
<1>2. Len(chs) = Cardinality(Channels(given)) /\ Len(chs) \in Nat
  BY FS_EmptySet, GivenNames, FS_CardinalityType DEF Holds, Kept
<1>3. Cardinality(Channels(given)) # 0
  BY <1>1, GivenNames, FS_EmptySet
<1> QED BY <1>1, <1>2, <1>3

LEMMA DecodeEmptyIInv == ASSUME IInv, DecodeEmpty PROVE IInv'
<1>1. /\ TypeOK /\ Held /\ pc = "constructed"
      /\ overload # "default" => Validates(Channels(given))
  BY DEF IInv, DecodeEmpty
<1>2. TypeOK'
  BY <1>1 DEF DecodeEmpty, TypeOK, arguments
<1>3. Held'
  BY <1>1 DEF Held, Holds, Kept, Ordered, DecodeEmpty, arguments
<1>4. ASSUME overload # "default", successor = {} PROVE FALSE
  <2>1. m_Channels = <<>>
    BY <1>4 DEF DecodeEmpty
  <2>2. Holds(m_Channels, m_LegacyChannels)
    BY <1>1, <1>4 DEF Held
  <2> QED BY <1>1, <1>4, <2>1, <2>2, ValidatedPairs
<1> QED BY <1>1, <1>2, <1>3, <1>4 DEF IInv, DecodeEmpty, arguments

LEMMA NextIInv == IInv /\ [Next]_vars => IInv'
<1> SUFFICES ASSUME IInv, [Next]_vars PROVE IInv'
  OBVIOUS
<1>1. CASE RejectEmpty
  <2>1. Refused
    BY <1>1 DEF RejectEmpty, Refused
  <2> QED BY <1>1, <2>1, ThrowIInv DEF RejectEmpty, IInv
<1>2. CASE Classify
  BY <1>2, ClassifyIInv
<1>3. CASE Validate
  BY <1>3, ValidateIInv
<1>4. CASE \E n \in Names : \/ StoreChannel(n) \/ RejectChannel(n)
                            \/ StoreLegacyChannel(n) \/ RejectLegacyChannel(n)
  BY <1>4, StoreChannelIInv, RejectChannelIInv, StoreLegacyChannelIInv, RejectLegacyChannelIInv
<1>5. CASE Construct
  BY <1>5, ConstructIInv
<1>6. CASE ExtractPreviewCompressed
  BY <1>6, ExtractPreviewCompressedIInv
<1>7. CASE ExtractFromSuccessor
  BY <1>7, ExtractFromSuccessorIInv
<1>8. CASE Move
  BY <1>8, MoveIInv
<1>9. CASE DecodeEmpty
  BY <1>9, DecodeEmptyIInv
<1>10. CASE UNCHANGED vars
  <2>1. TypeOK'
    BY <1>10 DEF IInv, TypeOK, vars, arguments
  <2>2. /\ NothingStored' = NothingStored /\ Classified' = Classified
        /\ Storing' = Storing /\ Refused' = Refused
    BY <1>10 DEF NothingStored, Classified, Storing, Kept, Ordered, Refused, vars, arguments
  <2>3. Held' = Held
    BY <1>10 DEF Held, Holds, Kept, Ordered, vars, arguments
  <2> QED BY <1>10, <2>1, <2>2, <2>3 DEF IInv, vars, arguments
<1>11. CASE Terminated
  BY <1>10, <1>11 DEF Terminated
<1> QED BY <1>1, <1>2, <1>3, <1>4, <1>5, <1>6, <1>7, <1>8, <1>9, <1>10, <1>11 DEF Next

-----------------------------------------------------------------------------
(* What the invariant means.                                                   *)

\* Without channels nothing is canonical, and nothing else comes of <<>>.
LEMMA NoChannels == given = <<>> => Channels(given) = {} /\ ~Canonical(Channels(given))
BY DEF Channels, Canonical

LEMMA IInvOrder == IInv => PairsInOrder
<1> SUFFICES ASSUME IInv, pc = "constructed", Canonical(Channels(given))
             PROVE  /\ Len(Pairs) % 2 = 0
                    /\ \A j \in 0 .. Len(Pairs) - 1 : /\ Pairs[j + 1].index = j \div 4
                                                      /\ Pairs[j + 1].type = j % 4
  BY DEF PairsInOrder
<1>1. TypeOK /\ Held
  BY DEF IInv
<1>2. Holds(Pairs, Holder.previews)
  BY <1>1, HolderHolds DEF Pairs
<1>3. Len(Pairs) % 2 = 0
  BY <1>1, <1>2, CanonicalValidates, ValidatedPairs
<1>4. ASSUME NEW j \in 0 .. Len(Pairs) - 1
      PROVE  Pairs[j + 1].index = j \div 4 /\ Pairs[j + 1].type = j % 4
  <2>1. j + 1 \in DOMAIN Pairs /\ j = (j + 1) - 1
    BY <1>2 DEF Holds
  <2>2. Pairs[j + 1] \in Channels(given) /\ Key(Pairs[j + 1]) = j
    BY <1>2, <2>1 DEF Holds, Kept, Ordered
  <2> QED BY <1>1, <2>2, CanonicalKeys
<1> QED BY <1>3, <1>4

LEMMA IInvPlaces == IInv => EachChannelInOnePlace
<1> SUFFICES ASSUME IInv, pc = "constructed"
             PROVE  /\ {Pairs[j] : j \in DOMAIN Pairs} = Channels(given)
                    /\ Len(Pairs) = Cardinality(Channels(given))
                    /\ Holder.previews \cap extracted = {}
                    /\ Holder.previews \cup extracted = Previews(given)
                    /\ successor # {} => m_Channels = <<>> /\ m_LegacyChannels = {}
                    /\ \A m, n \in Channels(given) : given[m] = given[n]
  BY DEF EachChannelInOnePlace
<1>1. TypeOK /\ Held
  BY DEF IInv
<1>2. Holds(Pairs, Holder.previews)
  BY <1>1, HolderHolds DEF Pairs
<1>3. {Pairs[j] : j \in DOMAIN Pairs} = Channels(given)
  BY <1>2 DEF Holds, Kept
<1>4. Len(Pairs) = Cardinality(Channels(given))
  <2>1. Len(Pairs) \in Nat
    BY <1>2 DEF Holds
  <2> QED BY <1>2, <2>1, FS_EmptySet DEF Holds, Kept
<1>5. \A n \in Channels(given) : given[n] = reference
  BY <1>2, <1>3 DEF Holds, Kept
<1> QED BY <1>1, <1>2, <1>3, <1>4, <1>5, HolderHolds DEF Holds

LEMMA IInvDecodable == IInv => DecodableUntilMoved
<1> SUFFICES ASSUME IInv, overload # "default", pc \in {"constructed", "undefined"}
             PROVE  /\ pc = "undefined" => successor # {}
                    /\ Pairs # <<>> /\ Len(Pairs) % 2 = 0
  BY DEF DecodableUntilMoved
<1>1. TypeOK /\ Held /\ Validates(Channels(given))
  BY DEF IInv
<1>2. Holds(Pairs, Holder.previews)
  BY <1>1, HolderHolds DEF Pairs
<1> QED BY <1>1, <1>2, ValidatedPairs DEF IInv

LEMMA IInvAccepted == IInv => WellFormedAccepted
<1> SUFFICES ASSUME IInv PROVE WellFormedAccepted
  OBVIOUS
<1>1. TypeOK
  BY DEF IInv
<1>2. ASSUME pc = "threw", Canonical(Channels(given)),
             \A m, n \in DOMAIN given : given[m] = given[n],
             \A n \in DOMAIN given : given[n] \in Fitting
      PROVE  FALSE
  <2>1. Refused
    BY <1>2 DEF IInv
  <2> QED BY <1>1, <1>2, <2>1, CanonicalValidates, NoChannels DEF Refused
<1>3. ASSUME pc = "constructed", overload # "default"
      PROVE  Validates(Channels(given))
  BY <1>3 DEF IInv
<1> QED BY <1>1, <1>2, <1>3, ValidatesComplete DEF WellFormedAccepted

LEMMA Invariance == Spec => []IInv
BY InitIInv, NextIInv, PTL DEF Spec

\* Every variable keeps its type, for any finite set of channel names.
THEOREM TypeCorrect == Spec => []TypeOK
<1>1. IInv => TypeOK
  BY DEF IInv
<1> QED BY <1>1, Invariance, PTL

\* Whatever the order of the hash map and however std::sort places equal elements,
\* the channels of a set of the prescribed form are stored as alternating ranks and
\* coverages in their numbers' order, and a move keeps them so.
THEOREM PairsSorted == Spec => []PairsInOrder
BY IInvOrder, Invariance, PTL

\* No channel that was handed over is lost or stored twice by construction,
\* extraction and moves, and all pairs are encoded alike.
THEOREM ChannelsKept == Spec => []EachChannelInOnePlace
BY IInvPlaces, Invariance, PTL

\* An object constructed from channels holds at least one pair for the decoders
\* until it is moved from.
THEOREM AlwaysDecodable == Spec => []DecodableUntilMoved
BY IInvDecodable, Invariance, PTL

\* A uniform set of channels of the prescribed form is never refused; an accepted
\* one has every number up to the last, complete but for the last, which has two
\* types or four.
THEOREM RefusalsJustified == Spec => []WellFormedAccepted
BY IInvAccepted, Invariance, PTL
=============================================================================
