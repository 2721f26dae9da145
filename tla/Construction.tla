------------------------------ MODULE Construction ------------------------------
(***************************************************************************)
(* The two constructors of cryptomatte, with the classification of channel *)
(* names by metadata and detail::sort_and_validate_channels: which of the  *)
(* channels a caller hands over become rank-coverage pairs, which become   *)
(* preview channels, and which calls throw.  Then the life of the object:  *)
(* its previews may be extracted, and all of it moved to a successor.  The *)
(* default constructor makes an object without channels, as a move leaves  *)
(* one; the decoders of several masks must not be called on such.          *)
(*                                                                         *)
(* A name is kept as what the code reads out of it: what follows the       *)
(* metadata's typename ("numbered": two digits first; "bare": nothing but  *)
(* the extension), the two digits before the last dot, the channel type    *)
(* the extension maps to, and which of the spellings of that name it is    *)
(* (r, R, red, or a longer number with the same last digits).              *)
(***************************************************************************)
EXTENDS Sequences, ChannelNames

CONSTANTS
    Names,       \* the channel names that occur
    Forms,       \* encoding parameters of a channel, or sizes of a vector
    Fitting      \* the forms with width * height elements

NameRecords ==
    [rest : {"numbered", "bare", "other"}, index : {NoIndex} \cup 0 .. 99,
     type : {NoType} \cup ChannelTypes, spelling : Nat]

ASSUME InputAssumption ==
    /\ Names \subseteq NameRecords /\ IsFiniteSet(Names)
    /\ Forms # {}
    /\ Fitting \subseteq Forms

VARIABLES
    overload,    \* "channels", "vectors", or "default"
    given,       \* the channels handed over: the form of each by its name
    pc,          \* where the constructor is
    reference,   \* the form of channels.begin()
    pending,     \* cryptomatte_channels not yet stored
    pendingLegacy, \* legacy_channels not yet stored
    m_Channels,  \* the names of the pairs, in order
    m_LegacyChannels, \* the names of the preview channels
    successor,   \* the object it was moved to, a set of at most one
    extracted    \* the preview channels a caller has extracted

arguments == <<overload, given>>
vars == <<overload, given, pc, reference, pending, pendingLegacy, m_Channels,
          m_LegacyChannels, successor, extracted>>

-----------------------------------------------------------------------------
Init ==
    /\ \/ /\ overload \in {"channels", "vectors"}
          /\ \E names \in SUBSET Names : given \in [names -> Forms]
          /\ pc = "classify"
       \/ overload = "default" /\ given = <<>> /\ pc = "constructed"
    /\ reference = CHOOSE f \in Forms : TRUE
    /\ pending = {}
    /\ pendingLegacy = {}
    /\ m_Channels = <<>>
    /\ m_LegacyChannels = {}
    /\ successor = {}
    /\ extracted = {}

RejectEmpty ==
    /\ pc = "classify"
    /\ given = <<>>
    /\ pc' = "threw"
    /\ UNCHANGED <<arguments, reference, pending, pendingLegacy, m_Channels,
                   m_LegacyChannels, successor, extracted>>

\* Names of neither kind are dropped.  The form all others are compared with is
\* that of channels.begin(): the map's order makes it any channel handed over.
Classify ==
    /\ pc = "classify"
    /\ given # <<>>
    /\ pending' = {n \in DOMAIN given : IsValidChannelName(n, n.rest)}
    /\ pendingLegacy' = {n \in DOMAIN given : IsValidLegacyChannelName(n, n.rest)}
    /\ \E n \in DOMAIN given : reference' = given[n]
    /\ pc' = "validate"
    /\ UNCHANGED <<arguments, m_Channels, m_LegacyChannels, successor, extracted>>

Validate ==
    /\ pc = "validate"
    /\ pc' = IF Validates(pending) THEN "store" ELSE "threw"
    /\ UNCHANGED <<arguments, reference, pending, pendingLegacy, m_Channels,
                   m_LegacyChannels, successor, extracted>>

\* std::sort may put names of equal index and type in any order.
Sorted(n) == n \in pending /\ \A m \in pending : ~Before(m, n)

\* A channel that is not encoded like the reference, or a vector of another size
\* than the reference's or than width * height.
Misfit(n) ==
    \/ given[n] # reference
    \/ overload = "vectors" /\ given[n] \notin Fitting

StoreChannel(n) ==
    /\ pc = "store"
    /\ Sorted(n)
    /\ ~Misfit(n)
    /\ m_Channels' = Append(m_Channels, n)
    /\ pending' = pending \ {n}
    /\ UNCHANGED <<arguments, pc, reference, pendingLegacy, m_LegacyChannels, successor, extracted>>

RejectChannel(n) ==
    /\ pc = "store"
    /\ Sorted(n)
    /\ Misfit(n)
    /\ pc' = "threw"
    /\ UNCHANGED <<arguments, reference, pending, pendingLegacy, m_Channels,
                   m_LegacyChannels, successor, extracted>>

\* The preview channels: any order, and only a vector of a wrong size is refused.
StoreLegacyChannel(n) ==
    /\ pc = "store"
    /\ pending = {}
    /\ n \in pendingLegacy
    /\ overload = "channels" \/ given[n] \in Fitting
    /\ m_LegacyChannels' = m_LegacyChannels \cup {n}
    /\ pendingLegacy' = pendingLegacy \ {n}
    /\ UNCHANGED <<arguments, pc, reference, pending, m_Channels, successor, extracted>>

RejectLegacyChannel(n) ==
    /\ pc = "store"
    /\ pending = {}
    /\ n \in pendingLegacy
    /\ overload = "vectors" /\ given[n] \notin Fitting
    /\ pc' = "threw"
    /\ UNCHANGED <<arguments, reference, pending, pendingLegacy, m_Channels,
                   m_LegacyChannels, successor, extracted>>

Construct ==
    /\ pc = "store"
    /\ pending = {} /\ pendingLegacy = {}
    /\ pc' = "constructed"
    /\ UNCHANGED <<arguments, reference, pending, pendingLegacy, m_Channels,
                   m_LegacyChannels, successor, extracted>>

\* Mutant of ExtractPreviewCompressed: copies the channels.
CopyPreviewCompressed ==
    /\ pc = "constructed"
    /\ extracted' = extracted \cup m_LegacyChannels
    /\ UNCHANGED <<arguments, pc, reference, pending, pendingLegacy, m_Channels,
                   m_LegacyChannels, successor>>

\* extract_preview_compressed moves the channels out; a second call gets none.
ExtractPreviewCompressed ==
    /\ pc = "constructed"
    /\ extracted' = extracted \cup m_LegacyChannels
    /\ m_LegacyChannels' = {}
    /\ UNCHANGED <<arguments, pc, reference, pending, pendingLegacy, m_Channels, successor>>

\* The same of the object it was moved to.
ExtractFromSuccessor ==
    /\ pc = "constructed"
    /\ successor # {}
    /\ extracted' = extracted \cup UNION {o.previews : o \in successor}
    /\ successor' = {[o EXCEPT !.previews = {}] : o \in successor}
    /\ UNCHANGED <<arguments, pc, reference, pending, pendingLegacy, m_Channels,
                   m_LegacyChannels>>

\* The implicit move constructor; containers that are moved from are left empty.
Move ==
    /\ pc = "constructed"
    /\ successor = {}
    /\ successor' = {[channels |-> m_Channels, previews |-> m_LegacyChannels]}
    /\ m_Channels' = <<>>
    /\ m_LegacyChannels' = {}
    /\ UNCHANGED <<arguments, pc, reference, pending, pendingLegacy, extracted>>

\* A decoder of several masks dereferences m_Channels.begin(); on another object it
\* changes nothing.
DecodeEmpty ==
    /\ pc = "constructed"
    /\ m_Channels = <<>> \/ \E o \in successor : o.channels = <<>>
    /\ pc' = "undefined"
    /\ UNCHANGED <<arguments, reference, pending, pendingLegacy, m_Channels,
                   m_LegacyChannels, successor, extracted>>

\* The object may also be dropped at any time.
Terminated == pc \in {"threw", "constructed", "undefined"} /\ UNCHANGED vars

Next ==
    \/ RejectEmpty \/ Classify \/ Validate
    \/ \E n \in Names : \/ StoreChannel(n) \/ RejectChannel(n)
                        \/ StoreLegacyChannel(n) \/ RejectLegacyChannel(n)
    \/ Construct
    \/ ExtractPreviewCompressed \/ ExtractFromSuccessor \/ Move \/ DecodeEmpty
    \/ Terminated

Spec == Init /\ [][Next]_vars

-----------------------------------------------------------------------------
Channels(c) == {n \in DOMAIN c : n.rest = "numbered" /\ n.type # NoType}
Previews(c) == {n \in DOMAIN c : n.rest = "bare" /\ n.type # NoType}

TypeOK ==
    /\ overload \in {"channels", "vectors", "default"}
    /\ DOMAIN given \subseteq Names
    /\ given \in [DOMAIN given -> Forms]
    /\ pc \in {"classify", "validate", "store", "constructed", "threw", "undefined"}
    /\ reference \in Forms
    /\ pending \subseteq {n \in Names : n.rest = "numbered"}
    /\ m_Channels \in Seq({n \in Names : n.rest = "numbered"})
    /\ Cardinality(successor) <= 1
    /\ pendingLegacy \cup m_LegacyChannels \cup extracted \subseteq {n \in Names : n.rest = "bare"}

\* Rank-coverage pairs in the order the specification of the format gives them,
\* complete but for the last number, which may have its first pair only.
Canonical(names) ==
    /\ \A n \in names : HasRepr(n)
    /\ \A m, n \in names : m.index = n.index /\ m.type = n.type => m = n
    /\ names # {}
    /\ LET last == LastIndex(names) IN
       \E types \in {{Red, Green}, ChannelTypes} :
          {<<n.index, n.type>> : n \in names} =
             ((0 .. last - 1) \X ChannelTypes) \cup ({last} \X types)

\* The object that holds the channels now.
Holder ==
    IF successor = {} THEN [channels |-> m_Channels, previews |-> m_LegacyChannels]
    ELSE CHOOSE o \in successor : TRUE
Pairs == Holder.channels

\* For channels handed over in the form the format prescribes, what the decoders
\* assume of m_Channels is true: element j is the channel numbered j \div 4 of
\* type j % 4, so each even element is a rank and the next one its coverage,
\* whatever the order of the hash map and of the sort.
PairsInOrder ==
    pc = "constructed" /\ Canonical(Channels(given)) =>
        /\ Len(Pairs) % 2 = 0
        /\ \A j \in 0 .. Len(Pairs) - 1 :
              /\ Pairs[j + 1].index = j \div 4
              /\ Pairs[j + 1].type = j % 4

\* However a constructor call ended well, and wherever the object was moved, each
\* channel handed over is in exactly one place: once among the pairs, or among the
\* previews the object still has, or among those extracted; no channel is moved out
\* of its map entry twice, and all those decoded together are encoded alike.
EachChannelInOnePlace ==
    pc = "constructed" =>
        /\ {Pairs[j] : j \in DOMAIN Pairs} = Channels(given)
        /\ Len(Pairs) = Cardinality(Channels(given))
        /\ Holder.previews \cap extracted = {}
        /\ Holder.previews \cup extracted = Previews(given)
        /\ successor # {} => m_Channels = <<>> /\ m_LegacyChannels = {}
        /\ \A m, n \in Channels(given) : given[m] = given[n]

\* What every decoder assumes when it takes m_Channels.begin() and the coverage
\* behind each rank: a constructor that was given channels leaves at least one
\* pair and no half of one, extraction and a move to another object included.
\* Only an object made by the default constructor, or one that was moved from, is
\* undefined to decode.
DecodableUntilMoved ==
    overload # "default" =>
        /\ pc = "undefined" => successor # {} /\ Pairs # <<>>
        /\ pc = "constructed" => Pairs # <<>> /\ Len(Pairs) % 2 = 0

\* A caller that hands over a canonical set of channels, all of one form and of
\* the size of the image, is never refused, whatever the hash map's order.  What is
\* accepted has all four types of every number below the last, none left out, and
\* two or four of the last number, in an even number of names: a set with a gap, an
\* incomplete number before the last, or one or three types of the last is refused.
\* Which two types the last number has is not looked at, nor that a name is given in
\* one spelling only: not all that is accepted is Canonical.
WellFormedAccepted ==
    /\ pc = "threw" =>
          ~ /\ Canonical(Channels(given))
            /\ \A m, n \in DOMAIN given : given[m] = given[n]
            /\ \A n \in DOMAIN given : given[n] \in Fitting
    /\ pc = "constructed" /\ overload # "default" =>
          LET names == Channels(given)
              last == LastIndex(names)
          IN  /\ Cardinality(names) % 2 = 0
              /\ \A i \in 0 .. last - 1 : TypesAt(names, i) = ChannelTypes
              /\ Cardinality(TypesAt(names, last)) \in {2, 4}
=============================================================================
