------------------------------ MODULE ChannelNames ------------------------------
(***************************************************************************)
(* Channel names, as metadata and detail::channel_repr read them, and      *)
(* detail::sort_and_validate_channels, which decides whether a set of them *)
(* can be the channels of a cryptomatte.                                   *)
(*                                                                         *)
(* A name is a record of what the code reads out of it, among others its   *)
(* index, the two digits before the last dot, and its type, the channel    *)
(* type its extension maps to.  The rest of a name is what follows the     *)
(* typename of a metadata: "numbered" if two digits come first, "bare" if  *)
(* there is nothing but the extension, "other" if neither or if the name   *)
(* does not begin with the typename.                                       *)
(***************************************************************************)
EXTENDS Integers, FiniteSets, FiniteSetsExt

NoIndex == -1     \* no two digits before the last dot
NoType == -1      \* an extension that names no channel type

Red == 0  Green == 1  Blue == 2  Alpha == 3
ChannelTypes == {Red, Green, Blue, Alpha}

\* Mutant of IsValidChannelName: no test for the two digits.
HasTypenameAndExtension(n, rest) == rest # "bare" /\ n.type # NoType

\* metadata::is_valid_channel_name and is_valid_legacy_channel_name, of a name n
\* whose rest behind the metadata's typename is given.
IsValidChannelName(n, rest) == rest = "numbered" /\ n.type # NoType
IsValidLegacyChannelName(n, rest) == rest = "bare" /\ n.type # NoType

\* channel_repr(std::string) throws for the others.
HasRepr(n) == n.index # NoIndex /\ n.type # NoType

\* Mutant of Before: the index alone.
BeforeByIndex(m, n) == m.index < n.index

\* channel_repr::operator<.
Before(m, n) == m.index < n.index \/ (m.index = n.index /\ m.type < n.type)

Indices(names) == {n.index : n \in names}
TypesAt(names, i) == {n.type : n \in {m \in names : m.index = i}}
LastIndex(names) == Max(Indices(names))

\* Mutant of Validates: any set of types may be incomplete.
ValidatesHalves(names) ==
    /\ Cardinality(names) % 2 = 0
    /\ \A n \in names : HasRepr(n)
    /\ names # {}
    /\ Indices(names) = 0 .. LastIndex(names)
    /\ \A i \in Indices(names) : Cardinality(TypesAt(names, i)) \in {2, 4}

\* Mutant of Validates: no channels at all are a valid sequence.
ValidatesNothing(names) ==
    names = {} \/
        /\ Cardinality(names) % 2 = 0
        /\ \A n \in names : HasRepr(n)
        /\ Indices(names) = 0 .. LastIndex(names)
        /\ \A i \in Indices(names) :
              Cardinality(TypesAt(names, i)) \in IF i = LastIndex(names) THEN {2, 4} ELSE {4}

\* The checks of sort_and_validate_channels, in the code's order.
Validates(names) ==
    /\ Cardinality(names) % 2 = 0
    /\ \A n \in names : HasRepr(n)
    /\ names # {}
    /\ Indices(names) = 0 .. LastIndex(names)
    /\ \A i \in Indices(names) :
          Cardinality(TypesAt(names, i)) \in IF i = LastIndex(names) THEN {2, 4} ELSE {4}
=============================================================================
