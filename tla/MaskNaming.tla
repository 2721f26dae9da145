-------------------------------- MODULE MaskNaming --------------------------------
(***************************************************************************)
(* Names and hashes around the decoders: the overloads of mask and masks   *)
(* (and of mask_compressed and masks_compressed, which do the same) that   *)
(* take names look their hashes up in the manifest, and the overloads that *)
(* return several masks name them with detail::map_to_string.              *)
(*                                                                         *)
(* A mask is known by the hash it was decoded for.  The decoders keep the  *)
(* masks in a map keyed by float32, so the hashes of the two zeros are the *)
(* same key, and the map keeps the one that was inserted first.            *)
(*                                                                         *)
(* The Python bindings have one mask and one masks for all overloads and   *)
(* choose by the argument: pybind11 tries the alternatives of the variant  *)
(* in turn, strings first, and raises a TypeError if none fits.            *)
(***************************************************************************)
EXTENDS Integers, Sequences, FiniteSets, FiniteSetsExt

SeqExt == INSTANCE SequencesExt

CONSTANTS
    Hashes,       \* the 32-bit hashes that occur
    Zeros,        \* those that are a float32 zero
    Names,        \* the names that occur, in manifests, calls and results
    Hex,          \* uint32_t_to_hex_str
    MaxManifest,  \* bound: entries of a manifest
    MaxArguments  \* bound: names or hashes in a call, ids in the channels

\* What a Python list may hold.
Items == [type : {"str"}, value : Names] \cup [type : {"int"}, value : Hashes] \cup [type : {"other"}]

ASSUME NamingAssumption ==
    /\ Zeros \subseteq Hashes
    /\ Hex \in [Hashes -> Names]
    /\ \A g, h \in Hashes : Hex[g] = Hex[h] => g = h
    /\ MaxManifest \in Nat
    /\ MaxArguments \in Nat \ {0}

VARIABLES
    manifest,    \* m_Mapping: <<name, hash>> in the manifest's order
    present,     \* whether the metadata has a manifest; if not, it counts as empty
    python,      \* whether the call comes from Python
    argument,    \* its argument there: a list, as a set of at most one, {} being None
    call,        \* the overload called, or the method of the bindings
    names,       \* the names asked for
    pc,          \* where the call is
    hashes,      \* looked up so far, asked for, or met in the rank channels
    keys,        \* the keys of the decoded masks not yet named
    out          \* the result: by name, the hash whose mask it is

object == <<manifest, present>>
input == <<object, python, argument, call, names>>
vars == <<input, pc, hashes, keys, out>>

ByName == {"mask(name)", "masks(names)"}

\* What a json object can hold: a name occurs once.
Manifests ==
    {m \in SeqExt!BoundedSeq(Names \X Hashes, MaxManifest) :
        \A i, j \in DOMAIN m : m[i][1] = m[j][1] => i = j}

\* Equality of two hashes as float32.  A NaN would be unequal to itself; no hash is one.
Same(g, h) == g = h \/ {g, h} \subseteq Zeros

EntriesFor(h) == {j \in DOMAIN manifest : Same(manifest[j][2], h)}

\* Mutant of NameOf: the hex string whenever there is one.
HexNameOf(h) == Hex[h]

\* Mutant of NameOf: the name of the first entry, whose hash it is or not.
FirstNameOf(h) == IF manifest # <<>> THEN manifest[1][1] ELSE Hex[h]

\* map_to_string: the name of the last entry with the hash, or its hex string.
NameOf(h) ==
    IF EntriesFor(h) = {} THEN Hex[h]
    ELSE manifest[Max(EntriesFor(h))][1]

\* manifest::contains and manifest::hash: the first entry with the name.
Contains(n) == \E j \in DOMAIN manifest : manifest[j][1] = n
Hash(n) == manifest[Min({j \in DOMAIN manifest : manifest[j][1] = n})][2]

\* Mutant of Inserted: keys by their bits.
InsertedByBits(hs) == {hs[j] : j \in DOMAIN hs}

\* The keys of a map into which the hashes are inserted in turn.
Inserted(hs) == {hs[j] : j \in {k \in DOMAIN hs : \A i \in 1 .. k - 1 : ~Same(hs[i], hs[k])}}

-----------------------------------------------------------------------------
Ids == SeqExt!BoundedSeq(Hashes \ Zeros, MaxArguments)

InitCpp ==
    /\ python = FALSE
    /\ argument = {}
    /\ \/ call = "mask(name)" /\ names \in [{1} -> Names] /\ hashes = <<>>
       \/ call = "masks(names)" /\ names \in SeqExt!BoundedSeq(Names, MaxArguments) /\ hashes = <<>>
       \/ call = "masks(hashes)" /\ names = <<>> /\ hashes \in SeqExt!BoundedSeq(Hashes, MaxArguments)
       \/ call = "masks()" /\ names = <<>> /\ hashes \in Ids
    /\ pc = IF call \in ByName THEN "begin" ELSE "decode"

InitPython ==
    /\ python = TRUE
    /\ \/ call = "mask" /\ \E item \in Items : argument = {<<item>>}
       \/ call = "masks" /\ argument \in {{}} \cup {{a} : a \in SeqExt!BoundedSeq(Items, MaxArguments)}
    /\ names = <<>>
    /\ hashes = <<>>
    /\ pc = "dispatch"

Init ==
    /\ manifest \in Manifests
    /\ present \in BOOLEAN
    /\ present \/ manifest = <<>>
    /\ InitCpp \/ InitPython
    /\ keys = {}
    /\ out = <<>>

-----------------------------------------------------------------------------
(* The bindings.                                                           *)

AllOf(type, items) == \A j \in DOMAIN items : items[j].type = type
Values(items) == [j \in DOMAIN items |-> items[j].value]

\* A list of strings, the empty one among them.
DispatchNames ==
    /\ pc = "dispatch"
    /\ \E items \in argument : AllOf("str", items) /\ names' = Values(items)
    /\ call' = IF call = "mask" THEN "mask(name)" ELSE "masks(names)"
    /\ pc' = "begin"
    /\ UNCHANGED <<object, python, argument, hashes, keys, out>>

DispatchHashes ==
    /\ pc = "dispatch"
    /\ \E items \in argument : items # <<>> /\ AllOf("int", items) /\ hashes' = Values(items)
    /\ call' = IF call = "mask" THEN "mask(hash)" ELSE "masks(hashes)"
    /\ pc' = IF call = "mask" THEN "returned" ELSE "decode"
    /\ UNCHANGED <<object, python, argument, names, keys, out>>

DispatchNone ==
    /\ pc = "dispatch"
    /\ argument = {}
    /\ call' = "masks()"
    /\ hashes' \in Ids
    /\ pc' = "decode"
    /\ UNCHANGED <<object, python, argument, names, keys, out>>

RaiseTypeError ==
    /\ pc = "dispatch"
    /\ \E items \in argument : ~AllOf("str", items) /\ ~AllOf("int", items)
    /\ pc' = "TypeError"
    /\ UNCHANGED <<input, hashes, keys, out>>

-----------------------------------------------------------------------------
(* The overloads.                                                          *)

\* std::invalid_argument without a manifest, whatever the names.
CheckManifest ==
    /\ pc = "begin"
    /\ pc' = IF present THEN "lookup" ELSE "threw"
    /\ UNCHANGED <<input, hashes, keys, out>>

Position == Len(hashes) + 1    \* the name looked up next

LookUp ==
    /\ pc = "lookup"
    /\ Position <= Len(names)
    /\ Contains(names[Position])
    /\ hashes' = Append(hashes, Hash(names[Position]))
    /\ UNCHANGED <<input, pc, keys, out>>

\* Mutant of LookUpFails: a name that is not there has hash zero.
LookUpAnyway ==
    /\ pc = "lookup"
    /\ Position <= Len(names)
    /\ ~Contains(names[Position])
    /\ \E z \in Zeros : hashes' = Append(hashes, z)
    /\ UNCHANGED <<input, pc, keys, out>>

\* std::invalid_argument at the first name that is not in the manifest.
LookUpFails ==
    /\ pc = "lookup"
    /\ Position <= Len(names)
    /\ ~Contains(names[Position])
    /\ pc' = "threw"
    /\ UNCHANGED <<input, hashes, keys, out>>

LookedUp ==
    /\ pc = "lookup"
    /\ Position > Len(names)
    /\ pc' = IF call = "mask(name)" THEN "returned" ELSE "decode"
    /\ UNCHANGED <<input, hashes, keys, out>>

\* One mask per key: for masks(hashes) whether found in the channels or not.
Decode ==
    /\ pc = "decode"
    /\ keys' = Inserted(hashes)
    /\ pc' = "name"
    /\ UNCHANGED <<input, hashes, out>>

\* One round of map_to_string, in the hash map's order; the last mask of a name
\* replaces the others.
NameMask(h) ==
    /\ pc = "name"
    /\ h \in keys
    /\ out' = [n \in DOMAIN out \cup {NameOf(h)} |-> IF n = NameOf(h) THEN h ELSE out[n]]
    /\ keys' = keys \ {h}
    /\ UNCHANGED <<input, pc, hashes>>

Return ==
    /\ pc = "name"
    /\ keys = {}
    /\ pc' = "returned"
    /\ UNCHANGED <<input, hashes, keys, out>>

Terminated == pc \in {"threw", "TypeError", "returned"} /\ UNCHANGED vars

Next ==
    \/ DispatchNames \/ DispatchHashes \/ DispatchNone \/ RaiseTypeError
    \/ CheckManifest \/ LookUp \/ LookUpFails \/ LookedUp
    \/ Decode
    \/ \E h \in Hashes : NameMask(h)
    \/ Return
    \/ Terminated

Spec == Init /\ [][Next]_vars

-----------------------------------------------------------------------------
TypeOK ==
    /\ manifest \in Seq(Names \X Hashes)
    /\ present \in BOOLEAN
    /\ names \in Seq(Names)
    /\ python \in BOOLEAN
    /\ \A items \in argument : items \in Seq(Items)
    /\ call \in ByName \cup {"masks(hashes)", "masks()"}
            \cup IF python THEN {"mask(hash)", "mask", "masks"} ELSE {}
    /\ pc \in {"dispatch", "begin", "lookup", "decode", "name", "threw", "TypeError", "returned"}
    /\ hashes \in Seq(Hashes)
    /\ Len(hashes) <= MaxArguments
    /\ keys \subseteq Hashes
    /\ \A g, h \in keys : Same(g, h) => g = h
    /\ DOMAIN out \subseteq Names

\* The overloads by name throw exactly when there is no manifest or a name is not
\* in it (cryptomatte.h: "will throw a std::invalid_argument"), and otherwise
\* decode, name for name, the hashes the manifest gives: a call never goes on
\* with some of its names, and the others never throw.  From Python, a list of
\* strings is such a call, the empty list too, and fails without a manifest; one
\* of integers or None never throws, and a mixed one never reaches the library.
Asked ==
    IF \E items \in argument : AllOf("str", items) THEN Values(CHOOSE items \in argument : TRUE)
    ELSE names

ThrowsOnUnknown ==
    LET Known == present /\ \A j \in DOMAIN Asked : Contains(Asked[j])
        Strings == ~python \/ \E items \in argument : AllOf("str", items)
    IN /\ pc = "threw" => call \in ByName /\ Strings /\ ~Known
       /\ pc = "TypeError" =>
             \E items \in argument : \E i, j \in DOMAIN items :
                 items[i].type = "other" \/ items[i].type # items[j].type
       /\ pc \in {"decode", "name", "returned"} /\ call \in ByName =>
             /\ Strings /\ Known
             /\ Len(hashes) = Len(Asked)
             /\ \A j \in DOMAIN Asked : \E i \in DOMAIN manifest : manifest[i] = <<Asked[j], hashes[j]>>

\* No mask is ever returned under the name of another object: a name in the
\* result is one the manifest gives to the mask's hash, or the hash itself where
\* the manifest has none, whatever collides.
NoMislabelledMask ==
    \A n \in DOMAIN out :
        \/ n = Hex[out[n]] /\ \A j \in DOMAIN manifest : ~Same(manifest[j][2], out[n])
        \/ \E j \in DOMAIN manifest : manifest[j][1] = n /\ Same(manifest[j][2], out[n])

\* No two objects of one hash, and no object named like the hash of another.
Unambiguous ==
    /\ \A i, j \in DOMAIN manifest : Same(manifest[i][2], manifest[j][2]) => i = j
    /\ \A j \in DOMAIN manifest, h \in Hashes : manifest[j][1] = Hex[h] => Same(manifest[j][2], h)

\* With an unambiguous manifest no mask is lost in the renaming, in any order of
\* the hash map: each key named so far has its entry, and masks(names) answers
\* exactly the names asked for, however often they are repeated.
EachMaskNamed ==
    Unambiguous =>
        /\ \A h \in Inserted(hashes) \ keys :
              pc \in {"name", "returned"} /\ call \notin {"mask(name)", "mask(hash)"} =>
                  NameOf(h) \in DOMAIN out /\ out[NameOf(h)] = h
        /\ pc = "returned" /\ call = "masks(names)" =>
              DOMAIN out = {Asked[j] : j \in DOMAIN Asked}
=============================================================================
