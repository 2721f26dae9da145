-------------------------------- MODULE MCLoading --------------------------------
(* An instance of Loading for TLC. *)
EXTENDS Loading, SequencesExt

\* Manifests that parse: without entries, with two, and with one that does not decode.
Empty == {<<>>}
Two == {<<<<"f", "f", "f">>, <<"0", "A", "1">>>>}
OneBad == {<<<<"0", "0", "1">>, <<"0", "g", "1">>, <<"-", "0", "1">>>>}

A(key, attr, value) == [key |-> key, attr |-> attr, value |-> value]

\* Every kind of attribute, good and bad, for two keys, one of which contains the
\* word manifest.
AllKinds ==
    {A("k", "name", "A"), A("k", "name", ""), A("k", "hash", "MurmurHash3_32"),
     A("k", "hash", "other"), A("k", "conversion", "uint32_to_float32"),
     A("k", "conversion", NotAString), A("k", "manifest", {}),
     A("k", "manifest", Empty), A("k", "manif_file", "unreachable"),
     A("k", "manif_file", "m.json"), A("k", "manif_file", "bad.json"),
     A("k", "unknown", "?"), A("k", "malformed", "?"), A("", "foreign", "?"),
     A("manifest1", "name", "B"), A("manifest1", "manif_file", Empty)}

\* Two cryptomattes, one of them with both kinds of manifest.
TwoKeys(a, b) ==
    {A("k", "name", a), A("k", "manifest", Empty), A("k", "manif_file", "none.json"),
     A("l", "name", b), A("l", "manif_file", "m.json")}

Distinct(attributes) ==
    \A a, b \in attributes : a.key = b.key /\ a.attr = b.attr => a = b

\* Every order of up to three attributes of all kinds, and of two cryptomattes.
SomeAttributes ==
    UNION {SetToSeqs(S) : S \in {T \in UNION {kSubset(n, AllKinds) : n \in 0 .. 3} : Distinct(T)}}
    \cup UNION {SetToSeqs(TwoKeys("A", b)) : b \in {"A", "AA", "B"}}

SomeOrder == ("" :> 0 @@ "A" :> 1 @@ "AA" :> 2 @@ "B" :> 3)

Rest(r, names) == [t \in DOMAIN SomeOrder |-> IF t \in names THEN r ELSE "other"]
Layer(spelling, names) ==
    {[rest |-> Rest("numbered", names), index |-> 0, type |-> t, spelling |-> spelling] :
        t \in ChannelTypes}
Preview(spelling, names) ==
    [rest |-> Rest("bare", names), index |-> NoIndex, type |-> Red, spelling |-> spelling]

\* AA00.r is a channel of A as well: the A is stripped twice.
LayerA == Layer("A", {"A"})
LayerAA == Layer("AA", {"A", "AA"})
LayerB == Layer("B", {"B"})
PreviewA == Preview("A", {"A"})
PreviewB == Preview("B", {"B"})

\* The channels and which of them are half floats.
SomeChannels ==
    {<<LayerA, {}>>,
     <<LayerA \cup LayerAA, {}>>,
     <<LayerA \cup LayerB \cup {PreviewA, PreviewB}, {PreviewA}>>,
     <<LayerA \cup LayerB, {n \in LayerB : n.type = Red}>>,
     <<LayerB \cup {n \in LayerA : n.type # Blue}, {}>>,
     <<{PreviewA}, {}>>}

\* Texts of up to four characters, as the only hash of a manifest.
HashTexts ==
    UNION {[1 .. n -> {"0", "1", "a", "F", "-", "+", "x", " ", "g"}] : n \in 0 .. 3}
    \cup {<<"0", "0", "0", "0">>, <<"1", "1", "1", "1">>, <<" ", "0", "0", "1">>}

File(attributes, channels) ==
    [opens |-> TRUE, attributes |-> attributes, channels |-> channels[1], halves |-> channels[2]]
Alone(f) == [file |-> f, calls |-> <<>>]

\* The digits of a hash, and manifests of several, in a file with little else.
HashFiles ==
    {File(<<A("k", "manifest", text), A("k", "name", "A")>>, <<LayerA, {}>>) :
        text \in {{<<h>>} : h \in HashTexts} \cup {Two, OneBad}}

\* Files that make the loader warn up to twice, while the other thread does up to
\* three calls to the logger.
WarningFiles ==
    {File(s, <<LayerA, {}>>) :
        s \in {<<A("k", "name", "A"), A("k", "manifest", {})>>,
               <<A("k", "name", "A"), A("k", "manifest", {}), A("k", "manif_file", "none.json")>>,
               <<A("k", "manif_file", "unreachable")>>}}
SomeScripts == UNION {[1 .. n -> {"get", "set", "reset"}] : n \in 0 .. 3}

WarningScenarios == {[file |-> f, calls |-> s] : f \in WarningFiles, s \in SomeScripts}

\* Two cryptomattes, one of them with both kinds of manifest, in every order.
BothManifests ==
    {Alone(File(s, <<LayerA \cup LayerB, {}>>)) : s \in SetToSeqs(TwoKeys("A", "B"))}

SomeScenarios ==
    {Alone(File(s, c)) : s \in SomeAttributes, c \in SomeChannels}
    \cup {Alone([opens |-> FALSE, attributes |-> <<>>, channels |-> {}, halves |-> {}])}
    \cup {Alone(f) : f \in HashFiles}
    \cup WarningScenarios

SomeDisk == ("m.json" :> Empty @@ "bad.json" :> OneBad)
=============================================================================
