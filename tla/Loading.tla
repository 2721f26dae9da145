--------------------------------- MODULE Loading ---------------------------------
(***************************************************************************)
(* cryptomatte::load: the attributes of an image file are read into one    *)
(* metadata per cryptomatte key (metadata::from_json, with the manifests   *)
(* manifest::load finds for them), each metadata selects its channels by   *)
(* name, the image is read in one go and divided among the cryptomattes.   *)
(* OpenImageIO and compressed::image::read are external: a file is what    *)
(* they report of it.                                                      *)
(*                                                                         *)
(* Attributes come one by one in the file's order, those of several keys   *)
(* interleaved; the metadata in any order of the hash map they are         *)
(* collected in.  The channels of two typenames may overlap, because a     *)
(* typename is stripped from a channel name as often as it is found.       *)
(*                                                                         *)
(* The loader warns of a manifest it cannot load through the logger, while *)
(* another thread of the program may get or set the logger too.            *)
(***************************************************************************)
EXTENDS Sequences, ChannelNames, Logger, HexHash

CONSTANTS
    Scenarios,     \* what OpenImageIO reports of a file, with the logger calls of Other
    Loader, Other, \* the thread that loads, and another one
    Alphabetical,  \* the place of each typename in the order of std::string
    NotAString,    \* an attribute's value that is no text
    Disk,          \* the text of each file beside the image, by its path
    Unreachable,   \* the paths whose status the operating system refuses to tell
    ManifestLike   \* the cryptomatte keys that contain the word "manifest"

\* What may be missing is a set of at most one.  The text of a manifest is what it
\* parses as, the texts of its hashes in order, or {} if it is no json or has a value
\* that is no string; a manifest is its hashes.  (A json array of strings, or a single
\* string, is a text as well: its names are what the parser makes of it.)
NoManifest == {}

\* s_ValidAttribs.
ValidAttribs == {"name", "hash", "conversion", "manifest", "manif_file"}

\* An attribute whose name is not cryptomatte/..., and one that has another number
\* of sections than cryptomatte/<key>/<attribute>.
OtherAttribs == {"foreign", "malformed", "unknown"}

\* manifest::load looks for "manifest" in the whole of cryptomatte/<key>/<attribute>
\* first, so a key that contains the word makes every value an embedded manifest.
IsEmbedded(a) == a.attr = "manifest" \/ a.key \in ManifestLike

IsText(text) == text \subseteq Seq(Seq(STRING)) /\ \A g, h \in text : g = h

Files == {s.file : s \in Scenarios}
Scripts == {s.calls : s \in Scenarios}

ASSUME ThreadAssumption == Threads = {Loader, Other} /\ Loader # Other

ASSUME FileAssumption ==
    /\ \A f \in Files :
          /\ DOMAIN f = {"opens", "attributes", "channels", "halves"}
          /\ f.halves \subseteq f.channels
          /\ f.attributes \in Seq(SeqExt!ToSet(f.attributes))
          /\ \A a \in SeqExt!ToSet(f.attributes) :
                /\ a.attr \in ValidAttribs \cup OtherAttribs
                /\ a.attr = "name" => a.value \in DOMAIN Alphabetical \cup {NotAString}
                /\ a.attr \in {"manifest", "manif_file"} /\ IsEmbedded(a) =>
                      a.value = NotAString \/ IsText(a.value)
          /\ \A i, j \in DOMAIN f.attributes :
                /\ f.attributes[i].key = f.attributes[j].key
                /\ f.attributes[i].attr = f.attributes[j].attr
                => i = j
    /\ Scripts \subseteq Seq({"get", "set", "reset"})
    /\ "" \in DOMAIN Alphabetical
    /\ \A path \in DOMAIN Disk : IsText(Disk[path])
    /\ DOMAIN Disk \cap Unreachable = {}

VARIABLES
    file,          \* the file, of Files
    load_preview,  \* whether the caller wants the preview channels
    pc,            \* where load is
    position,      \* the attributes from_json has read
    result,        \* from_json's result: the metadata of each key
    metadatas,     \* the metadata, sorted by name
    channel_names, \* the names each metadata selects
    image,         \* the loaded channels not yet extracted
    out,           \* the cryptomattes constructed
    calls          \* the logger calls Other has not yet finished

arguments == <<file, load_preview>>
parsed == <<position, result>>
loading == <<arguments, pc, parsed, metadatas, channel_names, image, out>>
others == <<calls, loggerVars>>
vars == <<loading, others>>

-----------------------------------------------------------------------------
Init ==
    /\ \E s \in Scenarios : file = s.file /\ calls = s.calls
    /\ load_preview \in BOOLEAN
    /\ pc = "open"
    /\ position = 0
    /\ result = <<>>
    /\ metadatas = <<>>
    /\ channel_names = <<>>
    /\ image = {}
    /\ out = <<>>
    /\ LoggerInit

Open ==
    /\ pc = "open"
    /\ pc' = IF file.opens THEN "parse" ELSE "threw"
    /\ UNCHANGED <<arguments, parsed, metadatas, channel_names, image, out, others>>

-----------------------------------------------------------------------------
(* manifest::load and metadata::from_json.                                 *)

\* One hash that does not decode costs the whole manifest.
Decoded(text) ==
    {[i \in DOMAIN hashes |-> CHOOSE v \in HexStrToUint(hashes[i]) : TRUE] :
        hashes \in {h \in text : \A i \in DOMAIN h : HexStrToUint(h[i]) # {}}}

Sidecar(path) == IF path \in DOMAIN Disk THEN Decoded(Disk[path]) ELSE NoManifest

LoadManifest(a) == IF IsEmbedded(a) THEN Decoded(a.value) ELSE Sidecar(a.value)

\* std::filesystem::exists throws.
Terminates(a) == a.attr = "manif_file" /\ ~IsEmbedded(a) /\ a.value \in Unreachable

\* It warns of a manifest it cannot load.
Warns(a) == a.attr \in {"manifest", "manif_file"} /\ LoadManifest(a) = NoManifest

IsRejected(a) ==
    \/ a.attr \in {"malformed", "unknown"}
    \/ a.attr \in ValidAttribs /\ a.value = NotAString
    \/ a.attr = "hash" /\ a.value # "MurmurHash3_32"
    \/ a.attr = "conversion" /\ a.value # "uint32_to_float32"

\* Mutant of Partial: every attribute starts a metadata of its own.
PartialAfresh(key) == [name |-> "", manifest |-> NoManifest]

\* The partially populated or default-initialised metadata of a key.
Partial(key) ==
    IF key \in DOMAIN result THEN result[key] ELSE [name |-> "", manifest |-> NoManifest]

Updated(meta, a) ==
    CASE a.attr = "name" -> [meta EXCEPT !.name = a.value]
      [] a.attr \in {"manifest", "manif_file"} -> [meta EXCEPT !.manifest = LoadManifest(a)]
      [] OTHER -> meta

Parsing == pc = "parse" /\ position < Len(file.attributes)
Attribute == file.attributes[position + 1]

\* Mutant of SkipForeign: the loop does not go on.
SkipForeignStuck ==
    /\ Parsing
    /\ Attribute.attr = "foreign"
    /\ UNCHANGED vars

SkipForeign ==
    /\ Parsing
    /\ Attribute.attr = "foreign"
    /\ position' = position + 1
    /\ UNCHANGED <<arguments, pc, result, metadatas, channel_names, image, out, others>>

Warn ==
    /\ Parsing
    /\ Warns(Attribute)
    /\ ~IsRejected(Attribute)
    /\ ~Terminates(Attribute)
    /\ EnterGetLogger(Loader)
    /\ UNCHANGED <<loading, calls>>

WarnStep == GetLogger(Loader) /\ UNCHANGED <<loading, calls>>

ParseAttribute ==
    /\ Parsing
    /\ Attribute.attr \in ValidAttribs
    /\ ~IsRejected(Attribute)
    /\ ~Terminates(Attribute)
    /\ IF Warns(Attribute)
       THEN at[Loader] = "returned" /\ got[Loader] # Null /\ LeaveGetLogger(Loader)
       ELSE UNCHANGED loggerVars
    /\ LET key == Attribute.key
           meta == Updated(Partial(key), Attribute)
       IN result' = [k \in DOMAIN result \cup {key} |-> IF k = key THEN meta ELSE result[k]]
    /\ position' = position + 1
    /\ UNCHANGED <<arguments, pc, metadatas, channel_names, image, out, calls>>

RejectAttribute ==
    /\ Parsing
    /\ IsRejected(Attribute)
    /\ pc' = "threw"
    /\ UNCHANGED <<arguments, parsed, metadatas, channel_names, image, out, others>>

\* manifest::load is noexcept: an exception of exists or of get_logger ends the
\* process, and so does a warning through a null pointer.
Terminate ==
    /\ Parsing
    /\ \/ Terminates(Attribute) /\ ~IsRejected(Attribute)
       \/ at[Loader] = "threw"
       \/ at[Loader] = "returned" /\ got[Loader] = Null
    /\ pc' = "terminated"
    /\ alive' = FALSE
    /\ UNCHANGED <<arguments, parsed, metadatas, channel_names, image, out, calls,
                   s_logger, registered, at, got, sets, alone>>

MetadataOf(key) == [key |-> key, name |-> result[key].name, manifest |-> result[key].manifest]

\* Mutant of SortedByName: left in the order of the hash map.
AnyOrder(s) == TRUE

SortedByName(s) ==
    \A i, j \in DOMAIN s : i < j => Alphabetical[s[i].name] <= Alphabetical[s[j].name]

\* The end of from_json, and the sort in load: those of equal names in any order.
FinishParse ==
    /\ pc = "parse"
    /\ position = Len(file.attributes)
    /\ \/ /\ \E key \in DOMAIN result : result[key].name = ""
          /\ pc' = "threw"
          /\ UNCHANGED metadatas
       \/ /\ \A key \in DOMAIN result : result[key].name # ""
          /\ metadatas' \in {s \in SeqExt!SetToSeqs({MetadataOf(key) : key \in DOMAIN result}) :
                                SortedByName(s)}
          /\ pc' = IF metadatas' = <<>> THEN "returned" ELSE "select"
    /\ UNCHANGED <<arguments, parsed, channel_names, image, out, others>>

-----------------------------------------------------------------------------
(* The channels.                                                           *)

Data(meta) == {n \in file.channels : IsValidChannelName(n, n.rest[meta.name])}
Previews(meta) == {n \in file.channels : IsValidLegacyChannelName(n, n.rest[meta.name])}

\* Mutant of Mismatched: the preview channels must be float32 as well.
MismatchedAny(meta) == (Data(meta) \cup Previews(meta)) \cap file.halves

\* find_mismatched_channels.
Mismatched(meta) == Data(meta) \cap file.halves

\* One round of the loop that selects the channels.
SelectChannels ==
    LET meta == metadatas[Len(channel_names) + 1] IN
    /\ pc = "select"
    /\ Len(channel_names) < Len(metadatas)
    /\ Mismatched(meta) = {}
    /\ channel_names' = Append(channel_names,
          Data(meta) \cup IF load_preview THEN Previews(meta) ELSE {})
    /\ UNCHANGED <<arguments, pc, parsed, metadatas, image, out, others>>

RejectFormat ==
    /\ pc = "select"
    /\ Len(channel_names) < Len(metadatas)
    /\ Mismatched(metadatas[Len(channel_names) + 1]) # {}
    /\ pc' = "threw"
    /\ UNCHANGED <<arguments, parsed, metadatas, channel_names, image, out, others>>

\* Asked for no channel at all, compressed::image::read may refuse.  It is taken to
\* read what is in the file: a damaged file is not among the scenarios.
ReadImage ==
    /\ pc = "select"
    /\ Len(channel_names) = Len(metadatas)
    /\ image' = UNION SeqExt!ToSet(channel_names)
    /\ pc' \in {"divide"} \cup IF image' = {} THEN {"threw"} ELSE {}
    /\ UNCHANGED <<arguments, parsed, metadatas, channel_names, out, others>>

\* metadatas[idx].
Current == metadatas[Len(out) + 1]

Dividing == pc = "divide" /\ Len(out) < Len(metadatas)
Own == channel_names[Len(out) + 1]

\* A name that another cryptomatte has extracted before is missing from the image,
\* unless compressed::image::read, which was asked for it twice, has loaded it twice.
ConstructNext ==
    /\ Dividing
    /\ Own # {}
    /\ LET data == {n \in Own : IsValidChannelName(n, n.rest[Current.name])} IN
       /\ Validates(data)
       /\ out' = Append(out, [metadata |-> Current, channels |-> data,
                              previews |-> Own \ data])
    /\ image' = image \ Own
    /\ UNCHANGED <<arguments, pc, parsed, metadatas, channel_names, others>>

ExtractFails ==
    /\ Dividing
    /\ ~(Own \subseteq image)
    /\ pc' = "threw"
    /\ out' = <<>>
    /\ UNCHANGED <<arguments, parsed, metadatas, channel_names, image, others>>

\* The constructor throws; what was constructed before is dropped with it.
ConstructFails ==
    /\ Dividing
    /\ ~Validates({n \in Own : IsValidChannelName(n, n.rest[Current.name])})
    /\ pc' = "threw"
    /\ out' = <<>>
    /\ UNCHANGED <<arguments, parsed, metadatas, channel_names, image, others>>

Return ==
    /\ pc = "divide"
    /\ Len(out) = Len(metadatas)
    /\ pc' = "returned"
    /\ UNCHANGED <<arguments, parsed, metadatas, channel_names, image, out, others>>

Ended == pc \in {"returned", "threw", "terminated"}

LoadNext ==
    /\ alive
    /\ \/ Open
       \/ SkipForeign \/ Warn \/ WarnStep
       \/ ParseAttribute \/ RejectAttribute \/ Terminate \/ FinishParse
       \/ SelectChannels \/ RejectFormat \/ ReadImage
       \/ ConstructNext \/ ExtractFails \/ ConstructFails \/ Return

-----------------------------------------------------------------------------
(* The other thread.                                                       *)

OtherCalls ==
    /\ calls # <<>>
    /\ IF Head(calls) = "get" THEN EnterGetLogger(Other) ELSE EnterSetLogger(Other)
    /\ UNCHANGED <<loading, calls>>

OtherStep == GetLogger(Other) /\ UNCHANGED <<loading, calls>>

OtherSets ==
    /\ calls # <<>>
    /\ SetLogger(Other, IF Head(calls) = "set" THEN User ELSE Null)
    /\ calls' = Tail(calls)
    /\ UNCHANGED loading

\* It catches what get_logger may throw.
OtherLeaves ==
    /\ LeaveGetLogger(Other)
    /\ calls' = Tail(calls)
    /\ UNCHANGED loading

OtherNext ==
    /\ alive
    /\ OtherCalls \/ OtherStep \/ OtherSets \/ OtherLeaves

Race == alive /\ Collide /\ UNCHANGED <<loading, calls>>

Over == ~alive \/ (Ended /\ calls = <<>>)
Terminated == Over /\ UNCHANGED vars

Next == LoadNext \/ OtherNext \/ Race \/ Terminated

Spec == Init /\ [][Next]_vars /\ WF_vars(LoadNext) /\ WF_vars(OtherNext)

-----------------------------------------------------------------------------
IsMetadata(m) ==
    /\ m.key \in {a.key : a \in SeqExt!ToSet(file.attributes)}
    /\ m.name \in DOMAIN Alphabetical
    /\ Cardinality(m.manifest) <= 1
    /\ m.manifest \subseteq Seq(0 .. UintMax)

TypeOK ==
    /\ load_preview \in BOOLEAN
    /\ pc \in {"open", "parse", "select", "divide", "returned", "threw", "terminated"}
    /\ position \in 0 .. Len(file.attributes)
    /\ \A key \in DOMAIN result : IsMetadata(MetadataOf(key))
    /\ \A i \in DOMAIN metadatas : IsMetadata(metadatas[i])
    /\ channel_names \in Seq(SUBSET file.channels)
    /\ image \subseteq file.channels
    /\ \A i \in DOMAIN out : IsMetadata(out[i].metadata)
    /\ calls \in Seq({"get", "set", "reset"})
    /\ LoggerTypeOK

-----------------------------------------------------------------------------
(* What a file says, however it is read.                                   *)

Keys == {a.key : a \in {b \in SeqExt!ToSet(file.attributes) : b.attr \in ValidAttribs}}
Places(key, attrs) ==
    {i \in DOMAIN file.attributes : file.attributes[i].key = key /\ file.attributes[i].attr \in attrs}

NamesGiven(key) == {file.attributes[i].value : i \in Places(key, {"name"})}

\* Those of them that manifest::load is called for.
ManifestPlaces(key) == Places(key, {"manifest", "manif_file"})

Rejects == \E a \in SeqExt!ToSet(file.attributes) : IsRejected(a)
Nameless == \E key \in Keys : NamesGiven(key) \subseteq {""}
DataOf(name) == {n \in file.channels : n.rest[name] = "numbered" /\ n.type # NoType}
GivenNames == (UNION {NamesGiven(key) : key \in Keys}) \ {""}
SomeHalf == \E name \in GivenNames : DataOf(name) \cap file.halves # {}
SomeInvalid == \E name \in GivenNames : ~Validates(DataOf(name))
SomeShared ==
    \E k, l \in Keys : \E m \in NamesGiven(k), n \in NamesGiven(l) :
        /\ k # l
        /\ \E c \in file.channels :
              {c.rest[m], c.rest[n]} \subseteq {"numbered"} \cup IF load_preview THEN {"bare"} ELSE {}

\* The attributes of several keys may interleave in any order: each key gets one
\* metadata, with the name its own attribute gives and, if it has manifest attributes,
\* the manifest of one of them; what one attribute has set the later ones of other
\* kinds keep, and no key gets another's.
MetadataOwn ==
    metadatas # <<>> =>
        /\ Len(metadatas) = Cardinality(Keys)
        /\ {metadatas[i].key : i \in DOMAIN metadatas} = Keys
        /\ \A i \in DOMAIN metadatas :
              LET key == metadatas[i].key IN
              /\ metadatas[i].name \in NamesGiven(key)
              /\ IF ManifestPlaces(key) = {} THEN metadatas[i].manifest = NoManifest
                 ELSE \E j \in ManifestPlaces(key) :
                         metadatas[i].manifest = LoadManifest(file.attributes[j])

\* manifest.cpp, load: "accept potentially incorrect files which define both of these,
\* preferring whichever it finds first".  Where the embedded manifest comes first in
\* the file as well as in that function, and can be read, it is the one that counts.
FirstManifestPreferred ==
    \A i \in DOMAIN metadatas :
        LET key == metadatas[i].key
            first == file.attributes[Min(ManifestPlaces(key))]
        IN  ManifestPlaces(key) # {} /\ first.attr = "manifest" /\ LoadManifest(first) # NoManifest
            => metadatas[i].manifest = LoadManifest(first)

\* cryptomatte.h, load: "These cryptomattes will be ordered by their name
\* alphabetically".  Each has the channels of its own name and no others, and of
\* the previews those only if they were asked for.
CryptomattesOwn ==
    pc = "returned" =>
        /\ {out[i].metadata.key : i \in DOMAIN out} = Keys
        /\ Len(out) = Cardinality(Keys)
        /\ \A i, j \in DOMAIN out :
              i < j => Alphabetical[out[i].metadata.name] <= Alphabetical[out[j].metadata.name]
        /\ \A i \in DOMAIN out :
              LET name == out[i].metadata.name IN
              /\ name \in NamesGiven(out[i].metadata.key)
              /\ out[i].channels = DataOf(name)
              /\ out[i].previews = {n \in file.channels :
                    load_preview /\ n.rest[name] = "bare" /\ n.type # NoType}

\* metadata.h: "On failure of a single cryptomatte this function will abort".  A
\* file is loaded as a whole or not at all: one bad attribute, one key without a
\* name, one half-float data channel or one incomplete set of channels, of any of
\* the cryptomattes, and the call throws; and for no other reason but a file that
\* does not open or channels that two cryptomattes share.  A preview channel, a
\* foreign attribute or a broken manifest never makes it throw.
FailsExactlyIfWrong ==
    /\ pc = "threw" =>
          ~file.opens \/ Rejects \/ Nameless \/ SomeHalf \/ SomeInvalid \/ SomeShared
    /\ pc = "returned" =>
          file.opens /\ ~Rejects /\ ~Nameless /\ ~SomeHalf /\ ~SomeInvalid

\* manifest.h, load: "A decoded manifest if present and successfully parsed;
\* otherwise, std::nullopt".  A broken or missing manifest costs nothing but
\* itself.  As long as no two calls to the logger overlap, the process outlives it
\* with two exceptions: a path the system refuses to look at, and a default logger
\* that was taken away by set_logger(nullptr), as it cannot be created anew.
BrokenManifestSurvives ==
    alone /\ ~alive =>
        \/ position < Len(file.attributes) /\ Terminates(Attribute)
        \/ TakenAway

\* What hex_str_to_uint32_t makes of a text of HexLength digits, of either case, is
\* the number that uint32_t_to_hex_str prints as that text again, in lower case,
\* and a manifest of such texts is always read.
\* Another text that is accepted (spaces, a sign, 0x, or characters behind the
\* digits) has at most HexLength - 1 digits, and never wraps around.
Plain(s) == Len(s) = HexLength /\ SeqExt!ToSet(s) \subseteq HexDigits
LowerCase(c) ==
    IF \E d \in 1 .. 16 : UpperDigits[d] = c
    THEN LowerDigits[CHOOSE d \in 1 .. 16 : UpperDigits[d] = c] ELSE c
Printed(s) == [i \in DOMAIN s |-> LowerCase(s[i])]

TextGiven(a) ==
    IF IsEmbedded(a) THEN a.value ELSE IF a.value \in DOMAIN Disk THEN Disk[a.value] ELSE {}

\* The attribute that counts is the last, readable or not.
LastManifest(key) == file.attributes[Max(ManifestPlaces(key))]

HashesAsWritten ==
    \A i \in {j \in DOMAIN metadatas : ManifestPlaces(metadatas[j].key) # {}} :
        \A text \in TextGiven(LastManifest(metadatas[i].key)) :
            /\ (\A j \in DOMAIN text : Plain(text[j])) => metadatas[i].manifest # {}
            /\ \A hashes \in metadatas[i].manifest :
                  /\ Len(hashes) = Len(text)
                  /\ \A j \in DOMAIN text :
                        /\ Len(text[j]) = HexLength
                        /\ IF Plain(text[j]) THEN UintToHexStr(hashes[j]) = Printed(text[j])
                           ELSE hashes[j] < PlaceValue[HexLength - 1]

\* The calls of both threads end, whatever the attributes and the channels are,
\* if the process does not.
Returns == <>Over
=============================================================================
