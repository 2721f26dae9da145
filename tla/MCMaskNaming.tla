------------------------------ MODULE MCMaskNaming ------------------------------
(* An instance of MaskNaming for TLC. *)
EXTENDS MaskNaming

\* Two object names, and the hex strings, which may be object names as well.
SomeHashes == {"00000000", "80000000", "13851a76", "42c9679f"}
ZeroHashes == {"00000000", "80000000"}
SomeNames == SomeHashes \cup {"bunny", "car"}
HexOf == [h \in SomeHashes |-> h]
=============================================================================
