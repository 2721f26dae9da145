------------------------------ MODULE MCMasksFlat ------------------------------
(* An instance of MasksFlat for TLC. *)
EXTENDS MasksFlat

AnyPicture == RankPictures

\* A request may name nothing, one id, every id, and the zero hash.
AnyRequest == {{}, Ids, Ids \cup {Zero}} \cup {{h} : h \in Ids}
=============================================================================
