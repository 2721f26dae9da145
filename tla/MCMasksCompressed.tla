--------------------------- MODULE MCMasksCompressed ---------------------------
(* Instances of MasksCompressed for TLC. *)
EXTENDS MasksCompressed

\* Every picture, whether or not the early exit is sound on it.
AnyPicture == RankPictures

\* A request may name nothing, one id, every id, and the zero hash.
AnyRequest == {{}, Ids, Ids \cup {Zero}} \cup {{h} : h \in Ids}
=============================================================================
