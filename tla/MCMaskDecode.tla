------------------------------ MODULE MCMaskDecode ------------------------------
(* An instance of MaskDecode for TLC. *)
EXTENDS MaskDecode

AnyPicture == RankPictures
AnyHash == Vals
=============================================================================
