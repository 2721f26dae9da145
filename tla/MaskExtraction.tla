----------------------------- MODULE MaskExtraction -----------------------------
(***************************************************************************)
(* What cryptomatte.h promises of masks() and masks_compressed(): a caller *)
(* asks for some hashes, or for "all of the cryptomatte masks", and in one *)
(* step gets one mask per object, holding the object's coverage at every   *)
(* level.  How the channels are chunked, read and accumulated is not seen. *)
(***************************************************************************)
EXTENDS RankCoverage

CONSTANTS RankData, Requests

VARIABLES
    rank,       \* the rank channels
    overload,   \* whether hashes were given
    request,    \* the hashes given
    answered,   \* the call has returned
    masks       \* its result, by id

vars == <<rank, overload, request, answered, masks>>

Objects == IF overload = "hashes" THEN request ELSE IdsOf(rank)

Init ==
    /\ rank \in RankData
    /\ \/ overload = "hashes" /\ request \in Requests
       \/ overload = "all" /\ request = {}
    /\ answered = FALSE
    /\ masks = <<>>

Answer ==
    /\ ~answered
    /\ answered' = TRUE
    /\ masks' = [h \in Objects |-> [p \in Pixels |-> CoverageOf(rank, h, p, NumLevels)]]
    /\ UNCHANGED <<rank, overload, request>>

Spec == Init /\ [][Answer]_vars /\ WF_vars(Answer)
=============================================================================
