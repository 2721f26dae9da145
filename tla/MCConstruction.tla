----------------------------- MODULE MCConstruction -----------------------------
(* An instance of Construction for TLC. *)
EXTENDS Construction

Numbered(i, t) == [rest |-> "numbered", index |-> i, type |-> t, spelling |-> 0]

\* Two numbers, the second with one pair; a second spelling of the first red;
\* "00x.r"; a preview channel; a channel of another layer.
SomeNames ==
    {Numbered(0, t) : t \in ChannelTypes} \cup {Numbered(1, t) : t \in {Red, Green}} \cup
    {[Numbered(0, Red) EXCEPT !.spelling = 1],
     [Numbered(0, Red) EXCEPT !.index = NoIndex],
     [Numbered(0, Red) EXCEPT !.rest = "bare", !.index = NoIndex],
     [Numbered(0, Red) EXCEPT !.rest = "other"]}
=============================================================================
