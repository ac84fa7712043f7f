--------------------------- MODULE MCPostReview ---------------------------
(* Instances of PostReview for TLC: every post is on the same page.        *)
EXTENDS PostReview

CONSTANT g1

OnePage == [p \in Posts |-> g1]

===========================================================================
