--------------------------- MODULE MCPublishing ---------------------------
(* Instances of Publishing for TLC: pages, posting IDs and who uses them.  *)
EXTENDS Publishing, TLC

CONSTANTS fb, ig, x1, x2

\* Every post on the Facebook page, which two posting IDs may publish to.
AllOnFacebook == [p \in Posts |-> fb]
Mixed == [p \in Posts |-> IF p = CHOOSE q \in Posts : TRUE THEN fb ELSE ig]
MCAssigned == (fb :> {x1, x2}) @@ (ig :> {x1})
OneAssigned == [g \in Pages |-> {x1}]

===========================================================================
