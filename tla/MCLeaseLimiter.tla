--------------------------- MODULE MCLeaseLimiter ---------------------------
(* Small instances of LeaseLimiter for TLC.                                *)
EXTENDS LeaseLimiter, TLC

CONSTANTS s1, p1, p2, g1, g2, g3

\* A view of one of the two providers, and one of both.
OneProvider == <<p1>>
TwoProviders == <<p1, p2>>

\* p1 is capped at one, at two or no more; the last is no cap at all.
SomeLimits == {p1 :> 1 @@ p2 :> 0, p1 :> 2 @@ p2 :> 0, p1 :> 0 @@ p2 :> 1, p1 :> 0 @@ p2 :> 0}

TwoAndOne == p1 :> 2 @@ p2 :> 1
===============================================================================
