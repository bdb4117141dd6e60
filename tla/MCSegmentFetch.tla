---------------------------- MODULE MCSegmentFetch ----------------------------
(* Small instances of SegmentFetch and ProviderViews for TLC.              *)
EXTENDS SegmentFetch, TLC

CONSTANTS a, aNew, b, c,  \* aNew is a with its account edited
          idA, idB, idC, m1, v1, v2, g1, g2

MCIdOf == [p \in Providers |-> CASE p \in {a, aNew} -> idA [] p = b -> idB [] OTHER -> idC]

JustA == <<a>>
AThenB == <<a, b>>
AThenC == <<a, c>>
AllThree == <<a, c, b>>

NoLists == {}
ToAOrAB == {<<a>>, <<a, b>>}
ToAB == {<<a, b>>}
ToB == {<<b>>}
ToNewA == {<<aNew>>}

Everything == {<<>>}
AllOrA == {<<>>, <<idA>>}

\* Goroutines are interchangeable, and so are the slots for views.
Symmetry == Permutations(Fetchers) \cup Permutations(Views)
===============================================================================
