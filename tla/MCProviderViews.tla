---------------------------- MODULE MCProviderViews ----------------------------
(* Small instances of ProviderViews for TLC.                               *)
EXTENDS ProviderViews

CONSTANTS a, aNew, b, c,  \* aNew is a with its account edited
          idA, idB, idC, v1, v2, v3

MCIdOf == [p \in Providers |-> CASE p \in {a, aNew} -> idA [] p = b -> idB [] OTHER -> idC]

AThenB == <<a, b>>

\* Reloads drop a, drop b, edit a, drop everything, and bring all of it back.
MCLists == {<<a, b>>, <<b>>, <<aNew, c>>, <<c>>, <<>>}
MCSelections == {<<>>, <<idA>>, <<idB, idA>>}
===============================================================================
