----------------------------- MODULE MCConnection -----------------------------
(* Small instances of Connection for TLC.                                  *)
EXTENDS Connection

CONSTANTS c1, j1, j2, a1, a2, a3

One(kind, a) == [kind |-> kind, todo |-> <<a>>]

AllTasks == {One("fetch", a1), One("fetch", a2), One("stat", a1), One("read", a1), One("stream", a2),
             [kind |-> "batch", todo |-> <<a1, a2, a3>>]}

\* Enough for a body to be filed as another's.
FetchTasks == {One("fetch", a1), One("fetch", a2)}
===============================================================================
