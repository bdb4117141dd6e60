----------------------------- MODULE MCClientPool -----------------------------
(* Small instances of ClientPool for TLC.                                  *)
EXTENDS ClientPool, TLC

CONSTANTS pa, pb, acct1, acct2, b1, b2, b3, r1, r2, r3, r4, g1, g2, g3

MCBudgets == {b1, b2}
MCAccounts == {acct1, acct2}

On(account, size) == [account |-> account, size |-> size]

\* Two pools on one account, nothing re-pointed and nothing shut down.
SharedOpening == pa :> On(acct1, 1) @@ pb :> On(acct1, 1)
Nowhere == pa :> {} @@ pb :> {}

\* A reload: pa moves between accounts and may be shut down, pb joins it on
\* acct1 and is shut down.
MovingLater == pa :> {On(acct1, 1), On(acct2, 1)} @@ pb :> {}

\* One pool on its own, moved from one account to the other.
AloneOpening == pa :> On(acct1, 1)
AloneLater == pa :> {On(acct2, 1)}
AloneNowhere == pa :> {}

\* Requests, objects and goroutines are interchangeable.
Symmetry == Permutations(Requests) \cup Permutations(Budgets) \cup Permutations(Procs)
===============================================================================
