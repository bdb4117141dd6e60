---------------------------- MODULE AccountPermits ----------------------------
(***************************************************************************)
(* What package nntp promises about the provider accounts, whatever pools  *)
(* dial them: a permit is handed out only while its account is under its   *)
(* ceiling, a ceiling that shrinks never takes a permit back, and a permit *)
(* counts against exactly one account (budget.go:9-23 and 72-74).          *)
(***************************************************************************)
EXTENDS Integers, FiniteSets

CONSTANTS Accounts,  \* provider accounts, one per host and user
          Requests   \* permit requests; each becomes at most one connection

VARIABLES ceiling,   \* ceiling[a]: the connection ceiling in force on a
          out        \* out[a]: the requests that hold a permit of a

accountVars == <<ceiling, out>>

Init ==
  /\ ceiling = [a \in Accounts |-> 0]
  /\ out = [a \in Accounts |-> {}]

\* Account a keeps the permits of `keep` and admits the requests of `new`, which
\* held a permit of no account; whoever is admitted finds the account under the
\* ceiling now in force.
Admit(a, keep, new) ==
  /\ out' = [out EXCEPT ![a] = keep \cup new]
  /\ \A r \in new : r \in Requests /\ \A b \in Accounts : r \notin out[b]
  /\ new # {} => Cardinality(keep \cup new) <= ceiling'[a]

\* The ceiling moves (a pool staked or dropped its claim); permits stay out.
Resize(a, new) ==
  /\ ceiling'[a] \in Nat
  /\ ceiling' = [ceiling EXCEPT ![a] = ceiling'[a]]
  /\ Admit(a, out[a], new)

\* A request takes a free permit.
Take(a, new) == UNCHANGED ceiling /\ Admit(a, out[a], new)

\* A permit comes back and may pass on to others.
Return(a, r, new) ==
  /\ r \in out[a]
  /\ UNCHANGED ceiling
  /\ Admit(a, out[a] \ {r}, new)

Next ==
  \E a \in Accounts :
    LET new == out'[a] \ out[a]
    IN \/ Take(a, new)
       \/ Resize(a, new)
       \/ \E r \in out[a] : Return(a, r, new)

Spec == Init /\ [][Next]_accountVars
===============================================================================
