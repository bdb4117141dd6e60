------------------------------ MODULE ConnBudget ------------------------------
(***************************************************************************)
(* The connection budget of a provider account (pkg/usenet/nntp/budget.go).*)
(*                                                                         *)
(* Every ClientPool that dials an account takes its permits from the one   *)
(* connBudget the registry holds for that account.  A budget object lives  *)
(* until nothing references it (retire); a later claim on the account then *)
(* creates a fresh object, while a goroutine that read the old pointer may *)
(* still call it.  Objects therefore have identities of their own.         *)
(*                                                                         *)
(* A permit request is what wait() returns or tryAcquire() answers: it is  *)
(* queued, or it holds a permit, until cancel() or release() ends it.  The *)
(* callers are modelled by what the methods allow: any pool claims any     *)
(* account, any free request tries or waits on any object ever created.    *)
(* Each action is one critical section of the budget's lock.               *)
(***************************************************************************)
EXTENDS Integers, FiniteSets, SequencesExt

CONSTANTS Pools,     \* client pools
          Accounts,  \* provider accounts: budgetKey(host, user)
          Budgets,   \* identities of connBudget objects
          Requests,  \* permit requests
          Sizes,     \* the maxConn values pools are configured with
          None       \* no account, no object

ASSUME BudgetAssumption ==
  /\ IsFiniteSet(Requests)
  /\ Sizes \subseteq Nat
  /\ None \notin Accounts \cup Budgets

NoClaim == -1

VARIABLES registry,  \* registry[a]: the object registered for account a
          key,       \* key[b]: the account b was created for, None before that
          claims,    \* claims[b][p]: what pool p claims on b
          limit,     \* limit[b]: the ceiling in force
          inUse,     \* inUse[b]: permits out
          waiters,   \* waiters[b]: blocked requests, oldest first
          permit,    \* permit[r]: "free", "queued" or "held"
          under,     \* under[r]: the object r is queued on or holds a permit of
          retiring   \* objects some caller has unlocked and is about to retire;
                     \* two callers retiring one object count as one

budgetVars == <<registry, key, claims, limit, inUse, waiters, permit, under, retiring>>

BudgetInit ==
  /\ registry = [a \in Accounts |-> None]
  /\ key = [b \in Budgets |-> None]
  /\ claims = [b \in Budgets |-> [p \in Pools |-> NoClaim]]
  /\ limit = [b \in Budgets |-> 0]
  /\ inUse = [b \in Budgets |-> 0]
  /\ waiters = [b \in Budgets |-> <<>>]
  /\ permit = [r \in Requests |-> "free"]
  /\ under = [r \in Requests |-> None]
  /\ retiring = {}

Created == {b \in Budgets : key[b] # None}
Unclaimed(claim) == \A p \in Pools : claim[p] = NoClaim

-------------------------------------------------------------------------------
(* grantLocked: permits go to the oldest waiters while there is room.      *)

\* How many of `queue` are granted when `used` of `lim` permits are out.
Room(lim, used, queue) ==
  IF used >= lim THEN 0
  ELSE IF Len(queue) <= lim - used THEN Len(queue) ELSE lim - used

Oldest(queue, n) == {queue[i] : i \in 1..n}

\* A slip: the newest waiter is served first.
GrantNewest(b, lim, used, queue, now) ==
  LET n == Room(lim, used, queue)
      k == Len(queue) - n
  IN /\ limit' = [limit EXCEPT ![b] = lim]
     /\ inUse' = [inUse EXCEPT ![b] = used + n]
     /\ waiters' = [waiters EXCEPT ![b] = SubSeq(queue, 1, k)]
     /\ permit' = [r \in Requests |->
                     IF r \in {queue[i] : i \in (k + 1)..Len(queue)} THEN "held" ELSE now[r]]

\* b now has `used` permits out and `queue` waiting, under ceiling `lim`, and
\* the requests stand at `now`; grantLocked then runs.
Grant(b, lim, used, queue, now) ==
  LET n == Room(lim, used, queue)
  IN /\ limit' = [limit EXCEPT ![b] = lim]
     /\ inUse' = [inUse EXCEPT ![b] = used + n]
     /\ waiters' = [waiters EXCEPT ![b] = SubSeq(queue, n + 1, Len(queue))]
     /\ permit' = [r \in Requests |->
                     IF r \in Oldest(queue, n) THEN "held" ELSE now[r]]

\* A slip: a raised limit serves nobody.
RecomputeOnly(b, claim) ==
  \E n \in {0} \cup ({claim[p] : p \in Pools} \ {NoClaim}) :
    /\ \A p \in Pools : claim[p] <= n
    /\ claims' = [claims EXCEPT ![b] = claim]
    /\ limit' = [limit EXCEPT ![b] = n]
    /\ UNCHANGED <<inUse, waiters, permit>>

\* recomputeLimitLocked: the ceiling is the largest claim, 0 without any.
Recompute(b, claim) ==
  \E n \in {0} \cup ({claim[p] : p \in Pools} \ {NoClaim}) :
    /\ \A p \in Pools : claim[p] <= n
    /\ claims' = [claims EXCEPT ![b] = claim]
    /\ Grant(b, n, inUse[b], waiters[b], permit)

-------------------------------------------------------------------------------
(* The operations.                                                         *)

\* claimBudget: pool p claims n connections of account a, on the registered
\* object or, if there is none, on a fresh one.
ClaimBudget(p, a, b, n) ==
  /\ \/ registry[a] = b
     \/ registry[a] = None /\ key[b] = None
  /\ registry' = [registry EXCEPT ![a] = b]
  /\ key' = [key EXCEPT ![b] = a]
  /\ Recompute(b, [claims[b] EXCEPT ![p] = n])
  /\ UNCHANGED <<under, retiring>>

\* dropClaim, up to the unlock before its call of retire.
DropClaim(p, b) ==
  /\ Recompute(b, [claims[b] EXCEPT ![p] = NoClaim])
  /\ retiring' = retiring \cup {b}
  /\ UNCHANGED <<registry, key, under>>

\* Slips: retire does not look again; it looks at the claims alone.
RetireUnchecked(b) ==
  /\ b \in retiring
  /\ retiring' = retiring \ {b}
  /\ registry' = [registry EXCEPT ![key[b]] = IF @ = b THEN None ELSE @]
  /\ UNCHANGED <<key, claims, limit, inUse, waiters, permit, under>>

RetireIgnoringPermits(b) ==
  /\ b \in retiring
  /\ retiring' = retiring \ {b}
  /\ registry' = IF Unclaimed(claims[b]) /\ registry[key[b]] = b
                 THEN [registry EXCEPT ![key[b]] = None]
                 ELSE registry
  /\ UNCHANGED <<key, claims, limit, inUse, waiters, permit, under>>

\* retire looks again under both locks before it forgets the object.
Retire(b) ==
  /\ b \in retiring
  /\ retiring' = retiring \ {b}
  /\ registry' = IF Unclaimed(claims[b]) /\ inUse[b] = 0 /\ registry[key[b]] = b
                 THEN [registry EXCEPT ![key[b]] = None]
                 ELSE registry
  /\ UNCHANGED <<key, claims, limit, inUse, waiters, permit, under>>

HasRoom(b) == inUse[b] < limit[b]

\* tryAcquire that succeeds; one that fails changes nothing.
TryAcquire(r, b) ==
  /\ permit[r] = "free"
  /\ HasRoom(b)
  /\ inUse' = [inUse EXCEPT ![b] = @ + 1]
  /\ permit' = [permit EXCEPT ![r] = "held"]
  /\ under' = [under EXCEPT ![r] = b]
  /\ UNCHANGED <<registry, key, claims, limit, waiters, retiring>>

\* wait: join the queue, and be served at once if there is room.
Wait(r, b) ==
  /\ permit[r] = "free"
  /\ under' = [under EXCEPT ![r] = b]
  /\ Grant(b, limit[b], inUse[b], Append(waiters[b], r),
           [permit EXCEPT ![r] = "queued"])
  /\ UNCHANGED <<registry, key, claims, retiring>>

\* releaseLocked on the object r holds a permit of: r is done, the permit
\* goes to the oldest waiter.
GiveBack(r) ==
  LET b == under[r]
  IN /\ permit[r] = "held"
     /\ Grant(b, limit[b], IF inUse[b] > 0 THEN inUse[b] - 1 ELSE inUse[b],
              waiters[b], [permit EXCEPT ![r] = "free"])
     /\ under' = [under EXCEPT ![r] = None]
     /\ UNCHANGED <<registry, key, claims>>

\* release: an object left without claims and permits is due to retire.
Release(r) ==
  /\ GiveBack(r)
  /\ retiring' = IF Unclaimed(claims[under[r]]) /\ inUse'[under[r]] = 0
                 THEN retiring \cup {under[r]} ELSE retiring

\* A slip: the permit of a waiter that gave up is forgotten.
CancelServedForgets(r) ==
  /\ permit[r] = "held"
  /\ permit' = [permit EXCEPT ![r] = "free"]
  /\ under' = [under EXCEPT ![r] = None]
  /\ UNCHANGED <<registry, key, claims, limit, inUse, waiters, retiring>>

\* cancel of a waiter already served hands the permit straight back, and does
\* not look whether the object is due to retire.
CancelServed(r) == GiveBack(r) /\ UNCHANGED retiring

\* r leaves the queue it stands in.
Withdraw(r) ==
  \E i \in DOMAIN waiters[under[r]] :
    /\ waiters[under[r]][i] = r
    /\ waiters' = [waiters EXCEPT ![under[r]] = RemoveAt(@, i)]

\* cancel of a waiter still queued withdraws it.
CancelQueued(r) ==
  /\ permit[r] = "queued"
  /\ Withdraw(r)
  /\ permit' = [permit EXCEPT ![r] = "free"]
  /\ under' = [under EXCEPT ![r] = None]
  /\ UNCHANGED <<registry, key, claims, limit, inUse, retiring>>

BudgetNext ==
  \/ \E p \in Pools, a \in Accounts, b \in Budgets, n \in Sizes : ClaimBudget(p, a, b, n)
  \/ \E p \in Pools, b \in Created : DropClaim(p, b)
  \/ \E b \in Created : Retire(b)
  \/ \E r \in Requests, b \in Created : TryAcquire(r, b) \/ Wait(r, b)
  \/ \E r \in Requests : Release(r) \/ CancelServed(r) \/ CancelQueued(r)

BudgetSpec == BudgetInit /\ [][BudgetNext]_budgetVars

-------------------------------------------------------------------------------
(* Properties.                                                             *)

\* Holders of b's permits, and the requests its queue names.
Holders(b) == {r \in Requests : permit[r] = "held" /\ under[r] = b}
Queued(b) == Range(waiters[b])

\* The types of the variables (the fields of connBudget and the registry).
BudgetTypeOK ==
  /\ registry \in [Accounts -> Budgets \cup {None}]
  /\ key \in [Budgets -> Accounts \cup {None}]
  /\ claims \in [Budgets -> [Pools -> Nat \cup {NoClaim}]]
  /\ limit \in [Budgets -> Nat]
  /\ inUse \in [Budgets -> Nat]
  /\ waiters \in [Budgets -> Seq(Requests)]
  /\ permit \in [Requests -> {"free", "queued", "held"}]
  /\ under \in [Requests -> Budgets \cup {None}]
  /\ retiring \subseteq Created

\* The counter a budget keeps is the number of permits actually out: no race
\* of grant, cancel and release leaks a permit or mints one (budget.go:142-191).
InUseExact == \A b \in Budgets : inUse[b] = Cardinality(Holders(b))

\* A queue names exactly the requests blocked on its object, each once, so a
\* permit is never granted to a request that has stopped waiting.
QueueExact ==
  \A b \in Budgets :
    /\ Queued(b) = {r \in Requests : permit[r] = "queued" /\ under[r] = b}
    /\ IsInjective(waiters[b])

\* Nobody waits for a permit that is free.  tryAcquire does not look at the
\* queue; this is why it cannot overtake a waiter (budget.go:119-128).
WorkConserving == \A b \in Budgets : waiters[b] # <<>> => ~HasRoom(b)

\* The ceiling is the largest live claim (budget.go:21-23).
LimitIsLargestClaim ==
  \A b \in Budgets :
    /\ \A p \in Pools : claims[b][p] <= limit[b]
    /\ limit[b] = 0 \/ \E p \in Pools : claims[b][p] = limit[b]

\* An object that has left the registry holds no permit and serves no pool, so
\* an account's connections are all counted by one object even while a
\* goroutine still has a pointer to an older one (budget.go:83-86).
OnlyRegisteredCounts ==
  \A b \in Created : registry[key[b]] # b => Unclaimed(claims[b]) /\ inUse[b] = 0

\* An account is registered under the object created for it, and a permit or a
\* place in a queue is always with an object that exists.
Coherent ==
  /\ \A a \in Accounts : registry[a] # None => key[registry[a]] = a
  /\ \A r \in Requests : under[r] = None <=> permit[r] = "free"
  /\ \A r \in Requests : under[r] # None => under[r] \in Created
  /\ \A b \in Budgets \ Created : Unclaimed(claims[b]) /\ inUse[b] = 0 /\ waiters[b] = <<>>

\* Permits are only added under the ceiling; a ceiling that drops below the
\* permits out stops new ones until enough came back (budget.go:72-74).
CeilingRespected ==
  [][\A b \in Budgets : inUse'[b] > inUse[b] => inUse'[b] <= limit'[b]]_budgetVars

\* Permits go out oldest request first: when r gets one, everyone who is left
\* waiting on the object had queued behind r (budget.go:108-117).
OldestFirst ==
  [][\A r \in Requests :
       permit[r] # "held" /\ permit'[r] = "held" =>
         LET queue == waiters[under'[r]]
         IN \A i \in DOMAIN queue :
              queue[i] \in Range(waiters'[under'[r]]) => \E k \in 1..(i - 1) : queue[k] = r]_budgetVars

\* "retire drops the budget from the registry once nothing references it: no
\* pool claims it and no connection holds one of its permits" (budget.go:83-84).
RegisteredIsReferenced ==
  \A a \in Accounts :
    LET b == registry[a]
    IN b # None => ~Unclaimed(claims[b]) \/ inUse[b] > 0 \/ b \in retiring

-------------------------------------------------------------------------------
(* The accounts, as AccountPermits sees them.                              *)

Ceiling == [a \in Accounts |-> IF registry[a] = None THEN 0 ELSE limit[registry[a]]]
Out == [a \in Accounts |-> {r \in Requests : permit[r] = "held" /\ key[under[r]] = a}]

Account == INSTANCE AccountPermits WITH ceiling <- Ceiling, out <- Out

\* The budgets keep the promise made for the accounts: counted per account,
\* over every object it ever had, permits are only added under its ceiling.
KeepsAccountPermits == Account!Spec
===============================================================================
