------------------------------ MODULE PoolProofs ------------------------------
(***************************************************************************)
(* Proofs about the connections of an account.                             *)
(*                                                                         *)
(* First ConnBudget: what one run of grantLocked does to a queue, then the *)
(* invariants of the budgets as one inductive invariant, then the budgets  *)
(* as an implementation of AccountPermits.                                 *)
(*                                                                         *)
(* Then ClientPool: the pools use the budgets as ConnBudget means them to  *)
(* be used, so what is proved of the budgets holds under them; and every   *)
(* permit, and every connection dialed under one, has one owner.           *)
(***************************************************************************)
EXTENDS ClientPool, FiniteSetTheorems, SequenceTheorems, TLAPS

-------------------------------------------------------------------------------
(* Queues.                                                                 *)

\* grantLocked serves no more waiters than there are, overfills nothing, and
\* stops only when the queue is empty or the ceiling is reached.
LEMMA RoomBounds ==
  ASSUME NEW lim \in Nat, NEW used \in Nat, NEW S, NEW queue \in Seq(S)
  PROVE  /\ Room(lim, used, queue) \in 0..Len(queue)
         /\ Room(lim, used, queue) > 0 => used + Room(lim, used, queue) <= lim
         /\ Room(lim, used, queue) < Len(queue) => used + Room(lim, used, queue) >= lim
BY DEF Room

\* The first n entries of a queue without duplicates are n requests; the rest
\* stay queued, without duplicates.
LEMMA ServeOldest ==
  ASSUME NEW S, NEW queue \in Seq(S), IsInjective(queue), NEW n \in 0..Len(queue),
         NEW rest, rest = SubSeq(queue, n + 1, Len(queue))
  PROVE  /\ rest \in Seq(S)
         /\ Len(rest) = Len(queue) - n
         /\ IsInjective(rest)
         /\ Oldest(queue, n) \subseteq Range(queue)
         /\ Range(rest) = Range(queue) \ Oldest(queue, n)
         /\ IsFiniteSet(Oldest(queue, n))
         /\ Cardinality(Oldest(queue, n)) = n
<1>1. /\ rest \in Seq(S)
      /\ Len(rest) = Len(queue) - n
      /\ \A i \in 1..Len(rest) : rest[i] = queue[n + i]
  BY SubSeqProperties
<1>2. IsInjective(rest)
  BY <1>1 DEF IsInjective
<1>3. Oldest(queue, n) \subseteq Range(queue)
  BY DEF Oldest, Range
<1>4. Range(rest) = Range(queue) \ Oldest(queue, n)
  <2>1. ASSUME NEW x \in Range(rest) PROVE x \in Range(queue) \ Oldest(queue, n)
    BY <1>1 DEF Range, Oldest, IsInjective
  <2>2. ASSUME NEW x \in Range(queue) \ Oldest(queue, n) PROVE x \in Range(rest)
    <3>1. PICK i \in 1..Len(queue) : queue[i] = x /\ i > n
      BY DEF Range, Oldest
    <3>2. i - n \in 1..Len(rest) /\ rest[i - n] = x
      BY <1>1, <3>1
    <3>3. DOMAIN rest = 1..Len(rest)
      BY <1>1, LenProperties
    <3> QED
      BY <3>2, <3>3 DEF Range
  <2> QED
    BY <2>1, <2>2
<1>5. IsFiniteSet(Oldest(queue, n)) /\ Cardinality(Oldest(queue, n)) = n
  <2> DEFINE serve == [i \in 1..n |-> queue[i]]
  <2>1. serve \in Bijection(1..n, Oldest(queue, n))
    BY DEF Oldest, Bijection, Injection, Surjection, IsInjective
  <2>2. IsFiniteSet(1..n) /\ Cardinality(1..n) = n
    BY FS_Interval
  <2> QED
    BY <2>1, <2>2, FS_Bijection DEF ExistsBijection
<1> QED
  BY <1>1, <1>2, <1>3, <1>4, <1>5

\* A request that is not in the queue may join it at the end.
LEMMA JoinQueue ==
  ASSUME NEW S, NEW queue \in Seq(S), IsInjective(queue),
         NEW r \in S, r \notin Range(queue)
  PROVE  /\ Append(queue, r) \in Seq(S)
         /\ IsInjective(Append(queue, r))
         /\ Range(Append(queue, r)) = Range(queue) \cup {r}
<1>1. /\ Append(queue, r) \in Seq(S)
      /\ Len(Append(queue, r)) = Len(queue) + 1
      /\ \A i \in 1..Len(queue) : Append(queue, r)[i] = queue[i]
      /\ Append(queue, r)[Len(queue) + 1] = r
  BY AppendProperties
<1>2. IsInjective(Append(queue, r))
  BY <1>1 DEF IsInjective, Range
<1>3. Range(Append(queue, r)) = Range(queue) \cup {r}
  BY <1>1 DEF Range
<1> QED
  BY <1>1, <1>2, <1>3

\* Withdrawing the request at position i leaves everyone else queued.
LEMMA LeaveQueue ==
  ASSUME NEW S, NEW queue \in Seq(S), IsInjective(queue), NEW i \in 1..Len(queue),
         NEW rest, rest = RemoveAt(queue, i)
  PROVE  /\ rest \in Seq(S)
         /\ Len(rest) = Len(queue) - 1
         /\ IsInjective(rest)
         /\ Range(rest) = Range(queue) \ {queue[i]}
<1> DEFINE front == SubSeq(queue, 1, i - 1)
           back == SubSeq(queue, i + 1, Len(queue))
<1>1. /\ front \in Seq(S) /\ Len(front) = i - 1
      /\ \A j \in 1..(i - 1) : front[j] = queue[j]
  BY SubSeqProperties
<1>2. /\ back \in Seq(S) /\ Len(back) = Len(queue) - i
      /\ \A j \in 1..(Len(queue) - i) : back[j] = queue[i + j]
  BY SubSeqProperties
<1>3. rest = front \o back
  BY DEF RemoveAt
<1> HIDE DEF front, back
<1>4. /\ rest \in Seq(S)
      /\ Len(rest) = Len(queue) - 1
      /\ \A j \in 1..(Len(queue) - 1) : rest[j] = IF j < i THEN queue[j] ELSE queue[j + 1]
  <2>1. /\ front \o back \in Seq(S)
        /\ Len(front \o back) = Len(front) + Len(back)
        /\ \A j \in 1..(Len(front) + Len(back)) :
             (front \o back)[j] = IF j <= Len(front) THEN front[j] ELSE back[j - Len(front)]
    BY <1>1, <1>2, ConcatProperties
  <2> QED
    BY <1>1, <1>2, <1>3, <2>1, LenProperties
<1>5. IsInjective(rest)
  <2>1. SUFFICES ASSUME NEW j \in 1..(Len(queue) - 1), NEW k \in 1..(Len(queue) - 1),
                        rest[j] = rest[k]
                 PROVE  j = k
    <3>1. DOMAIN rest = 1..(Len(queue) - 1)
      BY <1>4
    <3> QED
      BY <3>1 DEF IsInjective
  <2> DEFINE at(n) == IF n < i THEN n ELSE n + 1
  <2>2. at(j) \in DOMAIN queue /\ at(k) \in DOMAIN queue
    OBVIOUS
  <2>3. queue[at(j)] = queue[at(k)]
    BY <1>4, <2>1
  <2>4. at(j) = at(k)
    BY <2>2, <2>3 DEF IsInjective
  <2> QED
    BY <2>4
<1>6. ASSUME NEW x \in Range(rest) PROVE x \in Range(queue) \ {queue[i]}
  BY <1>4, SMTT(30) DEF Range, IsInjective
<1>7. ASSUME NEW x \in Range(queue) \ {queue[i]} PROVE x \in Range(rest)
  <2>1. PICK j \in 1..Len(queue) : queue[j] = x /\ j # i
    BY DEF Range
  <2>2. CASE j < i
    BY <1>4, <2>1, <2>2 DEF Range
  <2>3. CASE j > i
    <3>1. j - 1 \in 1..(Len(queue) - 1) /\ rest[j - 1] = x
      BY <1>4, <2>1, <2>3
    <3> QED
      BY <1>4, <3>1 DEF Range
  <2> QED
    BY <2>1, <2>2, <2>3
<1> QED
  BY <1>4, <1>5, <1>6, <1>7

-------------------------------------------------------------------------------
(* The inductive invariant.  A request's permit is counted by the object it *)
(* is under; that a budget grants on, or retires, only what is its own      *)
(* needs all the parts at once.                                             *)

States == {"free", "queued", "held"}

\* One object is sound: its counter and its queue are exact, and nobody waits
\* while it has room.
Sound(b) ==
  /\ inUse[b] = Cardinality(Holders(b))
  /\ Queued(b) = {r \in Requests : permit[r] = "queued" /\ under[r] = b}
  /\ IsInjective(waiters[b])
  /\ waiters[b] # <<>> => ~HasRoom(b)

IInv ==
  /\ BudgetTypeOK
  /\ Coherent
  /\ InUseExact
  /\ QueueExact
  /\ WorkConserving
  /\ LimitIsLargestClaim
  /\ OnlyRegisteredCounts

\* What Sound says of each object, as the invariants the runs check.
LEMMA SoundParts ==
  InUseExact /\ QueueExact /\ WorkConserving <=> \A b \in Budgets : Sound(b)
BY DEF InUseExact, QueueExact, WorkConserving, Sound

\* A set of requests is finite.
LEMMA FiniteRequests ==
  ASSUME NEW R \in SUBSET Requests
  PROVE  IsFiniteSet(R) /\ Cardinality(R) \in Nat
BY BudgetAssumption, FS_Subset, FS_CardinalityType

\* An object that no action touched, with its requests, is as sound as before.
LEMMA Untouched ==
  ASSUME NEW c \in Budgets, Sound(c),
         inUse'[c] = inUse[c], limit'[c] = limit[c], waiters'[c] = waiters[c],
         \A r \in Requests : under[r] = c \/ under'[r] = c
                               => permit'[r] = permit[r] /\ under'[r] = under[r]
  PROVE  Sound(c)'
<1>1. Holders(c)' = Holders(c)
  BY DEF Holders
<1>2. {r \in Requests : permit[r] = "queued" /\ under[r] = c}'
        = {r \in Requests : permit[r] = "queued" /\ under[r] = c}
  OBVIOUS
<1>3. Queued(c)' = Queued(c)
  BY DEF Queued
<1> QED
  BY <1>1, <1>2, <1>3 DEF Sound, HasRoom

\* grantLocked leaves its object sound, provided the counter and the queue it
\* is given are; it adds permits only under the ceiling, and changes nothing
\* but the state of the requests it serves.
LEMMA GrantEffect ==
  ASSUME BudgetTypeOK,
         NEW b \in Budgets, NEW lim \in Nat, NEW used \in Nat,
         NEW queue \in Seq(Requests), NEW now \in [Requests -> States],
         Grant(b, lim, used, queue, now),
         IsInjective(queue),
         Range(queue) = {r \in Requests : now[r] = "queued" /\ under'[r] = b},
         used = Cardinality({r \in Requests : now[r] = "held" /\ under'[r] = b})
  PROVE  /\ limit' \in [Budgets -> Nat]
         /\ inUse' \in [Budgets -> Nat]
         /\ waiters' \in [Budgets -> Seq(Requests)]
         /\ permit' \in [Requests -> States]
         /\ limit'[b] = lim
         /\ inUse'[b] >= used
         /\ inUse'[b] > used => inUse'[b] <= lim
         /\ Sound(b)'
         /\ \A c \in Budgets \ {b} :
              limit'[c] = limit[c] /\ inUse'[c] = inUse[c] /\ waiters'[c] = waiters[c]
         /\ \A r \in Requests : under'[r] # b => permit'[r] = now[r]
         /\ \A r \in Requests : permit'[r] = "free" <=> now[r] = "free"
         /\ \A r \in Requests : now[r] = "held" => permit'[r] = "held"
<1> DEFINE n == Room(lim, used, queue)
           rest == SubSeq(queue, n + 1, Len(queue))
           served == Oldest(queue, n)
           before == {r \in Requests : now[r] = "held" /\ under'[r] = b}
<1>1. /\ n \in 0..Len(queue)
      /\ n > 0 => used + n <= lim
      /\ n < Len(queue) => used + n >= lim
  BY RoomBounds
<1>2. /\ rest \in Seq(Requests)
      /\ Len(rest) = Len(queue) - n
      /\ IsInjective(rest)
      /\ served \subseteq Range(queue)
      /\ Range(rest) = Range(queue) \ served
      /\ IsFiniteSet(served)
      /\ Cardinality(served) = n
  <2> HIDE DEF n
  <2>1. n \in 0..Len(queue)
    BY <1>1
  <2> QED
    BY <2>1, ServeOldest
<1>3. /\ limit' = [limit EXCEPT ![b] = lim]
      /\ inUse' = [inUse EXCEPT ![b] = used + n]
      /\ waiters' = [waiters EXCEPT ![b] = rest]
      /\ permit' = [r \in Requests |-> IF r \in served THEN "held" ELSE now[r]]
  BY DEF Grant
<1> HIDE DEF n, rest, served
<1>4. /\ limit' \in [Budgets -> Nat]
      /\ inUse' \in [Budgets -> Nat]
      /\ waiters' \in [Budgets -> Seq(Requests)]
      /\ permit' \in [Requests -> States]
  BY <1>1, <1>2, <1>3, SMTT(30) DEF BudgetTypeOK, States
<1>5. limit'[b] = lim /\ inUse'[b] = used + n /\ waiters'[b] = rest
  BY <1>3 DEF BudgetTypeOK
<1>6. \A r \in served : r \in Requests /\ now[r] = "queued" /\ under'[r] = b
  BY <1>2
<1>7. Holders(b)' = before \cup served
  BY <1>3, <1>6 DEF Holders
<1>8. Cardinality(before \cup served) = used + n
  <2>1. IsFiniteSet(before) /\ used = Cardinality(before)
    BY FiniteRequests
  <2>2. before \cap served = {}
    BY <1>6
  <2> HIDE DEF before
  <2>3. Cardinality(before \cup served)
          = Cardinality(before) + Cardinality(served) - Cardinality(before \cap served)
    BY <1>2, <2>1, FS_Union
  <2>4. Cardinality(before \cap served) = 0
    BY <2>2, FS_EmptySet
  <2> QED
    BY <1>1, <1>2, <2>1, <2>3, <2>4
<1>9. Range(rest) = {r \in Requests : permit'[r] = "queued" /\ under'[r] = b}
  BY <1>2, <1>3, <1>6
<1>10. rest # <<>> => ~(used + n < lim)
  <2>1. rest # <<>> => Len(rest) > 0
    BY <1>2, EmptySeq
  <2> QED
    BY <1>1, <1>2, <2>1
<1>11. Sound(b)'
  BY <1>2, <1>5, <1>7, <1>8, <1>9, <1>10 DEF Sound, Queued, HasRoom
<1>12. \A c \in Budgets \ {b} :
         limit'[c] = limit[c] /\ inUse'[c] = inUse[c] /\ waiters'[c] = waiters[c]
  BY <1>3 DEF BudgetTypeOK
<1>13. \A r \in Requests : under'[r] # b => permit'[r] = now[r]
  BY <1>3, <1>6
<1>14. \A r \in Requests : permit'[r] = "free" <=> now[r] = "free"
  BY <1>3, <1>6
<1>15. \A r \in Requests : now[r] = "held" => permit'[r] = "held"
  BY <1>3, <1>6
<1> QED
  BY <1>1, <1>4, <1>5, <1>11, <1>12, <1>13, <1>14, <1>15

\* recomputeLimitLocked leaves every object sound and the ceiling of its own at
\* the largest claim.
LEMMA RecomputeEffect ==
  ASSUME BudgetTypeOK, \A c \in Budgets : Sound(c),
         NEW b \in Budgets, NEW claim \in [Pools -> Nat \cup {NoClaim}],
         Recompute(b, claim), UNCHANGED under
  PROVE  /\ claims' = [claims EXCEPT ![b] = claim]
         /\ claims' \in [Budgets -> [Pools -> Nat \cup {NoClaim}]]
         /\ limit' \in [Budgets -> Nat]
         /\ inUse' \in [Budgets -> Nat]
         /\ waiters' \in [Budgets -> Seq(Requests)]
         /\ permit' \in [Requests -> States]
         /\ \A p \in Pools : claim[p] <= limit'[b]
         /\ limit'[b] = 0 \/ \E p \in Pools : claim[p] = limit'[b]
         /\ \A c \in Budgets : Sound(c)'
         /\ inUse'[b] >= inUse[b]
         /\ inUse'[b] > inUse[b] => inUse'[b] <= limit'[b]
         /\ \A c \in Budgets \ {b} :
              limit'[c] = limit[c] /\ inUse'[c] = inUse[c] /\ waiters'[c] = waiters[c]
         /\ \A r \in Requests : under[r] # b => permit'[r] = permit[r]
         /\ \A r \in Requests : permit'[r] = "free" <=> permit[r] = "free"
         /\ \A r \in Requests : permit[r] = "held" => permit'[r] = "held"
<1>1. PICK n \in {0} \cup ({claim[p] : p \in Pools} \ {NoClaim}) :
        /\ \A p \in Pools : claim[p] <= n
        /\ claims' = [claims EXCEPT ![b] = claim]
        /\ Grant(b, n, inUse[b], waiters[b], permit)
  BY DEF Recompute
<1>2. n \in Nat
  BY DEF NoClaim
<1>3. /\ inUse[b] \in Nat
      /\ waiters[b] \in Seq(Requests)
      /\ permit \in [Requests -> States]
  BY DEF BudgetTypeOK, States
<1>4. /\ IsInjective(waiters[b])
      /\ Range(waiters[b]) = {r \in Requests : permit[r] = "queued" /\ under'[r] = b}
      /\ inUse[b] = Cardinality({r \in Requests : permit[r] = "held" /\ under'[r] = b})
  BY DEF Sound, Queued, Holders
<1>5. /\ limit' \in [Budgets -> Nat]
      /\ inUse' \in [Budgets -> Nat]
      /\ waiters' \in [Budgets -> Seq(Requests)]
      /\ permit' \in [Requests -> States]
      /\ limit'[b] = n
      /\ inUse'[b] >= inUse[b]
      /\ inUse'[b] > inUse[b] => inUse'[b] <= n
      /\ Sound(b)'
      /\ \A c \in Budgets \ {b} :
           limit'[c] = limit[c] /\ inUse'[c] = inUse[c] /\ waiters'[c] = waiters[c]
      /\ \A r \in Requests : under'[r] # b => permit'[r] = permit[r]
      /\ \A r \in Requests : permit'[r] = "free" <=> permit[r] = "free"
      /\ \A r \in Requests : permit[r] = "held" => permit'[r] = "held"
  BY <1>1, <1>2, <1>3, <1>4, GrantEffect
<1>6. ASSUME NEW c \in Budgets \ {b} PROVE Sound(c)'
  BY <1>5, Untouched
<1>7. n = 0 \/ \E p \in Pools : claim[p] = n
  OBVIOUS
<1>8. claims' \in [Budgets -> [Pools -> Nat \cup {NoClaim}]]
  BY <1>1 DEF BudgetTypeOK
<1> QED
  BY <1>1, <1>5, <1>6, <1>7, <1>8

\* releaseLocked by a request that holds a permit leaves every object sound.
LEMMA GiveBackEffect ==
  ASSUME BudgetTypeOK, Coherent, \A c \in Budgets : Sound(c),
         NEW r \in Requests, NEW b, b = under[r], GiveBack(r)
  PROVE  /\ b \in Created
         /\ inUse[b] > 0
         /\ limit' = limit
         /\ inUse' \in [Budgets -> Nat]
         /\ waiters' \in [Budgets -> Seq(Requests)]
         /\ permit' \in [Requests -> States]
         /\ under' = [under EXCEPT ![r] = None]
         /\ \A c \in Budgets : Sound(c)'
         /\ inUse'[b] >= inUse[b] - 1
         /\ inUse'[b] > inUse[b] - 1 => inUse'[b] <= limit[b]
         /\ \A c \in Budgets \ {b} : inUse'[c] = inUse[c] /\ waiters'[c] = waiters[c]
         /\ permit'[r] = "free"
         /\ \A q \in Requests \ {r} :
              /\ under[q] # b => permit'[q] = permit[q]
              /\ permit'[q] = "free" <=> permit[q] = "free"
              /\ permit[q] = "held" => permit'[q] = "held"
<1> DEFINE now == [permit EXCEPT ![r] = "free"]
           used == inUse[b] - 1
<1>1. /\ permit[r] = "held"
      /\ Grant(b, limit[b], IF inUse[b] > 0 THEN inUse[b] - 1 ELSE inUse[b], waiters[b], now)
      /\ under' = [under EXCEPT ![r] = None]
  BY DEF GiveBack
<1>2. b \in Budgets /\ b \in Created /\ b # None
  BY <1>1 DEF Coherent, Created, BudgetTypeOK
<1>3. r \in Holders(b)
  BY <1>1 DEF Holders
<1>4. /\ inUse[b] = Cardinality(Holders(b))
      /\ IsFiniteSet(Holders(b))
      /\ Cardinality(Holders(b)) \in Nat
      /\ inUse[b] > 0
      /\ Cardinality(Holders(b) \ {r}) = used
  <2>1. inUse[b] = Cardinality(Holders(b))
    BY <1>2 DEF Sound
  <2>2. Holders(b) \in SUBSET Requests
    BY DEF Holders
  <2>3. IsFiniteSet(Holders(b)) /\ Cardinality(Holders(b)) \in Nat
    BY <2>2, FiniteRequests
  <2>4. Cardinality(Holders(b)) # 0
    BY <1>3, <2>3, FS_EmptySet
  <2>5. Cardinality(Holders(b) \ {r}) = Cardinality(Holders(b)) - 1
    BY <1>3, <2>3, FS_RemoveElement
  <2> QED
    BY <2>1, <2>3, <2>4, <2>5
<1>5. Grant(b, limit[b], used, waiters[b], now)
  BY <1>1, <1>4
<1>6. /\ limit[b] \in Nat
      /\ used \in Nat
      /\ waiters[b] \in Seq(Requests)
      /\ now \in [Requests -> States]
  BY <1>2, <1>4 DEF BudgetTypeOK, States
<1>7. /\ IsInjective(waiters[b])
      /\ Range(waiters[b]) = {q \in Requests : now[q] = "queued" /\ under'[q] = b}
  <2>1. {q \in Requests : now[q] = "queued" /\ under'[q] = b}
          = {q \in Requests : permit[q] = "queued" /\ under[q] = b}
    BY <1>1, <1>2 DEF BudgetTypeOK
  <2> QED
    BY <1>2, <2>1 DEF Sound, Queued
<1>8. used = Cardinality({q \in Requests : now[q] = "held" /\ under'[q] = b})
  <2>1. {q \in Requests : now[q] = "held" /\ under'[q] = b} = Holders(b) \ {r}
    BY <1>1, <1>2 DEF BudgetTypeOK, Holders
  <2> QED
    BY <1>4, <2>1
<1> HIDE DEF used, now
<1>9. /\ limit' \in [Budgets -> Nat]
      /\ inUse' \in [Budgets -> Nat]
      /\ waiters' \in [Budgets -> Seq(Requests)]
      /\ permit' \in [Requests -> States]
      /\ limit'[b] = limit[b]
      /\ inUse'[b] >= used
      /\ inUse'[b] > used => inUse'[b] <= limit[b]
      /\ Sound(b)'
      /\ \A c \in Budgets \ {b} :
           limit'[c] = limit[c] /\ inUse'[c] = inUse[c] /\ waiters'[c] = waiters[c]
      /\ \A q \in Requests : under'[q] # b => permit'[q] = now[q]
      /\ \A q \in Requests : permit'[q] = "free" <=> now[q] = "free"
      /\ \A q \in Requests : now[q] = "held" => permit'[q] = "held"
  BY <1>2, <1>5, <1>6, <1>7, <1>8, GrantEffect, SMTT(30)
<1>10. limit' = limit
  BY <1>1 DEF Grant, BudgetTypeOK
<1>11. \A q \in Requests \ {r} : under'[q] = under[q] /\ now[q] = permit[q]
  BY <1>1 DEF now, BudgetTypeOK
<1>12. now[r] = "free" /\ under'[r] = None
  BY <1>1 DEF now, BudgetTypeOK
<1>13. ASSUME NEW c \in Budgets \ {b} PROVE Sound(c)'
  <2>1. c # None /\ under'[r] # c /\ under[r] # c
    BY <1>12, BudgetAssumption
  <2>2. \A q \in Requests : under[q] = c \/ under'[q] = c
                            => permit'[q] = permit[q] /\ under'[q] = under[q]
    BY <1>9, <1>11, <2>1
  <2> QED
    BY <1>9, <2>2, Untouched
<1> QED
  BY <1>1, <1>2, <1>4, <1>9, <1>10, <1>11, <1>12, <1>13, ZenonT(30) DEF used

-------------------------------------------------------------------------------
(* Each operation preserves the invariant.                                 *)

\* An object nobody claims has ceiling 0: it serves no one.
LEMMA UnclaimedLimit ==
  ASSUME BudgetTypeOK, LimitIsLargestClaim, NEW b \in Budgets, Unclaimed(claims[b])
  PROVE  limit[b] = 0
BY DEF BudgetTypeOK, LimitIsLargestClaim, Unclaimed, NoClaim

\* claimBudget.
LEMMA ClaimKeeps ==
  ASSUME IInv, NEW p \in Pools, NEW a \in Accounts, NEW b \in Budgets, NEW n \in Sizes,
         ClaimBudget(p, a, b, n)
  PROVE  IInv'
<1> DEFINE claim == [claims[b] EXCEPT ![p] = n]
<1> USE DEF IInv
<1>1. claim \in [Pools -> Nat \cup {NoClaim}]
  <2>1. n \in Nat
    BY BudgetAssumption
  <2>2. claims[b] \in [Pools -> Nat \cup {NoClaim}]
    BY DEF BudgetTypeOK
  <2> QED
    BY <2>1, <2>2
<1>2. /\ registry[a] = b \/ (registry[a] = None /\ key[b] = None)
      /\ registry' = [registry EXCEPT ![a] = b]
      /\ key' = [key EXCEPT ![b] = a]
      /\ Recompute(b, claim)
      /\ under' = under /\ retiring' = retiring
  BY DEF ClaimBudget
<1>3. \A c \in Budgets : Sound(c)
  BY SoundParts
<1> HIDE DEF claim
<1>4. /\ claims' = [claims EXCEPT ![b] = claim]
      /\ claims' \in [Budgets -> [Pools -> Nat \cup {NoClaim}]]
      /\ limit' \in [Budgets -> Nat]
      /\ inUse' \in [Budgets -> Nat]
      /\ waiters' \in [Budgets -> Seq(Requests)]
      /\ permit' \in [Requests -> States]
      /\ \A q \in Pools : claim[q] <= limit'[b]
      /\ limit'[b] = 0 \/ \E q \in Pools : claim[q] = limit'[b]
      /\ \A c \in Budgets : Sound(c)'
      /\ \A c \in Budgets \ {b} :
           limit'[c] = limit[c] /\ inUse'[c] = inUse[c] /\ waiters'[c] = waiters[c]
      /\ \A r \in Requests : permit'[r] = "free" <=> permit[r] = "free"
  BY <1>1, <1>2, <1>3, RecomputeEffect
<1>5. key[b] = None \/ key[b] = a
  BY <1>2, BudgetAssumption DEF Coherent
<1>6. Created' = Created \cup {b} /\ a # None
  BY <1>2, BudgetAssumption DEF Created, BudgetTypeOK
<1>7. BudgetTypeOK'
  <2>1. registry' \in [Accounts -> Budgets \cup {None}]
    BY <1>2 DEF BudgetTypeOK
  <2>2. key' \in [Budgets -> Accounts \cup {None}]
    BY <1>2 DEF BudgetTypeOK
  <2>3. retiring' \subseteq Created'
    BY <1>2, <1>6 DEF BudgetTypeOK
  <2> QED
    BY <1>2, <1>4, <2>1, <2>2, <2>3 DEF BudgetTypeOK, States
<1>8. Coherent'
  <2>1. ASSUME NEW d \in Accounts, registry'[d] # None PROVE key'[registry'[d]] = d
    <3>1. CASE d = a
      BY <1>2, <3>1 DEF BudgetTypeOK
    <3>2. CASE d # a
      <4>1. registry'[d] = registry[d] /\ key[registry[d]] = d /\ registry[d] \in Budgets
        BY <1>2, <2>1, <3>2 DEF Coherent, BudgetTypeOK
      <4>2. registry[d] # b
        BY <1>5, <3>2, <4>1, BudgetAssumption
      <4> QED
        BY <1>2, <4>1, <4>2 DEF BudgetTypeOK
    <3> QED
      BY <3>1, <3>2
  <2>2. \A r \in Requests : /\ under'[r] = None <=> permit'[r] = "free"
                            /\ under'[r] # None => under'[r] \in Created'
    BY <1>2, <1>4, <1>6 DEF Coherent
  <2>3. \A c \in Budgets \ Created' : Unclaimed(claims'[c]) /\ inUse'[c] = 0 /\ waiters'[c] = <<>>
    BY <1>4, <1>6 DEF Coherent, BudgetTypeOK
  <2> QED
    BY <2>1, <2>2, <2>3 DEF Coherent
<1>9. LimitIsLargestClaim'
  BY <1>4 DEF LimitIsLargestClaim, BudgetTypeOK
<1>10. OnlyRegisteredCounts'
  <2> SUFFICES ASSUME NEW c \in Created', registry'[key'[c]] # c
               PROVE  Unclaimed(claims'[c]) /\ inUse'[c] = 0
    BY DEF OnlyRegisteredCounts
  <2>1. c # b
    BY <1>2 DEF BudgetTypeOK
  <2>2. c \in Created /\ c \in Budgets /\ key'[c] = key[c] /\ key[c] \in Accounts
    BY <1>2, <1>6, <2>1 DEF BudgetTypeOK, Created
  <2>3. c # None
    BY <2>2, BudgetAssumption
  <2>4. registry[key[c]] # c
    BY <1>2, <2>1, <2>2, <2>3 DEF BudgetTypeOK
  <2> QED
    BY <1>4, <2>1, <2>2, <2>4 DEF OnlyRegisteredCounts, BudgetTypeOK
<1>11. InUseExact' /\ QueueExact' /\ WorkConserving'
  BY <1>4 DEF Sound, InUseExact, QueueExact, WorkConserving
<1> QED
  BY <1>7, <1>8, <1>9, <1>10, <1>11

\* dropClaim.
LEMMA DropKeeps ==
  ASSUME IInv, NEW p \in Pools, NEW b \in Created, DropClaim(p, b)
  PROVE  IInv'
<1> DEFINE claim == [claims[b] EXCEPT ![p] = NoClaim]
<1> USE DEF IInv
<1>1. b \in Budgets /\ claim \in [Pools -> Nat \cup {NoClaim}]
  BY DEF BudgetTypeOK, Created
<1>2. /\ Recompute(b, claim)
      /\ retiring' = retiring \cup {b}
      /\ registry' = registry /\ key' = key /\ under' = under
  BY DEF DropClaim
<1>3. \A c \in Budgets : Sound(c)
  BY SoundParts
<1>4. Unclaimed(claims[b]) => Unclaimed(claim)
  BY <1>1 DEF Unclaimed, BudgetTypeOK
<1> HIDE DEF claim
<1>5. /\ claims' = [claims EXCEPT ![b] = claim]
      /\ claims' \in [Budgets -> [Pools -> Nat \cup {NoClaim}]]
      /\ limit' \in [Budgets -> Nat]
      /\ inUse' \in [Budgets -> Nat]
      /\ waiters' \in [Budgets -> Seq(Requests)]
      /\ permit' \in [Requests -> States]
      /\ \A q \in Pools : claim[q] <= limit'[b]
      /\ limit'[b] = 0 \/ \E q \in Pools : claim[q] = limit'[b]
      /\ \A c \in Budgets : Sound(c)'
      /\ inUse'[b] > inUse[b] => inUse'[b] <= limit'[b]
      /\ inUse'[b] >= inUse[b]
      /\ \A c \in Budgets \ {b} :
           limit'[c] = limit[c] /\ inUse'[c] = inUse[c] /\ waiters'[c] = waiters[c]
      /\ \A r \in Requests : permit'[r] = "free" <=> permit[r] = "free"
  BY <1>1, <1>2, <1>3, RecomputeEffect
<1>6. Created' = Created
  BY <1>2 DEF Created
<1>7. BudgetTypeOK'
  BY <1>2, <1>5, <1>6 DEF BudgetTypeOK, States
<1>8. Coherent'
  <2>1. \A d \in Accounts : registry'[d] # None => key'[registry'[d]] = d
    BY <1>2 DEF Coherent
  <2>2. \A r \in Requests : /\ under'[r] = None <=> permit'[r] = "free"
                            /\ under'[r] # None => under'[r] \in Created'
    BY <1>2, <1>5, <1>6 DEF Coherent
  <2>3. \A c \in Budgets \ Created' : Unclaimed(claims'[c]) /\ inUse'[c] = 0 /\ waiters'[c] = <<>>
    BY <1>5, <1>6 DEF Coherent, BudgetTypeOK
  <2> QED
    BY <2>1, <2>2, <2>3 DEF Coherent
<1>9. LimitIsLargestClaim'
  BY <1>5 DEF LimitIsLargestClaim, BudgetTypeOK
<1>10. OnlyRegisteredCounts'
  <2> SUFFICES ASSUME NEW c \in Created, registry[key[c]] # c
               PROVE  Unclaimed(claims'[c]) /\ inUse'[c] = 0
    BY <1>2, <1>6 DEF OnlyRegisteredCounts
  <2>1. Unclaimed(claims[c]) /\ inUse[c] = 0 /\ c \in Budgets
    BY DEF OnlyRegisteredCounts, Created
  <2>2. CASE c = b
    <3>1. Unclaimed(claims'[c])
      BY <1>1, <1>4, <1>5, <2>1, <2>2 DEF BudgetTypeOK
    <3>2. limit'[b] = 0
      BY <1>7, <1>9, <2>1, <2>2, <3>1 DEF BudgetTypeOK, LimitIsLargestClaim, Unclaimed, NoClaim
    <3> QED
      BY <1>5, <2>1, <2>2, <3>1, <3>2
  <2>3. CASE c # b
    BY <1>5, <2>1, <2>3 DEF BudgetTypeOK
  <2> QED
    BY <2>2, <2>3
<1>11. InUseExact' /\ QueueExact' /\ WorkConserving'
  BY <1>5 DEF Sound, InUseExact, QueueExact, WorkConserving
<1> QED
  BY <1>7, <1>8, <1>9, <1>10, <1>11

\* retire.
LEMMA RetireKeeps ==
  ASSUME IInv, NEW b \in Created, Retire(b)
  PROVE  IInv'
<1> USE DEF IInv
<1>1. /\ b \in Budgets /\ key[b] \in Accounts
      /\ retiring' \subseteq retiring
      /\ \/ registry' = registry
         \/ /\ Unclaimed(claims[b]) /\ inUse[b] = 0
            /\ registry' = [registry EXCEPT ![key[b]] = None]
      /\ UNCHANGED <<key, claims, limit, inUse, waiters, permit, under>>
  BY DEF Retire, BudgetTypeOK, Created
<1>2. Created' = Created
  BY <1>1 DEF Created
<1>3. BudgetTypeOK'
  BY <1>1, <1>2 DEF BudgetTypeOK
<1>4. Coherent'
  BY <1>1, <1>2 DEF Coherent, BudgetTypeOK
<1>5. LimitIsLargestClaim'
  BY <1>1 DEF LimitIsLargestClaim
<1>6. OnlyRegisteredCounts'
  <2> SUFFICES ASSUME NEW c \in Created, registry'[key[c]] # c
               PROVE  Unclaimed(claims[c]) /\ inUse[c] = 0
    BY <1>1, <1>2 DEF OnlyRegisteredCounts
  <2>1. CASE c = b /\ registry' # registry
    BY <1>1, <2>1
  <2>2. CASE registry' = registry
    BY <2>2 DEF OnlyRegisteredCounts
  <2>3. CASE c # b /\ registry' # registry
    <3>1. key[c] \in Accounts /\ c \in Budgets
      BY DEF BudgetTypeOK, Created
    <3>2. CASE key[c] # key[b]
      BY <1>1, <2>3, <3>1, <3>2 DEF OnlyRegisteredCounts, BudgetTypeOK
    <3>3. CASE key[c] = key[b]
      <4>1. registry[key[b]] = b
        BY <1>1, <2>3 DEF Retire
      <4> QED
        BY <2>3, <3>3, <4>1 DEF OnlyRegisteredCounts
    <3> QED
      BY <3>2, <3>3
  <2> QED
    BY <2>1, <2>2, <2>3
<1>7. InUseExact' /\ QueueExact' /\ WorkConserving'
  BY <1>1 DEF InUseExact, QueueExact, WorkConserving, Holders, Queued, HasRoom
<1> QED
  BY <1>3, <1>4, <1>5, <1>6, <1>7

\* tryAcquire.
LEMMA TryKeeps ==
  ASSUME IInv, NEW r \in Requests, NEW b \in Created, TryAcquire(r, b)
  PROVE  IInv'
<1> USE DEF IInv
<1>1. /\ b \in Budgets /\ b # None /\ key[b] \in Accounts
      /\ permit[r] = "free" /\ under[r] = None
      /\ inUse[b] \in Nat /\ limit[b] \in Nat /\ inUse[b] < limit[b]
      /\ inUse' = [inUse EXCEPT ![b] = inUse[b] + 1]
      /\ permit' = [permit EXCEPT ![r] = "held"]
      /\ under' = [under EXCEPT ![r] = b]
      /\ UNCHANGED <<registry, key, claims, limit, waiters, retiring>>
  BY BudgetAssumption DEF TryAcquire, HasRoom, Coherent, BudgetTypeOK, Created
<1>2. Created' = Created
  BY <1>1 DEF Created
<1>3. BudgetTypeOK'
  BY <1>1, <1>2 DEF BudgetTypeOK
<1>4. Coherent'
  BY <1>1, <1>2 DEF Coherent, BudgetTypeOK
<1>5. LimitIsLargestClaim'
  BY <1>1 DEF LimitIsLargestClaim
<1>6. OnlyRegisteredCounts'
  <2> SUFFICES ASSUME NEW c \in Created, registry[key[c]] # c
               PROVE  Unclaimed(claims[c]) /\ inUse'[c] = 0
    BY <1>1, <1>2 DEF OnlyRegisteredCounts
  <2>1. Unclaimed(claims[c]) /\ inUse[c] = 0 /\ c \in Budgets
    BY DEF OnlyRegisteredCounts, Created
  <2>2. c # b
    BY <1>1, <2>1, UnclaimedLimit
  <2> QED
    BY <1>1, <2>1, <2>2 DEF BudgetTypeOK
<1>7. ASSUME NEW c \in Budgets PROVE Sound(c)'
  <2>1. Sound(c)
    BY SoundParts
  <2>2. CASE c # b
    <3>1. \A q \in Requests : under[q] = c \/ under'[q] = c
                                => permit'[q] = permit[q] /\ under'[q] = under[q]
      BY <1>1, <2>2, BudgetAssumption DEF BudgetTypeOK
    <3> QED
      BY <1>1, <2>1, <2>2, <3>1, Untouched DEF BudgetTypeOK
  <2>3. CASE c = b
    <3>1. Holders(b)' = Holders(b) \cup {r} /\ r \notin Holders(b)
      BY <1>1 DEF Holders, BudgetTypeOK
    <3>2. Holders(b) \in SUBSET Requests
      BY DEF Holders
    <3>3. IsFiniteSet(Holders(b)) /\ inUse[b] = Cardinality(Holders(b))
      BY <2>1, <2>3, <3>2, FiniteRequests DEF Sound
    <3>4. Cardinality(Holders(b) \cup {r}) = Cardinality(Holders(b)) + 1
      BY <3>1, <3>3, FS_AddElement
    <3>5. inUse'[b] = Cardinality(Holders(b)')
      BY <1>1, <3>1, <3>3, <3>4 DEF BudgetTypeOK
    <3>6. {q \in Requests : permit'[q] = "queued" /\ under'[q] = b}
            = {q \in Requests : permit[q] = "queued" /\ under[q] = b}
      BY <1>1 DEF BudgetTypeOK
    <3>7. waiters[b] = <<>>
      BY <1>1, <2>1, <2>3 DEF Sound, HasRoom
    <3> QED
      BY <1>1, <2>1, <2>3, <3>5, <3>6, <3>7 DEF Sound, Queued
  <2> QED
    BY <2>2, <2>3
<1>8. InUseExact' /\ QueueExact' /\ WorkConserving'
  BY <1>7 DEF Sound, InUseExact, QueueExact, WorkConserving
<1> QED
  BY <1>3, <1>4, <1>5, <1>6, <1>8

\* wait.
LEMMA WaitKeeps ==
  ASSUME IInv, NEW r \in Requests, NEW b \in Created, Wait(r, b)
  PROVE  /\ IInv'
         /\ inUse'[b] >= inUse[b]
         /\ inUse'[b] > inUse[b] => inUse'[b] <= limit'[b]
         /\ \A c \in Budgets \ {b} : inUse'[c] = inUse[c]
         /\ limit' = limit
         /\ under' = [under EXCEPT ![r] = b]
         /\ \A q \in Requests \ {r} : permit[q] = "held" => permit'[q] = "held"
         /\ \A q \in Requests \ {r} : under[q] # b => permit'[q] = permit[q]
<1> DEFINE now == [permit EXCEPT ![r] = "queued"]
           queue == Append(waiters[b], r)
<1> USE DEF IInv
<1>1. /\ b \in Budgets /\ b # None /\ key[b] \in Accounts
      /\ permit[r] = "free" /\ under[r] = None
      /\ inUse[b] \in Nat /\ limit[b] \in Nat /\ waiters[b] \in Seq(Requests)
      /\ under' = [under EXCEPT ![r] = b]
      /\ Grant(b, limit[b], inUse[b], queue, now)
      /\ UNCHANGED <<registry, key, claims, retiring>>
  BY BudgetAssumption DEF Wait, Coherent, BudgetTypeOK, Created
<1>2. Sound(b)
  BY <1>1, SoundParts
<1>3. /\ now \in [Requests -> States]
      /\ now[r] = "queued" /\ under'[r] = b
      /\ \A q \in Requests \ {r} : now[q] = permit[q] /\ under'[q] = under[q]
  BY <1>1 DEF BudgetTypeOK, States
<1>4. r \notin Range(waiters[b])
  BY <1>1, <1>2 DEF Sound, Queued
<1>5. /\ queue \in Seq(Requests)
      /\ IsInjective(queue)
      /\ Range(queue) = Range(waiters[b]) \cup {r}
  BY <1>1, <1>2, <1>4, JoinQueue DEF Sound
<1> HIDE DEF now, queue
<1>6. Range(queue) = {q \in Requests : now[q] = "queued" /\ under'[q] = b}
  BY <1>2, <1>3, <1>5 DEF Sound, Queued
<1>7. inUse[b] = Cardinality({q \in Requests : now[q] = "held" /\ under'[q] = b})
  <2>1. {q \in Requests : now[q] = "held" /\ under'[q] = b} = Holders(b)
    BY <1>1, <1>3 DEF Holders
  <2> QED
    BY <1>2, <2>1 DEF Sound
<1>8. /\ limit' \in [Budgets -> Nat]
      /\ inUse' \in [Budgets -> Nat]
      /\ waiters' \in [Budgets -> Seq(Requests)]
      /\ permit' \in [Requests -> States]
      /\ limit'[b] = limit[b]
      /\ inUse'[b] >= inUse[b]
      /\ inUse'[b] > inUse[b] => inUse'[b] <= limit[b]
      /\ Sound(b)'
      /\ \A c \in Budgets \ {b} :
           limit'[c] = limit[c] /\ inUse'[c] = inUse[c] /\ waiters'[c] = waiters[c]
      /\ \A q \in Requests : under'[q] # b => permit'[q] = now[q]
      /\ \A q \in Requests : permit'[q] = "free" <=> now[q] = "free"
      /\ \A q \in Requests : now[q] = "held" => permit'[q] = "held"
  BY <1>1, <1>3, <1>5, <1>6, <1>7, GrantEffect, SMTT(30)
<1>9. limit' = limit
  BY <1>8 DEF BudgetTypeOK
<1>10. Created' = Created
  BY <1>1 DEF Created
<1>11. BudgetTypeOK'
  BY <1>1, <1>8, <1>10 DEF BudgetTypeOK, States
<1>12. Coherent'
  <2>1. ASSUME NEW q \in Requests
        PROVE  /\ under'[q] = None <=> permit'[q] = "free"
               /\ under'[q] # None => under'[q] \in Created'
    <3>1. CASE q = r
      BY <1>1, <1>3, <1>8, <1>10, <3>1
    <3>2. CASE q # r
      <4>1. under'[q] = under[q] /\ now[q] = permit[q]
        BY <1>3, <3>2
      <4>2. permit'[q] = "free" <=> permit[q] = "free"
        BY <1>8, <4>1
      <4> QED
        BY <1>10, <4>1, <4>2 DEF Coherent
    <3> QED
      BY <3>1, <3>2
  <2>2. \A c \in Budgets \ Created' : Unclaimed(claims'[c]) /\ inUse'[c] = 0 /\ waiters'[c] = <<>>
    BY <1>1, <1>8, <1>10 DEF Coherent
  <2> QED
    BY <1>1, <2>1, <2>2 DEF Coherent
<1>13. LimitIsLargestClaim'
  BY <1>1, <1>9 DEF LimitIsLargestClaim
<1>14. OnlyRegisteredCounts'
  <2> SUFFICES ASSUME NEW c \in Created, registry[key[c]] # c
               PROVE  Unclaimed(claims[c]) /\ inUse'[c] = 0
    BY <1>1, <1>10 DEF OnlyRegisteredCounts
  <2>1. Unclaimed(claims[c]) /\ inUse[c] = 0 /\ c \in Budgets
    BY DEF OnlyRegisteredCounts, Created
  <2>2. limit[c] = 0
    BY <2>1, UnclaimedLimit
  <2> QED
    BY <1>8, <2>1, <2>2 DEF BudgetTypeOK
<1>15. ASSUME NEW c \in Budgets \ {b} PROVE Sound(c)'
  <2>1. Sound(c) /\ c # None
    BY SoundParts, BudgetAssumption
  <2>2. \A q \in Requests : under[q] = c \/ under'[q] = c
                              => permit'[q] = permit[q] /\ under'[q] = under[q]
    BY <1>1, <1>3, <1>8, <2>1
  <2> QED
    BY <1>8, <2>1, <2>2, Untouched
<1>16. InUseExact' /\ QueueExact' /\ WorkConserving'
  BY <1>8, <1>15 DEF Sound, InUseExact, QueueExact, WorkConserving
<1>17. ASSUME NEW q \in Requests \ {r}
       PROVE  /\ permit[q] = "held" => permit'[q] = "held"
              /\ under[q] # b => permit'[q] = permit[q]
  BY <1>1, <1>3, <1>8
<1> QED
  BY <1>1, <1>8, <1>9, <1>11, <1>12, <1>13, <1>14, <1>16, <1>17

\* release and the cancel of a waiter already served.
LEMMA GiveBackKeeps ==
  ASSUME IInv, NEW r \in Requests, GiveBack(r),
         retiring' \subseteq retiring \cup {under[r]}
  PROVE  IInv'
<1> DEFINE b == under[r]
<1> USE DEF IInv
<1>1. \A c \in Budgets : Sound(c)
  BY SoundParts
<1>2. /\ b \in Created
      /\ inUse[b] > 0
      /\ limit' = limit
      /\ inUse' \in [Budgets -> Nat]
      /\ waiters' \in [Budgets -> Seq(Requests)]
      /\ permit' \in [Requests -> States]
      /\ under' = [under EXCEPT ![r] = None]
      /\ \A c \in Budgets : Sound(c)'
      /\ \A c \in Budgets \ {b} : inUse'[c] = inUse[c] /\ waiters'[c] = waiters[c]
      /\ permit'[r] = "free"
      /\ \A q \in Requests \ {r} : permit'[q] = "free" <=> permit[q] = "free"
  BY <1>1, GiveBackEffect
<1>3. UNCHANGED <<registry, key, claims>>
  BY DEF GiveBack
<1>4. Created' = Created
  BY <1>3 DEF Created
<1>5. BudgetTypeOK'
  BY <1>2, <1>3, <1>4 DEF BudgetTypeOK, States
<1>6. Coherent'
  <2>1. \A q \in Requests : /\ under'[q] = None <=> permit'[q] = "free"
                            /\ under'[q] # None => under'[q] \in Created'
    BY <1>2, <1>4 DEF Coherent, BudgetTypeOK
  <2>2. \A c \in Budgets \ Created' : Unclaimed(claims'[c]) /\ inUse'[c] = 0 /\ waiters'[c] = <<>>
    BY <1>2, <1>3, <1>4 DEF Coherent
  <2> QED
    BY <1>3, <2>1, <2>2 DEF Coherent
<1>7. LimitIsLargestClaim'
  BY <1>2, <1>3 DEF LimitIsLargestClaim
<1>8. OnlyRegisteredCounts'
  <2> SUFFICES ASSUME NEW c \in Created, registry[key[c]] # c
               PROVE  Unclaimed(claims[c]) /\ inUse'[c] = 0
    BY <1>3, <1>4 DEF OnlyRegisteredCounts
  <2>1. Unclaimed(claims[c]) /\ inUse[c] = 0 /\ c \in Budgets
    BY DEF OnlyRegisteredCounts, Created
  <2> QED
    BY <1>2, <2>1
<1>9. InUseExact' /\ QueueExact' /\ WorkConserving'
  BY <1>2 DEF Sound, InUseExact, QueueExact, WorkConserving
<1> QED
  BY <1>5, <1>6, <1>7, <1>8, <1>9

\* cancel of a waiter still queued.
LEMMA CancelQueuedKeeps ==
  ASSUME IInv, NEW r \in Requests, CancelQueued(r), NEW b, b = under[r]
  PROVE  IInv'
<1> USE DEF IInv
<1>1. PICK i \in DOMAIN waiters[b] :
        waiters[b][i] = r /\ waiters' = [waiters EXCEPT ![b] = RemoveAt(waiters[b], i)]
  BY DEF CancelQueued, Withdraw
<1>2. /\ permit[r] = "queued"
      /\ permit' = [permit EXCEPT ![r] = "free"]
      /\ under' = [under EXCEPT ![r] = None]
      /\ UNCHANGED <<registry, key, claims, limit, inUse, retiring>>
  BY DEF CancelQueued
<1>3. /\ b \in Budgets /\ b \in Created /\ b # None
      /\ waiters[b] \in Seq(Requests) /\ Sound(b) /\ i \in 1..Len(waiters[b])
  BY <1>1, <1>2, SoundParts DEF Coherent, Created, BudgetTypeOK
<1> DEFINE rest == RemoveAt(waiters[b], i)
<1>4. /\ rest \in Seq(Requests)
      /\ Len(rest) = Len(waiters[b]) - 1
      /\ IsInjective(rest)
      /\ Range(rest) = Range(waiters[b]) \ {r}
  <2>1. IsInjective(waiters[b])
    BY <1>3 DEF Sound
  <2>2. PICK q \in Seq(Requests) : q = waiters[b]
    BY <1>3
  <2>3. IsInjective(q) /\ i \in 1..Len(q) /\ rest = RemoveAt(q, i)
    BY <1>3, <2>1, <2>2
  <2> HIDE DEF rest
  <2>4. rest \in Seq(Requests) /\ Len(rest) = Len(q) - 1
    BY <2>3, LeaveQueue
  <2>5. IsInjective(rest)
    BY <2>3, LeaveQueue
  <2>6. Range(rest) = Range(q) \ {q[i]}
    BY <2>3, LeaveQueue
  <2> QED
    BY <1>1, <2>2, <2>4, <2>5, <2>6
<1> HIDE DEF rest
<1>5. waiters'[b] = rest /\ \A c \in Budgets \ {b} : waiters'[c] = waiters[c]
  BY <1>1, <1>3 DEF rest, BudgetTypeOK
<1>6. Created' = Created
  BY <1>2 DEF Created
<1>7. BudgetTypeOK'
  BY <1>1, <1>2, <1>4, <1>6 DEF BudgetTypeOK, rest
<1>8. Coherent'
  BY <1>2, <1>3, <1>5, <1>6 DEF Coherent, BudgetTypeOK
<1>9. LimitIsLargestClaim' /\ OnlyRegisteredCounts'
  BY <1>2, <1>6 DEF LimitIsLargestClaim, OnlyRegisteredCounts
<1>10. Sound(b)'
  <2>1. Holders(b)' = Holders(b)
    BY <1>2, <1>3 DEF Holders, BudgetTypeOK
  <2>2. {q \in Requests : permit'[q] = "queued" /\ under'[q] = b}
          = {q \in Requests : permit[q] = "queued" /\ under[q] = b} \ {r}
    BY <1>2, <1>3 DEF BudgetTypeOK
  <2>3. ~HasRoom(b)
    <3>1. waiters[b] # <<>>
      BY <1>3
    <3> QED
      BY <1>3, <3>1 DEF Sound
  <2>4. ~HasRoom(b)'
    BY <1>2, <2>3 DEF HasRoom
  <2> QED
    BY <1>2, <1>3, <1>4, <1>5, <2>1, <2>2, <2>4 DEF Sound, Queued
<1>11. ASSUME NEW c \in Budgets \ {b} PROVE Sound(c)'
  <2>1. Sound(c) /\ c # None
    BY SoundParts, BudgetAssumption
  <2>2. \A q \in Requests : under[q] = c \/ under'[q] = c
                              => permit'[q] = permit[q] /\ under'[q] = under[q]
    BY <1>2, <2>1 DEF BudgetTypeOK
  <2> QED
    BY <1>2, <1>5, <2>1, <2>2, Untouched
<1>12. InUseExact' /\ QueueExact' /\ WorkConserving'
  BY <1>10, <1>11 DEF Sound, InUseExact, QueueExact, WorkConserving
<1> QED
  BY <1>7, <1>8, <1>9, <1>12

-------------------------------------------------------------------------------
(* The theorems.                                                           *)

\* The invariant holds before the first claim.
LEMMA InitEstablishes == BudgetInit => IInv
<1> SUFFICES ASSUME BudgetInit PROVE IInv
  OBVIOUS
<1> USE DEF BudgetInit
<1>1. Created = {}
  BY DEF Created
<1>2. BudgetTypeOK
  BY <1>1, EmptySeq DEF BudgetTypeOK, NoClaim
<1>3. Coherent
  BY <1>1 DEF Coherent, Unclaimed
<1>4. InUseExact
  <2>1. \A b \in Budgets : Holders(b) = {}
    BY DEF Holders
  <2> QED
    BY <2>1, FS_EmptySet DEF InUseExact
<1>5. QueueExact /\ WorkConserving
  BY DEF QueueExact, WorkConserving, Queued, Range, IsInjective
<1>6. LimitIsLargestClaim
  BY DEF LimitIsLargestClaim, NoClaim
<1>7. OnlyRegisteredCounts
  BY <1>1 DEF OnlyRegisteredCounts
<1> QED
  BY <1>2, <1>3, <1>4, <1>5, <1>6, <1>7 DEF IInv

\* Every step keeps the invariant: one case per operation.
LEMMA StepPreserves == IInv /\ [BudgetNext]_budgetVars => IInv'
<1> SUFFICES ASSUME IInv, [BudgetNext]_budgetVars PROVE IInv'
  OBVIOUS
<1>1. ASSUME NEW p \in Pools, NEW a \in Accounts, NEW b \in Budgets, NEW n \in Sizes,
             ClaimBudget(p, a, b, n)
      PROVE  IInv'
  BY <1>1, ClaimKeeps
<1>2. ASSUME NEW p \in Pools, NEW b \in Created, DropClaim(p, b) PROVE IInv'
  BY <1>2, DropKeeps
<1>3. ASSUME NEW b \in Created, Retire(b) PROVE IInv'
  BY <1>3, RetireKeeps
<1>4. ASSUME NEW r \in Requests, NEW b \in Created, TryAcquire(r, b) PROVE IInv'
  BY <1>4, TryKeeps
<1>5. ASSUME NEW r \in Requests, NEW b \in Created, Wait(r, b) PROVE IInv'
  BY <1>5, WaitKeeps
<1>6. ASSUME NEW r \in Requests, Release(r) PROVE IInv'
  BY <1>6, GiveBackKeeps DEF Release
<1>7. ASSUME NEW r \in Requests, CancelServed(r) PROVE IInv'
  BY <1>7, GiveBackKeeps DEF CancelServed
<1>8. ASSUME NEW r \in Requests, CancelQueued(r) PROVE IInv'
  BY <1>8, CancelQueuedKeeps
<1>9. CASE UNCHANGED budgetVars
  <2> USE <1>9 DEF budgetVars
  <2>1. Created' = Created
    BY DEF Created
  <2> QED
    BY <2>1 DEF IInv, BudgetTypeOK, Coherent, InUseExact, QueueExact, WorkConserving,
                LimitIsLargestClaim, OnlyRegisteredCounts, Holders, Queued, HasRoom
<1> QED
  BY <1>1, <1>2, <1>3, <1>4, <1>5, <1>6, <1>7, <1>8, <1>9 DEF BudgetNext

\* Whatever pools, accounts, objects and requests there are, every behaviour of
\* the budgets keeps the inductive invariant (budget.go as a whole).
THEOREM BudgetInvariant == BudgetSpec => []IInv
BY InitEstablishes, StepPreserves, PTL DEF BudgetSpec

\* The variables keep their types; in particular no counter goes below zero.
THEOREM BudgetTypeCorrect == BudgetSpec => []BudgetTypeOK
<1>1. IInv => BudgetTypeOK
  BY DEF IInv
<1> QED
  BY <1>1, BudgetInvariant, PTL

\* The counter of an object is the number of its permits that are out: grant,
\* cancel and release, in any order, leak none and mint none.
THEOREM PermitsExact == BudgetSpec => []InUseExact
<1>1. IInv => InUseExact
  BY DEF IInv
<1> QED
  BY <1>1, BudgetInvariant, PTL

\* A queue names the requests that are blocked on its object, each once.
THEOREM QueuesExact == BudgetSpec => []QueueExact
<1>1. IInv => QueueExact
  BY DEF IInv
<1> QED
  BY <1>1, BudgetInvariant, PTL

\* Nobody waits while a permit is free, so tryAcquire overtakes nobody.
THEOREM NobodyWaitsForAFreePermit == BudgetSpec => []WorkConserving
<1>1. IInv => WorkConserving
  BY DEF IInv
<1> QED
  BY <1>1, BudgetInvariant, PTL

\* The ceiling in force is the largest live claim.
THEOREM CeilingIsLargestClaim == BudgetSpec => []LimitIsLargestClaim
<1>1. IInv => LimitIsLargestClaim
  BY DEF IInv
<1> QED
  BY <1>1, BudgetInvariant, PTL

\* Only the registered object of an account has claims or permits, although
\* goroutines may hold pointers to older ones.
THEOREM RetiredCountsNothing == BudgetSpec => []OnlyRegisteredCounts
<1>1. IInv => OnlyRegisteredCounts
  BY DEF IInv
<1> QED
  BY <1>1, BudgetInvariant, PTL

-------------------------------------------------------------------------------
(* Steps of the budgets.                                                   *)

CeilingStep == \A b \in Budgets : inUse'[b] > inUse[b] => inUse'[b] <= limit'[b]

\* A step that adds a permit ends under the ceiling (grantLocked, tryAcquire).
LEMMA StepRespectsCeiling == IInv /\ [BudgetNext]_budgetVars => CeilingStep
<1> SUFFICES ASSUME IInv, [BudgetNext]_budgetVars PROVE CeilingStep
  OBVIOUS
<1>1. BudgetTypeOK /\ Coherent /\ \A c \in Budgets : Sound(c)
  BY SoundParts DEF IInv
<1>2. \A c \in Budgets : inUse[c] \in Nat
  BY <1>1 DEF BudgetTypeOK
<1>3. ASSUME NEW b \in Budgets, NEW claim \in [Pools -> Nat \cup {NoClaim}],
             Recompute(b, claim), UNCHANGED under
      PROVE  CeilingStep
  <2>1. /\ inUse'[b] > inUse[b] => inUse'[b] <= limit'[b]
        /\ \A c \in Budgets \ {b} : inUse'[c] = inUse[c]
    BY <1>1, <1>3, RecomputeEffect
  <2> QED
    BY <1>2, <2>1 DEF CeilingStep
<1>4. ASSUME NEW p \in Pools, NEW a \in Accounts, NEW b \in Budgets, NEW n \in Sizes,
             ClaimBudget(p, a, b, n)
      PROVE  CeilingStep
  <2>1. n \in Nat /\ claims[b] \in [Pools -> Nat \cup {NoClaim}]
    BY <1>1, BudgetAssumption DEF BudgetTypeOK
  <2>2. [claims[b] EXCEPT ![p] = n] \in [Pools -> Nat \cup {NoClaim}]
    BY <2>1
  <2> QED
    BY <1>3, <1>4, <2>2 DEF ClaimBudget
<1>5. ASSUME NEW p \in Pools, NEW b \in Created, DropClaim(p, b) PROVE CeilingStep
  <2>1. b \in Budgets /\ [claims[b] EXCEPT ![p] = NoClaim] \in [Pools -> Nat \cup {NoClaim}]
    BY <1>1 DEF BudgetTypeOK, Created
  <2> QED
    BY <1>3, <1>5, <2>1 DEF DropClaim
<1>6. ASSUME NEW r \in Requests, NEW b \in Created, TryAcquire(r, b) PROVE CeilingStep
  BY <1>1, <1>2, <1>6 DEF TryAcquire, HasRoom, BudgetTypeOK, CeilingStep, Created
<1>7. ASSUME NEW r \in Requests, NEW b \in Created, Wait(r, b) PROVE CeilingStep
  BY <1>2, <1>7, WaitKeeps DEF CeilingStep
<1>8. ASSUME NEW r \in Requests, GiveBack(r) PROVE CeilingStep
  <2>1. PICK b : b = under[r]
    OBVIOUS
  <2>2. /\ b \in Created
        /\ limit' = limit
        /\ inUse' \in [Budgets -> Nat]
        /\ inUse'[b] > inUse[b] - 1 => inUse'[b] <= limit[b]
        /\ \A c \in Budgets \ {b} : inUse'[c] = inUse[c]
    BY <1>1, <1>8, <2>1, GiveBackEffect
  <2> QED
    BY <1>2, <2>2 DEF CeilingStep, Created
<1>9. ASSUME inUse' = inUse PROVE CeilingStep
  BY <1>2, <1>9 DEF CeilingStep
<1> QED
  BY <1>4, <1>5, <1>6, <1>7, <1>8, <1>9
     DEF BudgetNext, Retire, Release, CancelServed, CancelQueued, budgetVars

\* Permits are added only under the ceiling in force after the step, whatever
\* became of the ceiling meanwhile.
THEOREM PermitsUnderCeiling == BudgetSpec => CeilingRespected
<1>1. IInv /\ [BudgetNext]_budgetVars
        => [\A b \in Budgets : inUse'[b] > inUse[b] => inUse'[b] <= limit'[b]]_budgetVars
  BY StepRespectsCeiling DEF CeilingStep
<1> QED
  BY <1>1, BudgetInvariant, PTL DEF BudgetSpec, CeilingRespected

\* Whoever grantLocked serves stood ahead of everyone it leaves waiting.
LEMMA GrantOrder ==
  ASSUME BudgetTypeOK,
         NEW b \in Budgets, NEW lim \in Nat, NEW used \in Nat,
         NEW queue \in Seq(Requests), NEW now, IsInjective(queue),
         Grant(b, lim, used, queue, now),
         NEW r \in Requests, now[r] # "held", permit'[r] = "held",
         NEW i \in 1..Len(queue), queue[i] \in Range(waiters'[b])
  PROVE  \E k \in 1..(i - 1) : queue[k] = r
<1> DEFINE n == Room(lim, used, queue)
           rest == SubSeq(queue, n + 1, Len(queue))
<1>1. n \in 0..Len(queue)
  BY RoomBounds
<1>2. waiters'[b] = rest /\ r \in Oldest(queue, n)
  BY DEF Grant, BudgetTypeOK
<1> HIDE DEF n, rest
<1>3. Range(rest) = Range(queue) \ Oldest(queue, n)
  BY <1>1, ServeOldest DEF rest
<1>4. i > n
  BY <1>1, <1>2, <1>3 DEF Oldest
<1> QED
  BY <1>1, <1>2, <1>4 DEF Oldest

\* r was served ahead of everyone still waiting with it.
ServedInTurn(r) ==
  permit[r] # "held" /\ permit'[r] = "held" =>
    LET queue == waiters[under'[r]]
    IN \A i \in DOMAIN queue :
         queue[i] \in Range(waiters'[under'[r]]) => \E k \in 1..(i - 1) : queue[k] = r

\* A step that serves waiters serves the head of the queue (grantLocked).
LEMMA StepServesInTurn ==
  IInv /\ [BudgetNext]_budgetVars => \A r \in Requests : ServedInTurn(r)
<1> SUFFICES ASSUME IInv, [BudgetNext]_budgetVars, NEW r \in Requests,
                    permit[r] # "held", permit'[r] = "held",
                    NEW b, b = under'[r],
                    NEW i \in DOMAIN waiters[b], waiters[b][i] \in Range(waiters'[b])
             PROVE  \E k \in 1..(i - 1) : waiters[b][k] = r
  BY DEF ServedInTurn
<1>1. BudgetTypeOK /\ Coherent /\ \A c \in Budgets : Sound(c)
  BY SoundParts DEF IInv
<1>2. ASSUME NEW c \in Budgets, NEW claim \in [Pools -> Nat \cup {NoClaim}],
             Recompute(c, claim), UNCHANGED under
      PROVE  \E k \in 1..(i - 1) : waiters[b][k] = r
  <2>1. PICK n \in {0} \cup ({claim[p] : p \in Pools} \ {NoClaim}) :
          Grant(c, n, inUse[c], waiters[c], permit)
    BY <1>2 DEF Recompute
  <2>2. n \in Nat
    BY DEF NoClaim
  <2>3. c = b
    BY <1>1, <1>2, RecomputeEffect
  <2>4. /\ inUse[b] \in Nat /\ waiters[b] \in Seq(Requests) /\ IsInjective(waiters[b])
        /\ i \in 1..Len(waiters[b])
    BY <1>1, <2>3 DEF BudgetTypeOK, Sound
  <2> QED
    BY <1>1, <2>1, <2>2, <2>3, <2>4, GrantOrder, SMTT(20)
<1>3. ASSUME NEW p \in Pools, NEW a \in Accounts, NEW c \in Budgets, NEW n \in Sizes,
             ClaimBudget(p, a, c, n)
      PROVE  \E k \in 1..(i - 1) : waiters[b][k] = r
  <2>1. n \in Nat /\ claims[c] \in [Pools -> Nat \cup {NoClaim}]
    BY <1>1, BudgetAssumption DEF BudgetTypeOK
  <2>2. [claims[c] EXCEPT ![p] = n] \in [Pools -> Nat \cup {NoClaim}]
    BY <2>1
  <2> QED
    BY <1>2, <1>3, <2>2 DEF ClaimBudget
<1>4. ASSUME NEW p \in Pools, NEW c \in Created, DropClaim(p, c)
      PROVE  \E k \in 1..(i - 1) : waiters[b][k] = r
  <2>1. c \in Budgets /\ [claims[c] EXCEPT ![p] = NoClaim] \in [Pools -> Nat \cup {NoClaim}]
    BY <1>1 DEF BudgetTypeOK, Created
  <2> QED
    BY <1>2, <1>4, <2>1 DEF DropClaim
<1>5. ASSUME NEW q \in Requests, NEW c \in Created, TryAcquire(q, c)
      PROVE  FALSE
  <2>1. q = r /\ b = c /\ b \in Budgets
    BY <1>1, <1>5 DEF TryAcquire, BudgetTypeOK, Created
  <2>2. waiters[b] = <<>>
    BY <1>1, <1>5, <2>1 DEF TryAcquire, Sound
  <2> QED
    BY <2>2
<1>6. ASSUME NEW q \in Requests, NEW c \in Created, Wait(q, c)
      PROVE  \E k \in 1..(i - 1) : waiters[b][k] = r
  <2> DEFINE queue == Append(waiters[c], q)
             now == [permit EXCEPT ![q] = "queued"]
  <2>1. /\ c \in Budgets /\ permit[q] = "free" /\ under[q] = None /\ c # None
        /\ limit[c] \in Nat /\ inUse[c] \in Nat /\ waiters[c] \in Seq(Requests)
        /\ Grant(c, limit[c], inUse[c], queue, now)
        /\ now[r] # "held"
    BY <1>1, <1>6, BudgetAssumption DEF Wait, Coherent, BudgetTypeOK, Created
  <2>2. c = b
    <3>1. /\ under' = [under EXCEPT ![q] = c]
          /\ \A d \in Requests \ {q} : under[d] # c => permit'[d] = permit[d]
      BY <1>6, WaitKeeps
    <3>2. CASE r = q
      BY <1>1, <3>1, <3>2 DEF BudgetTypeOK
    <3>3. CASE r # q
      BY <1>1, <3>1, <3>3 DEF BudgetTypeOK
    <3> QED
      BY <3>2, <3>3
  <2>3. IsInjective(waiters[c]) /\ q \notin Range(waiters[c])
    BY <1>1, <2>1 DEF Sound, Queued
  <2>4. queue \in Seq(Requests) /\ IsInjective(queue)
    BY <2>1, <2>3, JoinQueue
  <2>5. /\ i \in 1..Len(queue) /\ i <= Len(waiters[b])
        /\ \A k \in 1..i : queue[k] = waiters[b][k]
    <3>1. /\ waiters[b] \in Seq(Requests) /\ i \in 1..Len(waiters[b])
          /\ queue = Append(waiters[b], q)
      BY <2>1, <2>2
    <3> HIDE DEF queue
    <3> QED
      BY <3>1, AppendProperties
  <2> HIDE DEF queue, now
  <2>6. \E k \in 1..(i - 1) : queue[k] = r
    BY <1>1, <2>1, <2>2, <2>4, <2>5, GrantOrder, SMTT(30)
  <2> QED
    BY <2>5, <2>6
<1>7. ASSUME NEW q \in Requests, GiveBack(q)
      PROVE  \E k \in 1..(i - 1) : waiters[b][k] = r
  <2>1. PICK c : c = under[q]
    OBVIOUS
  <2> DEFINE now == [permit EXCEPT ![q] = "free"]
             used == IF inUse[c] > 0 THEN inUse[c] - 1 ELSE inUse[c]
  <2>2. /\ c \in Created
        /\ under' = [under EXCEPT ![q] = None]
        /\ permit'[q] = "free"
        /\ \A d \in Requests \ {q} : under[d] # c => permit'[d] = permit[d]
    BY <1>1, <1>7, <2>1, GiveBackEffect
  <2>3. r # q /\ c = b /\ c \in Budgets
    <3>1. r # q
      BY <2>2
    <3>2. under'[r] = under[r] /\ under[r] = c
      BY <1>1, <2>2, <3>1 DEF BudgetTypeOK
    <3> QED
      BY <2>2, <3>1, <3>2 DEF Created
  <2>4. /\ limit[c] \in Nat /\ used \in Nat /\ waiters[c] \in Seq(Requests)
        /\ IsInjective(waiters[c])
        /\ now[r] # "held"
        /\ i \in 1..Len(waiters[c])
    BY <1>1, <2>3 DEF BudgetTypeOK, Sound
  <2>5. Grant(b, limit[b], used, waiters[b], now)
    BY <1>7, <2>1, <2>3 DEF GiveBack
  <2> HIDE DEF now, used
  <2>6. /\ b \in Budgets /\ limit[b] \in Nat /\ used \in Nat
        /\ waiters[b] \in Seq(Requests) /\ IsInjective(waiters[b])
        /\ i \in 1..Len(waiters[b]) /\ now[r] # "held"
    BY <2>3, <2>4
  <2> QED
    BY <1>1, <2>5, <2>6, GrantOrder, SMTT(30)
<1>8. ASSUME NEW c \in Created, Retire(c) PROVE FALSE
  BY <1>8 DEF Retire
<1>9. ASSUME NEW q \in Requests, CancelQueued(q) PROVE FALSE
  BY <1>1, <1>9 DEF CancelQueued, BudgetTypeOK
<1>10. ASSUME UNCHANGED budgetVars PROVE FALSE
  BY <1>10 DEF budgetVars
<1> QED
  BY <1>3, <1>4, <1>5, <1>6, <1>7, <1>8, <1>9, <1>10 DEF BudgetNext, Release, CancelServed

\* Permits are handed out in the order the requests arrived.
THEOREM PermitsInTurn == BudgetSpec => OldestFirst
<1>1. IInv /\ [BudgetNext]_budgetVars
        => [\A r \in Requests :
              permit[r] # "held" /\ permit'[r] = "held" =>
                LET queue == waiters[under'[r]]
                IN \A i \in DOMAIN queue :
                     queue[i] \in Range(waiters'[under'[r]]) =>
                       \E k \in 1..(i - 1) : queue[k] = r]_budgetVars
  BY StepServesInTurn DEF ServedInTurn
<1> QED
  BY <1>1, BudgetInvariant, PTL DEF BudgetSpec, OldestFirst

-------------------------------------------------------------------------------
(* ConnBudget implements AccountPermits: counted per account, over every   *)
(* object the account ever had, permits go out only under the ceiling.     *)

\* The permits of an account are those of the one object registered for it.
OutIsRegistered ==
  \A a \in Accounts :
    Out[a] = IF registry[a] = None THEN {} ELSE Holders(registry[a])

\* The invariant gives it: a held permit belongs to the registered object.
LEMMA OutIs == IInv => OutIsRegistered
<1> SUFFICES ASSUME IInv, NEW a \in Accounts
             PROVE  Out[a] = IF registry[a] = None THEN {} ELSE Holders(registry[a])
  BY DEF OutIsRegistered
<1> USE DEF IInv
<1>1. ASSUME NEW r \in Requests, permit[r] = "held"
      PROVE  under[r] \in Created /\ registry[key[under[r]]] = under[r]
  <2>1. under[r] \in Created /\ under[r] \in Budgets
    BY <1>1 DEF Coherent, Created, BudgetTypeOK
  <2>2. Holders(under[r]) \in SUBSET Requests /\ r \in Holders(under[r])
    BY <1>1 DEF Holders
  <2>3. inUse[under[r]] # 0
    BY <2>1, <2>2, FiniteRequests, FS_EmptySet DEF InUseExact
  <2> QED
    BY <2>1, <2>3 DEF OnlyRegisteredCounts
<1>2. Out[a] = {r \in Requests : permit[r] = "held" /\ key[under[r]] = a}
  BY DEF Out
<1>3. CASE registry[a] = None
  BY <1>1, <1>2, <1>3, BudgetAssumption DEF Created
<1>4. CASE registry[a] # None
  <2>1. key[registry[a]] = a
    BY <1>4 DEF Coherent
  <2> QED
    BY <1>1, <1>2, <1>4, <2>1 DEF Holders
<1> QED
  BY <1>3, <1>4

\* The same after a step.
LEMMA OutIsNext == IInv' => OutIsRegistered'
BY OutIs, PTL

\* A set of new holders fits its account when the object's counter went up
\* under the ceiling.
LEMMA AdmitStep ==
  ASSUME IInv, IInv', NEW a \in Accounts, NEW b \in Budgets,
         registry'[a] = b,
         NEW keep \in SUBSET Holders(b),
         keep \subseteq Holders(b)',
         Cardinality(keep) < inUse'[b] => inUse'[b] <= limit'[b],
         NEW new, new = Holders(b)' \ keep,
         \A r \in new : permit[r] # "held",
         \A d \in Accounts \ {a} : registry'[d] = registry[d],
         \A c \in Budgets \ {b} : Holders(c)' = Holders(c)
  PROVE  Account!Admit(a, keep, new)
<1>1. /\ b # None
      /\ Holders(b)' \in SUBSET Requests
      /\ inUse'[b] = Cardinality(Holders(b)')
      /\ keep \cup new = Holders(b)'
  BY BudgetAssumption DEF IInv, InUseExact, Holders
<1>2. OutIsRegistered /\ OutIsRegistered'
  BY OutIs, OutIsNext
<1>3. Out'[a] = keep \cup new
  BY <1>1, <1>2 DEF OutIsRegistered
<1>4. ASSUME NEW d \in Accounts \ {a} PROVE Out'[d] = Out[d]
  <2>1. CASE registry[d] = None
    BY <1>2, <2>1 DEF OutIsRegistered
  <2>2. CASE registry[d] # None
    <3>1. registry'[d] \in Budgets /\ registry'[d] # b
      BY <2>2 DEF IInv, BudgetTypeOK, Coherent
    <3> QED
      BY <1>2, <2>2, <3>1 DEF OutIsRegistered
  <2> QED
    BY <2>1, <2>2
<1>5. Out' = [Out EXCEPT ![a] = keep \cup new]
  BY <1>3, <1>4, ZenonT(30) DEF Out
<1>6. \A r \in new : r \in Requests /\ \A d \in Accounts : r \notin Out[d]
  BY <1>1 DEF Out
<1>7. new # {} => Cardinality(keep \cup new) <= Ceiling'[a]
  <2> SUFFICES ASSUME new # {} PROVE Cardinality(keep \cup new) <= Ceiling'[a]
    OBVIOUS
  <2>1. Cardinality(keep) <= inUse'[b] /\ Cardinality(keep) # inUse'[b]
    BY <1>1, FiniteRequests, FS_Subset
  <2>2. Cardinality(keep) \in Nat /\ inUse'[b] \in Nat
    BY <1>1, FiniteRequests
  <2>3. Ceiling'[a] = limit'[b]
    BY <1>1 DEF Ceiling
  <2> QED
    BY <1>1, <2>1, <2>2, <2>3, SMTT(30)
<1>8. Account!Cardinality(keep \cup new) = Cardinality(keep \cup new)
  BY DEF Account!Cardinality, Cardinality, Account!IsFiniteSet, IsFiniteSet
<1> QED
  BY <1>5, <1>6, <1>7, <1>8 DEF Account!Admit

\* The requests admitted are those that hold a permit of the account afterwards
\* and did not before.
LEMMA AdmitNew ==
  ASSUME NEW a \in Accounts, NEW keep \in SUBSET Out[a], NEW new,
         Account!Admit(a, keep, new)
  PROVE  new = Out'[a] \ Out[a]
<1>1. Out'[a] = keep \cup new
  <2>1. Out' = [Out EXCEPT ![a] = keep \cup new]
    BY DEF Account!Admit
  <2>2. a \in DOMAIN Out
    BY DEF Out
  <2> HIDE DEF Out
  <2> QED
    BY <2>1, <2>2
<1>2. \A r \in new : r \notin Out[a]
  BY DEF Account!Admit
<1> QED
  BY <1>1, <1>2

-------------------------------------------------------------------------------
(* Every step of a budget is a step of the accounts, or none.              *)

AccountStep == Account!Next \/ UNCHANGED Account!accountVars

\* Requests outside b's object are none of its holders, before and after.
LEMMA OtherHolders ==
  ASSUME NEW c \in Budgets,
         \A r \in Requests : under[r] = c \/ under'[r] = c
                               => permit'[r] = permit[r] /\ under'[r] = under[r]
  PROVE  Holders(c)' = Holders(c)
BY DEF Holders

\* A claim or its withdrawal moves the ceiling and may admit waiters.
LEMMA RecomputeMaps ==
  ASSUME IInv, IInv', NEW a \in Accounts, NEW b \in Budgets,
         NEW claim \in [Pools -> Nat \cup {NoClaim}],
         Recompute(b, claim), UNCHANGED under,
         registry' = [registry EXCEPT ![a] = b],
         Out[a] = Holders(b)
  PROVE  AccountStep
<1> DEFINE new == Holders(b)' \ Holders(b)
<1>1. BudgetTypeOK /\ \A c \in Budgets : Sound(c)
  BY SoundParts DEF IInv
<1>2. /\ limit' \in [Budgets -> Nat]
      /\ inUse'[b] > inUse[b] => inUse'[b] <= limit'[b]
      /\ \A c \in Budgets \ {b} : limit'[c] = limit[c]
      /\ \A r \in Requests : under[r] # b => permit'[r] = permit[r]
      /\ \A r \in Requests : permit[r] = "held" => permit'[r] = "held"
  BY <1>1, RecomputeEffect
<1>3. /\ Holders(b) \subseteq Holders(b)'
      /\ \A r \in new : permit[r] # "held"
      /\ Holders(b) \in SUBSET Requests
  BY <1>2 DEF Holders
<1>4. inUse[b] = Cardinality(Holders(b)) /\ inUse[b] \in Nat /\ inUse'[b] \in Nat
  BY DEF IInv, InUseExact, BudgetTypeOK
<1>5. \A c \in Budgets \ {b} : Holders(c)' = Holders(c)
  BY <1>2, OtherHolders
<1>6. registry'[a] = b /\ \A d \in Accounts \ {a} : registry'[d] = registry[d]
  BY DEF IInv, BudgetTypeOK
<1> HIDE DEF new
<1>7. Account!Admit(a, Holders(b), new)
  <2>1. Cardinality(Holders(b)) < inUse'[b] => inUse'[b] <= limit'[b]
    BY <1>2, <1>4
  <2> QED
    BY <1>3, <1>5, <1>6, <2>1, AdmitStep DEF new
<1>8. Ceiling'[a] \in Nat /\ Ceiling' = [Ceiling EXCEPT ![a] = Ceiling'[a]]
  <2>1. Ceiling'[a] = limit'[b] /\ limit'[b] \in Nat
    BY <1>2, <1>6, BudgetAssumption DEF Ceiling
  <2>2. ASSUME NEW d \in Accounts \ {a} PROVE Ceiling'[d] = Ceiling[d]
    <3>1. registry'[d] = registry[d]
      BY <1>6
    <3>2. registry[d] # None => registry[d] \in Budgets \ {b}
      BY <1>6, <3>1, BudgetAssumption DEF IInv, BudgetTypeOK, Coherent
    <3> QED
      BY <1>2, <3>1, <3>2 DEF Ceiling
  <2>3. /\ Ceiling = [d \in Accounts |-> Ceiling[d]]
        /\ Ceiling' = [d \in Accounts |-> Ceiling'[d]]
    BY DEF Ceiling
  <2> HIDE DEF Ceiling
  <2> QED
    BY <2>1, <2>2, <2>3
<1>9. Account!Resize(a, new)
  BY <1>7, <1>8 DEF Account!Resize
<1>10. new = Out'[a] \ Out[a]
  BY <1>7, AdmitNew
<1> QED
  BY <1>9, <1>10 DEF AccountStep, Account!Next

\* claimBudget raises or lowers the account's ceiling, on its registered object or a
\* new one.
LEMMA ClaimMaps ==
  ASSUME IInv, IInv', NEW p \in Pools, NEW a \in Accounts, NEW b \in Budgets,
         NEW n \in Sizes, ClaimBudget(p, a, b, n)
  PROVE  AccountStep
<1> DEFINE claim == [claims[b] EXCEPT ![p] = n]
<1>1. claim \in [Pools -> Nat \cup {NoClaim}]
  <2>1. n \in Nat
    BY BudgetAssumption
  <2>2. claims[b] \in [Pools -> Nat \cup {NoClaim}]
    BY DEF IInv, BudgetTypeOK
  <2> QED
    BY <2>1, <2>2
<1>2. /\ registry[a] = b \/ (registry[a] = None /\ key[b] = None)
      /\ registry' = [registry EXCEPT ![a] = b]
      /\ Recompute(b, claim)
      /\ UNCHANGED under
  BY DEF ClaimBudget
<1> HIDE DEF claim
<1>3. Out[a] = Holders(b)
  <2>1. OutIsRegistered
    BY OutIs
  <2>2. b # None
    BY BudgetAssumption
  <2>3. ASSUME key[b] = None PROVE Holders(b) = {}
    BY <2>2, <2>3 DEF Holders, IInv, Coherent, Created
  <2> QED
    BY <1>2, <2>1, <2>2, <2>3 DEF OutIsRegistered
<1> QED
  BY <1>1, <1>2, <1>3, RecomputeMaps

\* dropClaim lowers the account's ceiling.
LEMMA DropMaps ==
  ASSUME IInv, IInv', NEW p \in Pools, NEW b \in Created, DropClaim(p, b)
  PROVE  AccountStep
<1> DEFINE claim == [claims[b] EXCEPT ![p] = NoClaim]
<1>1. b \in Budgets /\ b # None /\ key[b] \in Accounts /\ claim \in [Pools -> Nat \cup {NoClaim}]
  BY BudgetAssumption DEF IInv, BudgetTypeOK, Created
<1>2. /\ Recompute(b, claim)
      /\ UNCHANGED <<registry, key, under>>
  BY DEF DropClaim
<1> HIDE DEF claim
<1>3. CASE registry[key[b]] = b
  <2>1. Out[key[b]] = Holders(b)
    BY <1>1, <1>3, OutIs DEF OutIsRegistered
  <2>2. registry' = [registry EXCEPT ![key[b]] = b]
    BY <1>1, <1>2, <1>3 DEF IInv, BudgetTypeOK
  <2> QED
    BY <1>1, <1>2, <2>1, <2>2, RecomputeMaps
<1>4. CASE registry[key[b]] # b
  <2>1. \A d \in Accounts : registry[d] # b
    BY <1>1, <1>4 DEF IInv, Coherent
  <2>2. /\ \A c \in Budgets \ {b} : limit'[c] = limit[c]
        /\ \A r \in Requests : under[r] # b => permit'[r] = permit[r]
    BY <1>1, <1>2, SoundParts, RecomputeEffect DEF IInv
  <2>3. \A c \in Budgets \ {b} : Holders(c)' = Holders(c)
    BY <1>2, <2>2, OtherHolders
  <2>4. \A d \in Accounts : registry[d] # None => registry[d] \in Budgets \ {b}
    BY <2>1 DEF IInv, BudgetTypeOK
  <2>5. Ceiling' = Ceiling
    BY <1>2, <2>2, <2>4 DEF Ceiling
  <2>6. \A d \in Accounts : Out'[d] = Out[d]
    BY <1>2, <2>3, <2>4, OutIs, OutIsNext DEF OutIsRegistered
  <2>7. Out' = Out
    BY <2>6 DEF Out
  <2> QED
    BY <2>5, <2>7 DEF AccountStep, Account!accountVars
<1> QED
  BY <1>3, <1>4

\* retire changes nothing an account is counted by: its object had nothing out.
LEMMA RetireMaps ==
  ASSUME IInv, IInv', NEW b \in Created, Retire(b)
  PROVE  AccountStep
<1>1. /\ b \in Budgets /\ key[b] \in Accounts /\ b # None
      /\ UNCHANGED <<key, claims, limit, inUse, waiters, permit, under>>
  BY BudgetAssumption DEF Retire, IInv, BudgetTypeOK, Created
<1>2. Out' = Out
  BY <1>1 DEF Out
<1>3. Ceiling' = Ceiling
  <2>1. CASE registry' = registry
    BY <1>1, <2>1 DEF Ceiling
  <2>2. CASE Unclaimed(claims[b]) /\ registry[key[b]] = b
               /\ registry' = [registry EXCEPT ![key[b]] = None]
    <3>1. limit[b] = 0
      BY <1>1, <2>2, UnclaimedLimit DEF IInv
    <3>2. \A d \in Accounts : Ceiling'[d] = Ceiling[d]
      BY <1>1, <2>2, <3>1 DEF Ceiling, IInv, BudgetTypeOK
    <3> QED
      BY <3>2 DEF Ceiling
  <2> QED
    BY <2>1, <2>2 DEF Retire
<1> QED
  BY <1>2, <1>3 DEF AccountStep, Account!accountVars

\* A request takes a free permit.
LEMMA TryMaps ==
  ASSUME IInv, IInv', NEW r \in Requests, NEW b \in Created, TryAcquire(r, b)
  PROVE  AccountStep
<1>1. /\ b \in Budgets /\ b # None /\ key[b] \in Accounts
      /\ permit[r] = "free" /\ under[r] = None
      /\ inUse[b] \in Nat /\ limit[b] \in Nat /\ inUse[b] < limit[b]
      /\ inUse'[b] = inUse[b] + 1
      /\ permit' = [permit EXCEPT ![r] = "held"]
      /\ under' = [under EXCEPT ![r] = b]
      /\ registry' = registry /\ limit' = limit
  BY BudgetAssumption DEF TryAcquire, HasRoom, IInv, Coherent, BudgetTypeOK, Created
<1>2. registry[key[b]] = b
  BY <1>1, UnclaimedLimit DEF IInv, OnlyRegisteredCounts
<1>3. /\ Holders(b)' = Holders(b) \cup {r} /\ r \notin Holders(b)
      /\ Holders(b) \in SUBSET Requests
  BY <1>1 DEF Holders, IInv, BudgetTypeOK
<1>4. \A c \in Budgets \ {b} : Holders(c)' = Holders(c)
  <2>1. ASSUME NEW c \in Budgets \ {b}, NEW q \in Requests, under[q] = c \/ under'[q] = c
        PROVE  permit'[q] = permit[q] /\ under'[q] = under[q]
    BY <1>1, <2>1, BudgetAssumption DEF IInv, BudgetTypeOK
  <2> QED
    BY <2>1, OtherHolders
<1>5. Out[key[b]] = Holders(b)
  BY <1>1, <1>2, OutIs DEF OutIsRegistered
<1>6. Account!Admit(key[b], Holders(b), {r})
  <2>1. {r} = Holders(b)' \ Holders(b)
    BY <1>3
  <2>2. inUse'[b] <= limit'[b]
    BY <1>1
  <2>3. \A q \in {r} : permit[q] # "held"
    BY <1>1
  <2>4. registry'[key[b]] = b /\ \A d \in Accounts \ {key[b]} : registry'[d] = registry[d]
    BY <1>1, <1>2
  <2> QED
    BY <1>1, <1>3, <1>4, <2>1, <2>2, <2>3, <2>4, AdmitStep
<1>7. Ceiling' = Ceiling
  BY <1>1 DEF Ceiling
<1>8. Account!Take(key[b], Out'[key[b]] \ Out[key[b]])
  <2>1. key[b] \in Accounts /\ Holders(b) \in SUBSET Out[key[b]]
    BY <1>1, <1>5
  <2>2. {r} = Out'[key[b]] \ Out[key[b]]
    BY <1>6, <2>1, AdmitNew
  <2>3. Account!Admit(key[b], Out[key[b]], Out'[key[b]] \ Out[key[b]])
    BY <1>5, <1>6, <2>2
  <2> QED
    BY <2>3, <1>7 DEF Account!Take
<1>9. Account!Next
  BY <1>1, <1>8 DEF Account!Next
<1> QED
  BY <1>9 DEF AccountStep

\* A request joins the queue of its object and may be served at once.
LEMMA WaitMaps ==
  ASSUME IInv, IInv', NEW r \in Requests, NEW b \in Created, Wait(r, b)
  PROVE  AccountStep
<1> DEFINE new == Holders(b)' \ Holders(b)
<1>1. /\ b \in Budgets /\ b # None /\ key[b] \in Accounts
      /\ permit[r] = "free" /\ under[r] = None
      /\ inUse[b] \in Nat /\ limit[b] \in Nat /\ inUse'[b] \in Nat
      /\ registry' = registry
  BY BudgetAssumption DEF Wait, IInv, Coherent, BudgetTypeOK, Created
<1>2. /\ inUse'[b] > inUse[b] => inUse'[b] <= limit'[b]
      /\ inUse'[b] >= inUse[b]
      /\ limit' = limit
      /\ under' = [under EXCEPT ![r] = b]
      /\ \A q \in Requests \ {r} : permit[q] = "held" => permit'[q] = "held"
      /\ \A q \in Requests \ {r} : under[q] # b => permit'[q] = permit[q]
  BY WaitKeeps
<1>3. /\ Holders(b) \subseteq Holders(b)'
      /\ \A q \in new : permit[q] # "held"
      /\ Holders(b) \in SUBSET Requests
      /\ new \in SUBSET Requests
  BY <1>1, <1>2 DEF Holders, IInv, BudgetTypeOK
<1>4. \A c \in Budgets \ {b} : Holders(c)' = Holders(c)
  <2>1. ASSUME NEW c \in Budgets \ {b}, NEW q \in Requests, under[q] = c \/ under'[q] = c
        PROVE  permit'[q] = permit[q] /\ under'[q] = under[q]
    BY <1>1, <1>2, <2>1, BudgetAssumption DEF IInv, BudgetTypeOK
  <2> QED
    BY <2>1, OtherHolders
<1>5. /\ inUse[b] = Cardinality(Holders(b))
      /\ inUse'[b] = Cardinality(Holders(b)')
  BY <1>1 DEF IInv, InUseExact
<1>6. CASE registry[key[b]] = b
  <2> HIDE DEF new
  <2>1. Cardinality(Holders(b)) < inUse'[b] => inUse'[b] <= limit'[b]
    BY <1>1, <1>2, <1>5
  <2>2. Out[key[b]] = Holders(b)
    BY <1>1, <1>6, OutIs DEF OutIsRegistered
  <2>3. Account!Admit(key[b], Holders(b), new)
    BY <1>1, <1>3, <1>4, <1>6, <2>1, AdmitStep DEF new
  <2>4. Ceiling' = Ceiling
    BY <1>1, <1>2 DEF Ceiling
  <2>5. Account!Take(key[b], Out'[key[b]] \ Out[key[b]])
    <3>1. Account!Admit(key[b], Out[key[b]], Out'[key[b]] \ Out[key[b]])
      BY <1>1, <2>2, <2>3, AdmitNew
    <3> QED
      BY <3>1, <2>4 DEF Account!Take
  <2>6. Account!Next
    BY <1>1, <2>5 DEF Account!Next
  <2> QED
    BY <2>6 DEF AccountStep
<1>7. CASE registry[key[b]] # b
  <2>1. \A d \in Accounts : registry[d] # None => registry[d] \in Budgets \ {b}
    BY <1>1, <1>7 DEF IInv, BudgetTypeOK, Coherent
  <2>2. \A d \in Accounts : Out'[d] = Out[d]
    BY <1>1, <1>4, <2>1, OutIs, OutIsNext DEF OutIsRegistered
  <2>3. Out' = Out /\ Ceiling' = Ceiling
    BY <1>1, <1>2, <2>2 DEF Out, Ceiling
  <2> QED
    BY <2>3 DEF AccountStep, Account!accountVars
<1> QED
  BY <1>6, <1>7

\* A permit comes back and may pass to a waiter.
LEMMA GiveBackMaps ==
  ASSUME IInv, IInv', NEW r \in Requests, GiveBack(r)
  PROVE  AccountStep
<1>1. PICK b : b = under[r]
  OBVIOUS
<1> DEFINE keep == Holders(b) \ {r}
           new == Holders(b)' \ keep
<1>2. BudgetTypeOK /\ Coherent /\ \A c \in Budgets : Sound(c)
  BY SoundParts DEF IInv
<1>3. /\ b \in Created
      /\ inUse[b] > 0
      /\ limit' = limit
      /\ inUse' \in [Budgets -> Nat]
      /\ under' = [under EXCEPT ![r] = None]
      /\ inUse'[b] >= inUse[b] - 1
      /\ inUse'[b] > inUse[b] - 1 => inUse'[b] <= limit[b]
      /\ permit'[r] = "free"
      /\ \A q \in Requests \ {r} : /\ under[q] # b => permit'[q] = permit[q]
                                   /\ permit[q] = "held" => permit'[q] = "held"
  BY <1>1, <1>2, GiveBackEffect
<1>4. /\ permit[r] = "held" /\ registry' = registry
      /\ b \in Budgets /\ b # None /\ key[b] \in Accounts
      /\ inUse[b] \in Nat /\ inUse'[b] \in Nat
  BY <1>2, <1>3, BudgetAssumption DEF GiveBack, BudgetTypeOK, Created
<1>5. /\ r \in Holders(b) /\ Holders(b) \in SUBSET Requests
      /\ keep \in SUBSET Holders(b)
      /\ keep \subseteq Holders(b)'
      /\ \A q \in new : permit[q] # "held"
  BY <1>1, <1>2, <1>3, <1>4 DEF Holders, BudgetTypeOK
<1>6. Cardinality(keep) = inUse[b] - 1
  BY <1>4, <1>5, FiniteRequests, FS_RemoveElement DEF IInv, InUseExact
<1>7. \A c \in Budgets \ {b} : Holders(c)' = Holders(c)
  <2>1. ASSUME NEW c \in Budgets \ {b}, NEW q \in Requests, under[q] = c \/ under'[q] = c
        PROVE  permit'[q] = permit[q] /\ under'[q] = under[q]
    BY <1>1, <1>2, <1>3, <2>1, BudgetAssumption DEF BudgetTypeOK
  <2> QED
    BY <2>1, OtherHolders
<1>8. registry[key[b]] = b
  BY <1>3, <1>4 DEF IInv, OnlyRegisteredCounts
<1>9. Out[key[b]] = Holders(b)
  BY <1>4, <1>8, OutIs DEF OutIsRegistered
<1> HIDE DEF keep, new
<1>10. Account!Admit(key[b], keep, new)
  <2>1. Cardinality(keep) < inUse'[b] => inUse'[b] <= limit'[b]
    BY <1>3, <1>4, <1>6
  <2> QED
    BY <1>4, <1>5, <1>7, <1>8, <2>1, AdmitStep DEF new
<1>11. Account!Return(key[b], r, new)
  <2>1. Ceiling' = Ceiling
    BY <1>3, <1>4 DEF Ceiling
  <2> QED
    BY <1>5, <1>9, <1>10, <2>1 DEF Account!Return, keep
<1>12. new = Out'[key[b]] \ Out[key[b]]
  <2>1. keep \in SUBSET Out[key[b]]
    BY <1>5, <1>9
  <2> QED
    BY <1>4, <1>10, <2>1, AdmitNew
<1>13. Account!Next
  BY <1>4, <1>5, <1>9, <1>11, <1>12 DEF Account!Next
<1> QED
  BY <1>13 DEF AccountStep

\* A waiter that gives up never had a permit.
LEMMA CancelMaps ==
  ASSUME IInv, NEW r \in Requests, CancelQueued(r)
  PROVE  AccountStep
<1>1. /\ permit[r] = "queued"
      /\ permit' = [permit EXCEPT ![r] = "free"]
      /\ under' = [under EXCEPT ![r] = None]
      /\ UNCHANGED <<registry, key, limit>>
  BY DEF CancelQueued
<1>2. Ceiling' = Ceiling /\ Out' = Out
  BY <1>1 DEF Ceiling, Out, IInv, BudgetTypeOK
<1> QED
  BY <1>2 DEF AccountStep, Account!accountVars

\* Before the first claim no account has a permit out or a ceiling.
LEMMA InitMaps == BudgetInit => Account!Init
<1> SUFFICES ASSUME BudgetInit PROVE Account!Init
  OBVIOUS
<1>1. Ceiling = [a \in Accounts |-> 0] /\ Out = [a \in Accounts |-> {}]
  BY DEF BudgetInit, Ceiling, Out
<1> QED
  BY <1>1 DEF Account!Init

\* Every step of the budgets is a step of AccountPermits or leaves it alone.
LEMMA StepMaps == IInv /\ IInv' /\ [BudgetNext]_budgetVars => AccountStep
<1> SUFFICES ASSUME IInv, IInv', [BudgetNext]_budgetVars PROVE AccountStep
  OBVIOUS
<1>1. CASE UNCHANGED budgetVars
  <2>1. Ceiling' = Ceiling /\ Out' = Out
    BY <1>1 DEF Ceiling, Out, budgetVars
  <2> QED
    BY <2>1 DEF AccountStep, Account!accountVars
<1> QED
  BY <1>1, ClaimMaps, DropMaps, RetireMaps, TryMaps, WaitMaps, GiveBackMaps, CancelMaps
     DEF BudgetNext, Release, CancelServed

\* The budgets implement AccountPermits: an account never has more permits out
\* than its ceiling allowed when the last one was granted, over all the objects
\* that served it (budget.go:9-23).
THEOREM BudgetsKeepAccountPermits == BudgetSpec => KeepsAccountPermits
<1>1. IInv /\ IInv' /\ [BudgetNext]_budgetVars => [Account!Next]_Account!accountVars
  BY StepMaps DEF AccountStep
<1> QED
  BY <1>1, InitMaps, BudgetInvariant, PTL DEF BudgetSpec, KeepsAccountPermits, Account!Spec

-------------------------------------------------------------------------------
(* The inductive invariant, in three parts: types, pools against budgets,  *)
(* and holders against permits.                                            *)

\* Where a pool stands agrees with the budgets it names: it left "new" with
\* a target and a budget, and only a Reconfigure on its way out of a budget
\* remembers another one.
PoolShape ==
  \A p \in Pools :
    /\ pool[p].step # "new" => pool[p].target \in Accounts /\ pool[p].budget \in Created
    /\ pool[p].step = "leaving" =>
         pool[p].left \in Created /\ pool[p].left # pool[p].budget
    /\ pool[p].step # "leaving" => pool[p].left = None

PoolsInv == PoolShape /\ ClaimFollowsPool /\ DialsRegistered

\* The states of a goroutine that has a request or a connection in hand, and
\* among them those in which it has a permit for sure.
HandPCs == {"vet", "blocked", "dial", "redial", "using", "put"}
PermitPCs == HandPCs \ {"blocked"}

\* A goroutine in a call is in the call of a pool that was opened; what it has
\* in hand, and the budget it read, go with where it stands.
HandShape(g) ==
  /\ proc[g].has = None <=> proc[g].pc \notin HandPCs
  /\ proc[g].pc # "out" => proc[g].at \in Pools /\ pool[proc[g].at].step # "new"
  /\ proc[g].pc \in {"try", "again", "wait"} => proc[g].budget \in Created
  /\ proc[g].pc \in PermitPCs => permit[proc[g].has] = "held"
  /\ proc[g].pc = "blocked" => permit[proc[g].has] # "free"

\* A reaper that sweeps has counted a connection; it holds one only in "hold".
ReaperShape(p) ==
  /\ reaper[p].conn = None <=> reaper[p].step # "hold"
  /\ reaper[p].step = "hold" => permit[reaper[p].conn] = "held"
  /\ reaper[p].step \in {"sweep", "hold"} => reaper[p].left > 0

Parked(p) == Range(idle[p])

\* What is parked has its permit, and a slot of its own.
IdleShape(p) ==
  /\ IsInjective(idle[p])
  /\ \A r \in Parked(p) : permit[r] = "held"

\* No two holders have the same request.
Apart ==
  /\ \A g, h \in Procs : g # h => proc[g].has # proc[h].has \/ proc[g].has = None
  /\ \A p, q \in Pools : p # q => reaper[p].conn # reaper[q].conn \/ reaper[p].conn = None
  /\ \A p, q \in Pools : p # q => Parked(p) \cap Parked(q) = {}
  /\ \A g \in Procs, p \in Pools : proc[g].has # reaper[p].conn \/ proc[g].has = None
  /\ \A g \in Procs, p \in Pools : proc[g].has \notin Parked(p)
  /\ \A p, q \in Pools : reaper[p].conn \notin Parked(q)

\* A request that is not free has a holder.
Owned(r) ==
  \/ \E g \in Procs : proc[g].has = r
  \/ \E p \in Pools : reaper[p].conn = r
  \/ \E p \in Pools : r \in Parked(p)

HoldersInv ==
  /\ \A g \in Procs : HandShape(g)
  /\ \A p \in Pools : ReaperShape(p)
  /\ \A p \in Pools : IdleShape(p)
  /\ Apart
  /\ \A r \in Requests : permit[r] # "free" => Owned(r)

PoolInv == IInv /\ PoolTypeOK /\ PoolsInv /\ HoldersInv

-------------------------------------------------------------------------------
(* What the operations of the budgets do to the standing of the requests.  *)

\* Every request outside S that was free stays free, that was not stays so,
\* and keeps a permit it has.
StandingKept(S) ==
  \A q \in Requests \ S :
    /\ permit'[q] = "free" <=> permit[q] = "free"
    /\ permit[q] = "held" => permit'[q] = "held"

\* Objects stay created.
CreatedStay == Created \subseteq Created'

LEMMA ClaimEffect ==
  ASSUME IInv, NEW p \in Pools, NEW a \in Accounts, NEW b \in Budgets, NEW n \in Sizes,
         ClaimBudget(p, a, b, n)
  PROVE  /\ StandingKept({}) /\ CreatedStay
         /\ b \in Created'
         /\ registry[a] \in {b, None}
         /\ registry' = [registry EXCEPT ![a] = b]
         /\ claims' = [claims EXCEPT ![b] = [claims[b] EXCEPT ![p] = n]]
<1> DEFINE claim == [claims[b] EXCEPT ![p] = n]
<1>1. BudgetTypeOK /\ \A c \in Budgets : Sound(c)
  BY SoundParts DEF IInv
<1>2. claim \in [Pools -> Nat \cup {NoClaim}]
  <2>1. n \in Nat
    BY BudgetAssumption
  <2> QED
    BY <1>1, <2>1 DEF BudgetTypeOK
<1>3. /\ registry[a] \in {b, None}
      /\ registry' = [registry EXCEPT ![a] = b]
      /\ key' = [key EXCEPT ![b] = a]
      /\ Recompute(b, claim)
      /\ UNCHANGED under
  BY DEF ClaimBudget
<1> HIDE DEF claim
<1>4. /\ claims' = [claims EXCEPT ![b] = claim]
      /\ \A r \in Requests : permit'[r] = "free" <=> permit[r] = "free"
      /\ \A r \in Requests : permit[r] = "held" => permit'[r] = "held"
  BY <1>1, <1>2, <1>3, RecomputeEffect
<1>5. CreatedStay /\ b \in Created'
  BY <1>1, <1>3, BudgetAssumption DEF CreatedStay, Created, BudgetTypeOK
<1> QED
  BY <1>3, <1>4, <1>5 DEF claim, StandingKept

LEMMA DropEffect ==
  ASSUME IInv, NEW p \in Pools, NEW b \in Created, DropClaim(p, b)
  PROVE  /\ StandingKept({}) /\ CreatedStay
         /\ registry' = registry
         /\ claims' = [claims EXCEPT ![b] = [claims[b] EXCEPT ![p] = NoClaim]]
<1> DEFINE claim == [claims[b] EXCEPT ![p] = NoClaim]
<1>1. BudgetTypeOK /\ (\A c \in Budgets : Sound(c)) /\ b \in Budgets
  BY SoundParts DEF IInv, Created
<1>2. claim \in [Pools -> Nat \cup {NoClaim}]
  BY <1>1 DEF BudgetTypeOK
<1>3. UNCHANGED <<registry, key, under>> /\ Recompute(b, claim)
  BY DEF DropClaim
<1> HIDE DEF claim
<1>4. /\ claims' = [claims EXCEPT ![b] = claim]
      /\ \A r \in Requests : permit'[r] = "free" <=> permit[r] = "free"
      /\ \A r \in Requests : permit[r] = "held" => permit'[r] = "held"
  BY <1>1, <1>2, <1>3, RecomputeEffect
<1> QED
  BY <1>3, <1>4 DEF claim, StandingKept, CreatedStay, Created

\* A claimed object is not retired.
LEMMA RetireEffect ==
  ASSUME IInv, NEW b \in Created, Retire(b)
  PROVE  /\ StandingKept({}) /\ CreatedStay
         /\ claims' = claims
         /\ \A a \in Accounts : registry'[a] = registry[a] \/ (registry[a] = b /\ Unclaimed(claims[b]))
<1>1. /\ UNCHANGED <<key, claims, permit>>
      /\ registry' = IF Unclaimed(claims[b]) /\ inUse[b] = 0 /\ registry[key[b]] = b
                     THEN [registry EXCEPT ![key[b]] = None]
                     ELSE registry
  BY DEF Retire
<1>2. StandingKept({}) /\ CreatedStay /\ claims' = claims
  BY <1>1 DEF StandingKept, CreatedStay, Created
<1>3. /\ registry \in [Accounts -> Budgets \cup {None}]
      /\ key[b] \in Accounts
  BY DEF Created, IInv, BudgetTypeOK
<1>4. ASSUME NEW a \in Accounts
      PROVE  registry'[a] = registry[a] \/ (registry[a] = b /\ Unclaimed(claims[b]))
  <2>1. \/ registry' = registry
        \/ /\ Unclaimed(claims[b])
           /\ registry[key[b]] = b
           /\ registry' = [registry EXCEPT ![key[b]] = None]
    BY <1>1, Zenon
  <2> QED
    BY <1>3, <2>1
<1> QED
  BY <1>2, <1>4

\* What a goroutine does to its own request leaves registry and claims alone.
BudgetsKept == UNCHANGED <<registry, key, claims>>

LEMMA TryEffect ==
  ASSUME IInv, NEW r \in Requests, NEW b \in Created, TryAcquire(r, b)
  PROVE  /\ StandingKept({r}) /\ BudgetsKept
         /\ permit[r] = "free" /\ permit'[r] = "held"
BY DEF TryAcquire, StandingKept, BudgetsKept, IInv, BudgetTypeOK

LEMMA WaitEffect ==
  ASSUME IInv, NEW r \in Requests, NEW b \in Created, Wait(r, b)
  PROVE  /\ StandingKept({r}) /\ BudgetsKept
         /\ permit[r] = "free" /\ permit'[r] # "free"
<1>1. /\ permit \in [Requests -> States] /\ permit[r] = "free"
      /\ Grant(b, limit[b], inUse[b], Append(waiters[b], r), [permit EXCEPT ![r] = "queued"])
      /\ UNCHANGED <<registry, key, claims>>
  BY DEF Wait, IInv, BudgetTypeOK, States
<1> DEFINE served == Oldest(Append(waiters[b], r),
                            Room(limit[b], inUse[b], Append(waiters[b], r)))
<1>2. permit' = [q \in Requests |-> IF q \in served THEN "held"
                                    ELSE [permit EXCEPT ![r] = "queued"][q]]
  BY <1>1 DEF Grant
<1>3. IInv' /\ under' = [under EXCEPT ![r] = b] /\ b # None
  BY WaitKeeps, BudgetAssumption DEF Created
<1>4. \A q \in Requests : under'[q] = None <=> permit'[q] = "free"
  BY <1>3 DEF IInv, Coherent
<1>5. \A q \in Requests : under[q] = None <=> permit[q] = "free"
  BY DEF IInv, Coherent
<1> HIDE DEF served
<1> QED
  BY <1>1, <1>2, <1>3, <1>4, <1>5 DEF StandingKept, BudgetsKept, IInv, BudgetTypeOK

LEMMA GiveBackStanding ==
  ASSUME IInv, NEW r \in Requests, GiveBack(r)
  PROVE  /\ StandingKept({r}) /\ BudgetsKept
         /\ permit[r] = "held" /\ permit'[r] = "free"
<1>1. PICK b : b = under[r]
  OBVIOUS
<1>2. BudgetTypeOK /\ Coherent /\ \A c \in Budgets : Sound(c)
  BY SoundParts DEF IInv
<1>3. /\ permit'[r] = "free"
      /\ \A q \in Requests \ {r} : /\ permit'[q] = "free" <=> permit[q] = "free"
                                   /\ permit[q] = "held" => permit'[q] = "held"
  BY <1>1, <1>2, GiveBackEffect
<1> QED
  BY <1>3 DEF GiveBack, StandingKept, BudgetsKept

LEMMA CancelEffect ==
  ASSUME IInv, NEW r \in Requests, CancelQueued(r) \/ CancelServed(r)
  PROVE  /\ StandingKept({r}) /\ BudgetsKept /\ permit'[r] = "free"
<1>1. CASE CancelServed(r)
  BY <1>1, GiveBackStanding DEF CancelServed
<1>2. CASE CancelQueued(r)
  BY <1>2 DEF CancelQueued, StandingKept, BudgetsKept, IInv, BudgetTypeOK
<1> QED
  BY <1>1, <1>2

-------------------------------------------------------------------------------
(* Frames: what the parts of the invariant do not depend on.               *)

LEMMA PoolsFrame ==
  ASSUME PoolsInv, UNCHANGED pool, BudgetsKept
  PROVE  PoolsInv'
BY DEF PoolsInv, PoolShape, ClaimFollowsPool, DialsRegistered, BudgetsKept, Created

\* An opened pool stays one that was opened.
OpenedStay == \A p \in Pools : pool[p].step # "new" => pool'[p].step # "new"

\* A goroutine whose request keeps its standing keeps its shape.
LEMMA HandFrame ==
  ASSUME PoolTypeOK, NEW g \in Procs, HandShape(g), proc'[g] = proc[g],
         NEW S, StandingKept(S), proc[g].has \notin S, OpenedStay, CreatedStay
  PROVE  HandShape(g)'
<1>1. /\ proc[g].has \in Requests \cup {None}
      /\ proc[g].has # None => proc[g].has \in Requests \ S
  BY DEF PoolTypeOK
<1> QED
  BY <1>1 DEF HandShape, StandingKept, OpenedStay, CreatedStay, HandPCs, PermitPCs

LEMMA ReaperFrame ==
  ASSUME PoolTypeOK, NEW p \in Pools, ReaperShape(p), reaper'[p] = reaper[p],
         NEW S, StandingKept(S), reaper[p].conn \notin S
  PROVE  ReaperShape(p)'
<1>1. reaper[p].conn \in Requests \cup {None}
  BY DEF PoolTypeOK
<1> QED
  BY <1>1 DEF ReaperShape, StandingKept

LEMMA IdleFrame ==
  ASSUME PoolTypeOK, NEW p \in Pools, IdleShape(p), idle'[p] = idle[p],
         NEW S, StandingKept(S), Parked(p) \cap S = {}
  PROVE  IdleShape(p)'
<1>1. Parked(p) \subseteq Requests /\ Parked(p)' = Parked(p)
  <2>1. idle[p] \in Seq(Requests)
    BY DEF PoolTypeOK
  <2> QED
    BY <2>1 DEF Parked, Range
<1> QED
  BY <1>1 DEF IdleShape, StandingKept
\* Nobody's request changed hands.
LEMMA HoldersFrame ==
  ASSUME PoolTypeOK, HoldersInv, UNCHANGED <<proc, idle, reaper>>,
         StandingKept({}), OpenedStay, CreatedStay
  PROVE  HoldersInv'
<1>1. \A g \in Procs : HandShape(g)'
  BY HandFrame DEF HoldersInv
<1>2. \A p \in Pools : ReaperShape(p)'
  BY ReaperFrame DEF HoldersInv
<1>3. \A p \in Pools : IdleShape(p)'
  BY IdleFrame DEF HoldersInv
<1>4. Apart'
  BY DEF HoldersInv, Apart, Parked
<1>5. \A r \in Requests : permit'[r] # "free" => Owned(r)'
  BY DEF HoldersInv, Owned, Parked, StandingKept
<1> QED
  BY <1>1, <1>2, <1>3, <1>4, <1>5 DEF HoldersInv

\* The step of goroutine g leaves the others, the channels and the reapers.
StepOf(g) ==
  /\ \A h \in Procs \ {g} : proc'[h] = proc[h]
  /\ UNCHANGED <<idle, reaper, pool>>
  /\ CreatedStay

\* g goes on with what it has, or with nothing.
LEMMA HandKeeps ==
  ASSUME PoolTypeOK, HoldersInv, NEW g \in Procs, StepOf(g), HandShape(g)',
         proc'[g].has = proc[g].has, StandingKept({})
  PROVE  HoldersInv'
<1> USE DEF HoldersInv, StepOf
<1>0. OpenedStay
  BY DEF OpenedStay
<1>1. \A h \in Procs : HandShape(h)'
  BY <1>0, HandFrame
<1>2. \A p \in Pools : ReaperShape(p)'
  BY ReaperFrame
<1>3. \A p \in Pools : IdleShape(p)'
  BY IdleFrame
<1>4. /\ \A h \in Procs : proc'[h].has = proc[h].has
      /\ \A p \in Pools : Parked(p)' = Parked(p)
  BY DEF Parked
<1>5. Apart'
  BY <1>4 DEF Apart
<1>6. \A r \in Requests : permit'[r] # "free" => Owned(r)'
  BY <1>4 DEF Owned, StandingKept
<1> QED
  BY <1>1, <1>2, <1>3, <1>5, <1>6

\* g gets a request that was free.
LEMMA HandGains ==
  ASSUME PoolTypeOK, HoldersInv, NEW g \in Procs, StepOf(g), HandShape(g)',
         NEW r \in Requests, proc[g].has = None, proc'[g].has = r,
         permit[r] = "free", StandingKept({r})
  PROVE  HoldersInv'
<1> USE DEF HoldersInv, StepOf
<1>0. OpenedStay
  BY DEF OpenedStay
<1>1. /\ \A h \in Procs : proc[h].has # r
      /\ \A p \in Pools : reaper[p].conn # r
      /\ \A p \in Pools : r \notin Parked(p)
  <2>1. r # None
    BY PoolAssumption
  <2> QED
    BY <2>1 DEF HandShape, ReaperShape, IdleShape, HandPCs, PermitPCs
<1>2. \A h \in Procs : HandShape(h)'
  BY <1>0, <1>1, HandFrame
<1>3. \A p \in Pools : ReaperShape(p)'
  BY <1>1, ReaperFrame
<1>4. \A p \in Pools : IdleShape(p)'
  BY <1>1, IdleFrame
<1>5. /\ \A h \in Procs \ {g} : proc'[h].has = proc[h].has
      /\ \A p \in Pools : Parked(p)' = Parked(p)
  BY DEF Parked
<1>6. Apart'
  BY <1>1, <1>5 DEF Apart
<1>7. \A q \in Requests : permit'[q] # "free" => Owned(q)'
  BY <1>5, PoolAssumption DEF Owned, StandingKept
<1> QED
  BY <1>2, <1>3, <1>4, <1>6, <1>7

\* What g has in hand nobody else has.
LEMMA InHand ==
  ASSUME Apart, NEW g \in Procs, NEW r, r # None, proc[g].has = r
  PROVE  /\ \A h \in Procs \ {g} : proc[h].has # r
         /\ \A p \in Pools : reaper[p].conn # r
         /\ \A p \in Pools : r \notin Parked(p)
BY DEF Apart

\* g gives its request up.
LEMMA HandLoses ==
  ASSUME PoolTypeOK, HoldersInv, NEW g \in Procs, StepOf(g), HandShape(g)',
         NEW r \in Requests, proc[g].has = r, proc'[g].has = None,
         permit'[r] = "free", StandingKept({r})
  PROVE  HoldersInv'
<1> USE DEF HoldersInv, StepOf
<1>0. OpenedStay /\ r # None
  BY PoolAssumption DEF OpenedStay
<1>1. /\ \A h \in Procs \ {g} : proc[h].has # r
      /\ \A p \in Pools : reaper[p].conn # r
      /\ \A p \in Pools : r \notin Parked(p)
  BY <1>0, InHand
<1>2. \A h \in Procs : HandShape(h)'
  BY <1>0, <1>1, HandFrame
<1>3. \A p \in Pools : ReaperShape(p)'
  BY <1>1, ReaperFrame
<1>4. \A p \in Pools : IdleShape(p)'
  BY <1>1, IdleFrame
<1>5. /\ \A h \in Procs \ {g} : proc'[h].has = proc[h].has
      /\ \A p \in Pools : Parked(p)' = Parked(p)
  BY DEF Parked
<1>6. Apart'
  <2>1. None \notin UNION {Parked(p) : p \in Pools}
    BY PoolAssumption DEF PoolTypeOK, Parked, Range
  <2> QED
    BY <1>5, <2>1 DEF Apart
<1>7. \A q \in Requests : permit'[q] # "free" => Owned(q)'
  BY <1>5 DEF Owned, StandingKept
<1> QED
  BY <1>2, <1>3, <1>4, <1>6, <1>7
-------------------------------------------------------------------------------
(* Requests that move through the idle channels.                           *)

\* The oldest entry of a queue without duplicates goes, the rest stays.
LEMMA TakeOldest ==
  ASSUME NEW S, NEW queue \in Seq(S), IsInjective(queue), queue # <<>>
  PROVE  /\ Head(queue) \in S /\ Head(queue) \in Range(queue)
         /\ Tail(queue) \in Seq(S)
         /\ IsInjective(Tail(queue))
         /\ Range(Tail(queue)) = Range(queue) \ {Head(queue)}
<1>1. PICK t : t = Tail(queue)
  OBVIOUS
<1>2. /\ Len(queue) \in Nat \ {0} /\ Head(queue) = queue[1]
      /\ t \in Seq(S) /\ Len(t) = Len(queue) - 1
      /\ \A i \in 1..Len(t) : t[i] = queue[i + 1]
  BY <1>1, EmptySeq, HeadTailProperties
<1>3. DOMAIN queue = 1..Len(queue) /\ DOMAIN t = 1..Len(t)
  BY <1>2, LenProperties
<1>4. queue[1] \in Range(queue) /\ queue[1] \in S
  BY <1>2 DEF Range
<1>5. IsInjective(t)
  <2>1. ASSUME NEW i \in 1..Len(t), NEW j \in 1..Len(t), t[i] = t[j] PROVE i = j
    <3>1. i + 1 \in DOMAIN queue /\ j + 1 \in DOMAIN queue /\ queue[i + 1] = queue[j + 1]
      BY <1>2, <1>3, <2>1
    <3>2. i + 1 = j + 1
      BY <3>1 DEF IsInjective
    <3> QED
      BY <1>2, <3>2
  <2> QED
    BY <1>3, <2>1 DEF IsInjective
<1>6. ASSUME NEW x \in Range(t) PROVE x \in Range(queue) \ {queue[1]}
  <2>1. PICK k \in 1..Len(t) : x = t[k]
    BY <1>3 DEF Range
  <2>2. k + 1 \in DOMAIN queue /\ 1 \in DOMAIN queue /\ k + 1 # 1 /\ x = queue[k + 1]
    BY <1>2, <1>3, <2>1
  <2> QED
    BY <2>2 DEF IsInjective, Range
<1>7. ASSUME NEW x \in Range(queue) \ {queue[1]} PROVE x \in Range(t)
  <2>1. PICK k \in 1..Len(queue) : x = queue[k]
    BY <1>3 DEF Range
  <2>2. k - 1 \in DOMAIN t /\ x = t[k - 1]
    BY <1>2, <1>3, <2>1
  <2> QED
    BY <2>2 DEF Range
<1> QED
  BY <1>1, <1>2, <1>4, <1>5, <1>6, <1>7

LEMMA ReceiveEffect ==
  ASSUME PoolTypeOK, NEW p \in Pools, IdleShape(p), Receive(p)
  PROVE  /\ Head(idle[p]) \in Requests /\ Head(idle[p]) \in Parked(p)
         /\ permit[Head(idle[p])] = "held"
         /\ idle' \in [Pools -> Seq(Requests)]
         /\ IsInjective(idle'[p])
         /\ Parked(p)' = Parked(p) \ {Head(idle[p])}
         /\ \A q \in Pools \ {p} : idle'[q] = idle[q]
<1>1. /\ idle \in [Pools -> Seq(Requests)] /\ idle[p] \in Seq(Requests)
      /\ idle[p] # <<>> /\ idle' = [idle EXCEPT ![p] = Tail(idle[p])]
      /\ IsInjective(idle[p])
  BY DEF PoolTypeOK, Receive, IdleShape
<1>2. /\ Head(idle[p]) \in Requests /\ Head(idle[p]) \in Range(idle[p])
      /\ Tail(idle[p]) \in Seq(Requests)
      /\ IsInjective(Tail(idle[p]))
      /\ Range(Tail(idle[p])) = Range(idle[p]) \ {Head(idle[p])}
  BY <1>1, TakeOldest
<1> QED
  BY <1>1, <1>2 DEF Parked, IdleShape

LEMMA AppendEffect ==
  ASSUME PoolTypeOK, NEW p \in Pools, IdleShape(p), NEW r \in Requests, r \notin Parked(p),
         idle' = [idle EXCEPT ![p] = Append(@, r)]
  PROVE  /\ idle' \in [Pools -> Seq(Requests)]
         /\ IsInjective(idle'[p])
         /\ Parked(p)' = Parked(p) \cup {r}
         /\ \A q \in Pools \ {p} : idle'[q] = idle[q]
<1>1. /\ idle \in [Pools -> Seq(Requests)] /\ idle[p] \in Seq(Requests)
      /\ IsInjective(idle[p])
  BY DEF PoolTypeOK, IdleShape
<1>2. /\ Append(idle[p], r) \in Seq(Requests)
      /\ IsInjective(Append(idle[p], r))
      /\ Range(Append(idle[p], r)) = Range(idle[p]) \cup {r}
  BY <1>1, JoinQueue DEF Parked
<1> QED
  BY <1>1, <1>2 DEF Parked

\* What is parked in p nobody has in hand and no other pool has parked.
LEMMA ParkedIn ==
  ASSUME Apart, NEW p \in Pools, NEW r \in Parked(p)
  PROVE  /\ \A g \in Procs : proc[g].has # r
         /\ \A q \in Pools : reaper[q].conn # r
         /\ \A q \in Pools \ {p} : r \notin Parked(q)
BY DEF Apart

\* g takes the oldest parked connection of p and gives up the request it had
\* instead, if it had one.
LEMMA HandTakes ==
  ASSUME PoolTypeOK, HoldersInv, NEW g \in Procs, NEW p \in Pools, NEW r,
         Receive(p), r = Head(idle[p]),
         \A h \in Procs \ {g} : proc'[h] = proc[h],
         UNCHANGED <<pool, reaper>>, CreatedStay,
         HandShape(g)', proc'[g].has = r,
         NEW S, S = {proc[g].has} \ {None}, StandingKept(S),
         \A q \in S : permit'[q] = "free"
  PROVE  HoldersInv'
<1> USE DEF HoldersInv
<1>0. OpenedStay
  BY DEF OpenedStay
<1>1. /\ r \in Requests /\ r \in Parked(p) /\ permit[r] = "held"
      /\ idle' \in [Pools -> Seq(Requests)]
      /\ IsInjective(idle'[p])
      /\ Parked(p)' = Parked(p) \ {r}
      /\ \A q \in Pools \ {p} : idle'[q] = idle[q]
  BY ReceiveEffect
<1>2. /\ \A h \in Procs : proc[h].has # r
      /\ \A q \in Pools : reaper[q].conn # r
      /\ \A q \in Pools \ {p} : r \notin Parked(q)
  BY <1>1, ParkedIn
<1>3. /\ \A q \in Pools : Parked(q) \subseteq Requests
      /\ \A q \in Pools : Parked(q) \cap S = {}
      /\ \A q \in Pools : reaper[q].conn \notin S
      /\ \A h \in Procs \ {g} : proc[h].has \notin S
  BY DEF Apart, PoolTypeOK, Parked, Range
<1>4. \A h \in Procs : HandShape(h)'
  BY <1>0, <1>3, HandFrame
<1>5. \A q \in Pools : ReaperShape(q)'
  BY <1>3, ReaperFrame
<1>6. \A q \in Pools : IdleShape(q)'
  <2>1. \A q \in Pools \ {p} : IdleShape(q)'
    BY <1>1, <1>3, IdleFrame
  <2>2. IdleShape(p)'
    BY <1>1, <1>3 DEF IdleShape, StandingKept
  <2> QED
    BY <2>1, <2>2
<1>7. \A q \in Pools \ {p} : Parked(q)' = Parked(q)
  BY <1>1 DEF Parked
<1>8. Apart'
  <2>1. \A q \in Pools : Parked(q)' \subseteq Parked(q) /\ r \notin Parked(q)'
    <3> SUFFICES ASSUME NEW q \in Pools PROVE Parked(q)' \subseteq Parked(q) /\ r \notin Parked(q)'
      OBVIOUS
    <3>1. CASE q = p
      BY <1>1, <3>1
    <3>2. CASE q # p
      BY <1>2, <1>7, <3>2
    <3> QED
      BY <3>1, <3>2
  <2>2. \A h \in Procs \ {g} : proc'[h].has = proc[h].has /\ proc[h].has # r
    BY <1>2
  <2>3. \A h, i \in Procs : h # i => proc'[h].has # proc'[i].has \/ proc'[h].has = None
    BY <2>2 DEF Apart
  <2>4. \A h \in Procs, q \in Pools : proc'[h].has # reaper'[q].conn \/ proc'[h].has = None
    BY <1>2, <2>2 DEF Apart
  <2>5. \A h \in Procs, q \in Pools : proc'[h].has \notin Parked(q)'
    BY <2>1, <2>2 DEF Apart
  <2> QED
    BY <2>1, <2>3, <2>4, <2>5 DEF Apart
<1>9. \A q \in Requests : permit'[q] # "free" => Owned(q)'
  <2> SUFFICES ASSUME NEW q \in Requests, permit'[q] # "free" PROVE Owned(q)'
    OBVIOUS
  <2>1. CASE q = r
    BY <2>1 DEF Owned
  <2>2. CASE q # r
    <3>1. q \notin S /\ permit[q] # "free"
      BY DEF StandingKept
    <3>2. Owned(q) /\ proc[g].has # q
      BY <3>1, PoolAssumption
    <3> QED
      BY <1>1, <1>7, <2>2, <3>2 DEF Owned
  <2> QED
    BY <2>1, <2>2
<1> QED
  BY <1>4, <1>5, <1>6, <1>8, <1>9

\* g puts its connection into the idle channel of p.
LEMMA HandParks ==
  ASSUME PoolTypeOK, HoldersInv, NEW g \in Procs, NEW p \in Pools, NEW r \in Requests,
         proc[g].has = r, permit[r] = "held", idle' = [idle EXCEPT ![p] = Append(@, r)],
         \A h \in Procs \ {g} : proc'[h] = proc[h],
         UNCHANGED <<pool, reaper>>, CreatedStay,
         HandShape(g)', proc'[g].has = None, StandingKept({})
  PROVE  HoldersInv'
<1> USE DEF HoldersInv
<1>0. OpenedStay /\ r # None
  BY PoolAssumption DEF OpenedStay
<1>1. /\ \A h \in Procs \ {g} : proc[h].has # r
      /\ \A q \in Pools : reaper[q].conn # r
      /\ \A q \in Pools : r \notin Parked(q)
  BY <1>0, InHand
<1>2. /\ IsInjective(idle'[p])
      /\ Parked(p)' = Parked(p) \cup {r}
      /\ \A q \in Pools \ {p} : idle'[q] = idle[q]
  BY <1>1, AppendEffect
<1>3. \A q \in Pools : Parked(q) \subseteq Requests
  BY DEF PoolTypeOK, Parked, Range
<1>4. \A h \in Procs : HandShape(h)'
  BY <1>0, HandFrame
<1>5. \A q \in Pools : ReaperShape(q)'
  BY ReaperFrame
<1>6. \A q \in Pools : IdleShape(q)'
  <2>1. \A q \in Pools \ {p} : IdleShape(q)'
    BY <1>2, IdleFrame
  <2>2. IdleShape(p)'
    BY <1>2, <1>3 DEF IdleShape, StandingKept
  <2> QED
    BY <2>1, <2>2
<1>7. \A q \in Pools \ {p} : Parked(q)' = Parked(q)
  BY <1>2 DEF Parked
<1>8. Apart'
  BY <1>1, <1>2, <1>3, <1>7, PoolAssumption DEF Apart
<1>9. \A q \in Requests : permit'[q] # "free" => Owned(q)'
  BY <1>2, <1>7 DEF Owned, StandingKept
<1> QED
  BY <1>4, <1>5, <1>6, <1>8, <1>9
\* The oldest connection parked in p is closed by a drain or a reaper.
LEMMA PoolDrops ==
  ASSUME PoolTypeOK, HoldersInv, NEW p \in Pools, NEW r,
         Receive(p), r = Head(idle[p]), UNCHANGED <<pool, proc>>, CreatedStay,
         \A q \in Pools : ReaperShape(q)' /\ reaper'[q].conn = reaper[q].conn,
         StandingKept({r}), permit'[r] = "free"
  PROVE  HoldersInv'
<1> USE DEF HoldersInv
<1>0. OpenedStay
  BY DEF OpenedStay
<1>1. /\ r \in Requests /\ r \in Parked(p)
      /\ IsInjective(idle'[p])
      /\ Parked(p)' = Parked(p) \ {r}
      /\ \A q \in Pools \ {p} : idle'[q] = idle[q]
  BY ReceiveEffect
<1>2. /\ \A h \in Procs : proc[h].has # r
      /\ \A q \in Pools : reaper[q].conn # r
      /\ \A q \in Pools \ {p} : r \notin Parked(q)
  BY <1>1, ParkedIn
<1>3. \A q \in Pools : Parked(q) \subseteq Requests
  BY DEF PoolTypeOK, Parked, Range
<1>4. \A h \in Procs : HandShape(h)'
  BY <1>0, <1>2, HandFrame
<1>5. \A q \in Pools : IdleShape(q)'
  <2>1. ASSUME NEW q \in Pools \ {p} PROVE IdleShape(q)'
    <3>1. idle'[q] = idle[q] /\ Parked(q) \cap {r} = {}
      BY <1>1, <1>2
    <3> QED
      BY <3>1, IdleFrame
  <2>2. IdleShape(p)'
    BY <1>1, <1>3 DEF IdleShape, StandingKept
  <2> QED
    BY <2>1, <2>2
<1>6. \A q \in Pools \ {p} : Parked(q)' = Parked(q)
  BY <1>1 DEF Parked
<1>7. \A q \in Pools : Parked(q)' \subseteq Parked(q)
  BY <1>1, <1>6
<1>8. Apart'
  <2>1. \A q, s \in Pools : q # s => Parked(q)' \cap Parked(s)' = {}
    BY <1>7 DEF Apart
  <2> QED
    BY <1>7, <2>1 DEF Apart
<1>9. \A q \in Requests : permit'[q] # "free" => Owned(q)'
  BY <1>1, <1>6 DEF Owned, StandingKept
<1> QED
  BY <1>4, <1>5, <1>8, <1>9

\* The reaper of p takes the oldest connection parked there.
LEMMA ReaperTakes ==
  ASSUME PoolTypeOK, HoldersInv, NEW p \in Pools, NEW r,
         Receive(p), r = Head(idle[p]), UNCHANGED <<pool, proc>>, CreatedStay,
         \A q \in Pools \ {p} : reaper'[q] = reaper[q],
         ReaperShape(p)', reaper[p].conn = None, reaper'[p].conn = r,
         StandingKept({})
  PROVE  HoldersInv'
<1> USE DEF HoldersInv
<1>0. OpenedStay
  BY DEF OpenedStay
<1>1. /\ r \in Requests /\ r \in Parked(p)
      /\ IsInjective(idle'[p])
      /\ Parked(p)' = Parked(p) \ {r}
      /\ \A q \in Pools \ {p} : idle'[q] = idle[q]
  BY ReceiveEffect
<1>2. /\ \A h \in Procs : proc[h].has # r
      /\ \A q \in Pools : reaper[q].conn # r
      /\ \A q \in Pools \ {p} : r \notin Parked(q)
  BY <1>1, ParkedIn
<1>3. \A q \in Pools : Parked(q) \subseteq Requests
  BY DEF PoolTypeOK, Parked, Range
<1>4. \A h \in Procs : HandShape(h)'
  BY <1>0, HandFrame
<1>5. \A q \in Pools : IdleShape(q)'
  <2>1. \A q \in Pools \ {p} : IdleShape(q)'
    BY <1>1, IdleFrame
  <2>2. IdleShape(p)'
    BY <1>1, <1>3 DEF IdleShape, StandingKept
  <2> QED
    BY <2>1, <2>2
<1>6. \A q \in Pools \ {p} : ReaperShape(q)'
  BY ReaperFrame
<1>7. \A q \in Pools \ {p} : Parked(q)' = Parked(q)
  BY <1>1 DEF Parked
<1>8. \A q \in Pools : Parked(q)' \subseteq Parked(q)
  BY <1>1, <1>7
<1>9. Apart'
  <2>1. \A q, s \in Pools : q # s => Parked(q)' \cap Parked(s)' = {}
    BY <1>8 DEF Apart
  <2>2. \A q \in Pools : r \notin Parked(q)'
    <3> SUFFICES ASSUME NEW q \in Pools PROVE r \notin Parked(q)'
      OBVIOUS
    <3>1. CASE q = p
      BY <1>1, <3>1
    <3>2. CASE q # p
      BY <1>2, <1>7, <3>2
    <3> QED
      BY <3>1, <3>2
  <2>3. \A q, s \in Pools : reaper'[q].conn \notin Parked(s)'
    BY <1>8, <2>2 DEF Apart
  <2>4. \A q, s \in Pools : q # s => reaper'[q].conn # reaper'[s].conn \/ reaper'[q].conn = None
    BY <1>2 DEF Apart
  <2>5. \A h \in Procs, q \in Pools : proc'[h].has # reaper'[q].conn \/ proc'[h].has = None
    BY <1>2 DEF Apart
  <2>6. \A h \in Procs, q \in Pools : proc'[h].has \notin Parked(q)'
    BY <1>8 DEF Apart
  <2> QED
    BY <2>1, <2>3, <2>4, <2>5, <2>6 DEF Apart
<1>10. \A q \in Requests : permit'[q] # "free" => Owned(q)'
  <2> SUFFICES ASSUME NEW q \in Requests, permit'[q] # "free" PROVE Owned(q)'
    OBVIOUS
  <2>1. CASE q = r
    BY <2>1 DEF Owned
  <2>2. CASE q # r
    <3>1. Owned(q) /\ q # None
      BY PoolAssumption DEF StandingKept
    <3> QED
      BY <1>1, <1>7, <2>2, <3>1 DEF Owned
  <2> QED
    BY <2>1, <2>2
<1> QED
  BY <1>4, <1>5, <1>6, <1>9, <1>10

\* The reaper of p puts its connection back.
LEMMA ReaperParks ==
  ASSUME PoolTypeOK, HoldersInv, NEW p \in Pools, NEW r \in Requests,
         reaper[p].conn = r, idle' = [idle EXCEPT ![p] = Append(@, r)],
         UNCHANGED <<pool, proc>>, CreatedStay,
         \A q \in Pools \ {p} : reaper'[q] = reaper[q],
         ReaperShape(p)', reaper'[p].conn = None, StandingKept({})
  PROVE  HoldersInv'
<1> USE DEF HoldersInv
<1>0. OpenedStay /\ r # None /\ permit[r] = "held"
  BY PoolAssumption DEF OpenedStay, ReaperShape
<1>1. /\ \A h \in Procs : proc[h].has # r
      /\ \A q \in Pools \ {p} : reaper[q].conn # r
      /\ \A q \in Pools : r \notin Parked(q)
  BY <1>0 DEF Apart
<1>2. /\ IsInjective(idle'[p])
      /\ Parked(p)' = Parked(p) \cup {r}
      /\ \A q \in Pools \ {p} : idle'[q] = idle[q]
  BY <1>1, AppendEffect
<1>3. \A q \in Pools : Parked(q) \subseteq Requests
  BY DEF PoolTypeOK, Parked, Range
<1>4. \A h \in Procs : HandShape(h)'
  BY <1>0, HandFrame
<1>5. \A q \in Pools \ {p} : ReaperShape(q)'
  BY ReaperFrame
<1>6. \A q \in Pools : IdleShape(q)'
  <2>1. \A q \in Pools \ {p} : IdleShape(q)'
    BY <1>2, IdleFrame
  <2>2. IdleShape(p)'
    BY <1>0, <1>2, <1>3 DEF IdleShape, StandingKept
  <2> QED
    BY <2>1, <2>2
<1>7. \A q \in Pools \ {p} : Parked(q)' = Parked(q)
  BY <1>2 DEF Parked
<1>8. Apart'
  BY <1>1, <1>2, <1>3, <1>7, PoolAssumption DEF Apart
<1>9. \A q \in Requests : permit'[q] # "free" => Owned(q)'
  BY <1>2, <1>7 DEF Owned, StandingKept
<1> QED
  BY <1>4, <1>5, <1>6, <1>8, <1>9

\* The reaper of p closes the connection it holds.
LEMMA ReaperDrops ==
  ASSUME PoolTypeOK, HoldersInv, NEW p \in Pools, NEW r \in Requests,
         reaper[p].conn = r, UNCHANGED <<pool, proc, idle>>, CreatedStay,
         \A q \in Pools \ {p} : reaper'[q] = reaper[q],
         ReaperShape(p)', reaper'[p].conn = None,
         permit'[r] = "free", StandingKept({r})
  PROVE  HoldersInv'
<1> USE DEF HoldersInv
<1>0. OpenedStay /\ r # None
  BY PoolAssumption DEF OpenedStay
<1>1. /\ \A h \in Procs : proc[h].has # r
      /\ \A q \in Pools \ {p} : reaper[q].conn # r
      /\ \A q \in Pools : r \notin Parked(q)
  BY <1>0 DEF Apart
<1>2. \A h \in Procs : HandShape(h)'
  BY <1>0, <1>1, HandFrame
<1>3. \A q \in Pools \ {p} : ReaperShape(q)'
  BY <1>1, ReaperFrame
<1>4. \A q \in Pools : IdleShape(q)'
  <2> SUFFICES ASSUME NEW q \in Pools PROVE IdleShape(q)'
    OBVIOUS
  <2>1. Parked(q) \cap {r} = {}
    BY <1>1
  <2> QED
    BY <2>1, IdleFrame
<1>5. \A q \in Pools : Parked(q)' = Parked(q)
  BY DEF Parked
<1>6. \A q \in Pools : None \notin Parked(q)
  BY PoolAssumption DEF PoolTypeOK, Parked, Range
<1>7. Apart'
  BY <1>1, <1>5, <1>6 DEF Apart
<1>8. \A q \in Requests : permit'[q] # "free" => Owned(q)'
  BY <1>5 DEF Owned, StandingKept
<1> QED
  BY <1>2, <1>3, <1>4, <1>7, <1>8

\* The reaper of p goes on with what it has.
LEMMA ReaperKeeps ==
  ASSUME PoolTypeOK, HoldersInv, NEW p \in Pools, UNCHANGED <<pool, proc, idle>>, CreatedStay,
         \A q \in Pools \ {p} : reaper'[q] = reaper[q],
         ReaperShape(p)', reaper'[p].conn = reaper[p].conn, StandingKept({})
  PROVE  HoldersInv'
<1> USE DEF HoldersInv
<1>0. OpenedStay
  BY DEF OpenedStay
<1>1. \A h \in Procs : HandShape(h)'
  BY <1>0, HandFrame
<1>2. \A q \in Pools \ {p} : ReaperShape(q)'
  BY ReaperFrame
<1>3. \A q \in Pools : IdleShape(q)'
  BY IdleFrame
<1>4. \A q \in Pools : Parked(q)' = Parked(q) /\ reaper'[q].conn = reaper[q].conn
  BY DEF Parked
<1>5. Apart'
  BY <1>4 DEF Apart
<1>6. \A q \in Requests : permit'[q] # "free" => Owned(q)'
  BY <1>4 DEF Owned, StandingKept
<1> QED
  BY <1>1, <1>2, <1>3, <1>5, <1>6
-------------------------------------------------------------------------------
(* The steps of a goroutine that leave the budgets alone.                  *)

\* What every step is shown to do: it is a step of the budgets or leaves them
\* alone, and it keeps the parts of the invariant that are the pools' own.
Kept ==
  /\ [BudgetNext]_budgetVars
  /\ PoolTypeOK'
  /\ PoolsInv'
  /\ HoldersInv'

LEMMA BudgetsRest ==
  ASSUME UNCHANGED budgetVars
  PROVE  StandingKept({}) /\ CreatedStay /\ BudgetsKept
BY DEF budgetVars, StandingKept, CreatedStay, BudgetsKept, Created

\* g goes from one place of its call to another with what it has.
LEMMA Goes ==
  ASSUME PoolInv, NEW g \in Procs, UNCHANGED <<budgetVars, pool, idle, reaper>>,
         PoolTypeOK', \A h \in Procs \ {g} : proc'[h] = proc[h],
         HandShape(g)', proc'[g].has = proc[g].has
  PROVE  Kept
<1>1. StandingKept({}) /\ CreatedStay /\ BudgetsKept
  BY BudgetsRest
<1>2. PoolsInv'
  BY <1>1, PoolsFrame DEF PoolInv
<1>3. StepOf(g)
  BY <1>1 DEF StepOf
<1>4. HoldersInv'
  BY <1>1, <1>3, HandKeeps DEF PoolInv
<1> QED
  BY <1>2, <1>4 DEF Kept

\* The records of PoolTypeOK, by name.
ProcRecord == [pc : PCs, at : Pools \cup {None}, kind : Kinds \cup {None},
               has : Requests \cup {None}, budget : Budgets \cup {None},
               account : Accounts \cup {None}, gen : 0..MaxGen]
PoolRecord == [target : Accounts \cup {None}, budget : Budgets \cup {None},
               gen : 0..MaxGen, closed : BOOLEAN, stop : BOOLEAN,
               step : Steps, left : Budgets \cup {None}]
ReaperRecord == [step : {"asleep", "sweep", "hold", "dead"}, left : Nat,
                 conn : Requests \cup {None}]

LEMMA ProcTyped ==
  ASSUME PoolTypeOK PROVE proc \in [Procs -> ProcRecord]
BY DEF PoolTypeOK, ProcRecord

LEMMA ProcTypeKeeps ==
  ASSUME PoolTypeOK, NEW g \in Procs, NEW x \in ProcRecord, proc' = [proc EXCEPT ![g] = x]
  PROVE  /\ proc' \in [Procs -> ProcRecord]
         /\ proc'[g] = x
         /\ \A h \in Procs \ {g} : proc'[h] = proc[h]
BY ProcTyped

\* The fields of a goroutine, and what stays of them when only pc changes.
LEMMA GoEffect ==
  ASSUME PoolTypeOK, NEW g \in Procs, NEW pc \in PCs, Go(g, pc)
  PROVE  /\ proc'[g] = [proc[g] EXCEPT !.pc = pc]
         /\ \A h \in Procs \ {g} : proc'[h] = proc[h]
         /\ proc' \in [Procs -> ProcRecord]
<1>1. PICK x : x = [proc[g] EXCEPT !.pc = pc]
  OBVIOUS
<1>2. proc' = [proc EXCEPT ![g] = x]
  BY <1>1 DEF Go
<1>3. x \in ProcRecord
  BY <1>1, ProcTyped DEF ProcRecord
<1> QED
  BY <1>1, <1>2, <1>3, ProcTypeKeeps

LEMMA ReturnEffect ==
  ASSUME PoolTypeOK, NEW g \in Procs, Return(g)
  PROVE  /\ proc'[g] = Resting
         /\ \A h \in Procs \ {g} : proc'[h] = proc[h]
         /\ HandShape(g)'
         /\ proc' \in [Procs -> ProcRecord]
<1>1. proc' = [proc EXCEPT ![g] = Resting] /\ Resting \in ProcRecord
  BY PoolAssumption DEF Return, Resting, PCs, ProcRecord
<1>2. Resting.pc = "out" /\ Resting.has = None
  BY DEF Resting
<1> HIDE DEF Resting
<1>3. /\ proc'[g] = Resting
      /\ \A h \in Procs \ {g} : proc'[h] = proc[h]
      /\ proc' \in [Procs -> ProcRecord]
  BY <1>1, ProcTypeKeeps
<1> QED
  BY <1>2, <1>3 DEF HandShape, HandPCs, PermitPCs

\* The types of everything else.
LEMMA TypeFrame ==
  ASSUME PoolTypeOK, UNCHANGED <<pool, conn, idle, reaper>>, expired' \subseteq expired,
         proc' \in [Procs -> ProcRecord]
  PROVE  PoolTypeOK'
BY DEF PoolTypeOK, ProcRecord

\* Call, CheckClosed, EndLook, NothingIdle: empty hands.
LEMMA CallKeeps ==
  ASSUME PoolInv, NEW g \in Procs, NEW p \in Pools, NEW kind \in Kinds, Call(g, p, kind)
  PROVE  Kept
<1>1. /\ proc[g].pc = "out" /\ pool[p].step # "new"
      /\ proc' = [proc EXCEPT ![g].pc = IF kind = "probe" THEN "snap" ELSE "head",
                              ![g].at = p, ![g].kind = kind]
      /\ UNCHANGED <<budgetVars, pool, conn, idle, expired, reaper>>
  BY DEF Call
<1> DEFINE start == IF kind = "probe" THEN "snap" ELSE "head"
<1>2. PICK x : x = [proc[g] EXCEPT !.pc = start, !.at = p, !.kind = kind]
  OBVIOUS
<1>3. x \in ProcRecord /\ proc' = [proc EXCEPT ![g] = x]
  <2>1. proc[g] \in ProcRecord
    BY ProcTyped DEF PoolInv
  <2>2. start \in PCs
    BY DEF PCs
  <2> HIDE DEF start
  <2>3. x \in ProcRecord
    BY <1>2, <2>1, <2>2 DEF ProcRecord
  <2>4. proc' = [proc EXCEPT ![g] = [proc[g] EXCEPT !.pc = start, !.at = p, !.kind = kind]]
    BY <1>1 DEF start
  <2> QED
    BY <1>2, <2>3, <2>4
<1>4. /\ \A h \in Procs \ {g} : proc'[h] = proc[h]
      /\ proc'[g] = x /\ PoolTypeOK'
  BY <1>1, <1>3, ProcTypeKeeps, TypeFrame DEF PoolInv
<1>5. x.has = proc[g].has /\ x.at = p /\ x.pc \in {"snap", "head"}
  BY <1>2, ProcTyped DEF ProcRecord, PoolInv
<1>6. HandShape(g)'
  BY <1>1, <1>4, <1>5 DEF PoolInv, HoldersInv, HandShape, HandPCs, PermitPCs
<1> QED
  BY <1>1, <1>4, <1>5, <1>6, Goes

\* A step that only moves g to a place of the same kind as the one it left.
LEMMA GoKeeps ==
  ASSUME PoolInv, NEW g \in Procs, NEW pc \in PCs, Go(g, pc),
         UNCHANGED <<budgetVars, pool, conn, idle, reaper>>, expired' \subseteq expired,
         pc # "out", proc[g].pc # "out",
         pc \in HandPCs <=> proc[g].pc \in HandPCs,
         pc \in PermitPCs => proc[g].pc \in PermitPCs,
         pc # "blocked",
         pc \in {"try", "again", "wait"} => proc[g].pc \in {"try", "again", "wait"}
  PROVE  Kept
<1>1. /\ proc'[g] = [proc[g] EXCEPT !.pc = pc]
      /\ \A h \in Procs \ {g} : proc'[h] = proc[h]
  BY GoEffect DEF PoolInv
<1>2. PoolTypeOK'
  BY GoEffect, TypeFrame DEF PoolInv
<1>3. /\ proc'[g].has = proc[g].has /\ proc'[g].at = proc[g].at /\ proc'[g].pc = pc
      /\ proc'[g].budget = proc[g].budget
  BY <1>1, ProcTyped DEF PoolInv, ProcRecord
<1>4. UNCHANGED <<permit, key>> /\ Created' = Created
  BY DEF budgetVars, Created
<1>5. HandShape(g)'
  BY <1>3, <1>4 DEF PoolInv, HoldersInv, HandShape
<1> QED
  BY <1>1, <1>2, <1>3, <1>5, Goes

\* A step with which g leaves its call with empty hands.
LEMMA ReturnKeeps ==
  ASSUME PoolInv, NEW g \in Procs, Return(g), proc[g].pc \notin HandPCs,
         UNCHANGED <<budgetVars, pool, conn, idle, expired, reaper>>
  PROVE  Kept
<1>1. /\ proc'[g] = Resting /\ HandShape(g)'
      /\ \A h \in Procs \ {g} : proc'[h] = proc[h]
  BY ReturnEffect DEF PoolInv
<1>2. PoolTypeOK'
  BY ReturnEffect, TypeFrame DEF PoolInv
<1>3. proc'[g].has = proc[g].has
  BY <1>1 DEF PoolInv, HoldersInv, HandShape, Resting
<1> QED
  BY <1>1, <1>2, <1>3, Goes
LEMMA LookSteps ==
  ASSUME PoolInv, NEW g \in Procs,
         CheckClosed(g) \/ EndLook(g) \/ NothingIdle(g) \/ Checkout(g) \/ DialOK(g)
  PROVE  Kept
<1>1. CASE CheckClosed(g)
  <2>1. /\ proc[g].pc = "head"
        /\ Go(g, "look") \/ Return(g)
        /\ UNCHANGED <<budgetVars, pool, conn, idle, expired, reaper>>
    BY <1>1 DEF CheckClosed
  <2>2. CASE Go(g, "look")
    BY <2>1, <2>2, GoKeeps DEF HandPCs, PermitPCs, PCs
  <2>3. CASE Return(g)
    BY <2>1, <2>3, ReturnKeeps DEF HandPCs
  <2> QED
    BY <2>1, <2>2, <2>3
<1>2. CASE EndLook(g)
  BY <1>2, ReturnKeeps DEF EndLook, HandPCs
<1>3. CASE NothingIdle(g)
  BY <1>3, GoKeeps DEF NothingIdle, HandPCs, PermitPCs, PCs
<1>4. CASE Checkout(g)
  BY <1>4, GoKeeps DEF Checkout, HandPCs, PermitPCs, PCs
<1>5. CASE DialOK(g)
  BY <1>5, GoKeeps DEF DialOK, Dialing, HandPCs, PermitPCs, PCs
<1> QED
  BY <1>1, <1>2, <1>3, <1>4, <1>5

LEMMA NoPermitKeeps ==
  ASSUME PoolInv, NEW g \in Procs, NoPermit(g)
  PROVE  Kept
<1>1. /\ proc[g].pc = "try"
      /\ UNCHANGED <<budgetVars, pool, conn, idle, expired, reaper>>
      /\ Return(g) \/ Go(g, "wait") \/ Go(g, "again")
  BY DEF NoPermit
<1>2. CASE Return(g)
  BY <1>1, <1>2, ReturnKeeps DEF HandPCs
<1>3. ASSUME NEW pc \in {"wait", "again"}, Go(g, pc) PROVE Kept
  BY <1>1, <1>3, GoKeeps DEF HandPCs, PermitPCs, PCs
<1> QED
  BY <1>1, <1>2, <1>3

\* The budget a goroutine reads is the one of a pool that was opened.
LEMMA Reads ==
  ASSUME PoolInv, NEW g \in Procs, Snapshot(g) \/ ReadBudget(g)
  PROVE  Kept
<1>1. PICK p : p = proc[g].at
  OBVIOUS
<1>2. /\ proc[g].pc \in {"snap", "again"}
      /\ UNCHANGED <<budgetVars, pool, conn, idle, expired, reaper>>
  BY DEF Snapshot, ReadBudget
<1>3. p \in Pools /\ pool[p].step # "new"
  BY <1>1, <1>2 DEF PoolInv, HoldersInv, HandShape
<1>4. /\ pool[p].budget \in Created /\ pool[p].budget \in Budgets
      /\ pool[p].target \in Accounts /\ pool[p].gen \in 0..MaxGen
  BY <1>3 DEF PoolInv, PoolsInv, PoolShape, PoolTypeOK, Created
<1>5. PICK x \in ProcRecord : /\ proc' = [proc EXCEPT ![g] = x]
                              /\ x.pc \in {"try", "wait"} /\ x.budget = pool[p].budget
                              /\ x.has = proc[g].has /\ x.at = p
  <2>1. CASE Snapshot(g)
    <3>1. PICK x : x = [proc[g] EXCEPT !.pc = "try", !.budget = pool[p].budget,
                                       !.account = pool[p].target, !.gen = pool[p].gen]
      OBVIOUS
    <3>2. proc' = [proc EXCEPT ![g] = x]
      BY <1>1, <2>1, <3>1 DEF Snapshot
    <3>3. proc[g] \in ProcRecord
      BY ProcTyped DEF PoolInv
    <3>4. x \in ProcRecord
      BY <1>4, <3>1, <3>3 DEF ProcRecord, PCs
    <3>5. /\ x.pc = "try" /\ x.budget = pool[p].budget
          /\ x.has = proc[g].has /\ x.at = p
      BY <1>1, <3>1, <3>3 DEF ProcRecord
    <3> QED
      BY <3>2, <3>4, <3>5
  <2>2. CASE ReadBudget(g)
    <3>1. PICK x : x = [proc[g] EXCEPT !.pc = "wait", !.budget = pool[p].budget]
      OBVIOUS
    <3>2. proc' = [proc EXCEPT ![g] = x]
      BY <1>1, <2>2, <3>1 DEF ReadBudget
    <3>3. /\ x \in ProcRecord /\ x.pc = "wait" /\ x.budget = pool[p].budget
          /\ x.has = proc[g].has /\ x.at = p
      BY <1>1, <1>4, <3>1, ProcTyped, ZenonT(30) DEF ProcRecord, PoolInv, PCs
    <3> QED
      BY <3>2, <3>3
  <2> QED
    BY <2>1, <2>2
<1>7. /\ \A h \in Procs \ {g} : proc'[h] = proc[h]
      /\ proc'[g] = x /\ PoolTypeOK'
  BY <1>2, <1>5, ProcTypeKeeps, TypeFrame DEF PoolInv
<1>8. Created' = Created
  BY <1>2 DEF budgetVars, Created
<1>9. HandShape(g)'
  BY <1>2, <1>3, <1>4, <1>5, <1>7, <1>8 DEF PoolInv, HoldersInv, HandShape, HandPCs, PermitPCs
<1> QED
  BY <1>2, <1>5, <1>7, <1>9, Goes

-------------------------------------------------------------------------------
(* The steps of a goroutine that take, dial, wait and give back.           *)

LEMMA CloseEffect ==
  ASSUME PoolInv, NEW r \in Requests, CloseClient(r)
  PROVE  /\ StandingKept({r}) /\ BudgetsKept /\ CreatedStay /\ [BudgetNext]_budgetVars
         /\ permit[r] = "held" /\ permit'[r] = "free"
         /\ conn' \in [Requests -> [gen : 0..MaxGen, account : Accounts \cup {None}]]
         /\ expired' \subseteq expired
<1>1. Release(r) /\ GiveBack(r)
  BY DEF CloseClient, Release
<1>2. NoConn \in [gen : 0..MaxGen, account : Accounts \cup {None}]
  BY PoolAssumption DEF NoConn
<1>3. /\ conn' = [conn EXCEPT ![r] = NoConn]
      /\ expired' \subseteq expired
  BY DEF CloseClient
<1>4. conn' \in [Requests -> [gen : 0..MaxGen, account : Accounts \cup {None}]]
  BY <1>2, <1>3 DEF PoolInv, PoolTypeOK
<1>5. CreatedStay
  BY <1>1 DEF GiveBack, CreatedStay, Created
<1>6. [BudgetNext]_budgetVars
  BY <1>1 DEF BudgetNext
<1> QED
  BY <1>1, <1>3, <1>4, <1>5, <1>6, GiveBackStanding DEF PoolInv

\* The types of everything else when connections come or go.
LEMMA ConnTypeFrame ==
  ASSUME PoolTypeOK, UNCHANGED <<pool, idle, reaper>>, expired' \subseteq expired,
         proc' \in [Procs -> ProcRecord],
         conn' \in [Requests -> [gen : 0..MaxGen, account : Accounts \cup {None}]]
  PROVE  PoolTypeOK'
BY DEF PoolTypeOK, ProcRecord

\* g closes the connection it has.
LEMMA Closes ==
  ASSUME PoolInv, NEW g \in Procs, NEW r, r = proc[g].has, proc[g].pc \in PermitPCs,
         CloseClient(r), UNCHANGED <<pool, idle, reaper>>,
         proc' \in [Procs -> ProcRecord], \A h \in Procs \ {g} : proc'[h] = proc[h],
         HandShape(g)', proc'[g].has = None
  PROVE  Kept
<1>1. r \in Requests
  BY ProcTyped DEF PoolInv, HoldersInv, HandShape, ProcRecord, PermitPCs
<1>2. /\ StandingKept({r}) /\ BudgetsKept /\ CreatedStay /\ [BudgetNext]_budgetVars
      /\ permit'[r] = "free"
      /\ conn' \in [Requests -> [gen : 0..MaxGen, account : Accounts \cup {None}]]
      /\ expired' \subseteq expired
  BY <1>1, CloseEffect
<1>3. PoolTypeOK'
  BY <1>2, ConnTypeFrame DEF PoolInv
<1>4. PoolsInv'
  BY <1>2, PoolsFrame DEF PoolInv
<1>5. HoldersInv'
  BY <1>1, <1>2, HandLoses DEF PoolInv, StepOf
<1> QED
  BY <1>2, <1>3, <1>4, <1>5 DEF Kept

LEMMA ClosesAndReturns ==
  ASSUME PoolInv, NEW g \in Procs, proc[g].pc \in PermitPCs,
         CloseClient(proc[g].has), UNCHANGED <<pool, idle, reaper>>, Return(g)
  PROVE  Kept
<1>1. /\ proc'[g] = Resting /\ HandShape(g)'
      /\ \A h \in Procs \ {g} : proc'[h] = proc[h]
      /\ proc' \in [Procs -> ProcRecord]
  BY ReturnEffect DEF PoolInv
<1>2. proc'[g].has = None
  BY <1>1 DEF Resting
<1> QED
  BY <1>1, <1>2, Closes

LEMMA ClosingSteps ==
  ASSUME PoolInv, NEW g \in Procs,
         RejectIdle(g) \/ DialFailed(g) \/ Put(g) \/ CloseInstead(g) \/ Discard(g)
  PROVE  Kept
<1>1. CASE RejectIdle(g)
  <2>1. PICK r : r = proc[g].has
    OBVIOUS
  <2>2. PICK x : x = [proc[g] EXCEPT !.pc = "head", !.has = None]
    OBVIOUS
  <2>3. /\ proc[g].pc = "vet" /\ CloseClient(r) /\ UNCHANGED <<pool, idle, reaper>>
        /\ proc' = [proc EXCEPT ![g] = x]
    BY <1>1, <2>1, <2>2 DEF RejectIdle
  <2>4. /\ x \in ProcRecord /\ x.pc = "head" /\ x.has = None /\ x.at = proc[g].at
    BY <2>2, ProcTyped, ZenonT(30) DEF ProcRecord, PoolInv, PCs
  <2>5. /\ proc' \in [Procs -> ProcRecord] /\ proc'[g] = x
        /\ \A h \in Procs \ {g} : proc'[h] = proc[h]
    BY <2>3, <2>4, ProcTypeKeeps DEF PoolInv
  <2>6. HandShape(g)'
    BY <2>3, <2>4, <2>5 DEF PoolInv, HoldersInv, HandShape, HandPCs, PermitPCs
  <2> QED
    BY <2>1, <2>3, <2>4, <2>5, <2>6, Closes DEF HandPCs, PermitPCs
<1>2. CASE DialFailed(g)
  BY <1>2, ClosesAndReturns DEF DialFailed, Dialing, HandPCs, PermitPCs
<1>3. CASE Put(g)
  <2>1. /\ proc[g].pc = "using" /\ UNCHANGED <<pool, idle, reaper>>
        /\ \/ CloseClient(proc[g].has) /\ Return(g)
           \/ Go(g, "put") /\ UNCHANGED <<budgetVars, conn, expired>>
    BY <1>3 DEF Put
  <2>2. CASE CloseClient(proc[g].has) /\ Return(g)
    BY <2>1, <2>2, ClosesAndReturns DEF HandPCs, PermitPCs
  <2>3. CASE Go(g, "put") /\ UNCHANGED <<budgetVars, conn, expired>>
    BY <2>1, <2>3, GoKeeps DEF HandPCs, PermitPCs, PCs
  <2> QED
    BY <2>1, <2>2, <2>3
<1>4. CASE CloseInstead(g)
  BY <1>4, ClosesAndReturns DEF CloseInstead, HandPCs, PermitPCs
<1>5. CASE Discard(g)
  BY <1>5, ClosesAndReturns DEF Discard, HandPCs, PermitPCs
<1> QED
  BY <1>1, <1>2, <1>3, <1>4, <1>5
\* What g keeps of its locals when it starts to dial.
LEMMA StartDialEffect ==
  ASSUME PoolTypeOK, NEW g \in Procs, NEW r \in Requests, NEW pc \in PCs,
         NEW account \in Accounts \cup {None}, NEW gen \in 0..MaxGen,
         StartDial(g, r, pc, account, gen)
  PROVE  /\ \E x \in ProcRecord : /\ proc' = [proc EXCEPT ![g] = x]
                                  /\ x.has = r /\ x.at = proc[g].at /\ x.pc = pc
         /\ conn' \in [Requests -> [gen : 0..MaxGen, account : Accounts \cup {None}]]
<1>1. PICK x : x = [proc[g] EXCEPT !.pc = pc, !.has = r, !.account = None, !.gen = 0,
                                   !.budget = None]
  OBVIOUS
<1>2. PICK c : c = [gen |-> gen, account |-> account]
  OBVIOUS
<1>3. proc' = [proc EXCEPT ![g] = x] /\ conn' = [conn EXCEPT ![r] = c]
  BY <1>1, <1>2 DEF StartDial
<1>4. 0 \in 0..MaxGen
  BY PoolAssumption
<1>5. proc[g] \in ProcRecord
  BY ProcTyped
<1>6. x = [pc |-> pc, at |-> proc[g].at, kind |-> proc[g].kind, has |-> r, budget |-> None,
           account |-> None, gen |-> 0]
  BY <1>1, <1>5 DEF ProcRecord
<1>7. proc[g].at \in Pools \cup {None} /\ proc[g].kind \in Kinds \cup {None}
  BY <1>5 DEF ProcRecord
<1>8. x \in ProcRecord /\ x.has = r /\ x.at = proc[g].at /\ x.pc = pc
  BY <1>4, <1>6, <1>7 DEF ProcRecord
<1>9. c \in [gen : 0..MaxGen, account : Accounts \cup {None}]
  BY <1>2
<1> QED
  BY <1>3, <1>8, <1>9 DEF PoolTypeOK

\* A request g makes is new to the pools.
LEMMA AsksKeeps ==
  ASSUME PoolInv, NEW g \in Procs, NEW r \in Requests, TryPermit(g, r) \/ Enqueue(g, r)
  PROVE  Kept
<1>1. PICK b : b = proc[g].budget
  OBVIOUS
<1>2. proc[g].pc \in {"try", "wait"} /\ UNCHANGED <<pool, idle, expired, reaper>>
  BY DEF TryPermit, Enqueue
<1>3. b \in Created /\ proc[g].has = None
  BY <1>1, <1>2 DEF PoolInv, HoldersInv, HandShape, HandPCs
<1>4. PICK x \in ProcRecord :
        /\ proc' = [proc EXCEPT ![g] = x]
        /\ x.has = r /\ x.at = proc[g].at
        /\ \/ TryAcquire(r, b) /\ x.pc = "dial"
           \/ Wait(r, b) /\ x.pc = "blocked"
        /\ conn' \in [Requests -> [gen : 0..MaxGen, account : Accounts \cup {None}]]
  <2>1. CASE TryPermit(g, r)
    <3>1. /\ StartDial(g, r, "dial", proc[g].account, proc[g].gen)
          /\ TryAcquire(r, b)
      BY <1>1, <2>1 DEF TryPermit
    <3>2. /\ proc[g].account \in Accounts \cup {None} /\ proc[g].gen \in 0..MaxGen
          /\ "dial" \in PCs
      BY ProcTyped DEF PoolInv, ProcRecord, PCs
    <3> QED
      BY <3>1, <3>2, StartDialEffect DEF PoolInv
  <2>2. CASE Enqueue(g, r)
    <3>1. PICK x : x = [proc[g] EXCEPT !.pc = "blocked", !.has = r]
      OBVIOUS
    <3>2. proc' = [proc EXCEPT ![g] = x] /\ conn' = conn /\ Wait(r, b)
      BY <1>1, <2>2, <3>1 DEF Enqueue
    <3>3. x \in ProcRecord /\ x.has = r /\ x.at = proc[g].at /\ x.pc = "blocked"
      BY <3>1, ProcTyped, PoolAssumption, ZenonT(30) DEF ProcRecord, PoolInv, PCs
    <3> QED
      BY <3>2, <3>3 DEF PoolInv, PoolTypeOK
  <2> QED
    BY <2>1, <2>2
<1>5. /\ StandingKept({r}) /\ BudgetsKept
      /\ permit[r] = "free" /\ permit'[r] # "free"
      /\ x.pc = "dial" => permit'[r] = "held"
  BY <1>3, <1>4, TryEffect, WaitEffect DEF PoolInv
<1>6. [BudgetNext]_budgetVars
  BY <1>3, <1>4 DEF BudgetNext
<1>7. CreatedStay
  BY <1>5 DEF BudgetsKept, CreatedStay, Created
<1>8. /\ proc' \in [Procs -> ProcRecord] /\ proc'[g] = x
      /\ \A h \in Procs \ {g} : proc'[h] = proc[h]
  BY <1>4, ProcTypeKeeps DEF PoolInv
<1>9. PoolTypeOK'
  BY <1>2, <1>4, <1>8, ConnTypeFrame DEF PoolInv
<1>10. HandShape(g)'
  <2>1. proc[g].at \in Pools /\ pool[proc[g].at].step # "new" /\ r # None
    BY <1>2, PoolAssumption DEF PoolInv, HoldersInv, HandShape
  <2> QED
    BY <1>2, <1>4, <1>5, <1>8, <2>1 DEF HandShape, HandPCs, PermitPCs
<1>11. HoldersInv'
  BY <1>2, <1>3, <1>4, <1>5, <1>7, <1>8, <1>10, HandGains DEF PoolInv, StepOf
<1>12. PoolsInv'
  BY <1>2, <1>5, PoolsFrame DEF PoolInv
<1> QED
  BY <1>6, <1>9, <1>11, <1>12 DEF Kept

\* The permit came while g was blocked.
LEMMA GrantedKeeps ==
  ASSUME PoolInv, NEW g \in Procs, Granted(g)
  PROVE  Kept
<1>1. PICK p : p = proc[g].at
  OBVIOUS
<1>2. PICK r : r = proc[g].has
  OBVIOUS
<1>3. /\ proc[g].pc = "blocked" /\ permit[r] = "held"
      /\ UNCHANGED <<budgetVars, pool, idle, expired, reaper>>
      /\ \/ StartDial(g, r, "redial", pool[p].target, pool[p].gen)
         \/ StartDial(g, r, "dial", proc[g].account, proc[g].gen)
  BY <1>1, <1>2 DEF Granted
<1>4. /\ r \in Requests /\ p \in Pools
      /\ pool[p].target \in Accounts \cup {None} /\ pool[p].gen \in 0..MaxGen
      /\ proc[g].account \in Accounts \cup {None} /\ proc[g].gen \in 0..MaxGen
  BY <1>1, <1>2, <1>3, ProcTyped DEF PoolInv, HoldersInv, HandShape, HandPCs, ProcRecord, PoolTypeOK
<1>5. PICK pc \in {"dial", "redial"}, account \in Accounts \cup {None}, gen \in 0..MaxGen :
        StartDial(g, r, pc, account, gen)
  BY <1>3, <1>4
<1>6. "dial" \in PCs /\ "redial" \in PCs
  BY DEF PCs
<1>9. PICK x \in ProcRecord : /\ proc' = [proc EXCEPT ![g] = x]
                              /\ x.has = r /\ x.at = p /\ x.pc = pc
                              /\ conn' \in [Requests -> [gen : 0..MaxGen, account : Accounts \cup {None}]]
  BY <1>1, <1>4, <1>5, <1>6, StartDialEffect DEF PoolInv
<1>10. /\ proc' \in [Procs -> ProcRecord] /\ proc'[g] = x
       /\ \A h \in Procs \ {g} : proc'[h] = proc[h]
  BY <1>9, ProcTypeKeeps DEF PoolInv
<1>12. PoolTypeOK'
  BY <1>3, <1>9, <1>10, ConnTypeFrame DEF PoolInv
<1>13. HandShape(g)'
  <2>1. permit' = permit /\ pool' = pool /\ r # None /\ pool[p].step # "new"
    BY <1>1, <1>3, <1>4, PoolAssumption DEF budgetVars, PoolInv, HoldersInv, HandShape
  <2> QED
    BY <1>3, <1>4, <1>9, <1>10, <2>1 DEF HandShape, HandPCs, PermitPCs
<1> QED
  BY <1>2, <1>3, <1>9, <1>10, <1>12, <1>13, Goes
\* A connection taken out of the idle channel is in g's hands.
LEMMA TakesKeeps ==
  ASSUME PoolInv, NEW g \in Procs, TakeIdle(g) \/ TakeIdleInstead(g)
  PROVE  Kept
<1>1. PICK p : p = proc[g].at
  OBVIOUS
<1>2. PICK old : old = proc[g].has
  OBVIOUS
<1>3. PICK r : r = Head(idle[p])
  OBVIOUS
<1>4. /\ proc[g].pc \in {"look", "blocked"} /\ Receive(p)
      /\ UNCHANGED <<pool, conn, expired, reaper>>
  BY <1>1 DEF TakeIdle, TakeIdleInstead
<1>5. p \in Pools /\ pool[p].step # "new"
  BY <1>1, <1>4 DEF PoolInv, HoldersInv, HandShape
<1>6. r \in Requests /\ permit[r] = "held" /\ r \in Parked(p)
      /\ idle' \in [Pools -> Seq(Requests)]
  BY <1>3, <1>4, <1>5, ReceiveEffect DEF PoolInv, HoldersInv
<1>7. PICK x \in ProcRecord : /\ proc' = [proc EXCEPT ![g] = x]
                              /\ x.pc = "vet" /\ x.has = r /\ x.at = p
  <2>1. CASE TakeIdle(g)
    <3>1. PICK x : x = [proc[g] EXCEPT !.pc = "vet", !.has = r]
      OBVIOUS
    <3>2. proc' = [proc EXCEPT ![g] = x]
      BY <1>1, <1>3, <2>1, <3>1 DEF TakeIdle
    <3>3. x \in ProcRecord /\ x.has = r /\ x.at = p /\ x.pc = "vet"
      BY <1>1, <1>6, <3>1, ProcTyped DEF ProcRecord, PoolInv, PCs
    <3> QED
      BY <3>2, <3>3
  <2>2. CASE TakeIdleInstead(g)
    <3>1. PICK x : x = [proc[g] EXCEPT !.pc = "vet", !.has = r, !.budget = None,
                                       !.account = None, !.gen = 0]
      OBVIOUS
    <3>2. proc' = [proc EXCEPT ![g] = x]
      BY <1>1, <1>3, <2>2, <3>1 DEF TakeIdleInstead
    <3>3. proc[g] \in ProcRecord /\ 0 \in 0..MaxGen
      BY ProcTyped, PoolAssumption DEF PoolInv
    <3>4. x = [pc |-> "vet", at |-> p, kind |-> proc[g].kind, has |-> r, budget |-> None,
               account |-> None, gen |-> 0]
      BY <1>1, <3>1, <3>3 DEF ProcRecord
    <3>5. /\ x \in ProcRecord /\ x.has = r /\ x.at = p /\ x.pc = "vet"
      BY <1>5, <1>6, <3>3, <3>4 DEF ProcRecord, PCs
    <3> QED
      BY <3>2, <3>5
  <2> QED
    BY <2>1, <2>2
<1>8. /\ proc' \in [Procs -> ProcRecord] /\ proc'[g] = x
      /\ \A h \in Procs \ {g} : proc'[h] = proc[h]
  BY <1>7, ProcTypeKeeps DEF PoolInv
<1>9. /\ StandingKept({old} \ {None}) /\ BudgetsKept /\ [BudgetNext]_budgetVars
      /\ \A q \in {old} \ {None} : permit'[q] = "free"
  <2>1. CASE TakeIdle(g)
    <3>1. old = None /\ UNCHANGED budgetVars
      BY <1>2, <2>1 DEF TakeIdle, PoolInv, HoldersInv, HandShape, HandPCs
    <3>2. {old} \ {None} = {}
      BY <3>1
    <3>3. StandingKept({}) /\ BudgetsKept /\ [BudgetNext]_budgetVars
      BY <3>1, BudgetsRest
    <3> QED
      BY <3>2, <3>3
  <2>2. CASE TakeIdleInstead(g)
    <3>1. CancelQueued(old) \/ CancelServed(old)
      BY <1>2, <2>2 DEF TakeIdleInstead
    <3>2. old \in Requests /\ old # None
      BY <1>2, <2>2, ProcTyped DEF TakeIdleInstead, PoolInv, HoldersInv, HandShape, HandPCs, ProcRecord
    <3>3. {old} \ {None} = {old}
      BY <3>2
    <3>4. StandingKept({old}) /\ BudgetsKept /\ permit'[old] = "free"
      BY <3>1, <3>2, CancelEffect DEF PoolInv
    <3>5. BudgetNext
      BY <3>1, <3>2 DEF BudgetNext
    <3> QED
      BY <3>3, <3>4, <3>5
  <2> QED
    BY <2>1, <2>2
<1>10. CreatedStay
  BY <1>9 DEF BudgetsKept, CreatedStay, Created
<1>11. PoolTypeOK'
  BY <1>4, <1>6, <1>8 DEF PoolInv, PoolTypeOK, ProcRecord
<1>12. HandShape(g)'
  <2>1. r # old /\ r # None /\ permit'[r] = "held"
    BY <1>2, <1>5, <1>6, <1>9, PoolAssumption DEF PoolInv, HoldersInv, Apart, StandingKept
  <2>2. pool' = pool
    BY <1>4
  <2> QED
    BY <1>5, <1>7, <1>8, <2>1, <2>2 DEF HandShape, HandPCs, PermitPCs
<1>13. HoldersInv'
  BY <1>2, <1>3, <1>4, <1>5, <1>7, <1>8, <1>9, <1>10, <1>12, HandTakes DEF PoolInv
<1>14. PoolsInv'
  BY <1>4, <1>9, PoolsFrame DEF PoolInv
<1> QED
  BY <1>9, <1>11, <1>13, <1>14 DEF Kept

\* The wait ends with nothing.
LEMMA EndWaitKeeps ==
  ASSUME PoolInv, NEW g \in Procs, EndWait(g)
  PROVE  Kept
<1>1. PICK r : r = proc[g].has
  OBVIOUS
<1>2. /\ proc[g].pc = "blocked"
      /\ CancelQueued(r) \/ CancelServed(r)
      /\ Return(g) /\ UNCHANGED <<pool, conn, idle, expired, reaper>>
  BY <1>1 DEF EndWait
<1>3. r \in Requests
  BY <1>1, <1>2, ProcTyped DEF PoolInv, HoldersInv, HandShape, HandPCs, ProcRecord
<1>4. StandingKept({r}) /\ BudgetsKept /\ permit'[r] = "free"
  BY <1>2, <1>3, CancelEffect DEF PoolInv
<1>5. CreatedStay
  BY <1>4 DEF BudgetsKept, CreatedStay, Created
<1>6. BudgetNext
  BY <1>2, <1>3 DEF BudgetNext
<1>7. /\ proc'[g] = Resting /\ HandShape(g)'
      /\ \A h \in Procs \ {g} : proc'[h] = proc[h]
      /\ proc' \in [Procs -> ProcRecord]
  BY <1>2, ReturnEffect DEF PoolInv
<1>8. proc'[g].has = None
  BY <1>7 DEF Resting
<1>9. PoolTypeOK'
  BY <1>2, <1>7, TypeFrame DEF PoolInv
<1>10. HoldersInv'
  BY <1>1, <1>2, <1>3, <1>4, <1>5, <1>7, <1>8, HandLoses DEF PoolInv, StepOf
<1>11. PoolsInv'
  BY <1>2, <1>4, PoolsFrame DEF PoolInv
<1> QED
  BY <1>6, <1>9, <1>10, <1>11 DEF Kept

\* Put's select parks the connection.
LEMMA ParkKeeps ==
  ASSUME PoolInv, NEW g \in Procs, Park(g)
  PROVE  Kept
<1>1. PICK p : p = proc[g].at
  OBVIOUS
<1>2. PICK r : r = proc[g].has
  OBVIOUS
<1>3. /\ proc[g].pc = "put" /\ idle' = [idle EXCEPT ![p] = Append(@, r)]
      /\ Return(g) /\ UNCHANGED <<budgetVars, pool, conn, expired, reaper>>
  BY <1>1, <1>2 DEF Park
<1>4. r \in Requests /\ r # None /\ p \in Pools /\ permit[r] = "held"
  BY <1>1, <1>2, <1>3, ProcTyped
     DEF PoolInv, HoldersInv, HandShape, HandPCs, PermitPCs, ProcRecord
<1>5. /\ proc'[g] = Resting /\ HandShape(g)'
      /\ \A h \in Procs \ {g} : proc'[h] = proc[h]
      /\ proc' \in [Procs -> ProcRecord]
  BY <1>3, ReturnEffect DEF PoolInv
<1>6. proc'[g].has = None
  BY <1>5 DEF Resting
<1>7. StandingKept({}) /\ CreatedStay /\ BudgetsKept
  BY <1>3, BudgetsRest
<1>8. r \notin Parked(p) /\ IdleShape(p)
  BY <1>2, <1>4 DEF PoolInv, HoldersInv, Apart
<1>9. idle' \in [Pools -> Seq(Requests)]
  BY <1>3, <1>4, <1>8, AppendEffect DEF PoolInv
<1>10. PoolTypeOK'
  BY <1>3, <1>5, <1>9 DEF PoolInv, PoolTypeOK, ProcRecord
<1>11. HoldersInv'
  BY <1>2, <1>3, <1>4, <1>5, <1>6, <1>7, HandParks DEF PoolInv
<1>12. PoolsInv'
  BY <1>3, <1>7, PoolsFrame DEF PoolInv
<1> QED
  BY <1>3, <1>10, <1>11, <1>12 DEF Kept

\* Everything a goroutine does.
LEMMA GoroutineKeeps ==
  ASSUME PoolInv, NEW g \in Procs, Goroutine(g)
  PROVE  Kept
BY CallKeeps, LookSteps, NoPermitKeeps, Reads, ClosingSteps, AsksKeeps, GrantedKeeps,
   TakesKeeps, EndWaitKeeps, ParkKeeps
   DEF Goroutine, Proceed, Finish, GiveUp
-------------------------------------------------------------------------------
(* The steps of a reaper.                                                  *)

LEMMA ReaperTypeKeeps ==
  ASSUME PoolTypeOK, NEW p \in Pools, NEW x \in ReaperRecord, reaper' = [reaper EXCEPT ![p] = x]
  PROVE  /\ reaper' \in [Pools -> ReaperRecord]
         /\ reaper'[p] = x
         /\ \A q \in Pools \ {p} : reaper'[q] = reaper[q]
BY DEF PoolTypeOK, ReaperRecord

\* The next of the connections a sweep counted, or the end of it.
LEMMA DoneEffect ==
  ASSUME PoolTypeOK, NEW p \in Pools, reaper[p].left > 0, DoneWithOne(p)
  PROVE  /\ reaper' \in [Pools -> ReaperRecord]
         /\ \A q \in Pools \ {p} : reaper'[q] = reaper[q]
         /\ reaper'[p].conn = None
         /\ ReaperShape(p)'
<1>1. PICK n : n = reaper[p].left
  OBVIOUS
<1>2. n \in Nat \ {0}
  BY <1>1 DEF PoolTypeOK
<1>3. PICK x : x = IF n = 1 THEN Asleep ELSE [step |-> "sweep", left |-> n - 1, conn |-> None]
  OBVIOUS
<1>4. reaper' = [reaper EXCEPT ![p] = x]
  BY <1>1, <1>3 DEF DoneWithOne
<1>5. /\ x \in ReaperRecord /\ x.conn = None /\ x.step \in {"asleep", "sweep"}
      /\ x.step = "sweep" => x.left > 0
  <2>1. CASE n = 1
    BY <1>3, <2>1 DEF Asleep, ReaperRecord
  <2>2. CASE n # 1
    BY <1>2, <1>3, <2>2 DEF ReaperRecord
  <2> QED
    BY <2>1, <2>2
<1>6. /\ reaper' \in [Pools -> ReaperRecord] /\ reaper'[p] = x
      /\ \A q \in Pools \ {p} : reaper'[q] = reaper[q]
  BY <1>4, <1>5, ReaperTypeKeeps
<1> QED
  BY <1>5, <1>6 DEF ReaperShape

\* The reaper stops with empty hands.
LEMMA DeadEffect ==
  ASSUME PoolTypeOK, NEW p \in Pools, reaper' = [reaper EXCEPT ![p] = [Asleep EXCEPT !.step = "dead"]]
  PROVE  /\ reaper' \in [Pools -> ReaperRecord]
         /\ \A q \in Pools \ {p} : reaper'[q] = reaper[q]
         /\ reaper'[p].conn = None
         /\ ReaperShape(p)'
<1>1. PICK x : x = [Asleep EXCEPT !.step = "dead"]
  OBVIOUS
<1>2. x \in ReaperRecord /\ x.conn = None /\ x.step = "dead"
  BY <1>1 DEF Asleep, ReaperRecord
<1>3. /\ reaper' \in [Pools -> ReaperRecord] /\ reaper'[p] = x
      /\ \A q \in Pools \ {p} : reaper'[q] = reaper[q]
  BY <1>1, <1>2, ReaperTypeKeeps
<1> QED
  BY <1>2, <1>3 DEF ReaperShape

LEMMA ReaperTypeFrame ==
  ASSUME PoolTypeOK, UNCHANGED <<pool, proc>>, expired' \subseteq expired,
         conn' \in [Requests -> [gen : 0..MaxGen, account : Accounts \cup {None}]],
         idle' \in [Pools -> Seq(Requests)],
         reaper' \in [Pools -> ReaperRecord]
  PROVE  PoolTypeOK'
BY DEF PoolTypeOK, ReaperRecord

\* A reaper that wakes, finds nothing, or stops asleep.
LEMMA SweepSteps ==
  ASSUME PoolInv, NEW p \in Pools, Tick(p) \/ ReapNone(p) \/ StopAsleep(p)
  PROVE  Kept
<1>1. UNCHANGED <<budgetVars, pool, proc, conn, idle, expired>>
  BY DEF Tick, ReapNone, StopAsleep
<1>2. /\ reaper' \in [Pools -> ReaperRecord]
      /\ \A q \in Pools \ {p} : reaper'[q] = reaper[q]
      /\ reaper'[p].conn = None
      /\ ReaperShape(p)'
  <2>1. CASE Tick(p)
    <3>1. idle[p] # <<>> /\ idle[p] \in Seq(Requests)
      BY <2>1 DEF Tick, PoolInv, PoolTypeOK
    <3>2. Len(idle[p]) \in Nat \ {0}
      BY <3>1, EmptySeq
    <3>3. PICK x : x = [step |-> "sweep", left |-> Len(idle[p]), conn |-> None]
      OBVIOUS
    <3>4. reaper' = [reaper EXCEPT ![p] = x]
      BY <2>1, <3>3 DEF Tick
    <3>5. x \in ReaperRecord /\ x.conn = None /\ x.step = "sweep" /\ x.left > 0
      BY <3>2, <3>3 DEF ReaperRecord
    <3>6. /\ reaper' \in [Pools -> ReaperRecord] /\ reaper'[p] = x
          /\ \A q \in Pools \ {p} : reaper'[q] = reaper[q]
      BY <3>4, <3>5, ReaperTypeKeeps DEF PoolInv
    <3> QED
      BY <3>5, <3>6 DEF ReaperShape
  <2>2. CASE ReapNone(p)
    BY <2>2, DoneEffect DEF ReapNone, PoolInv, HoldersInv, ReaperShape
  <2>3. CASE StopAsleep(p)
    <3>1. PICK x : x = [reaper[p] EXCEPT !.step = "dead"]
      OBVIOUS
    <3>2. reaper' = [reaper EXCEPT ![p] = x] /\ reaper[p].step = "asleep"
      BY <2>3, <3>1 DEF StopAsleep
    <3>3. x \in ReaperRecord /\ x.conn = None /\ x.step = "dead"
      BY <3>1, <3>2 DEF PoolInv, PoolTypeOK, HoldersInv, ReaperShape, ReaperRecord
    <3>4. /\ reaper' \in [Pools -> ReaperRecord] /\ reaper'[p] = x
          /\ \A q \in Pools \ {p} : reaper'[q] = reaper[q]
      BY <3>2, <3>3, ReaperTypeKeeps DEF PoolInv
    <3> QED
      BY <3>3, <3>4 DEF ReaperShape
  <2> QED
    BY <2>1, <2>2, <2>3
<1>3. PoolTypeOK'
  BY <1>1, <1>2 DEF PoolInv, PoolTypeOK, ReaperRecord
<1>4. reaper[p].conn = None
  BY DEF Tick, ReapNone, StopAsleep, PoolInv, HoldersInv, ReaperShape
<1>5. StandingKept({}) /\ CreatedStay /\ BudgetsKept
  BY <1>1, BudgetsRest
<1>6. HoldersInv'
  BY <1>1, <1>2, <1>4, <1>5, ReaperKeeps DEF PoolInv
<1>7. PoolsInv'
  BY <1>1, <1>5, PoolsFrame DEF PoolInv
<1> QED
  BY <1>1, <1>3, <1>6, <1>7 DEF Kept

\* A connection parked in p is closed.
LEMMA DropsKeeps ==
  ASSUME PoolInv, NEW p \in Pools, NEW r, Receive(p), r = Head(idle[p]), CloseClient(r),
         UNCHANGED <<pool, proc>>, reaper' \in [Pools -> ReaperRecord],
         \A q \in Pools : ReaperShape(q)' /\ reaper'[q].conn = reaper[q].conn
  PROVE  Kept
<1>1. r \in Requests /\ idle' \in [Pools -> Seq(Requests)]
  BY ReceiveEffect DEF PoolInv, HoldersInv
<1>2. /\ StandingKept({r}) /\ BudgetsKept /\ CreatedStay /\ [BudgetNext]_budgetVars
      /\ permit'[r] = "free"
      /\ conn' \in [Requests -> [gen : 0..MaxGen, account : Accounts \cup {None}]]
      /\ expired' \subseteq expired
  BY <1>1, CloseEffect
<1>3. PoolTypeOK'
  BY <1>1, <1>2, ReaperTypeFrame DEF PoolInv
<1>4. HoldersInv'
  BY <1>2, PoolDrops DEF PoolInv
<1>5. PoolsInv'
  BY <1>2, PoolsFrame DEF PoolInv
<1> QED
  BY <1>2, <1>3, <1>4, <1>5 DEF Kept

LEMMA ReapExpiredKeeps ==
  ASSUME PoolInv, NEW p \in Pools, ReapExpired(p)
  PROVE  Kept
<1>1. PICK r : r = Head(idle[p])
  OBVIOUS
<1>2. /\ reaper[p].step = "sweep" /\ Receive(p) /\ CloseClient(r) /\ DoneWithOne(p)
      /\ UNCHANGED <<pool, proc>>
  BY <1>1 DEF ReapExpired
<1>3. reaper[p].conn = None /\ reaper[p].left > 0
  BY <1>2 DEF PoolInv, HoldersInv, ReaperShape
<1>4. /\ reaper' \in [Pools -> ReaperRecord]
      /\ \A q \in Pools \ {p} : reaper'[q] = reaper[q]
      /\ reaper'[p].conn = None
      /\ ReaperShape(p)'
  BY <1>2, <1>3, DoneEffect DEF PoolInv
<1>5. r \in Requests /\ r \in Parked(p)
  BY <1>1, <1>2, ReceiveEffect DEF PoolInv, HoldersInv
<1>6. \A q \in Pools : reaper[q].conn # r
  BY <1>5, ParkedIn DEF PoolInv, HoldersInv
<1>7. StandingKept({r})
  BY <1>2, <1>5, CloseEffect
<1>8. \A q \in Pools \ {p} : ReaperShape(q)'
  BY <1>4, <1>6, <1>7, ReaperFrame DEF PoolInv, HoldersInv
<1>9. \A q \in Pools : ReaperShape(q)' /\ reaper'[q].conn = reaper[q].conn
  BY <1>3, <1>4, <1>8
<1> QED
  BY <1>1, <1>2, <1>4, <1>9, DropsKeeps

LEMMA ReapFreshKeeps ==
  ASSUME PoolInv, NEW p \in Pools, ReapFresh(p)
  PROVE  Kept
<1>1. PICK r : r = Head(idle[p])
  OBVIOUS
<1>2. PICK x : x = [reaper[p] EXCEPT !.step = "hold", !.conn = r]
  OBVIOUS
<1>3. /\ reaper[p].step = "sweep" /\ Receive(p)
      /\ reaper' = [reaper EXCEPT ![p] = x]
      /\ UNCHANGED <<budgetVars, pool, proc, conn, expired>>
  BY <1>1, <1>2 DEF ReapFresh
<1>4. /\ r \in Requests /\ permit[r] = "held"
      /\ idle' \in [Pools -> Seq(Requests)]
  BY <1>1, <1>3, ReceiveEffect DEF PoolInv, HoldersInv
<1>5. reaper[p].conn = None /\ reaper[p].left > 0
  BY <1>3 DEF PoolInv, HoldersInv, ReaperShape
<1>6. /\ x \in ReaperRecord /\ x.conn = r /\ x.step = "hold" /\ x.left = reaper[p].left
  BY <1>2, <1>4, ZenonT(30) DEF PoolInv, PoolTypeOK, ReaperRecord
<1>7. /\ reaper' \in [Pools -> ReaperRecord] /\ reaper'[p] = x
      /\ \A q \in Pools \ {p} : reaper'[q] = reaper[q]
  BY <1>3, <1>6, ReaperTypeKeeps DEF PoolInv
<1>8. ReaperShape(p)'
  <2>1. permit' = permit /\ r # None
    BY <1>3, <1>4, PoolAssumption DEF budgetVars
  <2> QED
    BY <1>4, <1>5, <1>6, <1>7, <2>1 DEF ReaperShape
<1>9. StandingKept({}) /\ CreatedStay /\ BudgetsKept
  BY <1>3, BudgetsRest
<1>10. PoolTypeOK'
  BY <1>3, <1>4, <1>7 DEF PoolInv, PoolTypeOK, ReaperRecord
<1>11. HoldersInv'
  BY <1>1, <1>3, <1>5, <1>6, <1>7, <1>8, <1>9, ReaperTakes DEF PoolInv
<1>12. PoolsInv'
  BY <1>3, <1>9, PoolsFrame DEF PoolInv
<1> QED
  BY <1>3, <1>10, <1>11, <1>12 DEF Kept

LEMMA PutBackKeeps ==
  ASSUME PoolInv, NEW p \in Pools, PutBack(p)
  PROVE  Kept
<1>1. PICK r : r = reaper[p].conn
  OBVIOUS
<1>2. /\ reaper[p].step = "hold" /\ idle' = [idle EXCEPT ![p] = Append(@, r)]
      /\ DoneWithOne(p) /\ UNCHANGED <<budgetVars, pool, proc, conn, expired>>
  BY <1>1 DEF PutBack
<1>3. r \in Requests /\ r # None /\ reaper[p].left > 0
  BY <1>1, <1>2 DEF PoolInv, PoolTypeOK, HoldersInv, ReaperShape
<1>4. /\ reaper' \in [Pools -> ReaperRecord]
      /\ \A q \in Pools \ {p} : reaper'[q] = reaper[q]
      /\ reaper'[p].conn = None
      /\ ReaperShape(p)'
  BY <1>2, <1>3, DoneEffect DEF PoolInv
<1>5. r \notin Parked(p) /\ IdleShape(p)
  BY <1>1 DEF PoolInv, HoldersInv, Apart
<1>6. idle' \in [Pools -> Seq(Requests)]
  BY <1>2, <1>3, <1>5, AppendEffect DEF PoolInv
<1>7. StandingKept({}) /\ CreatedStay /\ BudgetsKept
  BY <1>2, BudgetsRest
<1>8. PoolTypeOK'
  BY <1>2, <1>4, <1>6 DEF PoolInv, PoolTypeOK, ReaperRecord
<1>9. HoldersInv'
  BY <1>1, <1>2, <1>3, <1>4, <1>7, ReaperParks DEF PoolInv
<1>10. PoolsInv'
  BY <1>2, <1>7, PoolsFrame DEF PoolInv
<1> QED
  BY <1>2, <1>8, <1>9, <1>10 DEF Kept

LEMMA StopHoldingKeeps ==
  ASSUME PoolInv, NEW p \in Pools, StopHolding(p)
  PROVE  Kept
<1>1. PICK r : r = reaper[p].conn
  OBVIOUS
<1>2. /\ reaper[p].step = "hold" /\ CloseClient(r) /\ UNCHANGED <<pool, proc, idle>>
      /\ reaper' = [reaper EXCEPT ![p] = [Asleep EXCEPT !.step = "dead"]]
  BY <1>1 DEF StopHolding
<1>3. r \in Requests
  BY <1>1, <1>2 DEF PoolInv, PoolTypeOK, HoldersInv, ReaperShape
<1>4. /\ reaper' \in [Pools -> ReaperRecord]
      /\ \A q \in Pools \ {p} : reaper'[q] = reaper[q]
      /\ reaper'[p].conn = None
      /\ ReaperShape(p)'
  BY <1>2, DeadEffect DEF PoolInv
<1>5. /\ StandingKept({r}) /\ BudgetsKept /\ CreatedStay /\ [BudgetNext]_budgetVars
      /\ permit'[r] = "free"
      /\ conn' \in [Requests -> [gen : 0..MaxGen, account : Accounts \cup {None}]]
      /\ expired' \subseteq expired
  BY <1>2, <1>3, CloseEffect
<1>6. PoolTypeOK'
  BY <1>2, <1>4, <1>5 DEF PoolInv, PoolTypeOK, ReaperRecord
<1>7. HoldersInv'
  BY <1>1, <1>2, <1>3, <1>4, <1>5, ReaperDrops DEF PoolInv
<1>8. PoolsInv'
  BY <1>2, <1>5, PoolsFrame DEF PoolInv
<1> QED
  BY <1>5, <1>6, <1>7, <1>8 DEF Kept

\* Everything a reaper does.
LEMMA ReapKeeps ==
  ASSUME PoolInv, NEW p \in Pools, Reap(p)
  PROVE  Kept
BY SweepSteps, ReapExpiredKeeps, ReapFreshKeeps, PutBackKeeps, StopHoldingKeeps DEF Reap
-------------------------------------------------------------------------------
(* The steps of a pool's manager.                                          *)

\* A step that moves pool p on touches no request's holder.
LEMMA PoolMoves ==
  ASSUME PoolInv, NEW p \in Pools, NEW x \in PoolRecord, x.step # "new",
         pool' = [pool EXCEPT ![p] = x], UNCHANGED <<proc, conn, idle, expired, reaper>>,
         StandingKept({}), CreatedStay
  PROVE  /\ PoolTypeOK' /\ HoldersInv'
         /\ pool'[p] = x
         /\ \A q \in Pools \ {p} : pool'[q] = pool[q]
<1>1. /\ pool' \in [Pools -> PoolRecord] /\ pool'[p] = x
      /\ \A q \in Pools \ {p} : pool'[q] = pool[q]
  BY DEF PoolInv, PoolTypeOK, PoolRecord
<1>2. OpenedStay
  BY <1>1 DEF OpenedStay
<1>3. PoolTypeOK'
  BY <1>1 DEF PoolInv, PoolTypeOK, PoolRecord
<1>4. HoldersInv'
  BY <1>2, HoldersFrame DEF PoolInv
<1> QED
  BY <1>1, <1>3, <1>4

\* One claim changes; the others do not.
LEMMA ClaimAt ==
  ASSUME BudgetTypeOK, NEW b \in Budgets, NEW p \in Pools, NEW n \in Nat \cup {NoClaim},
         claims' = [claims EXCEPT ![b] = [claims[b] EXCEPT ![p] = n]]
  PROVE  /\ claims'[b][p] = n
         /\ \A c \in Budgets \ {b} : claims'[c] = claims[c]
         /\ \A q \in Pools \ {p} : claims'[b][q] = claims[b][q]
<1>1. /\ claims \in [Budgets -> [Pools -> Nat \cup {NoClaim}]]
      /\ claims[b] \in [Pools -> Nat \cup {NoClaim}]
  BY DEF BudgetTypeOK
<1>2. PICK f : f = [claims[b] EXCEPT ![p] = n]
  OBVIOUS
<1>3. /\ claims' = [claims EXCEPT ![b] = f]
      /\ f[p] = n /\ \A q \in Pools \ {p} : f[q] = claims[b][q]
  BY <1>1, <1>2
<1> QED
  BY <1>1, <1>3

\* Claiming and dropping change the claim of that pool on that object alone.
LEMMA ClaimMade ==
  ASSUME PoolInv, NEW p \in Pools, NEW a \in Accounts, NEW b \in Budgets, NEW n \in Sizes,
         ClaimBudget(p, a, b, n)
  PROVE  /\ claims'[b][p] # NoClaim
         /\ \A c \in Budgets \ {b} : claims'[c] = claims[c]
<1>1. BudgetTypeOK /\ claims' = [claims EXCEPT ![b] = [claims[b] EXCEPT ![p] = n]]
  BY ClaimEffect DEF PoolInv, IInv
<1>2. n \in Nat
  BY BudgetAssumption
<1>3. PICK f : f = [claims[b] EXCEPT ![p] = n]
  OBVIOUS
<1>4. claims \in [Budgets -> [Pools -> Nat \cup {NoClaim}]]
  BY <1>1 DEF BudgetTypeOK
<1>5. f[p] = n
  BY <1>3, <1>4
<1>6. claims'[b] = f /\ \A c \in Budgets \ {b} : claims'[c] = claims[c]
  BY <1>1, <1>3, <1>4
<1>7. n # NoClaim
  BY <1>2 DEF NoClaim
<1> QED
  BY <1>5, <1>6, <1>7

LEMMA ClaimDropped ==
  ASSUME PoolInv, NEW p \in Pools, NEW b \in Created, DropClaim(p, b)
  PROVE  /\ claims'[b][p] = NoClaim
         /\ \A c \in Budgets \ {b} : claims'[c] = claims[c]
         /\ \A q \in Pools \ {p} : claims'[b][q] = claims[b][q]
<1>1. BudgetTypeOK /\ claims' = [claims EXCEPT ![b] = [claims[b] EXCEPT ![p] = NoClaim]]
  BY DropEffect DEF PoolInv, IInv
<1>2. b \in Budgets
  BY DEF Created
<1> QED
  BY <1>1, <1>2, ClaimAt

\* What the three parts say of one pool.
PoolSound(p) ==
  /\ pool[p].step # "new" => pool[p].target \in Accounts /\ pool[p].budget \in Created
  /\ pool[p].step = "leaving" =>
       pool[p].left \in Created /\ pool[p].left # pool[p].budget
  /\ pool[p].step # "leaving" => pool[p].left = None
  /\ \A b \in Budgets :
       claims[b][p] # NoClaim <=>
         /\ pool[p].step \notin {"new", "gone"}
         /\ b \in {pool[p].budget, pool[p].left}
  /\ pool[p].step \notin {"new", "gone"} => registry[pool[p].target] = pool[p].budget

AllSound == \A p \in Pools : PoolSound(p)

LEMMA PoolSounds == PoolsInv <=> AllSound
BY DEF PoolsInv, PoolShape, ClaimFollowsPool, DialsRegistered, PoolSound, AllSound

\* The same after a step.
LEMMA PoolSoundsNext == AllSound' => PoolsInv'
BY PoolSounds, PTL

\* A pool none of whose claims, nor the registration of whose account, changed.
LEMMA SoundFrame ==
  ASSUME NEW q \in Pools, PoolSound(q), pool'[q] = pool[q], CreatedStay,
         \A c \in Budgets : claims'[c][q] = claims[c][q],
         registry'[pool[q].target] = registry[pool[q].target] \/ pool[q].step \in {"new", "gone"}
  PROVE  PoolSound(q)'
BY DEF PoolSound, CreatedStay

\* A claim leaves the pools that are open with the object they dial under.
LEMMA ClaimFrame ==
  ASSUME PoolInv, NEW p \in Pools, NEW a \in Accounts, NEW b \in Budgets, NEW n \in Sizes,
         ClaimBudget(p, a, b, n), NEW q \in Pools \ {p}, pool'[q] = pool[q]
  PROVE  PoolSound(q)'
<1>1. /\ CreatedStay
      /\ registry[a] \in {b, None}
      /\ registry' = [registry EXCEPT ![a] = b]
      /\ claims' = [claims EXCEPT ![b] = [claims[b] EXCEPT ![p] = n]]
  BY ClaimEffect DEF PoolInv
<1>2. n \in Nat /\ BudgetTypeOK
  BY BudgetAssumption DEF PoolInv, IInv
<1>3. \A c \in Budgets : claims'[c][q] = claims[c][q]
  BY <1>1, <1>2, ClaimAt
<1>4. PoolSound(q)
  BY PoolSounds DEF AllSound, PoolInv
<1>5. CASE pool[q].step \in {"new", "gone"}
  BY <1>1, <1>3, <1>4, <1>5, SoundFrame
<1>6. CASE pool[q].step \notin {"new", "gone"}
  <2>1. /\ pool[q].target \in Accounts /\ pool[q].budget # None
        /\ registry[pool[q].target] = pool[q].budget
    BY <1>4, <1>6, BudgetAssumption DEF PoolSound, Created
  <2>2. registry'[pool[q].target] = registry[pool[q].target]
    BY <1>1, <1>2, <2>1 DEF BudgetTypeOK
  <2> QED
    BY <1>1, <1>3, <1>4, <2>2, SoundFrame
<1> QED
  BY <1>5, <1>6

\* NewClientPool.
LEMMA OpenKeeps ==
  ASSUME PoolInv, NEW p \in Pools, NEW b \in Budgets, Open(p, b)
  PROVE  Kept
<1>1. PICK a : a = Opening[p].account
  OBVIOUS
<1>2. PICK n : n = Opening[p].size
  OBVIOUS
<1>3. a \in Accounts /\ n \in Sizes /\ n \in Nat
  BY <1>1, <1>2, PoolAssumption, BudgetAssumption DEF Settings
<1>4. PICK x : x = [pool[p] EXCEPT !.target = a, !.budget = b, !.step = "steady"]
  OBVIOUS
<1>5. /\ pool[p].step = "new" /\ ClaimBudget(p, a, b, n)
      /\ pool' = [pool EXCEPT ![p] = x]
      /\ UNCHANGED <<proc, conn, idle, expired, reaper>>
  BY <1>1, <1>2, <1>4 DEF Open
<1>6. /\ x \in PoolRecord /\ x.target = a /\ x.budget = b /\ x.step = "steady"
      /\ x.left = pool[p].left
  <2>1. pool[p] \in PoolRecord
    BY DEF PoolInv, PoolTypeOK, PoolRecord
  <2>2. x = [target |-> a, budget |-> b, gen |-> pool[p].gen, closed |-> pool[p].closed,
             stop |-> pool[p].stop, step |-> "steady", left |-> pool[p].left]
    BY <1>4, <2>1 DEF PoolRecord
  <2>3. /\ pool[p].closed \in BOOLEAN /\ pool[p].stop \in BOOLEAN /\ pool[p].gen \in 0..MaxGen
        /\ pool[p].left \in Budgets \cup {None}
    BY <2>1 DEF PoolRecord
  <2> QED
    BY <1>3, <2>2, <2>3 DEF PoolRecord, Steps
<1>7. /\ StandingKept({}) /\ CreatedStay /\ b \in Created'
      /\ registry' = [registry EXCEPT ![a] = b]
      /\ claims' = [claims EXCEPT ![b] = [claims[b] EXCEPT ![p] = n]]
  BY <1>3, <1>5, ClaimEffect DEF PoolInv
<1>8. /\ PoolTypeOK' /\ HoldersInv'
      /\ pool'[p] = x /\ \A q \in Pools \ {p} : pool'[q] = pool[q]
  BY <1>5, <1>6, <1>7, PoolMoves
<1>9. \A q \in Pools \ {p} : PoolSound(q)'
  BY <1>3, <1>5, <1>8, ClaimFrame
<1>10. PoolSound(p)'
  <2>1. PoolSound(p) /\ BudgetTypeOK
    BY PoolSounds DEF AllSound, PoolInv, IInv
  <2>2. /\ pool[p].left = None
        /\ \A c \in Budgets : claims[c][p] = NoClaim
    BY <1>5, <2>1 DEF PoolSound
  <2>3. \A c \in Budgets : claims'[c][p] # NoClaim <=> c = b
    <3>1. /\ claims'[b][p] # NoClaim
          /\ \A c \in Budgets \ {b} : claims'[c] = claims[c]
      BY <1>3, <1>5, ClaimMade
    <3> QED
      BY <2>2, <3>1
  <2>4. registry'[a] = b
    BY <1>3, <1>7, <2>1 DEF BudgetTypeOK
  <2>5. None \notin Budgets
    BY BudgetAssumption
  <2> QED
    BY <1>3, <1>6, <1>7, <1>8, <2>2, <2>3, <2>4, <2>5 DEF PoolSound
<1>11. PoolsInv'
  <2>1. AllSound'
    BY <1>9, <1>10 DEF AllSound
  <2> QED
    BY <2>1, PoolSoundsNext
<1>12. BudgetNext
  BY <1>3, <1>5 DEF BudgetNext
<1> QED
  BY <1>8, <1>11, <1>12 DEF Kept

\* Reconfigure, up to the claim.
LEMMA ReconfigureKeeps ==
  ASSUME PoolInv, NEW p \in Pools, NEW s \in Later[p], NEW b \in Budgets,
         NEW renew \in BOOLEAN, Reconfigure(p, s, b, renew)
  PROVE  Kept
<1>1. PICK a : a = s.account
  OBVIOUS
<1>2. PICK n : n = s.size
  OBVIOUS
<1>3. a \in Accounts /\ n \in Sizes /\ n \in Nat
  <2>1. s \in Settings
    BY PoolAssumption
  <2> QED
    BY <1>1, <1>2, <2>1, BudgetAssumption DEF Settings
<1>4. PICK old : old = pool[p].budget
  OBVIOUS
<1>5. PoolSound(p) /\ BudgetTypeOK /\ pool[p].step = "steady"
  BY PoolSounds DEF AllSound, PoolInv, IInv, Reconfigure
<1>6. old \in Created /\ old \in Budgets /\ pool[p].left = None
  BY <1>4, <1>5 DEF PoolSound, Created
<1>7. PICK gen \in 0..MaxGen, step \in {"leaving", "draining", "steady"} :
        /\ b # old <=> step = "leaving"
        /\ pool' = [pool EXCEPT ![p] = [pool[p] EXCEPT
                      !.target = a, !.budget = b, !.gen = gen, !.step = step,
                      !.left = IF b # old THEN old ELSE None]]
  <2>1. PICK changed \in BOOLEAN : changed = (renew \/ s.account # pool[p].target)
    OBVIOUS
  <2>2. PICK gen : gen = IF changed THEN pool[p].gen + 1 ELSE pool[p].gen
    OBVIOUS
  <2>3. PICK step : step = IF b # old THEN "leaving" ELSE IF changed THEN "draining" ELSE "steady"
    OBVIOUS
  <2>4. gen \in 0..MaxGen
    <3>1. changed => pool[p].gen < MaxGen
      BY <2>1 DEF Reconfigure
    <3>2. pool[p].gen \in 0..MaxGen /\ MaxGen \in Nat
      BY PoolAssumption DEF PoolInv, PoolTypeOK
    <3> QED
      BY <2>2, <3>1, <3>2
  <2>5. step \in {"leaving", "draining", "steady"} /\ (b # old <=> step = "leaving")
    BY <2>3
  <2>6. pool' = [pool EXCEPT ![p] = [pool[p] EXCEPT
                   !.target = a, !.budget = b, !.gen = gen, !.step = step,
                   !.left = IF b # old THEN old ELSE None]]
    BY <1>1, <1>4, <2>1, <2>2, <2>3 DEF Reconfigure
  <2> QED
    BY <2>4, <2>5, <2>6
<1>8. PICK left : left = IF b # old THEN old ELSE None
  OBVIOUS
<1>9. PICK x : x = [pool[p] EXCEPT !.target = a, !.budget = b, !.gen = gen, !.step = step,
                                   !.left = left]
  OBVIOUS
<1>10. /\ pool' = [pool EXCEPT ![p] = x] /\ ClaimBudget(p, a, b, n)
       /\ UNCHANGED <<proc, conn, idle, expired, reaper>>
  BY <1>1, <1>2, <1>7, <1>8, <1>9 DEF Reconfigure
<1>11. /\ x \in PoolRecord /\ x.target = a /\ x.budget = b /\ x.step = step
       /\ x.left = left
  <2>1. step \in Steps /\ left \in Budgets \cup {None}
    BY <1>6, <1>8 DEF Steps
  <2>2. pool[p] \in PoolRecord
    BY DEF PoolInv, PoolTypeOK, PoolRecord
  <2>3. x = [target |-> a, budget |-> b, gen |-> gen, closed |-> pool[p].closed,
             stop |-> pool[p].stop, step |-> step, left |-> left]
    BY <1>9, <2>2 DEF PoolRecord
  <2>4. pool[p].closed \in BOOLEAN /\ pool[p].stop \in BOOLEAN
    BY <2>2 DEF PoolRecord
  <2> QED
    BY <1>3, <2>1, <2>3, <2>4 DEF PoolRecord
<1>12. /\ StandingKept({}) /\ CreatedStay /\ b \in Created'
       /\ registry' = [registry EXCEPT ![a] = b]
       /\ claims' = [claims EXCEPT ![b] = [claims[b] EXCEPT ![p] = n]]
  BY <1>3, <1>10, ClaimEffect DEF PoolInv
<1>13. /\ PoolTypeOK' /\ HoldersInv'
       /\ pool'[p] = x /\ \A q \in Pools \ {p} : pool'[q] = pool[q]
  BY <1>7, <1>10, <1>11, <1>12, PoolMoves
<1>14. \A q \in Pools \ {p} : PoolSound(q)'
  BY <1>3, <1>10, <1>13, ClaimFrame
<1>15. PoolSound(p)'
  <2>1. \A c \in Budgets : claims[c][p] # NoClaim <=> c = old
    BY <1>4, <1>5, <1>6, BudgetAssumption DEF PoolSound
  <2>2. \A c \in Budgets : claims'[c][p] # NoClaim <=> c \in {b, old}
    <3>1. /\ claims'[b][p] # NoClaim
          /\ \A c \in Budgets \ {b} : claims'[c] = claims[c]
      BY <1>3, <1>10, ClaimMade
    <3> QED
      BY <2>1, <3>1
  <2>3. registry'[a] = b
    BY <1>3, <1>5, <1>12 DEF BudgetTypeOK
  <2>4. None \notin Budgets /\ old \in Created'
    BY <1>6, <1>12, BudgetAssumption DEF CreatedStay
  <2>5. CASE b = old
    BY <1>3, <1>7, <1>8, <1>11, <1>12, <1>13, <2>2, <2>3, <2>4, <2>5 DEF PoolSound
  <2>6. CASE b # old
    BY <1>3, <1>7, <1>8, <1>11, <1>12, <1>13, <2>2, <2>3, <2>4, <2>6 DEF PoolSound
  <2> QED
    BY <2>5, <2>6
<1>16. PoolsInv'
  <2>1. AllSound'
    BY <1>14, <1>15 DEF AllSound
  <2> QED
    BY <2>1, PoolSoundsNext
<1>17. BudgetNext
  BY <1>3, <1>10 DEF BudgetNext
<1> QED
  BY <1>13, <1>16, <1>17 DEF Kept

\* The claim that goes leaves the other pools with theirs.
LEMMA DropFrame ==
  ASSUME PoolInv, NEW p \in Pools, NEW b \in Created, DropClaim(p, b),
         NEW q \in Pools \ {p}, pool'[q] = pool[q]
  PROVE  PoolSound(q)'
<1>1. CreatedStay /\ registry' = registry
  BY DropEffect DEF PoolInv
<1>2. \A c \in Budgets : claims'[c][q] = claims[c][q]
  BY ClaimDropped
<1>3. PoolSound(q)
  BY PoolSounds DEF AllSound, PoolInv
<1> QED
  BY <1>1, <1>2, <1>3, SoundFrame

\* Reconfigure leaves the object it came from.
LEMMA LeaveKeeps ==
  ASSUME PoolInv, NEW p \in Pools, LeaveBudget(p)
  PROVE  Kept
<1>1. PICK old : old = pool[p].left
  OBVIOUS
<1>2. PICK x : x = [pool[p] EXCEPT !.step = "draining", !.left = None]
  OBVIOUS
<1>3. /\ pool[p].step = "leaving" /\ DropClaim(p, old)
      /\ pool' = [pool EXCEPT ![p] = x]
      /\ UNCHANGED <<proc, conn, idle, expired, reaper>>
  BY <1>1, <1>2 DEF LeaveBudget
<1>4. PoolSound(p)
  BY PoolSounds DEF AllSound, PoolInv
<1>5. old \in Created /\ old # pool[p].budget
  BY <1>1, <1>3, <1>4 DEF PoolSound
<1>6. /\ x \in PoolRecord /\ x.step = "draining" /\ x.left = None
      /\ x.target = pool[p].target /\ x.budget = pool[p].budget
  <2>1. pool[p] \in PoolRecord
    BY DEF PoolInv, PoolTypeOK, PoolRecord
  <2>2. x = [target |-> pool[p].target, budget |-> pool[p].budget, gen |-> pool[p].gen,
             closed |-> pool[p].closed, stop |-> pool[p].stop, step |-> "draining", left |-> None]
    BY <1>2, <2>1 DEF PoolRecord
  <2>3. /\ pool[p].closed \in BOOLEAN /\ pool[p].stop \in BOOLEAN /\ pool[p].gen \in 0..MaxGen
        /\ pool[p].target \in Accounts \cup {None} /\ pool[p].budget \in Budgets \cup {None}
    BY <2>1 DEF PoolRecord
  <2> QED
    BY <2>2, <2>3 DEF PoolRecord, Steps
<1>7. /\ StandingKept({}) /\ CreatedStay /\ registry' = registry
  BY <1>3, <1>5, DropEffect DEF PoolInv
<1>8. /\ PoolTypeOK' /\ HoldersInv'
      /\ pool'[p] = x /\ \A q \in Pools \ {p} : pool'[q] = pool[q]
  BY <1>3, <1>6, <1>7, PoolMoves
<1>9. \A q \in Pools \ {p} : PoolSound(q)'
  BY <1>3, <1>5, <1>8, DropFrame
<1>10. PoolSound(p)'
  <2>1. \A c \in Budgets : claims[c][p] # NoClaim <=> c \in {pool[p].budget, old}
    BY <1>1, <1>3, <1>4 DEF PoolSound
  <2>2. \A c \in Budgets : claims'[c][p] # NoClaim <=> c = pool[p].budget
    <3>1. /\ claims'[old][p] = NoClaim
          /\ \A c \in Budgets \ {old} : claims'[c] = claims[c]
      BY <1>3, <1>5, ClaimDropped
    <3> QED
      BY <1>5, <2>1, <3>1
  <2>3. /\ pool[p].target \in Accounts /\ pool[p].budget \in Created
        /\ registry[pool[p].target] = pool[p].budget
    BY <1>3, <1>4 DEF PoolSound
  <2>4. None \notin Budgets /\ pool[p].budget \in Created'
    BY <1>7, <2>3, BudgetAssumption DEF CreatedStay
  <2> QED
    BY <1>6, <1>7, <1>8, <2>2, <2>3, <2>4 DEF PoolSound
<1>11. PoolsInv'
  <2>1. AllSound'
    BY <1>9, <1>10 DEF AllSound
  <2> QED
    BY <2>1, PoolSoundsNext
<1>12. BudgetNext
  BY <1>3, <1>5 DEF BudgetNext
<1> QED
  BY <1>8, <1>11, <1>12 DEF Kept

\* A drain closes one of the connections parked.
LEMMA DrainKeeps ==
  ASSUME PoolInv, NEW p \in Pools, DrainOne(p)
  PROVE  Kept
<1>1. PICK r : r = Head(idle[p])
  OBVIOUS
<1>2. Receive(p) /\ CloseClient(r) /\ UNCHANGED <<pool, proc, reaper>>
  BY <1>1 DEF DrainOne
<1>3. r \in Requests /\ r \in Parked(p)
  BY <1>1, <1>2, ReceiveEffect DEF PoolInv, HoldersInv
<1>4. \A q \in Pools : reaper[q].conn # r
  BY <1>3, ParkedIn DEF PoolInv, HoldersInv
<1>5. StandingKept({r})
  BY <1>2, <1>3, CloseEffect
<1>6. \A q \in Pools : ReaperShape(q)' /\ reaper'[q].conn = reaper[q].conn
  BY <1>2, <1>4, <1>5, ReaperFrame DEF PoolInv, HoldersInv
<1>7. reaper' \in [Pools -> ReaperRecord]
  BY <1>2 DEF PoolInv, PoolTypeOK, ReaperRecord
<1> QED
  BY <1>1, <1>2, <1>6, <1>7, DropsKeeps

\* The steps of Reconfigure and Shutdown that only say how far the call got.
LEMMA ProgressKeeps ==
  ASSUME PoolInv, NEW p \in Pools, Reconfigured(p) \/ ShutdownBegin(p) \/ CloseStop(p)
  PROVE  Kept
<1>1. UNCHANGED <<budgetVars, proc, conn, idle, expired, reaper>>
  BY DEF Reconfigured, ShutdownBegin, CloseStop
<1>2. pool[p] \in PoolRecord
  BY DEF PoolInv, PoolTypeOK, PoolRecord
<1>3. PICK closed \in BOOLEAN, stop \in BOOLEAN, step \in {"steady", "closing", "stopping"} :
        pool' = [pool EXCEPT ![p] = [pool[p] EXCEPT !.closed = closed, !.stop = stop,
                                                    !.step = step]]
  <2>1. pool[p].closed \in BOOLEAN /\ pool[p].stop \in BOOLEAN
    BY <1>2 DEF PoolRecord
  <2>2. CASE Reconfigured(p)
    <3>1. pool' = [pool EXCEPT ![p] = [pool[p] EXCEPT !.closed = pool[p].closed,
                                         !.stop = pool[p].stop, !.step = "steady"]]
      BY <1>2, <2>2 DEF Reconfigured, PoolRecord
    <3> QED
      BY <2>1, <3>1
  <2>3. CASE ShutdownBegin(p)
    <3>1. PICK t : t = TRUE
      OBVIOUS
    <3>2. pool' = [pool EXCEPT ![p] = [pool[p] EXCEPT !.closed = t,
                                         !.stop = pool[p].stop, !.step = "closing"]]
      BY <1>2, <2>3, <3>1 DEF ShutdownBegin, PoolRecord
    <3>3. t \in BOOLEAN
      BY <3>1
    <3> QED
      BY <2>1, <3>2, <3>3
  <2>4. CASE CloseStop(p)
    <3>1. PICK t : t = TRUE
      OBVIOUS
    <3>2. pool' = [pool EXCEPT ![p] = [pool[p] EXCEPT !.closed = pool[p].closed,
                                         !.stop = t, !.step = "stopping"]]
      BY <1>2, <2>4, <3>1 DEF CloseStop, PoolRecord
    <3>3. t \in BOOLEAN
      BY <3>1
    <3> QED
      BY <2>1, <3>2, <3>3
  <2> QED
    BY <2>2, <2>3, <2>4
<1>4. PICK x : x = [pool[p] EXCEPT !.closed = closed, !.stop = stop, !.step = step]
  OBVIOUS
<1>5. pool' = [pool EXCEPT ![p] = x]
  BY <1>3, <1>4
<1>6. /\ x \in PoolRecord /\ x.step = step /\ x.left = pool[p].left
      /\ x.target = pool[p].target /\ x.budget = pool[p].budget
  <2>1. x = [target |-> pool[p].target, budget |-> pool[p].budget, gen |-> pool[p].gen,
             closed |-> closed, stop |-> stop, step |-> step, left |-> pool[p].left]
    BY <1>2, <1>4 DEF PoolRecord
  <2>2. step \in Steps
    BY DEF Steps
  <2>3. /\ pool[p].gen \in 0..MaxGen /\ pool[p].left \in Budgets \cup {None}
        /\ pool[p].target \in Accounts \cup {None} /\ pool[p].budget \in Budgets \cup {None}
    BY <1>2 DEF PoolRecord
  <2> QED
    BY <2>1, <2>2, <2>3 DEF PoolRecord
<1>7. StandingKept({}) /\ CreatedStay
  BY <1>1, BudgetsRest
<1>8. /\ PoolTypeOK' /\ HoldersInv'
      /\ pool'[p] = x /\ \A q \in Pools \ {p} : pool'[q] = pool[q]
  BY <1>1, <1>5, <1>6, <1>7, PoolMoves
<1>9. \A q \in Pools : PoolSound(q)
  BY PoolSounds DEF AllSound, PoolInv
<1>10. UNCHANGED <<claims, registry>>
  BY <1>1 DEF budgetVars
<1>11. \A q \in Pools \ {p} : PoolSound(q)'
  BY <1>7, <1>8, <1>9, <1>10, SoundFrame
<1>12. PoolSound(p)'
  <2>1. pool[p].step \notin {"new", "gone", "leaving"}
    BY DEF Reconfigured, ShutdownBegin, CloseStop
  <2> QED
    BY <1>6, <1>7, <1>8, <1>9, <1>10, <2>1 DEF PoolSound, CreatedStay
<1>13. PoolsInv'
  <2>1. AllSound'
    BY <1>11, <1>12 DEF AllSound
  <2> QED
    BY <2>1, PoolSoundsNext
<1> QED
  BY <1>1, <1>8, <1>13 DEF Kept

\* The end of Shutdown: the claim goes with the pool.
LEMMA ShutdownKeeps ==
  ASSUME PoolInv, NEW p \in Pools, ShutdownEnd(p)
  PROVE  Kept
<1>1. PICK b : b = pool[p].budget
  OBVIOUS
<1>2. PICK x : x = [pool[p] EXCEPT !.step = "gone"]
  OBVIOUS
<1>3. /\ pool[p].step = "stopping" /\ DropClaim(p, b)
      /\ pool' = [pool EXCEPT ![p] = x]
      /\ UNCHANGED <<proc, conn, idle, expired, reaper>>
  BY <1>1, <1>2 DEF ShutdownEnd
<1>4. PoolSound(p)
  BY PoolSounds DEF AllSound, PoolInv
<1>5. b \in Created /\ pool[p].target \in Accounts /\ pool[p].left = None
  BY <1>1, <1>3, <1>4 DEF PoolSound
<1>6. /\ x \in PoolRecord /\ x.step = "gone" /\ x.left = None
      /\ x.target = pool[p].target /\ x.budget = b
  <2>1. pool[p] \in PoolRecord
    BY DEF PoolInv, PoolTypeOK, PoolRecord
  <2>2. x = [target |-> pool[p].target, budget |-> pool[p].budget, gen |-> pool[p].gen,
             closed |-> pool[p].closed, stop |-> pool[p].stop, step |-> "gone",
             left |-> pool[p].left]
    BY <1>2, <2>1 DEF PoolRecord
  <2>3. /\ pool[p].closed \in BOOLEAN /\ pool[p].stop \in BOOLEAN /\ pool[p].gen \in 0..MaxGen
        /\ pool[p].target \in Accounts \cup {None} /\ pool[p].budget \in Budgets \cup {None}
        /\ pool[p].left \in Budgets \cup {None}
    BY <2>1 DEF PoolRecord
  <2> QED
    BY <1>1, <1>5, <2>2, <2>3 DEF PoolRecord, Steps
<1>7. StandingKept({}) /\ CreatedStay
  BY <1>3, <1>5, DropEffect DEF PoolInv
<1>8. /\ PoolTypeOK' /\ HoldersInv'
      /\ pool'[p] = x /\ \A q \in Pools \ {p} : pool'[q] = pool[q]
  BY <1>3, <1>6, <1>7, PoolMoves
<1>9. \A q \in Pools \ {p} : PoolSound(q)'
  BY <1>3, <1>5, <1>8, DropFrame
<1>10. PoolSound(p)'
  <2>1. \A c \in Budgets : claims[c][p] # NoClaim => c = b
    BY <1>1, <1>3, <1>4, <1>5, BudgetAssumption DEF PoolSound
  <2>2. \A c \in Budgets : claims'[c][p] = NoClaim
    <3>1. /\ claims'[b][p] = NoClaim
          /\ \A c \in Budgets \ {b} : claims'[c] = claims[c]
      BY <1>3, <1>5, ClaimDropped
    <3> QED
      BY <2>1, <3>1
  <2>3. b \in Created'
    BY <1>5, <1>7 DEF CreatedStay
  <2> QED
    BY <1>5, <1>6, <1>8, <2>2, <2>3 DEF PoolSound
<1>11. PoolsInv'
  <2>1. AllSound'
    BY <1>9, <1>10 DEF AllSound
  <2> QED
    BY <2>1, PoolSoundsNext
<1>12. BudgetNext
  BY <1>3, <1>5 DEF BudgetNext
<1> QED
  BY <1>8, <1>11, <1>12 DEF Kept

\* Everything a pool's manager does.
LEMMA ReloadKeeps ==
  ASSUME PoolInv, NEW p \in Pools, Reload(p)
  PROVE  Kept
BY OpenKeeps, ReconfigureKeeps, LeaveKeeps, DrainKeeps, ProgressKeeps, ShutdownKeeps DEF Reload

-------------------------------------------------------------------------------
(* Every step.                                                             *)

LEMMA ExpireKeeps ==
  ASSUME PoolInv, NEW r \in Requests, Expire(r)
  PROVE  Kept
<1>1. /\ expired' = expired \cup {r}
      /\ UNCHANGED <<budgetVars, pool, proc, conn, idle, reaper>>
  BY DEF Expire
<1>2. StandingKept({}) /\ CreatedStay /\ BudgetsKept /\ OpenedStay
  BY <1>1, BudgetsRest DEF OpenedStay
<1>3. PoolTypeOK'
  BY <1>1 DEF PoolInv, PoolTypeOK
<1>4. HoldersInv'
  BY <1>1, <1>2, HoldersFrame DEF PoolInv
<1>5. PoolsInv'
  BY <1>1, <1>2, PoolsFrame DEF PoolInv
<1> QED
  BY <1>1, <1>3, <1>4, <1>5 DEF Kept

\* The registry forgets only an object no pool has a claim on.
LEMMA RetireBudgetKeeps ==
  ASSUME PoolInv, NEW b \in Created, RetireBudget(b)
  PROVE  Kept
<1>1. Retire(b) /\ UNCHANGED <<pool, proc, conn, idle, expired, reaper>>
  BY DEF RetireBudget, poolVars
<1>2. /\ StandingKept({}) /\ CreatedStay /\ claims' = claims
      /\ \A a \in Accounts : registry'[a] = registry[a] \/ (registry[a] = b /\ Unclaimed(claims[b]))
  BY <1>1, RetireEffect DEF PoolInv
<1>3. OpenedStay /\ PoolTypeOK'
  BY <1>1 DEF OpenedStay, PoolInv, PoolTypeOK
<1>4. HoldersInv'
  BY <1>1, <1>2, <1>3, HoldersFrame DEF PoolInv
<1>5. ASSUME NEW q \in Pools PROVE PoolSound(q)'
  <2>1. PoolSound(q)
    BY PoolSounds DEF AllSound, PoolInv
  <2>2. CASE pool[q].step \in {"new", "gone"}
    BY <1>1, <1>2, <2>1, <2>2, SoundFrame
  <2>3. CASE pool[q].step \notin {"new", "gone"}
    <3>1. /\ pool[q].target \in Accounts /\ pool[q].budget \in Budgets
          /\ registry[pool[q].target] = pool[q].budget
          /\ claims[pool[q].budget][q] # NoClaim
      BY <2>1, <2>3 DEF PoolSound, Created
    <3>2. registry'[pool[q].target] = registry[pool[q].target]
      BY <1>2, <3>1 DEF Unclaimed
    <3> QED
      BY <1>1, <1>2, <2>1, <3>2, SoundFrame
  <2> QED
    BY <2>2, <2>3
<1>6. PoolsInv'
  <2>1. AllSound'
    BY <1>5 DEF AllSound
  <2> QED
    BY <2>1, PoolSoundsNext
<1>7. BudgetNext
  BY <1>1 DEF BudgetNext
<1> QED
  BY <1>3, <1>4, <1>6, <1>7 DEF Kept

LEMMA RestKeeps ==
  ASSUME PoolInv, UNCHANGED vars
  PROVE  Kept
<1>1. UNCHANGED budgetVars /\ UNCHANGED <<pool, proc, conn, idle, expired, reaper>>
  BY DEF vars, poolVars
<1>2. StandingKept({}) /\ CreatedStay /\ BudgetsKept /\ OpenedStay
  BY <1>1, BudgetsRest DEF OpenedStay
<1>3. PoolTypeOK'
  BY <1>1 DEF PoolInv, PoolTypeOK
<1>4. HoldersInv'
  BY <1>1, <1>2, HoldersFrame DEF PoolInv
<1>5. PoolsInv'
  BY <1>1, <1>2, PoolsFrame DEF PoolInv
<1> QED
  BY <1>1, <1>3, <1>4, <1>5 DEF Kept

LEMMA PoolStepKept == PoolInv /\ [PoolNext]_vars => Kept
<1> SUFFICES ASSUME PoolInv, [PoolNext]_vars PROVE Kept
  OBVIOUS
<1>1. ASSUME NEW g \in Procs, Goroutine(g) PROVE Kept
  BY <1>1, GoroutineKeeps
<1>2. ASSUME NEW p \in Pools, Reload(p) PROVE Kept
  BY <1>2, ReloadKeeps
<1>3. ASSUME NEW p \in Pools, Reap(p) PROVE Kept
  BY <1>3, ReapKeeps
<1>4. ASSUME NEW r \in Requests, Expire(r) PROVE Kept
  BY <1>4, ExpireKeeps
<1>5. ASSUME NEW b \in Created, RetireBudget(b) PROVE Kept
  BY <1>5, RetireBudgetKeeps
<1>6. ASSUME UNCHANGED vars PROVE Kept
  BY <1>6, RestKeeps
<1> QED
  BY <1>1, <1>2, <1>3, <1>4, <1>5, <1>6 DEF PoolNext

LEMMA PoolStep == PoolInv /\ [PoolNext]_vars => PoolInv'
<1> SUFFICES ASSUME PoolInv, Kept PROVE PoolInv'
  BY PoolStepKept
<1>1. IInv'
  BY StepPreserves DEF PoolInv, Kept
<1> QED
  BY <1>1 DEF Kept, PoolInv

LEMMA PoolInitEstablishes == PoolInit => PoolInv
<1> SUFFICES ASSUME PoolInit PROVE PoolInv
  OBVIOUS
<1>1. IInv
  BY InitEstablishes DEF PoolInit
<1>2. /\ pool = [p \in Pools |-> NewPool]
      /\ proc = [g \in Procs |-> Resting]
      /\ conn = [r \in Requests |-> NoConn]
      /\ idle = [p \in Pools |-> <<>>]
      /\ expired = {}
      /\ reaper = [p \in Pools |-> Asleep]
  BY DEF PoolInit
<1>3. /\ claims = [b \in Budgets |-> [p \in Pools |-> NoClaim]]
      /\ permit = [r \in Requests |-> "free"]
  BY DEF PoolInit, BudgetInit
<1>4. PoolTypeOK
  <2>1. NewPool \in PoolRecord
    BY PoolAssumption DEF NewPool, PoolRecord, Steps
  <2>2. Resting \in ProcRecord
    BY PoolAssumption DEF Resting, ProcRecord, PCs
  <2>3. Asleep \in ReaperRecord
    BY DEF Asleep, ReaperRecord
  <2>4. NoConn \in [gen : 0..MaxGen, account : Accounts \cup {None}]
    BY PoolAssumption DEF NoConn
  <2> QED
    BY <1>2, <2>1, <2>2, <2>3, <2>4 DEF PoolTypeOK, PoolRecord, ProcRecord, ReaperRecord
<1>5. PoolsInv
  BY <1>2, <1>3 DEF PoolsInv, PoolShape, ClaimFollowsPool, DialsRegistered, NewPool
<1>6. HoldersInv
  <2>1. \A g \in Procs : proc[g].pc = "out" /\ proc[g].has = None
    BY <1>2 DEF Resting
  <2>2. \A p \in Pools : reaper[p].step = "asleep" /\ reaper[p].conn = None
    BY <1>2 DEF Asleep
  <2>3. \A p \in Pools : idle[p] = <<>> /\ Parked(p) = {}
    BY <1>2 DEF Parked, Range
  <2>4. \A g \in Procs : HandShape(g)
    BY <2>1 DEF HandShape, HandPCs, PermitPCs
  <2>5. \A p \in Pools : ReaperShape(p)
    BY <2>2 DEF ReaperShape
  <2>6. \A p \in Pools : IdleShape(p)
    BY <2>3 DEF IdleShape, IsInjective
  <2>7. Apart
    BY <2>1, <2>2, <2>3 DEF Apart
  <2> QED
    BY <1>3, <2>4, <2>5, <2>6, <2>7 DEF HoldersInv
<1> QED
  BY <1>1, <1>4, <1>5, <1>6 DEF PoolInv

-------------------------------------------------------------------------------
(* One owner.                                                              *)

\* What is held has its permit.
LEMMA HoldersHold ==
  ASSUME HoldersInv, NEW r \in Requests, permit[r] = "free"
  PROVE  /\ \A g \in Procs : proc[g].has # r
         /\ \A p \in Pools : reaper[p].conn # r
         /\ \A p \in Pools : r \notin Parked(p)
<1>1. r # None
  BY PoolAssumption
<1> QED
  BY <1>1 DEF HoldersInv, HandShape, ReaperShape, IdleShape, HandPCs, PermitPCs

\* The three kinds of places.
Hands(r) == {g \in Procs : proc[g].has = r}
Sweeps(r) == {p \in Pools : reaper[p].conn = r}
Slots(p, r) == {i \in DOMAIN idle[p] : idle[p][i] = r}

LEMMA PlacesAre ==
  ASSUME NEW r
  PROVE  /\ \A g \in Hands(r) : <<"proc", g>> \in Places(r)
         /\ \A p \in Sweeps(r) : <<"reaper", p>> \in Places(r)
         /\ \A p \in Pools : \A i \in Slots(p, r) : <<"idle", p, i>> \in Places(r)
         /\ \A x \in Places(r) :
              \/ \E g \in Hands(r) : x = <<"proc", g>>
              \/ \E p \in Sweeps(r) : x = <<"reaper", p>>
              \/ \E p \in Pools : \E i \in Slots(p, r) : x = <<"idle", p, i>>
BY DEF Places, Hands, Sweeps, Slots

LEMMA NoSlots ==
  ASSUME PoolTypeOK, NEW p \in Pools, NEW r, r \notin Parked(p)
  PROVE  Slots(p, r) = {}
BY DEF Slots, Parked, Range

\* A request without a permit is nowhere.
LEMMA NoPlace ==
  ASSUME PoolTypeOK, HoldersInv, NEW r \in Requests, permit[r] = "free"
  PROVE  Cardinality(Places(r)) = 0
<1>1. Hands(r) = {} /\ Sweeps(r) = {}
  BY HoldersHold DEF Hands, Sweeps
<1>2. \A p \in Pools : Slots(p, r) = {}
  BY HoldersHold, NoSlots
<1>3. \A x \in Places(r) : FALSE
  BY <1>1, <1>2, PlacesAre
<1>4. Places(r) = {}
  BY <1>3
<1> QED
  BY <1>4, FS_EmptySet

\* One that has a permit, or waits for one, is in one place.
LEMMA OnePlace ==
  ASSUME PoolTypeOK, HoldersInv, NEW r \in Requests, permit[r] # "free"
  PROVE  Cardinality(Places(r)) = 1
<1>1. r # None /\ Apart /\ Owned(r)
  BY PoolAssumption DEF HoldersInv
<1>2. PICK x : Places(r) = {x}
  <2>1. ASSUME NEW g \in Procs, proc[g].has = r
        PROVE  \E x : Places(r) = {x}
    <3>1. Hands(r) = {g} /\ Sweeps(r) = {}
      BY <1>1, <2>1, InHand DEF Hands, Sweeps
    <3>2. \A p \in Pools : Slots(p, r) = {}
      BY <1>1, <2>1, InHand, NoSlots
    <3>3. \A x : x \in Places(r) <=> x = <<"proc", g>>
      BY <3>1, <3>2, PlacesAre
    <3>4. Places(r) = {<<"proc", g>>}
      BY <3>3, Zenon
    <3> QED
      BY <3>4, Zenon
  <2>2. ASSUME NEW p \in Pools, reaper[p].conn = r
        PROVE  \E x : Places(r) = {x}
    <3>1. Hands(r) = {} /\ Sweeps(r) = {p}
      BY <1>1, <2>2 DEF Apart, Hands, Sweeps
    <3>2. \A q \in Pools : Slots(q, r) = {}
      BY <1>1, <2>2, NoSlots DEF Apart
    <3>3. \A x : x \in Places(r) <=> x = <<"reaper", p>>
      BY <3>1, <3>2, PlacesAre
    <3>4. Places(r) = {<<"reaper", p>>}
      BY <3>3, Zenon
    <3> QED
      BY <3>4, Zenon
  <2>3. ASSUME NEW p \in Pools, r \in Parked(p)
        PROVE  \E x : Places(r) = {x}
    <3>1. Hands(r) = {} /\ Sweeps(r) = {}
      BY <1>1, <2>3 DEF Apart, Hands, Sweeps
    <3>2. \A q \in Pools \ {p} : Slots(q, r) = {}
      BY <1>1, <2>3, NoSlots DEF Apart
    <3>3. PICK i \in DOMAIN idle[p] : idle[p][i] = r
      BY <2>3 DEF Parked, Range
    <3>4. Slots(p, r) = {i}
      BY <3>3 DEF Slots, HoldersInv, IdleShape, IsInjective
    <3>5. \A x : x \in Places(r) <=> x = <<"idle", p, i>>
      BY <3>1, <3>2, <3>4, PlacesAre
    <3>6. Places(r) = {<<"idle", p, i>>}
      BY <3>5, Zenon
    <3> QED
      BY <3>6, Zenon
  <2> QED
    BY <1>1, <2>1, <2>2, <2>3 DEF Owned
<1> QED
  BY <1>2, FS_Singleton

LEMMA HoldersOwn == PoolInv => OneOwner
<1> SUFFICES ASSUME PoolInv, NEW r \in Requests
             PROVE  Cardinality(Places(r)) = IF permit[r] = "free" THEN 0 ELSE 1
  BY DEF OneOwner
<1>1. CASE permit[r] = "free"
  BY <1>1, NoPlace DEF PoolInv
<1>2. CASE permit[r] # "free"
  BY <1>2, OnePlace DEF PoolInv
<1> QED
  BY <1>1, <1>2

-------------------------------------------------------------------------------
(* The theorems.                                                           *)

\* Whatever goroutines, pools, accounts and settings there are, every behaviour
\* of the pools keeps the inductive invariant (pool.go, with budget.go).
THEOREM PoolInvariant == PoolSpec => []PoolInv
BY PoolInitEstablishes, PoolStep, PTL DEF PoolSpec

\* The variables of the pools keep their types.
THEOREM PoolTypeCorrect == PoolSpec => []PoolTypeOK
<1>1. PoolInv => PoolTypeOK
  BY DEF PoolInv
<1> QED
  BY <1>1, PoolInvariant, PTL

\* Every permit, and the connection dialed under it, has one owner: Get, Put,
\* Discard, the drains and the reapers, in any order, hand no connection to two
\* and lose none with its permit (pool.go:212-226).
THEOREM PermitsHaveOneOwner == PoolSpec => []OneOwner
BY HoldersOwn, PoolInvariant, PTL

\* A pool has a claim on the object it dials under and on no other but the one
\* a Reconfigure is leaving; a pool shut down has none (pool.go:95-103, 680-683).
THEOREM ClaimsFollowPools == PoolSpec => []ClaimFollowsPool
<1>1. PoolInv => ClaimFollowsPool
  BY DEF PoolInv, PoolsInv
<1> QED
  BY <1>1, PoolInvariant, PTL

\* The object an open pool dials under is the one registered for its account.
THEOREM PoolsDialRegistered == PoolSpec => []DialsRegistered
<1>1. PoolInv => DialsRegistered
  BY DEF PoolInv, PoolsInv
<1> QED
  BY <1>1, PoolInvariant, PTL

\* The pools use the budgets only as ConnBudget means them to be used: a claim
\* names an account and the object registered for it, a permit is asked only of
\* an object that was created and given back only by a request that holds one.
THEOREM PoolsKeepBudgetSpec == PoolSpec => KeepsBudgetSpec
<1>1. PoolInit => BudgetInit
  BY DEF PoolInit
<1>2. PoolInv /\ [PoolNext]_vars => [BudgetNext]_budgetVars
  BY PoolStepKept DEF Kept
<1> QED
  BY <1>1, <1>2, PoolInvariant, PTL DEF PoolSpec, KeepsBudgetSpec, BudgetSpec

\* Under the pools, the counter of every budget is the number of permits out.
THEOREM PoolPermitsExact == PoolSpec => []InUseExact
BY PoolsKeepBudgetSpec, PermitsExact DEF KeepsBudgetSpec

\* Under the pools, nobody is blocked while a permit is free.
THEOREM PoolNobodyWaitsForAFreePermit == PoolSpec => []WorkConserving
BY PoolsKeepBudgetSpec, NobodyWaitsForAFreePermit DEF KeepsBudgetSpec

\* Under the pools, only the registered object of an account counts anything,
\* although a goroutine may still wait on an older one.
THEOREM PoolRetiredCountsNothing == PoolSpec => []OnlyRegisteredCounts
BY PoolsKeepBudgetSpec, RetiredCountsNothing DEF KeepsBudgetSpec

\* Under the pools, permits go out oldest request first.
THEOREM PoolPermitsInTurn == PoolSpec => OldestFirst
BY PoolsKeepBudgetSpec, PermitsInTurn DEF KeepsBudgetSpec

\* The pools keep the promise made for the accounts: counted over every object
\* an account ever had, connections are only added under its ceiling.
THEOREM PoolsKeepAccountPermits == PoolSpec => KeepsAccountPermits
BY PoolsKeepBudgetSpec, BudgetsKeepAccountPermits DEF KeepsBudgetSpec

===============================================================================
