------------------------------ MODULE ClientPool ------------------------------
(***************************************************************************)
(* The client pools that share the budgets (pkg/usenet/nntp/pool.go).      *)
(*                                                                         *)
(* Processes are the goroutines that call Get, TryGet, Put, Discard and    *)
(* Probe; one manager per pool, the reload code, which opens the pool,     *)
(* re-points it and shuts it down; and the reaper each pool starts.  A     *)
(* step is a critical section of the pool's lock, one method of its budget,*)
(* or one select; a connection only its holder can see is closed in the    *)
(* step that takes it.  A request of ConnBudget that holds a permit is the *)
(* connection dialed under it.                                             *)
(*                                                                         *)
(* dialTarget is the account and the generation: settings that leave the   *)
(* account alone (port, TLS, password) only advance the generation.        *)
(***************************************************************************)
EXTENDS ConnBudget

CONSTANTS Procs,     \* goroutines that use the pools
          Kinds,     \* the calls they make: subset of {"get", "try", "probe"}
          Opening,   \* Opening[p]: the settings NewClientPool opens p with
          Later,     \* Later[p]: the settings Reconfigure may move p to
          Closable,  \* the pools Shutdown is called on
          MaxGen     \* bound: target changes of one pool

Settings == [account : Accounts, size : Sizes]

ASSUME PoolAssumption ==
  /\ Kinds \subseteq {"get", "try", "probe"}
  /\ Opening \in [Pools -> Settings]
  /\ Later \in [Pools -> SUBSET Settings]
  /\ Closable \subseteq Pools
  /\ MaxGen \in Nat
  /\ None \notin Requests

VARIABLES pool,    \* pool[p]: target, budget, generation, closed, stopCh, and
                   \* the manager's progress in the call it is making
          proc,    \* proc[g]: where goroutine g stands, and its locals
          conn,    \* conn[r]: generation and account r was dialed for
          idle,    \* idle[p]: the idleClients channel
          expired, \* parked connections past the reaper's 30 s
          reaper   \* reaper[p]: where p's reaperLoop stands

poolVars == <<pool, proc, conn, idle, expired, reaper>>
vars == <<budgetVars, poolVars>>

NewPool == [target |-> None, budget |-> None, gen |-> 0, closed |-> FALSE,
            stop |-> FALSE, step |-> "new", left |-> None]
Resting == [pc |-> "out", at |-> None, kind |-> None, has |-> None,
            budget |-> None, account |-> None, gen |-> 0]
NoConn == [gen |-> 0, account |-> None]
Asleep == [step |-> "asleep", left |-> 0, conn |-> None]

PoolInit ==
  /\ BudgetInit
  /\ pool = [p \in Pools |-> NewPool]
  /\ proc = [g \in Procs |-> Resting]
  /\ conn = [r \in Requests |-> NoConn]
  /\ idle = [p \in Pools |-> <<>>]
  /\ expired = {}
  /\ reaper = [p \in Pools |-> Asleep]

\* Reconfigure holds the pool's lock until it has left the old budget.
Unlocked(p) == pool[p].step # "leaving"

\* make(chan *Client, maxConn): Reconfigure never resizes the channel.
HasSlot(p) == Len(idle[p]) < Opening[p].size

\* closeClient: the socket goes, then the permit, to the connection's budget.
CloseClient(r) ==
  /\ Release(r)
  /\ conn' = [conn EXCEPT ![r] = NoConn]
  /\ expired' = expired \ {r}

\* Taking the oldest connection out of the idle channel.
Receive(p) ==
  /\ idle[p] # <<>>
  /\ idle' = [idle EXCEPT ![p] = Tail(@)]

-------------------------------------------------------------------------------
(* Get, TryGet and Probe.                                                  *)

Go(g, pc) == proc' = [proc EXCEPT ![g].pc = pc]
Return(g) == proc' = [proc EXCEPT ![g] = Resting]

\* Get and TryGet start at the top of their loop, Probe with the snapshot.
Call(g, p, kind) ==
  /\ proc[g].pc = "out"
  /\ pool[p].step # "new"
  /\ proc' = [proc EXCEPT ![g].pc = IF kind = "probe" THEN "snap" ELSE "head",
                          ![g].at = p, ![g].kind = kind]
  /\ UNCHANGED <<budgetVars, pool, conn, idle, expired, reaper>>

\* isClosed: a closed pool answers ErrPoolClosed.
CheckClosed(g) ==
  LET p == proc[g].at
  IN /\ proc[g].pc = "head"
     /\ Unlocked(p)
     /\ IF pool[p].closed THEN Return(g) ELSE Go(g, "look")
     /\ UNCHANGED <<budgetVars, pool, conn, idle, expired, reaper>>

\* The context ended before the idle select or before the dial.
EndLook(g) ==
  /\ proc[g].pc = "look"
  /\ Return(g)
  /\ UNCHANGED <<budgetVars, pool, conn, idle, expired, reaper>>

TakeIdle(g) ==
  LET p == proc[g].at
  IN /\ proc[g].pc = "look"
     /\ Receive(p)
     /\ proc' = [proc EXCEPT ![g].pc = "vet", ![g].has = Head(idle[p])]
     /\ UNCHANGED <<budgetVars, pool, conn, expired, reaper>>

NothingIdle(g) ==
  /\ proc[g].pc = "look"
  /\ idle[proc[g].at] = <<>>
  /\ Go(g, "snap")
  /\ UNCHANGED <<budgetVars, pool, conn, idle, expired, reaper>>

Current(p, r) == conn[r].gen = pool[p].gen

\* checkoutIdle hands out a connection dialed with the settings the pool holds
\* now; one that sat idle for long must also answer a ping.
Checkout(g) ==
  LET r == proc[g].has
  IN /\ proc[g].pc = "vet"
     /\ Unlocked(proc[g].at)
     /\ Current(proc[g].at, r)
     /\ Go(g, "using")
     /\ expired' = expired \ {r}
     /\ UNCHANGED <<budgetVars, pool, conn, idle, reaper>>

\* checkoutIdle closes one that is not fit, and the caller tries again.
RejectIdle(g) ==
  LET r == proc[g].has
  IN /\ proc[g].pc = "vet"
     /\ Unlocked(proc[g].at)
     /\ Current(proc[g].at, r) => r \in expired
     /\ CloseClient(r)
     /\ proc' = [proc EXCEPT ![g].pc = "head", ![g].has = None]
     /\ UNCHANGED <<pool, idle, reaper>>

\* snapshot in dialWithPermit and Probe: target, budget and generation at once.
Snapshot(g) ==
  LET p == proc[g].at
  IN /\ proc[g].pc = "snap"
     /\ Unlocked(p)
     /\ proc' = [proc EXCEPT ![g].pc = "try", ![g].budget = pool[p].budget,
                             ![g].account = pool[p].target, ![g].gen = pool[p].gen]
     /\ UNCHANGED <<budgetVars, pool, conn, idle, expired, reaper>>

\* r is being dialed with the settings g read: they are stamped on it.
StartDial(g, r, pc, account, gen) ==
  /\ proc' = [proc EXCEPT ![g].pc = pc, ![g].has = r, ![g].account = None,
                          ![g].gen = 0, ![g].budget = None]
  /\ conn' = [conn EXCEPT ![r] = [gen |-> gen, account |-> account]]

\* tryAcquire succeeds: dial under the permit with the snapshot it came from.
TryPermit(g, r) ==
  /\ proc[g].pc = "try"
  /\ TryAcquire(r, proc[g].budget)
  /\ StartDial(g, r, "dial", proc[g].account, proc[g].gen)
  /\ UNCHANGED <<pool, idle, expired, reaper>>

\* tryAcquire fails: TryGet gives up, Probe waits with what it read, Get reads
\* the budget again before it waits.
NoPermit(g) ==
  /\ proc[g].pc = "try"
  /\ ~HasRoom(proc[g].budget)
  /\ CASE proc[g].kind = "try" -> Return(g)
       [] proc[g].kind = "probe" -> Go(g, "wait")
       [] OTHER -> Go(g, "again")
  /\ UNCHANGED <<budgetVars, pool, conn, idle, expired, reaper>>

ReadBudget(g) ==
  /\ proc[g].pc = "again"
  /\ Unlocked(proc[g].at)
  /\ proc' = [proc EXCEPT ![g].pc = "wait", ![g].budget = pool[proc[g].at].budget]
  /\ UNCHANGED <<budgetVars, pool, conn, idle, expired, reaper>>

Enqueue(g, r) ==
  /\ proc[g].pc = "wait"
  /\ Wait(r, proc[g].budget)
  /\ proc' = [proc EXCEPT ![g].pc = "blocked", ![g].has = r]
  /\ UNCHANGED <<pool, conn, idle, expired, reaper>>

\* The blocking select: the idle arm withdraws the waiter, which hands back a
\* permit granted in the meantime.
TakeIdleInstead(g) ==
  LET p == proc[g].at
  IN /\ proc[g].pc = "blocked"
     /\ proc[g].kind = "get"
     /\ Receive(p)
     /\ CancelQueued(proc[g].has) \/ CancelServed(proc[g].has)
     /\ proc' = [proc EXCEPT ![g].pc = "vet", ![g].has = Head(idle[p]),
                             ![g].budget = None, ![g].account = None, ![g].gen = 0]
     /\ UNCHANGED <<pool, conn, expired, reaper>>

\* The blocking select: the context ends.
EndWait(g) ==
  /\ proc[g].pc = "blocked"
  /\ CancelQueued(proc[g].has) \/ CancelServed(proc[g].has)
  /\ Return(g)
  /\ UNCHANGED <<pool, conn, idle, expired, reaper>>

\* The blocking select: the permit came.  Get reads the target again and dials
\* that; Probe dials what it read at first.
Granted(g) ==
  LET p == proc[g].at
      r == proc[g].has
  IN /\ proc[g].pc = "blocked"
     /\ permit[r] = "held"
     /\ \/ /\ proc[g].kind = "get"
           /\ Unlocked(p)
           /\ StartDial(g, r, "redial", pool[p].target, pool[p].gen)
        \/ /\ proc[g].kind = "probe"
           /\ StartDial(g, r, "dial", proc[g].account, proc[g].gen)
     /\ UNCHANGED <<budgetVars, pool, idle, expired, reaper>>

Dialing(g) == proc[g].pc \in {"dial", "redial"}

DialOK(g) ==
  /\ Dialing(g)
  /\ Go(g, "using")
  /\ UNCHANGED <<budgetVars, pool, conn, idle, expired, reaper>>

\* The dialer gives the permit back.
DialFailed(g) ==
  /\ Dialing(g)
  /\ CloseClient(proc[g].has)
  /\ Return(g)
  /\ UNCHANGED <<pool, idle, reaper>>

-------------------------------------------------------------------------------
(* Put and Discard.                                                        *)

\* Put looks at closed and generation under the lock.
Put(g) ==
  LET p == proc[g].at
      r == proc[g].has
  IN /\ proc[g].pc = "using"
     /\ proc[g].kind # "probe"
     /\ Unlocked(p)
     /\ IF pool[p].closed \/ ~Current(p, r)
        THEN CloseClient(r) /\ Return(g)
        ELSE Go(g, "put") /\ UNCHANGED <<budgetVars, conn, expired>>
     /\ UNCHANGED <<pool, idle, reaper>>

\* Its select afterwards: any ready arm may run, the default only if none is.
Park(g) ==
  LET p == proc[g].at
  IN /\ proc[g].pc = "put"
     /\ HasSlot(p)
     /\ idle' = [idle EXCEPT ![p] = Append(@, proc[g].has)]
     /\ Return(g)
     /\ UNCHANGED <<budgetVars, pool, conn, expired, reaper>>

CloseInstead(g) ==
  LET p == proc[g].at
  IN /\ proc[g].pc = "put"
     /\ pool[p].stop \/ ~HasSlot(p)
     /\ CloseClient(proc[g].has)
     /\ Return(g)
     /\ UNCHANGED <<pool, idle, reaper>>

\* Discard, and the end of a probe.
Discard(g) ==
  /\ proc[g].pc = "using"
  /\ CloseClient(proc[g].has)
  /\ Return(g)
  /\ UNCHANGED <<pool, idle, reaper>>

-------------------------------------------------------------------------------
(* The manager: NewClientPool, Reconfigure, Shutdown.                      *)

Open(p, b) ==
  /\ pool[p].step = "new"
  /\ ClaimBudget(p, Opening[p].account, b, Opening[p].size)
  /\ pool' = [pool EXCEPT ![p].target = Opening[p].account, ![p].budget = b,
                          ![p].step = "steady"]
  /\ UNCHANGED <<proc, conn, idle, expired, reaper>>

\* Reconfigure up to claimBudget.  A target that changed advances the
\* generation; `renew` is a change that leaves the account alone.
Reconfigure(p, s, b, renew) ==
  LET changed == renew \/ s.account # pool[p].target
  IN /\ pool[p].step = "steady"
     /\ changed => pool[p].gen < MaxGen
     /\ ClaimBudget(p, s.account, b, s.size)
     /\ pool' = [pool EXCEPT
                   ![p].target = s.account, ![p].budget = b,
                   ![p].gen = IF changed THEN @ + 1 ELSE @,
                   ![p].step = IF b # pool[p].budget THEN "leaving"
                               ELSE IF changed THEN "draining" ELSE "steady",
                   ![p].left = IF b # pool[p].budget THEN pool[p].budget ELSE None]
     /\ UNCHANGED <<proc, conn, idle, expired, reaper>>

\* A slip: the claim on the new budget goes instead.
LeaveNewBudget(p) ==
  /\ pool[p].step = "leaving"
  /\ DropClaim(p, pool[p].budget)
  /\ pool' = [pool EXCEPT ![p].step = "draining", ![p].left = None]
  /\ UNCHANGED <<proc, conn, idle, expired, reaper>>

\* prev.dropClaim, still under the pool's lock.
LeaveBudget(p) ==
  /\ pool[p].step = "leaving"
  /\ DropClaim(p, pool[p].left)
  /\ pool' = [pool EXCEPT ![p].step = "draining", ![p].left = None]
  /\ UNCHANGED <<proc, conn, idle, expired, reaper>>

\* drainIdle closes what is parked, one connection at a time.
DrainOne(p) ==
  /\ pool[p].step \in {"draining", "stopping"}
  /\ Receive(p)
  /\ CloseClient(Head(idle[p]))
  /\ UNCHANGED <<pool, proc, reaper>>

Reconfigured(p) ==
  /\ pool[p].step = "draining"
  /\ idle[p] = <<>>
  /\ pool' = [pool EXCEPT ![p].step = "steady"]
  /\ UNCHANGED <<budgetVars, proc, conn, idle, expired, reaper>>

\* Shutdown: closed is set under the lock, stopCh is closed outside it.
ShutdownBegin(p) ==
  /\ p \in Closable
  /\ pool[p].step = "steady"
  /\ pool' = [pool EXCEPT ![p].closed = TRUE, ![p].step = "closing"]
  /\ UNCHANGED <<budgetVars, proc, conn, idle, expired, reaper>>

CloseStop(p) ==
  /\ pool[p].step = "closing"
  /\ pool' = [pool EXCEPT ![p].stop = TRUE, ![p].step = "stopping"]
  /\ UNCHANGED <<budgetVars, proc, conn, idle, expired, reaper>>

\* A slip: the claim of a pool that is gone stays.
ShutdownKeepsClaim(p) ==
  /\ pool[p].step = "stopping"
  /\ idle[p] = <<>>
  /\ pool' = [pool EXCEPT ![p].step = "gone"]
  /\ UNCHANGED <<budgetVars, proc, conn, idle, expired, reaper>>

\* The drain found nothing more: the claim goes.
ShutdownEnd(p) ==
  /\ pool[p].step = "stopping"
  /\ idle[p] = <<>>
  /\ DropClaim(p, pool[p].budget)
  /\ pool' = [pool EXCEPT ![p].step = "gone"]
  /\ UNCHANGED <<proc, conn, idle, expired, reaper>>

-------------------------------------------------------------------------------
(* The reaper: every tick it takes as many connections out of the channel  *)
(* as were in it, closes the expired ones and puts the others back.        *)

\* 30 s have passed since r was put back.
Expire(r) ==
  /\ \E p \in Pools : reaper[p].conn = r \/ \E i \in DOMAIN idle[p] : idle[p][i] = r
  /\ r \notin expired
  /\ expired' = expired \cup {r}
  /\ UNCHANGED <<budgetVars, pool, proc, conn, idle, reaper>>

Tick(p) ==
  /\ reaper[p].step = "asleep"
  /\ idle[p] # <<>>
  /\ reaper' = [reaper EXCEPT ![p] = [step |-> "sweep", left |-> Len(idle[p]), conn |-> None]]
  /\ UNCHANGED <<budgetVars, pool, proc, conn, idle, expired>>

\* The reaper of p is done with one of the connections it counted.
DoneWithOne(p) ==
  reaper' = [reaper EXCEPT
    ![p] = IF @.left = 1 THEN Asleep ELSE [step |-> "sweep", left |-> @.left - 1, conn |-> None]]

ReapNone(p) ==
  /\ reaper[p].step = "sweep"
  /\ idle[p] = <<>>
  /\ DoneWithOne(p)
  /\ UNCHANGED <<budgetVars, pool, proc, conn, idle, expired>>

ReapExpired(p) ==
  /\ reaper[p].step = "sweep"
  /\ Receive(p)
  /\ Head(idle[p]) \in expired
  /\ CloseClient(Head(idle[p]))
  /\ DoneWithOne(p)
  /\ UNCHANGED <<pool, proc>>

ReapFresh(p) ==
  /\ reaper[p].step = "sweep"
  /\ Receive(p)
  /\ Head(idle[p]) \notin expired
  /\ reaper' = [reaper EXCEPT ![p].step = "hold", ![p].conn = Head(idle[p])]
  /\ UNCHANGED <<budgetVars, pool, proc, conn, expired>>

\* Putting it back blocks until there is a slot or the pool stops.
PutBack(p) ==
  /\ reaper[p].step = "hold"
  /\ HasSlot(p)
  /\ idle' = [idle EXCEPT ![p] = Append(@, reaper[p].conn)]
  /\ DoneWithOne(p)
  /\ UNCHANGED <<budgetVars, pool, proc, conn, expired>>

\* A slip: the reaper stops and drops what it holds.
StopHoldingDrops(p) ==
  /\ reaper[p].step = "hold"
  /\ pool[p].stop
  /\ reaper' = [reaper EXCEPT ![p] = [Asleep EXCEPT !.step = "dead"]]
  /\ UNCHANGED <<budgetVars, pool, proc, conn, idle, expired>>

StopHolding(p) ==
  /\ reaper[p].step = "hold"
  /\ pool[p].stop
  /\ CloseClient(reaper[p].conn)
  /\ reaper' = [reaper EXCEPT ![p] = [Asleep EXCEPT !.step = "dead"]]
  /\ UNCHANGED <<pool, proc, idle>>

StopAsleep(p) ==
  /\ reaper[p].step = "asleep"
  /\ pool[p].stop
  /\ reaper' = [reaper EXCEPT ![p].step = "dead"]
  /\ UNCHANGED <<budgetVars, pool, proc, conn, idle, expired>>

\* The registry forgets an object nothing references (ConnBudget).
RetireBudget(b) == Retire(b) /\ UNCHANGED poolVars
-------------------------------------------------------------------------------
(* The specification.                                                      *)

\* What goroutine g does of its own accord once it is in a call.
Proceed(g) ==
  \/ CheckClosed(g) \/ TakeIdle(g) \/ NothingIdle(g)
  \/ Checkout(g) \/ RejectIdle(g)
  \/ Snapshot(g) \/ NoPermit(g) \/ ReadBudget(g)
  \/ \E r \in Requests : TryPermit(g, r) \/ Enqueue(g, r)
  \/ Granted(g) \/ DialOK(g) \/ DialFailed(g)

\* The caller is done with the connection.
Finish(g) == Put(g) \/ Park(g) \/ CloseInstead(g) \/ Discard(g)

\* The caller's context ends.
GiveUp(g) == EndLook(g) \/ EndWait(g)

Goroutine(g) ==
  \/ \E p \in Pools, kind \in Kinds : Call(g, p, kind)
  \/ Proceed(g) \/ TakeIdleInstead(g) \/ Finish(g) \/ GiveUp(g)

Reload(p) ==
  \/ \E b \in Budgets : Open(p, b)
  \/ \E s \in Later[p], b \in Budgets, renew \in BOOLEAN : Reconfigure(p, s, b, renew)
  \/ LeaveBudget(p) \/ DrainOne(p) \/ Reconfigured(p)
  \/ ShutdownBegin(p) \/ CloseStop(p) \/ ShutdownEnd(p)

Reap(p) ==
  \/ Tick(p) \/ ReapNone(p) \/ ReapExpired(p) \/ ReapFresh(p)
  \/ PutBack(p) \/ StopHolding(p) \/ StopAsleep(p)

PoolNext ==
  \/ \E g \in Procs : Goroutine(g)
  \/ \E p \in Pools : Reload(p) \/ Reap(p)
  \/ \E r \in Requests : Expire(r)
  \/ \E b \in Created : RetireBudget(b)

PoolSpec == PoolInit /\ [][PoolNext]_vars

\* Goroutines run, users bring connections back, a reload that began goes on,
\* tickers tick.  Contexts need not end and nobody need call.  A channel hands
\* a value to the receiver that has blocked longest, so a Get blocked on the
\* idle channel is not passed over for ever: its arm is strongly fair.
FairPoolSpec ==
  /\ PoolSpec
  /\ \A g \in Procs : /\ WF_vars(Proceed(g))
                      /\ WF_vars(Finish(g))
                      /\ SF_vars(TakeIdleInstead(g))
  /\ \A p \in Pools : /\ WF_vars(Reap(p))
                      /\ WF_vars(LeaveBudget(p) \/ DrainOne(p) \/ Reconfigured(p)
                                  \/ CloseStop(p) \/ ShutdownEnd(p))
  /\ \A r \in Requests : WF_vars(Expire(r))

-------------------------------------------------------------------------------
(* Properties.                                                             *)

Steps == {"new", "steady", "leaving", "draining", "closing", "stopping", "gone"}
PCs == {"out", "head", "look", "vet", "snap", "try", "again", "wait", "blocked",
        "dial", "redial", "using", "put"}

PoolTypeOK ==
  /\ pool \in [Pools -> [target : Accounts \cup {None}, budget : Budgets \cup {None},
                         gen : 0..MaxGen, closed : BOOLEAN, stop : BOOLEAN,
                         step : Steps, left : Budgets \cup {None}]]
  /\ proc \in [Procs -> [pc : PCs, at : Pools \cup {None}, kind : Kinds \cup {None},
                         has : Requests \cup {None}, budget : Budgets \cup {None},
                         account : Accounts \cup {None}, gen : 0..MaxGen]]
  /\ conn \in [Requests -> [gen : 0..MaxGen, account : Accounts \cup {None}]]
  /\ idle \in [Pools -> Seq(Requests)]
  /\ expired \subseteq Requests
  /\ reaper \in [Pools -> [step : {"asleep", "sweep", "hold", "dead"}, left : Nat,
                           conn : Requests \cup {None}]]

\* The places a request can be: a goroutine's hands, a slot of an idle channel,
\* a reaper's hands.
Places(r) ==
  {<<"proc", g>> : g \in {h \in Procs : proc[h].has = r}}
    \cup {<<"reaper", p>> : p \in {q \in Pools : reaper[q].conn = r}}
    \cup UNION {{<<"idle", p, i>> : i \in {j \in DOMAIN idle[p] : idle[p][j] = r}} : p \in Pools}

\* A permit out, or a place in a queue, belongs to exactly one holder, and no
\* holder has a connection whose permit went back: no connection is handed to
\* two fetches, none is parked and used, none is dropped with its permit still
\* counted (pool.go:212-226).
OneOwner ==
  \A r \in Requests : Cardinality(Places(r)) = IF permit[r] = "free" THEN 0 ELSE 1

\* A pool that is not shut down has its claim on the budget it dials under,
\* which is the one registered for its account, and on no other unless a
\* Reconfigure is just leaving it; one that is shut down has none left
\* (pool.go:95-103, 680-683).
ClaimFollowsPool ==
  \A p \in Pools, b \in Budgets :
    claims[b][p] # NoClaim <=>
      /\ pool[p].step \notin {"new", "gone"}
      /\ b \in {pool[p].budget, pool[p].left}

DialsRegistered ==
  \A p \in Pools : pool[p].step \notin {"new", "gone"} =>
                     registry[pool[p].target] = pool[p].budget

\* "dialing the old target under the old permit is still consistent"
\* (pool.go:450-453): whoever dialed, a connection holds a permit of the
\* account it is connected to.
PermitMatchesAccount ==
  \A r \in Requests : conn[r].account # None => key[under[r]] = conn[r].account

\* "shutdown raced with Put; close and return the permit" (pool.go:519-521):
\* once Shutdown returned and nobody is putting a connection back any more,
\* nothing is parked in the pool.
ShutdownLeavesNothing ==
  \A p \in Pools :
    /\ pool[p].step = "gone"
    /\ reaper[p].step = "dead"
    /\ \A g \in Procs : proc[g].at # p
    => idle[p] = <<>>

\* "A pool that has been torn down must not dial" (pool.go:15-18).
NoDialAfterShutdown ==
  [][\A g \in Procs :
       ~Dialing(g) /\ Dialing(g)' => pool[proc[g].at].step # "gone"]_vars

\* No new calls are made any more.  (While they are, a pool that never lets its
\* connections go idle for 30 s keeps the account's permits from the others.)
Quiet == <>[][\A g \in Procs, p \in Pools, kind \in Kinds : ~Call(g, p, kind)]_vars

\* A Get or Probe that blocks is not left behind: once the traffic calms down it
\* gets a permit or a connection that someone brings back, even where the
\* account's connections are parked in another pool (pool.go:386-387, 536-568).
NoGetStranded == Quiet => \A g \in Procs : proc[g].pc = "blocked" ~> proc[g].pc # "blocked"

\* A connection dialed before a re-point is closed in the end, whichever way it
\* slipped past the drain (pool.go:82-86).
StaleConnectionsClose ==
  \A p \in Pools, r \in Requests :
    (\E i \in DOMAIN idle[p] : idle[p][i] = r /\ ~Current(p, r)) ~> conn[r] = NoConn

\* The pools use the budgets as budget.go means them to be used.
KeepsBudgetSpec == BudgetSpec
===============================================================================
