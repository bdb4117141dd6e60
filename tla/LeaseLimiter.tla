----------------------------- MODULE LeaseLimiter -----------------------------
(***************************************************************************)
(* The caps on a stream's connections (pkg/usenet/pool/leaselimit.go) and  *)
(* the way of a call through them (getConnection in pool.go).              *)
(*                                                                         *)
(* A stream's limiter has a limit and a semaphore for each provider it     *)
(* caps.  A semaphore is a buffered channel: a permit is a value in it,    *)
(* and who finds it full is in its queue of senders.  A call holds the     *)
(* channel it found, and gives its permit back to that one; a change of    *)
(* limits replaces the channel under those who hold or want its permits.   *)
(*                                                                         *)
(* A provider's client pool is the number of its free connections.         *)
(***************************************************************************)
EXTENDS Integers, Sequences, SequencesExt, FiniteSets

CONSTANTS Streams, Providers, Calls,
          Order,      \* the providers as a view lists them
          Channels,   \* what make(chan) can return
          Settings,   \* the limits a stream may be given: functions on Providers, 0 for none
          Slots,      \* the connections of each provider
          MaxChanges, \* bound on the changes of limits
          None

ASSUME LeaseAssumption ==
  /\ IsFiniteSet(Calls)
  /\ Order \in Seq(Providers) /\ Order # <<>>
  /\ Settings \subseteq [Providers -> Nat]
  /\ Slots \in [Providers -> Nat \ {0}] /\ MaxChanges \in Nat
  /\ None \notin Channels /\ None \notin Providers

VARIABLES
  limits,  \* of each stream's limiter, by provider
  permits, \* the limiter's semaphores: a channel or None
  size, taken, queue, \* of each channel its capacity, the permits taken, who waits to send
  views,   \* of each stream the kinds of view that exist, with a limiter or without
  call,    \* of each caller, where in getConnection it is and what it has
  free,    \* of each provider, the connections nobody has
  changes

chanVars == <<size, taken, queue>>
vars == <<limits, permits, chanVars, views, call, free, changes>>

Uncapped == [p \in Providers |-> 0]
Resting == [pc |-> "off", stream |-> None, limited |-> FALSE, pass |-> 1, at |-> 1,
            capped |-> None, last |-> FALSE, with |-> None, under |-> None]

LeaseInit ==
  /\ limits = [s \in Streams |-> Uncapped]
  /\ permits = [s \in Streams |-> [p \in Providers |-> None]]
  /\ size = [x \in Channels |-> 0]
  /\ taken = [x \in Channels |-> 0]
  /\ queue = [x \in Channels |-> <<>>]
  /\ views = [s \in Streams |-> {}]
  /\ call = [g \in Calls |-> Resting]
  /\ free = Slots
  /\ changes = 0

-------------------------------------------------------------------------------
(* A view for a stream. *)

\* A slip: a limit that changed keeps its semaphore.
ApplyLimitsKeeps(s, wanted) ==
  /\ limits' = [limits EXCEPT ![s] = wanted]
  /\ permits' = [permits EXCEPT ![s] =
                   [p \in Providers |-> IF wanted[p] > 0 THEN @[p] ELSE None]]

\* A provider whose limit changed, or went, loses its semaphore.
ApplyLimits(s, wanted) ==
  /\ limits' = [limits EXCEPT ![s] = wanted]
  /\ permits' = [permits EXCEPT ![s] =
                   [p \in Providers |-> IF wanted[p] = limits[s][p] THEN @[p] ELSE None]]

\* The views of a stream share its limiter, which is there for good once it had limits; a
\* view cut when the stream has none is without.
SubsetForLease(s, wanted) ==
  /\ changes < MaxChanges /\ changes' = changes + 1
  /\ IF wanted = Uncapped
       THEN views' = [views EXCEPT ![s] = @ \union {"free"}] /\ UNCHANGED <<limits, permits>>
       ELSE views' = [views EXCEPT ![s] = @ \union {"limited"}] /\ ApplyLimits(s, wanted)
  /\ UNCHANGED <<chanVars, call, free>>

-------------------------------------------------------------------------------
(* The semaphores. *)

At(g, pc) == call[g].pc = pc
Sets(g, r) == call' = [call EXCEPT ![g] = r]

\* Nobody refers to the channel.
Unused(x) == /\ \A s \in Streams, p \in Providers : permits[s][p] # x
             /\ \A g \in Calls : call[g].under # x

\* A slip: the channel that is made is not put into the map.
MakeUnkept(s, p, x) ==
  /\ size' = [size EXCEPT ![x] = limits[s][p]]
  /\ taken' = [taken EXCEPT ![x] = 0]
  /\ queue' = [queue EXCEPT ![x] = <<>>]
  /\ UNCHANGED permits

Make(s, p, x) ==
  /\ size' = [size EXCEPT ![x] = limits[s][p]]
  /\ taken' = [taken EXCEPT ![x] = 0]
  /\ queue' = [queue EXCEPT ![x] = <<>>]
  /\ permits' = [permits EXCEPT ![s][p] = x]

\* The call g looks up the semaphore of provider p for its stream, which makes one if the
\* provider is capped and has none, and goes on to pc with it; uncapped, it needs no permit.
Semaphore(g, p, pc) ==
  LET s == call[g].stream
      r == [call[g] EXCEPT !.with = p]
      capped == call[g].limited /\ limits[s][p] > 0
  IN \/ /\ ~capped
        /\ Sets(g, [r EXCEPT !.pc = "get"])
        /\ UNCHANGED <<permits, chanVars>>
     \/ /\ capped /\ permits[s][p] # None
        /\ Sets(g, [r EXCEPT !.pc = pc, !.under = permits[s][p]])
        /\ UNCHANGED <<permits, chanVars>>
     \/ /\ capped /\ permits[s][p] = None /\ \E x \in Channels : Unused(x)
        /\ LET x == CHOOSE x \in Channels : Unused(x)
           IN Make(s, p, x) /\ Sets(g, [r EXCEPT !.pc = pc, !.under = x])

HasRoom(x) == taken[x] < size[x]
Take(x) == taken' = [taken EXCEPT ![x] = @ + 1] /\ UNCHANGED <<size, queue>>

\* A slip: nobody who waits is woken.
ReleaseUnseen(g, r) ==
  LET x == call[g].under
  IN /\ Sets(g, r) /\ UNCHANGED <<size, queue>>
     /\ taken' = IF x = None THEN taken ELSE [taken EXCEPT ![x] = @ - 1]

\* A slip: the permit goes to the semaphore in force, not to the one it is of.
ReleaseCurrent(g, r) ==
  LET x == IF call[g].under = None THEN None ELSE permits[call[g].stream][call[g].with]
  IN /\ Sets(g, r) /\ UNCHANGED <<size, queue>>
     /\ taken' = IF x = None \/ taken[x] = 0 THEN taken ELSE [taken EXCEPT ![x] = @ - 1]

\* The call g gives its permit, if it has one, back to the channel it is of, which passes it
\* to the first who waits there, and is r from then on.
Release(g, r) ==
  LET x == call[g].under
  IN \/ x = None /\ Sets(g, r) /\ UNCHANGED chanVars
     \/ /\ x # None /\ queue[x] = <<>>
        /\ Sets(g, r)
        /\ taken' = [taken EXCEPT ![x] = @ - 1] /\ UNCHANGED <<size, queue>>
     \/ /\ x # None /\ queue[x] # <<>>
        /\ LET next == Head(queue[x])
           IN call' = [call EXCEPT ![g] = r, ![next] = [@ EXCEPT !.pc = "get"]]
        /\ queue' = [queue EXCEPT ![x] = Tail(@)] /\ UNCHANGED <<size, taken>>

-------------------------------------------------------------------------------
(* getConnection: healthy providers first, then benched ones, then the first that was *)
(* passed over because the stream is at its cap.                                      *)

Begin(g, s, kind) ==
  /\ At(g, "off") /\ kind \in views[s]
  /\ Sets(g, [Resting EXCEPT !.pc = "look", !.stream = s, !.limited = kind = "limited"])
  /\ UNCHANGED <<limits, permits, chanVars, views, free, changes>>

\* To the next provider, the second pass, the one passed over, or out with nothing.
Onward(r) ==
  LET s == [r EXCEPT !.under = None, !.with = None]
  IN IF r.last THEN Resting
     ELSE IF r.at < Len(Order) THEN [s EXCEPT !.pc = "look", !.at = @ + 1]
     ELSE IF r.pass = 1 THEN [s EXCEPT !.pc = "look", !.at = 1, !.pass = 2]
     ELSE IF r.capped # None THEN [s EXCEPT !.pc = "ask", !.last = TRUE]
     ELSE Resting

\* Excluded, of the other tier, or in the other pass as far as its bench goes.
Skip(g) ==
  /\ At(g, "look") /\ Sets(g, Onward(call[g]))
  /\ UNCHANGED <<limits, permits, chanVars, views, free, changes>>

TryPermit(g) ==
  /\ At(g, "look") /\ Semaphore(g, Order[call[g].at], "try")
  /\ UNCHANGED <<limits, views, free, changes>>

Permitted(g) ==
  /\ At(g, "try") /\ HasRoom(call[g].under)
  /\ Take(call[g].under) /\ Sets(g, [call[g] EXCEPT !.pc = "get"])
  /\ UNCHANGED <<limits, permits, views, free, changes>>

\* At the cap: the first such provider is remembered.
CappedOut(g) ==
  /\ At(g, "try") /\ ~HasRoom(call[g].under)
  /\ Sets(g, Onward([call[g] EXCEPT !.capped = IF @ = None THEN call[g].with ELSE @]))
  /\ UNCHANGED <<limits, permits, chanVars, views, free, changes>>

AskPermit(g) ==
  /\ At(g, "ask") /\ Semaphore(g, call[g].capped, "wait")
  /\ UNCHANGED <<limits, views, free, changes>>

\* The select of acquire, when it need not block and when it must.
PermittedLate(g) ==
  /\ At(g, "wait") /\ HasRoom(call[g].under)
  /\ Take(call[g].under) /\ Sets(g, [call[g] EXCEPT !.pc = "get"])
  /\ UNCHANGED <<limits, permits, views, free, changes>>

Queues(g) ==
  /\ At(g, "wait") /\ ~HasRoom(call[g].under)
  /\ queue' = [queue EXCEPT ![call[g].under] = Append(@, g)]
  /\ Sets(g, [call[g] EXCEPT !.pc = "queued"])
  /\ UNCHANGED <<limits, permits, size, taken, views, free, changes>>

\* The context ends while the call waits for a permit.
GiveUp(g) ==
  /\ \/ At(g, "wait") /\ UNCHANGED queue
     \/ /\ At(g, "queued")
        /\ \E i \in DOMAIN queue[call[g].under] :
             /\ queue[call[g].under][i] = g
             /\ queue' = [queue EXCEPT ![call[g].under] = RemoveAt(@, i)]
  /\ Sets(g, Resting)
  /\ UNCHANGED <<limits, permits, size, taken, views, free, changes>>

Connect(g) ==
  /\ At(g, "get") /\ free[call[g].with] > 0
  /\ free' = [free EXCEPT ![call[g].with] = @ - 1]
  /\ Sets(g, [call[g] EXCEPT !.pc = "use"])
  /\ UNCHANGED <<limits, permits, chanVars, views, changes>>

\* No connection comes: the provider fails, or the caller's context has ended.
Refused(g) ==
  /\ At(g, "get") /\ Release(g, Onward(call[g]))
  /\ UNCHANGED <<limits, permits, views, free, changes>>

Canceled(g) ==
  /\ At(g, "get") /\ Release(g, Resting)
  /\ UNCHANGED <<limits, permits, views, free, changes>>

\* release and discard: the connection goes, then the permit, once.
Return(g) ==
  /\ At(g, "use") /\ Release(g, Resting)
  /\ free' = [free EXCEPT ![call[g].with] = @ + 1]
  /\ UNCHANGED <<limits, permits, views, changes>>

Walk(g) == \/ Skip(g) \/ TryPermit(g) \/ Permitted(g) \/ CappedOut(g)
           \/ AskPermit(g) \/ PermittedLate(g) \/ Queues(g)

LeaseNext ==
  \/ \E s \in Streams, wanted \in Settings : SubsetForLease(s, wanted)
  \/ \E g \in Calls, s \in Streams, kind \in {"limited", "free"} : Begin(g, s, kind)
  \/ \E g \in Calls : \/ Walk(g) \/ GiveUp(g) \/ Connect(g) \/ Refused(g) \/ Canceled(g)
                      \/ Return(g)

LeaseSpec == LeaseInit /\ [][LeaseNext]_vars

\* A call goes on, who has a connection brings it back, and a client pool serves the Get that
\* waits longest.  Channels serve in turn by themselves; no context need end.
FairLeaseSpec ==
  LeaseSpec /\ \A g \in Calls : WF_vars(Walk(g)) /\ WF_vars(Return(g)) /\ SF_vars(Connect(g))

-------------------------------------------------------------------------------
(* Properties. *)

Holders(x) == {g \in Calls : call[g].under = x /\ call[g].pc \in {"get", "use"}}

CallRecords ==
  [pc : {"off", "look", "try", "ask", "wait", "queued", "get", "use"},
   stream : Streams \union {None}, limited : BOOLEAN, pass : {1, 2}, at : 1 .. Len(Order),
   capped : Providers \union {None}, last : BOOLEAN, with : Providers \union {None},
   under : Channels \union {None}]

LeaseTypeOK ==
  /\ limits \in [Streams -> [Providers -> Nat]]
  /\ permits \in [Streams -> [Providers -> Channels \union {None}]]
  /\ size \in [Channels -> Nat] /\ taken \in [Channels -> Nat]
  /\ queue \in [Channels -> Seq(Calls)]
  /\ views \in [Streams -> SUBSET {"limited", "free"}]
  /\ call \in [Calls -> CallRecords]
  /\ free \in [Providers -> Nat] /\ changes \in Nat

\* A channel has as many permits out as calls hold of it, whether or not it was replaced since:
\* no way out of getConnection keeps a permit, and none goes back to a channel it is not of.
PermitsCounted == \A x \in Channels : taken[x] = Cardinality(Holders(x))

\* Of the semaphore in force a stream never holds more permits than its limit now says: what it
\* has beyond that it was given by one that was replaced (leaselimit.go, applyLimits).
CapHolds ==
  \A s \in Streams, p \in Providers :
    permits[s][p] # None => Cardinality(Holders(permits[s][p])) <= limits[s][p]

\* More calls of the views with a limiter are past the cap of a provider than its limit.
Over(s, p) ==
  /\ limits[s][p] > 0
  /\ Cardinality({g \in Calls : /\ call[g].limited /\ call[g].stream = s /\ call[g].with = p
                                /\ call[g].pc \in {"get", "use"}}) > limits[s][p]

\* A change of limits "costs a brief overshoot rather than a leak" (leaselimit.go, applyLimits).
OvershootEnds == \A s \in Streams, p \in Providers : Over(s, p) ~> ~Over(s, p)

\* Who asks for a connection gets one or an answer, although calls wait for permits that are
\* held by calls that wait for connections, and for permits of channels that were replaced.
ConnectionsCome == \A g \in Calls : call[g].pc \notin {"off", "use"} ~> call[g].pc \in {"off", "use"}

\* "A config change takes effect for connections taken from then on" (leaselimit.go, limiter):
\* whoever waited for a permit gets one of the semaphore in force.
WaitersMoveOn ==
  [][\A g \in Calls :
       At(g, "queued") /\ call'[g].pc = "get" =>
         permits[call[g].stream][call[g].with] = call[g].under]_vars
===============================================================================
