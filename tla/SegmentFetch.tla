----------------------------- MODULE SegmentFetch ------------------------------
(***************************************************************************)
(* Fetching an article through a view (pkg/usenet/pool/pool.go,            *)
(* FetchSegment and what it calls).                                        *)
(*                                                                         *)
(* A fetch walks the primaries, benched ones last, in rounds, then the     *)
(* backup tier once.  What it learns is shared: concurrent fetches of one  *)
(* article ride on one flight whatever their views; a body goes to the     *)
(* segment cache; an article every provider refused is marked missing for  *)
(* that provider set.  Meanwhile reloads replace the providers, and        *)
(* benches come and go.                                                    *)
(*                                                                         *)
(* A connection either comes, is refused or rejected at login, or the      *)
(* caller's context ends; connection permits are ConnBudget's business.    *)
(* said, gave, tried, passed and proved are history: the providers that    *)
(* refused the article, failed on it, were asked or not reached, were      *)
(* passed over as benched, and the IDs the article was proved missing for. *)
(***************************************************************************)
EXTENDS ProviderViews, Functions

CONSTANTS Fetchers,       \* goroutines that call FetchSegment
          Articles,       \* message IDs
          Connects,       \* subset of {"ok", "refused", "rejected", "canceled"}
          Replies,        \* subset of {"body", "missing", "broken"}
          BenchAfter,     \* providerCooloff430Threshold
          ForgiveAfter,   \* consecutive successes that end a cooloff
          MinAttempts,    \* rounds a fetch makes at least: 3 in the code
          None

ASSUME FetchAssumption ==
  /\ Connects \subseteq {"ok", "refused", "rejected", "canceled"}
  /\ Replies \subseteq {"body", "missing", "broken"}
  /\ {BenchAfter, ForgiveAfter, MinAttempts} \subseteq Nat \ {0}
  /\ None \notin Fetchers \cup Providers
  /\ None \notin {"body", "missing", "error"}

VARIABLES fetch,    \* fetch[g]: where g's call stands, and its locals
          flight,   \* flight[m]: the goroutine whose fetch of m others join
          cached,   \* articles in the segment cache
          missing,  \* markers: provider signature and article, each mapped to
                    \* the IDs it was proved for and who refused it (history)
          record,   \* record[v][i]: view v's 430 and success counts and cooloff
          blocked   \* IDs whose credentials the health registry holds rejected

fetchVars == <<fetch, flight, cached, missing, record, blocked>>
vars == <<viewVars, fetchVars>>

NoFetch == [pc |-> "out", view |-> None, article |-> None, tier |-> "primary",
            attempt |-> 0, primaries |-> 0, exclude |-> {}, attempted |-> {},
            list |-> <<>>, pass |-> 1, pos |-> 1, notFound |-> FALSE, other |-> FALSE,
            result |-> None, said |-> {}, gave |-> {}, tried |-> {}, passed |-> {}, proved |-> {}]
Clean == [refused |-> 0, served |-> 0, cooling |-> FALSE]

FetchInit ==
  /\ ViewsInit
  /\ fetch = [g \in Fetchers |-> NoFetch]
  /\ flight = [m \in Articles |-> None]
  /\ cached = {}
  /\ missing = <<>>
  /\ record = [v \in Views |-> [i \in Ids |-> Clean]]
  /\ blocked = {}

List(g) == view[fetch[g].view].list
Signature(list) == [k \in DOMAIN list |-> IdOf[list[k]]]

\* missingKey: the marker of the view's set as it is now.
MissingKey(g) == <<Signature(List(g)), fetch[g].article>>

Benched(v, i) == record[v][i].cooling \/ i \in blocked

Go(g, pc) == fetch' = [fetch EXCEPT ![g].pc = pc]

\* The flight of g is over: everyone who joined it gets its answer.
Finish(g, result, said) ==
  LET m == fetch[g].article
      aboard(h) == h = g \/ (fetch[h].pc = "joined" /\ fetch[h].article = m)
  IN /\ fetch' = [h \in Fetchers |->
                    IF aboard(h) THEN [NoFetch EXCEPT !.pc = "done", !.view = fetch[h].view,
                                         !.article = m, !.result = result, !.said = said,
                                         !.gave = fetch[g].gave]
                    ELSE fetch[h]]
     /\ flight' = [flight EXCEPT ![m] = None]

-------------------------------------------------------------------------------
(* The way in: flight, marker, cache.                                      *)

FetchSegment(g, v, m) ==
  /\ fetch[g].pc = "out"
  /\ v \in Live
  /\ fetch' = [fetch EXCEPT ![g] = [NoFetch EXCEPT
                 !.pc = IF flight[m] = None THEN "check" ELSE "joined", !.view = v, !.article = m]]
  /\ flight' = [flight EXCEPT ![m] = IF @ = None THEN g ELSE @]
  /\ UNCHANGED <<viewVars, cached, missing, record, blocked>>

CheckMissing(g) ==
  /\ fetch[g].pc = "check"
  /\ IF MissingKey(g) \in DOMAIN missing
     THEN Finish(g, "missing", missing[MissingKey(g)].by)
     ELSE Go(g, "lookup") /\ UNCHANGED flight
  /\ UNCHANGED <<viewVars, cached, missing, record, blocked>>

CheckCache(g) ==
  /\ fetch[g].pc = "lookup"
  /\ IF fetch[g].article \in cached
     THEN Finish(g, "body", {})
     ELSE Go(g, "count") /\ UNCHANGED flight
  /\ UNCHANGED <<viewVars, cached, missing, record, blocked>>

CountPrimaries(g) ==
  /\ fetch[g].pc = "count"
  /\ fetch' = [fetch EXCEPT
       ![g].pc = "round",
       ![g].primaries = Cardinality(Primaries(List(g)))]
  /\ UNCHANGED <<viewVars, flight, cached, missing, record, blocked>>

-------------------------------------------------------------------------------
(* getConnection: two passes over a snapshot of the providers, the second  *)
(* for those benched.                                                      *)

\* A slip: one round for each primary but the last.
RoundsTooFew(g) == fetch[g].primaries - 1

Rounds(g) == IF fetch[g].primaries < MinAttempts THEN MinAttempts ELSE fetch[g].primaries

\* The primaries' rounds; the backup tier is walked without a bound.
NextRound(g) ==
  /\ fetch[g].pc = "round"
  /\ fetch' = [fetch EXCEPT ![g] =
       IF fetch[g].tier = "primary" /\ fetch[g].attempt = Rounds(g)
       THEN [@ EXCEPT !.pc = "backups"]
       ELSE [@ EXCEPT !.pc = "pick", !.list = List(g), !.pass = 1, !.pos = 1]]
  /\ UNCHANGED <<viewVars, flight, cached, missing, record, blocked>>

Candidate(g) == fetch[g].list[fetch[g].pos]

Picking(g) == fetch[g].pc = "pick" /\ fetch[g].pos <= Len(fetch[g].list)

\* The provider of the other tier, the excluded one, and the one whose bench
\* does not fit the pass.
Eligible(g) ==
  LET p == Candidate(g)
  IN /\ IdOf[p] \notin fetch[g].exclude
     /\ InReserve(fetch[g].list, p) <=> fetch[g].tier = "backup"
     /\ Benched(fetch[g].view, IdOf[p]) <=> fetch[g].pass = 2

Skip(g) ==
  /\ Picking(g)
  /\ ~Eligible(g)
  /\ fetch' = [fetch EXCEPT
       ![g].pos = @ + 1,
       ![g].passed = IF fetch[g].pass = 1 /\ Benched(fetch[g].view, IdOf[Candidate(g)])
                     THEN @ \cup {Candidate(g)} ELSE @]
  /\ UNCHANGED <<viewVars, flight, cached, missing, record, blocked>>

\* TryGet, then Get.  A login that works clears the health verdict, one that is
\* rejected sets it; a parked connection says nothing.
Connect(g) ==
  /\ Picking(g)
  /\ Eligible(g)
  /\ "ok" \in Connects
  /\ fetch' = [fetch EXCEPT ![g].pc = "ask", ![g].tried = @ \cup {Candidate(g)},
                            ![g].attempted = @ \cup {IdOf[Candidate(g)]}]
  /\ blocked' \in {blocked, blocked \ {IdOf[Candidate(g)]}}
  /\ UNCHANGED <<viewVars, flight, cached, missing, record>>

ConnectFails(g) ==
  /\ Picking(g)
  /\ Eligible(g)
  /\ \/ "refused" \in Connects /\ UNCHANGED blocked
     \/ "rejected" \in Connects /\ blocked' = blocked \cup {IdOf[Candidate(g)]}
  /\ fetch' = [fetch EXCEPT ![g].pos = @ + 1, ![g].tried = @ \cup {Candidate(g)}]
  /\ UNCHANGED <<viewVars, flight, cached, missing, record>>

\* The context was canceled while waiting for a connection: the primaries' walk
\* returns the error at once, the backups' walk ends.
Canceled(g) ==
  /\ Picking(g)
  /\ Eligible(g)
  /\ "canceled" \in Connects
  /\ IF fetch[g].tier = "primary" THEN Finish(g, "error", {})
     ELSE /\ fetch' = [fetch EXCEPT ![g].pc = "verdict", ![g].other = TRUE]
          /\ UNCHANGED flight
  /\ UNCHANGED <<viewVars, cached, missing, record, blocked>>

SecondPass(g) ==
  /\ fetch[g].pc = "pick"
  /\ fetch[g].pass = 1
  /\ fetch[g].pos > Len(fetch[g].list)
  /\ fetch' = [fetch EXCEPT ![g].pass = 2, ![g].pos = 1]
  /\ UNCHANGED <<viewVars, flight, cached, missing, record, blocked>>

\* A slip: primaries that refused the article are asked for ever.
NoConnectionForgets(g) ==
  /\ fetch[g].pc = "pick"
  /\ fetch[g].pass = 2
  /\ fetch[g].pos > Len(fetch[g].list)
  /\ fetch' = [fetch EXCEPT ![g] =
       IF @.tier = "backup" THEN [@ EXCEPT !.pc = "verdict"]
       ELSE [@ EXCEPT !.pc = "round", !.exclude = {}]]
  /\ UNCHANGED <<viewVars, flight, cached, missing, record, blocked>>

\* ErrNoProvidersAvailable.  Primaries that all refused the article are done;
\* others get another round; the backups' walk ends.
NoConnection(g) ==
  /\ fetch[g].pc = "pick"
  /\ fetch[g].pass = 2
  /\ fetch[g].pos > Len(fetch[g].list)
  /\ fetch' = [fetch EXCEPT ![g] =
       CASE @.tier = "backup" -> [@ EXCEPT !.pc = "verdict"]
         [] @.tier = "primary" /\ @.exclude # {} /\ ~(/\ @.notFound /\ ~@.other /\ @.primaries > 0
                                                     /\ Cardinality(@.exclude) >= @.primaries) ->
              [@ EXCEPT !.pc = "round", !.exclude = {}, !.attempt = fetch[g].attempt + 1]
         [] OTHER -> [@ EXCEPT !.pc = "backups"]]
  /\ UNCHANGED <<viewVars, flight, cached, missing, record, blocked>>

-------------------------------------------------------------------------------
(* The answers, and what the view remembers of them.                       *)

AtMost(n, bound) == IF n > bound THEN bound ELSE n

\* record430Error; counts above the threshold they are compared with are alike.
Record430(v, i) ==
  LET n == AtMost(record[v][i].refused + 1, BenchAfter)
  IN record' = [record EXCEPT ![v][i] =
                  [refused |-> n, served |-> 0, cooling |-> @.cooling \/ n = BenchAfter]]

RecordSuccess(v, i) ==
  LET n == AtMost(record[v][i].served + 1, ForgiveAfter)
  IN record' = [record EXCEPT ![v][i] =
                  IF n = ForgiveAfter THEN [Clean EXCEPT !.served = n] ELSE [@ EXCEPT !.served = n]]

\* The tier goes on without the provider just asked.
Onward(f, id) ==
  [f EXCEPT !.pc = "round", !.exclude = @ \cup {id},
            !.attempt = IF f.tier = "primary" THEN @ + 1 ELSE @]

Served(g) ==
  /\ fetch[g].pc = "ask"
  /\ "body" \in Replies
  /\ RecordSuccess(fetch[g].view, IdOf[Candidate(g)])
  /\ Go(g, "store")
  /\ UNCHANGED <<viewVars, flight, cached, missing, blocked>>

Refused(g) ==
  LET p == Candidate(g)
  IN /\ fetch[g].pc = "ask"
     /\ "missing" \in Replies
     /\ Record430(fetch[g].view, IdOf[p])
     /\ fetch' = [fetch EXCEPT ![g] =
          [Onward(fetch[g], IdOf[p]) EXCEPT !.notFound = TRUE, !.said = @ \cup {p}]]
     /\ UNCHANGED <<viewVars, flight, cached, missing, blocked>>

\* A slip: a weaker failure is not remembered.
BrokenForgets(g) ==
  LET p == Candidate(g)
  IN /\ fetch[g].pc = "ask"
     /\ "broken" \in Replies
     /\ fetch' = [fetch EXCEPT ![g] = [Onward(fetch[g], IdOf[p]) EXCEPT !.gave = @ \cup {p}]]
     /\ UNCHANGED <<viewVars, flight, cached, missing, record, blocked>>

Broken(g) ==
  LET p == Candidate(g)
  IN /\ fetch[g].pc = "ask"
     /\ "broken" \in Replies
     /\ fetch' = [fetch EXCEPT ![g] =
          [Onward(fetch[g], IdOf[p]) EXCEPT !.other = TRUE, !.gave = @ \cup {p}]]
     /\ UNCHANGED <<viewVars, flight, cached, missing, record, blocked>>

\* fetchFromBackups, in a view that has any.
Backup(g) ==
  /\ fetch[g].pc = "backups"
  /\ fetch' = [fetch EXCEPT ![g] =
       IF \E p \in Range(List(g)) : InReserve(List(g), p)
       THEN [@ EXCEPT !.pc = "round", !.tier = "backup", !.exclude = {}]
       ELSE [@ EXCEPT !.pc = "verdict"]]
  /\ UNCHANGED <<viewVars, flight, cached, missing, record, blocked>>

\* storeFetched: a fetch that outlived its caller caches nothing.
Store(g) ==
  /\ fetch[g].pc = "store"
  /\ \/ /\ cached' = cached \cup {fetch[g].article}
        /\ Go(g, "clear")
        /\ UNCHANGED flight
     \/ /\ "canceled" \in Connects
        /\ Finish(g, "error", {})
        /\ UNCHANGED cached
  /\ UNCHANGED <<viewVars, missing, record, blocked>>

ClearMissing(g) ==
  /\ fetch[g].pc = "clear"
  /\ missing' = Restrict(missing, DOMAIN missing \ {MissingKey(g)})
  /\ Finish(g, "body", {})
  /\ UNCHANGED <<viewVars, cached, record, blocked>>

AttemptedAll(g) ==
  /\ List(g) # <<>>
  /\ fetch[g].attempted # {}
  /\ IdsOf(List(g)) \subseteq fetch[g].attempted

\* The article is missing from every provider the view has now.
Proved(g) == fetch' = [fetch EXCEPT ![g].pc = "mark", ![g].proved = IdsOf(List(g))]

\* A slip: the marker does not wait for every provider.
VerdictAtOnce(g) ==
  /\ fetch[g].pc = "verdict"
  /\ IF fetch[g].notFound /\ ~fetch[g].other
     THEN Proved(g) /\ UNCHANGED flight
     ELSE Finish(g, "error", {})
  /\ UNCHANGED <<viewVars, cached, missing, record, blocked>>

\* Nothing but refusals is a missing article; whoever proved it for the whole
\* set marks it.
Verdict(g) ==
  /\ fetch[g].pc = "verdict"
  /\ IF ~fetch[g].notFound \/ fetch[g].other THEN Finish(g, "error", {})
     ELSE IF AttemptedAll(g) THEN Proved(g) /\ UNCHANGED flight
     ELSE Finish(g, "missing", fetch[g].said)
  /\ UNCHANGED <<viewVars, cached, missing, record, blocked>>

MarkMissing(g) ==
  /\ fetch[g].pc = "mark"
  /\ missing' = [k \in DOMAIN missing \cup {MissingKey(g)} |->
                   IF k = MissingKey(g) THEN [proved |-> fetch[g].proved, by |-> fetch[g].said]
                   ELSE missing[k]]
  /\ Finish(g, "missing", fetch[g].said)
  /\ UNCHANGED <<viewVars, cached, record, blocked>>

Return(g) ==
  /\ fetch[g].pc = "done"
  /\ fetch' = [fetch EXCEPT ![g] = NoFetch]
  /\ UNCHANGED <<viewVars, flight, cached, missing, record, blocked>>

-------------------------------------------------------------------------------
(* Around the fetches.                                                     *)

\* 60 s have passed since v last benched i.
CooloffEnds(v, i) ==
  /\ record[v][i].cooling
  /\ record' = [record EXCEPT ![v][i].cooling = FALSE]
  /\ UNCHANGED <<viewVars, fetch, flight, cached, missing, blocked>>

\* The health probe finds the account working again.
Unblock(i) ==
  /\ i \in blocked
  /\ blocked' = blocked \ {i}
  /\ UNCHANGED <<viewVars, fetch, flight, cached, missing, record>>

\* The cache drops an article, for room or because it is purged.
Evict(m) ==
  /\ m \in cached
  /\ cached' = cached \ {m}
  /\ UNCHANGED <<viewVars, fetch, flight, missing, record, blocked>>

\* A view without sessions is dropped; a new one starts with a clean record.
CutView ==
  \/ \E v \in Views, ids \in Selections : Select(v, ids)
  \/ \E v \in Views : TakeProviders(v) \/ Register(v)

DropView(v) ==
  /\ \A g \in Fetchers : fetch[g].view # v
  /\ Drop(v)
  /\ record' = [record EXCEPT ![v] = [i \in Ids |-> Clean]]

\* pruneProviderStateLocked: a moved view forgets providers it no longer has.
UpdateView(v) ==
  /\ MoveView(v)
  /\ record' = [record EXCEPT ![v] = [i \in Ids |-> IF i \in IdsOf(view'[v].list) THEN @[i] ELSE Clean]]

Proceed(g) ==
  \/ CheckMissing(g) \/ CheckCache(g) \/ CountPrimaries(g)
  \/ NextRound(g) \/ Skip(g) \/ Connect(g) \/ ConnectFails(g) \/ Canceled(g)
  \/ SecondPass(g) \/ NoConnection(g)
  \/ Served(g) \/ Refused(g) \/ Broken(g) \/ Backup(g)
  \/ Store(g) \/ ClearMissing(g) \/ Verdict(g) \/ MarkMissing(g) \/ Return(g)

FetchNext ==
  \/ \E g \in Fetchers, v \in Views, m \in Articles : FetchSegment(g, v, m)
  \/ \E g \in Fetchers : Proceed(g)
  \/ \E v \in Views, i \in Ids : CooloffEnds(v, i)
  \/ \E i \in Ids : Unblock(i)
  \/ \E m \in Articles : Evict(m)
  \/ /\ CutView \/ (\E list \in Lists : SwapRoot(list)) \/ CollectViews
     /\ UNCHANGED fetchVars
  \/ \E v \in Views : /\ DropView(v) \/ UpdateView(v)
                      /\ UNCHANGED <<fetch, flight, cached, missing, blocked>>

FetchSpec == FetchInit /\ [][FetchNext]_vars

\* Goroutines run; connecting and asking end, one way or another, because the
\* fetch has a deadline (5 minutes) and commands have timeouts.
FairFetchSpec == FetchSpec /\ \A g \in Fetchers : WF_vars(Proceed(g))

-------------------------------------------------------------------------------
(* Properties.                                                             *)

PCs == {"out", "joined", "check", "lookup", "count", "round", "pick", "ask", "backups",
        "store", "clear", "verdict", "mark", "done"}

FetchTypeOK ==
  /\ ViewsTypeOK
  /\ fetch \in [Fetchers ->
       [pc : PCs, view : Views \cup {None}, article : Articles \cup {None},
        tier : {"primary", "backup"}, attempt : Nat, primaries : Nat,
        exclude : SUBSET Ids, attempted : SUBSET Ids, list : Seq(Providers), pass : {1, 2},
        pos : Nat, notFound : BOOLEAN, other : BOOLEAN,
        result : {"body", "missing", "error", None},
        said : SUBSET Providers, gave : SUBSET Providers, tried : SUBSET Providers,
        passed : SUBSET Providers, proved : SUBSET Ids]]
  /\ flight \in [Articles -> Fetchers \cup {None}]
  /\ cached \subseteq Articles
  /\ DOMAIN missing \subseteq Seq(Ids) \X Articles
  /\ \A k \in DOMAIN missing : missing[k] \in [proved : SUBSET Ids, by : SUBSET Providers]
  /\ record \in [Views -> [Ids -> [refused : 0..BenchAfter, served : 0..ForgiveAfter,
                                   cooling : BOOLEAN]]]
  /\ blocked \subseteq Ids

\* A marker is set only when, under every ID its view had at the verdict, some
\* provider refused the article: over rounds, cut walks and reloads between them,
\* whoever was not reached, or failed, leaves it unset (pool.go:1414-1439).
MarkersProven ==
  \A k \in DOMAIN missing : missing[k].proved \subseteq {IdOf[p] : p \in missing[k].by}

\* A marker speaks for a view only if every provider of the view refused the
\* article: "a provider added later may well carry the article, so a marker
\* recorded before UpdateProviders must not answer for the set after it"
\* (pool.go:449-451).
MarkersSpeak ==
  update.step = "idle" =>
    \A v \in Live, m \in Articles :
      LET key == <<Signature(view[v].list), m>>
      IN key \in DOMAIN missing => Range(view[v].list) \subseteq missing[key].by

\* A fetch reported as missing met refusals and nothing weaker, on any round: a
\* failure that may pass is not turned into a hole (pool.go:1447-1449).
Uncontradicted ==
  \A g \in Fetchers : fetch[g].result = "missing" => fetch[g].said # {} /\ fetch[g].gave = {}

\* "the caller would zero-fill a segment nobody proved absent" (pool_430_test.go:
\* 192-194): a fetch that reports the article missing has the word of every
\* provider of its view.
HolesProven ==
  \A g \in Fetchers :
    fetch[g].result = "missing" => Range(List(g)) \subseteq fetch[g].said

\* A backup is asked only when every primary has been asked, could not be
\* reached, or was passed over for a bench (pool.go:1250-1251, 1712-1718).
BackupsWait ==
  \A g \in Fetchers :
    fetch[g].pc = "ask" /\ fetch[g].tier = "backup" =>
      \A p \in Range(fetch[g].list) :
        InReserve(fetch[g].list, p) \/ p \in fetch[g].tried \cup fetch[g].passed

\* The backup tier "runs only once the primaries have had their turn"
\* (pool.go:1250-1251): by the time a backup is asked, every primary of the list
\* it came from has been asked or could not be reached.
BackupsLast ==
  \A g \in Fetchers :
    fetch[g].pc = "ask" /\ fetch[g].tier = "backup" =>
      \A p \in Range(fetch[g].list) : InReserve(fetch[g].list, p) \/ p \in fetch[g].tried

\* "what was fetched before the save is still served from memory after it"
\* (update_providers_test.go:84-85): an article in the cache is not reported missing.
CachedIsServed ==
  [][\A g \in Fetchers :
       fetch[g].pc = "check" /\ fetch'[g].pc = "done" => fetch[g].article \notin cached]_vars

\* Every fetch comes back, and so does everyone who joined it: the rounds end
\* whatever the providers answer and however often they are replaced.
FetchEnds ==
  \A g \in Fetchers : fetch[g].pc \notin {"out", "done"} ~> fetch[g].pc = "done"
===============================================================================
