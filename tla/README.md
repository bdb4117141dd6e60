# StreamNZB in TLA+

StreamNZB streams media straight out of Usenet: a player asks for a byte range,
the loader turns it into article segments, the pool fetches the articles from
several paid NNTP providers over a limited number of connections, and gaps that
no provider can fill are replaced by zeros. These modules model the parts whose
correctness depends on the order in which goroutines, reloads and providers do
things, check them with TLC on small instances, and prove the central ones
with TLAPS for every instance.

    tlc -workers 2 -config MCPool.cfg MCClientPool     # one run
    tlapm PoolProofs.tla                               # the proofs
    tlapm FetchProofs.tla
    tlapm LeaseProofs.tla
    tlapm ConnectionProofs.tla
    tlapm ProxyProofs.tla
    tlapm DownloadProofs.tla
    tlapm SlotsProofs.tla
    tlapm DeferredProofs.tla

1. [The system](#1-the-system)
2. [The modules](#2-the-modules)
3. [The runs](#3-the-runs)
4. [What the proofs show](#4-what-the-proofs-show)
5. [Where code and comments disagree](#5-where-code-and-comments-disagree)
6. [What is not modelled](#6-what-is-not-modelled)
7. [Plan](#7-plan)

## 1. The system

Go source under `src/`; the core is `pkg/usenet`, `pkg/media/loader` and
`pkg/session`. A play request goes

    HTTP handler -> session.Manager -> Session -> loader.File / SegmentReader
      -> usenet/pool.Pool (a view) -> nntp.ClientPool -> connBudget -> provider

and a configuration save goes from `core/app` to `ClientPool.Reconfigure`,
`Pool.UpdateProviders` and the caches, under the application's lock but
concurrently with everything above.

| Component | State | Operations | What is hard | What makes it correct |
|---|---|---|---|---|
| **connBudget** (`nntp/budget.go`) | per account: claims of pools, ceiling, permits in use, queue of waiters; a global registry | claimBudget, dropClaim, retire, tryAcquire, wait, cancel, release | a waiter gives up while it is granted; a ceiling shrinks below use; a budget is retired and recreated while somebody still holds a pointer | permits are counted exactly, granted in turn, never over the ceiling, and one object counts an account |
| **ClientPool** (`nntp/pool.go`) | target, generation, budget, closed flag, channel of idle connections, reaper | Get, TryGet, Probe, Put, Discard, Reconfigure, Shutdown, reaper | Get's select with three ready arms; Put and reaper act on what they read before an unlock; re-pointing live pools | each permit and connection has one owner; dials match their permits; nobody waits for ever |
| **Client** (`nntp/client.go` …) | socket, closed flag, selected group, pipeline of commands | commands, Reconnect, Quit, Issue/Next | Reconnect races Quit; a late reply after an interrupted pipeline | a closed client stays closed; answers belong to their commands |
| **Pool and views** (`pool/pool.go`) | provider list, weakly registered views with a selection each | NewPool, Subset, UpdateProviders | Subset concurrent with UpdateProviders | every stream follows a reload and none is left without providers |
| **Fetching** (`pool/pool.go`) | shared flights, missing markers per provider set, 430 counts and cooloffs, cache | FetchSegment, FetchSegmentFirst, StatSegment | mixed outcomes of several providers; benches that end mid-walk; markers and cache across reloads | a hole is reported only when proven; backups come last; fetches end |
| **Lease limiter** (`pool/leaselimit.go`) | semaphore per stream and provider | limiter, acquire, release, applyLimits | a limit changes while permits are out | no leak; overshoot is bounded |
| **Segment cache** (`pool/segment_cache.go`) | LRU of bodies, shared byte budget | Get, Set, Purge, SetBudget | accounting across eviction, overwrite and re-budgeting | the budget's counter is what the caches hold |
| **Pipelined bodies** (`pool/pipeline.go`) | a batch on one connection, a watchdog | FetchSegmentsPipelined | the watchdog against a late answer | a body is never filed under another article |
| **Loader** (`loader/file.go`, `segment_reader.go`, `readahead_batch.go`) | in-flight request per segment, who counts on it, abandoned windows, holes | DownloadSegment, ReadAheadRange, Read, Seek, Close | readers join requests read-ahead is cancelling; windows settled by others later; holes counted by several readers | no cancellation reaches a real read; caps on holes hold; every read ends |
| **Session manager** (`session/manager.go`) | sessions by slot, their counts and marks, the deferred NZB download, the plan kept with a session, copy cursors, failed slots | Create, Get, Delete, Begin/EndPlaybackStartup, Start/EndPlayback, GetOrDownloadNZB, AdvanceSlotCopy, cleanup | everything is named by slot while sessions come and go; lookup and change are two sections; close against a download | one download at a time; a closed session stays empty; counts are not inflated; a copy is not tried again, but for advances that are lost |
| **Playback** (`server/stremio/play_*.go`, `handlers_playback.go`, `playback/service.go`) | a request's walk: session, slot, list in hand | resolve, recover, next copy, next slot, serve, fail over in mid-stream | several requests give up, rebuild and delete the same slot | a session that goes at any point sends the walk on; the walk ends |
| **Health** (`core/health`) | a record per component | Report, MarkOK, probes | verdicts out of order | a blocked account is retried |
| **Usage accounting** (`nntp/usage_manager.go`) | byte counters, dirty flag | add, flush | an update during a save | nothing counted is lost |
| **Proxy** (`nntp/proxy`) | one session per TCP client | commands | failover in mid-command | one status per command |
| **Application** (`core/app`, `initialization`, `cmd/streamnzb`) | the components, the configuration | start, Reload, shutdown | order of stop and swap | nothing uses a stopped part |

The rest — indexers, search, NZB/RAR/EBML parsing, HTTP front ends, metadata,
configuration files, the browser front end — is pure computation or I/O.
`PROJECT.json` lists every part, and under `hazards` the places where the code
could go wrong in ways a test would hardly reach.

## 2. The modules

    AccountPermits          what an account is promised (abstract)
      ^ implemented by
    ConnBudget              budget.go
      ^ EXTENDS, implemented by          ProviderViews    pool.go: lists and views
    ClientPool              nntp/pool.go     ^ EXTENDS, implemented by
                                         SegmentFetch     pool.go: fetching an article

    LeaseLimiter      pool/leaselimit.go: a stream's caps, and getConnection's walk
    Connection        nntp/client.go, pipeline.go: what is on the wire, and whose it is
    Proxy             nntp/proxy: a downloader's commands over the providers
    SegmentDownload   media/loader: one file, its readers and their read-ahead
    PlaySlots         a play request's walk over slots, copies and sessions
    DeferredNZB       one session: its NZB download, its plan, its close

`MC*.tla` give the constants of the instances, `*Proofs.tla` hold the theorems.
Operators named "a slip" are plausible bugs of one definition; substituting one
for the definition it precedes makes the property it is paired with in
`PROJECT.json` fail, so every property checked is one this code could break.

### ConnBudget and AccountPermits

A budget *object* is what `claimBudget` allocates; `registry` maps accounts to
objects, `key`, `claims`, `limit`, `inUse` and `waiters` are the object's fields.
A *request* stands for a `budgetWaiter` or an immediate permit, and later for the
connection dialed under it: `permit[r]` is free, queued or held, `under[r]` its
object. One action per method: `ClaimBudget`, `DropClaim` (with
`recomputeLimitLocked` and the grants it leads to), `Retire`, `TryAcquire`,
`Wait`, `CancelQueued`, `CancelServed`, `Release`. Each is one critical section of
`b.mu` except that `retire` follows `release` and `dropClaim` in a section of its
own, with the budget in `retiring` until then; two calls waiting to retire one
budget are one member of the set.

The callers are over-approximated here: any pool claims any account with any
size at any time, any holder may cancel as a served waiter. What is true of
these budgets is true under every caller, `ClientPool` in particular.

`AccountPermits` keeps, per account, a ceiling and the set of permits out; it
says that permits are only added under the ceiling then in force, and that a
shrinking ceiling takes nothing back. `ConnBudget` maps to it by the registered
object's limit and the holders over *all* objects an account ever had, so an
account served by two objects at once would break it.

### ClientPool and PoolProofs

`pool[p]` has the settings (an account stands for host and user; password and
port changes are the generation alone), `proc[g]` a goroutine inside Get, TryGet,
Probe, Put or Discard or using a connection, `conn[r]` the connection dialed with
permit r, `idle[p]` the channel, `reaper[p]` the reaper. Steps are the critical
sections of `p.mu`, the budget's calls, channel operations and selects. Merged
into one step: closing a connection and returning its permit; a select arm and
the `cancel` that follows it when nobody can tell them apart. The channel has
room for its initial `maxConn` (`HasSlot`); a `Reconfigure` step is the section
under `p.mu` until `dropClaim`, which is `LeaveBudget`; the lock is held in between
(`Unlocked` guards everyone else).

`SharedOpening`, `MovingLater`, `Closable` say which pools exist, where a reload may
move them and which may be shut down.

### ProviderViews, SegmentFetch and FetchProofs

A provider is one configuration entry with its client pool; the entry that
replaces it when its account was edited is another provider with the same ID.
`Select`, `TakeProviders` and `Register` are Subset's three sections, `SwapRoot`,
`CollectViews` and `MoveView` those of UpdateProviders. The registry's weak pointers
make `Drop` possible at any time except for views an update has collected, which it
holds strongly. Reloads do not overlap (`app.Reload` is locked). `Only` is SelectSeq written as a
recursive function, which a proof can unfold.

`fetch[g]` is a call of FetchSegment with the locals of `fetchSegmentOnce`, one
step per lock, per provider looked at, per connection and per answer. `flight[m]`
is the singleflight: whoever joins gets the leader's result. `missing` maps
*signature and article* to the IDs the article was proved missing for and the
providers that had refused it when the marker was set (the code's markers are mere
keys; the value is history the properties read), and
`record[v][i]` is a view's 430 count, success count and cooloff for a provider.
`said`, `gave`, `tried`, `passed` and `proved` are history too. Counts are capped at the
threshold they are compared with. A connection comes, is refused or rejected, or
the caller's context ends; the wait for it is ConnBudget's business. The lease
caps are taken as unlimited. `Evict` drops anything from the cache at any time.

### LeaseLimiter and LeaseProofs

`limits` and `permits` are a limiter's two maps; a channel has its capacity
(`size`), the values in it (`taken`) and the senders that block (`queue`, which Go
serves in turn). `call[g]` is a call of getConnection: `look` at a provider, `try`
its semaphore, `ask` for and `wait` at the one that was passed over, `queued` there,
`get` a connection, `use` it. `under` is the channel whose permit the call holds or
wants, which is a captured variable of `releaseOnce` and need not be the one in
force. `Semaphore` is a section of the limiter's lock, and so is `ApplyLimits`; all
else is one operation on a channel. Skips (excluded, other tier, benched or not) are
one disjunct, possible at any provider. A client pool is the number of connections
nobody has, from which Get takes one, fails, or ends with its context. Giving
the connection and then the permit back is one step: who comes in between finds the
cap reached, as who comes before does. `views` says which views of a stream exist,
for one cut while the stream had no limits is without a limiter for good. A view's
list is `Order` and does not change, and the reloads of ProviderViews are not here.

### Connection and ConnectionProofs

ClientPool moves connections about and SegmentFetch takes a command for an
answer; Connection is what lies between. `client[c]` has both ends of a
connection: what the client knows (`closed`, `group`) and what is true (`open`, `up`,
`selected`, and `wire`, the replies sent or owed in the order of their commands,
the body of a 222 being an entry of its own until it is read). `job[j]` is a call
that leases a connection, by kind: `fetch` is fetchSegmentOnce, `batch`
FetchSegmentsPipelined, `stat` a probe of StatSegment, `read` and `stream` what the
proxy does. `todo` and `pend` are the articles to ask for and those asked for and
not answered. Steps are a
write, a status line, a body, and those of Reconnect: the section that looks at
`closed`, the dial, the section that installs, the login. A reply may come or not at
every read; a deadline that passes and a socket that broke are one step, since
both leave a code 0. `watch[j]` is the watchdog's goroutine: `fired` is the time
between its select and `discard`, in which the job may end. `End` is release or
discard under the lease's `sync.Once` (`ended`); the pool may close what it is
handed, and what was unread on a socket goes with it. `filed` is history: the body
last cached or served, as which article and of which, and whether it came over a
connection whose login was answered late (`late`).

A body that decodes was read to its end. With `LateLogin`, as in both
configurations, a login may time out while its reply is still to come; the client
does not know, and the connection is used on with one reply too many on it.

### Proxy and ProxyProofs

`session[s]` is one downloader's connection: `lease` the provider whose connection
it has, `exclude`, `backup` and `reached` the locals of forEachProvider, `late` that
its context has expired. `sent` is what the downloader has of the response under
way and `buffer` what the session's writer holds; `BufferFull` is its 64 KiB, which may
come after any line, `Spill` their way out. A provider's connections are a number. A
`broken` provider fails before or within its answer, a `reset` one fails with a
message isClientWriteError takes for the downloader's, before an answer, a `cut`
one within it; `mixed` tells that such a reset was taken for the downloader's in this
response. The downloader may leave whenever the session reads or writes. Those of
`Readers` also take what is written to them. The rest need not: no write to a
downloader has a deadline (`server.go:160-219`, `session.go:41-51`), so `Spill` and
`Flush`, at which a session may stand for ever (at `Spill` with a provider's
connection), are fair only for a downloader that reads or has left.

### SegmentDownload and DownloadProofs

`req[s]` is the `inflightSegmentDownload` registered for segment s: fetched through
the pool (`fetch`) or part of a pipelined batch (`piped`), counting failures or
not, cut (its context canceled) or not. `rd[r]` is a reader with its position,
its window and the call it is in: `ask` and `wait` are the two halves of
`doDownloadSegment`, `jump` what `triggerReadAhead` does after its lock, `claim`
`ReadAheadRange`. `spawned` are the goroutines of `ReadAheadSegment` before they ask,
`abandoned` the windows of closed readers. `Complete` judges, retires and publishes
as `completeInflightDownload` does; waiters look at the result in a step of their
own. Claiming a window is one step, although each index has a critical section
of its own. Close comes at any point of a read of the same reader, as from
another goroutine. What the pool answers is any of data, missing, failed or
canceled, the last also to a request nobody cut: the pool shares flights between
files, and another file may have cut the fetch that led this one.

### PlaySlots and SlotsProofs

`ses[s]` is the session slot s has *now*, which is what a change by slot meets;
`rq[r]` is a request. A session that leaves the map is closed for good and nobody
finds it again, so of the one a request took along it is enough to know whether it
is still its slot's (`own`) or a closed one. Locks are the grain, and where there is
none, the load and the store: a handler's walk is split wherever it leaves a lock
and comes back by slot, and the cursor is loaded and stored in steps of their own,
by NoteSlotCopies (`NoteLoads`, `NoteStores`; `manager.go:1645-1660`) as by
AdvanceSlotCopy (`NextCopy` or `Blame`, then `Advance`; `manager.go:1680-1698`), with the value
in between in `idx`. A slot is resolved in the sections of the code: note its
copies, take the copy (`Choose`), CreateDeferredSession (`Create`), GetSession
(`Get`), which finds nothing when somebody closed it in between; a walk then marks the
slot and goes on, a rebuild exhausts its copies. `Create` may keep a session it could
replace, as the code does within the grace period and while the NZB is downloaded.
`Refresh` is the refresh of a list, slot by slot. Operators on a session
(`WithSession`, `StartupBegun`, `Deletes` …) are the manager's methods, the actions
of `Resolving` and `Serving` the handlers' steps that call them. An open ends well, badly or
canceled, for any copy, because what decides it is outside. `Close` stands for the
dashboard and for cleanup, of which it takes the idle time as always passed. The
list of slots loses those given up; `failed` are the marks.

### DeferredNZB and DeferredProofs

One deferred session and any number of callers. `enter`, `wait`, `files` and `map`
are the points where a caller of `GetOrDownloadNZBWithContext` and `OpenSource`
holds no lock. `told` is the closed channel of the download a caller waited on;
it looks at the session later, when a newer download may have begun or the
session been closed. `blueprint` is the plan kept with the session; `stale` is
history, a plan begun before `ClearBlueprintCache` and kept after it.

## 3. The runs

Every passing run explores its whole state space.

| Run | Instance | Question |
|---|---|---|
| `pool` | 2 pools, 2 accounts, 3 objects, 3 requests, 2 goroutines; one pool moves, changes settings once and may be shut down | Does every permit and connection keep one owner (OneOwner), every claim follow its pool? Do the budgets underneath count exactly and grant in turn, and their objects implement AccountPermits? |
| `pool_live` | 2 pools of one account with ceiling 1, Get, TryGet and Probe | Does a blocked Get come back? |
| `leases` | 3 calls of a stream, a provider with 2 connections, its cap set to 1, to 2 or lifted, twice | Is a permit out exactly while a call has it, does the cap in force hold, does an overshoot end and every call? |
| `fetch` | 2 goroutines, 2 primaries and a backup, every outcome of connections and answers | Are reported holes free of weaker failures, and backups last? |
| `fetch_live` | 2 goroutines and a view of all or of one provider, one provider that reloads replace, logins rejected, articles refused or failed on | Is no view left without providers, is a marker set only on the word of every ID, and does every fetch end? |
| `conn` | 2 jobs of all five kinds, 1 connection, 3 articles, a batch of 3 at depth 2, logins that may be answered late | Is no reply taken for another's but behind a late login, no connection left open by its close or closed under the next lease, and no abandoned job left with its connection? |
| `proxy` | 2 downloaders of which one need not read, 2 primaries and a backup with a connection each, every failure before and within a body | Has a response one status line, is it whole, does every command end whose downloader reads or leaves? |
| `download` | 2 readers, one seeking and one leaving, 4 segments, windows of 2, batches of 2, 2 holes at most and runs of 1 | Does no cancellation reach a real read, are readers that wait counted, is what a closed reader left adopted, and are the caps on holes kept? |
| `download_live` | 2 readers, 2 segments, one reader leaves and reads in parts, one is read around | Does every read end? |
| `slots` | 2 requests, 2 slots, one of 2 copies and closed by others | Are counts not inflated, is a copy tried again only where an advance was lost, does the walk end? |
| `nzb` | 4 callers | One download at a time, a closed session empty, nobody waiting in vain? |
| `proxy_refused` | 1 downloader | see section 5 |

The type invariants hold on these instances too, as an INVARIANT line shows; they
are proved, and so is Proxy's NothingHeld (a connection is kept only while a
provider is asked). ConnBudget alone, under callers that claim any size for any
account at any time, is left to the proofs; `pool` drives the same budgets as the
code does.

**Bounds.** Two pools are what a reload replaces one with the other, and what
starves the other of an account's permits; three objects let an account be
retired and recreated while another account exists; three requests are one in
use, one parked and one waiting, at ceiling 1 one more than the permits there
are, and ceilings shrink there from 1 to none under permits that are out; from 2 to
1, and otherwise, they do in the proofs, which are about every instance. In LeaseLimiter three calls are one that
has a permit of the replaced semaphore, one that waits there and one that finds the
new one; four channels are one more than they can refer to; two changes replace a
semaphore that replaced another, or lift a cap and set it again. With two capped
providers the safety properties hold as well (1.3 million states). One change of generation
makes a connection stale; a second adds another stale one. In SegmentFetch `MinAttempts` is the code's 3; `BenchAfter` and
`ForgiveAfter` are 1 where the code has larger thresholds, so that benches come and
go within one fetch; one article suffices because nothing but the flight map,
the cache and the markers distinguishes articles, and all three are per article.
In SegmentDownload windows of 2 from segments 1 and 3 of four, moved on by seeks and
reads, make windows overlap, adjoin and be disjoint; of four holes two are within the
cap and two may be neighbours, so that a file is given up for the number of its holes
and for a run of them. In `download_live` one retry of a join is one fewer than the
two attempts it needs to be seen to stop; readers open at the start
and at the end of the file and come to the second segment by reading on. In PlaySlots a slot with two
copies and one with a single copy give walks a next copy, a next slot and an end; one
request asks for the slot with two copies, again and again, the other for either slot
or the list, so two are at one slot, or follow each other over both. In `fetch_live` a
reload takes provider a away and the next gives another in its place while fetches of
either walk on. In Connection one connection is enough, for a lease meets its
predecessors on the same connection only, and two jobs are the one that left
something behind and the one that finds it; `MaxRetries` is the code's 2; a batch of
3 at depth 2 refills its window once. In Proxy one connection per provider
makes the second downloader wait; one line of body is before, within and after
it; a provider down is one whose connection never comes. Two requests suffice for every race between a request and another; a
third is replaced by `Close`. `MaxGen` bounds reconfigurations and `MaxChanges` changes
of limits; nothing else is bounded by a guard. Objects and requests that are free again
are reused, which is why symmetry over them is sound (it is used for safety
properties only).

**Deadlock** is checked in every run but those of SegmentDownload and PlaySlots:
there is always a next call to make. A file whose readers are at its end, and a
title all of whose slots were given up and struck, have none; `ReadsEnd` and
`Resolves` say that nobody is in the middle of something then.

**Fairness.** `FairPoolSpec`: goroutines inside a call run; users bring their
connections back; an operator's reload goes on; tickers tick and connections
grow old. Nobody need call, no context need end. The idle arm of a blocked Get is
strongly fair because a Go channel hands a value to the receiver that blocked
first. Even so a pool under steady load may keep every permit of an account in
its own connections: NoGetStranded assumes that new calls stop (`Quiet`).
`FairLeaseSpec`: a call goes on, who has a connection brings it back, and who waits for
one in a client pool is served in turn (strongly fair, as the idle arm above). Nothing
is assumed of contexts, refusals or changes of limits.

`FairFetchSpec`: a fetch runs; connects and commands end, one way or the other,
because they have timeouts (the fetch itself has five minutes). Nothing is
assumed of benches, reloads or evictions.

`FairDownloadSpec`: the goroutine of a call runs, and a fetch ends, for it has a
deadline; nobody need read, seek or close, and no timer need fire. `FairSlotsSpec`:
a handler runs (an open has its startup timeout), serving may last for ever;
`Resolves` assumes that advances of a cursor are not lost for ever, because each that is
may let a request try a copy once more.
`FairDeferredSpec`: callers run and a download ends within its minute; `CallsEnd`
assumes that new calls stop, because a follower that finds nothing starts over,
and another caller's download may come in between every time.

`WatchedSpec` relies on the watchdogs alone, not on the server, on a deadline or on
the job: that is what AbandonedEnds is about. `FairProxySpec`: goroutines run,
commands on a connection end by their deadline, and the context of a walk expires;
what is written to a downloader goes out if it reads (`Readers`) or has left. No downloader
need say anything, and nothing is assumed of one that neither reads nor leaves, for the
code sets no write deadline: its own command may never end, with a provider's
connection held. CommandsEnd is about the others, beside it.

**The properties that carry weight.** InUseExact: no race of
grant, cancel and release leaks, mints or misdirects a permit. WorkConserving:
nobody waits for a free permit, although tryAcquire does not look at the queue.
OnlyRegisteredCounts: an object that left the registry counts nothing, so the
double check in `retire` is needed and enough. OneOwner: across selects, drains and
reapers each connection is in exactly one place and holds exactly one permit.
PermitsCounted: a permit goes back to the channel it is of, also when that was replaced
meanwhile. CapHolds and OvershootEnds: what a stream has beyond its new limit it got
under the old one, and gives up in the end. ConnectionsCome: calls that wait for
permits held by calls that wait for connections do not wait for each other.
MarkersProven: whatever rounds, reloads and failures came before, a marker is set only
if under every ID of its key some provider refused the article. Uncontradicted: a fetch
with any weaker failure is not a hole. BackupsWait: the metered tier is asked only after each
primary was asked, unreachable or passed over as benched. RealReadsKept and
WaitedIsCounted: a jump, a close, a timer and a settling by another reader all
choose what to cancel from state they captured earlier, and none of them hits a
request a real read is part of. WantedAdopted: read-ahead a closed reader left is
taken over, not canceled, by the reader that wants it. HolesCapped: whoever
discovers holes in whatever order, the file is not patched beyond its caps.
BodiesOwn and ParkedInSync: no path of errors, retries,
refusals, interrupted batches and probes hands a connection on with a reply on
it, but for one path: a login that timed out and is answered late (section 5), after
which that connection, until it is dropped, promises nothing.
LeaseUndisturbed: a watchdog that fires as its job ends does not close the
connection of the next. NoOrphan: Reconnect and close overlap in every order and
no socket survives. OneStatusLine and AnswersWhole: a provider that breaks off
within a body is replaced only while nothing of it has gone out; where its failure
is taken for the downloader's an error line follows (section 5), that one and nothing more.
CountsNotInflated: sessions replaced under a request do not pin the new session.
CopiesForward: of all the ways a cursor is read, moved, parked and brought back beside
sessions that are made, kept, replaced and closed, only a store that lost an advance
makes a slot try a copy again. Resolves: marks that
are cleared, cursors that come back from the end, lists that shrink and sessions that
go between two sections do not
send a request round for ever. OneDownload, WaitedForRuns, ClosedStaysEmpty: the
shared download survives its leader, and a close survives the download.

## 4. What the proofs show

TLAPS checks what follows for every value of the constants that the named assumptions
of the modules allow; nothing is assumed beyond them, but for the one hypothesis stated
below (`Lists = {}`, in FetchProofs).

PoolProofs begins with the budgets, for all finite sets of pools, accounts, objects
and requests and all claim sizes (`BudgetAssumption`):

| Theorem | Says |
|---|---|
| BudgetInvariant | `BudgetSpec => []IInv` |
| PermitsExact, NobodyWaitsForAFreePermit, RetiredCountsNothing | `[]` of InUseExact, WorkConserving, OnlyRegisteredCounts of the `pool` run |
| BudgetTypeCorrect, QueuesExact, CeilingIsLargestClaim | `[]` of BudgetTypeOK, QueueExact, LimitIsLargestClaim |
| PermitsInTurn, PermitsUnderCeiling | OldestFirst, which `pool` checks, and CeilingRespected |
| BudgetsKeepAccountPermits | `BudgetSpec => Account!Spec`: the refinement |

`IInv` joins the invariants with `Coherent` (an account is registered under an
object created for it; a permit is with an object that exists). None of the parts
is inductive alone: that a release keeps InUseExact needs to know the releaser
is counted by its own object and nobody in the queue is; that `retire` keeps
OnlyRegisteredCounts needs WorkConserving and LimitIsLargestClaim — an object
without claims has ceiling 0, and only InUseExact says that its holders are none;
that `claimBudget` keeps Coherent needs unused objects to be clean. The proof has
one lemma about the queue per operation on it (serve the oldest, join, leave),
one about `grantLocked` (GrantEffect), which every granting operation cites, then one
per operation, then the step. The refinement proof rests on OutIs: the permits
of an account are the holders of its *registered* object, which is
OnlyRegisteredCounts and Coherent read together; each operation is then one step
of AccountPermits or a stutter.

It then puts the pools on top (`PoolAssumption`: settings are accounts
with a ceiling; there may be any number of goroutines, and pools open, move, change
generation and close as often as the constants allow):

| Theorem | Says |
|---|---|
| PoolInvariant, PoolTypeCorrect | `PoolSpec => []PoolInv`, `[]PoolTypeOK` |
| PermitsHaveOneOwner, ClaimsFollowPools, PoolsDialRegistered | `[]` of OneOwner, ClaimFollowsPool and DialsRegistered of the `pool` run |
| PoolsKeepBudgetSpec | `PoolSpec => BudgetSpec`: the pools implement ConnBudget |
| PoolPermitsExact, PoolNobodyWaitsForAFreePermit, PoolRetiredCountsNothing, PoolPermitsInTurn, PoolsKeepAccountPermits | the five properties of the budgets in the `pool` run, with the pools as their callers |

The last row is what the refinement is for: each follows from its theorem about
BudgetSpec. The refinement is not a matter of form. ConnBudget's actions have the
callers' duties as guards — a release comes from a request that holds a permit, a
waiter asks an object that exists, a claim is on the registered object — and
ClientPool has to meet them from what a goroutine remembers across unlocks. `PoolInv`
says it does. PoolShape, ClaimFollowsPool and DialsRegistered are about pools: who
claims what, and that a Reconfigure on its way out remembers an object other than
the one it moved to. HandShape, ReaperShape and IdleShape say what permit a
goroutine, a reaper and a parked connection have where they stand; Apart, that no two
of them have the same one; Owned, that a request which is not free has one of
them. OneOwner is Apart and Owned counted. None is inductive alone: a release
keeps Owned only since nobody else had that permit; a grant to a waiter changes what a
goroutine in its select has, without a step of its own. A budget's step is therefore
described by the requests it moves (which were free, are free, or got a permit), a
goroutine's by its own record (StepOf), and the two are put together per action.

DeferredProofs does the same for one deferred session and any set of callers
(`Callers` need not be finite):

| Theorem | Says |
|---|---|
| DeferredInvariant | `DeferredSpec => []DeferredInv` |
| DownloadsOnce, ClosedSessionsEmpty, NobodyMissesTheEnd | the three invariants of the `nzb` run |
| DeferredTypeCorrect | `DeferredSpec => []DeferredTypeOK` |

`OneDownload` cannot be kept alone by `DownloadEnds` without the types, and
`WaitedForRuns` rests on it: a caller joins only while `inFlight` is set, and it is
OneDownload that makes the flag mean that a goroutine will publish. A download's
end tells *all* who wait, so that no caller is left for which `running = 1` would
stop being true.

LeaseProofs is about any streams, providers, calls, channels and settings
(`LeaseAssumption`: the calls are finite, a view lists at least one provider, limits
are naturals):

| Theorem | Says |
|---|---|
| LeaseInvariant | `LeaseSpec => []LeaseInv` |
| PermitsAreCounted, CapsHold | the two invariants of the `leases` run |
| LeaseTypes | `LeaseSpec => []LeaseTypeOK` |

CapHolds follows from three facts that are kept together: a semaphore in force has
the size of its limit (Sized, because ApplyLimits drops it otherwise and Make sizes
it), a channel has no more permits out than its size, and PermitsCounted. That a
release keeps PermitsCounted needs to know whom it wakes: InLine says that who is in a
channel's queue waits for that channel, and once, so the permit moves from one
holder to another. HeldAfter counts the holders when one call moves; TouchesOne says
that a step on one channel leaves what is known of the others, which is why a
semaphore that was replaced needs no case of its own.

ConnectionProofs is about any connections, jobs, articles and depth
(`ConnectionAssumption`):

| Theorem | Says |
|---|---|
| ConnInvariant | `ConnectionSpec => []ConnInv` |
| NoSocketOrphaned, LeaseIsTheJobs | `[]` of NoOrphan and LeaseUndisturbed of the `conn` run |
| NoBodyMistaken, ParkedOwesNothing | `[]` of BodiesOwn and ParkedInSync of the `conn` run |
| GroupIsTrue, ConnectionTypes | `[]` of GroupTrue (GROUP is skipped only where it is selected) and ConnectionTypeOK |

`ConnInv` has four parts. Sound is what a connection is like whoever has it. Leases says
for each job what it has still to ask (Placed) and that the replies on its
connection's wire are those it is owed, in their order (Owed, Answering): BodiesOwn
is a statement about the past and follows only from what every read along the way
knew of the wire. Parked says that nothing is left on a parked connection, which is
what a new lease starts from. LeaseUndisturbed is what lets the rest be argued job by
job: since nobody else has the connection, a step of a job disturbs only its own
record and that connection (GoesOn, GoingOnKeeps), and each command is proved by
showing that the two still fit. The steps that move a connection between jobs (Begins,
Lease, End, the watchdog's discard, Drop) are proved on their own. The parts about the
wire say nothing of a connection whose login was answered late, whatever `LateLogin` is:
the client cannot tell it from others, BodiesOwn is false there (MCConnLate), and
`filed` says whether a body came that way. Nothing carries over from it, because a
redial leaves what was unread behind with the old socket.

FetchProofs is about any providers, IDs, lists, views, selections, callers and
articles, any thresholds and number of attempts (`ViewsAssumption`, `FetchAssumption`: a list
has one provider per ID, the pool starts with one at least):

| Theorem | Says |
|---|---|
| ViewsInvariant, FetchKeepsViewsSpec | `ViewsSpec => []ViewsInv`; `FetchSpec => ViewsSpec`, so it holds while articles are fetched |
| NoStreamDies | `[]` of NoDeadStream of the `fetch_live` run |
| FetchInvariant, FetchTypeCorrect | `FetchSpec => []FetchInv`, `[]FetchTypeOK` |
| MissingIsUncontradicted, MarkersAreProven | `[]` of Uncontradicted of the `fetch` run and MarkersProven of `fetch_live`, whatever the reloads |
| FixedInvariant, BackupsHoldBack | if `Lists = {}`, `[]` of FixedInv and of the `fetch` run's BackupsWait |

For the views: a view is without providers only if the root is, or an update has still
to come to it (NoneDead), and the views an update has moved follow the list it
installed; registering and dropping views meanwhile breaks neither, because an
update moves those it collected and a view is cut from the list then in force. For
the fetches, Sound says of each call what its flags have seen: that there is a
refusal behind `articleNotFoundErr`, that nothing weaker is behind a silent
`sawNonArticleNotFound`, and that as long as it is silent each ID in `attempted` has
refused or is being asked (Heard). From the last follows that a marker is set only if
every ID of the list in force at the verdict has refused. All this holds across reloads,
since it is about the past.

What BackupsWait says, and what a marker says of *providers*, relates a walk to one list,
and a call takes a new look at its view's list in every round. `Steady` therefore
describes a call whose list stays. Walks and Hears keep its `attempted` to providers that
answered, and so FixedInv says that whoever set a marker had the word of each provider of
the list: IDs name one provider of a list. Rounding is what BackupsWait needs, and is not obvious: the
loop runs as often as there are primaries (or three times), each round excludes
one primary more unless all have had their turn, so that after the last round all
have. It is a count, `attempt = Cardinality(exclude)`, and a primary that is passed over
for its bench ends it, because the second pass comes after a whole first one. With
reloads the two are false: MCFetchMarkEdited and MCFetchMarkRace show it for the
markers (MarkersSpeak), and a primary that a reload adds while the backups are walked has not been
asked. The `fetch` run has `Lists = {}` as well. The order of a list is built by a
recursive function (Only); what it returns is proved by a bounded induction
(LeastNumber, UpTo: a set of numbers up to n that has a first counterexample has none)
because the library's induction theorems take an operator.

ProxyProofs is about any downloaders, providers, connections and outcomes
(`ProxyAssumption`):

| Theorem | Says |
|---|---|
| ProxyInvariant, ProxyTypeCorrect, ConnectionsGivenBack | `[]` of ProxyInv, ProxyTypeOK and NothingHeld |
| OneStatusLinePerResponse, ResponsesWhole | `[]` of OneStatusLine and AnswersWhole of the `proxy` run |

`Stands` says for each place in the code what there is of the response, sent and
buffered taken together, since Spill moves lines between the two at any time: nothing
while providers are asked, a status line and lines while a body is relayed, a
response in full at the flush. A body that breaks off is taken back, or is the last
thing its session says, or, with `mixed`, is cut off by one error line (CutOff). That there
is never a second error line, nor one after a body that came to its end, is what the
exception in OneStatusLine leaves to prove.

DownloadProofs is about any readers, files of any length and windows, caps and depths of
any size (`DownloadAssumption`):

| Theorem | Says |
|---|---|
| DownloadInvariant, DownloadTypeCorrect | `DownloadSpec => []DownloadInv`, `[]DownloadTypeOK` |
| WaitersAreCounted, HolesAreCapped | `[]` of WaitedIsCounted and HolesCapped of the `download` run |
| RealReadsAreKept, WantedIsAdopted | its RealReadsKept and WantedAdopted |

What a step does to requests is told apart from what it does to readers. Kindly says
that it takes nothing from whoever waits: a request goes on, one that counts counts on,
and none that counts is canceled. Joins, batches, goroutines, jumps and timers are kind
(JoinKindly, CutKindly), and a reader's own step then keeps what all the others wait for
(MoveKept). Only `Complete` is not: it retires a request and has to tell everyone who
waits for it, which is why WaitedIsCounted speaks of those not told yet. A real read asks
for the segment it stands at (Stands); without it, being served could move a reader past
the end of the file. For the holes, a new one may join two runs: each old hole then has
the run of the new one, or the run it had (RunsJoin), so that judging the new hole's run
judges every run the file has afterwards. That the code records the hole before it judges
makes no difference to the run (RunSame).

SlotsProofs is about any finite sets of requests and slots, whatever the requests ask for,
any number of copies of each release and of attempts, and any slots that others close
(`SlotsAssumption`):

| Theorem | Says |
|---|---|
| SlotsInvariant, SlotsTypeCorrect | `SlotsSpec => []SlotsInv`, `[]SlotsTypeOK` |
| CountsAreNotInflated | `[]` of CountsNotInflated of the `slots` run |
| CopiesGoForward | its CopiesForward |

CountsNotInflated is not inductive. A request on its way out has looked the session
up and may find it replaced when it writes: what it takes off is then not off the
slot's session, so it must not be among those who cover that session's count.
Owes says who does: whoever plays, or has still to end its play, by slot, for the
lookup will find the session there then; but whoever has looked up (`leaving`) only
for the session it found. Counted says that a count is at most the number of those,
Held that who has its slot's session has an open one, Made that a slot without a session
counts nothing, Placed what a request has read at the place it is at. A step changes the
record of one request and the session of one slot, and a count then follows the one
request that moves (Follows, CountFollows): it may go up only with a request that begins
to owe, and a request may stop owing only with a decrement, or at zero, or as its session
leaves the map. Moves says so of a step that leaves the sessions in the map, Turns of one
that takes a session out or replaces it, Quiet and Calm of the many that change neither
sessions nor cursors. CopiesForward is a statement about a step (Forward) that every action's lemma has
beside the invariant: a slot falls behind by a store only, and a store that sets the
cursor back, below what the slot plays, is one that lost an advance. That a load and its
store stay with the copies the slot has is in Placed.

Only model-checked: the liveness properties
(liveness under fairness is outside what the prover does). tlapm reads an `@` inside an
EXCEPT that itself replaces an `@` wrongly (`[f EXCEPT ![x] = [@ EXCEPT !.n = @ + 1]]`
becomes `f[x].n.n + 1`); the modules write `f[x].n` there.

## 5. Where code and comments disagree

Each run finds the shortest trace on its own.

| Run | Promise | What happens |
|---|---|---|
| `proxy_refused` | forEachProvider "replies '430 No such article' when none could answer" (`nntp/proxy/commands.go:146-147`); running out of connections "says nothing about the article" (`session_test.go:147-149`) | after a refusal of BODY StreamBody drains a body that does not come until the command's 60 seconds are over (`nntp/client.go:533`); the 30 seconds for connections are over by then, no other provider is asked, and the downloader gets 430 |

Others are kept as configurations to run by hand (`tlc -config X.cfg MC…`), each
with the properties it violates (with several, `-continue` shows them all):

| Configuration | Property | What happens |
|---|---|---|
| `MCPoolParked` | ShutdownLeavesNothing | Put read `closed` before Shutdown; its select may still choose the channel after the drain, although `nntp/pool.go:519-521` says the connection is closed |
| `MCPoolMixedDial` | PermitMatchesAccount | the target is read after the grant: the *new* account under a permit of the old one (`nntp/pool.go:450-453` says the old target) |
| `MCPoolStranded` | NoGetStranded | a Get queued on the old account's budget stays there after its pool moved (`nntp/pool.go:77-78`) |
| `MCPoolParked` | NoDialAfterShutdown | a Get under way dials after Shutdown |
| `MCPoolStale` | StaleConnectionsClose | the reaper returns, or blocks on, a connection of the old account |
| `MCPoolParked` | RegisteredIsReferenced | a permit that returns through `cancel` leaves its budget registered |
| `MCViewsStale` | EveryViewFollows | a view between resolve and register is missed until the next update (`pool/pool.go:671-672`) |
| `MCFetchUnreached` | HolesProven | a provider that was never reached leaves no trace in the verdict, although a mixed outcome "must not surface as a missing-article error" (`pool/pool_430_test.go:192-194`) |
| `MCFetchMarkEdited` | MarkersSpeak | the signature is IDs only, and an edited account keeps its ID (`pool/pool.go:450-451`) |
| `MCFetchMarkRace` | MarkersSpeak | the marker is recorded after an update swapped the set |
| `MCFetchSharedFlight` | HolesProven | a view of all providers takes over the 430 of a flight led by a view of one |
| `MCFetchBackupEarly` | BackupsLast | a bench ends between the two passes and its provider is skipped by both |
| `MCFetchCacheHidden` | CachedIsServed | an old marker hides a cached article |
| `MCLeasesWaiter` | WaitersMoveOn | a change of limits "takes effect for connections taken from then on" (`pool/leaselimit.go:107-110`), but who waits on the replaced semaphore is given a permit of it, and connects under the old limit |
| `MCDownloadRun` | RunsStayShort | the hole that makes a run too long is recorded before the run is judged: the next read of it is given zeros |
| `MCConnLate` | BodiesAlwaysOwn | Reconnect's login times out with its reply to come, Body returns the error, fetchSegmentOnce releases the connection all the same (`pool/pool.go:1382-1385`), and the next command reads 281 for its answer and its own answer is left for the one after |
| `MCProxyReset` | NoLineWithinBody | a provider's "connection reset" is taken for the downloader's (`nntp/proxy/commands.go:290`), and 500 is written into the body that has gone out |
| `MCSlotsGone` | NothingWhenGone | withSession "does nothing when the session is gone" (`session/manager.go:2085`), but EndPlayback looks the session up, a close empties it, then the function runs on it all the same and assigns to its nil client map, which panics |
| `MCSlotsRace` | NoteKeepsCursor | NoteSlotCopies refreshes "the entry without disturbing which copy is current" (`session/manager.go:1643-1644`), but stores the index it loaded over an advance in between, and the copy that failed is played again |
| `MCSlotsRace` | CopiesTriedFirst | two requests fail over one copy and move the cursor twice: a slot is given up with a copy untried (`play_resolve.go`) |
| `MCSlotsRace` | ServedIsCounted | a playback that began before its slot's session was replaced ends on the new one, which then counts none while it serves |
| `MCDeferredGaps` | LeadersServed | the error is reset by a newer download, or the NZB by a close, before the leader looks: it returns neither |
| `MCDeferredGaps` | ClosedPinsNothing | SetBlueprint does not look whether the session is closed |
| `MCDeferredGaps` | PlansRebuilt | a plan begun before ClearBlueprintCache is kept after it |

## 6. What is not modelled

In Connection: the decoder, articles of the batch answered before it leases,
jobs without newsgroups, a pipeline turned down by its provider's depth. In
Proxy: the listener, errors of a write other than the downloader's leaving,
statistics. In ClientPool: Validate, usage counters, the speed meter, the established and
dialing figures, health reports. In ProviderViews: views cut from views. In
SegmentFetch: StatSegment, FetchSegmentFirst, the lease caps (LeaseLimiter has them),
per-provider statistics, the limit of 50,000 markers, fetches through the root. In
SegmentDownload: the segment map, how it is detected and corrected (offsets are
segment numbers), prefetches of whole ranges. The segment cache's accounting: each of its operations is one critical section over a
list and a counter, which is for its tests. In LeaseLimiter: which provider is benched
or excluded, names that differ only in blanks. In PlaySlots: verdicts that outlive
the attempt, time limits of marks and cursors, preloading, orders a client sets,
failover switched off. In DeferredNZB: plans and NZBs from the library. The
leases of the shared playback stream (`AcquirePlaybackStream`), which only tests
call. Everything section 1 lists without a module. Parsers and stream readers (`unpack`, `rar`, `ebml`,
`decode`, `seek`) are sequential computation over large data and stay with their
tests; indexers, metadata, configuration and the HTTP front ends are I/O.

## 7. Plan

In this order; what is done is ticked.

- [x] AccountPermits, ConnBudget; ClientPool on ConnBudget; PoolProofs
- [x] ProviderViews, SegmentFetch; FetchProofs
- [x] SegmentDownload; DownloadProofs
- [x] PlaySlots, DeferredNZB; SlotsProofs, DeferredProofs
- [x] Connection (BodyPipeline and ConnLifecycle in one, since both are about who
  owns a connection and what is on it), Proxy; ProxyProofs
- [x] ConnectionProofs
- [x] LeaseLimiter (`pool/leaselimit.go`): permits across a change of limits; LeaseProofs
- [ ] FirstSegmentRace (FetchSegmentFirst, the hedge of StatSegment), UsageManager,
  Health; the segment map's corrections in SegmentDownload.
