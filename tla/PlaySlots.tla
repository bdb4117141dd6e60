------------------------------- MODULE PlaySlots -------------------------------
(***************************************************************************)
(* Playing a title through its slots (pkg/server/stremio: play_resolve.go, *)
(* play_serve.go, handlers_playback.go; pkg/session/manager.go).           *)
(*                                                                         *)
(* Each slot is one release, of which merging may have kept several copies.*)
(* A request opens the slot's session, walks on to another copy and then   *)
(* to the next slot when the open fails, and serves; a read that fails     *)
(* mid-stream moves the slot on too.  Requests for one slot run side by    *)
(* side (a player sends several ranges, and repeats itself), and the       *)
(* manager knows sessions by slot: whoever asks later may find another     *)
(* session there.                                                          *)
(*                                                                         *)
(* A session that leaves the manager's map is closed for good, so what a   *)
(* request holds is the session its slot has, or a closed one: own says    *)
(* which.                                                                  *)
(*                                                                         *)
(* Left out: verdicts kept beyond the attempt, reports, the time limits of *)
(* marks and cursors, preloading and prefetching, lists in an order of the *)
(* client's own (AIOStreams).  Failover is on.                             *)
(***************************************************************************)
EXTENDS Integers, FiniteSets

CONSTANTS Requests, Asks,     \* what each request may be for: slots, and 0 for the list
          Slots, Copies,      \* 1 .. n in list order; the copies of each one's release
          MaxAttempts,        \* EffectiveVariantAttempts
          Closing             \* slots somebody else closes: the dashboard, cleanup

ASSUME SlotsAssumption ==
  /\ IsFiniteSet(Slots) /\ Slots = 1 .. Cardinality(Slots)
  /\ IsFiniteSet(Requests) /\ Asks \in [Requests -> SUBSET (Slots \cup {0})]
  /\ Closing \subseteq Slots
  /\ Copies \in [Slots -> Nat \ {0}] /\ MaxAttempts \in Nat \ {0}

VARIABLES ses,      \* Manager.sessions: the session each slot has
          cursor,   \* slotCopyCursor: the copy the slot is at, Copies[s] when parked past the last
          failed,   \* slotFailedDuringPlayback
          listed,   \* the slots still in the play list
          rq        \* the requests

vars == <<ses, cursor, failed, listed, rq>>

NoSession == [open |-> FALSE, copy |-> 0, plays |-> 0, starting |-> 0, valid |-> FALSE]
Deferred(copy) == [NoSession EXCEPT !.open = TRUE, !.copy = copy]

\* A request: the slot it was sent for and the one it is at, whether its session is
\* the one that slot has, the list in hand, what it resolves a slot for, and a value
\* of the cursor between its load and its use.
NoRequest == [pc |-> "idle", asked |-> 0, slot |-> 0, own |-> FALSE, list |-> {},
              from |-> "play", idx |-> 0]

SlotsInit ==
  /\ ses = [s \in Slots |-> NoSession]
  /\ cursor = [s \in Slots |-> 0]
  /\ failed = {} /\ listed = Slots
  /\ rq = [r \in Requests |-> NoRequest]

-------------------------------------------------------------------------------
(* The session manager.                                                    *)

\* A deferred session may be swapped for one of another copy: nothing plays it,
\* nothing proved it, nobody is starting it.
Replaceable(s) == ses[s].plays = 0 /\ ~ses[s].valid /\ ses[s].starting = 0

\* NoteSlotCopies brings a parked cursor back to the last copy; CopyAt has no copy
\* for a parked cursor, and the release itself is played.
Noted(s) == IF cursor[s] >= Copies[s] THEN Copies[s] - 1 ELSE cursor[s]
CopyAt(s) == IF cursor[s] >= Copies[s] THEN 0 ELSE cursor[s]

\* A slip: one copy too many, which parks the cursor.
CanAdvancePast(s) == MaxAttempts > 1 /\ cursor[s] < Copies[s] /\ cursor[s] < MaxAttempts

\* AdvanceSlotCopy would find another copy to try.
CanAdvance(s) == MaxAttempts > 1 /\ cursor[s] + 1 < Copies[s] /\ cursor[s] + 1 < MaxAttempts

\* withSession: the session the slot has now, if it has one, becomes x.
WithSession(s, x) == ses' = IF ses[s].open THEN [ses EXCEPT ![s] = x] ELSE ses

Min0(n) == IF n < 0 THEN 0 ELSE n
StartupBegun(x) == [x EXCEPT !.starting = @ + 1]
StartupEnded(x) == [x EXCEPT !.starting = Min0(@ - 1)]
Validated(x) == [x EXCEPT !.valid = TRUE, !.starting = 0]
PlaybackBegun(x) == [x EXCEPT !.plays = @ + 1]
PlaybackEnded(x) == [x EXCEPT !.plays = Min0(@ - 1)]

-------------------------------------------------------------------------------
(* Requests.                                                               *)

Becomes(r, x) == rq' = [rq EXCEPT ![r] = x]
Going(r, pc) == Becomes(r, [rq[r] EXCEPT !.pc = pc])
Reads(r, pc, idx) == Becomes(r, [rq[r] EXCEPT !.pc = pc, !.idx = idx])
Lets(r, pc) == Becomes(r, [rq[r] EXCEPT !.pc = pc, !.own = FALSE])
Done(r) == Becomes(r, NoRequest)
At(r, s, pc) == [NoRequest EXCEPT !.pc = pc, !.asked = rq[r].asked, !.slot = s]
Takes(r, s) == Becomes(r, [At(r, s, "look") EXCEPT !.own = TRUE])
Walks(r, s, list, from) == Becomes(r, [At(r, s, "walk") EXCEPT !.list = list, !.from = from])

\* The session of slot s leaves the map, and is closed for those who hold it, when
\* r becomes x.
Leaves(s, r, x) ==
  rq' = [q \in Requests |-> IF q = r THEN x
                            ELSE IF rq[q].slot = s THEN [rq[q] EXCEPT !.own = FALSE] ELSE rq[q]]

\* DeleteSession closes what the slot has now.
Deletes(r, pc) ==
  /\ ses' = [ses EXCEPT ![rq[r].slot] = NoSession]
  /\ Leaves(rq[r].slot, r, [rq[r] EXCEPT !.pc = pc, !.own = FALSE])

\* deriveNextSlotIDFromPlaylist: the slots of a list that may follow, of which the
\* first does.
Candidates(list, from) == {s \in list \ failed : s >= from}
First(slots) == CHOOSE s \in slots : \A t \in slots : s <= t

-------------------------------------------------------------------------------
(* A slot resolved from a list (resolveStreamSlotFromPlaylist), for the    *)
(* refresh of a list, for a walk over slots, or to rebuild one for its     *)
(* next copy.  Nothing holds the cursor between a load and a store.        *)

\* NoteSlotCopies loads the cursor ...
NoteLoads(r) ==
  /\ rq[r].pc = "note"
  /\ Reads(r, "store", Noted(rq[r].slot))
  /\ UNCHANGED <<ses, cursor, failed, listed>>

\* A slip: it starts over with the first copy.
NoteStartsOver(r) ==
  /\ rq[r].pc = "store"
  /\ cursor' = [cursor EXCEPT ![rq[r].slot] = 0]
  /\ Reads(r, "index", 0)
  /\ UNCHANGED <<ses, failed, listed>>

\* ... and stores it, over an advance in between.
NoteStores(r) ==
  /\ rq[r].pc = "store"
  /\ cursor' = [cursor EXCEPT ![rq[r].slot] = rq[r].idx]
  /\ Reads(r, "index", 0)
  /\ UNCHANGED <<ses, failed, listed>>

\* SlotCopyIndex and CopyAt: the copy the session is to be of.
Choose(r) ==
  /\ rq[r].pc = "index"
  /\ Reads(r, "create", CopyAt(rq[r].slot))
  /\ UNCHANGED <<ses, cursor, failed, listed>>

\* CreateDeferredSession, under the manager's lock.  A session that could be
\* replaced is kept all the same when it was touched a moment ago (the grace) or
\* while its download runs.
Create(r) ==
  LET s == rq[r].slot
      on == [rq[r] EXCEPT !.pc = IF rq[r].from = "refresh" THEN "refresh" ELSE "get", !.idx = 0]
  IN /\ rq[r].pc = "create"
     /\ \/ ses[s].open /\ Becomes(r, on) /\ UNCHANGED ses
        \/ /\ ses[s].open => ses[s].copy # rq[r].idx /\ Replaceable(s)
           /\ ses' = [ses EXCEPT ![s] = Deferred(rq[r].idx)]
           /\ Leaves(s, r, on)
     /\ UNCHANGED <<cursor, failed, listed>>

\* GetSession: it is gone again when somebody closed it in between.  A walk marks
\* the slot and goes on; a slot that could not be rebuilt is given up.
Get(r) ==
  LET s == rq[r].slot
      gone == rq[r].pc = "get" /\ ~ses[s].open
  IN /\ \/ rq[r].pc = "get" /\ ses[s].open /\ Takes(r, s) /\ UNCHANGED failed
        \/ gone /\ rq[r].from = "rebuild" /\ Going(r, "exhaust") /\ UNCHANGED failed
        \/ gone /\ rq[r].from # "rebuild" /\ Going(r, "walk") /\ failed' = failed \cup {s}
     /\ UNCHANGED <<ses, cursor, listed>>

-------------------------------------------------------------------------------
(* Resolving (resolvePlaybackSlot).                                        *)

\* openPlaySession: a failed slot is redirected away from, one without a session
\* is recovered (recoverPlaySessionAfterEviction), which fetches the list.
Play(r, s) ==
  LET asks == [NoRequest EXCEPT !.asked = s, !.slot = s]
  IN /\ rq[r].pc = "idle" /\ s \in Asks[r] /\ s \notin failed
     /\ \/ ses[s].open /\ Becomes(r, [asks EXCEPT !.pc = "look", !.own = TRUE])
        \/ ~ses[s].open /\ listed # {} /\ Becomes(r, [asks EXCEPT !.pc = "list", !.list = listed])
     /\ UNCHANGED <<ses, cursor, failed, listed>>

\* The list is asked for (GetStreams).
Show(r) ==
  /\ rq[r].pc = "idle" /\ 0 \in Asks[r] /\ listed # {}
  /\ Becomes(r, [NoRequest EXCEPT !.pc = "list", !.list = listed])
  /\ UNCHANGED <<ses, cursor, failed, listed>>

\* bootstrapPlaylistForPlay, the list in hand: one that lost slots names those it
\* has, whose marks are forgotten.
Bootstrap(r) ==
  /\ rq[r].pc = "list"
  /\ failed' = IF rq[r].list = Slots THEN failed ELSE failed \ rq[r].list
  /\ Becomes(r, [rq[r] EXCEPT !.pc = "refresh", !.slot = 0, !.from = "refresh"])
  /\ UNCHANGED <<ses, cursor, listed>>

\* refreshLiveDeferredSessionsForPlaylist: slot by slot, those with a session are
\* resolved anew.  A recovery then walks from the slot asked for on, unless its
\* number is past the list's length, and else from the top.
Refresh(r) ==
  LET list == rq[r].list
      left == {s \in list : s > rq[r].slot}
      asked == rq[r].asked
  IN /\ rq[r].pc = "refresh"
     /\ IF left # {} THEN Becomes(r, [rq[r] EXCEPT !.slot = First(left),
                            !.pc = IF ses[First(left)].open THEN "note" ELSE "refresh"])
        ELSE IF asked = 0 THEN Done(r)
        ELSE IF asked <= Cardinality(list) THEN Walks(r, asked - 1, list, "recover")
        ELSE Walks(r, 0, list, "walk")
     /\ UNCHANGED <<ses, cursor, failed, listed>>

\* recoverPlaySessionAfterEviction, which starts over once from the top, and
\* switchToNextFallback: the session of the next slot of the list, found or made.
Walk(r) ==
  LET list == rq[r].list
      after == Candidates(list, rq[r].slot + 1)
      s == First(after)
  IN /\ rq[r].pc = "walk"
     /\ IF after # {}
        THEN IF ses[s].open THEN Takes(r, s) ELSE Becomes(r, [rq[r] EXCEPT !.pc = "note", !.slot = s])
        ELSE IF rq[r].from = "recover" THEN Walks(r, 0, list, "walk") ELSE Done(r)
     /\ UNCHANGED <<ses, cursor, failed, listed>>

\* Not known to have failed: the open begins.
Start(r) ==
  /\ rq[r].pc = "look" /\ rq[r].slot \notin failed
  /\ LET s == rq[r].slot IN WithSession(s, StartupBegun(ses[s]))
  /\ Going(r, "opening")
  /\ UNCHANGED <<cursor, failed, listed>>

\* The proof of a stream ends every startup of the slot, the first time.
Proved(x) == IF x.valid THEN StartupEnded(x) ELSE Validated(x)

\* The stream opens and is proved; another slot than the one asked for is
\* answered with a redirect.
Opened(r) ==
  /\ rq[r].pc = "opening" /\ rq[r].own
  /\ LET s == rq[r].slot IN WithSession(s, Proved(ses[s]))
  /\ IF rq[r].slot = rq[r].asked THEN Going(r, "ready") ELSE Done(r)
  /\ UNCHANGED <<cursor, failed, listed>>

\* It does not: the copy is bad, or the session was closed and is empty ("session
\* has no NZB and no deferred download info").
OpenFails(r) ==
  /\ rq[r].pc = "opening"
  /\ LET s == rq[r].slot IN WithSession(s, StartupEnded(ses[s]))
  /\ Going(r, "fails")
  /\ UNCHANGED <<cursor, failed, listed>>

\* A slip: a canceled open is not counted off.
OpenCanceledKeepsCount(r) ==
  /\ rq[r].pc = "opening"
  /\ Done(r)
  /\ UNCHANGED <<ses, cursor, failed, listed>>

\* The client left, or the closing was seen first.
OpenCanceled(r) ==
  /\ rq[r].pc = "opening"
  /\ LET s == rq[r].slot IN WithSession(s, StartupEnded(ses[s]))
  /\ Done(r)
  /\ UNCHANGED <<cursor, failed, listed>>

\* retrySlotWithNextCopy: move the cursor on, delete the session, resolve the slot.
\* AdvanceSlotCopy loads the cursor here ...
NextCopy(r) ==
  LET s == rq[r].slot
  IN /\ rq[r].pc = "fails"
     /\ IF CanAdvance(s) THEN Reads(r, "advance", cursor[s] + 1) ELSE Going(r, "giveup")
     /\ UNCHANGED <<ses, cursor, failed, listed>>

\* ... and stores it one further, whatever it has become.
Advance(r) ==
  /\ rq[r].pc \in {"advance", "bump"}
  /\ cursor' = [cursor EXCEPT ![rq[r].slot] = rq[r].idx]
  /\ Reads(r, IF rq[r].pc = "advance" THEN "retire" ELSE "drop", 0)
  /\ UNCHANGED <<ses, failed, listed>>

Retire(r) ==
  /\ rq[r].pc = "retire"
  /\ Deletes(r, "rebuild")
  /\ UNCHANGED <<cursor, failed, listed>>

\* The list is asked for again: the slot may have been struck from it.
Rebuild(r) ==
  /\ rq[r].pc = "rebuild"
  /\ IF rq[r].slot \in listed THEN Becomes(r, [rq[r] EXCEPT !.pc = "note", !.from = "rebuild"])
     ELSE Going(r, "exhaust")
  /\ UNCHANGED <<ses, cursor, failed, listed>>

\* ExhaustSlotCopies parks the cursor past the last copy.
Exhaust(r) ==
  /\ rq[r].pc = "exhaust"
  /\ cursor' = [cursor EXCEPT ![rq[r].slot] = Copies[rq[r].slot]]
  /\ Going(r, "giveup")
  /\ UNCHANGED <<ses, failed, listed>>

\* recordFailedSlot: mark the slot, report, strike it from the list (a closed
\* session no longer knows its release's URL), delete the session.
GiveUpSlot(r) ==
  /\ rq[r].pc = "giveup"
  /\ failed' = failed \cup {rq[r].slot}
  /\ Going(r, "strike")
  /\ UNCHANGED <<ses, cursor, listed>>

Strike(r) ==
  /\ rq[r].pc = "strike"
  /\ listed' = IF rq[r].own THEN listed \ {rq[r].slot} ELSE listed
  /\ failed' = failed \cup {rq[r].slot}
  /\ Deletes(r, "next")
  /\ UNCHANGED cursor

\* nextFallbackSlot, after a failure or past a slot known to have failed: the list
\* is asked for and walked (switchToNextFallback).
NextSlot(r) ==
  /\ rq[r].pc = "next" \/ (rq[r].pc = "look" /\ rq[r].slot \in failed)
  /\ Walks(r, rq[r].slot, listed, "walk")
  /\ UNCHANGED <<ses, cursor, failed, listed>>

-------------------------------------------------------------------------------
(* Serving (servePlaybackStream).                                          *)

Serve(r) ==
  /\ rq[r].pc = "ready"
  /\ LET s == rq[r].slot IN WithSession(s, PlaybackBegun(Validated(ses[s])))
  /\ Going(r, "serving")
  /\ UNCHANGED <<cursor, failed, listed>>

ServeEnds(r) ==
  /\ rq[r].pc = "serving"
  /\ Lets(r, "ending")
  /\ UNCHANGED <<ses, cursor, failed, listed>>

ReadFails(r) ==
  /\ rq[r].pc = "serving" /\ rq[r].own
  /\ Going(r, "broken")
  /\ UNCHANGED <<ses, cursor, failed, listed>>

\* onReadError: the session the slot has now is looked up.
OnReadError(r) ==
  LET s == rq[r].slot
  IN /\ rq[r].pc = "broken"
     /\ IF ses[s].open THEN Becomes(r, [rq[r] EXCEPT !.pc = "blame", !.own = TRUE]) /\ UNCHANGED failed
        ELSE Lets(r, "ending") /\ failed' = failed \cup {s}
     /\ UNCHANGED <<ses, cursor, listed>>

\* The slot moves on to its next copy and the session goes, or the slot is marked
\* and struck from the list.
Blame(r) ==
  LET s == rq[r].slot
  IN /\ rq[r].pc = "blame"
     /\ IF CanAdvance(s) THEN Reads(r, "bump", cursor[s] + 1) /\ UNCHANGED <<failed, listed>>
        ELSE /\ failed' = failed \cup {s}
             /\ listed' = IF rq[r].own THEN listed \ {s} ELSE listed
             /\ Lets(r, "ending")
     /\ UNCHANGED <<ses, cursor>>

Drop(r) ==
  /\ rq[r].pc = "drop"
  /\ Deletes(r, "ending")
  /\ UNCHANGED <<cursor, failed, listed>>

\* EndPlayback: withSession takes the session out of the map and then, under the
\* session's own lock, writes to it.
EndPlayback(r) ==
  /\ rq[r].pc = "ending"
  /\ IF ses[rq[r].slot].open THEN Becomes(r, [rq[r] EXCEPT !.pc = "leaving", !.own = TRUE]) ELSE Done(r)
  /\ UNCHANGED <<ses, cursor, failed, listed>>

Leave(r) ==
  /\ rq[r].pc = "leaving"
  /\ ses' = IF rq[r].own THEN [ses EXCEPT ![rq[r].slot] = PlaybackEnded(@)] ELSE ses
  /\ Done(r)
  /\ UNCHANGED <<cursor, failed, listed>>

-------------------------------------------------------------------------------
\* The dashboard closes a session, or cleanup evicts it.
Close(s) ==
  /\ s \in Closing /\ ses[s].open
  /\ ses' = [ses EXCEPT ![s] = NoSession]
  /\ rq' = [q \in Requests |-> IF rq[q].slot = s THEN [rq[q] EXCEPT !.own = FALSE] ELSE rq[q]]
  /\ UNCHANGED <<cursor, failed, listed>>

Resolving(r) ==
  \/ NoteLoads(r) \/ NoteStores(r) \/ Choose(r) \/ Create(r) \/ Get(r)
  \/ Bootstrap(r) \/ Refresh(r) \/ Walk(r)
  \/ Start(r) \/ Opened(r) \/ OpenFails(r) \/ OpenCanceled(r)
  \/ NextCopy(r) \/ Advance(r) \/ Retire(r) \/ Rebuild(r) \/ Exhaust(r)
  \/ GiveUpSlot(r) \/ Strike(r) \/ NextSlot(r)

Serving(r) == Serve(r) \/ OnReadError(r) \/ Blame(r) \/ Drop(r) \/ EndPlayback(r) \/ Leave(r)

Next ==
  \/ \E r \in Requests :
       \/ Resolving(r) \/ Serving(r) \/ ServeEnds(r) \/ ReadFails(r)
       \/ Show(r) \/ \E s \in Slots : Play(r, s)
  \/ \E s \in Slots : Close(s)

SlotsSpec == SlotsInit /\ [][Next]_vars

\* A handler runs: an open has its startup timeout; how long a serve lasts is the
\* player's business.
FairSlotsSpec ==
  SlotsSpec /\ \A r \in Requests : WF_vars(Resolving(r) \/ Serving(r))

-------------------------------------------------------------------------------
(* Properties.                                                             *)

Phases == {"idle", "list", "refresh", "note", "store", "index", "create", "get", "walk",
           "look", "opening", "fails", "advance", "retire", "rebuild", "exhaust", "giveup",
           "strike", "next", "ready", "serving", "broken", "blame", "bump", "drop", "ending",
           "leaving"}

\* The variables keep their types, and who holds the session of its slot has an open one.
SlotsTypeOK ==
  /\ \A s \in Slots :
       /\ {ses[s].open, ses[s].valid} \subseteq BOOLEAN
       /\ {ses[s].plays, ses[s].starting} \subseteq Nat
       /\ ses[s].copy \in 0 .. Copies[s] - 1 /\ cursor[s] \in 0 .. Copies[s]
  /\ failed \subseteq Slots /\ listed \subseteq Slots
  /\ \A r \in Requests :
       /\ rq[r].pc \in Phases /\ rq[r].asked \in Slots \cup {0} /\ rq[r].slot \in Slots \cup {0}
       /\ rq[r].slot = 0 => rq[r].pc \in {"idle", "list", "refresh", "walk"}
       /\ rq[r].own \in BOOLEAN /\ rq[r].own => rq[r].slot \in Slots /\ ses[rq[r].slot].open
       /\ rq[r].list \subseteq Slots
       /\ rq[r].from \in {"play", "refresh", "recover", "walk", "rebuild"}
       /\ rq[r].pc \in {"store", "create", "advance", "bump"} =>
            rq[r].idx \in 0 .. Copies[rq[r].slot] - 1

Now(s, phases) == {r \in Requests : rq[r].slot = s /\ rq[r].pc \in phases}

\* A session in the map counts no play or startup that is over, which would keep
\* it from being evicted or replaced.
CountsNotInflated ==
  \A s \in Slots :
    /\ ses[s].plays <= Cardinality(Now(s, {"serving", "broken", "blame", "bump", "drop",
                                            "ending", "leaving"}))
    /\ ses[s].starting <= Cardinality(Now(s, {"opening"}))

\* A store of the cursor that took no notice of an advance since it was loaded, and
\* sets it back.
StoredLate(s) ==
  \E r \in Requests :
    /\ rq[r].slot = s /\ rq[r].pc \in {"store", "advance", "bump"} /\ rq'[r].pc # rq[r].pc
    /\ rq[r].idx < cursor[s] /\ rq[r].idx < Copies[s] - 1

\* The slot plays, or is about to, a copy its cursor has not come to.
Ahead(s) ==
  \/ ses[s].open /\ ses[s].copy > cursor[s]
  \/ \E r \in Requests : rq[r].slot = s /\ rq[r].pc = "create" /\ rq[r].idx > cursor[s]

\* A slot never plays a copy of its release that the cursor has not come to, nor
\* leaves the cursor behind the copy it plays: it would try again what has failed.
\* Only a store that lost an advance does that (manager.go:1643, 1676).
CopiesForward == [][\A s \in Slots : Ahead(s)' => Ahead(s) \/ StoredLate(s)]_vars

\* Every request is answered: the walk over copies and slots ends, unless advances
\* of the cursor are lost again and again.
Resolves ==
  <>[][\A s \in Slots : ~StoredLate(s)]_vars
    => \A r \in Requests : rq[r].pc # "idle" ~> rq[r].pc \in {"idle", "serving"}

\* "Another indexer's copy of the same release comes before a different release"
\* (play_resolve.go): a slot is given up over the copy it is at, not over one that
\* another request has moved on from.
CopiesTriedFirst ==
  [][\A r \in Requests : rq[r].pc = "fails" /\ rq'[r].pc = "giveup" => rq[r].own]_vars

\* NoteSlotCopies refreshes "the entry without disturbing which copy is current"
\* (manager.go): it takes no advance back.
NoteKeepsCursor ==
  [][\A r \in Requests : rq[r].pc = "store" /\ rq'[r].pc # "store"
       => \A s \in Slots : ~StoredLate(s)]_vars

\* "IsActivelyServing returns true if at least one goroutine is currently serving
\* this session" (manager.go).
ServedIsCounted ==
  \A r \in Requests : rq[r].pc = "serving" /\ rq[r].own => ses[rq[r].slot].plays > 0

\* withSession "does nothing when the session is gone" (manager.go): its change is
\* not made to a closed session, whose client map is nil.
NothingWhenGone ==
  [][\A r \in Requests : rq[r].pc = "leaving" /\ rq'[r].pc # "leaving" => rq[r].own]_vars
===============================================================================
