----------------------------- MODULE ProviderViews -----------------------------
(***************************************************************************)
(* The provider list of the usenet pool and the views cut from it          *)
(* (pkg/usenet/pool/pool.go, UpdateProviders and Subset).                  *)
(*                                                                         *)
(* A provider is one entry of the configuration with its client pool; the  *)
(* entry that replaces it after its account was edited is another provider *)
(* with the same ID.  The pool fetches through views: every stream holds   *)
(* one, and a reload resolves all of them again against the new list.      *)
(* Reloads are serialised by the application's lock, Subset is not: it may *)
(* run at any moment of an update.                                         *)
(***************************************************************************)
EXTENDS Integers, FiniteSets, SequencesExt

CONSTANTS Providers,   \* configured providers, one per ID and settings
          Ids,         \* provider IDs
          IdOf,        \* IdOf[p]: the ID of p
          Backups,     \* the providers flagged as backup
          Initial,     \* the list NewPool starts with, by priority
          Lists,       \* the lists a reload may install, by priority
          Views,       \* slots for the views that are referenced somewhere
          Selections   \* the ID lists views ask for; <<>> asks for everything

ASSUME ViewsAssumption ==
  /\ IdOf \in [Providers -> Ids]
  /\ Backups \subseteq Providers
  /\ Selections \subseteq Seq(Ids)
  /\ Len(Initial) > 0
  /\ \A list \in Lists \cup {Initial} :
       /\ list \in Seq(Providers)
       /\ \A i, j \in DOMAIN list : IdOf[list[i]] = IdOf[list[j]] => i = j

VARIABLES root,    \* the root pool's providers, in fetch order
          view,    \* view[v]: what v asked for, its providers, and how far
                   \* Subset has come with it
          update   \* the UpdateProviders call under way: the views it collected
                   \* and those it has not moved yet

viewVars == <<root, view, update>>

NoView == [step |-> "none", selection |-> <<>>, list |-> <<>>]
Idle == [step |-> "idle", views |-> {}, left |-> {}]

\* normalizeBackupTier: a backup is held back only behind a primary.
InReserve(list, p) == p \in Backups /\ \E q \in Range(list) : q \notin Backups

\* The elements of s that are in S, in the order of s.  (SelectSeq, as a recursive
\* function, which the proofs can unfold.)
Only(s, S) ==
  LET kept[n \in 0 .. Len(s)] ==
        IF n = 0 THEN <<>>
        ELSE IF s[n] \in S THEN Append(kept[n - 1], s[n]) ELSE kept[n - 1]
  IN kept[Len(s)]

Primaries(list) == {p \in Range(list) : ~InReserve(list, p)}
IdsOf(list) == {IdOf[p] : p \in Range(list)}

\* orderProviders: primaries ahead of backups, by priority within each tier.
OrderProviders(list) ==
  Only(list, Primaries(list)) \o Only(list, Range(list) \ Primaries(list))

\* resolveView: everything, or the selected IDs that exist, in their order.
Chosen(list, selection) == Only(selection, IdsOf(list))

Resolve(list, selection) ==
  IF selection = <<>> THEN list
  ELSE LET ids == Chosen(list, selection)
       IN [k \in DOMAIN ids |-> CHOOSE p \in Range(list) : IdOf[p] = ids[k]]

\* A live view whose whole selection is gone falls back to the root's list.
Reresolve(list, selection) ==
  IF Resolve(list, selection) = <<>> THEN list ELSE Resolve(list, selection)

ViewsInit ==
  /\ root = OrderProviders(Initial)
  /\ view = [v \in Views |-> NoView]
  /\ update = Idle

Live == {v \in Views : view[v].step = "live"}

-------------------------------------------------------------------------------
(* Subset.                                                                 *)

\* The selection is cut down to IDs the pool has; with none left there is no
\* view.
Select(v, ids) ==
  /\ view[v].step = "none"
  /\ ids = <<>> \/ Chosen(root, ids) # <<>>
  /\ view' = [view EXCEPT ![v].step = "selected", ![v].selection = Chosen(root, ids)]
  /\ UNCHANGED <<root, update>>

\* The providers are resolved under the root's lock, taken anew.
TakeProviders(v) ==
  LET list == Resolve(root, view[v].selection)
  IN /\ view[v].step = "selected"
     /\ view' = [view EXCEPT ![v] = IF list = <<>> THEN NoView
                                    ELSE [@ EXCEPT !.step = "resolved", !.list = list]]
     /\ UNCHANGED <<root, update>>

Register(v) ==
  /\ view[v].step = "resolved"
  /\ view' = [view EXCEPT ![v].step = "live"]
  /\ UNCHANGED <<root, update>>

\* The session that held v is gone.  The registry's pointer is weak, but an
\* update that collected v holds it until it is done.
Drop(v) ==
  /\ v \in Live \ update.views
  /\ view' = [view EXCEPT ![v] = NoView]
  /\ UNCHANGED <<root, update>>

-------------------------------------------------------------------------------
(* UpdateProviders.                                                        *)

SwapRoot(list) ==
  /\ update.step = "idle"
  /\ root' = OrderProviders(list)
  /\ update' = [update EXCEPT !.step = "swapped"]
  /\ UNCHANGED view

CollectViews ==
  /\ update.step = "swapped"
  /\ update' = IF Live = {} THEN Idle ELSE [step |-> "moving", views |-> Live, left |-> Live]
  /\ UNCHANGED <<root, view>>

Moved(v) == update' = IF update.left = {v} THEN Idle ELSE [update EXCEPT !.left = @ \ {v}]

\* A slip: a view whose selection is gone is left with nothing.
MoveViewWithoutFallback(v) ==
  /\ v \in update.left
  /\ view' = [view EXCEPT ![v].list = Resolve(root, view[v].selection)]
  /\ Moved(v)
  /\ UNCHANGED root

MoveView(v) ==
  /\ v \in update.left
  /\ view' = [view EXCEPT ![v].list = Reresolve(root, view[v].selection)]
  /\ Moved(v)
  /\ UNCHANGED root

ViewsNext ==
  \/ \E v \in Views, ids \in Selections : Select(v, ids)
  \/ \E v \in Views : TakeProviders(v) \/ Register(v) \/ Drop(v) \/ MoveView(v)
  \/ \E list \in Lists : SwapRoot(list)
  \/ CollectViews

ViewsSpec == ViewsInit /\ [][ViewsNext]_viewVars

-------------------------------------------------------------------------------
(* Properties.                                                             *)

ViewsTypeOK ==
  /\ root \in Seq(Providers)
  /\ view \in [Views -> [step : {"none", "selected", "resolved", "live"},
                         selection : Seq(Ids), list : Seq(Providers)]]
  /\ update \in [step : {"idle", "swapped", "moving"}, views : SUBSET Views, left : SUBSET Views]

Follows(v) == view[v].list = Reresolve(root, view[v].selection)

\* A view whose selection is gone gets "the same fallback rather than a dead
\* stream" (pool.go:705-708): between updates a view has no providers only when
\* the pool has none, whatever was removed while it was being cut.
NoDeadStream ==
  update.step = "idle" => \A v \in Live : view[v].list = <<>> => root = <<>>

\* "UpdateProviders swaps the provider set in place, for the pool and for every
\* Subset cut from it" (pool.go:671-672): no view is left on an older list.
EveryViewFollows == update.step = "idle" => \A v \in Live : Follows(v)
===============================================================================
