------------------------------ MODULE SlotsProofs ------------------------------
(***************************************************************************)
(* What PlaySlots promises for any requests, slots and copies: what a      *)
(* session of the map counts is somebody's, and a slot plays no copy its   *)
(* cursor has not come to unless a store lost an advance.                  *)
(***************************************************************************)
EXTENDS PlaySlots, FiniteSetTheorems, WellFoundedInduction, TLAPS

-------------------------------------------------------------------------------
(* The inductive invariant.                                                *)

Reasons == {"play", "refresh", "recover", "walk", "rebuild"}
SessionRecord == [open : BOOLEAN, copy : Nat, plays : Nat, starting : Nat, valid : BOOLEAN]
RequestRecord == [pc : Phases, asked : Slots \cup {0}, slot : Slots \cup {0}, own : BOOLEAN,
                  list : SUBSET Slots, from : Reasons, idx : Nat]

\* A slot is at one of its copies, or parked past the last.
Cursors == {f \in [Slots -> Nat] : \A s \in Slots : f[s] <= Copies[s]}

Typed ==
  /\ ses \in [Slots -> SessionRecord]
  /\ cursor \in Cursors
  /\ failed \subseteq Slots /\ listed \subseteq Slots
  /\ rq \in [Requests -> RequestRecord]

\* The phases of one that has no session in hand.
Empty == {"idle", "list", "refresh", "note", "store", "index", "create", "get", "walk", "rebuild"}

\* A request at work is at a slot, and what it read of the cursor is a copy of it.
Placed(x) ==
  /\ x.pc \in Empty => ~x.own
  /\ x.pc \notin {"idle", "list", "refresh", "walk"} => x.slot \in Slots
  /\ x.pc \in {"store", "create", "advance", "bump"} => x.idx < Copies[x.slot]

\* Who holds the session of its slot has an open one.
Held == \A r \in Requests : rq[r].own => rq[r].slot \in Slots /\ ses[rq[r].slot].open

\* A session is of a copy its slot has; without one nothing is counted.
Made == \A s \in Slots :
  /\ ses[s].copy < Copies[s]
  /\ ~ses[s].open => ses[s].plays = 0 /\ ses[s].starting = 0

\* x is to take a play off the session of slot s, or a startup.
Owes(x, s) ==
  /\ x.slot = s
  /\ x.pc \in {"serving", "broken", "blame", "bump", "drop", "ending"} \/ (x.pc = "leaving" /\ x.own)
Opens(x, s) == x.slot = s /\ x.pc = "opening"

Players(s) == {r \in Requests : Owes(rq[r], s)}
Openers(s) == {r \in Requests : Opens(rq[r], s)}

Counted ==
  \A s \in Slots : /\ ses[s].plays <= Cardinality(Players(s))
                   /\ ses[s].starting <= Cardinality(Openers(s))

SlotsInv == Typed /\ (\A r \in Requests : Placed(rq[r])) /\ Held /\ Made /\ Counted

-------------------------------------------------------------------------------
(* One request moves.                                                      *)

\* A count that was a and is b follows the people counted, of whom one had a part
\* in it and has one.
Follows(b, a, had, has) ==
  \/ b = 0
  \/ b <= a /\ (had => has)
  \/ b <= a - 1
  \/ b <= a + 1 /\ has /\ ~had

LEMMA CountFollows ==
  ASSUME NEW A \in SUBSET Requests, NEW B \in SUBSET Requests, NEW r,
         A \ {r} = B \ {r},
         NEW a \in Nat, NEW b \in Nat, a <= Cardinality(A), Follows(b, a, r \in A, r \in B)
  PROVE  b <= Cardinality(B)
<1>1. /\ IsFiniteSet(A) /\ IsFiniteSet(B)
      /\ Cardinality(A) \in Nat /\ Cardinality(B) \in Nat
  BY SlotsAssumption, FS_Subset, FS_CardinalityType
<1>2. CASE r \in A /\ r \in B
  <2>1. A = B
    BY <1>2
  <2> QED BY <1>1, <1>2, <2>1 DEF Follows
<1>3. CASE r \notin A /\ r \notin B
  <2>1. A = B
    BY <1>3
  <2> QED BY <1>1, <1>3, <2>1 DEF Follows
<1>4. CASE r \in A /\ r \notin B
  <2>1. B = A \ {r}
    BY <1>4
  <2>2. Cardinality(B) = Cardinality(A) - 1
    BY <1>1, <1>4, <2>1, FS_RemoveElement
  <2> QED BY <1>1, <1>4, <2>2 DEF Follows
<1>5. CASE r \notin A /\ r \in B
  <2>1. B = A \cup {r}
    BY <1>5
  <2>2. Cardinality(B) = Cardinality(A) + 1
    BY <1>1, <1>5, <2>1, FS_AddElement
  <2> QED BY <1>1, <1>5, <2>2 DEF Follows
<1> QED BY <1>2, <1>3, <1>4, <1>5

\* What holds of a slot and of the record of a request.
LEMMA SlotTyped ==
  ASSUME SlotsInv, NEW s \in Slots
  PROVE  /\ Copies[s] \in Nat \ {0} /\ cursor[s] \in Nat /\ cursor[s] <= Copies[s]
         /\ ses[s] \in SessionRecord
         /\ ses[s].open \in BOOLEAN /\ ses[s].valid \in BOOLEAN
         /\ ses[s].copy \in Nat /\ ses[s].plays \in Nat /\ ses[s].starting \in Nat
         /\ ses[s].copy < Copies[s]
         /\ ~ses[s].open => ses[s].plays = 0 /\ ses[s].starting = 0
  BY SlotsAssumption DEF SlotsInv, Typed, Cursors, SessionRecord, Made

LEMMA RequestTyped ==
  ASSUME SlotsInv, NEW r \in Requests
  PROVE  /\ rq[r] \in RequestRecord /\ Placed(rq[r])
         /\ rq[r].pc \in Phases /\ rq[r].asked \in Slots \cup {0} /\ rq[r].slot \in Slots \cup {0}
         /\ rq[r].own \in BOOLEAN /\ rq[r].list \subseteq Slots
         /\ rq[r].from \in Reasons /\ rq[r].idx \in Nat
         /\ rq[r].own => rq[r].slot \in Slots /\ ses[rq[r].slot].open
  BY DEF SlotsInv, Typed, RequestRecord, Held

\* The step of CopiesForward.
Forward == \A s \in Slots : Ahead(s)' => Ahead(s) \/ StoredLate(s)

\* The people counted change by r alone.
LEMMA CountsFollow ==
  ASSUME SlotsInv, NEW r, NEW t \in Slots, NEW y \in SessionRecord,
         \A q \in Requests \ {r} : rq'[q] = rq[q],
         r \in Requests =>
           /\ Follows(y.plays, ses[t].plays, Owes(rq[r], t), Owes(rq'[r], t))
           /\ Follows(y.starting, ses[t].starting, Opens(rq[r], t), Opens(rq'[r], t)),
         r \notin Requests => y.plays <= ses[t].plays /\ y.starting <= ses[t].starting
  PROVE  y.plays <= Cardinality(Players(t)') /\ y.starting <= Cardinality(Openers(t)')
<1>1. /\ y.plays \in Nat /\ y.starting \in Nat
      /\ ses[t].plays \in Nat /\ ses[t].starting \in Nat
      /\ ses[t].plays <= Cardinality(Players(t)) /\ ses[t].starting <= Cardinality(Openers(t))
  BY SlotTyped DEF SessionRecord, SlotsInv, Counted
<1>2. /\ Players(t) \in SUBSET Requests /\ Players(t)' \in SUBSET Requests
      /\ Players(t) \ {r} = Players(t)' \ {r}
  BY DEF Players
<1>3. /\ Openers(t) \in SUBSET Requests /\ Openers(t)' \in SUBSET Requests
      /\ Openers(t) \ {r} = Openers(t)' \ {r}
  BY DEF Openers
<1>4. CASE r \in Requests
  <2>1. /\ r \in Players(t) <=> Owes(rq[r], t)
        /\ r \in Players(t)' <=> Owes(rq'[r], t)
        /\ r \in Openers(t) <=> Opens(rq[r], t)
        /\ r \in Openers(t)' <=> Opens(rq'[r], t)
    BY <1>4 DEF Players, Openers
  <2>2. /\ Follows(y.plays, ses[t].plays, r \in Players(t), r \in Players(t)')
        /\ Follows(y.starting, ses[t].starting, r \in Openers(t), r \in Openers(t)')
    BY <1>4, <2>1 DEF Follows
  <2>3. y.plays <= Cardinality(Players(t)')
    BY <1>1, <1>2, <2>2, CountFollows
  <2>4. y.starting <= Cardinality(Openers(t)')
    BY <1>1, <1>3, <2>2, CountFollows
  <2> QED BY <2>3, <2>4
<1>5. CASE r \notin Requests
  <2>1. Players(t)' = Players(t) /\ Openers(t)' = Openers(t)
    BY <1>2, <1>3, <1>5
  <2>2. Cardinality(Players(t)) \in Nat /\ Cardinality(Openers(t)) \in Nat
    BY <1>2, <1>3, SlotsAssumption, FS_Subset, FS_CardinalityType
  <2> QED BY <1>1, <1>5, <2>1, <2>2
<1> QED BY <1>4, <1>5

\* r becomes x and no session leaves the map: what a session counts goes with r,
\* and a cursor goes back to the last copy only, or by a late store.
LEMMA Moves ==
  ASSUME SlotsInv, NEW r \in Requests, NEW x \in RequestRecord, Becomes(r, x), Placed(x),
         x.own => x.slot \in Slots /\ ses[x.slot].open,
         x.pc = "create" => x.idx <= cursor'[x.slot],
         ses' \in [Slots -> SessionRecord],
         \A t \in Slots :
           /\ ses'[t].open = ses[t].open /\ ses'[t].copy = ses[t].copy
           /\ ~ses[t].open => ses'[t] = ses[t]
           /\ Follows(ses'[t].plays, ses[t].plays, Owes(rq[r], t), Owes(x, t))
           /\ Follows(ses'[t].starting, ses[t].starting, Opens(rq[r], t), Opens(x, t)),
         cursor' \in Cursors, failed' \subseteq Slots, listed' \subseteq Slots,
         \A t \in Slots : \/ cursor'[t] >= cursor[t] \/ cursor'[t] >= Copies[t] - 1
                          \/ StoredLate(t)
  PROVE  SlotsInv' /\ Forward
<1>1. /\ rq'[r] = x /\ \A q \in Requests \ {r} : rq'[q] = rq[q]
      /\ rq' \in [Requests -> RequestRecord]
  BY DEF Becomes, SlotsInv, Typed
<1>2. Typed'
  BY <1>1 DEF Typed
<1>3. \A q \in Requests : Placed(rq'[q])
  BY <1>1 DEF SlotsInv
<1>4. Held'
  BY <1>1 DEF Held, SlotsInv
<1>5. Made'
  BY DEF Made, SlotsInv
<1>6. Counted'
  <2>1. ASSUME NEW t \in Slots
        PROVE  /\ ses'[t].plays <= Cardinality(Players(t)')
               /\ ses'[t].starting <= Cardinality(Openers(t)')
    BY <1>1, CountsFollow
  <2> QED BY <2>1 DEF Counted
<1>7. Forward
  <2> SUFFICES ASSUME NEW s \in Slots, Ahead(s)', ~StoredLate(s) PROVE Ahead(s)
    BY DEF Forward
  <2>1. /\ Copies[s] \in Nat /\ cursor[s] \in Nat /\ cursor'[s] \in Nat
        /\ ses[s].copy \in Nat /\ ses[s].copy < Copies[s]
    BY SlotTyped DEF Cursors
  <2>2. CASE ses'[s].open /\ ses'[s].copy > cursor'[s]
    BY <2>1, <2>2 DEF Ahead
  <2>3. ASSUME NEW q \in Requests, rq'[q].slot = s, rq'[q].pc = "create", rq'[q].idx > cursor'[s]
        PROVE  Ahead(s)
    <3>1. q # r /\ rq'[q] = rq[q]
      <4>1. x.idx \in Nat
        BY DEF RequestRecord
      <4> QED BY <1>1, <2>1, <2>3, <4>1
    <3>2. rq[q].idx \in Nat /\ rq[q].idx < Copies[s]
      BY <2>3, <3>1, RequestTyped DEF Placed, Empty
    <3> QED BY <2>1, <2>3, <3>1, <3>2 DEF Ahead
  <2> QED BY <2>2, <2>3 DEF Ahead
<1> QED BY <1>2, <1>3, <1>4, <1>5, <1>6, <1>7 DEF SlotsInv

\* r becomes x, and sessions and cursors stay.
LEMMA Quiet ==
  ASSUME SlotsInv, NEW r \in Requests, NEW x \in RequestRecord, Becomes(r, x), Placed(x),
         x.own => x.slot \in Slots /\ ses[x.slot].open,
         x.pc = "create" => x.idx <= cursor[x.slot],
         \A t \in Slots : (Owes(rq[r], t) => Owes(x, t)) /\ (Opens(rq[r], t) => Opens(x, t)),
         UNCHANGED <<ses, cursor>>, failed' \subseteq Slots, listed' \subseteq Slots
  PROVE  SlotsInv' /\ Forward
<1>1. ses' \in [Slots -> SessionRecord] /\ cursor' \in Cursors
  BY DEF SlotsInv, Typed
<1>2. ASSUME NEW t \in Slots
      PROVE  /\ ses'[t].open = ses[t].open /\ ses'[t].copy = ses[t].copy
             /\ ~ses[t].open => ses'[t] = ses[t]
             /\ Follows(ses'[t].plays, ses[t].plays, Owes(rq[r], t), Owes(x, t))
             /\ Follows(ses'[t].starting, ses[t].starting, Opens(rq[r], t), Opens(x, t))
             /\ cursor'[t] >= cursor[t]
  <2>1. ses[t].plays \in Nat /\ ses[t].starting \in Nat /\ cursor[t] \in Nat
    BY SlotTyped
  <2> QED BY <2>1 DEF Follows
<1> QED BY <1>1, <1>2, Moves

\* The session of s leaves the map, for y; r, if there is one, is at s and becomes x.
LEMMA Turns ==
  ASSUME SlotsInv, NEW s \in Slots, NEW r, NEW x \in RequestRecord, Leaves(s, r, x), Placed(x),
         r \in Requests => rq[r].slot = s,
         x.slot = s, x.pc # "create",
         NEW y \in SessionRecord, y.plays = 0, y.starting = 0, y.copy < Copies[s],
         x.own => y.open,
         y.open => y.copy <= cursor[s] \/ Ahead(s),
         ses' = [ses EXCEPT ![s] = y],
         cursor' = cursor, failed' \subseteq Slots, listed' \subseteq Slots
  PROVE  SlotsInv' /\ Forward
<1> DEFINE lost(q) == [rq[q] EXCEPT !.own = FALSE]
<1>1. \A q \in Requests : rq'[q] = IF q = r THEN x ELSE IF rq[q].slot = s THEN lost(q) ELSE rq[q]
  BY DEF Leaves
<1>2. ASSUME NEW q \in Requests
      PROVE  /\ lost(q) \in RequestRecord /\ lost(q).pc = rq[q].pc /\ lost(q).slot = rq[q].slot
             /\ ~lost(q).own /\ lost(q).idx = rq[q].idx
  <2>1. PICK z \in RequestRecord : z = rq[q]
    BY RequestTyped
  <2>2. [z EXCEPT !.own = FALSE] \in RequestRecord
    BY DEF RequestRecord
  <2> QED BY <2>1, <2>2 DEF RequestRecord
<1> HIDE DEF lost
<1>3. ASSUME NEW q \in Requests
      PROVE  /\ rq'[q] \in RequestRecord /\ Placed(rq'[q])
             /\ q # r => /\ rq'[q].pc = rq[q].pc /\ rq'[q].slot = rq[q].slot /\ rq'[q].idx = rq[q].idx
                         /\ rq'[q].slot = s => ~rq'[q].own
                         /\ rq'[q].slot # s => rq'[q] = rq[q]
  <2>1. CASE q = r
    BY <1>1, <2>1
  <2>2. CASE q # r /\ rq[q].slot = s
    <3>1. rq'[q] = lost(q) /\ Placed(rq[q])
      BY <1>1, <2>2, RequestTyped
    <3> QED BY <1>2, <2>2, <3>1 DEF Placed, Empty
  <2>3. CASE q # r /\ rq[q].slot # s
    BY <1>1, <2>3, RequestTyped
  <2> QED BY <2>1, <2>2, <2>3
<1>4. Typed'
  <2>1. rq' \in [Requests -> RequestRecord]
    BY <1>3 DEF Leaves
  <2> QED BY <2>1 DEF Typed, SlotsInv
<1>5. ses'[s] = y /\ \A t \in Slots \ {s} : ses'[t] = ses[t]
  BY DEF SlotsInv, Typed
<1>6. Held'
  <2> SUFFICES ASSUME NEW q \in Requests, rq'[q].own
               PROVE  rq'[q].slot \in Slots /\ ses'[rq'[q].slot].open
    BY DEF Held
  <2>1. CASE q = r
    BY <1>1, <1>5, <2>1
  <2>2. CASE q # r
    <3>1. rq'[q] = rq[q] /\ rq[q].slot # s
      BY <1>3, <2>2
    <3>2. rq[q].slot \in Slots /\ ses[rq[q].slot].open
      BY <3>1, RequestTyped
    <3> QED BY <1>5, <3>1, <3>2
  <2> QED BY <2>1, <2>2
<1>7. Made'
  BY <1>5 DEF Made, SlotsInv
<1>8. Counted'
  <2>1. \A t \in Slots : /\ Cardinality(Players(t)') \in Nat
                         /\ Cardinality(Openers(t)') \in Nat
    <3>1. \A t \in Slots : Players(t)' \subseteq Requests /\ Openers(t)' \subseteq Requests
      BY DEF Players, Openers
    <3> QED BY <3>1, SlotsAssumption, FS_Subset, FS_CardinalityType
  <2>2. ASSUME NEW t \in Slots, t # s PROVE Players(t)' = Players(t) /\ Openers(t)' = Openers(t)
    <3>1. ASSUME NEW q \in Requests
          PROVE  (Owes(rq'[q], t) <=> Owes(rq[q], t)) /\ (Opens(rq'[q], t) <=> Opens(rq[q], t))
      BY <1>1, <1>3, <2>2 DEF Owes, Opens
    <3> QED BY <3>1 DEF Players, Openers
  <2>3. ASSUME NEW t \in Slots
        PROVE  /\ ses'[t].plays <= Cardinality(Players(t)')
               /\ ses'[t].starting <= Cardinality(Openers(t)')
    BY <1>5, <2>1, <2>2 DEF SlotsInv, Counted
  <2> QED BY <2>3 DEF Counted
<1>9. Forward
  <2> SUFFICES ASSUME NEW t \in Slots, Ahead(t)' PROVE Ahead(t)
    BY DEF Forward
  <2>1. cursor[t] \in Nat /\ y.copy \in Nat
    BY SlotTyped DEF SessionRecord
  <2>2. CASE ses'[t].open /\ ses'[t].copy > cursor'[t]
    BY <1>5, <2>1, <2>2 DEF Ahead
  <2>3. ASSUME NEW q \in Requests, rq'[q].slot = t, rq'[q].pc = "create", rq'[q].idx > cursor'[t]
        PROVE  Ahead(t)
    BY <1>1, <1>3, <2>3 DEF Ahead
  <2> QED BY <2>2, <2>3 DEF Ahead
<1> QED BY <1>3, <1>4, <1>6, <1>7, <1>8, <1>9 DEF SlotsInv

-------------------------------------------------------------------------------
(* The records requests are left with.                                     *)

LEMMA NoRequestTyped ==
  /\ NoRequest \in RequestRecord /\ Placed(NoRequest) /\ ~NoRequest.own /\ NoRequest.pc = "idle"
  /\ \A s : ~Owes(NoRequest, s) /\ ~Opens(NoRequest, s)
  BY DEF NoRequest, RequestRecord, Reasons, Phases, Placed, Empty, Owes, Opens

\* One that is new but for a few fields: At, Takes, Walks, Play and Show.
LEMMA NewTyped ==
  ASSUME NEW p \in Phases, NEW a \in Slots \cup {0}, NEW s \in Slots \cup {0},
         NEW o \in BOOLEAN, NEW l \in SUBSET Slots, NEW f \in Reasons,
         NEW x, x = [pc |-> p, asked |-> a, slot |-> s, own |-> o, list |-> l, from |-> f, idx |-> 0]
  PROVE  x \in RequestRecord
  BY DEF RequestRecord

\* Going, Reads and Lets: the record y with another phase, value read or hold.
Goes(y, p) == [y EXCEPT !.pc = p]
GoesWith(y, p, i) == [y EXCEPT !.pc = p, !.idx = i]
GoesWithout(y, p) == [y EXCEPT !.pc = p, !.own = FALSE]
GoesHolding(y, p) == [y EXCEPT !.pc = p, !.own = TRUE]

LEMMA GoingTyped ==
  ASSUME SlotsInv, NEW r \in Requests, NEW p \in Phases
  PROVE  /\ Goes(rq[r], p) \in RequestRecord
         /\ Goes(rq[r], p).pc = p /\ Goes(rq[r], p).slot = rq[r].slot
         /\ Goes(rq[r], p).own = rq[r].own /\ Goes(rq[r], p).idx = rq[r].idx
<1>1. PICK y \in RequestRecord : y = rq[r]
  BY RequestTyped
<1> QED BY <1>1 DEF RequestRecord, Goes

LEMMA ReadingTyped ==
  ASSUME SlotsInv, NEW r \in Requests, NEW p \in Phases, NEW i \in Nat
  PROVE  /\ GoesWith(rq[r], p, i) \in RequestRecord
         /\ GoesWith(rq[r], p, i).pc = p /\ GoesWith(rq[r], p, i).slot = rq[r].slot
         /\ GoesWith(rq[r], p, i).own = rq[r].own /\ GoesWith(rq[r], p, i).idx = i
<1>1. PICK y \in RequestRecord : y = rq[r]
  BY RequestTyped
<1> QED BY <1>1 DEF RequestRecord, GoesWith

LEMMA HoldingTyped ==
  ASSUME SlotsInv, NEW r \in Requests, NEW p \in Phases
  PROVE  /\ GoesWithout(rq[r], p) \in RequestRecord
         /\ GoesWithout(rq[r], p).pc = p /\ GoesWithout(rq[r], p).slot = rq[r].slot
         /\ ~GoesWithout(rq[r], p).own
         /\ GoesHolding(rq[r], p) \in RequestRecord
         /\ GoesHolding(rq[r], p).pc = p /\ GoesHolding(rq[r], p).slot = rq[r].slot
         /\ GoesHolding(rq[r], p).own
<1>1. PICK y \in RequestRecord : y = rq[r]
  BY RequestTyped
<1> QED BY <1>1 DEF RequestRecord, GoesWithout, GoesHolding

\* A request that owes nothing and goes on to owe nothing.
Idles(x) == x.pc \notin {"opening", "serving", "broken", "blame", "bump", "drop", "ending", "leaving"}

LEMMA IdlesOwesNothing ==
  ASSUME NEW x, Idles(x)
  PROVE  \A s : ~Owes(x, s) /\ ~Opens(x, s)
  BY DEF Idles, Owes, Opens

\* A set of numbers up to b has a least member.
LEMMA LeastNumber ==
  ASSUME NEW b \in Nat, NEW N \in SUBSET (0 .. b), N # {}
  PROVE  \E m \in N : \A n \in N : m <= n
<1> DEFINE D == {0 .. n : n \in N}
<1>1. IsFiniteSet(0 .. b)
  BY FS_Interval
<1>2. \A d \in SUBSET (0 .. b) : IsFiniteSet(d)
  BY <1>1, FS_Subset
<1>3. FiniteSubsetsOf(0 .. b) = SUBSET (0 .. b)
  BY <1>2 DEF FiniteSubsetsOf
<1>4. IsWellFoundedOn(StrictSubsetOrdering(0 .. b), SUBSET (0 .. b))
  BY <1>1, <1>3, FS_StrictSubsetOrderingWellFounded
<1>5. D # {} /\ D \subseteq SUBSET (0 .. b)
  <2>1. PICK n \in N : TRUE
    OBVIOUS
  <2>2. 0 .. n \in D /\ \A k \in N : 0 .. k \in SUBSET (0 .. b)
    OBVIOUS
  <2> QED BY <2>2
<1>6. PICK d \in D : \A e \in D : ~(<<e, d>> \in StrictSubsetOrdering(0 .. b))
  BY <1>4, <1>5, WFMin
<1>7. PICK m \in N : d = 0 .. m
  BY <1>6
<1>8. ASSUME NEW n \in N, ~(m <= n) PROVE FALSE
  <2>1. /\ 0 .. n \in SUBSET (0 .. b) /\ 0 .. m \in SUBSET (0 .. b)
        /\ (0 .. n) \subseteq (0 .. m) /\ 0 .. n # 0 .. m
    <3>1. m \in 0 .. m /\ m \notin 0 .. n
      BY <1>8
    <3> QED BY <1>8, <3>1
  <2>2. ~(<<0 .. n, 0 .. m>> \in StrictSubsetOrdering(0 .. b))
    BY <1>6, <1>7
  <2> QED BY <2>1, <2>2 DEF StrictSubsetOrdering
<1> QED BY <1>8

LEMMA FirstOf ==
  ASSUME NEW S \in SUBSET Slots, S # {}
  PROVE  First(S) \in S
<1>1. Cardinality(Slots) \in Nat /\ Slots = 1 .. Cardinality(Slots)
  BY SlotsAssumption, FS_CardinalityType
<1>2. S \in SUBSET (0 .. Cardinality(Slots))
  BY <1>1
<1>3. \E s \in S : \A t \in S : s <= t
  BY <1>1, <1>2, LeastNumber
<1> QED BY <1>3 DEF First

\* The session of the slot r is at changes, if it has one, and r becomes x.
LEMMA Changes ==
  ASSUME SlotsInv, NEW r \in Requests, NEW x \in RequestRecord, Becomes(r, x), Placed(x),
         x.own => x.slot \in Slots /\ ses[x.slot].open, x.pc # "create",
         NEW s \in Slots, rq[r].slot = s,
         NEW y \in SessionRecord,
         ses[s].open => y.open /\ y.copy = ses[s].copy,
         ses' = IF ses[s].open THEN [ses EXCEPT ![s] = y] ELSE ses,
         Follows(y.plays, ses[s].plays, Owes(rq[r], s), Owes(x, s)),
         Follows(y.starting, ses[s].starting, Opens(rq[r], s), Opens(x, s)),
         UNCHANGED <<cursor, failed, listed>>
  PROVE  SlotsInv' /\ Forward
<1>1. /\ ses \in [Slots -> SessionRecord] /\ ses' \in [Slots -> SessionRecord]
      /\ cursor' \in Cursors /\ failed' \subseteq Slots /\ listed' \subseteq Slots
  BY DEF SlotsInv, Typed
<1>2. ASSUME NEW t \in Slots
      PROVE  /\ ses'[t].open = ses[t].open /\ ses'[t].copy = ses[t].copy
             /\ ~ses[t].open => ses'[t] = ses[t]
             /\ Follows(ses'[t].plays, ses[t].plays, Owes(rq[r], t), Owes(x, t))
             /\ Follows(ses'[t].starting, ses[t].starting, Opens(rq[r], t), Opens(x, t))
             /\ cursor'[t] >= cursor[t]
  <2>1. /\ ses[t].plays \in Nat /\ ses[t].starting \in Nat /\ cursor[t] \in Nat
        /\ ses[t].open \in BOOLEAN
        /\ ~ses[t].open => ses[t].plays = 0 /\ ses[t].starting = 0
    BY SlotTyped
  <2>2. CASE t # s
    <3>1. ses'[t] = ses[t] /\ ~Owes(rq[r], t) /\ ~Opens(rq[r], t)
      BY <1>1, <2>2 DEF Owes, Opens
    <3> QED BY <2>1, <3>1 DEF Follows
  <2>3. CASE t = s /\ ses[s].open
    <3>1. ses'[s] = y /\ y.open \in BOOLEAN
      BY <1>1, <2>3 DEF SessionRecord
    <3> QED BY <2>1, <2>3, <3>1
  <2>4. CASE t = s /\ ~ses[s].open
    <3>1. ses' = ses
      BY <2>4
    <3>2. 0 \in Nat /\ ses'[s].plays = 0 /\ ses'[s].starting = 0
      BY <2>1, <2>4, <3>1
    <3> QED BY <2>1, <2>4, <3>1, <3>2 DEF Follows
  <2> QED BY <2>2, <2>3, <2>4
<1> QED BY <1>1, <1>2, Moves

\* What a change leaves of a session.
LEMMA SessionChanges ==
  ASSUME NEW z \in SessionRecord
  PROVE  /\ StartupBegun(z) \in SessionRecord /\ StartupBegun(z).open = z.open
         /\ StartupBegun(z).copy = z.copy /\ StartupBegun(z).plays = z.plays
         /\ StartupBegun(z).starting = z.starting + 1
         /\ StartupEnded(z) \in SessionRecord /\ StartupEnded(z).open = z.open
         /\ StartupEnded(z).copy = z.copy /\ StartupEnded(z).plays = z.plays
         /\ StartupEnded(z).starting = Min0(z.starting - 1)
         /\ Validated(z) \in SessionRecord /\ Validated(z).open = z.open
         /\ Validated(z).copy = z.copy /\ Validated(z).plays = z.plays
         /\ Validated(z).starting = 0
         /\ PlaybackBegun(z) \in SessionRecord /\ PlaybackBegun(z).open = z.open
         /\ PlaybackBegun(z).copy = z.copy /\ PlaybackBegun(z).plays = z.plays + 1
         /\ PlaybackBegun(z).starting = z.starting
         /\ PlaybackEnded(z) \in SessionRecord /\ PlaybackEnded(z).open = z.open
         /\ PlaybackEnded(z).copy = z.copy /\ PlaybackEnded(z).plays = Min0(z.plays - 1)
         /\ PlaybackEnded(z).starting = z.starting
<1>1. /\ z.plays \in Nat /\ z.starting \in Nat
      /\ Min0(z.plays - 1) \in Nat /\ Min0(z.starting - 1) \in Nat
  BY DEF SessionRecord, Min0
<1>2. /\ StartupBegun(z) \in SessionRecord /\ StartupBegun(z).open = z.open
      /\ StartupBegun(z).copy = z.copy /\ StartupBegun(z).plays = z.plays
      /\ StartupBegun(z).starting = z.starting + 1
  BY <1>1 DEF SessionRecord, StartupBegun
<1>3. /\ StartupEnded(z) \in SessionRecord /\ StartupEnded(z).open = z.open
      /\ StartupEnded(z).copy = z.copy /\ StartupEnded(z).plays = z.plays
      /\ StartupEnded(z).starting = Min0(z.starting - 1)
  BY <1>1 DEF SessionRecord, StartupEnded
<1>4. /\ Validated(z) \in SessionRecord /\ Validated(z).open = z.open
      /\ Validated(z).copy = z.copy /\ Validated(z).plays = z.plays
      /\ Validated(z).starting = 0
  BY <1>1 DEF SessionRecord, Validated
<1>5. /\ PlaybackBegun(z) \in SessionRecord /\ PlaybackBegun(z).open = z.open
      /\ PlaybackBegun(z).copy = z.copy /\ PlaybackBegun(z).plays = z.plays + 1
      /\ PlaybackBegun(z).starting = z.starting
  BY <1>1 DEF SessionRecord, PlaybackBegun
<1>6. /\ PlaybackEnded(z) \in SessionRecord /\ PlaybackEnded(z).open = z.open
      /\ PlaybackEnded(z).copy = z.copy /\ PlaybackEnded(z).plays = Min0(z.plays - 1)
      /\ PlaybackEnded(z).starting = z.starting
  BY <1>1 DEF SessionRecord, PlaybackEnded
<1> QED BY <1>2, <1>3, <1>4, <1>5, <1>6

-------------------------------------------------------------------------------
(* A slot resolved from a list.                                            *)

\* A cursor read or noted is a copy of the slot.
LEMMA CopiesRead ==
  ASSUME SlotsInv, NEW s \in Slots
  PROVE  /\ Noted(s) \in Nat /\ Noted(s) < Copies[s] /\ Noted(s) <= cursor[s]
         /\ CopyAt(s) \in Nat /\ CopyAt(s) < Copies[s] /\ CopyAt(s) <= cursor[s]
         /\ CanAdvance(s) => cursor[s] + 1 \in Nat /\ cursor[s] + 1 < Copies[s]
  BY SlotTyped DEF Noted, CopyAt, CanAdvance

LEMMA NoteLoadsStep ==
  ASSUME SlotsInv, NEW r \in Requests, NoteLoads(r)
  PROVE  SlotsInv' /\ Forward
<1> DEFINE x == GoesWith(rq[r], "store", Noted(rq[r].slot))
<1>1. /\ rq[r].pc = "note" /\ Becomes(r, x)
      /\ UNCHANGED <<ses, cursor>> /\ failed' = failed /\ listed' = listed
  BY DEF NoteLoads, Reads, GoesWith
<1>2. rq[r].slot \in Slots
  BY <1>1, RequestTyped DEF Placed, Empty
<1>3. Noted(rq[r].slot) \in Nat /\ Noted(rq[r].slot) < Copies[rq[r].slot] /\ "store" \in Phases
  BY <1>2, CopiesRead DEF Phases
<1>4. /\ x \in RequestRecord /\ x.pc = "store" /\ x.slot = rq[r].slot /\ x.own = rq[r].own
      /\ x.idx = Noted(rq[r].slot)
  BY <1>3, ReadingTyped
<1>5. Placed(x) /\ Idles(rq[r]) /\ failed' \subseteq Slots /\ listed' \subseteq Slots
  BY <1>1, <1>2, <1>3, <1>4 DEF Placed, Empty, Idles, SlotsInv, Typed
<1>6. x.own => x.slot \in Slots /\ ses[x.slot].open
  BY <1>4, RequestTyped
<1> QED BY <1>1, <1>4, <1>5, <1>6, IdlesOwesNothing, Quiet

\* A store of a copy of the slot r is at: late, or not back but to the last copy.
LEMMA Stores ==
  ASSUME SlotsInv, NEW r \in Requests, rq[r].slot \in Slots, rq'[r].pc # rq[r].pc,
         rq[r].pc \in {"store", "advance", "bump"},
         rq[r].idx \in Nat, rq[r].idx < Copies[rq[r].slot],
         cursor' = [cursor EXCEPT ![rq[r].slot] = rq[r].idx]
  PROVE  /\ cursor' \in Cursors
         /\ \A t \in Slots : \/ cursor'[t] >= cursor[t] \/ cursor'[t] >= Copies[t] - 1
                             \/ StoredLate(t)
<1> DEFINE s == rq[r].slot
<1>1. /\ cursor \in [Slots -> Nat] /\ cursor' \in [Slots -> Nat]
      /\ cursor'[s] = rq[r].idx /\ \A t \in Slots \ {s} : cursor'[t] = cursor[t]
  BY DEF SlotsInv, Typed, Cursors
<1>2. \A t \in Slots : cursor[t] \in Nat /\ cursor[t] <= Copies[t] /\ Copies[t] \in Nat
  BY SlotTyped
<1>3. cursor' \in Cursors
  BY <1>1, <1>2 DEF Cursors
<1>4. \/ cursor'[s] >= cursor[s] \/ cursor'[s] >= Copies[s] - 1 \/ StoredLate(s)
  BY <1>1, <1>2 DEF StoredLate
<1> QED BY <1>1, <1>2, <1>3, <1>4

LEMMA NoteStoresStep ==
  ASSUME SlotsInv, NEW r \in Requests, NoteStores(r)
  PROVE  SlotsInv' /\ Forward
<1> DEFINE x == GoesWith(rq[r], "index", 0)
           s == rq[r].slot
<1>1. /\ rq[r].pc = "store" /\ Becomes(r, x) /\ cursor' = [cursor EXCEPT ![s] = rq[r].idx]
      /\ ses' = ses /\ failed' = failed /\ listed' = listed
  BY DEF NoteStores, Reads, GoesWith
<1>2. s \in Slots /\ rq[r].idx \in Nat /\ rq[r].idx < Copies[s]
  BY <1>1, RequestTyped DEF Placed, Empty
<1>3. x \in RequestRecord /\ x.pc = "index" /\ x.slot = s /\ x.own = rq[r].own
  BY ReadingTyped DEF Phases
<1>4. /\ Placed(x) /\ Idles(rq[r]) /\ Idles(x)
      /\ failed' \subseteq Slots /\ listed' \subseteq Slots
      /\ ses' \in [Slots -> SessionRecord]
  BY <1>1, <1>2, <1>3 DEF Placed, Empty, Idles, SlotsInv, Typed
<1>5. x.own => x.slot \in Slots /\ ses[x.slot].open
  BY <1>3, RequestTyped
<1>6. /\ cursor' \in Cursors
      /\ \A t \in Slots : \/ cursor'[t] >= cursor[t] \/ cursor'[t] >= Copies[t] - 1
                          \/ StoredLate(t)
  BY <1>1, <1>2, <1>3, Stores DEF Becomes, SlotsInv, Typed
<1>7. \A t \in Slots :
        /\ ses'[t].open = ses[t].open /\ ses'[t].copy = ses[t].copy
        /\ ~ses[t].open => ses'[t] = ses[t]
        /\ Follows(ses'[t].plays, ses[t].plays, Owes(rq[r], t), Owes(x, t))
        /\ Follows(ses'[t].starting, ses[t].starting, Opens(rq[r], t), Opens(x, t))
  BY <1>1, <1>4, IdlesOwesNothing, SlotTyped DEF Follows
<1> QED BY <1>1, <1>3, <1>4, <1>5, <1>6, <1>7, Moves

\* r, who owes nothing, becomes x, and sessions and cursors stay.
LEMMA Calm ==
  ASSUME SlotsInv, NEW r \in Requests, Idles(rq[r]), NEW x \in RequestRecord, Becomes(r, x),
         Placed(x), x.own => x.slot \in Slots /\ ses[x.slot].open,
         x.pc = "create" => x.idx <= cursor[x.slot],
         UNCHANGED <<ses, cursor>>, failed' \subseteq Slots, listed' \subseteq Slots
  PROVE  SlotsInv' /\ Forward
BY IdlesOwesNothing, Quiet

LEMMA ChooseStep ==
  ASSUME SlotsInv, NEW r \in Requests, Choose(r)
  PROVE  SlotsInv' /\ Forward
<1> DEFINE x == GoesWith(rq[r], "create", CopyAt(rq[r].slot))
<1>1. /\ rq[r].pc = "index" /\ Becomes(r, x)
      /\ UNCHANGED <<ses, cursor>> /\ failed' = failed /\ listed' = listed
  BY DEF Choose, Reads, GoesWith
<1>2. rq[r].slot \in Slots
  BY <1>1, RequestTyped DEF Placed, Empty
<1>3. /\ CopyAt(rq[r].slot) \in Nat /\ CopyAt(rq[r].slot) < Copies[rq[r].slot]
      /\ CopyAt(rq[r].slot) <= cursor[rq[r].slot] /\ "create" \in Phases
  BY <1>2, CopiesRead DEF Phases
<1>4. /\ x \in RequestRecord /\ x.pc = "create" /\ x.slot = rq[r].slot /\ x.own = rq[r].own
      /\ x.idx = CopyAt(rq[r].slot)
  BY <1>3, ReadingTyped
<1>5. Placed(x) /\ Idles(rq[r]) /\ failed' \subseteq Slots /\ listed' \subseteq Slots
  BY <1>1, <1>2, <1>3, <1>4 DEF Placed, Empty, Idles, SlotsInv, Typed
<1>6. x.own => x.slot \in Slots /\ ses[x.slot].open
  BY <1>4, RequestTyped
<1>7. x.idx <= cursor[x.slot]
  BY <1>3, <1>4
<1> HIDE DEF x
<1> QED BY <1>1, <1>4, <1>5, <1>6, <1>7, Calm

LEMMA CreateStep ==
  ASSUME SlotsInv, NEW r \in Requests, Create(r)
  PROVE  SlotsInv' /\ Forward
<1> DEFINE s == rq[r].slot
           p == IF rq[r].from = "refresh" THEN "refresh" ELSE "get"
           x == GoesWith(rq[r], p, 0)
           y == Deferred(rq[r].idx)
<1>1. /\ rq[r].pc = "create"
      /\ \/ ses[s].open /\ Becomes(r, x) /\ UNCHANGED ses
         \/ ses' = [ses EXCEPT ![s] = y] /\ Leaves(s, r, x)
      /\ cursor' = cursor /\ failed' = failed /\ listed' = listed
  BY DEF Create, GoesWith
<1>2. /\ s \in Slots /\ rq[r].idx \in Nat /\ rq[r].idx < Copies[s]
      /\ p \in Phases /\ p \in {"refresh", "get"} /\ ~rq[r].own
      /\ failed' \subseteq Slots /\ listed' \subseteq Slots
  BY <1>1, RequestTyped DEF Placed, Empty, Phases, SlotsInv, Typed
<1>3. x \in RequestRecord /\ x.pc = p /\ x.slot = s /\ x.own = rq[r].own
  BY <1>2, ReadingTyped
<1>4. Placed(x) /\ Idles(rq[r]) /\ x.pc # "create"
  BY <1>1, <1>2, <1>3 DEF Placed, Empty, Idles
<1>5. x.own => x.slot \in Slots /\ ses[x.slot].open
  BY <1>3, RequestTyped
<1> HIDE DEF x, p
<1>6. CASE ses[s].open /\ Becomes(r, x) /\ UNCHANGED ses
  BY <1>1, <1>2, <1>3, <1>4, <1>5, <1>6, Calm
<1>7. CASE ses' = [ses EXCEPT ![s] = y] /\ Leaves(s, r, x)
  <2>1. y \in SessionRecord /\ y.open /\ y.plays = 0 /\ y.starting = 0 /\ y.copy = rq[r].idx
    BY <1>2 DEF SessionRecord, Deferred, NoSession
  <2>2. y.copy <= cursor[s] \/ Ahead(s)
    <3>1. cursor[s] \in Nat
      BY <1>2, SlotTyped
    <3> QED BY <1>1, <1>2, <2>1, <3>1 DEF Ahead
  <2> HIDE DEF y
  <2> QED BY <1>1, <1>2, <1>3, <1>4, <1>7, <2>1, <2>2, Turns
<1> QED BY <1>1, <1>6, <1>7

\* The record of one that takes up the session of slot s, or walks from there.
TakenUp(r, s) == [At(r, s, "look") EXCEPT !.own = TRUE]
Walking(r, s, list, from) == [At(r, s, "walk") EXCEPT !.list = list, !.from = from]

LEMMA TakenUpTyped ==
  ASSUME SlotsInv, NEW r \in Requests, NEW s \in Slots
  PROVE  /\ TakenUp(r, s) \in RequestRecord /\ Placed(TakenUp(r, s))
         /\ TakenUp(r, s).pc = "look" /\ TakenUp(r, s).slot = s
<1>1. PICK y \in RequestRecord : y = NoRequest
  BY NoRequestTyped
<1>2. rq[r].asked \in Slots \cup {0}
  BY RequestTyped
<1>3. PICK z \in RequestRecord : z = At(r, s, "look") /\ z.pc = "look" /\ z.slot = s
  <2> DEFINE a == [y EXCEPT !.pc = "look", !.asked = rq[r].asked, !.slot = s]
  <2>1. a \in RequestRecord /\ a.pc = "look" /\ a.slot = s /\ a.own = y.own
    BY <1>2 DEF RequestRecord, Phases
  <2>2. a = At(r, s, "look")
    BY <1>1 DEF At
  <2> QED BY <1>1, <2>1, <2>2
<1>4. /\ TakenUp(r, s) \in RequestRecord
      /\ TakenUp(r, s).pc = "look" /\ TakenUp(r, s).slot = s
  BY <1>3 DEF TakenUp, RequestRecord
<1> QED BY <1>4 DEF Placed, Empty

LEMMA WalkingTyped ==
  ASSUME SlotsInv, NEW r \in Requests, NEW s \in Slots \cup {0}, NEW list \in SUBSET Slots,
         NEW from \in Reasons
  PROVE  /\ Walking(r, s, list, from) \in RequestRecord /\ Placed(Walking(r, s, list, from))
         /\ Walking(r, s, list, from).pc = "walk" /\ ~Walking(r, s, list, from).own
<1>1. PICK y \in RequestRecord : y = NoRequest /\ ~y.own
  BY NoRequestTyped
<1>2. rq[r].asked \in Slots \cup {0}
  BY RequestTyped
<1>3. PICK z \in RequestRecord : z = At(r, s, "walk") /\ z.pc = "walk" /\ ~z.own
  <2> DEFINE a == [y EXCEPT !.pc = "walk", !.asked = rq[r].asked, !.slot = s]
  <2>1. a \in RequestRecord /\ a.pc = "walk" /\ a.slot = s /\ a.own = y.own
    BY <1>2 DEF RequestRecord, Phases
  <2>2. a = At(r, s, "walk")
    BY <1>1 DEF At
  <2> QED BY <1>1, <2>1, <2>2
<1>4. /\ Walking(r, s, list, from) \in RequestRecord
      /\ Walking(r, s, list, from).pc = "walk" /\ ~Walking(r, s, list, from).own
  BY <1>3 DEF Walking, RequestRecord
<1> QED BY <1>4 DEF Placed, Empty

LEMMA GetStep ==
  ASSUME SlotsInv, NEW r \in Requests, Get(r)
  PROVE  SlotsInv' /\ Forward
<1> DEFINE s == rq[r].slot
           x == TakenUp(r, s)
<1>1. /\ rq[r].pc = "get" /\ UNCHANGED <<ses, cursor>> /\ listed' = listed
      /\ \/ ses[s].open /\ Becomes(r, x) /\ failed' = failed
         \/ Becomes(r, Goes(rq[r], "exhaust")) /\ failed' = failed
         \/ Becomes(r, Goes(rq[r], "walk")) /\ failed' = failed \cup {s}
  BY DEF Get, Takes, TakenUp, Going, Goes
<1>2. /\ s \in Slots /\ rq[r].asked \in Slots \cup {0} /\ Idles(rq[r]) /\ ~rq[r].own
      /\ failed' \subseteq Slots /\ listed' \subseteq Slots
  BY <1>1, RequestTyped DEF Placed, Empty, Idles, SlotsInv, Typed
<1>3. CASE ses[s].open /\ Becomes(r, x)
  BY <1>1, <1>2, <1>3, TakenUpTyped, Calm
<1>4. ASSUME NEW p \in {"exhaust", "walk"}, Becomes(r, Goes(rq[r], p))
      PROVE  SlotsInv' /\ Forward
  <2>1. /\ Goes(rq[r], p) \in RequestRecord /\ Goes(rq[r], p).pc = p
        /\ Goes(rq[r], p).slot = s /\ Goes(rq[r], p).own = rq[r].own
    BY GoingTyped DEF Phases
  <2>2. Placed(Goes(rq[r], p)) /\ Goes(rq[r], p).pc # "create"
    BY <1>2, <2>1 DEF Placed, Empty
  <2>3. rq[r].own => s \in Slots /\ ses[s].open
    BY RequestTyped
  <2> QED BY <1>1, <1>2, <1>4, <2>1, <2>2, <2>3, Calm
<1> QED BY <1>1, <1>3, <1>4

-------------------------------------------------------------------------------
(* Resolving.                                                              *)

LEMMA AskingStep ==
  ASSUME SlotsInv, NEW r \in Requests, Show(r) \/ \E s \in Slots : Play(r, s)
  PROVE  SlotsInv' /\ Forward
<1>1. /\ rq[r].pc = "idle" /\ Idles(rq[r])
      /\ UNCHANGED <<ses, cursor>> /\ failed' \subseteq Slots /\ listed' \subseteq Slots
      /\ listed \in SUBSET Slots
  BY DEF Show, Play, Idles, SlotsInv, Typed
<1>2. PICK y \in RequestRecord : y = NoRequest /\ y.pc = "idle" /\ ~y.own
  BY NoRequestTyped
<1>3. CASE Show(r)
  <2> DEFINE x == [y EXCEPT !.pc = "list", !.list = listed]
  <2>1. Becomes(r, x)
    BY <1>2, <1>3 DEF Show
  <2>2. x \in RequestRecord /\ x.pc = "list" /\ ~x.own
    BY <1>1, <1>2 DEF RequestRecord, Phases
  <2> HIDE DEF x
  <2> QED BY <1>1, <2>1, <2>2, Calm DEF Placed, Empty
<1>4. ASSUME NEW s \in Slots, Play(r, s) PROVE SlotsInv' /\ Forward
  <2> DEFINE a == [y EXCEPT !.asked = s, !.slot = s]
             x == [a EXCEPT !.pc = "look", !.own = TRUE]
             z == [a EXCEPT !.pc = "list", !.list = listed]
  <2>1. (ses[s].open /\ Becomes(r, x)) \/ Becomes(r, z)
    BY <1>2, <1>4 DEF Play
  <2>2. a \in RequestRecord /\ a.slot = s /\ ~a.own
    BY <1>2 DEF RequestRecord
  <2> HIDE DEF a
  <2>3. x \in RequestRecord /\ x.pc = "look" /\ x.slot = s
    BY <2>2 DEF RequestRecord, Phases
  <2>4. z \in RequestRecord /\ z.pc = "list" /\ ~z.own
    BY <1>1, <2>2 DEF RequestRecord, Phases
  <2> HIDE DEF x, z
  <2>5. Placed(x) /\ Placed(z)
    BY <2>3, <2>4 DEF Placed, Empty
  <2> QED BY <1>1, <2>1, <2>3, <2>4, <2>5, Calm
<1> QED BY <1>3, <1>4

LEMMA BootstrapStep ==
  ASSUME SlotsInv, NEW r \in Requests, Bootstrap(r)
  PROVE  SlotsInv' /\ Forward
<1>1. PICK y \in RequestRecord : y = rq[r]
  BY RequestTyped
<1> DEFINE x == [y EXCEPT !.pc = "refresh", !.slot = 0, !.from = "refresh"]
<1>2. /\ rq[r].pc = "list" /\ Idles(rq[r]) /\ Becomes(r, x)
      /\ UNCHANGED <<ses, cursor>> /\ failed' \subseteq Slots /\ listed' \subseteq Slots
  BY <1>1 DEF Bootstrap, Idles, SlotsInv, Typed
<1>3. x \in RequestRecord /\ x.pc = "refresh" /\ x.own = y.own
  BY DEF RequestRecord, Phases, Reasons
<1> HIDE DEF x
<1>4. ~y.own
  BY <1>1, <1>2, RequestTyped DEF Placed, Empty
<1> QED BY <1>2, <1>3, <1>4, Calm DEF Placed, Empty

LEMMA RefreshStep ==
  ASSUME SlotsInv, NEW r \in Requests, Refresh(r)
  PROVE  SlotsInv' /\ Forward
<1> DEFINE list == rq[r].list
           left == {s \in list : s > rq[r].slot}
           asked == rq[r].asked
           on(p) == [rq[r] EXCEPT !.slot = First(left), !.pc = p]
<1>1. /\ rq[r].pc = "refresh" /\ Idles(rq[r])
      /\ UNCHANGED <<ses, cursor>> /\ failed' \subseteq Slots /\ listed' \subseteq Slots
  BY DEF Refresh, Idles, SlotsInv, Typed
<1>2. CASE left # {}
  <2>1. First(left) \in Slots
    BY <1>2, RequestTyped, FirstOf
  <2>2. \E p \in {"note", "refresh"} : Becomes(r, on(p))
    BY <1>2 DEF Refresh
  <2>3. ASSUME NEW p \in {"note", "refresh"}
        PROVE  on(p) \in RequestRecord /\ on(p).pc = p /\ on(p).own = rq[r].own /\ on(p).slot \in Slots
    <3>1. PICK y \in RequestRecord : y = rq[r]
      BY RequestTyped
    <3>2. [y EXCEPT !.slot = First(left), !.pc = p] \in RequestRecord
      BY <2>1 DEF RequestRecord, Phases
    <3> QED BY <2>1, <3>1, <3>2 DEF RequestRecord
  <2> HIDE DEF on
  <2>4. ~rq[r].own
    BY <1>1, RequestTyped DEF Placed, Empty
  <2> QED BY <1>1, <2>2, <2>3, <2>4, Calm DEF Placed, Empty
<1>3. CASE left = {} /\ asked = 0
  BY <1>1, <1>3, NoRequestTyped, Calm DEF Refresh, Done
<1>4. CASE left = {} /\ asked # 0
  <2>1. asked \in Slots /\ list \in SUBSET Slots
    BY <1>4, RequestTyped
  <2>2. asked - 1 \in Slots \cup {0} /\ 0 \in Slots \cup {0}
    BY <2>1, SlotsAssumption, FS_CardinalityType
  <2>3. \/ Becomes(r, Walking(r, asked - 1, list, "recover"))
        \/ Becomes(r, Walking(r, 0, list, "walk"))
    BY <1>4 DEF Refresh, Walks, Walking
  <2> QED BY <1>1, <2>1, <2>2, <2>3, WalkingTyped, Calm DEF Reasons
<1> QED BY <1>2, <1>3, <1>4

LEMMA WalkStep ==
  ASSUME SlotsInv, NEW r \in Requests, Walk(r)
  PROVE  SlotsInv' /\ Forward
<1> DEFINE list == rq[r].list
           after == Candidates(list, rq[r].slot + 1)
           s == First(after)
           x == [rq[r] EXCEPT !.pc = "note", !.slot = s]
<1>1. /\ rq[r].pc = "walk" /\ Idles(rq[r])
      /\ UNCHANGED <<ses, cursor>> /\ failed' \subseteq Slots /\ listed' \subseteq Slots
      /\ list \in SUBSET Slots
  BY RequestTyped DEF Walk, Idles, SlotsInv, Typed
<1>2. CASE after # {}
  <2>1. s \in Slots
    BY <1>1, <1>2, FirstOf DEF Candidates
  <2>2. CASE ses[s].open /\ Becomes(r, TakenUp(r, s))
    BY <1>1, <2>1, <2>2, TakenUpTyped, Calm
  <2>3. CASE Becomes(r, x)
    <3>1. PICK y \in RequestRecord : y = rq[r]
      BY RequestTyped
    <3>2. x \in RequestRecord /\ x.pc = "note" /\ x.slot = s /\ x.own = rq[r].own
      BY <2>1, <3>1 DEF RequestRecord, Phases
    <3> HIDE DEF x
    <3>3. ~rq[r].own
      BY <1>1, RequestTyped DEF Placed, Empty
    <3> QED BY <1>1, <2>1, <2>3, <3>2, <3>3, Calm DEF Placed, Empty
  <2> QED BY <1>2, <2>2, <2>3 DEF Walk, Takes, TakenUp
<1>3. CASE after = {}
  <2>1. Becomes(r, Walking(r, 0, list, "walk")) \/ Becomes(r, NoRequest)
    BY <1>3 DEF Walk, Walks, Walking, Done
  <2> QED BY <1>1, <2>1, WalkingTyped, NoRequestTyped, Calm DEF Reasons
<1> QED BY <1>2, <1>3

LEMMA StartStep ==
  ASSUME SlotsInv, NEW r \in Requests, Start(r)
  PROVE  SlotsInv' /\ Forward
<1> DEFINE s == rq[r].slot
           x == Goes(rq[r], "opening")
           y == StartupBegun(ses[s])
<1>1. /\ rq[r].pc = "look" /\ Becomes(r, x)
      /\ ses' = IF ses[s].open THEN [ses EXCEPT ![s] = y] ELSE ses
      /\ UNCHANGED <<cursor, failed, listed>>
  BY DEF Start, WithSession, Going, Goes
<1>2. s \in Slots
  BY <1>1, RequestTyped DEF Placed
<1>3. /\ y \in SessionRecord /\ y.open = ses[s].open /\ y.copy = ses[s].copy
      /\ y.plays = ses[s].plays /\ y.starting = ses[s].starting + 1
      /\ ses[s].plays \in Nat /\ ses[s].starting \in Nat
  BY <1>2, SlotTyped, SessionChanges
<1>4. x \in RequestRecord /\ x.pc = "opening" /\ x.slot = s /\ x.own = rq[r].own
  BY GoingTyped DEF Phases
<1>5. /\ Placed(x)
      /\ x.own => x.slot \in Slots /\ ses[x.slot].open
  BY <1>2, <1>4, RequestTyped DEF Placed, Empty
<1>6. /\ Follows(y.plays, ses[s].plays, Owes(rq[r], s), Owes(x, s))
      /\ Follows(y.starting, ses[s].starting, Opens(rq[r], s), Opens(x, s))
  BY <1>1, <1>3, <1>4 DEF Follows, Owes, Opens
<1> HIDE DEF x, y
<1> QED BY <1>1, <1>2, <1>3, <1>4, <1>5, <1>6, Changes

\* A proof of a stream ends startups, all or one.
LEMMA ProvedEnds ==
  ASSUME NEW z \in SessionRecord
  PROVE  /\ Proved(z) \in SessionRecord /\ Proved(z).open = z.open
         /\ Proved(z).copy = z.copy /\ Proved(z).plays = z.plays
         /\ Proved(z).starting \in {0, z.starting - 1}
  BY SessionChanges DEF Proved, Min0, SessionRecord

\* The three ways an open ends.
LEMMA OpenStep ==
  ASSUME SlotsInv, NEW r \in Requests, Opened(r) \/ OpenFails(r) \/ OpenCanceled(r)
  PROVE  SlotsInv' /\ Forward
<1> DEFINE s == rq[r].slot
<1>1. rq[r].pc = "opening" /\ UNCHANGED <<cursor, failed, listed>>
  BY DEF Opened, OpenFails, OpenCanceled
<1>2. s \in Slots /\ ses[s] \in SessionRecord /\ ses[s].starting \in Nat /\ ses[s].plays \in Nat
  BY <1>1, RequestTyped, SlotTyped DEF Placed
<1>3. \E y \in {Proved(ses[s]), StartupEnded(ses[s])} :
        ses' = IF ses[s].open THEN [ses EXCEPT ![s] = y] ELSE ses
  BY DEF Opened, OpenFails, OpenCanceled, WithSession
<1>4. PICK y \in SessionRecord :
        /\ y.open = ses[s].open /\ y.copy = ses[s].copy
        /\ y.plays = ses[s].plays /\ y.starting \in {0, ses[s].starting - 1}
        /\ ses' = IF ses[s].open THEN [ses EXCEPT ![s] = y] ELSE ses
  <2>1. \A y \in {Proved(ses[s]), StartupEnded(ses[s])} :
          /\ y \in SessionRecord /\ y.open = ses[s].open /\ y.copy = ses[s].copy
          /\ y.plays = ses[s].plays /\ y.starting \in {0, ses[s].starting - 1}
    BY <1>2, ProvedEnds, SessionChanges DEF Min0
  <2>2. PICK y \in {Proved(ses[s]), StartupEnded(ses[s])} :
          ses' = IF ses[s].open THEN [ses EXCEPT ![s] = y] ELSE ses
    BY <1>3
  <2> QED BY <2>1, <2>2
<1>5. PICK p \in {"ready", "fails", "idle"} :
        Becomes(r, IF p = "idle" THEN NoRequest ELSE Goes(rq[r], p))
  BY DEF Opened, OpenFails, OpenCanceled, Going, Goes, Done
<1> DEFINE x == IF p = "idle" THEN NoRequest ELSE Goes(rq[r], p)
<1>6. /\ x \in RequestRecord /\ x.pc = p /\ (p # "idle" => x.slot = s /\ x.own = rq[r].own)
      /\ (p = "idle" => ~x.own)
  BY GoingTyped, NoRequestTyped DEF Phases
<1>7. /\ Placed(x) /\ x.pc # "create" /\ \A t \in Slots : ~Owes(rq[r], t) /\ ~Opens(x, t)
      /\ x.own => x.slot \in Slots /\ ses[x.slot].open
  BY <1>1, <1>2, <1>6, RequestTyped DEF Placed, Empty, Owes, Opens
<1>8. /\ Follows(y.plays, ses[s].plays, Owes(rq[r], s), Owes(x, s))
      /\ Follows(y.starting, ses[s].starting, Opens(rq[r], s), Opens(x, s))
  <2>1. y.plays \in Nat /\ y.starting \in Nat
    BY DEF SessionRecord
  <2> QED BY <1>2, <1>4, <1>7, <2>1 DEF Follows
<1> HIDE DEF x
<1>9. Becomes(r, x)
  BY <1>5 DEF x
<1> QED BY <1>1, <1>2, <1>4, <1>6, <1>7, <1>8, <1>9, Changes

LEMMA NextCopyStep ==
  ASSUME SlotsInv, NEW r \in Requests, NextCopy(r)
  PROVE  SlotsInv' /\ Forward
<1> DEFINE s == rq[r].slot
<1>1. /\ rq[r].pc = "fails" /\ Idles(rq[r])
      /\ UNCHANGED <<ses, cursor>> /\ failed' \subseteq Slots /\ listed' \subseteq Slots
  BY DEF NextCopy, Idles, SlotsInv, Typed
<1>2. s \in Slots
  BY <1>1, RequestTyped DEF Placed
<1>3. rq[r].own => ses[s].open
  BY RequestTyped
<1>4. CASE CanAdvance(s) /\ Becomes(r, GoesWith(rq[r], "advance", cursor[s] + 1))
  <2> DEFINE x == GoesWith(rq[r], "advance", cursor[s] + 1)
  <2>1. cursor[s] + 1 \in Nat /\ cursor[s] + 1 < Copies[s]
    BY <1>2, <1>4, CopiesRead
  <2>2. /\ x \in RequestRecord /\ x.pc = "advance" /\ x.slot = s /\ x.own = rq[r].own
        /\ x.idx = cursor[s] + 1
    BY <2>1, ReadingTyped DEF Phases
  <2> HIDE DEF x
  <2>3. Placed(x)
    BY <1>2, <2>1, <2>2 DEF Placed, Empty
  <2>4. Becomes(r, x)
    BY <1>4 DEF x
  <2> QED BY <1>1, <1>2, <1>3, <2>2, <2>3, <2>4, Calm
<1>5. CASE Becomes(r, Goes(rq[r], "giveup"))
  <2> DEFINE x == Goes(rq[r], "giveup")
  <2>1. x \in RequestRecord /\ x.pc = "giveup" /\ x.slot = s /\ x.own = rq[r].own
    BY GoingTyped DEF Phases
  <2> HIDE DEF x
  <2>2. Placed(x)
    BY <1>2, <2>1 DEF Placed, Empty
  <2>3. Becomes(r, x)
    BY <1>5 DEF x
  <2> QED BY <1>1, <1>2, <1>3, <2>1, <2>2, <2>3, Calm
<1> QED BY <1>4, <1>5 DEF NextCopy, Reads, Going, Goes, GoesWith

\* A change of the cursor alone, by one who owes the same before and after.
LEMMA CursorMoves ==
  ASSUME SlotsInv, NEW r \in Requests, NEW x \in RequestRecord, Becomes(r, x), Placed(x),
         x.pc # "create", x.slot = rq[r].slot, x.own = rq[r].own,
         \A t \in Slots : (Owes(rq[r], t) => Owes(x, t)) /\ (Opens(rq[r], t) => Opens(x, t)),
         cursor' \in Cursors,
         \A t \in Slots : \/ cursor'[t] >= cursor[t] \/ cursor'[t] >= Copies[t] - 1
                          \/ StoredLate(t),
         UNCHANGED <<ses, failed, listed>>
  PROVE  SlotsInv' /\ Forward
<1>1. /\ ses' \in [Slots -> SessionRecord] /\ failed' \subseteq Slots /\ listed' \subseteq Slots
  BY DEF SlotsInv, Typed
<1>2. ASSUME NEW t \in Slots
      PROVE  /\ ses'[t].open = ses[t].open /\ ses'[t].copy = ses[t].copy
             /\ ~ses[t].open => ses'[t] = ses[t]
             /\ Follows(ses'[t].plays, ses[t].plays, Owes(rq[r], t), Owes(x, t))
             /\ Follows(ses'[t].starting, ses[t].starting, Opens(rq[r], t), Opens(x, t))
  <2>1. ses[t].plays \in Nat /\ ses[t].starting \in Nat
    BY SlotTyped
  <2> QED BY <2>1 DEF Follows
<1>3. x.own => x.slot \in Slots /\ ses[x.slot].open
  BY RequestTyped
<1> QED BY <1>1, <1>2, <1>3, Moves

LEMMA AdvanceStep ==
  ASSUME SlotsInv, NEW r \in Requests, Advance(r)
  PROVE  SlotsInv' /\ Forward
<1> DEFINE s == rq[r].slot
           p == IF rq[r].pc = "advance" THEN "retire" ELSE "drop"
           x == GoesWith(rq[r], p, 0)
<1>1. /\ rq[r].pc \in {"advance", "bump"} /\ Becomes(r, x)
      /\ cursor' = [cursor EXCEPT ![s] = rq[r].idx]
      /\ UNCHANGED <<ses, failed, listed>>
  BY DEF Advance, Reads, GoesWith
<1>2. /\ s \in Slots /\ rq[r].idx \in Nat /\ rq[r].idx < Copies[s]
      /\ p \in Phases /\ p \in {"retire", "drop"} /\ (p = "drop" <=> rq[r].pc = "bump")
  BY <1>1, RequestTyped DEF Placed, Phases
<1>3. x \in RequestRecord /\ x.pc = p /\ x.slot = s /\ x.own = rq[r].own
  BY <1>2, ReadingTyped
<1> HIDE DEF x, p
<1>4. /\ Placed(x)
      /\ \A t \in Slots : (Owes(rq[r], t) => Owes(x, t)) /\ (Opens(rq[r], t) => Opens(x, t))
  BY <1>1, <1>2, <1>3 DEF Placed, Empty, Owes, Opens
<1>5. rq'[r].pc # rq[r].pc
  BY <1>1, <1>2, <1>3 DEF Becomes, SlotsInv, Typed
<1>6. /\ cursor' \in Cursors
      /\ \A t \in Slots : \/ cursor'[t] >= cursor[t] \/ cursor'[t] >= Copies[t] - 1
                          \/ StoredLate(t)
  BY <1>1, <1>2, <1>5, Stores
<1> QED BY <1>1, <1>2, <1>3, <1>4, <1>6, CursorMoves

LEMMA ExhaustStep ==
  ASSUME SlotsInv, NEW r \in Requests, Exhaust(r)
  PROVE  SlotsInv' /\ Forward
<1> DEFINE s == rq[r].slot
           x == Goes(rq[r], "giveup")
<1>1. /\ rq[r].pc = "exhaust" /\ Becomes(r, x)
      /\ cursor' = [cursor EXCEPT ![s] = Copies[s]]
      /\ UNCHANGED <<ses, failed, listed>>
  BY DEF Exhaust, Going, Goes
<1>2. s \in Slots
  BY <1>1, RequestTyped DEF Placed
<1>3. x \in RequestRecord /\ x.pc = "giveup" /\ x.slot = s /\ x.own = rq[r].own
  BY GoingTyped DEF Phases
<1> HIDE DEF x
<1>4. /\ Placed(x)
      /\ \A t \in Slots : (Owes(rq[r], t) => Owes(x, t)) /\ (Opens(rq[r], t) => Opens(x, t))
  BY <1>1, <1>2, <1>3 DEF Placed, Empty, Owes, Opens
<1>5. /\ cursor' \in Cursors
      /\ \A t \in Slots : cursor'[t] >= cursor[t]
  <2>1. \A t \in Slots : cursor[t] \in Nat /\ cursor[t] <= Copies[t] /\ Copies[t] \in Nat
    BY SlotTyped
  <2> QED BY <1>1, <1>2, <2>1 DEF Cursors, SlotsInv, Typed
<1> QED BY <1>1, <1>3, <1>4, <1>5, CursorMoves

\* r deletes the session its slot has: Retire, Strike and Drop.
LEMMA DeletesSession ==
  ASSUME SlotsInv, NEW r \in Requests, rq[r].slot \in Slots,
         NEW p \in {"rebuild", "next", "ending"}, Deletes(r, p),
         cursor' = cursor, failed' \subseteq Slots, listed' \subseteq Slots
  PROVE  SlotsInv' /\ Forward
<1> DEFINE s == rq[r].slot
           x == GoesWithout(rq[r], p)
<1>1. ses' = [ses EXCEPT ![s] = NoSession] /\ Leaves(s, r, x)
  BY DEF Deletes, GoesWithout, GoesHolding
<1>2. x \in RequestRecord /\ x.pc = p /\ x.slot = s /\ ~x.own
  BY HoldingTyped DEF Phases
<1> HIDE DEF x
<1>3. Placed(x) /\ x.pc # "create"
  BY <1>2 DEF Placed
<1>4. /\ NoSession \in SessionRecord /\ NoSession.plays = 0 /\ NoSession.starting = 0
      /\ NoSession.copy < Copies[s] /\ ~NoSession.open
  BY SlotTyped DEF SessionRecord, NoSession
<1> QED BY <1>1, <1>2, <1>3, <1>4, Turns

LEMMA DeletingStep ==
  ASSUME SlotsInv, NEW r \in Requests, Retire(r) \/ Strike(r) \/ Drop(r)
  PROVE  SlotsInv' /\ Forward
<1>1. rq[r].pc \in {"retire", "strike", "drop"} /\ cursor' = cursor
  BY DEF Retire, Strike, Drop
<1>2. rq[r].slot \in Slots
  BY <1>1, RequestTyped DEF Placed
<1>3. failed' \subseteq Slots /\ listed' \subseteq Slots
  BY <1>2 DEF Retire, Strike, Drop, SlotsInv, Typed
<1>4. \E p \in {"rebuild", "next", "ending"} : Deletes(r, p)
  BY DEF Retire, Strike, Drop
<1> QED BY <1>1, <1>2, <1>3, <1>4, DeletesSession

LEMMA RebuildStep ==
  ASSUME SlotsInv, NEW r \in Requests, Rebuild(r)
  PROVE  SlotsInv' /\ Forward
<1>1. PICK y \in RequestRecord : y = rq[r]
  BY RequestTyped
<1> DEFINE x == [y EXCEPT !.pc = "note", !.from = "rebuild"]
           z == [y EXCEPT !.pc = "exhaust"]
<1>2. /\ rq[r].pc = "rebuild" /\ Idles(rq[r]) /\ (Becomes(r, x) \/ Becomes(r, z))
      /\ UNCHANGED <<ses, cursor>> /\ failed' \subseteq Slots /\ listed' \subseteq Slots
  BY <1>1 DEF Rebuild, Going, Idles, SlotsInv, Typed
<1>3. y.slot \in Slots /\ ~y.own
  BY <1>1, <1>2, RequestTyped DEF Placed, Empty
<1>4. /\ x \in RequestRecord /\ x.pc = "note" /\ x.slot = y.slot /\ x.own = y.own
      /\ z \in RequestRecord /\ z.pc = "exhaust" /\ z.slot = y.slot /\ z.own = y.own
  BY DEF RequestRecord, Phases, Reasons
<1> HIDE DEF x, z
<1>5. Placed(x) /\ Placed(z)
  BY <1>3, <1>4 DEF Placed
<1> QED BY <1>2, <1>3, <1>4, <1>5, Calm

LEMMA GiveUpSlotStep ==
  ASSUME SlotsInv, NEW r \in Requests, GiveUpSlot(r)
  PROVE  SlotsInv' /\ Forward
<1> DEFINE x == Goes(rq[r], "strike")
<1>1. /\ rq[r].pc = "giveup" /\ Idles(rq[r]) /\ Becomes(r, x)
      /\ UNCHANGED <<ses, cursor>> /\ failed' = failed \cup {rq[r].slot} /\ listed' = listed
  BY DEF GiveUpSlot, Going, Goes, Idles
<1>2. x \in RequestRecord /\ x.pc = "strike" /\ x.slot = rq[r].slot /\ x.own = rq[r].own
  BY GoingTyped DEF Phases
<1> HIDE DEF x
<1>3. rq[r].slot \in Slots
  BY <1>1, RequestTyped DEF Placed
<1>4. /\ Placed(x) /\ failed' \subseteq Slots /\ listed' \subseteq Slots
  BY <1>1, <1>2, <1>3 DEF Placed, Empty, SlotsInv, Typed
<1>5. x.own => x.slot \in Slots /\ ses[x.slot].open
  BY <1>2, RequestTyped
<1> QED BY <1>1, <1>2, <1>4, <1>5, Calm

LEMMA NextSlotStep ==
  ASSUME SlotsInv, NEW r \in Requests, NextSlot(r)
  PROVE  SlotsInv' /\ Forward
<1>1. /\ rq[r].pc \in {"next", "look"} /\ Idles(rq[r])
      /\ Becomes(r, Walking(r, rq[r].slot, listed, "walk"))
      /\ UNCHANGED <<ses, cursor>> /\ failed' \subseteq Slots /\ listed' \subseteq Slots
      /\ listed \in SUBSET Slots
  BY DEF NextSlot, Walks, Walking, Idles, SlotsInv, Typed
<1>2. rq[r].slot \in Slots
  BY <1>1, RequestTyped DEF Placed
<1> QED BY <1>1, <1>2, WalkingTyped, Calm DEF Reasons

-------------------------------------------------------------------------------
(* Serving.                                                                *)

LEMMA ServeStep ==
  ASSUME SlotsInv, NEW r \in Requests, Serve(r)
  PROVE  SlotsInv' /\ Forward
<1> DEFINE s == rq[r].slot
           x == Goes(rq[r], "serving")
           y == PlaybackBegun(Validated(ses[s]))
<1>1. /\ rq[r].pc = "ready" /\ Becomes(r, x)
      /\ ses' = IF ses[s].open THEN [ses EXCEPT ![s] = y] ELSE ses
      /\ UNCHANGED <<cursor, failed, listed>>
  BY DEF Serve, WithSession, Going, Goes
<1>2. s \in Slots
  BY <1>1, RequestTyped DEF Placed
<1>3. /\ ses[s] \in SessionRecord /\ Validated(ses[s]) \in SessionRecord
      /\ ses[s].plays \in Nat /\ ses[s].starting \in Nat
  BY <1>2, SlotTyped, SessionChanges
<1>4. /\ y \in SessionRecord /\ y.open = ses[s].open /\ y.copy = ses[s].copy
      /\ y.plays = ses[s].plays + 1 /\ y.starting = 0
  BY <1>3, SessionChanges
<1>5. x \in RequestRecord /\ x.pc = "serving" /\ x.slot = s /\ x.own = rq[r].own
  BY GoingTyped DEF Phases
<1>6. /\ Placed(x)
      /\ x.own => x.slot \in Slots /\ ses[x.slot].open
  BY <1>2, <1>5, RequestTyped DEF Placed, Empty
<1>7. /\ Follows(y.plays, ses[s].plays, Owes(rq[r], s), Owes(x, s))
      /\ Follows(y.starting, ses[s].starting, Opens(rq[r], s), Opens(x, s))
  BY <1>1, <1>3, <1>4, <1>5 DEF Follows, Owes, Opens
<1> HIDE DEF x, y
<1> QED BY <1>1, <1>2, <1>4, <1>5, <1>6, <1>7, Changes

\* What changes a serve and no session: ServeEnds, ReadFails, OnReadError, Blame.
LEMMA ServingStep ==
  ASSUME SlotsInv, NEW r \in Requests,
         ServeEnds(r) \/ ReadFails(r) \/ OnReadError(r) \/ Blame(r)
  PROVE  SlotsInv' /\ Forward
<1> DEFINE s == rq[r].slot
<1>1. /\ rq[r].pc \in {"serving", "broken", "blame"} /\ UNCHANGED <<ses, cursor>>
  BY DEF ServeEnds, ReadFails, OnReadError, Blame
<1>2. /\ s \in Slots /\ (rq[r].own => ses[s].open)
  BY <1>1, RequestTyped DEF Placed
<1>3. failed' \subseteq Slots /\ listed' \subseteq Slots
  BY <1>2 DEF ServeEnds, ReadFails, OnReadError, Blame, SlotsInv, Typed
<1>4. CASE Becomes(r, GoesWithout(rq[r], "ending"))
  <2> DEFINE x == GoesWithout(rq[r], "ending")
  <2>1. x \in RequestRecord /\ x.pc = "ending" /\ x.slot = s /\ ~x.own /\ Becomes(r, x)
    BY <1>4, HoldingTyped DEF Phases
  <2> HIDE DEF x
  <2>2. /\ Placed(x)
        /\ \A t \in Slots : (Owes(rq[r], t) => Owes(x, t)) /\ (Opens(rq[r], t) => Opens(x, t))
    BY <1>1, <1>2, <2>1 DEF Placed, Empty, Owes, Opens
  <2> QED BY <1>1, <1>3, <2>1, <2>2, Quiet
<1>5. CASE ses[s].open /\ Becomes(r, GoesHolding(rq[r], "blame"))
  <2> DEFINE x == GoesHolding(rq[r], "blame")
  <2>1. x \in RequestRecord /\ x.pc = "blame" /\ x.slot = s /\ Becomes(r, x)
    BY <1>5, HoldingTyped DEF Phases
  <2> HIDE DEF x
  <2>2. /\ Placed(x)
        /\ \A t \in Slots : (Owes(rq[r], t) => Owes(x, t)) /\ (Opens(rq[r], t) => Opens(x, t))
    BY <1>1, <1>2, <2>1 DEF Placed, Empty, Owes, Opens
  <2> QED BY <1>1, <1>2, <1>3, <1>5, <2>1, <2>2, Quiet
<1>6. CASE Becomes(r, Goes(rq[r], "broken"))
  <2> DEFINE x == Goes(rq[r], "broken")
  <2>1. /\ x \in RequestRecord /\ x.pc = "broken" /\ x.slot = s /\ x.own = rq[r].own
        /\ Becomes(r, x)
    BY <1>6, GoingTyped DEF Phases
  <2> HIDE DEF x
  <2>2. /\ Placed(x)
        /\ \A t \in Slots : (Owes(rq[r], t) => Owes(x, t)) /\ (Opens(rq[r], t) => Opens(x, t))
    BY <1>1, <1>2, <2>1 DEF Placed, Empty, Owes, Opens
  <2> QED BY <1>1, <1>2, <1>3, <2>1, <2>2, Quiet
<1>7. CASE CanAdvance(s) /\ Becomes(r, GoesWith(rq[r], "bump", cursor[s] + 1))
  <2> DEFINE x == GoesWith(rq[r], "bump", cursor[s] + 1)
  <2>1. cursor[s] + 1 \in Nat /\ cursor[s] + 1 < Copies[s]
    BY <1>2, <1>7, CopiesRead
  <2>2. /\ x \in RequestRecord /\ x.pc = "bump" /\ x.slot = s /\ x.own = rq[r].own
        /\ x.idx = cursor[s] + 1 /\ Becomes(r, x)
    BY <1>7, <2>1, ReadingTyped DEF Phases
  <2> HIDE DEF x
  <2>3. /\ Placed(x)
        /\ \A t \in Slots : (Owes(rq[r], t) => Owes(x, t)) /\ (Opens(rq[r], t) => Opens(x, t))
    BY <1>1, <1>2, <2>1, <2>2 DEF Placed, Empty, Owes, Opens
  <2> QED BY <1>1, <1>2, <1>3, <2>2, <2>3, Quiet
<1>8. \/ Becomes(r, GoesWithout(rq[r], "ending"))
      \/ ses[s].open /\ Becomes(r, GoesHolding(rq[r], "blame"))
      \/ Becomes(r, Goes(rq[r], "broken"))
      \/ CanAdvance(s) /\ Becomes(r, GoesWith(rq[r], "bump", cursor[s] + 1))
  BY DEF ServeEnds, ReadFails, OnReadError, Blame, Lets, Reads, Going, GoesWithout, GoesHolding, Goes, GoesWith
<1> QED BY <1>4, <1>5, <1>6, <1>7, <1>8

LEMMA EndPlaybackStep ==
  ASSUME SlotsInv, NEW r \in Requests, EndPlayback(r)
  PROVE  SlotsInv' /\ Forward
<1> DEFINE s == rq[r].slot
           x == IF ses[s].open THEN GoesHolding(rq[r], "leaving") ELSE NoRequest
<1>1. /\ rq[r].pc = "ending" /\ Becomes(r, x) /\ UNCHANGED <<cursor, failed, listed>> /\ ses' = ses
  BY DEF EndPlayback, GoesWithout, GoesHolding, Done
<1>2. /\ s \in Slots /\ ses[s] \in SessionRecord /\ ses[s].plays \in Nat /\ ses[s].starting \in Nat
      /\ ~ses[s].open => ses[s].plays = 0 /\ ses[s].starting = 0
  BY <1>1, RequestTyped, SlotTyped DEF Placed
<1>3. CASE ses[s].open
  <2>1. x \in RequestRecord /\ x.pc = "leaving" /\ x.slot = s /\ x.own
    BY <1>3, HoldingTyped DEF Phases
  <2> HIDE DEF x
  <2>2. /\ Placed(x) /\ failed' \subseteq Slots /\ listed' \subseteq Slots
        /\ \A t \in Slots : (Owes(rq[r], t) => Owes(x, t)) /\ (Opens(rq[r], t) => Opens(x, t))
    BY <1>1, <1>2, <2>1 DEF Placed, Empty, Owes, Opens, SlotsInv, Typed
  <2> QED BY <1>1, <1>2, <1>3, <2>1, <2>2, Quiet
<1>4. CASE ~ses[s].open
  <2>1. x = NoRequest /\ ses' = IF ses[s].open THEN [ses EXCEPT ![s] = ses[s]] ELSE ses
    BY <1>1, <1>4
  <2>2. /\ x \in RequestRecord /\ Placed(x) /\ ~x.own /\ x.pc = "idle"
    BY <2>1, NoRequestTyped
  <2> HIDE DEF x
  <2>3. /\ Follows(ses[s].plays, ses[s].plays, Owes(rq[r], s), Owes(x, s))
        /\ Follows(ses[s].starting, ses[s].starting, Opens(rq[r], s), Opens(x, s))
    <3>1. ses[s].plays = 0 /\ ses[s].starting = 0
      BY <1>2, <1>4
    <3> QED BY <3>1 DEF Follows
  <2> QED BY <1>1, <1>2, <1>4, <2>1, <2>2, <2>3, Changes
<1> QED BY <1>3, <1>4

LEMMA LeaveStep ==
  ASSUME SlotsInv, NEW r \in Requests, Leave(r)
  PROVE  SlotsInv' /\ Forward
<1> DEFINE s == rq[r].slot
           y == PlaybackEnded(ses[s])
<1>1. /\ rq[r].pc = "leaving" /\ Becomes(r, NoRequest)
      /\ ses' = IF rq[r].own THEN [ses EXCEPT ![s] = y] ELSE ses
      /\ UNCHANGED <<cursor, failed, listed>>
  BY DEF Leave, Done
<1>2. /\ s \in Slots /\ ses[s] \in SessionRecord
      /\ ses[s].plays \in Nat /\ ses[s].starting \in Nat
      /\ rq[r].own => ses[s].open
  BY <1>1, RequestTyped, SlotTyped DEF Placed
<1>3. ~Opens(rq[r], s) /\ ~Opens(NoRequest, s) /\ (Owes(rq[r], s) <=> rq[r].own)
  BY <1>1, NoRequestTyped DEF Owes, Opens
<1>4. CASE rq[r].own
  <2>1. /\ y \in SessionRecord /\ y.open = ses[s].open /\ y.copy = ses[s].copy
        /\ y.plays = Min0(ses[s].plays - 1) /\ y.starting = ses[s].starting
    BY <1>2, SessionChanges
  <2>2. /\ Follows(y.plays, ses[s].plays, Owes(rq[r], s), Owes(NoRequest, s))
        /\ Follows(y.starting, ses[s].starting, Opens(rq[r], s), Opens(NoRequest, s))
    BY <1>2, <1>3, <2>1 DEF Follows, Min0
  <2> HIDE DEF y
  <2>3. ses' = IF ses[s].open THEN [ses EXCEPT ![s] = y] ELSE ses
    BY <1>1, <1>2, <1>4
  <2> QED BY <1>1, <1>2, <2>1, <2>2, <2>3, NoRequestTyped, Changes
<1>5. CASE ~rq[r].own
  <2>1. \A t \in Slots : ~Owes(rq[r], t) /\ ~Opens(rq[r], t)
    BY <1>1, <1>5 DEF Owes, Opens
  <2>2. failed' \subseteq Slots /\ listed' \subseteq Slots /\ UNCHANGED <<ses, cursor>>
    BY <1>1, <1>5 DEF SlotsInv, Typed
  <2> QED BY <1>1, <2>1, <2>2, NoRequestTyped, Quiet
<1> QED BY <1>4, <1>5

LEMMA CloseStep ==
  ASSUME SlotsInv, NEW s \in Slots, Close(s)
  PROVE  SlotsInv' /\ Forward
<1>1. PICK r : r \notin Requests
  <2> DEFINE own == {q \in Requests : q \notin q}
  <2>1. own \notin Requests
    OBVIOUS
  <2> QED BY <2>1
<1>2. PICK y \in RequestRecord : y = NoRequest /\ y.pc = "idle" /\ ~y.own
  BY NoRequestTyped
<1> DEFINE x == [y EXCEPT !.slot = s]
<1>3. x \in RequestRecord /\ x.pc = "idle" /\ x.slot = s /\ ~x.own
  BY <1>2 DEF RequestRecord
<1> HIDE DEF x
<1>4. Placed(x)
  BY <1>3 DEF Placed
<1>5. /\ NoSession \in SessionRecord /\ NoSession.plays = 0 /\ NoSession.starting = 0
      /\ NoSession.copy < Copies[s] /\ ~NoSession.open
  BY SlotTyped DEF SessionRecord, NoSession
<1>6. /\ ses' = [ses EXCEPT ![s] = NoSession] /\ Leaves(s, r, x)
      /\ cursor' = cursor /\ failed' \subseteq Slots /\ listed' \subseteq Slots
  BY <1>1 DEF Close, Leaves, SlotsInv, Typed
<1> QED BY <1>1, <1>3, <1>4, <1>5, <1>6, Turns

-------------------------------------------------------------------------------
(* The theorems.                                                           *)

LEMMA SlotsStart == SlotsInit => SlotsInv
<1> SUFFICES ASSUME SlotsInit PROVE SlotsInv
  OBVIOUS
<1>1. \A s \in Slots : Copies[s] \in Nat /\ Copies[s] > 0
  BY SlotsAssumption
<1>2. NoSession \in SessionRecord
  BY DEF SessionRecord, NoSession
<1>3. Typed
  BY <1>1, <1>2, NoRequestTyped DEF Typed, SlotsInit, Cursors
<1>4. Held /\ \A r \in Requests : Placed(rq[r])
  BY NoRequestTyped DEF Held, SlotsInit
<1>5. Made
  BY <1>1 DEF Made, SlotsInit, NoSession
<1>6. Counted
  <2>1. ASSUME NEW s \in Slots
        PROVE  Cardinality(Players(s)) \in Nat /\ Cardinality(Openers(s)) \in Nat
    <3>1. Players(s) \subseteq Requests /\ Openers(s) \subseteq Requests
      BY DEF Players, Openers
    <3> QED BY <3>1, SlotsAssumption, FS_Subset, FS_CardinalityType
  <2> QED BY <2>1 DEF Counted, SlotsInit, NoSession
<1> QED BY <1>3, <1>4, <1>5, <1>6 DEF SlotsInv

LEMMA SlotsStep == SlotsInv /\ [Next]_vars => SlotsInv' /\ Forward
<1> SUFFICES ASSUME SlotsInv, [Next]_vars PROVE SlotsInv' /\ Forward
  OBVIOUS
<1>1. ASSUME NEW r \in Requests, Resolving(r) PROVE SlotsInv' /\ Forward
  BY <1>1, NoteLoadsStep, NoteStoresStep, ChooseStep, CreateStep, GetStep, BootstrapStep,
     RefreshStep, WalkStep, StartStep, OpenStep, NextCopyStep, AdvanceStep, DeletingStep,
     RebuildStep, ExhaustStep, GiveUpSlotStep, NextSlotStep DEF Resolving
<1>2. ASSUME NEW r \in Requests, Serving(r) \/ ServeEnds(r) \/ ReadFails(r)
      PROVE  SlotsInv' /\ Forward
  BY <1>2, ServeStep, ServingStep, DeletingStep, EndPlaybackStep, LeaveStep DEF Serving
<1>3. ASSUME NEW r \in Requests, Show(r) \/ \E s \in Slots : Play(r, s)
      PROVE  SlotsInv' /\ Forward
  BY <1>3, AskingStep
<1>4. ASSUME NEW s \in Slots, Close(s) PROVE SlotsInv' /\ Forward
  BY <1>4, CloseStep
<1>5. CASE UNCHANGED vars
  <2>1. SlotsInv'
    BY <1>5 DEF vars, SlotsInv, Typed, Placed, Held, Made, Counted, Players, Openers
  <2>2. Forward
    BY <1>5 DEF vars, Forward, Ahead
  <2> QED BY <2>1, <2>2
<1> QED BY <1>1, <1>2, <1>3, <1>4, <1>5 DEF Next

THEOREM SlotsInvariant == SlotsSpec => []SlotsInv
<1>1. SlotsInv /\ [Next]_vars => SlotsInv'
  BY SlotsStep
<1> QED BY <1>1, SlotsStart, PTL DEF SlotsSpec

\* The variables keep their types.
THEOREM SlotsTypeCorrect == SlotsSpec => []SlotsTypeOK
<1>1. SlotsInv => SlotsTypeOK
  <2> SUFFICES ASSUME SlotsInv PROVE SlotsTypeOK
    OBVIOUS
  <2>1. ASSUME NEW s \in Slots
        PROVE  /\ {ses[s].open, ses[s].valid} \subseteq BOOLEAN
               /\ {ses[s].plays, ses[s].starting} \subseteq Nat
               /\ ses[s].copy \in 0 .. Copies[s] - 1 /\ cursor[s] \in 0 .. Copies[s]
    BY SlotTyped
  <2>2. ASSUME NEW r \in Requests
        PROVE  /\ rq[r].pc \in Phases /\ rq[r].asked \in Slots \cup {0}
               /\ rq[r].slot \in Slots \cup {0}
               /\ rq[r].slot = 0 => rq[r].pc \in {"idle", "list", "refresh", "walk"}
               /\ rq[r].own \in BOOLEAN
               /\ rq[r].own => rq[r].slot \in Slots /\ ses[rq[r].slot].open
               /\ rq[r].list \subseteq Slots
               /\ rq[r].from \in {"play", "refresh", "recover", "walk", "rebuild"}
    <3>1. 0 \notin Slots
      BY SlotsAssumption, FS_CardinalityType
    <3> QED BY <3>1, RequestTyped DEF Placed, Reasons
  <2>3. ASSUME NEW r \in Requests, rq[r].pc \in {"store", "create", "advance", "bump"}
        PROVE  rq[r].idx \in 0 .. Copies[rq[r].slot] - 1
    <3>1. rq[r].slot \in Slots /\ rq[r].idx \in Nat /\ rq[r].idx < Copies[rq[r].slot]
      BY <2>3, RequestTyped DEF Placed
    <3>2. Copies[rq[r].slot] \in Nat
      BY <3>1, SlotTyped
    <3> QED BY <3>1, <3>2
  <2>4. failed \subseteq Slots /\ listed \subseteq Slots
    BY DEF SlotsInv, Typed
  <2> QED BY <2>1, <2>2, <2>3, <2>4 DEF SlotsTypeOK
<1> QED BY <1>1, SlotsInvariant, PTL

\* What a session of the map counts as playing or starting is not more than the
\* requests at it: nothing that is over keeps it from eviction or replacement.
THEOREM CountsAreNotInflated == SlotsSpec => []CountsNotInflated
<1>1. SlotsInv => CountsNotInflated
  <2> SUFFICES ASSUME SlotsInv, NEW s \in Slots
               PROVE  /\ ses[s].plays <= Cardinality(Now(s, {"serving", "broken", "blame",
                                           "bump", "drop", "ending", "leaving"}))
                      /\ ses[s].starting <= Cardinality(Now(s, {"opening"}))
    BY DEF CountsNotInflated
  <2> DEFINE serving == Now(s, {"serving", "broken", "blame", "bump", "drop", "ending", "leaving"})
             opening == Now(s, {"opening"})
  <2>1. IsFiniteSet(serving) /\ IsFiniteSet(opening)
    <3>1. serving \subseteq Requests /\ opening \subseteq Requests
      BY DEF Now
    <3> QED BY <3>1, SlotsAssumption, FS_Subset
  <2>2. Players(s) \subseteq serving /\ Openers(s) \subseteq opening
    BY DEF Players, Openers, Owes, Opens, Now
  <2>3. /\ Cardinality(Players(s)) <= Cardinality(serving)
        /\ Cardinality(Openers(s)) <= Cardinality(opening)
        /\ Cardinality(Players(s)) \in Nat /\ Cardinality(Openers(s)) \in Nat
        /\ Cardinality(serving) \in Nat /\ Cardinality(opening) \in Nat
    BY <2>1, <2>2, FS_Subset, FS_CardinalityType
  <2>4. /\ ses[s].plays \in Nat /\ ses[s].starting \in Nat
        /\ ses[s].plays <= Cardinality(Players(s)) /\ ses[s].starting <= Cardinality(Openers(s))
    BY SlotTyped DEF SlotsInv, Counted
  <2> HIDE DEF serving, opening
  <2>5. ses[s].plays <= Cardinality(serving) /\ ses[s].starting <= Cardinality(opening)
    BY <2>3, <2>4
  <2> QED BY <2>5 DEF serving, opening
<1> QED BY <1>1, SlotsInvariant, PTL

\* No slot comes to play a copy its cursor has not come to, but by a store of the
\* cursor that lost an advance.
THEOREM CopiesGoForward == SlotsSpec => CopiesForward
<1>1. SlotsInv /\ [Next]_vars => [Forward]_vars
  BY SlotsStep
<1>2. [Forward]_vars => [\A s \in Slots : Ahead(s)' => Ahead(s) \/ StoredLate(s)]_vars
  BY DEF Forward
<1> QED BY <1>1, <1>2, SlotsInvariant, PTL DEF SlotsSpec, CopiesForward
===============================================================================
