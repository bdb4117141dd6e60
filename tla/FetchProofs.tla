----------------------------- MODULE FetchProofs -----------------------------
(***************************************************************************)
(* What SegmentFetch promises for any providers, views and goroutines, and *)
(* what ProviderViews promises underneath.                                 *)
(***************************************************************************)
EXTENDS SegmentFetch, FiniteSetTheorems, WellFoundedInduction, SequenceTheorems, TLAPS

-------------------------------------------------------------------------------
(* Picking elements out of a sequence.                                     *)

\* A set of numbers up to b has a least member.
LEMMA LeastNumber ==
  ASSUME NEW b \in Nat, NEW N \in SUBSET (0 .. b), N # {}
  PROVE  \E m \in N : \A n \in N : m <= n
<1> DEFINE R == StrictSubsetOrdering(0 .. b)
           T == {0 .. n : n \in N}
<1>1. IsWellFoundedOn(R, SUBSET (0 .. b))
  <2>1. IsWellFoundedOn(R, FiniteSubsetsOf(0 .. b))
    BY FS_StrictSubsetOrderingWellFounded
  <2>2. ASSUME NEW t \in SUBSET (0 .. b) PROVE IsFiniteSet(t)
    <3>1. IsFiniteSet(0 .. b)
      BY FS_Interval
    <3> QED
      BY <3>1, FS_Subset
  <2>3. FiniteSubsetsOf(0 .. b) = SUBSET (0 .. b)
    BY <2>2 DEF FiniteSubsetsOf
  <2> QED
    BY <2>1, <2>3
<1>2. \A n \in N : 0 .. n \in SUBSET (0 .. b)
  OBVIOUS
<1>3. T \subseteq SUBSET (0 .. b) /\ T # {}
  BY <1>2
<1>4. PICK x \in T : \A y \in T : ~(<<y, x>> \in R)
  BY <1>1, <1>3, WFMin
<1>5. PICK m \in N : x = 0 .. m
  OBVIOUS
<1>6. ASSUME NEW n \in N, n < m PROVE FALSE
  <2>1. ~(<<0 .. n, 0 .. m>> \in R)
    BY <1>4, <1>5
  <2>2. /\ 0 .. n \in SUBSET (0 .. b) /\ 0 .. m \in SUBSET (0 .. b)
        /\ (0 .. n) \subseteq (0 .. m) /\ m \in 0 .. m /\ m \notin 0 .. n
    BY <1>6
  <2> QED
    BY <2>1, <2>2 DEF StrictSubsetOrdering
<1> QED
  BY <1>6

\* Induction up to b, for what a set of numbers says.
LEMMA UpTo ==
  ASSUME NEW b \in Nat, NEW N, 0 \in N, \A n \in 1 .. b : n - 1 \in N => n \in N
  PROVE  (0 .. b) \subseteq N
<1>1. CASE (0 .. b) \ N # {}
  <2>1. PICK m \in (0 .. b) \ N : \A n \in (0 .. b) \ N : m <= n
    BY <1>1, LeastNumber
  <2> QED
    BY <2>1
<1> QED
  BY <1>1

\* The elements of s up to n that are in S.
LEMMA OnlyUnfolds ==
  ASSUME NEW T, NEW s \in Seq(T), NEW S
  PROVE  \E f : /\ Only(s, S) = f[Len(s)] /\ f[0] = <<>>
                /\ \A n \in 1 .. Len(s) :
                     f[n] = IF s[n] \in S THEN Append(f[n - 1], s[n]) ELSE f[n - 1]
<1> DEFINE step(f, n) == IF n = 0 THEN <<>>
                         ELSE IF s[n] \in S THEN Append(f[n - 1], s[n]) ELSE f[n - 1]
           has(f, n) == f = [k \in 0 .. n |-> step(f, k)]
           N == {n \in 0 .. Len(s) : \E f : has(f, n)}
<1>1. Len(s) \in Nat
  BY LenProperties
<1>2. 0 \in N
  <2> DEFINE g == [k \in 0 .. 0 |-> <<>>]
  <2>0. \A k \in 0 .. 0 : g[k] = step(g, k)
    OBVIOUS
  <2>1. has(g, 0)
    <3> HIDE DEF step
    <3> QED
      BY <2>0
  <2> HIDE DEF g
  <2>2. \E f : has(f, 0)
    BY <2>1
  <2> QED
    BY <1>1, <2>2
<1>3. ASSUME NEW n \in 1 .. Len(s), n - 1 \in N PROVE n \in N
  <2>1. PICK f : has(f, n - 1)
    BY <1>3
  <2> DEFINE g == [k \in 0 .. n |-> IF k = n THEN step(f, n) ELSE f[k]]
  <2>2. ASSUME NEW k \in 0 .. n PROVE g[k] = step(g, k)
    <3>1. CASE k = 0
      BY <1>3, <2>1, <3>1
    <3>2. CASE k = n
      <4>1. g[n - 1] = f[n - 1] /\ g[n] = step(f, n)
        BY <1>3
      <4> QED
        BY <1>3, <3>2, <4>1
    <3>3. CASE k \in 1 .. n - 1
      <4>0. /\ k \in 0 .. n - 1 /\ k - 1 \in 0 .. n - 1 /\ k # n /\ k - 1 # n
            /\ k \in 0 .. n /\ k - 1 \in 0 .. n
        BY <3>3
      <4>1. g[k] = f[k] /\ g[k - 1] = f[k - 1] /\ f[k] = step(f, k)
        <5> HIDE DEF step
        <5> QED
          BY <2>1, <4>0
      <4> QED
        BY <3>3, <4>1
    <3> QED
      BY <1>3, <3>1, <3>2, <3>3
  <2>3. g = [k \in 0 .. n |-> step(g, k)]
    <3> HIDE DEF step
    <3> QED
      BY <2>2
  <2> HIDE DEF g
  <2>4. has(g, n)
    BY <2>3
  <2> QED
    BY <2>4
<1>4. \E f : has(f, Len(s))
  <2> HIDE DEF N
  <2>1. (0 .. Len(s)) \subseteq N
    BY <1>1, <1>2, <1>3, UpTo
  <2>2. Len(s) \in N
    BY <1>1, <2>1
  <2> USE DEF N
  <2> QED
    BY <2>2
<1> DEFINE h == CHOOSE f : has(f, Len(s))
<1>5. has(h, Len(s))
  BY <1>4
<1>6. Only(s, S) = h[Len(s)]
  BY DEF Only
<1> HIDE DEF h
<1>7. \A n \in 0 .. Len(s) : h[n] = step(h, n)
  <2> HIDE DEF step
  <2> QED
    BY <1>5
<1>8. h[0] = <<>> /\ \A n \in 1 .. Len(s) : h[n] = step(h, n)
  BY <1>1, <1>7
<1> QED
  BY <1>6, <1>8

\* One element more, at the end.
LEMMA AppendedRange ==
  ASSUME NEW T, NEW q \in Seq(T), NEW x \in T
  PROVE  Append(q, x) \in Seq(T) /\ Range(Append(q, x)) = Range(q) \cup {x}
<1>1. PICK n \in Nat : n = Len(q)
  BY LenProperties
<1>2. PICK s : s = Append(q, x)
  OBVIOUS
<1>3. /\ s \in Seq(T) /\ Len(s) = n + 1 /\ s[n + 1] = x
      /\ \A k \in 1 .. n : s[k] = q[k]
  BY <1>1, <1>2, AppendProperties
<1>4. DOMAIN s = 1 .. n + 1 /\ DOMAIN q = 1 .. n
  BY <1>1, <1>3, LenProperties
<1>5. Range(s) = Range(q) \cup {x}
  BY <1>3, <1>4 DEF Range
<1> QED
  BY <1>2, <1>3, <1>5

\* Only keeps what is asked for, and nothing else.
LEMMA OnlyThese ==
  ASSUME NEW T, NEW s \in Seq(T), NEW S
  PROVE  Only(s, S) \in Seq(T) /\ Range(Only(s, S)) = Range(s) \cap S
<1>1. PICK f : /\ Only(s, S) = f[Len(s)] /\ f[0] = <<>>
               /\ \A n \in 1 .. Len(s) :
                    f[n] = IF s[n] \in S THEN Append(f[n - 1], s[n]) ELSE f[n - 1]
  BY OnlyUnfolds
<1> DEFINE N == {n \in 0 .. Len(s) :
                   f[n] \in Seq(T) /\ Range(f[n]) = {s[k] : k \in 1 .. n} \cap S}
<1>2. Len(s) \in Nat
  BY LenProperties
<1>3. 0 \in N
  <2>1. f[0] \in Seq(T) /\ Range(f[0]) = {}
    BY <1>1, EmptySeq DEF Range
  <2>2. {s[k] : k \in 1 .. 0} = {}
    OBVIOUS
  <2> QED
    BY <1>2, <2>1, <2>2
<1>4. ASSUME NEW n \in 1 .. Len(s), n - 1 \in N PROVE n \in N
  <2>1. f[n - 1] \in Seq(T) /\ Range(f[n - 1]) = {s[k] : k \in 1 .. n - 1} \cap S
    BY <1>4
  <2>2. s[n] \in T
    BY ElementOfSeq
  <2>3. {s[k] : k \in 1 .. n} = {s[k] : k \in 1 .. n - 1} \cup {s[n]}
    OBVIOUS
  <2>4. CASE s[n] \in S
    <3>1. f[n] = Append(f[n - 1], s[n])
      BY <1>1, <2>4
    <3>2. f[n] \in Seq(T) /\ Range(f[n]) = Range(f[n - 1]) \cup {s[n]}
      BY <2>1, <2>2, <3>1, AppendedRange
    <3> QED
      BY <2>1, <2>3, <2>4, <3>2
  <2>5. CASE s[n] \notin S
    BY <1>1, <2>1, <2>3, <2>5
  <2> QED
    BY <2>4, <2>5
<1>5. (0 .. Len(s)) \subseteq N
  <2> HIDE DEF N
  <2> QED
    BY <1>2, <1>3, <1>4, UpTo
<1>6. Range(s) = {s[k] : k \in 1 .. Len(s)}
  BY LenProperties DEF Range
<1>7. Len(s) \in N
  <2> HIDE DEF N
  <2> QED
    BY <1>2, <1>5
<1> QED
  BY <1>1, <1>6, <1>7

\* Two sequences, one after the other.
LEMMA JoinedRange ==
  ASSUME NEW T, NEW s \in Seq(T), NEW t \in Seq(T)
  PROVE  s \o t \in Seq(T) /\ Range(s \o t) = Range(s) \cup Range(t)
<1>1. PICK m \in Nat, n \in Nat : m = Len(s) /\ n = Len(t)
  BY LenProperties
<1>2. PICK st : st = s \o t
  OBVIOUS
<1>3. /\ st \in Seq(T) /\ Len(st) = m + n
      /\ \A i \in 1 .. m + n : st[i] = IF i <= m THEN s[i] ELSE t[i - m]
  BY <1>1, <1>2, ConcatProperties
<1>4. DOMAIN st = 1 .. m + n /\ DOMAIN s = 1 .. m /\ DOMAIN t = 1 .. n
  BY <1>1, <1>3, LenProperties
<1>5. /\ Range(st) = {st[k] : k \in 1 .. m + n}
      /\ Range(s) = {s[k] : k \in 1 .. m}
      /\ Range(t) = {t[k] : k \in 1 .. n}
  BY <1>4 DEF Range
<1>6. ASSUME NEW k \in 1 .. m + n
      PROVE  st[k] \in {s[i] : i \in 1 .. m} \cup {t[i] : i \in 1 .. n}
  <2>1. CASE k <= m
    <3>1. k \in 1 .. m /\ st[k] = s[k]
      BY <1>3, <2>1
    <3> QED
      BY <3>1
  <2>2. CASE ~(k <= m)
    <3>1. k - m \in 1 .. n /\ st[k] = t[k - m]
      BY <1>3, <2>2
    <3> QED
      BY <3>1
  <2> QED
    BY <2>1, <2>2
<1>7. ASSUME NEW k \in 1 .. m PROVE s[k] \in {st[i] : i \in 1 .. m + n}
  <2>1. k \in 1 .. m + n /\ st[k] = s[k]
    BY <1>3
  <2> QED
    BY <2>1
<1>8. ASSUME NEW k \in 1 .. n PROVE t[k] \in {st[i] : i \in 1 .. m + n}
  <2>1. m + k \in 1 .. m + n /\ ~(m + k <= m) /\ (m + k) - m = k
    OBVIOUS
  <2>2. st[m + k] = t[k]
    BY <1>3, <2>1
  <2> QED
    BY <2>1, <2>2
<1>9. Range(st) = Range(s) \cup Range(t)
  BY <1>5, <1>6, <1>7, <1>8
<1> QED
  BY <1>2, <1>3, <1>9


-------------------------------------------------------------------------------
(* The views.                                                              *)

ViewRecord ==
  [step : {"none", "selected", "resolved", "live"}, selection : Seq(Ids), list : Seq(Providers)]

\* A list with at most one provider of each ID.
OneOfEach(list) == \A p, q \in Range(list) : IdOf[p] = IdOf[q] => p = q

ViewSound(x) ==
  /\ x \in ViewRecord
  /\ OneOfEach(x.list)
  /\ x.step = "resolved" => x.list # <<>>

RootSound == root \in Seq(Providers) /\ OneOfEach(root)

UpdateSound ==
  IF update.step = "moving"
  THEN update.left # {} /\ update.left \subseteq update.views /\ update.views \subseteq Live
  ELSE update.left = {} /\ update.views = {}

\* A view is without providers only if the pool is, or an update is still to come to it.
NoneDead ==
  update.step # "swapped" => \A v \in Live \ update.left : view[v].list = <<>> => root = <<>>

ViewsInv ==
  /\ ViewsTypeOK
  /\ RootSound
  /\ \A v \in Views : ViewSound(view[v])
  /\ UpdateSound
  /\ NoneDead
  /\ \A v \in update.views \ update.left : Follows(v)

\* What resolving a list gives.
LEMMA Ordered ==
  ASSUME NEW list \in Seq(Providers)
  PROVE  OrderProviders(list) \in Seq(Providers) /\ Range(OrderProviders(list)) = Range(list)
<1>1. PICK s, t : s = Only(list, Primaries(list)) /\ t = Only(list, Range(list) \ Primaries(list))
  OBVIOUS
<1>2. s \in Seq(Providers) /\ t \in Seq(Providers)
  BY <1>1, OnlyThese
<1>3. /\ Range(s) = Range(list) \cap Primaries(list)
      /\ Range(t) = Range(list) \cap (Range(list) \ Primaries(list))
  BY <1>1, OnlyThese
<1>4. s \o t \in Seq(Providers) /\ Range(s \o t) = Range(s) \cup Range(t)
  BY <1>2, JoinedRange
<1>5. Range(s) \cup Range(t) = Range(list)
  BY <1>3
<1>6. OrderProviders(list) = s \o t
  BY <1>1 DEF OrderProviders
<1> QED
  BY <1>4, <1>5, <1>6

LEMMA Resolved ==
  ASSUME NEW list \in Seq(Providers), NEW selection \in Seq(Ids)
  PROVE  /\ Chosen(list, selection) \in Seq(Ids)
         /\ Resolve(list, selection) \in Seq(Providers)
         /\ Range(Resolve(list, selection)) \subseteq Range(list)
<1>1. PICK ids : ids = Chosen(list, selection)
  OBVIOUS
<1>2. ids \in Seq(Ids) /\ Range(ids) = Range(selection) \cap IdsOf(list)
  BY <1>1, OnlyThese DEF Chosen
<1>3. CASE selection = <<>>
  BY <1>1, <1>2, <1>3 DEF Resolve
<1>4. CASE selection # <<>>
  <2> DEFINE of(k) == CHOOSE p \in Range(list) : IdOf[p] = ids[k]
             found == [k \in DOMAIN ids |-> of(k)]
  <2>1. Resolve(list, selection) = found
    BY <1>1, <1>4 DEF Resolve
  <2>2. ASSUME NEW k \in DOMAIN ids PROVE of(k) \in Range(list)
    <3>1. ids[k] \in IdsOf(list)
      BY <1>2 DEF Range
    <3>2. \E p \in Range(list) : IdOf[p] = ids[k]
      BY <3>1 DEF IdsOf
    <3> QED
      BY <3>2
  <2>3. Range(list) \subseteq Providers
    BY DEF Range
  <2> HIDE DEF of
  <2>4. DOMAIN ids = 1 .. Len(ids) /\ Len(ids) \in Nat
    BY <1>2, LenProperties
  <2>5. found \in [1 .. Len(ids) -> Providers] /\ Range(found) \subseteq Range(list)
    BY <2>2, <2>3, <2>4 DEF Range
  <2>6. found \in Seq(Providers)
    BY <2>4, <2>5, IsASeq
  <2> QED
    BY <1>1, <1>2, <2>1, <2>5, <2>6
<1> QED
  BY <1>3, <1>4

\* An update's list, in fetch order, is a sound root.
LEMMA InstalledSound ==
  ASSUME ViewsAssumption, NEW list \in Lists \cup {Initial}, root' = OrderProviders(list)
  PROVE  RootSound'
<1>1. /\ list \in Seq(Providers)
      /\ \A i, j \in DOMAIN list : IdOf[list[i]] = IdOf[list[j]] => i = j
  BY DEF ViewsAssumption
<1>2. OneOfEach(list)
  BY <1>1 DEF OneOfEach, Range
<1>3. root' \in Seq(Providers) /\ Range(root') = Range(list)
  BY <1>1, Ordered
<1> QED
  BY <1>2, <1>3 DEF RootSound, OneOfEach

LEMMA ViewsStart == ASSUME ViewsAssumption, ViewsInit PROVE ViewsInv
<1>1. RootSound
  <2>1. PICK r : r = OrderProviders(Initial)
    OBVIOUS
  <2>2. /\ Initial \in Seq(Providers)
        /\ \A i, j \in DOMAIN Initial : IdOf[Initial[i]] = IdOf[Initial[j]] => i = j
    BY DEF ViewsAssumption
  <2>3. OneOfEach(Initial)
    BY <2>2 DEF OneOfEach, Range
  <2>4. root \in Seq(Providers) /\ Range(root) = Range(Initial)
    BY <2>2, Ordered DEF ViewsInit
  <2> QED
    BY <2>3, <2>4 DEF RootSound, OneOfEach
<1>2. ViewSound(NoView)
  <2>1. NoView \in ViewRecord
    BY EmptySeq DEF NoView, ViewRecord
  <2>2. Range(<<>>) = {}
    BY EmptySeq DEF Range
  <2> QED
    BY <2>1, <2>2 DEF NoView, ViewSound, OneOfEach
<1>3. Live = {} /\ update = Idle
  BY DEF ViewsInit, Live, NoView
<1>4. ViewsTypeOK
  BY <1>1, <1>2, <1>3 DEF ViewsTypeOK, ViewsInit, ViewSound, ViewRecord, RootSound, Idle
<1> QED
  BY <1>1, <1>2, <1>3, <1>4 DEF ViewsInv, ViewsInit, UpdateSound, NoneDead, Idle

\* Subset's steps and a session's leaving touch one view, which no update has collected.
LEMMA OneViewKeeps ==
  ASSUME ViewsInv, NEW v \in Views, NEW x \in ViewRecord, ViewSound(x),
         view' = [view EXCEPT ![v] = x], UNCHANGED <<root, update>>,
         v \notin update.views, x.step = "live" => x.list # <<>>
  PROVE  ViewsInv'
<1>1. view \in [Views -> ViewRecord]
  BY DEF ViewsInv, ViewsTypeOK, ViewRecord
<1>2. view'[v] = x /\ \A w \in Views \ {v} : view'[w] = view[w]
  BY <1>1
<1>3. ViewsTypeOK'
  BY <1>1 DEF ViewsInv, ViewsTypeOK, ViewRecord
<1>4. RootSound'
  BY DEF ViewsInv, RootSound
<1>5. \A w \in Views : ViewSound(view'[w])
  BY <1>2 DEF ViewsInv
<1>6. UpdateSound'
  BY <1>2 DEF ViewsInv, UpdateSound, Live
<1>7. NoneDead'
  BY <1>2 DEF ViewsInv, NoneDead, Live
<1>8. \A w \in update'.views \ update'.left : Follows(w)'
  <2>1. update.views \subseteq Views
    BY DEF ViewsInv, ViewsTypeOK
  <2> QED
    BY <1>2, <2>1 DEF ViewsInv, Follows
<1> QED
  BY <1>3, <1>4, <1>5, <1>6, <1>7, <1>8 DEF ViewsInv

LEMMA SubsetKeeps ==
  ASSUME ViewsAssumption, ViewsInv, NEW v \in Views,
         (\E ids \in Selections : Select(v, ids)) \/ TakeProviders(v) \/ Register(v) \/ Drop(v)
  PROVE  ViewsInv'
<1>1. /\ view \in [Views -> ViewRecord] /\ ViewSound(view[v]) /\ view[v] \in ViewRecord
      /\ root \in Seq(Providers)
  BY DEF ViewsInv, ViewsTypeOK, ViewRecord
<1>2. view[v].step # "live" => v \notin update.views
  BY DEF ViewsInv, UpdateSound, Live
<1>3. NoView \in ViewRecord /\ ViewSound(NoView) /\ NoView.step = "none"
  <2>1. NoView \in ViewRecord /\ NoView.list = <<>> /\ NoView.step = "none"
    BY EmptySeq DEF NoView, ViewRecord
  <2>2. Range(<<>>) = {}
    BY EmptySeq DEF Range
  <2> QED
    BY <2>1, <2>2 DEF ViewSound, OneOfEach
<1>4. ASSUME NEW ids \in Selections, Select(v, ids) PROVE ViewsInv'
  <2>1. PICK chosen : chosen = Chosen(root, ids)
    OBVIOUS
  <2>2. chosen \in Seq(Ids)
    BY <1>1, <2>1, Resolved DEF ViewsAssumption
  <2>3. PICK x : x = [view[v] EXCEPT !.step = "selected", !.selection = chosen]
    OBVIOUS
  <2>4. view' = [view EXCEPT ![v] = x]
    BY <1>1, <1>4, <2>1, <2>3 DEF Select
  <2>5. x \in ViewRecord /\ x.step = "selected" /\ x.list = view[v].list
    BY <1>1, <2>2, <2>3 DEF ViewRecord
  <2>6. ViewSound(x)
    BY <1>1, <2>5 DEF ViewSound
  <2> QED
    BY <1>2, <1>4, <2>4, <2>5, <2>6, OneViewKeeps DEF Select
<1>5. CASE TakeProviders(v)
  <2>1. PICK list : list = Resolve(root, view[v].selection)
    OBVIOUS
  <2>2. list \in Seq(Providers) /\ Range(list) \subseteq Range(root)
    BY <1>1, <2>1, Resolved DEF ViewRecord
  <2>3. OneOfEach(list)
    BY <2>2 DEF ViewsInv, RootSound, OneOfEach
  <2>4. PICK x : x = [view[v] EXCEPT !.step = "resolved", !.list = list]
    OBVIOUS
  <2>5. x \in ViewRecord /\ x.step = "resolved" /\ x.list = list
    BY <1>1, <2>2, <2>4 DEF ViewRecord
  <2>6. CASE list = <<>>
    <3>1. view' = [view EXCEPT ![v] = NoView]
      BY <1>5, <2>1, <2>6 DEF TakeProviders
    <3> QED
      BY <1>2, <1>3, <1>5, <3>1, OneViewKeeps DEF TakeProviders
  <2>7. CASE list # <<>>
    <3>1. view' = [view EXCEPT ![v] = x]
      BY <1>5, <2>1, <2>4, <2>7 DEF TakeProviders
    <3>2. ViewSound(x)
      BY <2>3, <2>5, <2>7 DEF ViewSound
    <3> QED
      BY <1>2, <1>5, <2>5, <3>1, <3>2, OneViewKeeps DEF TakeProviders
  <2> QED
    BY <2>6, <2>7
<1>6. CASE Register(v)
  <2>1. PICK x : x = [view[v] EXCEPT !.step = "live"]
    OBVIOUS
  <2>2. view' = [view EXCEPT ![v] = x]
    BY <1>1, <1>6, <2>1 DEF Register
  <2>3. x \in ViewRecord /\ x.step = "live" /\ x.list = view[v].list
    BY <1>1, <2>1 DEF ViewRecord
  <2>4. ViewSound(x) /\ x.list # <<>>
    BY <1>1, <1>6, <2>3 DEF ViewSound, Register
  <2> QED
    BY <1>2, <1>6, <2>2, <2>3, <2>4, OneViewKeeps DEF Register
<1>7. CASE Drop(v)
  BY <1>3, <1>7, OneViewKeeps DEF Drop
<1> QED
  BY <1>4, <1>5, <1>6, <1>7

LEMMA SwapRootKeeps ==
  ASSUME ViewsAssumption, ViewsInv, NEW list \in Lists, SwapRoot(list)
  PROVE  ViewsInv'
<1>1. RootSound'
  BY InstalledSound DEF SwapRoot
<1>2. update' = [update EXCEPT !.step = "swapped"] /\ view' = view
  BY DEF SwapRoot
<1>3. update \in [step : {"idle", "swapped", "moving"}, views : SUBSET Views, left : SUBSET Views]
  BY DEF ViewsInv, ViewsTypeOK
<1>4. update'.step = "swapped" /\ update'.views = {} /\ update'.left = {}
  BY <1>2, <1>3 DEF ViewsInv, UpdateSound, SwapRoot
<1>5. ViewsTypeOK'
  <2>1. update' \in [step : {"idle", "swapped", "moving"}, views : SUBSET Views, left : SUBSET Views]
    BY <1>2, <1>3
  <2> QED
    BY <1>1, <1>2, <2>1 DEF ViewsInv, ViewsTypeOK, RootSound
<1> QED
  BY <1>1, <1>2, <1>4, <1>5 DEF ViewsInv, UpdateSound, NoneDead

LEMMA CollectViewsKeeps ==
  ASSUME ViewsInv, CollectViews
  PROVE  ViewsInv'
<1>1. view' = view /\ root' = root /\ Live' = Live
  BY DEF CollectViews, Live
<1>2. CASE Live = {}
  <2>1. update' = Idle
    BY <1>2 DEF CollectViews
  <2> QED
    BY <1>1, <1>2, <2>1
      DEF ViewsInv, ViewsTypeOK, RootSound, UpdateSound, NoneDead, Idle
<1>3. CASE Live # {}
  <2>1. update' = [step |-> "moving", views |-> Live, left |-> Live]
    BY <1>3 DEF CollectViews
  <2>2. Live \subseteq Views
    BY DEF Live
  <2> QED
    BY <1>1, <1>3, <2>1, <2>2
      DEF ViewsInv, ViewsTypeOK, RootSound, UpdateSound, NoneDead
<1> QED
  BY <1>2, <1>3

\* Where a move leads.
LEMMA MoveSets ==
  ASSUME ViewsInv, NEW v \in Views, MoveView(v)
  PROVE  \E x \in ViewRecord :
           /\ view' = [view EXCEPT ![v] = x] /\ ViewSound(x)
           /\ x.step = view[v].step /\ x.step = "live" /\ x.selection = view[v].selection
           /\ x.list = Reresolve(root, view[v].selection)
<1>1. /\ view \in [Views -> ViewRecord] /\ view[v] \in ViewRecord
      /\ root \in Seq(Providers)
  BY DEF ViewsInv, ViewsTypeOK, ViewRecord
<1>2. PICK list : list = Reresolve(root, view[v].selection)
  OBVIOUS
<1>3. list \in Seq(Providers) /\ Range(list) \subseteq Range(root)
  BY <1>1, <1>2, Resolved DEF Reresolve, ViewRecord
<1>4. OneOfEach(list)
  BY <1>3 DEF ViewsInv, RootSound, OneOfEach
<1>5. PICK x : x = [view[v] EXCEPT !.list = list]
  OBVIOUS
<1>6. view' = [view EXCEPT ![v] = x]
  BY <1>1, <1>2, <1>5 DEF MoveView
<1>7. view[v].step = "live"
  BY DEF ViewsInv, UpdateSound, MoveView, Live
<1>8. /\ x \in ViewRecord /\ x.step = view[v].step /\ x.selection = view[v].selection
      /\ x.list = list
  BY <1>1, <1>3, <1>5 DEF ViewRecord
<1> QED
  BY <1>2, <1>4, <1>6, <1>7, <1>8 DEF ViewSound

LEMMA MoveViewKeeps ==
  ASSUME ViewsInv, NEW v \in Views, MoveView(v)
  PROVE  /\ ViewsInv'
         /\ \A w \in update.views \ (update.left \ {v}) : Follows(w)'
<1>1. PICK x \in ViewRecord :
        /\ view' = [view EXCEPT ![v] = x] /\ ViewSound(x)
        /\ x.step = view[v].step /\ x.step = "live" /\ x.selection = view[v].selection
        /\ x.list = Reresolve(root, view[v].selection)
  BY MoveSets
<1>2. view \in [Views -> ViewRecord]
  BY DEF ViewsInv, ViewsTypeOK, ViewRecord
<1>3. view'[v] = x /\ \A w \in Views \ {v} : view'[w] = view[w]
  BY <1>1, <1>2
<1>4. root' = root /\ Live' = Live
  BY <1>1, <1>3 DEF MoveView, Live
<1>5. Follows(v)'
  BY <1>1, <1>3, <1>4 DEF Follows
<1>6. \A w \in update.views \ (update.left \ {v}) : Follows(w)'
  <2>1. update.views \subseteq Views
    BY DEF ViewsInv, ViewsTypeOK
  <2> QED
    BY <1>3, <1>4, <1>5, <2>1 DEF ViewsInv, Follows
<1>7. x.list = <<>> => root = <<>>
  BY <1>1 DEF Reresolve
<1>8. update.step = "moving" /\ v \in update.left /\ update.left \subseteq update.views
      /\ update.views \subseteq Live
  BY DEF ViewsInv, UpdateSound, MoveView
<1>9. \A w \in Live \ (update.left \ {v}) : view'[w].list = <<>> => root = <<>>
  BY <1>3, <1>7, <1>8 DEF ViewsInv, NoneDead, Live
<1>10. \A w \in Views : ViewSound(view'[w])
  BY <1>1, <1>3 DEF ViewsInv
<1>11. view' \in [Views -> ViewRecord] /\ RootSound'
  BY <1>1, <1>2, <1>4 DEF ViewsInv, RootSound
<1>12. CASE update.left = {v}
  <2>1. update' = Idle
    BY <1>12 DEF MoveView, Moved
  <2>2. ViewsTypeOK' /\ UpdateSound'
    BY <1>11, <2>1 DEF ViewsTypeOK, ViewRecord, UpdateSound, RootSound, Idle
  <2>3. NoneDead'
    BY <1>4, <1>9, <1>12, <2>1 DEF NoneDead, Idle
  <2> QED
    BY <1>6, <1>10, <1>11, <2>1, <2>2, <2>3 DEF ViewsInv, Idle
<1>13. CASE update.left # {v}
  <2>1. update' = [update EXCEPT !.left = @ \ {v}]
    BY <1>13 DEF MoveView, Moved
  <2>2. update \in [step : {"idle", "swapped", "moving"}, views : SUBSET Views, left : SUBSET Views]
    BY DEF ViewsInv, ViewsTypeOK
  <2>3. /\ update' \in [step : {"idle", "swapped", "moving"}, views : SUBSET Views,
                         left : SUBSET Views]
        /\ update'.step = "moving" /\ update'.views = update.views
        /\ update'.left = update.left \ {v}
    BY <1>8, <2>1, <2>2
  <2>4. ViewsTypeOK' /\ UpdateSound'
    BY <1>4, <1>8, <1>11, <1>13, <2>3 DEF ViewsTypeOK, ViewRecord, UpdateSound, RootSound
  <2>5. NoneDead'
    BY <1>4, <1>9, <2>3 DEF NoneDead
  <2> QED
    BY <1>6, <1>10, <1>11, <2>3, <2>4, <2>5 DEF ViewsInv
<1> QED
  BY <1>6, <1>12, <1>13

LEMMA ViewsUnmoved == ASSUME ViewsInv, UNCHANGED viewVars PROVE ViewsInv'
BY DEF ViewsInv, viewVars, ViewsTypeOK, RootSound, UpdateSound, NoneDead, Live, Follows

LEMMA ViewsStep ==
  ASSUME ViewsAssumption, ViewsInv, [ViewsNext]_viewVars
  PROVE  ViewsInv'
<1>1. CASE UNCHANGED viewVars
  BY <1>1, ViewsUnmoved
<1>2. ASSUME NEW v \in Views, NEW ids \in Selections, Select(v, ids) PROVE ViewsInv'
  BY <1>2, SubsetKeeps
<1>3. ASSUME NEW v \in Views, TakeProviders(v) \/ Register(v) \/ Drop(v) PROVE ViewsInv'
  BY <1>3, SubsetKeeps
<1>4. ASSUME NEW v \in Views, MoveView(v) PROVE ViewsInv'
  BY <1>4, MoveViewKeeps
<1>5. ASSUME NEW list \in Lists, SwapRoot(list) PROVE ViewsInv'
  BY <1>5, SwapRootKeeps
<1>6. CASE CollectViews
  BY <1>6, CollectViewsKeeps
<1> QED
  BY <1>1, <1>2, <1>3, <1>4, <1>5, <1>6 DEF ViewsNext

\* The views are kept sound by Subset, UpdateProviders and the sessions that leave, in any
\* order (pool.go:671-717, 1899-1957).
THEOREM ViewsInvariant == ViewsSpec => []ViewsInv
<1>1. ViewsInit => ViewsInv
  BY ViewsAssumption, ViewsStart
<1>2. ViewsInv /\ [ViewsNext]_viewVars => ViewsInv'
  BY ViewsAssumption, ViewsStep
<1> QED
  BY <1>1, <1>2, PTL DEF ViewsSpec

\* Fetching moves no provider list: what happens to the views while articles are fetched is
\* what Subset, UpdateProviders and leaving sessions do to them.
THEOREM FetchKeepsViewsSpec == FetchSpec => ViewsSpec
<1>1. FetchInit => ViewsInit
  BY DEF FetchInit
<1>2. ASSUME [FetchNext]_vars PROVE [ViewsNext]_viewVars
  <2>1. CASE UNCHANGED vars
    BY <2>1 DEF vars, viewVars
  <2>2. ASSUME NEW g \in Fetchers,
               Proceed(g) \/ \E v \in Views, m \in Articles : FetchSegment(g, v, m)
        PROVE  UNCHANGED viewVars
    BY <2>2
      DEF Proceed, CheckMissing, CheckCache, CountPrimaries, NextRound, Skip, Connect,
          ConnectFails, Canceled, SecondPass, NoConnection, Served, Refused, Broken, Backup,
          Store, ClearMissing, Verdict, MarkMissing, Return, FetchSegment
  <2>3. CASE \/ \E v \in Views, i \in Ids : CooloffEnds(v, i)
             \/ \E i \in Ids : Unblock(i)
             \/ \E m \in Articles : Evict(m)
    BY <2>3 DEF CooloffEnds, Unblock, Evict
  <2>4. CASE CutView \/ (\E list \in Lists : SwapRoot(list)) \/ CollectViews
    BY <2>4 DEF CutView, ViewsNext
  <2>5. CASE \E v \in Views : DropView(v) \/ UpdateView(v)
    BY <2>5 DEF DropView, UpdateView, ViewsNext
  <2> QED
    BY <1>2, <2>1, <2>2, <2>3, <2>4, <2>5 DEF FetchNext
<1> QED
  BY <1>1, <1>2, PTL DEF FetchSpec, ViewsSpec

\* A view whose selection is gone gets the whole pool "rather than a dead stream"
\* (pool.go:705-708), whatever is removed while it is being cut or moved.
THEOREM NoStreamDies == FetchSpec => []NoDeadStream
<1>1. ViewsInv => NoDeadStream
  <2> SUFFICES ASSUME ViewsInv, update.step = "idle", NEW v \in Live, view[v].list = <<>>
               PROVE  root = <<>>
    BY DEF NoDeadStream
  <2>1. update.left = {}
    BY DEF ViewsInv, UpdateSound
  <2> QED
    BY <2>1 DEF ViewsInv, NoneDead
<1> QED
  BY <1>1, ViewsInvariant, FetchKeepsViewsSpec, PTL

-------------------------------------------------------------------------------
(* The fetches, one by one.                                                *)

FetchRecord ==
  [pc : PCs, view : Views \cup {None}, article : Articles \cup {None},
   tier : {"primary", "backup"}, attempt : Nat, primaries : Nat,
   exclude : SUBSET Ids, attempted : SUBSET Ids, list : Seq(Providers), pass : {1, 2},
   pos : Nat, notFound : BOOLEAN, other : BOOLEAN,
   result : {"body", "missing", "error", None},
   said : SUBSET Providers, gave : SUBSET Providers, tried : SUBSET Providers,
   passed : SUBSET Providers, proved : SUBSET Ids]

\* A call under way: it is its own flight's.
Under == PCs \ {"out", "joined", "done"}

Walking == {"round", "pick", "ask", "backups", "verdict", "mark"}

\* Every ID that was reached has refused the article, or is being asked.
Heard(r) ==
  \A i \in r.attempted :
    \/ \E p \in r.said : IdOf[p] = i
    \/ r.pc = "ask" /\ i = IdOf[r.list[r.pos]]

Sound(r) ==
  /\ r.pc # "out" => r.view \in Views /\ r.article \in Articles
  /\ r.pos >= 1
  /\ r.pc = "ask" => r.pos <= Len(r.list)
  /\ r.pc \in {"joined", "check", "lookup", "count"} => ~r.other /\ r.attempted = {}
  /\ r.pc # "done" => r.result = None /\ (~r.other => r.gave = {})
  /\ r.pc \in Walking /\ ~r.other => Heard(r)
  /\ r.pc = "mark" => r.notFound /\ ~r.other /\ r.proved \subseteq {IdOf[p] : p \in r.said}
  /\ r.notFound => r.said # {}
  /\ r.result = "missing" => r.said # {} /\ r.gave = {}

\* Every primary of l has been asked, could not be reached, or was passed over.
Had(r, l) == Primaries(l) \subseteq r.tried \cup r.passed

\* What is known of a fetch whose view keeps the list l.  It has nothing on entry; it
\* walks l;
Walks(r, l) ==
  /\ r.pc \in {"joined", "check", "lookup", "count"} =>
       /\ r.attempt = 0 /\ r.tier = "primary" /\ r.exclude = {} /\ r.attempted = {}
       /\ r.said = {} /\ r.gave = {}
  /\ r.pc \in {"pick", "ask"} => r.list = l

\* who was reached has answered, or is being asked;
Hears(r, l) ==
  /\ r.pc \in Walking =>
       /\ r.said \cup r.gave \subseteq Range(l)
       /\ \A i \in r.attempted :
            \/ \E p \in r.said \cup r.gave : IdOf[p] = i
            \/ r.pc = "ask" /\ i = IdOf[r.list[r.pos]]
  /\ r.pc = "mark" => Range(l) \subseteq r.said

\* who is excluded was tried, and the backups' walk follows the primaries';
Tries(r, l) ==
  /\ r.pc \in Walking =>
       /\ \A p \in Range(l) : IdOf[p] \in r.exclude => p \in r.tried
       /\ r.tier = "backup" \/ r.pc = "backups" => Had(r, l)
  /\ r.pc = "ask" =>
       LET p == r.list[r.pos]
       IN /\ IdOf[p] \notin r.exclude
          /\ p \in r.tried
          /\ InReserve(l, p) <=> r.tier = "backup"

\* until the primaries have had their turn, every round excludes one more of them.
Rounding(r, l) ==
  /\ r.pc \in {"round", "pick", "ask"} /\ r.tier = "primary" =>
       /\ r.primaries = Cardinality(Primaries(l))
       /\ r.exclude \subseteq {IdOf[p] : p \in Primaries(l)}
       /\ Had(r, l) \/ r.attempt = Cardinality(r.exclude)
  /\ r.pc = "pick" /\ r.tier = "primary" =>
       IF r.pass = 2 THEN Had(r, l)
       ELSE \A i \in 1 .. r.pos - 1 : l[i] \in Primaries(l) => l[i] \in r.tried \cup r.passed

Steady(r, l) == Walks(r, l) /\ Hears(r, l) /\ Tries(r, l) /\ Rounding(r, l)

Sets(g, x) == fetch' = [fetch EXCEPT ![g] = x]

Alike(x, r) ==
  /\ x.view = r.view /\ x.article = r.article /\ x.tier = r.tier /\ x.attempt = r.attempt
  /\ x.primaries = r.primaries /\ x.exclude = r.exclude /\ x.attempted = r.attempted
  /\ x.list = r.list /\ x.pass = r.pass /\ x.pos = r.pos /\ x.notFound = r.notFound
  /\ x.other = r.other /\ x.result = r.result /\ x.said = r.said /\ x.gave = r.gave
  /\ x.tried = r.tried /\ x.passed = r.passed

\* g's call goes on as x.
GoesOn(g, x) ==
  /\ x \in FetchRecord /\ Sets(g, x) /\ Sound(x)
  /\ x.pc \in Under /\ x.view = fetch[g].view /\ x.article = fetch[g].article
  /\ Steady(fetch[g], List(g)) => Steady(x, List(g))

FetchesSound ==
  /\ fetch \in [Fetchers -> FetchRecord]
  /\ \A g \in Fetchers : Sound(fetch[g]) /\ (fetch[g].pc # "out" => fetch[g].view \in Live)

\* The list a call under way has.
LEMMA ListSound ==
  ASSUME ViewsInv, FetchesSound, NEW g \in Fetchers, fetch[g].pc # "out"
  PROVE  /\ fetch[g] \in FetchRecord /\ Sound(fetch[g])
         /\ List(g) \in Seq(Providers) /\ OneOfEach(List(g))
BY DEF ViewsInv, ViewSound, ViewRecord, FetchesSound, Sound, List

LEMMA GoSets ==
  ASSUME FetchesSound, NEW g \in Fetchers, NEW pc \in PCs, Go(g, pc)
  PROVE  \E x \in FetchRecord : Sets(g, x) /\ x.pc = pc /\ Alike(x, fetch[g])
<1>1. fetch \in [Fetchers -> FetchRecord] /\ fetch[g] \in FetchRecord
  BY DEF FetchesSound
<1>2. PICK x : x = [fetch[g] EXCEPT !.pc = pc]
  OBVIOUS
<1>3. x \in FetchRecord /\ x.pc = pc
  BY <1>1, <1>2 DEF FetchRecord
<1>4. Alike(x, fetch[g])
  BY <1>1, <1>2 DEF FetchRecord, Alike
<1>5. Sets(g, x)
  BY <1>1, <1>2 DEF Go, Sets
<1> QED
  BY <1>3, <1>4, <1>5

\* The way in.
LEMMA EntryGoesOn ==
  ASSUME ViewsInv, FetchesSound, NEW g \in Fetchers,
         \/ fetch[g].pc = "check" /\ Go(g, "lookup")
         \/ fetch[g].pc = "lookup" /\ Go(g, "count")
         \/ fetch[g].pc = "ask" /\ Go(g, "store")
         \/ fetch[g].pc = "store" /\ Go(g, "clear")
  PROVE  \E x : GoesOn(g, x)
<1>1. PICK pc \in {"lookup", "count", "store", "clear"} :
        /\ Go(g, pc)
        /\ pc \in {"lookup", "count"} => fetch[g].pc \in {"check", "lookup"}
        /\ fetch[g].pc \in {"check", "lookup", "ask", "store"}
  OBVIOUS
<1>2. pc \in PCs
  BY DEF PCs
<1>3. PICK x \in FetchRecord : Sets(g, x) /\ x.pc = pc /\ Alike(x, fetch[g])
  BY <1>1, <1>2, GoSets
<1>4. Sound(fetch[g])
  BY DEF FetchesSound
<1>5. Sound(x)
  BY <1>1, <1>3, <1>4 DEF Sound, Heard, Walking, Alike
<1>6. Steady(fetch[g], List(g)) => Steady(x, List(g))
  BY <1>1, <1>3 DEF Steady, Walks, Hears, Tries, Rounding, Walking, Alike
<1>7. x.pc \in Under /\ x.view = fetch[g].view /\ x.article = fetch[g].article
  BY <1>1, <1>3 DEF Under, PCs, Alike
<1> QED
  BY <1>3, <1>5, <1>6, <1>7 DEF GoesOn

LEMMA CardinalityOfList ==
  ASSUME NEW l \in Seq(Providers)
  PROVE  /\ IsFiniteSet(Range(l)) /\ IsFiniteSet(Primaries(l)) /\ Primaries(l) \subseteq Range(l)
         /\ Cardinality(Primaries(l)) \in Nat
<1>1. l \in [1 .. Len(l) -> Providers] /\ Len(l) \in Nat
  BY LenProperties
<1>2. IsFiniteSet(1 .. Len(l))
  BY <1>1, FS_Interval
<1>3. l \in Surjection(1 .. Len(l), Range(l))
  BY <1>1 DEF Surjection, Range
<1>4. IsFiniteSet(Range(l))
  BY <1>2, <1>3, FS_Surjection
<1>5. Primaries(l) \subseteq Range(l)
  BY DEF Primaries
<1> QED
  BY <1>4, <1>5, FS_Subset, FS_CardinalityType

LEMMA CountGoesOn ==
  ASSUME ViewsInv, FetchesSound, NEW g \in Fetchers, CountPrimaries(g)
  PROVE  \E x : GoesOn(g, x)
<1>1. /\ fetch \in [Fetchers -> FetchRecord] /\ fetch[g] \in FetchRecord /\ Sound(fetch[g])
      /\ fetch[g].pc = "count"
  BY DEF FetchesSound, CountPrimaries
<1>2. List(g) \in Seq(Providers)
  BY <1>1, ListSound
<1>3. PICK n \in Nat : n = Cardinality(Primaries(List(g)))
  BY <1>2, CardinalityOfList
<1>4. PICK x : x = [fetch[g] EXCEPT !.pc = "round", !.primaries = n]
  OBVIOUS
<1>5. Sets(g, x)
  BY <1>1, <1>3, <1>4 DEF CountPrimaries, Sets
<1>6. /\ x \in FetchRecord /\ x.pc = "round" /\ x.primaries = n /\ x.view = fetch[g].view
      /\ x.article = fetch[g].article /\ x.pos = fetch[g].pos
  BY <1>1, <1>4 DEF FetchRecord, PCs
<1>7. /\ x.tier = fetch[g].tier /\ x.attempt = fetch[g].attempt /\ x.exclude = fetch[g].exclude
      /\ x.attempted = fetch[g].attempted /\ x.said = fetch[g].said /\ x.gave = fetch[g].gave
      /\ x.notFound = fetch[g].notFound /\ x.other = fetch[g].other /\ x.result = fetch[g].result
  BY <1>1, <1>4 DEF FetchRecord
<1>8. Sound(x)
  BY <1>1, <1>6, <1>7 DEF Sound, Heard, Walking
<1>9. Steady(fetch[g], List(g)) => Steady(x, List(g))
  <2>1. Cardinality({}) = 0
    BY FS_EmptySet
  <2> QED
    BY <1>1, <1>3, <1>6, <1>7, <2>1 DEF Steady, Walks, Hears, Tries, Rounding, Walking
<1> QED
  BY <1>5, <1>6, <1>8, <1>9 DEF GoesOn, Under, PCs

\* As many primaries excluded as there are: all of them.
LEMMA AllExcluded ==
  ASSUME NEW l \in Seq(Providers), NEW E \in SUBSET {IdOf[p] : p \in Primaries(l)},
         Cardinality(E) >= Cardinality(Primaries(l))
  PROVE  \A p \in Primaries(l) : IdOf[p] \in E
<1> DEFINE ids == {IdOf[p] : p \in Primaries(l)}
           f == [p \in Primaries(l) |-> IdOf[p]]
<1>1. IsFiniteSet(Primaries(l)) /\ Cardinality(Primaries(l)) \in Nat
  BY CardinalityOfList
<1>2. f \in Surjection(Primaries(l), ids)
  BY DEF Surjection
<1>3. IsFiniteSet(ids) /\ Cardinality(ids) <= Cardinality(Primaries(l))
  <2> HIDE DEF f, ids
  <2> QED
    BY <1>1, <1>2, FS_Surjection
<1>4. Cardinality(ids) \in Nat /\ Cardinality(E) \in Nat /\ Cardinality(E) <= Cardinality(ids)
      /\ (Cardinality(ids) = Cardinality(E) => ids = E)
  <2>1. E \in SUBSET ids
    OBVIOUS
  <2> HIDE DEF ids
  <2> QED
    BY <1>3, <2>1, FS_Subset, FS_CardinalityType
<1>5. ids = E
  <2> HIDE DEF ids
  <2> QED
    BY <1>1, <1>3, <1>4
<1> QED
  BY <1>5

LEMMA ExcludedFinite ==
  ASSUME NEW l \in Seq(Providers), NEW E \in SUBSET {IdOf[p] : p \in Primaries(l)}
  PROVE  IsFiniteSet(E)
<1> DEFINE ids == {IdOf[p] : p \in Primaries(l)}
           f == [p \in Primaries(l) |-> IdOf[p]]
<1>1. IsFiniteSet(Primaries(l))
  BY CardinalityOfList
<1>2. f \in Surjection(Primaries(l), ids)
  BY DEF Surjection
<1>3. E \in SUBSET ids
  OBVIOUS
<1> HIDE DEF f, ids
<1>4. IsFiniteSet(ids)
  BY <1>1, <1>2, FS_Surjection
<1> QED
  BY <1>3, <1>4, FS_Subset

\* A round of the walk begins, or the primaries have had all of theirs.
LEMMA RoundGoesOn ==
  ASSUME ViewsInv, FetchesSound, NEW g \in Fetchers, NextRound(g)
  PROVE  \E x : GoesOn(g, x)
<1>1. PICK r, l : r = fetch[g] /\ l = List(g)
  OBVIOUS
<1>2. fetch \in [Fetchers -> FetchRecord] /\ r \in FetchRecord /\ Sound(r) /\ r.pc = "round"
  BY <1>1 DEF FetchesSound, NextRound
<1>3. l \in Seq(Providers)
  BY <1>1, <1>2, ListSound
<1>4. CASE r.tier = "primary" /\ r.attempt = Rounds(g)
  <2>1. PICK x : x = [r EXCEPT !.pc = "backups"]
    OBVIOUS
  <2>2. Sets(g, x)
    BY <1>1, <1>2, <1>4, <2>1 DEF NextRound, Sets
  <2>3. x \in FetchRecord /\ x.pc = "backups" /\ Alike(x, r)
    BY <1>2, <2>1 DEF FetchRecord, PCs, Alike
  <2>4. Sound(x)
    BY <1>2, <2>3 DEF Sound, Heard, Walking, Alike
  <2>5. ASSUME Steady(r, l) PROVE Had(r, l)
    <3>1. CASE r.attempt = Cardinality(r.exclude)
      <4>1. /\ r.primaries = Cardinality(Primaries(l))
            /\ r.exclude \subseteq {IdOf[p] : p \in Primaries(l)}
        BY <1>2, <1>4, <2>5 DEF Steady, Rounding
      <4>2. r.attempt >= r.primaries
        BY <1>1, <1>2, <1>4, FetchAssumption DEF Rounds, FetchRecord
      <4>3. \A p \in Primaries(l) : IdOf[p] \in r.exclude
        BY <1>3, <3>1, <4>1, <4>2, AllExcluded
      <4>4. \A p \in Range(l) : IdOf[p] \in r.exclude => p \in r.tried
        BY <1>2, <2>5 DEF Steady, Tries, Walking
      <4> QED
        BY <4>3, <4>4 DEF Had, Primaries
    <3> QED
      BY <1>2, <1>4, <2>5, <3>1 DEF Steady, Rounding
  <2>6. ASSUME Steady(r, l) PROVE Steady(x, l)
    <3>1. Had(x, l)
      BY <2>3, <2>5, <2>6 DEF Had, Alike
    <3> QED
      BY <1>2, <2>3, <2>6, <3>1 DEF Steady, Walks, Hears, Tries, Rounding, Walking, Alike
  <2> QED
    BY <1>1, <2>2, <2>3, <2>4, <2>6 DEF GoesOn, Under, PCs, Alike
<1>5. CASE ~(r.tier = "primary" /\ r.attempt = Rounds(g))
  <2>1. PICK x : x = [r EXCEPT !.pc = "pick", !.list = l, !.pass = 1, !.pos = 1]
    OBVIOUS
  <2>2. Sets(g, x)
    BY <1>1, <1>2, <1>5, <2>1 DEF NextRound, Sets
  <2>3. x \in FetchRecord /\ x.pc = "pick" /\ x.list = l /\ x.pass = 1 /\ x.pos = 1
    BY <1>2, <1>3, <2>1 DEF FetchRecord, PCs
  <2>4. /\ x.view = r.view /\ x.article = r.article /\ x.tier = r.tier /\ x.attempt = r.attempt
        /\ x.primaries = r.primaries /\ x.exclude = r.exclude /\ x.attempted = r.attempted
        /\ x.notFound = r.notFound /\ x.other = r.other /\ x.result = r.result
        /\ x.said = r.said /\ x.gave = r.gave /\ x.tried = r.tried /\ x.passed = r.passed
    BY <1>2, <2>1 DEF FetchRecord
  <2>5. Sound(x)
    BY <1>2, <2>3, <2>4 DEF Sound, Heard, Walking
  <2>6. ASSUME Steady(r, l) PROVE Steady(x, l)
    <3>1. 1 .. x.pos - 1 = {}
      BY <2>3
    <3>2. Had(r, l) => Had(x, l)
      BY <2>4 DEF Had
    <3> QED
      BY <1>2, <2>3, <2>4, <2>6, <3>1, <3>2 DEF Steady, Walks, Hears, Tries, Rounding, Walking
  <2> QED
    BY <1>1, <2>2, <2>3, <2>4, <2>5, <2>6 DEF GoesOn, Under, PCs
<1> QED
  BY <1>4, <1>5

\* The candidate of a walk over l.
LEMMA CandidateSound ==
  ASSUME ViewsInv, FetchesSound, NEW g \in Fetchers, Picking(g)
  PROVE  /\ fetch[g].list \in Seq(Providers) /\ fetch[g].pos \in 1 .. Len(fetch[g].list)
         /\ Candidate(g) \in Providers /\ IdOf[Candidate(g)] \in Ids
         /\ Candidate(g) \in Range(fetch[g].list)
<1>1. fetch[g] \in FetchRecord /\ Sound(fetch[g])
  BY DEF FetchesSound
<1>2. fetch[g].list \in Seq(Providers) /\ fetch[g].pos \in Nat /\ fetch[g].pos >= 1
  BY <1>1 DEF FetchRecord, Sound
<1>3. fetch[g].pos \in 1 .. Len(fetch[g].list)
  BY <1>2 DEF Picking
<1>4. Candidate(g) \in Providers /\ Candidate(g) \in Range(fetch[g].list)
  BY <1>2, <1>3, LenProperties DEF Candidate, Range
<1> QED
  BY <1>2, <1>3, <1>4, ViewsAssumption DEF ViewsAssumption

\* The walk passes over a provider.
LEMMA SkipGoesOn ==
  ASSUME ViewsInv, FetchesSound, NEW g \in Fetchers, Skip(g)
  PROVE  \E x : GoesOn(g, x)
<1>1. PICK r, l, p : r = fetch[g] /\ l = List(g) /\ p = Candidate(g)
  OBVIOUS
<1>2. /\ fetch \in [Fetchers -> FetchRecord] /\ r \in FetchRecord /\ Sound(r)
      /\ r.pc = "pick" /\ r.pos \in 1 .. Len(r.list) /\ p = r.list[r.pos]
      /\ p \in Providers /\ p \in Range(r.list)
  BY <1>1, CandidateSound DEF FetchesSound, Skip, Picking, Candidate
<1>3. PICK more \in SUBSET Providers :
        more = IF fetch[g].pass = 1 /\ Benched(fetch[g].view, IdOf[Candidate(g)])
               THEN r.passed \cup {p} ELSE r.passed
  <2>1. r.passed \in SUBSET Providers /\ r.passed \cup {p} \in SUBSET Providers
    BY <1>2 DEF FetchRecord
  <2> QED
    BY <2>1, Zenon
<1>4. /\ r.passed \subseteq more
      /\ r.pass = 1 /\ Benched(r.view, IdOf[p]) => p \in more
  <2>1. CASE fetch[g].pass = 1 /\ Benched(fetch[g].view, IdOf[Candidate(g)])
    <3>1. more = r.passed \cup {p}
      BY <1>3, <2>1, Zenon
    <3> QED
      BY <3>1
  <2>2. CASE ~(fetch[g].pass = 1 /\ Benched(fetch[g].view, IdOf[Candidate(g)]))
    <3>1. more = r.passed
      BY <1>3, <2>2, Zenon
    <3> QED
      BY <1>1, <2>2, <3>1
  <2> QED
    BY <2>1, <2>2
<1>5. PICK n \in Nat : n = r.pos + 1
  BY <1>2 DEF FetchRecord
<1>5a. PICK x : x = [r EXCEPT !.pos = n, !.passed = more]
  OBVIOUS
<1>6. Sets(g, x)
  <2>1. fetch' = [fetch EXCEPT ![g].pos = @ + 1, ![g].passed = more]
    BY <1>1, <1>3, Zenon DEF Skip
  <2> QED
    BY <1>1, <1>2, <1>5, <1>5a, <2>1 DEF Sets
<1>7. /\ x \in FetchRecord /\ x.pc = "pick" /\ x.pos = r.pos + 1 /\ x.passed = more
      /\ x.list = r.list /\ x.pass = r.pass
  BY <1>2, <1>5, <1>5a DEF FetchRecord, PCs
<1>8. /\ x.view = r.view /\ x.article = r.article /\ x.tier = r.tier /\ x.attempt = r.attempt
      /\ x.primaries = r.primaries /\ x.exclude = r.exclude /\ x.attempted = r.attempted
      /\ x.notFound = r.notFound /\ x.other = r.other /\ x.result = r.result
      /\ x.said = r.said /\ x.gave = r.gave /\ x.tried = r.tried
  BY <1>2, <1>5a DEF FetchRecord
<1>9. Sound(x)
  BY <1>2, <1>7, <1>8 DEF Sound, Heard, Walking
<1>10. ASSUME Steady(r, l) PROVE Steady(x, l)
  <2>1. r.list = l
    BY <1>2, <1>10 DEF Steady, Walks
  <2>2. Had(r, l) => Had(x, l)
    BY <1>4, <1>7, <1>8 DEF Had
  <2>3. Walks(x, l) /\ Hears(x, l)
    BY <1>2, <1>7, <1>8, <1>10 DEF Steady, Walks, Hears, Walking
  <2>4. Tries(x, l)
    BY <1>2, <1>7, <1>8, <1>10, <2>2 DEF Steady, Tries, Walking
  <2>5. ASSUME r.tier = "primary", r.pass = 1, p \in Primaries(l) PROVE p \in x.tried \cup x.passed
    <3>1. ~InReserve(r.list, p)
      BY <2>1, <2>5 DEF Primaries
    <3>2. CASE IdOf[p] \in r.exclude
      BY <1>2, <1>8, <1>10, <2>1, <3>2 DEF Steady, Tries, Walking
    <3>3. CASE IdOf[p] \notin r.exclude
      <4>1. ~Eligible(g)
        BY DEF Skip
      <4>2. Benched(r.view, IdOf[p])
        BY <1>1, <2>5, <3>1, <3>3, <4>1 DEF Eligible
      <4> QED
        BY <1>4, <1>7, <2>5, <4>2
    <3> QED
      BY <3>2, <3>3
  <2>6. Rounding(x, l)
    <3>1. ASSUME r.tier = "primary", r.pass = 1, NEW i \in 1 .. x.pos - 1, l[i] \in Primaries(l)
          PROVE  l[i] \in x.tried \cup x.passed
      <4>1. CASE i = r.pos
        BY <1>2, <2>1, <2>5, <3>1, <4>1
      <4>2. CASE i \in 1 .. r.pos - 1
        <5>1. l[i] \in r.tried \cup r.passed
          BY <1>2, <1>10, <3>1, <4>2 DEF Steady, Rounding
        <5> QED
          BY <1>4, <1>7, <1>8, <5>1
      <4> QED
        BY <1>2, <1>7, <4>1, <4>2
    <3>2. r.pass \in {1, 2}
      BY <1>2 DEF FetchRecord
    <3> QED
      BY <1>2, <1>7, <1>8, <1>10, <2>2, <3>1, <3>2 DEF Steady, Rounding
  <2> QED
    BY <2>3, <2>4, <2>6 DEF Steady
<1> QED
  BY <1>1, <1>6, <1>7, <1>8, <1>9, <1>10 DEF GoesOn, Under, PCs

\* A provider is reached.
LEMMA ConnectGoesOn ==
  ASSUME ViewsInv, FetchesSound, NEW g \in Fetchers, Connect(g)
  PROVE  \E x : GoesOn(g, x)
<1>1. PICK r, l, p : r = fetch[g] /\ l = List(g) /\ p = Candidate(g)
  OBVIOUS
<1>2. /\ fetch \in [Fetchers -> FetchRecord] /\ r \in FetchRecord /\ Sound(r)
      /\ r.pc = "pick" /\ r.pos \in 1 .. Len(r.list) /\ p = r.list[r.pos]
      /\ p \in Providers /\ p \in Range(r.list) /\ IdOf[p] \in Ids
  BY <1>1, CandidateSound DEF FetchesSound, Connect, Picking, Candidate
<1>3. PICK tried \in SUBSET Providers, attempted \in SUBSET Ids :
        tried = r.tried \cup {p} /\ attempted = r.attempted \cup {IdOf[p]}
  BY <1>2 DEF FetchRecord
<1>4. PICK x : x = [r EXCEPT !.pc = "ask", !.tried = tried, !.attempted = attempted]
  OBVIOUS
<1>5. Sets(g, x)
  BY <1>1, <1>2, <1>3, <1>4 DEF Connect, Sets
<1>6. /\ x \in FetchRecord /\ x.pc = "ask" /\ x.tried = tried /\ x.attempted = attempted
  <2>1. r \in FetchRecord /\ "ask" \in PCs
    BY <1>2 DEF PCs
  <2> QED
    BY <2>1, <1>3, <1>4 DEF FetchRecord
<1>7. /\ x.view = r.view /\ x.article = r.article /\ x.tier = r.tier /\ x.attempt = r.attempt
      /\ x.primaries = r.primaries /\ x.exclude = r.exclude /\ x.list = r.list
      /\ x.pass = r.pass /\ x.pos = r.pos /\ x.notFound = r.notFound /\ x.other = r.other
      /\ x.result = r.result /\ x.said = r.said /\ x.gave = r.gave /\ x.passed = r.passed
  BY <1>2, <1>4 DEF FetchRecord
<1>8. Sound(x)
  <2>1. ~x.other => Heard(x)
    BY <1>2, <1>3, <1>6, <1>7 DEF Sound, Heard, Walking
  <2> QED
    BY <1>2, <1>6, <1>7, <2>1 DEF Sound
<1>9. ASSUME Steady(r, l) PROVE Steady(x, l)
  <2>1. r.list = l
    BY <1>2, <1>9 DEF Steady, Walks
  <2>2. Had(r, l) => Had(x, l)
    BY <1>3, <1>6, <1>7 DEF Had
  <2>3. IdOf[p] \notin r.exclude /\ (InReserve(l, p) <=> r.tier = "backup")
    BY <1>1, <2>1 DEF Connect, Eligible
  <2>4. Walks(x, l)
    BY <1>2, <1>6, <1>7, <1>9 DEF Steady, Walks
  <2>5. Hears(x, l)
    BY <1>2, <1>3, <1>6, <1>7, <1>9 DEF Steady, Hears, Walking
  <2>6. Tries(x, l)
    BY <1>2, <1>3, <1>6, <1>7, <1>9, <2>2, <2>3 DEF Steady, Tries, Walking
  <2>7. Rounding(x, l)
    BY <1>2, <1>6, <1>7, <1>9, <2>2 DEF Steady, Rounding
  <2> QED
    BY <2>4, <2>5, <2>6, <2>7 DEF Steady
<1> QED
  BY <1>1, <1>5, <1>6, <1>7, <1>8, <1>9 DEF GoesOn, Under, PCs

\* A provider is not reached.
LEMMA ConnectFailsGoesOn ==
  ASSUME ViewsInv, FetchesSound, NEW g \in Fetchers, ConnectFails(g)
  PROVE  \E x : GoesOn(g, x)
<1>1. PICK r, l, p : r = fetch[g] /\ l = List(g) /\ p = Candidate(g)
  OBVIOUS
<1>2. /\ fetch \in [Fetchers -> FetchRecord] /\ r \in FetchRecord /\ Sound(r)
      /\ r.pc = "pick" /\ r.pos \in 1 .. Len(r.list) /\ p = r.list[r.pos]
      /\ p \in Providers /\ p \in Range(r.list)
  BY <1>1, CandidateSound DEF FetchesSound, ConnectFails, Picking, Candidate
<1>3. /\ r.tried \cup {p} \in SUBSET Providers
      /\ r.pos + 1 \in Nat
  BY <1>2 DEF FetchRecord
<1>3a. PICK tried \in SUBSET Providers, n \in Nat : tried = r.tried \cup {p} /\ n = r.pos + 1
  BY <1>3, Zenon
<1>4. PICK x : x = [r EXCEPT !.pos = n, !.tried = tried]
  OBVIOUS
<1>5. Sets(g, x)
  BY <1>1, <1>2, <1>3a, <1>4 DEF ConnectFails, Sets
<1>6. x \in FetchRecord /\ x.pc = "pick" /\ x.pos = r.pos + 1 /\ x.tried = tried
  BY <1>2, <1>3a, <1>4 DEF FetchRecord, PCs
<1>7. /\ x.view = r.view /\ x.article = r.article /\ x.tier = r.tier /\ x.attempt = r.attempt
      /\ x.primaries = r.primaries /\ x.exclude = r.exclude /\ x.attempted = r.attempted
      /\ x.list = r.list /\ x.pass = r.pass /\ x.notFound = r.notFound /\ x.other = r.other
      /\ x.result = r.result /\ x.said = r.said /\ x.gave = r.gave /\ x.passed = r.passed
  BY <1>2, <1>4 DEF FetchRecord
<1>8. Sound(x)
  BY <1>2, <1>6, <1>7 DEF Sound, Heard, Walking
<1>9. ASSUME Steady(r, l) PROVE Steady(x, l)
  <2>1. r.list = l
    BY <1>2, <1>9 DEF Steady, Walks
  <2>2. Had(r, l) => Had(x, l)
    BY <1>3a, <1>6, <1>7 DEF Had
  <2>3. Walks(x, l) /\ Hears(x, l)
    BY <1>2, <1>6, <1>7, <1>9 DEF Steady, Walks, Hears, Walking
  <2>4. Tries(x, l)
    BY <1>2, <1>3a, <1>6, <1>7, <1>9, <2>2 DEF Steady, Tries, Walking
  <2>5. ASSUME r.tier = "primary", r.pass = 1, NEW i \in 1 .. x.pos - 1, l[i] \in Primaries(l)
        PROVE  l[i] \in x.tried \cup x.passed
    <3>1. CASE i = r.pos
      BY <1>2, <1>3a, <1>6, <2>1, <3>1
    <3>2. CASE i \in 1 .. r.pos - 1
      <4>1. l[i] \in r.tried \cup r.passed
        BY <1>2, <1>9, <2>5, <3>2 DEF Steady, Rounding
      <4> QED
        BY <1>3a, <1>6, <1>7, <4>1
    <3> QED
      BY <1>2, <1>6, <3>1, <3>2
  <2>6. r.pass \in {1, 2}
    BY <1>2 DEF FetchRecord
  <2>7. Rounding(x, l)
    BY <1>2, <1>6, <1>7, <1>9, <2>2, <2>5, <2>6 DEF Steady, Rounding
  <2> QED
    BY <2>3, <2>4, <2>7 DEF Steady
<1> QED
  BY <1>1, <1>5, <1>6, <1>7, <1>8, <1>9 DEF GoesOn, Under, PCs

\* The first pass over l is done: every primary of it has been passed over or tried.
LEMMA FirstPassDone ==
  ASSUME NEW r \in FetchRecord, NEW l \in Seq(Providers), Steady(r, l),
         r.pc = "pick", r.tier = "primary", r.pos > Len(r.list)
  PROVE  Had(r, l)
<1>1. r.list = l
  BY DEF Steady, Walks
<1>2. CASE r.pass = 2
  BY <1>2 DEF Steady, Rounding
<1>3. CASE r.pass # 2
  <2>1. \A i \in 1 .. r.pos - 1 : l[i] \in Primaries(l) => l[i] \in r.tried \cup r.passed
    BY <1>3 DEF Steady, Rounding
  <2>2. ASSUME NEW p \in Primaries(l) PROVE p \in r.tried \cup r.passed
    <3>1. PICK i \in DOMAIN l : l[i] = p
      BY DEF Primaries, Range
    <3>2. i \in 1 .. r.pos - 1
      BY <1>1, <3>1, LenProperties DEF FetchRecord
    <3> QED
      BY <2>1, <3>1, <3>2
  <2> QED
    BY <2>2 DEF Had
<1> QED
  BY <1>2, <1>3

LEMMA SecondPassGoesOn ==
  ASSUME ViewsInv, FetchesSound, NEW g \in Fetchers, SecondPass(g)
  PROVE  \E x : GoesOn(g, x)
<1>1. PICK r, l : r = fetch[g] /\ l = List(g)
  OBVIOUS
<1>2. /\ fetch \in [Fetchers -> FetchRecord] /\ r \in FetchRecord /\ Sound(r) /\ r.pc = "pick"
      /\ r.pos > Len(r.list)
  BY <1>1 DEF FetchesSound, SecondPass
<1>3. l \in Seq(Providers)
  BY <1>1, <1>2, ListSound
<1>4. PICK x : x = [r EXCEPT !.pass = 2, !.pos = 1]
  OBVIOUS
<1>5. Sets(g, x)
  BY <1>1, <1>2, <1>4 DEF SecondPass, Sets
<1>6. x \in FetchRecord /\ x.pc = "pick" /\ x.pass = 2 /\ x.pos = 1
  BY <1>2, <1>4 DEF FetchRecord, PCs
<1>7. /\ x.view = r.view /\ x.article = r.article /\ x.tier = r.tier /\ x.attempt = r.attempt
      /\ x.primaries = r.primaries /\ x.exclude = r.exclude /\ x.attempted = r.attempted
      /\ x.list = r.list /\ x.notFound = r.notFound /\ x.other = r.other
      /\ x.result = r.result /\ x.said = r.said /\ x.gave = r.gave /\ x.tried = r.tried
      /\ x.passed = r.passed
  BY <1>2, <1>4 DEF FetchRecord
<1>8. Sound(x)
  BY <1>2, <1>6, <1>7 DEF Sound, Heard, Walking
<1>9. ASSUME Steady(r, l) PROVE Steady(x, l)
  <2>1. Had(r, l) => Had(x, l)
    BY <1>7 DEF Had
  <2>2. r.tier = "primary" => Had(r, l)
    BY <1>2, <1>3, <1>9, FirstPassDone
  <2> QED
    BY <1>2, <1>6, <1>7, <1>9, <2>1, <2>2 DEF Steady, Walks, Hears, Tries, Rounding, Walking
<1> QED
  BY <1>1, <1>5, <1>6, <1>7, <1>8, <1>9 DEF GoesOn, Under, PCs

\* Nobody is left to connect to.
LEMMA NoConnectionGoesOn ==
  ASSUME ViewsInv, FetchesSound, NEW g \in Fetchers, NoConnection(g)
  PROVE  \E x : GoesOn(g, x)
<1>1. PICK r, l : r = fetch[g] /\ l = List(g)
  OBVIOUS
<1>2. /\ fetch \in [Fetchers -> FetchRecord] /\ r \in FetchRecord /\ Sound(r) /\ r.pc = "pick"
      /\ r.pos > Len(r.list) /\ r.tier \in {"primary", "backup"}
  BY <1>1 DEF FetchesSound, NoConnection, FetchRecord
<1>3. l \in Seq(Providers)
  BY <1>1, <1>2, ListSound
<1>4. Steady(r, l) => Had(r, l)
  BY <1>2, <1>3, FirstPassDone DEF Steady, Tries, Walking
<1>5. ASSUME NEW pc \in {"verdict", "backups"}, Sets(g, [r EXCEPT !.pc = pc]),
             pc = "verdict" => r.tier = "backup"
      PROVE  \E x : GoesOn(g, x)
  <2>1. PICK x : x = [r EXCEPT !.pc = pc]
    OBVIOUS
  <2>2. Sets(g, x)
    BY <1>5, <2>1
  <2>3. x \in FetchRecord /\ x.pc = pc /\ Alike(x, r)
    BY <1>2, <2>1 DEF FetchRecord, PCs, Alike
  <2>4. Sound(x)
    BY <1>2, <2>3 DEF Sound, Heard, Walking, Alike
  <2>5. Had(r, l) => Had(x, l)
    BY <2>3 DEF Had, Alike
  <2>6. ASSUME Steady(r, l) PROVE Steady(x, l)
    BY <1>2, <1>4, <2>3, <2>5, <2>6 DEF Steady, Walks, Hears, Tries, Rounding, Walking, Alike
  <2> QED
    BY <1>1, <2>2, <2>3, <2>4, <2>6 DEF GoesOn, Under, PCs, Alike
<1>6. CASE Sets(g, [r EXCEPT !.pc = "round", !.exclude = {}, !.attempt = r.attempt + 1])
           /\ r.tier = "primary"
  <2>1. PICK n \in Nat : n = r.attempt + 1
    BY <1>2 DEF FetchRecord
  <2>2. PICK x : x = [r EXCEPT !.pc = "round", !.exclude = {}, !.attempt = n]
    OBVIOUS
  <2>3. Sets(g, x)
    BY <1>2, <1>6, <2>1, <2>2 DEF FetchRecord
  <2>4. x \in FetchRecord /\ x.pc = "round" /\ x.exclude = {} /\ x.attempt = n
    BY <1>2, <2>2 DEF FetchRecord, PCs
  <2>5. /\ x.view = r.view /\ x.article = r.article /\ x.tier = r.tier
        /\ x.primaries = r.primaries /\ x.attempted = r.attempted
        /\ x.list = r.list /\ x.pass = r.pass /\ x.pos = r.pos /\ x.notFound = r.notFound
        /\ x.other = r.other /\ x.result = r.result /\ x.said = r.said /\ x.gave = r.gave
        /\ x.tried = r.tried /\ x.passed = r.passed
    BY <1>2, <2>2 DEF FetchRecord
  <2>6. Sound(x)
    BY <1>2, <2>4, <2>5 DEF Sound, Heard, Walking
  <2>7. Had(r, l) => Had(x, l)
    BY <2>5 DEF Had
  <2>8. ASSUME Steady(r, l) PROVE Steady(x, l)
    BY <1>2, <1>4, <1>6, <2>4, <2>5, <2>7, <2>8
      DEF Steady, Walks, Hears, Tries, Rounding, Walking
  <2> QED
    BY <1>1, <2>3, <2>4, <2>5, <2>6, <2>8 DEF GoesOn, Under, PCs
<1>7. \/ r.tier = "backup" /\ Sets(g, [r EXCEPT !.pc = "verdict"])
      \/ r.tier = "primary" /\ Sets(g, [r EXCEPT !.pc = "round", !.exclude = {}, !.attempt = r.attempt + 1])
      \/ r.tier = "primary" /\ Sets(g, [r EXCEPT !.pc = "backups"])
  <2>1. fetch' = [fetch EXCEPT ![g] =
       CASE r.tier = "backup" -> [r EXCEPT !.pc = "verdict"]
         [] r.tier = "primary" /\ r.exclude # {} /\ ~(/\ r.notFound /\ ~r.other /\ r.primaries > 0
                                                     /\ Cardinality(r.exclude) >= r.primaries) ->
              [r EXCEPT !.pc = "round", !.exclude = {}, !.attempt = r.attempt + 1]
         [] OTHER -> [r EXCEPT !.pc = "backups"]]
    BY <1>1, <1>2 DEF NoConnection
  <2>2. CASE r.tier = "backup"
    BY <2>1, <2>2 DEF Sets
  <2>3. CASE r.tier = "primary" /\ r.exclude # {} /\ ~(/\ r.notFound /\ ~r.other /\ r.primaries > 0
                                                     /\ Cardinality(r.exclude) >= r.primaries)
    BY <2>1, <2>3 DEF Sets
  <2>4. CASE r.tier # "backup" /\ ~(r.tier = "primary" /\ r.exclude # {} /\ ~(/\ r.notFound /\ ~r.other /\ r.primaries > 0
                                                     /\ Cardinality(r.exclude) >= r.primaries))
    BY <1>2, <2>1, <2>4 DEF Sets
  <2> QED
    BY <1>2, <2>2, <2>3, <2>4
<1> QED
  BY <1>5, <1>6, <1>7

\* An answer that is no body: the walk goes on without the provider that gave it.
LEMMA OnwardSteady ==
  ASSUME NEW r \in FetchRecord, NEW l \in Seq(Providers), OneOfEach(l), Steady(r, l),
         NEW p, r.pc = "ask", p = r.list[r.pos], r.pos \in 1 .. Len(r.list), IdOf[p] \in Ids,
         NEW x \in FetchRecord, x.pc = "round", x.exclude = r.exclude \cup {IdOf[p]},
         r.tier = "primary" => x.attempt = r.attempt + 1,
         x.said \cup x.gave = r.said \cup r.gave \cup {p},
         x.tier = r.tier, x.primaries = r.primaries, x.attempted = r.attempted,
         x.tried = r.tried, x.passed = r.passed
  PROVE  Steady(x, l)
<1>1. r.list = l /\ p \in Range(l)
  BY LenProperties DEF Steady, Walks, Range
<1>2. IdOf[p] \notin r.exclude /\ p \in r.tried /\ (InReserve(l, p) <=> r.tier = "backup")
  BY DEF Steady, Tries
<1>3. Had(r, l) => Had(x, l)
  BY DEF Had
<1>4. Walks(x, l)
  BY DEF Walks
<1>5. Hears(x, l)
  <2>1. x.said \cup x.gave \subseteq Range(l)
    BY <1>1 DEF Steady, Hears, Walking
  <2>2. \A i \in x.attempted : \E q \in x.said \cup x.gave : IdOf[q] = i
    BY DEF Steady, Hears, Walking
  <2> QED
    BY <2>1, <2>2 DEF Hears
<1>6. Tries(x, l)
  <2>1. \A q \in Range(l) : IdOf[q] \in x.exclude => q \in x.tried
    BY <1>1, <1>2 DEF Steady, Tries, Walking, OneOfEach
  <2>2. x.tier = "backup" => Had(x, l)
    BY <1>3 DEF Steady, Tries, Walking
  <2> QED
    BY <2>1, <2>2 DEF Tries
<1>7. Rounding(x, l)
  <2> SUFFICES ASSUME x.tier = "primary"
               PROVE  /\ x.primaries = Cardinality(Primaries(l))
                      /\ x.exclude \subseteq {IdOf[q] : q \in Primaries(l)}
                      /\ Had(x, l) \/ x.attempt = Cardinality(x.exclude)
    BY DEF Rounding
  <2>1. /\ r.primaries = Cardinality(Primaries(l))
        /\ r.exclude \subseteq {IdOf[q] : q \in Primaries(l)}
        /\ Had(r, l) \/ r.attempt = Cardinality(r.exclude)
    BY DEF Steady, Rounding
  <2>2. p \in Primaries(l)
    BY <1>1, <1>2 DEF Primaries
  <2>3. IsFiniteSet(r.exclude)
    BY <2>1, ExcludedFinite
  <2>4. PICK i : i = IdOf[p] /\ i \notin r.exclude /\ x.exclude = r.exclude \cup {i}
    BY <1>2
  <2>5. Cardinality(r.exclude \cup {i}) = Cardinality(r.exclude) + 1
    BY <2>3, <2>4, FS_AddElement
  <2> QED
    BY <1>3, <2>1, <2>2, <2>4, <2>5
<1> QED
  BY <1>4, <1>5, <1>6, <1>7 DEF Steady

LEMMA AnswerGoesOn ==
  ASSUME ViewsInv, FetchesSound, NEW g \in Fetchers, Refused(g) \/ Broken(g)
  PROVE  \E x : GoesOn(g, x)
<1>1. PICK r, l, p : r = fetch[g] /\ l = List(g) /\ p = Candidate(g)
  OBVIOUS
<1>2. /\ fetch \in [Fetchers -> FetchRecord] /\ r \in FetchRecord /\ Sound(r) /\ r.pc = "ask"
  BY <1>1 DEF FetchesSound, Refused, Broken
<1>3. l \in Seq(Providers) /\ OneOfEach(l)
  BY <1>1, <1>2, ListSound
<1>4. r.list \in Seq(Providers) /\ r.pos \in 1 .. Len(r.list) /\ p = r.list[r.pos]
  BY <1>1, <1>2 DEF FetchRecord, Sound, Candidate
<1>5. p \in Providers /\ IdOf[p] \in Ids
  BY <1>4, ElementOfSeq, ViewsAssumption DEF ViewsAssumption
<1>6. PICK E \in SUBSET Ids : E = r.exclude \cup {IdOf[p]}
  BY <1>2, <1>5 DEF FetchRecord
<1>7. PICK n \in Nat : n = IF r.tier = "primary" THEN r.attempt + 1 ELSE r.attempt
  BY <1>2 DEF FetchRecord
<1>8. PICK yes \in BOOLEAN : yes = TRUE
  OBVIOUS
<1>9. CASE Refused(g)
  <2>1. PICK S \in SUBSET Providers : S = r.said \cup {p}
    BY <1>2, <1>5 DEF FetchRecord
  <2>2. PICK x : x = [r EXCEPT !.pc = "round", !.exclude = E, !.attempt = n,
                               !.notFound = yes, !.said = S]
    OBVIOUS
  <2>3. Sets(g, x)
    <3>1. PICK o : o = Onward(fetch[g], IdOf[Candidate(g)])
      OBVIOUS
    <3>2. Sets(g, [o EXCEPT !.notFound = yes, !.said = o.said \cup {Candidate(g)}])
      BY <1>8, <1>9, <3>1 DEF Refused, Sets
    <3>3. o = [r EXCEPT !.pc = "round", !.exclude = E, !.attempt = n]
      BY <1>1, <1>6, <1>7, <3>1 DEF Onward
    <3>4. [o EXCEPT !.notFound = yes, !.said = o.said \cup {p}] = x
      BY <1>2, <2>1, <2>2, <3>3 DEF FetchRecord
    <3> QED
      BY <1>1, <3>2, <3>4
  <2>4. /\ x \in FetchRecord /\ x.pc = "round" /\ x.exclude = E /\ x.attempt = n
        /\ x.notFound = yes /\ x.said = S
    BY <1>2, <2>2, ZenonT(30) DEF FetchRecord, PCs
  <2>5. /\ x.view = r.view /\ x.article = r.article /\ x.tier = r.tier
        /\ x.primaries = r.primaries /\ x.attempted = r.attempted /\ x.list = r.list
        /\ x.pass = r.pass /\ x.pos = r.pos /\ x.other = r.other /\ x.result = r.result
        /\ x.gave = r.gave /\ x.tried = r.tried /\ x.passed = r.passed
    BY <1>2, <2>2 DEF FetchRecord
  <2>6. Sound(x)
    <3>1. ~x.other => Heard(x)
      BY <1>2, <1>4, <2>1, <2>4, <2>5 DEF Sound, Heard, Walking
    <3> QED
      BY <1>2, <2>1, <2>4, <2>5, <3>1 DEF Sound
  <2>7. x.said \cup x.gave = r.said \cup r.gave \cup {p}
    BY <2>1, <2>4, <2>5
  <2>8. Steady(r, l) => Steady(x, l)
    BY <1>2, <1>3, <1>4, <1>5, <1>6, <1>7, <2>4, <2>5, <2>7, OnwardSteady
  <2> QED
    BY <1>1, <2>3, <2>4, <2>5, <2>6, <2>8 DEF GoesOn, Under, PCs
<1>10. CASE Broken(g)
  <2>1. PICK S \in SUBSET Providers : S = r.gave \cup {p}
    BY <1>2, <1>5 DEF FetchRecord
  <2>2. PICK x : x = [r EXCEPT !.pc = "round", !.exclude = E, !.attempt = n,
                               !.other = yes, !.gave = S]
    OBVIOUS
  <2>3. Sets(g, x)
    <3>1. PICK o : o = Onward(fetch[g], IdOf[Candidate(g)])
      OBVIOUS
    <3>2. Sets(g, [o EXCEPT !.other = yes, !.gave = o.gave \cup {Candidate(g)}])
      BY <1>8, <1>10, <3>1 DEF Broken, Sets
    <3>3. o = [r EXCEPT !.pc = "round", !.exclude = E, !.attempt = n]
      BY <1>1, <1>6, <1>7, <3>1 DEF Onward
    <3>4. [o EXCEPT !.other = yes, !.gave = o.gave \cup {p}] = x
      BY <1>2, <2>1, <2>2, <3>3 DEF FetchRecord
    <3> QED
      BY <1>1, <3>2, <3>4
  <2>4. /\ x \in FetchRecord /\ x.pc = "round" /\ x.exclude = E /\ x.attempt = n
        /\ x.other = yes /\ x.gave = S
    BY <1>2, <2>2, ZenonT(30) DEF FetchRecord, PCs
  <2>5. /\ x.view = r.view /\ x.article = r.article /\ x.tier = r.tier
        /\ x.primaries = r.primaries /\ x.attempted = r.attempted /\ x.list = r.list
        /\ x.pass = r.pass /\ x.pos = r.pos /\ x.notFound = r.notFound /\ x.result = r.result
        /\ x.said = r.said /\ x.tried = r.tried /\ x.passed = r.passed
    BY <1>2, <2>2 DEF FetchRecord
  <2>6. Sound(x)
    <3>1. r.result = None /\ None # "missing"
      BY <1>2, FetchAssumption DEF Sound, FetchAssumption
    <3> QED
      BY <1>2, <1>8, <2>4, <2>5, <3>1 DEF Sound
  <2>7. x.said \cup x.gave = r.said \cup r.gave \cup {p}
    BY <2>1, <2>4, <2>5
  <2>8. Steady(r, l) => Steady(x, l)
    BY <1>2, <1>3, <1>4, <1>5, <1>6, <1>7, <2>4, <2>5, <2>7, OnwardSteady
  <2> QED
    BY <1>1, <2>3, <2>4, <2>5, <2>6, <2>8 DEF GoesOn, Under, PCs
<1> QED
  BY <1>9, <1>10

\* The backups' turn, if there are any.
LEMMA BackupGoesOn ==
  ASSUME ViewsInv, FetchesSound, NEW g \in Fetchers, Backup(g)
  PROVE  \E x : GoesOn(g, x)
<1>1. PICK r, l : r = fetch[g] /\ l = List(g)
  OBVIOUS
<1>2. /\ fetch \in [Fetchers -> FetchRecord] /\ r \in FetchRecord /\ Sound(r) /\ r.pc = "backups"
  BY <1>1 DEF FetchesSound, Backup
<1>3. Steady(r, l) => Had(r, l)
  BY <1>2 DEF Steady, Tries, Walking
<1>4. CASE \E p \in Range(List(g)) : InReserve(List(g), p)
  <2>1. PICK x : x = [r EXCEPT !.pc = "round", !.tier = "backup", !.exclude = {}]
    OBVIOUS
  <2>2. Sets(g, x)
    <3>1. fetch' = [fetch EXCEPT ![g] = [@ EXCEPT !.pc = "round", !.tier = "backup", !.exclude = {}]]
      BY <1>4, Zenon DEF Backup
    <3> QED
      BY <1>1, <1>2, <2>1, <3>1 DEF Sets
  <2>3. x \in FetchRecord /\ x.pc = "round" /\ x.tier = "backup" /\ x.exclude = {}
    BY <1>2, <2>1 DEF FetchRecord, PCs
  <2>4. /\ x.view = r.view /\ x.article = r.article /\ x.attempt = r.attempt
        /\ x.primaries = r.primaries /\ x.attempted = r.attempted /\ x.list = r.list
        /\ x.pass = r.pass /\ x.pos = r.pos /\ x.notFound = r.notFound /\ x.other = r.other
        /\ x.result = r.result /\ x.said = r.said /\ x.gave = r.gave /\ x.tried = r.tried
        /\ x.passed = r.passed
    BY <1>2, <2>1 DEF FetchRecord
  <2>5. Sound(x)
    BY <1>2, <2>3, <2>4 DEF Sound, Heard, Walking
  <2>6. Had(r, l) => Had(x, l)
    BY <2>4 DEF Had
  <2>7. ASSUME Steady(r, l) PROVE Steady(x, l)
    BY <1>2, <1>3, <2>3, <2>4, <2>6, <2>7 DEF Steady, Walks, Hears, Tries, Rounding, Walking
  <2> QED
    BY <1>1, <2>2, <2>3, <2>4, <2>5, <2>7 DEF GoesOn, Under, PCs
<1>5. CASE ~(\E p \in Range(List(g)) : InReserve(List(g), p))
  <2>1. PICK x : x = [r EXCEPT !.pc = "verdict"]
    OBVIOUS
  <2>2. Sets(g, x)
    <3>1. fetch' = [fetch EXCEPT ![g] = [@ EXCEPT !.pc = "verdict"]]
      BY <1>5, Zenon DEF Backup
    <3> QED
      BY <1>1, <1>2, <2>1, <3>1 DEF Sets
  <2>3. x \in FetchRecord /\ x.pc = "verdict" /\ Alike(x, r)
    BY <1>2, <2>1 DEF FetchRecord, PCs, Alike
  <2>4. Sound(x)
    BY <1>2, <2>3 DEF Sound, Heard, Walking, Alike
  <2>5. Had(r, l) => Had(x, l)
    BY <2>3 DEF Had, Alike
  <2>6. ASSUME Steady(r, l) PROVE Steady(x, l)
    BY <1>2, <1>3, <2>3, <2>5, <2>6 DEF Steady, Walks, Hears, Tries, Rounding, Walking, Alike
  <2> QED
    BY <1>1, <2>2, <2>3, <2>4, <2>6 DEF GoesOn, Under, PCs, Alike
<1> QED
  BY <1>4, <1>5

\* The backups' walk is cut short.
LEMMA CanceledGoesOn ==
  ASSUME ViewsInv, FetchesSound, NEW g \in Fetchers, Canceled(g), fetch[g].tier # "primary"
  PROVE  \E x : GoesOn(g, x)
<1>1. PICK r, l : r = fetch[g] /\ l = List(g)
  OBVIOUS
<1>2. /\ fetch \in [Fetchers -> FetchRecord] /\ r \in FetchRecord /\ Sound(r) /\ r.pc = "pick"
      /\ r.tier = "backup"
  BY <1>1 DEF FetchesSound, Canceled, Picking, FetchRecord
<1>3. PICK yes \in BOOLEAN : yes = TRUE
  OBVIOUS
<1>4. PICK x : x = [r EXCEPT !.pc = "verdict", !.other = yes]
  OBVIOUS
<1>5. Sets(g, x)
  <2>1. fetch' = [fetch EXCEPT ![g].pc = "verdict", ![g].other = TRUE]
    BY Zenon DEF Canceled
  <2> QED
    BY <1>1, <1>2, <1>3, <1>4, <2>1 DEF Sets
<1>6. x \in FetchRecord /\ x.pc = "verdict" /\ x.other = yes
  BY <1>2, <1>4 DEF FetchRecord, PCs
<1>7. /\ x.view = r.view /\ x.article = r.article /\ x.tier = r.tier /\ x.attempt = r.attempt
      /\ x.primaries = r.primaries /\ x.exclude = r.exclude /\ x.attempted = r.attempted
      /\ x.list = r.list /\ x.pass = r.pass /\ x.pos = r.pos /\ x.notFound = r.notFound
      /\ x.result = r.result /\ x.said = r.said /\ x.gave = r.gave /\ x.tried = r.tried
      /\ x.passed = r.passed
  BY <1>2, <1>4 DEF FetchRecord
<1>8. Sound(x)
  BY <1>2, <1>3, <1>6, <1>7 DEF Sound, Heard, Walking
<1>9. Had(r, l) => Had(x, l)
  BY <1>7 DEF Had
<1>10. ASSUME Steady(r, l) PROVE Steady(x, l)
  BY <1>2, <1>6, <1>7, <1>9, <1>10 DEF Steady, Walks, Hears, Tries, Rounding, Walking
<1> QED
  BY <1>1, <1>5, <1>6, <1>7, <1>8, <1>10 DEF GoesOn, Under, PCs

\* Every provider of the list has refused the article.
LEMMA VerdictGoesOn ==
  ASSUME ViewsInv, FetchesSound, NEW g \in Fetchers, fetch[g].pc = "verdict",
         fetch[g].notFound, ~fetch[g].other, AttemptedAll(g), Proved(g)
  PROVE  \E x : GoesOn(g, x)
<1>1. PICK r, l : r = fetch[g] /\ l = List(g)
  OBVIOUS
<1>2. /\ fetch \in [Fetchers -> FetchRecord] /\ r \in FetchRecord /\ Sound(r)
      /\ r.pc = "verdict" /\ r.notFound /\ ~r.other
  BY <1>1 DEF FetchesSound
<1>3. l \in Seq(Providers) /\ OneOfEach(l)
  BY <1>1, <1>2, ListSound
<1>3a. PICK ids \in SUBSET Ids : ids = IdsOf(l)
  <2>1. \A p \in Range(l) : IdOf[p] \in Ids
    BY <1>3, ElementOfSeq, LenProperties, ViewsAssumption DEF Range, ViewsAssumption
  <2> QED
    BY <2>1, Zenon DEF IdsOf
<1>4. PICK x \in FetchRecord : Sets(g, x) /\ x.pc = "mark" /\ x.proved = ids /\ Alike(x, r)
  <2>1. PICK x : x = [r EXCEPT !.pc = "mark", !.proved = ids]
    OBVIOUS
  <2>2. Sets(g, x)
    BY <1>1, <1>2, <1>3a, <2>1 DEF Proved, Sets
  <2>3. x \in FetchRecord /\ x.pc = "mark" /\ x.proved = ids
    BY <1>2, <2>1 DEF FetchRecord, PCs
  <2>4. Alike(x, r)
    BY <1>2, <2>1 DEF FetchRecord, Alike
  <2> QED
    BY <2>2, <2>3, <2>4
<1>5. Sound(x)
  <2>1. Heard(r) /\ ids \subseteq r.attempted
    BY <1>1, <1>2, <1>3a DEF Sound, Walking, AttemptedAll
  <2>2. \A i \in r.attempted : \E p \in r.said : IdOf[p] = i
    BY <1>2, <2>1 DEF Heard
  <2>3. Heard(x) /\ x.proved \subseteq {IdOf[p] : p \in x.said}
    BY <1>4, <2>1, <2>2 DEF Heard, Alike
  <2> QED
    BY <1>2, <1>4, <2>3 DEF Sound, Alike
<1>6. ASSUME Steady(r, l) PROVE Steady(x, l)
  <2>1. \A p \in Range(l) : IdOf[p] \in r.attempted
    BY <1>1 DEF AttemptedAll, IdsOf
  <2>2. r.gave = {}
    BY <1>2 DEF Sound
  <2>3. r.said \subseteq Range(l) /\ \A i \in r.attempted : \E p \in r.said : IdOf[p] = i
    BY <1>2, <1>6, <2>2 DEF Steady, Hears, Walking
  <2>4. Range(l) \subseteq r.said
    BY <1>3, <2>1, <2>3 DEF OneOfEach
  <2>5. Had(r, l) => Had(x, l)
    BY <1>4 DEF Had, Alike
  <2> QED
    BY <1>2, <1>4, <1>6, <2>4, <2>5 DEF Steady, Walks, Hears, Tries, Rounding, Walking, Alike
<1> QED
  BY <1>1, <1>4, <1>5, <1>6 DEF GoesOn, Under, PCs, Alike

-------------------------------------------------------------------------------
(* The fetches together, and what they share.                              *)

MarkersSound ==
  /\ DOMAIN missing \subseteq Seq(Ids) \X Articles
  /\ \A k \in DOMAIN missing :
       /\ missing[k] \in [proved : SUBSET Ids, by : SUBSET Providers] /\ missing[k].by # {}
       /\ missing[k].proved \subseteq {IdOf[p] : p \in missing[k].by}

SharedSound ==
  /\ flight \in [Articles -> Fetchers \cup {None}]
  /\ cached \subseteq Articles
  /\ MarkersSound
  /\ record \in [Views -> [Ids -> [refused : 0 .. BenchAfter, served : 0 .. ForgiveAfter,
                                   cooling : BOOLEAN]]]
  /\ blocked \subseteq Ids

FetchInv == ViewsInv /\ FetchesSound /\ SharedSound

\* The calls under way are what their views' lists make of them.
FetchesSteady ==
  \A g \in Fetchers : fetch[g].pc \notin {"out", "done"} => Steady(fetch[g], List(g))

\* A call that goes on leaves the others as they are.
LEMMA GoesOnKeeps ==
  ASSUME FetchesSound, NEW g \in Fetchers, fetch[g].pc \in Under, NEW x, GoesOn(g, x),
         UNCHANGED viewVars
  PROVE  FetchesSound' /\ (FetchesSteady => FetchesSteady')
<1>1. /\ fetch \in [Fetchers -> FetchRecord] /\ x \in FetchRecord
      /\ fetch' = [fetch EXCEPT ![g] = x]
  BY DEF FetchesSound, GoesOn, Sets
<1>2. /\ fetch' \in [Fetchers -> FetchRecord] /\ fetch'[g] = x
      /\ \A h \in Fetchers \ {g} : fetch'[h] = fetch[h]
  BY <1>1
<1>3. Live' = Live /\ view' = view
  BY DEF viewVars, Live
<1>4. FetchesSound'
  <2>1. Sound(x) /\ x.view \in Live
    BY DEF FetchesSound, GoesOn, Under
  <2> QED
    BY <1>2, <1>3, <2>1 DEF FetchesSound
<1>5. ASSUME FetchesSteady PROVE FetchesSteady'
  <2>1. Steady(x, List(g))
    BY <1>5 DEF FetchesSteady, GoesOn, Under
  <2>2. List(g)' = List(g)
    BY <1>2, <1>3 DEF List, GoesOn
  <2>3. \A h \in Fetchers \ {g} : List(h)' = List(h)
    BY <1>2, <1>3 DEF List
  <2> QED
    BY <1>2, <1>5, <2>1, <2>2, <2>3 DEF FetchesSteady
<1> QED
  BY <1>4, <1>5

LEMMA NoFetchSound ==
  NoFetch \in FetchRecord /\ Sound(NoFetch) /\ NoFetch.pc = "out"
<1>1. NoFetch \in FetchRecord
  BY EmptySeq DEF NoFetch, FetchRecord, PCs
<1>2. None # "missing"
  BY FetchAssumption DEF FetchAssumption
<1> QED
  BY <1>1, <1>2 DEF NoFetch, Sound, Heard, Walking

\* A flight ends: its fetch and all who joined it have the answer.
LEMMA FinishKeeps ==
  ASSUME FetchesSound, SharedSound, NEW g \in Fetchers, fetch[g].pc \in Under,
         NEW result \in {"body", "missing", "error"}, NEW said \in SUBSET Providers,
         result = "missing" => said # {} /\ fetch[g].gave = {},
         Finish(g, result, said), UNCHANGED viewVars
  PROVE  /\ FetchesSound' /\ (FetchesSteady => FetchesSteady')
         /\ flight' \in [Articles -> Fetchers \cup {None}]
<1>1. /\ fetch \in [Fetchers -> FetchRecord] /\ fetch[g] \in FetchRecord /\ fetch[g].pc # "out"
      /\ Live' = Live /\ view' = view
  BY DEF FetchesSound, Under, viewVars, Live
<1>2. PICK m, gave : m = fetch[g].article /\ gave = fetch[g].gave
  OBVIOUS
<1>3. m \in Articles /\ gave \in SUBSET Providers
  BY <1>1, <1>2 DEF FetchesSound, Sound, FetchRecord
<1> DEFINE aboard(h) == h = g \/ (fetch[h].pc = "joined" /\ fetch[h].article = m)
           answered(h) == [NoFetch EXCEPT !.pc = "done", !.view = fetch[h].view, !.article = m,
                                          !.result = result, !.said = said, !.gave = gave]
<1>4. /\ fetch' = [h \in Fetchers |-> IF aboard(h) THEN answered(h) ELSE fetch[h]]
      /\ flight' = [flight EXCEPT ![m] = None]
  BY <1>2 DEF Finish
<1>5. ASSUME NEW h \in Fetchers, aboard(h)
      PROVE  /\ answered(h) \in FetchRecord /\ Sound(answered(h)) /\ answered(h).pc = "done"
             /\ answered(h).view \in Live
  <2>1. PICK v : v = fetch[h].view
    OBVIOUS
  <2>2. v \in Live /\ v \in Views
    BY <1>1, <1>5, <2>1 DEF FetchesSound, Live
  <2>3. PICK x : x = [NoFetch EXCEPT !.pc = "done", !.view = v, !.article = m,
                                     !.result = result, !.said = said, !.gave = gave]
    OBVIOUS
  <2>4. NoFetch \in FetchRecord
    BY NoFetchSound
  <2>5. /\ x \in FetchRecord /\ x.pc = "done" /\ x.view = v /\ x.article = m /\ x.result = result
        /\ x.said = said /\ x.gave = gave
    BY <1>3, <2>2, <2>3, <2>4 DEF FetchRecord, PCs
  <2>6. x.pos = NoFetch.pos /\ x.notFound = NoFetch.notFound
    BY <2>3, <2>4 DEF FetchRecord
  <2>7. Sound(x)
    BY <1>2, <1>3, <2>2, <2>5, <2>6 DEF Sound, Heard, Walking, NoFetch
  <2> QED
    BY <2>1, <2>2, <2>3, <2>5, <2>7
<1> HIDE DEF answered
<1>6. FetchesSound'
  <2>1. fetch' \in [Fetchers -> FetchRecord]
    BY <1>1, <1>4, <1>5
  <2>2. ASSUME NEW h \in Fetchers
        PROVE  Sound(fetch'[h]) /\ (fetch'[h].pc # "out" => fetch'[h].view \in Live)
    BY <1>4, <1>5 DEF FetchesSound
  <2> QED
    BY <1>1, <2>1, <2>2 DEF FetchesSound
<1>7. ASSUME FetchesSteady PROVE FetchesSteady'
  <2>1. ASSUME NEW h \in Fetchers, fetch'[h].pc \notin {"out", "done"}
        PROVE  fetch'[h] = fetch[h]
    BY <1>4, <1>5, <2>1
  <2>2. ASSUME NEW h \in Fetchers, fetch'[h].pc \notin {"out", "done"}
        PROVE  Steady(fetch'[h], List(h)')
    <3>1. fetch'[h] = fetch[h]
      BY <2>1, <2>2
    <3>2. List(h)' = List(h)
      BY <1>1, <3>1 DEF List
    <3> QED
      BY <1>7, <2>2, <3>1, <3>2 DEF FetchesSteady
  <2> QED
    BY <2>2 DEF FetchesSteady
<1>8. flight' \in [Articles -> Fetchers \cup {None}]
  BY <1>4 DEF SharedSound
<1> QED
  BY <1>6, <1>7, <1>8

\* A call begins: it starts a flight or joins one.
LEMMA FetchSegmentKeeps ==
  ASSUME FetchInv, NEW g \in Fetchers, NEW v \in Views, NEW m \in Articles, FetchSegment(g, v, m)
  PROVE  FetchInv' /\ (FetchesSteady => FetchesSteady')
<1>1. /\ fetch \in [Fetchers -> FetchRecord] /\ v \in Live /\ Live' = Live /\ view' = view
      /\ flight \in [Articles -> Fetchers \cup {None}]
  BY DEF FetchInv, FetchesSound, FetchSegment, viewVars, Live, SharedSound
<1>2. PICK pc \in {"check", "joined"} : pc = IF flight[m] = None THEN "check" ELSE "joined"
  OBVIOUS
<1>3. PICK x : x = [NoFetch EXCEPT !.pc = pc, !.view = v, !.article = m]
  OBVIOUS
<1>4. fetch' = [fetch EXCEPT ![g] = x]
  BY <1>2, <1>3 DEF FetchSegment
<1>5. x \in FetchRecord /\ x.pc = pc /\ x.view = v /\ x.article = m
  <2>1. NoFetch \in FetchRecord
    BY NoFetchSound
  <2> QED
    BY <1>2, <1>3, <2>1, ZenonT(30) DEF FetchRecord, PCs
<1>6. /\ x.tier = "primary" /\ x.attempt = 0 /\ x.exclude = {} /\ x.attempted = {}
      /\ x.pos = 1 /\ x.notFound = FALSE /\ x.other = FALSE /\ x.result = None
      /\ x.said = {} /\ x.gave = {}
  BY <1>3 DEF NoFetch
<1>7. Sound(x)
  <2>1. None # "missing"
    BY FetchAssumption DEF FetchAssumption
  <2> QED
    BY <1>2, <1>5, <1>6, <2>1 DEF Sound, Heard, Walking
<1>8. fetch'[g] = x /\ \A h \in Fetchers \ {g} : fetch'[h] = fetch[h]
  BY <1>1, <1>4
<1>9. FetchesSound'
  BY <1>1, <1>4, <1>5, <1>7, <1>8 DEF FetchInv, FetchesSound
<1>10. SharedSound'
  <2>1. flight' \in [Articles -> Fetchers \cup {None}]
    BY <1>1 DEF FetchSegment
  <2> QED
    BY <2>1 DEF FetchInv, SharedSound, MarkersSound, FetchSegment
<1>11. ViewsInv'
  BY ViewsUnmoved DEF FetchInv, FetchSegment
<1>12. ASSUME FetchesSteady PROVE FetchesSteady'
  <2>1. \A h \in Fetchers \ {g} : List(h)' = List(h)
    BY <1>1, <1>8 DEF List
  <2>2. Steady(x, List(g)')
    BY <1>2, <1>5, <1>6 DEF Steady, Walks, Hears, Tries, Rounding, Walking
  <2> QED
    BY <1>8, <1>12, <2>1, <2>2 DEF FetchesSteady
<1> QED
  BY <1>9, <1>10, <1>11, <1>12 DEF FetchInv

\* A call returns.
LEMMA ReturnKeeps ==
  ASSUME FetchInv, NEW g \in Fetchers, Return(g)
  PROVE  FetchInv' /\ (FetchesSteady => FetchesSteady')
<1>1. fetch \in [Fetchers -> FetchRecord] /\ Live' = Live /\ view' = view
  BY DEF FetchInv, FetchesSound, Return, viewVars, Live
<1>2. fetch'[g] = NoFetch /\ \A h \in Fetchers \ {g} : fetch'[h] = fetch[h]
  BY <1>1 DEF Return
<1>3. fetch' \in [Fetchers -> FetchRecord]
  BY <1>1, NoFetchSound DEF Return
<1>4. FetchesSound'
  BY <1>1, <1>2, <1>3, NoFetchSound DEF FetchInv, FetchesSound
<1>5. SharedSound'
  BY DEF FetchInv, SharedSound, MarkersSound, Return
<1>6. ViewsInv'
  BY ViewsUnmoved DEF FetchInv, Return
<1>7. ASSUME FetchesSteady PROVE FetchesSteady'
  <2>1. \A h \in Fetchers \ {g} : List(h)' = List(h)
    BY <1>1, <1>2 DEF List
  <2> QED
    BY <1>2, <1>7, <2>1, NoFetchSound DEF FetchesSteady
<1> QED
  BY <1>4, <1>5, <1>6, <1>7 DEF FetchInv

\* What a view remembers of a provider's answers stays within its bounds.
Records == [refused : 0 .. BenchAfter, served : 0 .. ForgiveAfter, cooling : BOOLEAN]

LEMMA RecordSet ==
  ASSUME SharedSound, NEW v \in Views, NEW i \in Ids, NEW x \in Records,
         record' = [record EXCEPT ![v][i] = x]
  PROVE  record' \in [Views -> [Ids -> Records]]
<1>1. record \in [Views -> [Ids -> Records]]
  BY DEF SharedSound, Records
<1>2. PICK y : y = [record[v] EXCEPT ![i] = x]
  OBVIOUS
<1>3. y \in [Ids -> Records]
  BY <1>1, <1>2
<1>4. record' = [record EXCEPT ![v] = y]
  BY <1>1, <1>2
<1> QED
  BY <1>1, <1>3, <1>4

LEMMA AtMostBounds ==
  ASSUME NEW n \in Nat, NEW bound \in Nat
  PROVE  AtMost(n, bound) \in 0 .. bound
BY DEF AtMost

LEMMA AnswersRecorded ==
  ASSUME SharedSound, NEW v \in Views, NEW i \in Ids, Record430(v, i) \/ RecordSuccess(v, i)
  PROVE  record' \in [Views -> [Ids -> Records]]
<1>1. /\ record[v][i] \in Records /\ BenchAfter \in Nat /\ ForgiveAfter \in Nat
      /\ record[v][i].refused + 1 \in Nat /\ record[v][i].served + 1 \in Nat
  <2>1. record[v][i] \in Records /\ BenchAfter \in Nat /\ ForgiveAfter \in Nat
    BY FetchAssumption DEF SharedSound, Records, FetchAssumption
  <2> QED
    BY <2>1 DEF Records
<1>2. CASE Record430(v, i)
  <2>1. PICK n \in 0 .. BenchAfter : n = AtMost(record[v][i].refused + 1, BenchAfter)
    BY <1>1, AtMostBounds
  <2>2. PICK cooling \in BOOLEAN : cooling = (record[v][i].cooling \/ n = BenchAfter)
    OBVIOUS
  <2>3. PICK x : x = [refused |-> n, served |-> 0, cooling |-> cooling]
    OBVIOUS
  <2>4. x \in Records
    BY <1>1, <2>3, FetchAssumption DEF Records, FetchAssumption
  <2>5. record' = [record EXCEPT ![v][i] = x]
    BY <1>2, <2>1, <2>2, <2>3, Zenon DEF Record430
  <2> QED
    BY <2>4, <2>5, RecordSet
<1>3. CASE RecordSuccess(v, i)
  <2>1. PICK n \in 0 .. ForgiveAfter : n = AtMost(record[v][i].served + 1, ForgiveAfter)
    BY <1>1, AtMostBounds
  <2>2. PICK x : x = IF n = ForgiveAfter THEN [Clean EXCEPT !.served = n]
                     ELSE [record[v][i] EXCEPT !.served = n]
    OBVIOUS
  <2>3. Clean \in Records
    BY FetchAssumption DEF Clean, Records, FetchAssumption
  <2>4. x \in Records
    BY <1>1, <2>2, <2>3 DEF Records
  <2>5. record' = [record EXCEPT ![v][i] = x]
    BY <1>3, <2>1, <2>2, Zenon DEF RecordSuccess
  <2> QED
    BY <2>4, <2>5, RecordSet
<1> QED
  BY <1>2, <1>3

LEMMA SignatureOf ==
  ASSUME NEW l \in Seq(Providers)
  PROVE  Signature(l) \in Seq(Ids) /\ Range(Signature(l)) = {IdOf[p] : p \in Range(l)}
<1>1. DOMAIN l = 1 .. Len(l) /\ Len(l) \in Nat /\ \A k \in 1 .. Len(l) : l[k] \in Providers
  BY LenProperties, ElementOfSeq
<1>2. PICK s : s = Signature(l)
  OBVIOUS
<1>3. s = [k \in 1 .. Len(l) |-> IdOf[l[k]]]
  BY <1>1, <1>2 DEF Signature
<1>4. \A k \in 1 .. Len(l) : IdOf[l[k]] \in Ids
  BY <1>1, ViewsAssumption DEF ViewsAssumption
<1>5. s \in Seq(Ids)
  BY <1>1, <1>3, <1>4
<1>6. Range(s) = {IdOf[p] : p \in Range(l)}
  BY <1>1, <1>3 DEF Range
<1> QED
  BY <1>2, <1>5, <1>6

LEMMA KeySound ==
  ASSUME FetchInv, NEW g \in Fetchers, fetch[g].pc # "out"
  PROVE  /\ MissingKey(g) \in Seq(Ids) \X Articles
         /\ MissingKey(g)[1] = Signature(List(g))
<1>1. List(g) \in Seq(Providers) /\ fetch[g].article \in Articles
  BY ListSound DEF FetchInv, Sound
<1>2. Signature(List(g)) \in Seq(Ids)
  BY <1>1, SignatureOf
<1> QED
  BY <1>1, <1>2 DEF MissingKey

\* A step of one call that does not end it.
LEMMA StepKeeps ==
  ASSUME FetchInv, NEW g \in Fetchers, fetch[g].pc \in Under, \E x : GoesOn(g, x),
         UNCHANGED <<viewVars, flight, cached, missing>>,
         record' \in [Views -> [Ids -> Records]], blocked' \subseteq Ids
  PROVE  FetchInv' /\ (FetchesSteady => FetchesSteady')
<1>1. FetchesSound' /\ (FetchesSteady => FetchesSteady')
  BY GoesOnKeeps DEF FetchInv
<1>2. ViewsInv'
  BY ViewsUnmoved DEF FetchInv
<1>3. SharedSound'
  BY DEF FetchInv, SharedSound, MarkersSound, Records
<1> QED
  BY <1>1, <1>2, <1>3 DEF FetchInv

\* A step that ends a flight.
LEMMA EndKeeps ==
  ASSUME FetchInv, NEW g \in Fetchers, fetch[g].pc \in Under,
         NEW result \in {"body", "missing", "error"}, NEW said \in SUBSET Providers,
         result = "missing" => said # {} /\ fetch[g].gave = {},
         Finish(g, result, said), UNCHANGED <<viewVars, cached, record, blocked>>, MarkersSound'
  PROVE  FetchInv' /\ (FetchesSteady => FetchesSteady')
<1>1. /\ FetchesSound' /\ (FetchesSteady => FetchesSteady')
      /\ flight' \in [Articles -> Fetchers \cup {None}]
  BY FinishKeeps DEF FetchInv
<1>2. ViewsInv'
  BY ViewsUnmoved DEF FetchInv
<1>3. SharedSound'
  BY <1>1 DEF FetchInv, SharedSound
<1> QED
  BY <1>1, <1>2, <1>3 DEF FetchInv

LEMMA SharedTypes ==
  ASSUME FetchInv
  PROVE  /\ record \in [Views -> [Ids -> Records]] /\ blocked \subseteq Ids /\ MarkersSound
         /\ UNCHANGED missing => MarkersSound'
BY DEF FetchInv, SharedSound, MarkersSound, Records

LEMMA WayInKeeps ==
  ASSUME FetchInv, NEW g \in Fetchers,
         CheckMissing(g) \/ CheckCache(g) \/ CountPrimaries(g) \/ NextRound(g)
  PROVE  FetchInv' /\ (FetchesSteady => FetchesSteady')
<1>1. fetch[g].pc \in Under /\ ViewsInv /\ FetchesSound
  BY DEF CheckMissing, CheckCache, CountPrimaries, NextRound, Under, PCs, FetchInv
<1>2. CASE CheckMissing(g)
  <2>1. CASE MissingKey(g) \in DOMAIN missing
    <3>1. Finish(g, "missing", missing[MissingKey(g)].by)
      BY <1>2, <2>1 DEF CheckMissing
    <3>2. missing[MissingKey(g)].by \in SUBSET Providers /\ missing[MissingKey(g)].by # {}
      BY <2>1, SharedTypes DEF MarkersSound
    <3>3. fetch[g].gave = {}
      BY <1>1, <1>2 DEF FetchesSound, Sound, CheckMissing
    <3> QED
      BY <1>1, <1>2, <3>1, <3>2, <3>3, SharedTypes, EndKeeps DEF CheckMissing
  <2>2. CASE MissingKey(g) \notin DOMAIN missing
    <3>1. \E x : GoesOn(g, x)
      BY <1>1, <1>2, <2>2, EntryGoesOn DEF CheckMissing
    <3> QED
      BY <1>1, <1>2, <2>2, <3>1, SharedTypes, StepKeeps DEF CheckMissing
  <2> QED
    BY <2>1, <2>2
<1>3. CASE CheckCache(g)
  <2>1. CASE fetch[g].article \in cached
    <3>1. Finish(g, "body", {})
      BY <1>3, <2>1 DEF CheckCache
    <3> QED
      BY <1>1, <1>3, <3>1, SharedTypes, EndKeeps DEF CheckCache
  <2>2. CASE fetch[g].article \notin cached
    <3>1. \E x : GoesOn(g, x)
      BY <1>1, <1>3, <2>2, EntryGoesOn DEF CheckCache
    <3> QED
      BY <1>1, <1>3, <2>2, <3>1, SharedTypes, StepKeeps DEF CheckCache
  <2> QED
    BY <2>1, <2>2
<1>4. CASE CountPrimaries(g)
  BY <1>1, <1>4, CountGoesOn, SharedTypes, StepKeeps DEF CountPrimaries
<1>5. CASE NextRound(g)
  BY <1>1, <1>5, RoundGoesOn, SharedTypes, StepKeeps DEF NextRound
<1> QED
  BY <1>2, <1>3, <1>4, <1>5

LEMMA WalkKeeps ==
  ASSUME FetchInv, NEW g \in Fetchers,
         \/ Skip(g) \/ Connect(g) \/ ConnectFails(g) \/ Canceled(g) \/ SecondPass(g)
         \/ NoConnection(g) \/ Backup(g)
  PROVE  FetchInv' /\ (FetchesSteady => FetchesSteady')
<1>1. fetch[g].pc \in Under /\ ViewsInv /\ FetchesSound
  BY DEF Skip, Connect, ConnectFails, Canceled, SecondPass, NoConnection, Backup, Picking,
         Under, PCs, FetchInv
<1>2. CASE Skip(g)
  BY <1>1, <1>2, SkipGoesOn, SharedTypes, StepKeeps DEF Skip
<1>3. CASE Connect(g)
  BY <1>1, <1>3, ConnectGoesOn, SharedTypes, StepKeeps DEF Connect
<1>4. CASE ConnectFails(g)
  <2>1. IdOf[Candidate(g)] \in Ids
    BY <1>1, <1>4, CandidateSound DEF ConnectFails
  <2>2. blocked' \subseteq Ids
    BY <1>4, <2>1, SharedTypes DEF ConnectFails
  <2> QED
    BY <1>1, <1>4, <2>2, ConnectFailsGoesOn, SharedTypes, StepKeeps DEF ConnectFails
<1>5. CASE Canceled(g)
  <2>1. CASE fetch[g].tier = "primary"
    <3>1. Finish(g, "error", {})
      BY <1>5, <2>1 DEF Canceled
    <3> QED
      BY <1>1, <1>5, <3>1, SharedTypes, EndKeeps DEF Canceled
  <2>2. CASE fetch[g].tier # "primary"
    BY <1>1, <1>5, <2>2, CanceledGoesOn, SharedTypes, StepKeeps DEF Canceled
  <2> QED
    BY <2>1, <2>2
<1>6. CASE SecondPass(g)
  BY <1>1, <1>6, SecondPassGoesOn, SharedTypes, StepKeeps DEF SecondPass
<1>7. CASE NoConnection(g)
  BY <1>1, <1>7, NoConnectionGoesOn, SharedTypes, StepKeeps DEF NoConnection
<1>8. CASE Backup(g)
  BY <1>1, <1>8, BackupGoesOn, SharedTypes, StepKeeps DEF Backup
<1> QED
  BY <1>2, <1>3, <1>4, <1>5, <1>6, <1>7, <1>8

LEMMA AnswerKeeps ==
  ASSUME FetchInv, NEW g \in Fetchers,
         \/ Served(g) \/ Refused(g) \/ Broken(g) \/ Store(g) \/ ClearMissing(g)
         \/ Verdict(g) \/ MarkMissing(g)
  PROVE  FetchInv' /\ (FetchesSteady => FetchesSteady')
<1>1. /\ fetch[g].pc \in Under /\ ViewsInv /\ FetchesSound /\ SharedSound
      /\ fetch[g] \in FetchRecord /\ Sound(fetch[g])
  BY DEF Served, Refused, Broken, Store, ClearMissing, Verdict, MarkMissing, Under, PCs,
         FetchInv, FetchesSound
<1>2. fetch[g].view \in Views /\ fetch[g].said \in SUBSET Providers
  BY <1>1 DEF Under, Sound, FetchRecord
<1>3. fetch[g].pc = "ask" => IdOf[Candidate(g)] \in Ids
  <2>1. fetch[g].pc = "ask" => Candidate(g) \in Providers
    BY <1>1, ElementOfSeq DEF Candidate, Sound, FetchRecord
  <2> QED
    BY <2>1, ViewsAssumption DEF ViewsAssumption
<1>4. CASE Served(g)
  <2>1. \E x : GoesOn(g, x)
    BY <1>1, <1>4, EntryGoesOn DEF Served
  <2>2. record' \in [Views -> [Ids -> Records]]
    BY <1>1, <1>2, <1>3, <1>4, AnswersRecorded DEF Served
  <2> QED
    BY <1>1, <1>4, <2>1, <2>2, SharedTypes, StepKeeps DEF Served
<1>5. CASE Refused(g)
  <2>1. \E x : GoesOn(g, x)
    BY <1>1, <1>5, AnswerGoesOn
  <2>2. record' \in [Views -> [Ids -> Records]]
    BY <1>1, <1>2, <1>3, <1>5, AnswersRecorded DEF Refused
  <2> QED
    BY <1>1, <1>5, <2>1, <2>2, SharedTypes, StepKeeps DEF Refused
<1>6. CASE Broken(g)
  <2>1. \E x : GoesOn(g, x)
    BY <1>1, <1>6, AnswerGoesOn
  <2> QED
    BY <1>1, <1>6, <2>1, SharedTypes, StepKeeps DEF Broken
<1>7. CASE Store(g)
  <2>1. CASE Finish(g, "error", {}) /\ UNCHANGED cached
    BY <1>1, <1>7, <2>1, SharedTypes, EndKeeps DEF Store
  <2>2. CASE cached' = cached \cup {fetch[g].article} /\ Go(g, "clear") /\ UNCHANGED flight
    <3>1. \E x : GoesOn(g, x)
      BY <1>1, <1>7, <2>2, EntryGoesOn DEF Store
    <3>2. FetchesSound' /\ (FetchesSteady => FetchesSteady')
      BY <1>1, <1>7, <3>1, GoesOnKeeps DEF Store
    <3>3. ViewsInv'
      BY <1>1, <1>7, ViewsUnmoved DEF Store
    <3>4. fetch[g].article \in Articles
      BY <1>1 DEF Under, Sound
    <3>5. SharedSound'
      BY <1>1, <1>7, <2>2, <3>4 DEF SharedSound, MarkersSound, Store
    <3> QED
      BY <3>2, <3>3, <3>5 DEF FetchInv
  <2> QED
    BY <1>7, <2>1, <2>2 DEF Store
<1>8. CASE ClearMissing(g)
  <2>1. MarkersSound'
    BY <1>8, SharedTypes DEF MarkersSound, ClearMissing, Restrict
  <2>2. Finish(g, "body", {})
    BY <1>8 DEF ClearMissing
  <2> QED
    BY <1>1, <1>8, <2>1, <2>2, EndKeeps DEF ClearMissing
<1>9. CASE Verdict(g)
  <2>1. CASE ~fetch[g].notFound \/ fetch[g].other
    <3>1. Finish(g, "error", {})
      BY <1>9, <2>1 DEF Verdict
    <3> QED
      BY <1>1, <1>9, <3>1, SharedTypes, EndKeeps DEF Verdict
  <2>2. CASE fetch[g].notFound /\ ~fetch[g].other /\ AttemptedAll(g)
    <3>1. Proved(g) /\ UNCHANGED flight
      BY <1>9, <2>2 DEF Verdict
    <3>2. \E x : GoesOn(g, x)
      BY <1>1, <1>9, <2>2, <3>1, VerdictGoesOn DEF Verdict
    <3> QED
      BY <1>1, <1>9, <3>1, <3>2, SharedTypes, StepKeeps DEF Verdict
  <2>3. CASE fetch[g].notFound /\ ~fetch[g].other /\ ~AttemptedAll(g)
    <3>1. Finish(g, "missing", fetch[g].said)
      BY <1>9, <2>3 DEF Verdict
    <3>2. fetch[g].said # {} /\ fetch[g].gave = {}
      BY <1>1, <1>9, <2>3 DEF Sound, Verdict
    <3> QED
      BY <1>1, <1>2, <1>9, <3>1, <3>2, SharedTypes, EndKeeps DEF Verdict
  <2> QED
    BY <2>1, <2>2, <2>3
<1>10. CASE MarkMissing(g)
  <2>1. fetch[g].said # {} /\ fetch[g].gave = {}
    BY <1>1, <1>10 DEF Sound, MarkMissing
  <2>2. PICK key \in Seq(Ids) \X Articles : key = MissingKey(g)
    BY <1>1, KeySound DEF Under
  <2>3. PICK entry \in [proved : SUBSET Ids, by : SUBSET Providers] :
          /\ entry = [proved |-> fetch[g].proved, by |-> fetch[g].said]
          /\ entry.by = fetch[g].said /\ entry.proved = fetch[g].proved
    <3>1. fetch[g].proved \in SUBSET Ids
      BY <1>1 DEF FetchRecord
    <3>2. PICK entry : entry = [proved |-> fetch[g].proved, by |-> fetch[g].said]
      OBVIOUS
    <3>3. entry.by = fetch[g].said /\ entry.proved = fetch[g].proved
      BY <3>2
    <3>4. entry \in [proved : SUBSET Ids, by : SUBSET Providers]
      BY <1>2, <3>1, <3>2
    <3> QED
      BY <3>2, <3>3, <3>4
  <2>4. MarkersSound'
    <3>1. missing' = [k \in DOMAIN missing \cup {key} |-> IF k = key THEN entry ELSE missing[k]]
      BY <1>10, <2>2, <2>3 DEF MarkMissing
    <3>2. entry.proved \subseteq {IdOf[p] : p \in entry.by}
      BY <1>1, <1>10, <2>3 DEF Sound, MarkMissing
    <3> QED
      BY <2>1, <2>2, <2>3, <3>1, <3>2, SharedTypes DEF MarkersSound
  <2>5. Finish(g, "missing", fetch[g].said)
    BY <1>10 DEF MarkMissing
  <2> QED
    BY <1>1, <1>2, <1>10, <2>1, <2>4, <2>5, EndKeeps DEF MarkMissing
<1> QED
  BY <1>4, <1>5, <1>6, <1>7, <1>8, <1>9, <1>10

\* Around the fetches: what becomes of the record, and of a view's list.
LEMMA AroundKeeps ==
  ASSUME FetchInv,
         \/ \E v \in Views, i \in Ids : CooloffEnds(v, i)
         \/ \E i \in Ids : Unblock(i)
         \/ \E m \in Articles : Evict(m)
  PROVE  FetchInv' /\ (FetchesSteady => FetchesSteady')
<1>1. UNCHANGED <<viewVars, fetch, flight, missing>>
  BY DEF CooloffEnds, Unblock, Evict
<1>2. record' \in [Views -> [Ids -> Records]]
  <2>1. ASSUME NEW v \in Views, NEW i \in Ids, CooloffEnds(v, i)
        PROVE  record' \in [Views -> [Ids -> Records]]
    <3>1. record[v][i] \in Records /\ record \in [Views -> [Ids -> Records]]
      BY SharedTypes
    <3>2. PICK no \in BOOLEAN : no = FALSE
      OBVIOUS
    <3>3. PICK x : x = [record[v][i] EXCEPT !.cooling = no]
      OBVIOUS
    <3>4. x \in Records
      BY <3>1, <3>3 DEF Records
    <3>5. record' = [record EXCEPT ![v][i].cooling = FALSE]
      BY <2>1 DEF CooloffEnds
    <3>6. record' = [record EXCEPT ![v][i] = x]
      BY <3>1, <3>2, <3>3, <3>5
    <3> QED
      BY <3>4, <3>6, RecordSet DEF FetchInv
  <2> QED
    BY <2>1, SharedTypes DEF Unblock, Evict
<1>3. blocked' \subseteq Ids /\ cached' \subseteq Articles
  BY DEF CooloffEnds, Unblock, Evict, FetchInv, SharedSound
<1>4. ViewsInv'
  BY <1>1, ViewsUnmoved DEF FetchInv
<1>5. SharedSound'
  BY <1>1, <1>2, <1>3 DEF FetchInv, SharedSound, MarkersSound, Records
<1>6. FetchesSound' /\ (FetchesSteady => FetchesSteady')
  BY <1>1 DEF FetchInv, FetchesSound, FetchesSteady, List, viewVars, Live
<1> QED
  BY <1>4, <1>5, <1>6 DEF FetchInv

\* A step of the views that takes none from under a fetch.
LEMMA ViewsMoveKeeps ==
  ASSUME FetchInv, ViewsInv', UNCHANGED <<fetch, flight, cached, missing, blocked>>,
         record' \in [Views -> [Ids -> Records]],
         \A g \in Fetchers : fetch[g].pc # "out" => fetch[g].view \in Live'
  PROVE  FetchInv'
<1>1. FetchesSound'
  BY DEF FetchInv, FetchesSound
<1>2. SharedSound'
  BY DEF FetchInv, SharedSound, MarkersSound, Records
<1> QED
  BY <1>1, <1>2 DEF FetchInv

LEMMA DropViewKeeps ==
  ASSUME FetchInv, NEW v \in Views, DropView(v),
         UNCHANGED <<fetch, flight, cached, missing, blocked>>
  PROVE  FetchInv'
<1>1. Drop(v)
  BY DEF DropView
<1>2. ViewsInv'
  BY <1>1, ViewsAssumption, SubsetKeeps DEF FetchInv
<1>3. view \in [Views -> ViewRecord]
  BY DEF FetchInv, ViewsInv, ViewsTypeOK, ViewRecord
<1>4. \A g \in Fetchers : fetch[g].pc # "out" => fetch[g].view \in Live'
  BY <1>1, <1>3 DEF DropView, Drop, FetchInv, FetchesSound, Live
<1>5. record' \in [Views -> [Ids -> Records]]
  <2>1. Clean \in Records
    BY FetchAssumption DEF Clean, Records, FetchAssumption
  <2> QED
    BY <2>1, SharedTypes DEF DropView
<1> QED
  BY <1>2, <1>4, <1>5, ViewsMoveKeeps

LEMMA UpdateViewKeeps ==
  ASSUME FetchInv, NEW v \in Views, UpdateView(v),
         UNCHANGED <<fetch, flight, cached, missing, blocked>>
  PROVE  FetchInv'
<1>1. MoveView(v) /\ ViewsInv
  BY DEF UpdateView, FetchInv
<1>2. ViewsInv'
  BY <1>1, MoveViewKeeps
<1>3. view \in [Views -> ViewRecord]
  BY DEF FetchInv, ViewsInv, ViewsTypeOK, ViewRecord
<1>4. Live' = Live
  BY <1>1, <1>3, MoveSets DEF Live
<1>5. record' \in [Views -> [Ids -> Records]]
  <2>1. Clean \in Records /\ record \in [Views -> [Ids -> Records]]
    BY FetchAssumption, SharedTypes DEF Clean, Records, FetchAssumption
  <2>2. PICK y : y = [i \in Ids |-> IF i \in IdsOf(view'[v].list) THEN record[v][i] ELSE Clean]
    OBVIOUS
  <2>3. y \in [Ids -> Records]
    BY <2>1, <2>2
  <2>4. record' = [record EXCEPT ![v] = y]
    BY <2>2 DEF UpdateView
  <2> QED
    BY <2>1, <2>3, <2>4
<1> QED
  BY <1>2, <1>4, <1>5, ViewsMoveKeeps DEF FetchInv, FetchesSound

LEMMA CutViewKeeps ==
  ASSUME FetchInv, CutView \/ (\E list \in Lists : SwapRoot(list)) \/ CollectViews,
         UNCHANGED fetchVars
  PROVE  FetchInv'
<1>1. ViewsInv'
  BY ViewsAssumption, SubsetKeeps, SwapRootKeeps, CollectViewsKeeps DEF FetchInv, CutView
<1>2. view \in [Views -> ViewRecord]
  BY DEF FetchInv, ViewsInv, ViewsTypeOK, ViewRecord
<1>3. Live \subseteq Live'
  <2>1. ASSUME NEW v \in Views,
               (\E ids \in Selections : Select(v, ids)) \/ TakeProviders(v) \/ Register(v)
        PROVE  Live \subseteq Live'
    <3>1. view[v].step # "live" \/ view' = view
      BY <2>1 DEF Select, TakeProviders, Register
    <3>2. \A w \in Views \ {v} : view'[w] = view[w]
      BY <1>2, <2>1 DEF Select, TakeProviders, Register
    <3> QED
      BY <3>1, <3>2 DEF Live
  <2> QED
    BY <2>1 DEF CutView, SwapRoot, CollectViews, Live
<1> QED
  BY <1>1, <1>3, ViewsMoveKeeps, SharedTypes DEF FetchInv, FetchesSound, fetchVars

-------------------------------------------------------------------------------
(* Theorems.                                                               *)

LEMMA ProceedKeeps ==
  ASSUME FetchInv, NEW g \in Fetchers, Proceed(g)
  PROVE  FetchInv' /\ (FetchesSteady => FetchesSteady')
BY WayInKeeps, WalkKeeps, AnswerKeeps, ReturnKeeps DEF Proceed

LEMMA FetchStart == ASSUME FetchInit PROVE FetchInv
<1>1. ViewsInv
  BY ViewsAssumption, ViewsStart DEF FetchInit
<1>2. FetchesSound
  BY NoFetchSound DEF FetchInit, FetchesSound
<1>3. SharedSound
  <2>1. Clean \in Records
    BY FetchAssumption DEF Clean, Records, FetchAssumption
  <2>2. DOMAIN missing = {}
    BY EmptySeq DEF FetchInit
  <2> QED
    BY <2>1, <2>2 DEF FetchInit, SharedSound, MarkersSound, Records
<1> QED
  BY <1>1, <1>2, <1>3 DEF FetchInv

LEMMA FetchStep ==
  ASSUME FetchInv, [FetchNext]_vars
  PROVE  FetchInv'
<1>1. CASE UNCHANGED vars
  <2>1. ViewsInv'
    BY <1>1, ViewsUnmoved DEF FetchInv, vars
  <2> QED
    BY <1>1, <2>1, SharedTypes, ViewsMoveKeeps
      DEF FetchInv, FetchesSound, vars, viewVars, fetchVars, Live
<1>2. CASE \E g \in Fetchers, v \in Views, m \in Articles : FetchSegment(g, v, m)
  BY <1>2, FetchSegmentKeeps
<1>3. CASE \E g \in Fetchers : Proceed(g)
  BY <1>3, ProceedKeeps
<1>4. CASE \/ \E v \in Views, i \in Ids : CooloffEnds(v, i)
           \/ \E i \in Ids : Unblock(i)
           \/ \E m \in Articles : Evict(m)
  BY <1>4, AroundKeeps
<1>5. CASE /\ (CutView \/ (\E list \in Lists : SwapRoot(list)) \/ CollectViews)
           /\ UNCHANGED fetchVars
  BY <1>5, CutViewKeeps
<1>6. CASE \E v \in Views : /\ (DropView(v) \/ UpdateView(v))
                            /\ UNCHANGED <<fetch, flight, cached, missing, blocked>>
  BY <1>6, DropViewKeeps, UpdateViewKeeps
<1> QED
  BY <1>1, <1>2, <1>3, <1>4, <1>5, <1>6 DEF FetchNext

\* The fetches, their flights, the markers and the records stay sound whatever the providers
\* answer, whoever joins, and however the providers are replaced meanwhile
\* (pool.go:967-987, 1313-1456).
THEOREM FetchInvariant == FetchSpec => []FetchInv
<1>1. FetchInit => FetchInv
  BY FetchStart
<1>2. FetchInv /\ [FetchNext]_vars => FetchInv'
  BY FetchStep
<1> QED
  BY <1>1, <1>2, PTL DEF FetchSpec

\* Type correctness (pool.go).
THEOREM FetchTypeCorrect == FetchSpec => []FetchTypeOK
<1>1. FetchInv => FetchTypeOK
  BY DEF FetchInv, ViewsInv, FetchesSound, FetchRecord, SharedSound, MarkersSound, FetchTypeOK
<1> QED
  BY <1>1, FetchInvariant, PTL

\* A fetch reported as missing met refusals and nothing weaker, through whatever rounds,
\* reloads and flights it got its answer (pool.go:1447-1449).
THEOREM MissingIsUncontradicted == FetchSpec => []Uncontradicted
<1>1. FetchInv => Uncontradicted
  BY DEF FetchInv, FetchesSound, Sound, Uncontradicted
<1> QED
  BY <1>1, FetchInvariant, PTL

\* A marker is set only when a provider has refused the article under every ID its view
\* had at the verdict, whatever rounds, cut walks and reloads led there (pool.go:1414-1439).
THEOREM MarkersAreProven == FetchSpec => []MarkersProven
<1>1. FetchInv => MarkersProven
  BY DEF FetchInv, SharedSound, MarkersSound, MarkersProven
<1> QED
  BY <1>1, FetchInvariant, PTL

\* While no provider is changed: the views' lists are the root's providers, the calls under
\* way are what those lists make of them, and a marker has the word of every provider with
\* an ID it names.
FixedInv ==
  /\ update.step = "idle"
  /\ \A v \in Views :
       view[v].step \in {"resolved", "live"} => Range(view[v].list) \subseteq Range(root)
  /\ FetchesSteady
  /\ \A k \in DOMAIN missing :
       \A p \in Range(root) : IdOf[p] \in Range(k[1]) => p \in missing[k].by

LEMMA FixedStart == ASSUME FetchInit PROVE FixedInv
<1>1. DOMAIN missing = {} /\ \A g \in Fetchers : fetch[g].pc = "out"
  BY EmptySeq DEF FetchInit, NoFetch
<1>2. update.step = "idle" /\ \A v \in Views : view[v].step = "none"
  BY DEF FetchInit, ViewsInit, Idle, NoView
<1> QED
  BY <1>1, <1>2 DEF FixedInv, FetchesSteady

\* The marker of a list every provider of which has refused the article.
LEMMA MarkSpeaks ==
  ASSUME FetchInv, FixedInv, NEW g \in Fetchers, MarkMissing(g)
  PROVE  \A k \in DOMAIN missing' :
           \A p \in Range(root) : IdOf[p] \in Range(k[1]) => p \in missing'[k].by
<1>1. fetch[g].pc = "mark" /\ fetch[g].view \in Live
  BY DEF MarkMissing, FetchInv, FetchesSound
<1>2. PICK l : l = List(g)
  OBVIOUS
<1>3. Range(l) \subseteq fetch[g].said
  BY <1>1, <1>2 DEF FixedInv, FetchesSteady, Steady, Hears
<1>4. l \in Seq(Providers) /\ Range(l) \subseteq Range(root)
  BY <1>1, <1>2, ListSound DEF FetchInv, FixedInv, List, Live
<1>5. PICK key : key = MissingKey(g)
  OBVIOUS
<1>6. key[1] = Signature(l)
  BY <1>1, <1>2, <1>5, KeySound
<1>7. Range(key[1]) = {IdOf[p] : p \in Range(l)}
  BY <1>4, <1>6, SignatureOf
<1>8. ASSUME NEW p \in Range(root), IdOf[p] \in Range(key[1]) PROVE p \in fetch[g].said
  <2>1. PICK q \in Range(l) : IdOf[q] = IdOf[p]
    BY <1>7, <1>8
  <2>2. q = p
    BY <1>4, <2>1 DEF FetchInv, ViewsInv, RootSound, OneOfEach
  <2> QED
    BY <1>3, <2>1, <2>2
<1>9. PICK entry : entry = [proved |-> fetch[g].proved, by |-> fetch[g].said]
  OBVIOUS
<1>10. missing' = [k \in DOMAIN missing \cup {key} |-> IF k = key THEN entry ELSE missing[k]]
  BY <1>5, <1>9 DEF MarkMissing
<1>11. entry.by = fetch[g].said
  BY <1>9
<1> QED
  BY <1>8, <1>10, <1>11 DEF FixedInv

LEMMA FixedStep ==
  ASSUME Lists = {}, FetchInv, FixedInv, [FetchNext]_vars
  PROVE  FixedInv'
<1>1. update.left = {}
  BY DEF FetchInv, ViewsInv, UpdateSound, FixedInv
<1>2. ASSUME UNCHANGED viewVars, FetchesSteady', UNCHANGED missing PROVE FixedInv'
  BY <1>2 DEF FixedInv, viewVars
<1>3. CASE UNCHANGED vars
  <2>1. FetchesSteady'
    BY <1>3 DEF FixedInv, FetchesSteady, List, vars, viewVars, fetchVars
  <2> QED
    BY <1>2, <1>3, <2>1 DEF vars, fetchVars
<1>4. ASSUME NEW g \in Fetchers, NEW v \in Views, NEW m \in Articles, FetchSegment(g, v, m)
      PROVE  FixedInv'
  BY <1>2, <1>4, FetchSegmentKeeps DEF FixedInv, FetchSegment
<1>5. ASSUME NEW g \in Fetchers, Proceed(g) PROVE FixedInv'
  <2>1. FetchesSteady'
    BY <1>5, ProceedKeeps DEF FixedInv
  <2>2. CASE UNCHANGED missing
    <3>1. UNCHANGED viewVars
      BY <1>5
        DEF Proceed, CheckMissing, CheckCache, CountPrimaries, NextRound, Skip, Connect,
            ConnectFails, Canceled, SecondPass, NoConnection, Served, Refused, Broken, Backup,
            Store, ClearMissing, Verdict, MarkMissing, Return
    <3> QED
      BY <1>2, <2>1, <2>2, <3>1
  <2>3. CASE MarkMissing(g)
    BY <2>1, <2>3, MarkSpeaks DEF FixedInv, MarkMissing, viewVars
  <2>4. CASE ClearMissing(g)
    BY <2>1, <2>4 DEF FixedInv, ClearMissing, Restrict, viewVars
  <2> QED
    BY <1>5, <2>2, <2>3, <2>4
      DEF Proceed, CheckMissing, CheckCache, CountPrimaries, NextRound, Skip, Connect,
          ConnectFails, Canceled, SecondPass, NoConnection, Served, Refused, Broken, Backup,
          Store, Verdict, Return
<1>6. CASE \/ \E v \in Views, i \in Ids : CooloffEnds(v, i)
           \/ \E i \in Ids : Unblock(i)
           \/ \E m \in Articles : Evict(m)
  BY <1>2, <1>6, AroundKeeps DEF FixedInv, CooloffEnds, Unblock, Evict
<1>7. ASSUME NEW v \in Views, NEW x \in ViewRecord,
             view' = [view EXCEPT ![v] = x], UNCHANGED <<root, update, fetch, missing>>,
             \A g \in Fetchers : fetch[g].pc # "out" => fetch[g].view # v,
             x.step \in {"resolved", "live"} => Range(x.list) \subseteq Range(root)
      PROVE  FixedInv'
  <2>1. view \in [Views -> ViewRecord]
    BY DEF FetchInv, ViewsInv, ViewsTypeOK, ViewRecord
  <2>2. view'[v] = x /\ \A w \in Views \ {v} : view'[w] = view[w]
    BY <1>7, <2>1
  <2>3. \A g \in Fetchers : fetch[g].pc # "out" => List(g)' = List(g)
    BY <1>7, <2>2 DEF List, FetchInv, FetchesSound, Live
  <2>4. FetchesSteady'
    BY <1>7, <2>3 DEF FixedInv, FetchesSteady
  <2> QED
    BY <1>7, <2>2, <2>4 DEF FixedInv
<1>8. CASE CutView /\ UNCHANGED fetchVars
  <2>1. PICK v \in Views :
          (\E ids \in Selections : Select(v, ids)) \/ TakeProviders(v) \/ Register(v)
    BY <1>8 DEF CutView
  <2>2. /\ view \in [Views -> ViewRecord] /\ view[v] \in ViewRecord /\ root \in Seq(Providers)
    BY DEF FetchInv, ViewsInv, ViewsTypeOK, ViewRecord
  <2>3. view[v].step # "live"
    BY <2>1 DEF Select, TakeProviders, Register
  <2>4. \A g \in Fetchers : fetch[g].pc # "out" => fetch[g].view # v
    BY <2>3 DEF FetchInv, FetchesSound, Live
  <2>5. ASSUME NEW ids \in Selections, Select(v, ids) PROVE FixedInv'
    <3>1. PICK chosen : chosen = Chosen(root, ids)
      OBVIOUS
    <3>2. chosen \in Seq(Ids)
      BY <2>2, <3>1, Resolved, ViewsAssumption DEF ViewsAssumption
    <3>3. PICK x : x = [view[v] EXCEPT !.step = "selected", !.selection = chosen]
      OBVIOUS
    <3>4. view' = [view EXCEPT ![v] = x]
      BY <2>2, <2>5, <3>1, <3>3 DEF Select
    <3>5. x \in ViewRecord /\ x.step = "selected"
      BY <2>2, <3>2, <3>3 DEF ViewRecord
    <3> QED
      BY <1>7, <1>8, <2>4, <2>5, <3>4, <3>5 DEF Select, fetchVars
  <2>6. CASE TakeProviders(v)
    <3>1. PICK list : list = Resolve(root, view[v].selection)
      OBVIOUS
    <3>2. list \in Seq(Providers) /\ Range(list) \subseteq Range(root)
      BY <2>2, <3>1, Resolved DEF ViewRecord
    <3>3. PICK x : x = IF list = <<>> THEN NoView
                       ELSE [view[v] EXCEPT !.step = "resolved", !.list = list]
      OBVIOUS
    <3>4. view' = [view EXCEPT ![v] = x]
      BY <2>2, <2>6, <3>1, <3>3 DEF TakeProviders
    <3>5. x \in ViewRecord /\ (x.step \in {"resolved", "live"} => x.list = list)
      <4>1. NoView \in ViewRecord /\ NoView.step = "none"
        BY EmptySeq DEF NoView, ViewRecord
      <4>2. CASE list = <<>>
        BY <3>3, <4>1, <4>2
      <4>3. CASE list # <<>>
        BY <2>2, <3>2, <3>3, <4>3 DEF ViewRecord
      <4> QED
        BY <4>2, <4>3
    <3> QED
      BY <1>7, <1>8, <2>4, <2>6, <3>2, <3>4, <3>5 DEF TakeProviders, fetchVars
  <2>7. CASE Register(v)
    <3>1. PICK x : x = [view[v] EXCEPT !.step = "live"]
      OBVIOUS
    <3>2. view' = [view EXCEPT ![v] = x]
      BY <2>2, <2>7, <3>1 DEF Register
    <3>3. x \in ViewRecord /\ x.list = view[v].list
      BY <2>2, <3>1 DEF ViewRecord
    <3>4. Range(x.list) \subseteq Range(root)
      BY <2>7, <3>3 DEF FixedInv, Register
    <3> QED
      BY <1>7, <1>8, <2>4, <2>7, <3>2, <3>3, <3>4 DEF Register, fetchVars
  <2> QED
    BY <2>1, <2>5, <2>6, <2>7
<1>9. ~CollectViews /\ \A v \in Views : ~UpdateView(v)
  BY <1>1 DEF CollectViews, FixedInv, UpdateView, MoveView
<1>10. ASSUME NEW v \in Views, DropView(v), UNCHANGED <<fetch, flight, cached, missing, blocked>>
       PROVE  FixedInv'
  <2>1. NoView \in ViewRecord /\ NoView.step = "none"
    BY EmptySeq DEF NoView, ViewRecord
  <2>2. view' = [view EXCEPT ![v] = NoView] /\ UNCHANGED <<root, update>>
    BY <1>10 DEF DropView, Drop
  <2> QED
    BY <1>7, <1>10, <2>1, <2>2 DEF DropView
<1> QED
  BY <1>3, <1>4, <1>5, <1>6, <1>8, <1>9, <1>10 DEF FetchNext

\* Between reloads the walks, the views and the markers agree with the provider list
\* (pool.go:967-987, 1313-1456).
THEOREM FixedInvariant == ASSUME Lists = {} PROVE FetchSpec => []FixedInv
<1>1. FetchInit => FixedInv
  BY FixedStart
<1>2. FetchInv /\ FixedInv /\ [FetchNext]_vars => FixedInv'
  BY FixedStep
<1> QED
  BY <1>1, <1>2, FetchInvariant, PTL DEF FetchSpec

\* Between reloads a backup is asked only when every primary of the view has been asked,
\* could not be reached, or was passed over for a bench (pool.go:1250-1251, 1712-1718).
THEOREM BackupsHoldBack == ASSUME Lists = {} PROVE FetchSpec => []BackupsWait
<1>1. FixedInv => BackupsWait
  <2> SUFFICES ASSUME FixedInv, NEW g \in Fetchers, fetch[g].pc = "ask",
                      fetch[g].tier = "backup", NEW p \in Range(fetch[g].list),
                      ~InReserve(fetch[g].list, p)
               PROVE  p \in fetch[g].tried \cup fetch[g].passed
    BY DEF BackupsWait
  <2>1. Steady(fetch[g], List(g))
    BY DEF FixedInv, FetchesSteady
  <2>2. fetch[g].list = List(g) /\ Had(fetch[g], List(g))
    BY <2>1 DEF Steady, Walks, Tries, Walking
  <2> QED
    BY <2>2 DEF Had, Primaries
<1> QED
  BY <1>1, FixedInvariant, PTL
===============================================================================
