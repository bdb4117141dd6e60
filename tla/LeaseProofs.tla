------------------------------ MODULE LeaseProofs ------------------------------
(***************************************************************************)
(* What the limiters promise for any number of streams, providers, calls   *)
(* and changes of any limits.                                              *)
(***************************************************************************)
EXTENDS LeaseLimiter, FiniteSetTheorems, SequenceTheorems, TLAPS

\* Where a call is tells whether it knows its stream, its channel and whom to wait for.
Placed(r) ==
  /\ r.pc # "off" => r.stream \in Streams
  /\ r.pc \in {"off", "look", "ask"} => r.under = None
  /\ r.pc \in {"try", "wait", "queued"} => r.under # None
  /\ r.pc = "ask" => r.capped # None

\* A semaphore in force is as large as the limit.
Sized == \A s \in Streams, p \in Providers :
           permits[s][p] # None => size[permits[s][p]] = limits[s][p]

\* In a channel's queue is who waits there, once.
InLine(x) ==
  /\ \A i \in 1 .. Len(queue[x]) : At(queue[x][i], "queued") /\ call[queue[x][i]].under = x
  /\ \A i, j \in 1 .. Len(queue[x]) : queue[x][i] = queue[x][j] => i = j

LeaseInv ==
  /\ LeaseTypeOK
  /\ \A g \in Calls : Placed(call[g])
  /\ Sized
  /\ \A x \in Channels : InLine(x) /\ taken[x] <= size[x]
  /\ PermitsCounted

-------------------------------------------------------------------------------
(* Who holds a channel's permits. *)

Holds(r, x) == r.under = x /\ r.pc \in {"get", "use"}
Held(f, x) == {g \in Calls : Holds(f[g], x)}

LEMMA HoldersAre == \A x : Holders(x) = Held(call, x) /\ Holders(x)' = Held(call', x)
  BY DEF Holders, Held, Holds

LEMMA FiniteHeld ==
  ASSUME NEW f, NEW x
  PROVE  IsFiniteSet(Held(f, x)) /\ Cardinality(Held(f, x)) \in Nat
  BY LeaseAssumption, FS_Subset, FS_CardinalityType DEF Held

\* One call moves, and has a permit more, one less or what it had.
LEMMA HeldAfter ==
  ASSUME NEW g \in Calls, \A h \in Calls \ {g} : call'[h] = call[h], NEW x
  PROVE  /\ (Holds(call'[g], x) <=> Holds(call[g], x)) => Held(call', x) = Held(call, x)
         /\ Holds(call'[g], x) /\ ~Holds(call[g], x)
              => Cardinality(Held(call', x)) = Cardinality(Held(call, x)) + 1
         /\ ~Holds(call'[g], x) /\ Holds(call[g], x)
              => Cardinality(Held(call', x)) = Cardinality(Held(call, x)) - 1
<1>1. (Holds(call'[g], x) <=> Holds(call[g], x)) => Held(call', x) = Held(call, x)
  BY DEF Held
<1>2. ASSUME Holds(call'[g], x), ~Holds(call[g], x)
      PROVE  Cardinality(Held(call', x)) = Cardinality(Held(call, x)) + 1
  <2>1. Held(call', x) = Held(call, x) \union {g} /\ g \notin Held(call, x)
    BY <1>2 DEF Held
  <2> QED BY <2>1, FiniteHeld, FS_AddElement
<1>3. ASSUME ~Holds(call'[g], x), Holds(call[g], x)
      PROVE  Cardinality(Held(call', x)) = Cardinality(Held(call, x)) - 1
  <2>1. Held(call', x) = Held(call, x) \ {g} /\ g \in Held(call, x)
    BY <1>3 DEF Held
  <2> QED BY <2>1, FiniteHeld, FS_RemoveElement
<1> QED BY <1>1, <1>2, <1>3

-------------------------------------------------------------------------------
(* Steps that leave the channels alone. *)

\* A call that is in no queue moves, and holds what it held.
LEMMA Moves ==
  ASSUME LeaseInv, NEW g \in Calls, NEW r \in CallRecords, Placed(r), Sets(g, r),
         ~At(g, "queued"), \A x \in Channels : Holds(r, x) <=> Holds(call[g], x),
         UNCHANGED <<limits, permits, chanVars, views, changes>>, free' \in [Providers -> Nat]
  PROVE  LeaseInv'
<1>1. /\ \A h \in Calls \ {g} : call'[h] = call[h]
      /\ call'[g] = r
      /\ call' \in [Calls -> CallRecords]
  BY DEF LeaseInv, LeaseTypeOK, Sets
<1>2. LeaseTypeOK'
  BY <1>1 DEF LeaseInv, LeaseTypeOK, chanVars
<1>3. \A h \in Calls : Placed(call'[h])
  BY <1>1 DEF LeaseInv
<1>4. Sized'
  BY DEF LeaseInv, Sized, chanVars
<1>5. ASSUME NEW x \in Channels PROVE InLine(x)' /\ taken'[x] <= size'[x]
  <2>1. \A i \in 1 .. Len(queue[x]) : queue[x][i] \in Calls /\ queue[x][i] # g
    BY DEF LeaseInv, LeaseTypeOK, InLine, At
  <2> QED BY <1>1, <2>1 DEF LeaseInv, InLine, At, chanVars
<1>6. PermitsCounted'
  <2>1. call \in [Calls -> CallRecords] /\ call' = [call EXCEPT ![g] = r]
    BY DEF LeaseInv, LeaseTypeOK, Sets
  <2>2. \A x \in Channels : Held(call', x) = Held(call, x)
    <3> TAKE x \in Channels
    <3>1. Holds(r, x) <=> Holds(call[g], x)
      OBVIOUS
    <3> QED BY <1>1, <3>1 DEF Held
  <2> QED BY <2>2, HoldersAre DEF LeaseInv, PermitsCounted, chanVars
<1> QED BY <1>2, <1>3, <1>4, <1>5, <1>6 DEF LeaseInv

LEMMA RestingIs == Resting \in CallRecords /\ Placed(Resting) /\ Resting.under = None
  BY LeaseAssumption DEF Resting, CallRecords, Placed

LEMMA OnwardIs ==
  ASSUME NEW r \in CallRecords, r.stream \in Streams
  PROVE  Onward(r) \in CallRecords /\ Placed(Onward(r)) /\ Onward(r).under = None
<1> DEFINE yes == TRUE
<1> DEFINE s == [r EXCEPT !.under = None, !.with = None]
<1>1. s \in CallRecords /\ s.under = None /\ s.stream \in Streams /\ s.capped = r.capped
      /\ s.at = r.at
  BY DEF CallRecords
<1> HIDE DEF s
<1>2. CASE r.last
  BY <1>2, RestingIs DEF Onward
<1>3. CASE ~r.last /\ r.at < Len(Order)
  <2>1. Onward(r) = [s EXCEPT !.pc = "look", !.at = @ + 1]
    BY <1>3 DEF Onward, s
  <2>2. r.at + 1 \in 1 .. Len(Order)
    BY <1>3, LeaseAssumption DEF CallRecords
  <2>3. [s EXCEPT !.pc = "look", !.at = r.at + 1] \in CallRecords
    BY <1>1, <2>2, ZenonT(30) DEF CallRecords
  <2> QED BY <1>1, <2>1, <2>3 DEF CallRecords, Placed
<1>4. CASE ~r.last /\ ~(r.at < Len(Order)) /\ r.pass = 1
  <2>1. Onward(r) = [s EXCEPT !.pc = "look", !.at = 1, !.pass = 2]
    BY <1>4 DEF Onward, s
  <2>2. 1 \in 1 .. Len(Order)
    BY LeaseAssumption
  <2> QED BY <1>1, <2>1, <2>2 DEF CallRecords, Placed
<1>5. CASE ~r.last /\ ~(r.at < Len(Order)) /\ r.pass # 1 /\ r.capped # None
  <2>1. Onward(r) = [s EXCEPT !.pc = "ask", !.last = yes]
    BY <1>5 DEF Onward, s
  <2>2. yes \in BOOLEAN
    OBVIOUS
  <2> HIDE DEF yes
  <2> QED BY <1>1, <1>5, <2>1, <2>2 DEF CallRecords, Placed
<1>6. CASE ~r.last /\ ~(r.at < Len(Order)) /\ r.pass # 1 /\ r.capped = None
  BY <1>6, RestingIs DEF Onward
<1> QED BY <1>2, <1>3, <1>4, <1>5, <1>6

-------------------------------------------------------------------------------
(* Steps on a channel. *)

\* In force or not, the channels but x are as they were for everyone.
Beside(x) ==
  /\ size' \in [Channels -> Nat] /\ taken' \in [Channels -> Nat]
  /\ queue' \in [Channels -> Seq(Calls)]
  /\ \A y \in Channels \ {x} : size'[y] = size[y] /\ taken'[y] = taken[y] /\ queue'[y] = queue[y]

\* One call, which stands in no other channel's queue, moves, and one channel changes.
LEMMA TouchesOne ==
  ASSUME LeaseInv, NEW g \in Calls, NEW r \in CallRecords, Placed(r), Sets(g, r),
         NEW x \in Channels, Beside(x), At(g, "queued") => call[g].under = x,
         \A y \in Channels \ {x} : Holds(r, y) <=> Holds(call[g], y),
         InLine(x)', taken'[x] <= size'[x], taken'[x] = Cardinality(Held(call', x)),
         Sized', permits' \in [Streams -> [Providers -> Channels \union {None}]],
         UNCHANGED <<limits, views, changes>>, free' \in [Providers -> Nat]
  PROVE  LeaseInv'
<1>1. /\ \A h \in Calls \ {g} : call'[h] = call[h]
      /\ call'[g] = r
      /\ call' \in [Calls -> CallRecords]
  BY DEF LeaseInv, LeaseTypeOK, Sets
<1>2. LeaseTypeOK'
  BY <1>1 DEF LeaseInv, LeaseTypeOK, Beside
<1>3. \A h \in Calls : Placed(call'[h])
  BY <1>1 DEF LeaseInv
<1>4. ASSUME NEW y \in Channels \ {x}
      PROVE  InLine(y)' /\ taken'[y] <= size'[y] /\ taken'[y] = Cardinality(Held(call', y))
  <2>1. \A i \in 1 .. Len(queue[y]) : queue[y][i] \in Calls /\ queue[y][i] # g
    <3> TAKE i \in 1 .. Len(queue[y])
    <3>1. queue[y] \in Seq(Calls) /\ InLine(y) /\ y # x
      BY DEF LeaseInv, LeaseTypeOK
    <3>2. At(queue[y][i], "queued") /\ call[queue[y][i]].under = y
      BY <3>1 DEF InLine
    <3> QED BY <3>1, <3>2
  <2>2. Held(call', y) = Held(call, y)
    <3>1. Holds(r, y) <=> Holds(call[g], y)
      BY <1>4
    <3> QED BY <1>1, <3>1 DEF Held
  <2>3. taken[y] = Cardinality(Held(call, y))
    BY HoldersAre DEF LeaseInv, PermitsCounted
  <2>4. queue'[y] = queue[y] /\ taken'[y] = taken[y] /\ size'[y] = size[y]
    BY DEF Beside
  <2>5. InLine(y)'
    BY <1>1, <2>1, <2>4 DEF LeaseInv, InLine, At
  <2>6. taken'[y] <= size'[y]
    BY <2>4 DEF LeaseInv
  <2> QED BY <2>2, <2>3, <2>4, <2>5, <2>6
<1>5. \A y \in Channels : InLine(y)' /\ taken'[y] <= size'[y] /\ taken'[y] = Cardinality(Held(call', y))
  BY <1>4
<1>6. PermitsCounted'
  BY <1>5, HoldersAre DEF PermitsCounted
<1> QED BY <1>2, <1>3, <1>5, <1>6 DEF LeaseInv

LEMMA MakeKeeps ==
  ASSUME LeaseInv, NEW g \in Calls, NEW p \in Providers, NEW pc \in {"try", "wait"},
         call[g].pc \in {"look", "ask"}, NEW x \in Channels, Unused(x),
         limits[call[g].stream][p] > 0, Make(call[g].stream, p, x),
         Sets(g, [call[g] EXCEPT !.with = p, !.pc = pc, !.under = x]),
         UNCHANGED <<limits, views, free, changes>>
  PROVE  LeaseInv'
<1> DEFINE s == call[g].stream
<1> DEFINE r == [call[g] EXCEPT !.with = p, !.pc = pc, !.under = x]
<1>1. s \in Streams /\ call[g] \in CallRecords /\ Placed(call[g])
  BY DEF LeaseInv, LeaseTypeOK, Placed
<1>2. /\ r \in CallRecords
      /\ r.pc = pc /\ r.under = x /\ r.stream = s /\ x # None
  BY <1>1, LeaseAssumption DEF CallRecords
<1>3. Placed(r)
  BY <1>1, <1>2 DEF Placed
<1>4. /\ Beside(x)
      /\ size'[x] = limits[s][p] /\ taken'[x] = 0 /\ queue'[x] = <<>>
      /\ limits[s][p] \in Nat
  BY <1>1 DEF LeaseInv, LeaseTypeOK, Make, Beside
<1>5. /\ permits' \in [Streams -> [Providers -> Channels \union {None}]]
      /\ permits'[s][p] = x
      /\ \A t \in Streams, q \in Providers : t # s \/ q # p => permits'[t][q] = permits[t][q]
  <2>1. permits' = [permits EXCEPT ![s][p] = x] /\ permits \in [Streams -> [Providers -> Channels \union {None}]]
    BY DEF Make, LeaseInv, LeaseTypeOK
  <2> QED BY <1>1, <2>1
<1>6. Sized'
  <2> SUFFICES ASSUME NEW t \in Streams, NEW q \in Providers, permits'[t][q] # None
               PROVE  size'[permits'[t][q]] = limits[t][q]
    BY DEF Sized
  <2>1. CASE t = s /\ q = p
    BY <2>1, <1>4, <1>5
  <2>2. CASE t # s \/ q # p
    <3>1. permits'[t][q] = permits[t][q] /\ permits[t][q] \in Channels \ {x}
      BY <2>2, <1>5 DEF Unused, LeaseInv, LeaseTypeOK
    <3> QED BY <3>1, <1>4, ZenonT(30) DEF Beside, LeaseInv, Sized
  <2> QED BY <2>1, <2>2
<1>7. Held(call', x) = {}
  <2>1. call'[g] = r /\ \A h \in Calls \ {g} : call'[h] = call[h]
    BY DEF Sets, LeaseInv, LeaseTypeOK
  <2>2. ~Holds(r, x) /\ \A h \in Calls : ~Holds(call[h], x)
    BY <1>2 DEF Holds, Unused
  <2> HIDE DEF r
  <2> QED BY <2>1, <2>2 DEF Held
<1>8. taken'[x] = Cardinality(Held(call', x)) /\ taken'[x] <= size'[x]
  BY <1>4, <1>7, FS_EmptySet
<1>9. InLine(x)'
  BY <1>4 DEF InLine
<1>10. \A y \in Channels \ {x} : Holds(r, y) <=> Holds(call[g], y)
  BY <1>2 DEF Holds
<1>11. Sets(g, r) /\ ~At(g, "queued")
  BY DEF At
<1>12. free' \in [Providers -> Nat] /\ UNCHANGED <<limits, views, changes>>
  BY DEF LeaseInv, LeaseTypeOK
<1> HIDE DEF r
<1> QED BY <1>2, <1>3, <1>4, <1>5, <1>6, <1>8, <1>9, <1>10, <1>11, <1>12, TouchesOne

LEMMA SemaphoreKeeps ==
  ASSUME LeaseInv, NEW g \in Calls, NEW p \in Providers, NEW pc \in {"try", "wait"},
         call[g].pc \in {"look", "ask"}, Semaphore(g, p, pc),
         UNCHANGED <<limits, views, free, changes>>
  PROVE  LeaseInv'
<1> DEFINE s == call[g].stream
<1> DEFINE capped == call[g].limited /\ limits[s][p] > 0
<1>1. s \in Streams /\ call[g] \in CallRecords /\ call[g].under = None
  BY DEF LeaseInv, LeaseTypeOK, Placed
<1>2. ~At(g, "queued") /\ free' \in [Providers -> Nat]
  BY DEF At, LeaseInv, LeaseTypeOK
<1>3. CASE ~capped /\ Sets(g, [call[g] EXCEPT !.with = p, !.pc = "get"]) /\ UNCHANGED <<permits, chanVars>>
  <2> DEFINE r == [call[g] EXCEPT !.with = p, !.pc = "get"]
  <2>1. r \in CallRecords /\ r.pc = "get" /\ r.under = None /\ r.stream = s
    BY <1>1 DEF CallRecords
  <2>2. Placed(r) /\ Sets(g, r)
    BY <1>1, <1>3, <2>1 DEF Placed
  <2>3. \A x \in Channels : Holds(r, x) <=> Holds(call[g], x)
    BY <1>1, <2>1, LeaseAssumption DEF Holds
  <2> HIDE DEF r
  <2> QED BY <1>2, <1>3, <2>1, <2>2, <2>3, Moves
<1>4. CASE /\ capped /\ permits[s][p] # None /\ UNCHANGED <<permits, chanVars>>
           /\ Sets(g, [call[g] EXCEPT !.with = p, !.pc = pc, !.under = permits[s][p]])
  <2> DEFINE r == [call[g] EXCEPT !.with = p, !.pc = pc, !.under = permits[s][p]]
  <2>1. permits[s][p] \in Channels
    BY <1>1, <1>4 DEF LeaseInv, LeaseTypeOK
  <2>2. r \in CallRecords /\ r.pc = pc /\ r.under # None /\ r.stream = s
    BY <1>1, <1>4, <2>1 DEF CallRecords
  <2>3. Placed(r) /\ Sets(g, r)
    BY <1>1, <1>4, <2>2 DEF Placed
  <2>4. \A x \in Channels : Holds(r, x) <=> Holds(call[g], x)
    BY <2>2 DEF Holds
  <2> HIDE DEF r
  <2> QED BY <1>2, <1>4, <2>2, <2>3, <2>4, Moves
<1>5. CASE /\ capped /\ \E x \in Channels : Unused(x)
           /\ LET x == CHOOSE x \in Channels : Unused(x)
              IN /\ Make(s, p, x)
                 /\ Sets(g, [call[g] EXCEPT !.with = p, !.pc = pc, !.under = x])
  <2> DEFINE x == CHOOSE x \in Channels : Unused(x)
  <2>1. x \in Channels /\ Unused(x)
    BY <1>5
  <2>2. Make(s, p, x) /\ Sets(g, [call[g] EXCEPT !.with = p, !.pc = pc, !.under = x])
    BY <1>5
  <2> HIDE DEF x
  <2> QED BY <1>5, <2>1, <2>2, MakeKeeps
<1> QED BY <1>3, <1>4, <1>5 DEF Semaphore

LEMMA TakeKeeps ==
  ASSUME LeaseInv, NEW g \in Calls, call[g].pc \in {"try", "wait"}, HasRoom(call[g].under),
         Take(call[g].under), Sets(g, [call[g] EXCEPT !.pc = "get"]),
         UNCHANGED <<limits, permits, views, free, changes>>
  PROVE  LeaseInv'
<1>0. PICK x \in Channels : x = call[g].under
  BY DEF LeaseInv, LeaseTypeOK, Placed, CallRecords
<1> DEFINE r == [call[g] EXCEPT !.pc = "get"]
<1>1. x = call[g].under /\ call[g] \in CallRecords /\ call[g].stream \in Streams
  BY <1>0 DEF LeaseInv, LeaseTypeOK, Placed
<1>2. r \in CallRecords /\ r.pc = "get" /\ r.under = x /\ r.stream = call[g].stream
  BY <1>1 DEF CallRecords
<1>3. Placed(r)
  BY <1>1, <1>2 DEF Placed
<1>4. /\ Beside(x)
      /\ taken'[x] = taken[x] + 1 /\ size' = size /\ queue' = queue
      /\ taken[x] \in Nat /\ size[x] \in Nat /\ taken[x] < size[x]
  BY <1>1 DEF LeaseInv, LeaseTypeOK, Take, Beside, HasRoom
<1>5. call \in [Calls -> CallRecords] /\ call' = [call EXCEPT ![g] = r]
  BY DEF LeaseInv, LeaseTypeOK, Sets
<1>6. Holds(r, x) /\ ~Holds(call[g], x)
  BY <1>2 DEF Holds
<1>7. taken[x] = Cardinality(Held(call, x))
  BY <1>1, HoldersAre DEF LeaseInv, PermitsCounted
<1>8. /\ \A h \in Calls \ {g} : call'[h] = call[h]
      /\ call'[g] = r
  BY <1>5
<1>9. \A y \in Channels \ {x} : Holds(r, y) <=> Holds(call[g], y)
  BY <1>2 DEF Holds
<1>10. InLine(x)'
  <2>1. \A i \in 1 .. Len(queue[x]) : queue[x][i] \in Calls /\ queue[x][i] # g
    BY <1>1 DEF LeaseInv, LeaseTypeOK, InLine, At
  <2>2. InLine(x) /\ queue'[x] = queue[x]
    BY <1>4 DEF LeaseInv
  <2>3. \A i \in 1 .. Len(queue[x]) : call'[queue[x][i]] = call[queue[x][i]]
    BY <1>8, <2>1
  <2> QED BY <2>2, <2>3 DEF InLine, At
<1>11. Sized' /\ permits' \in [Streams -> [Providers -> Channels \union {None}]]
  BY <1>4 DEF LeaseInv, LeaseTypeOK, Sized
<1>12. Sets(g, r) /\ ~At(g, "queued")
  BY DEF At
<1> HIDE DEF r
<1>13. taken'[x] = Cardinality(Held(call', x))
  <2>1. Holds(call'[g], x) /\ ~Holds(call[g], x) /\ \A h \in Calls \ {g} : call'[h] = call[h]
    BY <1>6, <1>8
  <2>2. Cardinality(Held(call', x)) = Cardinality(Held(call, x)) + 1
    BY <2>1, HeldAfter
  <2> QED BY <1>4, <1>7, <2>2
<1>14. taken'[x] <= size'[x]
  BY <1>4
<1>15. free' \in [Providers -> Nat] /\ UNCHANGED <<limits, views, changes>>
  BY DEF LeaseInv, LeaseTypeOK
<1> QED BY <1>1, <1>2, <1>3, <1>4, <1>9, <1>10, <1>11, <1>12, <1>13, <1>14, <1>15, TouchesOne

LEMMA QueuesKeeps ==
  ASSUME LeaseInv, NEW g \in Calls, Queues(g)
  PROVE  LeaseInv'
<1>0. PICK x \in Channels : x = call[g].under
  BY DEF LeaseInv, LeaseTypeOK, Placed, CallRecords, Queues, At
<1> DEFINE r == [call[g] EXCEPT !.pc = "queued"]
<1>1. call[g] \in CallRecords /\ call[g].stream \in Streams /\ call[g].pc = "wait" /\ x # None
  BY <1>0, LeaseAssumption DEF LeaseInv, LeaseTypeOK, Placed, Queues, At
<1>2. r \in CallRecords /\ r.pc = "queued" /\ r.under = x /\ r.stream = call[g].stream
  BY <1>0, <1>1 DEF CallRecords
<1>3. Placed(r)
  BY <1>1, <1>2 DEF Placed
<1>4. /\ Beside(x)
      /\ queue'[x] = Append(queue[x], g) /\ queue[x] \in Seq(Calls)
      /\ size' = size /\ taken' = taken
  BY <1>0 DEF LeaseInv, LeaseTypeOK, Beside, Queues
<1>5. /\ Sets(g, r)
      /\ \A h \in Calls \ {g} : call'[h] = call[h]
      /\ call'[g] = r
  BY DEF LeaseInv, LeaseTypeOK, Sets, Queues
<1>6. \A y \in Channels : Holds(r, y) <=> Holds(call[g], y)
  BY <1>1, <1>2 DEF Holds
<1>7. Sized' /\ permits' \in [Streams -> [Providers -> Channels \union {None}]]
      /\ UNCHANGED <<limits, views, free, changes>>
  BY <1>4 DEF LeaseInv, LeaseTypeOK, Sized, Queues
<1> HIDE DEF r
<1>8. InLine(x)'
  <2>1. \A i \in 1 .. Len(queue[x]) : /\ queue[x][i] \in Calls /\ queue[x][i] # g
                                      /\ call[queue[x][i]].pc = "queued" /\ call[queue[x][i]].under = x
    BY <1>1, <1>4 DEF LeaseInv, InLine, At
  <2>2. \A i, j \in 1 .. Len(queue[x]) : queue[x][i] = queue[x][j] => i = j
    BY DEF LeaseInv, InLine
  <2>3. /\ Len(queue'[x]) = Len(queue[x]) + 1 /\ Len(queue[x]) \in Nat
        /\ queue'[x][Len(queue[x]) + 1] = g
        /\ \A i \in 1 .. Len(queue[x]) : queue'[x][i] = queue[x][i]
    BY <1>4
  <2>4. \A i \in 1 .. Len(queue'[x]) : call'[queue'[x][i]].pc = "queued" /\ call'[queue'[x][i]].under = x
    BY <1>2, <1>5, <2>1, <2>3, SMTT(20)
  <2>5. \A i, j \in 1 .. Len(queue'[x]) : queue'[x][i] = queue'[x][j] => i = j
    BY <2>1, <2>2, <2>3, SMTT(30)
  <2> QED BY <2>4, <2>5 DEF InLine, At
<1>9. taken'[x] <= size'[x]
  BY <1>4 DEF LeaseInv
<1>10. taken'[x] = Cardinality(Held(call', x))
  <2>1. Held(call', x) = Held(call, x)
    BY <1>5, <1>6 DEF Held
  <2> QED BY <1>4, <2>1, HoldersAre DEF LeaseInv, PermitsCounted
<1>11. ~At(g, "queued")
  BY <1>1 DEF At
<1>12. free' \in [Providers -> Nat] /\ UNCHANGED <<limits, views, changes>>
  BY <1>7 DEF LeaseInv, LeaseTypeOK
<1> QED BY <1>2, <1>3, <1>4, <1>5, <1>6, <1>7, <1>8, <1>9, <1>10, <1>11, <1>12, TouchesOne

\* A queue with one fewer: nobody is in it twice, and all were before.
OnceEach(q) == \A m, n \in 1 .. Len(q) : q[m] = q[n] => m = n
Fewer(rest, q, i) ==
  /\ \A m \in 1 .. Len(rest) : \E n \in 1 .. Len(q) : n # i /\ rest[m] = q[n]
  /\ OnceEach(rest)

LEMMA LeavesLine ==
  ASSUME NEW S, NEW q \in Seq(S), NEW i \in 1 .. Len(q), NEW rest, rest = RemoveAt(q, i),
         OnceEach(q)
  PROVE  rest \in Seq(S) /\ Fewer(rest, q, i)
<1> DEFINE a == SubSeq(q, 1, i - 1)
<1> DEFINE b == SubSeq(q, i + 1, Len(q))
<1>1. /\ a \in Seq(S) /\ Len(a) = i - 1
      /\ \A m \in 1 .. i - 1 : a[m] = q[m]
  OBVIOUS
<1>2. /\ b \in Seq(S) /\ Len(b) = Len(q) - i
      /\ \A m \in 1 .. Len(q) - i : b[m] = q[m + i]
  OBVIOUS
<1>3. rest = a \o b
  BY DEF RemoveAt
<1> HIDE DEF a, b
<1>4. /\ rest \in Seq(S) /\ Len(rest) = Len(q) - 1
      /\ \A m \in 1 .. Len(rest) : rest[m] = IF m < i THEN q[m] ELSE q[m + 1]
  <2>1. rest \in Seq(S) /\ Len(rest) = Len(q) - 1
    <3>1. rest \in Seq(S) /\ Len(rest) = Len(a) + Len(b)
      BY ONLY <1>1, <1>2, <1>3, ConcatProperties
    <3>2. Len(q) \in Nat /\ i \in Int
      OBVIOUS
    <3> QED BY <1>1, <1>2, <3>1, <3>2
  <2>2. ASSUME NEW m \in 1 .. Len(rest) PROVE rest[m] = IF m < i THEN q[m] ELSE q[m + 1]
    <3>1. rest[m] = IF m <= Len(a) THEN a[m] ELSE b[m - Len(a)]
      BY <1>1, <1>2, <1>3, <2>1, ConcatProperties
    <3>2. CASE m < i
      BY <1>1, <3>1, <3>2
    <3>3. CASE ~(m < i)
      <4>1. m - (i - 1) \in 1 .. Len(q) - i /\ m - (i - 1) + i = m + 1
        BY <2>1, <3>3
      <4> QED BY <1>1, <1>2, <3>1, <3>3, <4>1
    <3> QED BY <3>2, <3>3
  <2> QED BY <2>1, <2>2
<1>5. ASSUME NEW m \in 1 .. Len(rest) PROVE \E n \in 1 .. Len(q) : n # i /\ rest[m] = q[n]
  <2>1. CASE m < i
    BY <1>4, <2>1
  <2>2. CASE ~(m < i)
    <3>1. m + 1 \in 1 .. Len(q) /\ m + 1 # i /\ rest[m] = q[m + 1]
      BY <1>4, <2>2
    <3> QED BY <3>1
  <2> QED BY <2>1, <2>2
<1>6. ASSUME NEW m \in 1 .. Len(rest), NEW n \in 1 .. Len(rest), rest[m] = rest[n] PROVE m = n
  BY <1>4, <1>6, SMTT(20) DEF OnceEach
<1> QED BY <1>4, <1>5, <1>6 DEF OnceEach, Fewer

LEMMA GiveUpKeeps ==
  ASSUME LeaseInv, NEW g \in Calls, GiveUp(g)
  PROVE  LeaseInv'
<1>0. PICK x \in Channels : x = call[g].under
  BY DEF LeaseInv, LeaseTypeOK, Placed, CallRecords, GiveUp, At
<1>1. call[g].pc \in {"wait", "queued"} /\ Sets(g, Resting)
  BY DEF GiveUp, At
<1>2. /\ Resting \in CallRecords /\ Placed(Resting)
      /\ \A y \in Channels : ~Holds(Resting, y) /\ ~Holds(call[g], y)
  BY <1>1, RestingIs DEF Holds, Resting
<1>3. /\ \A h \in Calls \ {g} : call'[h] = call[h]
      /\ call'[g] = Resting
  BY <1>1 DEF LeaseInv, LeaseTypeOK, Sets
<1>4. CASE At(g, "wait") /\ UNCHANGED queue
  <2>1. ~At(g, "queued") /\ UNCHANGED <<limits, permits, chanVars, views, changes>>
        /\ free' \in [Providers -> Nat]
    BY <1>4 DEF At, GiveUp, chanVars, LeaseInv, LeaseTypeOK
  <2> QED BY <1>1, <1>2, <2>1, Moves
<1>5. CASE \E i \in DOMAIN queue[call[g].under] :
             /\ queue[call[g].under][i] = g
             /\ queue' = [queue EXCEPT ![call[g].under] = RemoveAt(@, i)]
  <2>1. PICK i \in DOMAIN queue[x] : queue[x][i] = g /\ queue' = [queue EXCEPT ![x] = RemoveAt(@, i)]
    BY <1>0, <1>5
  <2>2. queue[x] \in Seq(Calls) /\ queue \in [Channels -> Seq(Calls)] /\ i \in 1 .. Len(queue[x])
    BY <2>1 DEF LeaseInv, LeaseTypeOK
  <2>3. OnceEach(queue[x])
    BY DEF LeaseInv, InLine, OnceEach
  <2>4. queue'[x] = RemoveAt(queue[x], i) /\ \A y \in Channels \ {x} : queue'[y] = queue[y]
    BY <2>1, <2>2
  <2>5. queue'[x] \in Seq(Calls) /\ Fewer(queue'[x], queue[x], i)
    BY ONLY <2>2, <2>3, <2>4, LeavesLine
  <2>6. Beside(x)
    BY <2>1, <2>2, <2>4, <2>5 DEF LeaseInv, LeaseTypeOK, Beside, GiveUp
  <2>7. InLine(x)'
    <3>1. \A m \in 1 .. Len(queue'[x]) : call'[queue'[x][m]].pc = "queued" /\ call'[queue'[x][m]].under = x
      <4> TAKE m \in 1 .. Len(queue'[x])
      <4>1. PICK n \in 1 .. Len(queue[x]) : n # i /\ queue'[x][m] = queue[x][n]
        BY <2>5 DEF Fewer
      <4>2. queue[x][n] \in Calls /\ queue[x][n] # g
        BY <2>1, <2>2, <2>3, <4>1 DEF OnceEach
      <4>3. call[queue[x][n]].pc = "queued" /\ call[queue[x][n]].under = x
        BY DEF LeaseInv, InLine, At
      <4> QED BY <1>3, <4>1, <4>2, <4>3
    <3> QED BY <2>5, <3>1 DEF InLine, At, Fewer, OnceEach
  <2>8. /\ taken' = taken /\ size' = size
        /\ UNCHANGED <<limits, permits, views, free, changes>>
    BY DEF GiveUp
  <2>9. taken'[x] <= size'[x] /\ Sized' /\ permits' \in [Streams -> [Providers -> Channels \union {None}]]
    BY <2>8 DEF LeaseInv, LeaseTypeOK, Sized
  <2>10. taken'[x] = Cardinality(Held(call', x))
    <3>1. Held(call', x) = Held(call, x)
      BY <1>2, <1>3 DEF Held
    <3> QED BY <2>8, <3>1, HoldersAre DEF LeaseInv, PermitsCounted
  <2>11. free' \in [Providers -> Nat] /\ UNCHANGED <<limits, views, changes>>
    BY <2>8 DEF LeaseInv, LeaseTypeOK
  <2> QED BY <1>0, <1>1, <1>2, <2>6, <2>7, <2>9, <2>10, <2>11, TouchesOne
<1> QED BY <1>4, <1>5 DEF GiveUp

-------------------------------------------------------------------------------
(* A permit goes back. *)

LEMMA ReleaseKeeps ==
  ASSUME LeaseInv, NEW g \in Calls, call[g].pc \in {"get", "use"}, NEW r \in CallRecords,
         Placed(r), r.under = None, Release(g, r),
         UNCHANGED <<limits, permits, views, changes>>, free' \in [Providers -> Nat]
  PROVE  LeaseInv'
<1> DEFINE c == call[g].under
<1>1. /\ call \in [Calls -> CallRecords] /\ c \in Channels \union {None}
      /\ ~At(g, "queued") /\ \A y \in Channels : ~Holds(r, y)
  BY LeaseAssumption DEF LeaseInv, LeaseTypeOK, CallRecords, At, Holds
<1>2. CASE c = None /\ Sets(g, r) /\ UNCHANGED chanVars
  <2>1. \A y \in Channels : Holds(r, y) <=> Holds(call[g], y)
    BY <1>1, <1>2, LeaseAssumption DEF Holds
  <2> QED BY <1>1, <1>2, <2>1, Moves
<1>3. ASSUME NEW x \in Channels, x = c, Sets(g, r), queue[x] = <<>>,
             taken' = [taken EXCEPT ![x] = @ - 1], UNCHANGED <<size, queue>>
      PROVE  LeaseInv'
  <2>1. /\ \A h \in Calls \ {g} : call'[h] = call[h]
        /\ call'[g] = r
    BY <1>1, <1>3 DEF Sets
  <2>2. Holds(call[g], x)
    BY <1>3 DEF Holds
  <2>3. Cardinality(Held(call', x)) = Cardinality(Held(call, x)) - 1
    BY <1>1, <2>1, <2>2, HeldAfter
  <2>4. taken[x] = Cardinality(Held(call, x)) /\ Cardinality(Held(call', x)) \in Nat
    BY HoldersAre, FiniteHeld DEF LeaseInv, PermitsCounted
  <2>5. /\ taken'[x] = Cardinality(Held(call', x)) /\ taken'[x] = taken[x] - 1
        /\ taken[x] \in Nat /\ size[x] \in Nat /\ taken[x] <= size[x]
    BY <1>3, <2>3, <2>4 DEF LeaseInv, LeaseTypeOK
  <2>6. Beside(x)
    BY <1>3, <2>4, <2>5 DEF Beside, LeaseInv, LeaseTypeOK
  <2>7. InLine(x)'
    BY <1>3 DEF InLine
  <2>8. \A y \in Channels \ {x} : Holds(r, y) <=> Holds(call[g], y)
    BY <1>1, <1>3 DEF Holds
  <2>9. Sized' /\ permits' \in [Streams -> [Providers -> Channels \union {None}]]
    BY <1>3 DEF LeaseInv, LeaseTypeOK, Sized
  <2>10. taken'[x] <= size'[x]
    <3>1. size'[x] = size[x]
      BY <1>3
    <3> QED BY ONLY <2>5, <3>1
  <2> QED BY <1>1, <1>3, <2>5, <2>6, <2>7, <2>8, <2>9, <2>10, TouchesOne
<1>4. ASSUME NEW x \in Channels, x = c, queue[x] # <<>>,
             call' = [call EXCEPT ![g] = r, ![Head(queue[x])] = [@ EXCEPT !.pc = "get"]],
             queue' = [queue EXCEPT ![x] = Tail(@)], UNCHANGED <<size, taken>>
      PROVE  LeaseInv'
  <2> DEFINE q == queue[x]
  <2>1. PICK next : next = Head(queue[x])
    OBVIOUS
  <2>2. /\ q \in Seq(Calls) /\ Len(q) \in Nat /\ Len(q) > 0 /\ next = q[1] /\ next \in Calls
        /\ call[next].pc = "queued" /\ call[next].under = x /\ next # g
    <3>1. q \in Seq(Calls) /\ q # <<>>
      BY <1>4 DEF LeaseInv, LeaseTypeOK
    <3>2. Len(q) \in Nat /\ Len(q) > 0 /\ next = q[1] /\ next \in Calls
      BY <2>1, <3>1
    <3>3. call[q[1]].pc = "queued" /\ call[q[1]].under = x
      BY <3>2 DEF LeaseInv, InLine, At
    <3> QED BY <3>1, <3>2, <3>3
  <2> DEFINE n == [call[next] EXCEPT !.pc = "get"]
  <2>3. /\ n \in CallRecords /\ Placed(n) /\ n.pc = "get" /\ n.under = x
    BY <1>1, <2>2, ZenonT(30) DEF CallRecords, LeaseInv, Placed
  <2>4. /\ call'[g] = r /\ call'[next] = n
        /\ \A h \in Calls \ {g, next} : call'[h] = call[h]
        /\ call' \in [Calls -> CallRecords]
    BY <1>1, <1>4, <2>1, <2>2, <2>3
  <2> HIDE DEF n
  <2>5. /\ queue'[x] = Tail(q) /\ \A y \in Channels \ {x} : queue'[y] = queue[y]
        /\ queue' \in [Channels -> Seq(Calls)]
    BY <1>4, <2>2 DEF LeaseInv, LeaseTypeOK
  <2>6. LeaseTypeOK'
    BY <1>4, <2>4, <2>5 DEF LeaseInv, LeaseTypeOK
  <2>7. \A h \in Calls : Placed(call'[h])
    BY <2>3, <2>4 DEF LeaseInv
  <2>8. Sized'
    BY <1>4 DEF LeaseInv, Sized
  <2>9. InLine(x)'
    <3>1. Len(queue'[x]) = Len(q) - 1 /\ \A i \in 1 .. Len(queue'[x]) : queue'[x][i] = q[i + 1]
      BY <2>2, <2>5
    <3>2. /\ \A i \in 1 .. Len(q) : /\ call[q[i]].pc = "queued" /\ call[q[i]].under = x
                                    /\ q[i] \in Calls /\ q[i] # g
          /\ \A i, j \in 1 .. Len(q) : q[i] = q[j] => i = j
      BY <2>2 DEF LeaseInv, InLine, At
    <3>3. \A i \in 1 .. Len(queue'[x]) : call'[queue'[x][i]].pc = "queued" /\ call'[queue'[x][i]].under = x
      <4> TAKE i \in 1 .. Len(queue'[x])
      <4>1. i + 1 \in 1 .. Len(q) /\ i + 1 # 1 /\ 1 \in 1 .. Len(q)
        BY <2>2, <3>1
      <4>2. q[i + 1] \in Calls \ {g, next}
        BY <2>2, <3>2, <4>1
      <4> QED BY <2>4, <3>1, <3>2, <4>1, <4>2
    <3>4. \A i, j \in 1 .. Len(queue'[x]) : queue'[x][i] = queue'[x][j] => i = j
      BY <2>2, <3>1, <3>2
    <3> QED BY <3>3, <3>4 DEF InLine, At
  <2>10. ASSUME NEW y \in Channels \ {x} PROVE InLine(y)'
    <3>1. \A i \in 1 .. Len(queue[y]) : queue[y][i] \in Calls \ {g, next}
      <4> TAKE i \in 1 .. Len(queue[y])
      <4>1. queue[y] \in Seq(Calls) /\ InLine(y)
        BY DEF LeaseInv, LeaseTypeOK
      <4>2. call[queue[y][i]].pc = "queued" /\ call[queue[y][i]].under = y
        BY <4>1 DEF InLine, At
      <4> QED BY <2>2, <4>1, <4>2
    <3>2. InLine(y) /\ queue'[y] = queue[y]
      BY <2>5 DEF LeaseInv
    <3> QED BY <2>4, <3>1, <3>2 DEF InLine, At
  <2>11. Cardinality(Held(call', x)) = Cardinality(Held(call, x))
    <3>1. g \in Held(call, x) /\ next \notin Held(call, x)
      BY <1>4, <2>2 DEF Held, Holds
    <3>2. Holds(n, x) /\ ~Holds(r, x)
      BY <1>1, <2>3 DEF Holds
    <3>3. Held(call', x) = (Held(call, x) \ {g}) \union {next}
      BY <2>2, <2>4, <3>1, <3>2 DEF Held
    <3>4. /\ IsFiniteSet(Held(call, x)) /\ Cardinality(Held(call, x)) \in Nat
          /\ IsFiniteSet(Held(call, x) \ {g})
          /\ Cardinality(Held(call, x) \ {g}) = Cardinality(Held(call, x)) - 1
      BY <3>1, FiniteHeld, FS_RemoveElement
    <3>5. Cardinality(Held(call', x)) = Cardinality(Held(call, x) \ {g}) + 1
      BY <3>1, <3>3, <3>4, FS_AddElement
    <3> QED BY <3>4, <3>5
  <2>12. ASSUME NEW y \in Channels \ {x} PROVE Held(call', y) = Held(call, y)
    <3>1. ~Holds(n, y) /\ ~Holds(r, y) /\ ~Holds(call[g], y) /\ ~Holds(call[next], y)
      BY <1>1, <1>4, <2>2, <2>3 DEF Holds
    <3> QED BY <2>2, <2>4, <3>1 DEF Held
  <2>13. PermitsCounted'
    <3> SUFFICES ASSUME NEW y \in Channels PROVE taken'[y] = Cardinality(Held(call', y))
      BY HoldersAre DEF PermitsCounted
    <3>1. taken[y] = Cardinality(Held(call, y)) /\ taken' = taken
      BY <1>4, HoldersAre DEF LeaseInv, PermitsCounted
    <3> QED BY <2>11, <2>12, <3>1
  <2>14. \A y \in Channels : taken'[y] <= size'[y]
    BY <1>4 DEF LeaseInv
  <2> QED BY <2>6, <2>7, <2>8, <2>9, <2>10, <2>13, <2>14 DEF LeaseInv
<1> QED BY <1>1, <1>2, <1>3, <1>4 DEF Release

-------------------------------------------------------------------------------
(* The actions. *)

LEMMA SubsetKeeps ==
  ASSUME LeaseInv, NEW s \in Streams, NEW wanted \in Settings, SubsetForLease(s, wanted)
  PROVE  LeaseInv'
<1>1. wanted \in [Providers -> Nat] /\ changes' \in Nat /\ UNCHANGED <<chanVars, call, free>>
      /\ changes' = changes + 1
  BY LeaseAssumption DEF SubsetForLease, LeaseInv, LeaseTypeOK
<1>2. views' \in [Streams -> SUBSET {"limited", "free"}]
  <2>1. PICK kind \in {"limited", "free"} : views' = [views EXCEPT ![s] = @ \union {kind}]
    BY DEF SubsetForLease
  <2>2. views \in [Streams -> SUBSET {"limited", "free"}]
    BY DEF LeaseInv, LeaseTypeOK
  <2>3. views[s] \union {kind} \in SUBSET {"limited", "free"}
    BY <2>2
  <2> QED BY <2>1, <2>2, <2>3
<1>3. /\ limits' \in [Streams -> [Providers -> Nat]]
      /\ permits' \in [Streams -> [Providers -> Channels \union {None}]]
      /\ Sized'
  <2>1. CASE UNCHANGED <<limits, permits>>
    BY <1>1, <2>1 DEF chanVars, LeaseInv, LeaseTypeOK, Sized
  <2>2. CASE ApplyLimits(s, wanted)
    <3>1. /\ limits' = [limits EXCEPT ![s] = wanted]
          /\ permits' = [permits EXCEPT ![s] =
                          [p \in Providers |-> IF wanted[p] = limits[s][p] THEN permits[s][p] ELSE None]]
      BY <2>2 DEF ApplyLimits
    <3>2. limits' \in [Streams -> [Providers -> Nat]]
      BY <1>1, <3>1 DEF LeaseInv, LeaseTypeOK
    <3>3. \A t \in Streams, p \in Providers :
            /\ permits'[t][p] # None => permits'[t][p] = permits[t][p] /\ limits'[t][p] = limits[t][p]
            /\ permits'[t][p] \in Channels \union {None}
      BY <1>1, <3>1 DEF LeaseInv, LeaseTypeOK
    <3>4. permits' \in [Streams -> [Providers -> Channels \union {None}]]
      BY <3>1 DEF LeaseInv, LeaseTypeOK
    <3> QED BY <1>1, <3>2, <3>3, <3>4 DEF Sized, LeaseInv, chanVars
  <2> QED BY <2>1, <2>2 DEF SubsetForLease
<1>4. LeaseTypeOK'
  BY <1>1, <1>2, <1>3 DEF LeaseInv, LeaseTypeOK, chanVars
<1>5. PermitsCounted' /\ \A x \in Channels : InLine(x)' /\ taken'[x] <= size'[x]
  BY <1>1 DEF LeaseInv, chanVars, PermitsCounted, Holders, InLine, At
<1>6. \A g \in Calls : Placed(call'[g])
  BY <1>1 DEF LeaseInv
<1> QED BY <1>3, <1>4, <1>5, <1>6 DEF LeaseInv

LEMMA BeginKeeps ==
  ASSUME LeaseInv, NEW g \in Calls, NEW s \in Streams, NEW kind \in {"limited", "free"},
         Begin(g, s, kind)
  PROVE  LeaseInv'
<1> DEFINE limited == kind = "limited"
<1>0. limited \in BOOLEAN
  OBVIOUS
<1> HIDE DEF limited
<1> DEFINE r == [Resting EXCEPT !.pc = "look", !.stream = s, !.limited = limited]
<1>1. /\ r \in CallRecords /\ r.pc = "look" /\ r.stream = s /\ r.under = None
  BY <1>0, RestingIs, ZenonT(30) DEF CallRecords
<1>2. Placed(r)
  BY <1>1 DEF Placed
<1>3. Sets(g, r) /\ call[g].pc = "off" /\ call[g].under = None
  BY DEF Begin, At, LeaseInv, Placed, limited
<1>4. \A x \in Channels : Holds(r, x) <=> Holds(call[g], x)
  BY <1>1, <1>3 DEF Holds
<1>5. /\ UNCHANGED <<limits, permits, chanVars, views, changes>>
      /\ free' \in [Providers -> Nat] /\ ~At(g, "queued")
  BY <1>3 DEF Begin, At, LeaseInv, LeaseTypeOK
<1> HIDE DEF r
<1> QED BY <1>1, <1>2, <1>3, <1>4, <1>5, Moves

\* On to another provider, without a permit.
LEMMA OnwardKeeps ==
  ASSUME LeaseInv, NEW g \in Calls, call[g].pc \in {"look", "try"}, NEW c \in CallRecords,
         c.stream \in Streams, Sets(g, Onward(c)),
         UNCHANGED <<limits, permits, chanVars, views, free, changes>>
  PROVE  LeaseInv'
<1>1. PICK r : r = Onward(c)
  OBVIOUS
<1>2. r \in CallRecords /\ Placed(r) /\ r.under = None /\ Sets(g, r)
  BY <1>1, OnwardIs
<1>3. \A x \in Channels : Holds(r, x) <=> Holds(call[g], x)
  BY <1>2, LeaseAssumption DEF Holds
<1>4. free' \in [Providers -> Nat] /\ ~At(g, "queued")
  BY DEF At, LeaseInv, LeaseTypeOK
<1> QED BY <1>2, <1>3, <1>4, Moves

LEMMA SkipKeeps ==
  ASSUME LeaseInv, NEW g \in Calls, Skip(g)
  PROVE  LeaseInv'
<1>1. call[g] \in CallRecords /\ call[g].stream \in Streams /\ call[g].pc = "look"
  BY DEF LeaseInv, LeaseTypeOK, Placed, Skip, At
<1> QED BY <1>1, OnwardKeeps DEF Skip

LEMMA CappedOutKeeps ==
  ASSUME LeaseInv, NEW g \in Calls, CappedOut(g)
  PROVE  LeaseInv'
<1> DEFINE c == [call[g] EXCEPT !.capped = IF @ = None THEN call[g].with ELSE @]
<1>1. call[g] \in CallRecords /\ call[g].stream \in Streams /\ call[g].pc = "try"
  BY DEF LeaseInv, LeaseTypeOK, Placed, CappedOut, At
<1>2. c \in CallRecords /\ c.stream \in Streams
  BY <1>1 DEF CallRecords
<1>3. Sets(g, Onward(c)) /\ UNCHANGED <<limits, permits, chanVars, views, free, changes>>
  BY DEF CappedOut
<1> HIDE DEF c
<1> QED BY <1>1, <1>2, <1>3, OnwardKeeps

LEMMA AsksKeep ==
  ASSUME LeaseInv, NEW g \in Calls, TryPermit(g) \/ AskPermit(g)
  PROVE  LeaseInv'
<1>1. call[g] \in CallRecords /\ Placed(call[g])
  BY DEF LeaseInv, LeaseTypeOK
<1>2. CASE TryPermit(g)
  <2>1. Order[call[g].at] \in Providers
    BY <1>1, LeaseAssumption DEF CallRecords
  <2> QED BY <1>2, <2>1, SemaphoreKeeps DEF TryPermit, At
<1>3. CASE AskPermit(g)
  <2>1. call[g].capped \in Providers
    BY <1>1, <1>3 DEF AskPermit, At, Placed, CallRecords
  <2> QED BY <1>3, <2>1, SemaphoreKeeps DEF AskPermit, At
<1> QED BY <1>2, <1>3

LEMMA PermittedKeeps ==
  ASSUME LeaseInv, NEW g \in Calls, Permitted(g) \/ PermittedLate(g)
  PROVE  LeaseInv'
  BY TakeKeeps DEF Permitted, PermittedLate, At

LEMMA ConnectKeeps ==
  ASSUME LeaseInv, NEW g \in Calls, Connect(g)
  PROVE  LeaseInv'
<1> DEFINE r == [call[g] EXCEPT !.pc = "use"]
<1>1. /\ call[g] \in CallRecords /\ call[g].stream \in Streams /\ call[g].pc = "get"
  BY DEF LeaseInv, LeaseTypeOK, Placed, Connect, At
<1>2. r \in CallRecords /\ r.pc = "use" /\ r.under = call[g].under /\ r.stream = call[g].stream
  BY <1>1 DEF CallRecords
<1>3. Placed(r) /\ \A x \in Channels : Holds(r, x) <=> Holds(call[g], x)
  BY <1>1, <1>2 DEF Placed, Holds
<1>4. Sets(g, r) /\ UNCHANGED <<limits, permits, chanVars, views, changes>> /\ ~At(g, "queued")
  BY <1>1 DEF Connect, At
<1>5. free' \in [Providers -> Nat]
  <2>1. /\ free \in [Providers -> Nat] /\ free[call[g].with] > 0
        /\ free' = [free EXCEPT ![call[g].with] = @ - 1]
    BY DEF Connect, LeaseInv, LeaseTypeOK
  <2>2. call[g].with \in Providers => free[call[g].with] - 1 \in Nat
    BY <2>1
  <2> QED BY <2>1, <2>2
<1> HIDE DEF r
<1> QED BY <1>2, <1>3, <1>4, <1>5, Moves

LEMMA GivesBackKeep ==
  ASSUME LeaseInv, NEW g \in Calls, Refused(g) \/ Canceled(g) \/ Return(g)
  PROVE  LeaseInv'
<1>1. /\ call[g] \in CallRecords /\ call[g].pc \in {"get", "use"}
      /\ UNCHANGED <<limits, permits, views, changes>>
  BY DEF LeaseInv, LeaseTypeOK, Refused, Canceled, Return, At
<1>2. call[g].stream \in Streams
  BY <1>1 DEF LeaseInv, Placed
<1>3. PICK r \in CallRecords : Placed(r) /\ r.under = None /\ Release(g, r)
  <2>1. CASE Refused(g)
    BY <1>1, <1>2, <2>1, OnwardIs DEF Refused
  <2>2. CASE Canceled(g) \/ Return(g)
    BY <2>2, RestingIs DEF Canceled, Return
  <2> QED BY <2>1, <2>2
<1>4. free' \in [Providers -> Nat]
  <2>1. CASE Refused(g) \/ Canceled(g)
    BY <2>1 DEF Refused, Canceled, LeaseInv, LeaseTypeOK
  <2>2. CASE Return(g)
    <3>1. /\ free \in [Providers -> Nat]
          /\ free' = [free EXCEPT ![call[g].with] = @ + 1]
      BY <2>2 DEF Return, LeaseInv, LeaseTypeOK
    <3>2. call[g].with \in Providers => free[call[g].with] + 1 \in Nat
      BY <3>1
    <3> QED BY <3>1, <3>2
  <2> QED BY <2>1, <2>2
<1> QED BY <1>1, <1>3, <1>4, ReleaseKeeps

-------------------------------------------------------------------------------
(* The theorems. *)

LEMMA LeaseStarts == LeaseInit => LeaseInv
<1> SUFFICES ASSUME LeaseInit PROVE LeaseInv
  OBVIOUS
<1>1. Resting \in CallRecords /\ Placed(Resting) /\ Uncapped \in [Providers -> Nat]
  BY RestingIs DEF Uncapped
<1>2. LeaseTypeOK
  BY <1>1, LeaseAssumption DEF LeaseInit, LeaseTypeOK
<1>3. \A g \in Calls : Placed(call[g])
  BY <1>1 DEF LeaseInit
<1>4. Sized
  BY DEF LeaseInit, Sized
<1>5. \A x \in Channels : InLine(x) /\ taken[x] <= size[x]
  BY DEF LeaseInit, InLine
<1>6. PermitsCounted
  <2>1. \A x \in Channels : Holders(x) = {}
    BY RestingIs, LeaseAssumption DEF LeaseInit, Holders
  <2> QED BY <2>1, FS_EmptySet DEF LeaseInit, PermitsCounted
<1> QED BY <1>2, <1>3, <1>4, <1>5, <1>6 DEF LeaseInv

LEMMA LeaseStep == LeaseInv /\ [LeaseNext]_vars => LeaseInv'
<1> SUFFICES ASSUME LeaseInv, [LeaseNext]_vars PROVE LeaseInv'
  OBVIOUS
<1>1. CASE UNCHANGED vars
  BY <1>1 DEF vars, chanVars, LeaseInv, LeaseTypeOK, Sized, InLine, At, PermitsCounted, Holders
<1>2. CASE \E s \in Streams, wanted \in Settings : SubsetForLease(s, wanted)
  BY <1>2, SubsetKeeps
<1>3. CASE \E g \in Calls, s \in Streams, kind \in {"limited", "free"} : Begin(g, s, kind)
  BY <1>3, BeginKeeps
<1>4. CASE \E g \in Calls : Walk(g)
  BY <1>4, SkipKeeps, CappedOutKeeps, AsksKeep, PermittedKeeps, QueuesKeeps DEF Walk
<1>5. CASE \E g \in Calls : GiveUp(g) \/ Connect(g)
  BY <1>5, GiveUpKeeps, ConnectKeeps
<1>6. CASE \E g \in Calls : Refused(g) \/ Canceled(g) \/ Return(g)
  BY <1>6, GivesBackKeep
<1> QED BY <1>1, <1>2, <1>3, <1>4, <1>5, <1>6 DEF LeaseNext

\* The inductive invariant holds: who is in a channel's queue waits there once, a semaphore in
\* force has the size of its limit, and a channel counts exactly the calls that hold a permit.
THEOREM LeaseInvariant == LeaseSpec => []LeaseInv
  BY LeaseStarts, LeaseStep, PTL DEF LeaseSpec

\* Every variable keeps its type (the limiter's maps, its channels and getConnection's locals).
THEOREM LeaseTypes == LeaseSpec => []LeaseTypeOK
<1>1. LeaseInv => LeaseTypeOK
  BY DEF LeaseInv
<1> QED BY <1>1, LeaseInvariant, PTL

\* However limits change under them, the permits out of a channel are those of the calls that
\* hold it: getConnection, release and discard give back each permit once, where it came from.
THEOREM PermitsAreCounted == LeaseSpec => []PermitsCounted
<1>1. LeaseInv => PermitsCounted
  BY DEF LeaseInv
<1> QED BY <1>1, LeaseInvariant, PTL

\* A stream never holds more permits of the semaphore in force than its limit at that provider.
THEOREM CapsHold == LeaseSpec => []CapHolds
<1>1. LeaseInv => CapHolds
  <2> SUFFICES ASSUME LeaseInv, NEW s \in Streams, NEW p \in Providers, permits[s][p] # None
               PROVE  Cardinality(Holders(permits[s][p])) <= limits[s][p]
    BY DEF CapHolds
  <2>1. permits[s][p] \in Channels
    BY DEF LeaseInv, LeaseTypeOK
  <2> QED BY <2>1 DEF LeaseInv, PermitsCounted, Sized
<1> QED BY <1>1, LeaseInvariant, PTL
===============================================================================
