---------------------------- MODULE DownloadProofs ----------------------------
(***************************************************************************)
(* What SegmentDownload promises for any readers and windows and for files *)
(* of any length.                                                          *)
(***************************************************************************)
EXTENDS SegmentDownload, FiniteSetTheorems, TLAPS

ReaderRecord ==
  [life : {"open", "closed"}, pc : {"idle", "ask", "wait", "jump", "claim"}, seg : 0 .. Count,
   have : BOOLEAN, window : 0 .. Count, marked : BOOLEAN, old : 0 .. Count,
   want : Segments, counts : BOOLEAN, tries : 0 .. MaxJoins, told : Verdicts \cup {"none"}]

RequestRecord ==
  [stage : {"none", "piped", "fetch"}, counts : BOOLEAN, cut : BOOLEAN]

\* A real read asks for the segment it stands at; who waits without an answer waits for a
\* request that is registered, and that counts if the read does.
Stands(x) == x.pc \in {"ask", "wait"} /\ x.counts => x.want = x.seg

Waits(x) ==
  x.pc = "wait" /\ x.told = "none" =>
    Running(x.want) /\ (x.counts => req[x.want].counts)

ReadersSound ==
  /\ rd \in [Readers -> ReaderRecord]
  /\ \A r \in Readers : Stands(rd[r]) /\ Waits(rd[r])

RestSound ==
  /\ spawned \subseteq Segments /\ abandoned \subseteq SUBSET Segments
  /\ zeroFilled \subseteq Segments \ {0} /\ runFailed \in BOOLEAN

DownloadInv ==
  /\ ReadersSound
  /\ req \in [Segments -> RequestRecord]
  /\ RestSound
  /\ HolesCapped

-------------------------------------------------------------------------------
(* Holes and their runs.                                                   *)

\* A hole is part of its own run whether it is counted among the holes yet or not.
LEMMA RunSame ==
  ASSUME NEW holes \in SUBSET Segments, NEW s \in Segments
  PROVE  RunAround(s, holes \cup {s}) = RunAround(s, holes)
<1>1. Count \in Nat
  BY DownloadAssumption
<1> QED
  BY <1>1 DEF RunAround, Segments

\* A new hole joins runs into one, which is its own, and leaves the others as they are.
LEMMA RunsJoin ==
  ASSUME NEW holes \in SUBSET Segments, NEW s \in Segments, NEW t \in holes
  PROVE  \/ RunAround(t, holes \cup {s}) = RunAround(s, holes)
         \/ RunAround(t, holes \cup {s}) = RunAround(t, holes)
<1>1. Count \in Nat
  BY DownloadAssumption
<1>2. PICK all \in SUBSET Segments : all = holes \cup {s}
  OBVIOUS
<1>3. CASE s \in RunAround(t, all)
  <2>1. ASSUME NEW i \in RunAround(t, all) PROVE i \in RunAround(s, all)
    BY <1>1, <1>2, <1>3, <2>1 DEF RunAround, Segments
  <2>2. ASSUME NEW i \in RunAround(s, all) PROVE i \in RunAround(t, all)
    BY <1>1, <1>2, <1>3, <2>2 DEF RunAround, Segments
  <2>3. RunAround(t, all) = RunAround(s, all)
    BY <2>1, <2>2
  <2> QED
    BY <1>2, <2>3, RunSame
<1>4. CASE s \notin RunAround(t, all)
  <2>1. ASSUME NEW i \in RunAround(t, all) PROVE i \in RunAround(t, holes)
    BY <1>1, <1>2, <1>4, <2>1 DEF RunAround, Segments
  <2>2. ASSUME NEW i \in RunAround(t, holes) PROVE i \in RunAround(t, all)
    BY <1>2, <2>2 DEF RunAround
  <2> QED
    BY <1>2, <2>1, <2>2
<1> QED
  BY <1>3, <1>4

LEMMA SegmentsFinite == IsFiniteSet(Segments)
<1>1. Count - 1 \in Int
  BY DownloadAssumption
<1> QED
  BY <1>1, FS_Interval DEF Segments

\* A hole that is zero-filled, or found to make its run too long, keeps the caps.
LEMMA HoleKeepsCaps ==
  ASSUME RestSound, HolesCapped, NEW s \in Segments, NEW counts,
         NEW verdict, verdict = HoleVerdict(s, counts), verdict \in {"zeros", "run"},
         zeroFilled' = zeroFilled \cup {s}, runFailed' = (runFailed \/ verdict = "run")
  PROVE  HolesCapped'
<1>1. /\ s # 0
      /\ s \in zeroFilled \/ ~(Cardinality(zeroFilled) >= MaxZeroFills)
      /\ verdict = "zeros" => ~(Cardinality(RunAround(s, zeroFilled)) > MaxZeroFillRun)
  BY DEF HoleVerdict
<1>2. zeroFilled \in SUBSET Segments /\ IsFiniteSet(zeroFilled)
  BY SegmentsFinite, FS_Subset DEF RestSound
<1>3. Cardinality(zeroFilled) \in Nat /\ MaxZeroFills \in Nat
  BY <1>2, FS_CardinalityType, DownloadAssumption
<1>4. Cardinality(zeroFilled') <= MaxZeroFills
  <2>1. CASE s \in zeroFilled
    <3>1. zeroFilled' = zeroFilled
      BY <2>1
    <3> QED
      BY <3>1 DEF HolesCapped
  <2>2. CASE s \notin zeroFilled
    <3>1. Cardinality(zeroFilled \cup {s}) = Cardinality(zeroFilled) + 1
      BY <1>2, <2>2, FS_AddElement
    <3> QED
      BY <1>1, <1>3, <2>2, <3>1
  <2> QED
    BY <2>1, <2>2
<1>5. ASSUME verdict = "zeros", ~runFailed, NEW t \in zeroFilled'
      PROVE  ~(Cardinality(RunAround(t, zeroFilled')) > MaxZeroFillRun)
  <2>1. CASE t = s
    BY <1>1, <1>2, <1>5, <2>1, RunSame
  <2>2. CASE t \in zeroFilled
    <3>1. ~(Cardinality(RunAround(t, zeroFilled)) > MaxZeroFillRun)
      BY <1>5, <2>2 DEF HolesCapped
    <3> QED
      BY <1>1, <1>2, <1>5, <2>2, <3>1, RunsJoin
  <2> QED
    BY <1>5, <2>1, <2>2
<1>6. (\E t \in zeroFilled' : Cardinality(RunAround(t, zeroFilled')) > MaxZeroFillRun) => runFailed'
  BY <1>5
<1> QED
  BY <1>4, <1>6 DEF HolesCapped, RunAround

-------------------------------------------------------------------------------
(* Requests.                                                               *)

\* A step that takes nothing from whoever waits: a request goes on and, once it counts,
\* counts on; and no real read is canceled.
Kindly ==
  /\ req' \in [Segments -> RequestRecord]
  /\ \A s \in Segments :
       /\ Running(s) => Running(s)'
       /\ Running(s) /\ req[s].counts => req'[s].counts
       /\ req[s].counts /\ req'[s].cut => req[s].cut

LEMMA SameKindly ==
  ASSUME req \in [Segments -> RequestRecord], req' = req
  PROVE  Kindly
BY DEF Kindly, Running

\* Whoever joins finds a request afterwards, and a real read one that counts.
LEMMA JoinKindly ==
  ASSUME req \in [Segments -> RequestRecord], NEW s \in Segments, NEW counts \in BOOLEAN,
         req' = [req EXCEPT ![s] = Joined(s, counts)]
  PROVE  Kindly /\ Running(s)' /\ (counts => req'[s].counts)
<1>1. PICK q : q = Joined(s, counts)
  OBVIOUS
<1>2. /\ q \in RequestRecord /\ q.stage # "none"
      /\ counts => q.counts
      /\ Running(s) /\ req[s].counts => q.counts
      /\ q.cut => Running(s) /\ req[s].cut
  <2>1. CASE Running(s)
    <3>1. req[s] \in RequestRecord /\ req[s].stage # "none"
      BY <2>1 DEF Running
    <3>2. q = [req[s] EXCEPT !.counts = req[s].counts \/ counts]
      BY <1>1, <2>1 DEF Joined
    <3> QED
      BY <2>1, <3>1, <3>2 DEF RequestRecord
  <2>2. CASE ~Running(s)
    <3>1. q = [stage |-> "fetch", counts |-> counts, cut |-> FALSE]
      BY <1>1, <2>2 DEF Joined
    <3> QED
      BY <2>2, <3>1 DEF RequestRecord
  <2> QED
    BY <2>1, <2>2
<1>3. /\ req' \in [Segments -> RequestRecord] /\ req'[s] = q
      /\ \A t \in Segments \ {s} : req'[t] = req[t]
  BY <1>1, <1>2
<1> QED
  BY <1>2, <1>3 DEF Kindly, Running

\* Canceling what no real read is part of.
LEMMA CutKindly ==
  ASSUME req \in [Segments -> RequestRecord], NEW segments,
         \A s \in segments : s \in Segments => Readerless(s), req' = Cut(segments)
  PROVE  /\ Kindly
         /\ \A s \in Segments \ segments : req'[s] = req[s]
<1>1. ASSUME NEW s \in Segments
      PROVE  /\ req'[s] \in RequestRecord
             /\ req'[s].stage = req[s].stage /\ req'[s].counts = req[s].counts
             /\ req'[s].cut <=> req[s].cut \/ s \in segments
             /\ s \notin segments => req'[s] = req[s]
  <2>1. req[s] \in RequestRecord
    OBVIOUS
  <2>2. PICK c \in BOOLEAN : c = (req[s].cut \/ s \in segments)
    OBVIOUS
  <2>3. req'[s] = [req[s] EXCEPT !.cut = c]
    BY <2>2 DEF Cut
  <2>4. /\ req'[s] \in RequestRecord /\ req'[s].cut = c
        /\ req'[s].stage = req[s].stage /\ req'[s].counts = req[s].counts
    BY <2>1, <2>3 DEF RequestRecord
  <2>5. CASE s \in segments
    BY <2>2, <2>4, <2>5
  <2>6. CASE s \notin segments
    <3>1. c = req[s].cut
      BY <2>1, <2>2, <2>6 DEF RequestRecord
    <3>2. req'[s] = req[s]
      BY <2>1, <2>3, <3>1 DEF RequestRecord
    <3> QED
      BY <2>4, <2>6, <3>1, <3>2
  <2> QED
    BY <2>5, <2>6
<1>2. req' = [s \in Segments |-> req'[s]]
  BY DEF Cut
<1>3. req' \in [Segments -> RequestRecord]
  BY <1>1, <1>2
<1> QED
  BY <1>1, <1>3 DEF Kindly, Running, Readerless

-------------------------------------------------------------------------------
(* Readers.                                                                *)

LEMMA IdleRecord ==
  ASSUME NEW x \in ReaderRecord
  PROVE  Idle(x) \in ReaderRecord /\ Idle(x).pc = "idle"
<1>1. 0 \in Segments /\ 0 \in 0 .. Count /\ Count \in 0 .. Count /\ 0 \in 0 .. MaxJoins
  BY DownloadAssumption DEF Segments
<1>2. CASE x.life = "closed"
  BY <1>1, <1>2 DEF Idle, NoReader, NoSegment, ReaderRecord
<1>3. CASE x.life # "closed"
  <2>1. Idle(x) = [x EXCEPT !.pc = "idle", !.want = 0, !.counts = TRUE, !.tries = 0,
                            !.told = "none", !.old = Count]
    BY <1>3 DEF Idle, NoSegment
  <2> QED
    BY <1>1, <2>1, ZenonT(30) DEF ReaderRecord
<1> QED
  BY <1>2, <1>3

LEMMA ServedRecord ==
  ASSUME NEW x \in ReaderRecord, NEW whole \in BOOLEAN, x.seg \in Segments
  PROVE  Served(x, whole) \in ReaderRecord /\ Served(x, whole).pc \in {"idle", "jump"}
<1> DEFINE s == IF whole THEN x.seg + 1 ELSE x.seg
           moved == [x EXCEPT !.seg = s, !.have = ~whole]
<1>1. s \in 0 .. Count
  BY DownloadAssumption DEF Segments
<1> HIDE DEF s
<1>2. moved \in ReaderRecord
  BY <1>1 DEF ReaderRecord
<1> HIDE DEF moved
<1>3. Idle(moved) \in ReaderRecord /\ Idle(moved).pc = "idle"
  BY <1>2, IdleRecord
<1>4. CASE x.life = "closed" \/ (x.marked /\ x.window = s)
  BY <1>3, <1>4 DEF Served, s, moved
<1>5. CASE ~(x.life = "closed" \/ (x.marked /\ x.window = s))
  <2>1. PICK y, old : y = Idle(moved) /\ old = x.window
    OBVIOUS
  <2>2. Served(x, whole) = [y EXCEPT !.pc = "jump", !.marked = TRUE, !.old = old, !.window = s]
    BY <1>5, <2>1 DEF Served, s, moved
  <2>3. y \in ReaderRecord /\ old \in 0 .. Count
    BY <1>3, <2>1 DEF ReaderRecord
  <2> QED
    BY <1>1, <2>2, <2>3 DEF ReaderRecord
<1> QED
  BY <1>4, <1>5

\* A reader's step with whoever waits left what they wait for.
LEMMA ReaderMoves ==
  ASSUME DownloadInv, Kindly, NEW r \in Readers, NEW x \in ReaderRecord,
         rd' = [rd EXCEPT ![r] = x], Stands(x), Waits(x)',
         RestSound', UNCHANGED <<zeroFilled, runFailed>>
  PROVE  DownloadInv'
<1>1. /\ rd' \in [Readers -> ReaderRecord] /\ rd'[r] = x
      /\ \A q \in Readers \ {r} : rd'[q] = rd[q]
  BY DEF DownloadInv, ReadersSound
<1>2. ASSUME NEW q \in Readers \ {r} PROVE Stands(rd'[q]) /\ Waits(rd[q])'
  <2>1. Stands(rd[q]) /\ Waits(rd[q]) /\ rd[q].want \in Segments
    BY DEF DownloadInv, ReadersSound, ReaderRecord
  <2> QED
    BY <1>1, <2>1 DEF Kindly, Waits, Stands
<1>3. ReadersSound'
  BY <1>1, <1>2 DEF ReadersSound, Stands, Waits
<1>4. HolesCapped'
  BY DEF DownloadInv, HolesCapped, RunAround
<1> QED
  BY <1>3, <1>4 DEF DownloadInv, Kindly

\* Every reader's record stays, the rest moves.
LEMMA ReadersStay ==
  ASSUME DownloadInv, Kindly, RestSound', UNCHANGED <<rd, zeroFilled, runFailed>>
  PROVE  DownloadInv'
<1>1. ASSUME NEW q \in Readers PROVE Stands(rd'[q]) /\ Waits(rd[q])'
  <2>1. Stands(rd[q]) /\ Waits(rd[q]) /\ rd[q].want \in Segments
    BY DEF DownloadInv, ReadersSound, ReaderRecord
  <2> QED
    BY <2>1 DEF Kindly, Waits, Stands
<1>2. ReadersSound'
  BY <1>1 DEF DownloadInv, ReadersSound, Waits
<1>3. HolesCapped'
  BY DEF DownloadInv, HolesCapped, RunAround
<1> QED
  BY <1>2, <1>3 DEF DownloadInv, Kindly

-------------------------------------------------------------------------------
(* The steps.                                                              *)

\* What the two action properties ask of a step.
Spares == \A s \in Segments : req[s].counts /\ req'[s].cut => req[s].cut

Adopts ==
  \A r \in Readers : rd[r].pc = "jump" /\ rd'[r].pc = "claim" =>
     \A s \in Window(rd[r].window) : req'[s].cut => req[s].cut

Kept == DownloadInv' /\ Spares /\ Adopts

\* A step of one reader that does not go from jumping to claiming.
LEMMA MoveKept ==
  ASSUME DownloadInv, Kindly, NEW r \in Readers, NEW x \in ReaderRecord,
         rd' = [rd EXCEPT ![r] = x], Stands(x), Waits(x)',
         RestSound', UNCHANGED <<zeroFilled, runFailed>>,
         rd[r].pc # "jump" \/ x.pc # "claim"
  PROVE  Kept
<1>1. DownloadInv'
  BY ReaderMoves
<1>2. Spares
  BY DEF Kindly, Spares
<1>3. rd'[r] = x /\ \A q \in Readers \ {r} : rd'[q] = rd[q]
  BY DEF DownloadInv, ReadersSound
<1>4. Adopts
  BY <1>3 DEF Adopts
<1> QED
  BY <1>1, <1>2, <1>4 DEF Kept

LEMMA StayKept ==
  ASSUME DownloadInv, Kindly, RestSound', UNCHANGED <<rd, zeroFilled, runFailed>>
  PROVE  Kept
<1>1. DownloadInv'
  BY ReadersStay
<1> QED
  BY <1>1 DEF Kindly, Spares, Adopts, Kept

\* Who waited for s, and was not told yet, is told; nobody else waits for it.
LEMMA CompleteKept ==
  ASSUME DownloadInv, NEW s \in Segments, NEW answer \in {"data", "missing", "failed", "canceled"},
         Complete(s, answer)
  PROVE  Kept
<1>1. PICK verdict, result :
        /\ verdict = IF answer = "missing" THEN HoleVerdict(s, req[s].counts) ELSE answer
        /\ result = IF verdict \in {"run", "full"} THEN "failed" ELSE verdict
  OBVIOUS
<1>2. /\ zeroFilled' = IF verdict \in {"zeros", "run"} THEN zeroFilled \cup {s} ELSE zeroFilled
      /\ runFailed' = (runFailed \/ verdict = "run")
      /\ req' = [req EXCEPT ![s] = NoRequest]
      /\ abandoned' = {w \ {s} : w \in abandoned} \ {{}}
      /\ rd' = [r \in Readers |-> IF rd[r].pc = "wait" /\ rd[r].want = s /\ rd[r].told = "none"
                                  THEN [rd[r] EXCEPT !.told = result] ELSE rd[r]]
      /\ spawned' = spawned
  BY <1>1 DEF Complete
<1>3. /\ answer = "missing" =>
           /\ verdict \in {"failed", "uncounted", "full", "run", "zeros"}
           /\ s = 0 => verdict = "failed"
      /\ answer # "missing" => verdict = answer
  BY <1>1 DEF HoleVerdict
<1>4. result \in Verdicts
  BY <1>1, <1>3 DEF Verdicts
<1>5. verdict \in {"zeros", "run"} => answer = "missing" /\ s # 0
  BY <1>3
<1>6. /\ req' \in [Segments -> RequestRecord] /\ req'[s] = NoRequest
      /\ \A t \in Segments \ {s} : req'[t] = req[t]
  BY <1>2 DEF DownloadInv, NoRequest, RequestRecord
<1>7. ASSUME NEW r \in Readers
      PROVE  /\ rd'[r] \in ReaderRecord /\ rd'[r].pc = rd[r].pc
             /\ Stands(rd'[r]) /\ Waits(rd[r])'
  <2>1. rd[r] \in ReaderRecord /\ Stands(rd[r]) /\ Waits(rd[r]) /\ rd[r].want \in Segments
    BY DEF DownloadInv, ReadersSound, ReaderRecord
  <2>2. CASE rd[r].pc = "wait" /\ rd[r].want = s /\ rd[r].told = "none"
    <3>1. rd'[r] = [rd[r] EXCEPT !.told = result]
      BY <1>2, <2>2
    <3>2. /\ rd'[r] \in ReaderRecord /\ rd'[r].pc = rd[r].pc /\ rd'[r].told = result
          /\ rd'[r].counts = rd[r].counts /\ rd'[r].want = rd[r].want /\ rd'[r].seg = rd[r].seg
      BY <1>4, <2>1, <3>1 DEF ReaderRecord
    <3> QED
      BY <1>4, <2>1, <3>2 DEF Stands, Waits, Verdicts
  <2>3. CASE ~(rd[r].pc = "wait" /\ rd[r].want = s /\ rd[r].told = "none")
    <3>1. rd'[r] = rd[r]
      BY <1>2, <2>3
    <3> QED
      BY <1>6, <2>1, <2>3, <3>1 DEF Stands, Waits, Running
  <2> QED
    BY <2>2, <2>3
<1>8. ReadersSound'
  <2>1. rd' = [r \in Readers |-> rd'[r]]
    BY <1>2
  <2> QED
    BY <1>7, <2>1 DEF ReadersSound, Stands
<1>9. RestSound'
  <2>1. zeroFilled' \subseteq Segments \ {0} /\ runFailed' \in BOOLEAN
    BY <1>2, <1>5 DEF DownloadInv, RestSound
  <2>2. abandoned' \subseteq SUBSET Segments
    BY <1>2 DEF DownloadInv, RestSound
  <2> QED
    BY <1>2, <2>1, <2>2 DEF DownloadInv, RestSound
<1>10. HolesCapped'
  <2>1. CASE verdict \in {"zeros", "run"}
    <3>1. /\ verdict = HoleVerdict(s, req[s].counts)
          /\ zeroFilled' = zeroFilled \cup {s} /\ runFailed' = (runFailed \/ verdict = "run")
      BY <1>1, <1>2, <1>5, <2>1
    <3> QED
      BY <2>1, <3>1, HoleKeepsCaps DEF DownloadInv
  <2>2. CASE verdict \notin {"zeros", "run"}
    <3>1. zeroFilled' = zeroFilled /\ (runFailed => runFailed')
      BY <1>2, <2>2
    <3> QED
      BY <3>1 DEF DownloadInv, HolesCapped, RunAround
  <2> QED
    BY <2>1, <2>2
<1>11. Spares
  BY <1>6 DEF Spares, NoRequest
<1>12. Adopts
  BY <1>7 DEF Adopts
<1> QED
  BY <1>6, <1>8, <1>9, <1>10, <1>11, <1>12 DEF DownloadInv, Kept

LEMMA FetchingKept ==
  ASSUME DownloadInv, NEW s \in Segments, Fetching(s)
  PROVE  Kept
<1>1. CASE \E answer \in {"data", "missing", "failed", "canceled"} : FetchEnds(s, answer)
  BY <1>1, CompleteKept DEF FetchEnds
<1>2. CASE PipelineDelivers(s)
  BY <1>2, CompleteKept DEF PipelineDelivers
<1>3. CASE PipelineFails(s)
  <2>1. PICK q : q = [req[s] EXCEPT !.stage = "fetch"]
    OBVIOUS
  <2>2. req[s] \in RequestRecord /\ req' = [req EXCEPT ![s] = q]
    BY <1>3, <2>1 DEF DownloadInv, PipelineFails
  <2>3. /\ q \in RequestRecord /\ q.stage = "fetch"
        /\ q.counts = req[s].counts /\ q.cut = req[s].cut
    BY <2>1, <2>2 DEF RequestRecord
  <2>4. /\ req' \in [Segments -> RequestRecord] /\ req'[s] = q
        /\ \A t \in Segments \ {s} : req'[t] = req[t]
    BY <2>2, <2>3 DEF DownloadInv
  <2>5. Kindly
    BY <2>3, <2>4 DEF Kindly, Running
  <2> QED
    BY <1>3, <2>5, StayKept DEF PipelineFails, DownloadInv, RestSound
<1> QED
  BY <1>1, <1>2, <1>3 DEF Fetching

\* The goroutine of ReadAheadSegment joins, or finds a hole.
LEMMA SpawnKept ==
  ASSUME DownloadInv, NEW s \in Segments, Spawn(s)
  PROVE  Kept
<1>1. Kindly
  <2>1. CASE s \in zeroFilled
    BY <2>1, SameKindly DEF Spawn, DownloadInv
  <2>2. CASE s \notin zeroFilled
    BY <2>2, JoinKindly DEF Spawn, DownloadInv
  <2> QED
    BY <2>1, <2>2
<1>2. RestSound'
  BY DEF Spawn, DownloadInv, RestSound
<1> QED
  BY <1>1, <1>2, StayKept DEF Spawn

LEMMA GraceKept ==
  ASSUME DownloadInv, NEW w \in abandoned, GraceEnds(w)
  PROVE  Kept
<1>1. Kindly
  BY CutKindly DEF GraceEnds, HeldOutside, DownloadInv
<1>2. RestSound'
  BY DEF GraceEnds, DownloadInv, RestSound
<1> QED
  BY <1>1, <1>2, StayKept DEF GraceEnds

\* The reader joins the request of its segment, or makes one.
LEMMA AskKept ==
  ASSUME DownloadInv, NEW r \in Readers, Ask(r)
  PROVE  Kept
<1>1. rd[r] \in ReaderRecord /\ Stands(rd[r]) /\ rd[r].pc = "ask"
  BY DEF Ask, DownloadInv, ReadersSound
<1>2. PICK x : x = [rd[r] EXCEPT !.pc = "wait"]
  OBVIOUS
<1>3. /\ x \in ReaderRecord /\ x.pc = "wait" /\ x.told = rd[r].told
      /\ x.want = rd[r].want /\ x.counts = rd[r].counts /\ x.seg = rd[r].seg
  BY <1>1, <1>2 DEF ReaderRecord
<1>4. x.want \in Segments /\ x.counts \in BOOLEAN
  BY <1>3 DEF ReaderRecord
<1>5. rd' = [rd EXCEPT ![r] = x]
  BY <1>2 DEF Ask
<1>6. /\ req \in [Segments -> RequestRecord]
      /\ req' = [req EXCEPT ![x.want] = Joined(x.want, x.counts)]
  BY <1>3 DEF Ask, DownloadInv
<1>7. Kindly /\ Running(x.want)' /\ (x.counts => req'[x.want].counts)
  BY <1>4, <1>6, JoinKindly
<1>8. Stands(x) /\ Waits(x)'
  BY <1>1, <1>3, <1>7 DEF Stands, Waits
<1>9. RestSound'
  BY DEF Ask, DownloadInv, RestSound
<1> QED
  BY <1>1, <1>3, <1>5, <1>7, <1>8, <1>9, MoveKept DEF Ask

\* A call that goes on or ends, with nothing else touched.
LEMMA TurnKept ==
  ASSUME DownloadInv, NEW r \in Readers, NEW x \in ReaderRecord,
         rd' = [rd EXCEPT ![r] = x], Stands(x), x.pc # "wait", x.pc # "claim",
         UNCHANGED <<req, spawned, abandoned, zeroFilled, runFailed>>
  PROVE  Kept
<1>1. Kindly
  BY SameKindly DEF DownloadInv
<1>2. RestSound'
  BY DEF DownloadInv, RestSound
<1> QED
  BY <1>1, <1>2, MoveKept DEF Waits

\* An answered real read stands in a segment, so what it is served moves it within the file.
LEMMA ToldKept ==
  ASSUME DownloadInv, NEW r \in Readers, NEW whole \in BOOLEAN, Told(r, whole)
  PROVE  Kept
<1>1. /\ rd[r] \in ReaderRecord /\ Stands(rd[r]) /\ rd[r].pc = "wait"
      /\ UNCHANGED <<req, spawned, abandoned, zeroFilled, runFailed>>
  BY DEF Told, DownloadInv, ReadersSound
<1>2. CASE Retries(rd[r])
  <2>1. PICK tries \in 0 .. MaxJoins : tries = rd[r].tries + 1
    BY <1>1, <1>2, DownloadAssumption DEF Retries, ReaderRecord
  <2>2. PICK x : x = [rd[r] EXCEPT !.pc = "ask", !.tries = tries, !.told = "none"]
    OBVIOUS
  <2>3. rd' = [rd EXCEPT ![r] = x]
    <3>1. rd' = [rd EXCEPT ![r] = [rd[r] EXCEPT !.pc = "ask", !.tries = rd[r].tries + 1,
                                               !.told = "none"]]
      BY <1>2 DEF Told
    <3> QED
      BY <2>1, <2>2, <3>1
  <2>4. x \in ReaderRecord /\ x.pc = "ask" /\ Stands(x)
    BY <1>1, <2>2 DEF ReaderRecord, Stands
  <2> QED
    BY <1>1, <2>3, <2>4, TurnKept
<1>3. CASE ~Retries(rd[r]) /\ rd[r].counts /\ rd[r].told \in {"data", "zeros"}
  <2>1. rd[r].seg \in Segments
    BY <1>1, <1>3 DEF Stands, ReaderRecord
  <2>2. PICK x : x = Served(rd[r], whole)
    OBVIOUS
  <2>3. x \in ReaderRecord /\ x.pc \in {"idle", "jump"}
    BY <1>1, <2>1, <2>2, ServedRecord
  <2>4. rd' = [rd EXCEPT ![r] = x]
    BY <1>3, <2>2 DEF Told
  <2> QED
    BY <1>1, <2>3, <2>4, TurnKept DEF Stands
<1>4. CASE ~Retries(rd[r]) /\ ~(rd[r].counts /\ rd[r].told \in {"data", "zeros"})
  <2>1. PICK x : x = Idle(rd[r])
    OBVIOUS
  <2>2. x \in ReaderRecord /\ x.pc = "idle"
    BY <1>1, <2>1, IdleRecord
  <2>3. rd' = [rd EXCEPT ![r] = x]
    BY <1>4, <2>1 DEF Told
  <2> QED
    BY <1>1, <2>2, <2>3, TurnKept DEF Stands
<1> QED
  BY <1>2, <1>3, <1>4

LEMMA GiveUpKept ==
  ASSUME DownloadInv, NEW r \in Readers, GiveUp(r)
  PROVE  Kept
<1>1. PICK x : x = Idle(rd[r])
  OBVIOUS
<1>2. rd[r] \in ReaderRecord
  BY DEF DownloadInv, ReadersSound
<1>3. x \in ReaderRecord /\ x.pc = "idle"
  BY <1>1, <1>2, IdleRecord
<1>4. rd' = [rd EXCEPT ![r] = x] /\ UNCHANGED <<req, spawned, abandoned, zeroFilled, runFailed>>
  BY <1>1 DEF GiveUp
<1> QED
  BY <1>3, <1>4, TurnKept DEF Stands

\* A window that shares nothing with the new one is canceled, and what is settled lies
\* outside the new one: nothing of it is canceled.
LEMMA JumpKept ==
  ASSUME DownloadInv, NEW r \in Readers, Jump(r)
  PROVE  Kept
<1>1. PICK old, new : old = Window(rd[r].old) /\ new = Window(rd[r].window)
  OBVIOUS
<1>2. PICK left : left = IF old \cap new = {} THEN {s \in old : Readerless(s)} ELSE {}
  OBVIOUS
<1>3. PICK held : held = IF new = {} THEN {} ELSE UNION {HeldOutside(w, new) : w \in abandoned}
  OBVIOUS
<1>4. /\ rd[r].pc = "jump" /\ req' = Cut(left \cup held)
      /\ abandoned' = IF new = {} THEN abandoned ELSE {}
      /\ rd' = [rd EXCEPT ![r] = IF new = {} THEN Idle(rd[r]) ELSE [rd[r] EXCEPT !.pc = "claim"]]
      /\ UNCHANGED <<spawned, zeroFilled, runFailed>>
  BY <1>1, <1>2, <1>3 DEF Jump
<1>5. /\ \A s \in left \cup held : Readerless(s)
      /\ (left \cup held) \cap new = {}
  BY <1>2, <1>3 DEF HeldOutside
<1>6. req \in [Segments -> RequestRecord] /\ rd[r] \in ReaderRecord
  BY DEF DownloadInv, ReadersSound
<1>7. /\ Kindly
      /\ \A s \in Segments \ (left \cup held) : req'[s] = req[s]
  BY <1>4, <1>5, <1>6, CutKindly
<1>8. PICK x : x = IF new = {} THEN Idle(rd[r]) ELSE [rd[r] EXCEPT !.pc = "claim"]
  OBVIOUS
<1>9. x \in ReaderRecord /\ x.pc \in {"idle", "claim"}
  <2>1. CASE new = {}
    BY <1>6, <1>8, <2>1, IdleRecord
  <2>2. CASE new # {}
    <3>1. x = [rd[r] EXCEPT !.pc = "claim"]
      BY <1>8, <2>2
    <3> QED
      BY <1>6, <3>1 DEF ReaderRecord
  <2> QED
    BY <2>1, <2>2
<1>10. rd' = [rd EXCEPT ![r] = x]
  BY <1>4, <1>8
<1>11. Stands(x) /\ Waits(x)'
  BY <1>9 DEF Stands, Waits
<1>12. RestSound'
  BY <1>4 DEF DownloadInv, RestSound
<1>13. DownloadInv'
  BY <1>4, <1>7, <1>9, <1>10, <1>11, <1>12, ReaderMoves
<1>14. Spares
  BY <1>7 DEF Kindly, Spares
<1>15. Adopts
  <2>1. SUFFICES ASSUME NEW q \in Readers, rd[q].pc = "jump", rd'[q].pc = "claim",
                        NEW s \in Window(rd[q].window), req'[s].cut
                 PROVE  req[s].cut
    BY DEF Adopts
  <2>2. q = r
    BY <1>10, <2>1 DEF DownloadInv, ReadersSound
  <2>3. s \in new /\ s \in Segments
    BY <1>1, <2>2 DEF Window
  <2> QED
    BY <1>5, <1>7, <2>1, <2>3
<1> QED
  BY <1>13, <1>14, <1>15 DEF Kept

\* What a batch claims runs for nobody yet.
LEMMA ClaimKept ==
  ASSUME DownloadInv, NEW r \in Readers, NEW depth \in Depths, Claim(r, depth)
  PROVE  Kept
<1> DEFINE wanted == Window(rd[r].window)
           mine == {s \in wanted \ zeroFilled : ~Running(s)}
           size == BatchSize(Cardinality(mine), Cardinality((wanted \ zeroFilled) \ mine), depth)
           single == {s \in mine : \/ size = 1
                                   \/ Cardinality(mine) % size = 1 /\ \A t \in mine : t <= s}
<1>1. IF depth < 2
      THEN spawned' = spawned \cup wanted /\ UNCHANGED req
      ELSE /\ req' = [s \in Segments |->
                IF s \notin mine THEN req[s]
                ELSE [stage |-> IF s \in single THEN "fetch" ELSE "piped",
                      counts |-> FALSE, cut |-> FALSE]]
           /\ UNCHANGED spawned
  BY DEF Claim
<1> HIDE DEF single
<1>2. wanted \subseteq Segments
  BY DEF Window
<1>3. rd[r] \in ReaderRecord /\ req \in [Segments -> RequestRecord]
  BY DEF DownloadInv, ReadersSound
<1>4. Kindly
  <2>1. CASE depth < 2
    BY <1>1, <1>3, <2>1, SameKindly
  <2>2. CASE ~(depth < 2)
    <3>1. req' = [s \in Segments |->
                   IF s \notin mine THEN req[s]
                   ELSE [stage |-> IF s \in single THEN "fetch" ELSE "piped",
                         counts |-> FALSE, cut |-> FALSE]]
      BY <1>1, <2>2
    <3>2. ASSUME NEW s \in Segments
          PROVE  /\ req'[s] \in RequestRecord
                 /\ s \notin mine => req'[s] = req[s]
                 /\ s \in mine => ~Running(s) /\ ~req'[s].cut
      <4>1. CASE s \in mine
        <5>1. PICK stage : stage = IF s \in single THEN "fetch" ELSE "piped"
          OBVIOUS
        <5>2. req'[s] = [stage |-> stage, counts |-> FALSE, cut |-> FALSE]
          BY <3>1, <4>1, <5>1
        <5> QED
          BY <1>1, <4>1, <5>1, <5>2 DEF RequestRecord
      <4>2. CASE s \notin mine
        BY <1>3, <3>1, <4>2
      <4> QED
        BY <4>1, <4>2
    <3>3. req' = [s \in Segments |-> req'[s]]
      BY <3>1
    <3>4. req' \in [Segments -> RequestRecord]
      BY <3>2, <3>3
    <3> QED
      BY <3>2, <3>4 DEF Kindly, Running
  <2> QED
    BY <2>1, <2>2
<1>5. PICK x : x = Idle(rd[r])
  OBVIOUS
<1>6. x \in ReaderRecord /\ x.pc = "idle"
  BY <1>3, <1>5, IdleRecord
<1>7. rd' = [rd EXCEPT ![r] = x] /\ UNCHANGED <<abandoned, zeroFilled, runFailed>>
  BY <1>5 DEF Claim
<1>8. RestSound'
  BY <1>1, <1>2, <1>7 DEF DownloadInv, RestSound
<1> QED
  BY <1>4, <1>6, <1>7, <1>8, MoveKept DEF Stands, Waits

-------------------------------------------------------------------------------
(* The player's calls.                                                     *)

LEMMA ReadKept ==
  ASSUME DownloadInv, NEW r \in Readers, NEW whole \in BOOLEAN, Read(r, whole)
  PROVE  Kept
<1>1. /\ rd[r] \in ReaderRecord /\ rd[r].seg < Count
      /\ UNCHANGED <<req, spawned, abandoned, zeroFilled, runFailed>>
  BY DEF Read, DownloadInv, ReadersSound
<1>2. rd[r].seg \in Segments
  BY <1>1, DownloadAssumption DEF ReaderRecord, Segments
<1>3. CASE rd[r].have \/ rd[r].seg \in zeroFilled
  <2>1. PICK x : x = Served(rd[r], whole)
    OBVIOUS
  <2>2. x \in ReaderRecord /\ x.pc \in {"idle", "jump"}
    BY <1>1, <1>2, <2>1, ServedRecord
  <2>3. rd' = [rd EXCEPT ![r] = x]
    BY <1>3, <2>1 DEF Read
  <2> QED
    BY <1>1, <2>2, <2>3, TurnKept DEF Stands
<1>4. CASE ~(rd[r].have \/ rd[r].seg \in zeroFilled)
  <2>1. PICK x : x = [rd[r] EXCEPT !.pc = "ask", !.want = rd[r].seg]
    OBVIOUS
  <2>2. rd' = [rd EXCEPT ![r] = x]
    BY <1>4, <2>1 DEF Read
  <2>3. x \in ReaderRecord /\ x.pc = "ask" /\ x.want = x.seg
    BY <1>1, <1>2, <2>1 DEF ReaderRecord
  <2> QED
    BY <1>1, <2>2, <2>3, TurnKept DEF Stands
<1> QED
  BY <1>3, <1>4

LEMMA PeekKept ==
  ASSUME DownloadInv, NEW r \in Readers, NEW s \in Segments, Peek(r, s)
  PROVE  Kept
<1>1. rd[r] \in ReaderRecord /\ UNCHANGED <<req, spawned, abandoned, zeroFilled, runFailed>>
  BY DEF Peek, DownloadInv, ReadersSound
<1>2. PICK x : x = [rd[r] EXCEPT !.want = s, !.counts = FALSE, !.pc = "ask"]
  OBVIOUS
<1>3. rd' = [rd EXCEPT ![r] = x]
  BY <1>2 DEF Peek, DownloadInv, ReadersSound
<1>4. x \in ReaderRecord /\ x.pc = "ask" /\ ~x.counts
  BY <1>1, <1>2 DEF ReaderRecord
<1> QED
  BY <1>1, <1>3, <1>4, TurnKept DEF Stands

LEMMA OpenKept ==
  ASSUME DownloadInv, NEW r \in Readers, NEW s \in Ranges, Open(r, s)
  PROVE  Kept
<1>1. /\ rd[r] \in ReaderRecord /\ rd[r] = NoReader /\ NoReader.pc = "idle"
      /\ UNCHANGED <<req, spawned, abandoned, zeroFilled, runFailed>>
  <2>1. NoReader.pc = "idle"
    BY DEF NoReader
  <2> QED
    BY <2>1 DEF Open, DownloadInv, ReadersSound
<1>2. s \in 0 .. Count
  BY DownloadAssumption
<1>3. PICK x : x = [rd[r] EXCEPT !.life = "open", !.seg = s]
  OBVIOUS
<1>4. rd' = [rd EXCEPT ![r] = x]
  BY <1>3 DEF Open, DownloadInv, ReadersSound
<1>5. x \in ReaderRecord /\ x.pc = "idle"
  BY <1>1, <1>2, <1>3 DEF ReaderRecord
<1> QED
  BY <1>1, <1>4, <1>5, TurnKept DEF Stands

LEMMA SeekKept ==
  ASSUME DownloadInv, NEW r \in Readers, NEW s \in Ranges, Seek(r, s)
  PROVE  Kept
<1>1. /\ rd[r] \in ReaderRecord /\ rd[r].pc = "idle"
      /\ UNCHANGED <<req, spawned, abandoned, zeroFilled, runFailed>>
  BY DEF Seek, DownloadInv, ReadersSound
<1>2. s \in 0 .. Count
  BY DownloadAssumption
<1>3. PICK x : x = [rd[r] EXCEPT !.seg = s, !.have = FALSE, !.marked = FALSE]
  OBVIOUS
<1>4. rd' = [rd EXCEPT ![r] = x]
  BY <1>3 DEF Seek, DownloadInv, ReadersSound
<1>5. x \in ReaderRecord /\ x.pc = "idle"
  BY <1>1, <1>2, <1>3 DEF ReaderRecord
<1> QED
  BY <1>1, <1>4, <1>5, TurnKept DEF Stands

\* A reader closed in the middle of a call goes on waiting until the call notices.
LEMMA CloseKept ==
  ASSUME DownloadInv, NEW r \in Readers, Close(r)
  PROVE  Kept
<1>1. PICK shut, held : /\ shut = [rd[r] EXCEPT !.life = "closed", !.have = FALSE]
                        /\ held = {s \in Window(rd[r].window) : Readerless(s)}
  OBVIOUS
<1>2. /\ rd' = [rd EXCEPT ![r] = IF rd[r].pc = "idle" THEN NoReader ELSE shut]
      /\ abandoned' = abandoned \cup ({held} \ {{}})
      /\ UNCHANGED <<req, spawned, zeroFilled, runFailed>>
  BY <1>1 DEF Close
<1>3. rd[r] \in ReaderRecord /\ Stands(rd[r]) /\ Waits(rd[r]) /\ rd[r].want \in Segments
  BY DEF DownloadInv, ReadersSound, ReaderRecord
<1>4. Kindly
  BY <1>2, SameKindly DEF DownloadInv
<1>5. held \subseteq Segments
  BY <1>1 DEF Window
<1>6. RestSound'
  BY <1>2, <1>5 DEF DownloadInv, RestSound
<1>7. CASE rd[r].pc = "idle"
  <2>1. PICK x : x = NoReader
    OBVIOUS
  <2>2. x \in ReaderRecord /\ x.pc = "idle"
    BY <2>1, DownloadAssumption DEF NoReader, NoSegment, ReaderRecord, Segments
  <2>3. rd' = [rd EXCEPT ![r] = x]
    BY <1>2, <1>7, <2>1
  <2> QED
    BY <1>2, <1>4, <1>6, <2>2, <2>3, MoveKept DEF Stands, Waits
<1>8. CASE rd[r].pc # "idle"
  <2>1. /\ shut \in ReaderRecord /\ shut.pc = rd[r].pc /\ shut.told = rd[r].told
        /\ shut.want = rd[r].want /\ shut.counts = rd[r].counts /\ shut.seg = rd[r].seg
    BY <1>1, <1>3 DEF ReaderRecord
  <2>2. Stands(shut) /\ Waits(shut)'
    BY <1>2, <1>3, <2>1 DEF Stands, Waits, Running
  <2>3. rd' = [rd EXCEPT ![r] = shut]
    BY <1>2, <1>8
  <2>4. rd[r].pc # "jump" \/ shut.pc # "claim"
    BY <2>1
  <2> QED
    BY <1>2, <1>4, <1>6, <2>1, <2>2, <2>3, <2>4, MoveKept
<1> QED
  BY <1>7, <1>8

-------------------------------------------------------------------------------
(* The theorems.                                                           *)

LEMMA DownloadInvInit == DownloadInit => DownloadInv
<1> SUFFICES ASSUME DownloadInit PROVE DownloadInv
  OBVIOUS
<1>1. NoReader \in ReaderRecord /\ NoReader.pc = "idle"
  BY DownloadAssumption DEF NoReader, NoSegment, ReaderRecord, Segments
<1>2. ReadersSound
  <2>1. rd = [r \in Readers |-> NoReader]
    BY DEF DownloadInit
  <2>2. rd \in [Readers -> ReaderRecord] /\ \A r \in Readers : rd[r].pc = "idle"
    BY <1>1, <2>1
  <2> QED
    BY <2>2 DEF ReadersSound, Stands, Waits
<1>3. req \in [Segments -> RequestRecord]
  BY DEF DownloadInit, NoRequest, RequestRecord
<1>4. RestSound
  BY DEF DownloadInit, RestSound
<1>5. HolesCapped
  BY FS_EmptySet, DownloadAssumption DEF DownloadInit, HolesCapped
<1> QED
  BY <1>2, <1>3, <1>4, <1>5 DEF DownloadInv

LEMMA DownloadStep == DownloadInv /\ [Next]_vars => Kept
<1> SUFFICES ASSUME DownloadInv, [Next]_vars PROVE Kept
  OBVIOUS
<1>1. ASSUME NEW s \in Segments, Fetching(s) \/ Spawn(s) PROVE Kept
  BY <1>1, FetchingKept, SpawnKept
<1>2. ASSUME NEW r \in Readers, Reading(r) PROVE Kept
  <2>1. Portions(r) \subseteq BOOLEAN
    BY DEF Portions
  <2> QED
    BY <1>2, <2>1, ToldKept, AskKept, GiveUpKept, JumpKept, ClaimKept DEF Reading
<1>3. ASSUME NEW r \in Readers, Using(r) PROVE Kept
  <2>1. Portions(r) \subseteq BOOLEAN
    BY DEF Portions
  <2> QED
    BY <1>3, <2>1, ReadKept, PeekKept, OpenKept, SeekKept, CloseKept DEF Using
<1>4. ASSUME NEW w \in abandoned, GraceEnds(w) PROVE Kept
  BY <1>4, GraceKept
<1>5. CASE UNCHANGED vars
  <2>1. Kindly /\ RestSound' /\ UNCHANGED <<rd, zeroFilled, runFailed>>
    BY <1>5, SameKindly DEF vars, DownloadInv, RestSound
  <2> QED
    BY <2>1, StayKept
<1> QED
  BY <1>1, <1>2, <1>3, <1>4, <1>5 DEF Next

\* Requests and their waiters stay in step, through joins, jumps, closes, timers and the
\* end of every fetch.
THEOREM DownloadInvariant == DownloadSpec => []DownloadInv
<1>1. DownloadInit => DownloadInv
  BY DownloadInvInit
<1>2. DownloadInv /\ [Next]_vars => DownloadInv'
  BY DownloadStep DEF Kept
<1> QED
  BY <1>1, <1>2, PTL DEF DownloadSpec

\* The variables keep their types.
THEOREM DownloadTypeCorrect == DownloadSpec => []DownloadTypeOK
<1>1. DownloadInv => DownloadTypeOK
  <2> SUFFICES ASSUME DownloadInv PROVE DownloadTypeOK
    OBVIOUS
  <2>1. ASSUME NEW r \in Readers
        PROVE  /\ rd[r].life \in {"open", "closed"}
               /\ rd[r].pc \in {"idle", "ask", "wait", "jump", "claim"}
               /\ {rd[r].seg, rd[r].window, rd[r].old} \subseteq 0 .. Count
               /\ rd[r].want \in Segments /\ rd[r].tries \in 0 .. MaxJoins
               /\ rd[r].told \in Verdicts \cup {"none"}
               /\ {rd[r].have, rd[r].marked, rd[r].counts} \subseteq BOOLEAN
    <3>1. rd[r] \in ReaderRecord
      BY DEF DownloadInv, ReadersSound
    <3> QED
      BY <3>1 DEF ReaderRecord
  <2>2. ASSUME NEW s \in Segments
        PROVE  /\ req[s].stage \in {"none", "piped", "fetch"}
               /\ {req[s].counts, req[s].cut} \subseteq BOOLEAN
    <3>1. req[s] \in RequestRecord
      BY DEF DownloadInv
    <3> QED
      BY <3>1 DEF RequestRecord
  <2> QED
    BY <2>1, <2>2 DEF DownloadTypeOK, DownloadInv, RestSound
<1> QED
  BY <1>1, DownloadInvariant, PTL

\* What a read waits for is registered, and counts if the read does.
THEOREM WaitersAreCounted == DownloadSpec => []WaitedIsCounted
<1>1. DownloadInv => WaitedIsCounted
  BY DEF DownloadInv, ReadersSound, Waits, WaitedIsCounted
<1> QED
  BY <1>1, DownloadInvariant, PTL

\* Holes never exceed their cap, and too long a run of them has failed the file.
THEOREM HolesAreCapped == DownloadSpec => []HolesCapped
<1>1. DownloadInv => HolesCapped
  BY DEF DownloadInv
<1> QED
  BY <1>1, DownloadInvariant, PTL

\* No reader's jump, no other reader's close and no timer cancels a request that counts.
THEOREM RealReadsAreKept == DownloadSpec => RealReadsKept
<1>1. DownloadInv /\ [Next]_vars =>
        [\A s \in Segments : req[s].counts /\ req'[s].cut => req[s].cut]_vars
  BY DownloadStep DEF Kept, Spares
<1> QED
  BY <1>1, DownloadInvariant, PTL DEF DownloadSpec, RealReadsKept

\* A reader's new window is spared by the settling its own asking causes.
THEOREM WantedIsAdopted == DownloadSpec => WantedAdopted
<1>1. DownloadInv /\ [Next]_vars =>
        [\A r \in Readers : rd[r].pc = "jump" /\ rd'[r].pc = "claim" =>
           \A s \in Window(rd[r].window) : req'[s].cut => req[s].cut]_vars
  BY DownloadStep DEF Kept, Adopts
<1> QED
  BY <1>1, DownloadInvariant, PTL DEF DownloadSpec, WantedAdopted
===============================================================================
