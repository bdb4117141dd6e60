---------------------------- MODULE SegmentDownload ----------------------------
(***************************************************************************)
(* One file being read (pkg/media/loader: file.go, readahead_batch.go,     *)
(* segment_reader.go).                                                     *)
(*                                                                         *)
(* Readers and their read-ahead share one request per segment.  Real reads *)
(* count failures, read-ahead and speculative reads do not; whoever joins  *)
(* for a real read makes the request count.  A reader that jumps away      *)
(* cancels what its window still has in flight, one that closes leaves it  *)
(* for the next reader or a timer to settle.  A segment no provider has    *)
(* becomes a hole, served as zeros within two caps.                        *)
(*                                                                         *)
(* A request is registered from its start to its completion, so it is      *)
(* named by its segment.  A pointer to a retired request equals no         *)
(* registered one: the windows that captured it drop it.  Waiters are told *)
(* the result when it is published and look at it later.  The waiter       *)
(* counter decides nothing and is left out, and of the offset inside a     *)
(* segment there remains whether the reader still holds its bytes.         *)
(***************************************************************************)
EXTENDS Integers, FiniteSets

CONSTANTS Readers,        \* SegmentReaders; a closed one may be opened again
          Seekers, Peekers,       \* the readers that seek, that are read around,
          Nibblers, Leavers,      \* that read a segment in parts, that close
          Count,          \* segments of the file: 0 .. Count - 1
          Ranges,         \* where players ask to read from, Count for its end
          ReadAhead,      \* readAheadSize
          MaxZeroFills, MaxZeroFillRun,
          MaxJoins,       \* maxAbandonedJoinRetries
          Depths,         \* what PipelineDepth may answer
          Width           \* FetchConcurrency, 0 for no hint

ASSUME DownloadAssumption ==
  /\ Seekers \cup Peekers \cup Nibblers \cup Leavers \subseteq Readers
  /\ {Count, ReadAhead} \subseteq Nat \ {0} /\ Ranges \subseteq 0 .. Count
  /\ {MaxZeroFills, MaxZeroFillRun, MaxJoins, Width} \cup Depths \subseteq Nat

VARIABLES rd,         \* rd[r]: a reader, the call it is in and that call's locals
          req,        \* req[s]: the request registered for segment s
          spawned,    \* segments ReadAheadSegment goroutines are about to ask for
          abandoned,  \* windows of closed readers: the requests each captured
          zeroFilled, runFailed

vars == <<rd, req, spawned, abandoned, zeroFilled, runFailed>>

Segments == 0 .. Count - 1
Verdicts == {"data", "zeros", "failed", "canceled", "uncounted"}
NoSegment == Count

NoRequest == [stage |-> "none", counts |-> FALSE, cut |-> FALSE]
NoReader == [life |-> "closed", pc |-> "idle", seg |-> 0, have |-> FALSE,
             window |-> NoSegment, marked |-> FALSE, old |-> NoSegment,
             want |-> 0, counts |-> TRUE, tries |-> 0, told |-> "none"]

DownloadInit ==
  /\ rd = [r \in Readers |-> NoReader]
  /\ req = [s \in Segments |-> NoRequest]
  /\ spawned = {} /\ abandoned = {}
  /\ zeroFilled = {} /\ runFailed = FALSE

Running(s) == req[s].stage # "none"

\* The window of a reader that asked from a segment on; none before it asked.
Window(from) == {s \in Segments : from <= s /\ s < from + ReadAhead}

\* The call is over, and with it the reader's state if it was closed meanwhile.
Idle(x) == IF x.life = "closed" THEN NoReader
           ELSE [x EXCEPT !.pc = "idle", !.want = 0, !.counts = TRUE, !.tries = 0,
                          !.told = "none", !.old = NoSegment]

-------------------------------------------------------------------------------
(* Requests.                                                               *)

\* startInflightDownload: join the request or register a new one.
Joined(s, counts) ==
  IF Running(s) THEN [req[s] EXCEPT !.counts = @ \/ counts]
  ELSE [stage |-> "fetch", counts |-> counts, cut |-> FALSE]

\* zeroFilledRunLocked: the hole at s and the holes next to it.
RunAround(s, holes) ==
  {i \in Segments : \A j \in Segments \ holes : ~(i <= j /\ j < s) /\ ~(s < j /\ j <= i)}

\* A slip: one hole too many.
HoleVerdictOneMore(s, counts) ==
  IF s = 0 THEN "failed"
  ELSE IF ~counts THEN "uncounted"
  ELSE IF s \notin zeroFilled /\ Cardinality(zeroFilled) > MaxZeroFills THEN "full"
  ELSE IF Cardinality(RunAround(s, zeroFilled)) > MaxZeroFillRun THEN "run"
  ELSE "zeros"

\* What a missing article comes to: fatal at the header, not counted for
\* read-ahead, one hole too many, too long a run of holes, or zeros.
HoleVerdict(s, counts) ==
  IF s = 0 THEN "failed"
  ELSE IF ~counts THEN "uncounted"
  ELSE IF s \notin zeroFilled /\ Cardinality(zeroFilled) >= MaxZeroFills THEN "full"
  ELSE IF Cardinality(RunAround(s, zeroFilled)) > MaxZeroFillRun THEN "run"
  ELSE "zeros"

\* A slip: retired, and nobody told.
CompleteRetires(s, answer) ==
  LET verdict == IF answer = "missing" THEN HoleVerdict(s, req[s].counts) ELSE answer
  IN /\ zeroFilled' = IF verdict \in {"zeros", "run"} THEN zeroFilled \cup {s} ELSE zeroFilled
     /\ runFailed' = (runFailed \/ verdict = "run")
     /\ req' = [req EXCEPT ![s] = NoRequest]
     /\ abandoned' = {w \ {s} : w \in abandoned} \ {{}}
     /\ UNCHANGED <<rd, spawned>>

\* A slip: readers are not told of a cancellation.
CompleteQuietly(s, answer) ==
  LET verdict == IF answer = "missing" THEN HoleVerdict(s, req[s].counts) ELSE answer
      result == IF verdict \in {"run", "full"} THEN "failed" ELSE verdict
  IN /\ zeroFilled' = IF verdict \in {"zeros", "run"} THEN zeroFilled \cup {s} ELSE zeroFilled
     /\ runFailed' = (runFailed \/ verdict = "run")
     /\ req' = [req EXCEPT ![s] = NoRequest]
     /\ abandoned' = {w \ {s} : w \in abandoned} \ {{}}
     /\ rd' = [r \in Readers |-> IF /\ rd[r].pc = "wait" /\ rd[r].want = s
                                    /\ rd[r].told = "none" /\ result # "canceled"
                                 THEN [rd[r] EXCEPT !.told = result] ELSE rd[r]]
     /\ UNCHANGED spawned

\* completeInflightDownload: judge, retire, publish.
Complete(s, answer) ==
  LET verdict == IF answer = "missing" THEN HoleVerdict(s, req[s].counts) ELSE answer
      result == IF verdict \in {"run", "full"} THEN "failed" ELSE verdict
  IN /\ zeroFilled' = IF verdict \in {"zeros", "run"} THEN zeroFilled \cup {s} ELSE zeroFilled
     /\ runFailed' = (runFailed \/ verdict = "run")
     /\ req' = [req EXCEPT ![s] = NoRequest]
     /\ abandoned' = {w \ {s} : w \in abandoned} \ {{}}
     /\ rd' = [r \in Readers |-> IF rd[r].pc = "wait" /\ rd[r].want = s /\ rd[r].told = "none"
                                 THEN [rd[r] EXCEPT !.told = result] ELSE rd[r]]
     /\ UNCHANGED spawned

\* The fetch through the pool.  One that was cut may still end as it would have, and
\* one that was not may come back canceled: it joined the fetch of another file's
\* request in the pool, which was.  One the end of the file's own context stops is
\* "failed": nobody tries it again.
FetchEnds(s, answer) == req[s].stage = "fetch" /\ Complete(s, answer)

\* runPipelinedReadAhead: a body that came is published, a segment that did not
\* come is fetched the ordinary way.
PipelineDelivers(s) == req[s].stage = "piped" /\ Complete(s, "data")

PipelineFails(s) ==
  /\ req[s].stage = "piped"
  /\ req' = [req EXCEPT ![s].stage = "fetch"]
  /\ UNCHANGED <<rd, spawned, abandoned, zeroFilled, runFailed>>

-------------------------------------------------------------------------------
(* Reading (readInto, doDownloadSegment).                                  *)

\* The rest of readInto: advance when the segment is used up, and ask for the
\* window from there unless that was the last one asked for.
Served(x, whole) ==
  LET s == IF whole THEN x.seg + 1 ELSE x.seg
      moved == [x EXCEPT !.seg = s, !.have = ~whole]
  IN IF x.life = "closed" \/ (x.marked /\ x.window = s) THEN Idle(moved)
     ELSE [Idle(moved) EXCEPT !.pc = "jump", !.marked = TRUE, !.old = x.window, !.window = s]

\* Bytes still held, and the zeros of a known hole, need no request.
Read(r, whole) ==
  /\ rd[r].life = "open" /\ rd[r].pc = "idle" /\ rd[r].seg < Count
  /\ rd' = [rd EXCEPT ![r] = IF @.have \/ @.seg \in zeroFilled THEN Served(@, whole)
                             ELSE [@ EXCEPT !.pc = "ask", !.want = rd[r].seg]]
  /\ UNCHANGED <<req, spawned, abandoned, zeroFilled, runFailed>>

\* ReadAt around a hole, for bytes the player did not ask for.
Peek(r, s) ==
  /\ rd[r].life = "open" /\ rd[r].pc = "idle" /\ s \notin zeroFilled
  /\ rd' = [rd EXCEPT ![r].want = s, ![r].counts = FALSE, ![r].pc = "ask"]
  /\ UNCHANGED <<req, spawned, abandoned, zeroFilled, runFailed>>

Ask(r) ==
  /\ rd[r].pc = "ask"
  /\ req' = [req EXCEPT ![rd[r].want] = Joined(rd[r].want, rd[r].counts)]
  /\ rd' = [rd EXCEPT ![r].pc = "wait"]
  /\ UNCHANGED <<spawned, abandoned, zeroFilled, runFailed>>

\* A real read that joined a condemned request tries again, a few times.
Retries(x) == x.told = "canceled" /\ x.counts /\ x.tries < MaxJoins /\ x.life = "open"

Told(r, whole) ==
  /\ rd[r].pc = "wait" /\ rd[r].told # "none"
  /\ rd' = [rd EXCEPT ![r] =
       IF Retries(@) THEN [@ EXCEPT !.pc = "ask", !.tries = rd[r].tries + 1, !.told = "none"]
       ELSE IF @.counts /\ @.told \in {"data", "zeros"} THEN Served(@, whole)
       ELSE Idle(@)]
  /\ UNCHANGED <<req, spawned, abandoned, zeroFilled, runFailed>>

\* The reader's context ended first.
GiveUp(r) ==
  /\ rd[r].pc = "wait" /\ rd[r].life = "closed"
  /\ rd' = [rd EXCEPT ![r] = Idle(@)]
  /\ UNCHANGED <<req, spawned, abandoned, zeroFilled, runFailed>>

-------------------------------------------------------------------------------
(* Read-ahead, and what becomes of it.                                     *)

Cut(segments) == [s \in Segments |-> [req[s] EXCEPT !.cut = @ \/ s \in segments]]

\* A slip: whatever runs may be canceled.
ReaderlessOrNot(s) == Running(s)

Readerless(s) == Running(s) /\ ~req[s].counts

\* A slip: the new window is not looked at.
HeldAnywhere(w, window) == {s \in w : Readerless(s)}

\* What one settled window still holds outside another (cancelHeldReadAheadLocked).
HeldOutside(w, window) == {s \in w \ window : Readerless(s)}

\* triggerReadAhead after its lock: cancel the old window if the new one is
\* disjoint, then settle what closed readers left (reapAbandonedReadAhead).
Jump(r) ==
  /\ rd[r].pc = "jump"
  /\ LET old == Window(rd[r].old)
         new == Window(rd[r].window)
         left == IF old \cap new = {} THEN {s \in old : Readerless(s)} ELSE {}
         held == IF new = {} THEN {} ELSE UNION {HeldOutside(w, new) : w \in abandoned}
     IN /\ req' = Cut(left \cup held)
        /\ abandoned' = IF new = {} THEN abandoned ELSE {}
        /\ rd' = [rd EXCEPT ![r] = IF new = {} THEN Idle(@) ELSE [@ EXCEPT !.pc = "claim"]]
  /\ UNCHANGED <<spawned, zeroFilled, runFailed>>

\* readAheadBatchSize: one segment each while connections are free, else up to depth.
BatchSize(unclaimed, inFlight, depth) ==
  LET width == IF Width < 1 THEN 1 ELSE Width
      free == IF width - inFlight < 1 THEN 1 ELSE width - inFlight
  IN IF unclaimed < 2 \/ depth < 2 \/ unclaimed <= free THEN 1
     ELSE IF unclaimed \div free > depth THEN depth ELSE unclaimed \div free

\* ReadAheadRange, the rest: without pipelining every segment gets a goroutine,
\* with it the unclaimed ones are claimed and launched in batches, the last of
\* which may be a single segment and then is fetched the ordinary way.
Claim(r, depth) ==
  /\ rd[r].pc = "claim"
  /\ LET wanted == Window(rd[r].window)
         mine == {s \in wanted \ zeroFilled : ~Running(s)}
         size == BatchSize(Cardinality(mine), Cardinality((wanted \ zeroFilled) \ mine), depth)
         single == {s \in mine : size = 1 \/ (Cardinality(mine) % size = 1 /\ \A t \in mine : t <= s)}
     IN IF depth < 2
        THEN spawned' = spawned \cup wanted /\ UNCHANGED req
        ELSE /\ req' = [s \in Segments |->
                  IF s \notin mine THEN req[s]
                  ELSE [stage |-> IF s \in single THEN "fetch" ELSE "piped",
                        counts |-> FALSE, cut |-> FALSE]]
             /\ UNCHANGED spawned
  /\ rd' = [rd EXCEPT ![r] = Idle(@)]
  /\ UNCHANGED <<abandoned, zeroFilled, runFailed>>

\* The goroutine of ReadAheadSegment reaches doDownloadSegment.
Spawn(s) ==
  /\ s \in spawned
  /\ spawned' = spawned \ {s}
  /\ req' = IF s \in zeroFilled THEN req ELSE [req EXCEPT ![s] = Joined(s, FALSE)]
  /\ UNCHANGED <<rd, abandoned, zeroFilled, runFailed>>

\* Seek: inside the segment it keeps everything, elsewhere it forgets the bytes
\* and that it asked for a window, though not which.
Seek(r, s) ==
  /\ rd[r].life = "open" /\ rd[r].pc = "idle" /\ rd[r].seg # s
  /\ rd' = [rd EXCEPT ![r].seg = s, ![r].have = FALSE, ![r].marked = FALSE]
  /\ UNCHANGED <<req, spawned, abandoned, zeroFilled, runFailed>>

\* NewSegmentReader, positioned by the request's range.
Open(r, s) ==
  /\ rd[r] = NoReader
  /\ rd' = [rd EXCEPT ![r].life = "open", ![r].seg = s]
  /\ UNCHANGED <<req, spawned, abandoned, zeroFilled, runFailed>>

\* Close, from another goroutine than the read's: the window's reader-less
\* requests are captured for the next reader, or the timer, to settle.
Close(r) ==
  /\ rd[r].life = "open"
  /\ LET held == {s \in Window(rd[r].window) : Readerless(s)}
         shut == [rd[r] EXCEPT !.life = "closed", !.have = FALSE]
     IN /\ rd' = [rd EXCEPT ![r] = IF @.pc = "idle" THEN NoReader ELSE shut]
        /\ abandoned' = abandoned \cup ({held} \ {{}})
  /\ UNCHANGED <<req, spawned, zeroFilled, runFailed>>

\* dropAbandonedReadAhead: nobody came for the window in time.
GraceEnds(w) ==
  /\ w \in abandoned
  /\ req' = Cut(HeldOutside(w, {}))
  /\ abandoned' = abandoned \ {w}
  /\ UNCHANGED <<rd, spawned, zeroFilled, runFailed>>

-------------------------------------------------------------------------------
\* Whether a read uses a segment up.
Portions(r) == IF r \in Nibblers THEN BOOLEAN ELSE {TRUE}

Fetching(s) ==
  \/ \E answer \in {"data", "missing", "failed", "canceled"} : FetchEnds(s, answer)
  \/ PipelineDelivers(s)
  \/ PipelineFails(s)

Reading(r) ==
  \/ \E whole \in Portions(r) : Told(r, whole)
  \/ Ask(r)
  \/ GiveUp(r)
  \/ Jump(r)
  \/ \E depth \in Depths : Claim(r, depth)

Using(r) ==
  \/ \E whole \in Portions(r) : Read(r, whole)
  \/ r \in Peekers /\ \E s \in Segments : Peek(r, s)
  \/ \E s \in Ranges : Open(r, s) \/ (r \in Seekers /\ Seek(r, s))
  \/ r \in Leavers /\ Close(r)

Next ==
  \/ \E s \in Segments : Fetching(s) \/ Spawn(s)
  \/ \E r \in Readers : Reading(r) \/ Using(r)
  \/ \E w \in abandoned : GraceEnds(w)

DownloadSpec == DownloadInit /\ [][Next]_vars

\* Every goroutine of a call runs, and a fetch ends: it has a deadline.
FairDownloadSpec ==
  /\ DownloadSpec
  /\ \A s \in Segments : WF_vars(Fetching(s)) /\ WF_vars(Spawn(s))
  /\ \A r \in Readers : WF_vars(Reading(r))

-------------------------------------------------------------------------------
(* Properties.                                                             *)

\* The variables keep their types, and a call that waits without an answer yet
\* waits on a registered request.
DownloadTypeOK ==
  /\ \A r \in Readers :
       /\ rd[r].life \in {"open", "closed"}
       /\ rd[r].pc \in {"idle", "ask", "wait", "jump", "claim"}
       /\ {rd[r].seg, rd[r].window, rd[r].old} \subseteq 0 .. Count
       /\ rd[r].want \in Segments /\ rd[r].tries \in 0 .. MaxJoins
       /\ rd[r].told \in Verdicts \cup {"none"}
       /\ {rd[r].have, rd[r].marked, rd[r].counts} \subseteq BOOLEAN
  /\ \A s \in Segments : /\ req[s].stage \in {"none", "piped", "fetch"}
                         /\ {req[s].counts, req[s].cut} \subseteq BOOLEAN
  /\ spawned \subseteq Segments /\ zeroFilled \subseteq Segments \ {0}
  /\ abandoned \subseteq SUBSET Segments
  /\ runFailed \in BOOLEAN

\* While a real read waits for a segment, the segment has a request that counts,
\* so no jump, close or timer of another reader can abandon what it waits for.
WaitedIsCounted ==
  \A r \in Readers : rd[r].pc = "wait" /\ rd[r].told = "none" =>
     Running(rd[r].want) /\ (rd[r].counts => req[rd[r].want].counts)

\* Nobody's cancellation reaches a request a real read is part of.
RealReadsKept ==
  [][\A s \in Segments : req[s].counts /\ req'[s].cut => req[s].cut]_vars

\* The read-ahead a reader asks for is never cut by the settling that its own
\* asking causes: what closed readers left inside the new window is adopted.
WantedAdopted ==
  [][\A r \in Readers : rd[r].pc = "jump" /\ rd'[r].pc = "claim" =>
       \A s \in Window(rd[r].window) : req'[s].cut => req[s].cut]_vars

\* Holes stay within the cap, and a run of them longer than the cap has failed
\* the file.
HolesCapped ==
  /\ Cardinality(zeroFilled) <= MaxZeroFills
  /\ (\E s \in zeroFilled : Cardinality(RunAround(s, zeroFilled)) > MaxZeroFillRun) => runFailed

\* Every call ends: no waiter is forgotten, no retry goes round for ever.
ReadsEnd == \A r \in Readers : rd[r].pc # "idle" ~> rd[r].pc = "idle"

\* "MaxZeroFillRun is the longest run of adjacent holes that is still zero-filled"
\* (file.go): a read serves no zeros out of a longer one.
RunsStayShort ==
  [][\A r \in Readers : rd[r].pc = "idle" /\ ~rd[r].have /\ rd'[r].pc = "jump"
       => Cardinality(RunAround(rd[r].seg, zeroFilled)) <= MaxZeroFillRun]_vars
===============================================================================
