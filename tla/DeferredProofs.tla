----------------------------- MODULE DeferredProofs -----------------------------
(* What DeferredNZB promises for any number of callers.                    *)
EXTENDS DeferredNZB, TLAPS

\* The invariants of a deferred session hold each other up: who waits is told by
\* the one download there is, and a close leaves nothing for it to fill.
DeferredInv == DeferredTypeOK /\ OneDownload /\ ClosedStaysEmpty /\ WaitedForRuns

LEMMA DeferredStarts == DeferredInit => DeferredInv
<1> SUFFICES ASSUME DeferredInit PROVE DeferredInv
  OBVIOUS
<1>1. DeferredTypeOK
  BY DEF DeferredInit, DeferredTypeOK, NoCall, Plans
<1>2. OneDownload /\ ClosedStaysEmpty
  BY DEF DeferredInit, OneDownload, ClosedStaysEmpty
<1>3. WaitedForRuns
  BY DEF DeferredInit, WaitedForRuns, NoCall
<1> QED BY <1>1, <1>2, <1>3 DEF DeferredInv

\* What only moves one caller, and not into waiting, leaves the invariants alone.
LEMMA CallerMoves ==
  ASSUME DeferredInv, NEW c \in Callers, NEW x \in {"idle", "enter", "files"},
         Goes(c, x), UNCHANGED <<nzb, closed, inFlight, err, running, blueprint>>
  PROVE  DeferredInv'
  BY DEF DeferredInv, DeferredTypeOK, OneDownload, ClosedStaysEmpty, WaitedForRuns,
         Goes, NoCall, Plans

LEMMA CallsKeep ==
  ASSUME DeferredInv, NEW c \in Callers, Call(c) \/ Served(c) \/ Look(c) \/ Leave(c)
  PROVE  DeferredInv'
<1>1. \E x \in {"idle", "enter", "files"} : Goes(c, x)
  <2>1. CASE Call(c)
    BY <2>1 DEF Call
  <2>2. CASE Served(c)
    BY <2>2 DEF Served
  <2>3. CASE Look(c)
    BY <2>3 DEF Look
  <2>4. CASE Leave(c)
    BY <2>4 DEF Leave
  <2> QED BY <2>1, <2>2, <2>3, <2>4
<1>2. UNCHANGED <<nzb, closed, inFlight, err, running, blueprint>>
  BY DEF Call, Served, Look, Leave
<1> QED BY <1>1, <1>2, CallerMoves

\* A caller waits for a download that runs: the one in flight, or the one it starts.
LEMMA WaitsKeep ==
  ASSUME DeferredInv, NEW c \in Callers, Join(c) \/ Lead(c)
  PROVE  DeferredInv'
<1>1. running' = 1 /\ inFlight' = TRUE
  <2>1. CASE Join(c)
    BY <2>1 DEF DeferredInv, DeferredTypeOK, OneDownload, Join
  <2>2. CASE Lead(c)
    BY <2>2 DEF DeferredInv, OneDownload, Lead
  <2> QED BY <2>1, <2>2
<1>2. /\ ~call[c].told /\ UNCHANGED <<nzb, closed, blueprint>> /\ err' \in BOOLEAN
      /\ \E leads \in BOOLEAN : Waits(c, leads)
  BY DEF DeferredInv, DeferredTypeOK, Join, Lead, Needed
<1>3. PICK leads \in BOOLEAN :
        call' = [call EXCEPT ![c] = [call[c] EXCEPT !.pc = "wait", !.leads = leads]]
  BY <1>2 DEF Waits, DeferredInv, DeferredTypeOK
<1>4. DeferredTypeOK'
  <2>1. /\ call' \in [Callers -> [pc : {"idle", "enter", "wait", "files", "map"},
                                leads : BOOLEAN, told : BOOLEAN, plan : Plans]]
        /\ \A d \in Callers : call'[d].told => call'[d].pc = "wait"
    BY <1>3 DEF DeferredInv, DeferredTypeOK, Plans
  <2> QED BY <1>1, <1>2, <2>1 DEF DeferredInv, DeferredTypeOK
<1>5. (OneDownload /\ ClosedStaysEmpty /\ WaitedForRuns)'
  BY <1>1, <1>2 DEF DeferredInv, OneDownload, ClosedStaysEmpty, WaitedForRuns
<1> QED BY <1>4, <1>5 DEF DeferredInv

\* The end of the one download tells everybody who waits.
LEMMA DownloadEndsKeeps ==
  ASSUME DeferredInv, NEW came \in BOOLEAN, DownloadEnds(came)
  PROVE  DeferredInv'
<1>1. running' = 0 /\ inFlight' = FALSE /\ UNCHANGED <<closed, blueprint>>
  BY DEF DeferredInv, DeferredTypeOK, OneDownload, DownloadEnds
<1>2. /\ nzb' = (nzb \/ (came /\ ~closed)) /\ err' = ~(came /\ ~closed)
      /\ call' = [c \in Callers |-> IF call[c].pc = "wait" THEN [call[c] EXCEPT !.told = TRUE]
                                    ELSE call[c]]
  BY DEF DownloadEnds
<1>3. DeferredTypeOK'
  <2>1. nzb' \in BOOLEAN /\ err' \in BOOLEAN
    BY <1>2 DEF DeferredInv, DeferredTypeOK
  <2>2. /\ call' \in [Callers -> [pc : {"idle", "enter", "wait", "files", "map"},
                                leads : BOOLEAN, told : BOOLEAN, plan : Plans]]
        /\ \A c \in Callers : call'[c].told => call'[c].pc = "wait"
    BY <1>2, ZenonT(30) DEF DeferredInv, DeferredTypeOK, Plans
  <2> QED BY <1>1, <2>1, <2>2 DEF DeferredInv, DeferredTypeOK
<1>4. (OneDownload /\ ClosedStaysEmpty)'
  BY <1>1, <1>2 DEF DeferredInv, OneDownload, ClosedStaysEmpty
<1>5. WaitedForRuns'
  BY <1>2 DEF WaitedForRuns
<1> QED BY <1>3, <1>4, <1>5 DEF DeferredInv

\* Plans and closing have nothing to do with who waits.
LEMMA PlansKeep ==
  ASSUME DeferredInv,
         ForgetPlans \/ Close \/ \E c \in Callers : OpenFiles(c) \/ Mapped(c)
  PROVE  DeferredInv'
<1>1. CASE ForgetPlans
  BY <1>1 DEF ForgetPlans, Plans, DeferredInv, DeferredTypeOK, OneDownload, ClosedStaysEmpty,
              WaitedForRuns
<1>2. CASE Close
  BY <1>2 DEF Close, Plans, DeferredInv, DeferredTypeOK, OneDownload, ClosedStaysEmpty,
              WaitedForRuns
<1>3. ASSUME NEW c \in Callers, OpenFiles(c) PROVE DeferredInv'
  BY <1>3 DEF OpenFiles, NoCall, Plans, DeferredInv, DeferredTypeOK, OneDownload,
              ClosedStaysEmpty, WaitedForRuns
<1>4. ASSUME NEW c \in Callers, Mapped(c) PROVE DeferredInv'
  BY <1>4 DEF Mapped, Goes, NoCall, Plans, DeferredInv, DeferredTypeOK, OneDownload,
              ClosedStaysEmpty, WaitedForRuns
<1> QED BY <1>1, <1>2, <1>3, <1>4

LEMMA DeferredKept == DeferredInv /\ [Next]_vars => DeferredInv'
<1> SUFFICES ASSUME DeferredInv, [Next]_vars PROVE DeferredInv'
  OBVIOUS
<1>1. CASE UNCHANGED vars
  BY <1>1 DEF vars, DeferredInv, DeferredTypeOK, OneDownload, ClosedStaysEmpty, WaitedForRuns
<1>2. ASSUME NEW c \in Callers, Call(c) \/ Working(c) \/ Leave(c) PROVE DeferredInv'
  BY <1>2, CallsKeep, WaitsKeep, PlansKeep DEF Working
<1>3. CASE Downloading
  BY <1>3, DownloadEndsKeeps DEF Downloading
<1>4. CASE ForgetPlans \/ Close
  BY <1>4, PlansKeep
<1> QED BY <1>1, <1>2, <1>3, <1>4 DEF Next

\* The inductive invariant of a deferred session (GetOrDownloadNZBWithContext, Close).
THEOREM DeferredInvariant == DeferredSpec => []DeferredInv
  BY DeferredStarts, DeferredKept, PTL DEF DeferredSpec

\* However many callers need the NZB at once, and whoever of them leaves, one
\* goroutine downloads it.
THEOREM DownloadsOnce == DeferredSpec => []OneDownload
  BY DeferredInvariant, PTL DEF DeferredInv

\* A download that ends after the session was closed puts nothing into it.
THEOREM ClosedSessionsEmpty == DeferredSpec => []ClosedStaysEmpty
  BY DeferredInvariant, PTL DEF DeferredInv

\* No caller waits for a download that is over: a closed channel woke it.
THEOREM NobodyMissesTheEnd == DeferredSpec => []WaitedForRuns
  BY DeferredInvariant, PTL DEF DeferredInv

\* The state keeps its types, and only who waits has been told.
THEOREM DeferredTypeCorrect == DeferredSpec => []DeferredTypeOK
  BY DeferredInvariant, PTL DEF DeferredInv
===============================================================================
