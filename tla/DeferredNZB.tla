------------------------------ MODULE DeferredNZB ------------------------------
(***************************************************************************)
(* What a deferred session comes to hold (pkg/session/manager.go:          *)
(* GetOrDownloadNZBWithContext, SetBlueprint, Close; pkg/playback          *)
(* OpenSource).                                                            *)
(*                                                                         *)
(* A session starts with a link.  The first caller that needs the NZB      *)
(* downloads it and those that come meanwhile wait; each then looks at the *)
(* session anew, which by that time may hold something else.  With the     *)
(* files in hand a caller maps the archive and leaves the plan (blueprint) *)
(* with the session for the next one.  The session may be closed at any    *)
(* point, and an operator may have all plans forgotten.                    *)
(*                                                                         *)
(* The NZB and the loader files are set and cleared together: one flag.    *)
(* Left out: plans that come with the session from the library.            *)
(***************************************************************************)
EXTENDS Integers

CONSTANT Callers

VARIABLES nzb,       \* nzbData, files and file are set
          closed,    \* closed: the context canceled, the link gone
          inFlight,  \* nzbDownloadInFlight
          err,       \* nzbDownloadErr is set
          running,   \* download goroutines
          blueprint, \* "none", "fresh", or "stale": made before plans were forgotten
          call       \* the callers, with the plan they are making

vars == <<nzb, closed, inFlight, err, running, blueprint, call>>

Plans == {"none", "fresh", "stale"}

NoCall == [pc |-> "idle", leads |-> FALSE, told |-> FALSE, plan |-> "none"]

DeferredInit ==
  /\ nzb = FALSE /\ closed = FALSE
  /\ inFlight = FALSE /\ err = FALSE /\ running = 0
  /\ blueprint = "none"
  /\ call = [c \in Callers |-> NoCall]

-------------------------------------------------------------------------------
Goes(c, pc) == call' = [call EXCEPT ![c] = [NoCall EXCEPT !.pc = pc]]

Call(c) ==
  /\ call[c].pc = "idle"
  /\ Goes(c, "enter")
  /\ UNCHANGED <<nzb, closed, inFlight, err, running, blueprint>>

\* At the top of the loop: the NZB is there, or there is nothing to get it from.
Served(c) ==
  /\ call[c].pc = "enter" /\ (nzb \/ closed)
  /\ Goes(c, IF nzb THEN "files" ELSE "idle")
  /\ UNCHANGED <<nzb, closed, inFlight, err, running, blueprint>>

Needed(c) == call[c].pc = "enter" /\ ~nzb /\ ~closed

Waits(c, leads) == call' = [call EXCEPT ![c].pc = "wait", ![c].leads = leads]

Join(c) ==
  /\ Needed(c) /\ inFlight
  /\ Waits(c, FALSE)
  /\ UNCHANGED <<nzb, closed, inFlight, err, running, blueprint>>

Lead(c) ==
  /\ Needed(c) /\ ~inFlight
  /\ inFlight' = TRUE /\ err' = FALSE /\ running' = running + 1
  /\ Waits(c, TRUE)
  /\ UNCHANGED <<nzb, closed, blueprint>>

\* A slip: the session is not looked at again.
DownloadEndsBlindly(came) ==
  /\ running > 0
  /\ nzb' = (nzb \/ came) /\ err' = ~came
  /\ inFlight' = FALSE /\ running' = running - 1
  /\ call' = [c \in Callers |-> IF call[c].pc = "wait" THEN [call[c] EXCEPT !.told = TRUE]
                                ELSE call[c]]
  /\ UNCHANGED <<closed, blueprint>>

\* A slip: an error is passed to the leader only.
DownloadEndsQuietly(came) ==
  /\ running > 0
  /\ LET good == came /\ ~closed
     IN /\ nzb' = (nzb \/ good) /\ err' = ~good
        /\ call' = [c \in Callers |-> [call[c] EXCEPT !.told =
                       @ \/ (call[c].pc = "wait" /\ (good \/ call[c].leads))]]
  /\ inFlight' = FALSE /\ running' = running - 1
  /\ UNCHANGED <<closed, blueprint>>

\* The goroutine publishes, under the session's lock: what came for a session that
\* was closed meanwhile is dropped.
DownloadEnds(came) ==
  /\ running > 0
  /\ LET good == came /\ ~closed
     IN nzb' = (nzb \/ good) /\ err' = ~good
  /\ inFlight' = FALSE /\ running' = running - 1
  /\ call' = [c \in Callers |-> IF call[c].pc = "wait" THEN [call[c] EXCEPT !.told = TRUE]
                                ELSE call[c]]
  /\ UNCHANGED <<closed, blueprint>>

\* A slip: a follower that finds nothing waits for the next download.
LookWaitsOn(c) ==
  /\ call[c].pc = "wait" /\ call[c].told
  /\ Goes(c, IF nzb THEN "files" ELSE IF err THEN "idle"
             ELSE IF call[c].leads THEN "files" ELSE "wait")
  /\ UNCHANGED <<nzb, closed, inFlight, err, running, blueprint>>

\* Told, a caller locks the session again and takes what it finds.  A follower
\* that finds neither NZB nor error starts over; a leader returns both as nil,
\* which its caller takes for success.
Look(c) ==
  /\ call[c].pc = "wait" /\ call[c].told
  /\ Goes(c, IF nzb THEN "files" ELSE IF err THEN "idle"
             ELSE IF call[c].leads THEN "files" ELSE "enter")
  /\ UNCHANGED <<nzb, closed, inFlight, err, running, blueprint>>

\* A slip: the leader takes the download with it.
LeaveEndsFlight(c) ==
  /\ call[c].pc \in {"enter", "wait"}
  /\ inFlight' = (inFlight /\ ~call[c].leads)
  /\ Goes(c, "idle")
  /\ UNCHANGED <<nzb, closed, err, running, blueprint>>

\* The caller's context ended, or the session's; the download goes on.
Leave(c) ==
  /\ call[c].pc \in {"enter", "wait"}
  /\ Goes(c, "idle")
  /\ UNCHANGED <<nzb, closed, inFlight, err, running, blueprint>>

-------------------------------------------------------------------------------
\* OpenSource: no files is an error; a plan the session has is used again.
OpenFiles(c) ==
  /\ call[c].pc = "files"
  /\ call' = [call EXCEPT ![c] =
       IF nzb THEN [NoCall EXCEPT !.pc = "map",
                                  !.plan = IF blueprint = "none" THEN "fresh" ELSE blueprint]
       ELSE NoCall]
  /\ UNCHANGED <<nzb, closed, inFlight, err, running, blueprint>>

\* CacheReturnedBlueprint, or the archive could not be mapped.
Mapped(c) ==
  /\ call[c].pc = "map"
  /\ blueprint' \in {call[c].plan, blueprint}
  /\ Goes(c, "idle")
  /\ UNCHANGED <<nzb, closed, inFlight, err, running>>

\* ClearBlueprintCache; what callers are at was begun under the old settings.
ForgetPlans ==
  /\ ~closed
  /\ blueprint' = "none"
  /\ call' = [c \in Callers |-> IF call[c].pc = "map" THEN [call[c] EXCEPT !.plan = "stale"]
                                ELSE call[c]]
  /\ UNCHANGED <<nzb, closed, inFlight, err, running>>

Close ==
  /\ ~closed
  /\ closed' = TRUE /\ nzb' = FALSE /\ blueprint' = "none"
  /\ UNCHANGED <<inFlight, err, running, call>>

-------------------------------------------------------------------------------
Working(c) == Served(c) \/ Join(c) \/ Lead(c) \/ Look(c) \/ OpenFiles(c) \/ Mapped(c)

Downloading == \E came \in BOOLEAN : DownloadEnds(came)

Next ==
  \/ \E c \in Callers : Call(c) \/ Working(c) \/ Leave(c)
  \/ Downloading \/ ForgetPlans \/ Close

DeferredSpec == DeferredInit /\ [][Next]_vars

\* A caller runs, and a download ends: it has a minute.
FairDeferredSpec ==
  /\ DeferredSpec
  /\ WF_vars(Downloading)
  /\ \A c \in Callers : WF_vars(Working(c))

-------------------------------------------------------------------------------
(* Properties.                                                             *)

\* The variables keep their types, and only a waiting caller is told.
DeferredTypeOK ==
  /\ nzb \in BOOLEAN /\ closed \in BOOLEAN /\ inFlight \in BOOLEAN /\ err \in BOOLEAN
  /\ running \in Nat /\ blueprint \in Plans
  /\ call \in [Callers -> [pc : {"idle", "enter", "wait", "files", "map"},
                          leads : BOOLEAN, told : BOOLEAN, plan : Plans]]
  /\ \A c \in Callers : call[c].told => call[c].pc = "wait"

\* Callers that come together share one download, whoever of them leaves.
OneDownload == IF inFlight THEN running = 1 ELSE running = 0

\* A closed session stays empty, also when a download ends after the close.
ClosedStaysEmpty == closed => ~nzb

\* Nobody waits for a download that has ended.
WaitedForRuns == \A c \in Callers : call[c].pc = "wait" /\ ~call[c].told => running = 1

\* Once no new calls come, every caller returns.
CallsEnd ==
  <>[][\A c \in Callers : ~Call(c)]_vars
    => \A c \in Callers : call[c].pc # "idle" ~> call[c].pc = "idle"

\* The leader of a download that failed is given the error ("expected lazy download
\* error", manager_test.go), and goes on with an NZB only.
LeadersServed ==
  [][\A c \in Callers : call[c].leads /\ call[c].pc # "files" /\ call'[c].pc = "files"
       => nzb]_vars

\* "a closed session cannot pin NZB / unpack / loader graphs" (manager.go).
ClosedPinsNothing == closed => ~nzb /\ blueprint = "none"

\* Plans are forgotten "so subsequent playback opens rebuild unpack selection state"
\* (manager.go).
PlansRebuilt == blueprint # "stale"
===============================================================================
