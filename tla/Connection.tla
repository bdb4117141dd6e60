------------------------------ MODULE Connection ------------------------------
(***************************************************************************)
(* The NNTP connections of one provider and the commands run on them       *)
(* (pkg/usenet/nntp/client.go, pipeline.go; pkg/usenet/pool pool.go and    *)
(* pipeline.go; nntp/proxy/commands.go).                                   *)
(*                                                                         *)
(* A server answers the commands of a connection in order, and a reply     *)
(* does not say which command it answers.  A job leases a connection,      *)
(* runs its commands and hands the connection back or closes it; whatever  *)
(* it leaves unread the next job takes for an answer of its own.  A        *)
(* watchdog closes the connection of a job whose context ends, and a       *)
(* command that finds its socket dead dials another in its place.          *)
(*                                                                         *)
(* The jobs:                                                               *)
(*   "fetch"   fetchSegmentOnce: GROUP and BODY, each tried again          *)
(*   "batch"   FetchSegmentsPipelined: several BODYs before the first read *)
(*   "stat"    a probe of StatSegment: GROUP and STAT                      *)
(*   "read"    the proxy's ARTICLE, HEAD and STAT                          *)
(*   "stream"  the proxy's BODY                                            *)
(* There is one newsgroup.  The permit of a closed connection is the       *)
(* matter of ClientPool, whose channel is the set "idle" here.             *)
(***************************************************************************)
EXTENDS Integers, Sequences

CONSTANTS Conns, Jobs, Articles,
          Tasks,      \* what a job may be asked: [kind, todo], todo a sequence of articles
          Depth,      \* the commands a pipeline keeps outstanding
          MaxRetries, \* the retries of Group and of Body
          LateLogin,  \* the login of a reconnect may time out with its reply still to come
          None

Kinds == {"fetch", "batch", "stat", "read", "stream"}

ASSUME ConnectionAssumption ==
  /\ None \notin Conns /\ None \notin Articles
  /\ Tasks \subseteq [kind : Kinds, todo : Seq(Articles) \ {<<>>}]
  /\ Depth \in Nat \ {0} /\ MaxRetries \in Nat /\ LateLogin \in BOOLEAN

VARIABLES client, \* the clients: what they know of their connection, and the connection
          idle,   \* the clients parked in the pool
          job,    \* the jobs
          watch,  \* their watchdogs: "none", "watching", or "fired" and about to discard
          filed   \* the body last cached or served: as which article, of which it is, and
                  \* whether the login of its connection was answered late

vars == <<client, idle, job, watch, filed>>

\* A connection just dialed: closed is the client's flag, group what it knows of the
\* newsgroup; open and up are the two ends of the socket, selected is the server's
\* side of group, and wire holds the replies sent or owed and not read.  late tells of a
\* login whose answer came after its deadline.
Dialed == [closed |-> FALSE, group |-> "unknown", open |-> TRUE, up |-> TRUE,
           selected |-> FALSE, wire |-> <<>>, late |-> FALSE]

Gone == [Dialed EXCEPT !.closed = TRUE, !.open = FALSE]

NoJob == [pc |-> "off", kind |-> "none", conn |-> None, todo |-> <<>>, pend |-> <<>>,
          try |-> 0, resume |-> "none", cancelled |-> FALSE, ended |-> FALSE, keep |-> FALSE]

ConnectionInit ==
  /\ client = [c \in Conns |-> Gone]
  /\ idle = {}
  /\ job = [j \in Jobs |-> NoJob]
  /\ watch = [j \in Jobs |-> "none"]
  /\ filed = [as |-> None, art |-> None, late |-> FALSE]

-------------------------------------------------------------------------------
(* The server answers a command when it gets it; the answer is read later. *)

Answers(cmd) ==
  CASE cmd = "GROUP" -> {211, 411, 480}
    [] cmd = "STAT"  -> {223, 430, 480}
    [] OTHER         -> {222, 430, 480}

Success(cmd) ==
  CASE cmd = "GROUP" -> 211 [] cmd = "DATE" -> 111 [] cmd = "STAT" -> 223 [] OTHER -> 222

\* The connection once a command was sent on it.
Asked(k, cmd, a, code) ==
  [k EXCEPT !.wire = Append(@, [code |-> code, art |-> a]),
            !.selected = @ \/ code = 211]

\* Reading a status line takes the line and leaves the body that follows it (code 0).
LineRead(k) ==
  [k EXCEPT !.wire = IF Head(@).code = 222 THEN [@ EXCEPT ![1].code = 0] ELSE Tail(@)]

\* Closed, with whatever was on it.
Closed(k) == [Gone EXCEPT !.group = k.group]

-------------------------------------------------------------------------------
(* The lease: taken from the pool, ended once. *)

Kind(j) == job[j].kind
At(j, pc) == job[j].pc = pc
Watched(kind) == kind \in {"fetch", "batch", "stat"}

Begins(j, c, task) ==
  /\ job' = [job EXCEPT ![j] = [NoJob EXCEPT !.pc = "group", !.kind = task.kind,
                                             !.conn = c, !.todo = task.todo]]
  /\ watch' = [watch EXCEPT ![j] = IF Watched(task.kind) THEN "watching" ELSE "none"]

Free(j) == At(j, "off") /\ watch[j] = "none"

\* A dial of the pool, greeting and login done.
LeaseDialed(j, c, task) ==
  /\ Free(j)
  /\ client[c].closed
  /\ \A i \in Jobs : job[i].conn # c
  /\ client' = [client EXCEPT ![c] = Dialed]
  /\ Begins(j, c, task)
  /\ UNCHANGED <<idle, filed>>

\* A parked connection is handed out as it is or, idle for long, when DATE has its answer.
LeaseIdle(j, c, task) ==
  /\ Free(j)
  /\ c \in idle
  /\ idle' = idle \ {c}
  /\ Begins(j, c, task)
  /\ \/ UNCHANGED client
     \/ /\ client[c].open /\ client[c].up
        /\ LET wire == Asked(client[c], "DATE", None, 111).wire
           IN /\ Head(wire).code = 111
              /\ client' = [client EXCEPT ![c].wire = Tail(wire)]
  /\ UNCHANGED filed

\* The check fails, the reaper comes by, or the pool moves to another account.
CloseIdle(c) ==
  /\ c \in idle
  /\ idle' = idle \ {c}
  /\ client' = [client EXCEPT ![c] = Closed(@)]
  /\ UNCHANGED <<job, watch, filed>>

\* The context of a job ends.
Cancel(j) ==
  /\ Watched(Kind(j)) /\ ~job[j].cancelled
  /\ job' = [job EXCEPT ![j].cancelled = TRUE]
  /\ UNCHANGED <<client, idle, watch, filed>>

WatchFires(j) ==
  /\ watch[j] = "watching" /\ job[j].cancelled
  /\ watch' = [watch EXCEPT ![j] = "fired"]
  /\ UNCHANGED <<client, idle, job, filed>>

\* A slip: discard looks only at the connection, not at the lease.
WatchDiscardsAnyway(j) ==
  /\ watch[j] = "fired"
  /\ watch' = [watch EXCEPT ![j] = "none"]
  /\ client' = [client EXCEPT ![job[j].conn] = Closed(@)]
  /\ job' = [job EXCEPT ![j] = IF At(j, "off") THEN NoJob ELSE [@ EXCEPT !.ended = TRUE]]
  /\ UNCHANGED <<idle, filed>>

\* A slip: a command under way is left to finish.
WatchDiscardsBetween(j) ==
  /\ watch[j] = "fired"
  /\ watch' = [watch EXCEPT ![j] = "none"]
  /\ LET busy == job[j].pc \in {"groupReply", "reply", "body"}
     IN /\ IF job[j].ended \/ busy THEN UNCHANGED client
           ELSE client' = [client EXCEPT ![job[j].conn] = Closed(@)]
        /\ job' = [job EXCEPT ![j] = IF At(j, "off") THEN NoJob ELSE [@ EXCEPT !.ended = ~busy]]
  /\ UNCHANGED <<idle, filed>>

\* The watchdog's discard closes the connection unless the lease has ended.
WatchDiscards(j) ==
  /\ watch[j] = "fired"
  /\ watch' = [watch EXCEPT ![j] = "none"]
  /\ IF job[j].ended THEN UNCHANGED client
     ELSE client' = [client EXCEPT ![job[j].conn] = Closed(@)]
  /\ job' = [job EXCEPT ![j] = IF At(j, "off") THEN NoJob ELSE [@ EXCEPT !.ended = TRUE]]
  /\ UNCHANGED <<idle, filed>>

\* The end of a job: the watchdog is told to stop, which it may learn too late, then
\* the connection is handed back (keep) or discarded, unless the watchdog was first.
\* The pool closes what it has no use for.
End(j) ==
  LET c == job[j].conn
      stopped == IF job[j].cancelled /\ watch[j] = "watching" THEN {"none", "fired"}
                 ELSE IF watch[j] = "watching" THEN {"none"} ELSE {watch[j]}
  IN /\ At(j, "end")
     /\ \E w \in stopped :
          /\ watch' = [watch EXCEPT ![j] = w]
          /\ job' = [job EXCEPT ![j] = IF w = "none" THEN NoJob
                                       ELSE [NoJob EXCEPT !.conn = c, !.ended = TRUE]]
     /\ \/ job[j].ended /\ UNCHANGED <<client, idle>>
        \/ ~job[j].ended /\ job[j].keep
           /\ idle' = idle \union {c} /\ UNCHANGED client
        \/ ~job[j].ended
           /\ client' = [client EXCEPT ![c] = Closed(@)] /\ UNCHANGED idle
     /\ UNCHANGED filed

-------------------------------------------------------------------------------
(* What becomes of a job after a command. *)

Conn(j) == client[job[j].conn]

Moves(j, pc) == job' = [job EXCEPT ![j].pc = pc]

Ends(j, keep) == job' = [job EXCEPT ![j].pc = "end", ![j].keep = keep]

\* Group gave up.  A fetch and a batch release the connection with any error they
\* have, the others discard it.
GroupFails(j) == Ends(j, Kind(j) \in {"fetch", "batch"})

\* The command failed without a status line, and no one knows what is on the wire:
\* Group and Body dial again, the others give the connection up.
Fails(j, resume) ==
  IF resume # "body" \/ Kind(j) = "fetch"
  THEN job' = [job EXCEPT ![j].pc = "redial", ![j].resume = resume]
  ELSE Ends(j, FALSE)

\* The next round of Group or of Body.
Again(j, pc) ==
  IF job[j].try < MaxRetries
  THEN job' = [job EXCEPT ![j].pc = pc, ![j].try = @ + 1,
                          ![j].todo = job[j].pend \o @, ![j].pend = <<>>]
  ELSE IF pc = "group" THEN GroupFails(j) ELSE Ends(j, TRUE)

\* Back from Reconnect.  Group goes on after a reply that did not come even if the
\* reconnect failed.
Reconnected(j, ok) ==
  CASE job[j].resume = "groupRead"           -> Again(j, "group")
    [] job[j].resume = "groupWrite" /\ ok    -> Again(j, "group")
    [] job[j].resume = "groupWrite" /\ ~ok   -> GroupFails(j)
    [] job[j].resume = "body" /\ ok          -> Again(j, "ask")
    [] OTHER                                 -> Ends(j, TRUE)

-------------------------------------------------------------------------------
(* The commands. *)

\* A write that fails may have reached the server; what it left on the wire goes with
\* the socket, which Fails gives up in every case.
Write(j, cmd, a) ==
  /\ Conn(j).open /\ Conn(j).up
  /\ \E code \in Answers(cmd) :
       client' = [client EXCEPT ![job[j].conn] = Asked(@, cmd, a, code)]

\* There is a status line to read.
HasLine(j) == Conn(j).open /\ Conn(j).wire # <<>> /\ Head(Conn(j).wire).code # 0

Line(j) == Head(Conn(j).wire).code

\* The line is read, and the client knows g of its newsgroup.
Reads(j, g) ==
  client' = [client EXCEPT ![job[j].conn] = [LineRead(@) EXCEPT !.group = g]]

\* GROUP is skipped when selected or, by SelectGroupForArticle, known to be refused.
NeedsGroup(j) ==
  Conn(j).group = "unknown" \/ (Conn(j).group = "refused" /\ ~Watched(Kind(j)))

SkipGroup(j) ==
  /\ At(j, "group") /\ ~NeedsGroup(j)
  /\ Moves(j, "ask")
  /\ UNCHANGED <<client, idle, watch, filed>>

AskGroup(j) ==
  /\ At(j, "group") /\ NeedsGroup(j)
  /\ \/ Write(j, "GROUP", None) /\ Moves(j, "groupReply")
     \/ UNCHANGED client /\ Fails(j, "groupWrite")
  /\ UNCHANGED <<idle, watch, filed>>

ToArticles(j) == job' = [job EXCEPT ![j].pc = "ask", ![j].try = 0]

GroupSelected(j) ==
  /\ At(j, "groupReply") /\ HasLine(j) /\ Line(j) = 211
  /\ Reads(j, "selected") /\ ToArticles(j)
  /\ UNCHANGED <<idle, watch, filed>>

GroupRefused(j) ==
  /\ At(j, "groupReply") /\ HasLine(j) /\ Line(j) \notin {211, 480}
  /\ IF Watched(Kind(j)) THEN Reads(j, "refused") /\ ToArticles(j)
     ELSE Reads(j, Conn(j).group) /\ GroupFails(j)
  /\ UNCHANGED <<idle, watch, filed>>

\* Asked to log in again; or no status line: the deadline passes, the socket is gone
\* or was closed, the line is none.
GroupUnanswered(j) ==
  /\ At(j, "groupReply")
  /\ \/ HasLine(j) /\ Line(j) = 480 /\ Reads(j, Conn(j).group)
     \/ UNCHANGED client
  /\ Fails(j, "groupRead")
  /\ UNCHANGED <<idle, watch, filed>>

Window(j) == IF Kind(j) = "batch" THEN Depth ELSE 1

\* BODY, STAT or ARTICLE for the next article; a batch sends as many as its window
\* has room for.
Ask(j) ==
  LET todo == Tail(job[j].todo)
      pend == Append(job[j].pend, Head(job[j].todo))
      more == todo # <<>> /\ Len(pend) < Window(j)
  IN /\ At(j, "ask")
     /\ \/ /\ Write(j, IF Kind(j) = "stat" THEN "STAT" ELSE "BODY", Head(job[j].todo))
           /\ job' = [job EXCEPT ![j].pc = IF more THEN "ask" ELSE "reply",
                                 ![j].todo = todo, ![j].pend = pend]
        \/ UNCHANGED client /\ Fails(j, "body")
     /\ UNCHANGED <<idle, watch, filed>>

\* A batch is done with the oldest of its articles.
NextOfBatch(j) ==
  LET pend == Tail(job[j].pend)
  IN job' = [job EXCEPT ![j].pend = pend,
                        ![j].pc = IF job[j].todo # <<>> THEN "ask"
                                  ELSE IF pend # <<>> THEN "reply" ELSE "end",
                        ![j].keep = TRUE]

BodyBegins(j) ==
  /\ At(j, "reply") /\ Kind(j) # "stat" /\ HasLine(j) /\ Line(j) = 222
  /\ Reads(j, Conn(j).group)
  /\ Moves(j, "body")
  /\ UNCHANGED <<idle, watch, filed>>

\* A slip: an article refused keeps its place in the batch.
StatusKeepsPlace(j) ==
  /\ At(j, "reply") /\ HasLine(j)
  /\ Reads(j, Conn(j).group)
  /\ CASE Kind(j) = "stat"                   -> Ends(j, Line(j) \in {223, 430})
       [] Kind(j) = "fetch" /\ Line(j) = 480 -> Fails(j, "body")
       [] Kind(j) = "batch"                  -> Line(j) # 222 /\ Moves(j, "reply")
       [] Kind(j) = "stream"                 -> Line(j) # 222 /\ Moves(j, "drain")
       [] OTHER                              -> Line(j) # 222 /\ Ends(j, TRUE)
  /\ UNCHANGED <<idle, watch, filed>>

\* Any other status.  StreamBody looks for a body to drain, also now.
StatusAnswered(j) ==
  /\ At(j, "reply") /\ HasLine(j)
  /\ Reads(j, Conn(j).group)
  /\ CASE Kind(j) = "stat"                   -> Ends(j, Line(j) \in {223, 430})
       [] Kind(j) = "fetch" /\ Line(j) = 480 -> Fails(j, "body")
       [] Kind(j) = "batch"                  -> Line(j) # 222 /\ NextOfBatch(j)
       [] Kind(j) = "stream"                 -> Line(j) # 222 /\ Moves(j, "drain")
       [] OTHER                              -> Line(j) # 222 /\ Ends(j, TRUE)
  /\ UNCHANGED <<idle, watch, filed>>

NoReply(j) ==
  /\ At(j, "reply")
  /\ IF Kind(j) = "stream" THEN Moves(j, "drain") ELSE Fails(j, "body")
  /\ UNCHANGED <<client, idle, watch, filed>>

\* The body is read to its end.
Drained(j) ==
  /\ At(j, "body") /\ Conn(j).open /\ Conn(j).wire # <<>> /\ Head(Conn(j).wire).code = 0
  /\ client' = [client EXCEPT ![job[j].conn].wire = Tail(@)]

Files(j) ==
  filed' = [as |-> Head(job[j].pend), art |-> Head(Conn(j).wire).art, late |-> Conn(j).late]

\* A slip: a batch that stops early does not look what it has outstanding.
BodyFiledUnpoisoned(j) ==
  /\ Drained(j)
  /\ IF job[j].cancelled
     THEN /\ Ends(j, TRUE)
          /\ UNCHANGED filed
     ELSE /\ IF Kind(j) = "batch" THEN NextOfBatch(j) ELSE Ends(j, TRUE)
          /\ Files(j)
  /\ UNCHANGED <<idle, watch>>

\* It is filed under the article that was asked for, unless the context has ended: then
\* a batch stops, and whatever it has outstanding makes the connection unfit to keep.
BodyFiled(j) ==
  /\ Drained(j)
  /\ IF job[j].cancelled
     THEN /\ Ends(j, Len(job[j].pend) = 1)
          /\ UNCHANGED filed
     ELSE /\ IF Kind(j) = "batch" THEN NextOfBatch(j) ELSE Ends(j, TRUE)
          /\ Files(j)
  /\ UNCHANGED <<idle, watch>>

\* It does not decode.
BodyCorrupt(j) ==
  /\ Drained(j) /\ Kind(j) \in {"fetch", "batch"}
  /\ IF Kind(j) = "batch" THEN NextOfBatch(j) ELSE Ends(j, FALSE)
  /\ UNCHANGED <<idle, watch, filed>>

\* The body breaks off, or its reader does.
BodyCut(j) ==
  /\ At(j, "body")
  /\ IF Kind(j) = "stream" THEN Moves(j, "drain") ELSE Ends(j, FALSE)
  /\ UNCHANGED <<client, idle, watch, filed>>

\* Whatever came of it, StreamBody's error has the connection discarded.
Drain(j) ==
  /\ At(j, "drain")
  /\ Ends(j, FALSE)
  /\ UNCHANGED <<client, idle, watch, filed>>

-------------------------------------------------------------------------------
(* Reconnect: the old socket is closed and another dialed outside the lock. *)

Redial(j) ==
  /\ At(j, "redial")
  /\ IF Conn(j).closed
     THEN Reconnected(j, FALSE) /\ UNCHANGED client
     ELSE /\ Moves(j, "dial")
          /\ client' = [client EXCEPT ![job[j].conn].open = FALSE,
                                      ![job[j].conn].group = "unknown"]
  /\ UNCHANGED <<idle, watch, filed>>

Dial(j) ==
  /\ At(j, "dial")
  /\ Moves(j, "install") \/ Reconnected(j, FALSE)
  /\ UNCHANGED <<client, idle, watch, filed>>

\* A slip: closed is looked at before the dial only.
InstallUnchecked(j) ==
  /\ At(j, "install")
  /\ Moves(j, "login")
  /\ client' = [client EXCEPT ![job[j].conn] =
                   [Dialed EXCEPT !.group = Conn(j).group, !.closed = Conn(j).closed]]
  /\ UNCHANGED <<idle, watch, filed>>

\* A client closed meanwhile does not get the new socket.
Install(j) ==
  /\ At(j, "install")
  /\ IF Conn(j).closed
     THEN Reconnected(j, FALSE) /\ UNCHANGED client
     ELSE /\ Moves(j, "login")
          /\ client' = [client EXCEPT ![job[j].conn] = [Dialed EXCEPT !.group = Conn(j).group]]
  /\ UNCHANGED <<idle, watch, filed>>

\* AUTHINFO USER and PASS: accepted; refused, or the socket closed under it; or without
\* an answer by the deadline, which may still come.
Login(j) ==
  /\ At(j, "login")
  /\ \/ Conn(j).open /\ Conn(j).up /\ Reconnected(j, TRUE) /\ UNCHANGED client
     \/ Reconnected(j, FALSE) /\ UNCHANGED client
     \/ /\ LateLogin /\ Conn(j).open /\ Conn(j).up
        /\ Reconnected(j, FALSE)
        /\ client' = [client EXCEPT ![job[j].conn].wire = <<[code |-> 281, art |-> None]>>,
                                    ![job[j].conn].late = TRUE]
  /\ UNCHANGED <<idle, watch, filed>>

\* The server drops a connection, and what it had not delivered with it.
Drop(c) ==
  /\ client[c].open /\ client[c].up
  /\ client' = [client EXCEPT ![c].up = FALSE, ![c].wire = <<>>]
  /\ UNCHANGED <<idle, job, watch, filed>>

-------------------------------------------------------------------------------
Lease(j) ==
  \E c \in Conns, task \in Tasks : LeaseDialed(j, c, task) \/ LeaseIdle(j, c, task)

Command(j) ==
  \/ SkipGroup(j) \/ AskGroup(j) \/ GroupSelected(j) \/ GroupRefused(j) \/ GroupUnanswered(j)
  \/ Ask(j) \/ BodyBegins(j) \/ StatusAnswered(j) \/ NoReply(j)
  \/ BodyFiled(j) \/ BodyCorrupt(j) \/ BodyCut(j) \/ Drain(j)

Reconnect(j) == Redial(j) \/ Dial(j) \/ Install(j) \/ Login(j)

Watchdog(j) == WatchFires(j) \/ WatchDiscards(j)

ConnectionNext ==
  \/ \E j \in Jobs : Lease(j) \/ Command(j) \/ Reconnect(j) \/ End(j) \/ Cancel(j) \/ Watchdog(j)
  \/ \E c \in Conns : CloseIdle(c) \/ Drop(c)

ConnectionSpec == ConnectionInit /\ [][ConnectionNext]_vars

\* Only the watchdogs are sure to run: neither the server nor a deadline is relied on.
WatchedSpec == ConnectionSpec /\ \A j \in Jobs : WF_vars(WatchFires(j)) /\ WF_vars(WatchDiscards(j))
-------------------------------------------------------------------------------
(* Properties *)

Replies == [code : {0, 111, 211, 222, 223, 281, 411, 430, 480}, art : Articles \union {None}]

Clients ==
  [closed : BOOLEAN, open : BOOLEAN, up : BOOLEAN, selected : BOOLEAN, late : BOOLEAN,
   group : {"unknown", "selected", "refused"}, wire : Seq(Replies)]

Calls ==
  [pc : {"off", "group", "groupReply", "ask", "reply", "body", "drain", "redial", "dial",
         "install", "login", "end"},
   kind : Kinds \union {"none"}, conn : Conns \union {None},
   todo : Seq(Articles), pend : Seq(Articles), try : 0 .. MaxRetries,
   resume : {"none", "groupWrite", "groupRead", "body"},
   cancelled : BOOLEAN, ended : BOOLEAN, keep : BOOLEAN]

Bodies == [as : Articles \union {None}, art : Articles \union {None}, late : BOOLEAN]

\* Every variable has its type.
ConnectionTypeOK ==
  /\ client \in [Conns -> Clients] /\ idle \subseteq Conns
  /\ job \in [Jobs -> Calls] /\ watch \in [Jobs -> {"none", "watching", "fired"}]
  /\ filed \in Bodies

\* What is cached or served as an article is that article's body: no command is handed
\* the reply to another (errors.go, LeavesConnectionInSync: "a reply to a question it
\* never asked"), except on a connection whose login was answered after its deadline.
BodiesOwn == ~filed.late => filed.art = filed.as

\* A parked connection that still works owes no reply and is not in the middle of one,
\* except one whose login was answered after its deadline.
ParkedInSync ==
  \A c \in idle : client[c].open /\ ~client[c].late => client[c].wire = <<>>

\* What the comment says without the exception; the code breaks it, MCConnLate.cfg.
BodiesAlwaysOwn == filed.art = filed.as

\* A closed client has no socket: a reconnect that overlaps the close of its client leaves
\* no connection that nothing owns (client.go, the comment on lifecycle).
NoOrphan == \A c \in Conns : client[c].closed => ~client[c].open

\* A leased connection is the job's alone and no one else's to close: not parked, not held
\* by another, not closed before the lease has ended.
LeaseUndisturbed ==
  \A j \in Jobs : ~At(j, "off") /\ ~job[j].ended =>
    /\ ~Conn(j).closed /\ job[j].conn \notin idle
    /\ \A i \in Jobs \ {j} : job[i].conn = job[j].conn => job[i].ended

\* A client skips GROUP only on a connection that has the group selected.
GroupTrue ==
  \A c \in Conns : client[c].open /\ client[c].group = "selected" => client[c].selected

\* When the context of a job ends its connection is closed or handed back, whatever the
\* server does: only the watchdog is relied on.
AbandonedEnds == \A j \in Jobs : job[j].cancelled ~> (At(j, "off") \/ Conn(j).closed)

===============================================================================
