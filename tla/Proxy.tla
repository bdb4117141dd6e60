--------------------------------- MODULE Proxy ---------------------------------
(***************************************************************************)
(* The NNTP proxy (pkg/usenet/nntp/proxy: server.go, session.go,           *)
(* commands.go; StreamBody of nntp/client.go).                             *)
(*                                                                         *)
(* A downloader sends commands; a session answers each before it reads the *)
(* next.  An article command walks the providers: it leases a connection,  *)
(* selects the group, asks, and goes on to the next provider when that     *)
(* came to nothing, the backups last.  A body is relayed while it comes in, *)
(* through a buffer that goes out when it is full, so a provider may break *)
(* off when part of its answer is out already.                             *)
(*                                                                         *)
(* A response is a sequence of lines: "one", a status line that is all of  *)
(* it; "222", "line" and "." for what has a text; "400", "430" and "500".  *)
(* The connections are a number for each provider; what a command does to  *)
(* its connection is the matter of Connection.                             *)
(***************************************************************************)
EXTENDS Integers, Sequences, FiniteSets

CONSTANTS Sessions, Primaries, Backups,
          Down,     \* providers that cannot be reached
          Slots,    \* the connections of each provider
          Readers,  \* downloaders that read what they are sent, as long as they stay
          Outcomes, \* what may come of asking: "have", "missing", "broken", "reset" when
                    \* the connection is before an answer, "cut" when it is within a body
          MaxLines, \* bound on the lines of a body
          NeedsLogin,
          None

Providers == Primaries \union Backups

ASSUME ProxyAssumption ==
  /\ Primaries \intersect Backups = {} /\ Down \subseteq Providers /\ None \notin Providers
  /\ Outcomes \subseteq {"have", "missing", "broken", "reset", "cut"}
  /\ Readers \subseteq Sessions
  /\ Slots \in Nat \ {0} /\ MaxLines \in Nat /\ NeedsLogin \in BOOLEAN

VARIABLE session \* of each downloader, none or what it has come to

\* mixed: a provider's reset within the body of this response was taken for the
\* downloader's.
NoSession == [pc |-> "none", authed |-> FALSE, group |-> FALSE, leaving |-> FALSE, quit |-> FALSE,
              body |-> FALSE, late |-> FALSE, backup |-> FALSE, reached |-> FALSE, mixed |-> FALSE,
              exclude |-> {}, lease |-> None, buffer |-> <<>>, sent |-> <<>>]

ProxyInit == session = [s \in Sessions |-> NoSession]

-------------------------------------------------------------------------------
(* A connection of a downloader; accepting it needs the listener, ending it does not. *)

At(s, pc) == session[s].pc = pc

Sets(s, r) == session' = [session EXCEPT ![s] = r]

Accept(s) ==
  /\ At(s, "none")
  /\ Sets(s, [NoSession EXCEPT !.pc = "ready", !.authed = ~NeedsLogin])

\* The downloader hangs up, where a session would notice: when it reads or writes.
HangUp(s) ==
  /\ session[s].pc \in {"ready", "body", "write", "flush"} /\ ~session[s].leaving
  /\ Sets(s, [session[s] EXCEPT !.leaving = TRUE])

-------------------------------------------------------------------------------
(* handleConnection: a command is read, handled, and its response flushed. *)

\* The response so far: what the client has of it and what is in the buffer.
Response(s) == session[s].sent \o session[s].buffer

Responds(s, r, lines) == Sets(s, [r EXCEPT !.buffer = @ \o lines, !.pc = "flush"])

\* Commands answered here: CAPABILITIES, LIST, DATE, MODE and what is not known; and
\* everything but these and AUTHINFO before the login.
Local(s) ==
  /\ At(s, "ready") /\ ~session[s].leaving
  /\ Responds(s, session[s], <<"one">>)

Quit(s) ==
  /\ At(s, "ready") /\ ~session[s].leaving
  /\ Responds(s, [session[s] EXCEPT !.quit = TRUE], <<"one">>)

AuthInfo(s) ==
  /\ At(s, "ready") /\ ~session[s].leaving
  /\ Responds(s, [session[s] EXCEPT !.authed = TRUE], <<"one">>)

Group(s) ==
  /\ At(s, "ready") /\ ~session[s].leaving /\ session[s].authed
  /\ Responds(s, [session[s] EXCEPT !.group = TRUE], <<"one">>)

\* BODY, or ARTICLE, HEAD and STAT, start on forEachProvider.
Article(s, body) ==
  /\ At(s, "ready") /\ ~session[s].leaving /\ session[s].authed
  /\ Sets(s, [session[s] EXCEPT !.pc = "lease", !.body = body])

\* forEachProvider has returned, and the connection with it.
Returned(s) ==
  [session[s] EXCEPT !.body = FALSE, !.lease = None, !.exclude = {}, !.late = FALSE,
                     !.backup = FALSE, !.reached = FALSE]

\* A handler's error is told to the client, unless the handler has the session quit.
Fails(s, mixed) == Responds(s, [Returned(s) EXCEPT !.mixed = mixed], <<"500">>)

Aborts(s) == Responds(s, [Returned(s) EXCEPT !.quit = TRUE], <<>>)

\* A client that left ends the session, and so does a command that asked to.  One that
\* neither reads nor leaves holds the write up: it has no deadline.
Flush(s) ==
  /\ At(s, "flush")
  /\ Sets(s, IF session[s].leaving \/ session[s].quit THEN NoSession
             ELSE [NoSession EXCEPT !.pc = "ready", !.authed = session[s].authed,
                                    !.group = session[s].group])

SessionEnds(s) ==
  /\ At(s, "ready") /\ session[s].leaving
  /\ Sets(s, NoSession)

-------------------------------------------------------------------------------
(* forEachProvider. *)

Tier(s) == IF session[s].backup THEN Backups ELSE Primaries

\* Those GetConnection may still hand out a connection of.
Open(s) == (Tier(s) \ session[s].exclude) \ Down

InUse(p) == Cardinality({s \in Sessions : session[s].lease = p})

\* The thirty seconds for connections are over, which only a lease notices.
Expire(s) ==
  /\ At(s, "lease") /\ ~session[s].late
  /\ Sets(s, [session[s] EXCEPT !.late = TRUE])

\* Which provider of the tier is GetConnection's choice.  A connection parked in the pool
\* may be taken even when the time is over: the select of TryGet looks at the context and
\* at the channel in no order.
Lease(s, p) ==
  /\ At(s, "lease") /\ p \in Open(s) /\ InUse(p) < Slots
  /\ Sets(s, [session[s] EXCEPT !.pc = IF session[s].group THEN "group" ELSE "ask",
                                !.lease = p, !.reached = TRUE])

\* No connection of this tier.  The backups are next; then a client that no provider was
\* asked for is told to come back, and the others that the article is gone.
NoLease(s) ==
  /\ At(s, "lease") /\ (Open(s) = {} \/ session[s].late)
  /\ IF ~session[s].backup /\ Backups # {}
     THEN Sets(s, [session[s] EXCEPT !.backup = TRUE])
     ELSE IF session[s].reached
     THEN Responds(s, [Returned(s) EXCEPT !.exclude = session[s].exclude], <<"430">>)
     ELSE Responds(s, [Returned(s) EXCEPT !.quit = TRUE], <<"400">>)

\* A slip: a provider that failed may be asked again.
ExcludedForgets(s) == [session[s] EXCEPT !.pc = "lease", !.lease = None]

\* The connection is given back and the next provider asked.
Excluded(s) ==
  [session[s] EXCEPT !.pc = "lease", !.lease = None, !.exclude = @ \union {session[s].lease}]

GroupSelected(s) ==
  /\ At(s, "group")
  /\ Sets(s, [session[s] EXCEPT !.pc = "ask"])

\* Refused or failed, ensureGroup does not tell.
GroupFails(s) ==
  /\ At(s, "group")
  /\ Sets(s, Excluded(s))

\* ARTICLE, HEAD and STAT: the answer is complete before any of it is written.
Answered(s) ==
  /\ At(s, "ask") /\ ~session[s].body /\ "have" \in Outcomes
  /\ \E lines \in {<<"one">>, <<"222", "line", ".">>} :
       Responds(s, Returned(s), lines)

NotAnswered(s) ==
  /\ At(s, "ask") /\ ~session[s].body
  /\ Outcomes \intersect {"missing", "broken", "reset"} # {}
  /\ Sets(s, Excluded(s))

-------------------------------------------------------------------------------
(* BODY: StreamBody writes into the session's buffer what comes in. *)

BodyBegins(s) ==
  /\ At(s, "ask") /\ session[s].body /\ "have" \in Outcomes
  /\ Sets(s, [session[s] EXCEPT !.pc = "body", !.buffer = <<"222">>])

\* A refusal: the body StreamBody drains then is none, so it waits for its deadline of
\* sixty seconds, longer than connections may be waited for.
BodyRefused(s) ==
  /\ At(s, "ask") /\ session[s].body /\ "missing" \in Outcomes
  /\ Sets(s, [Excluded(s) EXCEPT !.late = TRUE])

\* An error that reads like one of the client's ends the command, and the session says so
\* and goes on even when it is the provider's and half a body is out.
BodyReset(s) ==
  /\ session[s].body
  /\ (At(s, "ask") /\ "reset" \in Outcomes) \/ (At(s, "body") /\ "cut" \in Outcomes)
  /\ Fails(s, At(s, "body"))

\* A slip: the next provider starts over whatever has gone out.
BodyBreaksAnew(s) ==
  /\ session[s].pc \in {"ask", "body"} /\ session[s].body /\ "broken" \in Outcomes
  /\ Sets(s, [Excluded(s) EXCEPT !.buffer = <<>>])

\* A slip: a body cut off is all there is.
BodyBreaksQuietly(s) ==
  /\ session[s].pc \in {"ask", "body"} /\ session[s].body /\ "broken" \in Outcomes
  /\ IF session[s].sent # <<>>
     THEN Responds(s, Returned(s), <<>>)
     ELSE Sets(s, [Excluded(s) EXCEPT !.buffer = <<>>])

\* Any other: what is in the buffer is taken back, if nothing of it has gone out.
BodyBreaks(s) ==
  /\ session[s].pc \in {"ask", "body"} /\ session[s].body /\ "broken" \in Outcomes
  /\ IF session[s].sent # <<>>
     THEN Aborts(s)
     ELSE Sets(s, [Excluded(s) EXCEPT !.buffer = <<>>])

BodyLine(s) ==
  /\ At(s, "body") /\ Len(Response(s)) <= MaxLines
  /\ Sets(s, [session[s] EXCEPT !.buffer = Append(@, "line")])

\* The buffer is full, and the next line waits for the socket to take what is in it.
BufferFull(s) ==
  /\ At(s, "body") /\ session[s].buffer # <<>>
  /\ Sets(s, [session[s] EXCEPT !.pc = "write"])

\* It goes out; to a client that left nothing goes out any more.
Spill(s) ==
  /\ At(s, "write")
  /\ Sets(s, IF session[s].leaving
             THEN [Returned(s) EXCEPT !.pc = "flush", !.buffer = <<>>]
             ELSE [session[s] EXCEPT !.pc = "body", !.sent = Response(s), !.buffer = <<>>])

BodyEnds(s) ==
  /\ At(s, "body")
  /\ Responds(s, Returned(s), <<".">>)

-------------------------------------------------------------------------------
Works(s) ==
  \/ \E p \in Providers : Lease(s, p)
  \/ NoLease(s) \/ GroupSelected(s) \/ GroupFails(s) \/ Answered(s) \/ NotAnswered(s)
  \/ BodyBegins(s) \/ BodyRefused(s) \/ BodyReset(s) \/ BodyBreaks(s)
  \/ BodyLine(s) \/ BufferFull(s) \/ BodyEnds(s) \/ SessionEnds(s)

\* The steps that wait for the downloader's end of the connection.
Writes(s) == Spill(s) \/ Flush(s)

Reads(s) ==
  \/ Local(s) \/ Quit(s) \/ AuthInfo(s) \/ Group(s)
  \/ \E body \in BOOLEAN : Article(s, body)

ProxyNext ==
  \E s \in Sessions : Accept(s) \/ HangUp(s) \/ Reads(s) \/ Expire(s) \/ Works(s) \/ Writes(s)

ProxySpec == ProxyInit /\ [][ProxyNext]_session

\* What is written to this downloader is taken or fails.
Drains(s) == s \in Readers \/ session[s].leaving

\* Goroutines run, commands on a provider's connection have a deadline, and so has the wait
\* for one.  A write to the downloader has none, so it is fair only where the downloader
\* reads or has left.
FairProxySpec ==
  /\ ProxySpec
  /\ \A s \in Sessions : WF_session(Works(s) \/ Expire(s) \/ (Drains(s) /\ Writes(s)))

-------------------------------------------------------------------------------
(* Properties *)

Statuses == {"one", "222", "400", "430", "500"}

\* Every variable has its type.
ProxyTypeOK ==
  \A s \in Sessions :
    /\ session[s].pc \in {"none", "ready", "flush", "lease", "group", "ask", "body", "write"}
    /\ session[s].exclude \subseteq Providers /\ session[s].lease \in Providers \union {None}
    /\ Response(s) \in Seq(Statuses \union {"line", "."})

\* A response has one status line, at its start, and nothing after its end: "a second
\* status line would land inside the first body" (commands.go, handleBody).  The one
\* exception the code makes: where a provider's reset within a body was taken for the
\* downloader's, an error line, and nothing more, ends what came in of the body.
OneStatusLine ==
  \A s \in Sessions : \A i \in 2 .. Len(Response(s)) :
    /\ \/ Response(s)[i] \notin Statuses
       \/ session[s].mixed /\ i = Len(Response(s)) /\ Response(s)[i] = "500"
    /\ Response(s)[1] = "222" /\ Response(s)[i - 1] # "."

\* When a response goes out and the session goes on, the response is whole: a body that
\* broke off in the middle ends the session, unless a reset of the provider's was taken for
\* the downloader's, and then it ends in the error line.
AnswersWhole ==
  \A s \in Sessions : At(s, "flush") /\ ~session[s].quit /\ ~session[s].leaving =>
    /\ Response(s) # <<>>
    /\ Response(s)[1] = "222" =>
         Response(s)[Len(Response(s))] = IF session[s].mixed THEN "500" ELSE "."

\* What the comment says without the exception; the code breaks it, MCProxyReset.cfg.
NoLineWithinBody ==
  \A s \in Sessions : \A i \in 2 .. Len(Response(s)) : Response(s)[i] \notin Statuses

\* A session holds a connection only while it asks a provider: it gives it back before it
\* turns to the next one and whichever way the command ends.
NothingHeld ==
  \A s \in Sessions :
    session[s].lease # None => session[s].pc \in {"group", "ask", "body", "write"}

\* "430 would poison the article" (session_test.go): it is said only when every provider
\* that can be reached was asked.
RefusedByAll ==
  \A s \in Sessions : Response(s) = <<"430">> => Providers \ Down \subseteq session[s].exclude

\* A command is answered or its session ends, of every downloader that reads its answers
\* or has left, also beside one that does neither and keeps a provider's connection.
CommandsEnd ==
  \A s \in Sessions :
    session[s].pc # "ready" /\ Drains(s) ~> session[s].pc \in {"ready", "none"}
===============================================================================
