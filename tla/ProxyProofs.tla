----------------------------- MODULE ProxyProofs -----------------------------
(***************************************************************************)
(* What Proxy promises for any number of downloaders and providers, for    *)
(* bodies of any length and whatever comes of asking.                      *)
(***************************************************************************)
EXTENDS Proxy, FiniteSetTheorems, SequenceTheorems, TLAPS

Lines == Statuses \union {"line", "."}

SessionRecord ==
  [pc : {"none", "ready", "flush", "lease", "group", "ask", "body", "write"},
   authed : BOOLEAN, group : BOOLEAN, leaving : BOOLEAN, quit : BOOLEAN, body : BOOLEAN,
   late : BOOLEAN, backup : BOOLEAN, reached : BOOLEAN, mixed : BOOLEAN,
   exclude : SUBSET Providers, lease : Providers \union {None},
   buffer : Seq(Lines), sent : Seq(Lines)]

\* The forms of a response: what OneStatusLine and AnswersWhole ask of one, a body that has
\* begun and not ended, and one that an error line broke off.
Proper(q) ==
  \A i \in 2 .. Len(q) : q[i] \notin Statuses /\ q[1] = "222" /\ q[i - 1] # "."

Whole(q) ==
  /\ q # <<>>
  /\ q[1] = "222" => q[Len(q)] = "."

Begun(q) ==
  /\ q # <<>> /\ q[1] = "222"
  /\ \A i \in 2 .. Len(q) : q[i] = "line"

CutOff(q) ==
  /\ Len(q) \in Nat \ {0, 1} /\ q[1] = "222" /\ q[Len(q)] = "500"
  /\ \A i \in 2 .. Len(q) - 1 : q[i] = "line"

\* Where a session stands tells what of its response there is, and whether it has a
\* connection in hand.
Stands(r) ==
  LET response == r.sent \o r.buffer
  IN /\ r.pc \in {"group", "ask", "body", "write"} <=> r.lease # None
     /\ r.pc \in {"none", "ready", "lease", "group", "ask"} => r.sent = <<>> /\ r.buffer = <<>>
     /\ r.pc \in {"body", "write"} => Begun(response)
     /\ r.pc = "flush" /\ r.mixed = FALSE =>
          Proper(response) /\ (r.quit \/ r.leaving \/ Whole(response))
     /\ r.mixed = TRUE => r.pc = "flush" /\ CutOff(response)

ProxyInv == session \in [Sessions -> SessionRecord] /\ \A s \in Sessions : Stands(session[s])

-------------------------------------------------------------------------------
(* Responses.                                                              *)

\* A line more: at the end of a body, or within it.
LEMMA LineMore ==
  ASSUME NEW q \in Seq(Lines), NEW line \in Lines
  PROVE  /\ q \o <<line>> \in Seq(Lines) /\ Len(q \o <<line>>) = Len(q) + 1
         /\ (q \o <<line>>)[Len(q) + 1] = line
         /\ \A i \in 1 .. Len(q) : (q \o <<line>>)[i] = q[i]
<1>1. <<line>> \in Seq(Lines) /\ Len(<<line>>) = 1 /\ <<line>>[1] = line
  OBVIOUS
<1>2. Len(q) \in Nat
  BY LenProperties
<1> QED
  BY <1>1, <1>2, ConcatProperties

LEMMA LineAfter ==
  ASSUME NEW p \in Seq(Lines), NEW q \in Seq(Lines), NEW line \in Lines
  PROVE  p \o (q \o <<line>>) = (p \o q) \o <<line>>
<1>1. PICK m \in Nat, n \in Nat : m = Len(p) /\ n = Len(q)
  BY LenProperties
<1>2. PICK pq : pq = p \o q
  OBVIOUS
<1>3. PICK more : more = q \o <<line>>
  OBVIOUS
<1>4. /\ pq \in Seq(Lines) /\ Len(pq) = m + n
      /\ \A i \in 1 .. m + n : pq[i] = IF i <= m THEN p[i] ELSE q[i - m]
  BY <1>1, <1>2, ConcatProperties
<1>5. /\ more \in Seq(Lines) /\ Len(more) = n + 1 /\ more[n + 1] = line
      /\ \A i \in 1 .. n : more[i] = q[i]
  BY <1>1, <1>3, LineMore
<1>6. PICK left : left = p \o more
  OBVIOUS
<1>7. /\ left \in Seq(Lines) /\ Len(left) = m + (n + 1)
      /\ \A i \in 1 .. m + (n + 1) : left[i] = IF i <= m THEN p[i] ELSE more[i - m]
  <2>1. more \in Seq(Lines)
    BY <1>5
  <2>2. /\ left \in Seq(Lines) /\ Len(left) = Len(p) + Len(more)
        /\ \A i \in 1 .. Len(p) + Len(more) :
             left[i] = IF i <= Len(p) THEN p[i] ELSE more[i - Len(p)]
    BY <1>6, <2>1, ConcatProperties
  <2> QED
    BY <1>1, <1>5, <2>2
<1>8. PICK right : right = pq \o <<line>>
  OBVIOUS
<1>9. /\ right \in Seq(Lines) /\ Len(right) = (m + n) + 1
      /\ right[(m + n) + 1] = line
      /\ \A i \in 1 .. m + n : right[i] = pq[i]
  <2>1. /\ right \in Seq(Lines) /\ Len(right) = Len(pq) + 1
        /\ right[Len(pq) + 1] = line
        /\ \A i \in 1 .. Len(pq) : right[i] = pq[i]
    BY <1>4, <1>8, LineMore
  <2> QED
    BY <1>4, <2>1
<1>10. ASSUME NEW i \in 1 .. Len(left) PROVE left[i] = right[i]
  <2>1. CASE i <= m
    BY <1>4, <1>7, <1>9, <2>1
  <2>2. CASE i > m /\ i <= m + n
    <3>1. left[i] = more[i - m] /\ i - m \in 1 .. n /\ i \in 1 .. m + n
      BY <1>7, <2>2
    <3> QED
      BY <1>4, <1>5, <1>9, <2>2, <3>1
  <2>3. CASE i = (m + n) + 1
    <3>1. left[i] = more[i - m] /\ i - m = n + 1
      BY <1>7, <2>3
    <3> QED
      BY <1>5, <1>9, <2>3, <3>1
  <2> QED
    BY <1>7, <2>1, <2>2, <2>3
<1>11. left = right
  BY <1>7, <1>9, <1>10, SeqEqual
<1> QED
  BY <1>2, <1>3, <1>6, <1>8, <1>11

LEMMA BodyGrows ==
  ASSUME NEW q \in Seq(Lines), Begun(q)
  PROVE  Begun(q \o <<"line">>)
<1>1. "line" \in Lines /\ Len(q) \in Nat \ {0}
  BY EmptySeq DEF Lines, Begun
<1> QED
  BY <1>1, LineMore, EmptySeq DEF Begun

LEMMA BodyIsWhole ==
  ASSUME NEW q \in Seq(Lines), Begun(q)
  PROVE  Proper(q \o <<".">>) /\ Whole(q \o <<".">>)
<1>1. "." \in Lines /\ Len(q) \in Nat \ {0}
  BY EmptySeq DEF Lines, Begun
<1> QED
  BY <1>1, LineMore, EmptySeq DEF Begun, Proper, Whole, Statuses

LEMMA BodyIsCutOff ==
  ASSUME NEW q \in Seq(Lines), Begun(q)
  PROVE  CutOff(q \o <<"500">>)
<1>1. "500" \in Lines /\ Len(q) \in Nat \ {0}
  BY EmptySeq DEF Lines, Statuses, Begun
<1> QED
  BY <1>1, LineMore, EmptySeq DEF Begun, CutOff

LEMMA BegunIsProper ==
  ASSUME NEW q \in Seq(Lines), Begun(q)
  PROVE  Proper(q)
BY LenProperties DEF Begun, Proper, Statuses

\* A prefix of a body that began is nothing or a body that began.
LEMMA PrefixBegun ==
  ASSUME NEW q \in Seq(Lines), NEW t \in Seq(Lines), Begun(q \o t), q # <<>>
  PROVE  Begun(q)
<1>1. Len(q) \in Nat \ {0} /\ Len(t) \in Nat
  BY EmptySeq, LenProperties
<1> QED
  BY <1>1, ConcatProperties DEF Begun

\* The responses that are one line, and the one whose text is one.
LEMMA ShortResponses ==
  /\ \A status \in {"one", "400", "430", "500"} :
       <<status>> \in Seq(Lines) /\ Proper(<<status>>) /\ Whole(<<status>>)
  /\ <<"222", "line", ".">> \in Seq(Lines)
  /\ Proper(<<"222", "line", ".">>) /\ Whole(<<"222", "line", ".">>)
  /\ <<"222">> \in Seq(Lines) /\ Begun(<<"222">>)
  /\ <<>> \in Seq(Lines) /\ Proper(<<>>)
BY DEF Lines, Statuses, Proper, Whole, Begun

-------------------------------------------------------------------------------
(* Steps.                                                                  *)

\* A step that leaves s as it should be leaves all of them so.
LEMMA SetsKeeps ==
  ASSUME ProxyInv, NEW s \in Sessions, NEW r \in SessionRecord, Stands(r), Sets(s, r)
  PROVE  ProxyInv'
BY DEF ProxyInv, Sets

\* A session without a response gets one.
LEMMA RespondsKeeps ==
  ASSUME ProxyInv, NEW s \in Sessions, NEW r \in SessionRecord, r.lease = None,
         r.sent = <<>>, r.buffer = <<>>, r.mixed = FALSE,
         NEW lines \in Seq(Lines), Proper(lines), Whole(lines), Responds(s, r, lines)
  PROVE  ProxyInv'
<1>1. PICK x : x = [r EXCEPT !.buffer = <<>> \o lines, !.pc = "flush"]
  OBVIOUS
<1>2. Sets(s, x)
  BY <1>1 DEF Responds, Sets, SessionRecord
<1>3. <<>> \o lines = lines
  BY ConcatEmptySeq
<1>4. /\ x \in SessionRecord /\ x.pc = "flush" /\ x.buffer = lines /\ x.sent = <<>>
      /\ x.lease = None /\ x.mixed = FALSE
  BY <1>1, <1>3 DEF SessionRecord
<1>5. Stands(x)
  BY <1>3, <1>4 DEF Stands
<1> QED
  BY <1>2, <1>4, <1>5, SetsKeeps

\* The session with neither client nor command.
LEMMA NobodyStands == NoSession \in SessionRecord /\ Stands(NoSession)
<1>1. <<>> \in Seq(Lines) /\ <<>> \o <<>> = <<>>
  BY ShortResponses, ConcatEmptySeq
<1>2. NoSession \in SessionRecord
  BY <1>1 DEF NoSession, SessionRecord
<1> QED
  BY <1>2 DEF NoSession, Stands

LEMMA SessionSound ==
  ASSUME ProxyInv, NEW s \in Sessions
  PROVE  session[s] \in SessionRecord /\ Stands(session[s])
BY DEF ProxyInv

\* A client that comes, hangs up, is done with a command, or is gone.
LEMMA ClientSteps ==
  ASSUME ProxyInv, NEW s \in Sessions, Accept(s) \/ HangUp(s) \/ Flush(s) \/ SessionEnds(s)
  PROVE  ProxyInv'
<1>1. PICK r : r = session[s]
  OBVIOUS
<1>2. r \in SessionRecord /\ Stands(r)
  BY <1>1, SessionSound
<1>3. <<>> \in Seq(Lines) /\ <<>> \o <<>> = <<>>
  BY ShortResponses, ConcatEmptySeq
<1>4. ASSUME NEW authed \in BOOLEAN, NEW group \in BOOLEAN,
             NEW x, x = [NoSession EXCEPT !.pc = "ready", !.authed = authed, !.group = group]
      PROVE  x \in SessionRecord /\ Stands(x)
  <2>1. /\ x \in SessionRecord /\ x.pc = "ready" /\ x.lease = None
        /\ x.sent = <<>> /\ x.buffer = <<>> /\ x.mixed = FALSE
    BY <1>3, <1>4 DEF NoSession, SessionRecord
  <2> QED
    BY <2>1 DEF Stands
<1>5. CASE Accept(s)
  <2>1. PICK login \in BOOLEAN : login = ~NeedsLogin
    OBVIOUS
  <2>2. PICK x : x = [NoSession EXCEPT !.pc = "ready", !.authed = login]
    OBVIOUS
  <2>3. Sets(s, x)
    BY <1>5, <2>1, <2>2 DEF Accept
  <2>4. /\ x \in SessionRecord /\ x.pc = "ready" /\ x.lease = None
        /\ x.sent = <<>> /\ x.buffer = <<>> /\ x.mixed = FALSE
    BY <1>3, <2>2 DEF NoSession, SessionRecord
  <2>5. Stands(x)
    BY <2>4 DEF Stands
  <2> QED
    BY <2>3, <2>4, <2>5, SetsKeeps
<1>6. CASE HangUp(s)
  <2>1. PICK x : x = [r EXCEPT !.leaving = TRUE]
    OBVIOUS
  <2>2. Sets(s, x) /\ r.pc \in {"ready", "body", "write", "flush"}
    BY <1>1, <1>6, <2>1 DEF HangUp
  <2>3. /\ x \in SessionRecord /\ x.leaving = TRUE /\ x.mixed = r.mixed
        /\ x.pc = r.pc /\ x.lease = r.lease /\ x.sent = r.sent /\ x.buffer = r.buffer
    BY <1>2, <2>1 DEF SessionRecord
  <2>4. Stands(x)
    BY <1>2, <2>3 DEF Stands
  <2> QED
    BY <2>2, <2>3, <2>4, SetsKeeps
<1>7. CASE Flush(s)
  <2>1. PICK x : x = [NoSession EXCEPT !.pc = "ready", !.authed = r.authed, !.group = r.group]
    OBVIOUS
  <2>2. Sets(s, NoSession) \/ Sets(s, x)
    BY <1>1, <1>7, <2>1 DEF Flush
  <2>3. r.authed \in BOOLEAN /\ r.group \in BOOLEAN
    BY <1>2 DEF SessionRecord
  <2>4. x \in SessionRecord /\ Stands(x)
    BY <1>4, <2>1, <2>3
  <2> QED
    BY <2>2, <2>4, NobodyStands, SetsKeeps
<1>8. CASE SessionEnds(s)
  BY <1>8, NobodyStands, SetsKeeps DEF SessionEnds
<1> QED
  BY <1>5, <1>6, <1>7, <1>8

\* Commands the session answers itself, and those it takes to the providers.
LEMMA ReadsKeeps ==
  ASSUME ProxyInv, NEW s \in Sessions, Reads(s)
  PROVE  ProxyInv'
<1>1. PICK r : r = session[s]
  OBVIOUS
<1>2. r \in SessionRecord /\ Stands(r) /\ r.pc = "ready"
  BY <1>1, SessionSound DEF Reads, Local, Quit, AuthInfo, Group, Article, At
<1>3. r.lease = None /\ r.sent = <<>> /\ r.buffer = <<>> /\ r.mixed = FALSE
  BY <1>2 DEF Stands, SessionRecord
<1>4. <<"one">> \in Seq(Lines) /\ Proper(<<"one">>) /\ Whole(<<"one">>)
  BY ShortResponses
<1>5. CASE Local(s)
  BY <1>1, <1>2, <1>3, <1>4, <1>5, RespondsKeeps DEF Local
<1>6. CASE Quit(s)
  <2>1. PICK x : x = [r EXCEPT !.quit = TRUE]
    OBVIOUS
  <2>2. /\ x \in SessionRecord /\ x.lease = None
        /\ x.sent = <<>> /\ x.buffer = <<>> /\ x.mixed = FALSE
    BY <1>2, <1>3, <2>1 DEF SessionRecord
  <2> QED
    BY <1>1, <1>4, <1>6, <2>1, <2>2, RespondsKeeps DEF Quit
<1>7. CASE AuthInfo(s)
  <2>1. PICK x : x = [r EXCEPT !.authed = TRUE]
    OBVIOUS
  <2>2. /\ x \in SessionRecord /\ x.lease = None
        /\ x.sent = <<>> /\ x.buffer = <<>> /\ x.mixed = FALSE
    BY <1>2, <1>3, <2>1 DEF SessionRecord
  <2> QED
    BY <1>1, <1>4, <1>7, <2>1, <2>2, RespondsKeeps DEF AuthInfo
<1>8. CASE Group(s)
  <2>1. PICK x : x = [r EXCEPT !.group = TRUE]
    OBVIOUS
  <2>2. /\ x \in SessionRecord /\ x.lease = None
        /\ x.sent = <<>> /\ x.buffer = <<>> /\ x.mixed = FALSE
    BY <1>2, <1>3, <2>1 DEF SessionRecord
  <2> QED
    BY <1>1, <1>4, <1>8, <2>1, <2>2, RespondsKeeps DEF Group
<1>9. ASSUME NEW body \in BOOLEAN, Article(s, body) PROVE ProxyInv'
  <2>1. PICK x : x = [r EXCEPT !.pc = "lease", !.body = body]
    OBVIOUS
  <2>2. /\ x \in SessionRecord /\ x.pc = "lease" /\ x.lease = None
        /\ x.sent = <<>> /\ x.buffer = <<>> /\ x.mixed = FALSE
    BY <1>2, <1>3, <2>1 DEF SessionRecord
  <2>3. Stands(x)
    BY <2>2 DEF Stands
  <2>4. Sets(s, x)
    BY <1>1, <1>9, <2>1 DEF Article
  <2> QED
    BY <2>2, <2>3, <2>4, SetsKeeps
<1> QED
  BY <1>5, <1>6, <1>7, <1>8, <1>9 DEF Reads

-------------------------------------------------------------------------------
(* The walk over the providers.                                            *)

\* A provider is given up before any of the answer has gone out.
LEMMA ExcludedKeeps ==
  ASSUME ProxyInv, NEW s \in Sessions, session[s].lease # None,
         NEW late \in BOOLEAN, session[s].sent = <<>>, session[s].mixed = FALSE,
         NEW x, x = [session[s] EXCEPT !.pc = "lease", !.lease = None, !.late = late,
                       !.exclude = session[s].exclude \union {session[s].lease}, !.buffer = <<>>],
         Sets(s, x)
  PROVE  ProxyInv'
<1>1. PICK r : r = session[s]
  OBVIOUS
<1>2. r \in SessionRecord /\ r.lease \in Providers /\ r.exclude \in SUBSET Providers
  BY <1>1, SessionSound DEF SessionRecord
<1>3. PICK gone : gone = r.exclude \union {r.lease}
  OBVIOUS
<1>4. gone \in SUBSET Providers /\ <<>> \in Seq(Lines)
  BY <1>2, <1>3, ShortResponses
<1>5. x = [r EXCEPT !.pc = "lease", !.lease = None, !.late = late, !.exclude = gone,
                    !.buffer = <<>>]
  BY <1>1, <1>3
<1>6. /\ x \in SessionRecord /\ x.pc = "lease" /\ x.lease = None
      /\ x.sent = <<>> /\ x.buffer = <<>> /\ x.mixed = FALSE
  BY <1>1, <1>2, <1>4, <1>5 DEF SessionRecord
<1>7. Stands(x)
  BY <1>6 DEF Stands
<1> QED
  BY <1>6, <1>7, SetsKeeps

\* forEachProvider returns with nothing said yet.
LEMMA ReturnedRecord ==
  ASSUME NEW s \in Sessions, session[s] \in SessionRecord
  PROVE  /\ Returned(s) \in SessionRecord
         /\ Returned(s).lease = None
         /\ Returned(s).sent = session[s].sent /\ Returned(s).buffer = session[s].buffer
         /\ Returned(s).quit = session[s].quit /\ Returned(s).leaving = session[s].leaving
         /\ Returned(s).mixed = session[s].mixed
BY DEF Returned, SessionRecord

\* Leasing and selecting the group.
LEMMA LeaseSteps ==
  ASSUME ProxyInv, NEW s \in Sessions,
         \/ Expire(s) \/ GroupSelected(s) \/ NoLease(s)
         \/ \E p \in Providers : Lease(s, p)
  PROVE  ProxyInv'
<1>1. PICK r : r = session[s]
  OBVIOUS
<1>2. r \in SessionRecord /\ Stands(r)
  BY <1>1, SessionSound
<1>3. r.sent = <<>> /\ r.buffer = <<>> /\ r.mixed = FALSE
  BY <1>1, <1>2 DEF Stands, SessionRecord, Expire, GroupSelected, NoLease, Lease, At
<1>4. CASE Expire(s)
  <2>1. PICK x : x = [r EXCEPT !.late = TRUE]
    OBVIOUS
  <2>2. Sets(s, x) /\ r.pc = "lease"
    BY <1>1, <1>4, <2>1 DEF Expire, At
  <2>3. /\ x \in SessionRecord /\ x.pc = r.pc /\ x.lease = r.lease
        /\ x.sent = r.sent /\ x.buffer = r.buffer /\ x.mixed = FALSE
    BY <1>2, <1>3, <2>1 DEF SessionRecord
  <2>4. Stands(x)
    BY <1>2, <2>2, <2>3 DEF Stands
  <2> QED
    BY <2>2, <2>3, <2>4, SetsKeeps
<1>5. CASE GroupSelected(s)
  <2>1. PICK x : x = [r EXCEPT !.pc = "ask"]
    OBVIOUS
  <2>2. Sets(s, x) /\ r.pc = "group"
    BY <1>1, <1>5, <2>1 DEF GroupSelected, At
  <2>3. /\ x \in SessionRecord /\ x.pc = "ask" /\ x.lease = r.lease
        /\ x.sent = r.sent /\ x.buffer = r.buffer /\ x.mixed = FALSE
    BY <1>2, <1>3, <2>1 DEF SessionRecord
  <2>4. Stands(x)
    BY <1>2, <1>3, <2>2, <2>3 DEF Stands
  <2> QED
    BY <2>2, <2>3, <2>4, SetsKeeps
<1>6. ASSUME NEW p \in Providers, Lease(s, p) PROVE ProxyInv'
  <2>1. PICK pc \in {"group", "ask"} : pc = IF r.group THEN "group" ELSE "ask"
    OBVIOUS
  <2>2. PICK x : x = [r EXCEPT !.pc = pc, !.lease = p, !.reached = TRUE]
    OBVIOUS
  <2>3. Sets(s, x)
    BY <1>1, <1>6, <2>1, <2>2 DEF Lease
  <2>4. /\ x \in SessionRecord /\ x.pc = pc /\ x.lease = p
        /\ x.sent = <<>> /\ x.buffer = <<>> /\ x.mixed = FALSE
    BY <1>2, <1>3, <2>2 DEF SessionRecord
  <2>5. Stands(x)
    BY <2>4, ProxyAssumption DEF Stands
  <2> QED
    BY <2>3, <2>4, <2>5, SetsKeeps
<1>7. CASE NoLease(s)
  <2>1. r.pc = "lease" /\ r.lease = None
    BY <1>1, <1>2, <1>7 DEF NoLease, At, Stands
  <2>2. PICK x : x = [r EXCEPT !.backup = TRUE]
    OBVIOUS
  <2>3. PICK y : y = [Returned(s) EXCEPT !.quit = TRUE]
    OBVIOUS
  <2>12. PICK z : z = [Returned(s) EXCEPT !.exclude = r.exclude]
    OBVIOUS
  <2>4. Sets(s, x) \/ Responds(s, z, <<"430">>) \/ Responds(s, y, <<"400">>)
    BY <1>1, <1>7, <2>2, <2>3, <2>12 DEF NoLease
  <2>5. /\ x \in SessionRecord /\ x.pc = r.pc /\ x.lease = r.lease
        /\ x.sent = r.sent /\ x.buffer = r.buffer /\ x.mixed = FALSE
    BY <1>2, <1>3, <2>2 DEF SessionRecord
  <2>6. Stands(x)
    BY <1>2, <1>3, <2>1, <2>5 DEF Stands
  <2>13. /\ Returned(s) \in SessionRecord /\ Returned(s).lease = None
         /\ Returned(s).sent = <<>> /\ Returned(s).buffer = <<>> /\ Returned(s).mixed = FALSE
    BY <1>1, <1>2, <1>3, ReturnedRecord
  <2>7. /\ y \in SessionRecord /\ y.lease = None
        /\ y.sent = <<>> /\ y.buffer = <<>> /\ y.mixed = FALSE
    BY <2>3, <2>13 DEF SessionRecord
  <2>14. r.exclude \in SUBSET Providers
    BY <1>2 DEF SessionRecord
  <2>15. /\ z \in SessionRecord /\ z.lease = None
         /\ z.sent = <<>> /\ z.buffer = <<>> /\ z.mixed = FALSE
    BY <2>12, <2>13, <2>14 DEF SessionRecord
  <2>8. \A status \in {"400", "430"} :
          <<status>> \in Seq(Lines) /\ Proper(<<status>>) /\ Whole(<<status>>)
    BY ShortResponses
  <2>9. CASE Sets(s, x)
    BY <2>5, <2>6, <2>9, SetsKeeps
  <2>10. CASE Responds(s, z, <<"430">>)
    BY <2>8, <2>10, <2>15, RespondsKeeps
  <2>11. CASE Responds(s, y, <<"400">>)
    BY <2>7, <2>8, <2>11, RespondsKeeps
  <2> QED
    BY <2>4, <2>9, <2>10, <2>11
<1> QED
  BY <1>4, <1>5, <1>6, <1>7

\* A provider has been asked: for the answer that is complete before it is written, or in
\* vain.
LEMMA AskSteps ==
  ASSUME ProxyInv, NEW s \in Sessions,
         \/ GroupFails(s) \/ NotAnswered(s) \/ BodyRefused(s) \/ Answered(s)
  PROVE  ProxyInv'
<1>1. PICK r : r = session[s]
  OBVIOUS
<1>2. r \in SessionRecord /\ Stands(r) /\ r.pc \in {"group", "ask"}
  BY <1>1, SessionSound DEF GroupFails, NotAnswered, BodyRefused, Answered, At
<1>3. /\ r.lease # None /\ r.sent = <<>> /\ r.buffer = <<>> /\ r.late \in BOOLEAN
      /\ r.mixed = FALSE
  BY <1>2 DEF Stands, SessionRecord
<1>4. CASE GroupFails(s) \/ NotAnswered(s)
  <2>1. Sets(s, Excluded(s))
    BY <1>4 DEF GroupFails, NotAnswered
  <2>2. Excluded(s) = [r EXCEPT !.pc = "lease", !.lease = None, !.late = r.late,
                         !.exclude = r.exclude \union {r.lease}, !.buffer = <<>>]
    BY <1>1, <1>2, <1>3 DEF Excluded, SessionRecord
  <2> QED
    BY <1>1, <1>3, <2>1, <2>2, ExcludedKeeps
<1>5. CASE BodyRefused(s)
  <2>1. PICK late \in BOOLEAN : late = TRUE
    OBVIOUS
  <2>2. Sets(s, [Excluded(s) EXCEPT !.late = late])
    BY <1>5, <2>1 DEF BodyRefused
  <2>3. [Excluded(s) EXCEPT !.late = late]
           = [r EXCEPT !.pc = "lease", !.lease = None, !.late = late,
                       !.exclude = r.exclude \union {r.lease}, !.buffer = <<>>]
    BY <1>1, <1>2, <1>3 DEF Excluded, SessionRecord
  <2> QED
    BY <1>1, <1>3, <2>2, <2>3, ExcludedKeeps
<1>6. CASE Answered(s)
  <2>1. PICK lines \in {<<"one">>, <<"222", "line", ".">>} : Responds(s, Returned(s), lines)
    BY <1>6 DEF Answered
  <2>2. lines \in Seq(Lines) /\ Proper(lines) /\ Whole(lines)
    BY ShortResponses
  <2>3. /\ Returned(s) \in SessionRecord /\ Returned(s).lease = None
        /\ Returned(s).sent = <<>> /\ Returned(s).buffer = <<>> /\ Returned(s).mixed = FALSE
    BY <1>1, <1>2, <1>3, ReturnedRecord
  <2> QED
    BY <2>1, <2>2, <2>3, RespondsKeeps
<1> QED
  BY <1>4, <1>5, <1>6

-------------------------------------------------------------------------------
(* A body.                                                                 *)

\* It begins, goes on, or is flushed in the middle.
LEMMA BodySteps ==
  ASSUME ProxyInv, NEW s \in Sessions,
         BodyBegins(s) \/ BodyLine(s) \/ BufferFull(s) \/ Spill(s) \/ BodyEnds(s)
  PROVE  ProxyInv'
<1>1. PICK r : r = session[s]
  OBVIOUS
<1>2. /\ r \in SessionRecord /\ Stands(r) /\ r.pc \in {"ask", "body", "write"}
      /\ r.sent \in Seq(Lines) /\ r.buffer \in Seq(Lines)
  BY <1>1, SessionSound DEF BodyBegins, BodyLine, BufferFull, Spill, BodyEnds, At, SessionRecord
<1>3. r.lease # None /\ r.sent \o r.buffer \in Seq(Lines) /\ r.mixed = FALSE
  BY <1>2, ConcatProperties DEF Stands, SessionRecord
<1>4. CASE BodyBegins(s)
  <2>1. PICK x : x = [r EXCEPT !.pc = "body", !.buffer = <<"222">>]
    OBVIOUS
  <2>2. Sets(s, x) /\ r.sent = <<>>
    BY <1>1, <1>2, <1>4, <2>1 DEF BodyBegins, At, Stands
  <2>3. <<"222">> \in Seq(Lines) /\ Begun(<<"222">>) /\ <<>> \o <<"222">> = <<"222">>
    BY ShortResponses, ConcatEmptySeq
  <2>4. /\ x \in SessionRecord /\ x.pc = "body" /\ x.lease = r.lease
        /\ x.sent = <<>> /\ x.buffer = <<"222">> /\ x.mixed = FALSE
    BY <1>2, <1>3, <2>1, <2>2, <2>3 DEF SessionRecord
  <2>5. Stands(x)
    BY <1>3, <2>3, <2>4 DEF Stands
  <2> QED
    BY <2>2, <2>4, <2>5, SetsKeeps
<1>5. ASSUME r.pc \in {"body", "write"} PROVE Begun(r.sent \o r.buffer)
  BY <1>2, <1>5 DEF Stands
<1>6. \A line \in Lines : r.sent \o (r.buffer \o <<line>>) = (r.sent \o r.buffer) \o <<line>>
  BY <1>2, LineAfter
<1>7. CASE BodyLine(s)
  <2>1. PICK buffer : buffer = r.buffer \o <<"line">>
    OBVIOUS
  <2>2. Append(r.buffer, "line") = buffer /\ buffer \in Seq(Lines)
    BY <1>2, <2>1, AppendIsConcat, LineMore DEF Lines
  <2>3. PICK x : x = [r EXCEPT !.buffer = buffer]
    OBVIOUS
  <2>4. Sets(s, x) /\ r.pc = "body"
    BY <1>1, <1>7, <2>2, <2>3 DEF BodyLine, At
  <2>5. /\ x \in SessionRecord /\ x.pc = "body" /\ x.lease = r.lease
        /\ x.sent = r.sent /\ x.buffer = buffer /\ x.mixed = FALSE
    BY <1>2, <1>3, <2>2, <2>3, <2>4 DEF SessionRecord
  <2>6. Begun(x.sent \o x.buffer)
    BY <1>3, <1>5, <1>6, <2>1, <2>4, <2>5, BodyGrows DEF Lines
  <2>7. Stands(x)
    BY <1>3, <2>5, <2>6 DEF Stands
  <2> QED
    BY <2>4, <2>5, <2>7, SetsKeeps
<1>10. CASE BufferFull(s)
  <2>1. PICK x : x = [r EXCEPT !.pc = "write"]
    OBVIOUS
  <2>2. Sets(s, x) /\ Begun(r.sent \o r.buffer)
    BY <1>1, <1>5, <1>10, <2>1 DEF BufferFull, At
  <2>3. /\ x \in SessionRecord /\ x.pc = "write" /\ x.lease = r.lease
        /\ x.sent = r.sent /\ x.buffer = r.buffer /\ x.mixed = FALSE
    BY <1>2, <1>3, <2>1 DEF SessionRecord
  <2>4. Stands(x)
    BY <1>3, <2>2, <2>3 DEF Stands
  <2> QED
    BY <2>2, <2>3, <2>4, SetsKeeps
<1>8. CASE Spill(s)
  <2>1. r.pc = "write" /\ Begun(r.sent \o r.buffer)
    BY <1>1, <1>5, <1>8 DEF Spill, At
  <2>2. PICK response : response = r.sent \o r.buffer
    OBVIOUS
  <2>3. response \in Seq(Lines) /\ <<>> \in Seq(Lines)
    BY <1>3, <2>2, ShortResponses
  <2>4. CASE r.leaving
    <3>1. PICK x : x = [Returned(s) EXCEPT !.pc = "flush", !.buffer = <<>>]
      OBVIOUS
    <3>2. Sets(s, x)
      BY <1>1, <1>8, <2>4, <3>1 DEF Spill
    <3>3. /\ x \in SessionRecord /\ x.pc = "flush" /\ x.lease = None
          /\ x.sent = r.sent /\ x.buffer = <<>> /\ x.leaving /\ x.mixed = FALSE
      <4>1. PICK y : y = Returned(s)
        OBVIOUS
      <4>2. /\ y \in SessionRecord /\ y.lease = None /\ y.sent = r.sent
            /\ y.leaving = r.leaving /\ y.mixed = FALSE
        BY <1>1, <1>2, <1>3, <4>1, ReturnedRecord
      <4>3. x = [y EXCEPT !.pc = "flush", !.buffer = <<>>]
        BY <3>1, <4>1
      <4>4. r.leaving = TRUE
        BY <1>2, <2>4 DEF SessionRecord
      <4> QED
        BY <2>3, <4>2, <4>3, <4>4 DEF SessionRecord
    <3>4. Proper(r.sent)
      <4>1. CASE r.sent = <<>>
        BY <4>1, ShortResponses
      <4>2. CASE r.sent # <<>>
        BY <1>2, <2>1, <4>2, PrefixBegun, BegunIsProper
      <4> QED
        BY <4>1, <4>2
    <3>5. x.sent \o x.buffer = r.sent
      BY <1>2, <3>3, ConcatEmptySeq
    <3>6. Stands(x)
      BY <3>3, <3>4, <3>5 DEF Stands
    <3> QED
      BY <3>2, <3>3, <3>6, SetsKeeps
  <2>5. CASE ~r.leaving
    <3>1. PICK x : x = [r EXCEPT !.pc = "body", !.sent = response, !.buffer = <<>>]
      OBVIOUS
    <3>2. Sets(s, x)
      BY <1>1, <1>8, <2>2, <2>5, <3>1 DEF Spill, Response
    <3>3. /\ x \in SessionRecord /\ x.pc = "body" /\ x.lease = r.lease
          /\ x.sent = response /\ x.buffer = <<>> /\ x.mixed = FALSE
      BY <1>2, <1>3, <2>1, <2>3, <3>1 DEF SessionRecord
    <3>4. x.sent \o x.buffer = response
      BY <2>3, <3>3, ConcatEmptySeq
    <3>5. Stands(x)
      BY <1>3, <2>1, <2>2, <3>3, <3>4 DEF Stands
    <3> QED
      BY <3>2, <3>3, <3>5, SetsKeeps
  <2> QED
    BY <2>4, <2>5
<1>9. CASE BodyEnds(s)
  <2>1. Begun(r.sent \o r.buffer)
    BY <1>1, <1>5, <1>9 DEF BodyEnds, At
  <2>2. PICK buffer : buffer = r.buffer \o <<".">>
    OBVIOUS
  <2>3. buffer \in Seq(Lines) /\ "." \in Lines
    BY <1>2, <2>2, LineMore DEF Lines
  <2>4. PICK y : y = Returned(s)
    OBVIOUS
  <2>5. /\ y \in SessionRecord /\ y.lease = None /\ y.sent = r.sent /\ y.buffer = r.buffer
        /\ y.mixed = FALSE
    BY <1>1, <1>2, <1>3, <2>4, ReturnedRecord
  <2>6. PICK x : x = [y EXCEPT !.buffer = buffer, !.pc = "flush"]
    OBVIOUS
  <2>7. /\ x \in SessionRecord /\ x.pc = "flush" /\ x.lease = None
        /\ x.sent = r.sent /\ x.buffer = buffer /\ x.mixed = FALSE
    BY <2>3, <2>5, <2>6 DEF SessionRecord
  <2>8. Sets(s, x)
    <3>1. Responds(s, y, <<".">>)
      BY <1>9, <2>4 DEF BodyEnds
    <3>2. [y EXCEPT !.buffer = y.buffer \o <<".">>, !.pc = "flush"] = x
      BY <2>2, <2>5, <2>6
    <3> QED
      BY <3>1, <3>2 DEF Responds
  <2>9. Proper(x.sent \o x.buffer) /\ Whole(x.sent \o x.buffer)
    BY <1>3, <1>6, <2>1, <2>2, <2>3, <2>7, BodyIsWhole
  <2>10. Stands(x)
    BY <2>7, <2>9 DEF Stands
  <2> QED
    BY <2>7, <2>8, <2>10, SetsKeeps
<1> QED
  BY <1>4, <1>7, <1>8, <1>9, <1>10

\* It breaks off: the next provider starts over if nothing has gone out, and else the
\* session ends.
LEMMA BreaksKeeps ==
  ASSUME ProxyInv, NEW s \in Sessions, BodyBreaks(s)
  PROVE  ProxyInv'
<1>1. PICK r : r = session[s]
  OBVIOUS
<1>2. /\ r \in SessionRecord /\ Stands(r) /\ r.pc \in {"ask", "body"}
      /\ r.sent \in Seq(Lines) /\ r.buffer \in Seq(Lines)
  BY <1>1, SessionSound DEF BodyBreaks, SessionRecord
<1>3. r.lease # None /\ r.late \in BOOLEAN /\ r.mixed = FALSE
  BY <1>2 DEF Stands, SessionRecord
<1>4. CASE r.sent = <<>>
  <2>1. Sets(s, [Excluded(s) EXCEPT !.buffer = <<>>])
    BY <1>1, <1>4 DEF BodyBreaks
  <2>2. [Excluded(s) EXCEPT !.buffer = <<>>]
           = [r EXCEPT !.pc = "lease", !.lease = None, !.late = r.late,
                       !.exclude = r.exclude \union {r.lease}, !.buffer = <<>>]
    BY <1>1, <1>2 DEF Excluded, SessionRecord
  <2> QED
    BY <1>1, <1>3, <1>4, <2>1, <2>2, ExcludedKeeps
<1>5. CASE r.sent # <<>>
  <2>1. PICK quit \in BOOLEAN : quit = TRUE
    OBVIOUS
  <2>2. PICK y : y = [Returned(s) EXCEPT !.quit = quit]
    OBVIOUS
  <2>4. /\ y \in SessionRecord /\ y.lease = None /\ y.sent = r.sent /\ y.buffer = r.buffer
        /\ y.quit = quit /\ y.mixed = FALSE
    BY <1>1, <1>2, <1>3, <2>2, ReturnedRecord DEF SessionRecord
  <2>3. Responds(s, y, <<>>)
    BY <1>1, <1>5, <2>1, <2>2 DEF BodyBreaks, Aborts
  <2>5. PICK x : x = [y EXCEPT !.buffer = y.buffer \o <<>>, !.pc = "flush"]
    OBVIOUS
  <2>6. Sets(s, x)
    BY <2>3, <2>5 DEF Responds
  <2>7. y.buffer \o <<>> = r.buffer
    BY <1>2, <2>4, ConcatEmptySeq
  <2>8. /\ x \in SessionRecord /\ x.pc = "flush" /\ x.lease = None /\ x.quit = quit
        /\ x.sent = r.sent /\ x.buffer = r.buffer /\ x.mixed = FALSE
    BY <1>2, <2>4, <2>5, <2>7 DEF SessionRecord
  <2>9. Proper(r.sent \o r.buffer)
    <3>1. r.pc = "body"
      BY <1>2, <1>5 DEF Stands
    <3>2. Begun(r.sent \o r.buffer) /\ r.sent \o r.buffer \in Seq(Lines)
      BY <1>2, <3>1, ConcatProperties DEF Stands
    <3> QED
      BY <3>2, BegunIsProper
  <2>10. Stands(x)
    BY <2>1, <2>8, <2>9 DEF Stands
  <2> QED
    BY <2>6, <2>8, <2>10, SetsKeeps
<1> QED
  BY <1>4, <1>5

\* An error that reads like one of the client's is told in place of an answer, or after the
\* part of it that came in.
LEMMA ResetKeeps ==
  ASSUME ProxyInv, NEW s \in Sessions, BodyReset(s)
  PROVE  ProxyInv'
<1>1. PICK r : r = session[s]
  OBVIOUS
<1>2. /\ r \in SessionRecord /\ Stands(r) /\ r.pc \in {"ask", "body"}
      /\ r.sent \in Seq(Lines) /\ r.buffer \in Seq(Lines)
  BY <1>1, SessionSound DEF BodyReset, At, SessionRecord
<1>3. PICK mixed \in BOOLEAN : mixed = (r.pc = "body")
  OBVIOUS
<1>4. PICK y : y = [Returned(s) EXCEPT !.mixed = mixed]
  OBVIOUS
<1>5. /\ y \in SessionRecord /\ y.lease = None /\ y.sent = r.sent /\ y.buffer = r.buffer
      /\ y.mixed = mixed
  BY <1>1, <1>2, <1>4, ReturnedRecord DEF SessionRecord
<1>6. Responds(s, y, <<"500">>)
  BY <1>1, <1>3, <1>4 DEF BodyReset, Fails, At
<1>7. CASE r.pc = "ask"
  <2>1. y.sent = <<>> /\ y.buffer = <<>> /\ y.mixed = FALSE
    BY <1>2, <1>3, <1>5, <1>7 DEF Stands
  <2>2. <<"500">> \in Seq(Lines) /\ Proper(<<"500">>) /\ Whole(<<"500">>)
    BY ShortResponses
  <2> QED
    BY <1>5, <1>6, <2>1, <2>2, RespondsKeeps
<1>8. CASE r.pc = "body"
  <2>1. PICK buffer : buffer = r.buffer \o <<"500">>
    OBVIOUS
  <2>2. buffer \in Seq(Lines) /\ "500" \in Lines
    BY <1>2, <2>1, LineMore DEF Lines, Statuses
  <2>3. PICK x : x = [y EXCEPT !.buffer = buffer, !.pc = "flush"]
    OBVIOUS
  <2>4. Sets(s, x)
    BY <1>5, <1>6, <2>1, <2>3 DEF Responds
  <2>5. /\ x \in SessionRecord /\ x.pc = "flush" /\ x.lease = None
        /\ x.sent = r.sent /\ x.buffer = buffer /\ x.mixed = TRUE
    BY <1>3, <1>5, <1>8, <2>2, <2>3 DEF SessionRecord
  <2>6. /\ Begun(r.sent \o r.buffer) /\ r.sent \o r.buffer \in Seq(Lines)
    BY <1>2, <1>8, ConcatProperties DEF Stands
  <2>7. x.sent \o x.buffer = (r.sent \o r.buffer) \o <<"500">>
    <3>1. \A line \in Lines : r.sent \o (r.buffer \o <<line>>) = (r.sent \o r.buffer) \o <<line>>
      BY <1>2, LineAfter
    <3>2. r.sent \o (r.buffer \o <<"500">>) = (r.sent \o r.buffer) \o <<"500">>
      BY <2>2, <3>1
    <3> QED
      BY <2>1, <2>5, <3>2
  <2>8. CutOff(x.sent \o x.buffer)
    BY <2>6, <2>7, BodyIsCutOff
  <2>9. Stands(x)
    BY <2>5, <2>8, ProxyAssumption DEF Stands
  <2> QED
    BY <2>4, <2>5, <2>9, SetsKeeps
<1> QED
  BY <1>2, <1>7, <1>8

-------------------------------------------------------------------------------
(* The theorems.                                                           *)

LEMMA ProxyInitEstablishes == ProxyInit => ProxyInv
BY NobodyStands DEF ProxyInit, ProxyInv

LEMMA ProxyStep == ProxyInv /\ [ProxyNext]_session => ProxyInv'
<1> SUFFICES ASSUME ProxyInv, [ProxyNext]_session PROVE ProxyInv'
  OBVIOUS
<1>1. ASSUME NEW s \in Sessions, Reads(s) PROVE ProxyInv'
  BY <1>1, ReadsKeeps
<1>2. ASSUME NEW s \in Sessions, Works(s) PROVE ProxyInv'
  BY <1>2, ClientSteps, LeaseSteps, AskSteps, BodySteps, BreaksKeeps, ResetKeeps DEF Works
<1>6. ASSUME NEW s \in Sessions, Writes(s) PROVE ProxyInv'
  BY <1>6, ClientSteps, BodySteps DEF Writes
<1>3. ASSUME NEW s \in Sessions, Accept(s) \/ HangUp(s) PROVE ProxyInv'
  BY <1>3, ClientSteps
<1>4. ASSUME NEW s \in Sessions, Expire(s) PROVE ProxyInv'
  BY <1>4, LeaseSteps
<1>5. ASSUME UNCHANGED session PROVE ProxyInv'
  BY <1>5 DEF ProxyInv
<1> QED
  BY <1>1, <1>2, <1>3, <1>4, <1>5, <1>6 DEF ProxyNext

\* Whatever downloaders and providers there are and whatever they do, where a session
\* stands agrees with what it has in hand and what it has said.
THEOREM ProxyInvariant == ProxySpec => []ProxyInv
BY ProxyInitEstablishes, ProxyStep, PTL DEF ProxySpec

\* What the invariant says of one session and its response.
LEMMA SessionSays ==
  ASSUME ProxyInv, NEW s \in Sessions
  PROVE  /\ session[s] \in SessionRecord
         /\ Response(s) \in Seq(Lines)
         /\ session[s].lease # None => session[s].pc \in {"group", "ask", "body", "write"}
         /\ session[s].mixed => CutOff(Response(s))
         /\ ~session[s].mixed =>
              /\ Proper(Response(s))
              /\ session[s].pc = "flush" /\ ~session[s].quit /\ ~session[s].leaving
                   => Whole(Response(s))
<1>1. PICK r : r = session[s]
  OBVIOUS
<1>2. PICK response : response = r.sent \o r.buffer
  OBVIOUS
<1>3. Response(s) = response
  BY <1>1, <1>2 DEF Response
<1>4. /\ r \in SessionRecord /\ Stands(r)
      /\ r.sent \in Seq(Lines) /\ r.buffer \in Seq(Lines)
  BY <1>1, SessionSound DEF SessionRecord
<1>5. response \in Seq(Lines) /\ <<>> \o <<>> = <<>>
  BY <1>2, <1>4, ConcatProperties, ConcatEmptySeq
<1>6. ASSUME ~r.mixed PROVE Proper(response)
  <2>1. CASE r.pc \in {"body", "write"}
    BY <1>2, <1>4, <1>5, <2>1, BegunIsProper DEF Stands
  <2>2. CASE r.pc = "flush"
    BY <1>2, <1>4, <1>6, <2>2 DEF Stands, SessionRecord
  <2>3. CASE r.pc \notin {"body", "write", "flush"}
    <3>1. r.sent = <<>> /\ r.buffer = <<>>
      BY <1>4, <2>3 DEF Stands, SessionRecord
    <3> QED
      BY <1>2, <1>5, <3>1, ShortResponses
  <2> QED
    BY <2>1, <2>2, <2>3
<1>7. /\ r.lease # None => r.pc \in {"group", "ask", "body", "write"}
      /\ r.mixed => CutOff(response)
  BY <1>2, <1>4 DEF Stands, SessionRecord
<1>8. ASSUME ~r.mixed, r.pc = "flush", ~r.quit, ~r.leaving PROVE Whole(response)
  BY <1>2, <1>4, <1>8 DEF Stands, SessionRecord
<1> QED
  BY <1>1, <1>3, <1>4, <1>5, <1>6, <1>7, <1>8

\* The sessions have their types, and responses consist of lines.
THEOREM ProxyTypeCorrect == ProxySpec => []ProxyTypeOK
<1>1. ProxyInv => ProxyTypeOK
  BY SessionSays DEF ProxyTypeOK, SessionRecord, Lines
<1> QED
  BY <1>1, ProxyInvariant, PTL

\* A session has a connection in hand only while it asks a provider with it, and none when
\* it turns to the next one, answers or ends.
THEOREM ConnectionsGivenBack == ProxySpec => []NothingHeld
<1>1. ProxyInv => NothingHeld
  BY SessionSays DEF NothingHeld
<1> QED
  BY <1>1, ProxyInvariant, PTL

\* A response has one status line, and nothing follows its end, however often the walk over
\* the providers starts a body over; where a provider's reset within a body is taken for the
\* downloader's, one error line ends what came in of it (commands.go, handleBody).
THEOREM OneStatusLinePerResponse == ProxySpec => []OneStatusLine
<1>1. ASSUME ProxyInv, NEW s \in Sessions, NEW i \in 2 .. Len(Response(s))
      PROVE  /\ \/ Response(s)[i] \notin Statuses
                \/ session[s].mixed /\ i = Len(Response(s)) /\ Response(s)[i] = "500"
             /\ Response(s)[1] = "222" /\ Response(s)[i - 1] # "."
  <2>1. CASE ~session[s].mixed
    BY <1>1, <2>1, SessionSays DEF Proper
  <2>2. CASE session[s].mixed
    <3>1. CutOff(Response(s))
      BY <1>1, <2>2, SessionSays
    <3>2. CASE i = Len(Response(s))
      BY <2>2, <3>1, <3>2 DEF CutOff
    <3>3. CASE i # Len(Response(s))
      BY <3>1, <3>3 DEF CutOff, Statuses
    <3> QED
      BY <3>2, <3>3
  <2> QED
    BY <2>1, <2>2
<1>2. ProxyInv => OneStatusLine
  BY <1>1 DEF OneStatusLine
<1> QED
  BY <1>2, ProxyInvariant, PTL

\* A session that goes on after a response has sent all of it, or has said that it broke off.
THEOREM ResponsesWhole == ProxySpec => []AnswersWhole
<1>1. ProxyInv => AnswersWhole
  <2> SUFFICES ASSUME ProxyInv, NEW s \in Sessions,
                      session[s].pc = "flush", ~session[s].quit, ~session[s].leaving
               PROVE  /\ Response(s) # <<>>
                      /\ Response(s)[1] = "222" =>
                           Response(s)[Len(Response(s))] =
                             IF session[s].mixed THEN "500" ELSE "."
    BY DEF AnswersWhole, At
  <2>1. CASE ~session[s].mixed
    BY <2>1, SessionSays DEF Whole
  <2>2. CASE session[s].mixed
    <3>1. CutOff(Response(s)) /\ Response(s) \in Seq(Lines)
      BY <2>2, SessionSays
    <3>2. Response(s) # <<>>
      BY <3>1, EmptySeq DEF CutOff
    <3> QED
      BY <2>2, <3>1, <3>2 DEF CutOff
  <2> QED
    BY <2>1, <2>2
<1> QED
  BY <1>1, ProxyInvariant, PTL
===============================================================================
