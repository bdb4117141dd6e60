--------------------------- MODULE ConnectionProofs ---------------------------
(***************************************************************************)
(* What Connection promises for any number of connections and jobs, any    *)
(* articles and any depth of a pipeline.                                   *)
(***************************************************************************)
EXTENDS Connection, SequenceTheorems, TLAPS

\* What a connection is like whoever has it: a closed client has no socket, a dropped
\* one delivers nothing, and a group that is selected or about to be is selected.
Sound(k) ==
  /\ k.closed => ~k.open
  /\ ~k.up => k.wire = <<>>
  /\ (k.group = "selected" \/ \E i \in 1 .. Len(k.wire) : k.wire[i].code = 211)
       => ~k.open \/ k.selected

\* Where a job is tells what it has still to ask for and what it has asked for.
Placed(r) ==
  /\ r.pc \in {"group", "groupReply"} => r.pend = <<>> /\ r.todo # <<>>
  /\ r.pc = "ask" => r.todo # <<>> /\ (r.kind # "batch" => r.pend = <<>>)
  /\ r.pc \in {"reply", "body"} => r.pend # <<>> /\ (r.kind # "batch" => Len(r.pend) = 1)
  /\ r.pc \in {"redial", "dial", "install", "login"} => r.pend # <<>> \/ r.todo # <<>>
  /\ r.pc = "body" => r.kind # "stat"

\* The wire holds the replies to the articles that are pending, from the i-th on.
Answering(r, k, i) ==
  /\ Len(k.wire) = Len(r.pend)
  /\ \A n \in i .. Len(r.pend) :
       /\ k.wire[n].art = r.pend[n] /\ k.wire[n].code \notin {0, 211}
       /\ r.kind = "stat" => k.wire[n].code # 222

\* What is on the wire of a connection is what its job is owed.
Owed(r, k) ==
  /\ r.pc \in {"group", "login"} \/ (r.pc = "end" /\ r.keep) => k.wire = <<>>
  /\ r.pc = "groupReply" => Len(k.wire) = 1 /\ k.wire[1].code \in {211, 411, 480}
  /\ r.pc \in {"ask", "reply"} => Answering(r, k, 1)
  /\ r.pc = "body" =>
       Answering(r, k, 2) /\ k.wire[1].code = 0 /\ k.wire[1].art = Head(r.pend)

\* How a job and its connection go together while the lease lasts.
Fits(r, k) ==
  /\ Placed(r)
  /\ ~r.ended => /\ r.pc \in {"dial", "install"} => ~k.open /\ k.group = "unknown"
                 /\ ~k.late /\ k.open /\ k.up => Owed(r, k)

\* A lease: a job that is running has one, which nobody else has, and a connection is
\* closed when its lease was ended under the job.
Leases ==
  \A j \in Jobs :
    IF At(j, "off") THEN job[j].conn = None \/ job[j].ended
    ELSE /\ job[j].conn \in Conns /\ job[j].kind \in Kinds
         /\ Fits(job[j], Conn(j))
         /\ job[j].ended => Conn(j).closed

Parked ==
  \A c \in idle :
    /\ ~client[c].closed
    /\ client[c].open /\ ~client[c].late => client[c].wire = <<>>
    /\ \A j \in Jobs : job[j].conn = c => job[j].ended

ConnInv ==
  /\ ConnectionTypeOK
  /\ \A c \in Conns : Sound(client[c])
  /\ Leases /\ Parked /\ LeaseUndisturbed
  /\ BodiesOwn

-------------------------------------------------------------------------------
\* A job takes a step, and the connection it holds may.
Turns(j) ==
  /\ job' \in [Jobs -> Calls] /\ \A i \in Jobs \ {j} : job'[i] = job[i]
  /\ job'[j].conn = job[j].conn /\ job'[j].kind = job[j].kind
  /\ job'[j].ended = job[j].ended /\ job'[j].pc # "off"

Carries(j) ==
  LET c == job[j].conn
  IN /\ client' \in [Conns -> Clients] /\ \A d \in Conns \ {c} : client'[d] = client[d]
     /\ client'[c].closed = client[c].closed /\ Sound(client'[c])

\* A job goes on: the step is its own and its connection's, and they go together after it.
GoesOn(j) ==
  /\ ~At(j, "off") /\ j \in Jobs
  /\ Turns(j) /\ Carries(j) /\ Fits(job'[j], client'[job[j].conn])
  /\ idle' = idle /\ watch' \in [Jobs -> {"none", "watching", "fired"}]
  /\ filed' \in Bodies
  /\ BodiesOwn'

\* Such a step disturbs no one else: the connection is the job's alone.
LEMMA GoingOnKeeps ==
  ASSUME ConnInv, NEW j \in Jobs, GoesOn(j)
  PROVE  ConnInv'
<1> DEFINE c == job[j].conn
<1>1. c \in Conns /\ (job[j].ended => client[c].closed)
  BY DEF ConnInv, Leases, GoesOn, Turns, Carries, Conn
<1>2. \A i \in Jobs \ {j} : ~At(i, "off") /\ job[i].conn = c => job[i].ended
  BY <1>1 DEF ConnInv, LeaseUndisturbed, GoesOn, Turns, Carries, Conn
<1>3. c \notin idle
  BY <1>1 DEF ConnInv, LeaseUndisturbed, Parked, GoesOn, Turns, Carries
<1>4. /\ \A i \in Jobs \ {j} : job'[i] = job[i]
      /\ \A d \in Conns \ {c} : client'[d] = client[d]
  BY <1>1 DEF ConnInv, ConnectionTypeOK, GoesOn, Turns, Carries
<1>5. ConnectionTypeOK'
  BY <1>1 DEF ConnInv, ConnectionTypeOK, GoesOn, Turns, Carries
<1>6. \A d \in Conns : Sound(client'[d])
  BY <1>1, <1>4 DEF ConnInv, GoesOn, Turns, Carries
<1>7. Leases'
  <2> SUFFICES ASSUME NEW i \in Jobs
               PROVE  IF At(i, "off")' THEN (job[i].conn = None \/ job[i].ended)'
                      ELSE (/\ job[i].conn \in Conns /\ job[i].kind \in Kinds
                            /\ Fits(job[i], Conn(i))
                            /\ job[i].ended => Conn(i).closed)'
    BY DEF Leases
  <2>1. CASE i = j
    BY <2>1, <1>1 DEF GoesOn, Turns, Carries, At, Conn, ConnInv, Leases
  <2>2. CASE i # j /\ job[i].conn # c
    <3>1. job'[i] = job[i] /\ (job[i].conn \in Conns => client'[job[i].conn] = client[job[i].conn])
      BY <2>2, <1>4
    <3> QED BY <3>1 DEF ConnInv, Leases, At, Conn
  <2>3. CASE i # j /\ job[i].conn = c
    <3>1. job'[i] = job[i]
      BY <2>3, <1>4
    <3>2. CASE At(i, "off")
      BY <3>1, <3>2 DEF ConnInv, Leases, At
    <3>3. CASE ~At(i, "off")
      <4>1. job[i].ended /\ client[c].closed /\ Fits(job[i], client[c])
        BY <1>2, <2>3, <3>3 DEF ConnInv, Leases, Conn
      <4>2. Fits(job[i], client'[c])
        BY <4>1 DEF Fits
      <4> QED BY <3>1, <3>3, <4>1, <4>2, <2>3 DEF ConnInv, Leases, At, Conn, GoesOn, Turns, Carries
    <3> QED BY <3>2, <3>3
  <2> QED BY <2>1, <2>2, <2>3
<1>8. Parked'
  BY <1>3, <1>4 DEF ConnInv, Parked, GoesOn, Turns, Carries, ConnectionTypeOK
<1>9. LeaseUndisturbed'
  <2> SUFFICES ASSUME NEW i \in Jobs, ~At(i, "off")', ~job'[i].ended
               PROVE  /\ ~client'[job'[i].conn].closed /\ job'[i].conn \notin idle'
                      /\ \A h \in Jobs \ {i} : job'[h].conn = job'[i].conn => job'[h].ended
    BY DEF LeaseUndisturbed, Conn
  <2>1. job'[i].conn = job[i].conn /\ job'[i].ended = job[i].ended /\ ~At(i, "off")
    BY <1>4 DEF GoesOn, Turns, Carries, At
  <2>2. /\ ~client[job[i].conn].closed /\ job[i].conn \notin idle /\ job[i].conn \in Conns
        /\ \A h \in Jobs \ {i} : job[h].conn = job[i].conn => job[h].ended
    BY <2>1 DEF ConnInv, LeaseUndisturbed, Leases, Conn
  <2>3. \A h \in Jobs : job'[h].conn = job[h].conn /\ job'[h].ended = job[h].ended
    BY <1>4 DEF GoesOn, Turns, Carries
  <2> QED BY <1>4, <2>1, <2>2, <2>3 DEF GoesOn, Turns, Carries
<1>10. BodiesOwn'
  BY DEF GoesOn, Turns, Carries
<1> QED BY <1>5, <1>6, <1>7, <1>8, <1>9, <1>10 DEF ConnInv

-------------------------------------------------------------------------------
(* The server and the client's reading of it. *)

\* A command sent on a sound connection adds its reply to the end of the wire.
AfterAsk(k, n, code, a) ==
  /\ n.closed = k.closed /\ n.open = k.open /\ n.up = k.up /\ n.late = k.late
  /\ Len(n.wire) = Len(k.wire) + 1
  /\ \A i \in 1 .. Len(k.wire) : n.wire[i] = k.wire[i]
  /\ n.wire[Len(k.wire) + 1].code = code /\ n.wire[Len(k.wire) + 1].art = a

LEMMA AskedIs ==
  ASSUME NEW k \in Clients, Sound(k), k.open, k.up,
         NEW cmd, NEW a \in Articles \union {None}, NEW code \in {111, 211, 222, 223, 411, 430, 480}
  PROVE  /\ Asked(k, cmd, a, code) \in Clients /\ Sound(Asked(k, cmd, a, code))
         /\ AfterAsk(k, Asked(k, cmd, a, code), code, a)
<1> DEFINE n == Asked(k, cmd, a, code)
           r == [code |-> code, art |-> a]
<1>1. r \in Replies
  BY DEF Replies
<1>2. k.wire \in Seq(Replies)
  BY DEF Clients
<1>3. n.wire = Append(k.wire, r) /\ (n.selected <=> k.selected \/ code = 211)
      /\ n.closed = k.closed /\ n.open = k.open /\ n.up = k.up /\ n.group = k.group
      /\ n.late = k.late
  BY ZenonT(30) DEF Asked, Clients
<1>4. /\ n.wire \in Seq(Replies) /\ Len(n.wire) = Len(k.wire) + 1
      /\ \A i \in 1 .. Len(k.wire) : n.wire[i] = k.wire[i]
      /\ n.wire[Len(k.wire) + 1] = r
  BY <1>1, <1>2, <1>3, AppendProperties
<1>5. n \in Clients
  <2> DEFINE w == Append(k.wire, r)
             s == k.selected \/ code = 211
  <2>1. n = [k EXCEPT !.wire = w, !.selected = s]
    BY DEF Asked
  <2>2. w \in Seq(Replies) /\ s \in BOOLEAN
    BY <1>1, <1>2, AppendProperties
  <2> HIDE DEF w, s, n
  <2> QED BY <2>1, <2>2, ZenonT(30) DEF Clients
<1> HIDE DEF n
<1>6. Sound(n)
  <2>1. Len(k.wire) \in Nat
    BY <1>2, LenProperties
  <2>2. ASSUME NEW i \in 1 .. Len(n.wire), n.wire[i].code = 211
        PROVE  n.selected
    <3>1. CASE i \in 1 .. Len(k.wire)
      BY <1>3, <1>4, <2>2, <3>1 DEF Sound
    <3>2. CASE i = Len(k.wire) + 1
      BY <1>3, <1>4, <2>2, <3>2 DEF r
    <3> QED BY <1>4, <2>1, <3>1, <3>2
  <2> QED BY <1>3, <2>2 DEF Sound
<1> QED BY <1>3, <1>4, <1>5, <1>6 DEF n, r, AfterAsk

LEMMA CodeZero ==
  ASSUME NEW r \in Replies
  PROVE  LET z == [r EXCEPT !.code = 0] IN z \in Replies /\ z.code = 0 /\ z.art = r.art
  BY DEF Replies

LEMMA FirstOfWire ==
  ASSUME NEW S, NEW w \in Seq(S), w # <<>>
  PROVE  Len(w) \in Nat \ {0} /\ Head(w) = w[1] /\ w[1] \in S
  BY EmptySeq, LenProperties

LEMMA LineTaken ==
  ASSUME NEW w \in Seq(Replies), w # <<>>, NEW z, z = [w EXCEPT ![1] = [w[1] EXCEPT !.code = 0]]
  PROVE  z \in Seq(Replies) /\ Len(z) = Len(w) /\ z[1].code = 0 /\ z[1].art = w[1].art
         /\ \A i \in 2 .. Len(w) : z[i] = w[i]
<1>1. w[1] \in Replies /\ 1 \in 1 .. Len(w)
  BY FirstOfWire
<1>2. /\ [w[1] EXCEPT !.code = 0] \in Replies /\ [w[1] EXCEPT !.code = 0].code = 0
      /\ [w[1] EXCEPT !.code = 0].art = w[1].art
  BY <1>1, CodeZero
<1> DEFINE e == [w[1] EXCEPT !.code = 0]
<1> HIDE DEF e
<1>3. z = [w EXCEPT ![1] = e]
  BY DEF e
<1>4. z \in Seq(Replies) /\ Len(z) = Len(w) /\ \A i \in 1 .. Len(w) : z[i] = IF i = 1 THEN e ELSE w[i]
  BY <1>1, <1>2, <1>3, ExceptSeq DEF e
<1> QED BY <1>1, <1>2, <1>4 DEF e

\* What is left of a sound wire with a status line in front once the line is read.
ReadAs(k, g) == [LineRead(k) EXCEPT !.group = g]

AfterLine(k, n) ==
  /\ n.open = k.open /\ n.up = k.up /\ n.late = k.late
  /\ k.wire[1].code = 222 =>
       /\ Len(n.wire) = Len(k.wire) /\ n.wire[1].code = 0 /\ n.wire[1].art = k.wire[1].art
       /\ \A i \in 2 .. Len(k.wire) : n.wire[i] = k.wire[i]
  /\ k.wire[1].code # 222 =>
       /\ Len(n.wire) = Len(k.wire) - 1
       /\ \A i \in 1 .. Len(n.wire) : n.wire[i] = k.wire[i + 1]

LEMMA LineReadIs ==
  ASSUME NEW k \in Clients, Sound(k), k.open, k.wire # <<>>,
         NEW g \in {"unknown", "selected", "refused"},
         g = "selected" => k.group = g \/ Head(k.wire).code = 211
  PROVE  /\ ReadAs(k, g) \in Clients /\ Sound(ReadAs(k, g))
         /\ ReadAs(k, g).closed = k.closed /\ AfterLine(k, ReadAs(k, g))
<1> DEFINE n == ReadAs(k, g)
<1>1. k.wire \in Seq(Replies) /\ k.selected \in BOOLEAN
  BY DEF Clients
<1>2. Len(k.wire) \in Nat \ {0} /\ Head(k.wire) = k.wire[1] /\ k.wire[1] \in Replies
  BY <1>1, FirstOfWire
<1>3. n.wire = IF Head(k.wire).code = 222 THEN [k.wire EXCEPT ![1].code = 0] ELSE Tail(k.wire)
  BY DEF ReadAs, LineRead, Clients
<1>4. /\ n.closed = k.closed /\ n.open = k.open /\ n.up = k.up
      /\ n.selected = k.selected /\ n.group = g /\ n.late = k.late
      /\ n.wire \in Seq(Replies) => n \in Clients
  BY DEF ReadAs, LineRead, Clients
<1> HIDE DEF n
<1>5. k.up /\ (g = "selected" => k.selected)
  BY <1>2 DEF Sound
<1>6. CASE k.wire[1].code = 222
  <2>1. n.wire = [k.wire EXCEPT ![1] = [k.wire[1] EXCEPT !.code = 0]]
    BY <1>2, <1>3, <1>6
  <2>2. n.wire \in Seq(Replies) /\ Len(n.wire) = Len(k.wire) /\ n.wire[1].code = 0
        /\ n.wire[1].art = k.wire[1].art
        /\ \A i \in 2 .. Len(k.wire) : n.wire[i] = k.wire[i]
    <3> DEFINE w == k.wire
               z == n.wire
    <3>1. w \in Seq(Replies) /\ w # <<>> /\ z = [w EXCEPT ![1] = [w[1] EXCEPT !.code = 0]]
      BY <1>1, <2>1
    <3> HIDE DEF w, z
    <3>2. /\ z \in Seq(Replies) /\ Len(z) = Len(w) /\ z[1].code = 0 /\ z[1].art = w[1].art
          /\ \A i \in 2 .. Len(w) : z[i] = w[i]
      BY <3>1, LineTaken
    <3> QED BY <3>2 DEF w, z
  <2>3. ASSUME NEW i \in 1 .. Len(n.wire), n.wire[i].code = 211 PROVE k.selected
    <3>1. i \in 2 .. Len(k.wire) /\ k.wire[i].code = 211
      BY <1>2, <2>2, <2>3
    <3> QED BY <1>2, <3>1 DEF Sound
  <2> QED BY <1>4, <1>5, <1>6, <2>2, <2>3 DEF n, AfterLine, Sound
<1>7. CASE k.wire[1].code # 222
  <2>1. n.wire = Tail(k.wire)
    BY <1>2, <1>3, <1>7
  <2>2. n.wire \in Seq(Replies) /\ Len(n.wire) = Len(k.wire) - 1
        /\ \A i \in 1 .. Len(n.wire) : n.wire[i] = k.wire[i + 1]
    BY <1>1, <2>1, HeadTailProperties
  <2>3. ASSUME NEW i \in 1 .. Len(n.wire), n.wire[i].code = 211 PROVE k.selected
    <3>1. i + 1 \in 1 .. Len(k.wire) /\ k.wire[i + 1].code = 211
      BY <1>2, <2>2, <2>3
    <3> QED BY <3>1 DEF Sound
  <2> QED BY <1>4, <1>5, <1>7, <2>2, <2>3 DEF n, AfterLine, Sound
<1> QED BY <1>6, <1>7

-------------------------------------------------------------------------------
(* What becomes of a job after a command. *)

LEMMA Holds ==
  ASSUME ConnInv, NEW j \in Jobs, ~At(j, "off")
  PROVE  /\ job \in [Jobs -> Calls] /\ job[j] \in Calls /\ client \in [Conns -> Clients]
         /\ job[j].conn \in Conns /\ job[j].kind \in Kinds
         /\ Conn(j) \in Clients /\ Sound(Conn(j)) /\ Fits(job[j], Conn(j))
         /\ job[j].ended <=> Conn(j).closed
  BY DEF ConnInv, ConnectionTypeOK, Leases, LeaseUndisturbed, Conn

LEMMA ConnKept ==
  ASSUME ConnInv, NEW j \in Jobs, ~At(j, "off"), UNCHANGED client
  PROVE  Carries(j) /\ client'[job[j].conn] = Conn(j)
  BY Holds DEF Carries, Conn

ConnTo(j, k) == client' = [client EXCEPT ![job[j].conn] = k]

LEMMA ConnBecomes ==
  ASSUME ConnInv, NEW j \in Jobs, ~At(j, "off"), NEW k \in Clients, Sound(k),
         k.closed = Conn(j).closed, ConnTo(j, k)
  PROVE  Carries(j) /\ client'[job[j].conn] = k
  BY Holds DEF ConnTo, Carries, Conn

LEMMA JobBecomes ==
  ASSUME ConnInv, NEW j \in Jobs, ~At(j, "off"), NEW r \in Calls,
         r.conn = job[j].conn, r.kind = job[j].kind, r.ended = job[j].ended, r.pc # "off",
         job' = [job EXCEPT ![j] = r]
  PROVE  Turns(j) /\ job'[j] = r
  BY Holds DEF Turns

\* A job that is at its end keeps only a connection that owes nothing.
LEMMA EndsFit ==
  ASSUME ConnInv, NEW j \in Jobs, ~At(j, "off"), NEW keep \in BOOLEAN, NEW k,
         keep /\ ~k.late /\ ~job[j].ended /\ k.open /\ k.up => k.wire = <<>>,
         Ends(j, keep)
  PROVE  Turns(j) /\ Fits(job'[j], k)
<1> DEFINE r == [job[j] EXCEPT !.pc = "end", !.keep = keep]
<1>1. job[j] \in Calls
  BY Holds
<1>2. r \in Calls /\ r.pc = "end" /\ r.keep = keep /\ r.conn = job[j].conn
      /\ r.kind = job[j].kind /\ r.ended = job[j].ended
  BY <1>1 DEF Calls
<1>3. job' = [job EXCEPT ![j] = r]
  BY DEF Ends
<1> HIDE DEF r
<1>4. Turns(j) /\ job'[j] = r
  BY <1>2, <1>3, JobBecomes
<1> QED BY <1>2, <1>4 DEF Fits, Placed, Owed

LEMMA FailsFit ==
  ASSUME ConnInv, NEW j \in Jobs, ~At(j, "off"), NEW k,
         job[j].todo # <<>> \/ job[j].pend # <<>>,
         NEW resume \in {"groupWrite", "groupRead", "body"}, Fails(j, resume)
  PROVE  Turns(j) /\ Fits(job'[j], k)
<1>1. CASE resume # "body" \/ Kind(j) = "fetch"
  <2> DEFINE r == [job[j] EXCEPT !.pc = "redial", !.resume = resume]
  <2>1. job[j] \in Calls
    BY Holds
  <2>2. r \in Calls /\ r.pc = "redial" /\ r.conn = job[j].conn /\ r.kind = job[j].kind
        /\ r.ended = job[j].ended /\ r.todo = job[j].todo /\ r.pend = job[j].pend
    BY <2>1 DEF Calls
  <2>3. job' = [job EXCEPT ![j] = r]
    BY <1>1 DEF Fails
  <2> HIDE DEF r
  <2>4. Turns(j) /\ job'[j] = r
    BY <2>2, <2>3, JobBecomes
  <2> QED BY <2>2, <2>4 DEF Fits, Placed, Owed
<1>2. CASE ~(resume # "body" \/ Kind(j) = "fetch")
  BY <1>2, EndsFit DEF Fails
<1> QED BY <1>1, <1>2

LEMMA GroupFailsFit ==
  ASSUME ConnInv, NEW j \in Jobs, ~At(j, "off"), NEW k,
         ~k.late /\ ~job[j].ended /\ k.open /\ k.up => k.wire = <<>>, GroupFails(j)
  PROVE  Turns(j) /\ Fits(job'[j], k)
<1>1. (Kind(j) \in {"fetch", "batch"}) \in BOOLEAN
  OBVIOUS
<1> QED BY <1>1, EndsFit DEF GroupFails

LEMMA AgainFits ==
  ASSUME ConnInv, NEW j \in Jobs, ~At(j, "off"), NEW k,
         job[j].todo # <<>> \/ job[j].pend # <<>>,
         ~k.late /\ ~job[j].ended /\ k.open /\ k.up => k.wire = <<>>,
         NEW pc \in {"group", "ask"}, Again(j, pc)
  PROVE  Turns(j) /\ Fits(job'[j], k)
<1>1. CASE job[j].try < MaxRetries
  <2> DEFINE todo == job[j].pend \o job[j].todo
  <2>1. /\ job[j] \in Calls /\ job[j].try \in 0 .. MaxRetries
        /\ job[j].todo \in Seq(Articles) /\ job[j].pend \in Seq(Articles)
    BY Holds DEF Calls
  <2>2. todo \in Seq(Articles) /\ todo # <<>>
    BY <2>1, ConcatProperties, ConcatEqualIffEmpty
  <2>3. job[j].try + 1 \in 0 .. MaxRetries
    BY <1>1, <2>1, ConnectionAssumption
  <2> HIDE DEF todo
  <2> DEFINE r == [job[j] EXCEPT !.pc = pc, !.try = job[j].try + 1,
                                 !.todo = todo, !.pend = <<>>]
  <2>4. <<>> \in Seq(Articles)
    OBVIOUS
  <2>5. r \in Calls /\ r.pc = pc /\ r.conn = job[j].conn /\ r.kind = job[j].kind
        /\ r.ended = job[j].ended /\ r.todo = todo /\ r.pend = <<>>
    BY <2>4, <2>1, <2>2, <2>3 DEF Calls
  <2>6. job' = [job EXCEPT ![j] = r]
    BY <1>1 DEF Again, todo
  <2> HIDE DEF r
  <2>7. Turns(j) /\ job'[j] = r
    BY <2>5, <2>6, JobBecomes
  <2>8. Len(<<>>) = 0
    OBVIOUS
  <2> QED BY <2>2, <2>5, <2>7, <2>8 DEF Fits, Placed, Owed, Answering
<1>2. CASE ~(job[j].try < MaxRetries)
  BY <1>2, EndsFit, GroupFailsFit DEF Again
<1> QED BY <1>1, <1>2

LEMMA ReconnectedFits ==
  ASSUME ConnInv, NEW j \in Jobs, ~At(j, "off"), NEW k, NEW ok \in BOOLEAN,
         job[j].todo # <<>> \/ job[j].pend # <<>>,
         ~k.late /\ ~job[j].ended /\ k.open /\ k.up => k.wire = <<>>,
         Reconnected(j, ok)
  PROVE  Turns(j) /\ Fits(job'[j], k)
<1>1. job[j].resume \in {"none", "groupWrite", "groupRead", "body"}
  BY Holds DEF Calls
<1> QED BY <1>1, AgainFits, GroupFailsFit, EndsFit DEF Reconnected

-------------------------------------------------------------------------------
(* The commands and the reconnect, one by one. *)

LEMMA Going ==
  ASSUME ConnInv, NEW j \in Jobs, ~At(j, "off"), UNCHANGED <<idle, watch, filed>>,
         Turns(j), Carries(j), Fits(job'[j], client'[job[j].conn])
  PROVE  GoesOn(j)
  BY DEF GoesOn, ConnInv, ConnectionTypeOK, BodiesOwn

LEMMA MovesTo ==
  ASSUME ConnInv, NEW j \in Jobs, ~At(j, "off"),
         NEW pc \in {"groupReply", "ask", "reply", "body", "drain", "dial", "install", "login"},
         Moves(j, pc)
  PROVE  /\ Turns(j) /\ job'[j].pc = pc /\ job'[j].kind = job[j].kind
         /\ job'[j].ended = job[j].ended
         /\ job'[j].todo = job[j].todo /\ job'[j].pend = job[j].pend
<1> DEFINE r == [job[j] EXCEPT !.pc = pc]
<1>1. job[j] \in Calls
  BY Holds
<1>2. r \in Calls /\ r.pc = pc /\ r.conn = job[j].conn /\ r.kind = job[j].kind
      /\ r.ended = job[j].ended /\ r.todo = job[j].todo /\ r.pend = job[j].pend
  BY <1>1 DEF Calls
<1>3. job' = [job EXCEPT ![j] = r]
  BY DEF Moves
<1> HIDE DEF r
<1> QED BY <1>2, <1>3, JobBecomes

\* A line that can be read is one the job is owed.
LEMMA LineOwed ==
  ASSUME ConnInv, NEW j \in Jobs, ~At(j, "off"), Conn(j).open, Conn(j).wire # <<>>
  PROVE  /\ ~job[j].ended /\ Conn(j).up /\ (~Conn(j).late => Owed(job[j], Conn(j)))
         /\ Conn(j).wire \in Seq(Replies) /\ Head(Conn(j).wire) = Conn(j).wire[1]
         /\ Len(Conn(j).wire) \in Nat \ {0} /\ Conn(j).wire[1] \in Replies
<1>1. Conn(j) \in Clients /\ Sound(Conn(j)) /\ Fits(job[j], Conn(j))
      /\ (job[j].ended <=> Conn(j).closed)
  BY Holds
<1>2. Conn(j).wire \in Seq(Replies)
  BY <1>1 DEF Clients
<1>3. ~job[j].ended /\ Conn(j).up
  BY <1>1 DEF Sound
<1> QED BY <1>1, <1>2, <1>3, FirstOfWire DEF Fits

LEMMA WriteIs ==
  ASSUME ConnInv, NEW j \in Jobs, ~At(j, "off"), NEW cmd \in {"GROUP", "STAT", "BODY"},
         NEW a \in Articles \union {None}, Write(j, cmd, a)
  PROVE  LET k == Conn(j)
             n == client'[job[j].conn]
         IN /\ Carries(j) /\ k.open /\ k.up /\ ~job[j].ended /\ n.late = k.late
            /\ Len(k.wire) \in Nat /\ Len(n.wire) = Len(k.wire) + 1
            /\ \A i \in 1 .. Len(k.wire) : n.wire[i] = k.wire[i]
            /\ n.wire[Len(k.wire) + 1].code \in Answers(cmd)
            /\ n.wire[Len(k.wire) + 1].art = a
<1>1. Conn(j) \in Clients /\ Sound(Conn(j)) /\ Conn(j).open /\ Conn(j).up
      /\ (job[j].ended <=> Conn(j).closed)
  BY Holds DEF Write
<1>2. PICK code \in Answers(cmd) :
        ConnTo(j, Asked(Conn(j), cmd, a, code))
  BY DEF Write, Conn, ConnTo
<1> DEFINE n == Asked(Conn(j), cmd, a, code)
<1>3. code \in {111, 211, 222, 223, 411, 430, 480}
  BY DEF Answers
<1>4. n \in Clients /\ Sound(n) /\ AfterAsk(Conn(j), n, code, a)
  BY <1>1, <1>3, AskedIs
<1> HIDE DEF n
<1>5. n.closed = Conn(j).closed
  BY <1>4 DEF AfterAsk
<1>6. Carries(j) /\ client'[job[j].conn] = n
  BY <1>2, <1>4, <1>5, ConnBecomes DEF n
<1>7. Conn(j).wire \in Seq(Replies)
  BY <1>1 DEF Clients
<1>8. Len(Conn(j).wire) \in Nat
  BY <1>7, LenProperties
<1> QED BY <1>1, <1>4, <1>6, <1>8 DEF Sound, AfterAsk

LEMMA ReadsIs ==
  ASSUME ConnInv, NEW j \in Jobs, ~At(j, "off"), HasLine(j),
         NEW g \in {"unknown", "selected", "refused"},
         g = "selected" => Conn(j).group = g \/ Line(j) = 211, Reads(j, g)
  PROVE  Carries(j) /\ AfterLine(Conn(j), client'[job[j].conn])
<1> DEFINE n == ReadAs(Conn(j), g)
<1>1. Conn(j) \in Clients /\ Sound(Conn(j)) /\ Conn(j).open /\ Conn(j).wire # <<>>
  BY Holds DEF HasLine
<1>2. g = "selected" => Conn(j).group = g \/ Head(Conn(j).wire).code = 211
  BY DEF Line
<1>3. ConnTo(j, n)
  BY DEF Reads, Conn, ReadAs, ConnTo
<1>4. n \in Clients /\ Sound(n) /\ n.closed = Conn(j).closed /\ AfterLine(Conn(j), n)
  BY <1>1, <1>2, LineReadIs
<1>5. Carries(j) /\ client'[job[j].conn] = n
  BY <1>3, <1>4, ConnBecomes
<1> QED BY <1>4, <1>5

LEMMA SkipGroupGoes ==
  ASSUME ConnInv, NEW j \in Jobs, SkipGroup(j) PROVE GoesOn(j)
<1>1. ~At(j, "off") /\ job[j].pc = "group"
  BY DEF SkipGroup, At
<1>2. Fits(job[j], Conn(j))
  BY <1>1, Holds
<1>3. Turns(j) /\ job'[j].pc = "ask" /\ job'[j].ended = job[j].ended
      /\ job'[j].todo = job[j].todo /\ job'[j].pend = job[j].pend
  BY <1>1, MovesTo DEF SkipGroup
<1>4. Carries(j) /\ client'[job[j].conn] = Conn(j)
  BY <1>1, ConnKept DEF SkipGroup
<1>5. Len(<<>>) = 0
  OBVIOUS
<1>6. Fits(job'[j], Conn(j))
  BY <1>1, <1>2, <1>3, <1>5 DEF Fits, Placed, Owed, Answering
<1> QED BY <1>1, <1>3, <1>4, <1>6, Going DEF SkipGroup

LEMMA AskGroupGoes ==
  ASSUME ConnInv, NEW j \in Jobs, AskGroup(j) PROVE GoesOn(j)
<1>1. ~At(j, "off") /\ job[j].pc = "group"
  BY DEF AskGroup, At
<1>2. Fits(job[j], Conn(j)) /\ job[j].pend = <<>> /\ job[j].todo # <<>>
  BY <1>1, Holds DEF Fits, Placed
<1>3. CASE Write(j, "GROUP", None) /\ Moves(j, "groupReply")
  <2> DEFINE n == client'[job[j].conn]
  <2>1. /\ Carries(j) /\ Conn(j).open /\ Conn(j).up /\ ~job[j].ended /\ n.late = Conn(j).late
        /\ Len(n.wire) = Len(Conn(j).wire) + 1
        /\ n.wire[Len(Conn(j).wire) + 1].code \in {211, 411, 480}
    <3>1. PICK cmd \in {"GROUP", "STAT", "BODY"}, a \in Articles \union {None} :
            cmd = "GROUP" /\ a = None
      OBVIOUS
    <3>2. Write(j, cmd, a)
      BY <1>3, <3>1
    <3>3. /\ Carries(j) /\ Conn(j).open /\ Conn(j).up /\ ~job[j].ended
          /\ n.late = Conn(j).late
          /\ Len(n.wire) = Len(Conn(j).wire) + 1
          /\ n.wire[Len(Conn(j).wire) + 1].code \in Answers(cmd)
      BY <1>1, <3>2, WriteIs, ZenonT(30)
    <3> QED BY <3>1, <3>3 DEF Answers
  <2>2. Turns(j) /\ job'[j].pc = "groupReply" /\ job'[j].ended = job[j].ended
        /\ job'[j].todo = job[j].todo /\ job'[j].pend = job[j].pend
    BY <1>1, <1>3, MovesTo
  <2>3. ~Conn(j).late => Len(Conn(j).wire) = 0
    BY <1>1, <1>2, <2>1 DEF Fits, Owed
  <2>4. Fits(job'[j], n)
    BY <1>2, <2>1, <2>2, <2>3 DEF Fits, Placed, Owed
  <2> QED BY <1>1, <2>1, <2>2, <2>4, Going DEF AskGroup
<1>4. CASE UNCHANGED client /\ Fails(j, "groupWrite")
  BY <1>1, <1>2, <1>4, ConnKept, FailsFit, Going DEF AskGroup
<1> QED BY <1>3, <1>4 DEF AskGroup

LEMMA ToArticlesFits ==
  ASSUME ConnInv, NEW j \in Jobs, ~At(j, "off"), NEW k, ToArticles(j),
         job[j].todo # <<>>, job[j].pend = <<>>, ~k.late => Len(k.wire) = 0
  PROVE  Turns(j) /\ Fits(job'[j], k)
<1> DEFINE r == [job[j] EXCEPT !.pc = "ask", !.try = 0]
<1>1. job[j] \in Calls /\ 0 \in 0 .. MaxRetries
  BY Holds, ConnectionAssumption
<1>2. r \in Calls /\ r.pc = "ask" /\ r.conn = job[j].conn /\ r.kind = job[j].kind
      /\ r.ended = job[j].ended /\ r.todo = job[j].todo /\ r.pend = job[j].pend
  BY <1>1 DEF Calls
<1>3. job' = [job EXCEPT ![j] = r]
  BY DEF ToArticles
<1> HIDE DEF r
<1>4. Turns(j) /\ job'[j] = r
  BY <1>2, <1>3, JobBecomes
<1>5. Len(<<>>) = 0
  OBVIOUS
<1> QED BY <1>2, <1>4, <1>5 DEF Fits, Placed, Owed, Answering

LEMMA GroupSelectedGoes ==
  ASSUME ConnInv, NEW j \in Jobs, GroupSelected(j) PROVE GoesOn(j)
<1> DEFINE n == client'[job[j].conn]
<1>1. ~At(j, "off") /\ job[j].pc = "groupReply" /\ Line(j) = 211 /\ HasLine(j)
  BY DEF GroupSelected, At
<1>2. Fits(job[j], Conn(j)) /\ job[j].pend = <<>> /\ job[j].todo # <<>> /\ job[j] \in Calls
  BY <1>1, Holds DEF Fits, Placed
<1>3. /\ ~job[j].ended /\ Conn(j).up /\ (~Conn(j).late => Owed(job[j], Conn(j)))
      /\ Conn(j).wire[1].code = 211
  BY <1>1, LineOwed DEF HasLine, Line
<1>4. Carries(j) /\ AfterLine(Conn(j), n)
  BY <1>1, ReadsIs DEF GroupSelected
<1>5. ~n.late => Len(n.wire) = 0
  BY <1>1, <1>3, <1>4, SMTT(20) DEF AfterLine, Owed
<1> HIDE DEF n
<1>6. Turns(j) /\ Fits(job'[j], n)
  BY <1>1, <1>2, <1>5, ToArticlesFits DEF GroupSelected
<1> QED BY <1>1, <1>4, <1>6, Going DEF GroupSelected, n

LEMMA GroupRefusedGoes ==
  ASSUME ConnInv, NEW j \in Jobs, GroupRefused(j) PROVE GoesOn(j)
<1> DEFINE n == client'[job[j].conn]
<1>1. ~At(j, "off") /\ job[j].pc = "groupReply" /\ Line(j) # 211 /\ HasLine(j)
  BY DEF GroupRefused, At
<1>2. Fits(job[j], Conn(j)) /\ job[j].pend = <<>> /\ job[j].todo # <<>> /\ job[j] \in Calls
      /\ Conn(j).group \in {"unknown", "selected", "refused"}
  BY <1>1, Holds DEF Fits, Placed, Clients
<1>3. /\ ~job[j].ended /\ Conn(j).up /\ (~Conn(j).late => Owed(job[j], Conn(j)))
      /\ Line(j) = Conn(j).wire[1].code /\ Conn(j).wire \in Seq(Replies)
  BY <1>1, LineOwed DEF HasLine, Line
<1>4. Carries(j) /\ AfterLine(Conn(j), n)
  BY <1>1, <1>2, ReadsIs DEF GroupRefused
<1>5. ~n.late => Len(n.wire) = 0 /\ n.wire = <<>>
  <2>1. ~n.late => Len(n.wire) = 0
    BY <1>1, <1>3, <1>4 DEF AfterLine, Owed
  <2>2. n.wire \in Seq(Replies)
    BY <1>1, <1>4, Holds DEF Carries, Clients
  <2> QED BY <2>1, <2>2, EmptySeq
<1>6. Turns(j) /\ Fits(job'[j], n)
  BY <1>1, <1>2, <1>5, ToArticlesFits, GroupFailsFit DEF GroupRefused
<1> QED BY <1>1, <1>4, <1>6, Going DEF GroupRefused

LEMMA GroupUnansweredGoes ==
  ASSUME ConnInv, NEW j \in Jobs, GroupUnanswered(j) PROVE GoesOn(j)
<1>1. ~At(j, "off") /\ job[j].pc = "groupReply"
  BY DEF GroupUnanswered, At
<1>2. job[j].todo # <<>> /\ Conn(j).group \in {"unknown", "selected", "refused"}
  BY <1>1, Holds DEF Fits, Placed, Clients
<1>3. Carries(j)
  BY <1>1, <1>2, ReadsIs, ConnKept DEF GroupUnanswered
<1>4. Turns(j) /\ Fits(job'[j], client'[job[j].conn])
  BY <1>1, <1>2, FailsFit DEF GroupUnanswered
<1> QED BY <1>1, <1>3, <1>4, Going DEF GroupUnanswered

LEMMA AskGoes ==
  ASSUME ConnInv, NEW j \in Jobs, Ask(j) PROVE GoesOn(j)
<1> DEFINE todo == Tail(job[j].todo)
           a == Head(job[j].todo)
           pend == Append(job[j].pend, a)
           cmd == IF Kind(j) = "stat" THEN "STAT" ELSE "BODY"
           n == client'[job[j].conn]
<1>1. ~At(j, "off") /\ job[j].pc = "ask"
  BY DEF Ask, At
<1>2. /\ Fits(job[j], Conn(j)) /\ job[j].todo # <<>>
      /\ job[j].kind # "batch" => job[j].pend = <<>>
      /\ job[j] \in Calls /\ job[j].todo \in Seq(Articles) /\ job[j].pend \in Seq(Articles)
  BY <1>1, Holds DEF Fits, Placed, Calls
<1>3. /\ todo \in Seq(Articles) /\ a \in Articles /\ Len(job[j].pend) \in Nat
      /\ pend \in Seq(Articles) /\ pend # <<>> /\ Len(pend) = Len(job[j].pend) + 1
      /\ \A i \in 1 .. Len(job[j].pend) : pend[i] = job[j].pend[i]
      /\ pend[Len(job[j].pend) + 1] = a
  BY <1>2, HeadTailProperties, AppendProperties, LenProperties, SMTT(20)
<1>4. job[j].kind # "batch" => Len(pend) = 1 /\ ~(Len(pend) < Window(j))
  BY <1>2, <1>3 DEF Window, Kind
<1> HIDE DEF todo, a, pend
<1>5. ASSUME NEW pc \in {"ask", "reply"}, Write(j, cmd, a),
             job' = [job EXCEPT ![j].pc = pc, ![j].todo = todo, ![j].pend = pend],
             pc = "ask" => todo # <<>> /\ Len(pend) < Window(j)
      PROVE  GoesOn(j)
  <2> DEFINE r == [job[j] EXCEPT !.pc = pc, !.todo = todo, !.pend = pend]
  <2>1. cmd \in {"STAT", "BODY"} /\ (cmd = "STAT" <=> job[j].kind = "stat")
    BY DEF Kind
  <2> HIDE DEF cmd, n
  <2>2. /\ Carries(j) /\ Conn(j).open /\ Conn(j).up /\ ~job[j].ended /\ n.late = Conn(j).late
        /\ Len(Conn(j).wire) \in Nat /\ Len(n.wire) = Len(Conn(j).wire) + 1
        /\ \A i \in 1 .. Len(Conn(j).wire) : n.wire[i] = Conn(j).wire[i]
        /\ n.wire[Len(Conn(j).wire) + 1].code \in Answers(cmd)
        /\ n.wire[Len(Conn(j).wire) + 1].art = a
    BY <1>1, <1>3, <1>5, <2>1, WriteIs, ZenonT(30) DEF n
  <2>3. n.wire[Len(Conn(j).wire) + 1].code \in {222, 223, 430, 480}
        /\ (job[j].kind = "stat" => n.wire[Len(Conn(j).wire) + 1].code # 222)
    BY <2>1, <2>2, SMTT(20) DEF Answers
  <2>4. r \in Calls /\ r.pc = pc /\ r.conn = job[j].conn /\ r.kind = job[j].kind
        /\ r.ended = job[j].ended /\ r.todo = todo /\ r.pend = pend
    BY <1>2, <1>3 DEF Calls
  <2>5. job' = [job EXCEPT ![j] = r]
    BY <1>5
  <2> HIDE DEF r
  <2>6. Turns(j) /\ job'[j] = r
    BY <1>1, <2>4, <2>5, JobBecomes
  <2>7. ~Conn(j).late => Answering(job[j], Conn(j), 1)
    BY <1>1, <1>2, <2>2 DEF Fits, Owed
  <2>8. ~n.late => Answering(r, n, 1)
    <3> SUFFICES ASSUME ~n.late PROVE Answering(r, n, 1)
      OBVIOUS
    <3>1. Len(n.wire) = Len(pend)
      BY <1>3, <2>2, <2>7 DEF Answering
    <3>2. ASSUME NEW i \in 1 .. Len(pend)
          PROVE  /\ n.wire[i].art = pend[i] /\ n.wire[i].code \notin {0, 211}
                 /\ job[j].kind = "stat" => n.wire[i].code # 222
      <4>1. /\ Len(Conn(j).wire) = Len(job[j].pend)
            /\ \A m \in 1 .. Len(job[j].pend) :
                 /\ Conn(j).wire[m].art = job[j].pend[m] /\ Conn(j).wire[m].code \notin {0, 211}
                 /\ job[j].kind = "stat" => Conn(j).wire[m].code # 222
        BY <2>2, <2>7 DEF Answering
      <4>2. CASE i \in 1 .. Len(job[j].pend)
        <5>1. pend[i] = job[j].pend[i]
          BY <1>3, <4>2
        <5>2. n.wire[i] = Conn(j).wire[i]
          BY <2>2, <4>1, <4>2
        <5> QED BY <4>1, <4>2, <5>1, <5>2
      <4>3. CASE i = Len(job[j].pend) + 1
        <5>1. n.wire[i].art = a /\ n.wire[i].code \in {222, 223, 430, 480}
              /\ (job[j].kind = "stat" => n.wire[i].code # 222)
          BY <2>2, <2>3, <4>1, <4>3
        <5>2. pend[i] = a
          BY <1>3, <4>3
        <5> QED BY <5>1, <5>2
      <4> QED BY <1>3, <4>2, <4>3, SMTT(20)
    <3> QED BY <2>4, <3>1, <3>2 DEF Answering
  <2>9. Placed(r)
    BY <1>3, <1>4, <1>5, <2>4 DEF Placed
  <2>10. Fits(r, n)
    BY <2>4, <2>8, <2>9 DEF Fits, Owed
  <2> QED BY <1>1, <2>2, <2>6, <2>10, Going DEF Ask, n
<1>6. CASE UNCHANGED client /\ Fails(j, "body")
  BY <1>1, <1>2, <1>6, ConnKept, FailsFit, Going DEF Ask
<1>7. CASE /\ Write(j, cmd, a)
           /\ job' = [job EXCEPT ![j].pc = IF todo # <<>> /\ Len(pend) < Window(j)
                                           THEN "ask" ELSE "reply",
                                 ![j].todo = todo, ![j].pend = pend]
  BY <1>5, <1>7
<1> QED BY <1>6, <1>7 DEF Ask, todo, a, pend

PlacedAt(j, pend, pc, keep) ==
  job' = [job EXCEPT ![j].pend = pend, ![j].pc = pc, ![j].keep = keep]

LEMMA PlacedAtIs ==
  ASSUME ConnInv, NEW j \in Jobs, ~At(j, "off"), NEW pend \in Seq(Articles),
         NEW pc \in {"ask", "reply", "end"}, NEW keep \in BOOLEAN, PlacedAt(j, pend, pc, keep)
  PROVE  /\ Turns(j) /\ job'[j].pc = pc /\ job'[j].kind = job[j].kind
         /\ job'[j].ended = job[j].ended
         /\ job'[j].todo = job[j].todo /\ job'[j].pend = pend
<1> DEFINE r == [job[j] EXCEPT !.pend = pend, !.pc = pc, !.keep = keep]
<1>1. job[j] \in Calls
  BY Holds
<1>2. r \in Calls /\ r.pc = pc /\ r.conn = job[j].conn /\ r.kind = job[j].kind
      /\ r.ended = job[j].ended /\ r.todo = job[j].todo /\ r.pend = pend
  BY <1>1, ZenonT(30) DEF Calls
<1>3. job' = [job EXCEPT ![j] = r]
  BY DEF PlacedAt
<1> HIDE DEF r
<1> QED BY <1>2, <1>3, JobBecomes

\* A batch that is done with the oldest of its articles, and has taken its reply.
LEMMA NextOfBatchFits ==
  ASSUME ConnInv, NEW j \in Jobs, ~At(j, "off"), NEW k, NextOfBatch(j),
         Kind(j) = "batch", job[j].pend # <<>>,
         k.open /\ ~k.late =>
           /\ k.wire \in Seq(Replies) /\ Len(k.wire) = Len(job[j].pend) - 1
           /\ \A i \in 2 .. Len(job[j].pend) :
                k.wire[i - 1].art = job[j].pend[i] /\ k.wire[i - 1].code \notin {0, 211}
  PROVE  Turns(j) /\ Fits(job'[j], k)
<1> DEFINE pend == Tail(job[j].pend)
           pc == IF job[j].todo # <<>> THEN "ask" ELSE IF pend # <<>> THEN "reply" ELSE "end"
<1>1. job[j] \in Calls /\ job[j].pend \in Seq(Articles) /\ job[j].kind = "batch"
  BY Holds DEF Calls, Kind
<1>2. /\ pend \in Seq(Articles) /\ Len(pend) = Len(job[j].pend) - 1
      /\ Len(job[j].pend) \in Nat
      /\ \A i \in 1 .. Len(pend) : pend[i] = job[j].pend[i + 1]
  BY <1>1, HeadTailProperties, LenProperties
<1>3. pc \in {"ask", "reply", "end"}
  OBVIOUS
<1> DEFINE keep == TRUE
<1>4. PlacedAt(j, pend, pc, keep)
  BY DEF NextOfBatch, PlacedAt
<1>5. keep \in BOOLEAN
  OBVIOUS
<1> HIDE DEF pc, pend, keep
<1>6. Turns(j) /\ job'[j].pc = pc /\ job'[j].kind = job[j].kind
      /\ job'[j].ended = job[j].ended
      /\ job'[j].todo = job[j].todo /\ job'[j].pend = pend
  BY <1>2, <1>3, <1>4, <1>5, PlacedAtIs
<1>7. k.open /\ ~k.late => Answering(job'[j], k, 1)
  <2> SUFFICES ASSUME k.open, ~k.late PROVE Answering(job'[j], k, 1)
    OBVIOUS
  <2>1. ASSUME NEW i \in 1 .. Len(pend)
        PROVE  k.wire[i].art = pend[i] /\ k.wire[i].code \notin {0, 211}
    <3>1. i + 1 \in 2 .. Len(job[j].pend) /\ (i + 1) - 1 = i
      BY <1>2
    <3>2. k.wire[(i + 1) - 1].art = job[j].pend[i + 1] /\ k.wire[(i + 1) - 1].code \notin {0, 211}
      BY <3>1
    <3> QED BY <1>2, <3>1, <3>2
  <2> QED BY <1>1, <1>2, <1>6, <2>1 DEF Answering
<1>8. pend = <<>> /\ k.open /\ ~k.late => k.wire = <<>>
  BY <1>2, EmptySeq
<1> QED BY <1>1, <1>6, <1>7, <1>8 DEF Fits, Placed, Owed, pc

\* What a job that has asked and is not yet answered is owed, its first line at hand.
LEMMA ReplyAtHand ==
  ASSUME ConnInv, NEW j \in Jobs, job[j].pc = "reply", Conn(j).open, Conn(j).wire # <<>>
  PROVE  /\ ~At(j, "off") /\ ~job[j].ended /\ Conn(j).wire[1].code = Head(Conn(j).wire).code
         /\ Conn(j).wire[1] = Head(Conn(j).wire) /\ Conn(j).wire[1] \in Replies
         /\ Len(job[j].pend) \in Nat \ {0} /\ job[j].pend \in Seq(Articles)
         /\ Head(job[j].pend) = job[j].pend[1] /\ job[j].pend # <<>>
         /\ job[j].kind # "batch" => Len(job[j].pend) = 1
         /\ ~Conn(j).late =>
              /\ Len(Conn(j).wire) = Len(job[j].pend)
              /\ \A n \in 1 .. Len(job[j].pend) :
                   /\ Conn(j).wire[n].art = job[j].pend[n]
                   /\ Conn(j).wire[n].code \notin {0, 211}
                   /\ job[j].kind = "stat" => Conn(j).wire[n].code # 222
<1>1. ~At(j, "off")
  BY DEF At
<1>2. Fits(job[j], Conn(j)) /\ job[j] \in Calls
  BY <1>1, Holds
<1>3. job[j].pend # <<>> /\ job[j].pend \in Seq(Articles)
      /\ (job[j].kind # "batch" => Len(job[j].pend) = 1)
  BY <1>2 DEF Fits, Placed, Calls
<1>4. Len(job[j].pend) \in Nat \ {0} /\ Head(job[j].pend) = job[j].pend[1]
  BY <1>3, FirstOfWire
<1>5. /\ ~job[j].ended /\ (~Conn(j).late => Owed(job[j], Conn(j)))
      /\ Conn(j).wire[1] = Head(Conn(j).wire) /\ Conn(j).wire[1] \in Replies
  BY <1>1, LineOwed
<1>6. ~Conn(j).late => Answering(job[j], Conn(j), 1)
  BY <1>5 DEF Owed
<1> QED BY <1>1, <1>3, <1>4, <1>5, <1>6 DEF Answering

LEMMA BodyBeginsGoes ==
  ASSUME ConnInv, NEW j \in Jobs, BodyBegins(j) PROVE GoesOn(j)
<1> DEFINE n == client'[job[j].conn]
<1>1. job[j].pc = "reply" /\ HasLine(j) /\ Line(j) = 222 /\ job[j].kind # "stat"
      /\ Conn(j).open /\ Conn(j).wire # <<>>
  BY DEF BodyBegins, At, Kind, HasLine
<1>2. /\ ~At(j, "off") /\ Conn(j).wire[1].code = 222
      /\ Len(job[j].pend) \in Nat \ {0} /\ job[j].pend # <<>>
      /\ Head(job[j].pend) = job[j].pend[1]
      /\ job[j].kind # "batch" => Len(job[j].pend) = 1
      /\ ~Conn(j).late => Len(Conn(j).wire) = Len(job[j].pend)
  BY <1>1, ReplyAtHand DEF Line
<1>3. ~Conn(j).late =>
        \A m \in 1 .. Len(job[j].pend) :
          /\ Conn(j).wire[m].art = job[j].pend[m] /\ Conn(j).wire[m].code \notin {0, 211}
  BY <1>1, ReplyAtHand
<1>4. job[j] \in Calls /\ Conn(j).group \in {"unknown", "selected", "refused"}
  BY <1>2, Holds DEF Clients
<1>5. Carries(j) /\ AfterLine(Conn(j), n)
  BY <1>1, <1>2, <1>4, ReadsIs DEF BodyBegins
<1> DEFINE pc == "body"
<1>6. Moves(j, pc)
  BY DEF BodyBegins
<1> HIDE DEF n
<1>7. Turns(j) /\ job'[j].pc = "body" /\ job'[j].kind = job[j].kind
      /\ job'[j].ended = job[j].ended /\ job'[j].pend = job[j].pend
  BY <1>2, <1>6, MovesTo
<1>8. ~n.late => /\ Answering(job'[j], n, 2)
                 /\ n.wire[1].code = 0 /\ n.wire[1].art = Head(job[j].pend)
  <2> SUFFICES ASSUME ~n.late
               PROVE  /\ Answering(job'[j], n, 2)
                      /\ n.wire[1].code = 0 /\ n.wire[1].art = Head(job[j].pend)
    OBVIOUS
  <2>1. ~Conn(j).late
    BY <1>5 DEF AfterLine
  <2>2. /\ Len(n.wire) = Len(job[j].pend) /\ n.wire[1].code = 0
        /\ n.wire[1].art = Conn(j).wire[1].art
        /\ \A i \in 2 .. Len(job[j].pend) : n.wire[i] = Conn(j).wire[i]
    BY <1>2, <1>5, <2>1 DEF AfterLine
  <2>3. ASSUME NEW i \in 2 .. Len(job[j].pend)
        PROVE  n.wire[i].art = job[j].pend[i] /\ n.wire[i].code \notin {0, 211}
    <3>1. n.wire[i] = Conn(j).wire[i] /\ i \in 1 .. Len(job[j].pend)
      BY <1>2, <2>2
    <3> QED BY <1>3, <2>1, <3>1
  <2>4. Conn(j).wire[1].art = job[j].pend[1]
    BY <1>2, <1>3, <2>1
  <2> QED BY <1>1, <1>2, <1>7, <2>2, <2>3, <2>4 DEF Answering
<1>9. Fits(job'[j], n)
  BY <1>1, <1>2, <1>7, <1>8 DEF Fits, Placed, Owed
<1> QED BY <1>2, <1>5, <1>7, <1>9, Going DEF BodyBegins, n

LEMMA StatusAnsweredGoes ==
  ASSUME ConnInv, NEW j \in Jobs, StatusAnswered(j) PROVE GoesOn(j)
<1> DEFINE n == client'[job[j].conn]
<1>1. job[j].pc = "reply" /\ HasLine(j) /\ Conn(j).open /\ Conn(j).wire # <<>>
  BY DEF StatusAnswered, At, HasLine
<1>2. /\ ~At(j, "off") /\ Conn(j).wire[1].code = Line(j)
      /\ Len(job[j].pend) \in Nat \ {0} /\ job[j].pend # <<>>
      /\ job[j].kind # "batch" => Len(job[j].pend) = 1
      /\ ~Conn(j).late => Len(Conn(j).wire) = Len(job[j].pend)
                          /\ (job[j].kind = "stat" => Line(j) # 222)
  BY <1>1, ReplyAtHand DEF Line
<1>3. ~Conn(j).late =>
        \A m \in 1 .. Len(job[j].pend) :
          /\ Conn(j).wire[m].art = job[j].pend[m] /\ Conn(j).wire[m].code \notin {0, 211}
  BY <1>1, ReplyAtHand
<1>4. job[j].kind \in Kinds /\ Conn(j).group \in {"unknown", "selected", "refused"}
  BY <1>2, Holds DEF Clients
<1>5. Carries(j) /\ AfterLine(Conn(j), n)
  BY <1>1, <1>2, <1>4, ReadsIs DEF StatusAnswered
<1>6. n.wire \in Seq(Replies)
  BY <1>2, <1>5, Holds DEF Carries, Clients
<1> HIDE DEF n
<1>7. ~n.late /\ Line(j) # 222 /\ job[j].kind # "batch" => n.wire = <<>>
  <2>1. Line(j) # 222 => Len(n.wire) = Len(Conn(j).wire) - 1
    BY <1>2, <1>5 DEF AfterLine
  <2> SUFFICES ASSUME ~n.late, Line(j) # 222, job[j].kind # "batch" PROVE n.wire = <<>>
    OBVIOUS
  <2>2. Len(Conn(j).wire) = 1
    BY <1>2, <1>5 DEF AfterLine
  <2>3. Len(n.wire) = 0
    BY <2>1, <2>2
  <2> QED BY <1>6, <2>3, EmptySeq
<1>8. Turns(j) /\ Fits(job'[j], n)
  <2>1. CASE job[j].kind = "stat"
    <3> DEFINE keep == Line(j) \in {223, 430}
    <3>1. Ends(j, keep) /\ keep \in BOOLEAN
      BY <2>1 DEF StatusAnswered, Kind
    <3>2. ~n.late => n.wire = <<>>
      BY <1>2, <1>5, <1>7, <2>1 DEF AfterLine
    <3> HIDE DEF keep
    <3> QED BY <1>2, <3>1, <3>2, EndsFit, ZenonT(30)
  <2>2. CASE job[j].kind = "batch"
    <3>1. NextOfBatch(j) /\ Line(j) # 222
      BY <2>2 DEF StatusAnswered, Kind
    <3>2. ~n.late =>
            /\ Len(n.wire) = Len(job[j].pend) - 1
            /\ \A i \in 2 .. Len(job[j].pend) :
                 n.wire[i - 1].art = job[j].pend[i] /\ n.wire[i - 1].code \notin {0, 211}
      <4> SUFFICES ASSUME ~n.late
                   PROVE  /\ Len(n.wire) = Len(job[j].pend) - 1
                          /\ \A i \in 2 .. Len(job[j].pend) :
                               n.wire[i - 1].art = job[j].pend[i]
                               /\ n.wire[i - 1].code \notin {0, 211}
        OBVIOUS
      <4>1. /\ Len(n.wire) = Len(job[j].pend) - 1
            /\ \A i \in 1 .. Len(n.wire) : n.wire[i] = Conn(j).wire[i + 1]
        BY <1>2, <1>5, <3>1 DEF AfterLine
      <4>2. ASSUME NEW i \in 2 .. Len(job[j].pend)
            PROVE  n.wire[i - 1].art = job[j].pend[i] /\ n.wire[i - 1].code \notin {0, 211}
        <5>1. i - 1 \in 1 .. Len(n.wire) /\ (i - 1) + 1 = i /\ i \in 1 .. Len(job[j].pend)
          BY <1>2, <4>1
        <5>2. n.wire[i - 1] = Conn(j).wire[i]
          BY <4>1, <5>1
        <5> QED BY <1>3, <1>5, <5>1, <5>2 DEF AfterLine
      <4> QED BY <4>1, <4>2
    <3> QED BY <1>2, <1>6, <2>2, <3>1, <3>2, NextOfBatchFits DEF Kind
  <2>3. CASE job[j].kind = "stream"
    <3>1. Moves(j, "drain")
      BY <2>3 DEF StatusAnswered, Kind
    <3>2. Turns(j) /\ job'[j].pc = "drain" /\ job'[j].ended = job[j].ended
      BY <1>2, <3>1, MovesTo
    <3> QED BY <3>2 DEF Fits, Placed, Owed
  <2>4. CASE job[j].kind = "fetch" /\ Line(j) = 480
    <3>1. Fails(j, "body")
      BY <2>4 DEF StatusAnswered, Kind
    <3> QED BY <1>2, <3>1, FailsFit
  <2>5. CASE job[j].kind = "read" \/ (job[j].kind = "fetch" /\ Line(j) # 480)
    <3>1. Ends(j, TRUE) /\ Line(j) # 222
      BY <2>5, ZenonT(30) DEF StatusAnswered, Kind
    <3> QED BY <1>2, <1>7, <2>5, <3>1, EndsFit, ZenonT(30)
  <2> QED BY <1>4, <2>1, <2>2, <2>3, <2>4, <2>5 DEF Kinds
<1> QED BY <1>2, <1>5, <1>8, Going DEF StatusAnswered, n

LEMMA NoReplyGoes ==
  ASSUME ConnInv, NEW j \in Jobs, NoReply(j) PROVE GoesOn(j)
<1>1. ~At(j, "off") /\ job[j].pc = "reply"
  BY DEF NoReply, At
<1>2. job[j].pend # <<>>
  BY <1>1, Holds DEF Fits, Placed
<1>3. Carries(j) /\ client'[job[j].conn] = Conn(j)
  BY <1>1, ConnKept DEF NoReply
<1>4. CASE Moves(j, "drain")
  <2>1. Turns(j) /\ job'[j].pc = "drain" /\ job'[j].ended = job[j].ended
    BY <1>1, <1>4, MovesTo
  <2>2. Fits(job'[j], client'[job[j].conn])
    BY <2>1 DEF Fits, Placed, Owed
  <2> QED BY <1>1, <1>3, <2>1, <2>2, Going DEF NoReply
<1>5. CASE Fails(j, "body")
  BY <1>1, <1>2, <1>3, <1>5, FailsFit, Going DEF NoReply
<1> QED BY <1>4, <1>5 DEF NoReply

\* A body that was read to its end leaves the replies behind it.
LEMMA DrainedIs ==
  ASSUME ConnInv, NEW j \in Jobs, Drained(j)
  PROVE  LET n == client'[job[j].conn]
         IN /\ ~At(j, "off") /\ ~job[j].ended /\ Carries(j) /\ n.wire \in Seq(Replies)
            /\ Len(job[j].pend) \in Nat \ {0} /\ job[j].pend # <<>>
            /\ Head(job[j].pend) \in Articles
            /\ job[j].kind # "batch" => Len(job[j].pend) = 1
            /\ ~n.late =>
                 /\ Len(n.wire) = Len(job[j].pend) - 1
                 /\ \A i \in 2 .. Len(job[j].pend) :
                      n.wire[i - 1].art = job[j].pend[i] /\ n.wire[i - 1].code \notin {0, 211}
<1> DEFINE k == Conn(j)
           n == [k EXCEPT !.wire = Tail(k.wire)]
<1>1. ~At(j, "off") /\ job[j].pc = "body" /\ k.open /\ k.wire # <<>>
  BY DEF Drained, At
<1>2. k \in Clients /\ Sound(k) /\ Fits(job[j], k) /\ job[j] \in Calls
  BY <1>1, Holds
<1>3. job[j].pend # <<>> /\ job[j].pend \in Seq(Articles)
      /\ (job[j].kind # "batch" => Len(job[j].pend) = 1)
  BY <1>1, <1>2 DEF Fits, Placed, Calls
<1>4. Len(job[j].pend) \in Nat \ {0} /\ Head(job[j].pend) \in Articles
  BY <1>3, FirstOfWire
<1>5. /\ ~job[j].ended /\ k.up /\ (~k.late => Owed(job[j], k))
      /\ k.wire \in Seq(Replies) /\ Len(k.wire) \in Nat \ {0}
  BY <1>1, LineOwed
<1>6. /\ Tail(k.wire) \in Seq(Replies) /\ Len(Tail(k.wire)) = Len(k.wire) - 1
      /\ \A i \in 1 .. Len(Tail(k.wire)) : Tail(k.wire)[i] = k.wire[i + 1]
  BY <1>1, <1>5, HeadTailProperties
<1>7. ConnTo(j, n)
  BY DEF Drained, ConnTo, Conn
<1> HIDE DEF k
<1>8. n \in Clients /\ n.wire = Tail(k.wire) /\ n.closed = k.closed /\ n.open = k.open
      /\ n.up = k.up /\ n.group = k.group /\ n.selected = k.selected
      /\ n.late = k.late
  BY <1>2, <1>6 DEF Clients
<1> HIDE DEF n
<1>9. Sound(n)
  <2>1. ASSUME NEW i \in 1 .. Len(n.wire), n.wire[i].code = 211 PROVE k.selected
    <3>1. i + 1 \in 1 .. Len(k.wire) /\ k.wire[i + 1].code = 211
      BY <1>5, <1>6, <1>8, <2>1
    <3> QED BY <1>1, <1>2, <3>1 DEF Sound
  <2> QED BY <1>1, <1>2, <1>5, <1>8, <2>1 DEF Sound
<1>10. Carries(j) /\ client'[job[j].conn] = n
  BY <1>1, <1>7, <1>8, <1>9, ConnBecomes DEF k
<1>11. ASSUME ~n.late
       PROVE  /\ Len(n.wire) = Len(job[j].pend) - 1
              /\ \A i \in 2 .. Len(job[j].pend) :
                   n.wire[i - 1].art = job[j].pend[i] /\ n.wire[i - 1].code \notin {0, 211}
  <2>1. Answering(job[j], k, 2)
    BY <1>1, <1>5, <1>8, <1>11 DEF Owed
  <2>2. /\ Len(k.wire) = Len(job[j].pend)
        /\ \A i \in 2 .. Len(job[j].pend) :
             k.wire[i].art = job[j].pend[i] /\ k.wire[i].code \notin {0, 211}
    BY <2>1 DEF Answering
  <2>3. ASSUME NEW i \in 2 .. Len(job[j].pend)
        PROVE  n.wire[i - 1].art = job[j].pend[i] /\ n.wire[i - 1].code \notin {0, 211}
    <3>1. i - 1 \in 1 .. Len(Tail(k.wire)) /\ (i - 1) + 1 = i
      BY <1>4, <1>6, <2>2
    <3>2. n.wire[i - 1] = k.wire[i]
      BY <1>6, <1>8, <3>1
    <3> QED BY <2>2, <3>2
  <2> QED BY <1>6, <1>8, <2>2, <2>3
<1> QED BY <1>1, <1>3, <1>4, <1>5, <1>6, <1>8, <1>10, <1>11, ZenonT(30)

\* A job is done with a body, and keeps the connection only if nothing else is owed.
LEMMA DoneFits ==
  ASSUME ConnInv, NEW j \in Jobs, Drained(j),
         \/ Kind(j) = "batch" /\ NextOfBatch(j)
         \/ \E keep \in BOOLEAN : Ends(j, keep) /\ (keep => Len(job[j].pend) = 1)
  PROVE  Turns(j) /\ Fits(job'[j], client'[job[j].conn])
<1> DEFINE n == client'[job[j].conn]
<1>1. /\ ~At(j, "off") /\ Carries(j) /\ n.wire \in Seq(Replies)
      /\ job[j].pend # <<>>
      /\ ~n.late =>
           /\ Len(n.wire) = Len(job[j].pend) - 1
           /\ \A i \in 2 .. Len(job[j].pend) :
                n.wire[i - 1].art = job[j].pend[i] /\ n.wire[i - 1].code \notin {0, 211}
  BY DrainedIs
<1> HIDE DEF n
<1>2. CASE Kind(j) = "batch" /\ NextOfBatch(j)
  <2>1. Turns(j) /\ Fits(job'[j], n)
    BY <1>1, <1>2, NextOfBatchFits
  <2> QED BY <2>1 DEF n
<1>3. ASSUME NEW keep \in BOOLEAN, Ends(j, keep), keep => Len(job[j].pend) = 1
      PROVE  Turns(j) /\ Fits(job'[j], n)
  <2>1. keep /\ ~n.late => Len(n.wire) = 0
    BY <1>1, <1>3
  <2>2. keep /\ ~n.late => n.wire = <<>>
    BY <1>1, <2>1, EmptySeq
  <2> QED BY <1>1, <1>3, <2>2, EndsFit
<1> QED BY <1>2, <1>3 DEF n

LEMMA BodyFiledGoes ==
  ASSUME ConnInv, NEW j \in Jobs, BodyFiled(j) PROVE GoesOn(j)
<1>1. Drained(j) /\ job[j].pc = "body" /\ Conn(j).open /\ Conn(j).wire # <<>>
  BY DEF BodyFiled, Drained, At
<1>2. /\ ~At(j, "off") /\ Carries(j) /\ Head(job[j].pend) \in Articles
      /\ (job[j].kind # "batch" => Len(job[j].pend) = 1)
  BY <1>1, DrainedIs
<1>3. /\ Conn(j) \in Clients /\ Head(Conn(j).wire) \in Replies
      /\ ~Conn(j).late => Head(Conn(j).wire).art = Head(job[j].pend)
  <2>1. /\ ~Conn(j).late => Owed(job[j], Conn(j))
        /\ Head(Conn(j).wire) = Conn(j).wire[1] /\ Conn(j).wire[1] \in Replies
    BY <1>1, <1>2, LineOwed
  <2> QED BY <1>1, <1>2, <2>1, Holds DEF Owed
<1>4. Conn(j).late \in BOOLEAN /\ Head(Conn(j).wire).art \in Articles \union {None}
  BY <1>3 DEF Clients, Replies
<1>5. filed \in Bodies /\ BodiesOwn
  BY DEF ConnInv, ConnectionTypeOK
<1>6. filed' \in Bodies /\ BodiesOwn'
  <2>1. CASE filed' = filed
    BY <1>5, <2>1 DEF BodiesOwn
  <2>2. CASE Files(j)
    BY <1>2, <1>3, <1>4, <2>2 DEF Files, Bodies, BodiesOwn
  <2> QED BY <2>1, <2>2 DEF BodyFiled
<1>7. \/ Kind(j) = "batch" /\ NextOfBatch(j)
      \/ \E keep \in BOOLEAN : Ends(j, keep) /\ (keep => Len(job[j].pend) = 1)
  <2>1. CASE job[j].cancelled
    <3> DEFINE keep == Len(job[j].pend) = 1
    <3>1. keep \in BOOLEAN /\ Ends(j, keep)
      BY <2>1 DEF BodyFiled
    <3> QED BY <3>1
  <2>2. CASE ~job[j].cancelled /\ Kind(j) = "batch"
    BY <2>2 DEF BodyFiled
  <2>3. CASE ~job[j].cancelled /\ Kind(j) # "batch"
    <3>1. Ends(j, TRUE) /\ Len(job[j].pend) = 1
      BY <1>2, <2>3 DEF BodyFiled, Kind
    <3> QED BY <3>1
  <2> QED BY <2>1, <2>2, <2>3
<1>8. Turns(j) /\ Fits(job'[j], client'[job[j].conn])
  BY <1>1, <1>7, DoneFits
<1> QED BY <1>2, <1>6, <1>8 DEF GoesOn, BodyFiled, ConnInv, ConnectionTypeOK

LEMMA BodyCorruptGoes ==
  ASSUME ConnInv, NEW j \in Jobs, BodyCorrupt(j) PROVE GoesOn(j)
<1>1. Drained(j) /\ ~At(j, "off") /\ Carries(j)
  BY DrainedIs DEF BodyCorrupt
<1>2. \/ Kind(j) = "batch" /\ NextOfBatch(j)
      \/ \E keep \in BOOLEAN : Ends(j, keep) /\ (keep => Len(job[j].pend) = 1)
  BY DEF BodyCorrupt
<1>3. Turns(j) /\ Fits(job'[j], client'[job[j].conn])
  BY <1>1, <1>2, DoneFits
<1> QED BY <1>1, <1>3, Going DEF BodyCorrupt

LEMMA BodyCutGoes ==
  ASSUME ConnInv, NEW j \in Jobs, BodyCut(j) PROVE GoesOn(j)
<1>1. ~At(j, "off")
  BY DEF BodyCut, At
<1>2. Carries(j) /\ client'[job[j].conn] = Conn(j)
  BY <1>1, ConnKept DEF BodyCut
<1>3. CASE Moves(j, "drain")
  <2>1. Turns(j) /\ job'[j].pc = "drain" /\ job'[j].ended = job[j].ended
    BY <1>1, <1>3, MovesTo
  <2>2. Fits(job'[j], client'[job[j].conn])
    BY <2>1 DEF Fits, Placed, Owed
  <2> QED BY <1>1, <1>2, <2>1, <2>2, Going DEF BodyCut
<1>4. CASE Ends(j, FALSE)
  BY <1>1, <1>2, <1>4, EndsFit, Going DEF BodyCut
<1> QED BY <1>3, <1>4 DEF BodyCut

LEMMA DrainGoes ==
  ASSUME ConnInv, NEW j \in Jobs, Drain(j) PROVE GoesOn(j)
<1>1. ~At(j, "off")
  BY DEF Drain, At
<1>2. Carries(j)
  BY <1>1, ConnKept DEF Drain
<1>3. Turns(j) /\ Fits(job'[j], client'[job[j].conn])
  BY <1>1, EndsFit DEF Drain
<1> QED BY <1>1, <1>2, <1>3, Going DEF Drain

\* What a job in the middle of a reconnect has.
LEMMA Redialing ==
  ASSUME ConnInv, NEW j \in Jobs, job[j].pc \in {"redial", "dial", "install", "login"}
  PROVE  /\ ~At(j, "off") /\ Conn(j) \in Clients /\ Sound(Conn(j))
         /\ job[j].todo # <<>> \/ job[j].pend # <<>>
         /\ job[j].ended <=> Conn(j).closed
         /\ ~job[j].ended /\ job[j].pc \in {"dial", "install"} =>
              ~Conn(j).open /\ Conn(j).group = "unknown"
         /\ ~Conn(j).late /\ ~job[j].ended /\ Conn(j).open /\ Conn(j).up /\ job[j].pc = "login" =>
              Conn(j).wire = <<>>
<1>1. ~At(j, "off")
  BY DEF At
<1> QED BY <1>1, Holds DEF Fits, Placed, Owed

\* Back from a reconnect that did not touch the connection.
LEMMA BackGoes ==
  ASSUME ConnInv, NEW j \in Jobs, job[j].pc \in {"redial", "dial", "install", "login"},
         NEW ok \in BOOLEAN, Reconnected(j, ok), UNCHANGED <<client, idle, watch, filed>>,
         job[j].pc = "redial" => job[j].ended
  PROVE  GoesOn(j)
<1>1. Carries(j) /\ client'[job[j].conn] = Conn(j) /\ ~At(j, "off")
  BY Redialing, ConnKept
<1>2. ~Conn(j).late /\ ~job[j].ended /\ Conn(j).open /\ Conn(j).up => Conn(j).wire = <<>>
  BY Redialing
<1>3. Turns(j) /\ Fits(job'[j], Conn(j))
  BY <1>1, <1>2, Redialing, ReconnectedFits
<1> QED BY <1>1, <1>3, Going

LEMMA RedialGoes ==
  ASSUME ConnInv, NEW j \in Jobs, Redial(j) PROVE GoesOn(j)
<1> DEFINE n == [Conn(j) EXCEPT !.open = FALSE, !.group = "unknown"]
<1>1. job[j].pc = "redial" /\ ~At(j, "off")
  BY DEF Redial, At
<1>2. Conn(j) \in Clients /\ Sound(Conn(j)) /\ (job[j].ended <=> Conn(j).closed)
      /\ (job[j].todo # <<>> \/ job[j].pend # <<>>)
  BY <1>1, Redialing
<1>3. CASE Conn(j).closed
  BY <1>1, <1>2, <1>3, BackGoes DEF Redial
<1>4. CASE ~Conn(j).closed
  <2>1. Turns(j) /\ job'[j].pc = "dial" /\ job'[j].ended = job[j].ended
        /\ job'[j].todo = job[j].todo /\ job'[j].pend = job[j].pend
    BY <1>1, <1>4, MovesTo DEF Redial
  <2>2. ConnTo(j, n)
    BY <1>4 DEF Redial, ConnTo, Conn
  <2>3. n \in Clients /\ ~n.open /\ n.group = "unknown" /\ n.closed = Conn(j).closed
        /\ n.up = Conn(j).up /\ n.late = Conn(j).late /\ n.wire = Conn(j).wire
    BY <1>2 DEF Clients
  <2> HIDE DEF n
  <2>4. Sound(n)
    BY <1>2, <2>3 DEF Sound
  <2>5. Carries(j) /\ client'[job[j].conn] = n
    BY <1>1, <2>2, <2>3, <2>4, ConnBecomes
  <2>6. Fits(job'[j], n)
    BY <1>2, <2>1, <2>3 DEF Fits, Placed, Owed
  <2> QED BY <1>1, <2>1, <2>5, <2>6, Going DEF Redial
<1> QED BY <1>3, <1>4

LEMMA DialGoes ==
  ASSUME ConnInv, NEW j \in Jobs, Dial(j) PROVE GoesOn(j)
<1>1. job[j].pc = "dial" /\ ~At(j, "off")
  BY DEF Dial, At
<1>2. CASE Reconnected(j, FALSE)
  BY <1>1, <1>2, BackGoes DEF Dial
<1>3. CASE Moves(j, "install")
  <2>1. Turns(j) /\ job'[j].pc = "install" /\ job'[j].ended = job[j].ended
        /\ job'[j].todo = job[j].todo /\ job'[j].pend = job[j].pend
    BY <1>1, <1>3, MovesTo
  <2>2. Carries(j) /\ client'[job[j].conn] = Conn(j)
    BY <1>1, ConnKept DEF Dial
  <2>3. Fits(job'[j], Conn(j))
    BY <1>1, <2>1, Redialing DEF Fits, Placed, Owed
  <2> QED BY <1>1, <2>1, <2>2, <2>3, Going DEF Dial
<1> QED BY <1>2, <1>3 DEF Dial

LEMMA InstallGoes ==
  ASSUME ConnInv, NEW j \in Jobs, Install(j) PROVE GoesOn(j)
<1> DEFINE n == [Dialed EXCEPT !.group = Conn(j).group]
<1>1. job[j].pc = "install" /\ ~At(j, "off")
  BY DEF Install, At
<1>2. Conn(j) \in Clients /\ (job[j].ended <=> Conn(j).closed)
      /\ (job[j].todo # <<>> \/ job[j].pend # <<>>)
      /\ (~job[j].ended => Conn(j).group = "unknown")
  BY <1>1, Redialing
<1>3. CASE Conn(j).closed
  BY <1>1, <1>2, <1>3, BackGoes DEF Install
<1>4. CASE ~Conn(j).closed
  <2>1. Turns(j) /\ job'[j].pc = "login" /\ job'[j].ended = job[j].ended
        /\ job'[j].todo = job[j].todo /\ job'[j].pend = job[j].pend
    BY <1>1, <1>4, MovesTo DEF Install
  <2>2. ConnTo(j, n)
    BY <1>4 DEF Install, ConnTo
  <2>3. n.group = "unknown" /\ n.closed = FALSE /\ n.wire = <<>> /\ n.open = TRUE /\ n.up = TRUE
        /\ n.selected = FALSE /\ n.late = FALSE /\ <<>> \in Seq(Replies) /\ Len(<<>>) = 0
    BY <1>2, <1>4 DEF Dialed
  <2>4. n \in Clients
    BY <1>2, <1>4, <2>3 DEF Clients, Dialed
  <2> HIDE DEF n
  <2>5. Sound(n)
    BY <2>3 DEF Sound
  <2>6. Conn(j).closed = FALSE
    BY <1>2, <1>4 DEF Clients
  <2>7. Carries(j) /\ client'[job[j].conn] = n
    BY <1>1, <2>2, <2>3, <2>4, <2>5, <2>6, ConnBecomes
  <2>8. Fits(job'[j], n)
    BY <1>2, <2>1, <2>3 DEF Fits, Placed, Owed
  <2> QED BY <1>1, <2>1, <2>7, <2>8, Going DEF Install
<1> QED BY <1>3, <1>4

LEMMA LoginGoes ==
  ASSUME ConnInv, NEW j \in Jobs, Login(j) PROVE GoesOn(j)
<1> DEFINE reply == <<[code |-> 281, art |-> None]>>
           yes == TRUE
           n == [Conn(j) EXCEPT !.wire = reply, !.late = yes]
<1>1. job[j].pc = "login" /\ ~At(j, "off")
  BY DEF Login, At
<1>2. Conn(j) \in Clients /\ Sound(Conn(j)) /\ (job[j].todo # <<>> \/ job[j].pend # <<>>)
  BY <1>1, Redialing
<1>3. CASE \E ok \in BOOLEAN : Reconnected(j, ok) /\ UNCHANGED client
  BY <1>1, <1>3, BackGoes DEF Login
<1>4. CASE /\ LateLogin /\ Conn(j).open /\ Conn(j).up
           /\ Reconnected(j, FALSE)
           /\ client' = [client EXCEPT ![job[j].conn].wire = reply,
                                       ![job[j].conn].late = TRUE]
  <2>1. reply \in Seq(Replies) /\ Len(reply) = 1 /\ reply[1].code = 281 /\ yes \in BOOLEAN /\ yes
    <3>1. [code |-> 281, art |-> None] \in Replies
      BY DEF Replies
    <3> QED BY <3>1
  <2>2. ConnTo(j, n)
    BY <1>4, ZenonT(30) DEF ConnTo, Conn
  <2> HIDE DEF reply, yes
  <2>3. n \in Clients /\ n.wire = reply /\ n.late = yes /\ n.closed = Conn(j).closed /\ n.up = Conn(j).up
        /\ n.open = Conn(j).open /\ n.group = Conn(j).group /\ n.selected = Conn(j).selected
    BY <1>2, <2>1 DEF Clients
  <2> HIDE DEF n
  <2>4. Sound(n)
    <3>1. ASSUME NEW i \in 1 .. Len(n.wire) PROVE n.wire[i].code # 211
      <4>1. Len(n.wire) = 1 /\ n.wire[1].code = 281
        BY <2>1, <2>3
      <4>2. i = 1
        BY <4>1
      <4> QED BY <4>1, <4>2
    <3> QED BY <1>2, <1>4, <2>3, <3>1 DEF Sound
  <2>5. Carries(j) /\ client'[job[j].conn] = n
    BY <1>1, <2>2, <2>3, <2>4, ConnBecomes
  <2>6. Turns(j) /\ Fits(job'[j], n)
    BY <1>1, <1>2, <1>4, <2>1, <2>3, ReconnectedFits
  <2> QED BY <1>1, <2>5, <2>6, Going DEF Login
<1>5. TRUE \in BOOLEAN /\ FALSE \in BOOLEAN
  OBVIOUS
<1> QED BY <1>3, <1>4, <1>5 DEF Login

LEMMA CommandKeeps ==
  ASSUME ConnInv, NEW j \in Jobs, Command(j) \/ Reconnect(j) PROVE ConnInv'
<1>1. GoesOn(j)
  BY SkipGroupGoes, AskGroupGoes, GroupSelectedGoes, GroupRefusedGoes, GroupUnansweredGoes,
     AskGoes, BodyBeginsGoes, StatusAnsweredGoes, NoReplyGoes, BodyFiledGoes,
     BodyCorruptGoes, BodyCutGoes, DrainGoes, RedialGoes, DialGoes, InstallGoes, LoginGoes
  DEF Command, Reconnect
<1> QED BY <1>1, GoingOnKeeps

-------------------------------------------------------------------------------
(* The lease, its end, and what happens to a connection from outside. *)

LEMMA DialedIs ==
  /\ Dialed \in Clients /\ Sound(Dialed) /\ ~Dialed.closed /\ Dialed.wire = <<>>
  /\ Gone \in Clients /\ Sound(Gone)
  /\ \A k \in Clients :
       Closed(k) \in Clients /\ Sound(Closed(k)) /\ Closed(k).closed /\ ~Closed(k).open
<1>1. <<>> \in Seq(Replies) /\ Len(<<>>) = 0
  OBVIOUS
<1>2. Dialed \in Clients /\ Sound(Dialed) /\ ~Dialed.closed /\ Dialed.wire = <<>>
  BY <1>1 DEF Dialed, Clients, Sound
<1>3. Gone \in Clients /\ Gone.closed /\ ~Gone.open /\ Gone.wire = <<>>
  <2> DEFINE yes == TRUE
             no == FALSE
  <2>1. Gone = [Dialed EXCEPT !.closed = yes, !.open = no]
    BY DEF Gone
  <2>2. yes \in BOOLEAN /\ yes /\ no \in BOOLEAN /\ ~no
    OBVIOUS
  <2> HIDE DEF yes, no
  <2>3. Gone \in Clients /\ Gone.closed = yes /\ Gone.open = no /\ Gone.wire = <<>>
    BY <1>2, <2>1, <2>2 DEF Clients
  <2> QED BY <2>2, <2>3
<1>4. ASSUME NEW k \in Clients
      PROVE  Closed(k) \in Clients /\ Sound(Closed(k)) /\ Closed(k).closed /\ ~Closed(k).open
  <2>1. /\ Closed(k) \in Clients /\ Closed(k).closed = Gone.closed
        /\ Closed(k).open = Gone.open /\ Closed(k).wire = Gone.wire
    BY <1>3 DEF Closed, Clients
  <2> QED BY <1>1, <1>3, <2>1 DEF Sound
<1> QED BY <1>1, <1>2, <1>3, <1>4 DEF Sound

\* A job is over: what it has left to its watchdog is a lease that has ended.
Leaves(j) ==
  LET c == job[j].conn
  IN /\ job' \in [Jobs -> Calls] /\ \A i \in Jobs \ {j} : job'[i] = job[i]
     /\ job'[j].pc = "off" /\ (job'[j].conn = None \/ job'[j].ended)
     /\ watch' \in [Jobs -> {"none", "watching", "fired"}]
     /\ filed' = filed
     /\ \/ client' = client /\ idle' = idle
        \/ /\ ~At(j, "off") /\ ~job[j].ended /\ client' = client
           /\ idle' = idle \union {c}
           /\ Conn(j).open /\ ~Conn(j).late => Conn(j).wire = <<>>
        \/ /\ ~At(j, "off") /\ ~job[j].ended /\ idle' = idle
           /\ client' = [client EXCEPT ![c] = Closed(client[c])]

LEMMA LeavesKeep ==
  ASSUME ConnInv, NEW j \in Jobs, Leaves(j)
  PROVE  ConnInv'
<1> DEFINE c == job[j].conn
<1>1. None \notin Conns
  BY ConnectionAssumption
<1>2. ~At(j, "off") => c \in Conns /\ client[c] \in Clients /\ Sound(client[c])
  BY Holds DEF Conn
<1>3. /\ client \in [Conns -> Clients] /\ idle \subseteq Conns
      /\ \A d \in Conns : Sound(client[d])
  BY DEF ConnInv, ConnectionTypeOK
<1>4. ~At(j, "off") /\ ~job[j].ended =>
        /\ ~client[c].closed /\ c \notin idle
        /\ \A i \in Jobs \ {j} : job[i].conn = c => job[i].ended /\ At(i, "off")
  BY <1>2 DEF ConnInv, Leases, LeaseUndisturbed, Conn
<1>5. /\ client' \in [Conns -> Clients] /\ \A d \in Conns : Sound(client'[d])
      /\ \A d \in Conns :
           client'[d] = client[d] \/ (d = c /\ ~At(j, "off") /\ ~job[j].ended)
  <2>1. CASE client' = client
    <3>1. client' \in [Conns -> Clients] /\ \A d \in Conns : client'[d] = client[d]
      BY <1>3, <2>1
    <3>2. \A d \in Conns : Sound(client'[d])
      BY <1>3, <3>1
    <3> QED BY <3>1, <3>2
  <2>2. CASE /\ ~At(j, "off") /\ ~job[j].ended
             /\ client' = [client EXCEPT ![job[j].conn] = Closed(client[job[j].conn])]
    <3>1. Closed(client[c]) \in Clients /\ Sound(Closed(client[c]))
      BY <1>2, <2>2, DialedIs
    <3> QED BY <1>2, <1>3, <2>2, <3>1
  <2> QED BY <2>1, <2>2 DEF Leaves
<1>6. ConnectionTypeOK'
  BY <1>2, <1>5 DEF Leaves, ConnInv, ConnectionTypeOK
<1>7. ASSUME NEW i \in Jobs \ {j}, ~At(i, "off")
      PROVE  job[i].conn \in Conns /\ client'[job[i].conn] = client[job[i].conn]
  <2>1. job[i].conn \in Conns
    BY <1>7 DEF ConnInv, Leases
  <2> QED BY <1>4, <1>5, <1>7, <2>1 DEF Leaves
<1>8. Leases'
  <2> SUFFICES ASSUME NEW i \in Jobs
               PROVE  IF At(i, "off")' THEN (job[i].conn = None \/ job[i].ended)'
                      ELSE (/\ job[i].conn \in Conns /\ job[i].kind \in Kinds
                            /\ Fits(job[i], Conn(i))
                            /\ job[i].ended => Conn(i).closed)'
    BY DEF Leases
  <2>1. CASE i = j
    BY <2>1 DEF At, Leaves
  <2>2. CASE i # j
    BY <1>7, <2>2 DEF ConnInv, Leases, At, Conn, Leaves
  <2> QED BY <2>1, <2>2
<1>9. Parked'
  <2> SUFFICES ASSUME NEW d \in idle'
               PROVE  /\ ~client'[d].closed
                      /\ client'[d].open /\ ~client'[d].late => client'[d].wire = <<>>
                      /\ \A i \in Jobs : job'[i].conn = d => job'[i].ended
    BY DEF Parked
  <2>1. CASE d \in idle
    <3>1. d \in Conns /\ client'[d] = client[d]
      BY <1>3, <1>4, <1>5, <2>1
    <3> QED BY <1>1, <2>1, <3>1 DEF ConnInv, Parked, Leaves
  <2>2. CASE d \notin idle
    BY <1>1, <1>2, <1>4, <2>2 DEF Conn, Leaves
  <2> QED BY <2>1, <2>2
<1>10. LeaseUndisturbed'
  <2> SUFFICES ASSUME NEW i \in Jobs, ~At(i, "off")', ~job'[i].ended
               PROVE  /\ ~client'[job'[i].conn].closed /\ job'[i].conn \notin idle'
                      /\ \A h \in Jobs \ {i} : job'[h].conn = job'[i].conn => job'[h].ended
    BY DEF LeaseUndisturbed, Conn
  <2>1. i # j /\ job'[i] = job[i] /\ ~At(i, "off")
    BY DEF At, Leaves
  <2>2. /\ ~client[job[i].conn].closed /\ job[i].conn \notin idle
        /\ \A h \in Jobs \ {i} : job[h].conn = job[i].conn => job[h].ended
    BY <2>1 DEF ConnInv, LeaseUndisturbed, Conn
  <2>3. job[i].conn \in Conns /\ client'[job[i].conn] = client[job[i].conn]
    BY <1>7, <2>1
  <2>4. job[i].conn \notin idle'
    BY <1>4, <2>1, <2>2 DEF Leaves
  <2> QED BY <1>1, <2>1, <2>2, <2>3, <2>4 DEF Leaves
<1>11. BodiesOwn'
  BY DEF ConnInv, BodiesOwn, Leaves
<1> QED BY <1>5, <1>6, <1>8, <1>9, <1>10, <1>11 DEF ConnInv

LEMMA EndKeeps ==
  ASSUME ConnInv, NEW j \in Jobs, End(j) PROVE ConnInv'
<1> DEFINE c == job[j].conn
           yes == TRUE
           over == [NoJob EXCEPT !.conn = c, !.ended = yes]
<1>1. ~At(j, "off") /\ job[j].pc = "end"
  BY DEF End, At
<1>2. /\ job \in [Jobs -> Calls] /\ c \in Conns /\ Sound(Conn(j)) /\ Fits(job[j], Conn(j))
      /\ watch \in [Jobs -> {"none", "watching", "fired"}]
  BY <1>1, Holds DEF ConnInv, ConnectionTypeOK
<1>3. NoJob \in Calls /\ NoJob.pc = "off" /\ NoJob.conn = None
  BY ConnectionAssumption DEF NoJob, Calls
<1>4. yes \in BOOLEAN /\ yes
  OBVIOUS
<1> HIDE DEF yes
<1>5. over \in Calls /\ over.pc = "off" /\ over.ended
  BY <1>2, <1>3, <1>4 DEF Calls
<1>6. watch' \in [Jobs -> {"none", "watching", "fired"}]
  BY <1>2 DEF End
<1>7. job' = [job EXCEPT ![j] = NoJob] \/ job' = [job EXCEPT ![j] = over]
  BY DEF End, yes
<1> HIDE DEF over
<1>8. /\ job' \in [Jobs -> Calls] /\ \A i \in Jobs \ {j} : job'[i] = job[i]
      /\ job'[j].pc = "off" /\ (job'[j].conn = None \/ job'[j].ended)
  BY <1>2, <1>3, <1>5, <1>7
<1>9. ~Conn(j).late /\ ~job[j].ended /\ job[j].keep /\ Conn(j).open => Conn(j).wire = <<>>
  BY <1>1, <1>2 DEF Fits, Owed, Sound
<1>10. /\ UNCHANGED filed
      /\ \/ UNCHANGED <<client, idle>>
         \/ /\ ~job[j].ended /\ job[j].keep /\ UNCHANGED client
            /\ idle' = idle \union {c}
         \/ /\ ~job[j].ended /\ UNCHANGED idle
            /\ client' = [client EXCEPT ![c] = Closed(@)]
  BY DEF End
<1>11. Leaves(j)
  BY <1>1, <1>6, <1>8, <1>9, <1>10 DEF Leaves
<1> QED BY <1>11, LeavesKeep

LEMMA WatchFiresKeeps ==
  ASSUME ConnInv, NEW j \in Jobs, WatchFires(j) PROVE ConnInv'
<1>1. ConnectionTypeOK'
  BY DEF ConnInv, ConnectionTypeOK, WatchFires
<1> QED BY <1>1 DEF ConnInv, WatchFires, Leases, Parked, LeaseUndisturbed, BodiesOwn, At, Conn

LEMMA CancelKeeps ==
  ASSUME ConnInv, NEW j \in Jobs, Cancel(j) PROVE ConnInv'
<1> DEFINE yes == TRUE
           r == [job[j] EXCEPT !.cancelled = yes]
<1>1. /\ job \in [Jobs -> Calls] /\ job[j] \in Calls
      /\ watch \in [Jobs -> {"none", "watching", "fired"}]
      /\ filed \in Bodies
  BY DEF ConnInv, ConnectionTypeOK
<1>2. yes \in BOOLEAN
  OBVIOUS
<1>3. job' = [job EXCEPT ![j] = r] /\ UNCHANGED <<client, idle, watch, filed>>
  BY DEF Cancel
<1> HIDE DEF yes
<1>4. /\ r \in Calls /\ r.pc = job[j].pc /\ r.kind = job[j].kind /\ r.conn = job[j].conn
      /\ r.todo = job[j].todo /\ r.pend = job[j].pend
      /\ r.ended = job[j].ended /\ r.keep = job[j].keep
  BY <1>1, <1>2 DEF Calls
<1> HIDE DEF r
<1>5. /\ job' \in [Jobs -> Calls] /\ \A i \in Jobs \ {j} : job'[i] = job[i]
      /\ job'[j] = r
  BY <1>1, <1>3, <1>4
<1>6. CASE At(j, "off")
  <2>1. r.conn = None \/ r.ended
    BY <1>4, <1>6 DEF ConnInv, Leases
  <2>2. Leaves(j)
    BY <1>1, <1>3, <1>4, <1>5, <1>6, <2>1 DEF Leaves, At
  <2> QED BY <2>2, LeavesKeep
<1>7. CASE ~At(j, "off")
  <2>1. Turns(j) /\ Carries(j) /\ client'[job[j].conn] = Conn(j)
    BY <1>3, <1>4, <1>5, <1>7, ConnKept DEF Turns, At
  <2>2. Fits(job[j], Conn(j))
    BY <1>7, Holds
  <2>3. Fits(r, Conn(j))
    BY <1>4, <2>2 DEF Fits, Placed, Owed, Answering
  <2> QED BY <1>3, <1>5, <1>7, <2>1, <2>3, Going, GoingOnKeeps
<1> QED BY <1>6, <1>7

\* The watchdog ends the lease under its job and closes the connection.
LEMMA WatchDiscardsKeeps ==
  ASSUME ConnInv, NEW j \in Jobs, WatchDiscards(j) PROVE ConnInv'
<1> DEFINE c == job[j].conn
           yes == TRUE
           r == [job[j] EXCEPT !.ended = yes]
<1>1. /\ job \in [Jobs -> Calls] /\ job[j] \in Calls /\ client \in [Conns -> Clients]
      /\ watch' \in [Jobs -> {"none", "watching", "fired"}]
      /\ filed \in Bodies
  BY DEF ConnInv, ConnectionTypeOK, WatchDiscards
<1>2. NoJob \in Calls /\ NoJob.pc = "off" /\ NoJob.conn = None /\ None \notin Conns
  BY ConnectionAssumption DEF NoJob, Calls
<1>3. yes \in BOOLEAN /\ yes
  OBVIOUS
<1>4. UNCHANGED <<idle, filed>>
  BY DEF WatchDiscards
<1>5. CASE At(j, "off")
  <2>1. job' = [job EXCEPT ![j] = NoJob]
    BY <1>5 DEF WatchDiscards
  <2>2. UNCHANGED client
    <3>1. CASE job[j].ended
      BY <3>1 DEF WatchDiscards
    <3>2. CASE ~job[j].ended
      <4>1. c = None
        BY <1>5, <3>2 DEF ConnInv, Leases
      <4>2. client' = [client EXCEPT ![c] = Closed(client[c])]
        BY <3>2 DEF WatchDiscards
      <4> QED BY <1>1, <1>2, <4>1, <4>2
    <3> QED BY <3>1, <3>2
  <2>3. /\ job' \in [Jobs -> Calls] /\ \A i \in Jobs \ {j} : job'[i] = job[i]
        /\ job'[j].pc = "off" /\ job'[j].conn = None
    BY <1>1, <1>2, <2>1
  <2>4. Leaves(j)
    BY <1>1, <1>4, <2>2, <2>3 DEF Leaves
  <2> QED BY <2>4, LeavesKeep
<1>6. CASE ~At(j, "off")
  <2>1. job' = [job EXCEPT ![j] = r]
    BY <1>6 DEF WatchDiscards
  <2> HIDE DEF yes
  <2>2. /\ r \in Calls /\ r.pc = job[j].pc /\ r.kind = job[j].kind /\ r.conn = job[j].conn
        /\ r.todo = job[j].todo /\ r.pend = job[j].pend
        /\ r.ended = yes /\ r.keep = job[j].keep
    BY <1>1, <1>3 DEF Calls
  <2> HIDE DEF r
  <2>3. /\ job' \in [Jobs -> Calls] /\ \A i \in Jobs \ {j} : job'[i] = job[i]
        /\ job'[j] = r
    BY <1>1, <2>1, <2>2
  <2>4. /\ Fits(job[j], Conn(j)) /\ c \in Conns /\ Conn(j) \in Clients /\ Sound(Conn(j))
        /\ job[j].kind \in Kinds /\ (job[j].ended <=> Conn(j).closed)
    BY <1>6, Holds
  <2>5. CASE job[j].ended
    <3>1. UNCHANGED client
      BY <2>5 DEF WatchDiscards
    <3>2. Turns(j)
      BY <1>3, <1>6, <2>2, <2>3, <2>5 DEF Turns, At
    <3>3. Carries(j) /\ client'[c] = Conn(j)
      BY <1>6, <3>1, ConnKept
    <3>4. Fits(job'[j], Conn(j))
      BY <1>3, <2>2, <2>3, <2>4, <2>5, ZenonT(30) DEF Fits, Placed, Owed, Answering
    <3>5. BodiesOwn'
      BY <1>4 DEF ConnInv, BodiesOwn
    <3> QED BY <1>1, <1>4, <1>6, <3>2, <3>3, <3>4, <3>5, GoingOnKeeps DEF GoesOn
  <2>6. CASE ~job[j].ended
    <3>1. client' = [client EXCEPT ![c] = Closed(Conn(j))]
      BY <2>6 DEF WatchDiscards, Conn
    <3>2. /\ Closed(Conn(j)) \in Clients /\ Sound(Closed(Conn(j)))
          /\ Closed(Conn(j)).closed /\ ~Closed(Conn(j)).open
      BY <2>4, DialedIs
    <3>3. /\ client' \in [Conns -> Clients] /\ \A d \in Conns \ {c} : client'[d] = client[d]
          /\ client'[c] = Closed(Conn(j))
      BY <1>1, <2>4, <3>1, <3>2
    <3>4. c \notin idle /\ \A i \in Jobs \ {j} : job[i].conn = c => job[i].ended
      BY <1>6, <2>6 DEF ConnInv, LeaseUndisturbed
    <3>5. ConnectionTypeOK'
      BY <1>1, <1>4, <2>3, <3>3 DEF ConnInv, ConnectionTypeOK
    <3>6. \A d \in Conns : Sound(client'[d])
      BY <3>2, <3>3 DEF ConnInv
    <3>7. ASSUME NEW i \in Jobs \ {j}, ~At(i, "off")
          PROVE  job[i].conn \in Conns \ {c} /\ client'[job[i].conn] = client[job[i].conn]
      <4>1. job[i].conn \in Conns /\ (job[i].ended => Conn(i).closed)
        BY <3>7 DEF ConnInv, Leases
      <4>2. job[i].conn # c
        BY <2>4, <2>6, <3>4, <4>1 DEF Conn
      <4> QED BY <3>3, <4>1, <4>2
    <3>8. Leases'
      <4> SUFFICES ASSUME NEW i \in Jobs
                   PROVE  IF At(i, "off")' THEN (job[i].conn = None \/ job[i].ended)'
                          ELSE (/\ job[i].conn \in Conns /\ job[i].kind \in Kinds
                                /\ Fits(job[i], Conn(i))
                                /\ job[i].ended => Conn(i).closed)'
        BY DEF Leases
      <4>1. CASE i = j
        <5>1. Fits(job'[j], client'[c])
          BY <1>3, <2>2, <2>3, <2>4 DEF Fits, Placed
        <5>2. job'[j].conn = c /\ job'[j].kind \in Kinds /\ client'[c].closed /\ c \in Conns
          BY <2>2, <2>3, <2>4, <3>2, <3>3
        <5>3. ~At(j, "off")'
          BY <1>6, <2>2, <2>3 DEF At
        <5> QED BY <4>1, <5>1, <5>2, <5>3 DEF Conn
      <4>2. CASE i # j
        BY <2>3, <3>7, <4>2 DEF ConnInv, Leases, At, Conn
      <4> QED BY <4>1, <4>2
    <3>9. Parked'
      BY <1>3, <1>4, <2>2, <2>3, <3>3, <3>4 DEF ConnInv, Parked, ConnectionTypeOK
    <3>10. LeaseUndisturbed'
      <4> SUFFICES ASSUME NEW i \in Jobs, ~At(i, "off")', ~job'[i].ended
                   PROVE  /\ ~client'[job'[i].conn].closed /\ job'[i].conn \notin idle'
                          /\ \A h \in Jobs \ {i} : job'[h].conn = job'[i].conn => job'[h].ended
        BY DEF LeaseUndisturbed, Conn
      <4>1. i # j
        BY <1>3, <2>2, <2>3
      <4>2. job'[i] = job[i] /\ ~At(i, "off")
        BY <2>3, <4>1 DEF At
      <4>3. /\ ~client[job[i].conn].closed /\ job[i].conn \notin idle
            /\ \A h \in Jobs \ {i} : job[h].conn = job[i].conn => job[h].ended
        BY <4>2 DEF ConnInv, LeaseUndisturbed, Conn
      <4>4. client'[job[i].conn] = client[job[i].conn]
        BY <3>7, <4>1, <4>2
      <4>5. \A h \in Jobs \ {i} : job'[h].conn = job[i].conn => job'[h].ended
        BY <1>3, <2>2, <2>3, <4>3
      <4> QED BY <1>4, <4>2, <4>3, <4>4, <4>5
    <3>11. BodiesOwn'
      BY <1>4 DEF ConnInv, BodiesOwn
    <3> QED BY <3>5, <3>6, <3>8, <3>9, <3>10, <3>11 DEF ConnInv
  <2> QED BY <2>5, <2>6
<1> QED BY <1>5, <1>6

\* A job begins on a connection that no lease still has.
LEMMA BeginsKeep ==
  ASSUME ConnInv, NEW j \in Jobs, NEW c \in Conns, NEW task \in Tasks, NEW k \in Clients,
         Free(j), Begins(j, c, task), client' = [client EXCEPT ![c] = k], idle' = idle \ {c},
         UNCHANGED filed, Sound(k), ~k.closed, k.open /\ ~k.late => k.wire = <<>>,
         \A i \in Jobs : job[i].conn = c => At(i, "off") /\ job[i].ended
  PROVE  ConnInv'
<1> DEFINE r == [NoJob EXCEPT !.pc = "group", !.kind = task.kind, !.conn = c, !.todo = task.todo]
<1>1. task.kind \in Kinds /\ task.todo \in Seq(Articles) /\ task.todo # <<>>
  BY ConnectionAssumption
<1>2. /\ r \in Calls /\ r.pc = "group" /\ r.kind = task.kind /\ r.conn = c
      /\ r.todo = task.todo /\ r.pend = <<>> /\ ~r.ended
  <2>1. NoJob \in Calls /\ NoJob.pend = <<>> /\ NoJob.ended = FALSE
    BY ConnectionAssumption DEF NoJob, Calls
  <2> QED BY <1>1, <2>1 DEF Calls
<1>3. job' = [job EXCEPT ![j] = r]
  BY DEF Begins
<1> HIDE DEF r
<1>4. /\ job \in [Jobs -> Calls] /\ client \in [Conns -> Clients] /\ idle \subseteq Conns
      /\ watch \in [Jobs -> {"none", "watching", "fired"}]
      /\ \A d \in Conns : Sound(client[d])
  BY DEF ConnInv, ConnectionTypeOK
<1>5. /\ job' \in [Jobs -> Calls] /\ \A i \in Jobs \ {j} : job'[i] = job[i]
      /\ job'[j] = r
      /\ client' \in [Conns -> Clients] /\ \A d \in Conns \ {c} : client'[d] = client[d]
      /\ client'[c] = k
  BY <1>2, <1>3, <1>4
<1>6. watch' \in [Jobs -> {"none", "watching", "fired"}]
  BY <1>4 DEF Begins
<1>7. ConnectionTypeOK'
  BY <1>4, <1>5, <1>6 DEF ConnInv, ConnectionTypeOK
<1>8. \A d \in Conns : Sound(client'[d])
  BY <1>4, <1>5
<1>9. Fits(r, k)
  BY <1>1, <1>2 DEF Fits, Placed, Owed
<1>10. ASSUME NEW i \in Jobs \ {j}, ~At(i, "off")
       PROVE  job[i].conn \in Conns \ {c} /\ client'[job[i].conn] = client[job[i].conn]
  <2>1. job[i].conn \in Conns /\ job[i].conn # c
    BY <1>10 DEF ConnInv, Leases
  <2> QED BY <1>5, <2>1
<1>11. Leases'
  <2> SUFFICES ASSUME NEW i \in Jobs
               PROVE  IF At(i, "off")' THEN (job[i].conn = None \/ job[i].ended)'
                      ELSE (/\ job[i].conn \in Conns /\ job[i].kind \in Kinds
                            /\ Fits(job[i], Conn(i))
                            /\ job[i].ended => Conn(i).closed)'
    BY DEF Leases
  <2>1. CASE i = j
    BY <1>1, <1>2, <1>5, <1>9, <2>1 DEF At, Conn
  <2>2. CASE i # j
    BY <1>5, <1>10, <2>2 DEF ConnInv, Leases, At, Conn
  <2> QED BY <2>1, <2>2
<1>12. Parked'
  <2> SUFFICES ASSUME NEW d \in idle'
               PROVE  /\ ~client'[d].closed
                      /\ client'[d].open /\ ~client'[d].late => client'[d].wire = <<>>
                      /\ \A i \in Jobs : job'[i].conn = d => job'[i].ended
    BY DEF Parked
  <2>1. d \in idle /\ d # c /\ client'[d] = client[d]
    BY <1>4, <1>5
  <2> QED BY <1>2, <1>5, <2>1 DEF ConnInv, Parked
<1>13. LeaseUndisturbed'
  <2> SUFFICES ASSUME NEW i \in Jobs, ~At(i, "off")', ~job'[i].ended
               PROVE  /\ ~client'[job'[i].conn].closed /\ job'[i].conn \notin idle'
                      /\ \A h \in Jobs \ {i} : job'[h].conn = job'[i].conn => job'[h].ended
    BY DEF LeaseUndisturbed, Conn
  <2>1. CASE i = j
    BY <1>2, <1>5, <2>1
  <2>2. CASE i # j
    <3>1. job'[i] = job[i] /\ ~At(i, "off")
      BY <1>5, <2>2 DEF At
    <3>2. /\ ~client[job[i].conn].closed /\ job[i].conn \notin idle
          /\ \A h \in Jobs \ {i} : job[h].conn = job[i].conn => job[h].ended
      BY <3>1 DEF ConnInv, LeaseUndisturbed, Conn
    <3>3. job[i].conn # c /\ client'[job[i].conn] = client[job[i].conn]
      BY <1>10, <2>2, <3>1
    <3> QED BY <1>2, <1>5, <3>1, <3>2, <3>3
  <2> QED BY <2>1, <2>2
<1>14. BodiesOwn'
  BY DEF ConnInv, BodiesOwn
<1> QED BY <1>7, <1>8, <1>11, <1>12, <1>13, <1>14 DEF ConnInv

\* Nobody who holds a parked connection has a lease on it.
LEMMA ParkedIsFree ==
  ASSUME ConnInv, NEW c \in idle
  PROVE  /\ c \in Conns /\ client[c] \in Clients /\ Sound(client[c]) /\ ~client[c].closed
         /\ client[c].open /\ ~client[c].late => client[c].wire = <<>>
         /\ \A i \in Jobs : job[i].conn = c => At(i, "off") /\ job[i].ended
<1>1. c \in Conns /\ client[c] \in Clients /\ Sound(client[c])
  BY DEF ConnInv, ConnectionTypeOK
<1>2. /\ ~client[c].closed /\ (client[c].open /\ ~client[c].late => client[c].wire = <<>>)
      /\ \A i \in Jobs : job[i].conn = c => job[i].ended
  BY DEF ConnInv, Parked
<1>3. \A i \in Jobs : job[i].conn = c => At(i, "off")
  BY <1>2 DEF ConnInv, Leases, Conn
<1> QED BY <1>1, <1>2, <1>3

LEMMA LeaseKeeps ==
  ASSUME ConnInv, NEW j \in Jobs, Lease(j) PROVE ConnInv'
<1> PICK c \in Conns, task \in Tasks : LeaseDialed(j, c, task) \/ LeaseIdle(j, c, task)
  BY DEF Lease
<1>1. client \in [Conns -> Clients] /\ idle \subseteq Conns
  BY DEF ConnInv, ConnectionTypeOK
<1>2. CASE LeaseDialed(j, c, task)
  <2>1. /\ Free(j) /\ Begins(j, c, task) /\ client' = [client EXCEPT ![c] = Dialed]
        /\ UNCHANGED <<idle, filed>> /\ client[c].closed
        /\ \A i \in Jobs : job[i].conn # c
    BY <1>2 DEF LeaseDialed
  <2>2. idle' = idle \ {c}
    BY <2>1 DEF ConnInv, Parked
  <2> QED BY <2>1, <2>2, DialedIs, BeginsKeep
<1>3. CASE LeaseIdle(j, c, task)
  <2>1. /\ Free(j) /\ Begins(j, c, task) /\ c \in idle /\ idle' = idle \ {c} /\ UNCHANGED filed
    BY <1>3 DEF LeaseIdle
  <2>2. /\ client[c] \in Clients /\ Sound(client[c]) /\ ~client[c].closed
        /\ client[c].open /\ ~client[c].late => client[c].wire = <<>>
        /\ \A i \in Jobs : job[i].conn = c => At(i, "off") /\ job[i].ended
    BY <2>1, ParkedIsFree
  <2>3. CASE UNCHANGED client
    <3>1. client' = [client EXCEPT ![c] = client[c]]
      BY <1>1, <2>3
    <3> QED BY <2>1, <2>2, <3>1, BeginsKeep
  <2>4. CASE /\ client[c].open /\ client[c].up
             /\ client' = [client EXCEPT ![c].wire =
                             Tail(Asked(client[c], "DATE", None, 111).wire)]
    <3> DEFINE d == Asked(client[c], "DATE", None, 111)
               w == Tail(d.wire)
               k == [client[c] EXCEPT !.wire = w]
    <3>1. d \in Clients /\ Sound(d) /\ AfterAsk(client[c], d, 111, None)
      BY <2>2, <2>4, AskedIs
    <3>2. d.selected = client[c].selected /\ d.group = client[c].group /\ d.open /\ d.up
          /\ d.closed = client[c].closed
      BY <2>2, <2>4 DEF Asked, Clients
    <3> HIDE DEF d
    <3>3. client[c].wire \in Seq(Replies) /\ d.wire \in Seq(Replies)
      BY <2>2, <3>1 DEF Clients
    <3>4. Len(client[c].wire) \in Nat /\ Len(d.wire) = Len(client[c].wire) + 1
      BY <3>1, <3>3, LenProperties DEF AfterAsk
    <3>5. d.wire # <<>>
      BY <3>4
    <3>6. /\ w \in Seq(Replies) /\ Len(w) = Len(client[c].wire)
          /\ \A i \in 1 .. Len(w) : w[i] = d.wire[i + 1]
      BY <3>3, <3>4, <3>5, HeadTailProperties
    <3> HIDE DEF w
    <3>7. k \in Clients /\ k.wire = w /\ k.closed = client[c].closed /\ k.open = client[c].open
          /\ k.up = client[c].up /\ k.late = client[c].late /\ k.group = client[c].group /\ k.selected = client[c].selected
      BY <2>2, <3>6 DEF Clients
    <3>8. client' = [client EXCEPT ![c] = k]
      BY <2>4 DEF w, d
    <3> HIDE DEF k
    <3>9. Sound(k)
      <4>1. ASSUME NEW i \in 1 .. Len(w), w[i].code = 211 PROVE d.selected
        <5>1. i + 1 \in 1 .. Len(d.wire) /\ d.wire[i + 1].code = 211
          BY <3>4, <3>6, <4>1
        <5> QED BY <3>1, <3>2, <5>1 DEF Sound
      <4> QED BY <2>2, <2>4, <3>1, <3>2, <3>7, <4>1 DEF Sound
    <3>10. k.open /\ ~k.late => k.wire = <<>>
      <4>1. client[c].wire = <<>> => Len(w) = 0
        BY <3>6
      <4>2. client[c].wire = <<>> => w = <<>>
        BY <3>6, <4>1, EmptySeq
      <4> QED BY <2>2, <3>7, <4>2
    <3>11. ~k.closed
      BY <2>2, <3>7
    <3> QED BY <2>1, <2>2, <3>7, <3>8, <3>9, <3>10, <3>11, BeginsKeep
  <2> QED BY <1>3, <2>3, <2>4 DEF LeaseIdle
<1> QED BY <1>2, <1>3

LEMMA CloseIdleKeeps ==
  ASSUME ConnInv, NEW c \in Conns, CloseIdle(c) PROVE ConnInv'
<1>1. /\ c \in idle /\ idle' = idle \ {c} /\ client' = [client EXCEPT ![c] = Closed(client[c])]
      /\ UNCHANGED <<job, watch, filed>>
  BY DEF CloseIdle
<1>2. /\ client[c] \in Clients /\ Sound(client[c])
      /\ \A i \in Jobs : job[i].conn = c => At(i, "off") /\ job[i].ended
  BY <1>1, ParkedIsFree
<1>3. Closed(client[c]) \in Clients /\ Sound(Closed(client[c]))
  BY <1>2, DialedIs
<1>4. /\ client' \in [Conns -> Clients] /\ \A d \in Conns \ {c} : client'[d] = client[d]
      /\ client'[c] = Closed(client[c])
  BY <1>1, <1>3 DEF ConnInv, ConnectionTypeOK
<1>5. ConnectionTypeOK'
  BY <1>1, <1>4 DEF ConnInv, ConnectionTypeOK
<1>6. \A d \in Conns : Sound(client'[d])
  BY <1>3, <1>4 DEF ConnInv
<1>7. \A i \in Jobs : ~At(i, "off") =>
        job[i].conn \in Conns /\ client'[job[i].conn] = client[job[i].conn]
  BY <1>2, <1>4 DEF ConnInv, Leases
<1>8. Leases'
  BY <1>1, <1>7 DEF ConnInv, Leases, At, Conn
<1>9. Parked'
  BY <1>1, <1>4 DEF ConnInv, Parked, ConnectionTypeOK
<1>10. LeaseUndisturbed'
  BY <1>1, <1>7 DEF ConnInv, LeaseUndisturbed, At, Conn
<1>11. BodiesOwn'
  BY <1>1 DEF ConnInv, BodiesOwn
<1> QED BY <1>5, <1>6, <1>8, <1>9, <1>10, <1>11 DEF ConnInv

LEMMA DropKeeps ==
  ASSUME ConnInv, NEW c \in Conns, Drop(c) PROVE ConnInv'
<1> DEFINE no == FALSE
           k == [client[c] EXCEPT !.up = no, !.wire = <<>>]
<1>1. /\ client[c].open /\ client[c].up /\ UNCHANGED <<idle, job, watch, filed>>
      /\ client' = [client EXCEPT ![c] = k]
  BY DEF Drop
<1>2. client[c] \in Clients /\ Sound(client[c]) /\ client \in [Conns -> Clients]
  BY DEF ConnInv, ConnectionTypeOK
<1>3. no \in BOOLEAN /\ ~no /\ <<>> \in Seq(Replies) /\ Len(<<>>) = 0
  OBVIOUS
<1> HIDE DEF no
<1>4. /\ k \in Clients /\ k.late = client[c].late /\ k.up = no /\ k.wire = <<>> /\ k.closed = client[c].closed
      /\ k.open = client[c].open /\ k.group = client[c].group /\ k.selected = client[c].selected
  BY <1>2, <1>3 DEF Clients
<1> HIDE DEF k
<1>5. Sound(k)
  BY <1>1, <1>2, <1>3, <1>4 DEF Sound
<1>6. /\ client' \in [Conns -> Clients] /\ \A d \in Conns \ {c} : client'[d] = client[d]
      /\ client'[c] = k
  BY <1>1, <1>2, <1>4
<1>7. ConnectionTypeOK'
  BY <1>1, <1>6 DEF ConnInv, ConnectionTypeOK
<1>8. \A d \in Conns : Sound(client'[d])
  BY <1>5, <1>6 DEF ConnInv
<1>9. \A d \in Conns : client'[d].closed = client[d].closed
  BY <1>4, <1>6
<1>10. ASSUME NEW i \in Jobs, ~At(i, "off")
       PROVE  job[i].conn \in Conns /\ Fits(job[i], client'[job[i].conn])
  <2>1. job[i].conn \in Conns /\ Fits(job[i], client[job[i].conn])
    BY <1>10 DEF ConnInv, Leases, Conn
  <2>2. CASE job[i].conn = c
    BY <1>1, <1>3, <1>4, <1>6, <2>1, <2>2 DEF Fits
  <2>3. CASE job[i].conn # c
    BY <1>6, <2>1, <2>3
  <2> QED BY <2>1, <2>2, <2>3
<1>11. Leases'
  BY <1>1, <1>9, <1>10 DEF ConnInv, Leases, At, Conn
<1>12. Parked'
  BY <1>1, <1>4, <1>6, <1>9 DEF ConnInv, Parked, ConnectionTypeOK
<1>13. LeaseUndisturbed'
  BY <1>1, <1>9, <1>10 DEF ConnInv, LeaseUndisturbed, At, Conn
<1>14. BodiesOwn'
  BY <1>1 DEF ConnInv, BodiesOwn
<1> QED BY <1>7, <1>8, <1>11, <1>12, <1>13, <1>14 DEF ConnInv

-------------------------------------------------------------------------------
(* The invariant, and what it says. *)

LEMMA ConnectionStarts == ConnectionInit => ConnInv
<1> SUFFICES ASSUME ConnectionInit PROVE ConnInv
  OBVIOUS
<1>1. <<>> \in Seq(Replies) /\ <<>> \in Seq(Articles) /\ Len(<<>>) = 0
  OBVIOUS
<1>2. Gone \in Clients /\ Sound(Gone)
  BY DialedIs
<1>3. NoJob \in Calls /\ NoJob.pc = "off" /\ NoJob.conn = None
  BY ConnectionAssumption DEF NoJob, Calls
<1>4. ConnectionTypeOK
  BY <1>2, <1>3 DEF ConnectionInit, ConnectionTypeOK, Bodies
<1>5. \A c \in Conns : Sound(client[c])
  BY <1>2 DEF ConnectionInit
<1>6. \A j \in Jobs : At(j, "off") /\ job[j].conn = None
  BY <1>3 DEF ConnectionInit, At
<1>7. Leases /\ LeaseUndisturbed
  BY <1>6 DEF Leases, LeaseUndisturbed
<1>8. Parked
  BY DEF ConnectionInit, Parked
<1>9. BodiesOwn
  BY DEF ConnectionInit, BodiesOwn
<1> QED BY <1>4, <1>5, <1>7, <1>8, <1>9 DEF ConnInv

LEMMA ConnectionSteps == ConnInv /\ [ConnectionNext]_vars => ConnInv'
<1> SUFFICES ASSUME ConnInv, [ConnectionNext]_vars PROVE ConnInv'
  OBVIOUS
<1>1. CASE ConnectionNext
  <2>1. ASSUME NEW j \in Jobs,
               Lease(j) \/ Command(j) \/ Reconnect(j) \/ End(j) \/ Cancel(j) \/ Watchdog(j)
        PROVE  ConnInv'
    BY <2>1, LeaseKeeps, CommandKeeps, EndKeeps, CancelKeeps, WatchFiresKeeps,
       WatchDiscardsKeeps DEF Watchdog
  <2>2. ASSUME NEW c \in Conns, CloseIdle(c) \/ Drop(c) PROVE ConnInv'
    BY <2>2, CloseIdleKeeps, DropKeeps
  <2> QED BY <1>1, <2>1, <2>2 DEF ConnectionNext
<1>2. CASE UNCHANGED vars
  BY <1>2 DEF vars, ConnInv, ConnectionTypeOK, Leases, Parked, LeaseUndisturbed, BodiesOwn, At, Conn
<1> QED BY <1>1, <1>2

\* The wire of a connection, the place of its job and who has it fit together.
THEOREM ConnInvariant == ConnectionSpec => []ConnInv
  BY ConnectionStarts, ConnectionSteps, PTL DEF ConnectionSpec

\* Every variable has its type.
THEOREM ConnectionTypes == ConnectionSpec => []ConnectionTypeOK
<1>1. ConnInv => ConnectionTypeOK
  BY DEF ConnInv
<1> QED BY <1>1, ConnInvariant, PTL

\* A reconnect that overlaps the close of its client leaves no socket behind.
THEOREM NoSocketOrphaned == ConnectionSpec => []NoOrphan
<1>1. ConnInv => NoOrphan
  BY DEF ConnInv, Sound, NoOrphan
<1> QED BY <1>1, ConnInvariant, PTL

\* A connection is one job's alone, and no one else closes it, while the lease lasts.
THEOREM LeaseIsTheJobs == ConnectionSpec => []LeaseUndisturbed
<1>1. ConnInv => LeaseUndisturbed
  BY DEF ConnInv
<1> QED BY <1>1, ConnInvariant, PTL

\* GROUP is skipped only where the server has the group selected.
THEOREM GroupIsTrue == ConnectionSpec => []GroupTrue
<1>1. ConnInv => GroupTrue
  BY DEF ConnInv, Sound, GroupTrue
<1> QED BY <1>1, ConnInvariant, PTL

\* No body is filed or served as another's, unless it came over a connection whose login
\* was answered after its deadline.
THEOREM NoBodyMistaken == ConnectionSpec => []BodiesOwn
<1>1. ConnInv => BodiesOwn
  BY DEF ConnInv
<1> QED BY <1>1, ConnInvariant, PTL

\* A parked connection that works owes nothing, with the same exception.
THEOREM ParkedOwesNothing == ConnectionSpec => []ParkedInSync
<1>1. ConnInv => ParkedInSync
  BY DEF ConnInv, Parked, ParkedInSync
<1> QED BY <1>1, ConnInvariant, PTL
===============================================================================
