----------------------- MODULE SummaryAgreement_proofs -----------------------
(***************************************************************************)
(* Proof that Greeting.tla, which knows no keys, tells the same as the     *)
(* greetings of KeyAgreement do with keys (SummariesAgree), for any        *)
(* clients, routes and number of draws.                                    *)
(*                                                                         *)
(* A session id of Greeting.tla is a pair of names of proposals, one with  *)
(* keys a hash of nonces.  The inductive invariant says that the two       *)
(* distinguish the same: among the greetings of an operation, and between  *)
(* them and the packets on the way.                                        *)
(***************************************************************************)
EXTENDS KeyAgreement_proofs

-----------------------------------------------------------------------------
(* The inductive invariant.                                                *)

(* A name that a client has drawn.                                         *)
IsOld(n, dr) == \E e \in Client : n \in Drawn(dr, e)

IsSummary(sum) ==
    sum = [n |-> sum.n, prev |-> sum.prev, next |-> sum.next, mem |-> sum.mem,
           sid |-> sum.sid, authd |-> sum.authd, recvOwn |-> sum.recvOwn,
           quit |-> sum.quit, fin |-> sum.fin, err |-> sum.err]

(* The members of an operation: greetings gs with keys, and ss without.    *)
GreetingsSame(gs, ss, to) ==
    /\ \A c \in to : IsSummary(ss[c]) /\ SameGreeting(gs[c], ss[c]) /\ ss[c].prev # to
    /\ \A c, d \in to : ss[c].sid = ss[d].sid <=> gs[c].ske.sid = gs[d].ske.sid

(* A packet on the way to them; sp is the one without keys.                *)
UpSame(ss, pkt, sp, to, dr) ==
    /\ Summary!IsUpflow(sp) /\ sp.route = pkt.route /\ IsOld(sp.n, dr)
    /\ \A c \in to : (ss[c].next # {} => ss[c].n = sp.n) /\ ss[c].sid # <<sp.n, sp.n>>
DownSame(gs, ss, pkt, sp, to, dr) ==
    /\ Summary!IsDownflow(sp) /\ IsOld(sp.sid[1], dr)
    /\ \A c \in to : ss[c].sid = sp.sid <=> gs[c].ske.sid = ComputeSid(pkt.nonces)
PacketSame(gs, ss, pkt, to, dr) ==
    LET sp == pkt.summary[1]
    IN  /\ pkt.summary = <<sp>> /\ sp.src = pkt.src /\ sp.members = pkt.members
        /\ sp.t = "init" => pkt.init = TRUE
        /\ IF IsUpflow(pkt) THEN UpSame(ss, pkt, sp, to, dr)
           ELSE DownSame(gs, ss, pkt, sp, to, dr)

SessionsSame ==
    /\ session = [c \in Client |-> session[c]]
    /\ \A c \in Client \ Group : session[c] = Summary!NoSession
    /\ \A c \in Group : /\ session[c].members = store[c].ske.members
                        /\ IsOld(session[c].sid[1], drawn)
    /\ \A c, d \in Group : session[c].sid = session[d].sid

ProposalsSame ==
    \A p \in proposals :
        /\ GreetingsSame(Beginning(p), SummaryBeginning(p), p.packet.members)
        /\ PacketSame(Beginning(p), SummaryBeginning(p), p.packet, p.packet.members, drawn)

OperationSame ==
    /\ GreetingsSame(greeting, summary, next)
    /\ \A pkt \in flight : PacketSame(greeting, summary, pkt, next, drawn)

SameInv ==
    /\ SessionsSame
    /\ ProposalsSame
    /\ summary = [c \in Client |-> summary[c]]
    /\ OperationSame

-----------------------------------------------------------------------------
(* What Greeting.tla does with a packet, field by field.                   *)

(* A member that takes part: to are the members of the operation.  One     *)
(* that has not sent the result or a confirmation of it, a packet of the   *)
(* operation, and what a member knows that has seen the result.            *)
Takes(s, to) ==
    /\ IsSummary(s) /\ s.next \in {{}, to} /\ s.prev # to
    /\ s.quit = FALSE /\ s.fin = 0 /\ s.err = FALSE
SumWaits(s, to) == Takes(s, to) /\ s.recvOwn = FALSE
IsPacket(sp, to, first) ==
    Summary!IsGreet(sp) /\ sp.members = to /\ (sp.t = "init" => first = TRUE)
SumKnows(t, to, sid, authd, own, fin) ==
    /\ IsSummary(t) /\ t.next = to /\ t.prev # to /\ t.mem = to /\ t.sid = sid
    /\ t.authd = authd /\ t.recvOwn = own /\ t.quit = FALSE /\ t.err = FALSE /\ t.fin = fin
IsFirst(s, sp) == IF s.next = {} THEN sp.n ELSE s.n

(* A name is none of those that stand for nothing.                         *)
LEMMA OldFacts ==
    ASSUME NEW n, NEW dr, IsOld(n, dr)
    PROVE  n # Summary!NoProposal
  <1>1. PICK e, i : n = <<e, i>> /\ i \in 1 .. dr[e]
    BY DEF IsOld, Drawn
  <1>2. i # 0
    BY <1>1
  <1> QED
    BY <1>1, <1>2 DEF Summary!NoProposal

(* The first packet tells who the members will be, and the proposal.       *)
LEMMA SumStartedFacts ==
    ASSUME NEW s, NEW to, Takes(s, to), NEW sp, sp.members = to,
           NEW t, t = Summary!Started(s, sp)
    PROVE  /\ Takes(t, to) /\ t.n = IsFirst(s, sp) /\ t.next = to
           /\ t.mem = s.mem /\ t.sid = s.sid /\ t.authd = s.authd /\ t.recvOwn = s.recvOwn
  <1>1. CASE s.next = {}
    <2>1. t = [s EXCEPT !.n = sp.n, !.next = to]
      BY <1>1 DEF Summary!Started
    <2>2. IsSummary(t)
      BY <2>1 DEF Takes, IsSummary
    <2>3. t.n = sp.n /\ t.prev = s.prev /\ t.next = to
      BY <2>1 DEF Takes, IsSummary
    <2>4. t.mem = s.mem /\ t.sid = s.sid /\ t.authd = s.authd
      BY <2>1 DEF Takes, IsSummary
    <2>5. t.recvOwn = s.recvOwn /\ t.quit = s.quit /\ t.fin = s.fin /\ t.err = s.err
      BY <2>1 DEF Takes, IsSummary
    <2> QED
      BY <1>1, <2>2, <2>3, <2>4, <2>5 DEF Takes, IsFirst
  <1>2. CASE s.next # {}
    BY <1>2 DEF Takes, IsFirst, Summary!Started
  <1> QED
    BY <1>1, <1>2

(* Complete is who has its own packet back and a signature of everybody.   *)
LEMMA SumFulfillFacts ==
    ASSUME NEW s, NEW to, Takes(s, to), s.next = to, s.mem = to, s.recvOwn \in BOOLEAN,
           NEW t, t = Summary!MaybeFulfill(s),
           NEW fin, fin = IF s.recvOwn /\ Summary!IsSessionAcknowledged(s) THEN 1 ELSE 0
    PROVE  SumKnows(t, to, s.sid, s.authd, s.recvOwn, fin)
  <1>1. CASE Summary!IsSessionAcknowledged(s) /\ s.recvOwn
    <2>1. t = [s EXCEPT !.fin = 1, !.err = FALSE]
      BY <1>1 DEF Summary!MaybeFulfill, Takes
    <2>2. IsSummary(t)
      BY <2>1 DEF IsSummary, Takes
    <2>3. t.prev = s.prev /\ t.next = s.next
      BY <2>1 DEF IsSummary, Takes
    <2>4. t.mem = s.mem /\ t.sid = s.sid /\ t.authd = s.authd
      BY <2>1 DEF IsSummary, Takes
    <2>5. t.recvOwn = s.recvOwn /\ t.quit = s.quit /\ t.fin = 1 /\ t.err = FALSE
      BY <2>1 DEF IsSummary, Takes
    <2> QED
      BY <1>1, <2>2, <2>3, <2>4, <2>5 DEF SumKnows, Takes
  <1>2. CASE ~ (Summary!IsSessionAcknowledged(s) /\ s.recvOwn)
    <2>1. t = s
      BY <1>2 DEF Summary!MaybeFulfill, Takes
    <2> QED
      BY <1>2, <2>1 DEF Takes, SumKnows
  <1> QED
    BY <1>1, <1>2

(* Who has not its own packet back stays as it is.                         *)
LEMMA SumNotFulfilled ==
    ASSUME NEW s, NEW to, SumWaits(s, to), s.next = to
    PROVE  Summary!MaybeFulfill(s) = s
  BY DEF SumWaits, Takes, Summary!MaybeFulfill

(* A packet of the operation is processed.                                 *)
LEMMA SumRecvFacts ==
    ASSUME NEW s, NEW to, Takes(s, to), NEW sp, NEW first, IsPacket(sp, to, first),
           NEW c, NEW t, t = Summary!Started(s, sp)
    PROVE  /\ Summary!Recv(s, c, sp, first) = Summary!ProcessMessage(t, c, sp)
           /\ Summary!RecvAnswer(s, c, sp, first) = Summary!Answer(t, c, sp)
  BY DEF Takes, IsPacket, Summary!Recv, Summary!RecvAnswer

(* An upflow that is not for c changes nothing, and is not answered.       *)
LEMMA SumOthersUpflow ==
    ASSUME NEW s, NEW to, SumWaits(s, to), NEW sp, NEW first, IsPacket(sp, to, first),
           Summary!IsUpflow(sp), NEW c \in to, c # Head(sp.route),
           NEW t, t = Summary!Recv(s, c, sp, first)
    PROVE  /\ SumWaits(t, to) /\ t.n = IsFirst(s, sp) /\ t.next = to
           /\ t.mem = s.mem /\ t.sid = s.sid /\ t.authd = s.authd
           /\ Summary!RecvAnswer(s, c, sp, first) = <<>>
  <1>0. ~ Summary!IsDownflow(sp) /\ sp.members = to
    BY DEF Summary!IsUpflow, Summary!IsDownflow, IsPacket
  <1>1. PICK u : u = Summary!Started(s, sp)
    OBVIOUS
  <1>2. /\ Takes(u, to) /\ u.n = IsFirst(s, sp) /\ u.next = to
        /\ u.mem = s.mem /\ u.sid = s.sid /\ u.authd = s.authd /\ u.recvOwn = s.recvOwn
    BY <1>0, <1>1, SumStartedFacts DEF SumWaits
  <1>3. /\ t = Summary!ProcessMessage(u, c, sp)
        /\ Summary!RecvAnswer(s, c, sp, first) = Summary!Answer(u, c, sp)
    BY <1>1, SumRecvFacts DEF SumWaits
  <1>4. Summary!Answer(u, c, sp) = <<>>
    BY <1>0 DEF Summary!Answer
  <1>5. SumWaits(u, to)
    BY <1>2 DEF SumWaits
  <1>6. t = u
    <2>1. CASE sp.src = c
      <3>1. PICK o : o = [u EXCEPT !.recvOwn = FALSE]
        OBVIOUS
      <3>2. t = Summary!MaybeFulfill(o)
        BY <1>0, <1>3, <1>5, <2>1, <3>1 DEF SumWaits, Takes, Summary!ProcessMessage
      <3>3. o = u
        BY <1>5, <3>1 DEF SumWaits, Takes, IsSummary
      <3> QED
        BY <1>2, <1>5, <3>2, <3>3, SumNotFulfilled
    <2>2. CASE sp.src # c
      BY <1>0, <1>3, <1>5, <2>2 DEF SumWaits, Takes, Summary!ProcessMessage
    <2> QED
      BY <2>1, <2>2
  <1> QED
    BY <1>2, <1>3, <1>4, <1>5, <1>6

(* An upflow for c: it adds its contribution, and sends the packet on.     *)
SumAnswersUp(t, c, sp, to, answer) ==
    IF Len(sp.route) = 1 THEN answer = <<Summary!DownPacket(t.sid, c, to)>>
    ELSE answer = <<Summary!UpPacket(sp.n, c, Tail(sp.route), to)>>
SumContributes(s, t, c, sp, to, answer) ==
    /\ SumWaits(t, to) /\ t.n = IsFirst(s, sp) /\ t.mem = to
    /\ Len(sp.route) = 1 => t.sid = <<sp.n, IsFirst(s, sp)>> /\ t.authd = {c}
    /\ Len(sp.route) # 1 => t.sid = s.sid /\ t.authd = s.authd
    /\ SumAnswersUp(t, c, sp, to, answer)

(* It is then as the route tells, and waits for the result.                *)
LEMMA SumUpflow ==
    ASSUME NEW s, NEW to, SumWaits(s, to), NEW sp, NEW first, IsPacket(sp, to, first),
           Summary!IsUpflow(sp), NEW c \in to, c = Head(sp.route), sp.src # c,
           NEW t, t = Summary!Recv(s, c, sp, first)
    PROVE  t.next = to /\ SumContributes(s, t, c, sp, to, Summary!RecvAnswer(s, c, sp, first))
  <1>0. ~ Summary!IsDownflow(sp) /\ sp.members = to
    BY DEF Summary!IsUpflow, Summary!IsDownflow, IsPacket
  <1>1. PICK u : u = Summary!Started(s, sp)
    OBVIOUS
  <1>2. /\ Takes(u, to) /\ u.n = IsFirst(s, sp) /\ u.next = to
        /\ u.mem = s.mem /\ u.sid = s.sid /\ u.authd = s.authd /\ u.recvOwn = s.recvOwn
    BY <1>0, <1>1, SumStartedFacts DEF SumWaits
  <1>3. /\ t = Summary!ProcessMessage(u, c, sp)
        /\ Summary!RecvAnswer(s, c, sp, first) = Summary!Answer(u, c, sp)
    BY <1>1, SumRecvFacts DEF SumWaits
  <1>4. SumWaits(u, to)
    BY <1>2 DEF SumWaits
  <1>5. PICK v : v = Summary!Upflow(u, c, sp)
    OBVIOUS
  <1>6. t = Summary!MaybeFulfill(v)
    BY <1>0, <1>3, <1>4, <1>5 DEF SumWaits, Takes, Summary!ProcessMessage
  <1>7. /\ SumWaits(v, to) /\ v.n = u.n /\ v.next = to /\ v.mem = to
        /\ Len(sp.route) = 1 => v.sid = <<sp.n, u.n>> /\ v.authd = {c}
        /\ Len(sp.route) # 1 => v.sid = u.sid /\ v.authd = u.authd
    <2>0. IsSummary(u)
      BY <1>2 DEF Takes
    <2>1. CASE Len(sp.route) = 1
      <3>1. PICK sid, who : sid = <<sp.n, u.n>> /\ who = {c}
        OBVIOUS
      <3>2. v = [u EXCEPT !.mem = to, !.sid = sid, !.authd = who]
        BY <1>0, <1>5, <2>1, <3>1 DEF Summary!Upflow
      <3>3. IsSummary(v)
        BY <2>0, <3>2 DEF IsSummary
      <3>4. v.n = u.n /\ v.prev = u.prev /\ v.next = u.next
        BY <2>0, <3>2 DEF IsSummary
      <3>5. v.mem = to /\ v.sid = sid /\ v.authd = who
        BY <2>0, <3>2 DEF IsSummary
      <3>6. v.recvOwn = u.recvOwn /\ v.quit = u.quit /\ v.fin = u.fin /\ v.err = u.err
        BY <2>0, <3>2 DEF IsSummary
      <3> QED
        BY <1>2, <1>4, <2>1, <3>1, <3>3, <3>4, <3>5, <3>6 DEF SumWaits, Takes
    <2>2. CASE Len(sp.route) # 1
      <3>2. v = [u EXCEPT !.mem = to]
        BY <1>0, <1>5, <2>2 DEF Summary!Upflow
      <3>3. IsSummary(v)
        BY <2>0, <3>2 DEF IsSummary
      <3>4. v.n = u.n /\ v.prev = u.prev /\ v.next = u.next
        BY <2>0, <3>2 DEF IsSummary
      <3>5. v.mem = to /\ v.sid = u.sid /\ v.authd = u.authd
        BY <2>0, <3>2 DEF IsSummary
      <3>6. v.recvOwn = u.recvOwn /\ v.quit = u.quit /\ v.fin = u.fin /\ v.err = u.err
        BY <2>0, <3>2 DEF IsSummary
      <3> QED
        BY <1>2, <1>4, <2>2, <3>3, <3>4, <3>5, <3>6 DEF SumWaits, Takes
    <2> QED
      BY <2>1, <2>2
  <1>8. t = v
    BY <1>6, <1>7, SumNotFulfilled
  <1>9. SumAnswersUp(t, c, sp, to, Summary!Answer(u, c, sp))
    <2>1. u.quit = FALSE
      BY <1>2 DEF Takes
    <2>2. CASE Len(sp.route) = 1
      <3>1. Summary!Answer(u, c, sp) = <<Summary!DownPacket(<<sp.n, u.n>>, c, to)>>
        BY <1>0, <2>1, <2>2 DEF Summary!Answer
      <3> QED
        BY <1>7, <1>8, <2>2, <3>1 DEF SumAnswersUp
    <2>3. CASE Len(sp.route) # 1
      <3>1. Summary!Answer(u, c, sp) = <<Summary!UpPacket(sp.n, c, Tail(sp.route), to)>>
        BY <1>0, <2>1, <2>3 DEF Summary!Answer
      <3> QED
        BY <2>3, <3>1 DEF SumAnswersUp
    <2> QED
      BY <2>2, <2>3
  <1> QED
    BY <1>2, <1>3, <1>7, <1>8, <1>9 DEF SumContributes

(* The own packet comes back.                                              *)
LEMMA SumOwn ==
    ASSUME NEW s, NEW to, Takes(s, to), s.mem = to, NEW sp, NEW first, IsPacket(sp, to, first),
           Summary!IsDownflow(sp), NEW c \in to, sp.src = c,
           NEW t, t = Summary!Recv(s, c, sp, first),
           NEW fin, fin = IF Summary!IsSessionAcknowledged(s) THEN 1 ELSE 0
    PROVE  /\ SumKnows(t, to, s.sid, s.authd, TRUE, fin)
           /\ Summary!RecvAnswer(s, c, sp, first) = <<>>
  <1>0. sp.members = to
    BY DEF IsPacket
  <1>1. PICK u : u = Summary!Started(s, sp)
    OBVIOUS
  <1>2. /\ Takes(u, to) /\ u.next = to
        /\ u.mem = s.mem /\ u.sid = s.sid /\ u.authd = s.authd
    BY <1>0, <1>1, SumStartedFacts
  <1>3. /\ t = Summary!ProcessMessage(u, c, sp)
        /\ Summary!RecvAnswer(s, c, sp, first) = Summary!Answer(u, c, sp)
    BY <1>1, SumRecvFacts
  <1>4. Summary!Answer(u, c, sp) = <<>>
    BY DEF Summary!Answer
  <1>5. PICK o : o = [u EXCEPT !.recvOwn = TRUE]
    OBVIOUS
  <1>6. t = Summary!MaybeFulfill(o)
    <2>1. (u.recvOwn \/ Summary!IsDownflow(sp)) = TRUE
      OBVIOUS
    <2> QED
      BY <1>0, <1>2, <1>3, <1>5, <2>1 DEF Takes, Summary!ProcessMessage
  <1>7. IsSummary(u)
    BY <1>2 DEF Takes
  <1>8. IsSummary(o)
    BY <1>5, <1>7 DEF IsSummary
  <1>9. o.n = u.n /\ o.prev = u.prev /\ o.next = u.next
    BY <1>5, <1>7 DEF IsSummary
  <1>10. o.mem = u.mem /\ o.sid = u.sid /\ o.authd = u.authd
    BY <1>5, <1>7 DEF IsSummary
  <1>11. o.recvOwn = TRUE /\ o.quit = u.quit /\ o.fin = u.fin /\ o.err = u.err
    BY <1>5, <1>7 DEF IsSummary
  <1>12. Takes(o, to)
    BY <1>2, <1>8, <1>9, <1>11 DEF Takes
  <1>13. Summary!IsSessionAcknowledged(o) <=> Summary!IsSessionAcknowledged(s)
    BY <1>2, <1>10 DEF Summary!IsSessionAcknowledged
  <1>14. fin = IF o.recvOwn /\ Summary!IsSessionAcknowledged(o) THEN 1 ELSE 0
    BY <1>11, <1>13
  <1>15. o.next = to /\ o.mem = to /\ o.recvOwn \in BOOLEAN
    BY <1>2, <1>9, <1>10, <1>11
  <1>16. SumKnows(t, to, o.sid, o.authd, o.recvOwn, fin)
    BY <1>6, <1>12, <1>14, <1>15, SumFulfillFacts
  <1> QED
    BY <1>2, <1>3, <1>4, <1>10, <1>11, <1>16

(* The result, or a confirmation, of another member: c confirms it if it   *)
(* does not know its session id.                                           *)
SumAnswersDown(s, c, sp, to, answer) ==
    IF s.sid = sp.sid THEN answer = <<>> ELSE answer = <<Summary!ConfirmPacket(sp.sid, c, to)>>

(* A result or a confirmation of another member arrives: who does not know *)
(* the session id yet adopts it, and answers.                              *)
LEMMA SumDownflow ==
    ASSUME NEW s, NEW to, Takes(s, to), s.recvOwn \in BOOLEAN,
           NEW sp, NEW first, IsPacket(sp, to, first),
           Summary!IsDownflow(sp), s.sid = sp.sid => s.mem = to, NEW c \in to, sp.src # c,
           NEW t, t = Summary!Recv(s, c, sp, first),
           NEW authd, authd = IF s.sid = sp.sid THEN s.authd \cup {sp.src} ELSE {c, sp.src},
           NEW fin, fin = IF s.recvOwn /\ authd # {} /\ to \subseteq authd THEN 1 ELSE 0
    PROVE  /\ SumKnows(t, to, sp.sid, authd, s.recvOwn, fin)
           /\ SumAnswersDown(s, c, sp, to, Summary!RecvAnswer(s, c, sp, first))
  <1>0. sp.members = to
    BY DEF IsPacket
  <1>1. PICK u : u = Summary!Started(s, sp)
    OBVIOUS
  <1>2. /\ Takes(u, to) /\ u.next = to
        /\ u.mem = s.mem /\ u.sid = s.sid /\ u.authd = s.authd /\ u.recvOwn = s.recvOwn
    BY <1>0, <1>1, SumStartedFacts
  <1>3. /\ t = Summary!ProcessMessage(u, c, sp)
        /\ Summary!RecvAnswer(s, c, sp, first) = Summary!Answer(u, c, sp)
    BY <1>1, SumRecvFacts
  <1>4. IsSummary(u) /\ u.quit = FALSE
    BY <1>2 DEF Takes
  <1>5. SumAnswersDown(s, c, sp, to, Summary!Answer(u, c, sp))
    BY <1>0, <1>2, <1>4 DEF Summary!Answer, SumAnswersDown
  <1>6. PICK o : o = Summary!Downflow(u, c, sp)
    OBVIOUS
  <1>7. t = Summary!MaybeFulfill(o)
    BY <1>0, <1>3, <1>4, <1>6 DEF Summary!ProcessMessage
  <1>8. /\ IsSummary(o) /\ o.prev = u.prev /\ o.next = to
        /\ o.mem = to /\ o.sid = sp.sid /\ o.authd = authd
        /\ o.recvOwn = u.recvOwn /\ o.quit = u.quit /\ o.fin = u.fin /\ o.err = u.err
    <2>1. CASE s.sid = sp.sid
      <3>1. o = [u EXCEPT !.authd = authd]
        BY <1>2, <1>6, <2>1 DEF Summary!Downflow
      <3>2. IsSummary(o)
        BY <1>4, <3>1 DEF IsSummary
      <3>3. o.n = u.n /\ o.prev = u.prev /\ o.next = u.next
        BY <1>4, <3>1 DEF IsSummary
      <3>4. o.mem = u.mem /\ o.sid = u.sid /\ o.authd = authd
        BY <1>4, <3>1 DEF IsSummary
      <3>5. o.recvOwn = u.recvOwn /\ o.quit = u.quit /\ o.fin = u.fin /\ o.err = u.err
        BY <1>4, <3>1 DEF IsSummary
      <3> QED
        BY <1>2, <2>1, <3>2, <3>3, <3>4, <3>5
    <2>2. CASE s.sid # sp.sid
      <3>0. PICK sid : sid = sp.sid
        OBVIOUS
      <3>1. o = [u EXCEPT !.mem = to, !.sid = sid, !.authd = authd]
        BY <1>0, <1>2, <1>6, <2>2, <3>0 DEF Summary!Downflow
      <3>2. IsSummary(o)
        BY <1>4, <3>1 DEF IsSummary
      <3>3. o.n = u.n /\ o.prev = u.prev /\ o.next = u.next
        BY <1>4, <3>1 DEF IsSummary
      <3>4. o.mem = to /\ o.sid = sid /\ o.authd = authd
        BY <1>4, <3>1 DEF IsSummary
      <3>5. o.recvOwn = u.recvOwn /\ o.quit = u.quit /\ o.fin = u.fin /\ o.err = u.err
        BY <1>4, <3>1 DEF IsSummary
      <3> QED
        BY <1>2, <3>0, <3>2, <3>3, <3>4, <3>5
    <2> QED
      BY <2>1, <2>2
  <1>9. Takes(o, to)
    BY <1>2, <1>8 DEF Takes
  <1>10. Summary!IsSessionAcknowledged(o) <=> authd # {} /\ to \subseteq authd
    BY <1>8 DEF Summary!IsSessionAcknowledged
  <1>11. fin = IF o.recvOwn /\ Summary!IsSessionAcknowledged(o) THEN 1 ELSE 0
    BY <1>2, <1>8, <1>10
  <1>12. o.next = to /\ o.mem = to /\ o.recvOwn \in BOOLEAN
    BY <1>2, <1>8
  <1>13. SumKnows(t, to, o.sid, o.authd, o.recvOwn, fin)
    BY <1>7, <1>9, <1>11, <1>12, SumFulfillFacts
  <1> QED
    BY <1>2, <1>3, <1>5, <1>8, <1>13

-----------------------------------------------------------------------------
(* What is the same of the members of an operation stays so.               *)

(* It does not depend on anybody else.                                     *)
LEMMA GreetingsStay ==
    ASSUME NEW gs, NEW ss, NEW hs, NEW ts, NEW to, GreetingsSame(gs, ss, to),
           \A c \in to : hs[c] = gs[c] /\ ts[c] = ss[c]
    PROVE  GreetingsSame(hs, ts, to)
  BY DEF GreetingsSame

(* A name that was drawn stays one.                                        *)
LEMMA OldGrows ==
    ASSUME NEW dr, NEW dr2, Grows(dr, dr2), NEW n, \E e \in Client : n \in Drawn(dr, e)
    PROVE  IsOld(n, dr2)
  BY DrawnGrows DEF IsOld

(* Nor does it for a packet, however much has been drawn since.            *)
LEMMA PacketStays ==
    ASSUME NEW gs, NEW ss, NEW hs, NEW ts, NEW pkt, NEW to, NEW dr, NEW dr2, Grows(dr, dr2),
           PacketSame(gs, ss, pkt, to, dr),
           \A c \in to : hs[c].ske.sid = gs[c].ske.sid,
           \A c \in to : ts[c].sid = ss[c].sid,
           IsUpflow(pkt) => \A c \in to : ts[c] = ss[c]
    PROVE  PacketSame(hs, ts, pkt, to, dr2)
  <1>1. PICK sp : sp = pkt.summary[1]
    OBVIOUS
  <1>2. CASE IsUpflow(pkt)
    <2>1. UpSame(ss, pkt, sp, to, dr)
      BY <1>1, <1>2 DEF PacketSame
    <2>2. IsOld(sp.n, dr2)
      BY <2>1, OldGrows DEF UpSame, IsOld
    <2>3. UpSame(ts, pkt, sp, to, dr2)
      BY <1>2, <2>1, <2>2 DEF UpSame
    <2> QED
      BY <1>1, <1>2, <2>3 DEF PacketSame
  <1>3. CASE ~ IsUpflow(pkt)
    <2>1. DownSame(gs, ss, pkt, sp, to, dr)
      BY <1>1, <1>3 DEF PacketSame
    <2>2. IsOld(sp.sid[1], dr2)
      BY <2>1, OldGrows DEF DownSame, IsOld
    <2>3. DownSame(hs, ts, pkt, sp, to, dr2)
      BY <2>1, <2>2 DEF DownSame
    <2> QED
      BY <1>1, <1>3, <2>3 DEF PacketSame
  <1> QED
    BY <1>2, <1>3

(* A member that takes part in one tale does so in the other.              *)
LEMMA SameTakes ==
    ASSUME NEW g, NEW s, NEW to, TakesPart(g, to), SameGreeting(g, s), IsSummary(s), s.prev # to
    PROVE  Takes(s, to)
  BY DEF TakesPart, SameGreeting, Takes

(* The same, of one that has not sent the result.                          *)
LEMMA SameWaits ==
    ASSUME NEW g, NEW s, NEW to, HasNoResult(g, to), SameGreeting(g, s), IsSummary(s),
           s.prev # to
    PROVE  SumWaits(s, to)
  BY DEF HasNoResult, TakesPart, SameGreeting, Takes, SumWaits

(* A packet of one tale is one of the other.                               *)
LEMMA SamePacket ==
    ASSUME NEW gs, NEW ss, NEW pkt, NEW to, NEW dr, PacketSame(gs, ss, pkt, to, dr),
           pkt.members = to, NEW sp, sp = pkt.summary[1]
    PROVE  /\ IsPacket(sp, to, pkt.init)
           /\ IsUpflow(pkt) => Summary!IsUpflow(sp) /\ UpSame(ss, pkt, sp, to, dr)
           /\ ~ IsUpflow(pkt) => Summary!IsDownflow(sp) /\ DownSame(gs, ss, pkt, sp, to, dr)
  BY DEF PacketSame, UpSame, DownSame, IsPacket, Summary!IsUpflow, Summary!IsDownflow,
         Summary!IsGreet

(* Both packets have the same sender.                                      *)
LEMMA SameSource ==
    ASSUME NEW gs, NEW ss, NEW pkt, NEW to, NEW dr, PacketSame(gs, ss, pkt, to, dr),
           NEW sp, sp = pkt.summary[1]
    PROVE  sp.src = pkt.src
  BY DEF PacketSame

(* A session id with keys is not that of a greeting without.               *)
LEMMA SidFacts ==
    ASSUME NEW nonces PROVE ComputeSid(nonces) # NoValue
  BY DEF ComputeSid, NoValue

-----------------------------------------------------------------------------
(* An upflow: gs and ss are the greetings before it, hs and ts after it.   *)

(* Who is not addressed.                                                   *)
AddsNothing(g, s, h, t, sp, to, answer) ==
    /\ IsSummary(t) /\ SameGreeting(h, t)
    /\ t.n = sp.n /\ t.sid = s.sid /\ h.ske = g.ske /\ answer = <<>> /\ t.prev # to

(* Who is not addressed stays as it is in both, and does not answer.       *)
LEMMA UpflowSameOthers ==
    ASSUME NEW gs, NEW ss, NEW hs, NEW ts, NEW pkt, NEW to, NEW dr, Upward(gs, pkt, to, dr),
           GreetingsSame(gs, ss, to), PacketSame(gs, ss, pkt, to, dr),
           NEW sp, sp = pkt.summary[1], NEW d \in to, d # Head(pkt.route), NEW fresh,
           hs[d] = Recv(gs[d], d, pkt, fresh), ts[d] = Summary!Recv(ss[d], d, sp, pkt.init)
    PROVE  AddsNothing(gs[d], ss[d], hs[d], ts[d], sp, to,
                       Summary!RecvAnswer(ss[d], d, sp, pkt.init))
  <1>1. /\ pkt.members = to /\ IsUpflow(pkt)
        /\ HasNoResult(gs[d], to) /\ MessageVerifies(gs[d].ske, pkt)
    <2>1. Waits(gs[d], d, to, dr)
      BY DEF Upward, Collected
    <2> QED
      BY <2>1, UpwardVerifies DEF Upward, Collected, IsUpflow, Waits, HasNoResult
  <1>2. PICK g, h, s, t : g = gs[d] /\ h = hs[d] /\ s = ss[d] /\ t = ts[d]
    OBVIOUS
  <1>3. HasNoResult(h, to) /\ h.ske = g.ske /\ h.next = to
    BY <1>1, <1>2, RecvOthersUpflow
  <1>4. /\ IsPacket(sp, to, pkt.init) /\ Summary!IsUpflow(sp)
        /\ UpSame(ss, pkt, sp, to, dr)
    BY <1>1, SamePacket
  <1>5. SameGreeting(g, s) /\ IsSummary(s) /\ s.prev # to
    BY <1>2 DEF GreetingsSame
  <1>6. SumWaits(s, to)
    BY <1>1, <1>2, <1>5, SameWaits
  <1>7. sp.route = pkt.route /\ (s.next # {} => s.n = sp.n)
    BY <1>2, <1>4 DEF UpSame
  <1>8. /\ SumWaits(t, to) /\ t.n = IsFirst(s, sp) /\ t.next = to
        /\ t.mem = s.mem /\ t.sid = s.sid /\ t.authd = s.authd
        /\ Summary!RecvAnswer(s, d, sp, pkt.init) = <<>>
    BY <1>2, <1>4, <1>6, <1>7, SumOthersUpflow
  <1>9. t.n = sp.n
    BY <1>7, <1>8 DEF IsFirst
  <1>10. SameGreeting(h, t)
    BY <1>3, <1>5, <1>8 DEF SameGreeting, HasNoResult, TakesPart, SumWaits, Takes
  <1> QED
    BY <1>2, <1>3, <1>8, <1>9, <1>10 DEF SumWaits, Takes, AddsNothing

(* Who is, with its contribution.                                          *)
UpSid(s, t, sp, g, h, route) ==
    IF Len(route) = 1 THEN t.sid = <<sp.n, sp.n>> /\ h.ske.sid = ComputeSid(h.ske.nonces)
    ELSE t.sid = s.sid /\ h.ske.sid = g.ske.sid
AddsIts(g, s, h, t, d, sp, to, route, answer) ==
    /\ IsSummary(t) /\ SameGreeting(h, t) /\ t.prev # to
    /\ t.n = sp.n /\ UpSid(s, t, sp, g, h, route) /\ SumAnswersUp(t, d, sp, to, answer)

(* Who is addressed contributes in both; the last one of the route learns  *)
(* the session id.                                                         *)
LEMMA UpflowSameHead ==
    ASSUME NEW gs, NEW ss, NEW hs, NEW ts, NEW pkt, NEW to, NEW dr, Upward(gs, pkt, to, dr),
           GreetingsSame(gs, ss, to), PacketSame(gs, ss, pkt, to, dr),
           NEW sp, sp = pkt.summary[1], NEW d, d = Head(pkt.route), NEW fresh,
           hs[d] = Recv(gs[d], d, pkt, fresh), ts[d] = Summary!Recv(ss[d], d, sp, pkt.init)
    PROVE  AddsIts(gs[d], ss[d], hs[d], ts[d], d, sp, to, pkt.route,
                   Summary!RecvAnswer(ss[d], d, sp, pkt.init))
  <1>0. /\ d \in to /\ d \in Range(pkt.route) /\ pkt.src # d
        /\ pkt.members = to /\ IsUpflow(pkt)
    BY RouteTail DEF Upward, Collected, IsUpflow
  <1>1. /\ HasNoResult(gs[d], to) /\ MessageVerifies(gs[d].ske, pkt)
        /\ IsSke(gs[d].ske) /\ gs[d].ske.privKey = NoValue
    <2>1. Waits(gs[d], d, to, dr) /\ gs[d].ske.privKey = NoValue
      BY <1>0 DEF Upward, Collected
    <2> QED
      BY <1>0, <2>1, UpwardVerifies DEF Waits, HasNoResult, TakesPart
  <1>2. PICK g, h, s, t, k : /\ g = gs[d] /\ h = hs[d] /\ s = ss[d] /\ t = ts[d]
                             /\ k = SkeUpflow(gs[d].ske, d, pkt, fresh)
    OBVIOUS
  <1>3. HasAdded(h, to, CliquesUpflow(g.cliques, d, pkt, fresh), k)
    BY <1>0, <1>1, <1>2, RecvUpflow
  <1>4. /\ k.members = to
        /\ Len(pkt.route) = 1 => k.sid = ComputeSid(k.nonces) /\ k.authd = {d}
        /\ Len(pkt.route) # 1 => k.sid = g.ske.sid /\ k.authd = g.ske.authd
    BY <1>0, <1>1, <1>2, SkeUpflowFacts
  <1>5. /\ IsPacket(sp, to, pkt.init) /\ Summary!IsUpflow(sp) /\ sp.src = pkt.src
        /\ UpSame(ss, pkt, sp, to, dr)
    BY <1>0, SamePacket, SameSource
  <1>6. SameGreeting(g, s) /\ IsSummary(s) /\ s.prev # to
    BY <1>0, <1>2 DEF GreetingsSame
  <1>7. SumWaits(s, to)
    BY <1>1, <1>2, <1>6, SameWaits
  <1>8. sp.route = pkt.route /\ (s.next # {} => s.n = sp.n) /\ IsOld(sp.n, dr)
    BY <1>0, <1>2, <1>5 DEF UpSame
  <1>9. IsFirst(s, sp) = sp.n
    BY <1>8 DEF IsFirst
  <1>10. /\ SumWaits(t, to) /\ t.n = sp.n /\ t.next = to /\ t.mem = to
         /\ Len(pkt.route) = 1 => t.sid = <<sp.n, sp.n>> /\ t.authd = {d}
         /\ Len(pkt.route) # 1 => t.sid = s.sid /\ t.authd = s.authd
         /\ SumAnswersUp(t, d, sp, to, Summary!RecvAnswer(s, d, sp, pkt.init))
    <2>1. PICK first : first = pkt.init
      OBVIOUS
    <2>2. t = Summary!Recv(s, d, sp, first) /\ IsPacket(sp, to, first)
      BY <1>2, <1>5, <2>1
    <2>3. d = Head(sp.route) /\ sp.src # d
      BY <1>0, <1>5, <1>8
    <2>4. t.next = to /\ SumContributes(s, t, d, sp, to, Summary!RecvAnswer(s, d, sp, first))
      BY <1>0, <1>5, <1>7, <2>2, <2>3, SumUpflow
    <2> QED
      BY <1>8, <1>9, <2>1, <2>4 DEF SumContributes
  <1>11. UpSid(s, t, sp, g, h, pkt.route)
    BY <1>3, <1>4, <1>10 DEF UpSid, HasAdded
  <1>12. t.sid = Summary!NoSid <=> h.ske.sid = NoValue
    <2>1. CASE Len(pkt.route) = 1
      <3>1. <<sp.n, sp.n>> # Summary!NoSid
        BY <1>8, OldFacts DEF Summary!NoSid
      <3>2. h.ske.sid # NoValue
        BY <1>11, <2>1, SidFacts DEF UpSid
      <3> QED
        BY <1>11, <2>1, <3>1, <3>2 DEF UpSid
    <2>2. CASE Len(pkt.route) # 1
      BY <1>6, <1>11, <2>2 DEF UpSid, SameGreeting
    <2> QED
      BY <2>1, <2>2
  <1>13. SameGreeting(h, t)
    <2>1. t.authd = h.ske.authd
      BY <1>3, <1>4, <1>6, <1>10 DEF HasAdded, SameGreeting
    <2>2. h.recvOwn = FALSE /\ h.quit = FALSE /\ h.fin = 0 /\ h.err = FALSE /\ h.next = to
      BY <1>3 DEF HasAdded
    <2>3. t.recvOwn = FALSE /\ t.quit = FALSE /\ t.fin = 0 /\ t.err = FALSE /\ t.next = to
      BY <1>10 DEF SumWaits, Takes
    <2>4. t.mem = h.ske.members
      BY <1>3, <1>4, <1>10 DEF HasAdded
    <2> QED
      BY <1>12, <2>1, <2>2, <2>3, <2>4 DEF SameGreeting
  <1> QED
    BY <1>0, <1>2, <1>10, <1>11, <1>13 DEF SumWaits, Takes, AddsIts

(* What is sent on says the same.                                          *)
LEMMA UpflowSame ==
    ASSUME NEW gs, NEW ss, NEW hs, NEW ts, NEW pkt, NEW to, to \subseteq Client,
           drawn \in [Client -> Nat], Upward(gs, pkt, to, drawn),
           GreetingsSame(gs, ss, to), PacketSame(gs, ss, pkt, to, drawn),
           \A d \in to : hs[d] = Recv(gs[d], d, pkt, Fresh(d)),
           \A d \in to : ts[d] = Summary!Recv(ss[d], d, pkt.summary[1], pkt.init),
           NEW c, c = Head(pkt.route), MayDraw(c),
           NEW dr2, Grows(drawn, dr2), dr2[c] = drawn[c] + 1,
           NEW a, a = AnswerTo(hs[c], c, pkt, ss[c])
    PROVE  GreetingsSame(hs, ts, to) /\ PacketSame(hs, ts, a, to, dr2)
  <1>1. PICK sp : sp = pkt.summary[1]
    OBVIOUS
  <1>2. pkt.members = to /\ IsUpflow(pkt) /\ pkt.route \in Seq(Client)
    BY DEF Upward, Collected, IsUpflow
  <1>3. UpSame(ss, pkt, sp, to, drawn)
    BY <1>1, <1>2, SamePacket
  <1>4. ASSUME NEW d \in to, d # c
        PROVE  /\ IsSummary(ts[d]) /\ ts[d].prev # to /\ SameGreeting(hs[d], ts[d])
               /\ ts[d].n = sp.n /\ ts[d].sid = ss[d].sid /\ hs[d].ske = gs[d].ske
    <2>1. PICK fresh : hs[d] = Recv(gs[d], d, pkt, fresh)
      OBVIOUS
    <2>2. ts[d] = Summary!Recv(ss[d], d, sp, pkt.init)
      BY <1>1
    <2>3. AddsNothing(gs[d], ss[d], hs[d], ts[d], sp, to,
                      Summary!RecvAnswer(ss[d], d, sp, pkt.init))
      <3>1. d # Head(pkt.route)
        BY <1>4
      <3> QED
        BY <1>1, <2>1, <2>2, <3>1, UpflowSameOthers
    <2> QED
      BY <2>3 DEF AddsNothing
  <1>5. /\ c \in to /\ IsSummary(ts[c]) /\ ts[c].prev # to /\ SameGreeting(hs[c], ts[c])
        /\ ts[c].n = sp.n /\ UpSid(ss[c], ts[c], sp, gs[c], hs[c], pkt.route)
        /\ SumAnswersUp(ts[c], c, sp, to, Summary!RecvAnswer(ss[c], c, sp, pkt.init))
    <2>1. c \in to
      BY RouteTail DEF Upward, Collected
    <2>2. PICK fresh : hs[c] = Recv(gs[c], c, pkt, fresh)
      BY <2>1
    <2>3. ts[c] = Summary!Recv(ss[c], c, sp, pkt.init)
      BY <1>1, <2>1
    <2>4. AddsIts(gs[c], ss[c], hs[c], ts[c], c, sp, to, pkt.route,
                  Summary!RecvAnswer(ss[c], c, sp, pkt.init))
      BY <1>1, <2>2, <2>3, UpflowSameHead
    <2> QED
      BY <2>1, <2>4 DEF AddsIts
  <1>6. Upward(hs, a, to, dr2) \/ Downward(hs, a, to, dr2)
    <2>1. PICK sum : sum = ss[c]
      OBVIOUS
    <2> QED
      BY <2>1, UpflowGoesOn
  <1>7. /\ a.route = Tail(pkt.route) /\ a.members = to /\ a.src = c
        /\ a.nonces = hs[c].ske.nonces
        /\ a.summary = Summary!RecvAnswer(ss[c], c, sp, pkt.init)
    <2>1. PICK h, sum : h = hs[c] /\ sum = ss[c]
      OBVIOUS
    <2>2. AnswersUp(a, h, c, pkt)
      BY <1>2, <2>1, AnswerToUpflow
    <2>3. a.summary = SummaryAnswer(sum, c, pkt)
      BY <1>2, <2>1 DEF AnswerTo, Merge
    <2> QED
      BY <1>1, <1>2, <2>1, <2>2, <2>3 DEF AnswersUp, SummaryAnswer
  <1>8. \A d \in to : /\ IsSummary(ts[d]) /\ SameGreeting(hs[d], ts[d]) /\ ts[d].prev # to
                      /\ ts[d].n = sp.n
    BY <1>4, <1>5
  <1>9. Tail(pkt.route) = <<>> <=> Len(pkt.route) = 1
    BY RouteTail DEF Upward, Collected
  <1>10. \A d \in to : ss[d].sid # <<sp.n, sp.n>>
    BY <1>3 DEF UpSame
  <1>11. IsOld(sp.n, dr2) /\ sp.route = pkt.route
    BY <1>3, OldGrows DEF UpSame, IsOld
  <1>12. CASE Len(pkt.route) = 1
    <2>1. ts[c].sid = <<sp.n, sp.n>> /\ hs[c].ske.sid = ComputeSid(hs[c].ske.nonces)
      BY <1>5, <1>12 DEF UpSid
    <2>2. a.summary = <<Summary!DownPacket(<<sp.n, sp.n>>, c, to)>>
      BY <1>5, <1>7, <1>11, <1>12, <2>1 DEF SumAnswersUp
    <2>3. ~ IsUpflow(a)
      BY <1>7, <1>9, <1>12 DEF IsUpflow
    <2>4. Downward(hs, a, to, dr2)
      BY <1>6, <2>3 DEF Upward, Collected, IsUpflow
    <2>5. \A d \in to : d # c => hs[d].ske.sid # ComputeSid(a.nonces)
      BY <1>7, <2>4 DEF Downward, Complemented
    <2>6. \A d \in to : ts[d].sid = <<sp.n, sp.n>> <=> d = c
      BY <1>4, <1>10, <2>1
    <2>7. \A d \in to : hs[d].ske.sid = ComputeSid(a.nonces) <=> d = c
      BY <1>7, <2>1, <2>5
    <2>8. \A d, e \in to : d # c /\ e # c =>
             (ts[d].sid = ts[e].sid <=> hs[d].ske.sid = hs[e].ske.sid)
      BY <1>4 DEF GreetingsSame
    <2>9. \A d, e \in to : ts[d].sid = ts[e].sid <=> hs[d].ske.sid = hs[e].ske.sid
      BY <2>6, <2>7, <2>8
    <2>10. GreetingsSame(hs, ts, to)
      BY <1>8, <2>9 DEF GreetingsSame
    <2>11. PICK ap : ap = Summary!DownPacket(<<sp.n, sp.n>>, c, to)
      OBVIOUS
    <2>12. /\ Summary!IsDownflow(ap) /\ ap.src = c /\ ap.members = to
           /\ ap.sid = <<sp.n, sp.n>> /\ ap.t # "init"
      BY <2>11 DEF Summary!IsDownflow, Summary!IsUpflow, Summary!IsGreet, Summary!DownPacket
    <2>13. a.summary[1] = ap /\ a.summary = <<ap>>
      BY <2>2, <2>11
    <2>14. DownSame(hs, ts, a, ap, to, dr2)
      BY <1>11, <2>6, <2>7, <2>12 DEF DownSame
    <2>15. PacketSame(hs, ts, a, to, dr2)
      BY <1>7, <2>3, <2>12, <2>13, <2>14 DEF PacketSame
    <2> QED
      BY <2>10, <2>15
  <1>13. CASE Len(pkt.route) # 1
    <2>1. ts[c].sid = ss[c].sid /\ hs[c].ske.sid = gs[c].ske.sid
      BY <1>5, <1>13 DEF UpSid
    <2>2. a.summary = <<Summary!UpPacket(sp.n, c, Tail(pkt.route), to)>>
      BY <1>5, <1>7, <1>11, <1>13 DEF SumAnswersUp
    <2>3. IsUpflow(a)
      BY <1>7, <1>9, <1>13 DEF IsUpflow
    <2>4. \A d \in to : ts[d].sid = ss[d].sid /\ hs[d].ske.sid = gs[d].ske.sid
      BY <1>4, <2>1
    <2>5. GreetingsSame(hs, ts, to)
      BY <1>8, <2>4 DEF GreetingsSame
    <2>6. PICK ap : ap = Summary!UpPacket(sp.n, c, Tail(pkt.route), to)
      OBVIOUS
    <2>7. /\ Summary!IsUpflow(ap) /\ ap.src = c /\ ap.members = to
          /\ ap.n = sp.n /\ ap.t # "init" /\ ap.route = Tail(pkt.route)
      BY <2>6 DEF Summary!IsUpflow, Summary!UpPacket
    <2>8. a.summary[1] = ap /\ a.summary = <<ap>>
      BY <2>2, <2>6
    <2>9. UpSame(ts, a, ap, to, dr2)
      BY <1>7, <1>8, <1>10, <1>11, <2>4, <2>7 DEF UpSame
    <2>10. PacketSame(hs, ts, a, to, dr2)
      BY <1>7, <2>3, <2>7, <2>8, <2>9 DEF PacketSame
    <2> QED
      BY <2>5, <2>10
  <1> QED
    BY <1>12, <1>13

-----------------------------------------------------------------------------
(* The result and the confirmations of it.                                 *)

(* At a member that has not sent the packet.                               *)
AuthdAfter(s, c, sp) == IF s.sid = sp.sid THEN s.authd \cup {sp.src} ELSE {c, sp.src}
LearnsResult(s, h, t, c, sp, to, answer) ==
    /\ SameGreeting(h, t) /\ IsSummary(t) /\ t.prev # to /\ t.sid = sp.sid
    /\ SumAnswersDown(s, c, sp, to, answer)

(* A packet of the downflow of another member leaves a greeting the same   *)
(* in both.                                                                *)
LEMMA DownflowSameOther ==
    ASSUME NEW g, NEW s, NEW to, TakesPart(g, to), g.recvOwn \in BOOLEAN,
           SameGreeting(g, s), IsSummary(s), s.prev # to,
           NEW sp, NEW first, IsPacket(sp, to, first), Summary!IsDownflow(sp),
           s.sid = sp.sid => s.mem = to, NEW c \in to, sp.src # c, sp.sid # Summary!NoSid,
           NEW h, NEW k, NEW m, NEW own, own = g.recvOwn,
           KnowsResult(h, to, k, m, own), m.members = to,
           m.authd = AuthdAfter(s, c, sp),
           m.sid # NoValue,
           NEW t, t = Summary!Recv(s, c, sp, first)
    PROVE  LearnsResult(s, h, t, c, sp, to, Summary!RecvAnswer(s, c, sp, first))
  <1>1. Takes(s, to)
    BY SameTakes
  <1>2. s.recvOwn = g.recvOwn
    BY DEF SameGreeting
  <1>3. PICK fin : fin = IF s.recvOwn /\ m.authd # {} /\ to \subseteq m.authd THEN 1 ELSE 0
    OBVIOUS
  <1>4. /\ SumKnows(t, to, sp.sid, m.authd, s.recvOwn, fin)
        /\ SumAnswersDown(s, c, sp, to, Summary!RecvAnswer(s, c, sp, first))
    BY <1>1, <1>2, <1>3, SumDownflow DEF AuthdAfter
  <1>5. h.fin = fin
    BY <1>2, <1>3 DEF KnowsResult, IsSessionAcknowledged
  <1>6. SameGreeting(h, t)
    BY <1>2, <1>4, <1>5 DEF SumKnows, KnowsResult, SameGreeting
  <1> QED
    BY <1>4, <1>6 DEF SumKnows, LearnsResult

(* At the one that has.                                                    *)
KnowsOwn(h, to, k, m) == KnowsResult(h, to, k, m, TRUE)
HasItBack(s, h, t, to, answer) ==
    SameGreeting(h, t) /\ IsSummary(t) /\ t.prev # to /\ t.sid = s.sid /\ answer = <<>>

(* The own packet that comes back leaves it the same in both.              *)
LEMMA DownflowSameOwn ==
    ASSUME NEW g, NEW s, NEW to, TakesPart(g, to),
           SameGreeting(g, s), IsSummary(s), s.prev # to, s.mem = to,
           NEW sp, NEW first, IsPacket(sp, to, first), Summary!IsDownflow(sp),
           NEW c \in to, sp.src = c, s.sid # Summary!NoSid,
           NEW h, NEW k, NEW m, KnowsOwn(h, to, k, m), m.members = to,
           m.authd = s.authd, m.sid # NoValue,
           NEW t, t = Summary!Recv(s, c, sp, first)
    PROVE  HasItBack(s, h, t, to, Summary!RecvAnswer(s, c, sp, first))
  <1>1. Takes(s, to)
    BY SameTakes
  <1>2. PICK fin : fin = IF Summary!IsSessionAcknowledged(s) THEN 1 ELSE 0
    OBVIOUS
  <1>3. /\ SumKnows(t, to, s.sid, s.authd, TRUE, fin)
        /\ Summary!RecvAnswer(s, c, sp, first) = <<>>
    BY <1>1, <1>2, SumOwn
  <1>4. h.fin = fin
    BY <1>2 DEF KnowsOwn, KnowsResult, IsSessionAcknowledged, Summary!IsSessionAcknowledged
  <1>5. SameGreeting(h, t)
    BY <1>3, <1>4 DEF SumKnows, KnowsOwn, KnowsResult, SameGreeting
  <1> QED
    BY <1>3, <1>5 DEF SumKnows, HasItBack

(* The result: everybody knows it afterwards, and the others confirm it.   *)
ResultSame(hs, ts, sp, nonces, c, to) ==
    /\ SameGreeting(hs[c], ts[c]) /\ IsSummary(ts[c]) /\ ts[c].prev # to
    /\ ts[c].sid = sp.sid /\ hs[c].ske.sid = ComputeSid(nonces)

(* The result leaves every member the same in both; all but its sender     *)
(* answer.                                                                 *)
LEMMA ResultSameMember ==
    ASSUME NEW gs, NEW ss, NEW hs, NEW ts, NEW pkt, NEW to, NEW dr, Downward(gs, pkt, to, dr),
           GreetingsSame(gs, ss, to), PacketSame(gs, ss, pkt, to, dr),
           Receives(gs, hs, to, pkt), NEW sp, sp = pkt.summary[1],
           \A d \in to : ts[d] = Summary!Recv(ss[d], d, sp, pkt.init),
           NEW c \in to
    PROVE  /\ ResultSame(hs, ts, sp, pkt.nonces, c, to)
           /\ c # pkt.src => Summary!RecvAnswer(ss[c], c, sp, pkt.init)
                                = <<Summary!ConfirmPacket(sp.sid, c, to)>>
           /\ c = pkt.src => Summary!RecvAnswer(ss[c], c, sp, pkt.init) = <<>>
  <1>1. PICK g, h, s, t : g = gs[c] /\ h = hs[c] /\ s = ss[c] /\ t = ts[c]
    OBVIOUS
  <1>2. /\ pkt.members = to /\ ~ IsUpflow(pkt) /\ pkt.route = <<>>
        /\ TakesPart(g, to) /\ g.recvOwn = FALSE
    BY <1>1 DEF Downward, Complemented, Waits, IsUpflow
  <1>3. /\ IsPacket(sp, to, pkt.init) /\ sp.src = pkt.src
        /\ Summary!IsDownflow(sp) /\ DownSame(gs, ss, pkt, sp, to, dr)
    BY <1>2, SamePacket, SameSource
  <1>4. SameGreeting(g, s) /\ IsSummary(s) /\ s.prev # to
    BY <1>1 DEF GreetingsSame
  <1>5. s.sid = sp.sid <=> g.ske.sid = ComputeSid(pkt.nonces)
    BY <1>1, <1>3 DEF DownSame
  <1>6. sp.sid # Summary!NoSid
    <2>1. IsOld(sp.sid[1], dr)
      BY <1>3 DEF DownSame
    <2> QED
      BY <2>1, OldFacts DEF Summary!NoSid
  <1>7. CASE c = pkt.src
    <2>1. PICK k, m : k = g.cliques /\ m = g.ske
      OBVIOUS
    <2>2. KnowsResult(h, to, k, m, TRUE)
      BY <1>1, <1>7, <2>1, ResultReachesSender
    <2>3. /\ Keyed(gs[c].cliques, m, c, dr) /\ m.members = to /\ m.nonces = pkt.nonces
      BY <1>1, <1>7, <2>1 DEF Downward, Complemented
    <2>4. m.sid = ComputeSid(pkt.nonces)
      BY <2>3 DEF Keyed
    <2>5. s.sid = sp.sid /\ s.mem = to /\ m.authd = s.authd
      BY <1>4, <1>5, <2>1, <2>3, <2>4 DEF SameGreeting
    <2>6. /\ SameGreeting(h, t) /\ IsSummary(t) /\ t.prev # to /\ t.sid = s.sid
          /\ Summary!RecvAnswer(s, c, sp, pkt.init) = <<>>
      <3>1. m.sid # NoValue
        BY <2>4, SidFacts
      <3>2. t = Summary!Recv(s, c, sp, pkt.init) /\ s.sid # Summary!NoSid /\ sp.src = c
        BY <1>1, <1>3, <1>6, <1>7, <2>5
      <3>3. PICK first : first = pkt.init
        OBVIOUS
      <3>4. /\ t = Summary!Recv(s, c, sp, first) /\ IsPacket(sp, to, first)
            /\ KnowsOwn(h, to, k, m)
        BY <1>3, <2>2, <3>2, <3>3 DEF KnowsOwn
      <3>5. HasItBack(s, h, t, to, Summary!RecvAnswer(s, c, sp, first))
        BY <1>2, <1>3, <1>4, <2>3, <2>5, <3>1, <3>2, <3>3, <3>4, DownflowSameOwn
      <3> QED
        BY <3>3, <3>5 DEF HasItBack
    <2>7. h.ske = m
      BY <2>2 DEF KnowsResult
    <2> QED
      BY <1>1, <1>7, <2>4, <2>5, <2>6, <2>7 DEF ResultSame
  <1>8. CASE c # pkt.src
    <2>1. HasResult(gs[c], hs[c], gs[pkt.src].cliques, pkt, to, c, dr)
      BY <1>8, ResultReachesMember
    <2>2. PICK k, m : k = h.cliques /\ m = h.ske
      OBVIOUS
    <2>3. /\ KnowsResult(h, to, k, m, FALSE) /\ Keyed(h.cliques, m, c, dr) /\ m.members = to
          /\ m.authd = {c, pkt.src} /\ m.nonces = pkt.nonces
      BY <1>1, <2>1, <2>2 DEF HasResult
    <2>4. m.sid = ComputeSid(pkt.nonces)
      BY <2>3 DEF Keyed
    <2>5. s.sid # sp.sid
      <3>1. g.ske.sid # ComputeSid(pkt.nonces)
        BY <1>1, <1>8 DEF Downward, Complemented
      <3> QED
        BY <1>5, <3>1
    <2>6. /\ SameGreeting(h, t) /\ IsSummary(t) /\ t.prev # to /\ t.sid = sp.sid
          /\ SumAnswersDown(s, c, sp, to, Summary!RecvAnswer(s, c, sp, pkt.init))
      <3>1. m.sid # NoValue
        BY <2>4, SidFacts
      <3>2. t = Summary!Recv(s, c, sp, pkt.init) /\ sp.src # c
        BY <1>1, <1>3, <1>8
      <3>3. m.authd = AuthdAfter(s, c, sp)
        BY <1>3, <2>3, <2>5 DEF AuthdAfter
      <3>4. PICK first, own : first = pkt.init /\ own = g.recvOwn
        OBVIOUS
      <3>5. KnowsResult(h, to, k, m, own) /\ g.recvOwn \in BOOLEAN
        BY <1>2, <2>3, <3>4
      <3>6. t = Summary!Recv(s, c, sp, first) /\ IsPacket(sp, to, first)
        BY <1>3, <3>2, <3>4
      <3>7. s.sid = sp.sid => s.mem = to
        BY <2>5
      <3>8. LearnsResult(s, h, t, c, sp, to, Summary!RecvAnswer(s, c, sp, first))
        BY <1>2, <1>3, <1>4, <1>6, <2>3, <3>1, <3>2, <3>3, <3>4, <3>5, <3>6, <3>7,
           DownflowSameOther
      <3> QED
        BY <3>4, <3>8 DEF LearnsResult
    <2> QED
      BY <1>1, <1>8, <2>2, <2>4, <2>5, <2>6 DEF ResultSame, SumAnswersDown
  <1> QED
    BY <1>7, <1>8

(* So the greetings go on the same, and so do the confirmations.           *)
SumSettled(ts, to, dr) ==
    /\ \A c \in to : IsOld(ts[c].sid[1], dr)
    /\ \A c, d \in to : ts[c].sid = ts[d].sid

(* So the greetings of all stay the same, and so do the confirmations they *)
(* send.                                                                   *)
LEMMA ResultSameAll ==
    ASSUME NEW gs, NEW ss, NEW hs, NEW ts, NEW pkt, NEW to, NEW dr, Downward(gs, pkt, to, dr),
           GreetingsSame(gs, ss, to), PacketSame(gs, ss, pkt, to, dr),
           Receives(gs, hs, to, pkt),
           \A d \in to : ts[d] = Summary!Recv(ss[d], d, pkt.summary[1], pkt.init)
    PROVE  /\ GreetingsSame(hs, ts, to) /\ SumSettled(ts, to, dr)
           /\ \A c \in to : c # pkt.src =>
                 PacketSame(hs, ts, AnswerTo(hs[c], c, pkt, ss[c]), to, dr)
  <1>1. PICK sp : sp = pkt.summary[1]
    OBVIOUS
  <1>2. pkt.members = to /\ ~ IsUpflow(pkt)
    BY DEF Downward, IsUpflow
  <1>3. IsOld(sp.sid[1], dr)
    BY <1>1, <1>2, SamePacket DEF DownSame
  <1>4. \A c \in to :
           /\ ResultSame(hs, ts, sp, pkt.nonces, c, to)
           /\ c # pkt.src => Summary!RecvAnswer(ss[c], c, sp, pkt.init)
                                = <<Summary!ConfirmPacket(sp.sid, c, to)>>
    BY <1>1, ResultSameMember
  <1>5. GreetingsSame(hs, ts, to)
    BY <1>4 DEF GreetingsSame, ResultSame
  <1>6. \A c \in to : ts[c].sid = sp.sid /\ hs[c].ske.sid = ComputeSid(pkt.nonces)
    BY <1>4 DEF ResultSame
  <1>7. ASSUME NEW c \in to, c # pkt.src, NEW a, a = AnswerTo(hs[c], c, pkt, ss[c])
        PROVE  PacketSame(hs, ts, a, to, dr)
    <2>1. PICK h, sum : h = hs[c] /\ sum = ss[c]
      OBVIOUS
    <2>2. AnswersDown(a, h, c, pkt)
      BY <1>2, <1>7, <2>1, AnswerToDownflow
    <2>3. a.summary = SummaryAnswer(sum, c, pkt)
      BY <1>2, <1>7, <2>1 DEF AnswerTo, MergeConfirmation
    <2>4. PICK ap : ap = Summary!ConfirmPacket(sp.sid, c, to)
      OBVIOUS
    <2>5. a.summary = <<ap>> /\ a.summary[1] = ap
      BY <1>1, <1>4, <1>7, <2>1, <2>3, <2>4 DEF SummaryAnswer
    <2>6. /\ Summary!IsDownflow(ap) /\ ap.src = c /\ ap.members = to
          /\ ap.sid = sp.sid /\ ap.t # "init"
      BY <2>4 DEF Summary!IsDownflow, Summary!IsUpflow, Summary!IsGreet, Summary!ConfirmPacket
    <2>7. /\ a.src = c /\ a.members = to /\ ~ IsUpflow(a) /\ a.nonces = pkt.nonces
      BY <1>2, <2>2 DEF AnswersDown, IsUpflow
    <2>8. DownSame(hs, ts, a, ap, to, dr)
      BY <1>3, <1>6, <2>6, <2>7 DEF DownSame
    <2> QED
      BY <2>5, <2>6, <2>7, <2>8 DEF PacketSame
  <1> QED
    BY <1>3, <1>5, <1>6, <1>7 DEF SumSettled

(* A confirmation: nobody's session id changes, and nobody answers.        *)
ConfirmationSame(g, s, h, t, sp, nonces, to, answer) ==
    /\ SameGreeting(h, t) /\ IsSummary(t) /\ t.prev # to
    /\ s.sid = sp.sid /\ t.sid = sp.sid /\ h.ske.sid = g.ske.sid
    /\ answer = <<>> /\ g.ske.sid = ComputeSid(nonces)

(* A confirmation leaves every member the same in both, and is not         *)
(* answered.                                                               *)
LEMMA ConfirmationSameMember ==
    ASSUME NEW gs, NEW ss, NEW hs, NEW ts, NEW packets, NEW to, NEW dr,
           Confirming(gs, packets, to, dr), NEW pkt \in packets,
           GreetingsSame(gs, ss, to), PacketSame(gs, ss, pkt, to, dr),
           Receives(gs, hs, to, pkt), NEW sp, sp = pkt.summary[1],
           \A d \in to : ts[d] = Summary!Recv(ss[d], d, sp, pkt.init),
           NEW c \in to
    PROVE  ConfirmationSame(gs[c], ss[c], hs[c], ts[c], sp, pkt.nonces, to,
                            Summary!RecvAnswer(ss[c], c, sp, pkt.init))
  <1>1. PICK g, h, s, t, own : /\ g = gs[c] /\ h = hs[c] /\ s = ss[c] /\ t = ts[c]
                               /\ own = g.recvOwn
    OBVIOUS
  <1>2. /\ pkt.members = to /\ ~ IsUpflow(pkt) /\ pkt.src \in to
        /\ pkt.nonces = gs[pkt.src].ske.nonces
    BY DEF Confirming, Confirms, IsUpflow
  <1>3. TakesPart(g, to) /\ own \in BOOLEAN
    BY <1>1, SettledOnesWait DEF Confirming, Settled
  <1>4. /\ IsPacket(sp, to, pkt.init) /\ sp.src = pkt.src
        /\ Summary!IsDownflow(sp) /\ DownSame(gs, ss, pkt, sp, to, dr)
    BY <1>2, SamePacket, SameSource
  <1>5. SameGreeting(g, s) /\ IsSummary(s) /\ s.prev # to
    BY <1>1 DEF GreetingsSame
  <1>6. /\ g.ske.members = to /\ g.ske.authd = {c} \cup Heard(gs, to)
        /\ g.ske.nonces = pkt.nonces /\ g.ske.sid = ComputeSid(g.ske.nonces)
    BY <1>1, <1>2 DEF Confirming, Settled, SameKeys, Keyed
  <1>7. s.sid = sp.sid /\ s.mem = to
    BY <1>1, <1>4, <1>5, <1>6 DEF DownSame, SameGreeting
  <1>8. sp.sid # Summary!NoSid
    <2>1. IsOld(sp.sid[1], dr)
      BY <1>4 DEF DownSame
    <2> QED
      BY <2>1, OldFacts DEF Summary!NoSid
  <1>9. PICK k, m : k = h.cliques /\ m = h.ske
    OBVIOUS
  <1>10. CASE c = pkt.src
    <2>1. HasConfirmation(gs[c], hs[c], pkt, to, c, dr, TRUE)
      BY <1>10, ConfirmationReachesSender
    <2>2. /\ KnowsResult(h, to, k, m, TRUE) /\ m.members = to /\ m.sid = g.ske.sid
          /\ m.authd = g.ske.authd \cup {pkt.src}
      BY <1>1, <1>9, <2>1 DEF HasConfirmation
    <2>3. m.authd = s.authd
      BY <1>5, <1>6, <1>10, <2>2 DEF SameGreeting
    <2>4. m.sid # NoValue
      BY <1>6, <2>2, SidFacts
    <2>5. t = Summary!Recv(s, c, sp, pkt.init) /\ s.sid # Summary!NoSid /\ sp.src = c
      BY <1>1, <1>4, <1>7, <1>8, <1>10
    <2>6. /\ SameGreeting(h, t) /\ IsSummary(t) /\ t.prev # to /\ t.sid = s.sid
          /\ Summary!RecvAnswer(s, c, sp, pkt.init) = <<>>
      <3>1. PICK first : first = pkt.init
        OBVIOUS
      <3>2. /\ t = Summary!Recv(s, c, sp, first) /\ IsPacket(sp, to, first)
            /\ KnowsOwn(h, to, k, m)
        BY <1>4, <2>2, <2>5, <3>1 DEF KnowsOwn
      <3>3. HasItBack(s, h, t, to, Summary!RecvAnswer(s, c, sp, first))
        BY <1>3, <1>4, <1>5, <1>7, <2>2, <2>3, <2>4, <2>5, <3>1, <3>2, DownflowSameOwn
      <3> QED
        BY <3>1, <3>3 DEF HasItBack
    <2> QED
      BY <1>1, <1>6, <1>7, <1>9, <2>2, <2>6 DEF ConfirmationSame
  <1>11. CASE c # pkt.src
    <2>1. HasConfirmation(gs[c], hs[c], pkt, to, c, dr, gs[c].recvOwn)
      BY <1>11, ConfirmationReachesMember
    <2>2. /\ KnowsResult(h, to, k, m, g.recvOwn) /\ m.members = to /\ m.sid = g.ske.sid
          /\ m.authd = g.ske.authd \cup {pkt.src}
      BY <1>1, <1>9, <2>1 DEF HasConfirmation
    <2>3. m.authd = AuthdAfter(s, c, sp)
      BY <1>4, <1>5, <1>7, <2>2 DEF SameGreeting, AuthdAfter
    <2>4. m.sid # NoValue
      BY <1>6, <2>2, SidFacts
    <2>5. t = Summary!Recv(s, c, sp, pkt.init) /\ sp.src # c /\ g.recvOwn \in BOOLEAN
      BY <1>1, <1>3, <1>4, <1>11
    <2>6. /\ SameGreeting(h, t) /\ IsSummary(t) /\ t.prev # to /\ t.sid = sp.sid
          /\ SumAnswersDown(s, c, sp, to, Summary!RecvAnswer(s, c, sp, pkt.init))
      <3>1. PICK first : first = pkt.init
        OBVIOUS
      <3>2. /\ t = Summary!Recv(s, c, sp, first) /\ IsPacket(sp, to, first)
            /\ KnowsResult(h, to, k, m, own)
        BY <1>1, <1>4, <2>2, <2>5, <3>1
      <3>3. s.sid = sp.sid => s.mem = to
        BY <1>7
      <3>4. LearnsResult(s, h, t, c, sp, to, Summary!RecvAnswer(s, c, sp, first))
        BY <1>1, <1>3, <1>4, <1>5, <1>8, <2>2, <2>3, <2>4, <2>5, <3>2, <3>3,
           DownflowSameOther
      <3> QED
        BY <3>1, <3>4 DEF LearnsResult
    <2> QED
      BY <1>1, <1>6, <1>7, <1>9, <2>2, <2>6 DEF SumAnswersDown, ConfirmationSame
  <1> QED
    BY <1>10, <1>11

(* So greetings and the other packets go on the same.                      *)
LEMMA ConfirmationSameAll ==
    ASSUME NEW gs, NEW ss, NEW hs, NEW ts, NEW packets, NEW to, NEW dr,
           Confirming(gs, packets, to, dr), NEW pkt \in packets,
           GreetingsSame(gs, ss, to), \A q \in packets : PacketSame(gs, ss, q, to, dr),
           Receives(gs, hs, to, pkt),
           \A d \in to : ts[d] = Summary!Recv(ss[d], d, pkt.summary[1], pkt.init)
    PROVE  /\ GreetingsSame(hs, ts, to) /\ SumSettled(ts, to, dr)
           /\ \A c \in to : ts[c].sid = ss[c].sid
           /\ \A c \in to : hs[c].ske.sid = gs[c].ske.sid
  <1>1. PICK sp : sp = pkt.summary[1]
    OBVIOUS
  <1>2. \A c \in to :
           /\ SameGreeting(hs[c], ts[c]) /\ IsSummary(ts[c]) /\ ts[c].prev # to
           /\ ss[c].sid = sp.sid /\ ts[c].sid = sp.sid /\ hs[c].ske.sid = gs[c].ske.sid
    <2>1. /\ PacketSame(gs, ss, pkt, to, dr)
          /\ \A d \in to : ts[d] = Summary!Recv(ss[d], d, sp, pkt.init)
      BY <1>1
    <2>2. \A c \in to :
             ConfirmationSame(gs[c], ss[c], hs[c], ts[c], sp, pkt.nonces, to,
                              Summary!RecvAnswer(ss[c], c, sp, pkt.init))
      BY <1>1, <2>1, ConfirmationSameMember
    <2> QED
      BY <2>2 DEF ConfirmationSame
  <1>3. IsOld(sp.sid[1], dr)
    <2>1. pkt.members = to /\ ~ IsUpflow(pkt)
      BY DEF Confirming, Confirms, IsUpflow
    <2> QED
      BY <1>1, <2>1, SamePacket DEF DownSame
  <1>4. GreetingsSame(hs, ts, to)
    BY <1>2 DEF GreetingsSame
  <1> QED
    BY <1>2, <1>3, <1>4 DEF SumSettled

-----------------------------------------------------------------------------
(* A packet is delivered: greetings and summaries become hs and ts.        *)
SumStepTo(hs, ts, pkt, to, rest, gs, ss) ==
    /\ StepTo(hs, pkt, to, rest, gs, ss) /\ Summarized(to, hs, ts)
    /\ ts = [c \in Client |-> ts[c]]
    /\ \A c \in to : ts[c] = Summary!Recv(ss[c], c, pkt.summary[1], pkt.init)

(* A packet delivered to everybody is a step to some hs and ts.            *)
LEMMA SumDeliveredSteps ==
    ASSUME drawn \in [Client -> Nat], NEW pkt, NEW to, to \subseteq Client, NEW rest, NEW gs,
           NEW ss, Delivered(pkt, to, rest, gs, to \cup Group, ss)
    PROVE  \E hs, ts : SumStepTo(hs, ts, pkt, to, rest, gs, ss)
  <1> DEFINE hs == Reached(gs, pkt, to \cup Group)
             ts == [c \in Client |-> IF c \in to \cup Group
                                     THEN Summary!Recv(ss[c], c, pkt.summary[1], pkt.init)
                                     ELSE ss[c]]
  <1>1. StepTo(hs, pkt, to, rest, gs, ss)
    BY ReachedSteps
  <1>2. Summarized(to, hs, ts)
    BY DEF Delivered, Reached
  <1>3. /\ ts = [c \in Client |-> ts[c]]
        /\ \A c \in to : ts[c] = Summary!Recv(ss[c], c, pkt.summary[1], pkt.init)
    OBVIOUS
  <1> QED
    BY <1>1, <1>2, <1>3 DEF SumStepTo

(* Sessions stay the same while no operation ends.                         *)
LEMMA SessionsStay ==
    ASSUME SessionsSame, store' = store, session' = session, Grows(drawn, drawn')
    PROVE  SessionsSame'
  <1>1. Group' = Group
    BY DEF Group
  <1>2. \A c \in Group : IsOld(session[c].sid[1], drawn')
    BY OldGrows DEF SessionsSame, IsOld
  <1> QED
    BY <1>1, <1>2 DEF SessionsSame

(* The operation goes on.                                                  *)
LEMMA SumGoesOn ==
    ASSUME SessionsSame, StoresKeyed, proposals' = {}, NEW pkt, NEW to, to \subseteq Client,
           to # {}, NEW rest, NEW gs, NEW ss, NEW hs, NEW ts,
           SumStepTo(hs, ts, pkt, to, rest, gs, ss), \A c \in to : hs[c].fin = 0,
           GreetingsSame(hs, ts, to),
           \A q \in rest \cup Answers(gs, hs, pkt, ss) : PacketSame(hs, ts, q, to, drawn')
    PROVE  SameInv'
  <1>1. /\ store' = store /\ next' = to /\ greeting' = hs
        /\ flight' = rest \cup Answers(gs, hs, pkt, ss)
    <2>1. Handled(pkt, to, rest, gs, hs, ss)
      BY DEF SumStepTo, StepTo
    <2> QED
      BY <2>1, NotDone
  <1>2. Grows(drawn, drawn')
    BY DEF SumStepTo, StepTo
  <1>3. session' = session /\ summary' = ts
    <2>1. ~ Done(to, hs) /\ \A c \in to : hs[c].fin # 1
      BY DEF Done
    <2>2. session' = [c \in Client |-> session[c]]
      BY <2>1 DEF SumStepTo, Summarized
    <2> QED
      BY <2>1, <2>2 DEF SumStepTo, Summarized, SessionsSame
  <1>4. SessionsSame'
    BY <1>1, <1>2, <1>3, SessionsStay
  <1>5. ProposalsSame'
    BY DEF ProposalsSame
  <1>6. summary' = [c \in Client |-> summary'[c]]
    BY <1>3 DEF SumStepTo
  <1>7. OperationSame'
    BY <1>1, <1>3 DEF OperationSame
  <1> QED
    BY <1>4, <1>5, <1>6, <1>7 DEF SameInv

(* The operation ends.                                                     *)
LEMMA SumFinishes ==
    ASSUME proposals' = {}, NEW pkt, NEW to, to \subseteq Client,
           to # {}, NEW rest, NEW gs, NEW ss, NEW hs, NEW ts,
           SumStepTo(hs, ts, pkt, to, rest, gs, ss), \A c \in to : hs[c].fin = 1,
           \A c \in to : hs[c].ske.members = to, GreetingsSame(hs, ts, to),
           \A c \in to : hs[c].next = to,
           SumSettled(ts, to, drawn')
    PROVE  SameInv'
  <1>1. Done(to, hs)
    BY DEF Done
  <1>2. \A c \in to : Alone(hs[c]) <=> Cardinality(to) = 1
    BY DEF Alone
  <1>3. /\ store' = [c \in Client |-> IF c \in to THEN ResultState(hs[c]) ELSE NoStore]
        /\ next' = {} /\ flight' = {}
    BY <1>1 DEF SumStepTo, StepTo, Handled
  <1>4. /\ session' = [c \in Client |-> IF c \in to /\ Cardinality(to) # 1
                                        THEN ResultSession(ts[c]) ELSE Summary!NoSession]
        /\ summary' = [c \in Client |-> Summary!NoGreeting]
    BY <1>1, <1>2 DEF SumStepTo, Summarized
  <1>5. SessionsSame'
    <2>1. CASE Cardinality(to) = 1
      <3>1. \A c \in Client : store'[c] = NoStore /\ session'[c] = Summary!NoSession
        BY <1>2, <1>3, <1>4, <2>1 DEF ResultState
      <3>2. Group' = {}
        BY <3>1 DEF Group
      <3>3. session' = [c \in Client |-> session'[c]]
        BY <1>4
      <3> QED
        BY <3>1, <3>2, <3>3 DEF SessionsSame
    <2>2. CASE Cardinality(to) # 1
      <3>1. ASSUME NEW c \in to
            PROVE  store'[c] = [cliques |-> hs[c].cliques, ske |-> hs[c].ske]
        BY <1>2, <1>3, <2>2 DEF ResultState
      <3>2. ASSUME NEW c \in to
            PROVE  store'[c].ske.members = to /\ store'[c] # NoStore
        <4>1. NoStore.ske.members = {}
          BY DEF NoStore, NewSkeMember
        <4>2. PICK st, keys, k : st = store'[c] /\ keys = hs[c].cliques /\ k = hs[c].ske
          OBVIOUS
        <4>3. st = [cliques |-> keys, ske |-> k]
          BY <3>1, <4>2
        <4>4. k.members = to
          BY <4>2
        <4>5. st.ske.members = to
          BY <4>3, <4>4
        <4> QED
          BY <4>1, <4>2, <4>5
      <3>3. \A c \in Client \ to : store'[c] = NoStore /\ session'[c] = Summary!NoSession
        BY <1>3, <1>4
      <3>4. Group' = to
        BY <3>2, <3>3 DEF Group
      <3>5. ASSUME NEW c \in to
            PROVE  session'[c].sid = ts[c].sid /\ session'[c].members = to
        <4>1. session'[c] = [sid |-> ts[c].sid, members |-> ts[c].next]
          BY <1>4, <2>2 DEF ResultSession
        <4>2. ts[c].next = to
          BY DEF GreetingsSame, SameGreeting
        <4> QED
          BY <4>1, <4>2
      <3>6. session' = [c \in Client |-> session'[c]]
        BY <1>4
      <3>7. \A c \in to : IsOld(session'[c].sid[1], drawn')
        BY <3>5 DEF SumSettled
      <3>8. \A c, d \in to : session'[c].sid = session'[d].sid
        BY <3>5 DEF SumSettled
      <3> QED
        BY <3>2, <3>3, <3>4, <3>5, <3>6, <3>7, <3>8 DEF SessionsSame
    <2> QED
      BY <2>1, <2>2
  <1>6. ProposalsSame'
    BY DEF ProposalsSame
  <1>7. summary' = [c \in Client |-> summary'[c]]
    BY <1>4
  <1>8. OperationSame'
    BY <1>3 DEF OperationSame, GreetingsSame
  <1> QED
    BY <1>5, <1>6, <1>7, <1>8 DEF SameInv

(* The result, or a confirmation.                                          *)
LEMMA SumSettledDelivered ==
    ASSUME SessionsSame, StoresKeyed, proposals' = {},
           NEW pkt, NEW to, to \subseteq Client, pkt.src \in to, NEW rest,
           NEW gs, NEW ss, NEW hs, NEW ts, SumStepTo(hs, ts, pkt, to, rest, gs, ss),
           ~ IsUpflow(pkt), Settled(hs, to, drawn), GreetingsSame(hs, ts, to),
           SumSettled(ts, to, drawn),
           \A q \in rest \cup Answers(gs, hs, pkt, ss) : PacketSame(hs, ts, q, to, drawn)
    PROVE  SameInv'
  <1>1. drawn' = drawn
    BY DEF SumStepTo, StepTo, AnswersUpflow
  <1>2. CASE Heard(hs, to) = to
    <2>1. \A c \in to : hs[c].fin = 1
      BY <1>2, SettledOnesAreDone
    <2>2. \A c \in to : hs[c].ske.members = to /\ hs[c].next = to
      BY DEF Settled, KnowsResult
    <2> QED
      BY <1>1, <2>1, <2>2, SumFinishes
  <1>3. CASE Heard(hs, to) # to
    <2>1. \A c \in to : hs[c].fin = 0
      BY <1>3, SettledOnesWait
    <2> QED
      BY <1>1, <2>1, SumGoesOn
  <1> QED
    BY <1>2, <1>3

(* An upflow.                                                              *)
LEMMA SumUpwardDelivered ==
    ASSUME SessionsSame, StoresKeyed, drawn \in [Client -> Nat], proposals' = {},
           NEW pkt, NEW to, to \subseteq Client, NEW gs, NEW ss, NEW hs, NEW ts,
           SumStepTo(hs, ts, pkt, to, {}, gs, ss), Upward(gs, pkt, to, drawn),
           GreetingsSame(gs, ss, to), PacketSame(gs, ss, pkt, to, drawn)
    PROVE  SameInv'
  <1>1. PICK c : c = Head(pkt.route)
    OBVIOUS
  <1>2. /\ pkt.members = to /\ pkt.src \notin Range(pkt.route) /\ IsUpflow(pkt)
        /\ c \in Range(pkt.route) /\ c \in to /\ to # {}
    BY <1>1, RouteTail DEF Upward, Collected, IsUpflow
  <1>3. \A d \in to : /\ hs[d] = Recv(gs[d], d, pkt, Fresh(d))
                      /\ ts[d] = Summary!Recv(ss[d], d, pkt.summary[1], pkt.init)
    BY DEF SumStepTo, StepTo
  <1>4. \A d \in to : hs[d].fin = 0
    <2>1. \A d \in to : GoesOn(hs[d])
      BY <1>1, <1>3, UpflowAddsTo
    <2> QED
      BY <2>1 DEF GoesOn
  <1>5. Answering(gs, pkt) = {c} /\ AnswersUpflow(gs[c], c, pkt)
    <2>1. gs[c].quit = FALSE
      BY <1>2 DEF Upward, Collected, Waits, TakesPart
    <2> QED
      BY <1>1, <1>2, <2>1 DEF Answering, AnswersUpflow, AnswersDownflow, IsFor
  <1>6. PICK a : a = AnswerTo(hs[c], c, pkt, ss[c])
    OBVIOUS
  <1>7. MayDraw(c) /\ drawn'[c] = drawn[c] + 1 /\ Grows(drawn, drawn')
    BY <1>2, <1>5 DEF SumStepTo, StepTo
  <1>8. GreetingsSame(hs, ts, to) /\ PacketSame(hs, ts, a, to, drawn')
    BY <1>1, <1>3, <1>6, <1>7, UpflowSame
  <1>9. \A q \in {} \cup Answers(gs, hs, pkt, ss) : PacketSame(hs, ts, q, to, drawn')
    BY <1>5, <1>6, <1>8 DEF Answers
  <1> QED
    BY <1>2, <1>4, <1>8, <1>9, SumGoesOn

(* The result.                                                             *)
LEMMA SumDownwardDelivered ==
    ASSUME SessionsSame, StoresKeyed, proposals' = {},
           NEW pkt, NEW to, to \subseteq Client, NEW gs, NEW ss, NEW hs, NEW ts,
           SumStepTo(hs, ts, pkt, to, {}, gs, ss), Downward(gs, pkt, to, drawn),
           GreetingsSame(gs, ss, to), PacketSame(gs, ss, pkt, to, drawn)
    PROVE  SameInv'
  <1>1. Receives(gs, hs, to, pkt)
    BY StepReceives DEF SumStepTo
  <1>2. Settled(hs, to, drawn) /\ pkt.src \in to
    BY <1>1, ResultSettles
  <1>3. ~ IsUpflow(pkt) /\ pkt.members = to
    BY DEF Downward, IsUpflow
  <1>4. \A d \in to : ts[d] = Summary!Recv(ss[d], d, pkt.summary[1], pkt.init)
    BY DEF SumStepTo
  <1>5. /\ GreetingsSame(hs, ts, to) /\ SumSettled(ts, to, drawn)
        /\ \A c \in to : c # pkt.src =>
              PacketSame(hs, ts, AnswerTo(hs[c], c, pkt, ss[c]), to, drawn)
    BY <1>1, <1>4, ResultSameAll
  <1>6. \A c \in Answering(gs, pkt) : c \in to /\ c # pkt.src
    BY <1>3 DEF Answering, AnswersUpflow, AnswersDownflow, IsFor
  <1>7. \A q \in {} \cup Answers(gs, hs, pkt, ss) : PacketSame(hs, ts, q, to, drawn)
    BY <1>5, <1>6 DEF Answers
  <1> QED
    BY <1>2, <1>3, <1>5, <1>7, SumSettledDelivered

(* A confirmation.                                                         *)
LEMMA SumConfirmationDelivered ==
    ASSUME SessionsSame, StoresKeyed, proposals' = {}, drawn \in [Client -> Nat],
           NEW packets, NEW pkt \in packets, NEW to, to \subseteq Client,
           NEW gs, NEW ss, NEW hs, NEW ts,
           SumStepTo(hs, ts, pkt, to, packets \ {pkt}, gs, ss),
           Confirming(gs, packets, to, drawn),
           GreetingsSame(gs, ss, to), \A q \in packets : PacketSame(gs, ss, q, to, drawn)
    PROVE  SameInv'
  <1>1. Receives(gs, hs, to, pkt)
    BY StepReceives DEF SumStepTo
  <1>2. Settled(hs, to, drawn) /\ pkt.src \in to
    BY <1>1, ConfirmationSettles DEF Confirming, Confirms
  <1>3. ~ IsUpflow(pkt) /\ pkt.members = to
    BY DEF Confirming, Confirms, IsUpflow
  <1>4. \A d \in to : ts[d] = Summary!Recv(ss[d], d, pkt.summary[1], pkt.init)
    BY DEF SumStepTo
  <1>5. /\ GreetingsSame(hs, ts, to) /\ SumSettled(ts, to, drawn)
        /\ \A c \in to : ts[c].sid = ss[c].sid
        /\ \A c \in to : hs[c].ske.sid = gs[c].ske.sid
    BY <1>1, <1>4, ConfirmationSameAll
  <1>6. \A c \in to : gs[c].ske.sid = ComputeSid(pkt.nonces)
    <2>1. PICK sp : sp = pkt.summary[1]
      OBVIOUS
    <2>2. /\ PacketSame(gs, ss, pkt, to, drawn)
          /\ \A d \in to : ts[d] = Summary!Recv(ss[d], d, sp, pkt.init)
      BY <1>4, <2>1
    <2>3. \A c \in to : ConfirmationSame(gs[c], ss[c], hs[c], ts[c], sp, pkt.nonces, to,
                                         Summary!RecvAnswer(ss[c], c, sp, pkt.init))
      BY <1>1, <2>1, <2>2, ConfirmationSameMember
    <2> QED
      BY <2>3 DEF ConfirmationSame
  <1>7. Answering(gs, pkt) = {}
    BY <1>3, <1>6 DEF Answering, AnswersUpflow, AnswersDownflow, IsFor, DownflowAnswers
  <1>8. ASSUME NEW q \in packets PROVE PacketSame(hs, ts, q, to, drawn)
    <2>1. ~ IsUpflow(q)
      BY DEF Confirming, Confirms, IsUpflow
    <2>2. Grows(drawn, drawn)
      BY DEF Grows
    <2>3. PacketSame(gs, ss, q, to, drawn)
      OBVIOUS
    <2> QED
      BY <1>5, <2>1, <2>2, <2>3, PacketStays
  <1>9. \A q \in (packets \ {pkt}) \cup Answers(gs, hs, pkt, ss) :
           PacketSame(hs, ts, q, to, drawn)
    BY <1>7, <1>8 DEF Answers
  <1> QED
    BY <1>2, <1>3, <1>5, <1>9, SumSettledDelivered

(* Accepting a proposal.                                                   *)
LEMMA SumAccept ==
    ASSUME KeyInv, SameInv, NEW p \in proposals, Accept(p)
    PROVE  SameInv'
  <1>1. PICK pkt, to, gs, ss : /\ pkt = p.packet /\ to = p.packet.members
                               /\ gs = Beginning(p) /\ ss = SummaryBeginning(p)
    OBVIOUS
  <1>2. Delivered(pkt, to, {}, gs, to \cup Group, ss) /\ proposals' = {}
    BY <1>1 DEF Accept
  <1>3. /\ drawn \in [Client -> Nat] /\ StoresKeyed /\ to \subseteq Client
        /\ Stage(gs, pkt, to, drawn)
    BY <1>1 DEF KeyInv, ProposalsFit
  <1>4. /\ SessionsSame /\ GreetingsSame(gs, ss, to)
        /\ PacketSame(gs, ss, pkt, to, drawn)
    BY <1>1 DEF SameInv, ProposalsSame
  <1>5. PICK hs, ts : SumStepTo(hs, ts, pkt, to, {}, gs, ss)
    BY <1>2, <1>3, SumDeliveredSteps
  <1> QED
    BY <1>2, <1>3, <1>4, <1>5, SumUpwardDelivered, SumDownwardDelivered DEF Stage

(* Receiving a packet.                                                     *)
LEMMA SumReceive ==
    ASSUME KeyInv, SameInv, NEW pkt \in flight, Receive(pkt)
    PROVE  SameInv'
  <1>1. PICK to, gs, ss, packets : /\ to = next /\ gs = greeting /\ ss = summary
                                   /\ packets = flight
    OBVIOUS
  <1>2. /\ Delivered(pkt, to, packets \ {pkt}, gs, to \cup Group, ss)
        /\ proposals' = proposals
    BY <1>1 DEF Receive
  <1>3. /\ drawn \in [Client -> Nat] /\ StoresKeyed /\ to \subseteq Client
    BY <1>1 DEF KeyInv
  <1>4. proposals' = {} /\ IsUnderWay
    BY <1>2 DEF KeyInv, OperationFits
  <1>5. /\ SessionsSame /\ GreetingsSame(gs, ss, to)
        /\ \A q \in packets : PacketSame(gs, ss, q, to, drawn)
    BY <1>1 DEF SameInv, OperationSame
  <1>6. PICK hs, ts : SumStepTo(hs, ts, pkt, to, packets \ {pkt}, gs, ss)
    BY <1>2, <1>3, SumDeliveredSteps
  <1>7. CASE \E q \in flight : flight = {q} /\ Stage(greeting, q, next, drawn)
    <2>1. packets \ {pkt} = {} /\ Stage(gs, pkt, to, drawn) /\ pkt \in packets
      BY <1>1, <1>7
    <2>2. SumStepTo(hs, ts, pkt, to, {}, gs, ss) /\ PacketSame(gs, ss, pkt, to, drawn)
      BY <1>5, <1>6, <2>1
    <2> QED
      BY <1>3, <1>4, <1>5, <2>1, <2>2, SumUpwardDelivered, SumDownwardDelivered DEF Stage
  <1>8. CASE Confirming(greeting, flight, next, drawn) /\ Excluded(greeting, next)
    <2>1. Confirming(gs, packets, to, drawn) /\ pkt \in packets
      BY <1>1, <1>8
    <2> QED
      BY <1>3, <1>4, <1>5, <1>6, <2>1, SumConfirmationDelivered
  <1> QED
    BY <1>4, <1>7, <1>8 DEF IsUnderWay

-----------------------------------------------------------------------------
(* Proposals.  What the members start with.                                *)
SumResumes(s, prev, sess) ==
    /\ IsSummary(s) /\ s.prev = prev /\ s.next = {} /\ s.mem = sess.members
    /\ s.sid = sess.sid /\ s.authd = {} /\ s.recvOwn = FALSE /\ s.quit = FALSE
    /\ s.fin = 0 /\ s.err = FALSE
PrevOf(c, sess) == IF sess = Summary!NoSession THEN {c} ELSE sess.members

(* A new greeting has the members and the session id of the session.       *)
LEMMA SumNewGreeting ==
    ASSUME NEW c, NEW sess, NEW s, s = Summary!NewGreeting(c, sess)
    PROVE  SumResumes(s, PrevOf(c, sess), sess)
  <1>1. PICK prev, mem, sid : /\ prev = PrevOf(c, sess)
                              /\ mem = sess.members /\ sid = sess.sid
    OBVIOUS
  <1>2. PICK n : n = Summary!NoGreeting
    OBVIOUS
  <1>3. /\ IsSummary(n) /\ n.next = {} /\ n.authd = {} /\ n.recvOwn = FALSE
        /\ n.quit = FALSE /\ n.fin = 0 /\ n.err = FALSE
    BY <1>2 DEF Summary!NoGreeting, IsSummary
  <1>4. s = [n EXCEPT !.prev = prev, !.mem = mem, !.sid = sid]
    BY <1>1, <1>2 DEF Summary!NewGreeting, PrevOf
  <1>5. IsSummary(s)
    BY <1>3, <1>4 DEF IsSummary
  <1>6. s.prev = prev /\ s.mem = mem /\ s.sid = sid
    BY <1>3, <1>4 DEF IsSummary
  <1>7. s.next = n.next /\ s.authd = n.authd /\ s.recvOwn = n.recvOwn
    BY <1>3, <1>4 DEF IsSummary
  <1>8. s.quit = n.quit /\ s.fin = n.fin /\ s.err = n.err
    BY <1>3, <1>4 DEF IsSummary
  <1> QED
    BY <1>1, <1>3, <1>5, <1>6, <1>7, <1>8 DEF SumResumes

(* Who proposes the operation knows its members, and when it removes or    *)
(* adds some a session id.                                                 *)
SumMade(s, prev, to, n, sid, authd) ==
    /\ IsSummary(s) /\ s.n = n /\ s.prev = prev /\ s.next = to /\ s.mem = to
    /\ s.sid = sid /\ s.authd = authd /\ s.recvOwn = FALSE /\ s.quit = FALSE
    /\ s.fin = 0 /\ s.err = FALSE
ProposedSid(sess, route, n) ==
    IF route = <<>> THEN <<n, n>>
    ELSE IF sess = Summary!NoSession THEN Summary!NoSid
    ELSE <<n, Summary!NoProposal>>
ProposedAuthd(c, sess, route) ==
    IF route # <<>> /\ sess = Summary!NoSession THEN {} ELSE {c}

(* The greeting of a proposal has the members of the next session, and a   *)
(* new session id unless nothing is known yet.                             *)
LEMMA SumProposedGreeting ==
    ASSUME NEW c, NEW sess, NEW to, NEW route, NEW n,
           NEW s, s = Summary!ProposedGreeting(c, sess, to, route, n)
    PROVE  SumMade(s, PrevOf(c, sess), to, n,
                   ProposedSid(sess, route, n), ProposedAuthd(c, sess, route))
  <1>1. PICK prev, g : /\ prev = PrevOf(c, sess)
                       /\ g = Summary!NewGreeting(c, sess)
    OBVIOUS
  <1>2. SumResumes(g, prev, sess)
    BY <1>1, SumNewGreeting
  <1>3. PICK h : h = [g EXCEPT !.n = n, !.next = to, !.mem = to]
    OBVIOUS
  <1>4. IsSummary(g)
    BY <1>2 DEF SumResumes
  <1>5. SumMade(h, prev, to, n, sess.sid, {})
    <2>1. IsSummary(h)
      BY <1>3, <1>4 DEF IsSummary
    <2>2. h.n = n /\ h.next = to /\ h.mem = to
      BY <1>3, <1>4 DEF IsSummary
    <2>3. h.prev = g.prev /\ h.sid = g.sid /\ h.authd = g.authd
      BY <1>3, <1>4 DEF IsSummary
    <2>4. h.recvOwn = g.recvOwn /\ h.quit = g.quit /\ h.fin = g.fin /\ h.err = g.err
      BY <1>3, <1>4 DEF IsSummary
    <2> QED
      BY <1>2, <2>1, <2>2, <2>3, <2>4 DEF SumResumes, SumMade
  <1>6. ASSUME NEW sid, NEW who, s = [h EXCEPT !.sid = sid, !.authd = who]
        PROVE  SumMade(s, prev, to, n, sid, who)
    <2>0. IsSummary(h)
      BY <1>5 DEF SumMade
    <2>1. IsSummary(s)
      BY <1>6, <2>0 DEF IsSummary
    <2>2. s.n = h.n /\ s.next = h.next /\ s.mem = h.mem /\ s.prev = h.prev
      BY <1>6, <2>0 DEF IsSummary
    <2>3. s.sid = sid /\ s.authd = who
      BY <1>6, <2>0 DEF IsSummary
    <2>4. s.recvOwn = h.recvOwn /\ s.quit = h.quit /\ s.fin = h.fin /\ s.err = h.err
      BY <1>6, <2>0 DEF IsSummary
    <2> QED
      BY <1>5, <2>1, <2>2, <2>3, <2>4 DEF SumMade
  <1>7. CASE route = <<>>
    <2>1. PICK sid, who : sid = <<n, n>> /\ who = {c}
      OBVIOUS
    <2>2. s = [h EXCEPT !.sid = sid, !.authd = who]
      BY <1>1, <1>3, <1>7, <2>1 DEF Summary!ProposedGreeting
    <2>3. SumMade(s, prev, to, n, sid, who)
      BY <1>6, <2>2
    <2>4. sid = ProposedSid(sess, route, n) /\ who = ProposedAuthd(c, sess, route)
      BY <1>7, <2>1 DEF ProposedSid, ProposedAuthd
    <2> QED
      BY <1>1, <2>3, <2>4
  <1>8. CASE route # <<>> /\ sess = Summary!NoSession
    <2>1. s = h
      BY <1>1, <1>3, <1>8 DEF Summary!ProposedGreeting
    <2>2. sess.sid = ProposedSid(sess, route, n) /\ {} = ProposedAuthd(c, sess, route)
      BY <1>8 DEF ProposedSid, ProposedAuthd, Summary!NoSession
    <2> QED
      BY <1>1, <1>5, <2>1, <2>2
  <1>9. CASE route # <<>> /\ sess # Summary!NoSession
    <2>1. PICK sid, who : sid = <<n, Summary!NoProposal>> /\ who = {c}
      OBVIOUS
    <2>2. s = [h EXCEPT !.sid = sid, !.authd = who]
      BY <1>1, <1>3, <1>9, <2>1 DEF Summary!ProposedGreeting
    <2>3. SumMade(s, prev, to, n, sid, who)
      BY <1>6, <2>2
    <2>4. sid = ProposedSid(sess, route, n) /\ who = ProposedAuthd(c, sess, route)
      BY <1>9, <2>1 DEF ProposedSid, ProposedAuthd
    <2> QED
      BY <1>1, <2>3, <2>4
  <1> QED
    BY <1>7, <1>8, <1>9

(* Session ids of sessions are the same in both tales, and not that of a   *)
(* proposal that is made now.                                              *)
KnownSids(c, d) ==
    /\ session[c].sid = session[d].sid <=> store[c].ske.sid = store[d].ske.sid
    /\ session[c].sid = Summary!NoSid <=> store[c].ske.sid = NoValue

(* Session ids are known in both or in neither.                            *)
LEMMA SessionSids ==
    ASSUME SessionsSame, StoresKeyed, NEW c \in Client, NEW d \in Client
    PROVE  KnownSids(c, d)
  <1>1. ASSUME NEW e \in Client \ Group
        PROVE  session[e].sid = Summary!NoSid /\ store[e].ske.sid = NoValue
    <2>1. store[e] = NoStore /\ session[e] = Summary!NoSession
      BY DEF Group, SessionsSame
    <2>2. Summary!NoSession.sid = Summary!NoSid
      BY DEF Summary!NoSession
    <2> QED
      BY <2>1, <2>2, EmptyStore
  <1>2. ASSUME NEW e \in Group
        PROVE  session[e].sid # Summary!NoSid /\ store[e].ske.sid # NoValue
    <2>1. IsOld(session[e].sid[1], drawn)
      BY DEF SessionsSame
    <2>2. session[e].sid # Summary!NoSid
      BY <2>1, OldFacts DEF Summary!NoSid
    <2>3. store[e].ske.sid = ComputeSid(store[e].ske.nonces)
      BY DEF StoresKeyed, Keyed
    <2> QED
      BY <2>2, <2>3, SidFacts
  <1>3. ASSUME c \in Group, d \in Group
        PROVE  session[c].sid = session[d].sid /\ store[c].ske.sid = store[d].ske.sid
    <2>1. session[c].sid = session[d].sid
      BY <1>3 DEF SessionsSame
    <2>2. /\ store[c].ske.sid = ComputeSid(store[c].ske.nonces)
          /\ store[d].ske.sid = ComputeSid(store[d].ske.nonces)
      BY <1>3 DEF StoresKeyed, Keyed
    <2>3. store[c].ske.nonces = store[d].ske.nonces
      BY <1>3 DEF StoresKeyed, SameKeys
    <2> QED
      BY <2>1, <2>2, <2>3
  <1>4. CASE c \in Group /\ d \in Group
    BY <1>2, <1>3, <1>4 DEF KnownSids
  <1>5. CASE c \in Group /\ d \notin Group
    BY <1>1, <1>2, <1>5 DEF KnownSids
  <1>6. CASE c \notin Group /\ d \in Group
    BY <1>1, <1>2, <1>6 DEF KnownSids
  <1>7. CASE c \notin Group /\ d \notin Group
    BY <1>1, <1>7 DEF KnownSids
  <1> QED
    BY <1>4, <1>5, <1>6, <1>7

SidIsNew(c, nonces) ==
    /\ \A d \in Client : \A n : session[d].sid # <<Fresh(c), n>>
    /\ \A d \in Client : store[d].ske.sid # ComputeSid(nonces)

(* A session id that a new nonce is part of is nobody's yet.               *)
LEMMA FreshSid ==
    ASSUME SessionsSame, StoresKeyed, drawn \in [Client -> Nat], NEW c \in Client,
           NEW nonces, c \in DOMAIN nonces, nonces[c] = Fresh(c)
    PROVE  SidIsNew(c, nonces)
  <1>1. Fresh(c) \notin Drawn(drawn, c) /\ Fresh(c)[1] = c /\ Fresh(c) # Summary!NoProposal
    <2>1. drawn[c] \in Nat
      OBVIOUS
    <2>2. Fresh(c) \notin Drawn(drawn, c)
      BY <2>1, FreshIsNew DEF Fresh
    <2>3. Fresh(c)[2] # 0
      BY <2>1 DEF Fresh
    <2>4. Fresh(c) # Summary!NoProposal
      BY <2>3 DEF Summary!NoProposal
    <2>5. Fresh(c)[1] = c
      BY DEF Fresh
    <2> QED
      BY <2>2, <2>4, <2>5
  <1>2. ~ IsOld(Fresh(c), drawn)
    <2> SUFFICES ASSUME NEW e \in Client, Fresh(c) \in Drawn(drawn, e)
                 PROVE  FALSE
      BY DEF IsOld
    <2>1. Fresh(c)[1] = e
      BY DEF Drawn
    <2> QED
      BY <1>1, <2>1
  <1>3. ASSUME NEW d \in Client, NEW n, session[d].sid = <<Fresh(c), n>>
        PROVE  FALSE
    <2>1. session[d].sid[1] = Fresh(c)
      BY <1>3
    <2>2. CASE d \in Group
      BY <1>2, <2>1, <2>2 DEF SessionsSame
    <2>3. CASE d \notin Group
      <3>1. session[d].sid[1] = Summary!NoProposal
        BY <2>3 DEF SessionsSame, Summary!NoSession, Summary!NoSid
      <3> QED
        BY <1>1, <2>1, <3>1
    <2> QED
      BY <2>2, <2>3
  <1>4. ASSUME NEW d \in Client, store[d].ske.sid = ComputeSid(nonces)
        PROVE  FALSE
    <2>1. CASE d \in Group
      <3>1. PICK s : s = store[d].ske
        OBVIOUS
      <3>2. Keyed(store[d].cliques, s, d, drawn)
        BY <2>1, <3>1 DEF StoresKeyed
      <3>3. s.sid = ComputeSid(s.nonces) /\ DOMAIN s.nonces = s.members
            /\ \A e \in s.members : s.nonces[e] \in Drawn(drawn, e)
        BY <3>2 DEF Keyed
      <3>4. ComputeSid(s.nonces)[2] = s.nonces /\ ComputeSid(nonces)[2] = nonces
        BY DEF ComputeSid
      <3>5. s.nonces = nonces
        BY <1>4, <3>1, <3>3, <3>4
      <3> QED
        BY <1>1, <3>3, <3>5
    <2>2. CASE d \notin Group
      BY <1>4, <2>2, EmptyStore, SidFacts DEF Group
    <2> QED
      BY <2>1, <2>2
  <1> QED
    BY <1>3, <1>4 DEF SidIsNew

(* Who does not propose the operation begins it the same.                  *)
MembersBefore(d) == IF d \in Group THEN store[d].ske.members ELSE {d}
Begins(g, s, d) ==
    /\ SameGreeting(g, s) /\ IsSummary(s) /\ s.next = {} /\ s.prev = MembersBefore(d)
    /\ s.sid = session[d].sid /\ g.ske.sid = store[d].ske.sid

(* A client that is in no session has no members; one that is in one has   *)
(* some in both.                                                           *)
LEMMA SessionMembers ==
    ASSUME SessionsSame, NEW d \in Client
    PROVE  /\ session[d].members = store[d].ske.members
           /\ session[d] = Summary!NoSession <=> d \notin Group
           /\ PrevOf(d, session[d]) = MembersBefore(d)
  <1>1. CASE d \in Group
    <2>1. IsOld(session[d].sid[1], drawn) /\ session[d].members = store[d].ske.members
      BY <1>1 DEF SessionsSame
    <2>2. session[d].sid[1] # Summary!NoProposal
      BY <2>1, OldFacts
    <2>3. Summary!NoSession.sid[1] = Summary!NoProposal
      BY DEF Summary!NoSession, Summary!NoSid
    <2>4. session[d] # Summary!NoSession
      BY <2>2, <2>3
    <2> QED
      BY <1>1, <2>1, <2>4 DEF PrevOf, MembersBefore
  <1>2. CASE d \notin Group
    <2>1. session[d] = Summary!NoSession /\ store[d] = NoStore
      BY <1>2 DEF SessionsSame, Group
    <2>2. Summary!NoSession.members = {} /\ NoStore.ske.members = {}
      BY DEF Summary!NoSession, NoStore, NewSkeMember
    <2> QED
      BY <1>2, <2>1, <2>2 DEF PrevOf, MembersBefore
  <1> QED
    BY <1>1, <1>2

(* What a member that did not propose begins with is the same in both.     *)
LEMMA OtherBegins ==
    ASSUME SessionsSame, StoresKeyed, NEW d \in Client, NEW g, g = NewGreeting(store[d]),
           NEW s, s = Summary!NewGreeting(d, session[d])
    PROVE  Begins(g, s, d)
  <1>1. PICK to : to = {}
    OBVIOUS
  <1>2. Resumes(g, store[d])
    BY StoreResumes
  <1>3. SumResumes(s, PrevOf(d, session[d]), session[d])
    BY SumNewGreeting
  <1>4. /\ session[d].members = store[d].ske.members
        /\ PrevOf(d, session[d]) = MembersBefore(d)
    BY SessionMembers
  <1>5. session[d].sid = Summary!NoSid <=> store[d].ske.sid = NoValue
    BY SessionSids DEF KnownSids
  <1>6. SameGreeting(g, s)
    BY <1>2, <1>3, <1>4, <1>5 DEF Resumes, SumResumes, SameGreeting
  <1> QED
    BY <1>2, <1>3, <1>4, <1>6 DEF Resumes, SumResumes, Begins

(* All members then do, when the proposer's own session id is new, or none *)
(* in both tales.                                                          *)
OthersBegin(gs, ss, c, to) ==
    \A d \in to \ {c} : /\ gs[d] = NewGreeting(store[d])
                        /\ ss[d] = Summary!NewGreeting(d, session[d])
ProposerBegins(g, s, c, to, n) ==
    /\ SameGreeting(g, s) /\ IsSummary(s) /\ s.prev # to /\ s.n = n /\ s.next = to
    /\ \A d \in to \ {c} : s.sid = session[d].sid <=> g.ske.sid = store[d].ske.sid
GreetingsBegin(gs, ss, c, to) ==
    /\ GreetingsSame(gs, ss, to)
    /\ \A d \in to \ {c} : Begins(gs[d], ss[d], d)

(* So all members of an operation begin the same, when the proposer does.  *)
LEMMA AllBegin ==
    ASSUME SessionsSame, StoresKeyed, NEW c, NEW to, to \subseteq Client, c \in to,
           NEW gs, NEW ss, OthersBegin(gs, ss, c, to), NEW n,
           ProposerBegins(gs[c], ss[c], c, to, n), \A d \in to : MembersBefore(d) # to
    PROVE  GreetingsBegin(gs, ss, c, to)
  <1>1. ASSUME NEW d \in to \ {c} PROVE Begins(gs[d], ss[d], d)
    BY <1>1, OtherBegins DEF OthersBegin
  <1>2. \A d \in to : IsSummary(ss[d]) /\ SameGreeting(gs[d], ss[d]) /\ ss[d].prev # to
    BY <1>1 DEF Begins, ProposerBegins
  <1>3. \A d, e \in to \ {c} : ss[d].sid = ss[e].sid <=> gs[d].ske.sid = gs[e].ske.sid
    BY <1>1, SessionSids DEF Begins, KnownSids
  <1>4. \A d \in to \ {c} : ss[c].sid = ss[d].sid <=> gs[c].ske.sid = gs[d].ske.sid
    BY <1>1 DEF Begins, ProposerBegins
  <1>5. \A d, e \in to : ss[d].sid = ss[e].sid <=> gs[d].ske.sid = gs[e].ske.sid
    BY <1>3, <1>4
  <1> QED
    BY <1>1, <1>2, <1>5 DEF GreetingsSame, GreetingsBegin

(* The packet with the proposal.                                           *)
TellsProposal(pkt, c, to, route, n) ==
    /\ pkt.src = c /\ pkt.members = to /\ pkt.route = route /\ pkt.init = TRUE
    /\ pkt.summary = <<Summary!Proposal(c, to, route, n, Summary!NoProposal, <<>>)>>
KnowsName(s, c, to, n) ==
    /\ s.n = n /\ s.sid # <<n, n>>
    /\ \A d \in to \ {c} : session[d].sid # <<n, n>>
KnowsSid(g, s, pkt, c, to, n) ==
    /\ s.sid = <<n, n>> /\ g.ske.sid = ComputeSid(pkt.nonces)
    /\ \A d \in to \ {c} : /\ session[d].sid # <<n, n>>
                            /\ store[d].ske.sid # ComputeSid(pkt.nonces)

(* A proposal that adds members begins the same in both.                   *)
LEMMA UpwardBegins ==
    ASSUME NEW gs, NEW ss, NEW c, NEW to, NEW n, NEW dr, NEW pkt, NEW route, route # <<>>,
           GreetingsBegin(gs, ss, c, to), KnowsName(ss[c], c, to, n), IsOld(n, dr),
           TellsProposal(pkt, c, to, route, n)
    PROVE  PacketSame(gs, ss, pkt, to, dr)
  <1>1. PICK none : none = Summary!NoProposal
    OBVIOUS
  <1>2. PICK sp : sp = Summary!InitPacket(n, c, "up", route, to, Summary!NoSid, none, <<>>)
    OBVIOUS
  <1>3. pkt.summary = <<sp>> /\ pkt.summary[1] = sp
    BY <1>1, <1>2 DEF Summary!Proposal, TellsProposal
  <1>4. /\ Summary!IsUpflow(sp) /\ sp.src = c /\ sp.members = to /\ sp.route = route
        /\ sp.n = n
    BY <1>2 DEF Summary!InitPacket, Summary!IsUpflow
  <1>5. \A d \in to : (ss[d].next # {} => ss[d].n = n) /\ ss[d].sid # <<n, n>>
    BY DEF GreetingsBegin, Begins, KnowsName
  <1>6. UpSame(ss, pkt, sp, to, dr)
    BY <1>4, <1>5 DEF UpSame, TellsProposal
  <1> QED
    BY <1>3, <1>4, <1>6 DEF PacketSame, IsUpflow, TellsProposal

(* And so does one that removes members.                                   *)
LEMMA DownwardBegins ==
    ASSUME NEW gs, NEW ss, NEW c, NEW to, NEW n, NEW dr, NEW pkt,
           GreetingsBegin(gs, ss, c, to), KnowsSid(gs[c], ss[c], pkt, c, to, n), IsOld(n, dr),
           NEW route, route = <<>>, TellsProposal(pkt, c, to, route, n)
    PROVE  PacketSame(gs, ss, pkt, to, dr)
  <1>1. PICK none, sid : none = Summary!NoProposal /\ sid = <<n, n>>
    OBVIOUS
  <1>2. PICK sp : sp = Summary!InitPacket(n, c, "down", <<>>, to, sid, none, <<>>)
    OBVIOUS
  <1>3. pkt.summary = <<sp>> /\ pkt.summary[1] = sp
    BY <1>1, <1>2 DEF Summary!Proposal, TellsProposal
  <1>4. /\ Summary!IsDownflow(sp) /\ sp.src = c /\ sp.members = to /\ sp.sid = sid
    BY <1>2 DEF Summary!InitPacket, Summary!IsDownflow, Summary!IsUpflow, Summary!IsGreet
  <1>5. \A d \in to : ss[d].sid = sid <=> gs[d].ske.sid = ComputeSid(pkt.nonces)
    BY <1>1 DEF GreetingsBegin, Begins, KnowsSid
  <1>6. sid[1] = n
    BY <1>1
  <1>7. DownSame(gs, ss, pkt, sp, to, dr)
    BY <1>4, <1>5, <1>6 DEF DownSame
  <1> QED
    BY <1>3, <1>4, <1>7 DEF PacketSame, IsUpflow, TellsProposal

SameProposal(gs, ss, pkt, to, dr) ==
    GreetingsSame(gs, ss, to) /\ PacketSame(gs, ss, pkt, to, dr)

(* The members before the operation are not those after it.                *)
LEMMA NewMembers ==
    ASSUME StoresKeyed, NEW to, NEW c \in to, NEW d, NEW e \in to, c # e,
           c \in Group => store[c].ske.members # to, c \notin Group => d \notin Group,
           d \notin Group /\ c \in Group => d # c, NEW x, x = MembersBefore(d)
    PROVE  x # to
  <1>1. CASE d \in Group
    <2>1. store[d].ske.members = store[c].ske.members
      BY <1>1 DEF StoresKeyed, SameKeys
    <2> QED
      BY <1>1, <2>1 DEF MembersBefore
  <1>2. CASE d \notin Group
    <2>1. x = {d}
      BY <1>2 DEF MembersBefore
    <2> QED
      BY <2>1
  <1> QED
    BY <1>1, <1>2

(* include.                                                                *)
LEMMA IncludeSame ==
    ASSUME drawn \in [Client -> Nat], StoresKeyed, SessionsSame,
           NEW c \in Group, NEW route \in Routes, route # <<>>,
           Range(route) \cap store[c].ske.members = {},
           NEW to, to = store[c].ske.members \cup Range(route), to \subseteq Client, c \in to,
           NEW g, g = IncludeGreeting(c, NewGreeting(store[c]), route, to),
           NEW pkt, pkt = IncludePacket(c, route, to, g),
           NEW dr2, Grows(drawn, dr2), dr2[c] = drawn[c] + 1,
           NEW gs, gs[c] = [g EXCEPT !.next = to],
           NEW ss, ss[c] = Summary!ProposedGreeting(c, session[c], to, route, Fresh(c)),
           OthersBegin(gs, ss, c, to)
    PROVE  SameProposal(gs, ss, pkt, to, dr2)
  <1>1. PICK n, m, s, p : /\ n = NewGreeting(store[c]) /\ m = n.cliques /\ s = n.ske
                          /\ p = Fresh(c)
    OBVIOUS
  <1>2. PICK k, t : k = AkaJoin(m, c, route, to, p) /\ t = Join(s, c, to, p)
    OBVIOUS
  <1>3. c \in Client
    BY DEF Group
  <1>4. Resumes(n, store[c])
    BY <1>1, <1>3, StoreResumes
  <1>5. MadeOf(gs[c], n, k, t, to)
    <2>1. gs[c] = [[n EXCEPT !.cliques = k, !.ske = t] EXCEPT !.next = to]
      BY <1>1, <1>2 DEF IncludeGreeting
    <2> QED
      BY <1>4, <2>1, GreetingMade DEF Resumes
  <1>6. /\ t.members = to /\ t.authd = {c} /\ t.sid = ComputeSid(t.nonces)
        /\ c \in DOMAIN t.nonces /\ t.nonces[c] = p
    <2>1. IsSke(s)
      BY <1>1, <1>4 DEF Resumes
    <2>2. /\ t.members = to /\ t.authd = {c} /\ t.sid = ComputeSid(t.nonces)
          /\ t.nonces = Extend(s.nonces, c, p)
      BY <1>2, <2>1, JoinFacts
    <2>3. c \in DOMAIN Extend(s.nonces, c, p) /\ Extend(s.nonces, c, p)[c] = p
      BY DEF Extend
    <2> QED
      BY <2>2, <2>3
  <1>7. PICK sid : sid = <<p, Summary!NoProposal>>
    OBVIOUS
  <1>8. SumMade(ss[c], MembersBefore(c), to, p, sid, {c})
    <2>1. PICK sess, r : sess = session[c] /\ r = ss[c]
      OBVIOUS
    <2>2. sess # Summary!NoSession /\ PrevOf(c, sess) = MembersBefore(c)
      BY <1>3, <2>1, SessionMembers
    <2>3. SumMade(r, PrevOf(c, sess), to, p, ProposedSid(sess, route, p),
                  ProposedAuthd(c, sess, route))
      BY <1>1, <2>1, SumProposedGreeting
    <2>4. ProposedSid(sess, route, p) = sid /\ ProposedAuthd(c, sess, route) = {c}
      BY <1>7, <2>2 DEF ProposedSid, ProposedAuthd
    <2> QED
      BY <2>1, <2>2, <2>3, <2>4
  <1>9. SidIsNew(c, t.nonces)
    BY <1>1, <1>3, <1>6, FreshSid
  <1>10. IsOld(p, dr2)
    BY <1>1, <1>3, FreshIsDrawn DEF IsOld, Fresh
  <1>11. sid # <<p, p>> /\ sid # Summary!NoSid
    <2>1. p # Summary!NoProposal
      BY <1>10, OldFacts
    <2> QED
      BY <1>7, <2>1 DEF Summary!NoSid
  <1>12. \A d \in to : MembersBefore(d) # to
    <2>1. Head(route) \in Range(route)
      BY RoutesAssumption, RouteTail
    <2>2. Head(route) \in to /\ c \in store[c].ske.members /\ Head(route) # c
      BY <2>1, GroupFits
    <2>3. store[c].ske.members # to
      BY <2>1
    <2> QED
      BY <2>2, <2>3, NewMembers
  <1>13. ProposerBegins(gs[c], ss[c], c, to, p)
    <2>1. PICK h, r : h = gs[c] /\ r = ss[c]
      OBVIOUS
    <2>2. h.ske.sid = ComputeSid(t.nonces)
      BY <1>5, <1>6, <2>1 DEF MadeOf
    <2>3. r.sid # Summary!NoSid /\ h.ske.sid # NoValue
      BY <1>8, <1>11, <2>1, <2>2, SidFacts DEF SumMade
    <2>4. SameGreeting(h, r)
      BY <1>4, <1>5, <1>6, <1>8, <2>1, <2>3 DEF MadeOf, Resumes, SumMade, SameGreeting
    <2>5. \A d \in to \ {c} : r.sid # session[d].sid /\ h.ske.sid # store[d].ske.sid
      <3>1. \A d \in Client : session[d].sid # sid /\ store[d].ske.sid # ComputeSid(t.nonces)
        BY <1>1, <1>7, <1>9 DEF SidIsNew
      <3>2. r.sid = sid
        BY <1>8, <2>1 DEF SumMade
      <3> QED
        BY <2>2, <3>1, <3>2
    <2> QED
      BY <1>8, <1>12, <2>1, <2>4, <2>5 DEF SumMade, ProposerBegins
  <1>14. GreetingsBegin(gs, ss, c, to)
    BY <1>12, <1>13, AllBegin
  <1>15. TellsProposal(pkt, c, to, route, p)
    BY <1>1 DEF IncludePacket, Merge, SkeMessage, SummaryProposal, TellsProposal
  <1>16. PICK full : full = <<p, p>>
    OBVIOUS
  <1>17. KnowsName(ss[c], c, to, p)
    <2>1. \A d \in to \ {c} : session[d].sid # full
      BY <1>1, <1>9, <1>16 DEF SidIsNew
    <2>2. ss[c].n = p /\ ss[c].sid = sid /\ sid # full
      BY <1>8, <1>11, <1>16 DEF SumMade
    <2> QED
      BY <1>16, <2>1, <2>2 DEF KnowsName
  <1>18. PacketSame(gs, ss, pkt, to, dr2)
    BY <1>10, <1>14, <1>15, <1>17, UpwardBegins
  <1> QED
    BY <1>14, <1>18 DEF SameProposal, GreetingsBegin

(* exclude.                                                                *)
LEMMA ExcludeSame ==
    ASSUME drawn \in [Client -> Nat], StoresKeyed, SessionsSame,
           NEW c \in Group, NEW others, c \notin others, others # {},
           others \subseteq store[c].ske.members,
           NEW to, to = store[c].ske.members \ others, to \subseteq Group, c \in to,
           NEW g, g = ExcludeGreeting(c, NewGreeting(store[c]), to),
           NEW pkt, pkt = ExcludePacket(c, to, g),
           NEW dr2, Grows(drawn, dr2), dr2[c] = drawn[c] + 1,
           NEW gs, gs[c] = [g EXCEPT !.next = to],
           NEW ss, ss[c] = Summary!ProposedGreeting(c, session[c], to, <<>>, Fresh(c)),
           OthersBegin(gs, ss, c, to)
    PROVE  SameProposal(gs, ss, pkt, to, dr2)
  <1>1. PICK n, m, s, p : /\ n = NewGreeting(store[c]) /\ m = n.cliques /\ s = n.ske
                          /\ p = Fresh(c)
    OBVIOUS
  <1>2. PICK k, t : k = AkaExclude(m, c, to, p) /\ t = Exclude(s, c, to, p)
    OBVIOUS
  <1>3. c \in Client /\ to \subseteq Client
    BY DEF Group
  <1>4. Resumes(n, store[c])
    BY <1>1, <1>3, StoreResumes
  <1>5. MadeOf(gs[c], n, k, t, to)
    <2>1. gs[c] = [[n EXCEPT !.cliques = k, !.ske = t] EXCEPT !.next = to]
      BY <1>1, <1>2 DEF ExcludeGreeting
    <2> QED
      BY <1>4, <2>1, GreetingMade DEF Resumes
  <1>6. g.ske = t
    <2>1. g = [n EXCEPT !.cliques = k, !.ske = t] /\ IsGreeting(n)
      BY <1>1, <1>2, <1>4 DEF ExcludeGreeting, Resumes
    <2> QED
      BY <2>1 DEF IsGreeting
  <1>7. /\ t.members = to /\ t.authd = {c} /\ t.sid = ComputeSid(t.nonces)
        /\ c \in DOMAIN t.nonces /\ t.nonces[c] = p
    <2>1. IsSke(s)
      BY <1>1, <1>4 DEF Resumes
    <2>2. HasRest(t, s, c, to, p)
      BY <1>2, <2>1, ExcludeFacts
    <2> QED
      BY <2>2 DEF HasRest
  <1>8. PICK sid, none : sid = <<p, p>> /\ none = <<>>
    OBVIOUS
  <1>9. SumMade(ss[c], MembersBefore(c), to, p, sid, {c})
    <2>1. PICK sess, r : sess = session[c] /\ r = ss[c]
      OBVIOUS
    <2>2. PrevOf(c, sess) = MembersBefore(c)
      BY <1>3, <2>1, SessionMembers
    <2>3. SumMade(r, PrevOf(c, sess), to, p, ProposedSid(sess, none, p),
                  ProposedAuthd(c, sess, none))
      BY <1>1, <1>8, <2>1, SumProposedGreeting
    <2>4. ProposedSid(sess, none, p) = sid /\ ProposedAuthd(c, sess, none) = {c}
      BY <1>8, <2>2 DEF ProposedSid, ProposedAuthd
    <2> QED
      BY <2>1, <2>2, <2>3, <2>4
  <1>10. SidIsNew(c, t.nonces)
    BY <1>1, <1>3, <1>7, FreshSid
  <1>11. /\ IsOld(p, dr2) /\ sid # Summary!NoSid
         /\ \A d \in Client : session[d].sid # sid /\ store[d].ske.sid # ComputeSid(t.nonces)
    <2>1. IsOld(p, dr2)
      BY <1>1, <1>3, FreshIsDrawn DEF IsOld, Fresh
    <2>2. \A d \in Client : session[d].sid # sid /\ store[d].ske.sid # ComputeSid(t.nonces)
      BY <1>1, <1>8, <1>10 DEF SidIsNew
    <2> QED
      BY <1>8, <2>1, <2>2, OldFacts DEF Summary!NoSid
  <1>12. \A d \in to : MembersBefore(d) # to
    <2>1. \A d \in to : MembersBefore(d) = store[c].ske.members
      BY DEF MembersBefore, StoresKeyed, SameKeys
    <2> QED
      BY <2>1
  <1>13. ProposerBegins(gs[c], ss[c], c, to, p)
    <2>1. PICK h, r : h = gs[c] /\ r = ss[c]
      OBVIOUS
    <2>2. h.ske.sid = ComputeSid(t.nonces)
      BY <1>5, <1>7, <2>1 DEF MadeOf
    <2>3. r.sid # Summary!NoSid /\ h.ske.sid # NoValue
      BY <1>9, <1>11, <2>1, <2>2, SidFacts DEF SumMade
    <2>4. SameGreeting(h, r)
      BY <1>4, <1>5, <1>7, <1>9, <2>1, <2>3 DEF MadeOf, Resumes, SumMade, SameGreeting
    <2>5. \A d \in to \ {c} : r.sid # session[d].sid /\ h.ske.sid # store[d].ske.sid
      <3>1. r.sid = sid
        BY <1>9, <2>1 DEF SumMade
      <3> QED
        BY <1>3, <1>11, <2>2, <3>1
    <2> QED
      BY <1>9, <1>12, <2>1, <2>4, <2>5 DEF SumMade, ProposerBegins
  <1>14. GreetingsBegin(gs, ss, c, to)
    BY <1>3, <1>12, <1>13, AllBegin
  <1>15. TellsProposal(pkt, c, to, none, p) /\ pkt.nonces = t.nonces
    BY <1>1, <1>6, <1>8 DEF ExcludePacket, Merge, SkeMessage, SummaryProposal, TellsProposal
  <1>16. /\ \A d \in to \ {c} : session[d].sid # sid
         /\ \A d \in to \ {c} : store[d].ske.sid # ComputeSid(pkt.nonces)
    BY <1>3, <1>11, <1>15
  <1>17. KnowsSid(gs[c], ss[c], pkt, c, to, p)
    <2>1. ss[c].sid = sid /\ gs[c].ske.sid = ComputeSid(pkt.nonces)
      BY <1>5, <1>7, <1>9, <1>15 DEF SumMade, MadeOf
    <2> QED
      BY <1>8, <1>16, <2>1 DEF KnowsSid
  <1>18. PacketSame(gs, ss, pkt, to, dr2)
    BY <1>8, <1>11, <1>14, <1>15, <1>17, DownwardBegins
  <1> QED
    BY <1>14, <1>18 DEF SameProposal, GreetingsBegin

(* start.                                                                  *)
LEMMA StartSame ==
    ASSUME drawn \in [Client -> Nat], StoresKeyed, SessionsSame, Group = {},
           NEW c \in Client, NEW route \in Routes, route # <<>>, c \notin Range(route),
           NEW to, to = {c} \cup Range(route), to \subseteq Client,
           NEW g, g = StartGreeting(c, route, to),
           NEW pkt, pkt = StartPacket(c, route, to, g), pkt.route = route,
           NEW dr2, Grows(drawn, dr2), dr2[c] = drawn[c] + 1,
           NEW gs, gs[c] = [g EXCEPT !.next = to],
           NEW ss, ss[c] = Summary!ProposedGreeting(c, session[c], to, route, Fresh(c)),
           OthersBegin(gs, ss, c, to)
    PROVE  SameProposal(gs, ss, pkt, to, dr2)
  <1>1. PICK p, all, msg : /\ p = Fresh(c) /\ all = <<c>> \o route
                           /\ msg = CommitMessage(c, route, to)
    OBVIOUS
  <1>2. PICK k, t : k = Ika(c, route, to, p) /\ t = SkeUpflow(NewSkeMember, c, msg, p)
    OBVIOUS
  <1>3. Head(route) \in Range(route) /\ Len(route) \in Nat \ {0}
    <2>1. route \in Seq(Client) /\ IsInjective(route)
      BY RoutesAssumption
    <2> QED
      BY <2>1, RouteTail
  <1>4. msg.members = to /\ msg.route = all /\ Len(all) # 1
    <2>1. Len(all) = Len(route) + 1
      <3>1. route \in Seq(Client)
        BY RoutesAssumption
      <3> QED
        BY <1>1, <3>1
    <2> QED
      BY <1>1, <1>3, <2>1 DEF CommitMessage, SkeMessage
  <1>5. /\ IsSke(NewSkeMember) /\ NewSkeMember.privKey = NoValue
        /\ NewSkeMember.sid = NoValue /\ NewSkeMember.authd = {}
    BY DEF NewSkeMember, IsSke, NoValue
  <1>6. t.members = to /\ t.sid = NoValue /\ t.authd = {}
    <2>1. t.members = msg.members /\ t.sid = NewSkeMember.sid /\ t.authd = NewSkeMember.authd
      BY <1>2, <1>4, <1>5, SkeUpflowFacts
    <2> QED
      BY <1>4, <1>5, <2>1
  <1>7. /\ MadeOf(gs[c], NoGreeting, k, t, to) /\ Resumes(NoGreeting, NoStore)
    <2>1. gs[c] = [[NoGreeting EXCEPT !.cliques = k, !.ske = t] EXCEPT !.next = to]
      BY <1>1, <1>2 DEF StartGreeting, Commit
    <2>2. Resumes(NoGreeting, NoStore)
      BY EmptyStore, NewGreetingResumes DEF NoGreeting
    <2> QED
      BY <2>1, <2>2, GreetingMade DEF Resumes
  <1>8. \A d \in Client : session[d] = Summary!NoSession /\ store[d] = NoStore
    BY DEF SessionsSame, Group
  <1>9. PICK sid, who : sid = Summary!NoSid /\ who = {}
    OBVIOUS
  <1>10. SumMade(ss[c], {c}, to, p, sid, who)
    <2>1. PICK sess, r : sess = session[c] /\ r = ss[c]
      OBVIOUS
    <2>2. sess = Summary!NoSession /\ PrevOf(c, sess) = {c}
      BY <1>8, <2>1 DEF PrevOf
    <2>3. SumMade(r, PrevOf(c, sess), to, p, ProposedSid(sess, route, p),
                  ProposedAuthd(c, sess, route))
      BY <1>1, <2>1, SumProposedGreeting
    <2>4. ProposedSid(sess, route, p) = sid /\ ProposedAuthd(c, sess, route) = who
      BY <1>9, <2>2 DEF ProposedSid, ProposedAuthd
    <2> QED
      BY <2>1, <2>2, <2>3, <2>4
  <1>11. IsOld(p, dr2) /\ sid # <<p, p>>
    <2>1. IsOld(p, dr2)
      BY <1>1, FreshIsDrawn DEF IsOld, Fresh
    <2> QED
      BY <1>9, <2>1, OldFacts DEF Summary!NoSid
  <1>12. \A d \in to : MembersBefore(d) # to
    <2>1. \A d \in to : MembersBefore(d) = {d}
      BY DEF MembersBefore
    <2>2. Head(route) \in to /\ c \in to /\ Head(route) # c
      BY <1>3
    <2> QED
      BY <2>1, <2>2
  <1>13. ProposerBegins(gs[c], ss[c], c, to, p)
    <2>1. PICK h, r : h = gs[c] /\ r = ss[c]
      OBVIOUS
    <2>2. r.sid = Summary!NoSid /\ h.ske.sid = NoValue
      BY <1>6, <1>7, <1>9, <1>10, <2>1 DEF SumMade, MadeOf
    <2>3. SameGreeting(h, r)
      BY <1>6, <1>7, <1>9, <1>10, <2>1, <2>2 DEF MadeOf, Resumes, SumMade, SameGreeting
    <2>4. \A d \in to \ {c} : r.sid = session[d].sid /\ h.ske.sid = store[d].ske.sid
      BY <1>8, <2>2, EmptyStore DEF Summary!NoSession
    <2>5. {c} # to
      BY <1>3
    <2> QED
      BY <1>10, <2>1, <2>3, <2>4, <2>5 DEF SumMade, ProposerBegins
  <1>14. GreetingsBegin(gs, ss, c, to)
    BY <1>12, <1>13, AllBegin
  <1>15. TellsProposal(pkt, c, to, route, p)
    BY <1>1 DEF StartPacket, Merge, SkeAnswer, SkeMessage, CommitMessage, SummaryProposal,
                TellsProposal
  <1>16. PICK full : full = <<p, p>>
    OBVIOUS
  <1>17. KnowsName(ss[c], c, to, p)
    <2>1. Summary!NoSession.sid = sid
      BY <1>9 DEF Summary!NoSession
    <2>2. ss[c].n = p /\ ss[c].sid = sid /\ sid # full
      BY <1>10, <1>11, <1>16 DEF SumMade
    <2> QED
      BY <1>8, <1>16, <2>1, <2>2 DEF KnowsName
  <1>18. PacketSame(gs, ss, pkt, to, dr2)
    BY <1>11, <1>14, <1>15, <1>17, UpwardBegins
  <1> QED
    BY <1>14, <1>18 DEF SameProposal, GreetingsBegin

(* A proposal that would begin the same is one more of those that do.      *)
LEMMA SumProposalKeeps ==
    ASSUME KeyInv, SameInv, next = {}, NEW c \in Client, NEW to, c \in to, NEW g,
           NEW pkt, pkt.members = to, NEW route, Proposes(c, to, g, pkt, route),
           \A dr2, gs, ss :
              /\ Grows(drawn, dr2) /\ dr2[c] = drawn[c] + 1 /\ gs[c] = [g EXCEPT !.next = to]
              /\ ss[c] = Summary!ProposedGreeting(c, session[c], to, route, Fresh(c))
              /\ to \subseteq Client /\ OthersBegin(gs, ss, c, to)
              => SameProposal(gs, ss, pkt, to, dr2),
           to \subseteq Client
    PROVE  SameInv'
  <1>1. PICK made, mine : /\ made = [g EXCEPT !.next = to]
                          /\ mine = Summary!ProposedGreeting(c, session[c], to, route, Fresh(c))
    OBVIOUS
  <1>2. PICK p : /\ proposals' = proposals \cup {p}
                 /\ p.by = c /\ p.packet = pkt /\ p.greeting = made /\ p.summary = mine
    <2>1. PICK q : q = [by |-> c, greeting |-> made, packet |-> pkt, summary |-> mine]
      OBVIOUS
    <2>2. proposals' = proposals \cup {q}
      BY <1>1, <2>1 DEF Proposes
    <2>3. q.by = c /\ q.packet = pkt /\ q.greeting = made /\ q.summary = mine
      BY <2>1
    <2> QED
      BY <2>2, <2>3
  <1>3. /\ store' = store /\ next' = next /\ greeting' = greeting /\ flight' = flight
        /\ session' = session /\ summary' = summary
        /\ drawn' = [d \in Client |-> IF d \in {c} THEN drawn[d] + 1 ELSE drawn[d]]
    BY DEF Proposes, Draws
  <1>4. Grows(drawn, drawn') /\ drawn'[c] = drawn[c] + 1
    <2>1. drawn \in [Client -> Nat]
      BY DEF KeyInv
    <2>2. drawn'[c] = drawn[c] + 1
      BY <1>3, <2>1
    <2>3. \A d \in Client : drawn[d] \in Nat /\ drawn'[d] \in Nat /\ drawn[d] <= drawn'[d]
      BY <1>3, <2>1
    <2> QED
      BY <2>2, <2>3 DEF Grows
  <1>5. SessionsSame'
    BY <1>3, <1>4, SessionsStay DEF SameInv
  <1>6. Group' = Group
    BY <1>3 DEF Group
  <1>7. \A q : Beginning(q)' = Beginning(q) /\ SummaryBeginning(q)' = SummaryBeginning(q)
    BY <1>3, <1>6 DEF Beginning, SummaryBeginning
  <1>8. SameProposal(Beginning(p), SummaryBeginning(p), pkt, to, drawn')
    <2>1. PICK gs, ss, dr2 : /\ gs = Beginning(p) /\ ss = SummaryBeginning(p)
                             /\ dr2 = drawn'
      OBVIOUS
    <2>2. gs[c] = [g EXCEPT !.next = to]
      BY <1>1, <1>2, <2>1 DEF Beginning
    <2>3. ss[c] = Summary!ProposedGreeting(c, session[c], to, route, Fresh(c))
      BY <1>1, <1>2, <2>1 DEF SummaryBeginning
    <2>4. OthersBegin(gs, ss, c, to)
      BY <1>2, <2>1 DEF Beginning, SummaryBeginning, OthersBegin
    <2>5. Grows(drawn, dr2) /\ dr2[c] = drawn[c] + 1
      BY <1>4, <2>1
    <2>6. SameProposal(gs, ss, pkt, to, dr2)
      BY <2>2, <2>3, <2>4, <2>5
    <2> QED
      BY <2>1, <2>6
  <1>9. ASSUME NEW q \in proposals'
        PROVE  SameProposal(Beginning(q), SummaryBeginning(q), q.packet, q.packet.members,
                            drawn')
    <2>1. CASE q = p
      BY <1>2, <1>8, <2>1
    <2>2. CASE q \in proposals
      <3>1. PICK gs, ss, pk, qto : /\ gs = Beginning(q) /\ ss = SummaryBeginning(q)
                                   /\ pk = q.packet /\ qto = q.packet.members
        OBVIOUS
      <3>2. GreetingsSame(gs, ss, qto) /\ PacketSame(gs, ss, pk, qto, drawn)
        BY <2>2, <3>1 DEF SameInv, ProposalsSame
      <3>3. PacketSame(gs, ss, pk, qto, drawn')
        BY <1>4, <3>2, PacketStays
      <3> QED
        BY <3>1, <3>2, <3>3 DEF SameProposal
    <2> QED
      BY <1>2, <2>1, <2>2
  <1>10. ProposalsSame'
    BY <1>7, <1>9 DEF ProposalsSame, SameProposal
  <1>11. OperationSame' /\ summary' = [d \in Client |-> summary'[d]]
    <2>1. flight' = {} /\ next' = {}
      BY <1>3 DEF KeyInv, OperationFits
    <2>2. summary' = [d \in Client |-> summary'[d]]
      BY <1>3 DEF SameInv
    <2> QED
      BY <2>1, <2>2 DEF OperationSame, GreetingsSame
  <1> QED
    BY <1>5, <1>10, <1>11 DEF SameInv

(* start keeps the invariant.                                              *)
LEMMA SumStart ==
    ASSUME KeyInv, SameInv, NEW c \in Client, NEW route \in Routes, Start(c, route)
    PROVE  SameInv'
  <1>1. PICK to, g, pkt : /\ to = {c} \cup Range(route) /\ g = StartGreeting(c, route, to)
                          /\ pkt = StartPacket(c, route, to, g)
    OBVIOUS
  <1>2. /\ next = {} /\ Group = {} /\ route # <<>> /\ c \notin Range(route)
        /\ Proposes(c, to, g, pkt, route)
    BY <1>1 DEF Start, MayPropose
  <1>3. drawn \in [Client -> Nat] /\ StoresKeyed /\ SessionsSame
    BY DEF KeyInv, SameInv
  <1>4. route \in Seq(Client)
    BY RoutesAssumption
  <1>5. to \subseteq Client /\ c \in to
    BY <1>1, <1>4 DEF Range
  <1>6. pkt.members = to
    BY <1>1 DEF StartPacket, Merge, SkeAnswer, SkeMessage, CommitMessage
  <1>7. pkt.route = route
    <2>1. pkt.route = Tail(<<c>> \o route)
      BY <1>1 DEF StartPacket, Merge, SkeAnswer, SkeMessage, CommitMessage
    <2> QED
      BY <1>4, <2>1
  <1>8. ASSUME NEW dr2, NEW gs, NEW ss, Grows(drawn, dr2), dr2[c] = drawn[c] + 1,
               gs[c] = [g EXCEPT !.next = to],
               ss[c] = Summary!ProposedGreeting(c, session[c], to, route, Fresh(c)),
               OthersBegin(gs, ss, c, to)
        PROVE  SameProposal(gs, ss, pkt, to, dr2)
    BY <1>1, <1>2, <1>3, <1>5, <1>7, <1>8, StartSame
  <1> QED
    BY <1>2, <1>5, <1>6, <1>8, SumProposalKeeps

(* include keeps the invariant.                                            *)
LEMMA SumInclude ==
    ASSUME KeyInv, SameInv, NEW c \in Client, NEW route \in Routes, Include(c, route)
    PROVE  SameInv'
  <1>1. PICK to, g, pkt : /\ to = store[c].ske.members \cup Range(route)
                          /\ g = IncludeGreeting(c, NewGreeting(store[c]), route, to)
                          /\ pkt = IncludePacket(c, route, to, g)
    OBVIOUS
  <1>2. /\ next = {} /\ c \in Group /\ store[c].ske.members \subseteq Group
        /\ route # <<>> /\ Range(route) \cap store[c].ske.members = {}
        /\ Proposes(c, to, g, pkt, route)
    BY <1>1 DEF Include, MayPropose
  <1>3. drawn \in [Client -> Nat] /\ StoresKeyed /\ SessionsSame
    BY DEF KeyInv, SameInv
  <1>4. to \subseteq Client /\ c \in to
    <2>1. route \in Seq(Client)
      BY RoutesAssumption
    <2>2. Range(route) \subseteq Client
      BY <2>1 DEF Range
    <2> QED
      BY <1>1, <1>2, <1>3, <2>2, GroupFits
  <1>5. pkt.members = to
    BY <1>1 DEF IncludePacket, Merge, SkeMessage
  <1>6. ASSUME NEW dr2, NEW gs, NEW ss, Grows(drawn, dr2), dr2[c] = drawn[c] + 1,
               gs[c] = [g EXCEPT !.next = to],
               ss[c] = Summary!ProposedGreeting(c, session[c], to, route, Fresh(c)),
               OthersBegin(gs, ss, c, to)
        PROVE  SameProposal(gs, ss, pkt, to, dr2)
    BY <1>1, <1>2, <1>3, <1>4, <1>6, IncludeSame
  <1> QED
    BY <1>2, <1>4, <1>5, <1>6, SumProposalKeeps

(* exclude keeps the invariant.                                            *)
LEMMA SumExclude ==
    ASSUME KeyInv, SameInv, NEW c \in Client, NEW others, ExcludeMembers(c, others)
    PROVE  SameInv'
  <1>1. PICK to, g, pkt, route : /\ to = store[c].ske.members \ others
                          /\ g = ExcludeGreeting(c, NewGreeting(store[c]), to)
                          /\ pkt = ExcludePacket(c, to, g) /\ route = <<>>
    OBVIOUS
  <1>2. /\ next = {} /\ c \in Group /\ to \subseteq Group /\ c \notin others
        /\ others # {} /\ others \subseteq store[c].ske.members
        /\ Proposes(c, to, g, pkt, route)
    BY <1>1 DEF ExcludeMembers, MayPropose
  <1>3. drawn \in [Client -> Nat] /\ StoresKeyed /\ SessionsSame
    BY DEF KeyInv, SameInv
  <1>4. to \subseteq Client /\ c \in to
    BY <1>1, <1>2, <1>3, GroupFits
  <1>5. pkt.members = to
    BY <1>1 DEF ExcludePacket, Merge, SkeMessage
  <1>6. ASSUME NEW dr2, NEW gs, NEW ss, Grows(drawn, dr2), dr2[c] = drawn[c] + 1,
               gs[c] = [g EXCEPT !.next = to],
               ss[c] = Summary!ProposedGreeting(c, session[c], to, route, Fresh(c)),
               OthersBegin(gs, ss, c, to)
        PROVE  SameProposal(gs, ss, pkt, to, dr2)
    BY <1>1, <1>2, <1>3, <1>4, <1>6, ExcludeSame
  <1> QED
    BY <1>2, <1>4, <1>5, <1>6, SumProposalKeeps

(* Who leaves is forgotten.                                                *)
LEMMA SumLeave ==
    ASSUME KeyInv, SameInv, NEW c \in Client, Leave(c)
    PROVE  SameInv'
  <1>1. /\ store' = [store EXCEPT ![c] = NoStore] /\ drawn' = drawn
        /\ session' = [session EXCEPT ![c] = Summary!NoSession]
        /\ proposals' = {p \in proposals : c \notin p.packet.members}
    BY DEF Leave
  <1>2. /\ store'[c] = NoStore /\ \A d \in Client : d # c => store'[d] = store[d]
    <2>1. store = [d \in Client |-> store[d]]
      BY DEF KeyInv, StoresKeyed
    <2> QED
      BY <1>1, <2>1
  <1>3. /\ session' = [d \in Client |-> session'[d]] /\ session'[c] = Summary!NoSession
        /\ \A d \in Client : d # c => session'[d] = session[d]
    <2>1. session = [d \in Client |-> session[d]]
      BY DEF SameInv, SessionsSame
    <2> QED
      BY <1>1, <2>1
  <1>4. Group' = Group \ {c}
    BY <1>2 DEF Group
  <1>5. SessionsSame'
    <2>1. \A d \in Client \ Group' : session'[d] = Summary!NoSession
      BY <1>3, <1>4 DEF SameInv, SessionsSame
    <2>2. \A d \in Group' : /\ session'[d] = session[d] /\ store'[d] = store[d]
                            /\ d \in Group /\ d \in Client
      BY <1>2, <1>3, <1>4 DEF Group
    <2>3. \A d \in Group' : /\ session'[d].members = store'[d].ske.members
                            /\ IsOld(session'[d].sid[1], drawn')
      BY <1>1, <2>2 DEF SameInv, SessionsSame
    <2>4. \A d, e \in Group' : session'[d].sid = session'[e].sid
      BY <2>2 DEF SameInv, SessionsSame
    <2> QED
      BY <1>3, <2>1, <2>3, <2>4 DEF SessionsSame
  <1>6. Grows(drawn, drawn)
    BY DEF KeyInv, Grows
  <1>7. ASSUME NEW gs, NEW ss, NEW hs, NEW ts, NEW to, NEW pkt,
               \A d \in to : hs[d] = gs[d] /\ ts[d] = ss[d], PacketSame(gs, ss, pkt, to, drawn)
        PROVE  PacketSame(hs, ts, pkt, to, drawn)
    BY <1>6, <1>7, PacketStays
  <1>8. ProposalsSame'
    <2> SUFFICES ASSUME NEW p \in proposals'
                 PROVE  SameProposal(Beginning(p)', SummaryBeginning(p)', p.packet,
                                     p.packet.members, drawn)
      BY <1>1 DEF ProposalsSame, SameProposal
    <2>1. PICK gs, ss, hs, ts, to, pkt :
             /\ gs = Beginning(p) /\ ss = SummaryBeginning(p)
             /\ hs = Beginning(p)' /\ ts = SummaryBeginning(p)'
             /\ to = p.packet.members /\ pkt = p.packet
      OBVIOUS
    <2>2. p \in proposals /\ c \notin to /\ to \subseteq Client
      BY <1>1, <2>1 DEF KeyInv, ProposalsFit
    <2>3. GreetingsSame(gs, ss, to) /\ PacketSame(gs, ss, pkt, to, drawn)
      BY <2>1, <2>2 DEF SameInv, ProposalsSame
    <2>4. \A d \in to : hs[d] = gs[d] /\ ts[d] = ss[d]
      <3>1. ASSUME NEW d \in to PROVE hs[d] = gs[d]
        BY <1>2, <2>1, <2>2 DEF Beginning
      <3>2. ASSUME NEW d \in to PROVE ts[d] = ss[d]
        BY <1>3, <1>4, <2>1, <2>2 DEF SummaryBeginning
      <3> QED
        BY <3>1, <3>2
    <2>5. GreetingsSame(hs, ts, to) /\ PacketSame(hs, ts, pkt, to, drawn)
      BY <1>7, <2>3, <2>4, GreetingsStay
    <2> QED
      BY <2>1, <2>5 DEF SameProposal
  <1>9. CASE c \in next
    <2>1. next' = {} /\ flight' = {} /\ summary' = [d \in Client |-> Summary!NoGreeting]
      BY <1>9 DEF Leave
    <2>2. OperationSame'
      BY <2>1 DEF OperationSame, GreetingsSame
    <2>3. summary' = [d \in Client |-> summary'[d]]
      BY <2>1
    <2> QED
      BY <1>5, <1>8, <2>2, <2>3 DEF SameInv
  <1>10. CASE c \notin next
    <2>1. /\ next' = next /\ flight' = flight /\ greeting' = [greeting EXCEPT ![c] = NoGreeting]
          /\ summary' = [summary EXCEPT ![c] = Summary!NoGreeting]
      BY <1>10 DEF Leave
    <2>2. \A d \in next : greeting'[d] = greeting[d]
      <3>1. greeting = [d \in Client |-> greeting[d]] /\ next \subseteq Client
        BY DEF KeyInv
      <3> QED
        BY <1>10, <2>1, <3>1
    <2>3. /\ summary' = [d \in Client |-> summary'[d]]
          /\ \A d \in next : summary'[d] = summary[d]
      <3>1. summary = [d \in Client |-> summary[d]] /\ next \subseteq Client
        BY DEF KeyInv, SameInv
      <3> QED
        BY <1>10, <2>1, <3>1
    <2>4. OperationSame'
      <3>1. PICK gs, ss, hs, ts, to : /\ gs = greeting /\ ss = summary /\ to = next
                                      /\ hs = greeting' /\ ts = summary'
        OBVIOUS
      <3>2. GreetingsSame(gs, ss, to) /\ \A q \in flight : PacketSame(gs, ss, q, to, drawn)
        BY <3>1 DEF SameInv, OperationSame
      <3>3. \A d \in to : hs[d] = gs[d] /\ ts[d] = ss[d]
        BY <2>2, <2>3, <3>1
      <3>4. GreetingsSame(hs, ts, to)
        BY <3>2, <3>3, GreetingsStay
      <3>5. \A q \in flight : PacketSame(hs, ts, q, to, drawn)
        BY <1>7, <3>2, <3>3
      <3> QED
        BY <1>1, <2>1, <3>1, <3>4, <3>5 DEF OperationSame
    <2> QED
      BY <1>5, <1>8, <2>3, <2>4 DEF SameInv
  <1> QED
    BY <1>9, <1>10

-----------------------------------------------------------------------------
(* Who answers a packet, with keys and without.                            *)

(* The answer to pkt at c has no keys, and is what Greeting.tla says.      *)
LEMMA AnswersAlike ==
    ASSUME NEW g, NEW s, NEW c, NEW pkt, NEW sp, sp = pkt.summary[1],
           NEW answer, answer = Summary!RecvAnswer(s, c, sp, pkt.init),
           answer # <<>> <=> AnswersUpflow(g, c, pkt) \/ AnswersDownflow(g, c, pkt),
           answer # <<>> => answer[1].members = pkt.members
    PROVE  SameAnswer(g, s, c, pkt)
  BY DEF SameAnswer, SummaryAnswer

(* An answer of the greetings without keys names the members.              *)
NamesMembers(answer, to) == answer # <<>> /\ answer[1].members = to

(* The answer to an upflow is a packet to those members.                   *)
LEMMA UpAnswerMembers ==
    ASSUME NEW t, NEW c, NEW sp, NEW to, NEW answer, SumAnswersUp(t, c, sp, to, answer)
    PROVE  NamesMembers(answer, to)
  <1>1. CASE Len(sp.route) = 1
    <2>1. PICK a : a = Summary!DownPacket(t.sid, c, to)
      OBVIOUS
    <2>2. a.members = to
      BY <2>1 DEF Summary!DownPacket
    <2>3. answer = <<a>>
      BY <1>1, <2>1 DEF SumAnswersUp
    <2> QED
      BY <2>2, <2>3 DEF NamesMembers
  <1>2. CASE Len(sp.route) # 1
    <2>1. PICK a : a = Summary!UpPacket(sp.n, c, Tail(sp.route), to)
      OBVIOUS
    <2>2. a.members = to
      BY <2>1 DEF Summary!UpPacket
    <2>3. answer = <<a>>
      BY <1>2, <2>1 DEF SumAnswersUp
    <2> QED
      BY <2>2, <2>3 DEF NamesMembers
  <1> QED
    BY <1>1, <1>2

(* An upflow is answered by the member it is addressed to.                 *)
LEMMA UpflowAnswersAlike ==
    ASSUME NEW gs, NEW ss, NEW pkt, NEW to, NEW dr, Upward(gs, pkt, to, dr),
           GreetingsSame(gs, ss, to), PacketSame(gs, ss, pkt, to, dr), NEW c \in to
    PROVE  SameAnswer(gs[c], ss[c], c, pkt)
  <1>1. PICK sp, hs, ts, fresh, g, s :
           /\ sp = pkt.summary[1] /\ fresh = Fresh(c) /\ g = gs[c] /\ s = ss[c]
           /\ hs = [d \in to |-> Recv(gs[d], d, pkt, fresh)]
           /\ ts = [d \in to |-> Summary!Recv(ss[d], d, sp, pkt.init)]
    OBVIOUS
  <1>2. hs[c] = Recv(gs[c], c, pkt, fresh) /\ ts[c] = Summary!Recv(ss[c], c, sp, pkt.init)
    BY <1>1
  <1>3. PICK answer : answer = Summary!RecvAnswer(s, c, sp, pkt.init)
    OBVIOUS
  <1>4. /\ pkt.members = to /\ IsUpflow(pkt) /\ pkt.src \notin Range(pkt.route)
        /\ pkt.route \in Seq(Client) /\ IsInjective(pkt.route) /\ pkt.route # <<>>
        /\ g.quit = FALSE
    BY <1>1 DEF Upward, Collected, IsUpflow, Waits, TakesPart
  <1>5. ~ AnswersDownflow(g, c, pkt)
    BY <1>4 DEF AnswersDownflow
  <1>6. CASE c = Head(pkt.route)
    <2>1. AddsIts(g, s, hs[c], ts[c], c, sp, to, pkt.route, answer)
      BY <1>1, <1>2, <1>3, <1>6, UpflowSameHead
    <2>2. NamesMembers(answer, to)
      <3>1. PICK t : t = ts[c] /\ SumAnswersUp(t, c, sp, to, answer)
        BY <2>1 DEF AddsIts
      <3> QED
        BY <3>1, UpAnswerMembers
    <2>3. c \in Range(pkt.route)
      BY <1>4, <1>6, RouteTail
    <2>4. AnswersUpflow(g, c, pkt)
      BY <1>4, <1>6, <2>3 DEF AnswersUpflow, IsFor
    <2> QED
      BY <1>1, <1>3, <1>4, <2>2, <2>4, AnswersAlike DEF NamesMembers
  <1>7. CASE c # Head(pkt.route)
    <2>1. AddsNothing(g, s, hs[c], ts[c], sp, to, answer)
      BY <1>1, <1>2, <1>3, <1>7, UpflowSameOthers
    <2>2. answer = <<>>
      BY <2>1 DEF AddsNothing
    <2>3. ~ AnswersUpflow(g, c, pkt)
      BY <1>7 DEF AnswersUpflow
    <2> QED
      BY <1>1, <1>3, <1>5, <2>2, <2>3, AnswersAlike
  <1> QED
    BY <1>6, <1>7

(* The result is answered by every member but its sender.                  *)
LEMMA ResultAnswersAlike ==
    ASSUME NEW gs, NEW ss, NEW pkt, NEW to, NEW dr, Downward(gs, pkt, to, dr),
           GreetingsSame(gs, ss, to), PacketSame(gs, ss, pkt, to, dr), NEW c \in to
    PROVE  SameAnswer(gs[c], ss[c], c, pkt)
  <1>1. PICK sp, hs, ts, g, s :
           /\ sp = pkt.summary[1] /\ g = gs[c] /\ s = ss[c]
           /\ hs = [d \in to |-> Recv(gs[d], d, pkt, Fresh(d))]
           /\ ts = [d \in to |-> Summary!Recv(ss[d], d, sp, pkt.init)]
    OBVIOUS
  <1>2. /\ Receives(gs, hs, to, pkt)
        /\ \A d \in to : ts[d] = Summary!Recv(ss[d], d, sp, pkt.init)
    BY <1>1 DEF Receives
  <1>3. PICK answer : answer = Summary!RecvAnswer(s, c, sp, pkt.init)
    OBVIOUS
  <1>4. /\ pkt.members = to /\ ~ IsUpflow(pkt) /\ g.quit = FALSE
        /\ c # pkt.src => g.ske.sid # ComputeSid(pkt.nonces)
    BY <1>1 DEF Downward, Complemented, IsUpflow, Waits, TakesPart
  <1>5. /\ c # pkt.src => answer = <<Summary!ConfirmPacket(sp.sid, c, to)>>
        /\ c = pkt.src => answer = <<>>
    BY <1>1, <1>2, <1>3, ResultSameMember
  <1>6. ~ AnswersUpflow(g, c, pkt)
    BY <1>4 DEF AnswersUpflow
  <1>7. CASE c = pkt.src
    <2>1. ~ AnswersDownflow(g, c, pkt)
      BY <1>7 DEF AnswersDownflow, IsFor
    <2> QED
      BY <1>1, <1>3, <1>5, <1>6, <1>7, <2>1, AnswersAlike
  <1>8. CASE c # pkt.src
    <2>1. AnswersDownflow(g, c, pkt)
      BY <1>4, <1>8 DEF AnswersDownflow, IsFor, DownflowAnswers
    <2>2. answer # <<>> /\ answer[1].members = to
      <3>1. PICK a : a = Summary!ConfirmPacket(sp.sid, c, to)
        OBVIOUS
      <3>2. a.members = to
        BY <3>1 DEF Summary!ConfirmPacket
      <3>3. answer = <<a>>
        BY <1>5, <1>8, <3>1
      <3> QED
        BY <3>2, <3>3
    <2> QED
      BY <1>1, <1>3, <1>4, <2>1, <2>2, AnswersAlike
  <1> QED
    BY <1>7, <1>8

(* A confirmation is not answered.                                         *)
LEMMA ConfirmationAnswersAlike ==
    ASSUME NEW gs, NEW ss, NEW packets, NEW to, NEW dr,
           Confirming(gs, packets, to, dr), NEW pkt \in packets,
           GreetingsSame(gs, ss, to), PacketSame(gs, ss, pkt, to, dr), NEW c \in to
    PROVE  SameAnswer(gs[c], ss[c], c, pkt)
  <1>1. PICK sp, hs, ts, g, s :
           /\ sp = pkt.summary[1] /\ g = gs[c] /\ s = ss[c]
           /\ hs = [d \in to |-> Recv(gs[d], d, pkt, Fresh(d))]
           /\ ts = [d \in to |-> Summary!Recv(ss[d], d, sp, pkt.init)]
    OBVIOUS
  <1>2. /\ Receives(gs, hs, to, pkt)
        /\ \A d \in to : ts[d] = Summary!Recv(ss[d], d, sp, pkt.init)
    BY <1>1 DEF Receives
  <1>3. PICK answer : answer = Summary!RecvAnswer(s, c, sp, pkt.init)
    OBVIOUS
  <1>4. ConfirmationSame(g, s, hs[c], ts[c], sp, pkt.nonces, to, answer)
    BY <1>1, <1>2, <1>3, ConfirmationSameMember
  <1>5. answer = <<>> /\ g.ske.sid = ComputeSid(pkt.nonces)
    BY <1>4 DEF ConfirmationSame
  <1>6. ~ IsUpflow(pkt)
    BY DEF Confirming, Confirms, IsUpflow
  <1>7. ~ AnswersUpflow(g, c, pkt) /\ ~ AnswersDownflow(g, c, pkt)
    BY <1>5, <1>6 DEF AnswersUpflow, AnswersDownflow, DownflowAnswers
  <1> QED
    BY <1>1, <1>3, <1>5, <1>7, AnswersAlike

-----------------------------------------------------------------------------
(* The invariant holds at first and is kept by every step.                 *)
LEMMA SumInit == Init => SameInv
  <1> SUFFICES ASSUME Init PROVE SameInv
    OBVIOUS
  <1>1. /\ store = [c \in Client |-> NoStore] /\ proposals = {} /\ next = {} /\ flight = {}
        /\ session = [c \in Client |-> Summary!NoSession]
        /\ summary = [c \in Client |-> Summary!NoGreeting]
    BY DEF Init
  <1>2. Group = {}
    BY <1>1 DEF Group
  <1>3. SessionsSame
    BY <1>1, <1>2 DEF SessionsSame
  <1>4. OperationSame
    BY <1>1 DEF OperationSame, GreetingsSame
  <1>5. ProposalsSame
    BY <1>1 DEF ProposalsSame
  <1>6. summary = [c \in Client |-> summary[c]]
    BY <1>1
  <1> QED
    BY <1>3, <1>4, <1>5, <1>6 DEF SameInv

(* Every step keeps it.                                                    *)
LEMMA SumStep == KeyInv /\ SameInv /\ [Next]_vars => SameInv'
  <1> SUFFICES ASSUME KeyInv, SameInv, [Next]_vars PROVE SameInv'
    OBVIOUS
  <1>1. ASSUME NEW c \in Client, NEW route \in Routes, Start(c, route) PROVE SameInv'
    BY <1>1, SumStart
  <1>2. ASSUME NEW c \in Client, NEW route \in Routes, Include(c, route) PROVE SameInv'
    BY <1>2, SumInclude
  <1>3. ASSUME NEW c \in Client, NEW others \in SUBSET Client, ExcludeMembers(c, others)
        PROVE  SameInv'
    BY <1>3, SumExclude
  <1>4. ASSUME NEW c \in Client, Leave(c) PROVE SameInv'
    BY <1>4, SumLeave
  <1>5. ASSUME NEW p \in proposals, Accept(p) PROVE SameInv'
    BY <1>5, SumAccept
  <1>6. ASSUME NEW pkt \in flight, Receive(pkt) PROVE SameInv'
    BY <1>6, SumReceive
  <1>7. CASE UNCHANGED vars
    <2>1. /\ store' = store /\ drawn' = drawn /\ proposals' = proposals /\ next' = next
          /\ greeting' = greeting /\ flight' = flight /\ session' = session
          /\ summary' = summary
      BY <1>7 DEF vars, keyVars
    <2>2. Group' = Group
      BY <2>1 DEF Group
    <2>3. \A p : Beginning(p)' = Beginning(p) /\ SummaryBeginning(p)' = SummaryBeginning(p)
      BY <2>1, <2>2 DEF Beginning, SummaryBeginning
    <2>4. SessionsSame'
      BY <2>1, <2>2 DEF SameInv, SessionsSame
    <2>5. ProposalsSame'
      BY <2>1, <2>3 DEF SameInv, ProposalsSame
    <2>6. OperationSame' /\ summary' = [c \in Client |-> summary'[c]]
      BY <2>1 DEF SameInv, OperationSame
    <2> QED
      BY <2>4, <2>5, <2>6 DEF SameInv
  <1> QED
    BY <1>1, <1>2, <1>3, <1>4, <1>5, <1>6, <1>7 DEF Next

(* Both tales go on alike: the greetings of the ongoing operation, those   *)
(* that a proposal on the way would begin, and the sessions they lead to   *)
(* distinguish the same session ids with keys and without, and what was    *)
(* sent corresponds packet by packet.                                      *)
THEOREM SameInvHolds == Spec => [](KeyInv /\ SameInv)
  <1>1. Init => KeyInv /\ SameInv
    BY KeyInit, SumInit
  <1>2. KeyInv /\ SameInv /\ [Next]_vars => (KeyInv /\ SameInv)'
    BY KeyStep, SumStep
  <1> QED
    BY <1>1, <1>2, PTL DEF Spec

(* Greeting.tla, which GroupSession takes for the greetings of its         *)
(* members, is right to leave the keys out: whatever is proposed, members, *)
(* authentications, completions and answers are those of the greetings     *)
(* with keys, and session ids differ when theirs do (class Greeting with   *)
(* CliquesMember and SignatureKeyExchangeMember).                          *)
THEOREM SummariesAlwaysAgree == Spec => []SummariesAgree
  <1>1. KeyInv /\ SameInv => SummariesAgree
    <2> SUFFICES ASSUME KeyInv, SameInv PROVE SummariesAgree
      OBVIOUS
    <2>1. PICK gs, ss, to, packets : /\ gs = greeting /\ ss = summary /\ to = next
                                     /\ packets = flight
      OBVIOUS
    <2>2. GreetingsSame(gs, ss, to) /\ \A pkt \in packets : PacketSame(gs, ss, pkt, to, drawn)
      BY <2>1 DEF SameInv, OperationSame
    <2>3. ASSUME NEW pkt \in packets PROVE pkt.summary # <<>>
      <3>1. pkt.summary = <<pkt.summary[1]>>
        BY <2>2 DEF PacketSame
      <3> QED
        BY <3>1
    <2>4. ASSUME NEW pkt \in packets, NEW c \in to PROVE SameAnswer(gs[c], ss[c], c, pkt)
      <3>0. IsUnderWay
        BY <2>1, <2>4 DEF KeyInv, OperationFits
      <3>1. CASE \E q \in flight : flight = {q} /\ Stage(greeting, q, next, drawn)
        <4>1. Stage(gs, pkt, to, drawn)
          BY <2>1, <3>1
        <4> QED
          BY <2>2, <4>1, UpflowAnswersAlike, ResultAnswersAlike DEF Stage
      <3>2. CASE Confirming(greeting, flight, next, drawn) /\ Excluded(greeting, next)
        <4>1. Confirming(gs, packets, to, drawn)
          BY <2>1, <3>2
        <4> QED
          BY <2>2, <4>1, ConfirmationAnswersAlike
      <3> QED
        BY <3>0, <3>1, <3>2 DEF IsUnderWay
    <2>5. \A c \in to : SameGreeting(gs[c], ss[c])
      BY <2>2 DEF GreetingsSame
    <2>6. \A c, d \in to : ss[c].sid = ss[d].sid <=> gs[c].ske.sid = gs[d].ske.sid
      BY <2>2 DEF GreetingsSame
    <2> QED
      BY <2>1, <2>3, <2>4, <2>5, <2>6 DEF SummariesAgree
  <1> QED
    BY <1>1, SameInvHolds, PTL

=============================================================================
