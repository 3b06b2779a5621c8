------------------------------ MODULE Greeting ------------------------------
(***************************************************************************)
(* One member's side of a key agreement: the class Greeting of             *)
(* greet/greeter.js with the two protocols it drives, Cliques              *)
(* (greet/cliques.js) and the authenticated signature key exchange         *)
(* (greet/ske.js).                                                         *)
(*                                                                         *)
(* A greeting that adds members goes up from the initiator through the     *)
(* new members, each adding its contribution, and the last of them         *)
(* broadcasts the result; a greeting that removes members is broadcast by  *)
(* its initiator.  Every other member then broadcasts a confirmation, and  *)
(* the greeting is complete at a member when it has seen a signature of    *)
(* every member, its own echo included.                                    *)
(*                                                                         *)
(* Keys, nonces and signatures are symbolic.  A session id is a hash of    *)
(* the members' nonces, and every greeting draws new ones, so a session id *)
(* is the pair of the proposal whose contributions it is made of and of    *)
(* the greeting in which the last contribution was added.                  *)
(*                                                                         *)
(* The module has no variables; a greeting is a record and each method an  *)
(* operator.  Failed assertions of the code are the field err.             *)
(***************************************************************************)
EXTENDS Naturals, Sequences, FiniteSets

NoProposal == <<"none", 0>>
NoSid == <<NoProposal, NoProposal>>
NoSession == [sid |-> NoSid, members |-> {}]

(* Sessions between sub-sessions; no greeting.                             *)
NoGreeting == [n |-> NoProposal, prev |-> {}, next |-> {}, mem |-> {}, sid |-> NoSid,
               authd |-> {}, recvOwn |-> FALSE, quit |-> FALSE, fin |-> 0, err |-> FALSE]

(* The Greeting constructor: it starts from the store of the session the   *)
(* member is in.  authd = {} stands for an empty authenticatedMembers.     *)
NewGreeting(c, sess) ==
    [NoGreeting EXCEPT !.prev = IF sess = NoSession THEN {c} ELSE sess.members,
                       !.mem = sess.members, !.sid = sess.sid]

-----------------------------------------------------------------------------
(* The wire packets.  "init" packets carry the metadata of a proposal; n   *)
(* identifies the proposal (its nonces make every one unique).  An upflow  *)
(* packet is addressed to the head of its route.                           *)
InitPacket(n, src, flow, route, members, sid, prevPf, prevCh) ==
    [t |-> "init", n |-> n, src |-> src, flow |-> flow, route |-> route,
     members |-> members, sid |-> sid, prevPf |-> prevPf, prevCh |-> prevCh]
UpPacket(n, src, route, members) ==
    [t |-> "up", n |-> n, src |-> src, route |-> route, members |-> members]
DownPacket(sid, src, members) ==
    [t |-> "down", sid |-> sid, src |-> src, members |-> members]
ConfirmPacket(sid, src, members) ==
    [t |-> "confirm", sid |-> sid, src |-> src, members |-> members]

IsGreet(pkt) == pkt.t \in {"init", "up", "down", "confirm"}
IsUpflow(pkt) == pkt.t = "up" \/ (pkt.t = "init" /\ pkt.flow = "up")
IsDownflow(pkt) == IsGreet(pkt) /\ ~ IsUpflow(pkt)

-----------------------------------------------------------------------------
(* Greeter.encode with start, include and exclude: the initiator's         *)
(* greeting and the proposal it sends.  route orders the included members. *)
ProposedGreeting(c, sess, next, route, n) ==
    LET g == [NewGreeting(c, sess) EXCEPT !.n = n, !.next = next, !.mem = next]
    IN  IF route = <<>> THEN [g EXCEPT !.sid = <<n, n>>, !.authd = {c}]
        ELSE IF sess = NoSession THEN g
        ELSE [g EXCEPT !.sid = <<n, NoProposal>>, !.authd = {c}]

Proposal(c, next, route, n, prevPf, prevCh) ==
    IF route = <<>>
    THEN InitPacket(n, c, "down", route, next, <<n, n>>, prevPf, prevCh)
    ELSE InitPacket(n, c, "up", route, next, NoSid, prevPf, prevCh)

-----------------------------------------------------------------------------
YetToAuthenticate(g) == IF g.authd = {} THEN {} ELSE g.mem \ g.authd
IsSessionAcknowledged(g) == g.authd # {} /\ g.mem \subseteq g.authd

\* Mutant: the packet is final before the own one came back.
FinalBeforeEcho(g, c, src) ==
    IF src = c THEN YetToAuthenticate(g) = {} ELSE YetToAuthenticate(g) = {src}

(* _expectsFinalMessage, and the assertion it starts with.                 *)
ExpectsFinalMessage(g, c, src) ==
    IF src = c THEN YetToAuthenticate(g) = {} /\ ~ g.recvOwn
    ELSE YetToAuthenticate(g) = {src} /\ g.recvOwn
ExpectsFinalFails(g) == YetToAuthenticate(g) = {} /\ g.recvOwn

(* _maybeFulfill: complete the greeting once everybody has signed.         *)
MaybeFulfill(g) ==
    IF g.prev = g.next \/ (IsSessionAcknowledged(g) /\ g.recvOwn)
    THEN [g EXCEPT !.fin = 1, !.err = @ \/ g.next # g.mem \/ g.fin # 0]
    ELSE g

\* Mutant: the session id known first is kept.
DownflowKeepsSid(g, c, pkt) ==
    [g EXCEPT !.mem = pkt.members, !.sid = IF @ = NoSid THEN pkt.sid ELSE @,
              !.authd = @ \cup {c, pkt.src}]

(* ske downflow: a session id other than the known one replaces all that   *)
(* was known of the exchange.                                              *)
Downflow(g, c, pkt) ==
    IF g.sid = pkt.sid
    THEN [g EXCEPT !.authd = @ \cup {pkt.src}]
    ELSE [g EXCEPT !.mem = pkt.members, !.sid = pkt.sid, !.authd = {c, pkt.src}]

(* ske and cliques upflow at the member the packet is addressed to.        *)
Upflow(g, c, pkt) ==
    IF Len(pkt.route) = 1
    THEN [g EXCEPT !.mem = pkt.members, !.sid = <<pkt.n, g.n>>, !.authd = {c}]
    ELSE [g EXCEPT !.mem = pkt.members]

(* What the member sends in answer to pkt, given its greeting before it.   *)
Answer(g, c, pkt) ==
    IF g.quit \/ c \notin pkt.members \/ pkt.src = c THEN <<>>
    ELSE IF IsDownflow(pkt)
         THEN IF g.sid = pkt.sid THEN <<>> ELSE <<ConfirmPacket(pkt.sid, c, pkt.members)>>
    ELSE IF Head(pkt.route) # c THEN <<>>
    ELSE IF Len(pkt.route) = 1 THEN <<DownPacket(<<pkt.n, g.n>>, c, pkt.members)>>
    ELSE <<UpPacket(pkt.n, c, Tail(pkt.route), pkt.members)>>

(* _processMessage.                                                        *)
ProcessMessage(g, c, pkt) ==
    IF g.quit THEN g
    ELSE IF c \notin pkt.members
         THEN [g EXCEPT !.quit = TRUE,
                        !.fin = IF Cardinality(pkt.members) = 1 THEN 1 ELSE @]
    ELSE IF pkt.src = c THEN MaybeFulfill([g EXCEPT !.recvOwn = @ \/ IsDownflow(pkt)])
    ELSE IF IsDownflow(pkt) THEN MaybeFulfill(Downflow(g, c, pkt))
    ELSE IF Head(pkt.route) # c THEN g
    ELSE MaybeFulfill(Upflow(g, c, pkt))

(* The first packet of a greeting is the proposal that was accepted; it    *)
(* settles the proposal's identity and the next members.                   *)
Started(g, pkt) ==
    IF g.next = {} THEN [g EXCEPT !.n = pkt.n, !.next = pkt.members] ELSE g

(* Greeting.recv.  Another proposal is ignored once one is in progress.    *)
Recv(g, c, pkt, first) ==
    IF g.fin # 0 THEN [g EXCEPT !.err = TRUE]
    ELSE IF ~ IsGreet(pkt) \/ (pkt.t = "init" /\ ~ first) THEN g
    ELSE ProcessMessage(Started(g, pkt), c, pkt)

RecvAnswer(g, c, pkt, first) ==
    IF g.fin # 0 \/ ~ IsGreet(pkt) \/ (pkt.t = "init" /\ ~ first) THEN <<>>
    ELSE Answer(Started(g, pkt), c, pkt)

=============================================================================
