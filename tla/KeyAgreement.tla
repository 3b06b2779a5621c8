---------------------------- MODULE KeyAgreement ----------------------------
(***************************************************************************)
(* Sessions that follow one another, with the keys their greetings agree   *)
(* on: what Greeter and Greeting (greet/greeter.js) do with Cliques and    *)
(* the signature key exchange.  Greeting.tla tells the same story without  *)
(* keys, for HybridSession; its greetings and sessions are carried along   *)
(* (summary, session, and the field summary of packets) to show that it    *)
(* is right.                                                               *)
(*                                                                         *)
(* The server gives every packet one place in the order in which all       *)
(* receive them.  A member does nothing but what the packets it receives   *)
(* tell it to, so that a packet is handled by all in one step; packets     *)
(* sent but not ordered yet are in flight, and are ordered in any way.     *)
(* Proposals compete, and the first to be ordered is accepted              *)
(* (ServerOrder.tla).  Packets of an operation that was aborted are        *)
(* discarded.                                                              *)
(***************************************************************************)
EXTENDS Cliques, SignatureKeyExchange, FiniteSets, SequencesExt

CONSTANTS Client,
          Routes,    \* orders in which members are added
          MaxDraws   \* bounds how often a client draws random values

ASSUME ClientAssumption == IsFiniteSet(Client)
ASSUME DrawsAssumption == MaxDraws \in Nat
ASSUME RoutesAssumption ==
    \A route \in Routes : route \in Seq(Client) /\ IsInjective(route)
ASSUME PrivKeyAssumption == PrivKey = Client \X (1 .. MaxDraws)

Summary == INSTANCE Greeting

VARIABLES
    store,      \* [Client -> GreetStore of the session it is in]
    drawn,      \* [Client -> how often it has drawn random values]
    proposals,  \* proposals on the way, with the greetings they are made of
    next,       \* the members of the ongoing operation's session; {} if there is none
    greeting,   \* [Client -> Greeting of the ongoing operation]
    flight,     \* its packets that were sent, but not delivered yet
    session, summary  \* [Client -> session, greeting as Greeting.tla has them]

keyVars == <<store, drawn, proposals, next, greeting, flight>>
vars == <<keyVars, session, summary>>

-----------------------------------------------------------------------------
(* A GreetStore, and a Greeting that starts from one.                      *)
NoStore == [cliques |-> NewCliquesMember, ske |-> NewSkeMember]

NewGreeting(st) ==
    [cliques |-> st.cliques, ske |-> [st.ske EXCEPT !.authd = {}], next |-> {},
     recvOwn |-> FALSE, quit |-> FALSE, fin |-> 0, err |-> FALSE]
NoGreeting == NewGreeting(NoStore)

(* getResultState; a member that is left alone has no session.             *)
Alone(g) == Cardinality(g.ske.members) = 1
ResultState(g) == IF Alone(g) THEN NoStore ELSE [cliques |-> g.cliques, ske |-> g.ske]

Group == {c \in Client : store[c] # NoStore}

(* Every random value c draws now: private key, nonce, ephemeral key.      *)
Fresh(c) == <<c, drawn[c] + 1>>
MayDraw(c) == drawn[c] < MaxDraws
Draws(who) == drawn' = [c \in Client |-> IF c \in who THEN drawn[c] + 1 ELSE drawn[c]]

-----------------------------------------------------------------------------
(* _mergeMessages of the messages of both protocols, of the initial or any *)
(* later packet; confirmations have no part of the key agreement.  The     *)
(* packet is signed with the sender's ephemeral key.                       *)
Merge(km, sm, init, privKey, answer) ==
    [init |-> init, isGKA |-> TRUE, agreement |-> km.agreement, intKeys |-> km.intKeys,
     src |-> sm.src, route |-> sm.route, members |-> sm.members, nonces |-> sm.nonces,
     pubKeys |-> sm.pubKeys, signature |-> sm.signature, signedBy |-> ToPublicKey(privKey),
     summary |-> answer]
MergeConfirmation(agreement, sm, privKey, answer) ==
    [init |-> FALSE, isGKA |-> FALSE, agreement |-> agreement, intKeys |-> NoValue,
     src |-> sm.src, route |-> sm.route, members |-> sm.members, nonces |-> sm.nonces,
     pubKeys |-> sm.pubKeys, signature |-> sm.signature, signedBy |-> ToPublicKey(privKey),
     summary |-> answer]

IsUpflow(pkt) == pkt.route # <<>>

(* decodeGreetMessage: the packet is verified with the key the receiver    *)
(* knows, if it takes part in an exchange and knows one, or with the key   *)
(* in the packet.                                                          *)
SigningKey(s, pkt) ==
    IF s.privKey # NoValue /\ pkt.src \in DOMAIN s.pubKeys THEN s.pubKeys[pkt.src]
    ELSE pkt.pubKeys[pkt.src]
MessageVerifies(s, pkt) == SigningKey(s, pkt) = pkt.signedBy

\* Mutant: the own packet need not have come back.
CompleteBeforeEcho(g) == IsSessionAcknowledged(g.ske)

(* _maybeFulfill, and the assertion it makes.  (That nothing changes, the  *)
(* other way to be complete, is never asked for.)                          *)
Complete(g) == IsSessionAcknowledged(g.ske) /\ g.recvOwn
MaybeFulfill(g) ==
    IF g.err \/ ~ Complete(g) THEN g
    ELSE IF g.fin # 0 \/ g.ske.members # g.next THEN [g EXCEPT !.err = TRUE]
    ELSE [g EXCEPT !.fin = 1]

(* What _processMessage does to the greeting: who is excluded quits, the   *)
(* own packet came back, downflow, and upflow addressed to c.              *)
Quit(g, pkt) ==
    [g EXCEPT !.quit = TRUE, !.fin = IF Cardinality(pkt.members) = 1 THEN 1 ELSE @]
OwnMessage(g, pkt) == [g EXCEPT !.recvOwn = @ \/ ~ IsUpflow(pkt)]
Downflow(g, c, pkt) ==
    [g EXCEPT !.cliques = IF pkt.isGKA THEN CliquesDownflow(@, c, pkt) ELSE @,
              !.ske = SkeDownflow(@, c, pkt), !.err = @ \/ ~ DownflowVerifies(g.ske, c, pkt)]
Upflow(g, c, pkt, fresh) ==
    [g EXCEPT !.cliques = CliquesUpflow(@, c, pkt, fresh), !.ske = SkeUpflow(@, c, pkt, fresh)]

IsFor(g, c, pkt) == ~ g.quit /\ c \in pkt.members /\ pkt.src # c
ProcessMessage(g, c, pkt, fresh) ==
    IF g.quit THEN g
    ELSE IF c \notin pkt.members THEN Quit(g, pkt)
    ELSE IF pkt.src = c THEN MaybeFulfill(OwnMessage(g, pkt))
    ELSE IF ~ IsUpflow(pkt) THEN MaybeFulfill(Downflow(g, c, pkt))
    ELSE IF Head(pkt.route) # c THEN g
    ELSE MaybeFulfill(Upflow(g, c, pkt, fresh))

(* recv; the first packet says who the next members are (no other packet   *)
(* has metadata, which recv would ignore).                                 *)
Started(g, pkt) == IF g.next = {} THEN [g EXCEPT !.next = pkt.members] ELSE g
Recv(g, c, pkt, fresh) ==
    IF g.fin # 0 \/ ~ MessageVerifies(g.ske, pkt) THEN [g EXCEPT !.err = TRUE]
    ELSE ProcessMessage(Started(g, pkt), c, pkt, fresh)

(* What c sends in answer, given its greeting before (g) and after (h) the *)
(* packet.                                                                 *)
AnswersUpflow(g, c, pkt) == IsFor(g, c, pkt) /\ IsUpflow(pkt) /\ Head(pkt.route) = c
AnswersDownflow(g, c, pkt) ==
    IsFor(g, c, pkt) /\ ~ IsUpflow(pkt) /\ DownflowAnswers(g.ske, pkt)
Answering(gs, pkt) ==
    {c \in Client : AnswersUpflow(gs[c], c, pkt) \/ AnswersDownflow(gs[c], c, pkt)}

SummaryAnswer(sum, c, pkt) == Summary!RecvAnswer(sum, c, pkt.summary[1], pkt.init)
AnswerTo(h, c, pkt, sum) ==
    IF IsUpflow(pkt)
    THEN Merge(CliquesAnswer(h.cliques, pkt), SkeAnswer(h.ske, c, pkt), FALSE, h.ske.privKey,
               SummaryAnswer(sum, c, pkt))
    ELSE MergeConfirmation(pkt.agreement, Confirmation(h.ske, c, pkt), h.ske.privKey,
                           SummaryAnswer(sum, c, pkt))

-----------------------------------------------------------------------------
Init ==
    /\ store = [c \in Client |-> NoStore]
    /\ drawn = [c \in Client |-> 0]
    /\ proposals = {}
    /\ next = {}
    /\ greeting = [c \in Client |-> NoGreeting]
    /\ flight = {}
    /\ session = [c \in Client |-> Summary!NoSession]
    /\ summary = [c \in Client |-> Summary!NoGreeting]

(* Greeter.encode: the proposal is made of a copy of the store, which the  *)
(* client keeps as it is.                                                  *)
Proposes(c, to, g, pkt, route) ==
    /\ proposals' = proposals \cup
            {[by |-> c, greeting |-> [g EXCEPT !.next = to], packet |-> pkt,
              summary |-> Summary!ProposedGreeting(c, session[c], to, route, Fresh(c))]}
    /\ Draws({c})
    /\ UNCHANGED <<store, next, greeting, flight, session, summary>>

MayPropose(c) == next = {} /\ MayDraw(c) /\ \A p \in proposals : p.by # c
SummaryProposal(c, to, route) ==
    <<Summary!Proposal(c, to, route, Fresh(c), Summary!NoProposal, <<>>)>>

(* start, include and exclude of Greeting; a route has no repetitions.     *)
StartGreeting(c, route, to) ==
    [NoGreeting EXCEPT !.cliques = Ika(c, route, to, Fresh(c)),
                       !.ske = Commit(c, route, to, Fresh(c))]
StartPacket(c, route, to, g) ==
    Merge(CliquesAnswer(g.cliques, IkaMessage(c, route, to)),
          SkeAnswer(g.ske, c, CommitMessage(c, route, to)), TRUE, g.ske.privKey,
          SummaryProposal(c, to, route))
Start(c, route) ==
    LET to == {c} \cup Range(route)
        g == StartGreeting(c, route, to)
    IN  /\ MayPropose(c) /\ Group = {} /\ route # <<>> /\ c \notin Range(route)
        /\ Proposes(c, to, g, StartPacket(c, route, to, g), route)

IncludeGreeting(c, g, route, to) ==
    [g EXCEPT !.cliques = AkaJoin(@, c, route, to, Fresh(c)), !.ske = Join(@, c, to, Fresh(c))]
IncludePacket(c, route, to, g) ==
    Merge(CliquesMessage("aka", route, to, g.cliques.intKeys),
          SkeMessage(c, route, to, g.ske.nonces, g.ske.pubKeys, NoValue), TRUE, g.ske.privKey,
          SummaryProposal(c, to, route))
Include(c, route) ==
    LET to == store[c].ske.members \cup Range(route)
        g == IncludeGreeting(c, NewGreeting(store[c]), route, to)
    IN  /\ MayPropose(c) /\ c \in Group /\ store[c].ske.members \subseteq Group
        /\ route # <<>> /\ Range(route) \cap store[c].ske.members = {}
        /\ Proposes(c, to, g, IncludePacket(c, route, to, g), route)

ExcludeGreeting(c, g, to) ==
    [g EXCEPT !.cliques = AkaExclude(@, c, to, Fresh(c)), !.ske = Exclude(@, c, to, Fresh(c))]
ExcludePacket(c, to, g) ==
    Merge(CliquesMessage("aka", <<>>, to, g.cliques.intKeys),
          SkeMessage(c, <<>>, to, g.ske.nonces, g.ske.pubKeys, SessionSig(g.ske, c)), TRUE,
          g.ske.privKey, SummaryProposal(c, to, <<>>))
ExcludeMembers(c, others) ==
    LET to == store[c].ske.members \ others
        g == ExcludeGreeting(c, NewGreeting(store[c]), to)
    IN  /\ MayPropose(c) /\ c \in Group /\ to \subseteq Group
        /\ c \notin others /\ others # {} /\ others \subseteq store[c].ske.members
        /\ Proposes(c, to, g, ExcludePacket(c, to, g), <<>>)

(* Everybody who takes part in an operation that leads to the members to   *)
(* handles pkt: its greeting is after[c] now.  When all members are done,  *)
(* the session begins; who is not in it has none any more.                 *)
Done(to, after) == \A d \in to : after[d].fin = 1
Handled(pkt, to, rest, gs, after, sums) ==
    /\ store' = [c \in Client |->
                    IF c \in to /\ after[c].fin = 1 THEN ResultState(after[c])
                    ELSE IF Done(to, after) THEN NoStore
                    ELSE store[c]]
    /\ IF Done(to, after)
       THEN /\ next' = {} /\ flight' = {}
            /\ greeting' = [c \in Client |-> NoGreeting]
       ELSE /\ next' = to /\ greeting' = after
            /\ flight' = rest \cup {AnswerTo(after[c], c, pkt, sums[c]) : c \in Answering(gs, pkt)}

(* The same, as Greeting.tla has it.                                       *)
ResultSession(sum) == [sid |-> sum.sid, members |-> sum.next]
Summarized(to, after, sums) ==
    /\ session' = [c \in Client |->
                      IF c \in to /\ after[c].fin = 1 /\ ~ Alone(after[c])
                      THEN ResultSession(sums[c])
                      ELSE IF Done(to, after) THEN Summary!NoSession
                      ELSE session[c]]
    /\ summary' = IF Done(to, after) THEN [c \in Client |-> Summary!NoGreeting] ELSE sums

(* A packet reaches everybody who takes part; gs and sums are their        *)
(* greetings before it.                                                    *)
Delivered(pkt, to, rest, gs, parties, sums) ==
    LET after == [c \in Client |-> IF c \in parties THEN Recv(gs[c], c, pkt, Fresh(c)) ELSE gs[c]]
    IN  /\ \A c \in Client : AnswersUpflow(gs[c], c, pkt) => MayDraw(c)
        /\ Draws({c \in Client : AnswersUpflow(gs[c], c, pkt)})
        /\ Handled(pkt, to, rest, gs, after, sums)
        /\ Summarized(to, after,
                      [c \in Client |-> IF c \in parties
                                        THEN Summary!Recv(sums[c], c, pkt.summary[1], pkt.init)
                                        ELSE sums[c]])

(* Greeter.decode of an accepted proposal: the proposer goes on with the   *)
(* greeting it made, the others start one.                                 *)
Beginning(p) ==
    [c \in Client |-> IF c = p.by THEN p.greeting ELSE NewGreeting(store[c])]
SummaryBeginning(p) ==
    [c \in Client |-> IF c = p.by THEN p.summary
                      ELSE IF c \in p.packet.members \cup Group
                           THEN Summary!NewGreeting(c, session[c])
                      ELSE Summary!NoGreeting]
Accept(p) ==
    /\ next = {}
    /\ Delivered(p.packet, p.packet.members, {}, Beginning(p), p.packet.members \cup Group,
                 SummaryBeginning(p))
    /\ proposals' = {}

Receive(pkt) ==
    /\ Delivered(pkt, next, flight \ {pkt}, greeting, next \cup Group, summary)
    /\ UNCHANGED proposals

(* c leaves the channel: that ends an operation it is to be a member of,   *)
(* and what would make it one comes to nothing.                            *)
Leave(c) ==
    /\ c \in Group \cup next
    /\ store' = [store EXCEPT ![c] = NoStore]
    /\ session' = [session EXCEPT ![c] = Summary!NoSession]
    /\ proposals' = {p \in proposals : c \notin p.packet.members}
    /\ IF c \in next
       THEN /\ next' = {} /\ flight' = {}
            /\ greeting' = [d \in Client |-> NoGreeting]
            /\ summary' = [d \in Client |-> Summary!NoGreeting]
       ELSE /\ greeting' = [greeting EXCEPT ![c] = NoGreeting]
            /\ summary' = [summary EXCEPT ![c] = Summary!NoGreeting]
            /\ UNCHANGED <<next, flight>>
    /\ UNCHANGED drawn

Next ==
    \/ \E c \in Client :
          \/ \E route \in Routes : Start(c, route) \/ Include(c, route)
          \/ \E others \in SUBSET Client : ExcludeMembers(c, others)
          \/ Leave(c)
    \/ \E p \in proposals : Accept(p)
    \/ \E pkt \in flight : Receive(pkt)

Spec == Init /\ [][Next]_vars

-----------------------------------------------------------------------------
(* The members of a session have the same key and the same session id      *)
(* (getResultState: "the result of the operation"), whoever did what in    *)
(* the operations before it.                                               *)
KeysAgree ==
    \A c, d \in Group :
        /\ store[c].cliques.groupKey = store[d].cliques.groupKey
        /\ store[c].ske.sid = store[d].ske.sid
        /\ store[c].ske.members = store[d].ske.members

(* What each member keeps is good for the next operation, whoever starts   *)
(* it: everybody's private keys fit the intermediate key each has for it   *)
(* (_renewPrivKey, _setKeys), and everybody's own nonce and ephemeral key  *)
(* are those the others have (join, exclude, upflow).                      *)
StoresFit ==
    \A c, d \in Group :
        /\ DeriveGroupKey(ComputeKeyList(store[d].cliques.privKeys,
                                         store[c].cliques.intKeys[d]))
              = store[c].cliques.groupKey
        /\ store[c].ske.nonces[d] = store[d].ske.nonce
        /\ store[c].ske.pubKeys[d] = ToPublicKey(store[d].ske.privKey)

(* No greeting refuses a packet of another member: signatures verify with  *)
(* what the receiver knows, of packets (decodeGreetMessage) and of the     *)
(* session (the exchange's downflow), nothing comes when it is done, and   *)
(* its members are those of the proposal in the end (_maybeFulfill).       *)
NothingRefused == \A c \in Client : ~ greeting[c].err

(* Greeting.tla is right to leave the keys out: the greetings it describes *)
(* go through the same members, authentications and answers, and their     *)
(* session ids differ when those of the exchange do.                       *)
SameGreeting(g, sum) ==
    /\ sum.mem = g.ske.members /\ sum.authd = g.ske.authd /\ sum.next = g.next
    /\ sum.recvOwn = g.recvOwn /\ sum.quit = g.quit /\ sum.fin = g.fin /\ sum.err = g.err
    /\ sum.sid = Summary!NoSid <=> g.ske.sid = NoValue
SameAnswer(g, sum, c, pkt) ==
    LET answers == SummaryAnswer(sum, c, pkt)
    IN  /\ answers # <<>> <=> AnswersUpflow(g, c, pkt) \/ AnswersDownflow(g, c, pkt)
        /\ answers # <<>> => answers[1].members = pkt.members
SummariesAgree ==
    /\ \A c \in next : SameGreeting(greeting[c], summary[c])
    /\ \A c, d \in next :
          summary[c].sid = summary[d].sid <=> greeting[c].ske.sid = greeting[d].ske.sid
    /\ \A pkt \in flight :
          /\ pkt.summary # <<>>
          /\ \A c \in next : SameAnswer(greeting[c], summary[c], c, pkt)

=============================================================================
