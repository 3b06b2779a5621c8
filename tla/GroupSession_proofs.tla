------------------------- MODULE GroupSession_proofs -------------------------
(***************************************************************************)
(* Proofs about GroupSession, of what each client keeps by itself,         *)
(* whatever the server, the other clients and the users do: the types, and *)
(* that its server order goes through a history of operations.             *)
(***************************************************************************)
EXTENDS GroupProperties, FiniteSetTheorems, SequenceTheorems, TLAPS

-----------------------------------------------------------------------------
(* Proposals, session ids, and what ids and hashes of packets commit to.   *)
Members == SUBSET Client
ProposalId == (Client \cup {"none"}) \X Nat
Sid == ProposalId \X ProposalId
InitialId == {NoId} \cup [k : {"init"}, n : ProposalId, to : Members]
Id ==
    InitialId
        \cup [k : {"new"}, by : Client, i : Nat]
        \cup [k : {"confirm"}, sid : Sid, src : Client, to : Members]
        \cup [k : {"leave"}, of : InitialId, who : Members, to : Members]
PacketTypes == {"new", "leave", "1", "2", "3"}
Chains == Seq(Id \X PacketTypes)

(* A server order is empty, or has one element more in opInitial than in   *)
(* opFinal while an operation is ongoing.                                  *)
OrderRecord ==
    [synced : BOOLEAN, seenPrevPf : SUBSET Id, packetId : Seq(Id), chainHash : Seq(Chains),
     opInitial : Seq(InitialId), opFinal : Seq(Id)]
IsHistory(o) ==
    IF o.synced
    THEN /\ o.opFinal # <<>> /\ o.chainHash # <<>>
         /\ Len(o.opInitial) \in {Len(o.opFinal), Len(o.opFinal) + 1}
    ELSE o.opInitial = <<>> /\ o.opFinal = <<>>
Order == {o \in OrderRecord : IsHistory(o)}

(* An operation as GreetingSummary describes it.                           *)
Op == [pId : Id, initial : BOOLEAN, final : BOOLEAN, members : Members,
       prevPf : Id, prevCh : Chains, prevPi : Id]
IsOperation(op) == op \in Op /\ (op.initial => op.pId \in InitialId)

(* What may happen to a server order in one task: what OpChain says.       *)
Starts(o, p) ==
    /\ o.opFinal # <<>> /\ Len(o.opInitial) = Len(o.opFinal)
    /\ \E x \in InitialId : p.opInitial = Append(o.opInitial, x) /\ ~ MemberOfSeq(x, o.opInitial)
    /\ p.opFinal = o.opFinal \/ \E x \in Id : p.opFinal = Append(o.opFinal, x)
Ends(o, p) ==
    /\ o.opFinal # <<>> /\ Len(o.opInitial) = Len(o.opFinal) + 1
    /\ p.opInitial = o.opInitial
    /\ \E x \in Id : p.opFinal = Append(o.opFinal, x)
Joins(o, p) ==
    /\ o.opFinal = <<>>
    /\ <<Len(p.opInitial), Len(p.opFinal)>> \in {<<1, 1>>, <<2, 1>>, <<2, 2>>}
Forgets(p) == p.opInitial = <<>> /\ p.opFinal = <<>>
Same(o, p) == p.opInitial = o.opInitial /\ p.opFinal = o.opFinal
HistoryStep(o, p) == Same(o, p) \/ Starts(o, p) \/ Ends(o, p) \/ Joins(o, p) \/ Forgets(p)

(* Packets.                                                                *)
Routes == Seq(Client) \ {<<>>}
InitPackets ==
    [t : {"init"}, n : ProposalId, src : Client, flow : {"up", "down"}, route : Seq(Client),
     members : Members \ {{}}, sid : Sid, prevPf : Id, prevCh : Chains]
UpPackets == [t : {"up"}, n : ProposalId, src : Client, route : Routes, members : Members]
DownPackets == [t : {"down", "confirm"}, sid : Sid, src : Client, members : Members]
Intents == [t : {"intent"}, sid : Sid, src : Client]
Pubtxts ==
    {pkt \in InitPackets : pkt.flow = "up" => pkt.route # <<>>} \cup UpPackets
        \cup DownPackets \cup Intents
ToServer ==
    Pubtxts \cup {EnterSelf, LeaveSelf} \cup [t : {"enterOthers", "kick"}, who : Members]
Notices ==
    [t : {"change"}, enter : Members, leave : Members]
        \cup [t : {"entered"}, members : Members] \cup {[t |-> "left"]}
FromServer == Pubtxts \cup Notices

(* Clients.                                                                *)
Sessions == [sid : Sid, members : Members]
Greetings ==
    [n : ProposalId, prev : Members, next : Members, mem : Members, sid : Sid, authd : Members,
     recvOwn : BOOLEAN, quit : BOOLEAN, fin : 0 .. 2, err : BOOLEAN]
OwnProposals == [n : ProposalId, prev : Id, open : BOOLEAN]
Phases == {"none", "started", "leaving", "entering", "proposed"}
OwnOps == [phase : Phases, inc : Members, exc : Members, toLeave : Members, rest : Members,
           n : ProposalId]
Tokens ==
    {"proposalAccepted", "proposalRejected", "greetingDone", "greetingFailed", "nextStep", "ownOp"}
Failures ==
    {"no", "tasks", "proposal", "notAppropriate", "ownProposalPrev", "syncNew",
     "changeSubSession", "greetingComplete", "greetingFail", "stayLast", "prevSessionFin",
     "othersEnter", "othersLeave", "greetingRecv", "internalState", "notEchoed",
     "expectsFinal", "includeSelf"}
ClientRecords ==
    [options : SUBSET {"autoIncludeExtra", "stayIfLastMember"},
     channel : Members, serverOrder : Order, channelJustSynced : BOOLEAN,
     moreSeniorThanUs : Members, taskExclude : Members, taskLeave : Members,
     current : Sessions, parting : {"no", "sent", "done"}, previous : Sid, prevFin : BOOLEAN,
     greeting : Greetings, currentPi : InitialId, pendingGreetPP : Members,
     proposed : Greetings, ownProposal : OwnProposals, ownOp : OwnOps, opInclude : Members,
     tryDecrypt : Seq(FromServer), retry : Nat, hadSuccess : BOOLEAN,
     micro : Seq(Tokens), out : Seq(ToServer), ret : BOOLEAN,
     proposals : Nat, syncs : Nat, fubar : Failures]

(* A session has its owner as a member, and a greeting somebody.           *)
Clients(c) ==
    {s \in ClientRecords :
        /\ s.current = NoSession \/ c \in s.current.members
        /\ s.proposed = NoGreeting \/ s.proposed.next # {}
        /\ s.greeting = NoGreeting \/ s.greeting.next # {} \/ Fubar(s)}

(* What a part of a task may do to the client c.                           *)
SameBuffer(s, t) == t.tryDecrypt = s.tryDecrypt /\ t.retry = s.retry
Moves(c, s, t) ==
    t \in Clients(c) /\ HistoryStep(s.serverOrder, t.serverOrder) /\ SameBuffer(s, t)
Keeps(c, s, t) == t \in Clients(c) /\ t.serverOrder = s.serverOrder /\ SameBuffer(s, t)

InBounds(s) == Len(s.tryDecrypt) <= Asynchronity /\ s.retry <= Len(s.tryDecrypt) + 1

GroupInv ==
    /\ session \in [Client -> ClientRecords]
    /\ \A c \in Client :
        session[c] \in Clients(c) /\ InBounds(session[c]) /\ session[c].out = <<>> /\ session[c].ret
    /\ members \in Members
    /\ incoming \in [Client -> Seq(ToServer)]
    /\ queues \in [Client -> Seq(FromServer)]
    /\ left \in Scenario

-----------------------------------------------------------------------------
(* Sequences.                                                              *)

(* The last element of a nonempty sequence (prevCh, prevPf, prevPi).        *)
LEMMA LastFacts ==
    ASSUME NEW S, NEW q \in Seq(S), q # <<>>
    PROVE  LastOf(q) \in S
  BY DEF LastOf

(* Appending to a sequence.                                                 *)
LEMMA AppendFacts ==
    ASSUME NEW S, NEW q \in Seq(S), NEW x \in S
    PROVE  Append(q, x) \in Seq(S) /\ Len(Append(q, x)) = Len(q) + 1
  OBVIOUS

(* Sequences of at most one element.                                        *)
LEMMA SingleFacts ==
    ASSUME NEW S
    PROVE  <<>> \in Seq(S) /\ \A x \in S : <<x>> \in Seq(S)
  OBVIOUS

(* Joining two sequences.                                                   *)
LEMMA ConcatFacts ==
    ASSUME NEW S, NEW p \in Seq(S), NEW q \in Seq(S)
    PROVE  p \o q \in Seq(S) /\ Len(p \o q) = Len(p) + Len(q)
  OBVIOUS

(* A finite set of clients has an order: the route of a proposal.           *)
LEMMA SetToSeqFacts ==
    ASSUME NEW S, IsFiniteSet(S)
    PROVE  SetToSeq(S) \in Seq(S)
<1>. DEFINE n == Cardinality(S)
<1>1. n \in Nat
  BY FS_CardinalityType
<1>2. PICK f : f \in Bijection(1 .. n, S)
  BY FS_CardinalityType DEF ExistsBijection
<1>3. f \in [1 .. n -> S] /\ IsInjective(f)
  BY <1>2 DEF Bijection, Injection, IsInjective, Surjection
<1>4. SetToSeq(S) \in [1 .. n -> S]
  BY <1>3 DEF SetToSeq
<1>. QED
  BY <1>1, <1>4

-----------------------------------------------------------------------------
(* The server order.                                                       *)

(* A cleared server order has no history (clear).                           *)
LEMMA UnsyncedFacts == Unsynced \in Order /\ Unsynced.synced = FALSE /\ Forgets(Unsynced)
  BY DEF Unsynced, NotSynced, Order, OrderRecord, IsHistory, Forgets

(* A server order that syncs knows one operation (syncWithPrev).            *)
LEMMA SyncWithPrevFacts ==
    ASSUME NEW id \in Id, NEW ch \in Chains
    PROVE  /\ SyncWithPrev(id, ch) \in Order /\ SyncWithPrev(id, ch).synced
           /\ Len(SyncWithPrev(id, ch).opInitial) = 1 /\ Len(SyncWithPrev(id, ch).opFinal) = 1
  BY DEF SyncWithPrev, Synced, Order, OrderRecord, IsHistory, InitialId

(* A chain hash is made of the one before and a packet.                     *)
LEMMA MakeChainHashFacts ==
    ASSUME NEW ch \in Chains, NEW id \in Id, NEW type \in PacketTypes
    PROVE  MakeChainHash(ch, id, type) \in Chains
<1>1. <<id, type>> \in Id \X PacketTypes
  OBVIOUS
<1>. QED
  BY <1>1 DEF MakeChainHash, Chains

(* The first member of a channel begins the order (syncNew).                *)
LEMMA SyncNewFacts ==
    ASSUME NEW id \in Id
    PROVE  /\ SyncNew(id) \in Order /\ SyncNew(id).synced
           /\ Len(SyncNew(id).opInitial) = 1 /\ Len(SyncNew(id).opFinal) = 1
<1>1. <<>> \in Chains
  BY DEF Chains
<1>2. "new" \in PacketTypes
  BY DEF PacketTypes
<1>3. MakeChainHash(<<>>, id, "new") \in Chains
  BY <1>1, <1>2, MakeChainHashFacts
<1>. QED
  BY <1>3, SyncWithPrevFacts DEF SyncNew

(* What a synced server order can be asked for.                             *)
LEMMA SyncedFacts ==
    ASSUME NEW o \in Order, o.synced
    PROVE  /\ PrevCh(o) \in Chains /\ PrevPf(o) \in Id
           /\ o.opInitial # <<>> => PrevPi(o) \in InitialId
           /\ o.opFinal # <<>> /\ o.opInitial # <<>>
  BY LastFacts DEF Order, OrderRecord, IsHistory, PrevCh, PrevPf, PrevPi

(* acceptInitial, when no operation is ongoing.                             *)
LEMMA AcceptInitialFacts ==
    ASSUME NEW o \in Order, o.synced, ~ HasOngoingOp(o), NEW x \in InitialId
    PROVE  /\ AcceptInitial(o, x) \in Order /\ AcceptInitial(o, x).synced
           /\ HasOngoingOp(AcceptInitial(o, x))
           /\ AcceptInitial(o, x).opInitial = Append(o.opInitial, x)
           /\ AcceptInitial(o, x).opFinal = o.opFinal
  BY DEF AcceptInitial, Synced, HasOngoingOp, Order, OrderRecord, IsHistory

(* acceptFinal, when an operation is ongoing.                               *)
LEMMA AcceptFinalFacts ==
    ASSUME NEW o \in Order, o.synced, HasOngoingOp(o), NEW x \in Id
    PROVE  /\ AcceptFinal(o, x) \in Order /\ AcceptFinal(o, x).synced
           /\ AcceptFinal(o, x).opInitial = o.opInitial
           /\ AcceptFinal(o, x).opFinal = Append(o.opFinal, x)
  BY DEF AcceptFinal, Synced, HasOngoingOp, Order, OrderRecord, IsHistory

(* updateServerOrder leaves the operations as they are.                     *)
LEMMA UpdateFacts ==
    ASSUME NEW o \in Order, o.synced, NEW x \in Id, NEW type \in PacketTypes
    PROVE  LET p == UpdateServerOrder(o, x, type)
           IN  p \in Order /\ p.synced /\ p.opInitial = o.opInitial /\ p.opFinal = o.opFinal
<1>1. MakeChainHash(PrevCh(o), x, type) \in Chains
  BY SyncedFacts, MakeChainHashFacts
<1>. QED
  BY <1>1 DEF UpdateServerOrder, Synced, Order, OrderRecord, IsHistory

(* tryOpPacket: whatever the packet, the history goes on.                  *)
LEMMA TryOpPacketFacts ==
    ASSUME NEW o \in Order, NEW owner \in Client, NEW op, IsOperation(op), NEW to \in Members
    PROVE  TryOpPacket(o, owner, op, to) \in Order /\ HistoryStep(o, TryOpPacket(o, owner, op, to))
<1>. DEFINE s == SyncFor(o, op)
            a == AfterInitial(s, op)
            f == AfterFinal(a, op)
            type == PacketType(op)
            p == TryOpPacket(o, owner, op, to)
<1>0. op.prevPf \in Id /\ op.prevCh \in Chains /\ op.pId \in Id /\ op.initial \in BOOLEAN
      /\ op.final \in BOOLEAN /\ (op.initial => op.pId \in InitialId)
  BY DEF IsOperation, Op
<1>1. CASE ~ Echoed(op, to)
  <2>1. p = o
    BY <1>1 DEF TryOpPacket
  <2>. QED
    BY <2>1 DEF HistoryStep, Same
<1>2. CASE Echoed(op, to) /\ ~ Syncs(o, owner, op)
  <2>1. ~ o.synced /\ (p = o \/ p = NotSynced(o.seenPrevPf \cup {op.prevPf}))
    BY <1>2 DEF TryOpPacket, Syncs
  <2>2. o.opInitial = <<>> /\ o.opFinal = <<>> /\ o.seenPrevPf \cup {op.prevPf} \in SUBSET Id
    BY <1>0, <2>1 DEF Order, OrderRecord, IsHistory
  <2>3. \A seen \in SUBSET Id : NotSynced(seen) \in Order /\ Same(o, NotSynced(seen))
    BY <2>2 DEF NotSynced, Order, OrderRecord, IsHistory, Same
  <2>4. p \in Order /\ Same(o, p)
    BY <2>1, <2>2, <2>3 DEF Same
  <2>. QED
    BY <2>4 DEF HistoryStep
<1>3. CASE Echoed(op, to) /\ Syncs(o, owner, op)
  <2>1. s \in Order /\ s.synced /\ (IF o.synced THEN s = o
                                    ELSE Len(s.opInitial) = 1 /\ Len(s.opFinal) = 1)
    BY <1>0, SyncWithPrevFacts DEF SyncFor
  <2>2. ~ o.synced => op.initial /\ o.opFinal = <<>>
    BY <1>3 DEF Syncs, Order, IsHistory
  <2>3. p = IF ~ InitialSuits(s, op) THEN s
            ELSE IF ~ FinalSuits(s, op) THEN a
            ELSE UpdateServerOrder(f, op.pId, type)
    BY <1>3 DEF TryOpPacket
  <2>4. CASE ~ InitialSuits(s, op)
    <3>1. p = s
      BY <2>3, <2>4
    <3>2. o.synced => Same(o, p)
      BY <3>1, <2>1 DEF Same
    <3>3. ~ o.synced => Joins(o, p)
      BY <3>1, <2>1, <2>2 DEF Joins
    <3>. QED
      BY <3>1, <3>2, <3>3, <2>1 DEF HistoryStep
  <2>5. ASSUME InitialSuits(s, op)
        PROVE  /\ a \in Order /\ a.synced /\ a.opFinal = s.opFinal
               /\ IF op.initial
                  THEN /\ ~ HasOngoingOp(s) /\ HasOngoingOp(a)
                       /\ a.opInitial = Append(s.opInitial, op.pId)
                       /\ ~ MemberOfSeq(op.pId, s.opInitial)
                  ELSE a = s
    <3>1. CASE op.initial
      <4>1. ~ HasOngoingOp(s) /\ ~ MemberOfSeq(op.pId, s.opInitial)
        BY <2>5, <3>1 DEF InitialSuits, ShouldAcceptInitial
      <4>. QED
        BY <4>1, <3>1, <1>0, <2>1, AcceptInitialFacts DEF AfterInitial
    <3>2. CASE ~ op.initial
      BY <3>2, <2>1 DEF AfterInitial
    <3>. QED
      BY <3>1, <3>2
  <2>6. ASSUME InitialSuits(s, op), ~ op.final \/ FinalSuits(s, op)
        PROVE  /\ f \in Order /\ f.synced /\ f.opInitial = a.opInitial
               /\ IF op.final THEN HasOngoingOp(a) /\ f.opFinal = Append(a.opFinal, op.pId)
                  ELSE f = a
    <3>1. CASE op.final
      <4>1. HasOngoingOp(a)
        BY <2>6, <3>1 DEF FinalSuits, ShouldAcceptFinal
      <4>. QED
        BY <4>1, <3>1, <1>0, <2>5, <2>6, AcceptFinalFacts DEF AfterFinal
    <3>2. CASE ~ op.final
      BY <3>2, <2>5, <2>6 DEF AfterFinal
    <3>. QED
      BY <3>1, <3>2
  <2>7. ASSUME InitialSuits(s, op)
        PROVE  p \in Order /\ p.opInitial = a.opInitial
               /\ p.opFinal \in {a.opFinal, Append(a.opFinal, op.pId)}
               /\ (p.opFinal = a.opFinal \/ HasOngoingOp(a))
    <3>1. CASE ~ FinalSuits(s, op)
      BY <3>1, <2>3, <2>5, <2>7
    <3>2. CASE FinalSuits(s, op)
      <4>1. type \in PacketTypes
        BY <1>0 DEF PacketType, PacketTypes
      <4>. HIDE DEF type, f, a, s
      <4>2. p = UpdateServerOrder(f, op.pId, type)
        BY <2>3, <2>7, <3>2
      <4>3. p \in Order /\ p.opInitial = f.opInitial /\ p.opFinal = f.opFinal
        BY <4>1, <4>2, <2>6, <2>7, <3>2, <1>0, UpdateFacts
      <4>. QED
        BY <4>3, <2>6, <2>7, <3>2
    <3>. QED
      BY <3>1, <3>2
  <2>8. CASE InitialSuits(s, op)
    <3>. HIDE DEF f, a, s
    <3>0. /\ o.opInitial \in Seq(InitialId) /\ o.opFinal \in Seq(Id)
          /\ s.opInitial \in Seq(InitialId) /\ s.opFinal \in Seq(Id)
      BY <2>1 DEF Order, OrderRecord
    <3>1. CASE ~ o.synced
      <4>1. a.opInitial = Append(s.opInitial, op.pId) /\ a.opFinal = s.opFinal
        BY <2>2, <2>5, <2>8, <3>1
      <4>2. op.pId \in InitialId /\ op.pId \in Id
        BY <2>2, <3>1, <1>0
      <4>0. Len(s.opInitial) = 1 /\ Len(s.opFinal) = 1
        BY <2>1, <3>1
      <4>3. Len(Append(s.opInitial, op.pId)) = Len(s.opInitial) + 1
        BY <4>2, <3>0, AppendFacts, Zenon
      <4>6. Len(Append(s.opFinal, op.pId)) = Len(s.opFinal) + 1
        BY <4>2, <3>0, AppendFacts, Zenon
      <4>4. Len(p.opInitial) = 2 /\ Len(p.opFinal) \in {1, 2}
        <5>1. /\ p.opInitial = a.opInitial
              /\ p.opFinal \in {a.opFinal, Append(a.opFinal, op.pId)}
          BY <2>7, <2>8
        <5>. HIDE DEF p
        <5>. QED
          <6>1. Len(Append(s.opInitial, op.pId)) = 2
            BY <4>0, <4>3
          <6>2. Len(Append(s.opFinal, op.pId)) = 2
            BY <4>0, <4>6
          <6>3. Len(p.opInitial) = 2
            BY <5>1, <4>1, <6>1
          <6>4. Len(p.opFinal) \in {1, 2}
            BY <5>1, <4>0, <4>1, <6>2, Zenon
          <6>. QED
            BY <6>3, <6>4
      <4>5. Joins(o, p)
        BY <4>4, <2>2, <3>1 DEF Joins
      <4>. QED
        BY <4>5, <2>7, <2>8 DEF HistoryStep
    <3>2. CASE o.synced /\ op.initial
      <4>1. s = o /\ ~ HasOngoingOp(o) /\ o.opFinal # <<>>
            /\ Len(o.opInitial) = Len(o.opFinal)
        BY <2>1, <2>5, <2>8, <3>2 DEF HasOngoingOp, Order, OrderRecord, IsHistory
      <4>2. Starts(o, p)
        BY <4>1, <2>5, <2>7, <2>8, <3>2, <1>0 DEF Starts
      <4>. QED
        BY <4>2, <2>7, <2>8 DEF HistoryStep
    <3>3. CASE o.synced /\ ~ op.initial
      <4>1. s = o /\ a = o /\ o.opFinal # <<>>
            /\ (HasOngoingOp(o) => Len(o.opInitial) = Len(o.opFinal) + 1)
        BY <2>1, <2>5, <2>8, <3>3 DEF HasOngoingOp, Order, OrderRecord, IsHistory
      <4>2. Same(o, p) \/ Ends(o, p)
        BY <4>1, <2>7, <2>8, <1>0 DEF Same, Ends
      <4>. QED
        BY <4>2, <2>7, <2>8 DEF HistoryStep
    <3>. QED
      BY <3>1, <3>2, <3>3, <2>1
  <2>. QED
    BY <2>4, <2>8
<1>. QED
  BY <1>1, <1>2, <1>3

(* acceptLeavePacket, when an operation is ongoing.                        *)
LEMMA AcceptLeavePacketFacts ==
    ASSUME NEW o \in Order, HasOngoingOp(o), NEW who \in Members, NEW to \in Members
    PROVE  AcceptLeavePacket(o, who, to) \in Order /\ HistoryStep(o, AcceptLeavePacket(o, who, to))
<1>. DEFINE id == LeavePacketId(o, who, to)
<1>1. o.synced
  BY DEF Order, IsHistory, HasOngoingOp
<1>2. id \in Id
  BY <1>1, SyncedFacts DEF LeavePacketId, Id
<1>. HIDE DEF id
<1>0. "leave" \in PacketTypes
  BY DEF PacketTypes
<1>3. /\ AcceptFinal(o, id) \in Order /\ AcceptFinal(o, id).synced
      /\ AcceptFinal(o, id).opInitial = o.opInitial
      /\ AcceptFinal(o, id).opFinal = Append(o.opFinal, id)
  BY <1>1, <1>2, AcceptFinalFacts
<1>4. LET p == UpdateServerOrder(AcceptFinal(o, id), id, "leave")
      IN  p \in Order /\ p.opInitial = o.opInitial /\ p.opFinal = Append(o.opFinal, id)
  BY <1>0, <1>2, <1>3, UpdateFacts
<1>5. AcceptLeavePacket(o, who, to) = UpdateServerOrder(AcceptFinal(o, id), id, "leave")
  BY DEF AcceptLeavePacket, id
<1>6. o.opFinal # <<>> /\ Len(o.opInitial) = Len(o.opFinal) + 1
  BY <1>1 DEF Order, OrderRecord, IsHistory, HasOngoingOp
<1>7. Ends(o, AcceptLeavePacket(o, who, to))
  BY <1>2, <1>4, <1>5, <1>6 DEF Ends
<1>. QED
  BY <1>4, <1>5, <1>7 DEF HistoryStep

-----------------------------------------------------------------------------
(* Greetings.                                                              *)

(* The values that stand for nothing have their types.                      *)
LEMMA NoGreetingFacts ==
    NoProposal \in ProposalId /\ NoSid \in Sid /\ NoSession \in Sessions /\ NoGreeting \in Greetings
  BY DEF NoProposal, NoSid, NoSession, NoGreeting, ProposalId, Sid, Sessions, Greetings, Members

(* The constructor of Greeting.                                             *)
LEMMA NewGreetingFacts ==
    ASSUME NEW c \in Client, NEW x \in Sessions
    PROVE  NewGreeting(c, x) \in Greetings
  BY NoGreetingFacts DEF NewGreeting, Sessions, Greetings, Members

(* Greeter.encode: a proposal, and the greeting behind it.                  *)
LEMMA ProposedFacts ==
    ASSUME NEW c \in Client, NEW x \in Sessions, NEW next \in Members, next # {},
           NEW route \in Seq(Client), NEW n \in ProposalId, NEW pf \in Id, NEW ch \in Chains
    PROVE  /\ ProposedGreeting(c, x, next, route, n) \in Greetings
           /\ ProposedGreeting(c, x, next, route, n).next = next
           /\ Proposal(c, next, route, n, pf, ch) \in Pubtxts
<1>1. <<n, n>> \in Sid /\ <<n, NoProposal>> \in Sid /\ NoSid \in Sid /\ {c} \in Members
  BY NoGreetingFacts DEF Sid, Members
<1>. DEFINE g0 == NewGreeting(c, x)
            g == [g0 EXCEPT !.n = n, !.next = next, !.mem = next]
<1>2. g0 \in Greetings
  BY NewGreetingFacts
<1>. HIDE DEF g0
<1>3. g \in Greetings /\ g.next = next
  BY <1>2 DEF Greetings
<1>4. \A sid \in Sid :
        LET h == [g EXCEPT !.sid = sid, !.authd = {c}] IN h \in Greetings /\ h.next = next
  <2>. HIDE DEF g
  <2>. QED
    BY <1>1, <1>3 DEF Greetings
<1>5. ProposedGreeting(c, x, next, route, n) \in
        {g, [g EXCEPT !.sid = <<n, n>>, !.authd = {c}],
         [g EXCEPT !.sid = <<n, NoProposal>>, !.authd = {c}]}
  BY DEF ProposedGreeting, g0
<1>. HIDE DEF g
<1>6. /\ ProposedGreeting(c, x, next, route, n) \in Greetings
      /\ ProposedGreeting(c, x, next, route, n).next = next
  BY <1>1, <1>3, <1>4, <1>5
<1>7. Proposal(c, next, route, n, pf, ch) \in Pubtxts
  BY <1>1 DEF Proposal, InitPacket, Pubtxts, InitPackets
<1>. QED
  BY <1>6, <1>7

(* What each kind of packet carries.                                        *)
LEMMA PubtxtFacts ==
    ASSUME NEW pkt \in Pubtxts
    PROVE  /\ pkt.src \in Client
           /\ IsGreet(pkt) => pkt.members \in Members
           /\ pkt.t = "init" => pkt \in InitPackets
           /\ IsUpflow(pkt) => pkt.n \in ProposalId /\ pkt.route \in Routes
           /\ IsDownflow(pkt) => pkt.sid \in Sid
           /\ pkt.t \in {"init", "up", "down", "confirm", "intent"}
           /\ pkt.t \in {"confirm", "intent"} => pkt.sid \in Sid
  BY DEF Pubtxts, InitPackets, UpPackets, DownPackets, Intents, IsGreet, IsUpflow, IsDownflow, Routes

(* _maybeFulfill leaves the next members as they are.                       *)
LEMMA MaybeFulfillFacts ==
    ASSUME NEW g \in Greetings
    PROVE  MaybeFulfill(g) \in Greetings /\ MaybeFulfill(g).next = g.next
<1>1. ASSUME NEW fin \in 0 .. 2
      PROVE  [g EXCEPT !.fin = fin] \in Greetings /\ [g EXCEPT !.fin = fin].next = g.next
  BY DEF Greetings
<1>2. ASSUME NEW h \in Greetings
      PROVE  /\ [h EXCEPT !.err = TRUE] \in Greetings /\ [h EXCEPT !.err = TRUE].next = h.next
             /\ [h EXCEPT !.err = FALSE] \in Greetings /\ [h EXCEPT !.err = FALSE].next = h.next
  BY DEF Greetings
<1>. DEFINE done == [g EXCEPT !.fin = 1]
<1>3. \/ MaybeFulfill(g) = g
      \/ MaybeFulfill(g) = [done EXCEPT !.err = TRUE]
      \/ MaybeFulfill(g) = [done EXCEPT !.err = FALSE]
  BY DEF MaybeFulfill, Greetings
<1>4. 1 \in 0 .. 2
  OBVIOUS
<1>5. done \in Greetings /\ done.next = g.next
  BY <1>1, <1>4
<1>. HIDE DEF done
<1>. QED
  BY <1>2, <1>3, <1>5

(* A downflow packet.                                                       *)
LEMMA DownflowFacts ==
    ASSUME NEW g \in Greetings, NEW c \in Client, NEW pkt \in Pubtxts, IsDownflow(pkt)
    PROVE  Downflow(g, c, pkt) \in Greetings /\ Downflow(g, c, pkt).next = g.next
<1>1. pkt.sid \in Sid /\ pkt.members \in Members /\ pkt.src \in Client
  BY PubtxtFacts DEF IsDownflow
<1>2. {c, pkt.src} \in Members /\ g.authd \cup {pkt.src} \in Members
  BY <1>1 DEF Members, Greetings
<1>. QED
  BY <1>1, <1>2 DEF Downflow, Greetings

(* An upflow packet.                                                        *)
LEMMA UpflowFacts ==
    ASSUME NEW g \in Greetings, NEW c \in Client, NEW pkt \in Pubtxts, IsUpflow(pkt)
    PROVE  Upflow(g, c, pkt) \in Greetings /\ Upflow(g, c, pkt).next = g.next
<1>1. pkt.n \in ProposalId /\ pkt.members \in Members /\ {c} \in Members
  BY PubtxtFacts DEF IsUpflow, IsGreet, Members
<1>2. <<pkt.n, g.n>> \in Sid
  BY <1>1 DEF Greetings, Sid
<1>. QED
  BY <1>1, <1>2 DEF Upflow, Greetings

(* _processMessage, whatever the packet.                                    *)
LEMMA ProcessFacts ==
    ASSUME NEW g \in Greetings, NEW c \in Client, NEW pkt \in Pubtxts, IsGreet(pkt)
    PROVE  ProcessMessage(g, c, pkt) \in Greetings /\ ProcessMessage(g, c, pkt).next = g.next
<1>1. /\ [g EXCEPT !.recvOwn = @ \/ IsDownflow(pkt)] \in Greetings
      /\ [g EXCEPT !.recvOwn = @ \/ IsDownflow(pkt)].next = g.next
  BY DEF Greetings
<1>2. ASSUME NEW fin \in 0 .. 2
      PROVE  /\ [g EXCEPT !.quit = TRUE, !.fin = fin] \in Greetings
             /\ [g EXCEPT !.quit = TRUE, !.fin = fin].next = g.next
  BY DEF Greetings
<1>3. g.fin \in 0 .. 2
  BY DEF Greetings
<1>4. c \notin pkt.members /\ ~ g.quit =>
        ProcessMessage(g, c, pkt) \in
            {[g EXCEPT !.quit = TRUE, !.fin = 1], [g EXCEPT !.quit = TRUE, !.fin = g.fin]}
  BY DEF ProcessMessage
<1>5. ~ (c \notin pkt.members /\ ~ g.quit) =>
        ProcessMessage(g, c, pkt) \in
            {g, MaybeFulfill([g EXCEPT !.recvOwn = @ \/ IsDownflow(pkt)])}
               \cup (IF IsDownflow(pkt) THEN {MaybeFulfill(Downflow(g, c, pkt))}
                     ELSE {MaybeFulfill(Upflow(g, c, pkt))})
  BY DEF ProcessMessage
<1>6. IsDownflow(pkt) \/ IsUpflow(pkt)
  BY DEF IsDownflow
<1>. QED
  <2>1. CASE c \notin pkt.members /\ ~ g.quit
    <3>1. PICK fin \in 0 .. 2 : ProcessMessage(g, c, pkt) = [g EXCEPT !.quit = TRUE, !.fin = fin]
      <4>1. 1 \in 0 .. 2
        OBVIOUS
      <4>. QED
        BY <2>1, <1>3, <1>4, <4>1
    <3>2. /\ [g EXCEPT !.quit = TRUE, !.fin = fin] \in Greetings
          /\ [g EXCEPT !.quit = TRUE, !.fin = fin].next = g.next
      BY <1>2
    <3>. QED
      BY <3>1, <3>2
  <2>2. CASE ~ (c \notin pkt.members /\ ~ g.quit) /\ IsDownflow(pkt)
    <3>1. /\ MaybeFulfill(Downflow(g, c, pkt)) \in Greetings
          /\ MaybeFulfill(Downflow(g, c, pkt)).next = g.next
      BY <2>2, MaybeFulfillFacts, DownflowFacts
    <3>. QED
      BY <2>2, <3>1, <1>1, <1>5, MaybeFulfillFacts
  <2>3. CASE ~ (c \notin pkt.members /\ ~ g.quit) /\ ~ IsDownflow(pkt)
    <3>1. /\ MaybeFulfill(Upflow(g, c, pkt)) \in Greetings
          /\ MaybeFulfill(Upflow(g, c, pkt)).next = g.next
      BY <2>3, <1>6, MaybeFulfillFacts, UpflowFacts
    <3>. QED
      BY <2>3, <3>1, <1>1, <1>5, MaybeFulfillFacts
  <2>. QED
    BY <2>1, <2>2, <2>3

(* What a member sends in answer: a route never runs empty.                 *)
LEMMA AnswerFacts ==
    ASSUME NEW g \in Greetings, NEW c \in Client, NEW pkt \in Pubtxts, IsGreet(pkt)
    PROVE  Answer(g, c, pkt) \in Seq(ToServer)
<1>1. pkt.members \in Members /\ g.n \in ProposalId
  BY PubtxtFacts DEF Greetings
<1>2. CASE IsDownflow(pkt)
  <2>1. ConfirmPacket(pkt.sid, c, pkt.members) \in ToServer
    BY <1>1, <1>2, PubtxtFacts DEF ConfirmPacket, ToServer, Pubtxts, DownPackets
  <2>. QED
    BY <1>2, <2>1 DEF Answer
<1>3. CASE IsUpflow(pkt)
  <2>1. pkt.n \in ProposalId /\ pkt.route \in Routes
    BY <1>3, PubtxtFacts
  <2>2. <<pkt.n, g.n>> \in Sid
    BY <1>1, <2>1 DEF Sid
  <2>3. DownPacket(<<pkt.n, g.n>>, c, pkt.members) \in ToServer
    BY <1>1, <2>2 DEF DownPacket, ToServer, Pubtxts, DownPackets
  <2>4. Len(pkt.route) # 1 => Tail(pkt.route) \in Routes
    <3>1. pkt.route \in Seq(Client) /\ pkt.route # <<>> /\ Len(pkt.route) \in Nat \ {0}
      BY <2>1 DEF Routes
    <3>2. Tail(pkt.route) \in Seq(Client) /\ Len(Tail(pkt.route)) = Len(pkt.route) - 1
      BY <3>1
    <3>3. SUFFICES ASSUME Len(pkt.route) # 1
                   PROVE  Tail(pkt.route) # <<>>
      BY <3>2 DEF Routes
    <3>4. Len(Tail(pkt.route)) # 0
      BY <3>1, <3>2, <3>3
    <3>5. Len(<<>>) = 0
      OBVIOUS
    <3>. QED
      BY <3>4, <3>5
  <2>5. Len(pkt.route) # 1 => UpPacket(pkt.n, c, Tail(pkt.route), pkt.members) \in ToServer
    BY <1>1, <2>1, <2>4 DEF UpPacket, ToServer, Pubtxts, UpPackets
  <2>6. \/ Answer(g, c, pkt) = <<>>
        \/ Answer(g, c, pkt) = <<DownPacket(<<pkt.n, g.n>>, c, pkt.members)>>
        \/ Len(pkt.route) # 1 /\ Answer(g, c, pkt) = <<UpPacket(pkt.n, c, Tail(pkt.route), pkt.members)>>
    <3>1. ~ IsDownflow(pkt)
      BY <1>3 DEF IsDownflow
    <3>. QED
      BY <3>1 DEF Answer
  <2>7. CASE Len(pkt.route) # 1
    BY <2>3, <2>5, <2>6, <2>7, SingleFacts, Zenon
  <2>8. CASE Len(pkt.route) = 1
    BY <2>3, <2>6, <2>8, SingleFacts, Zenon
  <2>. QED
    BY <2>7, <2>8
<1>. QED
  BY <1>2, <1>3 DEF IsDownflow

(* Greeting.recv, when its first packet is the accepted proposal.          *)
LEMMA RecvFacts ==
    ASSUME NEW g \in Greetings, NEW c \in Client, NEW pkt \in Pubtxts, NEW first \in BOOLEAN,
           g.next # {} \/ (first /\ pkt.t = "init")
    PROVE  /\ Recv(g, c, pkt, first) \in Greetings
           /\ Recv(g, c, pkt, first).next # {} \/ Recv(g, c, pkt, first).err
           /\ RecvAnswer(g, c, pkt, first) \in Seq(ToServer)
<1>. DEFINE started == Started(g, pkt)
<1>1. pkt.t = "init" => pkt.n \in ProposalId /\ pkt.members \in Members \ {{}}
  BY PubtxtFacts DEF InitPackets
<1>2. started \in Greetings /\ started.next # {}
  BY <1>1 DEF Started, Greetings
<1>. HIDE DEF started
<1>3. /\ IsGreet(pkt) => /\ ProcessMessage(started, c, pkt) \in Greetings
                         /\ ProcessMessage(started, c, pkt).next # {}
                         /\ Answer(started, c, pkt) \in Seq(ToServer)
  BY <1>2, ProcessFacts, AnswerFacts
<1>4. [g EXCEPT !.err = TRUE] \in Greetings /\ [g EXCEPT !.err = TRUE].next = g.next
  BY DEF Greetings
<1>5. \/ Recv(g, c, pkt, first) = [g EXCEPT !.err = TRUE]
      \/ Recv(g, c, pkt, first) = g /\ (g.next # {} \/ ~ first)
      \/ IsGreet(pkt) /\ Recv(g, c, pkt, first) = ProcessMessage(started, c, pkt)
  BY DEF Recv, started, IsGreet
<1>6. \/ RecvAnswer(g, c, pkt, first) = <<>>
      \/ IsGreet(pkt) /\ RecvAnswer(g, c, pkt, first) = Answer(started, c, pkt)
  BY DEF RecvAnswer, started
<1>7. [g EXCEPT !.err = TRUE].err
  BY DEF Greetings
<1>8. RecvAnswer(g, c, pkt, first) \in Seq(ToServer)
  BY <1>3, <1>6, SingleFacts, Zenon
<1>. QED
  BY <1>3, <1>4, <1>5, <1>7, <1>8

-----------------------------------------------------------------------------
(* What the handlers have in common.                                       *)

(* Parts of a task one after the other; only one changes the order.         *)
LEMMA KeepsFacts ==
    ASSUME NEW c \in Client, NEW s \in Clients(c)
    PROVE  /\ Keeps(c, s, s)
           /\ \A t, u : Keeps(c, s, t) /\ Keeps(c, t, u) => Keeps(c, s, u)
           /\ \A t, u : Keeps(c, s, t) /\ Moves(c, t, u) => Moves(c, s, u)
           /\ \A t, u : Moves(c, s, t) /\ Keeps(c, t, u) => Moves(c, s, u)
           /\ \A t : Keeps(c, s, t) => Moves(c, s, t)
  BY DEF Keeps, Moves, SameBuffer, HistoryStep, Same

(* A failed assertion leaves all else as it is.                             *)
LEMMA FailFacts ==
    ASSUME NEW c \in Client, NEW s \in Clients(c), NEW what \in Failures, what # "no"
    PROVE  Keeps(c, s, Fail(s, what)) /\ Fubar(Fail(s, what))
  BY DEF Keeps, SameBuffer, Fail, Fubar, Clients, ClientRecords

(* An assertion changes nothing when it holds.                              *)
LEMMA CheckFacts ==
    ASSUME NEW c \in Client, NEW s \in Clients(c), NEW holds, NEW what \in Failures, what # "no"
    PROVE  /\ Keeps(c, s, Check(s, holds, what))
           /\ Check(s, holds, what) = s \/ Fubar(Check(s, holds, what))
           /\ ~ Fubar(Check(s, holds, what)) => Check(s, holds, what) = s /\ holds
  BY FailFacts, KeepsFacts DEF Check

(* Sending a packet.                                                        *)
LEMMA SendFacts ==
    ASSUME NEW c \in Client, NEW s \in Clients(c), NEW pkt \in ToServer
    PROVE  Keeps(c, s, Send(s, pkt)) /\ (Fubar(Send(s, pkt)) <=> Fubar(s))
<1>1. Append(s.out, pkt) \in Seq(ToServer)
  BY AppendFacts DEF Clients, ClientRecords
<1>. QED
  BY <1>1 DEF Keeps, SameBuffer, Send, Fubar, Clients, ClientRecords

(* Settling a promise.                                                      *)
LEMMA SettleFacts ==
    ASSUME NEW c \in Client, NEW s \in Clients(c), NEW token \in Tokens
    PROVE  Keeps(c, s, Settle(s, token)) /\ (Fubar(Settle(s, token)) <=> Fubar(s))
<1>1. Append(s.micro, token) \in Seq(Tokens)
  BY AppendFacts DEF Clients, ClientRecords
<1>. QED
  BY <1>1 DEF Keeps, SameBuffer, Settle, Fubar, Clients, ClientRecords

(* The owner is a member of its session (curMembers).                       *)
LEMMA MembersFacts ==
    ASSUME NEW c \in Client, NEW s \in Clients(c)
    PROVE  CurMembers(c, s) \in Members /\ c \in CurMembers(c, s) /\ s.channel \in Members
  BY DEF CurMembers, Clients, ClientRecords, Sessions, Members

(* Requests to the channel.                                                 *)
LEMMA PacketFacts ==
    /\ LeaveSelf \in ToServer /\ EnterSelf \in ToServer
    /\ \A who \in Members : KickOthers(who) \in ToServer /\ EnterOthers(who) \in ToServer
  BY DEF LeaveSelf, EnterSelf, KickOthers, EnterOthers, ToServer

(* _clearOwnOperation and _clearOwnProposal.                                *)
LEMMA ClearOwnFacts ==
    ASSUME NEW c \in Client, NEW s \in Clients(c)
    PROVE  Keeps(c, s, ClearOwnOperation(s)) /\ Keeps(c, s, ClearOwnProposal(s))
<1>1. NoOwnOp \in OwnOps /\ {} \in Members
  BY NoGreetingFacts DEF NoOwnOp, OwnOps, Phases, Members
<1>2. NoOwnProposal \in OwnProposals
  BY NoGreetingFacts DEF NoOwnProposal, OwnProposals, Id, InitialId
<1>. QED
  BY <1>1, <1>2 DEF ClearOwnOperation, ClearOwnProposal, Keeps, SameBuffer, Fubar, Clients, ClientRecords

(* The answer of a receive handler.                                         *)
LEMMA RetFacts ==
    ASSUME NEW c \in Client, NEW s \in Clients(c)
    PROVE  Keeps(c, s, [s EXCEPT !.ret = FALSE]) /\ Keeps(c, s, [s EXCEPT !.ret = TRUE])
<1>1. Keeps(c, s, [s EXCEPT !.ret = FALSE])
  BY DEF Keeps, SameBuffer, Fubar, Clients, ClientRecords
<1>2. Keeps(c, s, [s EXCEPT !.ret = TRUE])
  BY DEF Keeps, SameBuffer, Fubar, Clients, ClientRecords
<1>. QED
  BY <1>1, <1>2

-----------------------------------------------------------------------------
(* Proposals.                                                              *)

(* _proposeGreetInit: whoever is excluded, somebody is left.                *)
LEMMA ProposeFacts ==
    ASSUME NEW c \in Client, NEW s \in Clients(c), NEW include \in Members, NEW exclude \in Members
    PROVE  Keeps(c, s, ProposeGreetInit(c, s, include, exclude))
<1>0. "proposal" \in Failures /\ "notAppropriate" \in Failures
  BY DEF Failures
<1>. DEFINE next == (CurMembers(c, s) \cup include) \ exclude
            route == SetToSeq(include)
            n == <<c, s.proposals + 1>>
            pf == PrevPf(s.serverOrder)
            ch == PrevCh(s.serverOrder)
            greeting == ProposedGreeting(c, s.current, next, route, n)
            own == [n |-> n, prev |-> pf, open |-> TRUE]
            proposing == [s EXCEPT !.proposals = @ + 1, !.proposed = greeting, !.ownProposal = own]
            pkt == Proposal(c, next, route, n, pf, ch)
<1>1. CASE Fubar(s) \/ ProposalFails(c, s, include, exclude)
  BY <1>0, <1>1, CheckFacts DEF ProposeGreetInit
<1>2. CASE ~ Fubar(s) /\ ~ ProposalFails(c, s, include, exclude) /\ ~ MayPropose(c, s, include, exclude)
  BY <1>0, <1>2, FailFacts DEF ProposeGreetInit
<1>3. CASE ~ Fubar(s) /\ ~ ProposalFails(c, s, include, exclude) /\ MayPropose(c, s, include, exclude)
  <2>1. s.serverOrder.synced /\ s.serverOrder \in Order
    BY <1>3 DEF MayPropose, Clients, ClientRecords
  <2>2. c \in next /\ next \in Members
    BY <1>3, <2>1, MembersFacts DEF ProposalFails, Members
  <2>3. route \in Seq(Client)
    <3>1. IsFiniteSet(include) /\ include \subseteq Client
      BY ClientAssumption, FS_Subset DEF Members
    <3>. QED
      BY <3>1, SetToSeqFacts
  <2>4. n \in ProposalId /\ s.proposals + 1 \in Nat /\ s.current \in Sessions
    BY DEF ProposalId, Clients, ClientRecords
  <2>5. pf \in Id /\ ch \in Chains
    BY <2>1, SyncedFacts
  <2>. HIDE DEF n, pf, ch, route, next
  <2>6. greeting \in Greetings /\ greeting.next = next /\ pkt \in Pubtxts
    BY <2>2, <2>3, <2>4, <2>5, ProposedFacts
  <2>7. own \in OwnProposals
    BY <2>4, <2>5 DEF OwnProposals
  <2>. HIDE DEF greeting, pkt, own
  <2>8. s.proposals + 1 \in Nat /\ greeting.next # {}
    BY <2>2, <2>4, <2>6
  <2>9. Keeps(c, s, proposing)
    BY <2>6, <2>7, <2>8 DEF Keeps, SameBuffer, Fubar, Clients, ClientRecords
  <2>10. ProposeGreetInit(c, s, include, exclude) = Send(proposing, pkt)
    BY <1>3 DEF ProposeGreetInit, greeting, pkt, own, n, pf, ch, route, next
  <2>11. Keeps(c, proposing, Send(proposing, pkt))
    BY <2>6, <2>9, SendFacts DEF Keeps, ToServer
  <2>. QED
    BY <2>9, <2>10, <2>11, KeepsFacts
<1>. QED
  BY <1>1, <1>2, <1>3

(* _maybeHandleExtra.                                                       *)
LEMMA HandleExtraFacts ==
    ASSUME NEW c \in Client, NEW s \in Clients(c), NEW extras \in Members
    PROVE  Keeps(c, s, MaybeHandleExtra(c, s, extras))
  BY KeepsFacts, ProposeFacts DEF MaybeHandleExtra, Members

(* _assertConsistentTasks.                                                  *)
LEMMA CheckTasksFacts ==
    ASSUME NEW c \in Client, NEW s \in Clients(c)
    PROVE  Keeps(c, s, CheckTasks(c, s))
  BY CheckFacts DEF CheckTasks, Failures

(* _maybeHandleTasks.                                                       *)
LEMMA HandleTasksFacts ==
    ASSUME NEW c \in Client, NEW s \in Clients(c)
    PROVE  Keeps(c, s, MaybeHandleTasks(c, s))
<1>. DEFINE checked == Check(s, ConsistentTasksNow(c, s), "tasks")
<1>1. Keeps(c, s, checked)
  BY CheckFacts DEF Failures
<1>. HIDE DEF checked
<1>2. checked \in Clients(c) /\ checked.taskExclude \in Members /\ {} \in Members
  BY <1>1 DEF Keeps, Clients, ClientRecords, Members
<1>3. Keeps(c, checked, ProposeGreetInit(c, checked, {}, checked.taskExclude))
  BY <1>2, ProposeFacts
<1>4. MaybeHandleTasks(c, s) \in {checked, ProposeGreetInit(c, checked, {}, checked.taskExclude)}
  BY DEF MaybeHandleTasks, checked
<1>. QED
  BY <1>1, <1>3, <1>4, KeepsFacts

(* _maybeSyncNew: all it can do to the order is to begin it.               *)
LEMMA MaybeSyncNewFacts ==
    ASSUME NEW c \in Client, NEW s \in Clients(c)
    PROVE  LET t == MaybeSyncNew(c, s)
           IN  /\ Moves(c, s, t)
               /\ t.serverOrder = s.serverOrder \/ ~ HasOngoingOp(t.serverOrder)
<1>. DEFINE checked == Check(s, ~ s.serverOrder.synced, "syncNew")
            id == [k |-> "new", by |-> c, i |-> checked.syncs + 1]
            order == SyncNew(id)
            synced == [checked EXCEPT !.serverOrder = order, !.channelJustSynced = TRUE, !.syncs = @ + 1]
            t == MaybeSyncNew(c, s)
<1>1. Keeps(c, s, checked) /\ (~ Fubar(checked) => checked = s /\ ~ s.serverOrder.synced)
  BY CheckFacts DEF Failures
<1>2. t = IF Fubar(checked) \/ checked.moreSeniorThanUs # {} THEN checked
          ELSE IF checked.channel = {c} THEN synced
          ELSE MaybeHandleExtra(c, synced, checked.channel \ {c})
  BY DEF MaybeSyncNew
<1>. HIDE DEF checked
<1>3. CASE t = checked
  BY <1>1, <1>3, KeepsFacts DEF Keeps
<1>4. CASE t # checked
  <2>1. checked = s /\ ~ s.serverOrder.synced
    BY <1>1, <1>2, <1>4
  <2>2. id \in Id /\ s.syncs + 1 \in Nat
    BY <2>1 DEF Clients, ClientRecords, Id
  <2>. HIDE DEF id
  <2>3. order \in Order /\ Len(order.opInitial) = 1 /\ Len(order.opFinal) = 1
    BY <2>2, SyncNewFacts
  <2>. HIDE DEF order
  <2>4. /\ synced \in Clients(c) /\ SameBuffer(s, synced) /\ synced.serverOrder = order
        /\ synced.channel = s.channel
    BY <2>1, <2>2, <2>3 DEF SameBuffer, Fubar, Clients, ClientRecords
  <2>5. s.serverOrder.opFinal = <<>>
    BY <2>1 DEF Clients, ClientRecords, Order, IsHistory
  <2>6. Joins(s.serverOrder, order) /\ ~ HasOngoingOp(order)
    BY <2>3, <2>5 DEF Joins, HasOngoingOp
  <2>7. Moves(c, s, synced)
    BY <2>4, <2>6 DEF Moves, HistoryStep
  <2>. HIDE DEF synced
  <2>8. t \in {synced, MaybeHandleExtra(c, synced, s.channel \ {c})}
    BY <1>2, <1>4, <2>1
  <2>9. Keeps(c, synced, t)
    <3>1. s.channel \ {c} \in Members
      BY MembersFacts DEF Members
    <3>. QED
      BY <2>4, <2>8, <3>1, HandleExtraFacts, KeepsFacts
  <2>10. Moves(c, s, t)
    BY <2>7, <2>9, KeepsFacts
  <2>. QED
    BY <2>4, <2>6, <2>9, <2>10 DEF Keeps
<1>. QED
  BY <1>3, <1>4

-----------------------------------------------------------------------------
(* Sessions and greetings.                                                 *)

(* _changeSubSession: the owner is in the session it changes to.            *)
LEMMA ChangeSubSessionFacts ==
    ASSUME NEW c \in Client, NEW s \in Clients(c), NEW g \in Greetings,
           g = NoGreeting \/ c \in g.next
    PROVE  Keeps(c, s, ChangeSubSession(c, s, g))
<1>. DEFINE old == CurMembers(c, s)
            new == IF g = NoGreeting THEN {c} ELSE g.next
            holds == IF s.current = NoSession THEN new # {c} ELSE g = NoGreeting \/ old = g.prev
            checked == Check(s, holds, "changeSubSession")
            current == IF new = {c} THEN NoSession ELSE [sid |-> g.sid, members |-> new]
            previous == IF new = {c} THEN NoSid ELSE checked.current.sid
            fin == checked.current # NoSession /\ checked.parting = "no"
            changed == [checked EXCEPT !.channelJustSynced = FALSE, !.prevFin = fin,
                                       !.previous = previous, !.current = current, !.parting = "no"]
<1>1. Keeps(c, s, checked) /\ (~ Fubar(checked) => checked = s)
  BY CheckFacts DEF Failures
<1>2. ChangeSubSession(c, s, g) \in {checked, changed, Settle(changed, "ownOp")}
  BY DEF ChangeSubSession
<1>3. current \in Sessions /\ (current = NoSession \/ c \in current.members)
  BY NoGreetingFacts DEF Sessions, Greetings, Members
<1>. HIDE DEF checked, current
<1>4. previous \in Sid /\ fin \in BOOLEAN
  BY <1>1, NoGreetingFacts DEF Keeps, Clients, ClientRecords, Sessions
<1>. HIDE DEF previous, fin
<1>5. Keeps(c, checked, changed)
  <2>1. checked \in Clients(c) /\ "no" \in {"no", "sent", "done"}
    BY <1>1 DEF Keeps
  <2>. QED
    <3>1. changed \in ClientRecords
      BY <2>1, <1>3, <1>4 DEF Clients, ClientRecords
    <3>2. /\ changed.current = current /\ changed.proposed = checked.proposed
          /\ changed.greeting = checked.greeting /\ changed.fubar = checked.fubar
          /\ changed.serverOrder = checked.serverOrder /\ SameBuffer(checked, changed)
      BY <2>1 DEF SameBuffer, Clients, ClientRecords
    <3>. QED
      BY <2>1, <3>1, <3>2, <1>3 DEF Keeps, Fubar, Clients
<1>6. changed \in Clients(c)
  BY <1>5 DEF Keeps
<1>. HIDE DEF changed
<1>7. Keeps(c, changed, Settle(changed, "ownOp"))
  BY <1>6, SettleFacts DEF Tokens
<1>. QED
  BY <1>1, <1>2, <1>5, <1>7, KeepsFacts

(* _onGreetingComplete.                                                     *)
LEMMA GreetingCompleteFacts ==
    ASSUME NEW c \in Client, NEW s \in Clients(c), NEW g \in Greetings
    PROVE  Keeps(c, s, OnGreetingComplete(s, g))
<1>. DEFINE s1 == Check(s, g.next \subseteq s.pendingGreetPP, "greetingComplete")
            exclude == g.prev \ g.next
            s2 == [s1 EXCEPT !.taskExclude = @ \ exclude,
                             !.taskLeave = @ \cup (s.pendingGreetPP \cap exclude)]
<1>1. Keeps(c, s, s1)
  BY CheckFacts DEF Failures
<1>2. s1 \in Clients(c)
  BY <1>1 DEF Keeps
<1>3. OnGreetingComplete(s, g) \in {s1, Check(s2, ConsistentTasks(s2), "tasks")}
  BY DEF OnGreetingComplete
<1>. HIDE DEF s1
<1>4. /\ s1.taskExclude \ exclude \in Members
      /\ s1.taskLeave \cup (s.pendingGreetPP \cap exclude) \in Members
  BY <1>2 DEF Clients, ClientRecords, Members
<1>. HIDE DEF exclude
<1>5. Keeps(c, s1, s2)
  BY <1>2, <1>4 DEF Keeps, SameBuffer, Fubar, Clients, ClientRecords
<1>6. s2 \in Clients(c)
  BY <1>5 DEF Keeps
<1>. HIDE DEF s2
<1>7. Keeps(c, s2, Check(s2, ConsistentTasks(s2), "tasks"))
  BY <1>6, CheckFacts DEF Failures
<1>. QED
  BY <1>1, <1>3, <1>5, <1>7, KeepsFacts

(* _clearGreeting starts to retry what is stashed.                         *)
LEMMA ClearGreetingFacts ==
    ASSUME NEW c \in Client, NEW s \in Clients(c), InBounds(s)
    PROVE  /\ ClearGreeting(s) \in Clients(c) /\ InBounds(ClearGreeting(s))
           /\ ClearGreeting(s).serverOrder = s.serverOrder
<1>1. NoGreeting \in Greetings /\ NoId \in InitialId /\ {} \in Members
  BY NoGreetingFacts DEF InitialId, Members
<1>2. Len(s.tryDecrypt) \in Nat /\ 0 \in Nat /\ 1 \in Nat
  BY DEF Clients, ClientRecords
<1>3. ASSUME NEW retry \in {0, 1}
      PROVE  LET t == [s EXCEPT !.greeting = NoGreeting, !.currentPi = NoId, !.pendingGreetPP = {},
                                !.retry = retry, !.hadSuccess = FALSE]
             IN  /\ t \in Clients(c) /\ t.tryDecrypt = s.tryDecrypt /\ t.retry = retry
                 /\ t.serverOrder = s.serverOrder
  BY <1>1, <1>2 DEF Fubar, Clients, ClientRecords
<1>4. \A retry \in {0, 1} : retry <= Len(s.tryDecrypt) + 1
  BY <1>2
<1>. QED
  BY <1>3, <1>4 DEF ClearGreeting, InBounds

(* A greeting fails when it is aborted or its member has left.              *)
LEMMA FailGreetingFacts ==
    ASSUME NEW c \in Client, NEW s \in Clients(c), HasGreeting(s) \/ Fubar(s)
    PROVE  Keeps(c, s, FailGreeting(s))
<1>. DEFINE failed == [s EXCEPT !.greeting.fin = 2]
<1>1. CASE Fubar(s) \/ s.greeting.fin # 0
  BY <1>1, CheckFacts DEF FailGreeting, Failures
<1>2. CASE ~ (Fubar(s) \/ s.greeting.fin # 0)
  <2>1. 2 \in 0 .. 2
    OBVIOUS
  <2>2. /\ [s.greeting EXCEPT !.fin = 2] \in Greetings
        /\ [s.greeting EXCEPT !.fin = 2].next = s.greeting.next
    BY <2>1 DEF Clients, ClientRecords, Greetings
  <2>3. failed = [s EXCEPT !.greeting = [s.greeting EXCEPT !.fin = 2]]
    BY DEF Clients, ClientRecords
  <2>4. Keeps(c, s, failed)
    BY <1>2, <2>2, <2>3 DEF Keeps, SameBuffer, HasGreeting, Fubar, Clients, ClientRecords
  <2>. HIDE DEF failed
  <2>5. Keeps(c, failed, Settle(failed, "greetingFailed"))
    BY <2>4, SettleFacts DEF Keeps, Tokens
  <2>6. FailGreeting(s) = Settle(failed, "greetingFailed")
    BY <1>2 DEF FailGreeting, failed
  <2>. QED
    BY <2>4, <2>5, <2>6, KeepsFacts
<1>. QED
  BY <1>1, <1>2

(* _maybeLeaveChannel.                                                      *)
LEMMA LeaveChannelFacts ==
    ASSUME NEW c \in Client, NEW s \in Clients(c), NEW pending \in Members
    PROVE  Keeps(c, s, MaybeLeaveChannel(c, s, pending))
<1>. DEFINE s0 == Check(s, ~ HasGreeting(s), "stayLast")
            s1 == ClearOwnProposal(ClearOwnOperation(s0))
            s2 == IF s1.current = NoSession THEN s1 ELSE ChangeSubSession(c, s1, NoGreeting)
            s3 == [s2 EXCEPT !.channelJustSynced = TRUE]
<1>1. Keeps(c, s, s0)
  BY CheckFacts DEF Failures
<1>2. Keeps(c, s0, s1)
  BY <1>1, ClearOwnFacts, KeepsFacts DEF Keeps
<1>3. Keeps(c, s1, s2)
  BY <1>2, NoGreetingFacts, ChangeSubSessionFacts, KeepsFacts DEF Keeps
<1>. HIDE DEF s2
<1>4. Keeps(c, s2, s3)
  BY <1>3 DEF Keeps, SameBuffer, Fubar, Clients, ClientRecords
<1>. HIDE DEF s0, s1, s3
<1>5. Keeps(c, s, s3)
  BY <1>1, <1>2, <1>3, <1>4, KeepsFacts
<1>6. Keeps(c, s, Send(s, LeaveSelf))
  BY PacketFacts, SendFacts
<1>7. MaybeLeaveChannel(c, s, pending) \in {s3, Send(s, LeaveSelf)}
  BY DEF MaybeLeaveChannel, s0, s1, s2, s3
<1>. QED
  BY <1>5, <1>6, <1>7

(* _onPrevSessionFin.                                                       *)
LEMMA PrevSessionFinFacts ==
    ASSUME NEW c \in Client, NEW s \in Clients(c)
    PROVE  Keeps(c, s, OnPrevSessionFin(c, s))
<1>. DEFINE s1 == [s EXCEPT !.prevFin = FALSE]
            pending == s1.channel \cap s1.taskLeave
            kicked == IF pending = {} THEN s1 ELSE Send(s1, KickOthers(pending))
<1>1. Keeps(c, s, s1)
  BY DEF Keeps, SameBuffer, Fubar, Clients, ClientRecords
<1>. HIDE DEF s1
<1>2. pending \in Members
  BY <1>1 DEF Keeps, Clients, ClientRecords, Members
<1>3. Keeps(c, s1, kicked)
  <2>1. s1 \in Clients(c)
    BY <1>1 DEF Keeps
  <2>. HIDE DEF pending
  <2>. QED
    BY <1>2, <2>1, PacketFacts, SendFacts, KeepsFacts
<1>4. kicked \in Clients(c)
  BY <1>3 DEF Keeps
<1>5. OnPrevSessionFin(c, s) \in
        {s1, kicked, Check(kicked, c \in s1.greeting.next, "prevSessionFin"),
         MaybeLeaveChannel(c, kicked, pending)}
  BY DEF OnPrevSessionFin, s1
<1>. HIDE DEF kicked, pending
<1>6. /\ Keeps(c, kicked, Check(kicked, c \in s1.greeting.next, "prevSessionFin"))
      /\ Keeps(c, kicked, MaybeLeaveChannel(c, kicked, pending))
  BY <1>2, <1>4, CheckFacts, LeaveChannelFacts DEF Failures
<1>. QED
  BY <1>1, <1>3, <1>5, <1>6, KeepsFacts

-----------------------------------------------------------------------------
(* Others enter and leave the channel.                                     *)

(* _onOthersEnter.                                                          *)
LEMMA OthersEnterFacts ==
    ASSUME NEW c \in Client, NEW s \in Clients(c), NEW others \in Members
    PROVE  Keeps(c, s, OnOthersEnter(c, s, others))
<1>. DEFINE s0 == Check(s, ConsistentTasks(s) /\ others \cap s.taskLeave = {}, "tasks")
            excluding == others \cap s0.taskExclude
            unexpected == (others \ excluding) \ s0.opInclude
            s1 == IF excluding = {} THEN s0 ELSE Send(s0, KickOthers(excluding))
            s2 == Check(s1, unexpected \cap s0.greeting.next = {}, "othersEnter")
            s3 == Send(s2, KickOthers(unexpected))
            s4 == MaybeHandleExtra(c, s1, unexpected)
            s5 == IF unexpected = {} THEN s1 ELSE IF HasGreeting(s0) THEN s3 ELSE s4
<1>1. Keeps(c, s, s0)
  BY CheckFacts DEF Failures
<1>2. s0 \in Clients(c)
  BY <1>1 DEF Keeps
<1>. HIDE DEF s0
<1>3. excluding \in Members /\ unexpected \in Members
  BY <1>2 DEF Clients, ClientRecords, Members
<1>. HIDE DEF excluding, unexpected
<1>4. Keeps(c, s0, s1)
  BY <1>2, <1>3, PacketFacts, SendFacts, KeepsFacts
<1>5. s1 \in Clients(c)
  BY <1>4 DEF Keeps
<1>. HIDE DEF s1
<1>6. Keeps(c, s1, s2)
  BY <1>5, CheckFacts DEF Failures
<1>7. s2 \in Clients(c)
  BY <1>6 DEF Keeps
<1>. HIDE DEF s2
<1>8. Keeps(c, s2, s3)
  BY <1>3, <1>7, PacketFacts, SendFacts
<1>9. Keeps(c, s1, s4)
  BY <1>3, <1>5, HandleExtraFacts
<1>. HIDE DEF s3, s4
<1>10. Keeps(c, s1, s5)
  BY <1>5, <1>6, <1>8, <1>9, KeepsFacts
<1>11. s5 \in Clients(c)
  BY <1>10 DEF Keeps
<1>. HIDE DEF s5
<1>12. Keeps(c, s5, CheckTasks(c, s5))
  BY <1>11, CheckTasksFacts
<1>13. OnOthersEnter(c, s, others) \in {s0, CheckTasks(c, s5)}
  BY DEF OnOthersEnter, CheckTasks, s0, s1, s2, s3, s4, s5, excluding, unexpected
<1>. QED
  BY <1>1, <1>4, <1>10, <1>12, <1>13, KeepsFacts

(* [rule LOI]: only an ongoing operation can be aborted.                   *)
LEMMA AbortFacts ==
    ASSUME NEW c \in Client, NEW s \in Clients(c), NEW others \in Members
    PROVE  LET t == AbortIfMember(c, s, others)
           IN  /\ Moves(c, s, t)
               /\ ~ HasOngoingOp(s.serverOrder) => Keeps(c, s, t)
<1>. DEFINE holds == CurMembers(c, s) = s.greeting.prev /\ HasOngoingOp(s.serverOrder)
            s0 == Check(s, holds, "othersLeave")
            order == AcceptLeavePacket(s.serverOrder, others, s.channel)
            aborted == [s EXCEPT !.serverOrder = order]
<1>1. Keeps(c, s, s0) /\ (~ Fubar(s0) => s0 = s /\ holds)
  BY CheckFacts DEF Failures
<1>2. AbortIfMember(c, s, others) =
        IF HasGreeting(s) /\ s.greeting.next \cap others # {}
        THEN IF Fubar(s0) THEN s0
             ELSE FailGreeting([s0 EXCEPT !.serverOrder = AcceptLeavePacket(@, others, s0.channel)])
        ELSE s
  BY DEF AbortIfMember, AbortOperation
<1>. HIDE DEF s0
<1>3. CASE AbortIfMember(c, s, others) \in {s, s0}
  BY <1>1, <1>3, KeepsFacts
<1>4. CASE AbortIfMember(c, s, others) \notin {s, s0}
  <2>1. HasGreeting(s) /\ s0 = s /\ HasOngoingOp(s.serverOrder)
    BY <1>1, <1>2, <1>4
  <2>2. s.serverOrder \in Order /\ s.channel \in Members
    BY DEF Clients, ClientRecords
  <2>3. order \in Order /\ HistoryStep(s.serverOrder, order)
    BY <2>1, <2>2, AcceptLeavePacketFacts
  <2>4. aborted = [s0 EXCEPT !.serverOrder = AcceptLeavePacket(@, others, s0.channel)]
    BY <2>1 DEF Clients, ClientRecords
  <2>. HIDE DEF order
  <2>5. aborted \in Clients(c) /\ SameBuffer(s, aborted) /\ aborted.serverOrder = order
        /\ aborted.greeting = s.greeting
    BY <2>3 DEF SameBuffer, Fubar, Clients, ClientRecords
  <2>6. Moves(c, s, aborted)
    BY <2>3, <2>5 DEF Moves
  <2>7. HasGreeting(aborted)
    BY <2>1, <2>5 DEF HasGreeting
  <2>. HIDE DEF aborted
  <2>8. AbortIfMember(c, s, others) = FailGreeting(aborted)
    BY <1>1, <1>2, <1>4, <2>1, <2>4
  <2>9. Keeps(c, aborted, FailGreeting(aborted))
    BY <2>5, <2>7, FailGreetingFacts
  <2>. QED
    BY <2>1, <2>6, <2>8, <2>9, KeepsFacts
<1>. QED
  BY <1>3, <1>4

(* Those who left are to be excluded from the session.                      *)
LEMMA ExcludeLeftFacts ==
    ASSUME NEW c \in Client, NEW s \in Clients(c), NEW others \in Members
    PROVE  Keeps(c, s, ExcludeLeft(c, s, others))
<1>. DEFINE gone == CurMembers(c, s) \cap others
            marked == [s EXCEPT !.taskLeave = @ \ others, !.taskExclude = @ \cup gone]
<1>1. s.taskLeave \ others \in Members /\ s.taskExclude \cup gone \in Members
  BY MembersFacts DEF Clients, ClientRecords, Members
<1>. HIDE DEF gone
<1>2. Keeps(c, s, marked)
  BY <1>1 DEF Keeps, SameBuffer, Fubar, Clients, ClientRecords
<1>3. marked \in Clients(c)
  BY <1>2 DEF Keeps
<1>. HIDE DEF marked
<1>4. Keeps(c, marked, MaybeHandleTasks(c, marked))
  BY <1>3, HandleTasksFacts
<1>5. ExcludeLeft(c, s, others) \in {s, marked, MaybeHandleTasks(c, marked)}
  BY DEF ExcludeLeft, marked, gone
<1>. QED
  BY <1>2, <1>4, <1>5, KeepsFacts

(* _onOthersLeave: it begins the order or ends an operation, not both.      *)
LEMMA OthersLeaveFacts ==
    ASSUME NEW c \in Client, NEW s \in Clients(c), NEW others \in Members
    PROVE  Moves(c, s, OnOthersLeave(c, s, others))
<1>. DEFINE unaware == [s EXCEPT !.moreSeniorThanUs = @ \ others]
            synced == SyncIfSenior(c, unaware)
            aborted == AbortIfMember(c, synced, others)
            excluded == ExcludeLeft(c, aborted, others)
            done == CheckTasks(c, excluded)
<1>1. Keeps(c, s, unaware)
  <2>1. s.moreSeniorThanUs \ others \in Members
    BY DEF Clients, ClientRecords, Members
  <2>. QED
    BY <2>1 DEF Keeps, SameBuffer, Fubar, Clients, ClientRecords
<1>2. unaware \in Clients(c)
  BY <1>1 DEF Keeps
<1>. HIDE DEF unaware
<1>3. /\ Moves(c, unaware, synced)
      /\ synced.serverOrder = unaware.serverOrder \/ ~ HasOngoingOp(synced.serverOrder)
  BY <1>2, MaybeSyncNewFacts, KeepsFacts DEF SyncIfSenior
<1>4. synced \in Clients(c) /\ SameBuffer(unaware, synced)
  BY <1>3 DEF Moves
<1>. HIDE DEF synced
<1>5. Moves(c, synced, aborted) /\ (~ HasOngoingOp(synced.serverOrder) => Keeps(c, synced, aborted))
  BY <1>4, AbortFacts
<1>6. aborted \in Clients(c)
  BY <1>5 DEF Moves
<1>. HIDE DEF aborted
<1>7. Moves(c, unaware, aborted)
  <2>1. CASE synced.serverOrder = unaware.serverOrder
    BY <2>1, <1>4, <1>5 DEF Moves, SameBuffer
  <2>2. CASE ~ HasOngoingOp(synced.serverOrder)
    BY <2>2, <1>2, <1>3, <1>5, KeepsFacts
  <2>. QED
    BY <1>3, <2>1, <2>2
<1>8. Keeps(c, aborted, excluded)
  BY <1>6, ExcludeLeftFacts
<1>9. excluded \in Clients(c)
  BY <1>8 DEF Keeps
<1>. HIDE DEF excluded
<1>10. Keeps(c, excluded, done)
  BY <1>9, CheckTasksFacts
<1>. HIDE DEF done
<1>11. Moves(c, s, done)
  BY <1>1, <1>2, <1>7, <1>8, <1>10, KeepsFacts
<1>12. Moves(c, s, Fail(s, "tasks"))
  BY FailFacts, KeepsFacts DEF Failures
<1>. QED
  BY <1>11, <1>12 DEF OnOthersLeave, done, excluded, aborted, synced, unaware

(* Session messages leave the order as it is.                               *)
LEMMA SessionRecvFacts ==
    ASSUME NEW c \in Client, NEW s \in Clients(c), NEW pkt \in Pubtxts
    PROVE  Keeps(c, s, SessionRecv(c, s, pkt))
<1>. DEFINE parting == [s EXCEPT !.ret = TRUE, !.taskExclude = @ \cup {pkt.src}]
<1>1. Keeps(c, s, [s EXCEPT !.ret = FALSE]) /\ Keeps(c, s, [s EXCEPT !.ret = TRUE])
  BY RetFacts
<1>2. s.taskExclude \cup {pkt.src} \in Members
  BY PubtxtFacts DEF Clients, ClientRecords, Members
<1>3. Keeps(c, s, parting)
  BY <1>2 DEF Keeps, SameBuffer, Fubar, Clients, ClientRecords
<1>4. parting \in Clients(c)
  BY <1>3 DEF Keeps
<1>. HIDE DEF parting
<1>5. Keeps(c, parting, MaybeHandleTasks(c, parting))
  BY <1>4, HandleTasksFacts
<1>6. SessionRecv(c, s, pkt) \in
        {[s EXCEPT !.ret = FALSE], [s EXCEPT !.ret = TRUE], MaybeHandleTasks(c, parting)}
  BY DEF SessionRecv, parting
<1>. QED
  BY <1>1, <1>3, <1>5, <1>6, KeepsFacts

-----------------------------------------------------------------------------
(* Greeting packets.  Between accepting a proposal and handing it to its   *)
(* greeting, the greeting may have nobody in it yet.                       *)
Accepting(c) ==
    {s \in ClientRecords :
        /\ s.current = NoSession \/ c \in s.current.members
        /\ s.proposed = NoGreeting \/ s.proposed.next # {}}
Leads(s, t) == t.serverOrder = s.serverOrder /\ SameBuffer(s, t)

(* Parts of a task while a proposal is being accepted.                      *)
LEMMA AcceptingFacts ==
    ASSUME NEW c \in Client, NEW s \in Accepting(c)
    PROVE  /\ \A what \in Failures \ {"no"} : Keeps(c, s, Fail(s, what)) /\ Fubar(Fail(s, what))
           /\ \A token \in Tokens : Settle(s, token) \in Accepting(c) /\ Leads(s, Settle(s, token))
                                   /\ Settle(s, token).greeting = s.greeting
           /\ Fubar(s) => s \in Clients(c)
           /\ s.greeting.next # {} => s \in Clients(c)
<1>1. ASSUME NEW what \in Failures \ {"no"}
      PROVE  Keeps(c, s, Fail(s, what)) /\ Fubar(Fail(s, what))
  BY DEF Fail, Keeps, SameBuffer, Fubar, Accepting, Clients, ClientRecords
<1>2. ASSUME NEW token \in Tokens
      PROVE  Settle(s, token) \in Accepting(c) /\ Leads(s, Settle(s, token))
             /\ Settle(s, token).greeting = s.greeting
  <2>1. Append(s.micro, token) \in Seq(Tokens)
    BY AppendFacts DEF Accepting, ClientRecords
  <2>. QED
    BY <2>1 DEF Settle, Leads, SameBuffer, Accepting, ClientRecords
<1>3. (Fubar(s) \/ s.greeting.next # {}) => s \in Clients(c)
  BY DEF Accepting, Clients
<1>. QED
  BY <1>1, <1>2, <1>3

(* partialDecode: what a packet says of an operation.                       *)
LEMMA SummaryFacts ==
    ASSUME NEW c \in Client, NEW s \in Clients(c), NEW pkt \in Pubtxts, IsOp(c, s, pkt)
    PROVE  /\ IsOperation(GreetingSummary(s, pkt))
           /\ GreetingSummary(s, pkt).initial <=> pkt.t = "init"
<1>. DEFINE id == PacketId(pkt, s.channel)
            alone == Cardinality(pkt.members) = 1
<1>1. s.channel \in Members /\ s.currentPi \in InitialId /\ NoId \in Id /\ <<>> \in Chains
  BY DEF Clients, ClientRecords, Id, InitialId, Chains
<1>2. CASE pkt.t = "init"
  <2>1. pkt \in InitPackets
    BY <1>2, PubtxtFacts
  <2>2. /\ pkt.n \in ProposalId /\ pkt.members \in Members /\ pkt.prevPf \in Id
        /\ pkt.prevCh \in Chains
    BY <2>1 DEF InitPackets
  <2>3. id \in InitialId /\ id \in Id
    BY <1>1, <1>2, <2>2 DEF PacketId, InitialId, Id
  <2>. HIDE DEF id
  <2>4. GreetingSummary(s, pkt) =
          [pId |-> id, initial |-> TRUE, final |-> alone, members |-> pkt.members,
           prevPf |-> pkt.prevPf, prevCh |-> pkt.prevCh, prevPi |-> IF alone THEN id ELSE NoId]
    BY <1>2 DEF GreetingSummary, id
  <2>5. alone \in BOOLEAN /\ (IF alone THEN id ELSE NoId) \in Id
    BY <1>1, <2>3
  <2>. QED
    BY <1>2, <2>2, <2>3, <2>4, <2>5 DEF IsOperation, Op
<1>3. CASE pkt.t # "init"
  <2>1. pkt.t = "confirm"
    BY <1>3 DEF IsOp
  <2>2. pkt.sid \in Sid /\ pkt.src \in Client /\ pkt.members \in Members
    BY <2>1, PubtxtFacts DEF IsGreet
  <2>3. id \in Id
    BY <1>1, <2>1, <2>2 DEF PacketId, Id
  <2>. HIDE DEF id
  <2>4. GreetingSummary(s, pkt) =
          [pId |-> id, initial |-> FALSE, final |-> TRUE, members |-> pkt.members,
           prevPf |-> NoId, prevCh |-> <<>>, prevPi |-> s.currentPi]
    BY <1>3 DEF GreetingSummary, id
  <2>5. s.currentPi \in Id
    BY <1>1 DEF Id
  <2>. QED
    BY <1>1, <1>3, <2>2, <2>3, <2>4, <2>5 DEF IsOperation, Op
<1>. QED
  BY <1>2, <1>3

(* The packet is handed to the greeting, whose first is the proposal.       *)
LEMMA GreetingRecvFacts ==
    ASSUME NEW c \in Client, NEW s \in Accepting(c), NEW pkt \in Pubtxts, NEW first \in BOOLEAN,
           s \in Clients(c) \/ (first /\ pkt.t = "init")
    PROVE  Keeps(c, s, GreetingRecv(c, s, pkt, first))
<1>. DEFINE g == Recv(s.greeting, c, pkt, first)
            answer == RecvAnswer(s.greeting, c, pkt, first)
            s1 == [s EXCEPT !.greeting = g, !.ret = TRUE, !.out = @ \o answer]
<1>0. GreetingRecv(c, s, pkt, first) =
        IF Fubar(s) \/ ~ HasGreeting(s) \/ g.err THEN Check(s, FALSE, "greetingRecv")
        ELSE IF ~ IsGreet(pkt) THEN [s EXCEPT !.ret = FALSE]
        ELSE IF g.fin = 1 THEN Settle(s1, "greetingDone") ELSE s1
  BY DEF GreetingRecv
<1>. HIDE DEF g, answer
<1>1. CASE Fubar(s)
  <2>1. GreetingRecv(c, s, pkt, first) = s
    BY <1>0, <1>1 DEF Check
  <2>. QED
    BY <1>1, <2>1, AcceptingFacts DEF Keeps, SameBuffer
<1>2. CASE ~ Fubar(s) /\ (~ HasGreeting(s) \/ g.err)
  <2>1. GreetingRecv(c, s, pkt, first) = Fail(s, "greetingRecv")
    BY <1>0, <1>2 DEF Check
  <2>. QED
    BY <2>1, AcceptingFacts DEF Failures
<1>3. CASE ~ Fubar(s) /\ HasGreeting(s) /\ ~ g.err
  <2>1. s.greeting \in Greetings /\ (s.greeting.next # {} \/ (first /\ pkt.t = "init"))
    BY <1>3 DEF HasGreeting, Clients, Accepting, ClientRecords
  <2>2. g \in Greetings /\ g.next # {} /\ answer \in Seq(ToServer)
    BY <2>1, <1>3, RecvFacts DEF g, answer
  <2>3. s.out \o answer \in Seq(ToServer)
    BY <2>2, ConcatFacts DEF Accepting, ClientRecords
  <2>4. s1 \in Accepting(c) /\ s1.greeting = g /\ Leads(s, s1)
    BY <2>2, <2>3 DEF Leads, SameBuffer, Accepting, ClientRecords
  <2>. HIDE DEF s1
  <2>5. Keeps(c, s, s1)
    BY <2>2, <2>4, AcceptingFacts DEF Keeps, Leads
  <2>6. Keeps(c, s1, Settle(s1, "greetingDone"))
    BY <2>5, SettleFacts DEF Keeps, Tokens
  <2>7. Keeps(c, s, Settle(s1, "greetingDone"))
    BY <2>5, <2>6 DEF Keeps, SameBuffer
  <2>8. ~ IsGreet(pkt) => s \in Clients(c)
    BY DEF IsGreet
  <2>9. ~ IsGreet(pkt) => Keeps(c, s, [s EXCEPT !.ret = FALSE])
    BY <2>8, RetFacts
  <2>. QED
    BY <1>0, <1>3, <2>5, <2>7, <2>9
<1>. QED
  BY <1>1, <1>2, <1>3

(* _maybeFinishOwnProposal.                                                 *)
LEMMA FinishOwnFacts ==
    ASSUME NEW c \in Client, NEW s \in Accepting(c), NEW n, NEW pf
    PROVE  LET t == MaybeFinishOwnProposal(s, n, pf) IN t \in Accepting(c) /\ Leads(s, t)
<1>. DEFINE s0 == Check(s, s.ownProposal.n = n => s.ownProposal.prev = pf, "ownProposalPrev")
            closed == [s0 EXCEPT !.ownProposal.open = FALSE]
            token == IF s.ownProposal.n = n THEN "proposalAccepted" ELSE "proposalRejected"
<1>1. s0 \in Accepting(c) /\ Leads(s, s0)
  BY AcceptingFacts DEF Check, Leads, Keeps, SameBuffer, Failures, Accepting, Clients
<1>. HIDE DEF s0
<1>2. [s0.ownProposal EXCEPT !.open = FALSE] \in OwnProposals
  BY <1>1 DEF Accepting, ClientRecords, OwnProposals
<1>3. closed = [s0 EXCEPT !.ownProposal = [s0.ownProposal EXCEPT !.open = FALSE]]
  BY <1>1 DEF Accepting, ClientRecords
<1>4. closed \in Accepting(c) /\ Leads(s0, closed)
  BY <1>1, <1>2, <1>3 DEF Leads, SameBuffer, Accepting, ClientRecords
<1>. HIDE DEF closed
<1>5. token \in Tokens
  BY DEF Tokens
<1>. HIDE DEF token
<1>6. Settle(closed, token) \in Accepting(c) /\ Leads(closed, Settle(closed, token))
  BY <1>4, <1>5, AcceptingFacts
<1>7. MaybeFinishOwnProposal(s, n, pf) \in {s0, Settle(closed, token)}
  BY DEF MaybeFinishOwnProposal, s0, closed, token
<1>. QED
  BY <1>1, <1>4, <1>6, <1>7 DEF Leads, SameBuffer

(* postAcceptInitial.                                                       *)
LEMMA PostAcceptFacts ==
    ASSUME NEW c \in Client, NEW s \in Clients(c), NEW pkt \in Pubtxts,
           NEW op, IsOperation(op), op.initial => pkt.t = "init"
    PROVE  LET t == PostAcceptInitial(c, s, pkt, op)
           IN  /\ t \in Accepting(c) /\ Leads(s, t)
               /\ t \in Clients(c) \/ op.initial
<1>. DEFINE g == IF s.proposed.n = pkt.n THEN s.proposed ELSE NewGreeting(c, s.current)
            s1 == [s EXCEPT !.greeting = g, !.currentPi = op.pId, !.proposed = NoGreeting]
<1>1. CASE Fubar(s) \/ ~ op.initial
  <2>1. PostAcceptInitial(c, s, pkt, op) = s
    BY <1>1 DEF PostAcceptInitial
  <2>. QED
    BY <2>1 DEF Leads, SameBuffer, Clients, Accepting
<1>2. CASE ~ (Fubar(s) \/ ~ op.initial)
  <2>1. g \in Greetings
    BY NewGreetingFacts DEF Clients, ClientRecords
  <2>2. op.pId \in InitialId
    BY <1>2 DEF IsOperation
  <2>. HIDE DEF g
  <2>3. s1 \in Accepting(c) /\ Leads(s, s1)
    BY <2>1, <2>2, NoGreetingFacts DEF Leads, SameBuffer, Clients, Accepting, ClientRecords
  <2>. HIDE DEF s1
  <2>4. PostAcceptInitial(c, s, pkt, op) = MaybeFinishOwnProposal(s1, pkt.n, op.prevPf)
    BY <1>2 DEF PostAcceptInitial, s1, g
  <2>5. LET t == MaybeFinishOwnProposal(s1, pkt.n, op.prevPf) IN t \in Accepting(c) /\ Leads(s1, t)
    BY <2>3, FinishOwnFacts
  <2>. QED
    BY <1>2, <2>3, <2>4, <2>5 DEF Leads, SameBuffer
<1>. QED
  BY <1>1, <1>2

(* [rule IAL], and waiting for a greeting that is complete.                 *)
LEMMA KickPauseFacts ==
    ASSUME NEW c \in Client, NEW s \in Clients(c), NEW op
    PROVE  Keeps(c, s, Kick(s, op)) /\ Keeps(c, s, Pause(s, op))
<1>1. s.taskLeave \cap s.greeting.next \in Members /\ s.channel \in Members
  BY DEF Clients, ClientRecords, Greetings, Members
<1>2. Keeps(c, s, Send(s, KickOthers(s.taskLeave \cap s.greeting.next)))
  BY <1>1, PacketFacts, SendFacts
<1>3. Keeps(c, s, [s EXCEPT !.pendingGreetPP = s.channel])
  BY <1>1 DEF Keeps, SameBuffer, Fubar, Clients, ClientRecords
<1>4. Kick(s, op) \in {s, Send(s, KickOthers(s.taskLeave \cap s.greeting.next))}
  BY DEF Kick
<1>5. Pause(s, op) \in {s, [s EXCEPT !.pendingGreetPP = s.channel]}
  BY DEF Pause
<1>. QED
  BY <1>2, <1>3, <1>4, <1>5, KeepsFacts

(* tryOpPacket as part of a task.                                           *)
LEMMA OrderedFacts ==
    ASSUME NEW c \in Client, NEW s \in Clients(c), NEW op, IsOperation(op)
    PROVE  Moves(c, s, [s EXCEPT !.serverOrder = TryOpPacket(@, c, op, s.channel)])
<1>. DEFINE order == TryOpPacket(s.serverOrder, c, op, s.channel)
            t == [s EXCEPT !.serverOrder = order]
<1>1. s.serverOrder \in Order /\ s.channel \in Members
  BY DEF Clients, ClientRecords
<1>2. order \in Order /\ HistoryStep(s.serverOrder, order)
  BY <1>1, TryOpPacketFacts
<1>3. t = [s EXCEPT !.serverOrder = TryOpPacket(@, c, op, s.channel)]
  BY DEF Clients, ClientRecords
<1>. HIDE DEF order
<1>4. t \in Clients(c) /\ SameBuffer(s, t) /\ t.serverOrder = order
  BY <1>2 DEF SameBuffer, Fubar, Clients, ClientRecords
<1>. HIDE DEF t
<1>5. Moves(c, s, t)
  BY <1>2, <1>4 DEF Moves
<1>. QED
  BY <1>3, <1>5

(* An accepted packet: one step of the history.                             *)
LEMMA AcceptOpFacts ==
    ASSUME NEW c \in Client, NEW s \in Clients(c), NEW pkt \in Pubtxts,
           NEW op, IsOperation(op), op.initial <=> pkt.t = "init", op.initial \in BOOLEAN
    PROVE  Moves(c, s, AcceptOp(c, s, pkt, op))
<1>. DEFINE ordered == [s EXCEPT !.serverOrder = TryOpPacket(@, c, op, s.channel)]
            accepted == PostAcceptInitial(c, ordered, pkt, op)
            received == GreetingRecv(c, accepted, pkt, op.initial)
            kicked == Kick(received, op)
            done == Pause(kicked, op)
<1>1. Moves(c, s, ordered) /\ ordered \in Clients(c)
  BY OrderedFacts DEF Moves
<1>2. AcceptOp(c, s, pkt, op) = done
  BY DEF AcceptOp
<1>. HIDE DEF ordered
<1>3. /\ accepted \in Accepting(c) /\ Leads(ordered, accepted)
      /\ accepted \in Clients(c) \/ op.initial
  BY <1>1, PostAcceptFacts
<1>. HIDE DEF accepted
<1>4. Keeps(c, accepted, received)
  BY <1>3, GreetingRecvFacts
<1>5. received \in Clients(c) /\ Keeps(c, ordered, received)
  BY <1>3, <1>4 DEF Keeps, Leads, SameBuffer
<1>. HIDE DEF received
<1>6. Keeps(c, received, kicked)
  BY <1>5, KickPauseFacts
<1>7. kicked \in Clients(c)
  BY <1>6 DEF Keeps
<1>. HIDE DEF kicked
<1>8. Keeps(c, kicked, done)
  BY <1>7, KickPauseFacts
<1>. HIDE DEF done
<1>. QED
  BY <1>1, <1>2, <1>5, <1>6, <1>8, KeepsFacts

(* A packet about an operation, accepted or not.                            *)
LEMMA RecvOpFacts ==
    ASSUME NEW c \in Client, NEW s \in Clients(c), NEW pkt \in Pubtxts,
           NEW op, IsOperation(op), op.initial <=> pkt.t = "init", op.initial \in BOOLEAN
    PROVE  Moves(c, s, RecvOp(c, s, pkt, op))
<1>1. Moves(c, s, Check(s, ~ InternalStateFails(s), "internalState"))
  BY CheckFacts, KeepsFacts DEF Failures
<1>2. Moves(c, s, Fail(s, "notEchoed"))
  BY FailFacts, KeepsFacts DEF Failures
<1>3. Moves(c, s, AcceptOp(c, s, pkt, op))
  BY AcceptOpFacts
<1>4. Moves(c, s, [s EXCEPT !.serverOrder = TryOpPacket(@, c, op, s.channel)])
  BY OrderedFacts
<1>. QED
  BY <1>1, <1>2, <1>3, <1>4 DEF RecvOp

(* _recvGreet.                                                             *)
LEMMA RecvGreetFacts ==
    ASSUME NEW c \in Client, NEW s \in Clients(c), NEW pkt \in Pubtxts
    PROVE  Moves(c, s, RecvGreet(c, s, pkt))
<1>. DEFINE s1 == [s EXCEPT !.ret = TRUE]
            op == GreetingSummary(s, pkt)
<1>1. Moves(c, s, Fail(s, "expectsFinal"))
  BY FailFacts, KeepsFacts DEF Failures
<1>2. Keeps(c, s, s1) /\ s1 \in Clients(c)
  BY RetFacts DEF Keeps
<1>. HIDE DEF s1
<1>3. IsOp(c, s, pkt) => Moves(c, s, RecvOp(c, s1, pkt, op))
  <2>1. SUFFICES ASSUME IsOp(c, s, pkt) PROVE Moves(c, s, RecvOp(c, s1, pkt, op))
    OBVIOUS
  <2>2. IsOperation(op) /\ (op.initial <=> pkt.t = "init")
    BY <2>1, SummaryFacts
  <2>3. op.initial \in BOOLEAN
    BY <2>2 DEF IsOperation, Op
  <2>. HIDE DEF op
  <2>4. Moves(c, s1, RecvOp(c, s1, pkt, op))
    BY <1>2, <2>2, <2>3, RecvOpFacts
  <2>. QED
    BY <1>2, <2>4, KeepsFacts
<1>4. Moves(c, s, GreetingRecv(c, s, pkt, FALSE))
  <2>1. s \in Accepting(c) /\ FALSE \in BOOLEAN
    BY DEF Accepting, Clients
  <2>. QED
    BY <2>1, GreetingRecvFacts, KeepsFacts
<1>5. Moves(c, s, [s EXCEPT !.ret = FALSE])
  BY RetFacts, KeepsFacts
<1>. QED
  BY <1>1, <1>3, <1>4, <1>5 DEF RecvGreet, s1

-----------------------------------------------------------------------------
(* The control branch of _recvMain.                                        *)

(* What a client receives is a published packet or a notice.                *)
LEMMA NoticeFacts ==
    ASSUME NEW pkt \in FromServer
    PROVE  /\ IsPubtxt(pkt) <=> pkt \in Pubtxts
           /\ ~ IsPubtxt(pkt) => pkt \in Notices
  BY DEF FromServer, IsPubtxt, Requests, Pubtxts, InitPackets, UpPackets, DownPackets, Intents,
         Notices

(* The owner enters the channel.                                            *)
LEMMA EnteredFacts ==
    ASSUME NEW c \in Client, NEW s \in Clients(c)
    PROVE  Moves(c, s, OnEntered(c, s))
<1>. DEFINE s1 == [s EXCEPT !.moreSeniorThanUs = s.channel \ {c}]
<1>1. s.channel \ {c} \in Members
  BY DEF Clients, ClientRecords, Members
<1>2. Keeps(c, s, s1)
  BY <1>1 DEF Keeps, SameBuffer, Fubar, Clients, ClientRecords
<1>3. s1 \in Clients(c)
  BY <1>2 DEF Keeps
<1>. HIDE DEF s1
<1>4. Moves(c, s1, MaybeSyncNew(c, s1))
  BY <1>3, MaybeSyncNewFacts
<1>. QED
  BY <1>2, <1>4, KeepsFacts DEF OnEntered, s1

(* The owner leaves the channel and forgets the history [rule LI].          *)
LEMMA LeftFacts ==
    ASSUME NEW c \in Client, NEW s \in Clients(c)
    PROVE  Moves(c, s, OnLeft(c, s))
<1>. DEFINE s0 == ClearChannelRecords(s)
            s1 == ClearOwnProposal(ClearOwnOperation(s0))
            s2 == IF HasGreeting(s1) THEN FailGreeting(s1) ELSE s1
<1>1. s0 \in Clients(c) /\ SameBuffer(s, s0) /\ s0.serverOrder = Unsynced
  <2>1. {} \in Members
    BY DEF Members
  <2>. QED
    BY <2>1, UnsyncedFacts DEF ClearChannelRecords, SameBuffer, Fubar, Clients, ClientRecords
<1>2. Moves(c, s, s0)
  BY <1>1, UnsyncedFacts DEF Moves, HistoryStep
<1>. HIDE DEF s0
<1>3. Keeps(c, s0, s1)
  BY <1>1, ClearOwnFacts, KeepsFacts DEF Keeps
<1>4. s1 \in Clients(c)
  BY <1>3 DEF Keeps
<1>. HIDE DEF s1
<1>5. Keeps(c, s1, s2)
  BY <1>4, FailGreetingFacts, KeepsFacts
<1>6. s2 \in Clients(c)
  BY <1>5 DEF Keeps
<1>. HIDE DEF s2
<1>7. Keeps(c, s2, ChangeSubSession(c, s2, NoGreeting))
  BY <1>6, NoGreetingFacts, ChangeSubSessionFacts
<1>8. OnLeft(c, s) \in {s2, ChangeSubSession(c, s2, NoGreeting)}
  BY DEF OnLeft, s0, s1, s2
<1>9. Moves(c, s, s2)
  BY <1>2, <1>3, <1>5, KeepsFacts
<1>. QED
  BY <1>7, <1>8, <1>9, KeepsFacts

(* Others enter and leave in one notice.                                    *)
LEMMA ChangeFacts ==
    ASSUME NEW c \in Client, NEW s \in Clients(c), NEW pkt, pkt.enter \in Members, pkt.leave \in Members
    PROVE  Moves(c, s, OnChange(c, s, pkt))
<1>. DEFINE s1 == IF pkt.leave = {} THEN s ELSE OnOthersLeave(c, s, pkt.leave)
<1>1. Moves(c, s, s1) /\ s1 \in Clients(c)
  BY OthersLeaveFacts, KeepsFacts DEF Moves
<1>. HIDE DEF s1
<1>2. Keeps(c, s1, Entering(c, s1, pkt.enter))
  BY <1>1, OthersEnterFacts, KeepsFacts DEF Entering
<1>. QED
  BY <1>1, <1>2, KeepsFacts DEF OnChange, s1

(* A notice of the channel: at most one step of the history.                *)
LEMMA ControlFacts ==
    ASSUME NEW c \in Client, NEW s \in Clients(c), NEW pkt \in Notices
    PROVE  Moves(c, s, RecvControl(c, s, pkt))
<1>1. pkt.t \notin {"entered", "left"} => pkt.enter \in Members /\ pkt.leave \in Members
  BY DEF Notices
<1>. QED
  BY <1>1, EnteredFacts, LeftFacts, ChangeFacts DEF RecvControl

-----------------------------------------------------------------------------
(* Stashed packets, and whole tasks.                                       *)
Steps(c, s, t) == t \in Clients(c) /\ HistoryStep(s.serverOrder, t.serverOrder) /\ InBounds(t)

(* A task that leaves the buffer as it is keeps it in its bounds.           *)
LEMMA StepsFacts ==
    ASSUME NEW c \in Client, NEW s \in Clients(c)
    PROVE  /\ InBounds(s) => \A t : Moves(c, s, t) => Steps(c, s, t)
           /\ InBounds(s) => \A t : Keeps(c, s, t) => Steps(c, s, t)
           /\ \A t, u : Keeps(c, s, t) /\ Steps(c, t, u) => Steps(c, s, u)
  BY DEF Steps, Moves, Keeps, SameBuffer, InBounds, HistoryStep, Same

(* A notice is no message of a session.                                     *)
LEMMA SessionMessageFacts ==
    ASSUME NEW c \in Client, NEW s \in Clients(c), NEW pkt \in FromServer
    PROVE  Keeps(c, s, SessionRecv(c, s, pkt))
<1>1. CASE pkt \in Pubtxts
  BY <1>1, SessionRecvFacts
<1>2. CASE pkt \in Notices
  <2>1. SessionRecv(c, s, pkt) = [s EXCEPT !.ret = FALSE]
    BY <1>2 DEF SessionRecv, Notices
  <2>. QED
    BY <2>1, RetFacts
<1>. QED
  BY <1>1, <1>2 DEF FromServer

(* retryAll starts at the first item.                                       *)
LEMMA StartRetryFacts ==
    ASSUME NEW c \in Client, NEW s \in Clients(c), InBounds(s) \/ s.retry = 0,
           Len(s.tryDecrypt) <= Asynchronity
    PROVE  /\ StartRetryAll(s) \in Clients(c) /\ InBounds(StartRetryAll(s))
           /\ StartRetryAll(s).serverOrder = s.serverOrder
<1>1. Len(s.tryDecrypt) \in Nat /\ 1 \in Nat
  BY DEF Clients, ClientRecords
<1>2. LET t == [s EXCEPT !.retry = 1, !.hadSuccess = FALSE]
      IN  t \in Clients(c) /\ InBounds(t) /\ t.serverOrder = s.serverOrder
  <2>. DEFINE t == [s EXCEPT !.retry = 1, !.hadSuccess = FALSE]
  <2>1. t \in Clients(c) /\ t.serverOrder = s.serverOrder /\ t.retry = 1
        /\ t.tryDecrypt = s.tryDecrypt
    BY <1>1 DEF Fubar, Clients, ClientRecords
  <2>2. 1 <= Len(s.tryDecrypt) + 1
    BY <1>1
  <2>. QED
    BY <2>1, <2>2 DEF InBounds
<1>3. InBounds(s)
  BY <1>1 DEF InBounds
<1>. QED
  BY <1>2, <1>3 DEF StartRetryAll

(* A full buffer loses its oldest item for the new one.                     *)
LEMMA StashFacts ==
    ASSUME NEW c \in Client, NEW s \in Clients(c), InBounds(s), NEW pkt \in FromServer
    PROVE  /\ Stash(s, pkt) \in Clients(c) /\ InBounds(Stash(s, pkt))
           /\ Stash(s, pkt).serverOrder = s.serverOrder
<1>. DEFINE all == Append(s.tryDecrypt, pkt)
            kept == IF Len(all) > Asynchronity THEN Tail(all) ELSE all
            t == [s EXCEPT !.tryDecrypt = kept]
<1>1. s.tryDecrypt \in Seq(FromServer) /\ Len(s.tryDecrypt) \in Nat /\ s.retry \in Nat
  BY DEF Clients, ClientRecords
<1>2. all \in Seq(FromServer) /\ Len(all) = Len(s.tryDecrypt) + 1
  BY <1>1, AppendFacts
<1>. HIDE DEF all
<1>3. all # <<>> => Tail(all) \in Seq(FromServer) /\ Len(Tail(all)) = Len(all) - 1
  BY <1>2
<1>4. all # <<>>
  BY <1>1, <1>2
<1>5. kept \in Seq(FromServer)
  BY <1>2, <1>3, <1>4
<1>6. Len(kept) <= Asynchronity /\ s.retry <= Len(kept) + 1
  BY <1>1, <1>2, <1>3, <1>4, AsynchronityAssumption DEF InBounds
<1>. HIDE DEF kept
<1>7. t \in Clients(c) /\ InBounds(t) /\ t.serverOrder = s.serverOrder
  BY <1>5, <1>6 DEF InBounds, Fubar, Clients, ClientRecords
<1>. QED
  BY <1>7 DEF Stash, kept, all

(* TrialBuffer.trial leaves the order as it is.                             *)
LEMMA TrialFacts ==
    ASSUME NEW c \in Client, NEW s \in Clients(c), InBounds(s), NEW pkt \in FromServer
    PROVE  Steps(c, s, Trial(c, s, pkt)) /\ Trial(c, s, pkt).serverOrder = s.serverOrder
<1>. DEFINE tried == IF IsPubtxt(pkt) THEN SessionRecv(c, s, pkt) ELSE [s EXCEPT !.ret = FALSE]
<1>1. Keeps(c, s, tried)
  BY SessionMessageFacts, RetFacts
<1>2. tried \in Clients(c) /\ InBounds(tried) /\ tried.serverOrder = s.serverOrder
  BY <1>1 DEF Keeps, SameBuffer, InBounds
<1>. HIDE DEF tried
<1>3. LET t == Tried(tried, pkt)
      IN  t \in Clients(c) /\ InBounds(t) /\ t.serverOrder = s.serverOrder
  <2>1. Len(tried.tryDecrypt) <= Asynchronity
    BY <1>2 DEF InBounds
  <2>. QED
    BY <1>2, <2>1, StartRetryFacts, StashFacts DEF Tried
<1>4. Trial(c, s, pkt) = Tried(tried, pkt)
  BY DEF Trial, tried
<1>. QED
  BY <1>3, <1>4 DEF Steps, HistoryStep, Same

(* _recvMain, of a packet just received and of one being retried.           *)
LEMMA RecvMainFacts ==
    ASSUME NEW c \in Client, NEW s \in Clients(c), NEW pkt \in FromServer
    PROVE  /\ InBounds(s) => Steps(c, s, RecvMain(c, s, pkt, TRUE))
           /\ Moves(c, s, RecvMain(c, s, pkt, FALSE))
<1>. DEFINE s0 == [s EXCEPT !.ret = TRUE]
            s1 == IF IsPubtxt(pkt) THEN RecvGreet(c, s, pkt) ELSE RecvControl(c, s0, pkt)
<1>1. Keeps(c, s, s0) /\ s0 \in Clients(c)
  BY RetFacts DEF Keeps
<1>. HIDE DEF s0
<1>2. Moves(c, s, s1)
  BY <1>1, NoticeFacts, RecvGreetFacts, ControlFacts, KeepsFacts
<1>3. s1 \in Clients(c) /\ SameBuffer(s, s1)
  BY <1>2 DEF Moves
<1>. HIDE DEF s1
<1>4. InBounds(s) => InBounds(s1)
  BY <1>3 DEF InBounds, SameBuffer
<1>5. InBounds(s) => Steps(c, s1, Trial(c, s1, pkt)) /\ Trial(c, s1, pkt).serverOrder = s1.serverOrder
  BY <1>3, <1>4, TrialFacts
<1>6. InBounds(s) => Steps(c, s, OrMessage(c, s1, pkt, TRUE))
  BY <1>2, <1>3, <1>4, <1>5 DEF OrMessage, Steps, Moves
<1>7. Keeps(c, s1, OrMessage(c, s1, pkt, FALSE))
  BY <1>3, SessionMessageFacts, KeepsFacts DEF OrMessage
<1>8. Moves(c, s, OrMessage(c, s1, pkt, FALSE))
  BY <1>2, <1>7, KeepsFacts
<1>. QED
  BY <1>6, <1>8 DEF RecvMain, s1, s0

(* The own operation waits for members to enter or to leave.                *)
LEMMA AwaitFacts ==
    ASSUME NEW c \in Client, NEW s \in Clients(c), NEW enter \in Members, NEW leave \in Members
    PROVE  Keeps(c, s, AwaitDiff(s, enter, leave))
<1>. DEFINE awaited == IF s.ownOp.phase = "entering" THEN enter ELSE leave
            rest == s.ownOp.rest \ awaited
            waiting == [s EXCEPT !.ownOp.rest = @ \ awaited]
            done == [s EXCEPT !.ownOp.rest = {}]
<1>1. s.ownOp \in OwnOps /\ s.ownOp.rest \ awaited \in Members /\ {} \in Members
  BY DEF Clients, ClientRecords, OwnOps, Members
<1>2. ASSUME NEW r \in Members PROVE Keeps(c, s, [s EXCEPT !.ownOp.rest = r])
  <2>1. [s.ownOp EXCEPT !.rest = r] \in OwnOps
    BY <1>1 DEF OwnOps
  <2>2. [s EXCEPT !.ownOp.rest = r] = [s EXCEPT !.ownOp = [s.ownOp EXCEPT !.rest = r]]
    BY DEF Clients, ClientRecords
  <2>. QED
    BY <2>1, <2>2 DEF Keeps, SameBuffer, Fubar, Clients, ClientRecords
<1>3. Keeps(c, s, done) /\ Keeps(c, s, [s EXCEPT !.ownOp.rest = rest])
  BY <1>1, <1>2
<1>4. waiting = [s EXCEPT !.ownOp.rest = rest]
  BY <1>1 DEF Clients, ClientRecords, OwnOps
<1>5. Keeps(c, s, waiting)
  BY <1>3, <1>4
<1>6. AwaitDiff(s, enter, leave) \in {s, Settle(s, "ownOp"), Settle(done, "nextStep"), waiting}
  BY DEF AwaitDiff
<1>7. done \in Clients(c)
  BY <1>3 DEF Keeps
<1>. HIDE DEF done, waiting
<1>8. Keeps(c, s, Settle(s, "ownOp")) /\ Keeps(c, done, Settle(done, "nextStep"))
  BY <1>7, SettleFacts DEF Tokens
<1>. QED
  BY <1>3, <1>5, <1>6, <1>8, KeepsFacts

(* The channel's own record of its members.                                 *)
LEMMA ChannelRecvFacts ==
    ASSUME NEW c \in Client, NEW s \in Clients(c), NEW pkt \in FromServer
    PROVE  Keeps(c, s, ChannelRecv(c, s, pkt))
<1>1. ASSUME NEW who \in Members PROVE Keeps(c, s, [s EXCEPT !.channel = who])
  BY DEF Keeps, SameBuffer, Fubar, Clients, ClientRecords
<1>2. CASE IsPubtxt(pkt)
  BY <1>2, KeepsFacts DEF ChannelRecv, IsPubtxt
<1>3. CASE ~ IsPubtxt(pkt) /\ pkt.t = "entered"
  <2>1. pkt.members \in Members
    BY <1>3, NoticeFacts DEF Notices
  <2>. QED
    BY <1>1, <1>3, <2>1 DEF ChannelRecv
<1>4. CASE ~ IsPubtxt(pkt) /\ pkt.t = "left"
  <2>1. {} \in Members
    BY DEF Members
  <2>. QED
    BY <1>1, <1>4, <2>1 DEF ChannelRecv
<1>5. CASE ~ IsPubtxt(pkt) /\ pkt.t \notin {"entered", "left"}
  <2>1. pkt.enter \in Members /\ pkt.leave \in Members
    BY <1>5, NoticeFacts DEF Notices
  <2>. DEFINE who == (s.channel \cup pkt.enter) \ pkt.leave
              t == [s EXCEPT !.channel = (@ \cup pkt.enter) \ pkt.leave]
  <2>2. who \in Members
    BY <2>1 DEF Clients, ClientRecords, Members
  <2>3. t = [s EXCEPT !.channel = who]
    BY DEF Clients, ClientRecords
  <2>. HIDE DEF who
  <2>4. Keeps(c, s, t)
    BY <1>1, <2>2, <2>3
  <2>5. t \in Clients(c)
    BY <2>4 DEF Keeps
  <2>6. ChannelRecv(c, s, pkt) = AwaitDiff(t, pkt.enter, pkt.leave)
    BY <1>5 DEF ChannelRecv
  <2>. HIDE DEF t
  <2>7. Keeps(c, t, AwaitDiff(t, pkt.enter, pkt.leave))
    BY <2>1, <2>5, AwaitFacts
  <2>. QED
    BY <2>4, <2>6, <2>7, KeepsFacts
<1>. QED
  BY <1>2, <1>3, <1>4, <1>5

(* A packet just received.                                                 *)
LEMMA SessionTaskFacts ==
    ASSUME NEW c \in Client, NEW s \in Clients(c), InBounds(s), NEW pkt \in FromServer
    PROVE  Steps(c, s, SessionTask(c, s, pkt))
<1>. DEFINE s1 == ChannelRecv(c, s, pkt)
<1>1. Keeps(c, s, s1)
  BY ChannelRecvFacts
<1>2. s1 \in Clients(c) /\ InBounds(s1)
  BY <1>1 DEF Keeps, SameBuffer, InBounds
<1>. HIDE DEF s1
<1>3. Steps(c, s1, HandlePacket(c, s1, pkt))
  BY <1>2, TrialFacts, RecvMainFacts DEF HandlePacket
<1>. QED
  BY <1>1, <1>3, StepsFacts DEF SessionTask, s1

(* Removing an item of a sequence.                                          *)
LEMMA RemoveAtFacts ==
    ASSUME NEW S, NEW q \in Seq(S), NEW i \in 1 .. Len(q)
    PROVE  RemoveAt(q, i) \in Seq(S) /\ Len(RemoveAt(q, i)) = Len(q) - 1
<1>1. SubSeq(q, 1, i - 1) \in Seq(S) /\ Len(SubSeq(q, 1, i - 1)) = i - 1
  BY SubSeqProperties
<1>2. SubSeq(q, i + 1, Len(q)) \in Seq(S) /\ Len(SubSeq(q, i + 1, Len(q))) = Len(q) - i
  BY SubSeqProperties
<1>3. Len(q) \in Nat
  OBVIOUS
<1>4. RemoveAt(q, i) = SubSeq(q, 1, i - 1) \o SubSeq(q, i + 1, Len(q))
  BY DEF RemoveAt
<1>5. /\ RemoveAt(q, i) \in Seq(S)
      /\ Len(RemoveAt(q, i)) = Len(SubSeq(q, 1, i - 1)) + Len(SubSeq(q, i + 1, Len(q)))
  BY <1>1, <1>2, <1>4, ConcatFacts
<1>. DEFINE m == Len(SubSeq(q, 1, i - 1))
            n == Len(SubSeq(q, i + 1, Len(q)))
            k == Len(q)
<1>6. i \in Nat /\ k \in Nat /\ m = i - 1 /\ n = k - i
  BY <1>1, <1>2, <1>3
<1>. HIDE DEF m, n, k
<1>7. m + n = k - 1
  BY <1>6
<1>. QED
  BY <1>5, <1>7 DEF m, n, k

(* A step of retryAll.                                                     *)
LEMMA RetryStepFacts ==
    ASSUME NEW c \in Client, NEW s \in Clients(c), InBounds(s), s.retry > 0
    PROVE  Steps(c, s, RetryStep(c, s))
<1>0. s.tryDecrypt \in Seq(FromServer) /\ Len(s.tryDecrypt) \in Nat /\ s.retry \in Nat
      /\ s.serverOrder \in Order
  BY DEF Clients, ClientRecords
<1>1. CASE s.retry <= Len(s.tryDecrypt)
  <2>. DEFINE item == s.tryDecrypt[s.retry]
              s1 == TryDecryptTry(c, s, item)
              removed == [s1 EXCEPT !.tryDecrypt = RemoveAt(s.tryDecrypt, s.retry), !.hadSuccess = TRUE]
              passed == [s1 EXCEPT !.retry = @ + 1]
  <2>1. s.retry \in 1 .. Len(s.tryDecrypt) /\ item \in FromServer
    BY <1>0, <1>1
  <2>. HIDE DEF item
  <2>2. Moves(c, s, s1)
    BY <2>1, RecvMainFacts, SessionMessageFacts, RetFacts, KeepsFacts DEF TryDecryptTry
  <2>3. s1 \in Clients(c) /\ s1.tryDecrypt = s.tryDecrypt /\ s1.retry = s.retry
        /\ HistoryStep(s.serverOrder, s1.serverOrder)
    BY <2>2 DEF Moves, SameBuffer
  <2>4. RetryStep(c, s) = TryAndDelete(s1)
    BY <1>1 DEF RetryStep, RetryItem, item
  <2>. HIDE DEF s1
  <2>5. TryAndDelete(s1) \in {removed, passed}
    BY <2>3 DEF TryAndDelete, Clients, ClientRecords
  <2>6. /\ RemoveAt(s.tryDecrypt, s.retry) \in Seq(FromServer)
        /\ Len(RemoveAt(s.tryDecrypt, s.retry)) = Len(s.tryDecrypt) - 1
    BY <1>0, <2>1, RemoveAtFacts
  <2>7. Len(s.tryDecrypt) <= Asynchronity /\ Asynchronity \in Nat
    BY AsynchronityAssumption DEF InBounds
  <2>8. /\ removed \in Clients(c) /\ removed.retry = s.retry
        /\ removed.tryDecrypt = RemoveAt(s.tryDecrypt, s.retry)
        /\ removed.serverOrder = s1.serverOrder
    BY <2>3, <2>6 DEF Fubar, Clients, ClientRecords
  <2>9. InBounds(removed)
    BY <1>0, <1>1, <2>6, <2>7, <2>8 DEF InBounds
  <2>10. /\ passed \in Clients(c) /\ passed.retry = s.retry + 1
         /\ passed.tryDecrypt = s.tryDecrypt /\ passed.serverOrder = s1.serverOrder
    <3>1. s1.retry + 1 \in Nat
      BY <1>0, <2>3
    <3>. QED
      BY <2>3, <3>1 DEF Fubar, Clients, ClientRecords
  <2>11. InBounds(passed)
    BY <1>0, <1>1, <2>7, <2>10 DEF InBounds
  <2>. HIDE DEF removed, passed
  <2>. QED
    BY <2>3, <2>4, <2>5, <2>8, <2>9, <2>10, <2>11 DEF Steps
<1>2. CASE ~ s.retry <= Len(s.tryDecrypt)
  <2>. DEFINE stopped == [s EXCEPT !.retry = 0]
  <2>1. stopped \in Clients(c) /\ stopped.serverOrder = s.serverOrder /\ stopped.retry = 0
        /\ stopped.tryDecrypt = s.tryDecrypt
    BY DEF Fubar, Clients, ClientRecords
  <2>2. InBounds(stopped) /\ Len(stopped.tryDecrypt) <= Asynchronity
    BY <1>0, <2>1 DEF InBounds
  <2>3. RetryStep(c, s) \in {stopped, StartRetryAll(stopped)}
    BY <1>2 DEF RetryStep
  <2>. HIDE DEF stopped
  <2>4. /\ StartRetryAll(stopped) \in Clients(c) /\ InBounds(StartRetryAll(stopped))
        /\ StartRetryAll(stopped).serverOrder = s.serverOrder
    BY <2>1, <2>2, StartRetryFacts
  <2>. QED
    BY <2>1, <2>2, <2>3, <2>4 DEF Steps, HistoryStep, Same
<1>. QED
  BY <1>1, <1>2

-----------------------------------------------------------------------------
(* Own operations.                                                         *)

(* The own operation goes on to its next phase.                             *)
LEMMA PhaseFacts ==
    ASSUME NEW c \in Client, NEW s \in Clients(c), NEW phase \in Phases, NEW rest \in Members,
           NEW n \in ProposalId
    PROVE  /\ Keeps(c, s, [s EXCEPT !.ownOp.phase = phase, !.ownOp.rest = rest])
           /\ Keeps(c, s, [s EXCEPT !.ownOp.phase = phase, !.ownOp.n = n])
<1>0. s.ownOp \in OwnOps
  BY DEF Clients, ClientRecords
<1>1. ASSUME NEW op \in OwnOps PROVE Keeps(c, s, [s EXCEPT !.ownOp = op])
  BY DEF Keeps, SameBuffer, Fubar, Clients, ClientRecords
<1>2. /\ [s.ownOp EXCEPT !.phase = phase, !.rest = rest] \in OwnOps
      /\ [s.ownOp EXCEPT !.phase = phase, !.n = n] \in OwnOps
  BY <1>0 DEF OwnOps
<1>3. /\ [s EXCEPT !.ownOp.phase = phase, !.ownOp.rest = rest] =
           [s EXCEPT !.ownOp = [s.ownOp EXCEPT !.phase = phase, !.rest = rest]]
      /\ [s EXCEPT !.ownOp.phase = phase, !.ownOp.n = n] =
           [s EXCEPT !.ownOp = [s.ownOp EXCEPT !.phase = phase, !.n = n]]
  BY <1>0 DEF Clients, ClientRecords, OwnOps
<1>. QED
  BY <1>1, <1>2, <1>3

(* The own operation proposes.                                              *)
LEMMA OpProposeFacts ==
    ASSUME NEW c \in Client, NEW s \in Clients(c)
    PROVE  Keeps(c, s, OpPropose(c, s))
<1>. DEFINE s1 == ProposeGreetInit(c, s, s.ownOp.inc, s.ownOp.exc)
            t == [s1 EXCEPT !.ownOp.phase = "proposed", !.ownOp.n = s1.ownProposal.n]
<1>1. s.ownOp.inc \in Members /\ s.ownOp.exc \in Members
  BY DEF Clients, ClientRecords, OwnOps
<1>2. Keeps(c, s, s1) /\ s1 \in Clients(c)
  BY <1>1, ProposeFacts DEF Keeps
<1>3. OpPropose(c, s) \in {Settle(s, "ownOp"), t}
  BY DEF OpPropose
<1>. HIDE DEF s1
<1>4. s1.ownProposal.n \in ProposalId /\ "proposed" \in Phases /\ s1.ownOp.rest \in Members
  BY <1>2 DEF Clients, ClientRecords, OwnProposals, OwnOps, Phases
<1>5. Keeps(c, s1, t)
  BY <1>2, <1>4, PhaseFacts
<1>. HIDE DEF t
<1>6. Keeps(c, s, Settle(s, "ownOp"))
  BY SettleFacts DEF Tokens
<1>. QED
  BY <1>2, <1>3, <1>5, <1>6, KeepsFacts

(* The own operation makes members enter.                                   *)
LEMMA OpEnterFacts ==
    ASSUME NEW c \in Client, NEW s \in Clients(c)
    PROVE  Keeps(c, s, OpEnter(c, s))
<1>. DEFINE absent == s.ownOp.inc \ s.channel
            s1 == Send(s, EnterOthers(s.ownOp.inc))
            t == [s1 EXCEPT !.ownOp.phase = "entering", !.ownOp.rest = absent]
<1>1. s.ownOp.inc \in Members /\ absent \in Members /\ s.ownOp.n \in ProposalId
  BY DEF Clients, ClientRecords, OwnOps, Members
<1>2. OpEnter(c, s) \in {OpPropose(c, s), OpPropose(c, s1), t}
  BY DEF OpEnter
<1>. HIDE DEF absent
<1>3. Keeps(c, s, s1) /\ s1 \in Clients(c)
  BY <1>1, PacketFacts, SendFacts DEF Keeps
<1>. HIDE DEF s1
<1>4. Keeps(c, s1, t)
  BY <1>1, <1>3, PhaseFacts DEF Phases
<1>. HIDE DEF t
<1>5. Keeps(c, s, OpPropose(c, s)) /\ Keeps(c, s1, OpPropose(c, s1))
  BY <1>3, OpProposeFacts
<1>. QED
  BY <1>2, <1>3, <1>4, <1>5, KeepsFacts

(* The own operation makes members leave.                                   *)
LEMMA OpLeaveFacts ==
    ASSUME NEW c \in Client, NEW s \in Clients(c)
    PROVE  Keeps(c, s, OpLeave(c, s))
<1>. DEFINE present == s.ownOp.toLeave \cap s.channel
            s1 == Send(s, KickOthers(s.ownOp.toLeave))
            t == [s1 EXCEPT !.ownOp.phase = "leaving", !.ownOp.rest = present]
<1>1. s.ownOp.toLeave \in Members /\ present \in Members /\ s.ownOp.n \in ProposalId
  BY DEF Clients, ClientRecords, OwnOps, Members
<1>2. OpLeave(c, s) \in {OpEnter(c, s), OpEnter(c, s1), t}
  BY DEF OpLeave
<1>. HIDE DEF present
<1>3. Keeps(c, s, s1) /\ s1 \in Clients(c)
  BY <1>1, PacketFacts, SendFacts DEF Keeps
<1>. HIDE DEF s1
<1>4. Keeps(c, s1, t)
  BY <1>1, <1>3, PhaseFacts DEF Phases
<1>. HIDE DEF t
<1>5. Keeps(c, s, OpEnter(c, s)) /\ Keeps(c, s1, OpEnter(c, s1))
  BY <1>3, OpEnterFacts
<1>. QED
  BY <1>2, <1>3, <1>4, <1>5, KeepsFacts

(* _changeMembership.                                                       *)
LEMMA ChangeMembershipFacts ==
    ASSUME NEW c \in Client, NEW s \in Clients(c), NEW include \in Members, NEW exclude \in Members
    PROVE  Keeps(c, s, ChangeMembership(c, s, include, exclude))
<1>. DEFINE op == [NoOwnOp EXCEPT !.phase = "started", !.inc = include, !.exc = exclude,
                                  !.toLeave = include \cap s.taskLeave]
            t == [s EXCEPT !.opInclude = include, !.ownOp = op]
<1>1. include \cap s.taskLeave \in Members /\ {} \in Members
  BY DEF Members
<1>2. op \in OwnOps
  BY <1>1, NoGreetingFacts DEF NoOwnOp, OwnOps, Phases
<1>3. ChangeMembership(c, s, include, exclude) = OpLeave(c, t)
  BY DEF ChangeMembership
<1>. HIDE DEF op
<1>4. Keeps(c, s, t)
  BY <1>2 DEF Keeps, SameBuffer, Fubar, Clients, ClientRecords
<1>5. t \in Clients(c)
  BY <1>4 DEF Keeps
<1>. HIDE DEF t
<1>6. Keeps(c, t, OpLeave(c, t))
  BY <1>5, OpLeaveFacts
<1>. QED
  BY <1>3, <1>4, <1>6, KeepsFacts

(* _includeSelf.                                                            *)
LEMMA IncludeSelfFacts ==
    ASSUME NEW c \in Client, NEW s \in Clients(c)
    PROVE  Keeps(c, s, IncludeSelf(s))
<1>1. Keeps(c, s, Send(s, EnterSelf))
  BY PacketFacts, SendFacts
<1>2. Keeps(c, s, Fail(s, "includeSelf"))
  BY FailFacts DEF Failures
<1>. QED
  BY <1>1, <1>2, KeepsFacts DEF IncludeSelf, InternalState

(* _excludeSelf.                                                            *)
LEMMA ExcludeSelfFacts ==
    ASSUME NEW c \in Client, NEW s \in Clients(c)
    PROVE  Keeps(c, s, ExcludeSelf(c, s))
<1>. DEFINE t == [s EXCEPT !.parting = "sent", !.opInclude = {}]
            pkt == [t |-> "intent", sid |-> s.current.sid, src |-> c]
<1>1. Keeps(c, s, t)
  <2>1. {} \in Members
    BY DEF Members
  <2>. QED
    BY <2>1 DEF Keeps, SameBuffer, Fubar, Clients, ClientRecords
<1>2. t \in Clients(c)
  BY <1>1 DEF Keeps
<1>3. pkt \in ToServer
  BY DEF ToServer, Pubtxts, Intents, Clients, ClientRecords, Sessions
<1>4. ExcludeSelf(c, s) = Send(t, pkt)
  BY DEF ExcludeSelf
<1>. HIDE DEF t, pkt
<1>5. Keeps(c, t, Send(t, pkt))
  BY <1>2, <1>3, SendFacts
<1>. QED
  BY <1>1, <1>4, <1>5, KeepsFacts

(* A promise callback.                                                     *)
LEMMA GreetingDoneFacts ==
    ASSUME NEW c \in Client, NEW s \in Clients(c), InBounds(s)
    PROVE  Steps(c, s, GreetingDone(c, s))
<1>. DEFINE g == s.greeting
            s1 == OnGreetingComplete(s, g)
            s2 == ChangeSubSession(c, s1, g)
<1>0. g \in Greetings
  BY DEF Clients, ClientRecords
<1>1. Steps(c, s, Fail(s, "greetingComplete"))
  BY FailFacts, StepsFacts DEF Failures
<1>2. ASSUME NEW t, Keeps(c, s, t)
      PROVE  Steps(c, s, ClearGreeting(t))
  <2>1. t \in Clients(c) /\ InBounds(t)
    BY <1>2 DEF Keeps, SameBuffer, InBounds
  <2>. QED
    BY <2>1, <1>2, ClearGreetingFacts DEF Steps, Keeps, HistoryStep, Same
<1>3. Keeps(c, s, s1) /\ s1 \in Clients(c)
  BY <1>0, GreetingCompleteFacts DEF Keeps
<1>. HIDE DEF s1
<1>4. c \in g.next => Keeps(c, s1, s2)
  BY <1>0, <1>3, ChangeSubSessionFacts
<1>. HIDE DEF s2
<1>5. c \in g.next => Keeps(c, s, s2)
  BY <1>3, <1>4, KeepsFacts
<1>6. Keeps(c, s, s)
  BY KeepsFacts
<1>. QED
  BY <1>1, <1>2, <1>5, <1>6 DEF GreetingDone, s2, s1, g

(* Any promise callback.                                                    *)
LEMMA MicroTaskFacts ==
    ASSUME NEW c \in Client, NEW s \in Clients(c), InBounds(s), s.micro # <<>>
    PROVE  Steps(c, s, MicroTask(c, s))
<1>. DEFINE token == Head(s.micro)
            s1 == [s EXCEPT !.micro = Tail(@)]
<1>1. s.micro \in Seq(Tokens)
  BY DEF Clients, ClientRecords
<1>2. token \in Tokens /\ Tail(s.micro) \in Seq(Tokens)
  BY <1>1
<1>3. s1 = [s EXCEPT !.micro = Tail(s.micro)]
  BY DEF Clients, ClientRecords
<1>4. Keeps(c, s, s1)
  BY <1>2, <1>3 DEF Keeps, SameBuffer, Fubar, Clients, ClientRecords
<1>5. s1 \in Clients(c) /\ InBounds(s1)
  BY <1>4 DEF Keeps, SameBuffer, InBounds
<1>. DEFINE cleared == ClearOwnProposal(s1)
<1>6. MicroTask(c, s) \in
        {cleared, Settle(cleared, "ownOp"), GreetingDone(c, s1), ClearGreeting(s1),
         OpEnter(c, s1), OpPropose(c, s1), s1, ClearOwnOperation(s1)}
  <2>1. MicroTask(c, s) =
          CASE token = "proposalAccepted" -> cleared
            [] token = "proposalRejected" ->
                  IF s.ownOp.phase = "proposed" /\ s.ownOp.n = s.ownProposal.n
                  THEN Settle(cleared, "ownOp") ELSE cleared
            [] token = "greetingDone" -> GreetingDone(c, s1)
            [] token = "greetingFailed" -> ClearGreeting(s1)
            [] token = "nextStep" ->
                  IF s.ownOp.phase = "leaving" THEN OpEnter(c, s1)
                  ELSE IF s.ownOp.phase = "entering" THEN OpPropose(c, s1) ELSE s1
            [] OTHER -> ClearOwnOperation(s1)
    BY DEF MicroTask
  <2>. HIDE DEF token, cleared, s1
  <2>. QED
    BY <2>1
<1>. HIDE DEF s1
<1>7. Keeps(c, s1, cleared) /\ Keeps(c, s1, ClearOwnOperation(s1))
  BY <1>5, ClearOwnFacts
<1>8. cleared \in Clients(c)
  BY <1>7 DEF Keeps
<1>. HIDE DEF cleared
<1>9. Keeps(c, cleared, Settle(cleared, "ownOp"))
  BY <1>8, SettleFacts DEF Tokens
<1>10. Keeps(c, s1, Settle(cleared, "ownOp")) /\ Keeps(c, s1, s1)
  BY <1>5, <1>7, <1>9, KeepsFacts
<1>11. Keeps(c, s1, OpEnter(c, s1)) /\ Keeps(c, s1, OpPropose(c, s1))
  BY <1>5, OpEnterFacts, OpProposeFacts
<1>12. Steps(c, s1, GreetingDone(c, s1)) /\ Steps(c, s1, ClearGreeting(s1))
  BY <1>5, GreetingDoneFacts, ClearGreetingFacts DEF Steps, HistoryStep, Same
<1>13. Steps(c, s1, MicroTask(c, s))
  BY <1>5, <1>6, <1>7, <1>10, <1>11, <1>12, StepsFacts
<1>. QED
  BY <1>4, <1>13, StepsFacts

-----------------------------------------------------------------------------
(* The server.                                                             *)

(* A membership change on the server.                                       *)
LEMMA ChangeMembersFacts ==
    ASSUME members \in Members, queues \in [Client -> Seq(FromServer)],
           NEW enter \in Members, NEW leave \in Members, ChangeMembers(enter, leave)
    PROVE  members' \in Members /\ queues' \in [Client -> Seq(FromServer)]
<1>. DEFINE remain == members \ leave
            Notice(c) ==
                CASE c \in remain -> <<[t |-> "change", enter |-> enter, leave |-> leave]>>
                  [] c \in enter  -> <<[t |-> "entered", members |-> remain \cup enter]>>
                  [] c \in leave  -> <<[t |-> "left"]>>
                  [] OTHER        -> <<>>
<1>1. remain \cup enter \in Members
  BY DEF Members
<1>2. /\ [t |-> "change", enter |-> enter, leave |-> leave] \in FromServer
      /\ [t |-> "entered", members |-> remain \cup enter] \in FromServer
      /\ [t |-> "left"] \in FromServer
  BY <1>1 DEF FromServer, Notices
<1>3. /\ members' = remain \cup enter
      /\ queues' = [c \in Client |-> queues[c] \o Notice(c)]
  BY DEF ChangeMembers
<1>4. ASSUME NEW c \in Client
      PROVE  Notice(c) \in Seq(FromServer)
  <2>1. /\ <<[t |-> "change", enter |-> enter, leave |-> leave]>> \in Seq(FromServer)
        /\ <<[t |-> "entered", members |-> remain \cup enter]>> \in Seq(FromServer)
        /\ <<[t |-> "left"]>> \in Seq(FromServer) /\ <<>> \in Seq(FromServer)
    BY <1>2, SingleFacts
  <2>. DEFINE change == <<[t |-> "change", enter |-> enter, leave |-> leave]>>
              entered == <<[t |-> "entered", members |-> remain \cup enter]>>
              gone == <<[t |-> "left"]>>
  <2>2. Notice(c) = CASE c \in remain -> change [] c \in enter -> entered
                      [] c \in leave -> gone [] OTHER -> <<>>
    OBVIOUS
  <2>3. change \in Seq(FromServer) /\ entered \in Seq(FromServer) /\ gone \in Seq(FromServer)
    BY <2>1
  <2>. HIDE DEF Notice, remain, change, entered, gone
  <2>. QED
    BY <2>1, <2>2, <2>3
<1>. HIDE DEF Notice
<1>5. \A c \in Client : queues[c] \o Notice(c) \in Seq(FromServer)
  BY <1>4, ConcatFacts
<1>. QED
  BY <1>1, <1>3, <1>5

(* The server handles a packet.                                             *)
LEMMA ServerRecvFacts ==
    ASSUME members \in Members, queues \in [Client -> Seq(FromServer)],
           incoming \in [Client -> Seq(ToServer)], NEW c \in Client, ServerRecv(c)
    PROVE  /\ members' \in Members /\ queues' \in [Client -> Seq(FromServer)]
           /\ incoming' \in [Client -> Seq(ToServer)]
<1>. DEFINE pkt == Head(incoming[c])
            enter == ToEnter(c, pkt)
            leave == ToLeave(c, pkt)
<1>1. incoming[c] # <<>> /\ incoming[c] \in Seq(ToServer)
  BY DEF ServerRecv
<1>2. pkt \in ToServer /\ Tail(incoming[c]) \in Seq(ToServer)
  BY <1>1
<1>3. incoming' \in [Client -> Seq(ToServer)]
  BY <1>2 DEF ServerRecv
<1>4. \/ UNCHANGED <<members, queues>>
      \/ IsPubtxt(pkt) /\ Broadcast(pkt)
      \/ ~ IsPubtxt(pkt) /\ ChangeMembers(enter, leave)
  BY DEF ServerRecv
<1>. HIDE DEF pkt
<1>5. CASE UNCHANGED <<members, queues>>
  BY <1>3, <1>5
<1>6. CASE IsPubtxt(pkt) /\ Broadcast(pkt)
  <2>1. pkt \in FromServer
    BY <1>2, <1>6 DEF IsPubtxt, Requests, ToServer, FromServer, EnterSelf, LeaveSelf
  <2>2. \A d \in Client : Append(queues[d], pkt) \in Seq(FromServer)
    BY <2>1, AppendFacts
  <2>. QED
    BY <1>3, <1>6, <2>2 DEF Broadcast
<1>7. CASE ~ IsPubtxt(pkt) /\ ChangeMembers(enter, leave)
  <2>1. pkt.t \in {"enterOthers", "kick"} => pkt.who \in Members
    BY <1>2 DEF ToServer, EnterSelf, LeaveSelf, Pubtxts, InitPackets, UpPackets, DownPackets, Intents
  <2>2. enter \in Members /\ leave \in Members
    BY <2>1 DEF ToEnter, ToLeave, Members
  <2>. HIDE DEF enter, leave
  <2>. QED
    BY <1>3, <1>7, <2>2, ChangeMembersFacts
<1>. QED
  BY <1>4, <1>5, <1>6, <1>7

-----------------------------------------------------------------------------
(* The initial states.                                                     *)

(* A client outside the channel.                                            *)
LEMMA OutsideFacts ==
    ASSUME NEW c \in Client
    PROVE  Outside \in Clients(c)
<1>1. {} \in Members /\ NoId \in InitialId /\ Unsynced \in Order
  BY UnsyncedFacts DEF Members, InitialId
<1>2. NoOwnProposal \in OwnProposals
  BY NoGreetingFacts DEF NoOwnProposal, OwnProposals, Id, InitialId
<1>3. NoOwnOp \in OwnOps
  BY NoGreetingFacts, <1>1 DEF NoOwnOp, OwnOps, Phases
<1>4. <<>> \in Seq(FromServer) /\ <<>> \in Seq(Tokens) /\ <<>> \in Seq(ToServer)
  BY SingleFacts
<1>5. "no" \in Failures /\ 0 \in Nat
  BY DEF Failures
<1>6. Outside \in ClientRecords
  BY <1>1, <1>2, <1>3, <1>4, <1>5, NoGreetingFacts DEF Outside, ClientRecords
<1>. QED
  BY <1>6 DEF Clients, Outside

(* The founders' session and order.                                         *)
LEMMA FoundingFacts ==
    ASSUME NEW founders \in Seq(Client), founders # <<>>
    PROVE  /\ Range(founders) \in Members /\ founders[1] \in Client
           /\ FoundingSession(founders) \in Sessions
           /\ FoundingOrder(founders) \in Order
<1>. DEFINE to == Range(founders)
            sid == FoundingSession(founders).sid
            new == SyncNew([k |-> "new", by |-> founders[1], i |-> 0])
            pI == [k |-> "init", n |-> FoundingProposal(founders), to |-> to]
            pF == [k |-> "confirm", sid |-> sid, src |-> founders[1], to |-> to]
            s0 == AcceptInitial(new, pI)
            s1 == UpdateServerOrder(s0, pI, "2")
            s2 == AcceptFinal(s1, pF)
            s3 == UpdateServerOrder(s2, pF, "1")
<1>1. to \in Members /\ founders[1] \in Client
  BY DEF Range, Members
<1>2. FoundingProposal(founders) \in ProposalId
  BY <1>1 DEF FoundingProposal, ProposalId
<1>3. FoundingSession(founders) \in Sessions /\ sid \in Sid
  BY <1>1, <1>2 DEF FoundingSession, Sessions, Sid
<1>4. [k |-> "new", by |-> founders[1], i |-> 0] \in Id
  BY <1>1 DEF Id
<1>5. pI \in InitialId /\ pI \in Id /\ pF \in Id
  BY <1>1, <1>2, <1>3 DEF InitialId, Id
<1>6. FoundingOrder(founders) \in {new, s3}
  BY DEF FoundingOrder
<1>7. "1" \in PacketTypes /\ "2" \in PacketTypes
  BY DEF PacketTypes
<1>. HIDE DEF pI, pF
<1>8. new \in Order /\ new.synced /\ Len(new.opInitial) = 1 /\ Len(new.opFinal) = 1
  BY <1>4, SyncNewFacts
<1>9. ~ HasOngoingOp(new)
  BY <1>8 DEF HasOngoingOp
<1>. HIDE DEF new
<1>10. s0 \in Order /\ s0.synced /\ HasOngoingOp(s0)
  BY <1>5, <1>8, <1>9, AcceptInitialFacts
<1>. HIDE DEF s0
<1>11. s1 \in Order /\ s1.synced /\ HasOngoingOp(s1)
  BY <1>5, <1>7, <1>10, UpdateFacts DEF HasOngoingOp
<1>. HIDE DEF s1
<1>12. s2 \in Order /\ s2.synced
  BY <1>5, <1>11, AcceptFinalFacts
<1>. HIDE DEF s2
<1>13. s3 \in Order
  BY <1>5, <1>7, <1>12, UpdateFacts
<1>. QED
  BY <1>1, <1>3, <1>6, <1>8, <1>13

(* A founder.                                                               *)
LEMMA InitialClientFacts ==
    ASSUME NEW c \in Client, NEW founders \in Seq(Client), founders # <<>>,
           NEW i \in DOMAIN founders, founders[i] = c
    PROVE  LET s == Founder(founders, i)
           IN  s \in Clients(c) /\ s.tryDecrypt = <<>> /\ s.retry = 0 /\ s.out = <<>> /\ s.ret
<1>. DEFINE to == Range(founders)
            order == FoundingOrder(founders)
            seniors == {founders[j] : j \in 1 .. i - 1}
            synced == (Len(founders) = 1)
            current == IF Len(founders) = 1 THEN NoSession ELSE FoundingSession(founders)
            s == [Outside EXCEPT !.channel = to, !.serverOrder = order,
                                 !.moreSeniorThanUs = seniors, !.channelJustSynced = synced,
                                 !.current = current]
<1>1. to \in Members /\ order \in Order
  BY FoundingFacts
<1>2. seniors \in Members
  BY DEF Members
<1>3. current \in Sessions /\ (current = NoSession \/ c \in current.members)
  <2>1. c \in to
    BY DEF Range
  <2>. QED
    BY <2>1, FoundingFacts, NoGreetingFacts DEF FoundingSession
<1>4. synced \in BOOLEAN
  OBVIOUS
<1>5. Founder(founders, i) = s
  BY DEF Founder
<1>6. Outside \in Clients(c)
  BY OutsideFacts
<1>. HIDE DEF to, order, seniors, synced, current
<1>7. s \in Clients(c)
  BY <1>1, <1>2, <1>3, <1>4, <1>6 DEF Fubar, Clients, ClientRecords
<1>8. s.tryDecrypt = <<>> /\ s.retry = 0 /\ s.out = <<>> /\ s.ret
  BY DEF Outside
<1>. QED
  BY <1>5, <1>7, <1>8

(* The invariant holds initially.                                           *)
LEMMA InitFacts == Init => GroupInv
<1>. SUFFICES ASSUME Init PROVE GroupInv
  OBVIOUS
<1>1. PICK sc \in Scenarios :
        /\ ServerInit(Range(sc.founders))
        /\ session = [c \in Client |->
                        [(IF c \in Range(sc.founders)
                          THEN Founder(sc.founders,
                                       CHOOSE i \in DOMAIN sc.founders : sc.founders[i] = c)
                          ELSE Outside) EXCEPT !.options = sc.options]]
        /\ left = sc
  BY DEF Init
<1>2. /\ sc \in Scenario /\ sc.founders \in Seq(Client) /\ sc.founders # <<>>
      /\ sc.options \in SUBSET {"autoIncludeExtra", "stayIfLastMember"}
  BY ScenariosAssumption DEF Scenario
<1>. DEFINE s(c) == IF c \in Range(sc.founders)
                    THEN Founder(sc.founders, CHOOSE i \in DOMAIN sc.founders : sc.founders[i] = c)
                    ELSE Outside
<1>3. ASSUME NEW c \in Client
      PROVE  s(c) \in Clients(c) /\ s(c).tryDecrypt = <<>> /\ s(c).retry = 0 /\ s(c).out = <<>>
             /\ s(c).ret
  <2>1. CASE c \in Range(sc.founders)
    <3>1. \E i \in DOMAIN sc.founders : sc.founders[i] = c
      BY <2>1 DEF Range
    <3>. DEFINE i == CHOOSE i \in DOMAIN sc.founders : sc.founders[i] = c
    <3>2. i \in DOMAIN sc.founders /\ sc.founders[i] = c
      BY <3>1
    <3>. HIDE DEF i
    <3>3. LET t == Founder(sc.founders, i)
          IN  t \in Clients(c) /\ t.tryDecrypt = <<>> /\ t.retry = 0 /\ t.out = <<>> /\ t.ret
      BY <1>2, <3>2, InitialClientFacts
    <3>. QED
      BY <2>1, <3>3 DEF i
  <2>2. CASE c \notin Range(sc.founders)
    <3>1. Outside.tryDecrypt = <<>> /\ Outside.retry = 0 /\ Outside.out = <<>> /\ Outside.ret
      BY DEF Outside
    <3>. QED
      BY <2>2, <3>1, OutsideFacts
  <2>. QED
    BY <2>1, <2>2
<1>4. session = [c \in Client |-> [s(c) EXCEPT !.options = sc.options]]
  BY <1>1
<1>. HIDE DEF s
<1>5. ASSUME NEW c \in Client
      PROVE  /\ session[c] \in Clients(c) /\ session[c] \in ClientRecords
             /\ session[c].tryDecrypt = <<>> /\ session[c].retry = 0
             /\ session[c].out = <<>> /\ session[c].ret
  <2>1. session[c] = [s(c) EXCEPT !.options = sc.options]
    BY <1>4
  <2>. DEFINE t == s(c)
  <2>2. t \in Clients(c) /\ t.tryDecrypt = <<>> /\ t.retry = 0 /\ t.out = <<>> /\ t.ret
    BY <1>3
  <2>. HIDE DEF t
  <2>3. LET u == [t EXCEPT !.options = sc.options]
        IN  /\ u \in Clients(c) /\ u \in ClientRecords
            /\ u.tryDecrypt = <<>> /\ u.retry = 0 /\ u.out = <<>> /\ u.ret
    BY <1>2, <2>2 DEF Fubar, Clients, ClientRecords
  <2>. QED
    BY <2>1, <2>3 DEF t
<1>6. \A c \in Client : InBounds(session[c])
  <2>1. Len(<<>>) = 0
    OBVIOUS
  <2>. QED
    BY <1>5, <2>1, AsynchronityAssumption DEF InBounds
<1>7. session \in [Client -> ClientRecords]
  BY <1>4, <1>5
<1>8. members \in Members /\ incoming \in [Client -> Seq(ToServer)]
      /\ queues \in [Client -> Seq(FromServer)]
  BY <1>1, <1>2, FoundingFacts DEF ServerInit
<1>. QED
  BY <1>1, <1>2, <1>5, <1>6, <1>7, <1>8 DEF GroupInv

-----------------------------------------------------------------------------
(* What each action leaves of the invariant, and of the histories.         *)
Histories == \A c \in Client : HistoryStep(session[c].serverOrder, session'[c].serverOrder)

(* A task of one client.                                                    *)
LEMMA BecomesFacts ==
    ASSUME GroupInv, NEW c \in Client, NEW t, Steps(c, session[c], t), Becomes(c, t),
           members' = members, queues' \in [Client -> Seq(FromServer)], left' \in Scenario
    PROVE  GroupInv' /\ Histories
<1>. DEFINE u == [t EXCEPT !.out = <<>>, !.ret = TRUE]
<1>0. session \in [Client -> ClientRecords] /\ \A d \in Client : session[d] \in Clients(d)
  BY DEF GroupInv
<1>1. t \in Clients(c) /\ HistoryStep(session[c].serverOrder, t.serverOrder) /\ InBounds(t)
  BY DEF Steps
<1>2. t.out \in Seq(ToServer) /\ <<>> \in Seq(ToServer)
  BY <1>1, SingleFacts DEF Clients, ClientRecords
<1>3. /\ u \in Clients(c) /\ u \in ClientRecords /\ u.out = <<>> /\ u.ret
      /\ u.serverOrder = t.serverOrder /\ u.tryDecrypt = t.tryDecrypt /\ u.retry = t.retry
  BY <1>1, <1>2 DEF Fubar, Clients, ClientRecords
<1>4. InBounds(u)
  BY <1>1, <1>3 DEF InBounds
<1>5. session' = [session EXCEPT ![c] = u]
  BY DEF Becomes
<1>. HIDE DEF u
<1>6. session'[c] = u /\ session' \in [Client -> ClientRecords]
      /\ \A d \in Client \ {c} : session'[d] = session[d]
  BY <1>0, <1>3, <1>5
<1>7. incoming' \in [Client -> Seq(ToServer)]
  <2>1. incoming \in [Client -> Seq(ToServer)] /\ incoming' = [incoming EXCEPT ![c] = @ \o t.out]
    BY DEF GroupInv, Becomes, Sent
  <2>2. incoming[c] \o t.out \in Seq(ToServer)
    BY <1>2, <2>1, ConcatFacts
  <2>. QED
    BY <2>1, <2>2
<1>8. \A d \in Client :
        session'[d] \in Clients(d) /\ InBounds(session'[d]) /\ session'[d].out = <<>>
        /\ session'[d].ret
  BY <1>0, <1>3, <1>4, <1>6 DEF GroupInv
<1>9. members' \in Members
  BY DEF GroupInv
<1>10. GroupInv'
  BY <1>6, <1>7, <1>8, <1>9 DEF GroupInv, InBounds
<1>11. Histories
  BY <1>1, <1>3, <1>6 DEF Histories, HistoryStep, Same
<1>. QED
  BY <1>10, <1>11

(* A step in which no client takes part.                                    *)
LEMMA StillFacts ==
    ASSUME GroupInv, UNCHANGED session, members' \in Members, left' \in Scenario,
           queues' \in [Client -> Seq(FromServer)], incoming' \in [Client -> Seq(ToServer)]
    PROVE  GroupInv' /\ Histories
  BY DEF GroupInv, InBounds, Histories, HistoryStep, Same

(* What is left of a scenario.                                              *)
LEMMA SpendsFacts ==
    ASSUME left \in Scenario, NEW c \in Client,
           NEW what \in {"enters", "ops", "parts", "disconnects"}, Spends(c, what)
    PROVE  left' \in Scenario
<1>1. left[what] \in Nat \ {0} /\ left' = [left EXCEPT ![what] = left[what] - 1]
  BY DEF Spends, Scenario
<1>2. left[what] - 1 \in Nat
  BY <1>1
<1>3. CASE what = "enters"
  BY <1>1, <1>2, <1>3 DEF Scenario
<1>4. CASE what = "ops"
  BY <1>1, <1>2, <1>4 DEF Scenario
<1>5. CASE what = "parts"
  BY <1>1, <1>2, <1>5 DEF Scenario
<1>6. CASE what = "disconnects"
  BY <1>1, <1>2, <1>6 DEF Scenario
<1>. QED
  BY <1>3, <1>4, <1>5, <1>6

(* The fin() of a session that is being parted from has ended.              *)
LEMMA PartedFacts ==
    ASSUME NEW c \in Client, NEW s \in Clients(c)
    PROVE  Keeps(c, s, [s EXCEPT !.parting = "done"])
<1>. DEFINE parted == [s EXCEPT !.parting = "done"]
<1>1. s \in ClientRecords /\ (Fubar(s) => Fubar(parted))
  BY DEF Clients, Fubar, ClientRecords
<1>2. parted \in ClientRecords
  BY <1>1 DEF ClientRecords
<1>3. parted \in Clients(c)
  BY <1>1, <1>2 DEF Clients, ClientRecords
<1>. QED
  BY <1>1, <1>3 DEF Keeps, SameBuffer, ClientRecords

(* Every action keeps the invariant, and is a step of every history.        *)
LEMMA NextFacts == GroupInv /\ [Next]_vars => GroupInv' /\ (Histories \/ UNCHANGED session)
<1>. SUFFICES ASSUME GroupInv, [Next]_vars PROVE GroupInv' /\ (Histories \/ UNCHANGED session)
  OBVIOUS
<1>. USE DEF GroupInv
<1>1. CASE UNCHANGED vars
  BY <1>1 DEF vars, serverVars, InBounds
<1>2. CASE Next
  <2>. PICK c \in Client :
        \/ ServerStep(c) \/ Deliver(c) \/ Micro(c) \/ Retry(c)
        \/ PartFin(c) \/ PrevFin(c)
        \/ UserAction(c)
    BY <1>2 DEF Next
  <2>. DEFINE s == session[c]
  <2>0. /\ s \in Clients(c) /\ InBounds(s) /\ members \in Members /\ left \in Scenario
        /\ queues \in [Client -> Seq(FromServer)] /\ incoming \in [Client -> Seq(ToServer)]
    OBVIOUS
  <2>1. CASE ServerStep(c)
    BY <2>0, <2>1, ServerRecvFacts, StillFacts DEF ServerStep
  <2>2. CASE Deliver(c)
    <3>1. Head(queues[c]) \in FromServer /\ Tail(queues[c]) \in Seq(FromServer)
      BY <2>2 DEF Deliver
    <3>2. Steps(c, s, SessionTask(c, s, Head(queues[c])))
      BY <2>0, <3>1, SessionTaskFacts
    <3>3. queues' \in [Client -> Seq(FromServer)]
      BY <2>2, <3>1 DEF Deliver, Received
    <3>. QED
      BY <2>0, <2>2, <3>2, <3>3, BecomesFacts DEF Deliver
  <2>3. CASE Micro(c)
    BY <2>0, <2>3, MicroTaskFacts, BecomesFacts DEF Micro
  <2>4. CASE Retry(c)
    BY <2>0, <2>4, RetryStepFacts, BecomesFacts DEF Retry
  <2>5. CASE PartFin(c)
    <3>. DEFINE parted == [s EXCEPT !.parting = "done"]
    <3>1. Keeps(c, s, parted)
      BY <2>0, PartedFacts
    <3>2. parted \in Clients(c) /\ {} \in Members
      BY <3>1 DEF Keeps, Members
    <3>3. Becomes(c, MaybeLeaveChannel(c, parted, {}))
          /\ UNCHANGED <<members, queues, left>>
      BY <2>5 DEF PartFin
    <3>. HIDE DEF parted
    <3>4. Keeps(c, parted, MaybeLeaveChannel(c, parted, {}))
      BY <3>2, LeaveChannelFacts
    <3>5. Keeps(c, s, MaybeLeaveChannel(c, parted, {}))
      BY <2>0, <3>1, <3>4, KeepsFacts
    <3>6. Steps(c, s, MaybeLeaveChannel(c, parted, {}))
      BY <2>0, <3>5, StepsFacts
    <3>. QED
      BY <2>0, <3>3, <3>6, BecomesFacts
  <2>6. CASE PrevFin(c)
    BY <2>0, <2>6, PrevSessionFinFacts, StepsFacts, BecomesFacts DEF PrevFin
  <2>7. CASE Join(c)
    BY <2>0, <2>7, IncludeSelfFacts, StepsFacts, SpendsFacts, BecomesFacts DEF Join
  <2>8. CASE Part(c)
    BY <2>0, <2>8, ExcludeSelfFacts, StepsFacts, SpendsFacts, BecomesFacts DEF Part
  <2>9. CASE Disconnect(c)
    <3>1. {} \in Members /\ {c} \in Members
      BY DEF Members
    <3>2. members' \in Members /\ queues' \in [Client -> Seq(FromServer)] /\ UNCHANGED incoming
      BY <2>0, <2>9, <3>1, ChangeMembersFacts DEF Disconnect, Disconnected
    <3>3. left' \in Scenario
      BY <2>0, <2>9, SpendsFacts DEF Disconnect
    <3>. QED
      BY <2>0, <2>9, <3>2, <3>3, StillFacts DEF Disconnect
  <2>10. CASE \E who \in left.whom : Change(c, who, {}) \/ Change(c, {}, who)
    <3>1. PICK who \in left.whom : Change(c, who, {}) \/ Change(c, {}, who)
      BY <2>10
    <3>2. who \in Members /\ {} \in Members
      BY <2>0 DEF Scenario, Members
    <3>3. PICK include \in Members, exclude \in Members : Change(c, include, exclude)
      BY <3>1, <3>2
    <3>4. Keeps(c, s, ChangeMembership(c, s, include, exclude))
      BY <2>0, ChangeMembershipFacts
    <3>5. Steps(c, s, ChangeMembership(c, s, include, exclude))
      BY <2>0, <3>4, StepsFacts
    <3>. QED
      BY <2>0, <3>3, <3>5, SpendsFacts, BecomesFacts DEF Change
  <2>. QED
    BY <2>1, <2>2, <2>3, <2>4, <2>5, <2>6, <2>7, <2>8, <2>9, <2>10 DEF UserAction
<1>. QED
  BY <1>1, <1>2

(* The types of everything a client keeps, and the shape of its server     *)
(* order, hold throughout.                                                 *)
THEOREM GroupInvHolds == Spec => []GroupInv
<1>1. Init => GroupInv
  BY InitFacts
<1>2. GroupInv /\ [Next]_vars => GroupInv'
  BY NextFacts
<1>. QED
  BY <1>1, <1>2, PTL DEF Spec

(* The invariant implies the type invariant.                                *)
LEMMA TypeFacts == GroupInv => TypeOK
<1>. SUFFICES ASSUME GroupInv PROVE TypeOK
  OBVIOUS
<1>1. members \subseteq Client /\ {left.enters, left.ops, left.parts, left.disconnects} \subseteq Nat
  BY DEF GroupInv, Members, Scenario
<1>2. ASSUME NEW s \in ClientRecords
      PROVE  DOMAIN s = DOMAIN Outside
  BY DEF ClientRecords, Outside
<1>3. ASSUME NEW s \in ClientRecords, InBounds(s)
      PROVE  /\ s.channel \cup s.moreSeniorThanUs \cup s.taskExclude \cup s.taskLeave
                  \cup s.current.members \cup s.greeting.next \cup s.greeting.prev
                  \cup s.pendingGreetPP \cup s.opInclude \subseteq Client
             /\ {s.serverOrder.synced, s.channelJustSynced, s.prevFin, s.greeting.quit,
                 s.greeting.recvOwn, s.hadSuccess, s.ownProposal.open} \subseteq BOOLEAN
             /\ s.parting \in {"no", "sent", "done"} /\ s.greeting.fin \in 0 .. 2
             /\ Len(s.tryDecrypt) \in 0 .. Asynchronity
             /\ s.retry \in 0 .. Len(s.tryDecrypt) + 1
  <2>1. /\ s.channel \in Members /\ s.moreSeniorThanUs \in Members /\ s.taskExclude \in Members
        /\ s.taskLeave \in Members /\ s.pendingGreetPP \in Members /\ s.opInclude \in Members
        /\ s.current \in Sessions /\ s.greeting \in Greetings /\ s.serverOrder \in OrderRecord
        /\ s.ownProposal \in OwnProposals
    BY DEF ClientRecords, Order
  <2>2. s.channelJustSynced \in BOOLEAN /\ s.prevFin \in BOOLEAN /\ s.hadSuccess \in BOOLEAN
        /\ s.parting \in {"no", "sent", "done"}
    BY DEF ClientRecords
  <2>3. s.current.members \in Members /\ s.greeting.next \in Members /\ s.greeting.prev \in Members
        /\ s.greeting.quit \in BOOLEAN /\ s.greeting.recvOwn \in BOOLEAN /\ s.greeting.fin \in 0 .. 2
        /\ s.serverOrder.synced \in BOOLEAN /\ s.ownProposal.open \in BOOLEAN
    BY <2>1 DEF Sessions, Greetings, OrderRecord, OwnProposals
  <2>4. Len(s.tryDecrypt) \in Nat /\ s.retry \in Nat
    BY DEF ClientRecords
  <2>5. Len(s.tryDecrypt) \in 0 .. Asynchronity /\ s.retry \in 0 .. Len(s.tryDecrypt) + 1
    BY <1>3, <2>4, AsynchronityAssumption DEF InBounds
  <2>. QED
    BY <2>1, <2>2, <2>3, <2>5 DEF Members
<1>. QED
  BY <1>1, <1>2, <1>3 DEF GroupInv, TypeOK

(* Every client's record keeps its types, and tryDecrypt its capacity.     *)
THEOREM GroupTypes == Spec => []TypeOK
  BY GroupInvHolds, TypeFacts, PTL

(* A step of a server order is a step of OpChain.                          *)
LEMMA ChainFacts ==
    ASSUME GroupInv, NEW c \in Client,
           HistoryStep(session[c].serverOrder, session'[c].serverOrder)
    PROVE  OrderOf(c)!ChainStep
<1>. DEFINE o == session[c].serverOrder
            p == session'[c].serverOrder
<1>0. o \in Order
  BY DEF GroupInv, ClientRecords
<1>1. o.opInitial \in Seq(InitialId) /\ o.opFinal \in Seq(Id)
  BY <1>0 DEF Order, OrderRecord
<1>2. ASSUME NEW S, NEW q \in Seq(S), NEW x \in S
      PROVE  /\ Len(Append(q, x)) = Len(q) + 1 /\ \A i \in 1 .. Len(q) : Append(q, x)[i] = q[i]
             /\ Append(q, x)[Len(q) + 1] = x
  OBVIOUS
<1>3. CASE Same(o, p)
  <2>1. UNCHANGED OrderOf(c)!chainVars
    BY <1>3 DEF OrderOf!chainVars, Same
  <2>. QED
    BY <2>1 DEF OrderOf!ChainStep
<1>4. CASE Starts(o, p)
  <2>1. PICK x \in InitialId : p.opInitial = Append(o.opInitial, x) /\ ~ MemberOfSeq(x, o.opInitial)
    BY <1>4 DEF Starts
  <2>2. OrderOf(c)!Fresh(p.opInitial, o.opInitial)
    <3>1. /\ Len(p.opInitial) = Len(o.opInitial) + 1 /\ p.opInitial[Len(o.opInitial) + 1] = x
          /\ \A i \in 1 .. Len(o.opInitial) : p.opInitial[i] = o.opInitial[i]
      BY <1>1, <1>2, <2>1
    <3>2. \A i \in 1 .. Len(o.opInitial) : o.opInitial[i] # x
      BY <2>1 DEF MemberOfSeq
    <3>3. OrderOf(c)!IsAppended(p.opInitial, o.opInitial)
      BY <3>1 DEF OrderOf!IsAppended
    <3>. QED
      BY <3>1, <3>2, <3>3 DEF OrderOf!Fresh
  <2>3. OrderOf(c)!Resting
    BY <1>4 DEF Starts, OrderOf!Resting, OrderOf!Joined
  <2>4. p.opFinal = o.opFinal \/ OrderOf(c)!IsAppended(p.opFinal, o.opFinal)
    <3>1. SUFFICES ASSUME NEW y \in Id, p.opFinal = Append(o.opFinal, y)
                   PROVE  OrderOf(c)!IsAppended(p.opFinal, o.opFinal)
      BY <1>4 DEF Starts
    <3>2. /\ Len(p.opFinal) = Len(o.opFinal) + 1
          /\ \A i \in 1 .. Len(o.opFinal) : p.opFinal[i] = o.opFinal[i]
      BY <1>1, <1>2, <3>1
    <3>. QED
      BY <3>2 DEF OrderOf!IsAppended
  <2>5. OrderOf(c)!Start \/ OrderOf(c)!StartAndEnd
    BY <2>2, <2>3, <2>4 DEF OrderOf!Start, OrderOf!StartAndEnd
  <2>. QED
    BY <2>5 DEF OrderOf!ChainStep, OrderOf!ChainNext
<1>5. CASE Ends(o, p)
  <2>1. OrderOf(c)!Ongoing
    BY <1>5 DEF Ends, OrderOf!Ongoing, OrderOf!Joined
  <2>2. OrderOf(c)!IsAppended(p.opFinal, o.opFinal)
    BY <1>1, <1>2, <1>5 DEF Ends, OrderOf!IsAppended
  <2>3. OrderOf(c)!End
    BY <1>5, <2>1, <2>2 DEF Ends, OrderOf!End
  <2>. QED
    BY <2>3 DEF OrderOf!ChainStep, OrderOf!ChainNext
<1>6. CASE Joins(o, p)
  <2>1. OrderOf(c)!Join
    BY <1>6 DEF Joins, OrderOf!Join, OrderOf!Joined
  <2>. QED
    BY <2>1 DEF OrderOf!ChainStep, OrderOf!ChainNext
<1>7. CASE Forgets(p)
  <2>1. OrderOf(c)!Forget
    BY <1>7 DEF Forgets, OrderOf!Forget
  <2>. QED
    BY <2>1 DEF OrderOf!ChainStep, OrderOf!ChainNext
<1>. QED
  BY <1>3, <1>4, <1>5, <1>6, <1>7 DEF HistoryStep

(* Whatever packets arrive in whatever order, each client's server order   *)
(* implements OpChain.                                                     *)
THEOREM OrdersHold == Spec => OrdersAreHistories
<1>1. GroupInv /\ [Next]_vars => [\A c \in Client : OrderOf(c)!ChainStep]_session
  <2>1. SUFFICES ASSUME GroupInv, Histories
                 PROVE  \A c \in Client : OrderOf(c)!ChainStep
    BY NextFacts
  <2>2. ASSUME NEW c \in Client PROVE OrderOf(c)!ChainStep
    BY <2>1, ChainFacts DEF Histories
  <2>. QED
    BY <2>2
<1>. QED
  BY <1>1, GroupInvHolds, PTL DEF Spec, OrdersAreHistories

=============================================================================
