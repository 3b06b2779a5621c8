------------------------- MODULE ServerOrderClient -------------------------
(***************************************************************************)
(* One client's ServerOrder (impl/channel.js) by itself: whatever packets  *)
(* the channel echoes, it keeps a history of membership operations as      *)
(* OpChain describes it.                                                   *)
(***************************************************************************)
EXTENDS ServerOrder, FiniteSets

CONSTANTS
    Owner, Member,  \* the client, and all members of the channel
    Packet,         \* the initial and final packets there may be
    NewId           \* the random ids of syncNew

PacketIds == {p.pId : p \in Packet}
LeaveIds == [k : {"leave"}, of : PacketIds, who : SUBSET Member, to : SUBSET Member]
Ids == PacketIds \cup NewId \cup LeaveIds \cup {NoId}
PacketTypes == {"1", "2", "3", "leave", "new"}
ChainHashes == Seq(Ids \X PacketTypes)

(* A packet's id is a hash of it: it tells an initial packet from one that *)
(* is not, and a packet cannot contain its own id.  An initial packet that *)
(* is final as well answers itself.                                        *)
ASSUME PacketAssumption ==
    \A p \in Packet :
        /\ p.initial \in BOOLEAN /\ p.final \in BOOLEAN /\ (p.initial \/ p.final)
        /\ p.pId.k \in {"init", "confirm"}
        /\ p.prevPf \in Ids /\ p.prevPi \in Ids /\ p.prevCh \in ChainHashes
        /\ p.initial => p.prevPf # p.pId
        /\ p.initial /\ p.final => p.prevPi = p.pId
        /\ \A q \in Packet : p.pId = q.pId => p.initial = q.initial

VARIABLE order

Init == order = Unsynced

Clear == order' = Unsynced

New == /\ ~ order.synced
       /\ \E id \in NewId : order' = SyncNew(id)

(* The server sends a packet once to those who are in the channel, so that *)
(* a client never receives the packet it joined the history after.         *)
Receive(p, recipients) ==
    /\ order.synced => p.pId # order.opFinal[1]
    /\ order' = TryOpPacket(order, Owner, p, recipients)

Leave(leavers, channelMembers) ==
    /\ order.synced /\ HasOngoingOp(order)
    /\ order' = AcceptLeavePacket(order, leavers, channelMembers)

Next ==
    \/ Clear
    \/ New
    \/ \E p \in Packet, recipients \in SUBSET Member : Receive(p, recipients)
    \/ \E leavers, channelMembers \in SUBSET Member : Leave(leavers, channelMembers)

Spec == Init /\ [][Next]_order

-----------------------------------------------------------------------------
(* What the properties below say of the record after any call, as          *)
(* operators of the record.                                                *)
OrderRecord ==
    [synced : BOOLEAN, seenPrevPf : SUBSET Ids, packetId : Seq(Ids),
     chainHash : Seq(ChainHashes), opInitial : Seq(Ids), opFinal : Seq(Ids)]

TakesTurns(o) ==
    IF o.synced
    THEN /\ o.opFinal # <<>>
         /\ Len(o.opInitial) \in {Len(o.opFinal), Len(o.opFinal) + 1}
    ELSE o.opInitial = <<>> /\ o.opFinal = <<>>

Commits(o) ==
    o.synced =>
        /\ o.packetId # <<>> /\ Len(o.chainHash) = Len(o.packetId)
        /\ \A i \in 2 .. Len(o.packetId) : \E t \in PacketTypes :
              o.chainHash[i] = MakeChainHash(o.chainHash[i - 1], o.packetId[i], t)

EndsWith(o, id, types) ==
    LET n == Len(o.chainHash)
    IN  \E t \in types : PrevCh(o) = MakeChainHash(o.chainHash[n - 1], id, t)

LastDecides(o) ==
    o.synced =>
        IF HasOngoingOp(o)
        THEN /\ LastOf(o.packetId) = PrevPi(o)
             /\ Len(o.chainHash) > 1 /\ EndsWith(o, PrevPi(o), {"2"})
        ELSE /\ LastOf(o.packetId) = PrevPf(o)
             /\ Len(o.chainHash) > 1 => EndsWith(o, PrevPf(o), PacketTypes \ {"2"})

(* Type correctness of the record (class ServerOrder, clear()).            *)
TypeOK == order \in OrderRecord

(* At most one operation is ongoing: between syncing and clear() the lists *)
(* of initial and of final packets grow in turns (hasOngoingOp).           *)
OneAtATime == TakesTurns(order)

(* The chain hash commits to the whole order: each one to the one before,  *)
(* to the packet accepted then and to its type (_updateServerOrder).       *)
ChainCommits == Commits(order)

(* The packet accepted last is the one that the next proposal or answer    *)
(* has to refer to, and the type hashed with it tells whether an operation *)
(* is ongoing.  So an operation that starts and ends with one packet is    *)
(* accepted as a whole or not at all (the assertion about hasOngoingOp in  *)
(* tryOpPacket), and clients whose chain hashes agree accept the same      *)
(* packet next.                                                            *)
LastPacketDecides == LastDecides(order)

(* The client's order implements the abstract history of OpChain.          *)
History == INSTANCE OpChain WITH started <- order.opInitial, ended <- order.opFinal
ImplementsHistory == History!ChainSpec

-----------------------------------------------------------------------------
(* What makes these properties inductive: beyond the first element, what   *)
(* started an operation is a packet, and what ended one is a departure, a  *)
(* packet that also started it, or a packet that only ends operations.     *)
StartsWithPacket(o) == \A i \in 2 .. Len(o.opInitial) : o.opInitial[i] \in PacketIds

KnownEnd(o, id) ==
    \/ id.k = "leave"
    \/ MemberOfSeq(id, o.opInitial)
    \/ \E p \in Packet : ~ p.initial /\ p.pId = id
EndsAsKnown(o) == \A i \in 2 .. Len(o.opFinal) : KnownEnd(o, o.opFinal[i])

WellFormed(o) ==
    /\ o \in OrderRecord /\ TakesTurns(o) /\ Commits(o) /\ LastDecides(o)
    /\ StartsWithPacket(o) /\ EndsAsKnown(o)

(* The inductive invariant: all of the above, of the client's order.       *)
OrderInv == WellFormed(order)

=============================================================================
