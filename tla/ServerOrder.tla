---------------------------- MODULE ServerOrder ----------------------------
(***************************************************************************)
(* The class ServerOrder of impl/channel.js: one client's record of the    *)
(* total order of membership operations, built from the packets the        *)
(* channel server echoes to everybody in the same order.                   *)
(*                                                                         *)
(* This module has no variables: a ServerOrder object is a record, and     *)
(* every method that changes the object is an operator from the record     *)
(* before the call to the record after it.  A cryptographic hash is the    *)
(* value it commits to: a packet id is a tagged record, and a chain hash   *)
(* is the sequence of the <<packet id, packet type>> pairs hashed into it. *)
(* opMetadata, opMetadataAuthenticated and chainUnacked are recorded by    *)
(* the code and never read (and no greeting ever reports its metadata as   *)
(* authenticated, so setMetadataAuthenticated is not called); they are     *)
(* left out.                                                               *)
(***************************************************************************)
EXTENDS Naturals, Sequences

(* The number 0 that syncWithPrev puts in opInitial[0], where no packet id *)
(* is known.                                                               *)
NoId == [k |-> "none"]

(* The object before and after it is synced.  seenPrevPf is a set exactly  *)
(* before (the code stores null in it from then on), and the lists are     *)
(* null until then.                                                        *)
NotSynced(seenPrevPf) ==
    [synced |-> FALSE, seenPrevPf |-> seenPrevPf, packetId |-> <<>>, chainHash |-> <<>>,
     opInitial |-> <<>>, opFinal |-> <<>>]
Synced(packetId, chainHash, opInitial, opFinal) ==
    [synced |-> TRUE, seenPrevPf |-> {}, packetId |-> packetId, chainHash |-> chainHash,
     opInitial |-> opInitial, opFinal |-> opFinal]

(* clear(), and the constructor.                                           *)
Unsynced == NotSynced({})

LastOf(s) == s[Len(s)]
MemberOfSeq(x, s) == \E i \in 1 .. Len(s) : s[i] = x

PrevCh(o) == LastOf(o.chainHash)
PrevPf(o) == LastOf(o.opFinal)
PrevPi(o) == LastOf(o.opInitial)
HasOngoingOp(o) == Len(o.opInitial) > Len(o.opFinal)

MakeChainHash(prevCh, pId, ptype) == Append(prevCh, <<pId, ptype>>)

-----------------------------------------------------------------------------
(* A membership operation packet, as GreetingSummary describes it: its id, *)
(* whether it is an initial and/or a final packet, the final packet and    *)
(* chain hash its author claims to be the latest (initial packets), the    *)
(* initial packet it answers (final packets; a packet that is both answers *)
(* itself), and the members of the session it would make.                  *)
PacketType(op) == CASE op.initial /\ op.final -> "3"
                    [] op.initial /\ ~ op.final -> "2"
                    [] ~ op.initial -> "1"

ShouldSyncWith(o, op, owner) ==
    /\ owner \in op.members
    /\ op.prevPf \notin o.seenPrevPf

\* Mutant: no check that no operation is ongoing.
InitialDuringOperation(o, op) ==
    ~ MemberOfSeq(op.pId, o.opInitial) /\ op.prevPf = PrevPf(o)

ShouldAcceptInitial(o, op) ==
    /\ ~ MemberOfSeq(op.pId, o.opInitial)
    /\ ~ HasOngoingOp(o)
    /\ op.prevPf = PrevPf(o)

ShouldAcceptFinal(o, op) ==
    /\ ~ MemberOfSeq(op.pId, o.opFinal)
    /\ HasOngoingOp(o)
    /\ op.prevPi = PrevPi(o)

SyncWithPrev(prevPf, prevCh) == Synced(<<prevPf>>, <<prevCh>>, <<NoId>>, <<prevPf>>)

(* syncNew: id stands for the random packet id.                            *)
SyncNew(id) == SyncWithPrev(id, MakeChainHash(<<>>, id, "new"))

AcceptInitial(o, pId) ==
    Synced(o.packetId, o.chainHash, Append(o.opInitial, pId), o.opFinal)

AcceptFinal(o, pId) ==
    Synced(o.packetId, o.chainHash, o.opInitial, Append(o.opFinal, pId))

\* Mutant: the chain hash does not depend on the one before.
UpdateUnchained(o, pId, ptype) ==
    Synced(Append(o.packetId, pId),
           Append(o.chainHash, MakeChainHash(o.chainHash[1], pId, ptype)),
           o.opInitial, o.opFinal)

UpdateServerOrder(o, pId, ptype) ==
    Synced(Append(o.packetId, pId),
           Append(o.chainHash, MakeChainHash(PrevCh(o), pId, ptype)), o.opInitial, o.opFinal)

-----------------------------------------------------------------------------
\* Mutant: no [rule XP].
EchoedAlways(op, recipients) == TRUE

(* tryOpPacket.  The packet is dropped [rule XP] when some member of the   *)
(* new session was not in the channel to receive it.  An unsynced client   *)
(* syncs with the first suitable initial packet [rule EII], and remembers  *)
(* the prevPf of every other one [rule EIO].                               *)
Echoed(op, recipients) == op.members \subseteq recipients
Syncs(o, owner, op) == o.synced \/ (op.initial /\ ShouldSyncWith(o, op, owner))

SyncFor(o, op) == IF o.synced THEN o ELSE SyncWithPrev(op.prevPf, op.prevCh)

AfterInitial(o, op) == IF op.initial THEN AcceptInitial(o, op.pId) ELSE o
AfterFinal(o, op) == IF op.final THEN AcceptFinal(o, op.pId) ELSE o

InitialSuits(o, op) == op.initial => ShouldAcceptInitial(o, op)
FinalSuits(o, op) == op.final => ShouldAcceptFinal(AfterInitial(o, op), op)

Accepts(o, owner, op, recipients) ==
    /\ Echoed(op, recipients)
    /\ Syncs(o, owner, op)
    /\ InitialSuits(SyncFor(o, op), op)
    /\ FinalSuits(SyncFor(o, op), op)

TryOpPacket(o, owner, op, recipients) ==
    CASE ~ Echoed(op, recipients) -> o
      [] Echoed(op, recipients) /\ ~ Syncs(o, owner, op) ->
            IF op.initial THEN NotSynced(o.seenPrevPf \cup {op.prevPf}) ELSE o
      [] Echoed(op, recipients) /\ Syncs(o, owner, op) ->
            LET s == SyncFor(o, op)
            IN  IF ~ InitialSuits(s, op) THEN s
                ELSE IF ~ FinalSuits(s, op) THEN AfterInitial(s, op)
                ELSE UpdateServerOrder(AfterFinal(AfterInitial(s, op), op),
                                       op.pId, PacketType(op))

\* Mutant: the fake id commits to the last completed operation.
LeavePacketIdOfFinal(o, leavers, channelMembers) ==
    [k |-> "leave", of |-> PrevPf(o), who |-> leavers, to |-> channelMembers]

(* acceptLeavePacket: members of the ongoing operation left the channel;   *)
(* the departure itself stands for the final packet.  Its fake id commits  *)
(* to the initial packet, the leavers, and who is left to see it.          *)
LeavePacketId(o, leavers, channelMembers) ==
    [k |-> "leave", of |-> PrevPi(o), who |-> leavers, to |-> channelMembers]

\* Mutant: the departure is not recorded as a packet.
EndWithoutPacket(o, leavers, channelMembers) ==
    AcceptFinal(o, LeavePacketId(o, leavers, channelMembers))

AcceptLeavePacket(o, leavers, channelMembers) ==
    LET pId == LeavePacketId(o, leavers, channelMembers)
    IN  UpdateServerOrder(AcceptFinal(o, pId), pId, "leave")

=============================================================================
