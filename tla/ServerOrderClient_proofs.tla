---------------------- MODULE ServerOrderClient_proofs ----------------------
(***************************************************************************)
(* Proofs about one client's ServerOrder, for any packets, members and     *)
(* random ids: the properties stated in ServerOrderClient are invariants,  *)
(* and the record implements the history of OpChain.                       *)
(***************************************************************************)
EXTENDS ServerOrderClient, TLAPS

-----------------------------------------------------------------------------
(* The elements of the sequences the record is made of.                    *)

LEMMA LastOfNonEmpty ==
    ASSUME NEW S, NEW s \in Seq(S), s # <<>>
    PROVE  LastOf(s) \in S /\ Len(s) \in Nat \ {0} /\ LastOf(s) = s[Len(s)]
  BY DEF LastOf

LEMMA IdTypes ==
    /\ PacketIds \subseteq Ids
    /\ NewId \subseteq Ids
    /\ LeaveIds \subseteq Ids
    /\ NoId \in Ids
    /\ \A p \in Packet : p.pId \in PacketIds /\ p.pId \in Ids /\ p.pId # NoId
  <1>1. \A p \in Packet : p.pId \in PacketIds
    BY DEF PacketIds
  <1>2. NoId.k = "none"
    BY DEF NoId
  <1>3. \A p \in Packet : p.pId.k # "none"
    BY PacketAssumption
  <1> QED
    BY <1>1, <1>2, <1>3 DEF Ids

LEMMA PacketTypeFacts ==
    /\ "2" \in PacketTypes
    /\ {"1", "3", "leave"} \subseteq PacketTypes \ {"2"}
  BY DEF PacketTypes

LEMMA AppendFacts ==
    ASSUME NEW S, NEW s \in Seq(S), NEW x \in S
    PROVE  /\ Append(s, x) \in Seq(S)
           /\ Len(Append(s, x)) = Len(s) + 1
           /\ Append(s, x)[Len(s) + 1] = x
           /\ \A i \in 1 .. Len(s) : Append(s, x)[i] = s[i]
  OBVIOUS

LEMMA AppendToOne ==
    ASSUME NEW S, NEW s \in Seq(S), Len(s) = 1, NEW x \in S
    PROVE  Len(Append(s, x)) = 2
  <1>1. Len(Append(s, x)) = Len(s) + 1
    BY AppendFacts
  <1> QED
    BY <1>1

LEMMA MemberOfAppend ==
    ASSUME NEW S, NEW s \in Seq(S), NEW x \in S
    PROVE  /\ MemberOfSeq(x, Append(s, x))
           /\ \A y : MemberOfSeq(y, s) => MemberOfSeq(y, Append(s, x))
  <1>1. /\ Len(s) \in Nat /\ Len(Append(s, x)) = Len(s) + 1 /\ Append(s, x)[Len(s) + 1] = x
        /\ \A i \in 1 .. Len(s) : Append(s, x)[i] = s[i]
    OBVIOUS
  <1>2. 1 .. Len(s) \subseteq 1 .. Len(Append(s, x)) /\ Len(s) + 1 \in 1 .. Len(Append(s, x))
    BY <1>1
  <1> QED
    BY <1>1, <1>2 DEF MemberOfSeq

LEMMA MakeChainHashType ==
    ASSUME NEW ch \in ChainHashes, NEW id \in Ids, NEW t \in PacketTypes
    PROVE  MakeChainHash(ch, id, t) \in ChainHashes
  BY DEF MakeChainHash, ChainHashes

-----------------------------------------------------------------------------
(* The four ways in which the record grows.  First, syncing.               *)

LEMMA UnsyncedWellFormed ==
    WellFormed(Unsynced)
  BY DEF WellFormed, OrderRecord, TakesTurns, Commits, LastDecides, StartsWithPacket, EndsAsKnown, Unsynced, NotSynced

LEMMA SyncWithPrevWellFormed ==
    ASSUME NEW id \in Ids, NEW ch \in ChainHashes
    PROVE  /\ WellFormed(SyncWithPrev(id, ch))
           /\ ~ HasOngoingOp(SyncWithPrev(id, ch))
           /\ PrevPf(SyncWithPrev(id, ch)) = id
  <1> DEFINE o == SyncWithPrev(id, ch)
  <1>1. o \in OrderRecord
    BY IdTypes DEF OrderRecord, SyncWithPrev, Synced
  <1>2. TakesTurns(o)
    BY DEF TakesTurns, SyncWithPrev, Synced
  <1>3. Commits(o)
    BY DEF Commits, SyncWithPrev, Synced
  <1>4. LastDecides(o)
    BY DEF LastDecides, SyncWithPrev, Synced, HasOngoingOp, LastOf, PrevPf
  <1>5. StartsWithPacket(o) /\ EndsAsKnown(o)
    BY DEF StartsWithPacket, EndsAsKnown, SyncWithPrev, Synced
  <1>6. ~ HasOngoingOp(o) /\ PrevPf(o) = id
    BY DEF SyncWithPrev, Synced, HasOngoingOp, LastOf, PrevPf
  <1> QED
    BY <1>1, <1>2, <1>3, <1>4, <1>5, <1>6 DEF WellFormed

-----------------------------------------------------------------------------
(* The record accepts a packet: id is hashed into the chain with type t,   *)
(* and the lists of initial and final packets become initial and final.    *)
Grown(o, id, t, initial, final) ==
    Synced(Append(o.packetId, id),
           Append(o.chainHash, MakeChainHash(LastOf(o.chainHash), id, t)), initial, final)

LEMMA GrownRecord ==
    ASSUME NEW o, WellFormed(o), o.synced, NEW id \in Ids, NEW t \in PacketTypes,
           NEW initial \in Seq(Ids), NEW final \in Seq(Ids)
    PROVE  /\ Grown(o, id, t, initial, final) \in OrderRecord
           /\ LastOf(o.chainHash) \in ChainHashes
           /\ MakeChainHash(LastOf(o.chainHash), id, t) \in ChainHashes
  <1>1. o \in OrderRecord /\ o.chainHash # <<>>
    BY DEF WellFormed, Commits, OrderRecord
  <1>2. LastOf(o.chainHash) \in ChainHashes
    BY <1>1, LastOfNonEmpty DEF OrderRecord
  <1>3. MakeChainHash(LastOf(o.chainHash), id, t) \in ChainHashes
    BY <1>2, MakeChainHashType
  <1>4. /\ Append(o.packetId, id) \in Seq(Ids)
        /\ Append(o.chainHash, MakeChainHash(LastOf(o.chainHash), id, t)) \in Seq(ChainHashes)
    BY <1>1, <1>3 DEF OrderRecord
  <1> QED
    BY <1>2, <1>3, <1>4 DEF Grown, Synced, OrderRecord

CommitsTo(g, id, t) ==
    /\ Commits(g) /\ LastOf(g.packetId) = id /\ Len(g.chainHash) > 1
    /\ PrevCh(g) = MakeChainHash(g.chainHash[Len(g.chainHash) - 1], id, t)

LEMMA GrownCommits ==
    ASSUME NEW o, WellFormed(o), o.synced, NEW id \in Ids, NEW t \in PacketTypes,
           NEW initial \in Seq(Ids), NEW final \in Seq(Ids)
    PROVE  CommitsTo(Grown(o, id, t, initial, final), id, t)
  <1> DEFINE g == Grown(o, id, t, initial, final)
             ch == MakeChainHash(LastOf(o.chainHash), id, t)
             n == Len(o.packetId)
  <1>1. /\ o \in OrderRecord /\ n \in Nat \ {0} /\ Len(o.chainHash) = n
        /\ \A i \in 2 .. n : \E u \in PacketTypes :
              o.chainHash[i] = MakeChainHash(o.chainHash[i - 1], o.packetId[i], u)
    BY DEF WellFormed, Commits, OrderRecord
  <1>2. /\ g.packetId = Append(o.packetId, id) /\ g.chainHash = Append(o.chainHash, ch)
        /\ ch \in ChainHashes
    BY GrownRecord DEF Grown, Synced
  <1>3. /\ Len(g.packetId) = n + 1 /\ Len(g.chainHash) = n + 1
        /\ g.packetId[n + 1] = id /\ g.chainHash[n + 1] = ch
        /\ \A i \in 1 .. n : g.packetId[i] = o.packetId[i] /\ g.chainHash[i] = o.chainHash[i]
    BY <1>1, <1>2 DEF OrderRecord
  <1>4. LastOf(o.chainHash) = g.chainHash[n]
    <2>1. LastOf(o.chainHash) = o.chainHash[n] /\ n \in 1 .. n
      BY <1>1 DEF LastOf
    <2> QED
      BY <1>3, <2>1
  <1>5. ASSUME NEW i \in 2 .. n + 1
        PROVE  \E u \in PacketTypes :
                  g.chainHash[i] = MakeChainHash(g.chainHash[i - 1], g.packetId[i], u)
    <2>1. CASE i = n + 1
      BY <1>1, <1>3, <1>4, <2>1
    <2>2. CASE i \in 2 .. n
      <3>1. i - 1 \in 1 .. n /\ i \in 1 .. n
        BY <1>1, <2>2
      <3> QED
        BY <1>1, <1>3, <2>2, <3>1
    <2> QED
      BY <1>1, <2>1, <2>2
  <1>6. LastOf(g.packetId) = id /\ PrevCh(g) = MakeChainHash(g.chainHash[n], id, t)
    BY <1>1, <1>3, <1>4 DEF LastOf, PrevCh
  <1>7. Commits(g)
    <2>1. g.packetId # <<>>
      BY <1>1, <1>3
    <2> QED
      BY <1>3, <1>5, <2>1 DEF Commits
  <1>8. Len(g.chainHash) - 1 = n /\ Len(g.chainHash) > 1
    BY <1>1, <1>3
  <1> QED
    BY <1>6, <1>7, <1>8 DEF CommitsTo

LEMMA GrownMethods ==
    ASSUME NEW o, NEW id, NEW t
    PROVE  /\ UpdateServerOrder(AcceptInitial(o, id), id, t)
                = Grown(o, id, t, Append(o.opInitial, id), o.opFinal)
           /\ UpdateServerOrder(AcceptFinal(o, id), id, t)
                = Grown(o, id, t, o.opInitial, Append(o.opFinal, id))
           /\ UpdateServerOrder(AcceptFinal(AcceptInitial(o, id), id), id, t)
                = Grown(o, id, t, Append(o.opInitial, id), Append(o.opFinal, id))
  BY DEF UpdateServerOrder, AcceptInitial, AcceptFinal, Synced, PrevCh, Grown

LEMMA OrderRecordLists ==
    ASSUME NEW o \in OrderRecord
    PROVE  /\ o.opInitial \in Seq(Ids) /\ o.opFinal \in Seq(Ids)
           /\ Len(o.opInitial) \in Nat /\ Len(o.opFinal) \in Nat
           /\ o.opFinal # <<>> => Len(o.opFinal) \in Nat \ {0}
  BY DEF OrderRecord

LEMMA StartWellFormed ==
    ASSUME NEW o, WellFormed(o), o.synced, ~ HasOngoingOp(o), NEW id \in PacketIds
    PROVE  WellFormed(Grown(o, id, "2", Append(o.opInitial, id), o.opFinal))
  <1> DEFINE g == Grown(o, id, "2", Append(o.opInitial, id), o.opFinal)
  <1>1. /\ o \in OrderRecord /\ TakesTurns(o) /\ id \in Ids
        /\ Append(o.opInitial, id) \in Seq(Ids) /\ o.opFinal \in Seq(Ids)
    BY IdTypes DEF WellFormed, OrderRecord
  <1>2. /\ g \in OrderRecord /\ g.synced
        /\ g.opInitial = Append(o.opInitial, id) /\ g.opFinal = o.opFinal
    BY <1>1, GrownRecord, PacketTypeFacts DEF Grown, Synced
  <1>3. CommitsTo(g, id, "2")
    BY <1>1, GrownCommits, PacketTypeFacts
  <1>4. /\ Len(o.opInitial) = Len(o.opFinal) /\ Len(o.opFinal) \in Nat \ {0}
        /\ Len(g.opInitial) = Len(g.opFinal) + 1
        /\ g.opInitial[Len(g.opInitial)] = id
        /\ \A i \in 1 .. Len(o.opInitial) : g.opInitial[i] = o.opInitial[i]
    BY <1>1, <1>2, OrderRecordLists, AppendFacts DEF TakesTurns, HasOngoingOp
  <1>5. TakesTurns(g) /\ HasOngoingOp(g)
    BY <1>1, <1>2, <1>4 DEF TakesTurns, HasOngoingOp
  <1>6. LastDecides(g)
    BY <1>3, <1>4, <1>5 DEF CommitsTo, LastDecides, EndsWith, PrevPi, LastOf
  <1>7. StartsWithPacket(g)
    <2>1. StartsWithPacket(o)
      BY DEF WellFormed
    <2> QED
      BY <1>1, <1>2, <1>4, <2>1 DEF StartsWithPacket
  <1>8. EndsAsKnown(g)
    <2>1. EndsAsKnown(o)
      BY DEF WellFormed
    <2>2. /\ MemberOfSeq(id, g.opInitial)
          /\ \A x : MemberOfSeq(x, o.opInitial) => MemberOfSeq(x, g.opInitial)
      BY <1>1, <1>2, OrderRecordLists, MemberOfAppend
    <2>3. KnownEnd(g, id) /\ \A x : KnownEnd(o, x) => KnownEnd(g, x)
      BY <2>2 DEF KnownEnd
    <2> HIDE DEF g
    <2> QED
      BY <1>1, <1>2, <1>4, <2>1, <2>3 DEF EndsAsKnown
  <1> QED
    BY <1>2, <1>3, <1>5, <1>6, <1>7, <1>8 DEF CommitsTo, WellFormed

LEMMA EndWellFormed ==
    ASSUME NEW o, WellFormed(o), o.synced, HasOngoingOp(o), NEW id \in Ids,
           NEW t \in PacketTypes \ {"2"},
           id.k = "leave" \/ \E p \in Packet : ~ p.initial /\ p.pId = id
    PROVE  WellFormed(Grown(o, id, t, o.opInitial, Append(o.opFinal, id)))
  <1> DEFINE g == Grown(o, id, t, o.opInitial, Append(o.opFinal, id))
  <1>1. /\ o \in OrderRecord /\ TakesTurns(o) /\ t \in PacketTypes
        /\ Append(o.opFinal, id) \in Seq(Ids) /\ o.opInitial \in Seq(Ids)
    BY DEF WellFormed, OrderRecord
  <1>2. /\ g \in OrderRecord /\ g.synced
        /\ g.opInitial = o.opInitial /\ g.opFinal = Append(o.opFinal, id)
    BY <1>1, GrownRecord DEF Grown, Synced
  <1>3. CommitsTo(g, id, t)
    BY <1>1, GrownCommits
  <1>4. /\ Len(o.opInitial) = Len(o.opFinal) + 1 /\ Len(o.opFinal) \in Nat \ {0}
        /\ Len(g.opFinal) = Len(g.opInitial)
        /\ g.opFinal[Len(g.opFinal)] = id
        /\ \A i \in 1 .. Len(o.opFinal) : g.opFinal[i] = o.opFinal[i]
    BY <1>1, <1>2, OrderRecordLists, AppendFacts DEF TakesTurns, HasOngoingOp
  <1>5. TakesTurns(g) /\ ~ HasOngoingOp(g)
    BY <1>1, <1>2, <1>4 DEF TakesTurns, HasOngoingOp
  <1>6. LastDecides(g)
    BY <1>3, <1>4, <1>5 DEF CommitsTo, LastDecides, EndsWith, PrevPf, LastOf
  <1>7. StartsWithPacket(g)
    BY <1>2 DEF WellFormed, StartsWithPacket
  <1>8. EndsAsKnown(g)
    <2>1. EndsAsKnown(o)
      BY DEF WellFormed
    <2>2. \A x : KnownEnd(o, x) => KnownEnd(g, x)
      BY <1>1, <1>2 DEF KnownEnd
    <2>3. KnownEnd(g, id)
      BY DEF KnownEnd
    <2> QED
      BY <1>1, <1>2, <1>4, <2>1, <2>2, <2>3 DEF EndsAsKnown
  <1> QED
    BY <1>2, <1>3, <1>5, <1>6, <1>7, <1>8 DEF CommitsTo, WellFormed

LEMMA StartAndEndWellFormed ==
    ASSUME NEW o, WellFormed(o), o.synced, ~ HasOngoingOp(o), NEW id \in PacketIds
    PROVE  WellFormed(Grown(o, id, "3", Append(o.opInitial, id), Append(o.opFinal, id)))
  <1> DEFINE g == Grown(o, id, "3", Append(o.opInitial, id), Append(o.opFinal, id))
  <1>1. /\ o \in OrderRecord /\ TakesTurns(o) /\ id \in Ids
        /\ Append(o.opInitial, id) \in Seq(Ids) /\ Append(o.opFinal, id) \in Seq(Ids)
    BY IdTypes DEF WellFormed, OrderRecord
  <1>2. /\ g \in OrderRecord /\ g.synced
        /\ g.opInitial = Append(o.opInitial, id) /\ g.opFinal = Append(o.opFinal, id)
    BY <1>1, GrownRecord, PacketTypeFacts DEF Grown, Synced
  <1>3. CommitsTo(g, id, "3")
    BY <1>1, GrownCommits, PacketTypeFacts
  <1>4. /\ Len(o.opInitial) = Len(o.opFinal) /\ Len(o.opFinal) \in Nat \ {0}
        /\ Len(g.opInitial) = Len(g.opFinal) /\ Len(g.opFinal) = Len(o.opFinal) + 1
        /\ g.opInitial[Len(g.opInitial)] = id /\ g.opFinal[Len(g.opFinal)] = id
        /\ \A i \in 1 .. Len(o.opInitial) :
              g.opInitial[i] = o.opInitial[i] /\ g.opFinal[i] = o.opFinal[i]
    BY <1>1, <1>2, OrderRecordLists, AppendFacts DEF TakesTurns, HasOngoingOp
  <1>5. TakesTurns(g) /\ ~ HasOngoingOp(g)
    BY <1>1, <1>2, <1>4 DEF TakesTurns, HasOngoingOp
  <1>6. LastDecides(g)
    BY <1>3, <1>4, <1>5, PacketTypeFacts DEF CommitsTo, LastDecides, EndsWith, PrevPf, LastOf
  <1>7. StartsWithPacket(g)
    <2>1. StartsWithPacket(o)
      BY DEF WellFormed
    <2> QED
      BY <1>1, <1>2, <1>4, <2>1 DEF StartsWithPacket
  <1>8. EndsAsKnown(g)
    <2>1. EndsAsKnown(o)
      BY DEF WellFormed
    <2>2. /\ MemberOfSeq(id, g.opInitial)
          /\ \A x : MemberOfSeq(x, o.opInitial) => MemberOfSeq(x, g.opInitial)
      BY <1>1, <1>2, OrderRecordLists, MemberOfAppend
    <2>3. KnownEnd(g, id) /\ \A x : KnownEnd(o, x) => KnownEnd(g, x)
      BY <2>2 DEF KnownEnd
    <2> HIDE DEF g
    <2> QED
      BY <1>1, <1>2, <1>4, <2>1, <2>3 DEF EndsAsKnown
  <1> QED
    BY <1>2, <1>3, <1>5, <1>6, <1>7, <1>8 DEF CommitsTo, WellFormed

-----------------------------------------------------------------------------
(* What tryOpPacket can do to the record.                                  *)

(* A client that syncs, or was synced, has a well-formed record to extend. *)
LEMMA SyncForWellFormed ==
    ASSUME NEW o, WellFormed(o), NEW p \in Packet, Syncs(o, Owner, p),
           o.synced => p.pId # o.opFinal[1]
    PROVE  /\ WellFormed(SyncFor(o, p)) /\ SyncFor(o, p).synced
           /\ p.pId # SyncFor(o, p).opFinal[1]
           /\ o.synced => SyncFor(o, p) = o
           /\ ~ o.synced => /\ Len(SyncFor(o, p).opInitial) = 1
                            /\ Len(SyncFor(o, p).opFinal) = 1
  <1>1. CASE o.synced
    BY <1>1 DEF SyncFor
  <1>2. CASE ~ o.synced
    <2>1. p.prevPf \in Ids /\ p.prevCh \in ChainHashes /\ p.prevPf # p.pId
      BY <1>2, PacketAssumption DEF Syncs
    <2>2. SyncFor(o, p) = SyncWithPrev(p.prevPf, p.prevCh)
      BY <1>2 DEF SyncFor
    <2>3. WellFormed(SyncWithPrev(p.prevPf, p.prevCh))
      BY <2>1, SyncWithPrevWellFormed
    <2> QED
      BY <1>2, <2>1, <2>2, <2>3 DEF SyncWithPrev, Synced
  <1> QED
    BY <1>1, <1>2

(* An initial packet that is final as well and suits as the one also suits *)
(* as the other, so that it is accepted as a whole or not at all.          *)
LEMMA SinglePacketSuits ==
    ASSUME NEW s, WellFormed(s), s.synced, NEW p \in Packet, p.initial, p.final,
           p.pId # s.opFinal[1], InitialSuits(s, p)
    PROVE  FinalSuits(s, p)
  <1> DEFINE r == AcceptInitial(s, p.pId)
  <1>1. /\ s \in OrderRecord /\ TakesTurns(s) /\ EndsAsKnown(s)
        /\ ~ MemberOfSeq(p.pId, s.opInitial) /\ ~ HasOngoingOp(s)
    BY DEF WellFormed, InitialSuits, ShouldAcceptInitial
  <1>2. p.pId \in Ids /\ p.prevPi = p.pId /\ p.pId.k # "leave"
    BY IdTypes, PacketAssumption
  <1>3. \A q \in Packet : ~ q.initial => q.pId # p.pId
    BY PacketAssumption
  <1>4. ~ KnownEnd(s, p.pId)
    BY <1>1, <1>2, <1>3 DEF KnownEnd
  <1>5. ~ MemberOfSeq(p.pId, s.opFinal)
    <2>1. \A i \in 1 .. Len(s.opFinal) : i = 1 \/ i \in 2 .. Len(s.opFinal)
      BY <1>1, OrderRecordLists
    <2> QED
      BY <1>1, <1>4, <2>1 DEF EndsAsKnown, MemberOfSeq
  <1>6. r.opInitial = Append(s.opInitial, p.pId) /\ r.opFinal = s.opFinal
    BY DEF AcceptInitial, Synced
  <1>7. HasOngoingOp(r) /\ PrevPi(r) = p.pId
    BY <1>1, <1>2, <1>6, OrderRecordLists, AppendFacts
       DEF TakesTurns, HasOngoingOp, PrevPi, LastOf
  <1>8. ShouldAcceptFinal(r, p)
    BY <1>2, <1>5, <1>6, <1>7 DEF ShouldAcceptFinal
  <1> QED
    BY <1>8 DEF FinalSuits, AfterInitial

(* The record s of a synced client becomes n when p reaches it.            *)
Starts(s, p, n) ==
    /\ p.initial /\ ~ p.final /\ ~ HasOngoingOp(s) /\ ~ MemberOfSeq(p.pId, s.opInitial)
    /\ n = Grown(s, p.pId, "2", Append(s.opInitial, p.pId), s.opFinal)
Ends(s, p, n) ==
    /\ ~ p.initial /\ HasOngoingOp(s)
    /\ n = Grown(s, p.pId, "1", s.opInitial, Append(s.opFinal, p.pId))
StartsAndEnds(s, p, n) ==
    /\ p.initial /\ ~ HasOngoingOp(s) /\ ~ MemberOfSeq(p.pId, s.opInitial)
    /\ n = Grown(s, p.pId, "3", Append(s.opInitial, p.pId), Append(s.opFinal, p.pId))

LEMMA TryOpPacketCases ==
    ASSUME NEW o, WellFormed(o), NEW p \in Packet, NEW recipients,
           o.synced => p.pId # o.opFinal[1],
           NEW n, n = TryOpPacket(o, Owner, p, recipients)
    PROVE  \/ n = o
           \/ ~ o.synced /\ n = NotSynced(o.seenPrevPf \cup {p.prevPf})
           \/ /\ Syncs(o, Owner, p)
              /\ \/ n = SyncFor(o, p)
                 \/ Starts(SyncFor(o, p), p, n)
                 \/ Ends(SyncFor(o, p), p, n)
                 \/ StartsAndEnds(SyncFor(o, p), p, n)
  <1> DEFINE s == SyncFor(o, p)
  <1>1. CASE ~ Echoed(p, recipients)
    BY <1>1 DEF TryOpPacket
  <1>2. CASE Echoed(p, recipients) /\ ~ Syncs(o, Owner, p)
    BY <1>2 DEF TryOpPacket, Syncs
  <1>3. CASE Echoed(p, recipients) /\ Syncs(o, Owner, p)
    <2>1. n = IF ~ InitialSuits(s, p) THEN s
              ELSE IF ~ FinalSuits(s, p) THEN AfterInitial(s, p)
              ELSE UpdateServerOrder(AfterFinal(AfterInitial(s, p), p), p.pId, PacketType(p))
      BY <1>3 DEF TryOpPacket
    <2>2. WellFormed(s) /\ s.synced /\ p.pId # s.opFinal[1]
      BY <1>3, SyncForWellFormed
    <2>3. p.initial \in BOOLEAN /\ p.final \in BOOLEAN /\ (p.initial \/ p.final)
      BY PacketAssumption
    <2> HIDE DEF s
    <2>4. CASE ~ InitialSuits(s, p)
      BY <1>3, <2>1, <2>4 DEF s
    <2>5. CASE InitialSuits(s, p) /\ p.initial /\ ~ p.final
      <3>1. FinalSuits(s, p)
        BY <2>5 DEF FinalSuits
      <3>2. n = UpdateServerOrder(AcceptInitial(s, p.pId), p.pId, "2")
        BY <2>1, <2>5, <3>1 DEF AfterFinal, AfterInitial, PacketType
      <3>3. Starts(s, p, n)
        BY <2>5, <3>2, GrownMethods DEF Starts, InitialSuits, ShouldAcceptInitial
      <3> QED
        BY <1>3, <3>3 DEF s
    <2>6. CASE InitialSuits(s, p) /\ ~ p.initial
      <3>1. CASE ~ FinalSuits(s, p)
        BY <1>3, <2>1, <2>6, <3>1 DEF AfterInitial, s
      <3>2. CASE FinalSuits(s, p)
        <4>1. HasOngoingOp(s)
          BY <2>3, <2>6, <3>2 DEF FinalSuits, AfterInitial, ShouldAcceptFinal
        <4>2. n = UpdateServerOrder(AcceptFinal(s, p.pId), p.pId, "1")
          BY <2>1, <2>3, <2>6, <3>2 DEF AfterFinal, AfterInitial, PacketType
        <4>3. Ends(s, p, n)
          BY <2>6, <4>1, <4>2, GrownMethods DEF Ends
        <4> QED
          BY <1>3, <4>3 DEF s
      <3> QED
        BY <3>1, <3>2
    <2>7. CASE InitialSuits(s, p) /\ p.initial /\ p.final
      <3>1. FinalSuits(s, p)
        BY <2>2, <2>7, SinglePacketSuits
      <3>2. n = UpdateServerOrder(AcceptFinal(AcceptInitial(s, p.pId), p.pId), p.pId, "3")
        <4>1. PacketType(p) = "3"
          BY <2>7 DEF PacketType
        <4>2. AfterFinal(AfterInitial(s, p), p) = AcceptFinal(AcceptInitial(s, p.pId), p.pId)
          BY <2>7 DEF AfterFinal, AfterInitial
        <4> QED
          BY <2>1, <2>7, <3>1, <4>1, <4>2
      <3>3. StartsAndEnds(s, p, n)
        BY <2>7, <3>2, GrownMethods DEF StartsAndEnds, InitialSuits, ShouldAcceptInitial
      <3> QED
        BY <1>3, <3>3 DEF s
    <2> QED
      BY <2>3, <2>4, <2>5, <2>6, <2>7
  <1> QED
    BY <1>1, <1>2, <1>3

-----------------------------------------------------------------------------
(* The invariant is inductive.                                             *)

LEMMA ReceiveWellFormed ==
    ASSUME OrderInv, NEW p \in Packet, NEW recipients, Receive(p, recipients)
    PROVE  OrderInv'
  <1> DEFINE s == SyncFor(order, p)
  <1>1. order.synced => p.pId # order.opFinal[1]
    BY DEF Receive
  <1>2. WellFormed(order)
    BY DEF OrderInv
  <1>3. \/ order' = order
        \/ ~ order.synced /\ order' = NotSynced(order.seenPrevPf \cup {p.prevPf})
        \/ /\ Syncs(order, Owner, p)
           /\ \/ order' = s
              \/ Starts(s, p, order') \/ Ends(s, p, order') \/ StartsAndEnds(s, p, order')
    BY <1>1, <1>2, TryOpPacketCases DEF Receive
  <1>4. CASE order' = order
    BY <1>2, <1>4 DEF OrderInv
  <1>5. CASE ~ order.synced /\ order' = NotSynced(order.seenPrevPf \cup {p.prevPf})
    <2>1. order.seenPrevPf \cup {p.prevPf} \in SUBSET Ids
      BY <1>2, PacketAssumption DEF WellFormed, OrderRecord
    <2> QED
      BY <1>5, <2>1 DEF OrderInv, WellFormed, OrderRecord, TakesTurns, Commits, LastDecides,
                        StartsWithPacket, EndsAsKnown, NotSynced
  <1>6. CASE /\ Syncs(order, Owner, p)
             /\ \/ order' = s
                \/ Starts(s, p, order') \/ Ends(s, p, order') \/ StartsAndEnds(s, p, order')
    <2>1. WellFormed(s) /\ s.synced
      BY <1>1, <1>2, <1>6, SyncForWellFormed
    <2>2. p.pId \in PacketIds /\ p.pId \in Ids
      BY IdTypes
    <2> HIDE DEF s
    <2>3. CASE order' = s
      BY <2>1, <2>3 DEF OrderInv
    <2>4. CASE Starts(s, p, order')
      BY <2>1, <2>2, <2>4, StartWellFormed DEF Starts, OrderInv
    <2>5. CASE Ends(s, p, order')
      BY <2>1, <2>2, <2>5, EndWellFormed, PacketTypeFacts DEF Ends, OrderInv
    <2>6. CASE StartsAndEnds(s, p, order')
      BY <2>1, <2>2, <2>6, StartAndEndWellFormed DEF StartsAndEnds, OrderInv
    <2> QED
      BY <1>6, <2>3, <2>4, <2>5, <2>6
  <1> QED
    BY <1>3, <1>4, <1>5, <1>6

LEMMA LeaveIdType ==
    ASSUME OrderInv, NEW leavers \in SUBSET Member, NEW channelMembers \in SUBSET Member,
           Leave(leavers, channelMembers)
    PROVE  /\ LeavePacketId(order, leavers, channelMembers) \in Ids
           /\ LeavePacketId(order, leavers, channelMembers).k = "leave"
  <1>1. order.synced /\ HasOngoingOp(order)
    BY DEF Leave
  <1>2. order \in OrderRecord /\ TakesTurns(order) /\ StartsWithPacket(order)
    BY DEF OrderInv, WellFormed
  <1>3. PrevPi(order) \in PacketIds
    <2>1. Len(order.opInitial) \in 2 .. Len(order.opInitial)
      BY <1>1, <1>2, OrderRecordLists DEF TakesTurns, HasOngoingOp
    <2> QED
      BY <1>2, <2>1 DEF StartsWithPacket, PrevPi, LastOf
  <1> QED
    BY <1>3, IdTypes DEF LeavePacketId, LeaveIds

LEMMA LeaveWellFormed ==
    ASSUME OrderInv, NEW leavers \in SUBSET Member, NEW channelMembers \in SUBSET Member,
           Leave(leavers, channelMembers)
    PROVE  OrderInv'
  <1> DEFINE id == LeavePacketId(order, leavers, channelMembers)
  <1>1. WellFormed(order) /\ order.synced /\ HasOngoingOp(order)
    BY DEF OrderInv, Leave
  <1>2. id \in Ids /\ id.k = "leave"
    BY LeaveIdType
  <1> HIDE DEF id
  <1>3. order' = Grown(order, id, "leave", order.opInitial, Append(order.opFinal, id))
    BY GrownMethods DEF Leave, AcceptLeavePacket, id
  <1> QED
    BY <1>1, <1>2, <1>3, EndWellFormed, PacketTypeFacts DEF OrderInv

(* Whatever packets a client receives, its server order is well formed.    *)
THEOREM OrderInvariant == Spec => []OrderInv
  <1>1. Init => OrderInv
    BY UnsyncedWellFormed DEF Init, OrderInv
  <1>2. OrderInv /\ [Next]_order => OrderInv'
    <2> SUFFICES ASSUME OrderInv, [Next]_order PROVE OrderInv'
      OBVIOUS
    <2>1. CASE Clear
      BY <2>1, UnsyncedWellFormed DEF Clear, OrderInv
    <2>2. CASE New
      <3>1. PICK id \in NewId : order' = SyncNew(id)
        BY <2>2 DEF New
      <3>2. id \in Ids /\ MakeChainHash(<<>>, id, "new") \in ChainHashes
        <4>1. id \in Ids /\ "new" \in PacketTypes /\ <<>> \in ChainHashes
          BY IdTypes DEF PacketTypes, ChainHashes
        <4> QED
          BY <4>1, MakeChainHashType
      <3> QED
        BY <3>1, <3>2, SyncWithPrevWellFormed DEF SyncNew, OrderInv
    <2>3. CASE \E p \in Packet, recipients \in SUBSET Member : Receive(p, recipients)
      BY <2>3, ReceiveWellFormed
    <2>4. CASE \E leavers, channelMembers \in SUBSET Member : Leave(leavers, channelMembers)
      BY <2>4, LeaveWellFormed
    <2>5. CASE UNCHANGED order
      BY <2>5 DEF OrderInv
    <2> QED
      BY <2>1, <2>2, <2>3, <2>4, <2>5 DEF Next
  <1> QED
    BY <1>1, <1>2, PTL DEF Spec

(* What the client records always has its type.                            *)
THEOREM TypeCorrectness == Spec => []TypeOK
  BY OrderInvariant, PTL DEF OrderInv, WellFormed, TypeOK

(* A client never records a second operation as started before the one     *)
(* that is ongoing has ended, nor an end of an operation that is not       *)
(* ongoing (hasOngoingOp).                                                 *)
THEOREM OneOperationAtATime == Spec => []OneAtATime
  BY OrderInvariant, PTL DEF OrderInv, WellFormed, OneAtATime

(* Every chain hash commits to all that was accepted before.               *)
THEOREM ChainHashCommits == Spec => []ChainCommits
  BY OrderInvariant, PTL DEF OrderInv, WellFormed, ChainCommits

(* An operation of one packet is accepted as a whole or not at all, and    *)
(* the packet accepted last is what the next one has to refer to: the      *)
(* assertion of tryOpPacket.                                               *)
THEOREM AcceptedPacketDecides == Spec => []LastPacketDecides
  BY OrderInvariant, PTL DEF OrderInv, WellFormed, LastPacketDecides

(* Two clients whose chain hashes are equal, and who both saw the packet   *)
(* that made them so, agree on whether an operation is ongoing and on the  *)
(* packet that the next one has to refer to.                               *)
THEOREM EqualHashesAgree ==
    ASSUME NEW o, WellFormed(o), o.synced, Len(o.chainHash) > 1,
           NEW q, WellFormed(q), q.synced, Len(q.chainHash) > 1,
           PrevCh(o) = PrevCh(q)
    PROVE  /\ HasOngoingOp(o) = HasOngoingOp(q)
           /\ HasOngoingOp(o) => PrevPi(o) = PrevPi(q)
           /\ ~ HasOngoingOp(o) => PrevPf(o) = PrevPf(q)
  <1> DEFINE Last(r) == IF HasOngoingOp(r) THEN PrevPi(r) ELSE PrevPf(r)
  <1>1. ASSUME NEW r, WellFormed(r), r.synced, Len(r.chainHash) > 1
        PROVE  \E ch \in ChainHashes, t \in PacketTypes :
                  /\ PrevCh(r) = MakeChainHash(ch, Last(r), t)
                  /\ t = "2" <=> HasOngoingOp(r)
                  /\ Last(r) \in Ids
    <2> DEFINE n == Len(r.chainHash)
    <2>1. r \in OrderRecord /\ LastDecides(r) /\ TakesTurns(r)
      BY <1>1 DEF WellFormed
    <2>2. r.chainHash[n - 1] \in ChainHashes
      BY <1>1, <2>1 DEF OrderRecord
    <2>3. Last(r) \in Ids
      BY <1>1, <2>1, OrderRecordLists, LastOfNonEmpty
         DEF OrderRecord, TakesTurns, PrevPi, PrevPf, HasOngoingOp
    <2>4. CASE HasOngoingOp(r)
      BY <1>1, <2>1, <2>2, <2>3, <2>4, PacketTypeFacts DEF LastDecides, EndsWith
    <2>5. CASE ~ HasOngoingOp(r)
      BY <1>1, <2>1, <2>2, <2>3, <2>5 DEF LastDecides, EndsWith
    <2> QED
      BY <2>4, <2>5
  <1>2. PICK ch1 \in ChainHashes, t1 \in PacketTypes :
            /\ PrevCh(o) = MakeChainHash(ch1, Last(o), t1)
            /\ t1 = "2" <=> HasOngoingOp(o)
            /\ Last(o) \in Ids
    BY <1>1
  <1>3. PICK ch2 \in ChainHashes, t2 \in PacketTypes :
            /\ PrevCh(q) = MakeChainHash(ch2, Last(q), t2)
            /\ t2 = "2" <=> HasOngoingOp(q)
            /\ Last(q) \in Ids
    BY <1>1
  <1> HIDE DEF Last
  <1>4. /\ MakeChainHash(ch1, Last(o), t1)[Len(MakeChainHash(ch1, Last(o), t1))]
             = <<Last(o), t1>>
        /\ MakeChainHash(ch2, Last(q), t2)[Len(MakeChainHash(ch2, Last(q), t2))]
             = <<Last(q), t2>>
    BY <1>2, <1>3 DEF MakeChainHash, ChainHashes
  <1>5. <<Last(o), t1>> = <<Last(q), t2>>
    BY <1>2, <1>3, <1>4
  <1>6. Last(o) = Last(q) /\ t1 = t2
    BY <1>5
  <1>7. HasOngoingOp(o) <=> HasOngoingOp(q)
    BY <1>2, <1>3, <1>6
  <1>8. HasOngoingOp(o) \in BOOLEAN /\ HasOngoingOp(q) \in BOOLEAN
    BY DEF HasOngoingOp
  <1> QED
    BY <1>6, <1>7, <1>8 DEF Last

-----------------------------------------------------------------------------
(* The record implements the history of OpChain.                           *)

LEMMA AppendedFresh ==
    ASSUME NEW S, NEW s \in Seq(S), NEW x \in S
    PROVE  /\ History!IsAppended(Append(s, x), s)
           /\ ~ MemberOfSeq(x, s) => History!Fresh(Append(s, x), s)
  <1>1. /\ Len(s) \in Nat /\ Len(Append(s, x)) = Len(s) + 1
        /\ Append(s, x)[Len(Append(s, x))] = x
        /\ \A i \in 1 .. Len(s) : Append(s, x)[i] = s[i]
    OBVIOUS
  <1> QED
    BY <1>1 DEF History!IsAppended, History!Fresh, MemberOfSeq

(* An operation that starts, ends, or does both in the record of a client  *)
(* that is synced does so in the history.                                  *)
LEMMA GrowthIsHistory ==
    ASSUME OrderInv, order.synced, NEW id \in Ids, NEW t \in PacketTypes
    PROVE  /\ ~ HasOngoingOp(order) /\ ~ MemberOfSeq(id, order.opInitial) =>
                 /\ order' = Grown(order, id, t, Append(order.opInitial, id), order.opFinal)
                      => History!Start
                 /\ order' = Grown(order, id, t, Append(order.opInitial, id),
                                   Append(order.opFinal, id))
                      => History!StartAndEnd
           /\ HasOngoingOp(order) =>
                 (order' = Grown(order, id, t, order.opInitial, Append(order.opFinal, id))
                    => History!End)
  <1>1. /\ order \in OrderRecord /\ TakesTurns(order)
        /\ order.opInitial \in Seq(Ids) /\ order.opFinal \in Seq(Ids)
        /\ Len(order.opInitial) \in Nat /\ Len(order.opFinal) \in Nat
    BY OrderRecordLists DEF OrderInv, WellFormed
  <1>2. HasOngoingOp(order) => History!Ongoing
    BY <1>1 DEF TakesTurns, HasOngoingOp, History!Ongoing, History!Joined
  <1>3. ~ HasOngoingOp(order) => History!Resting
    BY <1>1 DEF TakesTurns, HasOngoingOp, History!Resting, History!Joined
  <1>4. /\ History!IsAppended(Append(order.opFinal, id), order.opFinal)
        /\ ~ MemberOfSeq(id, order.opInitial)
             => History!Fresh(Append(order.opInitial, id), order.opInitial)
    BY <1>1, AppendedFresh
  <1>5. ASSUME NEW initial, NEW final, order' = Grown(order, id, t, initial, final)
        PROVE  order'.opInitial = initial /\ order'.opFinal = final
    BY <1>5 DEF Grown, Synced
  <1> QED
    BY <1>2, <1>3, <1>4, <1>5 DEF History!Start, History!End, History!StartAndEnd

(* A client that syncs joins the history, alone or with the operation that *)
(* it syncs with.                                                          *)
LEMMA SyncIsJoin ==
    ASSUME OrderInv, ~ order.synced, NEW s, s.opInitial \in Seq(Ids), s.opFinal \in Seq(Ids),
           Len(s.opInitial) = 1, Len(s.opFinal) = 1, NEW id \in Ids, NEW t,
           \/ order' = s
           \/ order' = Grown(s, id, t, Append(s.opInitial, id), s.opFinal)
           \/ order' = Grown(s, id, t, Append(s.opInitial, id), Append(s.opFinal, id))
    PROVE  History!Join
  <1>1. order.opFinal = <<>>
    BY DEF OrderInv, WellFormed, TakesTurns
  <1>2. Len(Append(s.opInitial, id)) = 2 /\ Len(Append(s.opFinal, id)) = 2
    BY AppendToOne
  <1>3. ASSUME NEW initial, NEW final, order' = Grown(s, id, t, initial, final)
        PROVE  order'.opInitial = initial /\ order'.opFinal = final
    BY <1>3 DEF Grown, Synced
  <1>4. <<Len(order'.opInitial), Len(order'.opFinal)>> \in {<<1, 1>>, <<2, 1>>, <<2, 2>>}
    BY <1>2, <1>3
  <1> QED
    BY <1>1, <1>4 DEF History!Join, History!Joined

LEMMA ReceiveIsHistory ==
    ASSUME OrderInv, NEW p \in Packet, NEW recipients, Receive(p, recipients)
    PROVE  History!ChainNext \/ UNCHANGED History!chainVars
  <1> DEFINE s == SyncFor(order, p)
  <1>1. WellFormed(order) /\ (order.synced => p.pId # order.opFinal[1])
    BY DEF OrderInv, Receive
  <1>2. \/ order' = order
        \/ ~ order.synced /\ order' = NotSynced(order.seenPrevPf \cup {p.prevPf})
        \/ /\ Syncs(order, Owner, p)
           /\ \/ order' = s
              \/ Starts(s, p, order') \/ Ends(s, p, order') \/ StartsAndEnds(s, p, order')
    BY <1>1, TryOpPacketCases DEF Receive
  <1>3. p.pId \in Ids /\ "1" \in PacketTypes /\ "2" \in PacketTypes /\ "3" \in PacketTypes
    BY IdTypes DEF PacketTypes
  <1>4. CASE order' = order
    BY <1>4 DEF History!chainVars
  <1>5. CASE ~ order.synced /\ order' = NotSynced(order.seenPrevPf \cup {p.prevPf})
    BY <1>1, <1>5 DEF NotSynced, WellFormed, TakesTurns, History!chainVars
  <1>6. CASE /\ Syncs(order, Owner, p) /\ order.synced
             /\ \/ order' = s
                \/ Starts(s, p, order') \/ Ends(s, p, order') \/ StartsAndEnds(s, p, order')
    <2>1. s = order
      BY <1>6 DEF SyncFor
    <2> HIDE DEF s
    <2>2. CASE order' = s
      BY <2>1, <2>2 DEF History!chainVars
    <2>3. CASE Starts(s, p, order')
      BY <1>3, <1>6, <2>1, <2>3, GrowthIsHistory DEF Starts, History!ChainNext
    <2>4. CASE Ends(s, p, order')
      BY <1>3, <1>6, <2>1, <2>4, GrowthIsHistory DEF Ends, History!ChainNext
    <2>5. CASE StartsAndEnds(s, p, order')
      BY <1>3, <1>6, <2>1, <2>5, GrowthIsHistory DEF StartsAndEnds, History!ChainNext
    <2> QED
      BY <1>6, <2>2, <2>3, <2>4, <2>5
  <1>7. CASE /\ Syncs(order, Owner, p) /\ ~ order.synced
             /\ \/ order' = s
                \/ Starts(s, p, order') \/ Ends(s, p, order') \/ StartsAndEnds(s, p, order')
    <2>1. WellFormed(s) /\ s.synced /\ Len(s.opInitial) = 1 /\ Len(s.opFinal) = 1
      BY <1>1, <1>7, SyncForWellFormed
    <2> HIDE DEF s
    <2>2. s.opInitial \in Seq(Ids) /\ s.opFinal \in Seq(Ids) /\ ~ HasOngoingOp(s)
      BY <2>1, OrderRecordLists DEF WellFormed, HasOngoingOp
    <2>3. \/ order' = s
          \/ order' = Grown(s, p.pId, "2", Append(s.opInitial, p.pId), s.opFinal)
          \/ order' = Grown(s, p.pId, "3", Append(s.opInitial, p.pId),
                            Append(s.opFinal, p.pId))
      BY <1>7, <2>2 DEF Starts, Ends, StartsAndEnds
    <2>4. History!Join
      BY <1>3, <1>7, <2>1, <2>2, <2>3, SyncIsJoin
    <2> QED
      BY <2>4 DEF History!ChainNext
  <1> QED
    BY <1>2, <1>4, <1>5, <1>6, <1>7

(* A client's server order is a history of operations, one at a time, none *)
(* started twice, none forgotten before the client leaves the channel.     *)
THEOREM OrderImplementsHistory == Spec => ImplementsHistory
  <1>1. Init => History!ChainInit
    BY DEF Init, Unsynced, NotSynced, History!ChainInit
  <1>2. OrderInv /\ [Next]_order => [History!ChainNext]_(History!chainVars)
    <2> SUFFICES ASSUME OrderInv, [Next]_order
                 PROVE  History!ChainNext \/ UNCHANGED History!chainVars
      OBVIOUS
    <2>1. CASE Clear
      BY <2>1 DEF Clear, Unsynced, NotSynced, History!Forget, History!ChainNext
    <2>2. CASE New
      <3>1. PICK id \in NewId : order' = SyncNew(id)
        BY <2>2 DEF New
      <3>2. order.opFinal = <<>>
        BY <2>2 DEF New, OrderInv, WellFormed, TakesTurns
      <3>3. Len(order'.opInitial) = 1 /\ Len(order'.opFinal) = 1
        BY <3>1 DEF SyncNew, SyncWithPrev, Synced
      <3> QED
        BY <3>2, <3>3 DEF History!Join, History!Joined, History!ChainNext
    <2>3. CASE \E p \in Packet, recipients \in SUBSET Member : Receive(p, recipients)
      BY <2>3, ReceiveIsHistory
    <2>4. CASE \E leavers, channelMembers \in SUBSET Member : Leave(leavers, channelMembers)
      <3>1. PICK leavers \in SUBSET Member, channelMembers \in SUBSET Member :
                Leave(leavers, channelMembers)
        BY <2>4
      <3> DEFINE id == LeavePacketId(order, leavers, channelMembers)
      <3>2. id \in Ids
        BY <3>1, LeaveIdType
      <3> HIDE DEF id
      <3>3. /\ order.synced /\ HasOngoingOp(order)
            /\ order' = Grown(order, id, "leave", order.opInitial, Append(order.opFinal, id))
        BY <3>1, GrownMethods DEF Leave, AcceptLeavePacket, id
      <3>4. History!End
        BY <3>2, <3>3, GrowthIsHistory, PacketTypeFacts
      <3> QED
        BY <3>4 DEF History!ChainNext
    <2>5. CASE UNCHANGED order
      BY <2>5 DEF History!chainVars
    <2> QED
      BY <2>1, <2>2, <2>3, <2>4, <2>5 DEF Next
  <1> QED
    BY <1>1, <1>2, OrderInvariant, PTL DEF Spec, ImplementsHistory, History!ChainSpec

=============================================================================
