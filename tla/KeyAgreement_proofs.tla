------------------------ MODULE KeyAgreement_proofs ------------------------
(***************************************************************************)
(* Proofs about KeyAgreement, for any clients, routes and number of draws: *)
(* members of a session have the same key and the same session id, what    *)
(* they keep fits for the next operation, and no greeting fails.           *)
(*                                                                         *)
(* The inductive invariant says what the members of an operation know at   *)
(* each of its three stages: while the contributions are collected, when   *)
(* the result is broadcast, and while it is confirmed.                     *)
(***************************************************************************)
EXTENDS KeyAgreement, FiniteSetTheorems, TLAPS

-----------------------------------------------------------------------------
(* Records that have the fields they should have.                          *)
IsCliques(k) ==
    k = [members |-> k.members, intKeys |-> k.intKeys, privKeys |-> k.privKeys,
         groupKey |-> k.groupKey]
IsSke(s) ==
    s = [members |-> s.members, nonces |-> s.nonces, pubKeys |-> s.pubKeys, sid |-> s.sid,
         authd |-> s.authd, nonce |-> s.nonce, privKey |-> s.privKey]
IsGreeting(g) ==
    g = [cliques |-> g.cliques, ske |-> g.ske, next |-> g.next, recvOwn |-> g.recvOwn,
         quit |-> g.quit, fin |-> g.fin, err |-> g.err]

-----------------------------------------------------------------------------
(* The stages.  The greetings are gs, the operation leads to the members   *)
(* to, and dr says how often everybody has drawn random values.            *)

(* The values a client has drawn.                                          *)
Drawn(dr, c) == {c} \X (1 .. dr[c])

(* A member's keys fit one another.                                        *)
Keyed(k, s, c, dr) ==
    /\ IsCliques(k) /\ IsSke(s)
    /\ c \in s.members
    /\ k.intKeys \in [s.members -> Key] /\ k.privKeys \subseteq Drawn(dr, c)
    /\ k.groupKey = DeriveGroupKey(Cardinal(k, c))
    /\ DOMAIN s.nonces = s.members /\ DOMAIN s.pubKeys = s.members
    /\ \A d \in s.members : s.nonces[d] \in Drawn(dr, d)
    /\ s.sid = ComputeSid(s.nonces)
    /\ s.privKey # NoValue /\ s.nonces[c] = s.nonce /\ s.pubKeys[c] = ToPublicKey(s.privKey)
SameKeys(k1, s1, k2, s2) ==
    /\ k1.intKeys = k2.intKeys /\ k1.groupKey = k2.groupKey
    /\ s1.members = s2.members /\ s1.nonces = s2.nonces /\ s1.pubKeys = s2.pubKeys

(* A member that is taking part; one that has not seen the result yet; and *)
(* one that knows no session id of values that are not drawn yet.          *)
TakesPart(g, to) ==
    /\ IsGreeting(g) /\ IsCliques(g.cliques) /\ IsSke(g.ske)
    /\ g.quit = FALSE /\ g.fin = 0 /\ g.err = FALSE /\ g.next \in {{}, to}
Waits(g, c, to, dr) ==
    /\ TakesPart(g, to) /\ g.recvOwn = FALSE
    /\ g.cliques.privKeys \subseteq Drawn(dr, c)
KnowsOld(s, dr) ==
    \/ s.sid = NoValue
    \/ /\ DOMAIN s.sid[2] \subseteq Client
       /\ \A e \in DOMAIN s.sid[2] : s.sid[2][e] \in Drawn(dr, e)

(* The lists have the nonce and the public key of the member, and the      *)
(* member knows no other keys of those who are in the list.                *)
Contributed(nonces, pubKeys, s, c, dr) ==
    /\ s.privKey # NoValue
    /\ s.nonce \in Drawn(dr, c)
    /\ nonces[c] = s.nonce /\ pubKeys[c] = ToPublicKey(s.privKey)
KnowsKeys(pubKeys, s, to) ==
    \A e \in DOMAIN s.pubKeys : e \in to => e \in DOMAIN pubKeys /\ s.pubKeys[e] = pubKeys[e]

(* Those on the route are to contribute yet, and the others have.          *)
Collected(gs, route, intKeys, nonces, pubKeys, to, dr) ==
    LET ready == to \ Range(route)
    IN  /\ route \in Seq(Client) /\ route # <<>> /\ IsInjective(route)
        /\ Range(route) \subseteq to
        /\ \A d \in to : Waits(gs[d], d, to, dr) /\ KnowsOld(gs[d].ske, dr)
        /\ DOMAIN intKeys = ready \cup {Head(route)}
        /\ \A d \in DOMAIN intKeys : intKeys[d] \in Key
        /\ DOMAIN nonces = ready /\ DOMAIN pubKeys = ready
        /\ \A d \in ready :
              /\ ComputeKeyList(gs[d].cliques.privKeys, intKeys[d]) = intKeys[Head(route)]
              /\ Contributed(nonces, pubKeys, gs[d].ske, d, dr)
              /\ KnowsKeys(pubKeys, gs[d].ske, to)
        /\ \A d \in Range(route) : gs[d].cliques.privKeys = {} /\ gs[d].ske.privKey = NoValue

(* src has the result of all contributions, which it broadcasts.           *)
Complemented(gs, src, intKeys, nonces, pubKeys, to, dr) ==
    LET k == gs[src].cliques
        s == gs[src].ske
    IN  /\ src \in to /\ Keyed(k, s, src, dr) /\ k.intKeys = intKeys
        /\ s.members = to /\ s.nonces = nonces /\ s.pubKeys = pubKeys /\ s.authd = {src}
        /\ \A d \in to :
              /\ Waits(gs[d], d, to, dr)
              /\ Contributed(nonces, pubKeys, gs[d].ske, d, dr)
              /\ KnowsKeys(pubKeys, gs[d].ske, to)
              /\ DeriveGroupKey(ComputeKeyList(gs[d].cliques.privKeys, intKeys[d])) = k.groupKey
              /\ d # src => gs[d].ske.sid # ComputeSid(nonces)

(* The only packet in flight is an upflow or the broadcast.                *)
Upward(gs, pkt, to, dr) ==
    /\ Collected(gs, pkt.route, pkt.intKeys, pkt.nonces, pkt.pubKeys, to, dr)
    /\ pkt.members = to /\ pkt.src \in to \ Range(pkt.route)
    /\ pkt.signedBy = pkt.pubKeys[pkt.src]
Downward(gs, pkt, to, dr) ==
    /\ Complemented(gs, pkt.src, pkt.intKeys, pkt.nonces, pkt.pubKeys, to, dr)
    /\ pkt.route = <<>> /\ pkt.isGKA = TRUE /\ pkt.members = to
    /\ pkt.signedBy = pkt.pubKeys[pkt.src]
    /\ pkt.signature = SessionSig(gs[pkt.src].ske, pkt.src)

(* Everybody has the keys, and the packets in flight confirm them.         *)
Heard(gs, to) == {d \in to : gs[d].recvOwn}
Confirms(pkt, gs, to) ==
    /\ pkt.route = <<>> /\ pkt.isGKA = FALSE /\ pkt.members = to
    /\ pkt.src \in to \ Heard(gs, to)
    /\ pkt.nonces = gs[pkt.src].ske.nonces
    /\ pkt.signedBy = ToPublicKey(gs[pkt.src].ske.privKey)
    /\ pkt.signature = SessionSig(gs[pkt.src].ske, pkt.src)
(* A member has received the result, and is done when its own packet came  *)
(* back and everybody has signed.                                          *)
KnowsResult(g, to, k, s, own) ==
    /\ IsGreeting(g) /\ g.cliques = k /\ g.ske = s /\ g.next = to
    /\ g.recvOwn = own /\ g.quit = FALSE /\ g.err = FALSE
    /\ g.fin = IF own /\ IsSessionAcknowledged(s) THEN 1 ELSE 0
Settled(gs, to, dr) ==
    /\ \A d \in to :
          /\ KnowsResult(gs[d], to, gs[d].cliques, gs[d].ske, gs[d].recvOwn)
          /\ gs[d].recvOwn \in BOOLEAN
          /\ Keyed(gs[d].cliques, gs[d].ske, d, dr) /\ gs[d].ske.members = to
          /\ gs[d].ske.authd = {d} \cup Heard(gs, to)
    /\ \A d, e \in to : SameKeys(gs[d].cliques, gs[d].ske, gs[e].cliques, gs[e].ske)
Confirming(gs, packets, to, dr) ==
    /\ Heard(gs, to) # to /\ Settled(gs, to, dr)
    /\ \A pkt \in packets : Confirms(pkt, gs, to)
    /\ \A p, q \in packets : p.src = q.src => p = q

(* Members that the operation excludes know whose packets they receive.    *)
Excluded(gs, to) ==
    \A c \in Client \ to :
        /\ gs[c].err = FALSE
        /\ c \in Group =>
              /\ IsGreeting(gs[c]) /\ gs[c].fin = 0 /\ gs[c].ske.privKey # NoValue
              /\ \A d \in to : /\ d \in DOMAIN gs[c].ske.pubKeys
                               /\ gs[c].ske.pubKeys[d] = ToPublicKey(gs[d].ske.privKey)

(* The operation's packets, as an operation begins and goes on.            *)
Stage(gs, pkt, to, dr) ==
    \/ Upward(gs, pkt, to, dr) /\ Group \subseteq to
    \/ Downward(gs, pkt, to, dr) /\ Excluded(gs, to)
IsUnderWay ==
    \/ \E pkt \in flight : flight = {pkt} /\ Stage(greeting, pkt, next, drawn)
    \/ Confirming(greeting, flight, next, drawn) /\ Excluded(greeting, next)

-----------------------------------------------------------------------------
(* The inductive invariant: the stores fit one another, every proposal     *)
(* would begin an operation well, and the ongoing one is at some stage.    *)

StoresKeyed ==
    /\ store = [c \in Client |-> store[c]]
    /\ \A c \in Client : store[c] = [cliques |-> store[c].cliques, ske |-> store[c].ske]
    /\ \A c \in Group :
          /\ Keyed(store[c].cliques, store[c].ske, c, drawn)
          /\ Group \subseteq store[c].ske.members /\ store[c].ske.members \subseteq Client
    /\ \A c, d \in Group :
          SameKeys(store[c].cliques, store[c].ske, store[d].cliques, store[d].ske)

ProposalsFit ==
    \A p \in proposals :
        /\ p.by \in p.packet.members /\ p.packet.members \subseteq Client
        /\ Stage(Beginning(p), p.packet, p.packet.members, drawn)

OperationFits ==
    IF next = {} THEN flight = {} /\ greeting = [c \in Client |-> NoGreeting]
    ELSE proposals = {} /\ IsUnderWay

KeyInv ==
    /\ drawn \in [Client -> Nat]
    /\ next \subseteq Client
    /\ greeting = [c \in Client |-> greeting[c]]
    /\ \A c \in Client : greeting[c].err = FALSE
    /\ StoresKeyed
    /\ ProposalsFit
    /\ OperationFits

-----------------------------------------------------------------------------
(* Values drawn, and multiplying with private keys.                        *)

(* A value that a client draws is none of those it had drawn.              *)
LEMMA FreshIsNew ==
    ASSUME NEW dr, NEW c, dr[c] \in Nat
    PROVE  <<c, dr[c] + 1>> \notin Drawn(dr, c) /\ <<c, dr[c] + 1>> # NoValue
  BY DEF Drawn, NoValue

(* It is one of them afterwards.                                           *)
LEMMA FreshIsDrawn ==
    ASSUME NEW dr, NEW dr2, NEW c, dr[c] \in Nat, dr2[c] = dr[c] + 1
    PROVE  <<c, dr[c] + 1>> \in Drawn(dr2, c)
  BY DEF Drawn

Grows(dr, dr2) == \A c \in Client : dr[c] \in Nat /\ dr2[c] \in Nat /\ dr[c] <= dr2[c]

(* Values that were drawn stay drawn.                                      *)
LEMMA DrawnGrows ==
    ASSUME NEW dr, NEW dr2, NEW c \in Client, Grows(dr, dr2)
    PROVE  Drawn(dr, c) \subseteq Drawn(dr2, c)
  <1>1. 1 .. dr[c] \subseteq 1 .. dr2[c]
    BY DEF Grows
  <1> QED
    BY <1>1 DEF Drawn

(* Keys multiplied with private keys are keys.                             *)
LEMMA ScalarMultType ==
    ASSUME NEW k \in Key, NEW p \in PrivKey
    PROVE  ScalarMult(p, k) \in Key
  <1>1. k[p] + 1 \in Nat
    BY DEF Key
  <1> QED
    BY <1>1 DEF ScalarMult, Key

(* The same for a list of private keys (_computeKeyList).                  *)
LEMMA KeyListType ==
    ASSUME NEW k \in Key, NEW P
    PROVE  ComputeKeyList(P, k) \in Key
  <1>1. \A q \in PrivKey : k[q] + (IF q \in P THEN 1 ELSE 0) \in Nat
    BY DEF Key
  <1> QED
    BY <1>1 DEF ComputeKeyList, Key

(* In what order keys are multiplied does not matter.                      *)
LEMMA MultCommutes ==
    ASSUME NEW k \in Key, NEW p \in PrivKey, NEW P
    PROVE  ComputeKeyList(P, ScalarMult(p, k)) = ScalarMult(p, ComputeKeyList(P, k))
  <1> DEFINE l == ComputeKeyList(P, ScalarMult(p, k))
             r == ScalarMult(p, ComputeKeyList(P, k))
  <1>1. l \in Key /\ r \in Key
    BY ScalarMultType, KeyListType
  <1>2. \A q \in PrivKey : l[q] = r[q]
    <2> TAKE q \in PrivKey
    <2>1. k[q] \in Nat
      BY DEF Key
    <2>2. ScalarMult(p, k)[q] = IF q = p THEN k[q] + 1 ELSE k[q]
      BY DEF ScalarMult, Key
    <2>3. l[q] = ScalarMult(p, k)[q] + (IF q \in P THEN 1 ELSE 0)
      BY DEF ComputeKeyList
    <2>4. ComputeKeyList(P, k)[q] = k[q] + (IF q \in P THEN 1 ELSE 0)
      BY DEF ComputeKeyList
    <2>5. r[q] = IF q = p THEN ComputeKeyList(P, k)[q] + 1 ELSE ComputeKeyList(P, k)[q]
      BY ScalarMultType, KeyListType DEF ScalarMult, Key
    <2> QED
      BY <2>1, <2>2, <2>3, <2>4, <2>5
  <1> QED
    BY <1>1, <1>2 DEF Key

(* A new private key of one's own is multiplied like anybody's.            *)
LEMMA MultOwn ==
    ASSUME NEW k \in Key, NEW p \in PrivKey, NEW P, p \notin P
    PROVE  ComputeKeyList(P \cup {p}, k) = ScalarMult(p, ComputeKeyList(P, k))
  <1> DEFINE l == ComputeKeyList(P \cup {p}, k)
             r == ScalarMult(p, ComputeKeyList(P, k))
  <1>1. l \in Key /\ r \in Key
    BY ScalarMultType, KeyListType
  <1>2. \A q \in PrivKey : l[q] = r[q]
    <2> TAKE q \in PrivKey
    <2>1. k[q] \in Nat
      BY DEF Key
    <2>2. l[q] = k[q] + (IF q \in P \cup {p} THEN 1 ELSE 0)
      BY DEF ComputeKeyList
    <2>3. ComputeKeyList(P, k)[q] = k[q] + (IF q \in P THEN 1 ELSE 0)
      BY DEF ComputeKeyList
    <2>4. r[q] = IF q = p THEN ComputeKeyList(P, k)[q] + 1 ELSE ComputeKeyList(P, k)[q]
      BY ScalarMultType, KeyListType DEF ScalarMult, Key
    <2> QED
      BY <2>1, <2>2, <2>3, <2>4
  <1> QED
    BY <1>1, <1>2 DEF Key

(* A key multiplied with no private keys is itself.                        *)
LEMMA MultNone ==
    ASSUME NEW k \in Key PROVE ComputeKeyList({}, k) = k
  <1>1. ComputeKeyList({}, k) \in Key
    BY ScalarMultType, KeyListType
  <1>2. \A q \in PrivKey : ComputeKeyList({}, k)[q] = k[q]
    BY DEF ComputeKeyList, Key
  <1> QED
    BY <1>1, <1>2 DEF Key

(* A route without its head.                                               *)
LEMMA RouteTail ==
    ASSUME NEW s \in Seq(Client), IsInjective(s), s # <<>>
    PROVE  /\ Tail(s) \in Seq(Client) /\ IsInjective(Tail(s))
           /\ Range(Tail(s)) = Range(s) \ {Head(s)}
           /\ Head(s) \in Range(s) /\ Head(s) \in Client
           /\ Tail(s) = <<>> <=> Len(s) = 1
           /\ Tail(s) # <<>> => Head(Tail(s)) = s[2] /\ s[2] \in Range(Tail(s))
  <1>1. /\ Len(s) \in Nat \ {0} /\ DOMAIN s = 1 .. Len(s) /\ Head(s) = s[1]
        /\ Tail(s) \in Seq(Client) /\ DOMAIN Tail(s) = 1 .. Len(s) - 1
        /\ Len(Tail(s)) = Len(s) - 1
        /\ \A i \in 1 .. Len(s) - 1 : Tail(s)[i] = s[i + 1]
        /\ \A i \in 1 .. Len(s) : s[i] \in Client
    OBVIOUS
  <1>2. \A i, j \in 1 .. Len(s) : s[i] = s[j] => i = j
    BY <1>1 DEF IsInjective
  <1>3. IsInjective(Tail(s))
    BY <1>1, <1>2 DEF IsInjective
  <1>4. Range(Tail(s)) \subseteq Range(s) \ {Head(s)}
    BY <1>1, <1>2 DEF Range
  <1>5. Range(s) \ {Head(s)} \subseteq Range(Tail(s))
    <2> SUFFICES ASSUME NEW i \in 1 .. Len(s), s[i] # s[1] PROVE s[i] \in Range(Tail(s))
      BY <1>1 DEF Range
    <2>1. i - 1 \in 1 .. Len(s) - 1 /\ Tail(s)[i - 1] = s[i]
      BY <1>1
    <2> QED
      BY <1>1, <2>1 DEF Range
  <1>6. Tail(s) = <<>> <=> Len(s) = 1
    BY <1>1
  <1>7. ASSUME Tail(s) # <<>> PROVE Head(Tail(s)) = s[2] /\ s[2] \in Range(Tail(s))
    <2>1. 1 \in 1 .. Len(s) - 1
      BY <1>1, <1>6, <1>7
    <2>2. Tail(s)[1] = s[2] /\ Head(Tail(s)) = Tail(s)[1]
      BY <1>1, <1>7, <2>1
    <2> QED
      BY <1>1, <2>1, <2>2 DEF Range
  <1>8. Head(s) \in Range(s) /\ Head(s) \in Client
    BY <1>1 DEF Range
  <1> QED
    BY <1>1, <1>3, <1>4, <1>5, <1>6, <1>7, <1>8

-----------------------------------------------------------------------------
(* What the operations of the two protocols change, field by field.        *)

(* _renewPrivKey multiplies the keys of all others with the new key.       *)
LEMMA RenewFacts ==
    ASSUME NEW m, IsCliques(m), NEW c, NEW p, NEW n, n = RenewPrivKey(m, c, p)
    PROVE  /\ IsCliques(n) /\ n.members = m.members /\ n.groupKey = m.groupKey
           /\ n.privKeys = m.privKeys \cup {p}
           /\ DOMAIN n.intKeys = DOMAIN m.intKeys
           /\ \A d \in DOMAIN m.intKeys :
                 n.intKeys[d] = IF d = c THEN m.intKeys[d] ELSE ScalarMult(p, m.intKeys[d])
           /\ n.intKeys = [d \in DOMAIN n.intKeys |-> n.intKeys[d]]
  <1> DEFINE i == [d \in DOMAIN m.intKeys |->
                      IF d = c THEN m.intKeys[d] ELSE ScalarMult(p, m.intKeys[d])]
             P == m.privKeys \cup {p}
  <1>1. n = [m EXCEPT !.privKeys = P, !.intKeys = i]
    BY DEF RenewPrivKey
  <1> HIDE DEF i, P
  <1>2. IsCliques(n)
    BY <1>1 DEF IsCliques
  <1>3. n.members = m.members /\ n.groupKey = m.groupKey /\ n.privKeys = P
    BY <1>1 DEF IsCliques
  <1>4. n.intKeys = i
    BY <1>1 DEF IsCliques
  <1>5. i = [d \in DOMAIN i |-> i[d]]
    BY DEF i
  <1> QED
    BY <1>2, <1>3, <1>4, <1>5 DEF i, P

(* The cardinal key becomes the intermediate key of the next on the route. *)
LEMMA AddCardinalFacts ==
    ASSUME NEW m, IsCliques(m), NEW c, NEW e, NEW n, n = AddCardinal(m, c, e)
    PROVE  /\ IsCliques(n) /\ n.members = m.members /\ n.groupKey = m.groupKey
           /\ n.privKeys = m.privKeys
           /\ DOMAIN n.intKeys = DOMAIN m.intKeys \cup {e} /\ n.intKeys[e] = Cardinal(m, c)
           /\ \A d \in DOMAIN m.intKeys : d # e => n.intKeys[d] = m.intKeys[d]
           /\ n.intKeys = [d \in DOMAIN n.intKeys |-> n.intKeys[d]]
  <1> DEFINE i == [d \in DOMAIN m.intKeys \cup {e} |->
                              IF d = e THEN Cardinal(m, c) ELSE m.intKeys[d]]
  <1>1. n = [m EXCEPT !.intKeys = i]
    BY DEF AddCardinal
  <1> HIDE DEF i
  <1>2. IsCliques(n)
    BY <1>1 DEF IsCliques
  <1>3. n.members = m.members /\ n.groupKey = m.groupKey /\ n.privKeys = m.privKeys
    BY <1>1 DEF IsCliques
  <1>4. n.intKeys = i
    BY <1>1 DEF IsCliques
  <1>5. /\ DOMAIN i = DOMAIN m.intKeys \cup {e} /\ i[e] = Cardinal(m, c)
        /\ \A d \in DOMAIN m.intKeys : d # e => i[d] = m.intKeys[d]
        /\ i = [d \in DOMAIN i |-> i[d]]
    BY DEF i
  <1> QED
    BY <1>2, <1>3, <1>4, <1>5

(* Setting the group key changes nothing else.                             *)
LEMMA SetGroupKeyFacts ==
    ASSUME NEW m, IsCliques(m), NEW g, NEW n, n = [m EXCEPT !.groupKey = g]
    PROVE  /\ IsCliques(n) /\ n.members = m.members /\ n.groupKey = g
           /\ n.privKeys = m.privKeys /\ n.intKeys = m.intKeys
  <1>1. IsCliques(n)
    BY DEF IsCliques
  <1>2. n.members = m.members /\ n.groupKey = g
    BY DEF IsCliques
  <1>3. n.privKeys = m.privKeys /\ n.intKeys = m.intKeys
    BY DEF IsCliques
  <1> QED
    BY <1>1, <1>2, <1>3

(* upflow at a member that has no private keys: its own key is multiplied  *)
(* with the keys of all others, and with its intermediate key for the next *)
(* member on the route, if there is one.                                   *)
HasContributed(r, c, p, route, intKeys) ==
    /\ IsCliques(r) /\ r.privKeys = {p} /\ c \in DOMAIN r.intKeys
    /\ r.intKeys = [d \in DOMAIN r.intKeys |-> r.intKeys[d]]
    /\ \A d \in DOMAIN intKeys :
          /\ d \in DOMAIN r.intKeys
          /\ Len(route) = 1 \/ d # route[2] =>
                r.intKeys[d] = IF d = c THEN intKeys[d] ELSE ScalarMult(p, intKeys[d])
    /\ Len(route) = 1 =>
          /\ DOMAIN r.intKeys = DOMAIN intKeys
          /\ r.groupKey = DeriveGroupKey(ScalarMult(p, intKeys[c]))
    /\ Len(route) # 1 =>
          /\ DOMAIN r.intKeys = DOMAIN intKeys \cup {route[2]}
          /\ r.intKeys[route[2]] = ScalarMult(p, intKeys[c])

(* upflow of the key agreement adds one contribution.                      *)
LEMMA CliquesUpflowFacts ==
    ASSUME NEW m, IsCliques(m), m.privKeys = {}, NEW c, NEW p \in PrivKey, NEW msg,
           c \in DOMAIN msg.intKeys, msg.intKeys[c] \in Key,
           NEW r, r = CliquesUpflow(m, c, msg, p)
    PROVE  HasContributed(r, c, p, msg.route, msg.intKeys)
  <1> DEFINE P == IF msg.agreement = "ika" THEN {} ELSE m.privKeys
  <1>0. PICK m0 : m0 = [m EXCEPT !.members = msg.members, !.intKeys = msg.intKeys, !.privKeys = P]
    OBVIOUS
  <1>1. PICK n : n = RenewPrivKey(m0, c, p)
    OBVIOUS
  <1>2. r = IF Len(msg.route) = 1 THEN [n EXCEPT !.groupKey = DeriveGroupKey(Cardinal(n, c))]
            ELSE AddCardinal(n, c, msg.route[2])
    BY <1>0, <1>1 DEF CliquesUpflow
  <1>a. P = {}
    OBVIOUS
  <1> HIDE DEF P
  <1>3. IsCliques(m0)
    BY <1>0 DEF IsCliques
  <1>4. m0.intKeys = msg.intKeys /\ m0.privKeys = {}
    BY <1>0, <1>a DEF IsCliques
  <1>5. /\ IsCliques(n) /\ n.privKeys = {p}
        /\ DOMAIN n.intKeys = DOMAIN msg.intKeys
        /\ n.intKeys = [d \in DOMAIN n.intKeys |-> n.intKeys[d]]
        /\ \A d \in DOMAIN msg.intKeys :
              n.intKeys[d] = IF d = c THEN msg.intKeys[d] ELSE ScalarMult(p, msg.intKeys[d])
    BY <1>1, <1>3, <1>4, RenewFacts
  <1>6. Cardinal(n, c) = ScalarMult(p, msg.intKeys[c])
    <2>1. Cardinal(n, c) = ComputeKeyList({} \cup {p}, msg.intKeys[c])
      BY <1>5 DEF Cardinal
    <2> QED
      BY <2>1, MultOwn, MultNone
  <1>7. CASE Len(msg.route) = 1
    <2>1. r = [n EXCEPT !.groupKey = DeriveGroupKey(Cardinal(n, c))]
      BY <1>2, <1>7
    <2>2. /\ IsCliques(r) /\ r.privKeys = n.privKeys /\ r.intKeys = n.intKeys
          /\ r.groupKey = DeriveGroupKey(Cardinal(n, c))
      BY <2>1, <1>5, SetGroupKeyFacts
    <2> QED
      BY <1>5, <1>6, <1>7, <2>2 DEF HasContributed
  <1>8. CASE Len(msg.route) # 1
    <2>1. PICK e : e = msg.route[2]
      OBVIOUS
    <2>2. r = AddCardinal(n, c, e)
      BY <1>2, <1>8, <2>1
    <2>3. /\ IsCliques(r) /\ r.privKeys = n.privKeys
          /\ DOMAIN r.intKeys = DOMAIN n.intKeys \cup {e} /\ r.intKeys[e] = Cardinal(n, c)
          /\ \A d \in DOMAIN n.intKeys : d # e => r.intKeys[d] = n.intKeys[d]
          /\ r.intKeys = [d \in DOMAIN r.intKeys |-> r.intKeys[d]]
      BY <1>5, <2>2, AddCardinalFacts
    <2> QED
      BY <1>5, <1>6, <1>8, <2>1, <2>3 DEF HasContributed
  <1> QED
    BY <1>7, <1>8

(* downflow of the key agreement: the keys are those of the packet.        *)
LEMMA SetKeysFacts ==
    ASSUME NEW m, IsCliques(m), NEW c, NEW msg, NEW r, r = CliquesDownflow(m, c, msg)
    PROVE  /\ IsCliques(r) /\ r.privKeys = m.privKeys /\ r.intKeys = msg.intKeys
           /\ r.groupKey = DeriveGroupKey(ComputeKeyList(m.privKeys, msg.intKeys[c]))
  <1> DEFINE key == DeriveGroupKey(ComputeKeyList(m.privKeys, msg.intKeys[c]))
  <1>0. PICK m0 : m0 = [m EXCEPT !.members = msg.members]
    OBVIOUS
  <1>1. IsCliques(m0)
    BY <1>0 DEF IsCliques
  <1>2. m0.privKeys = m.privKeys
    BY <1>0 DEF IsCliques
  <1>3. r = [m0 EXCEPT !.intKeys = msg.intKeys, !.groupKey = key]
    BY <1>0, <1>2 DEF CliquesDownflow, SetKeys
  <1> HIDE DEF key
  <1>4. IsCliques(r)
    BY <1>1, <1>3 DEF IsCliques
  <1>5. r.privKeys = m.privKeys
    BY <1>1, <1>2, <1>3 DEF IsCliques
  <1>6. r.intKeys = msg.intKeys /\ r.groupKey = key
    BY <1>1, <1>3 DEF IsCliques
  <1> QED
    BY <1>4, <1>5, <1>6 DEF key

(* upflow at a member that has no ephemeral key yet.                       *)
LEMMA SkeUpflowFacts ==
    ASSUME NEW s, IsSke(s), s.privKey = NoValue, NEW c, NEW fresh, NEW msg,
           NEW r, r = SkeUpflow(s, c, msg, fresh)
    PROVE  /\ IsSke(r) /\ r.members = msg.members /\ r.nonce = fresh /\ r.privKey = fresh
           /\ r.nonces = Extend(msg.nonces, c, fresh)
           /\ r.pubKeys = Extend(msg.pubKeys, c, ToPublicKey(fresh))
           /\ Len(msg.route) = 1 => r.sid = ComputeSid(r.nonces) /\ r.authd = {c}
           /\ Len(msg.route) # 1 => r.sid = s.sid /\ r.authd = s.authd
  <1> DEFINE nonces == Extend(msg.nonces, c, fresh)
             pubKeys == Extend(msg.pubKeys, c, ToPublicKey(fresh))
  <1>0. PICK j : j = [s EXCEPT !.members = msg.members, !.nonce = fresh, !.privKey = fresh,
                               !.nonces = nonces, !.pubKeys = pubKeys]
    OBVIOUS
  <1>1. r = IF Len(msg.route) = 1 THEN [j EXCEPT !.sid = ComputeSid(j.nonces), !.authd = {c}]
            ELSE j
    BY <1>0 DEF SkeUpflow
  <1> HIDE DEF nonces, pubKeys
  <1>2. IsSke(j)
    BY <1>0 DEF IsSke
  <1>3. j.members = msg.members /\ j.nonce = fresh /\ j.privKey = fresh
    BY <1>0 DEF IsSke
  <1>4. j.nonces = nonces /\ j.pubKeys = pubKeys /\ j.sid = s.sid /\ j.authd = s.authd
    BY <1>0 DEF IsSke
  <1>5. CASE Len(msg.route) = 1
    <2>1. r = [j EXCEPT !.sid = ComputeSid(j.nonces), !.authd = {c}]
      BY <1>1, <1>5
    <2>2. IsSke(r)
      BY <2>1, <1>2 DEF IsSke
    <2>3. r.members = j.members /\ r.nonce = j.nonce /\ r.privKey = j.privKey
      BY <2>1, <1>2 DEF IsSke
    <2>4. r.nonces = j.nonces /\ r.pubKeys = j.pubKeys
      BY <2>1, <1>2 DEF IsSke
    <2>5. r.sid = ComputeSid(j.nonces) /\ r.authd = {c}
      BY <2>1, <1>2 DEF IsSke
    <2> QED
      BY <1>3, <1>4, <1>5, <2>2, <2>3, <2>4, <2>5 DEF nonces, pubKeys
  <1>6. CASE Len(msg.route) # 1
    BY <1>1, <1>2, <1>3, <1>4, <1>6 DEF nonces, pubKeys
  <1> QED
    BY <1>5, <1>6

(* downflow of the exchange.                                               *)
LEMMA AdoptFacts ==
    ASSUME NEW s, IsSke(s), NEW c, NEW msg, NEW r, r = Adopt(s, c, msg)
    PROVE  /\ IsSke(r) /\ r.nonce = s.nonce /\ r.privKey = s.privKey
           /\ s.sid = ComputeSid(msg.nonces) => r = s
           /\ s.sid # ComputeSid(msg.nonces) =>
                 /\ r.members = msg.members /\ r.nonces = msg.nonces /\ r.pubKeys = msg.pubKeys
                 /\ r.sid = ComputeSid(msg.nonces) /\ r.authd = {c}
  <1> DEFINE sid == ComputeSid(msg.nonces)
             authd == {c}
  <1> HIDE DEF sid, authd
  <1>1. CASE s.sid = sid
    BY <1>1 DEF Adopt, sid
  <1>2. CASE s.sid # sid
    <2>1. r = [s EXCEPT !.members = msg.members, !.nonces = msg.nonces,
                        !.pubKeys = msg.pubKeys, !.sid = sid, !.authd = authd]
      BY <1>2 DEF Adopt, sid, authd
    <2>2. IsSke(r)
      BY <2>1 DEF IsSke
    <2>3. r.nonce = s.nonce /\ r.privKey = s.privKey
      BY <2>1 DEF IsSke
    <2>4. r.members = msg.members /\ r.nonces = msg.nonces /\ r.pubKeys = msg.pubKeys
      BY <2>1 DEF IsSke
    <2>5. r.sid = sid /\ r.authd = authd
      BY <2>1 DEF IsSke
    <2> QED
      BY <1>2, <2>2, <2>3, <2>4, <2>5 DEF sid, authd
  <1> QED
    BY <1>1, <1>2

(* downflow of the exchange: one more has signed what the member now knows.*)
LEMMA SkeDownflowFacts ==
    ASSUME NEW s, IsSke(s), NEW c, NEW msg, NEW r, r = SkeDownflow(s, c, msg)
    PROVE  /\ IsSke(r) /\ r.nonce = s.nonce /\ r.privKey = s.privKey
           /\ s.sid = ComputeSid(msg.nonces) =>
                 /\ r.members = s.members /\ r.nonces = s.nonces /\ r.pubKeys = s.pubKeys
                 /\ r.sid = s.sid /\ r.authd = s.authd \cup {msg.src}
           /\ s.sid # ComputeSid(msg.nonces) =>
                 /\ r.members = msg.members /\ r.nonces = msg.nonces /\ r.pubKeys = msg.pubKeys
                 /\ r.sid = ComputeSid(msg.nonces) /\ r.authd = {c, msg.src}
  <1>1. PICK a : a = Adopt(s, c, msg)
    OBVIOUS
  <1>2. PICK authd : authd = a.authd \cup {msg.src}
    OBVIOUS
  <1>3. r = [a EXCEPT !.authd = authd]
    BY <1>1, <1>2 DEF SkeDownflow
  <1>4. IsSke(a)
    BY <1>1, AdoptFacts
  <1>5. IsSke(r)
    BY <1>3, <1>4 DEF IsSke
  <1>6. r.nonce = a.nonce /\ r.privKey = a.privKey /\ r.sid = a.sid
    BY <1>3, <1>4 DEF IsSke
  <1>7. r.members = a.members /\ r.nonces = a.nonces /\ r.pubKeys = a.pubKeys
    BY <1>3, <1>4 DEF IsSke
  <1>8. r.authd = authd
    BY <1>3, <1>4 DEF IsSke
  <1>9. /\ a.nonce = s.nonce /\ a.privKey = s.privKey
        /\ s.sid = ComputeSid(msg.nonces) => a = s
        /\ s.sid # ComputeSid(msg.nonces) =>
                 /\ a.members = msg.members /\ a.nonces = msg.nonces /\ a.pubKeys = msg.pubKeys
                 /\ a.sid = ComputeSid(msg.nonces) /\ a.authd = {c}
    BY <1>1, AdoptFacts
  <1> QED
    BY <1>2, <1>5, <1>6, <1>7, <1>8, <1>9

-----------------------------------------------------------------------------
(* What a greeting does with a packet, field by field.                     *)

(* The first packet tells who the members will be.                         *)
LEMMA StartedFacts ==
    ASSUME NEW g, NEW to, IsGreeting(g), g.next \in {{}, to}, NEW pkt, pkt.members = to,
           NEW h, h = Started(g, pkt)
    PROVE  /\ IsGreeting(h) /\ h.next = to /\ h.cliques = g.cliques /\ h.ske = g.ske
           /\ h.recvOwn = g.recvOwn /\ h.quit = g.quit /\ h.fin = g.fin /\ h.err = g.err
  <1>1. CASE g.next = {}
    <2>1. h = [g EXCEPT !.next = to]
      BY <1>1 DEF Started
    <2>2. IsGreeting(h)
      BY <2>1 DEF IsGreeting
    <2>3. h.next = to /\ h.cliques = g.cliques /\ h.ske = g.ske
      BY <2>1 DEF IsGreeting
    <2>4. h.recvOwn = g.recvOwn /\ h.quit = g.quit /\ h.fin = g.fin /\ h.err = g.err
      BY <2>1 DEF IsGreeting
    <2> QED
      BY <2>2, <2>3, <2>4
  <1>2. CASE g.next # {}
    BY <1>2 DEF Started
  <1> QED
    BY <1>1, <1>2

(* Done is who has its own packet back and a signature of everybody.       *)
LEMMA MaybeFulfillFacts ==
    ASSUME NEW g, IsGreeting(g), g.err = FALSE, g.fin = 0, g.next = g.ske.members,
           g.recvOwn \in BOOLEAN, NEW h, h = MaybeFulfill(g)
    PROVE  /\ IsGreeting(h) /\ h.cliques = g.cliques /\ h.ske = g.ske /\ h.next = g.next
           /\ h.recvOwn = g.recvOwn /\ h.quit = g.quit /\ h.err = FALSE
           /\ h.fin = IF g.recvOwn /\ IsSessionAcknowledged(g.ske) THEN 1 ELSE 0
  <1>1. CASE Complete(g)
    <2>1. h = [g EXCEPT !.fin = 1]
      BY <1>1 DEF MaybeFulfill
    <2>2. IsGreeting(h)
      BY <2>1 DEF IsGreeting
    <2>3. h.cliques = g.cliques /\ h.ske = g.ske /\ h.next = g.next /\ h.recvOwn = g.recvOwn
      BY <2>1 DEF IsGreeting
    <2>4. h.quit = g.quit /\ h.err = g.err /\ h.fin = 1
      BY <2>1 DEF IsGreeting
    <2> QED
      BY <1>1, <2>2, <2>3, <2>4 DEF Complete
  <1>2. CASE ~ Complete(g)
    BY <1>2 DEF MaybeFulfill, Complete
  <1> QED
    BY <1>1, <1>2

(* A greeting that is not complete stays as it is.                         *)
LEMMA NotFulfilled ==
    ASSUME NEW g, g.recvOwn = FALSE
    PROVE  MaybeFulfill(g) = g
  BY DEF MaybeFulfill, Complete

(* recv, given the greeting as it is when the packet is processed.         *)
LEMMA RecvFacts ==
    ASSUME NEW g, NEW to, IsGreeting(g), g.next \in {{}, to}, g.fin = 0,
           NEW pkt, pkt.members = to, MessageVerifies(g.ske, pkt), NEW c, NEW fresh,
           NEW n, n = Started(g, pkt)
    PROVE  /\ IsGreeting(n) /\ n.next = to /\ n.cliques = g.cliques /\ n.ske = g.ske
           /\ n.recvOwn = g.recvOwn /\ n.quit = g.quit /\ n.fin = 0 /\ n.err = g.err
           /\ Recv(g, c, pkt, fresh) = ProcessMessage(n, c, pkt, fresh)
  BY StartedFacts DEF Recv

(* A member that has not received the result; what it has when it has      *)
(* added its contribution to an upflow.                                    *)
HasNoResult(g, to) == TakesPart(g, to) /\ g.recvOwn = FALSE
HasAdded(h, to, k, s) ==
    /\ IsGreeting(h) /\ h.cliques = k /\ h.ske = s /\ h.next = to
    /\ h.recvOwn = FALSE /\ h.quit = FALSE /\ h.fin = 0 /\ h.err = FALSE

(* An upflow that is not for c.                                            *)
LEMMA RecvOthersUpflow ==
    ASSUME NEW g, NEW to, HasNoResult(g, to), NEW pkt, pkt.members = to,
           MessageVerifies(g.ske, pkt), NEW c \in to, NEW fresh, IsUpflow(pkt),
           c # Head(pkt.route), NEW h, h = Recv(g, c, pkt, fresh)
    PROVE  HasNoResult(h, to) /\ h.cliques = g.cliques /\ h.ske = g.ske /\ h.next = to
  <1>0. PICK n : n = Started(g, pkt)
    OBVIOUS
  <1>1. /\ IsGreeting(n) /\ n.next = to /\ n.cliques = g.cliques /\ n.ske = g.ske
        /\ n.recvOwn = g.recvOwn /\ n.quit = g.quit /\ n.fin = 0 /\ n.err = FALSE
        /\ Recv(g, c, pkt, fresh) = ProcessMessage(n, c, pkt, fresh)
    BY <1>0, RecvFacts DEF TakesPart, HasNoResult
  <1>2. h = n
    <2>1. CASE pkt.src = c
      <3>1. PICK o : o = OwnMessage(n, pkt)
        OBVIOUS
      <3>2. h = MaybeFulfill(o)
        BY <1>1, <2>1, <3>1 DEF ProcessMessage, TakesPart, HasNoResult
      <3>3. o = n
        BY <1>1, <3>1 DEF OwnMessage, IsGreeting, HasNoResult
      <3>4. n.recvOwn = FALSE
        BY <1>1 DEF HasNoResult
      <3> QED
        BY <3>2, <3>3, <3>4, NotFulfilled
    <2>2. CASE pkt.src # c
      BY <1>1, <2>2 DEF ProcessMessage, TakesPart, HasNoResult
    <2> QED
      BY <2>1, <2>2
  <1> QED
    BY <1>1, <1>2 DEF TakesPart, HasNoResult

(* An upflow for c.                                                        *)
LEMMA RecvUpflow ==
    ASSUME NEW g, NEW to, HasNoResult(g, to), NEW pkt, pkt.members = to,
           MessageVerifies(g.ske, pkt), NEW c \in to, NEW fresh, IsUpflow(pkt),
           c = Head(pkt.route), pkt.src # c, NEW h, h = Recv(g, c, pkt, fresh)
    PROVE  HasAdded(h, to, CliquesUpflow(g.cliques, c, pkt, fresh),
                    SkeUpflow(g.ske, c, pkt, fresh))
  <1>0. PICK n : n = Started(g, pkt)
    OBVIOUS
  <1>1. /\ IsGreeting(n) /\ n.next = to /\ n.cliques = g.cliques /\ n.ske = g.ske
        /\ n.recvOwn = g.recvOwn /\ n.quit = g.quit /\ n.fin = 0 /\ n.err = FALSE
        /\ Recv(g, c, pkt, fresh) = ProcessMessage(n, c, pkt, fresh)
    BY <1>0, RecvFacts DEF TakesPart, HasNoResult
  <1>2. PICK k, s, u : /\ k = CliquesUpflow(g.cliques, c, pkt, fresh)
                       /\ s = SkeUpflow(g.ske, c, pkt, fresh)
                       /\ u = [n EXCEPT !.cliques = k, !.ske = s]
    OBVIOUS
  <1>3. h = MaybeFulfill(u)
    BY <1>1, <1>2 DEF ProcessMessage, TakesPart, HasNoResult, Upflow
  <1>4. IsGreeting(u)
    BY <1>1, <1>2 DEF IsGreeting
  <1>5. u.cliques = k /\ u.ske = s /\ u.next = to /\ u.recvOwn = FALSE
    BY <1>1, <1>2 DEF IsGreeting, HasNoResult
  <1>6. u.quit = FALSE /\ u.fin = 0 /\ u.err = FALSE
    BY <1>1, <1>2 DEF IsGreeting, TakesPart, HasNoResult
  <1> QED
    BY <1>2, <1>3, <1>4, <1>5, <1>6, NotFulfilled DEF HasAdded

(* A packet that goes down: the own one, or another member's.              *)
LEMMA RecvOwn ==
    ASSUME NEW g, NEW to, TakesPart(g, to), g.ske.members = to, NEW pkt, pkt.members = to,
           MessageVerifies(g.ske, pkt), NEW c \in to, NEW fresh, ~ IsUpflow(pkt),
           pkt.src = c, NEW h, h = Recv(g, c, pkt, fresh)
    PROVE  KnowsResult(h, to, g.cliques, g.ske, TRUE)
  <1>0. PICK n : n = Started(g, pkt)
    OBVIOUS
  <1>1. /\ IsGreeting(n) /\ n.next = to /\ n.cliques = g.cliques /\ n.ske = g.ske
        /\ n.recvOwn = g.recvOwn /\ n.quit = g.quit /\ n.fin = 0 /\ n.err = FALSE
        /\ Recv(g, c, pkt, fresh) = ProcessMessage(n, c, pkt, fresh)
    BY <1>0, RecvFacts DEF TakesPart
  <1>2. PICK o : o = [n EXCEPT !.recvOwn = TRUE]
    OBVIOUS
  <1>3. h = MaybeFulfill(o)
    BY <1>1, <1>2 DEF ProcessMessage, TakesPart, OwnMessage
  <1>4. IsGreeting(o)
    BY <1>1, <1>2 DEF IsGreeting
  <1>5. o.cliques = g.cliques /\ o.ske = g.ske /\ o.next = to /\ o.recvOwn = TRUE
    BY <1>1, <1>2 DEF IsGreeting
  <1>6. o.quit = FALSE /\ o.fin = 0 /\ o.err = FALSE
    BY <1>1, <1>2 DEF IsGreeting, TakesPart
  <1>7. o.next = o.ske.members /\ o.recvOwn \in BOOLEAN
    BY <1>5
  <1>8. /\ IsGreeting(h) /\ h.cliques = o.cliques /\ h.ske = o.ske /\ h.next = o.next
        /\ h.recvOwn = o.recvOwn /\ h.quit = o.quit /\ h.err = FALSE
        /\ h.fin = IF o.recvOwn /\ IsSessionAcknowledged(o.ske) THEN 1 ELSE 0
    BY <1>3, <1>4, <1>6, <1>7, MaybeFulfillFacts
  <1>9. h.fin = IF TRUE /\ IsSessionAcknowledged(g.ske) THEN 1 ELSE 0
    BY <1>5, <1>8
  <1> QED
    BY <1>5, <1>6, <1>8, <1>9 DEF KnowsResult

(* A downflow of another member, whose session signature verifies.         *)
LEMMA RecvDownflow ==
    ASSUME NEW g, NEW to, TakesPart(g, to), g.recvOwn \in BOOLEAN, NEW pkt, pkt.members = to,
           MessageVerifies(g.ske, pkt), NEW c \in to, NEW fresh, ~ IsUpflow(pkt), pkt.src # c,
           DownflowVerifies(g.ske, c, pkt),
           NEW k, k = IF pkt.isGKA THEN CliquesDownflow(g.cliques, c, pkt) ELSE g.cliques,
           NEW s, s = SkeDownflow(g.ske, c, pkt), s.members = to,
           NEW h, h = Recv(g, c, pkt, fresh)
    PROVE  KnowsResult(h, to, k, s, g.recvOwn)
  <1>0. PICK n : n = Started(g, pkt)
    OBVIOUS
  <1>1. /\ IsGreeting(n) /\ n.next = to /\ n.cliques = g.cliques /\ n.ske = g.ske
        /\ n.recvOwn = g.recvOwn /\ n.quit = g.quit /\ n.fin = 0 /\ n.err = FALSE
        /\ Recv(g, c, pkt, fresh) = ProcessMessage(n, c, pkt, fresh)
    BY <1>0, RecvFacts DEF TakesPart
  <1>2. PICK u : u = [n EXCEPT !.cliques = k, !.ske = s, !.err = FALSE]
    OBVIOUS
  <1>3. Downflow(n, c, pkt) = u
    BY <1>1, <1>2 DEF Downflow
  <1>4. h = MaybeFulfill(u)
    BY <1>1, <1>3 DEF ProcessMessage, TakesPart
  <1>5. IsGreeting(u)
    BY <1>1, <1>2 DEF IsGreeting
  <1>6. u.cliques = k /\ u.ske = s /\ u.next = to /\ u.recvOwn = g.recvOwn
    BY <1>1, <1>2 DEF IsGreeting
  <1>7. u.quit = FALSE /\ u.fin = 0 /\ u.err = FALSE
    BY <1>1, <1>2 DEF IsGreeting, TakesPart
  <1> QED
    BY <1>4, <1>5, <1>6, <1>7, MaybeFulfillFacts DEF KnowsResult

(* A member that the operation excludes.                                   *)
IsLeftOut(g) == IsGreeting(g) /\ g.fin = 0 /\ g.err = FALSE

(* It processes nothing.                                                   *)
LEMMA RecvExcluded ==
    ASSUME NEW g, IsLeftOut(g), NEW pkt, MessageVerifies(g.ske, pkt),
           NEW c, c \notin pkt.members, NEW fresh, Cardinality(pkt.members) # 1,
           NEW h, h = Recv(g, c, pkt, fresh)
    PROVE  IsLeftOut(h) /\ h.ske = g.ske
  <1>0. IsGreeting(g) /\ g.fin = 0 /\ g.err = FALSE
    BY DEF IsLeftOut
  <1>1. PICK m : m = IF g.next = {} THEN pkt.members ELSE g.next
    OBVIOUS
  <1>2. PICK n : n = [g EXCEPT !.next = m]
    OBVIOUS
  <1>3. Started(g, pkt) = n
    BY <1>0, <1>1, <1>2 DEF Started, IsGreeting
  <1>4. IsGreeting(n)
    BY <1>0, <1>2 DEF IsGreeting
  <1>5. n.ske = g.ske /\ n.fin = 0 /\ n.err = FALSE
    BY <1>0, <1>2 DEF IsGreeting
  <1>6. h = ProcessMessage(n, c, pkt, fresh)
    BY <1>0, <1>3 DEF Recv
  <1>7. CASE n.quit
    BY <1>4, <1>5, <1>6, <1>7 DEF ProcessMessage, IsLeftOut
  <1>8. CASE ~ n.quit
    <2>1. h = [n EXCEPT !.quit = TRUE, !.fin = 0]
      BY <1>5, <1>6, <1>8 DEF ProcessMessage, Quit
    <2>2. IsGreeting(h)
      BY <1>4, <2>1 DEF IsGreeting
    <2>3. h.ske = n.ske /\ h.fin = 0 /\ h.err = n.err
      BY <1>4, <2>1 DEF IsGreeting
    <2> QED
      BY <1>5, <2>2, <2>3 DEF IsLeftOut
  <1> QED
    BY <1>7, <1>8

-----------------------------------------------------------------------------
(* What holds at a stage still does when more values have been drawn.      *)

(* A member's keys fit one another still.                                  *)
LEMMA KeyedGrows ==
    ASSUME NEW dr, NEW dr2, Grows(dr, dr2), NEW k, NEW s, NEW c, Keyed(k, s, c, dr),
           s.members \subseteq Client
    PROVE  Keyed(k, s, c, dr2)
  <1>1. \A d \in s.members : Drawn(dr, d) \subseteq Drawn(dr2, d)
    BY DrawnGrows
  <1>2. c \in s.members
    BY DEF Keyed
  <1> QED
    BY <1>1, <1>2 DEF Keyed

(* A member waits still.                                                   *)
LEMMA WaitsGrows ==
    ASSUME NEW dr, NEW dr2, Grows(dr, dr2), NEW g, NEW to, NEW c \in Client, Waits(g, c, to, dr)
    PROVE  Waits(g, c, to, dr2)
  BY DrawnGrows DEF Waits

(* A contribution stays one.                                               *)
LEMMA ContributedGrows ==
    ASSUME NEW dr, NEW dr2, Grows(dr, dr2), NEW s, NEW c \in Client, NEW nonces, NEW pubKeys,
           Contributed(nonces, pubKeys, s, c, dr)
    PROVE  Contributed(nonces, pubKeys, s, c, dr2)
  BY DrawnGrows DEF Contributed

(* A session id of drawn values stays one.                                 *)
LEMMA KnowsOldGrows ==
    ASSUME NEW dr, NEW dr2, Grows(dr, dr2), NEW s, KnowsOld(s, dr)
    PROVE  KnowsOld(s, dr2)
  BY DrawnGrows DEF KnowsOld

(* The first stage.                                                        *)
LEMMA CollectedGrows ==
    ASSUME NEW dr, NEW dr2, Grows(dr, dr2), NEW to, to \subseteq Client, NEW gs, NEW route,
           NEW intKeys, NEW nonces, NEW pubKeys,
           Collected(gs, route, intKeys, nonces, pubKeys, to, dr)
    PROVE  Collected(gs, route, intKeys, nonces, pubKeys, to, dr2)
  <1>1. \A d \in to : Waits(gs[d], d, to, dr2) /\ KnowsOld(gs[d].ske, dr2)
    BY WaitsGrows, KnowsOldGrows DEF Collected
  <1>2. \A d \in to \ Range(route) : Contributed(nonces, pubKeys, gs[d].ske, d, dr2)
    BY ContributedGrows DEF Collected
  <1> QED
    BY <1>1, <1>2 DEF Collected

(* The second stage.                                                       *)
LEMMA ComplementedGrows ==
    ASSUME NEW dr, NEW dr2, Grows(dr, dr2), NEW to, to \subseteq Client, NEW gs, NEW src,
           NEW intKeys, NEW nonces, NEW pubKeys,
           Complemented(gs, src, intKeys, nonces, pubKeys, to, dr)
    PROVE  Complemented(gs, src, intKeys, nonces, pubKeys, to, dr2)
  <1>1. \A d \in to : Waits(gs[d], d, to, dr2)
    BY WaitsGrows DEF Complemented
  <1>2. \A d \in to : Contributed(nonces, pubKeys, gs[d].ske, d, dr2)
    BY ContributedGrows DEF Complemented
  <1>3. Keyed(gs[src].cliques, gs[src].ske, src, dr2)
    BY KeyedGrows DEF Complemented
  <1> QED
    BY <1>1, <1>2, <1>3 DEF Complemented

(* Either of them.                                                         *)
LEMMA StageGrows ==
    ASSUME NEW dr, NEW dr2, Grows(dr, dr2), NEW to, to \subseteq Client, NEW gs, NEW pkt,
           Stage(gs, pkt, to, dr)
    PROVE  Stage(gs, pkt, to, dr2)
  BY CollectedGrows, ComplementedGrows DEF Stage, Upward, Downward

-----------------------------------------------------------------------------
(* A contribution to the keys of Collected: hs are the greetings after the *)
(* head of the route, c, has added its own, with the random value p.       *)

AddsTo(gs, hs, route, intKeys, nonces, pubKeys, to, c, p) ==
    \E km, sm :
        /\ km.route = route /\ km.intKeys = intKeys
        /\ sm.route = route /\ sm.members = to /\ sm.nonces = nonces /\ sm.pubKeys = pubKeys
        /\ hs[c].cliques = CliquesUpflow(gs[c].cliques, c, km, p)
        /\ hs[c].ske = SkeUpflow(gs[c].ske, c, sm, p)
        /\ IsGreeting(hs[c]) /\ hs[c].recvOwn = FALSE /\ hs[c].next \in {{}, to}
        /\ hs[c].quit = FALSE /\ hs[c].fin = 0 /\ hs[c].err = FALSE
        /\ \A d \in to \ {c} :
              /\ TakesPart(hs[d], to) /\ hs[d].recvOwn = FALSE
              /\ hs[d].cliques = gs[d].cliques /\ hs[d].ske = gs[d].ske

KeysAdded(hs, route, intKeys, to, c, p) ==
    LET k == hs[c].cliques
        ready == to \ Range(route)
    IN  /\ IsCliques(k) /\ k.privKeys = {p}
        /\ k.intKeys = [d \in DOMAIN k.intKeys |-> k.intKeys[d]]
        /\ Len(route) = 1 => DOMAIN k.intKeys = ready \cup {c}
        /\ Len(route) # 1 => DOMAIN k.intKeys = ready \cup {c, route[2]}
        /\ \A d \in DOMAIN k.intKeys : k.intKeys[d] \in Key
        /\ Len(route) # 1 => k.intKeys[route[2]] = ScalarMult(p, intKeys[c])
        /\ Len(route) = 1 => k.groupKey = DeriveGroupKey(ScalarMult(p, intKeys[c]))
        /\ \A d \in ready \cup {c} :
              ComputeKeyList(hs[d].cliques.privKeys, k.intKeys[d]) = ScalarMult(p, intKeys[c])

(* The keys fit after one more contribution.                               *)
LEMMA AddedKeys ==
    ASSUME NEW gs, NEW hs, NEW route, NEW intKeys, NEW nonces, NEW pubKeys, NEW to, NEW dr,
           Collected(gs, route, intKeys, nonces, pubKeys, to, dr),
           NEW c, c = Head(route), NEW p \in PrivKey,
           AddsTo(gs, hs, route, intKeys, nonces, pubKeys, to, c, p)
    PROVE  KeysAdded(hs, route, intKeys, to, c, p)
  <1> DEFINE ik == hs[c].cliques.intKeys
  <1>1. PICK km, k : /\ km.route = route /\ km.intKeys = intKeys /\ k = hs[c].cliques
                     /\ k = CliquesUpflow(gs[c].cliques, c, km, p)
    BY DEF AddsTo
  <1>2. /\ route \in Seq(Client) /\ route # <<>> /\ IsInjective(route) /\ Range(route) \subseteq to
        /\ DOMAIN intKeys = (to \ Range(route)) \cup {c}
        /\ \A d \in DOMAIN intKeys : intKeys[d] \in Key
    BY DEF Collected
  <1>3. /\ c \in Range(route)
        /\ Len(route) # 1 => Tail(route) # <<>>
        /\ Tail(route) # <<>> => route[2] \in Range(Tail(route)) /\ route[2] # c
        /\ Range(Tail(route)) \subseteq Range(route)
    BY <1>2, RouteTail
  <1>4. PICK m : m = gs[c].cliques
    OBVIOUS
  <1>c. m.privKeys = {} /\ IsCliques(m)
    <2>1. gs[c].cliques.privKeys = {} /\ Waits(gs[c], c, to, dr)
      BY <1>2, <1>3 DEF Collected
    <2> QED
      BY <1>4, <2>1 DEF Waits, TakesPart
  <1>a. c \in DOMAIN km.intKeys /\ km.intKeys[c] \in Key
    BY <1>1, <1>2
  <1>d. k = CliquesUpflow(m, c, km, p)
    BY <1>1, <1>4
  <1>b. HasContributed(k, c, p, route, intKeys)
    <2>1. HasContributed(k, c, p, km.route, km.intKeys)
      BY <1>a, <1>c, <1>d, CliquesUpflowFacts
    <2> QED
      BY <1>1, <2>1
  <1>5. /\ IsCliques(k) /\ k.privKeys = {p} /\ k.intKeys = [d \in DOMAIN k.intKeys |-> k.intKeys[d]]
        /\ \A d \in DOMAIN intKeys :
                 Len(route) = 1 \/ d # route[2] =>
                    k.intKeys[d] = IF d = c THEN intKeys[d] ELSE ScalarMult(p, intKeys[d])
        /\ Len(route) = 1 =>
                 /\ DOMAIN k.intKeys = DOMAIN intKeys
                 /\ k.groupKey = DeriveGroupKey(ScalarMult(p, intKeys[c]))
        /\ Len(route) # 1 =>
                 /\ DOMAIN k.intKeys = DOMAIN intKeys \cup {route[2]}
                 /\ k.intKeys[route[2]] = ScalarMult(p, intKeys[c])
    BY <1>b DEF HasContributed
  <1>6. \A d \in DOMAIN intKeys :
           k.intKeys[d] = IF d = c THEN intKeys[d] ELSE ScalarMult(p, intKeys[d])
    BY <1>2, <1>3, <1>5
  <1>7. /\ Len(route) = 1 => DOMAIN ik = (to \ Range(route)) \cup {c}
        /\ Len(route) # 1 => DOMAIN ik = (to \ Range(route)) \cup {c, route[2]}
    BY <1>1, <1>2, <1>5
  <1>8. \A d \in DOMAIN ik : ik[d] \in Key
    <2> SUFFICES ASSUME NEW d \in DOMAIN ik PROVE ik[d] \in Key
      OBVIOUS
    <2>1. CASE d \in DOMAIN intKeys
      <3>1. intKeys[d] \in Key
        BY <1>2, <2>1
      <3>2. ScalarMult(p, intKeys[d]) \in Key
        BY <3>1, ScalarMultType
      <3> QED
        BY <1>1, <1>6, <2>1, <3>1, <3>2
    <2>2. CASE d \notin DOMAIN intKeys
      <3>1. Len(route) # 1 /\ d = route[2]
        BY <1>1, <1>5, <2>2
      <3>2. intKeys[c] \in Key
        BY <1>2
      <3>3. ScalarMult(p, intKeys[c]) \in Key
        BY <3>2, ScalarMultType
      <3> QED
        BY <1>1, <1>5, <3>1, <3>3
    <2> QED
      BY <2>1, <2>2
  <1>9. ASSUME NEW d \in (to \ Range(route)) \cup {c}
        PROVE  ComputeKeyList(hs[d].cliques.privKeys, ik[d]) = ScalarMult(p, intKeys[c])
    <2>1. d \in DOMAIN intKeys /\ intKeys[d] \in Key
      BY <1>2
    <2>2. CASE d = c
      <3>1. ik[c] = intKeys[c] /\ hs[c].cliques.privKeys = {} \cup {p}
        BY <1>1, <1>5, <1>6, <2>1, <2>2
      <3> QED
        BY <2>1, <2>2, <3>1, MultOwn, MultNone
    <2>3. CASE d # c
      <3>1. d \in to \ {c} /\ d \in to \ Range(route)
        BY <2>3
      <3>2. hs[d].cliques = gs[d].cliques
        BY <3>1 DEF AddsTo
      <3>3. ik[d] = ScalarMult(p, intKeys[d])
        BY <1>1, <1>6, <2>1, <2>3
      <3>4. ComputeKeyList(gs[d].cliques.privKeys, intKeys[d]) = intKeys[c]
        BY <3>1 DEF Collected
      <3> QED
        BY <2>1, <3>2, <3>3, <3>4, MultCommutes
    <2> QED
      BY <2>2, <2>3
  <1> QED
    BY <1>1, <1>5, <1>7, <1>8, <1>9 DEF KeysAdded

ValuesAdded(gs, hs, route, to, c, p, dr2) ==
    LET s == hs[c].ske
    IN  /\ IsSke(s) /\ s.members = to /\ s.nonce = p /\ s.privKey = p
        /\ DOMAIN s.nonces = (to \ Range(route)) \cup {c} /\ DOMAIN s.pubKeys = DOMAIN s.nonces
        /\ s.nonces[c] = p
        /\ \A d \in (to \ Range(route)) \cup {c} :
              /\ Contributed(s.nonces, s.pubKeys, hs[d].ske, d, dr2)
              /\ KnowsKeys(s.pubKeys, hs[d].ske, to)
        /\ Len(route) = 1 => s.sid = ComputeSid(s.nonces) /\ s.authd = {c}
        /\ Len(route) # 1 => s.sid = gs[c].ske.sid

(* So do nonces and ephemeral keys.                                        *)
LEMMA AddedValues ==
    ASSUME NEW gs, NEW hs, NEW route, NEW intKeys, NEW nonces, NEW pubKeys, NEW to,
           to \subseteq Client, NEW dr, NEW dr2, Grows(dr, dr2),
           Collected(gs, route, intKeys, nonces, pubKeys, to, dr),
           NEW c, c = Head(route), NEW p, p \in Drawn(dr2, c), p # NoValue,
           AddsTo(gs, hs, route, intKeys, nonces, pubKeys, to, c, p)
    PROVE  ValuesAdded(gs, hs, route, to, c, p, dr2)
  <1> DEFINE s == hs[c].ske
  <1>1. /\ route \in Seq(Client) /\ route # <<>> /\ IsInjective(route) /\ Range(route) \subseteq to
        /\ DOMAIN nonces = to \ Range(route) /\ DOMAIN pubKeys = to \ Range(route)
    BY DEF Collected
  <1>2. c \in Range(route) /\ c \in to /\ c \in Client
    BY <1>1, RouteTail
  <1>3. PICK sm : /\ sm.route = route /\ sm.members = to
                  /\ sm.nonces = nonces /\ sm.pubKeys = pubKeys
                  /\ s = SkeUpflow(gs[c].ske, c, sm, p)
    BY DEF AddsTo
  <1>4. gs[c].ske.privKey = NoValue /\ IsSke(gs[c].ske)
    <2>1. gs[c].ske.privKey = NoValue /\ Waits(gs[c], c, to, dr)
      BY <1>1, <1>2 DEF Collected
    <2> QED
      BY <2>1 DEF Waits, TakesPart
  <1>5. /\ IsSke(s) /\ s.members = to /\ s.nonce = p /\ s.privKey = p
        /\ s.nonces = Extend(nonces, c, p) /\ s.pubKeys = Extend(pubKeys, c, ToPublicKey(p))
        /\ Len(route) = 1 => s.sid = ComputeSid(s.nonces) /\ s.authd = {c}
        /\ Len(route) # 1 => s.sid = gs[c].ske.sid
    BY <1>3, <1>4, SkeUpflowFacts
  <1>6. /\ DOMAIN s.nonces = (to \ Range(route)) \cup {c} /\ s.nonces[c] = p
        /\ \A d \in to \ Range(route) : s.nonces[d] = nonces[d]
    BY <1>1, <1>2, <1>5 DEF Extend
  <1>7. /\ DOMAIN s.pubKeys = (to \ Range(route)) \cup {c} /\ s.pubKeys[c] = ToPublicKey(p)
        /\ \A d \in to \ Range(route) : s.pubKeys[d] = pubKeys[d]
    BY <1>1, <1>2, <1>5 DEF Extend
  <1>8. ASSUME NEW d \in to \ Range(route)
        PROVE  /\ Contributed(s.nonces, s.pubKeys, hs[d].ske, d, dr2)
               /\ KnowsKeys(s.pubKeys, hs[d].ske, to)
    <2>1. hs[d].ske = gs[d].ske
      BY <1>2 DEF AddsTo
    <2>2. /\ Contributed(nonces, pubKeys, gs[d].ske, d, dr)
          /\ KnowsKeys(pubKeys, gs[d].ske, to)
      BY DEF Collected
    <2>3. Contributed(nonces, pubKeys, gs[d].ske, d, dr2)
      BY <2>2, ContributedGrows
    <2>4. Contributed(s.nonces, s.pubKeys, hs[d].ske, d, dr2)
      BY <1>6, <1>7, <2>1, <2>3 DEF Contributed
    <2>5. KnowsKeys(s.pubKeys, hs[d].ske, to)
      BY <1>1, <1>7, <2>1, <2>2 DEF KnowsKeys
    <2> QED
      BY <2>4, <2>5
  <1>9. Contributed(s.nonces, s.pubKeys, s, c, dr2) /\ KnowsKeys(s.pubKeys, s, to)
    BY <1>5, <1>6, <1>7 DEF Contributed, KnowsKeys
  <1> QED
    BY <1>5, <1>6, <1>7, <1>8, <1>9 DEF ValuesAdded

(* When the route goes on, the contributions of one more are collected.    *)
LEMMA CollectedByOneMore ==
    ASSUME NEW gs, NEW hs, NEW route, NEW intKeys, NEW nonces, NEW pubKeys, NEW to,
           to \subseteq Client, NEW dr, NEW dr2, Grows(dr, dr2),
           Collected(gs, route, intKeys, nonces, pubKeys, to, dr), Len(route) # 1,
           NEW c, c = Head(route), NEW p \in PrivKey, p \in Drawn(dr2, c), p # NoValue,
           AddsTo(gs, hs, route, intKeys, nonces, pubKeys, to, c, p)
    PROVE  Collected(hs, Tail(route), hs[c].cliques.intKeys, hs[c].ske.nonces, hs[c].ske.pubKeys,
                     to, dr2)
  <1> DEFINE ready == to \ Range(route)
             k == hs[c].cliques
             s == hs[c].ske
  <1>1. /\ route \in Seq(Client) /\ route # <<>> /\ IsInjective(route) /\ Range(route) \subseteq to
        /\ DOMAIN nonces = ready /\ DOMAIN pubKeys = ready
    BY DEF Collected
  <1>2. /\ c \in Range(route) /\ c \in to /\ c \in Client
        /\ Tail(route) # <<>> /\ Head(Tail(route)) = route[2]
        /\ Tail(route) \in Seq(Client) /\ IsInjective(Tail(route))
        /\ Range(Tail(route)) = Range(route) \ {c}
    BY <1>1, RouteTail
  <1>3. to \ Range(Tail(route)) = ready \cup {c}
    BY <1>1, <1>2
  <1>4. /\ IsCliques(k) /\ k.privKeys = {p} /\ DOMAIN k.intKeys = ready \cup {c, route[2]}
        /\ \A d \in DOMAIN k.intKeys : k.intKeys[d] \in Key
        /\ k.intKeys[route[2]] = ScalarMult(p, intKeys[c])
        /\ \A d \in ready \cup {c} :
              ComputeKeyList(hs[d].cliques.privKeys, k.intKeys[d]) = ScalarMult(p, intKeys[c])
    <2>1. KeysAdded(hs, route, intKeys, to, c, p)
      BY AddedKeys
    <2> QED
      BY <2>1 DEF KeysAdded
  <1>5. /\ IsSke(s) /\ DOMAIN s.nonces = ready \cup {c} /\ DOMAIN s.pubKeys = DOMAIN s.nonces
        /\ \A d \in ready \cup {c} : /\ Contributed(s.nonces, s.pubKeys, hs[d].ske, d, dr2)
                                     /\ KnowsKeys(s.pubKeys, hs[d].ske, to)
        /\ s.sid = gs[c].ske.sid
    <2>1. ValuesAdded(gs, hs, route, to, c, p, dr2)
      BY AddedValues
    <2> QED
      BY <2>1 DEF ValuesAdded
  <1>6. \A d \in to : Waits(gs[d], d, to, dr2) /\ KnowsOld(gs[d].ske, dr2)
    BY WaitsGrows, KnowsOldGrows DEF Collected
  <1>7. \A d \in to \ {c} :
           /\ TakesPart(hs[d], to) /\ hs[d].recvOwn = FALSE
           /\ hs[d].cliques = gs[d].cliques /\ hs[d].ske = gs[d].ske
    BY DEF AddsTo
  <1>8. /\ IsGreeting(hs[c]) /\ hs[c].recvOwn = FALSE /\ hs[c].next \in {{}, to}
        /\ hs[c].quit = FALSE /\ hs[c].fin = 0 /\ hs[c].err = FALSE
    BY DEF AddsTo
  <1>9. ASSUME NEW d \in to
        PROVE  Waits(hs[d], d, to, dr2) /\ KnowsOld(hs[d].ske, dr2)
    <2>1. CASE d = c
      <3>1. Waits(hs[c], c, to, dr2)
        BY <1>4, <1>5, <1>8 DEF Waits, TakesPart
      <3>2. KnowsOld(s, dr2)
        BY <1>2, <1>5, <1>6 DEF KnowsOld
      <3> QED
        BY <2>1, <3>1, <3>2
    <2>2. CASE d # c
      <3>1. /\ TakesPart(hs[d], to) /\ hs[d].recvOwn = FALSE
            /\ hs[d].cliques = gs[d].cliques /\ hs[d].ske = gs[d].ske
        BY <1>7, <2>2
      <3>2. Waits(gs[d], d, to, dr2) /\ KnowsOld(gs[d].ske, dr2)
        BY <1>6
      <3> QED
        BY <3>1, <3>2 DEF Waits
    <2> QED
      BY <2>1, <2>2
  <1>10. ASSUME NEW d \in Range(Tail(route))
         PROVE  hs[d].cliques.privKeys = {} /\ hs[d].ske.privKey = NoValue
    <2>1. d \in to \ {c} /\ d \in Range(route)
      BY <1>1, <1>2
    <2>2. gs[d].cliques.privKeys = {} /\ gs[d].ske.privKey = NoValue
      BY <2>1 DEF Collected
    <2> QED
      BY <1>7, <2>1, <2>2
  <1>11. /\ Range(Tail(route)) \subseteq to
         /\ DOMAIN k.intKeys = (to \ Range(Tail(route))) \cup {Head(Tail(route))}
    BY <1>1, <1>2, <1>3, <1>4
  <1>12. ASSUME NEW d \in to \ Range(Tail(route))
         PROVE  /\ ComputeKeyList(hs[d].cliques.privKeys, k.intKeys[d]) = k.intKeys[Head(Tail(route))]
                /\ Contributed(s.nonces, s.pubKeys, hs[d].ske, d, dr2)
                /\ KnowsKeys(s.pubKeys, hs[d].ske, to)
    BY <1>2, <1>3, <1>4, <1>5
  <1> HIDE DEF k, s
  <1>13. Collected(hs, Tail(route), k.intKeys, s.nonces, s.pubKeys, to, dr2)
    BY <1>2, <1>3, <1>4, <1>5, <1>9, <1>10, <1>11, <1>12 DEF Collected
  <1> QED
    BY <1>13 DEF k, s

(* When it ends, the last one has the result of all contributions.         *)
LEMMA CollectedByAll ==
    ASSUME NEW gs, NEW hs, NEW route, NEW intKeys, NEW nonces, NEW pubKeys, NEW to,
           to \subseteq Client, NEW dr, NEW dr2, Grows(dr, dr2),
           Collected(gs, route, intKeys, nonces, pubKeys, to, dr), Len(route) = 1,
           NEW c, c = Head(route), NEW p \in PrivKey, p \in Drawn(dr2, c), p # NoValue,
           p \notin Drawn(dr, c),
           AddsTo(gs, hs, route, intKeys, nonces, pubKeys, to, c, p)
    PROVE  Complemented(hs, c, hs[c].cliques.intKeys, hs[c].ske.nonces, hs[c].ske.pubKeys, to, dr2)
  <1> DEFINE ready == to \ Range(route)
             k == hs[c].cliques
             s == hs[c].ske
  <1>1. /\ route \in Seq(Client) /\ route # <<>> /\ IsInjective(route) /\ Range(route) \subseteq to
        /\ DOMAIN nonces = ready /\ DOMAIN pubKeys = ready
    BY DEF Collected
  <1>2. /\ c \in Range(route) /\ c \in to /\ c \in Client
        /\ Tail(route) = <<>> /\ Range(Tail(route)) = Range(route) \ {c}
    BY <1>1, RouteTail
  <1>3. to = ready \cup {c}
    <2>1. Range(Tail(route)) = {}
      BY <1>2 DEF Range
    <2> QED
      BY <1>1, <1>2, <2>1
  <1>4. /\ IsCliques(k) /\ k.privKeys = {p} /\ k.intKeys = [d \in to |-> k.intKeys[d]]
        /\ \A d \in to : k.intKeys[d] \in Key
        /\ k.groupKey = DeriveGroupKey(ScalarMult(p, intKeys[c]))
        /\ \A d \in to :
              ComputeKeyList(hs[d].cliques.privKeys, k.intKeys[d]) = ScalarMult(p, intKeys[c])
    <2>1. KeysAdded(hs, route, intKeys, to, c, p)
      BY AddedKeys
    <2> QED
      BY <1>3, <2>1 DEF KeysAdded
  <1>5. /\ IsSke(s) /\ s.members = to /\ s.nonce = p /\ s.privKey = p
        /\ DOMAIN s.nonces = to /\ DOMAIN s.pubKeys = to /\ s.nonces[c] = p
        /\ \A d \in to : /\ Contributed(s.nonces, s.pubKeys, hs[d].ske, d, dr2)
                         /\ KnowsKeys(s.pubKeys, hs[d].ske, to)
        /\ s.sid = ComputeSid(s.nonces) /\ s.authd = {c}
    <2>1. ValuesAdded(gs, hs, route, to, c, p, dr2)
      BY AddedValues
    <2> QED
      BY <1>3, <2>1 DEF ValuesAdded
  <1>6. \A d \in to : Waits(gs[d], d, to, dr2) /\ KnowsOld(gs[d].ske, dr)
    BY WaitsGrows DEF Collected
  <1>7. \A d \in to \ {c} :
           /\ TakesPart(hs[d], to) /\ hs[d].recvOwn = FALSE
           /\ hs[d].cliques = gs[d].cliques /\ hs[d].ske = gs[d].ske
    BY DEF AddsTo
  <1>8. /\ IsGreeting(hs[c]) /\ hs[c].recvOwn = FALSE /\ hs[c].next \in {{}, to}
        /\ hs[c].quit = FALSE /\ hs[c].fin = 0 /\ hs[c].err = FALSE
    BY DEF AddsTo
  <1>9. ASSUME NEW d \in to
        PROVE  Waits(hs[d], d, to, dr2)
    <2>1. CASE d = c
      BY <1>4, <1>5, <1>8, <2>1 DEF Waits, TakesPart
    <2>2. CASE d # c
      <3>1. /\ TakesPart(hs[d], to) /\ hs[d].recvOwn = FALSE /\ hs[d].cliques = gs[d].cliques
        BY <1>7, <2>2
      <3>2. Waits(gs[d], d, to, dr2)
        BY <1>6
      <3> QED
        BY <3>1, <3>2 DEF Waits
    <2> QED
      BY <2>1, <2>2
  <1>10. ASSUME NEW d \in to, d # c
         PROVE  hs[d].ske.sid # ComputeSid(s.nonces)
    <2>1. hs[d].ske = gs[d].ske /\ KnowsOld(gs[d].ske, dr)
      BY <1>6, <1>7, <1>10
    <2>2. ComputeSid(s.nonces)[2] = s.nonces /\ ComputeSid(s.nonces) # NoValue
      BY DEF ComputeSid, NoValue
    <2> QED
      BY <1>2, <1>5, <2>1, <2>2 DEF KnowsOld
  <1>11. Keyed(k, s, c, dr2)
    <2>1. k.intKeys \in [to -> Key]
      BY <1>4
    <2>2. k.groupKey = DeriveGroupKey(Cardinal(k, c))
      BY <1>2, <1>4 DEF Cardinal
    <2>3. \A d \in to : s.nonces[d] \in Drawn(dr2, d)
      BY <1>5 DEF Contributed
    <2>4. s.pubKeys[c] = ToPublicKey(s.privKey)
      BY <1>2, <1>5 DEF Contributed
    <2> HIDE DEF k, s
    <2> QED
      BY <1>2, <1>4, <1>5, <2>1, <2>2, <2>3, <2>4 DEF Keyed
  <1> HIDE DEF k, s
  <1>12. Complemented(hs, c, k.intKeys, s.nonces, s.pubKeys, to, dr2)
    BY <1>2, <1>4, <1>5, <1>9, <1>10, <1>11 DEF Complemented, k, s
  <1> QED
    BY <1>12 DEF k, s

-----------------------------------------------------------------------------
(* Packets verify with what the members know of the sender.                *)

(* An upflow is signed by its sender.                                      *)
LEMMA UpwardVerifies ==
    ASSUME NEW gs, NEW pkt, NEW to, NEW dr, Upward(gs, pkt, to, dr), NEW c \in to
    PROVE  MessageVerifies(gs[c].ske, pkt)
  <1>1. c \in to \ Range(pkt.route) => KnowsKeys(pkt.pubKeys, gs[c].ske, to)
    BY DEF Upward, Collected
  <1>2. c \in Range(pkt.route) => gs[c].ske.privKey = NoValue
    BY DEF Upward, Collected
  <1>3. pkt.src \in to /\ pkt.signedBy = pkt.pubKeys[pkt.src]
    BY DEF Upward
  <1> QED
    BY <1>1, <1>2, <1>3 DEF MessageVerifies, SigningKey, KnowsKeys

(* So is the broadcast.                                                    *)
LEMMA DownwardVerifies ==
    ASSUME NEW gs, NEW pkt, NEW to, NEW dr, Downward(gs, pkt, to, dr), NEW c \in to
    PROVE  MessageVerifies(gs[c].ske, pkt)
  <1>1. KnowsKeys(pkt.pubKeys, gs[c].ske, to)
    BY DEF Downward, Complemented
  <1>2. pkt.src \in to /\ pkt.signedBy = pkt.pubKeys[pkt.src]
    BY DEF Downward, Complemented
  <1> QED
    BY <1>1, <1>2 DEF MessageVerifies, SigningKey, KnowsKeys

(* So is a confirmation.                                                   *)
LEMMA ConfirmationVerifies ==
    ASSUME NEW gs, NEW packets, NEW to, NEW dr, Confirming(gs, packets, to, dr),
           NEW pkt \in packets, NEW c \in to
    PROVE  MessageVerifies(gs[c].ske, pkt)
  <1>1. pkt.src \in to /\ pkt.signedBy = ToPublicKey(gs[pkt.src].ske.privKey)
    BY DEF Confirming, Confirms
  <1>2. /\ gs[c].ske.pubKeys = gs[pkt.src].ske.pubKeys
        /\ DOMAIN gs[c].ske.pubKeys = to /\ gs[c].ske.privKey # NoValue
    BY <1>1 DEF Confirming, Settled, SameKeys, Keyed
  <1>3. gs[pkt.src].ske.pubKeys[pkt.src] = ToPublicKey(gs[pkt.src].ske.privKey)
    BY <1>1 DEF Confirming, Settled, Keyed
  <1> QED
    BY <1>1, <1>2, <1>3 DEF MessageVerifies, SigningKey

-----------------------------------------------------------------------------
(* Everybody takes in the result, and the confirmations of it: hs are the  *)
(* greetings after the packet.                                             *)

Receives(gs, hs, to, pkt) == \A c \in to : \E fresh : hs[c] = Recv(gs[c], c, pkt, fresh)

(* A session signature verifies with what the receiver then knows.         *)
LEMMA SessionSigVerifies ==
    ASSUME NEW s, NEW t, NEW src, NEW c, NEW msg, msg.src = src,
           NEW a, a = Adopt(s, c, msg), src \in DOMAIN a.nonces, src \in DOMAIN a.pubKeys,
           a.nonces[src] = t.nonce, a.pubKeys[src] = ToPublicKey(t.privKey), a.sid = t.sid,
           msg.signature = SessionSig(t, src)
    PROVE  DownflowVerifies(s, c, msg)
  BY DEF DownflowVerifies, VerifySessionSig, SessionSig

HasResult(g, h, k, pkt, to, c, dr) ==
    /\ KnowsResult(h, to, h.cliques, h.ske, FALSE)
    /\ Keyed(h.cliques, h.ske, c, dr) /\ h.ske.members = to
    /\ h.ske.authd = {c, pkt.src}
    /\ h.cliques.intKeys = pkt.intKeys /\ h.cliques.groupKey = k.groupKey
    /\ h.ske.nonces = pkt.nonces /\ h.ske.pubKeys = pkt.pubKeys
    /\ h.ske.privKey = g.ske.privKey

(* Another member takes over the result.                                   *)
LEMMA ResultReachesMember ==
    ASSUME NEW gs, NEW hs, NEW pkt, NEW to, NEW dr, Downward(gs, pkt, to, dr),
           Receives(gs, hs, to, pkt), NEW c \in to, c # pkt.src
    PROVE  HasResult(gs[c], hs[c], gs[pkt.src].cliques, pkt, to, c, dr)
  <1> DEFINE src == pkt.src
             t == gs[pkt.src].ske
  <1>1. PICK g, s, m : g = gs[c] /\ s = g.ske /\ m = g.cliques
    OBVIOUS
  <1>2. PICK r, k : r = SkeDownflow(s, c, pkt) /\ k = CliquesDownflow(m, c, pkt)
    OBVIOUS
  <1>3. PICK fresh : hs[c] = Recv(g, c, pkt, fresh)
    BY <1>1 DEF Receives
  <1>4. /\ TakesPart(g, to) /\ g.recvOwn = FALSE /\ m.privKeys \subseteq Drawn(dr, c)
        /\ IsSke(s) /\ IsCliques(m)
    <2>1. Waits(gs[c], c, to, dr)
      BY DEF Downward, Complemented
    <2> QED
      BY <1>1, <2>1 DEF Waits, TakesPart
  <1>5. /\ s.sid # ComputeSid(pkt.nonces)
        /\ Contributed(pkt.nonces, pkt.pubKeys, s, c, dr)
        /\ DeriveGroupKey(ComputeKeyList(m.privKeys, pkt.intKeys[c])) = gs[src].cliques.groupKey
    BY <1>1 DEF Downward, Complemented
  <1>6. pkt.members = to /\ pkt.isGKA = TRUE /\ pkt.route = <<>> /\ src \in to
        /\ pkt.signature = SessionSig(t, src)
    BY DEF Downward, Complemented
  <1>7. /\ Keyed(gs[src].cliques, t, src, dr) /\ gs[src].cliques.intKeys = pkt.intKeys
        /\ t.members = to /\ t.nonces = pkt.nonces /\ t.pubKeys = pkt.pubKeys
    BY DEF Downward, Complemented
  <1>8. /\ IsCliques(k) /\ k.privKeys = m.privKeys /\ k.intKeys = pkt.intKeys
        /\ k.groupKey = gs[src].cliques.groupKey
        /\ k.groupKey = DeriveGroupKey(ComputeKeyList(m.privKeys, pkt.intKeys[c]))
    BY <1>2, <1>4, <1>5, SetKeysFacts
  <1>9. /\ IsSke(r) /\ r.nonce = s.nonce /\ r.privKey = s.privKey /\ r.members = to
        /\ r.nonces = pkt.nonces /\ r.pubKeys = pkt.pubKeys
        /\ r.sid = ComputeSid(pkt.nonces) /\ r.authd = {c, src}
    BY <1>2, <1>4, <1>5, <1>6, SkeDownflowFacts
  <1>10. DownflowVerifies(s, c, pkt)
    <2>1. PICK a : a = Adopt(s, c, pkt)
      OBVIOUS
    <2>2. a.nonces = pkt.nonces /\ a.pubKeys = pkt.pubKeys /\ a.sid = ComputeSid(pkt.nonces)
      BY <1>4, <1>5, <2>1, AdoptFacts
    <2>3. /\ src \in DOMAIN t.nonces /\ src \in DOMAIN t.pubKeys
          /\ t.nonces[src] = t.nonce /\ t.pubKeys[src] = ToPublicKey(t.privKey)
          /\ t.sid = ComputeSid(t.nonces)
      BY <1>6, <1>7 DEF Keyed
    <2> QED
      BY <1>6, <1>7, <2>1, <2>2, <2>3, SessionSigVerifies
  <1>11. MessageVerifies(s, pkt)
    BY <1>1, DownwardVerifies
  <1>12. KnowsResult(hs[c], to, k, r, FALSE)
    <2>1. /\ k = IF pkt.isGKA THEN CliquesDownflow(g.cliques, c, pkt) ELSE g.cliques
          /\ r = SkeDownflow(g.ske, c, pkt) /\ r.members = to
      BY <1>1, <1>2, <1>6, <1>9
    <2>2. g.recvOwn \in BOOLEAN /\ ~ IsUpflow(pkt)
      BY <1>4, <1>6 DEF IsUpflow
    <2>3. MessageVerifies(g.ske, pkt) /\ DownflowVerifies(g.ske, c, pkt)
      BY <1>1, <1>10, <1>11
    <2>4. KnowsResult(hs[c], to, k, r, g.recvOwn)
      BY <1>3, <1>4, <1>6, <2>1, <2>2, <2>3, RecvDownflow
    <2> QED
      BY <1>4, <2>4
  <1>13. hs[c].cliques = k /\ hs[c].ske = r
    BY <1>12 DEF KnowsResult
  <1>14. Keyed(k, r, c, dr)
    <2>1. k.groupKey = DeriveGroupKey(Cardinal(k, c))
      BY <1>8 DEF Cardinal
    <2>2. k.intKeys \in [to -> Key] /\ DOMAIN r.nonces = to /\ DOMAIN r.pubKeys = to
      BY <1>7, <1>8, <1>9 DEF Keyed
    <2>3. \A d \in to : r.nonces[d] \in Drawn(dr, d)
      BY <1>7, <1>9 DEF Keyed
    <2>4. /\ r.privKey # NoValue /\ r.nonces[c] = r.nonce /\ r.pubKeys[c] = ToPublicKey(r.privKey)
      BY <1>5, <1>9 DEF Contributed
    <2> QED
      BY <1>4, <1>8, <1>9, <2>1, <2>2, <2>3, <2>4 DEF Keyed
  <1> QED
    BY <1>1, <1>8, <1>9, <1>12, <1>13, <1>14 DEF HasResult

(* Its sender has it already, and sees its packet come back.               *)
LEMMA ResultReachesSender ==
    ASSUME NEW gs, NEW hs, NEW pkt, NEW to, NEW dr, Downward(gs, pkt, to, dr),
           Receives(gs, hs, to, pkt), NEW c, c = pkt.src
    PROVE  /\ KnowsResult(hs[c], to, gs[c].cliques, gs[c].ske, TRUE)
           /\ c \in to
  <1>1. PICK g : g = gs[c]
    OBVIOUS
  <1>2. /\ c \in to /\ pkt.members = to /\ pkt.route = <<>>
        /\ Waits(g, c, to, dr) /\ g.ske.members = to
    BY <1>1 DEF Downward, Complemented
  <1>3. PICK fresh : hs[c] = Recv(g, c, pkt, fresh)
    BY <1>1, <1>2 DEF Receives
  <1>4. MessageVerifies(g.ske, pkt)
    BY <1>1, <1>2, DownwardVerifies
  <1>5. TakesPart(g, to)
    BY <1>2 DEF Waits
  <1> QED
    BY <1>1, <1>2, <1>3, <1>4, <1>5, RecvOwn DEF IsUpflow

(* When everybody has received the result, all have the same keys.         *)
LEMMA ResultSettles ==
    ASSUME NEW gs, NEW hs, NEW pkt, NEW to, NEW dr, Downward(gs, pkt, to, dr),
           Receives(gs, hs, to, pkt)
    PROVE  /\ Settled(hs, to, dr) /\ Heard(hs, to) = {pkt.src} /\ pkt.src \in to
           /\ \A c \in to : /\ hs[c].ske.privKey = gs[c].ske.privKey
                            /\ hs[c].ske.nonces = pkt.nonces
  <1> DEFINE src == pkt.src
  <1>1. /\ src \in to /\ KnowsResult(hs[src], to, gs[src].cliques, gs[src].ske, TRUE)
        /\ hs[src].cliques = gs[src].cliques /\ hs[src].ske = gs[src].ske /\ hs[src].recvOwn = TRUE
    <2>1. src \in to /\ KnowsResult(hs[src], to, gs[src].cliques, gs[src].ske, TRUE)
      BY ResultReachesSender
    <2> QED
      BY <2>1 DEF KnowsResult
  <1>2. /\ Keyed(hs[src].cliques, hs[src].ske, src, dr) /\ hs[src].cliques.intKeys = pkt.intKeys
        /\ hs[src].ske.members = to /\ hs[src].ske.nonces = pkt.nonces
        /\ hs[src].ske.pubKeys = pkt.pubKeys /\ hs[src].ske.authd = {src}
    BY <1>1 DEF Downward, Complemented
  <1>3. \A c \in to : c # src =>
           /\ KnowsResult(hs[c], to, hs[c].cliques, hs[c].ske, FALSE)
           /\ Keyed(hs[c].cliques, hs[c].ske, c, dr) /\ hs[c].ske.members = to
           /\ hs[c].ske.authd = {c, src}
           /\ hs[c].cliques.intKeys = pkt.intKeys
           /\ hs[c].cliques.groupKey = gs[src].cliques.groupKey
           /\ hs[c].ske.nonces = pkt.nonces /\ hs[c].ske.pubKeys = pkt.pubKeys
           /\ hs[c].ske.privKey = gs[c].ske.privKey
    <2> SUFFICES ASSUME NEW c \in to, c # src
                 PROVE  HasResult(gs[c], hs[c], gs[src].cliques, pkt, to, c, dr)
      BY DEF HasResult
    <2> QED
      BY ResultReachesMember
  <1>4. \A c \in to : hs[c].recvOwn = (c = src)
    BY <1>1, <1>3 DEF KnowsResult
  <1>5. Heard(hs, to) = {src}
    BY <1>1, <1>4 DEF Heard
  <1>6. ASSUME NEW d \in to
        PROVE  /\ KnowsResult(hs[d], to, hs[d].cliques, hs[d].ske, hs[d].recvOwn)
               /\ hs[d].recvOwn \in BOOLEAN
               /\ Keyed(hs[d].cliques, hs[d].ske, d, dr) /\ hs[d].ske.members = to
               /\ hs[d].ske.authd = {d} \cup Heard(hs, to)
    <2>1. CASE d = src
      BY <1>1, <1>2, <1>5, <2>1
    <2>2. CASE d # src
      <3>1. hs[d].recvOwn = FALSE
        BY <1>3, <2>2 DEF KnowsResult
      <3> QED
        BY <1>3, <1>5, <2>2, <3>1
    <2> QED
      BY <2>1, <2>2
  <1>7. ASSUME NEW d \in to
        PROVE  /\ hs[d].cliques.intKeys = pkt.intKeys
               /\ hs[d].cliques.groupKey = gs[src].cliques.groupKey
               /\ hs[d].ske.members = to /\ hs[d].ske.nonces = pkt.nonces
               /\ hs[d].ske.pubKeys = pkt.pubKeys /\ hs[d].ske.privKey = gs[d].ske.privKey
    BY <1>1, <1>2, <1>3
  <1>8. \A d, e \in to : SameKeys(hs[d].cliques, hs[d].ske, hs[e].cliques, hs[e].ske)
    BY <1>7 DEF SameKeys
  <1> QED
    BY <1>1, <1>5, <1>6, <1>7, <1>8 DEF Settled

(* Members are done when all of them are.                                  *)
LEMMA SettledOnesWait ==
    ASSUME NEW gs, NEW to, NEW dr, Settled(gs, to, dr), Heard(gs, to) # to, NEW c \in to
    PROVE  gs[c].fin = 0 /\ TakesPart(gs[c], to)
  <1>1. PICK d \in to : d \notin Heard(gs, to)
    BY DEF Heard
  <1>2. /\ gs[c].ske.authd = {c} \cup Heard(gs, to) /\ gs[c].ske.members = to
        /\ KnowsResult(gs[c], to, gs[c].cliques, gs[c].ske, gs[c].recvOwn)
        /\ IsCliques(gs[c].cliques) /\ IsSke(gs[c].ske)
    BY DEF Settled, Keyed
  <1>3. gs[c].recvOwn => ~ IsSessionAcknowledged(gs[c].ske)
    BY <1>1, <1>2 DEF Heard, IsSessionAcknowledged
  <1> QED
    BY <1>2, <1>3 DEF KnowsResult, TakesPart

(* When all packets came back, everybody is done.                          *)
LEMMA SettledOnesAreDone ==
    ASSUME NEW gs, NEW to, NEW dr, Settled(gs, to, dr), Heard(gs, to) = to, NEW c \in to
    PROVE  gs[c].fin = 1
  <1>1. /\ gs[c].ske.authd = {c} \cup to /\ gs[c].ske.members = to
        /\ KnowsResult(gs[c], to, gs[c].cliques, gs[c].ske, gs[c].recvOwn)
    BY DEF Settled
  <1>2. gs[c].recvOwn
    BY DEF Heard
  <1>3. IsSessionAcknowledged(gs[c].ske)
    BY <1>1 DEF IsSessionAcknowledged
  <1> QED
    BY <1>1, <1>2, <1>3 DEF KnowsResult

HasConfirmation(g, h, pkt, to, c, dr, own) ==
    /\ KnowsResult(h, to, h.cliques, h.ske, own)
    /\ h.cliques = g.cliques /\ h.ske.members = to
    /\ Keyed(h.cliques, h.ske, c, dr)
    /\ h.ske.authd = g.ske.authd \cup {pkt.src}
    /\ h.ske.nonces = g.ske.nonces /\ h.ske.pubKeys = g.ske.pubKeys
    /\ h.ske.nonce = g.ske.nonce /\ h.ske.privKey = g.ske.privKey /\ h.ske.sid = g.ske.sid

(* The sender of a confirmation sees its packet come back.                 *)
LEMMA ConfirmationReachesSender ==
    ASSUME NEW gs, NEW hs, NEW packets, NEW to, NEW dr, Confirming(gs, packets, to, dr),
           NEW pkt \in packets, Receives(gs, hs, to, pkt), NEW c, c = pkt.src
    PROVE  c \in to /\ HasConfirmation(gs[c], hs[c], pkt, to, c, dr, TRUE)
  <1>1. PICK g : g = gs[c]
    OBVIOUS
  <1>2. /\ c \in to /\ pkt.members = to /\ pkt.route = <<>>
    BY DEF Confirming, Confirms
  <1>3. PICK fresh : hs[c] = Recv(g, c, pkt, fresh)
    BY <1>1, <1>2 DEF Receives
  <1>4. MessageVerifies(g.ske, pkt)
    BY <1>1, <1>2, ConfirmationVerifies
  <1>5. TakesPart(g, to)
    BY <1>1, <1>2, SettledOnesWait DEF Confirming
  <1>6. /\ g.ske.members = to /\ Keyed(g.cliques, g.ske, c, dr)
        /\ g.ske.authd = {c} \cup Heard(gs, to)
    BY <1>1, <1>2 DEF Confirming, Settled
  <1>7. KnowsResult(hs[c], to, g.cliques, g.ske, TRUE)
    BY <1>2, <1>3, <1>4, <1>5, <1>6, RecvOwn DEF IsUpflow
  <1>8. hs[c].cliques = g.cliques /\ hs[c].ske = g.ske
    BY <1>7 DEF KnowsResult
  <1>9. HasConfirmation(g, hs[c], pkt, to, c, dr, TRUE)
    BY <1>6, <1>7, <1>8 DEF HasConfirmation
  <1> QED
    BY <1>1, <1>2, <1>9

(* Another member learns that the sender has signed.                       *)
LEMMA ConfirmationReachesMember ==
    ASSUME NEW gs, NEW hs, NEW packets, NEW to, NEW dr, Confirming(gs, packets, to, dr),
           NEW pkt \in packets, Receives(gs, hs, to, pkt), NEW c \in to, c # pkt.src
    PROVE  HasConfirmation(gs[c], hs[c], pkt, to, c, dr, gs[c].recvOwn)
  <1>1. PICK g, s, t, src : g = gs[c] /\ s = g.ske /\ t = gs[src].ske /\ src = pkt.src
    OBVIOUS
  <1>2. /\ pkt.members = to /\ pkt.route = <<>> /\ pkt.isGKA = FALSE /\ src \in to
        /\ pkt.nonces = t.nonces /\ pkt.signature = SessionSig(t, src)
    BY <1>1 DEF Confirming, Confirms
  <1>3. PICK fresh : hs[c] = Recv(g, c, pkt, fresh)
    BY <1>1 DEF Receives
  <1>4. MessageVerifies(g.ske, pkt)
    BY <1>1, ConfirmationVerifies
  <1>5. TakesPart(g, to)
    BY <1>1, SettledOnesWait DEF Confirming
  <1>6. /\ s.members = to /\ Keyed(g.cliques, s, c, dr) /\ g.recvOwn \in BOOLEAN
        /\ Keyed(gs[src].cliques, t, src, dr)
        /\ s.nonces = t.nonces /\ s.pubKeys = t.pubKeys
    BY <1>1, <1>2 DEF Confirming, Settled, SameKeys
  <1>7. IsSke(s) /\ s.sid = ComputeSid(pkt.nonces) /\ t.sid = s.sid
    BY <1>2, <1>6 DEF Keyed
  <1>8. PICK r : r = SkeDownflow(s, c, pkt)
    OBVIOUS
  <1>9. /\ IsSke(r) /\ r.nonce = s.nonce /\ r.privKey = s.privKey
        /\ r.members = s.members /\ r.nonces = s.nonces /\ r.pubKeys = s.pubKeys
        /\ r.sid = s.sid /\ r.authd = s.authd \cup {pkt.src}
    BY <1>7, <1>8, SkeDownflowFacts
  <1>10. DownflowVerifies(s, c, pkt)
    <2>1. PICK a : a = Adopt(s, c, pkt)
      OBVIOUS
    <2>2. a = s
      BY <1>7, <2>1 DEF Adopt
    <2>3. /\ src \in DOMAIN t.nonces /\ src \in DOMAIN t.pubKeys
          /\ t.nonces[src] = t.nonce /\ t.pubKeys[src] = ToPublicKey(t.privKey)
      BY <1>2, <1>6 DEF Keyed
    <2>4. pkt.src = src
      BY <1>1
    <2> QED
      BY <1>2, <1>6, <1>7, <2>1, <2>2, <2>3, <2>4, SessionSigVerifies
  <1>11. KnowsResult(hs[c], to, g.cliques, r, g.recvOwn)
    <2>1. /\ g.cliques = IF pkt.isGKA THEN CliquesDownflow(g.cliques, c, pkt) ELSE g.cliques
          /\ r = SkeDownflow(g.ske, c, pkt) /\ r.members = to
      BY <1>1, <1>2, <1>6, <1>8, <1>9
    <2>2. ~ IsUpflow(pkt)
      BY <1>2 DEF IsUpflow
    <2>3. DownflowVerifies(g.ske, c, pkt)
      BY <1>1, <1>10
    <2> QED
      BY <1>2, <1>3, <1>4, <1>5, <1>6, <2>1, <2>2, <2>3, RecvDownflow
  <1>12. hs[c].cliques = g.cliques /\ hs[c].ske = r
    BY <1>11 DEF KnowsResult
  <1>13. Keyed(g.cliques, r, c, dr)
    BY <1>6, <1>9 DEF Keyed
  <1>14. HasConfirmation(g, hs[c], pkt, to, c, dr, g.recvOwn)
    BY <1>1, <1>6, <1>9, <1>11, <1>12, <1>13 DEF HasConfirmation
  <1> QED
    BY <1>1, <1>14

(* When everybody has received a confirmation, one more has signed.        *)
LEMMA ConfirmationSettles ==
    ASSUME NEW gs, NEW hs, NEW packets, NEW to, NEW dr, Confirming(gs, packets, to, dr),
           NEW pkt \in packets, Receives(gs, hs, to, pkt)
    PROVE  /\ Settled(hs, to, dr) /\ Heard(hs, to) = Heard(gs, to) \cup {pkt.src}
           /\ \A c \in to : /\ hs[c].ske.nonces = gs[c].ske.nonces
                            /\ hs[c].ske.nonce = gs[c].ske.nonce
                            /\ hs[c].ske.privKey = gs[c].ske.privKey
                            /\ hs[c].ske.sid = gs[c].ske.sid
  <1>1. /\ pkt.src \in to
        /\ HasConfirmation(gs[pkt.src], hs[pkt.src], pkt, to, pkt.src, dr, TRUE)
    BY ConfirmationReachesSender
  <1>2. \A c \in to : c # pkt.src =>
           HasConfirmation(gs[c], hs[c], pkt, to, c, dr, gs[c].recvOwn)
    BY ConfirmationReachesMember
  <1>3. \A c \in to : gs[c].recvOwn \in BOOLEAN /\ gs[c].ske.authd = {c} \cup Heard(gs, to)
    BY DEF Confirming, Settled
  <1>4. /\ hs[pkt.src].recvOwn = TRUE
        /\ \A c \in to : c # pkt.src => hs[c].recvOwn = gs[c].recvOwn
    <2>1. hs[pkt.src].recvOwn = TRUE
      BY <1>1 DEF HasConfirmation, KnowsResult
    <2>2. ASSUME NEW c \in to, c # pkt.src PROVE hs[c].recvOwn = gs[c].recvOwn
      BY <1>2, <2>2 DEF HasConfirmation, KnowsResult
    <2> QED
      BY <2>1, <2>2
  <1>5. Heard(hs, to) = Heard(gs, to) \cup {pkt.src}
    <2>1. ASSUME NEW c \in to PROVE hs[c].recvOwn <=> (gs[c].recvOwn \/ c = pkt.src)
      BY <1>4
    <2> QED
      BY <1>1, <2>1 DEF Heard
  <1>6. ASSUME NEW c \in to
        PROVE  \E own \in BOOLEAN : HasConfirmation(gs[c], hs[c], pkt, to, c, dr, own)
    BY <1>1, <1>2, <1>3
  <1>7. ASSUME NEW c \in to
        PROVE  /\ KnowsResult(hs[c], to, hs[c].cliques, hs[c].ske, hs[c].recvOwn)
               /\ hs[c].recvOwn \in BOOLEAN
               /\ Keyed(hs[c].cliques, hs[c].ske, c, dr) /\ hs[c].ske.members = to
               /\ hs[c].ske.authd = {c} \cup Heard(hs, to)
    <2>1. PICK own \in BOOLEAN : HasConfirmation(gs[c], hs[c], pkt, to, c, dr, own)
      BY <1>6
    <2>2. hs[c].recvOwn = own
      BY <2>1 DEF HasConfirmation, KnowsResult
    <2> QED
      BY <1>3, <1>5, <2>1, <2>2 DEF HasConfirmation
  <1>8. ASSUME NEW c \in to
        PROVE  /\ hs[c].cliques = gs[c].cliques /\ hs[c].ske.members = gs[c].ske.members
               /\ hs[c].ske.nonces = gs[c].ske.nonces /\ hs[c].ske.pubKeys = gs[c].ske.pubKeys
               /\ hs[c].ske.nonce = gs[c].ske.nonce
               /\ hs[c].ske.privKey = gs[c].ske.privKey
               /\ hs[c].ske.sid = gs[c].ske.sid
    <2>1. gs[c].ske.members = to
      BY DEF Confirming, Settled
    <2> QED
      BY <1>6, <2>1 DEF HasConfirmation
  <1>9. \A c, d \in to : SameKeys(hs[c].cliques, hs[c].ske, hs[d].cliques, hs[d].ske)
    BY <1>8 DEF Confirming, Settled, SameKeys
  <1> QED
    BY <1>5, <1>7, <1>8, <1>9 DEF Settled


-----------------------------------------------------------------------------
(* The next member on the route adds its contribution: hs are the          *)
(* greetings after the upflow packet, dr2 what is drawn then.              *)
LEMMA FreshIsKey ==
    ASSUME drawn \in [Client -> Nat], NEW c \in Client, MayDraw(c)
    PROVE  Fresh(c) \in PrivKey /\ Fresh(c) # NoValue /\ Fresh(c) \notin Drawn(drawn, c)
  <1>1. drawn[c] \in Nat /\ drawn[c] + 1 \in 1 .. MaxDraws
    BY DrawsAssumption DEF MayDraw
  <1> QED
    BY <1>1, FreshIsNew, PrivKeyAssumption DEF Fresh

AnswersUp(a, h, c, pkt) ==
    /\ a.route = Tail(pkt.route) /\ a.members = pkt.members /\ a.src = c
    /\ a.isGKA = TRUE /\ a.intKeys = h.cliques.intKeys
    /\ a.nonces = h.ske.nonces /\ a.pubKeys = h.ske.pubKeys
    /\ a.signedBy = ToPublicKey(h.ske.privKey)
    /\ Len(pkt.route) = 1 => a.signature = SessionSig(h.ske, c)

(* What the next on the route answers.                                     *)
LEMMA AnswerToUpflow ==
    ASSUME NEW h, NEW c, NEW pkt, IsUpflow(pkt), NEW sum, NEW a, a = AnswerTo(h, c, pkt, sum)
    PROVE  AnswersUp(a, h, c, pkt)
  BY DEF AnswersUp, AnswerTo, Merge, CliquesAnswer, CliquesMessage, SkeAnswer, SkeMessage

AnswersDown(a, h, c, pkt) ==
    /\ a.route = <<>> /\ a.members = pkt.members /\ a.src = c
    /\ a.isGKA = FALSE /\ a.nonces = pkt.nonces
    /\ a.signedBy = ToPublicKey(h.ske.privKey)
    /\ a.signature = SessionSig(h.ske, c)

(* What a member answers to the result.                                    *)
LEMMA AnswerToDownflow ==
    ASSUME NEW h, NEW c, NEW pkt, ~ IsUpflow(pkt), NEW sum, NEW a, a = AnswerTo(h, c, pkt, sum)
    PROVE  AnswersDown(a, h, c, pkt)
  BY DEF AnswersDown, AnswerTo, MergeConfirmation, Confirmation, SkeMessage

GoesOn(g) == g.fin = 0 /\ g.err = FALSE

(* An upflow makes the next one contribute, and changes no other keys.     *)
LEMMA UpflowAddsTo ==
    ASSUME NEW gs, NEW hs, NEW pkt, NEW to, NEW dr, Upward(gs, pkt, to, dr),
           \A c \in to : hs[c] = Recv(gs[c], c, pkt, Fresh(c)),
           NEW c, c = Head(pkt.route)
    PROVE  /\ AddsTo(gs, hs, pkt.route, pkt.intKeys, pkt.nonces, pkt.pubKeys, to, c, Fresh(c))
           /\ \A d \in to : GoesOn(hs[d])
  <1>1. /\ pkt.members = to /\ pkt.src \notin Range(pkt.route) /\ IsUpflow(pkt)
        /\ c \in Range(pkt.route) /\ c \in to
    BY RouteTail DEF Upward, Collected, IsUpflow
  <1>2. \A d \in to : TakesPart(gs[d], to) /\ gs[d].recvOwn = FALSE
    BY DEF Upward, Collected, Waits
  <1>3. \A d \in to : MessageVerifies(gs[d].ske, pkt)
    BY UpwardVerifies
  <1>4. ASSUME NEW d \in to, d # c
        PROVE  /\ TakesPart(hs[d], to) /\ hs[d].recvOwn = FALSE
               /\ hs[d].cliques = gs[d].cliques /\ hs[d].ske = gs[d].ske
               /\ hs[d].fin = 0 /\ hs[d].err = FALSE
    <2>1. PICK g, h : g = gs[d] /\ h = Recv(g, d, pkt, Fresh(d)) /\ h = hs[d]
      OBVIOUS
    <2>2. HasNoResult(g, to) /\ MessageVerifies(g.ske, pkt)
      BY <1>2, <1>3, <2>1 DEF HasNoResult
    <2>3. HasNoResult(h, to) /\ h.cliques = g.cliques /\ h.ske = g.ske
      BY <1>1, <1>4, <2>1, <2>2, RecvOthersUpflow
    <2> QED
      BY <2>1, <2>3 DEF HasNoResult, TakesPart
  <1>5. /\ IsGreeting(hs[c]) /\ hs[c].recvOwn = FALSE
        /\ hs[c].cliques = CliquesUpflow(gs[c].cliques, c, pkt, Fresh(c))
        /\ hs[c].ske = SkeUpflow(gs[c].ske, c, pkt, Fresh(c))
        /\ hs[c].next = to /\ hs[c].quit = FALSE /\ hs[c].fin = 0 /\ hs[c].err = FALSE
    <2>1. PICK g, h : g = gs[c] /\ h = Recv(g, c, pkt, Fresh(c)) /\ h = hs[c]
      BY <1>1
    <2>2. HasNoResult(g, to) /\ MessageVerifies(g.ske, pkt)
      BY <1>1, <1>2, <1>3, <2>1 DEF HasNoResult
    <2>3. HasAdded(h, to, CliquesUpflow(g.cliques, c, pkt, Fresh(c)),
                   SkeUpflow(g.ske, c, pkt, Fresh(c)))
      BY <1>1, <2>1, <2>2, RecvUpflow
    <2> QED
      BY <2>1, <2>3 DEF HasAdded
  <1>6. AddsTo(gs, hs, pkt.route, pkt.intKeys, pkt.nonces, pkt.pubKeys, to, c, Fresh(c))
    BY <1>1, <1>4, <1>5 DEF AddsTo
  <1> QED
    BY <1>4, <1>5, <1>6 DEF GoesOn

(* Its answer is another upflow, or the broadcast.                         *)
LEMMA UpflowGoesOn ==
    ASSUME NEW gs, NEW hs, NEW pkt, NEW to, to \subseteq Client, drawn \in [Client -> Nat],
           Upward(gs, pkt, to, drawn),
           \A c \in to : hs[c] = Recv(gs[c], c, pkt, Fresh(c)),
           NEW c, c = Head(pkt.route), MayDraw(c),
           NEW dr2, Grows(drawn, dr2), dr2[c] = drawn[c] + 1,
           NEW sum, NEW a, a = AnswerTo(hs[c], c, pkt, sum)
    PROVE  Upward(hs, a, to, dr2) \/ Downward(hs, a, to, dr2)
  <1>1. /\ pkt.route \in Seq(Client) /\ pkt.route # <<>> /\ IsInjective(pkt.route)
        /\ Range(pkt.route) \subseteq to /\ pkt.members = to
        /\ Collected(gs, pkt.route, pkt.intKeys, pkt.nonces, pkt.pubKeys, to, drawn)
    BY DEF Upward, Collected
  <1>2. /\ Range(Tail(pkt.route)) = Range(pkt.route) \ {c} /\ c \in Range(pkt.route)
        /\ Tail(pkt.route) = <<>> <=> Len(pkt.route) = 1
        /\ c \in to /\ c \in Client
    BY <1>1, RouteTail
  <1>3. /\ Fresh(c) \in PrivKey /\ Fresh(c) # NoValue /\ Fresh(c) \notin Drawn(drawn, c)
        /\ Fresh(c) \in Drawn(dr2, c)
    <2>1. Fresh(c) \in Drawn(dr2, c)
      BY <1>2, FreshIsDrawn DEF Fresh
    <2> QED
      BY <1>2, <2>1, FreshIsKey
  <1>4. AddsTo(gs, hs, pkt.route, pkt.intKeys, pkt.nonces, pkt.pubKeys, to, c, Fresh(c))
    BY UpflowAddsTo
  <1>5. /\ a.route = Tail(pkt.route) /\ a.members = to /\ a.src = c
        /\ a.isGKA = TRUE /\ a.intKeys = hs[c].cliques.intKeys
        /\ a.nonces = hs[c].ske.nonces /\ a.pubKeys = hs[c].ske.pubKeys
        /\ a.signedBy = ToPublicKey(hs[c].ske.privKey)
        /\ Len(pkt.route) = 1 => a.signature = SessionSig(hs[c].ske, c)
    <2>1. PICK h : h = hs[c]
      OBVIOUS
    <2>2. IsUpflow(pkt) /\ a = AnswerTo(h, c, pkt, sum)
      BY <1>1, <2>1 DEF IsUpflow
    <2>3. AnswersUp(a, h, c, pkt)
      BY <2>2, AnswerToUpflow
    <2> QED
      BY <1>1, <2>1, <2>3 DEF AnswersUp
  <1>6. a.signedBy = a.pubKeys[c]
    <2>1. ValuesAdded(gs, hs, pkt.route, to, c, Fresh(c), dr2)
      BY <1>1, <1>3, <1>4, AddedValues
    <2>2. Contributed(hs[c].ske.nonces, hs[c].ske.pubKeys, hs[c].ske, c, dr2)
      BY <2>1 DEF ValuesAdded
    <2> QED
      BY <1>5, <2>2 DEF Contributed
  <1>7. CASE Len(pkt.route) # 1
    <2>1. Collected(hs, Tail(pkt.route), hs[c].cliques.intKeys, hs[c].ske.nonces,
                    hs[c].ske.pubKeys, to, dr2)
      BY <1>1, <1>3, <1>4, <1>7, CollectedByOneMore
    <2>2. Upward(hs, a, to, dr2)
      BY <1>2, <1>5, <1>6, <2>1 DEF Upward
    <2> QED
      BY <2>2
  <1>8. CASE Len(pkt.route) = 1
    <2>1. Complemented(hs, c, hs[c].cliques.intKeys, hs[c].ske.nonces, hs[c].ske.pubKeys, to, dr2)
      BY <1>1, <1>3, <1>4, <1>8, CollectedByAll
    <2>2. Downward(hs, a, to, dr2)
      BY <1>2, <1>5, <1>6, <1>8, <2>1 DEF Downward
    <2> QED
      BY <2>2
  <1> QED
    BY <1>7, <1>8

-----------------------------------------------------------------------------
(* What goes on when the result or a confirmation is received and members  *)
(* are not done yet: hs are the greetings after the packet.                *)
ReachesExcluded(gs, hs, to, pkt) ==
    \A c \in Client \ to :
        IF c \in Group THEN \E fresh : hs[c] = Recv(gs[c], c, pkt, fresh) ELSE hs[c] = gs[c]

(* There are several members while some are still to confirm.              *)
LEMMA NotAlone ==
    ASSUME NEW to, to \subseteq Client, NEW S, S \subseteq to, S # to, S # {}
    PROVE  Cardinality(to) # 1
  <1> SUFFICES ASSUME Cardinality(to) = 1 PROVE FALSE
    OBVIOUS
  <1>1. IsFiniteSet(to)
    BY FS_Subset, ClientAssumption
  <1>2. PICK x : to = {x}
    BY <1>1, FS_Singleton
  <1> QED
    BY <1>2

(* A packet of the others leaves the excluded as they are.                 *)
LEMMA ExcludedStayOut ==
    ASSUME NEW gs, NEW hs, NEW pkt, NEW to, Excluded(gs, to), pkt.members = to,
           pkt.src \in to, pkt.signedBy = ToPublicKey(gs[pkt.src].ske.privKey),
           Cardinality(to) # 1, ReachesExcluded(gs, hs, to, pkt),
           \A c \in to : hs[c].ske.privKey = gs[c].ske.privKey
    PROVE  Excluded(hs, to)
  <1> SUFFICES ASSUME NEW c \in Client \ to
               PROVE  /\ hs[c].err = FALSE
                      /\ c \in Group =>
                            /\ IsGreeting(hs[c]) /\ hs[c].fin = 0 /\ hs[c].ske.privKey # NoValue
                            /\ \A d \in to :
                                  /\ d \in DOMAIN hs[c].ske.pubKeys
                                  /\ hs[c].ske.pubKeys[d] = ToPublicKey(hs[d].ske.privKey)
    BY DEF Excluded
  <1>1. CASE c \notin Group
    BY <1>1 DEF Excluded, ReachesExcluded
  <1>2. CASE c \in Group
    <2>1. PICK g, fresh : g = gs[c] /\ hs[c] = Recv(g, c, pkt, fresh)
      BY <1>2 DEF ReachesExcluded
    <2>2. /\ IsLeftOut(g) /\ g.ske.privKey # NoValue
          /\ \A d \in to : /\ d \in DOMAIN g.ske.pubKeys
                           /\ g.ske.pubKeys[d] = ToPublicKey(gs[d].ske.privKey)
      BY <1>2, <2>1 DEF Excluded, IsLeftOut
    <2>3. MessageVerifies(g.ske, pkt)
      BY <2>2 DEF MessageVerifies, SigningKey
    <2>4. IsLeftOut(hs[c]) /\ hs[c].ske = g.ske
      BY <2>1, <2>2, <2>3, RecvExcluded
    <2> QED
      BY <2>2, <2>4 DEF IsLeftOut
  <1> QED
    BY <1>1, <1>2

Answers(gs, hs, pkt, sums) == {AnswerTo(hs[c], c, pkt, sums[c]) : c \in Answering(gs, pkt)}

(* After the broadcast the members confirm it.                             *)
LEMMA ResultGoesOn ==
    ASSUME NEW gs, NEW hs, NEW pkt, NEW to, to \subseteq Client, NEW dr,
           Downward(gs, pkt, to, dr), Excluded(gs, to), Receives(gs, hs, to, pkt),
           ReachesExcluded(gs, hs, to, pkt), Heard(hs, to) # to, NEW sums
    PROVE  Confirming(hs, Answers(gs, hs, pkt, sums), to, dr) /\ Excluded(hs, to)
  <1>1. /\ Settled(hs, to, dr) /\ Heard(hs, to) = {pkt.src} /\ pkt.src \in to
        /\ \A c \in to : hs[c].ske.privKey = gs[c].ske.privKey /\ hs[c].ske.nonces = pkt.nonces
    BY ResultSettles
  <1>2. /\ pkt.members = to /\ ~ IsUpflow(pkt)
        /\ pkt.signedBy = ToPublicKey(gs[pkt.src].ske.privKey)
    BY DEF Downward, Complemented, Keyed, IsUpflow
  <1>3. Cardinality(to) # 1
    BY <1>1, NotAlone
  <1>4. ASSUME NEW c \in Answering(gs, pkt) PROVE c \in to /\ c # pkt.src
    BY <1>2 DEF Answering, AnswersUpflow, AnswersDownflow, IsFor
  <1>5. ASSUME NEW a \in Answers(gs, hs, pkt, sums)
        PROVE  /\ a = AnswerTo(hs[a.src], a.src, pkt, sums[a.src])
               /\ Confirms(a, hs, to)
    <2>1. PICK c \in Answering(gs, pkt) : a = AnswerTo(hs[c], c, pkt, sums[c])
      BY DEF Answers
    <2>2. AnswersDown(a, hs[c], c, pkt)
      BY <1>2, <2>1, AnswerToDownflow
    <2>3. a.src = c
      BY <2>2 DEF AnswersDown
    <2>4. Confirms(a, hs, to)
      BY <1>1, <1>2, <1>4, <2>2 DEF Confirms, AnswersDown
    <2> QED
      BY <2>1, <2>3, <2>4
  <1>6. \A p, q \in Answers(gs, hs, pkt, sums) : p.src = q.src => p = q
    BY <1>5
  <1>7. Excluded(hs, to)
    BY <1>1, <1>2, <1>3, ExcludedStayOut
  <1> QED
    BY <1>1, <1>5, <1>6, <1>7 DEF Confirming

(* After a confirmation the others are still to come.                      *)
LEMMA ConfirmationGoesOn ==
    ASSUME NEW gs, NEW hs, NEW packets, NEW pkt \in packets, NEW to, to \subseteq Client, NEW dr,
           Confirming(gs, packets, to, dr), Excluded(gs, to), Receives(gs, hs, to, pkt),
           ReachesExcluded(gs, hs, to, pkt), Heard(hs, to) # to, NEW sums
    PROVE  /\ Confirming(hs, (packets \ {pkt}) \cup Answers(gs, hs, pkt, sums), to, dr)
           /\ Excluded(hs, to)
  <1>1. /\ Settled(hs, to, dr) /\ Heard(hs, to) = Heard(gs, to) \cup {pkt.src}
        /\ \A c \in to : /\ hs[c].ske.nonces = gs[c].ske.nonces
                         /\ hs[c].ske.nonce = gs[c].ske.nonce
                         /\ hs[c].ske.privKey = gs[c].ske.privKey
                         /\ hs[c].ske.sid = gs[c].ske.sid
    BY ConfirmationSettles
  <1>2. /\ pkt.members = to /\ ~ IsUpflow(pkt) /\ pkt.src \in to
        /\ pkt.signedBy = ToPublicKey(gs[pkt.src].ske.privKey)
        /\ pkt.nonces = gs[pkt.src].ske.nonces
    BY DEF Confirming, Confirms, IsUpflow
  <1>3. Cardinality(to) # 1
    BY <1>1, <1>2, NotAlone DEF Heard
  <1>4. ASSUME NEW c \in to PROVE gs[c].ske.sid = ComputeSid(pkt.nonces)
    <2>1. gs[c].ske.sid = ComputeSid(gs[c].ske.nonces) /\ gs[c].ske.nonces = pkt.nonces
      BY <1>2 DEF Confirming, Settled, Keyed, SameKeys
    <2> QED
      BY <2>1
  <1>5. Answers(gs, hs, pkt, sums) = {}
    <2>1. ASSUME NEW c \in Answering(gs, pkt) PROVE FALSE
      BY <1>2, <1>4 DEF Answering, AnswersUpflow, AnswersDownflow, IsFor, DownflowAnswers
    <2> QED
      BY <2>1 DEF Answers
  <1>6. ASSUME NEW p \in packets, p # pkt PROVE Confirms(p, hs, to)
    <2>1. /\ Confirms(p, gs, to) /\ p.src # pkt.src
      BY <1>6 DEF Confirming
    <2>2. SessionSig(hs[p.src].ske, p.src) = SessionSig(gs[p.src].ske, p.src)
      BY <1>1, <2>1 DEF SessionSig, Confirms
    <2> QED
      BY <1>1, <2>1, <2>2 DEF Confirms
  <1>7. Excluded(hs, to)
    BY <1>1, <1>2, <1>3, ExcludedStayOut
  <1> QED
    BY <1>1, <1>5, <1>6, <1>7 DEF Confirming

-----------------------------------------------------------------------------
(* A packet is delivered: the greetings become hs, and the invariant       *)
(* holds again.                                                            *)
StepTo(hs, pkt, to, rest, gs, sums) ==
    /\ hs = [c \in Client |-> hs[c]]
    /\ \A c \in to : hs[c] = Recv(gs[c], c, pkt, Fresh(c))
    /\ ReachesExcluded(gs, hs, to, pkt)
    /\ Handled(pkt, to, rest, gs, hs, sums)
    /\ drawn' \in [Client -> Nat] /\ Grows(drawn, drawn')
    /\ \A c \in Client : AnswersUpflow(gs[c], c, pkt) => MayDraw(c) /\ drawn'[c] = drawn[c] + 1
    /\ (\A c \in Client : ~ AnswersUpflow(gs[c], c, pkt)) => drawn' = drawn

(* The greetings when the parties have received the packet.                *)
Reached(gs, pkt, parties) ==
    [c \in Client |-> IF c \in parties THEN Recv(gs[c], c, pkt, Fresh(c)) ELSE gs[c]]

(* A packet delivered to everybody is a step to these.                     *)
LEMMA ReachedSteps ==
    ASSUME drawn \in [Client -> Nat], NEW pkt, NEW to, to \subseteq Client, NEW rest, NEW gs,
           NEW sums, Delivered(pkt, to, rest, gs, to \cup Group, sums)
    PROVE  StepTo(Reached(gs, pkt, to \cup Group), pkt, to, rest, gs, sums)
  <1> DEFINE hs == Reached(gs, pkt, to \cup Group)
             who == {c \in Client : AnswersUpflow(gs[c], c, pkt)}
  <1>1. /\ \A c \in Client : AnswersUpflow(gs[c], c, pkt) => MayDraw(c)
        /\ drawn' = [c \in Client |-> IF c \in who THEN drawn[c] + 1 ELSE drawn[c]]
        /\ Handled(pkt, to, rest, gs, hs, sums)
    BY DEF Delivered, Draws, Reached
  <1>2. /\ hs = [c \in Client |-> hs[c]]
        /\ \A c \in to : hs[c] = Recv(gs[c], c, pkt, Fresh(c))
    BY DEF Reached
  <1>3. ReachesExcluded(gs, hs, to, pkt)
    BY DEF ReachesExcluded, Reached
  <1>4. /\ drawn' \in [Client -> Nat]
        /\ \A c \in Client : drawn[c] \in Nat /\ drawn'[c] \in Nat /\ drawn[c] <= drawn'[c]
        /\ \A c \in who : drawn'[c] = drawn[c] + 1
    <2>1. who \subseteq Client
      OBVIOUS
    <2> HIDE DEF who
    <2>2. drawn' \in [Client -> Nat]
      BY <1>1
    <2>3. \A c \in Client : drawn[c] \in Nat /\ drawn'[c] \in Nat /\ drawn[c] <= drawn'[c]
      BY <1>1
    <2>4. \A c \in who : drawn'[c] = drawn[c] + 1
      BY <1>1, <2>1
    <2> QED
      BY <2>2, <2>3, <2>4
  <1>5. Grows(drawn, drawn')
    BY <1>4 DEF Grows
  <1>6. ASSUME \A c \in Client : ~ AnswersUpflow(gs[c], c, pkt) PROVE drawn' = drawn
    <2>1. drawn' = [c \in Client |-> drawn[c]]
      BY <1>1, <1>6
    <2> QED
      BY <2>1
  <1> QED
    BY <1>1, <1>2, <1>3, <1>4, <1>5, <1>6 DEF StepTo

(* So it is a step to some.                                                *)
LEMMA DeliveredSteps ==
    ASSUME drawn \in [Client -> Nat], NEW pkt, NEW to, to \subseteq Client, NEW rest, NEW gs,
           NEW sums, Delivered(pkt, to, rest, gs, to \cup Group, sums)
    PROVE  \E hs : StepTo(hs, pkt, to, rest, gs, sums)
  BY ReachedSteps

(* Stores that are not replaced fit one another still.                     *)
LEMMA StoresStay ==
    ASSUME StoresKeyed, store' = store, Grows(drawn, drawn')
    PROVE  StoresKeyed' /\ Group' = Group
  <1>1. Group' = Group
    BY DEF Group
  <1>2. ASSUME NEW c \in Group PROVE Keyed(store[c].cliques, store[c].ske, c, drawn')
    BY KeyedGrows DEF StoresKeyed
  <1> QED
    BY <1>1, <1>2 DEF StoresKeyed

(* While nobody is done, the operation goes on with the answers.           *)
LEMMA NotDone ==
    ASSUME StoresKeyed, NEW pkt, NEW to, to \subseteq Client, to # {}, NEW rest, NEW gs, NEW hs,
           NEW sums, Handled(pkt, to, rest, gs, hs, sums), \A c \in to : hs[c].fin = 0
    PROVE  /\ store' = store /\ next' = to /\ greeting' = hs
           /\ flight' = rest \cup Answers(gs, hs, pkt, sums)
  <1>1. ~ Done(to, hs)
    BY DEF Done
  <1>2. store' = [c \in Client |-> store[c]]
    BY <1>1 DEF Handled
  <1> QED
    BY <1>1, <1>2 DEF Handled, Answers, StoresKeyed

(* An upflow packet.                                                       *)
LEMMA UpwardDelivered ==
    ASSUME drawn \in [Client -> Nat], StoresKeyed, proposals' = {},
           NEW pkt, NEW to, to \subseteq Client, NEW gs, NEW hs, NEW sums,
           StepTo(hs, pkt, to, {}, gs, sums), \A c \in Client : gs[c].err = FALSE,
           Upward(gs, pkt, to, drawn), Group \subseteq to
    PROVE  KeyInv'
  <1>1. PICK h : h = Head(pkt.route)
    OBVIOUS
  <1>2. /\ pkt.members = to /\ pkt.src \notin Range(pkt.route) /\ IsUpflow(pkt)
        /\ h \in Range(pkt.route) /\ h \in to /\ to # {}
    BY <1>1, RouteTail DEF Upward, Collected, IsUpflow
  <1>3. \A c \in to : hs[c] = Recv(gs[c], c, pkt, Fresh(c))
    BY DEF StepTo
  <1>4. \A c \in to : hs[c].fin = 0 /\ hs[c].err = FALSE
    <2>1. \A c \in to : GoesOn(hs[c])
      BY <1>1, <1>3, UpflowAddsTo
    <2> QED
      BY <2>1 DEF GoesOn
  <1>5. /\ store' = store /\ next' = to /\ greeting' = hs
        /\ flight' = {} \cup Answers(gs, hs, pkt, sums)
    <2>1. Handled(pkt, to, {}, gs, hs, sums)
      BY DEF StepTo
    <2>2. \A c \in to : hs[c].fin = 0
      BY <1>4
    <2> QED
      BY <1>2, <2>1, <2>2, NotDone
  <1>6. Answering(gs, pkt) = {h}
    <2>1. gs[h].quit = FALSE
      BY <1>2 DEF Upward, Collected, Waits, TakesPart
    <2> QED
      BY <1>1, <1>2, <2>1 DEF Answering, AnswersUpflow, AnswersDownflow, IsFor
  <1>7. PICK a : a = AnswerTo(hs[h], h, pkt, sums[h])
    OBVIOUS
  <1>8. flight' = {a}
    BY <1>5, <1>6, <1>7 DEF Answers
  <1>9. MayDraw(h) /\ drawn'[h] = drawn[h] + 1 /\ Grows(drawn, drawn') /\ drawn' \in [Client -> Nat]
    <2>1. gs[h].quit = FALSE
      BY <1>2 DEF Upward, Collected, Waits, TakesPart
    <2>2. AnswersUpflow(gs[h], h, pkt)
      BY <1>1, <1>2, <2>1 DEF AnswersUpflow, IsFor
    <2> QED
      BY <1>2, <2>2 DEF StepTo
  <1>10. Upward(hs, a, to, drawn') \/ Downward(hs, a, to, drawn')
    BY <1>1, <1>3, <1>7, <1>9, UpflowGoesOn
  <1>11. StoresKeyed' /\ Group' = Group
    BY <1>5, <1>9, StoresStay
  <1>12. \A c \in Client : hs[c].err = FALSE
    <2>1. \A c \in Client \ to : hs[c] = gs[c]
      BY DEF StepTo, ReachesExcluded
    <2> QED
      BY <1>4, <2>1
  <1>13. Excluded(greeting, next)'
    BY <1>5, <1>11, <1>12 DEF Excluded
  <1>14. IsUnderWay'
    BY <1>5, <1>8, <1>10, <1>11, <1>13 DEF IsUnderWay, Stage
  <1>15. greeting' = [c \in Client |-> greeting'[c]]
    BY <1>5 DEF StepTo
  <1>16. ProposalsFit' /\ OperationFits'
    BY <1>2, <1>5, <1>14 DEF ProposalsFit, OperationFits
  <1> QED
    BY <1>5, <1>9, <1>11, <1>12, <1>15, <1>16 DEF KeyInv

(* When all members are done, they begin the session with the results.     *)
LEMMA Finishes ==
    ASSUME StoresKeyed, NEW pkt, NEW to, to \subseteq Client, to # {}, NEW rest, NEW gs, NEW hs,
           NEW sums, Handled(pkt, to, rest, gs, hs, sums), Settled(hs, to, drawn'),
           Heard(hs, to) = to
    PROVE  /\ StoresKeyed' /\ next' = {} /\ flight' = {}
           /\ greeting' = [c \in Client |-> NoGreeting]
  <1>1. \A c \in to : hs[c].fin = 1
    BY SettledOnesAreDone
  <1>2. /\ next' = {} /\ flight' = {} /\ greeting' = [c \in Client |-> NoGreeting]
        /\ store' = [c \in Client |-> IF c \in to THEN ResultState(hs[c]) ELSE NoStore]
    <2>1. Done(to, hs)
      BY <1>1 DEF Done
    <2> QED
      BY <1>1, <2>1 DEF Handled
  <1>3. \A c \in to : hs[c].ske.members = to /\ Keyed(hs[c].cliques, hs[c].ske, c, drawn')
    BY DEF Settled
  <1>4. CASE Cardinality(to) = 1
    <2>1. \A c \in Client : store'[c] = NoStore
      BY <1>2, <1>3, <1>4 DEF ResultState, Alone
    <2>2. Group' = {}
      BY <2>1 DEF Group
    <2>3. /\ store' = [c \in Client |-> store'[c]]
          /\ \A c \in Client : store'[c] = [cliques |-> store'[c].cliques, ske |-> store'[c].ske]
      BY <1>2, <2>1 DEF NoStore
    <2> QED
      BY <1>2, <2>2, <2>3 DEF StoresKeyed
  <1>5. CASE Cardinality(to) # 1
    <2>1. ASSUME NEW c \in to
          PROVE  /\ store'[c].cliques = hs[c].cliques /\ store'[c].ske = hs[c].ske
                 /\ store'[c] = [cliques |-> store'[c].cliques, ske |-> store'[c].ske]
                 /\ store'[c] # NoStore
      <3>1. store'[c] = [cliques |-> hs[c].cliques, ske |-> hs[c].ske]
        BY <1>2, <1>3, <1>5 DEF ResultState, Alone
      <3>2. hs[c].ske.privKey # NoValue
        BY <1>3 DEF Keyed
      <3>3. NoStore.ske.privKey = NoValue
        BY DEF NoStore, NewSkeMember
      <3>4. PICK k, s : k = hs[c].cliques /\ s = hs[c].ske
        OBVIOUS
      <3>5. store'[c] = [cliques |-> k, ske |-> s]
        BY <3>1, <3>4
      <3>6. store'[c].cliques = k /\ store'[c].ske = s
        BY <3>5
      <3> QED
        BY <3>2, <3>3, <3>4, <3>5, <3>6
    <2>2. \A c \in Client \ to : store'[c] = NoStore
      BY <1>2
    <2>3. Group' = to
      BY <2>1, <2>2 DEF Group
    <2>4. ASSUME NEW c \in Client
          PROVE  store'[c] = [cliques |-> store'[c].cliques, ske |-> store'[c].ske]
      <3>1. CASE c \in to
        BY <2>1, <3>1
      <3>2. CASE c \notin to
        <4>1. store'[c] = NoStore
          BY <2>2, <3>2
        <4> QED
          BY <4>1 DEF NoStore
      <3> QED
        BY <3>1, <3>2
    <2>5. ASSUME NEW c \in to
          PROVE  /\ Keyed(store'[c].cliques, store'[c].ske, c, drawn')
                 /\ store'[c].ske.members = to
      <3>1. store'[c].cliques = hs[c].cliques /\ store'[c].ske = hs[c].ske
        BY <2>1
      <3> QED
        BY <1>3, <3>1
    <2>6. ASSUME NEW c \in to, NEW d \in to
          PROVE  SameKeys(store'[c].cliques, store'[c].ske, store'[d].cliques, store'[d].ske)
      <3>1. /\ store'[c].cliques = hs[c].cliques /\ store'[c].ske = hs[c].ske
            /\ store'[d].cliques = hs[d].cliques /\ store'[d].ske = hs[d].ske
        BY <2>1
      <3> QED
        BY <3>1 DEF Settled
    <2>7. store' = [c \in Client |-> store'[c]]
      BY <1>2
    <2>8. \A c \in Group' : /\ Keyed(store'[c].cliques, store'[c].ske, c, drawn')
                            /\ Group' \subseteq store'[c].ske.members
                            /\ store'[c].ske.members \subseteq Client
      BY <2>3, <2>5
    <2>9. \A c, d \in Group' :
             SameKeys(store'[c].cliques, store'[c].ske, store'[d].cliques, store'[d].ske)
      BY <2>3, <2>6
    <2> QED
      BY <1>2, <2>4, <2>7, <2>8, <2>9 DEF StoresKeyed
  <1> QED
    BY <1>4, <1>5

(* The result, and confirmations of it.                                    *)
LEMMA SettledDelivered ==
    ASSUME drawn \in [Client -> Nat], StoresKeyed, proposals' = {},
           NEW pkt, NEW to, to \subseteq Client, pkt.src \in to, NEW rest, NEW gs, NEW hs,
           NEW sums, StepTo(hs, pkt, to, rest, gs, sums), ~ IsUpflow(pkt),
           Settled(hs, to, drawn),
           Heard(hs, to) # to => /\ Confirming(hs, rest \cup Answers(gs, hs, pkt, sums), to, drawn)
                                 /\ Excluded(hs, to)
    PROVE  KeyInv'
  <1>1. drawn' = drawn /\ Grows(drawn, drawn')
    BY DEF StepTo, AnswersUpflow
  <1>2. Handled(pkt, to, rest, gs, hs, sums)
    BY DEF StepTo
  <1>3. CASE Heard(hs, to) = to
    <2>1. /\ StoresKeyed' /\ next' = {} /\ flight' = {}
          /\ greeting' = [c \in Client |-> NoGreeting]
      BY <1>1, <1>2, <1>3, Finishes
    <2>2. NoGreeting.err = FALSE
      BY DEF NoGreeting, NewGreeting
    <2>3. /\ greeting' = [c \in Client |-> greeting'[c]]
          /\ \A c \in Client : greeting'[c].err = FALSE
      BY <2>1, <2>2
    <2>4. ProposalsFit' /\ OperationFits'
      BY <2>1 DEF ProposalsFit, OperationFits
    <2> QED
      BY <1>1, <2>1, <2>3, <2>4 DEF KeyInv
  <1>4. CASE Heard(hs, to) # to
    <2>1. \A c \in to : hs[c].fin = 0 /\ hs[c].err = FALSE
      <3>1. \A c \in to : TakesPart(hs[c], to)
        BY <1>4, SettledOnesWait
      <3> QED
        BY <3>1 DEF TakesPart
    <2>2. \A c \in to : hs[c].fin = 0
      BY <2>1
    <2>3. /\ store' = store /\ next' = to /\ greeting' = hs
          /\ flight' = rest \cup Answers(gs, hs, pkt, sums)
      BY <1>2, <2>2, NotDone
    <2>4. StoresKeyed' /\ Group' = Group
      BY <1>1, <2>3, StoresStay
    <2>5. \A c \in Client : hs[c].err = FALSE
      BY <1>4, <2>1 DEF Excluded
    <2>6. Excluded(greeting, next)'
      BY <1>4, <2>3, <2>4 DEF Excluded
    <2>7. Confirming(greeting', flight', next', drawn')
      BY <1>1, <1>4, <2>3
    <2>8. IsUnderWay'
      BY <2>6, <2>7 DEF IsUnderWay
    <2>9. greeting' = [c \in Client |-> greeting'[c]]
      BY <2>3 DEF StepTo
    <2>10. ProposalsFit' /\ OperationFits'
      BY <2>3, <2>8 DEF ProposalsFit, OperationFits
    <2> QED
      BY <1>1, <2>3, <2>4, <2>5, <2>9, <2>10 DEF KeyInv
  <1> QED
    BY <1>3, <1>4

(* All members receive the packet.                                         *)
LEMMA StepReceives ==
    ASSUME NEW pkt, NEW to, NEW rest, NEW gs, NEW hs, NEW sums,
           StepTo(hs, pkt, to, rest, gs, sums)
    PROVE  Receives(gs, hs, to, pkt) /\ ReachesExcluded(gs, hs, to, pkt)
  BY DEF StepTo, Receives

(* An upflow or the broadcast, delivered, keeps the invariant.             *)
LEMMA StageDelivered ==
    ASSUME drawn \in [Client -> Nat], StoresKeyed, proposals' = {},
           NEW pkt, NEW to, to \subseteq Client, NEW gs, NEW sums,
           Delivered(pkt, to, {}, gs, to \cup Group, sums), \A c \in Client : gs[c].err = FALSE,
           Stage(gs, pkt, to, drawn)
    PROVE  KeyInv'
  <1>1. PICK hs : StepTo(hs, pkt, to, {}, gs, sums)
    BY DeliveredSteps
  <1>2. CASE Upward(gs, pkt, to, drawn) /\ Group \subseteq to
    BY <1>1, <1>2, UpwardDelivered
  <1>3. CASE Downward(gs, pkt, to, drawn) /\ Excluded(gs, to)
    <2>1. Receives(gs, hs, to, pkt) /\ ReachesExcluded(gs, hs, to, pkt)
      BY <1>1, StepReceives
    <2>2. Settled(hs, to, drawn) /\ pkt.src \in to
      BY <1>3, <2>1, ResultSettles
    <2>3. ~ IsUpflow(pkt)
      BY <1>3 DEF Downward, IsUpflow
    <2>4. ASSUME Heard(hs, to) # to
          PROVE  /\ Confirming(hs, {} \cup Answers(gs, hs, pkt, sums), to, drawn)
                 /\ Excluded(hs, to)
      <3>1. {} \cup Answers(gs, hs, pkt, sums) = Answers(gs, hs, pkt, sums)
        OBVIOUS
      <3> QED
        BY <1>3, <2>1, <2>4, <3>1, ResultGoesOn
    <2> QED
      BY <1>1, <2>2, <2>3, <2>4, SettledDelivered
  <1> QED
    BY <1>2, <1>3 DEF Stage

(* So does a confirmation.                                                 *)
LEMMA ConfirmationDelivered ==
    ASSUME drawn \in [Client -> Nat], StoresKeyed, proposals' = {},
           NEW packets, NEW pkt \in packets, NEW to, to \subseteq Client, NEW gs, NEW sums,
           Delivered(pkt, to, packets \ {pkt}, gs, to \cup Group, sums),
           Confirming(gs, packets, to, drawn), Excluded(gs, to)
    PROVE  KeyInv'
  <1>1. PICK hs : StepTo(hs, pkt, to, packets \ {pkt}, gs, sums)
    BY DeliveredSteps
  <1>2. Receives(gs, hs, to, pkt) /\ ReachesExcluded(gs, hs, to, pkt)
    BY <1>1, StepReceives
  <1>3. Settled(hs, to, drawn)
    BY <1>2, ConfirmationSettles
  <1>4. ~ IsUpflow(pkt) /\ pkt.src \in to
    BY DEF Confirming, Confirms, IsUpflow
  <1>5. ASSUME Heard(hs, to) # to
        PROVE  /\ Confirming(hs, (packets \ {pkt}) \cup Answers(gs, hs, pkt, sums), to, drawn)
               /\ Excluded(hs, to)
    BY <1>2, <1>5, ConfirmationGoesOn
  <1> QED
    BY <1>1, <1>3, <1>4, <1>5, SettledDelivered

-----------------------------------------------------------------------------
(* Proposals.  What the operations that make one change, field by field.   *)
LEMMA JoinFacts ==
    ASSUME NEW s, IsSke(s), NEW c, NEW members, NEW fresh, NEW r, r = Join(s, c, members, fresh)
    PROVE  /\ IsSke(r) /\ r.members = members /\ r.authd = {c} /\ r.nonce = fresh
           /\ r.nonces = Extend(s.nonces, c, fresh) /\ r.pubKeys = s.pubKeys
           /\ r.privKey = s.privKey /\ r.sid = ComputeSid(r.nonces)
  <1>1. PICK nonces, sid : nonces = Extend(s.nonces, c, fresh) /\ sid = ComputeSid(nonces)
    OBVIOUS
  <1>2. r = [s EXCEPT !.members = members, !.authd = {c}, !.nonce = fresh, !.nonces = nonces,
                      !.sid = sid]
    BY <1>1 DEF Join
  <1>3. IsSke(r)
    BY <1>2 DEF IsSke
  <1>4. r.members = members /\ r.authd = {c} /\ r.nonce = fresh
    BY <1>2 DEF IsSke
  <1>5. r.nonces = nonces /\ r.sid = sid
    BY <1>2 DEF IsSke
  <1>6. r.pubKeys = s.pubKeys /\ r.privKey = s.privKey
    BY <1>2 DEF IsSke
  <1> QED
    BY <1>1, <1>3, <1>4, <1>5, <1>6

HasRest(r, s, c, members, fresh) ==
    /\ IsSke(r) /\ r.members = members /\ r.authd = {c} /\ r.nonce = fresh
    /\ DOMAIN r.nonces = members /\ DOMAIN r.pubKeys = members
    /\ \A d \in members : /\ r.nonces[d] = IF d = c THEN fresh ELSE s.nonces[d]
                          /\ r.pubKeys[d] = s.pubKeys[d]
    /\ r.privKey = s.privKey /\ r.sid = ComputeSid(r.nonces)

(* exclude of the exchange: the others are left out, one nonce is new.     *)
LEMMA ExcludeFacts ==
    ASSUME NEW s, IsSke(s), NEW c, NEW members, NEW fresh,
           NEW r, r = Exclude(s, c, members, fresh)
    PROVE  HasRest(r, s, c, members, fresh)
  <1>1. PICK nonces, pubKeys, sid :
           /\ nonces = [d \in members |-> IF d = c THEN fresh ELSE s.nonces[d]]
           /\ pubKeys = [d \in members |-> s.pubKeys[d]] /\ sid = ComputeSid(nonces)
    OBVIOUS
  <1>2. r = [s EXCEPT !.members = members, !.authd = {c}, !.nonce = fresh, !.nonces = nonces,
                      !.pubKeys = pubKeys, !.sid = sid]
    BY <1>1 DEF Exclude
  <1>3. IsSke(r)
    BY <1>2 DEF IsSke
  <1>4. r.members = members /\ r.authd = {c} /\ r.nonce = fresh
    BY <1>2 DEF IsSke
  <1>5. r.nonces = nonces /\ r.sid = sid
    BY <1>2 DEF IsSke
  <1>6. r.pubKeys = pubKeys /\ r.privKey = s.privKey
    BY <1>2 DEF IsSke
  <1>7. /\ DOMAIN nonces = members /\ DOMAIN pubKeys = members
        /\ \A d \in members : /\ nonces[d] = IF d = c THEN fresh ELSE s.nonces[d]
                              /\ pubKeys[d] = s.pubKeys[d]
    BY <1>1
  <1> QED
    BY <1>1, <1>3, <1>4, <1>5, <1>6, <1>7 DEF HasRest

HasJoined(r, m, c, e, p) ==
    /\ IsCliques(r) /\ r.privKeys = m.privKeys \cup {p}
    /\ DOMAIN r.intKeys = DOMAIN m.intKeys \cup {e}
    /\ r.intKeys[e] = ComputeKeyList(m.privKeys \cup {p}, m.intKeys[c])
    /\ \A d \in DOMAIN m.intKeys :
          r.intKeys[d] = IF d = c THEN m.intKeys[d] ELSE ScalarMult(p, m.intKeys[d])

(* akaJoin: the keys of the members are multiplied with a new private key. *)
LEMMA AkaJoinFacts ==
    ASSUME NEW m, IsCliques(m), NEW c, c \in DOMAIN m.intKeys, NEW route, NEW members, NEW p,
           Head(route) \notin DOMAIN m.intKeys, NEW r, r = AkaJoin(m, c, route, members, p)
    PROVE  HasJoined(r, m, c, Head(route), p)
  <1>1. PICK e, n, q : /\ e = Head(route) /\ n = [m EXCEPT !.members = members]
                       /\ q = RenewPrivKey(n, c, p)
    OBVIOUS
  <1>2. IsCliques(n) /\ n.intKeys = m.intKeys /\ n.privKeys = m.privKeys
    BY <1>1 DEF IsCliques
  <1>3. /\ IsCliques(q) /\ q.privKeys = m.privKeys \cup {p} /\ DOMAIN q.intKeys = DOMAIN m.intKeys
        /\ \A d \in DOMAIN m.intKeys :
              q.intKeys[d] = IF d = c THEN m.intKeys[d] ELSE ScalarMult(p, m.intKeys[d])
        /\ q.intKeys = [d \in DOMAIN q.intKeys |-> q.intKeys[d]]
    <2>1. q = RenewPrivKey(n, c, p)
      BY <1>1
    <2> QED
      BY <1>2, <2>1, RenewFacts
  <1>4. r = AddCardinal(q, c, e)
    BY <1>1 DEF AkaJoin
  <1>5. /\ IsCliques(r) /\ r.privKeys = q.privKeys
        /\ DOMAIN r.intKeys = DOMAIN q.intKeys \cup {e} /\ r.intKeys[e] = Cardinal(q, c)
        /\ \A d \in DOMAIN q.intKeys : d # e => r.intKeys[d] = q.intKeys[d]
        /\ r.intKeys = [d \in DOMAIN r.intKeys |-> r.intKeys[d]]
    <2>1. IsCliques(q)
      BY <1>3
    <2> QED
      BY <1>4, <2>1, AddCardinalFacts
  <1>6. q.intKeys[c] = m.intKeys[c]
    BY <1>2, <1>3
  <1>7. Cardinal(q, c) = ComputeKeyList(m.privKeys \cup {p}, m.intKeys[c])
    BY <1>2, <1>3, <1>6 DEF Cardinal
  <1> QED
    BY <1>1, <1>2, <1>3, <1>5, <1>7 DEF HasJoined

HasExcluded(r, m, c, members, p) ==
    /\ IsCliques(r) /\ r.privKeys = m.privKeys \cup {p}
    /\ DOMAIN r.intKeys = members /\ r.intKeys = [d \in DOMAIN r.intKeys |-> r.intKeys[d]]
    /\ r.groupKey = DeriveGroupKey(ComputeKeyList(m.privKeys \cup {p}, m.intKeys[c]))
    /\ \A d \in members :
          r.intKeys[d] = IF d = c THEN m.intKeys[d] ELSE ScalarMult(p, m.intKeys[d])

(* akaExclude: the same for the members that are left.                     *)
LEMMA AkaExcludeFacts ==
    ASSUME NEW m, IsCliques(m), NEW c, NEW members, c \in members,
           members \subseteq DOMAIN m.intKeys, NEW p,
           NEW r, r = AkaExclude(m, c, members, p)
    PROVE  HasExcluded(r, m, c, members, p)
  <1>1. PICK i : i = [d \in members |-> m.intKeys[d]]
    OBVIOUS
  <1>2. PICK n, q : n = [m EXCEPT !.members = members, !.intKeys = i] /\ q = RenewPrivKey(n, c, p)
    OBVIOUS
  <1>3. IsCliques(n) /\ n.intKeys = i /\ n.privKeys = m.privKeys
    BY <1>2 DEF IsCliques
  <1>4. DOMAIN i = members /\ \A d \in members : i[d] = m.intKeys[d]
    BY <1>1
  <1>5. /\ IsCliques(q) /\ q.privKeys = m.privKeys \cup {p} /\ DOMAIN q.intKeys = DOMAIN i
        /\ \A d \in DOMAIN i : q.intKeys[d] = IF d = c THEN i[d] ELSE ScalarMult(p, i[d])
        /\ q.intKeys = [d \in DOMAIN q.intKeys |-> q.intKeys[d]]
    <2>1. q = RenewPrivKey(n, c, p)
      BY <1>2
    <2> QED
      BY <1>3, <2>1, RenewFacts
  <1>6. PICK key : key = DeriveGroupKey(Cardinal(q, c))
    OBVIOUS
  <1>7. r = [q EXCEPT !.groupKey = key]
    BY <1>1, <1>2, <1>6 DEF AkaExclude
  <1>8. IsCliques(r) /\ r.groupKey = key /\ r.privKeys = q.privKeys /\ r.intKeys = q.intKeys
    BY <1>5, <1>7, SetGroupKeyFacts
  <1>9. q.intKeys[c] = m.intKeys[c]
    BY <1>3, <1>4, <1>5
  <1>10. Cardinal(q, c) = ComputeKeyList(m.privKeys \cup {p}, m.intKeys[c])
    BY <1>3, <1>5, <1>9 DEF Cardinal
  <1> QED
    BY <1>3, <1>4, <1>5, <1>6, <1>8, <1>10 DEF HasExcluded

(* The greetings that a proposal begins with.                              *)
MadeOf(g, n, k, s, to) ==
    /\ IsGreeting(g) /\ g.cliques = k /\ g.ske = s /\ g.next = to
    /\ g.recvOwn = n.recvOwn /\ g.quit = n.quit /\ g.fin = n.fin /\ g.err = n.err

(* The greeting of a member that proposes an operation.                    *)
LEMMA GreetingMade ==
    ASSUME NEW n, IsGreeting(n), NEW k, NEW s, NEW to, NEW g,
           g = [[n EXCEPT !.cliques = k, !.ske = s] EXCEPT !.next = to]
    PROVE  MadeOf(g, n, k, s, to)
  <1>1. PICK h : h = [n EXCEPT !.cliques = k, !.ske = s]
    OBVIOUS
  <1>2. IsGreeting(h)
    BY <1>1 DEF IsGreeting
  <1>3. h.cliques = k /\ h.ske = s /\ h.recvOwn = n.recvOwn
    BY <1>1 DEF IsGreeting
  <1>4. h.quit = n.quit /\ h.fin = n.fin /\ h.err = n.err
    BY <1>1 DEF IsGreeting
  <1>5. g = [h EXCEPT !.next = to]
    BY <1>1
  <1>6. IsGreeting(g)
    BY <1>2, <1>5 DEF IsGreeting
  <1>7. g.cliques = h.cliques /\ g.ske = h.ske /\ g.next = to
    BY <1>2, <1>5 DEF IsGreeting
  <1>8. g.recvOwn = h.recvOwn /\ g.quit = h.quit
    BY <1>2, <1>5 DEF IsGreeting
  <1>9. g.fin = h.fin /\ g.err = h.err
    BY <1>2, <1>5 DEF IsGreeting
  <1> QED
    BY <1>3, <1>4, <1>6, <1>7, <1>8, <1>9 DEF MadeOf

(* What a member knows that starts from its store.                         *)
Resumes(g, st) ==
    /\ IsGreeting(g) /\ g.cliques = st.cliques /\ g.recvOwn = FALSE /\ g.next = {}
    /\ g.quit = FALSE /\ g.fin = 0 /\ g.err = FALSE
    /\ IsSke(g.ske) /\ g.ske.members = st.ske.members /\ g.ske.nonces = st.ske.nonces
    /\ g.ske.pubKeys = st.ske.pubKeys /\ g.ske.sid = st.ske.sid /\ g.ske.nonce = st.ske.nonce
    /\ g.ske.privKey = st.ske.privKey /\ g.ske.authd = {}

(* A new greeting goes on from what the last one left.                     *)
LEMMA NewGreetingResumes ==
    ASSUME NEW st, IsSke(st.ske), NEW g, g = NewGreeting(st)
    PROVE  Resumes(g, st)
  <1>1. PICK k, s, t : k = st.cliques /\ s = st.ske /\ t = [s EXCEPT !.authd = {}]
    OBVIOUS
  <1>2. g = [cliques |-> k, ske |-> t, next |-> {}, recvOwn |-> FALSE, quit |-> FALSE,
             fin |-> 0, err |-> FALSE]
    BY <1>1 DEF NewGreeting
  <1>3. IsGreeting(g)
    BY <1>2 DEF IsGreeting
  <1>4. g.cliques = k /\ g.ske = t /\ g.recvOwn = FALSE /\ g.next = {}
    BY <1>2
  <1>5. g.quit = FALSE /\ g.fin = 0 /\ g.err = FALSE
    BY <1>2
  <1>6. IsSke(t)
    BY <1>1 DEF IsSke
  <1>7. t.members = s.members /\ t.nonces = s.nonces /\ t.pubKeys = s.pubKeys
    BY <1>1 DEF IsSke
  <1>8. t.sid = s.sid /\ t.nonce = s.nonce /\ t.privKey = s.privKey /\ t.authd = {}
    BY <1>1 DEF IsSke
  <1> QED
    BY <1>1, <1>3, <1>4, <1>5, <1>6, <1>7, <1>8 DEF Resumes

(* What a client keeps that is in no session.                              *)
LEMMA EmptyStore ==
    /\ IsCliques(NoStore.cliques) /\ IsSke(NoStore.ske)
    /\ NoStore.cliques = NewCliquesMember /\ NoStore.cliques.privKeys = {}
    /\ NoStore.ske.privKey = NoValue /\ NoStore.ske.sid = NoValue
    /\ DOMAIN NoStore.ske.pubKeys = {}
  <1>1. NoStore.cliques = NewCliquesMember /\ NoStore.ske = NewSkeMember
    BY DEF NoStore
  <1>2. IsCliques(NewCliquesMember) /\ NewCliquesMember.privKeys = {}
    BY DEF NewCliquesMember, IsCliques
  <1>3. /\ IsSke(NewSkeMember) /\ NewSkeMember.privKey = NoValue /\ NewSkeMember.sid = NoValue
        /\ NewSkeMember.pubKeys = <<>>
    BY DEF NewSkeMember, IsSke, NoValue
  <1>4. DOMAIN <<>> = {}
    OBVIOUS
  <1> QED
    BY <1>1, <1>2, <1>3, <1>4

(* Whoever takes part in an operation has no result of it at first.        *)
LEMMA StoreResumes ==
    ASSUME StoresKeyed, NEW c \in Client, NEW to, NEW g, g = NewGreeting(store[c])
    PROVE  /\ Resumes(g, store[c]) /\ Waits(g, c, to, drawn) /\ KnowsOld(g.ske, drawn)
           /\ c \notin Group => g.cliques.privKeys = {} /\ g.ske.privKey = NoValue
  <1>1. CASE c \in Group
    <2>1. PICK k, s : k = store[c].cliques /\ s = store[c].ske
      OBVIOUS
    <2>2. Keyed(k, s, c, drawn) /\ s.members \subseteq Client
      BY <1>1, <2>1 DEF StoresKeyed
    <2>3. Resumes(g, store[c])
      BY <2>1, <2>2, NewGreetingResumes DEF Keyed
    <2>4. Waits(g, c, to, drawn)
      BY <2>1, <2>2, <2>3 DEF Resumes, Waits, TakesPart, Keyed
    <2>5. s.sid[2] = s.nonces
      BY <2>2 DEF Keyed, ComputeSid
    <2>6. KnowsOld(s, drawn)
      BY <2>2, <2>5 DEF KnowsOld, Keyed
    <2>7. KnowsOld(g.ske, drawn)
      BY <2>1, <2>3, <2>6 DEF KnowsOld, Resumes
    <2> QED
      BY <1>1, <2>3, <2>4, <2>7
  <1>2. CASE c \notin Group
    <2>1. store[c] = NoStore
      BY <1>2 DEF Group
    <2>2. Resumes(g, store[c])
      BY <2>1, EmptyStore, NewGreetingResumes
    <2>3. Waits(g, c, to, drawn)
      BY <2>1, <2>2, EmptyStore DEF Resumes, Waits, TakesPart
    <2>4. KnowsOld(g.ske, drawn) /\ g.cliques.privKeys = {} /\ g.ske.privKey = NoValue
      BY <2>1, <2>2, EmptyStore DEF Resumes, KnowsOld
    <2> QED
      BY <2>2, <2>3, <2>4
  <1> QED
    BY <1>1, <1>2

(* With a new private key of c, all members compute the same cardinal key. *)
Renewed(c, p) == ComputeKeyList(store[c].cliques.privKeys \cup {p}, store[c].cliques.intKeys[c])

(* The others multiply what they are sent to the same cardinal key.        *)
LEMMA RenewedFits ==
    ASSUME StoresKeyed, NEW c \in Group, NEW d \in Group, d # c,
           NEW p \in PrivKey, p \notin store[c].cliques.privKeys
    PROVE  /\ Renewed(c, p) \in Key
           /\ ScalarMult(p, store[c].cliques.intKeys[d]) \in Key
           /\ ComputeKeyList(store[d].cliques.privKeys, ScalarMult(p, store[c].cliques.intKeys[d]))
                 = Renewed(c, p)
  <1>1. PICK i, P, Q : /\ i = store[c].cliques.intKeys
                       /\ P = store[c].cliques.privKeys /\ Q = store[d].cliques.privKeys
    OBVIOUS
  <1>2. i[c] \in Key /\ i[d] \in Key
    <2>1. i \in [store[c].ske.members -> Key] /\ c \in store[c].ske.members
      BY <1>1 DEF StoresKeyed, Keyed
    <2>2. d \in store[c].ske.members
      BY DEF StoresKeyed
    <2> QED
      BY <2>1, <2>2
  <1>3. ComputeKeyList(Q, i[d]) = ComputeKeyList(P, i[c])
    <2>1. /\ store[c].cliques.groupKey = DeriveGroupKey(ComputeKeyList(P, i[c]))
          /\ store[d].cliques.groupKey = DeriveGroupKey(ComputeKeyList(Q, i[d]))
      <3>1. store[d].cliques.intKeys = i
        BY <1>1 DEF StoresKeyed, SameKeys
      <3> QED
        BY <1>1, <3>1 DEF StoresKeyed, Keyed, Cardinal
    <2>2. store[c].cliques.groupKey = store[d].cliques.groupKey
      BY DEF StoresKeyed, SameKeys
    <2>3. \A x : DeriveGroupKey(x)[2] = x
      BY DEF DeriveGroupKey
    <2>4. DeriveGroupKey(ComputeKeyList(P, i[c])) = DeriveGroupKey(ComputeKeyList(Q, i[d]))
      BY <2>1, <2>2
    <2> QED
      BY <2>3, <2>4
  <1>4. ComputeKeyList(Q, ScalarMult(p, i[d])) = ScalarMult(p, ComputeKeyList(Q, i[d]))
    BY <1>2, MultCommutes
  <1>5. ComputeKeyList(P \cup {p}, i[c]) = ScalarMult(p, ComputeKeyList(P, i[c]))
    BY <1>1, <1>2, MultOwn
  <1>6. ComputeKeyList(P \cup {p}, i[c]) \in Key /\ ScalarMult(p, i[d]) \in Key
    BY <1>2, KeyListType, ScalarMultType
  <1> QED
    BY <1>1, <1>3, <1>4, <1>5, <1>6 DEF Renewed

(* start: nobody has a session.                                            *)
LEMMA StartFits ==
    ASSUME drawn \in [Client -> Nat], StoresKeyed, Group = {},
           NEW c \in Client, MayDraw(c), NEW route \in Routes, route # <<>>,
           c \notin Range(route), NEW to, to = {c} \cup Range(route),
           NEW g, g = StartGreeting(c, route, to),
           NEW pkt, pkt = StartPacket(c, route, to, g),
           NEW dr2, Grows(drawn, dr2), dr2[c] = drawn[c] + 1,
           NEW gs, gs[c] = [g EXCEPT !.next = to],
           \A d \in Client \ {c} : gs[d] = NewGreeting(store[d])
    PROVE  to \subseteq Client /\ Stage(gs, pkt, to, dr2)
  <1> DEFINE all == <<c>> \o route
             base == [d \in {c} |-> Base]
             hs == [d \in Client |-> NewGreeting(store[d])]
  <1>1. route \in Seq(Client) /\ IsInjective(route)
    BY RoutesAssumption
  <1>2. /\ all \in Seq(Client) /\ IsInjective(all) /\ Range(all) = to /\ to \subseteq Client
        /\ Head(all) = c /\ Tail(all) = route /\ Len(all) # 1 /\ all # <<>>
    <2>1. /\ Len(route) \in Nat \ {0} /\ DOMAIN route = 1 .. Len(route)
          /\ \A i \in 1 .. Len(route) : route[i] \in Client
      BY <1>1
    <2>2. /\ all \in Seq(Client) /\ Len(all) = Len(route) + 1 /\ all[1] = c
          /\ DOMAIN all = 1 .. Len(route) + 1
          /\ \A i \in 2 .. Len(route) + 1 : all[i] = route[i - 1] /\ i - 1 \in 1 .. Len(route)
      BY <1>1, <2>1
    <2>3. Range(all) \subseteq to
      BY <2>1, <2>2 DEF Range
    <2>4. to \subseteq Range(all)
      <3>1. ASSUME NEW i \in 1 .. Len(route) PROVE route[i] \in Range(all)
        <4>1. i + 1 \in 2 .. Len(route) + 1 /\ (i + 1) - 1 = i
          BY <2>1
        <4>2. all[i + 1] = route[i] /\ i + 1 \in DOMAIN all
          BY <2>1, <2>2, <4>1
        <4> QED
          BY <4>2 DEF Range
      <3>2. c \in Range(all)
        BY <2>1, <2>2 DEF Range
      <3>3. Range(route) \subseteq Range(all)
        <4> SUFFICES ASSUME NEW x \in Range(route) PROVE x \in Range(all)
          OBVIOUS
        <4>1. PICK i \in 1 .. Len(route) : x = route[i]
          BY <2>1 DEF Range
        <4> QED
          BY <3>1, <4>1
      <3> QED
        BY <3>2, <3>3
    <2>5. ASSUME NEW i \in 1 .. Len(route) + 1, NEW j \in 1 .. Len(route) + 1,
                 all[i] = all[j], i < j
          PROVE  FALSE
      <3>1. all[j] = route[j - 1] /\ j - 1 \in 1 .. Len(route)
        BY <2>1, <2>2, <2>5
      <3>2. CASE i = 1
        BY <2>1, <2>2, <2>5, <3>1, <3>2 DEF Range
      <3>3. CASE i # 1
        <4>1. all[i] = route[i - 1] /\ i - 1 \in 1 .. Len(route)
          BY <2>1, <2>2, <3>3
        <4> QED
          BY <1>1, <2>1, <2>5, <3>1, <4>1 DEF IsInjective
      <3> QED
        BY <3>2, <3>3
    <2>6. IsInjective(all)
      <3> HIDE DEF all
      <3>1. \A i, j \in 1 .. Len(route) + 1 : all[i] = all[j] => ~ (i < j) /\ ~ (j < i)
        BY <2>5
      <3> QED
        BY <2>1, <2>2, <3>1 DEF IsInjective
    <2>7. to \subseteq Client
      BY <2>1 DEF Range
    <2>8. Head(all) = c /\ Tail(all) = route
      BY <1>1
    <2> HIDE DEF all
    <2>9. Len(all) # 1 /\ all # <<>>
      BY <2>1, <2>2
    <2>10. Range(all) = to
      BY <2>3, <2>4
    <2> QED
      BY <2>2, <2>6, <2>7, <2>8, <2>9, <2>10
  <1> HIDE DEF all
  <1>3. \A d \in Client : /\ Resumes(hs[d], store[d]) /\ Waits(hs[d], d, to, drawn)
                          /\ KnowsOld(hs[d].ske, drawn)
                          /\ hs[d].cliques.privKeys = {} /\ hs[d].ske.privKey = NoValue
    <2> SUFFICES ASSUME NEW d \in Client
                 PROVE  /\ Resumes(hs[d], store[d]) /\ Waits(hs[d], d, to, drawn)
                        /\ KnowsOld(hs[d].ske, drawn)
                        /\ hs[d].cliques.privKeys = {} /\ hs[d].ske.privKey = NoValue
      OBVIOUS
    <2>1. hs[d] = NewGreeting(store[d])
      OBVIOUS
    <2> HIDE DEF hs
    <2> QED
      BY <2>1, StoreResumes
  <1>4. \A d \in Client : d # c => gs[d] = hs[d]
    OBVIOUS
  <1> HIDE DEF hs
  <1>5. Collected(hs, all, base, NoValue, NoValue, to, drawn)
    <2>1. DOMAIN base = {c} /\ base[c] = Base /\ Base \in Key /\ DOMAIN NoValue = {}
      BY DEF Base, Key, NoValue
    <2> HIDE DEF base
    <2> QED
      BY <1>2, <1>3, <2>1 DEF Collected
  <1>6. PICK km, sm : km = IkaMessage(c, route, to) /\ sm = CommitMessage(c, route, to)
    OBVIOUS
  <1>7. /\ km.route = all /\ km.intKeys = base
        /\ sm.route = all /\ sm.members = to /\ sm.nonces = NoValue /\ sm.pubKeys = NoValue
    BY <1>6 DEF IkaMessage, CommitMessage, CliquesMessage, SkeMessage, all
  <1>8. MadeOf(gs[c], NoGreeting, CliquesUpflow(NewCliquesMember, c, km, Fresh(c)),
               SkeUpflow(NewSkeMember, c, sm, Fresh(c)), to)
    <2>1. PICK k, s : /\ k = CliquesUpflow(NewCliquesMember, c, km, Fresh(c))
                      /\ s = SkeUpflow(NewSkeMember, c, sm, Fresh(c))
      OBVIOUS
    <2>2. IsGreeting(NoGreeting)
      BY EmptyStore, NewGreetingResumes DEF NoGreeting, Resumes
    <2>3. gs[c] = [[NoGreeting EXCEPT !.cliques = k, !.ske = s] EXCEPT !.next = to]
      BY <1>6, <2>1 DEF StartGreeting, Ika, Commit
    <2>4. MadeOf(gs[c], NoGreeting, k, s, to)
      BY <2>2, <2>3, GreetingMade
    <2> QED
      BY <2>1, <2>4
  <1>9. /\ hs[c].cliques = NewCliquesMember /\ hs[c].ske = NewSkeMember
        /\ hs[c] = NoGreeting
    <2>1. hs[c] = NoGreeting
      BY DEF hs, Group, NoGreeting
    <2>2. NoGreeting.cliques = NewCliquesMember
      BY DEF NoGreeting, NewGreeting, NoStore
    <2>3. NoGreeting.ske = NewSkeMember
      BY DEF NoGreeting, NewGreeting, NoStore, NewSkeMember
    <2> QED
      BY <2>1, <2>2, <2>3
  <1>10. AddsTo(hs, gs, all, base, NoValue, NoValue, to, c, Fresh(c))
    <2>1. ASSUME NEW d \in to, d # c
          PROVE  /\ TakesPart(gs[d], to) /\ gs[d].recvOwn = FALSE
                 /\ gs[d].cliques = hs[d].cliques /\ gs[d].ske = hs[d].ske
      BY <1>2, <1>3, <1>4, <2>1 DEF Waits
    <2>2. /\ gs[c].cliques = CliquesUpflow(hs[c].cliques, c, km, Fresh(c))
          /\ gs[c].ske = SkeUpflow(hs[c].ske, c, sm, Fresh(c)) /\ IsGreeting(gs[c])
          /\ gs[c].next = to
      BY <1>8, <1>9 DEF MadeOf
    <2>3. gs[c].recvOwn = FALSE /\ gs[c].quit = FALSE /\ gs[c].fin = 0 /\ gs[c].err = FALSE
      BY <1>2, <1>3, <1>8, <1>9 DEF MadeOf, Resumes
    <2> QED
      BY <1>7, <2>1, <2>2, <2>3 DEF AddsTo
  <1>11. /\ Fresh(c) \in PrivKey /\ Fresh(c) # NoValue /\ Fresh(c) \in Drawn(dr2, c)
    <2>1. Fresh(c) \in Drawn(dr2, c)
      BY FreshIsDrawn DEF Fresh
    <2> QED
      BY <2>1, FreshIsKey
  <1>12. Collected(gs, route, gs[c].cliques.intKeys, gs[c].ske.nonces, gs[c].ske.pubKeys, to, dr2)
    BY <1>2, <1>5, <1>10, <1>11, CollectedByOneMore
  <1>13. gs[c].ske.pubKeys[c] = ToPublicKey(gs[c].ske.privKey)
    <2>1. ValuesAdded(hs, gs, all, to, c, Fresh(c), dr2)
      BY <1>2, <1>5, <1>10, <1>11, AddedValues
    <2>2. Contributed(gs[c].ske.nonces, gs[c].ske.pubKeys, gs[c].ske, c, dr2)
      BY <2>1 DEF ValuesAdded
    <2> QED
      BY <2>2 DEF Contributed
  <1>14. g.cliques = gs[c].cliques /\ g.ske = gs[c].ske
    <2>1. PICK k, s : /\ k = CliquesUpflow(NewCliquesMember, c, km, Fresh(c))
                      /\ s = SkeUpflow(NewSkeMember, c, sm, Fresh(c))
      OBVIOUS
    <2>2. g = [NoGreeting EXCEPT !.cliques = k, !.ske = s]
      BY <1>6, <2>1 DEF StartGreeting, Ika, Commit
    <2>3. IsGreeting(NoGreeting)
      BY EmptyStore, NewGreetingResumes DEF NoGreeting, Resumes
    <2>4. g.cliques = k /\ g.ske = s
      BY <2>2, <2>3 DEF IsGreeting
    <2> QED
      BY <1>8, <2>1, <2>4 DEF MadeOf
  <1>15. /\ pkt.route = route /\ pkt.members = to /\ pkt.src = c
         /\ pkt.intKeys = g.cliques.intKeys /\ pkt.nonces = g.ske.nonces
         /\ pkt.pubKeys = g.ske.pubKeys /\ pkt.signedBy = ToPublicKey(g.ske.privKey)
    <2>1. /\ pkt.route = Tail(sm.route) /\ pkt.members = sm.members /\ pkt.src = c
          /\ pkt.intKeys = g.cliques.intKeys /\ pkt.nonces = g.ske.nonces
          /\ pkt.pubKeys = g.ske.pubKeys /\ pkt.signedBy = ToPublicKey(g.ske.privKey)
      BY <1>6 DEF StartPacket, Merge, CliquesAnswer, CliquesMessage, SkeAnswer, SkeMessage
    <2> QED
      BY <1>2, <1>7, <2>1
  <1>16. Upward(gs, pkt, to, dr2)
    <2>1. pkt.src \in to \ Range(pkt.route)
      BY <1>15
    <2>2. Collected(gs, pkt.route, pkt.intKeys, pkt.nonces, pkt.pubKeys, to, dr2)
      BY <1>12, <1>14, <1>15
    <2>3. pkt.signedBy = pkt.pubKeys[pkt.src]
      BY <1>13, <1>14, <1>15
    <2> QED
      BY <1>15, <2>1, <2>2, <2>3 DEF Upward
  <1> QED
    BY <1>2, <1>16 DEF Stage

(* What holds of the members of a session, when c renews its keys: of c    *)
(* itself, with what it made of its own, and of the others.                *)
LEMMA GroupFits ==
    ASSUME StoresKeyed, NEW c \in Group, NEW d \in Group
    PROVE  /\ d \in store[c].ske.members /\ store[c].ske.members \subseteq Client
           /\ store[d].ske.pubKeys = store[c].ske.pubKeys
           /\ store[d].ske.nonces = store[c].ske.nonces
           /\ store[c].ske.nonces[d] = store[d].ske.nonce
           /\ store[c].ske.nonces[d] \in Drawn(drawn, d)
           /\ store[d].ske.privKey # NoValue
           /\ store[c].ske.pubKeys[d] = ToPublicKey(store[d].ske.privKey)
  <1>1. d \in store[c].ske.members /\ store[c].ske.members \subseteq Client
    BY DEF StoresKeyed
  <1>2. /\ store[d].ske.pubKeys = store[c].ske.pubKeys
        /\ store[d].ske.nonces = store[c].ske.nonces
    BY DEF StoresKeyed, SameKeys
  <1>3. /\ store[d].ske.nonces[d] = store[d].ske.nonce /\ store[d].ske.privKey # NoValue
        /\ store[d].ske.pubKeys[d] = ToPublicKey(store[d].ske.privKey)
        /\ d \in store[d].ske.members
        /\ \A e \in store[d].ske.members : store[d].ske.nonces[e] \in Drawn(drawn, e)
    BY DEF StoresKeyed, Keyed
  <1> QED
    BY <1>1, <1>2, <1>3

OtherFits(g, d, to, dr, nonces, pubKeys, c, p) ==
    /\ Waits(g, d, to, dr) /\ KnowsOld(g.ske, dr)
    /\ Contributed(nonces, pubKeys, g.ske, d, dr) /\ KnowsKeys(pubKeys, g.ske, to)
    /\ ComputeKeyList(g.cliques.privKeys, ScalarMult(p, store[c].cliques.intKeys[d]))
          = Renewed(c, p)

(* So the others fit the packet that proposes a new private key.           *)
LEMMA OthersFit ==
    ASSUME StoresKeyed, NEW c \in Group, NEW d \in Group, d # c,
           NEW p \in PrivKey, p \notin store[c].cliques.privKeys,
           NEW to, NEW dr2, Grows(drawn, dr2), NEW nonces, NEW pubKeys,
           nonces[d] = store[c].ske.nonces[d],
           \A e \in to \cap store[c].ske.members :
              e \in DOMAIN pubKeys /\ pubKeys[e] = store[c].ske.pubKeys[e],
           d \in to,
           NEW g, g = NewGreeting(store[d])
    PROVE  OtherFits(g, d, to, dr2, nonces, pubKeys, c, p)
  <1>1. Resumes(g, store[d]) /\ Waits(g, d, to, drawn) /\ KnowsOld(g.ske, drawn) /\ d \in Client
    BY StoreResumes DEF Group
  <1>2. /\ g.cliques = store[d].cliques /\ g.ske.pubKeys = store[c].ske.pubKeys
        /\ g.ske.nonce = store[c].ske.nonces[d] /\ g.ske.privKey = store[d].ske.privKey
    BY <1>1, GroupFits DEF Resumes
  <1>3. Waits(g, d, to, dr2) /\ KnowsOld(g.ske, dr2)
    BY <1>1, WaitsGrows, KnowsOldGrows
  <1>4. Contributed(nonces, pubKeys, g.ske, d, dr2)
    <2>1. store[c].ske.nonces[d] \in Drawn(dr2, d)
      BY <1>1, GroupFits, DrawnGrows
    <2>2. d \in to \cap store[c].ske.members
      BY GroupFits
    <2> QED
      BY <1>2, <2>1, <2>2, GroupFits DEF Contributed
  <1>5. KnowsKeys(pubKeys, g.ske, to)
    <2>1. DOMAIN store[c].ske.pubKeys = store[c].ske.members
      BY DEF StoresKeyed, Keyed
    <2> QED
      BY <1>2, <2>1 DEF KnowsKeys
  <1> QED
    BY <1>2, <1>3, <1>4, <1>5, RenewedFits DEF OtherFits

(* include begins an operation well.                                       *)
LEMMA IncludeFits ==
    ASSUME drawn \in [Client -> Nat], StoresKeyed,
           NEW c \in Group, store[c].ske.members \subseteq Group, MayDraw(c),
           NEW route \in Routes, route # <<>>, Range(route) \cap store[c].ske.members = {},
           NEW to, to = store[c].ske.members \cup Range(route),
           NEW g, g = IncludeGreeting(c, NewGreeting(store[c]), route, to),
           NEW pkt, pkt = IncludePacket(c, route, to, g),
           NEW dr2, Grows(drawn, dr2), dr2[c] = drawn[c] + 1,
           NEW gs, gs[c] = [g EXCEPT !.next = to],
           \A d \in Client \ {c} : gs[d] = NewGreeting(store[d])
    PROVE  to \subseteq Client /\ Stage(gs, pkt, to, dr2)
  <1>1. PICK n, m, s, p : /\ n = NewGreeting(store[c]) /\ m = n.cliques /\ s = n.ske
                          /\ p = Fresh(c)
    OBVIOUS
  <1>2. PICK k, t : k = AkaJoin(m, c, route, to, p) /\ t = Join(s, c, to, p)
    OBVIOUS
  <1>3. PICK S : S = Group /\ S = store[c].ske.members
    <2>1. Group = store[c].ske.members
      BY DEF StoresKeyed
    <2> QED
      BY <2>1
  <1>4. c \in Client /\ S \subseteq Client /\ c \in S
    BY <1>3 DEF Group
  <1>5. /\ route \in Seq(Client) /\ IsInjective(route) /\ Range(route) \subseteq Client
        /\ Head(route) \in Range(route) /\ Head(route) \notin S
        /\ to \ Range(route) = S /\ to = S \cup Range(route)
    <2>1. route \in Seq(Client) /\ IsInjective(route)
      BY RoutesAssumption
    <2>2. Range(route) \subseteq Client
      BY <2>1 DEF Range
    <2>3. Head(route) \in Range(route)
      BY <2>1, RouteTail
    <2> QED
      BY <1>3, <2>1, <2>2, <2>3
  <1>6. /\ p \in PrivKey /\ p # NoValue /\ p \notin Drawn(drawn, c) /\ p \in Drawn(dr2, c)
    <2>1. p \in Drawn(dr2, c)
      BY <1>1, <1>4, FreshIsDrawn DEF Fresh
    <2> QED
      BY <1>1, <1>4, <2>1, FreshIsKey
  <1>7. Resumes(n, store[c]) /\ Waits(n, c, to, drawn)
    BY <1>1, <1>4, StoreResumes
  <1>8. /\ m = store[c].cliques /\ IsCliques(m) /\ IsSke(s)
        /\ m.privKeys \subseteq Drawn(drawn, c) /\ p \notin m.privKeys
        /\ m.intKeys \in [S -> Key] /\ DOMAIN s.nonces = S /\ DOMAIN s.pubKeys = S
        /\ s.nonces = store[c].ske.nonces /\ s.pubKeys = store[c].ske.pubKeys
        /\ s.privKey = store[c].ske.privKey
    <2>1. Keyed(store[c].cliques, store[c].ske, c, drawn)
      BY DEF StoresKeyed
    <2>2. m = store[c].cliques
      BY <1>1, <1>7 DEF Resumes
    <2>3. /\ IsSke(s) /\ s.nonces = store[c].ske.nonces /\ s.pubKeys = store[c].ske.pubKeys
          /\ s.privKey = store[c].ske.privKey
      BY <1>1, <1>7 DEF Resumes
    <2> QED
      BY <1>3, <1>6, <2>1, <2>2, <2>3 DEF Keyed
  <1>9. MadeOf(gs[c], n, k, t, to)
    <2>1. gs[c] = [[n EXCEPT !.cliques = k, !.ske = t] EXCEPT !.next = to]
      BY <1>1, <1>2 DEF IncludeGreeting
    <2> QED
      BY <1>7, <2>1, GreetingMade DEF Resumes
  <1>10. g.cliques = k /\ g.ske = t
    <2>1. g = [n EXCEPT !.cliques = k, !.ske = t] /\ IsGreeting(n)
      BY <1>1, <1>2, <1>7 DEF IncludeGreeting, Resumes
    <2> QED
      BY <2>1 DEF IsGreeting
  <1>11. /\ IsCliques(k) /\ k.privKeys = m.privKeys \cup {p}
         /\ DOMAIN k.intKeys = S \cup {Head(route)}
         /\ k.intKeys[Head(route)] = Renewed(c, p) /\ k.intKeys[c] = m.intKeys[c]
         /\ \A d \in S : d # c => k.intKeys[d] = ScalarMult(p, m.intKeys[d])
    <2>1. DOMAIN m.intKeys = S
      BY <1>8
    <2>2. c \in DOMAIN m.intKeys /\ Head(route) \notin DOMAIN m.intKeys
      BY <1>4, <1>5, <2>1
    <2>3. /\ IsCliques(k) /\ k.privKeys = m.privKeys \cup {p}
          /\ DOMAIN k.intKeys = DOMAIN m.intKeys \cup {Head(route)}
          /\ k.intKeys[Head(route)] = ComputeKeyList(m.privKeys \cup {p}, m.intKeys[c])
          /\ \A d \in DOMAIN m.intKeys :
                k.intKeys[d] = IF d = c THEN m.intKeys[d] ELSE ScalarMult(p, m.intKeys[d])
      <3>1. IsCliques(m) /\ k = AkaJoin(m, c, route, to, p)
        BY <1>2, <1>8
      <3>2. HasJoined(k, m, c, Head(route), p)
        BY <2>2, <3>1, AkaJoinFacts
      <3> QED
        BY <3>2 DEF HasJoined
    <2> QED
      BY <1>4, <1>8, <2>1, <2>3 DEF Renewed
  <1>12. /\ IsSke(t) /\ t.members = to /\ t.nonce = p /\ t.pubKeys = s.pubKeys
         /\ t.privKey = s.privKey /\ t.sid = ComputeSid(t.nonces)
         /\ DOMAIN t.nonces = S /\ t.nonces[c] = p
         /\ \A d \in S : d # c => t.nonces[d] = s.nonces[d]
    <2>1. /\ IsSke(t) /\ t.members = to /\ t.nonce = p /\ t.pubKeys = s.pubKeys
          /\ t.privKey = s.privKey /\ t.sid = ComputeSid(t.nonces)
          /\ t.nonces = Extend(s.nonces, c, p)
      BY <1>2, <1>8, JoinFacts
    <2>2. /\ DOMAIN Extend(s.nonces, c, p) = S /\ Extend(s.nonces, c, p)[c] = p
          /\ \A d \in S : d # c => Extend(s.nonces, c, p)[d] = s.nonces[d]
      BY <1>4, <1>8 DEF Extend
    <2> QED
      BY <2>1, <2>2
  <1>13. /\ gs[c].cliques = k /\ gs[c].ske = t /\ TakesPart(gs[c], to) /\ gs[c].recvOwn = FALSE
    BY <1>7, <1>9, <1>11, <1>12 DEF MadeOf, TakesPart, Resumes
  <1>14. Waits(gs[c], c, to, dr2)
    <2>1. m.privKeys \cup {p} \subseteq Drawn(dr2, c)
      BY <1>4, <1>6, <1>8, DrawnGrows
    <2> QED
      BY <1>11, <1>13, <2>1 DEF Waits
  <1>15. KnowsOld(gs[c].ske, dr2)
    <2>1. t.sid[2] = t.nonces
      BY <1>12 DEF ComputeSid
    <2>2. ASSUME NEW e \in S PROVE t.nonces[e] \in Drawn(dr2, e)
      <3>1. e # c => s.nonces[e] \in Drawn(drawn, e)
        BY <1>3, <1>8, GroupFits
      <3> QED
        BY <1>4, <1>6, <1>12, <3>1, DrawnGrows
    <2> QED
      BY <1>4, <1>12, <1>13, <2>1, <2>2 DEF KnowsOld
  <1>16. ASSUME NEW d \in S, d # c
         PROVE  /\ Waits(gs[d], d, to, dr2) /\ KnowsOld(gs[d].ske, dr2)
                /\ Contributed(t.nonces, t.pubKeys, gs[d].ske, d, dr2)
                /\ KnowsKeys(t.pubKeys, gs[d].ske, to)
                /\ ComputeKeyList(gs[d].cliques.privKeys, k.intKeys[d]) = Renewed(c, p)
                /\ k.intKeys[d] \in Key
    <2>1. gs[d] = NewGreeting(store[d])
      BY <1>4, <1>16
    <2>2. /\ t.nonces[d] = store[c].ske.nonces[d] /\ d \in to /\ d \in Group
          /\ \A e \in to \cap store[c].ske.members :
                e \in DOMAIN t.pubKeys /\ t.pubKeys[e] = store[c].ske.pubKeys[e]
      BY <1>3, <1>5, <1>8, <1>12, <1>16
    <2>3. /\ Waits(gs[d], d, to, dr2) /\ KnowsOld(gs[d].ske, dr2)
          /\ Contributed(t.nonces, t.pubKeys, gs[d].ske, d, dr2)
          /\ KnowsKeys(t.pubKeys, gs[d].ske, to)
          /\ ComputeKeyList(gs[d].cliques.privKeys, ScalarMult(p, store[c].cliques.intKeys[d]))
                = Renewed(c, p)
      <3>1. p \in PrivKey /\ p \notin store[c].cliques.privKeys
        BY <1>6, <1>8
      <3>2. OtherFits(gs[d], d, to, dr2, t.nonces, t.pubKeys, c, p)
        BY <1>16, <2>1, <2>2, <3>1, OthersFit
      <3> QED
        BY <3>2 DEF OtherFits
    <2>4. ScalarMult(p, store[c].cliques.intKeys[d]) \in Key
      BY <1>6, <1>8, <1>16, <2>2, RenewedFits
    <2> QED
      BY <1>8, <1>11, <1>16, <2>3, <2>4
  <1>17. /\ Contributed(t.nonces, t.pubKeys, gs[c].ske, c, dr2)
         /\ KnowsKeys(t.pubKeys, gs[c].ske, to)
         /\ ComputeKeyList(gs[c].cliques.privKeys, k.intKeys[c]) = Renewed(c, p)
    <2>1. /\ store[c].ske.privKey # NoValue
          /\ store[c].ske.pubKeys[c] = ToPublicKey(store[c].ske.privKey)
      BY GroupFits
    <2>2. Contributed(t.nonces, t.pubKeys, gs[c].ske, c, dr2)
      BY <1>6, <1>8, <1>12, <1>13, <2>1 DEF Contributed
    <2>3. KnowsKeys(t.pubKeys, gs[c].ske, to)
      BY <1>13 DEF KnowsKeys
    <2> QED
      BY <1>8, <1>11, <1>13, <2>2, <2>3 DEF Renewed
  <1>18. Renewed(c, p) \in Key /\ k.intKeys[c] \in Key
    <2>1. m.intKeys[c] \in Key
      BY <1>4, <1>8
    <2> QED
      BY <1>8, <1>11, <2>1, KeyListType DEF Renewed
  <1>19. ASSUME NEW d \in Range(route)
         PROVE  /\ Waits(gs[d], d, to, dr2) /\ KnowsOld(gs[d].ske, dr2)
                /\ gs[d].cliques.privKeys = {} /\ gs[d].ske.privKey = NoValue
    <2>1. d \notin Group /\ d \in Client /\ d # c
      BY <1>3, <1>4, <1>5
    <2>2. gs[d] = NewGreeting(store[d])
      BY <2>1
    <2>3. /\ Waits(gs[d], d, to, drawn) /\ KnowsOld(gs[d].ske, drawn)
          /\ gs[d].cliques.privKeys = {} /\ gs[d].ske.privKey = NoValue
      BY <2>1, <2>2, StoreResumes
    <2> QED
      BY <2>1, <2>3, WaitsGrows, KnowsOldGrows
  <1>20. Collected(gs, route, k.intKeys, t.nonces, t.pubKeys, to, dr2)
    <2>1. \A d \in to : Waits(gs[d], d, to, dr2) /\ KnowsOld(gs[d].ske, dr2)
      BY <1>5, <1>14, <1>15, <1>16, <1>19
    <2>2. /\ \A d \in DOMAIN k.intKeys : k.intKeys[d] \in Key
          /\ DOMAIN k.intKeys = S \cup {Head(route)}
      BY <1>11, <1>16, <1>18
    <2>3. \A d \in S :
             /\ ComputeKeyList(gs[d].cliques.privKeys, k.intKeys[d]) = k.intKeys[Head(route)]
             /\ Contributed(t.nonces, t.pubKeys, gs[d].ske, d, dr2)
             /\ KnowsKeys(t.pubKeys, gs[d].ske, to)
      BY <1>11, <1>16, <1>17
    <2>4. DOMAIN t.nonces = S /\ DOMAIN t.pubKeys = S
      BY <1>8, <1>12
    <2>5. \A d \in Range(route) : gs[d].cliques.privKeys = {} /\ gs[d].ske.privKey = NoValue
      BY <1>19
    <2>6. route # <<>> /\ Range(route) \subseteq to
      BY <1>5
    <2> QED
      BY <1>5, <2>1, <2>2, <2>3, <2>4, <2>5, <2>6 DEF Collected
  <1>21. /\ pkt.route = route /\ pkt.members = to /\ pkt.src = c
         /\ pkt.intKeys = k.intKeys /\ pkt.nonces = t.nonces /\ pkt.pubKeys = t.pubKeys
         /\ pkt.signedBy = ToPublicKey(t.privKey)
    BY <1>10 DEF IncludePacket, Merge, CliquesMessage, SkeMessage
  <1>22. Upward(gs, pkt, to, dr2)
    <2>1. pkt.src \in to \ Range(pkt.route)
      BY <1>4, <1>5, <1>21
    <2>2. pkt.signedBy = pkt.pubKeys[pkt.src]
      BY <1>13, <1>17, <1>21 DEF Contributed
    <2> QED
      BY <1>20, <1>21, <2>1, <2>2 DEF Upward
  <1>23. Group \subseteq to /\ to \subseteq Client
    BY <1>3, <1>4, <1>5
  <1> QED
    BY <1>22, <1>23 DEF Stage

(* exclude begins an operation well.                                       *)
LEMMA ExcludeFits ==
    ASSUME drawn \in [Client -> Nat], StoresKeyed, NEW c \in Group, MayDraw(c),
           NEW others, c \notin others, NEW to, to = store[c].ske.members \ others,
           to \subseteq Group,
           NEW g, g = ExcludeGreeting(c, NewGreeting(store[c]), to),
           NEW pkt, pkt = ExcludePacket(c, to, g),
           NEW dr2, Grows(drawn, dr2), dr2[c] = drawn[c] + 1,
           NEW gs, gs[c] = [g EXCEPT !.next = to],
           \A d \in Client \ {c} : gs[d] = NewGreeting(store[d])
    PROVE  Stage(gs, pkt, to, dr2)
  <1>1. PICK n, m, s, p : /\ n = NewGreeting(store[c]) /\ m = n.cliques /\ s = n.ske
                          /\ p = Fresh(c)
    OBVIOUS
  <1>2. PICK k, t : k = AkaExclude(m, c, to, p) /\ t = Exclude(s, c, to, p)
    OBVIOUS
  <1>3. PICK S : S = store[c].ske.members
    OBVIOUS
  <1>4. /\ c \in Client /\ c \in to /\ to \subseteq S /\ Group \subseteq S
    BY <1>3, GroupFits DEF Group, StoresKeyed
  <1>5. /\ p \in PrivKey /\ p # NoValue /\ p \notin Drawn(drawn, c) /\ p \in Drawn(dr2, c)
    <2>1. p \in Drawn(dr2, c)
      BY <1>1, <1>4, FreshIsDrawn DEF Fresh
    <2> QED
      BY <1>1, <1>4, <2>1, FreshIsKey
  <1>6. Resumes(n, store[c]) /\ Waits(n, c, to, drawn)
    BY <1>1, <1>4, StoreResumes
  <1>7. /\ m = store[c].cliques /\ IsCliques(m) /\ IsSke(s)
        /\ m.privKeys \subseteq Drawn(drawn, c) /\ p \notin m.privKeys
        /\ m.intKeys \in [S -> Key] /\ DOMAIN s.nonces = S /\ DOMAIN s.pubKeys = S
        /\ s.nonces = store[c].ske.nonces /\ s.pubKeys = store[c].ske.pubKeys
        /\ s.privKey = store[c].ske.privKey
    <2>1. Keyed(store[c].cliques, store[c].ske, c, drawn)
      BY DEF StoresKeyed
    <2>2. m = store[c].cliques
      BY <1>1, <1>6 DEF Resumes
    <2>3. /\ IsSke(s) /\ s.nonces = store[c].ske.nonces /\ s.pubKeys = store[c].ske.pubKeys
          /\ s.privKey = store[c].ske.privKey
      BY <1>1, <1>6 DEF Resumes
    <2> QED
      BY <1>3, <1>5, <2>1, <2>2, <2>3 DEF Keyed
  <1>8. MadeOf(gs[c], n, k, t, to)
    <2>1. gs[c] = [[n EXCEPT !.cliques = k, !.ske = t] EXCEPT !.next = to]
      BY <1>1, <1>2 DEF ExcludeGreeting
    <2> QED
      BY <1>6, <2>1, GreetingMade DEF Resumes
  <1>9. g.cliques = k /\ g.ske = t
    <2>1. g = [n EXCEPT !.cliques = k, !.ske = t] /\ IsGreeting(n)
      BY <1>1, <1>2, <1>6 DEF ExcludeGreeting, Resumes
    <2> QED
      BY <2>1 DEF IsGreeting
  <1>10. /\ IsCliques(k) /\ k.privKeys = m.privKeys \cup {p}
         /\ k.intKeys = [d \in to |-> k.intKeys[d]]
         /\ k.groupKey = DeriveGroupKey(Renewed(c, p)) /\ k.intKeys[c] = m.intKeys[c]
         /\ \A d \in to : d # c => k.intKeys[d] = ScalarMult(p, m.intKeys[d])
    <2>1. DOMAIN m.intKeys = S
      BY <1>7
    <2>2. IsCliques(m) /\ k = AkaExclude(m, c, to, p) /\ to \subseteq DOMAIN m.intKeys
      BY <1>2, <1>4, <1>7, <2>1
    <2>3. HasExcluded(k, m, c, to, p)
      BY <1>4, <2>2, AkaExcludeFacts
    <2>4. /\ IsCliques(k) /\ k.privKeys = m.privKeys \cup {p}
          /\ k.intKeys = [d \in to |-> k.intKeys[d]]
      BY <2>3 DEF HasExcluded
    <2>5. k.groupKey = DeriveGroupKey(Renewed(c, p))
      BY <1>7, <2>3 DEF HasExcluded, Renewed
    <2>6. \A d \in to : k.intKeys[d] = IF d = c THEN m.intKeys[d] ELSE ScalarMult(p, m.intKeys[d])
      BY <2>3 DEF HasExcluded
    <2> QED
      BY <1>4, <2>4, <2>5, <2>6
  <1>11. /\ IsSke(t) /\ t.members = to /\ t.nonce = p /\ t.authd = {c}
         /\ t.privKey = s.privKey /\ t.sid = ComputeSid(t.nonces)
         /\ DOMAIN t.nonces = to /\ t.nonces[c] = p
         /\ \A d \in to : d # c => t.nonces[d] = s.nonces[d]
         /\ DOMAIN t.pubKeys = to /\ \A d \in to : t.pubKeys[d] = s.pubKeys[d]
    <2>1. HasRest(t, s, c, to, p)
      BY <1>2, <1>7, ExcludeFacts
    <2> QED
      BY <1>4, <2>1 DEF HasRest
  <1>12. /\ gs[c].cliques = k /\ gs[c].ske = t /\ TakesPart(gs[c], to) /\ gs[c].recvOwn = FALSE
    BY <1>6, <1>8, <1>10, <1>11 DEF MadeOf, TakesPart, Resumes
  <1>13. m.privKeys \cup {p} \subseteq Drawn(dr2, c)
    BY <1>4, <1>5, <1>7, DrawnGrows
  <1>14. Waits(gs[c], c, to, dr2)
    BY <1>10, <1>12, <1>13 DEF Waits
  <1>15. ASSUME NEW d \in to, d # c
         PROVE  /\ Waits(gs[d], d, to, dr2) /\ gs[d].ske.sid # ComputeSid(t.nonces)
                /\ Contributed(t.nonces, t.pubKeys, gs[d].ske, d, dr2)
                /\ KnowsKeys(t.pubKeys, gs[d].ske, to)
                /\ ComputeKeyList(gs[d].cliques.privKeys, k.intKeys[d]) = Renewed(c, p)
                /\ k.intKeys[d] \in Key
    <2>1. gs[d] = NewGreeting(store[d]) /\ d \in Group /\ d \in Client
      BY <1>15 DEF Group
    <2>2. /\ t.nonces[d] = store[c].ske.nonces[d]
          /\ \A e \in to \cap store[c].ske.members :
                e \in DOMAIN t.pubKeys /\ t.pubKeys[e] = store[c].ske.pubKeys[e]
      BY <1>7, <1>11, <1>15
    <2>3. p \in PrivKey /\ p \notin store[c].cliques.privKeys
      BY <1>5, <1>7
    <2>4. OtherFits(gs[d], d, to, dr2, t.nonces, t.pubKeys, c, p)
      BY <1>15, <2>1, <2>2, <2>3, OthersFit
    <2>5. ScalarMult(p, store[c].cliques.intKeys[d]) \in Key
      BY <1>15, <2>1, <2>3, RenewedFits
    <2>6. gs[d].ske.sid # ComputeSid(t.nonces)
      <3>1. gs[d].ske.sid = ComputeSid(s.nonces)
        <4>1. gs[d].ske.sid = store[d].ske.sid
          BY <2>1, StoreResumes DEF Resumes
        <4>2. store[d].ske.sid = ComputeSid(store[d].ske.nonces)
          BY <2>1 DEF StoresKeyed, Keyed
        <4> QED
          BY <1>7, <2>1, <4>1, <4>2, GroupFits
      <3>2. s.nonces[c] # p
        BY <1>5, <1>7, GroupFits
      <3>3. \A x : ComputeSid(x)[2] = x
        BY DEF ComputeSid
      <3> QED
        BY <1>11, <3>1, <3>2, <3>3
    <2> QED
      BY <1>7, <1>10, <1>15, <2>4, <2>5, <2>6 DEF OtherFits
  <1>16. /\ Contributed(t.nonces, t.pubKeys, gs[c].ske, c, dr2)
         /\ KnowsKeys(t.pubKeys, gs[c].ske, to)
         /\ ComputeKeyList(gs[c].cliques.privKeys, k.intKeys[c]) = Renewed(c, p)
    <2>1. /\ store[c].ske.privKey # NoValue
          /\ store[c].ske.pubKeys[c] = ToPublicKey(store[c].ske.privKey)
      BY GroupFits
    <2>2. Contributed(t.nonces, t.pubKeys, gs[c].ske, c, dr2)
      BY <1>4, <1>5, <1>7, <1>11, <1>12, <2>1 DEF Contributed
    <2>3. KnowsKeys(t.pubKeys, gs[c].ske, to)
      BY <1>12 DEF KnowsKeys
    <2> QED
      BY <1>7, <1>10, <1>12, <2>2, <2>3 DEF Renewed
  <1>17. Keyed(k, t, c, dr2)
    <2>1. k.intKeys \in [to -> Key]
      <3>1. m.intKeys[c] \in Key
        BY <1>4, <1>7
      <3>2. \A d \in to : k.intKeys[d] \in Key
        BY <1>10, <1>15, <3>1
      <3> QED
        BY <1>10, <3>2
    <2>2. k.privKeys \subseteq Drawn(dr2, c)
      BY <1>10, <1>13
    <2>3. k.groupKey = DeriveGroupKey(Cardinal(k, c))
      BY <1>10, <1>12, <1>16 DEF Cardinal
    <2>4. \A d \in to : t.nonces[d] \in Drawn(dr2, d)
      <3>1. ASSUME NEW d \in to, d # c PROVE t.nonces[d] \in Drawn(dr2, d)
        BY <1>15, <3>1 DEF Contributed
      <3> QED
        BY <1>5, <1>11, <3>1
    <2>5. /\ t.privKey # NoValue /\ t.nonces[c] = t.nonce /\ t.pubKeys[c] = ToPublicKey(t.privKey)
      BY <1>12, <1>16 DEF Contributed
    <2> QED
      BY <1>4, <1>10, <1>11, <2>1, <2>2, <2>3, <2>4, <2>5 DEF Keyed
  <1>18. Complemented(gs, c, k.intKeys, t.nonces, t.pubKeys, to, dr2)
    <2>1. ASSUME NEW d \in to
          PROVE  /\ Waits(gs[d], d, to, dr2)
                 /\ Contributed(t.nonces, t.pubKeys, gs[d].ske, d, dr2)
                 /\ KnowsKeys(t.pubKeys, gs[d].ske, to)
                 /\ DeriveGroupKey(ComputeKeyList(gs[d].cliques.privKeys, k.intKeys[d]))
                       = k.groupKey
                 /\ d # c => gs[d].ske.sid # ComputeSid(t.nonces)
      BY <1>10, <1>14, <1>15, <1>16
    <2> QED
      BY <1>4, <1>11, <1>12, <1>17, <2>1 DEF Complemented
  <1>19. /\ pkt.route = <<>> /\ pkt.members = to /\ pkt.src = c /\ pkt.isGKA = TRUE
         /\ pkt.intKeys = k.intKeys /\ pkt.nonces = t.nonces /\ pkt.pubKeys = t.pubKeys
         /\ pkt.signature = SessionSig(t, c) /\ pkt.signedBy = ToPublicKey(t.privKey)
    BY <1>9 DEF ExcludePacket, Merge, CliquesMessage, SkeMessage
  <1>20. Downward(gs, pkt, to, dr2)
    <2>1. pkt.signedBy = pkt.pubKeys[pkt.src]
      BY <1>12, <1>16, <1>19 DEF Contributed
    <2> QED
      BY <1>12, <1>18, <1>19, <2>1 DEF Downward
  <1>21. Excluded(gs, to)
    <2> SUFFICES ASSUME NEW x \in Client \ to
                 PROVE  /\ gs[x].err = FALSE
                        /\ x \in Group =>
                              /\ IsGreeting(gs[x]) /\ gs[x].fin = 0 /\ gs[x].ske.privKey # NoValue
                              /\ \A d \in to :
                                    /\ d \in DOMAIN gs[x].ske.pubKeys
                                    /\ gs[x].ske.pubKeys[d] = ToPublicKey(gs[d].ske.privKey)
      BY DEF Excluded
    <2>1. x # c /\ gs[x] = NewGreeting(store[x])
      BY <1>4
    <2>2. Resumes(gs[x], store[x])
      BY <2>1, StoreResumes
    <2>3. ASSUME x \in Group
          PROVE  /\ gs[x].ske.privKey # NoValue
                 /\ \A d \in to : /\ d \in DOMAIN gs[x].ske.pubKeys
                                  /\ gs[x].ske.pubKeys[d] = ToPublicKey(gs[d].ske.privKey)
      <3>1. /\ gs[x].ske.privKey = store[x].ske.privKey /\ store[x].ske.privKey # NoValue
            /\ gs[x].ske.pubKeys = store[x].ske.pubKeys
            /\ store[x].ske.pubKeys = s.pubKeys
        BY <1>7, <2>2, <2>3, GroupFits DEF Resumes
      <3>2. ASSUME NEW d \in to
            PROVE  d \in DOMAIN s.pubKeys /\ s.pubKeys[d] = ToPublicKey(gs[d].ske.privKey)
        <4>1. Contributed(t.nonces, t.pubKeys, gs[d].ske, d, dr2)
          BY <1>15, <1>16
        <4> QED
          BY <1>4, <1>7, <1>11, <4>1 DEF Contributed
      <3> QED
        BY <3>1, <3>2
    <2> QED
      BY <2>2, <2>3 DEF Resumes
  <1> QED
    BY <1>20, <1>21 DEF Stage

(* A proposal that would begin an operation well keeps the invariant.      *)
LEMMA ProposalFits ==
    ASSUME KeyInv, next = {}, NEW c \in Client, NEW to, to \subseteq Client, c \in to, NEW g,
           NEW pkt, pkt.members = to, NEW route, Proposes(c, to, g, pkt, route),
           \A dr2, gs : /\ Grows(drawn, dr2) /\ dr2[c] = drawn[c] + 1
                        /\ gs[c] = [g EXCEPT !.next = to]
                        /\ \A d \in Client \ {c} : gs[d] = NewGreeting(store[d])
                        => Stage(gs, pkt, to, dr2)
    PROVE  KeyInv'
  <1>1. PICK p : /\ proposals' = proposals \cup {p}
                 /\ p.by = c /\ p.packet = pkt /\ p.greeting = [g EXCEPT !.next = to]
    <2> DEFINE q == [by |-> c, greeting |-> [g EXCEPT !.next = to], packet |-> pkt,
                     summary |-> Summary!ProposedGreeting(c, session[c], to, route, Fresh(c))]
    <2>1. proposals' = proposals \cup {q}
      BY DEF Proposes
    <2>2. q.by = c /\ q.packet = pkt /\ q.greeting = [g EXCEPT !.next = to]
      OBVIOUS
    <2> HIDE DEF q
    <2> QED
      BY <2>1, <2>2
  <1>2. /\ store' = store /\ next' = next /\ greeting' = greeting /\ flight' = flight
        /\ drawn' = [d \in Client |-> IF d \in {c} THEN drawn[d] + 1 ELSE drawn[d]]
    BY DEF Proposes, Draws
  <1>3. /\ drawn' \in [Client -> Nat] /\ Grows(drawn, drawn') /\ drawn'[c] = drawn[c] + 1
    <2>1. drawn \in [Client -> Nat]
      BY DEF KeyInv
    <2>2. drawn' \in [Client -> Nat] /\ drawn'[c] = drawn[c] + 1
      BY <1>2, <2>1
    <2>3. \A d \in Client : drawn[d] \in Nat /\ drawn'[d] \in Nat /\ drawn[d] <= drawn'[d]
      BY <1>2, <2>1
    <2> QED
      BY <2>2, <2>3 DEF Grows
  <1>4. StoresKeyed' /\ Group' = Group
    BY <1>2, <1>3, StoresStay DEF KeyInv
  <1>5. \A q : Beginning(q)' = Beginning(q)
    BY <1>2 DEF Beginning
  <1>6. Stage(Beginning(p), pkt, to, drawn')
    <2>1. /\ Beginning(p)[c] = [g EXCEPT !.next = to]
          /\ \A d \in Client \ {c} : Beginning(p)[d] = NewGreeting(store[d])
      BY <1>1 DEF Beginning
    <2> QED
      BY <1>3, <2>1
  <1>7. ASSUME NEW q \in proposals'
        PROVE  /\ q.by \in q.packet.members /\ q.packet.members \subseteq Client
               /\ Stage(Beginning(q), q.packet, q.packet.members, drawn')
    <2>1. CASE q = p
      BY <1>1, <1>6, <2>1
    <2>2. CASE q \in proposals
      <3>1. /\ q.by \in q.packet.members /\ q.packet.members \subseteq Client
            /\ Stage(Beginning(q), q.packet, q.packet.members, drawn)
        BY <2>2 DEF KeyInv, ProposalsFit
      <3> QED
        BY <1>3, <3>1, StageGrows
    <2> QED
      BY <1>1, <2>1, <2>2
  <1>8. ASSUME NEW q \in proposals'
        PROVE  Stage(Beginning(q), q.packet, q.packet.members, drawn)'
    BY <1>4, <1>5, <1>7 DEF Stage, Excluded
  <1>9. ProposalsFit'
    BY <1>7, <1>8 DEF ProposalsFit
  <1>10. OperationFits'
    BY <1>2 DEF KeyInv, OperationFits
  <1> QED
    BY <1>2, <1>3, <1>4, <1>9, <1>10 DEF KeyInv

(* A stage is about the greetings of those who are to be members.          *)
LEMMA UpwardSame ==
    ASSUME NEW gs, NEW hs, NEW pkt, NEW to, NEW dr, Upward(gs, pkt, to, dr),
           \A d \in to : hs[d] = gs[d]
    PROVE  Upward(hs, pkt, to, dr)
  <1>1. Collected(hs, pkt.route, pkt.intKeys, pkt.nonces, pkt.pubKeys, to, dr)
    <2>1. Range(pkt.route) \subseteq to /\ Head(pkt.route) \in to
      BY RouteTail DEF Upward, Collected
    <2>2. \A d \in to : hs[d] = gs[d]
      OBVIOUS
    <2> QED
      BY <2>1, <2>2 DEF Upward, Collected
  <1> QED
    BY <1>1 DEF Upward

(* The second stage depends on the members only.                           *)
LEMMA DownwardSame ==
    ASSUME NEW gs, NEW hs, NEW pkt, NEW to, NEW dr, Downward(gs, pkt, to, dr),
           \A d \in to : hs[d] = gs[d]
    PROVE  Downward(hs, pkt, to, dr)
  <1>1. hs[pkt.src] = gs[pkt.src]
    BY DEF Downward, Complemented
  <1>2. Complemented(hs, pkt.src, pkt.intKeys, pkt.nonces, pkt.pubKeys, to, dr)
    BY <1>1 DEF Downward, Complemented
  <1> QED
    BY <1>1, <1>2 DEF Downward

(* So does the third.                                                      *)
LEMMA ConfirmingSame ==
    ASSUME NEW gs, NEW hs, NEW packets, NEW to, NEW dr, Confirming(gs, packets, to, dr),
           \A d \in to : hs[d] = gs[d]
    PROVE  Confirming(hs, packets, to, dr)
  <1>1. Heard(hs, to) = Heard(gs, to)
    BY DEF Heard
  <1>2. Settled(hs, to, dr)
    BY <1>1 DEF Confirming, Settled
  <1>3. ASSUME NEW pkt \in packets PROVE Confirms(pkt, hs, to)
    <2>1. Confirms(pkt, gs, to)
      BY DEF Confirming
    <2>2. hs[pkt.src] = gs[pkt.src]
      BY <2>1 DEF Confirms
    <2> QED
      BY <1>1, <2>1, <2>2 DEF Confirms
  <1> QED
    BY <1>1, <1>2, <1>3 DEF Confirming

(* Who leaves is forgotten, and so is what would have made it a member.    *)
LEMMA LeaveFits ==
    ASSUME KeyInv, NEW c \in Client, Leave(c)
    PROVE  KeyInv'
  <1>1. /\ store' = [store EXCEPT ![c] = NoStore] /\ drawn' = drawn
        /\ proposals' = {p \in proposals : c \notin p.packet.members}
    BY DEF Leave
  <1>2. /\ store'[c] = NoStore /\ store' = [d \in Client |-> store'[d]]
        /\ \A d \in Client : d # c => store'[d] = store[d]
    <2>1. store = [d \in Client |-> store[d]]
      BY DEF KeyInv, StoresKeyed
    <2> QED
      BY <1>1, <2>1
  <1>3. Group' = Group \ {c}
    BY <1>2 DEF Group
  <1>4. StoresKeyed'
    <2>1. NoStore = [cliques |-> NoStore.cliques, ske |-> NoStore.ske]
      BY DEF NoStore
    <2>2. \A d \in Client : store'[d] = [cliques |-> store'[d].cliques, ske |-> store'[d].ske]
      BY <1>2, <2>1 DEF KeyInv, StoresKeyed
    <2>3. \A d \in Group' : store'[d] = store[d] /\ d \in Group
      BY <1>2, <1>3 DEF Group
    <2>4. \A d \in Group' : /\ Keyed(store'[d].cliques, store'[d].ske, d, drawn')
                            /\ Group' \subseteq store'[d].ske.members
                            /\ store'[d].ske.members \subseteq Client
      BY <1>1, <1>3, <2>3 DEF KeyInv, StoresKeyed
    <2>5. \A d, e \in Group' :
             SameKeys(store'[d].cliques, store'[d].ske, store'[e].cliques, store'[e].ske)
      BY <2>3 DEF KeyInv, StoresKeyed
    <2> QED
      BY <1>2, <2>2, <2>4, <2>5 DEF StoresKeyed
  <1>5. ASSUME NEW gs, NEW hs, NEW to, Excluded(gs, to), \A d \in to : hs[d] = gs[d],
               \A d \in Client : d # c => hs[d] = gs[d], hs[c].err = FALSE
        PROVE  Excluded(hs, to)'
    BY <1>3, <1>5 DEF Excluded
  <1>6. ASSUME NEW gs, NEW hs, NEW pkt, NEW to, NEW dr, Stage(gs, pkt, to, dr),
               \A d \in to : hs[d] = gs[d],
               \A d \in Client : d # c => hs[d] = gs[d], hs[c].err = FALSE
        PROVE  \/ Upward(hs, pkt, to, dr) /\ Group' \subseteq to
               \/ Downward(hs, pkt, to, dr) /\ Excluded(hs, to)'
    <2>1. CASE Upward(gs, pkt, to, dr) /\ Group \subseteq to
      BY <1>3, <1>6, <2>1, UpwardSame
    <2>2. CASE Downward(gs, pkt, to, dr) /\ Excluded(gs, to)
      BY <1>5, <1>6, <2>2, DownwardSame
    <2> QED
      BY <1>6, <2>1, <2>2 DEF Stage
  <1>7. NoGreeting.err = FALSE
    BY DEF NoGreeting, NewGreeting
  <1>8. ProposalsFit'
    <2> SUFFICES ASSUME NEW p \in proposals'
                 PROVE  /\ p.by \in p.packet.members /\ p.packet.members \subseteq Client
                        /\ Stage(Beginning(p), p.packet, p.packet.members, drawn)'
      BY DEF ProposalsFit
    <2>1. /\ p \in proposals /\ c \notin p.packet.members
          /\ p.by \in p.packet.members /\ p.packet.members \subseteq Client
          /\ Stage(Beginning(p), p.packet, p.packet.members, drawn)
      BY <1>1 DEF KeyInv, ProposalsFit
    <2>2. PICK gs, hs : gs = Beginning(p) /\ hs = Beginning(p)'
      OBVIOUS
    <2>3. \A d \in Client : d # c => hs[d] = gs[d]
      BY <1>2, <2>2 DEF Beginning
    <2>4. hs[c] = NoGreeting
      BY <1>2, <2>1, <2>2 DEF Beginning, NoGreeting
    <2>5. \A d \in p.packet.members : hs[d] = gs[d]
      BY <2>1, <2>3
    <2>6. hs[c].err = FALSE
      BY <1>7, <2>4
    <2>7. \/ Upward(hs, p.packet, p.packet.members, drawn) /\ Group' \subseteq p.packet.members
          \/ Downward(hs, p.packet, p.packet.members, drawn) /\ Excluded(hs, p.packet.members)'
      BY <1>6, <2>1, <2>2, <2>3, <2>5, <2>6
    <2> QED
      BY <1>1, <2>1, <2>2, <2>7 DEF Stage, Excluded
  <1>9. CASE c \in next
    <2>1. /\ next' = {} /\ flight' = {} /\ greeting' = [d \in Client |-> NoGreeting]
      BY <1>9 DEF Leave
    <2>2. OperationFits'
      BY <2>1 DEF OperationFits
    <2>3. /\ greeting' = [d \in Client |-> greeting'[d]]
          /\ \A d \in Client : greeting'[d].err = FALSE
      BY <1>7, <2>1
    <2> QED
      BY <1>1, <1>4, <1>8, <2>1, <2>2, <2>3 DEF KeyInv
  <1>10. CASE c \notin next
    <2>1. /\ next' = next /\ flight' = flight /\ greeting' = [greeting EXCEPT ![c] = NoGreeting]
      BY <1>10 DEF Leave
    <2>2. /\ greeting' = [d \in Client |-> greeting'[d]] /\ greeting'[c] = NoGreeting
          /\ \A d \in Client : d # c => greeting'[d] = greeting[d]
      <3>1. greeting = [d \in Client |-> greeting[d]]
        BY DEF KeyInv
      <3> QED
        BY <2>1, <3>1
    <2>3. \A d \in Client : greeting'[d].err = FALSE
      BY <1>7, <2>2 DEF KeyInv
    <2>4. CASE next = {}
      <3>1. flight' = {} /\ \A d \in Client : greeting'[d] = NoGreeting
        BY <2>1, <2>2, <2>4 DEF KeyInv, OperationFits
      <3>2. greeting' = [d \in Client |-> NoGreeting]
        BY <2>2, <3>1
      <3>3. OperationFits'
        BY <2>1, <2>4, <3>1, <3>2 DEF OperationFits
      <3> QED
        BY <1>1, <1>4, <1>8, <2>1, <2>2, <2>3, <3>3 DEF KeyInv
    <2>5. CASE next # {}
      <3>1. proposals' = {} /\ IsUnderWay /\ next \subseteq Client
        BY <1>1, <2>5 DEF KeyInv, OperationFits
      <3>2. PICK gs, hs, to : gs = greeting /\ hs = greeting' /\ to = next
        OBVIOUS
      <3>3. /\ \A d \in Client : d # c => hs[d] = gs[d]
            /\ \A d \in to : hs[d] = gs[d]
            /\ hs[c].err = FALSE
        BY <1>7, <1>10, <2>2, <3>1, <3>2
      <3>4. IsUnderWay'
        <4>1. CASE \E pkt \in flight : flight = {pkt} /\ Stage(greeting, pkt, next, drawn)
          <5>1. PICK pkt \in flight : flight = {pkt} /\ Stage(greeting, pkt, next, drawn)
            BY <4>1
          <5>2. \/ Upward(hs, pkt, to, drawn) /\ Group' \subseteq to
                \/ Downward(hs, pkt, to, drawn) /\ Excluded(hs, to)'
            BY <1>6, <3>2, <3>3, <5>1
          <5>3. Stage(greeting, pkt, next, drawn)'
            BY <1>1, <2>1, <3>2, <5>2 DEF Stage, Excluded
          <5> QED
            BY <2>1, <5>1, <5>3 DEF IsUnderWay
        <4>2. CASE Confirming(greeting, flight, next, drawn) /\ Excluded(greeting, next)
          <5>1. Confirming(hs, flight, to, drawn)
            BY <3>2, <3>3, <4>2, ConfirmingSame
          <5>2. Excluded(hs, to)'
            BY <1>5, <3>2, <3>3, <4>2
          <5>3. Excluded(greeting, next)'
            BY <2>1, <3>2, <5>2 DEF Excluded
          <5> QED
            BY <1>1, <2>1, <3>2, <5>1, <5>3 DEF IsUnderWay
        <4> QED
          BY <3>1, <4>1, <4>2 DEF IsUnderWay
      <3>5. OperationFits'
        BY <2>1, <2>5, <3>1, <3>4 DEF OperationFits
      <3> QED
        BY <1>1, <1>4, <1>8, <2>1, <2>2, <2>3, <3>5 DEF KeyInv
    <2> QED
      BY <2>4, <2>5
  <1> QED
    BY <1>9, <1>10

-----------------------------------------------------------------------------
(* The invariant holds at first and is kept by every step.                 *)
LEMMA KeyInit == Init => KeyInv
  <1> SUFFICES ASSUME Init PROVE KeyInv
    OBVIOUS
  <1>1. /\ store = [c \in Client |-> NoStore] /\ drawn = [c \in Client |-> 0]
        /\ proposals = {} /\ next = {} /\ flight = {}
        /\ greeting = [c \in Client |-> NoGreeting]
    BY DEF Init
  <1>2. Group = {}
    BY <1>1 DEF Group
  <1>3. StoresKeyed
    <2>1. NoStore = [cliques |-> NoStore.cliques, ske |-> NoStore.ske]
      BY DEF NoStore
    <2> QED
      BY <1>1, <1>2, <2>1 DEF StoresKeyed
  <1>4. NoGreeting.err = FALSE
    BY DEF NoGreeting, NewGreeting
  <1>5. \A c \in Client : greeting[c].err = FALSE
    BY <1>1, <1>4
  <1>6. drawn \in [Client -> Nat]
    BY <1>1
  <1> QED
    BY <1>1, <1>3, <1>5, <1>6 DEF KeyInv, ProposalsFit, OperationFits

(* start keeps the invariant.                                              *)
LEMMA StartKeeps ==
    ASSUME KeyInv, NEW c \in Client, NEW route \in Routes, Start(c, route)
    PROVE  KeyInv'
  <1>1. PICK to, g, pkt : /\ to = {c} \cup Range(route) /\ g = StartGreeting(c, route, to)
                          /\ pkt = StartPacket(c, route, to, g)
    OBVIOUS
  <1>2. /\ next = {} /\ MayDraw(c) /\ Group = {} /\ route # <<>> /\ c \notin Range(route)
        /\ Proposes(c, to, g, pkt, route)
    BY <1>1 DEF Start, MayPropose
  <1>3. drawn \in [Client -> Nat] /\ StoresKeyed
    BY DEF KeyInv
  <1>4. ASSUME NEW dr2, NEW gs, Grows(drawn, dr2), dr2[c] = drawn[c] + 1,
               gs[c] = [g EXCEPT !.next = to],
               \A d \in Client \ {c} : gs[d] = NewGreeting(store[d])
        PROVE  Stage(gs, pkt, to, dr2)
    BY <1>1, <1>2, <1>3, <1>4, StartFits
  <1>5. to \subseteq Client
    <2>1. route \in Seq(Client)
      BY RoutesAssumption
    <2> QED
      BY <1>1, <2>1 DEF Range
  <1>6. pkt.members = to
    BY <1>1 DEF StartPacket, Merge, SkeAnswer, SkeMessage, CommitMessage
  <1>7. c \in to
    BY <1>1
  <1> QED
    BY <1>2, <1>4, <1>5, <1>6, <1>7, ProposalFits

(* include keeps the invariant.                                            *)
LEMMA IncludeKeeps ==
    ASSUME KeyInv, NEW c \in Client, NEW route \in Routes, Include(c, route)
    PROVE  KeyInv'
  <1>1. PICK to, g, pkt : /\ to = store[c].ske.members \cup Range(route)
                          /\ g = IncludeGreeting(c, NewGreeting(store[c]), route, to)
                          /\ pkt = IncludePacket(c, route, to, g)
    OBVIOUS
  <1>2. /\ next = {} /\ MayDraw(c) /\ c \in Group /\ store[c].ske.members \subseteq Group
        /\ route # <<>> /\ Range(route) \cap store[c].ske.members = {}
        /\ Proposes(c, to, g, pkt, route)
    BY <1>1 DEF Include, MayPropose
  <1>3. drawn \in [Client -> Nat] /\ StoresKeyed
    BY DEF KeyInv
  <1>4. ASSUME NEW dr2, NEW gs, Grows(drawn, dr2), dr2[c] = drawn[c] + 1,
               gs[c] = [g EXCEPT !.next = to],
               \A d \in Client \ {c} : gs[d] = NewGreeting(store[d])
        PROVE  Stage(gs, pkt, to, dr2)
    BY <1>1, <1>2, <1>3, <1>4, IncludeFits
  <1>5. to \subseteq Client /\ c \in to
    <2>1. route \in Seq(Client)
      BY RoutesAssumption
    <2>2. Range(route) \subseteq Client
      BY <2>1 DEF Range
    <2> QED
      BY <1>1, <1>2, <1>3, <2>2, GroupFits
  <1>6. pkt.members = to
    BY <1>1 DEF IncludePacket, Merge, SkeMessage
  <1> QED
    BY <1>2, <1>4, <1>5, <1>6, ProposalFits

(* exclude keeps the invariant.                                            *)
LEMMA ExcludeKeeps ==
    ASSUME KeyInv, NEW c \in Client, NEW others, ExcludeMembers(c, others)
    PROVE  KeyInv'
  <1>1. PICK to, g, pkt, route : /\ to = store[c].ske.members \ others
                          /\ g = ExcludeGreeting(c, NewGreeting(store[c]), to)
                          /\ pkt = ExcludePacket(c, to, g) /\ route = <<>>
    OBVIOUS
  <1>2. /\ next = {} /\ MayDraw(c) /\ c \in Group /\ to \subseteq Group /\ c \notin others
        /\ Proposes(c, to, g, pkt, route)
    BY <1>1 DEF ExcludeMembers, MayPropose
  <1>3. drawn \in [Client -> Nat] /\ StoresKeyed
    BY DEF KeyInv
  <1>4. ASSUME NEW dr2, NEW gs, Grows(drawn, dr2), dr2[c] = drawn[c] + 1,
               gs[c] = [g EXCEPT !.next = to],
               \A d \in Client \ {c} : gs[d] = NewGreeting(store[d])
        PROVE  Stage(gs, pkt, to, dr2)
    BY <1>1, <1>2, <1>3, <1>4, ExcludeFits
  <1>5. to \subseteq Client /\ c \in to
    BY <1>1, <1>2, <1>3, GroupFits
  <1>6. pkt.members = to
    BY <1>1 DEF ExcludePacket, Merge, SkeMessage
  <1> QED
    BY <1>2, <1>4, <1>5, <1>6, ProposalFits

(* Accepting a proposal keeps the invariant.                               *)
LEMMA AcceptKeeps ==
    ASSUME KeyInv, NEW p \in proposals, Accept(p)
    PROVE  KeyInv'
  <1>1. PICK pkt, to, gs, sums : /\ pkt = p.packet /\ to = p.packet.members
                                 /\ gs = Beginning(p) /\ sums = SummaryBeginning(p)
    OBVIOUS
  <1>2. Delivered(pkt, to, {}, gs, to \cup Group, sums) /\ proposals' = {}
    BY <1>1 DEF Accept
  <1>3. /\ drawn \in [Client -> Nat] /\ StoresKeyed /\ to \subseteq Client /\ p.by \in to
        /\ Stage(gs, pkt, to, drawn)
    BY <1>1 DEF KeyInv, ProposalsFit
  <1>4. \A c \in Client : gs[c].err = FALSE
    <2>1. ASSUME NEW c \in Client, c # p.by PROVE gs[c].err = FALSE
      <3>1. gs[c] = NewGreeting(store[c])
        BY <1>1, <2>1 DEF Beginning
      <3> QED
        BY <1>3, <3>1, StoreResumes DEF Resumes
    <2>2. gs[p.by].err = FALSE
      <3>1. Waits(gs[p.by], p.by, to, drawn)
        BY <1>3 DEF Stage, Upward, Collected, Downward, Complemented
      <3> QED
        BY <3>1 DEF Waits, TakesPart
    <2> QED
      BY <2>1, <2>2
  <1> QED
    BY <1>2, <1>3, <1>4, StageDelivered

(* Receiving a packet keeps the invariant.                                 *)
LEMMA ReceiveKeeps ==
    ASSUME KeyInv, NEW pkt \in flight, Receive(pkt)
    PROVE  KeyInv'
  <1>1. PICK to, gs, sums, packets : /\ to = next /\ gs = greeting /\ sums = summary
                                     /\ packets = flight
    OBVIOUS
  <1>2. /\ Delivered(pkt, to, packets \ {pkt}, gs, to \cup Group, sums)
        /\ proposals' = proposals
    BY <1>1 DEF Receive
  <1>3. /\ drawn \in [Client -> Nat] /\ StoresKeyed /\ to \subseteq Client
        /\ \A c \in Client : gs[c].err = FALSE
    BY <1>1 DEF KeyInv
  <1>4. proposals' = {} /\ IsUnderWay
    BY <1>2 DEF KeyInv, OperationFits
  <1>5. CASE \E q \in flight : flight = {q} /\ Stage(greeting, q, next, drawn)
    <2>1. packets \ {pkt} = {} /\ Stage(gs, pkt, to, drawn)
      BY <1>1, <1>5
    <2>2. Delivered(pkt, to, {}, gs, to \cup Group, sums)
      BY <1>2, <2>1
    <2> QED
      BY <1>3, <1>4, <2>1, <2>2, StageDelivered
  <1>6. CASE Confirming(greeting, flight, next, drawn) /\ Excluded(greeting, next)
    <2>1. Confirming(gs, packets, to, drawn) /\ Excluded(gs, to) /\ pkt \in packets
      BY <1>1, <1>6
    <2> QED
      BY <1>2, <1>3, <1>4, <2>1, ConfirmationDelivered
  <1> QED
    BY <1>4, <1>5, <1>6 DEF IsUnderWay

(* Every step keeps the invariant.                                         *)
LEMMA KeyStep == KeyInv /\ [Next]_vars => KeyInv'
  <1> SUFFICES ASSUME KeyInv, [Next]_vars PROVE KeyInv'
    OBVIOUS
  <1>1. ASSUME NEW c \in Client, NEW route \in Routes, Start(c, route) PROVE KeyInv'
    BY <1>1, StartKeeps
  <1>2. ASSUME NEW c \in Client, NEW route \in Routes, Include(c, route) PROVE KeyInv'
    BY <1>2, IncludeKeeps
  <1>3. ASSUME NEW c \in Client, NEW others \in SUBSET Client, ExcludeMembers(c, others)
        PROVE  KeyInv'
    BY <1>3, ExcludeKeeps
  <1>4. ASSUME NEW c \in Client, Leave(c) PROVE KeyInv'
    BY <1>4, LeaveFits
  <1>5. ASSUME NEW p \in proposals, Accept(p) PROVE KeyInv'
    BY <1>5, AcceptKeeps
  <1>6. ASSUME NEW pkt \in flight, Receive(pkt) PROVE KeyInv'
    BY <1>6, ReceiveKeeps
  <1>7. CASE UNCHANGED vars
    <2>1. /\ store' = store /\ drawn' = drawn /\ proposals' = proposals /\ next' = next
          /\ greeting' = greeting /\ flight' = flight
      BY <1>7 DEF vars, keyVars
    <2>2. Group' = Group /\ \A p : Beginning(p)' = Beginning(p)
      BY <2>1 DEF Group, Beginning
    <2>3. StoresKeyed'
      BY <2>1, <2>2 DEF KeyInv, StoresKeyed
    <2>4. ProposalsFit'
      BY <2>1, <2>2 DEF KeyInv, ProposalsFit, Stage, Excluded
    <2>5. OperationFits'
      BY <2>1, <2>2 DEF KeyInv, OperationFits, IsUnderWay, Stage, Excluded
    <2> QED
      BY <2>1, <2>3, <2>4, <2>5 DEF KeyInv
  <1> QED
    BY <1>1, <1>2, <1>3, <1>4, <1>5, <1>6, <1>7 DEF Next

(* The inductive invariant: at every moment the stores of the members fit  *)
(* one another, every proposal on the way would begin an operation well,   *)
(* and the ongoing operation is at one of its three stages.                *)
THEOREM KeyInvHolds == Spec => []KeyInv
  <1>1. Init => KeyInv
    BY KeyInit
  <1>2. KeyInv /\ [Next]_vars => KeyInv'
    BY KeyStep
  <1> QED
    BY <1>1, <1>2, PTL DEF Spec

(* The members of a session have the same group key, session id and        *)
(* members, however many clients there are and whatever they propose       *)
(* (getResultState).                                                       *)
THEOREM KeysAlwaysAgree == Spec => []KeysAgree
  <1>1. KeyInv => KeysAgree
    <2> SUFFICES ASSUME StoresKeyed, NEW c \in Group, NEW d \in Group
                 PROVE  /\ store[c].cliques.groupKey = store[d].cliques.groupKey
                        /\ store[c].ske.sid = store[d].ske.sid
                        /\ store[c].ske.members = store[d].ske.members
      BY DEF KeyInv, KeysAgree
    <2>1. SameKeys(store[c].cliques, store[c].ske, store[d].cliques, store[d].ske)
      BY DEF StoresKeyed
    <2>2. /\ store[c].ske.sid = ComputeSid(store[c].ske.nonces)
          /\ store[d].ske.sid = ComputeSid(store[d].ske.nonces)
      BY DEF StoresKeyed, Keyed
    <2> QED
      BY <2>1, <2>2 DEF SameKeys
  <1> QED
    BY <1>1, KeyInvHolds, PTL

(* What each member keeps of an operation is good for the next, whoever    *)
(* starts it: the private keys of every member fit the intermediate keys   *)
(* that any member keeps, and so do nonces and ephemeral keys              *)
(* (_renewPrivKey, _setKeys, join, exclude).                               *)
THEOREM StoresAlwaysFit == Spec => []StoresFit
  <1>1. KeyInv => StoresFit
    <2> SUFFICES ASSUME StoresKeyed, NEW c \in Group, NEW d \in Group
                 PROVE  /\ DeriveGroupKey(ComputeKeyList(store[d].cliques.privKeys,
                                                         store[c].cliques.intKeys[d]))
                              = store[c].cliques.groupKey
                        /\ store[c].ske.nonces[d] = store[d].ske.nonce
                        /\ store[c].ske.pubKeys[d] = ToPublicKey(store[d].ske.privKey)
      BY DEF KeyInv, StoresFit
    <2>1. store[d].cliques.groupKey
             = DeriveGroupKey(ComputeKeyList(store[d].cliques.privKeys,
                                             store[d].cliques.intKeys[d]))
      BY DEF StoresKeyed, Keyed, Cardinal
    <2>2. /\ store[c].cliques.intKeys = store[d].cliques.intKeys
          /\ store[c].cliques.groupKey = store[d].cliques.groupKey
      BY DEF StoresKeyed, SameKeys
    <2> QED
      BY <2>1, <2>2, GroupFits
  <1> QED
    BY <1>1, KeyInvHolds, PTL

(* No greeting ever refuses a packet of another member: signatures verify  *)
(* with what the receiver knows of the sender, nothing comes when it is    *)
(* done, and who is done has the members of the proposal                   *)
(* (decodeGreetMessage, the exchange's downflow, recv, _maybeFulfill).     *)
THEOREM NothingIsRefused == Spec => []NothingRefused
  <1>1. KeyInv => NothingRefused
    BY DEF KeyInv, NothingRefused
  <1> QED
    BY <1>1, KeyInvHolds, PTL

=============================================================================

