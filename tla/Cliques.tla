------------------------------ MODULE Cliques ------------------------------
(***************************************************************************)
(* Group key agreement with CLIQUES (greet/cliques.js).                    *)
(*                                                                         *)
(* An x25519 value is got from the base point by multiplying with private  *)
(* keys, in any order: it is known by how often each private key is in it. *)
(* The intermediate key of a member has the contributions of all others,   *)
(* so that the member gets the cardinal key, of which the group key is     *)
(* derived, by multiplying with its own.                                   *)
(*                                                                         *)
(* The module has no variables: a CliquesMember is a record and each       *)
(* method an operator.  The parallel arrays members and intKeys are a      *)
(* function from members, privKeyList (of keys that differ) is a set, and  *)
(* the order of the members is kept as far as it matters, as the route of  *)
(* an upflow: those who are to contribute yet, in order.                   *)
(***************************************************************************)
EXTENDS Naturals, Sequences

CONSTANT PrivKey    \* private keys

Key == [PrivKey -> Nat]
Base == [p \in PrivKey |-> 0]      \* null in the code: nothing multiplied yet
ScalarMult(p, key) == [key EXCEPT ![p] = @ + 1]
ComputeKeyList(privKeys, key) ==
    [p \in PrivKey |-> key[p] + (IF p \in privKeys THEN 1 ELSE 0)]

NoGroupKey == <<>>
DeriveGroupKey(cardinal) == <<"mpenc group key", cardinal>>

NewCliquesMember == [members |-> {}, intKeys |-> <<>>, privKeys |-> {}, groupKey |-> NoGroupKey]

CliquesMessage(agreement, route, members, intKeys) ==
    [agreement |-> agreement, route |-> route, members |-> members, intKeys |-> intKeys]

-----------------------------------------------------------------------------
\* Mutant: the own intermediate key is renewed as well.
RenewAll(m, c, p) ==
    [m EXCEPT !.privKeys = @ \cup {p}, !.intKeys = [d \in DOMAIN @ |-> ScalarMult(p, @[d])]]

(* _renewPrivKey with the new key p, and the cardinal key it returns.      *)
RenewPrivKey(m, c, p) ==
    [m EXCEPT !.privKeys = @ \cup {p},
              !.intKeys = [d \in DOMAIN @ |-> IF d = c THEN @[d] ELSE ScalarMult(p, @[d])]]
Cardinal(m, c) == ComputeKeyList(m.privKeys, m.intKeys[c])

(* The next on the route is given the cardinal key as its intermediate key. *)
AddCardinal(m, c, next) ==
    [m EXCEPT !.intKeys = [d \in DOMAIN @ \cup {next} |->
                              IF d = next THEN Cardinal(m, c) ELSE @[d]]]

(* upflow; the message has an intermediate key for those who contributed   *)
(* and for c, who is the head of its route.  An initial agreement forgets  *)
(* the private keys of any other.                                          *)
CliquesUpflow(m, c, msg, p) ==
    LET renewed == RenewPrivKey([m EXCEPT !.members = msg.members, !.intKeys = msg.intKeys,
                                          !.privKeys = IF msg.agreement = "ika" THEN {} ELSE @],
                                c, p)
    IN  IF Len(msg.route) = 1
        THEN [renewed EXCEPT !.groupKey = DeriveGroupKey(Cardinal(renewed, c))]
        ELSE AddCardinal(renewed, c, msg.route[2])

(* The message upflow returns, given the member after it; no route is left *)
(* when the last member broadcasts the result.                             *)
CliquesAnswer(m, msg) ==
    CliquesMessage(msg.agreement, Tail(msg.route), msg.members, m.intKeys)

(* ika, with the others on the route.                                      *)
IkaMessage(c, route, members) ==
    CliquesMessage("ika", <<c>> \o route, members, [d \in {c} |-> Base])
Ika(c, route, members, p) == CliquesUpflow(NewCliquesMember, c, IkaMessage(c, route, members), p)

(* akaJoin, with the new members on the route.                             *)
AkaJoin(m, c, route, members, p) ==
    AddCardinal(RenewPrivKey([m EXCEPT !.members = members], c, p), c, Head(route))

(* akaExclude, which leaves members.                                       *)
AkaExclude(m, c, members, p) ==
    LET renewed == RenewPrivKey([m EXCEPT !.members = members,
                                          !.intKeys = [d \in members |-> @[d]]], c, p)
    IN  [renewed EXCEPT !.groupKey = DeriveGroupKey(Cardinal(renewed, c))]

(* _setKeys and downflow, but for what downflow asserts of the members in  *)
(* the message.                                                            *)
SetKeys(m, c, intKeys) ==
    [m EXCEPT !.intKeys = intKeys,
              !.groupKey = DeriveGroupKey(ComputeKeyList(m.privKeys, intKeys[c]))]
CliquesDownflow(m, c, msg) == SetKeys([m EXCEPT !.members = msg.members], c, msg.intKeys)

=============================================================================
