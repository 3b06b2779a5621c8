----------------------- MODULE SignatureKeyExchange -----------------------
(***************************************************************************)
(* The authenticated signature key exchange (greet/ske.js): the members of *)
(* a session exchange nonces and ephemeral public keys, and each signs the *)
(* session id that results of them.                                        *)
(*                                                                         *)
(* The module has no variables: a SignatureKeyExchangeMember is a record   *)
(* and each method an operator.  Arrays parallel to members are functions  *)
(* from members, and authenticatedMembers is the set of those for whom the *)
(* array holds true; the route of a message is those who are to contribute *)
(* yet, in order.  A signature can be verified by who knows what was       *)
(* signed, so it is known by that.                                         *)
(***************************************************************************)
EXTENDS Naturals, Sequences

NoValue == <<>>                       \* null
ToPublicKey(privKey) == <<"public key", privKey>>

(* _computeSid: a hash of the members, sorted, and their nonces.           *)
ComputeSid(nonces) == <<"sid", nonces>>

NewSkeMember ==
    [members |-> {}, nonces |-> NoValue, pubKeys |-> NoValue, sid |-> NoValue, authd |-> {},
     nonce |-> NoValue, privKey |-> NoValue]

SkeMessage(src, route, members, nonces, pubKeys, signature) ==
    [src |-> src, route |-> route, members |-> members, nonces |-> nonces,
     pubKeys |-> pubKeys, signature |-> signature]

(* _computeSessionSig, and _verifySessionSig of a signature by src.        *)
SessionSig(s, c) ==
    [src |-> c, pubKey |-> ToPublicKey(s.privKey), nonce |-> s.nonce, sid |-> s.sid]
VerifySessionSig(s, src, signature) ==
    /\ src \in DOMAIN s.nonces \cap DOMAIN s.pubKeys
    /\ signature = [src |-> src, pubKey |-> s.pubKeys[src], nonce |-> s.nonces[src],
                    sid |-> s.sid]

Extend(f, c, x) == [d \in DOMAIN f \cup {c} |-> IF d = c THEN x ELSE f[d]]

-----------------------------------------------------------------------------
(* upflow at c, the head of the message's route, with the new nonce and    *)
(* (if it has none yet) the new ephemeral key fresh; the last member can   *)
(* tell the session id.                                                    *)
SkeUpflow(s, c, msg, fresh) ==
    LET privKey == IF s.privKey = NoValue THEN fresh ELSE s.privKey
        joined == [s EXCEPT !.members = msg.members, !.nonce = fresh, !.privKey = privKey,
                            !.nonces = Extend(msg.nonces, c, fresh),
                            !.pubKeys = Extend(msg.pubKeys, c, ToPublicKey(privKey))]
    IN  IF Len(msg.route) = 1
        THEN [joined EXCEPT !.sid = ComputeSid(joined.nonces), !.authd = {c}]
        ELSE joined

(* The message upflow returns, given the member after it.                  *)
SkeAnswer(s, c, msg) ==
    SkeMessage(c, Tail(msg.route), msg.members, s.nonces, s.pubKeys,
               IF Len(msg.route) = 1 THEN SessionSig(s, c) ELSE NoValue)

(* commit, with the others on the route.                                   *)
CommitMessage(c, route, members) ==
    SkeMessage(c, <<c>> \o route, members, NoValue, NoValue, NoValue)
Commit(c, route, members, fresh) ==
    SkeUpflow(NewSkeMember, c, CommitMessage(c, route, members), fresh)

\* Mutant: the nonce in the list is not renewed.
JoinKeepsNonce(s, c, members, fresh) ==
    [s EXCEPT !.members = members, !.authd = {c}, !.nonce = fresh, !.sid = ComputeSid(s.nonces)]

(* join of the members on the route, and exclude; both with a new nonce.   *)
Join(s, c, members, fresh) ==
    LET nonces == Extend(s.nonces, c, fresh)
    IN  [s EXCEPT !.members = members, !.authd = {c}, !.nonce = fresh, !.nonces = nonces,
                  !.sid = ComputeSid(nonces)]

Exclude(s, c, members, fresh) ==
    LET nonces == [d \in members |-> IF d = c THEN fresh ELSE s.nonces[d]]
    IN  [s EXCEPT !.members = members, !.authd = {c}, !.nonce = fresh, !.nonces = nonces,
                  !.pubKeys = [d \in members |-> @[d]], !.sid = ComputeSid(nonces)]

-----------------------------------------------------------------------------
\* Mutant: every message replaces everything.
AdoptAlways(s, c, msg) ==
    [s EXCEPT !.members = msg.members, !.nonces = msg.nonces, !.pubKeys = msg.pubKeys,
              !.sid = ComputeSid(msg.nonces), !.authd = {c}]

(* What c knows when it has taken in the contributions of a downflow       *)
(* message: a session id other than the known one replaces everything.     *)
Adopt(s, c, msg) ==
    IF s.sid = ComputeSid(msg.nonces) THEN s
    ELSE [s EXCEPT !.members = msg.members, !.nonces = msg.nonces, !.pubKeys = msg.pubKeys,
                   !.sid = ComputeSid(msg.nonces), !.authd = {c}]

(* downflow; its assertion that the signature verifies; and whether c      *)
(* answers with its own signature, as it does to what it had not seen.     *)
SkeDownflow(s, c, msg) ==
    LET known == Adopt(s, c, msg) IN [known EXCEPT !.authd = @ \cup {msg.src}]
DownflowVerifies(s, c, msg) == VerifySessionSig(Adopt(s, c, msg), msg.src, msg.signature)
DownflowAnswers(s, msg) == s.sid # ComputeSid(msg.nonces)

(* The answer, given the member after it.                                  *)
Confirmation(s, c, msg) ==
    SkeMessage(c, <<>>, msg.members, msg.nonces, msg.pubKeys, SessionSig(s, c))

IsSessionAcknowledged(s) == s.authd # {} /\ s.members \subseteq s.authd

=============================================================================
