--------------------------- MODULE QueueProperties ---------------------------
(***************************************************************************)
(* What a user can rely on who sends with a LocalSendQueue (QueuedSession).*)
(***************************************************************************)
EXTENDS QueuedSession

InQueue(h) == {h.queue[i].mId : i \in DOMAIN h.queue}
Obsolete(h) == {r.old_mId : r \in h.resent} \cup h.dropped
OwnLogged == {m \in DOMAIN hybrid.log.parents : m[1] = Owner}

(* A message is in the queue until everybody has it, or the user was told  *)
(* that another one takes its place (send, _onFullyAcked, _drop).          *)
QueueHoldsUnacked ==
    \A m \in OwnLogged :
        m \in InQueue(hybrid) <=> m \notin Session(m[3]).ktime \cup Obsolete(hybrid)

(* The user learns of every message in the queue that may be lost: it was  *)
(* reported, and is tried again when the members change, or its session is *)
(* still to report it (_changeSubSession stops sessions before it cancels  *)
(* the subscriptions; expect, _onNotFullyAcked).                           *)
NoneIsForgotten ==
    \A i \in DOMAIN hybrid.queue : LET item == hybrid.queue[i] IN
        IF item.sId = 0 \/ item.mId \in hybrid.told THEN item.mayResend
        ELSE item.sId \in hybrid.attached /\ item.mId \notin hybrid.warned

(* What was sent, or sent again, is seen by others after the same messages *)
(* of others as by its author when the user wrote it, by the same users,   *)
(* and in the order in which the user wrote it (_maybeAutoResend,          *)
(* _maybeAutoSend, _findEarliestContinuous).                               *)
SentInContext ==
    \A i \in DOMAIN hybrid.queue : LET item == hybrid.queue[i] IN item.sId # 0 =>
        /\ item.parents = BeforeOwn(hybrid, hybrid.log.parents[item.mId])
        /\ item.members \in {AnyMembers, Users(Session(item.sId).members)}
        /\ \A j \in DOMAIN hybrid.queue :
              i < j /\ hybrid.queue[j].sId = item.sId =>
                \E k, l \in DOMAIN hybrid.log.list :
                    /\ k < l
                    /\ hybrid.log.list[k] = item.mId /\ hybrid.log.list[l] = hybrid.queue[j].mId

(* The reference for causality over several sessions: m comes after what   *)
(* is before it in its session and, if it was created by a change of       *)
(* members, after what whoever proposed the change had accepted.           *)
EarlierInSession(i, mIds) ==
    LET ts == Session(i).ts
        upTo[m \in MIds(ts)] == {m} \cup UNION {upTo[p] : p \in Parents(ts, m)}
    IN  UNION {upTo[m] : m \in mIds}

Payloads(mIds) == {m \in mIds : m \in DOMAIN hybrid.log.parents}

(* The parents that the user sees, also over a change of members, are the  *)
(* latest earlier messages with a payload, and come first in the log: a    *)
(* message that seems to answer nothing in its own session comes after     *)
(* what the members had accepted before (getSubscriberFor, _add,           *)
(* _resolveEarlier, _makeSubSession).                                      *)
LogSpansSessions ==
    LET log == hybrid.log
        Earlier(m) == EarlierInSession(m[3], Parents(Session(m[3]).ts, m))
        before[i \in {0} \cup SessionIds] == \* payloads that come before all of session i
            IF i = 0 \/ left.origins[i].previous = 0 THEN {}
            ELSE Payloads(EarlierInSession(left.origins[i].previous, left.origins[i].parents))
                    \cup before[left.origins[i].previous]
        Past(m) == Payloads(Earlier(m)) \cup before[m[3]]
    IN  \A k \in DOMAIN log.list : LET m == log.list[k] IN
            /\ log.parents[m] = {n \in Past(m) : \A o \in Past(m) : n \notin Past(o)}
            /\ Past(m) \subseteq {log.list[j] : j \in 1 .. k - 1}

(* Messages of one session are found fully acked in the order in which     *)
(* they were sent, so that those before in the queue are gone by then, and *)
(* nothing that the queue does makes a session fail (_onFullyAcked: "due   *)
(* to strong ordering, they should already have been dropped"; stop, fin). *)
AckedInOrder ==
    /\ "order" \notin hybrid.failed
    /\ \A i \in SessionIds : ~ Session(i).fubar /\ Session(i).invalid = {}

(* Messages written offline are sent without the user's doing only if that *)
(* was activated in the constructor (LocalSendQueue's documentation).      *)
OfflineOnlyIfActivated ==
    hybrid.autoSendOffline \/ \A r \in hybrid.resent : r.old_sId = 0 => r.manual

=============================================================================
