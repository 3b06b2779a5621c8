-------------------------- MODULE SessionProperties --------------------------
(***************************************************************************)
(* What the members of a session can rely on (SessionGroup).               *)
(***************************************************************************)
EXTENDS SessionGroup

Ts(c) == session[c].ts

(* The reference for the causal order: what is reached over parents.       *)
Ancestors(ts, m) ==
    LET ancestors[n \in MIds(ts)] == Parents(ts, n) \cup UNION {ancestors[p] : p \in Parents(ts, n)}
    IN  ancestors[m]

(* The transcripts implement a causal broadcast: nothing is accepted       *)
(* before what its author had accepted, nothing twice, whatever the        *)
(* transport does (recv, tryAccept, add).                                  *)
Broadcast == INSTANCE CausalBroadcast
                WITH accepted <- [c \in Members |-> session[c].ts.log]
DeliversCausally == Broadcast!BroadcastSpec

(* What a member takes for fully acked has been accepted by everybody: an  *)
(* ack is evidence of its author's transcript (add, unackby).              *)
FullyAckedByAll ==
    \A c, d \in Members : session[c].ktime \subseteq MIds(Ts(d))

(* unackby, which add() keeps up to date, and suc_ruId, which searches the *)
(* messages that follow, tell the same about who has acked a message       *)
(* (_handleUnackedByOwn relies on it).                                     *)
UnackedAreUnanswered ==
    \A c \in Members : \A m \in MIds(Ts(c)) :
        Ts(c).unackby[m] = {u \in Readers(Ts(c), m) : SucRuId(Ts(c), m, u) = NoMsg}

(* le() decides the causal order from cached contexts: it says what a walk *)
(* over the parents says, and a context holds the latest earlier message   *)
(* of each reader (pre_ruId).                                              *)
OrderIsReachability ==
    \A c \in Members : LET ts == Ts(c) IN
        \A m \in MIds(ts) :
            /\ \A n \in MIds(ts) : Le(ts, n, m) <=> n = m \/ n \in Ancestors(ts, m)
            /\ \A u \in Readers(ts, m) :
                  LET earlier == Ancestors(ts, m) \cap ByAuthor(ts, u)
                  IN  IF earlier = {} THEN ts.context[m][u] = NoMsg
                      ELSE /\ ts.context[m][u] \in earlier
                           /\ earlier \subseteq Ancestors(ts, ts.context[m][u])
                                                  \cup {ts.context[m][u]}

(* Nothing that could be accepted is left in the buffer, and a message     *)
(* that was accepted is not reported as missing any more (trial, retryAll, *)
(* TrialTimeoutTarget.tryMe).                                              *)
OnlyUnreadyWait ==
    \A c \in Members : LET s == session[c] IN
        /\ \A i \in DOMAIN s.tryAccept : ~ ParentsKnown(s, s.tryAccept[i])
        /\ s.timeouts \cap s.pubtxt = {}

(* The members' own messages are never refused by the others, nor does an  *)
(* assertion fail: add() finds nothing wrong with them, the monitors match *)
(* the transcript at stop(), and acks are sent once                        *)
(* (_handleInvalidMessage, stop, _handleUnackedByOwn, fin).                *)
NothingRefused ==
    \A c \in Members : session[c].invalid = {} /\ ~ session[c].fubar

(* The parents that the user sees of a message are the latest messages     *)
(* with a payload before it, though acks may lie in between, and come      *)
(* before it in the log (resolveEarlier, DefaultMessageLog).               *)
LogShowsPast ==
    \A c \in Members : LET ts == Ts(c)  log == session[c].messages IN
        \A i \in DOMAIN log.list :
            LET m == log.list[i]
                earlier == {n \in Ancestors(ts, m) : ts.messages[n].body = "payload"}
            IN  /\ log.parents[m] = {n \in earlier : \A o \in earlier : n \notin Ancestors(ts, o)}
                /\ earlier \subseteq {log.list[j] : j \in 1 .. i - 1}

-----------------------------------------------------------------------------
(* What must happen in the end (FairSpec).                                 *)

(* Every message that arrives is accepted, in whatever order messages      *)
(* arrive (tryAccept).                                                     *)
EveryoneAccepts == []<>(\A c \in Members : AllMIds \subseteq session[c].pubtxt)

(* Members find that everybody has seen every payload, without a user's    *)
(* doing: monitors send the acks that are missing, until somebody stops    *)
(* them by parting (isConsistent, _generateMonitorIntervals,               *)
(* _handleUnackedByOwn).                                                   *)
PayloadsAcked ==
    []<>(\A c \in Members :
            IsConsistent(session[c]) \/ \E d \in Members : session[d].state # "JOINED")

=============================================================================
