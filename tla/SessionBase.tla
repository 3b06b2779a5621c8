----------------------------- MODULE SessionBase -----------------------------
(***************************************************************************)
(* SessionBase of impl/session.js: one member's side of a session whose    *)
(* members stay the same, with its buffer of messages that cannot be       *)
(* accepted yet (TrialBuffer and TrialTimeoutTarget of helper/struct.js)   *)
(* and its monitors (DefaultConsistencyMonitor of impl/liveness.js).       *)
(*                                                                         *)
(* A session is a record, a method an operator; c is the session's owner.  *)
(* Timers are sets of what is still to fire.                               *)
(***************************************************************************)
EXTENDS MessageLog, SequencesExt

CONSTANT MaxBuffer    \* _expectedMaxBuf()

NewSession(sId, members) ==
    [sId |-> sId,
     members |-> members,
     ts |-> NewTranscript,
     messages |-> NewLog({}),   \* the log its messages are shown in
     pubtxt |-> {},             \* messages that are known to be duplicates when received
     ktime |-> {},              \* messages whose full ack was published
     tryAccept |-> <<>>,        \* messages whose parents are missing
     timeouts |-> {},           \* those of them whose timeout is running
     ackmon |-> {},             \* messages that are expected to be fully acked
     monitors |-> {},           \* those of them that are to be acked by us after a while
     state |-> "JOINED",
     finId |-> NoMsg,           \* the message sent by fin()
     finTimer |-> "none",       \* _pubFin: on "timeout", after "grace", or "none"
     invalid |-> {},            \* messages that add() refused
     fubar |-> FALSE]           \* an assertion failed

Asserted(s, holds) == [s EXCEPT !.fubar = @ \/ ~ holds]

IsConsistent(s) == \A m \in s.ts.unacked : ShouldIgnore(s.ts, m)

-----------------------------------------------------------------------------
(* Mutated form of NeedAckmon: the wrong way round.                        *)
NeedAckmonOfOwn(c, msg) == msg.body # "ack" /\ msg.author = c

(* _add: expect() the full ack of the message, publish MsgAccepted, and    *)
(* MsgFullyAcked of every message whose last ack it is.  Own messages have *)
(* an empty sequence of monitor intervals, and explicit acks no monitor.   *)
NeedAckmon(c, msg) == msg.body # "ack" /\ msg.author # c

Expect(c, s, msg) ==
    [s EXCEPT !.ackmon = @ \cup {msg.mId},
              !.monitors = IF NeedAckmon(c, msg) THEN @ \cup {msg.mId} ELSE @]

MsgAccepted(s, msg) == [s EXCEPT !.messages = LogAccepted(@, s.ts, msg.mId)]

(* _stopAckmon takes a key that is there; fin() waits a little longer.     *)
MsgFullyAcked(s, mIds) ==
    Asserted([s EXCEPT !.ktime = @ \cup mIds, !.ackmon = @ \ mIds, !.monitors = @ \ mIds,
                     !.finTimer = IF s.finId \in mIds /\ @ = "timeout" THEN "grace" ELSE @],
           mIds \subseteq s.ackmon)

AddMessage(c, s, msg) ==
    LET ts == Add(s.ts, msg)
        Added(t) == Expect(c, [s EXCEPT !.ts = t, !.pubtxt = @ \cup {msg.mId}], msg)
    IN  MsgFullyAcked(MsgAccepted(Added(ts), msg), (s.ts.unacked \cup {msg.mId}) \ ts.unacked)

TryAdd(c, s, msg) ==
    IF CanAdd(s.ts, msg) /\ msg.readers \cup {msg.author} = s.members
    THEN AddMessage(c, s, msg)
    ELSE [s EXCEPT !.invalid = @ \cup {msg.mId}]

-----------------------------------------------------------------------------
(* sendObject.                                                             *)
OnlyWhileJoined(body) == body \in {"payload", "fin"}
MaySend(s, body) == s.state = "JOINED" \/ ~ OnlyWhileJoined(body)

(* A message is known by its author, its number and its session.           *)
NextMId(c, s) == <<c, Cardinality(ByAuthor(s.ts, c)) + 1, s.sId>>

(* Mutated form of OwnMessage: its parent is the message accepted last.    *)
OwnMessageAfterLast(c, s, body) ==
    [mId |-> NextMId(c, s), author |-> c,
     parents |-> {m \in MIds(s.ts) : MessageIndex(s.ts, m) = Len(s.ts.log)},
     readers |-> s.members \ {c}, body |-> body]

OwnMessage(c, s, body) ==
    [mId |-> NextMId(c, s), author |-> c,
     parents |-> s.ts.maxMessages, readers |-> s.members \ {c}, body |-> body]

SendObject(c, s, body) ==
    IF MaySend(s, body) THEN TryAdd(c, s, OwnMessage(c, s, body)) ELSE s

(* The monitor of a message runs once: _checkKey, _handleUnackedByOwn.     *)
AckmonFires(c, s, m) ==
    LET MustAck(t) == c \in t.ts.unackby[m]
        IsAcked(t) == SucRuId(t.ts, m, c) # NoMsg
        Acks(t) == Asserted(t, IsAcked(t))
    IN  [(IF MustAck(s) THEN Acks(SendObject(c, Asserted(s, ~ IsAcked(s)), "ack")) ELSE s)
           EXCEPT !.monitors = @ \ {m}]

-----------------------------------------------------------------------------
(* recv: tryAccept.trial, with tryMe = _tryAcceptTry.                      *)
ParentsKnown(s, msg) == msg.parents \subseteq MIds(s.ts)
IsStashed(s, m) == \E i \in DOMAIN s.tryAccept : s.tryAccept[i].mId = m
Unstash(s, m) ==
    IF IsStashed(s, m)
    THEN RemoveAt(s.tryAccept, CHOOSE i \in DOMAIN s.tryAccept : s.tryAccept[i].mId = m)
    ELSE s.tryAccept

Unstashed(s, m) == [s EXCEPT !.tryAccept = Unstash(s, m), !.timeouts = @ \ {m}]

(* retryAll: over the buffer, until nothing in it can be accepted.         *)
TryAndDelete(c, s, msg) ==
    IF ParentsKnown(s, msg) THEN Unstashed(TryAdd(c, s, msg), msg.mId) ELSE s

(* One pass over the buffer, with the items that it had before.            *)
RetryOnce(c, s) ==
    LET tried[n \in 0 .. Len(s.tryAccept)] ==
            IF n = 0 THEN s ELSE TryAndDelete(c, tried[n - 1], s.tryAccept[n])
    IN  tried[Len(s.tryAccept)]

(* Mutated form of RetryAll: not at all.                                   *)
RetryNothing(c, s) == s

RetryAll(c, s) ==
    LET retried[n \in 0 .. Len(s.tryAccept)] ==
            IF n = 0 THEN s ELSE RetryOnce(c, retried[n - 1])
    IN  retried[Len(s.tryAccept)]

(* A message that is stashed again moves to the end; if the buffer is too  *)
(* long the oldest is dropped, though its timeout still runs.              *)
DropExtra(s) ==
    IF Len(s.tryAccept) > MaxBuffer THEN [s EXCEPT !.tryAccept = Tail(@)] ELSE s

Stash(s, msg) ==
    IF IsStashed(s, msg.mId)
    THEN [s EXCEPT !.tryAccept = Append(Unstash(s, msg.mId), msg)]
    ELSE DropExtra([s EXCEPT !.tryAccept = Append(@, msg), !.timeouts = @ \cup {msg.mId}])

Recv(c, s, msg) ==
    IF msg.mId \in s.pubtxt THEN s
    ELSE IF ParentsKnown(s, msg) THEN RetryAll(c, TryAndDelete(c, s, msg))
    ELSE Stash(s, msg)

(* _tryAcceptTimeout publishes NotAccepted, and the message stays.         *)
TimeoutFires(s, m) == [s EXCEPT !.timeouts = @ \ {m}]

-----------------------------------------------------------------------------
(* fin, and its end: when its message was fully acked a while ago, or on a *)
(* timeout.  stop() compares the monitors with the transcript.             *)
Fin(c, s) ==
    LET Sent(t) == Asserted([t EXCEPT !.state = "PARTING", !.finTimer = "timeout",
                                    !.finId = CHOOSE m \in t.ts.maxMessages : TRUE],
                          Cardinality(t.ts.maxMessages) = 1)
    IN  Sent(SendObject(c, s, "fin"))

Stop(s) == [Asserted(s, s.ackmon = s.ts.unacked) EXCEPT !.monitors = {}]

PubFin(s) ==
    [Stop(s) EXCEPT !.finTimer = "none",
                    !.state = IF IsConsistent(s) THEN "PARTED" ELSE "PART_FAILED"]

=============================================================================
