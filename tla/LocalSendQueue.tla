---------------------------- MODULE LocalSendQueue ----------------------------
(***************************************************************************)
(* LocalSendQueue of impl/applied.js, with what HybridSession of           *)
(* impl/session.js does to the sessions that it sends in: the current one  *)
(* and the previous one, that write to one message log.                    *)
(*                                                                         *)
(* A HybridSession with its queue is a record h; sessions are known by     *)
(* their place in h.sessions, 0 stands for none.  The arrays toSend,       *)
(* activeSent and mayResend are one sequence of records.                   *)
(***************************************************************************)
EXTENDS SessionBase

CONSTANTS
    Owner,      \* whose queue it is
    UserOf      \* resolveLogicalMembers: [member -> the user whose device it is]

AnyMembers == {}    \* READERS_WILDCARD: there were no members yet

NewQueue(autoSendOffline) ==
    [sessions |-> <<>>, current |-> 0, previous |-> 0,
     attached |-> {},       \* sessions whose events are forwarded to the queue
     log |-> [list |-> <<>>, parents |-> EmptyMap],
     queue |-> <<>>,        \* what was not fully acked
     offlineId |-> 0,
     autoSendOffline |-> autoSendOffline,
     warned |-> {},         \* messages whose time for a full ack is over
     told |-> {},           \* messages for which NotFullyAcked was published
     resent |-> {},         \* MsgResent that were published
     dropped |-> {},        \* messages that the user replaced
     failed |-> {}]         \* assertions that failed

Fails(h, assertion) == [h EXCEPT !.failed = @ \cup {assertion}]

(* A session's own part of the log is which payloads come before it all.   *)
Opened(h, i) ==
    [h.sessions[i] EXCEPT !.messages.list = h.log.list, !.messages.parents = h.log.parents]
Closed(h, i, s) ==
    [h EXCEPT !.sessions[i] = [s EXCEPT !.messages = NewLog(@.transcriptParents)],
              !.log = [list |-> s.messages.list, parents |-> s.messages.parents]]

-----------------------------------------------------------------------------
(* The context of a message: _getLogicalParents, that goes back over what  *)
(* we sent ourselves, and _getLogicalMembers.                              *)
CurParents(h) ==
    IF h.sessions = <<>> THEN {}
    ELSE LET s == Last(h.sessions) IN ResolveInLog(s.messages, s.ts, s.ts.maxMessages)

BeforeOwn(h, mIds) ==
    LET OwnOnly(parents) == \E m \in parents : m[1] = Owner /\ parents = {m}
        back[n \in 0 .. Len(h.log.list)] ==
            IF n = 0 THEN mIds
            ELSE IF OwnOnly(back[n - 1]) THEN UNION {h.log.parents[m] : m \in back[n - 1]}
            ELSE back[n - 1]
    IN  back[Len(h.log.list)]

LogicalParents(h) == BeforeOwn(h, CurParents(h))

Users(members) == {UserOf[m] : m \in members}

LogicalMembers(h) ==
    Users(IF h.current # 0 THEN h.sessions[h.current].members
          ELSE IF h.previous # 0 THEN h.sessions[h.previous].members ELSE AnyMembers)

(* Mutated form of CheckMatches: does not compare parents.                 *)
MembersMatch(h, i) == h.queue[i].members \in {AnyMembers, LogicalMembers(h)}

CheckMatches(h, i) ==
    /\ h.queue[i].parents = LogicalParents(h)
    /\ h.queue[i].members \in {AnyMembers, LogicalMembers(h)}

(* What follows the last message that was sent in another context.         *)
FindEarliestContinuous(h) ==
    1 + Max({0} \cup {i \in DOMAIN h.queue : ~ CheckMatches(h, i)})

(* -1 is 0 here.                                                           *)
Find(h, m) == Max({0} \cup {i \in DOMAIN h.queue : h.queue[i].mId = m})

-----------------------------------------------------------------------------
(* _send, which gives what cannot be sent now an id of its own.            *)
CanSend(h) == h.current # 0 /\ MaySend(h.sessions[h.current], "payload")

TrySend(h) ==
    IF CanSend(h)
    THEN Closed(h, h.current, SendObject(Owner, Opened(h, h.current), "payload"))
    ELSE [h EXCEPT !.offlineId = @ + 1]

SentId(h) ==    \* of what TrySend has just sent
    IF CanSend(h) THEN [sId |-> h.current, mId |-> Last(h.log.list)]
    ELSE [sId |-> 0, mId |-> <<Owner, h.offlineId, 0>>]

Resent(old, sent, manual) ==
    [old_sId |-> old.sId, old_mId |-> old.mId, new_mId |-> sent.mId, manual |-> manual]

(* send, for the first time.                                               *)
SendNew(h) ==
    LET Enqueue(g, sent) ==
            [g EXCEPT !.queue =
                Append(@, [parents |-> LogicalParents(h), members |-> LogicalMembers(h),
                           sId |-> sent.sId, mId |-> sent.mId, mayResend |-> sent.sId = 0])]
        Tried(g) == Enqueue(g, SentId(g))
    IN  Tried(TrySend(h))

(* send, in place of a message of the queue that was sent before; it is    *)
(* dropped before it turns out whether the new one can be sent.            *)
MayReplace(h, i) == h.current # 0 /\ i \in DOMAIN h.queue /\ h.queue[i].sId # 0

Drop(h, i) == [h EXCEPT !.queue = RemoveAt(@, i)]

Replace(h, i) ==
    LET Sent(g, new) == IF new.sId = 0 THEN Fails(g, "canSend")
                        ELSE [g EXCEPT !.resent = @ \cup {Resent(h.queue[i], new, TRUE)}]
        Tried(g) == Sent(g, Last(g.queue))
    IN  Tried(SendNew([Drop(h, i) EXCEPT !.dropped = @ \cup {h.queue[i].mId}]))

-----------------------------------------------------------------------------
(* Sending again what is in the queue from first to last, of its own       *)
(* accord, for these members, or those for which it was sent before.       *)
Instead(h, i, sent, members) ==
    [h EXCEPT !.queue[i].sId = sent.sId, !.queue[i].mId = sent.mId, !.queue[i].members = members,
              !.resent = @ \cup {Resent(h.queue[i], sent, FALSE)}]

SendAgain(h, first, last, members) ==
    LET Again(g, i) ==
            LET Tried(t) == Instead(t, i, SentId(t),
                                    IF members = AnyMembers THEN g.queue[i].members ELSE members)
            IN  Tried(TrySend(g))
    IN  FoldLeft(Again, h, [k \in 1 .. last - first + 1 |-> first + k - 1])

(* _maybeAutoResend: the message idx, and what is after it, if all was     *)
(* sent in the present context, and the last was sent in another session.  *)
ResendFrom(h, idx, first) ==
    IF first > Len(h.queue) THEN h
    ELSE IF idx < first THEN Fails(h, "index")
    ELSE IF Last(h.queue).sId = h.current THEN h
    ELSE IF ~ CanSend(h) THEN Fails([h EXCEPT !.offlineId = @ + 1], "canSend")
    ELSE SendAgain(h, first, Len(h.queue), AnyMembers)

MaybeAutoResend(h, idx) ==
    IF h.current = 0 \/ ~ CheckMatches(h, idx) THEN h
    ELSE ResendFrom(h, idx, FindEarliestContinuous(h))

(* _maybeAutoSend, which gives up at a message that was sent before.       *)
SentBefore(h, first) ==
    {i \in first .. Len(h.queue) : h.queue[i].sId # 0 \/ ~ h.queue[i].mayResend}

MayAutoSend(h) == h.current # 0 /\ h.previous = 0
AutoSendGivesUp(h) == MayAutoSend(h) /\ SentBefore(h, FindEarliestContinuous(h)) # {}

MaybeAutoSend(h) ==
    LET Until(first, end) == SendAgain(h, first, end - 1, LogicalMembers(h))
        From(first) == Until(first, Min({Len(h.queue) + 1} \cup SentBefore(h, first)))
        Checked(g) == IF AutoSendGivesUp(h) THEN Fails(g, "sentBefore") ELSE g
    IN  IF MayAutoSend(h) THEN Checked(From(FindEarliestContinuous(h))) ELSE h

-----------------------------------------------------------------------------
(* The queue's subscribers.  For a message that is not in the queue they   *)
(* throw before they change anything.                                      *)
OnFullyAcked(h, m) ==
    LET At(idx) ==
            IF idx = 0 THEN h
            ELSE IF \E i \in 1 .. idx - 1 : h.queue[i].sId = h.queue[idx].sId THEN Fails(h, "order")
            ELSE Drop(h, idx)
    IN  At(Find(h, m))

OnNotFullyAcked(h, m) ==
    LET At(idx) == IF idx = 0 THEN h
                   ELSE MaybeAutoResend([h EXCEPT !.queue[idx].mayResend = TRUE], idx)
    IN  At(Find(h, m))

OnSNMembers(h) ==
    LET Resend(g, idx) == IF idx = 0 THEN g ELSE MaybeAutoResend(g, idx)
        LastResendable(g) == Max({0} \cup {i \in DOMAIN g.queue : g.queue[i].mayResend})
        AfterAutoSend(g) == IF h.autoSendOffline /\ AutoSendGivesUp(h) THEN g
                            ELSE Resend(g, LastResendable(g))
    IN  AfterAutoSend(IF h.autoSendOffline THEN MaybeAutoSend(h) ELSE h)

-----------------------------------------------------------------------------
(* Mutated form of Forwards: only from the current session.                *)
ForwardsCurrent(h, i, m) == i = h.current /\ m \in DOMAIN h.log.parents

(* chainUserEventsTo: what is published by a session and forwarded.        *)
Forwards(h, i, m) == i \in h.attached /\ m \in DOMAIN h.log.parents

NotFullyAcked(h, i, m) ==
    IF Forwards(h, i, m) THEN OnNotFullyAcked([h EXCEPT !.told = @ \cup {m}], m) ELSE h

(* Mutated form of InOrder: the latest first.                              *)
InReverse(ts, mIds) == Reverse(SelectSeq(ts.log, LAMBDA m : m \in mIds))

(* What a session's method publishes, in the order of _sortMIds.           *)
InOrder(ts, mIds) == SelectSeq(ts.log, LAMBDA m : m \in mIds)

SessionDoes(h, i, s) ==
    LET Publish(g, m) == IF Forwards(g, i, m) THEN OnFullyAcked(g, m) ELSE g
    IN  FoldLeft(Publish, Closed(h, i, s), InOrder(s.ts, s.ktime \ h.sessions[i].ktime))

(* expect: once a full ack is overdue; it may still come.                  *)
FullAckWarn(h, i, m) == NotFullyAcked([h EXCEPT !.warned = @ \cup {m}], i, m)

(* stop() reports all that is not fully acked.                             *)
StopSession(h, i) ==
    LET Publish(g, m) == NotFullyAcked(g, i, m)
        Stopping(s) == FoldLeft(Publish, [h EXCEPT !.sessions[i] = Stop(s)], InOrder(s.ts, s.ackmon))
    IN  Stopping(h.sessions[i])

Detach(h, i) == [h EXCEPT !.attached = @ \ {i}]

(* Mutated form of Release: cancels before it stops.                       *)
DetachFirst(h, i) == StopSession(Detach(h, i), i)

Release(h, i) == Detach(StopSession(h, i), i)

-----------------------------------------------------------------------------
(* _changeSubSession, to a session with members, or, for {}, to none.      *)
(* parents are the latest messages of the current session that whoever     *)
(* proposed the change had accepted.                                       *)
FinPrevious(h) ==
    IF h.previous = 0 \/ h.sessions[h.previous].state # "JOINED" THEN h
    ELSE SessionDoes(h, h.previous, Fin(Owner, Opened(h, h.previous)))

RotateSession(h) ==
    LET Rotated(g) == FinPrevious([g EXCEPT !.previous = h.current])
    IN  Rotated(IF h.previous = 0 THEN h ELSE Release(h, h.previous))

MakeSubSession(h, members, parents) ==
    LET Before(s) == ResolveInLog(s.messages, s.ts, parents)
        new == Len(h.sessions) + 1
        With(log) ==
            [h EXCEPT !.sessions = Append(@, [NewSession(new, members) EXCEPT !.messages = log]),
                      !.current = new, !.attached = @ \cup {new}]
    IN  With(NewLog(IF h.previous = 0 THEN {} ELSE Before(h.sessions[h.previous])))

ChangeSubSession(h, members, parents) ==
    LET Changed(g) == IF members # {} THEN MakeSubSession(g, members, parents)
                      ELSE Release([g EXCEPT !.current = 0], g.previous)
    IN  OnSNMembers(Changed(RotateSession(h)))

=============================================================================
