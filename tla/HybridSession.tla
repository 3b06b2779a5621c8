--------------------------- MODULE HybridSession ---------------------------
(***************************************************************************)
(* One client's HybridSession (impl/session.js): it keeps the membership   *)
(* of the channel and of the encrypted session consistent by accepting at  *)
(* most one membership operation at a time, in the order the server gives. *)
(*                                                                         *)
(* The module has no variables.  A client is a record, and every handler   *)
(* is an operator from the record before it to the record after it; GroupSession *)
(* turns the handlers into actions.  What a handler sends is appended to   *)
(* the field out, the answer of a receive handler is the field ret, and    *)
(* the promises it settles are tokens in the field micro: JavaScript runs  *)
(* their callbacks after the handler's task, in that order.  An exception  *)
(* of a failed assertion sets the field fubar to its name and ends the     *)
(* handler.  A user's call that only reports an unsuitable state or argument *)
(* leaves the record as it is.                                             *)
(***************************************************************************)
EXTENDS ServerOrder, Greeting, ChannelServer, SequencesExt

CONSTANT Asynchronity   \* flowctl.asynchronity(): the capacity of tryDecrypt

NoOwnProposal == [n |-> NoProposal, prev |-> NoId, open |-> FALSE]
NoOwnOp == [phase |-> "none", inc |-> {}, exc |-> {}, toLeave |-> {}, rest |-> {},
            n |-> NoProposal]

(* A HybridSession outside the channel (state cos_).                       *)
Outside ==
    [options |-> {},            \* those that are set: autoIncludeExtra, stayIfLastMember
     channel |-> {},            \* channel.curMembers(); {} is null
     serverOrder |-> Unsynced,
     channelJustSynced |-> FALSE,
     moreSeniorThanUs |-> {}, taskExclude |-> {}, taskLeave |-> {},
     current |-> NoSession,     \* the current sub-session
     parting |-> "no",          \* its own fin(): no, sent, done
     previous |-> NoSid,        \* the previous one, while it still receives
     prevFin |-> FALSE,         \* its fin() is yet to reach consistency
     greeting |-> NoGreeting, currentPi |-> NoId,
     pendingGreetPP |-> {},     \* {} is false
     proposed |-> NoGreeting,   \* the Greeter's proposedGreeting
     ownProposal |-> NoOwnProposal, ownOp |-> NoOwnOp, opInclude |-> {},
     tryDecrypt |-> <<>>, retry |-> 0, hadSuccess |-> FALSE,
     micro |-> <<>>, out |-> <<>>, ret |-> TRUE,
     proposals |-> 0, syncs |-> 0, fubar |-> "no"]

Fubar(s) == s.fubar # "no"
Fail(s, what) == [s EXCEPT !.fubar = what]
Check(s, holds, what) == IF Fubar(s) \/ holds THEN s ELSE Fail(s, what)
Send(s, pkt) == [s EXCEPT !.out = Append(@, pkt)]
Settle(s, token) == [s EXCEPT !.micro = Append(@, token)]

CurMembers(c, s) == IF s.current = NoSession THEN {c} ELSE s.current.members
HasGreeting(s) == s.greeting # NoGreeting
HasOwnProposal(s) == s.ownProposal # NoOwnProposal

(* _internalState, and the assertions it makes.                            *)
InternalState(s) ==
    IF s.channel = {} THEN "cos_"
    ELSE IF ~ s.serverOrder.synced THEN "Cos_"
    ELSE IF s.current # NoSession THEN "COS_"
    ELSE IF s.channelJustSynced THEN "COsJ"
    ELSE "COsj"
InternalStateFails(s) ==
    CASE InternalState(s) = "cos_" -> s.serverOrder.synced \/ s.current # NoSession
      [] InternalState(s) = "Cos_" -> s.current # NoSession \/ HasGreeting(s)
      [] InternalState(s) = "COsJ" -> HasGreeting(s)
      [] OTHER -> FALSE

ConsistentTasks(s) == s.taskExclude \cap s.taskLeave = {}
ConsistentTasksNow(c, s) ==
    /\ s.taskExclude \subseteq CurMembers(c, s)
    /\ s.taskLeave \subseteq s.channel
    /\ ConsistentTasks(s)

CheckTasks(c, s) == Check(s, ConsistentTasksNow(c, s), "tasks")

ClearChannelRecords(s) ==
    [s EXCEPT !.serverOrder = Unsynced, !.channelJustSynced = FALSE,
              !.moreSeniorThanUs = {}, !.taskExclude = {}, !.taskLeave = {}]
ClearOwnOperation(s) == [s EXCEPT !.ownOp = NoOwnOp, !.opInclude = {}]
ClearOwnProposal(s) == [s EXCEPT !.ownProposal = NoOwnProposal]

-----------------------------------------------------------------------------
(* _proposeGreetInit: the assertions, the exceptions, the proposal.        *)
MayPropose(c, s, include, exclude) ==
    /\ s.serverOrder.synced
    /\ (CurMembers(c, s) \cup include) \ exclude \subseteq s.channel
ProposalFails(c, s, include, exclude) ==
    \/ HasOwnProposal(s)
    \/ include \cap (s.taskLeave \cup s.taskExclude) # {}
    \/ /\ s.serverOrder.synced
       /\ \/ include \cap CurMembers(c, s) # {}
          \/ ~ exclude \subseteq CurMembers(c, s) \ {c}
          \/ include \cup exclude = {}
          \/ include # {} /\ exclude # {}

ProposeGreetInit(c, s, include, exclude) ==
    IF Fubar(s) \/ ProposalFails(c, s, include, exclude)
    THEN Check(s, FALSE, "proposal")
    ELSE IF ~ MayPropose(c, s, include, exclude) THEN Fail(s, "notAppropriate")
    ELSE LET n == <<c, s.proposals + 1>>
             next == (CurMembers(c, s) \cup include) \ exclude
             route == SetToSeq(include)
             prevPf == PrevPf(s.serverOrder)
         IN  Send([s EXCEPT !.proposals = @ + 1,
                            !.proposed = ProposedGreeting(c, s.current, next, route, n),
                            !.ownProposal = [n |-> n, prev |-> prevPf, open |-> TRUE]],
                  Proposal(c, next, route, n, prevPf, PrevCh(s.serverOrder)))

(* _maybeFinishOwnProposal: an accepted initial packet settles the own     *)
(* proposal, if still open, that is it or that competed with it.  (For a   *)
(* final packet the code's calls have no effect: an own proposal never     *)
(* refers to an initial packet.)                                           *)
MaybeFinishOwnProposal(s0, n, prevPf) ==
    LET own == s0.ownProposal
        s == Check(s0, own.n = n => own.prev = prevPf, "ownProposalPrev")
    IN  IF Fubar(s) \/ ~ own.open \/ (own.n # n /\ own.prev # prevPf) THEN s
        ELSE Settle([s EXCEPT !.ownProposal.open = FALSE],
                    IF own.n = n THEN "proposalAccepted" ELSE "proposalRejected")

MaybeHandleExtra(c, s, extras) ==
    IF "autoIncludeExtra" \in s.options THEN ProposeGreetInit(c, s, extras, {}) ELSE s

\* Mutant: nobody is excluded.
TasksIgnored(c, s) == Check(s, ConsistentTasksNow(c, s), "tasks")

MaybeHandleTasks(c, s0) ==
    LET s == Check(s0, ConsistentTasksNow(c, s0), "tasks")
    IN  IF HasGreeting(s) \/ HasOwnProposal(s) \/ s.taskExclude = {} THEN s
        ELSE ProposeGreetInit(c, s, {}, s.taskExclude)

MaybeSyncNew(c, s0) ==
    LET s == Check(s0, ~ s0.serverOrder.synced, "syncNew")
        synced == [s EXCEPT !.serverOrder = SyncNew([k |-> "new", by |-> c, i |-> s.syncs + 1]),
                            !.channelJustSynced = TRUE, !.syncs = @ + 1]
    IN  IF Fubar(s) \/ s.moreSeniorThanUs # {} THEN s
        ELSE IF s.channel = {c} THEN synced
        ELSE MaybeHandleExtra(c, synced, s.channel \ {c})

-----------------------------------------------------------------------------
(* _changeSubSession: g is the completed greeting; NoGreeting, or one that *)
(* leaves the owner alone, ends the session without a new one.  The old    *)
(* session's fin() is sent, and followed by _onPrevSessionFin, unless this *)
(* client had already sent it.  An own operation that asked for just this  *)
(* change is settled by the membership event.                              *)
ChangeSubSession(c, s0, g) ==
    LET old == CurMembers(c, s0)
        new == IF g = NoGreeting THEN {c} ELSE g.next
        s == Check(s0, IF s0.current = NoSession THEN new # {c}
                       ELSE g = NoGreeting \/ old = g.prev, "changeSubSession")
        changed == [s EXCEPT
            !.channelJustSynced = FALSE,
            !.prevFin = s.current # NoSession /\ s.parting = "no",
            !.previous = IF new = {c} THEN NoSid ELSE s.current.sid,
            !.current = IF new = {c} THEN NoSession ELSE [sid |-> g.sid, members |-> new],
            !.parting = "no"]
    IN  IF Fubar(s) THEN s
        ELSE IF /\ s.ownOp # NoOwnOp
                /\ s.ownOp.inc = new \ old
                /\ s.ownOp.exc = old \ new
        THEN Settle(changed, "ownOp")
        ELSE changed

\* Mutant: who was excluded remains to be excluded.
CompleteKeepsExclude(s, g) ==
    [s EXCEPT !.taskLeave = @ \cup (s.pendingGreetPP \cap (g.prev \ g.next))]

(* _onGreetingComplete, for a greeting that keeps the owner: the members   *)
(* it excluded have left the session, and are now to leave the channel.    *)
OnGreetingComplete(s, g) ==
    LET exclude == g.prev \ g.next
        s1 == Check(s, g.next \subseteq s.pendingGreetPP, "greetingComplete")
        s2 == [s1 EXCEPT !.taskExclude = @ \ exclude,
                         !.taskLeave = @ \cup (s.pendingGreetPP \cap exclude)]
    IN  IF Fubar(s1) THEN s1 ELSE Check(s2, ConsistentTasks(s2), "tasks")

(* _clearGreeting, which starts TrialBuffer.retryAll.                      *)
ClearGreeting(s) ==
    IF Fubar(s) THEN s
    ELSE [s EXCEPT !.greeting = NoGreeting, !.currentPi = NoId, !.pendingGreetPP = {},
                   !.retry = IF s.tryDecrypt = <<>> THEN 0 ELSE 1, !.hadSuccess = FALSE]

(* The callbacks _setGreeting registers on the promise of a greeting: of   *)
(* one that completed, and of one that failed (ClearGreeting).             *)
GreetingDone(c, s) ==
    LET g == s.greeting
    IN  IF g.fin # 1 THEN Fail(s, "greetingComplete")
        ELSE IF c \notin g.next THEN ClearGreeting(s)
        ELSE ClearGreeting(ChangeSubSession(c, OnGreetingComplete(s, g), g))

FailGreeting(s) ==
    IF Fubar(s) \/ s.greeting.fin # 0 THEN Check(s, FALSE, "greetingFail")
    ELSE Settle([s EXCEPT !.greeting.fin = 2], "greetingFailed")

MaybeLeaveChannel(c, s, pendingLeave) ==
    IF "stayIfLastMember" \in s.options /\ s.channel \ pendingLeave = {c}
    THEN LET s1 == ClearOwnProposal(ClearOwnOperation(Check(s, ~ HasGreeting(s), "stayLast")))
             s2 == IF s1.current = NoSession THEN s1 ELSE ChangeSubSession(c, s1, NoGreeting)
         IN  [s2 EXCEPT !.channelJustSynced = TRUE]
    ELSE Send(s, LeaveSelf)

\* Mutant: nobody is made to leave the channel.
PrevSessionFinIgnored(c, s) == [s EXCEPT !.prevFin = FALSE]

(* _onPrevSessionFin.                                                      *)
OnPrevSessionFin(c, s0) ==
    LET s == [s0 EXCEPT !.prevFin = FALSE]
        pendingLeave == s.channel \cap s.taskLeave
        kicked == IF pendingLeave = {} THEN s ELSE Send(s, KickOthers(pendingLeave))
    IN  IF s.channel = {} THEN s
        ELSE IF s.current # NoSession \/ ~ s.serverOrder.synced THEN kicked
        ELSE IF HasGreeting(s) THEN Check(kicked, c \in s.greeting.next, "prevSessionFin")
        ELSE MaybeLeaveChannel(c, kicked, pendingLeave)

-----------------------------------------------------------------------------
(* _onOthersEnter.                                                         *)
OnOthersEnter(c, s0, others) ==
    LET s == Check(s0, ConsistentTasks(s0) /\ others \cap s0.taskLeave = {}, "tasks")
        excluding == others \cap s.taskExclude
        unexpected == (others \ excluding) \ s.opInclude
        s1 == IF excluding = {} THEN s ELSE Send(s, KickOthers(excluding))   \* [rule EAL]
        s2 == IF unexpected = {} THEN s1
              ELSE IF HasGreeting(s)                                         \* [rule EO]
                   THEN Send(Check(s1, unexpected \cap s.greeting.next = {}, "othersEnter"),
                             KickOthers(unexpected))
              ELSE MaybeHandleExtra(c, s1, unexpected)                       \* [rule ES]
    IN  IF Fubar(s) THEN s ELSE Check(s2, ConsistentTasksNow(c, s2), "tasks")

\* Mutant: the greeting is not told of the departure.
AbortOrderOnly(c, s, others) ==
    [s EXCEPT !.serverOrder = AcceptLeavePacket(@, others, s.channel)]

(* _onOthersLeave.  [rule LOI] aborts the ongoing operation if one of its  *)
(* members left; [rule LS, LOX] excludes those who left from the session.  *)
AbortOperation(c, s0, others) ==
    LET s == Check(s0, CurMembers(c, s0) = s0.greeting.prev /\ HasOngoingOp(s0.serverOrder),
                   "othersLeave")
    IN  IF Fubar(s) THEN s
        ELSE FailGreeting([s EXCEPT !.serverOrder = AcceptLeavePacket(@, others, s.channel)])

SyncIfSenior(c, s) == IF s.serverOrder.synced THEN s ELSE MaybeSyncNew(c, s)
AbortIfMember(c, s, others) ==
    IF HasGreeting(s) /\ s.greeting.next \cap others # {} THEN AbortOperation(c, s, others) ELSE s

\* Mutant: no [rule LS].
LeaveUnnoticed(c, s, others) == IF Fubar(s) THEN s ELSE [s EXCEPT !.taskLeave = @ \ others]

ExcludeLeft(c, s, others) ==
    LET left == CurMembers(c, s) \cap others
        marked == [s EXCEPT !.taskLeave = @ \ others, !.taskExclude = @ \cup left]
    IN  IF Fubar(s) THEN s
        ELSE IF left = {} THEN marked ELSE MaybeHandleTasks(c, marked)

OnOthersLeave(c, s, others) ==
    LET unaware == [s EXCEPT !.moreSeniorThanUs = @ \ others]
    IN  IF ~ ConsistentTasks(s) THEN Fail(s, "tasks")
        ELSE CheckTasks(c, ExcludeLeft(c, AbortIfMember(c, SyncIfSenior(c, unaware), others),
                                       others))

(* A session message that is a leave-intent (two final Consistency         *)
(* messages in a row), accepted by the sub-session it belongs to:          *)
(* _onMaybeLeaveIntent.  Everything else about messages is left out.       *)
SessionRecv(c, s, pkt) ==
    IF pkt.t # "intent" \/ pkt.sid \notin {s.current.sid, s.previous} \ {NoSid}
    THEN [s EXCEPT !.ret = FALSE]
    ELSE IF pkt.src = c \/ pkt.src \notin CurMembers(c, s) THEN [s EXCEPT !.ret = TRUE]
    ELSE MaybeHandleTasks(c, [s EXCEPT !.ret = TRUE, !.taskExclude = @ \cup {pkt.src}])

-----------------------------------------------------------------------------
(* makePacketId, with the members of the channel as the client sees them.  *)
PacketId(pkt, channelMembers) ==
    IF pkt.t = "init" THEN [k |-> "init", n |-> pkt.n, to |-> channelMembers]
    ELSE [k |-> "confirm", sid |-> pkt.sid, src |-> pkt.src, to |-> channelMembers]

(* Greeter.partialDecode: the summary of an initial or final packet.  An   *)
(* initial packet that leaves a single member is final as well.  A         *)
(* proposal that claims to be ours must be the one we made last.           *)
IsOp(c, s, pkt) ==
    \/ pkt.t = "init" /\ (pkt.src = c => s.proposed.n = pkt.n)
    \/ pkt.t = "confirm" /\ HasGreeting(s) /\ ExpectsFinalMessage(s.greeting, c, pkt.src)

GreetingSummary(s, pkt) ==
    LET pId == PacketId(pkt, s.channel)
        alone == Cardinality(pkt.members) = 1
    IN  IF pkt.t = "init"
        THEN [pId |-> pId, initial |-> TRUE, final |-> alone, members |-> pkt.members,
              prevPf |-> pkt.prevPf, prevCh |-> pkt.prevCh,
              prevPi |-> IF alone THEN pId ELSE NoId]
        ELSE [pId |-> pId, initial |-> FALSE, final |-> TRUE, members |-> pkt.members,
              prevPf |-> NoId, prevCh |-> <<>>, prevPi |-> s.currentPi]

(* Greeting.recv within the session: the answer goes out, completion       *)
(* settles the promise.                                                    *)
GreetingRecv(c, s, pkt, first) ==
    LET g == Recv(s.greeting, c, pkt, first)
        s1 == [s EXCEPT !.greeting = g, !.ret = TRUE,
                        !.out = @ \o RecvAnswer(s.greeting, c, pkt, first)]
    IN  IF Fubar(s) \/ ~ HasGreeting(s) \/ g.err THEN Check(s, FALSE, "greetingRecv")
        ELSE IF ~ IsGreet(pkt) THEN [s EXCEPT !.ret = FALSE]
        ELSE IF g.fin = 1 THEN Settle(s1, "greetingDone") ELSE s1

\* Mutant: the own greeting is used for whatever was accepted.
AcceptAsOwn(c, s, pkt, op) ==
    IF Fubar(s) \/ ~ op.initial THEN s
    ELSE MaybeFinishOwnProposal(
            [s EXCEPT !.greeting = IF s.proposed # NoGreeting THEN s.proposed
                                   ELSE NewGreeting(c, s.current),
                      !.currentPi = op.pId, !.proposed = NoGreeting],
            pkt.n, op.prevPf)

(* postAcceptInitial: Greeter.decode and _setGreeting.                     *)
PostAcceptInitial(c, s, pkt, op) ==
    IF Fubar(s) \/ ~ op.initial THEN s
    ELSE MaybeFinishOwnProposal(
            [s EXCEPT !.greeting = IF s.proposed.n = pkt.n THEN s.proposed
                                   ELSE NewGreeting(c, s.current),
                      !.currentPi = op.pId, !.proposed = NoGreeting],
            pkt.n, op.prevPf)

Kick(s, op) ==
    LET toLeave == s.taskLeave \cap s.greeting.next
    IN  IF ~ Fubar(s) /\ op.initial /\ toLeave # {} THEN Send(s, KickOthers(toLeave)) ELSE s
Pause(s, op) == IF op.final THEN [s EXCEPT !.pendingGreetPP = s.channel] ELSE s

\* Mutant: post-processing is not waited for.
AcceptWithoutPause(c, s, pkt, op) ==
    LET s1 == [s EXCEPT !.serverOrder = TryOpPacket(@, c, op, s.channel)]
    IN  GreetingRecv(c, PostAcceptInitial(c, s1, pkt, op), pkt, op.initial)

(* An accepted packet: deliver it, kick those who have to leave the channel *)
(* first [rule IAL], and wait for a greeting that is complete.             *)
AcceptOp(c, s, pkt, op) ==
    LET ordered == [s EXCEPT !.serverOrder = TryOpPacket(@, c, op, s.channel)]
    IN  Pause(Kick(GreetingRecv(c, PostAcceptInitial(c, ordered, pkt, op), pkt, op.initial), op),
              op)

(* _recvGreet; ret tells whether the packet was dealt with.                *)
RecvOp(c, s, pkt, op) ==
    IF s.serverOrder.synced /\ op.initial /\ pkt.src \notin CurMembers(c, s)
    THEN Check(s, ~ InternalStateFails(s), "internalState")
    ELSE IF ~ Echoed(op, s.channel) /\ ~ op.initial THEN Fail(s, "notEchoed")
    ELSE IF Accepts(s.serverOrder, c, op, s.channel) THEN AcceptOp(c, s, pkt, op)
    ELSE [s EXCEPT !.serverOrder = TryOpPacket(@, c, op, s.channel)]

RecvGreet(c, s, pkt) ==
    IF pkt.t = "confirm" /\ HasGreeting(s) /\ ExpectsFinalFails(s.greeting)
    THEN Fail(s, "expectsFinal")
    ELSE IF IsOp(c, s, pkt) THEN RecvOp(c, [s EXCEPT !.ret = TRUE], pkt, GreetingSummary(s, pkt))
    ELSE IF s.serverOrder.synced /\ HasOngoingOp(s.serverOrder)
         THEN GreetingRecv(c, s, pkt, FALSE)
         ELSE [s EXCEPT !.ret = FALSE]

-----------------------------------------------------------------------------
(* The control branch of _recvMain.                                        *)
OnEntered(c, s) == MaybeSyncNew(c, [s EXCEPT !.moreSeniorThanUs = s.channel \ {c}])

OnLeft(c, s) ==                                                      \* [rule LI]
    LET s1 == ClearOwnProposal(ClearOwnOperation(ClearChannelRecords(s)))
        s2 == IF HasGreeting(s1) THEN FailGreeting(s1) ELSE s1
    IN  IF Fubar(s2) \/ s2.current = NoSession THEN s2
        ELSE ChangeSubSession(c, s2, NoGreeting)

Entering(c, s, others) ==
    IF Fubar(s) \/ others = {} THEN s ELSE OnOthersEnter(c, s, others)
OnChange(c, s, pkt) ==
    Entering(c, IF pkt.leave = {} THEN s ELSE OnOthersLeave(c, s, pkt.leave), pkt.enter)

RecvControl(c, s, pkt) ==
    CASE pkt.t = "entered" -> OnEntered(c, s)
      [] pkt.t = "left"    -> OnLeft(c, s)
      [] OTHER             -> OnChange(c, s, pkt)

(* TrialBuffer.trial of a packet new to tryDecrypt.  Only messages of a    *)
(* sub-session can be dealt with then; anything else is stashed, at the    *)
(* expense of the oldest item when the buffer is full.                     *)
StartRetryAll(s) ==
    IF s.tryDecrypt = <<>> THEN s ELSE [s EXCEPT !.retry = 1, !.hadSuccess = FALSE]
Stash(s, pkt) ==
    LET all == Append(s.tryDecrypt, pkt)
    IN  [s EXCEPT !.tryDecrypt = IF Len(all) > Asynchronity THEN Tail(all) ELSE all]
Tried(s, pkt) == IF s.ret THEN StartRetryAll(s) ELSE Stash(s, pkt)
Trial(c, s, pkt) ==
    Tried(IF IsPubtxt(pkt) THEN SessionRecv(c, s, pkt) ELSE [s EXCEPT !.ret = FALSE], pkt)

(* _recvMain, of a packet just received and of one being retried.          *)
OrMessage(c, s, pkt, useQueue) ==
    IF Fubar(s) \/ s.ret THEN s
    ELSE IF useQueue THEN Trial(c, s, pkt)
    ELSE SessionRecv(c, s, pkt)
RecvMain(c, s, pkt, useQueue) ==
    OrMessage(c, IF IsPubtxt(pkt) THEN RecvGreet(c, s, pkt)
                 ELSE RecvControl(c, [s EXCEPT !.ret = TRUE], pkt),
              pkt, useQueue)

(* BaseGroupChannel.recv: the channel's own record of its members, and the *)
(* promise of an own operation that waits for members to enter or leave.   *)
AwaitDiff(s, enter, leave) ==
    LET op == s.ownOp
        awaited == IF op.phase = "entering" THEN enter ELSE leave
        undone == IF op.phase = "entering" THEN op.inc \cap leave ELSE op.toLeave \cap enter
    IN  IF op.phase \notin {"entering", "leaving"} THEN s
        ELSE IF undone # {} THEN Settle(s, "ownOp")
        ELSE IF op.rest \subseteq awaited THEN Settle([s EXCEPT !.ownOp.rest = {}], "nextStep")
        ELSE [s EXCEPT !.ownOp.rest = @ \ awaited]

ChannelRecv(c, s, pkt) ==
    CASE IsPubtxt(pkt) -> s
      [] pkt.t = "entered" -> [s EXCEPT !.channel = pkt.members]
      [] pkt.t = "left" -> [s EXCEPT !.channel = {}]
      [] OTHER -> AwaitDiff([s EXCEPT !.channel = (@ \cup pkt.enter) \ pkt.leave],
                            pkt.enter, pkt.leave)

(* HybridSession._recv: while a completed greeting is post-processed, only *)
(* messages of sub-sessions are dealt with.                                *)
HandlePacket(c, s, pkt) ==
    IF s.pendingGreetPP # {} THEN Trial(c, s, pkt) ELSE RecvMain(c, s, pkt, TRUE)
SessionTask(c, s, pkt) == HandlePacket(c, ChannelRecv(c, s, pkt), pkt)

(* One step of TrialBuffer.retryAll: try the next stashed item, through    *)
(* _tryDecryptTry, and remove it if it was dealt with; start over while a  *)
(* pass over the buffer had a success.                                     *)
TryDecryptTry(c, s, item) ==
    IF s.pendingGreetPP = {} THEN RecvMain(c, s, item, FALSE)
    ELSE IF IsPubtxt(item) THEN SessionRecv(c, s, item)
    ELSE [s EXCEPT !.ret = FALSE]

\* Mutant: what follows an item that was dealt with is skipped.
RetrySkipsNext(s) ==
    [s EXCEPT !.tryDecrypt = IF s.ret THEN RemoveAt(@, s.retry) ELSE @,
              !.hadSuccess = @ \/ s.ret, !.retry = @ + 1]

TryAndDelete(s) ==
    IF s.ret /\ ~ Fubar(s)
    THEN [s EXCEPT !.tryDecrypt = RemoveAt(@, s.retry), !.hadSuccess = TRUE]
    ELSE [s EXCEPT !.retry = @ + 1]
RetryItem(c, s) == TryAndDelete(TryDecryptTry(c, s, s.tryDecrypt[s.retry]))

RetryStep(c, s) ==
    IF s.retry <= Len(s.tryDecrypt) THEN RetryItem(c, s)
    ELSE IF s.hadSuccess THEN StartRetryAll([s EXCEPT !.retry = 0])
    ELSE [s EXCEPT !.retry = 0]

-----------------------------------------------------------------------------
(* The promise chain of _changeMembership: make those leave the channel    *)
(* that are to leave it, make those enter that are to be included, each    *)
(* awaited, then propose.                                                  *)
OpPropose(c, s) ==
    LET op == s.ownOp
    IN  IF ProposalFails(c, s, op.inc, op.exc) \/ ~ MayPropose(c, s, op.inc, op.exc)
        THEN Settle(s, "ownOp")
        ELSE LET s1 == ProposeGreetInit(c, s, op.inc, op.exc)
             IN  [s1 EXCEPT !.ownOp.phase = "proposed", !.ownOp.n = s1.ownProposal.n]

OpEnter(c, s) ==
    LET absent == s.ownOp.inc \ s.channel
        s1 == Send(s, EnterOthers(s.ownOp.inc))
    IN  IF s.ownOp.inc = {} THEN OpPropose(c, s)
        ELSE IF absent = {} THEN OpPropose(c, s1)
        ELSE [s1 EXCEPT !.ownOp.phase = "entering", !.ownOp.rest = absent]

OpLeave(c, s) ==
    LET present == s.ownOp.toLeave \cap s.channel
        s1 == Send(s, KickOthers(s.ownOp.toLeave))
    IN  IF s.ownOp.toLeave = {} THEN OpEnter(c, s)
        ELSE IF present = {} THEN OpEnter(c, s1)
        ELSE [s1 EXCEPT !.ownOp.phase = "leaving", !.ownOp.rest = present]

(* The checks of execute and _changeMembership, and their effect.          *)
MayChangeMembership(c, s, include, exclude) ==
    /\ InternalState(s) \in {"COS_", "COsJ"} /\ ~ InternalStateFails(s)
    /\ include \cup exclude # {}
    /\ include \cap (CurMembers(c, s) \cup s.taskExclude) = {}
    /\ exclude \subseteq CurMembers(c, s) \ {c}

ChangeMembership(c, s, include, exclude) ==
    OpLeave(c, [s EXCEPT !.opInclude = include,
                         !.ownOp = [NoOwnOp EXCEPT !.phase = "started", !.inc = include,
                                                   !.exc = exclude,
                                                   !.toLeave = include \cap s.taskLeave]])

(* _includeSelf, outside any session: what the states "in the middle of    *)
(* joining or parting" do is an exception for the caller.                  *)
IncludeSelf(s) ==
    CASE InternalState(s) = "cos_" -> Send(s, EnterSelf)
      [] InternalState(s) \in {"COS_", "CosJ", "COsj", "Cos_"} -> s
      [] OTHER -> Fail(s, "includeSelf")

(* _excludeSelf with a session: the leave-intent.                          *)
ExcludeSelf(c, s) ==
    Send([s EXCEPT !.parting = "sent", !.opInclude = {}],
         [t |-> "intent", sid |-> s.current.sid, src |-> c])

(* One callback of a settled promise.                                      *)
MicroTask(c, s) ==
    LET token == Head(s.micro)
        s1 == [s EXCEPT !.micro = Tail(@)]
    IN  CASE token = "proposalAccepted" -> ClearOwnProposal(s1)
          [] token = "proposalRejected" ->
                IF s.ownOp.phase = "proposed" /\ s.ownOp.n = s.ownProposal.n
                THEN Settle(ClearOwnProposal(s1), "ownOp") ELSE ClearOwnProposal(s1)
          [] token = "greetingDone" -> GreetingDone(c, s1)
          [] token = "greetingFailed" -> ClearGreeting(s1)
          [] token = "nextStep" ->
                IF s.ownOp.phase = "leaving" THEN OpEnter(c, s1)
                ELSE IF s.ownOp.phase = "entering" THEN OpPropose(c, s1) ELSE s1
          [] OTHER -> ClearOwnOperation(s1)

=============================================================================
