-------------------------- MODULE GroupProperties --------------------------
(***************************************************************************)
(* What a group of HybridSessions is to guarantee (GroupSession).          *)
(***************************************************************************)
EXTENDS GroupSession

InSession(c) == session[c].current # NoSession

(* Nothing of the last task is left to be done at c: its callbacks have    *)
(* run, and no completed greeting is being post-processed.                 *)
Ready(c) == Settled(c) /\ session[c].pendingGreetPP = {} /\ ~ Fubar(session[c])

(* The chain hash of the last packet c accepted, and whether of two        *)
(* clients neither has accepted what the other has not and never will.     *)
Chain(c) == PrevCh(session[c].serverOrder)
SameHistory(c, d) == IsPrefix(Chain(c), Chain(d)) \/ IsPrefix(Chain(d), Chain(c))

(* c and d each have the other in their session.                           *)
Mutual(c, d) == d \in session[c].current.members /\ c \in session[d].current.members

(* The types of what clients keep; tryDecrypt never outgrows its capacity. *)
TypeOK ==
    /\ members \subseteq Client
    /\ {left.enters, left.ops, left.parts, left.disconnects} \subseteq Nat
    /\ \A c \in Client :
        LET s == session[c]
        IN  /\ DOMAIN s = DOMAIN Outside
            /\ s.channel \cup s.moreSeniorThanUs \cup s.taskExclude \cup s.taskLeave
                  \cup s.current.members \cup s.greeting.next \cup s.greeting.prev
                  \cup s.pendingGreetPP \cup s.opInclude \subseteq Client
            /\ {s.serverOrder.synced, s.channelJustSynced, s.prevFin, s.greeting.quit,
                s.greeting.recvOwn, s.hadSuccess, s.ownProposal.open} \subseteq BOOLEAN
            /\ s.parting \in {"no", "sent", "done"} /\ s.greeting.fin \in 0 .. 2
            /\ Len(s.tryDecrypt) \in 0 .. Asynchronity
            /\ s.retry \in 0 .. Len(s.tryDecrypt) + 1
            /\ s.out = <<>> /\ s.ret

-----------------------------------------------------------------------------
(* Clients that have each other in their sessions record the same order of *)
(* membership operations, as far as both have seen it (impl/channel.js,    *)
(* ServerOrder: "everyone reaches the same decisions").  A member that an  *)
(* operation excluded is left out: it ignores the packets that complete it *)
(* and may take the departure of others for the end of it.                 *)
ServerOrderAgreement ==
    \A c, d \in Client : Mutual(c, d) /\ Ready(c) /\ Ready(d) => SameHistory(c, d)

(* Clients in sessions with the same id (the same group key) agree on who  *)
(* is in it, however greetings overlapped or were aborted                  *)
(* (_changeSubSession takes both from the completed greeting).             *)
SessionAgreement ==
    \A c, d \in Client :
        InSession(c) /\ InSession(d) /\ session[c].current.sid = session[d].current.sid
            => session[c].current = session[d].current

(* Each client's server order goes through a history as OpChain describes  *)
(* it, with the packets the others really send and the departures that     *)
(* really happen (tryOpPacket, acceptLeavePacket, clear).                  *)
OrderOf(c) ==
    INSTANCE OpChain WITH started <- session[c].serverOrder.opInitial,
                          ended <- session[c].serverOrder.opFinal
OrdersAreHistories == [][\A c \in Client : OrderOf(c)!ChainStep]_session

(* The server order decides which session one is in: members of each       *)
(* other's sessions who have accepted the same packets are in the same     *)
(* session, with the same key (_recvGreet and _onGreetingComplete: a       *)
(* greeting completes at the packet that completes the operation).         *)
OrderDeterminesSession ==
    \A c, d \in Client :
        Mutual(c, d) /\ Ready(c) /\ Ready(d) /\ Chain(c) = Chain(d)
            => session[c].current = session[d].current

(* The greeting and the server order tell the same about whether an        *)
(* operation is ongoing; a greeting starts from the session its member is  *)
(* in and belongs to the accepted initial packet (postAcceptInitial,       *)
(* _clearGreeting, acceptLeavePacket).                                     *)
OngoingHasGreeting ==
    \A c \in Client : LET s == session[c] IN
        Ready(c) =>
            IF s.serverOrder.synced /\ HasOngoingOp(s.serverOrder)
            THEN /\ HasGreeting(s) /\ s.greeting.fin = 0
                 /\ s.greeting.prev = CurMembers(c, s)
                 /\ s.currentPi = PrevPi(s.serverOrder)
            ELSE ~ HasGreeting(s)

(* No member of a client's session leaves the channel unnoticed: those who *)
(* are gone are to be excluded ([rule LS], [rule LOX] of _onOthersLeave),  *)
(* and those who are to be made to leave the channel are not in the        *)
(* session any more (taskLeave, _onGreetingComplete).                      *)
AbsentAreExcluded ==
    \A c \in Client : LET s == session[c] IN
        Ready(c) => /\ InSession(c) => s.current.members \subseteq s.channel \cup s.taskExclude
                    /\ s.taskLeave \cap CurMembers(c, s) = {}

(* No handler is cut short by a failed assertion, a null dereference or    *)
(* any other exception.  This holds in any order of packets, callbacks and *)
(* departures in the scenarios of run membership; in others it does not,   *)
(* see section 3 of the README.                                            *)
NoAssertionFails == \A c \in Client : ~ Fubar(session[c])

(* A client enters a new session only with members that can follow it: who *)
(* has seen all that it has, and not more, has the key of that session,    *)
(* for every member has signed it (_maybeFulfill: the greeting completes   *)
(* when everybody is authenticated).                                       *)
KeyConfirmation ==
    [][\A c \in Client :
          LET new == session[c].current'
          IN  new \notin {session[c].current, NoSession} =>
                \A d \in new.members :
                    session[d].serverOrder.synced /\ IsPrefix(Chain(d), Chain(c)) =>
                        new.sid \in {session[d].current.sid, session[d].greeting.sid,
                                     session[d].proposed.sid}]_session

-----------------------------------------------------------------------------
(* What must happen in the end (FairSpec).                                 *)

(* Every greeting completes or is aborted: nobody waits for ever for       *)
(* somebody's contribution or signature.                                   *)
GreetingEnds ==
    \A c \in Client : []<>(~ HasGreeting(session[c]))

(* When users stop asking for changes, the members of a session who are in *)
(* the channel end up in the same session.                                 *)
Converge ==
    <>[](\A c, d \in Client :
            c \in members /\ d \in members /\ c \in CurMembers(d, session[d])
                => session[c].current = session[d].current)

(* A member of the session who left the channel is excluded from the       *)
(* session (_onOthersLeave, _maybeHandleTasks), unless it comes back or    *)
(* who would exclude it leaves as well.                                    *)
AbsentExcluded ==
    \A c, d \in Client :
        (c \in members /\ d \in session[c].current.members \ members)
            ~> (c \notin members \/ d \notin session[c].current.members \ members)

(* Who was excluded from the session leaves the channel as well: one of    *)
(* the others makes it leave (_onGreetingComplete, _onPrevSessionFin),     *)
(* unless it is included again or has no such member left.                 *)
ExcludedLeave ==
    \A c, d \in Client :
        d \in session[c].taskLeave ~> (c \notin members \/ d \notin session[c].taskLeave)

(* Who asks to part leaves the channel, and the sessions of the others     *)
(* (_excludeSelf, _onMaybeLeaveIntent, _onPrevSessionFin); with            *)
(* autoIncludeExtra it may be taken in again before all that is done.      *)
ParterLeaves ==
    \A c \in Client :
        session[c].parting = "sent" /\ left.options = {}
            ~> c \notin members /\ \A d \in members : c \notin session[d].current.members

(* Who asks to part leaves the channel in any case, when the others have   *)
(* answered or a timeout has passed (_excludeSelf, onFin).                 *)
ParterGone == \A c \in Client : session[c].parting = "sent" ~> c \notin members

(* With the options autoIncludeExtra and stayIfLastMember, whoever is in   *)
(* the channel when nobody enters or leaves any more ends up in one        *)
(* session with everybody else there, and with nobody who is not           *)
(* (_maybeHandleExtra, _maybeSyncNew, _maybeLeaveChannel, _onOthersLeave): *)
(* those who enter are included, those who part and come back are included *)
(* again, who is gone is excluded, and who is left alone takes in the next. *)
EntrantsIncluded ==
    left.options # {} =>
        <>[](\A c, d \in members :
                /\ InSession(c) <=> members # {c}
                /\ InSession(c) => session[c].current.members = members
                /\ session[c].current = session[d].current)

(* "Unstable" states change by themselves (_internalState).                *)
UnstableChanges ==
    \A c \in Client : []<>(InternalState(session[c]) # "COsj")

=============================================================================
