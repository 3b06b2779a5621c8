---------------------------- MODULE GroupSession ----------------------------
(***************************************************************************)
(* A group: clients running HybridSession (impl/session.js) over one group *)
(* channel.  Each action is one JavaScript task of one client, one promise *)
(* callback, or one packet handled by the server.                          *)
(***************************************************************************)
EXTENDS HybridSession

CONSTANT Scenarios  \* where a behaviour may start, and what users and the transport do

(* A scenario names who is in a session at first (the most senior first)   *)
(* and the clients' options, bounds how often users enter, ask for a       *)
(* change, part and lose their connection, which of these each client may  *)
(* do, and whom changes are about; habits tells whether users start an     *)
(* operation while one is pending ("overlapOps"), or join where they are   *)
(* already ("joinAgain"); sync, whether one task may deliver several       *)
(* packets.                                                                *)
Scenario ==
    [founders : Seq(Client) \ {<<>>},
     enters : Nat, ops : Nat, parts : Nat, disconnects : Nat,
     may : [Client -> SUBSET {"enters", "ops", "parts", "disconnects"}],
     whom : SUBSET SUBSET Client,
     options : SUBSET {"autoIncludeExtra", "stayIfLastMember"},
     habits : SUBSET {"overlapOps", "joinAgain"}, sync : BOOLEAN]
ASSUME ScenariosAssumption == Scenarios \subseteq Scenario
ASSUME AsynchronityAssumption == Asynchronity \in Nat

VARIABLES
    session,    \* [Client -> its HybridSession]
    left        \* what is left of the scenario

vars == <<session, left, serverVars>>

-----------------------------------------------------------------------------
(* The founders have finished the operation by which the first of them     *)
(* included the others (or that one is alone, and has no session yet).     *)
FoundingProposal(founders) == <<founders[1], 0>>
FoundingSession(founders) ==
    [sid |-> <<FoundingProposal(founders), FoundingProposal(founders)>>,
     members |-> Range(founders)]
FoundingOrder(founders) ==
    LET new == SyncNew([k |-> "new", by |-> founders[1], i |-> 0])
        pI == [k |-> "init", n |-> FoundingProposal(founders), to |-> Range(founders)]
        pF == [k |-> "confirm", sid |-> FoundingSession(founders).sid, src |-> founders[1],
               to |-> Range(founders)]
        started == UpdateServerOrder(AcceptInitial(new, pI), pI, "2")
    IN  IF Len(founders) = 1 THEN new
        ELSE UpdateServerOrder(AcceptFinal(started, pF), pF, "1")

Founder(founders, i) ==
    [Outside EXCEPT !.channel = Range(founders), !.serverOrder = FoundingOrder(founders),
                    !.moreSeniorThanUs = {founders[j] : j \in 1 .. i - 1},
                    !.channelJustSynced = (Len(founders) = 1),
                    !.current = IF Len(founders) = 1 THEN NoSession
                                ELSE FoundingSession(founders)]

Init ==
    \E sc \in Scenarios :
        /\ ServerInit(Range(sc.founders))
        /\ session = [c \in Client |->
                        [(IF c \in Range(sc.founders)
                          THEN Founder(sc.founders,
                                       CHOOSE i \in DOMAIN sc.founders : sc.founders[i] = c)
                          ELSE Outside) EXCEPT !.options = sc.options]]
        /\ left = sc

-----------------------------------------------------------------------------
(* A task's promise callbacks run right after it, before anything else at  *)
(* that client (and what other clients do meanwhile makes no difference to *)
(* it, so that nothing else is made to happen first).  If one task         *)
(* delivers several packets, it is only retryAll that nothing interrupts.  *)
Settled(c) == session[c].retry = 0 /\ session[c].micro = <<>>
Quiet == \A c \in Client : session[c].retry = 0 /\ (~ left.sync => session[c].micro = <<>>)
Idle(c) == Quiet /\ Settled(c) /\ ~ Fubar(session[c])

(* The client becomes s, and sends what s.out holds.                       *)
Becomes(c, s) ==
    /\ session' = [session EXCEPT ![c] = [s EXCEPT !.out = <<>>, !.ret = TRUE]]
    /\ Sent(c, s.out)

Spends(c, what) ==
    /\ what \in left.may[c] /\ left[what] > 0
    /\ left' = [left EXCEPT ![what] = @ - 1]

(* The server handles a packet of c.                                       *)
ServerStep(c) == Quiet /\ ServerRecv(c) /\ UNCHANGED <<session, left>>

(* c receives a packet.                                                    *)
Deliver(c) ==
    /\ Quiet /\ ~ Fubar(session[c])
    /\ queues[c] # <<>>
    /\ Received(c)
    /\ Becomes(c, SessionTask(c, session[c], Head(queues[c])))
    /\ UNCHANGED <<members, left>>

(* A promise callback, and a step of retryAll.                             *)
Micro(c) ==
    /\ session[c].micro # <<>> /\ session[c].retry = 0 /\ ~ Fubar(session[c])
    /\ Becomes(c, MicroTask(c, session[c]))
    /\ UNCHANGED <<members, queues, left>>

Retry(c) ==
    /\ session[c].retry > 0 /\ ~ Fubar(session[c])
    /\ Becomes(c, RetryStep(c, session[c]))
    /\ UNCHANGED <<members, queues, left>>

(* execute({join}): _includeSelf enters the channel, the first time and    *)
(* when it retries after having been kicked.                               *)
Join(c) ==
    /\ Idle(c) /\ session[c].current = NoSession
    /\ InternalState(session[c]) = "cos_" \/ "joinAgain" \in left.habits
    /\ \A i \in 1 .. Len(incoming[c]) : incoming[c][i] # EnterSelf
    /\ Spends(c, "enters")
    /\ Becomes(c, IncludeSelf(session[c]))
    /\ UNCHANGED <<members, queues>>

(* _runOwnOperation lets a second operation start while one is pending; an *)
(* application that waits for the promise of its operation never asks for  *)
(* that.                                                                   *)
MayStartOp(c) ==
    Idle(c) /\ ("overlapOps" \in left.habits \/ (session[c].ownOp = NoOwnOp /\ session[c].parting = "no"))

(* execute({include}) and execute({exclude}).                              *)
Change(c, include, exclude) ==
    /\ MayStartOp(c)
    /\ MayChangeMembership(c, session[c], include, exclude)
    /\ Spends(c, "ops")
    /\ Becomes(c, ChangeMembership(c, session[c], include, exclude))
    /\ UNCHANGED <<members, queues>>

(* execute({part}), and what follows when its fin() is consistent or has   *)
(* timed out.                                                              *)
Part(c) ==
    /\ MayStartOp(c) /\ session[c].current # NoSession /\ session[c].parting = "no"
    /\ Spends(c, "parts")
    /\ Becomes(c, ExcludeSelf(c, session[c]))
    /\ UNCHANGED <<members, queues>>

PartFin(c) ==
    /\ Idle(c) /\ session[c].parting = "sent"
    /\ Becomes(c, MaybeLeaveChannel(c, [session[c] EXCEPT !.parting = "done"], {}))
    /\ UNCHANGED <<members, queues, left>>

(* The fin() of the session before is consistent or has timed out.         *)
PrevFin(c) ==
    /\ Idle(c) /\ session[c].prevFin
    /\ Becomes(c, OnPrevSessionFin(c, session[c]))
    /\ UNCHANGED <<members, queues, left>>

Disconnect(c) ==
    /\ Quiet /\ Spends(c, "disconnects")
    /\ Disconnected(c)
    /\ UNCHANGED session

UserAction(c) ==
    \/ Join(c) \/ Part(c) \/ Disconnect(c)
    \/ \E who \in left.whom : Change(c, who, {}) \/ Change(c, {}, who)

Next ==
    \E c \in Client :
        \/ ServerStep(c) \/ Deliver(c) \/ Micro(c) \/ Retry(c)
        \/ PartFin(c) \/ PrevFin(c)
        \/ UserAction(c)

Spec == Init /\ [][Next]_vars

(* The server handles every packet and every client receives what it is    *)
(* sent, callbacks run, and fin() times out; what users do is up to them.  *)
(* (Each conjunct is the weak fairness of an action, said with no more of  *)
(* the action than what tells it from the others: ServerStep(c), Deliver(c), *)
(* Micro(c) and Retry(c), PartFin(c), PrevFin(c).)                         *)
ServerHandles(c) == incoming[c] # <<>> /\ incoming' = [incoming EXCEPT ![c] = Tail(@)]
Receives(c) == queues[c] # <<>> /\ ~ Fubar(session[c]) /\ Received(c)

Fairness ==
    \A c \in Client :
        /\ WF_incoming(ServerHandles(c))
        /\ WF_queues(Receives(c))
        /\ []<>(Settled(c) \/ Fubar(session[c]))
        /\ []<>(session[c].parting # "sent" \/ Fubar(session[c]))
        /\ []<>(~ session[c].prevFin \/ Fubar(session[c]))

FairSpec == Spec /\ Fairness

=============================================================================
