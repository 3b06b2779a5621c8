---------------------------- MODULE QueuedSession ----------------------------
(***************************************************************************)
(* A user's HybridSession with a LocalSendQueue: the user sends and        *)
(* resends, the others answer, timers fire, and one session follows        *)
(* another.  How the others see it all is left open: of their messages     *)
(* those are enumerated that a transcript accepts.                         *)
(***************************************************************************)
EXTENDS LocalSendQueue

CONSTANT Scenarios  \* how long, with whom, and how often

ASSUME MaxBufferAssumption == MaxBuffer \in Nat \ {0}
ASSUME ScenariosAssumption ==
    \A sc \in Scenarios :
        /\ sc.sends \in Nat /\ sc.resends \in Nat /\ sc.answers \in Nat /\ sc.parts \in Nat
        /\ sc.changes \in Seq(SUBSET UNION {sc.changes[i] : i \in DOMAIN sc.changes})
        /\ \A i \in DOMAIN sc.changes : sc.changes[i] = {} \/ Owner \in sc.changes[i]
        /\ \A i \in 2 .. Len(sc.changes) : sc.changes[i] # sc.changes[i - 1]

VARIABLES
    hybrid,     \* the HybridSession and its queue
    left        \* what is left of the scenario, and where each session came from

vars == <<hybrid, left>>

Init ==
    \E sc \in Scenarios :
        /\ hybrid = NewQueue(sc.autoSendOffline)
        /\ left = [sends |-> sc.sends, resends |-> sc.resends, answers |-> sc.answers,
                   bodies |-> sc.bodies, parts |-> sc.parts, changes |-> sc.changes,
                   origins |-> <<>>]

Session(i) == hybrid.sessions[i]
SessionIds == DOMAIN hybrid.sessions
MIdsOf(i) == MIds(Session(i).ts)

Does(i, s) == hybrid' = SessionDoes(hybrid, i, s)

(* The user writes a message, or writes one again.                         *)
UserSends ==
    /\ left.sends > 0
    /\ hybrid' = SendNew(hybrid)
    /\ left' = [left EXCEPT !.sends = @ - 1]

UserResends(i) ==
    /\ left.resends > 0 /\ MayReplace(hybrid, i)
    /\ hybrid' = Replace(hybrid, i)
    /\ left' = [left EXCEPT !.resends = @ - 1]

(* Another member's message is received, while the session is attached.    *)
Message(i, peer, parents, body) ==
    [mId |-> NextMId(peer, Session(i)), author |-> peer, parents |-> parents,
     readers |-> Session(i).members \ {peer}, body |-> body]

PeerSends(i, peer, parents, body) ==
    LET msg == Message(i, peer, parents, body)
    IN  /\ left.answers > 0 /\ i \in hybrid.attached
        /\ CanAdd(Session(i).ts, msg)
        /\ Does(i, Recv(Owner, Opened(hybrid, i), msg))
        /\ left' = [left EXCEPT !.answers = @ - 1]

(* Timers: the owner's monitors, overdue full acks, the end of fin().      *)
Ackmon(i, m) ==
    /\ i \in hybrid.attached /\ m \in Session(i).monitors
    /\ Does(i, AckmonFires(Owner, Opened(hybrid, i), m))
    /\ UNCHANGED left

FullAckOverdue(i, m) ==
    /\ i \in hybrid.attached /\ m \in MIdsOf(i) \ (Session(i).ktime \cup hybrid.warned)
    /\ m[1] = Owner /\ m \in DOMAIN hybrid.log.parents
    /\ hybrid' = FullAckWarn(hybrid, i, m)
    /\ UNCHANGED left

FinEnds(i) ==
    /\ i \in hybrid.attached /\ Session(i).finTimer # "none"
    /\ hybrid' = LET stopped == StopSession(hybrid, i)
                 IN  Closed(stopped, i, PubFin(Opened(stopped, i)))
    /\ UNCHANGED left

(* _excludeSelf: the user wants to leave, and the others take note.        *)
UserParts ==
    /\ left.parts > 0 /\ hybrid.current # 0 /\ Session(hybrid.current).state = "JOINED"
    /\ Does(hybrid.current, Fin(Owner, Opened(hybrid, hybrid.current)))
    /\ left' = [left EXCEPT !.parts = @ - 1]

(* A greeting completes, or we left the channel.                           *)
MembersChange(parents) ==
    /\ left.changes # <<>> /\ (Head(left.changes) = {} => hybrid.current # 0)
    /\ hybrid.current = 0 => parents = {}
    /\ hybrid.current # 0 => parents \subseteq MIdsOf(hybrid.current)
                             /\ IsAntichain(Session(hybrid.current).ts, parents)
    /\ hybrid' = ChangeSubSession(hybrid, Head(left.changes), parents)
    /\ left' = [left EXCEPT !.changes = Tail(@), !.origins =
                    IF Head(left.changes) = {} THEN @
                    ELSE Append(@, [previous |-> hybrid.current, parents |-> parents])]

Next ==
    \/ UserSends \/ UserParts
    \/ \E i \in DOMAIN hybrid.queue : UserResends(i)
    \/ \E i \in SessionIds :
          \/ \E peer \in Session(i).members \ {Owner}, parents \in SUBSET MIdsOf(i),
                body \in left.bodies : PeerSends(i, peer, parents, body)
          \/ \E m \in MIdsOf(i) : Ackmon(i, m) \/ FullAckOverdue(i, m)
          \/ FinEnds(i)
    \/ \E parents \in SUBSET (IF hybrid.current = 0 THEN {} ELSE MIdsOf(hybrid.current)) :
          MembersChange(parents)

Spec == Init /\ [][Next]_vars

=============================================================================
