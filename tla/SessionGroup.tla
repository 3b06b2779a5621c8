---------------------------- MODULE SessionGroup ----------------------------
(***************************************************************************)
(* The members of a session, each running SessionBase, over a transport    *)
(* that loses, repeats, delays and reorders messages.                      *)
(***************************************************************************)
EXTENDS SessionBase

CONSTANT Scenarios  \* how a session may go: its members, what they may send, how often

ASSUME MaxBufferAssumption == MaxBuffer \in Nat \ {0}
ASSUME ScenariosAssumption ==
    \A sc \in Scenarios : sc.members # {} /\ sc.sends \in Nat /\ sc.fins \in Nat

VARIABLES
    session,    \* [member -> its SessionBase]
    left        \* how often members may still send, and call fin()

vars == <<session, left>>

Members == DOMAIN session

Init ==
    \E sc \in Scenarios :
        /\ session = [c \in sc.members |-> NewSession(1, sc.members)]
        /\ left = [bodies |-> sc.bodies, sends |-> sc.sends, fins |-> sc.fins]

Becomes(c, s) == session' = [session EXCEPT ![c] = s]

(* Whatever its author has in its transcript was sent to everybody, and    *)
(* may arrive at any time, or never, or again.                             *)
Arriving(c, m) == m[1] # c /\ m \in MIds(session[m[1]].ts)
Message(m) == session[m[1]].ts.messages[m]

(* The user sends something, or HybridSession asks for consistency.        *)
Send(c, body) ==
    /\ left.sends > 0 /\ body \in left.bodies /\ MaySend(session[c], body)
    /\ Becomes(c, SendObject(c, session[c], body))
    /\ left' = [left EXCEPT !.sends = @ - 1]

Finish(c) ==
    /\ left.fins > 0 /\ session[c].state = "JOINED"
    /\ Becomes(c, Fin(c, session[c]))
    /\ left' = [left EXCEPT !.fins = @ - 1]

Receive(c, m) ==
    /\ Arriving(c, m)
    /\ Becomes(c, Recv(c, session[c], Message(m)))
    /\ UNCHANGED left

(* What was scheduled with the timer.                                      *)
Ackmon(c, m) ==
    /\ m \in session[c].monitors
    /\ Becomes(c, AckmonFires(c, session[c], m))
    /\ UNCHANGED left

Timeout(c, m) ==
    /\ m \in session[c].timeouts
    /\ Becomes(c, TimeoutFires(session[c], m))
    /\ UNCHANGED left

FinEnds(c) ==
    /\ session[c].finTimer # "none"
    /\ Becomes(c, PubFin(session[c]))
    /\ UNCHANGED left

AllMIds == UNION {ByAuthor(session[c].ts, c) : c \in Members}

Next ==
    \E c \in Members :
        \/ \E body \in left.bodies : Send(c, body)
        \/ Finish(c) \/ FinEnds(c)
        \/ \E m \in AllMIds : Receive(c, m) \/ Ackmon(c, m) \/ Timeout(c, m)

Spec == Init /\ [][Next]_vars

(* Timers fire; and a transport that loses nothing for ever.               *)
TimersFire ==
    \A c \in UNION {sc.members : sc \in Scenarios} :
        []<>(c \in Members => /\ session[c].monitors = {} /\ session[c].timeouts = {}
                              /\ session[c].finTimer = "none")

HasReceived(c) ==
    \A m \in AllMIds : m \in session[c].pubtxt \/ IsStashed(session[c], m)
Delivers ==
    \A c \in UNION {sc.members : sc \in Scenarios} : []<>(c \in Members => HasReceived(c))

FairSpec == Spec /\ TimersFire /\ Delivers

=============================================================================
