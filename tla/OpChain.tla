------------------------------ MODULE OpChain ------------------------------
(***************************************************************************)
(* What a client's server order promises to the rest of the session: a     *)
(* history of membership operations, one at a time.  An operation starts   *)
(* only when none is ongoing, and never twice; it ends before the next one *)
(* starts; and what is recorded stays recorded until the client leaves the *)
(* channel and forgets everything.                                         *)
(***************************************************************************)
EXTENDS Naturals, Sequences

VARIABLES
    started,    \* the packets that started operations, in order
    ended       \* the packets, or departures, that ended them

chainVars == <<started, ended>>

(* A client joins the history after some operation, whose start it may not *)
(* know; the first element of both lists stands for that operation.        *)
Joined == ended # <<>>
Resting == Joined /\ Len(started) = Len(ended)
Ongoing == Joined /\ Len(started) = Len(ended) + 1

(* s is t followed by one more element.                                    *)
IsAppended(s, t) == Len(s) = Len(t) + 1 /\ \A i \in 1 .. Len(t) : s[i] = t[i]

(* A packet that started no operation yet starts one.                      *)
Fresh(s, t) == IsAppended(s, t) /\ \A i \in 1 .. Len(t) : t[i] # s[Len(s)]

ChainInit == started = <<>> /\ ended = <<>>

(* The client joins, alone or with the next operation it sees start, or    *)
(* start and end at once.                                                  *)
Join ==
    /\ ~ Joined
    /\ <<Len(started'), Len(ended')>> \in {<<1, 1>>, <<2, 1>>, <<2, 2>>}

(* An operation starts, the ongoing one ends, or one does both at once.    *)
Start == Resting /\ Fresh(started', started) /\ ended' = ended
End == Ongoing /\ started' = started /\ IsAppended(ended', ended)
StartAndEnd == Resting /\ Fresh(started', started) /\ IsAppended(ended', ended)

Forget == started' = <<>> /\ ended' = <<>>

ChainNext == Join \/ Start \/ End \/ StartAndEnd \/ Forget

ChainStep == ChainNext \/ UNCHANGED chainVars

ChainSpec == ChainInit /\ [][ChainNext]_chainVars

=============================================================================
