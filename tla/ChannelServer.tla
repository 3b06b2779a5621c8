--------------------------- MODULE ChannelServer ---------------------------
(***************************************************************************)
(* The group channel's server, as DummyGroupServer of impl/dummy.js        *)
(* implements it.  Each client's packets reach the server in the order     *)
(* they were sent, those of different clients in any order.  The server    *)
(* handles one packet at a time and puts what follows from it on the       *)
(* receive queue of every client concerned, so that all members of the     *)
(* channel see the same packets in the same order, their own included.     *)
(***************************************************************************)
EXTENDS Naturals, Sequences, FiniteSets

CONSTANT Client

ASSUME ClientAssumption == IsFiniteSet(Client)

VARIABLES
    members,    \* who is in the channel
    incoming,   \* [Client -> what it sent that the server has not handled yet]
    queues      \* [Client -> what the server sent that it has not received yet]

serverVars == <<members, incoming, queues>>

(* A client's packet is a published message or one of the four requests on *)
(* the channel's membership.  "disconnect" is the transport's own.         *)
EnterSelf == [t |-> "enter"]
LeaveSelf == [t |-> "leave"]
EnterOthers(who) == [t |-> "enterOthers", who |-> who]
KickOthers(who) == [t |-> "kick", who |-> who]

Requests == {"enter", "leave", "enterOthers", "kick"}
IsPubtxt(pkt) == pkt.t \notin Requests \cup {"change", "entered", "left"}

(* What a request asks to enter and to leave, as far as that is a change.  *)
ToEnter(sender, pkt) ==
    (CASE pkt.t = "enter" -> {sender}
       [] pkt.t = "enterOthers" -> pkt.who
       [] OTHER -> {}) \ members
ToLeave(sender, pkt) ==
    (CASE pkt.t = "leave" -> {sender}
       [] pkt.t = "kick" -> pkt.who
       [] OTHER -> {}) \cap members

-----------------------------------------------------------------------------
ServerInit(present) ==
    /\ members = present
    /\ incoming = [c \in Client |-> <<>>]
    /\ queues = [c \in Client |-> <<>>]

(* Everybody in the channel receives a published packet.                   *)
Broadcast(pkt) ==
    /\ queues' = [c \in Client |->
                    IF c \in members THEN Append(queues[c], pkt) ELSE queues[c]]
    /\ UNCHANGED members

(* A membership change: a different packet for those who stay, those who   *)
(* enter and those who leave.                                              *)
ChangeMembers(enter, leave) ==
    LET remain == members \ leave
        Notice(c) ==
            CASE c \in remain -> <<[t |-> "change", enter |-> enter, leave |-> leave]>>
              [] c \in enter  -> <<[t |-> "entered", members |-> remain \cup enter]>>
              [] c \in leave  -> <<[t |-> "left"]>>
              [] OTHER        -> <<>>
    IN  /\ members' = remain \cup enter
        /\ queues' = [c \in Client |-> queues[c] \o Notice(c)]

(* DummyGroupServer.recv for the oldest packet of one sender: a packet of  *)
(* somebody outside the channel is ignored unless it asks to enter.        *)
ServerRecv(sender) ==
    /\ incoming[sender] # <<>>
    /\ LET pkt == Head(incoming[sender])
           enter == ToEnter(sender, pkt)
           leave == ToLeave(sender, pkt)
       IN  IF sender \notin members /\ pkt.t # "enter" THEN UNCHANGED <<members, queues>>
           ELSE IF IsPubtxt(pkt) THEN Broadcast(pkt)
           ELSE IF enter \cup leave = {} THEN UNCHANGED <<members, queues>>
           ELSE ChangeMembers(enter, leave)
    /\ incoming' = [incoming EXCEPT ![sender] = Tail(@)]

(* A member loses its connection: the server takes it out of the channel.  *)
Disconnected(c) ==
    /\ c \in members
    /\ ChangeMembers({}, {c})
    /\ UNCHANGED incoming

(* What a client's task sent joins its packets on the way to the server.   *)
Sent(c, packets) == incoming' = [incoming EXCEPT ![c] = @ \o packets]

(* The client takes the next packet off its receive queue.                 *)
Received(c) == queues' = [queues EXCEPT ![c] = Tail(@)]

=============================================================================
