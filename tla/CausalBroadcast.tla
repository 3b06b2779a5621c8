--------------------------- MODULE CausalBroadcast ---------------------------
(***************************************************************************)
(* What the transcripts of a session promise: members broadcast messages,  *)
(* and every member accepts them in an order in which each message comes   *)
(* after all that its author had accepted when it was sent.                *)
(* A message is <<author, n>>, the n-th of its author.                     *)
(***************************************************************************)
EXTENDS Naturals, Sequences, FiniteSets

VARIABLE accepted    \* [member -> the sequence of messages it has accepted]

Elements(seq) == {seq[i] : i \in DOMAIN seq}

(* What the author of a message had accepted before it.                    *)
Past(msg) ==
    LET own == accepted[msg[1]]
    IN  {own[i] : i \in {i \in DOMAIN own : \E j \in i + 1 .. Len(own) : own[j] = msg}}

BroadcastInit == accepted = [member \in DOMAIN accepted |-> <<>>]

(* A member sends its next message, and accepts it at once.                *)
Broadcast(member) ==
    LET old == accepted[member]
        new == accepted'[member]
        own == {msg \in Elements(old) : msg[1] = member}
    IN  /\ Len(new) = Len(old) + 1
        /\ accepted' = [accepted EXCEPT ![member] = Append(old, new[Len(new)])]
        /\ new[Len(new)][1] = member /\ new[Len(new)][2] = Cardinality(own) + 1

(* A member accepts messages of others, one after the other.               *)
Accept(member) ==
    LET old == accepted[member]
        new == accepted'[member]
    IN  /\ Len(new) > Len(old) /\ SubSeq(new, 1, Len(old)) = old
        /\ accepted' = [accepted EXCEPT ![member] = new]
        /\ \A i \in Len(old) + 1 .. Len(new) :
              LET before == {new[j] : j \in 1 .. i - 1}
              IN  /\ new[i][1] # member /\ new[i] \notin before
                  /\ new[i] \in Elements(accepted[new[i][1]])
                  /\ Past(new[i]) \subseteq before

BroadcastNext == \E member \in DOMAIN accepted : Broadcast(member) \/ Accept(member)

BroadcastSpec == BroadcastInit /\ [][BroadcastNext]_accepted

=============================================================================
