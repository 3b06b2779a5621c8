--------------------------- MODULE MCSessionGroup ---------------------------
EXTENDS SessionProperties

CONSTANTS a, b, c

Scenario(members, bodies, sends, fins) ==
    [members |-> members, bodies |-> bodies, sends |-> sends, fins |-> fins]

(* Two payloads between three members; two between two of them, and one    *)
(* that ends its part in the session.                                      *)
Exchanges ==
    {Scenario({a, b, c}, {"payload"}, 2, 0)}
        \cup {Scenario(pair, {"payload"}, 2, 1) : pair \in {{a, b}, {a, c}, {b, c}}}
AnyMember == Permutations({a, b, c})

(* One payload between three, and more kinds of messages between two.      *)
Conversations ==
    {Scenario({a, b, c}, {"payload"}, 1, 0),
     Scenario({a, b}, {"payload", "consistency", "ack"}, 2, 1)}
=============================================================================
