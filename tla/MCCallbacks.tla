----------------------------- MODULE MCCallbacks -----------------------------
EXTENDS CallbackProperties

Program(prefixes, kinds, delays, events, intervals,
        observes, subs, cancels, publishes, ticks, drives) ==
    [prefixes |-> prefixes, kinds |-> kinds, delays |-> delays, events |-> events,
     intervals |-> intervals, observes |-> observes, subs |-> subs, cancels |-> cancels,
     publishes |-> publishes, ticks |-> ticks, drives |-> drives]

(* Subscribers to an event and to longer and shorter prefixes of it; an    *)
(* event that is published while another one is; overdue events; and a     *)
(* monitor among other scheduled calls.                                    *)
EventNames == {"x", "y", "z"}
Kinds == {"plain", "once", "untilTrue"}
Programs ==
    {Program({<<>>, <<"x">>, <<"x", "y">>}, Kinds, {}, {<<"x", "y">>}, {}, 2, 2, 1, 1, 0, 0),
     Program({<<>>, <<"x">>}, Kinds, {}, {<<"x">>, <<"z">>}, {}, 2, 2, 1, 2, 0, 0),
     Program({<<"x">>}, {"backup", "recover"}, {0, 1}, {<<"x">>}, {}, 1, 1, 1, 2, 3, 0),
     Program({}, {"plain"}, {0, 1}, {}, {}, 0, 3, 2, 0, 2, 0),
     Program({}, {"plain"}, {0, 1}, {}, {<<1>>, <<1, 0, 1>>}, 0, 1, 1, 0, 3, 3)}
=============================================================================
