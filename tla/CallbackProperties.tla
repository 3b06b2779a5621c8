-------------------------- MODULE CallbackProperties --------------------------
(***************************************************************************)
(* What those who subscribe can rely on (Callbacks), whatever is done by   *)
(* those who are called.                                                   *)
(***************************************************************************)
EXTENDS Callbacks

Kind(r) == objects.regs[r].kind
CallsOf(r) == {i \in DOMAIN history.calls : history.calls[i].reg = r}

(* Nobody is called after cancelling, not even if a publisher was about    *)
(* to; once means once, also if what is called publishes in turn; whoever  *)
(* returned true is left alone, and a tick comes only once (publish, once, *)
(* untilTrue, _runTick).                                                   *)
CallsAreDue ==
    [][Len(history'.calls) > Len(history.calls) =>
          LET entry == Last(history'.calls)
              r == entry.reg
          IN  /\ r \notin history.cancelled
              /\ Kind(r) = "once" => CallsOf(r) = {}
              /\ Kind(r) = "untilTrue" => r \notin history.saidTrue
              /\ entry.role = "backup" \/ ~ IsOfNode(objects.regs[r].on) =>
                    entry \notin {history.calls[i] : i \in CallsOf(r)}]_vars

(* Of a subscriber and its backup one is called, the one whose time came   *)
(* first; only with allowRecover the subscriber also after its backup      *)
(* (withBackup, which expect() and fin() use against overdue acks).        *)
BackupExcludesPrimary ==
    \A i, j \in DOMAIN history.calls :
        LET first == history.calls[i]  second == history.calls[j] IN
        i < j /\ first.reg = second.reg /\ first.role # second.role =>
            Kind(first.reg) = "recover" /\ first.role = "backup"

(* Whatever was scheduled is called when its tick comes or was cancelled,  *)
(* also what is scheduled for the tick that is being run while others are  *)
(* cancelled (after, _runTick).                                            *)
TimerLosesNothing ==
    \A o \in DOMAIN objects.subs : ~ IsOfNode(o) =>
        IF o.tick <= objects.lastCompleted
        THEN \A entry \in ToSet(Subs(objects, o)) : entry \in ToSet(history.calls)
        ELSE Subs(objects, o) # <<>> => OfTick(objects, o.tick) = o

(* An event reaches every subscriber, whatever was deleted since, but for  *)
(* those who subscribed when their node had been deleted already; these no *)
(* event reaches ever.  And nodes where there was a subscriber do not stay *)
(* without, once nothing is being published (_maybeClean, _cleanChild).    *)
NodesMatchSubscriptions ==
    LET used == {o \in DOMAIN objects.subs : IsOfNode(o) /\ objects.subs[o] # <<>>}
        WasUsed(node) == \E r \in DOMAIN objects.regs :
                             LET on == objects.regs[r].on IN IsOfNode(on) /\ IsPrefix(node, on.path)
    IN  /\ \A o \in used : \A entry \in ToSet(objects.subs[o]) :
              entry.reg \in history.late <=> ~ IsAttached(objects, o.path)
        /\ stack = <<>> =>
              /\ objects.publishing = {}
              /\ \A node \in objects.nodes :
                    WasUsed(node) => \E o \in used : IsUnder(objects, node, o.path)

(* Whoever subscribes to events gets them, whenever it does so             *)
(* (EventContext.subscribe: "a Subscribe function to add subscribers to    *)
(* matching events").                                                      *)
SubscribersAreReached ==
    \A o \in DOMAIN objects.subs :
        IsOfNode(o) /\ objects.subs[o] # <<>> => IsAttached(objects, o.path)

(* A running monitor has one call scheduled, another has none; and it is   *)
(* not called when it does not run (_run, reset, pause, resume, stop).     *)
OneScheduledCall ==
    LET passed == UNION {stack[i].seen : i \in {j \in DOMAIN stack : stack[j].do = "tick"}}
        Waiting(t) == ToSet(Subs(objects, OfTick(objects, t))) \ passed
        scheduled == {entry.reg : entry \in UNION {Waiting(t) : t \in DOMAIN objects.cb}}
        running == {objects.monitor.cancel} \ {0}
    IN  {r \in scheduled : Kind(r) = "monitor"} = (IF InAction THEN {} ELSE running)

=============================================================================
