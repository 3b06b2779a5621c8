----------------------------- MODULE Observables -----------------------------
(***************************************************************************)
(* Subscribe, Observable, EventContext, Timer and Monitor of               *)
(* helper/async.js, as far as they do not call anybody: the objects, and   *)
(* how they change when somebody subscribes, cancels, or is called.        *)
(*                                                                         *)
(* The objects are a record h.  A node of an event context is known by its *)
(* path, which has of each node on the way to it the name, and for which   *)
(* Subscribe it was made: a node that was deleted is not the one that is   *)
(* made in its place.  An observable is known by its node and "capture" or *)
(* "bubble", or if it is the timer's, by its tick and a number that tells  *)
(* it from others for the same tick.  A registration is known by its place *)
(* in h.regs; the functions that it has subscribed somewhere, its entries, *)
(* by that and their role.                                                 *)
(***************************************************************************)
EXTENDS Naturals, FiniteSets, SequencesExt

OfNode(path, phase) == [path |-> path, phase |-> phase, tick |-> 0, number |-> 0]
OfTimer(t, number) == [path |-> <<>>, phase |-> "tick", tick |-> t, number |-> number]
Nowhere == [path |-> <<>>, phase |-> "nowhere", tick |-> 0, number |-> 0]

NewObjects ==
    [subs |-> [o \in {} |-> <<>>],  \* observable -> entries, in order
     kept |-> <<>>,                 \* what each Subscribe of the event context subscribes to
     nodes |-> {},                  \* those in the _child of the one above; not the class, <<>>
     publishing |-> {},             \* nodes that are _publishing
     cb |-> [t \in {} |-> 0],       \* tick -> number of its observable
     lastCompleted |-> 0,
     regs |-> <<>>,
     monitor |-> [intervals |-> <<>>, cancel |-> 0, stopped |-> TRUE]]

Entry(r, role) == [reg |-> r, role |-> role]
Subs(h, o) == IF o \in DOMAIN h.subs THEN h.subs[o] ELSE <<>>
HasSub(h, o, entry) == \E i \in DOMAIN Subs(h, o) : Subs(h, o)[i] = entry
With(f, key, value) == [k \in DOMAIN f \cup {key} |-> IF k = key THEN value ELSE f[k]]
Without(f, key) == [k \in DOMAIN f \ {key} |-> f[k]]

IsOfNode(o) == o.phase \in {"capture", "bubble"}

-----------------------------------------------------------------------------
(* Timer.                                                                  *)
Now(h) == h.lastCompleted + 1

(* Mutated form of DeleteIfEmpty: also while the tick is iterated through. *)
DeleteEmpty(h, o) == IF Subs(h, o) = <<>> THEN [h EXCEPT !.cb = Without(@, o.tick)] ELSE h

(* after's canceller.                                                      *)
DeleteIfEmpty(h, o) ==
    IF Subs(h, o) = <<>> /\ o.tick # Now(h) THEN [h EXCEPT !.cb = Without(@, o.tick)] ELSE h

(* The observable of a tick; if there is none, one that was not there yet. *)
OfTick(h, t) ==
    OfTimer(t, IF t \in DOMAIN h.cb THEN h.cb[t]
               ELSE 1 + Cardinality({o \in DOMAIN h.subs : o.phase = "tick" /\ o.tick = t}))

-----------------------------------------------------------------------------
(* _AutoNode and _ObservableNode: a node is made for a Subscribe, and goes *)
(* with the last subscriber at it and below.  Who still has a Subscribe    *)
(* for it subscribes to a node that no event comes to.                     *)
NodeOf(prefix, madeFor) == [i \in DOMAIN prefix |-> [name |-> prefix[i], for |-> madeFor[i]]]

Children(h, node, name) ==
    {child \in h.nodes : Front(child) = node /\ Last(child).name = name}

(* getDescendant: those on the way to node are there, or made for the next *)
(* Subscribe.                                                              *)
IsDescendant(h, node) ==
    \A i \in DOMAIN node : LET above == SubSeq(node, 1, i - 1) IN
        \/ SubSeq(node, 1, i) \in h.nodes
        \/ node[i].for = Len(h.kept) + 1 /\ Children(h, above, node[i].name) = {}

(* Whether the node path is found from node downwards.                     *)
IsUnder(h, node, path) ==
    IsPrefix(node, path) /\ \A n \in Prefixes(path) : Len(n) > Len(node) => n \in h.nodes

IsAttached(h, path) == IsUnder(h, <<>>, path)

(* size() is 0.                                                            *)
IsEmptyBelow(h, node) ==
    \A o \in DOMAIN h.subs : IsOfNode(o) /\ IsUnder(h, node, o.path) => h.subs[o] = <<>>

MayGo(h, node) == node \notin h.publishing /\ IsEmptyBelow(h, node)

(* Mutated form of Cleaned: leaves the nodes above.                        *)
CleanedOnly(h, path) == IF MayGo(h, path) THEN {path} ELSE {}

(* _maybeClean and _cleanChild, from the node up: which nodes delete       *)
(* themselves, until one is in use or is not in the one above.             *)
Cleaned(h, path) ==
    {node \in Prefixes(path) : \A below \in Prefixes(path) :
        IsPrefix(node, below) => MayGo(h, below) /\ (below # node => below \in h.nodes)}

MaybeClean(h, path) == [h EXCEPT !.nodes = @ \ Cleaned(h, path)]

(* The assertions of _cleanChild.                                          *)
CleanFails(h, path) == ~ Cleaned(h, path) \subseteq h.nodes \cup {<<>>}

-----------------------------------------------------------------------------
(* What a subscription and a canceller do, for a node and for the timer.   *)
(* EventContext.subscribe makes a node and a Subscribe for it, that may be *)
(* kept; Timer.after subscribes at once.                                   *)
MakeSubscribe(h, node, phase) ==
    [h EXCEPT !.nodes = @ \cup (Prefixes(node) \ {<<>>}), !.kept = Append(@, OfNode(node, phase))]

AddSub(h, o, entry) ==
    [h EXCEPT !.subs = With(@, o, Append(Subs(h, o), entry)),
              !.cb = IF IsOfNode(o) THEN @ ELSE With(@, o.tick, o.number)]

Unsubscribed(h, o, entry) == [h EXCEPT !.subs[o] = RemoveFirst(@, entry)]

RemoveSub(h, o, entry) ==
    LET Removed(g) == IF IsOfNode(o) THEN MaybeClean(g, o.path)
                      ELSE IF OfTick(g, o.tick) = o THEN DeleteIfEmpty(g, o) ELSE g
    IN  IF HasSub(h, o, entry) THEN Removed(Unsubscribed(h, o, entry)) ELSE h

(* The canceller throws, after all.                                        *)
RemoveFails(h, o, entry) ==
    IsOfNode(o) /\ HasSub(h, o, entry) /\ CleanFails(Unsubscribed(h, o, entry), o.path)

RemovePrimary(h, r) == RemoveSub(h, h.regs[r].on, Entry(r, "primary"))
RemoveBackup(h, r) ==
    IF h.regs[r].backup = Nowhere THEN h ELSE RemoveSub(h, h.regs[r].backup, Entry(r, "backup"))

(* The canceller of a registration.                                        *)
CancelReg(h, r) == RemovePrimary(RemoveBackup(h, r), r)

(* Registrations: plain, once, untilTrue, withBackup, which with           *)
(* allowRecover is "recover", and the monitor's.  The backup is subscribed *)
(* first.                                                                  *)
Register(h, kind, on, backup) ==
    LET r == Len(h.regs) + 1
        registered == [h EXCEPT !.regs = Append(@, [kind |-> kind, on |-> on, backup |-> backup])]
    IN  AddSub(IF backup = Nowhere THEN registered
               ELSE AddSub(registered, backup, Entry(r, "backup")),
               on, Entry(r, "primary"))

(* Mutated form of BeforeCall: the primary does not cancel its backup.     *)
BeforeCallOfBackup(h, entry) ==
    LET kind == h.regs[entry.reg].kind
    IN  IF kind = "once" \/ (kind = "backup" /\ entry.role = "backup") THEN RemovePrimary(h, entry.reg)
        ELSE h

(* What the wrapped subscribers do before they call the user's.            *)
BeforeCall(h, entry) ==
    LET kind == h.regs[entry.reg].kind
    IN  IF entry.role = "primary" /\ kind \in {"backup", "recover"} THEN RemoveBackup(h, entry.reg)
        ELSE IF kind \in {"once", "backup"} THEN RemovePrimary(h, entry.reg) ELSE h

(* They do not get to it, for the canceller throws.                        *)
BeforeCallFails(h, entry) ==
    LET reg == h.regs[entry.reg]
    IN  /\ reg.kind = "once" \/ (reg.kind = "backup" /\ entry.role = "backup")
        /\ RemoveFails(h, reg.on, Entry(entry.reg, "primary"))

-----------------------------------------------------------------------------
(* Monitor.                                                                *)
MonitorState(h) ==
    IF h.monitor.stopped THEN "STOPPED" ELSE IF h.monitor.cancel # 0 THEN "RUNNING" ELSE "PAUSED"

MonitorPause(h) == [CancelReg(h, h.monitor.cancel) EXCEPT !.monitor.cancel = 0]

(* Mutated form of MonitorStop: does not cancel the scheduled call.        *)
StopOnly(h) == [h EXCEPT !.monitor = [intervals |-> <<>>, cancel |-> 0, stopped |-> TRUE]]

MonitorStop(h) ==
    [IF h.monitor.cancel # 0 THEN MonitorPause(h) ELSE h
        EXCEPT !.monitor.intervals = <<>>, !.monitor.stopped = TRUE]

(* _next, which is also resume().                                          *)
MonitorNext(h) ==
    LET Scheduled(g, t) == Register(g, "monitor", OfTick(g, t), Nowhere)
    IN  IF h.monitor.intervals = <<>> THEN MonitorStop(h)
        ELSE Scheduled([h EXCEPT !.monitor.intervals = Tail(@), !.monitor.cancel = Len(h.regs) + 1],
                       Now(h) + Head(h.monitor.intervals))

MonitorReset(h, intervals) ==
    LET Reset(g) == MonitorNext([g EXCEPT !.monitor.intervals = intervals, !.monitor.stopped = FALSE])
    IN  Reset(IF h.monitor.cancel # 0 THEN MonitorPause(h) ELSE h)

(* The end of _run, after the action returned or threw.                    *)
MonitorRan(h, result) ==
    IF result # "false" THEN MonitorStop(h)
    ELSE IF h.monitor.stopped THEN h ELSE MonitorNext(h)

(* What follows a call: untilTrue, and _run.                               *)
AfterCall(h, entry, result) ==
    IF h.regs[entry.reg].kind = "untilTrue" /\ result = "true" THEN RemovePrimary(h, entry.reg)
    ELSE IF h.regs[entry.reg].kind = "monitor" THEN MonitorRan(h, result) ELSE h

=============================================================================
