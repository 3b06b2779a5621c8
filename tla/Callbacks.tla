------------------------------ MODULE Callbacks ------------------------------
(***************************************************************************)
(* Whoever is called by the observables, event contexts, the timer and the *)
(* monitor of helper/async.js, and what they may do meanwhile: subscribe,  *)
(* cancel, publish, or drive the monitor.  All of it is synchronous: the   *)
(* stack has a frame for each loop in progress, and for each call.         *)
(***************************************************************************)
EXTENDS Observables

CONSTANTS
    Scenarios,  \* what is there to subscribe to, to publish, and how often
    Names       \* that the events and their prefixes are made of

(* The monitor's own registrations are not made by subscribing.            *)
Scenario ==
    [prefixes : SUBSET Seq(Names), events : SUBSET Seq(Names),
     kinds : SUBSET {"plain", "once", "untilTrue", "backup", "recover"},
     delays : SUBSET Nat, intervals : SUBSET Seq(Nat),
     observes : Nat, subs : Nat, cancels : Nat, publishes : Nat, ticks : Nat, drives : Nat]
ASSUME ScenariosAssumption == Scenarios \subseteq Scenario

VARIABLES
    objects,    \* Observables
    stack,      \* frames, the innermost last
    history,    \* the calls that began, the registrations that were cancelled, said true, were late
    left        \* what is left of the scenario

vars == <<objects, stack, history, left>>

NoHistory == [calls |-> <<>>, cancelled |-> {}, saidTrue |-> {}, late |-> {}]

Init ==
    \E sc \in Scenarios :
        /\ objects = NewObjects /\ stack = <<>> /\ history = NoHistory
        /\ left = sc

-----------------------------------------------------------------------------
(* Frames.                                                                 *)
PublishFrame(o, due) == [do |-> "publish", on |-> o, due |-> due]
NodeFrame(evt, node, phase) == [do |-> "node", evt |-> evt, node |-> node, phase |-> phase]
TickFrame(o, seen) == [do |-> "tick", on |-> o, seen |-> seen]
CallFrame(entry) == [do |-> "call", entry |-> entry]

Top == Last(stack)
Doing(do) == stack # <<>> /\ Top.do = do
Push(below, frame) == stack' = Append(below, frame)
Pop == stack' = Front(stack)

(* A wrapper is called, and calls the user's function unless it fails.     *)
Call(below, entry) ==
    /\ objects' = BeforeCall(objects, entry)
    /\ IF BeforeCallFails(objects, entry) THEN stack' = below ELSE Push(below, CallFrame(entry))
    /\ history' = [history EXCEPT !.calls = Append(@, entry)]

(* Mutated form of StillSubscribed: the publisher does not look.           *)
Always(o, entry) == TRUE

StillSubscribed(o, entry) == HasSub(objects, o, entry)

(* Observable.publish goes through those who were subscribed when it       *)
(* began, but for those who are not any more.                              *)
PublishStep ==
    /\ Doing("publish")
    /\ LET rest == Append(Front(stack), [Top EXCEPT !.due = Tail(@)])
       IN  IF Top.due = <<>> THEN Pop /\ UNCHANGED <<objects, history>>
           ELSE IF StillSubscribed(Top.on, Head(Top.due)) THEN Call(rest, Head(Top.due))
           ELSE stack' = rest /\ UNCHANGED <<objects, history>>
    /\ UNCHANGED left

(* pubDeep: to those who capture, then to a longer prefix, then to those   *)
(* whom the event bubbles up to.                                           *)
PhaseBecomes(phase) == Append(Front(stack), [Top EXCEPT !.phase = phase])

NodeStep ==
    /\ Doing("node")
    /\ LET node == Top.node
           i == Len(node)
           children == IF i < Len(Top.evt) THEN Children(objects, node, Top.evt[i + 1]) ELSE {}
           To(phase, next) ==
               Push(PhaseBecomes(next),
                    PublishFrame(OfNode(node, phase), Subs(objects, OfNode(node, phase))))
       IN  \/ /\ Top.phase = "capture"
              /\ objects' = [objects EXCEPT !.publishing = @ \cup {node}]
              /\ To("capture", "child")
           \/ /\ Top.phase = "child" /\ UNCHANGED objects
              /\ IF children = {} THEN stack' = PhaseBecomes("bubble")
                 ELSE \E child \in children :
                          Push(PhaseBecomes("bubble"), NodeFrame(Top.evt, child, "capture"))
           \/ /\ Top.phase = "bubble" /\ UNCHANGED objects
              /\ To("bubble", "end")
           \/ /\ Top.phase = "end" /\ Pop
              /\ objects' = MaybeClean([objects EXCEPT !.publishing = @ \ {node}], node)
    /\ UNCHANGED <<history, left>>

(* A tick: all that is scheduled for it, also by those who are called.     *)
TickStep ==
    /\ Doing("tick")
    /\ LET scheduled == Subs(objects, Top.on)
           next == SelectInSeq(scheduled, LAMBDA e : e \notin Top.seen)
           t == Top.on.tick
       IN  IF next = 0
           THEN /\ Pop /\ UNCHANGED history
                /\ objects' = [objects EXCEPT !.cb = Without(@, t), !.lastCompleted = t]
           ELSE Call(Append(Front(stack), [Top EXCEPT !.seen = @ \cup {scheduled[next]}]),
                     scheduled[next])
    /\ UNCHANGED left

(* _runTick is not called by anybody but the event loop.                   *)
RunTick ==
    /\ stack = <<>> /\ left.ticks > 0
    /\ left' = [left EXCEPT !.ticks = @ - 1]
    /\ IF Now(objects) \in DOMAIN objects.cb
       THEN Push(<<>>, TickFrame(OfTick(objects, Now(objects)), {})) /\ UNCHANGED objects
       ELSE objects' = [objects EXCEPT !.lastCompleted = @ + 1] /\ UNCHANGED stack
    /\ UNCHANGED history

-----------------------------------------------------------------------------
(* Whoever is in control: a call, or the event loop's other tasks.         *)
InControl == stack = <<>> \/ Doing("call")
Uses(budget) == InControl /\ left[budget] > 0 /\ left' = [left EXCEPT ![budget] = @ - 1]

(* EventContext.subscribe, whose Subscribe is kept for later.              *)
Observe(prefix, phase) ==
    /\ Uses("observes")
    /\ \E madeFor \in [DOMAIN prefix -> 1 .. Len(objects.kept) + 1] :
          LET node == NodeOf(prefix, madeFor)
          IN  IsDescendant(objects, node) /\ objects' = MakeSubscribe(objects, node, phase)
    /\ UNCHANGED <<stack, history>>

(* Late is who uses a Subscribe whose node has been deleted.               *)
Subscribe(kind, on, backup) ==
    /\ Uses("subs")
    /\ objects' = Register(objects, kind, on, backup)
    /\ history' = [history EXCEPT !.late =
          IF IsOfNode(on) /\ ~ IsAttached(objects, on.path) THEN @ \cup {Len(objects.regs) + 1} ELSE @]
    /\ UNCHANGED stack

Cancel(r) ==
    /\ Uses("cancels") /\ objects.regs[r].kind # "monitor"
    /\ objects' = CancelReg(objects, r)
    /\ history' = [history EXCEPT !.cancelled = @ \cup {r}]
    /\ UNCHANGED stack

(* Not while an event with the same prefix is being published, see the     *)
(* README.                                                                 *)
Publish(evt) ==
    /\ Uses("publishes")
    /\ \A node \in objects.publishing :
          node # <<>> /\ evt # <<>> => Head(node).name # Head(evt)
    /\ Push(stack, NodeFrame(evt, <<>>, "capture"))
    /\ UNCHANGED <<objects, history>>

(* The monitor is reset, paused and resumed from outside its own action,   *)
(* see the README, and stopped from anywhere.                              *)
IsMonitors(frame) == frame.do = "call" /\ objects.regs[frame.entry.reg].kind = "monitor"
InAction == \E i \in DOMAIN stack : IsMonitors(stack[i])

Drive(h) ==
    /\ Uses("drives") /\ objects' = h
    /\ UNCHANGED <<stack, history>>

DriveMonitor ==
    \/ \E intervals \in left.intervals : ~ InAction /\ Drive(MonitorReset(objects, intervals))
    \/ ~ InAction /\ MonitorState(objects) = "RUNNING" /\ Drive(MonitorPause(objects))
    \/ MonitorState(objects) = "PAUSED" /\ Drive(MonitorNext(objects))
    \/ Drive(MonitorStop(objects))

Return(result) ==
    /\ Doing("call")
    /\ objects' = AfterCall(objects, Top.entry, result)
    /\ history' = IF result = "true" THEN [history EXCEPT !.saidTrue = @ \cup {Top.entry.reg}] ELSE history
    /\ Pop /\ UNCHANGED left

(* What can be subscribed to: what there is a Subscribe for, and later     *)
(* ticks.                                                                  *)
Observed == ToSet(objects.kept)
                  \cup {OfTick(objects, Now(objects) + delay) : delay \in left.delays}
Backups(kind) == IF kind \in {"backup", "recover"}
                 THEN {OfTick(objects, Now(objects) + delay) : delay \in left.delays} ELSE {Nowhere}

Next ==
    \/ PublishStep \/ NodeStep \/ TickStep \/ RunTick
    \/ \E prefix \in left.prefixes, phase \in {"capture", "bubble"} : Observe(prefix, phase)
    \/ \E kind \in left.kinds, on \in Observed :
          \E backup \in Backups(kind) : Subscribe(kind, on, backup)
    \/ \E r \in DOMAIN objects.regs : Cancel(r)
    \/ \E evt \in left.events : Publish(evt)
    \/ DriveMonitor
    \/ \E result \in {"true", "false", "throws"} : Return(result)

Spec == Init /\ [][Next]_vars

=============================================================================
