-------------------------- MODULE Callbacks_proofs --------------------------
(***************************************************************************)
(* Proofs about Callbacks.  Its inductive invariant CallbacksInv says what *)
(* the objects are like between any two steps (Sound), what has been done  *)
(* by those who were called (Obeyed), where the loops in progress are      *)
(* (InProgress), and what the monitor has scheduled (MonitorFits).  From   *)
(* it follow the properties of CallbackProperties.                         *)
(***************************************************************************)
EXTENDS CallbackProperties, FiniteSetTheorems, SequenceTheorems, WellFoundedInduction, TLAPS

-----------------------------------------------------------------------------
(* The objects.                                                            *)
NodeKeys == [name : Names, for : Nat]
Paths == Seq(NodeKeys)
Obs == [path : Paths, phase : {"capture", "bubble", "tick", "nowhere"}, tick : Nat, number : Nat]
IsNodeObs(o) == IsOfNode(o) /\ o = OfNode(o.path, o.phase)
IsTimerObs(o) == o = OfTimer(o.tick, o.number)
IsObs(o) == o \in Obs /\ (IsNodeObs(o) \/ IsTimerObs(o))

AllKinds == {"plain", "once", "untilTrue", "backup", "recover", "monitor"}
Regs == [kind : AllKinds, on : Obs, backup : Obs]
HasBackup(reg) == reg.kind \in {"backup", "recover"}
IsReg(reg) ==
    /\ IsObs(reg.on)
    /\ IF HasBackup(reg) THEN IsTimerObs(reg.backup) ELSE reg.backup = Nowhere
    /\ reg.kind = "monitor" => IsTimerObs(reg.on)

(* Entries are where their registration says.                              *)
Entries == [reg : Nat, role : {"primary", "backup"}]
Target(h, e) == IF e.role = "primary" THEN h.regs[e.reg].on ELSE h.regs[e.reg].backup
IsEntry(h, e) ==
    /\ e \in Entries /\ e.reg \in 1 .. Len(h.regs)
    /\ e.role = "backup" => HasBackup(h.regs[e.reg])
IsSubs(h, o) ==
    /\ IsObs(o) /\ h.subs[o] \in Seq(Entries)
    /\ \A i, j \in 1 .. Len(h.subs[o]) : h.subs[o][i] = h.subs[o][j] => i = j
    /\ \A i \in 1 .. Len(h.subs[o]) :
          IsEntry(h, h.subs[o][i]) /\ Target(h, h.subs[o][i]) = o

(* Those of a tick are numbered.                                           *)
OfSameTick(h, t) == {o \in DOMAIN h.subs : o.phase = "tick" /\ o.tick = t}
IsNumbered(h) ==
    /\ IsFiniteSet(DOMAIN h.subs)
    /\ \A o \in DOMAIN h.subs : IsTimerObs(o) =>
          o.number \in 1 .. Cardinality(OfSameTick(h, o.tick))

(* The timer calls back whatever has somebody to call.                     *)
IsScheduled(h) ==
    /\ \A t \in DOMAIN h.cb :
          t \in Nat /\ t > h.lastCompleted /\ OfTimer(t, h.cb[t]) \in DOMAIN h.subs
    /\ \A o \in DOMAIN h.subs : IsTimerObs(o) /\ o.tick > h.lastCompleted /\ h.subs[o] # <<>> =>
          o.tick \in DOMAIN h.cb /\ h.cb[o.tick] = o.number

(* Nodes are paths, and a Subscribe of the event context is for one.       *)
NodesTyped(h) ==
    /\ h.nodes \subseteq Paths /\ h.kept \in Seq(Obs)
    /\ \A i \in 1 .. Len(h.kept) : IsNodeObs(h.kept[i])

Sound(h) ==
    /\ h = [subs |-> h.subs, kept |-> h.kept, nodes |-> h.nodes, publishing |-> h.publishing,
            cb |-> h.cb, lastCompleted |-> h.lastCompleted, regs |-> h.regs, monitor |-> h.monitor]
    /\ h.subs = [o \in DOMAIN h.subs |-> h.subs[o]] /\ h.cb = [t \in DOMAIN h.cb |-> h.cb[t]]
    /\ h.lastCompleted \in Nat
    /\ h.regs \in Seq(Regs)
    /\ \A r \in 1 .. Len(h.regs) : IsReg(h.regs[r])
    /\ \A o \in DOMAIN h.subs : IsSubs(h, o)
    /\ IsNumbered(h) /\ IsScheduled(h)

-----------------------------------------------------------------------------
(* Those who were called, cancelled, or said true.                         *)
Primary(h, r) == HasSub(h, h.regs[r].on, Entry(r, "primary"))
Backup(h, r) == HasSub(h, h.regs[r].backup, Entry(r, "backup"))
Called(c, e) == \E i \in 1 .. Len(c) : c[i] = e

Obeyed(h, c, cancelled, saidTrue) ==
    /\ c \in Seq(Entries)
    /\ cancelled \subseteq 1 .. Len(h.regs) /\ saidTrue \subseteq 1 .. Len(h.regs)
    /\ \A i \in 1 .. Len(c) : IsEntry(h, c[i])
    /\ \A r \in cancelled : ~ Primary(h, r) /\ ~ Backup(h, r)
    /\ \A r \in saidTrue : h.regs[r].kind = "untilTrue" => ~ Primary(h, r)
    /\ \A r \in 1 .. Len(h.regs) :
          /\ h.regs[r].kind = "once" /\ Called(c, Entry(r, "primary")) => ~ Primary(h, r)
          /\ HasBackup(h.regs[r]) /\ Called(c, Entry(r, "primary")) => ~ Backup(h, r)
          /\ h.regs[r].kind = "backup" /\ Called(c, Entry(r, "backup")) => ~ Primary(h, r)
    /\ \A i, j \in 1 .. Len(c) :
          i < j /\ c[i].reg = c[j].reg /\ c[i].role # c[j].role =>
              h.regs[c[i].reg].kind = "recover" /\ c[i].role = "backup"
    /\ \A o \in DOMAIN h.subs : IsTimerObs(o) /\ o.tick <= h.lastCompleted =>
          \A i \in 1 .. Len(h.subs[o]) : Called(c, h.subs[o][i])

-----------------------------------------------------------------------------
(* The loops in progress.                                                  *)
Frames ==
    [do : {"publish"}, on : Obs, due : Seq(Entries)]
        \cup [do : {"node"}, evt : Seq(Names), node : Paths, phase : {"capture", "child", "bubble", "end"}]
        \cup [do : {"tick"}, on : Obs, seen : SUBSET Entries]
        \cup [do : {"call"}, entry : Entries]
IsFrame(f, h) ==
    /\ f.do = "publish" => IsNodeObs(f.on)
    /\ f.do = "tick" => IsTimerObs(f.on) /\ f.on.tick = Now(h)
                           /\ Now(h) \in DOMAIN h.cb /\ h.cb[Now(h)] = f.on.number
    /\ f.do = "call" => IsEntry(h, f.entry)

(* Who of the timer's was called, was called by a tick that is over, or by *)
(* the one that is in progress.                                            *)
TickOf(s) == IF s # <<>> /\ s[1].do = "tick" THEN s[1].seen ELSE {}
FramesFit(h, s) ==
    s \in Seq(Frames) /\ \A i \in 1 .. Len(s) : IsFrame(s[i], h) /\ (s[i].do = "tick" => i = 1)
CallsFit(h, s, c) ==
    /\ \A i \in 1 .. Len(c) : IsTimerObs(Target(h, c[i])) =>
          Target(h, c[i]).tick <= h.lastCompleted \/ c[i] \in TickOf(s)
    /\ \A e \in TickOf(s) : Called(c, e) /\ Target(h, e) = s[1].on
InProgress(h, s, c) == FramesFit(h, s) /\ CallsFit(h, s, c)

-----------------------------------------------------------------------------
(* The monitor.                                                            *)
IsMonitorCall(h, f) == f.do = "call" /\ h.regs[f.entry.reg].kind = "monitor"
MonitorCalls(h, s) == {i \in 1 .. Len(s) : IsMonitorCall(h, s[i])}
Awaited(h, passed) ==
    {r \in 1 .. Len(h.regs) : h.regs[r].kind = "monitor" /\ Primary(h, r)
        /\ h.regs[r].on.tick > h.lastCompleted /\ Entry(r, "primary") \notin passed}
IsMonitor(h) ==
    LET m == h.monitor IN
    /\ m \in [intervals : Seq(Nat), cancel : Nat, stopped : BOOLEAN]
    /\ m.cancel <= Len(h.regs) /\ (m.cancel # 0 => h.regs[m.cancel].kind = "monitor")
    /\ m.stopped => m.cancel = 0
MonitorFits(h, passed, inAction) ==
    /\ IsMonitor(h)
    /\ inAction => h.monitor.stopped \/ h.monitor.cancel # 0
    /\ Awaited(h, passed) = IF inAction THEN {} ELSE {h.monitor.cancel} \ {0}
MonitorInv(h, s) ==
    /\ MonitorCalls(h, s) \subseteq {2}
    /\ MonitorCalls(h, s) # {} => s[1].do = "tick" /\ s[2].entry \in TickOf(s)
    /\ MonitorFits(h, TickOf(s), MonitorCalls(h, s) # {})

(* All of it.                                                              *)
Fits(h, s, past) ==
    /\ Sound(h) /\ NodesTyped(h)
    /\ past = [calls |-> past.calls, cancelled |-> past.cancelled, saidTrue |-> past.saidTrue,
               late |-> past.late]
    /\ Obeyed(h, past.calls, past.cancelled, past.saidTrue)
    /\ InProgress(h, s, past.calls)
    /\ MonitorInv(h, s)

CallbacksInv == left \in Scenario /\ Fits(objects, stack, history)
-----------------------------------------------------------------------------
(* Sequences, and the operators of Observables.                            *)

Among(q, x) == \E i \in 1 .. Len(q) : q[i] = x
AllOnce(q) == \A i, j \in 1 .. Len(q) : q[i] = q[j] => i = j

(* Removing what is in a sequence once, as a canceller does, leaves what   *)
(* else is in it, once.                                                    *)
LEMMA RemoveFirstFacts ==
    ASSUME NEW S, NEW s \in Seq(S), NEW e,
           AllOnce(s), Among(s, e), NEW q, q = RemoveFirst(s, e)
    PROVE  /\ q \in Seq(S) /\ AllOnce(q)
           /\ \A x : Among(q, x) <=> Among(s, x) /\ x # e
<1>0. \A i, j \in 1 .. Len(s) : s[i] = s[j] => i = j
  BY DEF AllOnce
<1>1. PICK k \in 1 .. Len(s) : s[k] = e
  BY DEF Among
<1>2. {i \in 1 .. Len(s) : s[i] = e} = {k}
  BY <1>0, <1>1
<1>3. SelectInSeq(s, LAMBDA v : v = e) = k
  <2>1. SelectInSeq(s, LAMBDA v : v = e) = Min({k})
    BY <1>2 DEF SelectInSeq
  <2>2. Min({k}) = k
    BY <1>1 DEF Min
  <2>. QED
    BY <2>1, <2>2
<1>4. PICK a, b : a = SubSeq(s, 1, k - 1) /\ b = SubSeq(s, k + 1, Len(s))
  OBVIOUS
<1>5. Len(s) \in Nat
  OBVIOUS
<1>6. a \in Seq(S) /\ Len(a) = k - 1 /\ \A i \in 1 .. k - 1 : a[i] = s[i]
  BY <1>1, <1>4, <1>5
<1>7. b \in Seq(S) /\ Len(b) = Len(s) - k /\ \A i \in 1 .. Len(s) - k : b[i] = s[i + k]
  BY <1>1, <1>4, <1>5
<1>11. q = a \o b
  BY <1>1, <1>3, <1>4 DEF RemoveFirst, RemoveAt
<1>8. q \in Seq(S) /\ Len(q) = Len(s) - 1
  BY <1>1, <1>5, <1>6, <1>7, <1>11
<1>9. \A i \in 1 .. Len(q) : q[i] = IF i < k THEN s[i] ELSE s[i + 1]
  <2>. SUFFICES ASSUME NEW i \in 1 .. Len(q) PROVE q[i] = IF i < k THEN s[i] ELSE s[i + 1]
    OBVIOUS
  <2>1. CASE i < k
    BY <1>1, <1>5, <1>6, <1>7, <1>8, <1>11, <2>1
  <2>2. CASE ~ (i < k)
    <3>1. q[i] = b[i - (k - 1)] /\ i - (k - 1) \in 1 .. Len(s) - k
      BY <1>1, <1>5, <1>6, <1>7, <1>8, <1>11, <2>2
    <3>2. b[i - (k - 1)] = s[i + 1]
      BY <1>7, <3>1
    <3>. QED
      BY <2>2, <3>1, <3>2
  <2>. QED
    BY <2>1, <2>2
<1>. DEFINE at(i) == IF i < k THEN i ELSE i + 1
<1>12. \A i \in 1 .. Len(q) : at(i) \in 1 .. Len(s) /\ at(i) # k /\ q[i] = s[at(i)]
  BY <1>1, <1>5, <1>8, <1>9
<1>10. \A i, j \in 1 .. Len(q) : q[i] = q[j] => i = j
  <2>. SUFFICES ASSUME NEW i \in 1 .. Len(q), NEW j \in 1 .. Len(q), q[i] = q[j] PROVE i = j
    OBVIOUS
  <2>0. PICK x, y : x = at(i) /\ y = at(j)
    OBVIOUS
  <2>1. at(i) = at(j)
    <3>1. x \in 1 .. Len(s) /\ y \in 1 .. Len(s) /\ s[x] = s[y]
      BY <1>12, <2>0
    <3>. QED
      BY <1>0, <2>0, <3>1
  <2>. QED
    BY <2>1, <1>1, <1>5, <1>8
<1>13. ASSUME NEW x PROVE (\E i \in 1 .. Len(q) : q[i] = x) <=> (\E i \in 1 .. Len(s) : s[i] = x) /\ x # e
  <2>1. ASSUME NEW i \in 1 .. Len(q), q[i] = x PROVE (\E j \in 1 .. Len(s) : s[j] = x) /\ x # e
    <3>1. PICK y \in 1 .. Len(s) : y # k /\ s[y] = x
      BY <2>1, <1>12
    <3>. QED
      BY <3>1, <1>0, <1>1
  <2>2. ASSUME NEW i \in 1 .. Len(s), s[i] = x, x # e PROVE \E j \in 1 .. Len(q) : q[j] = x
    <3>1. CASE i < k
      <4>1. i \in 1 .. Len(q) /\ q[i] = x
        BY <3>1, <2>2, <1>1, <1>5, <1>8, <1>9
      <4>. QED
        BY <4>1
    <3>2. CASE i > k
      <4>1. i - 1 \in 1 .. Len(q) /\ at(i - 1) = i
        BY <3>2, <1>1, <1>5, <1>8
      <4>2. q[i - 1] = x
        BY <4>1, <1>12, <2>2
      <4>. QED
        BY <4>1, <4>2
    <3>. QED
      BY <3>1, <3>2, <2>2, <1>1
  <2>. QED
    BY <2>1, <2>2
<1>. QED
  BY <1>8, <1>10, <1>13 DEF AllOnce, Among

(* The first of those that a test picks, as the tick takes the next one.   *)
LEMMA SelectFacts ==
    ASSUME NEW S, NEW s \in Seq(S), NEW seen
    PROVE  LET next == SelectInSeq(s, LAMBDA e : e \notin seen) IN
           \/ next = 0 /\ \A i \in 1 .. Len(s) : s[i] \in seen
           \/ next \in 1 .. Len(s) /\ s[next] \notin seen
<1>. DEFINE I == {i \in 1 .. Len(s) : s[i] \notin seen}
<1>1. SelectInSeq(s, LAMBDA e : e \notin seen) = IF I # {} THEN Min(I) ELSE 0
  BY DEF SelectInSeq
<1>2. CASE I = {}
  BY <1>1, <1>2
<1>3. CASE I # {}
  <2>. DEFINE R == OpToRel(<, Nat)
  <2>1. IsWellFoundedOn(R, Nat)
    BY NatLessThanWellFounded
  <2>2. \A x, y \in Nat : x < y => <<x, y>> \in R
    BY DEF OpToRel
  <2>3. I \subseteq Nat
    OBVIOUS
  <2>. HIDE DEF R, I
  <2>4. PICK x \in I : \A y \in I : ~ (<<y, x>> \in R)
    BY <1>3, <2>1, <2>3, WFMin
  <2>5. ASSUME NEW y \in I PROVE x <= y
    <3>1. x \in Nat /\ y \in Nat /\ ~ (y < x)
      BY <2>2, <2>3, <2>4
    <3>. QED
      BY <3>1
  <2>6. Min(I) \in I
    BY <2>5 DEF Min
  <2>. QED
    BY <1>1, <1>3, <2>6 DEF I
<1>. QED
  BY <1>2, <1>3

(* What is subscribed to an observable.                                    *)
LEMMA SubsFacts ==
    ASSUME NEW h, Sound(h), NEW o \in DOMAIN h.subs
    PROVE  /\ Subs(h, o) = h.subs[o] /\ h.subs[o] \in Seq(Entries) /\ AllOnce(h.subs[o])
           /\ IsObs(o) /\ \A x : Among(h.subs[o], x) => IsEntry(h, x) /\ Target(h, x) = o
           /\ \A x : HasSub(h, o, x) <=> Among(h.subs[o], x)
           /\ h.subs[o] = <<>> <=> \A x : ~ HasSub(h, o, x)
<1>1. IsSubs(h, o)
  BY DEF Sound
<1>2. PICK q : q = h.subs[o]
  OBVIOUS
<1>3. /\ IsObs(o) /\ q \in Seq(Entries) /\ AllOnce(q)
      /\ \A i \in 1 .. Len(q) : IsEntry(h, q[i]) /\ Target(h, q[i]) = o
  BY <1>1, <1>2 DEF IsSubs, AllOnce
<1>4. Subs(h, o) = q /\ DOMAIN q = 1 .. Len(q)
  BY <1>2, <1>3 DEF Subs
<1>5. ASSUME NEW x PROVE HasSub(h, o, x) <=> Among(q, x)
  BY <1>4 DEF HasSub, Among
<1>6. ASSUME NEW x, Among(q, x) PROVE IsEntry(h, x) /\ Target(h, x) = o
  BY <1>3, <1>6 DEF Among
<1>7. q = <<>> <=> \A x : ~ Among(q, x)
  <2>1. ASSUME q # <<>> PROVE Among(q, q[1])
    <3>1. 1 \in 1 .. Len(q)
      BY <1>3, <2>1
    <3>. QED
      BY <3>1 DEF Among
  <2>2. ASSUME q = <<>>, NEW x PROVE ~ Among(q, x)
    BY <2>2 DEF Among
  <2>. QED
    BY <2>1, <2>2
<1>. QED
  BY <1>2, <1>3, <1>4, <1>5, <1>6, <1>7

(* Somebody has subscribed if they are in the sequence.                    *)
LEMMA HasSubFacts ==
    ASSUME NEW h, Sound(h), NEW o, NEW e
    PROVE  /\ HasSub(h, o, e) <=> o \in DOMAIN h.subs /\ Among(h.subs[o], e)
           /\ HasSub(h, o, e) => IsObs(o) /\ IsEntry(h, e) /\ Target(h, e) = o /\ h.subs[o] # <<>>
<1>1. CASE o \in DOMAIN h.subs
  <2>1. HasSub(h, o, e) <=> Among(h.subs[o], e)
    BY <1>1, SubsFacts
  <2>2. HasSub(h, o, e) => h.subs[o] # <<>>
    BY <1>1, SubsFacts
  <2>3. Among(h.subs[o], e) => IsObs(o) /\ IsEntry(h, e) /\ Target(h, e) = o
    BY <1>1, SubsFacts
  <2>. QED
    BY <1>1, <2>1, <2>2, <2>3
<1>2. CASE o \notin DOMAIN h.subs
  <2>1. Subs(h, o) = <<>>
    BY <1>2 DEF Subs
  <2>2. ~ HasSub(h, o, e)
    BY <2>1 DEF HasSub
  <2>. QED
    BY <1>2, <2>2
<1>. QED
  BY <1>1, <1>2

(* after() finds the observable of a tick, or makes a new one.             *)
LEMMA OfTickFacts ==
    ASSUME NEW h, Sound(h), NEW t \in Nat
    PROVE  LET o == OfTick(h, t) IN
           /\ IsTimerObs(o) /\ IsObs(o) /\ o.tick = t /\ ~ IsOfNode(o)
           /\ t \in DOMAIN h.cb => o.number = h.cb[t] /\ o \in DOMAIN h.subs
           /\ t \notin DOMAIN h.cb => o \notin DOMAIN h.subs
                                        /\ o.number = 1 + Cardinality(OfSameTick(h, t))
           /\ IsFiniteSet(OfSameTick(h, t)) /\ Cardinality(OfSameTick(h, t)) \in Nat
<1>. DEFINE o == OfTick(h, t)
<1>1. IsFiniteSet(OfSameTick(h, t)) /\ Cardinality(OfSameTick(h, t)) \in Nat
  <2>1. IsFiniteSet(DOMAIN h.subs) /\ OfSameTick(h, t) \subseteq DOMAIN h.subs
    BY DEF Sound, IsNumbered, OfSameTick
  <2>. QED
    BY <2>1, FS_Subset, FS_CardinalityType
<1>2. o = OfTimer(t, IF t \in DOMAIN h.cb THEN h.cb[t] ELSE 1 + Cardinality(OfSameTick(h, t)))
  BY DEF OfTick, OfSameTick
<1>3. o.phase = "tick" /\ o.tick = t /\ o.number = IF t \in DOMAIN h.cb THEN h.cb[t] ELSE 1 + Cardinality(OfSameTick(h, t))
  BY <1>2 DEF OfTimer
<1>4. IsTimerObs(o) /\ ~ IsOfNode(o)
  BY <1>2, <1>3 DEF IsTimerObs, IsOfNode
<1>5. CASE t \in DOMAIN h.cb
  <2>1. o \in DOMAIN h.subs
    BY <1>2, <1>5 DEF Sound, IsScheduled
  <2>2. IsObs(o)
    BY <2>1 DEF Sound, IsSubs
  <2>. QED
    BY <1>1, <1>3, <1>4, <1>5, <2>1, <2>2
<1>6. CASE t \notin DOMAIN h.cb
  <2>1. o.number = 1 + Cardinality(OfSameTick(h, t))
    BY <1>3, <1>6
  <2>2. o \in DOMAIN h.subs => FALSE
    BY <2>1, <1>1, <1>3, <1>4 DEF Sound, IsNumbered
  <2>3. <<>> \in Paths
    BY DEF Paths
  <2>4. o \in Obs
    BY <1>1, <1>2, <1>6, <2>3 DEF OfTimer, Obs
  <2>. QED
    BY <1>1, <1>3, <1>4, <1>6, <2>1, <2>2, <2>4 DEF IsObs
<1>. QED
  BY <1>5, <1>6

-----------------------------------------------------------------------------
(* Subscribing and cancelling.                                             *)
IsObjects(h) ==
    h = [subs |-> h.subs, kept |-> h.kept, nodes |-> h.nodes, publishing |-> h.publishing,
         cb |-> h.cb, lastCompleted |-> h.lastCompleted, regs |-> h.regs, monitor |-> h.monitor]
SameSubs(h, g) == \A o, e : HasSub(g, o, e) <=> HasSub(h, o, e)
KeepsTick(h, g) == Now(h) \in DOMAIN h.cb => Now(h) \in DOMAIN g.cb /\ g.cb[Now(h)] = h.cb[Now(h)]
IsRemoval(h, g, o, e) ==
    /\ g.regs = h.regs /\ g.monitor = h.monitor
    /\ g.lastCompleted = h.lastCompleted /\ g.publishing = h.publishing
    /\ DOMAIN g.subs = DOMAIN h.subs
    /\ \A p, x : HasSub(g, p, x) <=> HasSub(h, p, x) /\ ~ (p = o /\ x = e)
    /\ KeepsTick(h, g)

(* Sound says nothing about nodes, events in progress, and the monitor.    *)
LEMMA SoundDepends ==
    ASSUME NEW h, Sound(h), NEW g, IsObjects(g),
           g.subs = h.subs, g.cb = h.cb, g.lastCompleted = h.lastCompleted, g.regs = h.regs
    PROVE  Sound(g) /\ SameSubs(h, g)
<1>1. SameSubs(h, g)
  BY DEF SameSubs, HasSub, Subs
<1>2. IsNumbered(g) /\ IsScheduled(g)
  BY DEF Sound, IsNumbered, IsScheduled, OfSameTick
<1>3. \A o \in DOMAIN g.subs : IsSubs(g, o)
  <2>1. \A o \in DOMAIN h.subs : IsSubs(h, o)
    BY DEF Sound
  <2>2. \A e : (IsEntry(g, e) <=> IsEntry(h, e)) /\ Target(g, e) = Target(h, e)
    BY DEF IsEntry, Target
  <2>3. g.subs = h.subs
    OBVIOUS
  <2>. QED
    BY ONLY <2>1, <2>2, <2>3 DEF IsSubs
<1>. QED
  BY <1>1, <1>2, <1>3 DEF Sound, IsObjects

(* What a canceller does to the subscribers themselves.                    *)
LEMMA WithoutSub ==
    ASSUME NEW h, Sound(h), NEW o, NEW e, HasSub(h, o, e),
           NEW g, g = [h EXCEPT !.subs[o] = RemoveFirst(@, e)]
    PROVE  /\ IsObjects(g) /\ Sound(g) /\ IsRemoval(h, g, o, e)
           /\ g.cb = h.cb /\ g.nodes = h.nodes /\ g.kept = h.kept
<1>0. PICK s, q : s = h.subs[o] /\ q = RemoveFirst(s, e)
  OBVIOUS
<1>1. o \in DOMAIN h.subs /\ Among(s, e) /\ s # <<>>
  BY <1>0, HasSubFacts
<1>2. /\ s \in Seq(Entries) /\ AllOnce(s) /\ IsObs(o)
      /\ \A x : Among(s, x) => IsEntry(h, x) /\ Target(h, x) = o
  BY <1>0, <1>1, SubsFacts
<1>3. q \in Seq(Entries) /\ AllOnce(q) /\ \A x : Among(q, x) <=> Among(s, x) /\ x # e
  BY <1>0, <1>1, <1>2, RemoveFirstFacts
<1>4. /\ IsObjects(g) /\ g.cb = h.cb /\ g.nodes = h.nodes /\ g.kept = h.kept /\ g.regs = h.regs
      /\ g.monitor = h.monitor /\ g.lastCompleted = h.lastCompleted /\ g.publishing = h.publishing
      /\ g.subs = [h.subs EXCEPT ![o] = q]
  BY <1>0 DEF Sound, IsObjects
<1>5. /\ DOMAIN g.subs = DOMAIN h.subs /\ g.subs[o] = q
      /\ \A p \in DOMAIN h.subs : p # o => g.subs[p] = h.subs[p]
      /\ g.subs = [p \in DOMAIN g.subs |-> g.subs[p]]
  BY <1>1, <1>4 DEF Sound
<1>6. \A p \in DOMAIN g.subs : IsSubs(g, p)
  <2>. SUFFICES ASSUME NEW p \in DOMAIN g.subs PROVE IsSubs(g, p)
    OBVIOUS
  <2>0. \A x : (IsEntry(g, x) <=> IsEntry(h, x)) /\ Target(g, x) = Target(h, x)
    BY <1>4 DEF IsEntry, Target
  <2>1. CASE p # o
    <3>1. IsSubs(h, p) /\ g.subs[p] = h.subs[p]
      BY <1>5, <2>1 DEF Sound
    <3>. QED
      BY <2>0, <3>1 DEF IsSubs
  <2>2. CASE p = o
    <3>1. \A i \in 1 .. Len(q) : IsEntry(g, q[i]) /\ Target(g, q[i]) = o
      <4>. SUFFICES ASSUME NEW i \in 1 .. Len(q) PROVE IsEntry(g, q[i]) /\ Target(g, q[i]) = o
        OBVIOUS
      <4>1. Among(s, q[i])
        BY <1>3 DEF Among
      <4>. QED
        BY <1>2, <2>0, <4>1
    <3>. QED
      BY <1>2, <1>3, <1>5, <2>2, <3>1 DEF IsSubs, AllOnce
  <2>. QED
    BY <2>1, <2>2
<1>7. IsNumbered(g)
  <2>1. \A t : OfSameTick(g, t) = OfSameTick(h, t)
    BY <1>5 DEF OfSameTick
  <2>. QED
    BY <1>5, <2>1 DEF Sound, IsNumbered
<1>8. \A p \in DOMAIN g.subs : g.subs[p] # <<>> => h.subs[p] # <<>>
  BY <1>0, <1>1, <1>5
<1>9. IsScheduled(g)
  BY <1>4, <1>5, <1>8 DEF Sound, IsScheduled
<1>10. Sound(g)
  <2>1. /\ g.subs = [p \in DOMAIN g.subs |-> g.subs[p]] /\ g.cb = [t \in DOMAIN g.cb |-> g.cb[t]]
        /\ g.lastCompleted \in Nat /\ g.regs \in Seq(Regs)
        /\ \A r \in 1 .. Len(g.regs) : IsReg(g.regs[r])
    BY <1>4, <1>5 DEF Sound
  <2>. QED
    BY ONLY <1>4, <1>6, <1>7, <1>9, <2>1 DEF Sound, IsObjects
<1>11. \A p, x : HasSub(g, p, x) <=> HasSub(h, p, x) /\ ~ (p = o /\ x = e)
  <2>. SUFFICES ASSUME NEW p, NEW x PROVE HasSub(g, p, x) <=> HasSub(h, p, x) /\ ~ (p = o /\ x = e)
    OBVIOUS
  <2>1. HasSub(g, p, x) <=> p \in DOMAIN g.subs /\ Among(g.subs[p], x)
    BY <1>10, HasSubFacts
  <2>2. HasSub(h, p, x) <=> p \in DOMAIN h.subs /\ Among(h.subs[p], x)
    BY HasSubFacts
  <2>3. CASE p = o
    BY <1>0, <1>1, <1>3, <1>5, <2>1, <2>2, <2>3
  <2>4. CASE p # o
    BY <1>5, <2>1, <2>2, <2>4
  <2>. QED
    BY <2>3, <2>4
<1>. QED
  BY <1>4, <1>5, <1>10, <1>11 DEF IsRemoval, KeepsTick

(* A canceller takes out its subscriber, and nothing else.                 *)
LEMMA RemoveSubSound ==
    ASSUME NEW h, Sound(h), NEW o, NEW e, NEW g, g = RemoveSub(h, o, e)
    PROVE  Sound(g) /\ IsRemoval(h, g, o, e)
<1>1. CASE ~ HasSub(h, o, e)
  <2>1. g = h
    BY <1>1 DEF RemoveSub
  <2>2. \A p, x : HasSub(g, p, x) <=> HasSub(h, p, x) /\ ~ (p = o /\ x = e)
    BY <1>1, <2>1
  <2>. QED
    BY <2>1, <2>2 DEF IsRemoval, KeepsTick
<1>2. CASE HasSub(h, o, e)
  <2>1. PICK k : k = [h EXCEPT !.subs[o] = RemoveFirst(@, e)]
    OBVIOUS
  <2>2. IsObjects(k) /\ Sound(k) /\ IsRemoval(h, k, o, e) /\ k.cb = h.cb
    BY <1>2, <2>1, WithoutSub
  <2>3. g = IF IsOfNode(o) THEN MaybeClean(k, o.path)
            ELSE IF OfTick(k, o.tick) = o THEN DeleteIfEmpty(k, o) ELSE k
    BY <1>2, <2>1 DEF RemoveSub, Unsubscribed
  <2>4. CASE IsOfNode(o)
    <3>1. /\ IsObjects(g) /\ g.subs = k.subs /\ g.cb = k.cb /\ g.lastCompleted = k.lastCompleted
          /\ g.regs = k.regs /\ g.monitor = k.monitor /\ g.publishing = k.publishing
      BY <2>2, <2>3, <2>4 DEF MaybeClean, IsObjects
    <3>2. Sound(g) /\ SameSubs(k, g)
      BY <2>2, <3>1, SoundDepends
    <3>. QED
      BY <2>2, <3>1, <3>2 DEF IsRemoval, SameSubs, KeepsTick
  <2>5. CASE ~ IsOfNode(o) /\ g = k
    BY <2>2, <2>5
  <2>6. CASE ~ IsOfNode(o) /\ g # k
    <3>1. /\ Subs(k, o) = <<>> /\ o.tick # Now(k) /\ OfTick(k, o.tick) = o
          /\ g = [k EXCEPT !.cb = Without(@, o.tick)]
      BY <2>3, <2>6 DEF DeleteIfEmpty
    <3>2. /\ IsObjects(g) /\ g.subs = k.subs /\ g.lastCompleted = k.lastCompleted
          /\ g.regs = k.regs /\ g.monitor = k.monitor /\ g.publishing = k.publishing
          /\ g.cb = Without(k.cb, o.tick)
      BY <2>2, <3>1 DEF IsObjects
    <3>3. /\ g.cb = [t \in DOMAIN g.cb |-> g.cb[t]] /\ DOMAIN g.cb = DOMAIN k.cb \ {o.tick}
          /\ \A t \in DOMAIN g.cb : g.cb[t] = k.cb[t]
      BY <3>2 DEF Without
    <3>4. o \in DOMAIN k.subs /\ k.subs[o] = <<>> /\ IsTimerObs(o) /\ o.tick \in Nat
      <4>1. o \in DOMAIN k.subs /\ IsObs(o)
        BY <1>2, <2>2, HasSubFacts DEF IsRemoval
      <4>2. IsTimerObs(o) /\ o.tick \in Nat
        BY <4>1, <2>6 DEF IsObs, IsNodeObs, Obs
      <4>3. Subs(k, o) = k.subs[o]
        BY <4>1, <2>2, SubsFacts
      <4>. QED
        BY <3>1, <4>1, <4>2, <4>3
    <3>5. IsScheduled(g)
      <4>1. ASSUME NEW p \in DOMAIN g.subs, IsTimerObs(p), p.tick > g.lastCompleted, g.subs[p] # <<>>
            PROVE  p.tick \in DOMAIN g.cb /\ g.cb[p.tick] = p.number
        <5>1. p.tick \in DOMAIN k.cb /\ k.cb[p.tick] = p.number
          BY <2>2, <3>2, <4>1 DEF Sound, IsScheduled
        <5>2. p.tick # o.tick
          <6>. SUFFICES ASSUME p.tick = o.tick PROVE FALSE
            OBVIOUS
          <6>1. o.number = k.cb[o.tick]
            BY <2>2, <3>1, <3>4, <5>1, OfTickFacts
          <6>2. o = p
            BY <3>4, <4>1, <5>1, <6>1 DEF IsTimerObs
          <6>. QED
            BY <6>2, <3>2, <3>4, <4>1
        <5>. QED
          BY <5>1, <5>2, <3>3
      <4>2. \A t \in DOMAIN g.cb : t \in Nat /\ t > g.lastCompleted /\ OfTimer(t, g.cb[t]) \in DOMAIN g.subs
        BY <2>2, <3>2, <3>3 DEF Sound, IsScheduled
      <4>. QED
        BY <4>1, <4>2 DEF IsScheduled
    <3>6. IsNumbered(g) /\ \A p \in DOMAIN g.subs : IsSubs(g, p)
      <4>1. IsNumbered(g)
        BY <2>2, <3>2 DEF Sound, IsNumbered, OfSameTick
      <4>2. \A p \in DOMAIN k.subs : IsSubs(k, p)
        BY <2>2 DEF Sound
      <4>3. \A p \in DOMAIN k.subs : IsSubs(g, p)
        <5>1. \A x : (IsEntry(g, x) <=> IsEntry(k, x)) /\ Target(g, x) = Target(k, x)
          BY <3>2 DEF IsEntry, Target
        <5>. QED
          BY ONLY <3>2, <4>2, <5>1 DEF IsSubs
      <4>. QED
        BY <3>2, <4>1, <4>3
    <3>7. Sound(g)
      BY <2>2, <3>2, <3>3, <3>5, <3>6 DEF Sound, IsObjects
    <3>8. SameSubs(k, g)
      BY <3>2 DEF SameSubs, HasSub, Subs
    <3>9. KeepsTick(k, g)
      BY <3>1, <3>3 DEF KeepsTick
    <3>. QED
      BY <2>2, <3>2, <3>7, <3>8, <3>9 DEF IsRemoval, SameSubs, KeepsTick, Now
  <2>. QED
    BY <2>4, <2>5, <2>6
<1>. QED
  BY <1>1, <1>2

(* What is subscribed to may be a node, or what after() found for a later  *)
(* tick.                                                                   *)
Opens(h, o) == IsObs(o) /\ (IsNodeObs(o) \/ \E t \in Nat : t > h.lastCompleted /\ o = OfTick(h, t))
IsAddition(h, g, o, e) ==
    /\ g.regs = h.regs /\ g.monitor = h.monitor
    /\ g.lastCompleted = h.lastCompleted /\ g.publishing = h.publishing
    /\ \A p, x : HasSub(g, p, x) <=> HasSub(h, p, x) \/ (p = o /\ x = e)
    /\ KeepsTick(h, g)
    /\ \A t \in Nat : t > h.lastCompleted => OfTick(g, t) = OfTick(h, t)

(* What is at the end of a sequence to which something was appended.       *)
LEMMA AppendFacts ==
    ASSUME NEW S, NEW s \in Seq(S), NEW e \in S, AllOnce(s), ~ Among(s, e), NEW q, q = Append(s, e)
    PROVE  /\ q \in Seq(S) /\ AllOnce(q) /\ q # <<>>
           /\ \A x : Among(q, x) <=> Among(s, x) \/ x = e
<1>1. /\ q \in Seq(S) /\ Len(q) = Len(s) + 1 /\ Len(s) \in Nat
      /\ \A i \in 1 .. Len(s) : q[i] = s[i]
      /\ q[Len(s) + 1] = e
  OBVIOUS
<1>2. \A i \in 1 .. Len(q) : i \in 1 .. Len(s) \/ i = Len(s) + 1
  BY <1>1
<1>3. AllOnce(q)
  <2>. SUFFICES ASSUME NEW i \in 1 .. Len(q), NEW j \in 1 .. Len(q), q[i] = q[j] PROVE i = j
    BY DEF AllOnce
  <2>. QED
    BY <1>1, <1>2 DEF AllOnce, Among
<1>4. ASSUME NEW x PROVE Among(q, x) <=> Among(s, x) \/ x = e
  <2>1. ASSUME Among(q, x) PROVE Among(s, x) \/ x = e
    BY <2>1, <1>1, <1>2 DEF Among
  <2>2. ASSUME Among(s, x) PROVE Among(q, x)
    BY <2>2, <1>1 DEF Among
  <2>3. ASSUME x = e PROVE Among(q, x)
    <3>1. Len(s) + 1 \in 1 .. Len(q)
      BY <1>1
    <3>. QED
      BY <1>1, <2>3, <3>1 DEF Among
  <2>. QED
    BY <2>1, <2>2, <2>3
<1>. QED
  BY <1>1, <1>3, <1>4

(* Whoever subscribes is added, and nothing else changes.                  *)
LEMMA AddSubSound ==
    ASSUME NEW h, Sound(h), NEW o, Opens(h, o), NEW e, IsEntry(h, e), Target(h, e) = o,
           ~ HasSub(h, o, e), NEW g, g = AddSub(h, o, e)
    PROVE  Sound(g) /\ IsAddition(h, g, o, e)
<1>0. PICK s, q : s = Subs(h, o) /\ q = Append(s, e)
  OBVIOUS
<1>1. /\ s \in Seq(Entries) /\ AllOnce(s) /\ ~ Among(s, e)
      /\ \A x : Among(s, x) => IsEntry(h, x) /\ Target(h, x) = o
      /\ \A x : Among(s, x) <=> HasSub(h, o, x)
  <2>1. CASE o \in DOMAIN h.subs
    BY <1>0, <2>1, SubsFacts
  <2>2. CASE o \notin DOMAIN h.subs
    <3>1. s = <<>>
      BY <1>0, <2>2 DEF Subs
    <3>2. \A x : ~ Among(s, x) /\ ~ HasSub(h, o, x)
      BY <1>0, <3>1 DEF Among, HasSub
    <3>. QED
      BY <3>1, <3>2 DEF AllOnce
  <2>. QED
    BY <2>1, <2>2
<1>2. e \in Entries
  BY DEF IsEntry
<1>3. /\ q \in Seq(Entries) /\ AllOnce(q) /\ q # <<>>
      /\ \A x : Among(q, x) <=> Among(s, x) \/ x = e
  <2>1. s \in Seq(Entries) /\ AllOnce(s) /\ ~ Among(s, e) /\ q = Append(s, e)
    BY <1>0, <1>1
  <2>. QED
    BY <1>2, <2>1, AppendFacts
<1>4. /\ IsObjects(g) /\ g.subs = With(h.subs, o, q)
      /\ g.cb = (IF IsOfNode(o) THEN h.cb ELSE With(h.cb, o.tick, o.number))
      /\ g.regs = h.regs /\ g.monitor = h.monitor
      /\ g.lastCompleted = h.lastCompleted /\ g.publishing = h.publishing
  BY <1>0 DEF Sound, IsObjects, AddSub
<1>5. /\ DOMAIN g.subs = DOMAIN h.subs \cup {o} /\ g.subs[o] = q
      /\ \A p \in DOMAIN h.subs : p # o => g.subs[p] = h.subs[p]
      /\ g.subs = [p \in DOMAIN g.subs |-> g.subs[p]]
  BY <1>4 DEF With
<1>6. /\ IsOfNode(o) => g.cb = h.cb
      /\ ~ IsOfNode(o) => /\ DOMAIN g.cb = DOMAIN h.cb \cup {o.tick} /\ g.cb[o.tick] = o.number
                          /\ \A t \in DOMAIN h.cb : t # o.tick => g.cb[t] = h.cb[t]
      /\ g.cb = [t \in DOMAIN g.cb |-> g.cb[t]]
  <2>1. h.cb = [t \in DOMAIN h.cb |-> h.cb[t]]
    BY DEF Sound
  <2>2. CASE IsOfNode(o)
    BY ONLY <1>4, <2>1, <2>2
  <2>3. CASE ~ IsOfNode(o)
    <3>1. g.cb = [t \in DOMAIN h.cb \cup {o.tick} |-> IF t = o.tick THEN o.number ELSE h.cb[t]]
      BY ONLY <1>4, <2>3 DEF With
    <3>. QED
      BY ONLY <2>3, <3>1
  <2>. QED
    BY <2>2, <2>3
<1>7. /\ IsObs(o) /\ (IsOfNode(o) \/ IsTimerObs(o))
      /\ ~ IsOfNode(o) =>
            /\ o.tick \in Nat /\ o.tick > h.lastCompleted /\ o = OfTick(h, o.tick)
            /\ o.tick \in DOMAIN h.cb => o.number = h.cb[o.tick] /\ o \in DOMAIN h.subs
            /\ o.tick \notin DOMAIN h.cb =>
                  o \notin DOMAIN h.subs /\ o.number = 1 + Cardinality(OfSameTick(h, o.tick))
  <2>1. IsObs(o) /\ (IsOfNode(o) \/ IsTimerObs(o))
    BY DEF Opens, IsNodeObs, IsObs
  <2>2. ASSUME ~ IsOfNode(o) PROVE \E t \in Nat : t > h.lastCompleted /\ o = OfTick(h, t)
    BY <2>2 DEF Opens, IsNodeObs
  <2>. QED
    BY <2>1, <2>2, OfTickFacts
<1>8. \A p \in DOMAIN g.subs : IsSubs(g, p)
  <2>. SUFFICES ASSUME NEW p \in DOMAIN g.subs PROVE IsSubs(g, p)
    OBVIOUS
  <2>0. \A x : (IsEntry(g, x) <=> IsEntry(h, x)) /\ Target(g, x) = Target(h, x)
    BY <1>4 DEF IsEntry, Target
  <2>1. CASE p # o
    <3>1. IsSubs(h, p) /\ g.subs[p] = h.subs[p]
      BY <1>5, <2>1 DEF Sound
    <3>. QED
      BY <2>0, <3>1 DEF IsSubs
  <2>2. CASE p = o
    <3>1. \A i \in 1 .. Len(q) : IsEntry(g, q[i]) /\ Target(g, q[i]) = o
      <4>. SUFFICES ASSUME NEW i \in 1 .. Len(q) PROVE IsEntry(g, q[i]) /\ Target(g, q[i]) = o
        OBVIOUS
      <4>1. Among(q, q[i])
        BY DEF Among
      <4>. QED
        BY <1>1, <1>3, <2>0, <4>1
    <3>. QED
      BY <1>3, <1>5, <1>7, <2>2, <3>1 DEF IsSubs, AllOnce
  <2>. QED
    BY <2>1, <2>2
<1>9. IsNumbered(g) /\ \A t \in Nat : o \in DOMAIN h.subs \/ IsOfNode(o) \/ t # o.tick =>
                           OfSameTick(g, t) = OfSameTick(h, t)
  <2>1. \A t \in Nat : o \in DOMAIN h.subs \/ IsOfNode(o) \/ t # o.tick => OfSameTick(g, t) = OfSameTick(h, t)
    BY <1>5 DEF OfSameTick, IsOfNode
  <2>2. IsFiniteSet(DOMAIN g.subs)
    <3>1. IsFiniteSet(DOMAIN h.subs)
      BY DEF Sound, IsNumbered
    <3>2. DOMAIN g.subs = DOMAIN h.subs \cup {o}
      BY <1>5
    <3>. QED
      BY <3>1, <3>2, FS_AddElement
  <2>3. ASSUME ~ IsOfNode(o), o \notin DOMAIN h.subs
        PROVE  /\ Cardinality(OfSameTick(g, o.tick)) = Cardinality(OfSameTick(h, o.tick)) + 1
               /\ Cardinality(OfSameTick(h, o.tick)) \in Nat
               /\ o.number = 1 + Cardinality(OfSameTick(h, o.tick))
    <3>1. o \notin OfSameTick(h, o.tick) /\ o.phase = "tick"
      BY <1>7, <2>3 DEF OfSameTick, IsTimerObs, OfTimer
    <3>2. OfSameTick(g, o.tick) = OfSameTick(h, o.tick) \cup {o}
      BY <1>5, <3>1 DEF OfSameTick
    <3>3. IsFiniteSet(OfSameTick(h, o.tick)) /\ Cardinality(OfSameTick(h, o.tick)) \in Nat
      BY <1>7, <2>3, OfTickFacts
    <3>. QED
      <4>1. Cardinality(OfSameTick(h, o.tick) \cup {o}) = Cardinality(OfSameTick(h, o.tick)) + 1
        BY ONLY <3>1, <3>3, FS_AddElement
      <4>2. o.number = 1 + Cardinality(OfSameTick(h, o.tick))
        BY <1>7, <2>3, OfTickFacts
      <4>. QED
        BY ONLY <3>2, <3>3, <4>1, <4>2
  <2>4. ASSUME NEW p \in DOMAIN g.subs, IsTimerObs(p)
        PROVE  p.number \in 1 .. Cardinality(OfSameTick(g, p.tick))
    <3>1. p.tick \in Nat
      <4>1. IsObs(p)
        BY <1>8 DEF IsSubs
      <4>. QED
        BY <4>1 DEF IsObs, Obs
    <3>2. p.phase = "tick"
      BY <2>4 DEF IsTimerObs, OfTimer
    <3>3. p \in DOMAIN h.subs => p.number \in 1 .. Cardinality(OfSameTick(h, p.tick))
      BY <2>4 DEF Sound, IsNumbered
    <3>4. CASE o \in DOMAIN h.subs \/ IsOfNode(o) \/ p.tick # o.tick
      <4>1. p \in DOMAIN h.subs
        BY <1>5, <3>2, <3>4 DEF IsOfNode
      <4>. QED
        BY <2>1, <3>1, <3>3, <3>4, <4>1
    <3>5. CASE ~ (o \in DOMAIN h.subs \/ IsOfNode(o) \/ p.tick # o.tick)
      BY <1>5, <2>3, <3>3, <3>5
    <3>. QED
      BY <3>4, <3>5
  <2>. QED
    BY <2>1, <2>2, <2>4 DEF IsNumbered
<1>10. IsScheduled(g)
  <2>1. ASSUME NEW t \in DOMAIN g.cb
        PROVE  t \in Nat /\ t > g.lastCompleted /\ OfTimer(t, g.cb[t]) \in DOMAIN g.subs
    <3>1. CASE t \in DOMAIN h.cb /\ g.cb[t] = h.cb[t]
      BY <3>1, <1>4, <1>5 DEF Sound, IsScheduled
    <3>2. CASE ~ IsOfNode(o) /\ t = o.tick
      <4>1. OfTimer(t, g.cb[t]) = o
        BY <1>6, <1>7, <3>2 DEF IsTimerObs
      <4>. QED
        BY <4>1, <1>4, <1>5, <1>7, <3>2
    <3>. QED
      BY <1>6, <3>1, <3>2
  <2>2. ASSUME NEW p \in DOMAIN g.subs, IsTimerObs(p), p.tick > g.lastCompleted, g.subs[p] # <<>>
        PROVE  p.tick \in DOMAIN g.cb /\ g.cb[p.tick] = p.number
    <3>0. p.phase = "tick"
      BY <2>2 DEF IsTimerObs, OfTimer
    <3>1. CASE p = o
      BY <1>6, <3>0, <3>1 DEF IsOfNode
    <3>2. CASE p # o
      <4>1. p.tick \in DOMAIN h.cb /\ h.cb[p.tick] = p.number
        BY <2>2, <3>2, <1>4, <1>5 DEF Sound, IsScheduled
      <4>2. ~ IsOfNode(o) /\ p.tick = o.tick => o.number = p.number
        BY <4>1, <1>7
      <4>. QED
        BY <4>1, <4>2, <1>6
    <3>. QED
      BY <3>1, <3>2
  <2>. QED
    BY <2>1, <2>2 DEF IsScheduled
<1>11. Sound(g)
  BY <1>4, <1>5, <1>6, <1>8, <1>9, <1>10 DEF Sound, IsObjects
<1>12. ASSUME NEW p, NEW x PROVE HasSub(g, p, x) <=> HasSub(h, p, x) \/ (p = o /\ x = e)
  <2>1. HasSub(g, p, x) <=> p \in DOMAIN g.subs /\ Among(g.subs[p], x)
    BY <1>11, HasSubFacts
  <2>2. HasSub(h, p, x) <=> p \in DOMAIN h.subs /\ Among(h.subs[p], x)
    BY HasSubFacts
  <2>3. CASE p = o
    BY <1>1, <1>3, <1>5, <2>1, <2>3
  <2>4. CASE p # o
    BY <1>5, <2>1, <2>2, <2>4
  <2>. QED
    BY <2>3, <2>4
<1>13. KeepsTick(h, g)
  BY <1>6, <1>7 DEF KeepsTick
<1>14. ASSUME NEW t \in Nat, t > h.lastCompleted PROVE OfTick(g, t) = OfTick(h, t)
  <2>1. OfTick(g, t) = OfTimer(t, IF t \in DOMAIN g.cb THEN g.cb[t] ELSE 1 + Cardinality(OfSameTick(g, t)))
    BY DEF OfTick, OfSameTick
  <2>2. OfTick(h, t) = OfTimer(t, IF t \in DOMAIN h.cb THEN h.cb[t] ELSE 1 + Cardinality(OfSameTick(h, t)))
    BY DEF OfTick, OfSameTick
  <2>3. CASE IsOfNode(o) \/ t # o.tick
    BY <1>6, <1>9, <2>1, <2>2, <2>3
  <2>4. CASE ~ IsOfNode(o) /\ t = o.tick
    BY <1>6, <1>7, <2>1, <2>4 DEF IsTimerObs
  <2>. QED
    BY <2>3, <2>4
<1>. QED
  BY <1>4, <1>11, <1>12, <1>13, <1>14 DEF IsAddition

-----------------------------------------------------------------------------
(* Nodes.                                                                  *)

(* Those that are deleted do not matter.                                   *)
LEMMA NodesTypedDepends ==
    ASSUME NEW h, NodesTyped(h), NEW g, g.nodes \subseteq h.nodes, g.kept = h.kept
    PROVE  NodesTyped(g)
  BY DEF NodesTyped

(* A canceller leaves nodes as they were, or deletes some.                 *)
LEMMA RemoveSubTyped ==
    ASSUME NEW h, Sound(h), NodesTyped(h), NEW o, NEW e, NEW g, g = RemoveSub(h, o, e)
    PROVE  NodesTyped(g)
<1>1. CASE ~ HasSub(h, o, e)
  BY <1>1 DEF RemoveSub
<1>2. CASE HasSub(h, o, e)
  <2>1. PICK k : k = [h EXCEPT !.subs[o] = RemoveFirst(@, e)]
    OBVIOUS
  <2>2. IsObjects(k) /\ k.nodes = h.nodes /\ k.kept = h.kept
    BY <1>2, <2>1, WithoutSub
  <2>3. g = IF IsOfNode(o) THEN MaybeClean(k, o.path)
            ELSE IF OfTick(k, o.tick) = o THEN DeleteIfEmpty(k, o) ELSE k
    BY <1>2, <2>1 DEF RemoveSub, Unsubscribed
  <2>4. g.nodes \subseteq k.nodes /\ g.kept = k.kept
    BY <2>2, <2>3 DEF MaybeClean, DeleteIfEmpty, IsObjects
  <2>. QED
    BY <2>2, <2>4, NodesTypedDepends
<1>. QED
  BY <1>1, <1>2

(* Whoever subscribes makes none.                                          *)
LEMMA AddSubTyped ==
    ASSUME NEW h, Sound(h), NodesTyped(h), NEW o, NEW e, NEW g, g = AddSub(h, o, e)
    PROVE  NodesTyped(g)
<1>1. g.nodes = h.nodes /\ g.kept = h.kept
  BY DEF AddSub, Sound
<1>. QED
  BY <1>1, NodesTypedDepends

-----------------------------------------------------------------------------
(* Registrations.                                                          *)
IsRegistration(h, g, kind, on, backup) ==
    LET r == Len(h.regs) + 1 IN
    /\ Len(g.regs) = r /\ g.regs[r] = [kind |-> kind, on |-> on, backup |-> backup]
    /\ \A i \in 1 .. Len(h.regs) : g.regs[i] = h.regs[i]
    /\ g.monitor = h.monitor /\ g.lastCompleted = h.lastCompleted /\ g.publishing = h.publishing
    /\ \A p, x : HasSub(g, p, x) <=>
          \/ HasSub(h, p, x)
          \/ p = on /\ x = Entry(r, "primary")
          \/ backup # Nowhere /\ p = backup /\ x = Entry(r, "backup")
    /\ KeepsTick(h, g)

(* What can be registered.                                                 *)
CanRegister(h, kind, on, backup) ==
    /\ kind \in AllKinds /\ Opens(h, on)
    /\ IF kind \in {"backup", "recover"} THEN Opens(h, backup) /\ IsTimerObs(backup)
       ELSE backup = Nowhere
    /\ kind = "monitor" => IsTimerObs(on)

(* A registration has the next number, and adds what is subscribed.        *)
LEMMA RegisterFacts ==
    ASSUME NEW h, Sound(h), NodesTyped(h), NEW kind, NEW on, NEW backup,
           CanRegister(h, kind, on, backup), NEW g, g = Register(h, kind, on, backup)
    PROVE  Sound(g) /\ NodesTyped(g) /\ IsRegistration(h, g, kind, on, backup)
<1>. DEFINE r == Len(h.regs) + 1
            reg == [kind |-> kind, on |-> on, backup |-> backup]
<1>0. Len(h.regs) \in Nat /\ h.regs \in Seq(Regs)
  BY DEF Sound
<1>1. PICK k : k = [h EXCEPT !.regs = Append(@, reg)]
  OBVIOUS
<1>2. PICK l : l = IF backup = Nowhere THEN k ELSE AddSub(k, backup, Entry(r, "backup"))
  OBVIOUS
<1>3. g = AddSub(l, on, Entry(r, "primary"))
  BY <1>1, <1>2 DEF Register
<1>4. reg \in Regs /\ IsReg(reg)
  <2>1. IsObs(on) /\ on \in Obs
    BY DEF CanRegister, Opens, IsObs
  <2>2. Nowhere \in Obs
    <3>1. <<>> \in Paths
      BY DEF Paths
    <3>. QED
      BY <3>1 DEF Nowhere, Obs
  <2>3. backup \in Obs
    BY <2>2 DEF CanRegister, Opens, IsObs
  <2>. QED
    BY <2>1, <2>3 DEF Regs, IsReg, CanRegister, HasBackup, AllKinds
<1>5. /\ IsObjects(k) /\ k.subs = h.subs /\ k.cb = h.cb /\ k.nodes = h.nodes /\ k.kept = h.kept
      /\ k.monitor = h.monitor /\ k.lastCompleted = h.lastCompleted /\ k.publishing = h.publishing
      /\ k.regs \in Seq(Regs) /\ Len(k.regs) = r /\ k.regs[r] = reg
      /\ \A i \in 1 .. Len(h.regs) : k.regs[i] = h.regs[i]
  <2>1. k.regs = Append(h.regs, reg)
    BY <1>1 DEF Sound
  <2>2. k.regs \in Seq(Regs) /\ Len(k.regs) = r /\ k.regs[r] = reg
        /\ \A i \in 1 .. Len(h.regs) : k.regs[i] = h.regs[i]
    BY <1>0, <1>4, <2>1
  <2>. QED
    BY <1>1, <2>2 DEF Sound, IsObjects
<1>6. \A x : IsEntry(h, x) => IsEntry(k, x) /\ Target(k, x) = Target(h, x)
  BY <1>0, <1>5 DEF IsEntry, Target
<1>7. Sound(k) /\ SameSubs(h, k)
  <2>1. \A o \in DOMAIN k.subs : IsSubs(k, o)
    BY <1>5, <1>6 DEF Sound, IsSubs
  <2>2. IsNumbered(k) /\ IsScheduled(k)
    BY <1>5 DEF Sound, IsNumbered, IsScheduled, OfSameTick
  <2>3. \A i \in 1 .. Len(k.regs) : IsReg(k.regs[i])
    BY <1>0, <1>4, <1>5 DEF Sound
  <2>. QED
    BY <1>5, <2>1, <2>2, <2>3 DEF Sound, IsObjects, SameSubs, HasSub, Subs
<1>8. NodesTyped(k)
  BY <1>5, NodesTypedDepends
<1>9. \A o, role : ~ HasSub(k, o, Entry(r, role))
  <2>. SUFFICES ASSUME NEW o, NEW role, HasSub(h, o, Entry(r, role)) PROVE FALSE
    BY <1>7 DEF SameSubs
  <2>1. IsEntry(h, Entry(r, role))
    BY HasSubFacts
  <2>. QED
    BY <1>0, <2>1 DEF IsEntry, Entry
<1>10. \A t : OfTick(k, t) = OfTick(h, t)
  BY <1>5 DEF OfTick
<1>11. Opens(k, on) /\ (backup # Nowhere => Opens(k, backup))
  BY <1>5, <1>10 DEF CanRegister, Opens
<1>12. /\ IsEntry(k, Entry(r, "primary")) /\ Target(k, Entry(r, "primary")) = on
       /\ backup # Nowhere => IsEntry(k, Entry(r, "backup")) /\ Target(k, Entry(r, "backup")) = backup
  BY <1>0, <1>5 DEF IsEntry, Target, Entry, Entries, CanRegister, HasBackup
<1>13. /\ Sound(l) /\ NodesTyped(l) /\ l.regs = k.regs /\ l.monitor = k.monitor
       /\ l.lastCompleted = k.lastCompleted /\ l.publishing = k.publishing
       /\ \A p, x : HasSub(l, p, x) <=> HasSub(k, p, x) \/ (backup # Nowhere /\ p = backup /\ x = Entry(r, "backup"))
       /\ KeepsTick(k, l) /\ \A t \in Nat : t > k.lastCompleted => OfTick(l, t) = OfTick(k, t)
  <2>1. CASE backup = Nowhere
    BY <1>2, <1>7, <1>8, <2>1 DEF KeepsTick
  <2>2. CASE backup # Nowhere
    <3>1. l = AddSub(k, backup, Entry(r, "backup"))
      BY <1>2, <2>2
    <3>2. Sound(l) /\ IsAddition(k, l, backup, Entry(r, "backup"))
      BY <1>7, <1>9, <1>11, <1>12, <2>2, <3>1, AddSubSound
    <3>3. NodesTyped(l)
      BY <1>7, <1>8, <1>9, <1>11, <1>12, <2>2, <3>1, AddSubTyped
    <3>. QED
      BY <2>2, <3>2, <3>3 DEF IsAddition
  <2>. QED
    BY <2>1, <2>2
<1>14. IsEntry(l, Entry(r, "primary")) /\ Target(l, Entry(r, "primary")) = on
  BY <1>12, <1>13 DEF IsEntry, Target
<1>15. Opens(l, on)
  BY <1>11, <1>13 DEF Opens
<1>16. ~ HasSub(l, on, Entry(r, "primary"))
  BY <1>9, <1>13 DEF Entry
<1>17. Sound(g) /\ IsAddition(l, g, on, Entry(r, "primary"))
  BY <1>3, <1>13, <1>14, <1>15, <1>16, AddSubSound
<1>18. NodesTyped(g)
  BY <1>3, <1>13, <1>14, <1>15, <1>16, AddSubTyped
<1>19. KeepsTick(h, g)
  BY <1>5, <1>13, <1>17 DEF IsAddition, KeepsTick, Now
<1>20. \A p, x : HasSub(g, p, x) <=>
          \/ HasSub(h, p, x)
          \/ p = on /\ x = Entry(r, "primary")
          \/ backup # Nowhere /\ p = backup /\ x = Entry(r, "backup")
  BY <1>7, <1>13, <1>17 DEF IsAddition, SameSubs
<1>. QED
  BY <1>5, <1>13, <1>17, <1>18, <1>19, <1>20 DEF IsRegistration, IsAddition

-----------------------------------------------------------------------------
(* What takes entries away, and what it leaves.                            *)
Takes(h, g, E) ==
    /\ Sound(g) /\ NodesTyped(g)
    /\ g.regs = h.regs /\ g.monitor = h.monitor
    /\ g.lastCompleted = h.lastCompleted /\ g.publishing = h.publishing
    /\ \A p, x : HasSub(g, p, x) <=> HasSub(h, p, x) /\ x \notin E
    /\ KeepsTick(h, g)

(* An entry is subscribed where its registration says.                     *)
LEMMA WhereItIs ==
    ASSUME NEW h, Sound(h), NEW r \in 1 .. Len(h.regs)
    PROVE  /\ \A p : HasSub(h, p, Entry(r, "primary")) => p = h.regs[r].on
           /\ \A p : HasSub(h, p, Entry(r, "backup")) => p = h.regs[r].backup /\ HasBackup(h.regs[r])
           /\ IsReg(h.regs[r]) /\ h.regs[r] \in Regs
           /\ HasBackup(h.regs[r]) <=> h.regs[r].backup # Nowhere
<1>1. IsReg(h.regs[r]) /\ h.regs[r] \in Regs
  BY DEF Sound
<1>2. ASSUME NEW p, HasSub(h, p, Entry(r, "primary")) PROVE p = h.regs[r].on
  <2>1. Target(h, Entry(r, "primary")) = p
    BY <1>2, HasSubFacts
  <2>. QED
    BY <2>1 DEF Target, Entry
<1>3. ASSUME NEW p, HasSub(h, p, Entry(r, "backup")) PROVE p = h.regs[r].backup /\ HasBackup(h.regs[r])
  <2>1. Target(h, Entry(r, "backup")) = p /\ IsEntry(h, Entry(r, "backup"))
    BY <1>3, HasSubFacts
  <2>. QED
    BY <2>1 DEF Target, IsEntry, Entry
<1>4. HasBackup(h.regs[r]) <=> h.regs[r].backup # Nowhere
  BY <1>1 DEF IsReg, IsTimerObs, OfTimer, Nowhere
<1>. QED
  BY <1>1, <1>2, <1>3, <1>4

(* The subscriber's canceller takes out its entry.                         *)
LEMMA RemovePrimaryFacts ==
    ASSUME NEW h, Sound(h), NodesTyped(h), NEW r \in 1 .. Len(h.regs), NEW g, g = RemovePrimary(h, r)
    PROVE  Takes(h, g, {Entry(r, "primary")})
<1>1. g = RemoveSub(h, h.regs[r].on, Entry(r, "primary"))
  BY DEF RemovePrimary
<1>2. Sound(g) /\ IsRemoval(h, g, h.regs[r].on, Entry(r, "primary")) /\ NodesTyped(g)
  BY <1>1, RemoveSubSound, RemoveSubTyped
<1>3. ASSUME NEW p, NEW x PROVE HasSub(g, p, x) <=> HasSub(h, p, x) /\ x \notin {Entry(r, "primary")}
  BY <1>2, WhereItIs DEF IsRemoval
<1>. QED
  BY <1>2, <1>3 DEF IsRemoval, Takes

(* The backup's canceller takes out its entry, if there is a backup.       *)
LEMMA RemoveBackupFacts ==
    ASSUME NEW h, Sound(h), NodesTyped(h), NEW r \in 1 .. Len(h.regs), NEW g, g = RemoveBackup(h, r)
    PROVE  Takes(h, g, {Entry(r, "backup")})
<1>1. CASE h.regs[r].backup = Nowhere
  <2>1. g = h /\ \A p : ~ HasSub(h, p, Entry(r, "backup"))
    BY <1>1, WhereItIs DEF RemoveBackup
  <2>. QED
    BY <2>1 DEF Takes, KeepsTick
<1>2. CASE h.regs[r].backup # Nowhere
  <2>1. g = RemoveSub(h, h.regs[r].backup, Entry(r, "backup"))
    BY <1>2 DEF RemoveBackup
  <2>2. Sound(g) /\ IsRemoval(h, g, h.regs[r].backup, Entry(r, "backup")) /\ NodesTyped(g)
    BY <2>1, RemoveSubSound, RemoveSubTyped
  <2>3. ASSUME NEW p, NEW x PROVE HasSub(g, p, x) <=> HasSub(h, p, x) /\ x \notin {Entry(r, "backup")}
    BY <2>2, WhereItIs DEF IsRemoval
  <2>. QED
    BY <2>2, <2>3 DEF IsRemoval, Takes
<1>. QED
  BY <1>1, <1>2

(* A canceller takes out the primary and the backup.                       *)
LEMMA CancelFacts ==
    ASSUME NEW h, Sound(h), NodesTyped(h), NEW r \in 1 .. Len(h.regs), NEW g, g = CancelReg(h, r)
    PROVE  Takes(h, g, {Entry(r, "primary"), Entry(r, "backup")})
<1>1. PICK k : k = RemoveBackup(h, r)
  OBVIOUS
<1>2. Takes(h, k, {Entry(r, "backup")})
  BY <1>1, RemoveBackupFacts
<1>3. g = RemovePrimary(k, r)
  BY <1>1 DEF CancelReg
<1>4. Takes(k, g, {Entry(r, "primary")})
  BY <1>2, <1>3, RemovePrimaryFacts DEF Takes
<1>. QED
  BY <1>2, <1>4 DEF Takes, KeepsTick, Now

(* What is taken out before a call.                                        *)
Dropped(h, e) ==
    IF e.role = "primary" /\ HasBackup(h.regs[e.reg]) THEN {Entry(e.reg, "backup")}
    ELSE IF h.regs[e.reg].kind \in {"once", "backup"} THEN {Entry(e.reg, "primary")} ELSE {}

(* The wrappers of once and withBackup take it out, and nothing else.      *)
LEMMA BeforeCallFacts ==
    ASSUME NEW h, Sound(h), NodesTyped(h), NEW e, IsEntry(h, e), NEW g, g = BeforeCall(h, e)
    PROVE  Takes(h, g, Dropped(h, e))
<1>1. e.reg \in 1 .. Len(h.regs)
  BY DEF IsEntry
<1>2. CASE e.role = "primary" /\ HasBackup(h.regs[e.reg])
  <2>1. g = RemoveBackup(h, e.reg)
    BY <1>2 DEF BeforeCall, HasBackup
  <2>. QED
    BY <1>1, <1>2, <2>1, RemoveBackupFacts DEF Dropped
<1>3. CASE ~ (e.role = "primary" /\ HasBackup(h.regs[e.reg])) /\ h.regs[e.reg].kind \in {"once", "backup"}
  <2>1. g = RemovePrimary(h, e.reg)
    BY <1>3 DEF BeforeCall, HasBackup
  <2>2. Dropped(h, e) = {Entry(e.reg, "primary")}
    BY <1>3 DEF Dropped
  <2>. QED
    BY <1>1, <2>1, <2>2, RemovePrimaryFacts
<1>4. CASE ~ (e.role = "primary" /\ HasBackup(h.regs[e.reg])) /\ h.regs[e.reg].kind \notin {"once", "backup"}
  <2>1. g = h /\ Dropped(h, e) = {}
    BY <1>4 DEF BeforeCall, HasBackup, Dropped
  <2>. QED
    BY <2>1 DEF Takes, KeepsTick
<1>. QED
  BY <1>2, <1>3, <1>4

-----------------------------------------------------------------------------
(* What all those who are in control do to the objects: they take entries  *)
(* away, and add registrations for later.                                  *)
Evolves(h, g) ==
    /\ Sound(g) /\ NodesTyped(g)
    /\ g.lastCompleted = h.lastCompleted /\ g.publishing = h.publishing
    /\ Len(h.regs) <= Len(g.regs) /\ \A r \in 1 .. Len(h.regs) : g.regs[r] = h.regs[r]
    /\ \A p, x : HasSub(g, p, x) =>
          \/ HasSub(h, p, x)
          \/ x.reg > Len(h.regs) /\ (IsOfNode(p) \/ p.tick > h.lastCompleted)
    /\ KeepsTick(h, g)

(* Cancelling is one of those things.                                      *)
LEMMA TakesEvolves ==
    ASSUME NEW h, Sound(h), NEW g, NEW E, Takes(h, g, E)
    PROVE  Evolves(h, g)
<1>1. Len(h.regs) \in Nat
  BY DEF Sound
<1>. QED
  BY <1>1 DEF Takes, Evolves

(* Subscribing is another.                                                 *)
LEMMA RegisterEvolves ==
    ASSUME NEW h, Sound(h), NEW g, Sound(g), NodesTyped(g), NEW kind, NEW on, NEW backup,
           CanRegister(h, kind, on, backup), IsRegistration(h, g, kind, on, backup)
    PROVE  Evolves(h, g)
<1>1. Len(h.regs) \in Nat /\ h.lastCompleted \in Nat
  BY DEF Sound
<1>2. IsOfNode(on) \/ on.tick > h.lastCompleted
  <2>1. Opens(h, on)
    BY DEF CanRegister
  <2>2. ASSUME NEW t \in Nat, t > h.lastCompleted, on = OfTick(h, t)
        PROVE  on.tick > h.lastCompleted
    BY <2>2, OfTickFacts
  <2>. QED
    BY ONLY <2>1, <2>2 DEF Opens, IsNodeObs
<1>3. backup # Nowhere => IsOfNode(backup) \/ backup.tick > h.lastCompleted
  <2>. SUFFICES ASSUME backup # Nowhere PROVE IsOfNode(backup) \/ backup.tick > h.lastCompleted
    OBVIOUS
  <2>1. Opens(h, backup)
    BY DEF CanRegister
  <2>2. CASE IsNodeObs(backup)
    BY <2>2 DEF IsNodeObs
  <2>3. ASSUME NEW t \in Nat, t > h.lastCompleted, backup = OfTick(h, t)
        PROVE  backup.tick > h.lastCompleted
    BY <2>3, OfTickFacts
  <2>. QED
    BY <2>1, <2>2, <2>3 DEF Opens
<1>4. ASSUME NEW p, NEW x, HasSub(g, p, x), ~ HasSub(h, p, x)
      PROVE  x.reg > Len(h.regs) /\ (IsOfNode(p) \/ p.tick > h.lastCompleted)
  <2>1. x.reg = Len(h.regs) + 1 /\ (p = on \/ (backup # Nowhere /\ p = backup))
    BY <1>4 DEF IsRegistration, Entry
  <2>. QED
    BY <1>1, <1>2, <1>3, <2>1
<1>. QED
  BY <1>1, <1>4 DEF IsRegistration, Evolves

(* And so are several of them after each other.                            *)
LEMMA EvolvesTransitive ==
    ASSUME NEW h, Sound(h), NEW k, Evolves(h, k), NEW g, Evolves(k, g)
    PROVE  Evolves(h, g)
<1>1. Len(h.regs) \in Nat /\ Len(k.regs) \in Nat /\ Len(g.regs) \in Nat
  BY DEF Evolves, Sound
<1>2. \A r \in 1 .. Len(h.regs) : g.regs[r] = h.regs[r]
  BY <1>1 DEF Evolves
<1>3. ASSUME NEW p, NEW x, HasSub(g, p, x), ~ HasSub(h, p, x)
      PROVE  x.reg > Len(h.regs) /\ (IsOfNode(p) \/ p.tick > h.lastCompleted)
  <2>1. x.reg \in Nat
    <3>1. IsEntry(g, x)
      BY <1>3, HasSubFacts DEF Evolves
    <3>. QED
      BY <3>1 DEF IsEntry, Entries
  <2>. QED
    BY <1>1, <1>3, <2>1 DEF Evolves
<1>. QED
  BY <1>1, <1>2, <1>3 DEF Evolves, KeepsTick, Now

(* It undoes nothing of what was obeyed.                                   *)
LEMMA EvolvesObeys ==
    ASSUME NEW h, Sound(h), NEW g, Evolves(h, g), NEW c, NEW cancelled, NEW saidTrue,
           Obeyed(h, c, cancelled, saidTrue)
    PROVE  Obeyed(g, c, cancelled, saidTrue)
<1>1. Len(h.regs) \in Nat /\ Len(g.regs) \in Nat /\ Sound(g)
  BY DEF Evolves, Sound
<1>2. ASSUME NEW r \in 1 .. Len(h.regs)
      PROVE  /\ r \in 1 .. Len(g.regs) /\ g.regs[r] = h.regs[r]
             /\ Primary(g, r) => Primary(h, r)
             /\ Backup(g, r) => Backup(h, r)
  <2>1. r \in 1 .. Len(g.regs) /\ g.regs[r] = h.regs[r]
    BY <1>1 DEF Evolves
  <2>2. \A p, role : HasSub(g, p, Entry(r, role)) => HasSub(h, p, Entry(r, role))
    BY <1>1 DEF Evolves, Entry
  <2>. QED
    BY <2>1, <2>2 DEF Primary, Backup
<1>3. \A i \in 1 .. Len(c) : IsEntry(g, c[i]) /\ c[i].reg \in 1 .. Len(h.regs)
  BY <1>2 DEF Obeyed, IsEntry
<1>4. ASSUME NEW r \in 1 .. Len(g.regs), NEW role, Called(c, Entry(r, role)) PROVE r \in 1 .. Len(h.regs)
  BY <1>3, <1>4 DEF Called, Entry
<1>5. \A r \in 1 .. Len(g.regs) :
          /\ g.regs[r].kind = "once" /\ Called(c, Entry(r, "primary")) => ~ Primary(g, r)
          /\ HasBackup(g.regs[r]) /\ Called(c, Entry(r, "primary")) => ~ Backup(g, r)
          /\ g.regs[r].kind = "backup" /\ Called(c, Entry(r, "backup")) => ~ Primary(g, r)
  BY <1>2, <1>4 DEF Obeyed
<1>6. ASSUME NEW o \in DOMAIN g.subs, IsTimerObs(o), o.tick <= g.lastCompleted,
             NEW i \in 1 .. Len(g.subs[o])
      PROVE  Called(c, g.subs[o][i])
  <2>1. PICK x : x = g.subs[o][i]
    OBVIOUS
  <2>2. HasSub(g, o, x)
    <3>1. Among(g.subs[o], x)
      BY <2>1 DEF Among
    <3>. QED
      BY <1>1, <3>1, SubsFacts
  <2>3. ~ IsOfNode(o) /\ ~ (o.tick > h.lastCompleted)
    <3>0. o \in Obs
      BY <1>1, SubsFacts DEF IsObs
    <3>1. o.tick \in Nat /\ h.lastCompleted \in Nat /\ g.lastCompleted = h.lastCompleted
      BY <1>1, <3>0 DEF Obs, Sound, Evolves
    <3>. QED
      BY <1>6, <3>1 DEF IsTimerObs, OfTimer, IsOfNode
  <2>4. HasSub(h, o, x)
    BY <2>2, <2>3 DEF Evolves
  <2>5. o \in DOMAIN h.subs /\ Among(h.subs[o], x)
    BY <2>4, HasSubFacts
  <2>. QED
    BY <1>6, <2>1, <2>5 DEF Obeyed, Evolves, Among
<1>7. cancelled \subseteq 1 .. Len(g.regs) /\ saidTrue \subseteq 1 .. Len(g.regs)
  BY <1>1 DEF Obeyed, Evolves
<1>8. \A r \in cancelled : ~ Primary(g, r) /\ ~ Backup(g, r)
  BY <1>2 DEF Obeyed
<1>9. \A r \in saidTrue : g.regs[r].kind = "untilTrue" => ~ Primary(g, r)
  BY <1>2 DEF Obeyed
<1>10. \A i, j \in 1 .. Len(c) :
          i < j /\ c[i].reg = c[j].reg /\ c[i].role # c[j].role =>
              g.regs[c[i].reg].kind = "recover" /\ c[i].role = "backup"
  BY <1>2, <1>3 DEF Obeyed
<1>. QED
  BY <1>3, <1>5, <1>6, <1>7, <1>8, <1>9, <1>10 DEF Obeyed

(* The loops in progress remain where they are.                            *)
LEMMA EvolvesFrames ==
    ASSUME NEW h, Sound(h), NEW g, Evolves(h, g)
    PROVE  /\ \A f : IsFrame(f, h) => IsFrame(f, g)
           /\ \A e : IsEntry(h, e) => IsEntry(g, e) /\ Target(g, e) = Target(h, e)
                                        /\ g.regs[e.reg] = h.regs[e.reg]
<1>1. Len(h.regs) \in Nat /\ Len(g.regs) \in Nat
  BY DEF Evolves, Sound
<1>2. \A e : IsEntry(h, e) => IsEntry(g, e) /\ Target(g, e) = Target(h, e) /\ g.regs[e.reg] = h.regs[e.reg]
  BY <1>1 DEF Evolves, IsEntry, Target
<1>3. Now(g) = Now(h) /\ KeepsTick(h, g)
  BY DEF Evolves, Now
<1>4. ASSUME NEW f, IsFrame(f, h) PROVE IsFrame(f, g)
  BY <1>2, <1>3, <1>4 DEF IsFrame, KeepsTick
<1>. QED
  BY <1>2, <1>4

(* The loops go on with the changed objects as they did before.            *)
LEMMA EvolvesInProgress ==
    ASSUME NEW h, Sound(h), NEW g, Evolves(h, g), NEW s, NEW c,
           InProgress(h, s, c), \A i \in 1 .. Len(c) : IsEntry(h, c[i])
    PROVE  InProgress(g, s, c)
<1>1. FramesFit(g, s)
  BY EvolvesFrames DEF InProgress, FramesFit
<1>2. \A e : Called(c, e) => Target(g, e) = Target(h, e)
  BY EvolvesFrames DEF Called
<1>3. CallsFit(g, s, c)
  <2>1. \A i \in 1 .. Len(c) : Target(g, c[i]) = Target(h, c[i])
    BY EvolvesFrames
  <2>2. \A e \in TickOf(s) : Called(c, e) /\ Target(h, e) = s[1].on
    BY DEF InProgress, CallsFit
  <2>3. \A e \in TickOf(s) : Called(c, e) /\ Target(g, e) = s[1].on
    BY <1>2, <2>2
  <2>. QED
    BY <2>1, <2>3 DEF InProgress, CallsFit, Evolves
<1>. QED
  BY <1>1, <1>3 DEF InProgress

-----------------------------------------------------------------------------
(* The stack.                                                              *)
LEMMA FrontFacts ==
    ASSUME NEW S, NEW s \in Seq(S), s # <<>>, NEW q, q = Front(s)
    PROVE  /\ Len(s) \in Nat \ {0} /\ Last(s) = s[Len(s)] /\ Last(s) \in S
           /\ q \in Seq(S) /\ Len(q) = Len(s) - 1 /\ \A i \in 1 .. Len(q) : q[i] = s[i]
<1>1. Len(s) \in Nat \ {0}
  OBVIOUS
<1>2. Last(s) = s[Len(s)] /\ Last(s) \in S
  BY <1>1 DEF Last
<1>3. q = SubSeq(s, 1, Len(s) - 1)
  BY DEF Front
<1>4. \A i \in 1 .. Len(s) - 1 : s[i] \in S
  BY <1>1
<1>5. Len(s) - 1 \in Int /\ (1 <= Len(s) - 1 \/ Len(s) - 1 = 0)
  <2>1. \A n \in Nat \ {0} : n - 1 \in Int /\ (1 <= n - 1 \/ n - 1 = 0)
    OBVIOUS
  <2>. QED
    BY <1>1, <2>1
<1>6. /\ q \in Seq(S) /\ Len(q) = IF 1 <= Len(s) - 1 THEN Len(s) - 1 - 1 + 1 ELSE 0
      /\ \A i \in 1 .. Len(s) - 1 - 1 + 1 : q[i] = s[1 + i - 1]
  BY <1>3, <1>4, <1>5, SubSeqProperties
<1>7. Len(q) = Len(s) - 1
  BY <1>1, <1>5, <1>6
<1>8. \A i \in 1 .. Len(q) : q[i] = s[i]
  <2>. SUFFICES ASSUME NEW i \in 1 .. Len(q) PROVE q[i] = s[i]
    OBVIOUS
  <2>1. i \in 1 .. Len(s) - 1 - 1 + 1 /\ 1 + i - 1 = i
    BY <1>1, <1>7
  <2>. QED
    BY <1>6, <2>1
<1>. QED
  BY <1>1, <1>2, <1>6, <1>7, <1>8

(* A frame is put on top.                                                  *)
LEMMA PushFacts ==
    ASSUME NEW S, NEW s \in Seq(S), NEW f \in S, NEW q, q = Append(s, f)
    PROVE  /\ q \in Seq(S) /\ Len(q) = Len(s) + 1 /\ Len(s) \in Nat /\ q[Len(s) + 1] = f /\ q # <<>>
           /\ \A i \in 1 .. Len(s) : q[i] = s[i]
  OBVIOUS

-----------------------------------------------------------------------------
(* The monitor.                                                            *)
LEMMA AwaitedTakes ==
    ASSUME NEW h, Sound(h), NEW g, NEW E, Takes(h, g, E), NEW passed
    PROVE  Awaited(g, passed) = {r \in Awaited(h, passed) : Entry(r, "primary") \notin E}
  BY DEF Takes, Awaited, Primary

(* Subscribing adds the monitor's own registration, if it is one, to those *)
(* that the monitor waits for.                                             *)
LEMMA AwaitedRegister ==
    ASSUME NEW h, Sound(h), NEW g, NEW kind, NEW on, NEW backup, CanRegister(h, kind, on, backup),
           IsRegistration(h, g, kind, on, backup),
           NEW passed, \A e \in passed : e.reg \in 1 .. Len(h.regs)
    PROVE  Awaited(g, passed) =
              Awaited(h, passed) \cup (IF kind = "monitor" THEN {Len(h.regs) + 1} ELSE {})
<1>. DEFINE n == Len(h.regs) + 1
<1>1. Len(h.regs) \in Nat /\ Len(g.regs) = n /\ g.lastCompleted = h.lastCompleted /\ h.lastCompleted \in Nat
  BY DEF Sound, IsRegistration
<1>2. ASSUME NEW r \in 1 .. Len(h.regs) PROVE r \in Awaited(g, passed) <=> r \in Awaited(h, passed)
  <2>1. r \in 1 .. Len(g.regs) /\ g.regs[r] = h.regs[r]
    BY <1>1 DEF IsRegistration
  <2>2. Primary(g, r) <=> Primary(h, r)
    BY <1>1, <2>1 DEF IsRegistration, Primary, Entry
  <2>. QED
    BY <1>1, <2>1, <2>2 DEF Awaited
<1>3. n \in Awaited(g, passed) <=> kind = "monitor"
  <2>1. n \in 1 .. Len(g.regs) /\ g.regs[n].kind = kind /\ g.regs[n].on = on
    BY <1>1 DEF IsRegistration
  <2>2. Primary(g, n)
    BY <2>1 DEF IsRegistration, Primary
  <2>3. Entry(n, "primary") \notin passed
    BY <1>1 DEF Entry
  <2>4. kind = "monitor" => on.tick > h.lastCompleted
    <3>1. ASSUME NEW t \in Nat, t > h.lastCompleted, on = OfTick(h, t) PROVE on.tick > h.lastCompleted
      BY <3>1, OfTickFacts
    <3>2. kind = "monitor" => ~ IsNodeObs(on)
      BY DEF CanRegister, IsTimerObs, OfTimer, IsNodeObs, IsOfNode
    <3>. QED
      BY <3>1, <3>2 DEF CanRegister, Opens
  <2>. QED
    BY <1>1, <2>1, <2>2, <2>3, <2>4 DEF Awaited
<1>4. Awaited(g, passed) \subseteq 1 .. n /\ Awaited(h, passed) \subseteq 1 .. Len(h.regs)
  BY <1>1 DEF Awaited
<1>5. \A r \in 1 .. n : r \in 1 .. Len(h.regs) \/ r = n
  BY <1>1
<1>6. n \notin 1 .. Len(h.regs) /\ n \in 1 .. n
  BY <1>1
<1>. HIDE DEF n
<1>. QED
  BY <1>2, <1>3, <1>4, <1>5, <1>6 DEF n

(* The monitor's own record may change alone.                              *)
LEMMA MonitorDepends ==
    ASSUME NEW h, Sound(h), NodesTyped(h), NEW g, IsObjects(g), g.subs = h.subs, g.cb = h.cb,
           g.lastCompleted = h.lastCompleted, g.regs = h.regs,
           g.kept = h.kept, g.nodes = h.nodes, g.publishing = h.publishing
    PROVE  Evolves(h, g) /\ (\A passed : Awaited(g, passed) = Awaited(h, passed))
<1>1. Sound(g) /\ SameSubs(h, g)
  BY SoundDepends
<1>2. NodesTyped(g)
  BY NodesTypedDepends
<1>3. Len(h.regs) \in Nat
  BY DEF Sound
<1>4. \A passed : Awaited(g, passed) = Awaited(h, passed)
  BY <1>1 DEF Awaited, Primary, SameSubs
<1>. QED
  BY <1>1, <1>2, <1>3, <1>4 DEF Evolves, SameSubs, KeepsTick

(* pause takes the scheduled call away.                                    *)
LEMMA PauseFacts ==
    ASSUME NEW h, Sound(h), NodesTyped(h), IsMonitor(h), h.monitor.cancel # 0,
           NEW passed, Awaited(h, passed) \subseteq {h.monitor.cancel}, NEW g, g = MonitorPause(h)
    PROVE  /\ Evolves(h, g) /\ IsMonitor(g) /\ Awaited(g, passed) = {}
           /\ g.monitor = [h.monitor EXCEPT !.cancel = 0]
<1>0. h.monitor.cancel \in 1 .. Len(h.regs) /\ Len(h.regs) \in Nat
  BY DEF IsMonitor, Sound
<1>1. PICK k : k = CancelReg(h, h.monitor.cancel)
  OBVIOUS
<1>2. Takes(h, k, {Entry(h.monitor.cancel, "primary"), Entry(h.monitor.cancel, "backup")})
  BY <1>0, <1>1, CancelFacts
<1>3. Sound(k) /\ NodesTyped(k) /\ k.regs = h.regs /\ k.monitor = h.monitor /\ Evolves(h, k)
  BY <1>2, TakesEvolves DEF Takes
<1>4. Awaited(k, passed) = {}
  BY <1>2, AwaitedTakes
<1>5. g = [k EXCEPT !.monitor.cancel = 0]
  BY <1>1 DEF MonitorPause
<1>6. /\ IsObjects(g) /\ g.subs = k.subs /\ g.cb = k.cb /\ g.kept = k.kept /\ g.nodes = k.nodes /\ g.regs = k.regs
      /\ g.lastCompleted = k.lastCompleted /\ g.publishing = k.publishing
      /\ g.monitor = [k.monitor EXCEPT !.cancel = 0]
  BY <1>3, <1>5 DEF Sound, IsObjects
<1>7. Evolves(k, g) /\ Awaited(g, passed) = {}
  BY <1>3, <1>4, <1>6, MonitorDepends
<1>8. IsMonitor(g)
  BY <1>0, <1>3, <1>6 DEF IsMonitor
<1>. QED
  BY <1>3, <1>6, <1>7, <1>8, EvolvesTransitive

(* stop as well, if there is one.                                          *)
LEMMA StopFacts ==
    ASSUME NEW h, Sound(h), NodesTyped(h), IsMonitor(h),
           NEW passed, Awaited(h, passed) \subseteq {h.monitor.cancel} \ {0}, NEW g, g = MonitorStop(h)
    PROVE  Evolves(h, g) /\ \A inAction \in BOOLEAN : MonitorFits(g, passed, inAction)
<1>1. PICK k : k = IF h.monitor.cancel # 0 THEN MonitorPause(h) ELSE h
  OBVIOUS
<1>2. Evolves(h, k) /\ IsMonitor(k) /\ Awaited(k, passed) = {} /\ k.monitor.cancel = 0
  <2>1. CASE h.monitor.cancel # 0
    <3>1. k = MonitorPause(h) /\ Awaited(h, passed) \subseteq {h.monitor.cancel}
      BY <1>1, <2>1
    <3>2. Evolves(h, k) /\ IsMonitor(k) /\ Awaited(k, passed) = {} /\ k.monitor = [h.monitor EXCEPT !.cancel = 0]
      BY <2>1, <3>1, PauseFacts
    <3>. QED
      BY <3>2 DEF IsMonitor
  <2>2. CASE h.monitor.cancel = 0
    <3>1. k = h /\ Awaited(h, passed) = {} /\ Len(h.regs) \in Nat
      BY <1>1, <2>2 DEF Sound
    <3>. QED
      BY <2>2, <3>1 DEF Evolves, KeepsTick
  <2>. QED
    BY <2>1, <2>2
<1>3. g = [k EXCEPT !.monitor.intervals = <<>>, !.monitor.stopped = TRUE]
  BY <1>1 DEF MonitorStop
<1>4. /\ IsObjects(g) /\ g.subs = k.subs /\ g.cb = k.cb /\ g.kept = k.kept /\ g.nodes = k.nodes /\ g.regs = k.regs
      /\ g.lastCompleted = k.lastCompleted /\ g.publishing = k.publishing
      /\ g.monitor = [k.monitor EXCEPT !.intervals = <<>>, !.stopped = TRUE]
  BY <1>2, <1>3 DEF Evolves, Sound, IsObjects
<1>5. Evolves(k, g) /\ Awaited(g, passed) = {}
  BY <1>2, <1>4, MonitorDepends DEF Evolves
<1>6. IsMonitor(g) /\ g.monitor.cancel = 0 /\ g.monitor.stopped = TRUE
  <2>1. k.monitor \in [intervals : Seq(Nat), cancel : Nat, stopped : BOOLEAN] /\ Len(k.regs) \in Nat
    BY <1>2 DEF IsMonitor, Evolves, Sound
  <2>2. g.monitor = [intervals |-> <<>>, cancel |-> 0, stopped |-> TRUE]
    BY <1>2, <1>4, <2>1
  <2>3. <<>> \in Seq(Nat)
    OBVIOUS
  <2>4. g.monitor \in [intervals : Seq(Nat), cancel : Nat, stopped : BOOLEAN]
    BY <2>2, <2>3
  <2>6. g.regs = k.regs
    BY <1>4
  <2>7. 0 <= Len(g.regs)
    BY <2>1, <2>6
  <2>5. g.monitor.cancel = 0 /\ g.monitor.stopped = TRUE
    BY <2>2
  <2>. QED
    BY <2>4, <2>5, <2>7 DEF IsMonitor
<1>7. Evolves(h, g)
  BY <1>2, <1>5, EvolvesTransitive
<1>. QED
  BY <1>5, <1>6, <1>7 DEF MonitorFits

(* _next schedules a call, or stops.                                       *)
LEMMA NextFacts ==
    ASSUME NEW h, Sound(h), NodesTyped(h), IsMonitor(h), ~ h.monitor.stopped,
           NEW passed, \A e \in passed : e.reg \in 1 .. Len(h.regs), Awaited(h, passed) = {},
           NEW g, g = MonitorNext(h)
    PROVE  Evolves(h, g) /\ MonitorFits(g, passed, FALSE)
<1>1. CASE h.monitor.intervals = <<>>
  <2>1. g = MonitorStop(h)
    BY <1>1 DEF MonitorNext
  <2>. QED
    BY <2>1, StopFacts
<1>2. CASE h.monitor.intervals # <<>>
  <2>. DEFINE r == Len(h.regs) + 1
              t == Now(h) + Head(h.monitor.intervals)
  <2>1. PICK k : k = [h EXCEPT !.monitor.intervals = Tail(@), !.monitor.cancel = Len(h.regs) + 1]
    OBVIOUS
  <2>2. g = Register(k, "monitor", OfTick(k, t), Nowhere)
    BY <1>2, <2>1 DEF MonitorNext
  <2>3. /\ IsObjects(k) /\ k.subs = h.subs /\ k.cb = h.cb /\ k.kept = h.kept /\ k.nodes = h.nodes /\ k.regs = h.regs
        /\ k.lastCompleted = h.lastCompleted /\ k.publishing = h.publishing
        /\ k.monitor = [h.monitor EXCEPT !.intervals = Tail(@), !.cancel = r]
    BY <2>1 DEF Sound, IsObjects
  <2>4. Evolves(h, k) /\ Awaited(k, passed) = {}
    BY <2>3, MonitorDepends
  <2>5. /\ Tail(h.monitor.intervals) \in Seq(Nat) /\ Head(h.monitor.intervals) \in Nat
        /\ Len(h.regs) \in Nat /\ h.lastCompleted \in Nat
    BY <1>2 DEF IsMonitor, Sound
  <2>6. t \in Nat /\ t > k.lastCompleted
    <3>1. PICK d : d = Head(h.monitor.intervals)
      OBVIOUS
    <3>2. d \in Nat /\ t = h.lastCompleted + 1 + d
      BY <2>5, <3>1 DEF Now
    <3>. QED
      BY <2>3, <2>5, <3>2
  <2>. HIDE DEF t
  <2>7. Sound(k) /\ NodesTyped(k)
    BY <2>4 DEF Evolves
  <2>8. CanRegister(k, "monitor", OfTick(k, t), Nowhere)
    <3>1. IsTimerObs(OfTick(k, t)) /\ IsObs(OfTick(k, t))
      BY <2>6, <2>7, OfTickFacts
    <3>. QED
      BY <2>6, <3>1 DEF CanRegister, Opens, AllKinds
  <2>9. Sound(g) /\ NodesTyped(g) /\ IsRegistration(k, g, "monitor", OfTick(k, t), Nowhere)
    BY <2>2, <2>7, <2>8, RegisterFacts
  <2>10. Evolves(k, g)
    BY <2>7, <2>8, <2>9, RegisterEvolves
  <2>11. Awaited(g, passed) = {r}
    BY <2>3, <2>4, <2>7, <2>8, <2>9, AwaitedRegister
  <2>12. IsMonitor(g) /\ g.monitor.cancel = r
    <3>1. h.monitor \in [intervals : Seq(Nat), cancel : Nat, stopped : BOOLEAN] /\ r \in Nat /\ r # 0
      BY <2>5 DEF IsMonitor
    <3>2. g.monitor = [intervals |-> Tail(h.monitor.intervals), cancel |-> r, stopped |-> FALSE]
      BY <2>3, <2>9, <3>1 DEF IsRegistration, IsMonitor
    <3>3. Len(g.regs) = r /\ g.regs[r].kind = "monitor"
      BY <2>3, <2>9 DEF IsRegistration
    <3>. QED
      BY <2>5, <3>1, <3>2, <3>3 DEF IsMonitor
  <2>13. Evolves(h, g)
    BY <2>4, <2>10, EvolvesTransitive
  <2>. QED
    BY <2>5, <2>11, <2>12, <2>13 DEF MonitorFits
<1>. QED
  BY <1>1, <1>2

(* reset schedules the first call anew.                                    *)
LEMMA ResetFacts ==
    ASSUME NEW h, Sound(h), NodesTyped(h), NEW passed, \A e \in passed : e.reg \in 1 .. Len(h.regs),
           MonitorFits(h, passed, FALSE), NEW intervals \in Seq(Nat), NEW g, g = MonitorReset(h, intervals)
    PROVE  Evolves(h, g) /\ MonitorFits(g, passed, FALSE)
<1>1. PICK k : k = IF h.monitor.cancel # 0 THEN MonitorPause(h) ELSE h
  OBVIOUS
<1>2. Evolves(h, k) /\ IsMonitor(k) /\ Awaited(k, passed) = {} /\ k.monitor.cancel = 0
  <2>1. CASE h.monitor.cancel # 0
    <3>1. k = MonitorPause(h) /\ Awaited(h, passed) \subseteq {h.monitor.cancel} /\ IsMonitor(h)
      BY <1>1, <2>1 DEF MonitorFits
    <3>2. Evolves(h, k) /\ IsMonitor(k) /\ Awaited(k, passed) = {} /\ k.monitor = [h.monitor EXCEPT !.cancel = 0]
      BY <2>1, <3>1, PauseFacts
    <3>. QED
      BY <3>1, <3>2 DEF IsMonitor
  <2>2. CASE h.monitor.cancel = 0
    <3>1. k = h /\ Awaited(h, passed) = {} /\ Len(h.regs) \in Nat /\ IsMonitor(h)
      BY <1>1, <2>2 DEF Sound, MonitorFits
    <3>. QED
      BY <2>2, <3>1 DEF Evolves, KeepsTick
  <2>. QED
    BY <2>1, <2>2
<1>3. PICK l : l = [k EXCEPT !.monitor.intervals = intervals, !.monitor.stopped = FALSE]
  OBVIOUS
<1>4. g = MonitorNext(l)
  BY <1>1, <1>3 DEF MonitorReset
<1>5. /\ IsObjects(l) /\ l.subs = k.subs /\ l.cb = k.cb /\ l.kept = k.kept /\ l.nodes = k.nodes /\ l.regs = k.regs
      /\ l.lastCompleted = k.lastCompleted /\ l.publishing = k.publishing
      /\ l.monitor = [k.monitor EXCEPT !.intervals = intervals, !.stopped = FALSE]
  BY <1>2, <1>3 DEF Evolves, Sound, IsObjects
<1>6. Evolves(k, l) /\ Awaited(l, passed) = {}
  BY <1>2, <1>5, MonitorDepends DEF Evolves
<1>7. Evolves(h, l)
  BY <1>2, <1>6, EvolvesTransitive
<1>8. IsMonitor(l) /\ ~ l.monitor.stopped
  BY <1>2, <1>5 DEF IsMonitor
<1>9. \A e \in passed : e.reg \in 1 .. Len(l.regs)
  <2>1. Len(h.regs) \in Nat /\ Len(l.regs) \in Nat /\ Len(h.regs) <= Len(l.regs)
    BY <1>7 DEF Sound, Evolves
  <2>. QED
    BY <2>1
<1>10. Evolves(l, g) /\ MonitorFits(g, passed, FALSE)
  BY <1>4, <1>6, <1>7, <1>8, <1>9, NextFacts DEF Evolves
<1>. QED
  BY <1>7, <1>10, EvolvesTransitive

-----------------------------------------------------------------------------
(* The stack and the invariant.                                            *)
SameLoops(h, s, t) ==
    /\ TickOf(t) = TickOf(s) /\ (TickOf(s) # {} => t[1].on = s[1].on)
    /\ MonitorCalls(h, t) = MonitorCalls(h, s)
    /\ MonitorCalls(h, s) # {} /\ MonitorCalls(h, s) \subseteq {2} =>
          t[1].do = s[1].do /\ t[2].entry = s[2].entry

(* A frame has the fields of its kind.                                     *)
LEMMA FrameKinds ==
    ASSUME NEW f \in Frames
    PROVE  /\ f.do \in {"publish", "node", "tick", "call"}
           /\ f.do = "publish" => f \in [do : {"publish"}, on : Obs, due : Seq(Entries)]
           /\ f.do = "node" => f \in [do : {"node"}, evt : Seq(Names), node : Paths,
                                      phase : {"capture", "child", "bubble", "end"}]
           /\ f.do = "tick" => f \in [do : {"tick"}, on : Obs, seen : SUBSET Entries]
           /\ f.do = "call" => f \in [do : {"call"}, entry : Entries]
  BY DEF Frames

(* Only these frames matter for the tick and the monitor.                  *)
LEMMA LoopsKeep ==
    ASSUME NEW h, NEW s, NEW c, InProgress(h, s, c), MonitorInv(h, s),
           NEW t, FramesFit(h, t), SameLoops(h, s, t)
    PROVE  InProgress(h, t, c) /\ MonitorInv(h, t)
<1>1. CallsFit(h, t, c)
  BY DEF InProgress, CallsFit, SameLoops
<1>3. MonitorInv(h, t)
  BY DEF MonitorInv, SameLoops
<1>. QED
  BY <1>1, <1>3 DEF InProgress

(* A loop other than the tick's ends.                                      *)
LEMMA PopLoop ==
    ASSUME NEW h, NEW s, FramesFit(h, s), s # <<>>, Last(s).do \in {"publish", "node"},
           NEW t, t = Front(s)
    PROVE  FramesFit(h, t) /\ SameLoops(h, s, t)
<1>1. /\ Len(s) \in Nat \ {0} /\ Last(s) = s[Len(s)]
      /\ t \in Seq(Frames) /\ Len(t) = Len(s) - 1 /\ \A i \in 1 .. Len(t) : t[i] = s[i]
  BY FrontFacts DEF FramesFit
<1>2. \A i \in 1 .. Len(s) : i # Len(s) => i \in 1 .. Len(t) /\ t[i] = s[i]
  BY <1>1
<1>3. \A i \in 1 .. Len(t) : i \in 1 .. Len(s) /\ t[i] = s[i]
  BY <1>1
<1>4. FramesFit(h, t)
  BY <1>1, <1>3 DEF FramesFit
<1>5. MonitorCalls(h, t) = MonitorCalls(h, s)
  <2>1. ~ IsMonitorCall(h, s[Len(s)])
    BY <1>1 DEF IsMonitorCall
  <2>. QED
    BY <1>2, <1>3, <2>1 DEF MonitorCalls
<1>6. s[1].do \notin {"publish", "node"} => t # <<>> /\ t[1] = s[1]
  <2>. SUFFICES ASSUME s[1].do \notin {"publish", "node"} PROVE t # <<>> /\ t[1] = s[1]
    OBVIOUS
  <2>1. 1 \in 1 .. Len(s) /\ 1 # Len(s)
    BY <1>1
  <2>2. 1 \in 1 .. Len(t) /\ t[1] = s[1]
    BY <1>2, <2>1
  <2>. QED
    BY <1>1, <2>2
<1>7. TickOf(t) = TickOf(s) /\ (TickOf(s) # {} => t[1].on = s[1].on)
  <2>1. CASE s[1].do = "tick"
    BY <1>6, <2>1 DEF TickOf
  <2>2. CASE s[1].do # "tick"
    <3>1. TickOf(s) = {}
      BY <2>2 DEF TickOf
    <3>2. ASSUME t # <<>> PROVE t[1] = s[1]
      <4>1. 1 \in 1 .. Len(t)
        BY <1>1, <3>2
      <4>. QED
        BY <1>1, <4>1
    <3>. QED
      BY <2>2, <3>1, <3>2 DEF TickOf
  <2>. QED
    BY <2>1, <2>2
<1>8. ASSUME MonitorCalls(h, s) # {}, MonitorCalls(h, s) \subseteq {2}
      PROVE  t[1].do = s[1].do /\ t[2].entry = s[2].entry
  <2>1. 2 \in 1 .. Len(t)
    BY <1>5, <1>8 DEF MonitorCalls
  <2>2. 1 \in 1 .. Len(t)
    BY <1>1, <2>1
  <2>. QED
    BY <1>1, <2>1, <2>2
<1>. QED
  BY <1>4, <1>5, <1>7, <1>8 DEF SameLoops

GoesOn(s, f, t) == t = Append(Front(s), f)

(* A loop other than the tick's goes on.                                   *)
LEMMA BecomesLoop ==
    ASSUME NEW h, NEW s, FramesFit(h, s), s # <<>>, Last(s).do \in {"publish", "node"},
           NEW f \in Frames, IsFrame(f, h), f.do = Last(s).do, NEW t, GoesOn(s, f, t)
    PROVE  /\ FramesFit(h, t) /\ SameLoops(h, s, t)
           /\ Len(t) = Len(s) /\ Len(s) \in Nat /\ t[Len(s)] = f /\ Len(s) \in 1 .. Len(t)
<1>1. /\ t \in Seq(Frames) /\ Len(t) = Len(s) /\ Len(s) \in Nat \ {0} /\ t[Len(s)] = f
      /\ \A i \in 1 .. Len(s) : i # Len(s) => t[i] = s[i]
      /\ Last(s) = s[Len(s)]
  <2>1. s \in Seq(Frames)
    BY DEF FramesFit
  <2>2. PICK u : u = Front(s) /\ t = Append(u, f)
    BY DEF GoesOn
  <2>. QED
    <3>1. /\ Len(s) \in Nat \ {0} /\ Last(s) = s[Len(s)]
          /\ u \in Seq(Frames) /\ Len(u) = Len(s) - 1 /\ \A i \in 1 .. Len(u) : u[i] = s[i]
      BY <2>1, <2>2, FrontFacts
    <3>2. t \in Seq(Frames) /\ Len(t) = Len(s) /\ t[Len(s)] = f /\ \A i \in 1 .. Len(u) : t[i] = u[i]
      BY <2>2, <3>1
    <3>3. \A i \in 1 .. Len(s) : i # Len(s) => i \in 1 .. Len(u)
      BY <3>1
    <3>. QED
      BY <3>1, <3>2, <3>3
<1>4. FramesFit(h, t)
  BY <1>1 DEF FramesFit
<1>5. MonitorCalls(h, t) = MonitorCalls(h, s)
  BY <1>1 DEF IsMonitorCall, MonitorCalls
<1>6. 1 \in 1 .. Len(s) /\ t # <<>> /\ t[1].do = s[1].do /\ (s[1].do = "tick" => t[1] = s[1])
  BY <1>1
<1>7. TickOf(t) = TickOf(s) /\ (TickOf(s) # {} => t[1].on = s[1].on)
  BY <1>6 DEF TickOf
<1>8. ASSUME MonitorCalls(h, s) # {}, MonitorCalls(h, s) \subseteq {2}
      PROVE  t[1].do = s[1].do /\ t[2].entry = s[2].entry
  <2>1. 2 \in 1 .. Len(s) /\ s[2].do = "call"
    BY <1>8 DEF MonitorCalls, IsMonitorCall
  <2>. QED
    BY <1>1, <1>6, <2>1
<1>10. SameLoops(h, s, t)
  BY <1>5, <1>7, <1>8 DEF SameLoops
<1>11. Len(t) = Len(s) /\ Len(s) \in Nat /\ t[Len(s)] = f /\ Len(s) \in 1 .. Len(t)
  BY <1>1
<1>. QED
  BY <1>4, <1>10, <1>11

Begins(s, f, t) == t = Append(s, f)

(* A loop other than the tick's begins.                                    *)
LEMMA PushLoop ==
    ASSUME NEW h, NEW s, FramesFit(h, s), NEW f \in Frames, IsFrame(f, h), f.do \in {"publish", "node"},
           NEW t, Begins(s, f, t)
    PROVE  FramesFit(h, t) /\ SameLoops(h, s, t)
<1>1. /\ t \in Seq(Frames) /\ Len(t) = Len(s) + 1 /\ Len(s) \in Nat /\ t[Len(s) + 1] = f /\ t # <<>>
      /\ \A i \in 1 .. Len(s) : t[i] = s[i]
  BY PushFacts DEF FramesFit, Begins
<1>2. \A i \in 1 .. Len(t) : i \in 1 .. Len(s) \/ i = Len(s) + 1
  BY <1>1
<1>3. \A i \in 1 .. Len(s) : i \in 1 .. Len(t) /\ t[i] = s[i]
  BY <1>1
<1>4. FramesFit(h, t)
  BY <1>1, <1>2 DEF FramesFit
<1>5. MonitorCalls(h, t) = MonitorCalls(h, s)
  <2>1. ~ IsMonitorCall(h, t[Len(s) + 1])
    BY <1>1 DEF IsMonitorCall
  <2>. QED
    BY <1>2, <1>3, <2>1 DEF MonitorCalls
<1>6. s # <<>> => t[1] = s[1]
  <2>1. s # <<>> => 1 \in 1 .. Len(s)
    BY <1>1 DEF FramesFit
  <2>. QED
    BY <1>1, <2>1
<1>7. TickOf(t) = TickOf(s) /\ (TickOf(s) # {} => t[1].on = s[1].on)
  <2>1. CASE s = <<>>
    <3>1. t[1] = f
      BY <1>1, <2>1
    <3>. QED
      BY <2>1, <3>1 DEF TickOf
  <2>2. CASE s # <<>>
    BY <1>1, <1>6, <2>2 DEF TickOf
  <2>. QED
    BY <2>1, <2>2
<1>8. ASSUME MonitorCalls(h, s) # {}, MonitorCalls(h, s) \subseteq {2}
      PROVE  t[1].do = s[1].do /\ t[2].entry = s[2].entry
  <2>1. 2 \in 1 .. Len(s)
    BY <1>8 DEF MonitorCalls
  <2>2. 1 \in 1 .. Len(s)
    BY <1>1, <2>1
  <2>. QED
    BY <1>3, <2>1, <2>2
<1>. QED
  BY <1>4, <1>5, <1>7, <1>8 DEF SameLoops

-----------------------------------------------------------------------------
(* Calls.                                                                  *)

(* Who may be called.                                                      *)
IsDue(h, c, cancelled, saidTrue, e) ==
    /\ e.reg \notin cancelled
    /\ h.regs[e.reg].kind = "once" => \A i \in 1 .. Len(c) : c[i].reg # e.reg
    /\ h.regs[e.reg].kind = "untilTrue" => e.reg \notin saidTrue

(* An entry is a subscriber of an existing registration or its backup.     *)
LEMMA EntryFacts ==
    ASSUME NEW h, NEW e, IsEntry(h, e)
    PROVE  /\ e = Entry(e.reg, e.role) /\ e.reg \in 1 .. Len(h.regs)
           /\ e.role \in {"primary", "backup"} /\ (e.role = "backup" => HasBackup(h.regs[e.reg]))
  BY DEF IsEntry, Entries, Entry

(* Whoever is subscribed is due.                                           *)
LEMMA SubscribersAreDue ==
    ASSUME NEW h, Sound(h), NEW c, NEW cancelled, NEW saidTrue, Obeyed(h, c, cancelled, saidTrue),
           NEW e, NEW p, HasSub(h, p, e)
    PROVE  /\ IsDue(h, c, cancelled, saidTrue, e)
           /\ \A i \in 1 .. Len(c) : c[i].reg = e.reg /\ c[i].role # e.role =>
                  h.regs[e.reg].kind = "recover" /\ c[i].role = "backup"
<1>1. IsEntry(h, e) /\ Target(h, e) = p
  BY HasSubFacts
<1>2. PICK r \in 1 .. Len(h.regs) : r = e.reg
  BY <1>1, EntryFacts
<1>3. /\ e.role = "primary" => e = Entry(r, "primary") /\ Primary(h, r)
      /\ e.role = "backup" => e = Entry(r, "backup") /\ Backup(h, r) /\ HasBackup(h.regs[r])
      /\ e.role \in {"primary", "backup"}
  BY <1>1, <1>2, EntryFacts DEF Target, Primary, Backup
<1>4. \A i \in 1 .. Len(c) : IsEntry(h, c[i])
  BY DEF Obeyed
<1>5. ASSUME NEW i \in 1 .. Len(c), c[i].reg = r
      PROVE  /\ c[i].role \in {"primary", "backup"}
             /\ c[i].role = "backup" => HasBackup(h.regs[r]) /\ Called(c, Entry(r, "backup"))
             /\ c[i].role = "primary" => Called(c, Entry(r, "primary"))
  BY <1>4, <1>5, EntryFacts DEF Called
<1>6. r \notin cancelled
  BY <1>3 DEF Obeyed
<1>7. ASSUME h.regs[r].kind = "once", NEW i \in 1 .. Len(c), c[i].reg = r PROVE FALSE
  <2>1. ~ HasBackup(h.regs[r])
    BY <1>7 DEF HasBackup
  <2>2. Called(c, Entry(r, "primary")) /\ e.role = "primary"
    BY <1>3, <1>5, <1>7, <2>1
  <2>. QED
    BY <1>3, <1>7, <2>2 DEF Obeyed
<1>8. h.regs[r].kind = "untilTrue" => r \notin saidTrue
  <2>1. h.regs[r].kind = "untilTrue" => e.role = "primary"
    BY <1>3 DEF HasBackup
  <2>. QED
    BY <1>3, <2>1 DEF Obeyed
<1>9. ASSUME NEW i \in 1 .. Len(c), c[i].reg = r, c[i].role # e.role
      PROVE  h.regs[r].kind = "recover" /\ c[i].role = "backup"
  <2>1. CASE e.role = "primary"
    <3>1. c[i].role = "backup" /\ HasBackup(h.regs[r]) /\ Called(c, Entry(r, "backup"))
      BY <1>5, <1>9, <2>1
    <3>2. h.regs[r].kind # "backup"
      BY <1>3, <2>1, <3>1 DEF Obeyed
    <3>. QED
      BY <3>1, <3>2 DEF HasBackup
  <2>2. CASE e.role = "backup"
    <3>1. Called(c, Entry(r, "primary"))
      BY <1>5, <1>9, <2>2
    <3>. QED
      BY <1>3, <2>2, <3>1 DEF Obeyed
  <2>. QED
    BY <1>3, <2>1, <2>2
<1>. QED
  BY <1>2, <1>6, <1>7, <1>8, <1>9 DEF IsDue

(* Those who are called do what they should before it.                     *)
LEMMA CallObeys ==
    ASSUME NEW h, Sound(h), NodesTyped(h), NEW c, NEW cancelled, NEW saidTrue,
           Obeyed(h, c, cancelled, saidTrue), NEW e, NEW p, HasSub(h, p, e),
           NEW g, g = BeforeCall(h, e), NEW d, d = Append(c, e)
    PROVE  /\ Takes(h, g, Dropped(h, e)) /\ Evolves(h, g)
           /\ Obeyed(g, d, cancelled, saidTrue)
<1>1. IsEntry(h, e)
  BY HasSubFacts
<1>2. Takes(h, g, Dropped(h, e)) /\ Evolves(h, g)
  BY <1>1, BeforeCallFacts, TakesEvolves
<1>3. Obeyed(g, c, cancelled, saidTrue)
  BY <1>2, EvolvesObeys
<1>4. /\ d \in Seq(Entries) /\ Len(d) = Len(c) + 1 /\ Len(c) \in Nat /\ d[Len(c) + 1] = e
      /\ \A i \in 1 .. Len(c) : d[i] = c[i]
  BY <1>1, <1>3 DEF Obeyed, IsEntry
<1>5. \A i \in 1 .. Len(d) : i \in 1 .. Len(c) \/ i = Len(c) + 1
  BY <1>4
<1>6. \A i \in 1 .. Len(c) : i \in 1 .. Len(d) /\ i # Len(c) + 1
  BY <1>4
<1>7. \A x : Called(d, x) <=> Called(c, x) \/ x = e
  <2>1. ASSUME NEW x, Called(d, x) PROVE Called(c, x) \/ x = e
    BY <1>4, <1>5, <2>1 DEF Called
  <2>2. ASSUME NEW x, Called(c, x) PROVE Called(d, x)
    BY <1>4, <1>6, <2>2 DEF Called
  <2>3. Called(d, e)
    <3>1. Len(c) + 1 \in 1 .. Len(d)
      BY <1>4
    <3>. QED
      BY <1>4, <3>1 DEF Called
  <2>. QED
    BY <2>1, <2>2, <2>3
<1>8. g.regs = h.regs /\ \A x : IsEntry(g, x) <=> IsEntry(h, x)
  BY <1>2 DEF Takes, IsEntry
<1>9. \A i \in 1 .. Len(d) : IsEntry(g, d[i])
  BY <1>1, <1>3, <1>4, <1>5, <1>8 DEF Obeyed
<1>10. /\ h.regs[e.reg].kind = "once" /\ e = Entry(e.reg, "primary") => ~ Primary(g, e.reg)
       /\ HasBackup(h.regs[e.reg]) /\ e = Entry(e.reg, "primary") => ~ Backup(g, e.reg)
       /\ h.regs[e.reg].kind = "backup" /\ e = Entry(e.reg, "backup") => ~ Primary(g, e.reg)
  <2>1. \A q : HasSub(g, q, Entry(e.reg, "primary")) => Entry(e.reg, "primary") \notin Dropped(h, e)
    BY <1>2 DEF Takes
  <2>2. \A q : HasSub(g, q, Entry(e.reg, "backup")) => Entry(e.reg, "backup") \notin Dropped(h, e)
    BY <1>2 DEF Takes
  <2>. QED
    BY <2>1, <2>2 DEF Primary, Backup, Dropped, HasBackup, Entry
<1>11. \A r \in 1 .. Len(g.regs) :
          /\ g.regs[r].kind = "once" /\ Called(d, Entry(r, "primary")) => ~ Primary(g, r)
          /\ HasBackup(g.regs[r]) /\ Called(d, Entry(r, "primary")) => ~ Backup(g, r)
          /\ g.regs[r].kind = "backup" /\ Called(d, Entry(r, "backup")) => ~ Primary(g, r)
  <2>. SUFFICES ASSUME NEW r \in 1 .. Len(g.regs)
                PROVE /\ g.regs[r].kind = "once" /\ Called(d, Entry(r, "primary")) => ~ Primary(g, r)
                      /\ HasBackup(g.regs[r]) /\ Called(d, Entry(r, "primary")) => ~ Backup(g, r)
                      /\ g.regs[r].kind = "backup" /\ Called(d, Entry(r, "backup")) => ~ Primary(g, r)
    OBVIOUS
  <2>1. \A role : e = Entry(r, role) => e.reg = r
    BY DEF Entry
  <2>2. /\ g.regs[r].kind = "once" /\ Called(c, Entry(r, "primary")) => ~ Primary(g, r)
        /\ HasBackup(g.regs[r]) /\ Called(c, Entry(r, "primary")) => ~ Backup(g, r)
        /\ g.regs[r].kind = "backup" /\ Called(c, Entry(r, "backup")) => ~ Primary(g, r)
    BY <1>3 DEF Obeyed
  <2>3. \A role : Called(d, Entry(r, role)) <=> Called(c, Entry(r, role)) \/ Entry(r, role) = e
    BY <1>7
  <2>. QED
    BY <1>8, <1>10, <2>1, <2>2, <2>3
<1>12. \A i, j \in 1 .. Len(d) :
          i < j /\ d[i].reg = d[j].reg /\ d[i].role # d[j].role =>
              g.regs[d[i].reg].kind = "recover" /\ d[i].role = "backup"
  <2>. SUFFICES ASSUME NEW i \in 1 .. Len(d), NEW j \in 1 .. Len(d), i < j,
                       d[i].reg = d[j].reg, d[i].role # d[j].role
                PROVE  g.regs[d[i].reg].kind = "recover" /\ d[i].role = "backup"
    OBVIOUS
  <2>0. i \in 1 .. Len(c)
    BY <1>4
  <2>1. CASE j \in 1 .. Len(c)
    BY <1>3, <1>4, <2>0, <2>1 DEF Obeyed
  <2>2. CASE j = Len(c) + 1
    <3>1. c[i].reg = e.reg /\ c[i].role # e.role
      BY <1>4, <2>0, <2>2
    <3>2. h.regs[e.reg].kind = "recover" /\ c[i].role = "backup"
      BY <2>0, <3>1, SubscribersAreDue
    <3>. QED
      BY <1>4, <1>8, <2>0, <3>1, <3>2
  <2>. QED
    BY <1>5, <2>1, <2>2
<1>13. \A o \in DOMAIN g.subs : IsTimerObs(o) /\ o.tick <= g.lastCompleted =>
          \A i \in 1 .. Len(g.subs[o]) : Called(d, g.subs[o][i])
  BY <1>3, <1>7 DEF Obeyed
<1>14. Obeyed(g, d, cancelled, saidTrue)
  BY <1>3, <1>4, <1>9, <1>11, <1>12, <1>13 DEF Obeyed
<1>. QED
  BY <1>2, <1>14

(* The invariant about the monitor, while the monitor is left alone.       *)
LEMMA EvolvesMonitorInv ==
    ASSUME NEW h, Sound(h), NEW g, Evolves(h, g), NEW s, FramesFit(h, s), MonitorInv(h, s),
           g.monitor = h.monitor, Awaited(g, TickOf(s)) = Awaited(h, TickOf(s))
    PROVE  MonitorInv(g, s)
<1>1. Len(h.regs) \in Nat /\ Len(g.regs) \in Nat /\ Len(h.regs) <= Len(g.regs)
      /\ \A r \in 1 .. Len(h.regs) : g.regs[r] = h.regs[r]
  BY DEF Sound, Evolves
<1>2. MonitorCalls(g, s) = MonitorCalls(h, s)
  <2>1. ASSUME NEW i \in 1 .. Len(s), s[i].do = "call" PROVE g.regs[s[i].entry.reg] = h.regs[s[i].entry.reg]
    BY <1>1, <2>1 DEF FramesFit, IsFrame, IsEntry
  <2>. QED
    BY <2>1 DEF MonitorCalls, IsMonitorCall
<1>3. IsMonitor(g)
  <2>1. IsMonitor(h)
    BY DEF MonitorInv, MonitorFits
  <2>2. h.monitor.cancel # 0 => h.monitor.cancel \in 1 .. Len(h.regs)
    BY <1>1, <2>1 DEF IsMonitor
  <2>. QED
    BY <1>1, <2>1, <2>2 DEF IsMonitor
<1>. QED
  BY <1>2, <1>3 DEF MonitorInv, MonitorFits

Calling(s, e, t) == t = Append(s, CallFrame(e))

(* A call is put on the stack.                                             *)
LEMMA CallFits ==
    ASSUME NEW h, Sound(h), NEW g, Evolves(h, g), NEW s, s # <<>>, FramesFit(h, s),
           NEW d, CallsFit(h, s, d), \A i \in 1 .. Len(d) : IsEntry(h, d[i]),
           NEW e, IsEntry(h, e), NEW t, Calling(s, e, t)
    PROVE  /\ InProgress(g, s, d)
           /\ InProgress(g, t, d) /\ TickOf(t) = TickOf(s) /\ FramesFit(h, t)
           /\ Len(t) = Len(s) + 1 /\ t[Len(s) + 1] = CallFrame(e)
           /\ \A i \in 1 .. Len(s) : t[i] = s[i]
           /\ h.regs[e.reg].kind # "monitor" => SameLoops(h, s, t)
<1>0. CallFrame(e) \in Frames /\ CallFrame(e).do = "call" /\ CallFrame(e).entry = e
  <2>1. e \in Entries
    BY DEF IsEntry
  <2>. QED
    BY <2>1 DEF CallFrame, Frames
<1>1. /\ t \in Seq(Frames) /\ Len(t) = Len(s) + 1 /\ Len(s) \in Nat \ {0} /\ t[Len(s) + 1] = CallFrame(e) /\ t # <<>>
      /\ \A i \in 1 .. Len(s) : t[i] = s[i]
  <2>1. PICK f \in Frames : f = CallFrame(e) /\ t = Append(s, f)
    BY <1>0 DEF Calling
  <2>2. s \in Seq(Frames)
    BY DEF FramesFit
  <2>3. /\ t \in Seq(Frames) /\ Len(t) = Len(s) + 1 /\ Len(s) \in Nat \ {0} /\ t[Len(s) + 1] = f /\ t # <<>>
        /\ \A i \in 1 .. Len(s) : t[i] = s[i]
    BY <2>1, <2>2
  <2>. QED
    BY <2>1, <2>3
<1>2. \A i \in 1 .. Len(t) : i \in 1 .. Len(s) \/ i = Len(s) + 1
  BY <1>1
<1>3. \A i \in 1 .. Len(s) : i \in 1 .. Len(t) /\ i # Len(s) + 1
  BY <1>1
<1>4. IsFrame(CallFrame(e), h)
  BY <1>0 DEF IsFrame
<1>5. FramesFit(h, t)
  BY <1>0, <1>1, <1>2, <1>4 DEF FramesFit
<1>6. 1 \in 1 .. Len(s) /\ t[1] = s[1] /\ TickOf(t) = TickOf(s)
  <2>1. 1 \in 1 .. Len(s)
    BY <1>1
  <2>. QED
    BY <1>1, <2>1 DEF TickOf
<1>7. CallsFit(h, t, d)
  BY <1>6 DEF CallsFit
<1>9. InProgress(g, t, d) /\ InProgress(g, s, d)
  <2>1. InProgress(h, t, d)
    BY <1>5, <1>7 DEF InProgress
  <2>2. InProgress(h, s, d)
    BY DEF InProgress
  <2>3. InProgress(g, t, d)
    BY <2>1, EvolvesInProgress
  <2>4. InProgress(g, s, d)
    BY <2>2, EvolvesInProgress
  <2>. QED
    BY <2>3, <2>4
<1>10. ASSUME h.regs[e.reg].kind # "monitor" PROVE SameLoops(h, s, t)
  <2>1. MonitorCalls(h, t) = MonitorCalls(h, s)
    <3>1. ~ IsMonitorCall(h, t[Len(s) + 1])
      BY <1>0, <1>1, <1>10 DEF IsMonitorCall
    <3>. QED
      BY <1>1, <1>2, <1>3, <3>1 DEF MonitorCalls
  <2>2. ASSUME MonitorCalls(h, s) # {}, MonitorCalls(h, s) \subseteq {2} PROVE t[2].entry = s[2].entry
    <3>1. 2 \in 1 .. Len(s)
      BY <2>2 DEF MonitorCalls
    <3>. QED
      BY <1>1, <3>1
  <2>. QED
    BY <1>6, <2>1, <2>2 DEF SameLoops
<1>. QED
  BY <1>1, <1>5, <1>6, <1>9, <1>10

-----------------------------------------------------------------------------
(* Every step keeps the invariant.                                         *)

(* The loops go on, and nobody is called.                                  *)
LEMMA LoopsFit ==
    ASSUME NEW h, NEW s, NEW past, Fits(h, s, past),
           NEW t, FramesFit(h, t), SameLoops(h, s, t)
    PROVE  Fits(h, t, past)
  BY LoopsKeep DEF Fits

(* A subscriber of a node is called.                                       *)
LEMMA NodeCallFits ==
    ASSUME NEW h, NEW s, NEW past, Fits(h, s, past), s # <<>>,
           NEW o, IsNodeObs(o), NEW e, HasSub(h, o, e),
           NEW g, g = BeforeCall(h, e), NEW t, Calling(s, e, t),
           NEW now, now = [past EXCEPT !.calls = Append(@, e)]
    PROVE  Fits(g, t, now) /\ Fits(g, s, now)
<1>0. Sound(h) /\ NodesTyped(h) /\ InProgress(h, s, past.calls) /\ MonitorInv(h, s) /\ FramesFit(h, s)
  BY DEF Fits, InProgress
<1>1. /\ now = [calls |-> now.calls, cancelled |-> now.cancelled, saidTrue |-> now.saidTrue,
                late |-> now.late]
      /\ now.calls = Append(past.calls, e)
      /\ now.cancelled = past.cancelled /\ now.saidTrue = past.saidTrue
  BY DEF Fits
<1>. DEFINE d == now.calls
<1>2. Takes(h, g, Dropped(h, e)) /\ Evolves(h, g) /\ Obeyed(g, d, now.cancelled, now.saidTrue)
  <2>1. Obeyed(h, past.calls, past.cancelled, past.saidTrue)
    BY DEF Fits
  <2>2. PICK c : c = past.calls
    OBVIOUS
  <2>3. PICK q : q = Append(c, e)
    OBVIOUS
  <2>4. Sound(h) /\ NodesTyped(h) /\ Obeyed(h, c, past.cancelled, past.saidTrue)
        /\ HasSub(h, o, e) /\ g = BeforeCall(h, e)
    BY <1>0, <2>1, <2>2
  <2>5. Takes(h, g, Dropped(h, e)) /\ Evolves(h, g) /\ Obeyed(g, q, past.cancelled, past.saidTrue)
    BY ONLY <2>3, <2>4, CallObeys
  <2>. QED
    BY <1>1, <2>2, <2>3, <2>5
<1>3. IsEntry(h, e) /\ Target(h, e) = o
  BY <1>0, HasSubFacts
<1>4. h.regs[e.reg].kind # "monitor"
  <2>1. IsReg(h.regs[e.reg]) /\ e.role \in {"primary", "backup"}
        /\ (e.role = "backup" => HasBackup(h.regs[e.reg]))
    BY <1>0, <1>3, EntryFacts DEF Sound
  <2>2. ~ IsTimerObs(o)
    BY DEF IsNodeObs, IsOfNode, IsTimerObs, OfTimer
  <2>. QED
    BY <1>3, <2>1, <2>2 DEF IsReg, HasBackup, Target
<1>5. past.calls \in Seq(Entries) /\ e \in Entries /\ \A i \in 1 .. Len(past.calls) : IsEntry(h, past.calls[i])
  BY <1>3 DEF Fits, Obeyed, IsEntry
<1>6. /\ Len(d) = Len(past.calls) + 1 /\ Len(past.calls) \in Nat /\ d[Len(past.calls) + 1] = e
      /\ \A i \in 1 .. Len(past.calls) : d[i] = past.calls[i]
  BY <1>1, <1>5
<1>7. \A i \in 1 .. Len(d) : i \in 1 .. Len(past.calls) \/ i = Len(past.calls) + 1
  BY <1>6
<1>8. \A i \in 1 .. Len(past.calls) : i \in 1 .. Len(d)
  BY <1>6
<1>. HIDE DEF d
<1>9. CallsFit(h, s, d)
  <2>1. ~ IsTimerObs(Target(h, e))
    BY <1>3 DEF IsNodeObs, IsOfNode, IsTimerObs, OfTimer
  <2>2. \A x : Called(past.calls, x) => Called(d, x)
    BY <1>6, <1>8 DEF Called
  <2>. QED
    BY <1>0, <1>6, <1>7, <2>1, <2>2 DEF CallsFit, InProgress
<1>10. \A i \in 1 .. Len(d) : IsEntry(h, d[i])
  BY <1>3, <1>5, <1>6, <1>7
<1>12. /\ InProgress(g, s, d)
       /\ InProgress(g, t, d) /\ TickOf(t) = TickOf(s) /\ FramesFit(h, t) /\ SameLoops(h, s, t)
  <2>1. Sound(h) /\ FramesFit(h, s) /\ Evolves(h, g) /\ IsEntry(h, e)
    BY <1>0, <1>2, <1>3
  <2>2. /\ InProgress(g, s, d)
        /\ InProgress(g, t, d) /\ TickOf(t) = TickOf(s) /\ FramesFit(h, t)
        /\ h.regs[e.reg].kind # "monitor" => SameLoops(h, s, t)
    BY <1>9, <1>10, <2>1, CallFits
  <2>. QED
    BY <1>4, <2>2
<1>14. MonitorInv(h, t)
  BY <1>0, <1>12, LoopsKeep
<1>15. Awaited(g, TickOf(t)) = Awaited(h, TickOf(t)) /\ g.monitor = h.monitor
  <2>1. \A r : Entry(r, "primary") \in Dropped(h, e) => r = e.reg
    BY DEF Dropped, Entry
  <2>2. e.reg \notin Awaited(h, TickOf(t))
    BY <1>4 DEF Awaited
  <2>3. Awaited(g, TickOf(t)) = {r \in Awaited(h, TickOf(t)) : Entry(r, "primary") \notin Dropped(h, e)}
    BY <1>0, <1>2, AwaitedTakes
  <2>. QED
    BY <1>2, <2>1, <2>2, <2>3 DEF Takes
<1>16. MonitorInv(g, t) /\ MonitorInv(g, s)
  BY <1>0, <1>2, <1>12, <1>14, <1>15, EvolvesMonitorInv
<1>. QED
  BY <1>1, <1>2, <1>12, <1>16 DEF Fits, Takes, d

(* Observable.publish.                                                     *)
LEMMA PublishStepKeeps ==
    ASSUME CallbacksInv, PublishStep
    PROVE  CallbacksInv'
<1>. DEFINE h == objects
            s == stack
            top == Last(s)
            rest == Append(Front(s), [top EXCEPT !.due = Tail(@)])
<1>0. Fits(h, s, history) /\ FramesFit(h, s) /\ left' = left /\ left \in Scenario
  BY DEF CallbacksInv, Fits, InProgress, PublishStep
<1>1. s # <<>> /\ top.do = "publish"
  BY DEF PublishStep, Doing, Top
<1>2. top \in Frames /\ IsFrame(top, h)
  <2>1. /\ Len(s) \in Nat \ {0} /\ top = s[Len(s)] /\ top \in Frames
    BY <1>0, <1>1, FrontFacts DEF FramesFit
  <2>2. Len(s) \in 1 .. Len(s)
    BY <2>1
  <2>. QED
    BY <1>0, <2>1, <2>2 DEF FramesFit
<1>3. top \in [do : {"publish"}, on : Obs, due : Seq(Entries)] /\ IsNodeObs(top.on)
  BY <1>1, <1>2, FrameKinds DEF IsFrame
<1>4. CASE top.due = <<>> /\ stack' = Front(s) /\ objects' = h /\ history' = history
  <2>1. FramesFit(h, stack') /\ SameLoops(h, s, stack')
    BY <1>0, <1>1, <1>4, PopLoop
  <2>. QED
    BY <1>0, <1>4, <2>1, LoopsFit DEF CallbacksInv
<1>5. CASE top.due # <<>>
  <2>1. PICK f : f = [top EXCEPT !.due = Tail(@)]
    OBVIOUS
  <2>2. f \in Frames /\ f.do = "publish" /\ f.on = top.on
    <3>1. top.due \in Seq(Entries) /\ top.on \in Obs
      BY <1>3
    <3>2. Tail(top.due) \in Seq(Entries)
      BY <1>5, <3>1
    <3>3. f = [do |-> "publish", on |-> top.on, due |-> Tail(top.due)]
      BY <1>3, <2>1
    <3>. QED
      BY <3>1, <3>2, <3>3 DEF Frames
  <2>3. IsFrame(f, h)
    BY <1>3, <2>2 DEF IsFrame
  <2>4. PICK t : t = rest
    OBVIOUS
  <2>5. GoesOn(s, f, t)
    BY <2>1, <2>4 DEF GoesOn
  <2>6. FramesFit(h, t) /\ SameLoops(h, s, t) /\ Len(t) = Len(s)
    BY <1>0, <1>1, <2>2, <2>3, <2>5, BecomesLoop
  <2>7. Fits(h, t, history)
    BY <1>0, <2>6, LoopsFit
  <2>8. CASE StillSubscribed(top.on, Head(top.due)) /\ Call(t, Head(top.due))
    <3>1. PICK e : e = Head(top.due)
      OBVIOUS
    <3>2. /\ HasSub(h, top.on, e) /\ objects' = BeforeCall(h, e)
          /\ stack' = t \/ stack' = Append(t, CallFrame(e))
          /\ history' = [history EXCEPT !.calls = Append(@, e)]
      BY <2>8, <3>1 DEF StillSubscribed, Call, Push
    <3>3. t # <<>>
      BY <1>0, <1>1, <2>6 DEF FramesFit
    <3>5. PICK u : Calling(t, e, u)
      BY DEF Calling
    <3>6. PICK g : g = BeforeCall(h, e)
      OBVIOUS
    <3>7. PICK now : now = [history EXCEPT !.calls = Append(@, e)]
      OBVIOUS
    <3>8. Fits(g, u, now) /\ Fits(g, t, now)
      BY <1>3, <2>7, <3>2, <3>3, <3>5, <3>6, <3>7, NodeCallFits
    <3>9. objects' = g /\ (stack' = u \/ stack' = t) /\ history' = now
      BY <3>2, <3>5, <3>6, <3>7 DEF Calling
    <3>. QED
      BY <1>0, <3>8, <3>9 DEF CallbacksInv
  <2>9. CASE stack' = t /\ objects' = h /\ history' = history
    BY <1>0, <2>7, <2>9 DEF CallbacksInv
  <2>. QED
    BY <1>5, <2>4, <2>8, <2>9 DEF PublishStep, Top
<1>. QED
  BY <1>4, <1>5 DEF PublishStep, Top, Pop

SameButNodes(h, g) ==
    /\ IsObjects(g) /\ g.subs = h.subs /\ g.cb = h.cb /\ g.lastCompleted = h.lastCompleted
    /\ g.regs = h.regs /\ g.monitor = h.monitor

(* What is published where matters to nobody but the nodes.                *)
LEMMA SameButNodesFits ==
    ASSUME NEW h, Sound(h), NEW g, SameButNodes(h, g)
    PROVE  /\ Sound(g)
           /\ \A c, cancelled, saidTrue : Obeyed(h, c, cancelled, saidTrue) => Obeyed(g, c, cancelled, saidTrue)
           /\ \A s : FramesFit(h, s) => FramesFit(g, s)
           /\ \A s, c : CallsFit(h, s, c) => CallsFit(g, s, c)
           /\ \A s : MonitorInv(h, s) => MonitorInv(g, s)
<1>1. Sound(g)
  BY SoundDepends DEF SameButNodes
<1>2. \A o, e : HasSub(g, o, e) <=> HasSub(h, o, e)
  BY DEF HasSub, Subs, SameButNodes
<1>3. \A r : (Primary(g, r) <=> Primary(h, r)) /\ (Backup(g, r) <=> Backup(h, r))
  BY <1>2 DEF Primary, Backup, SameButNodes
<1>4. \A e : (IsEntry(g, e) <=> IsEntry(h, e)) /\ Target(g, e) = Target(h, e)
  BY DEF IsEntry, Target, SameButNodes
<1>5. ASSUME NEW c, NEW cancelled, NEW saidTrue, Obeyed(h, c, cancelled, saidTrue)
      PROVE  Obeyed(g, c, cancelled, saidTrue)
  BY <1>3, <1>4, <1>5 DEF Obeyed, SameButNodes
<1>6. \A f : IsFrame(f, h) => IsFrame(f, g)
  BY <1>4 DEF IsFrame, SameButNodes, Now
<1>7. ASSUME NEW s, FramesFit(h, s) PROVE FramesFit(g, s)
  BY <1>6, <1>7 DEF FramesFit
<1>8. ASSUME NEW s, NEW c, CallsFit(h, s, c) PROVE CallsFit(g, s, c)
  BY <1>4, <1>8 DEF CallsFit, SameButNodes
<1>9. \A passed : Awaited(g, passed) = Awaited(h, passed)
  BY <1>3 DEF Awaited, SameButNodes
<1>10. \A s : MonitorCalls(g, s) = MonitorCalls(h, s)
  BY DEF MonitorCalls, IsMonitorCall, SameButNodes
<1>11. IsMonitor(h) => IsMonitor(g)
  BY DEF IsMonitor, SameButNodes
<1>12. ASSUME NEW s, MonitorInv(h, s) PROVE MonitorInv(g, s)
  BY <1>9, <1>10, <1>11, <1>12 DEF MonitorInv, MonitorFits, SameButNodes
<1>. QED
  BY <1>1, <1>5, <1>7, <1>8, <1>12

(* The frame with which a node's subscribers are gone through.             *)
LEMMA NodeObsFacts ==
    ASSUME NEW h, Sound(h), NEW path \in Paths, NEW phase \in {"capture", "bubble"},
           NEW f, f = PublishFrame(OfNode(path, phase), Subs(h, OfNode(path, phase)))
    PROVE  f \in Frames /\ IsFrame(f, h) /\ f.do = "publish"
<1>1. PICK o : o = OfNode(path, phase)
  OBVIOUS
<1>2. o \in Obs /\ IsNodeObs(o)
  BY <1>1 DEF OfNode, Obs, IsNodeObs, IsOfNode
<1>3. Subs(h, o) \in Seq(Entries)
  <2>1. CASE o \in DOMAIN h.subs
    BY <2>1, SubsFacts
  <2>2. CASE o \notin DOMAIN h.subs
    BY <2>2 DEF Subs
  <2>. QED
    BY <2>1, <2>2
<1>4. f = [do |-> "publish", on |-> o, due |-> Subs(h, o)]
  BY <1>1 DEF PublishFrame
<1>5. f \in Frames
  BY <1>2, <1>3, <1>4 DEF Frames
<1>. QED
  BY <1>2, <1>4, <1>5 DEF IsFrame

(* The frame of a node turns to the next phase, and another begins.        *)
LEMMA NodeGoesOn ==
    ASSUME NEW h, NEW s, NEW past, Fits(h, s, past), s # <<>>, Last(s).do = "node",
           NEW phase \in {"child", "bubble", "end"},
           NEW f, f = [Last(s) EXCEPT !.phase = phase], NEW t, GoesOn(s, f, t),
           NEW u, \/ u = t
                  \/ \E k \in Frames : IsFrame(k, h) /\ k.do \in {"publish", "node"} /\ Begins(t, k, u)
    PROVE  Fits(h, u, past)
<1>. DEFINE top == Last(s)
<1>0. FramesFit(h, s)
  BY DEF Fits, InProgress
<1>1. top \in [do : {"node"}, evt : Seq(Names), node : Paths, phase : {"capture", "child", "bubble", "end"}]
  <2>1. s \in Seq(Frames) /\ Len(s) \in Nat \ {0} /\ top = s[Len(s)] /\ top \in Frames
    BY <1>0, FrontFacts DEF FramesFit
  <2>2. Len(s) \in 1 .. Len(s)
    BY <2>1
  <2>3. IsFrame(top, h)
    BY <1>0, <2>1, <2>2 DEF FramesFit
  <2>. QED
    BY <2>1, <2>3, FrameKinds DEF IsFrame
<1>3. f = [do |-> "node", evt |-> top.evt, node |-> top.node, phase |-> phase]
  BY <1>1
<1>4. f \in Frames /\ IsFrame(f, h) /\ f.do = "node"
  BY <1>1, <1>3 DEF Frames, IsFrame
<1>6. FramesFit(h, t) /\ SameLoops(h, s, t)
  <2>1. s # <<>>
    OBVIOUS
  <2>2. Last(s).do \in {"publish", "node"}
    OBVIOUS
  <2>3. f.do = Last(s).do
    BY <1>4
  <2>4. GoesOn(s, f, t)
    OBVIOUS
  <2>5. f \in Frames /\ IsFrame(f, h)
    BY <1>4
  <2>. QED
    BY ONLY <1>0, <2>1, <2>2, <2>3, <2>4, <2>5, BecomesLoop
<1>7. Fits(h, t, past)
  BY <1>6, LoopsFit
<1>8. CASE u = t
  BY <1>7, <1>8
<1>9. ASSUME NEW k \in Frames, IsFrame(k, h), k.do \in {"publish", "node"}, Begins(t, k, u)
      PROVE  Fits(h, u, past)
  <2>1. FramesFit(h, u) /\ SameLoops(h, t, u)
    BY <1>6, <1>9, PushLoop
  <2>. QED
    BY <1>7, <2>1, LoopsFit
<1>. QED
  BY <1>8, <1>9

(* pubDeep.                                                                *)
LEMMA NodeStepKeeps ==
    ASSUME CallbacksInv, NodeStep
    PROVE  CallbacksInv'
<1>. DEFINE h == objects
            s == stack
            top == Last(s)
            path == top.node
<1>0. /\ Fits(h, s, history) /\ FramesFit(h, s) /\ Sound(h) /\ NodesTyped(h)
      /\ left' = left /\ left \in Scenario /\ history' = history
  BY DEF CallbacksInv, Fits, InProgress, NodeStep
<1>1. s # <<>> /\ top.do = "node"
  BY DEF NodeStep, Doing, Top
<1>2. top \in [do : {"node"}, evt : Seq(Names), node : Paths, phase : {"capture", "child", "bubble", "end"}]
  <2>1. s \in Seq(Frames) /\ Len(s) \in Nat \ {0} /\ top = s[Len(s)] /\ top \in Frames
    BY <1>0, <1>1, FrontFacts DEF FramesFit
  <2>. QED
    BY <1>1, <2>1, FrameKinds
<1>3. path \in Paths
  BY <1>2
<1>4. ASSUME NEW phase \in {"capture", "bubble"}
      PROVE  LET f == PublishFrame(OfNode(path, phase), Subs(h, OfNode(path, phase)))
             IN  f \in Frames /\ IsFrame(f, h) /\ f.do = "publish"
  BY <1>0, <1>3, NodeObsFacts
<1>5. ASSUME NEW phase \in {"child", "bubble", "end"}, NEW u,
             \/ u = PhaseBecomes(phase)
             \/ \E k \in Frames : IsFrame(k, h) /\ k.do \in {"publish", "node"} /\ u = Append(PhaseBecomes(phase), k)
      PROVE  Fits(h, u, history)
  <2>1. PICK f : f = [Last(s) EXCEPT !.phase = phase]
    OBVIOUS
  <2>2. PICK t : t = PhaseBecomes(phase)
    OBVIOUS
  <2>3. GoesOn(s, f, t)
    BY <2>1, <2>2 DEF GoesOn, PhaseBecomes, Top
  <2>4. \/ u = t
        \/ \E k \in Frames : IsFrame(k, h) /\ k.do \in {"publish", "node"} /\ Begins(t, k, u)
    BY <1>5, <2>2 DEF Begins
  <2>5. Fits(h, s, history) /\ s # <<>> /\ Last(s).do = "node"
    BY <1>0, <1>1
  <2>. QED
    BY ONLY <1>5, <2>1, <2>3, <2>4, <2>5, NodeGoesOn
<1>6. CASE /\ objects' = [h EXCEPT !.publishing = @ \cup {path}]
           /\ stack' = Append(PhaseBecomes("child"),
                              PublishFrame(OfNode(path, "capture"), Subs(h, OfNode(path, "capture"))))
  <2>1. PICK u : u = stack'
    OBVIOUS
  <2>2. PICK g : g = objects'
    OBVIOUS
  <2>3. Fits(h, u, history)
    BY <1>4, <1>5, <1>6, <2>1
  <2>4. SameButNodes(h, g) /\ g.nodes = h.nodes /\ g.kept = h.kept
    BY <1>0, <1>6, <2>2 DEF SameButNodes, IsObjects, Sound
  <2>5. Fits(g, u, history)
    BY <1>0, <2>3, <2>4, SameButNodesFits, NodesTypedDepends DEF Fits, InProgress
  <2>. QED
    BY <1>0, <2>1, <2>2, <2>5 DEF CallbacksInv
<1>7. ASSUME objects' = h, stack' = PhaseBecomes("bubble")
      PROVE  CallbacksInv'
  <2>1. Fits(h, stack', history)
    BY <1>5, <1>7
  <2>. QED
    BY <1>0, <1>7, <2>1 DEF CallbacksInv
<1>8. ASSUME objects' = h, NEW child \in Children(h, path, top.evt[Len(path) + 1]),
             stack' = Append(PhaseBecomes("bubble"), NodeFrame(top.evt, child, "capture"))
      PROVE  CallbacksInv'
  <2>1. PICK k : k = NodeFrame(top.evt, child, "capture")
    OBVIOUS
  <2>2. k = [do |-> "node", evt |-> top.evt, node |-> child, phase |-> "capture"]
    BY <2>1 DEF NodeFrame
  <2>3. child \in Paths /\ top.evt \in Seq(Names)
    BY <1>0, <1>2 DEF Children, NodesTyped
  <2>4. k \in Frames /\ IsFrame(k, h) /\ k.do = "node"
    BY <2>2, <2>3 DEF Frames, IsFrame
  <2>5. Fits(h, stack', history)
    BY <1>5, <1>8, <2>1, <2>4
  <2>. QED
    BY <1>0, <1>8, <2>5 DEF CallbacksInv
<1>9. CASE /\ objects' = h
           /\ stack' = Append(PhaseBecomes("end"),
                              PublishFrame(OfNode(path, "bubble"), Subs(h, OfNode(path, "bubble"))))
  <2>1. Fits(h, stack', history)
    BY <1>4, <1>5, <1>9
  <2>. QED
    BY <1>0, <1>9, <2>1 DEF CallbacksInv
<1>10. CASE /\ stack' = Front(s)
            /\ objects' = MaybeClean([h EXCEPT !.publishing = @ \ {path}], path)
  <2>1. PICK u : u = Front(s)
    OBVIOUS
  <2>2. PICK k : k = [h EXCEPT !.publishing = @ \ {path}]
    OBVIOUS
  <2>3. PICK g : g = MaybeClean(k, path)
    OBVIOUS
  <2>4. SameButNodes(h, k) /\ k.nodes = h.nodes /\ k.kept = h.kept
    BY <1>0, <2>2 DEF SameButNodes, IsObjects, Sound
  <2>5. SameButNodes(h, g) /\ g.nodes \subseteq h.nodes /\ g.kept = h.kept
    BY <2>3, <2>4 DEF SameButNodes, IsObjects, MaybeClean
  <2>6. FramesFit(h, u) /\ SameLoops(h, s, u)
    BY <1>0, <1>1, <2>1, PopLoop
  <2>7. Fits(h, u, history)
    BY <1>0, <2>6, LoopsFit
  <2>8. Fits(g, u, history)
    BY <1>0, <2>5, <2>7, SameButNodesFits, NodesTypedDepends DEF Fits, InProgress
  <2>. QED
    BY <1>0, <1>10, <2>1, <2>2, <2>3, <2>8 DEF CallbacksInv
<1>11. CASE top.phase = "child"
  BY <1>7, <1>8, <1>11 DEF NodeStep, Top, Push
<1>. QED
  BY <1>6, <1>9, <1>10, <1>11 DEF NodeStep, Top, Pop, Push

(* The tick is the outermost loop, and nothing else is in progress when it *)
(* goes on.                                                                *)
LEMMA TickIsAlone ==
    ASSUME NEW h, NEW s, NEW past, Fits(h, s, past), s # <<>>, Last(s).do = "tick",
           NEW top, top = Last(s)
    PROVE  /\ Len(s) = 1 /\ s[1] = top /\ TickOf(s) = top.seen
           /\ top \in [do : {"tick"}, on : Obs, seen : SUBSET Entries]
           /\ IsTimerObs(top.on) /\ top.on.tick = Now(h) /\ top.on \in DOMAIN h.subs
           /\ Now(h) \in DOMAIN h.cb /\ h.cb[Now(h)] = top.on.number
           /\ MonitorCalls(h, s) = {}
<1>0. Sound(h) /\ FramesFit(h, s)
  BY DEF Fits, InProgress
<1>1. Len(s) \in Nat \ {0} /\ top = s[Len(s)] /\ top \in Frames
  BY <1>0, FrontFacts DEF FramesFit
<1>2. Len(s) \in 1 .. Len(s)
  BY <1>1
<1>3. IsFrame(top, h) /\ Len(s) = 1
  BY <1>0, <1>1, <1>2 DEF FramesFit
<1>4. top \in [do : {"tick"}, on : Obs, seen : SUBSET Entries]
  BY <1>1, FrameKinds
<1>5. s[1] = top /\ s[1].do = "tick" /\ \A i \in 1 .. Len(s) : i = 1
  BY <1>1, <1>3
<1>6. TickOf(s) = top.seen
  BY <1>5 DEF TickOf
<1>7. /\ IsTimerObs(top.on) /\ top.on.tick = Now(h)
      /\ Now(h) \in DOMAIN h.cb /\ h.cb[Now(h)] = top.on.number
  BY <1>3 DEF IsFrame
<1>8. top.on \in DOMAIN h.subs
  BY <1>0, <1>7 DEF Sound, IsScheduled, IsTimerObs
<1>9. MonitorCalls(h, s) = {}
  BY <1>5 DEF MonitorCalls, IsMonitorCall
<1>. QED
  BY <1>3, <1>4, <1>5, <1>6, <1>7, <1>8, <1>9

(* A tick is over when everybody who was scheduled for it was called.      *)
LEMMA TimePasses ==
    ASSUME NEW h, NEW s, NEW past, Fits(h, s, past), MonitorCalls(h, s) = {},
           NEW seen, seen = TickOf(s), seen # {} => s[1].on.tick = Now(h),
           \A o \in DOMAIN h.subs : IsTimerObs(o) /\ o.tick = Now(h) =>
              \A i \in 1 .. Len(h.subs[o]) : h.subs[o][i] \in seen,
           NEW g, g = [h EXCEPT !.cb = Without(@, Now(h)), !.lastCompleted = Now(h)]
    PROVE  Fits(g, <<>>, past)
<1>. DEFINE c == past.calls
<1>3. Sound(h) /\ h.lastCompleted \in Nat /\ Now(h) = h.lastCompleted + 1
  BY DEF Fits, Sound, Now
<1>4. /\ IsObjects(g) /\ g.subs = h.subs /\ g.kept = h.kept /\ g.nodes = h.nodes
      /\ g.regs = h.regs /\ g.monitor = h.monitor /\ g.lastCompleted = Now(h)
      /\ g.cb = Without(h.cb, Now(h))
  BY <1>3 DEF Sound, IsObjects
<1>5. /\ g.cb = [t \in DOMAIN g.cb |-> g.cb[t]]
      /\ \A t \in DOMAIN g.cb : t \in DOMAIN h.cb /\ t # Now(h) /\ g.cb[t] = h.cb[t]
      /\ \A t \in DOMAIN h.cb : t # Now(h) => t \in DOMAIN g.cb
  BY <1>4 DEF Without
<1>6. \A o \in DOMAIN h.subs : o.tick \in Nat /\ IsObs(o)
  BY <1>3, SubsFacts DEF IsObs, Obs
<1>7. IsScheduled(g)
  <2>1. ASSUME NEW t \in DOMAIN g.cb
        PROVE  t \in Nat /\ t > g.lastCompleted /\ OfTimer(t, g.cb[t]) \in DOMAIN g.subs
    <3>1. t \in Nat /\ t > h.lastCompleted /\ OfTimer(t, h.cb[t]) \in DOMAIN h.subs
      BY <1>3, <1>5 DEF Sound, IsScheduled
    <3>. QED
      BY <1>3, <1>4, <1>5, <3>1
  <2>2. ASSUME NEW o \in DOMAIN g.subs, IsTimerObs(o), o.tick > g.lastCompleted, g.subs[o] # <<>>
        PROVE  o.tick \in DOMAIN g.cb /\ g.cb[o.tick] = o.number
    <3>1. o.tick > h.lastCompleted /\ o.tick # Now(h) /\ o \in DOMAIN h.subs /\ h.subs[o] # <<>>
      BY <1>3, <1>4, <1>6, <2>2
    <3>2. o.tick \in DOMAIN h.cb /\ h.cb[o.tick] = o.number
      BY <1>3, <2>2, <3>1 DEF Sound, IsScheduled
    <3>. QED
      BY <1>5, <3>1, <3>2
  <2>. QED
    BY <2>1, <2>2 DEF IsScheduled
<1>8. \A e : (IsEntry(g, e) <=> IsEntry(h, e)) /\ Target(g, e) = Target(h, e)
  BY <1>4 DEF IsEntry, Target
<1>9. Sound(g)
  <2>1. IsNumbered(g)
    BY <1>3, <1>4 DEF Sound, IsNumbered, OfSameTick
  <2>2. \A o \in DOMAIN g.subs : IsSubs(g, o)
    BY <1>3, <1>4, <1>8 DEF Sound, IsSubs
  <2>3. /\ g.subs = [o \in DOMAIN g.subs |-> g.subs[o]] /\ g.lastCompleted \in Nat
        /\ g.regs \in Seq(Regs) /\ \A r \in 1 .. Len(g.regs) : IsReg(g.regs[r])
    BY <1>3, <1>4 DEF Sound
  <2>. QED
    BY <1>4, <1>5, <1>7, <2>1, <2>2, <2>3 DEF Sound, IsObjects
<1>10. NodesTyped(g)
  BY <1>4, NodesTypedDepends DEF Fits
<1>11. \A r : (Primary(g, r) <=> Primary(h, r)) /\ (Backup(g, r) <=> Backup(h, r))
  BY <1>4 DEF Primary, Backup, HasSub, Subs
<1>14. CallsFit(h, s, c) /\ \A e \in seen : Called(c, e) /\ Target(h, e).tick = Now(h)
  BY DEF Fits, InProgress, CallsFit
<1>15. Obeyed(g, c, past.cancelled, past.saidTrue)
  <2>1. Obeyed(h, c, past.cancelled, past.saidTrue)
    BY DEF Fits
  <2>2. ASSUME NEW o \in DOMAIN g.subs, IsTimerObs(o), o.tick <= g.lastCompleted,
               NEW i \in 1 .. Len(g.subs[o])
        PROVE  Called(c, g.subs[o][i])
    <3>1. o \in DOMAIN h.subs /\ i \in 1 .. Len(h.subs[o]) /\ g.subs[o] = h.subs[o]
      BY <1>4, <2>2
    <3>2. CASE o.tick <= h.lastCompleted
      BY <2>1, <2>2, <3>1, <3>2 DEF Obeyed
    <3>3. CASE o.tick = Now(h)
      BY <1>14, <2>2, <3>1, <3>3
    <3>. QED
      BY <1>3, <1>4, <1>6, <2>2, <3>1, <3>2, <3>3
  <2>. HIDE DEF c
  <2>. QED
    BY <1>4, <1>8, <1>11, <2>1, <2>2 DEF Obeyed
<1>16. InProgress(g, <<>>, c)
  <2>1. FramesFit(g, <<>>) /\ TickOf(<<>>) = {}
    BY DEF FramesFit, TickOf
  <2>2. ASSUME NEW i \in 1 .. Len(c), IsTimerObs(Target(g, c[i])) PROVE Target(g, c[i]).tick <= g.lastCompleted
    <3>1. IsEntry(h, c[i])
      BY DEF Fits, Obeyed
    <3>2. Target(h, c[i]).tick \in Nat
      <4>1. /\ c[i].reg \in 1 .. Len(h.regs) /\ h.regs \in Seq(Regs)
        BY <1>3, <3>1 DEF IsEntry, Sound
      <4>2. h.regs[c[i].reg] \in Regs
        BY <4>1
      <4>. QED
        BY <4>2 DEF Target, Regs, Obs
    <3>3. Target(h, c[i]).tick <= h.lastCompleted \/ c[i] \in seen
      BY <1>8, <1>14, <2>2 DEF CallsFit
    <3>. QED
      BY <1>3, <1>4, <1>8, <1>14, <3>2, <3>3
  <2>3. CallsFit(g, <<>>, c)
    BY <2>1, <2>2 DEF CallsFit
  <2>. QED
    BY <2>1, <2>3 DEF InProgress
<1>17. Awaited(g, {}) = Awaited(h, seen)
  <2>1. ASSUME NEW r \in 1 .. Len(h.regs), h.regs[r].kind = "monitor", Primary(h, r)
        PROVE  h.regs[r].on.tick > Now(h) <=>
                  h.regs[r].on.tick > h.lastCompleted /\ Entry(r, "primary") \notin seen
    <3>1. PICK o : o = h.regs[r].on
      OBVIOUS
    <3>2. /\ IsTimerObs(o) /\ o \in DOMAIN h.subs /\ Among(h.subs[o], Entry(r, "primary"))
          /\ Target(h, Entry(r, "primary")) = o /\ h.subs[o] # <<>>
      BY <1>3, <2>1, <3>1, HasSubFacts DEF Primary, Sound, IsReg
    <3>3. o.tick \in Nat
      BY <1>6, <3>2
    <3>4. o.tick = Now(h) => Entry(r, "primary") \in seen
      BY <3>2 DEF Among
    <3>5. Entry(r, "primary") \in seen => o.tick = Now(h)
      BY <1>14, <3>2
    <3>. QED
      BY <1>3, <3>1, <3>3, <3>4, <3>5
  <2>. QED
    BY <1>4, <1>11, <2>1 DEF Awaited
<1>18. MonitorInv(g, <<>>)
  <2>1. MonitorCalls(g, <<>>) = {} /\ TickOf(<<>>) = {}
    BY DEF MonitorCalls, TickOf
  <2>2. MonitorFits(h, seen, FALSE)
    BY DEF Fits, MonitorInv
  <2>3. MonitorFits(g, {}, FALSE)
    BY <1>4, <1>17, <2>2 DEF MonitorFits, IsMonitor
  <2>. QED
    BY <2>1, <2>3 DEF MonitorInv
<1>. QED
  BY <1>9, <1>10, <1>15, <1>16, <1>18 DEF Fits

(* The tick that is in progress ends.                                      *)
LEMMA TickEnds ==
    ASSUME NEW h, NEW s, NEW past, Fits(h, s, past), s # <<>>, Last(s).do = "tick",
           \A i \in 1 .. Len(h.subs[Last(s).on]) : h.subs[Last(s).on][i] \in Last(s).seen,
           NEW g, g = [h EXCEPT !.cb = Without(@, Now(h)), !.lastCompleted = Now(h)]
    PROVE  Fits(g, <<>>, past)
<1>1. PICK top : top = Last(s)
  OBVIOUS
<1>2. /\ Len(s) = 1 /\ s[1] = top /\ TickOf(s) = top.seen
      /\ IsTimerObs(top.on) /\ top.on.tick = Now(h) /\ top.on \in DOMAIN h.subs
      /\ h.cb[Now(h)] = top.on.number
      /\ MonitorCalls(h, s) = {}
  BY <1>1, TickIsAlone
<1>3. Sound(h) /\ h.lastCompleted \in Nat /\ Now(h) = h.lastCompleted + 1
  BY DEF Fits, Sound, Now
<1>4. ASSUME NEW o \in DOMAIN h.subs, IsTimerObs(o), o.tick = Now(h), NEW i \in 1 .. Len(h.subs[o])
      PROVE  h.subs[o][i] \in top.seen
  <2>1. h.subs[o] # <<>> /\ o.tick > h.lastCompleted
    BY <1>3, <1>4
  <2>2. h.cb[o.tick] = o.number
    BY <1>3, <1>4, <2>1 DEF Sound, IsScheduled
  <2>3. o = top.on
    BY <1>2, <1>4, <2>2 DEF IsTimerObs
  <2>. QED
    BY <1>1, <1>4, <2>3
<1>5. top.seen = TickOf(s) /\ (top.seen # {} => s[1].on.tick = Now(h))
  BY <1>2
<1>. QED
  BY <1>2, <1>4, <1>5, TimePasses

(* A tick calls the next who is scheduled for it.                          *)
LEMMA TickCalls ==
    ASSUME NEW h, NEW s, NEW past, Fits(h, s, past), s # <<>>, Last(s).do = "tick",
           NEW e, HasSub(h, Last(s).on, e), e \notin Last(s).seen,
           NEW f, f = [Last(s) EXCEPT !.seen = @ \cup {e}], NEW t, GoesOn(s, f, t),
           NEW g, g = BeforeCall(h, e), NEW u, Calling(t, e, u),
           NEW now, now = [past EXCEPT !.calls = Append(@, e)]
    PROVE  Fits(g, u, now) /\ (h.regs[e.reg].kind # "monitor" => Fits(g, t, now))
<1>1. PICK top : top = Last(s)
  OBVIOUS
<1>2. /\ Len(s) = 1 /\ s[1] = top /\ TickOf(s) = top.seen
      /\ top \in [do : {"tick"}, on : Obs, seen : SUBSET Entries]
      /\ IsTimerObs(top.on) /\ top.on.tick = Now(h) /\ top.on \in DOMAIN h.subs
      /\ Now(h) \in DOMAIN h.cb /\ h.cb[Now(h)] = top.on.number
      /\ MonitorCalls(h, s) = {}
  BY <1>1, TickIsAlone
<1>3. Sound(h) /\ NodesTyped(h) /\ h.lastCompleted \in Nat /\ Now(h) = h.lastCompleted + 1
  BY DEF Fits, Sound, Now
<1>4. /\ now = [calls |-> now.calls, cancelled |-> now.cancelled, saidTrue |-> now.saidTrue,
                late |-> now.late]
      /\ now.calls = Append(past.calls, e)
      /\ now.cancelled = past.cancelled /\ now.saidTrue = past.saidTrue
  BY DEF Fits
<1>. DEFINE d == now.calls
<1>5. Takes(h, g, Dropped(h, e)) /\ Evolves(h, g) /\ Obeyed(g, d, now.cancelled, now.saidTrue)
  <2>1. Obeyed(h, past.calls, past.cancelled, past.saidTrue)
    BY DEF Fits
  <2>2. PICK c : c = past.calls
    OBVIOUS
  <2>3. PICK q : q = Append(c, e)
    OBVIOUS
  <2>4. Sound(h) /\ NodesTyped(h) /\ Obeyed(h, c, past.cancelled, past.saidTrue)
        /\ HasSub(h, Last(s).on, e) /\ g = BeforeCall(h, e)
    BY <1>3, <2>1, <2>2
  <2>5. Takes(h, g, Dropped(h, e)) /\ Evolves(h, g) /\ Obeyed(g, q, past.cancelled, past.saidTrue)
    BY ONLY <2>3, <2>4, CallObeys
  <2>. QED
    BY <1>4, <2>2, <2>3, <2>5
<1>6. IsEntry(h, e) /\ Target(h, e) = top.on /\ e \in Entries
  BY <1>1, <1>3, HasSubFacts DEF IsEntry
<1>7. /\ past.calls \in Seq(Entries) /\ \A i \in 1 .. Len(past.calls) : IsEntry(h, past.calls[i])
      /\ CallsFit(h, s, past.calls)
  BY DEF Fits, Obeyed, InProgress
<1>8. /\ Len(d) = Len(past.calls) + 1 /\ Len(past.calls) \in Nat /\ d[Len(past.calls) + 1] = e
      /\ \A i \in 1 .. Len(past.calls) : d[i] = past.calls[i]
  BY <1>4, <1>6, <1>7
<1>9. \A i \in 1 .. Len(d) : i \in 1 .. Len(past.calls) \/ i = Len(past.calls) + 1
  BY <1>8
<1>10. \A i \in 1 .. Len(past.calls) : i \in 1 .. Len(d)
  BY <1>8
<1>. HIDE DEF d
<1>11. /\ f = [do |-> "tick", on |-> top.on, seen |-> top.seen \cup {e}]
       /\ f \in Frames /\ IsFrame(f, h)
  <2>1. f = [do |-> "tick", on |-> top.on, seen |-> top.seen \cup {e}]
    BY <1>1, <1>2
  <2>2. top.on \in Obs /\ top.seen \cup {e} \in SUBSET Entries
    BY <1>2, <1>6
  <2>3. f \in Frames
    BY ONLY <2>1, <2>2 DEF Frames
  <2>4. f.do = "tick" /\ f.on = top.on
    BY <2>1
  <2>5. IsFrame(f, h)
    BY ONLY <1>2, <2>4 DEF IsFrame
  <2>. QED
    BY ONLY <2>1, <2>3, <2>5
<1>12. t \in Seq(Frames) /\ Len(t) = 1 /\ t[1] = f /\ t # <<>>
  <2>1. s \in Seq(Frames)
    BY DEF Fits, InProgress, FramesFit
  <2>2. PICK v : v = Front(s) /\ t = Append(v, f)
    BY DEF GoesOn
  <2>3. v \in Seq(Frames) /\ Len(v) = 0
    <3>1. v = Front(s) /\ s # <<>>
      BY <2>2
    <3>2. Len(v) = Len(s) - 1 /\ v \in Seq(Frames)
      BY ONLY <2>1, <3>1, FrontFacts
    <3>3. Len(s) = 1
      BY <1>2
    <3>. QED
      BY ONLY <3>2, <3>3
  <2>. QED
    BY ONLY <1>11, <2>2, <2>3
<1>13. FramesFit(h, t) /\ TickOf(t) = top.seen \cup {e}
  <2>1. \A i \in 1 .. Len(t) : i = 1
    BY <1>12
  <2>2. FramesFit(h, t)
    BY ONLY <1>11, <1>12, <2>1 DEF FramesFit
  <2>3. f.do = "tick" /\ f.seen = top.seen \cup {e}
    BY ONLY <1>11
  <2>. QED
    BY ONLY <1>12, <2>2, <2>3 DEF TickOf
<1>14. CallsFit(h, t, d)
  <2>1. \A x : Called(past.calls, x) => Called(d, x)
    BY <1>8, <1>10 DEF Called
  <2>2. Called(d, e)
    <3>1. Len(past.calls) + 1 \in 1 .. Len(d)
      BY <1>8
    <3>. QED
      BY <1>8, <3>1 DEF Called
  <2>3. \A x \in top.seen : Called(d, x) /\ Target(h, x) = top.on
    BY <1>2, <1>7, <2>1 DEF CallsFit
  <2>4. \A x \in TickOf(t) : Called(d, x) /\ Target(h, x) = t[1].on
    BY <1>6, <1>11, <1>12, <1>13, <2>2, <2>3
  <2>5. \A i \in 1 .. Len(d) : IsTimerObs(Target(h, d[i])) =>
            Target(h, d[i]).tick <= h.lastCompleted \/ d[i] \in TickOf(t)
    BY <1>2, <1>7, <1>8, <1>9, <1>13 DEF CallsFit
  <2>. QED
    BY <2>4, <2>5 DEF CallsFit
<1>16. \A i \in 1 .. Len(d) : IsEntry(h, d[i])
  BY <1>6, <1>7, <1>8, <1>9
<1>17. /\ InProgress(g, t, d)
       /\ InProgress(g, u, d) /\ TickOf(u) = top.seen \cup {e} /\ FramesFit(h, u)
       /\ Len(u) = 2 /\ u[2] = CallFrame(e) /\ u[1] = f
  <2>1. Sound(h) /\ Evolves(h, g) /\ IsEntry(h, e) /\ t # <<>> /\ FramesFit(h, t)
    BY <1>3, <1>5, <1>6, <1>12, <1>13
  <2>2. /\ InProgress(g, t, d)
        /\ InProgress(g, u, d) /\ TickOf(u) = TickOf(t) /\ FramesFit(h, u)
        /\ Len(u) = Len(t) + 1 /\ u[Len(t) + 1] = CallFrame(e)
        /\ \A i \in 1 .. Len(t) : u[i] = t[i]
    BY ONLY <1>14, <1>16, <2>1, Calling(t, e, u), CallFits
  <2>. QED
    BY <1>12, <1>13, <2>2
<1>18. g.regs = h.regs /\ g.monitor = h.monitor
  BY <1>5 DEF Takes
<1>19. /\ \A i \in 1 .. Len(u) : i = 1 \/ i = 2
       /\ u[1].do = "tick" /\ u[2].do = "call" /\ u[2].entry = e /\ 2 \in 1 .. Len(u)
  BY <1>11, <1>17 DEF CallFrame
<1>20. MonitorFits(h, top.seen, FALSE)
  BY <1>2 DEF Fits, MonitorInv
<1>21. Awaited(g, TickOf(u)) = {r \in Awaited(h, top.seen) : Entry(r, "primary") # e /\ Entry(r, "primary") \notin Dropped(h, e)}
  <2>1. Awaited(g, TickOf(u)) = {r \in Awaited(h, TickOf(u)) : Entry(r, "primary") \notin Dropped(h, e)}
    BY <1>3, <1>5, AwaitedTakes
  <2>2. Awaited(h, TickOf(u)) = {r \in Awaited(h, top.seen) : Entry(r, "primary") # e}
    BY <1>17 DEF Awaited
  <2>. QED
    BY <2>1, <2>2
<1>22. IsMonitor(g)
  BY <1>18, <1>20 DEF MonitorFits, IsMonitor
<1>23. \A r : Entry(r, "primary") = e \/ Entry(r, "primary") \in Dropped(h, e) => r = e.reg
  BY DEF Dropped, Entry
<1>24. CASE h.regs[e.reg].kind # "monitor"
  <2>1. MonitorCalls(g, u) = {}
    BY <1>18, <1>19, <1>24 DEF MonitorCalls, IsMonitorCall
  <2>2. e.reg \notin Awaited(h, top.seen)
    BY <1>24 DEF Awaited
  <2>3. Awaited(g, TickOf(u)) = Awaited(h, top.seen)
    BY <1>21, <1>23, <2>2
  <2>4. MonitorInv(g, u)
    BY <1>18, <1>20, <1>22, <2>1, <2>3 DEF MonitorInv, MonitorFits
  <2>5. MonitorCalls(g, t) = {}
    <3>1. f.do = "tick"
      BY ONLY <1>11
    <3>2. \A i \in 1 .. Len(t) : t[i].do = "tick"
      BY ONLY <1>12, <3>1
    <3>. QED
      BY <3>2 DEF MonitorCalls, IsMonitorCall
  <2>6. MonitorInv(g, t)
    BY <1>13, <1>17, <1>18, <1>20, <1>22, <2>3, <2>5 DEF MonitorInv, MonitorFits
  <2>. QED
    BY <1>4, <1>5, <1>17, <2>4, <2>6 DEF Fits, Takes, d
<1>25. CASE h.regs[e.reg].kind = "monitor"
  <2>1. e = Entry(e.reg, "primary") /\ e.reg \in 1 .. Len(h.regs)
    BY <1>6, <1>25, EntryFacts DEF HasBackup
  <2>2. h.regs[e.reg].on = top.on /\ Primary(h, e.reg)
    <3>1. h.regs[e.reg].on = top.on
      BY <1>6, <2>1 DEF Target, Entry
    <3>. QED
      BY <1>1, <2>1, <3>1 DEF Primary
  <2>3. e.reg \in Awaited(h, top.seen)
    BY <1>1, <1>2, <1>3, <1>25, <2>1, <2>2 DEF Awaited
  <2>4. Awaited(h, top.seen) = {e.reg} /\ h.monitor.cancel = e.reg /\ e.reg # 0
    BY <1>20, <2>3 DEF MonitorFits
  <2>5. Awaited(g, TickOf(u)) = {}
    BY <1>21, <2>1, <2>4
  <2>6. MonitorCalls(g, u) = {2}
    BY <1>18, <1>19, <1>25 DEF MonitorCalls, IsMonitorCall
  <2>7. u[2].entry \in TickOf(u)
    BY <1>17, <1>19
  <2>8. MonitorInv(g, u)
    BY <1>18, <1>19, <1>22, <2>4, <2>5, <2>6, <2>7 DEF MonitorInv, MonitorFits
  <2>. QED
    BY <1>4, <1>5, <1>17, <1>25, <2>8 DEF Fits, Takes, d
<1>. QED
  BY <1>24, <1>25

(* _runTick's loop.                                                        *)
LEMMA TickStepKeeps ==
    ASSUME CallbacksInv, TickStep
    PROVE  CallbacksInv'
<1>. DEFINE h == objects
            s == stack
            top == Last(s)
            scheduled == Subs(h, top.on)
            next == SelectInSeq(scheduled, LAMBDA e : e \notin top.seen)
<1>0. Fits(h, s, history) /\ Sound(h) /\ left' = left /\ left \in Scenario
  BY DEF CallbacksInv, Fits, TickStep
<1>1. s # <<>> /\ top.do = "tick"
  BY DEF TickStep, Doing, Top
<1>2. top.on \in DOMAIN h.subs /\ top.on.tick = Now(h)
  BY <1>0, <1>1, TickIsAlone
<1>3. scheduled = h.subs[top.on] /\ scheduled \in Seq(Entries)
  BY <1>0, <1>2, SubsFacts
<1>4. \/ next = 0 /\ \A i \in 1 .. Len(scheduled) : scheduled[i] \in top.seen
      \/ next \in 1 .. Len(scheduled) /\ scheduled[next] \notin top.seen
  BY <1>3, SelectFacts
<1>5. CASE next = 0
  <2>1. \A i \in 1 .. Len(scheduled) : scheduled[i] \in top.seen
    BY <1>4, <1>5
  <2>2. stack' = Front(s) /\ history' = history
        /\ objects' = [h EXCEPT !.cb = Without(@, Now(h)), !.lastCompleted = Now(h)]
    BY <1>2, <1>5 DEF TickStep, Top, Pop
  <2>3. PICK g : g = objects'
    OBVIOUS
  <2>4. Fits(g, <<>>, history)
    BY <1>0, <1>1, <1>3, <2>1, <2>2, <2>3, TickEnds
  <2>5. stack' = <<>>
    <3>1. Len(s) = 1 /\ s \in Seq(Frames)
      BY <1>0, <1>1, TickIsAlone DEF Fits, InProgress, FramesFit
    <3>2. PICK v : v = Front(s)
      OBVIOUS
    <3>3. v \in Seq(Frames) /\ Len(v) = 0
      BY <1>1, <3>1, <3>2, FrontFacts
    <3>. QED
      BY <2>2, <3>2, <3>3
  <2>. QED
    BY <1>0, <2>2, <2>3, <2>4, <2>5 DEF CallbacksInv
<1>6. CASE next # 0
  <2>1. PICK e : e = scheduled[next]
    OBVIOUS
  <2>2. next \in 1 .. Len(scheduled) /\ e \notin top.seen
    BY <1>4, <1>6, <2>1
  <2>3. HasSub(h, top.on, e)
    <3>1. Among(h.subs[top.on], e)
      BY <1>3, <2>1, <2>2 DEF Among
    <3>. QED
      BY <1>0, <1>2, <3>1, SubsFacts
  <2>4. Call(Append(Front(s), [top EXCEPT !.seen = @ \cup {e}]), e)
    BY <1>6, <2>1 DEF TickStep, Top
  <2>5. PICK f : f = [Last(s) EXCEPT !.seen = @ \cup {e}]
    OBVIOUS
  <2>6. PICK t : GoesOn(s, f, t)
    BY DEF GoesOn
  <2>7. PICK g : g = BeforeCall(h, e)
    OBVIOUS
  <2>8. PICK u : Calling(t, e, u)
    BY DEF Calling
  <2>9. PICK now : now = [history EXCEPT !.calls = Append(@, e)]
    OBVIOUS
  <2>10. Fits(g, u, now) /\ (h.regs[e.reg].kind # "monitor" => Fits(g, t, now))
    BY ONLY <1>0, <1>1, <2>2, <2>3, <2>5, <2>6, <2>7, <2>8, <2>9, TickCalls
  <2>11. objects' = g /\ (stack' = u \/ (BeforeCallFails(h, e) /\ stack' = t)) /\ history' = now
    BY <2>4, <2>5, <2>6, <2>7, <2>8, <2>9 DEF Call, Push, GoesOn, Calling
  <2>12. BeforeCallFails(h, e) => h.regs[e.reg].kind # "monitor"
    BY DEF BeforeCallFails
  <2>. QED
    BY <1>0, <2>10, <2>11, <2>12 DEF CallbacksInv
<1>. QED
  BY <1>5, <1>6

(* _runTick.                                                               *)
LEMMA RunTickKeeps ==
    ASSUME CallbacksInv, RunTick
    PROVE  CallbacksInv'
<1>. DEFINE h == objects
            c == history.calls
<1>0. /\ Fits(h, <<>>, history) /\ Sound(h) /\ stack = <<>> /\ history' = history
      /\ h.lastCompleted \in Nat /\ Now(h) = h.lastCompleted + 1 /\ Now(h) \in Nat
  BY DEF CallbacksInv, Fits, RunTick, Sound, Now
<1>1. left' \in Scenario
  BY DEF CallbacksInv, RunTick, Scenario
<1>2. TickOf(<<>>) = {} /\ MonitorCalls(h, <<>>) = {}
  BY DEF TickOf, MonitorCalls
<1>3. CASE Now(h) \in DOMAIN h.cb
  <2>1. PICK o : o = OfTick(h, Now(h))
    OBVIOUS
  <2>2. PICK f : f = TickFrame(o, {})
    OBVIOUS
  <2>3. PICK t : t = Append(<<>>, f)
    OBVIOUS
  <2>4. objects' = h /\ stack' = t
    BY <1>3, <2>1, <2>2, <2>3 DEF RunTick, Push
  <2>5. IsTimerObs(o) /\ o \in Obs /\ o.tick = Now(h) /\ o.number = h.cb[Now(h)]
    BY <1>0, <1>3, <2>1, OfTickFacts DEF IsObs
  <2>6. f = [do |-> "tick", on |-> o, seen |-> {}]
    BY <2>2 DEF TickFrame
  <2>7. f \in Frames
    BY <2>5, <2>6 DEF Frames
  <2>8. IsFrame(f, h)
    BY <1>3, <2>5, <2>6 DEF IsFrame
  <2>9. t \in Seq(Frames) /\ Len(t) = 1 /\ t[1] = f /\ \A i \in 1 .. Len(t) : i = 1
    BY <2>3, <2>7
  <2>10. FramesFit(h, t)
    BY <2>8, <2>9 DEF FramesFit
  <2>11. TickOf(t) = {} /\ MonitorCalls(h, t) = {}
    BY <2>6, <2>9 DEF TickOf, MonitorCalls, IsMonitorCall
  <2>12. CallsFit(h, t, c)
    BY <1>0, <1>2, <2>11 DEF CallsFit, Fits, InProgress
  <2>14. MonitorInv(h, t)
    BY <1>0, <1>2, <2>11 DEF MonitorInv, Fits
  <2>15. Fits(h, t, history)
    BY <1>0, <2>10, <2>12, <2>14 DEF Fits, InProgress
  <2>. QED
    BY <1>0, <1>1, <2>4, <2>15 DEF CallbacksInv
<1>4. CASE Now(h) \notin DOMAIN h.cb
  <2>1. PICK g : g = [h EXCEPT !.cb = Without(@, Now(h)), !.lastCompleted = Now(h)]
    OBVIOUS
  <2>2. Without(h.cb, Now(h)) = h.cb
    BY <1>0, <1>4 DEF Without, Sound
  <2>3. objects' = g /\ stack' = <<>>
    BY <1>0, <1>4, <2>1, <2>2 DEF RunTick, Sound
  <2>4. ASSUME NEW o \in DOMAIN h.subs, IsTimerObs(o), o.tick = Now(h)
        PROVE  \A i \in 1 .. Len(h.subs[o]) : h.subs[o][i] \in {}
    <3>1. o.tick > h.lastCompleted /\ o.tick \notin DOMAIN h.cb
      BY <1>0, <1>4, <2>4
    <3>2. h.subs[o] = <<>>
      BY <1>0, <2>4, <3>1 DEF Sound, IsScheduled
    <3>. QED
      BY <3>2
  <2>5. Fits(g, <<>>, history)
    BY <1>0, <1>2, <2>1, <2>4, TimePasses
  <2>. QED
    BY <1>0, <1>1, <2>3, <2>5 DEF CallbacksInv
<1>. QED
  BY <1>3, <1>4

(* Those who are in control leave the loops alone, and what they may leave *)
(* of the monitor fits.                                                    *)
LEMMA ControlFits ==
    ASSUME NEW h, NEW s, NEW past, Fits(h, s, past), NEW g, Evolves(h, g),
           MonitorFits(g, TickOf(s), MonitorCalls(h, s) # {})
    PROVE  Fits(g, s, past)
<1>1. Sound(h) /\ InProgress(h, s, past.calls) /\ FramesFit(h, s)
      /\ Obeyed(h, past.calls, past.cancelled, past.saidTrue)
  BY DEF Fits, InProgress
<1>2. Obeyed(g, past.calls, past.cancelled, past.saidTrue)
  BY <1>1, EvolvesObeys
<1>3. InProgress(g, s, past.calls)
  BY <1>1, EvolvesInProgress DEF Obeyed
<1>4. MonitorCalls(g, s) = MonitorCalls(h, s)
  <2>1. ASSUME NEW i \in 1 .. Len(s), s[i].do = "call" PROVE g.regs[s[i].entry.reg] = h.regs[s[i].entry.reg]
    BY <1>1, <2>1 DEF FramesFit, IsFrame, IsEntry, Evolves
  <2>. QED
    BY <2>1 DEF MonitorCalls, IsMonitorCall
<1>5. MonitorInv(g, s)
  BY <1>4 DEF Fits, MonitorInv
<1>. QED
  BY <1>2, <1>3, <1>5 DEF Fits, Evolves

(* Nothing in the invariant is about what is left but its type.            *)
LEMMA UsesFacts ==
    ASSUME NEW budget \in {"observes", "subs", "cancels", "publishes", "drives"}, left \in Scenario, Uses(budget)
    PROVE  left' \in Scenario
  BY DEF Uses, Scenario

(* Whoever was called by the tick in progress has registered.              *)
LEMMA SeenFacts ==
    ASSUME NEW h, NEW s, NEW past, Fits(h, s, past)
    PROVE  \A e \in TickOf(s) : e.reg \in 1 .. Len(h.regs)
  BY DEF Fits, InProgress, CallsFit, Obeyed, Called, IsEntry

(* EventContext.subscribe makes nodes, and a Subscribe for the last.        *)
LEMMA ObserveKeeps ==
    ASSUME CallbacksInv, NEW prefix \in left.prefixes, NEW phase \in {"capture", "bubble"},
           Observe(prefix, phase)
    PROVE  CallbacksInv'
<1>. DEFINE h == objects
            s == stack
<1>0. /\ Fits(h, s, history) /\ Sound(h) /\ NodesTyped(h) /\ left \in Scenario
      /\ stack' = s /\ history' = history /\ Uses("observes")
  BY DEF CallbacksInv, Fits, Observe
<1>1. prefix \in Seq(Names)
  BY <1>0 DEF Scenario
<1>2. PICK madeFor \in [DOMAIN prefix -> 1 .. Len(h.kept) + 1] :
          objects' = MakeSubscribe(h, NodeOf(prefix, madeFor), phase)
  BY DEF Observe
<1>3. PICK node : node = NodeOf(prefix, madeFor)
  OBVIOUS
<1>4. node \in Paths
  <2>1. Len(h.kept) \in Nat
    BY <1>0 DEF NodesTyped
  <2>2. \A i \in 1 .. Len(prefix) : [name |-> prefix[i], for |-> madeFor[i]] \in NodeKeys
    BY <1>1, <2>1 DEF NodeKeys
  <2>3. node = [i \in 1 .. Len(prefix) |-> [name |-> prefix[i], for |-> madeFor[i]]]
    BY <1>1, <1>3 DEF NodeOf
  <2>4. Len(prefix) \in Nat
    BY <1>1
  <2>. QED
    BY ONLY <2>2, <2>3, <2>4, IsASeq DEF Paths
<1>5. PICK g : g = MakeSubscribe(h, node, phase)
  OBVIOUS
<1>6. SameButNodes(h, g) /\ g.nodes = h.nodes \cup (Prefixes(node) \ {<<>>})
      /\ g.kept = Append(h.kept, OfNode(node, phase))
  BY <1>0, <1>5 DEF MakeSubscribe, SameButNodes, IsObjects, Sound
<1>7. NodesTyped(g)
  <2>1. OfNode(node, phase) \in Obs /\ IsNodeObs(OfNode(node, phase))
    BY <1>4 DEF OfNode, Obs, IsNodeObs, IsOfNode
  <2>2. Prefixes(node) \subseteq Paths
    BY <1>4 DEF Prefixes, Paths
  <2>3. h.kept \in Seq(Obs)
    BY <1>0 DEF NodesTyped
  <2>4. /\ g.kept \in Seq(Obs) /\ Len(g.kept) = Len(h.kept) + 1 /\ g.kept[Len(h.kept) + 1] = OfNode(node, phase)
        /\ \A i \in 1 .. Len(h.kept) : g.kept[i] = h.kept[i]
    BY <1>6, <2>1, <2>3
  <2>5. \A i \in 1 .. Len(g.kept) : i \in 1 .. Len(h.kept) \/ i = Len(h.kept) + 1
    BY <2>3, <2>4
  <2>. QED
    BY <1>0, <1>6, <2>1, <2>2, <2>4, <2>5 DEF NodesTyped
<1>8. Fits(g, s, history)
  BY <1>0, <1>6, <1>7, SameButNodesFits DEF Fits, InProgress
<1>9. objects' = g /\ left' \in Scenario
  BY <1>0, <1>2, <1>3, <1>5, UsesFacts
<1>. QED
  BY <1>0, <1>8, <1>9 DEF CallbacksInv

(* subscribe, for all kinds but the monitor's.                             *)
LEMMA SubscribeKeeps ==
    ASSUME CallbacksInv, NEW kind \in left.kinds, NEW on \in Observed, NEW backup \in Backups(kind),
           Subscribe(kind, on, backup)
    PROVE  CallbacksInv'
<1>. DEFINE h == objects
            s == stack
<1>0. /\ Fits(h, s, history) /\ Sound(h) /\ NodesTyped(h) /\ left \in Scenario
      /\ stack' = s /\ h.lastCompleted \in Nat /\ Uses("subs")
  BY DEF CallbacksInv, Fits, Sound, Subscribe
<1>1. kind \in {"plain", "once", "untilTrue", "backup", "recover"} /\ left.delays \subseteq Nat
  BY <1>0 DEF Scenario
<1>2. ASSUME NEW delay \in left.delays, NEW o, o = OfTick(h, Now(h) + delay)
      PROVE  Opens(h, o) /\ IsTimerObs(o)
  <2>1. Now(h) + delay \in Nat /\ Now(h) + delay > h.lastCompleted
    BY <1>0, <1>1 DEF Now
  <2>2. IsTimerObs(o) /\ IsObs(o)
    BY <1>0, <1>2, <2>1, OfTickFacts
  <2>. QED
    BY <1>2, <2>1, <2>2 DEF Opens
<1>3. Opens(h, on)
  <2>1. CASE on \in ToSet(h.kept)
    <3>1. PICK i \in 1 .. Len(h.kept) : on = h.kept[i]
      BY <1>0, <2>1 DEF NodesTyped, ToSet
    <3>2. on \in Obs /\ IsNodeObs(on)
      BY <1>0, <3>1 DEF NodesTyped
    <3>. QED
      BY <3>2 DEF Opens, IsObs
  <2>. QED
    BY <1>2, <2>1 DEF Observed
<1>4. CanRegister(h, kind, on, backup)
  <2>1. kind \in {"backup", "recover"} => Opens(h, backup) /\ IsTimerObs(backup)
    BY <1>2 DEF Backups
  <2>2. kind \notin {"backup", "recover"} => backup = Nowhere
    BY DEF Backups
  <2>. QED
    BY <1>1, <1>3, <2>1, <2>2 DEF CanRegister, AllKinds
<1>5. PICK g : g = Register(h, kind, on, backup)
  OBVIOUS
<1>6. Sound(g) /\ NodesTyped(g) /\ IsRegistration(h, g, kind, on, backup)
  BY <1>0, <1>4, <1>5, RegisterFacts
<1>7. Evolves(h, g)
  BY <1>0, <1>4, <1>6, RegisterEvolves
<1>8. Awaited(g, TickOf(s)) = Awaited(h, TickOf(s))
  <2>1. \A e \in TickOf(s) : e.reg \in 1 .. Len(h.regs)
    BY <1>0, SeenFacts
  <2>2. Sound(h) /\ IsRegistration(h, g, kind, on, backup) /\ kind # "monitor"
    BY <1>0, <1>1, <1>6
  <2>3. PICK passed : passed = TickOf(s)
    OBVIOUS
  <2>4. Awaited(g, passed) = Awaited(h, passed) \cup (IF kind = "monitor" THEN {Len(h.regs) + 1} ELSE {})
    BY ONLY <1>4, <2>1, <2>2, <2>3, AwaitedRegister
  <2>. QED
    BY <2>2, <2>3, <2>4
<1>9. MonitorInv(g, s)
  <2>1. FramesFit(h, s) /\ MonitorInv(h, s) /\ g.monitor = h.monitor
    BY <1>0, <1>6 DEF Fits, InProgress, IsRegistration
  <2>. QED
    BY <1>0, <1>7, <1>8, <2>1, EvolvesMonitorInv
<1>10. Fits(g, s, history')
  <2>1. Obeyed(g, history.calls, history.cancelled, history.saidTrue)
    BY <1>0, <1>7, EvolvesObeys DEF Fits
  <2>2. InProgress(g, s, history.calls)
    BY <1>0, <1>7, EvolvesInProgress DEF Fits, Obeyed
  <2>3. /\ history' = [calls |-> history'.calls, cancelled |-> history'.cancelled,
                       saidTrue |-> history'.saidTrue, late |-> history'.late]
        /\ history'.calls = history.calls /\ history'.cancelled = history.cancelled
        /\ history'.saidTrue = history.saidTrue
    BY <1>0 DEF Subscribe, Fits
  <2>. QED
    BY <1>0, <1>6, <1>9, <2>1, <2>2, <2>3 DEF Fits
<1>11. objects' = g /\ left' \in Scenario
  BY <1>0, <1>5, UsesFacts DEF Subscribe
<1>. QED
  BY <1>0, <1>10, <1>11 DEF CallbacksInv

(* The canceller of a registration that is not the monitor's.              *)
LEMMA CancelKeeps ==
    ASSUME CallbacksInv, NEW r \in DOMAIN objects.regs, Cancel(r)
    PROVE  CallbacksInv'
<1>. DEFINE h == objects
            s == stack
<1>0. /\ Fits(h, s, history) /\ Sound(h) /\ NodesTyped(h) /\ left \in Scenario
      /\ stack' = s /\ Uses("cancels") /\ h.regs[r].kind # "monitor"
      /\ history' = [history EXCEPT !.cancelled = @ \cup {r}]
  BY DEF CallbacksInv, Fits, Cancel
<1>1. r \in 1 .. Len(h.regs)
  BY <1>0 DEF Sound
<1>2. PICK g : g = CancelReg(h, r)
  OBVIOUS
<1>3. Takes(h, g, {Entry(r, "primary"), Entry(r, "backup")})
  BY <1>0, <1>1, <1>2, CancelFacts
<1>4. Evolves(h, g)
  BY <1>0, <1>3, TakesEvolves
<1>5. MonitorInv(g, s)
  <2>1. Awaited(g, TickOf(s)) = {x \in Awaited(h, TickOf(s)) : Entry(x, "primary") \notin {Entry(r, "primary"), Entry(r, "backup")}}
    BY <1>0, <1>3, AwaitedTakes
  <2>2. r \notin Awaited(h, TickOf(s))
    BY <1>0 DEF Awaited
  <2>3. \A x : Entry(x, "primary") \in {Entry(r, "primary"), Entry(r, "backup")} => x = r
    BY DEF Entry
  <2>4. Awaited(g, TickOf(s)) = Awaited(h, TickOf(s))
    BY <2>1, <2>2, <2>3
  <2>5. FramesFit(h, s) /\ MonitorInv(h, s) /\ g.monitor = h.monitor
    BY <1>0, <1>3 DEF Fits, InProgress, Takes
  <2>. QED
    BY <1>0, <1>4, <2>4, <2>5, EvolvesMonitorInv
<1>6. /\ history' = [calls |-> history'.calls, cancelled |-> history'.cancelled,
                     saidTrue |-> history'.saidTrue, late |-> history'.late]
      /\ history'.calls = history.calls /\ history'.saidTrue = history.saidTrue
      /\ history'.cancelled = history.cancelled \cup {r}
  BY <1>0 DEF Fits
<1>7. Obeyed(g, history.calls, history.cancelled \cup {r}, history.saidTrue)
  <2>1. Obeyed(g, history.calls, history.cancelled, history.saidTrue)
    BY <1>0, <1>4, EvolvesObeys DEF Fits
  <2>2. ~ Primary(g, r) /\ ~ Backup(g, r) /\ r \in 1 .. Len(g.regs)
    BY <1>1, <1>3 DEF Takes, Primary, Backup
  <2>. QED
    BY <2>1, <2>2 DEF Obeyed
<1>8. InProgress(g, s, history.calls)
  BY <1>0, <1>4, EvolvesInProgress DEF Fits, Obeyed
<1>9. Fits(g, s, history')
  BY <1>4, <1>5, <1>6, <1>7, <1>8 DEF Fits, Evolves
<1>10. objects' = g /\ left' \in Scenario
  BY <1>0, <1>2, UsesFacts DEF Cancel
<1>. QED
  BY <1>0, <1>9, <1>10 DEF CallbacksInv

(* Event contexts' publish.                                                *)
LEMMA PublishKeeps ==
    ASSUME CallbacksInv, NEW evt \in left.events, Publish(evt)
    PROVE  CallbacksInv'
<1>. DEFINE h == objects
            s == stack
<1>0. /\ Fits(h, s, history) /\ FramesFit(h, s) /\ left \in Scenario
      /\ objects' = h /\ history' = history /\ Uses("publishes")
  BY DEF CallbacksInv, Fits, InProgress, Publish
<1>1. evt \in Seq(Names)
  BY <1>0 DEF Scenario
<1>2. PICK f : f = NodeFrame(evt, <<>>, "capture")
  OBVIOUS
<1>3. f = [do |-> "node", evt |-> evt, node |-> <<>>, phase |-> "capture"]
  BY <1>2 DEF NodeFrame
<1>4. f \in Frames
  <2>1. <<>> \in Paths
    BY DEF Paths
  <2>. QED
    BY <1>1, <1>3, <2>1 DEF Frames
<1>5. IsFrame(f, h) /\ f.do = "node"
  BY <1>1, <1>3 DEF IsFrame
<1>6. PICK t : Begins(s, f, t)
  BY DEF Begins
<1>7. FramesFit(h, t) /\ SameLoops(h, s, t)
  BY ONLY <1>0, <1>4, <1>5, <1>6, PushLoop
<1>8. Fits(h, t, history)
  BY <1>0, <1>7, LoopsFit
<1>9. stack' = t /\ left' \in Scenario
  BY <1>0, <1>2, <1>6, UsesFacts DEF Publish, Push, Begins
<1>. QED
  BY <1>0, <1>8, <1>9 DEF CallbacksInv

(* reset, pause, resume and stop of the monitor.                           *)
LEMMA DriveMonitorKeeps ==
    ASSUME CallbacksInv, DriveMonitor
    PROVE  CallbacksInv'
<1>. DEFINE h == objects
            s == stack
            passed == TickOf(s)
            inAction == MonitorCalls(h, s) # {}
<1>0. /\ Fits(h, s, history) /\ Sound(h) /\ NodesTyped(h) /\ FramesFit(h, s) /\ left \in Scenario
      /\ MonitorFits(h, passed, inAction) /\ \A e \in passed : e.reg \in 1 .. Len(h.regs)
  BY SeenFacts DEF CallbacksInv, Fits, InProgress, MonitorInv
<1>1. InAction <=> inAction
  <2>1. s \in Seq(Frames)
    BY <1>0 DEF FramesFit
  <2>2. DOMAIN s = 1 .. Len(s)
    BY <2>1
  <2>. QED
    BY <2>2 DEF InAction, IsMonitors, MonitorCalls, IsMonitorCall
<1>2. ASSUME NEW g, Evolves(h, g), MonitorFits(g, passed, inAction), Drive(g)
      PROVE  CallbacksInv'
  <2>1. Fits(g, s, history)
    BY <1>0, <1>2, ControlFits
  <2>2. objects' = g /\ stack' = s /\ history' = history /\ left' \in Scenario
    BY <1>0, <1>2, UsesFacts DEF Drive
  <2>. QED
    BY <2>1, <2>2 DEF CallbacksInv
<1>3. IsMonitor(h)
  BY <1>0 DEF MonitorFits
<1>. HIDE DEF passed
<1>4. ASSUME NEW intervals \in left.intervals, ~ inAction, NEW g, g = MonitorReset(h, intervals)
      PROVE  Evolves(h, g) /\ MonitorFits(g, passed, inAction)
  <2>1. intervals \in Seq(Nat)
    BY <1>0 DEF Scenario
  <2>2. inAction = FALSE
    BY <1>4
  <2>3. MonitorFits(h, passed, FALSE)
    BY <1>0, <2>2
  <2>4. Evolves(h, g) /\ MonitorFits(g, passed, FALSE)
    BY <1>0, <1>4, <2>1, <2>3, ResetFacts
  <2>. QED
    BY <2>2, <2>4
<1>5. ASSUME ~ inAction, MonitorState(h) = "RUNNING", NEW g, g = MonitorPause(h)
      PROVE  Evolves(h, g) /\ MonitorFits(g, passed, inAction)
  <2>1. h.monitor.cancel # 0 /\ inAction = FALSE
    BY <1>5 DEF MonitorState
  <2>2. Awaited(h, passed) \subseteq {h.monitor.cancel}
    BY <1>0, <2>1 DEF MonitorFits
  <2>3. /\ Evolves(h, g) /\ IsMonitor(g) /\ Awaited(g, passed) = {}
        /\ g.monitor = [h.monitor EXCEPT !.cancel = 0]
    BY <1>0, <1>3, <1>5, <2>1, <2>2, PauseFacts
  <2>4. g.monitor.cancel = 0
    BY <1>3, <2>3 DEF IsMonitor
  <2>. QED
    BY <2>1, <2>3, <2>4 DEF MonitorFits
<1>6. ASSUME MonitorState(h) = "PAUSED", NEW g, g = MonitorNext(h)
      PROVE  Evolves(h, g) /\ MonitorFits(g, passed, inAction)
  <2>1. ~ h.monitor.stopped /\ h.monitor.cancel = 0
    BY <1>6 DEF MonitorState
  <2>2. inAction = FALSE
    BY <1>0, <2>1 DEF MonitorFits
  <2>3. Awaited(h, passed) = {}
    BY <1>0, <2>1, <2>2 DEF MonitorFits
  <2>4. Evolves(h, g) /\ MonitorFits(g, passed, FALSE)
    BY <1>0, <1>3, <1>6, <2>1, <2>3, NextFacts
  <2>. QED
    BY <2>2, <2>4
<1>7. ASSUME NEW g, g = MonitorStop(h)
      PROVE  Evolves(h, g) /\ MonitorFits(g, passed, inAction)
  <2>1. Awaited(h, passed) \subseteq {h.monitor.cancel} \ {0} /\ inAction \in BOOLEAN
    BY <1>0 DEF MonitorFits
  <2>. QED
    BY <1>0, <1>3, <1>7, <2>1, StopFacts
<1>8. CASE \E intervals \in left.intervals : ~ InAction /\ Drive(MonitorReset(objects, intervals))
  BY <1>1, <1>2, <1>4, <1>8
<1>9. CASE ~ InAction /\ MonitorState(objects) = "RUNNING" /\ Drive(MonitorPause(objects))
  BY <1>1, <1>2, <1>5, <1>9
<1>10. CASE MonitorState(objects) = "PAUSED" /\ Drive(MonitorNext(objects))
  BY <1>2, <1>6, <1>10
<1>11. CASE Drive(MonitorStop(objects))
  BY <1>2, <1>7, <1>11
<1>. QED
  BY <1>8, <1>9, <1>10, <1>11 DEF DriveMonitor

(* A call ends.                                                            *)
LEMMA PopCall ==
    ASSUME NEW h, NEW s, FramesFit(h, s), s # <<>>, Last(s).do = "call", NEW t, t = Front(s)
    PROVE  /\ FramesFit(h, t)
           /\ TickOf(t) = TickOf(s) /\ (TickOf(s) # {} => t[1].on = s[1].on)
           /\ MonitorCalls(h, t) = MonitorCalls(h, s) \ {Len(s)}
           /\ ~ IsMonitorCall(h, Last(s)) => SameLoops(h, s, t)
           /\ IsEntry(h, Last(s).entry) /\ Last(s) = s[Len(s)] /\ Len(s) \in 1 .. Len(s)
<1>1. /\ Len(s) \in Nat \ {0} /\ Last(s) = s[Len(s)]
      /\ t \in Seq(Frames) /\ Len(t) = Len(s) - 1 /\ \A i \in 1 .. Len(t) : t[i] = s[i]
  BY FrontFacts DEF FramesFit
<1>2. \A i \in 1 .. Len(s) : i # Len(s) => i \in 1 .. Len(t) /\ t[i] = s[i]
  BY <1>1
<1>3. \A i \in 1 .. Len(t) : i \in 1 .. Len(s) /\ i # Len(s) /\ t[i] = s[i]
  BY <1>1
<1>4. FramesFit(h, t)
  BY <1>1, <1>3 DEF FramesFit
<1>5. MonitorCalls(h, t) = MonitorCalls(h, s) \ {Len(s)}
  BY <1>2, <1>3 DEF MonitorCalls
<1>7. TickOf(t) = TickOf(s) /\ (TickOf(s) # {} => t[1].on = s[1].on)
  <2>0. t # <<>> => t[1] = s[1]
    <3>1. t # <<>> => 1 \in 1 .. Len(t)
      BY <1>1
    <3>. QED
      BY <1>1, <3>1
  <2>1. CASE s[1].do = "tick"
    <3>1. 1 \in 1 .. Len(s) /\ 1 # Len(s)
      BY <1>1, <2>1
    <3>2. t # <<>>
      BY <1>2, <3>1
    <3>. QED
      BY <2>0, <2>1, <3>2 DEF TickOf
  <2>2. CASE s[1].do # "tick"
    BY <2>0, <2>2 DEF TickOf
  <2>. QED
    BY <2>1, <2>2
<1>8. ASSUME ~ IsMonitorCall(h, Last(s)) PROVE SameLoops(h, s, t)
  <2>1. MonitorCalls(h, t) = MonitorCalls(h, s)
    BY <1>1, <1>5, <1>8 DEF MonitorCalls
  <2>2. ASSUME MonitorCalls(h, s) # {}, MonitorCalls(h, s) \subseteq {2}
        PROVE  t[1].do = s[1].do /\ t[2].entry = s[2].entry
    <3>1. 2 \in 1 .. Len(t)
      BY <2>1, <2>2 DEF MonitorCalls
    <3>2. 1 \in 1 .. Len(t)
      BY <1>1, <3>1
    <3>. QED
      BY <1>1, <3>1, <3>2
  <2>. QED
    BY <1>7, <2>1, <2>2 DEF SameLoops
<1>9. Len(s) \in 1 .. Len(s)
  BY <1>1
<1>10. IsEntry(h, Last(s).entry)
  BY <1>1, <1>9 DEF FramesFit, IsFrame
<1>. QED
  BY <1>1, <1>4, <1>5, <1>7, <1>8, <1>9, <1>10

(* What a monitor's action leaves it to do.                                *)
LEMMA RanFacts ==
    ASSUME NEW h, Sound(h), NodesTyped(h), NEW passed, \A e \in passed : e.reg \in 1 .. Len(h.regs),
           MonitorFits(h, passed, TRUE), NEW result, NEW g, g = MonitorRan(h, result)
    PROVE  Evolves(h, g) /\ MonitorFits(g, passed, FALSE)
<1>1. IsMonitor(h) /\ Awaited(h, passed) = {}
  BY DEF MonitorFits
<1>2. CASE result # "false"
  <2>1. g = MonitorStop(h)
    BY <1>2 DEF MonitorRan
  <2>. QED
    BY <1>1, <2>1, StopFacts
<1>3. CASE result = "false" /\ h.monitor.stopped
  <2>1. g = h /\ h.monitor.cancel = 0
    BY <1>1, <1>3 DEF MonitorRan, IsMonitor
  <2>2. MonitorFits(g, passed, FALSE)
    BY <1>1, <2>1 DEF MonitorFits
  <2>3. Len(h.regs) \in Nat
    BY DEF Sound
  <2>4. Evolves(h, h)
    BY <2>3 DEF Evolves, KeepsTick
  <2>. QED
    BY <2>1, <2>2, <2>4
<1>4. CASE result = "false" /\ ~ h.monitor.stopped
  <2>1. g = MonitorNext(h)
    BY <1>4 DEF MonitorRan
  <2>. QED
    BY <1>1, <1>4, <2>1, NextFacts
<1>. QED
  BY <1>2, <1>3, <1>4

(* Whoever returned true to untilTrue has been taken out.                  *)
LEMMA SaidTrueFits ==
    ASSUME NEW h, NEW s, NEW past, Fits(h, s, past), NEW r \in 1 .. Len(h.regs), NEW result,
           h.regs[r].kind = "untilTrue" /\ result = "true" => ~ Primary(h, r),
           NEW now, now = IF result = "true" THEN [past EXCEPT !.saidTrue = @ \cup {r}] ELSE past
    PROVE  Fits(h, s, now)
<1>1. CASE result # "true"
  BY <1>1
<1>2. CASE result = "true"
  <2>1. /\ now = [calls |-> now.calls, cancelled |-> now.cancelled, saidTrue |-> now.saidTrue,
                  late |-> now.late]
        /\ now.calls = past.calls /\ now.cancelled = past.cancelled
        /\ now.saidTrue = past.saidTrue \cup {r}
    BY <1>2 DEF Fits
  <2>2. Obeyed(h, past.calls, past.cancelled, past.saidTrue)
    BY DEF Fits
  <2>3. Obeyed(h, now.calls, now.cancelled, now.saidTrue)
    BY <1>2, <2>1, <2>2 DEF Obeyed
  <2>. QED
    BY <2>1, <2>3 DEF Fits
<1>. QED
  BY <1>1, <1>2

(* A call returns, or throws.                                              *)
LEMMA ReturnKeeps ==
    ASSUME CallbacksInv, NEW result \in {"true", "false", "throws"}, Return(result)
    PROVE  CallbacksInv'
<1>. DEFINE h == objects
            s == stack
            e == Last(s).entry
<1>0. /\ Fits(h, s, history) /\ Sound(h) /\ NodesTyped(h) /\ FramesFit(h, s) /\ left' \in Scenario
      /\ InProgress(h, s, history.calls) /\ MonitorInv(h, s)
  BY DEF CallbacksInv, Fits, InProgress, Return
<1>1. s # <<>> /\ Last(s).do = "call"
  BY DEF Return, Doing, Top
<1>2. PICK t : t = Front(s)
  OBVIOUS
<1>3. PICK g : g = AfterCall(h, e, result)
  OBVIOUS
<1>4. PICK now : now = IF result = "true" THEN [history EXCEPT !.saidTrue = @ \cup {e.reg}] ELSE history
  OBVIOUS
<1>5. objects' = g /\ stack' = t /\ history' = now
  BY <1>2, <1>3, <1>4 DEF Return, Pop, Top
<1>6. /\ FramesFit(h, t)
      /\ TickOf(t) = TickOf(s) /\ (TickOf(s) # {} => t[1].on = s[1].on)
      /\ MonitorCalls(h, t) = MonitorCalls(h, s) \ {Len(s)}
      /\ ~ IsMonitorCall(h, Last(s)) => SameLoops(h, s, t)
      /\ IsEntry(h, e) /\ Last(s) = s[Len(s)] /\ Len(s) \in 1 .. Len(s)
  BY <1>0, <1>1, <1>2, PopCall
<1>7. e.reg \in 1 .. Len(h.regs)
  BY <1>6, EntryFacts
<1>8. Fits(g, t, history) /\ (h.regs[e.reg].kind = "untilTrue" /\ result = "true" => ~ Primary(g, e.reg))
      /\ e.reg \in 1 .. Len(g.regs) /\ g.regs[e.reg] = h.regs[e.reg]
  <2>1. CASE h.regs[e.reg].kind # "monitor"
    <3>1. ~ IsMonitorCall(h, Last(s))
      BY <2>1 DEF IsMonitorCall
    <3>2. Fits(h, t, history)
      BY <1>0, <1>6, <3>1, LoopsFit
    <3>3. CASE ~ (h.regs[e.reg].kind = "untilTrue" /\ result = "true")
      <4>1. g = h
        BY <1>3, <2>1, <3>3 DEF AfterCall
      <4>. QED
        BY <1>7, <3>2, <3>3, <4>1
    <3>4. CASE h.regs[e.reg].kind = "untilTrue" /\ result = "true"
      <4>1. g = RemovePrimary(h, e.reg)
        BY <1>3, <3>4 DEF AfterCall
      <4>2. Takes(h, g, {Entry(e.reg, "primary")})
        BY <1>0, <1>7, <4>1, RemovePrimaryFacts
      <4>3. Evolves(h, g)
        BY <1>0, <4>2, TakesEvolves
      <4>4. Awaited(g, TickOf(t)) = Awaited(h, TickOf(t))
        <5>1. Awaited(g, TickOf(t)) = {r \in Awaited(h, TickOf(t)) : Entry(r, "primary") \notin {Entry(e.reg, "primary")}}
          BY <1>0, <4>2, AwaitedTakes
        <5>2. e.reg \notin Awaited(h, TickOf(t))
          BY <2>1 DEF Awaited
        <5>3. \A r : Entry(r, "primary") = Entry(e.reg, "primary") => r = e.reg
          BY DEF Entry
        <5>. QED
          BY <5>1, <5>2, <5>3
      <4>5. MonitorFits(g, TickOf(t), MonitorCalls(h, t) # {})
        <5>1. MonitorInv(h, t) /\ g.monitor = h.monitor /\ g.regs = h.regs
          BY <3>2, <4>2 DEF Fits, Takes
        <5>2. MonitorFits(h, TickOf(t), MonitorCalls(h, t) # {})
          BY <5>1 DEF MonitorInv
        <5>. QED
          BY <4>4, <5>1, <5>2 DEF MonitorFits, IsMonitor
      <4>6. Fits(g, t, history)
        BY <3>2, <4>3, <4>5, ControlFits
      <4>7. ~ Primary(g, e.reg) /\ g.regs = h.regs
        BY <4>2 DEF Takes, Primary
      <4>. QED
        BY <1>7, <4>6, <4>7
    <3>. QED
      BY <3>3, <3>4
  <2>2. CASE h.regs[e.reg].kind = "monitor"
    <3>1. g = MonitorRan(h, result)
      BY <1>3, <2>2 DEF AfterCall
    <3>2. Len(s) \in MonitorCalls(h, s)
      BY <1>1, <1>6, <2>2 DEF MonitorCalls, IsMonitorCall
    <3>3. MonitorCalls(h, s) = {2} /\ MonitorCalls(h, t) = {}
      BY <1>0, <1>6, <3>2 DEF MonitorInv
    <3>4. MonitorFits(h, TickOf(t), TRUE)
      BY <1>0, <1>6, <3>3 DEF MonitorInv
    <3>5. \A x \in TickOf(t) : x.reg \in 1 .. Len(h.regs)
      BY <1>0, <1>6, SeenFacts
    <3>6. Evolves(h, g) /\ MonitorFits(g, TickOf(t), FALSE)
      BY <1>0, <3>1, <3>4, <3>5, RanFacts
    <3>7. Obeyed(g, history.calls, history.cancelled, history.saidTrue)
      BY <1>0, <3>6, EvolvesObeys DEF Fits
    <3>8. InProgress(h, t, history.calls)
      <4>1. CallsFit(h, t, history.calls)
        BY <1>0, <1>6 DEF InProgress, CallsFit
      <4>. QED
        BY <1>6, <4>1 DEF InProgress
    <3>9. InProgress(g, t, history.calls)
      BY <1>0, <3>6, <3>8, EvolvesInProgress DEF Fits, Obeyed
    <3>10. MonitorCalls(g, t) = {}
      <4>1. ASSUME NEW i \in 1 .. Len(t), t[i].do = "call" PROVE g.regs[t[i].entry.reg] = h.regs[t[i].entry.reg]
        BY <1>6, <3>6, <4>1 DEF FramesFit, IsFrame, IsEntry, Evolves
      <4>. QED
        BY <3>3, <4>1 DEF MonitorCalls, IsMonitorCall
    <3>11. MonitorInv(g, t)
      BY <3>6, <3>10 DEF MonitorInv
    <3>12. Fits(g, t, history)
      BY <1>0, <3>6, <3>7, <3>9, <3>11 DEF Fits, Evolves
    <3>13. e.reg \in 1 .. Len(g.regs) /\ g.regs[e.reg] = h.regs[e.reg]
      <4>1. Len(h.regs) \in Nat /\ Len(g.regs) \in Nat
        BY <3>6 DEF Evolves, Sound
      <4>. QED
        BY <1>7, <3>6, <4>1 DEF Evolves
    <3>. QED
      BY <2>2, <3>12, <3>13
  <2>. QED
    BY <2>1, <2>2
<1>9. Fits(g, t, now)
  BY <1>4, <1>8, SaidTrueFits
<1>. QED
  BY <1>0, <1>5, <1>9 DEF CallbacksInv

(* To begin with nobody has subscribed.                                    *)
LEMMA NothingYet ==
    ASSUME NEW h, h = NewObjects
    PROVE  Fits(h, <<>>, NoHistory)
<1>1. /\ h.subs = [o \in {} |-> <<>>] /\ h.kept = <<>> /\ h.nodes = {} /\ h.publishing = {} /\ h.cb = [t \in {} |-> 0]
      /\ h.lastCompleted = 0 /\ h.regs = <<>>
      /\ h.monitor = [intervals |-> <<>>, cancel |-> 0, stopped |-> TRUE]
      /\ IsObjects(h)
  BY DEF NewObjects, IsObjects
<1>2. DOMAIN h.subs = {} /\ DOMAIN h.cb = {} /\ Len(h.regs) = 0 /\ h.regs \in Seq(Regs) /\ IsFiniteSet({})
  BY <1>1, FS_EmptySet
<1>3. h.subs = [o \in DOMAIN h.subs |-> h.subs[o]] /\ h.cb = [t \in DOMAIN h.cb |-> h.cb[t]]
  BY <1>1
<1>4. Sound(h)
  BY <1>1, <1>2, <1>3 DEF Sound, IsObjects, IsNumbered, IsScheduled
<1>5. NodesTyped(h)
  BY <1>1 DEF NodesTyped
<1>6. \A o, e : ~ HasSub(h, o, e)
  BY <1>2, <1>4, HasSubFacts
<1>7. NoHistory = [calls |-> <<>>, cancelled |-> {}, saidTrue |-> {}, late |-> {}]
  BY DEF NoHistory
<1>8. Obeyed(h, <<>>, {}, {})
  BY <1>2 DEF Obeyed, Called
<1>9. InProgress(h, <<>>, <<>>)
  BY <1>1 DEF InProgress, FramesFit, CallsFit, TickOf
<1>10. MonitorCalls(h, <<>>) = {} /\ TickOf(<<>>) = {} /\ Awaited(h, {}) = {}
  BY <1>2 DEF MonitorCalls, TickOf, Awaited
<1>11. IsMonitor(h) /\ h.monitor.cancel = 0
  BY <1>1, <1>2 DEF IsMonitor
<1>12. MonitorInv(h, <<>>)
  BY <1>10, <1>11 DEF MonitorInv, MonitorFits
<1>. QED
  BY <1>4, <1>5, <1>7, <1>8, <1>9, <1>12 DEF Fits

(* The invariant holds in every state, for all scenarios: whatever is      *)
(* subscribed, cancelled and published by those who are called.            *)
THEOREM CallbacksInvHolds == Spec => []CallbacksInv
<1>1. Init => CallbacksInv
  <2>. SUFFICES ASSUME Init PROVE CallbacksInv
    OBVIOUS
  <2>1. left \in Scenario /\ objects = NewObjects /\ stack = <<>> /\ history = NoHistory
    BY ScenariosAssumption DEF Init
  <2>. QED
    BY <2>1, NothingYet DEF CallbacksInv
<1>2. CallbacksInv /\ [Next]_vars => CallbacksInv'
  <2>. SUFFICES ASSUME CallbacksInv, [Next]_vars PROVE CallbacksInv'
    OBVIOUS
  <2>1. CASE PublishStep
    BY <2>1, PublishStepKeeps
  <2>2. CASE NodeStep
    BY <2>2, NodeStepKeeps
  <2>3. CASE TickStep
    BY <2>3, TickStepKeeps
  <2>4. CASE RunTick
    BY <2>4, RunTickKeeps
  <2>5. CASE \E kind \in left.kinds, on \in Observed :
                \E backup \in Backups(kind) : Subscribe(kind, on, backup)
    BY <2>5, SubscribeKeeps
  <2>6. CASE \E r \in DOMAIN objects.regs : Cancel(r)
    BY <2>6, CancelKeeps
  <2>7. CASE \E evt \in left.events : Publish(evt)
    BY <2>7, PublishKeeps
  <2>8. CASE DriveMonitor
    BY <2>8, DriveMonitorKeeps
  <2>9. CASE \E result \in {"true", "false", "throws"} : Return(result)
    BY <2>9, ReturnKeeps
  <2>10. CASE UNCHANGED vars
    BY <2>10 DEF vars, CallbacksInv
  <2>11. CASE \E prefix \in left.prefixes, phase \in {"capture", "bubble"} : Observe(prefix, phase)
    BY <2>11, ObserveKeeps
  <2>. QED
    BY <2>1, <2>2, <2>3, <2>4, <2>5, <2>6, <2>7, <2>8, <2>9, <2>10, <2>11 DEF Next
<1>. QED
  BY <1>1, <1>2, PTL DEF Spec

-----------------------------------------------------------------------------
(* What follows from it.                                                   *)

(* Of a subscriber and its backup one is called, or with allowRecover the  *)
(* backup and then the subscriber (withBackup).                            *)
THEOREM BackupOrPrimary == Spec => []BackupExcludesPrimary
<1>1. CallbacksInv => BackupExcludesPrimary
  <2>. SUFFICES ASSUME CallbacksInv PROVE BackupExcludesPrimary
    OBVIOUS
  <2>1. Obeyed(objects, history.calls, history.cancelled, history.saidTrue)
    BY DEF CallbacksInv, Fits
  <2>2. DOMAIN history.calls = 1 .. Len(history.calls)
    BY <2>1 DEF Obeyed
  <2>. QED
    BY <2>1, <2>2 DEF Obeyed, BackupExcludesPrimary, Kind
<1>. QED
  BY <1>1, CallbacksInvHolds, PTL

(* Nothing that is scheduled is lost by the timer, whatever is cancelled   *)
(* and scheduled while a tick is run (after, _runTick).                    *)
THEOREM TimerKeepsAll == Spec => []TimerLosesNothing
<1>1. CallbacksInv => TimerLosesNothing
  <2>. SUFFICES ASSUME CallbacksInv, NEW o \in DOMAIN objects.subs, ~ IsOfNode(o)
                PROVE  IF o.tick <= objects.lastCompleted
                       THEN \A entry \in ToSet(Subs(objects, o)) : entry \in ToSet(history.calls)
                       ELSE Subs(objects, o) # <<>> => OfTick(objects, o.tick) = o
    BY DEF TimerLosesNothing
  <2>1. /\ Sound(objects)
        /\ Obeyed(objects, history.calls, history.cancelled, history.saidTrue)
    BY DEF CallbacksInv, Fits
  <2>2. /\ Subs(objects, o) = objects.subs[o] /\ objects.subs[o] \in Seq(Entries) /\ IsObs(o)
        /\ objects.lastCompleted \in Nat /\ o.tick \in Nat
    BY <2>1, SubsFacts DEF Sound, IsObs, Obs
  <2>3. IsTimerObs(o)
    BY <2>2 DEF IsObs, IsNodeObs
  <2>4. ASSUME o.tick <= objects.lastCompleted, NEW entry \in ToSet(Subs(objects, o))
        PROVE  entry \in ToSet(history.calls)
    <3>1. PICK i \in 1 .. Len(objects.subs[o]) : objects.subs[o][i] = entry
      BY <2>2, <2>4 DEF ToSet
    <3>2. Called(history.calls, entry)
      BY <2>1, <2>3, <2>4, <3>1 DEF Obeyed
    <3>3. DOMAIN history.calls = 1 .. Len(history.calls)
      BY <2>1 DEF Obeyed
    <3>. QED
      BY <3>2, <3>3 DEF Called, ToSet
  <2>5. ASSUME ~ (o.tick <= objects.lastCompleted), Subs(objects, o) # <<>>
        PROVE  OfTick(objects, o.tick) = o
    <3>1. o.tick > objects.lastCompleted /\ objects.subs[o] # <<>>
      BY <2>2, <2>5
    <3>2. o.tick \in DOMAIN objects.cb /\ objects.cb[o.tick] = o.number
      BY <2>1, <2>3, <3>1 DEF Sound, IsScheduled
    <3>. QED
      BY <2>3, <3>2 DEF OfTick, IsTimerObs
  <2>. QED
    BY <2>4, <2>5
<1>. QED
  BY <1>1, CallbacksInvHolds, PTL

(* A running monitor has one call scheduled, another has none (_run,       *)
(* reset, pause, resume, stop).                                            *)
THEOREM MonitorIsScheduled == Spec => []OneScheduledCall
<1>1. CallbacksInv => OneScheduledCall
  <2>. DEFINE h == objects
              passed == UNION {stack[i].seen : i \in {j \in DOMAIN stack : stack[j].do = "tick"}}
              Waiting(t) == ToSet(Subs(h, OfTick(h, t))) \ passed
              scheduled == {entry.reg : entry \in UNION {Waiting(t) : t \in DOMAIN h.cb}}
              running == {h.monitor.cancel} \ {0}
  <2>. SUFFICES ASSUME CallbacksInv
                PROVE  {r \in scheduled : h.regs[r].kind = "monitor"} = (IF InAction THEN {} ELSE running)
    BY DEF OneScheduledCall, Kind
  <2>1. Sound(h) /\ FramesFit(h, stack) /\ MonitorInv(h, stack)
    BY DEF CallbacksInv, Fits, InProgress
  <2>2. DOMAIN stack = 1 .. Len(stack) /\ Len(stack) \in Nat /\ stack \in Seq(Frames)
    BY <2>1 DEF FramesFit
  <2>3. InAction <=> MonitorCalls(h, stack) # {}
    BY <2>2 DEF InAction, IsMonitors, MonitorCalls, IsMonitorCall
  <2>4. passed = TickOf(stack)
    <3>1. \A i \in DOMAIN stack : stack[i].do = "tick" => i = 1
      BY <2>1, <2>2 DEF FramesFit
    <3>2. CASE stack # <<>> /\ stack[1].do = "tick"
      <4>1. 1 \in DOMAIN stack
        BY <2>2, <3>2
      <4>2. {j \in DOMAIN stack : stack[j].do = "tick"} = {1}
        BY <3>1, <3>2, <4>1
      <4>3. passed = stack[1].seen
        BY <4>2
      <4>. QED
        BY <3>2, <4>3 DEF TickOf
    <3>3. CASE ~ (stack # <<>> /\ stack[1].do = "tick")
      <4>1. {j \in DOMAIN stack : stack[j].do = "tick"} = {}
        BY <2>2, <3>1, <3>3
      <4>. QED
        BY <3>3, <4>1 DEF TickOf
    <3>. QED
      BY <3>2, <3>3
  <2>. HIDE DEF passed
  <2>5. ASSUME NEW t \in DOMAIN h.cb
        PROVE  LET o == OfTick(h, t) IN
               /\ o.tick = t /\ t > h.lastCompleted /\ o \in DOMAIN h.subs
               /\ \A e : e \in ToSet(Subs(h, o)) <=> HasSub(h, o, e)
    <3>1. PICK o : o = OfTick(h, t)
      OBVIOUS
    <3>2. t \in Nat /\ t > h.lastCompleted
      BY <2>1 DEF Sound, IsScheduled
    <3>3. o.tick = t /\ o \in DOMAIN h.subs
      BY <2>1, <3>1, <3>2, OfTickFacts
    <3>4. Subs(h, o) \in Seq(Entries)
      BY <2>1, <3>3, SubsFacts
    <3>5. \A e : e \in ToSet(Subs(h, o)) <=> HasSub(h, o, e)
      BY <3>4 DEF ToSet, HasSub
    <3>. QED
      BY <3>1, <3>2, <3>3, <3>5
  <2>6. ASSUME NEW r \in scheduled, h.regs[r].kind = "monitor" PROVE r \in Awaited(h, passed)
    <3>1. PICK t \in DOMAIN h.cb : \E e \in Waiting(t) : e.reg = r
      OBVIOUS
    <3>2. PICK e \in Waiting(t) : e.reg = r
      BY <3>1
    <3>3. PICK o : o = OfTick(h, t)
      OBVIOUS
    <3>4. HasSub(h, o, e) /\ e \notin passed /\ o.tick = t /\ t > h.lastCompleted
      BY <2>5, <3>2, <3>3
    <3>5. IsEntry(h, e) /\ Target(h, e) = o
      BY <2>1, <3>4, HasSubFacts
    <3>6. e = Entry(r, "primary") /\ r \in 1 .. Len(h.regs)
      BY <2>6, <3>2, <3>5, EntryFacts DEF HasBackup
    <3>7. h.regs[r].on = o
      BY <3>5, <3>6 DEF Target, Entry
    <3>. QED
      BY <2>6, <3>4, <3>6, <3>7 DEF Awaited, Primary
  <2>7. ASSUME NEW r \in Awaited(h, passed) PROVE r \in scheduled /\ h.regs[r].kind = "monitor"
    <3>1. /\ r \in 1 .. Len(h.regs) /\ h.regs[r].kind = "monitor" /\ Primary(h, r)
          /\ h.regs[r].on.tick > h.lastCompleted /\ Entry(r, "primary") \notin passed
      BY DEF Awaited
    <3>2. PICK o : o = h.regs[r].on
      OBVIOUS
    <3>3. PICK e : e = Entry(r, "primary")
      OBVIOUS
    <3>4. HasSub(h, o, e) /\ IsTimerObs(o)
      BY <2>1, <3>1, <3>2, <3>3 DEF Primary, Sound, IsReg
    <3>5. o \in DOMAIN h.subs /\ h.subs[o] # <<>>
      BY <2>1, <3>4, HasSubFacts
    <3>6. o.tick \in DOMAIN h.cb /\ h.cb[o.tick] = o.number
      BY <2>1, <3>1, <3>2, <3>4, <3>5 DEF Sound, IsScheduled
    <3>7. o = OfTick(h, o.tick)
      BY <3>4, <3>6 DEF OfTick, IsTimerObs
    <3>8. e \in Waiting(o.tick)
      BY <2>5, <3>1, <3>3, <3>4, <3>6, <3>7
    <3>9. e.reg = r
      BY <3>3 DEF Entry
    <3>. QED
      BY <3>1, <3>6, <3>8, <3>9
  <2>8. {r \in scheduled : h.regs[r].kind = "monitor"} = Awaited(h, passed)
    BY <2>6, <2>7
  <2>9. Awaited(h, passed) = IF InAction THEN {} ELSE running
    BY <2>1, <2>3, <2>4 DEF MonitorInv, MonitorFits
  <2>. QED
    BY <2>8, <2>9
<1>. QED
  BY <1>1, CallbacksInvHolds, PTL

(* What a step adds to the calls.                                          *)
LEMMA OneCallAtATime ==
    ASSUME CallbacksInv, [Next]_vars
    PROVE  \/ history'.calls = history.calls
           \/ \E e, o : /\ history'.calls = Append(history.calls, e) /\ HasSub(objects, o, e)
                        /\ IsNodeObs(o) \/ ~ Called(history.calls, e)
<1>. DEFINE h == objects
            s == stack
            top == Last(s)
<1>0. /\ Fits(h, s, history) /\ Sound(h) /\ FramesFit(h, s) /\ CallsFit(h, s, history.calls)
      /\ history = [calls |-> history.calls, cancelled |-> history.cancelled,
                    saidTrue |-> history.saidTrue, late |-> history.late]
  BY DEF CallbacksInv, Fits, InProgress
<1>1. ASSUME NEW below, NEW e, Call(below, e) PROVE history'.calls = Append(history.calls, e)
  BY <1>0, <1>1 DEF Call
<1>2. CASE PublishStep
  <2>1. s # <<>> /\ top.do = "publish"
    BY <1>2 DEF PublishStep, Doing, Top
  <2>2. IsNodeObs(top.on)
    <3>1. /\ Len(s) \in Nat \ {0} /\ top = s[Len(s)]
      BY <1>0, <2>1, FrontFacts DEF FramesFit
    <3>2. Len(s) \in 1 .. Len(s)
      BY <3>1
    <3>. QED
      BY <1>0, <2>1, <3>1, <3>2 DEF FramesFit, IsFrame
  <2>3. CASE history' = history
    BY <2>3
  <2>4. ASSUME NEW below, HasSub(h, top.on, Head(top.due)), Call(below, Head(top.due))
        PROVE  \E e, o : /\ history'.calls = Append(history.calls, e) /\ HasSub(objects, o, e)
                         /\ IsNodeObs(o) \/ ~ Called(history.calls, e)
    BY <1>1, <2>2, <2>4
  <2>. QED
    BY <1>2, <2>3, <2>4 DEF PublishStep, StillSubscribed, Top
<1>3. CASE TickStep
  <2>. DEFINE scheduled == Subs(h, top.on)
              next == SelectInSeq(scheduled, LAMBDA e : e \notin top.seen)
  <2>1. s # <<>> /\ top.do = "tick"
    BY <1>3 DEF TickStep, Doing, Top
  <2>2. top.on \in DOMAIN h.subs /\ top.on.tick = Now(h) /\ TickOf(s) = top.seen /\ IsTimerObs(top.on)
    BY <1>0, <2>1, TickIsAlone
  <2>3. scheduled = h.subs[top.on] /\ scheduled \in Seq(Entries)
    BY <1>0, <2>2, SubsFacts
  <2>4. next = 0 \/ (next \in 1 .. Len(scheduled) /\ scheduled[next] \notin top.seen)
    BY <2>3, SelectFacts
  <2>5. CASE next = 0
    <3>1. history' = history
      BY <1>3, <2>5 DEF TickStep, Top
    <3>. QED
      BY <3>1
  <2>6. CASE next # 0
    <3>1. PICK e : e = scheduled[next]
      OBVIOUS
    <3>2. next \in 1 .. Len(scheduled) /\ e \notin top.seen
      BY <2>4, <2>6, <3>1
    <3>3. \E below : Call(below, e)
      BY <1>3, <2>6, <3>1 DEF TickStep, Top
    <3>4. HasSub(h, top.on, e)
      <4>1. Among(h.subs[top.on], e)
        BY <2>3, <3>1, <3>2 DEF Among
      <4>. QED
        BY <1>0, <2>2, <4>1, SubsFacts
    <3>5. ~ Called(history.calls, e)
      <4>1. Target(h, e) = top.on /\ h.lastCompleted \in Nat
        BY <1>0, <3>4, HasSubFacts DEF Sound
      <4>2. ~ (Target(h, e).tick <= h.lastCompleted)
        BY <2>2, <4>1 DEF Now
      <4>. QED
        BY <1>0, <2>2, <3>2, <4>1, <4>2 DEF CallsFit, Called
    <3>. QED
      BY <1>1, <3>3, <3>4, <3>5
  <2>. QED
    BY <2>5, <2>6
<1>4. CASE NodeStep \/ RunTick
  BY <1>4 DEF NodeStep, RunTick
<1>5. CASE \E kind \in left.kinds, on \in Observed :
              \E backup \in Backups(kind) : Subscribe(kind, on, backup)
  BY <1>0, <1>5 DEF Subscribe
<1>6. CASE \E r \in DOMAIN objects.regs : Cancel(r)
  BY <1>0, <1>6 DEF Cancel
<1>7. CASE \E evt \in left.events : Publish(evt)
  BY <1>7 DEF Publish
<1>8. CASE DriveMonitor
  BY <1>8 DEF DriveMonitor, Drive
<1>9. CASE \E result \in {"true", "false", "throws"} : Return(result)
  BY <1>0, <1>9 DEF Return
<1>10. CASE UNCHANGED vars
  BY <1>10 DEF vars
<1>11. CASE \E prefix \in left.prefixes, phase \in {"capture", "bubble"} : Observe(prefix, phase)
  BY <1>11 DEF Observe
<1>. QED
  BY <1>2, <1>3, <1>4, <1>5, <1>6, <1>7, <1>8, <1>9, <1>10, <1>11 DEF Next

(* Nobody is called after cancelling, twice for once, after saying true,   *)
(* or twice by a tick (publish, once, untilTrue, _runTick).                *)
THEOREM OnlyDueAreCalled == Spec => CallsAreDue
<1>. DEFINE IsDueNow ==
        Len(history'.calls) > Len(history.calls) =>
          LET entry == Last(history'.calls)
              r == entry.reg
          IN  /\ r \notin history.cancelled
              /\ Kind(r) = "once" => CallsOf(r) = {}
              /\ Kind(r) = "untilTrue" => r \notin history.saidTrue
              /\ entry.role = "backup" \/ ~ IsOfNode(objects.regs[r].on) =>
                    entry \notin {history.calls[i] : i \in CallsOf(r)}
<1>1. CallbacksInv /\ [Next]_vars => [IsDueNow]_vars
  <2>. SUFFICES ASSUME CallbacksInv, [Next]_vars, Len(history'.calls) > Len(history.calls)
                PROVE  LET entry == Last(history'.calls)
                           r == entry.reg
                       IN  /\ r \notin history.cancelled
                           /\ Kind(r) = "once" => CallsOf(r) = {}
                           /\ Kind(r) = "untilTrue" => r \notin history.saidTrue
                           /\ entry.role = "backup" \/ ~ IsOfNode(objects.regs[r].on) =>
                                 entry \notin {history.calls[i] : i \in CallsOf(r)}
    OBVIOUS
  <2>1. /\ Sound(objects)
        /\ Obeyed(objects, history.calls, history.cancelled, history.saidTrue)
        /\ history.calls \in Seq(Entries) /\ DOMAIN history.calls = 1 .. Len(history.calls)
    BY DEF CallbacksInv, Fits, Obeyed
  <2>2. history'.calls # history.calls
    BY <2>1
  <2>3. PICK e, o : /\ history'.calls = Append(history.calls, e) /\ HasSub(objects, o, e)
                    /\ IsNodeObs(o) \/ ~ Called(history.calls, e)
    BY <2>2, OneCallAtATime
  <2>4. IsEntry(objects, e) /\ Target(objects, e) = o /\ e \in Entries
    BY <2>1, <2>3, HasSubFacts DEF IsEntry
  <2>5. Last(history'.calls) = e
    <3>1. PICK c : c = history.calls
      OBVIOUS
    <3>2. Last(Append(c, e)) = e
      BY <2>1, <2>4, <3>1 DEF Last
    <3>. QED
      BY <2>3, <3>1, <3>2
  <2>6. IsDue(objects, history.calls, history.cancelled, history.saidTrue, e)
    BY <2>1, <2>3, SubscribersAreDue
  <2>7. Kind(e.reg) = "once" => CallsOf(e.reg) = {}
    BY <2>1, <2>6 DEF IsDue, Kind, CallsOf
  <2>8. ASSUME e.role = "backup" \/ ~ IsOfNode(objects.regs[e.reg].on)
        PROVE  e \notin {history.calls[i] : i \in CallsOf(e.reg)}
    <3>1. ~ IsNodeObs(o)
      <4>1. IsReg(objects.regs[e.reg]) /\ (e.role = "backup" => HasBackup(objects.regs[e.reg]))
        BY <2>1, <2>4, EntryFacts DEF Sound
      <4>2. CASE e.role = "backup"
        <5>1. IsTimerObs(o)
          BY <2>4, <4>1, <4>2 DEF IsReg, Target
        <5>. QED
          BY <5>1 DEF IsTimerObs, OfTimer, IsNodeObs, IsOfNode
      <4>3. CASE e.role # "backup"
        BY <2>4, <2>8, <4>3, EntryFacts DEF Target, IsNodeObs
      <4>. QED
        BY <4>2, <4>3
    <3>2. ~ Called(history.calls, e)
      BY <2>3, <3>1
    <3>. QED
      BY <2>1, <3>2 DEF Called, CallsOf
  <2>. QED
    BY <2>5, <2>6, <2>7, <2>8 DEF IsDue, Kind
<1>. QED
  BY <1>1, CallbacksInvHolds, PTL DEF Spec, CallsAreDue
=============================================================================
