------------------------- MODULE EventNodes_proofs -------------------------
(***************************************************************************)
(* Proof of NodesMatchSubscriptions of CallbackProperties.  On top of      *)
(* CallbacksInv the invariant says what a node is there for (Rooted), and  *)
(* which nodes an event is at, by the loops in progress (LoopsAt).         *)
(***************************************************************************)
EXTENDS Callbacks_proofs

-----------------------------------------------------------------------------
(* The nodes.                                                              *)
HasAny(h, o) == \E e : HasSub(h, o, e)
WasUsed(h, node) ==
    \E r \in 1 .. Len(h.regs) : IsOfNode(h.regs[r].on) /\ IsPrefix(node, h.regs[r].on.path)

(* Somebody below has subscribed.                                          *)
IsNeeded(h, node) == \E o : IsOfNode(o) /\ HasAny(h, o) /\ IsUnder(h, node, o.path)

(* Nothing below was deleted that there is a Subscribe for.                *)
IsWhole(h, node) ==
    \A i \in 1 .. Len(h.kept) : IsPrefix(node, h.kept[i].path) => IsUnder(h, node, h.kept[i].path)

(* A path whose nodes were made for one of the first n Subscribes.         *)
IsMadeBy(path, n) == \A k \in 1 .. Len(path) : path[k].for <= n

Rooted(h, late) ==
    /\ \A i \in 1 .. Len(h.kept) : IsMadeBy(h.kept[i].path, Len(h.kept))
    /\ \A r \in 1 .. Len(h.regs) : IsOfNode(h.regs[r].on) =>
          \E i \in 1 .. Len(h.kept) : h.regs[r].on = h.kept[i]
    /\ <<>> \notin h.nodes
    /\ late \subseteq 1 .. Len(h.regs)
    /\ \A o, e : IsOfNode(o) /\ HasSub(h, o, e) => (e.reg \in late <=> ~ IsAttached(h, o.path))
    /\ \A n \in h.nodes : \/ IsNeeded(h, n) \/ n \in h.publishing
                          \/ IsWhole(h, n) /\ ~ WasUsed(h, n)

-----------------------------------------------------------------------------
(* The loops.  An event is at a node and all above, and has not come to    *)
(* the node of the loop that is about to begin.                            *)
NodeLoops(s) == {i \in 1 .. Len(s) : s[i].do = "node"}
IsOnItsWay(f, publishing) ==
    f.node # <<>> =>
        /\ f.evt # <<>> /\ f.node[1].name = f.evt[1]
        /\ \A p \in Paths : p # <<>> /\ IsPrefix(p, f.node) =>
              p \in publishing \/ (p = f.node /\ f.phase = "capture")

(* An inner loop is at a longer path, or of an event with another prefix.  *)
AreApart(f, g) ==
    f.node # <<>> /\ g.evt # <<>> => f.node[1].name # g.evt[1] \/ Len(f.node) < Len(g.node)

LoopsAt(s, publishing) ==
    /\ \A p \in publishing : \E i \in NodeLoops(s) : s[i].node = p /\ s[i].phase # "capture"
    /\ \A i \in NodeLoops(s) :
          /\ IsOnItsWay(s[i], publishing)
          /\ s[i].phase = "capture" => i = Len(s)
    /\ \A i, j \in NodeLoops(s) : i < j => AreApart(s[i], s[j])

NodesInv == Rooted(objects, history.late) /\ LoopsAt(stack, objects.publishing)

-----------------------------------------------------------------------------
(* Paths.                                                                  *)

(* One path is a prefix of another if it has the same nodes, as far as it  *)
(* goes.                                                                   *)
LEMMA PrefixDef ==
    ASSUME NEW s \in Paths, NEW t \in Paths
    PROVE  IsPrefix(s, t) <=> Len(s) <= Len(t) /\ \A i \in 1 .. Len(s) : s[i] = t[i]
<1>0. s \in Seq(NodeKeys) /\ t \in Seq(NodeKeys)
  BY DEF Paths
<1>1. Len(s) \in Nat /\ Len(t) \in Nat /\ SubSeq(s, 1, Len(s)) = s
  BY <1>0
<1>2. CASE ~ (Len(s) <= Len(t))
  BY <1>2 DEF IsPrefix
<1>3. CASE Len(s) <= Len(t)
  <2>1. PICK u : u = SubSeq(t, 1, Len(s))
    OBVIOUS
  <2>2. u \in Seq(NodeKeys) /\ Len(u) = Len(s) /\ \A i \in 1 .. Len(s) : u[i] = t[i]
    BY <1>0, <1>1, <1>3, <2>1
  <2>3. s = u <=> \A i \in 1 .. Len(s) : s[i] = u[i]
    <3>1. ASSUME \A i \in 1 .. Len(s) : s[i] = u[i] PROVE s = u
      BY <1>0, <2>2, <3>1, SeqEqual
    <3>. QED
      BY <3>1
  <2>4. IsPrefix(s, t) <=> s = u
    BY <1>1, <1>3, <2>1 DEF IsPrefix
  <2>. QED
    BY <1>3, <2>2, <2>3, <2>4
<1>. QED
  BY <1>2, <1>3

(* The prefixes of a path, which are the nodes on the way to it.           *)
LEMMA PrefixesFacts ==
    ASSUME NEW p \in Paths
    PROVE  Prefixes(p) \subseteq Paths /\ \A n \in Paths : n \in Prefixes(p) <=> IsPrefix(n, p)
<1>0. p \in Seq(NodeKeys) /\ Len(p) \in Nat
  BY DEF Paths
<1>1. ASSUME NEW l \in 0 .. Len(p)
      PROVE  /\ SubSeq(p, 1, l) \in Paths /\ Len(SubSeq(p, 1, l)) = l
             /\ \A i \in 1 .. l : SubSeq(p, 1, l)[i] = p[i]
  BY <1>0 DEF Paths
<1>2. Prefixes(p) \subseteq Paths
  BY <1>1 DEF Prefixes
<1>3. ASSUME NEW n \in Prefixes(p) PROVE IsPrefix(n, p)
  <2>1. PICK l \in 0 .. Len(p) : n = SubSeq(p, 1, l)
    BY DEF Prefixes
  <2>2. n \in Paths /\ Len(n) = l /\ \A i \in 1 .. l : n[i] = p[i]
    BY <1>1, <2>1
  <2>3. Len(n) <= Len(p)
    BY <1>0, <2>2
  <2>. QED
    BY <2>2, <2>3, PrefixDef
<1>4. ASSUME NEW n \in Paths, IsPrefix(n, p) PROVE n \in Prefixes(p)
  <2>0. n \in Seq(NodeKeys) /\ Len(n) \in Nat
    BY DEF Paths
  <2>1. Len(n) \in 0 .. Len(p) /\ \A i \in 1 .. Len(n) : n[i] = p[i]
    BY <1>4, <2>0, PrefixDef
  <2>2. n = SubSeq(p, 1, Len(n))
    <3>1. PICK u : u = SubSeq(p, 1, Len(n))
      OBVIOUS
    <3>2. u \in Seq(NodeKeys) /\ Len(u) = Len(n) /\ \A i \in 1 .. Len(n) : n[i] = u[i]
      BY <1>1, <2>1, <3>1 DEF Paths
    <3>. QED
      BY <2>0, <3>1, <3>2, SeqEqual
  <2>. QED
    BY <2>1, <2>2 DEF Prefixes
<1>. QED
  BY <1>2, <1>3, <1>4

(* What is above a node is above those below it; and of two nodes on one   *)
(* way the shorter is above the other.                                     *)
LEMMA PrefixOrder ==
    /\ \A s \in Paths : IsPrefix(s, s) /\ Len(s) \in Nat /\ (s = <<>> <=> Len(s) = 0)
    /\ \A s, t \in Paths : IsPrefix(s, t) => Len(s) <= Len(t) /\ (Len(s) = Len(t) => s = t)
    /\ \A s, t, u \in Paths : IsPrefix(s, t) /\ IsPrefix(t, u) => IsPrefix(s, u)
    /\ \A s, t, u \in Paths : IsPrefix(s, u) /\ IsPrefix(t, u) /\ Len(s) <= Len(t) => IsPrefix(s, t)
    /\ \A s, t \in Paths : IsPrefix(s, t) /\ s # <<>> => t # <<>> /\ s[1] = t[1]
<1>0. \A s \in Paths : s \in Seq(NodeKeys) /\ Len(s) \in Nat
  BY DEF Paths
<1>1. \A s \in Paths : IsPrefix(s, s) /\ Len(s) \in Nat /\ (s = <<>> <=> Len(s) = 0)
  BY <1>0, PrefixDef
<1>2. ASSUME NEW s \in Paths, NEW t \in Paths, IsPrefix(s, t)
      PROVE  Len(s) <= Len(t) /\ (Len(s) = Len(t) => s = t)
  <2>1. Len(s) <= Len(t) /\ \A i \in 1 .. Len(s) : s[i] = t[i]
    BY <1>2, PrefixDef
  <2>. QED
    BY <1>0, <2>1, SeqEqual
<1>3. ASSUME NEW s \in Paths, NEW t \in Paths, NEW u \in Paths, IsPrefix(s, t), IsPrefix(t, u)
      PROVE  IsPrefix(s, u)
  <2>1. Len(s) <= Len(t) /\ \A i \in 1 .. Len(s) : s[i] = t[i]
    BY <1>3, PrefixDef
  <2>2. Len(t) <= Len(u) /\ \A i \in 1 .. Len(t) : t[i] = u[i]
    BY <1>3, PrefixDef
  <2>3. Len(s) \in Nat /\ Len(t) \in Nat /\ Len(u) \in Nat
    BY <1>0
  <2>4. Len(s) <= Len(u) /\ \A i \in 1 .. Len(s) : s[i] = u[i]
    BY <2>1, <2>2, <2>3
  <2>. QED
    BY <2>4, PrefixDef
<1>4. ASSUME NEW s \in Paths, NEW t \in Paths, NEW u \in Paths,
             IsPrefix(s, u), IsPrefix(t, u), Len(s) <= Len(t)
      PROVE  IsPrefix(s, t)
  <2>1. \A i \in 1 .. Len(s) : s[i] = u[i]
    BY <1>4, PrefixDef
  <2>2. \A i \in 1 .. Len(t) : t[i] = u[i]
    BY <1>4, PrefixDef
  <2>3. Len(s) \in Nat /\ Len(t) \in Nat
    BY <1>0
  <2>4. \A i \in 1 .. Len(s) : s[i] = t[i]
    BY <1>4, <2>1, <2>2, <2>3
  <2>. QED
    BY <1>4, <2>4, PrefixDef
<1>5. ASSUME NEW s \in Paths, NEW t \in Paths, IsPrefix(s, t), s # <<>>
      PROVE  t # <<>> /\ s[1] = t[1]
  <2>1. Len(s) <= Len(t) /\ \A i \in 1 .. Len(s) : s[i] = t[i]
    BY <1>5, PrefixDef
  <2>2. Len(s) \in Nat \ {0} /\ 1 \in 1 .. Len(s)
    BY <1>0, <1>5
  <2>. QED
    BY <2>1, <2>2
<1>. QED
  BY <1>1, <1>2, <1>3, <1>4, <1>5

(* Whether a path is found from a node, said without Prefixes.             *)
LEMMA UnderDef ==
    ASSUME NEW h, NEW n \in Paths, NEW p \in Paths
    PROVE  /\ IsUnder(h, n, p) <=>
                 IsPrefix(n, p) /\ \A m \in Paths : IsPrefix(m, p) /\ Len(m) > Len(n) => m \in h.nodes
           /\ IsAttached(h, p) <=> \A m \in Paths : IsPrefix(m, p) /\ m # <<>> => m \in h.nodes
<1>1. Prefixes(p) \subseteq Paths /\ \A m \in Paths : m \in Prefixes(p) <=> IsPrefix(m, p)
  BY PrefixesFacts
<1>2. ASSUME NEW x \in Paths
      PROVE  IsUnder(h, x, p) <=>
                 IsPrefix(x, p) /\ \A m \in Paths : IsPrefix(m, p) /\ Len(m) > Len(x) => m \in h.nodes
  BY <1>1 DEF IsUnder
<1>3. <<>> \in Paths /\ IsPrefix(<<>>, p) /\ Len(<<>>) = 0
  <2>1. <<>> \in Paths /\ Len(<<>>) = 0
    BY DEF Paths
  <2>2. Len(<<>>) <= Len(p)
    BY <2>1, PrefixOrder
  <2>. QED
    BY <2>1, <2>2, PrefixDef
<1>4. \A m \in Paths : m # <<>> <=> Len(m) > 0
  BY PrefixOrder
<1>5. IsAttached(h, p) <=> \A m \in Paths : IsPrefix(m, p) /\ Len(m) > 0 => m \in h.nodes
  BY <1>2, <1>3 DEF IsAttached
<1>. QED
  BY <1>2, <1>4, <1>5

(* From a node on the way the rest is found; and from a node above what    *)
(* is found from one below that is found itself.                           *)
LEMMA UnderOrder ==
    ASSUME NEW h, NEW n \in Paths, NEW m \in Paths, NEW p \in Paths, IsPrefix(n, m)
    PROVE  /\ IsUnder(h, n, p) /\ IsPrefix(m, p) => IsUnder(h, m, p)
           /\ IsUnder(h, n, m) /\ IsUnder(h, m, p) => IsUnder(h, n, p)
<1>1. Len(n) \in Nat /\ Len(m) \in Nat /\ Len(n) <= Len(m)
  BY PrefixOrder
<1>2. ASSUME IsUnder(h, n, p), IsPrefix(m, p) PROVE IsUnder(h, m, p)
  <2>1. \A x \in Paths : IsPrefix(x, p) /\ Len(x) > Len(n) => x \in h.nodes
    BY <1>2, UnderDef
  <2>2. \A x \in Paths : Len(x) \in Nat
    BY PrefixOrder
  <2>3. \A x \in Paths : IsPrefix(x, p) /\ Len(x) > Len(m) => x \in h.nodes
    BY <1>1, <2>1, <2>2
  <2>. QED
    BY <1>2, <2>3, UnderDef
<1>3. ASSUME IsUnder(h, n, m), IsUnder(h, m, p) PROVE IsUnder(h, n, p)
  <2>1. IsPrefix(m, p) /\ \A x \in Paths : IsPrefix(x, p) /\ Len(x) > Len(m) => x \in h.nodes
    BY <1>3, UnderDef
  <2>2. \A x \in Paths : IsPrefix(x, m) /\ Len(x) > Len(n) => x \in h.nodes
    BY <1>3, UnderDef
  <2>3. ASSUME NEW x \in Paths, IsPrefix(x, p), Len(x) > Len(n) PROVE x \in h.nodes
    <3>1. CASE Len(x) > Len(m)
      BY <2>1, <2>3, <3>1
    <3>2. CASE ~ (Len(x) > Len(m))
      <4>1. Len(x) <= Len(m)
        BY <1>1, <3>2, PrefixOrder
      <4>2. IsPrefix(x, m)
        BY <2>1, <2>3, <4>1, PrefixOrder
      <4>. QED
        BY <2>2, <2>3, <4>2
    <3>. QED
      BY <3>1, <3>2
  <2>4. IsPrefix(n, p)
    BY <2>1, PrefixOrder
  <2>. QED
    BY <2>3, <2>4, UnderDef
<1>. QED
  BY <1>2, <1>3

(* Whether a path is found depends on the nodes only.                      *)
LEMMA UnderGrows ==
    ASSUME NEW h, NEW g, h.nodes \subseteq g.nodes, NEW n, NEW p, IsUnder(h, n, p)
    PROVE  IsUnder(g, n, p)
  BY DEF IsUnder

(* What is between a node and one below that is found.                     *)
LEMMA UnderBetween ==
    ASSUME NEW h, NEW n \in Paths, NEW m \in Paths, NEW p \in Paths,
           IsUnder(h, n, p), IsPrefix(n, m), IsPrefix(m, p)
    PROVE  IsUnder(h, n, m)
<1>1. \A x \in Paths : IsPrefix(x, p) /\ Len(x) > Len(n) => x \in h.nodes
  BY UnderDef
<1>2. \A x \in Paths : IsPrefix(x, m) => IsPrefix(x, p)
  BY PrefixOrder
<1>. QED
  BY <1>1, <1>2, UnderDef

-----------------------------------------------------------------------------
(* Who needs a node.                                                       *)

(* Who has subscribed to a node is the subscriber of a registration, and   *)
(* its Subscribe was kept.                                                 *)
LEMMA NodeObsFrom ==
    ASSUME NEW h, Sound(h), NodesTyped(h), NEW o, IsOfNode(o), NEW e, HasSub(h, o, e)
    PROVE  /\ o.path \in Paths /\ e.reg \in 1 .. Len(h.regs) /\ h.regs[e.reg].on = o
           /\ e = Entry(e.reg, "primary")
<1>1. IsObs(o) /\ IsEntry(h, e) /\ Target(h, e) = o
  BY HasSubFacts
<1>2. e = Entry(e.reg, e.role) /\ e.reg \in 1 .. Len(h.regs) /\ e.role \in {"primary", "backup"}
      /\ (e.role = "backup" => HasBackup(h.regs[e.reg]))
  BY <1>1, EntryFacts
<1>3. e.role # "backup"
  <2>. SUFFICES ASSUME e.role = "backup" PROVE FALSE
    OBVIOUS
  <2>1. IsReg(h.regs[e.reg]) /\ HasBackup(h.regs[e.reg]) /\ o = h.regs[e.reg].backup
    BY <1>1, <1>2 DEF Sound, Target
  <2>2. IsTimerObs(o)
    BY <2>1 DEF IsReg
  <2>. QED
    BY <2>2 DEF IsTimerObs, OfTimer, IsOfNode
<1>4. h.regs[e.reg].on = o
  BY <1>1, <1>2, <1>3 DEF Target
<1>5. o.path \in Paths
  BY <1>1 DEF IsObs, Obs
<1>. QED
  BY <1>2, <1>3, <1>4, <1>5

(* size() is 0 if nobody below has subscribed.                             *)
LEMMA EmptyBelow ==
    ASSUME NEW h, Sound(h), NEW n
    PROVE  IsEmptyBelow(h, n) <=> ~ IsNeeded(h, n)
<1>1. \A o : HasAny(h, o) <=> o \in DOMAIN h.subs /\ h.subs[o] # <<>>
  <2>1. ASSUME NEW o \in DOMAIN h.subs PROVE HasAny(h, o) <=> h.subs[o] # <<>>
    BY SubsFacts DEF HasAny
  <2>2. ASSUME NEW o, HasAny(h, o) PROVE o \in DOMAIN h.subs
    BY <2>2, HasSubFacts DEF HasAny
  <2>. QED
    BY <2>1, <2>2
<1>. QED
  BY <1>1 DEF IsEmptyBelow, IsNeeded

(* Which nodes delete themselves, and why one that is not found does not.  *)
LEMMA CleanedFacts ==
    ASSUME NEW h, NEW p \in Paths
    PROVE  /\ \A n \in Cleaned(h, p) : n \in Paths /\ IsPrefix(n, p) /\ MayGo(h, n)
           /\ \A n \in Paths : IsUnder(h, n, p) /\ n \notin Cleaned(h, p) =>
                 \E m \in Paths : IsPrefix(n, m) /\ IsPrefix(m, p) /\ ~ MayGo(h, m)
<1>1. Prefixes(p) \subseteq Paths /\ \A n \in Paths : n \in Prefixes(p) <=> IsPrefix(n, p)
  BY PrefixesFacts
<1>2. ASSUME NEW n \in Cleaned(h, p) PROVE n \in Paths /\ IsPrefix(n, p) /\ MayGo(h, n)
  <2>1. n \in Prefixes(p) /\ \A m \in Prefixes(p) : IsPrefix(n, m) => MayGo(h, m)
    BY DEF Cleaned
  <2>2. n \in Paths /\ IsPrefix(n, p) /\ IsPrefix(n, n)
    BY <1>1, <2>1, PrefixOrder
  <2>. QED
    BY <2>1, <2>2
<1>3. ASSUME NEW n \in Paths, IsUnder(h, n, p), n \notin Cleaned(h, p)
      PROVE  \E m \in Paths : IsPrefix(n, m) /\ IsPrefix(m, p) /\ ~ MayGo(h, m)
  <2>1. IsPrefix(n, p) /\ \A m \in Paths : IsPrefix(m, p) /\ Len(m) > Len(n) => m \in h.nodes
    BY <1>3, UnderDef
  <2>2. PICK m \in Prefixes(p) : IsPrefix(n, m) /\ ~ (MayGo(h, m) /\ (m # n => m \in h.nodes))
    BY <1>1, <1>3, <2>1 DEF Cleaned
  <2>3. m \in Paths /\ IsPrefix(m, p)
    BY <1>1, <2>2
  <2>4. m # n => Len(m) > Len(n)
    <3>1. Len(n) <= Len(m) /\ (Len(n) = Len(m) => n = m) /\ Len(n) \in Nat /\ Len(m) \in Nat
      BY <2>2, <2>3, PrefixOrder
    <3>. QED
      BY <3>1
  <2>5. m # n => m \in h.nodes
    BY <2>1, <2>3, <2>4
  <2>. QED
    BY <2>2, <2>3, <2>5
<1>. QED
  BY <1>2, <1>3

(* No node goes that somebody who has subscribed below is found from.      *)
LEMMA UsesStay ==
    ASSUME NEW h, Sound(h), NodesTyped(h), NEW p \in Paths,
           NEW g, g.nodes = h.nodes \ Cleaned(h, p),
           NEW n \in Paths, NEW o, IsOfNode(o), HasAny(h, o)
    PROVE  IsUnder(h, n, o.path) <=> IsUnder(g, n, o.path)
<1>0. o.path \in Paths
  BY NodeObsFrom DEF HasAny
<1>1. IsUnder(g, n, o.path) => IsUnder(h, n, o.path)
  <2>1. g.nodes \subseteq h.nodes
    OBVIOUS
  <2>. QED
    BY <2>1, UnderGrows
<1>2. ASSUME IsUnder(h, n, o.path) PROVE IsUnder(g, n, o.path)
  <2>1. IsPrefix(n, o.path) /\ \A m \in Paths : IsPrefix(m, o.path) /\ Len(m) > Len(n) => m \in h.nodes
    BY <1>0, <1>2, UnderDef
  <2>2. ASSUME NEW m \in Paths, IsPrefix(m, o.path), Len(m) > Len(n) PROVE m \notin Cleaned(h, p)
    <3>. SUFFICES ASSUME m \in Cleaned(h, p) PROVE FALSE
      OBVIOUS
    <3>1. ~ IsNeeded(h, m)
      BY CleanedFacts, EmptyBelow DEF MayGo
    <3>2. IsPrefix(n, m)
      <4>1. Len(n) <= Len(m)
        BY <2>2, PrefixOrder
      <4>. QED
        BY <1>0, <2>1, <2>2, <4>1, PrefixOrder
    <3>3. IsUnder(h, m, o.path)
      BY <1>0, <1>2, <2>2, <3>2, UnderOrder
    <3>. QED
      BY <3>1, <3>3 DEF IsNeeded
  <2>. QED
    BY <1>0, <2>1, <2>2, UnderDef
<1>. QED
  BY <1>1, <1>2

-----------------------------------------------------------------------------
(* Nodes that go.                                                          *)

(* Whatever is published somewhere is published above.                     *)
IsClosed(publishing) ==
    /\ publishing \subseteq Paths
    /\ \A p \in publishing : \A n \in Paths : n # <<>> /\ IsPrefix(n, p) => n \in publishing

(* What is so before a path is cleaned: nodes on the way may be there for  *)
(* nothing.                                                                *)
ToBeCleaned(h, late, path) ==
    /\ \A i \in 1 .. Len(h.kept) : IsMadeBy(h.kept[i].path, Len(h.kept))
    /\ \A r \in 1 .. Len(h.regs) : IsOfNode(h.regs[r].on) =>
          \E i \in 1 .. Len(h.kept) : h.regs[r].on = h.kept[i]
    /\ <<>> \notin h.nodes
    /\ late \subseteq 1 .. Len(h.regs)
    /\ \A o, e : IsOfNode(o) /\ HasSub(h, o, e) => (e.reg \in late <=> ~ IsAttached(h, o.path))
    /\ \A n \in h.nodes : \/ IsNeeded(h, n) \/ n \in h.publishing
                          \/ IsWhole(h, n) /\ ~ WasUsed(h, n)
                          \/ IsUnder(h, n, path)
    /\ \A n \in h.nodes : IsPrefix(n, path) => n = path \/ n \in h.publishing \/ WasUsed(h, n)

(* _maybeClean leaves no node without a reason, and nobody who has         *)
(* subscribed without one.                                                 *)
LEMMA CleanRoots ==
    ASSUME NEW h, Sound(h), NodesTyped(h), IsClosed(h.publishing),
           NEW path \in Paths, NEW late, ToBeCleaned(h, late, path),
           NEW g, g = MaybeClean(h, path)
    PROVE  Rooted(g, late) /\ g.publishing = h.publishing
<1>1. /\ g.nodes = h.nodes \ Cleaned(h, path) /\ g.kept = h.kept /\ g.regs = h.regs
      /\ g.publishing = h.publishing /\ g.subs = h.subs
  BY DEF MaybeClean, Sound
<1>2. \A o, e : HasSub(g, o, e) <=> HasSub(h, o, e)
  BY <1>1 DEF HasSub, Subs
<1>3. \A n \in Paths : \A o : IsOfNode(o) /\ HasAny(h, o) => (IsUnder(h, n, o.path) <=> IsUnder(g, n, o.path))
  BY <1>1, UsesStay
<1>4. \A n \in Paths : IsNeeded(h, n) => IsNeeded(g, n)
  BY <1>2, <1>3 DEF IsNeeded, HasAny
<1>5. h.nodes \subseteq Paths /\ <<>> \in Paths
  BY DEF NodesTyped, Paths
<1>6. ASSUME NEW o, NEW e, IsOfNode(o), HasSub(g, o, e) PROVE e.reg \in late <=> ~ IsAttached(g, o.path)
  <2>1. HasSub(h, o, e) /\ HasAny(h, o)
    BY <1>2, <1>6 DEF HasAny
  <2>2. IsAttached(h, o.path) <=> IsAttached(g, o.path)
    BY <1>3, <1>5, <1>6, <2>1 DEF IsAttached
  <2>. QED
    BY <1>6, <2>1, <2>2 DEF ToBeCleaned
<1>7. ASSUME NEW n \in g.nodes
      PROVE  IsNeeded(g, n) \/ n \in g.publishing \/ (IsWhole(g, n) /\ ~ WasUsed(g, n))
  <2>0. n \in h.nodes /\ n \in Paths /\ n # <<>> /\ n \notin Cleaned(h, path)
    BY <1>1, <1>5 DEF ToBeCleaned
  <2>1. CASE IsNeeded(h, n)
    BY <1>4, <2>0, <2>1
  <2>2. CASE n \in h.publishing
    BY <1>1, <2>2
  <2>3. CASE IsUnder(h, n, path)
    <3>1. PICK m \in Paths : IsPrefix(n, m) /\ IsPrefix(m, path) /\ ~ MayGo(h, m)
      BY <2>0, <2>3, CleanedFacts
    <3>2. CASE m \in h.publishing
      <4>1. n \in h.publishing
        BY <2>0, <3>1, <3>2 DEF IsClosed
      <4>. QED
        BY <1>1, <4>1
    <3>3. CASE m \notin h.publishing
      <4>1. PICK o : IsOfNode(o) /\ HasAny(h, o) /\ IsUnder(h, m, o.path)
        BY <3>1, <3>3, EmptyBelow DEF MayGo, IsNeeded
      <4>2. o.path \in Paths
        BY <4>1, NodeObsFrom DEF HasAny
      <4>3. IsUnder(h, n, m)
        BY <2>0, <2>3, <3>1, UnderBetween
      <4>4. IsUnder(h, n, o.path)
        BY <2>0, <3>1, <4>1, <4>2, <4>3, UnderOrder
      <4>5. IsNeeded(h, n)
        BY <4>1, <4>4 DEF IsNeeded
      <4>. QED
        BY <1>4, <2>0, <4>5
    <3>. QED
      BY <3>2, <3>3
  <2>4. CASE IsWhole(h, n) /\ ~ WasUsed(h, n) /\ n \notin h.publishing /\ ~ IsUnder(h, n, path)
    <3>1. ~ IsPrefix(n, path)
      <4>. SUFFICES ASSUME IsPrefix(n, path) PROVE FALSE
        OBVIOUS
      <4>1. n = path
        BY <2>0, <2>4 DEF ToBeCleaned
      <4>2. \A x \in Paths : IsPrefix(x, path) => ~ (Len(x) > Len(n))
        <5>. SUFFICES ASSUME NEW x \in Paths, IsPrefix(x, path) PROVE ~ (Len(x) > Len(n))
          OBVIOUS
        <5>1. Len(x) <= Len(n) /\ Len(x) \in Nat /\ Len(n) \in Nat
          BY <4>1, PrefixOrder
        <5>. QED
          BY <5>1
      <4>. QED
        BY <2>0, <2>4, <4>2, UnderDef
    <3>2. ASSUME NEW i \in 1 .. Len(g.kept), IsPrefix(n, g.kept[i].path)
          PROVE  IsUnder(g, n, g.kept[i].path)
      <4>1. PICK q : q = g.kept[i].path
        OBVIOUS
      <4>2. q \in Paths /\ IsPrefix(n, q) /\ IsUnder(h, n, q)
        <5>1. h.kept[i] \in Obs /\ i \in 1 .. Len(h.kept)
          BY <1>1 DEF NodesTyped
        <5>. QED
          BY <1>1, <2>4, <3>2, <4>1, <5>1 DEF Obs, IsWhole
      <4>3. \A m \in Paths : IsPrefix(m, q) /\ Len(m) > Len(n) => m \in h.nodes
        BY <2>0, <4>2, UnderDef
      <4>4. ASSUME NEW m \in Paths, IsPrefix(m, q), Len(m) > Len(n) PROVE m \notin Cleaned(h, path)
        <5>1. Len(n) <= Len(m)
          BY <2>0, <4>4, PrefixOrder
        <5>2. IsPrefix(n, m)
          BY <2>0, <4>2, <4>4, <5>1, PrefixOrder
        <5>3. m \in Cleaned(h, path) => IsPrefix(m, path)
          BY CleanedFacts
        <5>. QED
          BY <2>0, <3>1, <5>2, <5>3, PrefixOrder
      <4>5. \A m \in Paths : IsPrefix(m, q) /\ Len(m) > Len(n) => m \in g.nodes
        BY <1>1, <4>3, <4>4
      <4>. QED
        BY <2>0, <4>1, <4>2, <4>5, UnderDef
    <3>. QED
      BY <1>1, <2>4, <3>2 DEF IsWhole, WasUsed
  <2>. QED
    BY <2>0, <2>1, <2>2, <2>3, <2>4 DEF ToBeCleaned
<1>8. <<>> \notin g.nodes
  BY <1>1 DEF ToBeCleaned
<1>. QED
  BY <1>1, <1>6, <1>7, <1>8 DEF Rooted, ToBeCleaned

(* What is so depends on those who have subscribed to nodes, and not on    *)
(* the timer's and the monitor's.                                          *)
SameTree(h, g) ==
    /\ g.nodes = h.nodes /\ g.publishing = h.publishing /\ g.kept = h.kept
    /\ Len(h.regs) \in Nat /\ Len(g.regs) \in Nat
    /\ Len(h.regs) <= Len(g.regs) /\ \A r \in 1 .. Len(h.regs) : g.regs[r] = h.regs[r]
    /\ \A r \in 1 .. Len(g.regs) : r > Len(h.regs) => ~ IsOfNode(g.regs[r].on)
    /\ \A o, e : IsOfNode(o) => (HasSub(g, o, e) <=> HasSub(h, o, e))

(* Whatever leaves the nodes, the registrations and who is subscribed to a *)
(* node alone leaves the nodes' reasons alone.                             *)
LEMMA SameTreeRoots ==
    ASSUME NEW h, NEW late, Rooted(h, late), NEW g, SameTree(h, g)
    PROVE  Rooted(g, late)
<1>1. \A n, p : IsUnder(g, n, p) <=> IsUnder(h, n, p)
  BY DEF IsUnder, SameTree
<1>2. \A n : IsNeeded(g, n) <=> IsNeeded(h, n)
  BY <1>1 DEF IsNeeded, HasAny, SameTree
<1>3. \A n : IsWhole(g, n) <=> IsWhole(h, n)
  BY <1>1 DEF IsWhole, SameTree
<1>4. \A r \in 1 .. Len(g.regs) : IsOfNode(g.regs[r].on) => r \in 1 .. Len(h.regs) /\ g.regs[r] = h.regs[r]
  BY DEF SameTree
<1>5. \A n : WasUsed(g, n) => WasUsed(h, n)
  BY <1>4 DEF WasUsed
<1>6. \A p : IsAttached(g, p) <=> IsAttached(h, p)
  BY <1>1 DEF IsAttached
<1>7. late \subseteq 1 .. Len(g.regs)
  BY DEF Rooted, SameTree
<1>8. \A r \in 1 .. Len(g.regs) : IsOfNode(g.regs[r].on) =>
          \E i \in 1 .. Len(g.kept) : g.regs[r].on = g.kept[i]
  BY <1>4 DEF Rooted, SameTree
<1>9. \A n \in g.nodes : IsNeeded(g, n) \/ n \in g.publishing \/ (IsWhole(g, n) /\ ~ WasUsed(g, n))
  BY <1>2, <1>3, <1>5 DEF Rooted, SameTree
<1>10. \A o, e : IsOfNode(o) /\ HasSub(g, o, e) => (e.reg \in late <=> ~ IsAttached(g, o.path))
  BY <1>6 DEF Rooted, SameTree
<1>. QED
  BY <1>7, <1>8, <1>9, <1>10 DEF Rooted, SameTree

(* A canceller.                                                            *)
LEMMA RemoveSubRoots ==
    ASSUME NEW h, Sound(h), NodesTyped(h), IsClosed(h.publishing), NEW late, Rooted(h, late),
           NEW o, NEW e, NEW g, g = RemoveSub(h, o, e)
    PROVE  Rooted(g, late)
<1>1. CASE ~ HasSub(h, o, e)
  BY <1>1 DEF RemoveSub
<1>2. CASE HasSub(h, o, e)
  <2>1. PICK k : k = [h EXCEPT !.subs[o] = RemoveFirst(@, e)]
    OBVIOUS
  <2>2. /\ IsObjects(k) /\ Sound(k) /\ IsRemoval(h, k, o, e) /\ k.nodes = h.nodes /\ k.kept = h.kept
        /\ NodesTyped(k)
    BY <1>2, <2>1, WithoutSub, NodesTypedDepends
  <2>3. /\ k.regs = h.regs /\ k.publishing = h.publishing
        /\ \A p, x : HasSub(k, p, x) <=> HasSub(h, p, x) /\ ~ (p = o /\ x = e)
    BY <2>2 DEF IsRemoval
  <2>4. g = IF IsOfNode(o) THEN MaybeClean(k, o.path)
            ELSE IF OfTick(k, o.tick) = o THEN DeleteIfEmpty(k, o) ELSE k
    BY <1>2, <2>1 DEF RemoveSub, Unsubscribed
  <2>5. CASE ~ IsOfNode(o)
    <3>1. g.nodes = k.nodes /\ g.kept = k.kept /\ g.regs = k.regs /\ g.publishing = k.publishing /\ g.subs = k.subs
      BY <2>2, <2>4, <2>5 DEF DeleteIfEmpty, IsObjects
    <3>2. \A p, x : HasSub(g, p, x) <=> HasSub(k, p, x)
      BY <3>1 DEF HasSub, Subs
    <3>3. Len(h.regs) \in Nat
      BY DEF Sound
    <3>4. SameTree(h, g)
      BY <2>2, <2>3, <2>5, <3>1, <3>2, <3>3 DEF SameTree
    <3>. QED
      BY <3>4, SameTreeRoots
  <2>6. CASE IsOfNode(o)
    <3>1. o.path \in Paths /\ e.reg \in 1 .. Len(h.regs) /\ h.regs[e.reg].on = o
      BY <1>2, <2>6, NodeObsFrom
    <3>2. \A n, p : IsUnder(k, n, p) <=> IsUnder(h, n, p)
      BY <2>2 DEF IsUnder
    <3>3. \A n : IsPrefix(n, o.path) => WasUsed(k, n)
      BY <2>3, <2>6, <3>1 DEF WasUsed
    <3>4. \A n : IsNeeded(h, n) => IsNeeded(k, n) \/ IsUnder(k, n, o.path)
      BY <2>3, <3>2 DEF IsNeeded, HasAny
    <3>5. \A n : (IsWhole(k, n) <=> IsWhole(h, n)) /\ (WasUsed(k, n) <=> WasUsed(h, n))
      BY <2>2, <2>3, <3>2 DEF IsWhole, WasUsed
    <3>6. \A n \in k.nodes : \/ IsNeeded(k, n) \/ n \in k.publishing
                             \/ IsWhole(k, n) /\ ~ WasUsed(k, n)
                             \/ IsUnder(k, n, o.path)
      BY <2>2, <2>3, <3>4, <3>5 DEF Rooted
    <3>7. \A p, x : IsOfNode(p) /\ HasSub(k, p, x) => (x.reg \in late <=> ~ IsAttached(k, p.path))
      BY <2>3, <3>2 DEF Rooted, IsAttached
    <3>8. ToBeCleaned(k, late, o.path)
      BY <2>2, <2>3, <3>3, <3>6, <3>7 DEF ToBeCleaned, Rooted
    <3>9. IsClosed(k.publishing) /\ g = MaybeClean(k, o.path)
      BY <2>3, <2>4, <2>6
    <3>. QED
      BY <2>2, <3>1, <3>8, <3>9, CleanRoots
  <2>. QED
    BY <2>5, <2>6
<1>. QED
  BY <1>1, <1>2

(* Cancelling, whatever the registration, and what the wrapped subscribers *)
(* do before they call the user's.                                         *)
LEMMA CancelRoots ==
    ASSUME NEW h, Sound(h), NodesTyped(h), IsClosed(h.publishing), NEW late, Rooted(h, late)
    PROVE  /\ \A r \in 1 .. Len(h.regs) :
                 /\ Rooted(RemovePrimary(h, r), late) /\ Rooted(RemoveBackup(h, r), late)
                 /\ Rooted(CancelReg(h, r), late)
           /\ \A e : IsEntry(h, e) => Rooted(BeforeCall(h, e), late)
<1>1. ASSUME NEW r \in 1 .. Len(h.regs) PROVE Rooted(RemovePrimary(h, r), late)
  BY RemoveSubRoots DEF RemovePrimary
<1>2. ASSUME NEW r \in 1 .. Len(h.regs) PROVE Rooted(RemoveBackup(h, r), late)
  <2>1. CASE h.regs[r].backup = Nowhere
    BY <2>1 DEF RemoveBackup
  <2>2. CASE h.regs[r].backup # Nowhere
    <3>1. RemoveBackup(h, r) = RemoveSub(h, h.regs[r].backup, Entry(r, "backup"))
      BY <2>2 DEF RemoveBackup
    <3>. QED
      BY <3>1, RemoveSubRoots
  <2>. QED
    BY <2>1, <2>2
<1>3. ASSUME NEW r \in 1 .. Len(h.regs) PROVE Rooted(CancelReg(h, r), late)
  <2>1. PICK k : k = RemoveBackup(h, r)
    OBVIOUS
  <2>2. Takes(h, k, {Entry(r, "backup")}) /\ Rooted(k, late)
    BY <1>2, <2>1, RemoveBackupFacts
  <2>3. Sound(k) /\ NodesTyped(k) /\ IsClosed(k.publishing)
    BY <2>2 DEF Takes
  <2>4. CancelReg(h, r) = RemoveSub(k, k.regs[r].on, Entry(r, "primary"))
    BY <2>1 DEF CancelReg, RemovePrimary
  <2>. QED
    BY <2>2, <2>3, <2>4, RemoveSubRoots
<1>4. ASSUME NEW e, IsEntry(h, e) PROVE Rooted(BeforeCall(h, e), late)
  <2>1. e.reg \in 1 .. Len(h.regs)
    BY <1>4, EntryFacts
  <2>. QED
    BY <1>1, <1>2, <2>1 DEF BeforeCall
<1>. QED
  BY <1>1, <1>2, <1>3, <1>4

(* The nodes do not change with the other fields.                          *)
LEMMA SameFieldsRoot ==
    ASSUME NEW h, Sound(h), NEW late, Rooted(h, late), NEW g, g.nodes = h.nodes, g.kept = h.kept,
           g.publishing = h.publishing, g.regs = h.regs, g.subs = h.subs
    PROVE  Rooted(g, late)
<1>1. \A o, e : HasSub(g, o, e) <=> HasSub(h, o, e)
  BY DEF HasSub, Subs
<1>2. Len(h.regs) \in Nat
  BY DEF Sound
<1>. QED
  BY <1>1, <1>2, SameTreeRoots DEF SameTree

(* Registering makes and deletes no nodes.                                 *)
LEMMA RegisterNodes ==
    ASSUME NEW h, Sound(h), NEW kind, NEW on, NEW backup, NEW g, g = Register(h, kind, on, backup)
    PROVE  g.nodes = h.nodes /\ g.kept = h.kept /\ g.publishing = h.publishing
<1>1. PICK k : k = [h EXCEPT !.regs = Append(@, [kind |-> kind, on |-> on, backup |-> backup])]
  OBVIOUS
<1>2. IsObjects(k) /\ k.nodes = h.nodes /\ k.kept = h.kept /\ k.publishing = h.publishing
  BY <1>1 DEF Sound, IsObjects
<1>3. ASSUME NEW l, IsObjects(l), NEW o, NEW e, NEW a, a = AddSub(l, o, e)
      PROVE  IsObjects(a) /\ a.nodes = l.nodes /\ a.kept = l.kept /\ a.publishing = l.publishing
  <2>1. PICK s, c : a = [l EXCEPT !.subs = s, !.cb = c]
    BY <1>3 DEF AddSub
  <2>. QED
    BY ONLY <1>3, <2>1 DEF IsObjects
<1>4. PICK r : r = Len(h.regs) + 1
  OBVIOUS
<1>5. PICK l : l = IF backup = Nowhere THEN k ELSE AddSub(k, backup, Entry(r, "backup"))
  OBVIOUS
<1>6. IsObjects(l) /\ l.nodes = h.nodes /\ l.kept = h.kept /\ l.publishing = h.publishing
  BY <1>2, <1>3, <1>5
<1>7. g = AddSub(l, on, Entry(r, "primary"))
  BY <1>1, <1>4, <1>5 DEF Register
<1>. QED
  BY <1>3, <1>6, <1>7

(* Subscribing to the timer changes nothing; to a node it is late if that  *)
(* is not found any more.                                                  *)
LEMMA RegisterRoots ==
    ASSUME NEW h, Sound(h), NodesTyped(h), NEW late, Rooted(h, late),
           NEW kind, NEW on, NEW backup, CanRegister(h, kind, on, backup),
           IsOfNode(on) => \E i \in 1 .. Len(h.kept) : on = h.kept[i],
           NEW g, g = Register(h, kind, on, backup),
           NEW now, now = IF IsOfNode(on) /\ ~ IsAttached(h, on.path) THEN late \cup {Len(h.regs) + 1} ELSE late
    PROVE  Rooted(g, now)
<1>. DEFINE r == Len(h.regs) + 1
<1>1. IsRegistration(h, g, kind, on, backup) /\ g.nodes = h.nodes /\ g.kept = h.kept
  BY RegisterFacts, RegisterNodes
<1>2. Len(h.regs) \in Nat /\ r \in Nat
  BY DEF Sound
<1>3. ~ IsOfNode(backup)
  BY DEF CanRegister, IsTimerObs, OfTimer, IsOfNode, Nowhere
<1>4. \A p, x : IsOfNode(p) => (HasSub(g, p, x) <=> HasSub(h, p, x) \/ (p = on /\ x = Entry(r, "primary")))
  BY <1>1, <1>3 DEF IsRegistration
<1>5. /\ Len(g.regs) = r /\ g.regs[r].on = on /\ g.publishing = h.publishing
      /\ \A i \in 1 .. Len(h.regs) : g.regs[i] = h.regs[i]
  BY <1>1 DEF IsRegistration
<1>6. \A i \in 1 .. Len(g.regs) : i \in 1 .. Len(h.regs) \/ i = r
  BY <1>2, <1>5
<1>7. CASE ~ IsOfNode(on)
  <2>1. \A i \in 1 .. Len(g.regs) : i > Len(h.regs) => ~ IsOfNode(g.regs[i].on)
    BY <1>2, <1>5, <1>6, <1>7
  <2>2. \A p, x : IsOfNode(p) => (HasSub(g, p, x) <=> HasSub(h, p, x))
    BY <1>4, <1>7
  <2>3. SameTree(h, g)
    BY <1>1, <1>2, <1>5, <2>1, <2>2 DEF SameTree
  <2>. QED
    BY <1>7, <2>3, SameTreeRoots
<1>8. CASE IsOfNode(on)
  <2>1. \A n, p : IsUnder(g, n, p) <=> IsUnder(h, n, p)
    BY <1>1 DEF IsUnder
  <2>2. \A p : IsAttached(g, p) <=> IsAttached(h, p)
    BY <2>1 DEF IsAttached
  <2>3. \A n : IsNeeded(h, n) \/ IsUnder(h, n, on.path) => IsNeeded(g, n)
    BY <1>4, <1>8, <2>1 DEF IsNeeded, HasAny
  <2>4. \A n : IsWhole(h, n) => IsWhole(g, n) /\ (IsPrefix(n, on.path) => IsUnder(h, n, on.path))
    BY <1>1, <1>8, <2>1 DEF IsWhole
  <2>5. \A n : WasUsed(g, n) => WasUsed(h, n) \/ IsPrefix(n, on.path)
    BY <1>5, <1>6 DEF WasUsed
  <2>6. \A n \in g.nodes : IsNeeded(g, n) \/ n \in g.publishing \/ (IsWhole(g, n) /\ ~ WasUsed(g, n))
    BY <1>1, <1>5, <2>3, <2>4, <2>5 DEF Rooted
  <2>7. late \subseteq 1 .. Len(h.regs) /\ r \notin 1 .. Len(h.regs) /\ now \subseteq 1 .. Len(g.regs)
    <3>1. late \subseteq 1 .. Len(h.regs)
      BY DEF Rooted
    <3>2. Len(h.regs) \in Nat /\ Len(g.regs) = Len(h.regs) + 1
      BY <1>2, <1>5
    <3>3. 1 .. Len(h.regs) \subseteq 1 .. Len(g.regs) /\ r \in 1 .. Len(g.regs) /\ r \notin 1 .. Len(h.regs)
      BY ONLY <3>2
    <3>. QED
      BY <3>1, <3>3
  <2>8. ASSUME NEW o, NEW e, IsOfNode(o), HasSub(g, o, e) PROVE e.reg \in now <=> ~ IsAttached(g, o.path)
    <3>1. CASE HasSub(h, o, e)
      <4>1. e.reg \in 1 .. Len(h.regs)
        BY <2>8, <3>1, NodeObsFrom
      <4>2. e.reg \in late <=> ~ IsAttached(h, o.path)
        BY <2>8, <3>1 DEF Rooted
      <4>. QED
        BY <2>2, <2>7, <4>1, <4>2
    <3>2. CASE o = on /\ e = Entry(r, "primary")
      <4>1. e.reg = r
        BY <3>2 DEF Entry
      <4>. QED
        BY <1>8, <2>2, <2>7, <3>2, <4>1
    <3>. QED
      BY <1>4, <2>8, <3>1, <3>2
  <2>9. \A i \in 1 .. Len(g.regs) : IsOfNode(g.regs[i].on) => \E j \in 1 .. Len(g.kept) : g.regs[i].on = g.kept[j]
    BY <1>1, <1>5, <1>6, <1>8 DEF Rooted
  <2>. QED
    BY <1>1, <2>6, <2>7, <2>8, <2>9 DEF Rooted
<1>. QED
  BY <1>7, <1>8

(* The monitor.                                                            *)
Settled(h, late) == Sound(h) /\ NodesTyped(h) /\ IsMonitor(h) /\ Rooted(h, late) /\ IsClosed(h.publishing)

(* Pausing cancels the scheduled call, which is at no node.                *)
LEMMA PauseRoots ==
    ASSUME NEW h, NEW late, Settled(h, late), h.monitor.cancel # 0, NEW g, g = MonitorPause(h)
    PROVE  Settled(g, late) /\ g.monitor.cancel = 0 /\ g.publishing = h.publishing
<1>0. h.monitor.cancel \in 1 .. Len(h.regs) /\ Sound(h) /\ NodesTyped(h) /\ IsMonitor(h)
  BY DEF IsMonitor, Sound, Settled
<1>1. PICK passed : passed = {Entry(r, "primary") : r \in 1 .. Len(h.regs)}
  OBVIOUS
<1>2. Awaited(h, passed) \subseteq {h.monitor.cancel}
  BY <1>1 DEF Awaited
<1>3. Evolves(h, g) /\ IsMonitor(g) /\ g.monitor = [h.monitor EXCEPT !.cancel = 0]
  BY <1>0, <1>2, PauseFacts
<1>4. PICK k : k = CancelReg(h, h.monitor.cancel)
  OBVIOUS
<1>5. Sound(k) /\ Rooted(k, late)
  BY <1>0, <1>4, CancelFacts, CancelRoots DEF Settled, Takes
<1>6. g = [k EXCEPT !.monitor.cancel = 0]
  BY <1>4 DEF MonitorPause
<1>7. /\ g.nodes = k.nodes /\ g.kept = k.kept /\ g.publishing = k.publishing
      /\ g.regs = k.regs /\ g.subs = k.subs
  BY <1>5, <1>6 DEF Sound
<1>8. Rooted(g, late)
  BY <1>5, <1>7, SameFieldsRoot
<1>9. g.monitor.cancel = 0
  BY <1>0, <1>3 DEF IsMonitor
<1>. QED
  BY <1>3, <1>8, <1>9 DEF Settled, Evolves

(* Nothing but the monitor's own fields changes.                           *)
LEMMA MonitorFieldsRoot ==
    ASSUME NEW h, NEW late, Settled(h, late), NEW m, NEW g, g = [h EXCEPT !.monitor = m],
           m.intervals \in Seq(Nat), m.stopped \in BOOLEAN, m.cancel = 0,
           m = [intervals |-> m.intervals, cancel |-> m.cancel, stopped |-> m.stopped]
    PROVE  Settled(g, late) /\ g.monitor = m /\ g.publishing = h.publishing
<1>1. Sound(h) /\ NodesTyped(h) /\ Rooted(h, late) /\ IsClosed(h.publishing)
  BY DEF Settled
<1>2. /\ g.nodes = h.nodes /\ g.kept = h.kept /\ g.publishing = h.publishing /\ g.regs = h.regs
      /\ g.subs = h.subs /\ g.monitor = m /\ g.cb = h.cb /\ g.lastCompleted = h.lastCompleted /\ IsObjects(g)
  BY <1>1 DEF Sound, IsObjects
<1>3. Sound(g)
  BY <1>1, <1>2, SoundDepends
<1>4. NodesTyped(g) /\ Rooted(g, late)
  BY <1>1, <1>2, SameFieldsRoot, NodesTypedDepends
<1>5. Len(g.regs) \in Nat
  BY <1>3 DEF Sound
<1>6. IsMonitor(g)
  BY <1>2, <1>5 DEF IsMonitor
<1>. QED
  BY <1>1, <1>2, <1>3, <1>4, <1>6 DEF Settled

(* So does stopping.                                                       *)
LEMMA StopRoots ==
    ASSUME NEW h, NEW late, Settled(h, late), NEW g, g = MonitorStop(h)
    PROVE  Rooted(g, late) /\ g.publishing = h.publishing
<1>1. PICK k : k = IF h.monitor.cancel # 0 THEN MonitorPause(h) ELSE h
  OBVIOUS
<1>2. Settled(k, late) /\ k.monitor.cancel = 0 /\ k.publishing = h.publishing
  BY <1>1, PauseRoots
<1>3. g = [k EXCEPT !.monitor.intervals = <<>>, !.monitor.stopped = TRUE]
  BY <1>1 DEF MonitorStop
<1>4. Sound(k) /\ Rooted(k, late)
  BY <1>2 DEF Settled
<1>5. /\ g.nodes = k.nodes /\ g.kept = k.kept /\ g.publishing = k.publishing
      /\ g.regs = k.regs /\ g.subs = k.subs
  BY <1>3, <1>4 DEF Sound
<1>. QED
  BY <1>2, <1>4, <1>5, SameFieldsRoot

(* The next call is scheduled with the timer.                              *)
LEMMA NextRoots ==
    ASSUME NEW h, NEW late, Settled(h, late), NEW g, g = MonitorNext(h)
    PROVE  Rooted(g, late) /\ g.publishing = h.publishing
<1>0. Sound(h) /\ NodesTyped(h) /\ IsMonitor(h) /\ Rooted(h, late)
  BY DEF Settled
<1>1. CASE h.monitor.intervals = <<>>
  BY <1>1, StopRoots DEF MonitorNext
<1>2. CASE h.monitor.intervals # <<>>
  <2>. DEFINE t == Now(h) + Head(h.monitor.intervals)
  <2>1. PICK k : k = [h EXCEPT !.monitor.intervals = Tail(@), !.monitor.cancel = Len(h.regs) + 1]
    OBVIOUS
  <2>2. g = Register(k, "monitor", OfTick(k, t), Nowhere)
    BY <1>2, <2>1 DEF MonitorNext
  <2>3. /\ IsObjects(k) /\ k.subs = h.subs /\ k.cb = h.cb /\ k.kept = h.kept /\ k.nodes = h.nodes
        /\ k.regs = h.regs /\ k.lastCompleted = h.lastCompleted /\ k.publishing = h.publishing
    BY <1>0, <2>1 DEF Sound, IsObjects
  <2>4. Sound(k) /\ NodesTyped(k) /\ Rooted(k, late)
    BY <1>0, <2>3, SoundDepends, NodesTypedDepends, SameFieldsRoot
  <2>5. t \in Nat /\ t > k.lastCompleted
    <3>1. PICK d : d = Head(h.monitor.intervals)
      OBVIOUS
    <3>2. d \in Nat /\ t = h.lastCompleted + 1 + d /\ h.lastCompleted \in Nat
      BY <1>0, <1>2, <3>1 DEF Now, IsMonitor, Sound
    <3>. QED
      BY <2>3, <3>2
  <2>. HIDE DEF t
  <2>6. IsTimerObs(OfTick(k, t)) /\ IsObs(OfTick(k, t)) /\ ~ IsOfNode(OfTick(k, t))
    BY <2>4, <2>5, OfTickFacts
  <2>7. CanRegister(k, "monitor", OfTick(k, t), Nowhere)
    BY <2>5, <2>6 DEF CanRegister, Opens, AllKinds
  <2>8. PICK on : on = OfTick(k, t)
    OBVIOUS
  <2>9. CanRegister(k, "monitor", on, Nowhere) /\ ~ IsOfNode(on) /\ g = Register(k, "monitor", on, Nowhere)
    BY <2>2, <2>6, <2>7, <2>8
  <2>10. g.publishing = k.publishing
    BY <2>4, <2>9, RegisterNodes
  <2>. QED
    BY <2>3, <2>4, <2>9, <2>10, RegisterRoots
<1>. QED
  BY <1>1, <1>2

(* Resetting is pausing, and scheduling again.                             *)
LEMMA ResetRoots ==
    ASSUME NEW h, NEW late, Settled(h, late), NEW intervals \in Seq(Nat), NEW g, g = MonitorReset(h, intervals)
    PROVE  Rooted(g, late) /\ g.publishing = h.publishing
<1>1. PICK k : k = IF h.monitor.cancel # 0 THEN MonitorPause(h) ELSE h
  OBVIOUS
<1>2. Settled(k, late) /\ k.monitor.cancel = 0 /\ k.publishing = h.publishing
  BY <1>1, PauseRoots
<1>3. PICK m : m = [k.monitor EXCEPT !.intervals = intervals, !.stopped = FALSE]
  OBVIOUS
<1>4. PICK l : l = [k EXCEPT !.monitor = m]
  OBVIOUS
<1>5. m = [intervals |-> intervals, cancel |-> 0, stopped |-> FALSE]
  BY <1>2, <1>3 DEF Settled, IsMonitor
<1>6. Settled(l, late) /\ l.publishing = k.publishing
  <2>1. /\ m.intervals \in Seq(Nat) /\ m.stopped \in BOOLEAN /\ m.cancel = 0
        /\ m = [intervals |-> m.intervals, cancel |-> m.cancel, stopped |-> m.stopped]
    BY <1>5
  <2>. QED
    BY <1>2, <1>4, <2>1, MonitorFieldsRoot
<1>7. l = [k EXCEPT !.monitor.intervals = intervals, !.monitor.stopped = FALSE]
  BY <1>2, <1>3, <1>4 DEF Settled, Sound
<1>8. g = MonitorNext(l)
  BY <1>1, <1>7 DEF MonitorReset
<1>. QED
  BY <1>2, <1>6, <1>8, NextRoots

(* What follows a call.                                                    *)
LEMMA AfterCallRoots ==
    ASSUME NEW h, NEW late, Settled(h, late), NEW e, IsEntry(h, e), NEW result,
           NEW g, g = AfterCall(h, e, result)
    PROVE  Rooted(g, late) /\ g.publishing = h.publishing
<1>1. Sound(h) /\ NodesTyped(h) /\ IsClosed(h.publishing) /\ Rooted(h, late) /\ e.reg \in 1 .. Len(h.regs)
  BY EntryFacts DEF Settled
<1>2. \/ g = h \/ g = RemovePrimary(h, e.reg) \/ g = MonitorStop(h) \/ g = MonitorNext(h)
  BY DEF AfterCall, MonitorRan
<1>3. g = RemovePrimary(h, e.reg) => g.publishing = h.publishing
  BY <1>1, RemovePrimaryFacts DEF Takes
<1>. QED
  BY <1>1, <1>2, <1>3, CancelRoots, StopRoots, NextRoots

(* EventContext.subscribe makes nodes that nobody has used, and none in    *)
(* the place of another.                                                   *)
LEMMA ObserveRoots ==
    ASSUME NEW h, Sound(h), NodesTyped(h), NEW late, Rooted(h, late),
           NEW path \in Paths, IsDescendant(h, path),
           \A k \in 1 .. Len(path) : path[k].for <= Len(h.kept) + 1,
           NEW phase, NEW g, g = MakeSubscribe(h, path, phase)
    PROVE  Rooted(g, late)
<1>. DEFINE n == Len(h.kept) + 1
<1>1. /\ g.nodes = h.nodes \cup (Prefixes(path) \ {<<>>}) /\ g.kept = Append(h.kept, OfNode(path, phase))
      /\ g.regs = h.regs /\ g.publishing = h.publishing /\ g.subs = h.subs
  BY DEF MakeSubscribe, Sound
<1>2. /\ Len(h.kept) \in Nat /\ Len(g.kept) = n /\ g.kept[n].path = path
      /\ \A i \in 1 .. Len(h.kept) : g.kept[i] = h.kept[i] /\ h.kept[i].path \in Paths
      /\ \A i \in 1 .. Len(g.kept) : i \in 1 .. Len(h.kept) \/ i = n
  <2>1. h.kept \in Seq(Obs)
    BY DEF NodesTyped
  <2>2. \A i \in 1 .. Len(h.kept) : h.kept[i] \in Obs
    BY <2>1
  <2>3. OfNode(path, phase).path = path
    BY DEF OfNode
  <2>. QED
    BY <1>1, <2>1, <2>2, <2>3 DEF Obs
<1>. HIDE DEF n
<1>3. n \in Nat /\ n > Len(h.kept) /\ n = Len(h.kept) + 1
  BY <1>2 DEF n
<1>4. Prefixes(path) \subseteq Paths /\ \A x \in Paths : x \in Prefixes(path) <=> IsPrefix(x, path)
  BY PrefixesFacts
<1>5. h.nodes \subseteq Paths
  BY DEF NodesTyped
<1>6. ASSUME NEW x \in g.nodes, x \notin h.nodes
      PROVE  x \in Paths /\ x # <<>> /\ IsPrefix(x, path) /\ ~ IsMadeBy(x, Len(h.kept))
  <2>1. x \in Paths /\ x # <<>> /\ IsPrefix(x, path)
    BY <1>1, <1>4, <1>6
  <2>2. x \in Seq(NodeKeys) /\ path \in Seq(NodeKeys)
    BY <2>1 DEF Paths
  <2>3. PICK l : l = Len(x)
    OBVIOUS
  <2>4. l \in 1 .. Len(path) /\ x = SubSeq(path, 1, l) /\ \A i \in 1 .. l : x[i] = path[i]
    <3>1. l \in Nat \ {0} /\ Len(path) \in Nat
      BY <2>1, <2>2, <2>3
    <3>2. l <= Len(path) /\ \A i \in 1 .. l : x[i] = path[i]
      BY <2>1, <2>3, PrefixDef
    <3>3. x = SubSeq(path, 1, l)
      <4>1. SubSeq(x, 1, l) = x
        BY <2>2, <2>3
      <4>. QED
        BY <2>1, <2>3, <4>1 DEF IsPrefix
    <3>. QED
      BY <3>1, <3>2, <3>3
  <2>5. path[l].for = n
    BY <1>3, <1>6, <2>2, <2>4 DEF IsDescendant
  <2>6. x[l].for = n /\ l \in 1 .. Len(x)
    BY <2>2, <2>3, <2>4, <2>5
  <2>. QED
    BY <1>2, <1>3, <2>1, <2>6 DEF IsMadeBy
<1>7. ASSUME NEW x \in Paths, NEW p \in Paths, IsPrefix(x, p), IsMadeBy(p, Len(h.kept))
      PROVE  IsMadeBy(x, Len(h.kept))
  <2>1. Len(x) <= Len(p) /\ \A i \in 1 .. Len(x) : x[i] = p[i]
    BY <1>7, PrefixDef
  <2>2. Len(x) \in Nat /\ Len(p) \in Nat
    BY PrefixOrder
  <2>. QED
    BY <1>7, <2>1, <2>2 DEF IsMadeBy
<1>8. \A i \in 1 .. Len(h.kept) : IsMadeBy(h.kept[i].path, Len(h.kept))
  BY DEF Rooted
<1>9. \A o, e : IsOfNode(o) /\ HasSub(h, o, e) => o.path \in Paths /\ IsMadeBy(o.path, Len(h.kept))
  <2>. SUFFICES ASSUME NEW o, NEW e, IsOfNode(o), HasSub(h, o, e)
                PROVE  o.path \in Paths /\ IsMadeBy(o.path, Len(h.kept))
    OBVIOUS
  <2>1. o.path \in Paths /\ e.reg \in 1 .. Len(h.regs) /\ h.regs[e.reg].on = o
    BY NodeObsFrom
  <2>. QED
    BY <1>8, <2>1 DEF Rooted
<1>10. \A o, e : HasSub(g, o, e) <=> HasSub(h, o, e)
  BY <1>1 DEF HasSub, Subs
<1>11. ASSUME NEW x \in Paths, NEW p \in Paths, IsMadeBy(p, Len(h.kept))
       PROVE  (IsUnder(g, x, p) <=> IsUnder(h, x, p)) /\ (IsAttached(g, p) <=> IsAttached(h, p))
  <2>1. \A m \in Paths : IsPrefix(m, p) => (m \in g.nodes <=> m \in h.nodes)
    BY <1>1, <1>6, <1>7, <1>11
  <2>. QED
    BY <2>1, UnderDef
<1>12. ASSUME NEW o, NEW e, IsOfNode(o), HasSub(g, o, e) PROVE e.reg \in late <=> ~ IsAttached(g, o.path)
  <2>1. HasSub(h, o, e) /\ o.path \in Paths /\ IsMadeBy(o.path, Len(h.kept))
    BY <1>9, <1>10, <1>12
  <2>2. IsAttached(g, o.path) <=> IsAttached(h, o.path)
    BY <1>11, <2>1
  <2>. QED
    BY <1>12, <2>1, <2>2 DEF Rooted
<1>13. ASSUME NEW x \in Paths, IsNeeded(h, x) PROVE IsNeeded(g, x)
  <2>1. h.nodes \subseteq g.nodes
    BY <1>1
  <2>. QED
    BY <1>10, <1>13, <2>1, UnderGrows DEF IsNeeded, HasAny
<1>14. \A x : WasUsed(g, x) <=> WasUsed(h, x)
  BY <1>1 DEF WasUsed
<1>15. ASSUME NEW x \in g.nodes, IsPrefix(x, path) PROVE IsUnder(g, x, path)
  <2>1. x \in Paths
    BY <1>1, <1>4, <1>5
  <2>2. ASSUME NEW m \in Paths, IsPrefix(m, path), Len(m) > Len(x) PROVE m \in g.nodes
    <3>1. m # <<>>
      BY <2>1, <2>2, PrefixOrder
    <3>. QED
      BY <1>1, <1>4, <2>2, <3>1
  <2>. QED
    BY <1>15, <2>1, <2>2, UnderDef
<1>16. ASSUME NEW x \in g.nodes,
              \A i \in 1 .. Len(h.kept) : IsPrefix(x, h.kept[i].path) => IsUnder(g, x, h.kept[i].path)
       PROVE  IsWhole(g, x)
  BY <1>2, <1>15, <1>16 DEF IsWhole
<1>17. ASSUME NEW x \in h.nodes, IsWhole(h, x) PROVE IsWhole(g, x)
  <2>1. x \in Paths /\ x \in g.nodes
    BY <1>1, <1>5
  <2>2. \A i \in 1 .. Len(h.kept) : IsPrefix(x, h.kept[i].path) => IsUnder(g, x, h.kept[i].path)
    BY <1>2, <1>8, <1>11, <1>17, <2>1 DEF IsWhole
  <2>. QED
    BY <1>16, <2>1, <2>2
<1>18. ASSUME NEW x \in g.nodes, x \notin h.nodes PROVE IsWhole(g, x) /\ ~ WasUsed(g, x)
  <2>1. x \in Paths /\ ~ IsMadeBy(x, Len(h.kept))
    BY <1>6, <1>18
  <2>2. \A i \in 1 .. Len(h.kept) : ~ IsPrefix(x, h.kept[i].path)
    BY <1>2, <1>7, <1>8, <2>1
  <2>3. ~ WasUsed(h, x)
    BY <2>2 DEF WasUsed, Rooted
  <2>. QED
    BY <1>14, <1>16, <2>2, <2>3
<1>19. ASSUME NEW x \in g.nodes
       PROVE  IsNeeded(g, x) \/ x \in g.publishing \/ (IsWhole(g, x) /\ ~ WasUsed(g, x))
  <2>1. CASE x \in h.nodes
    <3>1. IsNeeded(h, x) \/ x \in h.publishing \/ (IsWhole(h, x) /\ ~ WasUsed(h, x))
      BY <2>1 DEF Rooted
    <3>. QED
      BY <1>1, <1>5, <1>13, <1>14, <1>17, <2>1, <3>1
  <2>. QED
    BY <1>18, <2>1
<1>20. \A i \in 1 .. Len(g.kept) : IsMadeBy(g.kept[i].path, Len(g.kept))
  <2>1. ASSUME NEW i \in 1 .. Len(h.kept) PROVE IsMadeBy(h.kept[i].path, n)
    <3>1. \A k \in 1 .. Len(h.kept[i].path) : h.kept[i].path[k].for <= Len(h.kept)
      BY <1>8 DEF IsMadeBy
    <3>2. \A k \in 1 .. Len(h.kept[i].path) : h.kept[i].path[k].for \in Nat
      <4>1. h.kept[i].path \in Seq(NodeKeys)
        BY <1>2 DEF Paths
      <4>2. \A k \in 1 .. Len(h.kept[i].path) : h.kept[i].path[k] \in NodeKeys
        BY <4>1
      <4>. QED
        BY <4>2 DEF NodeKeys
    <3>. QED
      BY <1>2, <1>3, <3>1, <3>2 DEF IsMadeBy
  <2>2. IsMadeBy(path, n)
    BY <1>3 DEF IsMadeBy
  <2>. QED
    BY <1>2, <2>1, <2>2
<1>21. <<>> \notin g.nodes /\ late \subseteq 1 .. Len(g.regs)
  BY <1>1 DEF Rooted
<1>22. \A r \in 1 .. Len(g.regs) : IsOfNode(g.regs[r].on) => \E i \in 1 .. Len(g.kept) : g.regs[r].on = g.kept[i]
  <2>1. \A i \in 1 .. Len(h.kept) : i \in 1 .. Len(g.kept)
    BY <1>2, <1>3
  <2>. QED
    BY <1>1, <1>2, <2>1 DEF Rooted
<1>. QED
  BY <1>12, <1>19, <1>20, <1>21, <1>22 DEF Rooted

(* Only _maybeClean looks at where events are being published.             *)
LEMMA SameReasons ==
    ASSUME NEW h, NEW g, g.nodes = h.nodes, g.kept = h.kept, g.regs = h.regs, g.subs = h.subs
    PROVE  /\ \A o, e : HasSub(g, o, e) <=> HasSub(h, o, e)
           /\ \A n : (IsNeeded(g, n) <=> IsNeeded(h, n)) /\ (IsWhole(g, n) <=> IsWhole(h, n))
           /\ \A n : (WasUsed(g, n) <=> WasUsed(h, n)) /\ (IsAttached(g, n) <=> IsAttached(h, n))
<1>1. \A o, e : HasSub(g, o, e) <=> HasSub(h, o, e)
  BY DEF HasSub, Subs
<1>2. \A n, q : IsUnder(g, n, q) <=> IsUnder(h, n, q)
  BY DEF IsUnder
<1>3. \A n : IsNeeded(g, n) <=> IsNeeded(h, n)
  BY <1>1, <1>2 DEF IsNeeded, HasAny
<1>4. \A n : IsWhole(g, n) <=> IsWhole(h, n)
  BY <1>2 DEF IsWhole
<1>5. \A n : WasUsed(g, n) <=> WasUsed(h, n)
  BY DEF WasUsed
<1>. QED
  BY <1>1, <1>2, <1>3, <1>4, <1>5 DEF IsAttached

(* An event begins to be published at a node.                              *)
LEMMA BeginRoots ==
    ASSUME NEW h, Sound(h), NEW late, Rooted(h, late), NEW p,
           NEW g, g = [h EXCEPT !.publishing = @ \cup {p}]
    PROVE  Rooted(g, late)
<1>1. /\ g.nodes = h.nodes /\ g.kept = h.kept /\ g.publishing = h.publishing \cup {p}
      /\ g.regs = h.regs /\ g.subs = h.subs
  BY DEF Sound
<1>5. /\ \A o, e : HasSub(g, o, e) <=> HasSub(h, o, e)
      /\ \A n : (IsNeeded(g, n) <=> IsNeeded(h, n)) /\ (IsWhole(g, n) <=> IsWhole(h, n))
      /\ \A n : (WasUsed(g, n) <=> WasUsed(h, n)) /\ (IsAttached(g, n) <=> IsAttached(h, n))
  BY <1>1, SameReasons
<1>6. \A n \in g.nodes : IsNeeded(g, n) \/ n \in g.publishing \/ (IsWhole(g, n) /\ ~ WasUsed(g, n))
  BY <1>1, <1>5 DEF Rooted
<1>7. \A o, e : IsOfNode(o) /\ HasSub(g, o, e) => (e.reg \in late <=> ~ IsAttached(g, o.path))
  BY <1>5 DEF Rooted
<1>. QED
  BY <1>1, <1>6, <1>7 DEF Rooted

(* It has been published there, and below.                                 *)
LEMMA EndRoots ==
    ASSUME NEW h, Sound(h), NodesTyped(h), NEW late, Rooted(h, late),
           NEW p \in Paths, p # <<>> => p \in h.publishing,
           IsClosed(h.publishing), IsClosed(h.publishing \ {p}),
           NEW k, k = [h EXCEPT !.publishing = @ \ {p}], NEW g, g = MaybeClean(k, p)
    PROVE  Rooted(g, late) /\ g.publishing = h.publishing \ {p}
<1>1. /\ k.nodes = h.nodes /\ k.kept = h.kept /\ k.publishing = h.publishing \ {p}
      /\ k.regs = h.regs /\ k.subs = h.subs /\ k.cb = h.cb /\ k.lastCompleted = h.lastCompleted /\ IsObjects(k)
  BY DEF Sound, IsObjects
<1>2. Sound(k) /\ NodesTyped(k)
  BY <1>1, SoundDepends, NodesTypedDepends
<1>5. /\ \A o, e : HasSub(k, o, e) <=> HasSub(h, o, e)
      /\ \A n : (IsNeeded(k, n) <=> IsNeeded(h, n)) /\ (IsWhole(k, n) <=> IsWhole(h, n))
      /\ \A n : (WasUsed(k, n) <=> WasUsed(h, n)) /\ (IsAttached(k, n) <=> IsAttached(h, n))
  BY <1>1, SameReasons
<1>6. IsUnder(k, p, p)
  <2>1. \A m \in Paths : IsPrefix(m, p) => ~ (Len(m) > Len(p))
    <3>. SUFFICES ASSUME NEW m \in Paths, IsPrefix(m, p) PROVE ~ (Len(m) > Len(p))
      OBVIOUS
    <3>1. Len(m) <= Len(p) /\ Len(m) \in Nat /\ Len(p) \in Nat
      BY PrefixOrder
    <3>. QED
      BY <3>1
  <2>2. IsPrefix(p, p)
    BY PrefixOrder
  <2>. QED
    BY <2>1, <2>2, UnderDef
<1>7. \A n \in k.nodes : \/ IsNeeded(k, n) \/ n \in k.publishing
                         \/ IsWhole(k, n) /\ ~ WasUsed(k, n)
                         \/ IsUnder(k, n, p)
  BY <1>1, <1>5, <1>6 DEF Rooted
<1>8. ASSUME NEW n \in k.nodes, IsPrefix(n, p) PROVE n = p \/ n \in k.publishing
  <2>1. n \in Paths /\ n # <<>>
    BY <1>1 DEF NodesTyped, Rooted
  <2>2. p \in h.publishing
    BY <1>8, <2>1, PrefixOrder
  <2>3. n \in h.publishing
    BY <1>8, <2>1, <2>2 DEF IsClosed
  <2>. QED
    BY <1>1, <2>3
<1>9. \A o, e : IsOfNode(o) /\ HasSub(k, o, e) => (e.reg \in late <=> ~ IsAttached(k, o.path))
  BY <1>5 DEF Rooted
<1>10. ToBeCleaned(k, late, p)
  BY <1>1, <1>7, <1>8, <1>9 DEF ToBeCleaned, Rooted
<1>11. IsClosed(k.publishing)
  BY <1>1
<1>. QED
  BY ONLY <1>1, <1>2, <1>10, <1>11, CleanRoots, g = MaybeClean(k, p), p \in Paths

-----------------------------------------------------------------------------
(* The loops.                                                              *)

(* Frames of nodes have the fields of such.                                *)
LEMMA NodeLoopFacts ==
    ASSUME NEW s \in Seq(Frames)
    PROVE  /\ Len(s) \in Nat
           /\ \A i \in NodeLoops(s) : i \in 1 .. Len(s) /\ s[i].node \in Paths /\ s[i].evt \in Seq(Names)
  BY FrameKinds DEF NodeLoops

(* Since an event has been at all nodes above.                             *)
LEMMA LoopsAreClosed ==
    ASSUME NEW s \in Seq(Frames), NEW publishing, LoopsAt(s, publishing)
    PROVE  IsClosed(publishing)
<1>1. ASSUME NEW p \in publishing
      PROVE  p \in Paths /\ \A n \in Paths : n # <<>> /\ IsPrefix(n, p) => n \in publishing
  <2>1. PICK i \in NodeLoops(s) : s[i].node = p /\ s[i].phase # "capture"
    BY DEF LoopsAt
  <2>2. p \in Paths
    BY <2>1, NodeLoopFacts
  <2>3. \A n \in Paths : n # <<>> /\ IsPrefix(n, p) => p # <<>>
    BY <2>2, PrefixOrder
  <2>. QED
    BY <2>1, <2>2, <2>3 DEF LoopsAt, IsOnItsWay
<1>. QED
  BY <1>1 DEF IsClosed

(* No loop is about to begin.                                             *)
IsQuiet(s, publishing) == LoopsAt(s, publishing) /\ \A i \in NodeLoops(s) : s[i].phase # "capture"

(* Only the innermost loop can be about to begin.                          *)
LEMMA QuietWhen ==
    ASSUME NEW s \in Seq(Frames), NEW publishing, LoopsAt(s, publishing), s = <<>> \/ Last(s).do # "node"
    PROVE  IsQuiet(s, publishing)
<1>1. s # <<>> => Last(s) = s[Len(s)]
  BY FrontFacts
<1>2. ASSUME NEW i \in NodeLoops(s) PROVE s[i].phase # "capture"
  <2>1. i # Len(s)
    BY <1>1 DEF NodeLoops
  <2>. QED
    BY <2>1 DEF LoopsAt
<1>. QED
  BY <1>2 DEF IsQuiet

(* Loops and calls that are not at a node end and begin.                   *)
LEMMA OtherLoops ==
    ASSUME NEW s, NEW publishing, IsQuiet(s, publishing),
           NEW t, NodeLoops(t) = NodeLoops(s), \A i \in NodeLoops(s) : t[i] = s[i]
    PROVE  IsQuiet(t, publishing)
  BY DEF LoopsAt, IsQuiet

(* The innermost frame, that is not at a node, ends.                       *)
LEMMA OtherEnds ==
    ASSUME NEW s \in Seq(Frames), NEW publishing, LoopsAt(s, publishing), s # <<>>, Last(s).do # "node",
           NEW t, t = Front(s)
    PROVE  t \in Seq(Frames) /\ IsQuiet(t, publishing)
<1>1. /\ Len(s) \in Nat \ {0} /\ Last(s) = s[Len(s)]
      /\ t \in Seq(Frames) /\ Len(t) = Len(s) - 1 /\ \A i \in 1 .. Len(t) : t[i] = s[i]
  BY FrontFacts
<1>2. \A i \in 1 .. Len(s) : i \in 1 .. Len(t) \/ i = Len(s)
  BY <1>1
<1>3. \A i \in 1 .. Len(t) : i \in 1 .. Len(s)
  BY <1>1
<1>4. NodeLoops(t) = NodeLoops(s) /\ \A i \in NodeLoops(s) : t[i] = s[i]
  BY <1>1, <1>2, <1>3 DEF NodeLoops
<1>. QED
  BY <1>1, <1>4, QuietWhen, OtherLoops

(* A frame that is not at a node begins.                                   *)
LEMMA OtherBegins ==
    ASSUME NEW s \in Seq(Frames), NEW publishing, IsQuiet(s, publishing), NEW f, f.do # "node",
           NEW t, t = Append(s, f)
    PROVE  IsQuiet(t, publishing)
<1>1. PICK S : S = Frames \cup {f}
  OBVIOUS
<1>2. s \in Seq(S) /\ f \in S
  BY <1>1
<1>3. Len(t) = Len(s) + 1 /\ Len(s) \in Nat /\ t[Len(t)] = f /\ \A i \in 1 .. Len(s) : t[i] = s[i]
  BY <1>2, PushFacts
<1>4. NodeLoops(t) = NodeLoops(s) /\ \A i \in NodeLoops(s) : t[i] = s[i]
  BY <1>3 DEF NodeLoops
<1>. QED
  BY <1>4, OtherLoops

(* The event goes on at the node of the innermost loop, or begins to.      *)
LoopGoes(s, publishing, f, all) ==
    LET top == s[Len(s)] IN
    /\ s \in Seq(Frames) /\ LoopsAt(s, publishing) /\ Len(s) \in NodeLoops(s)
    /\ f \in Frames /\ f.do = "node" /\ f.node = top.node /\ f.evt = top.evt /\ f.phase # "capture"
    /\ all = publishing \cup {top.node} \/ (top.phase # "capture" /\ all = publishing)

(* Its new phase puts the node among those that are publishing.            *)
LEMMA LoopGoesOn ==
    ASSUME NEW s, NEW publishing, NEW f, NEW all, LoopGoes(s, publishing, f, all),
           NEW t, t = Append(Front(s), f)
    PROVE  t \in Seq(Frames) /\ Len(t) = Len(s) /\ t[Len(s)] = f /\ IsQuiet(t, all)
<1>. PICK n : n = Len(s)
  OBVIOUS
<1>. /\ s \in Seq(Frames) /\ LoopsAt(s, publishing) /\ n \in NodeLoops(s)
     /\ f \in Frames /\ f.do = "node" /\ f.node = s[n].node /\ f.evt = s[n].evt /\ f.phase # "capture"
     /\ all = publishing \cup {s[n].node} \/ (s[n].phase # "capture" /\ all = publishing)
  BY DEF LoopGoes
<1>0. /\ t \in Seq(Frames) /\ Len(t) = n /\ n \in Nat /\ t[n] = f
      /\ \A i \in 1 .. n : i # n => t[i] = s[i]
  <2>1. PICK q : q = Front(s)
    OBVIOUS
  <2>2. s # <<>>
    BY DEF NodeLoops
  <2>3. n \in Nat \ {0} /\ q \in Seq(Frames) /\ Len(q) = n - 1 /\ \A i \in 1 .. Len(q) : q[i] = s[i]
    BY <2>1, <2>2, FrontFacts
  <2>4. t \in Seq(Frames) /\ Len(t) = Len(q) + 1 /\ t[Len(q) + 1] = f /\ \A i \in 1 .. Len(q) : t[i] = q[i]
    BY <2>1, <2>3, PushFacts
  <2>5. \A i \in 1 .. n : i # n => i \in 1 .. Len(q)
    BY <2>3
  <2>. QED
    BY <2>3, <2>4, <2>5
<1>6. NodeLoops(t) = NodeLoops(s) /\ \A i \in NodeLoops(s) : i # n => t[i] = s[i]
  BY <1>0 DEF NodeLoops
<1>1. \A i \in NodeLoops(s) : t[i].node = s[i].node /\ t[i].evt = s[i].evt
  BY <1>0, <1>6
<1>2. \A i \in NodeLoops(s) : t[i].phase # "capture"
  BY <1>0, <1>6 DEF LoopsAt
<1>3. ASSUME NEW i \in NodeLoops(t) PROVE IsOnItsWay(t[i], all)
  <2>1. IsOnItsWay(s[i], publishing) /\ (s[i].phase = "capture" => i = n)
    BY <1>6 DEF LoopsAt
  <2>. QED
    BY <1>1, <1>6, <2>1 DEF IsOnItsWay
<1>4. ASSUME NEW p \in all PROVE \E i \in NodeLoops(t) : t[i].node = p /\ t[i].phase # "capture"
  <2>1. CASE p \in publishing
    <3>1. PICK i \in NodeLoops(s) : s[i].node = p
      BY <2>1 DEF LoopsAt
    <3>. QED
      BY <1>1, <1>2, <1>6, <3>1
  <2>2. CASE p = s[n].node
    BY <1>1, <1>2, <1>6, <2>2
  <2>. QED
    BY <2>1, <2>2
<1>5. ASSUME NEW i \in NodeLoops(t), NEW j \in NodeLoops(t), i < j PROVE AreApart(t[i], t[j])
  <2>1. AreApart(s[i], s[j])
    BY <1>5, <1>6 DEF LoopsAt
  <2>. QED
    BY <1>1, <1>6, <2>1 DEF AreApart
<1>. QED
  BY <1>0, <1>2, <1>3, <1>4, <1>5, <1>6 DEF LoopsAt, IsQuiet

(* A loop begins at the root, or a node below that of the innermost.       *)
LEMMA LoopBegins ==
    ASSUME NEW s \in Seq(Frames), NEW publishing, IsQuiet(s, publishing),
           NEW f \in Frames, f.do = "node", f.phase = "capture",
           IsOnItsWay(f, publishing), \A i \in NodeLoops(s) : AreApart(s[i], f),
           NEW t, t = Append(s, f)
    PROVE  LoopsAt(t, publishing)
<1>1. /\ t \in Seq(Frames) /\ Len(t) = Len(s) + 1 /\ Len(s) \in Nat /\ t[Len(t)] = f
      /\ \A i \in 1 .. Len(s) : t[i] = s[i]
  OBVIOUS
<1>2. NodeLoops(t) = NodeLoops(s) \cup {Len(t)}
  BY <1>1 DEF NodeLoops
<1>3. \A i \in NodeLoops(s) : t[i] = s[i] /\ i < Len(t)
  BY <1>1 DEF NodeLoops
<1>4. \A i \in NodeLoops(t) : IsOnItsWay(t[i], publishing) /\ (t[i].phase = "capture" => i = Len(t))
  BY <1>1, <1>2, <1>3 DEF LoopsAt, IsQuiet
<1>5. ASSUME NEW i \in NodeLoops(t), NEW j \in NodeLoops(t), i < j PROVE AreApart(t[i], t[j])
  <2>1. i \in NodeLoops(s)
    <3>1. j <= Len(t) /\ i \in 1 .. Len(t) /\ j \in 1 .. Len(t)
      BY DEF NodeLoops
    <3>2. i # Len(t)
      BY <1>1, <1>5, <3>1
    <3>. QED
      BY <1>2, <3>2
  <2>2. CASE j \in NodeLoops(s)
    BY <1>3, <1>5, <2>1, <2>2 DEF LoopsAt, IsQuiet
  <2>3. CASE j = Len(t)
    BY <1>1, <1>3, <2>1, <2>3
  <2>. QED
    BY <1>2, <2>2, <2>3
<1>6. ASSUME NEW p \in publishing PROVE \E i \in NodeLoops(t) : t[i].node = p /\ t[i].phase # "capture"
  <2>1. PICK i \in NodeLoops(s) : s[i].node = p /\ s[i].phase # "capture"
    BY DEF LoopsAt, IsQuiet
  <2>2. i \in NodeLoops(t) /\ t[i] = s[i]
    BY <1>2, <1>3
  <2>. QED
    BY <2>1, <2>2
<1>. QED
  BY <1>4, <1>5, <1>6 DEF LoopsAt, IsQuiet

(* The innermost loop ends, and no other is at its node or below.          *)
LEMMA LoopEnds ==
    ASSUME NEW s \in Seq(Frames), NEW publishing, LoopsAt(s, publishing), NEW n, n = Len(s), n \in NodeLoops(s),
           s[n].phase # "capture", NEW p, p = s[n].node, NEW t, t = Front(s)
    PROVE  LoopsAt(t, publishing \ {p})
<1>1. /\ t \in Seq(Frames) /\ Len(t) = n - 1 /\ n \in Nat \ {0} /\ \A i \in 1 .. Len(t) : t[i] = s[i]
  <2>1. s # <<>>
    BY DEF NodeLoops
  <2>. QED
    BY <2>1, FrontFacts
<1>2. NodeLoops(t) = NodeLoops(s) \ {n}
  BY <1>1 DEF NodeLoops
<1>3. \A i \in NodeLoops(t) : t[i] = s[i] /\ i < n /\ i \in NodeLoops(s)
  BY <1>1, <1>2 DEF NodeLoops
<1>4. p \in Paths /\ \A i \in NodeLoops(s) : s[i].node \in Paths
  BY NodeLoopFacts
<1>5. ASSUME NEW i \in NodeLoops(t), s[i].node # <<>>, NEW q \in Paths, q # <<>>, IsPrefix(q, s[i].node)
      PROVE  q # p
  <2>. SUFFICES ASSUME q = p PROVE FALSE
    OBVIOUS
  <2>1. p # <<>> /\ p[1] = s[i].node[1]
    BY <1>3, <1>4, <1>5, PrefixOrder
  <2>2. s[n].evt # <<>> /\ p[1].name = s[n].evt[1]
    BY <2>1 DEF LoopsAt, IsOnItsWay
  <2>3. AreApart(s[i], s[n])
    BY <1>3 DEF LoopsAt
  <2>4. Len(s[i].node) < Len(p)
    BY <1>5, <2>1, <2>2, <2>3 DEF AreApart
  <2>5. Len(p) <= Len(s[i].node) /\ Len(p) \in Nat /\ Len(s[i].node) \in Nat
    BY <1>3, <1>4, <1>5, PrefixOrder
  <2>. QED
    BY <2>4, <2>5
<1>6. ASSUME NEW i \in NodeLoops(t)
      PROVE  IsOnItsWay(t[i], publishing \ {p}) /\ t[i].phase # "capture"
  <2>1. IsOnItsWay(s[i], publishing) /\ s[i].phase # "capture" /\ t[i] = s[i]
    BY <1>3 DEF LoopsAt
  <2>. QED
    BY <1>5, <2>1 DEF IsOnItsWay
<1>7. ASSUME NEW q \in publishing \ {p} PROVE \E i \in NodeLoops(t) : t[i].node = q /\ t[i].phase # "capture"
  <2>1. PICK i \in NodeLoops(s) : s[i].node = q /\ s[i].phase # "capture"
    BY DEF LoopsAt
  <2>2. i \in NodeLoops(t)
    BY <1>2, <2>1
  <2>. QED
    BY <1>3, <2>1, <2>2
<1>8. \A i, j \in NodeLoops(t) : i < j => AreApart(t[i], t[j])
  BY <1>3 DEF LoopsAt
<1>. QED
  BY <1>6, <1>7, <1>8 DEF LoopsAt

-----------------------------------------------------------------------------
(* The steps.                                                              *)
LEMMA WhereItIsAt ==
    ASSUME CallbacksInv, NodesInv
    PROVE  /\ Settled(objects, history.late) /\ Sound(objects) /\ NodesTyped(objects)
           /\ Rooted(objects, history.late) /\ IsClosed(objects.publishing)
           /\ stack \in Seq(Frames) /\ LoopsAt(stack, objects.publishing)
           /\ \A i \in 1 .. Len(stack) : IsFrame(stack[i], objects)
           /\ InControl => IsQuiet(stack, objects.publishing)
           /\ left \in Scenario
<1>1. /\ Sound(objects) /\ NodesTyped(objects) /\ IsMonitor(objects) /\ left \in Scenario
      /\ stack \in Seq(Frames) /\ \A i \in 1 .. Len(stack) : IsFrame(stack[i], objects)
  BY DEF CallbacksInv, Fits, InProgress, FramesFit, MonitorInv, MonitorFits
<1>2. Rooted(objects, history.late) /\ LoopsAt(stack, objects.publishing)
  BY DEF NodesInv
<1>3. IsClosed(objects.publishing)
  BY <1>1, <1>2, LoopsAreClosed
<1>4. InControl => stack = <<>> \/ Last(stack).do # "node"
  BY DEF InControl, Doing, Top
<1>. QED
  BY <1>1, <1>2, <1>3, <1>4, QuietWhen DEF Settled

(* At first there is nothing.                                              *)
LEMMA NoNodesYet == Init => NodesInv
<1>. SUFFICES ASSUME Init PROVE NodesInv
  OBVIOUS
<1>1. /\ objects.kept = <<>> /\ objects.regs = <<>> /\ objects.nodes = {} /\ objects.publishing = {}
      /\ DOMAIN objects.subs = {} /\ stack = <<>> /\ history.late = {}
  BY DEF Init, NewObjects, NoHistory
<1>2. \A o, e : ~ HasSub(objects, o, e)
  <2>1. \A o : Subs(objects, o) = <<>>
    BY <1>1 DEF Subs
  <2>2. DOMAIN <<>> = {}
    OBVIOUS
  <2>. QED
    BY <2>1, <2>2 DEF HasSub
<1>3. Rooted(objects, history.late)
  BY <1>1, <1>2 DEF Rooted
<1>4. NodeLoops(stack) = {}
  BY <1>1 DEF NodeLoops
<1>5. LoopsAt(stack, objects.publishing)
  BY <1>1, <1>4 DEF LoopsAt
<1>. QED
  BY <1>3, <1>5 DEF NodesInv

(* Somebody is called in the middle of a loop that is not at a node.       *)
LEMMA CallNodes ==
    ASSUME NEW h, NEW late, Settled(h, late), NEW s \in Seq(Frames), IsQuiet(s, h.publishing),
           NEW e, IsEntry(h, e), NEW g, g = BeforeCall(h, e), NEW t, t = s \/ t = Append(s, CallFrame(e))
    PROVE  Rooted(g, late) /\ LoopsAt(t, g.publishing)
<1>1. Rooted(g, late)
  BY CancelRoots DEF Settled
<1>2. g.publishing = h.publishing
  BY BeforeCallFacts DEF Settled, Takes
<1>3. CallFrame(e).do # "node"
  BY DEF CallFrame
<1>4. IsQuiet(t, h.publishing)
  BY <1>3, OtherBegins
<1>. QED
  BY <1>1, <1>2, <1>4 DEF IsQuiet

(* Publishers' and the timer's loops.                                      *)
LEMMA PublishStepNodes ==
    ASSUME CallbacksInv, NodesInv, PublishStep
    PROVE  NodesInv'
<1>. DEFINE h == objects
            s == stack
            top == Last(s)
            rest == Append(Front(s), [top EXCEPT !.due = Tail(@)])
<1>0. /\ Settled(h, history.late) /\ Sound(h) /\ s \in Seq(Frames) /\ LoopsAt(s, h.publishing)
      /\ Rooted(h, history.late)
  BY WhereItIsAt
<1>1. s # <<>> /\ top.do = "publish"
  BY DEF PublishStep, Doing, Top
<1>2. top \in [do : {"publish"}, on : Obs, due : Seq(Entries)]
  <2>1. top \in Frames
    BY <1>0, <1>1, FrontFacts
  <2>. QED
    BY <1>1, <2>1, FrameKinds
<1>3. PICK t : t = Front(s)
  OBVIOUS
<1>4. t \in Seq(Frames) /\ IsQuiet(t, h.publishing)
  BY <1>0, <1>1, <1>3, OtherEnds
<1>5. CASE top.due = <<>> /\ stack' = Front(s) /\ objects' = h /\ history' = history
  BY <1>0, <1>3, <1>4, <1>5 DEF NodesInv, IsQuiet
<1>6. CASE top.due # <<>>
  <2>1. PICK f : f = [top EXCEPT !.due = Tail(@)]
    OBVIOUS
  <2>2. f \in Frames /\ f.do = "publish"
    <3>1. top.due \in Seq(Entries) /\ top.on \in Obs
      BY <1>2
    <3>2. Tail(top.due) \in Seq(Entries)
      BY <1>6, <3>1
    <3>3. f = [do |-> "publish", on |-> top.on, due |-> Tail(top.due)]
      BY <1>2, <2>1
    <3>. QED
      BY <3>1, <3>2, <3>3 DEF Frames
  <2>3. PICK u : u = Append(t, f)
    OBVIOUS
  <2>4. u \in Seq(Frames) /\ IsQuiet(u, h.publishing) /\ u = rest
    <3>1. u \in Seq(Frames)
      BY ONLY <1>4, <2>2, <2>3, PushFacts
    <3>2. IsQuiet(u, h.publishing)
      BY <1>4, <2>2, <2>3, OtherBegins
    <3>3. u = rest
      BY <1>3, <2>1, <2>3
    <3>. QED
      BY <3>1, <3>2, <3>3
  <2>5. CASE StillSubscribed(top.on, Head(top.due)) /\ Call(rest, Head(top.due))
    <3>1. PICK e : e = Head(top.due)
      OBVIOUS
    <3>2. HasSub(h, top.on, e) /\ objects' = BeforeCall(h, e) /\ (stack' = u \/ stack' = Append(u, CallFrame(e)))
          /\ history' = [history EXCEPT !.calls = Append(@, e)]
      BY <2>4, <2>5, <3>1 DEF StillSubscribed, Call, Push
    <3>3. IsEntry(h, e)
      BY <1>0, <3>2, HasSubFacts
    <3>4. Rooted(objects', history.late) /\ LoopsAt(stack', objects'.publishing)
      BY <1>0, <2>4, <3>2, <3>3, CallNodes
    <3>5. history'.late = history.late
      BY <3>2 DEF CallbacksInv, Fits
    <3>. QED
      BY <3>4, <3>5 DEF NodesInv
  <2>6. CASE stack' = rest /\ objects' = h /\ history' = history
    BY <1>0, <2>4, <2>6 DEF NodesInv, IsQuiet
  <2>. QED
    BY <1>6, <2>5, <2>6 DEF PublishStep, Top
<1>. QED
  BY <1>5, <1>6 DEF PublishStep, Top, Pop

(* The timer's loop calls somebody, or the tick is over.                   *)
LEMMA TickStepNodes ==
    ASSUME CallbacksInv, NodesInv, TickStep
    PROVE  NodesInv'
<1>. DEFINE h == objects
            s == stack
            top == Last(s)
            scheduled == Subs(h, top.on)
            next == SelectInSeq(scheduled, LAMBDA e : e \notin top.seen)
<1>0. /\ Settled(h, history.late) /\ Sound(h) /\ s \in Seq(Frames) /\ LoopsAt(s, h.publishing)
      /\ Rooted(h, history.late) /\ Fits(h, s, history)
  BY WhereItIsAt DEF CallbacksInv
<1>1. s # <<>> /\ top.do = "tick"
  BY DEF TickStep, Doing, Top
<1>2. top.on \in DOMAIN h.subs
  BY <1>0, <1>1, TickIsAlone
<1>3. scheduled = h.subs[top.on] /\ scheduled \in Seq(Entries)
  BY <1>0, <1>2, SubsFacts
<1>4. \/ next = 0 /\ \A i \in 1 .. Len(scheduled) : scheduled[i] \in top.seen
      \/ next \in 1 .. Len(scheduled) /\ scheduled[next] \notin top.seen
  BY <1>3, SelectFacts
<1>5. PICK t : t = Front(s)
  OBVIOUS
<1>6. t \in Seq(Frames) /\ IsQuiet(t, h.publishing)
  BY <1>0, <1>1, <1>5, OtherEnds
<1>7. CASE next = 0
  <2>1. /\ stack' = t /\ history' = history
        /\ objects' = [h EXCEPT !.cb = Without(@, top.on.tick), !.lastCompleted = top.on.tick]
    BY <1>5, <1>7 DEF TickStep, Top, Pop
  <2>2. PICK g : g = objects'
    OBVIOUS
  <2>3. g.nodes = h.nodes /\ g.kept = h.kept /\ g.publishing = h.publishing /\ g.regs = h.regs /\ g.subs = h.subs
    BY <1>0, <2>1, <2>2 DEF Sound
  <2>4. Rooted(g, history.late)
    BY <1>0, <2>3, SameFieldsRoot
  <2>. QED
    BY <1>6, <2>1, <2>2, <2>3, <2>4 DEF NodesInv, IsQuiet
<1>8. CASE next # 0
  <2>1. PICK e : e = scheduled[next]
    OBVIOUS
  <2>2. IsEntry(h, e)
    <3>1. Among(h.subs[top.on], e)
      BY <1>3, <1>4, <1>8, <2>1 DEF Among
    <3>. QED
      BY <1>0, <1>2, <3>1, SubsFacts
  <2>3. PICK f : f = [top EXCEPT !.seen = @ \cup {e}]
    OBVIOUS
  <2>4. f \in Frames /\ f.do = "tick"
    <3>1. top \in Frames
      BY <1>0, <1>1, FrontFacts
    <3>2. top \in [do : {"tick"}, on : Obs, seen : SUBSET Entries]
      BY <1>1, <3>1, FrameKinds
    <3>3. top.on \in Obs /\ top.seen \cup {e} \in SUBSET Entries
      BY <2>2, <3>2 DEF IsEntry
    <3>4. f = [do |-> "tick", on |-> top.on, seen |-> top.seen \cup {e}]
      BY <2>3, <3>2
    <3>. QED
      BY ONLY <3>3, <3>4 DEF Frames
  <2>5. PICK u : u = Append(t, f)
    OBVIOUS
  <2>6. u \in Seq(Frames) /\ IsQuiet(u, h.publishing)
    <3>1. u \in Seq(Frames)
      BY ONLY <1>6, <2>4, <2>5, PushFacts
    <3>2. IsQuiet(u, h.publishing)
      BY <1>6, <2>4, <2>5, OtherBegins
    <3>. QED
      BY <3>1, <3>2
  <2>7. Call(Append(Front(s), [top EXCEPT !.seen = @ \cup {scheduled[next]}]), scheduled[next])
    BY <1>8 DEF TickStep, Top
  <2>8. /\ objects' = BeforeCall(h, e) /\ (stack' = u \/ stack' = Append(u, CallFrame(e)))
        /\ history' = [history EXCEPT !.calls = Append(@, e)]
    BY <1>5, <2>1, <2>3, <2>5, <2>7 DEF Call, Push
  <2>9. Rooted(objects', history.late) /\ LoopsAt(stack', objects'.publishing)
    BY <1>0, <2>2, <2>6, <2>8, CallNodes
  <2>10. history'.late = history.late
    BY <2>8 DEF CallbacksInv, Fits
  <2>. QED
    BY <2>9, <2>10 DEF NodesInv
<1>. QED
  BY <1>7, <1>8

(* A tick begins, or passes.                                               *)
LEMMA RunTickNodes ==
    ASSUME CallbacksInv, NodesInv, RunTick
    PROVE  NodesInv'
<1>. DEFINE h == objects
<1>0. /\ Sound(h) /\ Rooted(h, history.late) /\ stack \in Seq(Frames) /\ stack = <<>>
      /\ IsQuiet(stack, h.publishing) /\ history' = history
  BY WhereItIsAt DEF RunTick, InControl
<1>1. CASE objects' = h /\ stack' = Append(stack, TickFrame(OfTick(h, Now(h)), {}))
  <2>1. TickFrame(OfTick(h, Now(h)), {}).do # "node"
    BY DEF TickFrame
  <2>2. IsQuiet(stack', h.publishing)
    BY <1>0, <1>1, <2>1, OtherBegins
  <2>. QED
    BY <1>0, <1>1, <2>2 DEF NodesInv, IsQuiet
<1>2. CASE objects' = [h EXCEPT !.lastCompleted = @ + 1] /\ stack' = stack
  <2>1. PICK g : g = objects'
    OBVIOUS
  <2>2. g.nodes = h.nodes /\ g.kept = h.kept /\ g.publishing = h.publishing /\ g.regs = h.regs /\ g.subs = h.subs
    BY <1>0, <1>2, <2>1 DEF Sound
  <2>3. Rooted(g, history.late)
    BY <1>0, <2>2, SameFieldsRoot
  <2>. QED
    BY <1>0, <1>2, <2>1, <2>2, <2>3 DEF NodesInv, IsQuiet
<1>. QED
  BY <1>0, <1>1, <1>2 DEF RunTick, Push

(* pubDeep.                                                                *)
LEMMA NodeStepNodes ==
    ASSUME CallbacksInv, NodesInv, NodeStep
    PROVE  NodesInv'
<1>. DEFINE h == objects
            s == stack
            top == Last(s)
            p == top.node
            late == history.late
<1>0. /\ Sound(h) /\ NodesTyped(h) /\ Rooted(h, late) /\ IsClosed(h.publishing)
      /\ s \in Seq(Frames) /\ LoopsAt(s, h.publishing) /\ history' = history
  BY WhereItIsAt DEF NodeStep
<1>1. s # <<>> /\ top.do = "node"
  BY DEF NodeStep, Doing, Top
<1>2. PICK n : n = Len(s)
  OBVIOUS
<1>3. n \in Nat \ {0} /\ top = s[n] /\ n \in NodeLoops(s) /\ top \in Frames
  <2>1. n \in Nat \ {0} /\ top = s[n] /\ top \in Frames
    BY <1>0, <1>1, <1>2, FrontFacts
  <2>. QED
    BY <1>1, <1>2, <2>1 DEF NodeLoops
<1>4. top \in [do : {"node"}, evt : Seq(Names), node : Paths, phase : {"capture", "child", "bubble", "end"}]
  BY <1>1, <1>3, FrameKinds
<1>5. p \in Paths /\ top.evt \in Seq(Names)
  BY <1>4
<1>6. IsOnItsWay(top, h.publishing)
  BY <1>0, <1>3 DEF LoopsAt
<1>7. ASSUME NEW phase \in {"child", "bubble", "end"}, NEW t, t = PhaseBecomes(phase),
             NEW all, all = h.publishing \cup {p} \/ (top.phase # "capture" /\ all = h.publishing)
      PROVE  /\ t \in Seq(Frames) /\ Len(t) = n /\ t[n].node = p /\ t[n].evt = top.evt /\ t[n].phase = phase
             /\ IsQuiet(t, all)
  <2>1. PICK f : f = [top EXCEPT !.phase = phase]
    OBVIOUS
  <2>2. f = [do |-> "node", evt |-> top.evt, node |-> p, phase |-> phase]
    BY <1>4, <2>1
  <2>3. f \in Frames
    BY <1>5, <2>2 DEF Frames
  <2>4. f.do = "node" /\ f.node = p /\ f.evt = top.evt /\ f.phase = phase /\ f.phase # "capture"
    BY <2>2
  <2>5. t = Append(Front(s), f)
    BY <1>7, <2>1 DEF PhaseBecomes, Top
  <2>6. f.node = s[n].node /\ f.evt = s[n].evt
    BY <1>3, <2>4
  <2>7. all = h.publishing \cup {s[n].node} \/ (s[n].phase # "capture" /\ all = h.publishing)
    BY <1>3, <1>7
  <2>8. s # <<>> /\ n = Len(s) /\ n \in NodeLoops(s)
    BY <1>1, <1>2, <1>3
  <2>9. LoopGoes(s, h.publishing, f, all)
    BY <1>0, <2>3, <2>4, <2>6, <2>7, <2>8 DEF LoopGoes
  <2>10. t \in Seq(Frames) /\ Len(t) = n /\ t[n] = f /\ IsQuiet(t, all)
    BY <2>5, <2>8, <2>9, LoopGoesOn
  <2>. QED
    BY <2>4, <2>10
<1>8. ASSUME NEW phase \in {"child", "bubble", "end"}, NEW o, NEW due,
             stack' = Append(PhaseBecomes(phase), PublishFrame(o, due)),
             NEW all, all = h.publishing \cup {p} \/ (top.phase # "capture" /\ all = h.publishing)
      PROVE  LoopsAt(stack', all)
  <2>1. PICK t : t = PhaseBecomes(phase)
    OBVIOUS
  <2>2. t \in Seq(Frames) /\ IsQuiet(t, all)
    BY <1>7, <1>8, <2>1
  <2>3. PublishFrame(o, due).do # "node"
    BY DEF PublishFrame
  <2>4. IsQuiet(stack', all)
    BY <1>8, <2>1, <2>2, <2>3, OtherBegins
  <2>. QED
    BY <2>4 DEF IsQuiet
<1>9. CASE /\ objects' = [h EXCEPT !.publishing = @ \cup {p}]
           /\ stack' = Append(PhaseBecomes("child"), PublishFrame(OfNode(p, "capture"), Subs(h, OfNode(p, "capture"))))
  <2>1. Rooted(objects', late)
    BY <1>0, <1>9, BeginRoots
  <2>2. objects'.publishing = h.publishing \cup {p}
    BY <1>0, <1>9 DEF Sound
  <2>3. LoopsAt(stack', objects'.publishing)
    BY <1>8, <1>9, <2>2
  <2>. QED
    BY <1>0, <2>1, <2>3 DEF NodesInv
<1>10. ASSUME objects' = h, stack' = PhaseBecomes("bubble"), top.phase = "child"
       PROVE  NodesInv'
  <2>1. IsQuiet(stack', h.publishing)
    BY <1>7, <1>10
  <2>. QED
    BY <1>0, <1>10, <2>1 DEF NodesInv, IsQuiet
<1>11. ASSUME objects' = h, top.phase = "child", Len(p) < Len(top.evt),
              NEW child \in Children(h, p, top.evt[Len(p) + 1]),
              stack' = Append(PhaseBecomes("bubble"), NodeFrame(top.evt, child, "capture"))
       PROVE  NodesInv'
  <2>1. PICK t : t = PhaseBecomes("bubble")
    OBVIOUS
  <2>2. /\ t \in Seq(Frames) /\ Len(t) = n /\ t[n].node = p /\ t[n].evt = top.evt
        /\ IsQuiet(t, h.publishing)
    BY <1>7, <1>11, <2>1
  <2>3. PICK f : f = NodeFrame(top.evt, child, "capture")
    OBVIOUS
  <2>4. f = [do |-> "node", evt |-> top.evt, node |-> child, phase |-> "capture"]
    BY <2>3 DEF NodeFrame
  <2>5. /\ child \in Paths /\ child # <<>> /\ Front(child) = p /\ Last(child).name = top.evt[Len(p) + 1]
    BY <1>0, <1>11 DEF Children, NodesTyped, Rooted
  <2>6. f \in Frames /\ f.do = "node" /\ f.phase = "capture" /\ f.node = child /\ f.evt = top.evt
    BY <1>5, <2>4, <2>5 DEF Frames
  <2>7. /\ Len(child) = Len(p) + 1 /\ Len(p) \in Nat /\ child[Len(p) + 1] = Last(child)
        /\ \A i \in 1 .. Len(p) : child[i] = p[i]
    <3>1. child \in Seq(NodeKeys)
      BY <2>5 DEF Paths
    <3>2. Len(child) \in Nat \ {0} /\ Last(child) = child[Len(child)] /\ Len(p) = Len(child) - 1
          /\ \A i \in 1 .. Len(p) : p[i] = child[i]
      BY <2>5, <3>1, FrontFacts
    <3>. QED
      BY <3>2
  <2>8. top.evt # <<>> /\ child[1].name = top.evt[1]
    <3>1. top.evt # <<>>
      BY <1>5, <1>11, <2>7
    <3>2. CASE p = <<>>
      <4>1. Len(p) = 0
        BY <3>2
      <4>. QED
        BY <2>5, <2>7, <3>1, <4>1
    <3>3. CASE p # <<>>
      <4>1. Len(p) # 0
        BY <1>5, <3>3, PrefixOrder
      <4>2. child[1] = p[1]
        BY <2>7, <4>1
      <4>. QED
        BY <1>6, <3>1, <3>3, <4>2 DEF IsOnItsWay
    <3>. QED
      BY <3>2, <3>3
  <2>9. ASSUME NEW q \in Paths, q # <<>>, IsPrefix(q, child), q # child PROVE q \in h.publishing
    <3>1. Len(q) <= Len(p)
      <4>1. Len(q) <= Len(child) /\ Len(q) # Len(child) /\ Len(q) \in Nat
        BY <2>5, <2>9, PrefixOrder
      <4>. QED
        BY <2>7, <4>1
    <3>2. IsPrefix(p, child)
      BY <1>5, <2>5, <2>7, PrefixDef
    <3>3. IsPrefix(q, p)
      BY <1>5, <2>5, <2>9, <3>1, <3>2, PrefixOrder
    <3>4. p # <<>>
      BY <1>5, <2>9, <3>3, PrefixOrder
    <3>. QED
      BY <1>6, <1>11, <2>9, <3>3, <3>4 DEF IsOnItsWay
  <2>10. IsOnItsWay(f, h.publishing)
    BY <2>6, <2>8, <2>9 DEF IsOnItsWay
  <2>11. ASSUME NEW i \in NodeLoops(t) PROVE AreApart(t[i], f)
    <3>1. i \in 1 .. n /\ n \in NodeLoops(t)
      <4>1. i \in 1 .. n
        BY <2>2 DEF NodeLoops
      <4>2. t = Append(Front(s), [top EXCEPT !.phase = "bubble"])
        BY <2>1 DEF PhaseBecomes, Top
      <4>3. t[n].do = "node"
        <5>1. PICK k : k = [top EXCEPT !.phase = "bubble"]
          OBVIOUS
        <5>2. k.do = "node" /\ k \in Frames
          <6>1. k = [do |-> "node", evt |-> top.evt, node |-> p, phase |-> "bubble"]
            BY <1>4, <5>1
          <6>. QED
            BY <1>5, <6>1 DEF Frames
        <5>3. PICK v : v = Front(s)
          OBVIOUS
        <5>4. v \in Seq(Frames) /\ Len(v) = n - 1
          BY <1>0, <1>1, <1>2, <5>3, FrontFacts
        <5>5. t = Append(v, k)
          BY <4>2, <5>1, <5>3
        <5>. QED
          BY ONLY <1>3, <5>2, <5>4, <5>5, PushFacts
      <4>. QED
        BY <1>3, <2>2, <4>1, <4>3 DEF NodeLoops
    <3>2. CASE i = n
      BY <1>5, <2>2, <2>6, <2>7, <3>2 DEF AreApart
    <3>3. CASE i # n
      <4>1. AreApart(t[i], t[n])
        BY <1>3, <2>2, <3>1, <3>3 DEF IsQuiet, LoopsAt
      <4>2. t[i].node \in Paths
        BY <2>2, NodeLoopFacts
      <4>3. Len(t[i].node) \in Nat
        BY <4>2, PrefixOrder
      <4>. QED
        BY <2>2, <2>6, <2>7, <4>1, <4>3 DEF AreApart
    <3>. QED
      BY <3>2, <3>3
  <2>12. LoopsAt(stack', h.publishing)
    <3>1. stack' = Append(t, f)
      BY <1>11, <2>1, <2>3
    <3>. QED
      BY ONLY <2>2, <2>6, <2>10, <2>11, <3>1, LoopBegins
  <2>. QED
    BY <1>0, <1>11, <2>12 DEF NodesInv
<1>12. CASE /\ objects' = h /\ top.phase = "bubble"
            /\ stack' = Append(PhaseBecomes("end"), PublishFrame(OfNode(p, "bubble"), Subs(h, OfNode(p, "bubble"))))
  <2>1. LoopsAt(stack', h.publishing)
    BY <1>8, <1>12
  <2>. QED
    BY <1>0, <1>12, <2>1 DEF NodesInv
<1>13. CASE /\ top.phase = "end" /\ stack' = Front(s)
            /\ objects' = MaybeClean([h EXCEPT !.publishing = @ \ {p}], p)
  <2>1. PICK t : t = Front(s)
    OBVIOUS
  <2>2. PICK k : k = [h EXCEPT !.publishing = @ \ {p}]
    OBVIOUS
  <2>3. PICK g : g = MaybeClean(k, p)
    OBVIOUS
  <2>4. LoopsAt(t, h.publishing \ {p}) /\ t \in Seq(Frames)
    <3>1. t \in Seq(Frames)
      BY <1>0, <1>1, <2>1, FrontFacts
    <3>2. s[n].phase # "capture" /\ p = s[n].node
      BY <1>3, <1>13
    <3>3. LoopsAt(t, h.publishing \ {p})
      BY ONLY <1>0, <1>2, <1>3, <2>1, <3>2, LoopEnds
    <3>. QED
      BY <3>1, <3>3
  <2>5. IsClosed(h.publishing \ {p})
    BY <2>4, LoopsAreClosed
  <2>6. p # <<>> => p \in h.publishing
    <3>1. IsPrefix(p, p)
      BY <1>5, PrefixOrder
    <3>. QED
      BY <1>5, <1>6, <1>13, <3>1 DEF IsOnItsWay
  <2>7. Rooted(g, late) /\ g.publishing = h.publishing \ {p}
    BY <1>0, <1>5, <2>2, <2>3, <2>5, <2>6, EndRoots
  <2>8. objects' = g /\ stack' = t
    BY <1>13, <2>1, <2>2, <2>3
  <2>. QED
    BY <1>0, <2>4, <2>7, <2>8 DEF NodesInv
<1>14. CASE top.phase = "child"
  BY <1>10, <1>11, <1>14 DEF NodeStep, Top, Push
<1>. QED
  BY <1>9, <1>12, <1>13, <1>14 DEF NodeStep, Top, Pop, Push

(* subscribe of an event context, and its Subscribe; cancellers; publish.  *)
LEMMA ObserveNodes ==
    ASSUME CallbacksInv, NodesInv, NEW prefix \in left.prefixes, NEW phase \in {"capture", "bubble"},
           Observe(prefix, phase)
    PROVE  NodesInv'
<1>. DEFINE h == objects
<1>0. /\ Sound(h) /\ NodesTyped(h) /\ Rooted(h, history.late) /\ LoopsAt(stack, h.publishing)
      /\ stack' = stack /\ history' = history /\ left \in Scenario
  BY WhereItIsAt DEF Observe
<1>1. prefix \in Seq(Names) /\ Len(h.kept) \in Nat
  BY <1>0 DEF Scenario, NodesTyped
<1>2. PICK madeFor \in [DOMAIN prefix -> 1 .. Len(h.kept) + 1] :
          /\ IsDescendant(h, NodeOf(prefix, madeFor))
          /\ objects' = MakeSubscribe(h, NodeOf(prefix, madeFor), phase)
  BY DEF Observe
<1>3. PICK node : node = NodeOf(prefix, madeFor)
  OBVIOUS
<1>4. PICK len : len = Len(prefix)
  OBVIOUS
<1>5. node = [i \in 1 .. len |-> [name |-> prefix[i], for |-> madeFor[i]]] /\ len \in Nat
  BY <1>1, <1>3, <1>4 DEF NodeOf
<1>6. \A i \in 1 .. len : prefix[i] \in Names /\ madeFor[i] \in Nat /\ madeFor[i] <= Len(h.kept) + 1
  <2>1. DOMAIN prefix = 1 .. len
    BY <1>1, <1>4
  <2>. QED
    BY <1>1, <1>4, <2>1
<1>7. node \in Paths /\ Len(node) = len
  <2>1. \A i \in 1 .. len : [name |-> prefix[i], for |-> madeFor[i]] \in NodeKeys
    BY <1>6 DEF NodeKeys
  <2>2. node \in Paths
    BY ONLY <1>5, <2>1, IsASeq DEF Paths
  <2>3. node \in Seq(NodeKeys) /\ DOMAIN node = 1 .. len
    BY <1>5, <2>2 DEF Paths
  <2>. QED
    BY <1>5, <2>2, <2>3
<1>8. \A k \in 1 .. Len(node) : node[k].for <= Len(h.kept) + 1
  BY <1>5, <1>6, <1>7
<1>9. IsDescendant(h, node) /\ objects' = MakeSubscribe(h, node, phase)
  BY <1>2, <1>3
<1>10. Rooted(objects', history.late)
  BY <1>0, <1>7, <1>8, <1>9, ObserveRoots
<1>11. objects'.publishing = h.publishing
  BY <1>0, <1>9 DEF MakeSubscribe, Sound
<1>. QED
  BY <1>0, <1>10, <1>11 DEF NodesInv

(* Whoever uses a Subscribe finds its node there, or is late.              *)
LEMMA SubscribeNodes ==
    ASSUME CallbacksInv, NodesInv, NEW kind \in left.kinds, NEW on \in Observed, NEW backup \in Backups(kind),
           Subscribe(kind, on, backup)
    PROVE  NodesInv'
<1>. DEFINE h == objects
<1>0. /\ Sound(h) /\ NodesTyped(h) /\ Rooted(h, history.late) /\ LoopsAt(stack, h.publishing)
      /\ stack' = stack /\ left \in Scenario /\ h.lastCompleted \in Nat
      /\ objects' = Register(h, kind, on, backup)
  BY WhereItIsAt DEF Subscribe, Sound
<1>1. kind \in {"plain", "once", "untilTrue", "backup", "recover"} /\ left.delays \subseteq Nat
  BY <1>0 DEF Scenario
<1>2. ASSUME NEW delay \in left.delays, NEW o, o = OfTick(h, Now(h) + delay)
      PROVE  Opens(h, o) /\ IsTimerObs(o) /\ ~ IsOfNode(o)
  <2>1. Now(h) + delay \in Nat /\ Now(h) + delay > h.lastCompleted
    BY <1>0, <1>1 DEF Now
  <2>2. IsTimerObs(o) /\ IsObs(o) /\ ~ IsOfNode(o)
    BY <1>0, <1>2, <2>1, OfTickFacts
  <2>. QED
    BY <1>2, <2>1, <2>2 DEF Opens
<1>3. Opens(h, on) /\ (IsOfNode(on) => \E i \in 1 .. Len(h.kept) : on = h.kept[i])
  <2>1. CASE on \in ToSet(h.kept)
    <3>1. PICK i \in 1 .. Len(h.kept) : on = h.kept[i]
      BY <1>0, <2>1 DEF NodesTyped, ToSet
    <3>2. on \in Obs /\ IsNodeObs(on)
      BY <1>0, <3>1 DEF NodesTyped
    <3>. QED
      BY <3>1, <3>2 DEF Opens, IsObs
  <2>. QED
    BY <1>2, <2>1 DEF Observed
<1>4. CanRegister(h, kind, on, backup)
  <2>1. kind \in {"backup", "recover"} => Opens(h, backup) /\ IsTimerObs(backup)
    BY <1>2 DEF Backups
  <2>2. kind \notin {"backup", "recover"} => backup = Nowhere
    BY DEF Backups
  <2>. QED
    BY <1>1, <1>3, <2>1, <2>2 DEF CanRegister, AllKinds
<1>5. history'.late = IF IsOfNode(on) /\ ~ IsAttached(h, on.path)
                      THEN history.late \cup {Len(h.regs) + 1} ELSE history.late
  BY DEF Subscribe, CallbacksInv, Fits
<1>6. Rooted(objects', history'.late)
  BY <1>0, <1>3, <1>4, <1>5, RegisterRoots
<1>7. objects'.publishing = h.publishing
  BY <1>0, RegisterNodes
<1>. QED
  BY <1>0, <1>6, <1>7 DEF NodesInv

(* A canceller may delete nodes; whatever it deletes nobody needs.         *)
LEMMA CancelNodes ==
    ASSUME CallbacksInv, NodesInv, NEW r \in DOMAIN objects.regs, Cancel(r)
    PROVE  NodesInv'
<1>. DEFINE h == objects
<1>0. /\ Sound(h) /\ NodesTyped(h) /\ Rooted(h, history.late) /\ LoopsAt(stack, h.publishing)
      /\ IsClosed(h.publishing) /\ stack' = stack /\ objects' = CancelReg(h, r)
  BY WhereItIsAt DEF Cancel
<1>1. r \in 1 .. Len(h.regs)
  BY <1>0 DEF Sound
<1>2. Rooted(objects', history.late)
  BY <1>0, <1>1, CancelRoots
<1>3. objects'.publishing = h.publishing
  BY <1>0, <1>1, CancelFacts DEF Takes
<1>4. history'.late = history.late
  BY DEF Cancel, CallbacksInv, Fits
<1>. QED
  BY <1>0, <1>2, <1>3, <1>4 DEF NodesInv

(* A loop begins at the class, for an event that none goes on for below.   *)
LEMMA PublishNodes ==
    ASSUME CallbacksInv, NodesInv, NEW evt \in left.events, Publish(evt)
    PROVE  NodesInv'
<1>. DEFINE h == objects
            s == stack
<1>0. /\ Rooted(h, history.late) /\ s \in Seq(Frames) /\ LoopsAt(s, h.publishing) /\ left \in Scenario
      /\ IsQuiet(s, h.publishing) /\ objects' = h /\ history' = history
  BY WhereItIsAt DEF Publish, Uses
<1>1. evt \in Seq(Names) /\ <<>> \in Paths
  BY <1>0 DEF Scenario, Paths
<1>2. PICK f : f = NodeFrame(evt, <<>>, "capture")
  OBVIOUS
<1>3. f = [do |-> "node", evt |-> evt, node |-> <<>>, phase |-> "capture"]
  BY <1>2 DEF NodeFrame
<1>4. f \in Frames /\ f.do = "node" /\ f.phase = "capture" /\ f.node = <<>> /\ f.evt = evt
  BY <1>1, <1>3 DEF Frames
<1>5. IsOnItsWay(f, h.publishing)
  BY <1>4 DEF IsOnItsWay
<1>6. ASSUME NEW i \in NodeLoops(s) PROVE AreApart(s[i], f)
  <2>. SUFFICES ASSUME s[i].node # <<>>, evt # <<>> PROVE s[i].node[1].name # evt[1]
    BY <1>4 DEF AreApart
  <2>1. s[i].node \in Paths /\ s[i].phase # "capture" /\ IsOnItsWay(s[i], h.publishing)
    BY <1>0, NodeLoopFacts DEF IsQuiet, LoopsAt
  <2>2. PICK node : node = s[i].node
    OBVIOUS
  <2>3. node \in h.publishing
    <3>1. IsPrefix(node, node)
      BY <2>1, <2>2, PrefixOrder
    <3>. QED
      BY <2>1, <2>2, <3>1 DEF IsOnItsWay
  <2>4. Head(node).name # Head(evt)
    BY <2>2, <2>3 DEF Publish
  <2>5. Head(node) = node[1] /\ Head(evt) = evt[1]
    BY <1>1, <2>1, <2>2 DEF Paths
  <2>. QED
    BY <2>2, <2>4, <2>5
<1>7. PICK t : t = Append(s, f)
  OBVIOUS
<1>8. LoopsAt(t, h.publishing)
  BY <1>0, <1>4, <1>5, <1>6, <1>7, LoopBegins
<1>9. stack' = t
  BY <1>2, <1>7 DEF Publish, Push
<1>. QED
  BY <1>0, <1>8, <1>9 DEF NodesInv

(* reset, pause, resume and stop of the monitor.                           *)
LEMMA DriveMonitorNodes ==
    ASSUME CallbacksInv, NodesInv, DriveMonitor
    PROVE  NodesInv'
<1>. DEFINE h == objects
            late == history.late
<1>0. Settled(h, late) /\ LoopsAt(stack, h.publishing) /\ left \in Scenario
  BY WhereItIsAt
<1>1. ASSUME NEW g, Rooted(g, late), g.publishing = h.publishing, Drive(g)
      PROVE  NodesInv'
  BY <1>0, <1>1 DEF Drive, NodesInv
<1>2. ASSUME NEW intervals \in left.intervals, NEW g, g = MonitorReset(h, intervals), Drive(g)
      PROVE  NodesInv'
  <2>1. intervals \in Seq(Nat)
    BY <1>0 DEF Scenario
  <2>. QED
    BY <1>0, <1>1, <1>2, <2>1, ResetRoots
<1>3. ASSUME MonitorState(h) = "RUNNING", NEW g, g = MonitorPause(h), Drive(g)
      PROVE  NodesInv'
  <2>1. h.monitor.cancel # 0
    BY <1>3 DEF MonitorState
  <2>. QED
    BY <1>0, <1>1, <1>3, <2>1, PauseRoots DEF Settled
<1>4. ASSUME NEW g, g = MonitorNext(h) \/ g = MonitorStop(h), Drive(g)
      PROVE  NodesInv'
  BY <1>0, <1>1, <1>4, NextRoots, StopRoots
<1>. QED
  BY <1>2, <1>3, <1>4 DEF DriveMonitor

(* A call returns, or throws.                                              *)
LEMMA ReturnNodes ==
    ASSUME CallbacksInv, NodesInv, NEW result \in {"true", "false", "throws"}, Return(result)
    PROVE  NodesInv'
<1>. DEFINE h == objects
            s == stack
<1>0. /\ Settled(h, history.late) /\ s \in Seq(Frames) /\ LoopsAt(s, h.publishing)
      /\ \A i \in 1 .. Len(s) : IsFrame(s[i], h)
  BY WhereItIsAt
<1>1. s # <<>> /\ Last(s).do = "call"
  BY DEF Return, Doing, Top
<1>2. PICK e, t : e = Last(s).entry /\ t = Front(s)
  OBVIOUS
<1>3. IsEntry(h, e)
  <2>1. Len(s) \in Nat \ {0} /\ Last(s) = s[Len(s)]
    BY <1>0, <1>1, FrontFacts
  <2>2. Len(s) \in 1 .. Len(s)
    BY <2>1
  <2>. QED
    BY <1>0, <1>1, <1>2, <2>1, <2>2 DEF IsFrame
<1>4. objects' = AfterCall(h, e, result) /\ stack' = t
  BY <1>2 DEF Return, Pop, Top
<1>5. Rooted(objects', history.late) /\ objects'.publishing = h.publishing
  BY <1>0, <1>3, <1>4, AfterCallRoots
<1>6. IsQuiet(t, h.publishing)
  BY <1>0, <1>1, <1>2, OtherEnds
<1>7. history'.late = history.late
  BY DEF Return, CallbacksInv, Fits
<1>. QED
  BY <1>4, <1>5, <1>6, <1>7 DEF NodesInv, IsQuiet

(* The invariant holds in every state, for all scenarios: whatever is      *)
(* subscribed and cancelled while events are published.                    *)
THEOREM NodesInvHolds == Spec => []NodesInv
<1>1. CallbacksInv /\ NodesInv /\ [Next]_vars => NodesInv'
  <2>. SUFFICES ASSUME CallbacksInv, NodesInv, [Next]_vars PROVE NodesInv'
    OBVIOUS
  <2>1. CASE PublishStep
    BY <2>1, PublishStepNodes
  <2>2. CASE NodeStep
    BY <2>2, NodeStepNodes
  <2>3. CASE TickStep
    BY <2>3, TickStepNodes
  <2>4. CASE RunTick
    BY <2>4, RunTickNodes
  <2>5. CASE \E prefix \in left.prefixes, phase \in {"capture", "bubble"} : Observe(prefix, phase)
    BY <2>5, ObserveNodes
  <2>6. CASE \E kind \in left.kinds, on \in Observed :
                \E backup \in Backups(kind) : Subscribe(kind, on, backup)
    BY <2>6, SubscribeNodes
  <2>7. CASE \E r \in DOMAIN objects.regs : Cancel(r)
    BY <2>7, CancelNodes
  <2>8. CASE \E evt \in left.events : Publish(evt)
    BY <2>8, PublishNodes
  <2>9. CASE DriveMonitor
    BY <2>9, DriveMonitorNodes
  <2>10. CASE \E result \in {"true", "false", "throws"} : Return(result)
    BY <2>10, ReturnNodes
  <2>11. CASE UNCHANGED vars
    BY <2>11 DEF vars, NodesInv
  <2>. QED
    BY <2>1, <2>2, <2>3, <2>4, <2>5, <2>6, <2>7, <2>8, <2>9, <2>10, <2>11 DEF Next
<1>. QED
  BY <1>1, NoNodesYet, CallbacksInvHolds, PTL DEF Spec

(* An event comes to all who have subscribed, but for those who used a     *)
(* Subscribe whose node had been deleted; to these none comes.  And no     *)
(* node where somebody subscribed is left without, once nothing is being   *)
(* published (_maybeClean, _cleanChild).                                   *)
THEOREM NodesAreNeeded == Spec => []NodesMatchSubscriptions
<1>1. CallbacksInv /\ NodesInv => NodesMatchSubscriptions
  <2>. DEFINE h == objects
              used == {o \in DOMAIN h.subs : IsOfNode(o) /\ h.subs[o] # <<>>}
  <2>. SUFFICES ASSUME CallbacksInv, NodesInv PROVE NodesMatchSubscriptions
    OBVIOUS
  <2>0. /\ Sound(h) /\ NodesTyped(h) /\ Rooted(h, history.late) /\ LoopsAt(stack, h.publishing)
    BY WhereItIsAt
  <2>1. ASSUME NEW o \in used, NEW entry \in ToSet(h.subs[o])
        PROVE  entry.reg \in history.late <=> ~ IsAttached(h, o.path)
    <3>1. h.subs[o] \in Seq(Entries) /\ Subs(h, o) = h.subs[o]
      BY <2>0, SubsFacts
    <3>2. HasSub(h, o, entry)
      BY <3>1 DEF ToSet, HasSub
    <3>. QED
      BY <2>0, <3>2 DEF Rooted
  <2>2. ASSUME stack = <<>> PROVE h.publishing = {}
    <3>1. NodeLoops(stack) = {}
      BY <2>2 DEF NodeLoops
    <3>. QED
      BY <2>0, <3>1 DEF LoopsAt
  <2>3. ASSUME stack = <<>>, NEW node \in h.nodes, NEW r \in DOMAIN h.regs,
               IsOfNode(h.regs[r].on), IsPrefix(node, h.regs[r].on.path)
        PROVE  \E o \in used : IsUnder(h, node, o.path)
    <3>1. r \in 1 .. Len(h.regs)
      BY <2>0 DEF Sound
    <3>2. WasUsed(h, node)
      BY <2>3, <3>1 DEF WasUsed
    <3>3. IsNeeded(h, node)
      BY <2>0, <2>2, <2>3, <3>2 DEF Rooted
    <3>4. PICK o, e : IsOfNode(o) /\ HasSub(h, o, e) /\ IsUnder(h, node, o.path)
      BY <3>3 DEF IsNeeded, HasAny
    <3>5. o \in DOMAIN h.subs /\ h.subs[o] # <<>>
      BY <2>0, <3>4, HasSubFacts
    <3>. QED
      BY <3>4, <3>5
  <2>. QED
    BY <2>1, <2>2, <2>3 DEF NodesMatchSubscriptions
<1>. QED
  BY <1>1, CallbacksInvHolds, NodesInvHolds, PTL
=============================================================================
