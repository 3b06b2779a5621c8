--------------------------- MODULE Transcript_proofs ---------------------------
(***************************************************************************)
(* Proofs about the operators of Transcript, for any transcript: the       *)
(* recursive functions have the values their equations say, le() is        *)
(* reachability over parents, and add() keeps all that is cached.          *)
(***************************************************************************)
EXTENDS SessionProperties, FiniteSetTheorems, WellFoundedInduction, TLAPS

-----------------------------------------------------------------------------
(* The order of a transcript's log.                                        *)
IsLog(ts) ==
    /\ ts.log \in Seq(MIds(ts))
    /\ \A i, j \in 1 .. Len(ts.log) : ts.log[i] = ts.log[j] => i = j
    /\ \A m \in MIds(ts) : \E i \in 1 .. Len(ts.log) : ts.log[i] = m
Before(ts, n, m) == MessageIndex(ts, n) < MessageIndex(ts, m)
IsGrounded(ts) ==
    /\ IsLog(ts)
    /\ \A m \in MIds(ts) : /\ Parents(ts, m) \subseteq MIds(ts)
                           /\ \A p \in Parents(ts, m) : Before(ts, p, m)

(* A set of numbers has a least one.                                       *)
LEMMA Least ==
    ASSUME NEW T, T \subseteq Nat, T # {}
    PROVE  \E m \in T : \A n \in T : m <= n
  <1> DEFINE R == OpToRel(<, Nat)
  <1>1. IsWellFoundedOn(R, Nat)
    BY NatLessThanWellFounded
  <1>2. \A x, y \in Nat : x < y => <<x, y>> \in R
    BY DEF OpToRel
  <1> HIDE DEF R
  <1>3. PICK m \in T : \A n \in T : ~ (<<n, m>> \in R)
    BY <1>1, WFMin
  <1>4. ASSUME NEW n \in T PROVE m <= n
    <2>1. m \in Nat /\ n \in Nat /\ ~ (n < m)
      BY <1>2, <1>3
    <2> QED
      BY <2>1
  <1> QED
    BY <1>4

(* A message's place in the log.                                           *)
LEMMA IndexFacts ==
    ASSUME NEW ts, IsLog(ts)
    PROVE  /\ Len(ts.log) \in Nat /\ DOMAIN ts.log = 1 .. Len(ts.log)
           /\ \A m \in MIds(ts) : /\ MessageIndex(ts, m) \in 1 .. Len(ts.log)
                                  /\ ts.log[MessageIndex(ts, m)] = m
           /\ \A i \in 1 .. Len(ts.log) : ts.log[i] \in MIds(ts) /\ MessageIndex(ts, ts.log[i]) = i
  <1>1. Len(ts.log) \in Nat /\ DOMAIN ts.log = 1 .. Len(ts.log)
    BY DEF IsLog
  <1>2. ASSUME NEW m \in MIds(ts)
        PROVE  MessageIndex(ts, m) \in 1 .. Len(ts.log) /\ ts.log[MessageIndex(ts, m)] = m
    <2>1. \E i \in DOMAIN ts.log : ts.log[i] = m
      BY <1>1 DEF IsLog
    <2> QED
      BY <1>1, <2>1 DEF MessageIndex
  <1>3. ASSUME NEW i \in 1 .. Len(ts.log)
        PROVE  ts.log[i] \in MIds(ts) /\ MessageIndex(ts, ts.log[i]) = i
    <2>1. ts.log[i] \in MIds(ts)
      BY DEF IsLog
    <2>2. MessageIndex(ts, ts.log[i]) \in 1 .. Len(ts.log)
          /\ ts.log[MessageIndex(ts, ts.log[i])] = ts.log[i]
      BY <1>2, <2>1
    <2> QED
      BY <2>1, <2>2 DEF IsLog
  <1> QED
    BY <1>1, <1>2, <1>3

(* The order of the log is total and strict.                               *)
LEMMA BeforeFacts ==
    ASSUME NEW ts, IsLog(ts), NEW m \in MIds(ts), NEW n \in MIds(ts), NEW o \in MIds(ts)
    PROVE  /\ ~ Before(ts, m, m)
           /\ Before(ts, m, n) \/ Before(ts, n, m) \/ m = n
           /\ ~ (Before(ts, m, n) /\ Before(ts, n, m))
           /\ Before(ts, m, n) /\ Before(ts, n, o) => Before(ts, m, o)
           /\ NotAfter(ts, m, n) <=> m = n \/ Before(ts, m, n)
  <1>1. /\ MessageIndex(ts, m) \in Nat /\ MessageIndex(ts, n) \in Nat /\ MessageIndex(ts, o) \in Nat
    BY IndexFacts
  <1>2. MessageIndex(ts, m) = MessageIndex(ts, n) => m = n
    BY IndexFacts
  <1> QED
    BY <1>1, <1>2 DEF Before, NotAfter

(* Induction from the first message to the last, over a set G.             *)
LEMMA LogInduction ==
    ASSUME NEW ts, IsLog(ts), NEW G,
           \A m \in MIds(ts) : (\A n \in MIds(ts) : Before(ts, n, m) => n \in G) => m \in G
    PROVE  MIds(ts) \subseteq G
  <1> DEFINE T == {i \in 1 .. Len(ts.log) : ts.log[i] \notin G}
  <1>1. SUFFICES ASSUME T # {} PROVE FALSE
    <2>1. \A i \in 1 .. Len(ts.log) : ts.log[i] \in G
      BY <1>1
    <2>2. ASSUME NEW m \in MIds(ts) PROVE m \in G
      BY <2>1, IndexFacts
    <2> QED
      BY <2>2
  <1>2. T \subseteq Nat
    OBVIOUS
  <1>3. PICK i \in T : \A j \in T : i <= j
    <2> HIDE DEF T
    <2> QED
      BY <1>1, <1>2, Least
  <1>4. ts.log[i] \in MIds(ts) /\ MessageIndex(ts, ts.log[i]) = i
    BY IndexFacts
  <1>5. ASSUME NEW n \in MIds(ts), Before(ts, n, ts.log[i]) PROVE n \in G
    <2>1. /\ MessageIndex(ts, n) \in 1 .. Len(ts.log) /\ ts.log[MessageIndex(ts, n)] = n
          /\ MessageIndex(ts, n) < i
      BY <1>4, <1>5, IndexFacts DEF Before
    <2>2. MessageIndex(ts, n) \notin T
      BY <1>3, <2>1
    <2> QED
      BY <2>1, <2>2
  <1>6. ts.log[i] \in G
    BY <1>4, <1>5
  <1> QED
    BY <1>6

(* Induction from the last message to the first.                           *)
LEMMA LogInductionDown ==
    ASSUME NEW ts, IsLog(ts), NEW G,
           \A m \in MIds(ts) : (\A n \in MIds(ts) : Before(ts, m, n) => n \in G) => m \in G
    PROVE  MIds(ts) \subseteq G
  <1> DEFINE len == Len(ts.log)
             T == {k \in 0 .. len : \E i \in 1 .. len : k = len - i /\ ts.log[i] \notin G}
  <1>0. len \in Nat
    BY IndexFacts
  <1>1. SUFFICES ASSUME T # {} PROVE FALSE
    <2>1. \A i \in 1 .. len : ts.log[i] \in G
      <3> SUFFICES ASSUME NEW i \in 1 .. len, ts.log[i] \notin G PROVE FALSE
        OBVIOUS
      <3>1. len - i \in 0 .. len
        BY <1>0
      <3> QED
        BY <1>1, <3>1
    <2>2. ASSUME NEW m \in MIds(ts) PROVE m \in G
      BY <2>1, IndexFacts
    <2> QED
      BY <2>2
  <1>2. T \subseteq Nat
    OBVIOUS
  <1>3. PICK k \in T : \A j \in T : k <= j
    <2> HIDE DEF T
    <2> QED
      BY <1>1, <1>2, Least
  <1>4. PICK i \in 1 .. len : k = len - i /\ ts.log[i] \notin G
    OBVIOUS
  <1>5. ts.log[i] \in MIds(ts) /\ MessageIndex(ts, ts.log[i]) = i
    BY IndexFacts
  <1>6. ASSUME NEW n \in MIds(ts), Before(ts, ts.log[i], n) PROVE n \in G
    <2>1. PICK j \in 1 .. len : ts.log[j] = n /\ i < j
      BY <1>5, <1>6, IndexFacts DEF Before
    <2>2. len - j \in 0 .. len /\ len - j < k
      BY <1>0, <1>4, <2>1
    <2>3. len - j \notin T
      <3> SUFFICES ASSUME len - j \in T PROVE FALSE
        OBVIOUS
      <3>1. k <= len - j
        BY <1>3
      <3>2. len - j \in Nat /\ k \in Nat
        BY <1>0, <2>2
      <3> QED
        BY <2>2, <3>1, <3>2
    <2> QED
      BY <2>1, <2>2, <2>3
  <1>7. ts.log[i] \in G
    BY <1>5, <1>6
  <1> QED
    BY <1>4, <1>7

-----------------------------------------------------------------------------
(* The ancestors of a message, which are defined by recursion over its     *)
(* parents.                                                                *)
WithParents(ts, f, m) == Parents(ts, m) \cup UNION {f[p] : p \in Parents(ts, m)}

(* It looks only at the values of the parents.                             *)
LEMMA WithParentsSame ==
    ASSUME NEW ts, NEW m, NEW f, NEW g, \A p \in Parents(ts, m) : f[p] = g[p]
    PROVE  WithParents(ts, f, m) = WithParents(ts, g, m)
  <1>1. {f[p] : p \in Parents(ts, m)} = {g[p] : p \in Parents(ts, m)}
    OBVIOUS
  <1> QED
    BY <1>1 DEF WithParents

(* There is such a function: it is built up along the log.                 *)
LEMMA AncestorsExist ==
    ASSUME NEW ts, IsGrounded(ts)
    PROVE  \E f : f = [m \in MIds(ts) |-> WithParents(ts, f, m)]
  <1> DEFINE len == Len(ts.log)
             Upto(k) == {m \in MIds(ts) : MessageIndex(ts, m) <= k}
             Exists(k) == \E f : f = [m \in Upto(k) |-> WithParents(ts, f, m)]
             T == {k \in 0 .. len : ~ Exists(k)}
  <1>0. len \in Nat /\ IsLog(ts)
    BY IndexFacts DEF IsGrounded
  <1>1. Exists(0)
    <2>1. PICK f : f = [m \in {} |-> {}]
      OBVIOUS
    <2>2. \A m \in MIds(ts) : ~ (MessageIndex(ts, m) <= 0)
      BY <1>0, IndexFacts
    <2>3. Upto(0) = {}
      BY <2>2
    <2>4. f = [m \in Upto(0) |-> WithParents(ts, f, m)]
      BY <2>1, <2>3
    <2> QED
      BY <2>4
  <1>2. ASSUME NEW k \in 1 .. len, Exists(k - 1) PROVE Exists(k)
    <2>1. PICK f : f = [m \in Upto(k - 1) |-> WithParents(ts, f, m)]
      BY <1>2
    <2>2. PICK g : g = [m \in Upto(k) |-> WithParents(ts, f, m)]
      OBVIOUS
    <2>3. ASSUME NEW m \in Upto(k) PROVE WithParents(ts, f, m) = WithParents(ts, g, m)
      <3>1. ASSUME NEW p \in Parents(ts, m) PROVE f[p] = g[p]
        <4>1. p \in MIds(ts) /\ MessageIndex(ts, p) < MessageIndex(ts, m)
          BY DEF IsGrounded, Before
        <4>2. MessageIndex(ts, p) \in Nat /\ MessageIndex(ts, m) \in Nat
          BY <1>0, <4>1, IndexFacts
        <4>3. p \in Upto(k - 1) /\ p \in Upto(k)
          BY <1>0, <4>1, <4>2
        <4> QED
          BY <2>1, <2>2, <4>3
      <3> QED
        BY <3>1, WithParentsSame
    <2>4. g = [m \in Upto(k) |-> WithParents(ts, g, m)]
      BY <2>2, <2>3
    <2> QED
      BY <2>4
  <1>3. T = {}
    <2> SUFFICES ASSUME T # {} PROVE FALSE
      OBVIOUS
    <2>1. T \subseteq Nat
      OBVIOUS
    <2> HIDE DEF Exists
    <2>2. PICK k \in T : \A j \in T : k <= j
      <3> HIDE DEF T
      <3> QED
        BY <2>1, Least
    <2>3. k \in 1 .. len
      BY <1>0, <1>1
    <2>4. k - 1 \notin T
      <3> SUFFICES ASSUME k - 1 \in T PROVE FALSE
        OBVIOUS
      <3>1. k <= k - 1
        BY <2>2
      <3> QED
        BY <2>3, <3>1
    <2>5. Exists(k - 1)
      BY <1>0, <2>3, <2>4
    <2> QED
      BY <1>2, <2>3, <2>5
  <1>4. Exists(len)
    <2> HIDE DEF Exists
    <2>1. len \in 0 .. len
      BY <1>0
    <2> QED
      BY <1>3, <2>1
  <1>5. Upto(len) = MIds(ts)
    BY <1>0, IndexFacts
  <1> QED
    BY <1>4, <1>5

(* The ancestors are the parents and their ancestors.                      *)
LEMMA AncestorsFacts ==
    ASSUME NEW ts, IsGrounded(ts), NEW m \in MIds(ts)
    PROVE  /\ Ancestors(ts, m) = Parents(ts, m) \cup UNION {Ancestors(ts, p) : p \in Parents(ts, m)}
           /\ \A n : n \in Ancestors(ts, m) <=>
                        \/ n \in Parents(ts, m)
                        \/ \E p \in Parents(ts, m) : n \in Ancestors(ts, p)
  <1> DEFINE f == CHOOSE f : f = [n \in MIds(ts) |-> WithParents(ts, f, n)]
  <1>1. f = [n \in MIds(ts) |-> WithParents(ts, f, n)]
    BY AncestorsExist
  <1>2. \A n : Ancestors(ts, n) = f[n]
    BY DEF Ancestors, WithParents
  <1> HIDE DEF f
  <1>3. Ancestors(ts, m) = WithParents(ts, f, m)
    BY <1>1, <1>2
  <1>4. {f[p] : p \in Parents(ts, m)} = {Ancestors(ts, p) : p \in Parents(ts, m)}
    BY <1>2
  <1>5. Ancestors(ts, m) = Parents(ts, m) \cup UNION {Ancestors(ts, p) : p \in Parents(ts, m)}
    BY <1>3, <1>4 DEF WithParents
  <1> QED
    BY <1>5

(* Ancestors come before.                                                  *)
LEMMA AncestorsBefore ==
    ASSUME NEW ts, IsGrounded(ts), NEW m \in MIds(ts), NEW n \in Ancestors(ts, m)
    PROVE  n \in MIds(ts) /\ Before(ts, n, m)
  <1> DEFINE G == {x \in MIds(ts) : \A y \in Ancestors(ts, x) : y \in MIds(ts) /\ Before(ts, y, x)}
  <1>0. IsLog(ts)
    BY DEF IsGrounded
  <1>1. ASSUME NEW x \in MIds(ts), \A y \in MIds(ts) : Before(ts, y, x) => y \in G
        PROVE  x \in G
    <2>1. ASSUME NEW y \in Ancestors(ts, x) PROVE y \in MIds(ts) /\ Before(ts, y, x)
      <3>1. CASE y \in Parents(ts, x)
        BY <3>1 DEF IsGrounded
      <3>2. CASE \E p \in Parents(ts, x) : y \in Ancestors(ts, p)
        <4>1. PICK p \in Parents(ts, x) : y \in Ancestors(ts, p)
          BY <3>2
        <4>2. p \in MIds(ts) /\ Before(ts, p, x)
          BY DEF IsGrounded
        <4>3. y \in MIds(ts) /\ Before(ts, y, p)
          BY <1>1, <4>1, <4>2
        <4> QED
          BY <1>0, <4>2, <4>3, BeforeFacts
      <3> QED
        BY <3>1, <3>2, AncestorsFacts
    <2> QED
      BY <2>1
  <1>2. MIds(ts) \subseteq G
    <2> HIDE DEF G
    <2> QED
      BY <1>0, <1>1, LogInduction
  <1> QED
    BY <1>2

(* The ancestors of an ancestor are ancestors.                             *)
LEMMA AncestorsTransitive ==
    ASSUME NEW ts, IsGrounded(ts), NEW m \in MIds(ts), NEW n \in Ancestors(ts, m)
    PROVE  Ancestors(ts, n) \subseteq Ancestors(ts, m)
  <1> DEFINE G == {x \in MIds(ts) : \A y \in Ancestors(ts, x) : Ancestors(ts, y) \subseteq Ancestors(ts, x)}
  <1>0. IsLog(ts)
    BY DEF IsGrounded
  <1>1. ASSUME NEW x \in MIds(ts), \A y \in MIds(ts) : Before(ts, y, x) => y \in G
        PROVE  x \in G
    <2>1. ASSUME NEW y \in Ancestors(ts, x), NEW z \in Ancestors(ts, y) PROVE z \in Ancestors(ts, x)
      <3>1. CASE y \in Parents(ts, x)
        BY <2>1, <3>1, AncestorsFacts
      <3>2. CASE \E p \in Parents(ts, x) : y \in Ancestors(ts, p)
        <4>1. PICK p \in Parents(ts, x) : y \in Ancestors(ts, p)
          BY <3>2
        <4>2. p \in MIds(ts) /\ Before(ts, p, x)
          BY DEF IsGrounded
        <4>3. z \in Ancestors(ts, p)
          BY <1>1, <2>1, <4>1, <4>2
        <4> QED
          BY <4>1, <4>3, AncestorsFacts
      <3> QED
        BY <3>1, <3>2, AncestorsFacts
    <2> QED
      BY <2>1
  <1>2. MIds(ts) \subseteq G
    <2> HIDE DEF G
    <2> QED
      BY <1>0, <1>1, LogInduction
  <1> QED
    BY <1>2

(* An ancestor has a child on the way.                                     *)
LEMMA AncestorHasChild ==
    ASSUME NEW ts, IsGrounded(ts), NEW m \in MIds(ts), NEW n \in Ancestors(ts, m)
    PROVE  \E r \in MIds(ts) : n \in Parents(ts, r) /\ (r = m \/ r \in Ancestors(ts, m))
  <1> DEFINE Child(x, y) ==
                \E r \in MIds(ts) : y \in Parents(ts, r) /\ (r = x \/ r \in Ancestors(ts, x))
             G == {x \in MIds(ts) : \A y \in Ancestors(ts, x) : Child(x, y)}
  <1>0. IsLog(ts)
    BY DEF IsGrounded
  <1>1. ASSUME NEW x \in MIds(ts), \A y \in MIds(ts) : Before(ts, y, x) => y \in G
        PROVE  x \in G
    <2>1. ASSUME NEW y \in Ancestors(ts, x) PROVE Child(x, y)
      <3>1. CASE y \in Parents(ts, x)
        BY <3>1
      <3>2. CASE \E p \in Parents(ts, x) : y \in Ancestors(ts, p)
        <4>1. PICK p \in Parents(ts, x) : y \in Ancestors(ts, p)
          BY <3>2
        <4>2. p \in MIds(ts) /\ Before(ts, p, x)
          BY DEF IsGrounded
        <4>3. Child(p, y)
          <5> HIDE DEF Child
          <5> QED
            BY <1>1, <4>1, <4>2
        <4>4. p \in Ancestors(ts, x) /\ Ancestors(ts, p) \subseteq Ancestors(ts, x)
          BY <4>1, AncestorsFacts
        <4> QED
          BY <4>3, <4>4
      <3> QED
        <4> HIDE DEF Child
        <4> QED
          BY <3>1, <3>2, AncestorsFacts
    <2> QED
      BY <2>1
  <1>2. MIds(ts) \subseteq G
    <2> HIDE DEF G
    <2> QED
      BY <1>0, <1>1, LogInduction
  <1> QED
    BY <1>2

(* In two transcripts a message has the same ancestors, if both know its   *)
(* ancestors by the same parents.                                          *)
LEMMA AncestorsSame ==
    ASSUME NEW ts, IsGrounded(ts), NEW us, IsGrounded(us), NEW D, D \subseteq MIds(ts),
           D \subseteq MIds(us),
           \A m \in D : Parents(ts, m) = Parents(us, m) /\ Parents(ts, m) \subseteq D,
           NEW m \in D
    PROVE  Ancestors(ts, m) = Ancestors(us, m)
  <1> DEFINE G == {x \in MIds(ts) : x \in D => Ancestors(ts, x) = Ancestors(us, x)}
  <1>0. IsLog(ts)
    BY DEF IsGrounded
  <1>1. ASSUME NEW x \in MIds(ts), \A y \in MIds(ts) : Before(ts, y, x) => y \in G
        PROVE  x \in G
    <2>1. ASSUME x \in D PROVE Ancestors(ts, x) = Ancestors(us, x)
      <3>1. ASSUME NEW p \in Parents(ts, x) PROVE Ancestors(ts, p) = Ancestors(us, p)
        BY <1>1, <2>1 DEF IsGrounded
      <3>2. {Ancestors(ts, p) : p \in Parents(ts, x)} = {Ancestors(us, p) : p \in Parents(us, x)}
        BY <2>1, <3>1
      <3>3. Ancestors(ts, x) = Parents(ts, x) \cup UNION {Ancestors(ts, p) : p \in Parents(ts, x)}
        BY AncestorsFacts
      <3>4. Ancestors(us, x) = Parents(us, x) \cup UNION {Ancestors(us, p) : p \in Parents(us, x)}
        BY <2>1, AncestorsFacts
      <3> QED
        BY <2>1, <3>2, <3>3, <3>4
    <2> QED
      BY <2>1
  <1>2. MIds(ts) \subseteq G
    <2> HIDE DEF G
    <2> QED
      BY <1>0, <1>1, LogInduction
  <1> QED
    BY <1>2

-----------------------------------------------------------------------------
(* A transcript of a session with the members M: its messages, and what    *)
(* their order is like.  One author's messages are a chain, and the        *)
(* parents of a message are not each other's ancestors.                    *)
HasMessages(ts, M) ==
    /\ IsGrounded(ts)
    /\ \A m \in MIds(ts) :
          /\ m # NoMsg /\ ts.messages[m].mId = m /\ Author(ts, m) = m[1] /\ Author(ts, m) \in M
          /\ Readers(ts, m) = M \ {Author(ts, m)}
IsOrdered(ts) ==
    /\ \A n, m \in MIds(ts) :
          Author(ts, n) = Author(ts, m) /\ Before(ts, n, m) => n \in Ancestors(ts, m)
    /\ \A m \in MIds(ts) : \A p, q \in Parents(ts, m) : p \notin Ancestors(ts, q)

(* The messages no later than some of mIds; the latest of some.            *)
Past(ts, mIds) == {m \in MIds(ts) : \E p \in mIds : m = p \/ m \in Ancestors(ts, p)}
IsLatest(ts, x, S) ==
    IF S = {} THEN x = NoMsg ELSE x \in S /\ \A n \in S : NotAfter(ts, n, x)

(* What is cached: contexts, who has not acked, and the maximal messages.  *)
HasContexts(ts) ==
    /\ DOMAIN ts.context = MIds(ts)
    /\ \A m \in MIds(ts) : \A u \in Readers(ts, m) :
          IsLatest(ts, ts.context[m][u], Ancestors(ts, m) \cap ByAuthor(ts, u))
Answered(ts, m, u) == \E n \in ByAuthor(ts, u) : m \in Ancestors(ts, n)
HasUnacked(ts) ==
    /\ DOMAIN ts.unackby = MIds(ts)
    /\ \A m \in MIds(ts) : ts.unackby[m] = {u \in Readers(ts, m) : ~ Answered(ts, m, u)}
    /\ ts.unacked = {m \in MIds(ts) : ts.unackby[m] # {}}
HasMaximal(ts) == ts.maxMessages = {m \in MIds(ts) : \A n \in MIds(ts) : m \notin Parents(ts, n)}
IsTranscript(ts) ==
    ts = [messages |-> ts.messages, log |-> ts.log, maxMessages |-> ts.maxMessages,
          context |-> ts.context, unackby |-> ts.unackby, unacked |-> ts.unacked]

WellFormed(ts, M) ==
    /\ IsTranscript(ts)
    /\ HasMessages(ts, M) /\ IsOrdered(ts) /\ HasContexts(ts) /\ HasUnacked(ts) /\ HasMaximal(ts)

(* A message that may come next: its parents are known, and all that its   *)
(* author has written is before it.                                        *)
Fits(ts, M, msg) ==
    /\ msg.mId \notin MIds(ts) /\ msg.mId # NoMsg /\ msg.author = msg.mId[1] /\ msg.author \in M
    /\ msg.readers = M \ {msg.author}
    /\ msg.parents \subseteq MIds(ts)
    /\ \A p, q \in msg.parents : p \notin Ancestors(ts, q)
    /\ ByAuthor(ts, msg.author) \subseteq Past(ts, msg.parents)

-----------------------------------------------------------------------------
(* le, where the later author reads everybody else's messages.             *)
LEMMA LeUnfolds ==
    ASSUME NEW ts, NEW M, HasMessages(ts, M), NEW n \in MIds(ts), NEW m \in MIds(ts)
    PROVE  LET u == Author(ts, n)
           IN  Le(ts, n, m) <=>
                  IF u = Author(ts, m) THEN NotAfter(ts, n, m)
                  ELSE ts.context[m][u] # NoMsg /\ NotAfter(ts, n, ts.context[m][u])
  <1> DEFINE u == Author(ts, n)
             E(f, x) == IF u = Author(ts, x) THEN NotAfter(ts, n, x)
                        ELSE IF u \in Readers(ts, x)
                        THEN ts.context[x][u] # NoMsg /\ NotAfter(ts, n, ts.context[x][u])
                        ELSE NotAfter(ts, n, x) /\ \E p \in Parents(ts, x) : f[p]
             B(x) == IF u = Author(ts, x) THEN NotAfter(ts, n, x)
                     ELSE ts.context[x][u] # NoMsg /\ NotAfter(ts, n, ts.context[x][u])
             le == CHOOSE le : le = [x \in MIds(ts) |-> E(le, x)]
  <1>1. \A x \in MIds(ts) : \A f : E(f, x) = B(x)
    <2> SUFFICES ASSUME NEW x \in MIds(ts), NEW f PROVE E(f, x) = B(x)
      OBVIOUS
    <2>1. u = Author(ts, x) \/ u \in Readers(ts, x)
      BY DEF HasMessages
    <2> QED
      BY <2>1
  <1>2. Le(ts, n, m) = le[m]
    BY DEF Le
  <1> HIDE DEF E
  <1>3. PICK f : f = [x \in MIds(ts) |-> B(x)]
    OBVIOUS
  <1>4. f = [x \in MIds(ts) |-> E(f, x)]
    BY <1>1, <1>3
  <1>5. le = [x \in MIds(ts) |-> E(le, x)]
    BY <1>4
  <1> HIDE DEF le
  <1>6. le[m] = B(m)
    BY <1>1, <1>5
  <1> QED
    BY <1>2, <1>6

(* le is reachability over parents.                                        *)
LEMMA LeIsReachability ==
    ASSUME NEW ts, NEW M, HasMessages(ts, M), IsOrdered(ts), HasContexts(ts),
           NEW n \in MIds(ts), NEW m \in MIds(ts)
    PROVE  Le(ts, n, m) <=> n = m \/ n \in Ancestors(ts, m)
  <1> DEFINE u == Author(ts, n)
             x == ts.context[m][u]
             S == Ancestors(ts, m) \cap ByAuthor(ts, u)
  <1>0. IsGrounded(ts) /\ IsLog(ts)
    BY DEF HasMessages, IsGrounded
  <1>1. CASE u = Author(ts, m)
    <2>1. Le(ts, n, m) <=> NotAfter(ts, n, m)
      BY <1>1, LeUnfolds
    <2>2. n \in Ancestors(ts, m) <=> Before(ts, n, m)
      BY <1>0, <1>1, AncestorsBefore DEF IsOrdered
    <2> QED
      BY <1>0, <2>1, <2>2, BeforeFacts
  <1>2. CASE u # Author(ts, m)
    <2>1. Le(ts, n, m) <=> x # NoMsg /\ NotAfter(ts, n, x)
      BY <1>2, LeUnfolds
    <2>2. IsLatest(ts, x, S)
      <3>1. u \in Readers(ts, m)
        BY <1>2 DEF HasMessages
      <3> QED
        BY <3>1 DEF HasContexts
    <2>3. n \in ByAuthor(ts, u) /\ n # m
      BY <1>2 DEF ByAuthor
    <2>4. ASSUME n \in Ancestors(ts, m) PROVE x # NoMsg /\ NotAfter(ts, n, x)
      <3>1. x \in S /\ NotAfter(ts, n, x)
        BY <2>2, <2>3, <2>4 DEF IsLatest
      <3>2. x \in MIds(ts)
        BY <3>1 DEF ByAuthor
      <3> QED
        BY <3>1, <3>2 DEF HasMessages
    <2>5. ASSUME x # NoMsg, NotAfter(ts, n, x) PROVE n \in Ancestors(ts, m)
      <3>1. x \in Ancestors(ts, m) /\ x \in MIds(ts) /\ Author(ts, x) = u
        BY <2>2, <2>5 DEF IsLatest, ByAuthor
      <3>2. n = x \/ Before(ts, n, x)
        BY <1>0, <2>5, <3>1, BeforeFacts
      <3>3. n = x \/ n \in Ancestors(ts, x)
        BY <3>1, <3>2 DEF IsOrdered
      <3> QED
        BY <1>0, <3>1, <3>3, AncestorsTransitive
    <2> QED
      BY <2>1, <2>3, <2>4, <2>5
  <1> QED
    BY <1>1, <1>2

(* The parents of a message that fits have different authors.              *)
LEMMA ParentsDiffer ==
    ASSUME NEW ts, NEW M, HasMessages(ts, M), IsOrdered(ts), NEW P, P \subseteq MIds(ts),
           \A p, q \in P : p \notin Ancestors(ts, q),
           NEW p \in P, NEW q \in P, Author(ts, p) = Author(ts, q)
    PROVE  p = q
  <1>1. IsGrounded(ts) /\ IsLog(ts)
    BY DEF HasMessages, IsGrounded
  <1>2. Before(ts, p, q) \/ Before(ts, q, p) \/ p = q
    BY <1>1, BeforeFacts
  <1> QED
    BY <1>2 DEF IsOrdered

(* Such a message is not refused.                                          *)
LEMMA FittingIsAdded ==
    ASSUME NEW ts, NEW M, WellFormed(ts, M), NEW msg, Fits(ts, M, msg)
    PROVE  CanAdd(ts, msg)
  <1> DEFINE own == ByAuthor(ts, msg.author)
             lastOwn == {m \in own : \A n \in own : NotAfter(ts, n, m)}
  <1>0. HasMessages(ts, M) /\ IsOrdered(ts) /\ HasContexts(ts)
    BY DEF WellFormed
  <1>1. \A n, m \in MIds(ts) : Le(ts, n, m) <=> n = m \/ n \in Ancestors(ts, m)
    BY <1>0, LeIsReachability
  <1>2. msg.mId \notin msg.parents \cup MIds(ts) /\ msg.author \notin msg.readers
        /\ msg.parents \subseteq MIds(ts)
    BY DEF Fits
  <1>3. \A p \in msg.parents : msg.author \in MembersOf(ts, p)
    BY <1>0 DEF Fits, HasMessages, MembersOf
  <1>4. \A p, q \in msg.parents : p # q => Author(ts, p) # Author(ts, q)
    BY <1>0, <1>2, ParentsDiffer DEF Fits
  <1>5. \A m \in lastOwn : \E p \in msg.parents : Le(ts, m, p)
    <2> SUFFICES ASSUME NEW m \in own PROVE \E p \in msg.parents : Le(ts, m, p)
      OBVIOUS
    <2>1. m \in MIds(ts) /\ \E p \in msg.parents : m = p \/ m \in Ancestors(ts, p)
      BY DEF Fits, Past
    <2> QED
      BY <1>1, <1>2, <2>1
  <1>6. IsAntichain(ts, msg.parents)
    BY <1>1, <1>2 DEF IsAntichain, Fits
  <1> QED
    BY <1>2, <1>3, <1>4, <1>5, <1>6 DEF CanAdd

-----------------------------------------------------------------------------
(* The latest of some messages.                                            *)
LEMMA LatestExists ==
    ASSUME NEW ts, IsLog(ts), NEW K, K \subseteq MIds(ts), K # {}
    PROVE  \E k \in K : \A n \in K : NotAfter(ts, n, k)
  <1> DEFINE len == Len(ts.log)
             T == {len - MessageIndex(ts, n) : n \in K}
  <1>1. len \in Nat /\ \A n \in K : MessageIndex(ts, n) \in 1 .. len
    BY IndexFacts
  <1>2. T \subseteq Nat /\ T # {}
    <2>1. \A n \in K : len - MessageIndex(ts, n) \in Nat
      BY <1>1
    <2> QED
      BY <2>1
  <1>3. PICK t \in T : \A x \in T : t <= x
    <2> HIDE DEF T
    <2> QED
      BY <1>2, Least
  <1>4. PICK k \in K : t = len - MessageIndex(ts, k)
    OBVIOUS
  <1>5. ASSUME NEW n \in K PROVE NotAfter(ts, n, k)
    <2>1. len - MessageIndex(ts, k) <= len - MessageIndex(ts, n)
      BY <1>3, <1>4
    <2>2. MessageIndex(ts, k) \in 1 .. len /\ MessageIndex(ts, n) \in 1 .. len
      BY <1>1
    <2> QED
      BY <1>1, <2>1, <2>2 DEF NotAfter
  <1> QED
    BY <1>5

(* le among the messages of one author.                                    *)
LEMMA OwnOrder ==
    ASSUME NEW ts, NEW M, HasMessages(ts, M), NEW n \in MIds(ts), NEW m \in MIds(ts),
           Author(ts, n) = Author(ts, m)
    PROVE  Le(ts, n, m) <=> NotAfter(ts, n, m)
  BY LeUnfolds

(* _mergeContext finds the latest messages before the parents.             *)
LEMMA MergedContext ==
    ASSUME NEW ts, NEW M, HasMessages(ts, M), IsOrdered(ts), HasContexts(ts),
           NEW P, P \subseteq MIds(ts), \A p, q \in P : p \notin Ancestors(ts, q),
           NEW u \in M, NEW readers, u \in readers
    PROVE  IsLatest(ts, MergeContext(ts, P, readers)[u], Past(ts, P) \cap ByAuthor(ts, u))
  <1> DEFINE Known == {ts.context[p][u] : p \in {q \in P : u \in Readers(ts, q)}} \ {NoMsg}
             By == {p \in P : Author(ts, p) = u}
             Latest(mIds) == CHOOSE m \in mIds : \A n \in mIds : Le(ts, n, m)
             x == IF By # {} THEN Latest(By) ELSE IF Known # {} THEN Latest(Known) ELSE NoMsg
             S == Past(ts, P) \cap ByAuthor(ts, u)
  <1>0. IsGrounded(ts) /\ IsLog(ts)
    BY DEF HasMessages, IsGrounded
  <1>1. MergeContext(ts, P, readers)[u] = x
    BY DEF MergeContext
  <1>a. \A n \in MIds(ts) : n \in S <=> Author(ts, n) = u /\ \E p \in P : n = p \/ n \in Ancestors(ts, p)
    BY DEF Past, ByAuthor
  <1>b. S \subseteq MIds(ts)
    BY DEF Past
  <1>c. SUFFICES IsLatest(ts, x, S)
    BY <1>1
  <1> HIDE DEF S
  <1>2. CASE By # {}
    <2>1. PICK p \in P : Author(ts, p) = u
      BY <1>2
    <2>2. By = {p}
      BY <2>1, ParentsDiffer
    <2>3. Le(ts, p, p)
      BY <1>0, OwnOrder, BeforeFacts
    <2>4. x = p
      BY <1>2, <2>2, <2>3
    <2>5. p \in S
      BY <1>a, <2>1
    <2>6. ASSUME NEW n \in S PROVE NotAfter(ts, n, p)
      <3>1. n \in MIds(ts) /\ Author(ts, n) = u /\ \E q \in P : n = q \/ n \in Ancestors(ts, q)
        BY <1>a, <1>b
      <3>2. PICK q \in P : n = q \/ n \in Ancestors(ts, q)
        BY <3>1
      <3>3. ~ Before(ts, p, n)
        <4> SUFFICES ASSUME Before(ts, p, n) PROVE FALSE
          OBVIOUS
        <4>1. p \in Ancestors(ts, n)
          BY <2>1, <3>1 DEF IsOrdered
        <4>2. p \in Ancestors(ts, q)
          BY <1>0, <3>2, <4>1, AncestorsTransitive
        <4> QED
          BY <4>2
      <3> QED
        BY <1>0, <3>1, <3>3, BeforeFacts
    <2> QED
      BY <2>4, <2>5, <2>6 DEF IsLatest
  <1>3. CASE By = {}
    <2>1. ASSUME NEW p \in P
          PROVE  u \in Readers(ts, p)
                 /\ IsLatest(ts, ts.context[p][u], Ancestors(ts, p) \cap ByAuthor(ts, u))
      <3>1. u \in Readers(ts, p)
        BY <1>3 DEF HasMessages
      <3> QED
        BY <3>1 DEF HasContexts
    <2>2. \A n \in S : \E p \in P : n \in Ancestors(ts, p) \cap ByAuthor(ts, u)
      BY <1>3, <1>a, <1>b DEF ByAuthor
    <2>3. Known \subseteq S /\ Known \subseteq MIds(ts)
      <3> SUFFICES ASSUME NEW p \in P, ts.context[p][u] # NoMsg PROVE ts.context[p][u] \in S
        BY <1>b
      <3>1. ts.context[p][u] \in Ancestors(ts, p) \cap ByAuthor(ts, u)
        BY <2>1 DEF IsLatest
      <3> QED
        BY <1>a, <3>1 DEF ByAuthor
    <2>4. ASSUME NEW n \in S PROVE \E k \in Known : NotAfter(ts, n, k)
      <3>1. PICK p \in P : n \in Ancestors(ts, p) \cap ByAuthor(ts, u)
        BY <2>2
      <3>2. /\ ts.context[p][u] \in Ancestors(ts, p) \cap ByAuthor(ts, u)
            /\ NotAfter(ts, n, ts.context[p][u])
        BY <2>1, <3>1 DEF IsLatest
      <3>3. ts.context[p][u] # NoMsg
        BY <3>2 DEF ByAuthor, HasMessages
      <3> QED
        BY <2>1, <3>2, <3>3
    <2>5. CASE Known # {}
      <3> DEFINE K == Known
      <3>0. K # {} /\ K \subseteq S /\ K \subseteq MIds(ts) /\ \A n \in S : \E k \in K : NotAfter(ts, n, k)
        BY <2>3, <2>4, <2>5
      <3>1. x = Latest(K)
        BY <1>3, <2>5
      <3> HIDE DEF K, x
      <3>2. \A n, m \in K : Le(ts, n, m) <=> NotAfter(ts, n, m)
        BY <1>a, <3>0, OwnOrder
      <3>3. \E k \in K : \A n \in K : NotAfter(ts, n, k)
        BY <1>0, <3>0, LatestExists
      <3>4. \E k \in K : \A n \in K : Le(ts, n, k)
        BY <3>2, <3>3
      <3>5. x \in K /\ \A n \in K : Le(ts, n, x)
        BY <3>1, <3>4
      <3>6. \A n \in K : NotAfter(ts, n, x)
        BY <3>2, <3>5
      <3>7. ASSUME NEW n \in S PROVE NotAfter(ts, n, x)
        <4>1. PICK k \in K : NotAfter(ts, n, k)
          BY <3>0
        <4>2. NotAfter(ts, k, x)
          BY <3>6
        <4>3. n \in MIds(ts) /\ k \in MIds(ts) /\ x \in MIds(ts)
          BY <1>b, <3>0, <3>5
        <4> QED
          BY <1>0, <4>1, <4>2, <4>3, BeforeFacts
      <3> QED
        BY <3>0, <3>5, <3>7 DEF IsLatest
    <2>6. CASE Known = {}
      <3>1. S = {}
        BY <2>4, <2>6
      <3> QED
        BY <1>3, <2>6, <3>1 DEF IsLatest
    <2> QED
      BY <2>5, <2>6
  <1> QED
    BY <1>2, <1>3

-----------------------------------------------------------------------------
(* A traversal takes in a message when it is in keep, and either in start, *)
(* or all of those it follows are in go and were taken in themselves.      *)
Takes(f, next, keep, start, go, m) ==
    /\ m \in keep
    /\ m \in start \/ (next[m] # {} /\ \A n \in next[m] : n \in go /\ f[n])

IsTraversal(f, S, next, keep, start, go) == f = [m \in S |-> Takes(f, next, keep, start, go, m)]

(* It looks only at the messages that are next.                            *)
LEMMA TakesSame ==
    ASSUME NEW f, NEW g, NEW next, NEW keep, NEW start, NEW go, NEW m,
           \A n \in next[m] : f[n] = g[n]
    PROVE  Takes(f, next, keep, start, go, m) = Takes(g, next, keep, start, go, m)
  <1>1. (\A n \in next[m] : n \in go /\ f[n]) = (\A n \in next[m] : n \in go /\ g[n])
    OBVIOUS
  <1> QED
    BY <1>1 DEF Takes

(* Where next goes down some rank r there is such a traversal.             *)
LEMMA TraversalExists ==
    ASSUME NEW S, NEW b \in Nat, NEW r \in [S -> 0 .. b], NEW next,
           \A m \in S : next[m] \subseteq S /\ \A n \in next[m] : r[n] < r[m],
           NEW keep, NEW start, NEW go
    PROVE  \E f : IsTraversal(f, S, next, keep, start, go)
  <1> DEFINE Upto(k) == {m \in S : r[m] < k}
             Exists(k) == \E f : f = [m \in Upto(k) |-> Takes(f, next, keep, start, go, m)]
             T == {k \in 0 .. b + 1 : ~ Exists(k)}
  <1>1. Exists(0)
    <2>1. PICK f : f = [m \in {} |-> {}]
      OBVIOUS
    <2>3. Upto(0) = {}
      OBVIOUS
    <2>4. f = [m \in Upto(0) |-> Takes(f, next, keep, start, go, m)]
      BY <2>1, <2>3
    <2> QED
      BY <2>4
  <1>2. ASSUME NEW k \in 1 .. b + 1, Exists(k - 1) PROVE Exists(k)
    <2>1. PICK f : f = [m \in Upto(k - 1) |-> Takes(f, next, keep, start, go, m)]
      BY <1>2
    <2>2. PICK g : g = [m \in Upto(k) |-> Takes(f, next, keep, start, go, m)]
      OBVIOUS
    <2>3. ASSUME NEW m \in Upto(k)
          PROVE  Takes(f, next, keep, start, go, m) = Takes(g, next, keep, start, go, m)
      <3>1. ASSUME NEW p \in next[m] PROVE f[p] = g[p]
        <4>1. p \in S /\ r[p] < r[m] /\ r[p] \in 0 .. b /\ r[m] \in 0 .. b /\ r[m] < k
          OBVIOUS
        <4>3. p \in Upto(k - 1) /\ p \in Upto(k)
          BY <4>1
        <4> QED
          BY <2>1, <2>2, <4>3
      <3> QED
        BY <3>1, TakesSame
    <2>4. g = [m \in Upto(k) |-> Takes(g, next, keep, start, go, m)]
      BY <2>2, <2>3
    <2> QED
      BY <2>4
  <1>3. T = {}
    <2> SUFFICES ASSUME T # {} PROVE FALSE
      OBVIOUS
    <2>1. T \subseteq Nat
      OBVIOUS
    <2> HIDE DEF Exists
    <2>2. PICK k \in T : \A j \in T : k <= j
      <3> HIDE DEF T
      <3> QED
        BY <2>1, Least
    <2>3. k \in 1 .. b + 1
      BY <1>1
    <2>4. k - 1 \notin T
      <3> SUFFICES ASSUME k - 1 \in T PROVE FALSE
        OBVIOUS
      <3>1. k <= k - 1
        BY <2>2
      <3> QED
        BY <2>3, <3>1
    <2>5. Exists(k - 1)
      BY <2>3, <2>4
    <2> QED
      BY <1>2, <2>3, <2>5
  <1>4. Exists(b + 1)
    <2> HIDE DEF Exists
    <2>1. b + 1 \in 0 .. b + 1
      OBVIOUS
    <2> QED
      BY <1>3, <2>1
  <1>5. Upto(b + 1) = S
    <2>1. \A m \in S : r[m] \in 0 .. b
      OBVIOUS
    <2> QED
      BY <2>1
  <1> QED
    BY <1>4, <1>5 DEF IsTraversal

(* What iterAncestors queues.                                              *)
LEMMA QueuedFacts ==
    ASSUME NEW ts, IsGrounded(ts), NEW init, NEW keep, keep \subseteq MIds(ts), NEW go,
           NEW m \in MIds(ts)
    PROVE  LET start == init \cap keep
               after == {n \in keep : m \in Parents(ts, n) /\ \E v \in start : Le(ts, n, v)}
           IN  m \in Queued(ts, init, keep, go) <=>
                  /\ m \in keep
                  /\ \/ m \in start
                     \/ after # {} /\ \A n \in after : n \in go /\ n \in Queued(ts, init, keep, go)
  <1> DEFINE start == init \cap keep
             After(x) == {n \in keep : x \in Parents(ts, n) /\ \E v \in start : Le(ts, n, v)}
             E(q, x) == /\ x \in keep
                        /\ x \in start \/ (After(x) # {} /\ \A n \in After(x) : n \in go /\ q[n])
             queued == CHOOSE q : q = [x \in MIds(ts) |-> E(q, x)]
             next == [x \in MIds(ts) |-> After(x)]
             len == Len(ts.log)
             r == [x \in MIds(ts) |-> len - MessageIndex(ts, x)]
  <1>0. IsLog(ts)
    BY DEF IsGrounded
  <1>1. Queued(ts, init, keep, go) = {x \in MIds(ts) : queued[x]}
    BY DEF Queued
  <1>2. \A q : \A x \in MIds(ts) : E(q, x) = Takes(q, next, keep, start, go, x)
    BY DEF Takes
  <1>3. len \in Nat /\ \A x \in MIds(ts) : MessageIndex(ts, x) \in 1 .. len
    BY <1>0, IndexFacts
  <1>4. r \in [MIds(ts) -> 0 .. len]
    BY <1>3
  <1>5. \A x \in MIds(ts) : next[x] \subseteq MIds(ts) /\ \A n \in next[x] : r[n] < r[x]
    <2> SUFFICES ASSUME NEW x \in MIds(ts), NEW n \in After(x) PROVE n \in MIds(ts) /\ r[n] < r[x]
      OBVIOUS
    <2>1. n \in MIds(ts) /\ MessageIndex(ts, x) < MessageIndex(ts, n)
      BY DEF IsGrounded, Before
    <2> QED
      BY <1>3, <2>1
  <1> HIDE DEF next, r, start, E
  <1>6. \E f : IsTraversal(f, MIds(ts), next, keep, start, go)
    BY <1>3, <1>4, <1>5, TraversalExists
  <1>7. PICK f : f = [x \in MIds(ts) |-> Takes(f, next, keep, start, go, x)]
    BY <1>6 DEF IsTraversal
  <1>8. f = [x \in MIds(ts) |-> E(f, x)]
    BY <1>2, <1>7
  <1>9. queued = [x \in MIds(ts) |-> E(queued, x)]
    BY <1>8
  <1> HIDE DEF queued
  <1>10. queued[m] = E(queued, m)
    BY <1>9
  <1>11. After(m) \subseteq MIds(ts)
    OBVIOUS
  <1> HIDE DEF After
  <1>12. \A n \in After(m) : queued[n] <=> n \in Queued(ts, init, keep, go)
    BY <1>1, <1>11
  <1>13. m \in Queued(ts, init, keep, go) <=> E(queued, m)
    BY <1>1, <1>10
  <1>14. m \in Queued(ts, init, keep, go) <=>
            /\ m \in keep
            /\ m \in start \/ (After(m) # {} /\ \A n \in After(m) : n \in go /\ n \in Queued(ts, init, keep, go))
    BY <1>12, <1>13 DEF E
  <1> QED
    BY <1>14 DEF After, start

(* A message acks all that is before it and that its author has not acked. *)
LEMMA AckedWithFacts ==
    ASSUME NEW ts, NEW M, WellFormed(ts, M), NEW msg, Fits(ts, M, msg)
    PROVE  AckedWith(ts, msg) = {m \in Past(ts, msg.parents) : msg.author \in ts.unackby[m]}
  <1> DEFINE a == msg.author
             P == msg.parents
             keep == {m \in MIds(ts) : a \in ts.unackby[m]}
             start == P \cap keep
             after(m) == {n \in keep : m \in Parents(ts, n) /\ \E v \in start : Le(ts, n, v)}
             Q == Queued(ts, P, keep, MIds(ts))
  <1>0. /\ IsGrounded(ts) /\ IsLog(ts) /\ HasMessages(ts, M) /\ IsOrdered(ts) /\ HasContexts(ts)
        /\ P \subseteq MIds(ts) /\ a \in M
    BY DEF WellFormed, HasMessages, IsGrounded, Fits
  <1>1. AckedWith(ts, msg) = Q
    <2>1. AckedWith(ts, msg) = Q \cap MIds(ts)
      BY DEF AckedWith, IterAncestors
    <2>2. Q \subseteq MIds(ts)
      BY DEF Queued
    <2> QED
      BY <2>1, <2>2
  <1>2. \A m \in MIds(ts) : m \in keep <=> a \in Readers(ts, m) /\ ~ Answered(ts, m, a)
    BY DEF WellFormed, HasUnacked
  <1>3. \A m \in MIds(ts) : a \in ts.unackby[m] <=> m \in keep
    OBVIOUS
  <1>a. keep \subseteq MIds(ts)
    OBVIOUS
  <1> HIDE DEF keep
  <1>4. \A m \in MIds(ts) : m \in Q <=> /\ m \in keep
                                        /\ \/ m \in start
                                           \/ after(m) # {} /\ \A n \in after(m) : n \in MIds(ts) /\ n \in Q
    BY <1>0, <1>a, QueuedFacts
  <1> HIDE DEF Q
  <1>5. \A n, m \in MIds(ts) : Le(ts, n, m) <=> n = m \/ n \in Ancestors(ts, m)
    BY <1>0, LeIsReachability
  <1>6. \A m \in MIds(ts) : m \in Past(ts, P) <=> \E p \in P : m = p \/ m \in Ancestors(ts, p)
    BY DEF Past
  <1>7. \A m \in MIds(ts) : m \in Q => m \in Past(ts, P)
    <2> DEFINE G == {m \in MIds(ts) : m \in Q => m \in Past(ts, P)}
    <2>1. ASSUME NEW m \in MIds(ts), \A n \in MIds(ts) : Before(ts, m, n) => n \in G, m \in Q
          PROVE  m \in Past(ts, P)
      <3>1. CASE m \in start
        BY <1>6, <3>1
      <3>2. CASE m \notin start
        <4>1. PICK n \in after(m) : n \in MIds(ts) /\ n \in Q
          BY <1>4, <2>1, <3>2
        <4>2. m \in Parents(ts, n) /\ Before(ts, m, n)
          BY <1>0, <4>1 DEF IsGrounded
        <4>3. n \in Past(ts, P)
          BY <2>1, <4>1, <4>2
        <4>4. PICK p \in P : n = p \/ n \in Ancestors(ts, p)
          BY <1>6, <4>1, <4>3
        <4>5. m \in Ancestors(ts, n)
          BY <1>0, <4>1, <4>2, AncestorsFacts
        <4>6. m \in Ancestors(ts, p)
          BY <1>0, <4>4, <4>5, AncestorsTransitive
        <4> QED
          BY <1>6, <4>6
      <3> QED
        BY <3>1, <3>2
    <2>2. MIds(ts) \subseteq G
      <3>1. \A m \in MIds(ts) : (\A n \in MIds(ts) : Before(ts, m, n) => n \in G) => m \in G
        BY <2>1
      <3> HIDE DEF G
      <3> QED
        BY <1>0, <3>1, LogInductionDown
    <2> QED
      BY <2>2
  <1>8. ASSUME NEW m \in keep, NEW r \in MIds(ts), m \in Ancestors(ts, r)
        PROVE  r \in keep
    <2>0. m \in MIds(ts) /\ a \in Readers(ts, m) /\ ~ Answered(ts, m, a)
      BY <1>2, <1>a
    <2>1. Author(ts, r) # a
      BY <1>8, <2>0 DEF Answered, ByAuthor
    <2>2. a \in Readers(ts, r)
      BY <1>0, <2>1 DEF HasMessages
    <2>3. ~ Answered(ts, r, a)
      <3> SUFFICES ASSUME NEW n \in ByAuthor(ts, a), r \in Ancestors(ts, n) PROVE FALSE
        BY DEF Answered
      <3>1. n \in MIds(ts)
        BY DEF ByAuthor
      <3>2. m \in Ancestors(ts, n)
        BY <1>0, <1>8, <3>1, AncestorsTransitive
      <3> QED
        BY <2>0, <3>2 DEF Answered
    <2> QED
      BY <1>2, <2>2, <2>3
  <1>9. \A m \in MIds(ts) : m \in keep /\ m \in Past(ts, P) => m \in Q
    <2> DEFINE G == {m \in MIds(ts) : m \in keep /\ m \in Past(ts, P) => m \in Q}
    <2>1. ASSUME NEW m \in MIds(ts), \A n \in MIds(ts) : Before(ts, m, n) => n \in G,
                 m \in keep, m \in Past(ts, P)
          PROVE  m \in Q
      <3>1. CASE m \in P
        BY <1>4, <2>1, <3>1
      <3>2. CASE m \notin P
        <4>1. PICK p \in P : m \in Ancestors(ts, p)
          BY <1>6, <2>1, <3>2
        <4>2. p \in MIds(ts) /\ p \in start
          BY <1>0, <1>8, <2>1, <4>1
        <4>3. PICK r \in MIds(ts) : m \in Parents(ts, r) /\ (r = p \/ r \in Ancestors(ts, p))
          BY <1>0, <4>1, <4>2, AncestorHasChild
        <4>4. r \in keep
          <5>1. m \in Ancestors(ts, r)
            BY <1>0, <4>3, AncestorsFacts
          <5> QED
            BY <1>8, <2>1, <5>1
        <4>5. r \in after(m)
          BY <1>5, <4>2, <4>3, <4>4
        <4>6. ASSUME NEW n \in after(m) PROVE n \in MIds(ts) /\ n \in Q
          <5>1. n \in keep /\ n \in MIds(ts) /\ m \in Parents(ts, n)
            BY <1>a
          <5>2. PICK v \in start : Le(ts, n, v)
            OBVIOUS
          <5>3. n \in Past(ts, P)
            BY <1>0, <1>5, <1>6, <5>1, <5>2
          <5>4. Before(ts, m, n)
            BY <1>0, <5>1 DEF IsGrounded
          <5> QED
            BY <2>1, <5>1, <5>3, <5>4
        <4> QED
          BY <1>4, <2>1, <4>5, <4>6
      <3> QED
        BY <3>1, <3>2
    <2>2. MIds(ts) \subseteq G
      <3>1. \A m \in MIds(ts) : (\A n \in MIds(ts) : Before(ts, m, n) => n \in G) => m \in G
        BY <2>1
      <3> HIDE DEF G
      <3> QED
        BY <1>0, <3>1, LogInductionDown
    <2> QED
      BY <2>2
  <1>10. Past(ts, P) \subseteq MIds(ts) /\ Q \subseteq MIds(ts) /\ \A m \in Q : m \in keep
    <2>1. Q \subseteq MIds(ts)
      BY DEF Q, Queued
    <2> QED
      BY <1>4, <2>1 DEF Past
  <1> QED
    BY <1>1, <1>3, <1>7, <1>9, <1>10

-----------------------------------------------------------------------------
(* What add changes, field by field.                                       *)
HasAdded(us, ts, msg) ==
    /\ IsTranscript(us)
    /\ MIds(us) = MIds(ts) \cup {msg.mId}
    /\ us.messages[msg.mId] = msg
    /\ us.log = Append(ts.log, msg.mId)
    /\ us.maxMessages = (ts.maxMessages \cup {msg.mId}) \ msg.parents
    /\ us.context[msg.mId] = MergeContext(ts, msg.parents, msg.readers)
    /\ us.unackby[msg.mId] = msg.readers
AddKeeps(us, ts, msg) ==
    \A m \in MIds(ts) :
        /\ us.messages[m] = ts.messages[m] /\ us.context[m] = ts.context[m]
        /\ us.unackby[m] = ts.unackby[m] \ (IF m \in AckedWith(ts, msg) THEN {msg.author} ELSE {})

HasPut(g, f, k, v) ==
    DOMAIN g = DOMAIN f \cup {k} /\ g[k] = v /\ \A x \in DOMAIN f : x # k => g[x] = f[x]

(* What Put puts, and what it leaves.                                      *)
LEMMA PutFacts ==
    ASSUME NEW f, NEW k, NEW v, NEW g, g = Put(f, k, v)
    PROVE  HasPut(g, f, k, v)
  BY DEF Put, HasPut

(* add changes each field as HasAdded and AddKeeps say.                    *)
LEMMA AddFacts ==
    ASSUME NEW ts, HasUnacked(ts), NEW msg, msg.mId \notin MIds(ts), DOMAIN ts.context = MIds(ts),
           NEW us, us = Add(ts, msg)
    PROVE  /\ HasAdded(us, ts, msg) /\ AddKeeps(us, ts, msg)
           /\ DOMAIN us.context = MIds(us) /\ DOMAIN us.unackby = MIds(us)
           /\ us.unacked = {m \in ts.unacked \cup {msg.mId} : us.unackby[m] # {}}
  <1> DEFINE acked == AckedBy(ts.unackby, AckedWith(ts, msg), msg.author)
  <1>1. PICK unackby : unackby = Put(acked, msg.mId, msg.readers)
    OBVIOUS
  <1>2. PICK messages, log, maxMessages, context, unacked :
            /\ messages = Put(ts.messages, msg.mId, msg) /\ log = Append(ts.log, msg.mId)
            /\ maxMessages = (ts.maxMessages \cup {msg.mId}) \ msg.parents
            /\ context = Put(ts.context, msg.mId, MergeContext(ts, msg.parents, msg.readers))
            /\ unacked = {m \in ts.unacked \cup {msg.mId} : unackby[m] # {}}
    OBVIOUS
  <1>3. us = [messages |-> messages, log |-> log, maxMessages |-> maxMessages, context |-> context,
              unackby |-> unackby, unacked |-> unacked]
    BY <1>1, <1>2 DEF Add
  <1>4. /\ us.messages = messages /\ us.log = log /\ us.maxMessages = maxMessages
        /\ us.context = context /\ us.unackby = unackby /\ us.unacked = unacked
    BY <1>3
  <1>5. IsTranscript(us)
    BY <1>3, <1>4 DEF IsTranscript
  <1>6. /\ DOMAIN acked = MIds(ts)
        /\ \A m \in MIds(ts) :
              acked[m] = ts.unackby[m] \ (IF m \in AckedWith(ts, msg) THEN {msg.author} ELSE {})
    BY DEF AckedBy, HasUnacked
  <1> HIDE DEF acked
  <1>a. HasPut(unackby, acked, msg.mId, msg.readers)
    BY <1>1, PutFacts
  <1>b. HasPut(messages, ts.messages, msg.mId, msg)
    BY <1>2, PutFacts
  <1>c. HasPut(context, ts.context, msg.mId, MergeContext(ts, msg.parents, msg.readers))
    BY <1>2, PutFacts
  <1>7. /\ DOMAIN unackby = MIds(ts) \cup {msg.mId} /\ unackby[msg.mId] = msg.readers
        /\ \A m \in MIds(ts) : unackby[m] = acked[m]
    BY <1>6, <1>a DEF HasPut
  <1>8. /\ DOMAIN messages = MIds(ts) \cup {msg.mId} /\ messages[msg.mId] = msg
        /\ \A m \in MIds(ts) : messages[m] = ts.messages[m]
    BY <1>b DEF HasPut, MIds
  <1>9. /\ DOMAIN context = MIds(ts) \cup {msg.mId}
        /\ context[msg.mId] = MergeContext(ts, msg.parents, msg.readers)
        /\ \A m \in MIds(ts) : context[m] = ts.context[m]
    BY <1>c DEF HasPut
  <1>10. MIds(us) = MIds(ts) \cup {msg.mId}
    BY <1>4, <1>8 DEF MIds
  <1>11. HasAdded(us, ts, msg)
    BY <1>2, <1>4, <1>5, <1>7, <1>8, <1>9, <1>10 DEF HasAdded
  <1>12. AddKeeps(us, ts, msg)
    BY <1>4, <1>6, <1>7, <1>8, <1>9 DEF AddKeeps
  <1> QED
    BY <1>2, <1>4, <1>7, <1>9, <1>10, <1>11, <1>12

(* The new message is the last, and the order of the others is as before.  *)
LEMMA AddedLog ==
    ASSUME NEW ts, IsLog(ts), NEW us, NEW msg, msg.mId \notin MIds(ts), HasAdded(us, ts, msg)
    PROVE  /\ IsLog(us)
           /\ \A n, m \in MIds(ts) : /\ Before(us, n, m) <=> Before(ts, n, m)
                                     /\ NotAfter(us, n, m) <=> NotAfter(ts, n, m)
           /\ \A m \in MIds(ts) : Before(us, m, msg.mId)
  <1> DEFINE len == Len(ts.log)
  <1>1. len \in Nat /\ ts.log \in Seq(MIds(ts)) /\ MIds(us) = MIds(ts) \cup {msg.mId}
    BY IndexFacts DEF IsLog, HasAdded
  <1>2. /\ us.log \in Seq(MIds(us)) /\ Len(us.log) = len + 1 /\ us.log[len + 1] = msg.mId
        /\ \A i \in 1 .. len : us.log[i] = ts.log[i]
    <2>1. ts.log \in Seq(MIds(us)) /\ msg.mId \in MIds(us)
      BY <1>1
    <2> QED
      BY <1>1, <2>1 DEF HasAdded
  <1>3. IsLog(us)
    <2>1. \A i \in 1 .. len : ts.log[i] \in MIds(ts)
      BY IndexFacts
    <2>2. \A i, j \in 1 .. len + 1 : us.log[i] = us.log[j] => i = j
      <3> SUFFICES ASSUME NEW i \in 1 .. len + 1, NEW j \in 1 .. len + 1, us.log[i] = us.log[j]
                   PROVE  i = j
        OBVIOUS
      <3>1. CASE i \in 1 .. len /\ j \in 1 .. len
        BY <1>2, <3>1 DEF IsLog
      <3>2. CASE i = len + 1 /\ j \in 1 .. len
        BY <1>2, <2>1, <3>2
      <3>3. CASE j = len + 1 /\ i \in 1 .. len
        BY <1>2, <2>1, <3>3
      <3>4. CASE i = len + 1 /\ j = len + 1
        BY <3>4
      <3> QED
        BY <1>1, <3>1, <3>2, <3>3, <3>4
    <2>3. \A m \in MIds(us) : \E i \in 1 .. len + 1 : us.log[i] = m
      <3> SUFFICES ASSUME NEW m \in MIds(us) PROVE \E i \in 1 .. len + 1 : us.log[i] = m
        OBVIOUS
      <3>1. CASE m = msg.mId
        <4>1. len + 1 \in 1 .. len + 1
          BY <1>1
        <4> QED
          BY <1>2, <3>1, <4>1
      <3>2. CASE m \in MIds(ts)
        <4>1. PICK i \in 1 .. len : ts.log[i] = m
          BY <3>2 DEF IsLog
        <4>2. i \in 1 .. len + 1
          BY <1>1
        <4> QED
          BY <1>2, <4>1, <4>2
      <3> QED
        BY <1>1, <3>1, <3>2
    <2> QED
      BY <1>2, <2>2, <2>3 DEF IsLog
  <1>4. \A m \in MIds(ts) : MessageIndex(us, m) = MessageIndex(ts, m)
    <2> SUFFICES ASSUME NEW m \in MIds(ts) PROVE MessageIndex(us, m) = MessageIndex(ts, m)
      OBVIOUS
    <2>1. PICK i \in 1 .. len : ts.log[i] = m
      BY DEF IsLog
    <2>2. us.log[i] = m /\ i \in 1 .. len + 1
      BY <1>1, <1>2, <2>1
    <2>3. MessageIndex(ts, m) = i
      BY <2>1, IndexFacts
    <2>4. MessageIndex(us, m) = i
      BY <1>2, <1>3, <2>2, IndexFacts
    <2> QED
      BY <2>3, <2>4
  <1>5. MessageIndex(us, msg.mId) = len + 1
    <2>1. len + 1 \in 1 .. len + 1
      BY <1>1
    <2> QED
      BY <1>2, <1>3, <2>1, IndexFacts
  <1>6. \A m \in MIds(ts) : MessageIndex(ts, m) \in 1 .. len
    BY IndexFacts
  <1> QED
    BY <1>1, <1>3, <1>4, <1>5, <1>6 DEF Before, NotAfter

(* Its ancestors are its past, and those of the others are as before.      *)
LEMMA AddedOrder ==
    ASSUME NEW ts, IsGrounded(ts), NEW us, NEW msg, msg.mId \notin MIds(ts),
           msg.parents \subseteq MIds(ts), HasAdded(us, ts, msg), AddKeeps(us, ts, msg)
    PROVE  /\ IsGrounded(us)
           /\ \A m \in MIds(ts) : /\ Parents(us, m) = Parents(ts, m)
                                  /\ Author(us, m) = Author(ts, m)
                                  /\ Readers(us, m) = Readers(ts, m)
                                  /\ Ancestors(us, m) = Ancestors(ts, m)
           /\ Parents(us, msg.mId) = msg.parents
           /\ Author(us, msg.mId) = msg.author /\ Readers(us, msg.mId) = msg.readers
           /\ Ancestors(us, msg.mId) = Past(ts, msg.parents)
  <1>0. IsLog(ts) /\ MIds(us) = MIds(ts) \cup {msg.mId}
    BY DEF IsGrounded, HasAdded
  <1>1. \A m \in MIds(ts) : /\ Parents(us, m) = Parents(ts, m) /\ Author(us, m) = Author(ts, m)
                            /\ Readers(us, m) = Readers(ts, m)
    BY DEF AddKeeps, Parents, Author, Readers
  <1>2. /\ Parents(us, msg.mId) = msg.parents /\ Author(us, msg.mId) = msg.author
        /\ Readers(us, msg.mId) = msg.readers
    BY DEF HasAdded, Parents, Author, Readers
  <1>3. IsGrounded(us)
    <2>1. IsLog(us)
      BY <1>0, AddedLog
    <2>2. ASSUME NEW m \in MIds(us)
          PROVE  Parents(us, m) \subseteq MIds(us) /\ \A p \in Parents(us, m) : Before(us, p, m)
      <3>1. CASE m \in MIds(ts)
        <4>1. Parents(ts, m) \subseteq MIds(ts) /\ \A p \in Parents(ts, m) : Before(ts, p, m)
          BY <3>1 DEF IsGrounded
        <4> QED
          BY <1>0, <1>1, <3>1, <4>1, AddedLog
      <3>2. CASE m = msg.mId
        BY <1>0, <1>2, <3>2, AddedLog
      <3> QED
        BY <1>0, <3>1, <3>2
    <2> QED
      BY <2>1, <2>2 DEF IsGrounded
  <1>4. \A m \in MIds(ts) : Ancestors(us, m) = Ancestors(ts, m)
    <2>1. \A m \in MIds(ts) : Parents(ts, m) = Parents(us, m) /\ Parents(ts, m) \subseteq MIds(ts)
      BY <1>1 DEF IsGrounded
    <2>2. MIds(ts) \subseteq MIds(us)
      BY <1>0
    <2> QED
      BY <1>3, <2>1, <2>2, AncestorsSame
  <1>5. Ancestors(us, msg.mId) = Past(ts, msg.parents)
    <2>1. \A n : n \in Ancestors(us, msg.mId) <=>
                    n \in msg.parents \/ \E p \in msg.parents : n \in Ancestors(ts, p)
      BY <1>0, <1>2, <1>3, <1>4, AncestorsFacts
    <2>2. \A p \in msg.parents : \A n \in Ancestors(ts, p) : n \in MIds(ts)
      BY AncestorsBefore
    <2>3. \A n : n \in Past(ts, msg.parents) <=>
                    n \in MIds(ts) /\ \E p \in msg.parents : n = p \/ n \in Ancestors(ts, p)
      BY DEF Past
    <2> QED
      BY <2>1, <2>2, <2>3
  <1> QED
    BY <1>1, <1>2, <1>3, <1>4, <1>5

(* A message that fits leaves the transcript well formed.                  *)
LEMMA AddWellFormed ==
    ASSUME NEW ts, NEW M, WellFormed(ts, M), NEW msg, Fits(ts, M, msg), NEW us, us = Add(ts, msg)
    PROVE  WellFormed(us, M) /\ HasAdded(us, ts, msg) /\ AddKeeps(us, ts, msg)
  <1> DEFINE a == msg.author
             id == msg.mId
             P == msg.parents
  <1>0. /\ IsGrounded(ts) /\ IsLog(ts) /\ HasMessages(ts, M) /\ IsOrdered(ts) /\ HasContexts(ts)
        /\ HasUnacked(ts) /\ HasMaximal(ts) /\ P \subseteq MIds(ts) /\ a \in M /\ id \notin MIds(ts)
        /\ DOMAIN ts.context = MIds(ts)
    BY DEF WellFormed, HasMessages, IsGrounded, Fits, HasContexts
  <1>1. /\ HasAdded(us, ts, msg) /\ AddKeeps(us, ts, msg)
        /\ DOMAIN us.context = MIds(us) /\ DOMAIN us.unackby = MIds(us)
        /\ us.unacked = {m \in ts.unacked \cup {id} : us.unackby[m] # {}}
    BY <1>0, AddFacts
  <1>2. MIds(us) = MIds(ts) \cup {id} /\ us.messages[id] = msg
    BY <1>1 DEF HasAdded
  <1>3. /\ IsGrounded(us)
        /\ \A m \in MIds(ts) : /\ Parents(us, m) = Parents(ts, m) /\ Author(us, m) = Author(ts, m)
                               /\ Readers(us, m) = Readers(ts, m)
                               /\ Ancestors(us, m) = Ancestors(ts, m)
        /\ Parents(us, id) = P /\ Author(us, id) = a /\ Readers(us, id) = M \ {a}
        /\ Ancestors(us, id) = Past(ts, P)
    BY <1>0, <1>1, AddedOrder DEF Fits
  <1>4. /\ \A n, m \in MIds(ts) : /\ Before(us, n, m) <=> Before(ts, n, m)
                                  /\ NotAfter(us, n, m) <=> NotAfter(ts, n, m)
        /\ \A m \in MIds(ts) : Before(us, m, id)
        /\ IsLog(us)
    BY <1>0, <1>1, AddedLog
  <1>5. \A u : u # a => ByAuthor(us, u) = ByAuthor(ts, u)
    BY <1>2, <1>3 DEF ByAuthor
  <1>6. ByAuthor(us, a) = ByAuthor(ts, a) \cup {id}
    BY <1>2, <1>3 DEF ByAuthor
  <1>7. Past(ts, P) \subseteq MIds(ts) /\ \A m \in MIds(ts) : Ancestors(ts, m) \subseteq MIds(ts)
    BY <1>0, AncestorsBefore DEF Past
  <1>8. HasMessages(us, M)
    <2>1. ASSUME NEW m \in MIds(us)
          PROVE  /\ m # NoMsg /\ us.messages[m].mId = m /\ Author(us, m) = m[1]
                 /\ Author(us, m) \in M /\ Readers(us, m) = M \ {Author(us, m)}
      <3>1. CASE m = id
        BY <1>2, <1>3, <3>1 DEF Fits
      <3>2. CASE m \in MIds(ts)
        <4>1. us.messages[m] = ts.messages[m]
          BY <1>1, <3>2 DEF AddKeeps
        <4> QED
          BY <1>0, <1>3, <3>2, <4>1 DEF HasMessages
      <3> QED
        BY <1>2, <3>1, <3>2
    <2> QED
      BY <1>3, <2>1 DEF HasMessages
  <1>9. IsOrdered(us)
    <2>1. ASSUME NEW n \in MIds(us), NEW m \in MIds(us), Author(us, n) = Author(us, m), Before(us, n, m)
          PROVE  n \in Ancestors(us, m)
      <3>1. CASE n \in MIds(ts) /\ m \in MIds(ts)
        BY <1>0, <1>3, <1>4, <2>1, <3>1 DEF IsOrdered
      <3>2. CASE n \in MIds(ts) /\ m = id
        <4>1. n \in ByAuthor(ts, a)
          BY <1>3, <2>1, <3>2 DEF ByAuthor
        <4> QED
          BY <1>3, <3>2, <4>1 DEF Fits
      <3>3. n # id
        BY <1>2, <1>4, <2>1, BeforeFacts
      <3> QED
        BY <1>2, <3>1, <3>2, <3>3
    <2>2. ASSUME NEW m \in MIds(us), NEW p \in Parents(us, m), NEW q \in Parents(us, m)
          PROVE  p \notin Ancestors(us, q)
      <3>1. CASE m = id
        BY <1>0, <1>3, <2>2, <3>1 DEF Fits
      <3>2. CASE m \in MIds(ts)
        <4>1. q \in MIds(ts)
          BY <1>0, <1>3, <3>2 DEF IsGrounded
        <4> QED
          BY <1>0, <1>3, <3>2, <4>1 DEF IsOrdered
      <3> QED
        BY <1>2, <3>1, <3>2
    <2> QED
      BY <2>1, <2>2 DEF IsOrdered
  <1>10. HasContexts(us)
    <2>1. ASSUME NEW x, NEW S, S \subseteq MIds(ts), IsLatest(ts, x, S) PROVE IsLatest(us, x, S)
      BY <1>4, <2>1 DEF IsLatest
    <2>2. ASSUME NEW m \in MIds(us), NEW u \in Readers(us, m)
          PROVE  IsLatest(us, us.context[m][u], Ancestors(us, m) \cap ByAuthor(us, u))
      <3>1. Ancestors(us, m) \cap ByAuthor(us, u) = Ancestors(us, m) \cap ByAuthor(ts, u)
            /\ Ancestors(us, m) \subseteq MIds(ts)
        <4>1. Ancestors(us, m) \subseteq MIds(ts)
          BY <1>2, <1>3, <1>7
        <4> QED
          BY <1>0, <1>5, <1>6, <4>1
      <3>2. CASE m = id
        <4>1. u \in M /\ u \in msg.readers
          BY <1>3, <3>2 DEF Fits
        <4>2. \A p, q \in P : p \notin Ancestors(ts, q)
          BY DEF Fits
        <4>3. IsLatest(ts, MergeContext(ts, P, msg.readers)[u], Past(ts, P) \cap ByAuthor(ts, u))
          BY <1>0, <4>1, <4>2, MergedContext
        <4>4. us.context[m] = MergeContext(ts, P, msg.readers)
          BY <1>1, <3>2 DEF HasAdded
        <4>5. IsLatest(ts, us.context[m][u], Ancestors(us, m) \cap ByAuthor(ts, u))
          BY <1>3, <3>2, <4>3, <4>4
        <4> QED
          BY <2>1, <3>1, <4>5
      <3>3. CASE m \in MIds(ts)
        <4>1. us.context[m] = ts.context[m]
          BY <1>1, <3>3 DEF AddKeeps
        <4>2. IsLatest(ts, ts.context[m][u], Ancestors(ts, m) \cap ByAuthor(ts, u))
          BY <1>0, <1>3, <3>3 DEF HasContexts
        <4>3. IsLatest(ts, us.context[m][u], Ancestors(us, m) \cap ByAuthor(ts, u))
          BY <1>3, <3>3, <4>1, <4>2
        <4> QED
          BY <2>1, <3>1, <4>3
      <3> QED
        BY <1>2, <3>2, <3>3
    <2> QED
      BY <1>1, <2>2 DEF HasContexts
  <1>11. HasUnacked(us)
    <2>1. ASSUME NEW m \in MIds(ts), NEW u
          PROVE  Answered(us, m, u) <=> Answered(ts, m, u) \/ (u = a /\ m \in Past(ts, P))
      <3>1. CASE u # a
        BY <1>3, <1>5, <3>1 DEF Answered, ByAuthor
      <3>2. CASE u = a
        BY <1>3, <1>6, <3>2 DEF Answered, ByAuthor
      <3> QED
        BY <3>1, <3>2
    <2>2. ASSUME NEW u PROVE ~ Answered(us, id, u)
      <3> SUFFICES ASSUME NEW n \in MIds(us), id \in Ancestors(us, n) PROVE FALSE
        BY DEF Answered, ByAuthor
      <3> QED
        BY <1>0, <1>2, <1>3, <1>7
    <2>3. ASSUME NEW m \in MIds(us)
          PROVE  us.unackby[m] = {u \in Readers(us, m) : ~ Answered(us, m, u)}
      <3>1. CASE m = id
        <4>1. us.unackby[m] = M \ {a}
          BY <1>1, <3>1 DEF HasAdded, Fits
        <4> QED
          BY <1>3, <2>2, <3>1, <4>1
      <3>2. CASE m \in MIds(ts)
        <4>1. us.unackby[m] = ts.unackby[m] \ (IF m \in AckedWith(ts, msg) THEN {a} ELSE {})
          BY <1>1, <3>2 DEF AddKeeps
        <4>2. m \in AckedWith(ts, msg) <=> m \in Past(ts, P) /\ a \in ts.unackby[m]
          BY AckedWithFacts
        <4>3. ts.unackby[m] = {u \in Readers(ts, m) : ~ Answered(ts, m, u)}
          BY <1>0, <3>2 DEF HasUnacked
        <4>4. Readers(us, m) = Readers(ts, m)
          BY <1>3, <3>2
        <4>5. \A u : Answered(us, m, u) <=> Answered(ts, m, u) \/ (u = a /\ m \in Past(ts, P))
          BY <2>1, <3>2
        <4> QED
          BY <4>1, <4>2, <4>3, <4>4, <4>5
      <3> QED
        BY <1>2, <3>1, <3>2
    <2>4. us.unacked = {m \in MIds(us) : us.unackby[m] # {}}
      <3>1. \A m \in MIds(ts) : us.unackby[m] # {} => m \in ts.unacked
        <4> SUFFICES ASSUME NEW m \in MIds(ts), us.unackby[m] # {} PROVE ts.unackby[m] # {}
          BY <1>0 DEF HasUnacked
        <4> QED
          BY <1>1 DEF AddKeeps
      <3>2. ts.unacked \subseteq MIds(ts)
        BY <1>0 DEF HasUnacked
      <3> QED
        BY <1>1, <1>2, <3>1, <3>2
    <2> QED
      BY <1>1, <2>3, <2>4 DEF HasUnacked
  <1>12. HasMaximal(us)
    <2>1. us.maxMessages = (ts.maxMessages \cup {id}) \ P
      BY <1>1 DEF HasAdded
    <2>2. ASSUME NEW m \in MIds(us)
          PROVE  m \in us.maxMessages <=> \A n \in MIds(us) : m \notin Parents(us, n)
      <3>1. CASE m = id
        <4>1. \A n \in MIds(us) : id \notin Parents(us, n)
          BY <1>0, <1>2, <1>3 DEF IsGrounded
        <4> QED
          BY <1>0, <2>1, <3>1, <4>1
      <3>2. CASE m \in MIds(ts)
        BY <1>0, <1>2, <1>3, <2>1, <3>2 DEF HasMaximal
      <3> QED
        BY <1>2, <3>1, <3>2
    <2>3. us.maxMessages \subseteq MIds(us)
      BY <1>0, <1>2, <2>1 DEF HasMaximal
    <2> QED
      BY <2>2, <2>3 DEF HasMaximal
  <1> QED
    BY <1>1, <1>8, <1>9, <1>10, <1>11, <1>12 DEF WellFormed, HasAdded

-----------------------------------------------------------------------------
(* suc_ruId.  What its search takes in.                                    *)
LEMMA SearchFacts ==
    ASSUME NEW ts, IsGrounded(ts), NEW m \in MIds(ts), NEW reader
    PROVE  \E queued :
              /\ SucRuId(ts, m, reader) =
                    LET found == {n \in MIds(ts) : queued[n] /\ Author(ts, n) = reader}
                    IN  IF found = {} THEN NoMsg
                        ELSE CHOOSE n \in found : \A o \in found : NotAfter(ts, n, o)
              /\ \A x \in MIds(ts) :
                    LET before == {p \in Parents(ts, x) : Le(ts, m, p)}
                    IN  queued[x] <=> \/ x = m
                                      \/ before # {} /\ \A p \in before : queued[p] /\ Author(ts, p) # reader
  <1> DEFINE B(x) == {p \in Parents(ts, x) : Le(ts, m, p)}
             E(q, x) == \/ x = m
                        \/ B(x) # {} /\ \A p \in B(x) : q[p] /\ Author(ts, p) # reader
             queued == CHOOSE q : q = [x \in MIds(ts) |-> E(q, x)]
             next == [x \in MIds(ts) |-> B(x)]
             go == {p \in MIds(ts) : Author(ts, p) # reader}
             len == Len(ts.log)
             r == [x \in MIds(ts) |-> MessageIndex(ts, x)]
             found == {n \in MIds(ts) : queued[n] /\ Author(ts, n) = reader}
  <1>0. IsLog(ts)
    BY DEF IsGrounded
  <1>1. SucRuId(ts, m, reader) = IF found = {} THEN NoMsg
                                 ELSE CHOOSE n \in found : \A o \in found : NotAfter(ts, n, o)
    BY DEF SucRuId
  <1>2. \A x \in MIds(ts) : B(x) \subseteq MIds(ts)
    BY DEF IsGrounded
  <1>3. \A q : \A x \in MIds(ts) : E(q, x) = Takes(q, next, MIds(ts), {m}, go, x)
    <2> SUFFICES ASSUME NEW q, NEW x \in MIds(ts)
                 PROVE  E(q, x) <=> Takes(q, next, MIds(ts), {m}, go, x)
      BY DEF Takes
    <2>1. next[x] = B(x)
      OBVIOUS
    <2>2. \A p \in B(x) : p \in go <=> Author(ts, p) # reader
      BY <1>2
    <2> HIDE DEF next, B, go
    <2> QED
      BY <2>1, <2>2 DEF Takes
  <1>4. len \in Nat /\ r \in [MIds(ts) -> 0 .. len]
    BY <1>0, IndexFacts
  <1>5. \A x \in MIds(ts) : next[x] \subseteq MIds(ts) /\ \A n \in next[x] : r[n] < r[x]
    BY DEF IsGrounded, Before
  <1> HIDE DEF next, r, E
  <1>6. \E f : IsTraversal(f, MIds(ts), next, MIds(ts), {m}, go)
    BY <1>4, <1>5, TraversalExists
  <1>7. PICK f : f = [x \in MIds(ts) |-> Takes(f, next, MIds(ts), {m}, go, x)]
    BY <1>6 DEF IsTraversal
  <1>8. f = [x \in MIds(ts) |-> E(f, x)]
    BY <1>3, <1>7
  <1>9. queued = [x \in MIds(ts) |-> E(queued, x)]
    BY <1>8
  <1>10. ASSUME NEW q, q = queued
         PROVE  /\ \A x \in MIds(ts) : q[x] = E(q, x)
                /\ SucRuId(ts, m, reader) =
                      LET fd == {n \in MIds(ts) : q[n] /\ Author(ts, n) = reader}
                      IN  IF fd = {} THEN NoMsg
                          ELSE CHOOSE n \in fd : \A o \in fd : NotAfter(ts, n, o)
    BY <1>1, <1>9, <1>10
  <1> HIDE DEF queued
  <1>11. PICK q : q = queued
    OBVIOUS
  <1> QED
    BY <1>10, <1>11 DEF E

(* The earliest of some messages.                                          *)
LEMMA EarliestExists ==
    ASSUME NEW ts, IsLog(ts), NEW K, K \subseteq MIds(ts), K # {}
    PROVE  \E k \in K : \A n \in K : NotAfter(ts, k, n)
  <1> DEFINE T == {MessageIndex(ts, n) : n \in K}
  <1>1. \A n \in K : MessageIndex(ts, n) \in Nat
    BY IndexFacts
  <1>2. T \subseteq Nat /\ T # {}
    BY <1>1
  <1>3. PICK t \in T : \A x \in T : t <= x
    <2> HIDE DEF T
    <2> QED
      BY <1>2, Least
  <1> QED
    BY <1>3 DEF NotAfter

(* It finds something if and only if there is a message after m by the     *)
(* reader.                                                                 *)
LEMMA SucRuIdFacts ==
    ASSUME NEW ts, NEW M, WellFormed(ts, M), NEW m \in MIds(ts), NEW u \in Readers(ts, m)
    PROVE  SucRuId(ts, m, u) = NoMsg <=> ~ Answered(ts, m, u)
  <1>0. /\ IsGrounded(ts) /\ IsLog(ts) /\ HasMessages(ts, M) /\ IsOrdered(ts) /\ HasContexts(ts)
    BY DEF WellFormed, HasMessages, IsGrounded
  <1>1. \A n, x \in MIds(ts) : Le(ts, n, x) <=> n = x \/ n \in Ancestors(ts, x)
    BY <1>0, LeIsReachability
  <1>2. Author(ts, m) # u
    BY <1>0 DEF HasMessages
  <1> DEFINE before(x) == {p \in Parents(ts, x) : Le(ts, m, p)}
  <1>3. PICK queued :
              /\ SucRuId(ts, m, u) =
                    LET found == {n \in MIds(ts) : queued[n] /\ Author(ts, n) = u}
                    IN  IF found = {} THEN NoMsg
                        ELSE CHOOSE n \in found : \A o \in found : NotAfter(ts, n, o)
              /\ \A x \in MIds(ts) :
                    queued[x] <=> \/ x = m
                                  \/ before(x) # {} /\ \A p \in before(x) : queued[p] /\ Author(ts, p) # u
    BY <1>0, SearchFacts
  <1> DEFINE found == {n \in MIds(ts) : queued[n] /\ Author(ts, n) = u}
  <1>4. SucRuId(ts, m, u) = NoMsg <=> found = {}
    <2>0. SucRuId(ts, m, u) = IF found = {} THEN NoMsg
                              ELSE CHOOSE n \in found : \A o \in found : NotAfter(ts, n, o)
      BY <1>3
    <2>1. CASE found # {}
      <3>1. found \subseteq MIds(ts)
        OBVIOUS
      <3> HIDE DEF found
      <3>2. \E n \in found : \A o \in found : NotAfter(ts, n, o)
        BY <1>0, <2>1, <3>1, EarliestExists
      <3>3. SucRuId(ts, m, u) \in found
        BY <2>0, <2>1, <3>2
      <3> QED
        BY <1>0, <2>1, <3>1, <3>3 DEF HasMessages
    <2> QED
      BY <2>0, <2>1
  <1>5. ASSUME NEW n \in found PROVE Answered(ts, m, u)
    <2>1. n # m /\ n \in MIds(ts) /\ Author(ts, n) = u
      BY <1>2
    <2>2. PICK p \in Parents(ts, n) : Le(ts, m, p)
      BY <1>3, <2>1
    <2>3. m = p \/ m \in Ancestors(ts, p)
      BY <1>0, <1>1, <2>1, <2>2 DEF IsGrounded
    <2>4. m \in Ancestors(ts, n)
      BY <1>0, <2>1, <2>3, AncestorsFacts
    <2> QED
      BY <2>1, <2>4 DEF Answered, ByAuthor
  <1>6. ASSUME Answered(ts, m, u) PROVE found # {}
    <2> DEFINE S == {n \in ByAuthor(ts, u) : m \in Ancestors(ts, n)}
    <2>1. S # {} /\ S \subseteq MIds(ts)
      BY <1>6 DEF Answered, ByAuthor
    <2>2. PICK k \in S : \A n \in S : NotAfter(ts, k, n)
      <3> HIDE DEF S
      <3> QED
        BY <1>0, <2>1, EarliestExists
    <2>3. k \in MIds(ts) /\ Author(ts, k) = u /\ m \in Ancestors(ts, k)
      BY DEF ByAuthor
    <2> DEFINE Between(x) == (x = m \/ m \in Ancestors(ts, x)) /\ (x = k \/ x \in Ancestors(ts, k))
               G == {x \in MIds(ts) : Between(x) => queued[x]}
    <2>4. ASSUME NEW x \in MIds(ts), \A y \in MIds(ts) : Before(ts, y, x) => y \in G, Between(x)
          PROVE  queued[x]
      <3>1. CASE x = m
        BY <1>3, <3>1
      <3>2. CASE x # m
        <4>1. m \in Ancestors(ts, x)
          BY <2>4, <3>2
        <4>2. before(x) # {}
          <5>1. PICK p \in Parents(ts, x) : p = m \/ m \in Ancestors(ts, p)
            BY <1>0, <4>1, AncestorsFacts
          <5>2. p \in MIds(ts)
            BY <1>0 DEF IsGrounded
          <5> QED
            BY <1>1, <5>1, <5>2
        <4>3. ASSUME NEW p \in before(x) PROVE queued[p] /\ Author(ts, p) # u
          <5>1. p \in MIds(ts) /\ Before(ts, p, x) /\ p \in Ancestors(ts, x)
            BY <1>0, AncestorsFacts DEF IsGrounded
          <5>2. p = m \/ m \in Ancestors(ts, p)
            BY <1>1, <5>1
          <5>3. p \in Ancestors(ts, k)
            BY <1>0, <2>3, <2>4, <5>1, AncestorsTransitive
          <5>4. queued[p]
            BY <2>4, <5>1, <5>2, <5>3
          <5>5. Author(ts, p) # u
            <6> SUFFICES ASSUME Author(ts, p) = u PROVE FALSE
              OBVIOUS
            <6>1. p \in S
              BY <1>2, <5>1, <5>2 DEF ByAuthor
            <6>2. NotAfter(ts, k, p) /\ Before(ts, p, k)
              BY <1>0, <2>2, <2>3, <5>3, <6>1, AncestorsBefore
            <6> QED
              BY <1>0, <2>3, <5>1, <6>2, BeforeFacts
          <5> QED
            BY <5>4, <5>5
        <4> QED
          BY <1>3, <4>2, <4>3
      <3> QED
        BY <3>1, <3>2
    <2>5. MIds(ts) \subseteq G
      <3>1. \A x \in MIds(ts) : (\A y \in MIds(ts) : Before(ts, y, x) => y \in G) => x \in G
        BY <2>4
      <3> HIDE DEF G
      <3> QED
        BY <1>0, <3>1, LogInduction
    <2>6. queued[k]
      BY <2>3, <2>5
    <2> QED
      BY <2>3, <2>6
  <1> QED
    BY <1>4, <1>5, <1>6

-----------------------------------------------------------------------------
(* resolveEarlier: from some messages back to the latest payloads.         *)
Payloads(ts) == {m \in MIds(ts) : ~ ShouldIgnore(ts, m)}
Latest(ts, S) == {n \in S : \A o \in S : n \notin Ancestors(ts, o)}

(* resolveEarlier finds the latest payloads among some messages and all    *)
(* before them.                                                            *)
LEMMA ResolvedFacts ==
    ASSUME NEW ts, NEW M, HasMessages(ts, M), IsOrdered(ts), HasContexts(ts),
           NEW P, P \subseteq MIds(ts), \A p, q \in P : p \notin Ancestors(ts, q)
    PROVE  ResolveEarlier(ts, P) = Latest(ts, Past(ts, P) \cap Payloads(ts))
  <1> DEFINE all == MIds(ts)
             ignorable == {m \in MIds(ts) : ShouldIgnore(ts, m)}
             Q == Queued(ts, P, all, ignorable)
             after(m) == {n \in all : m \in Parents(ts, n) /\ \E v \in P \cap all : Le(ts, n, v)}
             W == Past(ts, P) \cap Payloads(ts)
             IsTop(m) == m \in Past(ts, P) /\ \A o \in W : m \notin Ancestors(ts, o)
  <1>0. IsGrounded(ts) /\ IsLog(ts)
    BY DEF HasMessages, IsGrounded
  <1>1. ResolveEarlier(ts, P) = Q \ ignorable
    BY DEF ResolveEarlier, Boundary
  <1>2. \A m \in MIds(ts) : m \in Q <=> \/ m \in P
                                        \/ after(m) # {} /\ \A n \in after(m) : n \in ignorable /\ n \in Q
    <2> SUFFICES ASSUME NEW m \in MIds(ts)
                 PROVE  m \in Q <=> \/ m \in P
                                    \/ after(m) # {} /\ \A n \in after(m) : n \in ignorable /\ n \in Q
      OBVIOUS
    <2>1. m \in Q <=> /\ m \in all
                      /\ \/ m \in P \cap all
                         \/ after(m) # {} /\ \A n \in after(m) : n \in ignorable /\ n \in Q
      <3>1. all \subseteq MIds(ts)
        OBVIOUS
      <3> HIDE DEF ignorable, all
      <3> QED
        BY <1>0, <3>1, QueuedFacts
    <2> QED
      BY <2>1
  <1>3. Q \subseteq MIds(ts)
    BY DEF Queued
  <1>4. ASSUME NEW m \in MIds(ts), NEW n
        PROVE  n \in after(m) <=> n \in Past(ts, P) /\ m \in Parents(ts, n)
    <2>1. n \in after(m) <=> n \in MIds(ts) /\ m \in Parents(ts, n) /\ \E v \in P : Le(ts, n, v)
      OBVIOUS
    <2>2. ASSUME n \in MIds(ts) PROVE (\E v \in P : Le(ts, n, v)) <=> n \in Past(ts, P)
      BY <2>2, LeIsReachability DEF Past
    <2>3. n \in Past(ts, P) => n \in MIds(ts)
      BY DEF Past
    <2> QED
      BY <2>1, <2>2, <2>3
  <1>5. \A m \in MIds(ts) : m \in ignorable <=> m \notin Payloads(ts)
    BY DEF Payloads
  <1>6. ASSUME NEW m \in P, NEW o \in Past(ts, P) PROVE m \notin Ancestors(ts, o)
    <2>1. PICK q \in P : o = q \/ o \in Ancestors(ts, q)
      BY DEF Past
    <2>2. m \in Ancestors(ts, o) => m \in Ancestors(ts, q)
      BY <1>0, <2>1, AncestorsTransitive
    <2> QED
      BY <2>2
  <1>7. Past(ts, P) \subseteq MIds(ts) /\ P \subseteq Past(ts, P)
    BY DEF Past
  <1>8. ASSUME NEW m \in MIds(ts), NEW o \in Past(ts, P), m \in Ancestors(ts, o)
        PROVE  /\ m \in Past(ts, P)
               /\ \E r \in after(m) : r = o \/ r \in Ancestors(ts, o)
    <2>1. PICK q \in P : o = q \/ o \in Ancestors(ts, q)
      BY DEF Past
    <2>2. \A x \in Ancestors(ts, o) : x \in Ancestors(ts, q)
      BY <1>0, <2>1, AncestorsTransitive
    <2>3. PICK r \in MIds(ts) : m \in Parents(ts, r) /\ (r = o \/ r \in Ancestors(ts, o))
      BY <1>0, <1>7, <1>8, AncestorHasChild
    <2>4. r \in Past(ts, P)
      BY <2>1, <2>2, <2>3 DEF Past
    <2>5. m \in Past(ts, P)
      BY <1>8, <2>2 DEF Past
    <2> QED
      BY <1>4, <2>3, <2>4, <2>5
  <1> DEFINE G == {m \in MIds(ts) : m \in Q <=> IsTop(m)}
  <1>9. ASSUME NEW m \in MIds(ts), \A n \in MIds(ts) : Before(ts, m, n) => n \in G
        PROVE  m \in Q <=> IsTop(m)
    <2>0. ASSUME NEW n \in after(m)
          PROVE  n \in MIds(ts) /\ n \in G /\ n \in Past(ts, P) /\ m \in Ancestors(ts, n)
      <3>1. n \in Past(ts, P) /\ m \in Parents(ts, n) /\ n \in MIds(ts)
        BY <1>4, <1>7
      <3>2. Before(ts, m, n) /\ m \in Ancestors(ts, n)
        BY <1>0, <3>1, AncestorsFacts DEF IsGrounded
      <3> QED
        BY <1>9, <3>1, <3>2
    <2> HIDE DEF ignorable, Q, after
    <2>1. CASE m \in P
      BY <1>2, <1>6, <1>7, <2>1
    <2>2. ASSUME m \notin P, m \in Q PROVE IsTop(m)
      <3>1. after(m) # {} /\ \A n \in after(m) : n \in ignorable /\ n \in Q
        BY <1>2, <2>2
      <3>2. PICK n \in after(m) : TRUE
        BY <3>1
      <3>3. m \in Past(ts, P)
        BY <1>8, <2>0
      <3>4. ASSUME NEW o \in W, m \in Ancestors(ts, o) PROVE FALSE
        <4>1. PICK r \in after(m) : r = o \/ r \in Ancestors(ts, o)
          BY <1>8, <3>4
        <4>2. r \in ignorable /\ IsTop(r) /\ r \in MIds(ts)
          BY <2>0, <3>1
        <4> QED
          BY <1>5, <4>1, <4>2
      <3> QED
        BY <3>3, <3>4
    <2>3. ASSUME m \notin P, IsTop(m) PROVE m \in Q
      <3>1. PICK q \in P : m \in Ancestors(ts, q)
        BY <2>3 DEF Past
      <3>2. after(m) # {}
        BY <1>7, <1>8, <3>1
      <3>3. ASSUME NEW n \in after(m) PROVE n \in ignorable /\ n \in Q
        <4>1. n \in MIds(ts) /\ n \in G /\ n \in Past(ts, P) /\ m \in Ancestors(ts, n)
          BY <2>0
        <4>2. n \notin Payloads(ts)
          BY <2>3, <4>1
        <4>3. ASSUME NEW o \in W, n \in Ancestors(ts, o) PROVE FALSE
          <5>1. m \in Ancestors(ts, o)
            BY <1>0, <1>7, <4>1, <4>3, AncestorsTransitive
          <5> QED
            BY <2>3, <5>1
        <4> QED
          BY <1>5, <4>1, <4>2, <4>3
      <3> QED
        BY <1>2, <3>2, <3>3
    <2> QED
      BY <2>1, <2>2, <2>3
  <1>10. MIds(ts) \subseteq G
    <2>1. \A m \in MIds(ts) : (\A n \in MIds(ts) : Before(ts, m, n) => n \in G) => m \in G
      BY <1>9
    <2> HIDE DEF G
    <2> QED
      BY <1>0, <2>1, LogInductionDown
  <1>11. \A m \in MIds(ts) : m \in Q \ ignorable <=> m \in Latest(ts, W)
    <2> SUFFICES ASSUME NEW m \in MIds(ts) PROVE m \in Q \ ignorable <=> m \in Latest(ts, W)
      OBVIOUS
    <2>1. m \in Q <=> IsTop(m)
      BY <1>10
    <2> HIDE DEF Q, ignorable
    <2> QED
      BY <1>5, <2>1 DEF Latest
  <1> QED
    BY <1>1, <1>3, <1>7, <1>11 DEF Latest

=============================================================================
