------------------------------ MODULE Transcript ------------------------------
(***************************************************************************)
(* BaseTranscript of impl/transcript.js: the messages of a session and     *)
(* their causal order, with what is cached about it.  A message is a       *)
(* record with its id mId, its author, its parents (the latest messages    *)
(* that its author had accepted), its readers and its body.                *)
(*                                                                         *)
(* A transcript is a record; messageIndex is the position in log, and the  *)
(* sequence of one author's messages is a part of log in the same order.   *)
(***************************************************************************)
EXTENDS Naturals, Sequences, FiniteSets

NoMsg == <<>>       \* null

EmptyMap == [m \in {} |-> NoMsg]
Put(f, key, value) == [k \in DOMAIN f \cup {key} |-> IF k = key THEN value ELSE f[k]]

NewTranscript ==
    [messages |-> EmptyMap,     \* mId -> message
     log |-> <<>>,              \* mIds in the order they were accepted
     maxMessages |-> {},        \* mIds that are nobody's parents
     context |-> EmptyMap,      \* mId -> reader -> its latest message before, or NoMsg
     unackby |-> EmptyMap,      \* mId -> readers that have not acked it
     unacked |-> {}]            \* mIds that are not fully acked

-----------------------------------------------------------------------------
(* CausalOrder.                                                            *)
MIds(ts) == DOMAIN ts.messages
Author(ts, m) == ts.messages[m].author
Parents(ts, m) == ts.messages[m].parents
Readers(ts, m) == ts.messages[m].readers
MembersOf(ts, m) == Readers(ts, m) \cup {Author(ts, m)}
ByAuthor(ts, u) == {m \in MIds(ts) : Author(ts, m) = u}
MessageIndex(ts, m) == CHOOSE i \in DOMAIN ts.log : ts.log[i] = m
NotAfter(ts, m0, m1) == MessageIndex(ts, m0) <= MessageIndex(ts, m1)

(* le: by the author's sequence, by the context, or, for somebody whose    *)
(* messages the later author does not read, by a search.                   *)
Le(ts, m0, m1) ==
    LET u0 == Author(ts, m0)
        le[m \in MIds(ts)] ==
            IF u0 = Author(ts, m) THEN NotAfter(ts, m0, m)
            ELSE IF u0 \in Readers(ts, m)
            THEN ts.context[m][u0] # NoMsg /\ NotAfter(ts, m0, ts.context[m][u0])
            ELSE NotAfter(ts, m0, m) /\ \E p \in Parents(ts, m) : le[p]
    IN  le[m1]

(* iterAncestors: from init, through the messages of keep (preFilter), as  *)
(* far as those of go (traverseFilter).  A message is queued after all     *)
(* those after it that are reachable and kept; IterAncestors are those in  *)
(* go, and Boundary the others.                                            *)
Queued(ts, init, keep, go) ==
    LET start == init \cap keep
        After(m) == {n \in keep : m \in Parents(ts, n) /\ \E v \in start : Le(ts, n, v)}
        queued[m \in MIds(ts)] ==
            /\ m \in keep
            /\ m \in start \/ (After(m) # {} /\ \A n \in After(m) : n \in go /\ queued[n])
    IN  {m \in MIds(ts) : queued[m]}

IterAncestors(ts, init, keep, go) == Queued(ts, init, keep, go) \cap go
Boundary(ts, init, keep, go) == Queued(ts, init, keep, go) \ go

(* suc_ruId: the earliest message after m by one of its readers, or NoMsg. *)
SucRuId(ts, m, reader) ==
    LET Before(n) == {p \in Parents(ts, n) : Le(ts, m, p)}
        queued[n \in MIds(ts)] ==
            \/ n = m
            \/ Before(n) # {} /\ \A p \in Before(n) : queued[p] /\ Author(ts, p) # reader
        found == {n \in MIds(ts) : queued[n] /\ Author(ts, n) = reader}
    IN  IF found = {} THEN NoMsg
        ELSE CHOOSE n \in found : \A o \in found : NotAfter(ts, n, o)

-----------------------------------------------------------------------------
(* add: what is refused, and what a new message changes.                   *)
IsAntichain(ts, mIds) == \A m, n \in mIds : m # n => ~ Le(ts, m, n)

CanAdd(ts, msg) ==
    LET own == ByAuthor(ts, msg.author)
        lastOwn == {m \in own : \A n \in own : NotAfter(ts, n, m)}
    IN  /\ msg.mId \notin msg.parents \cup MIds(ts)
        /\ msg.author \notin msg.readers
        /\ msg.parents \subseteq MIds(ts)
        /\ \A p \in msg.parents : msg.author \in MembersOf(ts, p)
        /\ \A p, q \in msg.parents : p # q => Author(ts, p) # Author(ts, q)
        /\ \A m \in lastOwn : \E p \in msg.parents : Le(ts, m, p)
        /\ IsAntichain(ts, msg.parents)

(* Mutated form of MergeContext: forgets what the parents' contexts hold.  *)
ContextOfParents(ts, parents, readers) ==
    LET By(u) == {p \in parents : Author(ts, p) = u}
    IN  [u \in readers |-> IF By(u) = {} THEN NoMsg ELSE CHOOSE p \in By(u) : TRUE]

(* _mergeContext.                                                          *)
MergeContext(ts, parents, readers) ==
    LET Known(u) == {ts.context[p][u] : p \in {q \in parents : u \in Readers(ts, q)}} \ {NoMsg}
        By(u) == {p \in parents : Author(ts, p) = u}
        Latest(mIds) == CHOOSE m \in mIds : \A n \in mIds : Le(ts, n, m)
    IN  [u \in readers |-> IF By(u) # {} THEN Latest(By(u))
                           ELSE IF Known(u) # {} THEN Latest(Known(u)) ELSE NoMsg]

(* Mutated forms of AckedWith: a message acks all that was accepted before *)
(* it, or nothing but its parents.                                         *)
AcksEverything(ts, msg) == {m \in MIds(ts) : msg.author \in ts.unackby[m]}
AcksParents(ts, msg) == {m \in msg.parents : msg.author \in ts.unackby[m]}

(* The ancestors that the author of a message acks with it, and has not    *)
(* acked before.                                                           *)
AckedWith(ts, msg) ==
    LET unacked == {m \in MIds(ts) : msg.author \in ts.unackby[m]}
    IN  IterAncestors(ts, msg.parents, unacked, MIds(ts))

AckedBy(unackby, mIds, author) ==
    [m \in DOMAIN unackby |-> unackby[m] \ (IF m \in mIds THEN {author} ELSE {})]

Add(ts, msg) ==
    LET unackby == Put(AckedBy(ts.unackby, AckedWith(ts, msg), msg.author), msg.mId, msg.readers)
    IN  [messages |-> Put(ts.messages, msg.mId, msg),
         log |-> Append(ts.log, msg.mId),
         maxMessages |-> (ts.maxMessages \cup {msg.mId}) \ msg.parents,
         context |-> Put(ts.context, msg.mId, MergeContext(ts, msg.parents, msg.readers)),
         unackby |-> unackby,
         unacked |-> {m \in ts.unacked \cup {msg.mId} : unackby[m] # {}}]

=============================================================================
