-------------------------- MODULE SessionGroup_proofs --------------------------
(***************************************************************************)
(* Proofs about SessionGroup.  Its inductive invariant GroupInv says that, *)
(* whatever the transport does, each member's transcript is well formed,   *)
(* what the rest of its session keeps fits the transcript, and the members *)
(* have the same messages.  From it follow the safety properties of        *)
(* SessionProperties, and that the transcripts implement CausalBroadcast.  *)
(***************************************************************************)
EXTENDS Transcript_proofs

-----------------------------------------------------------------------------
(* The invariant, for a function S from the members M to their sessions.   *)

(* The fields of a session; what its user and its monitors were told is    *)
(* what its transcript says; nothing was refused, and no assertion failed. *)
IsSession(s) ==
    s = [sId |-> s.sId, members |-> s.members, ts |-> s.ts, messages |-> s.messages,
         pubtxt |-> s.pubtxt, ktime |-> s.ktime, tryAccept |-> s.tryAccept,
         timeouts |-> s.timeouts, ackmon |-> s.ackmon, monitors |-> s.monitors,
         state |-> s.state, finId |-> s.finId, finTimer |-> s.finTimer,
         invalid |-> s.invalid, fubar |-> s.fubar]
NothingWrong(s) == s.invalid = {} /\ s.fubar = FALSE
Tracks(s) ==
    /\ s.pubtxt = MIds(s.ts)
    /\ s.ackmon = s.ts.unacked
    /\ s.ktime = MIds(s.ts) \ s.ts.unacked
    /\ s.monitors \subseteq MIds(s.ts)
IsSound(s, M) ==
    /\ IsSession(s) /\ s.members = M /\ s.sId = 1
    /\ WellFormed(s.ts, M)
    /\ Tracks(s) /\ NothingWrong(s)

(* A member's own messages are numbered, and come after all that it had    *)
(* accepted.                                                               *)
OwnNumbered(c, ts) ==
    /\ IsFiniteSet(ByAuthor(ts, c))
    /\ \A m \in ByAuthor(ts, c) : \E k \in 1 .. Cardinality(ByAuthor(ts, c)) : m = <<c, k, 1>>
OwnAfterAll(c, ts) ==
    \A m \in ByAuthor(ts, c) : \A n \in MIds(ts) : Before(ts, n, m) => n \in Ancestors(ts, m)

(* What the user sees.                                                     *)
IsShown(log, ts, i) ==
    LET m == log.list[i]
        earlier == Ancestors(ts, m) \cap Payloads(ts)
    IN  /\ m \in MIds(ts) /\ m \in DOMAIN log.parents
        /\ log.parents[m] = Latest(ts, earlier)
        /\ \A n \in earlier : \E j \in 1 .. i - 1 : log.list[j] = n
ShowsPast(log, ts) ==
    /\ log = [list |-> log.list, parents |-> log.parents, transcriptParents |-> {}]
    /\ log.list \in Seq(MIds(ts))
    /\ \A m \in Payloads(ts) : \E i \in 1 .. Len(log.list) : log.list[i] = m
    /\ \A i \in 1 .. Len(log.list) : IsShown(log, ts, i)

(* The buffer holds messages of others that are not accepted, each once.   *)
Sent(S, c) == UNION {{S[d].ts.messages[m] : m \in ByAuthor(S[d].ts, d)} : d \in DOMAIN S \ {c}}
IsBuffer(buffer, ts, B) ==
    /\ buffer \in Seq(B)
    /\ \A i, j \in 1 .. Len(buffer) : buffer[i].mId = buffer[j].mId => i = j
    /\ \A i \in 1 .. Len(buffer) : buffer[i].mId \notin MIds(ts)
TimeoutsMatch(c, s) == \A m \in s.timeouts : m \notin MIds(s.ts) /\ m[1] # c
IsReady(s, i) == ParentsKnown(s, s.tryAccept[i])
NoneReady(s) == \A i \in 1 .. Len(s.tryAccept) : ~ IsReady(s, i)

(* All have the same messages.                                             *)
Agree(S) ==
    \A c \in DOMAIN S : \A m \in MIds(S[c].ts) :
        m \in MIds(S[m[1]].ts) /\ S[m[1]].ts.messages[m] = S[c].ts.messages[m]

IsMember(c, s, M, B) ==
    /\ IsSound(s, M) /\ OwnNumbered(c, s.ts) /\ OwnAfterAll(c, s.ts) /\ ShowsPast(s.messages, s.ts)
    /\ IsBuffer(s.tryAccept, s.ts, B) /\ TimeoutsMatch(c, s)
IsGroup(S, M) ==
    /\ DOMAIN S = M /\ Agree(S)
    /\ \A c \in M : IsMember(c, S[c], M, Sent(S, c))
GroupInv ==
    /\ IsGroup(session, Members)
    /\ \A c \in Members : NoneReady(session[c])

-----------------------------------------------------------------------------
(* What the methods of a session change, field by field.                   *)
KeepsRest(r, s) ==
    /\ IsSession(r) /\ r.sId = s.sId /\ r.members = s.members /\ r.invalid = s.invalid
    /\ r.state = s.state /\ r.finId = s.finId
KeepsBuffer(r, s) == r.tryAccept = s.tryAccept /\ r.timeouts = s.timeouts
NewlyAcked(r, s, msg) == (s.ts.unacked \cup {msg.mId}) \ r.ts.unacked
HasAccepted(r, s, msg) ==
    /\ KeepsRest(r, s) /\ KeepsBuffer(r, s)
    /\ r.ts = Add(s.ts, msg)
    /\ r.messages = LogAccepted(s.messages, r.ts, msg.mId)
    /\ r.pubtxt = s.pubtxt \cup {msg.mId}
    /\ r.ktime = s.ktime \cup NewlyAcked(r, s, msg)
    /\ r.ackmon = (s.ackmon \cup {msg.mId}) \ NewlyAcked(r, s, msg)
    /\ r.monitors \subseteq s.monitors \cup {msg.mId}

(* An assertion that holds changes nothing.                                *)
LEMMA AssertedFacts ==
    ASSUME NEW s, IsSession(s), NothingWrong(s)
    PROVE  Asserted(s, TRUE) = s
  <1>1. PICK fubar : fubar = (s.fubar \/ ~ TRUE)
    OBVIOUS
  <1>2. fubar = s.fubar
    BY <1>1 DEF NothingWrong
  <1>3. Asserted(s, TRUE) = [s EXCEPT !.fubar = fubar]
    BY <1>1 DEF Asserted
  <1>4. [s EXCEPT !.fubar = fubar] = s
    BY <1>2 DEF IsSession
  <1> QED
    BY <1>3, <1>4

(* add: the message is accepted, and no assertion fails.                   *)
LEMMA AddMessageFacts ==
    ASSUME NEW c, NEW s, IsSession(s), NothingWrong(s), s.ackmon = s.ts.unacked, NEW msg,
           NEW r, r = AddMessage(c, s, msg)
    PROVE  HasAccepted(r, s, msg) /\ NothingWrong(r)
  <1>1. PICK ts : ts = Add(s.ts, msg)
    OBVIOUS
  <1>2. PICK mIds : mIds = (s.ts.unacked \cup {msg.mId}) \ ts.unacked
    OBVIOUS
  <1>3. PICK pubtxt : pubtxt = s.pubtxt \cup {msg.mId}
    OBVIOUS
  <1>4. PICK s1 : s1 = [s EXCEPT !.ts = ts, !.pubtxt = pubtxt]
    OBVIOUS
  <1>5. IsSession(s1) /\ s1.ts = ts /\ s1.pubtxt = pubtxt
    BY <1>4 DEF IsSession
  <1>6. /\ s1.sId = s.sId /\ s1.members = s.members /\ s1.state = s.state /\ s1.finId = s.finId
        /\ s1.messages = s.messages /\ s1.ktime = s.ktime /\ s1.tryAccept = s.tryAccept
        /\ s1.timeouts = s.timeouts /\ s1.ackmon = s.ackmon /\ s1.monitors = s.monitors
        /\ s1.invalid = s.invalid
    BY <1>4 DEF IsSession
  <1>7. s1.fubar = s.fubar
    BY <1>4 DEF IsSession
  <1>8. PICK ackmon : ackmon = s1.ackmon \cup {msg.mId}
    OBVIOUS
  <1>9. PICK monitors : monitors = IF NeedAckmon(c, msg) THEN s1.monitors \cup {msg.mId} ELSE s1.monitors
    OBVIOUS
  <1>10. PICK s2 : s2 = [s1 EXCEPT !.ackmon = ackmon, !.monitors = monitors]
    OBVIOUS
  <1>11. Expect(c, s1, msg) = s2
    BY <1>8, <1>9, <1>10 DEF Expect
  <1>12. IsSession(s2) /\ s2.ackmon = ackmon /\ s2.monitors = monitors
    BY <1>5, <1>10 DEF IsSession
  <1>13. /\ s2.sId = s1.sId /\ s2.members = s1.members /\ s2.state = s1.state /\ s2.finId = s1.finId
         /\ s2.messages = s1.messages /\ s2.ktime = s1.ktime /\ s2.tryAccept = s1.tryAccept
         /\ s2.timeouts = s1.timeouts /\ s2.invalid = s1.invalid
         /\ s2.ts = s1.ts /\ s2.pubtxt = s1.pubtxt
    BY <1>5, <1>10 DEF IsSession
  <1>14. s2.fubar = s1.fubar
    BY <1>5, <1>10 DEF IsSession
  <1>15. PICK messages : messages = LogAccepted(s2.messages, s2.ts, msg.mId)
    OBVIOUS
  <1>16. PICK s3 : s3 = [s2 EXCEPT !.messages = messages]
    OBVIOUS
  <1>17. MsgAccepted(s2, msg) = s3
    BY <1>15, <1>16 DEF MsgAccepted
  <1>18. IsSession(s3) /\ s3.messages = messages
    BY <1>12, <1>16 DEF IsSession
  <1>19. /\ s3.sId = s2.sId /\ s3.members = s2.members /\ s3.state = s2.state /\ s3.finId = s2.finId
         /\ s3.ktime = s2.ktime /\ s3.tryAccept = s2.tryAccept
         /\ s3.timeouts = s2.timeouts /\ s3.invalid = s2.invalid
         /\ s3.ts = s2.ts /\ s3.pubtxt = s2.pubtxt /\ s3.ackmon = s2.ackmon /\ s3.monitors = s2.monitors
    BY <1>12, <1>16 DEF IsSession
  <1>20. s3.fubar = s2.fubar
    BY <1>12, <1>16 DEF IsSession
  <1>21. PICK ktime : ktime = s3.ktime \cup mIds
    OBVIOUS
  <1>22. PICK ackmon2 : ackmon2 = s3.ackmon \ mIds
    OBVIOUS
  <1>23. PICK monitors2 : monitors2 = s3.monitors \ mIds
    OBVIOUS
  <1>24. PICK finTimer :
            finTimer = IF s3.finId \in mIds /\ s3.finTimer = "timeout" THEN "grace" ELSE s3.finTimer
    OBVIOUS
  <1>25. PICK s4 : s4 = [s3 EXCEPT !.ktime = ktime, !.ackmon = ackmon2, !.monitors = monitors2,
                                   !.finTimer = finTimer]
    OBVIOUS
  <1>26. IsSession(s4) /\ s4.ktime = ktime /\ s4.ackmon = ackmon2 /\ s4.monitors = monitors2
    BY <1>18, <1>25 DEF IsSession
  <1>27. /\ s4.sId = s3.sId /\ s4.members = s3.members /\ s4.state = s3.state /\ s4.finId = s3.finId
         /\ s4.messages = s3.messages /\ s4.tryAccept = s3.tryAccept
         /\ s4.timeouts = s3.timeouts /\ s4.invalid = s3.invalid
         /\ s4.ts = s3.ts /\ s4.pubtxt = s3.pubtxt
    BY <1>18, <1>25 DEF IsSession
  <1>28. s4.fubar = s3.fubar
    BY <1>18, <1>25 DEF IsSession
  <1>29. MsgFullyAcked(s3, mIds) = Asserted(s4, mIds \subseteq s3.ackmon)
    BY <1>21, <1>22, <1>23, <1>24, <1>25 DEF MsgFullyAcked
  <1>30. (mIds \subseteq s3.ackmon) = TRUE
    BY <1>2, <1>6, <1>8, <1>12, <1>19
  <1>31. NothingWrong(s4)
    BY <1>6, <1>7, <1>13, <1>14, <1>19, <1>20, <1>27, <1>28 DEF NothingWrong
  <1>32. Asserted(s4, mIds \subseteq s3.ackmon) = s4
    BY <1>26, <1>30, <1>31, AssertedFacts
  <1>33. r = MsgFullyAcked(MsgAccepted(Expect(c, [s EXCEPT !.ts = ts, !.pubtxt = @ \cup {msg.mId}], msg), msg),
                           (s.ts.unacked \cup {msg.mId}) \ ts.unacked)
    BY <1>1 DEF AddMessage
  <1>34. r = s4
    BY <1>2, <1>3, <1>4, <1>11, <1>17, <1>29, <1>32, <1>33
  <1>35. KeepsRest(s4, s) /\ KeepsBuffer(s4, s)
    BY <1>6, <1>13, <1>19, <1>26, <1>27 DEF KeepsRest, KeepsBuffer
  <1>36. s4.ts = Add(s.ts, msg) /\ s4.pubtxt = s.pubtxt \cup {msg.mId}
    BY <1>1, <1>3, <1>5, <1>13, <1>19, <1>27
  <1>37. s4.messages = LogAccepted(s.messages, s4.ts, msg.mId)
    BY <1>5, <1>6, <1>13, <1>15, <1>18, <1>19, <1>27
  <1>38. mIds = NewlyAcked(s4, s, msg)
    BY <1>1, <1>2, <1>36 DEF NewlyAcked
  <1>39. s4.ktime = s.ktime \cup mIds
    BY <1>6, <1>13, <1>19, <1>21, <1>26
  <1>40. s4.ackmon = (s.ackmon \cup {msg.mId}) \ mIds
    BY <1>6, <1>8, <1>12, <1>19, <1>22, <1>26
  <1>41. s4.monitors \subseteq s.monitors \cup {msg.mId}
    BY <1>6, <1>9, <1>12, <1>19, <1>23, <1>26
  <1> QED
    BY <1>31, <1>34, <1>35, <1>36, <1>37, <1>38, <1>39, <1>40, <1>41 DEF HasAccepted

(* tryAdd: a message that fits is accepted.                                *)
LEMMA TryAddFacts ==
    ASSUME NEW c, NEW M, NEW s, IsSound(s, M), NEW msg, Fits(s.ts, M, msg),
           NEW r, r = TryAdd(c, s, msg)
    PROVE  /\ HasAccepted(r, s, msg) /\ IsSound(r, M)
           /\ HasAdded(r.ts, s.ts, msg) /\ AddKeeps(r.ts, s.ts, msg)
  <1>0. IsSession(s) /\ NothingWrong(s) /\ WellFormed(s.ts, M) /\ Tracks(s) /\ s.members = M /\ s.sId = 1
    BY DEF IsSound
  <1>1. CanAdd(s.ts, msg) /\ msg.readers \cup {msg.author} = M
    BY <1>0, FittingIsAdded DEF Fits
  <1>2. r = AddMessage(c, s, msg)
    BY <1>0, <1>1 DEF TryAdd
  <1>3. HasAccepted(r, s, msg) /\ NothingWrong(r)
    BY <1>0, <1>2, AddMessageFacts DEF Tracks
  <1>4. PICK ts : ts = Add(s.ts, msg)
    OBVIOUS
  <1>5. WellFormed(ts, M) /\ HasAdded(ts, s.ts, msg) /\ AddKeeps(ts, s.ts, msg)
    BY <1>0, <1>4, AddWellFormed
  <1>6. r.ts = ts
    BY <1>3, <1>4 DEF HasAccepted
  <1>7. MIds(ts) = MIds(s.ts) \cup {msg.mId}
    BY <1>5 DEF HasAdded
  <1>8. ts.unacked \subseteq s.ts.unacked \cup {msg.mId}
    <2>1. HasUnacked(s.ts) /\ msg.mId \notin MIds(s.ts) /\ DOMAIN s.ts.context = MIds(s.ts)
      BY <1>0 DEF WellFormed, HasContexts, Fits
    <2>2. ts.unacked = {m \in s.ts.unacked \cup {msg.mId} : ts.unackby[m] # {}}
      BY <1>4, <2>1, AddFacts
    <2> QED
      BY <2>2
  <1>9. s.ts.unacked \subseteq MIds(s.ts)
    BY <1>0 DEF WellFormed, HasUnacked
  <1>10. Tracks(r)
    <2>1. NewlyAcked(r, s, msg) = (s.ts.unacked \cup {msg.mId}) \ ts.unacked
      BY <1>6 DEF NewlyAcked
    <2>2. /\ r.pubtxt = s.pubtxt \cup {msg.mId}
          /\ r.ktime = s.ktime \cup NewlyAcked(r, s, msg)
          /\ r.ackmon = (s.ackmon \cup {msg.mId}) \ NewlyAcked(r, s, msg)
          /\ r.monitors \subseteq s.monitors \cup {msg.mId}
      BY <1>3 DEF HasAccepted
    <2>3. /\ s.pubtxt = MIds(s.ts) /\ s.ackmon = s.ts.unacked /\ s.ktime = MIds(s.ts) \ s.ts.unacked
          /\ s.monitors \subseteq MIds(s.ts)
      BY <1>0 DEF Tracks
    <2>4. msg.mId \notin MIds(s.ts)
      BY DEF Fits
    <2>5. r.ackmon = ts.unacked
      BY <1>8, <2>1, <2>2, <2>3
    <2>6. r.ktime = MIds(ts) \ ts.unacked
      BY <1>7, <1>8, <1>9, <2>1, <2>2, <2>3, <2>4
    <2> QED
      BY <1>6, <1>7, <2>2, <2>3, <2>5, <2>6 DEF Tracks
  <1>11. IsSession(r) /\ r.members = M /\ r.sId = 1
    BY <1>0, <1>3 DEF HasAccepted, KeepsRest
  <1>12. WellFormed(r.ts, M) /\ HasAdded(r.ts, s.ts, msg) /\ AddKeeps(r.ts, s.ts, msg)
    BY <1>5, <1>6
  <1> QED
    BY <1>3, <1>10, <1>11, <1>12 DEF IsSound

-----------------------------------------------------------------------------
(* What a new message leaves as it was.                                    *)
LEMMA AddedFacts ==
    ASSUME NEW ts, NEW M, WellFormed(ts, M), NEW msg, Fits(ts, M, msg), NEW us,
           HasAdded(us, ts, msg), AddKeeps(us, ts, msg)
    PROVE  /\ MIds(us) = MIds(ts) \cup {msg.mId} /\ msg.mId \notin MIds(ts)
           /\ us.messages[msg.mId] = msg
           /\ \A m \in MIds(ts) : /\ us.messages[m] = ts.messages[m] /\ Author(us, m) = Author(ts, m)
                                  /\ Parents(us, m) = Parents(ts, m)
                                  /\ Ancestors(us, m) = Ancestors(ts, m)
                                  /\ Ancestors(ts, m) \subseteq MIds(ts)
           /\ \A n, m \in MIds(ts) : Before(us, n, m) <=> Before(ts, n, m)
           /\ \A m \in MIds(ts) : Before(us, m, msg.mId)
           /\ Author(us, msg.mId) = msg.author /\ Parents(us, msg.mId) = msg.parents
           /\ Ancestors(us, msg.mId) = Past(ts, msg.parents)
           /\ Ancestors(us, msg.mId) \subseteq MIds(ts)
           /\ \A u : u # msg.author => ByAuthor(us, u) = ByAuthor(ts, u)
           /\ ByAuthor(us, msg.author) = ByAuthor(ts, msg.author) \cup {msg.mId}
  <1>0. /\ IsGrounded(ts) /\ IsLog(ts) /\ msg.mId \notin MIds(ts) /\ msg.parents \subseteq MIds(ts)
    BY DEF WellFormed, HasMessages, IsGrounded, Fits
  <1>1. MIds(us) = MIds(ts) \cup {msg.mId} /\ us.messages[msg.mId] = msg
        /\ \A m \in MIds(ts) : us.messages[m] = ts.messages[m]
    BY DEF HasAdded, AddKeeps
  <1>2. /\ \A m \in MIds(ts) : /\ Parents(us, m) = Parents(ts, m) /\ Author(us, m) = Author(ts, m)
                               /\ Ancestors(us, m) = Ancestors(ts, m)
        /\ Parents(us, msg.mId) = msg.parents /\ Author(us, msg.mId) = msg.author
        /\ Ancestors(us, msg.mId) = Past(ts, msg.parents)
    BY <1>0, AddedOrder
  <1>3. /\ \A n, m \in MIds(ts) : Before(us, n, m) <=> Before(ts, n, m)
        /\ \A m \in MIds(ts) : Before(us, m, msg.mId)
    BY <1>0, AddedLog
  <1>4. /\ \A u : u # msg.author => ByAuthor(us, u) = ByAuthor(ts, u)
        /\ ByAuthor(us, msg.author) = ByAuthor(ts, msg.author) \cup {msg.mId}
    BY <1>1, <1>2 DEF ByAuthor
  <1>5. \A m \in MIds(ts) : Ancestors(ts, m) \subseteq MIds(ts)
    BY <1>0, AncestorsBefore
  <1>6. Past(ts, msg.parents) \subseteq MIds(ts)
    BY DEF Past
  <1> QED
    BY <1>0, <1>1, <1>2, <1>3, <1>4, <1>5, <1>6

(* The log shows a new payload after the payloads before it.               *)
LEMMA LogAcceptedShows ==
    ASSUME NEW ts, NEW M, WellFormed(ts, M), NEW msg, Fits(ts, M, msg), NEW us, WellFormed(us, M),
           HasAdded(us, ts, msg), AddKeeps(us, ts, msg),
           NEW log, ShowsPast(log, ts), NEW new, new = LogAccepted(log, us, msg.mId)
    PROVE  ShowsPast(new, us)
  <1> DEFINE id == msg.mId
             len == Len(log.list)
  <1>0. /\ MIds(us) = MIds(ts) \cup {id} /\ id \notin MIds(ts)
        /\ \A m \in MIds(ts) : /\ us.messages[m] = ts.messages[m]
                               /\ Ancestors(us, m) = Ancestors(ts, m)
                               /\ Ancestors(ts, m) \subseteq MIds(ts)
        /\ Ancestors(us, id) \subseteq MIds(ts)
    BY AddedFacts
  <1>1. /\ log = [list |-> log.list, parents |-> log.parents, transcriptParents |-> {}]
        /\ log.list \in Seq(MIds(ts))
        /\ \A m \in Payloads(ts) : \E i \in 1 .. len : log.list[i] = m
        /\ \A i \in 1 .. len : IsShown(log, ts, i)
    BY DEF ShowsPast
  <1>2. \A m \in MIds(ts) : m \in Payloads(us) <=> m \in Payloads(ts)
    BY <1>0 DEF Payloads, ShouldIgnore
  <1>3. ASSUME NEW S, S \subseteq MIds(ts) PROVE Latest(us, S) = Latest(ts, S)
    <2>1. \A n, o \in S : n \notin Ancestors(us, o) <=> n \notin Ancestors(ts, o)
      BY <1>0, <1>3
    <2> QED
      BY <2>1 DEF Latest
  <1>4. ASSUME NEW m \in MIds(ts) PROVE Ancestors(us, m) \cap Payloads(us) = Ancestors(ts, m) \cap Payloads(ts)
    BY <1>0, <1>2
  <1>5. len \in Nat /\ \A i \in 1 .. len : log.list[i] \in MIds(ts)
    BY <1>1
  <1>6. CASE ShouldIgnore(us, id)
    <2>1. new = log
      BY <1>6 DEF LogAccepted
    <2>2. \A m \in Payloads(us) : m \in Payloads(ts)
      BY <1>0, <1>2, <1>6 DEF Payloads
    <2>3. ASSUME NEW i \in 1 .. len PROVE IsShown(log, us, i)
      <3>1. IsShown(log, ts, i) /\ log.list[i] \in MIds(ts)
        BY <1>1, <1>5
      <3>2. Ancestors(us, log.list[i]) \cap Payloads(us) = Ancestors(ts, log.list[i]) \cap Payloads(ts)
        BY <1>4, <3>1
      <3>3. Ancestors(ts, log.list[i]) \cap Payloads(ts) \subseteq MIds(ts)
        BY DEF Payloads
      <3> QED
        BY <1>0, <1>3, <3>1, <3>2, <3>3 DEF IsShown
    <2>4. log.list \in Seq(MIds(us))
      BY <1>0, <1>1
    <2> QED
      BY <1>1, <2>1, <2>2, <2>3, <2>4 DEF ShowsPast
  <1>7. CASE ~ ShouldIgnore(us, id)
    <2> DEFINE P == Parents(us, id)
               earlier == Ancestors(us, id) \cap Payloads(us)
    <2>0. /\ HasMessages(us, M) /\ IsGrounded(us) /\ IsOrdered(us) /\ HasContexts(us)
          /\ P \subseteq MIds(us) /\ id \in MIds(us)
      BY <1>0 DEF WellFormed, HasMessages, IsGrounded
    <2>1. Past(us, P) = Ancestors(us, id)
      <3>1. \A m \in MIds(us) : m \in Past(us, P) <=> m \in Ancestors(us, id)
        BY <2>0, AncestorsFacts DEF Past
      <3>2. Past(us, P) \subseteq MIds(us) /\ Ancestors(us, id) \subseteq MIds(us)
        BY <1>0 DEF Past
      <3> QED
        BY <3>1, <3>2
    <2>2. ResolveEarlier(us, P) = Latest(us, earlier)
      <3>1. \A p, q \in P : p \notin Ancestors(us, q)
        BY <2>0 DEF IsOrdered
      <3>2. ResolveEarlier(us, P) = Latest(us, Past(us, P) \cap Payloads(us))
        BY <2>0, <3>1, ResolvedFacts
      <3> QED
        BY <2>1, <3>2
    <2>3. ResolveInLog(log, us, P) = Latest(us, earlier)
      <3>1. log.transcriptParents = {}
        BY <1>1
      <3> HIDE DEF earlier
      <3> QED
        BY <2>2, <3>1 DEF ResolveInLog
    <2>4. PICK list : list = Append(log.list, id)
      OBVIOUS
    <2>5. PICK parents : parents = Put(log.parents, id, Latest(us, earlier))
      OBVIOUS
    <2>6. new = [log EXCEPT !.list = list, !.parents = parents]
      BY <1>7, <2>3, <2>4, <2>5 DEF LogAccepted
    <2>7. /\ new = [list |-> list, parents |-> parents, transcriptParents |-> {}]
          /\ new.list = list /\ new.parents = parents
      <3>1. PICK l, p, t : l = log.list /\ p = log.parents /\ t = {}
        OBVIOUS
      <3>2. log = [list |-> l, parents |-> p, transcriptParents |-> t]
        BY <1>1, <3>1
      <3>3. new = [list |-> list, parents |-> parents, transcriptParents |-> t]
        BY <2>6, <3>2
      <3> QED
        BY <3>1, <3>3
    <2>8. HasPut(parents, log.parents, id, Latest(us, earlier))
      BY <2>5, PutFacts
    <2>9. /\ list \in Seq(MIds(us)) /\ Len(list) = len + 1 /\ list[len + 1] = id
          /\ \A i \in 1 .. len : list[i] = log.list[i]
      <3>1. log.list \in Seq(MIds(us)) /\ id \in MIds(us)
        BY <1>0, <1>1
      <3> QED
        BY <2>4, <3>1
    <2>10. \A m \in Payloads(us) : \E i \in 1 .. Len(list) : list[i] = m
      <3> SUFFICES ASSUME NEW m \in Payloads(us) PROVE \E i \in 1 .. len + 1 : list[i] = m
        BY <2>9
      <3>1. CASE m = id
        BY <1>5, <2>9, <3>1
      <3>2. CASE m # id
        <4>1. m \in Payloads(ts)
          BY <1>0, <1>2, <3>2 DEF Payloads
        <4>2. PICK i \in 1 .. len : log.list[i] = m
          BY <1>1, <4>1
        <4>3. i \in 1 .. len + 1 /\ list[i] = m
          BY <1>5, <2>9, <4>2
        <4> QED
          BY <4>3
      <3> QED
        BY <3>1, <3>2
    <2>11. ASSUME NEW i \in 1 .. len PROVE IsShown(new, us, i)
      <3>1. IsShown(log, ts, i) /\ log.list[i] \in MIds(ts) /\ log.list[i] # id
        BY <1>0, <1>1, <1>5
      <3>2. Ancestors(us, log.list[i]) \cap Payloads(us) = Ancestors(ts, log.list[i]) \cap Payloads(ts)
        BY <1>4, <3>1
      <3>3. Ancestors(ts, log.list[i]) \cap Payloads(ts) \subseteq MIds(ts)
        BY DEF Payloads
      <3>4. /\ new.list[i] = log.list[i] /\ log.list[i] \in DOMAIN log.parents
            /\ \A j \in 1 .. i - 1 : new.list[j] = log.list[j]
        BY <1>5, <2>7, <2>9, <3>1 DEF IsShown
      <3>5. new.parents[log.list[i]] = log.parents[log.list[i]] /\ log.list[i] \in DOMAIN new.parents
        BY <2>7, <2>8, <3>1, <3>4 DEF HasPut
      <3>6. log.parents[log.list[i]] = Latest(us, Ancestors(us, log.list[i]) \cap Payloads(us))
        BY <1>3, <3>1, <3>2, <3>3 DEF IsShown
      <3>7. \A n \in Ancestors(us, log.list[i]) \cap Payloads(us) : \E j \in 1 .. i - 1 : log.list[j] = n
        BY <3>1, <3>2 DEF IsShown
      <3>8. \A n \in Ancestors(us, log.list[i]) \cap Payloads(us) : \E j \in 1 .. i - 1 : new.list[j] = n
        BY <3>4, <3>7
      <3> QED
        BY <1>0, <3>1, <3>4, <3>5, <3>6, <3>8 DEF IsShown
    <2>12. IsShown(new, us, len + 1)
      <3>1. new.list[len + 1] = id /\ id \in MIds(us)
        BY <1>0, <2>7, <2>9
      <3>2. id \in DOMAIN new.parents /\ new.parents[id] = Latest(us, earlier)
        BY <2>7, <2>8 DEF HasPut
      <3>3. ASSUME NEW n \in earlier PROVE \E j \in 1 .. len : new.list[j] = n
        <4>1. n \in Payloads(ts)
          BY <1>0, <1>2
        <4>2. PICK j \in 1 .. len : log.list[j] = n
          BY <1>1, <4>1
        <4> QED
          BY <2>7, <2>9, <4>2
      <3>4. (len + 1) - 1 = len
        BY <1>5
      <3> QED
        BY <3>1, <3>2, <3>3, <3>4 DEF IsShown
    <2>13. \A i \in 1 .. Len(new.list) : IsShown(new, us, i)
      <3> SUFFICES ASSUME NEW i \in 1 .. len + 1 PROVE IsShown(new, us, i)
        BY <2>7, <2>9
      <3>1. i \in 1 .. len \/ i = len + 1
        BY <1>5
      <3> QED
        BY <2>11, <2>12, <3>1
    <2> QED
      BY <2>7, <2>9, <2>10, <2>13 DEF ShowsPast
  <1> QED
    BY <1>6, <1>7

-----------------------------------------------------------------------------
(* Everything is before the maximal messages.                              *)
LEMMA MaximalCover ==
    ASSUME NEW ts, IsGrounded(ts), HasMaximal(ts)
    PROVE  /\ ts.maxMessages \subseteq MIds(ts)
           /\ Past(ts, ts.maxMessages) = MIds(ts)
           /\ \A p, q \in ts.maxMessages : p \notin Ancestors(ts, q)
  <1> DEFINE G == {m \in MIds(ts) : m \in Past(ts, ts.maxMessages)}
  <1>0. /\ IsLog(ts) /\ ts.maxMessages \subseteq MIds(ts)
        /\ \A m \in MIds(ts) : m \in ts.maxMessages <=> \A n \in MIds(ts) : m \notin Parents(ts, n)
    BY DEF IsGrounded, HasMaximal
  <1>1. ASSUME NEW m \in MIds(ts), \A n \in MIds(ts) : Before(ts, m, n) => n \in G
        PROVE  m \in G
    <2>1. CASE m \in ts.maxMessages
      BY <2>1 DEF Past
    <2>2. CASE m \notin ts.maxMessages
      <3>1. PICK n \in MIds(ts) : m \in Parents(ts, n)
        BY <1>0, <2>2
      <3>2. n \in Past(ts, ts.maxMessages) /\ m \in Ancestors(ts, n)
        BY <1>1, <3>1, AncestorsFacts DEF IsGrounded
      <3>3. PICK p \in ts.maxMessages : n = p \/ n \in Ancestors(ts, p)
        BY <3>2 DEF Past
      <3>4. m \in Ancestors(ts, p)
        BY <1>0, <3>2, <3>3, AncestorsTransitive
      <3> QED
        BY <3>4 DEF Past
    <2> QED
      BY <2>1, <2>2
  <1>2. MIds(ts) \subseteq G
    <2> HIDE DEF G
    <2> QED
      BY <1>0, <1>1, LogInductionDown
  <1>3. Past(ts, ts.maxMessages) \subseteq MIds(ts)
    BY DEF Past
  <1>4. ASSUME NEW p \in ts.maxMessages, NEW q \in ts.maxMessages, p \in Ancestors(ts, q) PROVE FALSE
    <2>1. \E r \in MIds(ts) : p \in Parents(ts, r)
      BY <1>0, <1>4, AncestorHasChild
    <2> QED
      BY <1>0, <2>1
  <1> QED
    BY <1>0, <1>2, <1>3, <1>4

(* A member's own message fits, and all that it has accepted is before it. *)
LEMMA OwnFits ==
    ASSUME NEW M, NEW c \in M, NEW s, IsSound(s, M), OwnNumbered(c, s.ts), NEW body,
           NEW msg, msg = OwnMessage(c, s, body)
    PROVE  /\ Fits(s.ts, M, msg)
           /\ msg.author = c /\ Past(s.ts, msg.parents) = MIds(s.ts)
           /\ msg.parents = s.ts.maxMessages
           /\ msg.mId = <<c, Cardinality(ByAuthor(s.ts, c)) + 1, 1>>
  <1>0. /\ s.members = M /\ s.sId = 1 /\ IsGrounded(s.ts) /\ HasMaximal(s.ts)
    BY DEF IsSound, WellFormed, HasMessages
  <1>1. PICK id, parents, readers :
           id = NextMId(c, s) /\ parents = s.ts.maxMessages /\ readers = M \ {c}
    OBVIOUS
  <1>2. msg = [mId |-> id, author |-> c, parents |-> parents, readers |-> readers, body |-> body]
    BY <1>0, <1>1 DEF OwnMessage
  <1>3. msg.mId = id /\ msg.author = c /\ msg.parents = parents /\ msg.readers = readers
    BY <1>2
  <1>4. Cardinality(ByAuthor(s.ts, c)) \in Nat
    BY FS_CardinalityType DEF OwnNumbered
  <1>5. PICK k \in Nat : k = Cardinality(ByAuthor(s.ts, c)) + 1
    BY <1>4
  <1>6. id = <<c, k, 1>>
    BY <1>0, <1>1, <1>5 DEF NextMId
  <1>7. id[1] = c /\ id # NoMsg
    BY <1>6 DEF NoMsg
  <1>8. id \notin MIds(s.ts)
    <2> SUFFICES ASSUME id \in MIds(s.ts) PROVE FALSE
      OBVIOUS
    <2>1. Author(s.ts, id) = c
      BY <1>7 DEF IsSound, WellFormed, HasMessages
    <2>2. id \in ByAuthor(s.ts, c)
      BY <2>1 DEF ByAuthor
    <2>3. PICK i \in 1 .. Cardinality(ByAuthor(s.ts, c)) : id = <<c, i, 1>>
      BY <2>2 DEF OwnNumbered
    <2>4. i = k
      BY <1>6, <2>3
    <2> QED
      BY <1>4, <1>5, <2>4
  <1>9. /\ parents \subseteq MIds(s.ts) /\ Past(s.ts, parents) = MIds(s.ts)
        /\ \A p, q \in parents : p \notin Ancestors(s.ts, q)
    BY <1>0, <1>1, MaximalCover
  <1>10. ByAuthor(s.ts, c) \subseteq MIds(s.ts)
    BY DEF ByAuthor
  <1>11. Fits(s.ts, M, msg)
    BY <1>1, <1>3, <1>7, <1>8, <1>9, <1>10 DEF Fits
  <1> QED
    BY <1>1, <1>3, <1>5, <1>6, <1>9, <1>11

(* What is known of a member's own messages, when it sends another one,    *)
(* and when it accepts one of somebody else's.                             *)
LEMMA OwnAfterSend ==
    ASSUME NEW M, NEW ts, WellFormed(ts, M), NEW msg, Fits(ts, M, msg), NEW us,
           HasAdded(us, ts, msg), AddKeeps(us, ts, msg), OwnNumbered(msg.author, ts),
           OwnAfterAll(msg.author, ts), Past(ts, msg.parents) = MIds(ts),
           msg.mId = <<msg.author, Cardinality(ByAuthor(ts, msg.author)) + 1, 1>>
    PROVE  OwnNumbered(msg.author, us) /\ OwnAfterAll(msg.author, us)
  <1>0. /\ MIds(us) = MIds(ts) \cup {msg.mId} /\ msg.mId \notin MIds(ts)
        /\ \A m \in MIds(ts) : Ancestors(us, m) = Ancestors(ts, m)
        /\ \A n, m \in MIds(ts) : Before(us, n, m) <=> Before(ts, n, m)
        /\ \A m \in MIds(ts) : Before(us, m, msg.mId)
        /\ Ancestors(us, msg.mId) = Past(ts, msg.parents)
        /\ ByAuthor(us, msg.author) = ByAuthor(ts, msg.author) \cup {msg.mId}
    BY AddedFacts
  <1>a. IsLog(us)
    BY AddedLog DEF Fits, WellFormed, HasMessages, IsGrounded
  <1>1. PICK k : k = Cardinality(ByAuthor(ts, msg.author))
    OBVIOUS
  <1>2. k \in Nat /\ IsFiniteSet(ByAuthor(ts, msg.author))
    BY <1>1, FS_CardinalityType DEF OwnNumbered
  <1>3. msg.mId \notin ByAuthor(ts, msg.author)
    BY <1>0 DEF ByAuthor
  <1>4. IsFiniteSet(ByAuthor(us, msg.author)) /\ Cardinality(ByAuthor(us, msg.author)) = k + 1
    BY <1>0, <1>1, <1>2, <1>3, FS_AddElement
  <1>5. ASSUME NEW m \in ByAuthor(us, msg.author)
        PROVE  \E i \in 1 .. k + 1 : m = <<msg.author, i, 1>>
    <2>1. CASE m = msg.mId
      BY <1>1, <1>2, <2>1
    <2>2. CASE m \in ByAuthor(ts, msg.author)
      <3>1. PICK i \in 1 .. k : m = <<msg.author, i, 1>>
        BY <1>1, <2>2 DEF OwnNumbered
      <3>2. i \in 1 .. k + 1
        BY <1>2
      <3> QED
        BY <3>1, <3>2
    <2> QED
      BY <1>0, <2>1, <2>2
  <1>6. ASSUME NEW m \in ByAuthor(us, msg.author), NEW n \in MIds(us), Before(us, n, m)
        PROVE  n \in Ancestors(us, m)
    <2>1. n # msg.mId
      <3>1. m \in MIds(us) /\ msg.mId \in MIds(us)
        BY <1>0 DEF ByAuthor
      <3> QED
        BY <1>0, <1>a, <1>6, <3>1, BeforeFacts
    <2>2. CASE m = msg.mId
      BY <1>0, <2>1, <2>2
    <2>3. CASE m \in ByAuthor(ts, msg.author)
      <3>1. m \in MIds(ts) /\ n \in MIds(ts)
        BY <1>0, <2>1, <2>3 DEF ByAuthor
      <3> QED
        BY <1>0, <1>6, <2>3, <3>1 DEF OwnAfterAll
    <2> QED
      BY <1>0, <2>2, <2>3
  <1> QED
    BY <1>4, <1>5, <1>6 DEF OwnNumbered, OwnAfterAll

(* A message of somebody else leaves a member's own messages as they are.  *)
LEMMA OwnAfterReceive ==
    ASSUME NEW M, NEW ts, WellFormed(ts, M), NEW msg, Fits(ts, M, msg), NEW us,
           HasAdded(us, ts, msg), AddKeeps(us, ts, msg), NEW c, c # msg.author,
           OwnNumbered(c, ts), OwnAfterAll(c, ts)
    PROVE  OwnNumbered(c, us) /\ OwnAfterAll(c, us)
  <1>0. /\ MIds(us) = MIds(ts) \cup {msg.mId} /\ msg.mId \notin MIds(ts)
        /\ \A m \in MIds(ts) : Ancestors(us, m) = Ancestors(ts, m)
        /\ \A n, m \in MIds(ts) : Before(us, n, m) <=> Before(ts, n, m)
        /\ \A m \in MIds(ts) : Before(us, m, msg.mId)
        /\ ByAuthor(us, c) = ByAuthor(ts, c)
    BY AddedFacts
  <1>a. IsLog(us)
    BY AddedLog DEF Fits, WellFormed, HasMessages, IsGrounded
  <1>1. ASSUME NEW m \in ByAuthor(us, c), NEW n \in MIds(us), Before(us, n, m)
        PROVE  n \in Ancestors(us, m)
    <2>1. m \in ByAuthor(ts, c) /\ m \in MIds(ts) /\ m \in MIds(us) /\ msg.mId \in MIds(us)
      BY <1>0 DEF ByAuthor
    <2>2. n # msg.mId
      BY <1>0, <1>a, <1>1, <2>1, BeforeFacts
    <2> QED
      BY <1>0, <1>1, <2>1, <2>2 DEF OwnAfterAll
  <1> QED
    BY <1>0, <1>1 DEF OwnNumbered, OwnAfterAll

-----------------------------------------------------------------------------
(* Several members' transcripts.                                           *)
AreTranscripts(S, M) == DOMAIN S = M /\ Agree(S) /\ \A d \in M : WellFormed(S[d].ts, M)

(* In a group the members' transcripts are well formed and agree.          *)
LEMMA GroupTranscripts ==
    ASSUME NEW S, NEW M, IsGroup(S, M)
    PROVE  AreTranscripts(S, M)
  BY DEF IsGroup, IsMember, IsSound, AreTranscripts

(* Two members that have a message have it with the same ancestors.        *)
LEMMA SameAncestors ==
    ASSUME NEW S, NEW M, AreTranscripts(S, M), NEW c \in M, NEW d \in M,
           NEW m \in MIds(S[c].ts), m \in MIds(S[d].ts)
    PROVE  /\ S[c].ts.messages[m] = S[d].ts.messages[m]
           /\ Ancestors(S[c].ts, m) = Ancestors(S[d].ts, m)
           /\ Ancestors(S[c].ts, m) \subseteq MIds(S[d].ts)
  <1> DEFINE ts == S[c].ts
             us == S[d].ts
             D == MIds(ts) \cap MIds(us)
  <1>0. IsGrounded(ts) /\ IsGrounded(us)
    BY DEF AreTranscripts, WellFormed, HasMessages
  <1>1. \A n \in D : ts.messages[n] = us.messages[n]
    BY DEF AreTranscripts, Agree
  <1>2. \A n \in D : Parents(ts, n) = Parents(us, n)
    BY <1>1 DEF Parents
  <1>3. \A n \in D : Parents(ts, n) \subseteq D
    BY <1>0, <1>2 DEF IsGrounded
  <1>4. D \subseteq MIds(ts) /\ D \subseteq MIds(us) /\ m \in D
    OBVIOUS
  <1>5. Ancestors(ts, m) = Ancestors(us, m)
    <2> HIDE DEF D, ts, us
    <2> QED
      BY <1>0, <1>2, <1>3, <1>4, AncestorsSame
  <1>6. Ancestors(us, m) \subseteq MIds(us)
    BY <1>0, AncestorsBefore
  <1> QED
    BY <1>1, <1>5, <1>6

(* What was sent to a member.                                              *)
LEMMA SentFacts ==
    ASSUME NEW S, NEW M, AreTranscripts(S, M), NEW c \in M, NEW msg \in Sent(S, c)
    PROVE  /\ msg.author \in M /\ msg.author # c /\ msg.author = msg.mId[1]
           /\ msg.mId \in MIds(S[msg.author].ts)
           /\ msg.mId # NoMsg
           /\ msg.readers = M \ {msg.author}
           /\ S[msg.author].ts.messages[msg.mId] = msg
           /\ msg.parents \subseteq MIds(S[msg.author].ts)
  <1>1. PICK d, m : d \in M /\ m \in ByAuthor(S[d].ts, d) /\ d # c /\ msg = S[d].ts.messages[m]
    BY DEF Sent, AreTranscripts
  <1>2. m \in MIds(S[d].ts) /\ Author(S[d].ts, m) = d
    BY <1>1 DEF ByAuthor
  <1>3. WellFormed(S[d].ts, M)
    BY <1>1 DEF AreTranscripts
  <1>4. /\ msg.mId = m /\ m[1] = d /\ m # NoMsg /\ Readers(S[d].ts, m) = M \ {d}
        /\ Parents(S[d].ts, m) \subseteq MIds(S[d].ts)
    BY <1>1, <1>2, <1>3 DEF WellFormed, HasMessages, IsGrounded
  <1>5. msg.author = d /\ msg.readers = M \ {d} /\ msg.parents \subseteq MIds(S[d].ts)
    BY <1>1, <1>2, <1>4 DEF Author, Readers, Parents
  <1> QED
    BY <1>1, <1>2, <1>4, <1>5

(* A message from another member fits once its parents are known.          *)
LEMMA ReceivedFits ==
    ASSUME NEW S, NEW M, AreTranscripts(S, M), NEW c \in M, NEW msg \in Sent(S, c),
           msg.mId \notin MIds(S[c].ts), msg.parents \subseteq MIds(S[c].ts)
    PROVE  Fits(S[c].ts, M, msg)
  <1> DEFINE a == msg.author
             id == msg.mId
             ts == S[c].ts
             us == S[a].ts
  <1>0. /\ a \in M /\ a # c /\ a = id[1] /\ id \in MIds(us) /\ id # NoMsg
        /\ msg.readers = M \ {a} /\ us.messages[id] = msg
    BY SentFacts
  <1>1. WellFormed(ts, M) /\ WellFormed(us, M) /\ IsGrounded(ts) /\ IsGrounded(us) /\ IsLog(us)
        /\ IsOrdered(us) /\ HasMessages(ts, M) /\ HasMessages(us, M)
    BY <1>0 DEF AreTranscripts, WellFormed, HasMessages, IsGrounded
  <1>2. Parents(us, id) = msg.parents /\ Author(us, id) = a /\ msg.parents \subseteq MIds(us)
    BY <1>0, <1>1 DEF Parents, Author, IsGrounded
  <1>3. ASSUME NEW m \in MIds(ts), m \in MIds(us)
        PROVE  Ancestors(ts, m) = Ancestors(us, m) /\ Ancestors(ts, m) \subseteq MIds(ts)
    BY <1>0, <1>1, <1>3, SameAncestors, AncestorsBefore
  <1>4. ASSUME NEW p \in msg.parents, NEW q \in msg.parents PROVE p \notin Ancestors(ts, q)
    <2>1. Ancestors(ts, q) = Ancestors(us, q)
      BY <1>2, <1>3
    <2> QED
      BY <1>0, <1>1, <1>2, <2>1 DEF IsOrdered
  <1>5. ASSUME NEW n \in ByAuthor(ts, a) PROVE n \in Past(ts, msg.parents)
    <2>1. n \in MIds(ts) /\ Author(ts, n) = a /\ n[1] = a
      BY <1>1 DEF ByAuthor, HasMessages
    <2>2. n \in MIds(us)
      BY <2>1 DEF AreTranscripts, Agree
    <2>3. Author(us, n) = a
      BY <1>1, <2>1, <2>2 DEF HasMessages
    <2>4. n # id
      BY <2>1
    <2>5. ~ Before(us, id, n)
      <3> SUFFICES ASSUME Before(us, id, n) PROVE FALSE
        OBVIOUS
      <3>1. id \in Ancestors(us, n)
        BY <1>0, <1>1, <1>2, <2>2, <2>3 DEF IsOrdered
      <3>2. id \in MIds(ts)
        BY <1>3, <2>1, <2>2, <3>1
      <3> QED
        BY <3>2
    <2>6. Before(us, n, id)
      BY <1>0, <1>1, <2>2, <2>4, <2>5, BeforeFacts
    <2>7. n \in Ancestors(us, id)
      BY <1>0, <1>1, <1>2, <2>2, <2>3, <2>6 DEF IsOrdered
    <2>8. n \in msg.parents \/ \E p \in msg.parents : n \in Ancestors(us, p)
      BY <1>0, <1>1, <1>2, <2>7, AncestorsFacts
    <2>9. n \in msg.parents \/ \E p \in msg.parents : n \in Ancestors(ts, p)
      BY <1>2, <1>3, <2>8
    <2> QED
      BY <2>1, <2>9 DEF Past
  <1> QED
    BY <1>0, <1>4, <1>5 DEF Fits

-----------------------------------------------------------------------------
(* One member's session changes.                                           *)
HasReplaced(Z, S, M, c, r) == DOMAIN Z = M /\ Z[c] = r /\ \A d \in M : d # c => Z[d] = S[d]
Extends(us, ts) ==
    MIds(ts) \subseteq MIds(us) /\ \A m \in MIds(ts) : us.messages[m] = ts.messages[m]

(* What was sent stays sent, and what others sent to this member is as     *)
(* before.                                                                 *)
LEMMA SentGrows ==
    ASSUME NEW S, NEW M, AreTranscripts(S, M), NEW c \in M, NEW r, WellFormed(r.ts, M),
           Extends(r.ts, S[c].ts), NEW Z, HasReplaced(Z, S, M, c, r)
    PROVE  /\ Sent(Z, c) = Sent(S, c)
           /\ \A d \in M : Sent(S, d) \subseteq Sent(Z, d)
  <1>0. DOMAIN S = M /\ \A d \in M : WellFormed(S[d].ts, M)
    BY DEF AreTranscripts
  <1>1. DOMAIN Z = M /\ Z[c] = r /\ \A d \in M : d # c => Z[d] = S[d]
    BY DEF HasReplaced
  <1>2. ASSUME NEW d \in M, NEW x PROVE x \in Sent(S, d) => x \in Sent(Z, d)
    <2> SUFFICES ASSUME x \in Sent(S, d) PROVE x \in Sent(Z, d)
      OBVIOUS
    <2>1. PICK e, m : e \in M /\ m \in ByAuthor(S[e].ts, e) /\ e # d /\ x = S[e].ts.messages[m]
      BY <1>0 DEF Sent
    <2>2. CASE e # c
      BY <1>1, <2>1, <2>2 DEF Sent
    <2>3. CASE e = c
      <3>1. m \in MIds(S[e].ts) /\ m \in MIds(r.ts) /\ r.ts.messages[m] = S[e].ts.messages[m]
        BY <2>1, <2>3 DEF Extends, ByAuthor
      <3>2. Author(r.ts, m) = Author(S[e].ts, m)
        BY <3>1 DEF Author
      <3>3. m \in ByAuthor(r.ts, e)
        BY <2>1, <3>1, <3>2 DEF ByAuthor
      <3>4. m \in ByAuthor(Z[e].ts, e) /\ x = Z[e].ts.messages[m]
        BY <1>1, <2>1, <2>3, <3>1, <3>3
      <3> QED
        BY <1>1, <2>1, <3>4 DEF Sent
    <2> QED
      BY <2>2, <2>3
  <1>3. ASSUME NEW x PROVE x \in Sent(Z, c) => x \in Sent(S, c)
    <2> SUFFICES ASSUME x \in Sent(Z, c) PROVE x \in Sent(S, c)
      OBVIOUS
    <2>1. PICK e, m : e \in M /\ m \in ByAuthor(Z[e].ts, e) /\ e # c /\ x = Z[e].ts.messages[m]
      BY <1>1 DEF Sent
    <2> QED
      BY <1>0, <1>1, <2>1 DEF Sent
  <1> QED
    BY <1>1, <1>2, <1>3

(* The transcripts agree after a message of its own, or one that was sent  *)
(* to it.                                                                  *)
LEMMA AgreeKept ==
    ASSUME NEW S, NEW M, AreTranscripts(S, M), NEW c \in M, NEW r, WellFormed(r.ts, M),
           NEW msg, HasAdded(r.ts, S[c].ts, msg), AddKeeps(r.ts, S[c].ts, msg),
           msg.mId[1] = c \/ msg \in Sent(S, c), NEW Z, HasReplaced(Z, S, M, c, r)
    PROVE  Agree(Z) /\ Extends(r.ts, S[c].ts)
  <1>0. DOMAIN S = M /\ Agree(S) /\ \A d \in M : WellFormed(S[d].ts, M)
    BY DEF AreTranscripts
  <1>1. DOMAIN Z = M /\ Z[c] = r /\ \A d \in M : d # c => Z[d] = S[d]
    BY DEF HasReplaced
  <1>2. /\ MIds(r.ts) = MIds(S[c].ts) \cup {msg.mId} /\ r.ts.messages[msg.mId] = msg
        /\ \A m \in MIds(S[c].ts) : r.ts.messages[m] = S[c].ts.messages[m]
    BY DEF HasAdded, AddKeeps
  <1>3. Extends(r.ts, S[c].ts)
    BY <1>2 DEF Extends
  <1>4. ASSUME NEW d \in M, NEW m \in MIds(S[d].ts)
        PROVE  /\ m[1] \in M /\ m \in MIds(S[m[1]].ts) /\ S[m[1]].ts.messages[m] = S[d].ts.messages[m]
               /\ m \in MIds(Z[m[1]].ts) /\ Z[m[1]].ts.messages[m] = S[d].ts.messages[m]
    <2>1. m[1] \in M
      BY <1>0 DEF WellFormed, HasMessages
    <2>2. m \in MIds(S[m[1]].ts) /\ S[m[1]].ts.messages[m] = S[d].ts.messages[m]
      BY <1>0 DEF Agree
    <2>3. m \in MIds(Z[m[1]].ts) /\ Z[m[1]].ts.messages[m] = S[m[1]].ts.messages[m]
      BY <1>1, <1>2, <2>1, <2>2
    <2> QED
      BY <2>1, <2>2, <2>3
  <1>5. ASSUME NEW d \in M, NEW m \in MIds(Z[d].ts)
        PROVE  m \in MIds(Z[m[1]].ts) /\ Z[m[1]].ts.messages[m] = Z[d].ts.messages[m]
    <2>1. CASE d # c
      BY <1>1, <1>4, <2>1
    <2>2. CASE d = c /\ m \in MIds(S[c].ts)
      BY <1>1, <1>2, <1>4, <2>2
    <2>3. CASE d = c /\ m = msg.mId
      <3>1. CASE msg.mId[1] = c
        BY <1>1, <2>3, <3>1
      <3>2. CASE msg \in Sent(S, c)
        <4>1. /\ msg.author \in M /\ msg.author # c /\ msg.author = msg.mId[1]
              /\ msg.mId \in MIds(S[msg.author].ts) /\ S[msg.author].ts.messages[msg.mId] = msg
          BY <3>2, SentFacts
        <4> QED
          BY <1>1, <1>2, <2>3, <4>1
      <3> QED
        BY <3>1, <3>2
    <2> QED
      BY <1>1, <1>2, <2>1, <2>2, <2>3
  <1> QED
    BY <1>1, <1>3, <1>5 DEF Agree

(* It is still a group, when its session is as it should be and its        *)
(* transcript has grown.                                                   *)
LEMMA GroupKept ==
    ASSUME NEW S, NEW M, IsGroup(S, M), NEW c \in M, NEW r, IsMember(c, r, M, Sent(S, c)),
           Extends(r.ts, S[c].ts), NEW Z, HasReplaced(Z, S, M, c, r), Agree(Z)
    PROVE  IsGroup(Z, M) /\ Sent(Z, c) = Sent(S, c)
  <1>0. AreTranscripts(S, M) /\ WellFormed(r.ts, M)
    BY GroupTranscripts DEF IsMember, IsSound
  <1>1. /\ DOMAIN Z = M /\ Z[c] = r /\ \A d \in M : d # c => Z[d] = S[d]
    BY DEF HasReplaced
  <1>a. Sent(Z, c) = Sent(S, c) /\ \A d \in M : Sent(S, d) \subseteq Sent(Z, d)
    BY <1>0, SentGrows
  <1>2. ASSUME NEW d \in M PROVE IsMember(d, Z[d], M, Sent(Z, d))
    <2>1. CASE d = c
      BY <1>1, <1>a, <2>1
    <2>2. CASE d # c
      <3>1. IsMember(d, S[d], M, Sent(S, d)) /\ Z[d] = S[d]
        BY <1>1, <2>2 DEF IsGroup
      <3>2. IsBuffer(S[d].tryAccept, S[d].ts, Sent(Z, d))
        <4>1. PICK A, B : A = Sent(S, d) /\ B = Sent(Z, d)
          OBVIOUS
        <4>a. \A x \in A : x \in B
          BY <1>a, <4>1
        <4>2. S[d].tryAccept \in Seq(Sent(S, d))
          BY <3>1 DEF IsMember, IsBuffer
        <4>3. S[d].tryAccept \in Seq(Sent(Z, d))
          <5>1. PICK q : q = S[d].tryAccept
            OBVIOUS
          <5>2. q \in Seq(A)
            BY <4>1, <4>2, <5>1
          <5>3. q \in Seq(B)
            BY <4>a, <5>2
          <5> QED
            BY <4>1, <5>1, <5>3
        <4> QED
          BY <3>1, <4>3 DEF IsMember, IsBuffer
      <3> QED
        BY <3>1, <3>2 DEF IsMember
    <2> QED
      BY <2>1, <2>2
  <1> QED
    BY <1>1, <1>a, <1>2 DEF IsGroup

-----------------------------------------------------------------------------
(* A member sends a message.                                               *)
HasSent(r, s, c) ==
    \E id : /\ id = <<c, Cardinality(ByAuthor(s.ts, c)) + 1, 1>>
            /\ r.ts.log = Append(s.ts.log, id)
            /\ r.ts.maxMessages = {id}
            /\ id \in ByAuthor(r.ts, c)
            /\ \A m \in MIds(s.ts) : m \in Ancestors(r.ts, id)

(* Sending accepts the message at once, and nothing that waits could be    *)
(* accepted by it.                                                         *)
LEMMA SendFacts ==
    ASSUME NEW S, NEW M, IsGroup(S, M), NEW c \in M, NEW body,
           NEW r, r = TryAdd(c, S[c], OwnMessage(c, S[c], body)), NEW Z, HasReplaced(Z, S, M, c, r)
    PROVE  /\ IsGroup(Z, M) /\ HasSent(r, S[c], c) /\ KeepsRest(r, S[c]) /\ Extends(r.ts, S[c].ts)
           /\ NoneReady(S[c]) => NoneReady(r)
  <1>0. PICK s : s = S[c]
    OBVIOUS
  <1>1. /\ AreTranscripts(S, M) /\ IsSound(s, M) /\ OwnNumbered(c, s.ts) /\ OwnAfterAll(c, s.ts)
        /\ ShowsPast(s.messages, s.ts) /\ IsBuffer(s.tryAccept, s.ts, Sent(S, c))
        /\ TimeoutsMatch(c, s) /\ WellFormed(s.ts, M)
    BY <1>0, GroupTranscripts DEF IsGroup, IsMember, IsSound
  <1>2. PICK msg : msg = OwnMessage(c, s, body)
    OBVIOUS
  <1>3. /\ Fits(s.ts, M, msg) /\ msg.author = c /\ Past(s.ts, msg.parents) = MIds(s.ts)
        /\ msg.parents = s.ts.maxMessages
        /\ msg.mId = <<c, Cardinality(ByAuthor(s.ts, c)) + 1, 1>>
    BY <1>1, <1>2, OwnFits
  <1>4. /\ HasAccepted(r, s, msg) /\ IsSound(r, M)
        /\ HasAdded(r.ts, s.ts, msg) /\ AddKeeps(r.ts, s.ts, msg)
    BY <1>0, <1>1, <1>2, <1>3, TryAddFacts
  <1>5. /\ MIds(r.ts) = MIds(s.ts) \cup {msg.mId} /\ msg.mId \notin MIds(s.ts)
        /\ Ancestors(r.ts, msg.mId) = Past(s.ts, msg.parents)
        /\ Author(r.ts, msg.mId) = msg.author
    BY <1>1, <1>3, <1>4, AddedFacts
  <1>6. OwnNumbered(c, r.ts) /\ OwnAfterAll(c, r.ts)
    <2>1. OwnNumbered(msg.author, s.ts) /\ OwnAfterAll(msg.author, s.ts)
          /\ msg.mId = <<msg.author, Cardinality(ByAuthor(s.ts, msg.author)) + 1, 1>>
      BY <1>1, <1>3
    <2>2. OwnNumbered(msg.author, r.ts) /\ OwnAfterAll(msg.author, r.ts)
      BY <1>1, <1>3, <1>4, <2>1, OwnAfterSend
    <2> QED
      BY <1>3, <2>2
  <1>7. WellFormed(r.ts, M)
    BY <1>4 DEF IsSound
  <1>8. ShowsPast(r.messages, r.ts)
    <2>1. r.messages = LogAccepted(s.messages, r.ts, msg.mId)
      BY <1>4 DEF HasAccepted
    <2> QED
      BY <1>1, <1>3, <1>4, <1>7, <2>1, LogAcceptedShows
  <1>9. msg.mId[1] = c
    BY <1>3
  <1>10. r.tryAccept = s.tryAccept /\ r.timeouts = s.timeouts /\ KeepsRest(r, s)
    BY <1>4 DEF HasAccepted, KeepsBuffer
  <1>11. ASSUME NEW i \in 1 .. Len(s.tryAccept)
         PROVE  /\ s.tryAccept[i].mId # msg.mId
                /\ msg.mId \notin s.tryAccept[i].parents
    <2>1. PICK x : x = s.tryAccept[i]
      OBVIOUS
    <2>2. x \in Sent(S, c)
      <3>1. PICK q, B : q = s.tryAccept /\ B = Sent(S, c)
        OBVIOUS
      <3>2. q \in Seq(B) /\ i \in 1 .. Len(q)
        BY <1>1, <3>1 DEF IsBuffer
      <3>3. q[i] \in B
        BY <3>2
      <3> QED
        BY <2>1, <3>1, <3>3
    <2>3. /\ x.author # c /\ x.author = x.mId[1] /\ x.author \in M
          /\ x.parents \subseteq MIds(S[x.author].ts)
      BY <1>1, <2>2, SentFacts
    <2>4. x.mId # msg.mId
      BY <1>9, <2>3
    <2>5. ASSUME msg.mId \in x.parents PROVE FALSE
      <3>1. msg.mId \in MIds(S[c].ts)
        BY <1>1, <1>9, <2>3, <2>5 DEF AreTranscripts, Agree
      <3> QED
        BY <1>0, <1>5, <3>1
    <2> QED
      BY <2>1, <2>4, <2>5
  <1>12. IsBuffer(r.tryAccept, r.ts, Sent(S, c))
    BY <1>1, <1>5, <1>10, <1>11 DEF IsBuffer
  <1>13. TimeoutsMatch(c, r)
    BY <1>1, <1>5, <1>9, <1>10 DEF TimeoutsMatch
  <1>14. IsMember(c, r, M, Sent(S, c))
    BY <1>4, <1>6, <1>8, <1>12, <1>13 DEF IsMember
  <1>15. Agree(Z) /\ Extends(r.ts, S[c].ts)
    <2>1. HasAdded(r.ts, S[c].ts, msg) /\ AddKeeps(r.ts, S[c].ts, msg)
      BY <1>0, <1>4
    <2> QED
      BY <1>1, <1>7, <1>9, <2>1, AgreeKept
  <1>16. IsGroup(Z, M)
    BY <1>14, <1>15, GroupKept
  <1>17. HasSent(r, s, c)
    <2>1. r.ts.log = Append(s.ts.log, msg.mId) /\ r.ts.maxMessages = (s.ts.maxMessages \cup {msg.mId}) \ msg.parents
      BY <1>4 DEF HasAdded
    <2>2. msg.mId \notin msg.parents
      BY <1>3, <1>5 DEF Fits
    <2>3. r.ts.maxMessages = {msg.mId}
      BY <1>3, <2>1, <2>2
    <2>4. msg.mId \in ByAuthor(r.ts, c)
      BY <1>3, <1>5 DEF ByAuthor
    <2> QED
      BY <1>3, <1>5, <2>1, <2>3, <2>4 DEF HasSent
  <1>18. ASSUME NoneReady(s) PROVE NoneReady(r)
    BY <1>5, <1>10, <1>11, <1>18 DEF NoneReady, IsReady, ParentsKnown
  <1> QED
    BY <1>0, <1>10, <1>15, <1>16, <1>17, <1>18

-----------------------------------------------------------------------------
(* The buffer.                                                             *)
HasRemoved(r, q, k, B) ==
    /\ r \in Seq(B) /\ Len(r) = Len(q) - 1
    /\ \A i \in 1 .. Len(r) : r[i] = IF i < k THEN q[i] ELSE q[i + 1]

(* What RemoveAt leaves.                                                   *)
LEMMA RemoveAtFacts ==
    ASSUME NEW B, NEW q \in Seq(B), NEW k \in 1 .. Len(q), NEW r, r = RemoveAt(q, k)
    PROVE  HasRemoved(r, q, k, B)
  <1>1. PICK x, y : x = SubSeq(q, 1, k - 1) /\ y = SubSeq(q, k + 1, Len(q))
    OBVIOUS
  <1>2. x \in Seq(B) /\ Len(x) = k - 1 /\ \A i \in 1 .. k - 1 : x[i] = q[i]
    BY <1>1
  <1>3. y \in Seq(B) /\ Len(y) = Len(q) - k /\ \A i \in 1 .. Len(q) - k : y[i] = q[i + k]
    BY <1>1
  <1>4. r = x \o y
    BY <1>1 DEF RemoveAt
  <1>5. r \in Seq(B) /\ Len(r) = Len(q) - 1
    BY <1>2, <1>3, <1>4
  <1>6. ASSUME NEW i \in 1 .. Len(r) PROVE r[i] = IF i < k THEN q[i] ELSE q[i + 1]
    <2>1. CASE i < k
      BY <1>2, <1>3, <1>4, <1>5, <2>1
    <2>2. CASE ~ (i < k)
      <3>1. r[i] = y[i - (k - 1)] /\ i - (k - 1) \in 1 .. Len(q) - k
        BY <1>2, <1>3, <1>4, <1>5, <2>2
      <3>2. y[i - (k - 1)] = q[i + 1]
        BY <1>3, <3>1
      <3> QED
        BY <2>2, <3>1, <3>2
    <2> QED
      BY <2>1, <2>2
  <1> QED
    BY <1>5, <1>6 DEF HasRemoved

LacksId(u, m) == \A i \in 1 .. Len(u) : u[i].mId # m
ComesFrom(u, q) == \A i \in 1 .. Len(u) : \E j \in 1 .. Len(q) : u[i] = q[j]

(* What is taken out of the buffer is no longer there; nothing is added.   *)
LEMMA UnstashFacts ==
    ASSUME NEW s, NEW ts, NEW B, IsBuffer(s.tryAccept, ts, B), NEW m, NEW u, u = Unstash(s, m)
    PROVE  /\ IsBuffer(u, ts, B)
           /\ LacksId(u, m) /\ ComesFrom(u, s.tryAccept)
           /\ Len(u) <= Len(s.tryAccept)
           /\ IsStashed(s, m) => Len(u) < Len(s.tryAccept)
  <1>1. PICK q : q = s.tryAccept
    OBVIOUS
  <1>2. /\ q \in Seq(B) /\ Len(q) \in Nat /\ DOMAIN q = 1 .. Len(q)
        /\ \A i, j \in 1 .. Len(q) : q[i].mId = q[j].mId => i = j
        /\ \A i \in 1 .. Len(q) : q[i].mId \notin MIds(ts)
    BY <1>1 DEF IsBuffer
  <1>3. CASE ~ IsStashed(s, m)
    <2>1. u = q
      BY <1>1, <1>3 DEF Unstash
    <2>2. \A i \in 1 .. Len(q) : q[i].mId # m
      BY <1>1, <1>2, <1>3 DEF IsStashed
    <2>3. IsBuffer(u, ts, B)
      BY <1>1, <2>1
    <2> QED
      BY <1>1, <1>2, <1>3, <2>1, <2>2, <2>3 DEF LacksId, ComesFrom
  <1>4. CASE IsStashed(s, m)
    <2>1. PICK k \in 1 .. Len(q) : q[k].mId = m /\ u = RemoveAt(q, k)
      <3>1. \E k \in DOMAIN q : q[k].mId = m
        BY <1>1, <1>4 DEF IsStashed
      <3>2. u = RemoveAt(q, CHOOSE k \in DOMAIN q : q[k].mId = m)
        BY <1>1, <1>4 DEF Unstash
      <3> QED
        BY <1>2, <3>1, <3>2
    <2>2. /\ u \in Seq(B) /\ Len(u) = Len(q) - 1
          /\ \A i \in 1 .. Len(u) : u[i] = IF i < k THEN q[i] ELSE q[i + 1]
      <3>1. q \in Seq(B)
        BY <1>2
      <3>2. HasRemoved(u, q, k, B)
        BY <2>1, <3>1, RemoveAtFacts
      <3> QED
        BY <3>2 DEF HasRemoved
    <2>3. PICK len \in Nat : len = Len(u)
      BY <2>2
    <2>4. \A i \in 1 .. len : i \in 1 .. Len(q) /\ i + 1 \in 1 .. Len(q)
      BY <1>2, <2>2, <2>3
    <2>5. ASSUME NEW i \in 1 .. len
          PROVE  \E j \in 1 .. Len(q) : u[i] = q[j] /\ j = (IF i < k THEN i ELSE i + 1)
      BY <2>2, <2>3, <2>4
    <2>6. \A i \in 1 .. len : u[i].mId # m
      <3> SUFFICES ASSUME NEW i \in 1 .. len, u[i].mId = m PROVE FALSE
        OBVIOUS
      <3>1. PICK j \in 1 .. Len(q) : u[i] = q[j] /\ j = (IF i < k THEN i ELSE i + 1)
        BY <2>5
      <3>2. j = k
        BY <1>2, <2>1, <3>1
      <3> QED
        BY <3>1, <3>2
    <2>7. \A i, j \in 1 .. len : u[i].mId = u[j].mId => i = j
      <3> SUFFICES ASSUME NEW i \in 1 .. len, NEW j \in 1 .. len, u[i].mId = u[j].mId PROVE i = j
        OBVIOUS
      <3>1. PICK a \in 1 .. Len(q) : u[i] = q[a] /\ a = (IF i < k THEN i ELSE i + 1)
        BY <2>5
      <3>2. PICK b \in 1 .. Len(q) : u[j] = q[b] /\ b = (IF j < k THEN j ELSE j + 1)
        BY <2>5
      <3>3. a = b
        BY <1>2, <3>1, <3>2
      <3> QED
        BY <3>1, <3>2, <3>3
    <2>8. \A i \in 1 .. len : u[i].mId \notin MIds(ts)
      BY <1>2, <2>5
    <2>9. IsBuffer(u, ts, B)
      BY <2>2, <2>3, <2>7, <2>8 DEF IsBuffer
    <2>10. \A i \in 1 .. len : \E j \in 1 .. Len(q) : u[i] = q[j]
      BY <2>5
    <2> QED
      BY <1>1, <1>2, <2>2, <2>3, <2>6, <2>9, <2>10 DEF LacksId, ComesFrom
  <1> QED
    BY <1>3, <1>4

-----------------------------------------------------------------------------
(* A member accepts messages of others, one after the other.               *)
LogGrows(c, new, old) ==
    /\ Len(old) \in Nat /\ Len(new) \in Nat /\ Len(old) <= Len(new)
    /\ \A i \in 1 .. Len(old) : new[i] = old[i]
    /\ \A i \in Len(old) + 1 .. Len(new) : new[i][1] # c
BufferShrinks(new, old) == Len(new) \in Nat /\ Len(old) \in Nat /\ Len(new) <= Len(old)
Accepts(c, r, s) ==
    /\ KeepsRest(r, s) /\ Extends(r.ts, s.ts)
    /\ LogGrows(c, r.ts.log, s.ts.log) /\ BufferShrinks(r.tryAccept, s.tryAccept)

(* Accepting some messages and then others.                                *)
LEMMA AcceptsTransitive ==
    ASSUME NEW c, NEW s, NEW r, NEW t, Accepts(c, r, s), Accepts(c, t, r)
    PROVE  Accepts(c, t, s)
  <1>1. KeepsRest(t, s)
    BY DEF Accepts, KeepsRest
  <1>2. Extends(t.ts, s.ts)
    BY DEF Accepts, Extends
  <1>3. LogGrows(c, t.ts.log, s.ts.log)
    <2>1. PICK x, y, z : x = s.ts.log /\ y = r.ts.log /\ z = t.ts.log
      OBVIOUS
    <2>2. LogGrows(c, y, x) /\ LogGrows(c, z, y)
      BY <2>1 DEF Accepts
    <2>3. Len(x) \in Nat /\ Len(y) \in Nat /\ Len(z) \in Nat /\ Len(x) <= Len(y) /\ Len(y) <= Len(z)
      BY <2>2 DEF LogGrows
    <2>4. \A i \in 1 .. Len(x) : z[i] = x[i]
      BY <2>2, <2>3 DEF LogGrows
    <2>5. ASSUME NEW i \in Len(x) + 1 .. Len(z) PROVE z[i][1] # c
      <3>1. CASE i <= Len(y)
        <4>1. i \in 1 .. Len(y) /\ i \in Len(x) + 1 .. Len(y)
          BY <2>3, <3>1
        <4> QED
          BY <2>2, <4>1 DEF LogGrows
      <3>2. CASE ~ (i <= Len(y))
        <4>1. i \in Len(y) + 1 .. Len(z)
          BY <2>3, <3>2
        <4> QED
          BY <2>2, <4>1 DEF LogGrows
      <3> QED
        BY <3>1, <3>2
    <2> QED
      BY <2>1, <2>3, <2>4, <2>5 DEF LogGrows
  <1>4. BufferShrinks(t.tryAccept, s.tryAccept)
    BY DEF Accepts, BufferShrinks
  <1> QED
    BY <1>1, <1>2, <1>3, <1>4 DEF Accepts

(* Accepting none.                                                         *)
LEMMA AcceptsReflexive ==
    ASSUME NEW c, NEW M, NEW s, NEW B, IsMember(c, s, M, B)
    PROVE  Accepts(c, s, s)
  <1>1. IsSession(s) /\ WellFormed(s.ts, M) /\ IsBuffer(s.tryAccept, s.ts, B)
    BY DEF IsMember, IsSound
  <1>2. Len(s.ts.log) \in Nat
    BY <1>1, IndexFacts DEF WellFormed, HasMessages, IsGrounded
  <1>3. Len(s.tryAccept) \in Nat
    <2>1. PICK q : q = s.tryAccept
      OBVIOUS
    <2>2. q \in Seq(B)
      BY <1>1, <2>1 DEF IsBuffer
    <2>3. Len(q) \in Nat
      BY <2>2
    <2> QED
      BY <2>1, <2>3
  <1>4. LogGrows(c, s.ts.log, s.ts.log)
    BY <1>2 DEF LogGrows
  <1>5. KeepsRest(s, s)
    BY <1>1 DEF KeepsRest
  <1> QED
    BY <1>3, <1>4, <1>5 DEF Accepts, Extends, BufferShrinks

-----------------------------------------------------------------------------
(* Steps that leave the transcript alone.                                  *)
SameTranscript(r, s) ==
    /\ IsSession(r) /\ r.sId = s.sId /\ r.members = s.members /\ r.ts = s.ts
    /\ r.messages = s.messages /\ r.pubtxt = s.pubtxt /\ r.ktime = s.ktime
    /\ r.ackmon = s.ackmon /\ r.monitors \subseteq s.monitors
    /\ r.invalid = s.invalid /\ r.fubar = s.fubar

(* The session is as it should be if its buffer and timeouts are.          *)
LEMMA MemberKept ==
    ASSUME NEW c, NEW M, NEW B, NEW s, IsMember(c, s, M, B), NEW r, SameTranscript(r, s),
           IsBuffer(r.tryAccept, s.ts, B), TimeoutsMatch(c, r)
    PROVE  IsMember(c, r, M, B)
  <1>1. Tracks(r)
    BY DEF IsMember, IsSound, Tracks, SameTranscript
  <1>2. NothingWrong(r)
    BY DEF IsMember, IsSound, NothingWrong, SameTranscript
  <1>3. IsSession(r) /\ r.members = M /\ r.sId = 1 /\ r.ts = s.ts /\ r.messages = s.messages
    BY DEF IsMember, IsSound, SameTranscript
  <1>4. IsSound(r, M)
    BY <1>1, <1>2, <1>3 DEF IsMember, IsSound
  <1> QED
    BY <1>3, <1>4 DEF IsMember

(* The group is as it was but for one session whose transcript is the      *)
(* same.                                                                   *)
LEMMA GroupUnchanged ==
    ASSUME NEW S, NEW M, IsGroup(S, M), NEW c \in M, NEW r, IsMember(c, r, M, Sent(S, c)),
           r.ts = S[c].ts, NEW Z, HasReplaced(Z, S, M, c, r)
    PROVE  IsGroup(Z, M) /\ Sent(Z, c) = Sent(S, c)
  <1>1. \A d \in M : Z[d].ts = S[d].ts
    BY DEF HasReplaced
  <1>2. DOMAIN Z = M /\ DOMAIN S = M /\ Agree(S) /\ \A d \in M : WellFormed(S[d].ts, M)
    BY GroupTranscripts DEF HasReplaced, AreTranscripts
  <1>3. ASSUME NEW d \in M, NEW m \in MIds(Z[d].ts)
        PROVE  m \in MIds(Z[m[1]].ts) /\ Z[m[1]].ts.messages[m] = Z[d].ts.messages[m]
    <2>1. m \in MIds(S[d].ts)
      BY <1>1
    <2>2. m[1] \in M
      BY <1>2, <2>1 DEF WellFormed, HasMessages
    <2>3. m \in MIds(S[m[1]].ts) /\ S[m[1]].ts.messages[m] = S[d].ts.messages[m]
      BY <1>2, <2>1 DEF Agree
    <2> QED
      BY <1>1, <2>2, <2>3
  <1>4. Agree(Z)
    BY <1>2, <1>3 DEF Agree
  <1>5. Extends(r.ts, S[c].ts)
    BY DEF Extends
  <1> QED
    BY <1>4, <1>5, GroupKept

-----------------------------------------------------------------------------
(* One attempt to accept a message that has arrived.                       *)
HasTried(r, s, c, msg) ==
    /\ Accepts(c, r, s)
    /\ MIds(r.ts) \subseteq MIds(s.ts) \cup {msg.mId}
    /\ ~ ParentsKnown(s, msg) => r = s
    /\ ParentsKnown(s, msg) /\ IsStashed(s, msg.mId) => Len(r.tryAccept) < Len(s.tryAccept)

(* It is accepted if its parents are known, and then no longer waits.      *)
LEMMA TryAndDeleteFacts ==
    ASSUME NEW S, NEW M, IsGroup(S, M), NEW c \in M, NEW msg \in Sent(S, c),
           msg.mId \notin MIds(S[c].ts), NEW r, r = TryAndDelete(c, S[c], msg),
           NEW Z, HasReplaced(Z, S, M, c, r)
    PROVE  IsGroup(Z, M) /\ Sent(Z, c) = Sent(S, c) /\ HasTried(r, S[c], c, msg)
  <1>0. PICK s, B : s = S[c] /\ B = Sent(S, c)
    OBVIOUS
  <1>1. /\ AreTranscripts(S, M) /\ IsMember(c, s, M, B) /\ IsSound(s, M) /\ OwnNumbered(c, s.ts)
        /\ OwnAfterAll(c, s.ts) /\ ShowsPast(s.messages, s.ts) /\ IsBuffer(s.tryAccept, s.ts, B)
        /\ TimeoutsMatch(c, s) /\ WellFormed(s.ts, M)
    BY <1>0, GroupTranscripts DEF IsGroup, IsMember, IsSound
  <1>2. Accepts(c, s, s)
    BY <1>1, AcceptsReflexive
  <1>3. CASE ~ ParentsKnown(s, msg)
    <2>1. r = s
      BY <1>0, <1>3 DEF TryAndDelete
    <2>2. IsMember(c, r, M, Sent(S, c)) /\ r.ts = S[c].ts
      BY <1>0, <1>1, <2>1
    <2>3. IsGroup(Z, M) /\ Sent(Z, c) = Sent(S, c)
      BY <2>2, GroupUnchanged
    <2> QED
      BY <1>0, <1>2, <1>3, <2>1, <2>3 DEF HasTried
  <1>4. CASE ParentsKnown(s, msg)
    <2>1. PICK t : t = TryAdd(c, s, msg)
      OBVIOUS
    <2>2. Fits(s.ts, M, msg)
      <3>1. msg.parents \subseteq MIds(S[c].ts)
        BY <1>0, <1>4 DEF ParentsKnown
      <3>2. Fits(S[c].ts, M, msg)
        BY <1>1, <3>1, ReceivedFits
      <3> QED
        BY <1>0, <3>2
    <2>3. /\ HasAccepted(t, s, msg) /\ IsSound(t, M)
          /\ HasAdded(t.ts, s.ts, msg) /\ AddKeeps(t.ts, s.ts, msg)
      BY <1>1, <2>1, <2>2, TryAddFacts
    <2>4. /\ msg.author # c /\ msg.author = msg.mId[1]
      BY <1>1, SentFacts
    <2>5. MIds(t.ts) = MIds(s.ts) \cup {msg.mId}
      BY <2>3 DEF HasAdded
    <2>6. OwnNumbered(c, t.ts) /\ OwnAfterAll(c, t.ts)
      BY <1>1, <2>2, <2>3, <2>4, OwnAfterReceive
    <2>7. WellFormed(t.ts, M)
      BY <2>3 DEF IsSound
    <2>8. ShowsPast(t.messages, t.ts)
      <3>1. t.messages = LogAccepted(s.messages, t.ts, msg.mId)
        BY <2>3 DEF HasAccepted
      <3> QED
        BY <1>1, <2>2, <2>3, <2>7, <3>1, LogAcceptedShows
    <2>9. t.tryAccept = s.tryAccept /\ t.timeouts = s.timeouts /\ KeepsRest(t, s) /\ IsSession(t)
      BY <2>3 DEF HasAccepted, KeepsBuffer, KeepsRest
    <2>10. PICK buffer : buffer = Unstash(t, msg.mId)
      OBVIOUS
    <2>11. PICK timeouts : timeouts = t.timeouts \ {msg.mId}
      OBVIOUS
    <2>12. r = [t EXCEPT !.tryAccept = buffer, !.timeouts = timeouts]
      BY <1>0, <1>4, <2>1, <2>10, <2>11 DEF TryAndDelete, Unstashed
    <2>13. r.tryAccept = buffer /\ r.timeouts = timeouts /\ SameTranscript(r, t)
      BY <2>9, <2>12 DEF IsSession, SameTranscript
    <2>14. r.state = t.state /\ r.finId = t.finId /\ r.ts = t.ts /\ r.messages = t.messages
      BY <2>9, <2>12 DEF IsSession
    <2>15. /\ IsBuffer(buffer, s.ts, B)
           /\ LacksId(buffer, msg.mId)
           /\ Len(buffer) <= Len(s.tryAccept)
           /\ IsStashed(t, msg.mId) => Len(buffer) < Len(s.tryAccept)
      <3>1. IsBuffer(t.tryAccept, s.ts, B)
        BY <1>1, <2>9
      <3>2. /\ IsBuffer(buffer, s.ts, B)
            /\ LacksId(buffer, msg.mId)
            /\ Len(buffer) <= Len(t.tryAccept)
            /\ IsStashed(t, msg.mId) => Len(buffer) < Len(t.tryAccept)
        BY <2>10, <3>1, UnstashFacts
      <3> QED
        BY <2>9, <3>2
    <2>16. IsBuffer(r.tryAccept, r.ts, B)
      BY <2>5, <2>13, <2>14, <2>15 DEF IsBuffer, LacksId
    <2>17. TimeoutsMatch(c, r)
      BY <1>1, <2>5, <2>9, <2>11, <2>13, <2>14 DEF TimeoutsMatch
    <2>18. IsMember(c, r, M, B)
      <3>1. Tracks(r) /\ IsSession(r) /\ r.members = M /\ r.sId = 1
        BY <2>3, <2>13 DEF IsSound, Tracks, SameTranscript
      <3>2. NothingWrong(r)
        BY <2>3, <2>13 DEF IsSound, NothingWrong, SameTranscript
      <3>3. IsSound(r, M)
        BY <2>7, <2>14, <3>1, <3>2 DEF IsSound
      <3> QED
        BY <2>6, <2>8, <2>14, <2>16, <2>17, <3>3 DEF IsMember
    <2>19. Agree(Z) /\ Extends(r.ts, S[c].ts)
      <3>1. WellFormed(r.ts, M) /\ HasAdded(r.ts, S[c].ts, msg) /\ AddKeeps(r.ts, S[c].ts, msg)
        BY <1>0, <2>3, <2>7, <2>14
      <3> QED
        BY <1>1, <3>1, AgreeKept
    <2>20. IsGroup(Z, M) /\ Sent(Z, c) = Sent(S, c)
      <3>1. IsMember(c, r, M, Sent(S, c))
        BY <1>0, <2>18
      <3> QED
        BY <2>19, <3>1, GroupKept
    <2>21. LogGrows(c, r.ts.log, s.ts.log)
      <3>1. PICK old, new : old = s.ts.log /\ new = r.ts.log
        OBVIOUS
      <3>2. new = Append(old, msg.mId)
        BY <2>3, <2>14, <3>1 DEF HasAdded
      <3>3. old \in Seq(MIds(s.ts))
        BY <1>1, <3>1 DEF WellFormed, HasMessages, IsGrounded, IsLog
      <3>4. LogGrows(c, new, old)
        <4>1. old \in Seq(MIds(s.ts) \cup {msg.mId})
          BY <3>3
        <4> QED
          BY <2>4, <3>2, <4>1 DEF LogGrows
      <3> QED
        BY <3>1, <3>4
    <2>22. BufferShrinks(r.tryAccept, s.tryAccept)
      <3>1. PICK q : q = s.tryAccept
        OBVIOUS
      <3>2. buffer \in Seq(B) /\ q \in Seq(B)
        BY <1>1, <2>15, <3>1 DEF IsBuffer
      <3>3. Len(buffer) \in Nat /\ Len(q) \in Nat
        BY <3>2
      <3> QED
        BY <2>13, <2>15, <3>1, <3>3 DEF BufferShrinks
    <2>23. KeepsRest(r, s)
      BY <2>9, <2>13, <2>14 DEF KeepsRest, SameTranscript
    <2>24. Accepts(c, r, s)
      BY <1>0, <2>19, <2>21, <2>22, <2>23 DEF Accepts
    <2>25. IsStashed(s, msg.mId) => IsStashed(t, msg.mId)
      BY <2>9 DEF IsStashed
    <2> QED
      BY <1>0, <1>4, <2>5, <2>13, <2>14, <2>15, <2>20, <2>24, <2>25 DEF HasTried
  <1> QED
    BY <1>3, <1>4

-----------------------------------------------------------------------------
(* Induction up to a number.                                               *)
LEMMA UpTo ==
    ASSUME NEW N \in Nat, NEW G, 0 \in G, \A n \in 1 .. N : n - 1 \in G => n \in G
    PROVE  \A n \in 0 .. N : n \in G
  <1> DEFINE T == {n \in 0 .. N : n \notin G}
  <1>1. SUFFICES ASSUME T # {} PROVE FALSE
    OBVIOUS
  <1>2. T \subseteq Nat
    OBVIOUS
  <1>3. PICK n \in T : \A i \in T : n <= i
    <2> HIDE DEF T
    <2> QED
      BY <1>1, <1>2, Least
  <1>4. n \in 1 .. N /\ n \notin G
    OBVIOUS
  <1>5. n - 1 \notin T
    <2> SUFFICES ASSUME n - 1 \in T PROVE FALSE
      OBVIOUS
    <2>1. n <= n - 1
      BY <1>3
    <2> QED
      BY <1>4, <2>1
  <1>6. n - 1 \in G
    BY <1>4, <1>5
  <1> QED
    BY <1>4, <1>6

(* retryAll: a pass tries one item after the other.                        *)
TriesAll(f, c, s, q, N) ==
    f = [n \in 0 .. N |-> IF n = 0 THEN s ELSE TryAndDelete(c, f[n - 1], q[n])]

(* The recursive function of RetryOnce exists.                             *)
LEMMA PassExists ==
    ASSUME NEW c, NEW s, NEW q, NEW N \in Nat
    PROVE  \E f : TriesAll(f, c, s, q, N)
  <1> DEFINE E(f, n) == IF n = 0 THEN s ELSE TryAndDelete(c, f[n - 1], q[n])
             Exists(k) == \E f : f = [n \in 0 .. k |-> E(f, n)]
             G == {k \in 0 .. N : Exists(k)}
  <1>1. Exists(0)
    <2>1. PICK f : f = [n \in 0 .. 0 |-> s]
      OBVIOUS
    <2>2. f = [n \in 0 .. 0 |-> E(f, n)]
      BY <2>1
    <2> QED
      BY <2>2
  <1>2. ASSUME NEW k \in 1 .. N, Exists(k - 1) PROVE Exists(k)
    <2>1. PICK f : f = [n \in 0 .. k - 1 |-> E(f, n)]
      BY <1>2
    <2>2. PICK g : g = [n \in 0 .. k |-> E(f, n)]
      OBVIOUS
    <2>3. ASSUME NEW n \in 0 .. k PROVE E(f, n) = E(g, n)
      <3>1. CASE n = 0
        BY <3>1
      <3>2. CASE n # 0
        <4>1. n - 1 \in 0 .. k - 1 /\ n - 1 \in 0 .. k
          BY <3>2
        <4>2. f[n - 1] = E(f, n - 1)
          BY <2>1, <4>1
        <4>3. g[n - 1] = E(f, n - 1)
          BY <2>2, <4>1
        <4> QED
          BY <4>2, <4>3
      <3> QED
        BY <3>1, <3>2
    <2> HIDE DEF E
    <2>4. g = [n \in 0 .. k |-> E(g, n)]
      BY <2>2, <2>3
    <2> QED
      BY <2>4
  <1>3. \A k \in 0 .. N : k \in G
    <2>1. 0 \in G
      BY <1>1
    <2>2. \A k \in 1 .. N : k - 1 \in G => k \in G
      <3> HIDE DEF Exists
      <3> QED
        BY <1>2
    <2> HIDE DEF G
    <2> QED
      BY <2>1, <2>2, UpTo
  <1>4. Exists(N)
    BY <1>3
  <1> QED
    BY <1>4 DEF TriesAll

IsPass(f, c, s, q) ==
    /\ Len(q) \in Nat /\ f[0] = s /\ RetryOnce(c, s) = f[Len(q)]
    /\ \A n \in 1 .. Len(q) : f[n] = TryAndDelete(c, f[n - 1], q[n])

(* RetryOnce is the last of its values.                                    *)
LEMMA RetryOnceUnfolds ==
    ASSUME NEW c, NEW s, NEW q, q = s.tryAccept, Len(q) \in Nat
    PROVE  \E f : IsPass(f, c, s, q)
  <1> DEFINE N == Len(q)
             E(f, n) == IF n = 0 THEN s ELSE TryAndDelete(c, f[n - 1], q[n])
             tried == CHOOSE f : f = [n \in 0 .. N |-> E(f, n)]
  <1>1. RetryOnce(c, s) = tried[N]
    BY DEF RetryOnce
  <1>2. \E f : f = [n \in 0 .. N |-> E(f, n)]
    <2>1. \E f : TriesAll(f, c, s, q, N)
      BY PassExists
    <2> QED
      BY <2>1 DEF TriesAll
  <1>3. tried = [n \in 0 .. N |-> E(tried, n)]
    BY <1>2
  <1> HIDE DEF tried
  <1>4. PICK f : f = tried
    OBVIOUS
  <1>5. \A n \in 0 .. N : f[n] = E(f, n)
    BY <1>3, <1>4
  <1>6. f[0] = s
    BY <1>5
  <1>7. ASSUME NEW n \in 1 .. N PROVE f[n] = TryAndDelete(c, f[n - 1], q[n])
    BY <1>5
  <1> QED
    BY <1>1, <1>4, <1>6, <1>7 DEF IsPass

(* A pass accepts something, or nothing is ready.                          *)
HasPassed(r, s, c) ==
    /\ Accepts(c, r, s)
    /\ NoneReady(r) \/ Len(r.tryAccept) < Len(s.tryAccept)
    /\ NoneReady(s) => r = s

(* A pass accepts what it can; if it accepted nothing, nothing can be      *)
(* accepted.                                                               *)
LEMMA RetryOnceFacts ==
    ASSUME NEW S, NEW M, IsGroup(S, M), NEW c \in M, NEW r, r = RetryOnce(c, S[c]),
           NEW Z, HasReplaced(Z, S, M, c, r)
    PROVE  IsGroup(Z, M) /\ Sent(Z, c) = Sent(S, c) /\ HasPassed(r, S[c], c)
  <1>0. PICK s, B, q : s = S[c] /\ B = Sent(S, c) /\ q = s.tryAccept
    OBVIOUS
  <1>1. IsMember(c, s, M, B) /\ DOMAIN S = M
    BY <1>0 DEF IsGroup
  <1>2. /\ q \in Seq(B) /\ \A i, j \in 1 .. Len(q) : q[i].mId = q[j].mId => i = j
        /\ \A i \in 1 .. Len(q) : q[i].mId \notin MIds(s.ts)
    BY <1>0, <1>1 DEF IsMember, IsBuffer
  <1>3. Len(q) \in Nat /\ DOMAIN q = 1 .. Len(q) /\ \A i \in 1 .. Len(q) : q[i] \in B
    BY <1>2
  <1>4. PICK f : IsPass(f, c, s, q)
    BY <1>0, <1>3, RetryOnceUnfolds
  <1>5. /\ f[0] = s /\ RetryOnce(c, s) = f[Len(q)]
        /\ \A n \in 1 .. Len(q) : f[n] = TryAndDelete(c, f[n - 1], q[n])
    BY <1>4 DEF IsPass
  <1> DEFINE Keeps(n) == \A Y : HasReplaced(Y, S, M, c, f[n]) => IsGroup(Y, M) /\ Sent(Y, c) = B
             Known(n) == \A m \in MIds(f[n].ts) : m \in MIds(s.ts) \/ \E i \in 1 .. n : m = q[i].mId
             Idle(n) == f[n] = s /\ \A i \in 1 .. n : ~ IsReady(s, i)
             Shrunk(n) == Len(f[n].tryAccept) < Len(q)
             Still(n) == NoneReady(s) => f[n] = s
             G == {n \in 0 .. Len(q) :
                     /\ Keeps(n) /\ Accepts(c, f[n], s) /\ Known(n) /\ Still(n)
                     /\ Idle(n) \/ Shrunk(n)}
  <1>6. 0 \in G
    <2>1. Keeps(0)
      <3> SUFFICES ASSUME NEW Y, HasReplaced(Y, S, M, c, s) PROVE IsGroup(Y, M) /\ Sent(Y, c) = B
        BY <1>5
      <3>1. IsMember(c, s, M, Sent(S, c)) /\ s.ts = S[c].ts
        BY <1>0, <1>1
      <3> QED
        BY <1>0, <3>1, GroupUnchanged
    <2>2. Accepts(c, f[0], s)
      BY <1>1, <1>5, AcceptsReflexive
    <2>3. Known(0) /\ Idle(0) /\ Still(0)
      BY <1>5
    <2> QED
      BY <1>3, <2>1, <2>2, <2>3
  <1>7. ASSUME NEW n \in 1 .. Len(q), n - 1 \in G PROVE n \in G
    <2>0. PICK k \in 0 .. Len(q) : k = n - 1
      BY <1>3
    <2>1. Keeps(k) /\ Accepts(c, f[k], s) /\ Known(k) /\ Still(k) /\ (Idle(k) \/ Shrunk(k))
      BY <1>7, <2>0
    <2>2. PICK u, t, msg : u = f[k] /\ t = f[n] /\ msg = q[n]
      OBVIOUS
    <2>3. PICK Y : Y = [S EXCEPT ![c] = u]
      OBVIOUS
    <2>4. HasReplaced(Y, S, M, c, u)
      BY <1>1, <2>3 DEF HasReplaced
    <2>5. IsGroup(Y, M) /\ Sent(Y, c) = B /\ Y[c] = u
      BY <2>1, <2>2, <2>4 DEF HasReplaced
    <2>6. msg \in Sent(Y, c) /\ t = TryAndDelete(c, Y[c], msg)
      BY <1>3, <1>5, <2>0, <2>2, <2>5
    <2>7. msg.mId \notin MIds(Y[c].ts)
      <3> SUFFICES ASSUME msg.mId \in MIds(f[k].ts) PROVE FALSE
        BY <2>2, <2>5
      <3>1. msg.mId \notin MIds(s.ts)
        BY <1>2, <2>2
      <3>2. PICK i \in 1 .. k : msg.mId = q[i].mId
        BY <2>1, <3>1
      <3>3. i \in 1 .. Len(q) /\ i # n
        BY <1>3, <2>0
      <3> QED
        BY <1>2, <2>2, <3>2, <3>3
    <2>8. ASSUME NEW X, HasReplaced(X, S, M, c, t)
          PROVE  IsGroup(X, M) /\ Sent(X, c) = B /\ HasTried(t, u, c, msg)
      <3>1. HasReplaced(X, Y, M, c, t)
        BY <2>4, <2>8 DEF HasReplaced
      <3>2. IsGroup(X, M) /\ Sent(X, c) = Sent(Y, c) /\ HasTried(t, Y[c], c, msg)
        BY <2>5, <2>6, <2>7, <3>1, TryAndDeleteFacts
      <3> QED
        BY <2>5, <3>2
    <2>9. PICK X : X = [S EXCEPT ![c] = t]
      OBVIOUS
    <2>10. HasReplaced(X, S, M, c, t)
      BY <1>1, <2>9 DEF HasReplaced
    <2>11. /\ Accepts(c, t, u) /\ MIds(t.ts) \subseteq MIds(u.ts) \cup {msg.mId}
           /\ ~ ParentsKnown(u, msg) => t = u
           /\ ParentsKnown(u, msg) /\ IsStashed(u, msg.mId) => Len(t.tryAccept) < Len(u.tryAccept)
      BY <2>8, <2>10 DEF HasTried
    <2>12. Keeps(n)
      BY <2>2, <2>8
    <2>13. Accepts(c, f[n], s)
      BY <2>1, <2>2, <2>11, AcceptsTransitive
    <2>14. Known(n)
      <3> SUFFICES ASSUME NEW m \in MIds(t.ts), m \notin MIds(s.ts) PROVE \E i \in 1 .. n : m = q[i].mId
        BY <2>2
      <3>1. CASE m = msg.mId
        <4>1. n \in 1 .. n
          BY <1>3
        <4> QED
          BY <2>2, <3>1, <4>1
      <3>2. CASE m \in MIds(f[k].ts)
        <4>1. PICK i \in 1 .. k : m = q[i].mId
          BY <2>1, <3>2
        <4>2. i \in 1 .. n
          BY <1>3, <2>0
        <4> QED
          BY <4>1, <4>2
      <3> QED
        BY <2>2, <2>11, <3>1, <3>2
    <2>15. Idle(n) \/ Shrunk(n)
      <3>1. CASE Shrunk(k)
        <4>1. Len(u.tryAccept) < Len(q)
          BY <2>2, <3>1
        <4>2. /\ Len(t.tryAccept) \in Nat /\ Len(u.tryAccept) \in Nat
              /\ Len(t.tryAccept) <= Len(u.tryAccept)
          BY <2>11 DEF Accepts, BufferShrinks
        <4>3. Len(t.tryAccept) < Len(q)
          BY <1>3, <4>1, <4>2
        <4> QED
          BY <2>2, <4>3
      <3>2. CASE Idle(k) /\ ParentsKnown(u, msg)
        <4>1. u = s
          BY <2>2, <3>2
        <4>2. IsStashed(u, msg.mId)
          BY <1>0, <1>3, <2>2, <4>1 DEF IsStashed
        <4>3. Len(t.tryAccept) < Len(q)
          BY <1>0, <2>11, <3>2, <4>1, <4>2
        <4> QED
          BY <2>2, <4>3
      <3>3. CASE Idle(k) /\ ~ ParentsKnown(u, msg)
        <4>1. u = s /\ t = s
          BY <2>2, <2>11, <3>3
        <4>2. ~ IsReady(s, n)
          BY <1>0, <2>2, <3>3, <4>1 DEF IsReady
        <4>3. \A i \in 1 .. n : i \in 1 .. k \/ i = n
          BY <1>3, <2>0
        <4>4. \A i \in 1 .. n : ~ IsReady(s, i)
          BY <3>3, <4>2, <4>3
        <4> QED
          BY <2>2, <4>1, <4>4
      <3> QED
        BY <2>1, <3>1, <3>2, <3>3
    <2>16. Still(n)
      <3> SUFFICES ASSUME NoneReady(s) PROVE t = s
        BY <2>2
      <3>1. u = s
        BY <2>1, <2>2
      <3>2. ~ ParentsKnown(s, msg)
        BY <1>0, <2>2 DEF NoneReady, IsReady
      <3> QED
        BY <2>11, <3>1, <3>2
    <2> HIDE DEF Keeps, Known, Idle, Shrunk, Still
    <2>17. n \in 0 .. Len(q)
      BY <1>3
    <2> QED
      BY <2>12, <2>13, <2>14, <2>15, <2>16, <2>17
  <1>8. Len(q) \in G
    <2>1. \A n \in 1 .. Len(q) : n - 1 \in G => n \in G
      BY <1>7
    <2>2. Len(q) \in 0 .. Len(q)
      BY <1>3
    <2> HIDE DEF G
    <2> QED
      BY <1>3, <1>6, <2>1, <2>2, UpTo
  <1>9. r = f[Len(q)]
    BY <1>0, <1>5
  <1>10. /\ Keeps(Len(q)) /\ Accepts(c, r, s) /\ Still(Len(q))
         /\ Idle(Len(q)) \/ Shrunk(Len(q))
    BY <1>8, <1>9
  <1>11. IsGroup(Z, M) /\ Sent(Z, c) = Sent(S, c)
    BY <1>0, <1>9, <1>10
  <1>12. NoneReady(r) \/ Len(r.tryAccept) < Len(s.tryAccept)
    <2>1. CASE Idle(Len(q))
      BY <1>0, <1>9, <2>1 DEF NoneReady
    <2>2. CASE Shrunk(Len(q))
      BY <1>0, <1>9, <2>2
    <2> QED
      BY <1>10, <2>1, <2>2
  <1>13. NoneReady(s) => r = s
    BY <1>9, <1>10
  <1> QED
    BY <1>0, <1>10, <1>11, <1>12, <1>13 DEF HasPassed

(* retryAll makes as many passes as the buffer is long, which is enough.   *)
PassesAll(f, c, s, N) ==
    f = [n \in 0 .. N |-> IF n = 0 THEN s ELSE RetryOnce(c, f[n - 1])]

(* The recursive function of RetryAll exists.                              *)
LEMMA PassesExist ==
    ASSUME NEW c, NEW s, NEW N \in Nat
    PROVE  \E f : PassesAll(f, c, s, N)
  <1> DEFINE E(f, n) == IF n = 0 THEN s ELSE RetryOnce(c, f[n - 1])
             Exists(k) == \E f : f = [n \in 0 .. k |-> E(f, n)]
             G == {k \in 0 .. N : Exists(k)}
  <1>1. Exists(0)
    <2>1. PICK f : f = [n \in 0 .. 0 |-> s]
      OBVIOUS
    <2>2. f = [n \in 0 .. 0 |-> E(f, n)]
      BY <2>1
    <2> QED
      BY <2>2
  <1>2. ASSUME NEW k \in 1 .. N, Exists(k - 1) PROVE Exists(k)
    <2>1. PICK f : f = [n \in 0 .. k - 1 |-> E(f, n)]
      BY <1>2
    <2>2. PICK g : g = [n \in 0 .. k |-> E(f, n)]
      OBVIOUS
    <2>3. ASSUME NEW n \in 0 .. k PROVE E(f, n) = E(g, n)
      <3>1. CASE n = 0
        BY <3>1
      <3>2. CASE n # 0
        <4>1. n - 1 \in 0 .. k - 1 /\ n - 1 \in 0 .. k
          BY <3>2
        <4>2. f[n - 1] = E(f, n - 1)
          BY <2>1, <4>1
        <4>3. g[n - 1] = E(f, n - 1)
          BY <2>2, <4>1
        <4> QED
          BY <4>2, <4>3
      <3> QED
        BY <3>1, <3>2
    <2> HIDE DEF E
    <2>4. g = [n \in 0 .. k |-> E(g, n)]
      BY <2>2, <2>3
    <2> QED
      BY <2>4
  <1>3. \A k \in 0 .. N : k \in G
    <2>1. 0 \in G
      BY <1>1
    <2>2. \A k \in 1 .. N : k - 1 \in G => k \in G
      <3> HIDE DEF Exists
      <3> QED
        BY <1>2
    <2> HIDE DEF G
    <2> QED
      BY <2>1, <2>2, UpTo
  <1>4. Exists(N)
    BY <1>3
  <1> QED
    BY <1>4 DEF PassesAll

ArePasses(f, c, s, N) ==
    /\ f[0] = s /\ RetryAll(c, s) = f[N]
    /\ \A n \in 1 .. N : f[n] = RetryOnce(c, f[n - 1])

(* RetryAll is the last of its values.                                     *)
LEMMA RetryAllUnfolds ==
    ASSUME NEW c, NEW s, NEW N \in Nat, N = Len(s.tryAccept)
    PROVE  \E f : ArePasses(f, c, s, N)
  <1> DEFINE E(f, n) == IF n = 0 THEN s ELSE RetryOnce(c, f[n - 1])
             retried == CHOOSE f : f = [n \in 0 .. N |-> E(f, n)]
  <1>1. RetryAll(c, s) = retried[N]
    BY DEF RetryAll
  <1>2. \E f : f = [n \in 0 .. N |-> E(f, n)]
    <2>1. \E f : PassesAll(f, c, s, N)
      BY PassesExist
    <2> QED
      BY <2>1 DEF PassesAll
  <1>3. retried = [n \in 0 .. N |-> E(retried, n)]
    BY <1>2
  <1> HIDE DEF retried
  <1>4. PICK f : f = retried
    OBVIOUS
  <1>5. \A n \in 0 .. N : f[n] = E(f, n)
    BY <1>3, <1>4
  <1>6. f[0] = s
    BY <1>5
  <1>7. ASSUME NEW n \in 1 .. N PROVE f[n] = RetryOnce(c, f[n - 1])
    BY <1>5
  <1> QED
    BY <1>1, <1>4, <1>6, <1>7 DEF ArePasses

(* As many passes as there are messages are enough: each that accepts      *)
(* something makes the buffer shorter.                                     *)
LEMMA RetryAllFacts ==
    ASSUME NEW S, NEW M, IsGroup(S, M), NEW c \in M, NEW r, r = RetryAll(c, S[c]),
           NEW Z, HasReplaced(Z, S, M, c, r)
    PROVE  IsGroup(Z, M) /\ Accepts(c, r, S[c]) /\ NoneReady(r)
  <1>0. PICK s, B, N : s = S[c] /\ B = Sent(S, c) /\ N = Len(s.tryAccept)
    OBVIOUS
  <1>1. IsMember(c, s, M, B) /\ DOMAIN S = M
    BY <1>0 DEF IsGroup
  <1>2. Accepts(c, s, s)
    BY <1>1, AcceptsReflexive
  <1>3. N \in Nat
    BY <1>0, <1>2 DEF Accepts, BufferShrinks
  <1>4. PICK f : ArePasses(f, c, s, N)
    BY <1>0, <1>3, RetryAllUnfolds
  <1>5. /\ f[0] = s /\ RetryAll(c, s) = f[N]
        /\ \A n \in 1 .. N : f[n] = RetryOnce(c, f[n - 1])
    BY <1>4 DEF ArePasses
  <1> DEFINE Keeps(n) == \A Y : HasReplaced(Y, S, M, c, f[n]) => IsGroup(Y, M)
             Shrunk(n) == NoneReady(f[n]) \/ Len(f[n].tryAccept) + n <= N
             G == {n \in 0 .. N : Keeps(n) /\ Accepts(c, f[n], s) /\ Shrunk(n)}
  <1>6. 0 \in G
    <2>1. Keeps(0)
      <3> SUFFICES ASSUME NEW Y, HasReplaced(Y, S, M, c, s) PROVE IsGroup(Y, M)
        BY <1>5
      <3>1. IsMember(c, s, M, Sent(S, c)) /\ s.ts = S[c].ts
        BY <1>0, <1>1
      <3> QED
        BY <3>1, GroupUnchanged
    <2>2. Shrunk(0)
      BY <1>0, <1>3, <1>5
    <2> QED
      BY <1>2, <1>3, <1>5, <2>1, <2>2
  <1>7. ASSUME NEW n \in 1 .. N, n - 1 \in G PROVE n \in G
    <2>0. PICK k \in 0 .. N : k = n - 1
      BY <1>3
    <2>1. Keeps(k) /\ Accepts(c, f[k], s) /\ Shrunk(k)
      BY <1>7, <2>0
    <2>2. PICK u, t : u = f[k] /\ t = f[n]
      OBVIOUS
    <2>3. PICK Y, X : Y = [S EXCEPT ![c] = u] /\ X = [S EXCEPT ![c] = t]
      OBVIOUS
    <2>4. HasReplaced(Y, S, M, c, u) /\ HasReplaced(X, S, M, c, t)
      BY <1>1, <2>3 DEF HasReplaced
    <2>5. IsGroup(Y, M) /\ Y[c] = u
      BY <2>1, <2>2, <2>4 DEF HasReplaced
    <2>6. t = RetryOnce(c, Y[c])
      BY <1>5, <2>0, <2>2, <2>5
    <2>7. ASSUME NEW V, HasReplaced(V, S, M, c, t)
          PROVE  IsGroup(V, M) /\ HasPassed(t, u, c)
      <3>1. HasReplaced(V, Y, M, c, t)
        BY <2>4, <2>7 DEF HasReplaced
      <3>2. IsGroup(V, M) /\ HasPassed(t, Y[c], c)
        BY <2>5, <2>6, <3>1, RetryOnceFacts
      <3> QED
        BY <2>5, <3>2
    <2>8. HasPassed(t, u, c)
      BY <2>4, <2>7
    <2>9. Keeps(n)
      BY <2>2, <2>7
    <2>10. Accepts(c, f[n], s)
      BY <2>1, <2>2, <2>8, AcceptsTransitive DEF HasPassed
    <2>11. Shrunk(n)
      <3>1. CASE NoneReady(u)
        <4>1. t = u
          BY <2>8, <3>1 DEF HasPassed
        <4> QED
          BY <2>2, <3>1, <4>1
      <3>2. CASE NoneReady(t)
        BY <2>2, <3>2
      <3>3. CASE Len(u.tryAccept) + k <= N /\ Len(t.tryAccept) < Len(u.tryAccept)
        <4>1. Len(t.tryAccept) \in Nat /\ Len(u.tryAccept) \in Nat
          BY <2>8 DEF HasPassed, Accepts, BufferShrinks
        <4>2. Len(t.tryAccept) + n <= N
          BY <1>3, <2>0, <3>3, <4>1
        <4> QED
          BY <2>2, <4>2
      <3> QED
        BY <2>1, <2>2, <2>8, <3>1, <3>2, <3>3 DEF HasPassed
    <2> HIDE DEF Keeps, Shrunk
    <2>12. n \in 0 .. N
      BY <1>3
    <2> QED
      BY <2>9, <2>10, <2>11, <2>12
  <1>8. N \in G
    <2>1. \A n \in 1 .. N : n - 1 \in G => n \in G
      BY <1>7
    <2>2. N \in 0 .. N
      BY <1>3
    <2> HIDE DEF G
    <2> QED
      BY <1>3, <1>6, <2>1, <2>2, UpTo
  <1>9. r = f[N]
    BY <1>0, <1>5
  <1>10. Keeps(N) /\ Accepts(c, r, s) /\ Shrunk(N)
    BY <1>8, <1>9
  <1>11. NoneReady(r)
    <2>1. CASE Len(r.tryAccept) + N <= N
      <3>1. Len(r.tryAccept) \in Nat
        BY <1>10 DEF Accepts, BufferShrinks
      <3>2. Len(r.tryAccept) = 0
        BY <1>3, <2>1, <3>1
      <3> QED
        BY <3>2 DEF NoneReady
    <2> QED
      BY <1>9, <1>10, <2>1
  <1> QED
    BY <1>0, <1>9, <1>10, <1>11

-----------------------------------------------------------------------------
(* The handlers.  Each leaves the group as it should be, and the member's  *)
(* log is longer by messages of others, or by one of its own.              *)
Moves(c, r, s) ==
    /\ NoneReady(r)
    /\ HasSent(r, s, c) \/ LogGrows(c, r.ts.log, s.ts.log)

(* A step that leaves the member's transcript and buffer as they are.      *)
LEMMA QuietStep ==
    ASSUME NEW S, NEW M, IsGroup(S, M), NEW c \in M, NEW r, SameTranscript(r, S[c]),
           r.tryAccept = S[c].tryAccept, r.timeouts \subseteq S[c].timeouts,
           NoneReady(S[c]), NEW Z, HasReplaced(Z, S, M, c, r)
    PROVE  IsGroup(Z, M) /\ NoneReady(r) /\ LogGrows(c, r.ts.log, S[c].ts.log)
  <1>0. PICK s, B : s = S[c] /\ B = Sent(S, c)
    OBVIOUS
  <1>1. IsMember(c, s, M, B) /\ r.ts = s.ts
    BY <1>0 DEF IsGroup, SameTranscript
  <1>2. TimeoutsMatch(c, r)
    BY <1>0, <1>1 DEF IsMember, TimeoutsMatch
  <1>3. IsBuffer(r.tryAccept, s.ts, B) /\ SameTranscript(r, s)
    BY <1>0, <1>1 DEF IsMember
  <1>4. IsMember(c, r, M, B)
    BY <1>1, <1>2, <1>3, MemberKept
  <1>5. IsGroup(Z, M)
    BY <1>0, <1>1, <1>4, GroupUnchanged
  <1>6. NoneReady(r)
    BY <1>0, <1>1 DEF NoneReady, IsReady, ParentsKnown
  <1>7. Accepts(c, s, s)
    BY <1>1, AcceptsReflexive
  <1> QED
    BY <1>0, <1>1, <1>5, <1>6, <1>7 DEF Accepts

AddsTo(b, u, msg) == \A i \in 1 .. Len(b) : b[i] = msg \/ \E j \in 1 .. Len(u) : b[i] = u[j]

(* A message that arrives is kept at the end.                              *)
LEMMA BufferAppend ==
    ASSUME NEW ts, NEW B, NEW u, IsBuffer(u, ts, B), NEW msg \in B, msg.mId \notin MIds(ts),
           LacksId(u, msg.mId), NEW b, b = Append(u, msg)
    PROVE  IsBuffer(b, ts, B) /\ AddsTo(b, u, msg)
  <1>1. u \in Seq(B) /\ Len(u) \in Nat
    BY DEF IsBuffer
  <1>2. /\ b \in Seq(B) /\ Len(b) = Len(u) + 1 /\ b[Len(u) + 1] = msg
        /\ \A i \in 1 .. Len(u) : b[i] = u[i]
    BY <1>1
  <1>3. PICK n \in Nat : n = Len(u)
    BY <1>1
  <1>4. \A i \in 1 .. n + 1 : (i \in 1 .. n /\ b[i] = u[i]) \/ (i = n + 1 /\ b[i] = msg)
    BY <1>2, <1>3
  <1>5. \A i, j \in 1 .. n + 1 : b[i].mId = b[j].mId => i = j
    <2>1. \A i, j \in 1 .. n : u[i].mId = u[j].mId => i = j
      BY <1>3 DEF IsBuffer
    <2> QED
      BY <1>3, <1>4, <2>1 DEF LacksId
  <1>6. \A i \in 1 .. n + 1 : b[i].mId \notin MIds(ts)
    <2>1. \A i \in 1 .. n : u[i].mId \notin MIds(ts)
      BY <1>3 DEF IsBuffer
    <2> QED
      BY <1>4, <2>1
  <1>7. IsBuffer(b, ts, B)
    BY <1>2, <1>3, <1>5, <1>6 DEF IsBuffer
  <1>8. \A i \in 1 .. n + 1 : b[i] = msg \/ \E j \in 1 .. n : b[i] = u[j]
    BY <1>4
  <1> QED
    BY <1>2, <1>3, <1>7, <1>8 DEF AddsTo

(* When there are too many, the oldest is dropped.                         *)
LEMMA BufferTail ==
    ASSUME NEW ts, NEW B, NEW u, IsBuffer(u, ts, B), Len(u) > 0, NEW b, b = Tail(u)
    PROVE  IsBuffer(b, ts, B) /\ ComesFrom(b, u)
  <1>1. u \in Seq(B) /\ Len(u) \in Nat /\ u # <<>>
    BY DEF IsBuffer
  <1>2. /\ b \in Seq(B) /\ Len(b) = Len(u) - 1
        /\ \A i \in 1 .. Len(u) - 1 : b[i] = u[i + 1]
    BY <1>1
  <1>3. PICK n \in Nat : n = Len(u) /\ n > 0
    BY <1>1
  <1>4. \A i \in 1 .. n - 1 : i + 1 \in 1 .. n /\ b[i] = u[i + 1]
    BY <1>2, <1>3
  <1>5. \A i, j \in 1 .. n - 1 : b[i].mId = b[j].mId => i = j
    <2> SUFFICES ASSUME NEW i \in 1 .. n - 1, NEW j \in 1 .. n - 1, b[i].mId = b[j].mId PROVE i = j
      OBVIOUS
    <2>1. u[i + 1].mId = u[j + 1].mId /\ i + 1 \in 1 .. n /\ j + 1 \in 1 .. n
      BY <1>4
    <2>2. i + 1 = j + 1
      BY <1>3, <2>1 DEF IsBuffer
    <2> QED
      BY <2>2
  <1>6. \A i \in 1 .. n - 1 : b[i].mId \notin MIds(ts)
    BY <1>3, <1>4 DEF IsBuffer
  <1>7. IsBuffer(b, ts, B)
    BY <1>2, <1>3, <1>5, <1>6 DEF IsBuffer
  <1> QED
    BY <1>2, <1>3, <1>4, <1>7 DEF ComesFrom

(* A message that waits: none of those that wait could be accepted because *)
(* of it.                                                                  *)
LEMMA StashFacts ==
    ASSUME NEW M, NEW c, NEW s, NEW B, IsMember(c, s, M, B), NEW msg \in B,
           msg.mId \notin MIds(s.ts), msg.mId[1] # c, ~ ParentsKnown(s, msg), NoneReady(s),
           NEW r, r = Stash(s, msg)
    PROVE  /\ SameTranscript(r, s) /\ IsBuffer(r.tryAccept, s.ts, B)
           /\ TimeoutsMatch(c, r) /\ NoneReady(r)
  <1>0. IsSession(s) /\ IsBuffer(s.tryAccept, s.ts, B) /\ TimeoutsMatch(c, s)
    BY DEF IsMember, IsSound
  <1>1. PICK q : q = s.tryAccept
    OBVIOUS
  <1>a. q \in Seq(B)
    BY <1>0, <1>1 DEF IsBuffer
  <1>b. Len(q) \in Nat /\ DOMAIN q = 1 .. Len(q)
    BY <1>a
  <1>2. \A i \in 1 .. Len(q) : ~ (q[i].parents \subseteq MIds(s.ts))
    BY <1>1 DEF NoneReady, IsReady, ParentsKnown
  <1>3. ~ (msg.parents \subseteq MIds(s.ts))
    BY DEF ParentsKnown
  <1>4. CASE IsStashed(s, msg.mId)
    <2>1. PICK u : u = Unstash(s, msg.mId)
      OBVIOUS
    <2>2. IsBuffer(u, s.ts, B) /\ LacksId(u, msg.mId) /\ ComesFrom(u, q)
      BY <1>0, <1>1, <2>1, UnstashFacts
    <2>3. PICK b : b = Append(u, msg)
      OBVIOUS
    <2>4. IsBuffer(b, s.ts, B) /\ AddsTo(b, u, msg)
      BY <2>2, <2>3, BufferAppend
    <2>5. r = [s EXCEPT !.tryAccept = b]
      BY <1>4, <2>1, <2>3 DEF Stash
    <2>6. SameTranscript(r, s) /\ r.tryAccept = b /\ r.timeouts = s.timeouts /\ r.ts = s.ts
      BY <1>0, <2>5 DEF IsSession, SameTranscript
    <2>7. \A i \in 1 .. Len(b) : ~ (b[i].parents \subseteq MIds(s.ts))
      <3>1. \A i \in 1 .. Len(u) : ~ (u[i].parents \subseteq MIds(s.ts))
        BY <1>2, <2>2 DEF ComesFrom
      <3> QED
        BY <1>3, <2>4, <3>1 DEF AddsTo
    <2>8. NoneReady(r)
      BY <2>6, <2>7 DEF NoneReady, IsReady, ParentsKnown
    <2>9. TimeoutsMatch(c, r)
      BY <1>0, <2>6 DEF TimeoutsMatch
    <2> QED
      BY <2>4, <2>6, <2>8, <2>9
  <1>5. CASE ~ IsStashed(s, msg.mId)
    <2>1. LacksId(q, msg.mId) /\ IsBuffer(q, s.ts, B)
      BY <1>0, <1>1, <1>5, <1>b DEF IsStashed, LacksId
    <2>2. PICK b, timeouts : b = Append(q, msg) /\ timeouts = s.timeouts \cup {msg.mId}
      OBVIOUS
    <2>3. IsBuffer(b, s.ts, B) /\ AddsTo(b, q, msg)
      BY <2>1, <2>2, BufferAppend
    <2>4. PICK v : v = [s EXCEPT !.tryAccept = b, !.timeouts = timeouts]
      OBVIOUS
    <2>5. r = DropExtra(v)
      BY <1>1, <1>5, <2>2, <2>4 DEF Stash
    <2>6. SameTranscript(v, s) /\ v.tryAccept = b /\ v.timeouts = timeouts /\ v.ts = s.ts /\ IsSession(v)
      BY <1>0, <2>4 DEF IsSession, SameTranscript
    <2>7. \A i \in 1 .. Len(b) : ~ (b[i].parents \subseteq MIds(s.ts))
      BY <1>2, <1>3, <2>3 DEF AddsTo
    <2>8. TimeoutsMatch(c, v)
      BY <1>0, <2>2, <2>6 DEF TimeoutsMatch
    <2>9. CASE ~ (Len(b) > MaxBuffer)
      <3>1. r = v
        BY <2>5, <2>6, <2>9 DEF DropExtra
      <3> QED
        BY <2>3, <2>6, <2>7, <2>8, <3>1 DEF NoneReady, IsReady, ParentsKnown
    <2>10. CASE Len(b) > MaxBuffer
      <3>1. PICK d : d = Tail(b)
        OBVIOUS
      <3>2. r = [v EXCEPT !.tryAccept = d]
        BY <2>5, <2>6, <2>10, <3>1 DEF DropExtra
      <3>3. Len(b) > 0
        <4>1. b \in Seq(B)
          BY <2>3 DEF IsBuffer
        <4>2. Len(b) \in Nat
          BY <4>1
        <4> QED
          BY <2>10, <4>2, MaxBufferAssumption
      <3>4. IsBuffer(d, s.ts, B) /\ ComesFrom(d, b)
        BY <2>3, <3>1, <3>3, BufferTail
      <3>5. /\ SameTranscript(r, v) /\ r.tryAccept = d /\ r.timeouts = v.timeouts /\ r.ts = s.ts
        BY <2>6, <3>2 DEF IsSession, SameTranscript
      <3>6. SameTranscript(r, s)
        BY <2>6, <3>5 DEF SameTranscript
      <3>7. \A i \in 1 .. Len(d) : ~ (d[i].parents \subseteq MIds(s.ts))
        BY <2>7, <3>4 DEF ComesFrom
      <3>8. NoneReady(r)
        BY <3>5, <3>7 DEF NoneReady, IsReady, ParentsKnown
      <3>9. TimeoutsMatch(c, r)
        BY <2>6, <2>8, <3>5 DEF TimeoutsMatch
      <3> QED
        BY <3>4, <3>5, <3>6, <3>8, <3>9
    <2> QED
      BY <2>9, <2>10
  <1> QED
    BY <1>4, <1>5


(* A step taken in two parts.                                              *)
LEMMA ReplacedTwice ==
    ASSUME NEW S, NEW M, DOMAIN S = M, NEW c \in M, NEW t, NEW r, NEW Z, HasReplaced(Z, S, M, c, r)
    PROVE  \E Y : HasReplaced(Y, S, M, c, t) /\ HasReplaced(Z, Y, M, c, r)
  <1>1. PICK Y : Y = [S EXCEPT ![c] = t]
    OBVIOUS
  <1>2. HasReplaced(Y, S, M, c, t)
    BY <1>1 DEF HasReplaced
  <1>3. HasReplaced(Z, Y, M, c, r)
    BY <1>2 DEF HasReplaced
  <1> QED
    BY <1>2, <1>3

(* recv: a duplicate is dropped; what can be accepted is, with all that    *)
(* waited for it; and the rest is kept.                                    *)
LEMMA ReceiveFacts ==
    ASSUME NEW S, NEW M, IsGroup(S, M), NEW c \in M, NEW msg \in Sent(S, c), NoneReady(S[c]),
           NEW r, r = Recv(c, S[c], msg), NEW Z, HasReplaced(Z, S, M, c, r)
    PROVE  IsGroup(Z, M) /\ Moves(c, r, S[c])
  <1>0. PICK s, B : s = S[c] /\ B = Sent(S, c)
    OBVIOUS
  <1>1. /\ AreTranscripts(S, M) /\ DOMAIN S = M /\ IsMember(c, s, M, B)
        /\ IsSession(s) /\ Tracks(s) /\ IsBuffer(s.tryAccept, s.ts, B) /\ NoneReady(s)
    BY <1>0, GroupTranscripts DEF IsGroup, IsMember, IsSound
  <1>2. msg.author # c /\ msg.author = msg.mId[1]
    BY <1>1, SentFacts
  <1>3. msg.mId \in s.pubtxt <=> msg.mId \in MIds(s.ts)
    BY <1>1 DEF Tracks
  <1>4. CASE msg.mId \in s.pubtxt
    <2>1. r = s
      BY <1>0, <1>4 DEF Recv
    <2>2. SameTranscript(r, S[c]) /\ r.tryAccept = S[c].tryAccept /\ r.timeouts \subseteq S[c].timeouts
      BY <1>0, <1>1, <2>1 DEF SameTranscript
    <2>3. IsGroup(Z, M) /\ NoneReady(r) /\ LogGrows(c, r.ts.log, S[c].ts.log)
      BY <2>2, QuietStep
    <2> QED
      BY <2>3 DEF Moves
  <1>5. CASE msg.mId \notin s.pubtxt /\ ParentsKnown(s, msg)
    <2>1. PICK t : t = TryAndDelete(c, S[c], msg)
      OBVIOUS
    <2>2. PICK Y : HasReplaced(Y, S, M, c, t) /\ HasReplaced(Z, Y, M, c, r)
      BY <1>1, ReplacedTwice
    <2>3. msg.mId \notin MIds(S[c].ts)
      BY <1>0, <1>3, <1>5
    <2>4. IsGroup(Y, M) /\ HasTried(t, S[c], c, msg)
      BY <2>1, <2>2, <2>3, TryAndDeleteFacts
    <2>5. Y[c] = t
      BY <2>2 DEF HasReplaced
    <2>6. r = RetryAll(c, Y[c])
      BY <1>0, <1>5, <2>1, <2>5 DEF Recv
    <2>7. IsGroup(Z, M) /\ Accepts(c, r, Y[c]) /\ NoneReady(r)
      BY <2>2, <2>4, <2>6, RetryAllFacts
    <2>8. Accepts(c, t, s) /\ Accepts(c, r, t)
      BY <1>0, <2>4, <2>5, <2>7 DEF HasTried
    <2>9. Accepts(c, r, s)
      BY <2>8, AcceptsTransitive
    <2> QED
      BY <1>0, <2>7, <2>9 DEF Moves, Accepts
  <1>6. CASE msg.mId \notin s.pubtxt /\ ~ ParentsKnown(s, msg)
    <2>1. r = Stash(s, msg)
      BY <1>0, <1>6 DEF Recv
    <2>2. msg \in B /\ msg.mId \notin MIds(s.ts) /\ msg.mId[1] # c
      BY <1>0, <1>2, <1>3, <1>6
    <2>3. /\ SameTranscript(r, s) /\ IsBuffer(r.tryAccept, s.ts, B)
          /\ TimeoutsMatch(c, r) /\ NoneReady(r)
      BY <1>1, <1>6, <2>1, <2>2, StashFacts
    <2>4. IsMember(c, r, M, B)
      BY <1>1, <2>3, MemberKept
    <2>5. r.ts = s.ts
      BY <2>3 DEF SameTranscript
    <2>6. IsMember(c, r, M, Sent(S, c)) /\ r.ts = S[c].ts
      BY <1>0, <2>4, <2>5
    <2>7. IsGroup(Z, M)
      BY <2>6, GroupUnchanged
    <2>8. Accepts(c, s, s)
      BY <1>1, AcceptsReflexive
    <2> QED
      BY <1>0, <2>3, <2>5, <2>7, <2>8 DEF Moves, Accepts
  <1> QED
    BY <1>4, <1>5, <1>6

(* The timeout of a message that waits for its parents.                    *)
LEMMA TimeoutFacts ==
    ASSUME NEW S, NEW M, IsGroup(S, M), NEW c \in M, NoneReady(S[c]), NEW m,
           NEW r, r = TimeoutFires(S[c], m), NEW Z, HasReplaced(Z, S, M, c, r)
    PROVE  IsGroup(Z, M) /\ Moves(c, r, S[c])
  <1>0. PICK s, timeouts : s = S[c] /\ timeouts = s.timeouts \ {m}
    OBVIOUS
  <1>1. IsSession(s)
    BY <1>0 DEF IsGroup, IsMember, IsSound
  <1>2. r = [s EXCEPT !.timeouts = timeouts]
    BY <1>0 DEF TimeoutFires
  <1>3. SameTranscript(r, s) /\ r.tryAccept = s.tryAccept /\ r.timeouts = timeouts
    BY <1>1, <1>2 DEF IsSession, SameTranscript
  <1>4. SameTranscript(r, S[c]) /\ r.tryAccept = S[c].tryAccept /\ r.timeouts \subseteq S[c].timeouts
    BY <1>0, <1>3
  <1>5. IsGroup(Z, M) /\ NoneReady(r) /\ LogGrows(c, r.ts.log, S[c].ts.log)
    BY <1>4, QuietStep
  <1> QED
    BY <1>5 DEF Moves

(* fin() has run out.  The monitors match what is not fully acked.         *)
LEMMA PubFinFacts ==
    ASSUME NEW S, NEW M, IsGroup(S, M), NEW c \in M, NoneReady(S[c]),
           NEW r, r = PubFin(S[c]), NEW Z, HasReplaced(Z, S, M, c, r)
    PROVE  IsGroup(Z, M) /\ Moves(c, r, S[c])
  <1>0. PICK s : s = S[c]
    OBVIOUS
  <1>1. IsSession(s) /\ NothingWrong(s) /\ Tracks(s)
    BY <1>0 DEF IsGroup, IsMember, IsSound
  <1>2. (s.ackmon = s.ts.unacked) = TRUE
    BY <1>1 DEF Tracks
  <1>3. Asserted(s, s.ackmon = s.ts.unacked) = s
    BY <1>1, <1>2, AssertedFacts
  <1>4. PICK t : t = [s EXCEPT !.monitors = {}]
    OBVIOUS
  <1>5. Stop(s) = t
    BY <1>3, <1>4 DEF Stop
  <1>6. /\ SameTranscript(t, s) /\ t.tryAccept = s.tryAccept /\ t.timeouts = s.timeouts
    BY <1>1, <1>4 DEF IsSession, SameTranscript
  <1>7. PICK finTimer, state :
           finTimer = "none" /\ state = IF IsConsistent(s) THEN "PARTED" ELSE "PART_FAILED"
    OBVIOUS
  <1>8. r = [t EXCEPT !.finTimer = finTimer, !.state = state]
    BY <1>0, <1>5, <1>7 DEF PubFin
  <1>9. /\ SameTranscript(r, t) /\ r.tryAccept = t.tryAccept /\ r.timeouts = t.timeouts
    <2>1. IsSession(t)
      BY <1>6 DEF SameTranscript
    <2> QED
      BY <1>8, <2>1 DEF IsSession, SameTranscript
  <1>10. SameTranscript(r, s)
    BY <1>6, <1>9 DEF SameTranscript
  <1>11. SameTranscript(r, S[c]) /\ r.tryAccept = S[c].tryAccept /\ r.timeouts \subseteq S[c].timeouts
    BY <1>0, <1>6, <1>9, <1>10
  <1>12. IsGroup(Z, M) /\ NoneReady(r) /\ LogGrows(c, r.ts.log, S[c].ts.log)
    BY <1>11, QuietStep
  <1> QED
    BY <1>12 DEF Moves

(* Sending a message, and changing what the transcript does not touch.     *)
LEMMA SendAndFacts ==
    ASSUME NEW S, NEW M, IsGroup(S, M), NEW c \in M, NoneReady(S[c]), NEW body,
           NEW t, t = TryAdd(c, S[c], OwnMessage(c, S[c], body)),
           NEW r, SameTranscript(r, t), r.tryAccept = t.tryAccept, r.timeouts \subseteq t.timeouts,
           NEW Z, HasReplaced(Z, S, M, c, r)
    PROVE  IsGroup(Z, M) /\ Moves(c, r, S[c])
  <1>1. DOMAIN S = M
    BY DEF IsGroup
  <1>2. PICK Y : HasReplaced(Y, S, M, c, t) /\ HasReplaced(Z, Y, M, c, r)
    BY <1>1, ReplacedTwice
  <1>3. IsGroup(Y, M) /\ HasSent(t, S[c], c) /\ NoneReady(t)
    BY <1>2, SendFacts
  <1>4. Y[c] = t
    BY <1>2 DEF HasReplaced
  <1>5. /\ SameTranscript(r, Y[c]) /\ r.tryAccept = Y[c].tryAccept /\ r.timeouts \subseteq Y[c].timeouts
        /\ NoneReady(Y[c])
    BY <1>3, <1>4
  <1>6. IsGroup(Z, M) /\ NoneReady(r)
    BY <1>2, <1>3, <1>5, QuietStep
  <1>7. r.ts = t.ts
    BY DEF SameTranscript
  <1>8. HasSent(r, S[c], c)
    BY <1>3, <1>7 DEF HasSent
  <1> QED
    BY <1>6, <1>8 DEF Moves

(* What a member has after it sent a message.                              *)
LEMMA SentMember ==
    ASSUME NEW S, NEW M, IsGroup(S, M), NEW c \in M, NEW body,
           NEW t, t = TryAdd(c, S[c], OwnMessage(c, S[c], body))
    PROVE  /\ IsSession(t) /\ NothingWrong(t) /\ WellFormed(t.ts, M) /\ HasSent(t, S[c], c)
           /\ Extends(t.ts, S[c].ts)
  <1>1. PICK Y : Y = [S EXCEPT ![c] = t]
    OBVIOUS
  <1>2. DOMAIN S = M
    BY DEF IsGroup
  <1>3. HasReplaced(Y, S, M, c, t) /\ Y[c] = t
    BY <1>1, <1>2 DEF HasReplaced
  <1>4. IsGroup(Y, M) /\ HasSent(t, S[c], c) /\ Extends(t.ts, S[c].ts)
    BY <1>3, SendFacts
  <1>5. IsSession(t) /\ NothingWrong(t) /\ WellFormed(t.ts, M)
    BY <1>3, <1>4 DEF IsGroup, IsMember, IsSound
  <1> QED
    BY <1>4, <1>5

(* A session is the same transcript as itself.                             *)
LEMMA SameAsItself ==
    ASSUME NEW s, IsSession(s)
    PROVE  SameTranscript(s, s) /\ s.tryAccept = s.tryAccept /\ s.timeouts \subseteq s.timeouts
  BY DEF SameTranscript

(* sendObject.                                                             *)
LEMMA SendObjectFacts ==
    ASSUME NEW S, NEW M, IsGroup(S, M), NEW c \in M, NoneReady(S[c]), NEW body,
           MaySend(S[c], body), NEW r, r = SendObject(c, S[c], body), NEW Z, HasReplaced(Z, S, M, c, r)
    PROVE  IsGroup(Z, M) /\ Moves(c, r, S[c])
  <1>1. r = TryAdd(c, S[c], OwnMessage(c, S[c], body))
    BY DEF SendObject
  <1>2. IsSession(r)
    BY <1>1, SentMember
  <1>3. SameTranscript(r, r) /\ r.tryAccept = r.tryAccept /\ r.timeouts \subseteq r.timeouts
    BY <1>2, SameAsItself
  <1> QED
    BY <1>1, <1>3, SendAndFacts

(* fin(): its message is the only one that is nobody's parent.             *)
LEMMA FinFacts ==
    ASSUME NEW S, NEW M, IsGroup(S, M), NEW c \in M, NoneReady(S[c]), S[c].state = "JOINED",
           NEW r, r = Fin(c, S[c]), NEW Z, HasReplaced(Z, S, M, c, r)
    PROVE  IsGroup(Z, M) /\ Moves(c, r, S[c])
  <1>1. PICK t : t = TryAdd(c, S[c], OwnMessage(c, S[c], "fin"))
    OBVIOUS
  <1>2. SendObject(c, S[c], "fin") = t
    BY <1>1 DEF SendObject, MaySend
  <1>3. IsSession(t) /\ NothingWrong(t) /\ HasSent(t, S[c], c)
    BY <1>1, SentMember
  <1>4. PICK id : t.ts.maxMessages = {id}
    BY <1>3 DEF HasSent
  <1>5. (Cardinality(t.ts.maxMessages) = 1) = TRUE
    BY <1>4, FS_Singleton
  <1>6. PICK state, finTimer, finId :
           state = "PARTING" /\ finTimer = "timeout" /\ finId = CHOOSE m \in t.ts.maxMessages : TRUE
    OBVIOUS
  <1>7. PICK u : u = [t EXCEPT !.state = state, !.finTimer = finTimer, !.finId = finId]
    OBVIOUS
  <1>8. SameTranscript(u, t) /\ u.tryAccept = t.tryAccept /\ u.timeouts = t.timeouts
    BY <1>3, <1>7 DEF IsSession, SameTranscript
  <1>9. IsSession(u) /\ NothingWrong(u)
    BY <1>3, <1>8 DEF SameTranscript, NothingWrong
  <1>10. r = Asserted(u, Cardinality(t.ts.maxMessages) = 1)
    BY <1>2, <1>6, <1>7 DEF Fin
  <1>11. r = u
    BY <1>5, <1>9, <1>10, AssertedFacts
  <1>12. SameTranscript(r, t) /\ r.tryAccept = t.tryAccept /\ r.timeouts \subseteq t.timeouts
    BY <1>8, <1>11
  <1> QED
    BY <1>1, <1>12, SendAndFacts

(* A monitor fires: the ack is sent if it is missing, and then is found.   *)
LEMMA AckmonFacts ==
    ASSUME NEW S, NEW M, IsGroup(S, M), NEW c \in M, NoneReady(S[c]), NEW m \in S[c].monitors,
           NEW r, r = AckmonFires(c, S[c], m), NEW Z, HasReplaced(Z, S, M, c, r)
    PROVE  IsGroup(Z, M) /\ Moves(c, r, S[c])
  <1>0. PICK s : s = S[c]
    OBVIOUS
  <1>1. /\ IsSession(s) /\ NothingWrong(s) /\ WellFormed(s.ts, M) /\ m \in MIds(s.ts)
    BY <1>0 DEF IsGroup, IsMember, IsSound, Tracks
  <1>2. CASE c \notin s.ts.unackby[m]
    <2>1. PICK monitors : monitors = s.monitors \ {m}
      OBVIOUS
    <2>2. r = [s EXCEPT !.monitors = monitors]
      BY <1>0, <1>2, <2>1 DEF AckmonFires
    <2>3. SameTranscript(r, s) /\ r.tryAccept = s.tryAccept /\ r.timeouts = s.timeouts
      BY <1>1, <2>1, <2>2 DEF IsSession, SameTranscript
    <2>4. SameTranscript(r, S[c]) /\ r.tryAccept = S[c].tryAccept /\ r.timeouts \subseteq S[c].timeouts
      BY <1>0, <2>3
    <2>5. IsGroup(Z, M) /\ NoneReady(r) /\ LogGrows(c, r.ts.log, S[c].ts.log)
      BY <2>4, QuietStep
    <2> QED
      BY <2>5 DEF Moves
  <1>3. CASE c \in s.ts.unackby[m]
    <2>1. c \in Readers(s.ts, m) /\ ~ Answered(s.ts, m, c)
      BY <1>1, <1>3 DEF WellFormed, HasUnacked
    <2>2. SucRuId(s.ts, m, c) = NoMsg
      BY <1>1, <2>1, SucRuIdFacts
    <2>3. (~ (SucRuId(s.ts, m, c) # NoMsg)) = TRUE
      BY <2>2
    <2>4. Asserted(s, ~ (SucRuId(s.ts, m, c) # NoMsg)) = s
      BY <1>1, <2>3, AssertedFacts
    <2>5. PICK t : t = TryAdd(c, S[c], OwnMessage(c, S[c], "ack"))
      OBVIOUS
    <2>6. SendObject(c, s, "ack") = t
      BY <1>0, <2>5 DEF SendObject, MaySend, OnlyWhileJoined
    <2>7. /\ IsSession(t) /\ NothingWrong(t) /\ WellFormed(t.ts, M) /\ HasSent(t, s, c)
          /\ Extends(t.ts, s.ts)
      BY <1>0, <2>5, SentMember
    <2>8. m \in MIds(t.ts) /\ t.ts.messages[m] = s.ts.messages[m]
      BY <1>1, <2>7 DEF Extends
    <2>9. c \in Readers(t.ts, m)
      BY <2>1, <2>8 DEF Readers
    <2>10. Answered(t.ts, m, c)
      BY <1>1, <2>7 DEF HasSent, Answered
    <2>11. SucRuId(t.ts, m, c) # NoMsg
      BY <2>7, <2>8, <2>9, <2>10, SucRuIdFacts
    <2>12. (SucRuId(t.ts, m, c) # NoMsg) = TRUE
      BY <2>11
    <2>13. Asserted(t, SucRuId(t.ts, m, c) # NoMsg) = t
      BY <2>7, <2>12, AssertedFacts
    <2>14. PICK monitors : monitors = t.monitors \ {m}
      OBVIOUS
    <2>15. r = [t EXCEPT !.monitors = monitors]
      BY <1>0, <1>3, <2>4, <2>6, <2>13, <2>14 DEF AckmonFires
    <2>16. SameTranscript(r, t) /\ r.tryAccept = t.tryAccept /\ r.timeouts = t.timeouts
      BY <2>7, <2>14, <2>15 DEF IsSession, SameTranscript
    <2>17. r.timeouts \subseteq t.timeouts
      BY <2>16
    <2> QED
      BY <2>5, <2>16, <2>17, SendAndFacts
  <1> QED
    BY <1>2, <1>3

-----------------------------------------------------------------------------
(* The invariant.                                                          *)

(* A new session has nothing.                                              *)
LEMMA NewFacts ==
    ASSUME NEW M, NEW c \in M, NEW B, NEW s, s = NewSession(1, M)
    PROVE  /\ IsMember(c, s, M, B) /\ NoneReady(s) /\ MIds(s.ts) = {} /\ s.ts.log = <<>>
  <1>1. PICK ts, log : ts = NewTranscript /\ log = NewLog({})
    OBVIOUS
  <1>2. /\ MIds(ts) = {} /\ ts.log = <<>> /\ ts.maxMessages = {} /\ ts.unacked = {}
        /\ DOMAIN ts.context = {} /\ DOMAIN ts.unackby = {} /\ IsTranscript(ts)
    BY <1>1 DEF NewTranscript, EmptyMap, MIds, IsTranscript
  <1>3. IsGrounded(ts)
    <2>1. ts.log \in Seq(MIds(ts)) /\ Len(ts.log) = 0
      BY <1>2
    <2> QED
      BY <1>2, <2>1 DEF IsGrounded, IsLog
  <1>4. HasMessages(ts, M) /\ IsOrdered(ts) /\ HasContexts(ts) /\ HasUnacked(ts) /\ HasMaximal(ts)
    BY <1>2, <1>3 DEF HasMessages, IsOrdered, HasContexts, HasUnacked, HasMaximal
  <1>5. WellFormed(ts, M)
    BY <1>2, <1>4 DEF WellFormed
  <1>6. ByAuthor(ts, c) = {}
    BY <1>2 DEF ByAuthor
  <1>7. OwnNumbered(c, ts) /\ OwnAfterAll(c, ts)
    BY <1>6, FS_EmptySet DEF OwnNumbered, OwnAfterAll
  <1>8. ShowsPast(log, ts)
    <2>1. log.list = <<>> /\ log = [list |-> log.list, parents |-> log.parents, transcriptParents |-> {}]
      BY <1>1 DEF NewLog
    <2>2. log.list \in Seq(MIds(ts)) /\ Len(log.list) = 0
      BY <2>1
    <2>3. Payloads(ts) = {}
      BY <1>2 DEF Payloads
    <2> QED
      BY <2>1, <2>2, <2>3 DEF ShowsPast
  <1>9. /\ s.ts = ts /\ s.messages = log /\ s.sId = 1 /\ s.members = M /\ s.pubtxt = {}
        /\ s.ktime = {} /\ s.tryAccept = <<>> /\ s.timeouts = {} /\ s.ackmon = {} /\ s.monitors = {}
        /\ s.invalid = {} /\ s.fubar = FALSE
    BY <1>1 DEF NewSession
  <1>10. IsSession(s)
    BY DEF NewSession, IsSession
  <1>11. Tracks(s) /\ NothingWrong(s)
    BY <1>2, <1>9 DEF Tracks, NothingWrong
  <1>12. IsSound(s, M)
    BY <1>5, <1>9, <1>10, <1>11 DEF IsSound
  <1>13. s.tryAccept \in Seq(B) /\ Len(s.tryAccept) = 0
    <2>1. PICK q : q = s.tryAccept
      OBVIOUS
    <2>2. q = <<>>
      BY <1>9, <2>1
    <2>3. q \in Seq(B) /\ Len(q) = 0
      BY <2>2
    <2> QED
      BY <2>1, <2>3
  <1>14. IsBuffer(s.tryAccept, s.ts, B) /\ NoneReady(s)
    BY <1>13 DEF IsBuffer, NoneReady
  <1>15. TimeoutsMatch(c, s)
    BY <1>9 DEF TimeoutsMatch
  <1> QED
    BY <1>2, <1>7, <1>8, <1>9, <1>12, <1>14, <1>15 DEF IsMember

(* Nobody has anything yet.                                                *)
LEMMA InitGroupInv == Init => GroupInv
  <1> SUFFICES ASSUME Init PROVE GroupInv
    OBVIOUS
  <1>1. PICK sc \in Scenarios : session = [c \in sc.members |-> NewSession(1, sc.members)]
    BY DEF Init
  <1>2. PICK M : M = sc.members
    OBVIOUS
  <1>3. DOMAIN session = M /\ Members = M
    BY <1>1, <1>2 DEF Members
  <1>4. \A c \in M : session[c] = NewSession(1, M)
    BY <1>1, <1>2
  <1>5. ASSUME NEW c \in M
        PROVE  /\ IsMember(c, session[c], M, Sent(session, c)) /\ NoneReady(session[c])
               /\ MIds(session[c].ts) = {}
    BY <1>4, NewFacts
  <1>6. Agree(session)
    BY <1>3, <1>5 DEF Agree
  <1> QED
    BY <1>3, <1>5, <1>6 DEF GroupInv, IsGroup

(* Every step is a step of one member.                                     *)
HasMoved(Z, S, M) ==
    \E c \in M : HasReplaced(Z, S, M, c, Z[c]) /\ IsGroup(Z, M) /\ Moves(c, Z[c], S[c])

(* One case for each action.                                               *)
LEMMA MemberMoves ==
    ASSUME GroupInv, Next
    PROVE  HasMoved(session', session, Members)
  <1>1. PICK c \in Members :
           \/ \E body \in left.bodies : Send(c, body)
           \/ Finish(c) \/ FinEnds(c)
           \/ \E m \in AllMIds : Receive(c, m) \/ Ackmon(c, m) \/ Timeout(c, m)
    BY DEF Next
  <1>2. PICK S, M, Z : S = session /\ M = Members /\ Z = session'
    OBVIOUS
  <1>3. DOMAIN S = M /\ IsGroup(S, M) /\ c \in M /\ NoneReady(S[c])
    BY <1>2 DEF GroupInv, Members
  <1>4. ASSUME NEW r, Becomes(c, r) PROVE HasReplaced(Z, S, M, c, r) /\ Z[c] = r
    BY <1>2, <1>3, <1>4 DEF Becomes, HasReplaced
  <1>5. ASSUME NEW body, Send(c, body) PROVE HasMoved(Z, S, M)
    <2>1. PICK r : r = SendObject(c, S[c], body) /\ Becomes(c, r) /\ MaySend(S[c], body)
      BY <1>2, <1>5 DEF Send
    <2>2. HasReplaced(Z, S, M, c, r) /\ Z[c] = r
      BY <1>4, <2>1
    <2>3. IsGroup(Z, M) /\ Moves(c, r, S[c])
      BY <1>3, <2>1, <2>2, SendObjectFacts
    <2> QED
      BY <1>3, <2>2, <2>3 DEF HasMoved
  <1>6. ASSUME Finish(c) PROVE HasMoved(Z, S, M)
    <2>1. PICK r : r = Fin(c, S[c]) /\ Becomes(c, r) /\ S[c].state = "JOINED"
      BY <1>2, <1>6 DEF Finish
    <2>2. HasReplaced(Z, S, M, c, r) /\ Z[c] = r
      BY <1>4, <2>1
    <2>3. IsGroup(Z, M) /\ Moves(c, r, S[c])
      BY <1>3, <2>1, <2>2, FinFacts
    <2> QED
      BY <1>3, <2>2, <2>3 DEF HasMoved
  <1>7. ASSUME FinEnds(c) PROVE HasMoved(Z, S, M)
    <2>1. PICK r : r = PubFin(S[c]) /\ Becomes(c, r)
      BY <1>2, <1>7 DEF FinEnds
    <2>2. HasReplaced(Z, S, M, c, r) /\ Z[c] = r
      BY <1>4, <2>1
    <2>3. IsGroup(Z, M) /\ Moves(c, r, S[c])
      BY <1>3, <2>1, <2>2, PubFinFacts
    <2> QED
      BY <1>3, <2>2, <2>3 DEF HasMoved
  <1>8. ASSUME NEW m \in AllMIds, Receive(c, m) PROVE HasMoved(Z, S, M)
    <2>1. PICK msg, r : msg = Message(m) /\ r = Recv(c, S[c], msg) /\ Becomes(c, r)
      BY <1>2, <1>8 DEF Receive
    <2>2. HasReplaced(Z, S, M, c, r) /\ Z[c] = r
      BY <1>4, <2>1
    <2>3. PICK d \in M : m \in ByAuthor(S[d].ts, d)
      BY <1>2 DEF AllMIds
    <2>4. m[1] = d
      <3>1. WellFormed(S[d].ts, M)
        BY <1>3 DEF IsGroup, IsMember, IsSound
      <3> QED
        BY <2>3, <3>1 DEF WellFormed, HasMessages, ByAuthor
    <2>5. d # c /\ msg = S[d].ts.messages[m]
      BY <1>2, <1>8, <2>1, <2>4 DEF Receive, Arriving, Message
    <2>6. msg \in Sent(S, c)
      BY <1>3, <2>3, <2>5 DEF Sent
    <2>7. IsGroup(Z, M) /\ Moves(c, r, S[c])
      BY <1>3, <2>1, <2>2, <2>6, ReceiveFacts
    <2> QED
      BY <1>3, <2>2, <2>7 DEF HasMoved
  <1>9. ASSUME NEW m, Ackmon(c, m) PROVE HasMoved(Z, S, M)
    <2>1. PICK r : r = AckmonFires(c, S[c], m) /\ Becomes(c, r) /\ m \in S[c].monitors
      BY <1>2, <1>9 DEF Ackmon
    <2>2. HasReplaced(Z, S, M, c, r) /\ Z[c] = r
      BY <1>4, <2>1
    <2>3. IsGroup(Z, M) /\ Moves(c, r, S[c])
      BY <1>3, <2>1, <2>2, AckmonFacts
    <2> QED
      BY <1>3, <2>2, <2>3 DEF HasMoved
  <1>10. ASSUME NEW m, Timeout(c, m) PROVE HasMoved(Z, S, M)
    <2>1. PICK r : r = TimeoutFires(S[c], m) /\ Becomes(c, r)
      BY <1>2, <1>10 DEF Timeout
    <2>2. HasReplaced(Z, S, M, c, r) /\ Z[c] = r
      BY <1>4, <2>1
    <2>3. IsGroup(Z, M) /\ Moves(c, r, S[c])
      BY <1>3, <2>1, <2>2, TimeoutFacts
    <2> QED
      BY <1>3, <2>2, <2>3 DEF HasMoved
  <1>11. HasMoved(Z, S, M)
    BY <1>1, <1>5, <1>6, <1>7, <1>8, <1>9, <1>10
  <1> QED
    BY <1>2, <1>11

(* The invariant is inductive.                                             *)
LEMMA NextGroupInv == GroupInv /\ [Next]_vars => GroupInv'
  <1> SUFFICES ASSUME GroupInv, [Next]_vars PROVE GroupInv'
    OBVIOUS
  <1>1. CASE UNCHANGED vars
    BY <1>1 DEF vars, GroupInv, Members
  <1>2. CASE Next
    <2>1. PICK S, M, Z : S = session /\ M = Members /\ Z = session'
      OBVIOUS
    <2>2. PICK c \in M : HasReplaced(Z, S, M, c, Z[c]) /\ IsGroup(Z, M) /\ Moves(c, Z[c], S[c])
      BY <1>2, <2>1, MemberMoves DEF HasMoved
    <2>3. DOMAIN Z = M
      BY <2>2 DEF HasReplaced
    <2>4. ASSUME NEW d \in M PROVE NoneReady(Z[d])
      <3>1. NoneReady(S[d])
        BY <2>1 DEF GroupInv
      <3> QED
        BY <2>2, <3>1 DEF HasReplaced, Moves
    <2>5. IsGroup(session', DOMAIN session') /\ \A d \in DOMAIN session' : NoneReady(session'[d])
      BY <2>1, <2>2, <2>3, <2>4
    <2> QED
      BY <2>5 DEF GroupInv, Members
  <1> QED
    BY <1>1, <1>2

(* Whatever arrives, in whatever order, the members of a session agree on  *)
(* its messages and on their order, and what each of them keeps about      *)
(* them is true.                                                           *)
THEOREM GroupInvHolds == Spec => []GroupInv
  <1>1. Init => GroupInv
    BY InitGroupInv
  <1>2. GroupInv /\ [Next]_vars => GroupInv'
    BY NextGroupInv
  <1> QED
    BY <1>1, <1>2, PTL DEF Spec

-----------------------------------------------------------------------------
(* What the members can rely on.                                           *)
LEMMA GroupTranscript ==
    ASSUME GroupInv, NEW c \in Members
    PROVE  /\ AreTranscripts(session, Members) /\ WellFormed(Ts(c), Members) /\ NoneReady(session[c])
           /\ IsMember(c, session[c], Members, Sent(session, c)) /\ IsSound(session[c], Members)
  BY GroupTranscripts DEF GroupInv, IsGroup, IsMember, IsSound, Ts

(* A message that everybody has acked is in everybody's transcript: an ack *)
(* comes after it in the transcript of the ack's author.                   *)
LEMMA AckedByAll ==
    ASSUME GroupInv, NEW c \in Members, NEW d \in Members
    PROVE  session[c].ktime \subseteq MIds(Ts(d))
  <1> SUFFICES ASSUME NEW m \in session[c].ktime PROVE m \in MIds(Ts(d))
    OBVIOUS
  <1>1. PICK S, M, ts, us : S = session /\ M = Members /\ ts = Ts(c) /\ us = Ts(d)
    OBVIOUS
  <1>2. /\ AreTranscripts(S, M) /\ WellFormed(ts, M) /\ WellFormed(us, M) /\ Tracks(S[c])
        /\ c \in M /\ d \in M /\ S[c].ts = ts /\ S[d].ts = us
    BY <1>1, GroupTranscript DEF IsSound, Ts
  <1>3. m \in MIds(ts) /\ m \notin ts.unacked
    BY <1>1, <1>2 DEF Tracks
  <1>4. Author(ts, m) = m[1] /\ Readers(ts, m) = M \ {Author(ts, m)}
    BY <1>2, <1>3 DEF WellFormed, HasMessages
  <1>5. CASE d = m[1]
    BY <1>2, <1>3, <1>5, <1>1 DEF AreTranscripts, Agree
  <1>6. CASE d # m[1]
    <2>1. d \in Readers(ts, m)
      BY <1>2, <1>4, <1>6
    <2>2. ts.unackby[m] = {}
      BY <1>2, <1>3 DEF WellFormed, HasUnacked
    <2>3. Answered(ts, m, d)
      BY <1>2, <1>3, <2>1, <2>2 DEF WellFormed, HasUnacked
    <2>4. PICK n \in ByAuthor(ts, d) : m \in Ancestors(ts, n)
      BY <2>3 DEF Answered
    <2>5. n \in MIds(ts) /\ n[1] = d
      BY <1>2, <2>4 DEF ByAuthor, WellFormed, HasMessages
    <2>6. n \in MIds(us)
      BY <1>2, <2>5 DEF AreTranscripts, Agree
    <2>7. Ancestors(S[c].ts, n) \subseteq MIds(S[d].ts)
      <3>1. n \in MIds(S[c].ts) /\ n \in MIds(S[d].ts)
        BY <1>2, <2>5, <2>6
      <3> QED
        BY <1>2, <3>1, SameAncestors
    <2>8. m \in MIds(us)
      BY <1>2, <2>4, <2>7
    <2> QED
      BY <1>1, <2>8
  <1> QED
    BY <1>5, <1>6

(* A member that takes a message for fully acked is right.                 *)
THEOREM AcksAreEvidence == Spec => []FullyAckedByAll
  <1>1. GroupInv => FullyAckedByAll
    BY AckedByAll DEF FullyAckedByAll
  <1> QED
    BY <1>1, GroupInvHolds, PTL

(* unackby and suc_ruId tell the same, in every transcript.                *)
THEOREM UnackedHolds == Spec => []UnackedAreUnanswered
  <1>1. ASSUME GroupInv, NEW c \in Members, NEW m \in MIds(Ts(c))
        PROVE  Ts(c).unackby[m] = {u \in Readers(Ts(c), m) : SucRuId(Ts(c), m, u) = NoMsg}
    <2>1. PICK ts, M : ts = Ts(c) /\ M = Members
      OBVIOUS
    <2>2. WellFormed(ts, M) /\ m \in MIds(ts)
      BY <1>1, <2>1, GroupTranscript
    <2>3. ts.unackby[m] = {u \in Readers(ts, m) : ~ Answered(ts, m, u)}
      BY <2>2 DEF WellFormed, HasUnacked
    <2>4. \A u \in Readers(ts, m) : SucRuId(ts, m, u) = NoMsg <=> ~ Answered(ts, m, u)
      BY <2>2, SucRuIdFacts
    <2>5. ts.unackby[m] = {u \in Readers(ts, m) : SucRuId(ts, m, u) = NoMsg}
      BY <2>3, <2>4
    <2> QED
      BY <2>1, <2>5
  <1>2. GroupInv => UnackedAreUnanswered
    BY <1>1 DEF UnackedAreUnanswered
  <1> QED
    BY <1>2, GroupInvHolds, PTL

(* le() decides reachability, and the contexts it is decided from hold the *)
(* latest earlier message of each reader.                                  *)
LEMMA OrderOf ==
    ASSUME NEW ts, NEW M, WellFormed(ts, M), NEW m \in MIds(ts)
    PROVE  /\ \A n \in MIds(ts) : Le(ts, n, m) <=> n = m \/ n \in Ancestors(ts, m)
           /\ \A u \in Readers(ts, m) :
                 LET earlier == Ancestors(ts, m) \cap ByAuthor(ts, u)
                 IN  IF earlier = {} THEN ts.context[m][u] = NoMsg
                     ELSE /\ ts.context[m][u] \in earlier
                          /\ earlier \subseteq Ancestors(ts, ts.context[m][u]) \cup {ts.context[m][u]}
  <1>0. /\ HasMessages(ts, M) /\ IsOrdered(ts) /\ HasContexts(ts) /\ IsLog(ts)
    BY DEF WellFormed, HasMessages, IsGrounded
  <1>1. ASSUME NEW n \in MIds(ts) PROVE Le(ts, n, m) <=> n = m \/ n \in Ancestors(ts, m)
    BY <1>0, LeIsReachability
  <1>2. ASSUME NEW u \in Readers(ts, m), NEW x, x = ts.context[m][u], NEW earlier,
               earlier = Ancestors(ts, m) \cap ByAuthor(ts, u)
        PROVE  IF earlier = {} THEN x = NoMsg
               ELSE x \in earlier /\ earlier \subseteq Ancestors(ts, x) \cup {x}
    <2>1. IsLatest(ts, x, earlier)
      BY <1>0, <1>2 DEF HasContexts
    <2>2. CASE earlier = {}
      BY <2>1, <2>2 DEF IsLatest
    <2>3. CASE earlier # {}
      <3>1. x \in earlier /\ \A n \in earlier : NotAfter(ts, n, x)
        BY <2>1, <2>3 DEF IsLatest
      <3>2. ASSUME NEW n \in earlier PROVE n \in Ancestors(ts, x) \cup {x}
        <4>1. n \in MIds(ts) /\ x \in MIds(ts) /\ Author(ts, n) = Author(ts, x)
          BY <1>2, <3>1 DEF ByAuthor
        <4>2. n = x \/ Before(ts, n, x)
          BY <1>0, <3>1, <4>1, BeforeFacts
        <4> QED
          BY <1>0, <4>1, <4>2 DEF IsOrdered
      <3> QED
        BY <2>3, <3>1, <3>2
    <2> QED
      BY <2>2, <2>3
  <1>3. ASSUME NEW u \in Readers(ts, m)
        PROVE  LET earlier == Ancestors(ts, m) \cap ByAuthor(ts, u)
               IN  IF earlier = {} THEN ts.context[m][u] = NoMsg
                   ELSE /\ ts.context[m][u] \in earlier
                        /\ earlier \subseteq Ancestors(ts, ts.context[m][u]) \cup {ts.context[m][u]}
    <2>1. PICK x, earlier : x = ts.context[m][u] /\ earlier = Ancestors(ts, m) \cap ByAuthor(ts, u)
      OBVIOUS
    <2>2. IF earlier = {} THEN x = NoMsg
          ELSE x \in earlier /\ earlier \subseteq Ancestors(ts, x) \cup {x}
      BY <1>2, <2>1
    <2> QED
      BY <2>1, <2>2
  <1> QED
    BY <1>1, <1>3

(* Within a session le() is reachability over parents, and contexts are    *)
(* what pre_ruId should find.                                              *)
THEOREM OrderHolds == Spec => []OrderIsReachability
  <1>1. ASSUME GroupInv, NEW c \in Members
        PROVE  LET ts == Ts(c) IN
               \A m \in MIds(ts) :
                  /\ \A n \in MIds(ts) : Le(ts, n, m) <=> n = m \/ n \in Ancestors(ts, m)
                  /\ \A u \in Readers(ts, m) :
                        LET earlier == Ancestors(ts, m) \cap ByAuthor(ts, u)
                        IN  IF earlier = {} THEN ts.context[m][u] = NoMsg
                            ELSE /\ ts.context[m][u] \in earlier
                                 /\ earlier \subseteq Ancestors(ts, ts.context[m][u])
                                                        \cup {ts.context[m][u]}
    <2>1. WellFormed(Ts(c), Members)
      BY <1>1, GroupTranscript
    <2> QED
      BY <2>1, OrderOf
  <1>2. GroupInv => OrderIsReachability
    BY <1>1 DEF OrderIsReachability
  <1> QED
    BY <1>2, GroupInvHolds, PTL

(* No message of a member is refused, and no assertion fails.              *)
THEOREM SessionRefusesNothing == Spec => []NothingRefused
  <1>1. GroupInv => NothingRefused
    BY GroupTranscript DEF NothingRefused, IsSound, NothingWrong
  <1> QED
    BY <1>1, GroupInvHolds, PTL

(* Only what cannot be accepted is left in the buffer, and nothing that    *)
(* was accepted is reported as missing.                                    *)
THEOREM OnlyUnreadyHolds == Spec => []OnlyUnreadyWait
  <1>1. ASSUME GroupInv, NEW c \in Members
        PROVE  LET s == session[c] IN
               /\ \A i \in DOMAIN s.tryAccept : ~ ParentsKnown(s, s.tryAccept[i])
               /\ s.timeouts \cap s.pubtxt = {}
    <2>1. PICK s, B : s = session[c] /\ B = Sent(session, c)
      OBVIOUS
    <2>2. NoneReady(s) /\ IsBuffer(s.tryAccept, s.ts, B) /\ TimeoutsMatch(c, s) /\ Tracks(s)
      BY <1>1, <2>1, GroupTranscript DEF IsMember, IsSound
    <2>3. DOMAIN s.tryAccept = 1 .. Len(s.tryAccept)
      <3>1. PICK q : q = s.tryAccept
        OBVIOUS
      <3>2. q \in Seq(B)
        BY <2>2, <3>1 DEF IsBuffer
      <3>3. DOMAIN q = 1 .. Len(q)
        BY <3>2
      <3> QED
        BY <3>1, <3>3
    <2>4. \A i \in DOMAIN s.tryAccept : ~ ParentsKnown(s, s.tryAccept[i])
      BY <2>2, <2>3 DEF NoneReady, IsReady
    <2>5. s.timeouts \cap s.pubtxt = {}
      BY <2>2 DEF TimeoutsMatch, Tracks
    <2> QED
      BY <2>1, <2>4, <2>5
  <1>2. GroupInv => OnlyUnreadyWait
    BY <1>1 DEF OnlyUnreadyWait
  <1> QED
    BY <1>2, GroupInvHolds, PTL

(* The user sees of every message the payloads that come directly before   *)
(* it, after they were shown themselves.                                   *)
LEMMA ShownPast ==
    ASSUME NEW ts, NEW log, ShowsPast(log, ts), NEW i \in DOMAIN log.list
    PROVE  LET m == log.list[i]
               earlier == {n \in Ancestors(ts, m) : ts.messages[n].body = "payload"}
           IN  Ancestors(ts, m) \subseteq MIds(ts) =>
                  /\ log.parents[m] = {n \in earlier : \A o \in earlier : n \notin Ancestors(ts, o)}
                  /\ earlier \subseteq {log.list[j] : j \in 1 .. i - 1}
  <1> DEFINE m == log.list[i]
             earlier == {n \in Ancestors(ts, m) : ts.messages[n].body = "payload"}
  <1> SUFFICES ASSUME Ancestors(ts, m) \subseteq MIds(ts)
               PROVE  /\ log.parents[m] = {n \in earlier : \A o \in earlier : n \notin Ancestors(ts, o)}
                      /\ earlier \subseteq {log.list[j] : j \in 1 .. i - 1}
    OBVIOUS
  <1>1. i \in 1 .. Len(log.list)
    <2>1. PICK q : q = log.list
      OBVIOUS
    <2>2. q \in Seq(MIds(ts)) /\ i \in DOMAIN q
      BY <2>1 DEF ShowsPast
    <2>3. i \in 1 .. Len(q)
      BY <2>2
    <2> QED
      BY <2>1, <2>3
  <1>2. IsShown(log, ts, i)
    BY <1>1 DEF ShowsPast
  <1>3. earlier = Ancestors(ts, m) \cap Payloads(ts)
    BY DEF Payloads, ShouldIgnore
  <1>4. /\ log.parents[m] = Latest(ts, earlier)
        /\ \A n \in earlier : \E j \in 1 .. i - 1 : log.list[j] = n
    BY <1>2, <1>3 DEF IsShown
  <1>5. log.parents[m] = {n \in earlier : \A o \in earlier : n \notin Ancestors(ts, o)}
    BY <1>4 DEF Latest
  <1>6. earlier \subseteq {log.list[j] : j \in 1 .. i - 1}
    <2> HIDE DEF earlier
    <2> QED
      BY <1>4
  <1> QED
    BY <1>5, <1>6

(* The parents that the user sees of a message are the latest payloads     *)
(* before it, and are shown before it.                                     *)
THEOREM LogHolds == Spec => []LogShowsPast
  <1>1. ASSUME GroupInv, NEW c \in Members, NEW i \in DOMAIN session[c].messages.list
        PROVE  LET ts == Ts(c)
                   log == session[c].messages
                   m == log.list[i]
                   earlier == {n \in Ancestors(ts, m) : ts.messages[n].body = "payload"}
               IN  /\ log.parents[m] = {n \in earlier : \A o \in earlier : n \notin Ancestors(ts, o)}
                   /\ earlier \subseteq {log.list[j] : j \in 1 .. i - 1}
    <2>1. ShowsPast(session[c].messages, Ts(c)) /\ WellFormed(Ts(c), Members)
      BY <1>1, GroupTranscript DEF IsMember, Ts
    <2>2. PICK ts, log : ts = Ts(c) /\ log = session[c].messages
      OBVIOUS
    <2>3. ShowsPast(log, ts) /\ IsGrounded(ts) /\ i \in DOMAIN log.list
      BY <1>1, <2>1, <2>2 DEF WellFormed, HasMessages
    <2>4. log.list[i] \in MIds(ts)
      <3>1. PICK q : q = log.list
        OBVIOUS
      <3>2. q \in Seq(MIds(ts)) /\ i \in DOMAIN q
        BY <2>3, <3>1 DEF ShowsPast
      <3>3. q[i] \in MIds(ts)
        BY <3>2
      <3> QED
        BY <3>1, <3>3
    <2>5. Ancestors(ts, log.list[i]) \subseteq MIds(ts)
      BY <2>3, <2>4, AncestorsBefore
    <2> QED
      BY <2>2, <2>3, <2>5, ShownPast
  <1>2. GroupInv => LogShowsPast
    BY <1>1 DEF LogShowsPast
  <1> QED
    BY <1>2, GroupInvHolds, PTL

-----------------------------------------------------------------------------
(* The transcripts implement a causal broadcast.  A is what the members    *)
(* have accepted, and A2 what they have accepted after a step.             *)
LogsOf(S) == [c \in DOMAIN S |-> S[c].ts.log]
PastIn(A, msg) ==
    LET own == A[msg[1]]
    IN  {own[i] : i \in {i \in DOMAIN own : \E j \in i + 1 .. Len(own) : own[j] = msg}}
Broadcasts(A, A2, c) ==
    /\ Len(A2[c]) = Len(A[c]) + 1
    /\ A2 = [A EXCEPT ![c] = Append(A[c], A2[c][Len(A2[c])])]
    /\ A2[c][Len(A2[c])][1] = c
    /\ A2[c][Len(A2[c])][2] = Broadcast!Cardinality({msg \in Broadcast!Elements(A[c]) : msg[1] = c}) + 1
MayAccept(A, new, c, i) ==
    /\ new[i][1] # c /\ new[i] \notin {new[j] : j \in 1 .. i - 1}
    /\ new[i] \in Broadcast!Elements(A[new[i][1]])
    /\ PastIn(A, new[i]) \subseteq {new[j] : j \in 1 .. i - 1}
AcceptsIn(A, A2, c) ==
    /\ Len(A2[c]) > Len(A[c]) /\ SubSeq(A2[c], 1, Len(A[c])) = A[c]
    /\ A2 = [A EXCEPT ![c] = A2[c]]
    /\ \A i \in Len(A[c]) + 1 .. Len(A2[c]) : MayAccept(A, A2[c], c, i)

(* The logs before and after a member's step.                              *)
LEMMA LogsReplaced ==
    ASSUME NEW S, NEW M, DOMAIN S = M, NEW c \in M, NEW r, NEW Z, HasReplaced(Z, S, M, c, r),
           NEW A, A = LogsOf(S), NEW A2, A2 = LogsOf(Z), NEW new, new = r.ts.log
    PROVE  A[c] = S[c].ts.log /\ A2[c] = new /\ A2 = [A EXCEPT ![c] = new]
  BY DEF HasReplaced, LogsOf

(* The elements of a log are the messages.                                 *)
LEMMA LogElements ==
    ASSUME NEW ts, IsLog(ts)
    PROVE  Broadcast!Elements(ts.log) = MIds(ts)
  BY IndexFacts DEF Broadcast!Elements

(* A member that sends broadcasts its next message.                        *)
LEMMA SendBroadcasts ==
    ASSUME NEW S, NEW M, AreTranscripts(S, M), NEW c \in M, NEW r, HasSent(r, S[c], c),
           NEW Z, HasReplaced(Z, S, M, c, r), NEW A, A = LogsOf(S), NEW A2, A2 = LogsOf(Z)
    PROVE  Broadcasts(A, A2, c)
  <1>1. PICK ts, old, new : ts = S[c].ts /\ old = ts.log /\ new = r.ts.log
    OBVIOUS
  <1>2. A[c] = old /\ A2[c] = new /\ A2 = [A EXCEPT ![c] = new]
    <2>1. DOMAIN S = M
      BY DEF AreTranscripts
    <2> QED
      BY <1>1, <2>1, LogsReplaced
  <1>3. PICK id : id = <<c, Cardinality(ByAuthor(ts, c)) + 1, 1>> /\ new = Append(old, id)
    BY <1>1 DEF HasSent
  <1>4. WellFormed(ts, M) /\ IsLog(ts) /\ HasMessages(ts, M)
    BY <1>1 DEF AreTranscripts, WellFormed, HasMessages, IsGrounded
  <1>5. old \in Seq(MIds(ts)) /\ Broadcast!Elements(old) = MIds(ts)
    BY <1>1, <1>4, LogElements DEF IsLog
  <1>6. Len(new) = Len(old) + 1 /\ new[Len(new)] = id
    <2>1. old \in Seq(MIds(ts) \cup {id})
      BY <1>5
    <2> QED
      BY <1>3, <2>1
  <1>7. {msg \in Broadcast!Elements(old) : msg[1] = c} = ByAuthor(ts, c)
    BY <1>4, <1>5 DEF ByAuthor, HasMessages
  <1>8. id[1] = c /\ id[2] = Cardinality(ByAuthor(ts, c)) + 1
    BY <1>3
  <1>9. Broadcast!Cardinality(ByAuthor(ts, c)) = Cardinality(ByAuthor(ts, c))
    BY DEF Cardinality, Broadcast!Cardinality
  <1> QED
    BY <1>2, <1>3, <1>6, <1>7, <1>8, <1>9 DEF Broadcasts

(* A member accepts after all that the author had accepted before.         *)
LEMMA AcceptsAfterPast ==
    ASSUME NEW S, NEW M, IsGroup(S, M), NEW c \in M, NEW r,
           NEW Z, HasReplaced(Z, S, M, c, r), IsGroup(Z, M), NEW A, A = LogsOf(S),
           NEW i \in 1 .. Len(r.ts.log), r.ts.log[i][1] # c
    PROVE  MayAccept(A, r.ts.log, c, i)
  <1>1. PICK us, new, m : us = r.ts /\ new = us.log /\ m = new[i]
    OBVIOUS
  <1>2. AreTranscripts(S, M) /\ AreTranscripts(Z, M) /\ Z[c].ts = us /\ m[1] # c
    BY <1>1, GroupTranscripts DEF HasReplaced
  <1>3. WellFormed(us, M) /\ IsLog(us) /\ HasMessages(us, M) /\ IsGrounded(us)
    BY <1>2 DEF AreTranscripts, WellFormed, HasMessages, IsGrounded
  <1>4. i \in 1 .. Len(new) /\ Len(new) \in Nat
    BY <1>1, <1>3, IndexFacts
  <1>5. m \in MIds(us) /\ MessageIndex(us, m) = i
    BY <1>1, <1>3, <1>4, IndexFacts
  <1>6. PICK d : d = m[1]
    OBVIOUS
  <1>7. d \in M /\ Author(us, m) = d
    BY <1>3, <1>5, <1>6 DEF HasMessages
  <1>8. PICK ts, own : ts = S[d].ts /\ own = ts.log
    OBVIOUS
  <1>9. Z[d].ts = ts /\ A[d] = own
    BY <1>2, <1>6, <1>7, <1>8 DEF HasReplaced, LogsOf, AreTranscripts
  <1>10. WellFormed(ts, M) /\ IsLog(ts) /\ HasMessages(ts, M) /\ OwnAfterAll(d, ts)
    <2>1. WellFormed(ts, M) /\ OwnAfterAll(d, ts)
      BY <1>7, <1>8 DEF IsGroup, IsMember, IsSound
    <2> QED
      BY <2>1 DEF WellFormed, HasMessages, IsGrounded
  <1>11. m \in MIds(ts)
    <2>1. m \in MIds(Z[c].ts)
      BY <1>2, <1>5
    <2>2. m \in MIds(Z[m[1]].ts)
      BY <1>2, <2>1 DEF AreTranscripts, Agree
    <2> QED
      BY <1>6, <1>9, <2>2
  <1>12. m \in ByAuthor(ts, d)
    BY <1>6, <1>10, <1>11 DEF ByAuthor, HasMessages
  <1>13. m \in Broadcast!Elements(own)
    BY <1>8, <1>10, <1>11, LogElements
  <1>14. m \notin {new[j] : j \in 1 .. i - 1}
    <2> SUFFICES ASSUME NEW j \in 1 .. i - 1, new[j] = m PROVE FALSE
      OBVIOUS
    <2>1. j \in 1 .. Len(new) /\ j # i
      BY <1>4
    <2> QED
      BY <1>1, <1>3, <1>4, <2>1 DEF IsLog
  <1>15. Ancestors(us, m) = Ancestors(ts, m)
    <2>1. m \in MIds(Z[c].ts) /\ m \in MIds(Z[d].ts)
      BY <1>2, <1>5, <1>9, <1>11
    <2>2. Ancestors(Z[c].ts, m) = Ancestors(Z[d].ts, m)
      BY <1>2, <1>7, <2>1, SameAncestors
    <2> QED
      BY <1>2, <1>9, <2>2
  <1>16. ASSUME NEW k \in DOMAIN own, NEW j \in k + 1 .. Len(own), own[j] = m
         PROVE  own[k] \in {new[l] : l \in 1 .. i - 1}
    <2>1. k \in 1 .. Len(own) /\ j \in 1 .. Len(own) /\ k < j
      BY <1>8, <1>10, <1>16, IndexFacts
    <2>2. own[k] \in MIds(ts) /\ MessageIndex(ts, own[k]) = k /\ MessageIndex(ts, m) = j
      BY <1>8, <1>10, <1>16, <2>1, IndexFacts
    <2>3. Before(ts, own[k], m)
      BY <2>1, <2>2 DEF Before
    <2>4. own[k] \in Ancestors(us, m)
      BY <1>10, <1>12, <1>15, <2>2, <2>3 DEF OwnAfterAll
    <2>5. own[k] \in MIds(us) /\ Before(us, own[k], m)
      BY <1>3, <1>5, <2>4, AncestorsBefore
    <2>6. PICK l : l = MessageIndex(us, own[k])
      OBVIOUS
    <2>7. l \in 1 .. Len(new) /\ new[l] = own[k] /\ l < i
      BY <1>1, <1>3, <1>5, <2>5, <2>6, IndexFacts DEF Before
    <2>8. l \in 1 .. i - 1
      BY <1>4, <2>7
    <2> QED
      BY <2>7, <2>8
  <1>17. PastIn(A, m) \subseteq {new[l] : l \in 1 .. i - 1}
    BY <1>6, <1>9, <1>16 DEF PastIn
  <1> QED
    BY <1>1, <1>2, <1>6, <1>9, <1>13, <1>14, <1>17 DEF MayAccept

(* A log that grows by messages of others accepts each in its turn.        *)
LEMMA GrowsAccepts ==
    ASSUME NEW S, NEW M, IsGroup(S, M), NEW c \in M, NEW r, LogGrows(c, r.ts.log, S[c].ts.log),
           NEW Z, HasReplaced(Z, S, M, c, r), IsGroup(Z, M),
           NEW A, A = LogsOf(S), NEW A2, A2 = LogsOf(Z)
    PROVE  A2 = A \/ AcceptsIn(A, A2, c)
  <1>1. PICK old, new, T : old = S[c].ts.log /\ new = r.ts.log /\ T = MIds(S[c].ts) \cup MIds(r.ts)
    OBVIOUS
  <1>2. DOMAIN S = M /\ DOMAIN A = M
    BY DEF IsGroup, LogsOf
  <1>3. A[c] = old /\ A2[c] = new /\ A2 = [A EXCEPT ![c] = new]
    BY <1>1, <1>2, LogsReplaced
  <1>4. old \in Seq(T) /\ new \in Seq(T)
    <2>1. IsLog(S[c].ts) /\ IsLog(r.ts)
      BY DEF IsGroup, IsMember, IsSound, WellFormed, HasMessages, IsGrounded, HasReplaced
    <2>2. PICK X, Y : X = MIds(S[c].ts) /\ Y = MIds(r.ts)
      OBVIOUS
    <2>3. old \in Seq(X) /\ new \in Seq(Y) /\ T = X \cup Y
      BY <1>1, <2>1, <2>2 DEF IsLog
    <2> QED
      BY <2>3
  <1>5. /\ Len(old) \in Nat /\ Len(new) \in Nat /\ Len(old) <= Len(new)
        /\ \A i \in 1 .. Len(old) : new[i] = old[i]
        /\ \A i \in Len(old) + 1 .. Len(new) : new[i][1] # c
    BY <1>1 DEF LogGrows
  <1>6. CASE Len(new) = Len(old)
    <2>1. new = old
      BY <1>4, <1>5, <1>6
    <2> QED
      BY <1>2, <1>3, <2>1 DEF LogsOf
  <1>7. CASE Len(new) > Len(old)
    <2>1. SubSeq(new, 1, Len(old)) = old
      BY <1>4, <1>5
    <2>2. ASSUME NEW i \in Len(old) + 1 .. Len(new) PROVE MayAccept(A, new, c, i)
      <3>1. i \in 1 .. Len(r.ts.log) /\ r.ts.log[i][1] # c
        BY <1>1, <1>5
      <3>2. MayAccept(A, r.ts.log, c, i)
        BY <3>1, AcceptsAfterPast
      <3> QED
        BY <1>1, <3>2
    <2> QED
      BY <1>3, <1>7, <2>1, <2>2 DEF AcceptsIn
  <1> QED
    BY <1>5, <1>6, <1>7

(* Every step of the session is a step of the broadcast, or leaves what    *)
(* was accepted as it is.                                                  *)
LEMMA StepBroadcasts ==
    ASSUME GroupInv, [Next]_vars
    PROVE  \/ LogsOf(session') = LogsOf(session)
           \/ \E c \in DOMAIN LogsOf(session) :
                 \/ Broadcasts(LogsOf(session), LogsOf(session'), c)
                 \/ AcceptsIn(LogsOf(session), LogsOf(session'), c)
  <1>1. CASE UNCHANGED vars
    BY <1>1 DEF vars
  <1>2. CASE Next
    <2>1. PICK S, M, Z, A, A2 :
             S = session /\ M = Members /\ Z = session' /\ A = LogsOf(S) /\ A2 = LogsOf(Z)
      OBVIOUS
    <2>2. PICK c \in M : HasReplaced(Z, S, M, c, Z[c]) /\ IsGroup(Z, M) /\ Moves(c, Z[c], S[c])
      BY <1>2, <2>1, MemberMoves DEF HasMoved
    <2>3. IsGroup(S, M) /\ AreTranscripts(S, M) /\ DOMAIN A = M
      BY <2>1, GroupTranscripts DEF GroupInv, IsGroup, LogsOf
    <2>4. CASE HasSent(Z[c], S[c], c)
      BY <2>1, <2>2, <2>3, <2>4, SendBroadcasts
    <2>5. CASE LogGrows(c, Z[c].ts.log, S[c].ts.log)
      BY <2>1, <2>2, <2>3, <2>5, GrowsAccepts
    <2> QED
      BY <2>2, <2>4, <2>5 DEF Moves
  <1> QED
    BY <1>1, <1>2

(* Nothing is accepted before what its author had accepted, and nothing    *)
(* twice, whatever the transport does.                                     *)
THEOREM SessionDeliversCausally == Spec => DeliversCausally
  <1>1. Init => Broadcast!BroadcastInit
    <2> SUFFICES ASSUME Init PROVE Broadcast!BroadcastInit
      OBVIOUS
    <2>1. PICK sc \in Scenarios : session = [c \in sc.members |-> NewSession(1, sc.members)]
      BY DEF Init
    <2>2. ASSUME NEW c \in Members PROVE session[c].ts.log = <<>>
      BY <2>1, NewFacts DEF Members
    <2> QED
      BY <2>2 DEF Broadcast!BroadcastInit
  <1>2. ASSUME GroupInv, [Next]_vars
        PROVE  [Broadcast!BroadcastNext]_[c \in Members |-> session[c].ts.log]
    <2>1. [c \in Members |-> session[c].ts.log] = LogsOf(session)
      BY DEF LogsOf, Members
    <2>2. [c \in Members |-> session[c].ts.log]' = LogsOf(session')
      BY DEF LogsOf, Members
    <2>3. CASE LogsOf(session') = LogsOf(session)
      BY <2>1, <2>2, <2>3
    <2>4. ASSUME NEW c \in DOMAIN LogsOf(session),
                 Broadcasts(LogsOf(session), LogsOf(session'), c)
          PROVE  Broadcast!BroadcastNext
      <3>1. Broadcast!Broadcast(c)
        BY <2>4 DEF Broadcast!Broadcast, Broadcasts, LogsOf, Members
      <3> QED
        BY <2>1, <3>1 DEF Broadcast!BroadcastNext
    <2>5. ASSUME NEW c \in DOMAIN LogsOf(session),
                 AcceptsIn(LogsOf(session), LogsOf(session'), c)
          PROVE  Broadcast!BroadcastNext
      <3>1. Broadcast!Accept(c)
        BY <2>5 DEF Broadcast!Accept, Broadcast!Past, AcceptsIn, MayAccept, PastIn, LogsOf, Members
      <3> QED
        BY <2>1, <3>1 DEF Broadcast!BroadcastNext
    <2> QED
      BY <1>2, <2>3, <2>4, <2>5, StepBroadcasts
  <1> QED
    BY <1>1, <1>2, GroupInvHolds, PTL DEF Spec, DeliversCausally, Broadcast!BroadcastSpec
=============================================================================
