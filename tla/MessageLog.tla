------------------------------ MODULE MessageLog ------------------------------
(***************************************************************************)
(* DefaultMessageLog of impl/transcript.js: what users see of a sequence   *)
(* of transcripts, the messages with a payload, with their effective       *)
(* parents.  A log is given with the transcriptParents of the transcript   *)
(* that is written to it or asked about: the payloads in earlier           *)
(* transcripts that come directly before all of it.                        *)
(***************************************************************************)
EXTENDS Transcript

NewLog(transcriptParents) ==
    [list |-> <<>>, parents |-> EmptyMap, transcriptParents |-> transcriptParents]

ShouldIgnore(ts, m) == ts.messages[m].body # "payload"

(* Mutated form of ResolveEarlier: looks only at the parents themselves.   *)
DirectPayloads(ts, mIds) == {m \in mIds : ~ ShouldIgnore(ts, m)}

(* The latest messages with a payload that are no later than mIds.         *)
ResolveEarlier(ts, mIds) ==
    Boundary(ts, mIds, MIds(ts), {m \in MIds(ts) : ShouldIgnore(ts, m)})

(* Mutated form of ResolveInLog: does not fall back.                       *)
ResolveInTranscript(log, ts, mIds) == ResolveEarlier(ts, mIds)

(* The same in the log, falling back to the transcripts before (_add,      *)
(* _resolveEarlier).                                                       *)
ResolveInLog(log, ts, mIds) ==
    LET resolved == ResolveEarlier(ts, mIds)
    IN  IF resolved = {} THEN log.transcriptParents ELSE resolved

(* The subscriber to the transcript's accepted messages, and _add.         *)
LogAccepted(log, ts, m) ==
    IF ShouldIgnore(ts, m) THEN log
    ELSE [log EXCEPT !.list = Append(@, m),
                     !.parents = Put(@, m, ResolveInLog(log, ts, Parents(ts, m)))]

=============================================================================
