------------------------------ MODULE MCGroup ------------------------------
EXTENDS GroupProperties, TLC

CONSTANTS a, b, c, d

Anything == {"enters", "ops", "parts", "disconnects"}

Course(founders, enters, ops, parts, disconnects) ==
    [founders |-> founders, enters |-> enters, ops |-> ops, parts |-> parts,
     disconnects |-> disconnects, may |-> [x \in Client |-> Anything],
     whom |-> SUBSET Client, options |-> {}, habits |-> {}, sync |-> FALSE]

OnlyA == <<a>>
AandB == <<a, b>>
AllThree == <<a, b, c>>

Some(who, whatTheyMay) ==
    [x \in {a, b, c} |-> IF x \in who THEN whatTheyMay ELSE {}]

(* The transport delivers several packets per task.  The first member      *)
(* parts; or it is disconnected, and may enter again while the others      *)
(* exclude it; or a change is made while somebody enters.                  *)
InOneTask ==
    {[sc EXCEPT !.sync = TRUE] :
        sc \in {[Course(AllThree, 0, 0, 1, 0) EXCEPT !.may = Some({a}, {"parts"})],
               [Course(AllThree, 1, 0, 0, 1) EXCEPT !.may = Some({a}, {"enters", "disconnects"})],
               Course(AandB, 1, 1, 0, 0)}}

(* With both options: one user enters, parts and enters again; or enters   *)
(* and is disconnected.                                                    *)
WithOptions ==
    {[sc EXCEPT !.may[c] = {}, !.options = {"autoIncludeExtra", "stayIfLastMember"}] :
        sc \in {Course(OnlyA, 2, 0, 1, 0), Course(OnlyA, 1, 0, 0, 1)}}

(* Two changes that compete or depend on one another; a disconnection      *)
(* during a change; a client that enters while the sole founder makes a    *)
(* change; parting, alone or with somebody entering; and leaving by any of *)
(* these ways with somebody entering, or entering again.                   *)
MembershipScenarios ==
    {Course(AandB, 0, 2, 0, 0), Course(AandB, 0, 1, 0, 1), Course(OnlyA, 1, 1, 0, 0),
     Course(AllThree, 0, 0, 1, 0), Course(AandB, 1, 0, 1, 0), Course(AllThree, 1, 1, 0, 0),
     [Course(AllThree, 1, 0, 0, 1) EXCEPT !.may = Some({b, c}, {"enters", "disconnects"})]}
        \cup InOneTask \cup WithOptions

(* What has to end: a change with a disconnection; parting, which makes    *)
(* both others propose; an exclusion of three; a change and an entry; and  *)
(* what the options do.                                                    *)
EndingScenarios ==
    {Course(AandB, 0, 1, 0, 1), Course(AllThree, 0, 0, 1, 0),
     Course(AllThree, 0, 1, 0, 0), Course(AandB, 1, 1, 0, 0)}
        \cup WithOptions

ChangeAndDisconnection == {Course(AandB, 0, 1, 0, 1)}
LeaveAndReturn == {Course(AandB, 1, 1, 1, 1)}

(* The same with a transport that delivers several packets per task.       *)
ChangeInOneTask == {[Course(AandB, 0, 1, 0, 1) EXCEPT !.sync = TRUE]}

(* Of four, one excludes another, a third is disconnected meanwhile, and   *)
(* the excluded one excludes both who are not there for it.                *)
TwoExclusions ==
    {[Course(<<a, b, c, d>>, 0, 2, 0, 1)
         EXCEPT !.may = (a :> {"ops"}) @@ (b :> {"ops"}) @@ (c :> {"disconnects"}) @@ (d :> {}),
                !.whom = {{b}, {a, c}}]}
=============================================================================
