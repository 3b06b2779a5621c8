--------------------------- MODULE MCServerOrder ---------------------------
(***************************************************************************)
(* An instance of ServerOrderClient: competing initial packets, two final  *)
(* packets for one of them, operations that follow a completed one or one  *)
(* that a departure ended, and operations of a single packet, one of them  *)
(* not for the owner.                                                      *)
(***************************************************************************)
EXTENDS ServerOrderClient

CONSTANTS a, b

BothMembers == {a, b}

NewPacket(n) == [k |-> "new", n |-> n]
InitId(n) == [k |-> "init", n |-> n]
Departure(of) == [k |-> "leave", of |-> of, who |-> {b}, to |-> {a}]
FinalId(n) == [k |-> "confirm", n |-> n]

Initial(n, prevPf, who) ==
    [pId |-> InitId(n), initial |-> TRUE, final |-> FALSE, members |-> who,
     prevPf |-> prevPf, prevCh |-> << <<prevPf, "new">> >>, prevPi |-> NoId]
Single(n, prevPf, who) ==
    [pId |-> InitId(n), initial |-> TRUE, final |-> TRUE, members |-> who,
     prevPf |-> prevPf, prevCh |-> << <<prevPf, "new">> >>, prevPi |-> InitId(n)]
Final(n, prevPi) ==
    [pId |-> FinalId(n), initial |-> FALSE, final |-> TRUE, members |-> {a, b},
     prevPf |-> NoId, prevCh |-> <<>>, prevPi |-> prevPi]

PossiblePackets ==
    { Initial(1, NewPacket(1), {a, b}), Initial(2, NewPacket(1), {a, b}),
      Final(1, InitId(1)), Final(2, InitId(1)), Final(3, InitId(2)),
      Initial(3, FinalId(1), {a, b}), Final(4, InitId(3)),
      Single(4, FinalId(1), {a}), Single(5, NewPacket(1), {b}), Single(6, FinalId(3), {a}),
      Single(7, Departure(InitId(1)), {a}), Initial(8, Departure(InitId(2)), {a, b}), Final(5, InitId(8)) }
PossibleNewIds == {NewPacket(1)}
=============================================================================
