------------------------------- MODULE MCQueue -------------------------------
EXTENDS QueueProperties

CONSTANTS a, a2, b

DeviceUsers == [m \in {Owner, a, a2, b} |-> IF m = a2 THEN a ELSE m]

Scenario(sends, resends, answers, bodies, parts, changes, autoSendOffline) ==
    [sends |-> sends, resends |-> resends, answers |-> answers, bodies |-> bodies,
     parts |-> parts, changes |-> changes, autoSendOffline |-> autoSendOffline]

(* Somebody comes and goes; a user changes the device; the owner leaves    *)
(* and comes back.                                                         *)
ComesAndGoes == <<{Owner, a}, {Owner, a, b}, {Owner, a}>>
Devices == <<{Owner, a}, {Owner, a, a2}, {Owner, a2}>>
LeavesAndReturns == <<{Owner, a}, {}, {Owner, a}>>

Queues ==
    {Scenario(1, 0, 1, {"ack"}, 0, ComesAndGoes, FALSE),
     Scenario(1, 0, 1, {"payload"}, 0, Devices, FALSE),
     Scenario(2, 0, 0, {"ack"}, 0, Devices, FALSE),
     Scenario(1, 1, 0, {"ack"}, 1, <<{Owner, a}, {Owner, a, a2}>>, FALSE),
     Scenario(2, 0, 2, {"payload", "ack"}, 0, LeavesAndReturns, FALSE),
     Scenario(2, 0, 1, {"ack"}, 0, LeavesAndReturns, TRUE),
     Scenario(1, 1, 1, {"ack"}, 1, LeavesAndReturns, TRUE)}
=============================================================================
