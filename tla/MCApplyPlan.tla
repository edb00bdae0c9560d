---------------------------- MODULE MCApplyPlan -----------------------------
(* Instances of ApplyPlan for TLC.                                         *)
EXTENDS ApplyPlan

SoftFaults == {"lost", "ack"}
AllFaults  == FaultKinds

E(kind, sid)  == [kind |-> kind, id |-> sid, valid |-> TRUE]
Invalid(sid)  == [kind |-> "limits", id |-> sid, valid |-> FALSE]

Settings ==
    { <<>>,
      <<E("limits", 1), E("speed", 2)>>,
      <<E("limits", 2), Invalid(3), E("torque", 1), E("baud", 2)>>,
      <<E("acc", 2), E("mode", 1), E("mode", 2)>> }

\* No new ID is in use, and no servo is given two.
FreshIds ==
    { <<>>, <<<<1, 4>>>>, <<<<2, 5>>>>, <<<<1, 4>>, <<2, 5>>>>, <<<<3, 4>>, <<1, 5>>>> }

FreshPlans == [assign : FreshIds, settings : Settings]

\* The theorems are about plans like these.
ASSUME FreshAssumption == Plans = FreshPlans => \A p \in Plans : Fresh(p)

\* Servo 2 makes room for servo 1.
ShiftPlans ==
    [assign : {<<<<2, 3>>, <<1, 2>>>>}, settings : {<<E("speed", 1)>>, <<E("limits", 1)>>}]
=============================================================================
