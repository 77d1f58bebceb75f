-------------------------- MODULE MarkerControlMC --------------------------
(* Instances of MarkerControl for TLC: two settings of the pin beside off, *)
(* and a budget for each of the actors to have the most to do.             *)
EXTENDS MarkerControl

PinSetting(on, mode, follow) == [on |-> on, mode |-> mode, follow |-> follow]
ControlPins ==
  {PinSetting(TRUE, "replace", 0), PinSetting(TRUE, "replace", 1), PinSetting(TRUE, "assist", 0)}

Budget(opens, asks, strokes, edits) == 
  [opens |-> opens, asks |-> asks, strokes |-> strokes, edits |-> edits]
ControlBudgets == 
  {Budget(2, 3, 0, 0), Budget(3, 1, 0, 0), Budget(1, 1, 2, 1), Budget(0, 0, 2, 3)}
=============================================================================
