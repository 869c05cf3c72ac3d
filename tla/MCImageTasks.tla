------------------------------ MODULE MCImageTasks ------------------------------
(* A tag that moves between two images with a common blob, or one image of three  *)
(* targets, and task ids that tell all targets apart, or none because the         *)
(* requests give one content for calculating the task id.                         *)
EXTENDS ImageTasks

CONSTANTS m1, m2, b1, b2

Retagged == {{m1, b1}, {m2, b1}}
Fixed == {{m1, b1, b2}}
ById == [t \in Targets |-> t]
ByContent == [t \in Targets |-> m1]
================================================================================
