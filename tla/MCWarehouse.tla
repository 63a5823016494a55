---------------------------- MODULE MCWarehouse ----------------------------
(* Instances of Warehouse for TLC.                                         *)
EXTENDS Warehouse

Task(item, dest) == [item |-> item, dest |-> dest]
\* Tasks for the first and for the second robot.  Items 4 and 5 lie behind a
\* bottleneck: two robots that want them block each other and one backs off.
Pairs ==
  {[i \in Robots |-> IF i = 0 THEN s ELSE t] :
     s \in {Task(1, "A"), Task(4, "B"), Task(5, "C")},
     t \in {Task(4, "C"), Task(5, "A"), Task(7, "B")}}

\* "automated_warehouse 3 1C:3A:1A".
Oscillating ==
  {[i \in Robots |-> << Task(1, "C"), Task(3, "A"), Task(1, "A") >>[i + 1]]}
=============================================================================
