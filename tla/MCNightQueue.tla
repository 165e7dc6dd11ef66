---------------------------- MODULE MCNightQueue ----------------------------
(* A small instance of NightQueue: the first task is the more urgent one.   *)
EXTENDS NightQueue

CONSTANT t1

MCPriority == [t \in Tasks |-> IF t = t1 THEN 1 ELSE 2]
===============================================================================
