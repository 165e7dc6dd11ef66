--------------------------- MODULE MCNightWorker ---------------------------
(* Small instances of NightWorker for TLC.                                 *)
EXTENDS NightWorker, TLC

CONSTANTS i1, i2

MCPriority == [i \in Items |-> IF i = i1 THEN 1 ELSE 2]
MCMaxAttempts == [i \in Items |-> IF i = i1 THEN 2 ELSE 1]
MCUrgentOnce == [i \in Items |-> IF i = i1 THEN 1 ELSE 2]
MCStopFiled == {i1} \cap Items
MCNoStopFile == {}

Symm == Permutations(Workers)
===========================================================================
