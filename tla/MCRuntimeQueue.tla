-------------------------- MODULE MCRuntimeQueue --------------------------
(* Small instances of RuntimeQueue for TLC.                                *)
EXTENDS RuntimeQueue, TLC

CONSTANT i1

\* i1 is the more urgent item, may be run twice and has a stop file; the other
\* may be run once.
MCPriority == [i \in Items |-> IF i = i1 THEN 1 ELSE 2]
MCMaxAttempts == [i \in Items |-> IF i = i1 THEN 2 ELSE 1]
MCStopFiled == {i1}

Symm == Permutations(Workers)
===========================================================================
