------------------------------ MODULE MCRelay ------------------------------
(* Small instances of Relay.                                               *)
EXTENDS Relay, TLC

CONSTANTS a1, m1

MCInbox == [m \in Messages |-> a1]
Symm == Permutations(Procs)
===========================================================================
