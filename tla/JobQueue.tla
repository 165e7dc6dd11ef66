----------------------------- MODULE JobQueue -----------------------------
(***************************************************************************)
(* What the runtime queue promises its users, with every call one atomic   *)
(* step and no clock: a job has at most one holder, is handed out at most  *)
(* MaxTries times, only a held job gets an outcome, a parked job goes back *)
(* to waiting, and a done or cancelled job never changes again.            *)
(***************************************************************************)
EXTENDS Naturals

CONSTANTS Jobs, Holders, Nobody, MaxTries

VARIABLES job, holder, tries
vars == <<job, holder, tries>>

JobStates == {"absent", "waiting", "held", "parked", "done", "cancelled"}

Init ==
    /\ job = [j \in Jobs |-> "absent"]
    /\ holder = [j \in Jobs |-> Nobody]
    /\ tries = [j \in Jobs |-> 0]

Move(j, from, to) ==
    /\ job[j] \in from
    /\ job' = [job EXCEPT ![j] = to]

Submit(j) ==
    /\ Move(j, {"absent"}, "waiting")
    /\ holder' = [holder EXCEPT ![j] = Nobody]
    /\ UNCHANGED tries

\* A waiting job, or one whose holder is taken for dead, gets a new holder.
Assign(j, h) ==
    /\ tries[j] < MaxTries[j]
    /\ Move(j, {"waiting", "held"}, "held")
    /\ holder' = [holder EXCEPT ![j] = h]
    /\ tries' = [tries EXCEPT ![j] = @ + 1]

Report(j, outcome) ==
    /\ outcome \in {"done", "parked"}
    /\ Move(j, {"held"}, outcome)
    /\ UNCHANGED <<holder, tries>>

Cancel(j) ==
    /\ Move(j, {"waiting", "held", "parked"}, "cancelled")
    /\ UNCHANGED <<holder, tries>>

Reopen(j) ==
    /\ Move(j, {"parked"}, "waiting")
    /\ holder' = [holder EXCEPT ![j] = Nobody]
    /\ UNCHANGED tries

Next ==
    \E j \in Jobs :
        \/ Submit(j) \/ Cancel(j) \/ Reopen(j)
        \/ \E h \in Holders : Assign(j, h)
        \/ \E o \in {"done", "parked"} : Report(j, o)

Spec == Init /\ [][Next]_vars
===========================================================================
