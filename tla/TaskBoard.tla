----------------------------- MODULE TaskBoard -----------------------------
(***************************************************************************)
(* What the legacy night queue promises, with every command and every      *)
(* section of a worker one atomic step and no file or lock: a queued task  *)
(* nobody is on is taken by one worker, the most urgent first; only that   *)
(* worker writes its outcome, if it does not die before; operators enqueue *)
(* tasks once, stop those that have not ended and queue again those that   *)
(* are waiting for them.                                                   *)
(***************************************************************************)
EXTENDS Naturals

CONSTANTS Tasks, Workers, NoTask, Priority

VARIABLES board, on    \* the state of each task, and who is on which
vars == <<board, on>>

Outcomes == {"done", "failed", "paused", "blocked", "stopped"}

Init ==
    /\ board = [t \in Tasks |-> "absent"]
    /\ on = [w \in Workers |-> NoTask]

Take(w, t) ==
    /\ on[w] = NoTask /\ board[t] = "queued"
    /\ \A v \in Workers : on[v] # t
    /\ \A u \in Tasks : board[u] = "queued" => Priority[t] <= Priority[u]
    /\ board' = [board EXCEPT ![t] = "running"]
    /\ on' = [on EXCEPT ![w] = t]

\* Also when the task was stopped meanwhile.
Report(w, outcome) ==
    /\ on[w] # NoTask
    /\ board[on[w]] \in {"running", "stopped"}
    /\ board' = [board EXCEPT ![on[w]] = outcome]
    /\ on' = [on EXCEPT ![w] = NoTask]

\* The worker dies or gives up; its task stays as it is.
Abandon(w) ==
    /\ on' = [on EXCEPT ![w] = NoTask]
    /\ UNCHANGED board

Command(S, from, to) ==
    /\ board' = [t \in Tasks |-> IF t \in S /\ board[t] \in from THEN to ELSE board[t]]
    /\ UNCHANGED on

Enqueue(S) == Command(S, {"absent"}, "queued")
Stop(S) == Command(S, {"queued", "running", "paused", "blocked"}, "stopped")
Resume(S) == Command(S, {"paused", "blocked"}, "queued")
ResumeFailed(S) == Command(S, {"paused", "blocked", "failed"}, "queued")

Next ==
    \/ \E w \in Workers :
        \/ \E t \in Tasks : Take(w, t)
        \/ \E o \in Outcomes : Report(w, o)
        \/ Abandon(w)
    \/ \E S \in SUBSET Tasks : Enqueue(S) \/ Stop(S) \/ Resume(S) \/ ResumeFailed(S)

Spec == Init /\ [][Next]_vars
===========================================================================
