------------------------------ MODULE NightQueue ------------------------------
(***************************************************************************)
(* The night daemon's own queue (quantagent/desktop_night_daemon.py): one  *)
(* JSON file that workers and operator commands read, change and replace   *)
(* as a whole inside a file lock.  The lock is flock where fcntl exists,   *)
(* and a marker file elsewhere, which outlives a process that dies in its  *)
(* section.  Unlike the runtime queue it has no leases: a task belongs to  *)
(* the worker that claimed it until that worker writes its outcome.        *)
(*                                                                         *)
(* attempts and max_attempts are left out: nothing reads them.  The claim  *)
(* orders by priority and creation; here equal priorities are left open.   *)
(***************************************************************************)
EXTENDS Naturals, FiniteSets

CONSTANTS
    Tasks,
    Workers,        \* processes in run_night_daemon
    Clients,        \* processes that enqueue, stop and resume
    NoTask,
    NoProc,
    DeadProc,       \* whoever left a marker file
    Priority,       \* [Tasks -> Nat], smaller is claimed first
    Watch,          \* --watch
    FailurePause    \* failure_pause

ASSUME NightQueueAssumption ==
    /\ NoTask \notin Tasks
    /\ NoProc # DeadProc /\ {NoProc, DeadProc} \cap (Workers \cup Clients) = {}
    /\ Workers \cap Clients = {}
    /\ Priority \in [Tasks -> Nat]
    /\ Watch \in BOOLEAN /\ FailurePause \in BOOLEAN

VARIABLES
    status,     \* the queue file: the status of each task
    stopPath,   \* the STOP file exists
    fcntl,      \* the platform has fcntl
    lock,       \* the process inside the lock
    seen,       \* the queue as the process inside the lock has read it
    pc,         \* where each worker is
    task,       \* active_task_id
    final,      \* the outcome it is about to write
    want        \* the command each client is in

worker == <<pc, task, final>>
vars == <<status, stopPath, fcntl, lock, seen, worker, want>>

Procs == Workers \cup Clients
Outcomes == {"done", "failed", "paused", "blocked", "stopped"}
Statuses == {"absent", "queued", "running"} \cup Outcomes
Terminal == {"done", "failed", "stopped"}
Gone == {"exited", "crashed"}

Unread == [t \in Tasks |-> "absent"]
NoCommand == [op |-> "none", tasks |-> {}, from |-> {}]

Init ==
    /\ status = [t \in Tasks |-> "absent"]
    /\ stopPath = FALSE
    /\ fcntl \in BOOLEAN
    /\ lock = NoProc
    /\ seen = [p \in Procs |-> Unread]
    /\ pc = [w \in Workers |-> "loop"]
    /\ task = [w \in Workers |-> NoTask]
    /\ final = [w \in Workers |-> "none"]
    /\ want = [c \in Clients |-> NoCommand]

Go(w, to) == pc' = [pc EXCEPT ![w] = to]

\* What a worker holds in memory goes with its turn, or with its process.
Forgets(w) ==
    /\ task' = [task EXCEPT ![w] = NoTask]
    /\ final' = [final EXCEPT ![w] = "none"]

---------------------------------------------------------------------------
(* _locked_queue                                                           *)

Waits(p) == (p \in Workers /\ pc[p] \in {"claim", "complete"})
            \/ (p \in Clients /\ want[p] # NoCommand)

\* Faulty variant of Enter: the file is read before the lock is there.
EnterEarly(p) ==
    /\ Waits(p) /\ lock # p
    /\ \/ seen' = [seen EXCEPT ![p] = status] /\ UNCHANGED lock
       \/ lock = NoProc /\ (seen[p] # Unread \/ status = Unread) /\ lock' = p /\ UNCHANGED seen
    /\ UNCHANGED <<status, stopPath, fcntl, worker, want>>

Enter(p) ==
    /\ Waits(p) /\ lock = NoProc
    /\ lock' = p
    /\ seen' = [seen EXCEPT ![p] = status]
    /\ UNCHANGED <<status, stopPath, fcntl, worker, want>>

\* The end of a section: the file is replaced by what was read, with the tasks
\* of S changed to s.
Replace(p, S, s) ==
    /\ lock = p
    /\ status' = [t \in Tasks |-> IF t \in S THEN s ELSE seen[p][t]]
    /\ lock' = NoProc
    /\ seen' = [seen EXCEPT ![p] = Unread]
    /\ UNCHANGED <<stopPath, fcntl>>

---------------------------------------------------------------------------
(* Workers: _run_legacy_night_daemon.                                      *)

\* The STOP file, the deadline or max_tasks ends the loop.
LeaveLoop(w) ==
    /\ pc[w] = "loop"
    /\ Go(w, "exited")
    /\ UNCHANGED <<status, stopPath, fcntl, lock, seen, task, final, want>>

StartClaim(w) ==
    /\ pc[w] = "loop"
    /\ ~stopPath
    /\ Go(w, "claim")
    /\ UNCHANGED <<status, stopPath, fcntl, lock, seen, task, final, want>>

\* Faulty variant of Queued: nothing is claimed while a task is running.
QueuedAlone(q) == {t \in Tasks : q[t] = "queued" /\ \A u \in Tasks : q[u] # "running"}

Queued(q) == {t \in Tasks : q[t] = "queued"}

\* _claim_next_task
Claim(w, t) ==
    /\ pc[w] = "claim"
    /\ t \in Queued(seen[w])
    /\ \A u \in Queued(seen[w]) : Priority[t] <= Priority[u]
    /\ Replace(w, {t}, "running")
    /\ task' = [task EXCEPT ![w] = t]
    /\ Go(w, "run")
    /\ UNCHANGED <<final, want>>

NothingQueued(w) ==
    /\ pc[w] = "claim"
    /\ Queued(seen[w]) = {}
    /\ Replace(w, {}, "queued")
    /\ Go(w, IF Watch THEN "loop" ELSE "exited")
    /\ UNCHANGED <<task, final, want>>

\* Faulty variant of RunEnds: the daemon's own status is kept as it is.
RunEndsUnmapped(w, result) ==
    /\ pc[w] = "run"
    /\ final' = [final EXCEPT ![w] = IF result = "failed" THEN "max_steps" ELSE result]
    /\ Go(w, "complete")
    /\ UNCHANGED <<status, stopPath, fcntl, lock, seen, task, want>>

\* run_desktop_daemon returns or raises; _map_daemon_status and failure_pause.
RunEnds(w, result) ==
    /\ pc[w] = "run"
    /\ final' = [final EXCEPT ![w] = IF result = "failed" /\ FailurePause
                                     THEN "paused" ELSE result]
    /\ Go(w, "complete")
    /\ UNCHANGED <<status, stopPath, fcntl, lock, seen, task, want>>

\* _complete_task writes its outcome over whatever the status is by now; any
\* but "done" ends the worker.
Complete(w) ==
    /\ pc[w] = "complete"
    /\ Replace(w, {task[w]}, final[w])
    /\ Go(w, IF final[w] = "done" THEN "loop" ELSE "exited")
    /\ Forgets(w)
    /\ UNCHANGED want

\* TimeoutError: nobody catches it.
TimesOut(w) ==
    /\ pc[w] \in {"claim", "complete"}
    /\ lock \notin {NoProc, w}
    /\ Go(w, "crashed")
    /\ Forgets(w)
    /\ UNCHANGED <<status, stopPath, fcntl, lock, seen, want>>

\* The process dies.  flock goes with it, a marker file stays.
Unlocked(p) ==
    /\ lock' = CASE lock # p -> lock [] fcntl -> NoProc [] OTHER -> DeadProc
    /\ seen' = [seen EXCEPT ![p] = Unread]

Die(w) ==
    /\ pc[w] \notin Gone
    /\ Go(w, "crashed")
    /\ Unlocked(w)
    /\ Forgets(w)
    /\ UNCHANGED <<status, stopPath, fcntl, want>>

---------------------------------------------------------------------------
(* Operators: enqueue_night_task, stop_night_daemon, resume_night_daemon.  *)

Command(c, op, S, from) ==
    /\ want[c] = NoCommand
    /\ want' = [want EXCEPT ![c] = [op |-> op, tasks |-> S, from |-> from]]
    /\ UNCHANGED <<status, fcntl, lock, seen, worker>>

EnqueueBegin(c, t) == Command(c, "queued", {t}, {"absent"}) /\ UNCHANGED stopPath

\* The STOP file comes first; without a task that is all.
StopAll(c) ==
    /\ want[c] = NoCommand
    /\ stopPath' = TRUE
    /\ UNCHANGED <<status, fcntl, lock, seen, worker, want>>

StopBegin(c, S) ==
    /\ Command(c, "stopped", S, Statuses \ (Terminal \cup {"absent"}))
    /\ stopPath' = TRUE

\* Faulty variant of Resumable: stopped tasks too.
ResumableStopped(includeFailed) == {"paused", "blocked", "stopped"}

Resumable(includeFailed) ==
    {"paused", "blocked"} \cup (IF includeFailed THEN {"failed"} ELSE {})

ResumeBegin(c, S, includeFailed) ==
    /\ Command(c, "queued", S, Resumable(includeFailed))
    /\ stopPath' = FALSE

\* The section of a command: every task in one of the states it is for.
CommandEnds(c) ==
    LET d == want[c] IN
    /\ d # NoCommand
    /\ Replace(c, {t \in d.tasks : seen[c][t] \in d.from}, d.op)
    /\ want' = [want EXCEPT ![c] = NoCommand]
    /\ UNCHANGED worker

\* TimeoutError, or the process dies, inside its section or before it.
CommandFails(c) ==
    /\ want[c] # NoCommand
    /\ Unlocked(c)
    /\ want' = [want EXCEPT ![c] = NoCommand]
    /\ UNCHANGED <<status, stopPath, fcntl, worker>>

---------------------------------------------------------------------------
WorkerStep(w) ==
    \/ LeaveLoop(w) \/ StartClaim(w) \/ Enter(w)
    \/ \E t \in Tasks : Claim(w, t)
    \/ NothingQueued(w)
    \/ \E r \in {"done", "failed", "blocked", "stopped"} : RunEnds(w, r)
    \/ Complete(w) \/ TimesOut(w)

ClientStep(c) ==
    \/ \E t \in Tasks : EnqueueBegin(c, t)
    \/ StopAll(c)
    \/ \E S \in {{t} : t \in Tasks} \cup {Tasks} :
        \/ StopBegin(c, S)
        \/ \E f \in BOOLEAN : ResumeBegin(c, S, f)
    \/ Enter(c) \/ CommandEnds(c) \/ CommandFails(c)

Next ==
    \/ \E w \in Workers : WorkerStep(w) \/ Die(w)
    \/ \E c \in Clients : ClientStep(c)

Spec == Init /\ [][Next]_vars

\* Workers are scheduled; no operator has to do anything.
FairSpec == Spec /\ \A w \in Workers : WF_vars(WorkerStep(w))

---------------------------------------------------------------------------
(* Properties.                                                             *)

\* Type correctness of the file and of everybody's progress.
TypeOK ==
    /\ status \in [Tasks -> Statuses]
    /\ stopPath \in BOOLEAN /\ fcntl \in BOOLEAN
    /\ lock \in Procs \cup {NoProc, DeadProc}
    /\ seen \in [Procs -> [Tasks -> Statuses]]
    /\ pc \in [Workers -> {"loop", "claim", "run", "complete"} \cup Gone]
    /\ task \in [Workers -> Tasks \cup {NoTask}]
    /\ final \in [Workers -> Outcomes \cup {"none"}]
    /\ want \in [Clients -> [op : {"none", "queued", "stopped"}, tasks : SUBSET Tasks,
                             from : SUBSET Statuses]]

\* The worker is between its claim of t and the outcome it writes for t.
On(w, t) == pc[w] \in {"run", "complete"} /\ task[w] = t

\* Two workers are never on one task, however often it is paused, resumed and
\* stopped meanwhile: only the worker itself makes its task claimable again.
TasksRunAlone ==
    \A v, w \in Workers, t \in Tasks : On(v, t) /\ On(w, t) => v = w

\* A done task is never queued, run or stopped again, nor is a stopped one that
\* nobody is running; no command and no late worker writes an old copy of the
\* file over it.  (A stopped task that is running gets the outcome of its run.)
EndedStays ==
    [][\A t \in Tasks :
        \/ status[t] = "done"
        \/ status[t] = "stopped" /\ (\A w \in Workers : ~On(w, t))
        => status'[t] = status[t]]_vars

\* The queue file under its lock amounts to atomic steps on a board.
Board == INSTANCE TaskBoard WITH board <- status, on <- task

\* Every section that reads the whole file and replaces it is one of the steps
\* of TaskBoard: no write is lost or undone by another's, and the most urgent
\* task of the file is claimed, not that of an old copy.
ImplementsTaskBoard == Board!Spec

AllGone == \A w \in Workers : pc[w] \in Gone

\* While a watching worker lives a queued task is claimed or stopped in the
\* end, also after other workers died with tasks or inside their sections.
QueuedIsTaken == \A t \in Tasks : status[t] = "queued" ~> status[t] # "queued" \/ AllGone
===============================================================================
