---------------------------- MODULE NightWorker ----------------------------
(***************************************************************************)
(* The night daemon's worker loop over the runtime queue                   *)
(* (_run_runtime_queue_night_daemon in quantagent/desktop_night_daemon.py):*)
(* claim an item, heartbeat once, run the desktop daemon on it (which can  *)
(* take longer than the lease: nothing renews it meanwhile), heartbeat     *)
(* again, write the outcome.  A ValueError of a queue call is not caught:  *)
(* it ends the worker.  The queue calls are the actions of RuntimeQueue.   *)
(***************************************************************************)
EXTENDS RuntimeQueue

CONSTANTS
    Watch,          \* --watch: poll again when nothing is queued
    MaxTasks,       \* max_tasks; a number no run reaches stands for None
    Deadline,       \* the monotonic deadline of max_minutes
    FailurePause,   \* failure_pause: failed runs are paused
    MayStop         \* bound: FALSE leaves out the stops of operators

ASSUME WorkerAssumption ==
    /\ Watch \in BOOLEAN /\ FailurePause \in BOOLEAN /\ MayStop \in BOOLEAN
    /\ MaxTasks \in Nat /\ Deadline \in Nat

VARIABLES
    pc,         \* where each worker is in the loop
    task,       \* active_task_id
    final,      \* final_status of the run, and "none" before
    processed,  \* processed counter
    held,       \* until when each worker last leased its task
    stopPath    \* the night daemon's own STOP file exists

workerVars == <<pc, task, final, processed, held>>
allVars == <<vars, workerVars, stopPath>>

Active == {"beat1", "run", "beat2", "finish"}   \* on an item
Gone == {"exited", "crashed"}
PCs == {"loop", "claim"} \cup Active \cup Gone

WInit ==
    /\ Init
    /\ pc = [w \in Workers |-> "loop"]
    /\ task = [w \in Workers |-> NoItem]
    /\ final = [w \in Workers |-> "none"]
    /\ processed = [w \in Workers |-> 0]
    /\ held = [w \in Workers |-> 0]
    /\ stopPath = FALSE

Go(w, to) == pc' = [pc EXCEPT ![w] = to]

---------------------------------------------------------------------------
\* The three exits at the head of the loop, before anything is claimed.
LeaveLoop(w) ==
    /\ pc[w] = "loop"
    /\ stopPath \/ now > Deadline \/ processed[w] >= MaxTasks
    /\ Go(w, "exited")
    /\ UNCHANGED <<vars, task, final, processed, held, stopPath>>

StartClaim(w) ==
    /\ pc[w] = "loop"
    /\ ~stopPath /\ now <= Deadline /\ processed[w] < MaxTasks
    /\ ClaimBegin(w)
    /\ Go(w, "claim")
    /\ UNCHANGED <<task, final, processed, held, stopPath>>

Claimed(w, i) ==
    /\ pc[w] = "claim"
    /\ ClaimItem(w, i)
    /\ task' = [task EXCEPT ![w] = i]
    /\ held' = [held EXCEPT ![w] = lease'[i]]
    /\ Go(w, "beat1")
    /\ UNCHANGED <<final, processed, stopPath>>

NothingQueued(w) ==
    /\ pc[w] = "claim"
    /\ ClaimNothing(w)
    /\ Go(w, IF Watch THEN "loop" ELSE "exited")
    /\ UNCHANGED <<task, final, processed, held, stopPath>>

Beat(w) ==
    /\ pc[w] \in {"beat1", "beat2"}
    /\ HeartbeatCheck(w, task[w])
    /\ UNCHANGED <<workerVars, stopPath>>

\* Faulty variant of BeatWritten: the status of the returned row is ignored.
BeatWrittenBlind(w) ==
    /\ pc[w] \in {"beat1", "beat2"}
    /\ HeartbeatRenew(w) \/ HeartbeatStop(w)
    /\ Go(w, IF pc[w] = "beat1" THEN "run" ELSE "finish")
    /\ held' = [held EXCEPT ![w] = lease'[task[w]]]
    /\ UNCHANGED <<task, final, processed, stopPath>>

\* The heartbeat returns the row as it now is: a row that turned out stopped
\* ends the worker, any other lets it go on.
BeatWritten(w) ==
    /\ pc[w] \in {"beat1", "beat2"}
    /\ HeartbeatRenew(w) \/ HeartbeatStop(w)
    /\ Go(w, IF status'[task[w]] = "stopped" THEN "exited"
             ELSE IF pc[w] = "beat1" THEN "run" ELSE "finish")
    /\ held' = [held EXCEPT ![w] = lease'[task[w]]]
    /\ UNCHANGED <<task, final, processed, stopPath>>

\* Faulty variant of OnFailure: a status no queue call accepts.
OnFailureLost == "lost"

OnFailure == IF FailurePause THEN "paused" ELSE "failed"

\* run_desktop_daemon returns; _map_daemon_status and failure_pause decide.
RunReturns(w, result) ==
    /\ pc[w] = "run"
    /\ final' = [final EXCEPT ![w] = IF result = "failed" THEN OnFailure ELSE result]
    /\ processed' = [processed EXCEPT ![w] = @ + 1]
    /\ Go(w, "beat2")
    /\ UNCHANGED <<vars, task, held, stopPath>>

\* run_desktop_daemon raises: the outcome is written without a heartbeat.
RunRaises(w) ==
    /\ pc[w] = "run"
    /\ final' = [final EXCEPT ![w] = OnFailure]
    /\ Go(w, "finish")
    /\ UNCHANGED <<vars, task, processed, held, stopPath>>

\* Faulty variant of Report: the outcome is written without the owner check.
ReportUnchecked(w) ==
    /\ pc[w] = "finish"
    /\ Check(w, "finish", task[w], final[w])
    /\ UNCHANGED <<workerVars, stopPath>>

\* _finish_runtime_queue_task: "stopped" goes through stop, the rest through
\* complete / block / pause / fail.
Report(w) ==
    /\ pc[w] = "finish"
    /\ \/ final[w] = "stopped" /\ StopCheck(w, task[w])
       \/ final[w] # "stopped" /\ FinishCheck(w, task[w], final[w])
    /\ UNCHANGED <<workerVars, stopPath>>

Reported(w) ==
    /\ pc[w] = "finish"
    /\ FinishWrite(w) \/ StopWrite(w)
    /\ Go(w, IF final[w] = "done" THEN "loop" ELSE "exited")
    /\ UNCHANGED <<task, final, processed, held, stopPath>>

\* A queue call raises ValueError: the item is no longer this worker's.
Rejected(w) ==
    /\ call[w] = Idle /\ LockFree
    /\ \/ pc[w] \in {"beat1", "beat2"} /\ ~OwnsRunning(w, task[w])
       \/ pc[w] = "finish" /\ final[w] # "stopped" /\ ~OwnsRunning(w, task[w])
       \/ /\ pc[w] = "finish" /\ final[w] = "stopped"
          /\ \/ status[task[w]] \in Terminal
             \/ status[task[w]] = "running" /\ owner[task[w]] # w
    /\ Go(w, "crashed")
    /\ UNCHANGED <<vars, task, final, processed, held, stopPath>>

\* The process dies anywhere; an open transaction rolls back.
Die(w) ==
    /\ pc[w] \notin Gone
    /\ Go(w, "crashed")
    /\ Return(w)
    /\ UNCHANGED <<rows, stopFile, now, task, final, processed, held, stopPath>>

ToggleStopPath ==
    /\ MayStop
    /\ stopPath' = ~stopPath
    /\ UNCHANGED <<vars, workerVars>>

WStep(w) ==
    \/ LeaveLoop(w) \/ StartClaim(w) \/ NothingQueued(w)
    \/ \E i \in Items : Claimed(w, i)
    \/ Beat(w) \/ BeatWritten(w)
    \/ \E r \in {"done", "failed", "blocked", "stopped"} : RunReturns(w, r)
    \/ RunRaises(w) \/ Report(w) \/ Reported(w) \/ Rejected(w)

\* Operators and time, as in RuntimeQueue.
Surroundings ==
    /\ \/ \E c \in Clients : \/ ClientStep(c) \/ StopWrite(c) \/ Abort(c)
                             \/ MayStop /\ \E i \in Items : StopCheck(c, i)
       \/ \E i \in StopFiled : ToggleStopFile(i)
       \/ Tick
    /\ UNCHANGED <<workerVars, stopPath>>

WNext ==
    \/ \E w \in Workers : WStep(w) \/ Die(w)
    \/ Surroundings
    \/ ToggleStopPath

WSpec == WInit /\ [][WNext]_allVars

\* A live worker process is scheduled, the clock runs, and a client inside a
\* call returns from it; nobody has to die, enqueue, stop or resume.
WFairSpec ==
    /\ WSpec
    /\ \A w \in Workers : WF_allVars(WStep(w))
    /\ \A c \in Clients : WF_allVars((ResumeWrite(c) \/ StopWrite(c))
                                     /\ UNCHANGED <<workerVars, stopPath>>)
    /\ WF_allVars(Tick /\ UNCHANGED <<workerVars, stopPath>>)

---------------------------------------------------------------------------
(* Properties.                                                             *)

\* Types of the worker's own state.
WTypeOK ==
    /\ TypeOK
    /\ pc \in [Workers -> PCs]
    /\ task \in [Workers -> Items \cup {NoItem}]
    /\ final \in [Workers -> Outcomes \cup {"stopped", "none"}]
    /\ processed \in [Workers -> Nat]
    /\ held \in [Workers -> Nat]
    /\ stopPath \in BOOLEAN

\* Two workers are on the same item, between their claim and their report, only
\* if one of them outlived the lease it last wrote.  Holds where check and write
\* are one transaction.
OverlapOnlyAfterExpiry ==
    \A v, w \in Workers :
        /\ v # w
        /\ pc[v] \in Active /\ pc[w] \in Active
        /\ task[v] = task[w]
        => held[v] < now \/ held[w] < now

\* The desktop daemon is started on an item only while the row says that this
\* worker is running it: a stop, or another worker's claim, that came before
\* the first heartbeat keeps the side effects from happening.
RunsOnlyOwnItems ==
    [][\A w \in Workers :
        pc[w] # "run" /\ pc'[w] = "run"
            => status'[task[w]] = "running" /\ owner'[task[w]] = w]_allVars

AllGone == \A w \in Workers : pc[w] \in Gone

\* A waiting item that may still be tried does not wait for ever while some
\* worker lives: not behind more urgent items that are enqueued after it,
\* retried, resumed or resumed when they may not be tried any more, and not
\* when it was itself resumed after a failed attempt.
QueuedIsTaken ==
    \A i \in Items :
        status[i] = "queued" /\ attempts[i] < MaxAttempts[i]
            ~> status[i] # "queued" \/ AllGone

\* The row names a dead worker.
Abandoned(i) == status[i] = "running" /\ \E w \in Workers : owner[i] = w /\ pc[w] = "crashed"

\* The item of a dead worker is taken over once its lease runs out (and the
\* model's clock gets there), while it may still be tried and a worker lives.
DeadWorkersItemIsTaken ==
    \A i \in Items :
        Abandoned(i) /\ lease[i] < MaxTime /\ attempts[i] < MaxAttempts[i]
            ~> ~Abandoned(i) \/ AllGone

\* The loop uses the queue only through its operations.
UsesQueue == Spec
===========================================================================
