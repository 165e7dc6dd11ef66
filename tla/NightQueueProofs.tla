--------------------------- MODULE NightQueueProofs ---------------------------
(***************************************************************************)
(* The legacy night queue, for any tasks, workers and operators, with and  *)
(* without fcntl, whoever dies or times out: one worker per task, ended    *)
(* tasks stay as they are, and every section is a step of TaskBoard.       *)
(*                                                                         *)
(* The lock is the heart of it: nobody but the process inside changes the  *)
(* file, so what that process has read is what the file still says.        *)
(***************************************************************************)
EXTENDS NightQueue, TLAPS

\* Whoever is inside waits for nothing but its own section, and its copy of
\* the queue is the file.
InsideSeesFile ==
    \A p \in Procs : lock = p => Waits(p) /\ seen[p] = status

\* A claimed task is nobody else's to claim: it is running, or stopped.
ClaimedOrStopped ==
    \A w \in Workers, t \in Tasks : On(w, t) => status[t] \in {"running", "stopped"}

\* A command in progress is for the states of its kind: enqueue, resume with
\* and without the failed ones, stop.
CommandFor(d) ==
    \/ d = NoCommand
    \/ /\ d.op = "queued"
       /\ d.from \in {{"absent"}, {"paused", "blocked"}, {"paused", "blocked", "failed"}}
    \/ d.op = "stopped" /\ d.from = {"queued", "running", "paused", "blocked"}

CommandsInOrder == \A c \in Clients : CommandFor(want[c])

\* Whoever completes has a task and an outcome.
OutcomeKnown == \A w \in Workers : pc[w] = "complete" => final[w] \in Outcomes

QueueInv ==
    /\ TypeOK
    /\ OutcomeKnown
    /\ InsideSeesFile
    /\ ClaimedOrStopped
    /\ CommandsInOrder
    /\ TasksRunAlone

\* A section's end changes only the tasks it is about.
LEMMA SectionEnds ==
  ASSUME QueueInv, NEW p \in Procs, NEW S, NEW s, Replace(p, S, s)
  PROVE  \A t \in Tasks : status'[t] = IF t \in S THEN s ELSE status[t]
  BY DEF QueueInv, InsideSeesFile, Replace

---------------------------------------------------------------------------
(* Types.                                                                  *)

LEMMA QTypeInit == Init => TypeOK
<1> SUFFICES ASSUME Init PROVE TypeOK
  OBVIOUS
<1>1. status \in [Tasks -> Statuses] /\ Unread \in [Tasks -> Statuses]
  BY DEF Init, Unread, Statuses
<1>2. NoCommand \in [op : {"none", "queued", "stopped"}, tasks : SUBSET Tasks,
                     from : SUBSET Statuses]
  BY DEF NoCommand
<1>3. QED
  BY <1>1, <1>2 DEF Init, TypeOK

LEMMA ReplaceType ==
  ASSUME TypeOK, NEW p \in Procs, NEW S, NEW s \in Statuses, Replace(p, S, s)
  PROVE  /\ status' \in [Tasks -> Statuses] /\ stopPath' \in BOOLEAN /\ fcntl' \in BOOLEAN
         /\ lock' \in Procs \cup {NoProc, DeadProc}
         /\ seen' \in [Procs -> [Tasks -> Statuses]]
<1>1. Unread \in [Tasks -> Statuses]
  BY DEF Unread, Statuses
<1>2. QED
  BY <1>1 DEF TypeOK, Replace

LEMMA EnterType ==
  ASSUME TypeOK, NEW p \in Procs, Enter(p)
  PROVE  TypeOK'
  BY DEF TypeOK, Enter, worker

LEMMA UnlockedType ==
  ASSUME TypeOK, NEW p \in Procs, Unlocked(p)
  PROVE  /\ lock' \in Procs \cup {NoProc, DeadProc}
         /\ seen' \in [Procs -> [Tasks -> Statuses]]
<1>1. Unread \in [Tasks -> Statuses]
  BY DEF Unread, Statuses
<1>2. QED
  BY <1>1 DEF TypeOK, Unlocked

LEMMA QTypeStep == QueueInv /\ [Next]_vars => TypeOK'
<1> SUFFICES ASSUME QueueInv, [Next]_vars PROVE TypeOK'
  OBVIOUS
<1> TypeOK
  BY DEF QueueInv
<1> USE DEF Go, Gone, Forgets
<1>1. ASSUME NEW w \in Workers, WorkerStep(w) PROVE TypeOK'
  <2> w \in Procs
    BY DEF Procs
  <2>1. CASE LeaveLoop(w) \/ StartClaim(w) \/ TimesOut(w)
    BY <2>1 DEF LeaveLoop, StartClaim, TimesOut, TypeOK
  <2>2. CASE Enter(w)
    BY <2>2, EnterType
  <2>3. ASSUME NEW t \in Tasks, Claim(w, t) PROVE TypeOK'
    <3>1. Replace(w, {t}, "running") /\ "running" \in Statuses
      BY <2>3 DEF Claim, Statuses
    <3>2. QED
      BY <2>3, <3>1, ReplaceType DEF Claim, TypeOK
  <2>4. CASE NothingQueued(w)
    <3>1. Replace(w, {}, "queued") /\ "queued" \in Statuses
      BY <2>4 DEF NothingQueued, Statuses
    <3>2. QED
      BY <2>4, <3>1, ReplaceType DEF NothingQueued, TypeOK
  <2>5. ASSUME NEW r \in {"done", "failed", "blocked", "stopped"}, RunEnds(w, r)
        PROVE  TypeOK'
    BY <2>5 DEF RunEnds, TypeOK, Outcomes
  <2>6. CASE Complete(w)
    <3>1. Replace(w, {task[w]}, final[w]) /\ final[w] \in Statuses
      BY <2>6 DEF Complete, QueueInv, OutcomeKnown, Statuses
    <3>2. QED
      BY <2>6, <3>1, ReplaceType DEF Complete, TypeOK
  <2>7. QED
    BY <1>1, <2>1, <2>2, <2>3, <2>4, <2>5, <2>6 DEF WorkerStep
<1>2. ASSUME NEW w \in Workers, Die(w) PROVE TypeOK'
  BY <1>2, UnlockedType DEF Die, TypeOK, Procs
<1>3. ASSUME NEW c \in Clients, ClientStep(c) PROVE TypeOK'
  <2> c \in Procs
    BY DEF Procs
  <2>1. ASSUME NEW op \in {"queued", "stopped"}, NEW S \in SUBSET Tasks,
               NEW from \in SUBSET Statuses, Command(c, op, S, from),
               stopPath' \in BOOLEAN
        PROVE  TypeOK'
    BY <2>1 DEF Command, TypeOK, worker
  <2>2. ASSUME NEW t \in Tasks, EnqueueBegin(c, t) PROVE TypeOK'
    <3> {"absent"} \in SUBSET Statuses
      BY DEF Statuses
    <3> QED
      BY <2>1, <2>2 DEF EnqueueBegin, TypeOK
  <2>3. CASE StopAll(c)
    BY <2>3 DEF StopAll, TypeOK, worker
  <2>4. ASSUME NEW S \in SUBSET Tasks, StopBegin(c, S) PROVE TypeOK'
    BY <2>1, <2>4 DEF StopBegin
  <2>5. ASSUME NEW S \in SUBSET Tasks, NEW f \in BOOLEAN, ResumeBegin(c, S, f)
        PROVE  TypeOK'
    <3> Resumable(f) \in SUBSET Statuses
      BY DEF Resumable, Statuses, Outcomes
    <3> QED
      BY <2>1, <2>5 DEF ResumeBegin
  <2>6. CASE Enter(c)
    BY <2>6, EnterType
  <2>7. CASE CommandEnds(c)
    <3> DEFINE d == want[c]
    <3>1. d.op \in Statuses
      BY <2>7 DEF CommandEnds, QueueInv, CommandsInOrder, CommandFor, Statuses, Outcomes
    <3>2. Replace(c, {t \in d.tasks : seen[c][t] \in d.from}, d.op)
      BY <2>7 DEF CommandEnds
    <3>3. want' \in [Clients -> [op : {"none", "queued", "stopped"}, tasks : SUBSET Tasks,
                                 from : SUBSET Statuses]]
      BY <2>7 DEF CommandEnds, TypeOK, NoCommand
    <3> HIDE DEF d
    <3>4. QED
      BY <2>7, <3>1, <3>2, <3>3, ReplaceType DEF CommandEnds, TypeOK, worker
  <2>8. CASE CommandFails(c)
    BY <2>8, UnlockedType DEF CommandFails, TypeOK, worker, NoCommand
  <2>9. QED
    BY <1>3, <2>2, <2>3, <2>4, <2>5, <2>6, <2>7, <2>8 DEF ClientStep
<1>4. CASE UNCHANGED vars
  BY <1>4 DEF vars, worker, TypeOK
<1>5. QED
  BY <1>1, <1>2, <1>3, <1>4 DEF Next
---------------------------------------------------------------------------
(* The rest of the invariant, one step at a time.                          *)

\* What the invariant says beside the types.
Rest == OutcomeKnown /\ InsideSeesFile /\ ClaimedOrStopped /\ CommandsInOrder /\ TasksRunAlone

LEMMA QInit == Init => QueueInv
<1> SUFFICES ASSUME Init PROVE QueueInv
  OBVIOUS
<1>1. TypeOK
  BY QTypeInit
<1>2. InsideSeesFile
  BY NightQueueAssumption DEF Init, InsideSeesFile, Procs
<1>3. OutcomeKnown /\ ClaimedOrStopped /\ CommandsInOrder /\ TasksRunAlone
  BY DEF Init, OutcomeKnown, ClaimedOrStopped, CommandsInOrder, CommandFor, TasksRunAlone, On
<1>4. QED
  BY <1>1, <1>2, <1>3 DEF QueueInv

\* The steps outside sections that leave the file and the lock alone.
LEMMA StepOutside ==
  ASSUME QueueInv, NEW w \in Workers,
         \/ LeaveLoop(w) \/ StartClaim(w) \/ TimesOut(w)
         \/ \E r \in {"done", "failed", "blocked", "stopped"} : RunEnds(w, r)
  PROVE  Rest'
<1> USE DEF LeaveLoop, StartClaim, TimesOut, RunEnds, Go, Forgets, QueueInv, TypeOK
<1>1. InsideSeesFile'
  BY NightQueueAssumption DEF InsideSeesFile, Waits, Procs
<1>2. \A v \in Workers, t \in Tasks : On(v, t)' => On(v, t)
  BY NightQueueAssumption DEF On
<1>3. ClaimedOrStopped' /\ TasksRunAlone'
  BY <1>2 DEF ClaimedOrStopped, TasksRunAlone
<1>4. OutcomeKnown' /\ CommandsInOrder'
  BY DEF OutcomeKnown, Outcomes, CommandsInOrder
<1>5. QED
  BY <1>1, <1>3, <1>4 DEF Rest

LEMMA StepEnter ==
  ASSUME QueueInv, NEW p \in Procs, Enter(p)
  PROVE  Rest'
<1> USE DEF Enter, worker, QueueInv, TypeOK
<1>1. InsideSeesFile'
  BY NightQueueAssumption DEF InsideSeesFile, Waits, Procs
<1>2. OutcomeKnown' /\ ClaimedOrStopped' /\ CommandsInOrder' /\ TasksRunAlone'
  BY DEF OutcomeKnown, ClaimedOrStopped, CommandsInOrder, TasksRunAlone, On
<1>3. QED
  BY <1>1, <1>2 DEF Rest

\* After a section nobody is inside.
LEMMA NobodyInside ==
  ASSUME NEW p \in Procs, NEW S, NEW s, Replace(p, S, s)
  PROVE  InsideSeesFile'
  BY NightQueueAssumption DEF Replace, InsideSeesFile, Procs

LEMMA StepClaim ==
  ASSUME QueueInv, NEW w \in Workers, NEW t \in Tasks, Claim(w, t)
  PROVE  Rest'
<1> USE DEF QueueInv
<1>1. w \in Procs /\ Replace(w, {t}, "running")
  BY DEF Claim, Procs
<1>2. status[t] = "queued"
  BY <1>1 DEF Claim, Queued, Replace, InsideSeesFile
<1>3. \A u \in Tasks : status'[u] = IF u = t THEN "running" ELSE status[u]
  BY <1>1, SectionEnds
<1>4. \A v \in Workers : ~On(v, t)
  BY <1>2 DEF ClaimedOrStopped
<1>5. \A v \in Workers, u \in Tasks : On(v, u)' => On(v, u) \/ (v = w /\ u = t)
  BY DEF Claim, Go, On, TypeOK
<1>6. ClaimedOrStopped'
  BY <1>3, <1>5 DEF ClaimedOrStopped
<1>7. TasksRunAlone'
  BY <1>4, <1>5 DEF TasksRunAlone, On, Claim, Go, TypeOK
<1>8. OutcomeKnown' /\ CommandsInOrder'
  BY DEF Claim, Go, OutcomeKnown, CommandsInOrder, TypeOK
<1>9. QED
  BY <1>1, <1>6, <1>7, <1>8, NobodyInside DEF Rest

LEMMA StepNothing ==
  ASSUME QueueInv, NEW w \in Workers, NothingQueued(w)
  PROVE  Rest'
<1> USE DEF QueueInv
<1>1. w \in Procs /\ Replace(w, {}, "queued")
  BY DEF NothingQueued, Procs
<1>2. \A u \in Tasks : status'[u] = status[u]
  BY <1>1, SectionEnds
<1>3. \A v \in Workers, u \in Tasks : On(v, u)' => On(v, u)
  BY DEF NothingQueued, Go, On, TypeOK
<1>4. ClaimedOrStopped' /\ TasksRunAlone'
  BY <1>2, <1>3 DEF ClaimedOrStopped, TasksRunAlone
<1>5. OutcomeKnown' /\ CommandsInOrder'
  BY DEF NothingQueued, Go, OutcomeKnown, CommandsInOrder, TypeOK
<1>6. QED
  BY <1>1, <1>4, <1>5, NobodyInside DEF Rest

LEMMA StepComplete ==
  ASSUME QueueInv, NEW w \in Workers, Complete(w)
  PROVE  Rest'
<1> USE DEF QueueInv
<1>1. w \in Procs /\ Replace(w, {task[w]}, final[w])
  BY DEF Complete, Procs
<1>2. \A u \in Tasks : u # task[w] => status'[u] = status[u]
  BY <1>1, SectionEnds
<1>3. \A v \in Workers, u \in Tasks : On(v, u)' => On(v, u) /\ v # w
  BY NightQueueAssumption DEF Complete, Go, Forgets, On, TypeOK
<1>4. ClaimedOrStopped'
  <2> SUFFICES ASSUME NEW v \in Workers, NEW u \in Tasks, On(v, u)'
               PROVE  status'[u] \in {"running", "stopped"}
    BY DEF ClaimedOrStopped
  <2>1. u # task[w]
    BY <1>3 DEF TasksRunAlone, On, Complete
  <2>2. QED
    BY <1>2, <1>3, <2>1 DEF ClaimedOrStopped
<1>5. TasksRunAlone'
  BY <1>3 DEF TasksRunAlone
<1>6. OutcomeKnown' /\ CommandsInOrder'
  BY DEF Complete, Go, Forgets, OutcomeKnown, CommandsInOrder, TypeOK
<1>7. QED
  BY <1>1, <1>4, <1>5, <1>6, NobodyInside DEF Rest

LEMMA StepDie ==
  ASSUME QueueInv, NEW w \in Workers, Die(w)
  PROVE  Rest'
<1> USE DEF QueueInv, Die, Go, Forgets, TypeOK
<1>1. InsideSeesFile'
  BY NightQueueAssumption DEF InsideSeesFile, Unlocked, Waits, Procs
<1>2. \A v \in Workers, u \in Tasks : On(v, u)' => On(v, u)
  BY DEF On
<1>3. ClaimedOrStopped' /\ TasksRunAlone'
  BY <1>2 DEF ClaimedOrStopped, TasksRunAlone
<1>4. OutcomeKnown' /\ CommandsInOrder'
  BY DEF OutcomeKnown, CommandsInOrder
<1>5. QED
  BY <1>1, <1>3, <1>4 DEF Rest

\* Commands: beginning, ending and failing.
LEMMA StepCommand ==
  ASSUME QueueInv, NEW c \in Clients, NEW op, NEW S, NEW from, Command(c, op, S, from),
         CommandFor([op |-> op, tasks |-> S, from |-> from])
  PROVE  Rest'
<1> USE DEF QueueInv, Command, worker, TypeOK
<1>1. InsideSeesFile'
  BY NightQueueAssumption DEF InsideSeesFile, Waits, Procs
<1>2. CommandsInOrder'
  BY DEF CommandsInOrder
<1>3. OutcomeKnown' /\ ClaimedOrStopped' /\ TasksRunAlone'
  BY DEF OutcomeKnown, ClaimedOrStopped, TasksRunAlone, On
<1>4. QED
  BY <1>1, <1>2, <1>3 DEF Rest

LEMMA StepBegin ==
  ASSUME QueueInv, NEW c \in Clients,
         \/ \E t \in Tasks : EnqueueBegin(c, t)
         \/ \E S \in SUBSET Tasks : StopBegin(c, S) \/ \E f \in BOOLEAN : ResumeBegin(c, S, f)
  PROVE  Rest'
<1>1. ASSUME NEW t \in Tasks, EnqueueBegin(c, t) PROVE Rest'
  BY <1>1, StepCommand DEF EnqueueBegin, CommandFor
<1>2. ASSUME NEW S \in SUBSET Tasks, StopBegin(c, S) PROVE Rest'
  <2>1. Statuses \ (Terminal \cup {"absent"}) = {"queued", "running", "paused", "blocked"}
    BY DEF Statuses, Outcomes, Terminal
  <2> QED BY <1>2, <2>1, StepCommand DEF StopBegin, CommandFor
<1>3. ASSUME NEW S \in SUBSET Tasks, NEW f \in BOOLEAN, ResumeBegin(c, S, f) PROVE Rest'
  <2>1. Resumable(f) \in {{"paused", "blocked"}, {"paused", "blocked", "failed"}}
    BY DEF Resumable
  <2> QED BY <1>3, <2>1, StepCommand DEF ResumeBegin, CommandFor
<1>4. QED
  BY <1>1, <1>2, <1>3

LEMMA StepStopAll ==
  ASSUME QueueInv, NEW c \in Clients, StopAll(c)
  PROVE  Rest'
  BY DEF QueueInv, Rest, StopAll, worker, OutcomeKnown, InsideSeesFile, Waits,
         ClaimedOrStopped, CommandsInOrder, TasksRunAlone, On

\* What a command does to a task: nothing, or what its kind is for.
LEMMA CommandEffect ==
  ASSUME QueueInv, NEW c \in Clients, CommandEnds(c), NEW t \in Tasks
  PROVE  \/ status'[t] = status[t]
         \/ status'[t] = "queued" /\ status[t] \in {"absent", "paused", "blocked", "failed"}
         \/ status'[t] = "stopped" /\ status[t] \in {"queued", "running", "paused", "blocked"}
<1> DEFINE d == want[c]
           S == {u \in d.tasks : seen[c][u] \in d.from}
<1>1. c \in Procs /\ lock = c /\ Replace(c, S, d.op) /\ d # NoCommand
  BY DEF CommandEnds, Replace, Procs
<1>2. status'[t] = IF t \in S THEN d.op ELSE status[t]
  <2> HIDE DEF S, d
  <2> QED
    BY <1>1, SectionEnds
<1>3. t \in S => status[t] \in d.from
  BY <1>1 DEF QueueInv, InsideSeesFile
<1>4. CommandFor(d)
  BY DEF QueueInv, CommandsInOrder
<1> HIDE DEF S, d
<1>5. QED
  BY <1>1, <1>2, <1>3, <1>4 DEF CommandFor

LEMMA StepCommandEnds ==
  ASSUME QueueInv, NEW c \in Clients, CommandEnds(c)
  PROVE  Rest'
<1> USE DEF QueueInv
<1>1. InsideSeesFile'
  BY NobodyInside DEF CommandEnds, Procs
<1>2. ClaimedOrStopped'
  <2> SUFFICES ASSUME NEW w \in Workers, NEW t \in Tasks, On(w, t)'
               PROVE  status'[t] \in {"running", "stopped"}
    BY DEF ClaimedOrStopped
  <2>1. On(w, t)
    BY DEF CommandEnds, worker, On
  <2>2. QED
    BY <2>1, CommandEffect DEF ClaimedOrStopped
<1>3. OutcomeKnown' /\ TasksRunAlone'
  BY DEF CommandEnds, worker, OutcomeKnown, TasksRunAlone, On
<1>4. CommandsInOrder'
  BY DEF CommandEnds, CommandsInOrder, CommandFor, TypeOK
<1>5. QED
  BY <1>1, <1>2, <1>3, <1>4 DEF Rest

LEMMA StepCommandFails ==
  ASSUME QueueInv, NEW c \in Clients, CommandFails(c)
  PROVE  Rest'
<1> USE DEF QueueInv, CommandFails, worker, TypeOK
<1>1. InsideSeesFile'
  BY NightQueueAssumption DEF InsideSeesFile, Unlocked, Waits, Procs
<1>2. CommandsInOrder'
  BY DEF CommandsInOrder, CommandFor
<1>3. OutcomeKnown' /\ ClaimedOrStopped' /\ TasksRunAlone'
  BY DEF OutcomeKnown, ClaimedOrStopped, TasksRunAlone, On
<1>4. QED
  BY <1>1, <1>2, <1>3 DEF Rest

LEMMA QStep == QueueInv /\ [Next]_vars => QueueInv'
<1> SUFFICES ASSUME QueueInv, [Next]_vars PROVE Rest'
  BY QTypeStep DEF Rest, QueueInv
<1>1. ASSUME NEW w \in Workers, WorkerStep(w) \/ Die(w) PROVE Rest'
  <2> w \in Procs
    BY DEF Procs
  <2> QED
    BY <1>1, StepOutside, StepEnter, StepClaim, StepNothing, StepComplete, StepDie
    DEF WorkerStep
<1>2. ASSUME NEW c \in Clients, ClientStep(c) PROVE Rest'
  <2> c \in Procs
    BY DEF Procs
  <2>1. \A S \in {{t} : t \in Tasks} \cup {Tasks} : S \in SUBSET Tasks
    OBVIOUS
  <2> QED
    BY <1>2, <2>1, StepBegin, StepStopAll, StepEnter, StepCommandEnds, StepCommandFails
    DEF ClientStep
<1>3. CASE UNCHANGED vars
  BY <1>3 DEF vars, worker, QueueInv, Rest, OutcomeKnown, InsideSeesFile, Waits,
              ClaimedOrStopped, CommandsInOrder, TasksRunAlone, On
<1>4. QED
  BY <1>1, <1>2, <1>3 DEF Next

---------------------------------------------------------------------------
(* The theorems.                                                           *)

\* The whole invariant holds of every behaviour.
THEOREM QueueInvariant == Spec => []QueueInv
<1>1. QED
  BY QInit, QStep, PTL DEF Spec

\* The queue file, the workers and the commands keep their types (TypeOK).
THEOREM QueueTypes == Spec => []TypeOK
<1>1. QueueInv => TypeOK
  BY DEF QueueInv
<1>2. QED
  BY <1>1, QueueInvariant, PTL

\* Two workers are never on one task (TasksRunAlone), with any number of
\* workers and operators, with either lock, whoever dies or times out.
THEOREM OneWorkerPerTask == Spec => []TasksRunAlone
<1>1. QueueInv => TasksRunAlone
  BY DEF QueueInv
<1>2. QED
  BY <1>1, QueueInvariant, PTL

\* What a step does to the status of one task.
LEMMA TaskEffect ==
  ASSUME QueueInv, [Next]_vars, NEW t \in Tasks
  PROVE  \/ status'[t] = status[t]
         \/ \E w \in Workers : On(w, t)
         \/ status[t] \in {"absent", "queued", "running", "paused", "blocked", "failed"}
<1>1. ASSUME NEW w \in Workers, NEW u \in Tasks, Claim(w, u)
      PROVE  status'[t] = status[t] \/ status[t] = "queued"
  <2>1. w \in Procs /\ Replace(w, {u}, "running") /\ seen[w] = status
    BY <1>1 DEF Claim, Procs, Replace, QueueInv, InsideSeesFile
  <2>2. QED
    BY <1>1, <2>1, SectionEnds DEF Claim, Queued
<1>2. ASSUME NEW w \in Workers, NothingQueued(w) PROVE status'[t] = status[t]
  BY <1>2, SectionEnds DEF NothingQueued, Procs
<1>3. ASSUME NEW w \in Workers, Complete(w) PROVE status'[t] = status[t] \/ On(w, t)
  BY <1>3, SectionEnds DEF Complete, Procs, On
<1>4. ASSUME NEW c \in Clients, CommandEnds(c)
      PROVE  \/ status'[t] = status[t]
             \/ status[t] \in {"absent", "queued", "running", "paused", "blocked", "failed"}
  BY <1>4, CommandEffect
<1>5. ASSUME NEW w \in Workers, WorkerStep(w) \/ Die(w), status' # status
      PROVE  (\E u \in Tasks : Claim(w, u)) \/ NothingQueued(w) \/ Complete(w)
  BY <1>5 DEF WorkerStep, LeaveLoop, StartClaim, Enter, RunEnds, TimesOut, Die
<1>6. ASSUME NEW c \in Clients, ClientStep(c), status' # status PROVE CommandEnds(c)
  BY <1>6 DEF ClientStep, EnqueueBegin, StopAll, StopBegin, ResumeBegin, Command, Enter,
              CommandFails
<1>7. CASE UNCHANGED vars
  BY <1>7 DEF vars
<1>8. QED
  BY <1>1, <1>2, <1>3, <1>4, <1>5, <1>6, <1>7 DEF Next

\* No command and no worker changes a done task, or a stopped one that nobody
\* is running (EndedStays), with either lock, whoever dies or times out.
THEOREM EndedIsFinal == Spec => EndedStays
<1>1. ASSUME QueueInv, [Next]_vars
      PROVE  [\A t \in Tasks :
                 \/ status[t] = "done"
                 \/ status[t] = "stopped" /\ (\A w \in Workers : ~On(w, t))
                 => status'[t] = status[t]]_vars
  BY <1>1, TaskEffect DEF QueueInv, ClaimedOrStopped
<1>2. QED
  BY <1>1, QueueInvariant, PTL DEF Spec, EndedStays

---------------------------------------------------------------------------
(* The refinement of TaskBoard.                                            *)

\* A worker has a task exactly while it is on it.
TaskKnown == \A w \in Workers : task[w] # NoTask => pc[w] \in {"run", "complete"}
BusyKnown == \A w \in Workers : pc[w] \in {"run", "complete"} => task[w] # NoTask

BoardInv == QueueInv /\ TaskKnown /\ BusyKnown

LEMMA BoardInit == Init => BoardInv /\ Board!Init
  BY QInit DEF Init, BoardInv, TaskKnown, BusyKnown, Board!Init

LEMMA BoardInvStep == BoardInv /\ [Next]_vars => BoardInv'
<1> SUFFICES ASSUME BoardInv, [Next]_vars PROVE TaskKnown' /\ BusyKnown'
  BY QStep DEF BoardInv
<1> TypeOK
  BY DEF BoardInv, QueueInv
<1> USE DEF BoardInv, TaskKnown, BusyKnown, Go, Forgets, TypeOK
<1>1. ASSUME NEW w \in Workers, WorkerStep(w) \/ Die(w) PROVE TaskKnown' /\ BusyKnown'
  <2>1. ASSUME NEW t \in Tasks, Claim(w, t) PROVE TaskKnown' /\ BusyKnown'
    BY <2>1, NightQueueAssumption DEF Claim
  <2>2. CASE Complete(w) \/ TimesOut(w) \/ Die(w)
    BY <2>2 DEF Complete, TimesOut, Die, Gone
  <2>3. CASE LeaveLoop(w) \/ StartClaim(w) \/ NothingQueued(w)
    BY <2>3 DEF LeaveLoop, StartClaim, NothingQueued
  <2>4. CASE Enter(w)
    BY <2>4 DEF Enter, worker
  <2>5. ASSUME NEW r \in {"done", "failed", "blocked", "stopped"}, RunEnds(w, r)
        PROVE  TaskKnown' /\ BusyKnown'
    BY <2>5 DEF RunEnds
  <2> QED BY <1>1, <2>1, <2>2, <2>3, <2>4, <2>5 DEF WorkerStep
<1>2. ASSUME NEW c \in Clients, ClientStep(c) PROVE TaskKnown' /\ BusyKnown'
  <2>1. UNCHANGED worker
    BY <1>2 DEF ClientStep, EnqueueBegin, StopAll, StopBegin, ResumeBegin, Command, Enter,
                CommandEnds, CommandFails
  <2> QED BY <2>1 DEF worker
<1>3. CASE UNCHANGED vars
  BY <1>3 DEF vars, worker
<1> QED BY <1>1, <1>2, <1>3 DEF Next

\* Claiming is taking: the copy the worker chose from is the file.
LEMMA ClaimTakes ==
  ASSUME BoardInv, NEW w \in Workers, NEW t \in Tasks, Claim(w, t)
  PROVE  Board!Take(w, t)
<1> QueueInv /\ TypeOK
  BY DEF BoardInv, QueueInv
<1>1. w \in Procs /\ Replace(w, {t}, "running") /\ seen[w] = status
  BY DEF Claim, Procs, Replace, QueueInv, InsideSeesFile
<1>2. /\ status[t] = "queued"
      /\ \A u \in Tasks : status[u] = "queued" => Priority[t] <= Priority[u]
  BY <1>1 DEF Claim, Queued
<1>3. \A v \in Workers : task[v] # t
  BY <1>2, NightQueueAssumption DEF BoardInv, TaskKnown, On, QueueInv, ClaimedOrStopped
<1>4. task[w] = NoTask
  BY DEF BoardInv, TaskKnown, Claim
<1>5. status' = [status EXCEPT ![t] = "running"]
  BY <1>1 DEF Replace, TypeOK
<1> QED BY <1>2, <1>3, <1>4, <1>5 DEF Board!Take, Claim

\* Completing is reporting, on a task that is still the worker's.
LEMMA CompleteReports ==
  ASSUME BoardInv, NEW w \in Workers, Complete(w)
  PROVE  \E o \in Board!Outcomes : Board!Report(w, o)
<1> QueueInv /\ TypeOK
  BY DEF BoardInv, QueueInv
<1>1. w \in Procs /\ Replace(w, {task[w]}, final[w]) /\ seen[w] = status
  BY DEF Complete, Procs, Replace, QueueInv, InsideSeesFile
<1>2. task[w] # NoTask /\ task[w] \in Tasks
  BY DEF BoardInv, BusyKnown, Complete, TypeOK
<1>3. status[task[w]] \in {"running", "stopped"}
  BY <1>2 DEF Complete, On, QueueInv, ClaimedOrStopped
<1>4. final[w] \in Board!Outcomes
  BY DEF Complete, QueueInv, OutcomeKnown, Outcomes, Board!Outcomes
<1>5. status' = [status EXCEPT ![task[w]] = final[w]]
  BY <1>1, <1>2 DEF Replace, TypeOK
<1> QED BY <1>2, <1>3, <1>4, <1>5 DEF Board!Report, Complete, Forgets

\* The section of a command is the command.
LEMMA CommandApplies ==
  ASSUME BoardInv, NEW c \in Clients, CommandEnds(c)
  PROVE  Board!Next
<1> DEFINE d == want[c]
           S == {u \in d.tasks : seen[c][u] \in d.from}
<1>1. c \in Procs /\ lock = c /\ Replace(c, S, d.op) /\ d # NoCommand /\ task' = task
  BY DEF CommandEnds, Replace, Procs, worker
<1>2. seen[c] = status /\ CommandFor(d) /\ d.tasks \in SUBSET Tasks
  BY <1>1 DEF BoardInv, QueueInv, InsideSeesFile, CommandsInOrder, TypeOK
<1>3. status' = [t \in Tasks |-> IF t \in d.tasks /\ status[t] \in d.from
                                 THEN d.op ELSE status[t]]
  BY <1>1, <1>2 DEF Replace
<1>4. Board!Command(d.tasks, d.from, d.op)
  BY <1>1, <1>3 DEF Board!Command
<1> HIDE DEF d, S
<1>5. Board!Enqueue(d.tasks) \/ Board!Stop(d.tasks) \/ Board!Resume(d.tasks)
        \/ Board!ResumeFailed(d.tasks)
  BY <1>1, <1>2, <1>4
     DEF CommandFor, Board!Enqueue, Board!Stop, Board!Resume, Board!ResumeFailed
<1> QED BY <1>2, <1>5 DEF Board!Next

\* Every section of the legacy queue is an atomic step of TaskBoard, for any
\* tasks, workers and operators, with either lock, whoever dies or times out.
THEOREM NightQueueImplementsTaskBoard == Spec => ImplementsTaskBoard
<1>1. BoardInv /\ [Next]_vars => [Board!Next]_Board!vars
  <2> SUFFICES ASSUME BoardInv, [Next]_vars PROVE Board!Next \/ UNCHANGED <<status, task>>
    BY DEF Board!vars
  <2>1. ASSUME NEW w \in Workers, NEW t \in Tasks, Claim(w, t) PROVE Board!Next
    BY <2>1, ClaimTakes DEF Board!Next
  <2>2. ASSUME NEW w \in Workers, Complete(w) PROVE Board!Next
    BY <2>2, CompleteReports DEF Board!Next
  <2>3. ASSUME NEW w \in Workers, TimesOut(w) \/ Die(w) PROVE Board!Next
    <3>1. Board!Abandon(w)
      BY <2>3 DEF TimesOut, Die, Forgets, Board!Abandon
    <3> QED BY <3>1 DEF Board!Next
  <2>4. ASSUME NEW w \in Workers, NothingQueued(w) PROVE UNCHANGED <<status, task>>
    <3>1. seen[w] = status /\ status \in [Tasks -> Statuses]
      BY <2>4 DEF NothingQueued, Replace, Procs, BoardInv, QueueInv, InsideSeesFile, TypeOK
    <3> QED BY <2>4, <3>1 DEF NothingQueued, Replace
  <2>5. ASSUME NEW w \in Workers, \/ LeaveLoop(w) \/ StartClaim(w) \/ Enter(w)
                                  \/ \E r \in {"done", "failed", "blocked", "stopped"} :
                                        RunEnds(w, r)
        PROVE  UNCHANGED <<status, task>>
    BY <2>5 DEF LeaveLoop, StartClaim, Enter, RunEnds, worker
  <2>6. ASSUME NEW c \in Clients, ClientStep(c), ~CommandEnds(c)
        PROVE  UNCHANGED <<status, task>>
    BY <2>6 DEF ClientStep, EnqueueBegin, StopAll, StopBegin, ResumeBegin, Command, Enter,
                CommandFails, worker
  <2>7. CASE UNCHANGED vars
    BY <2>7 DEF vars, worker
  <2> QED BY <2>1, <2>2, <2>3, <2>4, <2>5, <2>6, <2>7, CommandApplies DEF Next, WorkerStep
<1> QED BY <1>1, BoardInit, BoardInvStep, PTL DEF Spec, ImplementsTaskBoard, Board!Spec
===============================================================================
