------------------------- MODULE NightWorkerProofs -------------------------
(***************************************************************************)
(* Proofs about the worker loop, for every number of workers, clients and  *)
(* items: it uses the queue only through its operations, and on a build    *)
(* where check and write are one transaction two workers are on the same   *)
(* item only after one of them outlived its lease, and none starts a run   *)
(* on an item that is not its own at that moment.                          *)
(***************************************************************************)
EXTENDS NightWorker, RuntimeQueueProofs

\* A worker inside a checked call is on an item and calls about that item.
LoopInv ==
    /\ WTypeOK
    /\ \A w \in Workers :
        /\ pc[w] \in Active => task[w] \in Items
        /\ pc[w] \in {"beat2", "finish"} => final[w] \in Outcomes \cup {"stopped"}
        /\ call[w].op \in CheckedOps => pc[w] \in Active /\ call[w].item = task[w]

LEMMA LoopInit == WInit => LoopInv
<1> SUFFICES ASSUME WInit PROVE LoopInv
  OBVIOUS
<1>1. TypeOK
  BY TypeInit DEF WInit
<1>2. WTypeOK
  BY <1>1 DEF WInit, WTypeOK, PCs
<1>3. \A w \in Workers : call[w].op = "idle" /\ pc[w] = "loop"
  BY DEF WInit, Init, Idle, Procs
<1> QED BY <1>2, <1>3 DEF LoopInv, CheckedOps, Active

\* A step of the loop is a step of the queue or leaves its variables alone.
LEMMA LoopUsesQueue == LoopInv /\ [WNext]_allVars => [Next]_vars
<1> SUFFICES ASSUME LoopInv, [WNext]_allVars PROVE [Next]_vars
  OBVIOUS
<1> USE DEF LoopInv
<1>1. ASSUME NEW w \in Workers, WStep(w) PROVE [Next]_vars
  <2> w \in Procs
    BY DEF Procs
  <2>1. CASE LeaveLoop(w) \/ RunRaises(w) \/ Rejected(w)
             \/ \E r \in {"done", "failed", "blocked", "stopped"} : RunReturns(w, r)
    BY <2>1 DEF LeaveLoop, RunRaises, Rejected, RunReturns
  <2>2. CASE StartClaim(w) \/ NothingQueued(w) \/ (\E i \in Items : Claimed(w, i))
    BY <2>2 DEF StartClaim, NothingQueued, Claimed, Next, WorkerStep
  <2>3. CASE Beat(w)
    BY <2>3 DEF Beat, Next, WorkerStep, Active
  <2>4. CASE BeatWritten(w)
    BY <2>4 DEF BeatWritten, Next, WorkerStep
  <2>5. CASE Report(w)
    BY <2>5 DEF Report, Next, WorkerStep, Active
  <2>6. CASE Reported(w)
    BY <2>6 DEF Reported, Next, WorkerStep
  <2> QED BY <1>1, <2>1, <2>2, <2>3, <2>4, <2>5, <2>6 DEF WStep
<1>2. ASSUME NEW w \in Workers, Die(w) PROVE [Next]_vars
  <2>1. CASE call[w] = Idle
    <3>1. call' = call
      BY <1>2, <2>1 DEF Die, Return, WTypeOK, TypeOK, Procs
    <3> QED BY <1>2, <3>1 DEF Die, vars, rows
  <2>2. CASE call[w] # Idle
    <3>1. Abort(w)
      BY <1>2, <2>2 DEF Die, Abort
    <3> QED BY <3>1 DEF Next, Procs
  <2> QED BY <2>1, <2>2
<1>3. CASE Surroundings
  BY <1>3 DEF Surroundings, Next, Procs
<1>4. CASE ToggleStopPath \/ UNCHANGED allVars
  BY <1>4 DEF ToggleStopPath, allVars
<1> QED BY <1>1, <1>2, <1>3, <1>4 DEF WNext

\* What a client's step, or time, leaves alone of the workers' calls.
LEMMA SurroundingsCalls ==
  ASSUME TypeOK, Surroundings, NEW w \in Workers PROVE call'[w] = call[w]
<1>1. \A c \in Clients : c # w /\ c \in Procs /\ w \in Procs
  BY QueueAssumption DEF Procs
<1> QED BY <1>1 DEF Surroundings, ClientStep, Enqueue, ResumeCheck, ResumeWrite, StopCheck,
       StopWrite, Abort, ToggleStopFile, Tick, Check, Call, Return, TypeOK

LEMMA LoopStep == LoopInv /\ [WNext]_allVars => LoopInv'
<1> SUFFICES ASSUME LoopInv, [WNext]_allVars PROVE LoopInv'
  OBVIOUS
<1> TypeOK /\ TypeOK'
  BY LoopUsesQueue, TypeStep DEF LoopInv, WTypeOK
<1> USE DEF LoopInv, WTypeOK, PCs, Gone, Active
<1>1. ASSUME NEW w \in Workers, WStep(w) PROVE LoopInv'
  <2> w \in Procs /\ Workers \subseteq Procs
    BY DEF Procs
  <2> USE DEF Go
  <2>1. CASE LeaveLoop(w)
    BY <2>1 DEF LeaveLoop, vars, CheckedOps
  <2>2. CASE StartClaim(w)
    BY <2>2 DEF StartClaim, ClaimBegin, Call, TypeOK, CheckedOps
  <2>3. ASSUME NEW i \in Items, Claimed(w, i) PROVE LoopInv'
    BY <2>3 DEF Claimed, ClaimItem, Return, Idle, TypeOK, CheckedOps
  <2>4. CASE NothingQueued(w)
    BY <2>4 DEF NothingQueued, ClaimNothing, Return, Idle, TypeOK, CheckedOps
  <2>5. CASE Beat(w)
    BY <2>5 DEF Beat, HeartbeatCheck, Check, Call, TypeOK, workerVars
  <2>6. CASE BeatWritten(w)
    <3>1. Return(w)
      BY <2>6 DEF BeatWritten, HeartbeatRenew, HeartbeatStop
    <3>2. task[w] \in Items
      BY <2>6 DEF BeatWritten
    <3>3. lease'[task[w]] \in Nat
      BY <3>2 DEF TypeOK
    <3>4. pc[w] = "beat2" => final[w] \in Outcomes \cup {"stopped"}
      OBVIOUS
    <3> QED BY <2>6, <3>1, <3>3, <3>4 DEF BeatWritten, Return, Idle, TypeOK, CheckedOps
  <2>7. ASSUME NEW r \in {"done", "failed", "blocked", "stopped"}, RunReturns(w, r)
        PROVE  LoopInv'
    BY <2>7 DEF RunReturns, OnFailure, Outcomes, vars
  <2>8. CASE RunRaises(w)
    BY <2>8 DEF RunRaises, OnFailure, Outcomes, vars
  <2>9. CASE Report(w)
    BY <2>9 DEF Report, StopCheck, FinishCheck, Check, Call, TypeOK, workerVars
  <2>10. CASE Reported(w)
    BY <2>10 DEF Reported, FinishWrite, StopWrite, Return, Idle, TypeOK, CheckedOps
  <2>11. CASE Rejected(w)
    BY <2>11 DEF Rejected, vars, Idle, CheckedOps
  <2> QED BY <1>1, <2>1, <2>2, <2>3, <2>4, <2>5, <2>6, <2>7, <2>8, <2>9, <2>10, <2>11
          DEF WStep
<1>2. ASSUME NEW w \in Workers, Die(w) PROVE LoopInv'
  BY <1>2 DEF Die, Go, Return, Idle, TypeOK, CheckedOps, Procs
<1>3. CASE Surroundings
  BY <1>3, SurroundingsCalls DEF Surroundings, workerVars
<1>4. CASE ToggleStopPath \/ UNCHANGED allVars
  BY <1>4 DEF ToggleStopPath, allVars, workerVars, vars
<1> QED BY <1>1, <1>2, <1>3, <1>4 DEF WNext

\* The loop uses the queue only through its operations, so every theorem about
\* RuntimeQueue holds of the queue under the night daemon.
THEOREM LoopImplementsQueue == WSpec => UsesQueue
<1>1. WInit => Init
  BY DEF WInit
<1> QED BY <1>1, LoopInit, LoopStep, LoopUsesQueue, PTL DEF WSpec, UsesQueue, Spec

\* The queue, and the places, tasks and leases of the night daemon's workers,
\* keep their types.
THEOREM LoopTypes == WSpec => []WTypeOK
<1>1. LoopInv => WTypeOK
  BY DEF LoopInv
<1> QED BY <1>1, LoopInit, LoopStep, PTL DEF WSpec

---------------------------------------------------------------------------
(* Exclusive runs.                                                         *)

\* Worker w is on item i and the lease it last wrote has not run out.
LiveOn(w, i) == pc[w] \in Active /\ task[w] = i /\ held[w] >= now

\* While that is so the row still says so, unless an operator stopped the item.
RunInv ==
    \A w \in Workers, i \in Items : LiveOn(w, i) =>
        \/ status[i] = "stopped"
        \/ status[i] = "running" /\ owner[i] = w /\ lease[i] = held[w]

NightInv ==
    QueueInv /\ LockInv /\ LoopInv /\ RunInv /\ OverlapOnlyAfterExpiry

\* A step that touches no row and makes no worker live keeps both.
LEMMA QuietStep ==
  ASSUME RunInv, OverlapOnlyAfterExpiry, UNCHANGED <<status, owner, lease>>,
         LoopInv, TypeOK',
         \A w \in Workers : pc'[w] \in Active =>
             /\ pc[w] \in Active /\ task'[w] = task[w] /\ held'[w] = held[w],
         now' >= now
  PROVE  RunInv' /\ OverlapOnlyAfterExpiry'
<1>1. \A w \in Workers, i \in Items : LiveOn(w, i)' => LiveOn(w, i) /\ held'[w] = held[w]
  BY DEF LiveOn, LoopInv, WTypeOK, TypeOK
<1>2. RunInv'
  BY <1>1 DEF RunInv
<1>3. OverlapOnlyAfterExpiry'
  BY DEF OverlapOnlyAfterExpiry, LoopInv, WTypeOK, TypeOK
<1> QED BY <1>2, <1>3

\* A write to one item's row by a step after which only worker w, if anyone,
\* is live on it.
LEMMA RowStep ==
  ASSUME RunInv, OverlapOnlyAfterExpiry, LoopInv, LoopInv', now' = now,
         NEW i \in Items, NEW s, NEW o, NEW l, Write(i, s, o, l),
         NEW w \in Workers,
         \A v \in Workers \ {w} :
             /\ pc'[v] = pc[v] /\ task'[v] = task[v] /\ held'[v] = held[v]
             /\ ~LiveOn(v, i) \/ s = "stopped",
         \/ pc'[w] \notin Active
         \/ /\ task'[w] = i /\ held'[w] = l /\ s = "running" /\ o = w
  PROVE  RunInv' /\ OverlapOnlyAfterExpiry'
<1>0. /\ status' = [status EXCEPT ![i] = s] /\ owner' = [owner EXCEPT ![i] = o]
      /\ lease' = [lease EXCEPT ![i] = l]
      /\ status \in [Items -> Statuses \cup {"absent"}]
      /\ owner \in [Items -> Workers \cup {NoOwner}] /\ lease \in [Items -> Nat]
  BY DEF Write, LoopInv, WTypeOK, TypeOK
<1>1. /\ status'[i] = s /\ owner'[i] = o /\ lease'[i] = l
      /\ \A j \in Items \ {i} :
            status'[j] = status[j] /\ owner'[j] = owner[j] /\ lease'[j] = lease[j]
  BY <1>0
<1>2. ASSUME NEW v \in Workers \ {w}, NEW j \in Items, LiveOn(v, j)'
      PROVE  \/ status'[j] = "stopped"
             \/ status'[j] = "running" /\ owner'[j] = v /\ lease'[j] = held'[v]
  <2>1. LiveOn(v, j)
    BY <1>2 DEF LiveOn
  <2>2. CASE j = i
    BY <1>1, <2>1, <2>2
  <2>3. CASE j # i
    BY <1>1, <2>1, <2>3 DEF RunInv
  <2> QED BY <2>2, <2>3
<1>3. ASSUME NEW j \in Items, LiveOn(w, j)'
      PROVE  status'[j] = "running" /\ owner'[j] = w /\ lease'[j] = held'[w]
  BY <1>1, <1>3 DEF LiveOn
<1>4. RunInv'
  BY <1>2, <1>3 DEF RunInv
<1>5. ASSUME NEW u \in Workers, NEW v \in Workers, u # v,
             pc'[u] \in Active, pc'[v] \in Active, task'[u] = task'[v]
      PROVE  held'[u] < now' \/ held'[v] < now'
  <2> held[u] \in Nat /\ held[v] \in Nat /\ held'[u] \in Nat /\ held'[v] \in Nat
      /\ now \in Nat
    BY DEF LoopInv, WTypeOK, TypeOK
  <2>1. CASE u # w /\ v # w
    BY <1>5, <2>1 DEF OverlapOnlyAfterExpiry
  <2>2. CASE u = w
    BY <1>5, <2>2 DEF LiveOn
  <2>3. CASE v = w
    BY <1>5, <2>3 DEF LiveOn
  <2> QED BY <2>1, <2>2, <2>3
<1> QED BY <1>4, <1>5 DEF OverlapOnlyAfterExpiry

\* Nobody else is live on an item whose row names w, or one nobody runs.
LEMMA OthersNotLive ==
  ASSUME RunInv, NEW i \in Items, NEW w \in Workers,
         status[i] # "stopped", status[i] = "running" => owner[i] = w
  PROVE  \A v \in Workers \ {w} : ~LiveOn(v, i)
  BY DEF RunInv

LEMMA NightInit == WInit => NightInv
<1> SUFFICES ASSUME WInit PROVE NightInv
  OBVIOUS
<1>1. QueueInv /\ LockInv /\ LoopInv
  BY QueueInit, LockInit, LoopInit DEF WInit
<1>2. \A w \in Workers : pc[w] \notin Active
  BY DEF WInit, Active
<1> QED BY <1>1, <1>2 DEF NightInv, RunInv, LiveOn, OverlapOnlyAfterExpiry

LEMMA NightStep == ~Fts5 /\ NightInv /\ [WNext]_allVars => NightInv'
<1> SUFFICES ASSUME ~Fts5, NightInv, [WNext]_allVars
             PROVE  RunInv' /\ OverlapOnlyAfterExpiry'
  BY LoopUsesQueue, QueueStep, LockStep, LoopStep DEF NightInv, QueueInv
<1> LoopInv /\ LoopInv' /\ TypeOK /\ TypeOK' /\ RunInv /\ OverlapOnlyAfterExpiry
    /\ QueueInv /\ LockInv
  BY LoopStep DEF NightInv, LoopInv, WTypeOK
<1>types. /\ pc \in [Workers -> PCs] /\ held \in [Workers -> Nat] /\ now \in Nat
          /\ task \in [Workers -> Items \cup {NoItem}] /\ Workers \subseteq Procs
          /\ lease \in [Items -> Nat]
  BY DEF LoopInv, WTypeOK, TypeOK, Procs
<1>1. ASSUME NEW w \in Workers, WStep(w) PROVE RunInv' /\ OverlapOnlyAfterExpiry'
  <2>1. CASE LeaveLoop(w) \/ Rejected(w)
    <3>1. UNCHANGED <<status, owner, lease, now, task, held>> /\ Go(w, pc'[w])
          /\ pc'[w] \in Gone
      BY <2>1, <1>types DEF LeaveLoop, Rejected, vars, Go, Gone
    <3> QED BY <3>1, <1>types, QuietStep DEF Go, Gone, Active
  <2>2. CASE StartClaim(w) \/ NothingQueued(w)
    <3>1. UNCHANGED <<status, owner, lease, now, task, held>>
          /\ \E to \in PCs \ Active : Go(w, to)
      BY <2>2 DEF StartClaim, NothingQueued, ClaimBegin, ClaimNothing, rows, PCs, Gone,
         Active
    <3> QED BY <3>1, <1>types, QuietStep DEF Go
  <2>3. ASSUME NEW i \in Items, Claimed(w, i) PROVE RunInv' /\ OverlapOnlyAfterExpiry'
    <3> DEFINE l == call[w].at + LeaseTime
    <3>1. /\ Write(i, "running", w, l) /\ now' = now
          /\ task' = [task EXCEPT ![w] = i] /\ held' = [held EXCEPT ![w] = lease'[i]]
          /\ pc' = [pc EXCEPT ![w] = "beat1"]
          /\ Claimable(i, call[w].at)
      BY <2>3 DEF Claimed, ClaimItem, Go
    <3>2. lease'[i] = l
      BY <3>1, <1>types DEF Write
    <3>3. call[w].at <= now /\ call[w].at \in Nat
      BY <1>types DEF QueueInv, CallInv, TypeOK, CallType, Idle
    <3>4. \A v \in Workers : ~LiveOn(v, i)
      BY <3>1, <3>3, <1>types DEF RunInv, LiveOn, Claimable, Expired
    <3> HIDE DEF l
    <3> QED BY <3>1, <3>2, <3>4, <1>types, RowStep
  <2>4. CASE Beat(w) \/ Report(w)
    <3>1. UNCHANGED <<status, owner, lease, now, pc, task, held>>
      BY <2>4 DEF Beat, Report, HeartbeatCheck, StopCheck, FinishCheck, Check, rows,
         workerVars
    <3> QED BY <3>1, <1>types, QuietStep
  <2>5. CASE BeatWritten(w)
    <3> DEFINE i == task[w]
    <3>1. /\ call[w].item = i /\ i \in Items /\ call[w].op = "heartbeat"
          /\ held' = [held EXCEPT ![w] = lease'[i]] /\ now' = now /\ task' = task
          /\ \E to \in PCs : pc' = [pc EXCEPT ![w] = to]
                             /\ (status'[i] = "stopped" => to = "exited")
      BY <2>5 DEF BeatWritten, HeartbeatRenew, HeartbeatStop, LoopInv, CheckedOps, Active,
         Go, PCs, Gone
    <3>2. status[i] = "running" /\ owner[i] = w
      BY <3>1, <1>types DEF LockInv, CheckHolds, OwnsRunning
    <3>3. \A v \in Workers \ {w} : ~LiveOn(v, i)
      BY <3>1, <3>2, OthersNotLive
    <3>4. CASE HeartbeatRenew(w)
      <4> DEFINE l == call[w].at + LeaseTime
      <4>1. Write(i, "running", w, l) /\ lease'[i] = l
        BY <3>1, <3>2, <3>4, <1>types DEF HeartbeatRenew, Write
      <4> HIDE DEF l
      <4> QED BY <3>1, <3>3, <4>1, <1>types, RowStep
    <3>5. CASE HeartbeatStop(w)
      <4>1. Write(i, "stopped", w, NoLease)
        BY <3>1, <3>2, <3>5 DEF HeartbeatStop
      <4>2. status'[i] = "stopped"
        BY <3>1, <4>1 DEF Write, TypeOK
      <4>3. pc'[w] \notin Active
        BY <3>1, <4>2, <1>types DEF Active
      <4> QED BY <3>1, <3>3, <4>1, <4>3, <1>types, RowStep
    <3> QED BY <2>5, <3>4, <3>5 DEF BeatWritten
  <2>6. CASE RunRaises(w) \/ \E r \in {"done", "failed", "blocked", "stopped"} :
                                 RunReturns(w, r)
    <3>1. UNCHANGED <<status, owner, lease, now, task, held>> /\ pc[w] \in Active
          /\ \E to \in PCs : pc' = [pc EXCEPT ![w] = to]
      BY <2>6 DEF RunRaises, RunReturns, vars, Go, PCs, Active
    <3> QED BY <3>1, <1>types, QuietStep
  <2>7. CASE Reported(w)
    <3> DEFINE i == task[w]
    <3>1. /\ call[w].item = i /\ i \in Items
          /\ UNCHANGED <<held, task, now>> /\ call[w].op \in {"finish", "stop"}
          /\ \E to \in PCs \ Active : pc' = [pc EXCEPT ![w] = to]
      BY <2>7 DEF Reported, FinishWrite, StopWrite, LoopInv, CheckedOps, Active, Go, PCs,
         Gone
    <3>2. pc'[w] \notin Active /\ \A v \in Workers \ {w} : pc'[v] = pc[v]
      BY <3>1, <1>types
    <3>3. CASE FinishWrite(w)
      <4>1. status[i] = "running" /\ owner[i] = w
        BY <3>1, <3>3, <1>types DEF FinishWrite, LockInv, CheckHolds, OwnsRunning
      <4>2. \A v \in Workers \ {w} : ~LiveOn(v, i)
        BY <3>1, <4>1, OthersNotLive
      <4> QED BY <3>1, <3>2, <3>3, <4>2, RowStep DEF FinishWrite
    <3>4. CASE StopWrite(w)
      BY <3>1, <3>2, <3>4, RowStep DEF StopWrite
    <3> QED BY <2>7, <3>3, <3>4 DEF Reported
  <2> QED BY <1>1, <2>1, <2>2, <2>3, <2>4, <2>5, <2>6, <2>7 DEF WStep
<1>2. ASSUME NEW w \in Workers, Die(w) PROVE RunInv' /\ OverlapOnlyAfterExpiry'
  BY <1>2, <1>types, QuietStep DEF Die, Go, rows, Active
<1>3. CASE Surroundings
  <2> UNCHANGED <<pc, task, held>>
    BY <1>3 DEF Surroundings, workerVars
  <2>1. CASE UNCHANGED <<status, owner, lease>>
    <3>1. now' >= now
      BY <1>3, <1>types DEF Surroundings, ClientStep, Enqueue, ResumeCheck, ResumeWrite,
         StopCheck, StopWrite, Abort, ToggleStopFile, Tick, Check
    <3> QED BY <2>1, <3>1, <1>types, QuietStep
  <2>2. ASSUME NEW c \in Clients, NEW i \in Items, NEW s, NEW o, NEW l,
               Write(i, s, o, l), now' = now,
               s = "stopped" \/ status[i] \in Resumable \cup {"absent"}
        PROVE  RunInv' /\ OverlapOnlyAfterExpiry'
    <3>1. \A v \in Workers : ~LiveOn(v, i) \/ s = "stopped"
      BY <2>2 DEF RunInv, Resumable
    <3>2. ASSUME NEW v \in Workers, NEW j \in Items, LiveOn(v, j)'
          PROVE  \/ status'[j] = "stopped"
                 \/ status'[j] = "running" /\ owner'[j] = v /\ lease'[j] = held'[v]
      BY <2>2, <3>1, <3>2 DEF LiveOn, RunInv, Write, TypeOK
    <3>3. OverlapOnlyAfterExpiry'
      BY <2>2 DEF OverlapOnlyAfterExpiry
    <3> QED BY <3>2, <3>3 DEF RunInv
  <2>3. ASSUME NEW c \in Clients,
               StopWrite(c) \/ ResumeWrite(c) \/ \E i \in Items : Enqueue(c, i)
        PROVE  RunInv' /\ OverlapOnlyAfterExpiry'
    <3>1. CASE \E i \in Items : Enqueue(c, i)
      BY <3>1, <2>2 DEF Enqueue
    <3>2. CASE StopWrite(c) \/ ResumeWrite(c)
      <4>1. call[c].item \in Items /\ CheckHolds(c)
        BY <3>2, CheckedCall DEF StopWrite, ResumeWrite, CheckedOps, Procs, LockInv
      <4> QED BY <3>2, <4>1, <2>2 DEF StopWrite, ResumeWrite, CheckHolds
    <3> QED BY <2>3, <3>1, <3>2
  <2>4. \/ UNCHANGED <<status, owner, lease>>
        \/ \E c \in Clients :
              StopWrite(c) \/ ResumeWrite(c) \/ \E i \in Items : Enqueue(c, i)
    BY <1>3 DEF Surroundings, ClientStep, ResumeCheck, StopCheck, Abort, ToggleStopFile,
       Tick, Check, rows
  <2> QED BY <2>1, <2>3, <2>4
<1>4. CASE ToggleStopPath \/ UNCHANGED allVars
  BY <1>4, <1>types, QuietStep DEF ToggleStopPath, allVars, workerVars, vars
<1> QED BY <1>1, <1>2, <1>3, <1>4 DEF WNext

\* Without FTS5, for every lease time and any number of workers, operators,
\* crashes and resumes: an overlap of two runs needs an expired lease.
THEOREM ExclusiveRuns == ASSUME ~Fts5 PROVE WSpec => []OverlapOnlyAfterExpiry
<1>1. NightInv /\ [WNext]_allVars => NightInv'
  BY NightStep
<1>2. NightInv => OverlapOnlyAfterExpiry
  BY DEF NightInv
<1> QED BY <1>1, <1>2, NightInit, PTL DEF WSpec

---------------------------------------------------------------------------
(* What a step of the loop may never do.                                   *)

\* Only the first heartbeat leads to a run, and where check and write are one
\* transaction the row it renewed is still the one it read.
LEMMA RunStarts ==
  ASSUME ~Fts5, LoopInv, LockInv, [WNext]_allVars,
         NEW w \in Workers, pc[w] # "run", pc'[w] = "run"
  PROVE  status'[task[w]] = "running" /\ owner'[task[w]] = w
<1> TypeOK /\ pc \in [Workers -> PCs]
  BY DEF LoopInv, WTypeOK
<1>1. BeatWritten(w) /\ pc[w] = "beat1"
  <2>1. ASSUME NEW v \in Workers, WStep(v) \/ Die(v) PROVE v = w /\ BeatWritten(w) /\ pc[w] = "beat1"
    BY <2>1 DEF WStep, LeaveLoop, StartClaim, NothingQueued, Claimed, Beat, BeatWritten,
       RunReturns, RunRaises, Report, Reported, Rejected, Die, Go, workerVars
  <2>2. ~ (Surroundings \/ ToggleStopPath \/ UNCHANGED allVars)
    BY DEF Surroundings, ToggleStopPath, allVars, workerVars
  <2> QED BY <2>1, <2>2 DEF WNext
<1> DEFINE i == task[w]
<1>2. /\ i \in Items /\ call[w].item = i /\ call[w].op = "heartbeat"
      /\ status'[i] # "stopped"
  BY <1>1 DEF BeatWritten, HeartbeatRenew, HeartbeatStop, LoopInv, CheckedOps, Go
<1>3. status[i] = "running" /\ owner[i] = w
  BY <1>2 DEF LockInv, CheckHolds, OwnsRunning, Procs
<1>4. CASE HeartbeatRenew(w)
  BY <1>2, <1>3, <1>4 DEF HeartbeatRenew, Write, TypeOK
<1>5. CASE HeartbeatStop(w)
  BY <1>2, <1>5 DEF HeartbeatStop, Write, TypeOK
<1> QED BY <1>1, <1>4, <1>5 DEF BeatWritten

\* Without FTS5 the desktop daemon is started only on an item that the worker's
\* own row says it is running, whoever stops, claims or resumes items meanwhile.
THEOREM RunsOwnItems == ASSUME ~Fts5 PROVE WSpec => RunsOnlyOwnItems
<1>1. NightInv /\ [WNext]_allVars => NightInv'
  BY NightStep
<1>2. NightInv /\ [WNext]_allVars =>
        [\A w \in Workers :
            pc[w] # "run" /\ pc'[w] = "run"
                => status'[task[w]] = "running" /\ owner'[task[w]] = w]_allVars
  BY RunStarts DEF NightInv
<1> QED BY <1>1, <1>2, NightInit, PTL DEF WSpec, RunsOnlyOwnItems

\* Under the night daemon the queue keeps what the queue's theorems promise:
\* no row leaves done or stopped, only the lease owner's calls change a running
\* row, and every write is a step of JobQueue.
THEOREM NightQueuePromises ==
  ASSUME ~Fts5
  PROVE  WSpec => FinalStaysFinal /\ OnlyOwnerReports /\ ImplementsJobQueue
<1>1. Spec => FinalStaysFinal
  BY FinalIsFinal
<1>2. Spec => OnlyOwnerReports
  BY OwnerReports
<1>3. Spec => ImplementsJobQueue
  BY QueueImplementsJobQueue
<1>4. WSpec => Spec
  BY LoopImplementsQueue DEF UsesQueue
<1> QED BY <1>1, <1>2, <1>3, <1>4, PTL

\* The same of what the queue promises with FTS5 as well: a running row can be
\* taken over, no row is handed out more often than its max_attempts, and a
\* live lease is not taken over.
THEOREM NightRowsRecoverable ==
  WSpec => []RunningIsRecoverable /\ []AttemptsBounded /\ LiveLeaseNotStolen
<1>1. Spec => []RunningIsRecoverable
  BY RunningRecoverable
<1>2. Spec => []AttemptsBounded
  BY AttemptsAreBounded
<1>3. Spec => LiveLeaseNotStolen
  BY LiveLeaseSafe
<1>4. WSpec => Spec
  BY LoopImplementsQueue DEF UsesQueue
<1> QED BY <1>1, <1>2, <1>3, <1>4, PTL
===========================================================================
