------------------------ MODULE RuntimeQueueProofs ------------------------
(***************************************************************************)
(* Proofs about RuntimeQueue for every set of items, workers and clients,  *)
(* every max_attempts and lease time.  QueueInv is the inductive           *)
(* invariant: the table's shape plus what a process inside a call still    *)
(* knows when its write comes, whatever others wrote since its check.      *)
(***************************************************************************)
EXTENDS RuntimeQueue, TLAPS

\* What the pending write of process p relies on: a finish carries an outcome
\* for an item that was claimed, and timestamps are never in the future.
CallInv ==
    \A p \in Procs :
        /\ call[p].at <= now
        /\ call[p].op = "finish" =>
               call[p].to \in Outcomes /\ attempts[call[p].item] > 0

QueueInv == TypeOK /\ CallInv /\ RunningIsRecoverable /\ AttemptsBounded

\* Type correctness is inductive by itself.
LEMMA TypeInit == Init => TypeOK
  BY QueueAssumption DEF Init, TypeOK, Procs, Idle, CallType, NoLease

\* A call between its check and its write names an item.
LEMMA CheckedCall ==
  ASSUME TypeOK, NEW p \in Procs, call[p].op \in CheckedOps
  PROVE  call[p].item \in Items /\ call[p].at \in Nat /\ call[p].to \in Statuses
  BY DEF TypeOK, CallType, Idle, CheckedOps

\* A well-typed UPDATE keeps the three columns it sets well-typed.
LEMMA WriteType ==
  ASSUME TypeOK, NEW i \in Items, NEW s \in Statuses,
         NEW o \in Workers \cup {NoOwner}, NEW l \in Nat, Write(i, s, o, l)
  PROVE  /\ status' \in [Items -> Statuses \cup {"absent"}]
         /\ owner' \in [Items -> Workers \cup {NoOwner}]
         /\ lease' \in [Items -> Nat]
  BY DEF TypeOK, Write

LEMMA ReturnType ==
  ASSUME TypeOK, NEW p \in Procs, Return(p) PROVE call' \in [Procs -> CallType]
  BY DEF TypeOK, Return, CallType

LEMMA CheckType ==
  ASSUME TypeOK, NEW p \in Procs, NEW op \in CheckedOps, NEW i \in Items,
         NEW s \in Statuses, Check(p, op, i, s)
  PROVE  TypeOK'
  BY DEF TypeOK, Check, Call, CallType, rows

LEMMA TypeStep == TypeOK /\ [Next]_vars => TypeOK'
<1> SUFFICES ASSUME TypeOK, [Next]_vars PROVE TypeOK'
  OBVIOUS
<1>1. ASSUME NEW w \in Workers, WorkerStep(w) PROVE TypeOK'
  <2> w \in Procs
    BY DEF Procs
  <2>1. CASE ClaimBegin(w)
    BY <2>1 DEF ClaimBegin, Call, CallType, TypeOK, rows
  <2>2. CASE ClaimNothing(w)
    BY <2>2, ReturnType DEF ClaimNothing, TypeOK, rows
  <2>3. CASE \E i \in Items : ClaimItem(w, i)
    <3> PICK i \in Items : ClaimItem(w, i)
      BY <2>3
    <3>1. call[w].at + LeaseTime \in Nat
      BY QueueAssumption DEF TypeOK, CallType, Idle, ClaimItem
    <3>2. Write(i, "running", w, call[w].at + LeaseTime) /\ Return(w)
      BY DEF ClaimItem
    <3>3. attempts' \in [Items -> Nat]
      BY DEF ClaimItem, TypeOK
    <3> QED BY <3>1, <3>2, <3>3, WriteType, ReturnType DEF ClaimItem, TypeOK, Statuses
  <2>4. CASE \E i \in Items : HeartbeatCheck(w, i)
    BY <2>4, CheckType DEF HeartbeatCheck, CheckedOps, Statuses
  <2>5. CASE HeartbeatRenew(w)
    <3>1. call[w].item \in Items /\ call[w].at + LeaseTime \in Nat
      BY <2>5, CheckedCall, QueueAssumption DEF HeartbeatRenew, CheckedOps
    <3>2. PICK i \in Items : Write(i, status[i], owner[i], call[w].at + LeaseTime)
      BY <2>5, <3>1 DEF HeartbeatRenew
    <3>3. /\ status' \in [Items -> Statuses \cup {"absent"}]
          /\ owner' \in [Items -> Workers \cup {NoOwner}]
          /\ lease' \in [Items -> Nat]
      BY <3>1, <3>2 DEF Write, TypeOK
    <3> QED BY <2>5, <3>3, ReturnType DEF HeartbeatRenew, TypeOK
  <2>6. CASE HeartbeatStop(w)
    <3>1. call[w].item \in Items
      BY <2>6, CheckedCall DEF HeartbeatStop, CheckedOps
    <3> QED BY <2>6, <3>1, WriteType, ReturnType DEF HeartbeatStop, TypeOK, Statuses, NoLease
  <2>7. CASE \E i \in Items, s \in Outcomes : FinishCheck(w, i, s)
    BY <2>7, CheckType DEF FinishCheck, CheckedOps, Statuses
  <2>8. CASE FinishWrite(w)
    <3>1. call[w].item \in Items /\ call[w].to \in Statuses
      BY <2>8, CheckedCall DEF FinishWrite, CheckedOps
    <3> QED BY <2>8, <3>1, WriteType, ReturnType DEF FinishWrite, TypeOK, NoLease
  <2> QED BY <1>1, <2>1, <2>2, <2>3, <2>4, <2>5, <2>6, <2>7, <2>8 DEF WorkerStep
<1>2. ASSUME NEW c \in Clients, ClientStep(c) PROVE TypeOK'
  <2> c \in Procs
    BY DEF Procs
  <2>1. CASE \E i \in Items : Enqueue(c, i)
    BY <2>1 DEF Enqueue, Write, TypeOK, Statuses, NoLease
  <2>2. CASE \E i \in Items : ResumeCheck(c, i)
    BY <2>2, CheckType DEF ResumeCheck, CheckedOps, Statuses
  <2>3. CASE ResumeWrite(c)
    <3>1. call[c].item \in Items
      BY <2>3, CheckedCall DEF ResumeWrite, CheckedOps
    <3> QED BY <2>3, <3>1, WriteType, ReturnType DEF ResumeWrite, TypeOK, Statuses, NoLease
  <2> QED BY <1>2, <2>1, <2>2, <2>3 DEF ClientStep
<1>3. ASSUME NEW p \in Procs, NEW i \in Items, StopCheck(p, i) PROVE TypeOK'
  BY <1>3, CheckType DEF StopCheck, CheckedOps, Statuses
<1>4. ASSUME NEW p \in Procs, StopWrite(p) PROVE TypeOK'
  <2>1. call[p].item \in Items
    BY <1>4, CheckedCall DEF StopWrite, CheckedOps
  <2> QED BY <1>4, <2>1, WriteType, ReturnType DEF StopWrite, TypeOK, Statuses, NoLease
<1>5. ASSUME NEW p \in Procs, Abort(p) PROVE TypeOK'
  BY <1>5, ReturnType DEF Abort, TypeOK, rows
<1>6. ASSUME NEW i \in StopFiled, ToggleStopFile(i) PROVE TypeOK'
  BY <1>6 DEF ToggleStopFile, TypeOK, rows
<1>7. CASE Tick
  BY <1>7 DEF Tick, TypeOK, rows
<1>8. CASE UNCHANGED vars
  BY <1>8 DEF vars, TypeOK
<1> QED BY <1>1, <1>2, <1>3, <1>4, <1>5, <1>6, <1>7, <1>8 DEF Next

\* The table and the calls in progress always have their types.
THEOREM TypeCorrect == Spec => []TypeOK
  BY TypeInit, TypeStep, PTL DEF Spec

---------------------------------------------------------------------------
LEMMA QueueInit == Init => QueueInv
  BY TypeInit, QueueAssumption
  DEF Init, QueueInv, CallInv, RunningIsRecoverable, AttemptsBounded, Idle, Outcomes

\* Returning from a call or making a check disturbs no row.
LEMMA ReturnKeepsInv ==
  ASSUME QueueInv, TypeOK', NEW p \in Procs, Return(p), UNCHANGED <<rows, now>>
  PROVE  QueueInv'
  BY DEF QueueInv, CallInv, RunningIsRecoverable, AttemptsBounded, Return, Idle,
         TypeOK, rows

LEMMA CheckKeepsInv ==
  ASSUME QueueInv, TypeOK', NEW p \in Procs, NEW op \in CheckedOps, NEW i \in Items,
         NEW s \in Statuses, Check(p, op, i, s),
         op = "finish" => s \in Outcomes /\ attempts[i] > 0
  PROVE  QueueInv'
  BY DEF QueueInv, CallInv, RunningIsRecoverable, AttemptsBounded, Check, Call,
         TypeOK, rows

\* The UPDATE that ends a call: it leaves attempts alone, and either keeps a
\* status the row already had or sets one that needs no lease.
LEMMA WriteKeepsInv ==
  ASSUME QueueInv, TypeOK', NEW p \in Procs, NEW i \in Items, NEW s \in Statuses,
         NEW o \in Workers \cup {NoOwner}, NEW l \in Nat,
         Write(i, s, o, l), Return(p), UNCHANGED <<attempts, now>>,
         \/ s = status[i] /\ o = owner[i] /\ l # NoLease
         \/ s = "queued" /\ o = NoOwner
         \/ s = "stopped"
         \/ s \in Outcomes /\ attempts[i] > 0
  PROVE  QueueInv'
<1> USE DEF QueueInv
<1>1. CallInv'
  BY DEF CallInv, Return, Idle, TypeOK
<1>2. RunningIsRecoverable'
  BY DEF RunningIsRecoverable, Write, TypeOK, Outcomes
<1>3. AttemptsBounded'
  BY DEF AttemptsBounded, Write, TypeOK, Outcomes
<1> QED BY <1>1, <1>2, <1>3

LEMMA QueueStep == QueueInv /\ [Next]_vars => QueueInv'
<1> SUFFICES ASSUME QueueInv, [Next]_vars PROVE QueueInv'
  OBVIOUS
<1> TypeOK /\ TypeOK'
  BY TypeStep DEF QueueInv
<1>1. ASSUME NEW w \in Workers, WorkerStep(w) PROVE QueueInv'
  <2> w \in Procs
    BY DEF Procs
  <2>1. CASE ClaimBegin(w)
    BY <2>1 DEF ClaimBegin, Call, QueueInv, CallInv, RunningIsRecoverable,
                AttemptsBounded, TypeOK, rows
  <2>2. CASE ClaimNothing(w)
    BY <2>2, ReturnKeepsInv DEF ClaimNothing
  <2>3. CASE \E i \in Items : ClaimItem(w, i)
    <3> PICK i \in Items : ClaimItem(w, i)
      BY <2>3
    <3> DEFINE l == call[w].at + LeaseTime
    <3>1. Write(i, "running", w, l) /\ Return(w) /\ now' = now
          /\ attempts' = [attempts EXCEPT ![i] = @ + 1] /\ attempts[i] < MaxAttempts[i]
      BY DEF ClaimItem, Claimable
    <3>2. l \in Nat /\ l # NoLease
      BY QueueAssumption DEF TypeOK, CallType, Idle, NoLease
    <3>3. CallInv'
      BY <3>1 DEF QueueInv, CallInv, Return, Idle, TypeOK, CallType, CheckedOps
    <3>4. RunningIsRecoverable'
      BY <3>1, <3>2, QueueAssumption DEF QueueInv, RunningIsRecoverable, Write, TypeOK
    <3>5. AttemptsBounded'
      <4>1. attempts[i] \in Nat /\ MaxAttempts[i] \in Nat
        BY QueueAssumption DEF TypeOK
      <4>2. attempts'[i] = attempts[i] + 1
        BY <3>1 DEF TypeOK
      <4>3. \A j \in Items \ {i} : attempts'[j] = attempts[j] /\ status'[j] = status[j]
        BY <3>1 DEF Write, TypeOK
      <4> QED BY <3>1, <4>1, <4>2, <4>3 DEF QueueInv, AttemptsBounded
    <3> QED BY <3>3, <3>4, <3>5 DEF QueueInv
  <2>4. CASE \E i \in Items : HeartbeatCheck(w, i)
    BY <2>4, CheckKeepsInv DEF HeartbeatCheck, CheckedOps, Statuses
  <2>5. CASE HeartbeatRenew(w)
    <3> DEFINE i == call[w].item
               l == call[w].at + LeaseTime
    <3>1. i \in Items /\ l \in Nat /\ l # NoLease
      BY <2>5, CheckedCall, QueueAssumption DEF HeartbeatRenew, CheckedOps, NoLease
    <3>2. Write(i, status[i], owner[i], l) /\ Return(w) /\ UNCHANGED <<attempts, now>>
      BY <2>5 DEF HeartbeatRenew
    <3> HIDE DEF i, l
    <3>3. CallInv'
      BY <3>2 DEF QueueInv, CallInv, Return, Idle, TypeOK
    <3>4. RunningIsRecoverable' /\ AttemptsBounded'
      BY <3>1, <3>2 DEF QueueInv, RunningIsRecoverable, AttemptsBounded, Write, TypeOK
    <3> QED BY <3>3, <3>4 DEF QueueInv
  <2>6. CASE HeartbeatStop(w)
    <3>1. call[w].item \in Items
      BY <2>6, CheckedCall DEF HeartbeatStop, CheckedOps
    <3>2. owner[call[w].item] \in Workers \cup {NoOwner}
      BY <3>1 DEF TypeOK
    <3> QED BY <2>6, <3>1, <3>2, WriteKeepsInv DEF HeartbeatStop, Statuses, NoLease
  <2>7. ASSUME NEW i \in Items, NEW s \in Outcomes, FinishCheck(w, i, s)
        PROVE  QueueInv'
    <3>1. attempts[i] > 0
      BY <2>7 DEF FinishCheck, OwnsRunning, QueueInv, AttemptsBounded
    <3> QED BY <2>7, <3>1, CheckKeepsInv DEF FinishCheck, CheckedOps, Statuses
  <2>8. CASE FinishWrite(w)
    <3>1. call[w].item \in Items /\ call[w].to \in Statuses
      BY <2>8, CheckedCall DEF FinishWrite, CheckedOps
    <3>2. call[w].to \in Outcomes /\ attempts[call[w].item] > 0
      BY <2>8 DEF FinishWrite, QueueInv, CallInv
    <3>3. owner[call[w].item] \in Workers \cup {NoOwner}
      BY <3>1 DEF TypeOK
    <3> QED BY <2>8, <3>1, <3>2, <3>3, WriteKeepsInv DEF FinishWrite, NoLease
  <2> QED BY <1>1, <2>1, <2>2, <2>3, <2>4, <2>5, <2>6, <2>7, <2>8 DEF WorkerStep
<1>2. ASSUME NEW c \in Clients, ClientStep(c) PROVE QueueInv'
  <2> c \in Procs
    BY DEF Procs
  <2>1. CASE \E i \in Items : Enqueue(c, i)
    <3> PICK i \in Items : Enqueue(c, i)
      BY <2>1
    <3>1. CallInv'
      BY DEF QueueInv, CallInv, Enqueue, TypeOK, CallType, CheckedOps, Idle,
             AttemptsBounded
    <3>2. RunningIsRecoverable'
      BY DEF QueueInv, RunningIsRecoverable, Enqueue, Write, TypeOK
    <3>3. AttemptsBounded'
      BY QueueAssumption DEF QueueInv, AttemptsBounded, Enqueue, Write, TypeOK, Outcomes
    <3> QED BY <3>1, <3>2, <3>3 DEF QueueInv
  <2>2. CASE \E i \in Items : ResumeCheck(c, i)
    BY <2>2, CheckKeepsInv DEF ResumeCheck, CheckedOps, Statuses
  <2>3. CASE ResumeWrite(c)
    <3>1. call[c].item \in Items
      BY <2>3, CheckedCall DEF ResumeWrite, CheckedOps
    <3> QED BY <2>3, <3>1, WriteKeepsInv DEF ResumeWrite, Statuses, NoLease
  <2> QED BY <1>2, <2>1, <2>2, <2>3 DEF ClientStep
<1>3. ASSUME NEW p \in Procs, NEW i \in Items, StopCheck(p, i) PROVE QueueInv'
  BY <1>3, CheckKeepsInv DEF StopCheck, CheckedOps, Statuses
<1>4. ASSUME NEW p \in Procs, StopWrite(p) PROVE QueueInv'
  <2>1. call[p].item \in Items
    BY <1>4, CheckedCall DEF StopWrite, CheckedOps
  <2>2. owner[call[p].item] \in Workers \cup {NoOwner}
    BY <2>1 DEF TypeOK
  <2> QED BY <1>4, <2>1, <2>2, WriteKeepsInv DEF StopWrite, Statuses, NoLease
<1>5. ASSUME NEW p \in Procs, Abort(p) PROVE QueueInv'
  BY <1>5, ReturnKeepsInv DEF Abort
<1>6. ASSUME NEW i \in StopFiled, ToggleStopFile(i) PROVE QueueInv'
  BY <1>6 DEF ToggleStopFile, QueueInv, CallInv, RunningIsRecoverable,
              AttemptsBounded, rows
<1>7. CASE Tick
  BY <1>7 DEF Tick, QueueInv, CallInv, RunningIsRecoverable, AttemptsBounded, rows,
              TypeOK, CallType, Idle
<1>8. CASE UNCHANGED vars
  BY <1>8 DEF vars, QueueInv, CallInv, RunningIsRecoverable, AttemptsBounded
<1> QED BY <1>1, <1>2, <1>3, <1>4, <1>5, <1>6, <1>7, <1>8 DEF Next

LEMMA QueueInvariant == Spec => []QueueInv
  BY QueueInit, QueueStep, PTL DEF Spec

\* A running row always has an owner and a non-NULL lease, whatever overlaps.
THEOREM RunningRecoverable == Spec => []RunningIsRecoverable
  BY QueueInvariant, PTL DEF QueueInv

\* No interleaving of claims, crashes and resumes runs an item too often.
THEOREM AttemptsAreBounded == Spec => []AttemptsBounded
  BY QueueInvariant, PTL DEF QueueInv

---------------------------------------------------------------------------
(* A claim respects a live lease.                                          *)

LEMMA LiveLeaseStep ==
  QueueInv /\ [Next]_vars =>
    [\A i \in Items :
        status[i] = "running" /\ attempts'[i] # attempts[i] => lease[i] < now]_vars
<1> SUFFICES ASSUME QueueInv, Next, NEW i \in Items, status[i] = "running",
                    attempts'[i] # attempts[i]
             PROVE  lease[i] < now
  BY DEF vars
<1>1. PICK w \in Workers, j \in Items : ClaimItem(w, j)
  BY DEF Next, WorkerStep, ClientStep, ClaimBegin, ClaimNothing, HeartbeatCheck,
         HeartbeatRenew, HeartbeatStop, FinishCheck, FinishWrite, Enqueue, ResumeCheck,
         ResumeWrite, StopCheck, StopWrite, Abort, ToggleStopFile, Tick, Check, rows
<1>2. j = i
  BY <1>1 DEF ClaimItem, QueueInv, TypeOK
<1>3. lease[i] < call[w].at
  BY <1>1, <1>2 DEF ClaimItem, Claimable, Expired
<1>4. call[w].at <= now /\ call[w].at \in Nat /\ now \in Nat /\ lease[i] \in Nat
  BY DEF QueueInv, CallInv, TypeOK, CallType, Idle, Procs
<1> QED BY <1>3, <1>4

\* However long a claimer waited for the write lock, the lease it takes over
\* had expired: a live lease is never handed to a second worker by a claim.
THEOREM LiveLeaseSafe == Spec => LiveLeaseNotStolen
  BY QueueInvariant, LiveLeaseStep, PTL DEF Spec, LiveLeaseNotStolen

---------------------------------------------------------------------------
(* Without FTS5 the check and the write of a call are one transaction.     *)

\* What a process checked still holds when it writes, because no other process
\* can be between its own check and write, nor claim or enqueue meanwhile.
CheckHolds(p) ==
    LET i == call[p].item IN
    /\ call[p].op = "heartbeat" => call[p].to \in {"running", "stopped"}
    /\ call[p].op = "finish" => call[p].to \in Outcomes
    /\ call[p].op \in {"heartbeat", "finish"} => OwnsRunning(p, i)
    /\ call[p].op = "stop" =>
           call[p].to = "stopped" /\ status[i] \notin Terminal \cup {"absent"}
    /\ call[p].op = "resume" => status[i] \in Resumable

LockInv ==
    /\ \A p, q \in Procs :
           call[p].op \in CheckedOps /\ call[q].op \in CheckedOps => p = q
    /\ \A p \in Procs : CheckHolds(p)

LEMMA LockInit == Init => LockInv
  BY DEF Init, LockInv, CheckHolds, Idle, CheckedOps

LEMMA LockCheck ==
  ASSUME TypeOK, LockInv, ~Fts5, NEW p \in Procs, NEW op \in CheckedOps,
         NEW i \in Items, NEW s \in Statuses, Check(p, op, i, s),
         op = "heartbeat" => s \in {"running", "stopped"} /\ OwnsRunning(p, i),
         op = "finish" => s \in Outcomes /\ OwnsRunning(p, i),
         op = "stop" => s = "stopped" /\ status[i] \notin Terminal \cup {"absent"},
         op = "resume" => status[i] \in Resumable
  PROVE  LockInv'
<1>1. \A q \in Procs \ {p} : call[q].op \notin CheckedOps /\ call'[q] = call[q]
  BY DEF Check, Call, LockFree, TypeOK
<1>2. call'[p] = [op |-> op, item |-> i, at |-> now, to |-> s]
  BY DEF Check, Call, TypeOK
<1>3. UNCHANGED <<status, owner>>
  BY DEF Check, rows
<1>4. CheckHolds(p)'
  BY <1>2, <1>3 DEF CheckHolds, OwnsRunning
<1>5. \A q \in Procs \ {p} : CheckHolds(q)'
  BY <1>1 DEF CheckHolds, CheckedOps
<1> QED BY <1>1, <1>2, <1>4, <1>5 DEF LockInv

\* After a return or a write of p no process is between check and write.
LEMMA LockReturn ==
  ASSUME TypeOK, LockInv, NEW p \in Procs, Return(p),
         call[p].op \in CheckedOps \/ UNCHANGED rows
                                   \/ \A q \in Procs : call[q].op \notin CheckedOps
  PROVE  LockInv'
<1>1. call'[p] = Idle /\ \A q \in Procs \ {p} : call'[q] = call[q]
  BY DEF Return, TypeOK
<1>2. CASE UNCHANGED rows
  BY <1>1, <1>2 DEF LockInv, CheckHolds, OwnsRunning, Idle, CheckedOps, rows
<1>3. CASE call[p].op \in CheckedOps \/ \A q \in Procs : call[q].op \notin CheckedOps
  <2>1. \A q \in Procs : call'[q].op \notin CheckedOps
    BY <1>1, <1>3 DEF LockInv, Idle, CheckedOps
  <2> QED BY <2>1 DEF LockInv, CheckHolds, CheckedOps
<1> QED BY <1>2, <1>3

LEMMA LockStep == ~Fts5 /\ TypeOK /\ LockInv /\ [Next]_vars => LockInv'
<1> SUFFICES ASSUME ~Fts5, TypeOK, LockInv, [Next]_vars PROVE LockInv'
  OBVIOUS
<1>1. ASSUME NEW w \in Workers, WorkerStep(w) PROVE LockInv'
  <2> w \in Procs
    BY DEF Procs
  <2>1. CASE ClaimBegin(w)
    <3>1. call'[w].op \notin CheckedOps /\ \A q \in Procs \ {w} : call'[q] = call[q]
      BY <2>1 DEF ClaimBegin, Call, TypeOK, CheckedOps
    <3> QED BY <2>1, <3>1 DEF ClaimBegin, LockInv, CheckHolds, OwnsRunning, CheckedOps, rows
  <2>2. CASE ClaimNothing(w)
    BY <2>2, LockReturn DEF ClaimNothing
  <2>3. CASE \E i \in Items : ClaimItem(w, i)
    BY <2>3, LockReturn DEF ClaimItem, LockFree
  <2>4. CASE \E i \in Items : HeartbeatCheck(w, i)
    BY <2>4, LockCheck DEF HeartbeatCheck, CheckedOps, Statuses
  <2>5. CASE HeartbeatRenew(w)
    BY <2>5, LockReturn DEF HeartbeatRenew, CheckedOps
  <2>6. CASE HeartbeatStop(w)
    BY <2>6, LockReturn DEF HeartbeatStop, CheckedOps
  <2>7. CASE \E i \in Items, s \in Outcomes : FinishCheck(w, i, s)
    BY <2>7, LockCheck DEF FinishCheck, CheckedOps, Statuses
  <2>8. CASE FinishWrite(w)
    BY <2>8, LockReturn DEF FinishWrite, CheckedOps
  <2> QED BY <1>1, <2>1, <2>2, <2>3, <2>4, <2>5, <2>6, <2>7, <2>8 DEF WorkerStep
<1>2. ASSUME NEW c \in Clients, ClientStep(c) PROVE LockInv'
  <2> c \in Procs
    BY DEF Procs
  <2>1. CASE \E i \in Items : Enqueue(c, i)
    <3>1. \A q \in Procs : call'[q].op \notin CheckedOps
      BY <2>1 DEF Enqueue, LockFree
    <3> QED BY <3>1 DEF LockInv, CheckHolds, CheckedOps
  <2>2. CASE \E i \in Items : ResumeCheck(c, i)
    BY <2>2, LockCheck DEF ResumeCheck, CheckedOps, Statuses
  <2>3. CASE ResumeWrite(c)
    BY <2>3, LockReturn DEF ResumeWrite, CheckedOps
  <2> QED BY <1>2, <2>1, <2>2, <2>3 DEF ClientStep
<1>3. ASSUME NEW p \in Procs, NEW i \in Items, StopCheck(p, i) PROVE LockInv'
  BY <1>3, LockCheck DEF StopCheck, CheckedOps, Statuses
<1>4. ASSUME NEW p \in Procs, StopWrite(p) PROVE LockInv'
  BY <1>4, LockReturn DEF StopWrite, CheckedOps
<1>5. ASSUME NEW p \in Procs, Abort(p) PROVE LockInv'
  BY <1>5, LockReturn DEF Abort
<1>6. ASSUME NEW i \in StopFiled, ToggleStopFile(i) PROVE LockInv'
  BY <1>6 DEF ToggleStopFile, LockInv, CheckHolds, OwnsRunning, rows
<1>7. CASE Tick
  BY <1>7 DEF Tick, LockInv, CheckHolds, OwnsRunning, rows
<1>8. CASE UNCHANGED vars
  BY <1>8 DEF vars, LockInv, CheckHolds, OwnsRunning
<1> QED BY <1>1, <1>2, <1>3, <1>4, <1>5, <1>6, <1>7, <1>8 DEF Next

LEMMA LockInvariant == ASSUME ~Fts5 PROVE Spec => [](QueueInv /\ LockInv)
<1>1. QueueInv /\ LockInv /\ [Next]_vars => (QueueInv /\ LockInv)'
  BY QueueStep, LockStep DEF QueueInv
<1> QED BY <1>1, QueueInit, LockInit, PTL DEF Spec

\* Every step is a step of JobQueue or leaves its variables alone.
LEMMA JobStep ==
  ASSUME ~Fts5, QueueInv, LockInv, [Next]_vars PROVE [Jobs!Next]_(Jobs!vars)
<1> TypeOK /\ TypeOK'
  BY TypeStep DEF QueueInv
<1> USE DEF Jobs!vars
<1>1. CASE UNCHANGED rows
  BY <1>1 DEF rows
<1>2. ASSUME NEW w \in Workers, NEW i \in Items, ClaimItem(w, i)
      PROVE  Jobs!Assign(i, w)
  BY <1>2, QueueAssumption DEF ClaimItem, Claimable, Expired, Write, TypeOK,
     Jobs!Assign, Jobs!Move, JobOf
<1>3. ASSUME NEW w \in Workers, HeartbeatRenew(w) PROVE UNCHANGED Jobs!vars
  <2>1. call[w].item \in Items
    BY <1>3, CheckedCall DEF HeartbeatRenew, CheckedOps, Procs
  <2> QED BY <1>3, <2>1 DEF HeartbeatRenew, Write, TypeOK
<1>4. ASSUME NEW w \in Workers, HeartbeatStop(w) PROVE \E i \in Items : Jobs!Cancel(i)
  <2>1. call[w].item \in Items /\ CheckHolds(w)
    BY <1>4, CheckedCall DEF HeartbeatStop, CheckedOps, Procs, LockInv
  <2>2. Jobs!Cancel(call[w].item)
    BY <1>4, <2>1 DEF HeartbeatStop, CheckHolds, OwnsRunning, Write, TypeOK,
       Jobs!Cancel, Jobs!Move, JobOf
  <2> QED BY <2>1, <2>2
<1>5. ASSUME NEW w \in Workers, FinishWrite(w)
      PROVE  \E i \in Items, o \in {"done", "parked"} : Jobs!Report(i, o)
  <2> DEFINE i == call[w].item
             o == JobOf(call[w].to)
  <2>1. i \in Items /\ CheckHolds(w)
    BY <1>5, CheckedCall DEF FinishWrite, CheckedOps, Procs, LockInv
  <2>2. o \in {"done", "parked"} /\ status[i] = "running"
    BY <1>5, <2>1 DEF FinishWrite, CheckHolds, OwnsRunning, JobOf, Outcomes
  <2>3. Jobs!Report(i, o)
    BY <1>5, <2>1, <2>2 DEF FinishWrite, Write, TypeOK, Jobs!Report, Jobs!Move, JobOf
  <2> QED BY <2>1, <2>2, <2>3
<1>6. ASSUME NEW p \in Procs, StopWrite(p) PROVE \E i \in Items : Jobs!Cancel(i)
  <2>1. call[p].item \in Items /\ CheckHolds(p)
    BY <1>6, CheckedCall DEF StopWrite, CheckedOps, LockInv
  <2> DEFINE i == call[p].item
  <2>2. JobOf(status[i]) \in {"waiting", "held", "parked"}
    BY <1>6, <2>1 DEF StopWrite, CheckHolds, TypeOK, Terminal, Statuses, Outcomes, JobOf
  <2>3. status' = [status EXCEPT ![i] = "stopped"] /\ owner' = owner
    BY <1>6, <2>1 DEF StopWrite, Write, TypeOK
  <2>4. Jobs!Cancel(i)
    BY <1>6, <2>1, <2>2, <2>3 DEF StopWrite, TypeOK, Jobs!Cancel, Jobs!Move, JobOf
  <2> QED BY <2>1, <2>4
<1>7. ASSUME NEW c \in Clients, ResumeWrite(c) PROVE \E i \in Items : Jobs!Reopen(i)
  <2>1. call[c].item \in Items /\ CheckHolds(c)
    BY <1>7, CheckedCall DEF ResumeWrite, CheckedOps, Procs, LockInv
  <2> QED BY <1>7, <2>1 DEF ResumeWrite, CheckHolds, Write, TypeOK, Resumable,
             Jobs!Reopen, Jobs!Move, JobOf
<1>8. ASSUME NEW c \in Clients, NEW i \in Items, Enqueue(c, i) PROVE Jobs!Submit(i)
  BY <1>8 DEF Enqueue, Write, TypeOK, Jobs!Submit, Jobs!Move, JobOf
<1>9. Next => \/ UNCHANGED rows
              \/ \E w \in Workers, i \in Items : ClaimItem(w, i)
              \/ \E w \in Workers : HeartbeatRenew(w) \/ HeartbeatStop(w) \/ FinishWrite(w)
              \/ \E p \in Procs : StopWrite(p)
              \/ \E c \in Clients : ResumeWrite(c)
              \/ \E c \in Clients, i \in Items : Enqueue(c, i)
  BY DEF Next, WorkerStep, ClientStep, ClaimBegin, ClaimNothing, HeartbeatCheck,
         FinishCheck, ResumeCheck, StopCheck, Abort, ToggleStopFile, Tick, Check, rows
<1>10. CASE UNCHANGED vars
  BY <1>10 DEF vars
<1> QED BY <1>1, <1>2, <1>3, <1>4, <1>5, <1>6, <1>7, <1>8, <1>9, <1>10 DEF Jobs!Next

\* On a build without FTS5 the queue implements JobQueue: one holder at a
\* time, final states final, outcomes only for held jobs.
THEOREM QueueImplementsJobQueue == ASSUME ~Fts5 PROVE Spec => ImplementsJobQueue
<1>1. Init => Jobs!Init
  BY DEF Init, Jobs!Init, JobOf
<1>2. QueueInv /\ LockInv /\ [Next]_vars => [Jobs!Next]_(Jobs!vars)
  BY JobStep
<1> QED BY <1>1, <1>2, LockInvariant, PTL DEF Spec, Jobs!Spec, ImplementsJobQueue

LEMMA FinalStep ==
  ASSUME ~Fts5, QueueInv, LockInv, [Next]_vars,
         NEW i \in Items, status[i] \in {"done", "stopped"}
  PROVE  status'[i] = status[i]
<1> TypeOK /\ TypeOK'
  BY TypeStep DEF QueueInv
<1>1. [Jobs!Next]_(Jobs!vars)
  BY JobStep
<1>2. JobOf(status[i]) \in {"done", "cancelled"}
  BY DEF JobOf
<1>3. JobOf(status'[i]) = JobOf(status[i])
  BY <1>1, <1>2 DEF Jobs!Next, Jobs!vars, Jobs!Submit, Jobs!Cancel, Jobs!Reopen,
     Jobs!Assign, Jobs!Report, Jobs!Move
<1> QED BY <1>3 DEF JobOf, TypeOK, Statuses, Outcomes

\* Without FTS5 no late write of any process revives a finished item.
THEOREM FinalIsFinal == ASSUME ~Fts5 PROVE Spec => FinalStaysFinal
<1>1. QueueInv /\ LockInv /\ [Next]_vars =>
        [\A i \in Items : status[i] \in {"done", "stopped"}
                              => status'[i] = status[i]]_vars
  BY FinalStep
<1> QED BY <1>1, LockInvariant, PTL DEF Spec, FinalStaysFinal

\* Without FTS5 only the present lease owner renews or finishes an item.
THEOREM OwnerReports == ASSUME ~Fts5 PROVE Spec => OnlyOwnerReports
<1>1. LockInv =>
        \A i \in Items, w \in Workers :
            call[w].item = i /\ call[w].op \in {"heartbeat", "finish"}
                => status[i] = "running" /\ owner[i] = w
  BY DEF LockInv, CheckHolds, OwnsRunning, Procs
<1>2. QueueInv /\ LockInv /\ [Next]_vars =>
        [\A i \in Items, w \in Workers :
            /\ call[w].item = i
            /\ call[w].op \in {"heartbeat", "finish"}
            /\ <<status[i], lease[i]>>' # <<status[i], lease[i]>>
            => status[i] = "running" /\ owner[i] = w]_vars
  BY <1>1
<1> QED BY <1>2, LockInvariant, PTL DEF Spec, OnlyOwnerReports
===========================================================================
