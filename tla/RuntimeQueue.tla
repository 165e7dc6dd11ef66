--------------------------- MODULE RuntimeQueue ---------------------------
(***************************************************************************)
(* The unified runtime queue of quantagent/runtime_store.py: one SQLite    *)
(* table of work items that every worker process and every operator        *)
(* command reads and writes through the functions enqueue, claim,          *)
(* heartbeat, complete / fail / pause / block, stop and resume.            *)
(*                                                                         *)
(* A claim is one BEGIN IMMEDIATE transaction.  Every other call reads the *)
(* row, checks it in Python, and then issues an UPDATE keyed by task_id    *)
(* alone.  Whether another process can get between the two depends on the  *)
(* SQLite build: _ensure_schema opens an implicit write transaction, and   *)
(* _ensure_optional_fts commits it again (executescript commits) exactly   *)
(* when the build has FTS5.  So with FTS5 the check and the write are two  *)
(* transactions; without it the SELECT already runs under the write lock.  *)
(***************************************************************************)
EXTENDS Naturals, FiniteSets

CONSTANTS
    Items,        \* task ids
    Workers,      \* lease owners: processes that claim and finish items
    Clients,      \* processes that enqueue, stop (no --owner) and resume
    NoOwner,      \* a NULL lease_owner
    NoItem,       \* the item of a process outside any call
    Priority,     \* [Items -> Nat], smaller is claimed first
    MaxAttempts,  \* [Items -> Nat \ {0}], the max_attempts column
    StopFiled,    \* items enqueued with a stop_file
    LeaseTime,    \* _lease_ms(lease_seconds), at least 1
    MaxTime,      \* bound on the clock
    Fts5          \* TRUE iff the SQLite build has FTS5

ASSUME QueueAssumption ==
    /\ NoOwner \notin Workers
    /\ NoItem \notin Items
    /\ Workers \cap Clients = {}
    /\ Priority \in [Items -> Nat]
    /\ MaxAttempts \in [Items -> Nat \ {0}]
    /\ StopFiled \subseteq Items
    /\ LeaseTime \in Nat \ {0}
    /\ MaxTime \in Nat
    /\ Fts5 \in BOOLEAN

VARIABLES
    status,    \* status column; "absent" before the INSERT
    owner,     \* lease_owner column
    lease,     \* lease_expires_at column, NoLease when NULL
    attempts,  \* attempts column
    created,   \* created_at column
    stopFile,  \* items whose stop_file exists on disk
    call,      \* the call each process is inside of
    now        \* the clock every process reads (_now_ms)

rows == <<status, owner, lease, attempts, created>>
vars == <<status, owner, lease, attempts, created, stopFile, call, now>>

NoLease == 0
Procs == Workers \cup Clients
Outcomes == {"done", "failed", "paused", "blocked"}   \* what an owner may report
Statuses == {"queued", "running", "stopped", "lost"} \cup Outcomes
Terminal == {"done", "stopped", "blocked", "lost"}
Resumable == {"paused", "failed", "blocked"}

Idle == [op |-> "idle", item |-> NoItem, at |-> 0, to |-> "none"]
CheckedOps == {"heartbeat", "finish", "stop", "resume"}  \* check, then write
CallType == {Idle}
    \cup [op : {"claim"}, item : {NoItem}, at : Nat, to : {"running"}]
    \cup [op : CheckedOps, item : Items, at : Nat, to : Statuses]

Init ==
    /\ status = [i \in Items |-> "absent"]
    /\ owner = [i \in Items |-> NoOwner]
    /\ lease = [i \in Items |-> NoLease]
    /\ attempts = [i \in Items |-> 0]
    /\ created = [i \in Items |-> 0]
    /\ stopFile = {}
    /\ call = [p \in Procs |-> Idle]
    /\ now = 1

---------------------------------------------------------------------------
(* Transactions.                                                           *)

\* Faulty variant of LockFree: the check never runs under the write lock.
NeverLocked == TRUE

\* No other process sits between its check and its write while holding the
\* write lock; with FTS5 the lock was released before the check.
LockFree == Fts5 \/ \A p \in Procs : call[p].op \notin CheckedOps

Call(p, op, i, to) ==
    call' = [call EXCEPT ![p] = [op |-> op, item |-> i, at |-> now, to |-> to]]
Return(p) == call' = [call EXCEPT ![p] = Idle]

\* The check of a call: it passed, and the write is still to come.  The
\* timestamp, which the code reads a moment earlier, is the check's.
Check(p, op, i, to) ==
    /\ call[p] = Idle
    /\ LockFree
    /\ Call(p, op, i, to)
    /\ UNCHANGED <<rows, stopFile, now>>

\* Faulty variant of Write: two columns swapped in the parameter tuple.
WriteSwapped(i, s, o, l) ==
    /\ status' = [status EXCEPT ![i] = s]
    /\ owner' = [owner EXCEPT ![i] = l]
    /\ lease' = [lease EXCEPT ![i] = o]

\* UPDATE runtime_queue SET ... WHERE task_id = ?
Write(i, s, o, l) ==
    /\ status' = [status EXCEPT ![i] = s]
    /\ owner' = [owner EXCEPT ![i] = o]
    /\ lease' = [lease EXCEPT ![i] = l]

---------------------------------------------------------------------------
(* The operations.                                                         *)

\* enqueue_runtime_queue_item: one INSERT; a known task_id raises ValueError.
\* No row is ever deleted, so attempts still has its default 0.
Enqueue(c, i) ==
    /\ call[c] = Idle
    /\ LockFree
    /\ status[i] = "absent"
    /\ Write(i, "queued", NoOwner, NoLease)
    /\ created' = [created EXCEPT ![i] = now]
    /\ UNCHANGED <<attempts, stopFile, call, now>>

\* claim_runtime_queue_item takes its timestamp, then waits for the lock.
ClaimBegin(w) ==
    /\ call[w] = Idle
    /\ Call(w, "claim", NoItem, "running")
    /\ UNCHANGED <<rows, stopFile, now>>

\* Faulty variant of Expired: a lease counts as expired a tick too early.
ExpiredEarly(i, t) == status[i] = "running" /\ lease[i] # NoLease /\ lease[i] <= t

Expired(i, t) == status[i] = "running" /\ lease[i] # NoLease /\ lease[i] < t

\* Faulty variant of Claimable: running items are never taken over.
ClaimableQueuedOnly(i, t) ==
    attempts[i] < MaxAttempts[i] /\ status[i] = "queued"

\* Faulty variant of Claimable: expired leases ignore max_attempts.
ClaimableForEver(i, t) ==
    \/ status[i] = "queued" /\ attempts[i] < MaxAttempts[i]
    \/ Expired(i, t)

Claimable(i, t) ==
    /\ attempts[i] < MaxAttempts[i]
    /\ status[i] = "queued" \/ Expired(i, t)

\* ORDER BY queued first, priority, created_at (ties, which the code breaks by
\* task_id, are left open).
Class(i) == IF status[i] = "queued" THEN 0 ELSE 1
Before(i, j) ==
    \/ Class(i) < Class(j)
    \/ Class(i) = Class(j) /\ Priority[i] < Priority[j]
    \/ Class(i) = Class(j) /\ Priority[i] = Priority[j] /\ created[i] < created[j]

\* Faulty variant of ClaimItem: max_attempts is looked at after the ordering,
\* so that an exhausted row at the head is all that a claim finds.
ClaimItemHeadOnly(w, i) ==
    /\ call[w].op = "claim"
    /\ LockFree
    /\ Claimable(i, call[w].at)
    /\ \A j \in Items : status[j] = "queued" \/ Expired(j, call[w].at) => ~Before(j, i)
    /\ Write(i, "running", w, call[w].at + LeaseTime)
    /\ attempts' = [attempts EXCEPT ![i] = @ + 1]
    /\ Return(w)
    /\ UNCHANGED <<created, stopFile, now>>

ClaimItem(w, i) ==
    /\ call[w].op = "claim"
    /\ LockFree
    /\ Claimable(i, call[w].at)
    /\ \A j \in Items : Claimable(j, call[w].at) => ~Before(j, i)
    /\ Write(i, "running", w, call[w].at + LeaseTime)
    /\ attempts' = [attempts EXCEPT ![i] = @ + 1]
    /\ Return(w)
    /\ UNCHANGED <<created, stopFile, now>>

ClaimNothing(w) ==
    /\ call[w].op = "claim"
    /\ LockFree
    /\ \A i \in Items : ~Claimable(i, call[w].at)
    /\ Return(w)
    /\ UNCHANGED <<rows, stopFile, now>>

\* _require_runtime_queue_running
OwnsRunning(w, i) == status[i] = "running" /\ owner[i] = w

\* heartbeat_runtime_queue_item: the stop file is looked at under the check.
HeartbeatCheck(w, i) ==
    /\ OwnsRunning(w, i)
    /\ Check(w, "heartbeat", i, IF i \in stopFile THEN "stopped" ELSE "running")

HeartbeatRenew(w) ==
    LET i == call[w].item IN
    /\ call[w].op = "heartbeat" /\ call[w].to = "running"
    /\ Write(i, status[i], owner[i], call[w].at + LeaseTime)
    /\ Return(w)
    /\ UNCHANGED <<attempts, created, stopFile, now>>

HeartbeatStop(w) ==
    LET i == call[w].item IN
    /\ call[w].op = "heartbeat" /\ call[w].to = "stopped"
    /\ Write(i, "stopped", owner[i], NoLease)
    /\ Return(w)
    /\ UNCHANGED <<attempts, created, stopFile, now>>

\* Faulty variant of FinishCheck: the owner is not compared.
FinishCheckStatusOnly(w, i, s) == status[i] = "running" /\ Check(w, "finish", i, s)

\* complete / fail / pause / block, all through _finish_runtime_queue_item.
FinishCheck(w, i, s) == OwnsRunning(w, i) /\ Check(w, "finish", i, s)

FinishWrite(w) ==
    LET i == call[w].item IN
    /\ call[w].op = "finish"
    /\ Write(i, call[w].to, owner[i], NoLease)
    /\ Return(w)
    /\ UNCHANGED <<attempts, created, stopFile, now>>

\* stop_runtime_queue_item: workers pass their lease owner, clients none.
StopCheck(p, i) ==
    /\ status[i] \notin Terminal \cup {"absent"}
    /\ status[i] = "running" /\ p \in Workers => owner[i] = p
    /\ Check(p, "stop", i, "stopped")

StopWrite(p) ==
    LET i == call[p].item IN
    /\ call[p].op = "stop"
    /\ Write(i, "stopped", owner[i], NoLease)
    /\ Return(p)
    /\ UNCHANGED <<attempts, created, stopFile, now>>

\* Faulty variant of ResumeCheck: every ended item may be resumed.
ResumeCheckEnded(c, i) ==
    status[i] \in Outcomes /\ Check(c, "resume", i, "queued")

\* resume_runtime_queue_item: attempts are kept.
ResumeCheck(c, i) == status[i] \in Resumable /\ Check(c, "resume", i, "queued")

\* Faulty variant of ResumeWrite: lease_owner is not reset.
ResumeWriteKeepsOwner(c) ==
    LET i == call[c].item IN
    /\ call[c].op = "resume"
    /\ Write(i, "queued", owner[i], NoLease)
    /\ Return(c)
    /\ UNCHANGED <<attempts, created, stopFile, now>>

ResumeWrite(c) ==
    LET i == call[c].item IN
    /\ call[c].op = "resume"
    /\ Write(i, "queued", NoOwner, NoLease)
    /\ Return(c)
    /\ UNCHANGED <<attempts, created, stopFile, now>>

\* The process dies, or SQLite raises, inside a call: nothing was written and
\* its connection gives the lock up.
Abort(p) ==
    /\ call[p] # Idle
    /\ Return(p)
    /\ UNCHANGED <<rows, stopFile, now>>

(* The surroundings: an operator creates or removes stop files; time.      *)
ToggleStopFile(i) ==
    /\ stopFile' = IF i \in stopFile THEN stopFile \ {i} ELSE stopFile \cup {i}
    /\ UNCHANGED <<rows, call, now>>

Tick ==
    /\ now < MaxTime
    /\ now' = now + 1
    /\ UNCHANGED <<rows, stopFile, call>>

WorkerStep(w) ==
    \/ ClaimBegin(w) \/ ClaimNothing(w) \/ \E i \in Items : ClaimItem(w, i)
    \/ \E i \in Items : HeartbeatCheck(w, i)
    \/ HeartbeatRenew(w) \/ HeartbeatStop(w)
    \/ \E i \in Items, s \in Outcomes : FinishCheck(w, i, s)
    \/ FinishWrite(w)

ClientStep(c) ==
    \/ \E i \in Items : Enqueue(c, i) \/ ResumeCheck(c, i)
    \/ ResumeWrite(c)

Next ==
    \/ \E w \in Workers : WorkerStep(w)
    \/ \E c \in Clients : ClientStep(c)
    \/ \E p \in Procs, i \in Items : StopCheck(p, i)
    \/ \E p \in Procs : StopWrite(p) \/ Abort(p)
    \/ \E i \in StopFiled : ToggleStopFile(i)
    \/ Tick

Spec == Init /\ [][Next]_vars

---------------------------------------------------------------------------
(* Properties.                                                             *)

\* Type correctness of the table and of the calls in progress.
TypeOK ==
    /\ status \in [Items -> Statuses \cup {"absent"}]
    /\ owner \in [Items -> Workers \cup {NoOwner}]
    /\ lease \in [Items -> Nat]
    /\ attempts \in [Items -> Nat]
    /\ created \in [Items -> Nat]
    /\ stopFile \subseteq StopFiled
    /\ call \in [Procs -> CallType]
    /\ now \in Nat \ {0}

\* A running row always carries the two columns that make it recoverable: an
\* owner that may finish it and a non-NULL lease whose expiry lets another
\* worker claim it (claim skips a NULL lease for ever).  It must survive every
\* overlap of heartbeats, finishes, stops and resumes of several processes.
RunningIsRecoverable ==
    \A i \in Items :
        /\ status[i] = "running" => owner[i] # NoOwner /\ lease[i] # NoLease
        /\ status[i] = "queued" => owner[i] = NoOwner

\* No item is ever run more often than max_attempts allows, counting the runs
\* that were abandoned by a dead worker, and an item with an outcome was run.
AttemptsBounded ==
    \A i \in Items :
        /\ attempts[i] <= MaxAttempts[i]
        /\ status[i] \in Outcomes \cup {"running"} => attempts[i] > 0

\* A claim never takes a running item whose lease is still live, even when the
\* claimer's timestamp is old because it waited for the write lock.
LiveLeaseNotStolen ==
    [][\A i \in Items :
        status[i] = "running" /\ attempts'[i] # attempts[i] => lease[i] < now]_vars

\* done and stopped are final: no later write of any process revives them.
\* (tests/test_runtime_queue.py, "terminal and owner checked state transitions
\* are rejected".)  Holds only where check and write are one transaction.
FinalStaysFinal ==
    [][\A i \in Items : status[i] \in {"done", "stopped"}
                            => status'[i] = status[i]]_vars

\* Only the current lease owner can turn a running item into an outcome, and
\* nobody but it, or a claim after expiry, changes a running item's lease.
\* Holds only where check and write are one transaction.
OnlyOwnerReports ==
    [][\A i \in Items, w \in Workers :
        /\ call[w].item = i
        /\ call[w].op \in {"heartbeat", "finish"}
        /\ <<status[i], lease[i]>>' # <<status[i], lease[i]>>
        => status[i] = "running" /\ owner[i] = w]_vars

\* With check and write in one transaction the queue implements JobQueue.
JobOf(s) ==
    CASE s = "queued" -> "waiting"
      [] s = "running" -> "held"
      [] s \in {"paused", "failed", "blocked"} -> "parked"
      [] s = "stopped" -> "cancelled"
      [] OTHER -> s

Jobs == INSTANCE JobQueue WITH
    Jobs <- Items, Holders <- Workers, Nobody <- NoOwner, MaxTries <- MaxAttempts,
    job <- [i \in Items |-> JobOf(status[i])], holder <- owner, tries <- attempts

\* The queue keeps JobQueue's promises: every committed write is one of its
\* steps, under the interleavings of all processes, aborted calls included.
ImplementsJobQueue == Jobs!Spec
===========================================================================
