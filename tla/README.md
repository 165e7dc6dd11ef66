# Verification of OpenMako's shared-state protocols

OpenMako is a local agent platform: planners and edit loops driven by a model,
worker processes that run desktop tasks over night, agents that exchange messages
through files, and a large command line around them.  Most of its code is text and
I/O.  What can go wrong in a way tests hardly reach is in the parts where several
processes share state: SQLite tables in `quantagent/runtime_store.py`, the JSONL files
of `quantagent/relay.py`, the loops that work on them, and the files of the project
itself, which tools, repair loops and applied reviews write.  This directory holds TLA+
models of those parts, TLC configurations that check them, and proofs that TLAPS checks.

## 1. Inventory

Processes share no memory; they interact through SQLite and files below
`.quantagent/`.  For each part: the state it keeps, its operations, what is hard, and
what makes it correct.

| part | state | operations | hard | correct when |
|---|---|---|---|---|
| unified runtime queue (`runtime_store.py` 1094-1431, 2586-2636) | table `runtime_queue`: status, lease_owner, lease_expires_at, attempts, priority | enqueue, claim, heartbeat, complete, fail, pause, block, stop, resume | check and write in two transactions; leases; dead workers | ended rows stay, only the owner reports, live leases are not stolen, attempts bounded, nothing waits for ever |
| night daemon, runtime queue mode (`desktop_night_daemon.py` 561-821, 1150) | where each worker is in its loop | loop, exits, first heartbeat, run, second heartbeat, report | a run longer than the lease; a stop at any moment; an exception of a queue call | no two runs of an item unless a lease ran out; no run on a stopped item |
| night daemon, legacy JSON queue (`desktop_night_daemon.py` 128-318, 387-558, 925-965, 1219-1294) | `queue.json` under a file lock | enqueue, claim, complete, stop, resume | operators change a task while it runs; whole-file rewrites; crashed holders of task or lock | one task has one worker; done is final, and so is a stop of a task nobody runs |
| model budget reservations (`runtime_store.py` 405-842, 2164-2299, `model_client.py` 214-652) | tables `sessions`, `budget_reservations`, `model_calls` | guard, reserve, post, record, commit/release, expire | concurrent calls, expiry during a request, a raising hook, swallowed failures | limits hold, each call is billed once, settled reservations stay |
| relay state lock (`relay.py` 1181-1210) | one lock file | enter, break an old file, leave | a dead or slow holder; two processes that break the same file | mutual exclusion; nobody locked out for ever |
| agent relay (`relay.py` 419-706) | event log, inboxes, outboxes, heartbeats | send, poll, mark_running, mark_done, mark_failed, reclaim_expired, heartbeat, detect_stale | many processes, failure between two appends, late results | one live lease per message, results final and by the lease's holder |
| relay worker (`relay_worker.py`) | none of its own | poll, run the backend, mark done, or failed | a backend slower than the lease, two nested handlers | a reported "done" is true; an unread message is claimed, unless one before it is handed out again and again |
| approvals (`approvals.py`, `runtime_store.py` 1562-1643) | table `approval_requests`: one row per fingerprint with status and expiry | ask, look up, approve, deny, expire lazily | every store call is a transaction of its own: decisions and expiries on rows read earlier | nothing is allowed that nobody granted |
| tool execution (`tool_execution.py`, `policy_gate.py`) | rows of `tool_invocations`, files | hook, policy, approval, checkpoint, handler, record | decisions between the check and the run; handlers failing half way | runs what was approved; a checkpoint undoes it |
| checkpoints (`checkpoints.py`) | JSON files with the text of paths | create, restore | new and deleted files; others writing in between | restoring gives back what was there |
| worktree isolation (`worktree_isolation.py`) | copies of the project, reviews | create, run, review, apply, remove | copies and reviews of a project that changes | a review carries what was done in the worktree |
| repair loops (`edit_loop.py` 934-1116, 1184-1262, 549-674, `patch_visa.py` 318-430, `repair_scheduler.py`) | one worktree each | propose, filter, choose, patch, test, restore | edits that the visa takes out one by one; an edit, a hook or a test that fails half way | all that the visa left of one candidate, or nothing |
| apply gate (`apply_gate.py`) | none of its own | evaluate, checkpoint, apply, test, roll back | several file writes, an exception or a writer between any two | a rollback leaves no trace; what is applied is what passed |
| channel gateway (`channel_gateway.py`) | JSON state under a file lock: pairings, bindings | pairing code, pair, unpair, inbound | a code used twice, expiry | a code is single use |
| session locks (`sessions.py`) | lock table per session | acquire, renew, release | re-acquisition by the same owner, expiry | one owner per session |
| query guard (`query_guard.py`) | status and generation | reserve, start, end, force end | callbacks of an older generation | a stale end changes nothing |
| desktop daemon and recovery (`desktop_daemon_core.py`, `desktop_recovery.py`) | step counters | step, recover, stop | budgets, repeated recovery | bounded retries, stop is obeyed |
| supervisor and subagents (`agent_supervisor.py`, `subagents.py`, `swarm.py`) | results of parallel agents | spawn, collect, merge | partial failure | every result is accounted for |
| plugin state store (`plugin_state_store.py`) | keyed entries with a TTL in SQLite | register, look up, consume, delete, sweep | consuming twice, expiry | an entry is consumed once |
| MCP runtime, daemon supervisor (`mcp_runtime.py`, `mcp_daemon.py`, `daemon_supervisor.py`) | child processes | start, call, restart, stop | timeouts, restarts | a late reply is not taken for another call's |
| evidence court, autopsy | record files | check | - | pure functions of files |
| planner, agent loop, extreme planner, safety policy, desktop drivers, quant checks, command line | text, windows, data files | - | driven by model output, heuristics or I/O | no protocol that a model checker would tell apart |

`PROJECT.json` lists the same parts with their status, and the hazards with the line
where each bites.

## 2. Modules

| module | what it is |
|---|---|
| `RuntimeQueue` | the queue table and every call on it |
| `JobQueue` | what the queue promises: one holder, bounded tries, final results |
| `NightWorker` (extends `RuntimeQueue`) | the worker loop of the night daemon over the queue |
| `NightQueue` | the night daemon's own JSON queue under its file lock |
| `TaskBoard` | what that queue promises: a task is taken, reported or given up by one worker, commands change whole sets of tasks at once |
| `BudgetReservation` | model calls of one session and their reservations |
| `CallBudget` | what reservations promise: admit only while charged and held calls leave room, in number and in tokens |
| `RelayLock` | the relay's lock file |
| `Relay` (extends `RelayLock`) | the relay's files and calls |
| `MessageBox` | what the relay promises: turns on a message, one answer, published once |
| `RelayWorker` (extends `Relay`) | workers that poll, run and report |
| `ProjectFiles` | the project's files and checkpoints of them |
| `Approvals` | requests for approval and the operator's decisions |
| `ToolExecution` (extends `ProjectFiles`, `Approvals`) | tool calls from hook to record |
| `RepairLoop` (extends `ProjectFiles`) | worktrees, their reviews and the loops that repair in them |
| `ApplyGate` (extends `RepairLoop`) | gated and ungated applies of reviews |
| `EditSystem` (extends `ToolExecution`, `ApplyGate`) | all of these at once, on one project |
| `MC...` | small instances for TLC |
| `...Proofs` | theorems and proofs for TLAPS |

**RuntimeQueue.**  A row is `status`, `owner`, `lease`, `attempts`, `created`; `call`
holds what a process read and checked but did not write yet.  `claim` is one
`BEGIN IMMEDIATE` transaction (`ClaimItem`, `ClaimNothing`), but its timestamp is taken
before it waits for the lock (`ClaimBegin`).  All other calls read and check the row and
then issue an UPDATE keyed by `task_id` alone: `HeartbeatCheck` and `HeartbeatRenew` or
`HeartbeatStop`, `FinishCheck` and `FinishWrite`, and so on.  Whether these two are one
transaction depends on the SQLite build.  `_ensure_schema` starts an implicit write
transaction; `_ensure_optional_fts` ends it with `executescript`, which commits, if the
build has FTS5, and returns before that if not.  The constant `Fts5` is that choice.
`LockFree` keeps other checks out between a check and its write only when it is FALSE.

**NightWorker.**  `pc` follows the loop; `beat1` and `beat2` are the heartbeats before and
after the run.  Nothing renews the lease during the run.  A `ValueError` of a queue call is
not caught anywhere in the loop, so `Rejected` ends the worker.  `Die` is a crash.

**NightQueue.**  The legacy queue is one JSON file that everybody reads, changes and
replaces inside `_locked_queue`: `Enter` takes the lock and reads (`seen`), `Replace` writes
the copy back with some tasks changed and gives the lock back.  Between the two others run.
`fcntl` is the platform: `flock` goes with a process that dies, the `.held` marker file of
the fallback stays, held by nobody (`DeadProc`).  `TimesOut` and `CommandFails` are the
uncaught `TimeoutError`.  A worker's `RunEnds` takes any result of `run_desktop_daemon`,
mapped as `_map_daemon_status` and `failure_pause` do; `Complete` writes it over whatever
the status is by then, as `_complete_task` does.  `Board` maps the file and the workers'
tasks to `TaskBoard`, which has no file, copy or lock: the step that replaces the file is the
board's step, and every read, wait, timeout or death inside a section is a stutter (of a
worker that is on a task, an `Abandon`).

**BudgetReservation.**  `calls` and `tokens` are the columns of the session row that the
limits are compared with; `resv` and `expires` are the reservation rows; `pc` follows one
`ModelClient.complete`: guard, reserve, post (with the compressed retry), record, settle,
hook.  `reply` is the answer: text or an error, with a usage dict or without, and what the
dict adds up to, which may be 0.  With a dict a call is billed and its reservation
committed; without one it is released, and billed only if it has a text.  Exceptions in
record and settle are swallowed (`RecordFails`, `SettleFails`); one in the hook makes
`complete` account for the call a second time (`HookRaises`).  `Budget` maps each call to
held, lapsed, charged, overdue or free in `CallBudget`, and its usage once it is billed to
what it used.

**RelayLock, Relay, RelayWorker.**  `RelayLock` separates `exists`/`stat` from `unlink`
from `open(O_EXCL)`, because those are system calls between which others run.  `Relay`
holds the state the event log gives each message, its last lease, the inbox order, the
number of outbox rows, and the heartbeat files.  A call is `doing[p]`: a section first
reads and then performs its appends one by one, so a crash, a failing file operation
(`Fault`), or a second process can come between any two.  `RelayWorker` adds the worker's
two nested `try` blocks.  `Box` maps the log's state and last lease of each message, its
outbox rows and the clock to `MessageBox`, where a call is one step: each append is such a
step, and everything else a call does is a stutter.

**ProjectFiles.**  A file is its content or `Absent`.  `TakeCheckpoint` and `Restored` are
`create_checkpoint` and `restore_checkpoint`; text is taken to be UTF-8.  `start` and
`foreign` are recorded for the properties only: what the whole project looked like when an
actor took its checkpoint, and which files others wrote since.

**Approvals.**  One row per fingerprint.  `ensure_approval_for_policy` is a sequence of
steps (`check[c].step`), one per store call or look at the clock, with the row it read;
operators decide, other checks ask and the clock ticks between any two.  `Upserted` is the
`ON CONFLICT` clause; `approved` stands for `allow_always` too, since no check tells them
apart.  `granted` and `seen` are recorded for the property: the operator's last word, and
whether it was a grant in force at some moment of the present check.

**ToolExecution.**  `execute_tool` and `execute_command_step` share one envelope:
`StartCall` (hook), `EnforceTool`, `EnsureApproval`, `Gate`, `CheckpointBeforeTool`,
`WriteFile` once per file, `EndHandler`.  The permission files may say anything at any time,
the hook may replace the tool and its arguments (the call then starts with what the hook
returned), a write may fail, the handler may raise at any point, and a checkpoint that
cannot be taken is done without.  `execute_tool` records a handler that raises as failed;
`execute_command_step` has no `try` around the command, so a call of it (`IsCommand`) may
end without a record, and an empty command ends before checkpoint and run.  `Guarded` are
the tools of `_handler_enforces_runtime_approval`, which ask for approval in their own
handler. `Writes` and `Named` are the files a handler writes and those its arguments name;
that a tool with named paths writes only these is `ToolAssumption`.

**RepairLoop, ApplyGate.**  `CopyFile` copies the project into the worktree file by file. A
loop proposes, has the patch visa filter a candidate edit by edit, takes a checkpoint of
what is left, applies it one edit after the other (`ApplyEdit`: applied, mismatched with
those before undone, or blocked by the hook with those before left), runs targeted and full
tests, and restores the checkpoint unless all passed.  `Approvable` is what the visa may
leave: `filter_hunks` drops edits one by one and `closure_check` rejects a candidate only
when nothing is left or an edit occurs twice.  Of the reasons to drop one, the model keeps
that the old text must be in the file as it is before the candidate, so that an edit which
an earlier one makes possible is dropped; all others (facts, spans, patterns, shapes) are
any.  An edit is its file, the texts in which its old text is found at all (`has`, what the
visa looks at) and, for those where it is found exactly once, what becomes of them (`to`,
what `apply_replace` does).  `Reviewed` compares the worktree with the project as it is at
that moment, as `create_isolation_review` does; `review` is the last review of a worktree.
An apply loads the review again (`LoadReview`), copies the files as they are in the worktree
by then (`CopyChanged`), unlinks, writes the review back (`FinishApply`), runs the tests and
rolls back file by file; the order of files within a list is left open.  `ApplyByHand` is
the same without gate, checkpoint or tests; `CreateSelected`, `RunInWorktree`, `Review` and
`RemoveWorktree` are the other `mako isolation` commands.  What tests, hooks, the model and
the verdict of the gate say is nondeterministic; tests are taken not to edit the files they
test.  The worktree of a loop is written by that loop alone until it ends: its id is
reported only then.  `RestoreCommand` (`mako checkpoint restore`) is one step, of any
actor's last checkpoint.  A process that dies takes no further step; no state is lost.

**EditSystem.**  No lock connects these parts, so every step of one may come between any
two of another.  `Scenarios` bounds what TLC starts: each is a project at the beginning and
how often each kind of operation happens.

Data is abstracted to what the properties tell apart: task ids, messages and processes are
model values; payloads, summaries and timestamps' formatting are left out; an outcome is
one of the status values; a clock is a counter.

## 3. Runs

Bounds: a clock up to `MaxTime` 3 or 4 with a lease or TTL of one tick, so that a lease can
be granted, renewed, expire and be taken over with calls of its old holder still to come;
two competing workers or calls (every race found needs two actors and one item); one
operator or client. `night_live` has two items, because one item says nothing about the
order of claims: the urgent one may be enqueued late, is tried once and may then be resumed
again and again, the other one may be tried twice, so that a retry, an exhausted item and an
item behind a more urgent one all occur.  `night_locked` has one item and, with `MayStop`,
operators and stop files that end a worker, which `night_live` leaves out: nobody has to
take what was stopped.  `budget_calls` admits one call at a time, `budget_tokens` two, so
that there only the tokens can keep a call out, with usages of nothing and of more than was
estimated.  Each cfg holds the exact values; the relay worker's runs have one agent, one
worker and a second process, which does everything the relay allows in `relay_worker` (one
message) and only sends in `worker_live` (two messages).  The clock bound means that TLC
sees a message handed out again only as often as leases expire by `MaxTime`; the condition
of `UnreadIsClaimed`, that this stops, is therefore met in every behaviour of the run, while
the code may go on with it for ever. `edits` has two files with two contents, two of each
kind of process, candidates of two edits (of two files; of one file twice, where the second
edit is found before the first is made, and where it is not), two rounds of repair and a
tick of the clock, by which an expiry of 1 passes and one of 2 does not; seven scenarios,
among them two calls racing for one approval with a tick and two decisions, a call, a loop
and an apply meeting in the project, two applies of one review, commands by hand, and two
loops.  Every scenario is small because all of it interleaves; the theorems hold for any
scenario. Deadlock checking is off because every model may legitimately stop: the clock is
bounded, items end, worker processes exit.  Symmetry of processes is used in runs without
liveness properties only.

| run | shows |
|---|---|
| `queue_owner_fts` | with FTS5 a worker writes over the row of the item's new owner (finding) |
| `night_locked` | without FTS5, two night workers and an operator: no overlap without an expired lease, the desktop daemon starts only on items the worker owns, ended rows stay, only the owner reports, and the queue implements `JobQueue` |
| `night_live` | with FTS5, two workers, two items: running rows can always be reclaimed, attempts are bounded, no live lease is stolen; a queued item is taken in the end, also behind a more urgent one that is enqueued later and resumed; a dead worker's item is taken over while attempts remain |
| `night_queue` | legacy queue: one worker per task, done is final and so is a stop of a task nobody runs (`EndedStays`), queued tasks are taken while a worker lives, and the queue implements `TaskBoard`, with either lock, and with deaths and timeouts anywhere |
| `budget_calls` | the call limit holds for calls in time, each call is billed once, settled reservations stay, `CallBudget` is implemented |
| `budget_tokens` | the token limit holds for calls in time where the call limit would let all of them in |
| `budget_overrun` | the limit fails for calls that outlive their reservation (finding) |
| `lock_dead` | a dead holder's lock file is removed in the end |
| `relay_worker` | with prompt sections: exclusion, one live lease, final results, results only by the current lease, the relay implements `MessageBox`, and a worker reports "done" only for what it ended under its own lease |
| `relay_crash` | with a crash inside a section two processes hold a live lease (finding) |
| `worker_live` | an unread message is claimed in the end, whatever became of those before it, unless one of them is handed out again and again |
| `edits` | nothing runs that was not granted (`RunsWhatWasApproved`); a loop keeps all that the visa left of one candidate, or nothing (`LoopAllOrNothing`); checkpoints undo what their taker did at any moment (`RestoringUndoes`); a rolled back apply left no trace but where others wrote (`RollbackLeavesProject`); an applied repair is the one that passed (`ApplyDeliversRepair`) |

Every property of a passing run has a mutant in `PROJECT.json`: an operator beside the
original, marked "Faulty variant", with which TLC finds the property violated.

**Fairness.**  `WFairSpec` of `NightWorker` assumes weak fairness of each live worker's own
steps (an OS process that is runnable is scheduled), of the return of a client that is
inside a call, and of the clock.  Nobody has to enqueue, stop, resume or die.
`FairSpec` of `NightQueue` assumes only that live workers are scheduled; a worker that
finds the lock held for ever times out.  `LockFairSpec` assumes that processes keep trying
to enter, because DeadHoldersFileIsRemoved says that somebody who waits removes the file.
`WFairSpec` of `RelayWorker` is over `SendersNext`: workers and their crashes, and clients
that only send, for a client that polled could take the message itself.  It assumes weak
fairness of a worker's steps and of calls in progress, and strong fairness (SF) of the file
operations that a call needs to succeed: an append or a read may fail any number of times,
but not every time it is tried for ever.

## 4. Proofs

All proofs are for every value of the constants that the `ASSUME`s allow: any finite or
infinite set of items and workers in the queue, any finite number of model calls, any
processes, messages and leases, any bound of the clock, any project, candidates, loops,
applies and tool calls.

`RuntimeQueueProofs`.  `TypeCorrect`, `RunningRecoverable`, `AttemptsAreBounded` and
`LiveLeaseSafe` hold in every build.  `FinalIsFinal`, `OwnerReports` and
`QueueImplementsJobQueue` assume `~Fts5`.  The inductive invariant adds to the types what a
process between check and write knows: without FTS5 at most one process is there, and the
row it read is as it read it (a finishing owner still owns a running row, a stopped one is
not terminal).  With FTS5 that part fails, which is what the violation runs show;
recoverability needs only that every UPDATE writes an owner and a lease together with
`running`, or neither.

`NightWorkerProofs`.  `LoopTypes` types the loop and the queue below it.  Every step of the
loop is a step of the queue or leaves it unchanged (`LoopImplementsQueue`), so the queue's
theorems carry over.  `ExclusiveRuns` needs in addition that what a worker remembers
(`held`) is what the row says while it is the owner, and that a worker that is no longer the
owner held a lease that ran out, since a row changes its owner only through a claim of an
expired lease.  `RunsOwnItems` (`~Fts5`) needs that a worker at its first heartbeat has
passed the check while holding the write lock, so that the row it renews is still its own
when the desktop daemon is started. `NightQueuePromises` and `NightRowsRecoverable` state
the queue's theorems for the workers.

`NightQueueProofs`.  The process inside the lock is the only one that changes the file, so
its copy is what the file says (`InsideSeesFile`); a task that a worker is on is `running`
or `stopped` (`ClaimedOrStopped`), and no command makes either of these claimable
(`CommandsInOrder`).  From these three follow `OneWorkerPerTask` and `EndedIsFinal`, with
both kinds of lock.  `NightQueueImplementsTaskBoard` adds that a worker between its claim and
its report is on the task it claimed, so that replacing the whole file from a copy changes
the board as the one command or report says (`ClaimTakes`, `CompleteReports`,
`CommandApplies`).

`BudgetReservationProofs`.  The invariant says that the calls in time are charged or hold an
active reservation, that the session row counts exactly the billed calls, and that a call
between record and settle is counted once.  `CallsInTimeBounded` then follows because a
reservation is admitted only while the charged and the held calls are fewer than the limit.
Tokens need sums over sets, `MapThenSumSet`, whose recursive function no induction theorem
can reach here.  The proofs read a sum as the size of a set instead (`Coins`: as many
elements as the summand says, for each summand), so that splitting off, comparing and adding
summands are facts about finite sets (`TotalSplit`, `TotalMonotone`, ...).  That this size is
what `MapThenSumSet` computes follows because it solves the recursion and, finite subsets
being well-founded, nothing else does (`SumIsTotal`).  `TokenLedger`, the session row is the
sum of what the billed calls spent, then gives `EachCallBilledOnce`; `WithinTokens`, what the
calls in time hold or have spent stays within the limit, gives `InTimeTokensBounded`; and
`BudgetImplementsCallBudget` shows that the sum of the session row and the active
reservations that `reserve_model_budget` compares is never less than what `CallBudget` counts.

`RelayProofs`.  `LockExcludes` assumes `Prompt` (no holder dies or outlives the TTL): the
invariant says that whoever is inside created the present file, and the file is too old for
nobody.  On top of it `RelayInv` relates a call in progress to the log: what a section has
read still holds when it writes (`CallOK`), a message that ended has at most one row
(`LogOK`), a lease given out is the message's last one or has expired (`LeaseOK`, `Given`).
`RelayTypes` needs no assumption.
`RelayImplementsMessageBox` (`Prompt`) adds that a call that ends a message is about that
message alone, that a section does not date what it read in the future, and that a running
message has a lease (`BoxInv`): each append then is the one step of `MessageBox` its section
stands for, though the section read the log some steps before.

`RelayWorkerProofs`.  A worker only ever names the lease it polled, and has it until it
reports (`UseInv`), so each of its steps is one the relay allows (`WorkerUsesRelay`, no
assumption) and the relay's theorems hold with workers (`WorkersKeepTypes`,
`WorkersGetPromises`).  `DoneIsTrue` assumes `Prompt`: a
call that ends a message is past its append only with the message done under the worker's
lease (`Ending`), and a message that ended keeps its state and lease (`EndedStays`), so what
was reported stays true (`Reported`).

`EditTypeProofs` holds the types of the whole editing system (`ESystemType`) and the lemmas
about snapshots, restoring and writing; `EditSystemProofs` proves the five other properties
of the run `edits`, each from an invariant of its own over the types:

- `ApprovalInv`: a row says approved only while the operator's last word is a grant
  (`Kept`); a check that read such a row in time, and has not decided yet, has seen the
  grant in force (`Timely`); a handler let through under ask still holds its decided check
  (`LetThrough`).  The property looks back in time, because a grant may be revoked or lapse
  between the check and the run.
- `FilesInv`: outside of `foreign` only the actor itself has written since its checkpoint,
  and only files its checkpoint names, so restoring gives them back; the files a rollback is
  done with are as its gate found them.
- `LoopInv`: while a candidate is tried, the worktree differs from its copy only in files that
  what is left of the candidate names, the loop's checkpoint holds these as they were copied,
  what is left is something the visa may have approved of the copy (`Chosen`), and there is a
  sequence of trees from the copy to the worktree, each made from the one before by the next
  edit (`PatchedTo`): the edits chain, so no closed form says what a file holds.
- `DeliveryInv`: outside of what others wrote, the project is still what the worktree was
  copied from, the review of a passed loop is exactly the difference of the two, and what an
  apply is done with is as in the worktree.  So copying and unlinking, in any order, make the
  project the worktree, and the worktree is the copy with the edits that passed, all of them.

Every invariant, action property and refinement that a passing run checks is proved.  Only
model-checked are the five liveness properties (`QueuedIsTaken` of both queues,
`DeadWorkersItemIsTaken`, `DeadHoldersFileIsRemoved`, `UnreadIsClaimed`): weak and strong
fairness need ENABLED, which this prover does not reason about.  The theorems that assume
`~Fts5` or `Prompt` are false without it: the violation runs show it for `OnlyOwnerReports`
and `LeasesDoNotOverlap`.  `Prompt` is not something the code ensures; it names when the
relay's file lock can be relied on.

## 5. Findings

Three violation runs show what the code does against what an error message or a test of
the repository says: `queue_owner_fts`, `budget_overrun` and `relay_crash`.
`PROJECT.json` quotes the lines.  Behaviour that surprises but that nothing in the
repository speaks against is modelled as it is and not called a bug:

- with FTS5 an operator's stop between a worker's check and its write is overwritten too;
- an item whose last permitted attempt died stays `running` for ever, and one that is
  resumed after it stays `queued`;
- a task of the legacy queue whose worker died stays `running`, also after a resume;
  without `fcntl` a death inside a section locks everybody out;
- a relay worker whose backend outlived its lease reports "failed" while its message stays
  `running` until it is reclaimed;
- `poll_once` takes the first message of the inbox that is unread or reclaimable: one whose
  every run outlives its lease is reclaimed at each poll (its refused reports do not touch the
  heartbeat) and keeps all messages behind it waiting;
- a relay message whose second append failed has ended without an outbox row;
- a decision on an approval can be overwritten by an expiry decided on a row read earlier,
  and a new expiry time revives an approval that lapsed unnoticed (no caller in `src/` gives
  one);
- the patch visa drops single edits of a candidate, among them all that an earlier edit of the
  same candidate would have to make possible, and the rest may pass and be delivered;
- `approve` permits an invocation for ever, like `--allow-always`;
- a review compares the worktree with the project of that moment, so applying it undoes
  project edits made since the copy (`cli.py:8534` speaks of merging), and a review of
  selected files calls all others deleted;
- an apply that raises half way is not rolled back, though its checkpoint can undo it; a
  rollback overwrites what others wrote meanwhile;
- applying a review of a worktree that is removed meanwhile brings the review back.

One difference between code and documentation has no run of its own, because the repair
loop is not affected: the docstring of `run_change_set_retry` (`edit_loop.py` 552-555)
promises that already applied edits are restored when one fails, but a blocking
`before_patch_apply` hook (572-585) leaves them.  The loop's own checkpoint undoes them,
which is what the mutant of `LoopAllOrNothing` shows; `mako edit-loop`, which works in the
project without one, is left with the edits before the blocked one.

## 6. Not modelled, and what could follow

Left out on purpose in the modelled parts: payload parsing and validation in the relay;
compression, error classification and the cost limit in the model client (the cost limit is
the token limit's arithmetic on another column); reports and listings; event and trajectory
files that nothing reads back; what single tools do besides writing files; sandbox
backends; the ranking of candidates, diagnosis assets and unified-diff patches; the bytes
of files that are not UTF-8.

Simplified in the modelled parts, each without a property that depends on it:

- a review compares worktree and project at one moment (`Reviewed`), where
  `worktree_isolation.py` 393-412 reads file by file while others may write;
- the tests of a loop or a gate write nothing, where files that a test creates in a worktree
  would be reviewed and delivered with it;
- heartbeat, finish, stop and enqueue take their timestamp at the check, where the code takes
  it before it waits for the write lock; only for `claim`, which compares it, the wait is
  modelled;
- a lock file is left behind only by a death, where an `os.write` that fails after the
  exclusive create (`relay.py:1199`) or an `unlink` that fails (1210) would leave one too: for
  the others that is a holder that died, which `RelayLock` has;
- an append happens or fails as a whole, where a torn JSONL line would make later reads raise;
- a tool that is given paths writes only these (`ToolAssumption`), where compiling a file, a
  desktop tool or a path that a hook supplied can lead to others: what no checkpoint names no
  checkpoint restores.

Most of the repository (text generation, planners, evidence checks, rendering, desktop I/O,
quant scripts) is sequential code over text: there is no protocol in it whose states a model
checker would tell apart, and a line-by-line model would be a transcript of it.  This is why
the share of lines that are modelled is small while the parts in which several processes
meet are covered.

Parts with state that are left out, with the reason:

- channel gateway: nearly every operation is one section under one state lock; its hazard is
  an expiry compared with a time read before waiting for that lock;
- session locks: a table of their own that no modelled part takes; release goes by owner
  name, so two holders of one name release each other's lock;
- query guard, plugin state: every operation is atomic;
- desktop daemon and recovery: to the modelled parts, a run that ends in any outcome;
- supervisor and subagents, MCP: results and child processes of one parent at a time.

What could follow: the channel gateway with its lock as an instance of a lock that times
out; session locks with re-acquisition; and `mako edit-loop` in the project itself next to tool
calls.
