------------------------------- MODULE Relay -------------------------------
(***************************************************************************)
(* The agent relay of quantagent/relay.py: inboxes, one event log that is  *)
(* the only source of a message's state, leases and heartbeats, all of     *)
(* them files that any number of processes read and write inside sections  *)
(* of RelayLock.  A section first reads (log, inbox, heartbeat, clock) and *)
(* then appends its events one file after the other.                       *)
(*                                                                         *)
(* A lease names the agent, never the process: all workers of an agent     *)
(* share one heartbeat file.  Payloads and their validation are left out,  *)
(* and a scan of an inbox reads the heartbeat once.                        *)
(***************************************************************************)
EXTENDS RelayLock, FiniteSets

CONSTANTS
    Messages,    \* message ids
    Agents,
    Inbox,       \* [Messages -> Agents], to_agent
    LeaseTime,   \* lease_seconds
    StaleTime,   \* stale_seconds
    MayFault     \* TRUE: file operations may fail and the lock may time out

ASSUME RelayAssumption ==
    /\ IsFiniteSet(Messages) /\ Inbox \in [Messages -> Agents]
    /\ LeaseTime \in Nat /\ StaleTime \in Nat
    /\ MayFault \in BOOLEAN

VARIABLES
    state,    \* the state the log gives each message
    lease,    \* its last MESSAGE_RUNNING event: number and lease_expires_at
    rank,     \* its position in its inbox
    outbox,   \* rows written to the outbox about it
    beat,     \* heartbeat.json of each agent
    doing,    \* the call each process is in
    claims    \* the leases each process was given

log == <<state, lease, outbox>>
relayVars == <<log, rank, beat, doing, claims>>
allVars == <<lockVars, relayVars>>

Ended == {"done", "failed"}
MessageStates == {"absent", "unread", "running"} \cup Ended
BeatStates == {"live", "silent"}    \* idle or running; error or stale

Claim(m, n, until) == [msg |-> m, n |-> n, until |-> until]
NoClaim == [n |-> 0, until |-> 0]

\* A call: its operation, the messages it is about, the state it writes to
\* them, what it read, the leases it made and the next step of its section.
Idle == [op |-> "none", agent |-> "none", msgs |-> {}, n |-> 0, to |-> "none",
         at |-> 0, got |-> {}, step |-> "none"]

RInit ==
    /\ LockInit
    /\ state = [m \in Messages |-> "absent"]
    /\ lease = [m \in Messages |-> NoClaim]
    /\ rank = [m \in Messages |-> 0]
    /\ outbox = [m \in Messages |-> 0]
    /\ beat = [a \in Agents |-> [status |-> "none", seen |-> 0]]
    /\ doing = [p \in Procs |-> Idle]
    /\ claims = [p \in Procs |-> {}]

---------------------------------------------------------------------------
(* What a section reads.                                                   *)

\* is_agent_stale
Silent(a, t) ==
    \/ beat[a].status \in {"none", "silent"}
    \/ t - beat[a].seen > StaleTime

\* Faulty variant of CanReclaim: a live lease of a silent agent is taken over.
CanReclaimSilent(m, t) == state[m] = "running" /\ Silent(Inbox[m], t)

\* _can_reclaim
CanReclaim(m, t) ==
    /\ state[m] = "running"
    /\ lease[m].until < t
    /\ Silent(Inbox[m], t)

\* Faulty variant of Ready: the scan stops at a message that has ended.
ReadyUpToEnded(a, t) ==
    {m \in Messages : Inbox[m] = a
        /\ (state[m] = "unread" \/ CanReclaim(m, t))
        /\ \A k \in Messages : Inbox[k] = a /\ state[k] \in Ended => rank[k] > rank[m]}

\* What poll_once looks for in an inbox; it takes the first.
Ready(a, t) == {m \in Messages : Inbox[m] = a
                                 /\ (state[m] = "unread" \/ CanReclaim(m, t))}
Firsts(S) == {m \in S : \A k \in S : rank[m] <= rank[k]}

\* Faulty variant of MayEnd: the state of the message is not looked at.
MayEndAnyState(m, n, t) == (n # 0 => lease[m].n = n) /\ lease[m].until >= t

\* Faulty variant of MayEnd: the lease_id is not compared.
MayEndAnyLease(m, n, t) == state[m] = "running" /\ lease[m].until >= t

\* _validate_active_lease; n = 0: the caller gave no lease_id.
MayEnd(m, n, t) ==
    /\ state[m] = "running"
    /\ n # 0 => lease[m].n = n
    /\ lease[m].until >= t

---------------------------------------------------------------------------
(* Calls.                                                                  *)

Begin(p, op, a, S, n, to) ==
    /\ doing[p] = Idle
    /\ Enter(p)
    /\ doing' = [doing EXCEPT ![p] = [op |-> op, agent |-> a, msgs |-> S, n |-> n,
                                      to |-> to, at |-> 0, got |-> {}, step |-> "read"]]
    /\ UNCHANGED <<log, rank, beat, claims>>

BeginSend(p, m) == state[m] = "absent" /\ Begin(p, "send", Inbox[m], {m}, 0, "unread")
BeginPoll(p, a) == Begin(p, "poll", a, {}, 0, "running")
BeginReclaim(p, a) == Begin(p, "reclaim", a, {}, 0, "running")
BeginMark(p, m) == Begin(p, "mark", Inbox[m], {m}, 0, "running")
BeginEnd(p, m, n, to) == Begin(p, "end", Inbox[m], {m}, n, to)

At(p, step) == stage[p] = "in" /\ doing[p].step = step

\* The section goes on with the messages S, read at the present time.
Proceed(p, S, step) ==
    /\ doing' = [doing EXCEPT ![p].msgs = S, ![p].at = now, ![p].step = step]
    /\ UNCHANGED <<lockVars, log, rank, beat, claims>>

\* The check of a call that is about one given message, made on what it read.
Permitted(d, m) ==
    CASE d.op = "send" -> state[m] = "absent"
      [] d.op = "mark" -> state[m] = "unread"
      [] d.op = "end" -> MayEnd(m, d.n, now)
      [] OTHER -> FALSE

ReadSection(p) ==
    LET d == doing[p] IN
    /\ At(p, "read")
    /\ \/ \E m \in d.msgs : Permitted(d, m) /\ Proceed(p, {m}, "write")
       \/ d.op = "poll" /\ \E m \in Firsts(Ready(d.agent, now)) : Proceed(p, {m}, "write")
       \/ d.op = "poll" /\ Ready(d.agent, now) = {} /\ Proceed(p, {}, "beat")
       \/ LET S == {m \in Messages : Inbox[m] = d.agent /\ CanReclaim(m, now)}
          IN  d.op = "reclaim" /\ Proceed(p, S, IF S = {} THEN "beat" ELSE "write")

\* send_message: the inbox row, then the MESSAGE_SENT event.  One step: a row
\* without an event counts as unread already (_initial_message_state).
SendWrite(p) ==
    /\ At(p, "write") /\ doing[p].op = "send"
    /\ \E m \in doing[p].msgs :
        /\ state' = [state EXCEPT ![m] = "unread"]
        /\ rank' = [rank EXCEPT ![m] = Cardinality({k \in Messages : rank[k] # 0}) + 1]
    /\ doing' = [doing EXCEPT ![p].step = "leave"]
    /\ UNCHANGED <<lockVars, lease, outbox, beat, claims>>

\* _create_lease; mark_running reads the clock again for it.
LeaseEnd(d) == (IF d.op = "mark" THEN now ELSE d.at) + LeaseTime

\* One MESSAGE_RUNNING event with a new lease (uuid4: a number never used
\* before for this message); reclaim_expired appends one after the other.
ClaimWrite(p) ==
    LET d == doing[p] IN
    /\ At(p, "write") /\ d.op \in {"poll", "mark", "reclaim"}
    /\ \E m \in Firsts(d.msgs) :
        LET n == lease[m].n + 1
            until == LeaseEnd(d)
        IN  /\ state' = [state EXCEPT ![m] = "running"]
            /\ lease' = [lease EXCEPT ![m] = [n |-> n, until |-> until]]
            /\ doing' = [doing EXCEPT
                            ![p].msgs = @ \ {m},
                            ![p].got = @ \cup {Claim(m, n, until)},
                            ![p].step = IF d.msgs = {m} THEN "beat" ELSE "write"]
    /\ UNCHANGED <<lockVars, outbox, rank, beat, claims>>

\* mark_done and mark_failed: the event, then the outbox row.
EndWrite(p) ==
    LET d == doing[p] IN
    /\ At(p, "write") /\ d.op = "end"
    /\ state' = [m \in Messages |-> IF m \in d.msgs THEN d.to ELSE state[m]]
    /\ doing' = [doing EXCEPT ![p].step = "outbox"]
    /\ UNCHANGED <<lockVars, lease, outbox, rank, beat, claims>>

OutboxWrite(p) ==
    LET d == doing[p] IN
    /\ At(p, "outbox")
    /\ outbox' = [m \in Messages |-> outbox[m] + IF m \in d.msgs THEN 1 ELSE 0]
    /\ doing' = [doing EXCEPT ![p].step = "beat"]
    /\ UNCHANGED <<lockVars, state, lease, rank, beat, claims>>

\* Faulty variant of BeatStatus: the message's state is written.
BeatStatusOfMessage(d) == d.to

\* update_heartbeat, at the end of every section but send_message's; a failed
\* message leaves the agent's heartbeat at "error".
BeatStatus(d) == IF d.op = "end" /\ d.to = "failed" THEN "silent" ELSE "live"

BeatWrite(p) ==
    LET d == doing[p] IN
    /\ At(p, "beat")
    /\ beat' = [beat EXCEPT ![d.agent] = [status |-> BeatStatus(d), seen |-> now]]
    /\ doing' = [doing EXCEPT ![p].step = "leave"]
    /\ UNCHANGED <<lockVars, log, rank, claims>>

\* The call returns: its leases are the caller's, an ended one no longer is.
ReturnCall(p) ==
    LET d == doing[p]
        gone == {c \in claims[p] : d.op = "end" /\ c.msg \in d.msgs /\ c.n = d.n}
    IN  /\ At(p, "leave")
        /\ Leave(p)
        /\ claims' = [claims EXCEPT ![p] = (@ \ gone) \cup d.got]
        /\ doing' = [doing EXCEPT ![p] = Idle]
        /\ UNCHANGED <<log, rank, beat>>

\* Faulty variant of Raise: the file is not unlinked.
RaiseKeepsFile(p) ==
    /\ stage[p] = "in"
    /\ To(p, "out")
    /\ doing' = [doing EXCEPT ![p] = Idle]
    /\ UNCHANGED <<file, now, log, rank, beat, claims>>

\* The section is left by an exception: __exit__ runs, what was appended stays.
Raise(p) ==
    /\ Leave(p)
    /\ doing' = [doing EXCEPT ![p] = Idle]
    /\ UNCHANGED <<log, rank, beat, claims>>

Reject(p) ==
    /\ At(p, "read")
    /\ \E m \in doing[p].msgs : ~Permitted(doing[p], m)
    /\ Raise(p)

\* A file operation fails, at any step.
Fault(p) == MayFault /\ Raise(p)

Locking(p) ==
    /\ Look(p) \/ Unlink(p) \/ Create(p) \/ Refused(p)
    /\ UNCHANGED relayVars

LockTimeout(p) ==
    /\ MayFault
    /\ GiveUp(p)
    /\ doing' = [doing EXCEPT ![p] = Idle]
    /\ UNCHANGED <<log, rank, beat, claims>>

\* The process dies; a new one without claims may start in its place.
Crash(p) ==
    /\ doing[p] # Idle \/ claims[p] # {}
    /\ Die(p) \/ (stage[p] = "out" /\ UNCHANGED lockVars)
    /\ doing' = [doing EXCEPT ![p] = Idle]
    /\ claims' = [claims EXCEPT ![p] = {}]
    /\ UNCHANGED <<log, rank, beat>>

(* The heartbeat command takes no lock.                                    *)
SetHeartbeat(p, a, s) ==
    /\ doing[p] = Idle
    /\ beat' = [beat EXCEPT ![a] = [status |-> s, seen |-> now]]
    /\ UNCHANGED <<lockVars, log, rank, doing, claims>>

\* detect_stale_heartbeat, with a threshold of the caller's: what it read is
\* written back as stale, over whatever the agent wrote in between.
DetectRead(p, a) ==
    /\ doing[p] = Idle
    /\ beat[a].status # "none"
    /\ doing' = [doing EXCEPT ![p].op = "detect", ![p].agent = a, ![p].at = beat[a].seen]
    /\ UNCHANGED <<lockVars, log, rank, beat, claims>>

DetectWrite(p) ==
    /\ doing[p].op = "detect"
    /\ beat' = [beat EXCEPT ![doing[p].agent] = [status |-> "silent", seen |-> doing[p].at]]
    /\ doing' = [doing EXCEPT ![p] = Idle]
    /\ UNCHANGED <<lockVars, log, rank, claims>>

RTick == Tick /\ UNCHANGED relayVars

\* The steps inside a call, which its caller has no say in.
CallStep(p) ==
    \/ Locking(p) \/ ReadSection(p)
    \/ SendWrite(p) \/ ClaimWrite(p) \/ EndWrite(p) \/ OutboxWrite(p) \/ BeatWrite(p)

\* The steps that end a call.
CallEnds(p) == ReturnCall(p) \/ Reject(p) \/ Fault(p) \/ LockTimeout(p)

Commands(p) ==
    \/ \E m \in Messages : BeginSend(p, m) \/ BeginMark(p, m)
    \/ \E a \in Agents : BeginPoll(p, a) \/ BeginReclaim(p, a)
    \/ \E c \in claims[p], to \in Ended : BeginEnd(p, c.msg, c.n, to)
    \/ \E m \in Messages, to \in Ended : BeginEnd(p, m, 0, to)
    \/ \E a \in Agents, s \in BeatStates : SetHeartbeat(p, a, s)
    \/ \E a \in Agents : DetectRead(p, a)
    \/ DetectWrite(p)

RNext ==
    \/ \E p \in Procs : CallStep(p) \/ CallEnds(p) \/ Commands(p) \/ Crash(p)
    \/ RTick

RSpec == RInit /\ [][RNext]_allVars

---------------------------------------------------------------------------
(* Properties.                                                             *)

ClaimType == [msg : Messages, n : Nat, until : Nat]

\* Type correctness of the files and of the calls in progress.
RTypeOK ==
    /\ LockTypeOK
    /\ state \in [Messages -> MessageStates]
    /\ lease \in [Messages -> [n : Nat, until : Nat]]
    /\ rank \in [Messages -> Nat]
    /\ outbox \in [Messages -> Nat]
    /\ beat \in [Agents -> [status : BeatStates \cup {"none"}, seen : Nat]]
    /\ claims \in [Procs -> SUBSET ClaimType]
    /\ doing \in [Procs -> [op : {"none", "send", "poll", "mark", "reclaim", "end", "detect"},
                            agent : Agents \cup {"none"}, msgs : SUBSET Messages,
                            n : Nat, to : MessageStates \cup {"none"}, at : Nat,
                            got : SUBSET ClaimType,
                            step : {"none", "read", "write", "outbox", "beat", "leave"}]]

\* Two processes are on the same message only if the lease of one of them has
\* expired (tests/test_relay.py, "two processes poll same message only one
\* succeeds").  It needs every section to be exclusive.
LeasesDoNotOverlap ==
    \A p, q \in Procs :
        \A c \in claims[p], d \in claims[q] :
            c.msg = d.msg /\ c.n # d.n => c.until < now \/ d.until < now

\* A message that ended never goes back to running or unread, and never gets a
\* second result: its outbox holds at most one row (tests/test_relay.py, "poll
\* and done concurrency does not duplicate or regress state").
EndsOnce ==
    /\ [][\A m \in Messages : state[m] \in Ended => state'[m] = state[m]]_allVars
    /\ [](\A m \in Messages : outbox[m] <= 1)

\* A result that names its lease is written only while that lease is the
\* message's last: a worker whose message was reclaimed cannot end it, however
\* its check and its append interleave with the others'.
OnlyCurrentLeaseEnds ==
    [][\A p \in Procs, m \in Messages :
        /\ doing[p].op = "end" /\ doing[p].step = "write" /\ doing[p].n # 0
        /\ doing[p].msgs = {m}
        /\ state'[m] # state[m]
        => state[m] = "running" /\ lease[m].n = doing[p].n]_allVars

\* Every step is one of the lock's, so its properties hold here.
UsesLock == LockSpec

\* With exclusive sections the calls, of many steps each, amount to the atomic
\* steps of MessageBox.
Box == INSTANCE MessageBox WITH box <- state, turn <- lease, answers <- outbox, clock <- now

\* Every append keeps MessageBox's promises: the message a section has read
\* about is still in that state when it appends, whatever the other processes
\* do, die of or find fault with in between, and no lease outlasts LeaseTime.
ImplementsMessageBox == Box!Spec
===========================================================================
