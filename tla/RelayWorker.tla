---------------------------- MODULE RelayWorker ----------------------------
(***************************************************************************)
(* run_relay_worker_once of quantagent/relay_worker.py: poll, run the      *)
(* backend on the message, mark it done with the polled lease; whatever    *)
(* goes wrong after the poll is answered with mark_failed, and whatever    *)
(* goes wrong with that is dropped.  A worker process calls it again and   *)
(* again; the other processes do whatever the relay's commands allow.      *)
(***************************************************************************)
EXTENDS Relay

CONSTANTS
    Workers,    \* the processes that work, the others are clients
    AgentOf     \* [Workers -> Agents]

ASSUME WorkerAssumption == Workers \subseteq Procs /\ AgentOf \in [Workers -> Agents]

VARIABLES
    wpc,       \* where each worker is in run_relay_worker_once
    mine,      \* the lease it polled
    report     \* the last status it returned, with the lease it is about

workerVars == <<wpc, mine, report>>
wVars == <<allVars, workerVars>>

Clients == Procs \ Workers
WPCs == {"start", "polling", "run", "done", "ending", "fail", "failing"}
NoReport == [status |-> "none", msg |-> "none", n |-> 0]

WInit ==
    /\ RInit
    /\ wpc = [w \in Workers |-> "start"]
    /\ mine = [w \in Workers |-> Claim("none", 0, 0)]
    /\ report = [w \in Workers |-> NoReport]

Go(w, to) == wpc' = [wpc EXCEPT ![w] = to]
Report(w, s) ==
    report' = [report EXCEPT ![w] = [status |-> s, msg |-> mine[w].msg, n |-> mine[w].n]]

---------------------------------------------------------------------------
Poll(w) ==
    /\ wpc[w] = "start"
    /\ BeginPoll(w, AgentOf[w])
    /\ Go(w, "polling")
    /\ UNCHANGED <<mine, report>>

Polled(w) ==
    /\ wpc[w] = "polling"
    /\ ReturnCall(w)
    /\ \/ doing[w].got = {} /\ Go(w, "start") /\ UNCHANGED mine
       \/ \E c \in doing[w].got : Go(w, "run") /\ mine' = [mine EXCEPT ![w] = c]
    /\ UNCHANGED report

\* The poll is outside the try block: the caller sees the exception.
PollRaises(w) ==
    /\ wpc[w] = "polling"
    /\ Reject(w) \/ Fault(w) \/ LockTimeout(w)
    /\ Go(w, "start")
    /\ UNCHANGED <<mine, report>>

\* The backend returns or raises; it may take longer than the lease.
RunReturns(w) ==
    /\ wpc[w] = "run"
    /\ Go(w, "done") \/ Go(w, "fail")
    /\ UNCHANGED <<allVars, mine, report>>

\* Faulty variant of MarkDone: the lease of the poll is not passed on.
MarkDoneAnyLease(w) ==
    /\ wpc[w] = "done"
    /\ BeginEnd(w, mine[w].msg, 0, "done")
    /\ Go(w, "ending")
    /\ UNCHANGED <<mine, report>>

\* Faulty variant of MarkDone: the backend's output names the lease.
MarkDoneBackendLease(w) ==
    /\ wpc[w] = "done"
    /\ \E n \in 1..2 : BeginEnd(w, mine[w].msg, n, "done")
    /\ Go(w, "ending")
    /\ UNCHANGED <<mine, report>>

MarkDone(w) ==
    /\ wpc[w] = "done"
    /\ BeginEnd(w, mine[w].msg, mine[w].n, "done")
    /\ Go(w, "ending")
    /\ UNCHANGED <<mine, report>>

Done(w) ==
    /\ wpc[w] = "ending"
    /\ ReturnCall(w)
    /\ Report(w, "done")
    /\ Go(w, "start")
    /\ UNCHANGED mine

DoneRaises(w) ==
    /\ wpc[w] = "ending"
    /\ Reject(w) \/ Fault(w) \/ LockTimeout(w)
    /\ Go(w, "fail")
    /\ UNCHANGED <<mine, report>>

MarkFailed(w) ==
    /\ wpc[w] = "fail"
    /\ BeginEnd(w, mine[w].msg, mine[w].n, "failed")
    /\ Go(w, "failing")
    /\ UNCHANGED <<mine, report>>

\* mark_failed returned, or raised and was dropped: reported as failed.
Failed(w) ==
    /\ wpc[w] = "failing"
    /\ CallEnds(w)
    /\ Report(w, "failed")
    /\ Go(w, "start")
    /\ UNCHANGED mine

InsideCall(w) == CallStep(w) /\ UNCHANGED workerVars

\* The worker is killed and started again.
WCrash(w) ==
    /\ Crash(w)
    /\ Go(w, "start")
    /\ UNCHANGED <<mine, report>>

WorkerStep(w) ==
    \/ Poll(w) \/ Polled(w) \/ PollRaises(w) \/ RunReturns(w)
    \/ MarkDone(w) \/ Done(w) \/ DoneRaises(w) \/ MarkFailed(w) \/ Failed(w)
    \/ InsideCall(w)

\* The other processes, among them workers of another make.
Surroundings ==
    /\ \/ \E c \in Clients : CallStep(c) \/ CallEnds(c) \/ Commands(c) \/ Crash(c)
       \/ RTick
    /\ UNCHANGED workerVars

WNext ==
    \/ \E w \in Workers : WorkerStep(w) \/ WCrash(w)
    \/ Surroundings

WSpec == WInit /\ [][WNext]_wVars

\* The other processes only send messages and write heartbeats.
Senders ==
    /\ \/ \E c \in Clients :
            \/ CallStep(c) \/ CallEnds(c)
            \/ \E m \in Messages : BeginSend(c, m)
            \/ \E a \in Agents, s \in BeatStates : SetHeartbeat(c, a, s)
       \/ RTick
    /\ UNCHANGED workerVars

SendersNext == (\E w \in Workers : WorkerStep(w) \/ WCrash(w)) \/ Senders

\* Workers and the calls of senders make progress, and the file operations of
\* neither fail every time (SF), so that a message is not sent again and again
\* without being sent; nobody has to begin a send or to write a heartbeat.
WFairSpec ==
    /\ WInit /\ [][SendersNext]_wVars
    /\ \A w \in Workers :
        /\ WF_wVars(WorkerStep(w))
        /\ SF_wVars(ReadSection(w) /\ InsideCall(w))
        /\ SF_wVars(ClaimWrite(w) /\ InsideCall(w))
    /\ \A c \in Clients :
        /\ WF_wVars((CallStep(c) \/ CallEnds(c)) /\ UNCHANGED workerVars)
        /\ SF_wVars(ReadSection(c) /\ UNCHANGED workerVars)
        /\ SF_wVars(SendWrite(c) /\ UNCHANGED workerVars)

---------------------------------------------------------------------------
(* Properties.                                                             *)

\* A worker that returned "done" did end its message as done: nobody else's
\* result, and no reclaim after the lease expired, took its place.
DoneIsDone ==
    \A w \in Workers :
        report[w].status = "done" =>
            state[report[w].msg] = "done" /\ lease[report[w].msg].n = report[w].n

\* The messages poll_once comes to before m.
Before(m) == {e \in Messages : Inbox[e] = Inbox[m] /\ rank[e] # 0 /\ rank[e] < rank[m]}

\* A new message does not wait for ever, whatever became of the messages before
\* it (done, failed, abandoned in a crash, in somebody's lease) and however
\* often file operations fail, provided that the workers stop crashing and that
\* no message before it is handed out again and again.  The second condition is
\* needed: poll_once takes the first message that is unread or reclaimable, so
\* one whose runs always outlive their lease keeps those behind it waiting.
UnreadIsClaimed ==
    (<>[][\A w \in Workers : ~WCrash(w)]_wVars) =>
        \A m \in Messages :
            (<>[][\A e \in Before(m) : lease'[e].n = lease[e].n]_wVars) =>
                (state[m] = "unread" ~> state[m] # "unread")

\* The worker uses the relay only through its calls.
UsesRelay == RSpec
===========================================================================
