------------------------- MODULE RelayWorkerProofs -------------------------
(***************************************************************************)
(* Proofs about RelayWorker for any workers, clients and messages: each of *)
(* its steps is one the relay allows, because a worker only ever names the *)
(* lease it polled and still has (Holding); and, if sections are prompt, a *)
(* worker that says "done" ended its message under that lease.             *)
(***************************************************************************)
EXTENDS RelayWorker, RelayProofs

---------------------------------------------------------------------------
(* The worker uses the relay.                                              *)

\* From its poll to its report a worker has the lease it polled.
Holding == {"run", "done", "ending", "fail", "failing"}

UseInv ==
    /\ TypeInv
    /\ wpc \in [Workers -> WPCs]
    /\ mine \in [Workers -> [msg : Messages \cup {"none"}, n : Nat, until : Nat]]
    /\ \A w \in Workers : wpc[w] \in Holding => mine[w] \in claims[w]

LEMMA UseInit == WInit => UseInv
  BY TypeInvInit DEF WInit, UseInv, WPCs, Holding, Claim

LEMMA WorkerRelayStep == UseInv /\ [WNext]_wVars => [RNext]_allVars
<1> SUFFICES ASSUME UseInv, [WNext]_wVars PROVE [RNext]_allVars
  OBVIOUS
<1>1. ASSUME NEW w \in Workers, WorkerStep(w) \/ WCrash(w) PROVE [RNext]_allVars
  <2> w \in Procs /\ AgentOf[w] \in Agents
    BY WorkerAssumption
  <2>1. CASE Poll(w)
    BY <2>1 DEF Poll, Commands, RNext
  <2>2. CASE Polled(w) \/ PollRaises(w) \/ Done(w) \/ DoneRaises(w) \/ Failed(w)
    BY <2>2 DEF Polled, PollRaises, Done, DoneRaises, Failed, CallEnds, RNext
  <2>3. CASE RunReturns(w)
    BY <2>3 DEF RunReturns
  <2>4. CASE MarkDone(w) \/ MarkFailed(w)
    <3>1. mine[w] \in claims[w]
      BY <2>4 DEF MarkDone, MarkFailed, UseInv, Holding
    <3>2. Commands(w)
      BY <2>4, <3>1 DEF MarkDone, MarkFailed, Commands, Ended
    <3> QED BY <3>2 DEF RNext
  <2>5. CASE InsideCall(w)
    BY <2>5 DEF InsideCall, RNext
  <2>6. CASE WCrash(w)
    BY <2>6 DEF WCrash, RNext
  <2> QED BY <1>1, <2>1, <2>2, <2>3, <2>4, <2>5, <2>6 DEF WorkerStep
<1>2. CASE Surroundings
  BY <1>2 DEF Surroundings, Clients, RNext
<1>3. CASE UNCHANGED wVars
  BY <1>3 DEF wVars
<1> QED BY <1>1, <1>2, <1>3 DEF WNext

\* Only the end of a call or a crash changes the leases of a process.
LEMMA ClaimsKept ==
  ASSUME NEW p \in Procs, CallStep(p) \/ Commands(p)
  PROVE  claims' = claims
  BY DEF CallStep, Locking, ReadSection, Proceed, SendWrite, ClaimWrite, EndWrite,
         OutboxWrite, BeatWrite, relayVars, Commands, BeginSend, BeginMark, BeginPoll,
         BeginReclaim, BeginEnd, Begin, SetHeartbeat, DetectRead, DetectWrite

\* No step of one process changes the leases of another.
LEMMA OthersClaims ==
  ASSUME TypeInv, NEW p \in Procs, NEW q \in Procs \ {p},
         CallStep(p) \/ CallEnds(p) \/ Commands(p) \/ Crash(p)
  PROVE  claims'[q] = claims[q]
<1>1. CASE CallStep(p) \/ Commands(p)
  BY <1>1, ClaimsKept
<1>2. CASE CallEnds(p) \/ Crash(p)
  BY <1>2 DEF CallEnds, ReturnCall, Reject, Fault, Raise, LockTimeout, Crash, TypeInv, Types
<1> QED BY <1>1, <1>2

\* A worker's step is one of its own process.
LEMMA OwnStep ==
  ASSUME UseInv, NEW w \in Workers, WorkerStep(w) \/ WCrash(w)
  PROVE  CallStep(w) \/ CallEnds(w) \/ Commands(w) \/ Crash(w) \/ UNCHANGED allVars
<1> w \in Procs /\ AgentOf[w] \in Agents
  BY WorkerAssumption
<1>1. CASE MarkDone(w) \/ MarkFailed(w)
  <2>1. mine[w] \in claims[w]
    BY <1>1 DEF MarkDone, MarkFailed, UseInv, Holding
  <2> QED BY <1>1, <2>1 DEF MarkDone, MarkFailed, Commands, Ended
<1>2. CASE ~(MarkDone(w) \/ MarkFailed(w))
  BY <1>2 DEF WorkerStep, Poll, Polled, PollRaises, RunReturns, Done, DoneRaises, Failed,
              InsideCall, WCrash, CallEnds, Commands
<1> QED BY <1>1, <1>2

LEMMA UseStep == UseInv /\ [WNext]_wVars => UseInv'
<1> SUFFICES ASSUME UseInv, [WNext]_wVars PROVE UseInv'
  OBVIOUS
<1>1. TypeInv /\ TypeInv'
  BY WorkerRelayStep, TypeInvStep DEF UseInv
<1>2. ASSUME NEW w \in Workers, WorkerStep(w) \/ WCrash(w)
      PROVE  /\ wpc' \in [Workers -> WPCs]
             /\ mine' \in [Workers -> [msg : Messages \cup {"none"}, n : Nat, until : Nat]]
             /\ \A v \in Workers \ {w} : wpc'[v] = wpc[v] /\ mine'[v] = mine[v]
             /\ wpc'[w] \in Holding => mine'[w] \in claims'[w]
  <2> w \in Procs
    BY WorkerAssumption
  <2> USE DEF UseInv, WPCs, Holding, Go
  <2>1. CASE Poll(w) \/ PollRaises(w) \/ Done(w) \/ Failed(w) \/ WCrash(w)
    BY <2>1 DEF Poll, PollRaises, Done, Failed, WCrash
  <2>2. CASE Polled(w)
    <3>1. doing[w].got \subseteq claims'[w] /\ claims'[w] \subseteq ClaimType
      BY <1>1, <2>2 DEF Polled, ReturnCall, TypeInv, Types
    <3>2. doing[w].got \subseteq [msg : Messages \cup {"none"}, n : Nat, until : Nat]
      BY <3>1 DEF ClaimType
    <3> QED BY <2>2, <3>1, <3>2 DEF Polled
  <2>3. CASE RunReturns(w)
    BY <2>3 DEF RunReturns, allVars, relayVars
  <2>4. CASE MarkDone(w) \/ MarkFailed(w)
    BY <2>4 DEF MarkDone, MarkFailed, BeginEnd, Begin
  <2>5. CASE DoneRaises(w)
    BY <2>5 DEF DoneRaises, Reject, Fault, Raise, LockTimeout
  <2>6. CASE InsideCall(w)
    BY <2>6, ClaimsKept DEF InsideCall, workerVars
  <2> QED BY <1>2, <2>1, <2>2, <2>3, <2>4, <2>5, <2>6 DEF WorkerStep
<1>3. ASSUME NEW w \in Workers, WorkerStep(w) \/ WCrash(w) PROVE UseInv'
  <2> w \in Procs /\ Workers \subseteq Procs
    BY WorkerAssumption
  <2>1. \A v \in Workers \ {w} : claims'[v] = claims[v]
    BY <1>1, <1>3, OwnStep, OthersClaims DEF allVars, relayVars
  <2> QED BY <1>1, <1>2, <1>3, <2>1 DEF UseInv
<1>4. CASE Surroundings
  <2>1. \A v \in Workers : claims'[v] = claims[v]
    BY <1>1, <1>4, WorkerAssumption, OthersClaims DEF Surroundings, Clients, RTick, relayVars
  <2> QED BY <1>1, <1>4, <2>1 DEF Surroundings, UseInv, workerVars
<1>5. CASE UNCHANGED wVars
  BY <1>1, <1>5 DEF wVars, workerVars, allVars, relayVars, UseInv
<1> QED BY <1>3, <1>4, <1>5 DEF WNext

\* Every step of a worker is one of the relay's (UsesRelay), so that what is
\* proved of the relay holds with workers too.
THEOREM WorkerUsesRelay == WSpec => UsesRelay
<1>1. WInit => RInit
  BY DEF WInit
<1> QED BY <1>1, UseInit, UseStep, WorkerRelayStep, PTL DEF WSpec, UsesRelay, RSpec

---------------------------------------------------------------------------
(* With prompt sections, what is reported as done is done.                 *)

\* The call of a worker that ends its message: it names the lease the worker
\* polled, and past its append the message is done under that lease.
Ending(w) ==
    LET d == doing[w]
        c == mine[w]
    IN  /\ d.op = "end" /\ d.to = "done" /\ d.n = c.n /\ d.msgs = {c.msg}
        /\ d.step \in {"outbox", "beat", "leave"} =>
              state[c.msg] = "done" /\ lease[c.msg].n = c.n

\* What a worker has reported.
Reported(w) ==
    LET r == report[w] IN
    r.status = "done" =>
        r.msg \in Messages /\ state[r.msg] = "done" /\ lease[r.msg].n = r.n

DoneInv ==
    /\ UseInv
    /\ RelayInv
    /\ DOMAIN report = Workers
    /\ \A w \in Workers : wpc[w] = "ending" => Ending(w)
    /\ \A w \in Workers : Reported(w)

LEMMA DoneInit == WInit => DoneInv
  BY UseInit, RelayInvInit DEF WInit, DoneInv, Reported, NoReport

\* A lease that is still held names a message and has a number.
LEMMA MineIsLease ==
  ASSUME DoneInv, NEW w \in Workers, wpc[w] \in Holding
  PROVE  mine[w] \in ClaimType /\ mine[w].n # 0
<1>1. w \in Procs /\ mine[w] \in claims[w]
  BY WorkerAssumption DEF DoneInv, UseInv
<1>2. mine[w] \in ClaimType /\ LeaseOK(mine[w])
  BY <1>1 DEF DoneInv, RelayInv, TypeInv, Types, Given
<1> QED BY <1>2 DEF LeaseOK, ClaimType

\* A reported message has ended, and stays as it is.
LEMMA ReportStays ==
  ASSUME DoneInv, [RNext]_allVars, NEW w \in Workers, report'[w] = report[w]
  PROVE  Reported(w)'
  BY EndedStays DEF DoneInv, Reported, Ended

\* The call of a worker is as it was, while others take steps.
LEMMA EndingStays ==
  ASSUME DoneInv, [RNext]_allVars, NEW w \in Workers, wpc[w] = "ending",
         mine'[w] = mine[w], doing'[w] = doing[w]
  PROVE  Ending(w)'
<1>1. mine[w].msg \in Messages
  BY MineIsLease DEF Holding, ClaimType
<1> QED BY <1>1, EndedStays DEF DoneInv, Ending, Ended

\* One step inside the call that ends the message.
LEMMA EndingStep ==
  ASSUME DoneInv, NEW w \in Workers, wpc[w] = "ending", InsideCall(w)
  PROVE  Ending(w)'
<1>1. w \in Procs /\ mine[w] \in ClaimType /\ mine[w].n # 0 /\ mine' = mine
  BY MineIsLease, WorkerAssumption DEF Holding, InsideCall, workerVars
<1>2. doing[w] \in CallType /\ CallOK(w) /\ Ending(w)
      /\ mine[w].msg \in Messages /\ state \in [Messages -> MessageStates]
  BY <1>1 DEF DoneInv, RelayInv, TypeInv, Types, ClaimType
<1>3. [RNext]_allVars
  BY <1>1 DEF InsideCall, RNext
<1>4. CASE Locking(w)
  BY <1>3, <1>4, EndingStays, <1>1 DEF Locking, relayVars
<1>5. CASE ReadSection(w)
  <2>1. /\ doing'[w].step = "write" /\ doing'[w].msgs = doing[w].msgs
        /\ doing'[w].op = doing[w].op /\ doing'[w].to = doing[w].to
        /\ doing'[w].n = doing[w].n
    BY <1>1, <1>2, <1>5 DEF ReadSection, Proceed, Ending, CallType, DoneInv, RelayInv,
                            TypeInv, Types
  <2> QED BY <1>1, <1>2, <2>1 DEF Ending
<1>6. CASE EndWrite(w)
  <2>1. /\ doing'[w].msgs = doing[w].msgs
        /\ doing'[w].op = doing[w].op /\ doing'[w].to = doing[w].to
        /\ doing'[w].n = doing[w].n
        /\ doing[w].step = "write" /\ lease' = lease
    BY <1>1, <1>2, <1>6 DEF EndWrite, At, CallType, DoneInv, RelayInv, TypeInv, Types
  <2>2. state'[mine[w].msg] = "done"
    BY <1>2, <1>6 DEF EndWrite, Ending
  <2>3. lease[mine[w].msg].n = mine[w].n
    BY <1>1, <1>2, <2>1 DEF CallOK, Ending
  <2> QED BY <1>1, <1>2, <2>1, <2>2, <2>3 DEF Ending
<1>7. CASE OutboxWrite(w) \/ BeatWrite(w)
  <2>1. /\ doing'[w].msgs = doing[w].msgs
        /\ doing'[w].op = doing[w].op /\ doing'[w].to = doing[w].to
        /\ doing'[w].n = doing[w].n
        /\ doing[w].step \in {"outbox", "beat"} /\ UNCHANGED <<state, lease>>
    BY <1>1, <1>2, <1>7 DEF OutboxWrite, BeatWrite, At, CallType, DoneInv, RelayInv,
                            TypeInv, Types, log
  <2> QED BY <1>1, <1>2, <2>1 DEF Ending
<1>8. CASE SendWrite(w) \/ ClaimWrite(w)
  BY <1>2, <1>8 DEF SendWrite, ClaimWrite, Ending
<1> QED BY <1>4, <1>5, <1>6, <1>7, <1>8 DEF InsideCall, CallStep

\* Where the steps of the worker itself lead.
LEMMA OwnEnding ==
  ASSUME DoneInv, NEW w \in Workers, WorkerStep(w) \/ WCrash(w)
  PROVE  wpc'[w] = "ending" => Ending(w)'
<1>1. w \in Procs /\ wpc \in [Workers -> WPCs]
  BY WorkerAssumption DEF DoneInv, UseInv
<1>2. CASE MarkDone(w)
  <2>1. /\ mine' = mine /\ doing'[w].op = "end" /\ doing'[w].to = "done"
        /\ doing'[w].n = mine[w].n /\ doing'[w].msgs = {mine[w].msg}
        /\ doing'[w].step = "read"
    BY <1>1, <1>2 DEF MarkDone, BeginEnd, Begin, DoneInv, UseInv, TypeInv, Types
  <2> QED BY <2>1 DEF Ending
<1>3. CASE InsideCall(w)
  BY <1>3, EndingStep DEF InsideCall, workerVars
<1>4. CASE ~MarkDone(w) /\ ~InsideCall(w)
  BY <1>1, <1>4 DEF WorkerStep, Poll, Polled, PollRaises, RunReturns, Done, DoneRaises,
                    MarkFailed, Failed, WCrash, Go
<1> QED BY <1>2, <1>3, <1>4

LEMMA OwnReport ==
  ASSUME DoneInv, [RNext]_allVars, NEW w \in Workers, WorkerStep(w) \/ WCrash(w)
  PROVE  DOMAIN report' = Workers /\ \A v \in Workers : Reported(v)'
<1>1. CASE Done(w)
  <2>1. report' = [report EXCEPT ![w] = [status |-> "done", msg |-> mine[w].msg,
                                         n |-> mine[w].n]]
    BY <1>1 DEF Done, Report
  <2>2. mine[w].msg \in Messages /\ Ending(w) /\ doing[w].step = "leave"
    BY <1>1, MineIsLease DEF Done, ReturnCall, At, Holding, ClaimType, DoneInv
  <2>3. UNCHANGED <<state, lease>>
    BY <1>1 DEF Done, ReturnCall, log
  <2>4. Reported(w)'
    BY <2>1, <2>2, <2>3 DEF Reported, Ending, DoneInv
  <2>5. ASSUME NEW v \in Workers \ {w} PROVE Reported(v)'
    BY <2>1, ReportStays DEF DoneInv
  <2> QED BY <2>1, <2>4, <2>5 DEF DoneInv
<1>2. CASE Failed(w)
  <2>1. report' = [report EXCEPT ![w] = [status |-> "failed", msg |-> mine[w].msg,
                                         n |-> mine[w].n]]
    BY <1>2 DEF Failed, Report
  <2>2. Reported(w)'
    BY <2>1 DEF Reported, DoneInv
  <2>3. ASSUME NEW v \in Workers \ {w} PROVE Reported(v)'
    BY <2>1, ReportStays DEF DoneInv
  <2> QED BY <2>1, <2>2, <2>3 DEF DoneInv
<1>3. CASE ~Done(w) /\ ~Failed(w)
  <2>1. report' = report
    BY <1>3 DEF WorkerStep, Poll, Polled, PollRaises, RunReturns, DoneRaises, MarkDone,
                MarkFailed, InsideCall, WCrash, workerVars
  <2> QED BY <2>1, ReportStays DEF DoneInv
<1> QED BY <1>1, <1>2, <1>3

\* A step of one process leaves the calls of the others alone.
LEMMA OthersCalls ==
  ASSUME TypeInv, NEW p \in Procs, NEW q \in Procs \ {p},
         CallStep(p) \/ CallEnds(p) \/ Commands(p) \/ Crash(p)
  PROVE  doing'[q] = doing[q]
<1>1. CASE CallStep(p)
  BY <1>1 DEF CallStep, Locking, ReadSection, Proceed, SendWrite, ClaimWrite, EndWrite,
              OutboxWrite, BeatWrite, relayVars, TypeInv, Types
<1>2. CASE CallEnds(p) \/ Crash(p)
  BY <1>2 DEF CallEnds, ReturnCall, Reject, Fault, Raise, LockTimeout, Crash, TypeInv, Types
<1>3. CASE Commands(p)
  BY <1>3 DEF Commands, BeginSend, BeginMark, BeginPoll, BeginReclaim, BeginEnd, Begin,
              SetHeartbeat, DetectRead, DetectWrite, TypeInv, Types
<1> QED BY <1>1, <1>2, <1>3

LEMMA DoneStep ==
  ASSUME Prompt
  PROVE  DoneInv /\ [WNext]_wVars => DoneInv'
<1> SUFFICES ASSUME DoneInv, [WNext]_wVars PROVE DoneInv'
  OBVIOUS
<1>1. UseInv' /\ [RNext]_allVars /\ RelayInv' /\ TypeInv
  BY UseStep, WorkerRelayStep, RelayInvStep DEF DoneInv, UseInv
<1>2. ASSUME NEW w \in Workers, WorkerStep(w) \/ WCrash(w) PROVE DoneInv'
  <2> w \in Procs /\ Workers \subseteq Procs
    BY WorkerAssumption
  <2>1. ASSUME NEW v \in Workers \ {w}
        PROVE  wpc'[v] = wpc[v] /\ mine'[v] = mine[v] /\ doing'[v] = doing[v]
    <3>1. doing'[v] = doing[v]
      BY <1>1, <1>2, OwnStep, OthersCalls DEF DoneInv, allVars, relayVars
    <3>2. wpc'[v] = wpc[v] /\ mine'[v] = mine[v]
      BY <1>2 DEF WorkerStep, Poll, Polled, PollRaises, RunReturns, Done, DoneRaises,
                  MarkDone, MarkFailed, Failed, InsideCall, WCrash, workerVars, Go,
                  DoneInv, UseInv
    <3> QED BY <3>1, <3>2
  <2>2. \A v \in Workers : wpc'[v] = "ending" => Ending(v)'
    BY <1>1, <1>2, <2>1, OwnEnding, EndingStays DEF DoneInv
  <2> QED BY <1>1, <1>2, <2>2, OwnReport DEF DoneInv
<1>3. CASE Surroundings
  <2>1. \A v \in Workers : doing'[v] = doing[v]
    BY <1>1, <1>3, WorkerAssumption, OthersCalls DEF Surroundings, Clients, RTick, relayVars
  <2>2. UNCHANGED <<wpc, mine, report>>
    BY <1>3 DEF Surroundings, workerVars
  <2> QED BY <1>1, <2>1, <2>2, EndingStays, ReportStays DEF DoneInv
<1>4. CASE UNCHANGED wVars
  <2>1. UNCHANGED <<wpc, mine, report, doing>>
    BY <1>4 DEF wVars, workerVars, allVars, relayVars
  <2> QED BY <1>1, <2>1, EndingStays, ReportStays DEF DoneInv
<1> QED BY <1>2, <1>3, <1>4 DEF WNext

\* A worker that reports "done" has ended its message as done under its own
\* lease, whatever other processes do and however long the backend takes.
THEOREM DoneIsTrue ==
  ASSUME Prompt
  PROVE  WSpec => []DoneIsDone
<1>1. DoneInv => DoneIsDone
  BY DEF DoneInv, Reported, DoneIsDone
<1> QED BY <1>1, DoneInit, DoneStep, PTL DEF WSpec

---------------------------------------------------------------------------
(* The relay's promises hold with workers.                                 *)

\* Whatever the workers do, the files and the calls keep their types.
THEOREM WorkersKeepTypes == WSpec => []RTypeOK
  BY WorkerUsesRelay, RelayTypes, PTL DEF UsesRelay

\* With prompt sections the workers' calls exclude each other, hand out no
\* message twice while its lease lives, change no result, end no message under
\* a lease that was replaced, and are steps of MessageBox.
THEOREM WorkersGetPromises ==
  ASSUME Prompt
  PROVE  WSpec => /\ []MutualExclusion
                  /\ []LeasesDoNotOverlap
                  /\ EndsOnce
                  /\ OnlyCurrentLeaseEnds
                  /\ ImplementsMessageBox
<1>1. WSpec => RSpec
  BY WorkerUsesRelay DEF UsesRelay
<1>2. RSpec => []MutualExclusion
  BY SectionsExclude
<1>3. RSpec => []LeasesDoNotOverlap
  BY LeasesAreExclusive
<1>4. RSpec => EndsOnce
  BY ResultsAreFinal
<1>5. RSpec => OnlyCurrentLeaseEnds
  BY LeaseGuardsResult
<1>6. RSpec => ImplementsMessageBox
  BY RelayImplementsMessageBox
<1> QED BY <1>1, <1>2, <1>3, <1>4, <1>5, <1>6, PTL
===========================================================================
