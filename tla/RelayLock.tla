----------------------------- MODULE RelayLock -----------------------------
(***************************************************************************)
(* The state lock of the agent relay (_state_lock in quantagent/relay.py): *)
(* a file created with O_CREAT | O_EXCL.  A process that finds the file    *)
(* older than the TTL takes its holder for dead and unlinks it; leaving a  *)
(* section unlinks the file as well, whoever created it.                   *)
(***************************************************************************)
EXTENDS Naturals

CONSTANTS
    Procs,    \* processes and threads that use the relay
    NoProc,
    Ttl,      \* ttl_seconds
    MayDie,   \* TRUE: a process may die inside a section
    MayStall, \* TRUE: a process may stay inside a section longer than Ttl
    MaxTime   \* bound on the clock

ASSUME LockAssumption ==
    /\ NoProc \notin Procs
    /\ Ttl \in Nat /\ MaxTime \in Nat
    /\ MayDie \in BOOLEAN /\ MayStall \in BOOLEAN

Prompt == ~MayDie /\ ~MayStall

VARIABLES
    file,    \* the lock file: its mtime, and who created it
    stage,   \* how far each process is in __enter__
    now

lockVars == <<file, stage, now>>

NoFile == [born |-> 0, by |-> NoProc]
Stages == {"out", "look", "unlink", "create", "in"}

LockInit ==
    /\ file = NoFile
    /\ stage = [p \in Procs |-> "out"]
    /\ now = 1

To(p, s) == stage' = [stage EXCEPT ![p] = s]

Enter(p) ==
    /\ stage[p] = "out"
    /\ To(p, "look")
    /\ UNCHANGED <<file, now>>

\* Faulty variant of TooOld: the file's age is not compared.
TooOldAlways == file # NoFile

TooOld == file # NoFile /\ now - file.born > Ttl

\* Faulty variant of Unlink: the loop goes back to look without unlinking.
UnlinkNot(p) ==
    /\ stage[p] = "unlink"
    /\ To(p, "create")
    /\ UNCHANGED <<file, now>>

\* exists() and stat(), then, as a step of its own, unlink().
Look(p) ==
    /\ stage[p] = "look"
    /\ To(p, IF TooOld THEN "unlink" ELSE "create")
    /\ UNCHANGED <<file, now>>

Unlink(p) ==
    /\ stage[p] = "unlink"
    /\ file' = NoFile
    /\ To(p, "create")
    /\ UNCHANGED now

Create(p) ==
    /\ stage[p] = "create" /\ file = NoFile
    /\ file' = [born |-> now, by |-> p]
    /\ To(p, "in")
    /\ UNCHANGED now

\* FileExistsError: sleep and try again, or RuntimeError after wait_seconds.
Refused(p) ==
    /\ stage[p] = "create" /\ file # NoFile
    /\ To(p, "look")
    /\ UNCHANGED <<file, now>>

GiveUp(p) ==
    /\ stage[p] = "create" /\ file # NoFile
    /\ To(p, "out")
    /\ UNCHANGED <<file, now>>

Leave(p) ==
    /\ stage[p] = "in"
    /\ file' = NoFile
    /\ To(p, "out")
    /\ UNCHANGED now

\* The process dies; the file stays where it is.
Die(p) ==
    /\ stage[p] # "out"
    /\ stage[p] = "in" => MayDie
    /\ To(p, "out")
    /\ UNCHANGED <<file, now>>

Tick ==
    /\ now < MaxTime
    /\ \A p \in Procs : stage[p] = "in" /\ file.by = p /\ ~MayStall => now < file.born + Ttl
    /\ now' = now + 1
    /\ UNCHANGED <<file, stage>>

LockNext ==
    \/ \E p \in Procs :
        \/ Enter(p) \/ Look(p) \/ Unlink(p) \/ Create(p)
        \/ Refused(p) \/ GiveUp(p) \/ Leave(p) \/ Die(p)
    \/ Tick

LockSpec == LockInit /\ [][LockNext]_lockVars

\* Processes keep using the lock and are scheduled, and time passes.
LockFairSpec ==
    /\ LockSpec
    /\ \A p \in Procs :
        WF_lockVars(Enter(p) \/ Look(p) \/ Unlink(p) \/ Create(p) \/ Refused(p) \/ Leave(p))
    /\ WF_lockVars(Tick)

---------------------------------------------------------------------------
\* Type correctness of the lock.
LockTypeOK ==
    /\ file \in [born : Nat, by : Procs \cup {NoProc}]
    /\ stage \in [Procs -> Stages]
    /\ now \in Nat \ {0}

\* At most one process is inside a section.  Needs Prompt: after a crash two
\* waiters may both find the old file, and the slower one unlinks the file the
\* faster one has just created.
MutualExclusion ==
    \A p, q \in Procs : stage[p] = "in" /\ stage[q] = "in" => p = q

\* The file a dead process left behind is removed in the end (if the model's
\* clock reaches its TTL): nobody is locked out for ever.
DeadHoldersFileIsRemoved ==
    (<>[][\A p \in Procs : ~Die(p)]_lockVars) =>
        \A p \in Procs, b \in 1..MaxTime :
            file = [born |-> b, by |-> p] /\ stage[p] # "in" /\ b + Ttl < MaxTime
                ~> file # [born |-> b, by |-> p]
===========================================================================
