---------------------------- MODULE EditSystem ----------------------------
(***************************************************************************)
(* Everything that writes the files of a project, at once: tool calls with *)
(* their approvals, repair loops in their worktrees, gated applies of what *)
(* the loops produced, and the commands an operator gives in between.      *)
(* Nothing but the project's files connects them: no lock is held.         *)
(***************************************************************************)
EXTENDS ToolExecution, ApplyGate

CONSTANT Scenarios  \* bounds: the project at the beginning, and how often
                    \*  each of Starts happens

\* Tool calls, repair loops, gated applies, decisions of the operator,
\* commands given by hand, and ticks of the clock.
Starts == Invocations \cup Workers \cup {"apply", "decision", "command", "tick"}

ASSUME SystemAssumption ==
    /\ Actors = Calls \cup Workers \cup Appliers
    /\ Calls \cap Workers = {} /\ Calls \cap Appliers = {} /\ Workers \cap Appliers = {}
    /\ Scenarios \subseteq Trees \X [Starts -> Nat]

VARIABLE budget     \* what may still be started

eVars == <<fileVars, approvalVars, seen, call, loopVars, gate, budget>>

ETypeOK ==
    /\ ToolTypeOK /\ LoopTypeOK /\ gate \in [Appliers -> Gates]
    /\ budget \in [Starts -> Nat]

EInit ==
    /\ ToolInit
    /\ LoopInit
    /\ gate = [g \in Appliers |-> NoGate]
    /\ \E s \in Scenarios : project = s[1] /\ budget = s[2]

Spend(what) == budget[what] > 0 /\ budget' = [budget EXCEPT ![what] = @ - 1]

Tool(c) ==
    /\ UNCHANGED <<loopVars, gate>>
    /\ \/ \E i \in Invocations : StartCall(c, i) /\ Spend(i)
       \/ CallStep(c) /\ UNCHANGED budget

Loop(k) ==
    /\ UNCHANGED <<approvalVars, call, gate>>
    /\ \/ CreateWorktree(k) /\ Spend(k)
       \/ LoopStep(k) /\ UNCHANGED budget
       \/ WorktreeCommand(k) /\ Spend("command")

Apply(g) ==
    /\ UNCHANGED <<approvalVars, call>>
    /\ \/ (\E k \in Workers : Evaluate(g, k)) /\ Spend("apply")
       \/ (\E k \in Workers : ApplyByHand(g, k)) /\ Spend("command")
       \/ GateStep(g) /\ UNCHANGED budget

Decision ==
    /\ \E f \in Fingerprints : Approve(f) \/ Deny(f)
    /\ Spend("decision")
    /\ UNCHANGED <<fileVars, call, loopVars, gate>>

Time == Tick /\ Spend("tick") /\ UNCHANGED <<fileVars, call, loopVars, gate>>

Restore(w) ==
    /\ RestoreCommand(w) /\ Spend("command")
    /\ UNCHANGED <<approvalVars, call, loopVars, gate>>

ENext ==
    /\ \/ \E c \in Calls : Tool(c)
       \/ \E k \in Workers : Loop(k)
       \/ \E g \in Appliers : Apply(g)
       \/ \E w \in Actors : Restore(w)
       \/ Decision
       \/ Time
    /\ Witness

ESpec == EInit /\ [][ENext]_eVars
===========================================================================
