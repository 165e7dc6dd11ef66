----------------------------- MODULE ApplyGate -----------------------------
(***************************************************************************)
(* apply_review_with_gate of quantagent/apply_gate.py and the commands it  *)
(* is built from: evaluate, checkpoint, apply the review file by file, run *)
(* the tests, roll back file by file; and apply_isolation_review given by  *)
(* hand, without a gate.  The order of the files within a list is left     *)
(* open.  An applier that dies takes no further step, another goes on.     *)
(***************************************************************************)
EXTENDS RepairLoop

CONSTANT Appliers   \* processes that apply reviews

ASSUME GateAssumption == Appliers \subseteq Actors /\ Workers # {}

VARIABLE gate       \* [Appliers -> Gates]

gateVars == <<fileVars, loopVars, gate>>

Closed == {"idle", "blocked", "raised", "applied", "passed", "kept", "rolled back"}
Gates == [stage : Closed \cup {"allowed", "loading", "copying", "testing", "rolling back"},
          of : Workers, put : SUBSET Paths, gone : SUBSET Paths, left : SUBSET Paths,
          gated : BOOLEAN, fresh : BOOLEAN]

NoGate == [stage |-> "idle", of |-> CHOOSE k \in Workers : TRUE, put |-> {}, gone |-> {},
           left |-> {}, gated |-> FALSE, fresh |-> FALSE]

GateTypeOK == FilesTypeOK /\ LoopTypeOK /\ gate \in [Appliers -> Gates]

GateInit == FilesInit /\ LoopInit /\ gate = [g \in Appliers |-> NoGate]

GateStage(g, s) == gate' = [gate EXCEPT ![g].stage = s]

---------------------------------------------------------------------------
\* evaluate_apply_gate reads the review and writes nothing but a preview.
Evaluate(g, k) ==
    /\ gate[g].stage \in Closed
    /\ review[k].known
    /\ Forget(g)
    /\ LET pass == [NoGate EXCEPT !.stage = "allowed", !.of = k, !.put = review[k].put,
                       !.gone = review[k].gone, !.gated = TRUE]
       IN  \/ gate' = [gate EXCEPT ![g] = [NoGate EXCEPT !.stage = "blocked"]]
           \/ review[k].put \cup review[k].gone # {} /\ gate' = [gate EXCEPT ![g] = pass]
    /\ UNCHANGED loopVars

\* mako isolation apply-review --reviewed: the same without gate or tests.
ApplyByHand(g, k) ==
    /\ gate[g].stage \in Closed
    /\ review[k].known
    /\ Forget(g)
    /\ gate' = [gate EXCEPT ![g] = [NoGate EXCEPT !.stage = "loading", !.of = k,
                   !.put = review[k].put, !.gone = review[k].gone]]
    /\ UNCHANGED loopVars

\* fresh records that nobody wrote the project since the worktree's copy.
CheckpointChanged(g) ==
    /\ gate[g].stage = "allowed"
    /\ TakeCheckpoint(g, gate[g].put \cup gate[g].gone)
    /\ gate' = [gate EXCEPT ![g].stage = "loading",
                   ![g].fresh = start[gate[g].of] # NoFiles /\ foreign[gate[g].of] = {}]
    /\ UNCHANGED loopVars

\* The review is loaded once more: it may be gone with its worktree.
LoadReview(g) ==
    /\ gate[g].stage = "loading"
    /\ IF review[gate[g].of].known
       THEN gate' = [gate EXCEPT ![g].stage = "copying", ![g].left = gate[g].put \cup gate[g].gone]
       ELSE GateStage(g, "raised")
    /\ UNCHANGED <<fileVars, loopVars>>

Done(g, p) == gate' = [gate EXCEPT ![g].left = @ \ {p}]

\* Faulty variant of CopyChanged: a file that exists is left as it is.
CopyMissing(g) ==
    /\ gate[g].stage = "copying"
    /\ \E p \in gate[g].put \cap gate[g].left :
           /\ Done(g, p)
           /\ IF project[p] = Absent THEN Write(g, p, tree[gate[g].of][p])
              ELSE UNCHANGED fileVars
    /\ UNCHANGED loopVars

\* Files are copied as they are in the worktree now; a missing one raises,
\* with the files before it copied and nothing rolled back.
CopyChanged(g) ==
    /\ gate[g].stage = "copying"
    /\ \E p \in gate[g].put \cap gate[g].left :
           LET text == tree[gate[g].of][p] IN
           \/ text = Absent /\ GateStage(g, "raised") /\ UNCHANGED fileVars
           \/ text # Absent /\ Done(g, p) /\ Write(g, p, text)
    /\ UNCHANGED loopVars

\* Then the files the review calls deleted are unlinked.
UnlinkDeleted(g) ==
    /\ gate[g].stage = "copying"
    /\ gate[g].left \cap gate[g].put = {}
    /\ \E p \in gate[g].left : Done(g, p) /\ Write(g, p, Absent)
    /\ UNCHANGED loopVars

\* The review is written back as applied, which brings back one that went
\* with its worktree.  Without a test command this is the end.
FinishApply(g) ==
    /\ gate[g].stage = "copying"
    /\ gate[g].left = {}
    /\ \/ GateStage(g, "applied")
       \/ gate[g].gated /\ GateStage(g, "testing")
    /\ review' = [review EXCEPT ![gate[g].of] =
           IF @.known THEN @
           ELSE [known |-> TRUE, put |-> gate[g].put, gone |-> gate[g].gone]]
    /\ UNCHANGED <<fileVars, tree, loop>>

\* Faulty variant of RunTests: only files that were copied are rolled back.
RunTestsCopied(g) ==
    /\ gate[g].stage = "testing"
    /\ \/ GateStage(g, "passed")
       \/ GateStage(g, "kept")                 \* --no-rollback
       \/ gate' = [gate EXCEPT ![g].stage = "rolling back", ![g].left = gate[g].put]
    /\ UNCHANGED <<fileVars, loopVars>>

RunTests(g) ==
    /\ gate[g].stage = "testing"
    /\ \/ GateStage(g, "passed")
       \/ GateStage(g, "kept")                 \* --no-rollback
       \/ gate' = [gate EXCEPT ![g].stage = "rolling back", ![g].left = DOMAIN saved[g]]
    /\ UNCHANGED <<fileVars, loopVars>>

RollBackFile(g) ==
    /\ gate[g].stage = "rolling back"
    /\ \E p \in gate[g].left : Done(g, p) /\ Write(g, p, saved[g][p])
    /\ UNCHANGED loopVars

EndRollBack(g) ==
    /\ gate[g].stage = "rolling back"
    /\ gate[g].left = {}
    /\ GateStage(g, "rolled back")
    /\ UNCHANGED <<fileVars, loopVars>>

GateStep(g) ==
    \/ CheckpointChanged(g) \/ LoadReview(g) \/ CopyChanged(g) \/ UnlinkDeleted(g)
    \/ FinishApply(g) \/ RunTests(g) \/ RollBackFile(g) \/ EndRollBack(g)

---------------------------------------------------------------------------
(* Properties.                                                             *)

\* A gated apply that rolled back because the tests failed leaves every file
\* as it found it, created and deleted ones included, unless somebody else
\* wrote that file meanwhile.
RollbackLeavesProject ==
    \A g \in Appliers : gate[g].stage = "rolled back" =>
        \A p \in Paths \ foreign[g] : project[p] = start[g][p]

\* From repair to project: a gated apply that goes through, of a worktree
\* whose loop passed and that nobody touched afterwards, leaves the project
\* as it was when the worktree was copied plus exactly the edits that
\* passed, provided nobody else wrote the project in between.
ApplyDeliversRepair ==
    \A g \in Appliers :
        LET k == gate[g].of IN
        /\ gate[g].stage \in {"applied", "passed"}
        /\ gate[g].fresh /\ foreign[g] = {}
        /\ loop[k].stage = "passed"
        => PatchedTo(start[k], loop[k].cand, Len(loop[k].cand), project)
===========================================================================
