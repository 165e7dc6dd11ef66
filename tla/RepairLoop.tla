---------------------------- MODULE RepairLoop ----------------------------
(***************************************************************************)
(* An isolated worktree and the repair loop that works in it: creation and *)
(* review of quantagent/worktree_isolation.py, run_isolated_repair_loop    *)
(* and run_change_set_retry of quantagent/edit_loop.py.  The model's       *)
(* candidates are any of a set of change sets; what the patch visa says of *)
(* each edit, and what tests and hooks say, is nondeterministic.  What is  *)
(* checked of the visa is the text it looks for; a candidate of which it   *)
(* approves nothing changes nothing and has no step.  A loop that dies is  *)
(* one that takes no further step.                                         *)
(***************************************************************************)
EXTENDS ProjectFiles, Naturals, Sequences, FiniteSetsExt

CONSTANTS
    Workers,        \* the loops, each with a worktree of its own
    Candidates,     \* sequences of edits
    MaxRounds       \* max_rounds

\* A hunk: the texts its old text is found in, where the visa looks for it,
\* and what it makes of those where it is found exactly once.
Edits == [path : Paths, has : SUBSET Contents,
          to : UNION {[S -> Contents] : S \in SUBSET Contents}]

ASSUME LoopAssumption ==
    /\ Workers \subseteq Actors
    /\ Candidates \subseteq Seq(Edits)
    /\ MaxRounds \in Nat \ {0}

VARIABLES
    tree,       \* [Workers -> Trees]: the files of the worktree
    loop,       \* [Workers -> Loops]
    review      \* [Workers -> Reviews]: the last review of the worktree

loopVars == <<tree, loop, review>>

Stages == {"none", "copying", "proposing", "choosing", "patching", "testing",
           "restoring", "reviewing", "passed", "failed", "used", "removed"}
Snapshots == [path : Paths, text : Contents]
Loops == [stage : Stages, ok : BOOLEAN, round : 0..MaxRounds, todo : SUBSET Paths,
          base : Trees, cand : Seq(Edits), at : Nat,
          snaps : Seq(Snapshots), checkpoint : Checkpoints]
Reviews == [known : BOOLEAN, put : SUBSET Paths, gone : SUBSET Paths]

NoTree == [p \in Paths |-> Absent]
NoReview == [known |-> FALSE, put |-> {}, gone |-> {}]
NoLoop(stage) == [stage |-> stage, ok |-> FALSE, round |-> 0, todo |-> {}, base |-> NoTree,
                  cand |-> <<>>, at |-> 0, snaps |-> <<>>, checkpoint |-> NoFiles]

LoopTypeOK ==
    /\ tree \in [Workers -> Trees]
    /\ loop \in [Workers -> Loops]
    /\ review \in [Workers -> Reviews]

LoopInit ==
    /\ tree = [k \in Workers |-> NoTree]
    /\ loop = [k \in Workers |-> NoLoop("none")]
    /\ review = [k \in Workers |-> NoReview]

LoopStage(k, s) == loop' = [loop EXCEPT ![k].stage = s]

---------------------------------------------------------------------------
(* The worktree.                                                           *)

\* The copy is made file by file, while others may write the project.
CreateWorktree(k) ==
    /\ loop[k].stage = "none"
    /\ Watch(k, NoFiles)
    /\ loop' = [loop EXCEPT ![k].stage = "copying", ![k].todo = Paths]
    /\ UNCHANGED <<tree, review>>

CopyFile(k) ==
    /\ loop[k].stage = "copying"
    /\ \E p \in loop[k].todo :
           /\ tree' = [tree EXCEPT ![k][p] = project[p]]
           /\ loop' = [loop EXCEPT ![k].todo = @ \ {p}, ![k].base[p] = project[p],
                          ![k].stage = IF loop[k].todo = {p} THEN "proposing" ELSE @]
    /\ UNCHANGED <<fileVars, review>>

\* A worktree of selected files, made by hand.
CreateSelected(k) ==
    /\ loop[k].stage = "none"
    /\ \E S \in SUBSET Paths :
           tree' = [tree EXCEPT ![k] = [p \in Paths |-> IF p \in S THEN project[p] ELSE Absent]]
    /\ LoopStage(k, "used")
    /\ UNCHANGED <<fileVars, review>>

\* The review compares the worktree with the project as it is now.
Reviewed(k) ==
    [known |-> TRUE,
     put  |-> {p \in Paths : tree[k][p] # Absent /\ tree[k][p] # project[p]},
     gone |-> {p \in Paths : tree[k][p] = Absent /\ project[p] # Absent}]

Review(k) ==
    /\ loop[k].stage \in {"passed", "failed", "used"}
    /\ review' = [review EXCEPT ![k] = Reviewed(k)]
    /\ UNCHANGED <<fileVars, tree, loop>>

\* A command run in the worktree by hand writes there what it likes.
RunInWorktree(k) ==
    /\ loop[k].stage \in {"passed", "failed", "used"}
    /\ \E p \in Paths, v \in Contents \cup {Absent} : tree' = [tree EXCEPT ![k][p] = v]
    /\ LoopStage(k, "used")
    /\ UNCHANGED <<fileVars, review>>

\* Reviews live in the worktree's directory and go with it.
RemoveWorktree(k) ==
    /\ loop[k].stage \in {"passed", "failed", "used"}
    /\ tree' = [tree EXCEPT ![k] = NoTree]
    /\ review' = [review EXCEPT ![k] = NoReview]
    /\ loop' = [loop EXCEPT ![k] = NoLoop("removed")]
    /\ UNCHANGED fileVars

---------------------------------------------------------------------------
(* run_isolated_repair_loop.                                               *)

\* The model proposes, or fails to; the last failed proposal ends the loop.
Propose(k) ==
    /\ loop[k].stage = "proposing"
    /\ \/ LoopStage(k, "choosing")
       \/ loop[k].round + 1 < MaxRounds /\ loop' = [loop EXCEPT ![k].round = @ + 1]
       \/ loop[k].round + 1 = MaxRounds /\ LoopStage(k, "reviewing")
    /\ UNCHANGED <<fileVars, tree, review>>

NamedIn(cand) == {cand[i].path : i \in DOMAIN cand}

\* What filter_hunks may leave of a candidate for a worktree t: some of its
\* edits, in their order, each with its old text in the file as it is now, not
\* as an earlier edit will leave it, and none that occurs twice: closure_check
\* rejects the candidate when both pass.
Approvable(cand, t) ==
    LET fit == {i \in DOMAIN cand :
                   /\ t[cand[i].path] \in cand[i].has
                   /\ \A j \in DOMAIN cand : cand[j] = cand[i] => j = i}
        Picks(n) == {f \in [1..n -> fit] : \A i, j \in 1..n : i < j => f[i] < f[j]}
    IN  UNION {{[i \in 1..n |-> cand[f[i]]] : f \in Picks(n)} : n \in 1..Len(cand)}

\* What the visa left of the next candidate of the round, with a checkpoint of
\* all that it edits.
Choose(k) ==
    /\ loop[k].stage = "choosing"
    /\ \E cand \in Candidates : \E left \in Approvable(cand, tree[k]) :
           loop' = [loop EXCEPT ![k].stage = "patching", ![k].cand = left, ![k].at = 1,
                       ![k].checkpoint = Snapshot(tree[k], NamedIn(left))]
    /\ UNCHANGED <<fileVars, tree, review>>

NoneLeft(k) ==
    /\ loop[k].stage = "choosing"
    /\ \/ /\ loop[k].round + 1 < MaxRounds
          /\ loop' = [loop EXCEPT ![k].round = @ + 1, ![k].stage = "proposing"]
       \/ loop[k].round + 1 = MaxRounds /\ LoopStage(k, "reviewing")
    /\ UNCHANGED <<fileVars, tree, review>>

\* Snapshots are restored last to first, so the first one of a file counts.
SnapshotsRestored(t, snaps) ==
    [p \in Paths |->
        LET mine == {i \in DOMAIN snaps : snaps[i].path = p}
        IN  IF mine = {} THEN t[p] ELSE snaps[Min(mine)].text]

\* Leaving the change set with its edits undone.
GiveUp(k) ==
    /\ tree' = [tree EXCEPT ![k] = SnapshotsRestored(tree[k], loop[k].snaps)]
    /\ LoopStage(k, "restoring")

\* An edit is applied, does not match exactly once and undoes those before it,
\* or is blocked by the before_patch_apply hook, which leaves those before it.
ApplyEdit(k) ==
    /\ loop[k].stage = "patching"
    /\ loop[k].at \in DOMAIN loop[k].cand
    /\ LET edit == loop[k].cand[loop[k].at]
           text == tree[k][edit.path]
       IN  \/ /\ text \in DOMAIN edit.to
              /\ tree' = [tree EXCEPT ![k][edit.path] = edit.to[text]]
              /\ loop' = [loop EXCEPT ![k].at = @ + 1, ![k].snaps =
                             Append(@, [path |-> edit.path, text |-> text])]
           \/ text \notin DOMAIN edit.to /\ GiveUp(k)
           \/ LoopStage(k, "restoring") /\ UNCHANGED tree
    /\ UNCHANGED <<fileVars, review>>

RunTargetedTests(k) ==
    /\ loop[k].stage = "patching"
    /\ loop[k].at \notin DOMAIN loop[k].cand
    /\ \/ GiveUp(k)
       \/ LoopStage(k, "testing") /\ UNCHANGED tree
    /\ UNCHANGED <<fileVars, review>>

RunFullTests(k) ==
    /\ loop[k].stage = "testing"
    /\ \/ LoopStage(k, "restoring")
       \/ loop' = [loop EXCEPT ![k].stage = "reviewing", ![k].ok = TRUE]
    /\ UNCHANGED <<fileVars, tree, review>>

\* Faulty variant of RestoreCandidate: trusts the change set to have undone
\* its edits, and restores only when the full tests failed.
RestoreCandidateTested(k) ==
    /\ loop[k].stage = "restoring"
    /\ tree' = IF loop[k].at \in DOMAIN loop[k].cand THEN tree
               ELSE [tree EXCEPT ![k] = Restored(tree[k], loop[k].checkpoint)]
    /\ loop' = [loop EXCEPT ![k] = [NoLoop("choosing") EXCEPT
                   !.round = loop[k].round, !.base = loop[k].base]]
    /\ UNCHANGED <<fileVars, review>>

RestoreCandidate(k) ==
    /\ loop[k].stage = "restoring"
    /\ tree' = [tree EXCEPT ![k] = Restored(tree[k], loop[k].checkpoint)]
    /\ loop' = [loop EXCEPT ![k] = [NoLoop("choosing") EXCEPT
                   !.round = loop[k].round, !.base = loop[k].base]]
    /\ UNCHANGED <<fileVars, review>>

\* A review is made whether the loop passed or not.
FinishLoop(k) ==
    /\ loop[k].stage = "reviewing"
    /\ review' = [review EXCEPT ![k] = Reviewed(k)]
    /\ LoopStage(k, IF loop[k].ok THEN "passed" ELSE "failed")
    /\ UNCHANGED <<fileVars, tree>>

LoopStep(k) ==
    \/ CopyFile(k) \/ Propose(k) \/ Choose(k) \/ NoneLeft(k) \/ ApplyEdit(k)
    \/ RunTargetedTests(k) \/ RunFullTests(k) \/ RestoreCandidate(k) \/ FinishLoop(k)

WorktreeCommand(k) ==
    \/ CreateSelected(k) \/ Review(k) \/ RunInWorktree(k) \/ RemoveWorktree(k)

---------------------------------------------------------------------------
(* Properties.                                                             *)

\* The edit finds its text in t exactly once, and u is t with it made.
Made(t, edit, u) ==
    /\ t[edit.path] \in DOMAIN edit.to
    /\ u = [t EXCEPT ![edit.path] = edit.to[t[edit.path]]]

\* u is t with the first n edits made, one after the other.
PatchedTo(t, edits, n, u) ==
    \E trees \in [0..n -> Trees] :
        /\ trees[0] = t /\ trees[n] = u
        /\ \A i \in 1..n : Made(trees[i - 1], edits[i], trees[i])

\* Whatever candidates were tried before, and wherever a mismatch, a hook or
\* a failing test stopped them: a loop that passed leaves its worktree as it
\* was copied plus all that the visa may have approved of one candidate, one
\* that failed leaves it as it was copied, and so does the choice of the next
\* candidate.
LoopAllOrNothing ==
    \A k \in Workers :
        LET l == loop[k] IN
        /\ l.stage \in {"proposing", "choosing", "failed"} => tree[k] = l.base
        /\ l.stage = "passed" =>
               /\ \E cand \in Candidates : l.cand \in Approvable(cand, l.base)
               /\ PatchedTo(l.base, l.cand, Len(l.cand), tree[k])
===========================================================================
