--------------------------- MODULE ProjectFiles ---------------------------
(***************************************************************************)
(* The files of a project and the checkpoints of quantagent/checkpoints.py *)
(* that whoever is about to write them takes first.  A file is its content *)
(* or Absent; a checkpoint is the content of the paths it was given.  Text *)
(* is taken to be UTF-8: what restoring does to other bytes is left out.   *)
(*                                                                         *)
(* start and foreign record what the properties compare: the whole project *)
(* when an actor took its checkpoint, and what others wrote since.         *)
(***************************************************************************)
CONSTANTS
    Paths,      \* the files of the project
    Contents,   \* what a file may hold
    Absent,     \* there is no such file
    Actors      \* whoever reads and writes the project

ASSUME FilesAssumption == Absent \notin Contents

VARIABLES
    project,    \* the content of every path
    saved,      \* [Actors -> Checkpoints]: the last checkpoint of each
    start,      \* [Actors -> Trees \cup {NoFiles}]: the project then
    foreign     \* [Actors -> SUBSET Paths]: what others wrote since

fileVars == <<project, saved, start, foreign>>
watchVars == <<saved, start, foreign>>

Trees == [Paths -> Contents \cup {Absent}]
Checkpoints == UNION {[S -> Contents \cup {Absent}] : S \in SUBSET Paths}
NoFiles == [p \in {} |-> Absent]

FilesTypeOK ==
    /\ project \in Trees
    /\ saved \in [Actors -> Checkpoints]
    /\ start \in [Actors -> Trees \cup {NoFiles}]
    /\ foreign \in [Actors -> SUBSET Paths]

FilesInit ==
    /\ project \in Trees
    /\ saved = [w \in Actors |-> NoFiles]
    /\ start = [w \in Actors |-> NoFiles]
    /\ foreign = [w \in Actors |-> {}]

---------------------------------------------------------------------------
\* Faulty variant of Snapshot: a path without a file is not recorded.
SnapshotExisting(tree, S) == [p \in {q \in S : tree[q] # Absent} |-> tree[p]]

Snapshot(tree, S) == [p \in S |-> tree[p]]

\* Paths without a file are removed again, paths not recorded are left.
Restored(tree, snap) ==
    [p \in Paths |-> IF p \in DOMAIN snap THEN snap[p] ELSE tree[p]]

Watch(w, snap) ==
    /\ saved' = [saved EXCEPT ![w] = snap]
    /\ start' = [start EXCEPT ![w] = project]
    /\ foreign' = [foreign EXCEPT ![w] = {}]
    /\ UNCHANGED project

TakeCheckpoint(w, S) == Watch(w, Snapshot(project, S))

Forget(w) ==
    /\ saved' = [saved EXCEPT ![w] = NoFiles]
    /\ start' = [start EXCEPT ![w] = NoFiles]
    /\ foreign' = [foreign EXCEPT ![w] = {}]
    /\ UNCHANGED project

\* What w writes to S is foreign to everybody else who is watching.
Wrote(w, S) ==
    foreign' = [u \in Actors |->
        IF u = w \/ start[u] = NoFiles THEN foreign[u] ELSE foreign[u] \cup S]

Write(w, p, v) ==
    /\ project' = [project EXCEPT ![p] = v]
    /\ Wrote(w, {p})
    /\ UNCHANGED <<saved, start>>

---------------------------------------------------------------------------
\* mako checkpoint restore, given by hand, is a write nobody else expects.
RestoreCommand(w) ==
    /\ saved[w] # NoFiles
    /\ project' = Restored(project, saved[w])
    /\ foreign' = [u \in Actors |->
           IF start[u] = NoFiles THEN foreign[u] ELSE foreign[u] \cup DOMAIN saved[w]]
    /\ UNCHANGED <<saved, start>>

---------------------------------------------------------------------------
(* Properties.                                                             *)

\* At every moment, after a crash or an exception as well, restoring the
\* checkpoint an actor took gives back the project as it was when it was
\* taken, new files and deletions included, except for paths that somebody
\* else wrote in between (create_checkpoint before tools and gated applies).
RestoringUndoes ==
    \A w \in Actors : saved[w] # NoFiles =>
        \A p \in Paths \ foreign[w] : Restored(project, saved[w])[p] = start[w][p]
===========================================================================
