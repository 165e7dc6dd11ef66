-------------------------- MODULE EditTypeProofs --------------------------
(***************************************************************************)
(* Type correctness of EditSystem for any files, invocations, candidates,  *)
(* rounds, scenarios and numbers of calls, loops and applies.  It is not   *)
(* inductive as stated: a check looks for rows only of its own fingerprint *)
(* (LooksUp), a change set has snapshotted the first edit of every file it *)
(* would undo (FirstSnap), and a rollback writes only what was saved       *)
(* (LeftSaved).                                                            *)
(***************************************************************************)
EXTENDS EditSystem, TLAPS

LEMMA SomeInvocation == (CHOOSE i \in Invocations : TRUE) \in Invocations
  BY ToolAssumption
LEMMA SomeFingerprint == (CHOOSE f \in Fingerprints : TRUE) \in Fingerprints
<1>1. PICK i \in Invocations : TRUE
  BY ToolAssumption
<1>2. <<i, "ask">> \in Fingerprints
  BY ToolAssumption
<1> QED BY <1>2
LEMMA SomeWorker == (CHOOSE k \in Workers : TRUE) \in Workers
  BY GateAssumption

---------------------------------------------------------------------------
(* Types of the project's files.                                           *)

LEMMA SnapshotType ==
  ASSUME NEW t \in Trees, NEW S \in SUBSET Paths
  PROVE  Snapshot(t, S) \in Checkpoints
<1>1. Snapshot(t, S) \in [S -> Contents \cup {Absent}]
  BY DEF Snapshot, Trees
<1> QED BY <1>1 DEF Checkpoints

LEMMA NoFilesType == NoFiles \in Checkpoints
<1>1. NoFiles \in [{} -> Contents \cup {Absent}]
  BY DEF NoFiles
<1> QED BY <1>1 DEF Checkpoints

LEMMA CheckpointType ==
  ASSUME NEW snap \in Checkpoints
  PROVE  /\ DOMAIN snap \subseteq Paths
         /\ \A p \in DOMAIN snap : snap[p] \in Contents \cup {Absent}
<1> PICK S \in SUBSET Paths : snap \in [S -> Contents \cup {Absent}]
  BY DEF Checkpoints
<1> QED OBVIOUS

LEMMA RestoredType ==
  ASSUME NEW t \in Trees, NEW snap \in Checkpoints
  PROVE  Restored(t, snap) \in Trees
  BY CheckpointType DEF Restored, Trees

LEMMA WatchType ==
  ASSUME FilesTypeOK, NEW w \in Actors, NEW snap \in Checkpoints, Watch(w, snap)
  PROVE  FilesTypeOK'
  BY DEF FilesTypeOK, Watch

LEMMA ForgetType ==
  ASSUME FilesTypeOK, NEW w \in Actors, Forget(w)
  PROVE  FilesTypeOK'
  BY NoFilesType DEF FilesTypeOK, Forget

LEMMA WriteType ==
  ASSUME FilesTypeOK, NEW w \in Actors, NEW p \in Paths, NEW v \in Contents \cup {Absent},
         Write(w, p, v)
  PROVE  FilesTypeOK'
  BY DEF FilesTypeOK, Write, Wrote, Trees

LEMMA RestoreType ==
  ASSUME FilesTypeOK, NEW w \in Actors, RestoreCommand(w)
  PROVE  FilesTypeOK'
<1>1. saved[w] \in Checkpoints
  BY DEF FilesTypeOK
<1>2. DOMAIN saved[w] \subseteq Paths
  BY <1>1, CheckpointType
<1>3. project' \in Trees
  BY <1>1, RestoredType DEF FilesTypeOK, RestoreCommand
<1> QED BY <1>2, <1>3 DEF FilesTypeOK, RestoreCommand

LEMMA SameFilesType == FilesTypeOK /\ UNCHANGED fileVars => FilesTypeOK'
  BY DEF FilesTypeOK, fileVars
---------------------------------------------------------------------------
(* Types of approvals.                                                     *)

AType == /\ now \in 0..MaxTime /\ rows \in [Fingerprints -> Rows]
         /\ granted \in [Fingerprints -> BOOLEAN]
         /\ check \in [Checkers -> Checks]

\* A check that looks an id up was given one, and found a row if it says so.
LooksUp ==
    \A c \in Checkers :
        /\ check[c].step = "lookup" => check[c].id # NoId
        /\ check[c].step = "expire found" => check[c].id \in Fingerprints

LEMMA NoCheckType == NoCheck \in Checks
  BY SomeFingerprint, ApprovalsAssumption DEF NoCheck, Checks, Steps, NoRow, Rows, Statuses

LEMMA EndCheckType ==
  ASSUME AType, NEW c \in Checkers, EndCheck(c) PROVE AType'
  BY NoCheckType DEF AType, EndCheck, Set

LEMMA BeginCheckType ==
  ASSUME AType, NEW c \in Checkers, NEW f \in Fingerprints, NEW d \in BOOLEAN,
         NEW id \in Fingerprints \cup {NoId, UnknownId}, NEW e \in 0..MaxTime,
         BeginCheck(c, f, d, id, e)
  PROVE  AType'
<1>1. [NoCheck EXCEPT !.fp = f, !.id = id, !.expires = e,
          !.step = IF d THEN "create denied" ELSE IF id = NoId THEN "create" ELSE "lookup"]
        \in Checks
  BY NoCheckType DEF Checks, Steps
<1> QED BY <1>1 DEF AType, BeginCheck, Set

LEMMA UpsertedType ==
  ASSUME NEW r \in Rows, NEW s \in {"pending", "denied"}, NEW e \in 0..MaxTime
  PROVE  Upserted(r, s, e) \in Rows
  BY DEF Upserted, Rows, Statuses

LEMMA ToType ==
  ASSUME AType, NEW c \in Checkers, NEW s \in Steps, NEW r \in Rows, To(c, s, r)
  PROVE  check' \in [Checkers -> Checks]
  BY DEF AType, To, Set, Checks

LEMMA DecidedType ==
  ASSUME AType, NEW c \in Checkers, NEW r \in Rows, NEW ok \in BOOLEAN, Decided(c, r, ok)
  PROVE  check' \in [Checkers -> Checks]
  BY DEF AType, Decided, Set, Checks, Steps

\* What To and Decided leave of a check, and of the other checks.
LEMMA ToIs ==
  ASSUME AType, NEW c \in Checkers, NEW s \in Steps, NEW r \in Rows, To(c, s, r)
  PROVE  /\ check'[c].step = s /\ check'[c].read = r /\ check'[c].allowed = check[c].allowed
         /\ check'[c].fp = check[c].fp /\ check'[c].id = check[c].id
         /\ \A d \in Checkers : d # c => check'[d] = check[d]
  BY DEF AType, To, Set, Checks

LEMMA DecidedIs ==
  ASSUME AType, NEW c \in Checkers, NEW r \in Rows, NEW ok \in BOOLEAN, Decided(c, r, ok)
  PROVE  /\ check'[c].step = "decided" /\ check'[c].read = r /\ check'[c].allowed = ok
         /\ check'[c].fp = check[c].fp /\ check'[c].id = check[c].id
         /\ \A d \in Checkers : d # c => check'[d] = check[d]
  BY DEF AType, Decided, Set, Checks

LEMMA CreateType ==
  ASSUME AType, NEW c \in Checkers, NEW s \in {"pending", "denied"}, CreateOrGet(c, s)
  PROVE  AType'
<1> DEFINE f == check[c].fp
           row == Upserted(rows[f], s, check[c].expires)
<1>1. f \in Fingerprints /\ check[c].expires \in 0..MaxTime
  BY DEF AType, Checks
<1>2. row \in Rows
  BY <1>1, UpsertedType DEF AType
<1>3. rows' \in [Fingerprints -> Rows]
  BY <1>1, <1>2 DEF AType, CreateOrGet
<1>4. check' \in [Checkers -> Checks]
  <2> HIDE DEF row
  <2>1. \/ To(c, "expire", row) \/ To(c, "expire again", row) \/ Decided(c, row, FALSE)
    BY DEF CreateOrGet, row
  <2> QED BY <2>1, <1>2, ToType, DecidedType DEF Steps
<1> QED BY <1>3, <1>4 DEF AType, CreateOrGet

LEMMA LookupType ==
  ASSUME AType, LooksUp, NEW c \in Checkers, Lookup(c) PROVE AType' /\ LooksUp'
<1>1. check[c].id \in Fingerprints \cup {UnknownId}
  BY DEF AType, LooksUp, Checks, Lookup
<1>2. check[c].id # UnknownId => rows[check[c].id] \in Rows
  BY <1>1 DEF AType
<1>3. NoRow \in Rows
  BY ApprovalsAssumption DEF NoRow, Rows, Statuses
<1>4. check' \in [Checkers -> Checks]
  BY <1>2, <1>3, ToType DEF Lookup, Steps
<1>5. LooksUp'
  <2>1. CASE check[c].id = UnknownId
    <3>1. To(c, "create unknown", NoRow)
      BY <2>1 DEF Lookup
    <3> QED BY <3>1, <1>3, ToIs DEF LooksUp, Steps
  <2>2. CASE check[c].id # UnknownId
    <3>1. To(c, "expire found", rows[check[c].id])
      BY <2>2 DEF Lookup
    <3>2. rows[check[c].id] \in Rows /\ "expire found" \in Steps
      BY <2>2, <1>2 DEF Steps
    <3>3. /\ check'[c].step = "expire found" /\ check'[c].id = check[c].id
          /\ \A d \in Checkers : d # c => check'[d] = check[d]
      BY <3>1, <3>2, ToIs
    <3> QED BY <2>2, <1>1, <3>3 DEF LooksUp
  <2> QED BY <2>1, <2>2
<1> QED BY <1>4, <1>5 DEF Lookup, AType

LEMMA FoundType ==
  ASSUME AType, LooksUp, NEW c \in Checkers PROVE Found(c) \in Fingerprints
  BY DEF AType, LooksUp, Checks, Found

LEMMA ExpireType ==
  ASSUME AType, LooksUp, NEW c \in Checkers, ExpireIfNeeded(c) PROVE AType'
<1> DEFINE row == IF Lapsed(check[c].read)
                  THEN [check[c].read EXCEPT !.status = "expired"] ELSE check[c].read
<1>1. row \in Rows
  BY DEF AType, Checks, Rows, Statuses
<1>2. rows' \in [Fingerprints -> Rows]
  BY FoundType DEF AType, ExpireIfNeeded, Decide, Rows, Statuses
<1>3. Allows(c, row) \in BOOLEAN
  BY DEF Allows
<1>4. check' \in [Checkers -> Checks]
  <2> HIDE DEF row
  <2>1. To(c, "create again", row) \/ Decided(c, row, Allows(c, row))
    BY DEF ExpireIfNeeded, row
  <2> QED BY <2>1, <1>1, <1>3, ToType, DecidedType DEF Steps
<1> QED BY <1>2, <1>4 DEF ExpireIfNeeded, AType

LEMMA CheckStepType ==
  ASSUME AType, LooksUp, NEW c \in Checkers, CheckStep(c) PROVE AType' /\ LooksUp'
<1>1. CASE Create(c) \/ CreateDenied(c)
  <2> PICK s \in {"pending", "denied"} : CreateOrGet(c, s)
    BY <1>1 DEF Create, CreateDenied
  <2>1. AType'
    BY CreateType
  <2> DEFINE row == Upserted(rows[check[c].fp], s, check[c].expires)
  <2>2. row \in Rows
    BY UpsertedType DEF AType, Checks
  <2>3. \/ To(c, "expire", row) \/ To(c, "expire again", row) \/ Decided(c, row, FALSE)
    BY DEF CreateOrGet
  <2> HIDE DEF row
  <2>4. /\ check'[c].step \notin {"lookup", "expire found"}
        /\ \A d \in Checkers : d # c => check'[d] = check[d]
    <3>1. CASE To(c, "expire", row)
      BY <3>1, <2>2, ToIs DEF Steps
    <3>2. CASE To(c, "expire again", row)
      BY <3>2, <2>2, ToIs DEF Steps
    <3>3. CASE Decided(c, row, FALSE)
      BY <3>3, <2>2, DecidedIs
    <3> QED BY <2>3, <3>1, <3>2, <3>3
  <2> QED BY <2>1, <2>4 DEF LooksUp
<1>2. CASE Lookup(c)
  BY <1>2, LookupType
<1>3. CASE ExpireIfNeeded(c)
  <2>1. AType'
    BY <1>3, ExpireType
  <2> DEFINE row == IF Lapsed(check[c].read)
                    THEN [check[c].read EXCEPT !.status = "expired"] ELSE check[c].read
  <2>2. row \in Rows
    BY DEF AType, Checks, Rows, Statuses
  <2>3. To(c, "create again", row) \/ Decided(c, row, Allows(c, row))
    BY <1>3 DEF ExpireIfNeeded
  <2>4. Allows(c, row) \in BOOLEAN
    BY DEF Allows
  <2> HIDE DEF row
  <2>5. /\ check'[c].step \notin {"lookup", "expire found"}
        /\ \A d \in Checkers : d # c => check'[d] = check[d]
    <3>1. CASE To(c, "create again", row)
      BY <3>1, <2>2, ToIs DEF Steps
    <3>2. CASE Decided(c, row, Allows(c, row))
      BY <3>2, <2>2, <2>4, DecidedIs
    <3> QED BY <2>3, <3>1, <3>2
  <2> QED BY <2>1, <2>5 DEF LooksUp
<1> QED BY <1>1, <1>2, <1>3 DEF CheckStep

---------------------------------------------------------------------------
(* Types of tool calls.                                                    *)

CType == call \in [Calls -> CallStates]

LEMMA NoCallType ==
  ASSUME NEW s \in Ended \cup {"new", "policy", "check", "ready", "running"}
  PROVE  NoCall(s) \in CallStates
  BY SomeInvocation DEF NoCall, CallStates

LEMMA EndType ==
  ASSUME CType, NEW c \in Calls, NEW s \in Ended, End(c, s) PROVE CType'
  BY NoCallType DEF CType, End

LEMMA StageType ==
  ASSUME CType, NEW c \in Calls, NEW s \in {"check", "ready", "running"}, Stage(c, s) PROVE CType'
  BY DEF CType, Stage, CallStates

LEMMA ActionType ==
  ASSUME CType, NEW c \in Calls, NEW s \in {"check", "ready"}, NEW a \in {"allow", "ask", "deny"},
         call' = [call EXCEPT ![c].stage = s, ![c].action = a]
  PROVE  CType'
<1>1. call' = [call EXCEPT ![c] = [call[c] EXCEPT !.stage = s, !.action = a]]
  BY DEF CType
<1>2. [call[c] EXCEPT !.stage = s, !.action = a] \in CallStates
  BY DEF CType, CallStates
<1> QED BY <1>1, <1>2 DEF CType

LEMMA RunningType ==
  ASSUME CType, NEW c \in Calls,
         call' = [call EXCEPT ![c].stage = "running", ![c].todo = Writes[call[c].inv]]
  PROVE  CType'
<1>1. Writes[call[c].inv] \in SUBSET Paths
  BY ToolAssumption DEF CType, CallStates
<1>2. call' = [call EXCEPT ![c] =
                  [call[c] EXCEPT !.stage = "running", !.todo = Writes[call[c].inv]]]
  BY DEF CType
<1>3. [call[c] EXCEPT !.stage = "running", !.todo = Writes[call[c].inv]] \in CallStates
  BY <1>1 DEF CType, CallStates
<1> QED BY <1>2, <1>3 DEF CType

LEMMA NewCallType ==
  ASSUME CType, NEW c \in Calls, NEW i \in Invocations, NEW owner \in BOOLEAN,
         call' = [call EXCEPT ![c] = [NoCall("policy") EXCEPT !.inv = i, !.owner = owner]]
  PROVE  CType'
<1>1. NoCall("policy") \in CallStates
  BY NoCallType
<1>2. [NoCall("policy") EXCEPT !.inv = i, !.owner = owner] \in CallStates
  BY <1>1 DEF CallStates
<1> QED BY <1>2 DEF CType

ToolType == FilesTypeOK /\ AType /\ LooksUp /\ CType

LEMMA SameApprovals == AType /\ LooksUp /\ UNCHANGED approvalVars => AType' /\ LooksUp'
  BY DEF AType, LooksUp, approvalVars

LEMMA StartCallType ==
  ASSUME ToolType, NEW c \in Calls, NEW i \in Invocations, StartCall(c, i) PROVE ToolType'
<1>1. CType'
  <2>1. CASE End(c, "failed")
    BY <2>1, EndType DEF Ended, ToolType
  <2>2. CASE \E owner \in BOOLEAN :
              call' = [call EXCEPT ![c] =
                  [NoCall("policy") EXCEPT !.inv = i, !.owner = owner]]
    <3> PICK owner \in BOOLEAN :
              call' = [call EXCEPT ![c] =
                  [NoCall("policy") EXCEPT !.inv = i, !.owner = owner]]
      BY <2>2
    <3> QED BY NewCallType DEF ToolType
  <2> QED BY <2>1, <2>2 DEF StartCall
<1> QED BY <1>1, ForgetType, SameApprovals, ToolAssumption DEF ToolType, StartCall

LEMMA BeginLooksUp ==
  ASSUME AType, LooksUp, NEW c \in Checkers, NEW f, NEW d \in BOOLEAN, NEW id, NEW e,
         BeginCheck(c, f, d, id, e)
  PROVE  LooksUp'
<1>1. /\ check'[c].id = id /\ check'[c].step # "expire found"
      /\ check'[c].step = "lookup" => id # NoId
      /\ \A b \in Checkers : b # c => check'[b] = check[b]
  BY DEF AType, BeginCheck, Set, NoCheck
<1> QED BY <1>1 DEF LooksUp

LEMMA EndLooksUp ==
  ASSUME AType, LooksUp, NEW c \in Checkers, EndCheck(c) PROVE LooksUp'
<1>1. /\ check'[c].step = "idle"
      /\ \A b \in Checkers : b # c => check'[b] = check[b]
  BY DEF AType, EndCheck, Set, NoCheck
<1> QED BY <1>1 DEF LooksUp

LEMMA EnforceType ==
  ASSUME ToolType, NEW c \in Calls, EnforceTool(c) PROVE ToolType'
<1>1. FilesTypeOK'
  BY SameFilesType DEF ToolType, EnforceTool
<1>2. CASE End(c, "unrecorded") /\ UNCHANGED approvalVars
  BY <1>1, <1>2, EndType, SameApprovals DEF ToolType, Ended
<1>3. CASE call' = [call EXCEPT ![c].stage = "ready", ![c].action = "allow"] /\ UNCHANGED approvalVars
  <2>1. CType'
    BY <1>3, ActionType DEF ToolType
  <2> QED BY <1>1, <1>3, <2>1, SameApprovals DEF ToolType
<1>4. CASE \E action \in {"ask", "deny"} :
              /\ call' = [call EXCEPT ![c].stage = "check", ![c].action = action]
              /\ \E id \in Known \cup {NoId, UnknownId}, e \in Expiries :
                     BeginCheck(c, <<call[c].inv, action>>, action = "deny", id, e)
  <2> PICK action \in {"ask", "deny"} :
              /\ call' = [call EXCEPT ![c].stage = "check", ![c].action = action]
              /\ \E id \in Known \cup {NoId, UnknownId}, e \in Expiries :
                     BeginCheck(c, <<call[c].inv, action>>, action = "deny", id, e)
    BY <1>4
  <2>1. CType'
    BY ActionType DEF ToolType
  <2>2. PICK id \in Known \cup {NoId, UnknownId}, e \in Expiries :
                     BeginCheck(c, <<call[c].inv, action>>, action = "deny", id, e)
    OBVIOUS
  <2>3. /\ id \in Fingerprints \cup {NoId, UnknownId} /\ e \in 0..MaxTime
        /\ c \in Checkers /\ (action = "deny") \in BOOLEAN
    BY ToolAssumption DEF Known
  <2>4. <<call[c].inv, action>> \in Fingerprints
    BY ToolAssumption DEF ToolType, CType, CallStates
  <2>5. AType'
    BY <2>2, <2>3, <2>4, BeginCheckType DEF ToolType
  <2>6. LooksUp'
    BY <2>2, <2>3, BeginLooksUp DEF ToolType
  <2> QED BY <1>1, <2>1, <2>5, <2>6 DEF ToolType
<1> QED BY <1>2, <1>3, <1>4 DEF EnforceTool

LEMMA CallStepType ==
  ASSUME ToolType, NEW c \in Calls, CallStep(c) PROVE ToolType'
<1> c \in Checkers /\ c \in Actors
  BY ToolAssumption
<1>1. CASE EnforceTool(c)
  BY <1>1, EnforceType
<1>2. CASE EnsureApproval(c)
  <2>1. CType'
    BY <1>2 DEF EnsureApproval, ToolType, CType
  <2> QED BY <1>2, <2>1, CheckStepType, SameFilesType DEF EnsureApproval, ToolType
<1>3. CASE Gate(c)
  BY <1>3, StageType, EndType, EndCheckType, EndLooksUp, SameApprovals, SameFilesType
     DEF Gate, ToolType, Ended
<1>4. CASE CheckpointBeforeTool(c)
  <2>1. CType'
    BY <1>4, RunningType DEF CheckpointBeforeTool, ToolType
  <2>2. FilesTypeOK'
    <3>1. CASE TakeCheckpoint(c, Named[call[c].inv])
      <4>1. Named[call[c].inv] \in SUBSET Paths
        BY ToolAssumption DEF ToolType, CType, CallStates
      <4>2. Snapshot(project, Named[call[c].inv]) \in Checkpoints
        BY <4>1, SnapshotType DEF ToolType, FilesTypeOK
      <4> QED BY <3>1, <4>2, WatchType DEF ToolType, TakeCheckpoint
    <3> QED BY <1>4, <3>1, SameFilesType DEF CheckpointBeforeTool, ToolType
  <2> QED BY <1>4, <2>1, <2>2, SameApprovals DEF CheckpointBeforeTool, ToolType
<1>5. CASE WriteFile(c)
  <2> PICK p \in call[c].todo :
           /\ call' = [call EXCEPT ![c].todo = @ \ {p}]
           /\ (\E v \in Contents : Write(c, p, v)) \/ UNCHANGED fileVars
    BY <1>5 DEF WriteFile
  <2>1. CType' /\ p \in Paths
    BY DEF ToolType, CType, CallStates
  <2> QED BY <1>5, <2>1, SameApprovals, SameFilesType, WriteType DEF WriteFile, ToolType
<1>6. CASE EndHandler(c)
  BY <1>6, EndType, EndCheckType, EndLooksUp, SameApprovals, SameFilesType
     DEF EndHandler, ToolType, Ended
<1> QED BY <1>1, <1>2, <1>3, <1>4, <1>5, <1>6 DEF CallStep

---------------------------------------------------------------------------
(* Types of worktrees and loops.                                           *)

LEMMA InSeq == ASSUME NEW S, NEW s \in Seq(S), NEW i \in DOMAIN s PROVE s[i] \in S
  OBVIOUS

LEMMA NoTreeType == NoTree \in Trees
  BY DEF NoTree, Trees

LEMMA NoLoopType ==
  ASSUME NEW s \in Stages PROVE NoLoop(s) \in Loops
<1>1. 0 \in 0..MaxRounds /\ 0 \in Nat /\ <<>> \in Seq(Snapshots) /\ <<>> \in Seq(Edits)
  BY LoopAssumption
<1> QED BY <1>1, NoTreeType, NoFilesType DEF NoLoop, Loops

\* Among the snapshots of a file there is a first one.
HasFirst(s) ==
    \A p \in Paths :
        LET mine == {i \in DOMAIN s : s[i].path = p}
        IN  mine = {} \/ \E i \in mine : \A j \in mine : i <= j
FirstSnap(k) == HasFirst(loop[k].snaps)

LType == LoopTypeOK /\ \A k \in Workers : FirstSnap(k)

\* A worktree, a loop and a review of the right type keep the tables so.
LEMMA PutTree ==
  ASSUME LoopTypeOK, NEW k \in Workers, NEW t \in Trees, tree' = [tree EXCEPT ![k] = t]
  PROVE  tree' \in [Workers -> Trees]
  BY DEF LoopTypeOK

LEMMA PutLoop ==
  ASSUME LoopTypeOK, NEW k \in Workers, NEW l \in Loops, loop' = [loop EXCEPT ![k] = l]
  PROVE  loop' \in [Workers -> Loops]
  BY DEF LoopTypeOK

LEMMA StageLoop ==
  ASSUME LoopTypeOK, NEW k \in Workers, NEW s \in Stages, LoopStage(k, s)
  PROVE  /\ loop' \in [Workers -> Loops]
         /\ loop'[k] = [loop[k] EXCEPT !.stage = s]
         /\ \A j \in Workers : j # k => loop'[j] = loop[j]
  BY DEF LoopTypeOK, LoopStage, Loops

LEMMA ReviewedType ==
  ASSUME NEW k \in Workers PROVE Reviewed(k) \in Reviews
  BY DEF Reviewed, Reviews

LEMMA ReadFile ==
  ASSUME NEW t \in Trees, NEW p \in Paths PROVE t[p] \in Contents \cup {Absent}
  BY DEF Trees

LEMMA PutFile ==
  ASSUME NEW t \in Trees, NEW p \in Paths, NEW v \in Contents \cup {Absent}
  PROVE  [t EXCEPT ![p] = v] \in Trees
  BY DEF Trees

LEMMA RestoredSnaps ==
  ASSUME LType, NEW k \in Workers PROVE SnapshotsRestored(tree[k], loop[k].snaps) \in Trees
<1> DEFINE mine(p) == {i \in DOMAIN loop[k].snaps : loop[k].snaps[i].path = p}
<1>1. loop[k].snaps \in Seq(Snapshots) /\ tree[k] \in Trees
  BY DEF LType, LoopTypeOK, Loops
<1>2. ASSUME NEW p \in Paths, mine(p) # {}
      PROVE  loop[k].snaps[Min(mine(p))].text \in Contents
  <2>1. PICK i \in mine(p) : \A j \in mine(p) : i <= j
    BY <1>2 DEF LType, FirstSnap, HasFirst
  <2>2. Min(mine(p)) \in mine(p)
    BY <2>1 DEF Min
  <2>3. Min(mine(p)) \in DOMAIN loop[k].snaps
    BY <2>2
  <2>4. loop[k].snaps[Min(mine(p))] \in Snapshots
    BY <1>1, <2>3, InSeq
  <2> QED BY <2>4 DEF Snapshots
<1> QED BY <1>1, <1>2 DEF SnapshotsRestored, Trees

\* loop[k] field by field.
LEMMA LoopFields ==
  ASSUME LoopTypeOK, NEW k \in Workers
  PROVE  /\ loop[k] \in Loops /\ tree[k] \in Trees
         /\ loop[k].todo \in SUBSET Paths /\ loop[k].base \in Trees
         /\ loop[k].round \in 0..MaxRounds /\ loop[k].at \in Nat
         /\ loop[k].cand \in Seq(Edits) /\ loop[k].snaps \in Seq(Snapshots)
         /\ loop[k].checkpoint \in Checkpoints
         /\ loop[k].stage \in Stages /\ loop[k].ok \in BOOLEAN
  BY DEF LoopTypeOK, Loops

\* A step of k that keeps its snapshots, or has none, keeps FirstSnap.
LEMMA SameSnaps ==
  ASSUME LType, NEW k \in Workers,
         loop'[k].snaps \in {loop[k].snaps, <<>>},
         \A j \in Workers : j # k => loop'[j] = loop[j]
  PROVE  \A j \in Workers : FirstSnap(j)'
<1>1. ASSUME NEW j \in Workers, loop'[j].snaps = loop[j].snaps PROVE FirstSnap(j)'
  BY <1>1 DEF LType, FirstSnap
<1>2. ASSUME NEW j \in Workers, loop'[j].snaps = <<>> PROVE FirstSnap(j)'
  BY <1>2 DEF FirstSnap, HasFirst
<1> QED BY <1>1, <1>2

LEMMA CreateWorktreeType ==
  ASSUME LType, NEW k \in Workers, CreateWorktree(k) PROVE LType'
<1> DEFINE l == [loop[k] EXCEPT !.stage = "copying", !.todo = Paths]
<1>1. l \in Loops /\ l.snaps = loop[k].snaps
  BY LoopFields DEF LType, Loops, Stages
<1>2. loop' = [loop EXCEPT ![k] = l]
  BY DEF CreateWorktree, LType, LoopTypeOK
<1>3. loop'[k] = l /\ \A j \in Workers : j # k => loop'[j] = loop[j]
  BY <1>2 DEF LType, LoopTypeOK
<1> HIDE DEF l
<1> QED BY <1>1, <1>2, <1>3, PutLoop, SameSnaps DEF CreateWorktree, LType, LoopTypeOK

LEMMA CopyFileType ==
  ASSUME LType, FilesTypeOK, NEW k \in Workers, CopyFile(k) PROVE LType'
<1> PICK p \in loop[k].todo :
           /\ tree' = [tree EXCEPT ![k][p] = project[p]]
           /\ loop' = [loop EXCEPT ![k].todo = @ \ {p}, ![k].base[p] = project[p],
                          ![k].stage = IF loop[k].todo = {p} THEN "proposing" ELSE @]
  BY DEF CopyFile
<1>0. p \in Paths /\ project[p] \in Contents \cup {Absent}
  BY LoopFields, ReadFile DEF LType, FilesTypeOK
<1> DEFINE s == IF loop[k].todo = {p} THEN "proposing" ELSE loop[k].stage
           b == [loop[k].base EXCEPT ![p] = project[p]]
           l == [loop[k] EXCEPT !.todo = loop[k].todo \ {p}, !.base = b, !.stage = s]
<1>1. tree' \in [Workers -> Trees]
  BY <1>0, LoopFields, PutFile, PutTree DEF LType, LoopTypeOK
<1>2. s \in Stages /\ b \in Trees
  BY <1>0, LoopFields, PutFile DEF LType, Stages
<1>3. loop' = [loop EXCEPT ![k] = l]
  BY DEF LType, LoopTypeOK
<1> HIDE DEF s, b
<1>4. l \in Loops /\ l.snaps = loop[k].snaps
  BY <1>2, LoopFields DEF LType, Loops
<1>5. loop'[k] = l /\ \A j \in Workers : j # k => loop'[j] = loop[j]
  BY <1>3 DEF LType, LoopTypeOK
<1> HIDE DEF l
<1> QED BY <1>1, <1>3, <1>4, <1>5, PutLoop, SameSnaps DEF CopyFile, LType, LoopTypeOK

\* Two ways of a step to keep LType: it changes at most the stage, or it
\* puts a well-typed loop in its place that keeps or drops the snapshots.
LEMMA StageKeeps ==
  ASSUME LType, NEW k \in Workers, NEW s \in Stages, LoopStage(k, s),
         tree' \in [Workers -> Trees], review' \in [Workers -> Reviews]
  PROVE  LType'
<1>1. loop'[k].snaps = loop[k].snaps
  BY StageLoop, LoopFields DEF LType, Loops
<1> QED BY <1>1, StageLoop, SameSnaps DEF LType, LoopTypeOK

LEMMA LoopKeeps ==
  ASSUME LType, NEW k \in Workers, NEW l \in Loops, loop' = [loop EXCEPT ![k] = l],
         l.snaps \in {loop[k].snaps, <<>>},
         tree' \in [Workers -> Trees], review' \in [Workers -> Reviews]
  PROVE  LType'
<1>1. loop'[k] = l /\ \A j \in Workers : j # k => loop'[j] = loop[j]
  BY DEF LType, LoopTypeOK
<1> QED BY <1>1, PutLoop, SameSnaps DEF LType, LoopTypeOK

LEMMA SameTrees == LType => tree \in [Workers -> Trees] /\ review \in [Workers -> Reviews]
  BY DEF LType, LoopTypeOK

LEMMA WorktreeCommandType ==
  ASSUME LType, FilesTypeOK, NEW k \in Workers, WorktreeCommand(k) PROVE LType'
<1>1. CASE CreateSelected(k)
  <2> PICK S \in SUBSET Paths :
           tree' = [tree EXCEPT ![k] = [p \in Paths |-> IF p \in S THEN project[p] ELSE Absent]]
    BY <1>1 DEF CreateSelected
  <2>1. [p \in Paths |-> IF p \in S THEN project[p] ELSE Absent] \in Trees
    BY DEF FilesTypeOK, Trees
  <2>2. tree' \in [Workers -> Trees]
    BY <2>1, PutTree DEF LType
  <2> QED BY <1>1, <2>2, StageKeeps, SameTrees DEF CreateSelected, Stages
<1>2. CASE Review(k)
  <2>1. review' \in [Workers -> Reviews]
    BY <1>2, ReviewedType, SameTrees DEF Review
  <2> QED BY <1>2, <2>1 DEF Review, LType, LoopTypeOK, FirstSnap
<1>3. CASE RunInWorktree(k)
  <2> PICK p \in Paths, v \in Contents \cup {Absent} : tree' = [tree EXCEPT ![k][p] = v]
    BY <1>3 DEF RunInWorktree
  <2>1. tree' \in [Workers -> Trees]
    BY LoopFields, PutFile, PutTree DEF LType, LoopTypeOK
  <2> QED BY <1>3, <2>1, StageKeeps, SameTrees DEF RunInWorktree, Stages
<1>4. CASE RemoveWorktree(k)
  <2>1. tree' \in [Workers -> Trees]
    BY <1>4, NoTreeType, PutTree DEF RemoveWorktree, LType
  <2>2. review' \in [Workers -> Reviews]
    BY <1>4, SameTrees DEF RemoveWorktree, NoReview, Reviews
  <2>3. NoLoop("removed") \in Loops /\ NoLoop("removed").snaps = <<>>
    BY NoLoopType DEF Stages, NoLoop
  <2> QED BY <1>4, <2>1, <2>2, <2>3, LoopKeeps DEF RemoveWorktree
<1> QED BY <1>1, <1>2, <1>3, <1>4 DEF WorktreeCommand

LEMMA NextRound ==
  ASSUME LType, NEW k \in Workers, NEW s \in Stages, loop[k].round + 1 < MaxRounds
  PROVE  LET l == [loop[k] EXCEPT !.round = loop[k].round + 1, !.stage = s]
         IN  l \in Loops /\ l.snaps = loop[k].snaps
<1>1. loop[k].round + 1 \in 0..MaxRounds
  BY LoopFields, LoopAssumption DEF LType
<1> QED BY <1>1, LoopFields DEF LType, Loops

LEMMA ProposeType ==
  ASSUME LType, NEW k \in Workers, Propose(k) PROVE LType'
<1>1. CASE LoopStage(k, "choosing") \/ LoopStage(k, "reviewing")
  BY <1>1, StageKeeps, SameTrees DEF Propose, Stages
<1>2. CASE loop[k].round + 1 < MaxRounds /\ loop' = [loop EXCEPT ![k].round = @ + 1]
  <2> DEFINE l == [loop[k] EXCEPT !.round = loop[k].round + 1, !.stage = loop[k].stage]
  <2>1. l \in Loops /\ l.snaps = loop[k].snaps
    BY <1>2, NextRound, LoopFields DEF LType
  <2>2. l = [loop[k] EXCEPT !.round = loop[k].round + 1]
    BY LoopFields DEF LType, Loops
  <2>3. loop' = [loop EXCEPT ![k] = l]
    BY <1>2, <2>2 DEF LType, LoopTypeOK
  <2> HIDE DEF l
  <2> QED BY <2>1, <2>3, LoopKeeps, SameTrees DEF Propose
<1> QED BY <1>1, <1>2 DEF Propose

LEMMA NoneLeftType ==
  ASSUME LType, NEW k \in Workers, NoneLeft(k) PROVE LType'
<1>1. CASE LoopStage(k, "reviewing")
  BY <1>1, StageKeeps, SameTrees DEF NoneLeft, Stages
<1>2. CASE /\ loop[k].round + 1 < MaxRounds
           /\ loop' = [loop EXCEPT ![k].round = @ + 1, ![k].stage = "proposing"]
  <2> DEFINE l == [loop[k] EXCEPT !.round = loop[k].round + 1, !.stage = "proposing"]
  <2>1. l \in Loops /\ l.snaps = loop[k].snaps
    BY <1>2, NextRound DEF Stages
  <2>2. loop' = [loop EXCEPT ![k] = l]
    BY <1>2 DEF LType, LoopTypeOK
  <2> HIDE DEF l
  <2> QED BY <2>1, <2>2, LoopKeeps, SameTrees DEF NoneLeft
<1> QED BY <1>1, <1>2 DEF NoneLeft

LEMMA NamedPaths ==
  ASSUME NEW cand \in Seq(Edits) PROVE NamedIn(cand) \in SUBSET Paths
<1>1. ASSUME NEW i \in DOMAIN cand PROVE cand[i].path \in Paths
  <2>1. cand[i] \in Edits
    BY <1>1, InSeq
  <2> QED BY <2>1 DEF Edits
<1> QED BY <1>1 DEF NamedIn

\* What the visa leaves of a candidate are edits of the candidate.
LEMMA ApprovedEdits ==
  ASSUME NEW cand \in Seq(Edits), NEW t, NEW left \in Approvable(cand, t)
  PROVE  left \in Seq(Edits)
<1> DEFINE fit == {i \in DOMAIN cand :
                      /\ t[cand[i].path] \in cand[i].has
                      /\ \A j \in DOMAIN cand : cand[j] = cand[i] => j = i}
           Picks(n) == {f \in [1..n -> fit] : \A i, j \in 1..n : i < j => f[i] < f[j]}
<1>1. PICK n \in 1..Len(cand) : left \in {[i \in 1..n |-> cand[f[i]]] : f \in Picks(n)}
  BY DEF Approvable
<1>2. PICK f \in Picks(n) : left = [i \in 1..n |-> cand[f[i]]]
  BY <1>1
<1>3. f \in [1..n -> fit] /\ fit \subseteq DOMAIN cand
  OBVIOUS
<1> HIDE DEF fit
<1>4. ASSUME NEW i \in 1..n PROVE cand[f[i]] \in Edits
  <2>1. f[i] \in DOMAIN cand
    BY <1>3
  <2> QED BY <2>1, InSeq
<1>5. n \in Nat
  OBVIOUS
<1> QED BY <1>2, <1>4, <1>5

LEMMA ChooseType ==
  ASSUME LType, NEW k \in Workers, Choose(k) PROVE LType'
<1> PICK cand \in Candidates : \E left \in Approvable(cand, tree[k]) :
         loop' = [loop EXCEPT ![k].stage = "patching", ![k].cand = left, ![k].at = 1,
                     ![k].checkpoint = Snapshot(tree[k], NamedIn(left))]
  BY DEF Choose
<1> PICK left \in Approvable(cand, tree[k]) :
         loop' = [loop EXCEPT ![k].stage = "patching", ![k].cand = left, ![k].at = 1,
                     ![k].checkpoint = Snapshot(tree[k], NamedIn(left))]
  OBVIOUS
<1> DEFINE snap == Snapshot(tree[k], NamedIn(left))
           l == [loop[k] EXCEPT !.stage = "patching", !.cand = left, !.at = 1,
                                !.checkpoint = snap]
<1>0. left \in Seq(Edits)
  BY LoopAssumption, ApprovedEdits
<1>1. snap \in Checkpoints
  BY <1>0, NamedPaths, SnapshotType, LoopFields DEF LType
<1>2. loop' = [loop EXCEPT ![k] = l]
  BY DEF LType, LoopTypeOK
<1> HIDE DEF snap
<1>3. l \in Loops /\ l.snaps = loop[k].snaps
  BY <1>0, <1>1, LoopFields DEF LType, Loops, Stages
<1> HIDE DEF l
<1> QED BY <1>2, <1>3, LoopKeeps, SameTrees DEF Choose

LEMMA GiveUpType ==
  ASSUME LType, NEW k \in Workers, GiveUp(k), UNCHANGED review PROVE LType'
<1>1. tree' \in [Workers -> Trees]
  BY RestoredSnaps, PutTree DEF GiveUp, LType
<1> QED BY <1>1, StageKeeps, SameTrees DEF GiveUp, Stages

LEMMA AppendSnaps ==
  ASSUME NEW s \in Seq(Snapshots), NEW e \in Snapshots, HasFirst(s)
  PROVE  HasFirst(Append(s, e))
<1> SUFFICES ASSUME NEW p \in Paths
             PROVE  LET mine == {i \in DOMAIN Append(s, e) : Append(s, e)[i].path = p}
                    IN  mine = {} \/ \E i \in mine : \A j \in mine : i <= j
  BY DEF HasFirst
<1> DEFINE old == {i \in DOMAIN s : s[i].path = p}
           mine == {i \in DOMAIN Append(s, e) : Append(s, e)[i].path = p}
           n == Len(s) + 1
<1>1. /\ DOMAIN s = 1..Len(s) /\ Len(s) \in Nat
      /\ DOMAIN Append(s, e) = 1..n /\ Append(s, e)[n] = e
      /\ \A i \in DOMAIN s : Append(s, e)[i] = s[i]
  OBVIOUS
<1>2. old \subseteq mine /\ mine \subseteq old \cup {n}
  BY <1>1
<1>5. old = {} \/ \E i \in old : \A j \in old : i <= j
  BY DEF HasFirst
<1>3. CASE old = {}
  BY <1>1, <1>2, <1>3
<1>4. CASE \E i \in old : \A j \in old : i <= j
  <2> PICK i \in old : \A j \in old : i <= j
    BY <1>4
  <2>1. i \in mine /\ i <= n
    BY <1>1, <1>2
  <2> QED BY <2>1, <1>2
<1> QED BY <1>3, <1>4, <1>5

LEMMA ApplyEditType ==
  ASSUME LType, NEW k \in Workers, ApplyEdit(k) PROVE LType'
<1> DEFINE edit == loop[k].cand[loop[k].at]
           text == tree[k][edit.path]
           snap == [path |-> edit.path, text |-> text]
<1>1. CASE GiveUp(k)
  BY <1>1, GiveUpType DEF ApplyEdit
<1>2. CASE LoopStage(k, "restoring") /\ UNCHANGED tree
  BY <1>2, StageKeeps, SameTrees DEF ApplyEdit, Stages
<1>3. CASE /\ text \in DOMAIN edit.to
           /\ tree' = [tree EXCEPT ![k][edit.path] = edit.to[text]]
           /\ loop' = [loop EXCEPT ![k].at = @ + 1, ![k].snaps = Append(@, snap)]
  <2>1. edit \in Edits
    BY LoopFields, InSeq DEF LType, ApplyEdit
  <2> HIDE DEF edit
  <2>0. text \in Contents /\ edit.to[text] \in Contents /\ edit.path \in Paths
    BY <1>3, <2>1 DEF Edits
  <2>2. snap \in Snapshots
    BY <2>0 DEF Snapshots
  <2>3. tree' \in [Workers -> Trees]
    <3>1. [tree[k] EXCEPT ![edit.path] = edit.to[text]] \in Trees
      BY <2>0, LoopFields, PutFile DEF LType
    <3>2. tree' = [tree EXCEPT ![k] = [tree[k] EXCEPT ![edit.path] = edit.to[text]]]
      BY <1>3 DEF edit, LType, LoopTypeOK
    <3> QED BY <3>1, <3>2, PutTree DEF LType
  <2> HIDE DEF snap
  <2> DEFINE snaps == Append(loop[k].snaps, snap)
             l == [loop[k] EXCEPT !.at = loop[k].at + 1, !.snaps = snaps]
  <2>4. snaps \in Seq(Snapshots) /\ loop[k].at + 1 \in Nat
    BY <2>2, LoopFields DEF LType
  <2>5. loop' = [loop EXCEPT ![k] = l]
    BY <1>3 DEF LType, LoopTypeOK
  <2>6. HasFirst(snaps)
    BY <2>2, LoopFields, AppendSnaps DEF LType, FirstSnap
  <2> HIDE DEF snaps
  <2>7. l \in Loops /\ l.snaps = snaps
    BY <2>4, LoopFields DEF LType, Loops
  <2>8. loop'[k] = l /\ \A j \in Workers : j # k => loop'[j] = loop[j]
    BY <2>5 DEF LType, LoopTypeOK
  <2> HIDE DEF l
  <2>9. FirstSnap(k)'
    BY <2>6, <2>7, <2>8 DEF FirstSnap
  <2>10. ASSUME NEW j \in Workers, j # k PROVE FirstSnap(j)'
    BY <2>8, <2>10 DEF FirstSnap, LType
  <2> QED BY <2>3, <2>5, <2>7, <2>9, <2>10, PutLoop, SameTrees DEF ApplyEdit, LType, LoopTypeOK
<1> QED BY <1>1, <1>2, <1>3 DEF ApplyEdit

LEMMA RestoreCandidateType ==
  ASSUME LType, NEW k \in Workers, RestoreCandidate(k) PROVE LType'
<1> DEFINE l == [NoLoop("choosing") EXCEPT !.round = loop[k].round, !.base = loop[k].base]
<1>1. NoLoop("choosing") \in Loops /\ NoLoop("choosing").snaps = <<>>
  BY NoLoopType DEF Stages, NoLoop
<1>2. l \in Loops /\ l.snaps = <<>>
  BY <1>1, LoopFields DEF LType, Loops
<1>3. tree' \in [Workers -> Trees]
  BY LoopFields, RestoredType, PutTree DEF RestoreCandidate, LType
<1> HIDE DEF l
<1>4. loop' = [loop EXCEPT ![k] = l]
  BY DEF RestoreCandidate, l
<1> QED BY <1>2, <1>3, <1>4, LoopKeeps, SameTrees DEF RestoreCandidate

LEMMA LoopStepType ==
  ASSUME LType, FilesTypeOK, NEW k \in Workers, LoopStep(k) PROVE LType'
<1>1. CASE RunTargetedTests(k)
  BY <1>1, GiveUpType, StageKeeps, SameTrees DEF RunTargetedTests, Stages
<1>2. CASE RunFullTests(k)
  <2>1. CASE LoopStage(k, "restoring")
    BY <1>2, <2>1, StageKeeps, SameTrees DEF RunFullTests, Stages
  <2>2. CASE loop' = [loop EXCEPT ![k].stage = "reviewing", ![k].ok = TRUE]
    <3> DEFINE l == [loop[k] EXCEPT !.stage = "reviewing", !.ok = TRUE]
    <3>1. l \in Loops /\ l.snaps = loop[k].snaps
      BY LoopFields DEF LType, Loops, Stages
    <3>2. loop' = [loop EXCEPT ![k] = l]
      BY <2>2 DEF LType, LoopTypeOK
    <3> HIDE DEF l
    <3> QED BY <1>2, <3>1, <3>2, LoopKeeps, SameTrees DEF RunFullTests
  <2> QED BY <1>2, <2>1, <2>2 DEF RunFullTests
<1>3. CASE FinishLoop(k)
  <2>1. review' \in [Workers -> Reviews]
    BY <1>3, ReviewedType, SameTrees DEF FinishLoop
  <2>2. PICK s \in {"passed", "failed"} : LoopStage(k, s)
    BY <1>3 DEF FinishLoop
  <2> QED BY <1>3, <2>1, <2>2, StageKeeps, SameTrees DEF FinishLoop, Stages
<1> QED BY <1>1, <1>2, <1>3, CopyFileType, ProposeType, ChooseType, NoneLeftType,
           ApplyEditType, RestoreCandidateType DEF LoopStep

---------------------------------------------------------------------------
(* Types of gated applies.                                                 *)

GType == gate \in [Appliers -> Gates]

\* What is still to be rolled back was saved.
LeftSaved ==
    \A g \in Appliers : gate[g].stage = "rolling back" => gate[g].left \subseteq DOMAIN saved[g]

AllType == FilesTypeOK /\ LType /\ GType /\ LeftSaved

LEMMA GateFields ==
  ASSUME GType, NEW g \in Appliers
  PROVE  /\ gate[g] \in Gates /\ gate[g].of \in Workers
         /\ gate[g].put \in SUBSET Paths /\ gate[g].gone \in SUBSET Paths
         /\ gate[g].left \in SUBSET Paths
         /\ gate[g].gated \in BOOLEAN /\ gate[g].fresh \in BOOLEAN
  BY DEF GType, Gates

LEMMA NoGateType == NoGate \in Gates
  BY SomeWorker DEF NoGate, Gates, Closed

LEMMA GateStageType ==
  ASSUME GType, NEW g \in Appliers, NEW s, GateStage(g, s),
         s \in Closed \cup {"allowed", "loading", "copying", "testing", "rolling back"}
  PROVE  /\ GType' /\ gate'[g] = [gate[g] EXCEPT !.stage = s]
         /\ \A h \in Appliers : h # g => gate'[h] = gate[h]
  BY DEF GType, GateStage, Gates

LEMMA PutGate ==
  ASSUME GType, NEW g \in Appliers, NEW r \in Gates, gate' = [gate EXCEPT ![g] = r]
  PROVE  /\ GType' /\ gate'[g] = r
         /\ \A h \in Appliers : h # g => gate'[h] = gate[h]
  BY DEF GType

\* A step of g that leaves the others' checkpoints keeps LeftSaved.
LEMMA OthersLeft ==
  ASSUME LeftSaved, NEW g \in Appliers,
         \A h \in Appliers : h # g => gate'[h] = gate[h] /\ saved'[h] = saved[h],
         gate'[g].stage = "rolling back" => gate'[g].left \subseteq DOMAIN saved'[g]
  PROVE  LeftSaved'
  BY DEF LeftSaved

LEMMA SavedByWatch ==
  ASSUME FilesTypeOK, NEW w \in Actors, NEW snap, Watch(w, snap)
  PROVE  saved'[w] = snap /\ \A u \in Actors : u # w => saved'[u] = saved[u]
  BY DEF FilesTypeOK, Watch

LEMMA SavedByForget ==
  ASSUME FilesTypeOK, NEW w \in Actors, Forget(w)
  PROVE  saved'[w] = NoFiles /\ \A u \in Actors : u # w => saved'[u] = saved[u]
  BY DEF FilesTypeOK, Forget

LEMMA SameLoops == LType /\ UNCHANGED loopVars => LType'
  BY DEF LType, LoopTypeOK, FirstSnap, loopVars

LEMMA OpenGateType ==
  ASSUME AllType, NEW g \in Appliers, NEW k \in Workers,
         Evaluate(g, k) \/ ApplyByHand(g, k)
  PROVE  AllType'
<1> g \in Actors
  BY GateAssumption
<1>1. FilesTypeOK' /\ LType'
  BY ForgetType, SameLoops DEF AllType, Evaluate, ApplyByHand
<1>2. review[k].put \in SUBSET Paths /\ review[k].gone \in SUBSET Paths
  BY DEF AllType, LType, LoopTypeOK, Reviews
<1>3. PICK r \in Gates : gate' = [gate EXCEPT ![g] = r] /\ r.stage # "rolling back"
  <2>1. CASE gate' = [gate EXCEPT ![g] = [NoGate EXCEPT !.stage = "blocked"]]
    <3>1. [NoGate EXCEPT !.stage = "blocked"] \in Gates
      BY NoGateType DEF Gates, Closed
    <3> QED BY <2>1, <3>1, NoGateType DEF Gates
  <2>2. CASE gate' = [gate EXCEPT ![g] = [NoGate EXCEPT !.stage = "allowed", !.of = k,
                 !.put = review[k].put, !.gone = review[k].gone, !.gated = TRUE]]
    <3>1. [NoGate EXCEPT !.stage = "allowed", !.of = k,
                 !.put = review[k].put, !.gone = review[k].gone, !.gated = TRUE] \in Gates
      BY NoGateType, <1>2 DEF Gates, Closed
    <3> QED BY <2>2, <3>1, NoGateType DEF Gates
  <2>3. CASE gate' = [gate EXCEPT ![g] = [NoGate EXCEPT !.stage = "loading", !.of = k,
                   !.put = review[k].put, !.gone = review[k].gone]]
    <3>1. [NoGate EXCEPT !.stage = "loading", !.of = k,
                   !.put = review[k].put, !.gone = review[k].gone] \in Gates
      BY NoGateType, <1>2 DEF Gates, Closed
    <3> QED BY <2>3, <3>1, NoGateType DEF Gates
  <2> QED BY <2>1, <2>2, <2>3 DEF Evaluate, ApplyByHand
<1>4. /\ GType' /\ gate'[g] = r
      /\ \A h \in Appliers : h # g => gate'[h] = gate[h]
  BY <1>3, PutGate DEF AllType
<1>5. \A h \in Appliers : h # g => saved'[h] = saved[h]
  BY SavedByForget, GateAssumption DEF AllType, Evaluate, ApplyByHand
<1>6. LeftSaved'
  BY <1>3, <1>4, <1>5, OthersLeft DEF AllType
<1> QED BY <1>1, <1>4, <1>6 DEF AllType

\* Steps that write one file, or none, and take that file off the list.
LEMMA DoneType ==
  ASSUME AllType, NEW g \in Appliers, NEW p, Done(g, p)
  PROVE  /\ GType' /\ gate'[g] = [gate[g] EXCEPT !.left = gate[g].left \ {p}]
         /\ \A h \in Appliers : h # g => gate'[h] = gate[h]
<1>1. [gate[g] EXCEPT !.left = gate[g].left \ {p}] \in Gates
  BY GateFields DEF AllType, Gates
<1>2. gate' = [gate EXCEPT ![g] = [gate[g] EXCEPT !.left = gate[g].left \ {p}]]
  BY DEF Done, AllType, GType
<1> QED BY <1>1, <1>2, PutGate DEF AllType

LEMMA PutFileType ==
  ASSUME AllType, NEW g \in Appliers, NEW p \in Paths, NEW v \in Contents \cup {Absent},
         Done(g, p), Write(g, p, v), UNCHANGED loopVars
  PROVE  AllType'
<1>1. FilesTypeOK' /\ LType' /\ saved' = saved
  BY WriteType, SameLoops, GateAssumption DEF AllType, Write
<1>2. gate'[g].stage = gate[g].stage /\ gate'[g].left \subseteq gate[g].left
  <2>1. gate'[g] = [gate[g] EXCEPT !.left = gate[g].left \ {p}]
    BY DoneType
  <2>2. gate[g] \in Gates
    BY GateFields DEF AllType
  <2> QED BY <2>1, <2>2 DEF Gates
<1>3. LeftSaved'
  BY <1>1, <1>2, DoneType DEF LeftSaved, AllType
<1> QED BY <1>1, <1>3, DoneType DEF AllType

LEMMA StageTypes ==
  ASSUME AllType, NEW g \in Appliers, NEW s, GateStage(g, s),
         s \in Closed \cup {"allowed", "loading", "copying", "testing"},
         UNCHANGED fileVars, LType'
  PROVE  AllType'
<1>1. /\ GType' /\ gate'[g].stage = s
      /\ \A h \in Appliers : h # g => gate'[h] = gate[h]
  <2>1. s \in Closed \cup {"allowed", "loading", "copying", "testing", "rolling back"}
    OBVIOUS
  <2>2. /\ GType' /\ gate'[g] = [gate[g] EXCEPT !.stage = s]
        /\ \A h \in Appliers : h # g => gate'[h] = gate[h]
    BY <2>1, GateStageType DEF AllType
  <2>3. gate[g] \in Gates
    BY GateFields DEF AllType
  <2> QED BY <2>2, <2>3 DEF Gates
<1>2. FilesTypeOK' /\ saved' = saved
  BY SameFilesType DEF AllType, fileVars
<1>3. s # "rolling back"
  BY DEF Closed
<1>4. LeftSaved'
  BY <1>1, <1>2, <1>3, OthersLeft DEF AllType
<1> QED BY <1>1, <1>2, <1>4 DEF AllType

LEMMA CheckpointChangedType ==
  ASSUME AllType, NEW g \in Appliers, CheckpointChanged(g) PROVE AllType'
<1> g \in Actors
  BY GateAssumption
<1> DEFINE S == gate[g].put \cup gate[g].gone
           fresh == start[gate[g].of] # NoFiles /\ foreign[gate[g].of] = {}
           r == [gate[g] EXCEPT !.stage = "loading", !.fresh = fresh]
<1>1. Snapshot(project, S) \in Checkpoints
  BY SnapshotType, GateFields DEF AllType, FilesTypeOK
<1>2. FilesTypeOK' /\ \A u \in Actors : u # g => saved'[u] = saved[u]
  BY <1>1, WatchType, SavedByWatch DEF CheckpointChanged, TakeCheckpoint, AllType
<1>3. fresh \in BOOLEAN
  OBVIOUS
<1>4. gate' = [gate EXCEPT ![g] = r]
  BY DEF CheckpointChanged, AllType, GType
<1> HIDE DEF fresh
<1>5. r \in Gates /\ r.stage # "rolling back"
  BY <1>3, GateFields DEF AllType, Gates
<1> HIDE DEF r
<1>6. /\ GType' /\ gate'[g] = r
      /\ \A h \in Appliers : h # g => gate'[h] = gate[h]
  BY <1>4, <1>5, PutGate DEF AllType
<1>7. LeftSaved'
  BY <1>2, <1>5, <1>6, OthersLeft, GateAssumption DEF AllType
<1> QED BY <1>2, <1>6, <1>7, SameLoops DEF CheckpointChanged, AllType

LEMMA GateStepType ==
  ASSUME AllType, NEW g \in Appliers, GateStep(g) PROVE AllType'
<1> g \in Actors
  BY GateAssumption
<1> DEFINE k == gate[g].of
<1> k \in Workers
  BY GateFields DEF AllType
<1>1. CASE CheckpointChanged(g)
  BY <1>1, CheckpointChangedType
<1>2. CASE LoadReview(g)
  <2>1. CASE GateStage(g, "raised")
    BY <1>2, <2>1, StageTypes, SameLoops DEF LoadReview, AllType, Closed
  <2>2. CASE gate' = [gate EXCEPT ![g].stage = "copying", ![g].left = gate[g].put \cup gate[g].gone]
    <3> DEFINE r == [gate[g] EXCEPT !.stage = "copying", !.left = gate[g].put \cup gate[g].gone]
    <3>1. r \in Gates /\ r.stage # "rolling back"
      BY GateFields DEF AllType, Gates
    <3>2. gate' = [gate EXCEPT ![g] = r]
      BY <2>2 DEF AllType, GType
    <3> HIDE DEF r
    <3>3. /\ GType' /\ gate'[g] = r
          /\ \A h \in Appliers : h # g => gate'[h] = gate[h]
      BY <3>1, <3>2, PutGate DEF AllType
    <3>4. FilesTypeOK' /\ LType' /\ saved' = saved
      BY <1>2, SameFilesType, SameLoops DEF LoadReview, AllType, fileVars
    <3>5. LeftSaved'
      BY <3>1, <3>3, <3>4, OthersLeft DEF AllType
    <3> QED BY <3>3, <3>4, <3>5 DEF AllType
  <2> QED BY <1>2, <2>1, <2>2 DEF LoadReview
<1>3. CASE CopyChanged(g)
  <2> PICK p \in gate[g].put \cap gate[g].left :
           LET text == tree[gate[g].of][p] IN
           \/ text = Absent /\ GateStage(g, "raised") /\ UNCHANGED fileVars
           \/ text # Absent /\ Done(g, p) /\ Write(g, p, text)
    BY <1>3 DEF CopyChanged
  <2>1. p \in Paths /\ tree[k][p] \in Contents \cup {Absent}
    BY GateFields, LoopFields, ReadFile DEF AllType, LType
  <2>2. CASE GateStage(g, "raised") /\ UNCHANGED fileVars
    BY <1>3, <2>2, StageTypes, SameLoops DEF CopyChanged, AllType, Closed
  <2>3. CASE Done(g, p) /\ Write(g, p, tree[k][p])
    BY <1>3, <2>1, <2>3, PutFileType DEF CopyChanged
  <2> QED BY <2>2, <2>3
<1>4. CASE UnlinkDeleted(g)
  <2> PICK p \in gate[g].left : Done(g, p) /\ Write(g, p, Absent)
    BY <1>4 DEF UnlinkDeleted
  <2>1. p \in Paths
    BY GateFields DEF AllType
  <2> QED BY <1>4, <2>1, PutFileType DEF UnlinkDeleted
<1>5. CASE FinishApply(g)
  <2>1. review' \in [Workers -> Reviews]
    BY <1>5, GateFields DEF FinishApply, AllType, LType, LoopTypeOK, Reviews
  <2>2. LType'
    BY <1>5, <2>1 DEF FinishApply, AllType, LType, LoopTypeOK, FirstSnap
  <2> QED BY <1>5, <2>2, StageTypes DEF FinishApply, Closed
<1>6. CASE RunTests(g)
  <2>1. CASE GateStage(g, "passed") \/ GateStage(g, "kept")
    BY <1>6, <2>1, StageTypes, SameLoops DEF RunTests, AllType, Closed
  <2>2. CASE gate' = [gate EXCEPT ![g].stage = "rolling back", ![g].left = DOMAIN saved[g]]
    <3> DEFINE r == [gate[g] EXCEPT !.stage = "rolling back", !.left = DOMAIN saved[g]]
    <3>0. DOMAIN saved[g] \subseteq Paths
      BY CheckpointType DEF AllType, FilesTypeOK
    <3>1. r \in Gates /\ r.left = DOMAIN saved[g]
      BY <3>0, GateFields DEF AllType, Gates
    <3>2. gate' = [gate EXCEPT ![g] = r]
      BY <2>2 DEF AllType, GType
    <3> HIDE DEF r
    <3>3. /\ GType' /\ gate'[g] = r
          /\ \A h \in Appliers : h # g => gate'[h] = gate[h]
      BY <3>1, <3>2, PutGate DEF AllType
    <3>4. FilesTypeOK' /\ LType' /\ saved' = saved
      BY <1>6, SameFilesType, SameLoops DEF RunTests, AllType, fileVars
    <3>5. LeftSaved'
      BY <3>1, <3>3, <3>4, OthersLeft DEF AllType
    <3> QED BY <3>3, <3>4, <3>5 DEF AllType
  <2> QED BY <1>6, <2>1, <2>2 DEF RunTests
<1>7. CASE RollBackFile(g)
  <2> PICK p \in gate[g].left : Done(g, p) /\ Write(g, p, saved[g][p])
    BY <1>7 DEF RollBackFile
  <2>1. p \in Paths /\ p \in DOMAIN saved[g]
    BY <1>7, GateFields DEF AllType, LeftSaved, RollBackFile
  <2>2. saved[g][p] \in Contents \cup {Absent}
    BY <2>1, CheckpointType DEF AllType, FilesTypeOK
  <2> QED BY <1>7, <2>1, <2>2, PutFileType DEF RollBackFile
<1>8. CASE EndRollBack(g)
  BY <1>8, StageTypes, SameLoops DEF EndRollBack, AllType, Closed
<1> QED BY <1>1, <1>2, <1>3, <1>4, <1>5, <1>6, <1>7, <1>8 DEF GateStep

---------------------------------------------------------------------------
(* Types of the whole.                                                     *)

BType == budget \in [Starts -> Nat]
SType == seen \in [Checkers -> BOOLEAN]

TypeInv == AllType /\ AType /\ LooksUp /\ CType /\ BType

LEMMA SpendType ==
  ASSUME BType, NEW what \in Starts, Spend(what) PROVE BType'
  BY DEF BType, Spend

LEMMA DecisionType ==
  ASSUME AType, LooksUp, NEW f \in Fingerprints, Approve(f) \/ Deny(f)
  PROVE  AType' /\ LooksUp'
<1>1. rows' \in [Fingerprints -> Rows]
  BY DEF AType, Approve, Deny, Decide, Rows, Statuses
<1>2. granted' \in [Fingerprints -> BOOLEAN] /\ UNCHANGED <<now, check>>
  BY DEF AType, Approve, Deny
<1> QED BY <1>1, <1>2 DEF AType, LooksUp

LEMMA TickType ==
  ASSUME AType, LooksUp, Tick PROVE AType' /\ LooksUp'
<1>1. now' \in 0..MaxTime
  BY ApprovalsAssumption DEF AType, Tick
<1> QED BY <1>1 DEF AType, LooksUp, Tick

LEMMA WitnessType ==
  ASSUME Witness PROVE SType'
<1>1. ASSUME NEW c \in Checkers
      PROVE  ( /\ check'[c].step # "idle"
               /\ \/ seen[c]
                  \/ check[c].step # "decided"
                     /\ Live(rows'[check'[c].fp], granted'[check'[c].fp], now') ) \in BOOLEAN
  OBVIOUS
<1> QED BY <1>1 DEF SType, Witness

\* A call changes no checkpoint but its own, and so does a loop.
LEMMA CallSaved ==
  ASSUME FilesTypeOK, NEW c \in Calls, CallStep(c) \/ \E i \in Invocations : StartCall(c, i)
  PROVE  \A u \in Actors : u # c => saved'[u] = saved[u]
<1> c \in Actors
  BY ToolAssumption
<1>1. CASE \E i \in Invocations : StartCall(c, i)
  BY <1>1, SavedByForget DEF StartCall
<1>2. CASE CheckpointBeforeTool(c)
  BY <1>2, SavedByWatch DEF CheckpointBeforeTool, TakeCheckpoint, fileVars
<1>3. CASE EnforceTool(c) \/ EnsureApproval(c) \/ Gate(c) \/ EndHandler(c)
  BY <1>3 DEF EnforceTool, EnsureApproval, Gate, EndHandler, fileVars
<1>4. CASE WriteFile(c)
  BY <1>4 DEF WriteFile, Write, fileVars
<1> QED BY <1>1, <1>2, <1>3, <1>4 DEF CallStep

LEMMA LoopFiles ==
  ASSUME FilesTypeOK, NEW k \in Workers,
         CreateWorktree(k) \/ LoopStep(k) \/ WorktreeCommand(k)
  PROVE  FilesTypeOK' /\ \A u \in Actors : u # k => saved'[u] = saved[u]
<1> k \in Actors
  BY LoopAssumption
<1>1. CASE CreateWorktree(k)
  BY <1>1, WatchType, NoFilesType, SavedByWatch DEF CreateWorktree
<1>2. CASE LoopStep(k) \/ WorktreeCommand(k)
  <2>1. UNCHANGED fileVars
    BY <1>2 DEF LoopStep, WorktreeCommand, CopyFile, Propose, Choose, NoneLeft, ApplyEdit,
       RunTargetedTests, RunFullTests, RestoreCandidate, FinishLoop,
       CreateSelected, Review, RunInWorktree, RemoveWorktree
  <2> QED BY <2>1, SameFilesType DEF fileVars
<1> QED BY <1>1, <1>2

LEMMA SavedElsewhere ==
  ASSUME LeftSaved, UNCHANGED gate, NEW w, w \notin Appliers,
         \A u \in Actors : u # w => saved'[u] = saved[u]
  PROVE  LeftSaved'
  BY GateAssumption DEF LeftSaved

LEMMA TypeInit == EInit => TypeInv /\ SType
<1> SUFFICES ASSUME EInit PROVE TypeInv /\ SType
  OBVIOUS
<1> USE DEF EInit, ToolInit, LoopInit
<1>1. FilesTypeOK
  <2>1. {} \in SUBSET Paths /\ NoFiles \in Trees \cup {NoFiles}
    OBVIOUS
  <2> QED BY <2>1, NoFilesType DEF FilesInit, FilesTypeOK
<1>2. LType
  <2>1. LoopTypeOK
    BY NoTreeType, NoLoopType DEF LoopTypeOK, Stages, NoReview, Reviews
  <2>2. ASSUME NEW k \in Workers PROVE loop[k].snaps = <<>>
    BY DEF NoLoop
  <2>3. ASSUME NEW k \in Workers PROVE FirstSnap(k)
    BY <2>2 DEF FirstSnap, HasFirst
  <2> QED BY <2>1, <2>3 DEF LType
<1>3. GType /\ LeftSaved
  BY NoGateType DEF GType, LeftSaved, NoGate
<1>4. AType /\ LooksUp
  <2>1. NoRow \in Rows /\ 0 \in 0..MaxTime
    BY ApprovalsAssumption DEF NoRow, Rows, Statuses
  <2>2. NoCheck.step = "idle"
    BY DEF NoCheck
  <2> QED BY <2>1, <2>2, NoCheckType DEF ApprovalsInit, AType, LooksUp
<1>5. CType
  BY NoCallType DEF CType
<1>6. BType
  BY SystemAssumption DEF BType
<1>7. SType
  BY DEF ApprovalsInit, SType
<1> QED BY <1>1, <1>2, <1>3, <1>4, <1>5, <1>6, <1>7 DEF TypeInv, AllType

LEMMA TypeStep == TypeInv /\ [ENext]_eVars => TypeInv'
<1> SUFFICES ASSUME TypeInv, [ENext]_eVars PROVE TypeInv'
  OBVIOUS
<1> USE DEF TypeInv
<1>1. CASE UNCHANGED eVars
  <2>1. FilesTypeOK' /\ AType' /\ LooksUp' /\ LType'
    BY <1>1, SameFilesType, SameApprovals, SameLoops DEF eVars, AllType
  <2> QED BY <1>1, <2>1 DEF eVars, AllType, GType, LeftSaved, CType, BType, fileVars
<1>2. ASSUME NEW c \in Calls, Tool(c) PROVE TypeInv'
  <2>1. CallStep(c) \/ \E i \in Invocations : StartCall(c, i)
    BY <1>2 DEF Tool
  <2>2. ToolType
    BY DEF AllType, ToolType
  <2>3. ToolType'
    BY <2>1, <2>2, CallStepType, StartCallType
  <2>4. LeftSaved'
    <3>1. \A u \in Actors : u # c => saved'[u] = saved[u]
      BY <2>1, CallSaved DEF AllType
    <3>2. c \notin Appliers
      BY SystemAssumption
    <3> QED BY <1>2, <3>1, <3>2, SavedElsewhere DEF AllType, Tool
  <2>5. BType'
    BY <1>2, SpendType DEF Tool, BType, Starts
  <2> QED BY <1>2, <2>3, <2>4, <2>5, SameLoops DEF Tool, ToolType, AllType, GType
<1>3. ASSUME NEW k \in Workers, Loop(k) PROVE TypeInv'
  <2>1. CreateWorktree(k) \/ LoopStep(k) \/ WorktreeCommand(k)
    BY <1>3 DEF Loop
  <2>2. FilesTypeOK' /\ \A u \in Actors : u # k => saved'[u] = saved[u]
    BY <2>1, LoopFiles DEF AllType
  <2>3. LType'
    BY <2>1, CreateWorktreeType, LoopStepType, WorktreeCommandType DEF AllType
  <2>4. LeftSaved'
    <3>1. k \notin Appliers
      BY SystemAssumption
    <3> QED BY <1>3, <2>2, <3>1, SavedElsewhere DEF AllType, Loop
  <2>5. BType'
    BY <1>3, SpendType DEF Loop, BType, Starts
  <2> QED BY <1>3, <2>2, <2>3, <2>4, <2>5, SameApprovals DEF Loop, AllType, CType, GType
<1>4. ASSUME NEW g \in Appliers, Apply(g) PROVE TypeInv'
  <2>1. AllType'
    BY <1>4, OpenGateType, GateStepType DEF Apply
  <2>2. BType'
    BY <1>4, SpendType DEF Apply, BType, Starts
  <2> QED BY <1>4, <2>1, <2>2, SameApprovals DEF Apply, CType
<1>5. ASSUME NEW w \in Actors, Restore(w) PROVE TypeInv'
  <2>1. FilesTypeOK' /\ UNCHANGED saved
    BY <1>5, RestoreType DEF Restore, RestoreCommand, AllType
  <2>2. BType'
    BY <1>5, SpendType DEF Restore, Starts
  <2> QED BY <1>5, <2>1, <2>2, SameApprovals, SameLoops DEF Restore, AllType, CType, GType, LeftSaved
<1>6. CASE Decision
  <2>1. AType' /\ LooksUp'
    BY <1>6, DecisionType DEF Decision
  <2>2. BType'
    BY <1>6, SpendType DEF Decision, Starts
  <2> QED BY <1>6, <2>1, <2>2, SameFilesType, SameLoops
          DEF Decision, AllType, CType, GType, LeftSaved, fileVars
<1>7. CASE Time
  <2>1. AType' /\ LooksUp'
    BY <1>7, TickType DEF Time
  <2>2. BType'
    BY <1>7, SpendType DEF Time, Starts
  <2> QED BY <1>7, <2>1, <2>2, SameFilesType, SameLoops
          DEF Time, AllType, CType, GType, LeftSaved, fileVars
<1> QED BY <1>1, <1>2, <1>3, <1>4, <1>5, <1>6, <1>7 DEF ENext

LEMMA SeenStep == SType /\ [ENext]_eVars => SType'
  BY WitnessType DEF ENext, eVars, SType

\* Every file, checkpoint, approval, call, worktree and gate stays of its
\* type, whatever execute_tool, the repair loops and the gated applies do.
THEOREM ESystemType == ESpec => []ETypeOK
<1>1. TypeInv /\ SType => ETypeOK
  BY DEF TypeInv, SType, AllType, AType, CType, LType, GType, BType,
         ETypeOK, ToolTypeOK, ApprovalsTypeOK
<1> QED BY <1>1, TypeInit, TypeStep, SeenStep, PTL DEF ESpec
===========================================================================
