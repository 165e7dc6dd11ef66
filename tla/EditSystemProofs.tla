------------------------- MODULE EditSystemProofs -------------------------
(***************************************************************************)
(* The safety of EditSystem for every instance, along four invariants:     *)
(*   ApprovalInv: a row says approved only while the operator's last word  *)
(*       is a grant, and a check may allow only what it read in time;      *)
(*   FilesInv: whoever has a checkpoint writes only files that are in it;  *)
(*   LoopInv: what a worktree holds at every stage of its loop;            *)
(*   DeliveryInv: while nobody else writes, the project stays what the     *)
(*       worktree was copied from, so that a review is the repair and a    *)
(*       gate has put in place what it is done with.                       *)
(* FilesInv speaks of others through what they leave in foreign: the steps *)
(* of an actor are summed up once (FileEffect) and seen by all (Noticed).  *)
(***************************************************************************)
EXTENDS EditTypeProofs

---------------------------------------------------------------------------
(* Approvals.                                                              *)

\* A row says approved only while the operator's last word is a grant.
Kept == \A f \in Fingerprints : rows[f].status = "approved" => granted[f]

\* What a check that may still allow has read was granted and in time.
Timely(c) ==
    /\ /\ \/ check[c].step \in {"expire", "expire again"}
          \/ check[c].step = "expire found" /\ check[c].id = check[c].fp
       /\ check[c].read.status = "approved" /\ ~Lapsed(check[c].read)
       => seen[c]
    /\ check[c].step = "decided" /\ check[c].allowed => seen[c]

\* A handler that was let through under ask still holds its decided check.
LetThrough(c) ==
    call[c].stage \in {"ready", "running"} =>
        /\ call[c].action # "deny"
        /\ call[c].action = "ask" =>
               /\ check[c].step = "decided"
               /\ call[c].owner \/ call[c].inv \in Guarded \/ check[c].allowed

ApprovalInv ==
    /\ Kept
    /\ \A c \in Checkers : Timely(c)
    /\ \A c \in Calls : LetThrough(c)

LEMMA CheckFields ==
  ASSUME AType, NEW c \in Checkers
  PROVE  /\ check[c] \in Checks /\ check[c].fp \in Fingerprints
         /\ check[c].read \in Rows /\ check[c].read.expires \in Nat
         /\ rows[check[c].fp] \in Rows /\ rows[check[c].fp].expires \in Nat
         /\ check[c].allowed \in BOOLEAN /\ check[c].expires \in 0..MaxTime
         /\ now \in Nat
  BY DEF AType, Checks, Rows

LEMMA SeenStays ==
  ASSUME Witness, NEW c \in Checkers, seen[c], check'[c].step # "idle" PROVE seen'[c]
  BY DEF Witness

\* What is granted and has not lapsed after a step is seen by a check that
\* was not decided before it.
LEMMA SeenNow ==
  ASSUME Witness, AType', NEW c \in Checkers, check'[c].step # "idle", check[c].step # "decided",
         granted'[check'[c].fp], ~Lapsed(rows[check[c].fp])'
  PROVE  seen'[c]
<1>1. rows'[check'[c].fp].expires \in Nat /\ now' \in Nat
  BY DEF AType, Checks, Rows
<1>2. Live(rows'[check'[c].fp], granted'[check'[c].fp], now')
  BY <1>1 DEF Live, Lapsed
<1> QED BY <1>2 DEF Witness

LEMMA OtherTimely ==
  ASSUME AType, AType', Witness, NEW c \in Checkers, Timely(c),
         check'[c] = check[c], now <= now'
  PROVE  Timely(c)'
<1>1. check[c].read.expires \in Nat /\ now \in Nat /\ now' \in Nat
  BY CheckFields DEF AType
<1>2. ~Lapsed(check[c].read)' => ~Lapsed(check[c].read)
  BY <1>1 DEF Lapsed
<1>3. check[c].step # "idle" /\ seen[c] => seen'[c]
  BY SeenStays
<1> QED BY <1>2, <1>3 DEF Timely

LEMMA KeptStep ==
  ASSUME AType, LooksUp, Kept, NEW c \in Checkers, CheckStep(c) PROVE Kept'
<1>1. CASE Create(c) \/ CreateDenied(c)
  <2> PICK s \in {"pending", "denied"} : CreateOrGet(c, s)
    BY <1>1 DEF Create, CreateDenied
  <2>1. rows' = [rows EXCEPT ![check[c].fp] = Upserted(rows[check[c].fp], s, check[c].expires)]
        /\ granted' = granted
    BY DEF CreateOrGet
  <2>2. Upserted(rows[check[c].fp], s, check[c].expires).status = "approved"
        => rows[check[c].fp].status = "approved"
    BY DEF Upserted
  <2> QED BY <2>1, <2>2, CheckFields DEF Kept, AType
<1>2. CASE Lookup(c)
  BY <1>2 DEF Lookup, Kept
<1>3. CASE ExpireIfNeeded(c)
  <2>1. granted' = granted /\ (UNCHANGED rows \/ Decide(Found(c), "expired"))
    BY <1>3 DEF ExpireIfNeeded
  <2> QED BY <2>1, FoundType DEF Kept, Decide, AType, Rows
<1> QED BY <1>1, <1>2, <1>3 DEF CheckStep

LEMMA TimelyStep ==
  ASSUME AType, LooksUp, AType', Kept', Witness, NEW c \in Checkers, Timely(c), CheckStep(c)
  PROVE  Timely(c)'
<1>0. now' = now /\ check[c].fp \in Fingerprints
  BY CheckFields DEF CheckStep, Create, CreateDenied, CreateOrGet, Lookup, ExpireIfNeeded
<1>1. CASE Create(c) \/ CreateDenied(c)
  <2> PICK s \in {"pending", "denied"} : CreateOrGet(c, s)
    BY <1>1 DEF Create, CreateDenied
  <2> DEFINE row == Upserted(rows[check[c].fp], s, check[c].expires)
  <2>1. row \in Rows /\ rows'[check[c].fp] = row
    BY UpsertedType, CheckFields DEF AType, CreateOrGet
  <2>2. /\ check[c].step # "decided"
        /\ To(c, "expire", row) \/ To(c, "expire again", row) \/ Decided(c, row, FALSE)
    BY DEF CreateOrGet
  <2> HIDE DEF row
  <2>3. CASE Decided(c, row, FALSE)
    BY <2>1, <2>3, DecidedIs DEF Timely
  <2>4. CASE To(c, "expire", row) \/ To(c, "expire again", row)
    <3>1. check'[c].step \in {"expire", "expire again"} /\ check'[c].read = row
          /\ check'[c].fp = check[c].fp
      BY <2>1, <2>4, ToIs DEF Steps
    <3>2. rows'[check'[c].fp] = check'[c].read /\ check'[c].fp \in Fingerprints
      BY <1>0, <2>1, <3>1
    <3>3. ASSUME check'[c].read.status = "approved", ~Lapsed(check[c].read)' PROVE seen'[c]
      <4>1. ~Lapsed(rows[check[c].fp])'
        BY <3>2, <3>3 DEF Lapsed
      <4>2. granted'[check'[c].fp]
        BY <3>2, <3>3 DEF Kept
      <4> QED BY <2>2, <3>1, <4>1, <4>2, SeenNow
    <3> QED BY <3>1, <3>3 DEF Timely
  <2> QED BY <2>2, <2>3, <2>4
<1>2. CASE Lookup(c)
  <2>1. CASE To(c, "create unknown", NoRow)
    <3>1. NoRow \in Rows
      BY ApprovalsAssumption DEF NoRow, Rows, Statuses
    <3> QED BY <2>1, <3>1, ToIs DEF Timely, Steps
  <2>2. CASE check[c].id # UnknownId /\ To(c, "expire found", rows[check[c].id])
    <3>1. rows[check[c].id] \in Rows
      BY <1>2, <2>2 DEF AType, LooksUp, Checks, Lookup
    <3>2. check'[c].step = "expire found" /\ check'[c].read = rows[check[c].id]
          /\ check'[c].fp = check[c].fp /\ check'[c].id = check[c].id
      <4>1. "expire found" \in Steps /\ To(c, "expire found", rows[check[c].id])
        BY <2>2 DEF Steps
      <4> QED BY <3>1, <4>1, ToIs
    <3>3. check[c].step = "lookup" /\ rows' = rows
      BY <1>2 DEF Lookup
    <3>4. ASSUME check'[c].id = check'[c].fp, check'[c].read.status = "approved",
                 ~Lapsed(check[c].read)'
          PROVE  seen'[c]
      <4>1. rows'[check'[c].fp] = check'[c].read /\ check'[c].fp \in Fingerprints
        BY <1>0, <3>2, <3>3, <3>4
      <4>2. ~Lapsed(rows[check[c].fp])'
        BY <3>4, <4>1 DEF Lapsed
      <4>3. granted'[check'[c].fp]
        BY <3>4, <4>1 DEF Kept
      <4> QED BY <3>2, <3>3, <4>2, <4>3, SeenNow
    <3> QED BY <3>2, <3>4 DEF Timely
  <2> QED BY <1>2, <2>1, <2>2 DEF Lookup
<1>3. CASE ExpireIfNeeded(c)
  <2> DEFINE row == IF Lapsed(check[c].read)
                    THEN [check[c].read EXCEPT !.status = "expired"] ELSE check[c].read
  <2>1. row \in Rows /\ (row.status = "approved" => row = check[c].read /\ ~Lapsed(check[c].read))
    BY CheckFields DEF Rows, Statuses
  <2>2. To(c, "create again", row) \/ Decided(c, row, Allows(c, row))
    BY <1>3 DEF ExpireIfNeeded
  <2>3. check[c].step \in {"expire", "expire again", "expire found"}
    BY <1>3 DEF ExpireIfNeeded
  <2> HIDE DEF row
  <2>4. Allows(c, row) \in BOOLEAN
    BY DEF Allows
  <2>5. CASE To(c, "create again", row)
    BY <2>1, <2>5, ToIs DEF Timely, Steps
  <2>6. CASE Decided(c, row, Allows(c, row))
    <3>1. /\ check'[c].step = "decided" /\ check'[c].allowed = Allows(c, row)
      BY <2>1, <2>4, <2>6, DecidedIs
    <3>2. Allows(c, row) => seen[c]
      BY <2>1, <2>3 DEF Allows, Found, Timely
    <3>3. Allows(c, row) => seen'[c]
      BY <3>1, <3>2, SeenStays
    <3> QED BY <3>1, <3>3 DEF Timely
  <2> QED BY <2>2, <2>5, <2>6
<1> QED BY <1>1, <1>2, <1>3 DEF CheckStep

\* A check that begins or ends allows nothing.
LEMMA EdgesTimely ==
  ASSUME AType, NEW c \in Checkers,
         \/ EndCheck(c)
         \/ \E f, d, id, e : BeginCheck(c, f, d, id, e)
  PROVE  Timely(c)' /\ now' = now /\ rows' = rows /\ granted' = granted
         /\ \A b \in Checkers : b # c => check'[b] = check[b]
<1>1. CASE EndCheck(c)
  BY <1>1 DEF EndCheck, Set, NoCheck, AType, Timely
<1>2. ASSUME NEW f, NEW d, NEW id, NEW e, BeginCheck(c, f, d, id, e)
      PROVE  check'[c].step \in {"create denied", "create", "lookup"}
  BY <1>2 DEF BeginCheck, Set, NoCheck, AType
<1>3. CASE \E f, d, id, e : BeginCheck(c, f, d, id, e)
  <2>1. check'[c].step \in {"create denied", "create", "lookup"}
    BY <1>2, <1>3
  <2> QED BY <2>1, <1>3 DEF BeginCheck, Set, AType, Timely
<1> QED BY <1>1, <1>3

\* Every other check, when time may only have passed.
LEMMA OthersTimely ==
  ASSUME AType, AType', Witness, NEW c, \A b \in Checkers : Timely(b), now <= now',
         \A b \in Checkers : b # c => check'[b] = check[b],
         c \in Checkers => Timely(c)'
  PROVE  \A b \in Checkers : Timely(b)'
  BY OtherTimely

LEMMA SameLetThrough ==
  ASSUME NEW c \in Calls, LetThrough(c), call'[c] = call[c],
         call[c].stage \in {"ready", "running"} => check'[c] = check[c]
  PROVE  LetThrough(c)'
  BY DEF LetThrough

LEMMA ToolApprovals ==
  ASSUME TypeInv, TypeInv', Witness, ApprovalInv, NEW c \in Calls,
         CallStep(c) \/ \E i \in Invocations : StartCall(c, i)
  PROVE  ApprovalInv'
<1> c \in Checkers /\ Calls = Checkers
  BY ToolAssumption
<1> USE DEF TypeInv
<1>0. now \in Nat /\ call[c] \in CallStates /\ call \in [Calls -> CallStates]
  BY DEF AType, CType
\* It is enough to look at c.
<1>a. ASSUME Kept', now' = now, Timely(c)', LetThrough(c)',
             \A b \in Calls : b # c => call'[b] = call[b],
             \A b \in Checkers : b # c => check'[b] = check[b]
      PROVE  ApprovalInv'
  <2>1. \A b \in Checkers : Timely(b)'
    BY <1>a, <1>0, OthersTimely DEF ApprovalInv
  <2>2. \A b \in Calls : LetThrough(b)'
    BY <1>a, SameLetThrough DEF ApprovalInv
  <2> QED BY <1>a, <2>1, <2>2 DEF ApprovalInv
<1>b. ASSUME UNCHANGED approvalVars PROVE Kept' /\ now' = now /\ check' = check /\ Timely(c)'
  <2>1. Timely(c)'
    BY <1>b, <1>0, OtherTimely DEF ApprovalInv, approvalVars
  <2> QED BY <1>b, <2>1 DEF approvalVars, ApprovalInv, Kept
<1>c. ASSUME NEW s, End(c, s) \/ Stage(c, s)
      PROVE  /\ \A b \in Calls : b # c => call'[b] = call[b]
             /\ End(c, s) => call'[c].stage = s
             /\ Stage(c, s) => call'[c] = [call[c] EXCEPT !.stage = s]
  BY <1>0, <1>c DEF End, Stage, NoCall
<1>1. CASE \E i \in Invocations : StartCall(c, i)
  <2> PICK i \in Invocations : StartCall(c, i)
    BY <1>1
  <2>1. call'[c].stage \in {"policy", "failed"} /\ \A b \in Calls : b # c => call'[b] = call[b]
    <3>1. CASE End(c, "failed")
      BY <3>1, <1>c
    <3>2. CASE \E owner \in BOOLEAN :
              call' = [call EXCEPT ![c] =
                  [NoCall("policy") EXCEPT !.inv = i, !.owner = owner]]
      BY <3>2, <1>0 DEF NoCall
    <3> QED BY <3>1, <3>2 DEF StartCall
  <2>2. LetThrough(c)'
    BY <2>1 DEF LetThrough
  <2> QED BY <2>1, <2>2, <1>a, <1>b DEF StartCall
<1>2. CASE EnforceTool(c)
  <2>1. CASE End(c, "unrecorded") /\ UNCHANGED approvalVars
    BY <2>1, <1>a, <1>b, <1>c DEF LetThrough
  <2>2. CASE /\ call' = [call EXCEPT ![c].stage = "ready", ![c].action = "allow"]
             /\ UNCHANGED approvalVars
    <3>1. call'[c].action = "allow" /\ \A b \in Calls : b # c => call'[b] = call[b]
      BY <2>2, <1>0 DEF CallStates
    <3> QED BY <2>2, <3>1, <1>a, <1>b DEF LetThrough
  <2>3. CASE \E action \in {"ask", "deny"} :
              /\ call' = [call EXCEPT ![c].stage = "check", ![c].action = action]
              /\ \E id \in Known \cup {NoId, UnknownId}, e \in Expiries :
                     BeginCheck(c, <<call[c].inv, action>>, action = "deny", id, e)
    <3>1. call'[c].stage = "check" /\ \A b \in Calls : b # c => call'[b] = call[b]
      BY <2>3, <1>0 DEF CallStates
    <3>2. \E f, d, id, e : BeginCheck(c, f, d, id, e)
      BY <2>3
    <3>3. Timely(c)' /\ now' = now /\ rows' = rows /\ granted' = granted
          /\ \A b \in Checkers : b # c => check'[b] = check[b]
      BY <3>2, EdgesTimely
    <3> QED BY <3>1, <3>3, <1>a DEF LetThrough, Kept, ApprovalInv
  <2> QED BY <1>2, <2>1, <2>2, <2>3 DEF EnforceTool
<1>3. CASE EnsureApproval(c)
  <2>1. Kept'
    BY <1>3, KeptStep DEF EnsureApproval, ApprovalInv
  <2>2. Timely(c)'
    BY <1>3, <2>1, TimelyStep DEF EnsureApproval, ApprovalInv
  <2>3. now' = now /\ \A b \in Checkers : b # c => check'[b] = check[b]
    BY <1>3 DEF EnsureApproval, CheckStep, Create, CreateDenied, CreateOrGet, Lookup,
                ExpireIfNeeded, To, Decided, Set, AType
  <2>4. call' = call /\ LetThrough(c)'
    BY <1>3 DEF EnsureApproval, LetThrough
  <2> QED BY <2>1, <2>2, <2>3, <2>4, <1>a
<1>4. CASE Gate(c)
  <2>1. CASE Permitted(c)
    <3>1. Stage(c, "ready") /\ UNCHANGED approvalVars
      BY <1>4, <2>1 DEF Gate
    <3>2. /\ call'[c] = [call[c] EXCEPT !.stage = "ready"]
          /\ \A b \in Calls : b # c => call'[b] = call[b]
      BY <3>1, <1>c
    <3>3. LetThrough(c)'
      BY <1>0, <1>4, <2>1, <3>1, <3>2 DEF Gate, Permitted, LetThrough, approvalVars, CallStates
    <3> QED BY <3>1, <3>2, <3>3, <1>a, <1>b
  <2>2. CASE ~Permitted(c)
    <3>1. End(c, "failed") /\ EndCheck(c)
      BY <1>4, <2>2 DEF Gate
    <3>2. LetThrough(c)' /\ \A b \in Calls : b # c => call'[b] = call[b]
      BY <3>1, <1>c DEF LetThrough
    <3>3. Timely(c)' /\ now' = now /\ rows' = rows /\ granted' = granted
          /\ \A b \in Checkers : b # c => check'[b] = check[b]
      BY <3>1, EdgesTimely
    <3> QED BY <3>2, <3>3, <1>a DEF Kept, ApprovalInv
  <2> QED BY <2>1, <2>2
<1>5. CASE CheckpointBeforeTool(c)
  <2>1. /\ call'[c].action = call[c].action /\ call'[c].owner = call[c].owner
        /\ call'[c].inv = call[c].inv /\ call[c].stage = "ready"
        /\ \A b \in Calls : b # c => call'[b] = call[b]
    BY <1>0, <1>5 DEF CheckpointBeforeTool, CallStates
  <2>2. UNCHANGED approvalVars
    BY <1>5 DEF CheckpointBeforeTool
  <2>3. LetThrough(c)'
    BY <2>1, <2>2 DEF LetThrough, ApprovalInv, approvalVars
  <2> QED BY <2>1, <2>2, <2>3, <1>a, <1>b
<1>6. CASE WriteFile(c)
  <2>1. /\ call'[c].action = call[c].action /\ call'[c].owner = call[c].owner
        /\ call'[c].inv = call[c].inv /\ call[c].stage = "running"
        /\ \A b \in Calls : b # c => call'[b] = call[b]
    BY <1>0, <1>6 DEF WriteFile, CallStates
  <2>2. UNCHANGED approvalVars
    BY <1>6 DEF WriteFile
  <2>3. LetThrough(c)'
    BY <2>1, <2>2 DEF LetThrough, ApprovalInv, approvalVars
  <2> QED BY <2>1, <2>2, <2>3, <1>a, <1>b
<1>7. CASE EndHandler(c)
  <2>1. LetThrough(c)' /\ \A b \in Calls : b # c => call'[b] = call[b]
    BY <1>7, <1>c DEF EndHandler, LetThrough
  <2>2. CASE UNCHANGED approvalVars
    BY <2>1, <2>2, <1>a, <1>b
  <2>3. CASE EndCheck(c)
    <3>1. Timely(c)' /\ now' = now /\ rows' = rows /\ granted' = granted
          /\ \A b \in Checkers : b # c => check'[b] = check[b]
      BY <2>3, EdgesTimely
    <3> QED BY <2>1, <3>1, <1>a DEF Kept, ApprovalInv
  <2> QED BY <1>7, <2>2, <2>3 DEF EndHandler
<1> QED BY <1>1, <1>2, <1>3, <1>4, <1>5, <1>6, <1>7 DEF CallStep

LEMMA ApprovalInit == EInit => ApprovalInv
<1> SUFFICES ASSUME EInit PROVE ApprovalInv
  OBVIOUS
<1>1. \A c \in Checkers : check[c].step = "idle"
  BY DEF EInit, ToolInit, ApprovalsInit, NoCheck
<1>2. \A c \in Calls : call[c].stage = "new"
  BY DEF EInit, ToolInit, NoCall
<1>3. Kept
  BY DEF EInit, ToolInit, ApprovalsInit, NoRow, Kept
<1> QED BY <1>1, <1>2, <1>3 DEF ApprovalInv, Timely, LetThrough

LEMMA ApprovalStep == TypeInv /\ TypeInv' /\ ApprovalInv /\ [ENext]_eVars => ApprovalInv'
<1> SUFFICES ASSUME TypeInv, TypeInv', ApprovalInv, [ENext]_eVars PROVE ApprovalInv'
  OBVIOUS
<1>0. AType /\ AType' /\ now \in Nat /\ now' \in Nat /\ Calls = Checkers
  BY ToolAssumption DEF TypeInv, AType
\* Steps that only decide requests or let time pass.
<1>a. ASSUME Witness, Kept', call' = call, check' = check, now <= now' PROVE ApprovalInv'
  <2>1. \A c \in Checkers : Timely(c)'
    BY <1>0, <1>a, OtherTimely DEF ApprovalInv
  <2> QED BY <1>a, <2>1 DEF ApprovalInv, LetThrough
<1>b. ASSUME UNCHANGED approvalVars PROVE Kept' /\ check' = check /\ now <= now'
  BY <1>b, <1>0 DEF approvalVars, ApprovalInv, Kept
<1>1. CASE UNCHANGED eVars
  BY <1>1 DEF eVars, approvalVars, ApprovalInv, Kept, Timely, LetThrough, Lapsed
<1>2. ASSUME Witness, NEW c \in Calls, Tool(c) PROVE ApprovalInv'
  BY <1>2, ToolApprovals DEF Tool
<1>3. ASSUME Witness, NEW k \in Workers, Loop(k) PROVE ApprovalInv'
  BY <1>3, <1>a, <1>b DEF Loop
<1>4. ASSUME Witness, NEW g \in Appliers, Apply(g) PROVE ApprovalInv'
  BY <1>4, <1>a, <1>b DEF Apply
<1>5. ASSUME Witness, NEW w \in Actors, Restore(w) PROVE ApprovalInv'
  BY <1>5, <1>a, <1>b DEF Restore
<1>6. CASE Witness /\ Decision
  <2> PICK f \in Fingerprints : Approve(f) \/ Deny(f)
    BY <1>6 DEF Decision
  <2>1. Kept'
    BY <1>0 DEF Approve, Deny, Decide, Kept, ApprovalInv, AType, Rows
  <2>2. check' = check /\ now <= now'
    BY <1>0 DEF Approve, Deny
  <2> QED BY <1>6, <2>1, <2>2, <1>a DEF Decision
<1>7. CASE Witness /\ Time
  <2>1. Kept' /\ check' = check /\ now <= now'
    BY <1>0, <1>7 DEF Time, Tick, Kept, ApprovalInv
  <2> QED BY <1>7, <2>1, <1>a DEF Time
<1> QED BY <1>1, <1>2, <1>3, <1>4, <1>5, <1>6, <1>7 DEF ENext

LEMMA ApprovalsGrant == ApprovalInv /\ Calls = Checkers => RunsWhatWasApproved
  BY DEF ApprovalInv, LetThrough, Timely, RunsWhatWasApproved

\* Whatever calls, decisions and expiries come in between, no handler runs
\* without the approval its policy asked for.
THEOREM ESystemApproved == ESpec => []RunsWhatWasApproved
<1>1. Calls = Checkers
  BY ToolAssumption
<1> QED BY <1>1, TypeInit, TypeStep, ApprovalInit, ApprovalStep, ApprovalsGrant, PTL DEF ESpec

---------------------------------------------------------------------------
(* Checkpoints.                                                            *)

\* What w saved is what it found, and what it did not save only others wrote.
Undoable(w) ==
    saved[w] # NoFiles =>
        /\ start[w] \in Trees
        /\ \A p \in DOMAIN saved[w] : saved[w][p] = start[w][p]
        /\ \A p \in Paths \ (DOMAIN saved[w] \cup foreign[w]) : project[p] = start[w][p]

AllUndoable == \A w \in Actors : Undoable(w)

LEMMA UndoableRestores == FilesTypeOK /\ AllUndoable => RestoringUndoes
<1> SUFFICES ASSUME FilesTypeOK, AllUndoable, NEW w \in Actors, saved[w] # NoFiles,
                    NEW p \in Paths \ foreign[w]
             PROVE  Restored(project, saved[w])[p] = start[w][p]
  BY DEF RestoringUndoes
<1> QED BY DEF AllUndoable, Undoable, Restored

LEMMA WatchUndoable ==
  ASSUME FilesTypeOK, AllUndoable, NEW w \in Actors, NEW S \in SUBSET Paths, TakeCheckpoint(w, S)
  PROVE  AllUndoable'
<1>1. /\ saved'[w] = Snapshot(project, S) /\ start'[w] = project /\ project' = project
      /\ \A u \in Actors : u # w =>
             saved'[u] = saved[u] /\ start'[u] = start[u] /\ foreign'[u] = foreign[u]
  BY DEF TakeCheckpoint, Watch, FilesTypeOK
<1>2. Undoable(w)'
  BY <1>1 DEF Undoable, Snapshot, FilesTypeOK
<1>3. ASSUME NEW u \in Actors, u # w PROVE Undoable(u)'
  BY <1>1, <1>3 DEF Undoable, AllUndoable
<1> QED BY <1>2, <1>3 DEF AllUndoable

\* Forget, and the copy of a worktree, leave w without a checkpoint.
LEMMA NoneUndoable ==
  ASSUME FilesTypeOK, AllUndoable, NEW w \in Actors, Forget(w) \/ Watch(w, NoFiles)
  PROVE  AllUndoable'
<1>1. /\ saved'[w] = NoFiles /\ project' = project
      /\ \A u \in Actors : u # w =>
             saved'[u] = saved[u] /\ start'[u] = start[u] /\ foreign'[u] = foreign[u]
  BY DEF Forget, Watch, FilesTypeOK
<1> QED BY <1>1 DEF AllUndoable, Undoable

LEMMA Watching ==
  ASSUME NEW t \in Trees, NEW p \in Paths PROVE t # NoFiles
  BY DEF Trees, NoFiles

LEMMA WriteUndoable ==
  ASSUME FilesTypeOK, AllUndoable, NEW w \in Actors, NEW p \in Paths, NEW v, Write(w, p, v),
         saved[w] = NoFiles \/ p \in DOMAIN saved[w]
  PROVE  AllUndoable'
<1>1. /\ saved' = saved /\ start' = start
      /\ \A q \in Paths : q # p => project'[q] = project[q]
      /\ \A u \in Actors : foreign[u] \subseteq foreign'[u]
      /\ \A u \in Actors : u # w /\ start[u] # NoFiles => p \in foreign'[u]
  BY DEF Write, Wrote, FilesTypeOK, Trees
<1>2. ASSUME NEW u \in Actors, saved[u] # NoFiles PROVE Undoable(u)'
  <2>1. start[u] \in Trees /\ start[u] # NoFiles
    BY <1>2, Watching DEF AllUndoable, Undoable
  <2> QED BY <1>1, <1>2, <2>1 DEF AllUndoable, Undoable
<1> QED BY <1>1, <1>2 DEF AllUndoable, Undoable

LEMMA RestoreUndoable ==
  ASSUME FilesTypeOK, AllUndoable, NEW w \in Actors, RestoreCommand(w)
  PROVE  AllUndoable'
<1>0. saved[w] \in Checkpoints /\ DOMAIN saved[w] \subseteq Paths
  BY CheckpointType DEF FilesTypeOK
<1>1. /\ saved' = saved /\ start' = start
      /\ \A q \in Paths : q \notin DOMAIN saved[w] => project'[q] = project[q]
      /\ \A u \in Actors : foreign[u] \subseteq foreign'[u]
      /\ \A u \in Actors : start[u] # NoFiles => DOMAIN saved[w] \subseteq foreign'[u]
  BY DEF RestoreCommand, Restored, FilesTypeOK
<1>2. ASSUME NEW u \in Actors, saved[u] # NoFiles PROVE Undoable(u)'
  <2>1. start[u] \in Trees
    BY <1>2 DEF AllUndoable, Undoable
  <2>2. ASSUME NEW q \in Paths PROVE start[u] # NoFiles
    BY <2>1, Watching
  <2> QED BY <1>0, <1>1, <1>2, <2>1, <2>2 DEF AllUndoable, Undoable
<1> QED BY <1>1, <1>2 DEF AllUndoable, Undoable

LEMMA SameUndoable == AllUndoable /\ UNCHANGED fileVars => AllUndoable'
  BY DEF AllUndoable, Undoable, fileVars

\* A handler writes what its call saved, if it saved anything.
CallWrites(c) ==
    /\ call[c].stage \in {"policy", "check", "ready"} => saved[c] = NoFiles
    /\ call[c].stage = "running" /\ saved[c] # NoFiles => call[c].todo \subseteq DOMAIN saved[c]

\* An apply writes what its gate saved; without a gate nothing is saved.
GateWrites(g) ==
    /\ gate[g].stage = "allowed" => gate[g].gated /\ gate[g].put \cup gate[g].gone # {}
    /\ gate[g].stage \in {"loading", "copying", "testing"} =>
           IF gate[g].gated
           THEN DOMAIN saved[g] = gate[g].put \cup gate[g].gone /\ DOMAIN saved[g] # {}
           ELSE saved[g] = NoFiles
    /\ gate[g].stage = "copying" => gate[g].left \subseteq gate[g].put \cup gate[g].gone
    /\ gate[g].stage = "testing" => gate[g].gated
    /\ gate[g].stage \in {"rolling back", "rolled back"} => DOMAIN saved[g] # {}

\* The files a rollback is done with are as its gate found them.
RolledBack(g) ==
    /\ gate[g].stage = "rolling back" =>
           \A p \in Paths \ (gate[g].left \cup foreign[g]) : project[p] = start[g][p]
    /\ gate[g].stage = "rolled back" =>
           \A p \in Paths \ foreign[g] : project[p] = start[g][p]

FilesInv ==
    /\ AllUndoable
    /\ \A c \in Calls : CallWrites(c)
    /\ \A g \in Appliers : GateWrites(g) /\ RolledBack(g)

LEMMA SomeSaved ==
  ASSUME NEW w, DOMAIN saved[w] # {} PROVE saved[w] # NoFiles
  BY DEF NoFiles

\* What actor w does to the files leaves RolledBack of another one true.
LEMMA RolledBackByWrite ==
  ASSUME FilesTypeOK, AllUndoable, NEW w \in Actors, NEW p \in Paths, NEW v, Write(w, p, v),
         NEW g \in Appliers, g # w, GateWrites(g), RolledBack(g), gate'[g] = gate[g]
  PROVE  RolledBack(g)'
<1> g \in Actors
  BY GateAssumption
<1>1. /\ saved' = saved /\ start' = start
      /\ \A q \in Paths : q # p => project'[q] = project[q]
      /\ foreign[g] \subseteq foreign'[g]
      /\ start[g] # NoFiles => p \in foreign'[g]
  BY DEF Write, Wrote, FilesTypeOK, Trees
<1>2. CASE gate[g].stage \in {"rolling back", "rolled back"}
  <2>1. start[g] # NoFiles
    BY <1>2, SomeSaved, Watching DEF GateWrites, AllUndoable, Undoable
  <2> QED BY <1>1, <2>1 DEF RolledBack
<1>3. CASE gate[g].stage \notin {"rolling back", "rolled back"}
  BY <1>3 DEF RolledBack
<1> QED BY <1>2, <1>3

LEMMA RolledBackByRestore ==
  ASSUME FilesTypeOK, AllUndoable, NEW w \in Actors, RestoreCommand(w),
         NEW g \in Appliers, GateWrites(g), RolledBack(g), gate'[g] = gate[g]
  PROVE  RolledBack(g)'
<1> g \in Actors
  BY GateAssumption
<1>0. saved[w] \in Checkpoints /\ DOMAIN saved[w] \subseteq Paths
  BY CheckpointType DEF FilesTypeOK
<1>1. /\ saved' = saved /\ start' = start
      /\ \A q \in Paths : q \notin DOMAIN saved[w] => project'[q] = project[q]
      /\ foreign[g] \subseteq foreign'[g]
      /\ start[g] # NoFiles => DOMAIN saved[w] \subseteq foreign'[g]
  BY DEF RestoreCommand, Restored, FilesTypeOK
<1>2. CASE gate[g].stage \in {"rolling back", "rolled back"}
  <2>1. ASSUME NEW p \in Paths PROVE start[g] # NoFiles
    BY <1>2, SomeSaved, Watching DEF GateWrites, AllUndoable, Undoable
  <2> QED BY <1>1, <2>1 DEF RolledBack
<1>3. CASE gate[g].stage \notin {"rolling back", "rolled back"}
  BY <1>3 DEF RolledBack
<1> QED BY <1>2, <1>3

\* Watching and forgetting by others, and steps that leave the files alone.
LEMMA SameRolledBack ==
  ASSUME NEW g \in Appliers, GateWrites(g), RolledBack(g), gate'[g] = gate[g],
         project' = project, saved'[g] = saved[g], start'[g] = start[g], foreign'[g] = foreign[g]
  PROVE  GateWrites(g)' /\ RolledBack(g)'
  BY DEF GateWrites, RolledBack

LEMMA SameGateWrites ==
  ASSUME NEW g \in Appliers, GateWrites(g), gate'[g] = gate[g], saved'[g] = saved[g]
  PROVE  GateWrites(g)'
  BY DEF GateWrites

LEMMA SameCallWrites ==
  ASSUME NEW c \in Calls, CallWrites(c), call'[c] = call[c], saved'[c] = saved[c]
  PROVE  CallWrites(c)'
  BY DEF CallWrites

\* What an actor may do to the files in a step.
FileEffect(w) ==
    \/ UNCHANGED fileVars
    \/ Forget(w)
    \/ Watch(w, NoFiles)
    \/ \E S \in SUBSET Paths : TakeCheckpoint(w, S)
    \/ \E p \in Paths, v \in Contents \cup {Absent} :
           Write(w, p, v) /\ (saved[w] = NoFiles \/ p \in DOMAIN saved[w])

LEMMA EffectOnOthers ==
  ASSUME FilesTypeOK, FilesInv, NEW w \in Actors, FileEffect(w)
  PROVE  /\ AllUndoable'
         /\ \A c \in Calls : c # w /\ call'[c] = call[c] => CallWrites(c)'
         /\ \A g \in Appliers : g # w /\ gate'[g] = gate[g] => GateWrites(g)' /\ RolledBack(g)'
<1> Calls \subseteq Actors /\ Appliers \subseteq Actors
  BY ToolAssumption, GateAssumption
<1> USE DEF FilesInv
<1>1. CASE UNCHANGED fileVars
  BY <1>1, SameUndoable, SameCallWrites, SameRolledBack DEF fileVars
<1>2. CASE Forget(w) \/ Watch(w, NoFiles)
  <2>1. /\ project' = project
        /\ \A u \in Actors : u # w =>
               saved'[u] = saved[u] /\ start'[u] = start[u] /\ foreign'[u] = foreign[u]
    BY <1>2 DEF Forget, Watch, FilesTypeOK
  <2> QED BY <1>2, <2>1, NoneUndoable, SameCallWrites, SameRolledBack
<1>3. CASE \E S \in SUBSET Paths : TakeCheckpoint(w, S)
  <2> PICK S \in SUBSET Paths : TakeCheckpoint(w, S)
    BY <1>3
  <2>1. /\ project' = project
        /\ \A u \in Actors : u # w =>
               saved'[u] = saved[u] /\ start'[u] = start[u] /\ foreign'[u] = foreign[u]
    BY DEF TakeCheckpoint, Watch, FilesTypeOK
  <2> QED BY <2>1, WatchUndoable, SameCallWrites, SameRolledBack
<1>4. CASE \E p \in Paths, v \in Contents \cup {Absent} :
               Write(w, p, v) /\ (saved[w] = NoFiles \/ p \in DOMAIN saved[w])
  <2> PICK p \in Paths, v \in Contents \cup {Absent} :
               Write(w, p, v) /\ (saved[w] = NoFiles \/ p \in DOMAIN saved[w])
    BY <1>4
  <2>1. saved' = saved
    BY DEF Write
  <2> QED BY <2>1, WriteUndoable, SameCallWrites, SameGateWrites, RolledBackByWrite
<1> QED BY <1>1, <1>2, <1>3, <1>4 DEF FileEffect

LEMMA CallEffect ==
  ASSUME TypeInv, FilesInv, NEW c \in Calls,
         CallStep(c) \/ \E i \in Invocations : StartCall(c, i)
  PROVE  /\ FileEffect(c) /\ CallWrites(c)'
         /\ \A d \in Calls : d # c => call'[d] = call[d]
<1>0. /\ call[c] \in CallStates /\ call \in [Calls -> CallStates] /\ c \in Actors
      /\ saved \in [Actors -> Checkpoints]
  BY ToolAssumption DEF TypeInv, CType, AllType, FilesTypeOK
<1>c. ASSUME NEW s, End(c, s) \/ Stage(c, s)
      PROVE  /\ \A b \in Calls : b # c => call'[b] = call[b]
             /\ call'[c].stage = s
  BY <1>0, <1>c DEF End, Stage, NoCall, CallStates
<1>1. CASE \E i \in Invocations : StartCall(c, i)
  <2> PICK i \in Invocations : StartCall(c, i)
    BY <1>1
  <2>1. call'[c].stage \in {"policy", "failed"} /\ \A b \in Calls : b # c => call'[b] = call[b]
    <3>1. CASE End(c, "failed")
      BY <3>1, <1>c
    <3>2. CASE \E owner \in BOOLEAN :
              call' = [call EXCEPT ![c] =
                  [NoCall("policy") EXCEPT !.inv = i, !.owner = owner]]
      BY <3>2, <1>0 DEF NoCall
    <3> QED BY <3>1, <3>2 DEF StartCall
  <2>2. saved'[c] = NoFiles
    BY <1>0 DEF StartCall, Forget
  <2> QED BY <2>1, <2>2 DEF StartCall, FileEffect, CallWrites
<1>2. CASE EnforceTool(c)
  <2>1. UNCHANGED fileVars /\ saved[c] = NoFiles
    BY <1>2 DEF EnforceTool, FilesInv, CallWrites
  <2>2. /\ call'[c].stage \in {"unrecorded", "ready", "check"}
        /\ \A b \in Calls : b # c => call'[b] = call[b]
    <3>1. CASE End(c, "unrecorded")
      BY <3>1, <1>c
    <3>2. CASE call' = [call EXCEPT ![c].stage = "ready", ![c].action = "allow"]
      BY <3>2, <1>0 DEF CallStates
    <3>3. CASE \E action \in {"ask", "deny"} :
              call' = [call EXCEPT ![c].stage = "check", ![c].action = action]
      BY <3>3, <1>0 DEF CallStates
    <3> QED BY <1>2, <3>1, <3>2, <3>3 DEF EnforceTool
  <2> QED BY <2>1, <2>2 DEF FileEffect, CallWrites, fileVars
<1>3. CASE EnsureApproval(c)
  BY <1>3 DEF EnsureApproval, FileEffect, CallWrites, FilesInv, fileVars
<1>4. CASE Gate(c)
  <2>1. UNCHANGED fileVars /\ saved[c] = NoFiles
    BY <1>4 DEF Gate, FilesInv, CallWrites
  <2>2. /\ call'[c].stage \in {"ready", "failed"}
        /\ \A b \in Calls : b # c => call'[b] = call[b]
    BY <1>4, <1>c DEF Gate
  <2> QED BY <2>1, <2>2 DEF FileEffect, CallWrites, fileVars
<1>5. CASE CheckpointBeforeTool(c)
  <2> DEFINE i == call[c].inv
  <2>1. i \in Invocations /\ Named[i] \in SUBSET Paths /\ saved[c] = NoFiles
    BY <1>5, <1>0, ToolAssumption DEF CheckpointBeforeTool, CallStates, FilesInv, CallWrites
  <2>2. /\ call'[c].stage = "running" /\ call'[c].todo = Writes[i]
        /\ \A b \in Calls : b # c => call'[b] = call[b]
    BY <1>5, <1>0 DEF CheckpointBeforeTool, CallStates
  <2>3. CASE UNCHANGED fileVars
    BY <2>1, <2>2, <2>3 DEF FileEffect, CallWrites, fileVars
  <2>4. CASE Named[i] # {} /\ TakeCheckpoint(c, Named[i])
    <3>1. DOMAIN saved'[c] = Named[i]
      BY <2>4, <1>0 DEF TakeCheckpoint, Watch, Snapshot
    <3>2. Writes[i] \subseteq Named[i]
      BY <2>1, <2>4, ToolAssumption
    <3> QED BY <2>1, <2>2, <2>4, <3>1, <3>2 DEF FileEffect, CallWrites
  <2> QED BY <1>5, <2>3, <2>4 DEF CheckpointBeforeTool
<1>6. CASE WriteFile(c)
  <2> PICK p \in call[c].todo :
           /\ call' = [call EXCEPT ![c].todo = @ \ {p}]
           /\ (\E v \in Contents : Write(c, p, v)) \/ UNCHANGED fileVars
    BY <1>6 DEF WriteFile
  <2>1. /\ call'[c].stage = "running" /\ call'[c].todo \subseteq call[c].todo
        /\ call[c].stage = "running" /\ p \in Paths
        /\ \A b \in Calls : b # c => call'[b] = call[b]
    BY <1>6, <1>0 DEF WriteFile, CallStates
  <2>2. saved[c] = NoFiles \/ p \in DOMAIN saved[c]
    BY <2>1 DEF FilesInv, CallWrites
  <2>3. saved' = saved
    BY DEF Write, fileVars
  <2>4. CallWrites(c)'
    BY <2>1, <2>3 DEF FilesInv, CallWrites
  <2> QED BY <2>1, <2>2, <2>4 DEF FileEffect
<1>7. CASE EndHandler(c)
  <2>1. /\ call'[c].stage \in Ended
        /\ \A b \in Calls : b # c => call'[b] = call[b]
    BY <1>7, <1>c DEF EndHandler, Ended
  <2> QED BY <1>7, <2>1 DEF EndHandler, FileEffect, CallWrites, Ended
<1> QED BY <1>1, <1>2, <1>3, <1>4, <1>5, <1>6, <1>7 DEF CallStep

LEMMA LoopEffect ==
  ASSUME NEW k \in Workers, CreateWorktree(k) \/ LoopStep(k) \/ WorktreeCommand(k)
  PROVE  FileEffect(k)
  BY DEF FileEffect, CreateWorktree, LoopStep, WorktreeCommand, CopyFile, Propose, Choose,
         NoneLeft, ApplyEdit, RunTargetedTests, RunFullTests, RestoreCandidate, FinishLoop,
         CreateSelected, Review, RunInWorktree, RemoveWorktree

\* The fields of gate[g] after each of its steps.
LEMMA DoneIs ==
  ASSUME GType, NEW g \in Appliers, NEW p, Done(g, p)
  PROVE  /\ gate'[g].stage = gate[g].stage /\ gate'[g].of = gate[g].of
         /\ gate'[g].put = gate[g].put /\ gate'[g].gone = gate[g].gone
         /\ gate'[g].gated = gate[g].gated /\ gate'[g].fresh = gate[g].fresh
         /\ gate'[g].left = gate[g].left \ {p}
         /\ \A h \in Appliers : h # g => gate'[h] = gate[h]
  BY DEF Done, GType, Gates

LEMMA GateStageIs ==
  ASSUME GType, NEW g \in Appliers, NEW s, GateStage(g, s)
  PROVE  /\ gate'[g].stage = s /\ gate'[g].of = gate[g].of
         /\ gate'[g].put = gate[g].put /\ gate'[g].gone = gate[g].gone
         /\ gate'[g].gated = gate[g].gated /\ gate'[g].fresh = gate[g].fresh
         /\ gate'[g].left = gate[g].left
         /\ \A h \in Appliers : h # g => gate'[h] = gate[h]
  BY DEF GateStage, GType, Gates

LEMMA OpenGateEffect ==
  ASSUME TypeInv, FilesInv, NEW g \in Appliers, NEW k \in Workers,
         Evaluate(g, k) \/ ApplyByHand(g, k)
  PROVE  /\ FileEffect(g) /\ GateWrites(g)' /\ RolledBack(g)'
         /\ \A h \in Appliers : h # g => gate'[h] = gate[h]
<1>0. gate \in [Appliers -> Gates] /\ saved \in [Actors -> Checkpoints] /\ g \in Actors
  BY GateAssumption DEF TypeInv, AllType, GType, FilesTypeOK
<1>1. Forget(g) /\ saved'[g] = NoFiles
  BY <1>0 DEF Evaluate, ApplyByHand, Forget
<1>2. /\ \/ gate'[g].stage = "blocked"
         \/ /\ gate'[g].stage = "allowed" /\ gate'[g].gated
            /\ gate'[g].put \cup gate'[g].gone # {}
         \/ gate'[g].stage = "loading" /\ ~gate'[g].gated
      /\ \A h \in Appliers : h # g => gate'[h] = gate[h]
  <2>1. CASE gate' = [gate EXCEPT ![g] = [NoGate EXCEPT !.stage = "blocked"]]
    BY <2>1, <1>0 DEF NoGate
  <2>2. CASE /\ gate' = [gate EXCEPT ![g] = [NoGate EXCEPT !.stage = "allowed", !.of = k,
                   !.put = review[k].put, !.gone = review[k].gone, !.gated = TRUE]]
             /\ review[k].put \cup review[k].gone # {}
    BY <2>2, <1>0 DEF NoGate
  <2>3. CASE gate' = [gate EXCEPT ![g] = [NoGate EXCEPT !.stage = "loading", !.of = k,
                   !.put = review[k].put, !.gone = review[k].gone]]
    BY <2>3, <1>0 DEF NoGate
  <2> QED BY <2>1, <2>2, <2>3 DEF Evaluate, ApplyByHand
<1> QED BY <1>1, <1>2 DEF FileEffect, GateWrites, RolledBack

LEMMA GateEffect ==
  ASSUME TypeInv, FilesInv, NEW g \in Appliers, GateStep(g)
  PROVE  /\ FileEffect(g) /\ GateWrites(g)' /\ RolledBack(g)'
         /\ \A h \in Appliers : h # g => gate'[h] = gate[h]
<1>0. /\ GType /\ gate \in [Appliers -> Gates] /\ saved \in [Actors -> Checkpoints] /\ g \in Actors
      /\ gate[g] \in Gates /\ gate[g].put \in SUBSET Paths /\ gate[g].gone \in SUBSET Paths
      /\ gate[g].left \in SUBSET Paths /\ GateWrites(g) /\ RolledBack(g) /\ AllUndoable
      /\ FilesTypeOK /\ Undoable(g)
  BY GateAssumption, GateFields DEF TypeInv, AllType, GType, FilesTypeOK, FilesInv, AllUndoable
<1>1. CASE CheckpointChanged(g)
  <2> DEFINE S == gate[g].put \cup gate[g].gone
  <2>1. TakeCheckpoint(g, S) /\ S \in SUBSET Paths /\ DOMAIN saved'[g] = S
    BY <1>0, <1>1 DEF CheckpointChanged, TakeCheckpoint, Watch, Snapshot
  <2>2. /\ gate'[g].stage = "loading" /\ gate'[g].put = gate[g].put /\ gate'[g].gone = gate[g].gone
        /\ gate'[g].gated = gate[g].gated /\ gate[g].stage = "allowed"
        /\ \A h \in Appliers : h # g => gate'[h] = gate[h]
    BY <1>0, <1>1 DEF CheckpointChanged, Gates
  <2> QED BY <1>0, <2>1, <2>2 DEF FileEffect, GateWrites, RolledBack
<1>2. CASE LoadReview(g)
  <2>1. UNCHANGED fileVars /\ gate[g].stage = "loading"
    BY <1>2 DEF LoadReview
  <2>2. /\ \/ gate'[g].stage = "raised"
           \/ gate'[g].stage = "copying" /\ gate'[g].left = gate[g].put \cup gate[g].gone
        /\ gate'[g].put = gate[g].put /\ gate'[g].gone = gate[g].gone
        /\ gate'[g].gated = gate[g].gated
        /\ \A h \in Appliers : h # g => gate'[h] = gate[h]
    <3>1. CASE GateStage(g, "raised")
      BY <1>0, <3>1, GateStageIs
    <3>2. CASE gate' = [gate EXCEPT ![g].stage = "copying", ![g].left = gate[g].put \cup gate[g].gone]
      BY <1>0, <3>2 DEF Gates
    <3> QED BY <1>2, <3>1, <3>2 DEF LoadReview
  <2> QED BY <1>0, <2>1, <2>2 DEF FileEffect, GateWrites, RolledBack, fileVars
<1>3. ASSUME gate[g].stage = "copying", NEW p \in gate[g].left, NEW v \in Contents \cup {Absent},
             Done(g, p), Write(g, p, v)
      PROVE  /\ FileEffect(g) /\ GateWrites(g)' /\ RolledBack(g)'
             /\ \A h \in Appliers : h # g => gate'[h] = gate[h]
  <2>1. p \in Paths /\ (saved[g] = NoFiles \/ p \in DOMAIN saved[g])
    BY <1>0, <1>3 DEF GateWrites
  <2>2. saved' = saved
    BY <1>3 DEF Write
  <2> QED BY <1>0, <1>3, <2>1, <2>2, DoneIs DEF FileEffect, GateWrites, RolledBack
<1>4. CASE CopyChanged(g)
  <2> PICK p \in gate[g].put \cap gate[g].left :
           LET text == tree[gate[g].of][p] IN
           \/ text = Absent /\ GateStage(g, "raised") /\ UNCHANGED fileVars
           \/ text # Absent /\ Done(g, p) /\ Write(g, p, text)
    BY <1>4 DEF CopyChanged
  <2>1. tree[gate[g].of][p] \in Contents \cup {Absent}
    BY <1>0, GateFields, LoopFields, ReadFile DEF TypeInv, AllType, LType
  <2>2. CASE GateStage(g, "raised") /\ UNCHANGED fileVars
    <3>1. gate'[g].stage = "raised" /\ \A h \in Appliers : h # g => gate'[h] = gate[h]
      BY <1>0, <2>2, GateStageIs
    <3> QED BY <2>2, <3>1 DEF FileEffect, GateWrites, RolledBack
  <2>3. CASE Done(g, p) /\ Write(g, p, tree[gate[g].of][p])
    BY <1>3, <1>4, <2>1, <2>3 DEF CopyChanged
  <2> QED BY <2>2, <2>3
<1>5. CASE UnlinkDeleted(g)
  BY <1>3, <1>5 DEF UnlinkDeleted
<1>6. CASE FinishApply(g)
  <2>1. UNCHANGED fileVars /\ gate[g].stage = "copying"
    BY <1>6 DEF FinishApply
  <2>2. CASE GateStage(g, "applied")
    <3>1. gate'[g].stage = "applied" /\ \A h \in Appliers : h # g => gate'[h] = gate[h]
      BY <1>0, <2>2, GateStageIs
    <3> QED BY <2>1, <3>1 DEF FileEffect, GateWrites, RolledBack
  <2>3. CASE gate[g].gated /\ GateStage(g, "testing")
    <3>1. /\ gate'[g].stage = "testing" /\ gate'[g].gated = gate[g].gated
          /\ gate'[g].put = gate[g].put /\ gate'[g].gone = gate[g].gone
          /\ \A h \in Appliers : h # g => gate'[h] = gate[h]
      BY <1>0, <2>3, GateStageIs
    <3> QED BY <1>0, <2>1, <2>3, <3>1 DEF FileEffect, GateWrites, RolledBack, fileVars
  <2> QED BY <1>6, <2>2, <2>3 DEF FinishApply
<1>7. CASE RunTests(g)
  <2>1. UNCHANGED fileVars /\ gate[g].stage = "testing"
    BY <1>7 DEF RunTests
  <2>2. CASE GateStage(g, "passed") \/ GateStage(g, "kept")
    <3>1. gate'[g].stage \in {"passed", "kept"} /\ \A h \in Appliers : h # g => gate'[h] = gate[h]
      BY <1>0, <2>2, GateStageIs
    <3> QED BY <2>1, <3>1 DEF FileEffect, GateWrites, RolledBack
  <2>3. CASE gate' = [gate EXCEPT ![g].stage = "rolling back", ![g].left = DOMAIN saved[g]]
    <3>1. /\ gate'[g].stage = "rolling back" /\ gate'[g].left = DOMAIN saved[g]
          /\ \A h \in Appliers : h # g => gate'[h] = gate[h]
      BY <1>0, <2>3 DEF Gates
    <3>2. DOMAIN saved[g] # {}
      BY <1>0, <2>1 DEF GateWrites
    <3>3. \A p \in Paths \ (DOMAIN saved[g] \cup foreign[g]) : project[p] = start[g][p]
      BY <1>0, <3>2, SomeSaved DEF Undoable
    <3> QED BY <2>1, <3>1, <3>2, <3>3 DEF FileEffect, GateWrites, RolledBack, fileVars
  <2> QED BY <1>7, <2>2, <2>3 DEF RunTests
<1>8. CASE RollBackFile(g)
  <2> PICK p \in gate[g].left : Done(g, p) /\ Write(g, p, saved[g][p])
    BY <1>8 DEF RollBackFile
  <2>1. gate[g].stage = "rolling back" /\ DOMAIN saved[g] # {} /\ p \in Paths
    BY <1>0, <1>8 DEF RollBackFile, GateWrites
  <2>2. p \in DOMAIN saved[g]
    BY <2>1 DEF TypeInv, AllType, LeftSaved
  <2>3. saved[g][p] \in Contents \cup {Absent} /\ saved[g][p] = start[g][p]
    BY <1>0, <2>1, <2>2, SomeSaved, CheckpointType DEF Undoable
  <2>4. /\ saved' = saved /\ start' = start /\ project'[p] = start[g][p]
        /\ \A q \in Paths : q # p => project'[q] = project[q]
        /\ foreign'[g] = foreign[g]
    BY <1>0, <2>1, <2>3 DEF Write, Wrote, FilesTypeOK, Trees
  <2>5. GateWrites(g)'
    BY <1>0, <2>1, <2>4, DoneIs DEF GateWrites
  <2>6. RolledBack(g)'
    <3>1. gate'[g].stage = "rolling back" /\ gate'[g].left = gate[g].left \ {p}
      BY <1>0, <2>1, DoneIs
    <3>2. ASSUME NEW q \in Paths \ (gate'[g].left \cup foreign'[g])
          PROVE  project'[q] = start'[g][q]
      <4>1. CASE q = p
        BY <2>4, <4>1
      <4>2. CASE q # p
        BY <1>0, <2>1, <2>4, <3>1, <3>2, <4>2 DEF RolledBack
      <4> QED BY <4>1, <4>2
    <3> QED BY <3>1, <3>2 DEF RolledBack
  <2> QED BY <1>0, <2>1, <2>2, <2>3, <2>5, <2>6, DoneIs DEF FileEffect
<1>9. CASE EndRollBack(g)
  <2>1. UNCHANGED fileVars /\ gate[g].stage = "rolling back" /\ gate[g].left = {}
    BY <1>9 DEF EndRollBack
  <2>2. gate'[g].stage = "rolled back" /\ \A h \in Appliers : h # g => gate'[h] = gate[h]
    BY <1>0, <1>9, GateStageIs DEF EndRollBack
  <2> QED BY <1>0, <2>1, <2>2 DEF FileEffect, GateWrites, RolledBack, fileVars
<1> QED BY <1>1, <1>2, <1>4, <1>5, <1>6, <1>7, <1>8, <1>9 DEF GateStep

LEMMA FilesInit0 == EInit => FilesInv
<1> SUFFICES ASSUME EInit PROVE FilesInv
  OBVIOUS
<1>1. \A w \in Actors : saved[w] = NoFiles
  BY DEF EInit, ToolInit, FilesInit
<1>2. \A c \in Calls : call[c].stage = "new"
  BY DEF EInit, ToolInit, NoCall
<1>3. \A g \in Appliers : gate[g].stage = "idle"
  BY DEF EInit, NoGate
<1> QED BY <1>1, <1>2, <1>3
        DEF FilesInv, AllUndoable, Undoable, CallWrites, GateWrites, RolledBack

LEMMA FilesStep == TypeInv /\ FilesInv /\ [ENext]_eVars => FilesInv'
<1> SUFFICES ASSUME TypeInv, FilesInv, [ENext]_eVars PROVE FilesInv'
  OBVIOUS
<1> FilesTypeOK
  BY DEF TypeInv, AllType
<1> /\ Actors = Calls \cup Workers \cup Appliers
    /\ Calls \cap Workers = {} /\ Calls \cap Appliers = {} /\ Workers \cap Appliers = {}
  BY SystemAssumption
<1>a. ASSUME UNCHANGED <<fileVars, call, gate>> PROVE FilesInv'
  <2>1. AllUndoable'
    BY <1>a, SameUndoable DEF FilesInv
  <2>2. \A c \in Calls : CallWrites(c)'
    BY <1>a, SameCallWrites DEF FilesInv, fileVars
  <2>3. \A g \in Appliers : GateWrites(g)' /\ RolledBack(g)'
    BY <1>a, SameRolledBack DEF FilesInv, fileVars
  <2> QED BY <2>1, <2>2, <2>3 DEF FilesInv
<1>1. CASE UNCHANGED eVars
  BY <1>1, <1>a DEF eVars
<1>2. ASSUME NEW c \in Calls, Tool(c) PROVE FilesInv'
  <2>1. /\ FileEffect(c) /\ CallWrites(c)'
        /\ \A d \in Calls : d # c => call'[d] = call[d]
    BY <1>2, CallEffect DEF Tool
  <2> QED BY <1>2, <2>1, EffectOnOthers DEF Tool, FilesInv
<1>3. ASSUME NEW k \in Workers, Loop(k) PROVE FilesInv'
  <2>1. FileEffect(k)
    BY <1>3, LoopEffect DEF Loop
  <2> QED BY <1>3, <2>1, EffectOnOthers DEF Loop, FilesInv
<1>4. ASSUME NEW g \in Appliers, Apply(g) PROVE FilesInv'
  <2>1. /\ FileEffect(g) /\ GateWrites(g)' /\ RolledBack(g)'
        /\ \A h \in Appliers : h # g => gate'[h] = gate[h]
    BY <1>4, OpenGateEffect, GateEffect DEF Apply
  <2> QED BY <1>4, <2>1, EffectOnOthers DEF Apply, FilesInv
<1>5. ASSUME NEW w \in Actors, Restore(w) PROVE FilesInv'
  <2>1. AllUndoable'
    BY <1>5, RestoreUndoable DEF Restore, FilesInv
  <2>2. saved' = saved /\ call' = call /\ gate' = gate
    BY <1>5 DEF Restore, RestoreCommand
  <2> QED BY <1>5, <2>1, <2>2, SameCallWrites, SameGateWrites, RolledBackByRestore
          DEF Restore, FilesInv
<1>6. CASE Decision \/ Time
  BY <1>6, <1>a DEF Decision, Time
<1> QED BY <1>1, <1>2, <1>3, <1>4, <1>5, <1>6 DEF ENext

\* Restoring the checkpoint a tool call or a gated apply took undoes all it
\* wrote, wherever it stopped, except for files that others wrote since.
THEOREM ESystemUndoes == ESpec => []RestoringUndoes
<1>1. TypeInv /\ FilesInv => RestoringUndoes
  BY UndoableRestores DEF TypeInv, AllType, FilesInv
<1> QED BY <1>1, TypeInit, TypeStep, FilesInit0, FilesStep, PTL DEF ESpec

\* An apply_review_with_gate that rolled back because its tests failed leaves
\* every file nobody else wrote as it found it.
THEOREM ESystemRollsBack == ESpec => []RollbackLeavesProject
<1>1. FilesInv => RollbackLeavesProject
  BY DEF FilesInv, RolledBack, RollbackLeavesProject
<1> QED BY <1>1, TypeInit, TypeStep, FilesInit0, FilesStep, PTL DEF ESpec

---------------------------------------------------------------------------
(* Repair loops.                                                           *)

\* The worktree k is its copy with the first n edits of what is tried made.
EditedTo(k, n) == PatchedTo(loop[k].base, loop[k].cand, n, tree[k])

\* What is tried is what the visa may have left of a candidate.
Chosen(k) == \E cand \in Candidates : loop[k].cand \in Approvable(cand, loop[k].base)

Untried == {"none", "copying", "proposing", "choosing", "patching", "testing", "restoring"}

\* What a worktree holds at every stage of its loop.
Whole(k) ==
    LET l == loop[k] IN
    /\ l.stage \in Untried => ~l.ok
    /\ l.stage = "copying" => \A p \in Paths \ l.todo : tree[k][p] = l.base[p]
    /\ l.stage \in {"proposing", "choosing", "failed"} => tree[k] = l.base
    /\ l.stage = "reviewing" /\ ~l.ok => tree[k] = l.base
    /\ l.stage \in {"patching", "testing", "restoring"} =>
           /\ l.checkpoint = Snapshot(l.base, NamedIn(l.cand))
           /\ \A p \in Paths \ NamedIn(l.cand) : tree[k][p] = l.base[p]
           /\ \A i \in DOMAIN l.snaps : l.snaps[i].path \in NamedIn(l.cand)
    /\ l.stage \in {"proposing", "choosing"} => l.snaps = <<>>
    /\ l.stage \in {"none", "copying"} => l.snaps = <<>>
    /\ l.stage = "patching" =>
           /\ l.at \in 1..Len(l.cand) + 1
           /\ EditedTo(k, l.at - 1)
           /\ Chosen(k)
    /\ \/ l.stage \in {"testing", "passed"}
       \/ l.stage = "reviewing" /\ l.ok
       => EditedTo(k, Len(l.cand)) /\ Chosen(k)

LoopInv == \A k \in Workers : Whole(k)

LEMMA SameWhole ==
  ASSUME NEW k \in Workers, Whole(k), loop'[k] = loop[k], tree'[k] = tree[k] PROVE Whole(k)'
  BY DEF Whole, EditedTo, Chosen

LEMMA TreeIs ==
  ASSUME NEW t \in Trees, NEW u \in Trees, \A p \in Paths : t[p] = u[p] PROVE t = u
  BY DEF Trees

LEMMA NoneMade ==
  ASSUME NEW t \in Trees, NEW edits PROVE PatchedTo(t, edits, 0, t)
<1> DEFINE trees == [i \in 0..0 |-> t]
<1>1. trees \in [0..0 -> Trees] /\ trees[0] = t
  OBVIOUS
<1>2. \A i \in 1..0 : Made(trees[i - 1], edits[i], trees[i])
  OBVIOUS
<1> HIDE DEF trees
<1> QED BY <1>1, <1>2 DEF PatchedTo

LEMMA OneMore ==
  ASSUME NEW t \in Trees, NEW edits, NEW n \in Nat, NEW u \in Trees, NEW v \in Trees,
         PatchedTo(t, edits, n, u), Made(u, edits[n + 1], v)
  PROVE  PatchedTo(t, edits, n + 1, v)
<1> PICK trees \in [0..n -> Trees] :
        /\ trees[0] = t /\ trees[n] = u
        /\ \A i \in 1..n : Made(trees[i - 1], edits[i], trees[i])
  BY DEF PatchedTo
<1> DEFINE more == [i \in 0..n + 1 |-> IF i = n + 1 THEN v ELSE trees[i]]
<1>1. more \in [0..n + 1 -> Trees]
  <2>1. ASSUME NEW i \in 0..n + 1, i # n + 1 PROVE trees[i] \in Trees
    <3>1. i \in 0..n
      BY <2>1
    <3> QED BY <3>1
  <2> QED BY <2>1
<1>2. more[0] = t /\ more[n + 1] = v
  OBVIOUS
<1>3. ASSUME NEW i \in 1..n + 1 PROVE Made(more[i - 1], edits[i], more[i])
  <2>1. i - 1 \in 0..n + 1 /\ i - 1 # n + 1
    OBVIOUS
  <2>2. more[i - 1] = trees[i - 1]
    BY <2>1
  <2>3. CASE i = n + 1
    <3>1. more[i - 1] = u /\ more[i] = v
      BY <2>2, <2>3
    <3> HIDE DEF more
    <3> QED BY <2>3, <3>1
  <2>4. CASE i # n + 1
    <3>1. more[i] = trees[i] /\ i \in 1..n
      BY <2>4
    <3> HIDE DEF more
    <3> QED BY <2>2, <3>1
  <2> QED BY <2>3, <2>4
<1> HIDE DEF more
<1> QED BY <1>1, <1>2, <1>3 DEF PatchedTo

LEMMA LoopIs ==
  ASSUME LoopTypeOK, NEW k \in Workers, NEW s, LoopStage(k, s)
  PROVE  /\ loop'[k].stage = s /\ loop'[k].ok = loop[k].ok /\ loop'[k].todo = loop[k].todo
         /\ loop'[k].base = loop[k].base /\ loop'[k].cand = loop[k].cand
         /\ loop'[k].at = loop[k].at /\ loop'[k].snaps = loop[k].snaps
         /\ loop'[k].checkpoint = loop[k].checkpoint
         /\ \A j \in Workers : j # k => loop'[j] = loop[j]
  BY DEF LoopTypeOK, LoopStage, Loops

\* Undoing the edits of a change set touches the files of the candidate only.
LEMMA GiveUpWhole ==
  ASSUME LType, NEW k \in Workers, Whole(k), loop[k].stage = "patching", GiveUp(k)
  PROVE  Whole(k)'
<1>0. LoopTypeOK /\ tree[k] \in Trees
  BY LoopFields DEF LType
<1>1. /\ loop'[k].stage = "restoring" /\ loop'[k].ok = loop[k].ok
      /\ loop'[k].base = loop[k].base /\ loop'[k].cand = loop[k].cand
      /\ loop'[k].snaps = loop[k].snaps /\ loop'[k].checkpoint = loop[k].checkpoint
  BY <1>0, LoopIs DEF GiveUp
<1>2. ASSUME NEW p \in Paths, p \notin NamedIn(loop[k].cand) PROVE tree'[k][p] = tree[k][p]
  <2>1. {i \in DOMAIN loop[k].snaps : loop[k].snaps[i].path = p} = {}
    BY <1>2 DEF Whole
  <2>2. SnapshotsRestored(tree[k], loop[k].snaps)[p] = tree[k][p]
    BY <2>1 DEF SnapshotsRestored
  <2>3. tree'[k] = SnapshotsRestored(tree[k], loop[k].snaps)
    BY <1>0 DEF GiveUp, LoopTypeOK
  <2> QED BY <2>2, <2>3
<1> QED BY <1>1, <1>2 DEF Whole, Untried

LEMMA ApplyWhole ==
  ASSUME LType, LType', NEW k \in Workers, Whole(k), ApplyEdit(k) PROVE Whole(k)'
<1> DEFINE cand == loop[k].cand
           e == cand[loop[k].at]
           snap == [path |-> e.path, text |-> tree[k][e.path]]
<1>0. /\ LoopTypeOK /\ loop[k].stage = "patching" /\ loop[k].at \in DOMAIN cand
      /\ loop[k].at \in Nat /\ cand \in Seq(Edits) /\ Len(cand) \in Nat
      /\ loop[k].at \in 1..Len(cand) /\ tree[k] \in Trees
  <2>1. LoopTypeOK /\ loop[k].stage = "patching" /\ loop[k].at \in DOMAIN cand
    BY DEF ApplyEdit, LType
  <2>2. loop[k].at \in Nat /\ cand \in Seq(Edits) /\ tree[k] \in Trees
    BY <2>1, LoopFields
  <2> HIDE DEF cand
  <2> QED BY <2>1, <2>2
<1>1. CASE GiveUp(k)
  BY <1>0, <1>1, GiveUpWhole
<1>2. CASE LoopStage(k, "restoring") /\ UNCHANGED tree
  BY <1>0, <1>2, LoopIs DEF Whole, Untried
<1>3. CASE /\ tree[k][e.path] \in DOMAIN e.to
           /\ tree' = [tree EXCEPT ![k][e.path] = e.to[tree[k][e.path]]]
           /\ loop' = [loop EXCEPT ![k].at = @ + 1, ![k].snaps = Append(@, snap)]
  <2>1. /\ loop'[k].stage = "patching" /\ loop'[k].ok = loop[k].ok
        /\ loop'[k].base = loop[k].base /\ loop'[k].cand = cand
        /\ loop'[k].checkpoint = loop[k].checkpoint
        /\ loop'[k].at = loop[k].at + 1 /\ loop'[k].snaps = Append(loop[k].snaps, snap)
    BY <1>0, <1>3 DEF LoopTypeOK, Loops
  <2> DEFINE n == loop[k].at - 1
  <2>2. n \in Nat /\ loop[k].at = n + 1
    <3> HIDE DEF cand
    <3> QED BY <1>0
  <2>3. Made(tree[k], e, tree'[k])
    BY <1>0, <1>3 DEF Made, LoopTypeOK
  <2>4. loop[k].at - 1 = n /\ loop'[k].at - 1 = n + 1
    BY <1>0, <2>1, <2>2
  <2> HIDE DEF n
  <2>5. EditedTo(k, loop[k].at - 1)'
    <3>1. tree'[k] \in Trees /\ loop[k].base \in Trees
      BY <1>0, LoopFields DEF LType, LoopTypeOK
    <3>2. PatchedTo(loop[k].base, cand, n, tree[k])
      BY <1>0, <2>4 DEF Whole, EditedTo
    <3>3. PatchedTo(loop[k].base, cand, n + 1, tree'[k])
      BY <1>0, <2>2, <2>3, <3>1, <3>2, OneMore
    <3> QED BY <2>1, <2>4, <3>3 DEF EditedTo
  <2>6. e.path \in NamedIn(cand)
    BY <1>0 DEF NamedIn
  <2>7. \A p \in Paths : p # e.path => tree'[k][p] = tree[k][p]
    BY <1>0, <1>3 DEF LoopTypeOK, Trees
  <2>8. \A i \in DOMAIN Append(loop[k].snaps, snap) :
            Append(loop[k].snaps, snap)[i].path \in NamedIn(cand)
    <3>1. loop[k].snaps \in Seq(Snapshots)
      BY <1>0, LoopFields
    <3> HIDE DEF snap
    <3>2. \A i \in DOMAIN Append(loop[k].snaps, snap) :
              \/ i \in DOMAIN loop[k].snaps /\ Append(loop[k].snaps, snap)[i] = loop[k].snaps[i]
              \/ Append(loop[k].snaps, snap)[i] = snap
      BY <3>1
    <3>3. snap.path \in NamedIn(cand)
      BY <2>6 DEF snap
    <3> QED BY <1>0, <3>2, <3>3 DEF Whole
  <2>9. loop'[k].at \in 1..Len(cand) + 1
    BY <1>0, <2>1
  <2> HIDE DEF snap, e
  <2>10. \A p \in Paths \ NamedIn(cand) : tree'[k][p] = loop[k].base[p]
    BY <1>0, <2>6, <2>7 DEF Whole
  <2>11. Chosen(k)'
    BY <1>0, <2>1 DEF Whole, Chosen
  <2> QED BY <1>0, <2>1, <2>5, <2>8, <2>9, <2>10, <2>11 DEF Whole, Untried
<1> QED BY <1>0, <1>1, <1>2, <1>3 DEF ApplyEdit

LEMMA CreateWhole ==
  ASSUME LType, NEW k \in Workers, Whole(k), CreateWorktree(k) PROVE Whole(k)'
<1>1. /\ loop'[k].stage = "copying" /\ loop'[k].ok = loop[k].ok /\ loop'[k].snaps = loop[k].snaps
      /\ loop'[k].todo = Paths /\ loop[k].stage = "none"
  BY DEF CreateWorktree, LType, LoopTypeOK, Loops
<1> QED BY <1>1 DEF Whole, Untried

LEMMA CopyWhole ==
  ASSUME LType, NEW k \in Workers, Whole(k), CopyFile(k), LType' PROVE Whole(k)'
<1>0. /\ loop \in [Workers -> Loops] /\ loop[k] \in Loops /\ loop[k].base \in Trees
      /\ tree \in [Workers -> Trees] /\ tree[k] \in Trees /\ loop[k].todo \in SUBSET Paths
  BY LoopFields DEF LType, LoopTypeOK
<1>1. PICK p \in loop[k].todo :
          /\ tree' = [tree EXCEPT ![k][p] = project[p]]
          /\ loop' = [loop EXCEPT ![k].todo = @ \ {p}, ![k].base[p] = project[p],
                         ![k].stage = IF loop[k].todo = {p} THEN "proposing" ELSE @]
  BY DEF CopyFile
<1>2. /\ loop'[k].todo = loop[k].todo \ {p} /\ loop'[k].base = [loop[k].base EXCEPT ![p] = project[p]]
      /\ loop'[k].stage = (IF loop[k].todo = {p} THEN "proposing" ELSE "copying")
      /\ loop'[k].ok = loop[k].ok /\ loop'[k].snaps = loop[k].snaps
      /\ tree'[k] = [tree[k] EXCEPT ![p] = project[p]] /\ loop[k].stage = "copying"
  BY <1>0, <1>1 DEF CopyFile, Loops
<1>3. ASSUME NEW r \in Paths \ loop'[k].todo PROVE tree'[k][r] = loop'[k].base[r]
  BY <1>0, <1>2, <1>3 DEF Whole, Trees
<1>4. ASSUME loop[k].todo = {p} PROVE tree'[k] = loop'[k].base
  <2>1. tree'[k] \in Trees /\ loop'[k].base \in Trees
    BY DEF LType, LoopTypeOK, Loops
  <2>2. loop'[k].todo = {}
    BY <1>2, <1>4
  <2>3. \A r \in Paths : tree'[k][r] = loop'[k].base[r]
    BY <1>3, <2>2
  <2> QED BY <2>1, <2>3, TreeIs
<1> QED BY <1>2, <1>3, <1>4 DEF Whole, Untried

LEMMA ProposeWhole ==
  ASSUME LType, NEW k \in Workers, Whole(k), Propose(k) \/ NoneLeft(k) PROVE Whole(k)'
<1>1. /\ loop[k].stage \in {"proposing", "choosing"} /\ tree'[k] = tree[k]
      /\ loop'[k].stage \in {"proposing", "choosing", "reviewing"}
      /\ loop'[k].ok = loop[k].ok /\ loop'[k].base = loop[k].base /\ loop'[k].snaps = loop[k].snaps
  BY DEF Propose, NoneLeft, LoopStage, LType, LoopTypeOK, Loops
<1> QED BY <1>1 DEF Whole, Untried

LEMMA ChooseWhole ==
  ASSUME LType, NEW k \in Workers, Whole(k), Choose(k) PROVE Whole(k)'
<1> PICK cand \in Candidates : \E left \in Approvable(cand, tree[k]) :
        loop' = [loop EXCEPT ![k].stage = "patching", ![k].cand = left, ![k].at = 1,
                    ![k].checkpoint = Snapshot(tree[k], NamedIn(left))]
  BY DEF Choose
<1>1. PICK left \in Approvable(cand, tree[k]) :
          loop' = [loop EXCEPT ![k].stage = "patching", ![k].cand = left, ![k].at = 1,
                      ![k].checkpoint = Snapshot(tree[k], NamedIn(left))]
  OBVIOUS
<1>2. /\ loop[k].stage = "choosing" /\ tree'[k] = tree[k] /\ loop'[k].cand = left
      /\ loop'[k].stage = "patching" /\ loop'[k].at = 1 /\ loop'[k].snaps = loop[k].snaps
      /\ loop'[k].checkpoint = Snapshot(tree[k], NamedIn(left))
      /\ loop'[k].ok = loop[k].ok /\ loop'[k].base = loop[k].base
  BY <1>1 DEF Choose, LType, LoopTypeOK, Loops
<1>3. /\ tree[k] = loop[k].base /\ loop[k].snaps = <<>> /\ ~loop[k].ok
  BY <1>2 DEF Whole, Untried
<1>4. EditedTo(k, loop[k].at - 1)'
  <2>1. PatchedTo(tree[k], left, 0, tree[k])
    BY NoneMade, LoopFields DEF LType
  <2>2. loop'[k].at - 1 = 0
    BY <1>2
  <2> QED BY <1>2, <1>3, <2>1, <2>2 DEF EditedTo
<1>5. loop'[k].at \in 1..Len(loop'[k].cand) + 1
  <2>1. left \in Seq(Edits)
    BY LoopAssumption, ApprovedEdits
  <2>2. Len(left) \in Nat
    BY <2>1
  <2>3. 1 \in 1..Len(left) + 1
    BY <2>2
  <2> QED BY <1>2, <2>3
<1>6. Chosen(k)'
  BY <1>2, <1>3 DEF Chosen
<1>7. /\ loop'[k].checkpoint = Snapshot(loop'[k].base, NamedIn(loop'[k].cand))
      /\ tree'[k] = loop'[k].base /\ loop'[k].snaps = <<>> /\ ~loop'[k].ok
  BY <1>2, <1>3
<1>8. loop'[k].stage = "patching"
  BY <1>2
<1> QED BY ONLY <1>4, <1>5, <1>6, <1>7, <1>8 DEF Whole, Untried

LEMMA TestWhole ==
  ASSUME LType, NEW k \in Workers, Whole(k), RunTargetedTests(k) PROVE Whole(k)'
<1>1. CASE GiveUp(k)
  BY <1>1, GiveUpWhole DEF RunTargetedTests
<1>2. CASE LoopStage(k, "testing") /\ UNCHANGED tree
  <2>1. /\ loop[k].stage = "patching" /\ loop[k].at \notin DOMAIN loop[k].cand
        /\ loop'[k].stage = "testing" /\ loop'[k].ok = loop[k].ok /\ loop'[k].base = loop[k].base
        /\ loop'[k].cand = loop[k].cand /\ loop'[k].checkpoint = loop[k].checkpoint
        /\ loop'[k].snaps = loop[k].snaps /\ tree'[k] = tree[k]
    BY <1>2, LoopIs DEF LType, RunTargetedTests
  <2>2. loop[k].at - 1 = Len(loop[k].cand)
    <3>1. loop[k].cand \in Seq(Edits) /\ loop[k].at \in 1..Len(loop[k].cand) + 1
      BY <2>1, LoopFields DEF LType, Whole
    <3> QED BY <2>1, <3>1
  <2>3. EditedTo(k, Len(loop[k].cand)) /\ Chosen(k)
    BY <2>1, <2>2 DEF Whole
  <2>4. EditedTo(k, Len(loop[k].cand))' /\ Chosen(k)'
    BY <2>1, <2>3 DEF EditedTo, Chosen
  <2> QED BY <2>1, <2>4 DEF Whole, Untried
<1> QED BY <1>1, <1>2 DEF RunTargetedTests

LEMMA FullTestsWhole ==
  ASSUME LType, NEW k \in Workers, Whole(k), RunFullTests(k) PROVE Whole(k)'
<1>1. /\ loop[k].stage = "testing" /\ tree'[k] = tree[k] /\ loop'[k].base = loop[k].base
      /\ loop'[k].cand = loop[k].cand /\ loop'[k].checkpoint = loop[k].checkpoint
      /\ loop'[k].snaps = loop[k].snaps
      /\ \/ loop'[k].stage = "restoring" /\ loop'[k].ok = loop[k].ok
         \/ loop'[k].stage = "reviewing" /\ loop'[k].ok = TRUE
  BY DEF RunFullTests, LoopStage, LType, LoopTypeOK, Loops
<1>2. EditedTo(k, Len(loop[k].cand))' /\ Chosen(k)'
  BY <1>1 DEF Whole, EditedTo, Chosen
<1> QED BY <1>1, <1>2 DEF Whole, Untried

LEMMA RestoreWhole ==
  ASSUME LType, LType', NEW k \in Workers, Whole(k), RestoreCandidate(k) PROVE Whole(k)'
<1>1. /\ loop[k].stage = "restoring" /\ tree'[k] = Restored(tree[k], loop[k].checkpoint)
      /\ loop'[k] = [NoLoop("choosing") EXCEPT !.round = loop[k].round, !.base = loop[k].base]
  BY DEF RestoreCandidate, LType, LoopTypeOK
<1>2. /\ loop'[k].stage = "choosing" /\ ~loop'[k].ok /\ loop'[k].snaps = <<>>
      /\ loop'[k].base = loop[k].base
  BY <1>1 DEF NoLoop
<1>3. ASSUME NEW p \in Paths PROVE tree'[k][p] = loop[k].base[p]
  BY <1>1 DEF Whole, Restored, Snapshot
<1>4. tree'[k] = loop[k].base
  <2>1. tree'[k] \in Trees /\ loop[k].base \in Trees
    BY DEF LType, LoopTypeOK, Loops
  <2> QED BY <1>3, <2>1, TreeIs
<1> QED BY <1>2, <1>4 DEF Whole, Untried

LEMMA FinishWhole ==
  ASSUME LType, NEW k \in Workers, Whole(k), FinishLoop(k) PROVE Whole(k)'
<1> DEFINE s == IF loop[k].ok THEN "passed" ELSE "failed"
<1>1. /\ loop'[k].stage = s /\ loop[k].stage = "reviewing" /\ tree'[k] = tree[k]
      /\ loop'[k].ok = loop[k].ok /\ loop'[k].base = loop[k].base /\ loop'[k].cand = loop[k].cand
  BY LoopIs DEF FinishLoop, LType
<1>2. loop[k].ok => EditedTo(k, Len(loop[k].cand))' /\ Chosen(k)'
  BY <1>1 DEF Whole, EditedTo, Chosen
<1>3. ~loop[k].ok => tree'[k] = loop'[k].base
  BY <1>1 DEF Whole
<1> QED BY <1>1, <1>2, <1>3 DEF Whole, Untried

\* By hand, a worktree without a loop is made, written, reviewed, removed.
LEMMA CommandWhole ==
  ASSUME LType, NEW k \in Workers, Whole(k), WorktreeCommand(k) PROVE Whole(k)'
<1>1. CASE Review(k)
  BY <1>1, SameWhole DEF Review
<1>2. CASE CreateSelected(k) \/ RunInWorktree(k)
  <2>1. loop'[k].stage = "used"
    BY <1>2, LoopIs DEF CreateSelected, RunInWorktree, LType
  <2> QED BY <2>1 DEF Whole, Untried
<1>3. CASE RemoveWorktree(k)
  <2>1. loop'[k].stage = "removed"
    BY <1>3 DEF RemoveWorktree, NoLoop, LType, LoopTypeOK
  <2> QED BY <2>1 DEF Whole, Untried
<1> QED BY <1>1, <1>2, <1>3 DEF WorktreeCommand

\* A loop writes no worktree but its own.
LEMMA OtherTrees ==
  ASSUME LType, NEW k \in Workers, NEW j \in Workers, j # k,
         CreateWorktree(k) \/ LoopStep(k) \/ WorktreeCommand(k)
  PROVE  loop'[j] = loop[j] /\ tree'[j] = tree[j]
<1> USE DEF LType, LoopTypeOK, LoopStage
<1>1. CASE CreateWorktree(k) \/ WorktreeCommand(k)
  BY <1>1 DEF CreateWorktree, WorktreeCommand, CreateSelected, Review, RunInWorktree, RemoveWorktree
<1>2. CASE LoopStep(k)
  BY <1>2 DEF LoopStep, CopyFile, Propose, Choose, NoneLeft, ApplyEdit, GiveUp, RunTargetedTests,
              RunFullTests, RestoreCandidate, FinishLoop
<1> QED BY <1>1, <1>2

LEMMA LoopsInit == EInit => LoopInv
  BY DEF EInit, LoopInit, NoLoop, LoopInv, Whole, Untried

LEMMA LoopsStep == TypeInv /\ TypeInv' /\ LoopInv /\ [ENext]_eVars => LoopInv'
<1> SUFFICES ASSUME TypeInv, TypeInv', LoopInv, [ENext]_eVars PROVE LoopInv'
  OBVIOUS
<1>0. LType /\ LType'
  BY DEF TypeInv, AllType
<1>1. CASE UNCHANGED <<loop, tree>>
  BY <1>1, SameWhole DEF LoopInv
<1>2. ASSUME NEW k \in Workers, CreateWorktree(k) \/ LoopStep(k) \/ WorktreeCommand(k)
      PROVE  LoopInv'
  <2>1. Whole(k)
    BY DEF LoopInv
  <2>2. Whole(k)'
    BY <1>0, <1>2, <2>1, CreateWhole, CopyWhole, ProposeWhole, ChooseWhole, ApplyWhole, TestWhole,
       FullTestsWhole, RestoreWhole, FinishWhole, CommandWhole DEF LoopStep
  <2> QED BY <1>0, <1>2, <2>2, OtherTrees, SameWhole DEF LoopInv
<1>3. CASE UNCHANGED eVars
  BY <1>3, <1>1 DEF eVars, loopVars
<1>4. ASSUME ENext PROVE UNCHANGED <<loop, tree>> \/ \E k \in Workers : Loop(k)
  <2>1. ASSUME NEW g \in Appliers, Apply(g) PROVE UNCHANGED <<loop, tree>>
    BY <2>1 DEF Apply, Evaluate, ApplyByHand, GateStep, LoadReview, CheckpointChanged, CopyChanged,
                UnlinkDeleted, FinishApply, RunTests, RollBackFile, EndRollBack, loopVars
  <2> QED BY <1>4, <2>1 DEF ENext, Tool, Restore, Decision, Time, loopVars
<1> QED BY <1>1, <1>2, <1>3, <1>4 DEF Loop

\* run_isolated_repair_loop leaves its worktree as copied, or with all that the
\* visa left of one candidate: the checkpoint covers what a blocked change set
\* leaves behind.
THEOREM ESystemLoops == ESpec => []LoopAllOrNothing
<1>1. LoopInv => LoopAllOrNothing
  BY DEF LoopInv, Whole, EditedTo, Chosen, LoopAllOrNothing
<1> QED BY <1>1, TypeInit, TypeStep, LoopsInit, LoopsStep, PTL DEF ESpec

---------------------------------------------------------------------------
(* From repair to project.                                                 *)

\* Whoever watches the project sees a step of others in foreign.
Noticed(u) ==
    /\ start'[u] = start[u] /\ foreign[u] \subseteq foreign'[u]
    /\ start[u] # NoFiles => \A p \in Paths \ foreign'[u] : project'[p] = project[p]

LEMMA EffectNoticed ==
  ASSUME FilesTypeOK, NEW w \in Actors, FileEffect(w), NEW u \in Actors, u # w PROVE Noticed(u)
<1>1. CASE UNCHANGED fileVars
  BY <1>1 DEF fileVars, Noticed
<1>2. CASE Forget(w) \/ Watch(w, NoFiles) \/ \E S \in SUBSET Paths : TakeCheckpoint(w, S)
  BY <1>2 DEF Forget, TakeCheckpoint, Watch, FilesTypeOK, Noticed
<1>3. ASSUME NEW p \in Paths, NEW v, Write(w, p, v) PROVE Noticed(u)
  BY <1>3 DEF Write, Wrote, FilesTypeOK, Trees, Noticed
<1> QED BY <1>1, <1>2, <1>3 DEF FileEffect

LEMMA RestoreNoticed ==
  ASSUME FilesTypeOK, NEW w \in Actors, RestoreCommand(w), NEW u \in Actors PROVE Noticed(u)
  BY DEF RestoreCommand, Restored, FilesTypeOK, Noticed

Finished == {"passed", "failed", "used", "removed"}
Based == {"proposing", "choosing", "patching", "testing", "restoring", "reviewing", "passed", "failed"}

\* r is the difference between k's worktree and the project it was copied
\* from, for the files outside S.
ReviewIs(k, r, S) ==
    \A p \in Paths \ S :
        /\ p \in r.put <=> tree[k][p] # Absent /\ tree[k][p] # start[k][p]
        /\ p \in r.gone <=> tree[k][p] = Absent /\ start[k][p] # Absent

\* While nobody else writes, the project stays what worktree k was copied
\* from, and the review of a loop that passed is the repair.
Copied(k) ==
    LET l == loop[k] IN
    /\ l.stage \in Based \cup {"copying"} => start[k] \in Trees
    /\ start[k] \in Trees => \A p \in Paths \ foreign[k] : project[p] = start[k][p]
    /\ l.stage = "copying" => \A p \in Paths \ (foreign[k] \cup l.todo) : l.base[p] = start[k][p]
    /\ l.stage \in Based => \A p \in Paths \ foreign[k] : l.base[p] = start[k][p]
    /\ l.stage = "passed" => review[k].known /\ ReviewIs(k, review[k], foreign[k])
    /\ review[k].known => l.stage \in Finished

\* What a gate has copied so far of the repair it found.
Delivered(g) ==
    LET k == gate[g].of IN
    /\ gate[g].stage \in {"loading", "copying", "testing", "applied", "passed"} =>
           \A p \in Paths \ foreign[g] :
               project[p] = IF \/ gate[g].stage = "loading"
                               \/ gate[g].stage = "copying" /\ p \in gate[g].left
                               \/ p \notin gate[g].put \cup gate[g].gone
                            THEN start[g][p]
                            ELSE IF p \in gate[g].put THEN tree[k][p] ELSE Absent

Delivers(g) ==
    LET k == gate[g].of IN
    /\ gate[g].stage \in {"allowed", "loading", "copying"} => loop[k].stage \in Finished
    /\ gate[g].stage = "allowed" /\ loop[k].stage = "passed" => ReviewIs(k, gate[g], foreign[k])
    /\ gate[g].fresh =>
           loop[k].stage \in Finished /\ start[k] \in Trees /\ start[g] = start[k]
    /\ gate[g].fresh /\ loop[k].stage = "passed" =>
           /\ \A p \in Paths : loop[k].base[p] = start[k][p]
           /\ ReviewIs(k, gate[g], {})
           /\ Delivered(g)

DeliveryInv == (\A k \in Workers : Copied(k)) /\ (\A g \in Appliers : Delivers(g))

LEMMA CopiedStays ==
  ASSUME NEW k \in Workers, Copied(k), Noticed(k), loop'[k] = loop[k], tree'[k] = tree[k],
         \/ review'[k] = review[k]
         \/ ~review[k].known /\ loop[k].stage \in Finished
  PROVE  Copied(k)'
<1>1. ASSUME NEW p \in Paths \ foreign'[k], start[k] \in Trees
      PROVE  p \notin foreign[k] /\ project'[p] = project[p] /\ start'[k] = start[k]
  BY <1>1, Watching DEF Noticed
<1>2. start'[k] = start[k]
  BY DEF Noticed
<1> QED BY <1>1, <1>2 DEF Copied, ReviewIs, Based, Finished

LEMMA DeliversStays ==
  ASSUME NEW g \in Appliers, Delivers(g), Noticed(g), gate'[g] = gate[g],
         NEW k, k = gate[g].of,
         loop[k].stage \in Finished =>
             /\ Noticed(k)
             /\ \/ loop'[k] = loop[k] /\ tree'[k] = tree[k]
                \/ loop'[k].stage \in Finished /\ loop'[k].stage # "passed"
  PROVE  Delivers(g)'
<1>1. CASE loop[k].stage \notin Finished
  BY <1>1 DEF Delivers, Finished
<1>2. CASE loop[k].stage \in Finished /\ loop'[k].stage \in Finished /\ loop'[k].stage # "passed"
  BY <1>2 DEF Delivers, Noticed
<1>3. CASE loop[k].stage \in Finished /\ loop'[k] = loop[k] /\ tree'[k] = tree[k]
  <2>1. /\ start'[k] = start[k] /\ start'[g] = start[g] /\ foreign[k] \subseteq foreign'[k]
    BY <1>3 DEF Noticed
  <2>2. ASSUME gate[g].fresh, loop[k].stage = "passed", Delivered(g) PROVE Delivered(g)'
    <3>1. ASSUME NEW p \in Paths \ foreign'[g]
          PROVE  p \notin foreign[g] /\ project'[p] = project[p]
      BY <2>2, Watching DEF Noticed, Delivers
    <3> QED BY <1>3, <2>1, <2>2, <3>1 DEF Delivered
  <2>3. ASSUME ReviewIs(k, gate[g], {}) PROVE ReviewIs(k, gate[g], {})'
    BY <1>3, <2>1, <2>3 DEF ReviewIs
  <2>4. ASSUME ReviewIs(k, gate[g], foreign[k]) PROVE ReviewIs(k, gate[g], foreign[k])'
    BY <1>3, <2>1, <2>4 DEF ReviewIs
  <2> QED BY <1>3, <2>1, <2>2, <2>3, <2>4 DEF Delivers
<1> QED BY <1>1, <1>2, <1>3

\* What the steps of a loop keep of its copy.
LEMMA KeepsBase ==
  ASSUME LType, LType', NEW k \in Workers, LoopStep(k)
  PROVE  \/ CopyFile(k)
         \/ /\ loop[k].stage \in Based /\ loop'[k].stage \in Based \ {"passed"}
            /\ loop'[k].base = loop[k].base /\ review' = review /\ UNCHANGED fileVars
            /\ loop[k].stage \notin Finished
         \/ FinishLoop(k)
<1> USE DEF LType, LoopTypeOK, Based, Finished
<1>1. CASE Propose(k) \/ NoneLeft(k)
  BY <1>1 DEF Propose, NoneLeft, LoopStage, Loops
<1>2. CASE Choose(k)
  <2>1. PICK left, snap :
            loop' = [loop EXCEPT ![k].stage = "patching", ![k].cand = left, ![k].at = 1,
                        ![k].checkpoint = snap]
    BY <1>2 DEF Choose
  <2>2. loop[k].stage = "choosing" /\ UNCHANGED <<fileVars, review>>
    BY <1>2 DEF Choose
  <2>3. loop'[k].stage = "patching" /\ loop'[k].base = loop[k].base
    BY <2>1 DEF Loops
  <2> QED BY <2>2, <2>3
<1>3. CASE ApplyEdit(k)
  <2>1. /\ loop[k].stage = "patching" /\ UNCHANGED <<fileVars, review>>
        /\ \/ LoopStage(k, "restoring")
           \/ \E snaps : loop' = [loop EXCEPT ![k].at = @ + 1, ![k].snaps = snaps]
    BY <1>3 DEF ApplyEdit, GiveUp
  <2>2. loop'[k].stage \in {"patching", "restoring"} /\ loop'[k].base = loop[k].base
    BY <2>1 DEF LoopStage, Loops
  <2> QED BY <2>1, <2>2
<1>4. CASE RunTargetedTests(k)
  BY <1>4 DEF RunTargetedTests, GiveUp, LoopStage, Loops
<1>5. CASE RunFullTests(k)
  BY <1>5 DEF RunFullTests, LoopStage, Loops
<1>6. CASE RestoreCandidate(k)
  BY <1>6 DEF RestoreCandidate, NoLoop, Loops
<1> QED BY <1>1, <1>2, <1>3, <1>4, <1>5, <1>6 DEF LoopStep

LEMMA LoopCopied ==
  ASSUME LType, LType', FilesTypeOK, NEW k \in Workers, Copied(k), LoopStep(k)
  PROVE  Copied(k)'
<1>1. CASE CopyFile(k)
  <2>0. /\ loop \in [Workers -> Loops] /\ loop[k] \in Loops /\ loop[k].base \in Trees
        /\ loop[k].todo \in SUBSET Paths
    BY LoopFields DEF LType, LoopTypeOK
  <2>1. PICK p \in loop[k].todo :
            loop' = [loop EXCEPT ![k].todo = @ \ {p}, ![k].base[p] = project[p],
                           ![k].stage = IF loop[k].todo = {p} THEN "proposing" ELSE @]
    BY <1>1 DEF CopyFile
  <2>2. /\ loop'[k].todo = loop[k].todo \ {p} /\ loop'[k].base = [loop[k].base EXCEPT ![p] = project[p]]
        /\ loop'[k].stage = (IF loop[k].todo = {p} THEN "proposing" ELSE "copying")
        /\ loop[k].stage = "copying" /\ review' = review /\ UNCHANGED fileVars
    BY <1>1, <2>0, <2>1 DEF CopyFile, Loops
  <2>3. /\ start[k] \in Trees
        /\ \A r \in Paths \ foreign[k] : project[r] = start[k][r]
        /\ \A r \in Paths \ (foreign[k] \cup loop[k].todo) : loop[k].base[r] = start[k][r]
        /\ ~review[k].known
    BY <2>2 DEF Copied, Finished
  <2>4. \A r \in Paths \ (foreign[k] \cup loop'[k].todo) : loop'[k].base[r] = start[k][r]
    BY <2>0, <2>2, <2>3 DEF Trees
  <2>5. loop[k].todo = {p} => loop'[k].todo = {}
    BY <2>2
  <2> QED BY <2>2, <2>3, <2>4, <2>5 DEF Copied, Based, Finished, fileVars
<1>2. CASE FinishLoop(k)
  <2>1. /\ loop[k].stage = "reviewing" /\ loop'[k].stage \in {"passed", "failed"}
        /\ loop'[k].base = loop[k].base /\ review'[k] = Reviewed(k) /\ UNCHANGED <<fileVars, tree>>
    BY <1>2, LoopIs DEF FinishLoop, LType, LoopTypeOK
  <2>2. /\ start[k] \in Trees
        /\ \A p \in Paths \ foreign[k] : project[p] = start[k][p] /\ loop[k].base[p] = start[k][p]
    BY <2>1 DEF Copied, Based
  <2>3. ReviewIs(k, review[k], foreign[k])'
    BY <2>1, <2>2 DEF Reviewed, ReviewIs, fileVars
  <2>4. review'[k].known
    BY <2>1 DEF Reviewed
  <2> QED BY <2>1, <2>2, <2>3, <2>4 DEF Copied, Based, Finished, fileVars
<1>3. CASE /\ loop[k].stage \in Based /\ loop'[k].stage \in Based \ {"passed"}
           /\ loop'[k].base = loop[k].base /\ review' = review /\ UNCHANGED fileVars
           /\ loop[k].stage \notin Finished
  BY <1>3 DEF Copied, Based, Finished, fileVars
<1> QED BY <1>1, <1>2, <1>3, KeepsBase

LEMMA CreateCopied ==
  ASSUME LType, FilesTypeOK, NEW k \in Workers, Copied(k), CreateWorktree(k)
  PROVE  Copied(k)' /\ loop[k].stage \notin Finished
<1>0. k \in Actors
  BY LoopAssumption
<1>1. /\ loop[k].stage = "none" /\ loop'[k].stage = "copying" /\ loop'[k].todo = Paths
      /\ review' = review
  BY DEF CreateWorktree, LType, LoopTypeOK, Loops
<1>2. start'[k] = project /\ project' = project /\ project \in Trees
  BY <1>0 DEF CreateWorktree, Watch, FilesTypeOK
<1> QED BY <1>1, <1>2 DEF Copied, Based, Finished

\* A command in the worktree ends its being the repair, a review does not.
LEMMA CommandCopied ==
  ASSUME LType, NEW k \in Workers, Copied(k), WorktreeCommand(k)
  PROVE  /\ Copied(k)'
         /\ loop[k].stage \in Finished =>
                \/ loop'[k] = loop[k] /\ tree'[k] = tree[k]
                \/ loop'[k].stage \in Finished /\ loop'[k].stage # "passed"
<1>0. UNCHANGED fileVars
  BY DEF WorktreeCommand, CreateSelected, Review, RunInWorktree, RemoveWorktree
<1>1. CASE CreateSelected(k) \/ RunInWorktree(k)
  <2>1. loop'[k].stage = "used" /\ review' = review
    BY <1>1, LoopIs DEF CreateSelected, RunInWorktree, LType
  <2> QED BY <1>0, <2>1 DEF Copied, Based, Finished, fileVars
<1>2. CASE RemoveWorktree(k)
  <2>1. loop'[k].stage = "removed"
    BY <1>2 DEF RemoveWorktree, NoLoop, LType, LoopTypeOK
  <2> QED BY <1>0, <2>1 DEF Copied, Based, Finished, fileVars
<1>3. CASE Review(k)
  <2>1. /\ loop[k].stage \in Finished /\ review'[k] = Reviewed(k) /\ UNCHANGED <<tree, loop>>
    BY <1>3 DEF Review, LType, LoopTypeOK, Finished
  <2>2. loop[k].stage = "passed" => ReviewIs(k, review[k], foreign[k])'
    BY <1>0, <2>1 DEF Reviewed, ReviewIs, Copied, Based, fileVars
  <2>3. review'[k].known
    BY <2>1 DEF Reviewed
  <2> QED BY <1>0, <2>1, <2>2, <2>3 DEF Copied, Based, Finished, fileVars
<1> QED BY <1>1, <1>2, <1>3 DEF WorktreeCommand

LEMMA OtherReviews ==
  ASSUME LType, NEW k \in Workers, NEW j \in Workers, j # k,
         CreateWorktree(k) \/ LoopStep(k) \/ WorktreeCommand(k)
  PROVE  review'[j] = review[j]
<1> USE DEF LType, LoopTypeOK
<1>1. CASE CreateWorktree(k) \/ WorktreeCommand(k)
  BY <1>1 DEF CreateWorktree, WorktreeCommand, CreateSelected, Review, RunInWorktree, RemoveWorktree
<1>2. CASE LoopStep(k)
  BY <1>2 DEF LoopStep, CopyFile, Propose, Choose, NoneLeft, ApplyEdit, RunTargetedTests,
              RunFullTests, RestoreCandidate, FinishLoop
<1> QED BY <1>1, <1>2

LEMMA OpenDelivers ==
  ASSUME TypeInv, NEW g \in Appliers, NEW k \in Workers, Copied(k), Evaluate(g, k) \/ ApplyByHand(g, k)
  PROVE  Delivers(g)'
<1>0. /\ gate \in [Appliers -> Gates] /\ g \in Actors /\ k \in Actors /\ g # k /\ FilesTypeOK
  BY GateAssumption, LoopAssumption, SystemAssumption DEF TypeInv, AllType, GType
<1>1. /\ review[k].known /\ loop[k].stage \in Finished /\ UNCHANGED loopVars
      /\ start'[k] = start[k] /\ foreign'[k] = foreign[k]
  BY <1>0 DEF Evaluate, ApplyByHand, Forget, FilesTypeOK, Copied
<1>2. CASE gate' = [gate EXCEPT ![g] = [NoGate EXCEPT !.stage = "blocked"]]
  <2>1. gate'[g].stage = "blocked" /\ ~gate'[g].fresh
    BY <1>0, <1>2 DEF NoGate
  <2> QED BY <2>1 DEF Delivers
<1>3. CASE gate' = [gate EXCEPT ![g] = [NoGate EXCEPT !.stage = "allowed", !.of = k,
                 !.put = review[k].put, !.gone = review[k].gone, !.gated = TRUE]]
  <2>1. /\ gate'[g].stage = "allowed" /\ ~gate'[g].fresh /\ gate'[g].of = k
        /\ gate'[g].put = review[k].put /\ gate'[g].gone = review[k].gone
    BY <1>0, <1>3 DEF NoGate
  <2>2. loop[k].stage = "passed" => ReviewIs(k, review[k], foreign[k])
    BY DEF Copied
  <2>3. loop'[k].stage = "passed" => ReviewIs(k, gate[g], foreign[k])'
    BY <1>1, <2>1, <2>2 DEF ReviewIs, loopVars
  <2> QED BY <1>1, <2>1, <2>3 DEF Delivers, loopVars
<1>4. CASE gate' = [gate EXCEPT ![g] = [NoGate EXCEPT !.stage = "loading", !.of = k,
                 !.put = review[k].put, !.gone = review[k].gone]]
  <2>1. gate'[g].stage = "loading" /\ ~gate'[g].fresh /\ gate'[g].of = k
    BY <1>0, <1>4 DEF NoGate
  <2> QED BY <1>1, <2>1 DEF Delivers, loopVars
<1> QED BY <1>2, <1>3, <1>4 DEF Evaluate, ApplyByHand

\* A step of a gate that keeps its repair and its place in the project.
LEMMA GoesOn ==
  ASSUME NEW g \in Appliers, NEW k, k = gate[g].of, Delivers(g), loop' = loop, tree' = tree,
         start'[k] = start[k], start'[g] = start[g],
         gate'[g].of = k, gate'[g].put = gate[g].put, gate'[g].gone = gate[g].gone,
         gate'[g].fresh = gate[g].fresh, gate'[g].stage # "allowed",
         gate'[g].stage \in {"loading", "copying"} => loop[k].stage \in Finished,
         gate[g].fresh /\ loop[k].stage = "passed" /\ Delivered(g) => Delivered(g)'
  PROVE  Delivers(g)'
<1>1. ASSUME ReviewIs(k, gate[g], {}) PROVE ReviewIs(k, gate[g], {})'
  BY <1>1 DEF ReviewIs
<1> QED BY <1>1 DEF Delivers

LEMMA GateDelivers ==
  ASSUME TypeInv, FilesInv, NEW g \in Appliers, Copied(gate[g].of), Delivers(g), GateStep(g)
  PROVE  Delivers(g)'
<1>k. PICK k : k = gate[g].of
  OBVIOUS
<1>0. /\ GType /\ gate \in [Appliers -> Gates] /\ gate[g] \in Gates /\ k \in Workers
      /\ gate[g].left \in SUBSET Paths /\ gate[g].put \in SUBSET Paths
      /\ gate[g].gone \in SUBSET Paths
      /\ g \in Actors /\ k \in Actors /\ g # k /\ FilesTypeOK /\ GateWrites(g)
  BY <1>k, GateFields, GateAssumption, LoopAssumption, SystemAssumption
     DEF TypeInv, AllType, GType, FilesInv
<1>1. loop' = loop /\ tree' = tree
  BY DEF GateStep, CheckpointChanged, LoadReview, CopyChanged, UnlinkDeleted, FinishApply,
         RunTests, RollBackFile, EndRollBack, loopVars
<1>2. CASE CheckpointChanged(g)
  <2>1. /\ gate'[g].stage = "loading" /\ gate[g].stage = "allowed" /\ gate'[g].of = k
        /\ gate'[g].put = gate[g].put /\ gate'[g].gone = gate[g].gone
        /\ gate'[g].fresh = (start[k] # NoFiles /\ foreign[k] = {})
    BY <1>0, <1>2, <1>k DEF CheckpointChanged, Gates
  <2>2. /\ start'[g] = project /\ start'[k] = start[k] /\ project' = project /\ project \in Trees
        /\ start[k] \in Trees \cup {NoFiles}
    BY <1>0, <1>2 DEF CheckpointChanged, TakeCheckpoint, Watch, FilesTypeOK
  <2>3. loop[k].stage \in Finished
    BY <2>1, <1>k DEF Delivers
  <2>4. ASSUME gate'[g].fresh
        PROVE  /\ start[k] \in Trees /\ start'[g] = start[k]
               /\ loop[k].stage = "passed" =>
                      /\ \A p \in Paths : loop[k].base[p] = start[k][p]
                      /\ ReviewIs(k, gate[g], {})'
    <3>1. start[k] \in Trees /\ \A p \in Paths : project[p] = start[k][p]
      BY <2>1, <2>2, <2>4, <1>k DEF Copied
    <3>2. start'[g] = start[k]
      BY <2>2, <3>1, TreeIs
    <3>3. ASSUME loop[k].stage = "passed"
          PROVE  /\ \A p \in Paths : loop[k].base[p] = start[k][p]
                 /\ ReviewIs(k, gate[g], foreign[k])
      BY <2>1, <2>4, <3>3, <1>k DEF Copied, Based, Delivers
    <3>4. ASSUME ReviewIs(k, gate[g], foreign[k]) PROVE ReviewIs(k, gate[g], {})'
      BY <1>1, <2>1, <2>2, <2>4, <3>4 DEF ReviewIs
    <3> QED BY <3>1, <3>2, <3>3, <3>4
  <2>5. Delivered(g)'
    BY <2>1, <2>2 DEF Delivered
  <2> QED BY <1>1, <2>1, <2>2, <2>3, <2>4, <2>5 DEF Delivers
<1>3. CASE LoadReview(g)
  <2>1. UNCHANGED fileVars /\ gate[g].stage = "loading"
    BY <1>3 DEF LoadReview
  <2>2. /\ \/ gate'[g].stage = "raised"
           \/ gate'[g].stage = "copying" /\ gate'[g].left = gate[g].put \cup gate[g].gone
        /\ gate'[g].put = gate[g].put /\ gate'[g].gone = gate[g].gone
        /\ gate'[g].of = k /\ gate'[g].fresh = gate[g].fresh
    <3>1. CASE GateStage(g, "raised")
      BY <1>0, <1>k, <3>1, GateStageIs
    <3>2. CASE gate' = [gate EXCEPT ![g].stage = "copying", ![g].left = gate[g].put \cup gate[g].gone]
      BY <1>0, <1>k, <3>2 DEF Gates
    <3> QED BY <1>3, <3>1, <3>2 DEF LoadReview
  <2>3. Delivered(g) => Delivered(g)'
    BY <2>1, <2>2 DEF Delivered, fileVars
  <2>4. loop[k].stage \in Finished
    BY <2>1, <1>k DEF Delivers
  <2> QED BY <1>1, <1>k, <2>1, <2>2, <2>3, <2>4, GoesOn DEF fileVars
<1>4. ASSUME gate[g].stage = "copying", NEW p \in gate[g].left,
             Done(g, p), Write(g, p, IF p \in gate[g].put THEN tree[k][p] ELSE Absent)
      PROVE  Delivers(g)'
  <2>1. /\ gate'[g].stage = "copying" /\ gate'[g].of = k
        /\ gate'[g].put = gate[g].put /\ gate'[g].gone = gate[g].gone
        /\ gate'[g].fresh = gate[g].fresh /\ gate'[g].left = gate[g].left \ {p}
    BY <1>0, <1>4, <1>k, DoneIs
  <2>2. /\ start' = start /\ foreign'[g] = foreign[g] /\ p \in Paths
        /\ project'[p] = IF p \in gate[g].put THEN tree[k][p] ELSE Absent
        /\ \A q \in Paths : q # p => project'[q] = project[q]
    BY <1>0, <1>4 DEF Write, Wrote, FilesTypeOK, Trees
  <2>3. p \in gate[g].put \cup gate[g].gone
    BY <1>0, <1>4 DEF GateWrites
  <2>4. ASSUME Delivered(g) PROVE Delivered(g)'
    <3> SUFFICES ASSUME NEW q \in Paths \ foreign[g]
                 PROVE  project'[q] = IF q \in gate'[g].left \/ q \notin gate[g].put \cup gate[g].gone
                                      THEN start[g][q]
                                      ELSE IF q \in gate[g].put THEN tree[k][q] ELSE Absent
      BY <1>1, <2>1, <2>2 DEF Delivered
    <3>1. CASE q = p
      BY <2>1, <2>2, <2>3, <3>1
    <3>2. CASE q # p
      BY <1>4, <1>k, <2>1, <2>2, <2>4, <3>2 DEF Delivered
    <3> QED BY <3>1, <3>2
  <2>5. loop[k].stage \in Finished
    BY <1>4, <1>k DEF Delivers
  <2> QED BY <1>1, <1>k, <2>1, <2>2, <2>4, <2>5, GoesOn
\* To a stage that copies no more, without writing.
<1>5. ASSUME UNCHANGED fileVars, NEW s, gate'[g].stage = s,
             gate[g].stage \in {"copying", "testing", "rolling back"},
             gate'[g].of = k, gate'[g].put = gate[g].put, gate'[g].gone = gate[g].gone,
             gate'[g].fresh = gate[g].fresh,
             \/ s \in {"raised", "kept", "rolling back", "rolled back"}
             \/ s \in {"applied", "testing", "passed"} /\ gate[g].stage = "testing"
             \/ s \in {"applied", "testing"} /\ gate[g].stage = "copying" /\ gate[g].left = {}
      PROVE  Delivers(g)'
  <2>1. Delivered(g) => Delivered(g)'
    BY <1>1, <1>5, <1>k DEF Delivered, fileVars
  <2> QED BY <1>1, <1>5, <1>k, <2>1, GoesOn DEF fileVars
<1>6. CASE CopyChanged(g)
  <2> PICK p \in gate[g].put \cap gate[g].left :
           LET text == tree[gate[g].of][p] IN
           \/ text = Absent /\ GateStage(g, "raised") /\ UNCHANGED fileVars
           \/ text # Absent /\ Done(g, p) /\ Write(g, p, text)
    BY <1>6 DEF CopyChanged
  <2>1. CASE GateStage(g, "raised") /\ UNCHANGED fileVars
    BY <1>0, <1>5, <1>6, <1>k, <2>1, GateStageIs DEF CopyChanged
  <2>2. CASE Done(g, p) /\ Write(g, p, tree[gate[g].of][p])
    BY <1>4, <1>6, <1>k, <2>2 DEF CopyChanged
  <2> QED BY <2>1, <2>2
<1>7. CASE UnlinkDeleted(g)
  BY <1>4, <1>7 DEF UnlinkDeleted
<1>8. CASE FinishApply(g)
  BY <1>0, <1>5, <1>8, <1>k, GateStageIs DEF FinishApply
<1>9. CASE RunTests(g)
  <2>1. CASE GateStage(g, "passed") \/ GateStage(g, "kept")
    <3>1. PICK s \in {"passed", "kept"} : GateStage(g, s)
      BY <2>1
    <3> QED BY <1>0, <1>5, <1>9, <1>k, <3>1, GateStageIs DEF RunTests
  <2>2. CASE gate' = [gate EXCEPT ![g].stage = "rolling back", ![g].left = DOMAIN saved[g]]
    <3>1. /\ gate'[g].stage = "rolling back" /\ gate'[g].of = k
          /\ gate'[g].put = gate[g].put /\ gate'[g].gone = gate[g].gone
          /\ gate'[g].fresh = gate[g].fresh
      BY <1>0, <1>k, <2>2 DEF Gates
    <3> QED BY <1>5, <1>9, <3>1 DEF RunTests
  <2> QED BY <1>9, <2>1, <2>2 DEF RunTests
<1>10. CASE RollBackFile(g)
  <2> PICK p \in gate[g].left : Done(g, p) /\ Write(g, p, saved[g][p])
    BY <1>10 DEF RollBackFile
  <2>1. /\ gate'[g].stage = "rolling back" /\ gate'[g].of = k
        /\ gate'[g].put = gate[g].put /\ gate'[g].gone = gate[g].gone
        /\ gate'[g].fresh = gate[g].fresh
    BY <1>0, <1>10, <1>k, DoneIs DEF RollBackFile
  <2>2. Delivered(g)'
    BY <2>1 DEF Delivered
  <2> QED BY <1>1, <1>k, <2>1, <2>2, GoesOn DEF Write
<1>11. CASE EndRollBack(g)
  BY <1>0, <1>5, <1>11, <1>k, GateStageIs DEF EndRollBack
<1> QED BY <1>2, <1>3, <1>6, <1>7, <1>8, <1>9, <1>10, <1>11 DEF GateStep

LEMMA DeliveryInit == EInit => DeliveryInv
<1> SUFFICES ASSUME EInit PROVE DeliveryInv
  OBVIOUS
<1>1. ASSUME NEW k \in Workers
      PROVE  loop[k].stage = "none" /\ ~review[k].known /\ start[k] = NoFiles
  BY LoopAssumption DEF EInit, ToolInit, FilesInit, LoopInit, NoLoop, NoReview
<1>2. ASSUME NEW g \in Appliers PROVE gate[g].stage = "idle" /\ ~gate[g].fresh
  BY DEF EInit, NoGate
<1>3. ASSUME NEW p \in Paths PROVE NoFiles \notin Trees
  BY Watching
<1> QED BY <1>1, <1>2, <1>3 DEF DeliveryInv, Copied, Delivers, Based, Finished

\* Whoever else acts, with the worktrees and gates left alone.
LEMMA DeliveryStays ==
  ASSUME TypeInv, DeliveryInv, UNCHANGED <<loopVars, gate>>,
         \A u \in Workers \cup Appliers : Noticed(u)
  PROVE  DeliveryInv'
<1>1. ASSUME NEW k \in Workers PROVE Copied(k)'
  BY CopiedStays DEF DeliveryInv, loopVars
<1>2. ASSUME NEW g \in Appliers PROVE Delivers(g)'
  <2>1. gate[g].of \in Workers
    BY GateFields DEF TypeInv, AllType
  <2> QED BY <2>1, DeliversStays DEF DeliveryInv, loopVars
<1> QED BY <1>1, <1>2 DEF DeliveryInv

LEMMA LoopDelivery ==
  ASSUME TypeInv, TypeInv', DeliveryInv, NEW k \in Workers, Loop(k)
  PROVE  DeliveryInv'
<1>0. /\ LType /\ LType' /\ FilesTypeOK /\ GType /\ k \in Actors /\ gate' = gate
      /\ Workers \subseteq Actors /\ Appliers \subseteq Actors
      /\ Workers \cap Appliers = {} /\ Copied(k)
  BY LoopAssumption, GateAssumption, SystemAssumption DEF TypeInv, AllType, Loop, DeliveryInv
<1>1. CreateWorktree(k) \/ LoopStep(k) \/ WorktreeCommand(k)
  BY DEF Loop
<1>2. \A u \in Actors : u # k => Noticed(u)
  BY <1>0, <1>1, LoopEffect, EffectNoticed
<1>3. /\ Copied(k)'
      /\ loop[k].stage \in Finished =>
             /\ Noticed(k)
             /\ \/ loop'[k] = loop[k] /\ tree'[k] = tree[k]
                \/ loop'[k].stage \in Finished /\ loop'[k].stage # "passed"
  <2>1. CASE CreateWorktree(k)
    BY <1>0, <2>1, CreateCopied
  <2>2. CASE LoopStep(k)
    <3>1. loop[k].stage \notin Finished
      BY <2>2 DEF LoopStep, CopyFile, Propose, Choose, NoneLeft, ApplyEdit, RunTargetedTests,
                  RunFullTests, RestoreCandidate, FinishLoop, Finished
    <3> QED BY <1>0, <2>2, <3>1, LoopCopied
  <2>3. CASE WorktreeCommand(k)
    <3>1. Noticed(k)
      BY <2>3 DEF WorktreeCommand, CreateSelected, Review, RunInWorktree, RemoveWorktree,
                  Noticed, fileVars
    <3> QED BY <1>0, <2>3, <3>1, CommandCopied
  <2> QED BY <1>1, <2>1, <2>2, <2>3
<1>4. ASSUME NEW j \in Workers, j # k
      PROVE  loop'[j] = loop[j] /\ tree'[j] = tree[j] /\ review'[j] = review[j] /\ Noticed(j)
  BY <1>0, <1>1, <1>2, <1>4, OtherTrees, OtherReviews
<1>5. ASSUME NEW j \in Workers PROVE Copied(j)'
  BY <1>3, <1>4, CopiedStays DEF DeliveryInv
<1>6. ASSUME NEW g \in Appliers PROVE Delivers(g)'
  <2>1. PICK j \in Workers : j = gate[g].of
    BY <1>0, GateFields
  <2>2. Noticed(g) /\ Delivers(g) /\ gate'[g] = gate[g]
    BY <1>0, <1>2 DEF DeliveryInv
  <2>3. CASE j = k
    BY <1>3, <2>1, <2>2, <2>3, DeliversStays
  <2>4. CASE j # k
    BY <1>4, <2>1, <2>2, <2>4, DeliversStays
  <2> QED BY <2>3, <2>4
<1> QED BY <1>5, <1>6 DEF DeliveryInv

LEMMA ApplyDelivery ==
  ASSUME TypeInv, FilesInv, DeliveryInv, NEW g \in Appliers, Apply(g)
  PROVE  DeliveryInv'
<1>0. /\ FilesTypeOK /\ GType /\ g \in Actors /\ gate[g].of \in Workers
      /\ Workers \subseteq Actors /\ Appliers \subseteq Actors /\ Workers \cap Appliers = {}
  BY LoopAssumption, GateAssumption, SystemAssumption, GateFields DEF TypeInv, AllType
<1>1. /\ FileEffect(g) /\ \A h \in Appliers : h # g => gate'[h] = gate[h]
  BY OpenGateEffect, GateEffect DEF Apply
<1>2. \A u \in Actors : u # g => Noticed(u)
  BY <1>0, <1>1, EffectNoticed
<1>3. Delivers(g)'
  BY <1>0, OpenDelivers, GateDelivers DEF Apply, DeliveryInv
<1>4. /\ loop' = loop /\ tree' = tree
      /\ \A k \in Workers : \/ review'[k] = review[k]
                            \/ ~review[k].known /\ loop[k].stage \in Finished
  <2>1. CASE FinishApply(g)
    <3>1. loop[gate[g].of].stage \in Finished
      BY <2>1 DEF FinishApply, DeliveryInv, Delivers
    <3> QED BY <2>1, <3>1 DEF FinishApply, TypeInv, AllType, LType, LoopTypeOK
  <2>2. CASE ~FinishApply(g)
    BY <2>2 DEF Apply, Evaluate, ApplyByHand, GateStep, CheckpointChanged, LoadReview,
       CopyChanged, UnlinkDeleted, RunTests, RollBackFile, EndRollBack, loopVars
  <2> QED BY <2>1, <2>2
<1>5. ASSUME NEW k \in Workers PROVE Copied(k)'
  BY <1>0, <1>2, <1>4, CopiedStays DEF DeliveryInv
<1>6. ASSUME NEW h \in Appliers, h # g PROVE Delivers(h)'
  <2>1. PICK j \in Workers : j = gate[h].of
    BY <1>0, GateFields
  <2>2. Noticed(h) /\ Noticed(j) /\ Delivers(h) /\ gate'[h] = gate[h]
    BY <1>0, <1>1, <1>2, <1>6 DEF DeliveryInv
  <2> QED BY <1>4, <2>1, <2>2, DeliversStays
<1> QED BY <1>3, <1>5, <1>6 DEF DeliveryInv

LEMMA DeliveryStep ==
  TypeInv /\ TypeInv' /\ FilesInv /\ DeliveryInv /\ [ENext]_eVars => DeliveryInv'
<1> SUFFICES ASSUME TypeInv, TypeInv', FilesInv, DeliveryInv, [ENext]_eVars PROVE DeliveryInv'
  OBVIOUS
<1>0. /\ FilesTypeOK /\ Workers \cup Appliers \subseteq Actors /\ Calls \subseteq Actors
      /\ Calls \cap (Workers \cup Appliers) = {}
  BY SystemAssumption DEF TypeInv, AllType
<1>1. CASE UNCHANGED <<fileVars, loopVars, gate>>
  <2>1. \A u \in Workers \cup Appliers : Noticed(u)
    BY <1>1 DEF Noticed, fileVars
  <2> QED BY <1>1, <2>1, DeliveryStays
<1>2. ASSUME NEW c \in Calls, Tool(c) PROVE DeliveryInv'
  <2>1. \A u \in Workers \cup Appliers : Noticed(u)
    BY <1>0, <1>2, CallEffect, EffectNoticed DEF Tool
  <2> QED BY <1>2, <2>1, DeliveryStays DEF Tool
<1>3. ASSUME NEW w \in Actors, Restore(w) PROVE DeliveryInv'
  <2>1. \A u \in Workers \cup Appliers : Noticed(u)
    BY <1>0, <1>3, RestoreNoticed DEF Restore
  <2> QED BY <1>3, <2>1, DeliveryStays DEF Restore
<1>4. CASE Decision \/ Time
  BY <1>1, <1>4 DEF Decision, Time
<1>5. CASE UNCHANGED eVars
  BY <1>1, <1>5 DEF eVars
<1> QED BY <1>2, <1>3, <1>4, <1>5, LoopDelivery, ApplyDelivery DEF ENext

\* A gated apply of a passed loop, when nobody else wrote the project since
\* the worktree was copied, puts exactly the edits that passed in place.
THEOREM ESystemDelivers == ESpec => []ApplyDeliversRepair
<1>1. TypeInv /\ LoopInv /\ FilesInv /\ DeliveryInv => ApplyDeliversRepair
  <2> SUFFICES ASSUME TypeInv, LoopInv, FilesInv, DeliveryInv, NEW g \in Appliers, NEW k,
                      k = gate[g].of, gate[g].stage \in {"applied", "passed"}, gate[g].fresh,
                      foreign[g] = {}, loop[k].stage = "passed"
               PROVE  PatchedTo(start[k], loop[k].cand, Len(loop[k].cand), project)
    BY DEF ApplyDeliversRepair
  <2>1. /\ k \in Workers /\ LType /\ project \in Trees /\ tree[k] \in Trees
        /\ loop[k].base \in Trees /\ gate[g].put \in SUBSET Paths
    BY GateFields, LoopFields DEF TypeInv, AllType, LType, FilesTypeOK
  <2>2. /\ start[k] \in Trees /\ start[g] = start[k] /\ ReviewIs(k, gate[g], {})
        /\ \A p \in Paths : loop[k].base[p] = start[k][p]
        /\ Delivered(g)
    BY DEF DeliveryInv, Delivers
  <2>3. loop[k].base = start[k]
    BY <2>1, <2>2, TreeIs
  <2>4. PatchedTo(loop[k].base, loop[k].cand, Len(loop[k].cand), tree[k])
    BY <2>1 DEF LoopInv, Whole, EditedTo
  <2>5. ASSUME NEW p \in Paths PROVE project[p] = tree[k][p]
    <3>1. project[p] = IF p \notin gate[g].put \cup gate[g].gone THEN start[g][p]
                       ELSE IF p \in gate[g].put THEN tree[k][p] ELSE Absent
      BY <2>2 DEF Delivered
    <3> QED BY <2>2, <3>1 DEF ReviewIs
  <2>6. project = tree[k]
    BY <2>1, <2>5, TreeIs
  <2> QED BY <2>3, <2>4, <2>6
<1> QED BY <1>1, TypeInit, TypeStep, LoopsInit, LoopsStep, FilesInit0, FilesStep,
           DeliveryInit, DeliveryStep, PTL DEF ESpec
===========================================================================
