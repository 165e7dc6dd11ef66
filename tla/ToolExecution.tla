--------------------------- MODULE ToolExecution ---------------------------
(***************************************************************************)
(* execute_tool and execute_command_step of quantagent/tool_execution.py:  *)
(* hook, policy, approval, checkpoint, handler, record.  An invocation     *)
(* stands for a tool with its arguments; the before_tool_call hook may     *)
(* block it or put others in its place before anything shared is read, so  *)
(* a call starts with what the hook returns.                               *)
(***************************************************************************)
EXTENDS ProjectFiles, Approvals

CONSTANTS
    Calls,          \* processes that run tools
    Invocations,    \* tools with their arguments
    Writes,         \* [Invocations -> SUBSET Paths]: files the handler writes
    Named,          \* [Invocations -> SUBSET Paths]: paths the arguments name
    Guarded,        \* invocations whose handler asks for approval itself
    Expiries        \* expiry times a caller may ask for, 0 for none

\* A tool writes the paths it is given; a command names none.
ASSUME ToolAssumption ==
    /\ Calls \subseteq Actors /\ Calls = Checkers
    /\ Invocations # {}
    /\ Writes \in [Invocations -> SUBSET Paths]
    /\ Named \in [Invocations -> SUBSET Paths]
    /\ \A i \in Invocations : Named[i] = {} \/ Writes[i] \subseteq Named[i]
    /\ Fingerprints = Invocations \X {"ask", "deny"}
    /\ Expiries \subseteq 0..MaxTime

VARIABLE call       \* [Calls -> CallStates]

toolVars == <<fileVars, approvalVars, call>>

Ended == {"ok", "failed", "unrecorded"}
CallStates == [stage : Ended \cup {"new", "policy", "check", "ready", "running"},
               inv : Invocations, owner : BOOLEAN,
               action : {"allow", "ask", "deny"}, todo : SUBSET Paths]

NoCall(stage) == [stage |-> stage, inv |-> CHOOSE i \in Invocations : TRUE,
                  owner |-> FALSE, action |-> "allow", todo |-> {}]

ToolTypeOK == FilesTypeOK /\ ApprovalsTypeOK /\ call \in [Calls -> CallStates]

ToolInit ==
    /\ FilesInit
    /\ ApprovalsInit
    /\ call = [c \in Calls |-> NoCall("new")]

Stage(c, s) == call' = [call EXCEPT ![c].stage = s]

\* The result and, but for a policy error, the row of tool_invocations.
End(c, s) == call' = [call EXCEPT ![c] = NoCall(s)]

---------------------------------------------------------------------------
StartCall(c, i) ==
    /\ call[c].stage \in Ended \cup {"new"}
    /\ Forget(c)
    /\ \/ \E owner \in BOOLEAN :
              call' = [call EXCEPT ![c] =
                  [NoCall("policy") EXCEPT !.inv = i, !.owner = owner]]
       \/ End(c, "failed")                     \* the hook blocks
    /\ UNCHANGED approvalVars

\* enforce_tool answers what the permission files say at this moment.
EnforceTool(c) ==
    /\ call[c].stage = "policy"
    /\ UNCHANGED fileVars
    /\ \/ End(c, "unrecorded") /\ UNCHANGED approvalVars
       \/ /\ call' = [call EXCEPT ![c].stage = "ready", ![c].action = "allow"]
          /\ UNCHANGED approvalVars
       \/ \E action \in {"ask", "deny"} :
              /\ call' = [call EXCEPT ![c].stage = "check", ![c].action = action]
              /\ \E id \in Known \cup {NoId, UnknownId}, e \in Expiries :
                     BeginCheck(c, <<call[c].inv, action>>, action = "deny", id, e)

EnsureApproval(c) ==
    /\ call[c].stage = "check"
    /\ CheckStep(c)
    /\ UNCHANGED <<fileVars, call>>

Permitted(c) ==
    /\ call[c].action # "deny"
    /\ call[c].owner \/ check[c].allowed \/ call[c].inv \in Guarded

Gate(c) ==
    /\ call[c].stage = "check"
    /\ check[c].step = "decided"
    /\ IF Permitted(c) THEN Stage(c, "ready") ELSE End(c, "failed")
    /\ IF Permitted(c) THEN UNCHANGED approvalVars ELSE EndCheck(c)
    /\ UNCHANGED fileVars

\* _checkpoint_before_tool: a checkpoint that cannot be taken is done without.
CheckpointBeforeTool(c) ==
    /\ call[c].stage = "ready"
    /\ call' = [call EXCEPT ![c].stage = "running", ![c].todo = Writes[call[c].inv]]
    /\ \/ Named[call[c].inv] # {} /\ TakeCheckpoint(c, Named[call[c].inv])
       \/ UNCHANGED fileVars
    /\ UNCHANGED approvalVars

\* The handler goes on with the next file when one cannot be written.
WriteFile(c) ==
    /\ call[c].stage = "running"
    /\ \E p \in call[c].todo :
           /\ call' = [call EXCEPT ![c].todo = @ \ {p}]
           /\ (\E v \in Contents : Write(c, p, v)) \/ UNCHANGED fileVars
    /\ UNCHANGED approvalVars

\* A command goes through execute_command_step; desktop tools, which name no
\* path either, through execute_tool.
IsCommand(i) == Named[i] = {} /\ i \notin Guarded

\* It returns, or raises with files still unwritten.  Either is recorded, but
\* for a command, whose step raises with it; an empty one ends before anything.
EndHandler(c) ==
    /\ \/ /\ call[c].stage = "running"
          /\ \/ End(c, "failed")
             \/ IsCommand(call[c].inv) /\ End(c, "unrecorded")
             \/ call[c].todo = {} /\ End(c, "ok")
       \/ call[c].stage = "ready" /\ IsCommand(call[c].inv) /\ End(c, "failed")
    /\ IF check[c].step = "idle" THEN UNCHANGED approvalVars ELSE EndCheck(c)
    /\ UNCHANGED fileVars

CallStep(c) ==
    \/ EnforceTool(c) \/ EnsureApproval(c) \/ Gate(c)
    \/ CheckpointBeforeTool(c) \/ WriteFile(c) \/ EndHandler(c)

---------------------------------------------------------------------------
(* Properties.                                                             *)

\* A handler never runs under a deny policy, whoever approves, and under an
\* ask policy only when the owner vouched for the call, when the handler
\* guards itself, or when at some moment of the check the operator's last
\* word on this very invocation was a grant and its expiry had not passed:
\* whatever ids, decisions, expiries and other checks come in between.
RunsWhatWasApproved ==
    \A c \in Calls : call[c].stage \in {"ready", "running"} =>
        /\ call[c].action # "deny"
        /\ call[c].action = "ask" =>
               call[c].owner \/ call[c].inv \in Guarded \/ seen[c]
===========================================================================
