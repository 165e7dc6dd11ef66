----------------------------- MODULE Approvals -----------------------------
(***************************************************************************)
(* quantagent/approvals.py over the approval_requests table of the runtime *)
(* store: one row per fingerprint, asked for by ensure_approval_for_policy *)
(* and decided by an operator.  Every store call is a transaction of its   *)
(* own, so a check reads a row in one step and looks at the clock, and may *)
(* write the row, in a later one.  An approval_id stands for its row, and  *)
(* approved for allow_always too: no check tells the two apart.            *)
(***************************************************************************)
EXTENDS Naturals

CONSTANTS
    Checkers,       \* who asks for approval
    Fingerprints,   \* of a tool, its arguments and the policy's decision
    NoId,           \* no approval_id was given
    UnknownId,      \* one was given that is of no row
    MaxTime         \* bound of the clock

ASSUME ApprovalsAssumption ==
    /\ NoId \notin Fingerprints /\ UnknownId \notin Fingerprints /\ NoId # UnknownId
    /\ MaxTime \in Nat

VARIABLES
    now,        \* the clock
    rows,       \* [Fingerprints -> Rows]
    granted,    \* [Fingerprints -> BOOLEAN]: what the operator said last
    check,      \* [Checkers -> Checks]: ensure_approval_for_policy
    seen        \* [Checkers -> BOOLEAN]: was the request granted and in time
                \*  at some moment of the check (recorded for the property)

approvalVars == <<now, rows, granted, check>>

Statuses == {"none", "pending", "approved", "denied", "expired"}
Rows == [status : Statuses, expires : 0..MaxTime]
NoRow == [status |-> "none", expires |-> 0]

Steps == {"idle", "create", "expire", "create again", "expire again", "lookup",
          "expire found", "create unknown", "create denied", "decided"}
Checks == [step : Steps, fp : Fingerprints, id : Fingerprints \cup {NoId, UnknownId},
           expires : 0..MaxTime, read : Rows, allowed : BOOLEAN]

ApprovalsTypeOK ==
    /\ now \in 0..MaxTime
    /\ rows \in [Fingerprints -> Rows]
    /\ granted \in [Fingerprints -> BOOLEAN]
    /\ check \in [Checkers -> Checks]
    /\ seen \in [Checkers -> BOOLEAN]

NoCheck == [step |-> "idle", fp |-> CHOOSE f \in Fingerprints : TRUE, id |-> NoId,
            expires |-> 0, read |-> NoRow, allowed |-> FALSE]

ApprovalsInit ==
    /\ now = 0
    /\ rows = [f \in Fingerprints |-> NoRow]
    /\ granted = [f \in Fingerprints |-> FALSE]
    /\ check = [c \in Checkers |-> NoCheck]
    /\ seen = [c \in Checkers |-> FALSE]

---------------------------------------------------------------------------
(* The store.                                                              *)

\* Faulty variant of Upserted: an expiry time is counted from now.
UpsertedRelative(row, status, expires) ==
    [status |-> IF row.status \in {"approved", "denied"} THEN row.status ELSE status,
     expires |-> IF expires # 0 THEN now + expires ELSE row.expires]

\* A decision stays, everything else is asked for anew; an expiry time that
\* is not given keeps the old one (COALESCE).
Upserted(row, status, expires) ==
    [status |-> IF row.status \in {"approved", "denied"} THEN row.status ELSE status,
     expires |-> IF expires # 0 THEN expires ELSE row.expires]

Lapsed(row) == row.expires # 0 /\ row.expires <= now

Decide(f, status) == rows' = [rows EXCEPT ![f].status = status]

---------------------------------------------------------------------------
(* The operator: mako approval approve and deny.                           *)

Approve(f) ==
    /\ rows[f].status # "none"
    /\ Decide(f, "approved")
    /\ granted' = [granted EXCEPT ![f] = TRUE]
    /\ UNCHANGED <<now, check>>

Deny(f) ==
    /\ rows[f].status # "none"
    /\ Decide(f, "denied")
    /\ granted' = [granted EXCEPT ![f] = FALSE]
    /\ UNCHANGED <<now, check>>

Tick ==
    /\ now < MaxTime
    /\ now' = now + 1
    /\ UNCHANGED <<rows, granted, check>>

---------------------------------------------------------------------------
(* ensure_approval_for_policy, for a policy that does not simply allow.    *)

Set(c, r) == check' = [check EXCEPT ![c] = r]
To(c, step, row) == Set(c, [check[c] EXCEPT !.step = step, !.read = row])
Decided(c, row, ok) ==
    Set(c, [check[c] EXCEPT !.step = "decided", !.read = row, !.allowed = ok])

BeginCheck(c, f, deny, id, expires) ==
    /\ check[c].step = "idle"
    /\ Set(c, [NoCheck EXCEPT !.fp = f, !.id = id, !.expires = expires,
                  !.step = IF deny THEN "create denied"
                           ELSE IF id = NoId THEN "create" ELSE "lookup"])
    /\ UNCHANGED <<now, rows, granted>>

EndCheck(c) ==
    /\ Set(c, NoCheck)
    /\ UNCHANGED <<now, rows, granted>>

CreateOrGet(c, status) ==
    LET f == check[c].fp
        row == Upserted(rows[f], status, check[c].expires)
    IN  /\ rows' = [rows EXCEPT ![f] = row]
        /\ \/ check[c].step = "create" /\ To(c, "expire", row)
           \/ check[c].step = "create again" /\ To(c, "expire again", row)
           \/ check[c].step \in {"create unknown", "create denied"} /\ Decided(c, row, FALSE)
        /\ UNCHANGED <<now, granted>>

Create(c) == check[c].step # "create denied" /\ CreateOrGet(c, "pending")
CreateDenied(c) == check[c].step = "create denied" /\ CreateOrGet(c, "denied")

\* The ids that may be given: those of rows, which are never deleted.
Known == {f \in Fingerprints : rows[f].status # "none"}

Lookup(c) ==
    /\ check[c].step = "lookup"
    /\ IF check[c].id = UnknownId THEN To(c, "create unknown", NoRow)
       ELSE To(c, "expire found", rows[check[c].id])
    /\ UNCHANGED <<now, rows, granted>>

\* The row whose expiry is looked at, in the step that goes with it.
Found(c) == IF check[c].step = "expire found" THEN check[c].id ELSE check[c].fp

\* Faulty variant of Allows: an id allows whatever it is shown with.
AllowsAnyArgs(c, row) == row.status = "approved"

Allows(c, row) == row.status = "approved" /\ Found(c) = check[c].fp

\* _expire_if_needed decides on the row read before; an expired request
\* found by its fingerprint is asked for once more.
ExpireIfNeeded(c) ==
    LET row == IF Lapsed(check[c].read)
               THEN [check[c].read EXCEPT !.status = "expired"] ELSE check[c].read
    IN  /\ check[c].step \in {"expire", "expire again", "expire found"}
        /\ IF row # check[c].read THEN Decide(Found(c), "expired") ELSE UNCHANGED rows
        /\ IF check[c].step = "expire" /\ row.status = "expired"
           THEN To(c, "create again", row)
           ELSE Decided(c, row, Allows(c, row))
        /\ UNCHANGED <<now, granted>>

CheckStep(c) == Create(c) \/ CreateDenied(c) \/ Lookup(c) \/ ExpireIfNeeded(c)
Operator == Tick \/ \E f \in Fingerprints : Approve(f) \/ Deny(f)

Live(row, g, t) == g /\ (row.expires = 0 \/ t < row.expires)

\* Conjoined with every step, records the moments of a check.
Witness ==
    seen' = [c \in Checkers |->
        /\ check'[c].step # "idle"
        /\ \/ seen[c]
           \/ check[c].step # "decided"
              /\ Live(rows'[check'[c].fp], granted'[check'[c].fp], now')]
===========================================================================
