---------------------------- MODULE CallBudget ----------------------------
(***************************************************************************)
(* What the budget reservations of quantagent/runtime_store.py promise     *)
(* about the model calls of one session and their tokens: a call is        *)
(* admitted only while the calls charged so far and the calls still held   *)
(* leave room for it, in number and in tokens; a charged call takes what   *)
(* it used, a held one what it is estimated to use.  A held call ends      *)
(* charged, free of charge, or lapses when its holder is too slow; a       *)
(* lapsed call may still be charged, overdue.                              *)
(***************************************************************************)
EXTENDS Naturals, FiniteSetsExt

CONSTANTS
    Calls,
    Limit, TokenLimit,   \* 0: no limit is configured
    Estimate,            \* [Calls -> Nat]
    Uses                 \* what a call may turn out to have used

VARIABLES state, used
vars == <<state, used>>

States == {"new", "held", "lapsed", "charged", "overdue", "free"}
In(S) == {c \in Calls : state[c] \in S}
Lapsed(s) == CASE s = "held" -> "lapsed" [] s = "charged" -> "overdue" [] OTHER -> s
Taken == [c \in Calls |-> IF state[c] = "held" THEN Estimate[c] ELSE used[c]]

Init ==
    /\ state = [c \in Calls |-> "new"]
    /\ used = [c \in Calls |-> 0]

Move(c, s) == state' = [state EXCEPT ![c] = s]

Lapse(L) ==
    /\ state' = [d \in Calls |-> IF d \in L THEN Lapsed(state[d]) ELSE state[d]]
    /\ UNCHANGED used

\* What counts against the limits once the calls in L have lapsed.
Counted(L) == In({"held", "charged", "overdue"}) \ (L \cap In({"held"}))

\* Admitting a call may first let others lapse.
Admit(c, L) ==
    /\ state[c] = "new" /\ c \notin L
    /\ Limit # 0 => Cardinality(Counted(L)) < Limit
    /\ TokenLimit # 0 =>
          MapThenSumSet(LAMBDA d : Taken[d], Counted(L)) + Estimate[c] <= TokenLimit
    /\ state' = [d \in Calls |-> IF d = c THEN "held"
                                ELSE IF d \in L THEN Lapsed(state[d]) ELSE state[d]]
    /\ UNCHANGED used

Charge(c, u) ==
    /\ \/ state[c] = "held" /\ Move(c, "charged")
       \/ state[c] = "lapsed" /\ Move(c, "overdue")
    /\ used' = [used EXCEPT ![c] = u]

Forgive(c) == state[c] = "held" /\ Move(c, "free") /\ UNCHANGED used

Next ==
    \/ \E c \in Calls, L \in SUBSET Calls : Admit(c, L)
    \/ \E c \in Calls : Forgive(c) \/ \E u \in Uses : Charge(c, u)
    \/ \E L \in SUBSET Calls : Lapse(L)

Spec == Init /\ [][Next]_vars
===========================================================================
