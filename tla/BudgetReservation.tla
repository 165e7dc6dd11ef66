------------------------- MODULE BudgetReservation -------------------------
(***************************************************************************)
(* The model budget of one session: the session row and the table          *)
(* budget_reservations of quantagent/runtime_store.py, and the model calls *)
(* (ModelClient.complete in quantagent/model_client.py, any number of      *)
(* threads and processes) that reserve a share of it, post the request,    *)
(* record what was used and settle the reservation.                        *)
(*                                                                         *)
(* Reserving and settling are BEGIN IMMEDIATE transactions and recording   *)
(* is one transaction; nothing is locked between them, and a reservation   *)
(* that reaches its TTL is expired by whoever reserves or lists next.  The *)
(* cost limit works like the token limit, on another column: left out.     *)
(***************************************************************************)
EXTENDS Naturals, FiniteSetsExt

CONSTANTS
    Calls,       \* calls of ModelClient.complete in the session
    Estimate,    \* [Calls -> Nat], request_estimated_tokens
    Usages,      \* token totals a provider may report
    CallLimit,   \* max_session_model_calls, 0 when not configured
    TokenLimit,  \* max_session_tokens, 0 when not configured
    Ttl,         \* _reservation_ttl_ms
    MaxTime      \* bound on the clock

ASSUME BudgetAssumption ==
    /\ IsFiniteSet(Calls)
    /\ Estimate \in [Calls -> Nat]
    /\ Usages \subseteq Nat
    /\ CallLimit \in Nat /\ TokenLimit \in Nat
    /\ CallLimit # 0 \/ TokenLimit # 0     \* else nothing is ever reserved
    /\ Ttl \in Nat \ {0}
    /\ MaxTime \in Nat

VARIABLES
    calls,    \* api_call_count of the session row
    tokens,   \* input + output + reasoning tokens of the session row
    billed,   \* model_calls rows of a call that were added to the session
    spent,    \* tokens those rows added
    resv,     \* status of a call's row in budget_reservations
    expires,  \* its expires_at
    pc,       \* where each call is
    stamp,    \* now_ms, read by reserve_model_budget before it has the lock
    reply,    \* the response: its kind, whether it has a usage dict, and the
              \* tokens that one adds up to
    retried,  \* the compressed retry was made
    settled,  \* reservation["status"] of the client says committed / released
    now

session == <<calls, tokens, billed, spent>>
table == <<resv, expires>>
client == <<stamp, reply, retried, settled>>
vars == <<session, table, pc, client, now>>

Kinds == {"none", "text", "muted", "failed", "denied"}
Settled == {"committed", "released"}
Final == Settled \cup {"expired"}
PCs == {"idle", "begin", "reserve", "post", "record", "settle", "hook",
        "done", "crashed"}

Init ==
    /\ calls = 0 /\ tokens = 0
    /\ billed = [c \in Calls |-> 0]
    /\ spent = [c \in Calls |-> 0]
    /\ resv = [c \in Calls |-> "none"]
    /\ expires = [c \in Calls |-> 0]
    /\ pc = [c \in Calls |-> "idle"]
    /\ stamp = [c \in Calls |-> 0]
    /\ reply = [c \in Calls |-> [kind |-> "none", usage |-> FALSE, used |-> 0]]
    /\ retried = [c \in Calls |-> FALSE]
    /\ settled = [c \in Calls |-> FALSE]
    /\ now = 1

Go(c, to) == pc' = [pc EXCEPT ![c] = to]
Answered(c, k, d, u) ==
    reply' = [reply EXCEPT ![c] = [kind |-> k, usage |-> d, used |-> u]]

---------------------------------------------------------------------------
\* evaluate_budget_limits, given what the session has used so far.
Within(n, t, c) ==
    /\ CallLimit # 0 => n + 1 <= CallLimit
    /\ TokenLimit # 0 => t + Estimate[c] <= TokenLimit

Active == {c \in Calls : resv[c] = "active"}

\* _expire_budget_reservations
Overdue(t) == {c \in Active : expires[c] <= t}
Expire(t) == [c \in Calls |-> IF c \in Overdue(t) THEN "expired" ELSE resv[c]]

\* Faulty variant of Open: what others hold is not counted.
OpenIgnoresOthers(c, t) == Within(calls, tokens, c)

\* Faulty variant of Open: the calls others hold are counted, their tokens not.
OpenCallsOnly(c, t) == Within(calls + Cardinality(Active \ Overdue(t)), tokens, c)

\* The decision of reserve_model_budget: reservations that are still live at t
\* count like calls already made.
Open(c, t) ==
    LET live == Active \ Overdue(t)
    IN  Within(calls + Cardinality(live),
               tokens + MapThenSumSet(LAMBDA d : Estimate[d], live), c)

---------------------------------------------------------------------------
\* _budget_guard_violation reads the session row outside any transaction.
Guard(c) ==
    /\ pc[c] = "idle"
    /\ Go(c, IF Within(calls, tokens, c) THEN "begin" ELSE "done")
    /\ UNCHANGED <<session, table, client, now>>

ReserveBegin(c) ==
    /\ pc[c] = "begin"
    /\ stamp' = [stamp EXCEPT ![c] = now]
    /\ Go(c, "reserve")
    /\ UNCHANGED <<session, table, reply, retried, settled, now>>

Reserve(c) ==
    /\ pc[c] = "reserve"
    /\ Open(c, stamp[c])
    /\ resv' = [Expire(stamp[c]) EXCEPT ![c] = "active"]
    /\ expires' = [expires EXCEPT ![c] = stamp[c] + Ttl]
    /\ Go(c, "post")
    /\ UNCHANGED <<session, client, now>>

\* Blocked; the expiry of the others is committed all the same.
ReserveBlocked(c) ==
    /\ pc[c] = "reserve"
    /\ ~Open(c, stamp[c])
    /\ resv' = Expire(stamp[c])
    /\ Go(c, "done")
    /\ UNCHANGED <<session, expires, client, now>>

\* SQLite raises: rolled back, and _reserve_budget fails closed.
ReserveFails(c) ==
    /\ pc[c] = "reserve"
    /\ Go(c, "done")
    /\ UNCHANGED <<session, table, client, now>>

\* _post_json came back: with a text, without one, or with an exception.
Answer(c, k, u) ==
    /\ pc[c] = "post"
    /\ \/ u = 0 /\ Answered(c, k, FALSE, u)
       \/ k # "failed" /\ u \in Usages /\ Answered(c, k, TRUE, u)
    /\ Go(c, "record")
    /\ UNCHANGED <<session, table, stamp, retried, settled, now>>

\* The provider wants a shorter prompt.  The retry runs the guard again, with
\* the old estimate, and posts under the reservation it has.
TooLong(c) ==
    /\ pc[c] = "post" /\ ~retried[c]
    /\ retried' = [retried EXCEPT ![c] = TRUE]
    /\ \/ Within(calls, tokens, c) /\ UNCHANGED <<pc, reply>>
       \/ ~Within(calls, tokens, c) /\ Answered(c, "denied", FALSE, 0) /\ Go(c, "record")
    /\ UNCHANGED <<session, table, stamp, settled, now>>

\* The condition under which record_model_call adds to the session row.
Bills(c) ==
    /\ reply[c].usage \/ reply[c].kind = "text"
    /\ reply[c].kind # "denied"
    /\ ~settled[c]

Record(c) ==
    LET n == IF Bills(c) THEN 1 ELSE 0
        u == IF Bills(c) THEN reply[c].used ELSE 0
    IN  /\ pc[c] = "record"
        /\ calls' = calls + n
        /\ tokens' = tokens + u
        /\ billed' = [billed EXCEPT ![c] = @ + n]
        /\ spent' = [spent EXCEPT ![c] = @ + u]
        /\ Go(c, "settle")
        /\ UNCHANGED <<table, client, now>>

\* _after_model_call swallows an exception of record_model_call.
RecordFails(c) ==
    /\ pc[c] = "record"
    /\ Go(c, "settle")
    /\ UNCHANGED <<session, table, client, now>>

\* Faulty variant of Settle: the UPDATE lacks AND status = 'active'.
SettleBlind(c) ==
    LET to == IF reply[c].usage THEN "committed" ELSE "released"
    IN  /\ pc[c] = "settle"
        /\ resv' = [resv EXCEPT ![c] = to]
        /\ settled' = [settled EXCEPT ![c] = TRUE]
        /\ Go(c, "hook")
        /\ UNCHANGED <<session, expires, stamp, reply, retried, now>>

\* Faulty variant of Settle: the status of the response is stored.
SettleStatusOfReply(c) ==
    /\ pc[c] = "settle"
    /\ resv' = [resv EXCEPT ![c] = IF @ = "active" THEN reply[c].kind ELSE @]
    /\ settled' = [settled EXCEPT ![c] = TRUE]
    /\ Go(c, "hook")
    /\ UNCHANGED <<session, expires, stamp, reply, retried, now>>

\* commit_ or release_budget_reservation, and what the client notes of it.
Settle(c) ==
    LET to == IF reply[c].usage THEN "committed" ELSE "released"
        s == IF resv[c] = "active" THEN to ELSE resv[c]
    IN  /\ pc[c] = "settle"
        /\ resv' = [resv EXCEPT ![c] = s]
        /\ settled' = [settled EXCEPT ![c] = @ \/ s = to]
        /\ Go(c, "hook")
        /\ UNCHANGED <<session, expires, stamp, reply, retried, now>>

SettleFails(c) ==
    /\ pc[c] = "settle"
    /\ Go(c, "hook")
    /\ UNCHANGED <<session, table, client, now>>

HookReturns(c) ==
    /\ pc[c] = "hook"
    /\ Go(c, "done")
    /\ UNCHANGED <<session, table, client, now>>

\* Faulty variant of HookRaises: the answer is accounted for a second time.
HookRaisesSameReply(c) ==
    /\ pc[c] = "hook" /\ reply[c].kind \in {"text", "muted"}
    /\ Go(c, "record")
    /\ UNCHANGED <<session, table, client, now>>

\* The after_model_call hook raises inside the try block of complete, whose
\* handler makes a failed response and goes through _after_model_call again;
\* raised from there it leaves complete.
HookRaises(c) ==
    /\ pc[c] = "hook"
    /\ IF reply[c].kind \in {"text", "muted"}
       THEN Answered(c, "failed", FALSE, 0) /\ Go(c, "record")
       ELSE Go(c, "done") /\ UNCHANGED reply
    /\ UNCHANGED <<session, table, stamp, retried, settled, now>>

Crash(c) ==
    /\ pc[c] \notin {"idle", "done", "crashed"}
    /\ Go(c, "crashed")
    /\ UNCHANGED <<session, table, client, now>>

\* get_, list_ and expire_budget_reservations, called by anyone.
ExpireListed ==
    /\ resv' = Expire(now)
    /\ UNCHANGED <<session, expires, pc, client, now>>

Tick ==
    /\ now < MaxTime
    /\ now' = now + 1
    /\ UNCHANGED <<session, table, pc, client>>

CallStep(c) ==
    \/ Guard(c) \/ ReserveBegin(c)
    \/ Reserve(c) \/ ReserveBlocked(c) \/ ReserveFails(c)
    \/ \E k \in {"text", "muted", "failed"}, u \in Usages \cup {0} : Answer(c, k, u)
    \/ TooLong(c)
    \/ Record(c) \/ RecordFails(c) \/ Settle(c) \/ SettleFails(c)
    \/ HookReturns(c) \/ HookRaises(c) \/ Crash(c)

Next == (\E c \in Calls : CallStep(c)) \/ ExpireListed \/ Tick

Spec == Init /\ [][Next]_vars

---------------------------------------------------------------------------
(* Properties.                                                             *)

\* Type correctness of the two tables and of the calls in progress.
TypeOK ==
    /\ calls \in Nat /\ tokens \in Nat
    /\ billed \in [Calls -> Nat]
    /\ spent \in [Calls -> Nat]
    /\ resv \in [Calls -> {"none", "active"} \cup Final]
    /\ expires \in [Calls -> Nat]
    /\ pc \in [Calls -> PCs]
    /\ stamp \in [Calls -> Nat]
    /\ reply \in [Calls -> [kind : Kinds, usage : BOOLEAN, used : Usages \cup {0}]]
    /\ retried \in [Calls -> BOOLEAN]
    /\ settled \in [Calls -> BOOLEAN]
    /\ now \in Nat

Billed == {c \in Calls : billed[c] # 0}
InTime == Active \cup {c \in Billed : resv[c] # "expired"}

\* The calls that were billed before their reservation expired, and those
\* that still hold one, never exceed max_session_model_calls together, however
\* many threads, crashes, retries and failing writes there are.
CallsInTimeBounded == CallLimit # 0 => Cardinality(InTime) <= CallLimit

\* What a call has of the tokens it reserved: all of them until it is billed.
Share == [c \in Calls |->
    IF billed[c] # 0 /\ spent[c] < Estimate[c] THEN spent[c] ELSE Estimate[c]]

\* The same of max_session_tokens, as far as calls use what they estimated:
\* estimates leave the completion out, so a call may overrun by the rest.
TokensInTimeBounded ==
    TokenLimit # 0 => MapThenSumSet(LAMBDA c : Share[c], InTime) <= TokenLimit

\* The session row counts every answered call at most once, also when the
\* hook raises and the call is accounted for twice, or settling failed.
BilledOnce ==
    /\ \A c \in Calls : billed[c] <= 1
    /\ calls = Cardinality(Billed)
    /\ tokens = MapThenSumSet(LAMBDA c : spent[c], Calls)

\* A settled or expired reservation never changes again, and an expired one is
\* not counted as committed (tests/test_runtime_store.py, "budget reservation
\* release after commit is noop").
FinalStaysFinal ==
    [][\A c \in Calls : resv[c] \in Final => resv'[c] = resv[c]]_vars

\* What the limit is for: the session row never counts more calls than
\* max_session_model_calls (tests/test_token_mechanism.py, "model client
\* concurrent calls respect session call reservation").  Fails: a call whose
\* post outlives the TTL is billed on top of the one admitted in its place.
SessionCallsBounded == CallLimit # 0 => calls <= CallLimit

\* The state of a call in CallBudget.
StateOf(c) ==
    CASE resv[c] = "none" -> "new"
      [] resv[c] = "active" -> IF billed[c] = 0 THEN "held" ELSE "charged"
      [] resv[c] = "expired" -> IF billed[c] = 0 THEN "lapsed" ELSE "overdue"
      [] OTHER -> IF billed[c] = 0 THEN "free" ELSE "charged"

Budget == INSTANCE CallBudget WITH
    Limit <- CallLimit, Uses <- Usages \cup {0},
    state <- [c \in Calls |-> StateOf(c)], used <- spent

\* Every step of every call keeps the promise of CallBudget, for the number of
\* calls and for their tokens.
ImplementsCallBudget == Budget!Spec
===========================================================================
