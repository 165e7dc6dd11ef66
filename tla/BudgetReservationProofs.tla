---------------------- MODULE BudgetReservationProofs ----------------------
(***************************************************************************)
(* Proofs about BudgetReservation for any finite set of calls, any limits  *)
(* and any TTL.  The point of BudgetInv is the ledger: while a call can    *)
(* still be billed it is not billed yet, and the session row agrees with   *)
(* the number of billed calls, so what reserve_model_budget adds up is     *)
(* never too little.  TokenLedger is the same of the tokens; sums are      *)
(* handled as sizes of sets (Coins).                                       *)
(***************************************************************************)
EXTENDS BudgetReservation, FiniteSetTheorems, TLAPS

\* Where a call is, against its reservation and its bill.
LedgerOf(c) ==
    /\ billed[c] \in {0, 1}
    /\ billed[c] = 0 => spent[c] = 0
    /\ resv[c] = "none" => billed[c] = 0
    /\ pc[c] \in {"idle", "begin", "reserve"} => resv[c] = "none"
    /\ \/ pc[c] = "post"
       \/ pc[c] = "record" /\ (reply[c].usage \/ reply[c].kind = "text")
       => resv[c] \in {"active", "expired"} /\ billed[c] = 0

Ledger == \A c \in Calls : LedgerOf(c)

BudgetInv == TypeOK /\ Ledger /\ calls = Cardinality(Billed)

LEMMA InvInit == Init => BudgetInv
<1> SUFFICES ASSUME Init PROVE BudgetInv
  OBVIOUS
<1>1. TypeOK
  BY DEF Init, TypeOK, PCs, Kinds
<1>2. Ledger
  BY DEF Init, Ledger, LedgerOf
<1>3. Billed = {}
  BY DEF Init, Billed
<1> QED BY <1>1, <1>2, <1>3, FS_EmptySet DEF BudgetInv, Init

\* Expiring touches active reservations only.
LEMMA ExpireTypes ==
  ASSUME TypeOK, NEW t \in Nat
  PROVE  /\ Expire(t) \in [Calls -> {"none", "active"} \cup Final]
         /\ \A c \in Calls : Expire(t)[c] # resv[c] =>
                resv[c] = "active" /\ Expire(t)[c] = "expired"
  BY DEF TypeOK, Expire, Final, Overdue, Active

\* A response is stored with its kind, its usage dict or none, and the tokens.
LEMMA AnsweredType ==
  ASSUME TypeOK, NEW c \in Calls, NEW k \in Kinds, NEW d \in BOOLEAN,
         NEW u \in Usages \cup {0}, Answered(c, k, d, u)
  PROVE  reply' \in [Calls -> [kind : Kinds, usage : BOOLEAN, used : Usages \cup {0}]]
  BY DEF TypeOK, Answered

LEMMA TypeStep == TypeOK /\ [Next]_vars => TypeOK'
<1> SUFFICES ASSUME TypeOK, [Next]_vars PROVE TypeOK'
  OBVIOUS
<1> USE DEF PCs
<1>1. ASSUME NEW c \in Calls, Guard(c) PROVE TypeOK'
  BY <1>1 DEF Guard, TypeOK, Go, session, table, client
<1>2. ASSUME NEW c \in Calls, ReserveBegin(c) PROVE TypeOK'
  BY <1>2 DEF ReserveBegin, TypeOK, Go, session, table
<1>3. ASSUME NEW c \in Calls, Reserve(c) PROVE TypeOK'
  <2>1. stamp[c] \in Nat /\ stamp[c] + Ttl \in Nat
    BY BudgetAssumption DEF TypeOK
  <2>2. resv' \in [Calls -> {"none", "active"} \cup Final]
    BY <1>3, <2>1, ExpireTypes DEF Reserve
  <2> QED BY <1>3, <2>1, <2>2 DEF Reserve, TypeOK, Go, session, client
<1>4. ASSUME NEW c \in Calls, ReserveBlocked(c) PROVE TypeOK'
  <2>1. stamp[c] \in Nat
    BY DEF TypeOK
  <2> QED BY <1>4, <2>1, ExpireTypes DEF ReserveBlocked, TypeOK, Go, session, client
<1>5. ASSUME NEW c \in Calls, ReserveFails(c) PROVE TypeOK'
  BY <1>5 DEF ReserveFails, TypeOK, Go, session, table, client
<1>6. ASSUME NEW c \in Calls, NEW k \in {"text", "muted", "failed"},
             NEW u \in Usages \cup {0}, Answer(c, k, u)
      PROVE TypeOK'
  <2>1. \E d \in BOOLEAN : Answered(c, k, d, u)
    BY <1>6 DEF Answer
  <2>2. k \in Kinds
    BY DEF Kinds
  <2>3. reply' \in [Calls -> [kind : Kinds, usage : BOOLEAN, used : Usages \cup {0}]]
    BY <2>1, <2>2, AnsweredType
  <2> QED BY <1>6, <2>3 DEF Answer, TypeOK, Go, session, table
<1>7. ASSUME NEW c \in Calls, TooLong(c) PROVE TypeOK'
  <2>1. Answered(c, "denied", FALSE, 0) \/ UNCHANGED reply
    BY <1>7 DEF TooLong
  <2>2. reply' \in [Calls -> [kind : Kinds, usage : BOOLEAN, used : Usages \cup {0}]]
    BY <2>1, AnsweredType DEF Kinds, TypeOK
  <2> QED BY <1>7, <2>2 DEF TooLong, TypeOK, Go, session, table
<1>8. ASSUME NEW c \in Calls, Record(c) PROVE TypeOK'
  <2>1. reply[c] \in [kind : Kinds, usage : BOOLEAN, used : Usages \cup {0}]
    BY DEF TypeOK
  <2>2. reply[c].used \in Usages \cup {0}
    BY <2>1
  <2>3. \A u \in Usages \cup {0} : u \in Nat
    BY BudgetAssumption
  <2>4. reply[c].used \in Nat
    BY <2>2, <2>3
  <2> QED BY <1>8, <2>4 DEF Record, TypeOK, Go, table, client
<1>9. ASSUME NEW c \in Calls, RecordFails(c) PROVE TypeOK'
  BY <1>9 DEF RecordFails, TypeOK, Go, session, table, client
<1>10. ASSUME NEW c \in Calls, Settle(c) PROVE TypeOK'
  BY <1>10 DEF Settle, TypeOK, Go, session, Final, Settled
<1>11. ASSUME NEW c \in Calls, SettleFails(c) PROVE TypeOK'
  BY <1>11 DEF SettleFails, TypeOK, Go, session, table, client
<1>12. ASSUME NEW c \in Calls, HookReturns(c) \/ Crash(c) PROVE TypeOK'
  BY <1>12 DEF HookReturns, Crash, TypeOK, Go, session, table, client
<1>13. ASSUME NEW c \in Calls, HookRaises(c) PROVE TypeOK'
  <2>1. Answered(c, "failed", FALSE, 0) \/ UNCHANGED reply
    BY <1>13 DEF HookRaises
  <2>2. reply' \in [Calls -> [kind : Kinds, usage : BOOLEAN, used : Usages \cup {0}]]
    BY <2>1, AnsweredType DEF Kinds, TypeOK
  <2> QED BY <1>13, <2>2 DEF HookRaises, TypeOK, Go, session, table
<1>14. CASE ExpireListed
  <2>1. now \in Nat
    BY DEF TypeOK
  <2> QED BY <1>14, <2>1, ExpireTypes DEF ExpireListed, TypeOK, session, client
<1>15. CASE Tick
  BY <1>15 DEF Tick, TypeOK, session, table, client
<1>16. CASE UNCHANGED vars
  BY <1>16 DEF vars, TypeOK, session, table, client
<1> QED BY <1>1, <1>2, <1>3, <1>4, <1>5, <1>6, <1>7, <1>8, <1>9, <1>10, <1>11,
           <1>12, <1>13, <1>14, <1>15, <1>16 DEF Next, CallStep

\* A call nobody steps keeps its ledger, also when its reservation expires.
LEMMA LedgerFrame ==
  ASSUME NEW d \in Calls, LedgerOf(d),
         billed'[d] = billed[d], spent'[d] = spent[d],
         pc'[d] = pc[d], reply'[d] = reply[d],
         resv'[d] = resv[d] \/ (resv[d] = "active" /\ resv'[d] = "expired")
  PROVE  LedgerOf(d)'
  BY DEF LedgerOf

LEMMA LedgerStep == TypeOK /\ Ledger /\ [Next]_vars => Ledger'
<1> SUFFICES ASSUME TypeOK, Ledger, [Next]_vars, NEW d \in Calls PROVE LedgerOf(d)'
  BY DEF Ledger
<1> LedgerOf(d)
  BY DEF Ledger
<1>1. ASSUME NEW c \in Calls, \/ Guard(c) \/ ReserveBegin(c) \/ ReserveFails(c)
                               \/ RecordFails(c) \/ SettleFails(c)
                               \/ HookReturns(c) \/ Crash(c)
      PROVE LedgerOf(d)'
  BY <1>1 DEF Guard, ReserveBegin, ReserveFails, RecordFails, SettleFails, HookReturns,
              Crash, Go, LedgerOf, TypeOK, session, table, client
<1>2. ASSUME NEW c \in Calls, Reserve(c) PROVE LedgerOf(d)'
  <2>1. stamp[c] \in Nat
    BY DEF TypeOK
  <2>2. resv'[d] = resv[d] \/ (resv[d] = "active" /\ resv'[d] = "expired") \/ d = c
    BY <1>2, <2>1, ExpireTypes DEF Reserve
  <2>3. CASE d # c
    BY <1>2, <2>2, <2>3, LedgerFrame DEF Reserve, Go, TypeOK, session, client
  <2>4. CASE d = c
    BY <1>2, <2>1, <2>4, ExpireTypes DEF Reserve, Go, LedgerOf, TypeOK, session, client
  <2> QED BY <2>3, <2>4
<1>3. ASSUME NEW c \in Calls, ReserveBlocked(c) PROVE LedgerOf(d)'
  <2>1. stamp[c] \in Nat
    BY DEF TypeOK
  <2>2. resv'[d] = resv[d] \/ (resv[d] = "active" /\ resv'[d] = "expired")
    BY <1>3, <2>1, ExpireTypes DEF ReserveBlocked
  <2> QED BY <1>3, <2>2 DEF ReserveBlocked, Go, LedgerOf, TypeOK, session, client
<1>4. ASSUME NEW c \in Calls, NEW k \in {"text", "muted", "failed"},
             NEW u \in Usages \cup {0}, Answer(c, k, u)
      PROVE LedgerOf(d)'
  BY <1>4 DEF Answer, Answered, Go, LedgerOf, TypeOK, session, table
<1>5. ASSUME NEW c \in Calls, TooLong(c) PROVE LedgerOf(d)'
  BY <1>5 DEF TooLong, Answered, Go, LedgerOf, TypeOK, session, table
<1>6. ASSUME NEW c \in Calls, Record(c) PROVE LedgerOf(d)'
  BY <1>6 DEF Record, Bills, Go, LedgerOf, TypeOK, table, client
<1>7. ASSUME NEW c \in Calls, Settle(c) PROVE LedgerOf(d)'
  BY <1>7 DEF Settle, Go, LedgerOf, TypeOK, session
<1>8. ASSUME NEW c \in Calls, HookRaises(c) PROVE LedgerOf(d)'
  BY <1>8 DEF HookRaises, Answered, Go, LedgerOf, TypeOK, session, table
<1>9. CASE ExpireListed
  <2>1. resv'[d] = resv[d] \/ (resv[d] = "active" /\ resv'[d] = "expired")
    BY <1>9, ExpireTypes DEF ExpireListed, TypeOK
  <2> QED BY <1>9, <2>1, LedgerFrame DEF ExpireListed, session, client
<1>10. CASE Tick \/ UNCHANGED vars
  BY <1>10, LedgerFrame DEF Tick, vars, session, table, client
<1> QED BY <1>1, <1>2, <1>3, <1>4, <1>5, <1>6, <1>7, <1>8, <1>9, <1>10
        DEF Next, CallStep

\* Sets of calls are finite.
LEMMA CallsFinite ==
  ASSUME NEW S \in SUBSET Calls
  PROVE  IsFiniteSet(S) /\ Cardinality(S) \in Nat
  BY BudgetAssumption, FS_Subset, FS_CardinalityType

\* The session row and the bills change together.
LEMMA BilledStep ==
  BudgetInv /\ [Next]_vars => calls' = Cardinality(Billed')
<1> SUFFICES ASSUME BudgetInv, [Next]_vars PROVE calls' = Cardinality(Billed')
  OBVIOUS
<1>1. CASE \E c \in Calls : Record(c)
  <2> PICK c \in Calls : Record(c)
    BY <1>1
  <2>1. CASE Bills(c)
    <3>1. billed[c] = 0
      BY <2>1 DEF BudgetInv, Ledger, LedgerOf, Bills, Record
    <3>2. billed' = [billed EXCEPT ![c] = 1] /\ calls' = calls + 1
      BY <2>1, <3>1 DEF Record, BudgetInv, TypeOK
    <3>3. Billed' = Billed \cup {c} /\ c \notin Billed
      BY <3>1, <3>2 DEF Billed, BudgetInv, TypeOK
    <3>4. IsFiniteSet(Billed)
      BY CallsFinite DEF Billed
    <3> QED BY <3>2, <3>3, <3>4, FS_AddElement DEF BudgetInv
  <2>2. CASE ~Bills(c)
    <3>1. billed' = billed /\ calls' = calls
      BY <2>2 DEF Record, BudgetInv, TypeOK
    <3> QED BY <3>1 DEF BudgetInv, Billed
  <2> QED BY <2>1, <2>2
<1>2. CASE ~ \E c \in Calls : Record(c)
  <2>1. billed' = billed /\ calls' = calls
    BY <1>2 DEF Next, CallStep, Guard, ReserveBegin, Reserve, ReserveBlocked,
        ReserveFails, Answer, TooLong, RecordFails, Settle, SettleFails, HookReturns,
        HookRaises, Crash, ExpireListed, Tick, vars, session
  <2> QED BY <2>1 DEF BudgetInv, Billed
<1> QED BY <1>1, <1>2

LEMMA InvStep == BudgetInv /\ [Next]_vars => BudgetInv'
  BY TypeStep, LedgerStep, BilledStep DEF BudgetInv

LEMMA BudgetInvariant == Spec => []BudgetInv
  BY InvInit, InvStep, PTL DEF Spec

\* The two tables and the calls in progress keep their types.
THEOREM BudgetTypes == Spec => []TypeOK
<1>1. BudgetInv => TypeOK
  BY DEF BudgetInv
<1> QED BY <1>1, BudgetInvariant, PTL

---------------------------------------------------------------------------
(* The limit on calls.                                                     *)

\* reserve_model_budget admits a call only where the calls billed and the
\* reservations still live leave room.
LEMMA OpenLeavesRoom ==
  ASSUME BudgetInv, CallLimit # 0, NEW c \in Calls, NEW t \in Nat, Open(c, t)
  PROVE  Cardinality(Billed \cup (Active \ Overdue(t))) < CallLimit
<1> DEFINE live == Active \ Overdue(t)
<1>1. /\ IsFiniteSet(Billed) /\ Cardinality(Billed) \in Nat
      /\ IsFiniteSet(live) /\ Cardinality(live) \in Nat
      /\ Cardinality(Billed \cap live) \in Nat
  BY CallsFinite DEF Billed, Active
<1>2. calls + Cardinality(live) + 1 <= CallLimit
  BY DEF Open, Within
<1>3. Cardinality(Billed \cup live) <= Cardinality(Billed) + Cardinality(live)
  <2> HIDE DEF live
  <2>1. Cardinality(Billed \cup live)
            = Cardinality(Billed) + Cardinality(live) - Cardinality(Billed \cap live)
    BY <1>1, FS_Union
  <2> QED BY <1>1, <2>1
<1>4. Cardinality(Billed \cup live) \in Nat
  BY CallsFinite DEF Billed, Active
<1>5. calls = Cardinality(Billed) /\ CallLimit \in Nat
  BY BudgetAssumption DEF BudgetInv
<1> HIDE DEF live
<1>6. Cardinality(Billed \cup live) < CallLimit
  BY <1>1, <1>2, <1>3, <1>4, <1>5
<1> QED BY <1>6 DEF live

\* No step but Reserve puts a call into InTime.
LEMMA InTimeShrinks ==
  ASSUME BudgetInv, [Next]_vars, ~ \E c \in Calls : Reserve(c)
  PROVE  InTime' \subseteq InTime
<1> TypeOK /\ Ledger
  BY DEF BudgetInv
<1>1. ASSUME NEW c \in Calls, \/ Guard(c) \/ ReserveBegin(c) \/ ReserveFails(c)
                               \/ RecordFails(c) \/ SettleFails(c)
                               \/ HookReturns(c) \/ Crash(c) \/ TooLong(c)
                               \/ HookRaises(c)
      PROVE InTime' = InTime
  BY <1>1 DEF Guard, ReserveBegin, ReserveFails, RecordFails, SettleFails, HookReturns,
              HookRaises, TooLong, Crash, session, table, InTime, Billed, Active
<1>2. ASSUME NEW c \in Calls, ReserveBlocked(c) PROVE InTime' \subseteq InTime
  <2>1. stamp[c] \in Nat
    BY DEF TypeOK
  <2>2. \A d \in Calls : resv'[d] = resv[d] \/ (resv[d] = "active" /\ resv'[d] = "expired")
    BY <1>2, <2>1, ExpireTypes DEF ReserveBlocked
  <2> QED BY <1>2, <2>2 DEF ReserveBlocked, session, InTime, Billed, Active
<1>3. ASSUME NEW c \in Calls, NEW k \in {"text", "muted", "failed"},
             NEW u \in Usages \cup {0}, Answer(c, k, u)
      PROVE InTime' = InTime
  BY <1>3 DEF Answer, session, table, InTime, Billed, Active
<1>4. ASSUME NEW c \in Calls, Record(c) PROVE InTime' \subseteq InTime
  <2>1. CASE Bills(c)
    BY <1>4, <2>1 DEF Record, Bills, Ledger, LedgerOf, TypeOK, table, InTime, Billed, Active
  <2>2. CASE ~Bills(c)
    BY <1>4, <2>2 DEF Record, TypeOK, table, InTime, Billed, Active
  <2> QED BY <2>1, <2>2
<1>5. ASSUME NEW c \in Calls, Settle(c) PROVE InTime' \subseteq InTime
  BY <1>5 DEF Settle, TypeOK, session, InTime, Billed, Active
<1>6. CASE ExpireListed
  <2>1. \A d \in Calls : resv'[d] = resv[d] \/ (resv[d] = "active" /\ resv'[d] = "expired")
    BY <1>6, ExpireTypes DEF ExpireListed, TypeOK
  <2> QED BY <1>6, <2>1 DEF ExpireListed, session, InTime, Billed, Active
<1>7. CASE Tick \/ UNCHANGED vars
  BY <1>7 DEF Tick, vars, session, table, InTime, Billed, Active
<1> QED BY <1>1, <1>2, <1>3, <1>4, <1>5, <1>6, <1>7 DEF Next, CallStep

LEMMA InTimeStep ==
  BudgetInv /\ CallsInTimeBounded /\ [Next]_vars => CallsInTimeBounded'
<1> SUFFICES ASSUME BudgetInv, CallsInTimeBounded, [Next]_vars, CallLimit # 0
             PROVE  Cardinality(InTime') <= CallLimit
  BY DEF CallsInTimeBounded
<1>1. CASE \E c \in Calls : Reserve(c)
  <2> PICK c \in Calls : Reserve(c)
    BY <1>1
  <2> DEFINE room == Billed \cup (Active \ Overdue(stamp[c]))
  <2>1. stamp[c] \in Nat /\ CallLimit \in Nat
    BY BudgetAssumption DEF BudgetInv, TypeOK
  <2>2. Cardinality(room) < CallLimit
    BY <2>1, OpenLeavesRoom DEF Reserve
  <2>3. InTime' \subseteq room \cup {c}
    BY DEF Reserve, Expire, Overdue, Active, InTime, Billed, session, BudgetInv, TypeOK
  <2>4. IsFiniteSet(room) /\ Cardinality(room) \in Nat /\ Cardinality(InTime') \in Nat
    BY CallsFinite DEF InTime, Billed, Active
  <2> HIDE DEF room
  <2>5. IsFiniteSet(room \cup {c}) /\ Cardinality(room \cup {c}) <= Cardinality(room) + 1
    BY <2>4, FS_AddElement
  <2>6. Cardinality(InTime') <= Cardinality(room \cup {c})
    BY <2>3, <2>5, FS_Subset
  <2>7. Cardinality(room \cup {c}) \in Nat
    BY <2>5, FS_CardinalityType
  <2> QED BY <2>1, <2>2, <2>4, <2>5, <2>6, <2>7
<1>2. CASE ~ \E c \in Calls : Reserve(c)
  <2>1. InTime' \subseteq InTime
    BY <1>2, InTimeShrinks
  <2>2. IsFiniteSet(InTime) /\ Cardinality(InTime) \in Nat /\ Cardinality(InTime') \in Nat
    BY CallsFinite DEF InTime, Billed, Active
  <2>3. Cardinality(InTime') <= Cardinality(InTime)
    BY <2>1, <2>2, FS_Subset
  <2>4. Cardinality(InTime) <= CallLimit /\ CallLimit \in Nat
    BY BudgetAssumption DEF CallsInTimeBounded
  <2> QED BY <2>2, <2>3, <2>4
<1> QED BY <1>1, <1>2

\* For every number of concurrent calls and every limit: the calls billed in
\* time and those that still hold a reservation stay within
\* max_session_model_calls.
THEOREM InTimeCallsBounded == Spec => []CallsInTimeBounded
<1>1. Init => CallsInTimeBounded
  <2> SUFFICES ASSUME Init PROVE CallsInTimeBounded
    OBVIOUS
  <2>1. InTime = {}
    BY DEF Init, InTime, Active, Billed
  <2> QED BY <2>1, FS_EmptySet, BudgetAssumption DEF CallsInTimeBounded
<1> QED BY <1>1, InTimeStep, BudgetInvariant, PTL DEF Spec

---------------------------------------------------------------------------
(* Sums over sets.  The sum of f over S is the size of a set that has f[c]  *)
(* members for every c of S, so facts about sums are facts about finite     *)
(* sets.  SumIsTotal shows that MapThenSumSet, which picks the elements one *)
(* by one, gives that number: its recursive function has a solution, and by *)
(* well-foundedness of the finite subsets only one.                         *)

\* Every summand as that many coins: the sum of f over S is their number.
Coins(f, S) == UNION {{c} \X (1..f[c]) : c \in S}
Total(f, S) == Cardinality(Coins(f, S))

\* What the recursive function inside MapThenSumSet is chosen to satisfy.
IsSum(f, S, g) ==
    g = [s \in SUBSET S |->
            IF s = {} THEN 0
            ELSE f[CHOOSE x \in s : TRUE] + g[s \ {CHOOSE x \in s : TRUE}]]

LEMMA CoinsOfOne ==
  ASSUME NEW x, NEW n \in Nat
  PROVE  IsFiniteSet({x} \X (1..n)) /\ Cardinality({x} \X (1..n)) = n
<1>1. IsFiniteSet({x}) /\ Cardinality({x}) = 1
  BY FS_Singleton
<1>2. IsFiniteSet(1..n) /\ Cardinality(1..n) = n
  BY FS_Interval
<1>3. /\ IsFiniteSet({x} \X (1..n))
      /\ Cardinality({x} \X (1..n)) = Cardinality({x}) * Cardinality(1..n)
  BY <1>1, <1>2, FS_Product, Zenon
<1>4. Cardinality({x} \X (1..n)) = 1 * n
  BY <1>1, <1>2, <1>3, Zenon
<1> QED BY <1>3, <1>4

LEMMA CoinsFinite ==
  ASSUME NEW S, IsFiniteSet(S), NEW f, \A c \in S : f[c] \in Nat
  PROVE  IsFiniteSet(Coins(f, S)) /\ Total(f, S) \in Nat
<1> DEFINE g == [c \in S |-> {c} \X (1..f[c])]
           R == {g[c] : c \in S}
<1>1. g \in Surjection(S, R)
  BY DEF Surjection
<1>2. IsFiniteSet(R)
  BY <1>1, FS_Surjection
<1>3. \A r \in R : IsFiniteSet(r)
  <2> SUFFICES ASSUME NEW c \in S PROVE IsFiniteSet({c} \X (1..f[c]))
    OBVIOUS
  <2>1. f[c] \in Nat
    OBVIOUS
  <2> QED BY <2>1, CoinsOfOne, Zenon
<1>4. Coins(f, S) = UNION R
  BY DEF Coins
<1>5. IsFiniteSet(UNION R)
  <2> HIDE DEF R
  <2> QED BY <1>2, <1>3, FS_UNION
<1> QED BY <1>4, <1>5, FS_CardinalityType DEF Total

\* A sum splits off any of its summands.
LEMMA TotalSplit ==
  ASSUME NEW S, IsFiniteSet(S), NEW f, \A c \in S : f[c] \in Nat, NEW x \in S
  PROVE  Total(f, S) = f[x] + Total(f, S \ {x})
<1> DEFINE A == Coins(f, S \ {x})
           B == {x} \X (1..f[x])
<1>1. IsFiniteSet(S \ {x})
  BY FS_RemoveElement
<1>2. IsFiniteSet(A) /\ Cardinality(A) \in Nat
  BY <1>1, CoinsFinite DEF Total
<1>3. IsFiniteSet(B) /\ Cardinality(B) = f[x]
  BY CoinsOfOne
<1>4. Coins(f, S) = A \cup B
  BY DEF Coins
<1>5. A \cap B = {}
  BY DEF Coins
<1>6. Cardinality(A \cup B) = Cardinality(A) + Cardinality(B) - Cardinality(A \cap B)
  <2> HIDE DEF A, B
  <2> QED BY <1>2, <1>3, FS_Union
<1>7. Cardinality(A \cap B) = 0
  BY <1>5, FS_EmptySet
<1> HIDE DEF A, B
<1>8. Cardinality(A \cup B) = f[x] + Cardinality(A)
  BY <1>2, <1>3, <1>6, <1>7
<1> QED BY <1>4, <1>8 DEF Total, A

LEMMA TotalEmpty ==
  ASSUME NEW f PROVE Total(f, {}) = 0
<1>1. Coins(f, {}) = {}
  BY DEF Coins
<1> QED BY <1>1, FS_EmptySet DEF Total

\* The equation of the recursive function has Total as a solution ...
LEMMA TotalIsSum ==
  ASSUME NEW S, IsFiniteSet(S), NEW f, \A c \in S : f[c] \in Nat
  PROVE  IsSum(f, S, [s \in SUBSET S |-> Total(f, s)])
<1> DEFINE g == [s \in SUBSET S |-> Total(f, s)]
<1>1. ASSUME NEW s \in SUBSET S, s # {}
      PROVE  g[s] = f[CHOOSE x \in s : TRUE] + g[s \ {CHOOSE x \in s : TRUE}]
  <2> DEFINE x == CHOOSE y \in s : TRUE
  <2>1. x \in s
    BY <1>1
  <2> HIDE DEF x
  <2>2. IsFiniteSet(s)
    BY FS_Subset
  <2>3. Total(f, s) = f[x] + Total(f, s \ {x})
    BY <2>1, <2>2, TotalSplit
  <2>4. g[s] = f[x] + g[s \ {x}]
    BY <2>3
  <2> QED BY <2>4 DEF x
<1>2. g[{}] = 0
  BY TotalEmpty
<1>3. g = [s \in SUBSET S |->
            IF s = {} THEN 0
            ELSE f[CHOOSE x \in s : TRUE] + g[s \ {CHOOSE x \in s : TRUE}]]
  BY <1>1, <1>2
<1> QED BY <1>3 DEF IsSum

\* ... and no other: a smallest set on which two solutions differ is not empty,
\* and they agree once an element is taken away.
LEMMA SumIsUnique ==
  ASSUME NEW S, IsFiniteSet(S), NEW f, \A c \in S : f[c] \in Nat,
         NEW g, IsSum(f, S, g)
  PROVE  g[S] = Total(f, S)
<1> DEFINE D == {s \in SUBSET S : g[s] # Total(f, s)}
<1> SUFFICES D = {}
  OBVIOUS
<1> SUFFICES ASSUME D # {} PROVE FALSE
  OBVIOUS
<1>1. FiniteSubsetsOf(S) = SUBSET S
  BY FS_FiniteSubsetsOfFinite
<1>2. IsWellFoundedOn(StrictSubsetOrdering(S), SUBSET S)
  BY <1>1, FS_StrictSubsetOrderingWellFounded
<1>3. PICK s \in D : \A t \in D : ~ (<<t, s>> \in StrictSubsetOrdering(S))
  <2> D \subseteq SUBSET S
    OBVIOUS
  <2> HIDE DEF D
  <2> QED BY <1>2, WFMin
<1> DEFINE x == CHOOSE y \in s : TRUE
<1>4. s # {}
  BY TotalEmpty DEF IsSum
<1>5. x \in s
  BY <1>4
<1>6. g[s] = f[x] + g[s \ {x}]
  BY <1>4 DEF IsSum
<1> HIDE DEF x
<1>7. s \ {x} \notin D
  <2>1. s \in SUBSET S /\ s \ {x} \in SUBSET S /\ s \ {x} # s
    BY <1>5
  <2>2. << s \ {x}, s >> \in StrictSubsetOrdering(S)
    BY <2>1 DEF StrictSubsetOrdering
  <2> HIDE DEF D
  <2> QED BY <1>3, <2>2
<1>8. g[s \ {x}] = Total(f, s \ {x})
  BY <1>7
<1>9. Total(f, s) = f[x] + Total(f, s \ {x})
  BY <1>5, TotalSplit, FS_Subset
<1> QED BY <1>6, <1>8, <1>9

\* MapThenSumSet over a finite set, for any f: the number of coins.
LEMMA SumIsTotal ==
  ASSUME NEW S, IsFiniteSet(S), NEW f, \A c \in S : f[c] \in Nat
  PROVE  MapThenSumSet(LAMBDA c : f[c], S) = Total(f, S)
<1>1. MapThenSumSet(LAMBDA c : f[c], S) = (CHOOSE g : IsSum(f, S, g))[S]
  BY DEF MapThenSumSet, MapThenFoldSet, IsSum
<1>2. IsSum(f, S, CHOOSE g : IsSum(f, S, g))
  BY TotalIsSum
<1> QED BY <1>1, <1>2, SumIsUnique

\* Fewer or smaller summands, a smaller sum.
LEMMA TotalMonotone ==
  ASSUME NEW T, IsFiniteSet(T), NEW S \in SUBSET T, NEW f, NEW h,
         \A c \in T : h[c] \in Nat, \A c \in S : f[c] \in Nat /\ f[c] <= h[c]
  PROVE  Total(f, S) <= Total(h, T)
<1>1. Coins(f, S) \subseteq Coins(h, T)
  BY DEF Coins
<1>2. IsFiniteSet(Coins(h, T))
  BY CoinsFinite
<1> QED BY <1>1, <1>2, FS_Subset DEF Total

LEMMA TotalUnion ==
  ASSUME NEW S, NEW T, IsFiniteSet(S), IsFiniteSet(T), NEW f,
         \A c \in S \cup T : f[c] \in Nat
  PROVE  Total(f, S \cup T) <= Total(f, S) + Total(f, T)
<1>1. Coins(f, S \cup T) = Coins(f, S) \cup Coins(f, T)
  BY DEF Coins
<1>2. /\ IsFiniteSet(Coins(f, S)) /\ IsFiniteSet(Coins(f, T))
      /\ Total(f, S) \in Nat /\ Total(f, T) \in Nat
  BY CoinsFinite
<1>3. Cardinality(Coins(f, S) \cap Coins(f, T)) \in Nat
  BY <1>2, FS_Intersection, FS_CardinalityType
<1> DEFINE A == Coins(f, S)
           B == Coins(f, T)
<1>4. Cardinality(A \cup B) = Cardinality(A) + Cardinality(B) - Cardinality(A \cap B)
  <2> HIDE DEF A, B
  <2> QED BY <1>2, FS_Union DEF A, B
<1>5. /\ Total(f, S \cup T) = Cardinality(A \cup B)
      /\ Total(f, S) = Cardinality(A) /\ Total(f, T) = Cardinality(B)
  BY <1>1 DEF Total
<1> HIDE DEF A, B
<1>6. Cardinality(A \cap B) \in Nat
  BY <1>3 DEF A, B
<1> QED BY <1>2, <1>4, <1>5, <1>6

\* A sum in which one summand changed.
LEMMA TotalChange ==
  ASSUME NEW S, IsFiniteSet(S), NEW f, NEW h, NEW x \in S,
         \A c \in S : f[c] \in Nat, \A c \in S \ {x} : h[c] = f[c],
         NEW u \in Nat, h[x] = f[x] + u
  PROVE  Total(h, S) = Total(f, S) + u
<1>1. \A c \in S : h[c] \in Nat
  OBVIOUS
<1>2. Total(f, S) = f[x] + Total(f, S \ {x})
  BY TotalSplit
<1>3. Total(h, S) = h[x] + Total(h, S \ {x})
  BY <1>1, TotalSplit
<1>4. Coins(h, S \ {x}) = Coins(f, S \ {x})
  BY DEF Coins
<1>5. Total(f, S \ {x}) \in Nat
  BY CoinsFinite, FS_RemoveElement
<1> QED BY <1>2, <1>3, <1>4, <1>5 DEF Total
---------------------------------------------------------------------------
(* The tokens of the session row.                                          *)

\* The session row and the rows of model_calls agree.
TokenLedger == tokens = Total(spent, Calls)

LEMMA SpentIsTotal ==
  ASSUME TypeOK
  PROVE  MapThenSumSet(LAMBDA c : spent[c], Calls) = Total(spent, Calls)
<1>1. IsFiniteSet(Calls) /\ \A c \in Calls : spent[c] \in Nat
  BY BudgetAssumption DEF TypeOK
<1> QED BY <1>1, SumIsTotal

LEMMA TokenInit == Init => TokenLedger
<1> SUFFICES ASSUME Init PROVE TokenLedger
  OBVIOUS
<1>1. Coins(spent, Calls) = {}
  BY DEF Init, Coins
<1> QED BY <1>1, FS_EmptySet DEF Init, TokenLedger, Total

\* Only Record changes what was spent, and only by what it adds to the row.
LEMMA TokenStep == BudgetInv /\ TokenLedger /\ [Next]_vars => TokenLedger'
<1> SUFFICES ASSUME BudgetInv, TokenLedger, [Next]_vars
             PROVE  tokens' = Total(spent', Calls)
  BY DEF TokenLedger
<1> TypeOK
  BY DEF BudgetInv
<1>1. CASE \E c \in Calls : Record(c)
  <2> PICK c \in Calls : Record(c)
    BY <1>1
  <2> DEFINE u == IF Bills(c) THEN reply[c].used ELSE 0
  <2>1. u \in Nat
    <3>1. reply[c].used \in Usages \cup {0}
      BY DEF TypeOK
    <3>2. \A n \in Usages \cup {0} : n \in Nat
      BY BudgetAssumption
    <3> QED BY <3>1, <3>2
  <2>2. spent' = [spent EXCEPT ![c] = @ + u] /\ tokens' = tokens + u
    BY DEF Record
  <2> HIDE DEF u
  <2>3. /\ \A d \in Calls : spent[d] \in Nat
        /\ \A d \in Calls \ {c} : spent'[d] = spent[d]
        /\ spent'[c] = spent[c] + u
    BY <2>2 DEF TypeOK
  <2>4. IsFiniteSet(Calls)
    BY BudgetAssumption
  <2>5. Total(spent', Calls) = Total(spent, Calls) + u
    <3> DEFINE h == spent'
    <3> HIDE DEF h
    <3>1. Total(h, Calls) = Total(spent, Calls) + u
      BY <2>1, <2>3, <2>4, TotalChange DEF h
    <3> QED BY <3>1 DEF h
  <2> QED BY <2>2, <2>5 DEF TokenLedger
<1>2. CASE ~ \E c \in Calls : Record(c)
  <2>1. spent' = spent /\ tokens' = tokens
    BY <1>2 DEF Next, CallStep, Guard, ReserveBegin, Reserve, ReserveBlocked,
        ReserveFails, Answer, TooLong, RecordFails, Settle, SettleFails, HookReturns,
        HookRaises, Crash, ExpireListed, Tick, vars, session
  <2> QED BY <2>1 DEF TokenLedger
<1> QED BY <1>1, <1>2

\* For any number of calls, also when the hook raises, a write fails or a call
\* crashes: no call is billed twice, and the session row holds exactly the
\* number of billed calls and the sum of what they spent.
THEOREM EachCallBilledOnce == Spec => []BilledOnce
<1>1. BudgetInv /\ TokenLedger => BilledOnce
  <2> SUFFICES ASSUME BudgetInv, TokenLedger PROVE BilledOnce
    OBVIOUS
  <2>1. \A c \in Calls : billed[c] <= 1
    BY DEF BudgetInv, Ledger, LedgerOf
  <2>2. tokens = MapThenSumSet(LAMBDA c : spent[c], Calls)
    BY SpentIsTotal DEF BudgetInv, TokenLedger
  <2> QED BY <2>1, <2>2 DEF BilledOnce, BudgetInv
<1> QED BY <1>1, TokenInit, TokenStep, BudgetInvariant, PTL DEF Spec

---------------------------------------------------------------------------
(* The limit on tokens.                                                    *)

\* What the calls in time have of the token limit, and that this is enough.
InTimeTokens == Total(Share, InTime)
WithinTokens == TokenLimit # 0 => InTimeTokens <= TokenLimit

\* A share is at most the estimate, and of a billed call at most its bill.
LEMMA ShareBounds ==
  ASSUME TypeOK, NEW c \in Calls
  PROVE  /\ Share[c] \in Nat /\ Share[c] <= Estimate[c] /\ Estimate[c] \in Nat
         /\ spent[c] \in Nat /\ (billed[c] # 0 => Share[c] <= spent[c])
  BY BudgetAssumption DEF TypeOK, Share

LEMMA InTimeTokensSum ==
  ASSUME TypeOK
  PROVE  /\ MapThenSumSet(LAMBDA c : Share[c], InTime) = InTimeTokens
         /\ InTimeTokens \in Nat
<1>1. IsFiniteSet(InTime) /\ \A c \in InTime : Share[c] \in Nat
  BY CallsFinite, ShareBounds DEF InTime, Active, Billed
<1> QED BY <1>1, SumIsTotal, CoinsFinite DEF InTimeTokens

\* reserve_model_budget admits a call only where what was spent and what is
\* reserved leave room for its estimate.
LEMMA OpenLeavesTokens ==
  ASSUME BudgetInv, TokenLedger, TokenLimit # 0, NEW c \in Calls, NEW t \in Nat,
         Open(c, t)
  PROVE  Total(Share, Billed \cup (Active \ Overdue(t))) + Estimate[c] <= TokenLimit
<1> DEFINE live == Active \ Overdue(t)
<1> TypeOK
  BY DEF BudgetInv
<1>1. /\ live \in SUBSET Calls /\ Billed \in SUBSET Calls
      /\ IsFiniteSet(live) /\ IsFiniteSet(Billed) /\ IsFiniteSet(Calls)
  BY CallsFinite, BudgetAssumption DEF Active, Billed
<1>2. tokens + MapThenSumSet(LAMBDA d : Estimate[d], live) + Estimate[c] <= TokenLimit
  BY DEF Open, Within
<1> HIDE DEF live
<1>3. \A d \in Calls : /\ Share[d] \in Nat /\ Share[d] <= Estimate[d]
                       /\ Estimate[d] \in Nat /\ spent[d] \in Nat
                       /\ (billed[d] # 0 => Share[d] <= spent[d])
  BY ShareBounds
<1>4. MapThenSumSet(LAMBDA d : Estimate[d], live) = Total(Estimate, live)
  BY <1>1, <1>3, SumIsTotal
<1>5. Total(Share, Billed) <= Total(spent, Calls)
  <2>1. \A d \in Billed : Share[d] \in Nat /\ Share[d] <= spent[d]
    BY <1>3 DEF Billed
  <2> QED BY <1>1, <1>3, <2>1, TotalMonotone
<1>6. Total(Share, live) <= Total(Estimate, live)
  <2>1. live \in SUBSET live /\ \A d \in live : Estimate[d] \in Nat /\ Share[d] \in Nat
                                          /\ Share[d] <= Estimate[d]
    BY <1>1, <1>3
  <2> QED BY <1>1, <2>1, TotalMonotone
<1>7. Total(Share, Billed \cup live) <= Total(Share, Billed) + Total(Share, live)
  BY <1>1, <1>3, TotalUnion
<1>8. /\ Total(Share, Billed \cup live) \in Nat /\ Total(Share, Billed) \in Nat
      /\ Total(Share, live) \in Nat /\ Total(Estimate, live) \in Nat
      /\ Total(spent, Calls) \in Nat
  <2>1. IsFiniteSet(Billed \cup live)
    BY <1>1, FS_Union
  <2>2. \A d \in Billed \cup live : Share[d] \in Nat
    BY <1>1, <1>3
  <2>3. Total(Share, Billed \cup live) \in Nat
    BY <2>1, <2>2, CoinsFinite
  <2>4. Total(Share, Billed) \in Nat
    BY <1>1, <2>2, CoinsFinite
  <2>5. Total(Share, live) \in Nat
    BY <1>1, <2>2, CoinsFinite
  <2>6. Total(Estimate, live) \in Nat
    <3>1. \A d \in live : Estimate[d] \in Nat
      BY <1>1, <1>3
    <3> QED BY <1>1, <3>1, CoinsFinite
  <2>7. Total(spent, Calls) \in Nat
    BY <1>1, <1>3, CoinsFinite
  <2> QED BY <2>3, <2>4, <2>5, <2>6, <2>7
<1>9. tokens = Total(spent, Calls) /\ TokenLimit \in Nat /\ Estimate[c] \in Nat
  BY <1>3, BudgetAssumption DEF TokenLedger
<1>10. Total(Share, Billed \cup live) + Estimate[c] <= TokenLimit
  BY <1>2, <1>4, <1>5, <1>6, <1>7, <1>8, <1>9
<1> QED BY <1>10 DEF live

\* No step gives a call a larger share, since it is billed at most once.
LEMMA ShareShrinks ==
  ASSUME BudgetInv, [Next]_vars, NEW d \in Calls
  PROVE  Share'[d] <= Share[d]
<1> TypeOK /\ Ledger
  BY DEF BudgetInv
<1>1. spent[d] \in Nat /\ Estimate[d] \in Nat
  BY ShareBounds
<1>2. CASE \E c \in Calls : Record(c) /\ Bills(c)
  <2> PICK c \in Calls : Record(c) /\ Bills(c)
    BY <1>2
  <2>1. billed[c] = 0
    BY DEF Ledger, LedgerOf, Bills, Record
  <2>2. TypeOK'
    BY TypeStep
  <2>3. CASE d = c
    <3>1. Share[d] = Estimate[d]
      BY <2>1, <2>3 DEF Share
    <3> QED BY <2>2, <2>3, <3>1, ShareBounds DEF TypeOK, Share
  <2>4. CASE d # c
    <3>1. spent'[d] = spent[d] /\ billed'[d] = billed[d]
      BY <2>4 DEF Record, TypeOK
    <3> QED BY <1>1, <3>1 DEF Share
  <2> QED BY <2>3, <2>4
<1>3. CASE ~ \E c \in Calls : Record(c) /\ Bills(c)
  <2>1. ASSUME NEW c \in Calls, Record(c)
        PROVE  spent'[d] = spent[d] /\ billed'[d] = billed[d]
    <3>1. ~Bills(c)
      BY <1>3, <2>1
    <3> QED BY <2>1, <3>1 DEF Record, TypeOK
  <2>2. (\E c \in Calls : Record(c)) \/ UNCHANGED <<billed, spent>>
    BY DEF Next, CallStep, Guard, ReserveBegin, Reserve, ReserveBlocked,
        ReserveFails, Answer, TooLong, RecordFails, Settle, SettleFails, HookReturns,
        HookRaises, Crash, ExpireListed, Tick, vars, session
  <2>3. spent'[d] = spent[d] /\ billed'[d] = billed[d]
    BY <2>1, <2>2
  <2> QED BY <1>1, <2>3 DEF Share
<1> QED BY <1>2, <1>3

LEMMA InTimeTokensStep ==
  BudgetInv /\ TokenLedger /\ WithinTokens /\ [Next]_vars => WithinTokens'
<1> SUFFICES ASSUME BudgetInv, TokenLedger, WithinTokens, [Next]_vars, TokenLimit # 0
             PROVE  Total(Share', InTime') <= TokenLimit
  BY DEF WithinTokens, InTimeTokens
<1> TypeOK /\ TypeOK'
  BY TypeStep DEF BudgetInv
<1>1. /\ \A d \in Calls : Share[d] \in Nat /\ Share'[d] \in Nat /\ Share'[d] <= Share[d]
      /\ TokenLimit \in Nat
  BY ShareBounds, ShareShrinks, BudgetAssumption, TypeStep DEF Share, TypeOK
<1>2. InTime' \in SUBSET Calls /\ IsFiniteSet(InTime')
  BY CallsFinite DEF InTime, Active, Billed
<1>3. CASE \E c \in Calls : Reserve(c)
  <2> PICK c \in Calls : Reserve(c)
    BY <1>3
  <2> DEFINE room == Billed \cup (Active \ Overdue(stamp[c]))
  <2>1. stamp[c] \in Nat
    BY DEF TypeOK
  <2>2. Total(Share, room) + Estimate[c] <= TokenLimit
    BY <2>1, OpenLeavesTokens DEF Reserve
  <2>3. InTime' \subseteq room \cup {c}
    BY DEF Reserve, Expire, Overdue, Active, InTime, Billed, session, TypeOK
  <2>4. room \in SUBSET Calls
    BY DEF Billed, Active
  <2> HIDE DEF room
  <2>5. /\ IsFiniteSet(room) /\ IsFiniteSet({c}) /\ IsFiniteSet(room \cup {c})
        /\ room \cup {c} \in SUBSET Calls
    BY <2>4, CallsFinite
  <2>6. Total(Share', InTime') <= Total(Share, room \cup {c})
    BY <1>1, <1>2, <2>3, <2>5, TotalMonotone
  <2>7. Total(Share, room \cup {c}) <= Total(Share, room) + Total(Share, {c})
    BY <1>1, <2>5, TotalUnion
  <2>8. Total(Share, {c}) = Share[c]
    <3>1. Coins(Share, {c}) = {c} \X (1..Share[c])
      BY DEF Coins
    <3> QED BY <1>1, <3>1, CoinsOfOne DEF Total
  <2>9. Share[c] <= Estimate[c] /\ Estimate[c] \in Nat
    BY ShareBounds
  <2>10. /\ Total(Share, room) \in Nat /\ Total(Share, room \cup {c}) \in Nat
         /\ Total(Share', InTime') \in Nat
    BY <1>1, <1>2, <2>5, CoinsFinite
  <2> QED BY <1>1, <2>2, <2>6, <2>7, <2>8, <2>9, <2>10
<1>4. CASE ~ \E c \in Calls : Reserve(c)
  <2>1. InTime' \in SUBSET InTime /\ InTime \in SUBSET Calls /\ IsFiniteSet(InTime)
    BY <1>4, InTimeShrinks, CallsFinite DEF InTime, Active, Billed
  <2>2. Total(Share', InTime') <= Total(Share, InTime)
    BY <1>1, <2>1, TotalMonotone
  <2>3. Total(Share, InTime) <= TokenLimit
    BY DEF WithinTokens, InTimeTokens
  <2>4. Total(Share', InTime') \in Nat /\ Total(Share, InTime) \in Nat
    BY <1>1, <1>2, <2>1, CoinsFinite
  <2> QED BY <1>1, <2>2, <2>3, <2>4
<1> QED BY <1>3, <1>4

\* For every number of concurrent calls, every estimate and every limit: the
\* tokens reserved by the calls in time, and of the billed ones those spent up
\* to their estimate, stay within max_session_tokens.
THEOREM InTimeTokensBounded == Spec => []TokensInTimeBounded
<1>1. Init => WithinTokens
  <2> SUFFICES ASSUME Init PROVE WithinTokens
    OBVIOUS
  <2>1. InTime = {}
    BY DEF Init, InTime, Active, Billed
  <2>2. InTimeTokens = 0
    BY <2>1, TotalEmpty DEF InTimeTokens
  <2> QED BY <2>2, BudgetAssumption DEF WithinTokens
<1>2. BudgetInv /\ WithinTokens => TokensInTimeBounded
  BY InTimeTokensSum DEF WithinTokens, TokensInTimeBounded, BudgetInv
<1> QED BY <1>1, <1>2, TokenInit, TokenStep, InTimeTokensStep, BudgetInvariant, PTL DEF Spec

---------------------------------------------------------------------------
(* What a step may never do, and the refinement.                           *)

\* A reservation that ended never changes again, whoever settles or expires it.
THEOREM FinalIsFinal == Spec => FinalStaysFinal
<1>1. BudgetInv /\ [Next]_vars
        => [\A c \in Calls : resv[c] \in Final => resv'[c] = resv[c]]_vars
  <2> SUFFICES ASSUME BudgetInv, [Next]_vars, NEW d \in Calls, resv[d] \in Final
               PROVE  resv'[d] = resv[d]
    OBVIOUS
  <2> TypeOK /\ Ledger
    BY DEF BudgetInv
  <2> resv[d] # "active" /\ resv[d] # "none"
    BY DEF Final, Settled
  <2>1. ASSUME NEW c \in Calls, Reserve(c) PROVE resv'[d] = resv[d]
    <3>1. resv[c] = "none" /\ stamp[c] \in Nat
      BY <2>1 DEF Reserve, Ledger, LedgerOf, TypeOK
    <3> QED BY <2>1, <3>1, ExpireTypes DEF Reserve
  <2>2. ASSUME NEW c \in Calls, ReserveBlocked(c) PROVE resv'[d] = resv[d]
    <3>1. stamp[c] \in Nat
      BY DEF TypeOK
    <3> QED BY <2>2, <3>1, ExpireTypes DEF ReserveBlocked
  <2>3. ASSUME NEW c \in Calls, Settle(c) PROVE resv'[d] = resv[d]
    BY <2>3 DEF Settle, TypeOK
  <2>4. CASE ExpireListed
    BY <2>4, ExpireTypes DEF ExpireListed, TypeOK
  <2>5. CASE ~ (ExpireListed \/ \E c \in Calls : Reserve(c) \/ ReserveBlocked(c) \/ Settle(c))
    BY <2>5 DEF Next, CallStep, Guard, ReserveBegin, ReserveFails, Answer, TooLong,
        Record, RecordFails, SettleFails, HookReturns, HookRaises, Crash, Tick, vars, table
  <2> QED BY <2>1, <2>2, <2>3, <2>4, <2>5
<1> QED BY <1>1, BudgetInvariant, PTL DEF Spec, FinalStaysFinal

\* The state of the abstract budget.
Bar == [c \in Calls |-> StateOf(c)]

\* A step that leaves reservations and bills alone is a stutter of CallBudget.
LEMMA SameState ==
  ASSUME UNCHANGED <<billed, resv>> PROVE Bar' = Bar
  BY DEF Bar, StateOf

\* Only recording changes what a call spent.
LEMMA SpentStays ==
  ASSUME [Next]_vars, \A c \in Calls : ~Record(c) PROVE spent' = spent
  BY DEF Next, CallStep, Guard, ReserveBegin, Reserve, ReserveBlocked, ReserveFails, Answer,
         TooLong, RecordFails, Settle, SettleFails, HookReturns, HookRaises, Crash,
         ExpireListed, Tick, vars, session

\* Expiring is Lapse.
LEMMA ExpireLapses ==
  ASSUME BudgetInv, NEW t \in Nat, resv' = Expire(t), billed' = billed, spent' = spent
  PROVE  Budget!Lapse(Overdue(t))
<1> SUFFICES ASSUME NEW d \in Calls
             PROVE  StateOf(d)' = IF d \in Overdue(t) THEN Budget!Lapsed(StateOf(d))
                                                       ELSE StateOf(d)
  BY DEF Budget!Lapse
<1>1. CASE d \in Overdue(t)
  <2>1. resv[d] = "active" /\ resv'[d] = "expired" /\ billed'[d] = billed[d]
    BY <1>1 DEF Expire, Overdue, Active
  <2> QED BY <1>1, <2>1 DEF StateOf, Budget!Lapsed
<1>2. CASE d \notin Overdue(t)
  BY <1>2 DEF Expire, StateOf
<1> QED BY <1>1, <1>2

\* The instance's own names for the same operators.
LEMMA SameCardinality == \A S : Budget!Cardinality(S) = Cardinality(S)
  BY DEF Budget!Cardinality, Cardinality

LEMMA SameSum ==
  ASSUME NEW S, IsFiniteSet(S), NEW f, \A c \in S : f[c] \in Nat
  PROVE  Budget!MapThenSumSet(LAMBDA c : f[c], S) = Total(f, S)
<1>1. Budget!MapThenSumSet(LAMBDA c : f[c], S) = (CHOOSE g : IsSum(f, S, g))[S]
  BY DEF Budget!MapThenSumSet, Budget!MapThenFoldSet, IsSum
<1>2. IsSum(f, S, CHOOSE g : IsSum(f, S, g))
  BY TotalIsSum
<1> QED BY <1>1, <1>2, SumIsUnique

\* What CallBudget counts is what was billed or is reserved, and takes no more
\* tokens than the session row and the reservations say.
LEMMA CountedCalls ==
  ASSUME BudgetInv, NEW t \in Nat
  PROVE  LET L == Overdue(t) IN
         /\ Budget!Counted(L) \subseteq Billed \cup (Active \ L)
         /\ \A d \in Budget!Counted(L) :
               /\ Budget!Taken[d] \in Nat
               /\ d \in Billed => Budget!Taken[d] = spent[d]
               /\ d \notin Billed => Budget!Taken[d] = Estimate[d]
<1> DEFINE L == Overdue(t)
<1> SUFFICES ASSUME NEW d \in Budget!Counted(L)
             PROVE  /\ d \in Billed \cup (Active \ L)
                    /\ Budget!Taken[d] \in Nat
                    /\ d \in Billed => Budget!Taken[d] = spent[d]
                    /\ d \notin Billed => Budget!Taken[d] = Estimate[d]
  OBVIOUS
<1>1. d \in Calls /\ Bar[d] = StateOf(d) /\ StateOf(d) \in {"held", "charged", "overdue"}
  BY DEF Budget!Counted, Budget!In, Bar
<1>2. Budget!Taken[d] = IF StateOf(d) = "held" THEN Estimate[d] ELSE spent[d]
  BY <1>1 DEF Budget!Taken
<1>3. spent[d] \in Nat /\ Estimate[d] \in Nat
  BY <1>1, ShareBounds DEF BudgetInv
<1>4. CASE billed[d] # 0
  <2>1. StateOf(d) # "held" /\ d \in Billed
    BY <1>1, <1>4 DEF StateOf, Billed
  <2> QED BY <1>2, <1>3, <2>1
<1>5. CASE billed[d] = 0
  <2>1. resv[d] = "active" /\ StateOf(d) = "held" /\ d \notin Billed
    BY <1>1, <1>5 DEF StateOf, Billed
  <2>2. d \notin L
    BY <1>1, <2>1 DEF Budget!Counted, Budget!In
  <2> QED BY <1>1, <1>2, <1>3, <2>1, <2>2 DEF Active
<1> QED BY <1>4, <1>5

\* What reserve_model_budget adds up is never less than what CallBudget counts.
LEMMA CountedTokens ==
  ASSUME BudgetInv, TokenLedger, TokenLimit # 0, NEW c \in Calls, NEW t \in Nat, Open(c, t)
  PROVE  Total(Budget!Taken, Budget!Counted(Overdue(t))) + Estimate[c] <= TokenLimit
<1> DEFINE L == Overdue(t)
           live == Active \ L
           counted == Budget!Counted(L)
           f == Budget!Taken
           bills == counted \cap Billed
           holds == counted \ Billed
<1>1. /\ counted \subseteq Billed \cup live
      /\ \A d \in counted : f[d] \in Nat
      /\ \A d \in bills : f[d] = spent[d]
      /\ \A d \in holds : f[d] = Estimate[d]
  BY CountedCalls
<1>2. /\ live \in SUBSET Calls /\ Billed \in SUBSET Calls
      /\ IsFiniteSet(live) /\ IsFiniteSet(Billed) /\ IsFiniteSet(Calls)
  BY CallsFinite, BudgetAssumption DEF Active, Billed
<1>3. tokens + MapThenSumSet(LAMBDA d : Estimate[d], live) + Estimate[c] <= TokenLimit
  BY DEF Open, Within
<1>4. \A d \in Calls : Estimate[d] \in Nat /\ spent[d] \in Nat
  BY ShareBounds DEF BudgetInv
<1> HIDE DEF f, live, counted
<1>5. /\ bills \in SUBSET Calls /\ holds \in SUBSET live /\ counted = bills \cup holds
      /\ IsFiniteSet(bills) /\ IsFiniteSet(holds) /\ IsFiniteSet(counted)
  <2>1. bills \in SUBSET Calls /\ holds \in SUBSET live /\ counted = bills \cup holds
    BY <1>1, <1>2
  <2>2. counted \in SUBSET Calls
    BY <1>1, <1>2
  <2> QED BY <1>2, <2>1, <2>2, FS_Subset
<1> HIDE DEF bills, holds
<1>6. MapThenSumSet(LAMBDA d : Estimate[d], live) = Total(Estimate, live)
  BY <1>2, <1>4, SumIsTotal
<1>7. Total(f, bills) <= Total(spent, Calls)
  <2>1. \A d \in bills : f[d] \in Nat /\ f[d] <= spent[d]
    BY <1>1, <1>4, <1>5
  <2> QED BY <1>2, <1>4, <1>5, <2>1, TotalMonotone
<1>8. Total(f, holds) <= Total(Estimate, live)
  <2>1. \A d \in holds : f[d] \in Nat /\ f[d] <= Estimate[d]
    BY <1>1, <1>2, <1>4, <1>5
  <2>2. \A d \in live : Estimate[d] \in Nat
    BY <1>2, <1>4
  <2> QED BY <1>2, <1>5, <2>1, <2>2, TotalMonotone
<1>9. Total(f, counted) <= Total(f, bills) + Total(f, holds)
  BY <1>1, <1>5, TotalUnion
<1>10. Total(f, counted) \in Nat /\ Total(f, bills) \in Nat /\ Total(f, holds) \in Nat
  BY <1>1, <1>5, CoinsFinite
<1>11. Total(spent, Calls) \in Nat
  BY <1>2, <1>4, CoinsFinite
<1>12. Total(Estimate, live) \in Nat
  <2>1. \A d \in live : Estimate[d] \in Nat
    BY <1>2, <1>4
  <2> QED BY <1>2, <2>1, CoinsFinite
<1>13. tokens = Total(spent, Calls) /\ TokenLimit \in Nat /\ Estimate[c] \in Nat
  BY <1>4, BudgetAssumption DEF TokenLedger
<1>14. Total(f, counted) + Estimate[c] <= TokenLimit
  BY <1>3, <1>6, <1>7, <1>8, <1>9, <1>10, <1>11, <1>12, <1>13
<1> QED BY <1>14 DEF f, counted

LEMMA ReserveAdmits ==
  ASSUME BudgetInv, TokenLedger, NEW c \in Calls, Reserve(c)
  PROVE  Budget!Next
<1> DEFINE L == Overdue(stamp[c])
<1>1. stamp[c] \in Nat /\ resv[c] = "none" /\ billed[c] = 0 /\ Open(c, stamp[c])
  BY DEF Reserve, BudgetInv, TypeOK, Ledger, LedgerOf
<1>2. c \notin L /\ L \in SUBSET Calls
  BY <1>1 DEF Overdue, Active
<1>3. Bar[c] = "new"
  BY <1>1 DEF Bar, StateOf
<1>4. Budget!Counted(L) \in SUBSET Calls /\ IsFiniteSet(Budget!Counted(L))
  BY CallsFinite DEF Budget!Counted, Budget!In
<1>5. ASSUME CallLimit # 0 PROVE Cardinality(Budget!Counted(L)) < CallLimit
  <2> DEFINE room == Billed \cup (Active \ L)
  <2>1. Budget!Counted(L) \subseteq room
    BY <1>1, CountedCalls
  <2>2. Cardinality(room) < CallLimit
    BY <1>1, <1>5, OpenLeavesRoom
  <2>3. IsFiniteSet(room) /\ Cardinality(room) \in Nat
    BY CallsFinite DEF Billed, Active
  <2> HIDE DEF room
  <2>4. /\ Cardinality(Budget!Counted(L)) <= Cardinality(room)
        /\ Cardinality(Budget!Counted(L)) \in Nat
    BY <1>4, <2>1, <2>3, FS_Subset, FS_CardinalityType
  <2> QED BY <2>2, <2>3, <2>4, BudgetAssumption
<1>6. ASSUME TokenLimit # 0
      PROVE  Budget!MapThenSumSet(LAMBDA d : Budget!Taken[d], Budget!Counted(L))
                + Estimate[c] <= TokenLimit
  <2>1. \A d \in Budget!Counted(L) : Budget!Taken[d] \in Nat
    BY <1>1, CountedCalls
  <2>2. Budget!MapThenSumSet(LAMBDA d : Budget!Taken[d], Budget!Counted(L))
            = Total(Budget!Taken, Budget!Counted(L))
    BY <1>4, <2>1, SameSum
  <2> QED BY <1>1, <1>6, <2>2, CountedTokens
<1>7. Bar' = [d \in Calls |-> IF d = c THEN "held"
                              ELSE IF d \in L THEN Budget!Lapsed(Bar[d]) ELSE Bar[d]]
  <2> SUFFICES ASSUME NEW d \in Calls
               PROVE  StateOf(d)' = IF d = c THEN "held"
                              ELSE IF d \in L THEN Budget!Lapsed(StateOf(d)) ELSE StateOf(d)
    BY DEF Bar
  <2>0. billed' = billed /\ resv' = [Expire(stamp[c]) EXCEPT ![c] = "active"]
    BY DEF Reserve, session
  <2>1. CASE d = c
    BY <1>1, <2>0, <2>1 DEF StateOf, Expire
  <2>2. CASE d # c /\ d \in L
    <3>1. resv[d] = "active" /\ resv'[d] = "expired" /\ billed'[d] = billed[d]
      BY <2>0, <2>2 DEF Expire, Overdue, Active
    <3> QED BY <2>2, <3>1 DEF StateOf, Budget!Lapsed
  <2>3. CASE d # c /\ d \notin L
    <3>1. resv'[d] = resv[d] /\ billed'[d] = billed[d]
      BY <2>0, <2>3 DEF Expire
    <3> QED BY <2>3, <3>1 DEF StateOf
  <2> QED BY <2>1, <2>2, <2>3
<1>8. spent' = spent
  BY DEF Reserve, session
<1> HIDE DEF L
<1>9. Budget!Admit(c, L)
  BY <1>2, <1>3, <1>5, <1>6, <1>7, <1>8, SameCardinality DEF Budget!Admit, Bar
<1> QED BY <1>2, <1>9 DEF Budget!Next

LEMMA RecordCharges ==
  ASSUME BudgetInv, NEW c \in Calls, Record(c)
  PROVE  (\E u \in Usages \cup {0} : Budget!Charge(c, u)) \/ UNCHANGED <<Bar, spent>>
<1>1. CASE Bills(c)
  <2>1. /\ resv[c] \in {"active", "expired"} /\ billed[c] = 0 /\ resv' = resv
        /\ spent[c] = 0
    BY <1>1 DEF Record, Bills, BudgetInv, Ledger, LedgerOf, table
  <2>2. billed' = [billed EXCEPT ![c] = 1]
    BY <1>1, <2>1 DEF Record, BudgetInv, TypeOK
  <2>3. StateOf(c)' = IF resv[c] = "active" THEN "charged" ELSE "overdue"
    BY <2>1, <2>2 DEF StateOf, BudgetInv, TypeOK
  <2>4. \A d \in Calls \ {c} : StateOf(d)' = StateOf(d)
    BY <2>1, <2>2 DEF StateOf, BudgetInv, TypeOK
  <2>5. Bar' = [Bar EXCEPT ![c] = IF resv[c] = "active" THEN "charged" ELSE "overdue"]
    BY <2>3, <2>4 DEF Bar
  <2>6. Bar[c] = IF resv[c] = "active" THEN "held" ELSE "lapsed"
    BY <2>1 DEF Bar, StateOf
  <2>7. spent' = [spent EXCEPT ![c] = reply[c].used]
    <3> DEFINE u == reply[c].used
    <3>1. u \in Usages \cup {0} /\ \A n \in Usages \cup {0} : n \in Nat
      BY BudgetAssumption DEF BudgetInv, TypeOK
    <3>2. u \in Nat
      BY <3>1
    <3>3. spent' = [spent EXCEPT ![c] = spent[c] + u]
      BY <1>1 DEF Record
    <3> HIDE DEF u
    <3>4. spent[c] + u = u
      BY <2>1, <3>2
    <3>5. spent' = [spent EXCEPT ![c] = u]
      BY <3>3, <3>4
    <3> QED BY <3>5 DEF u
  <2>8. reply[c].used \in Usages \cup {0}
    BY DEF BudgetInv, TypeOK
  <2>9. Budget!Charge(c, reply[c].used)
    BY <2>1, <2>5, <2>6, <2>7 DEF Budget!Charge, Budget!Move, Bar
  <2> QED BY <2>8, <2>9
<1>2. CASE ~Bills(c)
  <2>1. billed' = billed /\ resv' = resv /\ spent' = spent
    BY <1>2 DEF Record, table, BudgetInv, TypeOK
  <2> QED BY <2>1, SameState
<1> QED BY <1>1, <1>2

LEMMA SettleForgives ==
  ASSUME BudgetInv, NEW c \in Calls, Settle(c)
  PROVE  Budget!Forgive(c) \/ UNCHANGED <<Bar, spent>>
<1> billed' = billed /\ spent' = spent
  BY DEF Settle, session
<1>1. CASE resv[c] = "active"
  <2>1. PICK to \in Settled : resv' = [resv EXCEPT ![c] = to]
    BY <1>1 DEF Settle, Settled
  <2>2. StateOf(c)' = IF billed[c] = 0 THEN "free" ELSE "charged"
    BY <2>1 DEF StateOf, BudgetInv, TypeOK, Settled
  <2>3. Bar[c] = IF billed[c] = 0 THEN "held" ELSE "charged"
    BY <1>1 DEF Bar, StateOf
  <2>4. \A d \in Calls \ {c} : StateOf(d)' = StateOf(d)
    BY <2>1 DEF StateOf, BudgetInv, TypeOK
  <2>5. Bar' = [Bar EXCEPT ![c] = IF billed[c] = 0 THEN "free" ELSE "charged"]
    BY <2>2, <2>4 DEF Bar
  <2>6. CASE billed[c] = 0
    BY <2>3, <2>5, <2>6 DEF Budget!Forgive, Budget!Move, Bar
  <2>7. CASE billed[c] # 0
    BY <2>3, <2>5, <2>7 DEF Bar
  <2> QED BY <2>6, <2>7
<1>2. CASE resv[c] # "active"
  BY <1>2, SameState DEF Settle, BudgetInv, TypeOK
<1> QED BY <1>1, <1>2

\* Reservations, bills and settlements of any number of calls are steps of
\* CallBudget, for the number of calls and for their tokens, whatever fails in
\* between.
THEOREM BudgetImplementsCallBudget == Spec => ImplementsCallBudget
<1>1. Init => Budget!Init
  BY DEF Init, Budget!Init, StateOf
<1>2. BudgetInv /\ TokenLedger /\ [Next]_vars => [Budget!Next]_<<Bar, spent>>
  <2> SUFFICES ASSUME BudgetInv, TokenLedger, [Next]_vars
               PROVE  Budget!Next \/ UNCHANGED <<Bar, spent>>
    OBVIOUS
  <2> TypeOK
    BY DEF BudgetInv
  <2>1. ASSUME NEW c \in Calls, Reserve(c) PROVE Budget!Next
    BY <2>1, ReserveAdmits
  <2>2. ASSUME NEW c \in Calls, ReserveBlocked(c) PROVE Budget!Next
    <3>1. stamp[c] \in Nat /\ Overdue(stamp[c]) \in SUBSET Calls
      BY DEF TypeOK, Overdue, Active
    <3>2. Budget!Lapse(Overdue(stamp[c]))
      BY <2>2, <3>1, ExpireLapses DEF ReserveBlocked, session
    <3> QED BY <3>1, <3>2 DEF Budget!Next
  <2>3. ASSUME NEW c \in Calls, Record(c) PROVE Budget!Next \/ UNCHANGED <<Bar, spent>>
    BY <2>3, RecordCharges DEF Budget!Next
  <2>4. ASSUME NEW c \in Calls, Settle(c) PROVE Budget!Next \/ UNCHANGED <<Bar, spent>>
    BY <2>4, SettleForgives DEF Budget!Next
  <2>5. CASE ExpireListed
    <3>1. now \in Nat /\ Overdue(now) \in SUBSET Calls
      BY DEF TypeOK, Overdue, Active
    <3>2. Budget!Lapse(Overdue(now))
      BY <2>5, <3>1, ExpireLapses DEF ExpireListed, session
    <3> QED BY <3>1, <3>2 DEF Budget!Next
  <2>6. CASE ~ (ExpireListed \/ \E c \in Calls : Reserve(c) \/ ReserveBlocked(c)
                                                   \/ Settle(c) \/ Record(c))
    <3>1. UNCHANGED <<billed, resv>>
      BY <2>6 DEF Next, CallStep, Guard, ReserveBegin, ReserveFails, Answer, TooLong,
          RecordFails, SettleFails, HookReturns, HookRaises, Crash, Tick, vars, table, session
    <3>2. spent' = spent
      BY <2>6, SpentStays
    <3> QED BY <3>1, <3>2, SameState
  <2> QED BY <2>1, <2>2, <2>3, <2>4, <2>5, <2>6
<1>3. [Budget!Next]_<<Bar, spent>> => [Budget!Next]_Budget!vars
  BY DEF Budget!vars, Bar
<1> QED BY <1>1, <1>2, <1>3, TokenInit, TokenStep, BudgetInvariant, PTL
        DEF Spec, ImplementsCallBudget, Budget!Spec
===========================================================================
