---------------------------- MODULE RelayProofs ----------------------------
(***************************************************************************)
(* Proofs about RelayLock and Relay for any processes, messages, agents,   *)
(* TTL, lease and stale times.  Types hold always; the rest needs Prompt,  *)
(* sections nobody dies in or overstays, and rests on two invariants:      *)
(* LockInv, the lock file names the one process inside, and RelayInv, what *)
(* a section has read is still so when it appends its events.  Each append *)
(* then is one step of MessageBox.                                         *)
(***************************************************************************)
EXTENDS Relay, FiniteSetTheorems, TLAPS

---------------------------------------------------------------------------
(* The lock.                                                               *)

LockInv ==
    /\ LockTypeOK
    /\ \A p \in Procs : stage[p] # "unlink" /\ (stage[p] = "in" => file.by = p)
    /\ \/ file = NoFile
       \/ file.by \in Procs /\ stage[file.by] = "in" /\ now <= file.born + Ttl

LEMMA LockTypesInit == LockInit => LockTypeOK
  BY DEF LockInit, LockTypeOK, NoFile, Stages

LEMMA LockTypesStep == LockTypeOK /\ [LockNext]_lockVars => LockTypeOK'
<1> SUFFICES ASSUME LockTypeOK, [LockNext]_lockVars PROVE LockTypeOK'
  OBVIOUS
<1>1. ASSUME NEW p \in Procs,
             \/ Enter(p) \/ Look(p) \/ Unlink(p) \/ Create(p)
             \/ Refused(p) \/ GiveUp(p) \/ Leave(p) \/ Die(p)
      PROVE  LockTypeOK'
  BY <1>1 DEF Enter, Look, Unlink, Create, Refused, GiveUp, Leave, Die, To,
              LockTypeOK, NoFile, Stages
<1>2. CASE Tick
  BY <1>2 DEF Tick, LockTypeOK
<1>3. CASE UNCHANGED lockVars
  BY <1>3 DEF lockVars, LockTypeOK
<1> QED BY <1>1, <1>2, <1>3 DEF LockNext

LEMMA LockInvInit == LockInit => LockInv
  BY LockTypesInit DEF LockInit, LockInv

\* Without deaths and delays nobody ever finds the file too old.
LEMMA LockInvStep ==
  ASSUME Prompt
  PROVE  LockInv /\ [LockNext]_lockVars => LockInv'
<1> SUFFICES ASSUME LockInv, [LockNext]_lockVars PROVE LockInv'
  OBVIOUS
<1> USE LockAssumption DEF LockInv
<1>1. LockTypeOK'
  BY LockTypesStep
<1>2. ASSUME NEW p \in Procs, Look(p) PROVE LockInv'
  <2>1. ~TooOld
    BY DEF TooOld, LockTypeOK
  <2> QED BY <1>1, <1>2, <2>1 DEF Look, To, LockTypeOK
<1>3. ASSUME NEW p \in Procs, Create(p) PROVE LockInv'
  <2>1. \A q \in Procs : stage[q] # "in"
    BY <1>3 DEF Create, NoFile
  <2> QED BY <1>1, <1>3, <2>1 DEF Create, To, LockTypeOK
<1>4. ASSUME NEW p \in Procs, Leave(p) PROVE LockInv'
  BY <1>1, <1>4 DEF Leave, To, LockTypeOK, NoFile
<1>5. ASSUME NEW p \in Procs, Enter(p) \/ Unlink(p) \/ Refused(p) \/ GiveUp(p) \/ Die(p)
      PROVE  LockInv'
  BY <1>1, <1>5 DEF Enter, Unlink, Refused, GiveUp, Die, To, LockTypeOK, Prompt
<1>6. CASE Tick
  BY <1>1, <1>6 DEF Tick, LockTypeOK, Prompt
<1>7. CASE UNCHANGED lockVars
  BY <1>1, <1>7 DEF lockVars
<1> QED BY <1>2, <1>3, <1>4, <1>5, <1>6, <1>7 DEF LockNext

LEMMA LockInvExcludes == LockInv => MutualExclusion
  BY DEF LockInv, MutualExclusion

\* At most one process is inside a section of the lock.
THEOREM LockExcludes ==
  ASSUME Prompt
  PROVE  LockSpec => []MutualExclusion
<1>1. LockSpec => []LockInv
  BY LockInvInit, LockInvStep, PTL DEF LockSpec
<1> QED BY <1>1, LockInvExcludes, PTL

---------------------------------------------------------------------------
(* Every step of the relay is one of the lock's.                           *)

LEMMA RelayLockStep == [RNext]_allVars => [LockNext]_lockVars
<1> SUFFICES ASSUME [RNext]_allVars PROVE [LockNext]_lockVars
  OBVIOUS
<1>1. ASSUME NEW p \in Procs, CallStep(p) PROVE [LockNext]_lockVars
  BY <1>1 DEF CallStep, Locking, ReadSection, Proceed, SendWrite, ClaimWrite, EndWrite,
              OutboxWrite, BeatWrite, LockNext
<1>2. ASSUME NEW p \in Procs, CallEnds(p) PROVE [LockNext]_lockVars
  BY <1>2 DEF CallEnds, ReturnCall, Reject, Fault, Raise, LockTimeout, LockNext
<1>3. ASSUME NEW p \in Procs, Commands(p) PROVE [LockNext]_lockVars
  BY <1>3 DEF Commands, BeginSend, BeginMark, BeginPoll, BeginReclaim, BeginEnd, Begin,
              SetHeartbeat, DetectRead, DetectWrite, LockNext
<1>4. ASSUME NEW p \in Procs, Crash(p) PROVE [LockNext]_lockVars
  BY <1>4 DEF Crash, LockNext
<1>5. CASE RTick
  BY <1>5 DEF RTick, LockNext
<1>6. CASE UNCHANGED allVars
  BY <1>6 DEF allVars, lockVars
<1> QED BY <1>1, <1>2, <1>3, <1>4, <1>5, <1>6 DEF RNext

\* The relay takes, holds and leaves the lock as the lock prescribes.
THEOREM RelayUsesLock == RSpec => UsesLock
<1>1. RInit => LockInit
  BY DEF RInit
<1> QED BY <1>1, RelayLockStep, PTL DEF RSpec, UsesLock, LockSpec

\* The sections of the relay exclude each other.
THEOREM SectionsExclude ==
  ASSUME Prompt
  PROVE  RSpec => []MutualExclusion
  BY RelayUsesLock, LockExcludes, PTL DEF UsesLock

---------------------------------------------------------------------------
(* Types.                                                                  *)

Ops == {"none", "send", "poll", "mark", "reclaim", "end", "detect"}
Steps == {"none", "read", "write", "outbox", "beat", "leave"}
CallType == [op : Ops, agent : Agents \cup {"none"}, msgs : SUBSET Messages,
             n : Nat, to : MessageStates \cup {"none"}, at : Nat,
             got : SUBSET ClaimType, step : Steps]
LeaseType == [n : Nat, until : Nat]
BeatType == [status : BeatStates \cup {"none"}, seen : Nat]

\* RTypeOK with its record sets named, and what an ending call writes.
Types ==
    /\ LockTypeOK
    /\ state \in [Messages -> MessageStates]
    /\ lease \in [Messages -> LeaseType]
    /\ rank \in [Messages -> Nat]
    /\ outbox \in [Messages -> Nat]
    /\ beat \in [Agents -> BeatType]
    /\ claims \in [Procs -> SUBSET ClaimType]
    /\ doing \in [Procs -> CallType]

EndsKnown == \A p \in Procs : doing[p].op = "end" => doing[p].to \in Ended

TypeInv == Types /\ EndsKnown

LEMMA TypesAreRTypes == Types => RTypeOK
  BY DEF Types, RTypeOK, Ops, Steps, CallType, LeaseType, BeatType

\* What a call is begun with.
LEMMA CommandTypes ==
  ASSUME Types, NEW p \in Procs, Commands(p)
  PROVE  \/ \E op \in {"send", "poll", "reclaim", "mark", "end"}, a \in Agents,
               S \in SUBSET Messages, n \in Nat, to \in MessageStates :
            /\ Begin(p, op, a, S, n, to)
            /\ op = "end" => to \in Ended
         \/ \E a \in Agents, s \in BeatStates : SetHeartbeat(p, a, s)
         \/ \E a \in Agents : DetectRead(p, a)
         \/ DetectWrite(p)
<1> DEFINE Goal == \E op \in {"send", "poll", "reclaim", "mark", "end"}, a \in Agents,
               S \in SUBSET Messages, n \in Nat, to \in MessageStates :
            /\ Begin(p, op, a, S, n, to)
            /\ op = "end" => to \in Ended
<1>1. ASSUME NEW op \in {"send", "poll", "reclaim", "mark", "end"}, NEW a \in Agents,
             NEW S \in SUBSET Messages, NEW n \in Nat, NEW to \in MessageStates,
             Begin(p, op, a, S, n, to), op = "end" => to \in Ended
      PROVE  Goal
  BY <1>1
<1> HIDE DEF Goal
<1>2. \A m \in Messages : Inbox[m] \in Agents /\ {m} \in SUBSET Messages
  BY RelayAssumption
<1>3. /\ 0 \in Nat /\ {} \in SUBSET Messages
      /\ {"unread", "running"} \subseteq MessageStates /\ Ended \subseteq MessageStates
  BY DEF MessageStates
<1>4. ASSUME NEW m \in Messages, BeginSend(p, m) PROVE Goal
  <2>1. Begin(p, "send", Inbox[m], {m}, 0, "unread")
    BY <1>4 DEF BeginSend
  <2> QED BY <1>1, <1>2, <1>3, <2>1
<1>5. ASSUME NEW m \in Messages, BeginMark(p, m) PROVE Goal
  <2>1. Begin(p, "mark", Inbox[m], {m}, 0, "running")
    BY <1>5 DEF BeginMark
  <2> QED BY <1>1, <1>2, <1>3, <2>1
<1>6. ASSUME NEW a \in Agents, BeginPoll(p, a) PROVE Goal
  <2>1. Begin(p, "poll", a, {}, 0, "running")
    BY <1>6 DEF BeginPoll
  <2> QED BY <1>1, <1>3, <2>1
<1>7. ASSUME NEW a \in Agents, BeginReclaim(p, a) PROVE Goal
  <2>1. Begin(p, "reclaim", a, {}, 0, "running")
    BY <1>7 DEF BeginReclaim
  <2> QED BY <1>1, <1>3, <2>1
<1>8. ASSUME NEW m \in Messages, NEW n \in Nat, NEW to \in Ended, BeginEnd(p, m, n, to)
      PROVE  Goal
  <2>1. Begin(p, "end", Inbox[m], {m}, n, to)
    BY <1>8 DEF BeginEnd
  <2> QED BY <1>1, <1>2, <1>3, <2>1
<1>9. \A c \in claims[p] : c.msg \in Messages /\ c.n \in Nat
  BY DEF Types, ClaimType
<1>10. \/ Goal
       \/ \E a \in Agents, s \in BeatStates : SetHeartbeat(p, a, s)
       \/ \E a \in Agents : DetectRead(p, a)
       \/ DetectWrite(p)
  BY <1>4, <1>5, <1>6, <1>7, <1>8, <1>9, <1>3 DEF Commands
<1> QED BY <1>10 DEF Goal

LEMMA TypeInvInit == RInit => TypeInv
<1> SUFFICES ASSUME RInit PROVE TypeInv
  OBVIOUS
<1>1. Idle \in CallType
  BY DEF Idle, CallType, Ops, Steps
<1>2. LockTypeOK
  BY LockTypesInit DEF RInit
<1>3. Types
  BY <1>1, <1>2 DEF RInit, Types, NoClaim, MessageStates, LeaseType, BeatType
<1> QED BY <1>3 DEF RInit, TypeInv, EndsKnown, Idle

\* A process's own record changes, the other variables keep their types.
LEMMA CallTypes ==
  ASSUME TypeInv, NEW p \in Procs, NEW d \in CallType,
         doing' = [doing EXCEPT ![p] = d],
         d.op = "end" => d.to \in Ended
  PROVE  doing' \in [Procs -> CallType] /\ EndsKnown'
  BY DEF TypeInv, Types, EndsKnown

\* A step that leaves the calls alone.
LEMMA SameCalls ==
  ASSUME TypeInv, UNCHANGED doing
  PROVE  doing' \in [Procs -> CallType] /\ EndsKnown'
  BY DEF TypeInv, Types, EndsKnown

LEMMA TypeInvStep == TypeInv /\ [RNext]_allVars => TypeInv'
<1> SUFFICES ASSUME TypeInv, [RNext]_allVars PROVE TypeInv'
  OBVIOUS
<1>0. LockTypeOK'
  BY LockTypesStep, RelayLockStep DEF TypeInv, Types
<1>1. ASSUME NEW p \in Procs
      PROVE  /\ doing[p] \in CallType /\ Idle \in CallType /\ now \in Nat
             /\ doing[p].op = "end" => doing[p].to \in Ended
             /\ Idle.op # "end"
  BY DEF TypeInv, Types, EndsKnown, LockTypeOK, Idle, CallType, Ops, Steps
<1>2. ASSUME NEW p \in Procs, NEW op \in {"send", "poll", "reclaim", "mark", "end"},
             NEW a \in Agents, NEW S \in SUBSET Messages, NEW n \in Nat,
             NEW to \in MessageStates, Begin(p, op, a, S, n, to), op = "end" => to \in Ended
      PROVE  TypeInv'
  <2> DEFINE d == [op |-> op, agent |-> a, msgs |-> S, n |-> n,
                   to |-> to, at |-> 0, got |-> {}, step |-> "read"]
  <2>1. d \in CallType
    BY DEF CallType, Ops, Steps
  <2>2. doing' = [doing EXCEPT ![p] = d]
    BY <1>2 DEF Begin
  <2> QED BY <1>0, <1>2, <2>1, <2>2, CallTypes DEF Begin, TypeInv, Types, log
<1>3. ASSUME NEW p \in Procs, NEW a \in Agents, NEW s \in BeatStates, SetHeartbeat(p, a, s)
      PROVE  TypeInv'
  BY <1>0, <1>1, <1>3, SameCalls DEF SetHeartbeat, TypeInv, Types, log, BeatType
<1>4. ASSUME NEW p \in Procs, NEW a \in Agents, DetectRead(p, a) PROVE TypeInv'
  <2> DEFINE d == [doing[p] EXCEPT !.op = "detect", !.agent = a, !.at = beat[a].seen]
  <2>1. d \in CallType /\ d.op = "detect"
    BY <1>1 DEF CallType, Ops, TypeInv, Types, BeatType
  <2>2. doing' = [doing EXCEPT ![p] = d]
    BY <1>4 DEF DetectRead
  <2> HIDE DEF d
  <2> QED BY <1>0, <1>4, <2>1, <2>2, CallTypes DEF DetectRead, TypeInv, Types, log
<1>5. ASSUME NEW p \in Procs, DetectWrite(p) PROVE TypeInv'
  <2>1. [status |-> "silent", seen |-> doing[p].at] \in BeatType
    BY <1>1 DEF CallType, BeatType, BeatStates
  <2>2. beat' \in [Agents -> BeatType]
    BY <1>5, <2>1 DEF DetectWrite, TypeInv, Types
  <2>3. doing' \in [Procs -> CallType] /\ EndsKnown'
    BY <1>1, <1>5, CallTypes DEF DetectWrite
  <2> QED BY <1>0, <1>5, <2>2, <2>3 DEF DetectWrite, TypeInv, Types, log
<1>6. ASSUME NEW p \in Procs, Locking(p) PROVE TypeInv'
  BY <1>0, <1>6, SameCalls DEF Locking, relayVars, log, TypeInv, Types
<1>7. ASSUME NEW p \in Procs, ReadSection(p) PROVE TypeInv'
  <2>1. ASSUME NEW S \in SUBSET Messages, NEW step \in {"write", "beat"}, Proceed(p, S, step)
        PROVE  TypeInv'
    <3> DEFINE d == [doing[p] EXCEPT !.msgs = S, !.at = now, !.step = step]
    <3>1. d \in CallType /\ d.op = doing[p].op /\ d.to = doing[p].to
      BY <1>1 DEF CallType, Steps
    <3>2. doing' = [doing EXCEPT ![p] = d]
      BY <2>1 DEF Proceed
    <3> HIDE DEF d
    <3> QED BY <1>0, <1>1, <2>1, <3>1, <3>2, CallTypes DEF Proceed, TypeInv, Types, log
  <2>2. Firsts(Ready(doing[p].agent, now)) \subseteq Messages
    BY DEF Firsts, Ready
  <2>3. doing[p].msgs \subseteq Messages
    BY <1>1 DEF CallType
  <2> QED BY <1>7, <2>1, <2>2, <2>3 DEF ReadSection
<1>8. ASSUME NEW p \in Procs, SendWrite(p) PROVE TypeInv'
  <2> DEFINE d == [doing[p] EXCEPT !.step = "leave"]
  <2>1. d \in CallType /\ d.op = doing[p].op /\ d.to = doing[p].to
    BY <1>1 DEF CallType, Steps
  <2>2. doing' = [doing EXCEPT ![p] = d]
    BY <1>8 DEF SendWrite
  <2> HIDE DEF d
  <2>3. Cardinality({k \in Messages : rank[k] # 0}) + 1 \in Nat
    BY RelayAssumption, FS_Subset, FS_CardinalityType
  <2>4. state' \in [Messages -> MessageStates] /\ rank' \in [Messages -> Nat]
    BY <1>8, <2>3 DEF SendWrite, TypeInv, Types, MessageStates
  <2> QED BY <1>0, <1>1, <1>8, <2>1, <2>2, <2>4, CallTypes DEF SendWrite, TypeInv, Types
<1>9. ASSUME NEW p \in Procs, ClaimWrite(p) PROVE TypeInv'
  <2>1. PICK m \in Firsts(doing[p].msgs) :
          LET n == lease[m].n + 1
              until == LeaseEnd(doing[p])
          IN  /\ state' = [state EXCEPT ![m] = "running"]
              /\ lease' = [lease EXCEPT ![m] = [n |-> n, until |-> until]]
              /\ doing' = [doing EXCEPT
                              ![p].msgs = @ \ {m},
                              ![p].got = @ \cup {Claim(m, n, until)},
                              ![p].step = IF doing[p].msgs = {m} THEN "beat" ELSE "write"]
    BY <1>9 DEF ClaimWrite
  <2>2. m \in Messages
    BY <1>1 DEF Firsts, CallType
  <2>3. lease[m].n + 1 \in Nat /\ LeaseEnd(doing[p]) \in Nat
    BY <1>1, <2>2, RelayAssumption DEF TypeInv, Types, CallType, LeaseType, LeaseEnd
  <2> DEFINE c == Claim(m, lease[m].n + 1, LeaseEnd(doing[p]))
             d == [doing[p] EXCEPT !.msgs = @ \ {m}, !.got = @ \cup {c},
                                   !.step = IF doing[p].msgs = {m} THEN "beat" ELSE "write"]
  <2>4. doing' = [doing EXCEPT ![p] = d]
    BY <2>1
  <2>5. c \in ClaimType
    BY <2>2, <2>3 DEF Claim, ClaimType
  <2> HIDE DEF c
  <2>6. d \in CallType /\ d.op = doing[p].op /\ d.to = doing[p].to
    BY <1>1, <2>5 DEF CallType, Steps
  <2> HIDE DEF d
  <2>7. lease' \in [Messages -> LeaseType]
    BY <2>1, <2>2, <2>3 DEF TypeInv, Types, LeaseType
  <2>8. state' \in [Messages -> MessageStates]
    BY <2>1, <2>2 DEF TypeInv, Types, MessageStates
  <2> QED BY <1>0, <1>1, <1>9, <2>4, <2>6, <2>7, <2>8, CallTypes
          DEF ClaimWrite, TypeInv, Types
<1>10. ASSUME NEW p \in Procs, EndWrite(p) PROVE TypeInv'
  <2> DEFINE d == [doing[p] EXCEPT !.step = "outbox"]
  <2>1. d \in CallType /\ d.op = doing[p].op /\ d.to = doing[p].to
    BY <1>1 DEF CallType, Steps
  <2>2. doing' = [doing EXCEPT ![p] = d]
    BY <1>10 DEF EndWrite
  <2> HIDE DEF d
  <2>3. state' \in [Messages -> MessageStates]
    BY <1>1, <1>10 DEF EndWrite, TypeInv, Types, MessageStates
  <2> QED BY <1>0, <1>1, <1>10, <2>1, <2>2, <2>3, CallTypes DEF EndWrite, TypeInv, Types
<1>11. ASSUME NEW p \in Procs, OutboxWrite(p) PROVE TypeInv'
  <2> DEFINE d == [doing[p] EXCEPT !.step = "beat"]
  <2>1. d \in CallType /\ d.op = doing[p].op /\ d.to = doing[p].to
    BY <1>1 DEF CallType, Steps
  <2>2. doing' = [doing EXCEPT ![p] = d]
    BY <1>11 DEF OutboxWrite
  <2> HIDE DEF d
  <2>3. outbox' \in [Messages -> Nat]
    BY <1>11 DEF OutboxWrite, TypeInv, Types
  <2> QED BY <1>0, <1>1, <1>11, <2>1, <2>2, <2>3, CallTypes DEF OutboxWrite, TypeInv, Types
<1>12. ASSUME NEW p \in Procs, BeatWrite(p) PROVE TypeInv'
  <2> DEFINE d == [doing[p] EXCEPT !.step = "leave"]
  <2>1. d \in CallType /\ d.op = doing[p].op /\ d.to = doing[p].to
    BY <1>1 DEF CallType, Steps
  <2>2. doing' = [doing EXCEPT ![p] = d]
    BY <1>12 DEF BeatWrite
  <2> HIDE DEF d
  <2>3. beat' \in [Agents -> BeatType]
    BY <1>1, <1>12 DEF BeatWrite, BeatStatus, BeatStates, BeatType, TypeInv, Types
  <2> QED BY <1>0, <1>1, <1>12, <2>1, <2>2, <2>3, CallTypes DEF BeatWrite, TypeInv, Types, log
<1>13. ASSUME NEW p \in Procs, ReturnCall(p) PROVE TypeInv'
  <2>1. claims' \in [Procs -> SUBSET ClaimType]
    BY <1>1, <1>13 DEF ReturnCall, TypeInv, Types, CallType
  <2>2. doing' \in [Procs -> CallType] /\ EndsKnown'
    BY <1>1, <1>13, CallTypes DEF ReturnCall
  <2> QED BY <1>0, <1>13, <2>1, <2>2 DEF ReturnCall, TypeInv, Types, log
<1>14. ASSUME NEW p \in Procs, Raise(p) \/ LockTimeout(p) \/ Crash(p) PROVE TypeInv'
  <2>1. doing' \in [Procs -> CallType] /\ EndsKnown'
    BY <1>1, <1>14, CallTypes DEF Raise, LockTimeout, Crash
  <2> QED BY <1>0, <1>14, <2>1 DEF Raise, LockTimeout, Crash, TypeInv, Types, log
<1>15. CASE RTick
  BY <1>0, <1>15, SameCalls DEF RTick, relayVars, log, TypeInv, Types
<1>16. CASE UNCHANGED allVars
  BY <1>0, <1>16, SameCalls DEF allVars, relayVars, log, TypeInv, Types
<1>17. ASSUME NEW p \in Procs, Commands(p) PROVE TypeInv'
  BY <1>2, <1>3, <1>4, <1>5, <1>17, CommandTypes DEF TypeInv
<1>18. ASSUME NEW p \in Procs, CallStep(p) PROVE TypeInv'
  BY <1>6, <1>7, <1>8, <1>9, <1>10, <1>11, <1>12, <1>18 DEF CallStep
<1>19. ASSUME NEW p \in Procs, CallEnds(p) PROVE TypeInv'
  BY <1>13, <1>14, <1>19 DEF CallEnds, Reject, Fault
<1> QED BY <1>14, <1>15, <1>16, <1>17, <1>18, <1>19 DEF RNext

\* The files and the calls in progress have their types, whatever the timing.
THEOREM RelayTypes == RSpec => []RTypeOK
<1>1. RSpec => []TypeInv
  BY TypeInvInit, TypeInvStep, PTL DEF RSpec
<1>2. TypeInv => RTypeOK
  BY TypesAreRTypes DEF TypeInv
<1> QED BY <1>1, <1>2, PTL

---------------------------------------------------------------------------
(* What a section has read is still so when it appends.                    *)

\* Nobody holds a live lease of m.
Free(m) == /\ state[m] \in {"unread", "running"}
           /\ lease[m].n = 0 \/ lease[m].until < now

\* Only the process inside the section is past its reading, and what it read
\* still justifies what it is about to append.
CallOK(p) ==
    LET d == doing[p] IN
    /\ d.step \in {"none", "read"} \/ stage[p] = "in"
    /\ d.step = "write" => d.op \in {"send", "poll", "mark", "reclaim", "end"}
    /\ d.step = "write" /\ d.op = "send" => \A m \in d.msgs : state[m] = "absent"
    /\ d.step = "write" /\ d.op \in {"poll", "mark", "reclaim"} => \A m \in d.msgs : Free(m)
    /\ d.step = "write" /\ d.op = "end" =>
          \A m \in d.msgs : state[m] = "running" /\ (d.n # 0 => lease[m].n = d.n)
    /\ d.step = "outbox" =>
          d.op = "end" /\ \A m \in d.msgs : state[m] \in Ended /\ outbox[m] = 0

\* A message nobody claimed has no lease; one that goes on has no result.
LogOK(m) ==
    /\ state[m] \in {"absent", "unread"} => lease[m].n = 0
    /\ outbox[m] <= 1
    /\ state[m] \notin Ended => outbox[m] = 0

\* A lease somebody was given is the message's last, or it has expired.
LeaseOK(c) ==
    /\ c.n >= 1 /\ c.n <= lease[c.msg].n
    /\ c.n = lease[c.msg].n => c.until = lease[c.msg].until
    /\ c.n < lease[c.msg].n => c.until < now

Given(p) == claims[p] \cup doing[p].got

RelayInv ==
    /\ TypeInv
    /\ LockInv
    /\ \A p \in Procs : CallOK(p)
    /\ \A m \in Messages : LogOK(m)
    /\ \A p \in Procs : \A c \in Given(p) : LeaseOK(c)

LEMMA RelayInvInit == RInit => RelayInv
<1> SUFFICES ASSUME RInit PROVE RelayInv
  OBVIOUS
<1>1. TypeInv /\ LockInv
  BY TypeInvInit, LockInvInit DEF RInit
<1>2. \A p \in Procs : CallOK(p) /\ Given(p) = {}
  BY DEF RInit, CallOK, Idle, Given
<1>3. \A m \in Messages : LogOK(m)
  BY DEF RInit, LogOK, NoClaim
<1> QED BY <1>1, <1>2, <1>3 DEF RelayInv

\* A step that leaves the log alone and lets time pass keeps what others know.
LEMMA CallFrame ==
  ASSUME TypeInv, UNCHANGED log, now' \in Nat, now <= now',
         NEW p \in Procs, CallOK(p), doing'[p] = doing[p],
         stage'[p] = stage[p] \/ doing[p].step \in {"none", "read"}
  PROVE  CallOK(p)'
<1>1. \A m \in Messages : Free(m) => Free(m)'
  BY DEF Free, log, TypeInv, Types, LeaseType, LockTypeOK
<1>2. doing[p].msgs \subseteq Messages
  BY DEF TypeInv, Types, CallType
<1> QED BY <1>1, <1>2 DEF CallOK, log

LEMMA LogFrame ==
  ASSUME UNCHANGED log, NEW m \in Messages, LogOK(m) PROVE LogOK(m)'
  BY DEF LogOK, log

LEMMA LeaseFrame ==
  ASSUME TypeInv, UNCHANGED log, now' \in Nat, now <= now', NEW c \in ClaimType, LeaseOK(c)
  PROVE  LeaseOK(c)'
  BY DEF LeaseOK, log, TypeInv, Types, ClaimType, LockTypeOK

\* A step of p that appends nothing to the log.
LEMMA QuietStep ==
  ASSUME RelayInv, TypeInv', LockInv', UNCHANGED <<log, now>>, NEW p \in Procs,
         \A q \in Procs \ {p} : /\ doing'[q] = doing[q] /\ claims'[q] = claims[q]
                                /\ stage'[q] = stage[q],
         CallOK(p)', Given(p)' \subseteq Given(p)
  PROVE  RelayInv'
<1>1. now' \in Nat /\ now <= now'
  BY DEF RelayInv, TypeInv, Types, LockTypeOK
<1>2. ASSUME NEW q \in Procs PROVE CallOK(q)'
  BY <1>1, CallFrame DEF RelayInv
<1>3. ASSUME NEW m \in Messages PROVE LogOK(m)'
  BY LogFrame DEF RelayInv
<1>4. ASSUME NEW q \in Procs, NEW c \in Given(q)' PROVE LeaseOK(c)'
  <2>1. c \in Given(q)
    BY <1>4 DEF Given
  <2>2. c \in ClaimType
    BY <2>1 DEF Given, RelayInv, TypeInv, Types, CallType
  <2> QED BY <1>1, <2>1, <2>2, LeaseFrame DEF RelayInv
<1> QED BY <1>2, <1>3, <1>4 DEF RelayInv

\* A step of p inside its section that appends to the log.
LEMMA LogStep ==
  ASSUME RelayInv, TypeInv', LockInv', UNCHANGED <<lockVars, claims>>,
         NEW p \in Procs, stage[p] = "in",
         \A q \in Procs \ {p} : doing'[q] = doing[q],
         CallOK(p)', \A m \in Messages : LogOK(m)',
         \A q \in Procs : \A c \in Given(q)' : LeaseOK(c)'
  PROVE  RelayInv'
<1>1. ASSUME NEW q \in Procs, q # p PROVE CallOK(q)'
  <2>1. stage[q] # "in"
    BY <1>1, LockInvExcludes DEF RelayInv, MutualExclusion
  <2>2. doing[q].step \in {"none", "read"}
    BY <2>1 DEF RelayInv, CallOK
  <2>3. doing'[q].step \in {"none", "read"}
    BY <1>1, <2>2
  <2> QED BY <2>3 DEF CallOK
<1> QED BY <1>1 DEF RelayInv

\* What a section reads is what its append relies on.
LEMMA ReadOK ==
  ASSUME RelayInv, NEW p \in Procs, ReadSection(p)
  PROVE  /\ CallOK(p)'
         /\ Given(p)' = Given(p)
         /\ \A q \in Procs \ {p} : doing'[q] = doing[q]
         /\ UNCHANGED <<lockVars, log, claims>>
<1> DEFINE d == doing[p]
<1>1. d \in CallType /\ stage[p] = "in" /\ d.step = "read"
  BY DEF RelayInv, TypeInv, Types, ReadSection, At
<1>2. ASSUME NEW S \in SUBSET Messages, NEW step \in {"write", "beat"}, Proceed(p, S, step),
             step = "write" =>
                \/ d.op = "send" /\ \A m \in S : state[m] = "absent"
                \/ d.op \in {"poll", "mark", "reclaim"} /\ \A m \in S : Free(m)
                \/ d.op = "end" /\ \A m \in S : /\ state[m] = "running"
                                                /\ d.n # 0 => lease[m].n = d.n
      PROVE  /\ CallOK(p)'
             /\ Given(p)' = Given(p)
             /\ \A q \in Procs \ {p} : doing'[q] = doing[q]
             /\ UNCHANGED <<lockVars, log, claims>>
  <2>1. doing'[p] = [d EXCEPT !.msgs = S, !.at = now, !.step = step]
    BY <1>2 DEF Proceed, RelayInv, TypeInv, Types
  <2>2. /\ doing'[p].op = d.op /\ doing'[p].n = d.n /\ doing'[p].got = d.got
        /\ doing'[p].msgs = S /\ doing'[p].step = step
    BY <1>1, <2>1 DEF CallType
  <2>3. UNCHANGED <<lockVars, log, claims>> /\ \A q \in Procs \ {p} : doing'[q] = doing[q]
    BY <1>2 DEF Proceed, RelayInv, TypeInv, Types
  <2>4. UNCHANGED <<stage, now, state, lease, outbox>>
    BY <2>3 DEF lockVars, log
  <2>5. CallOK(p)'
    BY <1>1, <1>2, <2>2, <2>4 DEF CallOK, Free
  <2>6. Given(p)' = Given(p)
    BY <2>2, <2>3 DEF Given, lockVars, log
  <2> QED BY <2>3, <2>5, <2>6
<1>3. ASSUME NEW m \in Messages, state[m] = "unread" \/ CanReclaim(m, now) PROVE Free(m)
  BY <1>3 DEF RelayInv, LogOK, Free, CanReclaim
<1>4. ASSUME NEW m \in Messages, Permitted(d, m)
      PROVE  \/ d.op = "send" /\ state[m] = "absent"
             \/ d.op = "mark" /\ state[m] = "unread"
             \/ d.op = "end" /\ state[m] = "running" /\ (d.n # 0 => lease[m].n = d.n)
  BY <1>4 DEF Permitted, MayEnd
<1>5. CASE \E m \in d.msgs : Permitted(d, m) /\ Proceed(p, {m}, "write")
  <2>1. PICK m \in d.msgs : Permitted(d, m) /\ Proceed(p, {m}, "write")
    BY <1>5
  <2>2. m \in Messages
    BY <1>1 DEF CallType
  <2> QED BY <1>2, <1>3, <1>4, <2>1, <2>2
<1>6. CASE d.op = "poll" /\ \E m \in Firsts(Ready(d.agent, now)) : Proceed(p, {m}, "write")
  <2>1. PICK m \in Firsts(Ready(d.agent, now)) : Proceed(p, {m}, "write")
    BY <1>6
  <2>2. m \in Messages /\ (state[m] = "unread" \/ CanReclaim(m, now))
    BY <2>1 DEF Firsts, Ready
  <2> QED BY <1>2, <1>3, <1>6, <2>1, <2>2
<1>7. CASE d.op = "poll" /\ Proceed(p, {}, "beat")
  BY <1>2, <1>7
<1>8. CASE LET S == {m \in Messages : Inbox[m] = d.agent /\ CanReclaim(m, now)}
           IN  d.op = "reclaim" /\ Proceed(p, S, IF S = {} THEN "beat" ELSE "write")
  <2> DEFINE S == {m \in Messages : Inbox[m] = d.agent /\ CanReclaim(m, now)}
  <2>1. S \in SUBSET Messages /\ \A m \in S : Free(m)
    BY <1>3
  <2>2. CASE Proceed(p, S, "beat")
    BY <1>2, <2>1, <2>2
  <2>3. CASE d.op = "reclaim" /\ Proceed(p, S, "write")
    BY <1>2, <2>1, <2>3
  <2>4. Proceed(p, S, "beat") \/ (d.op = "reclaim" /\ Proceed(p, S, "write"))
    BY <1>8
  <2> QED BY <2>2, <2>3, <2>4
<1> QED BY <1>5, <1>6, <1>7, <1>8 DEF ReadSection

LEMMA SendOK ==
  ASSUME RelayInv, TypeInv', LockInv', NEW p \in Procs, SendWrite(p) PROVE RelayInv'
<1> DEFINE d == doing[p]
<1>1. PICK m \in d.msgs : state' = [state EXCEPT ![m] = "unread"]
  BY DEF SendWrite
<1>2. m \in Messages /\ stage[p] = "in" /\ d \in CallType
  BY DEF RelayInv, TypeInv, Types, CallType, SendWrite, At
<1>3. state[m] = "absent"
  BY DEF SendWrite, At, RelayInv, CallOK
<1>4. /\ doing'[p].step = "leave" /\ doing'[p].got = d.got
      /\ \A q \in Procs \ {p} : doing'[q] = doing[q]
      /\ UNCHANGED <<lockVars, lease, outbox, claims>>
  BY <1>2 DEF SendWrite, RelayInv, TypeInv, Types, CallType
<1>5. CallOK(p)'
  BY <1>2, <1>4 DEF CallOK, lockVars
<1>6. ASSUME NEW k \in Messages PROVE LogOK(k)'
  BY <1>1, <1>2, <1>3, <1>4 DEF RelayInv, LogOK, TypeInv, Types, Ended
<1>7. ASSUME NEW q \in Procs, NEW c \in Given(q)' PROVE LeaseOK(c)'
  <2>1. c \in Given(q)
    BY <1>4, <1>7 DEF Given
  <2> QED BY <1>4, <2>1 DEF RelayInv, LeaseOK, lockVars
<1> QED BY <1>2, <1>4, <1>5, <1>6, <1>7, LogStep

\* The new lease outlives no other: the last one has expired, if there was one.
LEMMA ClaimOK ==
  ASSUME RelayInv, TypeInv', LockInv', NEW p \in Procs, ClaimWrite(p) PROVE RelayInv'
<1> DEFINE d == doing[p]
<1>1. PICK m \in Firsts(d.msgs) :
        LET n == lease[m].n + 1
            until == LeaseEnd(d)
        IN  /\ state' = [state EXCEPT ![m] = "running"]
            /\ lease' = [lease EXCEPT ![m] = [n |-> n, until |-> until]]
            /\ doing' = [doing EXCEPT
                            ![p].msgs = @ \ {m},
                            ![p].got = @ \cup {Claim(m, n, until)},
                            ![p].step = IF d.msgs = {m} THEN "beat" ELSE "write"]
  BY DEF ClaimWrite
<1> DEFINE c0 == Claim(m, lease[m].n + 1, LeaseEnd(d))
<1>2. /\ stage[p] = "in" /\ d \in CallType /\ d.step = "write"
      /\ d.op \in {"poll", "mark", "reclaim"}
      /\ m \in d.msgs /\ m \in Messages /\ now \in Nat
  BY DEF RelayInv, TypeInv, Types, LockTypeOK, CallType, ClaimWrite, At, Firsts
<1>3. Free(m)
  BY <1>2 DEF RelayInv, CallOK
<1>4. lease[m] \in LeaseType /\ lease[m].n \in Nat /\ lease[m].until \in Nat
  BY <1>2 DEF RelayInv, TypeInv, Types, LeaseType
<1>5. /\ doing'[p].op = d.op /\ doing'[p].n = d.n /\ doing'[p].msgs = d.msgs \ {m}
      /\ doing'[p].got = d.got \cup {c0}
      /\ doing'[p].step \in {"beat", "write"}
      /\ \A q \in Procs \ {p} : doing'[q] = doing[q]
  BY <1>1, <1>2 DEF RelayInv, TypeInv, Types, CallType
<1>6. UNCHANGED <<lockVars, outbox, claims>>
  BY DEF ClaimWrite
<1>7. /\ state'[m] = "running" /\ lease'[m] = [n |-> lease[m].n + 1, until |-> LeaseEnd(d)]
      /\ \A k \in Messages \ {m} : state'[k] = state[k] /\ lease'[k] = lease[k]
  BY <1>1, <1>2 DEF RelayInv, TypeInv, Types
<1>8. CallOK(p)'
  <2>1. \A k \in d.msgs \ {m} : Free(k)'
    BY <1>2, <1>6, <1>7 DEF RelayInv, CallOK, Free, lockVars, CallType
  <2> QED BY <1>2, <1>5, <1>6, <2>1 DEF CallOK, lockVars
<1>9. ASSUME NEW k \in Messages PROVE LogOK(k)'
  <2>1. LogOK(k)
    BY DEF RelayInv
  <2>2. CASE k = m
    BY <1>3, <1>6, <1>7, <2>1, <2>2 DEF LogOK, Free, Ended
  <2>3. CASE k # m
    BY <1>6, <1>7, <2>1, <2>3 DEF LogOK
  <2> QED BY <2>2, <2>3
<1>10. ASSUME NEW q \in Procs, NEW c \in Given(q)' PROVE LeaseOK(c)'
  <2>1. CASE c = c0
    BY <1>2, <1>4, <1>7, <2>1 DEF LeaseOK, Claim
  <2>2. CASE c # c0
    <3>1. c \in Given(q)
      BY <1>5, <1>6, <1>10, <2>2 DEF Given
    <3>2. c \in ClaimType /\ c.msg \in Messages /\ c.n \in Nat
      BY <3>1 DEF Given, RelayInv, TypeInv, Types, CallType, ClaimType
    <3>3. LeaseOK(c)
      BY <3>1 DEF RelayInv
    <3>4. CASE c.msg = m
      <4>1. c.n <= lease[m].n /\ c.n >= 1 /\ c.until < now
        BY <1>3, <3>2, <3>3, <3>4, <1>4 DEF LeaseOK, Free
      <4>2. lease'[m].n = lease[m].n + 1
        BY <1>7
      <4> QED BY <1>4, <1>6, <3>2, <3>4, <4>1, <4>2 DEF LeaseOK, lockVars
    <3>5. CASE c.msg # m
      BY <1>6, <1>7, <3>2, <3>3, <3>5 DEF LeaseOK, lockVars
    <3> QED BY <3>4, <3>5
  <2> QED BY <2>1, <2>2
<1> HIDE DEF c0
<1> QED BY <1>2, <1>5, <1>6, <1>8, <1>9, <1>10, LogStep

LEMMA EndOK ==
  ASSUME RelayInv, TypeInv', LockInv', NEW p \in Procs, EndWrite(p) PROVE RelayInv'
<1> DEFINE d == doing[p]
<1>1. /\ stage[p] = "in" /\ d \in CallType /\ d.step = "write" /\ d.op = "end"
      /\ d.to \in Ended
  BY DEF RelayInv, TypeInv, Types, EndsKnown, EndWrite, At
<1>2. \A m \in d.msgs : m \in Messages /\ state[m] = "running"
  BY <1>1 DEF RelayInv, CallOK, CallType
<1>3. /\ doing'[p].step = "outbox" /\ doing'[p].op = "end"
      /\ doing'[p].msgs = d.msgs /\ doing'[p].got = d.got
      /\ \A q \in Procs \ {p} : doing'[q] = doing[q]
      /\ UNCHANGED <<lockVars, lease, outbox, claims>>
      /\ \A m \in Messages : state'[m] = IF m \in d.msgs THEN d.to ELSE state[m]
  BY <1>1 DEF EndWrite, RelayInv, TypeInv, Types, CallType
<1>4. CallOK(p)'
  BY <1>1, <1>2, <1>3 DEF CallOK, lockVars, RelayInv, LogOK, Ended
<1>5. ASSUME NEW k \in Messages PROVE LogOK(k)'
  BY <1>1, <1>2, <1>3 DEF RelayInv, LogOK, Ended
<1>6. ASSUME NEW q \in Procs, NEW c \in Given(q)' PROVE LeaseOK(c)'
  <2>1. c \in Given(q)
    BY <1>3, <1>6 DEF Given
  <2> QED BY <1>3, <2>1 DEF RelayInv, LeaseOK, lockVars
<1> QED BY <1>1, <1>3, <1>4, <1>5, <1>6, LogStep

LEMMA OutboxOK ==
  ASSUME RelayInv, TypeInv', LockInv', NEW p \in Procs, OutboxWrite(p) PROVE RelayInv'
<1> DEFINE d == doing[p]
<1>1. /\ stage[p] = "in" /\ d \in CallType /\ d.step = "outbox"
      /\ \A m \in d.msgs : m \in Messages /\ state[m] \in Ended /\ outbox[m] = 0
  BY DEF RelayInv, TypeInv, Types, CallOK, CallType, OutboxWrite, At
<1>2. /\ doing'[p].step = "beat" /\ doing'[p].got = d.got
      /\ \A q \in Procs \ {p} : doing'[q] = doing[q]
      /\ UNCHANGED <<lockVars, state, lease, claims>>
      /\ \A m \in Messages : outbox'[m] = outbox[m] + IF m \in d.msgs THEN 1 ELSE 0
  BY <1>1 DEF OutboxWrite, RelayInv, TypeInv, Types, CallType
<1>3. CallOK(p)'
  BY <1>1, <1>2 DEF CallOK, lockVars
<1>4. ASSUME NEW k \in Messages PROVE LogOK(k)'
  <2>1. LogOK(k) /\ outbox[k] \in Nat
    BY DEF RelayInv, TypeInv, Types
  <2> QED BY <1>1, <1>2, <2>1 DEF LogOK
<1>5. ASSUME NEW q \in Procs, NEW c \in Given(q)' PROVE LeaseOK(c)'
  <2>1. c \in Given(q)
    BY <1>2, <1>5 DEF Given
  <2> QED BY <1>2, <2>1 DEF RelayInv, LeaseOK, lockVars
<1> QED BY <1>1, <1>2, <1>3, <1>4, <1>5, LogStep

\* A command begins a section, without reading yet, or writes a heartbeat.
LEMMA CommandOK ==
  ASSUME RelayInv, TypeInv', LockInv', NEW p \in Procs, Commands(p) PROVE RelayInv'
<1>1. doing[p] \in CallType /\ Idle.step = "none" /\ Idle.got = {}
  BY DEF RelayInv, TypeInv, Types, Idle
<1>2. ASSUME doing'[p].step \in {"none", "read"}, doing'[p].got \subseteq doing[p].got,
             \A q \in Procs \ {p} : doing'[q] = doing[q] /\ stage'[q] = stage[q],
             UNCHANGED <<log, now, claims>>
      PROVE  RelayInv'
  <2>1. CallOK(p)'
    BY <1>2 DEF CallOK
  <2>2. Given(p)' \subseteq Given(p)
    BY <1>2 DEF Given
  <2> QED BY <1>2, <2>1, <2>2, QuietStep
<1>3. ASSUME NEW op \in {"send", "poll", "reclaim", "mark", "end"}, NEW a \in Agents,
             NEW S \in SUBSET Messages, NEW n \in Nat, NEW to \in MessageStates,
             Begin(p, op, a, S, n, to)
      PROVE  RelayInv'
  <2>1. /\ doing'[p].step = "read" /\ doing'[p].got = {}
        /\ \A q \in Procs \ {p} : doing'[q] = doing[q] /\ stage'[q] = stage[q]
        /\ UNCHANGED <<log, now, claims>>
    BY <1>3 DEF Begin, Enter, To, RelayInv, TypeInv, Types, LockTypeOK, log
  <2> QED BY <1>2, <2>1
<1>4. ASSUME NEW a \in Agents, NEW s \in BeatStates, SetHeartbeat(p, a, s) PROVE RelayInv'
  <2>1. doing[p] = Idle /\ UNCHANGED <<doing, stage, log, now, claims>>
    BY <1>4 DEF SetHeartbeat, lockVars, log
  <2> QED BY <1>1, <1>2, <2>1
<1>5. ASSUME NEW a \in Agents, DetectRead(p, a) PROVE RelayInv'
  <2>1. /\ doing[p] = Idle /\ doing'[p].step = doing[p].step /\ doing'[p].got = doing[p].got
        /\ \A q \in Procs \ {p} : doing'[q] = doing[q] /\ stage'[q] = stage[q]
        /\ UNCHANGED <<log, now, claims>>
    BY <1>1, <1>5 DEF DetectRead, RelayInv, TypeInv, Types, CallType, lockVars, log
  <2> QED BY <1>1, <1>2, <2>1
<1>6. CASE DetectWrite(p)
  <2>1. /\ doing'[p] = Idle
        /\ \A q \in Procs \ {p} : doing'[q] = doing[q] /\ stage'[q] = stage[q]
        /\ UNCHANGED <<log, now, claims>>
    BY <1>6 DEF DetectWrite, RelayInv, TypeInv, Types, lockVars, log
  <2> QED BY <1>1, <1>2, <2>1
<1> QED BY <1>3, <1>4, <1>5, <1>6, CommandTypes DEF RelayInv, TypeInv

\* However a call ends, its process is outside and holds nothing new.
LEMMA CallEndsOK ==
  ASSUME RelayInv, TypeInv', LockInv', NEW p \in Procs, CallEnds(p) \/ Crash(p)
  PROVE  RelayInv'
<1>1. /\ doing'[p] = Idle
      /\ \A q \in Procs \ {p} : /\ doing'[q] = doing[q] /\ claims'[q] = claims[q]
                                /\ stage'[q] = stage[q]
      /\ UNCHANGED <<log, now>>
  BY DEF CallEnds, ReturnCall, Reject, Fault, Raise, LockTimeout, Crash, Leave, GiveUp, Die,
         To, RelayInv, TypeInv, Types, LockTypeOK, log, lockVars
<1>2. claims'[p] \subseteq Given(p)
  BY DEF CallEnds, ReturnCall, Reject, Fault, Raise, LockTimeout, Crash, Given,
         RelayInv, TypeInv, Types
<1>3. CallOK(p)' /\ Given(p)' \subseteq Given(p)
  BY <1>1, <1>2 DEF CallOK, Idle, Given
<1> QED BY <1>1, <1>3, QuietStep

LEMMA CallStepOK ==
  ASSUME RelayInv, TypeInv', LockInv', NEW p \in Procs, CallStep(p) PROVE RelayInv'
<1>1. doing[p] \in CallType /\ CallOK(p)
  BY DEF RelayInv, TypeInv, Types
<1>2. CASE Locking(p)
  <2>1. /\ stage[p] # "in" /\ UNCHANGED <<doing, claims, log, now>>
        /\ \A q \in Procs \ {p} : stage'[q] = stage[q]
    BY <1>2 DEF Locking, Look, Unlink, Create, Refused, To, relayVars, log,
                RelayInv, TypeInv, Types, LockTypeOK
  <2>2. doing[p].step \in {"none", "read"}
    BY <1>1, <2>1 DEF CallOK
  <2>3. CallOK(p)' /\ Given(p)' = Given(p)
    BY <2>1, <2>2 DEF CallOK, Given
  <2> QED BY <2>1, <2>3, QuietStep
<1>3. CASE ReadSection(p)
  BY <1>3, ReadOK, QuietStep DEF lockVars
<1>4. CASE BeatWrite(p)
  <2>1. /\ stage[p] = "in" /\ doing'[p].step = "leave" /\ doing'[p].got = doing[p].got
        /\ \A q \in Procs \ {p} : doing'[q] = doing[q]
        /\ UNCHANGED <<stage, now, log, claims>>
    BY <1>1, <1>4 DEF BeatWrite, At, lockVars, log, RelayInv, TypeInv, Types, CallType
  <2>2. CallOK(p)' /\ Given(p)' = Given(p)
    BY <2>1 DEF CallOK, Given
  <2> QED BY <2>1, <2>2, QuietStep
<1> QED BY <1>2, <1>3, <1>4, SendOK, ClaimOK, EndOK, OutboxOK DEF CallStep

LEMMA TickOK ==
  ASSUME RelayInv, TypeInv', LockInv', RTick \/ UNCHANGED allVars PROVE RelayInv'
<1>1. UNCHANGED <<log, doing, claims, stage>> /\ now' \in Nat /\ now <= now'
  BY DEF RTick, Tick, allVars, relayVars, lockVars, log, RelayInv, TypeInv, Types, LockTypeOK
<1>2. ASSUME NEW p \in Procs PROVE CallOK(p)'
  BY <1>1, CallFrame DEF RelayInv
<1>3. ASSUME NEW m \in Messages PROVE LogOK(m)'
  BY <1>1, LogFrame DEF RelayInv
<1>4. ASSUME NEW q \in Procs, NEW c \in Given(q)' PROVE LeaseOK(c)'
  <2>1. c \in Given(q)
    BY <1>1, <1>4 DEF Given
  <2>2. c \in ClaimType
    BY <2>1 DEF Given, RelayInv, TypeInv, Types, CallType
  <2> QED BY <1>1, <2>1, <2>2, LeaseFrame DEF RelayInv
<1> QED BY <1>2, <1>3, <1>4 DEF RelayInv

LEMMA RelayInvStep ==
  ASSUME Prompt
  PROVE  RelayInv /\ [RNext]_allVars => RelayInv'
<1> SUFFICES ASSUME RelayInv, [RNext]_allVars PROVE RelayInv'
  OBVIOUS
<1>1. TypeInv' /\ LockInv'
  BY TypeInvStep, LockInvStep, RelayLockStep DEF RelayInv
<1> QED BY <1>1, CommandOK, CallEndsOK, CallStepOK, TickOK DEF RNext

LEMMA RelayIsSafe ==
  ASSUME Prompt
  PROVE  RSpec => []RelayInv
  BY RelayInvInit, RelayInvStep, PTL DEF RSpec

---------------------------------------------------------------------------
(* The relay's promises.                                                   *)

\* Of two processes on a message, one at least has an expired lease.
THEOREM LeasesAreExclusive ==
  ASSUME Prompt
  PROVE  RSpec => []LeasesDoNotOverlap
<1>1. RelayInv => LeasesDoNotOverlap
  <2> SUFFICES ASSUME RelayInv, NEW p \in Procs, NEW q \in Procs,
                      NEW c \in claims[p], NEW d \in claims[q],
                      c.msg = d.msg, c.n # d.n
               PROVE  c.until < now \/ d.until < now
    BY DEF LeasesDoNotOverlap
  <2>1. c \in ClaimType /\ d \in ClaimType
    BY DEF RelayInv, TypeInv, Types
  <2>2. LeaseOK(c) /\ LeaseOK(d) /\ lease[c.msg] \in LeaseType
    BY <2>1 DEF RelayInv, TypeInv, Types, Given, ClaimType
  <2> QED BY <2>1, <2>2 DEF LeaseOK, ClaimType, LeaseType
<1> QED BY <1>1, RelayIsSafe, PTL

\* A message that ended keeps its state and its last lease.
LEMMA EndedStays ==
  ASSUME RelayInv, [RNext]_allVars, NEW m \in Messages, state[m] \in Ended
  PROVE  state'[m] = state[m] /\ lease'[m] = lease[m]
<1>1. ASSUME NEW p \in Procs, CallStep(p) PROVE state'[m] = state[m] /\ lease'[m] = lease[m]
  <2>1. ASSUME doing[p].step = "write", m \in doing[p].msgs PROVE FALSE
    BY <2>1 DEF RelayInv, CallOK, Free, Ended
  <2>2. CASE SendWrite(p)
    BY <2>1, <2>2 DEF SendWrite, At, RelayInv, TypeInv, Types
  <2>3. CASE ClaimWrite(p)
    BY <2>1, <2>3 DEF ClaimWrite, At, Firsts, RelayInv, TypeInv, Types
  <2>4. CASE EndWrite(p)
    BY <2>1, <2>4 DEF EndWrite, At
  <2>5. CASE Locking(p) \/ ReadSection(p) \/ OutboxWrite(p) \/ BeatWrite(p)
    BY <2>5 DEF Locking, ReadSection, Proceed, OutboxWrite, BeatWrite, relayVars, log
  <2> QED BY <1>1, <2>2, <2>3, <2>4, <2>5 DEF CallStep
<1>2. ASSUME NEW p \in Procs, CallEnds(p) \/ Commands(p) \/ Crash(p)
      PROVE  UNCHANGED <<state, lease>>
  BY <1>2 DEF CallEnds, ReturnCall, Reject, Fault, Raise, LockTimeout, Crash, Commands,
              BeginSend, BeginMark, BeginPoll, BeginReclaim, BeginEnd, Begin,
              SetHeartbeat, DetectRead, DetectWrite, log
<1>3. CASE RTick \/ UNCHANGED allVars
  BY <1>3 DEF RTick, allVars, relayVars, log
<1> QED BY <1>1, <1>2, <1>3 DEF RNext

\* No result is changed, and none is written twice.
THEOREM ResultsAreFinal ==
  ASSUME Prompt
  PROVE  RSpec => EndsOnce
<1>1. RelayInv => \A m \in Messages : outbox[m] <= 1
  BY DEF RelayInv, LogOK
<1>2. RelayInv /\ [RNext]_allVars =>
        [\A m \in Messages : state[m] \in Ended => state'[m] = state[m]]_allVars
  BY EndedStays
<1> QED BY <1>1, <1>2, RelayIsSafe, PTL DEF RSpec, EndsOnce

\* A result that names a lease ends the message under that very lease.
THEOREM LeaseGuardsResult ==
  ASSUME Prompt
  PROVE  RSpec => OnlyCurrentLeaseEnds
<1>1. RelayInv =>
        [\A p \in Procs, m \in Messages :
            /\ doing[p].op = "end" /\ doing[p].step = "write" /\ doing[p].n # 0
            /\ doing[p].msgs = {m}
            /\ state'[m] # state[m]
            => state[m] = "running" /\ lease[m].n = doing[p].n]_allVars
  BY DEF RelayInv, CallOK
<1> QED BY <1>1, RelayIsSafe, PTL DEF OnlyCurrentLeaseEnds

---------------------------------------------------------------------------
(* The relay implements MessageBox.                                        *)

\* A call that ends a message is about that message alone, and a section does
\* not date its reading in the future.
CallKnown(p) ==
    LET d == doing[p] IN
    /\ d.op = "end" => \E m \in Messages : d.msgs = {m}
    /\ d.op # "detect" => d.at <= now

BoxInv ==
    /\ RelayInv
    /\ \A p \in Procs : CallKnown(p)
    /\ \A m \in Messages : state[m] = "running" => lease[m].n # 0

\* What a step does to the call of its process.
LEMMA KnownStep ==
  ASSUME BoxInv, NEW p \in Procs, CallStep(p) \/ CallEnds(p) \/ Commands(p) \/ Crash(p)
  PROVE  CallKnown(p)' /\ \A q \in Procs \ {p} : doing'[q] = doing[q]
<1> DEFINE d == doing[p]
           Goal == CallKnown(p)' /\ \A q \in Procs \ {p} : doing'[q] = doing[q]
<1> d \in CallType /\ doing \in [Procs -> CallType] /\ CallKnown(p) /\ now \in Nat
  BY DEF BoxInv, RelayInv, TypeInv, Types, LockTypeOK
<1>1. CASE Locking(p)
  BY <1>1 DEF Locking, Look, Unlink, Create, Refused, relayVars, CallKnown
<1>2. CASE ReadSection(p)
  <2>1. PICK S \in SUBSET Messages, step \in Steps :
          Proceed(p, S, step) /\ (d.op = "end" => \E m \in Messages : S = {m})
    BY <1>2 DEF ReadSection, CallType, Firsts, Ready, Steps
  <2>2. /\ doing'[p] = [d EXCEPT !.msgs = S, !.at = now, !.step = step]
        /\ now' = now /\ \A q \in Procs \ {p} : doing'[q] = doing[q]
    BY <2>1 DEF Proceed, lockVars
  <2>3. doing'[p].op = d.op /\ doing'[p].msgs = S /\ doing'[p].at = now
    BY <2>2 DEF CallType
  <2> QED BY <2>1, <2>2, <2>3 DEF CallKnown
<1>3. CASE SendWrite(p) \/ EndWrite(p) \/ OutboxWrite(p) \/ BeatWrite(p)
  <2>1. /\ doing'[p].op = d.op /\ doing'[p].msgs = d.msgs /\ doing'[p].at = d.at
        /\ now' = now /\ \A q \in Procs \ {p} : doing'[q] = doing[q]
    BY <1>3 DEF SendWrite, EndWrite, OutboxWrite, BeatWrite, lockVars, CallType
  <2> QED BY <2>1 DEF CallKnown
<1>4. CASE ClaimWrite(p)
  <2>1. /\ doing'[p].op = d.op /\ d.op # "end" /\ doing'[p].at = d.at
        /\ now' = now /\ \A q \in Procs \ {p} : doing'[q] = doing[q]
    BY <1>4 DEF ClaimWrite, lockVars, CallType
  <2> QED BY <2>1 DEF CallKnown
<1>5. CASE CallEnds(p) \/ Crash(p)
  <2>1. doing'[p] = Idle /\ now' = now /\ \A q \in Procs \ {p} : doing'[q] = doing[q]
    BY <1>5 DEF CallEnds, ReturnCall, Reject, Fault, Raise, LockTimeout, Crash,
                Leave, GiveUp, Die, lockVars
  <2> QED BY <2>1 DEF CallKnown, Idle
<1>6. ASSUME NEW op, NEW a, NEW S, NEW n, NEW to, Begin(p, op, a, S, n, to),
             op = "end" => \E m \in Messages : S = {m}
      PROVE  Goal
  <2>1. /\ doing'[p].op = op /\ doing'[p].msgs = S /\ doing'[p].at = 0
        /\ now' = now /\ \A q \in Procs \ {p} : doing'[q] = doing[q]
    BY <1>6 DEF Begin, Enter
  <2> QED BY <1>6, <2>1 DEF CallKnown
<1>7. ASSUME NEW a, NEW s, SetHeartbeat(p, a, s) PROVE Goal
  BY <1>7 DEF SetHeartbeat, lockVars, CallKnown
<1>8. ASSUME NEW a \in Agents, DetectRead(p, a) PROVE Goal
  <2>1. /\ doing'[p].op = "detect" /\ now' = now
        /\ \A q \in Procs \ {p} : doing'[q] = doing[q]
    BY <1>8 DEF DetectRead, lockVars, CallType
  <2> QED BY <2>1 DEF CallKnown
<1>9. ASSUME DetectWrite(p) PROVE Goal
  BY <1>9 DEF DetectWrite, lockVars, CallKnown, Idle
<1>10. ASSUME NEW c \in claims[p], NEW to, BeginEnd(p, c.msg, c.n, to) PROVE Goal
  <2>1. c.msg \in Messages
    BY DEF BoxInv, RelayInv, TypeInv, Types, ClaimType
  <2> QED BY <1>6, <1>10, <2>1 DEF BeginEnd
<1> HIDE DEF Goal
<1>11. ASSUME Commands(p) PROVE Goal
  <2>1. ASSUME NEW m \in Messages, BeginSend(p, m) \/ BeginMark(p, m) PROVE Goal
    BY <1>6, <2>1 DEF BeginSend, BeginMark
  <2>2. ASSUME NEW a, BeginPoll(p, a) \/ BeginReclaim(p, a) PROVE Goal
    BY <1>6, <2>2 DEF BeginPoll, BeginReclaim
  <2>3. ASSUME NEW m \in Messages, NEW to, BeginEnd(p, m, 0, to) PROVE Goal
    BY <1>6, <2>3 DEF BeginEnd
  <2>4. CASE \E c \in claims[p], to \in Ended : BeginEnd(p, c.msg, c.n, to)
    BY <1>10, <2>4
  <2>5. CASE (\E a \in Agents, s \in BeatStates : SetHeartbeat(p, a, s))
             \/ (\E a \in Agents : DetectRead(p, a)) \/ DetectWrite(p)
    BY <1>7, <1>8, <1>9, <2>5
  <2>6. CASE (\E m \in Messages : BeginSend(p, m) \/ BeginMark(p, m))
             \/ \E a \in Agents : BeginPoll(p, a) \/ BeginReclaim(p, a)
    BY <2>1, <2>2, <2>6
  <2>7. CASE \E m \in Messages, to \in Ended : BeginEnd(p, m, 0, to)
    BY <2>3, <2>7
  <2> QED BY <1>11, <2>4, <2>5, <2>6, <2>7 DEF Commands
<1> QED BY <1>1, <1>2, <1>3, <1>4, <1>5, <1>11 DEF CallStep, Goal

\* A running message has a lease.
LEMMA RunningStep ==
  ASSUME BoxInv, [RNext]_allVars, NEW m \in Messages, state'[m] = "running"
  PROVE  lease'[m].n # 0
<1>1. /\ state \in [Messages -> MessageStates] /\ lease \in [Messages -> LeaseType]
      /\ lease[m].n \in Nat
      /\ state[m] = "running" => lease[m].n # 0
  BY DEF BoxInv, RelayInv, TypeInv, Types, LeaseType
<1>2. ASSUME NEW p \in Procs, CallStep(p) PROVE lease'[m].n # 0
  <2>1. CASE SendWrite(p)
    BY <1>1, <2>1 DEF SendWrite
  <2>2. CASE ClaimWrite(p)
    <3>1. PICK k \in Messages, t \in {LeaseEnd(doing[p])} :
            /\ state' = [state EXCEPT ![k] = "running"]
            /\ lease' = [lease EXCEPT ![k] = [n |-> lease[k].n + 1, until |-> t]]
      BY <2>2 DEF ClaimWrite, Firsts, BoxInv, RelayInv, TypeInv, Types, CallType
    <3> QED BY <1>1, <3>1
  <2>3. CASE EndWrite(p)
    <3>1. doing[p].to \in Ended
      BY <2>3 DEF EndWrite, BoxInv, RelayInv, TypeInv, EndsKnown
    <3> QED BY <1>1, <2>3, <3>1 DEF EndWrite, Ended
  <2>4. CASE Locking(p) \/ ReadSection(p) \/ OutboxWrite(p) \/ BeatWrite(p)
    BY <1>1, <2>4 DEF Locking, ReadSection, Proceed, OutboxWrite, BeatWrite, relayVars, log
  <2> QED BY <1>2, <2>1, <2>2, <2>3, <2>4 DEF CallStep
<1>3. ASSUME NEW p \in Procs, CallEnds(p) \/ Commands(p) \/ Crash(p)
      PROVE  UNCHANGED <<state, lease>>
  BY <1>3 DEF CallEnds, ReturnCall, Reject, Fault, Raise, LockTimeout, Crash, Commands,
              BeginSend, BeginMark, BeginPoll, BeginReclaim, BeginEnd, Begin,
              SetHeartbeat, DetectRead, DetectWrite, log
<1>4. CASE RTick \/ UNCHANGED allVars
  BY <1>1, <1>4 DEF RTick, allVars, relayVars, log
<1> QED BY <1>1, <1>2, <1>3, <1>4 DEF RNext

LEMMA BoxInvStep ==
  ASSUME Prompt
  PROVE  BoxInv /\ [RNext]_allVars => BoxInv'
<1> SUFFICES ASSUME BoxInv, [RNext]_allVars PROVE BoxInv'
  OBVIOUS
<1>1. RelayInv' /\ \A m \in Messages : state'[m] = "running" => lease'[m].n # 0
  BY RelayInvStep, RunningStep DEF BoxInv
<1>2. \A q \in Procs : doing[q] \in CallType /\ doing[q].at \in Nat
  BY DEF BoxInv, RelayInv, TypeInv, Types, CallType
<1>3. now \in Nat /\ now' \in Nat
  BY <1>1 DEF BoxInv, RelayInv, TypeInv, Types, LockTypeOK
<1>4. ASSUME NEW q \in Procs, doing'[q] = doing[q], now <= now' PROVE CallKnown(q)'
  BY <1>2, <1>3, <1>4 DEF BoxInv, CallKnown
<1>5. ASSUME NEW p \in Procs, CallStep(p) \/ CallEnds(p) \/ Commands(p) \/ Crash(p)
      PROVE  BoxInv'
  <2>1. now' = now
    BY <1>5 DEF CallStep, Locking, Look, Unlink, Create, Refused, ReadSection, Proceed,
         SendWrite, ClaimWrite, EndWrite, OutboxWrite, BeatWrite, CallEnds, ReturnCall, Reject,
         Fault, Raise, LockTimeout, Leave, GiveUp, Die, Crash, Commands, BeginSend, BeginMark,
         BeginPoll, BeginReclaim, BeginEnd, Begin, Enter, SetHeartbeat, DetectRead,
         DetectWrite, lockVars
  <2> QED BY <1>1, <1>3, <1>4, <1>5, <2>1, KnownStep DEF BoxInv
<1>6. CASE RTick \/ UNCHANGED allVars
  <2>1. doing' = doing /\ now <= now'
    BY <1>3, <1>6 DEF RTick, Tick, allVars, relayVars, lockVars
  <2> QED BY <1>1, <1>4, <2>1 DEF BoxInv
<1> QED BY <1>5, <1>6 DEF RNext

LEMMA BoxInvInit == RInit => BoxInv
  BY RelayInvInit DEF RInit, LockInit, BoxInv, CallKnown, Idle

LEMMA BoxInvariant ==
  ASSUME Prompt
  PROVE  RSpec => []BoxInv
  BY BoxInvInit, BoxInvStep, PTL DEF RSpec

\* The step of MessageBox that an append of a section is.
LEMMA AppendIsBoxStep ==
  ASSUME BoxInv, NEW p \in Procs,
         SendWrite(p) \/ ClaimWrite(p) \/ EndWrite(p) \/ OutboxWrite(p)
  PROVE  Box!Next
<1> DEFINE d == doing[p]
<1>1. /\ d \in CallType /\ CallOK(p) /\ CallKnown(p) /\ TypeInv /\ now \in Nat /\ now' = now
      /\ \A m \in Messages : LogOK(m)
  BY DEF BoxInv, RelayInv, TypeInv, Types, LockTypeOK, SendWrite, ClaimWrite, EndWrite,
         OutboxWrite, lockVars
<1>2. CASE SendWrite(p)
  <2>1. PICK m \in d.msgs : state' = [state EXCEPT ![m] = "unread"]
    BY <1>2 DEF SendWrite
  <2>2. m \in Messages /\ state[m] = "absent"
    BY <1>1, <1>2 DEF SendWrite, At, CallOK, CallType
  <2>3. Box!Send(m)
    BY <1>1, <1>2, <2>1, <2>2 DEF Box!Send, SendWrite
  <2> QED BY <2>2, <2>3 DEF Box!Next
<1>3. CASE ClaimWrite(p)
  <2>1. PICK m \in Firsts(d.msgs) :
          /\ state' = [state EXCEPT ![m] = "running"]
          /\ lease' = [lease EXCEPT ![m] = [n |-> lease[m].n + 1, until |-> LeaseEnd(d)]]
    BY <1>3 DEF ClaimWrite
  <2>2. m \in Messages /\ Free(m)
    BY <1>1, <1>3 DEF ClaimWrite, At, CallOK, CallType, Firsts
  <2>3. state[m] = "unread" \/ (state[m] = "running" /\ lease[m].until < now)
    BY <2>2 DEF Free, BoxInv
  <2>4. d.at \in Nat /\ d.at <= now
    BY <1>1, <1>3 DEF ClaimWrite, CallKnown, CallType
  <2>5. LeaseEnd(d) \in 0 .. now + LeaseTime
    <3> DEFINE t == IF d.op = "mark" THEN now ELSE d.at
    <3>1. t \in Nat /\ t <= now
      BY <1>1, <2>4
    <3> HIDE DEF t
    <3>2. t + LeaseTime \in 0 .. now + LeaseTime
      BY <1>1, <3>1, RelayAssumption
    <3> QED BY <3>2 DEF t, LeaseEnd
  <2>6. Box!Grant(m)
    BY <1>1, <1>3, <2>1, <2>3, <2>5 DEF Box!Grant, ClaimWrite
  <2> QED BY <2>2, <2>6 DEF Box!Next
<1>4. CASE EndWrite(p)
  <2>1. PICK m \in Messages : d.msgs = {m}
    BY <1>1, <1>4 DEF EndWrite, CallKnown
  <2>2. state[m] = "running" /\ d.to \in Ended
    BY <1>1, <1>4, <2>1 DEF EndWrite, At, CallOK, TypeInv, EndsKnown
  <2>3. state' = [state EXCEPT ![m] = d.to]
    BY <1>1, <1>4, <2>1 DEF EndWrite, TypeInv, Types
  <2>4. Box!Answer(m, d.to)
    BY <1>1, <1>4, <2>2, <2>3 DEF Box!Answer, Box!Answered, Ended, EndWrite
  <2> QED BY <2>2, <2>4 DEF Box!Next, Box!Answered, Ended
<1>5. CASE OutboxWrite(p)
  <2>1. d.op = "end" /\ \A m \in d.msgs : state[m] \in Ended /\ outbox[m] = 0
    BY <1>1, <1>5 DEF OutboxWrite, At, CallOK
  <2>2. PICK m \in Messages : d.msgs = {m}
    BY <1>1, <2>1 DEF CallKnown
  <2>3. outbox' = [outbox EXCEPT ![m] = 1]
    <3>1. outbox \in [Messages -> Nat] /\ outbox[m] = 0
      BY <1>1, <2>1, <2>2 DEF TypeInv, Types
    <3>2. outbox' = [k \in Messages |-> outbox[k] + IF k = m THEN 1 ELSE 0]
      BY <1>5, <2>2 DEF OutboxWrite
    <3>3. ASSUME NEW k \in Messages
          PROVE  outbox[k] + (IF k = m THEN 1 ELSE 0) = IF k = m THEN 1 ELSE outbox[k]
      BY <3>1
    <3> QED BY <3>1, <3>2, <3>3
  <2>4. Box!Publish(m)
    BY <1>1, <1>5, <2>1, <2>2, <2>3 DEF Box!Publish, Box!Answered, Ended, OutboxWrite
  <2> QED BY <2>4 DEF Box!Next
<1> QED BY <1>2, <1>3, <1>4, <1>5

\* All the other steps of a process change neither the log nor the clock.
LEMMA QuietBoxStep ==
  ASSUME NEW p \in Procs, CallStep(p) \/ CallEnds(p) \/ Commands(p) \/ Crash(p),
         ~(SendWrite(p) \/ ClaimWrite(p) \/ EndWrite(p) \/ OutboxWrite(p))
  PROVE  UNCHANGED <<state, lease, outbox, now>>
  BY DEF CallStep, Locking, Look, Unlink, Create, Refused, ReadSection, Proceed, BeatWrite,
         CallEnds, ReturnCall, Reject, Fault, Raise, LockTimeout, Leave, GiveUp, Die, Crash,
         Commands, BeginSend, BeginMark, BeginPoll, BeginReclaim, BeginEnd, Begin, Enter,
         SetHeartbeat, DetectRead, DetectWrite, lockVars, relayVars, log

\* With prompt sections every call of every process, whatever fails in it, is
\* one of MessageBox's atomic steps.
THEOREM RelayImplementsMessageBox ==
  ASSUME Prompt
  PROVE  RSpec => ImplementsMessageBox
<1>1. RInit => Box!Init
  BY DEF RInit, LockInit, NoClaim, Box!Init
<1>2. BoxInv /\ [RNext]_allVars => [Box!Next]_Box!vars
  <2> SUFFICES ASSUME BoxInv, [RNext]_allVars
               PROVE  Box!Next \/ UNCHANGED <<state, lease, outbox, now>>
    BY DEF Box!vars
  <2>1. ASSUME NEW p \in Procs, CallStep(p) \/ CallEnds(p) \/ Commands(p) \/ Crash(p)
        PROVE  Box!Next \/ UNCHANGED <<state, lease, outbox, now>>
    BY <2>1, AppendIsBoxStep, QuietBoxStep
  <2>2. CASE RTick
    <3>1. Box!Tick
      BY <2>2 DEF RTick, Tick, relayVars, log, Box!Tick
    <3> QED BY <3>1 DEF Box!Next
  <2>3. CASE UNCHANGED allVars
    BY <2>3 DEF allVars, relayVars, lockVars, log
  <2> QED BY <2>1, <2>2, <2>3 DEF RNext
<1> QED BY <1>1, <1>2, BoxInvariant, PTL DEF RSpec, ImplementsMessageBox, Box!Spec
===========================================================================
