---------------------------- MODULE MessageBox ----------------------------
(***************************************************************************)
(* What the agent relay promises about its messages, with every call one   *)
(* atomic step and no lock, files or processes: a message is worked on in  *)
(* turns, a new turn is granted only when there was none or the last one   *)
(* has lapsed, no turn is longer than LeaseTime, and a message that was    *)
(* answered keeps its answer, which is published at most once.             *)
(***************************************************************************)
EXTENDS Naturals

CONSTANTS Messages, LeaseTime

VARIABLES
    box,      \* how far each message is
    turn,     \* number and end of its last turn
    answers,  \* answers published to it
    clock
vars == <<box, turn, answers, clock>>

Answered == {"done", "failed"}

Init ==
    /\ box = [m \in Messages |-> "absent"]
    /\ turn = [m \in Messages |-> [n |-> 0, until |-> 0]]
    /\ answers = [m \in Messages |-> 0]
    /\ clock = 1

Send(m) ==
    /\ box[m] = "absent"
    /\ box' = [box EXCEPT ![m] = "unread"]
    /\ UNCHANGED <<turn, answers, clock>>

Grant(m) ==
    /\ box[m] = "unread" \/ (box[m] = "running" /\ turn[m].until < clock)
    /\ \E t \in 0 .. clock + LeaseTime :
        turn' = [turn EXCEPT ![m] = [n |-> turn[m].n + 1, until |-> t]]
    /\ box' = [box EXCEPT ![m] = "running"]
    /\ UNCHANGED <<answers, clock>>

\* A turn that lapsed may still answer, until another is granted.
Answer(m, a) ==
    /\ box[m] = "running" /\ a \in Answered
    /\ box' = [box EXCEPT ![m] = a]
    /\ UNCHANGED <<turn, answers, clock>>

Publish(m) ==
    /\ box[m] \in Answered /\ answers[m] = 0
    /\ answers' = [answers EXCEPT ![m] = 1]
    /\ UNCHANGED <<box, turn, clock>>

Tick == clock' = clock + 1 /\ UNCHANGED <<box, turn, answers>>

Next ==
    \/ \E m \in Messages :
        Send(m) \/ Grant(m) \/ (\E a \in Answered : Answer(m, a)) \/ Publish(m)
    \/ Tick

Spec == Init /\ [][Next]_vars
===========================================================================
