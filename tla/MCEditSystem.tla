--------------------------- MODULE MCEditSystem ---------------------------
(* Small instances of EditSystem: two files, two contents; a tool that     *)
(* writes both files, a command that touches none, and a desktop tool that *)
(* asks for approval itself.                                               *)
EXTENDS EditSystem, TLC

CONSTANTS p, q, x, y, implement, cmd, desk, k1, k2

MCWrites == (implement :> {p, q}) @@ (cmd :> {}) @@ (desk :> {})
MCNamed == (implement :> {p, q}) @@ (cmd :> {}) @@ (desk :> {})
MCFingerprints == Invocations \X {"ask", "deny"}

Both == [f \in Paths |-> x]
Single == (p :> x) @@ (q :> Absent)

Edit(path, has, to) == [path |-> path, has |-> has, to |-> to]

\* Two files; one edit that undoes the other, where only the second is also
\* found in the text as it is; one that the first has to make possible.
MCCandidates ==
    {<<Edit(p, {x}, x :> y), Edit(q, {x}, x :> y)>>,
     <<Edit(p, {x}, x :> y), Edit(p, {x, y}, y :> x)>>,
     <<Edit(p, {x}, x :> y), Edit(p, {y}, y :> x)>>}

Budget(edits, cmds, desks, loops, applies, decisions, commands, ticks) ==
    (implement :> edits) @@ (cmd :> cmds) @@ (desk :> desks)
        @@ (k1 :> IF loops > 0 THEN 1 ELSE 0) @@ (k2 :> IF loops > 1 THEN 1 ELSE 0)
        @@ ("apply" :> applies) @@ ("decision" :> decisions) @@ ("command" :> commands) @@ ("tick" :> ticks)

\* Two calls that race for an approval; a call, a loop and an apply that meet
\* in the project; two applies and what is done by hand; two loops.
MCScenarios ==
    {<<Both, Budget(0, 2, 0, 0, 0, 2, 0, 1)>>, <<Both, Budget(0, 0, 1, 0, 0, 1, 0, 0)>>,
     <<Single, Budget(1, 0, 0, 1, 1, 0, 0, 0)>>, <<Single, Budget(1, 0, 0, 0, 0, 1, 1, 1)>>,
     <<Both, Budget(0, 0, 0, 1, 2, 0, 1, 0)>>, <<Single, Budget(0, 0, 0, 1, 1, 0, 2, 0)>>,
     <<Both, Budget(0, 0, 0, 2, 1, 0, 0, 0)>>}
MCSymmetry == Permutations(Calls) \cup Permutations(Appliers)
===========================================================================
