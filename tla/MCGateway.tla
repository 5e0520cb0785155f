------------------------------ MODULE MCGateway ------------------------------
(* TLC instances of Gateway.                                               *)
EXTENDS Gateway, TLC

Symmetric == Permutations(Tasks) \cup Permutations(Entries)

\* The contents of a slot no one refers to are never read again: whoever
\* takes it as a new slot writes all of it first.
Masked(f) == [e \in Entries |-> IF Fresh(e) THEN {} ELSE {f[e]}]

\* What the next steps depend on.  No action reads a scope, and no step
\* changes only what is left out here, so the states with one Running part
\* have the same fair behaviours.
Running ==
    <<reg, Masked(st), {e \in torn : ~Fresh(e)}, Masked(events), lifecycle,
      topics, kp, cmd, task, fwd, fanouts, todo, pump, shown>>

UsedState == <<Running, scope>>
=============================================================================
