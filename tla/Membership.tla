----------------------------- MODULE Membership -----------------------------
(***************************************************************************)
(* What the conversation registry promises, one conversation at a time: a  *)
(* conversation is joined or created, then it is a member's until the      *)
(* library has torn it down, and only then does its name become free.  A   *)
(* join that got no welcome may be given up; a membership never is.        *)
(***************************************************************************)
CONSTANT Convs

VARIABLE status  \* conversation -> one of Statuses

Statuses == {"absent", "joining", "member", "departed"}

Init == status = [c \in Convs |-> "absent"]

Moves(c, from, to) ==
    /\ status[c] \in from
    /\ status' = [status EXCEPT ![c] = to]

Join(c) == Moves(c, {"absent"}, "joining")

GiveUp(c) == Moves(c, {"joining"}, "absent")

\* A conversation is created, or a welcome arrives, invited or late.
Enter(c) == Moves(c, {"absent", "joining"}, "member")

Depart(c) == Moves(c, {"member"}, "departed")

Forget(c) == Moves(c, {"departed"}, "absent")

Next ==
    \E c \in Convs :
        Join(c) \/ GiveUp(c) \/ Enter(c) \/ Depart(c) \/ Forget(c)

Spec == Init /\ [][Next]_status
=============================================================================
