----------------------------- MODULE MCDesktopUi -----------------------------
(***************************************************************************)
(* DesktopUi with two groups, and in one of them a membership proposal and *)
(* an election.                                                            *)
(***************************************************************************)
EXTENDS DesktopUi

CONSTANTS g1, g2, p1, p2

MCGroups == {g1, g2}
MCProposals == {p1, p2}
MCElections == {p2}
MCGroupOf == [p \in MCProposals |-> g1]
MCPhases == {"Working", "Freezing"}
=============================================================================
