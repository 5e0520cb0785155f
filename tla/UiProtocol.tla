------------------------------ MODULE UiProtocol ------------------------------
(***************************************************************************)
(* The protocol between the desktop UI and the gateway: AppCmd and         *)
(* AppEvent.  Rosters, scores, flags and rendered proposals are left out,  *)
(* an event says which conversation its data belongs to.  ChatMessage,     *)
(* EnteredGroup and the stub LoadHistory are left out: they end in the     *)
(* transcript or are ignored.  GroupCreated, LeaveConversation and         *)
(* ProposalAdded are events nobody sends.                                  *)
(*                                                                         *)
(* A proposal is named by its id alone, as in the UI, and GroupOf gives it *)
(* one group: the ids the library draws are assumed distinct across the    *)
(* groups of a user.                                                       *)
(***************************************************************************)
EXTENDS Naturals, Sequences

CONSTANTS
    Groups, NoGroup,
    Proposals,
    Elections,  \* the proposals that are steward elections
    GroupOf,    \* proposal -> its group
    Phases      \* ConversationState of a live conversation

ASSUME ProtocolAssumption ==
    /\ NoGroup \notin Groups
    /\ Elections \subseteq Proposals /\ GroupOf \in [Proposals -> Groups]
    /\ {"Working", "Freezing"} \subseteq Phases
    /\ Phases \subseteq {"Working", "Freezing", "Selection", "Reelection", "Leaving"}

\* Commands that only read, and so may be repeated.
Queries == {"EnterGroup", "GetStewardStatus", "GetGroupState",
            "GetCurrentEpochProposals", "GetGroupMembers", "GetEpochHistory"}

\* Commands whose success shows in the transcript at most.
Requests == {"SendMessage", "SendBanRequest", "LeaveConversation"}

AppCmd ==
    [c: {"Login", "ListGroups"}]
    \cup [c: {"CreateGroup", "JoinGroup"} \cup Queries \cup Requests, g: Groups]
    \cup [c: {"Vote"}, p: Proposals]

Cmd(c, g) == [c |-> c, g |-> g]

\* What get_group_state may say.
GroupStates == Phases \cup {"PendingJoin"}

\* Events that carry data of one conversation and nothing else that matters.
Refreshes == {"StewardStatus", "GroupEpoch", "CurrentEpochProposals",
              "CurrentEpochProposalsCleared", "GroupMembers", "FreezeCandidates",
              "EpochHistory"}

AppEvent ==
    [e: {"LoggedIn", "Error"}]
    \cup [e: {"Groups"}, items: SUBSET Groups]
    \cup [e: {"GroupRemoved"} \cup Refreshes, g: Groups]
    \cup [e: {"GroupStateChanged"}, g: Groups, state: GroupStates]
    \cup [e: {"VoteRequested", "OwnProposalSubmitted"}, p: Proposals]
    \cup [e: {"ProposalDecided"}, p: Proposals, accepted: BOOLEAN]

Evt(e, g) == [e |-> e, g |-> g]

Failure == [e |-> "Error"]
===============================================================================
