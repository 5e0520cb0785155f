------------------------------- MODULE DesktopUi ------------------------------
(***************************************************************************)
(* The desktop application on top of the bridge: the two pages, the        *)
(* signals they share (GroupsState, ChatState, ConsensusState),            *)
(* the reducer that applies AppEvents and the clicks that send AppCmds.    *)
(*                                                                         *)
(* A signal that holds data of a conversation is modelled by the           *)
(* conversation the data belongs to.  The UI runs on one thread and        *)
(* GATEWAY.send does not suspend: the commands of a click are sent in one  *)
(* step and in order.                                                      *)
(***************************************************************************)
EXTENDS UiBridge, FiniteSets

CONSTANTS
    MaxRecords,  \* MAX_VISIBLE_REJECTED and MAX_VISIBLE_ELECTIONS, 20
    MaxLogins,   \* bound: submissions of the login form
    MaxClicks    \* bound: clicks on the home page

ASSUME DesktopAssumption ==
    /\ MaxRecords \in Nat \ {0}
    /\ MaxLogins \in Nat /\ MaxClicks \in Nat

VARIABLES
    page,    \* the route
    groups,  \* GroupsState
    chat,    \* ChatState: opened group, owner of the member list
    cons,    \* ConsensusState
    logins, clicks

uiVars == <<page, groups, chat, cons, logins, clicks>>
vars == <<bridgeVars, uiVars>>

Owner == Groups \cup {NoGroup}

ConsensusState ==
    [steward: Owner, stateOf: Owner, state: GroupStates \cup {""},
     queue: Owner, history: Owner, epoch: Owner, freeze: Owner,
     votes: SUBSET Proposals, cache: SUBSET Proposals,
     rejected: Seq(Proposals), elections: Seq(Proposals)]

(* Types, with the capacities of the epoch history and of the two lists of *)
(* past decisions.                                                         *)
TypeOK ==
    /\ BridgeTypeOK
    /\ page \in {"login", "home"}
    /\ groups \in [items: SUBSET Groups, loaded: BOOLEAN]
    /\ chat \in [opened: Owner, members: Owner]
    /\ cons \in ConsensusState
    /\ Len(cons.rejected) <= MaxRecords /\ Len(cons.elections) <= MaxRecords
    /\ logins \in 0 .. MaxLogins /\ clicks \in 0 .. MaxClicks

Init ==
    /\ BridgeInit
    /\ page = "login"
    /\ groups = [items |-> {}, loaded |-> FALSE]
    /\ chat = [opened |-> NoGroup, members |-> NoGroup]
    /\ cons = [steward |-> NoGroup, stateOf |-> NoGroup, state |-> "",
               queue |-> NoGroup, history |-> NoGroup, epoch |-> NoGroup,
               freeze |-> NoGroup, votes |-> {}, cache |-> {},
               rejected |-> <<>>, elections |-> <<>>]
    /\ logins = 0 /\ clicks = 0

------------------------------------------------------------------------------
(* The reducer, one action per arm of the event loops.                     *)

\* What the UI may touch of the bridge: the two channels.
restOfBridge == <<loop, todo, answer, user, fwdUser, status, voted, history,
                  convVars>>

Receives(view, kinds) ==
    /\ page = view /\ evts # <<>> /\ Head(evts).e \in kinds
    /\ evts' = Tail(evts)
    /\ UNCHANGED <<restOfBridge, logins, clicks>>

Event == Head(evts)

IsOpened(g) == chat.opened = g

OnLoggedIn ==
    /\ Receives("login", {"LoggedIn"})
    /\ page' = "home"
    /\ IF groups.loaded THEN UNCHANGED cmds ELSE Sends(<<[c |-> "ListGroups"]>>)
    /\ UNCHANGED <<groups, chat, cons>>

\* An alert; the list of alerts is left out.
OnError ==
    /\ Receives(page, {"Error"})
    /\ UNCHANGED <<cmds, page, groups, chat, cons>>

\* Events a page has no arm for.
OnIgnored ==
    /\ evts # <<>> /\ Event.e # "Error" /\ (page = "login") = (Event.e # "LoggedIn")
    /\ Receives(page, {Event.e})
    /\ UNCHANGED <<cmds, page, groups, chat, cons>>

OnGroups ==
    /\ Receives("home", {"Groups"})
    /\ groups' = [items |-> Event.items, loaded |-> TRUE]
    /\ UNCHANGED <<cmds, page, chat, cons>>

\* Mutant: Working asks for the state again.
AfterStateAgain(g, s) ==
    IF s = "Working" THEN <<Cmd("GetGroupState", g)>> ELSE <<>>

\* What a change to Working asks for.
AfterState(g, s) ==
    IF s = "Working" THEN <<Cmd("GetCurrentEpochProposals", g), Cmd("GetGroupMembers", g)>>
    ELSE <<>>

OnGroupStateChanged ==
    /\ Receives("home", {"GroupStateChanged"})
    /\ \/ /\ IsOpened(Event.g)
          /\ cons' = [cons EXCEPT !.state = Event.state, !.stateOf = Event.g,
                          !.freeze = IF Event.state = "Freezing" THEN @ ELSE NoGroup]
          /\ Sends(AfterState(Event.g, Event.state))
       \/ ~IsOpened(Event.g) /\ UNCHANGED <<cmds, cons>>
    /\ UNCHANGED <<page, groups, chat>>

\* The signal an event refreshes.
Refreshed(g) ==
    CASE Event.e = "StewardStatus"         -> [cons EXCEPT !.steward = g]
      [] Event.e = "CurrentEpochProposals" -> [cons EXCEPT !.queue = g]
      [] Event.e = "EpochHistory"          -> [cons EXCEPT !.history = g]
      [] Event.e = "GroupEpoch"            -> [cons EXCEPT !.epoch = g]
      [] Event.e = "FreezeCandidates"      -> [cons EXCEPT !.freeze = g]

OnRefresh ==
    /\ Receives("home", {"StewardStatus", "CurrentEpochProposals", "EpochHistory",
                         "GroupEpoch", "FreezeCandidates"})
    /\ cons' = IF IsOpened(Event.g) THEN Refreshed(Event.g) ELSE cons
    /\ UNCHANGED <<cmds, page, groups, chat>>

\* Mutant: a late answer is taken for one of the opened group.
OnGroupMembersAny ==
    /\ Receives("home", {"GroupMembers"})
    /\ chat' = [chat EXCEPT !.members = Event.g]
    /\ UNCHANGED <<cmds, page, groups, cons>>

OnGroupMembers ==
    /\ Receives("home", {"GroupMembers"})
    /\ chat' = [chat EXCEPT !.members = IF IsOpened(Event.g) THEN Event.g ELSE @]
    /\ UNCHANGED <<cmds, page, groups, cons>>

OnCleared ==
    /\ Receives("home", {"CurrentEpochProposalsCleared"})
    /\ \/ /\ IsOpened(Event.g)
          /\ cons' = [cons EXCEPT !.queue = Event.g]
          /\ Sends(<<Cmd("GetEpochHistory", Event.g), Cmd("GetGroupMembers", Event.g)>>)
       \/ ~IsOpened(Event.g) /\ UNCHANGED <<cmds, cons>>
    /\ UNCHANGED <<page, groups, chat>>

\* Requests of a group that is not open are dropped; so are repeated ones.
OnVoteRequested ==
    /\ Receives("home", {"VoteRequested"})
    /\ cons' = IF IsOpened(GroupOf[Event.p])
               THEN [cons EXCEPT !.cache = @ \cup {Event.p}, !.votes = @ \cup {Event.p}]
               ELSE cons
    /\ UNCHANGED <<cmds, page, groups, chat>>

OnOwnProposalSubmitted ==
    /\ Receives("home", {"OwnProposalSubmitted"})
    /\ cons' = IF IsOpened(GroupOf[Event.p])
               THEN [cons EXCEPT !.cache = @ \cup {Event.p}] ELSE cons
    /\ UNCHANGED <<cmds, page, groups, chat>>

\* A list of past decisions that drops its oldest entry when full.
Recorded(list, p) == Append(IF Len(list) < MaxRecords THEN list ELSE Tail(list), p)

\* The record a decision on the opened group leaves behind, if it is cached.
Filed(p, accepted) ==
    IF ~IsOpened(GroupOf[p]) \/ p \notin cons.cache THEN cons
    ELSE IF p \in Elections
    THEN [cons EXCEPT !.cache = @ \ {p}, !.elections = Recorded(@, p)]
    ELSE [cons EXCEPT !.cache = @ \ {p},
                      !.rejected = IF accepted THEN @ ELSE Recorded(@, p)]

\* Mutant: only a decision on the opened group takes the vote away.
OnProposalDecidedOpened ==
    /\ Receives("home", {"ProposalDecided"})
    /\ cons' = [Filed(Event.p, Event.accepted) EXCEPT
                    !.votes = IF IsOpened(GroupOf[Event.p]) THEN @ \ {Event.p} ELSE @]
    /\ UNCHANGED <<cmds, page, groups, chat>>

OnProposalDecided ==
    /\ Receives("home", {"ProposalDecided"})
    /\ cons' = [Filed(Event.p, Event.accepted) EXCEPT !.votes = @ \ {Event.p}]
    /\ UNCHANGED <<cmds, page, groups, chat>>

OnGroupRemoved ==
    /\ Receives("home", {"GroupRemoved"})
    /\ groups' = [groups EXCEPT !.items = @ \ {Event.g}]
    /\ chat' = IF IsOpened(Event.g) THEN [opened |-> NoGroup, members |-> NoGroup]
               ELSE chat
    /\ UNCHANGED <<cmds, page, cons>>

Reduce ==
    \/ OnLoggedIn \/ OnError \/ OnIgnored
    \/ OnGroups \/ OnGroupStateChanged \/ OnRefresh \/ OnGroupMembers \/ OnCleared
    \/ OnVoteRequested \/ OnOwnProposalSubmitted \/ OnProposalDecided
    \/ OnGroupRemoved

------------------------------------------------------------------------------
(* The user.                                                               *)

Clicks(cs) ==
    /\ page = "home" /\ Room /\ clicks < MaxClicks
    /\ clicks' = clicks + 1
    /\ Sends(cs)
    /\ UNCHANGED <<evts, restOfBridge, page, logins>>

\* The login form: the button stays enabled while a login is under way.
SubmitLogin ==
    /\ page = "login" /\ logins < MaxLogins
    /\ logins' = logins + 1
    /\ Sends(<<[c |-> "Login"]>>)
    /\ UNCHANGED <<evts, restOfBridge, page, groups, chat, cons, clicks>>

\* Mutants: the state, or the history, is not asked for.
OpeningStateless(g) ==
    <<Cmd("GetStewardStatus", g),
      Cmd("GetCurrentEpochProposals", g), Cmd("GetGroupMembers", g),
      Cmd("GetEpochHistory", g)>>

OpeningNoHistory(g) ==
    <<Cmd("EnterGroup", g), Cmd("GetStewardStatus", g),
      Cmd("GetGroupState", g), Cmd("GetCurrentEpochProposals", g),
      Cmd("GetGroupMembers", g)>>

\* The commands open_group sends.
Opening(g) ==
    <<Cmd("EnterGroup", g), Cmd("GetStewardStatus", g),
      Cmd("GetGroupState", g), Cmd("GetCurrentEpochProposals", g),
      Cmd("GetGroupMembers", g), Cmd("GetEpochHistory", g)>>

\* open_group resets the members and the state, and nothing else.
Opens(g) ==
    /\ chat' = [opened |-> g, members |-> NoGroup]
    /\ cons' = [cons EXCEPT !.state = "", !.stateOf = NoGroup]

ClickOpen(g) ==
    /\ g \in groups.items
    /\ Opens(g)
    /\ Clicks(Opening(g))
    /\ UNCHANGED groups

\* The modal: create or join by name, list, and open at once.
modal_submit(g) ==
    /\ \E c \in {"CreateGroup", "JoinGroup"} :
        Clicks(<<Cmd(c, g), [c |-> "ListGroups"]>> \o Opening(g))
    /\ Opens(g)
    /\ UNCHANGED groups

\* One command for the opened group.
Asks(c) ==
    /\ chat.opened # NoGroup
    /\ Clicks(<<Cmd(c, chat.opened)>>)
    /\ UNCHANGED <<groups, chat, cons>>

send_msg ==
    /\ cons.state \notin {"PendingJoin", "Freezing", "Selection"}
    /\ Asks("SendMessage")

open_ban_modal == Asks("GetGroupMembers")

submit_ban_request == Asks("SendBanRequest")

ClickLeave == Asks("LeaveConversation")

\* The banner shows the votes of the opened group.
do_vote(p) ==
    /\ p \in cons.votes /\ IsOpened(GroupOf[p])
    /\ cons' = [cons EXCEPT !.votes = @ \ {p}]
    /\ Clicks(<<[c |-> "Vote", p |-> p]>>)
    /\ UNCHANGED <<groups, chat>>

User ==
    \/ SubmitLogin
    \/ send_msg \/ open_ban_modal \/ submit_ban_request \/ ClickLeave
    \/ \E g \in Groups : ClickOpen(g) \/ modal_submit(g)
    \/ \E p \in Proposals : do_vote(p)

------------------------------------------------------------------------------
Next == (BridgeNext /\ UNCHANGED uiVars) \/ Reduce \/ User

Spec == Init /\ [][Next]_vars

(* The loop and the reducer keep running; users, networks and              *)
(* conversations promise nothing.                                          *)
Fairness ==
    /\ WF_vars(LoopStep /\ UNCHANGED uiVars)
    /\ WF_vars(Reduce)

FairSpec == Spec /\ Fairness

------------------------------------------------------------------------------
\* Nothing is on its way to the UI or to the loop.
Quiet == cmds = <<>> /\ todo = <<>> /\ answer = <<>> /\ evts = <<>>

(* However fast the user switches groups, and whatever answers to the      *)
(* group left behind are still under way: a member list or a state on      *)
(* screen belongs to the opened group.                                     *)
ShownIsOpened ==
    chat.opened # NoGroup =>
        /\ chat.members \in {NoGroup, chat.opened}
        /\ cons.stateOf \in {NoGroup, chat.opened}

(* The approved queue, the steward flag and the history survive a switch,  *)
(* until the answers arrive.  Once nothing is under way they belong to the *)
(* opened group, if that is registered and the loop still answers.         *)
QuietShowsOpened ==
    Quiet /\ loop = "up" /\ chat.opened # NoGroup =>
        /\ cons.history = chat.opened
        /\ Located(chat.opened) # "absent" =>
            cons.steward = chat.opened /\ cons.queue = chat.opened

(* A decided proposal leaves the banner, also when it is decided while     *)
(* another group is open: as long as its vote is offered, its decision is  *)
(* on the way.  (Auto-voted proposals, and those of a left group, stay.)   *)
DecidedLeavesBanner ==
    \A p \in cons.votes : prop[p] = "decided" =>
        \E i \in DOMAIN evts : evts[i].e = "ProposalDecided" /\ evts[i].p = p

(* "Returns up to the last 10 epochs": the history of a group ends with    *)
(* the last batch the fan-out has handled and has no gap.                  *)
HistoryIsLatest ==
    \A g \in Groups : history[g] # <<>> =>
        \A i \in DOMAIN history[g] :
            history[g][i] = commits[g] - Len(history[g]) + i

(* Events make the UI send commands and commands are answered by events:   *)
(* the exchange comes to rest once the user and the conversations do.      *)
UiSettles == <>[]Quiet

(* The opened group's state is shown in the end, unless the group is       *)
(* closed or gone or the loop has ended.                                   *)
OpenedGetsState ==
    \A g \in Groups :
        chat.opened = g ~> \/ chat.opened # g \/ cons.stateOf = g
                           \/ Located(g) = "absent" \/ loop = "dead"

(* "must NOT tear down `ui_loop` -- the UI stays responsive for every      *)
(* other command".                                                         *)
LoopSurvives == loop = "up"
===============================================================================
