------------------------------- MODULE UiBridge -------------------------------
(***************************************************************************)
(* Between the UI and the user: the two unbounded channels of the gateway, *)
(* `ui_loop`, which takes one command at a time and pushes the answers,    *)
(* and the fan-out, which turns the events of the conversations into UI    *)
(* events.                                                                 *)
(*                                                                         *)
(* The loop reads its answer under a lock that it has released by the time *)
(* it pushes, so reading and pushing are two steps and the fan-out may     *)
(* push between them.  The conversations (library de_mls) are external:    *)
(* they change phase, ask for votes, decide, commit and leave at will.     *)
(* An event is handled in the step that emits it: the pump between the two *)
(* is the subject of module Gateway.                                       *)
(***************************************************************************)
EXTENDS UiProtocol

CONSTANTS
    MaxHistory, \* MAX_EPOCH_HISTORY, 10
    MaxNews,    \* bound: steps of the conversations
    MaxBacklog  \* bound: what is under way when a user or a conversation acts

ASSUME BridgeAssumption ==
    MaxHistory \in Nat \ {0} /\ MaxNews \in Nat /\ MaxBacklog \in Nat

VARIABLES
    cmds,    \* the command channel
    evts,    \* the event channel
    loop,    \* ui_loop runs, or has returned an error
    todo,    \* what the command in progress still has to read
    answer,  \* events read and not yet pushed
    user,    \* the logged-in user, 0 for none: the nth successful login
    fwdUser, \* the user the delivery forwarder serves
    status,  \* group -> its slot in the user's registry ("leaving": live, the UI
             \* has been told that it is gone)
    phase,   \* group -> phase of the live conversation
    prop,    \* proposal -> where its consensus session is
    voted,   \* proposals the user has voted on
    commits, \* group -> batches committed
    history, \* group -> epoch_history of the gateway, as batch numbers
    news     \* steps of the conversations so far

loopVars == <<cmds, loop, todo, answer, user, fwdUser>>
convVars == <<phase, prop, commits, news>>
bridgeVars == <<loopVars, evts, status, voted, history, convVars>>

BridgeTypeOK ==
    /\ cmds \in Seq(AppCmd) /\ evts \in Seq(AppEvent)
    /\ loop \in {"up", "dead"}
    /\ todo \in Seq(AppCmd) /\ answer \in Seq(AppEvent)
    /\ user \in Nat /\ fwdUser \in 0 .. user
    /\ status \in [Groups -> {"absent", "pending", "live", "leaving"}]
    /\ phase \in [Groups -> Phases]
    /\ prop \in [Proposals -> {"new", "open", "decided", "gone"}]
    /\ voted \subseteq Proposals
    /\ commits \in [Groups -> Nat]
    /\ history \in [Groups -> Seq(Nat)]
    /\ \A g \in Groups : Len(history[g]) <= MaxHistory
    /\ news \in 0 .. MaxNews

BridgeInit ==
    /\ cmds = <<>> /\ evts = <<>>
    /\ loop = "up" /\ todo = <<>> /\ answer = <<>>
    /\ user = 0 /\ fwdUser = 0
    /\ status = [g \in Groups |-> "absent"]
    /\ phase = [g \in Groups |-> "Working"]
    /\ prop = [p \in Proposals |-> "new"] /\ voted = {}
    /\ commits = [g \in Groups |-> 0]
    /\ history = [g \in Groups |-> <<>>]
    /\ news = 0

\* GATEWAY.send: the channel is closed once the loop has returned, and the UI
\* ignores the error.
Sends(cs) == cmds' = IF loop = "dead" THEN cmds ELSE cmds \o cs

\* The environment acts only while the pipes are short.
Room == Len(cmds) + Len(todo) + Len(answer) + Len(evts) <= MaxBacklog

------------------------------------------------------------------------------
(* The command loop.                                                       *)

\* Registered in the logged-in user's registry, `locate`.
Located(g) == IF user = 0 THEN "absent" ELSE status[g]

\* `lookup_entry` and `live_mut` of the user's operations let the call through.
Reaches(g) == Located(g) \in {"live", "leaving"}

get_group_state(g) == IF Reaches(g) THEN phase[g] ELSE "PendingJoin"

group_list == {g \in Groups : Located(g) # "absent"}

StateChanged(g) == [e |-> "GroupStateChanged", g |-> g, state |-> get_group_state(g)]

\* The event a refresh command is answered with.
AnswerKind == [GetStewardStatus |-> "StewardStatus",
               GetCurrentEpochProposals |-> "CurrentEpochProposals",
               GetGroupMembers |-> "GroupMembers"]

\* A query about a missing group is answered with an error.
OrMissing(g, event) == IF Located(g) = "absent" THEN Failure ELSE event

\* The history is served without a look at the registry.
get_epoch_history(g) == Evt("EpochHistory", g)

\* What is pushed for a query.  EnterGroup says nothing of a missing group.
AnswerTo(q) ==
    CASE q.c = "ListGroups" ->
            <<[e |-> "Groups", items |-> group_list]>>
      [] q.c = "GetEpochHistory" ->
            <<get_epoch_history(q.g)>>
      [] q.c = "EnterGroup" ->
            IF Located(q.g) = "absent" THEN <<>> ELSE <<StateChanged(q.g)>>
      [] q.c = "GetGroupState" ->
            <<OrMissing(q.g, StateChanged(q.g))>>
      [] OTHER ->
            <<OrMissing(q.g, Evt(AnswerKind[q.c], q.g))>>

\* load_member_info of a live conversation may fail in the library, or find
\* the conversation gone when it looks it up again.
AnswersTo(q) ==
    IF q.c = "GetGroupMembers" /\ Reaches(q.g) THEN {AnswerTo(q), <<Failure>>}
    ELSE {AnswerTo(q)}

\* The loop is free and the next command is of one of the given kinds.
NextIs(kinds) ==
    /\ loop = "up" /\ todo = <<>> /\ answer = <<>>
    /\ cmds # <<>> /\ Head(cmds).c \in kinds

Takes(kinds) == NextIs(kinds) /\ cmds' = Tail(cmds)

LoopQuery ==
    /\ Takes(Queries \cup {"ListGroups"})
    /\ answer' \in AnswersTo(Head(cmds))
    /\ UNCHANGED <<evts, loop, todo, user, fwdUser, status, voted, history,
                   convVars>>

\* The follow-up reads of create, join and enter.
LoopRead ==
    /\ loop = "up" /\ answer = <<>> /\ todo # <<>>
    /\ answer' = AnswerTo(Head(todo))
    /\ todo' = Tail(todo)
    /\ UNCHANGED <<cmds, evts, loop, user, fwdUser, status, voted, history,
                   convVars>>

LoopPush ==
    /\ answer # <<>>
    /\ evts' = evts \o answer
    /\ answer' = <<>>
    /\ UNCHANGED <<cmds, loop, todo, user, fwdUser, status, voted, history,
                   convVars>>

\* login_with_private_key: a new user with an empty registry and a pump of its
\* own.  The delivery forwarder is spawned by the first login only.
LoopLogin ==
    /\ Takes({"Login"})
    /\ \/ /\ user' = user + 1
          /\ fwdUser' = IF fwdUser = 0 THEN user + 1 ELSE fwdUser
          /\ status' = [g \in Groups |-> "absent"]
          /\ answer' = <<[e |-> "LoggedIn"]>>
       \/ /\ answer' = <<Failure>>
          /\ UNCHANGED <<user, fwdUser, status>>
    /\ UNCHANGED <<evts, loop, todo, voted, history, convVars>>

\* Create or join: registered, then the list and the state are read.  A join
\* whose key package cannot be sent fails with its slot already registered; a
\* create that fails, in the library too, registers nothing.
LoopRegister ==
    LET g == Head(cmds).g
        creates == Head(cmds).c = "CreateGroup" IN
    /\ Takes({"CreateGroup", "JoinGroup"})
    /\ \/ /\ user # 0 /\ status[g] = "absent"
          /\ status' = [status EXCEPT ![g] = IF creates THEN "live" ELSE "pending"]
          /\ phase' = [phase EXCEPT ![g] = "Working"]
          /\ \/ /\ todo' = <<[c |-> "ListGroups"], Cmd("EnterGroup", g)>>
                /\ UNCHANGED answer
             \/ /\ ~creates
                /\ answer' = <<Failure>>
                /\ UNCHANGED todo
       \/ /\ creates \/ user = 0 \/ status[g] # "absent"
          /\ answer' = <<Failure>>
          /\ UNCHANGED <<status, phase, todo>>
    /\ UNCHANGED <<evts, loop, user, fwdUser, voted, history, prop, commits,
                   news>>

\* Send, ban, leave: the user may refuse, and does so without a live
\* conversation.
LoopRequest ==
    /\ Takes(Requests)
    /\ \/ Reaches(Head(cmds).g) /\ UNCHANGED answer
       \/ answer' = <<Failure>>
    /\ UNCHANGED <<evts, loop, todo, user, fwdUser, status, voted, history,
                   convVars>>

\* The vote is cast, or refused as "already voted" and forgotten.
LoopVote ==
    LET p == Head(cmds).p IN
    /\ Takes({"Vote"})
    /\ Reaches(GroupOf[p]) /\ (prop[p] = "open" \/ p \in voted)
    /\ voted' = voted \cup {p}
    /\ UNCHANGED <<evts, loop, todo, answer, user, fwdUser, status, history,
                   convVars>>

\* Any other error is returned from ui_loop: the receiver is dropped with the
\* commands in it.  The group or the session may be gone, and a vote that was
\* cast but could not be published is an error too.
LoopVoteFails ==
    LET p == Head(cmds).p IN
    /\ NextIs({"Vote"})
    /\ ~(Reaches(GroupOf[p]) /\ prop[p] = "open" /\ p \in voted)
    /\ \/ Reaches(GroupOf[p]) /\ prop[p] = "open" /\ voted' = voted \cup {p}
       \/ UNCHANGED voted
    /\ loop' = "dead"
    /\ cmds' = <<>>
    /\ UNCHANGED <<evts, todo, answer, user, fwdUser, status, history, convVars>>

------------------------------------------------------------------------------
(* The fan-out.                                                            *)

\* The conversation runs: its slot is live.
Runs(g) == status[g] \in {"live", "leaving"}

\* What the two refreshes may push: nothing unless the conversation is live,
\* and not what the library, or a second look-up, does not give.
push_consensus_state(g) ==
    LET queue == Evt("CurrentEpochProposals", g) IN
    IF Runs(g) THEN {<<queue>>, <<queue, Evt("GroupEpoch", g)>>} ELSE {<<>>}

push_member_scores(g) ==
    LET members == Evt("GroupMembers", g) IN
    IF Runs(g) THEN {<<>>, <<members>>, <<members, Evt("StewardStatus", g)>>}
    ELSE {<<>>}

Refresh(g) ==
    {s \o t : s \in push_consensus_state(g), t \in push_member_scores(g)}

\* Mutant: a full history takes no more batches.
HistoryPushUntilFull(h, n) == IF Len(h) >= MaxHistory THEN h ELSE Append(h, n)

\* Mutant: the ring is never emptied.
HistoryPushOnly(h, n) == Append(h, n)

\* pop_front when full, then push_back.
HistoryPush(h, n) == Append(IF Len(h) >= MaxHistory THEN Tail(h) ELSE h, n)

\* GatewayEventFanout::handle, for an event that leaves the history alone.
handle(events) == evts' = evts \o events /\ UNCHANGED history

\* A step of the world outside.
NewsStep == Room /\ news < MaxNews /\ news' = news + 1

\* A step of a conversation that runs, or of a join that waits, external.
ConvStep(g) == Runs(g) /\ NewsStep

JoinStep(g) == status[g] = "pending" /\ NewsStep

PhaseChange(g) ==
    /\ ConvStep(g)
    /\ \E s \in Phases \ {phase[g]} :
        /\ phase' = [phase EXCEPT ![g] = s]
        /\ handle(<<[e |-> "GroupStateChanged", g |-> g, state |-> s]>>)
    /\ UNCHANGED <<loopVars, status, voted, prop, commits>>

\* Another member's proposal asks for a vote and empties the UI's queue.
VoteRequested(p) ==
    /\ ConvStep(GroupOf[p]) /\ prop[p] = "new"
    /\ prop' = [prop EXCEPT ![p] = "open"]
    /\ handle(<<[e |-> "VoteRequested", p |-> p],
                Evt("CurrentEpochProposalsCleared", GroupOf[p])>>)
    /\ UNCHANGED <<loopVars, status, voted, phase, commits>>

\* The user's own proposal, sent with its vote.
OwnProposalSubmitted(p) ==
    /\ ConvStep(GroupOf[p]) /\ prop[p] = "new"
    /\ prop' = [prop EXCEPT ![p] = "open"]
    /\ voted' = voted \cup {p}
    /\ handle(<<[e |-> "OwnProposalSubmitted", p |-> p]>>)
    /\ UNCHANGED <<loopVars, status, phase, commits>>

\* The auto-vote timer of the user's own conversation; no event.
AutoVote(p) ==
    /\ ConvStep(GroupOf[p]) /\ prop[p] = "open" /\ p \notin voted
    /\ voted' = voted \cup {p}
    /\ UNCHANGED <<evts, loopVars, status, history, phase, prop, commits>>

ConsensusReached(p) ==
    /\ ConvStep(GroupOf[p]) /\ prop[p] = "open"
    /\ prop' = [prop EXCEPT ![p] = "decided"]
    /\ \E approved \in BOOLEAN, r \in Refresh(GroupOf[p]) :
        handle(<<[e |-> "ProposalDecided", p |-> p, accepted |-> approved]>> \o r)
    /\ UNCHANGED <<loopVars, status, voted, phase, commits>>

\* A non-empty batch; an empty one is ignored.
CommitApplied(g) ==
    /\ ConvStep(g)
    /\ commits' = [commits EXCEPT ![g] = @ + 1]
    /\ history' = [history EXCEPT ![g] = HistoryPush(@, commits[g] + 1)]
    /\ evts' = Append(evts, Evt("EpochHistory", g))
    /\ UNCHANGED <<loopVars, status, voted, phase, prop>>

CommitRoundProgress(g) ==
    /\ ConvStep(g) /\ phase[g] = "Freezing"
    /\ handle(<<Evt("FreezeCandidates", g)>>)
    /\ UNCHANGED <<loopVars, status, voted, phase, prop, commits>>

\* An Error event of the conversation.
Trouble(g) ==
    /\ ConvStep(g)
    /\ handle(<<Failure>>)
    /\ UNCHANGED <<loopVars, status, voted, phase, prop, commits>>

\* An alert as well.
RecoveryExhausted(g) == Trouble(g)

\* Leaving is handled: the UI is told and the history forgotten.
Forgotten(g) ==
    /\ history' = [history EXCEPT ![g] = <<>>]
    /\ evts' = Append(evts, Evt("GroupRemoved", g))

\* The pump handles Leaving while the slot is still registered.
Leaving(g) ==
    /\ ConvStep(g) /\ status[g] = "live"
    /\ status' = [status EXCEPT ![g] = "leaving"]
    /\ Forgotten(g)
    /\ UNCHANGED <<loopVars, voted, phase, prop, commits>>

\* finalize_self_leave drops the slot.  If Leaving is not handled yet, the pump
\* has it in hand, or has come too late and it is lost.
Evicted(g) ==
    /\ ConvStep(g)
    /\ status' = [status EXCEPT ![g] = "absent"]
    /\ prop' = [p \in Proposals |-> IF GroupOf[p] = g /\ prop[p] # "new"
                                    THEN "gone" ELSE prop[p]]
    /\ \/ status[g] = "live" /\ Forgotten(g)
       \/ UNCHANGED <<evts, history>>
    /\ UNCHANGED <<loopVars, voted, phase, commits>>

\* The forwarder hands a welcome to its user, which completes the join; the
\* library may report the phase.  (A welcome for a join that was given up is in
\* Gateway.)
Welcome(g) ==
    /\ JoinStep(g) /\ fwdUser = user
    /\ status' = [status EXCEPT ![g] = "live"]
    /\ \/ handle(<<[e |-> "GroupStateChanged", g |-> g, state |-> "Working"]>>)
       \/ handle(<<>>)
    /\ UNCHANGED <<loopVars, voted, phase, prop, commits>>

\* The waiting task gives up and drops the pending slot.
Abandon(g) ==
    /\ JoinStep(g)
    /\ status' = [status EXCEPT ![g] = "absent"]
    /\ UNCHANGED <<evts, loopVars, voted, history, phase, prop, commits>>

\* The forwarder has handled a packet of a conversation of its user.
Inbound(g) ==
    /\ ConvStep(g) /\ fwdUser = user
    /\ \E r \in Refresh(g) : handle(r)
    /\ UNCHANGED <<loopVars, status, voted, phase, prop, commits>>

------------------------------------------------------------------------------
LoopStep ==
    \/ LoopQuery \/ LoopRead \/ LoopPush
    \/ LoopLogin \/ LoopRegister \/ LoopRequest \/ LoopVote \/ LoopVoteFails

Conversations ==
    \/ \E g \in Groups :
        \/ PhaseChange(g) \/ CommitApplied(g) \/ CommitRoundProgress(g)
        \/ Trouble(g) \/ RecoveryExhausted(g)
        \/ Leaving(g) \/ Evicted(g) \/ Welcome(g) \/ Abandon(g) \/ Inbound(g)
    \/ \E p \in Proposals :
        \/ VoteRequested(p) \/ OwnProposalSubmitted(p) \/ AutoVote(p)
        \/ ConsensusReached(p)

BridgeNext == LoopStep \/ Conversations
===============================================================================
