-------------------------- MODULE DesktopUi_proofs --------------------------
(***************************************************************************)
(* Proofs about DesktopUi on top of UiBridge, for any groups and           *)
(* proposals, any capacities and any number of steps of the user and of    *)
(* the conversations.                                                      *)
(*                                                                         *)
(* The two channels are unbounded, so the arguments are about what is in   *)
(* them: an element is under way (Meets), and every element of one kind is *)
(* followed by one of another (Followed).                                  *)
(***************************************************************************)
EXTENDS DesktopUi, SequenceTheorems, TLAPS

\* Some element of s is in Y.
Meets(s, Y) == \E i \in DOMAIN s : s[i] \in Y

\* Every element of s in X has one in Y behind it.
Followed(s, X, Y) ==
    \A i \in DOMAIN s : s[i] \in X => \E j \in DOMAIN s : i < j /\ s[j] \in Y

\* Events and commands of one kind, about one group or proposal.
Tells(kind, g) == {x \in AppEvent : x.e = kind /\ x.g = g}
Asking(p) == {x \in AppEvent : x.e = "VoteRequested" /\ x.p = p}
Deciding(p) == {x \in AppEvent : x.e = "ProposalDecided" /\ x.p = p}
Reads(kind, g) == {q \in AppCmd : q.c = kind /\ q.g = g}
Registers(g) == {q \in AppCmd : q.c \in {"CreateGroup", "JoinGroup"} /\ q.g = g}

\* Types; a command in progress has only reads left.
Reading == {q \in AppCmd : q.c \in Queries \cup {"ListGroups"}}

BridgeInv == BridgeTypeOK /\ todo \in Seq(Reading)

TypeInv == TypeOK /\ todo \in Seq(Reading)

\* The login page comes before everything else.
LoginInv == page = "login" => chat.opened = NoGroup /\ cons.votes = {}

\* A vote can be asked for once the session is open, and a decision is behind
\* the request in the channel.
VoteInv ==
    \A p \in Proposals :
        /\ ~Meets(answer, Asking(p))
        /\ prop[p] = "new" => p \notin cons.votes /\ ~Meets(evts, Asking(p))
        /\ prop[p] = "decided" =>
            /\ Followed(evts, Asking(p), Deciding(p))
            /\ p \in cons.votes => Meets(evts, Deciding(p))

\* The answer to a read of g is under way to the UI, or the read to the loop.
UnderWay(read, kind, g) ==
    Meets(evts, Tells(kind, g)) \/ Meets(answer, Tells(kind, g)) \/ Meets(cmds, Reads(read, g))

\* A registration is sent with the reads of what it registers.
ReadInv ==
    \A g \in Groups :
        /\ Followed(cmds, Registers(g), Reads("GetStewardStatus", g))
        /\ Followed(cmds, Registers(g), Reads("GetCurrentEpochProposals", g))

\* What the UI does not hold of the opened group is under way.
HistoryFresh(g) == cons.history = g \/ UnderWay("GetEpochHistory", "EpochHistory", g)
StewardFresh(g) == cons.steward = g \/ UnderWay("GetStewardStatus", "StewardStatus", g)
QueueFresh(g) ==
    cons.queue = g \/ UnderWay("GetCurrentEpochProposals", "CurrentEpochProposals", g)

FreshInv ==
    loop = "up" => \A g \in Groups : chat.opened = g =>
        /\ HistoryFresh(g)
        /\ Located(g) # "absent" => StewardFresh(g) /\ QueueFresh(g)

------------------------------------------------------------------------------
(* Channels.                                                               *)

(* What is in a channel after something was sent.                          *)
LEMMA MeetsConcat ==
    ASSUME NEW S, NEW s \in Seq(S), NEW t \in Seq(S), NEW Y
    PROVE  Meets(s \o t, Y) <=> Meets(s, Y) \/ Meets(t, Y)
<1> DEFINE u == s \o t
<1>1. /\ u \in Seq(S) /\ Len(u) = Len(s) + Len(t)
      /\ \A i \in 1 .. Len(s) : u[i] = s[i]
      /\ \A i \in 1 .. Len(t) : u[Len(s) + i] = t[i]
  BY ConcatProperties
<1>2. Len(s) \in Nat /\ Len(t) \in Nat /\ DOMAIN s = 1 .. Len(s)
      /\ DOMAIN t = 1 .. Len(t) /\ DOMAIN u = 1 .. Len(u)
  BY <1>1
<1> HIDE DEF u
<1>3. ASSUME NEW i \in DOMAIN u, u[i] \in Y PROVE Meets(s, Y) \/ Meets(t, Y)
  <2>1. CASE i <= Len(s)
    BY <1>1, <1>2, <1>3, <2>1 DEF Meets
  <2>2. CASE i > Len(s)
    <3>1. i - Len(s) \in 1 .. Len(t) /\ Len(s) + (i - Len(s)) = i
      BY <1>1, <1>2, <2>2
    <3>2. t[i - Len(s)] = u[i]
      BY <1>1, <3>1
    <3> QED BY <1>2, <1>3, <3>1, <3>2 DEF Meets
  <2> QED BY <1>1, <1>2, <2>1, <2>2
<1>4. ASSUME Meets(s, Y) PROVE Meets(u, Y)
  BY <1>1, <1>2, <1>4 DEF Meets
<1>5. ASSUME NEW i \in DOMAIN t, t[i] \in Y PROVE Meets(u, Y)
  <2>1. Len(s) + i \in DOMAIN u /\ u[Len(s) + i] = t[i]
    BY <1>1, <1>2
  <2> QED BY <1>5, <2>1 DEF Meets
<1> QED BY <1>3, <1>4, <1>5 DEF Meets, u

(* What is in a channel after its head was taken.                          *)
LEMMA MeetsTail ==
    ASSUME NEW S, NEW s \in Seq(S), s # <<>>, NEW Y
    PROVE  Meets(s, Y) <=> Head(s) \in Y \/ Meets(Tail(s), Y)
<1> DEFINE u == Tail(s)
<1>1. /\ u \in Seq(S) /\ Len(u) = Len(s) - 1 /\ Head(s) = s[1]
      /\ \A i \in 1 .. Len(u) : u[i] = s[i + 1]
  BY HeadTailProperties
<1>2. /\ Len(s) \in Nat \ {0} /\ DOMAIN s = 1 .. Len(s) /\ DOMAIN u = 1 .. Len(u)
  BY <1>1
<1> HIDE DEF u
<1>3. ASSUME NEW i \in DOMAIN s, s[i] \in Y PROVE Head(s) \in Y \/ Meets(u, Y)
  <2>1. CASE i = 1
    BY <1>1, <1>3, <2>1
  <2>2. CASE i # 1
    <3>1. i - 1 \in 1 .. Len(u) /\ (i - 1) + 1 = i
      BY <1>1, <1>2, <2>2
    <3>2. u[i - 1] = s[i]
      BY <1>1, <3>1
    <3> QED BY <1>2, <1>3, <3>1, <3>2 DEF Meets
  <2> QED BY <2>1, <2>2
<1>4. ASSUME NEW i \in DOMAIN u, u[i] \in Y PROVE Meets(s, Y)
  <2>1. i + 1 \in DOMAIN s /\ s[i + 1] = u[i]
    BY <1>1, <1>2
  <2> QED BY <1>4, <2>1 DEF Meets
<1>5. ASSUME Head(s) \in Y PROVE Meets(s, Y)
  BY <1>1, <1>2, <1>5 DEF Meets
<1> QED BY <1>3, <1>4, <1>5 DEF Meets, u

(* Two channels in which all that matters is followed, one after another.  *)
LEMMA FollowedConcat ==
    ASSUME NEW S, NEW s \in Seq(S), NEW t \in Seq(S), NEW X, NEW Y,
           Followed(s, X, Y) \/ Meets(t, Y), Followed(t, X, Y)
    PROVE  Followed(s \o t, X, Y)
<1> DEFINE u == s \o t
<1>1. /\ u \in Seq(S) /\ Len(u) = Len(s) + Len(t)
      /\ \A i \in 1 .. Len(s) : u[i] = s[i]
      /\ \A i \in 1 .. Len(t) : u[Len(s) + i] = t[i]
  BY ConcatProperties
<1>2. Len(s) \in Nat /\ Len(t) \in Nat /\ DOMAIN s = 1 .. Len(s)
      /\ DOMAIN t = 1 .. Len(t) /\ DOMAIN u = 1 .. Len(u)
  BY <1>1
<1> HIDE DEF u
<1> SUFFICES ASSUME NEW i \in DOMAIN u, u[i] \in X
             PROVE  \E j \in DOMAIN u : i < j /\ u[j] \in Y
  BY DEF Followed, u
<1>3. CASE i <= Len(s) /\ Meets(t, Y)
  <2>1. PICK k \in DOMAIN t : t[k] \in Y
    BY <1>3 DEF Meets
  <2>2. Len(s) + k \in DOMAIN u /\ u[Len(s) + k] = t[k] /\ i < Len(s) + k
    BY <1>1, <1>2, <1>3
  <2> QED BY <2>1, <2>2
<1>4. CASE i <= Len(s) /\ Followed(s, X, Y)
  <2>1. i \in DOMAIN s /\ s[i] \in X
    BY <1>1, <1>2, <1>4
  <2>2. PICK j \in DOMAIN s : i < j /\ s[j] \in Y
    BY <1>4, <2>1 DEF Followed
  <2>3. j \in DOMAIN u /\ u[j] = s[j]
    BY <1>1, <1>2
  <2> QED BY <2>2, <2>3
<1>5. CASE i > Len(s)
  <2>1. i - Len(s) \in DOMAIN t /\ Len(s) + (i - Len(s)) = i
    BY <1>1, <1>2, <1>5
  <2>2. t[i - Len(s)] \in X
    BY <1>1, <1>2, <2>1
  <2>3. PICK j \in DOMAIN t : i - Len(s) < j /\ t[j] \in Y
    BY <2>1, <2>2 DEF Followed
  <2>4. Len(s) + j \in DOMAIN u /\ u[Len(s) + j] = t[j] /\ i < Len(s) + j
    BY <1>1, <1>2, <2>3
  <2> QED BY <2>3, <2>4
<1> QED BY <1>1, <1>2, <1>3, <1>4, <1>5

(* The head is taken: what followed it is still there.                     *)
LEMMA FollowedTail ==
    ASSUME NEW S, NEW s \in Seq(S), s # <<>>, NEW X, NEW Y, Followed(s, X, Y)
    PROVE  Followed(Tail(s), X, Y) /\ (Head(s) \in X => Meets(Tail(s), Y))
<1> DEFINE u == Tail(s)
<1>1. /\ u \in Seq(S) /\ Len(u) = Len(s) - 1 /\ Head(s) = s[1]
      /\ \A i \in 1 .. Len(u) : u[i] = s[i + 1]
  BY HeadTailProperties
<1>2. /\ Len(s) \in Nat \ {0} /\ DOMAIN s = 1 .. Len(s) /\ DOMAIN u = 1 .. Len(u)
  BY <1>1
<1> HIDE DEF u
<1>3. ASSUME NEW i \in DOMAIN s, s[i] \in X
      PROVE  \E j \in DOMAIN u : i - 1 < j /\ u[j] \in Y
  <2>1. PICK j \in DOMAIN s : i < j /\ s[j] \in Y
    BY <1>3 DEF Followed
  <2>2. j - 1 \in 1 .. Len(u) /\ (j - 1) + 1 = j /\ i - 1 < j - 1
    BY <1>1, <1>2, <2>1
  <2>3. u[j - 1] = s[j]
    BY <1>1, <2>2
  <2> QED BY <1>2, <2>1, <2>2, <2>3
<1>4. ASSUME NEW i \in DOMAIN u, u[i] \in X
      PROVE  \E j \in DOMAIN u : i < j /\ u[j] \in Y
  <2>1. i + 1 \in DOMAIN s /\ s[i + 1] = u[i] /\ (i + 1) - 1 = i
    BY <1>1, <1>2
  <2> QED BY <1>3, <1>4, <2>1
<1>5. Followed(u, X, Y)
  BY <1>4 DEF Followed
<1>6. Head(s) \in X => Meets(u, Y)
  BY <1>1, <1>2, <1>3 DEF Meets
<1> QED BY <1>5, <1>6 DEF u

(* Nothing in the channel has to be followed.                              *)
LEMMA FollowedNothing ==
    ASSUME NEW s, NEW X, NEW Y, ~Meets(s, X)
    PROVE  Followed(s, X, Y)
BY DEF Meets, Followed

(* Short sequences.                                                        *)
LEMMA MeetsNone ==
    ASSUME NEW Y PROVE ~Meets(<<>>, Y)
BY DEF Meets

(* Their types.                                                            *)
LEMMA ShortSeq ==
    ASSUME NEW S, NEW a \in S, NEW b \in S
    PROVE  <<>> \in Seq(S) /\ <<a>> \in Seq(S) /\ <<a, b>> \in Seq(S)
OBVIOUS

(* One element.                                                            *)
LEMMA MeetsOne ==
    ASSUME NEW a, NEW Y PROVE Meets(<<a>>, Y) <=> a \in Y
BY DEF Meets

(* Two elements.                                                           *)
LEMMA MeetsTwo ==
    ASSUME NEW a, NEW b, NEW Y PROVE Meets(<<a, b>>, Y) <=> a \in Y \/ b \in Y
BY DEF Meets

------------------------------------------------------------------------------
(* Commands and events.                                                    *)

(* The fields a command has.                                               *)
LEMMA CmdFields ==
    ASSUME NEW q \in AppCmd
    PROVE  /\ q.c \in {"CreateGroup", "JoinGroup"} \cup Queries \cup Requests
              => q.g \in Groups
           /\ q.c = "Vote" => q.p \in Proposals
<1>1. CASE q \in [c: {"Login", "ListGroups"}]
  BY <1>1 DEF Queries, Requests
<1>2. CASE q \in [c: {"CreateGroup", "JoinGroup"} \cup Queries \cup Requests, g: Groups]
  BY <1>2 DEF Queries, Requests
<1>3. CASE q \in [c: {"Vote"}, p: Proposals]
  BY <1>3 DEF Queries, Requests
<1> QED BY <1>1, <1>2, <1>3 DEF AppCmd

(* A command about a group.                                                *)
LEMMA CmdType ==
    /\ \A g \in Groups, c \in {"CreateGroup", "JoinGroup"} \cup Queries \cup Requests :
        Cmd(c, g) \in AppCmd /\ Cmd(c, g).c = c /\ Cmd(c, g).g = g
    /\ [c |-> "ListGroups"] \in AppCmd /\ [c |-> "Login"] \in AppCmd
    /\ \A p \in Proposals : [c |-> "Vote", p |-> p] \in AppCmd
BY DEF AppCmd, Cmd

(* The fields an event has.                                                *)
LEMMA EventFields ==
    ASSUME NEW x \in AppEvent
    PROVE  /\ x.e = "Groups" => x.items \in SUBSET Groups
           /\ x.e \in {"GroupRemoved", "GroupStateChanged"} \cup Refreshes => x.g \in Groups
           /\ x.e = "GroupStateChanged" => x.state \in GroupStates
           /\ x.e \in {"VoteRequested", "OwnProposalSubmitted", "ProposalDecided"}
              => x.p \in Proposals
<1>1. CASE x \in [e: {"LoggedIn", "Error"}]
  BY <1>1 DEF Refreshes
<1>2. CASE x \in [e: {"Groups"}, items: SUBSET Groups]
  BY <1>2 DEF Refreshes
<1>3. CASE x \in [e: {"GroupRemoved"} \cup Refreshes, g: Groups]
  BY <1>3 DEF Refreshes
<1>4. CASE x \in [e: {"GroupStateChanged"}, g: Groups, state: GroupStates]
  BY <1>4 DEF Refreshes
<1>5. CASE x \in [e: {"VoteRequested", "OwnProposalSubmitted"}, p: Proposals]
  BY <1>5 DEF Refreshes
<1>6. CASE x \in [e: {"ProposalDecided"}, p: Proposals, accepted: BOOLEAN]
  BY <1>6 DEF Refreshes
<1> QED BY <1>1, <1>2, <1>3, <1>4, <1>5, <1>6 DEF AppEvent

(* The events that are pushed.                                             *)
LEMMA EventType ==
    /\ \A g \in Groups, e \in {"GroupRemoved"} \cup Refreshes :
        Evt(e, g) \in AppEvent /\ Evt(e, g).e = e /\ Evt(e, g).g = g
    /\ Failure \in AppEvent /\ Failure.e = "Error"
    /\ [e |-> "LoggedIn"] \in AppEvent
    /\ \A I \in SUBSET Groups : [e |-> "Groups", items |-> I] \in AppEvent
    /\ \A g \in Groups, t \in GroupStates :
        [e |-> "GroupStateChanged", g |-> g, state |-> t] \in AppEvent
    /\ \A p \in Proposals, k \in {"VoteRequested", "OwnProposalSubmitted"} :
        [e |-> k, p |-> p] \in AppEvent
    /\ \A p \in Proposals, a \in BOOLEAN :
        [e |-> "ProposalDecided", p |-> p, accepted |-> a] \in AppEvent
BY DEF AppEvent, Evt, Failure

(* What the loop answers, and what it tells of the group it was asked for. *)
LEMMA AnswerType ==
    ASSUME BridgeTypeOK, NEW q \in AppCmd, q.c \in Queries \cup {"ListGroups"}
    PROVE  /\ AnswerTo(q) \in Seq(AppEvent)
           /\ \A p \in Proposals : ~Meets(AnswerTo(q), Asking(p))
           /\ q.c = "GetEpochHistory" => Meets(AnswerTo(q), Tells("EpochHistory", q.g))
           /\ q.c = "GetStewardStatus" /\ Located(q.g) # "absent"
              => Meets(AnswerTo(q), Tells("StewardStatus", q.g))
           /\ q.c = "GetCurrentEpochProposals" /\ Located(q.g) # "absent"
              => Meets(AnswerTo(q), Tells("CurrentEpochProposals", q.g))
<1>1. q.c \in Queries => q.g \in Groups
  BY CmdFields
<1>2. get_group_state(q.g) \in GroupStates \/ q.g \notin Groups
  BY DEF BridgeTypeOK, get_group_state, GroupStates, Reaches
<1>3. CASE q.c = "ListGroups"
  <2>1. AnswerTo(q) = <<[e |-> "Groups", items |-> group_list]>>
    BY <1>3 DEF AnswerTo
  <2>2. [e |-> "Groups", items |-> group_list] \in AppEvent
    BY EventType DEF group_list
  <2>3. \A p : [e |-> "Groups", items |-> group_list] \notin Asking(p)
    BY DEF Asking
  <2>4. \A p : ~Meets(AnswerTo(q), Asking(p))
    BY <2>1, <2>3, MeetsOne
  <2>5. AnswerTo(q) \in Seq(AppEvent)
    BY <2>1, <2>2
  <2> QED BY <1>3, <2>4, <2>5
<1>4. CASE q.c = "GetEpochHistory"
  <2>1. AnswerTo(q) = <<Evt("EpochHistory", q.g)>>
    BY <1>4 DEF AnswerTo, get_epoch_history
  <2>2. /\ Evt("EpochHistory", q.g) \in AppEvent
        /\ Evt("EpochHistory", q.g).e = "EpochHistory" /\ Evt("EpochHistory", q.g).g = q.g
    BY <1>1, <1>4, EventType DEF Queries, Refreshes
  <2>3. \A p : Evt("EpochHistory", q.g) \notin Asking(p)
    BY <2>2 DEF Asking
  <2>4. Evt("EpochHistory", q.g) \in Tells("EpochHistory", q.g)
    BY <2>2 DEF Tells
  <2>5. \A p : ~Meets(AnswerTo(q), Asking(p))
    BY <2>1, <2>3, MeetsOne
  <2>6. AnswerTo(q) \in Seq(AppEvent)
    BY <2>1, <2>2
  <2>7. Meets(AnswerTo(q), Tells("EpochHistory", q.g))
    BY <2>1, <2>4, MeetsOne
  <2> QED BY <1>4, <2>5, <2>6, <2>7
<1>5. CASE q.c \in {"EnterGroup", "GetGroupState"}
  <2>1. AnswerTo(q) \in {<<>>, <<StateChanged(q.g)>>, <<Failure>>}
    BY <1>5 DEF AnswerTo, OrMissing
  <2>2. StateChanged(q.g) \in AppEvent /\ StateChanged(q.g).e = "GroupStateChanged"
    BY <1>1, <1>2, <1>5, EventType DEF StateChanged, Queries
  <2>3. \A p : StateChanged(q.g) \notin Asking(p) /\ Failure \notin Asking(p)
    BY <2>2, EventType DEF Asking
  <2>4. Failure \in AppEvent
    BY EventType
  <2>5. \A p : ~Meets(AnswerTo(q), Asking(p))
    BY <2>1, <2>3, MeetsOne, MeetsNone
  <2>6. AnswerTo(q) \in Seq(AppEvent)
    BY <2>1, <2>2, <2>4, ShortSeq
  <2> QED BY <1>5, <2>5, <2>6
<1>6. CASE q.c \in {"GetStewardStatus", "GetCurrentEpochProposals", "GetGroupMembers"}
  <2> DEFINE x == Evt(AnswerKind[q.c], q.g)
  <2>1. AnswerTo(q) = <<OrMissing(q.g, x)>>
    BY <1>6 DEF AnswerTo
  <2>2. AnswerKind[q.c] \in {"StewardStatus", "CurrentEpochProposals", "GroupMembers"}
        /\ (q.c = "GetStewardStatus" => AnswerKind[q.c] = "StewardStatus")
        /\ (q.c = "GetCurrentEpochProposals" => AnswerKind[q.c] = "CurrentEpochProposals")
    BY <1>6 DEF AnswerKind
  <2>3. x \in AppEvent /\ x.e = AnswerKind[q.c] /\ x.g = q.g
    BY <1>1, <1>6, <2>2, EventType DEF Queries, Refreshes
  <2> HIDE DEF x
  <2>4. Failure \in AppEvent /\ \A p : x \notin Asking(p) /\ Failure \notin Asking(p)
    BY <2>2, <2>3, EventType DEF Asking
  <2>5. x \in Tells(AnswerKind[q.c], q.g)
    BY <2>3 DEF Tells
  <2>6. AnswerTo(q) \in {<<x>>, <<Failure>>}
        /\ (Located(q.g) # "absent" => AnswerTo(q) = <<x>>)
    BY <2>1 DEF OrMissing
  <2>7. \A p : ~Meets(AnswerTo(q), Asking(p))
    BY <2>4, <2>6, MeetsOne
  <2>8. AnswerTo(q) \in Seq(AppEvent)
    BY <2>3, <2>4, <2>6, ShortSeq
  <2>9. Located(q.g) # "absent" => Meets(AnswerTo(q), Tells(AnswerKind[q.c], q.g))
    BY <2>5, <2>6, MeetsOne
  <2> QED BY <1>6, <2>2, <2>7, <2>8, <2>9
<1> QED BY <1>3, <1>4, <1>5, <1>6 DEF Queries

(* The same of an answer that may be an error instead.                     *)
LEMMA AnswersType ==
    ASSUME BridgeTypeOK, NEW q \in AppCmd, q.c \in Queries \cup {"ListGroups"},
           NEW a \in AnswersTo(q)
    PROVE  /\ a \in Seq(AppEvent)
           /\ \A p \in Proposals : ~Meets(a, Asking(p))
           /\ q.c = "GetEpochHistory" => Meets(a, Tells("EpochHistory", q.g))
           /\ q.c = "GetStewardStatus" /\ Located(q.g) # "absent"
              => Meets(a, Tells("StewardStatus", q.g))
           /\ q.c = "GetCurrentEpochProposals" /\ Located(q.g) # "absent"
              => Meets(a, Tells("CurrentEpochProposals", q.g))
<1>1. a = AnswerTo(q) \/ (q.c = "GetGroupMembers" /\ a = <<Failure>>)
  BY DEF AnswersTo
<1>2. CASE a = AnswerTo(q)
  BY <1>2, AnswerType
<1>3. CASE q.c = "GetGroupMembers" /\ a = <<Failure>>
  <2>1. Failure \in AppEvent /\ \A p : Failure \notin Asking(p)
    BY EventType DEF Asking
  <2>2. a \in Seq(AppEvent) /\ \A p : ~Meets(a, Asking(p))
    BY <1>3, <2>1, ShortSeq, MeetsOne
  <2> QED BY <1>3, <2>2
<1> QED BY <1>1, <1>2, <1>3

(* What the fan-out may push after a change.                               *)
LEMMA RefreshType ==
    ASSUME NEW g \in Groups, NEW r \in Refresh(g)
    PROVE  r \in Seq(AppEvent) /\ \A p : ~Meets(r, Asking(p))
<1>1. PICK s \in push_consensus_state(g), t \in push_member_scores(g) : r = s \o t
  BY DEF Refresh
<1>2. /\ s \in Seq(AppEvent) /\ t \in Seq(AppEvent)
      /\ \A p : ~Meets(s, Asking(p))
      /\ \A p : ~Meets(t, Asking(p))
  <2> DEFINE a == Evt("CurrentEpochProposals", g)
             b == Evt("GroupEpoch", g)
             c == Evt("GroupMembers", g)
             d == Evt("StewardStatus", g)
  <2>1. a \in AppEvent /\ b \in AppEvent /\ c \in AppEvent /\ d \in AppEvent
    BY EventType DEF Refreshes
  <2>2. \A p : a \notin Asking(p) /\ b \notin Asking(p) /\ c \notin Asking(p) /\ d \notin Asking(p)
    BY DEF Asking, Evt
  <2>3. s \in {<<>>, <<a>>, <<a, b>>} /\ t \in {<<>>, <<c>>, <<c, d>>}
    BY <1>1 DEF push_consensus_state, push_member_scores
  <2> HIDE DEF a, b, c, d
  <2>4. s \in Seq(AppEvent) /\ t \in Seq(AppEvent)
    BY <2>1, <2>3, ShortSeq
  <2>5. \A p : ~Meets(s, Asking(p))
    BY <2>2, <2>3, MeetsOne, MeetsTwo, MeetsNone
  <2>6. \A p : ~Meets(t, Asking(p))
    BY <2>2, <2>3, MeetsOne, MeetsTwo, MeetsNone
  <2> QED BY <2>4, <2>5, <2>6
<1> QED BY <1>1, <1>2, MeetsConcat, ConcatProperties

------------------------------------------------------------------------------
(* Types.                                                                  *)

(* The ring of past batches after one more, with the numbers it holds.     *)
LEMMA HistoryPushed ==
    ASSUME NEW h \in Seq(Nat), Len(h) <= MaxHistory, NEW n \in Nat
    PROVE  /\ HistoryPush(h, n) \in Seq(Nat)
           /\ Len(HistoryPush(h, n)) <= MaxHistory
           /\ HistoryPush(h, n) # <<>>
           /\ (\A i \in DOMAIN h : h[i] = n - 1 - Len(h) + i) =>
              \A i \in DOMAIN HistoryPush(h, n) :
                HistoryPush(h, n)[i] = n - Len(HistoryPush(h, n)) + i
<1> DEFINE k == IF Len(h) >= MaxHistory THEN Tail(h) ELSE h
           d == IF Len(h) >= MaxHistory THEN 1 ELSE 0
           r == Append(k, n)
<1>1. MaxHistory \in Nat \ {0} /\ Len(h) \in Nat /\ DOMAIN h = 1 .. Len(h)
  BY BridgeAssumption
<1>2. Len(h) >= MaxHistory => h # <<>>
  BY <1>1
<1>3. k \in Seq(Nat) /\ Len(k) = Len(h) - d /\ \A i \in 1 .. Len(k) : k[i] = h[i + d]
  BY <1>1, <1>2, HeadTailProperties
<1>4. d \in {0, 1} /\ Len(h) - d < MaxHistory
  BY <1>1
<1>5. /\ r \in Seq(Nat) /\ Len(r) = Len(k) + 1 /\ r[Len(k) + 1] = n
      /\ \A i \in 1 .. Len(k) : r[i] = k[i]
  BY <1>3, AppendProperties
<1>6. HistoryPush(h, n) = r
  BY DEF HistoryPush
<1> HIDE DEF k, d, r
<1>7. Len(r) <= MaxHistory /\ Len(r) \in Nat /\ DOMAIN r = 1 .. Len(r) /\ Len(k) \in Nat
  BY <1>1, <1>3, <1>4, <1>5
<1>8. ASSUME \A i \in DOMAIN h : h[i] = n - 1 - Len(h) + i, NEW i \in DOMAIN r
      PROVE  r[i] = n - Len(r) + i
  <2>1. CASE i = Len(k) + 1
    BY <1>5, <1>7, <2>1
  <2>2. CASE i # Len(k) + 1
    <3>1. i \in 1 .. Len(r)
      BY <1>7, <1>8
    <3>2. i \in 1 .. Len(k)
      BY <1>5, <1>7, <2>2, <3>1
    <3>3. i + d \in 1 .. Len(h)
      <4>1. Len(k) = Len(h) - d /\ d \in {0, 1}
        BY <1>3, <1>4
      <4> QED BY <1>1, <4>1, <3>2
    <3>4. i \in 1 .. Len(k) /\ i + d \in DOMAIN h
      BY <1>1, <3>2, <3>3
    <3>5. r[i] = h[i + d]
      BY <1>3, <1>5, <3>4
    <3>6. h[i + d] = n - 1 - Len(h) + (i + d)
      BY <1>8, <3>4
    <3> QED BY <1>1, <1>3, <1>4, <1>5, <1>7, <3>4, <3>5, <3>6
  <2> QED BY <2>1, <2>2
<1>9. r # <<>>
  BY <1>5, <1>7
<1> QED BY <1>5, <1>6, <1>7, <1>8, <1>9

(* A list of past decisions after one more.                                *)
LEMMA RecordedType ==
    ASSUME NEW list \in Seq(Proposals), Len(list) <= MaxRecords, NEW p \in Proposals
    PROVE  Recorded(list, p) \in Seq(Proposals) /\ Len(Recorded(list, p)) <= MaxRecords
<1> DEFINE k == IF Len(list) < MaxRecords THEN list ELSE Tail(list)
<1>1. MaxRecords \in Nat \ {0} /\ Len(list) \in Nat
  BY DesktopAssumption
<1>2. Len(list) >= MaxRecords => list # <<>>
  BY <1>1
<1>3. k \in Seq(Proposals) /\ Len(k) < MaxRecords /\ Len(k) \in Nat
  BY <1>1, <1>2, HeadTailProperties
<1>4. Recorded(list, p) = Append(k, p)
  BY DEF Recorded
<1> HIDE DEF k
<1> QED BY <1>1, <1>3, <1>4, AppendProperties

(* A channel loses its head or gains a tail.                               *)
LEMMA ChannelType ==
    ASSUME NEW S, NEW s \in Seq(S)
    PROVE  /\ s # <<>> => Head(s) \in S /\ Tail(s) \in Seq(S)
           /\ \A t \in Seq(S) : s \o t \in Seq(S)
           /\ \A x \in S : Append(s, x) \in Seq(S) /\ Append(s, x) = s \o <<x>>
BY HeadTailProperties, ConcatProperties, AppendProperties, AppendIsConcat

(* Initially.                                                              *)
LEMMA InitType == ASSUME Init PROVE TypeInv
<1>1. NoGroup \notin Groups /\ "Working" \in Phases
  BY ProtocolAssumption
<1>2. MaxNews \in Nat /\ MaxLogins \in Nat /\ MaxClicks \in Nat /\ MaxRecords \in Nat
      /\ MaxHistory \in Nat
  BY BridgeAssumption, DesktopAssumption
<1>3. cmds \in Seq(AppCmd) /\ evts \in Seq(AppEvent) /\ todo \in Seq(AppCmd)
      /\ answer \in Seq(AppEvent)
  <2>1. cmds = <<>> /\ evts = <<>> /\ todo = <<>> /\ answer = <<>>
    BY DEF Init, BridgeInit
  <2> QED BY <2>1
<1>4. loop \in {"up", "dead"} /\ user \in Nat /\ fwdUser \in 0 .. user /\ news \in 0 .. MaxNews
  <2>1. loop = "up" /\ user = 0 /\ fwdUser = 0 /\ news = 0
    BY DEF Init, BridgeInit
  <2> QED BY <1>2, <2>1
<1>5. /\ status \in [Groups -> {"absent", "pending", "live", "leaving"}]
      /\ phase \in [Groups -> Phases]
      /\ prop \in [Proposals -> {"new", "open", "decided", "gone"}]
      /\ voted \subseteq Proposals
      /\ commits \in [Groups -> Nat]
  BY <1>1 DEF Init, BridgeInit
<1>6. history \in [Groups -> Seq(Nat)] /\ \A g \in Groups : Len(history[g]) <= MaxHistory
  <2>1. history = [g \in Groups |-> <<>>]
    BY DEF Init, BridgeInit
  <2> QED BY <1>2, <2>1
<1>7. BridgeTypeOK
  BY <1>3, <1>4, <1>5, <1>6 DEF BridgeTypeOK
<1>8. /\ page \in {"login", "home"}
      /\ groups \in [items: SUBSET Groups, loaded: BOOLEAN]
      /\ chat \in [opened: Owner, members: Owner]
      /\ logins \in 0 .. MaxLogins /\ clicks \in 0 .. MaxClicks
  <2>1. groups = [items |-> {}, loaded |-> FALSE] /\ page = "login"
        /\ chat = [opened |-> NoGroup, members |-> NoGroup]
    BY DEF Init
  <2>2. logins = 0 /\ clicks = 0
    BY DEF Init
  <2>3. logins \in 0 .. MaxLogins /\ clicks \in 0 .. MaxClicks
    BY <1>2, <2>2
  <2>4. groups \in [items: SUBSET Groups, loaded: BOOLEAN]
    BY <2>1
  <2> QED BY <2>1, <2>3, <2>4 DEF Owner
<1>9. cons \in ConsensusState
  <2>1. <<>> \in Seq(Proposals) /\ NoGroup \in Owner
    BY DEF Owner
  <2> QED BY <2>1 DEF Init, ConsensusState
<1>10. Len(cons.rejected) <= MaxRecords /\ Len(cons.elections) <= MaxRecords
  <2>1. cons.rejected = <<>> /\ cons.elections = <<>>
    BY DEF Init
  <2> QED BY <1>2, <2>1
<1>11. todo \in Seq(Reading)
  <2>1. todo = <<>>
    BY DEF Init, BridgeInit
  <2> QED BY <2>1
<1> QED BY <1>7, <1>8, <1>9, <1>10, <1>11 DEF TypeOK, TypeInv, BridgeInv

(* A query of the loop.                                                    *)
LEMMA QueryType ==
    ASSUME BridgeInv, LoopQuery PROVE BridgeInv'
<1>1. cmds # <<>> /\ Head(cmds) \in AppCmd /\ Tail(cmds) \in Seq(AppCmd)
  BY ChannelType DEF BridgeInv, BridgeTypeOK, LoopQuery, Takes, NextIs
<1>2. answer' \in Seq(AppEvent)
  BY <1>1, AnswersType DEF BridgeInv, LoopQuery, Takes, NextIs
<1> QED BY <1>1, <1>2 DEF BridgeInv, BridgeTypeOK, LoopQuery, Takes, convVars

(* A follow-up read.                                                       *)
LEMMA ReadType ==
    ASSUME BridgeInv, LoopRead PROVE BridgeInv'
<1>1. todo # <<>> /\ Head(todo) \in Reading /\ Tail(todo) \in Seq(Reading)
  BY ChannelType DEF BridgeInv, LoopRead
<1>2. Tail(todo) \in Seq(AppCmd)
  BY <1>1, ChannelType DEF BridgeInv, BridgeTypeOK
<1>3. AnswerTo(Head(todo)) \in Seq(AppEvent)
  BY <1>1, AnswerType DEF BridgeInv, Reading
<1> QED BY <1>1, <1>2, <1>3 DEF BridgeInv, BridgeTypeOK, LoopRead, convVars

(* The answers are pushed.                                                 *)
LEMMA PushType ==
    ASSUME BridgeInv, LoopPush PROVE BridgeInv'
<1>1. evts \o answer \in Seq(AppEvent)
  BY ChannelType DEF BridgeInv, BridgeTypeOK
<1>2. answer' \in Seq(AppEvent)
  BY DEF LoopPush
<1> QED BY <1>1, <1>2 DEF BridgeInv, BridgeTypeOK, LoopPush, convVars

(* A login.                                                                *)
LEMMA LoginType ==
    ASSUME BridgeInv, LoopLogin PROVE BridgeInv'
<1>1. cmds' \in Seq(AppCmd)
  BY ChannelType DEF BridgeInv, BridgeTypeOK, LoopLogin, Takes, NextIs
<1>2. answer' \in Seq(AppEvent)
  <2>1. [e |-> "LoggedIn"] \in AppEvent /\ Failure \in AppEvent
    BY EventType
  <2>2. answer' = <<[e |-> "LoggedIn"]>> \/ answer' = <<Failure>>
    BY DEF LoopLogin
  <2> QED BY <2>1, <2>2, ShortSeq
<1>3. user' \in Nat /\ fwdUser' \in 0 .. user'
  BY DEF BridgeInv, BridgeTypeOK, LoopLogin
<1>4. status' \in [Groups -> {"absent", "pending", "live", "leaving"}]
  BY DEF BridgeInv, BridgeTypeOK, LoopLogin
<1> QED BY <1>1, <1>2, <1>3, <1>4 DEF BridgeInv, BridgeTypeOK, LoopLogin, convVars

(* Create and join.                                                        *)
LEMMA RegisterType ==
    ASSUME BridgeInv, LoopRegister PROVE BridgeInv'
<1> DEFINE g == Head(cmds).g
           follow == <<[c |-> "ListGroups"], Cmd("EnterGroup", g)>>
<1>1. cmds' \in Seq(AppCmd) /\ g \in Groups
  <2>1. cmds # <<>> /\ Head(cmds) \in AppCmd /\ Head(cmds).c \in {"CreateGroup", "JoinGroup"}
    BY ChannelType DEF BridgeInv, BridgeTypeOK, LoopRegister, Takes, NextIs
  <2> QED BY <2>1, ChannelType, CmdFields DEF BridgeInv, BridgeTypeOK, LoopRegister, Takes
<1>2. follow \in Seq(Reading) /\ follow \in Seq(AppCmd)
  <2>1. [c |-> "ListGroups"] \in AppCmd /\ Cmd("EnterGroup", g) \in AppCmd
        /\ Cmd("EnterGroup", g).c = "EnterGroup"
    BY <1>1, CmdType DEF Queries
  <2>2. [c |-> "ListGroups"] \in Reading /\ Cmd("EnterGroup", g) \in Reading
    BY <2>1 DEF Reading, Queries
  <2> QED BY <2>1, <2>2, ShortSeq
<1>3. <<Failure>> \in Seq(AppEvent)
  BY EventType, ShortSeq
<1>4. (todo' = follow \/ todo' = todo) /\ (answer' = answer \/ answer' = <<Failure>>)
  BY DEF LoopRegister
<1>5. status' \in [Groups -> {"absent", "pending", "live", "leaving"}] /\ phase' \in [Groups -> Phases]
  <2>1. status' = status \/ \E x \in {"live", "pending"} : status' = [status EXCEPT ![g] = x]
    BY DEF LoopRegister
  <2>2. phase' = phase \/ phase' = [phase EXCEPT ![g] = "Working"]
    BY DEF LoopRegister
  <2>3. "Working" \in Phases
    BY ProtocolAssumption
  <2>4. status \in [Groups -> {"absent", "pending", "live", "leaving"}] /\ phase \in [Groups -> Phases]
    BY DEF BridgeInv, BridgeTypeOK
  <2> HIDE DEF g
  <2>5. status' \in [Groups -> {"absent", "pending", "live", "leaving"}]
    BY <1>1, <2>1, <2>4
  <2>6. phase' \in [Groups -> Phases]
    BY <1>1, <2>2, <2>3, <2>4
  <2> QED BY <2>5, <2>6
<1> HIDE DEF follow, g
<1>6. todo' \in Seq(Reading) /\ todo' \in Seq(AppCmd) /\ answer' \in Seq(AppEvent)
  BY <1>2, <1>3, <1>4 DEF BridgeInv, BridgeTypeOK
<1> QED BY <1>1, <1>5, <1>6 DEF BridgeInv, BridgeTypeOK, LoopRegister

(* Requests and votes.                                                     *)
LEMMA RequestType ==
    ASSUME BridgeInv, LoopRequest \/ LoopVote \/ LoopVoteFails PROVE BridgeInv'
<1>1. cmds # <<>> /\ Head(cmds) \in AppCmd /\ Tail(cmds) \in Seq(AppCmd)
  BY ChannelType DEF BridgeInv, BridgeTypeOK, LoopRequest, LoopVote, LoopVoteFails, Takes,
                     NextIs
<1>2. CASE LoopRequest
  <2>1. <<Failure>> \in Seq(AppEvent)
    BY EventType, ShortSeq
  <2>2. answer' \in Seq(AppEvent) /\ cmds' \in Seq(AppCmd)
    BY <1>1, <1>2, <2>1 DEF BridgeInv, BridgeTypeOK, LoopRequest, Takes
  <2> QED BY <1>2, <2>2 DEF BridgeInv, BridgeTypeOK, LoopRequest, convVars
<1>3. CASE LoopVote
  <2>1. Head(cmds).p \in Proposals
    BY <1>1, <1>3, CmdFields DEF LoopVote, Takes, NextIs
  <2>2. cmds' \in Seq(AppCmd) /\ voted' \subseteq Proposals
    BY <1>1, <1>3, <2>1 DEF BridgeInv, BridgeTypeOK, LoopVote, Takes
  <2> QED BY <1>3, <2>2 DEF BridgeInv, BridgeTypeOK, LoopVote, convVars
<1>4. CASE LoopVoteFails
  <2>1. Head(cmds).p \in Proposals
    BY <1>1, <1>4, CmdFields DEF LoopVoteFails, NextIs
  <2>2. voted' \subseteq Proposals
    BY <1>4, <2>1 DEF BridgeInv, BridgeTypeOK, LoopVoteFails
  <2>3. cmds' \in Seq(AppCmd) /\ loop' = "dead"
    BY <1>4 DEF LoopVoteFails
  <2> QED BY <1>4, <2>2, <2>3 DEF BridgeInv, BridgeTypeOK, LoopVoteFails, convVars
<1> QED BY <1>2, <1>3, <1>4

(* A step of a conversation that pushes events and leaves the history      *)
(* alone.                                                                  *)
LEMMA HandleType ==
    ASSUME BridgeInv, NEW events \in Seq(AppEvent), handle(events)
    PROVE  evts' \in Seq(AppEvent) /\ history' = history
<1>1. evts \in Seq(AppEvent)
  BY DEF BridgeInv, BridgeTypeOK
<1>2. evts' = evts \o events /\ history' = history
  BY DEF handle
<1> QED BY <1>1, <1>2, ChannelType

(* The count of conversation steps.                                        *)
LEMMA NewsType ==
    ASSUME BridgeInv, NewsStep
    PROVE  news' \in 0 .. MaxNews
<1>1. MaxNews \in Nat /\ news \in 0 .. MaxNews /\ news < MaxNews /\ news' = news + 1
  BY BridgeAssumption DEF BridgeInv, BridgeTypeOK, NewsStep
<1> QED BY <1>1

(* Steps that only tell something.                                         *)
LEMMA TellType ==
    ASSUME BridgeInv, NEW g \in Groups,
           PhaseChange(g) \/ CommitRoundProgress(g) \/ Trouble(g) \/ Inbound(g)
    PROVE  BridgeInv'
<1>1. news' \in 0 .. MaxNews
  BY NewsType DEF PhaseChange, CommitRoundProgress, Trouble, Inbound, ConvStep
<1>2. CASE PhaseChange(g)
  <2>1. PICK s \in Phases :
            /\ phase' = [phase EXCEPT ![g] = s]
            /\ handle(<<[e |-> "GroupStateChanged", g |-> g, state |-> s]>>)
    BY <1>2 DEF PhaseChange
  <2>2. [e |-> "GroupStateChanged", g |-> g, state |-> s] \in AppEvent
    BY EventType DEF GroupStates
  <2>3. evts' \in Seq(AppEvent) /\ history' = history
    BY <2>1, <2>2, HandleType, ShortSeq
  <2>4. phase' \in [Groups -> Phases]
    BY <2>1 DEF BridgeInv, BridgeTypeOK
  <2> QED BY <1>1, <1>2, <2>3, <2>4 DEF BridgeInv, BridgeTypeOK, PhaseChange, loopVars
<1>3. CASE CommitRoundProgress(g)
  <2>1. Evt("FreezeCandidates", g) \in AppEvent
    BY EventType DEF Refreshes
  <2>2. evts' \in Seq(AppEvent) /\ history' = history
    BY <1>3, <2>1, HandleType, ShortSeq DEF CommitRoundProgress
  <2> QED BY <1>1, <1>3, <2>2 DEF BridgeInv, BridgeTypeOK, CommitRoundProgress, loopVars
<1>4. CASE Trouble(g)
  <2>1. evts' \in Seq(AppEvent) /\ history' = history
    BY <1>4, EventType, HandleType, ShortSeq DEF Trouble
  <2> QED BY <1>1, <1>4, <2>1 DEF BridgeInv, BridgeTypeOK, Trouble, loopVars
<1>5. CASE Inbound(g)
  <2>1. PICK r \in Refresh(g) : handle(r)
    BY <1>5 DEF Inbound
  <2>2. evts' \in Seq(AppEvent) /\ history' = history
    BY <2>1, RefreshType, HandleType
  <2> QED BY <1>1, <1>5, <2>2 DEF BridgeInv, BridgeTypeOK, Inbound, loopVars
<1> QED BY <1>2, <1>3, <1>4, <1>5

(* A batch is committed.                                                   *)
LEMMA CommitType ==
    ASSUME BridgeInv, NEW g \in Groups, CommitApplied(g) PROVE BridgeInv'
<1>1. news' \in 0 .. MaxNews
  BY NewsType DEF CommitApplied, ConvStep
<1>2. evts' \in Seq(AppEvent)
  BY EventType, ChannelType DEF BridgeInv, BridgeTypeOK, CommitApplied, Refreshes
<1>3. commits' \in [Groups -> Nat]
  BY DEF BridgeInv, BridgeTypeOK, CommitApplied
<1>4. history' \in [Groups -> Seq(Nat)] /\ \A f \in Groups : Len(history'[f]) <= MaxHistory
  <2>1. history \in [Groups -> Seq(Nat)] /\ \A f \in Groups : Len(history[f]) <= MaxHistory
    BY DEF BridgeInv, BridgeTypeOK
  <2> DEFINE h == HistoryPush(history[g], commits[g] + 1)
  <2>2. h \in Seq(Nat) /\ Len(h) <= MaxHistory
    BY <2>1, HistoryPushed DEF BridgeInv, BridgeTypeOK
  <2>3. history' = [history EXCEPT ![g] = h]
    BY DEF CommitApplied
  <2> HIDE DEF h
  <2> QED BY <2>1, <2>2, <2>3
<1> QED BY <1>1, <1>2, <1>3, <1>4 DEF BridgeInv, BridgeTypeOK, CommitApplied, loopVars

(* A conversation ends.                                                    *)
LEMMA LeavingType ==
    ASSUME BridgeInv, NEW g \in Groups, Leaving(g) \/ Evicted(g) PROVE BridgeInv'
<1>1. news' \in 0 .. MaxNews
  BY NewsType DEF Leaving, Evicted, ConvStep
<1>2. evts' \in Seq(AppEvent)
  <2>1. evts \in Seq(AppEvent) /\ Evt("GroupRemoved", g) \in AppEvent
    BY EventType DEF BridgeInv, BridgeTypeOK
  <2>2. evts' = Append(evts, Evt("GroupRemoved", g)) \/ evts' = evts
    BY DEF Leaving, Evicted, Forgotten
  <2> QED BY <2>1, <2>2, ChannelType
<1>3. status' \in [Groups -> {"absent", "pending", "live", "leaving"}]
      /\ prop' \in [Proposals -> {"new", "open", "decided", "gone"}]
  BY DEF BridgeInv, BridgeTypeOK, Leaving, Evicted
<1>4. history' \in [Groups -> Seq(Nat)] /\ \A f \in Groups : Len(history'[f]) <= MaxHistory
  <2>1. history \in [Groups -> Seq(Nat)] /\ \A f \in Groups : Len(history[f]) <= MaxHistory
    BY DEF BridgeInv, BridgeTypeOK
  <2>2. <<>> \in Seq(Nat) /\ Len(<<>>) <= MaxHistory
    BY BridgeAssumption
  <2>3. history' = [history EXCEPT ![g] = <<>>] \/ history' = history
    BY DEF Leaving, Evicted, Forgotten
  <2> QED BY <2>1, <2>2, <2>3
<1> QED BY <1>1, <1>2, <1>3, <1>4 DEF BridgeInv, BridgeTypeOK, Leaving, Evicted, loopVars

(* A join ends.                                                            *)
LEMMA JoinType ==
    ASSUME BridgeInv, NEW g \in Groups, Welcome(g) \/ Abandon(g) PROVE BridgeInv'
<1>1. news' \in 0 .. MaxNews
  BY NewsType DEF Welcome, Abandon, JoinStep
<1>2. status' \in [Groups -> {"absent", "pending", "live", "leaving"}]
  BY DEF BridgeInv, BridgeTypeOK, Welcome, Abandon
<1>3. evts' \in Seq(AppEvent) /\ history' = history
  <2>1. CASE Abandon(g)
    BY <2>1 DEF BridgeInv, BridgeTypeOK, Abandon
  <2>2. CASE Welcome(g)
    <3>1. [e |-> "GroupStateChanged", g |-> g, state |-> "Working"] \in AppEvent
      BY EventType, ProtocolAssumption DEF GroupStates
    <3>2. /\ <<[e |-> "GroupStateChanged", g |-> g, state |-> "Working"]>> \in Seq(AppEvent)
          /\ <<>> \in Seq(AppEvent)
      BY <3>1, ShortSeq
    <3> QED BY <2>2, <3>2, HandleType DEF Welcome
  <2> QED BY <2>1, <2>2
<1> QED BY <1>1, <1>2, <1>3 DEF BridgeInv, BridgeTypeOK, Welcome, Abandon, loopVars

(* A session is opened or decided.                                         *)
LEMMA SessionType ==
    ASSUME BridgeInv, NEW p \in Proposals,
           VoteRequested(p) \/ OwnProposalSubmitted(p) \/ AutoVote(p) \/ ConsensusReached(p)
    PROVE  BridgeInv'
<1>1. news' \in 0 .. MaxNews
  BY NewsType DEF VoteRequested, OwnProposalSubmitted, AutoVote, ConsensusReached, ConvStep
<1>2. GroupOf[p] \in Groups
  BY ProtocolAssumption
<1>3. CASE VoteRequested(p)
  <2>1. [e |-> "VoteRequested", p |-> p] \in AppEvent
        /\ Evt("CurrentEpochProposalsCleared", GroupOf[p]) \in AppEvent
    BY <1>2, EventType DEF Refreshes
  <2>2. evts' \in Seq(AppEvent) /\ history' = history
    BY <1>3, <2>1, HandleType, ShortSeq DEF VoteRequested
  <2>3. prop' \in [Proposals -> {"new", "open", "decided", "gone"}]
    BY <1>3 DEF BridgeInv, BridgeTypeOK, VoteRequested
  <2> QED BY <1>1, <1>3, <2>2, <2>3 DEF BridgeInv, BridgeTypeOK, VoteRequested, loopVars
<1>4. CASE OwnProposalSubmitted(p)
  <2>1. [e |-> "OwnProposalSubmitted", p |-> p] \in AppEvent
    BY EventType
  <2>2. evts' \in Seq(AppEvent) /\ history' = history
    BY <1>4, <2>1, HandleType, ShortSeq DEF OwnProposalSubmitted
  <2>3. prop' \in [Proposals -> {"new", "open", "decided", "gone"}] /\ voted' \subseteq Proposals
    BY <1>4 DEF BridgeInv, BridgeTypeOK, OwnProposalSubmitted
  <2> QED BY <1>1, <1>4, <2>2, <2>3 DEF BridgeInv, BridgeTypeOK, OwnProposalSubmitted, loopVars
<1>5. CASE AutoVote(p)
  BY <1>1, <1>5 DEF BridgeInv, BridgeTypeOK, AutoVote, loopVars
<1>6. CASE ConsensusReached(p)
  <2>1. PICK a \in BOOLEAN, r \in Refresh(GroupOf[p]) :
            handle(<<[e |-> "ProposalDecided", p |-> p, accepted |-> a]>> \o r)
    BY <1>6 DEF ConsensusReached
  <2>2. [e |-> "ProposalDecided", p |-> p, accepted |-> a] \in AppEvent
    BY EventType
  <2>3. <<[e |-> "ProposalDecided", p |-> p, accepted |-> a]>> \o r \in Seq(AppEvent)
    BY <1>2, <2>2, RefreshType, ChannelType, ShortSeq
  <2>4. evts' \in Seq(AppEvent) /\ history' = history
    BY <2>1, <2>3, HandleType
  <2>5. prop' \in [Proposals -> {"new", "open", "decided", "gone"}]
    BY <1>6 DEF BridgeInv, BridgeTypeOK, ConsensusReached
  <2> QED BY <1>1, <1>6, <2>4, <2>5 DEF BridgeInv, BridgeTypeOK, ConsensusReached, loopVars
<1> QED BY <1>3, <1>4, <1>5, <1>6

(* The bridge keeps its types.                                             *)
LEMMA BridgeNextType ==
    ASSUME BridgeInv, BridgeNext PROVE BridgeInv'
<1>1. CASE LoopStep
  BY <1>1, QueryType, ReadType, PushType, LoginType, RegisterType, RequestType DEF LoopStep
<1>2. CASE Conversations
  BY <1>2, TellType, CommitType, LeavingType, JoinType, SessionType
     DEF Conversations, RecoveryExhausted
<1> QED BY <1>1, <1>2 DEF BridgeNext

(* Commands are sent.                                                      *)
LEMMA SendsType ==
    ASSUME cmds \in Seq(AppCmd), NEW cs \in Seq(AppCmd), Sends(cs)
    PROVE  cmds' \in Seq(AppCmd) /\ (loop = "up" => cmds' = cmds \o cs)
<1>1. cmds' = cmds \/ cmds' = cmds \o cs
  BY DEF Sends
<1>2. cmds \o cs \in Seq(AppCmd)
  BY ChannelType
<1> QED BY <1>1, <1>2 DEF Sends

(* The UI touches the two channels of the bridge and nothing else of it.   *)
LEMMA KeepsBridge ==
    ASSUME TypeInv, UNCHANGED restOfBridge, cmds' \in Seq(AppCmd), evts' \in Seq(AppEvent)
    PROVE  BridgeTypeOK' /\ (todo \in Seq(Reading))'
BY DEF TypeInv, TypeOK, BridgeTypeOK, restOfBridge, convVars

(* An event is taken.                                                      *)
LEMMA ReceivesType ==
    ASSUME TypeInv, NEW view, NEW kinds, Receives(view, kinds)
    PROVE  /\ evts # <<>> /\ evts \in Seq(AppEvent) /\ Event \in AppEvent /\ Event.e \in kinds
           /\ evts' = Tail(evts) /\ evts' \in Seq(AppEvent)
           /\ page = view /\ UNCHANGED <<restOfBridge, logins, clicks>>
<1>1. evts \in Seq(AppEvent)
  BY DEF TypeInv, TypeOK, BridgeTypeOK
<1>2. evts # <<>> /\ evts' = Tail(evts) /\ Head(evts).e \in kinds
      /\ page = view /\ UNCHANGED <<restOfBridge, logins, clicks>>
  BY DEF Receives
<1>3. Head(evts) \in AppEvent /\ Tail(evts) \in Seq(AppEvent)
  BY <1>1, <1>2, ChannelType
<1> QED BY <1>1, <1>2, <1>3 DEF Event

(* The commands of the UI.                                                 *)
LEMMA CommandTypes ==
    ASSUME NEW g \in Groups
    PROVE  /\ \A s : AfterState(g, s) \in Seq(AppCmd)
           /\ Opening(g) \in Seq(AppCmd)
           /\ <<Cmd("GetEpochHistory", g), Cmd("GetGroupMembers", g)>> \in Seq(AppCmd)
           /\ \A c \in {"CreateGroup", "JoinGroup"} :
                <<Cmd(c, g), [c |-> "ListGroups"]>> \o Opening(g) \in Seq(AppCmd)
           /\ \A c \in {"SendMessage", "GetGroupMembers", "SendBanRequest", "LeaveConversation"} :
                <<Cmd(c, g)>> \in Seq(AppCmd)
<1>1. \A c \in {"CreateGroup", "JoinGroup"} \cup Queries \cup Requests : Cmd(c, g) \in AppCmd
  BY CmdType
<1>2. /\ Cmd("EnterGroup", g) \in AppCmd /\ Cmd("GetStewardStatus", g) \in AppCmd
      /\ Cmd("GetGroupState", g) \in AppCmd /\ Cmd("GetCurrentEpochProposals", g) \in AppCmd
      /\ Cmd("GetGroupMembers", g) \in AppCmd /\ Cmd("GetEpochHistory", g) \in AppCmd
  BY <1>1 DEF Queries
<1>3. Opening(g) \in Seq(AppCmd)
  BY <1>2 DEF Opening
<1>4. \A s : AfterState(g, s) \in Seq(AppCmd)
  BY <1>2, ShortSeq DEF AfterState
<1>5. ASSUME NEW c \in {"CreateGroup", "JoinGroup"}
      PROVE  <<Cmd(c, g), [c |-> "ListGroups"]>> \o Opening(g) \in Seq(AppCmd)
  <2>1. Cmd(c, g) \in AppCmd /\ [c |-> "ListGroups"] \in AppCmd
    BY <1>1, CmdType
  <2>2. <<Cmd(c, g), [c |-> "ListGroups"]>> \in Seq(AppCmd)
    BY <2>1, ShortSeq
  <2> QED BY <1>3, <2>2, ChannelType
<1>6. ASSUME NEW c \in {"SendMessage", "GetGroupMembers", "SendBanRequest", "LeaveConversation"}
      PROVE  <<Cmd(c, g)>> \in Seq(AppCmd)
  <2>1. Cmd(c, g) \in AppCmd
    BY <1>1 DEF Queries, Requests
  <2> QED BY <2>1, ShortSeq
<1> QED BY <1>2, <1>3, <1>4, <1>5, <1>6, ShortSeq

\* The part of TypeOK about the UI.
UiTypeOK ==
    /\ page \in {"login", "home"}
    /\ groups \in [items: SUBSET Groups, loaded: BOOLEAN]
    /\ chat \in [opened: Owner, members: Owner]
    /\ cons \in ConsensusState
    /\ Len(cons.rejected) <= MaxRecords /\ Len(cons.elections) <= MaxRecords
    /\ logins \in 0 .. MaxLogins /\ clicks \in 0 .. MaxClicks

(* Events without data.                                                    *)
LEMMA AlertType ==
    ASSUME TypeInv, OnLoggedIn \/ OnError \/ OnIgnored PROVE TypeInv'
<1>1. evts' \in Seq(AppEvent) /\ UNCHANGED <<restOfBridge, logins, clicks>>
  BY ReceivesType DEF OnLoggedIn, OnError, OnIgnored
<1>2. cmds \in Seq(AppCmd)
  BY DEF TypeInv, TypeOK, BridgeTypeOK
<1>3. cmds' \in Seq(AppCmd)
  <2>1. <<[c |-> "ListGroups"]>> \in Seq(AppCmd)
    BY CmdType, ShortSeq
  <2>2. cmds' = cmds \/ Sends(<<[c |-> "ListGroups"]>>)
    BY DEF OnLoggedIn, OnError, OnIgnored
  <2> QED BY <1>2, <2>1, <2>2, SendsType
<1>4. UiTypeOK'
  BY <1>1 DEF TypeInv, TypeOK, UiTypeOK, OnLoggedIn, OnError, OnIgnored
<1> QED BY <1>1, <1>3, <1>4, KeepsBridge DEF TypeInv, TypeOK, UiTypeOK

(* The list of groups.                                                     *)
LEMMA GroupsType ==
    ASSUME TypeInv, OnGroups \/ OnGroupRemoved PROVE TypeInv'
<1>1. /\ evts' \in Seq(AppEvent) /\ UNCHANGED <<restOfBridge, logins, clicks>>
      /\ Event \in AppEvent /\ (OnGroups => Event.e = "Groups")
  BY ReceivesType DEF OnGroups, OnGroupRemoved
<1>2. cmds' \in Seq(AppCmd)
  BY DEF TypeInv, TypeOK, BridgeTypeOK, OnGroups, OnGroupRemoved
<1>3. groups' \in [items: SUBSET Groups, loaded: BOOLEAN]
  <2>1. CASE OnGroups
    <3>1. Event.items \in SUBSET Groups
      BY <1>1, <2>1, EventFields
    <3> QED BY <2>1, <3>1 DEF OnGroups
  <2>2. CASE OnGroupRemoved
    BY <2>2 DEF TypeInv, TypeOK, OnGroupRemoved
  <2> QED BY <2>1, <2>2
<1>4. chat' \in [opened: Owner, members: Owner]
  BY DEF TypeInv, TypeOK, OnGroups, OnGroupRemoved, Owner
<1>5. UNCHANGED <<page, cons, logins, clicks>>
  BY <1>1 DEF OnGroups, OnGroupRemoved
<1> QED BY <1>1, <1>2, <1>3, <1>4, <1>5, KeepsBridge DEF TypeInv, TypeOK

(* What the UI shows of the opened group.                                  *)
LEMMA RefreshedIs ==
    ASSUME NEW g, Event.e \in {"StewardStatus", "CurrentEpochProposals", "EpochHistory",
                               "GroupEpoch", "FreezeCandidates"}
    PROVE  \/ Event.e = "StewardStatus" /\ Refreshed(g) = [cons EXCEPT !.steward = g]
           \/ Event.e = "CurrentEpochProposals" /\ Refreshed(g) = [cons EXCEPT !.queue = g]
           \/ Event.e = "EpochHistory" /\ Refreshed(g) = [cons EXCEPT !.history = g]
           \/ Event.e = "GroupEpoch" /\ Refreshed(g) = [cons EXCEPT !.epoch = g]
           \/ Event.e = "FreezeCandidates" /\ Refreshed(g) = [cons EXCEPT !.freeze = g]
BY DEF Refreshed

(* What it leaves alone, and what it sets.                                 *)
LEMMA RefreshedFields ==
    ASSUME cons \in ConsensusState, NEW g,
           Event.e \in {"StewardStatus", "CurrentEpochProposals", "EpochHistory",
                        "GroupEpoch", "FreezeCandidates"}
    PROVE  /\ Refreshed(g).stateOf = cons.stateOf /\ Refreshed(g).votes = cons.votes
           /\ Refreshed(g).steward = IF Event.e = "StewardStatus" THEN g ELSE cons.steward
           /\ Refreshed(g).queue = IF Event.e = "CurrentEpochProposals" THEN g ELSE cons.queue
           /\ Refreshed(g).history = IF Event.e = "EpochHistory" THEN g ELSE cons.history
<1> DEFINE r == Refreshed(g)
<1>1. \/ Event.e = "StewardStatus" /\ r = [cons EXCEPT !.steward = g]
      \/ Event.e = "CurrentEpochProposals" /\ r = [cons EXCEPT !.queue = g]
      \/ Event.e = "EpochHistory" /\ r = [cons EXCEPT !.history = g]
      \/ Event.e = "GroupEpoch" /\ r = [cons EXCEPT !.epoch = g]
      \/ Event.e = "FreezeCandidates" /\ r = [cons EXCEPT !.freeze = g]
  BY RefreshedIs
<1> HIDE DEF r
<1>2. /\ r.stateOf = cons.stateOf /\ r.votes = cons.votes
      /\ r.steward = IF Event.e = "StewardStatus" THEN g ELSE cons.steward
      /\ r.queue = IF Event.e = "CurrentEpochProposals" THEN g ELSE cons.queue
      /\ r.history = IF Event.e = "EpochHistory" THEN g ELSE cons.history
  BY <1>1 DEF ConsensusState
<1> QED BY <1>2 DEF r

(* A decision changes the banner, the cache and the lists only.            *)
LEMMA DecidedFields ==
    ASSUME cons \in ConsensusState, OnProposalDecided
    PROVE  /\ cons'.votes = cons.votes \ {Event.p} /\ cons'.stateOf = cons.stateOf
           /\ cons'.steward = cons.steward /\ cons'.queue = cons.queue
           /\ cons'.history = cons.history
<1> DEFINE f == Filed(Event.p, Event.accepted)
<1>1. cons' = [f EXCEPT !.votes = @ \ {Event.p}]
  BY DEF OnProposalDecided
<1>2. /\ DOMAIN f = DOMAIN cons /\ f.votes = cons.votes /\ f.stateOf = cons.stateOf
      /\ f.steward = cons.steward /\ f.queue = cons.queue /\ f.history = cons.history
  BY DEF Filed, ConsensusState
<1> HIDE DEF f
<1> QED BY <1>1, <1>2 DEF ConsensusState

(* The consensus signals.                                                  *)
LEMMA SignalType ==
    ASSUME TypeInv, OnGroupStateChanged \/ OnRefresh \/ OnGroupMembers \/ OnCleared
    PROVE  TypeInv'
<1>1. /\ evts' \in Seq(AppEvent) /\ UNCHANGED <<restOfBridge, logins, clicks>>
      /\ Event \in AppEvent
  BY ReceivesType DEF OnGroupStateChanged, OnRefresh, OnGroupMembers, OnCleared
<1>2. cmds \in Seq(AppCmd) /\ cons \in ConsensusState
  BY DEF TypeInv, TypeOK, BridgeTypeOK
<1>3. Event.e \in {"GroupRemoved", "GroupStateChanged"} \cup Refreshes
  BY ReceivesType DEF OnGroupStateChanged, OnRefresh, OnGroupMembers, OnCleared, Refreshes
<1>4. Event.g \in Groups /\ Event.g \in Owner /\ NoGroup \in Owner
  BY <1>1, <1>3, EventFields DEF Owner
<1>5. OnGroupStateChanged => Event.state \in GroupStates
  BY <1>1, ReceivesType, EventFields DEF OnGroupStateChanged
<1>6. cmds' \in Seq(AppCmd)
  <2>1. CASE OnGroupStateChanged
    <3>1. cmds' = cmds \/ Sends(AfterState(Event.g, Event.state))
      BY <2>1 DEF OnGroupStateChanged
    <3> QED BY <1>2, <1>4, <3>1, CommandTypes, SendsType
  <2>2. CASE OnCleared
    <3>1. cmds' = cmds
          \/ Sends(<<Cmd("GetEpochHistory", Event.g), Cmd("GetGroupMembers", Event.g)>>)
      BY <2>2 DEF OnCleared
    <3> QED BY <1>2, <1>4, <3>1, CommandTypes, SendsType
  <2>3. CASE OnRefresh \/ OnGroupMembers
    BY <1>2, <2>3 DEF OnRefresh, OnGroupMembers
  <2> QED BY <2>1, <2>2, <2>3
<1>7. /\ cons' \in ConsensusState
      /\ cons'.rejected = cons.rejected /\ cons'.elections = cons.elections
  <2>1. CASE OnGroupStateChanged
    BY <1>2, <1>4, <1>5, <2>1 DEF OnGroupStateChanged, ConsensusState
  <2>2. CASE OnRefresh
    <3>1. Event.e \in {"StewardStatus", "CurrentEpochProposals", "EpochHistory",
                       "GroupEpoch", "FreezeCandidates"}
      BY <2>2, ReceivesType DEF OnRefresh
    <3>2. cons' = cons \/ cons' = Refreshed(Event.g)
      BY <2>2 DEF OnRefresh
    <3> DEFINE g == Event.g
    <3>3. \/ cons' = cons \/ cons' = [cons EXCEPT !.steward = g]
          \/ cons' = [cons EXCEPT !.queue = g] \/ cons' = [cons EXCEPT !.history = g]
          \/ cons' = [cons EXCEPT !.epoch = g] \/ cons' = [cons EXCEPT !.freeze = g]
      BY <3>1, <3>2, RefreshedIs
    <3> HIDE DEF g
    <3>4. g \in Owner
      BY <1>4 DEF g
    <3> QED BY <1>2, <3>3, <3>4 DEF ConsensusState
  <2>3. CASE OnGroupMembers
    BY <1>2, <2>3 DEF OnGroupMembers
  <2>4. CASE OnCleared
    BY <1>2, <1>4, <2>4 DEF OnCleared, ConsensusState
  <2> QED BY <2>1, <2>2, <2>3, <2>4
<1>8. chat' \in [opened: Owner, members: Owner]
  BY <1>4 DEF TypeInv, TypeOK, OnGroupStateChanged, OnRefresh, OnGroupMembers, OnCleared
<1>9. UNCHANGED <<page, groups, logins, clicks>>
  BY <1>1 DEF OnGroupStateChanged, OnRefresh, OnGroupMembers, OnCleared
<1> QED BY <1>1, <1>6, <1>7, <1>8, <1>9, KeepsBridge DEF TypeInv, TypeOK

(* Votes and decisions.                                                    *)
LEMMA VoteEventType ==
    ASSUME TypeInv, OnVoteRequested \/ OnOwnProposalSubmitted \/ OnProposalDecided
    PROVE  TypeInv'
<1>1. /\ evts' \in Seq(AppEvent) /\ UNCHANGED <<restOfBridge, logins, clicks>>
      /\ Event \in AppEvent
      /\ Event.e \in {"VoteRequested", "OwnProposalSubmitted", "ProposalDecided"}
  BY ReceivesType DEF OnVoteRequested, OnOwnProposalSubmitted, OnProposalDecided
<1>2. /\ cmds \in Seq(AppCmd) /\ cons \in ConsensusState
      /\ Len(cons.rejected) <= MaxRecords /\ Len(cons.elections) <= MaxRecords
  BY DEF TypeInv, TypeOK, BridgeTypeOK
<1>3. Event.p \in Proposals
  BY <1>1, EventFields
<1>4. UNCHANGED <<cmds, page, groups, chat>>
  BY DEF OnVoteRequested, OnOwnProposalSubmitted, OnProposalDecided
<1>5. /\ cons' \in ConsensusState
      /\ Len(cons'.rejected) <= MaxRecords /\ Len(cons'.elections) <= MaxRecords
  <2>1. CASE OnVoteRequested \/ OnOwnProposalSubmitted
    <3>1. cons' = cons
          \/ cons' = [cons EXCEPT !.cache = @ \cup {Event.p}, !.votes = @ \cup {Event.p}]
          \/ cons' = [cons EXCEPT !.cache = @ \cup {Event.p}]
      BY <2>1 DEF OnVoteRequested, OnOwnProposalSubmitted
    <3>2. cons' \in ConsensusState
      <4>1. cons.votes \cup {Event.p} \in SUBSET Proposals
            /\ cons.cache \cup {Event.p} \in SUBSET Proposals
        BY <1>2, <1>3 DEF ConsensusState
      <4> DEFINE a == cons.cache \cup {Event.p}
                 b == cons.votes \cup {Event.p}
      <4>2. cons' = cons \/ cons' = [cons EXCEPT !.cache = a, !.votes = b]
            \/ cons' = [cons EXCEPT !.cache = a]
        BY <3>1
      <4> HIDE DEF a, b
      <4>3. a \in SUBSET Proposals /\ b \in SUBSET Proposals
        BY <4>1 DEF a, b
      <4> QED BY <1>2, <4>2, <4>3 DEF ConsensusState
    <3>3. cons'.rejected = cons.rejected /\ cons'.elections = cons.elections
      BY <1>2, <3>1 DEF ConsensusState
    <3> QED BY <1>2, <3>2, <3>3
  <2>2. CASE OnProposalDecided
    <3> DEFINE p == Event.p
               f == Filed(p, Event.accepted)
    <3>1. cons' = [f EXCEPT !.votes = @ \ {p}]
      BY <2>2 DEF OnProposalDecided
    <3>2. \/ f = cons
          \/ f = [cons EXCEPT !.cache = @ \ {p}, !.elections = Recorded(@, p)]
          \/ f = [cons EXCEPT !.cache = @ \ {p}, !.rejected = @]
          \/ f = [cons EXCEPT !.cache = @ \ {p}, !.rejected = Recorded(@, p)]
      BY DEF Filed
    <3>3. p \in Proposals
      BY <1>3
    <3> HIDE DEF p, f
    <3>4. /\ cons.rejected \in Seq(Proposals) /\ cons.elections \in Seq(Proposals)
      BY <1>2 DEF ConsensusState
    <3>5. /\ Recorded(cons.elections, p) \in Seq(Proposals)
          /\ Len(Recorded(cons.elections, p)) <= MaxRecords
          /\ Recorded(cons.rejected, p) \in Seq(Proposals)
          /\ Len(Recorded(cons.rejected, p)) <= MaxRecords
      BY <1>2, <3>3, <3>4, RecordedType
    <3>6. f \in ConsensusState
      BY <1>2, <3>2, <3>4, <3>5 DEF ConsensusState
    <3>7. /\ f.rejected \in {cons.rejected, Recorded(cons.rejected, p)}
          /\ f.elections \in {cons.elections, Recorded(cons.elections, p)}
      BY <1>2, <3>2 DEF ConsensusState
    <3>8. cons' \in ConsensusState /\ cons'.rejected = f.rejected /\ cons'.elections = f.elections
      BY <3>1, <3>6 DEF ConsensusState
    <3> QED BY <1>2, <3>5, <3>7, <3>8
  <2> QED BY <2>1, <2>2
<1> QED BY <1>1, <1>2, <1>4, <1>5, KeepsBridge DEF TypeInv, TypeOK

(* A click counts.                                                         *)
LEMMA ClicksType ==
    ASSUME TypeInv, NEW cs \in Seq(AppCmd), Clicks(cs)
    PROVE  /\ BridgeTypeOK' /\ (todo \in Seq(Reading))' /\ clicks' \in 0 .. MaxClicks
           /\ UNCHANGED <<evts, restOfBridge, page, logins>>
           /\ loop = "up" => cmds' = cmds \o cs
<1>1. cmds \in Seq(AppCmd) /\ evts \in Seq(AppEvent)
  BY DEF TypeInv, TypeOK, BridgeTypeOK
<1>2. UNCHANGED <<evts, restOfBridge, page, logins>> /\ Sends(cs)
  BY DEF Clicks
<1>3. cmds' \in Seq(AppCmd) /\ (loop = "up" => cmds' = cmds \o cs)
  BY <1>1, <1>2, SendsType
<1>4. clicks' \in 0 .. MaxClicks
  <2>1. MaxClicks \in Nat /\ clicks \in 0 .. MaxClicks /\ clicks < MaxClicks
        /\ clicks' = clicks + 1
    BY DesktopAssumption DEF TypeInv, TypeOK, Clicks
  <2> QED BY <2>1
<1>5. BridgeTypeOK' /\ (todo \in Seq(Reading))'
  <2>1. evts' \in Seq(AppEvent)
    BY <1>1, <1>2
  <2> QED BY <1>2, <1>3, <2>1, KeepsBridge
<1> QED BY <1>2, <1>3, <1>4, <1>5

(* The user.                                                               *)
LEMMA UserType ==
    ASSUME TypeInv, User PROVE TypeInv'
<1>1. cons \in ConsensusState /\ cmds \in Seq(AppCmd) /\ chat.opened \in Owner
      /\ evts \in Seq(AppEvent)
  BY DEF TypeInv, TypeOK, BridgeTypeOK
<1>2. ASSUME NEW g \in Groups, Opens(g)
      PROVE  /\ chat' \in [opened: Owner, members: Owner] /\ cons' \in ConsensusState
             /\ cons'.rejected = cons.rejected /\ cons'.elections = cons.elections
  BY <1>1, <1>2 DEF Opens, Owner, ConsensusState
<1>3. CASE SubmitLogin
  <2>1. <<[c |-> "Login"]>> \in Seq(AppCmd)
    BY CmdType, ShortSeq
  <2>2. cmds' \in Seq(AppCmd)
    BY <1>1, <1>3, <2>1, SendsType DEF SubmitLogin
  <2>3. logins' \in 0 .. MaxLogins
    <3>1. MaxLogins \in Nat /\ logins \in 0 .. MaxLogins /\ logins < MaxLogins
          /\ logins' = logins + 1
      BY <1>3, DesktopAssumption DEF TypeInv, TypeOK, SubmitLogin
    <3> QED BY <3>1
  <2>4. UNCHANGED restOfBridge /\ UNCHANGED <<evts, page, groups, chat, cons, clicks>>
    BY <1>3 DEF SubmitLogin
  <2> QED BY <1>1, <2>2, <2>3, <2>4, KeepsBridge DEF TypeInv, TypeOK
<1>4. CASE send_msg \/ open_ban_modal \/ submit_ban_request \/ ClickLeave
  <2>1. PICK c \in {"SendMessage", "GetGroupMembers", "SendBanRequest", "LeaveConversation"} :
            Asks(c)
    BY <1>4 DEF send_msg, open_ban_modal, submit_ban_request, ClickLeave
  <2>2. chat.opened \in Groups /\ Clicks(<<Cmd(c, chat.opened)>>)
        /\ UNCHANGED <<groups, chat, cons>>
    BY <1>1, <2>1 DEF Asks, Owner
  <2>3. <<Cmd(c, chat.opened)>> \in Seq(AppCmd)
    BY <2>2, CommandTypes
  <2> QED BY <2>2, <2>3, ClicksType DEF TypeInv, TypeOK
<1>5. ASSUME NEW g \in Groups, ClickOpen(g) PROVE TypeInv'
  <2>1. Opening(g) \in Seq(AppCmd)
    BY CommandTypes
  <2> QED BY <1>2, <1>5, <2>1, ClicksType DEF TypeInv, TypeOK, ClickOpen
<1>6. ASSUME NEW g \in Groups, modal_submit(g) PROVE TypeInv'
  <2>1. PICK c \in {"CreateGroup", "JoinGroup"} :
            Clicks(<<Cmd(c, g), [c |-> "ListGroups"]>> \o Opening(g))
    BY <1>6 DEF modal_submit
  <2>2. <<Cmd(c, g), [c |-> "ListGroups"]>> \o Opening(g) \in Seq(AppCmd)
    BY CommandTypes
  <2> QED BY <1>2, <1>6, <2>1, <2>2, ClicksType DEF TypeInv, TypeOK, modal_submit
<1>7. ASSUME NEW p \in Proposals, do_vote(p) PROVE TypeInv'
  <2>1. <<[c |-> "Vote", p |-> p]>> \in Seq(AppCmd)
    BY CmdType, ShortSeq
  <2>2. cons' \in ConsensusState
        /\ cons'.rejected = cons.rejected /\ cons'.elections = cons.elections
    BY <1>1, <1>7 DEF do_vote, ConsensusState
  <2> QED BY <1>7, <2>1, <2>2, ClicksType DEF TypeInv, TypeOK, do_vote
<1> QED BY <1>3, <1>4, <1>5, <1>6, <1>7 DEF User

(* Every step keeps the types.                                             *)
LEMMA NextType ==
    ASSUME TypeInv, [Next]_vars PROVE TypeInv'
<1>1. CASE BridgeNext /\ UNCHANGED uiVars
  <2>1. BridgeInv'
    BY <1>1, BridgeNextType DEF BridgeInv, TypeInv, TypeOK
  <2> QED BY <1>1, <2>1 DEF BridgeInv, TypeInv, TypeOK, uiVars
<1>2. CASE Reduce
  BY <1>2, AlertType, GroupsType, SignalType, VoteEventType DEF Reduce
<1>3. CASE User
  BY <1>3, UserType
<1>4. CASE UNCHANGED vars
  BY <1>4 DEF TypeInv, TypeOK, BridgeTypeOK, vars, bridgeVars, uiVars, loopVars, convVars
<1> QED BY <1>1, <1>2, <1>3, <1>4 DEF Next

(* The types hold along every behaviour.                                   *)
LEMMA TypesHold == Spec => []TypeInv
<1>1. Init => TypeInv
  BY InitType
<1>2. TypeInv /\ [Next]_vars => TypeInv'
  BY NextType
<1> QED BY <1>1, <1>2, PTL DEF Spec

(* What the two channels, the registry, the signals and the lists of the   *)
(* UI hold is well-typed, and neither the epoch history (MAX_EPOCH_HISTORY)*)
(* nor the lists of past decisions (MAX_VISIBLE_REJECTED,                  *)
(* MAX_VISIBLE_ELECTIONS) ever exceed their capacity, whatever it is.      *)
THEOREM TypeCorrect == Spec => []TypeOK
<1>1. TypeInv => TypeOK
  BY DEF TypeInv
<1> QED BY <1>1, TypesHold, PTL

------------------------------------------------------------------------------
(* What is on screen belongs to the opened group.                          *)

(* What a step of the reducer does to the opened group and to the data     *)
(* shown for it.                                                           *)
LEMMA ReduceShown ==
    ASSUME TypeInv, Reduce
    PROVE  /\ chat'.opened \in {NoGroup, chat.opened}
           /\ chat'.members \in {NoGroup, chat.members, chat.opened}
           /\ cons'.stateOf \in {cons.stateOf, chat.opened}
<1>1. cons \in ConsensusState /\ chat \in [opened: Owner, members: Owner]
  BY DEF TypeInv, TypeOK
<1>2. CASE OnLoggedIn \/ OnError \/ OnIgnored \/ OnGroups
  BY <1>2 DEF OnLoggedIn, OnError, OnIgnored, OnGroups
<1>3. CASE OnGroupStateChanged
  BY <1>1, <1>3 DEF OnGroupStateChanged, IsOpened, ConsensusState
<1>4. CASE OnRefresh
  <2>1. Event.e \in {"StewardStatus", "CurrentEpochProposals", "EpochHistory",
                     "GroupEpoch", "FreezeCandidates"}
    BY <1>4, ReceivesType DEF OnRefresh
  <2>2. (cons' = cons \/ cons' = Refreshed(Event.g)) /\ chat' = chat
    BY <1>4 DEF OnRefresh
  <2>3. cons'.stateOf = cons.stateOf
    BY <1>1, <2>1, <2>2, RefreshedFields
  <2> QED BY <2>2, <2>3
<1>5. CASE OnGroupMembers
  BY <1>1, <1>5 DEF OnGroupMembers, IsOpened
<1>6. CASE OnCleared
  BY <1>1, <1>6 DEF OnCleared, ConsensusState
<1>7. CASE OnVoteRequested \/ OnOwnProposalSubmitted
  BY <1>1, <1>7 DEF OnVoteRequested, OnOwnProposalSubmitted, ConsensusState
<1>8. CASE OnProposalDecided
  BY <1>1, <1>8, DecidedFields DEF OnProposalDecided
<1>9. CASE OnGroupRemoved
  BY <1>1, <1>9 DEF OnGroupRemoved
<1> QED BY <1>2, <1>3, <1>4, <1>5, <1>6, <1>7, <1>8, <1>9 DEF Reduce

(* What a click does to them.                                              *)
LEMMA UserShown ==
    ASSUME TypeInv, User
    PROVE  \/ chat' = chat /\ cons'.stateOf = cons.stateOf
           \/ chat'.members = NoGroup /\ cons'.stateOf = NoGroup
<1>1. cons \in ConsensusState
  BY DEF TypeInv, TypeOK
<1>2. CASE SubmitLogin \/ send_msg \/ open_ban_modal \/ submit_ban_request \/ ClickLeave
  BY <1>2 DEF SubmitLogin, send_msg, open_ban_modal, submit_ban_request, ClickLeave, Asks
<1>3. ASSUME NEW g \in Groups, ClickOpen(g) \/ modal_submit(g)
      PROVE  chat'.members = NoGroup /\ cons'.stateOf = NoGroup
  <2>1. /\ chat' = [opened |-> g, members |-> NoGroup]
        /\ cons' = [cons EXCEPT !.state = "", !.stateOf = NoGroup]
    BY <1>3 DEF ClickOpen, modal_submit, Opens
  <2> QED BY <1>1, <2>1 DEF ConsensusState
<1>4. ASSUME NEW p \in Proposals, do_vote(p)
      PROVE  chat' = chat /\ cons'.stateOf = cons.stateOf
  BY <1>1, <1>4 DEF do_vote, ConsensusState
<1> QED BY <1>2, <1>3, <1>4 DEF User

(* A member list or a state on screen belongs to the opened group, however *)
(* fast the user switches groups (open_group) and whatever late answers    *)
(* the reducer meets.                                                      *)
THEOREM ScreenIsOfOpened == Spec => []ShownIsOpened
<1>1. Init => ShownIsOpened
  <2>1. Init => chat.opened = NoGroup
    <3>1. Init => chat = [opened |-> NoGroup, members |-> NoGroup]
      BY DEF Init
    <3> QED BY <3>1
  <2> QED BY <2>1 DEF ShownIsOpened
<1>2. TypeInv /\ ShownIsOpened /\ [Next]_vars => ShownIsOpened'
  <2> SUFFICES ASSUME TypeInv, ShownIsOpened, [Next]_vars PROVE ShownIsOpened'
    OBVIOUS
  <2>1. CASE BridgeNext /\ UNCHANGED uiVars
    BY <2>1 DEF uiVars, ShownIsOpened
  <2>2. CASE Reduce
    BY <2>2, ReduceShown DEF ShownIsOpened
  <2>3. CASE User
    BY <2>3, UserShown DEF ShownIsOpened
  <2>4. CASE UNCHANGED vars
    BY <2>4 DEF vars, uiVars, ShownIsOpened
  <2> QED BY <2>1, <2>2, <2>3, <2>4 DEF Next
<1> QED BY <1>1, <1>2, TypesHold, PTL DEF Spec

------------------------------------------------------------------------------
(* The epoch history.                                                      *)

(* A batch is added at the end of the ring.                                *)
LEMMA CommitKeepsHistory ==
    ASSUME TypeInv, HistoryIsLatest, NEW g \in Groups, CommitApplied(g)
    PROVE  HistoryIsLatest'
<1>1. /\ history \in [Groups -> Seq(Nat)] /\ \A f \in Groups : Len(history[f]) <= MaxHistory
      /\ commits \in [Groups -> Nat]
  BY DEF TypeInv, TypeOK, BridgeTypeOK
<1> DEFINE n == commits[g] + 1
           h == HistoryPush(history[g], n)
<1>2. history' = [history EXCEPT ![g] = h] /\ commits' = [commits EXCEPT ![g] = n]
  BY DEF CommitApplied
<1>3. n \in Nat /\ n - 1 = commits[g] /\ history[g] \in Seq(Nat) /\ Len(history[g]) <= MaxHistory
  BY <1>1
<1>4. \A i \in DOMAIN history[g] : history[g][i] = n - 1 - Len(history[g]) + i
  <2>1. CASE history[g] = <<>>
    BY <2>1
  <2>2. CASE history[g] # <<>>
    BY <1>3, <2>2 DEF HistoryIsLatest
  <2> QED BY <2>1, <2>2
<1> HIDE DEF n
<1>5. \A i \in DOMAIN h : h[i] = n - Len(h) + i
  BY <1>3, <1>4, HistoryPushed
<1> HIDE DEF h
<1> SUFFICES ASSUME NEW f \in Groups, history'[f] # <<>>, NEW i \in DOMAIN history'[f]
             PROVE  history'[f][i] = commits'[f] - Len(history'[f]) + i
  BY DEF HistoryIsLatest
<1>6. CASE f = g
  <2>1. history'[f] = h /\ commits'[f] = n
    BY <1>1, <1>2, <1>6
  <2> QED BY <1>5, <2>1
<1>7. CASE f # g
  <2>1. history'[f] = history[f] /\ commits'[f] = commits[f]
    BY <1>1, <1>2, <1>7
  <2> QED BY <2>1 DEF HistoryIsLatest
<1> QED BY <1>6, <1>7

(* A conversation that ends takes its history with it, or leaves it.       *)
LEMMA LeavingKeepsHistory ==
    ASSUME TypeInv, HistoryIsLatest, NEW g \in Groups, Leaving(g) \/ Evicted(g)
    PROVE  HistoryIsLatest'
<1>1. history \in [Groups -> Seq(Nat)] /\ commits' = commits
  BY DEF TypeInv, TypeOK, BridgeTypeOK, Leaving, Evicted
<1>2. history' = [history EXCEPT ![g] = <<>>] \/ history' = history
  BY DEF Leaving, Evicted, Forgotten
<1> SUFFICES ASSUME NEW f \in Groups, history'[f] # <<>>, NEW i \in DOMAIN history'[f]
             PROVE  history'[f][i] = commits'[f] - Len(history'[f]) + i
  BY DEF HistoryIsLatest
<1>3. history'[f] = history[f]
  BY <1>1, <1>2
<1> QED BY <1>1, <1>3 DEF HistoryIsLatest

(* Every other step leaves the history and the batches alone.              *)
LEMMA OthersKeepHistory ==
    ASSUME [Next]_vars, ~\E g \in Groups : CommitApplied(g) \/ Leaving(g) \/ Evicted(g)
    PROVE  UNCHANGED <<history, commits>>
<1>1. CASE LoopStep
  BY <1>1 DEF LoopStep, LoopQuery, LoopRead, LoopPush, LoopLogin, LoopRegister, LoopRequest,
              LoopVote, LoopVoteFails, convVars
<1>2. CASE Conversations
  BY <1>2 DEF Conversations, PhaseChange, CommitRoundProgress, Trouble, RecoveryExhausted,
              Welcome, Abandon, Inbound, VoteRequested, OwnProposalSubmitted, AutoVote, ConsensusReached, handle
<1>3. CASE Reduce
  BY <1>3 DEF Reduce, OnLoggedIn, OnError, OnIgnored, OnGroups, OnGroupStateChanged, OnRefresh,
              OnGroupMembers, OnCleared, OnVoteRequested, OnOwnProposalSubmitted,
              OnProposalDecided, OnGroupRemoved, Receives, restOfBridge, convVars
<1>4. CASE User
  BY <1>4 DEF User, SubmitLogin, send_msg, open_ban_modal, submit_ban_request, ClickLeave, Asks,
              ClickOpen, modal_submit, do_vote, Clicks, restOfBridge, convVars
<1>5. CASE UNCHANGED vars
  BY <1>5 DEF vars, bridgeVars, convVars
<1> QED BY <1>1, <1>2, <1>3, <1>4, <1>5 DEF Next, BridgeNext

(* Whatever the capacity, the history of a group ends with the last batch  *)
(* the fan-out has handled and has no gap: get_epoch_history "returns up   *)
(* to the last 10 epochs", also after the oldest ones were dropped.        *)
THEOREM HistoryIsContiguous == Spec => []HistoryIsLatest
<1>1. Init => HistoryIsLatest
  <2> SUFFICES ASSUME Init, NEW g \in Groups PROVE history[g] = <<>>
    BY DEF HistoryIsLatest
  <2> QED BY DEF Init, BridgeInit
<1>2. TypeInv /\ HistoryIsLatest /\ [Next]_vars => HistoryIsLatest'
  <2> SUFFICES ASSUME TypeInv, HistoryIsLatest, [Next]_vars PROVE HistoryIsLatest'
    OBVIOUS
  <2>1. CASE \E g \in Groups : CommitApplied(g) \/ Leaving(g) \/ Evicted(g)
    BY <2>1, CommitKeepsHistory, LeavingKeepsHistory
  <2>2. CASE ~\E g \in Groups : CommitApplied(g) \/ Leaving(g) \/ Evicted(g)
    <3>1. UNCHANGED <<history, commits>>
      BY <2>2, OthersKeepHistory
    <3> QED BY <3>1 DEF HistoryIsLatest
  <2> QED BY <2>1, <2>2
<1> QED BY <1>1, <1>2, TypesHold, PTL DEF Spec

------------------------------------------------------------------------------
(* A decided proposal leaves the banner.                                   *)

(* Steps of the bridge: events are pushed, and a proposal that becomes     *)
(* decided has its decision among them.                                    *)
LEMMA PushKeepsVotes ==
    ASSUME TypeInv, VoteInv, UNCHANGED cons,
           NEW t \in Seq(AppEvent), evts' = evts \o t,
           \A p \in Proposals :
                /\ ~Meets(answer', Asking(p))
                /\ prop'[p] = "new" => prop[p] = "new" /\ ~Meets(t, Asking(p))
                /\ prop'[p] = "decided" =>
                    ~Meets(t, Asking(p)) /\ (prop[p] = "decided" \/ Meets(t, Deciding(p)))
    PROVE  VoteInv'
<1>1. evts \in Seq(AppEvent)
  BY DEF TypeInv, TypeOK, BridgeTypeOK
<1> SUFFICES ASSUME NEW p \in Proposals
             PROVE  /\ prop'[p] = "new" => p \notin cons.votes /\ ~Meets(evts', Asking(p))
                    /\ prop'[p] = "decided" =>
                        /\ Followed(evts', Asking(p), Deciding(p))
                        /\ p \in cons.votes => Meets(evts', Deciding(p))
  BY DEF VoteInv, Asking, Deciding
<1>2. ASSUME prop'[p] = "new" PROVE p \notin cons.votes /\ ~Meets(evts', Asking(p))
  <2>1. prop[p] = "new" /\ ~Meets(t, Asking(p))
    BY <1>2
  <2>2. p \notin cons.votes /\ ~Meets(evts, Asking(p))
    BY <2>1 DEF VoteInv
  <2> QED BY <1>1, <2>1, <2>2, MeetsConcat
<1>3. ASSUME prop'[p] = "decided"
      PROVE  /\ Followed(evts', Asking(p), Deciding(p))
             /\ p \in cons.votes => Meets(evts', Deciding(p))
  <2>1. ~Meets(t, Asking(p)) /\ (prop[p] = "decided" \/ Meets(t, Deciding(p)))
    BY <1>3
  <2>2. Followed(t, Asking(p), Deciding(p))
    BY <2>1, FollowedNothing
  <2>3. Followed(evts, Asking(p), Deciding(p)) \/ Meets(t, Deciding(p))
    BY <2>1 DEF VoteInv
  <2>4. Followed(evts', Asking(p), Deciding(p))
    BY <1>1, <2>2, <2>3, FollowedConcat
  <2>5. p \in cons.votes => Meets(evts, Deciding(p)) \/ Meets(t, Deciding(p))
    BY <2>1 DEF VoteInv
  <2> QED BY <1>1, <2>4, <2>5, MeetsConcat
<1> QED BY <1>2, <1>3

(* Steps of the reducer: a request enters the banner, a decision leaves it.*)
LEMMA TakeKeepsVotes ==
    ASSUME TypeInv, VoteInv, UNCHANGED <<answer, prop>>,
           evts # <<>>, evts' = Tail(evts),
           \A p \in cons'.votes :
                (p \in cons.votes /\ Event \notin Deciding(p)) \/ Event \in Asking(p)
    PROVE  VoteInv'
<1>1. evts \in Seq(AppEvent)
  BY DEF TypeInv, TypeOK, BridgeTypeOK
<1> SUFFICES ASSUME NEW p \in Proposals
             PROVE  /\ ~Meets(answer', Asking(p))
                    /\ prop'[p] = "new" => p \notin cons'.votes /\ ~Meets(evts', Asking(p))
                    /\ prop'[p] = "decided" =>
                        /\ Followed(evts', Asking(p), Deciding(p))
                        /\ p \in cons'.votes => Meets(evts', Deciding(p))
  BY DEF VoteInv, Asking, Deciding
<1>2. ~Meets(answer', Asking(p))
  BY DEF VoteInv
<1>3. ASSUME prop'[p] = "new" PROVE p \notin cons'.votes /\ ~Meets(evts', Asking(p))
  <2>1. p \notin cons.votes /\ ~Meets(evts, Asking(p))
    BY <1>3 DEF VoteInv
  <2> QED BY <1>1, <2>1, MeetsTail DEF Event
<1>4. ASSUME prop'[p] = "decided"
      PROVE  /\ Followed(evts', Asking(p), Deciding(p))
             /\ p \in cons'.votes => Meets(evts', Deciding(p))
  <2>1. Followed(evts, Asking(p), Deciding(p)) /\ (p \in cons.votes => Meets(evts, Deciding(p)))
    BY <1>4 DEF VoteInv
  <2>2. /\ Followed(evts', Asking(p), Deciding(p))
        /\ Event \in Asking(p) => Meets(evts', Deciding(p))
    BY <1>1, <2>1, FollowedTail DEF Event
  <2>3. p \in cons.votes /\ Event \notin Deciding(p) => Meets(evts', Deciding(p))
    BY <1>1, <2>1, MeetsTail DEF Event
  <2> QED BY <2>2, <2>3
<1> QED BY <1>2, <1>3, <1>4

(* The loop.                                                               *)
LEMMA LoopKeepsVotes ==
    ASSUME TypeInv, VoteInv, LoopStep, UNCHANGED uiVars PROVE VoteInv'
<1>1. /\ evts \in Seq(AppEvent) /\ answer \in Seq(AppEvent) /\ <<>> \in Seq(AppEvent)
      /\ cmds \in Seq(AppCmd) /\ BridgeTypeOK
      /\ evts \o <<>> = evts /\ UNCHANGED cons
  BY ConcatEmptySeq DEF TypeInv, TypeOK, BridgeTypeOK, uiVars
<1>2. /\ \A p : ~Meets(<<>>, Asking(p))
      /\ \A p \in Proposals : ~Meets(answer, Asking(p))
  BY MeetsNone DEF VoteInv
<1>3. CASE LoopPush
  <2>1. evts' = evts \o answer /\ answer' = <<>> /\ prop' = prop
    BY <1>3 DEF LoopPush, convVars
  <2> QED BY <1>1, <1>2, <2>1, PushKeepsVotes
<1>4. CASE ~LoopPush
  <2>1. evts' = evts \o <<>> /\ prop' = prop
    BY <1>1, <1>4 DEF LoopStep, LoopQuery, LoopRead, LoopLogin, LoopRegister,
                      LoopRequest, LoopVote, LoopVoteFails, convVars
  <2>2. \A p \in Proposals : ~Meets(answer', Asking(p))
    <3>1. CASE LoopQuery
      <4>1. Head(cmds) \in AppCmd /\ Head(cmds).c \in Queries \cup {"ListGroups"}
            /\ answer' \in AnswersTo(Head(cmds))
        BY <1>1, <3>1, ChannelType DEF LoopQuery, Takes, NextIs
      <4> QED BY <1>1, <4>1, AnswersType
    <3>2. CASE LoopRead
      <4>1. Head(todo) \in Reading /\ answer' = AnswerTo(Head(todo))
        BY <3>2, ChannelType DEF LoopRead, TypeInv
      <4> QED BY <1>1, <4>1, AnswerType DEF Reading
    <3>3. CASE LoopLogin \/ LoopRegister \/ LoopRequest \/ LoopVote \/ LoopVoteFails
      <4>1. answer' = answer \/ answer' = <<Failure>> \/ answer' = <<[e |-> "LoggedIn"]>>
        BY <3>3 DEF LoopLogin, LoopRegister, LoopRequest, LoopVote, LoopVoteFails
      <4>2. \A p : Failure \notin Asking(p) /\ [e |-> "LoggedIn"] \notin Asking(p)
        BY DEF Asking, Failure
      <4> QED BY <1>2, <4>1, <4>2, MeetsOne
    <3> QED BY <1>4, <3>1, <3>2, <3>3 DEF LoopStep
  <2> QED BY <1>1, <1>2, <2>1, <2>2, PushKeepsVotes
<1> QED BY <1>3, <1>4

(* The conversations.                                                      *)
LEMMA ConversationsKeepVotes ==
    ASSUME TypeInv, VoteInv, Conversations, UNCHANGED uiVars PROVE VoteInv'
<1>1. /\ evts \in Seq(AppEvent) /\ <<>> \in Seq(AppEvent) /\ evts \o <<>> = evts
      /\ prop \in [Proposals -> {"new", "open", "decided", "gone"}]
      /\ UNCHANGED cons
  BY ConcatEmptySeq DEF TypeInv, TypeOK, BridgeTypeOK, uiVars
<1>2. UNCHANGED answer
  BY DEF Conversations, PhaseChange, CommitApplied, CommitRoundProgress, Trouble, RecoveryExhausted,
         Leaving, Evicted, Welcome, Abandon, Inbound, VoteRequested, OwnProposalSubmitted, AutoVote,
         ConsensusReached, loopVars
<1>3. \A p \in Proposals : ~Meets(answer', Asking(p)) /\ ~Meets(<<>>, Asking(p))
  BY <1>2, MeetsNone DEF VoteInv
<1>4. \A x \in AppEvent : x.e # "VoteRequested" =>
        <<x>> \in Seq(AppEvent) /\ \A p : ~Meets(<<x>>, Asking(p))
  <2> SUFFICES ASSUME NEW x \in AppEvent, x.e # "VoteRequested"
               PROVE  <<x>> \in Seq(AppEvent) /\ \A p : ~Meets(<<x>>, Asking(p))
    OBVIOUS
  <2>1. \A p : x \notin Asking(p)
    BY DEF Asking
  <2> QED BY <2>1, MeetsOne, ShortSeq
<1>5. ASSUME NEW g \in Groups, PhaseChange(g) PROVE VoteInv'
  <2>1. PICK s \in Phases : handle(<<[e |-> "GroupStateChanged", g |-> g, state |-> s]>>)
    BY <1>5 DEF PhaseChange
  <2> DEFINE x == [e |-> "GroupStateChanged", g |-> g, state |-> s]
  <2>2. x \in AppEvent /\ x.e # "VoteRequested"
    BY EventType DEF GroupStates
  <2>3. evts' = evts \o <<x>> /\ prop' = prop
    BY <1>5, <2>1 DEF handle, PhaseChange
  <2> HIDE DEF x
  <2> QED BY <1>1, <1>3, <1>4, <2>2, <2>3, PushKeepsVotes
<1>6. ASSUME NEW g \in Groups, CommitApplied(g) \/ CommitRoundProgress(g) \/ Trouble(g)
      PROVE  VoteInv'
  <2>1. PICK x \in AppEvent : x.e # "VoteRequested" /\ evts' = evts \o <<x>>
    <3>1. /\ Evt("EpochHistory", g) \in AppEvent /\ Evt("FreezeCandidates", g) \in AppEvent
          /\ Evt("EpochHistory", g).e # "VoteRequested"
          /\ Evt("FreezeCandidates", g).e # "VoteRequested"
          /\ Failure \in AppEvent /\ Failure.e # "VoteRequested"
      BY EventType DEF Refreshes
    <3>2. Append(evts, Evt("EpochHistory", g)) = evts \o <<Evt("EpochHistory", g)>>
      BY <1>1, <3>1, ChannelType
    <3> QED BY <1>6, <3>1, <3>2 DEF CommitApplied, CommitRoundProgress, Trouble, handle
  <2>2. prop' = prop
    BY <1>6 DEF CommitApplied, CommitRoundProgress, Trouble
  <2> QED BY <1>1, <1>3, <1>4, <2>1, <2>2, PushKeepsVotes
<1>7. ASSUME NEW g \in Groups, Leaving(g) \/ Evicted(g) PROVE VoteInv'
  <2>1. \A p \in Proposals : prop'[p] \in {prop[p], "gone"}
    BY <1>7 DEF Leaving, Evicted
  <2> DEFINE x == Evt("GroupRemoved", g)
  <2>2. x \in AppEvent /\ x.e # "VoteRequested"
    BY EventType
  <2>3. evts' = evts \o <<x>> \/ evts' = evts \o <<>>
    <3>1. Append(evts, x) = evts \o <<x>>
      BY <1>1, <2>2, ChannelType
    <3>2. evts' = Append(evts, x) \/ evts' = evts
      BY <1>7 DEF Leaving, Evicted, Forgotten
    <3> QED BY <1>1, <3>1, <3>2
  <2> HIDE DEF x
  <2> QED BY <1>1, <1>3, <1>4, <2>1, <2>2, <2>3, PushKeepsVotes
<1>8. ASSUME NEW g \in Groups, Welcome(g) \/ Abandon(g) PROVE VoteInv'
  <2> DEFINE x == [e |-> "GroupStateChanged", g |-> g, state |-> "Working"]
  <2>1. x \in AppEvent /\ x.e # "VoteRequested"
    BY EventType, ProtocolAssumption DEF GroupStates
  <2>2. (evts' = evts \o <<x>> \/ evts' = evts \o <<>>) /\ prop' = prop
    BY <1>1, <1>8 DEF Welcome, Abandon, handle
  <2> HIDE DEF x
  <2> QED BY <1>1, <1>3, <1>4, <2>1, <2>2, PushKeepsVotes
<1>9. ASSUME NEW g \in Groups, Inbound(g) PROVE VoteInv'
  <2>1. PICK r \in Refresh(g) : evts' = evts \o r /\ prop' = prop
    BY <1>9 DEF Inbound, handle
  <2>2. r \in Seq(AppEvent) /\ \A p : ~Meets(r, Asking(p))
    BY RefreshType
  <2> QED BY <1>1, <1>3, <2>1, <2>2, PushKeepsVotes
<1>10. ASSUME NEW p \in Proposals, VoteRequested(p) PROVE VoteInv'
  <2> DEFINE x == [e |-> "VoteRequested", p |-> p]
             y == Evt("CurrentEpochProposalsCleared", GroupOf[p])
  <2>1. x \in AppEvent /\ y \in AppEvent
    BY EventType, ProtocolAssumption DEF Refreshes
  <2>2. \A q : q # p => x \notin Asking(q) /\ y \notin Asking(q)
    BY DEF Asking, Evt
  <2>3. evts' = evts \o <<x, y>> /\ prop' = [prop EXCEPT ![p] = "open"]
    BY <1>10 DEF VoteRequested, handle
  <2> HIDE DEF x, y
  <2>4. <<x, y>> \in Seq(AppEvent) /\ \A q : q # p => ~Meets(<<x, y>>, Asking(q))
    BY <2>1, <2>2, ShortSeq, MeetsTwo
  <2>5. \A q \in Proposals : IF q = p THEN prop'[q] = "open" ELSE prop'[q] = prop[q]
    BY <1>1, <2>3
  <2> QED BY <1>1, <1>3, <2>3, <2>4, <2>5, PushKeepsVotes
<1>11. ASSUME NEW p \in Proposals, OwnProposalSubmitted(p) \/ AutoVote(p) PROVE VoteInv'
  <2> DEFINE x == [e |-> "OwnProposalSubmitted", p |-> p]
  <2>1. x \in AppEvent /\ x.e # "VoteRequested"
    BY EventType
  <2>2. /\ evts' = evts \o <<x>> \/ evts' = evts \o <<>>
        /\ prop' = prop \/ prop' = [prop EXCEPT ![p] = "open"]
    BY <1>1, <1>11 DEF OwnProposalSubmitted, AutoVote, handle
  <2> HIDE DEF x
  <2>3. \A q \in Proposals : prop'[q] \in {prop[q], "open"}
    BY <1>1, <2>2
  <2> QED BY <1>1, <1>3, <1>4, <2>1, <2>2, <2>3, PushKeepsVotes
<1>12. ASSUME NEW p \in Proposals, ConsensusReached(p) PROVE VoteInv'
  <2>1. PICK a \in BOOLEAN, r \in Refresh(GroupOf[p]) :
            handle(<<[e |-> "ProposalDecided", p |-> p, accepted |-> a]>> \o r)
    BY <1>12 DEF ConsensusReached
  <2> DEFINE x == [e |-> "ProposalDecided", p |-> p, accepted |-> a]
  <2>2. x \in AppEvent /\ x.e = "ProposalDecided" /\ x.p = p
    BY EventType
  <2>3. r \in Seq(AppEvent) /\ \A q : ~Meets(r, Asking(q))
    BY RefreshType, ProtocolAssumption
  <2>4. evts' = evts \o (<<x>> \o r) /\ prop' = [prop EXCEPT ![p] = "decided"]
    BY <1>12, <2>1 DEF ConsensusReached, handle
  <2> HIDE DEF x
  <2>5. x \in Deciding(p)
    BY <2>2 DEF Deciding
  <2>6. <<x>> \in Seq(AppEvent) /\ (\A q : ~Meets(<<x>>, Asking(q))) /\ Meets(<<x>>, Deciding(p))
    BY <1>4, <2>2, <2>5, MeetsOne
  <2>7. /\ <<x>> \o r \in Seq(AppEvent)
        /\ \A q : ~Meets(<<x>> \o r, Asking(q))
        /\ Meets(<<x>> \o r, Deciding(p))
    BY <2>3, <2>6, MeetsConcat, ChannelType
  <2>8. \A q \in Proposals : IF q = p THEN prop'[q] = "decided" ELSE prop'[q] = prop[q]
    BY <1>1, <2>4
  <2> QED BY <1>1, <1>3, <2>4, <2>7, <2>8, PushKeepsVotes
<1> QED BY <1>5, <1>6, <1>7, <1>8, <1>9, <1>10, <1>11, <1>12
        DEF Conversations, RecoveryExhausted

(* The reducer.                                                            *)
LEMMA ReduceKeepsVotes ==
    ASSUME TypeInv, LoginInv, VoteInv, Reduce PROVE LoginInv' /\ VoteInv'
<1>1. cons \in ConsensusState
  BY DEF TypeInv, TypeOK
<1>2. PICK view, kinds : Receives(view, kinds)
  BY DEF Reduce, OnLoggedIn, OnError, OnIgnored, OnGroups, OnGroupStateChanged, OnRefresh,
         OnGroupMembers, OnCleared, OnVoteRequested, OnOwnProposalSubmitted,
         OnProposalDecided, OnGroupRemoved
<1>3. /\ evts # <<>> /\ evts' = Tail(evts) /\ Event \in AppEvent
      /\ UNCHANGED <<answer, prop>>
  BY <1>2, ReceivesType DEF restOfBridge, convVars
<1>4. LoginInv'
  <2>1. page = "login" /\ page' = "login" => UNCHANGED <<chat, cons>>
    BY DEF Reduce, OnLoggedIn, OnError, OnIgnored, OnGroups, OnGroupStateChanged, OnRefresh,
           OnGroupMembers, OnCleared, OnVoteRequested, OnOwnProposalSubmitted,
           OnProposalDecided, OnGroupRemoved, Receives
  <2>2. page' = "login" => page = "login"
    BY DEF Reduce, OnLoggedIn, OnError, OnIgnored, OnGroups, OnGroupStateChanged, OnRefresh,
           OnGroupMembers, OnCleared, OnVoteRequested, OnOwnProposalSubmitted,
           OnProposalDecided, OnGroupRemoved, Receives
  <2> QED BY <2>1, <2>2 DEF LoginInv
<1>5. \A p \in cons'.votes :
        (p \in cons.votes /\ Event \notin Deciding(p)) \/ Event \in Asking(p)
  <2>1. CASE OnIgnored
    <3>1. UNCHANGED cons /\ (page = "login" \/ Event.e = "LoggedIn")
      BY <2>1 DEF OnIgnored
    <3> QED BY <3>1 DEF LoginInv, Deciding
  <2>2. CASE OnLoggedIn \/ OnError \/ OnGroups \/ OnGroupMembers \/ OnGroupRemoved
    <3>1. UNCHANGED cons /\ Event.e # "ProposalDecided"
      BY <2>2, ReceivesType DEF OnLoggedIn, OnError, OnGroups, OnGroupMembers, OnGroupRemoved
    <3> QED BY <3>1 DEF Deciding
  <2>3. CASE OnGroupStateChanged \/ OnCleared \/ OnOwnProposalSubmitted
    <3>1. Event.e # "ProposalDecided"
      BY <2>3, ReceivesType DEF OnGroupStateChanged, OnCleared, OnOwnProposalSubmitted
    <3>2. cons'.votes = cons.votes
      BY <1>1, <2>3 DEF OnGroupStateChanged, OnCleared, OnOwnProposalSubmitted, ConsensusState
    <3> QED BY <3>1, <3>2 DEF Deciding
  <2>4. CASE OnRefresh
    <3>1. Event.e \in {"StewardStatus", "CurrentEpochProposals", "EpochHistory",
                       "GroupEpoch", "FreezeCandidates"}
      BY <2>4, ReceivesType DEF OnRefresh
    <3>2. cons' = cons \/ cons' = Refreshed(Event.g)
      BY <2>4 DEF OnRefresh
    <3>3. cons'.votes = cons.votes
      BY <1>1, <3>1, <3>2, RefreshedFields
    <3> QED BY <3>1, <3>3 DEF Deciding
  <2>5. CASE OnVoteRequested
    <3>1. Event.e = "VoteRequested"
      BY <2>5, ReceivesType DEF OnVoteRequested
    <3>2. cons'.votes = cons.votes \/ cons'.votes = cons.votes \cup {Event.p}
      BY <1>1, <2>5 DEF OnVoteRequested, ConsensusState
    <3> QED BY <1>3, <3>1, <3>2 DEF Asking, Deciding
  <2>6. CASE OnProposalDecided
    <3>1. cons'.votes = cons.votes \ {Event.p}
      BY <1>1, <2>6, DecidedFields
    <3> QED BY <3>1 DEF Deciding
  <2> QED BY <2>1, <2>2, <2>3, <2>4, <2>5, <2>6 DEF Reduce
<1> QED BY <1>3, <1>4, <1>5, TakeKeepsVotes

(* The user.                                                               *)
LEMMA UserKeepsVotes ==
    ASSUME TypeInv, LoginInv, VoteInv, User PROVE LoginInv' /\ VoteInv'
<1>1. cons \in ConsensusState
  BY DEF TypeInv, TypeOK
<1>2. UNCHANGED <<evts, answer, prop, page>>
  BY DEF User, SubmitLogin, send_msg, open_ban_modal, submit_ban_request, ClickLeave, Asks,
         ClickOpen, modal_submit, do_vote, Clicks, restOfBridge, convVars
<1>3. cons'.votes \subseteq cons.votes
  <2>1. CASE SubmitLogin \/ send_msg \/ open_ban_modal \/ submit_ban_request \/ ClickLeave
    BY <2>1 DEF SubmitLogin, send_msg, open_ban_modal, submit_ban_request, ClickLeave, Asks
  <2>2. ASSUME NEW g \in Groups, ClickOpen(g) \/ modal_submit(g)
        PROVE  cons'.votes = cons.votes
    <3>1. cons' = [cons EXCEPT !.state = "", !.stateOf = NoGroup]
      BY <2>2 DEF ClickOpen, modal_submit, Opens
    <3> QED BY <1>1, <3>1 DEF ConsensusState
  <2>3. ASSUME NEW p \in Proposals, do_vote(p) PROVE cons'.votes \subseteq cons.votes
    BY <1>1, <2>3 DEF do_vote, ConsensusState
  <2> QED BY <2>1, <2>2, <2>3 DEF User
<1>4. page = "login" => UNCHANGED chat
  BY DEF User, SubmitLogin, send_msg, open_ban_modal, submit_ban_request, ClickLeave, Asks,
         ClickOpen, modal_submit, do_vote, Clicks
<1>5. LoginInv'
  BY <1>2, <1>3, <1>4 DEF LoginInv
<1>6. VoteInv'
  BY <1>2, <1>3 DEF VoteInv, Asking, Deciding
<1> QED BY <1>5, <1>6

(* The invariant of the banner.                                            *)
LEMMA VotesHold == Spec => [](TypeInv /\ LoginInv /\ VoteInv)
<1>1. Init => LoginInv /\ VoteInv
  <2> SUFFICES ASSUME Init PROVE LoginInv /\ VoteInv
    OBVIOUS
  <2>1. answer = <<>> /\ evts = <<>> /\ prop = [p \in Proposals |-> "new"]
    BY DEF Init, BridgeInit
  <2>2. chat = [opened |-> NoGroup, members |-> NoGroup] /\ cons.votes = {}
    BY DEF Init
  <2>3. \A p : ~Meets(answer, Asking(p)) /\ ~Meets(evts, Asking(p))
    BY <2>1, MeetsNone
  <2> QED BY <2>1, <2>2, <2>3 DEF LoginInv, VoteInv
<1>2. TypeInv /\ LoginInv /\ VoteInv /\ [Next]_vars => LoginInv' /\ VoteInv'
  <2> SUFFICES ASSUME TypeInv, LoginInv, VoteInv, [Next]_vars PROVE LoginInv' /\ VoteInv'
    OBVIOUS
  <2>1. CASE BridgeNext /\ UNCHANGED uiVars
    <3>1. LoginInv'
      BY <2>1 DEF uiVars, LoginInv
    <3> QED BY <2>1, <3>1, LoopKeepsVotes, ConversationsKeepVotes DEF BridgeNext
  <2>2. CASE Reduce
    BY <2>2, ReduceKeepsVotes
  <2>3. CASE User
    BY <2>3, UserKeepsVotes
  <2>4. CASE UNCHANGED vars
    <3>1. UNCHANGED <<evts, answer, prop, page, chat, cons>>
      BY <2>4 DEF vars, bridgeVars, loopVars, convVars, uiVars
    <3> QED BY <3>1 DEF LoginInv, VoteInv, Asking, Deciding
  <2> QED BY <2>1, <2>2, <2>3, <2>4 DEF Next
<1> QED BY <1>1, <1>2, TypesHold, PTL DEF Spec

(* A vote that can no longer be cast does not stay in the banner: as long  *)
(* as a decided proposal is offered, its ProposalDecided is in the event   *)
(* channel, and the reducer removes the vote when it comes.                *)
THEOREM DecisionsReachBanner == Spec => []DecidedLeavesBanner
<1>1. TypeInv /\ VoteInv => DecidedLeavesBanner
  <2> SUFFICES ASSUME TypeInv, VoteInv, NEW p \in cons.votes, prop[p] = "decided"
               PROVE  \E i \in DOMAIN evts : evts[i].e = "ProposalDecided" /\ evts[i].p = p
    BY DEF DecidedLeavesBanner
  <2>1. p \in Proposals
    BY DEF TypeInv, TypeOK, ConsensusState
  <2>2. Meets(evts, Deciding(p))
    BY <2>1 DEF VoteInv
  <2> QED BY <2>2 DEF Meets, Deciding
<1> QED BY <1>1, VotesHold, PTL

------------------------------------------------------------------------------
(* What survives a switch of groups is refreshed.                          *)

(* The channels grow.                                                      *)
LEMMA GrowUnderWay ==
    ASSUME TypeInv, NEW t \in Seq(AppEvent), evts' = evts \o t,
           NEW cs \in Seq(AppCmd), cmds' = cmds \o cs, answer' = answer,
           NEW r, NEW k, NEW g
    PROVE  UnderWay(r, k, g) \/ Meets(cs, Reads(r, g)) => UnderWay(r, k, g)'
<1>1. evts \in Seq(AppEvent) /\ cmds \in Seq(AppCmd)
  BY DEF TypeInv, TypeOK, BridgeTypeOK
<1>2. Meets(evts', Tells(k, g)) <=> Meets(evts, Tells(k, g)) \/ Meets(t, Tells(k, g))
  BY <1>1, MeetsConcat
<1>3. Meets(cmds', Reads(r, g)) <=> Meets(cmds, Reads(r, g)) \/ Meets(cs, Reads(r, g))
  BY <1>1, MeetsConcat
<1> QED BY <1>2, <1>3 DEF UnderWay, Tells, Reads

(* The UI takes an event that tells something else.                        *)
LEMMA TakeUnderWay ==
    ASSUME TypeInv, evts # <<>>, evts' = Tail(evts),
           NEW cs \in Seq(AppCmd), cmds' = cmds \o cs, answer' = answer,
           NEW r, NEW k, NEW g, Event \notin Tells(k, g), UnderWay(r, k, g)
    PROVE  UnderWay(r, k, g)'
<1>1. evts \in Seq(AppEvent) /\ cmds \in Seq(AppCmd)
  BY DEF TypeInv, TypeOK, BridgeTypeOK
<1>2. Meets(evts, Tells(k, g)) => Meets(evts', Tells(k, g))
  BY <1>1, MeetsTail DEF Event
<1>3. Meets(cmds, Reads(r, g)) => Meets(cmds', Reads(r, g))
  BY <1>1, MeetsConcat
<1> QED BY <1>2, <1>3 DEF UnderWay, Tells, Reads

(* The loop takes a command, and answers a read.                           *)
LEMMA LoopUnderWay ==
    ASSUME TypeInv, cmds # <<>>, cmds' = Tail(cmds), answer = <<>>, evts' = evts,
           NEW r, NEW k, NEW g, UnderWay(r, k, g),
           Head(cmds) \in Reads(r, g) => Meets(answer', Tells(k, g))
    PROVE  UnderWay(r, k, g)'
<1>1. cmds \in Seq(AppCmd)
  BY DEF TypeInv, TypeOK, BridgeTypeOK
<1>2. Meets(cmds, Reads(r, g)) => Head(cmds) \in Reads(r, g) \/ Meets(cmds', Reads(r, g))
  BY <1>1, MeetsTail
<1>3. ~Meets(answer, Tells(k, g))
  BY MeetsNone
<1> QED BY <1>2, <1>3 DEF UnderWay, Tells, Reads

(* A command is taken: what must follow a registration is still there.     *)
LEMMA TakeKeepsReads ==
    ASSUME TypeInv, ReadInv, cmds # <<>>, cmds' = Tail(cmds)
    PROVE  /\ ReadInv'
           /\ \A g \in Groups : Head(cmds) \in Registers(g) =>
                /\ Meets(cmds', Reads("GetStewardStatus", g))
                /\ Meets(cmds', Reads("GetCurrentEpochProposals", g))
<1>1. cmds \in Seq(AppCmd)
  BY DEF TypeInv, TypeOK, BridgeTypeOK
<1>2. ASSUME NEW g \in Groups
      PROVE  /\ Followed(cmds', Registers(g), Reads("GetStewardStatus", g))
             /\ Followed(cmds', Registers(g), Reads("GetCurrentEpochProposals", g))
             /\ Head(cmds) \in Registers(g) =>
                /\ Meets(cmds', Reads("GetStewardStatus", g))
                /\ Meets(cmds', Reads("GetCurrentEpochProposals", g))
  BY <1>1, FollowedTail DEF ReadInv
<1> QED BY <1>2 DEF ReadInv, Registers, Reads

(* A command that is not a read answers nothing that is awaited.           *)
LEMMA OtherUnderWay ==
    ASSUME TypeInv, ReadInv, NEW kinds, Takes(kinds), evts' = evts,
           kinds \cap Queries = {}
    PROVE  /\ \A g : UnderWay("GetEpochHistory", "EpochHistory", g)
                     => UnderWay("GetEpochHistory", "EpochHistory", g)'
           /\ \A g : UnderWay("GetStewardStatus", "StewardStatus", g)
                     => UnderWay("GetStewardStatus", "StewardStatus", g)'
           /\ \A g : UnderWay("GetCurrentEpochProposals", "CurrentEpochProposals", g)
                     => UnderWay("GetCurrentEpochProposals", "CurrentEpochProposals", g)'
<1>1. cmds # <<>> /\ cmds' = Tail(cmds) /\ answer = <<>> /\ Head(cmds).c \notin Queries
  BY DEF Takes, NextIs
<1>2. \A g : /\ Head(cmds) \notin Reads("GetEpochHistory", g)
             /\ Head(cmds) \notin Reads("GetStewardStatus", g)
             /\ Head(cmds) \notin Reads("GetCurrentEpochProposals", g)
  BY <1>1 DEF Reads, Queries
<1> QED BY <1>1, <1>2, LoopUnderWay

(* The loop's queries.                                                     *)
LEMMA QueryKeepsFresh ==
    ASSUME TypeInv, ReadInv, FreshInv, LoopQuery, UNCHANGED uiVars
    PROVE  ReadInv' /\ FreshInv'
<1>1. /\ cmds # <<>> /\ cmds' = Tail(cmds) /\ answer = <<>> /\ evts' = evts
      /\ Head(cmds).c \in Queries \cup {"ListGroups"} /\ answer' \in AnswersTo(Head(cmds))
      /\ UNCHANGED <<loop, user, status, chat, cons>>
  BY DEF LoopQuery, Takes, NextIs, uiVars
<1>2. Head(cmds) \in AppCmd /\ BridgeTypeOK
  BY <1>1, ChannelType DEF TypeInv, TypeOK, BridgeTypeOK
<1>3. ReadInv'
  BY <1>1, TakeKeepsReads
<1>4. ASSUME NEW g \in Groups
      PROVE  /\ Head(cmds) \in Reads("GetEpochHistory", g)
                => Meets(answer', Tells("EpochHistory", g))
             /\ Located(g) # "absent" /\ Head(cmds) \in Reads("GetStewardStatus", g)
                => Meets(answer', Tells("StewardStatus", g))
             /\ Located(g) # "absent" /\ Head(cmds) \in Reads("GetCurrentEpochProposals", g)
                => Meets(answer', Tells("CurrentEpochProposals", g))
  BY <1>1, <1>2, AnswersType DEF Reads
<1>5. ASSUME NEW g \in Groups, HistoryFresh(g) PROVE HistoryFresh(g)'
  BY <1>1, <1>4, <1>5, LoopUnderWay DEF HistoryFresh
<1>6. ASSUME NEW g \in Groups, Located(g) # "absent", StewardFresh(g) PROVE StewardFresh(g)'
  BY <1>1, <1>4, <1>6, LoopUnderWay DEF StewardFresh
<1>7. ASSUME NEW g \in Groups, Located(g) # "absent", QueueFresh(g) PROVE QueueFresh(g)'
  BY <1>1, <1>4, <1>7, LoopUnderWay DEF QueueFresh
<1>8. \A g \in Groups : Located(g)' = Located(g)
  BY <1>1 DEF Located
<1> QED BY <1>1, <1>3, <1>5, <1>6, <1>7, <1>8 DEF FreshInv

(* The follow-up reads and the pushes.                                     *)
LEMMA PushKeepsFresh ==
    ASSUME TypeInv, ReadInv, FreshInv, LoopRead \/ LoopPush, UNCHANGED uiVars
    PROVE  ReadInv' /\ FreshInv'
<1>1. /\ UNCHANGED <<cmds, loop, user, status, chat, cons>>
      /\ evts \in Seq(AppEvent) /\ answer \in Seq(AppEvent)
  BY DEF LoopRead, LoopPush, uiVars, TypeInv, TypeOK, BridgeTypeOK
<1>2. ReadInv'
  BY <1>1 DEF ReadInv, Registers, Reads
<1>3. ASSUME NEW r, NEW k, NEW g, UnderWay(r, k, g) PROVE UnderWay(r, k, g)'
  <2>1. CASE LoopRead
    <3>1. answer = <<>> /\ evts' = evts
      BY <2>1 DEF LoopRead
    <3>2. ~Meets(answer, Tells(k, g))
      BY <3>1, MeetsNone
    <3> QED BY <1>1, <1>3, <3>1, <3>2 DEF UnderWay, Tells, Reads
  <2>2. CASE LoopPush
    <3>1. evts' = evts \o answer
      BY <2>2 DEF LoopPush
    <3>2. Meets(evts', Tells(k, g)) <=> Meets(evts, Tells(k, g)) \/ Meets(answer, Tells(k, g))
      BY <1>1, <3>1, MeetsConcat
    <3> QED BY <1>1, <1>3, <3>2 DEF UnderWay, Tells, Reads
  <2> QED BY <2>1, <2>2
<1>4. \A g \in Groups : Located(g)' = Located(g)
  BY <1>1 DEF Located
<1>5. \A g \in Groups : /\ HistoryFresh(g) => HistoryFresh(g)'
                        /\ StewardFresh(g) => StewardFresh(g)'
                        /\ QueueFresh(g) => QueueFresh(g)'
  BY <1>1, <1>3 DEF HistoryFresh, StewardFresh, QueueFresh
<1> QED BY <1>1, <1>2, <1>4, <1>5 DEF FreshInv

(* Logins, requests and votes.  A new user has an empty registry; a failed *)
(* vote ends the loop.                                                     *)
LEMMA OtherKeepsFresh ==
    ASSUME TypeInv, ReadInv, FreshInv, UNCHANGED uiVars,
           LoopLogin \/ LoopRequest \/ LoopVote \/ LoopVoteFails
    PROVE  ReadInv' /\ FreshInv'
<1>1. CASE LoopLogin \/ LoopRequest \/ LoopVote
  <2>1. PICK kinds \in {{"Login"}, Requests, {"Vote"}} : Takes(kinds)
    BY <1>1 DEF LoopLogin, LoopRequest, LoopVote
  <2>2. kinds \cap Queries = {}
    BY <2>1 DEF Queries, Requests
  <2>3. cmds # <<>> /\ cmds' = Tail(cmds) /\ UNCHANGED <<evts, loop, chat, cons>>
    BY <1>1, <2>1 DEF LoopLogin, LoopRequest, LoopVote, Takes, NextIs, uiVars
  <2>4. ReadInv'
    BY <2>3, TakeKeepsReads
  <2>5. \A g \in Groups : Located(g)' # "absent" => Located(g) # "absent"
    <3>1. CASE UNCHANGED <<user, status>>
      BY <3>1 DEF Located
    <3>2. CASE status' = [g \in Groups |-> "absent"]
      BY <3>2 DEF Located
    <3> QED BY <1>1, <3>1, <3>2 DEF LoopLogin, LoopRequest, LoopVote
  <2>6. \A g \in Groups : /\ HistoryFresh(g) => HistoryFresh(g)'
                          /\ StewardFresh(g) => StewardFresh(g)'
                          /\ QueueFresh(g) => QueueFresh(g)'
    BY <2>1, <2>2, <2>3, OtherUnderWay DEF HistoryFresh, StewardFresh, QueueFresh
  <2> QED BY <2>3, <2>4, <2>5, <2>6 DEF FreshInv
<1>2. CASE LoopVoteFails
  <2>1. cmds' = <<>> /\ loop' = "dead"
    BY <1>2 DEF LoopVoteFails
  <2>2. \A X : ~Meets(cmds', X)
    BY <2>1, MeetsNone
  <2>3. \A X, Y : Followed(cmds', X, Y)
    BY <2>2, FollowedNothing
  <2> QED BY <2>1, <2>3 DEF ReadInv, FreshInv, Registers, Reads
<1> QED BY <1>1, <1>2

(* A registration: the reads sent with it are still in the channel.        *)
LEMMA RegisterKeepsFresh ==
    ASSUME TypeInv, ReadInv, FreshInv, LoopRegister, UNCHANGED uiVars
    PROVE  ReadInv' /\ FreshInv'
<1>1. /\ cmds # <<>> /\ cmds' = Tail(cmds) /\ Takes({"CreateGroup", "JoinGroup"})
      /\ Head(cmds).c \in {"CreateGroup", "JoinGroup"}
      /\ UNCHANGED <<evts, loop, user, chat, cons>>
  BY DEF LoopRegister, Takes, NextIs, uiVars
<1>2. /\ ReadInv'
      /\ \A g \in Groups : Head(cmds) \in Registers(g) =>
            /\ Meets(cmds', Reads("GetStewardStatus", g))
            /\ Meets(cmds', Reads("GetCurrentEpochProposals", g))
  BY <1>1, TakeKeepsReads
<1>3. Head(cmds) \in AppCmd /\ status \in [Groups -> {"absent", "pending", "live", "leaving"}]
  BY <1>1, ChannelType DEF TypeInv, TypeOK, BridgeTypeOK
<1>4. \A g \in Groups : /\ HistoryFresh(g) => HistoryFresh(g)'
                        /\ StewardFresh(g) => StewardFresh(g)'
                        /\ QueueFresh(g) => QueueFresh(g)'
  <2>1. {"CreateGroup", "JoinGroup"} \cap Queries = {}
    BY DEF Queries
  <2> QED BY <1>1, <2>1, OtherUnderWay DEF HistoryFresh, StewardFresh, QueueFresh
<1>5. ASSUME NEW g \in Groups, Head(cmds).g = g PROVE StewardFresh(g)' /\ QueueFresh(g)'
  <2>1. Head(cmds) \in Registers(g)
    BY <1>1, <1>3, <1>5 DEF Registers
  <2> QED BY <1>2, <2>1 DEF StewardFresh, QueueFresh, UnderWay, Reads, Tells
<1>6. ASSUME NEW g \in Groups, Head(cmds).g # g PROVE Located(g)' = Located(g)
  <2>1. status' = status \/ \E x : status' = [status EXCEPT ![Head(cmds).g] = x]
    BY DEF LoopRegister
  <2>2. status'[g] = status[g]
    BY <1>3, <1>6, <2>1
  <2> QED BY <1>1, <2>2 DEF Located
<1> QED BY <1>1, <1>2, <1>4, <1>5, <1>6 DEF FreshInv

(* A conversation pushes events, and registers nothing.                    *)
LEMMA ConversationEffect ==
    ASSUME TypeInv, Conversations
    PROVE  /\ \E t \in Seq(AppEvent) : evts' = evts \o t
           /\ UNCHANGED loopVars
           /\ \A g \in Groups : Located(g)' # "absent" => Located(g) # "absent"
<1>1. UNCHANGED loopVars
  BY DEF Conversations, PhaseChange, CommitApplied, CommitRoundProgress, Trouble, RecoveryExhausted,
         Leaving, Evicted, Welcome, Abandon, Inbound, VoteRequested, OwnProposalSubmitted, AutoVote,
         ConsensusReached
<1>2. evts \in Seq(AppEvent) /\ <<>> \in Seq(AppEvent) /\ evts \o <<>> = evts
      /\ status \in [Groups -> {"absent", "pending", "live", "leaving"}]
      /\ phase \in [Groups -> Phases]
  BY ConcatEmptySeq DEF TypeInv, TypeOK, BridgeTypeOK
<1>3. \A g \in Groups : Located(g)' # "absent" => Located(g) # "absent"
  <2>1. UNCHANGED user
    BY <1>1 DEF loopVars
  <2>2. \/ status' = status
        \/ \E g \in Groups : status' = [status EXCEPT ![g] = "absent"]
        \/ \E g \in Groups : status[g] = "pending" /\ status' = [status EXCEPT ![g] = "live"]
        \/ \E g \in Groups : status[g] = "live" /\ status' = [status EXCEPT ![g] = "leaving"]
    BY DEF Conversations, PhaseChange, CommitApplied, CommitRoundProgress, Trouble, RecoveryExhausted,
           Leaving, Evicted, Welcome, Abandon, Inbound, VoteRequested, OwnProposalSubmitted, AutoVote,
           ConsensusReached, ConvStep, JoinStep
  <2>3. \A g \in Groups : status'[g] # "absent" => status[g] # "absent"
    BY <1>2, <2>2
  <2> QED BY <2>1, <2>3 DEF Located
<1>4. ASSUME NEW t \in Seq(AppEvent), handle(t) PROVE \E u \in Seq(AppEvent) : evts' = evts \o u
  BY <1>4 DEF handle
<1>5. ASSUME NEW g \in Groups, PhaseChange(g) PROVE \E t \in Seq(AppEvent) : evts' = evts \o t
  <2>1. PICK s \in Phases : handle(<<[e |-> "GroupStateChanged", g |-> g, state |-> s]>>)
    BY <1>5 DEF PhaseChange
  <2>2. [e |-> "GroupStateChanged", g |-> g, state |-> s] \in AppEvent
    BY EventType DEF GroupStates
  <2> QED BY <1>4, <2>1, <2>2, ShortSeq
<1>6. ASSUME NEW g \in Groups,
             CommitApplied(g) \/ CommitRoundProgress(g) \/ Trouble(g) \/ Leaving(g)
             \/ Evicted(g)
      PROVE  \E t \in Seq(AppEvent) : evts' = evts \o t
  <2>1. /\ Evt("EpochHistory", g) \in AppEvent /\ Evt("FreezeCandidates", g) \in AppEvent
        /\ Failure \in AppEvent /\ Evt("GroupRemoved", g) \in AppEvent
    BY EventType DEF Refreshes
  <2>2. /\ Append(evts, Evt("EpochHistory", g)) = evts \o <<Evt("EpochHistory", g)>>
        /\ Append(evts, Evt("GroupRemoved", g)) = evts \o <<Evt("GroupRemoved", g)>>
    BY <1>2, <2>1, ChannelType
  <2>3. evts' = evts \o <<>> \/ \E x \in AppEvent : evts' = evts \o <<x>>
    BY <1>2, <1>6, <2>1, <2>2 DEF CommitApplied, CommitRoundProgress, Trouble, Leaving, Evicted,
                                       Forgotten, handle
  <2> QED BY <1>2, <2>3, ShortSeq
<1>7. ASSUME NEW g \in Groups, Welcome(g) \/ Abandon(g) \/ Inbound(g)
      PROVE  \E t \in Seq(AppEvent) : evts' = evts \o t
  <2>1. [e |-> "GroupStateChanged", g |-> g, state |-> "Working"] \in AppEvent
    BY EventType, ProtocolAssumption DEF GroupStates
  <2>2. /\ <<[e |-> "GroupStateChanged", g |-> g, state |-> "Working"]>> \in Seq(AppEvent)
        /\ \A r \in Refresh(g) : r \in Seq(AppEvent)
    BY <2>1, ShortSeq, RefreshType
  <2>3. CASE Welcome(g)
    BY <1>2, <1>4, <2>2, <2>3 DEF Welcome
  <2>4. CASE Abandon(g)
    BY <1>2, <2>4 DEF Abandon
  <2>5. CASE Inbound(g)
    BY <1>4, <2>2, <2>5 DEF Inbound
  <2> QED BY <1>7, <2>3, <2>4, <2>5
<1>8. ASSUME NEW p \in Proposals,
             VoteRequested(p) \/ OwnProposalSubmitted(p) \/ AutoVote(p) \/ ConsensusReached(p)
      PROVE  \E t \in Seq(AppEvent) : evts' = evts \o t
  <2>1. GroupOf[p] \in Groups
    BY ProtocolAssumption
  <2>2. CASE VoteRequested(p)
    <3>1. [e |-> "VoteRequested", p |-> p] \in AppEvent
          /\ Evt("CurrentEpochProposalsCleared", GroupOf[p]) \in AppEvent
      BY <2>1, EventType DEF Refreshes
    <3> QED BY <1>4, <2>2, <3>1, ShortSeq DEF VoteRequested
  <2>3. CASE OwnProposalSubmitted(p)
    <3>1. [e |-> "OwnProposalSubmitted", p |-> p] \in AppEvent
      BY EventType
    <3> QED BY <1>4, <2>3, <3>1, ShortSeq DEF OwnProposalSubmitted
  <2>4. CASE AutoVote(p)
    BY <1>2, <2>4 DEF AutoVote
  <2>5. CASE ConsensusReached(p)
    <3>1. PICK a \in BOOLEAN, r \in Refresh(GroupOf[p]) :
            handle(<<[e |-> "ProposalDecided", p |-> p, accepted |-> a]>> \o r)
      BY <2>5 DEF ConsensusReached
    <3>2. [e |-> "ProposalDecided", p |-> p, accepted |-> a] \in AppEvent
      BY EventType
    <3>3. <<[e |-> "ProposalDecided", p |-> p, accepted |-> a]>> \o r \in Seq(AppEvent)
      BY <2>1, <3>2, RefreshType, ChannelType, ShortSeq
    <3> QED BY <1>4, <3>1, <3>3
  <2> QED BY <1>8, <2>2, <2>3, <2>4, <2>5
<1>9. \E t \in Seq(AppEvent) : evts' = evts \o t
  BY <1>5, <1>6, <1>7, <1>8 DEF Conversations, RecoveryExhausted
<1> QED BY <1>1, <1>3, <1>9

(* The conversations.                                                      *)
LEMMA ConversationsKeepFresh ==
    ASSUME TypeInv, ReadInv, FreshInv, Conversations, UNCHANGED uiVars
    PROVE  ReadInv' /\ FreshInv'
<1>1. PICK t \in Seq(AppEvent) : evts' = evts \o t
  BY ConversationEffect
<1>2. UNCHANGED <<cmds, loop, answer, chat, cons>>
  BY ConversationEffect DEF loopVars, uiVars
<1>3. <<>> \in Seq(AppCmd) /\ cmds' = cmds \o <<>>
  BY <1>2, ConcatEmptySeq DEF TypeInv, TypeOK, BridgeTypeOK
<1>4. ReadInv'
  BY <1>2 DEF ReadInv, Registers, Reads
<1>5. \A g \in Groups : /\ HistoryFresh(g) => HistoryFresh(g)'
                        /\ StewardFresh(g) => StewardFresh(g)'
                        /\ QueueFresh(g) => QueueFresh(g)'
  BY <1>1, <1>2, <1>3, GrowUnderWay DEF HistoryFresh, StewardFresh, QueueFresh
<1> QED BY <1>2, <1>4, <1>5, ConversationEffect DEF FreshInv

(* Commands without a registration are sent.                               *)
LEMMA SendsReads ==
    ASSUME TypeInv, NEW cs \in Seq(AppCmd), \A g : ~Meets(cs, Registers(g)),
           cmds' = cmds \/ Sends(cs)
    PROVE  \E d \in Seq(AppCmd) : cmds' = cmds \o d /\ \A g : ~Meets(d, Registers(g))
<1>1. cmds \in Seq(AppCmd) /\ <<>> \in Seq(AppCmd) /\ cmds \o <<>> = cmds
  BY ConcatEmptySeq DEF TypeInv, TypeOK, BridgeTypeOK
<1>2. \A g : ~Meets(<<>>, Registers(g))
  BY MeetsNone
<1>3. cmds' = cmds \o <<>> \/ cmds' = cmds \o cs
  BY <1>1 DEF Sends
<1> QED BY <1>1, <1>2, <1>3

(* The commands the reducer sends.                                         *)
LEMMA ReduceSends ==
    ASSUME TypeInv, Reduce
    PROVE  \E d \in Seq(AppCmd) : cmds' = cmds \o d /\ \A g : ~Meets(d, Registers(g))
<1> DEFINE q(c) == Cmd(c, Event.g)
           list == [c |-> "ListGroups"]
<1>1. \A g : /\ list \notin Registers(g)
             /\ q("GetCurrentEpochProposals") \notin Registers(g)
             /\ q("GetGroupMembers") \notin Registers(g)
             /\ q("GetEpochHistory") \notin Registers(g)
  BY DEF Registers, Cmd
<1>2. CASE OnLoggedIn
  <2>1. <<list>> \in Seq(AppCmd) /\ \A g : ~Meets(<<list>>, Registers(g))
    BY <1>1, MeetsOne, CmdType, ShortSeq
  <2>2. cmds' = cmds \/ Sends(<<list>>)
    BY <1>2 DEF OnLoggedIn
  <2> HIDE DEF list
  <2> QED BY <2>1, <2>2, SendsReads
<1>3. CASE OnGroupStateChanged
  <2>1. Event.g \in Groups
    BY <1>3, ReceivesType, EventFields DEF OnGroupStateChanged
  <2>2. AfterState(Event.g, Event.state) \in Seq(AppCmd)
    BY <2>1, CommandTypes
  <2>3. AfterState(Event.g, Event.state)
            \in {<<>>, <<q("GetCurrentEpochProposals"), q("GetGroupMembers")>>}
    BY DEF AfterState
  <2> HIDE DEF q
  <2>4. \A g : ~Meets(AfterState(Event.g, Event.state), Registers(g))
    BY <1>1, <2>3, MeetsNone, MeetsTwo
  <2>5. cmds' = cmds \/ Sends(AfterState(Event.g, Event.state))
    BY <1>3 DEF OnGroupStateChanged
  <2> QED BY <2>2, <2>4, <2>5, SendsReads
<1>4. CASE OnCleared
  <2> DEFINE cs == <<q("GetEpochHistory"), q("GetGroupMembers")>>
  <2>1. Event.g \in Groups
    BY <1>4, ReceivesType, EventFields DEF OnCleared, Refreshes
  <2>2. cs \in Seq(AppCmd)
    BY <2>1, CommandTypes
  <2>3. cmds' = cmds \/ Sends(cs)
    BY <1>4 DEF OnCleared
  <2> HIDE DEF q
  <2>4. \A g : ~Meets(cs, Registers(g))
    BY <1>1, MeetsTwo
  <2> HIDE DEF cs
  <2> QED BY <2>2, <2>3, <2>4, SendsReads
<1>5. CASE ~(OnLoggedIn \/ OnGroupStateChanged \/ OnCleared)
  <2>1. cmds' = cmds
    BY <1>5 DEF Reduce, OnError, OnIgnored, OnGroups, OnRefresh, OnGroupMembers,
                OnVoteRequested, OnOwnProposalSubmitted, OnProposalDecided, OnGroupRemoved
  <2>2. \A g : ~Meets(<<>>, Registers(g))
    BY MeetsNone
  <2>3. <<>> \in Seq(AppCmd)
    OBVIOUS
  <2> QED BY <2>1, <2>2, <2>3, SendsReads
<1> QED BY <1>2, <1>3, <1>4, <1>5

(* On the home page the reducer keeps what it holds of the opened group,   *)
(* and takes what is told of it.                                           *)
LEMMA ReduceHolds ==
    ASSUME TypeInv, page = "home", Reduce, NEW g, chat.opened = g
    PROVE  /\ cons.history = g \/ Event \in Tells("EpochHistory", g) => cons'.history = g
           /\ cons.steward = g \/ Event \in Tells("StewardStatus", g) => cons'.steward = g
           /\ cons.queue = g \/ Event \in Tells("CurrentEpochProposals", g) => cons'.queue = g
<1>1. cons \in ConsensusState
  BY DEF TypeInv, TypeOK
<1> DEFINE kinds == {"StewardStatus", "CurrentEpochProposals", "EpochHistory"}
<1>2. CASE OnRefresh
  <2>1. Event.e \in {"StewardStatus", "CurrentEpochProposals", "EpochHistory",
                     "GroupEpoch", "FreezeCandidates"}
    BY <1>2, ReceivesType DEF OnRefresh
  <2>2. cons' = IF Event.g = g THEN Refreshed(g) ELSE cons
    BY <1>2 DEF OnRefresh, IsOpened
  <2>3. /\ Refreshed(g).steward = IF Event.e = "StewardStatus" THEN g ELSE cons.steward
        /\ Refreshed(g).queue = IF Event.e = "CurrentEpochProposals" THEN g ELSE cons.queue
        /\ Refreshed(g).history = IF Event.e = "EpochHistory" THEN g ELSE cons.history
    BY <1>1, <2>1, RefreshedFields
  <2> QED BY <2>2, <2>3 DEF Tells
<1>3. CASE OnLoggedIn \/ OnError \/ OnGroups \/ OnGroupMembers \/ OnGroupRemoved
  <2>1. UNCHANGED cons /\ Event.e \notin kinds
    BY <1>3, ReceivesType DEF OnLoggedIn, OnError, OnGroups, OnGroupMembers, OnGroupRemoved
  <2> QED BY <2>1 DEF Tells
<1>4. CASE OnIgnored
  <2>1. UNCHANGED cons /\ Event.e = "LoggedIn"
    BY <1>4 DEF OnIgnored
  <2> QED BY <2>1 DEF Tells
<1>5. CASE OnGroupStateChanged \/ OnVoteRequested \/ OnOwnProposalSubmitted
  <2>1. Event.e \notin kinds
    BY <1>5, ReceivesType DEF OnGroupStateChanged, OnVoteRequested, OnOwnProposalSubmitted
  <2>2. cons'.history = cons.history /\ cons'.steward = cons.steward /\ cons'.queue = cons.queue
    BY <1>1, <1>5 DEF OnGroupStateChanged, OnVoteRequested, OnOwnProposalSubmitted,
                      ConsensusState
  <2> QED BY <2>1, <2>2 DEF Tells
<1>6. CASE OnCleared
  <2>1. Event.e \notin kinds
    BY <1>6, ReceivesType DEF OnCleared
  <2>2. cons' = cons \/ cons' = [cons EXCEPT !.queue = g]
    BY <1>6 DEF OnCleared, IsOpened
  <2>3. /\ cons'.history = cons.history /\ cons'.steward = cons.steward
        /\ cons'.queue \in {cons.queue, g}
    BY <1>1, <2>2 DEF ConsensusState
  <2> QED BY <2>1, <2>3 DEF Tells
<1>7. CASE OnProposalDecided
  <2>1. Event.e \notin kinds
    BY <1>7, ReceivesType DEF OnProposalDecided
  <2> QED BY <1>1, <1>7, <2>1, DecidedFields DEF Tells
<1> QED BY <1>2, <1>3, <1>4, <1>5, <1>6, <1>7 DEF Reduce

(* The reducer.                                                            *)
LEMMA ReduceKeepsFresh ==
    ASSUME TypeInv, LoginInv, ReadInv, FreshInv, Reduce
    PROVE  ReadInv' /\ FreshInv'
<1>1. PICK d \in Seq(AppCmd) : cmds' = cmds \o d /\ \A g : ~Meets(d, Registers(g))
  BY ReduceSends
<1>2. PICK view, kinds : Receives(view, kinds)
  BY DEF Reduce, OnLoggedIn, OnError, OnIgnored, OnGroups, OnGroupStateChanged, OnRefresh,
         OnGroupMembers, OnCleared, OnVoteRequested, OnOwnProposalSubmitted,
         OnProposalDecided, OnGroupRemoved
<1>3. /\ evts # <<>> /\ evts' = Tail(evts) /\ cmds \in Seq(AppCmd)
      /\ UNCHANGED <<answer, loop, user, status>>
  BY <1>2, ReceivesType DEF restOfBridge, TypeInv, TypeOK, BridgeTypeOK
<1>4. ReadInv'
  <2>1. \A g, Y : Followed(cmds, Registers(g), Y) => Followed(cmds', Registers(g), Y)
    BY <1>1, <1>3, FollowedNothing, FollowedConcat
  <2> QED BY <2>1 DEF ReadInv, Registers, Reads
<1>5. ASSUME NEW g \in Groups, chat'.opened = g, loop' = "up"
      PROVE  /\ HistoryFresh(g)'
             /\ Located(g)' # "absent" => StewardFresh(g)' /\ QueueFresh(g)'
  <2>1. g # NoGroup
    BY ProtocolAssumption
  <2>2. chat.opened = g
    BY <1>5, <2>1, ReduceShown
  <2>3. page = "home"
    BY <2>1, <2>2 DEF LoginInv, TypeInv, TypeOK
  <2>4. /\ cons.history = g \/ Event \in Tells("EpochHistory", g) => cons'.history = g
        /\ cons.steward = g \/ Event \in Tells("StewardStatus", g) => cons'.steward = g
        /\ cons.queue = g \/ Event \in Tells("CurrentEpochProposals", g) => cons'.queue = g
    BY <2>2, <2>3, ReduceHolds
  <2>5. \A r, k : UnderWay(r, k, g) /\ Event \notin Tells(k, g) => UnderWay(r, k, g)'
    BY <1>1, <1>3, TakeUnderWay
  <2>6. HistoryFresh(g) => HistoryFresh(g)'
    BY <2>4, <2>5 DEF HistoryFresh
  <2>7. StewardFresh(g) => StewardFresh(g)'
    BY <2>4, <2>5 DEF StewardFresh
  <2>8. QueueFresh(g) => QueueFresh(g)'
    BY <2>4, <2>5 DEF QueueFresh
  <2>9. Located(g)' = Located(g)
    BY <1>3 DEF Located
  <2> QED BY <1>3, <1>5, <2>2, <2>6, <2>7, <2>8, <2>9 DEF FreshInv
<1>6. FreshInv'
  BY <1>5 DEF FreshInv
<1> QED BY <1>4, <1>6

(* What is sent when a group is opened.                                    *)
LEMMA OpeningReads ==
    ASSUME NEW g \in Groups
    PROVE  /\ Meets(Opening(g), Reads("GetEpochHistory", g))
           /\ Meets(Opening(g), Reads("GetStewardStatus", g))
           /\ Meets(Opening(g), Reads("GetCurrentEpochProposals", g))
           /\ \A f : ~Meets(Opening(g), Registers(f))
<1>1. /\ Cmd("GetEpochHistory", g) \in Reads("GetEpochHistory", g)
      /\ Cmd("GetStewardStatus", g) \in Reads("GetStewardStatus", g)
      /\ Cmd("GetCurrentEpochProposals", g) \in Reads("GetCurrentEpochProposals", g)
  BY CmdType DEF Reads, Queries
<1>2. ASSUME NEW c \in Queries, NEW f PROVE Cmd(c, g) \notin Registers(f)
  BY DEF Registers, Cmd, Queries
<1> DEFINE o == Opening(g)
<1>3. /\ DOMAIN o = 1 .. 6 /\ o[1] = Cmd("EnterGroup", g) /\ o[2] = Cmd("GetStewardStatus", g)
      /\ o[3] = Cmd("GetGroupState", g) /\ o[4] = Cmd("GetCurrentEpochProposals", g)
      /\ o[5] = Cmd("GetGroupMembers", g) /\ o[6] = Cmd("GetEpochHistory", g)
  BY DEF Opening
<1> HIDE DEF o
<1>4. 2 \in DOMAIN o /\ 4 \in DOMAIN o /\ 6 \in DOMAIN o
  BY <1>3
<1>5. /\ Meets(o, Reads("GetEpochHistory", g))
      /\ Meets(o, Reads("GetStewardStatus", g))
      /\ Meets(o, Reads("GetCurrentEpochProposals", g))
  BY <1>1, <1>3, <1>4 DEF Meets
<1>6. \A i \in DOMAIN o : \E c \in Queries : o[i] = Cmd(c, g)
  <2>1. \A i \in 1 .. 6 : i = 1 \/ i = 2 \/ i = 3 \/ i = 4 \/ i = 5 \/ i = 6
    OBVIOUS
  <2> QED BY <1>3, <2>1 DEF Queries
<1>7. \A f : ~Meets(o, Registers(f))
  BY <1>2, <1>6 DEF Meets
<1> QED BY <1>5, <1>7 DEF o

(* A click that opens nothing.                                             *)
LEMMA PlainClickKeepsFresh ==
    ASSUME TypeInv, ReadInv, FreshInv, NEW x \in AppCmd, \A g : x \notin Registers(g),
           Sends(<<x>>), UNCHANGED <<evts, restOfBridge, chat>>,
           cons'.history = cons.history, cons'.steward = cons.steward, cons'.queue = cons.queue
    PROVE  ReadInv' /\ FreshInv'
<1>1. <<x>> \in Seq(AppCmd) /\ \A g : ~Meets(<<x>>, Registers(g))
  BY MeetsOne, ShortSeq
<1>2. PICK d \in Seq(AppCmd) : cmds' = cmds \o d /\ \A g : ~Meets(d, Registers(g))
  BY <1>1, SendsReads
<1>3. /\ cmds \in Seq(AppCmd) /\ evts \in Seq(AppEvent) /\ <<>> \in Seq(AppEvent)
      /\ UNCHANGED <<answer, loop, user, status>>
  BY DEF restOfBridge, TypeInv, TypeOK, BridgeTypeOK
<1>4. evts' = evts \o <<>>
  BY <1>3, ConcatEmptySeq
<1>5. ReadInv'
  <2>1. \A g, Y : Followed(cmds, Registers(g), Y) => Followed(cmds', Registers(g), Y)
    BY <1>2, <1>3, FollowedNothing, FollowedConcat
  <2> QED BY <2>1 DEF ReadInv, Registers, Reads
<1>6. \A g \in Groups : /\ HistoryFresh(g) => HistoryFresh(g)'
                        /\ StewardFresh(g) => StewardFresh(g)'
                        /\ QueueFresh(g) => QueueFresh(g)'
  BY <1>2, <1>3, <1>4, GrowUnderWay DEF HistoryFresh, StewardFresh, QueueFresh
<1>7. \A g \in Groups : Located(g)' = Located(g)
  BY <1>3 DEF Located
<1> QED BY <1>3, <1>5, <1>6, <1>7 DEF FreshInv

(* A group is opened, and everything about it is asked for.                *)
LEMMA OpenKeepsFresh ==
    ASSUME TypeInv, ReadInv, NEW g \in Groups, Opens(g), UNCHANGED <<evts, restOfBridge>>,
           NEW cs \in Seq(AppCmd), Sends(cs),
           \A f \in Groups : /\ Followed(cs, Registers(f), Reads("GetStewardStatus", f))
                             /\ Followed(cs, Registers(f), Reads("GetCurrentEpochProposals", f)),
           Meets(cs, Reads("GetEpochHistory", g)), Meets(cs, Reads("GetStewardStatus", g)),
           Meets(cs, Reads("GetCurrentEpochProposals", g))
    PROVE  ReadInv' /\ FreshInv'
<1>1. /\ cmds \in Seq(AppCmd) /\ evts \in Seq(AppEvent) /\ <<>> \in Seq(AppEvent)
      /\ UNCHANGED <<answer, loop, user, status>>
  BY DEF restOfBridge, TypeInv, TypeOK, BridgeTypeOK
<1>2. cmds' = cmds \/ cmds' = cmds \o cs
  BY DEF Sends
<1>3. ReadInv'
  <2>1. CASE cmds' = cmds
    BY <2>1 DEF ReadInv, Registers, Reads
  <2>2. CASE cmds' = cmds \o cs
    <3>1. \A f \in Groups :
            /\ Followed(cmds', Registers(f), Reads("GetStewardStatus", f))
            /\ Followed(cmds', Registers(f), Reads("GetCurrentEpochProposals", f))
      BY <1>1, <2>2, FollowedConcat DEF ReadInv
    <3> QED BY <3>1 DEF ReadInv, Registers, Reads
  <2> QED BY <1>2, <2>1, <2>2
<1>4. ASSUME loop' = "up", NEW f \in Groups, chat'.opened = f
      PROVE  HistoryFresh(f)' /\ StewardFresh(f)' /\ QueueFresh(f)'
  <2>1. f = g
    BY <1>4 DEF Opens
  <2>2. cmds' = cmds \o cs
    BY <1>1, <1>4 DEF Sends
  <2>3. evts' = evts \o <<>>
    BY <1>1, ConcatEmptySeq
  <2>4. \A r, k : Meets(cs, Reads(r, g)) => UnderWay(r, k, g)'
    BY <1>1, <2>2, <2>3, GrowUnderWay
  <2> QED BY <2>1, <2>4 DEF HistoryFresh, StewardFresh, QueueFresh
<1>5. FreshInv'
  BY <1>4 DEF FreshInv
<1> QED BY <1>3, <1>5

(* The user.                                                               *)
LEMMA UserKeepsFresh ==
    ASSUME TypeInv, ReadInv, FreshInv, User
    PROVE  ReadInv' /\ FreshInv'
<1>1. cons \in ConsensusState /\ chat.opened \in Owner
  BY DEF TypeInv, TypeOK
<1>2. CASE SubmitLogin
  <2> DEFINE x == [c |-> "Login"]
  <2>1. x \in AppCmd /\ \A g : x \notin Registers(g)
    BY CmdType DEF Registers
  <2>2. Sends(<<x>>) /\ UNCHANGED <<evts, restOfBridge, chat, cons>>
    BY <1>2 DEF SubmitLogin
  <2> HIDE DEF x
  <2> QED BY <2>1, <2>2, PlainClickKeepsFresh
<1>3. CASE send_msg \/ open_ban_modal \/ submit_ban_request \/ ClickLeave
  <2>1. PICK c \in {"SendMessage", "GetGroupMembers", "SendBanRequest", "LeaveConversation"} :
            Asks(c)
    BY <1>3 DEF send_msg, open_ban_modal, submit_ban_request, ClickLeave
  <2> DEFINE x == Cmd(c, chat.opened)
  <2>2. Sends(<<x>>) /\ UNCHANGED <<evts, restOfBridge, chat, cons>> /\ chat.opened \in Groups
    BY <1>1, <2>1 DEF Asks, Clicks, Owner
  <2>3. c \in Queries \cup Requests
    BY DEF Queries, Requests
  <2>4. x \in AppCmd /\ \A g : x \notin Registers(g)
    BY <2>2, <2>3, CmdType DEF Registers
  <2> HIDE DEF x
  <2> QED BY <2>2, <2>4, PlainClickKeepsFresh
<1>4. ASSUME NEW p \in Proposals, do_vote(p) PROVE ReadInv' /\ FreshInv'
  <2> DEFINE x == [c |-> "Vote", p |-> p]
  <2>1. x \in AppCmd /\ \A g : x \notin Registers(g)
    BY CmdType DEF Registers
  <2>2. Sends(<<x>>) /\ UNCHANGED <<evts, restOfBridge, chat>>
    BY <1>4 DEF do_vote, Clicks
  <2>3. cons'.history = cons.history /\ cons'.steward = cons.steward /\ cons'.queue = cons.queue
    BY <1>1, <1>4 DEF do_vote, ConsensusState
  <2> HIDE DEF x
  <2> QED BY <2>1, <2>2, <2>3, PlainClickKeepsFresh
<1>5. ASSUME NEW g \in Groups, ClickOpen(g) PROVE ReadInv' /\ FreshInv'
  <2>1. Opening(g) \in Seq(AppCmd)
    BY CommandTypes
  <2>2. Opens(g) /\ Sends(Opening(g)) /\ UNCHANGED <<evts, restOfBridge>>
    BY <1>5 DEF ClickOpen, Clicks
  <2>3. \A f, Y : Followed(Opening(g), Registers(f), Y)
    BY OpeningReads, FollowedNothing
  <2> QED BY <2>1, <2>2, <2>3, OpeningReads, OpenKeepsFresh
<1>6. ASSUME NEW g \in Groups, modal_submit(g) PROVE ReadInv' /\ FreshInv'
  <2>1. PICK c \in {"CreateGroup", "JoinGroup"} :
            Clicks(<<Cmd(c, g), [c |-> "ListGroups"]>> \o Opening(g))
    BY <1>6 DEF modal_submit
  <2> DEFINE s == <<Cmd(c, g), [c |-> "ListGroups"]>>
             cs == s \o Opening(g)
  <2>2. Opens(g) /\ Sends(cs) /\ UNCHANGED <<evts, restOfBridge>>
    BY <1>6, <2>1 DEF modal_submit, Clicks
  <2>3. cs \in Seq(AppCmd) /\ Opening(g) \in Seq(AppCmd)
    BY CommandTypes
  <2>4. /\ s \in Seq(AppCmd)
        /\ \A f : f # g => ~Meets(s, Registers(f))
    <3>1. Cmd(c, g) \in AppCmd /\ [c |-> "ListGroups"] \in AppCmd
      BY CmdType
    <3>2. \A f : f # g => Cmd(c, g) \notin Registers(f) /\ [c |-> "ListGroups"] \notin Registers(f)
      BY DEF Registers, Cmd
    <3> QED BY <3>1, <3>2, MeetsTwo, ShortSeq
  <2> HIDE DEF s
  <2>5. \A f, Y : Followed(Opening(g), Registers(f), Y)
    BY OpeningReads, FollowedNothing
  <2>6. \A f, Y : f # g => Followed(s, Registers(f), Y)
    BY <2>4, FollowedNothing
  <2>7. \A f : /\ Followed(cs, Registers(f), Reads("GetStewardStatus", f))
               /\ Followed(cs, Registers(f), Reads("GetCurrentEpochProposals", f))
    BY <2>3, <2>4, <2>5, <2>6, OpeningReads, FollowedConcat
  <2>8. /\ Meets(cs, Reads("GetEpochHistory", g)) /\ Meets(cs, Reads("GetStewardStatus", g))
        /\ Meets(cs, Reads("GetCurrentEpochProposals", g))
    BY <2>3, <2>4, OpeningReads, MeetsConcat
  <2> HIDE DEF cs
  <2> QED BY <2>2, <2>3, <2>7, <2>8, OpenKeepsFresh
<1> QED BY <1>2, <1>3, <1>4, <1>5, <1>6 DEF User

(* The invariant of the refreshes.                                         *)
LEMMA FreshHolds == Spec => [](ReadInv /\ FreshInv)
<1>1. Init => ReadInv /\ FreshInv
  <2> SUFFICES ASSUME Init PROVE ReadInv /\ FreshInv
    OBVIOUS
  <2>1. cmds = <<>>
    BY DEF Init, BridgeInit
  <2>2. chat.opened = NoGroup
    <3>1. chat = [opened |-> NoGroup, members |-> NoGroup]
      BY DEF Init
    <3> QED BY <3>1
  <2>3. \A X, Y : Followed(cmds, X, Y)
    BY <2>1, MeetsNone, FollowedNothing
  <2> QED BY <2>2, <2>3, ProtocolAssumption DEF ReadInv, FreshInv
<1>2. TypeInv /\ LoginInv /\ ReadInv /\ FreshInv /\ [Next]_vars => ReadInv' /\ FreshInv'
  <2> SUFFICES ASSUME TypeInv, LoginInv, ReadInv, FreshInv, [Next]_vars
               PROVE  ReadInv' /\ FreshInv'
    OBVIOUS
  <2>1. CASE LoopStep /\ UNCHANGED uiVars
    BY <2>1, QueryKeepsFresh, PushKeepsFresh, OtherKeepsFresh, RegisterKeepsFresh DEF LoopStep
  <2>2. CASE Conversations /\ UNCHANGED uiVars
    BY <2>2, ConversationsKeepFresh
  <2>3. CASE Reduce
    BY <2>3, ReduceKeepsFresh
  <2>4. CASE User
    BY <2>4, UserKeepsFresh
  <2>5. CASE UNCHANGED vars
    <3>1. UNCHANGED <<cmds, evts, answer, loop, user, status, chat, cons>>
      BY <2>5 DEF vars, bridgeVars, loopVars, uiVars
    <3>2. \A g : Located(g)' = Located(g)
      BY <3>1 DEF Located
    <3> QED BY <3>1, <3>2 DEF ReadInv, FreshInv, HistoryFresh, StewardFresh, QueueFresh,
                              UnderWay, Registers, Reads, Tells
  <2> QED BY <2>1, <2>2, <2>3, <2>4, <2>5 DEF Next, BridgeNext
<1> QED BY <1>1, <1>2, VotesHold, PTL DEF Spec

(* Once nothing is under way, the history on screen is that of the opened  *)
(* group, and so are the steward flag and the approved queue if the group  *)
(* is registered: open_group resets none of the three, the answers to its  *)
(* commands do.  As long as ui_loop runs.                                  *)
THEOREM QuietIsFresh == Spec => []QuietShowsOpened
<1>1. TypeInv /\ FreshInv => QuietShowsOpened
  <2> SUFFICES ASSUME TypeInv, FreshInv, Quiet, loop = "up", chat.opened # NoGroup
               PROVE  /\ cons.history = chat.opened
                      /\ Located(chat.opened) # "absent" =>
                            cons.steward = chat.opened /\ cons.queue = chat.opened
    BY DEF QuietShowsOpened
  <2>1. chat.opened \in Groups
    BY DEF TypeInv, TypeOK, Owner
  <2>2. \A X : ~Meets(cmds, X) /\ ~Meets(answer, X) /\ ~Meets(evts, X)
    BY MeetsNone DEF Quiet
  <2>3. \A r, k, g : ~UnderWay(r, k, g)
    BY <2>2 DEF UnderWay
  <2> QED BY <2>1, <2>3 DEF FreshInv, HistoryFresh, StewardFresh, QueueFresh
<1> QED BY <1>1, TypesHold, FreshHolds, PTL
===============================================================================
