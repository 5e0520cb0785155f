------------------------------- MODULE Gateway -------------------------------
(***************************************************************************)
(* One logged-in user of the gateway: the conversation registry of `User`, *)
(* the command in progress, the tasks that wait for a welcome or poll a    *)
(* conversation, the inbound forwarder and the event pump.                 *)
(*                                                                         *)
(* A registry slot is an `Arc<RwLock<ConversationSlot>>`: it is found by   *)
(* name, cloned, and used after the registry lock is gone, so a thread can *)
(* still hold a slot that the registry has dropped.  `reg` is the HashMap, *)
(* `st`, `torn` and `events` are the contents of the slots.                *)
(*                                                                         *)
(* `User` is behind a tokio RwLock.  start_conversation and accept_welcome *)
(* take it exclusively (Exclusive); everything else shares it.             *)
(***************************************************************************)
EXTENDS Naturals, Sequences, FiniteSets

CONSTANTS
    Convs,          \* conversation ids
    Entries,        \* slots that may exist (Arc allocations)
    Tasks,          \* tokio tasks spawned by create and join
    NoConv, NoEntry,
    MaxJoinRounds,  \* MAX_JOIN_ROUNDS of join_group
    MaxEvents,      \* bound: library events buffered before the teardown
    MaxLifecycle,   \* bound: lifecycle events buffered when a slot goes live
    MaxAnnounced,   \* bound: key packages announced and not yet used
    PublishMayFail, \* environment: transport.publish may return an error
    RepeatsLeave    \* library: a torn-down conversation asks to leave again

ASSUME ConstantsAssumption ==
    /\ NoConv \notin Convs
    /\ NoEntry \notin Entries
    /\ MaxJoinRounds \in Nat \ {0}
    /\ MaxEvents \in Nat /\ MaxLifecycle \in Nat /\ MaxAnnounced \in Nat
    /\ PublishMayFail \in BOOLEAN /\ RepeatsLeave \in BOOLEAN

VARIABLES
    reg,        \* name -> slot, NoEntry when there is none
    st,         \* slot -> "pending" or "live"
    torn,       \* slots whose conversation the library has torn down
    events,     \* slot -> library events not yet drained
    lifecycle,  \* pending_lifecycle_events
    scope,      \* name -> its scope in the shared consensus storage
    topics,     \* conversations the topic filter lets through
    kp,         \* number of key packages a welcome can still open with
    cmd,        \* the create or join ui_loop is awaiting
    task,       \* spawned tasks
    fwd,        \* the packet the delivery forwarder is handling
    fanouts,    \* active_fanouts of the pump
    todo,       \* fan-outs the current pump cycle has not visited
    pump,       \* the fan-out being visited
    shown       \* conversations in the UI's group list

regVars  == <<reg, st, torn, events, lifecycle, scope>>
pumpVars == <<fanouts, todo, pump>>
vars == <<regVars, topics, kp, cmd, task, fwd, pumpVars, shown>>

------------------------------------------------------------------------------
Lifecycle == [kind: {"Created", "Removed"}, conv: Convs]

\* Leaving, and every event whose handling leaves the gateway's state alone.
Event == {"other", "leaving"}

\* A task that has exited, or was never spawned.
Idle == [pc |-> "free", conv |-> NoConv, ent |-> NoEntry, rounds |-> 0]

Waiter(c) == [pc |-> "wait", conv |-> c, ent |-> NoEntry, rounds |-> 0]

Poller(c) == [pc |-> "poll", conv |-> c, ent |-> NoEntry, rounds |-> 0]

TaskState ==
    {s \in [pc: {"free", "wait", "abandon", "poll", "run", "remove", "emit"},
            conv: Convs \cup {NoConv}, ent: Entries \cup {NoEntry},
            rounds: 0 .. MaxJoinRounds] :
        /\ s.pc # "free" => s.conv \in Convs
        /\ s.pc = "run" => s.ent \in Entries
        /\ s.pc = "wait" => s.rounds < MaxJoinRounds}

NoPacket == [pc |-> "idle", conv |-> NoConv, ent |-> NoEntry]

NoCmd == [pc |-> "idle", conv |-> NoConv]

PumpAsleep == [pc |-> "sleep", conv |-> NoConv, ent |-> NoEntry, batch |-> <<>>]

FwdState ==
    {s \in [pc: {"idle", "take", "process", "remove", "emit"},
            conv: Convs \cup {NoConv}, ent: Entries \cup {NoEntry}] :
        /\ s.pc # "idle" => s.conv \in Convs
        /\ s.pc = "process" => s.ent \in Entries}

CmdState ==
    {s \in [pc: {"idle", "created", "begun", "announce", "list"},
            conv: Convs \cup {NoConv}] :
        s.pc \in {"created", "begun", "announce"} => s.conv \in Convs}

PumpState ==
    {s \in [pc: {"sleep", "visit", "drain", "handle"},
            conv: Convs \cup {NoConv}, ent: Entries \cup {NoEntry},
            batch: Seq(Event)] :
        /\ s.pc \in {"drain", "handle"} => s.conv \in Convs
        /\ s.pc = "drain" => s.ent \in Entries}

RegTypeOK ==
    /\ reg \in [Convs -> Entries \cup {NoEntry}]
    /\ st \in [Entries -> {"pending", "live"}]
    /\ torn \subseteq Entries
    /\ events \in [Entries -> Seq(Event)]
    /\ lifecycle \in Seq(Lifecycle)
    /\ scope \in [Convs -> {"none", "held", "left"}]

PumpTypeOK ==
    /\ fanouts \subseteq Convs
    /\ todo \subseteq Convs
    /\ pump \in PumpState

(* Types.  A task, a packet and a pump visit that are under way name a     *)
(* conversation, whoever uses a slot holds one, and a join in its waiting  *)
(* phase has rounds left.                                                  *)
TypeOK ==
    /\ RegTypeOK
    /\ topics \subseteq Convs
    /\ kp \in Nat
    /\ cmd \in CmdState
    /\ task \in [Tasks -> TaskState]
    /\ fwd \in FwdState
    /\ PumpTypeOK
    /\ shown \subseteq Convs

------------------------------------------------------------------------------
(* What the state says about a conversation.                               *)

Pending(c) == reg[c] # NoEntry /\ st[reg[c]] = "pending"

Live(c) == reg[c] # NoEntry /\ st[reg[c]] = "live"

Listed == {c \in Convs : reg[c] # NoEntry}

\* A slot no one refers to: the memory of a new Arc.
Fresh(e) ==
    /\ \A c \in Convs : reg[c] # e
    /\ \A t \in Tasks : task[t].ent # e
    /\ fwd.ent # e
    /\ pump.ent # e

\* Mutant: the writer does not wait for readers.
ExclusiveAtOnce == TRUE

\* The user lock can be taken for writing: no reader is between its lookup
\* and the end of its call.
Exclusive ==
    /\ fwd.pc \in {"idle", "take"}
    /\ \A t \in Tasks : task[t].pc \notin {"run", "emit"}

FreeTasks == {t \in Tasks : task[t].pc = "free"}

\* A finalize_self_leave that has been decided and not yet run.
Removing(c) ==
    \/ fwd.pc = "remove" /\ fwd.conv = c
    \/ \E t \in Tasks : task[t].pc = "remove" /\ task[t].conv = c

\* A finalize_self_leave that has dropped the slot and not yet said so.
Emitting(c) ==
    \/ fwd.pc = "emit" /\ fwd.conv = c
    \/ \E t \in Tasks : task[t].pc = "emit" /\ task[t].conv = c

------------------------------------------------------------------------------
Init ==
    /\ reg = [c \in Convs |-> NoEntry]
    /\ st = [e \in Entries |-> "pending"]
    /\ torn = {}
    /\ events = [e \in Entries |-> <<>>]
    /\ lifecycle = <<>>
    /\ scope = [c \in Convs |-> "none"]
    /\ topics = {}
    /\ kp = 0
    /\ cmd = NoCmd
    /\ task = [t \in Tasks |-> Idle]
    /\ fwd = NoPacket
    /\ fanouts = {} /\ todo = {}
    /\ pump = PumpAsleep
    /\ shown = {}

------------------------------------------------------------------------------
(* The registry's operations.                                              *)

Emit(kind, c) == lifecycle' = Append(lifecycle, [kind |-> kind, conv |-> c])

\* Mutant: Created is not reported.
install_conversation_silent(c) ==
    /\ \E e \in Entries :
        /\ IF reg[c] = NoEntry THEN Fresh(e) ELSE e = reg[c]
        /\ reg' = [reg EXCEPT ![c] = e]
        /\ st' = [st EXCEPT ![e] = "live"]
        /\ torn' = torn \ {e}
        /\ events' = [events EXCEPT ![e] = <<"other">>]
    /\ scope' = [scope EXCEPT ![c] = "held"]
    /\ UNCHANGED lifecycle

\* install_conversation: fill the pending slot, or insert a new one; the
\* library has already buffered the opening PhaseChange, and from now on may
\* keep votes under the conversation's id.  The user lock is held
\* exclusively, so the slot and the Created event change together.
install_conversation(c) ==
    /\ Len(lifecycle) < MaxLifecycle
    /\ \E e \in Entries :
        /\ IF reg[c] = NoEntry THEN Fresh(e) ELSE e = reg[c]
        /\ reg' = [reg EXCEPT ![c] = e]
        /\ st' = [st EXCEPT ![e] = "live"]
        /\ torn' = torn \ {e}
        /\ events' = [events EXCEPT ![e] = <<"other">>]
    /\ scope' = [scope EXCEPT ![c] = "held"]
    /\ Emit("Created", c)

\* Mutant: the contains_key check is missing.
begin_pending_join_unchecked(c) ==
    /\ \E e \in Entries :
        /\ Fresh(e)
        /\ reg' = [reg EXCEPT ![c] = e]
        /\ st' = [st EXCEPT ![e] = "pending"]
        /\ torn' = torn \ {e}
        /\ events' = [events EXCEPT ![e] = <<>>]
    /\ UNCHANGED <<lifecycle, scope>>

begin_pending_join(c) ==
    /\ reg[c] = NoEntry
    /\ \E e \in Entries :
        /\ Fresh(e)
        /\ reg' = [reg EXCEPT ![c] = e]
        /\ st' = [st EXCEPT ![e] = "pending"]
        /\ torn' = torn \ {e}
        /\ events' = [events EXCEPT ![e] = <<>>]
    /\ UNCHANGED <<lifecycle, scope>>

\* Mutant: the slot is dropped without looking whether it went live.
abandon_join_unchecked(c) ==
    /\ reg' = [reg EXCEPT ![c] = NoEntry]
    /\ UNCHANGED <<st, torn, events, lifecycle, scope>>

abandon_pending_join(c) ==
    /\ reg' = IF Pending(c) THEN [reg EXCEPT ![c] = NoEntry] ELSE reg
    /\ UNCHANGED <<st, torn, events, lifecycle, scope>>

\* cleanup_consensus_scope: delete_scope may fail and leave the scope behind.
cleanup_consensus_scope(c) ==
    \E left \in {"none", "left"} : scope' = [scope EXCEPT ![c] = left]

\* Mutant: `?` on the cleanup, so that its error keeps the slot.
evict_if_clean(c) ==
    /\ cleanup_consensus_scope(c)
    /\ reg' = IF scope'[c] = "left" THEN reg ELSE [reg EXCEPT ![c] = NoEntry]
    /\ UNCHANGED <<st, torn, events, lifecycle>>

\* finalize_self_leave, first half: the consensus scope goes, then the slot
\* is dropped by name, whether or not the scope could be deleted.  Nobody
\* else uses the scope of a torn-down conversation, so this is one step.
\* The cleanup's error is returned at the end; handle_inbound then skips
\* its flush, which is CallFails of OutboundFlush.
evict(c) ==
    /\ cleanup_consensus_scope(c)
    /\ reg' = [reg EXCEPT ![c] = NoEntry]
    /\ UNCHANGED <<st, torn, events, lifecycle>>

\* finalize_self_leave, second half.
emit_removed(c) ==
    /\ Emit("Removed", c)
    /\ UNCHANGED <<reg, st, torn, events, scope>>

------------------------------------------------------------------------------
(* The library behind a live slot (external): it makes progress, and at    *)
(* some point it tears the conversation down, buffers Leaving and reports  *)
(* that to the caller of the poll or of process_inbound.                   *)

Progresses(e) ==
    /\ \/ /\ e \notin torn /\ Len(events[e]) < MaxEvents
          /\ events' = [events EXCEPT ![e] = Append(@, "other")]
       \/ UNCHANGED events
    /\ UNCHANGED <<reg, st, torn, lifecycle, scope>>

AsksToLeave(e) ==
    /\ e \notin torn \/ RepeatsLeave
    /\ torn' = torn \cup {e}
    /\ events' = IF e \in torn THEN events
                 ELSE [events EXCEPT ![e] = Append(@, "leaving")]
    /\ UNCHANGED <<reg, st, lifecycle, scope>>

------------------------------------------------------------------------------
(* Commands.  ui_loop awaits one at a time.                                *)

\* create_conversation: start_conversation under the exclusive user lock.
CreateStart(c) ==
    /\ cmd.pc = "idle" /\ FreeTasks # {}
    /\ Exclusive
    /\ reg[c] = NoEntry
    /\ install_conversation(c)
    /\ cmd' = [pc |-> "created", conv |-> c]
    /\ UNCHANGED <<topics, kp, task, fwd, pumpVars, shown>>

\* create_conversation: subscribe and spawn the polling loop.
CreateSpawn ==
    /\ cmd.pc = "created"
    /\ topics' = topics \cup {cmd.conv}
    /\ \E t \in FreeTasks : task' = [task EXCEPT ![t] = Poller(cmd.conv)]
    /\ cmd' = [cmd EXCEPT !.pc = "list"]
    /\ UNCHANGED <<regVars, kp, fwd, pumpVars, shown>>

JoinBegin(c) ==
    /\ cmd.pc = "idle" /\ FreeTasks # {} /\ kp < MaxAnnounced
    /\ begin_pending_join(c)
    /\ cmd' = [pc |-> "begun", conv |-> c]
    /\ UNCHANGED <<topics, kp, task, fwd, pumpVars, shown>>

JoinSubscribe ==
    /\ cmd.pc = "begun"
    /\ topics' = topics \cup {cmd.conv}
    /\ cmd' = [cmd EXCEPT !.pc = "announce"]
    /\ UNCHANGED <<regVars, kp, task, fwd, pumpVars, shown>>

\* join_group: the key package is out; spawn the task that waits.
JoinAnnounce ==
    /\ cmd.pc = "announce"
    /\ kp' = kp + 1
    /\ \E t \in FreeTasks : task' = [task EXCEPT ![t] = Waiter(cmd.conv)]
    /\ cmd' = [cmd EXCEPT !.pc = "list"]
    /\ UNCHANGED <<regVars, topics, fwd, pumpVars, shown>>

\* join_group: generate_key_package or send_key_package fails and `?`
\* returns.  A publish that timed out may still have reached the relay.
JoinFails ==
    /\ PublishMayFail
    /\ cmd.pc = "announce"
    /\ \E reached \in {0, 1} : kp' = kp + reached
    /\ cmd' = NoCmd
    /\ UNCHANGED <<regVars, topics, task, fwd, pumpVars, shown>>

\* The command loop replaces the UI's list after a successful command.
PushGroups ==
    /\ cmd.pc = "list"
    /\ shown' = Listed
    /\ cmd' = NoCmd
    /\ UNCHANGED <<regVars, topics, kp, task, fwd, pumpVars>>

ListGroups ==
    /\ cmd.pc = "idle"
    /\ cmd' = [pc |-> "list", conv |-> NoConv]
    /\ UNCHANGED <<regVars, topics, kp, task, fwd, pumpVars, shown>>

------------------------------------------------------------------------------
(* Tasks.                                                                  *)

Becomes(t, s) == task' = [task EXCEPT ![t] = s]

\* Mutant: the round count is compared after one round too many.
WaitRoundOneMore(t) ==
    /\ task[t].pc = "wait"
    /\ LET n == task[t].rounds + 1 IN
       Becomes(t, IF Live(task[t].conv) THEN Poller(task[t].conv)
                  ELSE [task[t] EXCEPT !.rounds = n,
                            !.pc = IF n <= MaxJoinRounds THEN "wait"
                                                         ELSE "abandon"])
    /\ UNCHANGED <<regVars, topics, kp, cmd, fwd, pumpVars, shown>>

\* One round of the join wait: sleep, then conversation_state.  The task
\* goes on as a polling loop, or gives up after MAX_JOIN_ROUNDS.
WaitRound(t) ==
    /\ task[t].pc = "wait"
    /\ LET n == task[t].rounds + 1 IN
       Becomes(t, IF Live(task[t].conv) THEN Poller(task[t].conv)
                  ELSE [task[t] EXCEPT !.rounds = n,
                            !.pc = IF n < MaxJoinRounds THEN "wait"
                                                        ELSE "abandon"])
    /\ UNCHANGED <<regVars, topics, kp, cmd, fwd, pumpVars, shown>>

\* Mutant: the timed-out task ends without abandoning the join.
WaitAbandonForgets(t) ==
    /\ task[t].pc = "abandon"
    /\ Becomes(t, Idle)
    /\ UNCHANGED <<regVars, topics, kp, cmd, fwd, pumpVars, shown>>

\* The join timed out.  Topics stay subscribed.
WaitAbandon(t) ==
    /\ task[t].pc = "abandon"
    /\ abandon_pending_join(task[t].conv)
    /\ Becomes(t, Idle)
    /\ UNCHANGED <<topics, kp, cmd, fwd, pumpVars, shown>>

\* Mutant: ConversationNotFound is not fatal to the loop.
PollLookupRetries(t) ==
    /\ task[t].pc = "poll"
    /\ LET e == reg[task[t].conv] IN
       Becomes(t, IF e = NoEntry THEN task[t]
                  ELSE [task[t] EXCEPT !.pc = "run", !.ent = e])
    /\ UNCHANGED <<regVars, topics, kp, cmd, fwd, pumpVars, shown>>

\* poll_conversation, lookup: the loop ends when there is no slot.
PollLookup(t) ==
    /\ task[t].pc = "poll"
    /\ LET e == reg[task[t].conv] IN
       Becomes(t, IF e = NoEntry THEN Idle
                  ELSE [task[t] EXCEPT !.pc = "run", !.ent = e])
    /\ UNCHANGED <<regVars, topics, kp, cmd, fwd, pumpVars, shown>>

\* poll_conversation on the slot found: ConversationNotFound (fatal) while it
\* is pending; otherwise the library is polled and its outbound flushed.
PollRun(t) ==
    /\ task[t].pc = "run"
    /\ \/ /\ st[task[t].ent] = "pending"
          /\ Becomes(t, Idle)
          /\ UNCHANGED regVars
       \/ /\ st[task[t].ent] = "live"
          /\ Progresses(task[t].ent)
          /\ Becomes(t, Poller(task[t].conv))
    /\ UNCHANGED <<topics, kp, cmd, fwd, pumpVars, shown>>

\* The poll asks to leave.  When the flush that follows fails, its error
\* replaces the outcome and the loop goes on as if nothing had been asked.
PollLeave(t) ==
    /\ task[t].pc = "run"
    /\ st[task[t].ent] = "live"
    /\ AsksToLeave(task[t].ent)
    /\ \/ Becomes(t, [Poller(task[t].conv) EXCEPT !.pc = "remove"])
       \/ PublishMayFail /\ Becomes(t, Poller(task[t].conv))
    /\ UNCHANGED <<topics, kp, cmd, fwd, pumpVars, shown>>

\* finalize_self_leave from the polling loop, which then ends.
PollEvict(t) ==
    /\ task[t].pc = "remove"
    /\ evict(task[t].conv)
    /\ Becomes(t, [task[t] EXCEPT !.pc = "emit"])
    /\ UNCHANGED <<topics, kp, cmd, fwd, pumpVars, shown>>

PollEmit(t) ==
    /\ task[t].pc = "emit"
    /\ emit_removed(task[t].conv)
    /\ Becomes(t, Idle)
    /\ UNCHANGED <<topics, kp, cmd, fwd, pumpVars, shown>>

------------------------------------------------------------------------------
(* The delivery forwarder: one packet at a time, from a filtered topic.    *)

\* A packet passes the topic filter.  The user lock is taken after that, so
\* everything else may change before the packet is handled, the filter too.
FwdTake(c) ==
    /\ fwd.pc = "idle" /\ c \in topics
    /\ fwd' = [pc |-> "take", conv |-> c, ent |-> NoEntry]
    /\ UNCHANGED <<regVars, topics, kp, cmd, task, pumpVars, shown>>

\* Mutant: a second welcome replaces the live conversation.
FwdWelcomeReplaces(c) ==
    /\ fwd.pc = "take" /\ kp > 0
    /\ Exclusive
    /\ kp' = kp - 1
    /\ install_conversation(c)
    /\ fwd' = NoPacket
    /\ UNCHANGED <<topics, cmd, task, pumpVars, shown>>

\* A welcome that opens with one of our key packages: accept_welcome.  The
\* conversation is the one the welcome names, whatever topic it came on.  A
\* key package is used up once; a slot that is already live is left alone.
FwdWelcome(c) ==
    /\ fwd.pc = "take" /\ kp > 0
    /\ Exclusive
    /\ kp' = kp - 1
    /\ IF Live(c) THEN UNCHANGED regVars ELSE install_conversation(c)
    /\ fwd' = NoPacket
    /\ UNCHANGED <<topics, cmd, task, pumpVars, shown>>

\* handle_inbound / receive_key_package, lookup.
FwdLookup ==
    /\ fwd.pc = "take" /\ reg[fwd.conv] # NoEntry
    /\ fwd' = [fwd EXCEPT !.pc = "process", !.ent = reg[fwd.conv]]
    /\ UNCHANGED <<regVars, topics, kp, cmd, task, pumpVars, shown>>

\* There is no slot, or the packet is an echo, does not decode, or is a
\* welcome for someone else.
FwdDrop ==
    /\ fwd.pc = "take"
    /\ fwd' = NoPacket
    /\ UNCHANGED <<regVars, topics, kp, cmd, task, pumpVars, shown>>

\* The packet is dropped on a pending slot and processed on a live one.
FwdProcess ==
    /\ fwd.pc = "process"
    /\ \/ st[fwd.ent] = "pending" /\ UNCHANGED regVars
       \/ st[fwd.ent] = "live" /\ Progresses(fwd.ent)
    /\ fwd' = NoPacket
    /\ UNCHANGED <<topics, kp, cmd, task, pumpVars, shown>>

\* process_inbound returns LeaveRequested.
FwdLeave ==
    /\ fwd.pc = "process"
    /\ st[fwd.ent] = "live"
    /\ AsksToLeave(fwd.ent)
    /\ fwd' = [pc |-> "remove", conv |-> fwd.conv, ent |-> NoEntry]
    /\ UNCHANGED <<topics, kp, cmd, task, pumpVars, shown>>

FwdEvict ==
    /\ fwd.pc = "remove"
    /\ evict(fwd.conv)
    /\ fwd' = [fwd EXCEPT !.pc = "emit"]
    /\ UNCHANGED <<topics, kp, cmd, task, pumpVars, shown>>

FwdEmit ==
    /\ fwd.pc = "emit"
    /\ emit_removed(fwd.conv)
    /\ fwd' = NoPacket
    /\ UNCHANGED <<topics, kp, cmd, task, pumpVars, shown>>

------------------------------------------------------------------------------
(* The event pump.                                                         *)

\* Positions of the lifecycle events of l that are about c.
Mentions(l, c) == {i \in DOMAIN l : l[i].conv = c}

\* The fan-outs f once the lifecycle events l have been applied in order:
\* Created inserts, Removed removes, so the last word on a name counts.
Replay(f, l) ==
    {c \in Convs :
        IF Mentions(l, c) = {} THEN c \in f
        ELSE \E i \in Mentions(l, c) :
                /\ \A j \in Mentions(l, c) : j <= i
                /\ l[i].kind = "Created"}

Announced == Replay(fanouts, lifecycle)

\* A cycle begins: drain_lifecycle_events, then visit every fan-out.
PumpLifecycle ==
    /\ pump.pc = "sleep"
    /\ fanouts' = Announced
    /\ lifecycle' = <<>>
    /\ todo' = Announced
    /\ pump' = [PumpAsleep EXCEPT !.pc = "visit"]
    /\ UNCHANGED <<reg, st, torn, events, scope, topics, kp, cmd, task, fwd,
                   shown>>

PumpVisit(c) ==
    /\ pump.pc = "visit" /\ c \in todo
    /\ todo' = todo \ {c}
    /\ IF reg[c] = NoEntry THEN UNCHANGED pump
       ELSE pump' = [pc |-> "drain", conv |-> c, ent |-> reg[c], batch |-> <<>>]
    /\ UNCHANGED <<regVars, topics, kp, cmd, task, fwd, fanouts, shown>>

\* drain_events on the slot found, which may have left the registry since.
PumpDrain ==
    /\ pump.pc = "drain"
    /\ IF st[pump.ent] = "pending"
       THEN /\ pump' = [PumpAsleep EXCEPT !.pc = "visit"]
            /\ UNCHANGED events
       ELSE /\ pump' = [pc |-> "handle", conv |-> pump.conv,
                        ent |-> NoEntry, batch |-> events[pump.ent]]
            /\ events' = [events EXCEPT ![pump.ent] = <<>>]
    /\ UNCHANGED <<reg, st, torn, lifecycle, scope, topics, kp, cmd, task, fwd,
                   fanouts, todo, shown>>

\* GatewayEventFanout::handle, the arms that change the topic filter or the
\* UI's list; the others only push events to the UI.
PumpHandle ==
    /\ pump.pc = "handle" /\ pump.batch # <<>>
    /\ pump' = [pump EXCEPT !.batch = Tail(@)]
    /\ IF Head(pump.batch) = "leaving"
       THEN /\ topics' = topics \ {pump.conv}
            /\ shown' = shown \ {pump.conv}
       ELSE UNCHANGED <<topics, shown>>
    /\ UNCHANGED <<regVars, kp, cmd, task, fwd, fanouts, todo>>

\* The batch is done.
PumpNext ==
    /\ pump.pc = "handle" /\ pump.batch = <<>>
    /\ pump' = [PumpAsleep EXCEPT !.pc = "visit"]
    /\ UNCHANGED <<regVars, topics, kp, cmd, task, fwd, fanouts, todo, shown>>

PumpSleep ==
    /\ pump.pc = "visit" /\ todo = {}
    /\ pump' = PumpAsleep
    /\ UNCHANGED <<regVars, topics, kp, cmd, task, fwd, fanouts, todo, shown>>

------------------------------------------------------------------------------
CmdStep == CreateSpawn \/ JoinSubscribe \/ JoinAnnounce \/ JoinFails \/ PushGroups

TaskStep(t) ==
    \/ WaitRound(t) \/ WaitAbandon(t)
    \/ PollLookup(t) \/ PollRun(t) \/ PollLeave(t)
    \/ PollEvict(t) \/ PollEmit(t)

FwdStep ==
    \/ \E c \in Convs : FwdWelcome(c)
    \/ FwdLookup \/ FwdDrop
    \/ FwdProcess \/ FwdLeave \/ FwdEvict \/ FwdEmit

PumpStep ==
    \/ PumpLifecycle
    \/ \E c \in Convs : PumpVisit(c)
    \/ PumpDrain \/ PumpHandle \/ PumpNext \/ PumpSleep

Next ==
    \/ \E c \in Convs :
        CreateStart(c) \/ JoinBegin(c) \/ FwdTake(c)
    \/ ListGroups
    \/ CmdStep
    \/ \E t \in Tasks : TaskStep(t)
    \/ FwdStep
    \/ PumpStep

Spec == Init /\ [][Next]_vars

(* Threads that have work keep running: every task wakes from its sleep,   *)
(* the forwarder finishes the packet in hand, the pump ticks and a command *)
(* in progress goes on.  New commands and packets are not promised.        *)
Fairness ==
    /\ WF_vars(CmdStep)
    /\ \A t \in Tasks : WF_vars(TaskStep(t))
    /\ WF_vars(FwdStep)
    /\ WF_vars(PumpStep)

FairSpec == Spec /\ Fairness

------------------------------------------------------------------------------
(* Properties.                                                             *)

(* The pump's idea of the active conversations never diverges from the     *)
(* registry: active_fanouts with the buffered lifecycle events applied are *)
(* exactly the live slots, plus a slot a finalizer has dropped and is      *)
(* about to report.  install_conversation and finalize_self_leave each     *)
(* touch registry and buffer under different locks.                        *)
FanoutMatchesRegistry ==
    \A c \in Convs : c \in Announced <=> Live(c) \/ Emitting(c)

(* finalize_self_leave works by name.  When it is about to run, the slot   *)
(* under that name is still the conversation that asked to leave: a join   *)
(* or create under the same name cannot have slipped in between.           *)
FinalizerOwnsSlot ==
    \A c \in Convs : Removing(c) => Live(c) /\ reg[c] \in torn

(* The consensus storage is shared and keyed by name, so whoever takes a   *)
(* name next finds what is stored under it.  A name without a live         *)
(* conversation has no scope, unless delete_scope said that it failed:     *)
(* every way a live slot is lost, also to a timed-out join that races the  *)
(* welcome, goes through the cleanup.                                      *)
NoOrphanScope ==
    \A c \in Convs : scope[c] = "held" <=> Live(c)

\* A step leaves every conversation in its slot that the library still has.
KeepsMembers ==
    \A c \in Convs : Live(c) /\ reg[c] \notin torn =>
        reg'[c] = reg[c] /\ Live(c)'

(* A live conversation that the library has not torn down never loses its  *)
(* slot and never falls back to a pending join: not by a timed-out join of *)
(* the same name, not by a second join, not by a stale finalizer.          *)
NeverDropsMember == [][KeepsMembers]_vars

\* How the registry's state reads as a state of Membership.
StatusOf(c) ==
    IF reg[c] = NoEntry THEN "absent"
    ELSE IF st[reg[c]] = "pending" THEN "joining"
    ELSE IF reg[c] \in torn THEN "departed" ELSE "member"

Status == [c \in Convs |-> StatusOf(c)]

Abstract == INSTANCE Membership WITH status <- Status

(* Whatever the interleaving of commands, welcomes, polling loops, timed   *)
(* out joins and finalizers, each name goes through joining, member,       *)
(* departed and absent in the order Membership allows, one conversation a  *)
(* step.                                                                   *)
ImplementsMembership == Abstract!Spec

(* The pump finds every conversation that stays live.                      *)
LiveGetsFanout ==
    \A c \in Convs : Live(c) ~> (c \in fanouts \/ ~Live(c))

(* No task outlives its conversation for ever: once a name is gone its     *)
(* waiters give up and its polling loops stop, unless it comes back.       *)
TasksEnd ==
    \A c \in Convs : (reg[c] = NoEntry) ~>
        (reg[c] # NoEntry \/ \A t \in Tasks : task[t].conv # c)

(* A join is bounded (group.rs: "Bound the wait by a fixed number of       *)
(* polling rounds"): a pending slot goes live or is dropped.               *)
JoinResolves ==
    \A c \in Convs : Pending(c) ~> ~Pending(c)

(* Every member's conversation is polled (group.rs: "Unified polling loop  *)
(* for any group member (creator or joiner)").                             *)
MemberIsPolled ==
    \A c \in Convs : Live(c) ~>
        (~Live(c) \/ \E t \in Tasks :
                        task[t].conv = c /\ task[t].pc \in {"poll", "run"})

(* A conversation the library has torn down disappears from the UI: its    *)
(* Leaving event reaches GatewayEventFanout::handle, unless the name is    *)
(* taken again first.                                                      *)
LeavingReachesUi ==
    \A c \in Convs : (Live(c) /\ reg[c] \in torn) ~>
        (c \notin shown \/ (reg[c] # NoEntry /\ reg[c] \notin torn))

(* A conversation the library has torn down is evicted from the registry   *)
(* (inbound.rs: "must not strand a zombie").                               *)
TornIsEvicted ==
    \A c \in Convs : (Live(c) /\ reg[c] \in torn) ~> ~(Live(c) /\ reg[c] \in torn)
=============================================================================
