------------------------------ MODULE WakuNode ------------------------------
(***************************************************************************)
(* The Waku delivery service, sending side: the thread that owns the       *)
(* libwaku node, the bounded command queue in front of it and the clones   *)
(* of `WakuDeliveryService` that publish through it.                       *)
(*                                                                         *)
(* `publish` takes `&mut self` and waits for its reply, so a clone has one *)
(* command under way at most and a command is named by its clone.  Packets *)
(* are numbered.                                                           *)
(***************************************************************************)
EXTENDS Naturals, Sequences

CONSTANTS
    Clones,      \* clones of the service, First the one start() returns
    First, None,
    QueueCap,    \* 256, the capacity of the command channel
    MaxPackets,  \* bound: publish calls of a behaviour
    MayPanic     \* environment: the node thread may panic

ASSUME WakuAssumption ==
    /\ First \in Clones /\ None \notin Clones
    /\ QueueCap \in Nat \ {0} /\ MaxPackets \in Nat /\ MayPanic \in BOOLEAN

VARIABLES
    node,     \* where node_thread is
    running,  \* libwaku is started and not yet stopped
    closure,  \* the boxed event closure exists
    cur,      \* the command node_thread is publishing
    ready,    \* the ready channel
    start,    \* the call of start()
    queue,    \* the command channel
    pc,       \* clone -> where its holder is
    pkt,      \* clone -> the packet of its latest publish
    reply,    \* clone -> the reply channel of its latest publish
    made,     \* packets so far
    relayed,  \* packets the relay has accepted
    late,     \* packets libwaku timed out on and may still relay
    acked,    \* packets whose publish returned Ok
    done      \* packets whose publish has returned

nodeVars == <<node, running, closure, cur, ready>>
callVars == <<start, pc, pkt, made, acked, done>>
vars == <<nodeVars, queue, reply, relayed, late, callVars>>

(* Types.                                                                  *)
TypeOK ==
    /\ node \in {"boot", "started", "serve", "publish", "dropGuard", "dropNode",
                 "dropReceiver", "over"}
    /\ running \in BOOLEAN /\ closure \in BOOLEAN
    /\ cur \in Clones \cup {None} /\ (node = "publish") = (cur # None)
    /\ ready \in {"empty", "ok", "err"}
    /\ start \in {"waiting", "ok", "err"}
    /\ queue \in Seq(Clones) /\ Len(queue) <= QueueCap
    /\ pc \in [Clones -> {"none", "idle", "send", "wait", "shut"}]
    /\ pkt \in [Clones -> 0 .. made]
    /\ reply \in [Clones -> {"empty", "ok", "err", "closed"}]
    /\ made \in Nat
    /\ relayed \subseteq 1 .. made /\ late \subseteq 1 .. made /\ acked \subseteq done
    /\ done \subseteq 1 .. made

Init ==
    /\ node = "boot" /\ running = FALSE /\ closure = FALSE /\ cur = None
    /\ ready = "empty" /\ start = "waiting"
    /\ queue = <<>>
    /\ pc = [c \in Clones |-> "none"]
    /\ pkt = [c \in Clones |-> 0]
    /\ reply = [c \in Clones |-> "empty"]
    /\ made = 0 /\ relayed = {} /\ late = {} /\ acked = {} /\ done = {}

Holds(c) == pc[c] \in {"idle", "send", "wait"}

\* Someone still owns a sender of the command channel.
Senders == start = "waiting" \/ \E c \in Clones : Holds(c)

------------------------------------------------------------------------------
(* The node thread.                                                        *)

\* WakuNodeCtx::new or start fails.
BootFails ==
    /\ node = "boot"
    /\ ready' = "err"
    /\ node' = "dropReceiver"
    /\ UNCHANGED <<running, closure, cur, queue, reply, relayed, late, callVars>>

Boot ==
    /\ node = "boot"
    /\ running' = TRUE
    /\ node' = "started"
    /\ UNCHANGED <<closure, cur, ready, queue, reply, relayed, late, callVars>>

\* The ENR and the subscription may fail without consequence; the event
\* callback is registered and start() is told.
Ready ==
    /\ node = "started"
    /\ closure' = TRUE
    /\ ready' = "ok"
    /\ node' = "serve"
    /\ UNCHANGED <<running, cur, queue, reply, relayed, late, callVars>>

\* out_rx.recv()
Take ==
    /\ node = "serve" /\ queue # <<>>
    /\ cur' = Head(queue)
    /\ queue' = Tail(queue)
    /\ node' = "publish"
    /\ UNCHANGED <<running, closure, ready, reply, relayed, late, callVars>>

Replies(r) ==
    /\ reply' = [reply EXCEPT ![cur] = r]
    /\ cur' = None
    /\ node' = "serve"

\* Mutant: the reply does not wait for libwaku's answer.
RelayAcceptsLater ==
    /\ node = "publish"
    /\ Replies("ok")
    /\ UNCHANGED <<running, closure, ready, queue, relayed, late, callVars>>

\* do_publish, accepted by libwaku, which answers through the callback
\* before waku_relay_publish returns.
RelayAccepts ==
    /\ node = "publish"
    /\ relayed' = relayed \cup {pkt[cur]}
    /\ Replies("ok")
    /\ UNCHANGED <<running, closure, ready, queue, late, callVars>>

\* do_publish returns an error: refused, or not answered in time.
RelayFails ==
    /\ node = "publish"
    /\ late' \in {late, late \cup {pkt[cur]}}
    /\ Replies("err")
    /\ UNCHANGED <<running, closure, ready, queue, relayed, callVars>>

\* libwaku relays a packet after it timed out on it.
RelayLate ==
    /\ running
    /\ \E p \in late : relayed' = relayed \cup {p} /\ late' = late \ {p}
    /\ UNCHANGED <<nodeVars, queue, reply, callVars>>

\* Mutant: the loop ignores the error of recv().
LoopContinues ==
    /\ node = "serve" /\ queue = <<>> /\ ~Senders
    /\ UNCHANGED vars

\* Every sender is gone and the channel is drained: recv() fails.
LoopEnds ==
    /\ node = "serve" /\ queue = <<>> /\ ~Senders
    /\ node' = "dropGuard"
    /\ UNCHANGED <<running, closure, cur, ready, queue, reply, relayed, late, callVars>>

\* A panic unwinds node_thread.  The command in hand is dropped at once;
\* libwaku may have its packet.
Panics ==
    /\ MayPanic
    /\ node \in {"boot", "started", "serve", "publish"}
    /\ reply' = [c \in Clones |-> IF c = cur THEN "closed" ELSE reply[c]]
    /\ late' \in {late, late \cup {pkt[c] : c \in {cur} \ {None}}}
    /\ cur' = None
    /\ node' = "dropGuard"
    /\ UNCHANGED <<running, closure, ready, queue, relayed, callVars>>

\* Locals are dropped in the reverse order of their declaration: first
\* _event_cb_guard, then waku, whose Drop stops the node.
DropGuard ==
    /\ node = "dropGuard"
    /\ closure' = FALSE
    /\ node' = "dropNode"
    /\ UNCHANGED <<running, cur, ready, queue, reply, relayed, late, callVars>>

DropNode ==
    /\ node = "dropNode"
    /\ running' = FALSE
    /\ node' = "dropReceiver"
    /\ UNCHANGED <<closure, cur, ready, queue, reply, relayed, late, callVars>>

\* Mutant: the commands left in the channel are leaked.
DropReceiverLeaks ==
    /\ node = "dropReceiver"
    /\ queue' = <<>>
    /\ node' = "over"
    /\ UNCHANGED <<running, closure, cur, ready, reply, relayed, late, callVars>>

\* The parameters go last: out_rx with the commands still in it.
DropReceiver ==
    /\ node = "dropReceiver"
    /\ reply' = [c \in Clones |-> IF \E i \in DOMAIN queue : queue[i] = c
                                  THEN "closed" ELSE reply[c]]
    /\ queue' = <<>>
    /\ node' = "over"
    /\ UNCHANGED <<running, closure, cur, ready, relayed, late, callVars>>

------------------------------------------------------------------------------
(* The callers.                                                            *)

\* Mutant: start() waits for a message even after the sender is gone.
StartReturnsOnMessage ==
    /\ start = "waiting" /\ ready # "empty"
    /\ start' = ready
    /\ pc' = IF ready = "ok" THEN [pc EXCEPT ![First] = "idle"] ELSE pc
    /\ UNCHANGED <<nodeVars, queue, reply, relayed, late, pkt, made, acked, done>>

\* start(): ready_rx.recv(), which fails when ready_tx is dropped unused.
StartReturns ==
    /\ start = "waiting" /\ (ready # "empty" \/ node = "over")
    /\ start' = IF ready = "ok" THEN "ok" ELSE "err"
    /\ pc' = IF ready = "ok" THEN [pc EXCEPT ![First] = "idle"] ELSE pc
    /\ UNCHANGED <<nodeVars, queue, reply, relayed, late, pkt, made, acked, done>>

Clone(c, d) ==
    /\ Holds(c) /\ pc[d] = "none"
    /\ pc' = [pc EXCEPT ![d] = "idle"]
    /\ UNCHANGED <<nodeVars, queue, reply, relayed, late, start, pkt, made, acked, done>>

Publish(c) ==
    /\ pc[c] = "idle" /\ made < MaxPackets
    /\ made' = made + 1
    /\ pkt' = [pkt EXCEPT ![c] = made + 1]
    /\ reply' = [reply EXCEPT ![c] = "empty"]
    /\ pc' = [pc EXCEPT ![c] = "send"]
    /\ UNCHANGED <<nodeVars, queue, relayed, late, start, acked, done>>

\* Mutant: the channel is unbounded.
SendUnbounded(c) ==
    /\ pc[c] = "send" /\ node # "over"
    /\ queue' = Append(queue, c)
    /\ pc' = [pc EXCEPT ![c] = "wait"]
    /\ UNCHANGED <<nodeVars, reply, relayed, late, start, pkt, made, acked, done>>

\* outbound.send(): blocks while the channel is full.
Send(c) ==
    /\ pc[c] = "send" /\ node # "over" /\ Len(queue) < QueueCap
    /\ queue' = Append(queue, c)
    /\ pc' = [pc EXCEPT ![c] = "wait"]
    /\ UNCHANGED <<nodeVars, reply, relayed, late, start, pkt, made, acked, done>>

Returns(c, ok) ==
    /\ pc' = [pc EXCEPT ![c] = "idle"]
    /\ acked' = IF ok THEN acked \cup {pkt[c]} ELSE acked
    /\ done' = done \cup {pkt[c]}
    /\ UNCHANGED <<nodeVars, queue, reply, relayed, late, start, pkt, made>>

\* outbound.send() fails: the receiver is gone.
SendFails(c) ==
    /\ pc[c] = "send" /\ node = "over"
    /\ Returns(c, FALSE)

\* Mutant: the caller gives up waiting for the reply.
ReceiveTimesOut(c) ==
    /\ pc[c] = "wait"
    /\ Returns(c, reply[c] = "ok")

\* reply_rx.recv(): the node's answer, or an error when it is dropped.
Receive(c) ==
    /\ pc[c] = "wait" /\ reply[c] # "empty"
    /\ Returns(c, reply[c] = "ok")

\* shutdown(self) drops this clone's sender; dropping the clone is the same.
Shutdown(c) ==
    /\ pc[c] = "idle"
    /\ pc' = [pc EXCEPT ![c] = "shut"]
    /\ UNCHANGED <<nodeVars, queue, reply, relayed, late, start, pkt, made, acked, done>>

------------------------------------------------------------------------------
NodeStep ==
    \/ BootFails \/ Boot \/ Ready
    \/ Take \/ RelayAccepts \/ RelayFails
    \/ LoopEnds \/ DropGuard \/ DropNode \/ DropReceiver

CallStep(c) == Send(c) \/ SendFails(c) \/ Receive(c)

\* The process ends, or the delivery service has nothing left to do.
Finished ==
    /\ node = "over" /\ start # "waiting" /\ \A c \in Clones : pc[c] # "wait"
    /\ UNCHANGED vars

Next ==
    \/ NodeStep \/ Panics \/ RelayLate
    \/ StartReturns
    \/ \E c \in Clones :
        \/ Publish(c) \/ CallStep(c) \/ Shutdown(c)
        \/ \E d \in Clones : Clone(c, d)
    \/ Finished

Spec == Init /\ [][Next]_vars

(* The node thread runs, libwaku answers within its timeout, and a caller  *)
(* whose channel operation has become possible wakes.                      *)
Fairness ==
    /\ WF_vars(NodeStep)
    /\ WF_vars(StartReturns)
    /\ \A c \in Clones : WF_vars(CallStep(c))

FairSpec == Spec /\ Fairness

------------------------------------------------------------------------------
(* publish returns Ok only for a packet libwaku has accepted, whichever    *)
(* clones publish beside it and wherever the node thread panics.           *)
OkMeansRelayed == acked \subseteq relayed

\* Only libwaku itself still relays a packet whose publish has returned.
Settles == \A p \in done : p \in relayed' => p \in relayed \cup late

(* An answer is final: once publish has returned, no command of its is     *)
(* left in the channel or in the node thread's hands to be given to        *)
(* libwaku later, also after a panic.  What libwaku was given and timed    *)
(* out on may still go out.                                                *)
ErrorIsFinal == [][Settles]_vars

(* No caller is stuck: a publish returns even if the channel is full, the  *)
(* node has ended, or the node thread panics with the command in hand or   *)
(* in the channel.                                                         *)
PublishReturns ==
    \A c \in Clones : pc[c] \in {"send", "wait"} ~> pc[c] = "idle"

(* start() returns, also when the thread panics before it is ready.        *)
StartAnswers == start = "waiting" ~> start # "waiting"

(* "Drop every clone (or call shutdown) to stop the node": the thread ends *)
(* and libwaku is stopped once the last clone is dropped or shut down.     *)
(* (A shutdown stops nothing while other clones live.)                     *)
LastCloneStopsNode == (~Senders) ~> (node = "over" /\ ~running)

(* "Box must outlive the node - libwaku holds a raw pointer to it" (and    *)
(* wrapper.rs: "The returned Box must outlive the node"): once the event   *)
(* callback is registered its closure exists for as long as libwaku runs.  *)
ClosureOutlivesNode == ready = "ok" /\ running => closure
=============================================================================
