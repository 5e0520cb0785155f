---------------------------- MODULE OutboundFlush ----------------------------
(***************************************************************************)
(* How packets leave one conversation.  The library only buffers them.     *)
(* Every call of `User` that may have produced packets flushes the buffer  *)
(* itself: it drains all of it, then takes the transport mutex, then       *)
(* publishes packet by packet.  The event pump drains and publishes the    *)
(* same buffer on every tick.  Draining and publishing are separate steps, *)
(* so a caller can find its packets gone and another thread can publish,   *)
(* or lose, them.  Packets are numbered in the order they are made.        *)
(***************************************************************************)
EXTENDS Naturals, Sequences

CONSTANTS
    Callers,     \* threads inside a User call: commands, polls, inbound
    Pump,        \* the event pump
    NoWorker,
    MaxBurst,    \* bound: packets one call produces
    MaxPackets,  \* bound: packets of a behaviour
    MayFail      \* environment: publish may return an error

ASSUME FlushAssumption ==
    /\ Pump \notin Callers /\ NoWorker \notin Callers \cup {Pump}
    /\ MaxBurst \in Nat \ {0} /\ MaxPackets \in Nat /\ MayFail \in BOOLEAN

Workers == Callers \cup {Pump}

VARIABLES
    made,   \* number of packets made so far
    buf,    \* the conversation's outbound buffer
    pc,     \* worker -> where its flush is
    batch,  \* worker -> packets drained and not yet published
    own,    \* worker -> packets the call in progress has made
    calls,  \* packet -> the first packet of the same call
    lock,   \* holder of the transport mutex
    wire,   \* packets the transport accepted, in order
    lost,   \* packets dropped after a publish error
    acked   \* packets of calls that returned Ok

vars == <<made, buf, pc, batch, own, calls, lock, wire, lost, acked>>

Packets == 1 .. made

Items(s) == {s[i] : i \in DOMAIN s}

(* Types.                                                                  *)
TypeOK ==
    /\ made \in Nat
    /\ buf \in Seq(Nat)
    /\ pc \in [Workers -> {"idle", "flush", "lock", "publish"}]
    /\ batch \in [Workers -> Seq(Nat)]
    /\ own \in [Workers -> SUBSET Nat]
    /\ calls \in Seq(Nat)
    /\ lock \in Workers \cup {NoWorker}
    /\ wire \in Seq(Nat)
    /\ lost \subseteq Nat
    /\ acked \subseteq Nat

Init ==
    /\ made = 0
    /\ buf = <<>>
    /\ pc = [w \in Workers |-> "idle"]
    /\ batch = [w \in Workers |-> <<>>]
    /\ own = [w \in Workers |-> {}]
    /\ calls = <<>>
    /\ lock = NoWorker
    /\ wire = <<>> /\ lost = {} /\ acked = {}

------------------------------------------------------------------------------
\* The next n packets.
Burst(n) == [i \in 1 .. n |-> made + i]

Return(w, ok) ==
    /\ pc' = [pc EXCEPT ![w] = "idle"]
    /\ own' = [own EXCEPT ![w] = {}]
    /\ acked' = IF ok THEN acked \cup own[w] ELSE acked

\* Under the conversation's write lock a call of worker w buffers n packets.
Buffer(w, n) ==
    /\ pc[w] = "idle" /\ made + n <= MaxPackets
    /\ made' = made + n
    /\ buf' = buf \o Burst(n)
    /\ calls' = calls \o [i \in 1 .. n |-> made + 1]
    /\ UNCHANGED <<batch, lock, wire, lost, acked>>

\* The call succeeds and goes on to its flush.
Call(w, n) ==
    /\ Buffer(w, n)
    /\ own' = [own EXCEPT ![w] = Items(Burst(n))]
    /\ pc' = [pc EXCEPT ![w] = "flush"]

\* The call fails after it has buffered packets (in the library, or in the
\* clean-up of a leave): `?` returns before the flush and they stay behind.
CallFails(w) == \E n \in 1 .. MaxBurst : Buffer(w, n) /\ UNCHANGED <<own, pc>>

send_message(w) == Call(w, 1)

\* vote, add_member, remove_member, initiate_proposal, leave_conversation.
propose(w) == \E n \in 1 .. MaxBurst : Call(w, n)

\* poll_conversation, handle_inbound, receive_key_package, accept_welcome:
\* the library may have nothing to send.
advance(w) == \E n \in 0 .. MaxBurst : Call(w, n)

\* send_key_package builds its packet itself and bypasses the buffer.
send_key_package(w) ==
    /\ pc[w] = "idle" /\ made < MaxPackets
    /\ made' = made + 1
    /\ batch' = [batch EXCEPT ![w] = <<made + 1>>]
    /\ own' = [own EXCEPT ![w] = {made + 1}]
    /\ calls' = Append(calls, made + 1)
    /\ pc' = [pc EXCEPT ![w] = "lock"]
    /\ UNCHANGED <<buf, lock, wire, lost, acked>>

\* The pump handles WelcomeReady: a welcome minted here is published under
\* the same mutex, past the buffer.
pump_welcome ==
    /\ pc[Pump] = "idle" /\ made < MaxPackets
    /\ made' = made + 1
    /\ batch' = [batch EXCEPT ![Pump] = <<made + 1>>]
    /\ calls' = Append(calls, made + 1)
    /\ pc' = [pc EXCEPT ![Pump] = "lock"]
    /\ UNCHANGED <<buf, own, lock, wire, lost, acked>>

\* Mutant: the flush takes only the oldest packet.
flush_drain_one(w) ==
    /\ pc[w] = "flush"
    /\ buf' = IF buf = <<>> THEN buf ELSE Tail(buf)
    /\ IF buf = <<>>
       THEN Return(w, TRUE) /\ UNCHANGED batch
       ELSE /\ batch' = [batch EXCEPT ![w] = <<Head(buf)>>]
            /\ pc' = [pc EXCEPT ![w] = "lock"]
            /\ UNCHANGED <<own, acked>>
    /\ UNCHANGED <<made, calls, lock, wire, lost>>

\* Mutant: the flush copies the buffer and does not empty it.
flush_peek(w) ==
    /\ pc[w] = "flush"
    /\ IF buf = <<>>
       THEN Return(w, TRUE) /\ UNCHANGED batch
       ELSE /\ batch' = [batch EXCEPT ![w] = buf]
            /\ pc' = [pc EXCEPT ![w] = "lock"]
            /\ UNCHANGED <<own, acked>>
    /\ UNCHANGED <<made, calls, buf, lock, wire, lost>>

\* Mutant: the flush gives up when the transport is busy.
flush_try(w) ==
    /\ pc[w] = "flush"
    /\ buf' = IF lock = NoWorker THEN <<>> ELSE buf
    /\ IF buf = <<>> \/ lock # NoWorker
       THEN Return(w, TRUE) /\ UNCHANGED batch
       ELSE /\ batch' = [batch EXCEPT ![w] = buf]
            /\ pc' = [pc EXCEPT ![w] = "lock"]
            /\ UNCHANGED <<own, acked>>
    /\ UNCHANGED <<made, calls, lock, wire, lost>>

\* flush: drain the whole buffer; nothing to do when it is empty.
flush_drain(w) ==
    /\ pc[w] = "flush"
    /\ buf' = <<>>
    /\ IF buf = <<>>
       THEN Return(w, TRUE) /\ UNCHANGED batch
       ELSE /\ batch' = [batch EXCEPT ![w] = buf]
            /\ pc' = [pc EXCEPT ![w] = "lock"]
            /\ UNCHANGED <<own, acked>>
    /\ UNCHANGED <<made, calls, lock, wire, lost>>

\* Mutant: the pump drains the buffer and goes on with its first packet.
pump_drain_first ==
    /\ pc[Pump] = "idle" /\ buf # <<>>
    /\ buf' = <<>>
    /\ batch' = [batch EXCEPT ![Pump] = <<Head(buf)>>]
    /\ pc' = [pc EXCEPT ![Pump] = "lock"]
    /\ UNCHANGED <<made, calls, own, lock, wire, lost, acked>>

\* The pump's tick, for this conversation.
pump_drain ==
    /\ pc[Pump] = "idle" /\ buf # <<>>
    /\ buf' = <<>>
    /\ batch' = [batch EXCEPT ![Pump] = buf]
    /\ pc' = [pc EXCEPT ![Pump] = "lock"]
    /\ UNCHANGED <<made, calls, own, lock, wire, lost, acked>>

acquire(w) ==
    /\ pc[w] = "lock" /\ lock = NoWorker
    /\ lock' = w
    /\ pc' = [pc EXCEPT ![w] = "publish"]
    /\ UNCHANGED <<made, calls, buf, batch, own, wire, lost, acked>>

\* Mutant: the mutex guard is leaked.
release_never(w) == UNCHANGED lock

release(w) == lock' = NoWorker

publish(w) ==
    /\ pc[w] = "publish" /\ batch[w] # <<>>
    /\ wire' = Append(wire, Head(batch[w]))
    /\ batch' = [batch EXCEPT ![w] = Tail(@)]
    /\ UNCHANGED <<made, calls, buf, pc, own, lock, lost, acked>>

\* The batch is out: drop the guard and return.
published(w) ==
    /\ pc[w] = "publish" /\ batch[w] = <<>>
    /\ release(w)
    /\ Return(w, TRUE)
    /\ UNCHANGED <<made, calls, buf, batch, wire, lost>>

\* A caller's publish fails: `?` returns and the rest of the batch is gone.
publish_fails(w) ==
    /\ MayFail
    /\ w # Pump /\ pc[w] = "publish" /\ batch[w] # <<>>
    /\ lost' = lost \cup Items(batch[w])
    /\ batch' = [batch EXCEPT ![w] = <<>>]
    /\ release(w)
    /\ Return(w, FALSE)
    /\ UNCHANGED <<made, calls, buf, wire>>

\* The pump logs a failed publish and goes on with the next packet.
pump_publish_fails ==
    /\ MayFail
    /\ pc[Pump] = "publish" /\ batch[Pump] # <<>>
    /\ lost' = lost \cup {Head(batch[Pump])}
    /\ batch' = [batch EXCEPT ![Pump] = Tail(@)]
    /\ UNCHANGED <<made, calls, buf, pc, own, lock, wire, acked>>

------------------------------------------------------------------------------
Flush(w) ==
    flush_drain(w) \/ acquire(w) \/ publish(w) \/ published(w) \/ publish_fails(w)

Next ==
    \/ \E w \in Callers :
        \/ send_message(w) \/ propose(w) \/ advance(w) \/ send_key_package(w)
        \/ CallFails(w)
    \/ \E w \in Workers : Flush(w)
    \/ pump_welcome \/ pump_drain \/ pump_publish_fails

Spec == Init /\ [][Next]_vars

(* A flush that has begun goes on and the pump ticks.  The mutex need not  *)
(* be fair.                                                                *)
Fairness ==
    /\ \A w \in Workers : WF_vars(Flush(w))
    /\ WF_vars(pump_drain)

FairSpec == Spec /\ Fairness

------------------------------------------------------------------------------
Injective(s) == \A i, j \in DOMAIN s : s[i] = s[j] => i = j

\* The packets of no two of buffer, batches, wire and losses meet.
Apart ==
    /\ \A w \in Workers :
        /\ Items(batch[w]) \cap Items(buf) = {}
        /\ Items(batch[w]) \cap Items(wire) = {}
        /\ Items(batch[w]) \cap lost = {}
        /\ \A v \in Workers \ {w} : Items(batch[w]) \cap Items(batch[v]) = {}
    /\ Items(buf) \cap (Items(wire) \cup lost) = {}
    /\ Items(wire) \cap lost = {}

(* Two flushers share a buffer and yet no packet is published twice: a     *)
(* packet is in one place, once.                                           *)
NoDuplicates ==
    /\ Injective(wire) /\ Injective(buf)
    /\ \A w \in Workers : Injective(batch[w])
    /\ Apart

(* Every packet made is accounted for: still buffered, in a flusher's      *)
(* hands, published, or dropped after a publish error.                     *)
NothingVanishes ==
    Packets = Items(buf) \cup Items(wire) \cup lost
              \cup UNION {Items(batch[w]) : w \in Workers}

(* A call that has returned Ok left none of its packets in the buffer: it, *)
(* or another flusher, has taken them ("keep their send-on-op behaviour"). *)
OkMeansTaken == acked \cap Items(buf) = {}

(* What one call has produced goes out in the order it was produced, even  *)
(* when the pump or another call publishes it: no flusher takes a part of  *)
(* a call's packets.  (Packets of different calls may overtake each other  *)
(* between the drain and the mutex.)                                       *)
CallsKeepOrder ==
    \A i, j \in DOMAIN wire :
        i < j /\ calls[wire[i]] = calls[wire[j]] => wire[i] < wire[j]

(* No packet stays behind, not even one of a call that failed before its   *)
(* flush: each is published, or dropped after a publish error, by the call *)
(* that made it, by another or by the pump.                                *)
EveryPacketLeaves ==
    \A p \in 1 .. MaxPackets : (p <= made) ~> (p \in Items(wire) \cup lost)

(* The command loop echoes a chat message once send_message has returned   *)
(* Ok, so that the transcript shows no "sent" message "that never actually *)
(* reached peers" (ui_bridge): a call that returned Ok loses no packet.    *)
OkMeansSent == acked \cap lost = {}
=============================================================================
