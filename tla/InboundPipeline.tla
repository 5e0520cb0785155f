--------------------------- MODULE InboundPipeline ---------------------------
(***************************************************************************)
(* The receiving side of the delivery service: libwaku's event callback,   *)
(* the bounded queue of a subscriber, the `ds-forwarder` thread, the       *)
(* broadcast ring and the pubsub forwarder with its topic filter.          *)
(*                                                                         *)
(* A conversation id is a sequence of the segments between its '/'         *)
(* characters, so a content topic is a sequence of segments too.  Messages *)
(* are numbered in the order in which libwaku reports them.                *)
(***************************************************************************)
EXTENDS Naturals, Sequences, FiniteSets

CONSTANTS
    Names,       \* conversation ids, as segment sequences
    SubCap,      \* 256, capacity of a subscriber queue
    RingCap,     \* 512, capacity of the broadcast channel
    MaxMessages, \* bound: messages of a behaviour
    NoPacket

ASSUME PipelineAssumption ==
    /\ Names \subseteq Seq(STRING) \ {<<>>}
    /\ SubCap \in Nat \ {0} /\ RingCap \in Nat \ {0} /\ MaxMessages \in Nat

VARIABLES
    arrived,   \* messages reported so far
    queue,     \* the subscriber queue
    senders,   \* the subscriber list is alive (service clones, callback)
    pruned,    \* the callback has removed the subscriber
    cancelled, \* the token of Bootstrap.cancel
    ds,        \* where the ds-forwarder thread is
    ring,      \* broadcast packets the forwarder has not received
    fwd,       \* the pubsub forwarder: its packet, or none
    started,   \* the forwarder has subscribed to the ring
    topics,    \* the TopicFilter's set of keys
    handled,   \* packets given to the user, in order
    lost,      \* message number and reason of every packet dropped
    peak       \* most packets under way at once

dsVars  == <<queue, senders, pruned, cancelled, ds>>
fwdVars == <<ring, fwd, started, topics, handled>>
vars == <<arrived, dsVars, fwdVars, lost, peak>>

------------------------------------------------------------------------------
(* Content topics.                                                         *)

Subtopics == {"app_msg", "welcome"}

\* "/{conversation_id}/{version}/{subtopic}/proto", split at '/'.
build_content_topic(name, sub) == <<"">> \o name \o <<"1", sub, "proto">>

\* Mutant: the version is taken for the subtopic.
parse_topic_short(t) ==
    IF Len(t) < 4 \/ t[2] = "" \/ t[3] = "" THEN <<>> ELSE <<t[2], t[3]>>

\* The second and the fourth segment, <<>> for None.
parse_content_topic(t) ==
    IF Len(t) < 4 \/ t[2] = "" \/ t[4] = "" THEN <<>> ELSE <<t[2], t[4]>>

\* What the segments of a topic can be.
Segments ==
    {"", "1", "proto"} \cup Subtopics
    \cup UNION {{name[i] : i \in DOMAIN name} : name \in Names}

\* An InboundPacket: number, the conversation and subtopic it parsed to.
\* `home` and `on` are the conversation and the subtopic it was published on.
Packet == [id: 1 .. MaxMessages, conv: Seq(Segments), sub: Segments,
           home: Names, on: Subtopics]

\* An Option: None is not a packet.
ASSUME NoPacketAssumption == NoPacket \notin Packet

\* parse_event on message n: a set with the packet, or empty for None.
parse_event(n, name, sub) ==
    LET p == parse_content_topic(build_content_topic(name, sub)) IN
    IF p = <<>> THEN {}
    ELSE {[id |-> n, conv |-> <<p[1]>>, sub |-> p[2], home |-> name, on |-> sub]}

------------------------------------------------------------------------------
InHand == IF fwd = NoPacket THEN <<>> ELSE <<fwd>>

\* Packets under way, oldest first.
UnderWay == InHand \o ring \o queue

Ids(s) == [i \in DOMAIN s |-> s[i].id]

Items(s) == {s[i].id : i \in DOMAIN s}

LostIds == {l.id : l \in lost}

Reasons == {"malformed", "full", "pruned", "no_receiver", "lagged", "filtered",
            "stopped"}

(* Types, with the capacity of the subscriber queue.                       *)
TypeOK ==
    /\ arrived \in 0 .. MaxMessages
    /\ queue \in Seq(Packet) /\ Len(queue) <= SubCap
    /\ senders \in BOOLEAN /\ pruned \in BOOLEAN /\ cancelled \in BOOLEAN
    /\ ds \in {"check", "recv", "over"} /\ started \in BOOLEAN
    /\ ring \in Seq(Packet)
    /\ fwd \in Packet \cup {NoPacket}
    /\ topics \subseteq Names \X Subtopics
    /\ handled \in Seq(Packet)
    /\ lost \subseteq [id: 1 .. arrived, why: Reasons]
    /\ peak \in Nat

Init ==
    /\ arrived = 0
    /\ queue = <<>> /\ senders = TRUE /\ pruned = FALSE
    /\ cancelled = FALSE /\ ds = "check"
    /\ ring = <<>> /\ fwd = NoPacket /\ started = FALSE
    /\ topics = {}
    /\ handled = <<>> /\ lost = {} /\ peak = 0

Loses(why, ids) == lost' = lost \cup {[id |-> n, why |-> why] : n \in ids}

------------------------------------------------------------------------------
(* The event callback, on libwaku's thread.                                *)

\* Mutant: the queue grows without bound.
FitsAlways == Len(queue) >= 0

\* Mutant: the last place of the queue is never used.
FitsOneLess == Len(queue) + 1 < SubCap

\* try_send finds room in the sync_channel.
Fits == Len(queue) < SubCap

\* The peak counts the packet that is arriving.
Counts == peak' = IF Len(UnderWay) + 1 > peak THEN Len(UnderWay) + 1 ELSE peak

\* A message for `name`: parse_event, then try_send to the subscriber, which
\* is kept when its queue is full and removed when its receiver is gone.
OnEvent(name, sub) ==
    /\ senders /\ arrived < MaxMessages
    /\ arrived' = arrived + 1
    /\ LET pkts == parse_event(arrived + 1, name, sub) IN
       \/ /\ pkts = {}
          /\ Loses("malformed", {arrived + 1})
          /\ UNCHANGED <<queue, pruned, peak>>
       \/ /\ pkts # {} /\ (pruned \/ ds = "over")
          /\ pruned' = TRUE
          /\ Loses("pruned", {arrived + 1})
          /\ UNCHANGED <<queue, peak>>
       \/ /\ pkts # {} /\ ~pruned /\ ds # "over"
          /\ Counts
          /\ \/ /\ Fits
                /\ queue' = queue \o <<CHOOSE p \in pkts : TRUE>>
                /\ UNCHANGED lost
             \/ /\ ~Fits
                /\ Loses("full", {arrived + 1})
                /\ UNCHANGED queue
          /\ UNCHANGED pruned
    /\ UNCHANGED <<senders, cancelled, ds, fwdVars>>

------------------------------------------------------------------------------
(* The ds-forwarder thread.                                                *)

\* The receiver is dropped with the thread and takes its queue along.
DsOver ==
    /\ ds' = "over"
    /\ queue' = <<>>
    /\ Loses("stopped", Items(queue))

DsCheck ==
    /\ ds = "check"
    /\ IF cancelled THEN DsOver ELSE ds' = "recv" /\ UNCHANGED <<queue, lost>>
    /\ UNCHANGED <<arrived, senders, pruned, cancelled, fwdVars, peak>>

\* Mutant: the packet is handed over before the ones already broadcast.
DsForwardFirst ==
    /\ ds = "recv" /\ queue # <<>>
    /\ queue' = Tail(queue)
    /\ ds' = "check"
    /\ IF started
       THEN ring' = <<Head(queue)>> \o ring /\ UNCHANGED lost
       ELSE Loses("no_receiver", {Head(queue).id}) /\ UNCHANGED ring
    /\ UNCHANGED <<arrived, senders, pruned, cancelled, fwd, started, topics,
                   handled, peak>>

\* recv_timeout yields a packet; a broadcast without receivers drops it.
DsForward ==
    /\ ds = "recv" /\ queue # <<>>
    /\ queue' = Tail(queue)
    /\ ds' = "check"
    /\ IF started
       THEN ring' = Append(ring, Head(queue)) /\ UNCHANGED lost
       ELSE Loses("no_receiver", {Head(queue).id}) /\ UNCHANGED ring
    /\ UNCHANGED <<arrived, senders, pruned, cancelled, fwd, started, topics,
                   handled, peak>>

\* Mutant: recv without a timeout.
DsTimeoutNever == FALSE /\ UNCHANGED vars

DsTimeout ==
    /\ ds = "recv" /\ queue = <<>> /\ senders
    /\ ds' = "check"
    /\ UNCHANGED <<arrived, queue, senders, pruned, cancelled, fwdVars, lost, peak>>

DsDisconnected ==
    /\ ds = "recv" /\ queue = <<>> /\ ~senders
    /\ DsOver
    /\ UNCHANGED <<arrived, senders, pruned, cancelled, fwdVars, peak>>

Cancel ==
    /\ ~cancelled
    /\ cancelled' = TRUE
    /\ UNCHANGED <<arrived, queue, senders, pruned, ds, fwdVars, lost, peak>>

\* Every clone of the service and the callback are gone.
DropService ==
    /\ senders
    /\ senders' = FALSE
    /\ UNCHANGED <<arrived, queue, pruned, cancelled, ds, fwdVars, lost, peak>>

------------------------------------------------------------------------------
(* The pubsub forwarder.                                                   *)

\* The spawned task subscribes to the ring.
Subscribe ==
    /\ ~started
    /\ started' = TRUE
    /\ UNCHANGED <<arrived, dsVars, ring, fwd, topics, handled, lost, peak>>

\* Mutant: a lag ends the forwarder, the match has no arm of its own for it.
FwdReceiveUnlagged ==
    /\ started /\ fwd = NoPacket /\ ring # <<>> /\ Len(ring) <= RingCap
    /\ ~\E l \in lost : l.why = "lagged"
    /\ fwd' = Head(ring)
    /\ ring' = Tail(ring)
    /\ UNCHANGED <<arrived, dsVars, started, topics, handled, lost, peak>>

FwdReceive ==
    /\ started /\ fwd = NoPacket /\ ring # <<>> /\ Len(ring) <= RingCap
    /\ fwd' = Head(ring)
    /\ ring' = Tail(ring)
    /\ UNCHANGED <<arrived, dsVars, started, topics, handled, lost, peak>>

\* Mutant: the oldest packet still held is skipped as well.
FwdLaggedOneMore ==
    /\ started /\ fwd = NoPacket /\ Len(ring) > RingCap
    /\ LET n == Len(ring) - RingCap IN
       /\ Loses("lagged", Items(SubSeq(ring, 1, n)))
       /\ ring' = SubSeq(ring, n + 2, Len(ring))
    /\ UNCHANGED <<arrived, dsVars, fwd, started, topics, handled, peak>>

\* RecvError::Lagged: the cursor moves to the oldest packet still held.
FwdLagged ==
    /\ started /\ fwd = NoPacket /\ Len(ring) > RingCap
    /\ LET n == Len(ring) - RingCap IN
       /\ Loses("lagged", Items(SubSeq(ring, 1, n)))
       /\ ring' = SubSeq(ring, n + 1, Len(ring))
    /\ UNCHANGED <<arrived, dsVars, fwd, started, topics, handled, peak>>

contains(p) == <<p.conv, p.sub>> \in topics

\* The filter lets the packet through and the user handles it.
FwdHandle ==
    /\ fwd # NoPacket /\ contains(fwd)
    /\ handled' = Append(handled, fwd)
    /\ fwd' = NoPacket
    /\ UNCHANGED <<arrived, dsVars, ring, started, topics, lost, peak>>

FwdFilter ==
    /\ fwd # NoPacket /\ ~contains(fwd)
    /\ Loses("filtered", {fwd.id})
    /\ fwd' = NoPacket
    /\ UNCHANGED <<arrived, dsVars, ring, started, topics, handled, peak>>

\* Create or join subscribes every subtopic of a conversation, Leaving
\* removes every key of it.
add_many(name) ==
    /\ topics' = topics \cup ({name} \X Subtopics)
    /\ UNCHANGED <<arrived, dsVars, ring, fwd, started, handled, lost, peak>>

remove_many(name) ==
    /\ topics' = {k \in topics : k[1] # name}
    /\ UNCHANGED <<arrived, dsVars, ring, fwd, started, handled, lost, peak>>

------------------------------------------------------------------------------
DsStep == DsCheck \/ DsForward \/ DsTimeout \/ DsDisconnected

FwdStep == FwdReceive \/ FwdLagged \/ FwdHandle \/ FwdFilter

Next ==
    \/ \E name \in Names :
        \/ \E sub \in Subtopics : OnEvent(name, sub)
        \/ add_many(name) \/ remove_many(name)
    \/ DsStep \/ Cancel \/ DropService
    \/ Subscribe \/ FwdStep

Spec == Init /\ [][Next]_vars

(* The thread runs and wakes from recv_timeout; the forwarder finishes the *)
(* packet in hand and takes the next.  Messages, logins, cancellation and  *)
(* changes of the filter are never promised.                               *)
Fairness == WF_vars(DsStep) /\ WF_vars(FwdStep)

FairSpec == Spec /\ Fairness

------------------------------------------------------------------------------
(* Order survives three hand-overs, overflow and lag: what has been        *)
(* handled, followed by everything still under way, is in the order in     *)
(* which libwaku reported it, and nothing occurs twice.                    *)
PipelineInOrder ==
    LET trail == Ids(handled \o UnderWay) IN
    \A i, j \in DOMAIN trail : i < j => trail[i] < trail[j]

(* Every message is handled, under way or lost for a reason on record; no  *)
(* message is in two of these places.                                      *)
NothingVanishes ==
    LET trail == Items(handled \o UnderWay) IN
    /\ trail \cup LostIds = 1 .. arrived
    /\ trail \cap LostIds = {}

(* "Capacity must handle bursts": as long as no more packets were under    *)
(* way at once than the smaller of the two buffers holds, neither of them  *)
(* dropped one.                                                            *)
BurstsLoseNothing ==
    peak <= SubCap /\ peak <= RingCap =>
        ~\E l \in lost : l.why \in {"full", "lagged"}

(* A conversation whose id has no '/' in it gets its packets under its own *)
(* id and on the subtopic they were published on, also beside              *)
(* conversations whose ids parse to something else.                        *)
RoutedHome ==
    \A i \in DOMAIN (handled \o UnderWay) :
        LET p == (handled \o UnderWay)[i] IN
        Len(p.home) = 1 => p.conv = p.home /\ p.sub = p.on

(* Cancelling the token ends the thread although nobody wakes it: it polls *)
(* the token between two bounded waits.                                    *)
CancelStops == cancelled ~> ds = "over"

(* Nothing gets stuck: every packet that entered the pipeline is handled   *)
(* or dropped, once the forwarder runs.                                    *)
PacketsMoveOn ==
    \A n \in 1 .. MaxMessages :
        (started /\ n \in Items(UnderWay)) ~> (n \notin Items(UnderWay))
=============================================================================
