----------------------- MODULE InboundPipeline_proofs -----------------------
(***************************************************************************)
(* Proofs about InboundPipeline, for any conversation ids, any capacities  *)
(* of the queue and of the ring and any number of messages.                *)
(*                                                                         *)
(* The packets handled and under way are four segments: handled, in hand,  *)
(* ring and queue.  The invariant says how the numbers of each segment lie *)
(* to those of the next ones, which is all a hand-over between neighbours  *)
(* or the loss of a prefix of one of them needs.                           *)
(***************************************************************************)
EXTENDS InboundPipeline, SequenceTheorems, TLAPS

\* p arrived under the name and on the subtopic it was published on, if the
\* name has one segment.
Routed(p) == Len(p.home) = 1 => p.conv = p.home /\ p.sub = p.on

RoutedPacket == {p \in Packet : Routed(p)}

Sorted(s) == \A i, j \in DOMAIN s : i < j => s[i].id < s[j].id

Below(A, B) == \A m \in A, n \in B : m < n

\* Types; what TypeOK says of packets, and that they are routed.
StateInv ==
    /\ arrived \in 0 .. MaxMessages
    /\ senders \in BOOLEAN /\ pruned \in BOOLEAN /\ cancelled \in BOOLEAN
    /\ ds \in {"check", "recv", "over"} /\ started \in BOOLEAN
    /\ topics \subseteq Names \X Subtopics
    /\ lost \subseteq [id: 1 .. arrived, why: Reasons]

SegmentInv ==
    /\ queue \in Seq(RoutedPacket) /\ ring \in Seq(RoutedPacket)
    /\ fwd \in RoutedPacket \cup {NoPacket}
    /\ handled \in Seq(RoutedPacket)

\* Every segment is in order and below the segments behind it.
OrderInv ==
    /\ Sorted(handled) /\ Sorted(ring) /\ Sorted(queue)
    /\ Below(Items(handled), Items(InHand) \cup Items(ring) \cup Items(queue))
    /\ Below(Items(InHand), Items(ring) \cup Items(queue))
    /\ Below(Items(ring), Items(queue))

Kept == Items(handled) \cup Items(InHand) \cup Items(ring) \cup Items(queue)

AccountInv == Kept \cup LostIds = 1 .. arrived /\ Kept \cap LostIds = {}

\* The peak covers what is under way, and what overflowed a buffer.
LoadInv ==
    /\ peak \in Nat
    /\ Len(queue) <= SubCap
    /\ Len(InHand) + Len(ring) + Len(queue) <= peak
    /\ (\E l \in lost : l.why = "full") => peak > SubCap
    /\ (\E l \in lost : l.why = "lagged") => peak > RingCap

Inv == StateInv /\ SegmentInv /\ OrderInv /\ AccountInv /\ LoadInv

------------------------------------------------------------------------------
(* Numbers and order of a sequence of packets.                             *)

(* The empty sequence.                                                     *)
LEMMA ItemsEmpty == Items(<<>>) = {} /\ Sorted(<<>>)
BY DEF Items, Sorted

(* A single packet.                                                        *)
LEMMA ItemsOne ==
    ASSUME NEW p \in Packet
    PROVE  Items(<<p>>) = {p.id} /\ Sorted(<<p>>) /\ Len(<<p>>) = 1
<1>1. DOMAIN <<p>> = {1} /\ <<p>>[1] = p /\ Len(<<p>>) = 1
  OBVIOUS
<1> QED BY <1>1 DEF Items, Sorted

(* A sequence of packets has numbers for items.                            *)
LEMMA ItemsNat ==
    ASSUME NEW s \in Seq(Packet) PROVE Items(s) \subseteq 1 .. MaxMessages
<1>1. \A i \in DOMAIN s : s[i] \in Packet
  OBVIOUS
<1> QED BY <1>1 DEF Items, Packet

(* A packet is appended.                                                   *)
LEMMA ItemsAppend ==
    ASSUME NEW s \in Seq(Packet), NEW p \in Packet
    PROVE  /\ Items(Append(s, p)) = Items(s) \cup {p.id}
           /\ Sorted(s) /\ Below(Items(s), {p.id}) => Sorted(Append(s, p))
<1> DEFINE t == Append(s, p)
<1>1. /\ Len(s) \in Nat /\ DOMAIN s = 1 .. Len(s)
      /\ DOMAIN t = 1 .. Len(s) + 1 /\ t[Len(s) + 1] = p
      /\ \A i \in DOMAIN s : t[i] = s[i]
  OBVIOUS
<1> HIDE DEF t
<1>2. Items(t) = Items(s) \cup {p.id}
  <2>1. ASSUME NEW n \in Items(t) PROVE n \in Items(s) \cup {p.id}
    <3>1. PICK i \in DOMAIN t : n = t[i].id
      BY <2>1 DEF Items
    <3>2. i \in DOMAIN s \/ i = Len(s) + 1
      BY <1>1
    <3> QED BY <1>1, <3>1, <3>2 DEF Items
  <2>2. ASSUME NEW n \in Items(s) PROVE n \in Items(t)
    <3>1. PICK i \in DOMAIN s : n = s[i].id
      BY DEF Items
    <3>2. i \in DOMAIN t /\ t[i] = s[i]
      BY <1>1
    <3> QED BY <3>1, <3>2 DEF Items
  <2>3. p.id \in Items(t)
    <3>1. Len(s) + 1 \in DOMAIN t
      BY <1>1
    <3> QED BY <1>1, <3>1 DEF Items
  <2> QED BY <2>1, <2>2, <2>3
<1>3. ASSUME Sorted(s), Below(Items(s), {p.id}) PROVE Sorted(t)
  <2> SUFFICES ASSUME NEW i \in DOMAIN t, NEW j \in DOMAIN t, i < j
               PROVE  t[i].id < t[j].id
    BY DEF Sorted
  <2>1. i \in DOMAIN s /\ t[i] = s[i] /\ s[i].id \in Items(s)
    BY <1>1 DEF Items
  <2>2. CASE j = Len(s) + 1
    BY <1>1, <1>3, <2>1, <2>2 DEF Below
  <2>3. CASE j # Len(s) + 1
    BY <1>1, <1>3, <2>1, <2>3 DEF Sorted
  <2> QED BY <2>2, <2>3
<1> QED BY <1>2, <1>3 DEF t

(* Two sequences in a row.                                                 *)
LEMMA ItemsConcat ==
    ASSUME NEW s \in Seq(Packet), NEW t \in Seq(Packet)
    PROVE  /\ Items(s \o t) = Items(s) \cup Items(t)
           /\ Sorted(s) /\ Sorted(t) /\ Below(Items(s), Items(t)) => Sorted(s \o t)
<1> DEFINE u == s \o t
<1>1. /\ Len(s) \in Nat /\ DOMAIN s = 1 .. Len(s)
      /\ Len(t) \in Nat /\ DOMAIN t = 1 .. Len(t)
      /\ DOMAIN u = 1 .. Len(s) + Len(t)
      /\ \A i \in DOMAIN s : u[i] = s[i]
      /\ \A i \in DOMAIN u : i > Len(s) => i - Len(s) \in DOMAIN t /\ u[i] = t[i - Len(s)]
      /\ \A i \in DOMAIN t : u[Len(s) + i] = t[i]
  OBVIOUS
<1> HIDE DEF u
<1>2. Items(u) = Items(s) \cup Items(t)
  <2>1. ASSUME NEW n \in Items(u) PROVE n \in Items(s) \cup Items(t)
    <3>1. PICK i \in DOMAIN u : n = u[i].id
      BY <2>1 DEF Items
    <3>2. i \in DOMAIN s \/ i > Len(s)
      BY <1>1
    <3> QED BY <1>1, <3>1, <3>2 DEF Items
  <2>2. ASSUME NEW n \in Items(s) PROVE n \in Items(u)
    <3>1. PICK i \in DOMAIN s : n = s[i].id
      BY DEF Items
    <3>2. i \in DOMAIN u /\ u[i] = s[i]
      BY <1>1
    <3> QED BY <3>1, <3>2 DEF Items
  <2>3. ASSUME NEW n \in Items(t) PROVE n \in Items(u)
    <3>1. PICK i \in DOMAIN t : n = t[i].id
      BY DEF Items
    <3>2. Len(s) + i \in DOMAIN u /\ u[Len(s) + i] = t[i]
      BY <1>1
    <3> QED BY <3>1, <3>2 DEF Items
  <2> QED BY <2>1, <2>2, <2>3
<1>3. ASSUME Sorted(s), Sorted(t), Below(Items(s), Items(t)) PROVE Sorted(u)
  <2> SUFFICES ASSUME NEW i \in DOMAIN u, NEW j \in DOMAIN u, i < j
               PROVE  u[i].id < u[j].id
    BY DEF Sorted
  <2>1. CASE j \in DOMAIN s
    BY <1>1, <1>3, <2>1 DEF Sorted
  <2>2. CASE i \in DOMAIN s /\ j > Len(s)
    <3>1. u[i].id \in Items(s)
      BY <1>1, <2>2 DEF Items
    <3>2. u[j].id \in Items(t)
      BY <1>1, <2>2 DEF Items
    <3> QED BY <1>3, <3>1, <3>2 DEF Below
  <2>3. CASE i > Len(s) /\ j > Len(s)
    <3>1. /\ i - Len(s) \in DOMAIN t /\ u[i] = t[i - Len(s)]
          /\ j - Len(s) \in DOMAIN t /\ u[j] = t[j - Len(s)]
          /\ i - Len(s) < j - Len(s)
      BY <1>1, <2>3
    <3> QED BY <1>3, <3>1 DEF Sorted
  <2> QED BY <1>1, <2>1, <2>2, <2>3
<1> QED BY <1>2, <1>3 DEF u

(* The sequence without its first n packets, and those n packets.          *)
LEMMA ItemsSplit ==
    ASSUME NEW s \in Seq(Packet), NEW n \in 0 .. Len(s)
    PROVE  LET a == SubSeq(s, 1, n)
               b == SubSeq(s, n + 1, Len(s))
           IN  /\ Items(s) = Items(a) \cup Items(b)
               /\ Len(b) = Len(s) - n
               /\ Sorted(s) => Sorted(b) /\ Below(Items(a), Items(b))
<1> DEFINE a == SubSeq(s, 1, n)
           b == SubSeq(s, n + 1, Len(s))
<1>1. /\ Len(s) \in Nat /\ n \in Nat /\ DOMAIN s = 1 .. Len(s)
      /\ DOMAIN a = 1 .. n /\ DOMAIN b = 1 .. Len(s) - n /\ Len(b) = Len(s) - n
      /\ \A i \in DOMAIN a : a[i] = s[i]
      /\ \A i \in DOMAIN b : b[i] = s[n + i]
  OBVIOUS
<1> HIDE DEF a, b
<1>2. Items(s) = Items(a) \cup Items(b)
  <2>1. ASSUME NEW m \in Items(s) PROVE m \in Items(a) \cup Items(b)
    <3>1. PICK i \in DOMAIN s : m = s[i].id
      BY <2>1 DEF Items
    <3>2. CASE i <= n
      <4>1. i \in DOMAIN a /\ a[i] = s[i]
        BY <1>1, <3>2
      <4> QED BY <3>1, <4>1 DEF Items
    <3>3. CASE i > n
      <4>1. i - n \in DOMAIN b /\ b[i - n] = s[i]
        BY <1>1, <3>3
      <4> QED BY <3>1, <4>1 DEF Items
    <3> QED BY <1>1, <3>2, <3>3
  <2>2. ASSUME NEW m \in Items(a) PROVE m \in Items(s)
    <3>1. PICK i \in DOMAIN a : m = a[i].id
      BY DEF Items
    <3>2. i \in DOMAIN s /\ a[i] = s[i]
      BY <1>1
    <3> QED BY <3>1, <3>2 DEF Items
  <2>3. ASSUME NEW m \in Items(b) PROVE m \in Items(s)
    <3>1. PICK i \in DOMAIN b : m = b[i].id
      BY DEF Items
    <3>2. n + i \in DOMAIN s /\ b[i] = s[n + i]
      BY <1>1
    <3> QED BY <3>1, <3>2 DEF Items
  <2> QED BY <2>1, <2>2, <2>3
<1>3. ASSUME Sorted(s) PROVE Sorted(b)
  <2> SUFFICES ASSUME NEW i \in DOMAIN b, NEW j \in DOMAIN b, i < j
               PROVE  b[i].id < b[j].id
    BY DEF Sorted
  <2>1. n + i \in DOMAIN s /\ n + j \in DOMAIN s /\ n + i < n + j
    BY <1>1
  <2> QED BY <1>1, <1>3, <2>1 DEF Sorted
<1>4. ASSUME Sorted(s), NEW x \in Items(a), NEW y \in Items(b) PROVE x < y
  <2>1. PICK i \in DOMAIN a : x = a[i].id
    BY <1>4 DEF Items
  <2>2. PICK j \in DOMAIN b : y = b[j].id
    BY <1>4 DEF Items
  <2>3. i \in DOMAIN s /\ n + j \in DOMAIN s /\ i < n + j
    BY <1>1
  <2> QED BY <1>1, <1>4, <2>1, <2>2, <2>3 DEF Sorted
<1> QED BY <1>1, <1>2, <1>3, <1>4 DEF Below, a, b

(* The first packet and the others.                                        *)
LEMMA ItemsTail ==
    ASSUME NEW s \in Seq(Packet), s # <<>>
    PROVE  /\ Head(s) \in Packet /\ Tail(s) \in Seq(Packet)
           /\ Len(Tail(s)) = Len(s) - 1
           /\ Items(s) = {Head(s).id} \cup Items(Tail(s))
           /\ Sorted(s) => Sorted(Tail(s)) /\ Below({Head(s).id}, Items(Tail(s)))
<1>1. /\ Len(s) \in Nat /\ 1 \in 0 .. Len(s) /\ Head(s) \in Packet
      /\ Tail(s) \in Seq(Packet) /\ Len(Tail(s)) = Len(s) - 1
  OBVIOUS
<1>2. SubSeq(s, 1, 1) = <<Head(s)>>
  <2> DEFINE a == SubSeq(s, 1, 1)
             b == <<Head(s)>>
  <2>1. a \in Seq(Packet) /\ b \in Seq(Packet) /\ Len(a) = 1 /\ Len(b) = 1
    BY <1>1
  <2>2. a[1] = s[1] /\ b[1] = s[1]
    BY <1>1
  <2> HIDE DEF a, b
  <2>3. \A i \in 1 .. Len(a) : a[i] = b[i]
    BY <2>1, <2>2
  <2>4. a = b
    BY <2>1, <2>3, SeqEqual
  <2> QED BY <2>4 DEF a, b
<1>3. SubSeq(s, 1 + 1, Len(s)) = Tail(s)
  BY TailIsSubSeq
<1>4. /\ Items(s) = Items(<<Head(s)>>) \cup Items(Tail(s))
      /\ Sorted(s) => Sorted(Tail(s)) /\ Below(Items(<<Head(s)>>), Items(Tail(s)))
  BY <1>1, <1>2, <1>3, ItemsSplit
<1>5. Items(<<Head(s)>>) = {Head(s).id}
  BY <1>1, ItemsOne
<1> QED BY <1>1, <1>4, <1>5

------------------------------------------------------------------------------
(* The parts of the state.                                                 *)

(* Routed packets are packets.                                             *)
LEMMA SegmentTypes ==
    ASSUME SegmentInv
    PROVE  /\ queue \in Seq(Packet) /\ ring \in Seq(Packet)
           /\ handled \in Seq(Packet) /\ InHand \in Seq(Packet)
           /\ InHand \in Seq(RoutedPacket)
<1>1. RoutedPacket \subseteq Packet
  BY DEF RoutedPacket
<1>2. InHand \in Seq(RoutedPacket)
  BY DEF SegmentInv, InHand
<1> QED BY <1>1, <1>2, SeqMonotonic DEF SegmentInv

(* What the forwarder has in hand.                                         *)
LEMMA HandIs ==
    ASSUME SegmentInv
    PROVE  /\ fwd = NoPacket => Items(InHand) = {} /\ Len(InHand) = 0
           /\ fwd # NoPacket => /\ fwd \in Packet /\ Items(InHand) = {fwd.id}
                                /\ Len(InHand) = 1
<1>1. CASE fwd = NoPacket
  BY <1>1, ItemsEmpty DEF InHand
<1>2. CASE fwd # NoPacket
  <2>1. fwd \in Packet
    BY <1>2 DEF SegmentInv, RoutedPacket
  <2> QED BY <1>2, <2>1, ItemsOne DEF InHand
<1> QED BY <1>1, <1>2

(* Losing packets adds their numbers to those on record, for one reason.   *)
LEMMA LosesAdds ==
    ASSUME NEW why \in Reasons, NEW ids, Loses(why, ids),
           arrived \in Nat, arrived' \in Nat, arrived <= arrived',
           ids \subseteq 1 .. arrived',
           lost \subseteq [id: 1 .. arrived, why: Reasons]
    PROVE  /\ LostIds' = LostIds \cup ids
           /\ lost' \subseteq [id: 1 .. arrived', why: Reasons]
           /\ \A w : (\E l \in lost' : l.why = w) =>
                       (\E l \in lost : l.why = w) \/ w = why
<1> DEFINE new == {[id |-> n, why |-> why] : n \in ids}
<1>1. lost' = lost \cup new
  BY DEF Loses
<1>2. \A l \in new : l.id \in ids /\ l.why = why /\ l = [id |-> l.id, why |-> l.why]
  OBVIOUS
<1>3. \A n \in ids : \E l \in new : l.id = n
  <2> TAKE n \in ids
  <2>1. [id |-> n, why |-> why] \in new /\ [id |-> n, why |-> why].id = n
    OBVIOUS
  <2> QED BY <2>1
<1>4. \A l \in new : l \in [id: 1 .. arrived', why: Reasons]
  <2> TAKE l \in new
  <2>1. PICK n \in ids : l = [id |-> n, why |-> why]
    OBVIOUS
  <2> QED BY <2>1
<1>5. \A l \in lost : l \in [id: 1 .. arrived', why: Reasons]
  <2> TAKE l \in lost
  <2>1. l \in [id: 1 .. arrived, why: Reasons]
    OBVIOUS
  <2>2. 1 .. arrived \subseteq 1 .. arrived'
    OBVIOUS
  <2> QED BY <2>1, <2>2
<1> HIDE DEF new
<1>6. LostIds' = LostIds \cup ids
  <2>1. ASSUME NEW n \in LostIds' PROVE n \in LostIds \cup ids
    <3>1. PICK l \in lost' : n = l.id
      BY <2>1 DEF LostIds
    <3> QED BY <1>1, <1>2, <3>1 DEF LostIds
  <2>2. ASSUME NEW n \in LostIds \cup ids PROVE n \in LostIds'
    BY <1>1, <1>3, <2>2 DEF LostIds
  <2> QED BY <2>1, <2>2
<1> QED BY <1>1, <1>2, <1>4, <1>5, <1>6

(* Nothing has arrived yet.                                                *)
LEMMA InitInv == Init => Inv
<1> SUFFICES ASSUME Init PROVE Inv
  OBVIOUS
<1> USE PipelineAssumption
<1>1. StateInv
  <2>1. /\ senders \in BOOLEAN /\ pruned \in BOOLEAN /\ cancelled \in BOOLEAN
        /\ started \in BOOLEAN
    BY DEF Init
  <2>2. arrived \in 0 .. MaxMessages
    BY DEF Init
  <2> QED BY <2>1, <2>2 DEF Init, StateInv
<1>2. SegmentInv
  BY DEF Init, SegmentInv
<1>3. InHand = <<>> /\ LostIds = {}
  BY DEF Init, InHand, LostIds
<1>4. /\ Items(handled) = {} /\ Items(InHand) = {} /\ Items(ring) = {}
      /\ Items(queue) = {} /\ Sorted(handled) /\ Sorted(ring) /\ Sorted(queue)
  BY <1>3, ItemsEmpty DEF Init
<1>5. OrderInv
  BY <1>4 DEF OrderInv, Below
<1>6. AccountInv
  BY <1>3, <1>4 DEF Init, AccountInv, Kept
<1>7. LoadInv
  BY <1>3 DEF Init, LoadInv
<1> QED BY <1>1, <1>2, <1>5, <1>6, <1>7 DEF Inv

------------------------------------------------------------------------------
(* Steps that move no packet.                                              *)

(* The invariant mentions the threads' positions and the filter only in    *)
(* their types.                                                            *)
LEMMA StillInv ==
    ASSUME Inv, StateInv', UNCHANGED <<arrived, queue, ring, fwd, handled, lost, peak>>
    PROVE  Inv'
<1>1. SegmentInv'
  BY DEF Inv, SegmentInv
<1>2. OrderInv'
  BY DEF Inv, OrderInv, InHand
<1>3. AccountInv'
  BY DEF Inv, AccountInv, Kept, LostIds, InHand
<1>4. LoadInv'
  BY DEF Inv, LoadInv, InHand
<1> QED BY <1>1, <1>2, <1>3, <1>4 DEF Inv

(* Timeouts, cancellation, the end of the service, the forwarder's         *)
(* subscription and the changes of the filter.                             *)
LEMMA QuietInv ==
    ASSUME Inv,
           \/ (DsCheck /\ ~cancelled) \/ DsTimeout \/ Cancel \/ DropService
           \/ Subscribe
           \/ \E name \in Names : add_many(name) \/ remove_many(name)
    PROVE  Inv'
<1>1. UNCHANGED <<arrived, queue, ring, fwd, handled, lost, peak>>
  BY DEF DsCheck, DsTimeout, Cancel, DropService, Subscribe, add_many, remove_many,
         fwdVars, dsVars
<1>2. topics' \subseteq Names \X Subtopics
  <2>1. ASSUME NEW name \in Names, add_many(name) PROVE topics' \subseteq Names \X Subtopics
    BY <2>1 DEF add_many, Inv, StateInv
  <2>2. ASSUME NEW name \in Names, remove_many(name)
        PROVE  topics' \subseteq Names \X Subtopics
    BY <2>2 DEF remove_many, Inv, StateInv
  <2>3. CASE \/ (DsCheck /\ ~cancelled) \/ DsTimeout \/ Cancel \/ DropService
             \/ Subscribe
    BY <2>3 DEF DsCheck, DsTimeout, Cancel, DropService, Subscribe, fwdVars, Inv, StateInv
  <2> QED BY <2>1, <2>2, <2>3
<1>3. /\ senders' \in BOOLEAN /\ pruned' \in BOOLEAN /\ cancelled' \in BOOLEAN
      /\ ds' \in {"check", "recv", "over"} /\ started' \in BOOLEAN
  BY DEF DsCheck, DsTimeout, Cancel, DropService, Subscribe, add_many, remove_many,
         fwdVars, dsVars, Inv, StateInv
<1>4. StateInv'
  BY <1>1, <1>2, <1>3 DEF Inv, StateInv
<1> QED BY <1>1, <1>4, StillInv

------------------------------------------------------------------------------
(* The event callback.                                                     *)

(* parse_event yields nothing or one packet, of the message's number; the  *)
(* id of one segment comes back, and so does the subtopic.                 *)
LEMMA ParsedIsRouted ==
    ASSUME NEW n \in 1 .. MaxMessages, NEW name \in Names, NEW sub \in Subtopics,
           parse_event(n, name, sub) # {}
    PROVE  \E p \in RoutedPacket : parse_event(n, name, sub) = {p} /\ p.id = n
<1> DEFINE t == build_content_topic(name, sub)
           q == parse_content_topic(t)
           p == [id |-> n, conv |-> <<q[1]>>, sub |-> q[2], home |-> name, on |-> sub]
<1>1. name \in Seq(Segments) /\ name # <<>> /\ sub \in Segments /\ Len(name) \in Nat
  <2>1. name \in Seq(STRING) /\ name # <<>>
    BY PipelineAssumption
  <2>2. Len(name) \in Nat /\ DOMAIN name = 1 .. Len(name)
    BY <2>1
  <2>3. \A i \in DOMAIN name : name[i] \in Segments
    <3> TAKE i \in DOMAIN name
    <3>1. name[i] \in {name[k] : k \in DOMAIN name}
      OBVIOUS
    <3>2. {name[k] : k \in DOMAIN name} \in {{m[k] : k \in DOMAIN m} : m \in Names}
      BY Zenon
    <3> QED BY <3>1, <3>2 DEF Segments
  <2>4. name \in [1 .. Len(name) -> Segments]
    BY <2>1, <2>2, <2>3
  <2>5. name \in Seq(Segments)
    BY <2>2, <2>4
  <2> QED BY <2>1, <2>2, <2>5 DEF Segments
<1>2. /\ t \in Seq(Segments) /\ Len(t) = Len(name) + 4
      /\ Len(name) = 1 => t[2] = name[1] /\ t[4] = sub
  <2> DEFINE a == <<"">>
             b == <<"1", sub, "proto">>
             c == a \o name
  <2>1. a \in Seq(Segments) /\ Len(a) = 1
    BY DEF Segments
  <2>2. b \in Seq(Segments) /\ Len(b) = 3 /\ b[2] = sub
    <3>1. "1" \in Segments /\ "proto" \in Segments
      BY DEF Segments
    <3> QED BY <1>1, <3>1
  <2> HIDE DEF a, b
  <2>3. /\ c \in Seq(Segments) /\ Len(c) = 1 + Len(name)
        /\ Len(name) = 1 => c[2] = name[1]
    <3>1. /\ c \in Seq(Segments) /\ Len(c) = Len(a) + Len(name)
          /\ \A i \in 1 .. Len(a) + Len(name) :
                c[i] = IF i <= Len(a) THEN a[i] ELSE name[i - Len(a)]
      BY <1>1, <2>1, ConcatProperties
    <3> QED BY <1>1, <2>1, <3>1
  <2> HIDE DEF c
  <2>4. /\ c \o b \in Seq(Segments) /\ Len(c \o b) = Len(name) + 4
        /\ Len(name) = 1 => (c \o b)[2] = c[2] /\ (c \o b)[4] = b[2]
    <3>1. c \in Seq(Segments) /\ b \in Seq(Segments)
      BY <2>2, <2>3
    <3>2. /\ c \o b \in Seq(Segments) /\ Len(c \o b) = Len(c) + Len(b)
          /\ \A i \in 1 .. Len(c) + Len(b) :
                (c \o b)[i] = IF i <= Len(c) THEN c[i] ELSE b[i - Len(c)]
      BY <3>1, ConcatProperties, Zenon
    <3>3. Len(c \o b) = Len(name) + 4
      BY <1>1, <2>2, <2>3, <3>2
    <3>4. ASSUME Len(name) = 1 PROVE (c \o b)[2] = c[2] /\ (c \o b)[4] = b[2]
      <4>1. Len(c) = 2 /\ Len(b) = 3
        BY <2>2, <2>3, <3>4
      <4> HIDE DEF c
      <4> QED BY <3>2, <4>1
    <3> QED BY <3>2, <3>3, <3>4
  <2> QED BY <2>2, <2>3, <2>4 DEF a, b, c, build_content_topic
<1> HIDE DEF t
<1>3. q # <<>> /\ parse_event(n, name, sub) = {p}
  BY DEF parse_event, t
<1>4. q = <<t[2], t[4]>>
  BY <1>3 DEF parse_content_topic
<1>5. t[2] \in Segments /\ t[4] \in Segments /\ name[1] \in Segments
  BY <1>1, <1>2
<1>6. q[1] = t[2] /\ q[2] = t[4]
  BY <1>4
<1> HIDE DEF q
<1>7. p \in Packet
  BY <1>1, <1>5, <1>6 DEF Packet
<1>8. Routed(p)
  <2> SUFFICES ASSUME Len(name) = 1 PROVE <<q[1]>> = name /\ q[2] = sub
    BY DEF Routed
  <2>1. name = <<name[1]>>
    BY <1>1
  <2> QED BY <1>2, <1>6, <2>1
<1> QED BY <1>3, <1>7, <1>8 DEF RoutedPacket

(* A message that is not queued is on record as lost; a queue that was     *)
(* full has shown a load above its capacity.                               *)
LEMMA RejectInv ==
    ASSUME Inv, NEW w \in {"malformed", "pruned", "full"},
           arrived < MaxMessages, arrived' = arrived + 1,
           Loses(w, {arrived + 1}),
           UNCHANGED <<queue, senders, cancelled, ds, fwdVars>>,
           pruned' \in BOOLEAN, peak' \in Nat, peak' >= peak,
           w = "full" => peak' > SubCap
    PROVE  Inv'
<1>1. /\ arrived \in Nat /\ arrived' \in 0 .. MaxMessages /\ w \in Reasons
      /\ arrived' \in Nat /\ arrived + 1 \in 1 .. arrived'
      /\ 1 .. arrived' = (1 .. arrived) \cup {arrived + 1}
      /\ arrived + 1 \notin 1 .. arrived
  BY PipelineAssumption DEF Inv, StateInv, Reasons
<1>2. /\ LostIds' = LostIds \cup {arrived + 1}
      /\ lost' \subseteq [id: 1 .. arrived', why: Reasons]
      /\ \A v : (\E l \in lost' : l.why = v) => (\E l \in lost : l.why = v) \/ v = w
  BY <1>1, LosesAdds DEF Inv, StateInv
<1>3. UNCHANGED <<queue, ring, fwd, handled>> /\ InHand' = InHand
  BY DEF fwdVars, InHand
<1>4. StateInv'
  BY <1>1, <1>2 DEF Inv, StateInv, fwdVars
<1>5. SegmentInv' /\ OrderInv'
  BY <1>3 DEF Inv, SegmentInv, OrderInv
<1>6. AccountInv'
  <2>1. Kept' = Kept
    BY <1>3 DEF Kept
  <2> QED BY <1>1, <1>2, <2>1 DEF Inv, AccountInv
<1>7. LoadInv'
  <2>1. /\ Len(InHand) \in Nat /\ Len(ring) \in Nat /\ Len(queue) \in Nat
        /\ SubCap \in Nat /\ RingCap \in Nat
    BY SegmentTypes, PipelineAssumption DEF Inv
  <2>2. \A v \in {"full", "lagged"} :
          (\E l \in lost' : l.why = v) => (\E l \in lost : l.why = v) \/ v = w
    BY <1>2
  <2> QED BY <1>3, <2>1, <2>2 DEF Inv, LoadInv
<1> QED BY <1>4, <1>5, <1>6, <1>7 DEF Inv

(* A message that is queued has the highest number so far.                 *)
LEMMA AcceptInv ==
    ASSUME Inv, NEW p \in RoutedPacket, p.id = arrived + 1,
           arrived < MaxMessages, arrived' = arrived + 1,
           Fits, Counts, queue' = queue \o <<p>>,
           UNCHANGED <<senders, pruned, cancelled, ds, fwdVars, lost>>
    PROVE  Inv'
<1>1. /\ arrived \in Nat /\ arrived' \in 0 .. MaxMessages
      /\ 1 .. arrived' = (1 .. arrived) \cup {arrived + 1}
      /\ \A n \in 1 .. arrived : n < arrived + 1
  BY PipelineAssumption DEF Inv, StateInv
<1>2. UNCHANGED <<ring, fwd, handled, lost>> /\ InHand' = InHand /\ LostIds' = LostIds
  BY DEF fwdVars, InHand, LostIds
<1>3. p \in Packet
  BY DEF RoutedPacket
<1>4. queue \in Seq(Packet) /\ queue \in Seq(RoutedPacket)
  BY SegmentTypes DEF Inv, SegmentInv
<1>5. /\ queue' = Append(queue, p) /\ queue' \in Seq(RoutedPacket)
      /\ Len(queue') = Len(queue) + 1
  BY <1>4, AppendIsConcat, AppendProperties
<1>6. Kept \cup LostIds = 1 .. arrived /\ Kept \cap LostIds = {}
  BY DEF Inv, AccountInv
<1>7. /\ Items(queue') = Items(queue) \cup {arrived + 1}
      /\ Sorted(queue')
  <2>1. Below(Items(queue), {p.id})
    BY <1>1, <1>6 DEF Below, Kept
  <2> QED BY <1>3, <1>4, <1>5, <2>1, ItemsAppend DEF Inv, OrderInv
<1>8. StateInv'
  <2>1. 1 .. arrived \subseteq 1 .. arrived'
    BY <1>1
  <2>2. lost' \subseteq [id: 1 .. arrived', why: Reasons]
    BY <1>2, <2>1 DEF Inv, StateInv
  <2> QED BY <1>1, <2>2 DEF Inv, StateInv, fwdVars
<1>9. SegmentInv'
  BY <1>2, <1>5 DEF Inv, SegmentInv
<1>10. OrderInv'
  <2>1. \A n \in Items(handled) \cup Items(InHand) \cup Items(ring) : n < arrived + 1
    BY <1>1, <1>6 DEF Kept
  <2> QED BY <1>2, <1>7, <2>1 DEF Inv, OrderInv, Below
<1>11. AccountInv'
  <2>1. Kept' = Kept \cup {arrived + 1}
    BY <1>2, <1>7 DEF Kept
  <2>2. arrived + 1 \notin LostIds
    BY <1>1, <1>6
  <2> QED BY <1>1, <1>2, <1>6, <2>1, <2>2 DEF AccountInv
<1>12. LoadInv'
  <2>1. Len(UnderWay) = Len(InHand) + Len(ring) + Len(queue) /\ Len(UnderWay) \in Nat
    BY SegmentTypes DEF Inv, UnderWay
  <2>2. peak' \in Nat /\ peak' >= peak /\ peak' >= Len(UnderWay) + 1
    BY <2>1 DEF Inv, LoadInv, Counts
  <2>3. /\ Len(InHand) \in Nat /\ Len(ring) \in Nat /\ Len(queue) \in Nat
        /\ SubCap \in Nat /\ RingCap \in Nat
    BY SegmentTypes, PipelineAssumption DEF Inv
  <2>4. Len(queue') <= SubCap
    BY <1>5, <2>3 DEF Fits
  <2> QED BY <1>2, <1>5, <2>1, <2>2, <2>3, <2>4 DEF Inv, LoadInv
<1> QED BY <1>8, <1>9, <1>10, <1>11, <1>12 DEF Inv

(* The event callback: malformed, pruned, queued or dropped.               *)
LEMMA OnEventInv ==
    ASSUME Inv, NEW name \in Names, NEW sub \in Subtopics, OnEvent(name, sub)
    PROVE  Inv'
<1> DEFINE pkts == parse_event(arrived + 1, name, sub)
<1>1. /\ arrived < MaxMessages /\ arrived' = arrived + 1
      /\ UNCHANGED <<senders, cancelled, ds, fwdVars>>
  BY DEF OnEvent
<1>2. peak \in Nat /\ pruned \in BOOLEAN /\ arrived + 1 \in 1 .. MaxMessages
  BY <1>1, PipelineAssumption DEF Inv, LoadInv, StateInv
<1>3. CASE /\ pkts = {} /\ Loses("malformed", {arrived + 1})
           /\ UNCHANGED <<queue, pruned, peak>>
  BY <1>1, <1>2, <1>3, RejectInv
<1>4. CASE /\ pruned' = TRUE /\ Loses("pruned", {arrived + 1})
           /\ UNCHANGED <<queue, peak>>
  BY <1>1, <1>2, <1>4, RejectInv
<1>5. CASE /\ pkts # {} /\ Counts /\ Fits /\ queue' = queue \o <<CHOOSE p \in pkts : TRUE>>
           /\ UNCHANGED <<lost, pruned>>
  <2>1. PICK p \in RoutedPacket : pkts = {p} /\ p.id = arrived + 1
    BY <1>2, <1>5, ParsedIsRouted
  <2> HIDE DEF pkts
  <2>2. (CHOOSE q \in pkts : TRUE) = p
    BY <2>1
  <2> QED BY <1>1, <1>5, <2>1, <2>2, AcceptInv
<1>6. CASE /\ Counts /\ ~Fits /\ Loses("full", {arrived + 1})
           /\ UNCHANGED <<queue, pruned>>
  <2>1. /\ Len(UnderWay) = Len(InHand) + Len(ring) + Len(queue)
        /\ Len(InHand) \in Nat /\ Len(ring) \in Nat /\ Len(queue) \in Nat
    BY SegmentTypes DEF Inv, UnderWay
  <2>2. peak' \in Nat /\ peak' >= peak /\ peak' >= Len(UnderWay) + 1
    BY <1>2, <1>6, <2>1 DEF Counts
  <2>3. peak' > SubCap
    BY <1>6, <2>1, <2>2, PipelineAssumption DEF Fits
  <2> QED BY <1>1, <1>2, <1>6, <2>2, <2>3, RejectInv
<1> QED BY <1>3, <1>4, <1>5, <1>6 DEF OnEvent

------------------------------------------------------------------------------
(* The ds-forwarder thread.                                                *)

(* Packets leave the pipeline, lost for a reason on record, and the peak   *)
(* shows a lag.                                                            *)
LEMMA LossInv ==
    ASSUME Inv, NEW w \in Reasons \ {"full"}, NEW ids, Loses(w, ids),
           UNCHANGED <<arrived, senders, pruned, cancelled, started, topics, handled, peak>>,
           ds' \in {"check", "recv", "over"}, SegmentInv', OrderInv',
           Kept = Kept' \cup ids, Kept' \cap ids = {},
           Len(queue') <= SubCap,
           Len(InHand') + Len(ring') + Len(queue') <= peak,
           w = "lagged" => peak > RingCap
    PROVE  Inv'
<1>1. Kept \cup LostIds = 1 .. arrived /\ Kept \cap LostIds = {} /\ arrived \in Nat
  BY DEF Inv, AccountInv, StateInv
<1>2. ids \subseteq 1 .. arrived
  BY <1>1
<1>3. /\ LostIds' = LostIds \cup ids
      /\ lost' \subseteq [id: 1 .. arrived', why: Reasons]
      /\ \A v : (\E l \in lost' : l.why = v) => (\E l \in lost : l.why = v) \/ v = w
  BY <1>1, <1>2, LosesAdds DEF Inv, StateInv
<1>4. StateInv'
  BY <1>3 DEF Inv, StateInv
<1>5. AccountInv'
  BY <1>1, <1>3 DEF AccountInv
<1>6. LoadInv'
  <2>1. \A v \in {"full", "lagged"} :
          (\E l \in lost' : l.why = v) => (\E l \in lost : l.why = v) \/ v = w
    BY <1>3
  <2> QED BY <2>1 DEF Inv, LoadInv
<1> QED BY <1>4, <1>5, <1>6 DEF Inv

(* A packet passes from one segment to the next: nothing is lost and the   *)
(* numbers kept are the same.                                              *)
LEMMA MoveInv ==
    ASSUME Inv, UNCHANGED <<arrived, senders, pruned, cancelled, started, topics, lost, peak>>,
           ds' \in {"check", "recv", "over"}, SegmentInv', OrderInv', Kept' = Kept,
           Len(queue') <= SubCap,
           Len(InHand') + Len(ring') + Len(queue') <= peak
    PROVE  Inv'
<1>1. StateInv' /\ LostIds' = LostIds
  BY DEF Inv, StateInv, LostIds
<1>2. AccountInv'
  BY <1>1 DEF Inv, AccountInv
<1>3. LoadInv'
  BY DEF Inv, LoadInv
<1> QED BY <1>1, <1>2, <1>3 DEF Inv

(* The thread ends and takes its queue along.                              *)
LEMMA DsOverInv ==
    ASSUME Inv, DsOver, UNCHANGED <<arrived, senders, pruned, cancelled, fwdVars, peak>>
    PROVE  Inv'
<1>1. /\ UNCHANGED <<arrived, senders, pruned, cancelled, started, topics, handled, peak>>
      /\ UNCHANGED <<ring, fwd>> /\ InHand' = InHand
      /\ queue' = <<>> /\ ds' = "over" /\ Loses("stopped", Items(queue))
  BY DEF DsOver, fwdVars, InHand
<1>2. Items(queue') = {} /\ Sorted(queue')
  BY <1>1, ItemsEmpty
<1>3. SegmentInv'
  BY <1>1 DEF Inv, SegmentInv
<1>4. OrderInv'
  BY <1>1, <1>2 DEF Inv, OrderInv, Below
<1>5. Kept = Kept' \cup Items(queue)
  BY <1>1, <1>2 DEF Kept
<1>6. Kept' \cap Items(queue) = {}
  <2>1. Items(queue) \subseteq Nat
    BY SegmentTypes, ItemsNat DEF Inv
  <2>2. \A n \in Items(handled) \cup Items(InHand) \cup Items(ring) :
          \A m \in Items(queue) : n < m
    BY DEF Inv, OrderInv, Below
  <2> QED BY <1>1, <1>2, <2>1, <2>2 DEF Kept
<1>7. /\ Len(InHand') \in Nat /\ Len(ring') \in Nat /\ Len(queue) \in Nat
      /\ Len(queue') = 0 /\ peak \in Nat /\ SubCap \in Nat
  BY <1>1, SegmentTypes, PipelineAssumption DEF Inv, LoadInv
<1>8. Len(queue') <= SubCap /\ Len(InHand') + Len(ring') + Len(queue') <= peak
  BY <1>1, <1>7 DEF Inv, LoadInv
<1>9. "stopped" \in Reasons \ {"full"}
  BY DEF Reasons
<1> QED BY <1>1, <1>3, <1>4, <1>5, <1>6, <1>8, <1>9, LossInv

(* The first packet of the queue becomes the last one of the ring, or is   *)
(* lost as long as nobody has subscribed.                                  *)
LEMMA DsForwardInv == ASSUME Inv, DsForward PROVE Inv'
<1>1. /\ UNCHANGED <<arrived, senders, pruned, cancelled, started, topics, handled, peak>>
      /\ fwd' = fwd /\ InHand' = InHand
      /\ queue # <<>> /\ queue' = Tail(queue) /\ ds' = "check"
      /\ \/ ring' = Append(ring, Head(queue)) /\ UNCHANGED lost
         \/ ring' = ring /\ Loses("no_receiver", {Head(queue).id})
  BY DEF DsForward, InHand
<1>2. /\ queue \in Seq(Packet) /\ ring \in Seq(Packet) /\ InHand \in Seq(Packet)
      /\ queue \in Seq(RoutedPacket) /\ ring \in Seq(RoutedPacket)
  BY SegmentTypes DEF Inv, SegmentInv
<1> DEFINE p == Head(queue)
<1>3. /\ p \in Packet /\ p \in RoutedPacket /\ queue' \in Seq(RoutedPacket)
      /\ Len(queue') = Len(queue) - 1
  BY <1>1, <1>2
<1>4. /\ Items(queue) = {p.id} \cup Items(queue') /\ Sorted(queue')
      /\ Below({p.id}, Items(queue'))
  BY <1>1, <1>2, ItemsTail DEF Inv, OrderInv
<1>5. /\ Len(InHand) \in Nat /\ Len(ring) \in Nat /\ Len(queue) \in Nat
      /\ SubCap \in Nat /\ peak \in Nat /\ Len(queue) <= SubCap
      /\ Len(InHand) + Len(ring) + Len(queue) <= peak
  BY <1>2, PipelineAssumption DEF Inv, LoadInv
<1> HIDE DEF p
<1>6. CASE ring' = Append(ring, p) /\ UNCHANGED lost
  <2>1. /\ Items(ring') = Items(ring) \cup {p.id}
        /\ Below(Items(ring), {p.id}) /\ Sorted(ring')
    BY <1>2, <1>3, <1>4, <1>6, ItemsAppend DEF Inv, OrderInv, Below
  <2>2. ring' \in Seq(RoutedPacket) /\ Len(ring') = Len(ring) + 1
    BY <1>2, <1>3, <1>6
  <2>3. SegmentInv'
    BY <1>1, <1>3, <2>2 DEF Inv, SegmentInv
  <2>4. OrderInv'
    BY <1>1, <1>4, <2>1 DEF Inv, OrderInv, Below
  <2>5. Kept' = Kept
    BY <1>1, <1>4, <2>1 DEF Kept
  <2>6. Len(queue') <= SubCap /\ Len(InHand') + Len(ring') + Len(queue') <= peak
    BY <1>1, <1>3, <1>5, <2>2
  <2> QED BY <1>1, <1>6, <2>3, <2>4, <2>5, <2>6, MoveInv
<1>7. CASE ring' = ring /\ Loses("no_receiver", {p.id})
  <2>1. SegmentInv'
    BY <1>1, <1>3, <1>7 DEF Inv, SegmentInv
  <2>2. OrderInv'
    BY <1>1, <1>4, <1>7 DEF Inv, OrderInv, Below
  <2>3. Kept = Kept' \cup {p.id}
    BY <1>1, <1>4, <1>7 DEF Kept
  <2>4. Kept' \cap {p.id} = {}
    <3>1. p.id \in Nat
      BY <1>3 DEF Packet
    <3>2. p.id \notin Items(handled) \cup Items(InHand) \cup Items(ring)
      BY <1>4, <3>1 DEF Inv, OrderInv, Below
    <3>3. p.id \notin Items(queue')
      BY <1>4, <3>1 DEF Below
    <3> QED BY <1>1, <1>7, <3>2, <3>3 DEF Kept
  <2>5. Len(queue') <= SubCap /\ Len(InHand') + Len(ring') + Len(queue') <= peak
    BY <1>1, <1>3, <1>5, <1>7
  <2>6. "no_receiver" \in Reasons \ {"full"}
    BY DEF Reasons
  <2> QED BY <1>1, <1>7, <2>1, <2>2, <2>3, <2>4, <2>5, <2>6, LossInv
<1> QED BY <1>1, <1>6, <1>7 DEF p

------------------------------------------------------------------------------
(* The pubsub forwarder.                                                   *)

(* The first packet of the ring is taken in hand.                          *)
LEMMA FwdReceiveInv == ASSUME Inv, FwdReceive PROVE Inv'
<1>1. /\ UNCHANGED <<arrived, senders, pruned, cancelled, started, topics, lost, peak>>
      /\ UNCHANGED <<queue, handled, ds>>
      /\ fwd = NoPacket /\ ring # <<>> /\ fwd' = Head(ring) /\ ring' = Tail(ring)
  BY DEF FwdReceive, dsVars
<1>2. /\ queue \in Seq(Packet) /\ ring \in Seq(Packet) /\ ring \in Seq(RoutedPacket)
  BY SegmentTypes DEF Inv, SegmentInv
<1>3. /\ fwd' \in Packet /\ fwd' \in RoutedPacket /\ ring' \in Seq(RoutedPacket)
      /\ Len(ring') = Len(ring) - 1
  BY <1>1, <1>2 DEF RoutedPacket
<1>4. /\ Items(ring) = {fwd'.id} \cup Items(ring') /\ Sorted(ring')
      /\ Below({fwd'.id}, Items(ring'))
  BY <1>1, <1>2, ItemsTail DEF Inv, OrderInv
<1>5. Items(InHand) = {} /\ Len(InHand) = 0
  BY <1>1, HandIs DEF Inv
<1>6. Items(InHand') = {fwd'.id} /\ Len(InHand') = 1
  <2>1. InHand' = <<fwd'>>
    BY <1>3, NoPacketAssumption DEF InHand
  <2> QED BY <1>3, <2>1, ItemsOne
<1>7. SegmentInv'
  BY <1>1, <1>3 DEF Inv, SegmentInv
<1>8. OrderInv'
  BY <1>1, <1>4, <1>5, <1>6 DEF Inv, OrderInv, Below
<1>9. Kept' = Kept
  BY <1>1, <1>4, <1>5, <1>6 DEF Kept
<1>10. Len(queue') <= SubCap /\ Len(InHand') + Len(ring') + Len(queue') <= peak
  <2>1. Len(ring) \in Nat /\ Len(queue) \in Nat
    BY <1>2
  <2> QED BY <1>1, <1>3, <1>5, <1>6, <2>1 DEF Inv, LoadInv
<1> QED BY <1>1, <1>7, <1>8, <1>9, <1>10, MoveInv DEF Inv, StateInv

(* The packets the ring no longer holds are skipped; the ring was above    *)
(* its capacity, and so was the load.                                      *)
LEMMA FwdLaggedInv == ASSUME Inv, FwdLagged PROVE Inv'
<1> DEFINE n == Len(ring) - RingCap
           a == SubSeq(ring, 1, n)
<1>1. /\ UNCHANGED <<arrived, senders, pruned, cancelled, started, topics, handled, peak>>
      /\ UNCHANGED <<queue, fwd, ds>> /\ InHand' = InHand
      /\ fwd = NoPacket /\ Len(ring) > RingCap
      /\ Loses("lagged", Items(a)) /\ ring' = SubSeq(ring, n + 1, Len(ring))
  BY DEF FwdLagged, dsVars, InHand
<1>2. /\ queue \in Seq(Packet) /\ ring \in Seq(Packet) /\ ring \in Seq(RoutedPacket)
      /\ handled \in Seq(Packet) /\ InHand \in Seq(Packet)
  BY SegmentTypes DEF Inv, SegmentInv
<1>3. Len(ring) \in Nat /\ Len(queue) \in Nat /\ n \in 0 .. Len(ring) /\ n + 1 \in 1 .. Len(ring)
  BY <1>1, <1>2, PipelineAssumption
<1> HIDE DEF n
<1>4. /\ Items(ring) = Items(a) \cup Items(ring') /\ Len(ring') = Len(ring) - n
      /\ Sorted(ring') /\ Below(Items(a), Items(ring'))
  BY <1>1, <1>2, <1>3, ItemsSplit DEF Inv, OrderInv
<1>5. ring' \in Seq(RoutedPacket)
  BY <1>1, <1>2, <1>3
<1> HIDE DEF a
<1>6. SegmentInv'
  BY <1>1, <1>5 DEF Inv, SegmentInv
<1>7. OrderInv'
  BY <1>1, <1>4 DEF Inv, OrderInv, Below
<1>8. Kept = Kept' \cup Items(a)
  BY <1>1, <1>4 DEF Kept
<1>9. Kept' \cap Items(a) = {}
  <2>1. Items(ring) \subseteq Nat /\ Items(queue) \subseteq Nat
    BY <1>2, ItemsNat
  <2>2. \A m \in Items(a) : /\ \A k \in Items(handled) \cup Items(InHand) : k < m
                            /\ \A k \in Items(ring') \cup Items(queue) : m < k
    BY <1>4 DEF Inv, OrderInv, Below
  <2>3. Items(a) \subseteq Nat
    BY <1>4, <2>1
  <2> QED BY <1>1, <2>2, <2>3 DEF Kept
<1>10. /\ Len(queue') <= SubCap /\ Len(InHand') + Len(ring') + Len(queue') <= peak
       /\ peak > RingCap
  <2>1. Len(InHand) = 0
    BY <1>1, HandIs DEF Inv
  <2> QED BY <1>1, <1>3, <1>4, <2>1, PipelineAssumption DEF Inv, LoadInv
<1>11. "lagged" \in Reasons \ {"full"}
  BY DEF Reasons
<1> QED BY <1>1, <1>6, <1>7, <1>8, <1>9, <1>10, <1>11, LossInv DEF Inv, StateInv

(* The packet in hand is the next one to be handled.                       *)
LEMMA FwdHandleInv == ASSUME Inv, FwdHandle PROVE Inv'
<1>1. /\ UNCHANGED <<arrived, senders, pruned, cancelled, started, topics, lost, peak>>
      /\ UNCHANGED <<queue, ring, ds>>
      /\ fwd # NoPacket /\ handled' = Append(handled, fwd) /\ fwd' = NoPacket
  BY DEF FwdHandle, dsVars
<1>2. /\ handled \in Seq(Packet) /\ handled \in Seq(RoutedPacket)
      /\ fwd \in Packet /\ fwd \in RoutedPacket
      /\ Len(ring) \in Nat /\ Len(queue) \in Nat
  BY <1>1, SegmentTypes DEF Inv, SegmentInv, RoutedPacket
<1>3. Items(InHand) = {fwd.id} /\ Len(InHand) = 1
  BY <1>1, HandIs DEF Inv
<1>4. InHand' = <<>> /\ Items(InHand') = {} /\ Len(InHand') = 0
  BY <1>1, ItemsEmpty DEF InHand
<1>5. Items(handled') = Items(handled) \cup {fwd.id} /\ Sorted(handled')
  BY <1>1, <1>2, <1>3, ItemsAppend DEF Inv, OrderInv, Below
<1>6. handled' \in Seq(RoutedPacket)
  BY <1>1, <1>2
<1>7. SegmentInv'
  BY <1>1, <1>6 DEF Inv, SegmentInv
<1>8. OrderInv'
  BY <1>1, <1>3, <1>4, <1>5 DEF Inv, OrderInv, Below
<1>9. Kept' = Kept
  BY <1>1, <1>3, <1>4, <1>5 DEF Kept
<1>10. Len(queue') <= SubCap /\ Len(InHand') + Len(ring') + Len(queue') <= peak
  BY <1>1, <1>2, <1>3, <1>4 DEF Inv, LoadInv
<1> QED BY <1>1, <1>7, <1>8, <1>9, <1>10, MoveInv DEF Inv, StateInv

(* The filter drops the packet in hand.                                    *)
LEMMA FwdFilterInv == ASSUME Inv, FwdFilter PROVE Inv'
<1>1. /\ UNCHANGED <<arrived, senders, pruned, cancelled, started, topics, handled, peak>>
      /\ UNCHANGED <<queue, ring, ds>>
      /\ fwd # NoPacket /\ Loses("filtered", {fwd.id}) /\ fwd' = NoPacket
  BY DEF FwdFilter, dsVars
<1>2. fwd \in Packet /\ fwd.id \in Nat /\ Len(ring) \in Nat /\ Len(queue) \in Nat
  BY <1>1, SegmentTypes DEF Inv, SegmentInv, RoutedPacket, Packet
<1>3. Items(InHand) = {fwd.id} /\ Len(InHand) = 1
  BY <1>1, HandIs DEF Inv
<1>4. InHand' = <<>> /\ Items(InHand') = {} /\ Len(InHand') = 0
  BY <1>1, ItemsEmpty DEF InHand
<1>5. SegmentInv'
  BY <1>1 DEF Inv, SegmentInv
<1>6. OrderInv'
  BY <1>1, <1>3, <1>4 DEF Inv, OrderInv, Below
<1>7. Kept = Kept' \cup {fwd.id}
  BY <1>1, <1>3, <1>4 DEF Kept
<1>8. Kept' \cap {fwd.id} = {}
  <2>1. fwd.id \notin Items(handled) \cup Items(ring) \cup Items(queue)
    BY <1>2, <1>3 DEF Inv, OrderInv, Below
  <2> QED BY <1>1, <1>4, <2>1 DEF Kept
<1>9. Len(queue') <= SubCap /\ Len(InHand') + Len(ring') + Len(queue') <= peak
  BY <1>1, <1>2, <1>3, <1>4 DEF Inv, LoadInv
<1>10. "filtered" \in Reasons \ {"full"}
  BY DEF Reasons
<1> QED BY <1>1, <1>5, <1>6, <1>7, <1>8, <1>9, <1>10, LossInv DEF Inv, StateInv

------------------------------------------------------------------------------
(* Every step keeps the invariant.                                         *)
LEMMA NextInv == Inv /\ [Next]_vars => Inv'
<1> SUFFICES ASSUME Inv, [Next]_vars PROVE Inv'
  OBVIOUS
<1>1. CASE UNCHANGED vars
  <2>1. StateInv' /\ UNCHANGED <<arrived, queue, ring, fwd, handled, lost, peak>>
    BY <1>1 DEF vars, dsVars, fwdVars, Inv, StateInv
  <2> QED BY <2>1, StillInv
<1>2. ASSUME NEW name \in Names, NEW sub \in Subtopics, OnEvent(name, sub) PROVE Inv'
  BY <1>2, OnEventInv
<1>3. CASE \/ (DsCheck /\ ~cancelled) \/ DsTimeout \/ Cancel \/ DropService
           \/ Subscribe
           \/ \E name \in Names : add_many(name) \/ remove_many(name)
  BY <1>3, QuietInv
<1>4. CASE DsCheck /\ cancelled
  BY <1>4, DsOverInv DEF DsCheck
<1>5. CASE DsDisconnected
  BY <1>5, DsOverInv DEF DsDisconnected
<1>6. CASE DsForward
  BY <1>6, DsForwardInv
<1>7. CASE FwdStep
  BY <1>7, FwdReceiveInv, FwdLaggedInv, FwdHandleInv, FwdFilterInv DEF FwdStep
<1> QED BY <1>1, <1>2, <1>3, <1>4, <1>5, <1>6, <1>7 DEF Next, DsStep

(* The invariant holds throughout.                                         *)
LEMMA InvHolds == Spec => []Inv
BY InitInv, NextInv, PTL DEF Spec

------------------------------------------------------------------------------
(* The four segments in a row.                                             *)
LEMMA TrailIs ==
    ASSUME Inv
    PROVE  LET trail == handled \o UnderWay
           IN  /\ trail \in Seq(RoutedPacket) /\ Items(trail) = Kept /\ Sorted(trail)
<1> USE DEF Inv
<1>1. /\ queue \in Seq(Packet) /\ ring \in Seq(Packet)
      /\ handled \in Seq(Packet) /\ InHand \in Seq(Packet)
      /\ InHand \in Seq(RoutedPacket)
  BY SegmentTypes
<1>2. Sorted(InHand)
  <2>1. CASE fwd = NoPacket
    BY <2>1, ItemsEmpty DEF InHand
  <2>2. CASE fwd # NoPacket
    BY <2>2, HandIs, ItemsOne DEF InHand
  <2> QED BY <2>1, <2>2
<1> DEFINE a == InHand \o ring
           b == a \o queue
<1>3. /\ a \in Seq(Packet) /\ a \in Seq(RoutedPacket)
      /\ Items(a) = Items(InHand) \cup Items(ring) /\ Sorted(a)
  <2>1. Below(Items(InHand), Items(ring))
    BY DEF OrderInv, Below
  <2>2. a \in Seq(Packet) /\ a \in Seq(RoutedPacket)
    BY <1>1, ConcatProperties DEF SegmentInv
  <2> QED BY <1>1, <1>2, <2>1, <2>2, ItemsConcat DEF OrderInv
<1> HIDE DEF a
<1>4. /\ b \in Seq(Packet) /\ b \in Seq(RoutedPacket)
      /\ Items(b) = Items(InHand) \cup Items(ring) \cup Items(queue) /\ Sorted(b)
  <2>1. Below(Items(a), Items(queue))
    BY <1>3 DEF OrderInv, Below
  <2>2. b \in Seq(Packet) /\ b \in Seq(RoutedPacket)
    BY <1>1, <1>3, ConcatProperties DEF SegmentInv
  <2> QED BY <1>1, <1>3, <2>1, <2>2, ItemsConcat DEF OrderInv
<1>5. b = UnderWay
  BY DEF a, UnderWay
<1> HIDE DEF b
<1>6. /\ handled \o b \in Seq(RoutedPacket) /\ Items(handled \o b) = Kept
      /\ Sorted(handled \o b)
  <2>1. Below(Items(handled), Items(b))
    BY <1>4 DEF OrderInv
  <2>2. handled \o b \in Seq(RoutedPacket)
    BY <1>4, ConcatProperties DEF SegmentInv
  <2>3. Items(handled \o b) = Items(handled) \cup Items(b) /\ Sorted(handled \o b)
    BY <1>1, <1>4, <2>1, ItemsConcat DEF OrderInv
  <2> QED BY <1>4, <2>2, <2>3 DEF Kept
<1> QED BY <1>5, <1>6

(* Every state is well typed; the subscriber queue keeps its capacity.     *)
THEOREM TypeCorrect == Spec => []TypeOK
<1>1. Inv => TypeOK
  <2> SUFFICES ASSUME Inv PROVE TypeOK
    OBVIOUS
  <2>1. fwd \in Packet \cup {NoPacket}
    BY DEF Inv, SegmentInv, RoutedPacket
  <2> QED BY <2>1, SegmentTypes DEF Inv, StateInv, LoadInv, TypeOK
<1> QED BY <1>1, InvHolds, PTL

(* However the callback, the thread and the forwarder interleave, packets  *)
(* are handled in the order of their arrival and none twice.               *)
THEOREM OrderIsKept == Spec => []PipelineInOrder
<1>1. Inv => PipelineInOrder
  <2> SUFFICES ASSUME Inv PROVE PipelineInOrder
    OBVIOUS
  <2> QED BY TrailIs DEF PipelineInOrder, Ids, Sorted
<1> QED BY <1>1, InvHolds, PTL

(* Every message is handled, under way or on record as lost, and in one of *)
(* these places only.                                                      *)
THEOREM MessagesAreConserved == Spec => []NothingVanishes
<1>1. Inv => NothingVanishes
  <2> SUFFICES ASSUME Inv PROVE NothingVanishes
    OBVIOUS
  <2> QED BY TrailIs DEF Inv, AccountInv, NothingVanishes
<1> QED BY <1>1, InvHolds, PTL

(* For every capacity of the two buffers: a burst that fits into the       *)
(* smaller of them loses nothing to a full queue or a lagging forwarder.   *)
THEOREM BurstsAreAbsorbed == Spec => []BurstsLoseNothing
<1>1. Inv => BurstsLoseNothing
  <2> SUFFICES ASSUME Inv PROVE BurstsLoseNothing
    OBVIOUS
  <2> QED BY PipelineAssumption DEF Inv, LoadInv, BurstsLoseNothing
<1> QED BY <1>1, InvHolds, PTL

(* Whatever ids the other conversations have, the packets of one whose id  *)
(* has no '/' arrive under that id and on their subtopic.                  *)
THEOREM PlainIdsAreRouted == Spec => []RoutedHome
<1>1. Inv => RoutedHome
  <2> SUFFICES ASSUME Inv PROVE RoutedHome
    OBVIOUS
  <2>1. \A i \in DOMAIN (handled \o UnderWay) :
          (handled \o UnderWay)[i] \in RoutedPacket
    BY TrailIs
  <2> QED BY <2>1 DEF RoutedHome, RoutedPacket, Routed
<1> QED BY <1>1, InvHolds, PTL
=============================================================================
