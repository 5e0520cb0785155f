------------------------ MODULE OutboundFlush_proofs ------------------------
(***************************************************************************)
(* Proofs about OutboundFlush, for any number of callers and packets.  The *)
(* inductive invariant adds three facts to the properties: the mutex has   *)
(* one holder, a worker that is not past its drain holds no batch, and a   *)
(* worker that is past it has none of its own packets left in the buffer.  *)
(* The order of a call's packets needs a second invariant, on where they   *)
(* can be.                                                                 *)
(***************************************************************************)
EXTENDS OutboundFlush, TLAPS

\* Only the holder of the transport mutex publishes.
OnePublisher == \A w \in Workers : pc[w] = "publish" <=> lock = w

\* A worker holds packets only between its drain and its return.
EmptyHanded == \A w \in Workers : pc[w] \in {"idle", "flush"} => batch[w] = <<>>

\* The packets of the calls in progress, and of those that returned Ok.
OwnInv ==
    /\ acked \subseteq Packets
    /\ \A w \in Workers :
        /\ own[w] \subseteq Packets
        /\ pc[w] = "idle" => own[w] = {}
        /\ pc[w] \in {"lock", "publish"} => own[w] \cap Items(buf) = {}

Inv ==
    /\ TypeOK /\ NoDuplicates /\ NothingVanishes /\ OnePublisher
    /\ EmptyHanded /\ OwnInv /\ OkMeansTaken

------------------------------------------------------------------------------
(* Sequences as sets.                                                      *)

(* The empty sequence has no items.                                        *)
LEMMA ItemsEmpty == Items(<<>>) = {} /\ Injective(<<>>)
BY DEF Items, Injective

(* Appending adds one item, and keeps items distinct when it is new.       *)
LEMMA ItemsAppend ==
    ASSUME NEW s \in Seq(Nat), NEW x \in Nat
    PROVE  /\ Append(s, x) \in Seq(Nat)
           /\ Items(Append(s, x)) = Items(s) \cup {x}
           /\ Injective(s) /\ x \notin Items(s) => Injective(Append(s, x))
<1>1. /\ Len(s) \in Nat /\ DOMAIN s = 1 .. Len(s)
      /\ Append(s, x) \in Seq(Nat) /\ DOMAIN Append(s, x) = 1 .. Len(s) + 1
      /\ \A i \in 1 .. Len(s) : Append(s, x)[i] = s[i]
      /\ Append(s, x)[Len(s) + 1] = x
  OBVIOUS
<1>2. ASSUME NEW y PROVE y \in Items(Append(s, x)) <=> y \in Items(s) \/ y = x
  <2>1. ASSUME y \in Items(Append(s, x)), y # x PROVE y \in Items(s)
    <3>1. PICK i \in 1 .. Len(s) + 1 : y = Append(s, x)[i]
      BY <2>1, <1>1 DEF Items
    <3>2. i \in 1 .. Len(s) /\ y = s[i]
      BY <3>1, <2>1, <1>1
    <3> QED BY <3>2, <1>1 DEF Items
  <2>2. ASSUME y \in Items(s) PROVE y \in Items(Append(s, x))
    <3>1. PICK i \in 1 .. Len(s) : y = s[i]
      BY <2>2, <1>1 DEF Items
    <3>2. i \in DOMAIN Append(s, x) /\ y = Append(s, x)[i]
      BY <3>1, <1>1
    <3> QED BY <3>2 DEF Items
  <2>3. x \in Items(Append(s, x))
    BY <1>1 DEF Items
  <2> QED BY <2>1, <2>2, <2>3
<1>3. ASSUME Injective(s), x \notin Items(s) PROVE Injective(Append(s, x))
  <2>1. \A i \in 1 .. Len(s) : s[i] # x
    BY <1>1, <1>3 DEF Items
  <2>2. \A i, j \in 1 .. Len(s) : s[i] = s[j] => i = j
    BY <1>1, <1>3 DEF Injective
  <2>3. \A i, j \in 1 .. Len(s) + 1 : Append(s, x)[i] = Append(s, x)[j] => i = j
    <3> SUFFICES ASSUME NEW i \in 1 .. Len(s) + 1, NEW j \in 1 .. Len(s) + 1,
                        Append(s, x)[i] = Append(s, x)[j]
                 PROVE  i = j
      OBVIOUS
    <3>1. CASE i \in 1 .. Len(s) /\ j \in 1 .. Len(s)
      <4>1. s[i] = s[j]
        BY <1>1, <3>1
      <4> QED BY <4>1, <3>1, <2>2
    <3>2. CASE i \in 1 .. Len(s) /\ j = Len(s) + 1
      <4>1. s[i] = x
        BY <1>1, <3>2
      <4> QED BY <4>1, <3>2, <2>1
    <3>3. CASE i = Len(s) + 1 /\ j \in 1 .. Len(s)
      <4>1. s[j] = x
        BY <1>1, <3>3
      <4> QED BY <4>1, <3>3, <2>1
    <3>4. CASE i = Len(s) + 1 /\ j = Len(s) + 1
      BY <3>4
    <3>5. \A k \in 1 .. Len(s) + 1 : k \in 1 .. Len(s) \/ k = Len(s) + 1
      BY <1>1
    <3> QED BY <3>1, <3>2, <3>3, <3>4, <3>5
  <2> QED BY <2>3, <1>1 DEF Injective
<1> QED BY <1>1, <1>2, <1>3

(* Concatenation unites the items.                                         *)
LEMMA ItemsConcat ==
    ASSUME NEW s \in Seq(Nat), NEW t \in Seq(Nat)
    PROVE  /\ s \o t \in Seq(Nat)
           /\ Items(s \o t) = Items(s) \cup Items(t)
           /\ Injective(s) /\ Injective(t) /\ Items(s) \cap Items(t) = {}
                => Injective(s \o t)
<1>1. s \o t \in Seq(Nat)
  OBVIOUS
<1>2. /\ DOMAIN s = 1 .. Len(s) /\ DOMAIN t = 1 .. Len(t)
      /\ Len(s) \in Nat /\ Len(t) \in Nat
      /\ DOMAIN (s \o t) = 1 .. Len(s) + Len(t)
  OBVIOUS
<1>3. \A i \in 1 .. Len(s) + Len(t) :
        (s \o t)[i] = IF i <= Len(s) THEN s[i] ELSE t[i - Len(s)]
  OBVIOUS
<1>4. ASSUME NEW x PROVE x \in Items(s \o t) <=> x \in Items(s) \/ x \in Items(t)
  <2>1. ASSUME x \in Items(s \o t) PROVE x \in Items(s) \/ x \in Items(t)
    <3>1. PICK i \in 1 .. Len(s) + Len(t) : x = (s \o t)[i]
      BY <2>1, <1>2 DEF Items
    <3>2. CASE i <= Len(s)
      BY <3>1, <3>2, <1>2, <1>3 DEF Items
    <3>3. CASE i > Len(s)
      <4>1. i - Len(s) \in 1 .. Len(t) /\ x = t[i - Len(s)]
        BY <3>1, <3>3, <1>2, <1>3
      <4> QED BY <4>1, <1>2 DEF Items
    <3> QED BY <3>2, <3>3, <1>2
  <2>2. ASSUME x \in Items(s) PROVE x \in Items(s \o t)
    <3>1. PICK i \in 1 .. Len(s) : x = s[i]
      BY <2>2, <1>2 DEF Items
    <3>2. i \in 1 .. Len(s) + Len(t) /\ (s \o t)[i] = x
      BY <3>1, <1>2, <1>3
    <3> QED BY <3>2, <1>2 DEF Items
  <2>3. ASSUME x \in Items(t) PROVE x \in Items(s \o t)
    <3>1. PICK i \in 1 .. Len(t) : x = t[i]
      BY <2>3, <1>2 DEF Items
    <3>2. i + Len(s) \in 1 .. Len(s) + Len(t) /\ (s \o t)[i + Len(s)] = x
      BY <3>1, <1>2, <1>3
    <3> QED BY <3>2, <1>2 DEF Items
  <2> QED BY <2>1, <2>2, <2>3
<1>5. ASSUME Injective(s), Injective(t), Items(s) \cap Items(t) = {}
      PROVE  Injective(s \o t)
  <2> SUFFICES ASSUME NEW i \in 1 .. Len(s) + Len(t), NEW j \in 1 .. Len(s) + Len(t),
                      (s \o t)[i] = (s \o t)[j]
               PROVE  i = j
    BY <1>2 DEF Injective
  <2>1. CASE i <= Len(s) /\ j <= Len(s)
    <3>1. i \in DOMAIN s /\ j \in DOMAIN s /\ s[i] = s[j]
      BY <2>1, <1>2, <1>3
    <3> QED BY <3>1, <1>5 DEF Injective
  <2>2. CASE i > Len(s) /\ j > Len(s)
    <3>1. /\ i - Len(s) \in DOMAIN t /\ j - Len(s) \in DOMAIN t
          /\ t[i - Len(s)] = t[j - Len(s)]
      BY <2>2, <1>2, <1>3
    <3>2. i - Len(s) = j - Len(s)
      BY <3>1, <1>5 DEF Injective
    <3> QED BY <3>2, <1>2
  <2>3. CASE i <= Len(s) /\ j > Len(s)
    <3>1. i \in DOMAIN s /\ j - Len(s) \in DOMAIN t /\ s[i] = t[j - Len(s)]
      BY <2>3, <1>2, <1>3
    <3>2. s[i] \in Items(s) /\ s[i] \in Items(t)
      BY <3>1 DEF Items
    <3> QED BY <3>2, <1>5
  <2>4. CASE i > Len(s) /\ j <= Len(s)
    <3>1. j \in DOMAIN s /\ i - Len(s) \in DOMAIN t /\ s[j] = t[i - Len(s)]
      BY <2>4, <1>2, <1>3
    <3>2. s[j] \in Items(s) /\ s[j] \in Items(t)
      BY <3>1 DEF Items
    <3> QED BY <3>2, <1>5
  <2> QED BY <2>1, <2>2, <2>3, <2>4, <1>2
<1> QED BY <1>1, <1>4, <1>5

(* A sequence is its head and its tail, which share nothing when its items *)
(* are distinct.                                                           *)
LEMMA ItemsTail ==
    ASSUME NEW s \in Seq(Nat), s # <<>>
    PROVE  /\ Head(s) \in Nat /\ Tail(s) \in Seq(Nat)
           /\ Items(s) = Items(Tail(s)) \cup {Head(s)}
           /\ Injective(s) => Injective(Tail(s)) /\ Head(s) \notin Items(Tail(s))
<1>1. /\ Len(s) \in Nat \ {0} /\ DOMAIN s = 1 .. Len(s)
      /\ Tail(s) \in Seq(Nat) /\ Head(s) = s[1] /\ Head(s) \in Nat
      /\ DOMAIN Tail(s) = 1 .. Len(s) - 1
      /\ \A i \in 1 .. Len(s) - 1 : Tail(s)[i] = s[i + 1]
  OBVIOUS
<1>2. ASSUME NEW x PROVE x \in Items(s) <=> x \in Items(Tail(s)) \/ x = Head(s)
  <2>1. ASSUME x \in Items(s), x # Head(s) PROVE x \in Items(Tail(s))
    <3>1. PICK i \in 1 .. Len(s) : x = s[i]
      BY <2>1, <1>1 DEF Items
    <3>2. i - 1 \in DOMAIN Tail(s) /\ Tail(s)[i - 1] = x
      BY <3>1, <2>1, <1>1
    <3> QED BY <3>2 DEF Items
  <2>2. ASSUME x \in Items(Tail(s)) PROVE x \in Items(s)
    <3>1. PICK i \in 1 .. Len(s) - 1 : x = s[i + 1]
      BY <2>2, <1>1 DEF Items
    <3>2. i + 1 \in DOMAIN s
      BY <1>1
    <3> QED BY <3>1, <3>2 DEF Items
  <2>3. Head(s) \in Items(s)
    BY <1>1 DEF Items
  <2> QED BY <2>1, <2>2, <2>3
<1>3. ASSUME Injective(s) PROVE Injective(Tail(s))
  BY <1>1, <1>3 DEF Injective
<1>4. ASSUME Injective(s), Head(s) \in Items(Tail(s)) PROVE FALSE
  <2>1. PICK i \in 1 .. Len(s) - 1 : Head(s) = s[i + 1]
    BY <1>1, <1>4 DEF Items
  <2>2. 1 \in DOMAIN s /\ i + 1 \in DOMAIN s /\ s[1] = s[i + 1]
    BY <2>1, <1>1
  <2>3. 1 = i + 1
    BY <2>2, <1>4 DEF Injective
  <2> QED BY <2>3
<1> QED BY <1>1, <1>2, <1>3, <1>4

(* A burst is new packets, each once.                                      *)
LEMMA BurstItems ==
    ASSUME made \in Nat, NEW n \in Nat
    PROVE  /\ Burst(n) \in Seq(Nat) /\ Injective(Burst(n))
           /\ Items(Burst(n)) = (made + 1) .. (made + n)
<1>1. Burst(n) \in Seq(Nat) /\ DOMAIN Burst(n) = 1 .. n
  BY DEF Burst
<1>2. \A i \in 1 .. n : Burst(n)[i] = made + i
  BY DEF Burst
<1>3. Injective(Burst(n))
  BY <1>1, <1>2 DEF Injective
<1>4. ASSUME NEW x \in (made + 1) .. (made + n) PROVE x \in Items(Burst(n))
  <2>1. x - made \in DOMAIN Burst(n) /\ Burst(n)[x - made] = x
    BY <1>1, <1>2
  <2> QED BY <2>1 DEF Items
<1>5. ASSUME NEW x \in Items(Burst(n)) PROVE x \in (made + 1) .. (made + n)
  BY <1>1, <1>2 DEF Items
<1> QED BY <1>1, <1>3, <1>4, <1>5

------------------------------------------------------------------------------
(* The invariant, step by step.                                            *)

\* NothingVanishes, packet by packet.
Covered ==
    \A p : p \in Packets <=>
        p \in Items(buf) \/ p \in Items(wire) \/ p \in lost
        \/ \E w \in Workers : p \in Items(batch[w])

(* The two forms of NothingVanishes agree.                                 *)
LEMMA CoveredIs == NothingVanishes <=> Covered
BY DEF NothingVanishes, Covered

(* Nothing has been made at the start.                                     *)
LEMMA InitInv == Init => Inv
<1> SUFFICES ASSUME Init PROVE Inv
  OBVIOUS
<1>1. TypeOK
  BY DEF Init, TypeOK, Workers
<1>2. /\ Items(buf) = {} /\ Items(wire) = {} /\ Injective(buf) /\ Injective(wire)
      /\ \A w \in Workers : Items(batch[w]) = {} /\ Injective(batch[w])
  BY ItemsEmpty DEF Init
<1>3. NoDuplicates
  BY <1>2 DEF NoDuplicates, Apart, Init
<1>4. NothingVanishes
  BY <1>2, CoveredIs DEF Covered, Packets, Init
<1>5. OnePublisher /\ EmptyHanded
  BY FlushAssumption DEF OnePublisher, EmptyHanded, Init, Workers
<1>6. OwnInv /\ OkMeansTaken
  BY DEF OwnInv, OkMeansTaken, Init
<1> QED BY <1>1, <1>3, <1>4, <1>5, <1>6 DEF Inv

\* A call buffers packets and goes on to its flush, or fails.
Buffers(w, n) ==
    /\ Buffer(w, n)
    /\ \/ /\ own' = [own EXCEPT ![w] = Items(Burst(n))]
          /\ pc' = [pc EXCEPT ![w] = "flush"]
       \/ UNCHANGED <<own, pc>>

(* Whichever operation a caller begins, it buffers some packets.           *)
LEMMA BuffersSome ==
    ASSUME NEW w \in Callers,
           send_message(w) \/ propose(w) \/ advance(w) \/ CallFails(w)
    PROVE  \E n \in Nat : Buffers(w, n)
<1>1. \A n \in Nat : Call(w, n) => Buffers(w, n)
  BY DEF Call, Buffers
<1>2. \A n \in Nat : Buffer(w, n) /\ UNCHANGED <<own, pc>> => Buffers(w, n)
  BY DEF Buffers
<1>3. CASE send_message(w) \/ propose(w) \/ advance(w)
  <2>1. PICK n \in Nat : Call(w, n)
    BY <1>3, FlushAssumption DEF send_message, propose, advance
  <2> QED BY <2>1, <1>1
<1>4. CASE CallFails(w)
  <2>1. PICK n \in Nat : Buffer(w, n) /\ UNCHANGED <<own, pc>>
    BY <1>4, FlushAssumption DEF CallFails
  <2> QED BY <2>1, <1>2
<1> QED BY <1>3, <1>4

(* A call buffers new packets.                                             *)
LEMMA CallInv ==
    ASSUME Inv, NEW w \in Callers, NEW n \in Nat, Buffers(w, n)
    PROVE  Inv'
<1>1. /\ w \in Workers /\ w # Pump /\ TypeOK /\ made \in Nat /\ buf \in Seq(Nat)
      /\ made' = made + n /\ buf' = buf \o Burst(n)
      /\ UNCHANGED <<batch, lock, wire, lost, acked>>
  BY FlushAssumption DEF Inv, Buffers, Buffer, Workers, TypeOK
<1>2. /\ Burst(n) \in Seq(Nat) /\ Injective(Burst(n))
      /\ Items(Burst(n)) = (made + 1) .. (made + n)
  BY <1>1, BurstItems
<1>3. Items(buf) \cap Items(Burst(n)) = {}
  <2>1. Items(buf) \subseteq 1 .. made
    BY CoveredIs DEF Inv, Covered, Packets
  <2> QED BY <1>1, <1>2, <2>1
<1>4. /\ buf' \in Seq(Nat) /\ Items(buf') = Items(buf) \cup ((made + 1) .. (made + n))
      /\ Injective(buf')
  <2> HIDE DEF Buffers
  <2>1. Injective(buf)
    BY DEF Inv, NoDuplicates
  <2> QED BY <1>1, <1>2, <1>3, <2>1, ItemsConcat
<1>5. TypeOK'
  <2>1. [i \in 1 .. n |-> made + 1] \in Seq(Nat)
    BY <1>1
  <2>2. calls' \in Seq(Nat)
    BY <2>1, <1>1 DEF TypeOK, Buffers, Buffer
  <2>3. own' \in [Workers -> SUBSET Nat] /\ pc' \in [Workers -> {"idle", "flush", "lock", "publish"}]
    <3>1. CASE UNCHANGED <<own, pc>>
      BY <1>1, <3>1 DEF TypeOK
    <3>2. CASE own' = [own EXCEPT ![w] = Items(Burst(n))] /\ pc' = [pc EXCEPT ![w] = "flush"]
      BY <1>1, <1>2, <3>2 DEF TypeOK
    <3> QED BY <3>1, <3>2 DEF Buffers
  <2> QED BY <1>1, <1>4, <2>2, <2>3 DEF TypeOK
<1>6. Packets' = Packets \cup ((made + 1) .. (made + n))
  BY <1>1 DEF Packets
<1>7. Packets \cap ((made + 1) .. (made + n)) = {}
  BY <1>1 DEF Packets
<1>8. /\ Items(wire) \subseteq Packets /\ lost \subseteq Packets
      /\ \A v \in Workers : Items(batch[v]) \subseteq Packets
  BY CoveredIs DEF Inv, Covered
<1>9. NoDuplicates'
  <2>1. Injective(wire') /\ \A v \in Workers : Injective(batch'[v])
    BY <1>1 DEF Inv, NoDuplicates
  <2>2. Apart'
    BY <1>1, <1>4, <1>7, <1>8 DEF Inv, NoDuplicates, Apart
  <2> QED BY <1>4, <2>1, <2>2 DEF NoDuplicates
<1>10. NothingVanishes'
  <2>1. Covered'
    BY <1>1, <1>4, <1>6, CoveredIs DEF Inv, Covered
  <2> QED BY <2>1 DEF Covered, NothingVanishes
<1>11. OnePublisher' /\ EmptyHanded'
  <2>1. \A v \in Workers : pc'[v] = pc[v] \/ (v = w /\ pc[w] = "idle" /\ pc'[w] = "flush")
    BY <1>1 DEF Buffers, Buffer, TypeOK
  <2> QED BY <1>1, <2>1 DEF Inv, OnePublisher, EmptyHanded
<1>12. OwnInv' /\ OkMeansTaken'
  <2>1. \A v \in Workers : v # w => own'[v] = own[v] /\ pc'[v] = pc[v]
    BY DEF Inv, TypeOK, Buffers
  <2>2. \/ own'[w] = (made + 1) .. (made + n) /\ pc'[w] = "flush"
        \/ own'[w] = own[w] /\ pc'[w] = pc[w] /\ pc[w] = "idle"
    BY <1>1, <1>2 DEF TypeOK, Buffers, Buffer
  <2>3. OwnInv /\ OkMeansTaken
    BY DEF Inv
  <2> QED BY <1>1, <1>4, <1>6, <1>7, <2>1, <2>2, <2>3 DEF OwnInv, OkMeansTaken
<1> QED BY <1>5, <1>9, <1>10, <1>11, <1>12 DEF Inv

\* A packet published past the buffer.
Direct(w) ==
    /\ pc[w] = "idle"
    /\ made' = made + 1
    /\ batch' = [batch EXCEPT ![w] = <<made + 1>>]
    /\ calls' = Append(calls, made + 1)
    /\ pc' = [pc EXCEPT ![w] = "lock"]
    /\ own' = [own EXCEPT ![w] = {made + 1}] \/ own' = own
    /\ UNCHANGED <<buf, lock, wire, lost, acked>>

(* A key package, or a welcome, is one new packet in its sender's hands.   *)
LEMMA DirectInv ==
    ASSUME Inv, NEW w \in Workers, Direct(w)
    PROVE  Inv'
<1>1. /\ TypeOK /\ made \in Nat /\ made' = made + 1 /\ batch[w] = <<>>
      /\ UNCHANGED <<buf, lock, wire, lost, acked>>
      /\ batch'[w] = <<made + 1>> /\ pc'[w] = "lock"
      /\ \A v \in Workers : v # w => batch'[v] = batch[v] /\ pc'[v] = pc[v]
                                    /\ own'[v] = own[v]
      /\ own'[w] \in {own[w], {made + 1}}
  BY DEF Inv, Direct, TypeOK, EmptyHanded
<1>2. Items(<<made + 1>>) = {made + 1} /\ Injective(<<made + 1>>)
  BY <1>1 DEF Items, Injective
<1>3. /\ Packets' = Packets \cup {made + 1} /\ made + 1 \notin Packets
  BY <1>1 DEF Packets
<1>4. /\ Items(buf) \subseteq Packets /\ Items(wire) \subseteq Packets
      /\ lost \subseteq Packets
      /\ \A v \in Workers : Items(batch[v]) \subseteq Packets
  BY CoveredIs DEF Inv, Covered
<1>5. TypeOK'
  <2>1. /\ batch' \in [Workers -> Seq(Nat)] /\ calls' \in Seq(Nat)
        /\ pc' \in [Workers -> {"idle", "flush", "lock", "publish"}]
    BY <1>1 DEF Direct, TypeOK
  <2>2. own' \in [Workers -> SUBSET Nat]
    <3>1. own \in [Workers -> SUBSET Nat] /\ {made + 1} \in SUBSET Nat
      BY <1>1 DEF TypeOK
    <3>2. CASE own' = own
      BY <3>1, <3>2
    <3>3. CASE own' = [own EXCEPT ![w] = {made + 1}]
      BY <3>1, <3>3
    <3> QED BY <3>2, <3>3 DEF Direct
  <2> QED BY <1>1, <2>1, <2>2 DEF TypeOK
<1>6. NoDuplicates'
  <2>1. /\ Injective(wire') /\ Injective(buf')
        /\ \A v \in Workers : Injective(batch'[v])
    BY <1>1, <1>2 DEF Inv, NoDuplicates
  <2>2. Apart'
    <3>1. Apart
      BY DEF Inv, NoDuplicates
    <3>2. /\ Items(batch'[w]) = {made + 1} /\ Items(buf') = Items(buf)
          /\ Items(wire') = Items(wire) /\ lost' = lost
          /\ \A v \in Workers : v # w => Items(batch'[v]) = Items(batch[v])
      BY <1>1, <1>2
    <3> QED BY <3>1, <3>2, <1>3, <1>4 DEF Apart
  <2> QED BY <2>1, <2>2 DEF NoDuplicates
<1>7. NothingVanishes'
  <2>1. Covered'
    BY <1>1, <1>2, <1>3, CoveredIs, ItemsEmpty DEF Inv, Covered
  <2> QED BY <2>1 DEF Covered, NothingVanishes
<1>8. OnePublisher' /\ EmptyHanded'
  BY <1>1 DEF Inv, OnePublisher, EmptyHanded, Direct
<1>9. OwnInv' /\ OkMeansTaken'
  BY <1>1, <1>3, <1>4 DEF Inv, OwnInv, OkMeansTaken, Direct
<1> QED BY <1>5, <1>6, <1>7, <1>8, <1>9 DEF Inv

\* A worker takes the whole buffer.
Takes(w) ==
    /\ pc[w] \in {"idle", "flush"}
    /\ buf' = <<>>
    /\ batch' = [batch EXCEPT ![w] = buf]
    /\ pc' = [pc EXCEPT ![w] = "lock"]
    /\ UNCHANGED <<made, calls, own, lock, wire, lost, acked>>

(* Draining moves packets from the buffer to a worker that held none.      *)
LEMMA TakesInv ==
    ASSUME Inv, NEW w \in Workers, Takes(w)
    PROVE  Inv'
<1>1. /\ TypeOK /\ batch[w] = <<>> /\ buf' = <<>>
      /\ UNCHANGED <<made, own, lock, wire, lost, acked>>
      /\ batch'[w] = buf /\ pc'[w] = "lock"
      /\ \A v \in Workers : v # w => batch'[v] = batch[v] /\ pc'[v] = pc[v]
  BY DEF Inv, Takes, TypeOK, EmptyHanded
<1>2. Items(buf') = {} /\ Injective(buf') /\ Items(batch[w]) = {}
  BY <1>1, ItemsEmpty
<1>3. TypeOK'
  BY <1>1 DEF Takes, TypeOK
<1>4. NoDuplicates'
  <2>1. Injective(wire') /\ \A v \in Workers : Injective(batch'[v])
    BY <1>1 DEF Inv, NoDuplicates
  <2>2. Apart'
    BY <1>1, <1>2 DEF Inv, NoDuplicates, Apart
  <2> QED BY <1>2, <2>1, <2>2 DEF NoDuplicates
<1>5. NothingVanishes'
  <2>1. Packets' = Packets
    BY <1>1 DEF Packets
  <2>2. Covered'
    BY <1>1, <1>2, <2>1, CoveredIs DEF Inv, Covered
  <2> QED BY <2>2 DEF Covered, NothingVanishes
<1>6. OnePublisher' /\ EmptyHanded'
  BY <1>1 DEF Inv, OnePublisher, EmptyHanded, Takes
<1>7. OwnInv' /\ OkMeansTaken'
  <2>1. Packets' = Packets
    BY <1>1 DEF Packets
  <2> QED BY <1>1, <1>2, <2>1 DEF Inv, OwnInv, OkMeansTaken
<1> QED BY <1>3, <1>4, <1>5, <1>6, <1>7 DEF Inv

(* A call that finds the buffer empty returns Ok.                          *)
LEMMA NothingToFlushInv ==
    ASSUME Inv, NEW w \in Workers, flush_drain(w), buf = <<>>
    PROVE  Inv'
<1>1. /\ TypeOK /\ pc[w] = "flush" /\ buf' = buf /\ Items(buf) = {}
      /\ UNCHANGED <<made, calls, batch, lock, wire, lost>>
      /\ Return(w, TRUE)
  BY ItemsEmpty DEF Inv, flush_drain
<1>2. /\ pc'[w] = "idle" /\ own'[w] = {} /\ acked' = acked \cup own[w]
      /\ pc' \in [Workers -> {"idle", "flush", "lock", "publish"}]
      /\ own' \in [Workers -> SUBSET Nat] /\ acked' \subseteq Nat
      /\ \A v \in Workers : v # w => pc'[v] = pc[v] /\ own'[v] = own[v]
  BY <1>1 DEF Return, TypeOK
<1>3. TypeOK'
  BY <1>1, <1>2 DEF TypeOK
<1>4. NoDuplicates' /\ NothingVanishes'
  BY <1>1 DEF Inv, NoDuplicates, Apart, NothingVanishes, Packets
<1>5. OnePublisher' /\ EmptyHanded'
  BY <1>1, <1>2 DEF Inv, OnePublisher, EmptyHanded
<1>6. OwnInv' /\ OkMeansTaken'
  <2>1. Packets' = Packets
    BY <1>1 DEF Packets
  <2> QED BY <1>1, <1>2, <2>1 DEF Inv, OwnInv, OkMeansTaken
<1> QED BY <1>3, <1>4, <1>5, <1>6 DEF Inv

(* The mutex is handed to one worker.                                      *)
LEMMA AcquireInv ==
    ASSUME Inv, NEW w \in Workers, acquire(w)
    PROVE  Inv'
<1>1. /\ TypeOK /\ pc[w] = "lock" /\ lock = NoWorker /\ lock' = w
      /\ UNCHANGED <<made, calls, buf, batch, own, wire, lost, acked>>
      /\ pc'[w] = "publish"
      /\ \A v \in Workers : v # w => pc'[v] = pc[v]
      /\ pc' \in [Workers -> {"idle", "flush", "lock", "publish"}]
  BY DEF Inv, acquire, TypeOK
<1>2. TypeOK'
  BY <1>1 DEF TypeOK
<1>3. NoDuplicates' /\ NothingVanishes'
  BY <1>1 DEF Inv, NoDuplicates, Apart, NothingVanishes, Packets
<1>4. OnePublisher' /\ EmptyHanded'
  BY <1>1, FlushAssumption DEF Inv, OnePublisher, EmptyHanded, Workers
<1>5. OwnInv' /\ OkMeansTaken'
  <2>1. Packets' = Packets
    BY <1>1 DEF Packets
  <2> QED BY <1>1, <2>1 DEF Inv, OwnInv, OkMeansTaken
<1> QED BY <1>2, <1>3, <1>4, <1>5 DEF Inv

(* One packet leaves a batch, for the wire or, from the pump, for good.    *)
LEMMA OnePacketInv ==
    ASSUME Inv, NEW w \in Workers, publish(w) \/ (w = Pump /\ pump_publish_fails)
    PROVE  Inv'
<1> DEFINE p == Head(batch[w])
<1>1. /\ TypeOK /\ pc[w] = "publish" /\ batch[w] \in Seq(Nat) /\ batch[w] # <<>>
      /\ UNCHANGED <<made, calls, buf, pc, own, lock, acked>>
      /\ batch' \in [Workers -> Seq(Nat)] /\ batch'[w] = Tail(batch[w])
      /\ \A v \in Workers : v # w => batch'[v] = batch[v]
  <2>1. batch[w] \in Seq(Nat) /\ batch[w] # <<>> /\ batch \in [Workers -> Seq(Nat)]
    BY DEF Inv, TypeOK, publish, pump_publish_fails
  <2>2. batch' = [batch EXCEPT ![w] = Tail(batch[w])]
    BY DEF publish, pump_publish_fails
  <2>3. Tail(batch[w]) \in Seq(Nat)
    BY <2>1, ItemsTail
  <2> QED BY <2>1, <2>2, <2>3 DEF Inv, publish, pump_publish_fails
<1>2. /\ p \in Nat /\ Items(batch[w]) = Items(batch'[w]) \cup {p}
      /\ Injective(batch'[w]) /\ p \notin Items(batch'[w])
  <2>1. Injective(batch[w])
    BY DEF Inv, NoDuplicates
  <2> QED BY <1>1, <2>1, ItemsTail
<1>3. \/ wire' = Append(wire, p) /\ lost' = lost
      \/ wire' = wire /\ lost' = lost \cup {p}
  BY DEF publish, pump_publish_fails
<1>4. p \notin Items(wire) /\ p \notin lost /\ wire \in Seq(Nat) /\ Injective(wire)
      /\ p \notin Items(buf) /\ \A v \in Workers : v # w => p \notin Items(batch[v])
  BY <1>2 DEF Inv, NoDuplicates, Apart, TypeOK
<1>5. /\ wire' \in Seq(Nat) /\ lost' \subseteq Nat /\ Injective(wire')
      /\ \/ Items(wire') = Items(wire) \cup {p} /\ lost' = lost
         \/ Items(wire') = Items(wire) /\ lost' = lost \cup {p}
  <2>1. lost \subseteq Nat
    BY <1>1 DEF TypeOK
  <2>2. CASE wire' = Append(wire, p) /\ lost' = lost
    BY <1>2, <1>4, <2>1, <2>2, ItemsAppend
  <2>3. CASE wire' = wire /\ lost' = lost \cup {p}
    BY <1>2, <1>4, <2>1, <2>3
  <2> QED BY <1>3, <2>2, <2>3
<1> HIDE DEF p
<1>6. TypeOK'
  BY <1>1, <1>5 DEF TypeOK
<1>7. /\ Items(buf') = Items(buf)
      /\ \A v \in Workers : v # w => Items(batch'[v]) = Items(batch[v])
  BY <1>1
<1>8. NoDuplicates'
  <2>1. Injective(buf') /\ \A v \in Workers : Injective(batch'[v])
    BY <1>1, <1>2 DEF Inv, NoDuplicates
  <2>2. Apart'
    <3>1. Apart
      BY DEF Inv, NoDuplicates
    <3>2. \A v \in Workers : Items(batch'[v]) \subseteq Items(batch[v])
                             /\ p \notin Items(batch'[v])
      BY <1>2, <1>4, <1>7
    <3>3. \A u, v \in Workers : u # v => Items(batch'[u]) \cap Items(batch'[v]) = {}
      BY <3>1, <3>2 DEF Apart
    <3>4. CASE Items(wire') = Items(wire) \cup {p} /\ lost' = lost
      <4>1. \A v \in Workers : Items(batch'[v]) \cap Items(buf') = {}
        BY <3>1, <3>2, <1>7 DEF Apart
      <4>2. \A v \in Workers : Items(batch'[v]) \cap Items(wire') = {}
        BY <3>1, <3>2, <3>4 DEF Apart
      <4>3. \A v \in Workers : Items(batch'[v]) \cap lost' = {}
        BY <3>1, <3>2, <3>4 DEF Apart
      <4>4. Items(buf') \cap (Items(wire') \cup lost') = {}
        BY <3>1, <3>4, <1>4, <1>7 DEF Apart
      <4>5. Items(wire') \cap lost' = {}
        BY <3>1, <3>4, <1>4 DEF Apart
      <4> QED BY <4>1, <4>2, <4>3, <4>4, <4>5, <3>3 DEF Apart
    <3>5. CASE Items(wire') = Items(wire) /\ lost' = lost \cup {p}
      <4>1. \A v \in Workers : Items(batch'[v]) \cap Items(buf') = {}
        BY <3>1, <3>2, <1>7 DEF Apart
      <4>2. \A v \in Workers : Items(batch'[v]) \cap Items(wire') = {}
        BY <3>1, <3>2, <3>5 DEF Apart
      <4>3. \A v \in Workers : Items(batch'[v]) \cap lost' = {}
        BY <3>1, <3>2, <3>5 DEF Apart
      <4>4. Items(buf') \cap (Items(wire') \cup lost') = {}
        BY <3>1, <3>5, <1>4, <1>7 DEF Apart
      <4>5. Items(wire') \cap lost' = {}
        BY <3>1, <3>5, <1>4 DEF Apart
      <4> QED BY <4>1, <4>2, <4>3, <4>4, <4>5, <3>3 DEF Apart
    <3> QED BY <1>5, <3>4, <3>5
  <2> QED BY <1>5, <2>1, <2>2 DEF NoDuplicates
<1>9. NothingVanishes'
  <2>1. Covered
    BY CoveredIs DEF Inv
  <2>2. Packets' = Packets
    BY <1>1 DEF Packets
  <2>3. Covered'
    BY <2>1, <2>2, <1>2, <1>5, <1>7 DEF Covered
  <2> QED BY <2>3 DEF Covered, NothingVanishes
<1>10. OnePublisher' /\ EmptyHanded'
  BY <1>1 DEF Inv, OnePublisher, EmptyHanded
<1>11. OwnInv' /\ OkMeansTaken'
  <2>1. Packets' = Packets
    BY <1>1 DEF Packets
  <2> QED BY <1>1, <2>1 DEF Inv, OwnInv, OkMeansTaken
<1> QED BY <1>6, <1>8, <1>9, <1>10, <1>11 DEF Inv

(* A worker returns: its batch is published, or the rest of it is lost.    *)
LEMMA ReturnInv ==
    ASSUME Inv, NEW w \in Workers, published(w) \/ publish_fails(w)
    PROVE  Inv'
<1>1. /\ TypeOK /\ pc[w] = "publish" /\ lock' = NoWorker
      /\ UNCHANGED <<made, calls, buf, wire>>
      /\ batch'[w] = <<>> /\ batch' \in [Workers -> Seq(Nat)]
      /\ \A v \in Workers : v # w => batch'[v] = batch[v]
      /\ lost' = lost \cup Items(batch[w])
  <2>1. CASE published(w)
    <3>1. Items(batch[w]) = {}
      BY <2>1, ItemsEmpty DEF published
    <3> QED BY <2>1, <3>1 DEF Inv, TypeOK, published, release
  <2>2. CASE publish_fails(w)
    BY <2>2 DEF Inv, TypeOK, publish_fails, release
  <2> QED BY <2>1, <2>2
<1>2. /\ pc' = [pc EXCEPT ![w] = "idle"] /\ own' = [own EXCEPT ![w] = {}]
      /\ acked' \in {acked, acked \cup own[w]}
  BY DEF published, publish_fails, Return
<1>3. /\ pc'[w] = "idle" /\ own'[w] = {}
      /\ pc' \in [Workers -> {"idle", "flush", "lock", "publish"}]
      /\ own' \in [Workers -> SUBSET Nat] /\ acked' \subseteq Nat
      /\ \A v \in Workers : v # w => pc'[v] = pc[v] /\ own'[v] = own[v]
  BY <1>1, <1>2 DEF TypeOK
<1>4. Items(batch'[w]) = {} /\ Injective(batch'[w])
  BY <1>1, ItemsEmpty
<1>5. TypeOK'
  <2>1. Items(batch[w]) \subseteq Nat
    BY <1>1 DEF TypeOK, Items
  <2> QED BY <1>1, <1>3, <2>1 DEF TypeOK
<1>6. /\ Items(buf') = Items(buf) /\ Items(wire') = Items(wire)
      /\ \A v \in Workers : v # w => Items(batch'[v]) = Items(batch[v])
  BY <1>1
<1>7. NoDuplicates'
  <2>1. /\ Injective(buf') /\ Injective(wire')
        /\ \A v \in Workers : Injective(batch'[v])
    BY <1>1, <1>4 DEF Inv, NoDuplicates
  <2>2. Apart'
    <3>1. Apart
      BY DEF Inv, NoDuplicates
    <3> QED BY <3>1, <1>1, <1>4, <1>6 DEF Apart
  <2> QED BY <2>1, <2>2 DEF NoDuplicates
<1>8. Packets' = Packets
  BY <1>1 DEF Packets
<1>9. NothingVanishes'
  <2>1. Covered
    BY CoveredIs DEF Inv
  <2>2. Covered'
    BY <2>1, <1>1, <1>4, <1>6, <1>8 DEF Covered
  <2> QED BY <2>2 DEF Covered, NothingVanishes
<1>10. OnePublisher' /\ EmptyHanded'
  BY <1>1, <1>3, FlushAssumption DEF Inv, OnePublisher, EmptyHanded, Workers
<1>11. OwnInv' /\ OkMeansTaken'
  BY <1>1, <1>2, <1>3, <1>8 DEF Inv, OwnInv, OkMeansTaken
<1> QED BY <1>5, <1>7, <1>9, <1>10, <1>11 DEF Inv

(* Every step keeps the invariant.                                         *)
LEMMA NextInv == Inv /\ [Next]_vars => Inv'
<1> SUFFICES ASSUME Inv, [Next]_vars PROVE Inv'
  OBVIOUS
<1>1. CASE UNCHANGED vars
  BY <1>1 DEF vars, Inv, TypeOK, NoDuplicates, Apart, NothingVanishes, Packets,
              OnePublisher, EmptyHanded, OwnInv, OkMeansTaken
<1>2. ASSUME NEW w \in Callers,
             send_message(w) \/ propose(w) \/ advance(w) \/ CallFails(w)
      PROVE  Inv'
  <2>1. PICK n \in Nat : Buffers(w, n)
    BY <1>2, BuffersSome
  <2> QED BY <2>1, CallInv
<1>3. ASSUME NEW w \in Callers, send_key_package(w) PROVE Inv'
  <2>1. w \in Workers /\ Direct(w)
    BY <1>3 DEF Workers, Direct, send_key_package
  <2> QED BY <2>1, DirectInv
<1>4. ASSUME pump_welcome PROVE Inv'
  <2>1. Pump \in Workers /\ Direct(Pump)
    BY <1>4 DEF Workers, Direct, pump_welcome
  <2> QED BY <2>1, DirectInv
<1>5. ASSUME NEW w \in Workers, flush_drain(w) PROVE Inv'
  <2>1. CASE buf = <<>>
    BY <1>5, <2>1, NothingToFlushInv
  <2>2. CASE buf # <<>>
    <3>1. Takes(w)
      BY <1>5, <2>2 DEF flush_drain, Takes
    <3> QED BY <3>1, TakesInv
  <2> QED BY <2>1, <2>2
<1>6. ASSUME pump_drain PROVE Inv'
  <2>1. Pump \in Workers /\ Takes(Pump)
    BY <1>6 DEF Workers, Takes, pump_drain
  <2> QED BY <2>1, TakesInv
<1>7. ASSUME NEW w \in Workers, acquire(w) PROVE Inv'
  BY <1>7, AcquireInv
<1>8. ASSUME NEW w \in Workers, publish(w) PROVE Inv'
  BY <1>8, OnePacketInv
<1>9. ASSUME pump_publish_fails PROVE Inv'
  <2>1. Pump \in Workers
    BY DEF Workers
  <2> QED BY <1>9, <2>1, OnePacketInv
<1>10. ASSUME NEW w \in Workers, published(w) \/ publish_fails(w) PROVE Inv'
  BY <1>10, ReturnInv
<1> QED BY <1>1, <1>2, <1>3, <1>4, <1>5, <1>6, <1>7, <1>8, <1>9, <1>10
        DEF Next, Flush

(* The invariant holds throughout.                                         *)
LEMMA InvHolds == Spec => []Inv
BY InitInv, NextInv, PTL DEF Spec

------------------------------------------------------------------------------
(* The order within a call.  A drain takes the whole buffer, so the        *)
(* packets of a call are never split between the buffer and a batch, nor   *)
(* between two batches; within a batch they stand in the order they were   *)
(* made, and behind those of the same call that are out.                   *)

\* Items with the same image under f are in order.
Ordered(f, s) ==
    \A i, j \in DOMAIN s : i < j /\ f[s[i]] = f[s[j]] => s[i] < s[j]

\* No call has a packet in A and one in B.
Unrelated(f, A, B) == \A p \in A, q \in B : f[p] # f[q]

\* The packets of B that share a call with one of A come first.
Follows(f, A, B) == \A p \in A, q \in B : f[p] = f[q] => q < p

\* Packets of one call are in one place, or in a batch behind the wire.
CallOrderInv ==
    /\ Len(calls) = made /\ \A p \in Packets : calls[p] <= p
    /\ Ordered(calls, buf) /\ Ordered(calls, wire)
    /\ Unrelated(calls, Items(buf), Items(wire))
    /\ \A w \in Workers :
        /\ Ordered(calls, batch[w])
        /\ Follows(calls, Items(batch[w]), Items(wire))
        /\ Unrelated(calls, Items(buf), Items(batch[w]))
        /\ \A v \in Workers \ {w} :
            Unrelated(calls, Items(batch[v]), Items(batch[w]))

(* Only the values of f on the items matter.                               *)
LEMMA OrderedAgrees ==
    ASSUME NEW f, NEW g, NEW s, \A x \in Items(s) : f[x] = g[x], Ordered(f, s)
    PROVE  Ordered(g, s)
BY DEF Ordered, Items

(* Nothing, and a single item, are in order.                               *)
LEMMA OrderedSmall ==
    ASSUME NEW f, NEW x \in Nat
    PROVE  /\ Ordered(f, <<>>) /\ Ordered(f, <<x>>) /\ <<x>> \in Seq(Nat)
           /\ Items(<<x>>) = {x}
<1>1. DOMAIN <<x>> = {1} /\ <<x>>[1] = x
  OBVIOUS
<1> QED BY <1>1 DEF Ordered, Items

(* An item that follows its fellows is appended.                           *)
LEMMA OrderedAppend ==
    ASSUME NEW f, NEW s \in Seq(Nat), NEW x \in Nat, Ordered(f, s),
           Follows(f, {x}, Items(s))
    PROVE  Ordered(f, Append(s, x))
<1> DEFINE t == Append(s, x)
<1>1. /\ Len(s) \in Nat /\ DOMAIN s = 1 .. Len(s)
      /\ DOMAIN t = 1 .. Len(s) + 1 /\ t[Len(s) + 1] = x
      /\ \A i \in DOMAIN s : t[i] = s[i] /\ s[i] \in Items(s)
  BY DEF Items
<1> HIDE DEF t
<1> SUFFICES ASSUME NEW i \in DOMAIN t, NEW j \in DOMAIN t, i < j, f[t[i]] = f[t[j]]
             PROVE  t[i] < t[j]
  BY DEF Ordered, t
<1>2. i \in DOMAIN s /\ t[i] = s[i] /\ s[i] \in Items(s)
  BY <1>1
<1>3. CASE j = Len(s) + 1
  BY <1>1, <1>2, <1>3 DEF Follows
<1>4. CASE j # Len(s) + 1
  <2>1. j \in DOMAIN s /\ t[j] = s[j]
    BY <1>1, <1>4
  <2> QED BY <1>2, <2>1 DEF Ordered
<1> QED BY <1>3, <1>4

(* Two sequences of different calls in a row.                              *)
LEMMA OrderedConcat ==
    ASSUME NEW f, NEW s \in Seq(Nat), NEW t \in Seq(Nat), Ordered(f, s), Ordered(f, t),
           Unrelated(f, Items(s), Items(t))
    PROVE  Ordered(f, s \o t)
<1> DEFINE u == s \o t
<1>1. /\ Len(s) \in Nat /\ DOMAIN s = 1 .. Len(s) /\ Len(t) \in Nat
      /\ DOMAIN u = 1 .. Len(s) + Len(t)
      /\ \A i \in DOMAIN s : u[i] = s[i]
      /\ \A i \in DOMAIN u : i > Len(s) => i - Len(s) \in DOMAIN t /\ u[i] = t[i - Len(s)]
  OBVIOUS
<1> HIDE DEF u
<1> SUFFICES ASSUME NEW i \in DOMAIN u, NEW j \in DOMAIN u, i < j, f[u[i]] = f[u[j]]
             PROVE  u[i] < u[j]
  BY DEF Ordered, u
<1>2. CASE j \in DOMAIN s
  BY <1>1, <1>2 DEF Ordered
<1>3. CASE i \in DOMAIN s /\ j > Len(s)
  <2>1. u[i] \in Items(s) /\ u[j] \in Items(t)
    BY <1>1, <1>3 DEF Items
  <2> QED BY <2>1 DEF Unrelated
<1>4. CASE i > Len(s) /\ j > Len(s)
  <2>1. /\ i - Len(s) \in DOMAIN t /\ u[i] = t[i - Len(s)]
        /\ j - Len(s) \in DOMAIN t /\ u[j] = t[j - Len(s)]
        /\ i - Len(s) < j - Len(s)
    BY <1>1, <1>4
  <2> QED BY <2>1 DEF Ordered
<1> QED BY <1>1, <1>2, <1>3, <1>4

(* What is left is in order and follows the head.                          *)
LEMMA OrderedTail ==
    ASSUME NEW f, NEW s \in Seq(Nat), s # <<>>, Ordered(f, s)
    PROVE  Ordered(f, Tail(s)) /\ Follows(f, Items(Tail(s)), {Head(s)})
<1> DEFINE t == Tail(s)
<1>1. /\ Len(s) \in Nat \ {0} /\ DOMAIN s = 1 .. Len(s)
      /\ Head(s) = s[1] /\ DOMAIN t = 1 .. Len(s) - 1
      /\ \A i \in DOMAIN t : i + 1 \in DOMAIN s /\ t[i] = s[i + 1]
  OBVIOUS
<1> HIDE DEF t
<1>2. Ordered(f, t)
  <2> SUFFICES ASSUME NEW i \in DOMAIN t, NEW j \in DOMAIN t, i < j, f[t[i]] = f[t[j]]
               PROVE  t[i] < t[j]
    BY DEF Ordered
  <2>1. i + 1 \in DOMAIN s /\ j + 1 \in DOMAIN s /\ i + 1 < j + 1
    BY <1>1
  <2> QED BY <1>1, <2>1 DEF Ordered
<1>3. Follows(f, Items(t), {Head(s)})
  <2> SUFFICES ASSUME NEW i \in DOMAIN t, f[t[i]] = f[s[1]] PROVE s[1] < t[i]
    BY <1>1 DEF Follows, Items
  <2>1. 1 \in DOMAIN s /\ i + 1 \in DOMAIN s /\ 1 < i + 1 /\ t[i] = s[i + 1]
    BY <1>1
  <2> QED BY <2>1 DEF Ordered
<1> QED BY <1>2, <1>3 DEF t

(* Every packet in sight has been made.                                    *)
LEMMA InSight ==
    ASSUME Inv
    PROVE  /\ Items(buf) \subseteq Packets /\ Items(wire) \subseteq Packets
           /\ \A w \in Workers : Items(batch[w]) \subseteq Packets
BY CoveredIs DEF Inv, Covered

(* Nothing has been called.                                                *)
LEMMA InitCallOrder == Init => CallOrderInv
<1> SUFFICES ASSUME Init PROVE CallOrderInv
  OBVIOUS
<1>1. /\ buf = <<>> /\ wire = <<>> /\ Items(<<>>) = {} /\ Ordered(calls, <<>>)
      /\ \A w \in Workers : batch[w] = <<>>
      /\ Len(calls) = 0 /\ made = 0
  BY ItemsEmpty DEF Init, Ordered
<1> QED BY <1>1 DEF CallOrderInv, Packets, Unrelated, Follows

(* New packets belong to a new call: the calls of the old ones are as they *)
(* were, and below it.                                                     *)
LEMMA NewCall ==
    ASSUME TypeOK, CallOrderInv, NEW n \in Nat, made' = made + n,
           Len(calls') = Len(calls) + n,
           \A p \in 1 .. Len(calls) : calls'[p] = calls[p],
           \A p \in (Len(calls) + 1) .. (Len(calls) + n) : calls'[p] = made + 1
    PROVE  /\ Len(calls') = made' /\ \A p \in Packets' : calls'[p] <= p
           /\ \A p \in Packets : calls'[p] = calls[p]
           /\ \A p \in Packets, q \in (made + 1) .. (made + n) : calls'[p] # calls'[q]
<1>1. /\ made \in Nat /\ calls \in Seq(Nat) /\ Len(calls) = made
      /\ \A p \in 1 .. made : calls[p] <= p
  BY DEF TypeOK, CallOrderInv, Packets
<1>2. /\ \A p \in 1 .. made : calls'[p] = calls[p] /\ calls[p] \in Nat
      /\ \A p \in (made + 1) .. (made + n) : calls'[p] = made + 1
  BY <1>1
<1>3. \A p \in Packets' : p \in 1 .. made \/ p \in (made + 1) .. (made + n)
  BY <1>1 DEF Packets
<1>4. \A p \in Packets' : calls'[p] <= p
  BY <1>1, <1>2, <1>3
<1> QED BY <1>1, <1>2, <1>4 DEF Packets

(* What holds of old packets holds on with the calls recorded since.       *)
LEMMA OldOrder ==
    ASSUME Inv, CallOrderInv, \A p \in Packets : calls'[p] = calls[p]
    PROVE  /\ Ordered(calls', buf) /\ Ordered(calls', wire)
           /\ Unrelated(calls', Items(buf), Items(wire))
           /\ \A w \in Workers :
               /\ Ordered(calls', batch[w])
               /\ Follows(calls', Items(batch[w]), Items(wire))
               /\ Unrelated(calls', Items(buf), Items(batch[w]))
               /\ \A v \in Workers \ {w} :
                   Unrelated(calls', Items(batch[v]), Items(batch[w]))
<1>1. Ordered(calls', buf) /\ Ordered(calls', wire)
  BY InSight, OrderedAgrees DEF CallOrderInv
<1>2. ASSUME NEW w \in Workers PROVE Ordered(calls', batch[w])
  BY InSight, OrderedAgrees DEF CallOrderInv
<1>3. ASSUME NEW w \in Workers
      PROVE  /\ Follows(calls', Items(batch[w]), Items(wire))
             /\ Unrelated(calls', Items(buf), Items(batch[w]))
  BY InSight DEF CallOrderInv, Follows, Unrelated
<1>4. ASSUME NEW w \in Workers, NEW v \in Workers \ {w}
      PROVE  Unrelated(calls', Items(batch[v]), Items(batch[w]))
  BY InSight DEF CallOrderInv, Unrelated
<1>5. Unrelated(calls', Items(buf), Items(wire))
  BY InSight DEF CallOrderInv, Unrelated
<1> QED BY <1>1, <1>2, <1>3, <1>4, <1>5

(* A call adds its packets behind the buffer, in order.                    *)
LEMMA CallKeepsOrder ==
    ASSUME Inv, CallOrderInv, NEW w \in Callers, NEW n \in Nat, Buffers(w, n)
    PROVE  CallOrderInv'
<1> DEFINE new == [i \in 1 .. n |-> made + 1]
<1>1. /\ TypeOK /\ made \in Nat /\ buf \in Seq(Nat) /\ made' = made + n
      /\ buf' = buf \o Burst(n) /\ calls' = calls \o new
      /\ UNCHANGED <<batch, wire>>
  BY DEF Inv, Buffers, Buffer, TypeOK
<1>2. /\ Len(calls') = Len(calls) + n
      /\ \A p \in 1 .. Len(calls) : calls'[p] = calls[p]
      /\ \A p \in (Len(calls) + 1) .. (Len(calls) + n) : calls'[p] = made + 1
  <2>1. new \in Seq(Nat) /\ Len(new) = n /\ \A i \in 1 .. n : new[i] = made + 1
    BY <1>1
  <2>2. calls \in Seq(Nat) /\ Len(calls) \in Nat
    BY <1>1 DEF TypeOK
  <2> HIDE DEF new
  <2>3. /\ Len(calls') = Len(calls) + n
        /\ \A p \in 1 .. Len(calls) : calls'[p] = calls[p]
        /\ \A p \in (Len(calls) + 1) .. (Len(calls) + n) :
              p - Len(calls) \in 1 .. n /\ calls'[p] = new[p - Len(calls)]
    BY <1>1, <2>1, <2>2
  <2> QED BY <2>1, <2>3
<1> HIDE DEF new
<1>3. /\ Len(calls') = made' /\ \A p \in Packets' : calls'[p] <= p
      /\ \A p \in Packets : calls'[p] = calls[p]
      /\ \A p \in Packets, q \in (made + 1) .. (made + n) : calls'[p] # calls'[q]
  BY <1>1, <1>2, NewCall
<1>4. /\ Burst(n) \in Seq(Nat) /\ Items(Burst(n)) = (made + 1) .. (made + n)
      /\ Ordered(calls', Burst(n))
  <2>1. Burst(n) \in Seq(Nat) /\ Items(Burst(n)) = (made + 1) .. (made + n)
    BY <1>1, BurstItems
  <2>2. DOMAIN Burst(n) = 1 .. n /\ \A i \in 1 .. n : Burst(n)[i] = made + i
    BY DEF Burst
  <2>3. Ordered(calls', Burst(n))
    BY <1>1, <2>2 DEF Ordered
  <2> QED BY <2>1, <2>3
<1>5. Unrelated(calls', Items(buf), Items(Burst(n)))
  BY <1>3, <1>4, InSight DEF Unrelated
<1>6. Ordered(calls', buf') /\ Items(buf') = Items(buf) \cup Items(Burst(n))
  BY <1>1, <1>3, <1>4, <1>5, OldOrder, OrderedConcat, ItemsConcat
<1>7. /\ Unrelated(calls', Items(Burst(n)), Items(wire))
      /\ \A v \in Workers : Unrelated(calls', Items(Burst(n)), Items(batch[v]))
  <2>1. ASSUME NEW A, A \subseteq Packets PROVE Unrelated(calls', Items(Burst(n)), A)
    BY <1>3, <1>4, <2>1 DEF Unrelated
  <2> QED BY <2>1, InSight
<1>8. /\ Unrelated(calls', Items(buf'), Items(wire))
      /\ \A v \in Workers : Unrelated(calls', Items(buf'), Items(batch[v]))
  BY <1>3, <1>6, <1>7, OldOrder DEF Unrelated
<1> QED BY <1>1, <1>3, <1>6, <1>8, OldOrder DEF CallOrderInv

(* A packet sent past the buffer is a call of its own.                     *)
LEMMA DirectKeepsOrder ==
    ASSUME Inv, CallOrderInv, NEW w \in Workers, Direct(w)
    PROVE  CallOrderInv'
<1> DEFINE x == made + 1
<1>1. /\ TypeOK /\ made \in Nat /\ x \in Nat /\ made' = made + 1 /\ calls \in Seq(Nat)
      /\ calls' = Append(calls, x) /\ batch'[w] = <<x>>
      /\ \A v \in Workers : v # w => batch'[v] = batch[v]
      /\ UNCHANGED <<buf, wire>>
  BY DEF Inv, Direct, TypeOK
<1>2. /\ Len(calls') = Len(calls) + 1
      /\ \A p \in 1 .. Len(calls) : calls'[p] = calls[p]
      /\ \A p \in (Len(calls) + 1) .. (Len(calls) + 1) : calls'[p] = made + 1
  BY <1>1
<1>3. /\ Len(calls') = made' /\ \A p \in Packets' : calls'[p] <= p
      /\ \A p \in Packets : calls'[p] = calls[p]
      /\ \A p \in Packets, q \in (made + 1) .. (made + 1) : calls'[p] # calls'[q]
  BY <1>1, <1>2, NewCall
<1>4. \A p \in Packets : calls'[p] # calls'[x]
  <2>1. x \in (made + 1) .. (made + 1)
    BY <1>1
  <2> QED BY <1>3, <2>1
<1> HIDE DEF x
<1>5. Ordered(calls', batch'[w]) /\ Items(batch'[w]) = {x}
  BY <1>1, OrderedSmall
<1>6. ASSUME NEW A, A \subseteq Packets
      PROVE  /\ Unrelated(calls', A, {x}) /\ Unrelated(calls', {x}, A)
             /\ Follows(calls', {x}, A)
  BY <1>4, <1>6 DEF Unrelated, Follows
<1>7. /\ Follows(calls', Items(batch'[w]), Items(wire))
      /\ Unrelated(calls', Items(buf), Items(batch'[w]))
      /\ \A v \in Workers \ {w} :
            /\ Unrelated(calls', Items(batch[v]), Items(batch'[w]))
            /\ Unrelated(calls', Items(batch'[w]), Items(batch[v]))
  BY <1>5, <1>6, InSight
<1>8. \A u \in Workers :
        /\ Ordered(calls', batch'[u])
        /\ Follows(calls', Items(batch'[u]), Items(wire))
        /\ Unrelated(calls', Items(buf), Items(batch'[u]))
        /\ \A v \in Workers \ {u} :
            Unrelated(calls', Items(batch'[v]), Items(batch'[u]))
  <2> TAKE u \in Workers
  <2>1. CASE u = w
    BY <1>1, <1>5, <1>7, <2>1
  <2>2. CASE u # w
    BY <1>1, <1>3, <1>7, <2>2, OldOrder
  <2> QED BY <2>1, <2>2
<1> QED BY <1>1, <1>3, <1>8, OldOrder DEF CallOrderInv

(* A drain takes all of the buffer, so it splits no call.                  *)
LEMMA TakesKeepsOrder ==
    ASSUME Inv, CallOrderInv, NEW w \in Workers, Takes(w)
    PROVE  CallOrderInv'
<1>1. /\ batch[w] = <<>> /\ buf' = <<>> /\ batch'[w] = buf
      /\ \A v \in Workers : v # w => batch'[v] = batch[v]
      /\ UNCHANGED <<made, calls, wire>> /\ Packets' = Packets
  BY DEF Inv, Takes, TypeOK, EmptyHanded, Packets
<1>2. Items(buf') = {} /\ Ordered(calls, buf')
  BY <1>1, ItemsEmpty DEF Ordered
<1>3. \A u \in Workers :
        /\ Ordered(calls, batch'[u])
        /\ Follows(calls, Items(batch'[u]), Items(wire))
        /\ \A v \in Workers \ {u} : Unrelated(calls, Items(batch'[v]), Items(batch'[u]))
  <2> TAKE u \in Workers
  <2>1. CASE u = w
    BY <1>1, <2>1 DEF CallOrderInv, Unrelated, Follows
  <2>2. CASE u # w
    BY <1>1, <2>2 DEF CallOrderInv, Unrelated, Follows
  <2> QED BY <2>1, <2>2
<1> QED BY <1>1, <1>2, <1>3 DEF CallOrderInv, Unrelated

(* One packet leaves a batch at its head.                                  *)
LEMMA OnePacketKeepsOrder ==
    ASSUME Inv, CallOrderInv, NEW w \in Workers,
           publish(w) \/ (w = Pump /\ pump_publish_fails)
    PROVE  CallOrderInv'
<1> DEFINE p == Head(batch[w])
<1>1. /\ batch[w] \in Seq(Nat) /\ batch[w] # <<>> /\ batch'[w] = Tail(batch[w])
      /\ \A v \in Workers : v # w => batch'[v] = batch[v]
      /\ wire \in Seq(Nat) /\ wire' \in {wire, Append(wire, p)}
      /\ UNCHANGED <<made, calls, buf>> /\ Packets' = Packets
  BY DEF Inv, TypeOK, publish, pump_publish_fails, Packets
<1>2. /\ p \in Nat /\ p \in Items(batch[w]) /\ Items(batch'[w]) \subseteq Items(batch[w])
      /\ Ordered(calls, batch'[w]) /\ Follows(calls, Items(batch'[w]), {p})
  <2>1. p \in Nat /\ Items(batch[w]) = Items(batch'[w]) \cup {p}
    BY <1>1, ItemsTail
  <2>2. Ordered(calls, batch[w])
    BY DEF CallOrderInv
  <2>3. Ordered(calls, batch'[w]) /\ Follows(calls, Items(batch'[w]), {p})
    BY <1>1, <2>2, OrderedTail
  <2> QED BY <2>1, <2>3
<1> HIDE DEF p
<1>3. Ordered(calls, wire') /\ Items(wire') \subseteq Items(wire) \cup {p}
  <2>1. Follows(calls, {p}, Items(wire))
    BY <1>2 DEF CallOrderInv, Follows
  <2>2. CASE wire' = wire
    BY <2>2 DEF CallOrderInv
  <2>3. CASE wire' = Append(wire, p)
    BY <1>1, <1>2, <2>1, <2>3, OrderedAppend, ItemsAppend DEF CallOrderInv
  <2> QED BY <1>1, <2>2, <2>3
<1>4. Unrelated(calls, Items(buf), Items(wire'))
  BY <1>2, <1>3 DEF CallOrderInv, Unrelated
<1>5. \A u \in Workers :
        /\ Ordered(calls, batch'[u])
        /\ Follows(calls, Items(batch'[u]), Items(wire'))
        /\ Unrelated(calls, Items(buf), Items(batch'[u]))
        /\ \A v \in Workers \ {u} : Unrelated(calls, Items(batch'[v]), Items(batch'[u]))
  <2> TAKE u \in Workers
  <2>1. Items(batch'[u]) \subseteq Items(batch[u]) /\ Ordered(calls, batch'[u])
    BY <1>1, <1>2 DEF CallOrderInv
  <2>2. Follows(calls, Items(batch'[u]), Items(wire'))
    <3>1. Follows(calls, Items(batch'[u]), {p})
      <4>1. CASE u = w
        BY <1>2, <4>1
      <4>2. CASE u # w
        BY <1>2, <2>1, <4>2 DEF CallOrderInv, Unrelated, Follows
      <4> QED BY <4>1, <4>2
    <3>2. Follows(calls, Items(batch'[u]), Items(wire))
      BY <2>1 DEF CallOrderInv, Follows
    <3> QED BY <1>3, <3>1, <3>2 DEF Follows
  <2>3. Unrelated(calls, Items(buf), Items(batch'[u]))
    BY <2>1 DEF CallOrderInv, Unrelated
  <2>4. ASSUME NEW v \in Workers \ {u}
        PROVE  Unrelated(calls, Items(batch'[v]), Items(batch'[u]))
    <3>1. Items(batch'[v]) \subseteq Items(batch[v])
      BY <1>1, <1>2
    <3>2. Unrelated(calls, Items(batch[v]), Items(batch[u]))
      BY DEF CallOrderInv
    <3> QED BY <2>1, <3>1, <3>2 DEF Unrelated
  <2> QED BY <2>1, <2>2, <2>3, <2>4
<1> QED BY <1>1, <1>3, <1>4, <1>5 DEF CallOrderInv

(* A batch is emptied, or nothing that matters here changes.               *)
LEMMA ReturnKeepsOrder ==
    ASSUME CallOrderInv, UNCHANGED <<made, calls, buf, wire>>,
           \A w \in Workers : batch'[w] \in {batch[w], <<>>}
    PROVE  CallOrderInv'
<1>1. Items(<<>>) = {} /\ Ordered(calls, <<>>) /\ Packets' = Packets
  BY ItemsEmpty DEF Ordered, Packets
<1>2. \A w \in Workers : Ordered(calls, batch'[w]) /\ Items(batch'[w]) \subseteq Items(batch[w])
  BY <1>1 DEF CallOrderInv
<1>3. \A w \in Workers :
        /\ Follows(calls, Items(batch'[w]), Items(wire))
        /\ Unrelated(calls, Items(buf), Items(batch'[w]))
  BY <1>2 DEF CallOrderInv, Follows, Unrelated
<1>4. ASSUME NEW w \in Workers, NEW v \in Workers \ {w}
      PROVE  Unrelated(calls, Items(batch'[v]), Items(batch'[w]))
  <2>1. Unrelated(calls, Items(batch[v]), Items(batch[w]))
    BY DEF CallOrderInv
  <2> QED BY <1>2, <2>1 DEF Unrelated
<1> QED BY <1>1, <1>2, <1>3, <1>4 DEF CallOrderInv

(* Every step keeps the order within the calls.                            *)
LEMMA NextCallOrder == Inv /\ CallOrderInv /\ [Next]_vars => CallOrderInv'
<1> SUFFICES ASSUME Inv, CallOrderInv, [Next]_vars PROVE CallOrderInv'
  OBVIOUS
<1>1. ASSUME NEW w \in Callers, send_message(w) \/ propose(w) \/ advance(w) \/ CallFails(w)
      PROVE  CallOrderInv'
  <2>1. PICK n \in Nat : Buffers(w, n)
    BY <1>1, BuffersSome
  <2> QED BY <2>1, CallKeepsOrder
<1>2. ASSUME NEW w \in Callers, send_key_package(w) PROVE CallOrderInv'
  <2>1. w \in Workers /\ Direct(w)
    BY <1>2 DEF Workers, Direct, send_key_package
  <2> QED BY <2>1, DirectKeepsOrder
<1>3. ASSUME pump_welcome PROVE CallOrderInv'
  <2>1. Pump \in Workers /\ Direct(Pump)
    BY <1>3 DEF Workers, Direct, pump_welcome
  <2> QED BY <2>1, DirectKeepsOrder
<1>4. ASSUME NEW w \in Workers, flush_drain(w), buf # <<>> PROVE CallOrderInv'
  <2>1. Takes(w)
    BY <1>4 DEF flush_drain, Takes
  <2> QED BY <2>1, TakesKeepsOrder
<1>5. ASSUME pump_drain PROVE CallOrderInv'
  <2>1. Pump \in Workers /\ Takes(Pump)
    BY <1>5 DEF Workers, Takes, pump_drain
  <2> QED BY <2>1, TakesKeepsOrder
<1>6. ASSUME NEW w \in Workers, publish(w) PROVE CallOrderInv'
  BY <1>6, OnePacketKeepsOrder
<1>7. ASSUME pump_publish_fails PROVE CallOrderInv'
  <2>1. Pump \in Workers
    BY DEF Workers
  <2> QED BY <1>7, <2>1, OnePacketKeepsOrder
<1>8. ASSUME NEW w \in Workers,
             \/ (flush_drain(w) /\ buf = <<>>)
             \/ acquire(w) \/ published(w) \/ publish_fails(w)
      PROVE  CallOrderInv'
  <2>1. UNCHANGED <<made, calls, buf, wire>>
    BY <1>8 DEF flush_drain, acquire, published, publish_fails
  <2>2. \A v \in Workers : batch'[v] \in {batch[v], <<>>}
    BY <1>8 DEF flush_drain, acquire, published, publish_fails, Inv, TypeOK
  <2> QED BY <2>1, <2>2, ReturnKeepsOrder
<1>9. CASE UNCHANGED vars
  BY <1>9, ReturnKeepsOrder DEF vars
<1> QED BY <1>1, <1>2, <1>3, <1>4, <1>5, <1>6, <1>7, <1>8, <1>9 DEF Next, Flush

(* No call's packets overtake each other on the way to the transport.      *)
THEOREM CallsAreSentInOrder == Spec => []CallsKeepOrder
<1>1. Init => Inv /\ CallOrderInv
  BY InitInv, InitCallOrder
<1>2. Inv /\ CallOrderInv /\ [Next]_vars => (Inv /\ CallOrderInv)'
  BY NextInv, NextCallOrder
<1>3. CallOrderInv => CallsKeepOrder
  BY DEF CallOrderInv, CallsKeepOrder, Ordered
<1> QED BY <1>1, <1>2, <1>3, PTL DEF Spec

------------------------------------------------------------------------------
(* However many callers flush beside the pump, and whichever publishes     *)
(* fail, no packet is sent twice.                                          *)
THEOREM NothingIsSentTwice == Spec => []NoDuplicates
<1>1. Inv => NoDuplicates
  BY DEF Inv
<1> QED BY <1>1, InvHolds, PTL

(* No packet disappears unaccounted for.                                   *)
THEOREM PacketsAreConserved == Spec => []NothingVanishes
<1>1. Inv => NothingVanishes
  BY DEF Inv
<1> QED BY <1>1, InvHolds, PTL

(* A call that returned Ok has left nothing of its own in the buffer.      *)
THEOREM OkLeavesNothingBehind == Spec => []OkMeansTaken
<1>1. Inv => OkMeansTaken
  BY DEF Inv
<1> QED BY <1>1, InvHolds, PTL
=============================================================================
