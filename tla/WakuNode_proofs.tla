-------------------------- MODULE WakuNode_proofs ---------------------------
(***************************************************************************)
(* Proofs about WakuNode, for any number of clones, any capacity of the    *)
(* command channel and wherever the node thread panics.                    *)
(*                                                                         *)
(* A command is named by its clone.  That an answer is final rests on the  *)
(* clone waiting for as long as its command is in the channel or in the    *)
(* node thread's hands, and on no two clones naming the same packet.       *)
(***************************************************************************)
EXTENDS WakuNode, TLAPS

\* No clone exists before start() returns.
StartInv == start = "waiting" => \A c \in Clones : pc[c] = "none"

\* c waits for a reply that has not been given.
Pending(c) == pc[c] = "wait" /\ reply[c] = "empty"

\* The reply channel of a call that has not sent its command is new.
FreshInv == \A c \in Clones : pc[c] = "send" => reply[c] = "empty"

\* The command channel and the command in hand hold pending commands, each
\* of them once.
CommandInv ==
    /\ cur # None => Pending(cur)
    /\ \A i \in DOMAIN queue : Pending(queue[i]) /\ queue[i] # cur
    /\ \A i, j \in DOMAIN queue : queue[i] = queue[j] => i = j

\* No pending command is forgotten, and none outlives the channel.
TrackInv ==
    /\ \A c \in Clones : Pending(c) => c = cur \/ \E i \in DOMAIN queue : queue[i] = c
    /\ node = "over" => queue = <<>>

\* A call under way has a packet of its own that has not returned.
PacketInv ==
    /\ \A c \in Clones : pc[c] \in {"send", "wait"} =>
        pkt[c] # 0 /\ pkt[c] \notin done
    /\ \A c, d \in Clones : pkt[c] = pkt[d] => c = d \/ pkt[c] = 0

\* A reply "ok" is given after the relay has accepted the packet.
AnswerInv == \A c \in Clones : reply[c] = "ok" => pkt[c] \in relayed

Inv ==
    /\ TypeOK /\ StartInv /\ FreshInv
    /\ CommandInv /\ TrackInv /\ PacketInv /\ AnswerInv /\ OkMeansRelayed

(* Nothing has been sent yet.                                              *)
LEMMA InitInv == Init => Inv
<1> SUFFICES ASSUME Init PROVE Inv
  OBVIOUS
<1> USE WakuAssumption DEF Init
<1>1. TypeOK
  <2>1. queue \in Seq(Clones) /\ Len(queue) <= QueueCap
    OBVIOUS
  <2>2. /\ pc \in [Clones -> {"none", "idle", "send", "wait", "shut"}]
        /\ pkt \in [Clones -> 0 .. made]
        /\ reply \in [Clones -> {"empty", "ok", "err", "closed"}]
    OBVIOUS
  <2>3. running \in BOOLEAN /\ closure \in BOOLEAN
    OBVIOUS
  <2>4. cur \in Clones \cup {None} /\ (node = "publish") = (cur # None)
    OBVIOUS
  <2> QED BY <2>1, <2>2, <2>3, <2>4 DEF TypeOK
<1>2. FreshInv /\ CommandInv /\ TrackInv /\ PacketInv /\ AnswerInv
  BY DEF FreshInv, CommandInv, TrackInv, Pending, PacketInv, AnswerInv
<1> QED BY <1>1, <1>2 DEF Inv, StartInv, OkMeansRelayed

------------------------------------------------------------------------------
(* The node thread.                                                        *)

(* The thread moves on without touching a command.                         *)
LEMMA QuietNodeInv ==
    ASSUME Inv, BootFails \/ Boot \/ Ready \/ LoopEnds \/ DropGuard \/ DropNode
    PROVE  Inv'
<1>1. /\ UNCHANGED <<cur, queue, reply, relayed, late, callVars>>
      /\ node # "publish" /\ node' # "publish"
      /\ node' \in {"boot", "started", "serve", "publish", "dropGuard", "dropNode",
                    "dropReceiver", "over"}
      /\ running' \in BOOLEAN /\ closure' \in BOOLEAN
      /\ ready' \in {"empty", "ok", "err"}
  BY DEF BootFails, Boot, Ready, LoopEnds, DropGuard, DropNode, Inv, TypeOK
<1>2. TypeOK'
  BY <1>1 DEF Inv, TypeOK, callVars
<1>3. /\ StartInv' /\ FreshInv' /\ CommandInv' /\ PacketInv' /\ AnswerInv'
      /\ OkMeansRelayed'
  BY <1>1 DEF Inv, StartInv, FreshInv, CommandInv, Pending, PacketInv, AnswerInv,
              OkMeansRelayed, callVars
<1>4. TrackInv'
  <2>1. node' # "over"
    BY DEF BootFails, Boot, Ready, LoopEnds, DropGuard, DropNode
  <2> QED BY <1>1, <2>1 DEF Inv, TrackInv, Pending, callVars
<1> QED BY <1>2, <1>3, <1>4 DEF Inv

(* The head of the channel becomes the command in hand; the others differ  *)
(* from it.                                                                *)
LEMMA TakeInv == ASSUME Inv, Take PROVE Inv'
<1>1. /\ UNCHANGED <<running, closure, ready, reply, relayed, late, callVars>>
      /\ queue # <<>> /\ cur' = Head(queue) /\ queue' = Tail(queue)
      /\ node = "serve" /\ node' = "publish"
  BY DEF Take
<1>2. queue \in Seq(Clones) /\ Len(queue) <= QueueCap
  BY DEF Inv, TypeOK
<1>3. /\ queue' \in Seq(Clones) /\ Len(queue') = Len(queue) - 1
      /\ \A i \in DOMAIN queue' : i + 1 \in DOMAIN queue /\ queue'[i] = queue[i + 1]
      /\ 1 \in DOMAIN queue /\ cur' = queue[1] /\ cur' \in Clones
      /\ DOMAIN queue' \subseteq Nat
  BY <1>1, <1>2
<1>4. TypeOK'
  BY <1>1, <1>2, <1>3, WakuAssumption DEF Inv, TypeOK, callVars
<1>5. CommandInv'
  <2>1. pc'[cur'] = "wait" /\ reply'[cur'] = "empty"
    BY <1>1, <1>3 DEF Inv, CommandInv, Pending, callVars
  <2>2. \A i \in DOMAIN queue' :
          pc'[queue'[i]] = "wait" /\ reply'[queue'[i]] = "empty" /\ queue'[i] # cur'
    <3> TAKE i \in DOMAIN queue'
    <3>1. i + 1 \in DOMAIN queue /\ i + 1 # 1 /\ queue'[i] = queue[i + 1]
      BY <1>3
    <3> QED BY <1>1, <1>3, <3>1 DEF Inv, CommandInv, Pending, callVars
  <2>3. \A i, j \in DOMAIN queue' : queue'[i] = queue'[j] => i = j
    <3> TAKE i, j \in DOMAIN queue'
    <3> HAVE queue'[i] = queue'[j]
    <3>1. i + 1 = j + 1
      BY <1>3 DEF Inv, CommandInv
    <3> QED BY <1>3, <3>1
  <2> QED BY <2>1, <2>2, <2>3 DEF CommandInv, Pending
<1>6. /\ StartInv' /\ FreshInv' /\ PacketInv' /\ AnswerInv'
      /\ OkMeansRelayed'
  BY <1>1 DEF Inv, StartInv, FreshInv, PacketInv, AnswerInv,
              OkMeansRelayed, callVars
<1>7. TrackInv'
  <2> SUFFICES ASSUME NEW c \in Clones, Pending(c)
               PROVE  c = cur' \/ \E i \in DOMAIN queue' : queue'[i] = c
    BY <1>1 DEF TrackInv, Pending, callVars
  <2>1. cur = None
    BY <1>1 DEF Inv, TypeOK
  <2>2. PICK i \in DOMAIN queue : queue[i] = c
    BY <2>1, WakuAssumption DEF Inv, TrackInv
  <2>3. CASE i = 1
    BY <1>3, <2>2, <2>3
  <2>4. CASE i # 1
    <3>1. i - 1 \in DOMAIN queue' /\ queue'[i - 1] = queue[i]
      BY <1>1, <1>2, <2>4
    <3> QED BY <2>2, <3>1
  <2> QED BY <2>3, <2>4
<1> QED BY <1>4, <1>5, <1>6, <1>7 DEF Inv

(* The relay's answer goes to the clone whose command was in hand; an "ok" *)
(* follows the acceptance of its packet.                                   *)
LEMMA RelayInv == ASSUME Inv, RelayAccepts \/ RelayFails PROVE Inv'
<1>1. /\ UNCHANGED <<running, closure, ready, queue, callVars>>
      /\ node = "publish" /\ node' = "serve" /\ cur' = None
      /\ relayed' \in {relayed, relayed \cup {pkt[cur]}}
      /\ late' \in {late, late \cup {pkt[cur]}}
  BY DEF RelayAccepts, RelayFails, Replies
<1>2. PICK r \in {"ok", "err"} :
        /\ reply' = [reply EXCEPT ![cur] = r]
        /\ r = "ok" => relayed' = relayed \cup {pkt[cur]}
  BY DEF RelayAccepts, RelayFails, Replies
<1>3. cur \in Clones /\ cur # None /\ pkt[cur] # 0 /\ pkt[cur] \in 0 .. made /\ made \in Nat
  BY <1>1 DEF Inv, TypeOK, CommandInv, Pending, PacketInv
<1>4. TypeOK'
  BY <1>1, <1>2, <1>3 DEF Inv, TypeOK, callVars
<1>5. CommandInv'
  <2>1. \A i \in DOMAIN queue : queue[i] \in Clones /\ queue[i] # None
    BY WakuAssumption DEF Inv, TypeOK
  <2>2. \A i \in DOMAIN queue : reply'[queue[i]] = reply[queue[i]]
    BY <1>2, <2>1 DEF Inv, TypeOK, CommandInv
  <2> QED BY <1>1, <2>1, <2>2 DEF Inv, CommandInv, Pending, callVars
<1>6. AnswerInv' /\ FreshInv'
  BY <1>1, <1>2, <1>3 DEF Inv, TypeOK, AnswerInv, FreshInv, CommandInv, Pending,
                          callVars
<1>7. StartInv' /\ PacketInv' /\ OkMeansRelayed'
  BY <1>1 DEF Inv, StartInv, PacketInv, OkMeansRelayed, callVars
<1>8. TrackInv'
  BY <1>1, <1>2, <1>3 DEF Inv, TypeOK, TrackInv, Pending, callVars
<1> QED BY <1>4, <1>5, <1>6, <1>7, <1>8 DEF Inv

(* A panic closes the reply channel of the command in hand.                *)
LEMMA PanicsInv == ASSUME Inv, Panics PROVE Inv'
<1>1. /\ UNCHANGED <<running, closure, ready, queue, relayed, callVars>>
      /\ node' = "dropGuard" /\ cur' = None
      /\ reply' = [c \in Clones |-> IF c = cur THEN "closed" ELSE reply[c]]
  BY DEF Panics
<1>2. TypeOK'
  <2>1. \A c \in {cur} \ {None} : pkt[c] \in 1 .. made
    <3> SUFFICES ASSUME NEW c \in {cur} \ {None} PROVE pkt[c] \in 1 .. made
      OBVIOUS
    <3>1. c = cur /\ cur # None /\ c \in Clones /\ made \in Nat /\ pkt[c] \in 0 .. made
      BY DEF Inv, TypeOK
    <3>2. pkt[c] # 0
      BY <3>1 DEF Inv, CommandInv, Pending, PacketInv
    <3> QED BY <3>1, <3>2
  <2>2. late' \subseteq 1 .. made
    BY <2>1 DEF Panics, Inv, TypeOK
  <2> QED BY <1>1, <2>2 DEF Inv, TypeOK, callVars
<1>3. CommandInv'
  BY <1>1, WakuAssumption DEF Inv, TypeOK, CommandInv, Pending, callVars
<1>4. AnswerInv' /\ FreshInv'
  BY <1>1, WakuAssumption
     DEF Inv, AnswerInv, FreshInv, CommandInv, Pending, callVars
<1>5. StartInv' /\ PacketInv' /\ OkMeansRelayed'
  BY <1>1 DEF Inv, StartInv, PacketInv, OkMeansRelayed, callVars
<1>6. TrackInv'
  BY <1>1 DEF Inv, TrackInv, Pending, callVars
<1> QED BY <1>2, <1>3, <1>4, <1>5, <1>6 DEF Inv

(* A packet libwaku timed out on goes out.                                 *)
LEMMA RelayLateInv == ASSUME Inv, RelayLate PROVE Inv'
<1>1. UNCHANGED <<nodeVars, queue, reply, callVars>>
  BY DEF RelayLate
<1>2. PICK p \in late : relayed' = relayed \cup {p} /\ late' = late \ {p}
  BY DEF RelayLate
<1>3. TypeOK'
  BY <1>1, <1>2 DEF Inv, TypeOK, nodeVars, callVars
<1>4. AnswerInv' /\ OkMeansRelayed'
  BY <1>1, <1>2 DEF Inv, AnswerInv, OkMeansRelayed, callVars
<1>5. StartInv' /\ FreshInv' /\ CommandInv' /\ TrackInv' /\ PacketInv'
  BY <1>1 DEF Inv, StartInv, FreshInv, CommandInv, TrackInv, Pending, PacketInv,
              nodeVars, callVars
<1> QED BY <1>3, <1>4, <1>5 DEF Inv

(* The commands left in the channel are answered by its end.               *)
LEMMA DropReceiverInv == ASSUME Inv, DropReceiver PROVE Inv'
<1>1. /\ UNCHANGED <<running, closure, cur, ready, relayed, late, callVars>>
      /\ node = "dropReceiver" /\ node' = "over" /\ queue' = <<>>
      /\ reply' = [c \in Clones |-> IF \E i \in DOMAIN queue : queue[i] = c
                                    THEN "closed" ELSE reply[c]]
  BY DEF DropReceiver
<1>2. cur = None /\ cur' = None
  BY <1>1 DEF Inv, TypeOK
<1>3. TypeOK'
  <2>1. reply' \in [Clones -> {"empty", "ok", "err", "closed"}]
    BY <1>1 DEF Inv, TypeOK
  <2>2. queue' \in Seq(Clones) /\ Len(queue') <= QueueCap
    BY <1>1, WakuAssumption
  <2> QED BY <1>1, <1>2, <2>1, <2>2 DEF Inv, TypeOK, callVars
<1>4. CommandInv'
  BY <1>1, <1>2 DEF CommandInv
<1>5. AnswerInv' /\ FreshInv'
  BY <1>1 DEF Inv, AnswerInv, FreshInv, CommandInv, Pending, callVars
<1>6. StartInv' /\ PacketInv' /\ OkMeansRelayed'
  BY <1>1 DEF Inv, StartInv, PacketInv, OkMeansRelayed, callVars
<1>7. TrackInv'
  BY <1>1, <1>2 DEF Inv, TrackInv, Pending, callVars
<1> QED BY <1>3, <1>4, <1>5, <1>6, <1>7 DEF Inv

------------------------------------------------------------------------------
(* The callers.                                                            *)

(* start() returns, or a holder clones or drops its service: a clone that  *)
(* waits for nothing appears or goes.                                      *)
LEMMA HolderInv ==
    ASSUME Inv,
           \/ StartReturns
           \/ \E c \in Clones : Shutdown(c) \/ \E d \in Clones : Clone(c, d)
    PROVE  Inv'
<1>1. /\ UNCHANGED <<nodeVars, queue, reply, relayed, late, pkt, made, acked, done>>
      /\ start' \in {"waiting", "ok", "err"}
  BY DEF Inv, TypeOK, StartReturns, Shutdown, Clone
<1> DEFINE Harmless ==
      /\ pc' \in [Clones -> {"none", "idle", "send", "wait", "shut"}]
      /\ \A c \in Clones : pc'[c] \in {"send", "wait"} \/ pc[c] \in {"send", "wait"}
                            => pc'[c] = pc[c]
      /\ StartInv'
<1>2. Harmless
  <2>1. CASE StartReturns
    BY <2>1, WakuAssumption DEF StartReturns, Inv, TypeOK, StartInv
  <2>2. ASSUME NEW c \in Clones, Shutdown(c)
        PROVE  Harmless
    BY <2>2 DEF Shutdown, Inv, TypeOK, StartInv
  <2>3. ASSUME NEW c \in Clones, NEW d \in Clones, Clone(c, d)
        PROVE  Harmless
    BY <2>3 DEF Clone, Holds, Inv, TypeOK, StartInv
  <2> QED BY <2>1, <2>2, <2>3
<1>3. TypeOK'
  BY <1>1, <1>2 DEF Inv, TypeOK, nodeVars
<1>4. CommandInv'
  BY <1>1, <1>2 DEF Inv, TypeOK, CommandInv, Pending, nodeVars
<1>5. FreshInv' /\ PacketInv' /\ AnswerInv' /\ OkMeansRelayed'
  BY <1>1, <1>2 DEF Inv, FreshInv, PacketInv, AnswerInv, OkMeansRelayed, nodeVars
<1>6. TrackInv'
  BY <1>1, <1>2 DEF Inv, TrackInv, Pending, nodeVars
<1> QED BY <1>2, <1>3, <1>4, <1>5, <1>6 DEF Inv

(* A publish begins: its packet is new and so is its reply channel.        *)
LEMMA PublishInv == ASSUME Inv, NEW c \in Clones, Publish(c) PROVE Inv'
<1>1. /\ UNCHANGED <<nodeVars, queue, relayed, late, start, acked, done>>
      /\ pc[c] = "idle" /\ made' = made + 1
      /\ pkt' = [pkt EXCEPT ![c] = made + 1]
      /\ reply' = [reply EXCEPT ![c] = "empty"]
      /\ pc' = [pc EXCEPT ![c] = "send"]
  BY DEF Publish
<1>2. made \in Nat /\ done \subseteq 1 .. made /\ pkt \in [Clones -> 0 .. made]
  BY DEF Inv, TypeOK
<1>3. made + 1 \notin done /\ \A d \in Clones : pkt[d] # made + 1
  BY <1>2
<1>4. TypeOK'
  BY <1>1, <1>2 DEF Inv, TypeOK, nodeVars
<1>5. CommandInv'
  BY <1>1 DEF Inv, TypeOK, CommandInv, Pending, nodeVars
<1>6. PacketInv'
  BY <1>1, <1>2, <1>3 DEF Inv, TypeOK, PacketInv
<1>7. AnswerInv' /\ FreshInv'
  BY <1>1 DEF Inv, TypeOK, AnswerInv, FreshInv
<1>8. StartInv' /\ OkMeansRelayed'
  BY <1>1 DEF Inv, TypeOK, StartInv, OkMeansRelayed, nodeVars
<1>9. TrackInv'
  BY <1>1 DEF Inv, TypeOK, TrackInv, Pending, nodeVars
<1> QED BY <1>4, <1>5, <1>6, <1>7, <1>8, <1>9 DEF Inv

(* The command of a sender joins the channel: it has no other there.       *)
LEMMA SendInv == ASSUME Inv, NEW c \in Clones, Send(c) PROVE Inv'
<1>1. /\ UNCHANGED <<nodeVars, reply, relayed, late, start, pkt, made, acked, done>>
      /\ pc[c] = "send" /\ node # "over" /\ Len(queue) < QueueCap
      /\ queue' = Append(queue, c)
      /\ pc' = [pc EXCEPT ![c] = "wait"]
  BY DEF Send
<1>2. /\ queue \in Seq(Clones) /\ queue' \in Seq(Clones)
      /\ Len(queue) \in Nat /\ DOMAIN queue = 1 .. Len(queue)
      /\ Len(queue') = Len(queue) + 1 /\ DOMAIN queue' = 1 .. Len(queue) + 1
      /\ \A i \in DOMAIN queue : queue'[i] = queue[i]
      /\ queue'[Len(queue) + 1] = c
  BY <1>1 DEF Inv, TypeOK
<1>3. /\ pc'[c] = "wait" /\ \A d \in Clones : d # c => pc'[d] = pc[d]
      /\ pc' \in [Clones -> {"none", "idle", "send", "wait", "shut"}]
  BY <1>1 DEF Inv, TypeOK
<1>4. TypeOK'
  <2>1. Len(queue') <= QueueCap
    BY <1>1, <1>2, WakuAssumption
  <2> QED BY <1>1, <1>2, <1>3, <2>1 DEF Inv, TypeOK, nodeVars
<1>5. CommandInv'
  <2>1. cur # c /\ \A i \in DOMAIN queue : queue[i] # c /\ queue[i] \in Clones
    BY <1>1, <1>2, WakuAssumption DEF Inv, TypeOK, CommandInv, Pending
  <2>2. reply[c] = "empty"
    BY <1>1 DEF Inv, FreshInv
  <2>3. cur' # None => Pending(cur)'
    BY <1>1, <1>3, <2>1 DEF Inv, TypeOK, CommandInv, Pending, nodeVars
  <2>4. \A i \in DOMAIN queue' :
          pc'[queue'[i]] = "wait" /\ reply'[queue'[i]] = "empty" /\ queue'[i] # cur'
    <3> TAKE i \in DOMAIN queue'
    <3>1. CASE i = Len(queue) + 1
      BY <1>1, <1>2, <1>3, <2>1, <2>2, <3>1 DEF nodeVars
    <3>2. CASE i # Len(queue) + 1
      <4>1. i \in DOMAIN queue /\ queue'[i] = queue[i]
        BY <1>2, <3>2
      <4> QED BY <1>1, <1>3, <2>1, <4>1 DEF Inv, CommandInv, Pending, nodeVars
    <3> QED BY <3>1, <3>2
  <2>5. \A i, j \in DOMAIN queue' : queue'[i] = queue'[j] => i = j
    BY <1>2, <2>1 DEF Inv, CommandInv
  <2> QED BY <2>3, <2>4, <2>5 DEF CommandInv, Pending
<1>6. PacketInv' /\ FreshInv'
  BY <1>1, <1>3 DEF Inv, PacketInv, FreshInv
<1>7. StartInv' /\ AnswerInv' /\ OkMeansRelayed'
  BY <1>1, <1>3 DEF Inv, TypeOK, StartInv, AnswerInv, OkMeansRelayed, nodeVars
<1>8. TrackInv'
  <2> SUFFICES ASSUME NEW d \in Clones, Pending(d)'
               PROVE  d = cur' \/ \E i \in DOMAIN queue' : queue'[i] = d
    BY <1>1 DEF TrackInv, nodeVars
  <2>1. CASE d = c
    BY <1>2, <2>1
  <2>2. CASE d # c
    <3>1. Pending(d)
      BY <1>1, <1>3, <2>2 DEF Pending
    <3>2. d = cur \/ \E i \in DOMAIN queue : queue[i] = d
      BY <3>1 DEF Inv, TrackInv
    <3> QED BY <1>1, <1>2, <3>2 DEF nodeVars
  <2> QED BY <2>1, <2>2
<1> QED BY <1>4, <1>5, <1>6, <1>7, <1>8 DEF Inv

(* A publish returns: no command of the clone is left behind.              *)
LEMMA ReturnInv ==
    ASSUME Inv, NEW c \in Clones, SendFails(c) \/ Receive(c)
    PROVE  Inv'
<1>1. /\ UNCHANGED <<nodeVars, queue, reply, relayed, late, start, pkt, made>>
      /\ pc[c] \in {"send", "wait"} /\ ~Pending(c)
      /\ pc' = [pc EXCEPT ![c] = "idle"]
      /\ done' = done \cup {pkt[c]}
      /\ acked' \in {acked, acked \cup {pkt[c]}}
      /\ acked' # acked => reply[c] = "ok"
  BY DEF SendFails, Receive, Returns, Pending
<1>2. /\ pc'[c] = "idle" /\ \A d \in Clones : d # c => pc'[d] = pc[d]
      /\ pc' \in [Clones -> {"none", "idle", "send", "wait", "shut"}]
      /\ pkt[c] \in 1 .. made
  BY <1>1 DEF Inv, TypeOK, PacketInv
<1>3. TypeOK'
  BY <1>1, <1>2 DEF Inv, TypeOK, nodeVars
<1>4. CommandInv'
  BY <1>1, <1>2 DEF Inv, TypeOK, CommandInv, Pending, nodeVars
<1>5. PacketInv' /\ FreshInv'
  BY <1>1, <1>2 DEF Inv, TypeOK, PacketInv, FreshInv
<1>6. OkMeansRelayed'
  BY <1>1 DEF Inv, OkMeansRelayed, AnswerInv
<1>7. StartInv' /\ AnswerInv'
  BY <1>1, <1>2 DEF Inv, TypeOK, StartInv, AnswerInv, nodeVars
<1>8. TrackInv'
  BY <1>1, <1>2 DEF Inv, TrackInv, Pending, nodeVars
<1> QED BY <1>3, <1>4, <1>5, <1>6, <1>7, <1>8 DEF Inv

------------------------------------------------------------------------------
(* Every step keeps the invariant.                                         *)
LEMMA NextInv == Inv /\ [Next]_vars => Inv'
<1> SUFFICES ASSUME Inv, [Next]_vars PROVE Inv'
  OBVIOUS
<1>1. CASE UNCHANGED vars
  BY <1>1 DEF vars, nodeVars, callVars, Inv, TypeOK, StartInv, FreshInv,
              CommandInv, TrackInv, Pending, PacketInv, AnswerInv, OkMeansRelayed
<1>2. CASE NodeStep
  BY <1>2, QuietNodeInv, TakeInv, RelayInv, DropReceiverInv DEF NodeStep
<1>3. CASE Panics \/ RelayLate
  BY <1>3, PanicsInv, RelayLateInv
<1>4. CASE \/ StartReturns
           \/ \E c \in Clones : Shutdown(c) \/ \E d \in Clones : Clone(c, d)
  BY <1>4, HolderInv
<1>5. ASSUME NEW c \in Clones, Publish(c) PROVE Inv'
  BY <1>5, PublishInv
<1>6. ASSUME NEW c \in Clones, CallStep(c) PROVE Inv'
  BY <1>6, SendInv, ReturnInv DEF CallStep
<1>7. CASE Finished
  BY <1>1, <1>7 DEF Finished
<1> QED BY <1>1, <1>2, <1>3, <1>4, <1>5, <1>6, <1>7 DEF Next

(* The invariant holds throughout.                                         *)
LEMMA InvHolds == Spec => []Inv
BY InitInv, NextInv, PTL DEF Spec

------------------------------------------------------------------------------
(* Every state is well typed; the command channel keeps its capacity.      *)
THEOREM TypeCorrect == Spec => []TypeOK
<1>1. Inv => TypeOK
  BY DEF Inv
<1> QED BY <1>1, InvHolds, PTL

(* publish returns Ok only for packets libwaku has accepted.               *)
THEOREM OkIsRelayed == Spec => []OkMeansRelayed
<1>1. Inv => OkMeansRelayed
  BY DEF Inv
<1> QED BY <1>1, InvHolds, PTL

(* The node thread, wherever it ended or panicked, leaves no caller        *)
(* waiting for a reply that cannot come any more: whoever still waits has  *)
(* an answer or a closed reply channel to find.                            *)
THEOREM NoOrphanedCaller ==
    Spec => [](node = "over" => ~\E c \in Clones : Pending(c))
<1>1. Inv => (node = "over" => ~\E c \in Clones : Pending(c))
  <2> SUFFICES ASSUME Inv, node = "over", NEW c \in Clones, Pending(c) PROVE FALSE
    OBVIOUS
  <2>1. cur = None /\ queue = <<>>
    BY DEF Inv, TypeOK, TrackInv
  <2> QED BY <2>1, WakuAssumption DEF Inv, TrackInv
<1> QED BY <1>1, InvHolds, PTL

(* The relay's answer adds the packet of the command in hand, whose        *)
(* publish has not returned; libwaku by itself only adds late ones.        *)
LEMMA NextSettles == Inv /\ [Next]_vars => [Settles]_vars
<1> SUFFICES ASSUME Inv, Next PROVE Settles
  OBVIOUS
<1>1. CASE RelayAccepts \/ RelayFails
  <2>1. /\ relayed' \subseteq relayed \cup {pkt[cur]}
        /\ cur # None /\ cur \in Clones
    BY <1>1 DEF RelayAccepts, RelayFails, Inv, TypeOK
  <2>2. pkt[cur] \notin done
    BY <2>1 DEF Inv, CommandInv, Pending, PacketInv
  <2> QED BY <2>1, <2>2 DEF Settles
<1>2. CASE RelayLate
  BY <1>2 DEF RelayLate, Settles
<1>3. CASE ~(RelayAccepts \/ RelayFails \/ RelayLate)
  <2>1. relayed' = relayed
    BY <1>3 DEF Next, NodeStep, CallStep, BootFails, Boot, Ready, Take, LoopEnds,
                DropGuard, DropNode, DropReceiver, Panics, StartReturns, Publish,
                Send, SendFails, Receive, Returns, Shutdown, Clone, Finished, vars
  <2> QED BY <2>1 DEF Settles
<1> QED BY <1>1, <1>2, <1>3

(* Once publish has returned, its packet is never given to libwaku any     *)
(* more: it is out, or in libwaku's hands, or lost.                        *)
THEOREM AnswersAreFinal == Spec => ErrorIsFinal
<1>1. Inv /\ [Next]_vars => [Settles]_vars
  BY NextSettles
<1> QED BY <1>1, InvHolds, PTL DEF Spec, ErrorIsFinal
=============================================================================
