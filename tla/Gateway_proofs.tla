--------------------------- MODULE Gateway_proofs ---------------------------
(***************************************************************************)
(* Theorems about Gateway, for any sets of conversations, slots and tasks. *)
(***************************************************************************)
EXTENDS Gateway, TLAPS

------------------------------------------------------------------------------
(* Types.                                                                  *)

LEMMA InitTypeOK == Init => TypeOK
BY ConstantsAssumption
   DEF Init, TypeOK, RegTypeOK, PumpTypeOK, Idle, NoPacket, NoCmd, PumpAsleep,
       TaskState, FwdState, CmdState, PumpState

(* The operations on the registry and the library calls keep its types.    *)
LEMMA RegistryTypes ==
    ASSUME RegTypeOK, NEW c \in Convs,
           \/ install_conversation(c) \/ begin_pending_join(c)
           \/ abandon_pending_join(c) \/ evict(c) \/ emit_removed(c)
    PROVE  RegTypeOK'
<1> USE DEF RegTypeOK, Lifecycle, Event
<1>1. CASE install_conversation(c)
  BY <1>1 DEF install_conversation, Emit
<1>2. CASE begin_pending_join(c)
  BY <1>2 DEF begin_pending_join
<1>3. CASE abandon_pending_join(c)
  BY <1>3 DEF abandon_pending_join
<1>4. CASE evict(c)
  BY <1>4 DEF evict, cleanup_consensus_scope
<1>5. CASE emit_removed(c)
  BY <1>5 DEF emit_removed, Emit
<1>6. QED
  BY <1>1, <1>2, <1>3, <1>4, <1>5

LEMMA LibraryTypes ==
    ASSUME RegTypeOK, NEW e \in Entries, Progresses(e) \/ AsksToLeave(e)
    PROVE  RegTypeOK'
<1>1. /\ Append(events[e], "other") \in Seq(Event)
      /\ Append(events[e], "leaving") \in Seq(Event)
  BY DEF RegTypeOK, Event
<1>2. /\ UNCHANGED <<reg, st, lifecycle, scope>>
      /\ torn' \subseteq Entries
  BY DEF RegTypeOK, Progresses, AsksToLeave
<1>3. \/ events' = events
      \/ events' = [events EXCEPT ![e] = Append(@, "other")]
      \/ events' = [events EXCEPT ![e] = Append(@, "leaving")]
  BY DEF Progresses, AsksToLeave
<1>4. events' \in [Entries -> Seq(Event)]
  BY <1>1, <1>3 DEF RegTypeOK
<1>5. QED
  BY <1>2, <1>4 DEF RegTypeOK

(* The states a task can move to.                                          *)
LEMMA TaskTypes ==
    /\ Idle \in TaskState
    /\ \A c \in Convs :
        /\ Waiter(c) \in TaskState
        /\ Poller(c) \in TaskState
        /\ [Poller(c) EXCEPT !.pc = "remove"] \in TaskState
    /\ \A s \in TaskState :
        /\ s.conv \in Convs \cup {NoConv} /\ s.ent \in Entries \cup {NoEntry}
        /\ s.rounds \in 0 .. MaxJoinRounds
        /\ s.pc # "free" => s.conv \in Convs
        /\ s.pc = "run" => s.ent \in Entries
        /\ s.pc = "wait" => s.rounds < MaxJoinRounds
BY ConstantsAssumption DEF TaskState, Idle, Waiter, Poller

LEMMA BecomesTypes ==
    ASSUME task \in [Tasks -> TaskState], NEW t \in Tasks,
           NEW s \in TaskState, Becomes(t, s)
    PROVE  task' \in [Tasks -> TaskState]
BY DEF Becomes

(* A round of a task that still waits leaves it waiting or giving up.      *)
LEMMA WaitTypes ==
    ASSUME NEW s \in TaskState, s.pc = "wait",
           NEW n \in 0 .. MaxJoinRounds, NEW pc \in {"wait", "abandon"},
           pc = "wait" => n < MaxJoinRounds
    PROVE  [s EXCEPT !.rounds = n, !.pc = pc] \in TaskState
BY DEF TaskState

(* The states the pump can move to.                                        *)
LEMMA PumpTypes ==
    /\ PumpAsleep \in PumpState
    /\ [PumpAsleep EXCEPT !.pc = "visit"] \in PumpState
    /\ \A c \in Convs, e \in Entries :
        [pc |-> "drain", conv |-> c, ent |-> e, batch |-> <<>>] \in PumpState
    /\ \A c \in Convs, b \in Seq(Event) :
        [pc |-> "handle", conv |-> c, ent |-> NoEntry, batch |-> b] \in PumpState
    /\ \A s \in PumpState :
        /\ s.batch \in Seq(Event)
        /\ s.pc \in {"drain", "handle"} => s.conv \in Convs
        /\ s.pc = "drain" => s.ent \in Entries
        /\ s.pc = "handle" /\ s.batch # <<>> =>
            [s EXCEPT !.batch = Tail(@)] \in PumpState
<1>1. <<>> \in Seq(Event)
  OBVIOUS
<1>2. \A b \in Seq(Event) : b # <<>> => Tail(b) \in Seq(Event)
  OBVIOUS
<1>3. QED
  BY <1>1, <1>2, ConstantsAssumption DEF PumpState, PumpAsleep

LEMMA NextTypeOK == TypeOK /\ [Next]_vars => TypeOK'
<1> SUFFICES ASSUME TypeOK, [Next]_vars PROVE TypeOK'
  OBVIOUS
<1> USE ConstantsAssumption DEF TypeOK
<1>1. CASE UNCHANGED vars
  BY <1>1 DEF vars, regVars, pumpVars, RegTypeOK, PumpTypeOK
<1>2. ASSUME NEW c \in Convs, CreateStart(c) PROVE TypeOK'
  <2>1. RegTypeOK'
    BY <1>2, RegistryTypes DEF CreateStart
  <2>2. QED
    BY <1>2, <2>1 DEF CreateStart, CmdState, pumpVars, PumpTypeOK
<1>3. ASSUME NEW c \in Convs, JoinBegin(c) PROVE TypeOK'
  <2>1. RegTypeOK'
    BY <1>3, RegistryTypes DEF JoinBegin
  <2>2. QED
    BY <1>3, <2>1 DEF JoinBegin, CmdState, pumpVars, PumpTypeOK
<1>4. ASSUME NEW c \in Convs, FwdWelcome(c) PROVE TypeOK'
  <2>1. RegTypeOK'
    BY <1>4, RegistryTypes DEF FwdWelcome, regVars, RegTypeOK
  <2>2. kp' \in Nat
    BY <1>4 DEF FwdWelcome
  <2>3. fwd' \in FwdState
    BY <1>4 DEF FwdWelcome, NoPacket, FwdState
  <2>4. QED
    BY <1>4, <2>1, <2>2, <2>3 DEF FwdWelcome, pumpVars, PumpTypeOK
<1>5. CASE (\E c \in Convs : FwdTake(c)) \/ FwdLookup \/ FwdDrop
  <2>1. fwd' \in FwdState
    <3>1. CASE \E c \in Convs : FwdTake(c)
      BY <3>1 DEF FwdTake, FwdState
    <3>2. CASE FwdLookup
      BY <3>2 DEF FwdLookup, FwdState, RegTypeOK
    <3>3. CASE FwdDrop
      BY <3>3 DEF FwdDrop, NoPacket, FwdState
    <3>4. QED
      BY <1>5, <3>1, <3>2, <3>3
  <2>2. UNCHANGED <<regVars, topics, kp, cmd, task, pumpVars, shown>>
    BY <1>5 DEF FwdTake, FwdLookup, FwdDrop
  <2>3. QED
    BY <2>1, <2>2 DEF regVars, RegTypeOK, pumpVars, PumpTypeOK
<1>6. ASSUME NEW c \in Convs, PumpVisit(c) PROVE TypeOK'
  <2>1. pump' \in PumpState
    BY <1>6, PumpTypes DEF PumpVisit, PumpTypeOK, RegTypeOK
  <2>2. RegTypeOK'
    BY <1>6, PumpTypes DEF PumpVisit, regVars, RegTypeOK, PumpTypeOK
  <2>3. QED
    BY <1>6, <2>1, <2>2 DEF PumpVisit, pumpVars, PumpTypeOK
<1>7. ASSUME NEW t \in Tasks, WaitRound(t) PROVE TypeOK'
  <2>1. task[t] \in TaskState /\ task[t].conv \in Convs
    BY <1>7, TaskTypes DEF WaitRound
  <2>2. RegTypeOK'
    BY <1>7 DEF WaitRound, regVars, RegTypeOK
  <2>3. task' \in [Tasks -> TaskState]
    <3> DEFINE m == task[t].rounds + 1
               pc == IF m < MaxJoinRounds THEN "wait" ELSE "abandon"
    <3>1. CASE Live(task[t].conv)
      BY <1>7, <2>1, <3>1, TaskTypes, BecomesTypes DEF WaitRound
    <3>2. CASE ~Live(task[t].conv)
      <4>1. m \in 0 .. MaxJoinRounds /\ (pc = "wait" => m < MaxJoinRounds)
        BY <1>7, <2>1, TaskTypes DEF WaitRound
      <4>2. [task[t] EXCEPT !.rounds = m, !.pc = pc] \in TaskState
        BY <1>7, <2>1, <4>1, WaitTypes DEF WaitRound
      <4>3. Becomes(t, [task[t] EXCEPT !.rounds = m, !.pc = pc])
        BY <1>7, <3>2 DEF WaitRound
      <4>4. QED
        BY <4>2, <4>3, BecomesTypes
    <3>3. QED
      BY <3>1, <3>2
  <2>4. QED
    BY <1>7, <2>2, <2>3 DEF WaitRound, pumpVars, PumpTypeOK
<1>8. ASSUME NEW t \in Tasks, WaitAbandon(t) PROVE TypeOK'
  <2>1. task[t] \in TaskState /\ task[t].conv \in Convs
    BY <1>8, TaskTypes DEF WaitAbandon
  <2>2. RegTypeOK'
    BY <1>8, <2>1, RegistryTypes DEF WaitAbandon
  <2>3. task' \in [Tasks -> TaskState]
    BY <1>8, <2>1, TaskTypes, BecomesTypes DEF WaitAbandon
  <2>4. QED
    BY <1>8, <2>2, <2>3 DEF WaitAbandon, pumpVars, PumpTypeOK
<1>9. ASSUME NEW t \in Tasks, PollLookup(t) PROVE TypeOK'
  <2>1. task[t] \in TaskState /\ task[t].conv \in Convs
    BY <1>9, TaskTypes DEF PollLookup
  <2>2. RegTypeOK'
    BY <1>9 DEF PollLookup, regVars, RegTypeOK
  <2>3. task' \in [Tasks -> TaskState]
    <3>1. CASE reg[task[t].conv] = NoEntry
      BY <1>9, <3>1, <2>1, TaskTypes, BecomesTypes DEF PollLookup
    <3>2. CASE reg[task[t].conv] \in Entries
      <4>1. [task[t] EXCEPT !.pc = "run", !.ent = reg[task[t].conv]]
                \in TaskState
        BY <2>1, <3>2 DEF TaskState
      <4>2. QED
        BY <1>9, <3>2, <4>1, BecomesTypes DEF PollLookup
    <3>3. QED
      BY <2>1, <3>1, <3>2 DEF RegTypeOK
  <2>4. QED
    BY <1>9, <2>2, <2>3 DEF PollLookup, pumpVars, PumpTypeOK
<1>10. ASSUME NEW t \in Tasks, PollRun(t) PROVE TypeOK'
  <2>1. task[t] \in TaskState /\ task[t].conv \in Convs
    BY <1>10, TaskTypes DEF PollRun
  <2>2. RegTypeOK'
    <3>1. task[t].ent \in Entries
      BY <1>10, <2>1, TaskTypes DEF PollRun
    <3>2. QED
      BY <1>10, <3>1, LibraryTypes DEF PollRun, regVars, RegTypeOK
  <2>3. task' \in [Tasks -> TaskState]
    BY <1>10, <2>1, TaskTypes, BecomesTypes DEF PollRun
  <2>4. QED
    BY <1>10, <2>2, <2>3 DEF PollRun, pumpVars, PumpTypeOK
<1>11. ASSUME NEW t \in Tasks, PollLeave(t) PROVE TypeOK'
  <2>1. task[t] \in TaskState /\ task[t].conv \in Convs
    BY <1>11, TaskTypes DEF PollLeave
  <2>2. RegTypeOK'
    <3>1. task[t].ent \in Entries
      BY <1>11, <2>1, TaskTypes DEF PollLeave
    <3>2. QED
      BY <1>11, <3>1, LibraryTypes DEF PollLeave, regVars, RegTypeOK
  <2>3. task' \in [Tasks -> TaskState]
    BY <1>11, <2>1, TaskTypes, BecomesTypes DEF PollLeave
  <2>4. QED
    BY <1>11, <2>2, <2>3 DEF PollLeave, pumpVars, PumpTypeOK
<1>12. ASSUME NEW t \in Tasks, PollEvict(t) PROVE TypeOK'
  <2>1. task[t] \in TaskState /\ task[t].conv \in Convs
    BY <1>12, TaskTypes DEF PollEvict
  <2>2. RegTypeOK'
    BY <1>12, <2>1, RegistryTypes DEF PollEvict
  <2>3. task' \in [Tasks -> TaskState]
    <3>1. [task[t] EXCEPT !.pc = "emit"] \in TaskState
      BY <1>12, <2>1 DEF PollEvict, TaskState
    <3>2. QED
      BY <1>12, <3>1, TaskTypes, BecomesTypes, <2>1 DEF PollEvict
  <2>4. QED
    BY <1>12, <2>2, <2>3 DEF PollEvict, pumpVars, PumpTypeOK
<1>13. ASSUME NEW t \in Tasks, PollEmit(t) PROVE TypeOK'
  <2>1. task[t] \in TaskState /\ task[t].conv \in Convs
    BY <1>13, TaskTypes DEF PollEmit
  <2>2. RegTypeOK'
    BY <1>13, <2>1, RegistryTypes DEF PollEmit
  <2>3. task' \in [Tasks -> TaskState]
    BY <1>13, <2>1, TaskTypes, BecomesTypes DEF PollEmit
  <2>4. QED
    BY <1>13, <2>2, <2>3 DEF PollEmit, pumpVars, PumpTypeOK
<1>14. CASE ListGroups
  BY <1>14 DEF ListGroups, CmdState, regVars, RegTypeOK, pumpVars, PumpTypeOK
<1>15. CASE CreateSpawn
  <2>1. cmd.conv \in Convs
    BY <1>15 DEF CreateSpawn, CmdState
  <2>2. task' \in [Tasks -> TaskState]
    BY <1>15, <2>1, TaskTypes DEF CreateSpawn, FreeTasks
  <2>3. cmd' \in CmdState
    BY <1>15, <2>1 DEF CreateSpawn, CmdState
  <2>4. QED
    BY <1>15, <2>1, <2>2, <2>3 DEF CreateSpawn, regVars, RegTypeOK, pumpVars, PumpTypeOK
<1>16. CASE JoinSubscribe
  BY <1>16 DEF JoinSubscribe, CmdState, regVars, RegTypeOK, pumpVars, PumpTypeOK
<1>17. CASE JoinAnnounce
  <2>1. cmd.conv \in Convs
    BY <1>17 DEF JoinAnnounce, CmdState
  <2>2. task' \in [Tasks -> TaskState]
    BY <1>17, <2>1, TaskTypes DEF JoinAnnounce, FreeTasks
  <2>3. cmd' \in CmdState
    BY <1>17, <2>1 DEF JoinAnnounce, CmdState
  <2>4. QED
    BY <1>17, <2>1, <2>2, <2>3 DEF JoinAnnounce, regVars, RegTypeOK, pumpVars, PumpTypeOK
<1>18. CASE JoinFails
  BY <1>18 DEF JoinFails, CmdState, NoCmd, regVars, RegTypeOK, pumpVars, PumpTypeOK
<1>19. CASE PushGroups
  BY <1>19 DEF PushGroups, CmdState, NoCmd, Listed, regVars, RegTypeOK, pumpVars, PumpTypeOK
<1>20. CASE FwdProcess
  <2>1. fwd.conv \in Convs
    BY <1>20 DEF FwdProcess, FwdState
  <2>2. RegTypeOK'
    <3>1. fwd.ent \in Entries
      BY <1>20 DEF FwdProcess, FwdState
    <3>2. QED
      BY <1>20, <3>1, LibraryTypes DEF FwdProcess, regVars, RegTypeOK
  <2>3. fwd' \in FwdState
    BY <1>20, <2>1 DEF FwdProcess, FwdState, NoPacket
  <2>4. QED
    BY <1>20, <2>2, <2>3 DEF FwdProcess, pumpVars, PumpTypeOK
<1>21. CASE FwdLeave
  <2>1. fwd.conv \in Convs
    BY <1>21 DEF FwdLeave, FwdState
  <2>2. RegTypeOK'
    <3>1. fwd.ent \in Entries
      BY <1>21 DEF FwdLeave, FwdState
    <3>2. QED
      BY <1>21, <3>1, LibraryTypes DEF FwdLeave, regVars, RegTypeOK
  <2>3. fwd' \in FwdState
    BY <1>21, <2>1 DEF FwdLeave, FwdState, NoPacket
  <2>4. QED
    BY <1>21, <2>2, <2>3 DEF FwdLeave, pumpVars, PumpTypeOK
<1>22. CASE FwdEvict
  <2>1. fwd.conv \in Convs
    BY <1>22 DEF FwdEvict, FwdState
  <2>2. RegTypeOK'
    BY <1>22, <2>1, RegistryTypes DEF FwdEvict
  <2>3. fwd' \in FwdState
    BY <1>22, <2>1 DEF FwdEvict, FwdState, NoPacket
  <2>4. QED
    BY <1>22, <2>2, <2>3 DEF FwdEvict, pumpVars, PumpTypeOK
<1>23. CASE FwdEmit
  <2>1. fwd.conv \in Convs
    BY <1>23 DEF FwdEmit, FwdState
  <2>2. RegTypeOK'
    BY <1>23, <2>1, RegistryTypes DEF FwdEmit
  <2>3. fwd' \in FwdState
    BY <1>23, <2>1 DEF FwdEmit, FwdState, NoPacket
  <2>4. QED
    BY <1>23, <2>2, <2>3 DEF FwdEmit, pumpVars, PumpTypeOK
<1>24. CASE PumpDrain
  <2>1. pump.conv \in Convs /\ pump.ent \in Entries
    BY <1>24, PumpTypes DEF PumpDrain, PumpTypeOK
  <2>2. events[pump.ent] \in Seq(Event) /\ <<>> \in Seq(Event)
    BY <2>1 DEF RegTypeOK
  <2>3. pump' \in PumpState
    <3>1. [pc |-> "handle", conv |-> pump.conv, ent |-> NoEntry,
           batch |-> events[pump.ent]] \in PumpState
      BY <2>1, <2>2, PumpTypes
    <3>2. [PumpAsleep EXCEPT !.pc = "visit"] \in PumpState
      BY PumpTypes
    <3>3. \/ pump' = [PumpAsleep EXCEPT !.pc = "visit"]
          \/ pump' = [pc |-> "handle", conv |-> pump.conv, ent |-> NoEntry,
                      batch |-> events[pump.ent]]
      BY <1>24 DEF PumpDrain
    <3>4. QED
      BY <3>1, <3>2, <3>3
  <2>4. events' \in [Entries -> Seq(Event)]
    BY <1>24, <2>2 DEF PumpDrain, RegTypeOK
  <2>5. QED
    BY <1>24, <2>3, <2>4 DEF PumpDrain, RegTypeOK, PumpTypeOK
<1>25. CASE PumpLifecycle
  <2>1. pump' \in PumpState
    BY <1>25, PumpTypes DEF PumpLifecycle, PumpTypeOK, RegTypeOK
  <2>2. RegTypeOK'
    BY <1>25, PumpTypes DEF PumpLifecycle, regVars, RegTypeOK, PumpTypeOK
  <2>3. QED
    BY <1>25, <2>1, <2>2 DEF PumpLifecycle, pumpVars, PumpTypeOK, Announced, Replay
<1>26. CASE PumpHandle
  <2>1. pump' \in PumpState
    BY <1>26, PumpTypes DEF PumpHandle, PumpTypeOK, RegTypeOK
  <2>2. RegTypeOK'
    BY <1>26, PumpTypes DEF PumpHandle, regVars, RegTypeOK, PumpTypeOK
  <2>3. QED
    BY <1>26, <2>1, <2>2 DEF PumpHandle, pumpVars, PumpTypeOK
<1>27. CASE PumpNext
  <2>1. pump' \in PumpState
    BY <1>27, PumpTypes DEF PumpNext, PumpTypeOK, RegTypeOK
  <2>2. RegTypeOK'
    BY <1>27, PumpTypes DEF PumpNext, regVars, RegTypeOK, PumpTypeOK
  <2>3. QED
    BY <1>27, <2>1, <2>2 DEF PumpNext, pumpVars, PumpTypeOK
<1>28. CASE PumpSleep
  <2>1. pump' \in PumpState
    BY <1>28, PumpTypes DEF PumpSleep, PumpTypeOK, RegTypeOK
  <2>2. RegTypeOK'
    BY <1>28, PumpTypes DEF PumpSleep, regVars, RegTypeOK, PumpTypeOK
  <2>3. QED
    BY <1>28, <2>1, <2>2 DEF PumpSleep, pumpVars, PumpTypeOK
<1>29. QED
  BY <1>1, <1>2, <1>3, <1>4, <1>5, <1>6, <1>7, <1>8, <1>9, <1>10, <1>11,
     <1>12, <1>13, <1>14, <1>15, <1>16, <1>17, <1>18, <1>19, <1>20, <1>21,
     <1>22, <1>23, <1>24, <1>25, <1>26, <1>27, <1>28
     DEF Next, CmdStep, TaskStep, FwdStep, PumpStep

(* Every variable of the gateway keeps its type: the name every finalizer, *)
(* task and packet carries is a conversation, the slot it uses exists, and *)
(* a join waits at most MAX_JOIN_ROUNDS rounds.                            *)
THEOREM TypeCorrect == Spec => []TypeOK
BY InitTypeOK, NextTypeOK, PTL DEF Spec

------------------------------------------------------------------------------
(* Replaying lifecycle events.                                             *)

(* One more event decides about its own conversation and no other.         *)
LEMMA ReplayAppend ==
    ASSUME NEW f, NEW l \in Seq(Lifecycle), NEW k, NEW c \in Convs
    PROVE  LET m == Append(l, [kind |-> k, conv |-> c]) IN
           /\ k = "Created" => Replay(f, m) = Replay(f, l) \cup {c}
           /\ k # "Created" => Replay(f, m) = Replay(f, l) \ {c}
<1> DEFINE x == [kind |-> k, conv |-> c]
           m == Append(l, x)
<1>1. /\ DOMAIN l = 1 .. Len(l) /\ Len(l) \in Nat
      /\ DOMAIN m = 1 .. Len(l) + 1
      /\ \A i \in 1 .. Len(l) : m[i] = l[i]
      /\ m[Len(l) + 1] = x
  OBVIOUS
<1>2. Len(l) + 1 \in Mentions(m, c)
  BY <1>1 DEF Mentions
<1>3. \A j \in Mentions(m, c) : j <= Len(l) + 1
  BY <1>1 DEF Mentions
<1>4. \A i \in Mentions(m, c) :
        (\A j \in Mentions(m, c) : j <= i) => i = Len(l) + 1
  BY <1>1, <1>2 DEF Mentions
<1>5. c \in Replay(f, m) <=> k = "Created"
  <2>1. m[Len(l) + 1].kind = k
    BY <1>1
  <2>2. QED
    BY <1>2, <1>3, <1>4, <2>1 DEF Replay
<1>6. ASSUME NEW d \in Convs, d # c
      PROVE  d \in Replay(f, m) <=> d \in Replay(f, l)
  <2>1. x.conv # d
    BY <1>6
  <2>2. Mentions(m, d) = Mentions(l, d)
    BY <1>1, <2>1 DEF Mentions
  <2>3. \A i \in Mentions(l, d) : m[i].kind = l[i].kind
    BY <1>1 DEF Mentions
  <2>4. QED
    BY <2>2, <2>3 DEF Replay
<1>7. Replay(f, m) \subseteq Convs /\ Replay(f, l) \subseteq Convs
  BY DEF Replay
<1>8. QED
  BY <1>5, <1>6, <1>7

(* What the pump has applied is not applied again.                         *)
LEMMA ReplayEmpty ==
    ASSUME NEW f \in SUBSET Convs PROVE Replay(f, <<>>) = f
<1>1. \A c \in Convs : Mentions(<<>>, c) = {}
  BY DEF Mentions
<1>2. QED
  BY <1>1 DEF Replay

------------------------------------------------------------------------------
(* The inductive invariant.                                                *)

(* A thread that has looked up the slot of c and not used it yet: the slot *)
(* is no other conversation's, and if the registry has dropped it then the *)
(* library was done with it, or never had it.                              *)
HolderOK(c, e) ==
    /\ \A d \in Convs : reg[d] = e => d = c
    /\ reg[c] = e \/ e \in torn \/ st[e] = "pending"

SlotInv ==
    /\ \A c, d \in Convs : reg[c] = reg[d] /\ reg[c] # NoEntry => c = d
    /\ \A t \in Tasks : task[t].pc = "run" => HolderOK(task[t].conv, task[t].ent)
    /\ fwd.pc = "process" => HolderOK(fwd.conv, fwd.ent)

Finalizing(s, c) == s.pc \in {"remove", "emit"} /\ s.conv = c

\* No two of the tasks and the forwarder finalize one name at a time.
SingleFinalizer ==
    \A c \in Convs, t \in Tasks : Finalizing(task[t], c) =>
        /\ ~Finalizing(fwd, c)
        /\ \A u \in Tasks \ {t} : ~Finalizing(task[u], c)

FinalizerInv ==
    /\ FinalizerOwnsSlot
    /\ SingleFinalizer
    /\ \A c \in Convs : Emitting(c) => ~Live(c)

Inv == SlotInv /\ FinalizerInv /\ FanoutMatchesRegistry

LEMMA InitInv == Init => Inv
<1> SUFFICES ASSUME Init PROVE Inv
  OBVIOUS
<1> USE DEF Init, Idle, NoPacket
<1>1. SlotInv
  BY DEF SlotInv
<1>2. FinalizerInv
  BY DEF FinalizerInv, FinalizerOwnsSlot, SingleFinalizer, Finalizing,
         Removing, Emitting
<1>3. FanoutMatchesRegistry
  <2>1. Announced = {}
    BY ReplayEmpty DEF Announced
  <2>2. QED
    BY <2>1 DEF FanoutMatchesRegistry, Live, Emitting
<1>4. QED
  BY <1>1, <1>2, <1>3 DEF Inv

(* Steps that touch no slot, no finalizer and no holder.                   *)
LEMMA StillInv ==
    ASSUME Inv, UNCHANGED <<reg, st, torn, task, fwd>>, Announced' = Announced
    PROVE  Inv'
BY DEF Inv, SlotInv, HolderOK, FinalizerInv, FinalizerOwnsSlot,
       SingleFinalizer, Finalizing, Removing, Emitting, Live,
       FanoutMatchesRegistry

LEMMA AnnouncedSame ==
    UNCHANGED <<lifecycle, fanouts>> => Announced' = Announced
BY DEF Announced, Replay, Mentions

(* A task moves between states that finalize nothing.                      *)
LEMMA QuietTask ==
    ASSUME TypeOK, Inv, NEW t \in Tasks, NEW s, Becomes(t, s),
           task[t].pc \notin {"remove", "emit"},
           s.pc \notin {"remove", "emit"},
           s.pc = "run" => HolderOK(s.conv, s.ent),
           UNCHANGED <<reg, st, torn, fwd, lifecycle, fanouts>>
    PROVE  Inv'
<1>1. /\ task'[t] = s
      /\ \A u \in Tasks \ {t} : task'[u] = task[u]
  BY DEF TypeOK, Becomes
<1>2. SlotInv'
  BY <1>1 DEF Inv, SlotInv, HolderOK
<1>3. \A c \in Convs : /\ Removing(c)' <=> Removing(c)
                       /\ Emitting(c)' <=> Emitting(c)
  BY <1>1 DEF Removing, Emitting
<1>4. \A c \in Convs, u \in Tasks :
        Finalizing(task[u], c)' <=> Finalizing(task[u], c)
  BY <1>1 DEF Finalizing
<1>5. FinalizerInv'
  BY <1>3, <1>4 DEF Inv, FinalizerInv, FinalizerOwnsSlot, SingleFinalizer,
                    Finalizing, Live
<1>6. FanoutMatchesRegistry'
  BY <1>3, AnnouncedSame DEF Inv, FanoutMatchesRegistry, Live
<1>7. QED
  BY <1>2, <1>5, <1>6 DEF Inv

(* The forwarder takes up or finishes a packet that asks for no leave.     *)
LEMMA QuietForwarder ==
    ASSUME TypeOK, Inv,
           fwd.pc \in {"idle", "take", "process"},
           fwd'.pc \in {"idle", "take", "process"},
           fwd'.pc = "process" => HolderOK(fwd'.conv, fwd'.ent),
           UNCHANGED <<reg, st, torn, task, lifecycle, fanouts>>
    PROVE  Inv'
<1>1. SlotInv'
  BY DEF Inv, SlotInv, HolderOK
<1>2. \A c \in Convs : /\ Removing(c)' <=> Removing(c)
                       /\ Emitting(c)' <=> Emitting(c)
  BY DEF Removing, Emitting
<1>3. \A c \in Convs : Finalizing(fwd, c)' <=> Finalizing(fwd, c)
  BY DEF Finalizing
<1>4. FinalizerInv'
  BY <1>2, <1>3 DEF Inv, FinalizerInv, FinalizerOwnsSlot, SingleFinalizer,
                    Finalizing, Live
<1>5. FanoutMatchesRegistry'
  BY <1>2, AnnouncedSame DEF Inv, FanoutMatchesRegistry, Live
<1>6. QED
  BY <1>1, <1>4, <1>5 DEF Inv

(* A slot goes live under the exclusive lock: nobody holds a slot, nobody  *)
(* is between evicting and reporting, and no finalizer waits for c.        *)
LEMMA InstallInv ==
    ASSUME TypeOK, Inv, NEW c \in Convs, ~Live(c), Exclusive,
           install_conversation(c), UNCHANGED <<task, fanouts>>,
           fwd'.pc \in {"idle", "take"}
    PROVE  Inv'
<1>1. PICK e \in Entries :
        /\ IF reg[c] = NoEntry THEN Fresh(e) ELSE e = reg[c]
        /\ reg' = [reg EXCEPT ![c] = e]
        /\ st' = [st EXCEPT ![e] = "live"]
        /\ torn' = torn \ {e}
  BY DEF install_conversation
<1>2. /\ reg'[c] = e /\ e # NoEntry
      /\ \A d \in Convs \ {c} : reg'[d] = reg[d] /\ reg[d] # e
  BY <1>1, ConstantsAssumption DEF TypeOK, RegTypeOK, Inv, SlotInv, Fresh
<1>3. /\ Live(c)'
      /\ \A d \in Convs \ {c} : /\ Live(d)' <=> Live(d)
                                /\ reg[d] \in torn <=> reg'[d] \in torn'
  BY <1>1, <1>2 DEF Live, TypeOK, RegTypeOK
<1>4. SlotInv'
  BY <1>2 DEF SlotInv, Inv, Exclusive
<1>5. /\ \A d \in Convs : ~Emitting(d) /\ ~Emitting(d)'
      /\ \A d \in Convs : Removing(d)' <=> Removing(d)
      /\ ~Removing(c)
  BY DEF Exclusive, Emitting, Removing, Inv, FinalizerInv, FinalizerOwnsSlot
<1>6. FinalizerInv'
  <2>1. FinalizerOwnsSlot'
    BY <1>3, <1>5 DEF Inv, FinalizerInv, FinalizerOwnsSlot
  <2>2. SingleFinalizer'
    BY DEF Inv, FinalizerInv, SingleFinalizer, Finalizing
  <2>3. QED
    BY <1>5, <2>1, <2>2 DEF FinalizerInv
<1>7. FanoutMatchesRegistry'
  <2>1. Announced' = Announced \cup {c}
    BY ReplayAppend DEF Announced, install_conversation, Emit, TypeOK, RegTypeOK
  <2>2. QED
    BY <1>3, <1>5, <2>1 DEF Inv, FanoutMatchesRegistry
<1>8. QED
  BY <1>4, <1>6, <1>7 DEF Inv

(* A pending slot appears under a free name.                               *)
LEMMA BeginInv ==
    ASSUME TypeOK, Inv, NEW c \in Convs, begin_pending_join(c),
           UNCHANGED <<task, fwd, fanouts>>
    PROVE  Inv'
<1>1. PICK e \in Entries :
        /\ Fresh(e)
        /\ reg' = [reg EXCEPT ![c] = e]
        /\ st' = [st EXCEPT ![e] = "pending"]
        /\ torn' = torn \ {e}
  BY DEF begin_pending_join
<1>2. /\ reg[c] = NoEntry /\ reg'[c] = e /\ e # NoEntry /\ st'[e] = "pending"
      /\ \A d \in Convs \ {c} : reg'[d] = reg[d] /\ reg[d] # e
      /\ \A x \in Entries \ {e} : /\ st'[x] = st[x]
                                  /\ x \in torn' <=> x \in torn
  BY <1>1, ConstantsAssumption
     DEF TypeOK, RegTypeOK, Fresh, begin_pending_join
<1>3. /\ ~Live(c) /\ ~Live(c)'
      /\ \A d \in Convs \ {c} : /\ Live(d)' <=> Live(d)
                                /\ reg[d] \in torn <=> reg'[d] \in torn'
  BY <1>1, <1>2 DEF Live, TypeOK, RegTypeOK
<1>4. ASSUME NEW d \in Convs, NEW x \in Entries, x # e, HolderOK(d, x)
      PROVE  HolderOK(d, x)'
  <2>1. \A y \in Convs : reg'[y] = x => y = d
    BY <1>2, <1>4 DEF HolderOK
  <2>2. reg[d] = x => reg'[d] = x
    BY <1>2, <1>4, ConstantsAssumption
  <2>3. QED
    BY <1>2, <1>4, <2>1, <2>2 DEF HolderOK
<1>5. SlotInv'
  <2>1. \A y, d \in Convs : reg'[y] = reg'[d] /\ reg'[y] # NoEntry => y = d
    BY <1>2 DEF Inv, SlotInv
  <2>2. ASSUME NEW t \in Tasks, task[t].pc = "run"
        PROVE  HolderOK(task[t].conv, task[t].ent)'
    <3>1. task[t].conv \in Convs /\ task[t].ent \in Entries /\ task[t].ent # e
      BY <1>1, <2>2, TaskTypes DEF TypeOK, Fresh
    <3>2. QED
      BY <1>4, <2>2, <3>1 DEF Inv, SlotInv, HolderOK
  <2>3. ASSUME fwd.pc = "process" PROVE HolderOK(fwd.conv, fwd.ent)'
    <3>1. fwd.conv \in Convs /\ fwd.ent \in Entries /\ fwd.ent # e
      BY <1>1, <2>3 DEF TypeOK, Fresh, FwdState
    <3>2. QED
      BY <1>4, <2>3, <3>1 DEF Inv, SlotInv, HolderOK
  <2>4. QED
    BY <2>1, <2>2, <2>3 DEF SlotInv
<1>6. \A d \in Convs : /\ Removing(d)' <=> Removing(d)
                       /\ Emitting(d)' <=> Emitting(d)
  BY DEF Removing, Emitting
<1>7. FinalizerInv'
  <2>1. FinalizerOwnsSlot'
    BY <1>3, <1>6 DEF Inv, FinalizerInv, FinalizerOwnsSlot
  <2>2. SingleFinalizer'
    BY DEF Inv, FinalizerInv, SingleFinalizer, Finalizing
  <2>3. QED
    BY <1>3, <1>6, <2>1, <2>2 DEF FinalizerInv, Inv
<1>8. FanoutMatchesRegistry'
  <2>1. Announced' = Announced
    BY AnnouncedSame DEF begin_pending_join
  <2>2. QED
    BY <1>3, <1>6, <2>1 DEF Inv, FanoutMatchesRegistry
<1>9. QED
  BY <1>5, <1>7, <1>8 DEF Inv

(* The slot of c is dropped while its conversation is not the library's    *)
(* any more, or not yet: what holders and other names rely on remains.     *)
LEMMA DropSlot ==
    ASSUME TypeOK, SlotInv, NEW c \in Convs,
           reg[c] # NoEntry => reg[c] \in torn \/ st[reg[c]] = "pending",
           reg' = [reg EXCEPT ![c] = NoEntry],
           UNCHANGED <<st, torn>>
    PROVE  /\ \A y, d \in Convs : reg'[y] = reg'[d] /\ reg'[y] # NoEntry => y = d
           /\ \A d \in Convs, x \in Entries : HolderOK(d, x) => HolderOK(d, x)'
           /\ ~Live(c)'
           /\ \A d \in Convs \ {c} : /\ Live(d)' <=> Live(d)
                                     /\ reg'[d] = reg[d]
<1>1. /\ reg'[c] = NoEntry
      /\ \A d \in Convs \ {c} : reg'[d] = reg[d]
  BY DEF TypeOK, RegTypeOK
<1>2. ASSUME NEW d \in Convs, NEW x \in Entries, HolderOK(d, x)
      PROVE  HolderOK(d, x)'
  <2>1. \A y \in Convs : reg'[y] = x => y = d
    BY <1>1, <1>2, ConstantsAssumption DEF HolderOK
  <2>2. reg'[d] = x \/ x \in torn \/ st[x] = "pending"
    BY <1>1, <1>2, ConstantsAssumption DEF HolderOK
  <2>3. QED
    BY <2>1, <2>2 DEF HolderOK
<1>3. QED
  BY <1>1, <1>2 DEF SlotInv, Live

(* A timed-out join drops its name's slot only while it is pending.        *)
LEMMA AbandonInv ==
    ASSUME TypeOK, Inv, NEW t \in Tasks, WaitAbandon(t)
    PROVE  Inv'
<1>1. PICK c \in Convs : c = task[t].conv
  BY TaskTypes DEF TypeOK, WaitAbandon
<1>2. /\ task'[t] = Idle /\ task[t].pc = "abandon"
      /\ \A u \in Tasks \ {t} : task'[u] = task[u]
  BY DEF WaitAbandon, Becomes, TypeOK
<1>3. CASE ~Pending(c)
  <2>1. UNCHANGED <<reg, st, torn, fwd, lifecycle, fanouts>>
    BY <1>1, <1>3 DEF WaitAbandon, abandon_pending_join, pumpVars
  <2>2. QED
    BY <2>1, QuietTask DEF WaitAbandon, Idle
<1>4. CASE Pending(c)
  <2>1. /\ reg' = [reg EXCEPT ![c] = NoEntry]
        /\ UNCHANGED <<st, torn, fwd, lifecycle, fanouts>>
    BY <1>1, <1>4 DEF WaitAbandon, abandon_pending_join, pumpVars
  <2>2. st[reg[c]] = "pending" /\ ~Live(c)
    BY <1>4 DEF Pending, Live
  <2>3. /\ \A y, d \in Convs : reg'[y] = reg'[d] /\ reg'[y] # NoEntry => y = d
        /\ \A d \in Convs, x \in Entries : HolderOK(d, x) => HolderOK(d, x)'
        /\ ~Live(c)'
        /\ \A d \in Convs \ {c} : (Live(d)' <=> Live(d)) /\ reg'[d] = reg[d]
    BY <1>1, <2>1, <2>2, DropSlot DEF Inv
  <2>4. \A d \in Convs : Live(d)' <=> Live(d)
    BY <2>2, <2>3
  <2>5. SlotInv'
    <3>1. ASSUME NEW u \in Tasks, task'[u].pc = "run"
          PROVE  HolderOK(task[u].conv, task[u].ent)'
      <4>1. u # t /\ task'[u] = task[u] /\ task[u].pc = "run"
        BY <1>2, <3>1 DEF Idle
      <4>2. task[u].conv \in Convs /\ task[u].ent \in Entries
        BY <4>1, TaskTypes DEF TypeOK
      <4>3. HolderOK(task[u].conv, task[u].ent)
        BY <4>1 DEF Inv, SlotInv
      <4>4. HolderOK(task[u].conv, task[u].ent)'
        BY <2>1, <2>3, <4>1, <4>2, <4>3 DEF HolderOK
      <4>5. QED
        BY <4>4
    <3>2. ASSUME fwd.pc = "process" PROVE HolderOK(fwd.conv, fwd.ent)'
      <4>1. fwd.conv \in Convs /\ fwd.ent \in Entries
        BY <3>2 DEF TypeOK, FwdState
      <4>2. QED
        BY <2>1, <2>3, <3>2, <4>1 DEF Inv, SlotInv, HolderOK
    <3>3. QED
      BY <2>1, <2>3, <3>1, <3>2 DEF SlotInv
  <2>6. \A d \in Convs : /\ Removing(d)' <=> Removing(d)
                         /\ Emitting(d)' <=> Emitting(d)
    BY <1>2, <2>1 DEF Removing, Emitting, Idle
  <2>7. FinalizerInv'
    <3>1. FinalizerOwnsSlot'
      BY <2>1, <2>2, <2>3, <2>6 DEF Inv, FinalizerInv, FinalizerOwnsSlot
    <3>2. SingleFinalizer'
      BY <1>2, <2>1 DEF Inv, FinalizerInv, SingleFinalizer, Finalizing, Idle
    <3>3. QED
      BY <2>4, <2>6, <3>1, <3>2 DEF Inv, FinalizerInv
  <2>8. FanoutMatchesRegistry'
    BY <2>1, <2>4, <2>6, AnnouncedSame DEF Inv, FanoutMatchesRegistry
  <2>9. QED
    BY <2>5, <2>7, <2>8 DEF Inv
<1>5. QED
  BY <1>3, <1>4

(* The library asks the holder of e to leave.  It had not asked before, so *)
(* the slot is still registered and no finalizer exists for its name.      *)
LEMMA AsksInv ==
    ASSUME TypeOK, Inv, ~RepeatsLeave,
           NEW c \in Convs, NEW e \in Entries,
           HolderOK(c, e), st[e] = "live", AsksToLeave(e)
    PROVE  /\ reg[c] = e /\ Live(c) /\ e \notin torn
           /\ ~Removing(c) /\ ~Emitting(c)
           /\ torn' = torn \cup {e} /\ UNCHANGED <<reg, st, lifecycle>>
           /\ \A d \in Convs : Live(d)' <=> Live(d)
           /\ \A d \in Convs, x \in Entries : HolderOK(d, x) => HolderOK(d, x)'
<1>1. e \notin torn /\ torn' = torn \cup {e} /\ UNCHANGED <<reg, st, lifecycle>>
  BY DEF AsksToLeave
<1>2. reg[c] = e /\ Live(c)
  BY <1>1, ConstantsAssumption DEF HolderOK, Live
<1>3. ~Removing(c) /\ ~Emitting(c)
  BY <1>1, <1>2 DEF Inv, FinalizerInv, FinalizerOwnsSlot
<1>4. QED
  BY <1>1, <1>2, <1>3 DEF Live, HolderOK

LEMMA PollLeaveInv ==
    ASSUME TypeOK, Inv, ~RepeatsLeave, NEW t \in Tasks, PollLeave(t)
    PROVE  Inv'
<1> DEFINE c == task[t].conv
           e == task[t].ent
<1>1. c \in Convs /\ e \in Entries
  BY TaskTypes DEF TypeOK, PollLeave
<1>2. HolderOK(c, e) /\ st[e] = "live" /\ AsksToLeave(e)
  BY DEF PollLeave, Inv, SlotInv
<1>3. /\ reg[c] = e /\ Live(c) /\ e \notin torn
      /\ ~Removing(c) /\ ~Emitting(c)
      /\ torn' = torn \cup {e} /\ UNCHANGED <<reg, st, lifecycle>>
      /\ \A d \in Convs : Live(d)' <=> Live(d)
      /\ \A d \in Convs, x \in Entries : HolderOK(d, x) => HolderOK(d, x)'
  BY <1>1, <1>2, AsksInv
<1>4. /\ task'[t].conv = c /\ task'[t].pc \in {"remove", "poll"}
      /\ \A u \in Tasks \ {t} : task'[u] = task[u]
      /\ task[t].pc = "run"
      /\ UNCHANGED <<fwd, fanouts>>
  BY DEF PollLeave, Becomes, Poller, TypeOK, pumpVars
<1>5. SlotInv'
  <2>1. ASSUME NEW u \in Tasks, task'[u].pc = "run"
        PROVE  HolderOK(task[u].conv, task[u].ent)'
    <3>1. u # t /\ task'[u] = task[u] /\ task[u].pc = "run"
      BY <1>4, <2>1
    <3>2. task[u].conv \in Convs /\ task[u].ent \in Entries
      BY <3>1, TaskTypes DEF TypeOK
    <3>3. HolderOK(task[u].conv, task[u].ent)
      BY <3>1 DEF Inv, SlotInv
    <3>4. QED
      BY <1>3, <3>1, <3>2, <3>3 DEF HolderOK
  <2>2. ASSUME fwd.pc = "process" PROVE HolderOK(fwd.conv, fwd.ent)'
    <3>1. fwd.conv \in Convs /\ fwd.ent \in Entries
      BY <2>2 DEF TypeOK, FwdState
    <3>2. QED
      BY <1>3, <1>4, <2>2, <3>1 DEF Inv, SlotInv, HolderOK
  <2>3. QED
    BY <1>3, <1>4, <2>1, <2>2 DEF SlotInv, Inv
<1>6. /\ \A d \in Convs : Emitting(d)' <=> Emitting(d)
      /\ \A d \in Convs \ {c} : Removing(d)' <=> Removing(d)
  BY <1>4 DEF Removing, Emitting
<1>7. FinalizerInv'
  <2>1. FinalizerOwnsSlot'
    BY <1>3, <1>6 DEF Inv, FinalizerInv, FinalizerOwnsSlot, Live
  <2>2. SingleFinalizer'
    <3>1. ~Finalizing(fwd, c) /\ \A u \in Tasks : ~Finalizing(task[u], c)
      BY <1>3 DEF Finalizing, Removing, Emitting
    <3>2. QED
      BY <1>4, <3>1 DEF Inv, FinalizerInv, SingleFinalizer, Finalizing
  <2>3. QED
    BY <1>3, <1>6, <2>1, <2>2 DEF Inv, FinalizerInv
<1>8. FanoutMatchesRegistry'
  BY <1>3, <1>4, <1>6, AnnouncedSame DEF Inv, FanoutMatchesRegistry
<1>9. QED
  BY <1>5, <1>7, <1>8 DEF Inv

LEMMA FwdLeaveInv ==
    ASSUME TypeOK, Inv, ~RepeatsLeave, FwdLeave
    PROVE  Inv'
<1> DEFINE c == fwd.conv
           e == fwd.ent
<1>1. c \in Convs /\ e \in Entries
  BY DEF TypeOK, FwdLeave, FwdState
<1>2. HolderOK(c, e) /\ st[e] = "live" /\ AsksToLeave(e)
  BY DEF FwdLeave, Inv, SlotInv
<1>3. /\ reg[c] = e /\ Live(c) /\ e \notin torn
      /\ ~Removing(c) /\ ~Emitting(c)
      /\ torn' = torn \cup {e} /\ UNCHANGED <<reg, st, lifecycle>>
      /\ \A d \in Convs : Live(d)' <=> Live(d)
      /\ \A d \in Convs, x \in Entries : HolderOK(d, x) => HolderOK(d, x)'
  BY <1>1, <1>2, AsksInv
<1>4. /\ fwd'.conv = c /\ fwd'.pc = "remove" /\ fwd.pc = "process"
      /\ UNCHANGED <<task, fanouts>>
  BY DEF FwdLeave, pumpVars
<1>5. SlotInv'
  <2>1. ASSUME NEW u \in Tasks, task[u].pc = "run"
        PROVE  HolderOK(task[u].conv, task[u].ent)'
    <3>1. task[u].conv \in Convs /\ task[u].ent \in Entries
      BY <2>1, TaskTypes DEF TypeOK
    <3>2. HolderOK(task[u].conv, task[u].ent)
      BY <2>1 DEF Inv, SlotInv
    <3>3. QED
      BY <1>3, <1>4, <3>1, <3>2 DEF HolderOK
  <2>2. QED
    BY <1>3, <1>4, <2>1 DEF SlotInv, Inv
<1>6. /\ \A d \in Convs : Emitting(d)' <=> Emitting(d)
      /\ \A d \in Convs \ {c} : Removing(d)' <=> Removing(d)
  BY <1>4 DEF Removing, Emitting
<1>7. FinalizerInv'
  <2>1. FinalizerOwnsSlot'
    BY <1>3, <1>6 DEF Inv, FinalizerInv, FinalizerOwnsSlot, Live
  <2>2. SingleFinalizer'
    <3>1. \A u \in Tasks : ~Finalizing(task[u], c)
      BY <1>3 DEF Finalizing, Removing, Emitting
    <3>2. QED
      BY <1>4, <3>1 DEF Inv, FinalizerInv, SingleFinalizer, Finalizing
  <2>3. QED
    BY <1>3, <1>6, <2>1, <2>2 DEF Inv, FinalizerInv
<1>8. FanoutMatchesRegistry'
  BY <1>3, <1>4, <1>6, AnnouncedSame DEF Inv, FanoutMatchesRegistry
<1>9. QED
  BY <1>5, <1>7, <1>8 DEF Inv

(* The polling loop drops the slot it was told to finalize.                *)
LEMMA PollEvictInv ==
    ASSUME TypeOK, Inv, NEW t \in Tasks, PollEvict(t)
    PROVE  Inv'
<1>1. PICK c \in Convs : c = task[t].conv
  BY TaskTypes DEF TypeOK, PollEvict
<1>2. /\ reg' = [reg EXCEPT ![c] = NoEntry]
      /\ UNCHANGED <<st, torn, fwd, lifecycle, fanouts>>
  BY <1>1 DEF PollEvict, evict, pumpVars
<1>3. /\ task[t].pc = "remove" /\ task'[t].pc = "emit" /\ task'[t].conv = c
      /\ \A u \in Tasks \ {t} : task'[u] = task[u]
  BY <1>1 DEF PollEvict, Becomes, TypeOK, TaskState
<1>4. Removing(c) /\ Live(c) /\ reg[c] \in torn
  BY <1>1, <1>3 DEF Removing, Inv, FinalizerInv, FinalizerOwnsSlot
<1>5. /\ \A y, d \in Convs : reg'[y] = reg'[d] /\ reg'[y] # NoEntry => y = d
      /\ \A d \in Convs, x \in Entries : HolderOK(d, x) => HolderOK(d, x)'
      /\ ~Live(c)'
      /\ \A d \in Convs \ {c} : (Live(d)' <=> Live(d)) /\ reg'[d] = reg[d]
  BY <1>2, <1>4, DropSlot DEF Inv
<1>6. SlotInv'
  <2>1. ASSUME NEW u \in Tasks, task'[u].pc = "run"
        PROVE  HolderOK(task[u].conv, task[u].ent)'
    <3>1. u # t /\ task'[u] = task[u] /\ task[u].pc = "run"
      BY <1>3, <2>1
    <3>2. task[u].conv \in Convs /\ task[u].ent \in Entries
      BY <3>1, TaskTypes DEF TypeOK
    <3>3. HolderOK(task[u].conv, task[u].ent)
      BY <3>1 DEF Inv, SlotInv
    <3>4. QED
      BY <1>5, <3>1, <3>2, <3>3 DEF HolderOK
  <2>2. ASSUME fwd.pc = "process" PROVE HolderOK(fwd.conv, fwd.ent)'
    <3>1. fwd.conv \in Convs /\ fwd.ent \in Entries
      BY <2>2 DEF TypeOK, FwdState
    <3>2. QED
      BY <1>2, <1>5, <2>2, <3>1 DEF Inv, SlotInv, HolderOK
  <2>3. QED
    BY <1>2, <1>5, <2>1, <2>2 DEF SlotInv
<1>7. \A d \in Convs \ {c} : /\ Removing(d)' <=> Removing(d)
                             /\ Emitting(d)' <=> Emitting(d)
  BY <1>1, <1>2, <1>3 DEF Removing, Emitting
<1>8. ~Removing(c)' /\ Emitting(c)' /\ ~Emitting(c)
  <2>1. ~Finalizing(fwd, c) /\ \A u \in Tasks \ {t} : ~Finalizing(task[u], c)
    BY <1>1, <1>3 DEF Inv, FinalizerInv, SingleFinalizer, Finalizing
  <2>2. QED
    BY <1>2, <1>3, <2>1 DEF Removing, Emitting, Finalizing
<1>9. FinalizerInv'
  <2>1. FinalizerOwnsSlot'
    BY <1>2, <1>5, <1>7, <1>8 DEF Inv, FinalizerInv, FinalizerOwnsSlot
  <2>2. SingleFinalizer'
    BY <1>1, <1>2, <1>3 DEF Inv, FinalizerInv, SingleFinalizer, Finalizing
  <2>3. QED
    BY <1>5, <1>7, <2>1, <2>2 DEF Inv, FinalizerInv
<1>10. FanoutMatchesRegistry'
  BY <1>2, <1>4, <1>5, <1>7, <1>8, AnnouncedSame DEF Inv, FanoutMatchesRegistry
<1>11. QED
  BY <1>6, <1>9, <1>10 DEF Inv

LEMMA FwdEvictInv ==
    ASSUME TypeOK, Inv, FwdEvict
    PROVE  Inv'
<1>1. PICK c \in Convs : c = fwd.conv
  BY DEF TypeOK, FwdEvict, FwdState
<1>2. /\ reg' = [reg EXCEPT ![c] = NoEntry]
      /\ UNCHANGED <<st, torn, task, lifecycle, fanouts>>
  BY <1>1 DEF FwdEvict, evict, pumpVars
<1>3. fwd.pc = "remove" /\ fwd'.pc = "emit" /\ fwd'.conv = c
  BY <1>1 DEF FwdEvict, TypeOK, FwdState
<1>4. Removing(c) /\ Live(c) /\ reg[c] \in torn
  BY <1>1, <1>3 DEF Removing, Inv, FinalizerInv, FinalizerOwnsSlot
<1>5. /\ \A y, d \in Convs : reg'[y] = reg'[d] /\ reg'[y] # NoEntry => y = d
      /\ \A d \in Convs, x \in Entries : HolderOK(d, x) => HolderOK(d, x)'
      /\ ~Live(c)'
      /\ \A d \in Convs \ {c} : (Live(d)' <=> Live(d)) /\ reg'[d] = reg[d]
  BY <1>2, <1>4, DropSlot DEF Inv
<1>6. SlotInv'
  <2>1. ASSUME NEW u \in Tasks, task[u].pc = "run"
        PROVE  HolderOK(task[u].conv, task[u].ent)'
    <3>1. task[u].conv \in Convs /\ task[u].ent \in Entries
      BY <2>1, TaskTypes DEF TypeOK
    <3>2. HolderOK(task[u].conv, task[u].ent)
      BY <2>1 DEF Inv, SlotInv
    <3>3. QED
      BY <1>2, <1>5, <3>1, <3>2 DEF HolderOK
  <2>2. QED
    BY <1>2, <1>3, <1>5, <2>1 DEF SlotInv
<1>7. \A d \in Convs \ {c} : /\ Removing(d)' <=> Removing(d)
                             /\ Emitting(d)' <=> Emitting(d)
  BY <1>1, <1>2, <1>3 DEF Removing, Emitting
<1>8. ~Removing(c)' /\ Emitting(c)' /\ ~Emitting(c)
  <2>1. \A u \in Tasks : ~Finalizing(task[u], c)
    BY <1>1, <1>3 DEF Inv, FinalizerInv, SingleFinalizer, Finalizing
  <2>2. QED
    BY <1>2, <1>3, <2>1 DEF Removing, Emitting, Finalizing
<1>9. FinalizerInv'
  <2>1. FinalizerOwnsSlot'
    BY <1>2, <1>5, <1>7, <1>8 DEF Inv, FinalizerInv, FinalizerOwnsSlot
  <2>2. SingleFinalizer'
    BY <1>1, <1>2, <1>3 DEF Inv, FinalizerInv, SingleFinalizer, Finalizing
  <2>3. QED
    BY <1>5, <1>7, <2>1, <2>2 DEF Inv, FinalizerInv
<1>10. FanoutMatchesRegistry'
  BY <1>2, <1>4, <1>5, <1>7, <1>8, AnnouncedSame DEF Inv, FanoutMatchesRegistry
<1>11. QED
  BY <1>6, <1>9, <1>10 DEF Inv

(* Removed is reported: the name was announced, and nothing else is.       *)
LEMMA EmitInv ==
    ASSUME TypeOK, Inv, NEW c \in Convs, emit_removed(c), UNCHANGED fanouts,
           Emitting(c), ~Emitting(c)',
           \A d \in Convs \ {c} : Emitting(d)' <=> Emitting(d),
           \A d \in Convs : Removing(d)' <=> Removing(d),
           SlotInv', SingleFinalizer'
    PROVE  Inv'
<1>1. \A d \in Convs : Live(d)' <=> Live(d)
  BY DEF emit_removed, Live
<1>2. FinalizerInv'
  <2>1. FinalizerOwnsSlot'
    BY <1>1 DEF emit_removed, Inv, FinalizerInv, FinalizerOwnsSlot
  <2>2. QED
    BY <1>1, <2>1 DEF Inv, FinalizerInv
<1>3. FanoutMatchesRegistry'
  <2>1. Announced' = Announced \ {c}
    BY ReplayAppend DEF Announced, emit_removed, Emit, TypeOK, RegTypeOK
  <2>2. ~Live(c)
    BY DEF Inv, FinalizerInv
  <2>3. QED
    BY <1>1, <2>1, <2>2 DEF Inv, FanoutMatchesRegistry
<1>4. QED
  BY <1>2, <1>3 DEF Inv

LEMMA PollEmitInv ==
    ASSUME TypeOK, Inv, NEW t \in Tasks, PollEmit(t)
    PROVE  Inv'
<1>1. PICK c \in Convs : c = task[t].conv
  BY TaskTypes DEF TypeOK, PollEmit
<1>2. /\ task'[t] = Idle /\ task[t].pc = "emit"
      /\ \A u \in Tasks \ {t} : task'[u] = task[u]
      /\ UNCHANGED <<fwd, fanouts>> /\ emit_removed(c)
  BY <1>1 DEF PollEmit, Becomes, TypeOK, pumpVars
<1>3. Emitting(c) /\ ~Emitting(c)'
  <2>1. ~Finalizing(fwd, c) /\ \A u \in Tasks \ {t} : ~Finalizing(task[u], c)
    BY <1>1, <1>2 DEF Inv, FinalizerInv, SingleFinalizer, Finalizing
  <2>2. QED
    BY <1>1, <1>2, <2>1 DEF Emitting, Finalizing, Idle
<1>4. /\ \A d \in Convs \ {c} : Emitting(d)' <=> Emitting(d)
      /\ \A d \in Convs : Removing(d)' <=> Removing(d)
  BY <1>1, <1>2 DEF Emitting, Removing, Idle
<1>5. SlotInv'
  BY <1>2 DEF Inv, SlotInv, HolderOK, emit_removed, Idle
<1>6. SingleFinalizer'
  BY <1>2 DEF Inv, FinalizerInv, SingleFinalizer, Finalizing, Idle
<1>7. QED
  BY <1>2, <1>3, <1>4, <1>5, <1>6, EmitInv

LEMMA FwdEmitInv ==
    ASSUME TypeOK, Inv, FwdEmit
    PROVE  Inv'
<1>1. PICK c \in Convs : c = fwd.conv
  BY DEF TypeOK, FwdEmit, FwdState
<1>2. /\ fwd' = NoPacket /\ fwd.pc = "emit"
      /\ UNCHANGED <<task, fanouts>> /\ emit_removed(c)
  BY <1>1 DEF FwdEmit, pumpVars
<1>3. Emitting(c) /\ ~Emitting(c)'
  <2>1. \A u \in Tasks : ~Finalizing(task[u], c)
    BY <1>1, <1>2 DEF Inv, FinalizerInv, SingleFinalizer, Finalizing
  <2>2. QED
    BY <1>1, <1>2, <2>1 DEF Emitting, Finalizing, NoPacket
<1>4. /\ \A d \in Convs \ {c} : Emitting(d)' <=> Emitting(d)
      /\ \A d \in Convs : Removing(d)' <=> Removing(d)
  BY <1>1, <1>2 DEF Emitting, Removing, NoPacket
<1>5. SlotInv'
  BY <1>2 DEF Inv, SlotInv, HolderOK, emit_removed, NoPacket
<1>6. SingleFinalizer'
  BY <1>2 DEF Inv, FinalizerInv, SingleFinalizer, Finalizing, NoPacket
<1>7. QED
  BY <1>2, <1>3, <1>4, <1>5, <1>6, EmitInv

LEMMA NextInv ==
    ASSUME TypeOK, Inv, ~RepeatsLeave, [Next]_vars
    PROVE  Inv'
<1>1. CASE UNCHANGED vars
  BY <1>1, StillInv, AnnouncedSame DEF vars, regVars, pumpVars
<1>2. CASE \E c \in Convs : CreateStart(c)
  BY <1>2, InstallInv DEF CreateStart, Exclusive, Live, pumpVars
<1>3. CASE \E c \in Convs : JoinBegin(c)
  BY <1>3, BeginInv DEF JoinBegin, pumpVars
<1>4. ASSUME NEW c \in Convs, FwdWelcome(c) PROVE Inv'
  <2>1. CASE Live(c)
    BY <1>4, <2>1, QuietForwarder DEF FwdWelcome, NoPacket, regVars, pumpVars
  <2>2. CASE ~Live(c)
    BY <1>4, <2>2, InstallInv DEF FwdWelcome, NoPacket, pumpVars
  <2>3. QED
    BY <2>1, <2>2
<1>5. CASE (\E c \in Convs : FwdTake(c)) \/ FwdLookup \/ FwdDrop
  <2>1. UNCHANGED <<reg, st, torn, task, lifecycle, fanouts>>
    BY <1>5 DEF FwdTake, FwdLookup, FwdDrop, regVars, pumpVars
  <2>2. CASE (\E c \in Convs : FwdTake(c)) \/ FwdDrop
    <3>1. fwd.pc \in {"idle", "take"} /\ fwd'.pc \in {"idle", "take"}
      BY <2>2 DEF FwdTake, FwdDrop, NoPacket
    <3>2. QED
      BY <2>1, <3>1, QuietForwarder
  <2>3. CASE FwdLookup
    <3>1. /\ fwd.pc = "take" /\ fwd.conv \in Convs /\ reg[fwd.conv] # NoEntry
          /\ fwd'.pc = "process"
          /\ fwd'.conv = fwd.conv /\ fwd'.ent = reg[fwd.conv]
      BY <2>3 DEF FwdLookup, TypeOK, FwdState
    <3>2. HolderOK(fwd.conv, reg[fwd.conv])
      BY <3>1 DEF HolderOK, Inv, SlotInv
    <3>3. QED
      BY <2>1, <3>1, <3>2, QuietForwarder
  <2>4. QED
    BY <1>5, <2>2, <2>3
<1>6. CASE ListGroups \/ JoinSubscribe \/ JoinFails \/ PushGroups
  BY <1>6, StillInv, AnnouncedSame
     DEF ListGroups, JoinSubscribe, JoinFails, PushGroups, regVars, pumpVars
<1>7. CASE CreateSpawn \/ JoinAnnounce
  <2>1. PICK t \in Tasks : /\ task[t].pc = "free"
                           /\ \/ Becomes(t, Poller(cmd.conv))
                              \/ Becomes(t, Waiter(cmd.conv))
    BY <1>7 DEF CreateSpawn, JoinAnnounce, FreeTasks, Becomes
  <2>2. UNCHANGED <<reg, st, torn, fwd, lifecycle, fanouts>>
    BY <1>7 DEF CreateSpawn, JoinAnnounce, regVars, pumpVars
  <2>3. Poller(cmd.conv).pc = "poll" /\ Waiter(cmd.conv).pc = "wait"
    BY DEF Poller, Waiter
  <2>4. QED
    BY <2>1, <2>2, <2>3, QuietTask
<1>8. ASSUME NEW t \in Tasks, WaitRound(t) PROVE Inv'
  <2>1. PICK s : /\ Becomes(t, s) /\ s.pc \in {"poll", "wait", "abandon"}
    <3>1. CASE Live(task[t].conv)
      BY <1>8, <3>1 DEF WaitRound, Poller
    <3>2. CASE ~Live(task[t].conv)
      <4> DEFINE m == task[t].rounds + 1
                 pc == IF m < MaxJoinRounds THEN "wait" ELSE "abandon"
                 s == [task[t] EXCEPT !.rounds = m, !.pc = pc]
      <4>1. Becomes(t, s)
        BY <1>8, <3>2 DEF WaitRound
      <4>2. s.pc = pc
        BY DEF TypeOK, TaskState
      <4>3. s.pc \in {"wait", "abandon"}
        BY <4>2
      <4>4. QED
        BY <4>1, <4>3
    <3>3. QED
      BY <3>1, <3>2
  <2>2. /\ task[t].pc = "wait"
        /\ UNCHANGED <<reg, st, torn, fwd, lifecycle, fanouts>>
    BY <1>8 DEF WaitRound, regVars, pumpVars
  <2>3. QED
    BY <2>1, <2>2, QuietTask
<1>9. ASSUME NEW t \in Tasks, WaitAbandon(t) PROVE Inv'
  BY <1>9, AbandonInv
<1>10. ASSUME NEW t \in Tasks, PollLookup(t) PROVE Inv'
  <2>1. /\ task[t].pc = "poll" /\ task[t].conv \in Convs
        /\ UNCHANGED <<reg, st, torn, fwd, lifecycle, fanouts>>
    BY <1>10, TaskTypes DEF PollLookup, regVars, pumpVars, TypeOK
  <2>2. CASE reg[task[t].conv] = NoEntry
    BY <1>10, <2>1, <2>2, QuietTask DEF PollLookup, Idle
  <2>3. CASE reg[task[t].conv] # NoEntry
    <3> DEFINE s == [task[t] EXCEPT !.pc = "run", !.ent = reg[task[t].conv]]
    <3>1. Becomes(t, s)
      BY <1>10, <2>3 DEF PollLookup
    <3>2. s.pc = "run" /\ s.conv = task[t].conv /\ s.ent = reg[task[t].conv]
      BY DEF TypeOK, TaskState
    <3>3. HolderOK(task[t].conv, reg[task[t].conv])
      BY <2>1, <2>3 DEF HolderOK, Inv, SlotInv
    <3>4. s.pc \notin {"remove", "emit"} /\ HolderOK(s.conv, s.ent)
      BY <3>2, <3>3
    <3>5. QED
      BY <2>1, <3>1, <3>4, QuietTask
  <2>4. QED
    BY <2>2, <2>3
<1>11. ASSUME NEW t \in Tasks, PollRun(t) PROVE Inv'
  <2>1. PICK s : Becomes(t, s) /\ s.pc \in {"free", "poll"}
    BY <1>11 DEF PollRun, Idle, Poller
  <2>2. /\ task[t].pc = "run"
        /\ UNCHANGED <<reg, st, torn, fwd, lifecycle, fanouts>>
    BY <1>11 DEF PollRun, Progresses, regVars, pumpVars
  <2>3. QED
    BY <2>1, <2>2, QuietTask
<1>12. ASSUME NEW t \in Tasks, PollLeave(t) \/ PollEvict(t) \/ PollEmit(t)
       PROVE  Inv'
  BY <1>12, PollLeaveInv, PollEvictInv, PollEmitInv
<1>13. CASE FwdProcess
  <2>1. /\ fwd.pc = "process" /\ fwd'.pc = "idle"
        /\ UNCHANGED <<reg, st, torn, task, lifecycle, fanouts>>
    BY <1>13 DEF FwdProcess, NoPacket, Progresses, regVars, pumpVars
  <2>2. QED
    BY <2>1, QuietForwarder
<1>14. CASE FwdLeave \/ FwdEvict \/ FwdEmit
  BY <1>14, FwdLeaveInv, FwdEvictInv, FwdEmitInv
<1>15. CASE PumpLifecycle
  <2>1. Announced \subseteq Convs
    BY DEF Announced, Replay
  <2>2. Announced' = Announced
    BY <1>15, <2>1, ReplayEmpty DEF PumpLifecycle, Announced
  <2>3. QED
    BY <1>15, <2>2, StillInv DEF PumpLifecycle
<1>16. CASE (\E c \in Convs : PumpVisit(c)) \/ PumpDrain \/ PumpHandle
            \/ PumpNext \/ PumpSleep
  <2>1. UNCHANGED <<reg, st, torn, task, fwd, lifecycle, fanouts>>
    BY <1>16 DEF PumpVisit, PumpDrain, PumpHandle, PumpNext, PumpSleep, regVars
  <2>2. QED
    BY <2>1, StillInv, AnnouncedSame
<1>17. QED
  BY <1>1, <1>2, <1>3, <1>4, <1>5, <1>6, <1>7, <1>8, <1>9, <1>10, <1>11,
     <1>12, <1>13, <1>14, <1>15, <1>16
     DEF Next, CmdStep, TaskStep, FwdStep, PumpStep

------------------------------------------------------------------------------
(* The theorems.  The library reports a teardown once (~RepeatsLeave).     *)

LEMMA InvHolds ==
    ASSUME ~RepeatsLeave PROVE Spec => [](TypeOK /\ Inv)
<1>1. Init => TypeOK /\ Inv
  BY InitTypeOK, InitInv
<1>2. TypeOK /\ Inv /\ [Next]_vars => (TypeOK /\ Inv)'
  BY NextTypeOK, NextInv
<1>3. QED
  BY <1>1, <1>2, PTL DEF Spec

(* The pump's fan-outs and the registry never diverge, although slots and  *)
(* lifecycle events change under different locks.                          *)
THEOREM FanoutsFollowRegistry ==
    ASSUME ~RepeatsLeave PROVE Spec => []FanoutMatchesRegistry
<1>1. TypeOK /\ Inv => FanoutMatchesRegistry
  BY DEF Inv
<1>2. QED
  BY <1>1, InvHolds, PTL

(* A finalizer, which works by name, finds the conversation it was decided *)
(* for.                                                                    *)
THEOREM FinalizersAreSafe ==
    ASSUME ~RepeatsLeave PROVE Spec => []FinalizerOwnsSlot
<1>1. TypeOK /\ Inv => FinalizerOwnsSlot
  BY DEF Inv, FinalizerInv
<1>2. QED
  BY <1>1, InvHolds, PTL

------------------------------------------------------------------------------
(* The registry implements Membership.                                     *)

(* What the registry's operations do to a conversation's status.           *)
LEMMA StatusSame ==
    UNCHANGED <<reg, st, torn>> => Status' = Status
BY DEF Status, StatusOf

LEMMA StatusMoves ==
    ASSUME NEW c \in Convs, NEW s, StatusOf(c)' = s,
           \A d \in Convs \ {c} : StatusOf(d)' = StatusOf(d)
    PROVE  Status' = [Status EXCEPT ![c] = s]
BY DEF Status

LEMMA InstallEnters ==
    ASSUME TypeOK, Inv, NEW c \in Convs, ~Live(c), install_conversation(c)
    PROVE  Abstract!Enter(c)
<1>1. PICK e \in Entries :
        /\ IF reg[c] = NoEntry THEN Fresh(e) ELSE e = reg[c]
        /\ reg' = [reg EXCEPT ![c] = e]
        /\ st' = [st EXCEPT ![e] = "live"]
        /\ torn' = torn \ {e}
  BY DEF install_conversation
<1>2. /\ reg'[c] = e /\ e # NoEntry /\ st'[e] = "live" /\ e \notin torn'
      /\ \A d \in Convs \ {c} : reg'[d] = reg[d] /\ reg[d] # e
      /\ \A x \in Entries \ {e} : st'[x] = st[x] /\ (x \in torn' <=> x \in torn)
  BY <1>1, ConstantsAssumption DEF TypeOK, RegTypeOK, Inv, SlotInv, Fresh
<1>3. StatusOf(c)' = "member"
  BY <1>2 DEF StatusOf
<1>4. \A d \in Convs \ {c} : StatusOf(d)' = StatusOf(d)
  BY <1>2 DEF StatusOf, TypeOK, RegTypeOK
<1>5. Status[c] \in {"absent", "joining"}
  BY DEF Status, StatusOf, Live, TypeOK, RegTypeOK
<1>6. QED
  BY <1>3, <1>4, <1>5, StatusMoves DEF Abstract!Enter, Abstract!Moves

LEMMA BeginJoins ==
    ASSUME TypeOK, Inv, NEW c \in Convs, begin_pending_join(c)
    PROVE  Abstract!Join(c)
<1>1. PICK e \in Entries :
        /\ Fresh(e)
        /\ reg' = [reg EXCEPT ![c] = e]
        /\ st' = [st EXCEPT ![e] = "pending"]
        /\ torn' = torn \ {e}
  BY DEF begin_pending_join
<1>2. /\ reg[c] = NoEntry /\ reg'[c] = e /\ e # NoEntry /\ st'[e] = "pending"
      /\ \A d \in Convs \ {c} : reg'[d] = reg[d] /\ reg[d] # e
      /\ \A x \in Entries \ {e} : st'[x] = st[x] /\ (x \in torn' <=> x \in torn)
  BY <1>1, ConstantsAssumption
     DEF TypeOK, RegTypeOK, Fresh, begin_pending_join
<1>3. StatusOf(c)' = "joining" /\ Status[c] = "absent"
  BY <1>2 DEF Status, StatusOf
<1>4. \A d \in Convs \ {c} : StatusOf(d)' = StatusOf(d)
  BY <1>2 DEF StatusOf, TypeOK, RegTypeOK
<1>5. QED
  BY <1>3, <1>4, StatusMoves DEF Abstract!Join, Abstract!Moves

LEMMA DropFrees ==
    ASSUME TypeOK, NEW c \in Convs, reg[c] # NoEntry,
           reg' = [reg EXCEPT ![c] = NoEntry], UNCHANGED <<st, torn>>
    PROVE  /\ StatusOf(c) = "joining" => Abstract!GiveUp(c)
           /\ StatusOf(c) = "departed" => Abstract!Forget(c)
<1>1. /\ reg'[c] = NoEntry
      /\ \A d \in Convs \ {c} : reg'[d] = reg[d]
  BY DEF TypeOK, RegTypeOK
<1>2. StatusOf(c)' = "absent"
  BY <1>1 DEF StatusOf
<1>3. \A d \in Convs \ {c} : StatusOf(d)' = StatusOf(d)
  BY <1>1 DEF StatusOf
<1>4. Status' = [Status EXCEPT ![c] = "absent"] /\ Status[c] = StatusOf(c)
  BY <1>2, <1>3, StatusMoves DEF Status
<1>5. QED
  BY <1>4 DEF Abstract!GiveUp, Abstract!Forget, Abstract!Moves

LEMMA AskDeparts ==
    ASSUME TypeOK, Inv, ~RepeatsLeave, NEW c \in Convs, NEW e \in Entries,
           HolderOK(c, e), st[e] = "live", AsksToLeave(e)
    PROVE  Abstract!Depart(c)
<1>1. /\ reg[c] = e /\ Live(c) /\ e \notin torn
      /\ torn' = torn \cup {e} /\ UNCHANGED <<reg, st>>
  BY AsksInv
<1>2. StatusOf(c)' = "departed" /\ Status[c] = "member"
  BY <1>1 DEF Status, StatusOf, Live
<1>3. \A d \in Convs \ {c} : StatusOf(d)' = StatusOf(d)
  BY <1>1 DEF StatusOf, HolderOK
<1>4. QED
  BY <1>2, <1>3, StatusMoves DEF Abstract!Depart, Abstract!Moves

LEMMA NextImplements ==
    ASSUME TypeOK, Inv, ~RepeatsLeave, [Next]_vars
    PROVE  [Abstract!Next]_Status
<1>1. CASE UNCHANGED <<reg, st, torn>>
  BY <1>1, StatusSame
<1>2. ASSUME NEW c \in Convs, CreateStart(c) \/ JoinBegin(c) \/ FwdWelcome(c)
      PROVE  [Abstract!Next]_Status
  <2>1. CASE CreateStart(c)
    BY <2>1, InstallEnters DEF CreateStart, Live, Abstract!Next
  <2>2. CASE JoinBegin(c)
    BY <2>2, BeginJoins DEF JoinBegin, Abstract!Next
  <2>3. CASE FwdWelcome(c)
    BY <2>3, InstallEnters, <1>1 DEF FwdWelcome, Abstract!Next, regVars
  <2>4. QED
    BY <1>2, <2>1, <2>2, <2>3
<1>3. ASSUME NEW t \in Tasks, TaskStep(t) PROVE [Abstract!Next]_Status
  <2>1. CASE WaitRound(t) \/ PollLookup(t) \/ PollRun(t) \/ PollEmit(t)
    BY <1>1, <2>1 DEF WaitRound, PollLookup, PollRun, PollEmit, emit_removed,
                      Progresses, regVars
  <2>2. CASE WaitAbandon(t)
    <3>1. PICK c \in Convs : c = task[t].conv
      BY <2>2, TaskTypes DEF TypeOK, WaitAbandon
    <3>2. CASE Pending(c)
      <4>1. StatusOf(c) = "joining"
        BY <3>2 DEF StatusOf, Pending
      <4>2. QED
        BY <2>2, <3>1, <3>2, <4>1, DropFrees
           DEF WaitAbandon, abandon_pending_join, Pending, Abstract!Next
    <3>3. CASE ~Pending(c)
      BY <1>1, <2>2, <3>1, <3>3 DEF WaitAbandon, abandon_pending_join
    <3>4. QED
      BY <3>2, <3>3
  <2>3. CASE PollLeave(t)
    <3>1. task[t].conv \in Convs /\ task[t].ent \in Entries
      BY <2>3, TaskTypes DEF TypeOK, PollLeave
    <3>2. HolderOK(task[t].conv, task[t].ent)
      BY <2>3 DEF PollLeave, Inv, SlotInv
    <3>3. QED
      BY <2>3, <3>1, <3>2, AskDeparts DEF PollLeave, Abstract!Next
  <2>4. CASE PollEvict(t)
    <3>1. PICK c \in Convs : c = task[t].conv
      BY <2>4, TaskTypes DEF TypeOK, PollEvict
    <3>2. Live(c) /\ reg[c] \in torn
      BY <2>4, <3>1 DEF PollEvict, Removing, Inv, FinalizerInv, FinalizerOwnsSlot
    <3>3. StatusOf(c) = "departed" /\ reg[c] # NoEntry
      BY <3>2 DEF StatusOf, Live
    <3>4. QED
      BY <2>4, <3>1, <3>3, DropFrees DEF PollEvict, evict, Abstract!Next
  <2>5. QED
    BY <1>3, <2>1, <2>2, <2>3, <2>4 DEF TaskStep
<1>4. CASE (\E c \in Convs : FwdTake(c)) \/ FwdLookup \/ FwdDrop
  BY <1>1, <1>4 DEF FwdTake, FwdLookup, FwdDrop, regVars
<1>5. CASE FwdStep
  <2>1. CASE FwdProcess \/ FwdEmit
    BY <1>1, <2>1 DEF FwdProcess, FwdEmit, emit_removed, Progresses, regVars
  <2>2. CASE FwdLeave
    <3>1. fwd.conv \in Convs /\ fwd.ent \in Entries
      BY <2>2 DEF TypeOK, FwdState, FwdLeave
    <3>2. HolderOK(fwd.conv, fwd.ent)
      BY <2>2 DEF FwdLeave, Inv, SlotInv
    <3>3. QED
      BY <2>2, <3>1, <3>2, AskDeparts DEF FwdLeave, Abstract!Next
  <2>3. CASE FwdEvict
    <3>1. PICK c \in Convs : c = fwd.conv
      BY <2>3 DEF TypeOK, FwdState, FwdEvict
    <3>2. Live(c) /\ reg[c] \in torn
      BY <2>3, <3>1 DEF FwdEvict, Removing, Inv, FinalizerInv, FinalizerOwnsSlot
    <3>3. StatusOf(c) = "departed" /\ reg[c] # NoEntry
      BY <3>2 DEF StatusOf, Live
    <3>4. QED
      BY <2>3, <3>1, <3>3, DropFrees DEF FwdEvict, evict, Abstract!Next
  <2>4. QED
    BY <1>2, <1>5, <1>4, <2>1, <2>2, <2>3 DEF FwdStep
<1>6. CASE \/ UNCHANGED vars \/ ListGroups \/ CmdStep \/ PumpStep
  <2>1. UNCHANGED <<reg, st, torn>>
    BY <1>6 DEF vars, ListGroups, CmdStep, CreateSpawn, JoinSubscribe,
                JoinAnnounce, JoinFails, PushGroups, PumpStep, PumpLifecycle,
                PumpVisit, PumpDrain, PumpHandle, PumpNext, PumpSleep, regVars
  <2>2. QED
    BY <1>1, <2>1
<1>7. QED
  BY <1>2, <1>3, <1>4, <1>5, <1>6 DEF Next

(* Whatever the interleaving, each conversation goes through joining,      *)
(* member, departed and absent as Membership allows: the registry, its     *)
(* tasks, the forwarder and the pump implement the abstract specification. *)
THEOREM RegistryImplementsMembership ==
    ASSUME ~RepeatsLeave PROVE Spec => ImplementsMembership
<1>1. Init => Abstract!Init
  BY DEF Init, Abstract!Init, Status, StatusOf
<1>2. TypeOK /\ Inv /\ [Next]_vars => [Abstract!Next]_Status
  BY NextImplements
<1>3. QED
  BY <1>1, <1>2, InvHolds, PTL DEF Spec, ImplementsMembership, Abstract!Spec

LEMMA NextKeeps ==
    ASSUME TypeOK, Inv, Next PROVE KeepsMembers
<1> USE DEF KeepsMembers
<1>1. CASE UNCHANGED <<reg, st>>
  BY <1>1 DEF Live
<1>2. ASSUME NEW c \in Convs, install_conversation(c), ~Live(c) PROVE KeepsMembers
  BY <1>2 DEF install_conversation, Fresh, Live, TypeOK, RegTypeOK
<1>3. ASSUME NEW c \in Convs, begin_pending_join(c) PROVE KeepsMembers
  BY <1>3 DEF begin_pending_join, Fresh, Live, TypeOK, RegTypeOK
<1>4. ASSUME NEW c \in Convs, reg' = [reg EXCEPT ![c] = NoEntry],
             UNCHANGED st, Pending(c) \/ reg[c] \in torn
      PROVE  KeepsMembers
  BY <1>4 DEF Live, Pending, TypeOK, RegTypeOK
<1>5. ASSUME NEW c \in Convs, CreateStart(c) \/ JoinBegin(c) \/ FwdWelcome(c)
      PROVE  KeepsMembers
  BY <1>1, <1>2, <1>3, <1>5
     DEF CreateStart, JoinBegin, FwdWelcome, Live, regVars
<1>6. ASSUME NEW t \in Tasks, TaskStep(t) PROVE KeepsMembers
  <2>1. CASE WaitAbandon(t)
    <3>1. task[t].conv \in Convs
      BY <2>1, TaskTypes DEF TypeOK, WaitAbandon
    <3>2. QED
      BY <1>1, <1>4, <2>1, <3>1 DEF WaitAbandon, abandon_pending_join
  <2>2. CASE PollEvict(t)
    <3>1. task[t].conv \in Convs
      BY <2>2, TaskTypes DEF TypeOK, PollEvict
    <3>2. reg[task[t].conv] \in torn
      BY <2>2, <3>1
         DEF PollEvict, Removing, Inv, FinalizerInv, FinalizerOwnsSlot
    <3>3. QED
      BY <1>4, <2>2, <3>1, <3>2 DEF PollEvict, evict
  <2>3. CASE WaitRound(t) \/ PollLookup(t) \/ PollRun(t) \/ PollLeave(t)
             \/ PollEmit(t)
    <3>1. UNCHANGED <<reg, st>>
      BY <2>3 DEF WaitRound, PollLookup, PollRun, PollLeave, PollEmit,
                  emit_removed, Progresses, AsksToLeave, regVars
    <3>2. QED
      BY <1>1, <3>1
  <2>4. QED
    BY <1>6, <2>1, <2>2, <2>3 DEF TaskStep
<1>7. CASE FwdStep
  <2>1. CASE FwdEvict
    <3>1. fwd.conv \in Convs
      BY <2>1 DEF TypeOK, FwdState, FwdEvict
    <3>2. reg[fwd.conv] \in torn
      BY <2>1, <3>1
         DEF FwdEvict, Removing, Inv, FinalizerInv, FinalizerOwnsSlot
    <3>3. QED
      BY <1>4, <2>1, <3>1, <3>2 DEF FwdEvict, evict
  <2>2. CASE FwdLookup \/ FwdDrop \/ FwdProcess \/ FwdLeave \/ FwdEmit
    <3>1. UNCHANGED <<reg, st>>
      BY <2>2 DEF FwdLookup, FwdDrop, FwdProcess, FwdLeave, FwdEmit,
                  emit_removed, Progresses, AsksToLeave, regVars
    <3>2. QED
      BY <1>1, <3>1
  <2>3. QED
    BY <1>5, <1>7, <2>1, <2>2 DEF FwdStep
<1>8. CASE \/ ListGroups \/ CmdStep \/ PumpStep
           \/ \E c \in Convs : FwdTake(c)
  <2>1. UNCHANGED <<reg, st>>
    BY <1>8 DEF ListGroups, CmdStep, CreateSpawn, JoinSubscribe,
                JoinAnnounce, JoinFails, PushGroups, PumpStep, PumpLifecycle,
                PumpVisit, PumpDrain, PumpHandle, PumpNext, PumpSleep,
                FwdTake, regVars
  <2>2. QED
    BY <1>1, <2>1
<1>9. QED
  BY <1>5, <1>6, <1>7, <1>8 DEF Next

(* A conversation the library has not torn down keeps its slot in every    *)
(* step: no timed-out join, repeated join or finalizer takes it away.      *)
THEOREM MembersKeepTheirSlot ==
    ASSUME ~RepeatsLeave PROVE Spec => NeverDropsMember
<1>1. TypeOK /\ Inv /\ [Next]_vars => [KeepsMembers]_vars
  BY NextKeeps
<1>2. QED
  BY <1>1, InvHolds, PTL DEF Spec, NeverDropsMember

------------------------------------------------------------------------------
(* The consensus storage follows the registry.                             *)

\* No two names share a slot.
Distinct == \A c, d \in Convs : reg[c] = reg[d] /\ reg[c] # NoEntry => c = d

ScopeInv == NoOrphanScope /\ Distinct

LEMMA NextScope ==
    ASSUME TypeOK, ScopeInv, Next PROVE ScopeInv'
<1> USE DEF ScopeInv, Distinct, NoOrphanScope
<1>1. CASE UNCHANGED <<reg, st, scope>>
  BY <1>1 DEF Live
<1>2. ASSUME NEW c \in Convs, install_conversation(c), ~Live(c)
      PROVE  ScopeInv'
  <2>1. Live(c)' /\ \A d \in Convs \ {c} : Live(d)' <=> Live(d)
    BY <1>2, ConstantsAssumption
       DEF install_conversation, Fresh, Live, TypeOK, RegTypeOK
  <2>2. Distinct'
    BY <1>2 DEF install_conversation, Fresh, TypeOK, RegTypeOK
  <2>3. QED
    BY <1>2, <2>1, <2>2 DEF install_conversation, TypeOK, RegTypeOK
<1>3. ASSUME NEW c \in Convs, begin_pending_join(c) PROVE ScopeInv'
  <2>1. \A d \in Convs : Live(d)' <=> Live(d)
    BY <1>3 DEF begin_pending_join, Fresh, Live, TypeOK, RegTypeOK
  <2>2. Distinct'
    BY <1>3 DEF begin_pending_join, Fresh, TypeOK, RegTypeOK
  <2>3. QED
    BY <1>3, <2>1, <2>2 DEF begin_pending_join
<1>4. ASSUME NEW c \in Convs, abandon_pending_join(c) PROVE ScopeInv'
  <2>1. \A d \in Convs : Live(d)' <=> Live(d)
    BY <1>4 DEF abandon_pending_join, Live, Pending, TypeOK, RegTypeOK
  <2>2. Distinct'
    BY <1>4 DEF abandon_pending_join, TypeOK, RegTypeOK
  <2>3. QED
    BY <1>4, <2>1, <2>2 DEF abandon_pending_join
<1>5. ASSUME NEW c \in Convs, evict(c) PROVE ScopeInv'
  <2>1. ~Live(c)' /\ \A d \in Convs \ {c} : Live(d)' <=> Live(d)
    BY <1>5 DEF evict, Live, TypeOK, RegTypeOK
  <2>2. scope'[c] # "held" /\ \A d \in Convs \ {c} : scope'[d] = scope[d]
    BY <1>5 DEF evict, cleanup_consensus_scope, TypeOK, RegTypeOK
  <2>3. Distinct'
    BY <1>5 DEF evict, TypeOK, RegTypeOK
  <2>4. QED
    BY <2>1, <2>2, <2>3
<1>6. ASSUME NEW c \in Convs, CreateStart(c) \/ JoinBegin(c) \/ FwdWelcome(c)
      PROVE  ScopeInv'
  BY <1>1, <1>2, <1>3, <1>6
     DEF CreateStart, JoinBegin, FwdWelcome, Live, regVars
<1>7. ASSUME NEW t \in Tasks, TaskStep(t) PROVE ScopeInv'
  <2>1. CASE WaitAbandon(t) \/ PollEvict(t)
    <3>1. task[t].conv \in Convs
      BY <2>1, TaskTypes DEF TypeOK, WaitAbandon, PollEvict
    <3>2. QED
      BY <1>4, <1>5, <2>1, <3>1 DEF WaitAbandon, PollEvict
  <2>2. CASE WaitRound(t) \/ PollLookup(t) \/ PollRun(t) \/ PollLeave(t)
             \/ PollEmit(t)
    <3>1. UNCHANGED <<reg, st, scope>>
      BY <2>2 DEF WaitRound, PollLookup, PollRun, PollLeave, PollEmit,
                  emit_removed, Progresses, AsksToLeave, regVars
    <3>2. QED
      BY <1>1, <3>1
  <2>3. QED
    BY <1>7, <2>1, <2>2 DEF TaskStep
<1>8. CASE FwdStep
  <2>1. CASE FwdEvict
    <3>1. fwd.conv \in Convs
      BY <2>1 DEF TypeOK, FwdState, FwdEvict
    <3>2. QED
      BY <1>5, <2>1, <3>1 DEF FwdEvict
  <2>2. CASE FwdLookup \/ FwdDrop \/ FwdProcess \/ FwdLeave \/ FwdEmit
    <3>1. UNCHANGED <<reg, st, scope>>
      BY <2>2 DEF FwdLookup, FwdDrop, FwdProcess, FwdLeave, FwdEmit,
                  emit_removed, Progresses, AsksToLeave, regVars
    <3>2. QED
      BY <1>1, <3>1
  <2>3. QED
    BY <1>6, <1>8, <2>1, <2>2 DEF FwdStep
<1>9. CASE \/ ListGroups \/ CmdStep \/ PumpStep
           \/ \E c \in Convs : FwdTake(c)
  <2>1. UNCHANGED <<reg, st, scope>>
    BY <1>9 DEF ListGroups, CmdStep, CreateSpawn, JoinSubscribe,
                JoinAnnounce, JoinFails, PushGroups, PumpStep, PumpLifecycle,
                PumpVisit, PumpDrain, PumpHandle, PumpNext, PumpSleep,
                FwdTake, regVars
  <2>2. QED
    BY <1>1, <2>1
<1>10. QED
  BY <1>6, <1>7, <1>8, <1>9 DEF Next

(* The scope of a conversation lives exactly as long as its live slot:     *)
(* whoever takes the name next finds no votes of the last one, unless the  *)
(* storage reported that they could not be deleted.  This holds even for a  *)
(* library that asks to leave twice.                                       *)
THEOREM ScopesFollowRegistry == Spec => []NoOrphanScope
<1>1. Init => ScopeInv
  BY DEF Init, ScopeInv, Distinct, NoOrphanScope, Live
<1>2. TypeOK /\ ScopeInv /\ [Next]_vars => ScopeInv'
  <2>1. CASE UNCHANGED vars
    BY <2>1 DEF vars, regVars, ScopeInv, Distinct, NoOrphanScope, Live
  <2>2. QED
    BY <2>1, NextScope
<1>3. ScopeInv => NoOrphanScope
  BY DEF ScopeInv
<1>4. QED
  BY <1>1, <1>2, <1>3, TypeCorrect, PTL DEF Spec
=============================================================================
