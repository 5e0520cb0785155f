------------------------- MODULE SystemClock_proofs -------------------------
(***************************************************************************)
(* Proofs about SystemClock, for any number of readers, any clock values   *)
(* and any width.  The invariant relates `last_nanos` to what has been     *)
(* returned and to what has been read and not yet folded in.               *)
(***************************************************************************)
EXTENDS SystemClock, TLAPS

Inv ==
    /\ TypeOK /\ NeverBackwards /\ NeverAhead
    /\ highest <= last /\ last <= peak
    /\ Nanos(sys) <= peak
    /\ \A r \in Readers : floor[r] <= highest /\ seen[r] <= peak

(* A u64 of nanoseconds.                                                   *)
LEMMA NanosType == ASSUME NEW t \in Int PROVE Nanos(t) \in 0 .. Cap
BY ClockAssumption DEF Nanos

(* Nothing has been returned yet.                                          *)
LEMMA InitInv == Init => Inv
<1> SUFFICES ASSUME Init PROVE Inv
  OBVIOUS
<1>1. sys \in Int /\ peak \in 0 .. Cap
  BY NanosType, ClockAssumption DEF Init
<1> QED BY <1>1, ClockAssumption DEF Init, Inv, TypeOK, NeverBackwards, NeverAhead

(* Every step keeps the invariant; the interesting one is FetchMax, which  *)
(* returns the new value of last_nanos.                                    *)
LEMMA NextInv == Inv /\ [Next]_vars => Inv'
<1> SUFFICES ASSUME Inv, [Next]_vars PROVE Inv'
  OBVIOUS
<1> USE ClockAssumption
<1>1. ASSUME NEW t \in -1 .. MaxSys, SetClock(t) PROVE Inv'
  <2>1. Nanos(t) \in 0 .. Cap /\ t \in Int
    BY NanosType
  <2>2. peak' \in 0 .. Cap /\ peak' >= peak /\ peak' >= Nanos(t)
    BY <1>1, <2>1 DEF SetClock, Larger, Inv, TypeOK
  <2> QED BY <1>1, <2>1, <2>2
          DEF SetClock, Inv, TypeOK, NeverBackwards, NeverAhead
<1>2. ASSUME NEW r \in Readers, ReadSystem(r) PROVE Inv'
  <2>1. Nanos(sys) \in 0 .. Cap
    BY NanosType DEF Inv, TypeOK
  <2>2. Nanos(sys) <= peak
    BY DEF Inv
  <2> QED BY <1>2, <2>1, <2>2
          DEF ReadSystem, Inv, TypeOK, NeverBackwards, NeverAhead
<1>3. ASSUME NEW r \in Readers, FetchMax(r) PROVE Inv'
  <2> DEFINE v == Larger(last, seen[r])
  <2>1. /\ v \in 0 .. Cap /\ last' = v /\ v >= last /\ v <= peak
        /\ Larger(highest, v) = v
    BY <1>3 DEF FetchMax, Larger, Inv, TypeOK
  <2> HIDE DEF v
  <2>2. /\ highest' = v /\ reading' = [reading EXCEPT ![r] = v]
        /\ pc' = [pc EXCEPT ![r] = "idle"]
        /\ UNCHANGED <<sys, seen, floor, peak>>
    BY <1>3, <2>1 DEF FetchMax, Returns, v
  <2>3. TypeOK'
    BY <2>1, <2>2 DEF Inv, TypeOK
  <2>4. NeverBackwards' /\ NeverAhead'
    BY <2>1, <2>2 DEF Inv, TypeOK, NeverBackwards, NeverAhead
  <2> QED BY <2>1, <2>2, <2>3, <2>4 DEF Inv, TypeOK
<1>4. CASE UNCHANGED vars
  BY <1>4 DEF vars, Inv, TypeOK, NeverBackwards, NeverAhead
<1> QED BY <1>1, <1>2, <1>3, <1>4 DEF Next

(* The invariant holds throughout.                                         *)
LEMMA InvHolds == Spec => []Inv
BY InitInv, NextInv, PTL DEF Spec

(* The counter, the system clock and every reading keep their width,       *)
(* whatever the system clock is set to, before the epoch included.         *)
THEOREM TypeCorrect == Spec => []TypeOK
<1>1. Inv => TypeOK
  BY DEF Inv
<1> QED BY <1>1, InvHolds, PTL

(* For any number of threads, any steps of the system clock and any width  *)
(* of the counter, a reading is never below one that had been returned     *)
(* when its call began.                                                    *)
THEOREM ReadingsAreMonotone == Spec => []NeverBackwards
<1>1. Inv => NeverBackwards
  BY DEF Inv
<1> QED BY <1>1, InvHolds, PTL

(* No reading leads the highest time the system clock has shown.           *)
THEOREM ReadingsNeverLead == Spec => []NeverAhead
<1>1. Inv => NeverAhead
  BY DEF Inv
<1> QED BY <1>1, InvHolds, PTL
=============================================================================
