----------------------------- MODULE SystemClock -----------------------------
(***************************************************************************)
(* The clock the gateway hands to a conversation.  Every deadline of the   *)
(* conversation is measured with it, from the threads that poll, receive   *)
(* and execute commands.  A reading takes two steps: the system time is    *)
(* read, then folded into `last_nanos` by an atomic fetch_max.  Other      *)
(* readers, and a correction of the system clock, can come in between.     *)
(***************************************************************************)
EXTENDS Integers

CONSTANTS
    Readers,  \* threads that call now()
    Cap,      \* u64::MAX nanoseconds
    MaxSys    \* bound: the system clock, in nanoseconds since the epoch

ASSUME ClockAssumption == Cap \in Nat /\ MaxSys \in Nat

VARIABLES
    sys,      \* the system clock; negative before UNIX_EPOCH
    last,     \* last_nanos
    pc,       \* reader -> "idle" or "read"
    seen,     \* reader -> the system time it has read
    reading,  \* reader -> what its last call returned
    floor,    \* reader -> the highest reading returned before its call began
    highest,  \* the highest reading returned so far
    peak      \* the highest time the system clock has shown

vars == <<sys, last, pc, seen, reading, floor, highest, peak>>

Larger(a, b) == IF a >= b THEN a ELSE b

\* Mutant: the u128 of as_nanos is not clamped to u64.
NanosUnclamped(t) == IF t < 0 THEN 0 ELSE t

\* duration_since(UNIX_EPOCH).unwrap_or_default() in u64 nanoseconds: zero
\* before the epoch, u64::MAX when it does not fit.
Nanos(t) == IF t < 0 THEN 0 ELSE IF t > Cap THEN Cap ELSE t

(* Types: what is stored and returned fits a u64.                          *)
TypeOK ==
    /\ sys \in Int
    /\ last \in 0 .. Cap /\ highest \in 0 .. Cap /\ peak \in 0 .. Cap
    /\ pc \in [Readers -> {"idle", "read"}]
    /\ seen \in [Readers -> 0 .. Cap]
    /\ reading \in [Readers -> 0 .. Cap]
    /\ floor \in [Readers -> 0 .. Cap]

Init ==
    /\ sys \in -1 .. MaxSys
    /\ last = 0
    /\ pc = [r \in Readers |-> "idle"]
    /\ seen = [r \in Readers |-> 0]
    /\ reading = [r \in Readers |-> 0]
    /\ floor = [r \in Readers |-> 0]
    /\ highest = 0
    /\ peak = Nanos(sys)

\* The system clock advances, or is corrected in either direction.
SetClock(t) ==
    /\ sys' = t
    /\ peak' = Larger(peak, Nanos(t))
    /\ UNCHANGED <<last, pc, seen, reading, floor, highest>>

ReadSystem(r) ==
    /\ pc[r] = "idle"
    /\ pc' = [pc EXCEPT ![r] = "read"]
    /\ seen' = [seen EXCEPT ![r] = Nanos(sys)]
    /\ floor' = [floor EXCEPT ![r] = highest]
    /\ UNCHANGED <<sys, last, reading, highest, peak>>

Returns(r, v) ==
    /\ pc' = [pc EXCEPT ![r] = "idle"]
    /\ reading' = [reading EXCEPT ![r] = v]
    /\ highest' = Larger(highest, v)
    /\ UNCHANGED <<sys, seen, floor, peak>>

\* Mutant: the last writer wins.
FetchSwap(r) ==
    /\ pc[r] = "read"
    /\ last' = seen[r]
    /\ Returns(r, Larger(last, seen[r]))

\* Mutant: equal readings are forced apart.
FetchAhead(r) ==
    /\ pc[r] = "read"
    /\ last' = Larger(last + 1, seen[r])
    /\ Returns(r, Larger(last + 1, seen[r]))

\* last_nanos.fetch_max, and the reading it makes.
FetchMax(r) ==
    /\ pc[r] = "read"
    /\ last' = Larger(last, seen[r])
    /\ Returns(r, Larger(last, seen[r]))

Next ==
    \/ \E t \in -1 .. MaxSys : SetClock(t)
    \/ \E r \in Readers : ReadSystem(r) \/ FetchMax(r)

Spec == Init /\ [][Next]_vars

(* "Readings are clamped so they never run backwards" (mls.rs): a call     *)
(* returns no less than any call, of any thread, that had returned before  *)
(* it began, wherever the system clock has been moved in between.          *)
NeverBackwards ==
    \A r \in Readers : pc[r] = "idle" => reading[r] >= floor[r]

(* The clamp invents no time: no reading is ahead of every time the system *)
(* clock has shown, so a deadline does not fire early.                     *)
NeverAhead == highest <= peak /\ \A r \in Readers : reading[r] <= highest
=============================================================================
