------------------------------- MODULE Clock -------------------------------
(***************************************************************************)
(* The wall clock that fq.rs:now_ms reads.  One tick stands for some       *)
(* milliseconds; the clock starts at 1 because every timestamp field of    *)
(* the program uses 0 for "never".  MaxTime is the bound of a run.  The    *)
(* clock never steps back: the program assumes as much wherever it         *)
(* subtracts two timestamps.                                               *)
(***************************************************************************)
EXTENDS Integers

CONSTANT MaxTime

ASSUME MaxTimeAssumption == MaxTime \in Nat \ {0}

VARIABLE clock

ClockInit == clock = 1

Advance == clock < MaxTime /\ clock' = clock + 1
=============================================================================
