------------------------------ MODULE AutoHeal ------------------------------
(***************************************************************************)
(* AutoHealManager (crates/api/src/auto_heal.rs): a window of recent       *)
(* failure times behind a mutex, a threshold and a cooldown, which decide  *)
(* when the service heals itself.                                          *)
(*                                                                         *)
(* record_failure_and_should_heal reads the clock BEFORE it takes the lock *)
(* (line 40), so that calls may enter the lock in another order than that  *)
(* of their stamps; a call is two steps here, StampFailure and             *)
(* RecordFailure.  MaxLag bounds the time a call spends between the two:   *)
(* the code does not bound it, the scheduler does.                         *)
(***************************************************************************)
EXTENDS Clock, Sequences, FiniteSets

CONSTANTS
  Tasks,           \* the request tasks that share the manager
  ErrorThreshold,  \* fq.auto_heal.error_threshold
  WindowMs,        \* fq.auto_heal.window_ms
  CooldownMs,      \* fq.auto_heal.cooldown_ms
  MaxLag,          \* longest wait between the stamp and the lock
  MaxStreak        \* bound of a run: failures recorded in a row

ASSUME AutoHealAssumption ==
  /\ IsFiniteSet(Tasks)
  /\ {ErrorThreshold, WindowMs, CooldownMs, MaxLag, MaxStreak} \subseteq Nat

VARIABLES
  enabled,          \* fq.auto_heal.enabled
  failure_times,
  last_heal_at_ms,
  stamp,            \* the `now' of a call before the lock, 0 outside a call
  streak,           \* auxiliary: failures since the last success or heal
  heal_clock        \* auxiliary: real time of the last heal decision

autoHealVars ==
  <<enabled, failure_times, last_heal_at_ms, stamp, streak, heal_clock>>

\* AutoHealManager::new stores error_threshold.max(1).
Threshold == IF ErrorThreshold = 0 THEN 1 ELSE ErrorThreshold

AutoHealInit ==
  /\ enabled \in BOOLEAN
  /\ failure_times = <<>>
  /\ last_heal_at_ms = 0
  /\ stamp = [t \in Tasks |-> 0]
  /\ streak = 0
  /\ heal_clock = 0

-----------------------------------------------------------------------------
Stale(time, s) == s - time > WindowMs

\* The first failure that is not stale at s, or one past the end: the front
\* where trim_window stops, whatever comes behind it.
FirstFresh(times, s) ==
  CHOOSE i \in 1 .. Len(times) + 1 :
    /\ i <= Len(times) => ~Stale(times[i], s)
    /\ \A j \in 1 .. i - 1 : Stale(times[j], s)

\* Slip (for the mutation runs): `if' for `while', at most one front goes.
TrimmedOnce(times, s) ==
  IF times # <<>> /\ Stale(times[1], s) THEN Tail(times) ELSE times

Trimmed(times, s) ==
  IF WindowMs = 0 THEN <<>>
                  ELSE SubSeq(times, FirstFresh(times, s), Len(times))

\* The failures a call stamped s counts, its own included.
Counted(s) == Append(Trimmed(failure_times, s), s)

CoolingDown(s) ==
  /\ CooldownMs > 0
  /\ last_heal_at_ms > 0
  /\ s - last_heal_at_ms < CooldownMs

\* What record_failure_and_should_heal answers to the call stamped s.
ShouldHeal(s) ==
  enabled /\ Len(Counted(s)) >= Threshold /\ ~CoolingDown(s)

InCall(t) == stamp[t] # 0

Pending == {t \in Tasks : InCall(t)}

-----------------------------------------------------------------------------
\* Slip: a success leaves the failures in the window.
RecordSuccessNoClear ==
  /\ streak' = 0
  /\ UNCHANGED <<enabled, failure_times, last_heal_at_ms, stamp, heal_clock>>

RecordSuccess ==
  /\ failure_times' = <<>>
  /\ streak' = 0
  /\ UNCHANGED <<enabled, last_heal_at_ms, stamp, heal_clock>>

StampFailure(t) ==
  /\ ~InCall(t)
  /\ streak + Cardinality(Pending) < MaxStreak
  /\ stamp' = [stamp EXCEPT ![t] = clock]
  /\ UNCHANGED <<enabled, failure_times, last_heal_at_ms, streak, heal_clock>>

\* auto_heal.enabled is false: nothing is recorded.
Ignore ==
  /\ ~enabled
  /\ UNCHANGED <<failure_times, last_heal_at_ms, streak, heal_clock>>

Count(s) ==
  /\ enabled /\ ~ShouldHeal(s)
  /\ failure_times' = Counted(s)
  /\ streak' = streak + 1
  /\ UNCHANGED <<last_heal_at_ms, heal_clock>>

\* Slip: the instant of the heal is not stored.
HealUnstamped(s) ==
  /\ ShouldHeal(s)
  /\ failure_times' = <<>>
  /\ streak' = 0
  /\ heal_clock' = clock
  /\ UNCHANGED last_heal_at_ms

Heal(s) ==
  /\ ShouldHeal(s)
  /\ last_heal_at_ms' = s
  /\ failure_times' = <<>>
  /\ streak' = 0
  /\ heal_clock' = clock

\* The section of record_failure_and_should_heal under the lock.
RecordFailure(t) ==
  /\ InCall(t)
  /\ Ignore \/ Count(stamp[t]) \/ Heal(stamp[t])
  /\ stamp' = [stamp EXCEPT ![t] = 0]
  /\ UNCHANGED enabled

\* No call waits for the lock longer than MaxLag.
LagAllowsTick == \A t \in Pending : clock - stamp[t] < MaxLag

-----------------------------------------------------------------------------
Tick == LagAllowsTick /\ Advance /\ UNCHANGED autoHealVars

Init == ClockInit /\ AutoHealInit

Next ==
  \/ RecordSuccess /\ UNCHANGED clock
  \/ \E t \in Tasks : StampFailure(t) /\ UNCHANGED clock
  \/ \E t \in Tasks : RecordFailure(t) /\ UNCHANGED clock
  \/ Tick

vars == <<clock, autoHealVars>>

Spec == Init /\ [][Next]_vars

-----------------------------------------------------------------------------
(* Type invariant.  Recorded times are real past instants: never 0, which   *)
(* would read as "never", and never ahead of the clock.                     *)
TypeOK ==
  /\ clock \in Nat \ {0}
  /\ enabled \in BOOLEAN
  /\ failure_times \in Seq(1 .. clock)
  /\ last_heal_at_ms \in 0 .. clock
  /\ stamp \in [Tasks -> 0 .. clock]
  /\ streak \in Nat
  /\ heal_clock \in 0 .. clock

(* A heal is decided only after at least `Threshold' failures in a row,     *)
(* with no success and no other heal between them, whatever the order in    *)
(* which concurrent calls entered the lock (auto_heal.rs:33-37, 51-65).     *)
HealOnEvidence ==
  \A t \in Pending : ShouldHeal(stamp[t]) => streak + 1 >= Threshold

(* trim_window stops at the first fresh failure and the queue need not be   *)
(* sorted, so stale failures can hide behind a fresh one.  They are still   *)
(* at most WindowMs + MaxLag old (auto_heal.rs:40, 69-81).                  *)
CountedRecent ==
  \A t \in Pending : \A i \in DOMAIN Counted(stamp[t]) :
    stamp[t] - Counted(stamp[t])[i] <= WindowMs + MaxLag

(* The cooldown compares stamps taken before the lock; on the real clock    *)
(* two heal decisions are still CooldownMs - MaxLag apart: the manager      *)
(* implements a cooldown gate (auto_heal.rs:56-63).                         *)
Gate == INSTANCE CooldownGate WITH Gap <- CooldownMs - MaxLag,
                                   last <- heal_clock

HealsApart == Gate!Spec
=============================================================================
