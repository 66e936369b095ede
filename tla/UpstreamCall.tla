---------------------------- MODULE UpstreamCall ----------------------------
(***************************************************************************)
(* One upstream call as search, directory and batch_full all make it       *)
(* (crates/api/src/upstream.rs): take the active device, send, and on an   *)
(* error rotate once and send again, or report the failure to the auto     *)
(* heal manager and heal if it says so.  Tasks run this concurrently over  *)
(* one AutoHeal and one DevicePool; between two steps of a task any step   *)
(* of another may fall.                                                    *)
(*                                                                         *)
(* Two waits are bounded by constants because nothing in the code bounds   *)
(* them below the rotation cooldown: MaxLag (see AutoHeal) and MaxHold,    *)
(* the longest time from taking a device to the rotation or the second     *)
(* request that the call decides with it.                                  *)
(***************************************************************************)
EXTENDS DevicePool, FiniteSets, Sequences

CONSTANTS
  Tasks, ErrorThreshold, WindowMs, CooldownMs, MaxLag, MaxStreak,
  Outcomes,   \* the answers the upstream may give
  MaxHold

VARIABLES
  enabled, failure_times, last_heal_at_ms, stamp, streak, heal_clock,
  pc,         \* where the task stands
  device,     \* the profile the task works with
  held_since, \* auxiliary: real time at which the task took its device
  err_run     \* auxiliary: calls that failed since the last that succeeded
              \* or healed, counted up to the threshold

AH == INSTANCE AutoHeal

autoHealVars ==
  <<enabled, failure_times, last_heal_at_ms, stamp, streak, heal_clock>>
callVars == <<pc, device, held_since, err_run>>
vars == <<clock, autoHealVars, devicePoolVars, callVars>>

\* What a call can meet, as execute_signed_json_get sorts it:
\*   ok            a JSON body that the caller accepts
\*   jsonError     a JSON body with a code other than 0, or unusable
\*   jsonIllegal   a JSON body with code 110 or ILLEGAL_ACCESS in its message
\*   rawIllegal    a body that is not JSON and holds ILLEGAL_ACCESS
\*   transport     no signature, no connection, an empty or non-2xx answer,
\*                 or any other body that is not JSON
AllOutcomes == {"ok", "jsonError", "jsonIllegal", "rawIllegal", "transport"}

ASSUME UpstreamCallAssumption ==
  /\ Outcomes \subseteq AllOutcomes
  /\ IsFiniteSet(Tasks)
  /\ {ErrorThreshold, WindowMs, CooldownMs, MaxLag, MaxStreak} \subseteq Nat
  /\ MaxHold \in Nat

Json == {"ok", "jsonError", "jsonIllegal"}

\* should_rotate_after_error
AsksRotation(outcome) == outcome \in {"jsonIllegal", "rawIllegal"}

-----------------------------------------------------------------------------
Init ==
  /\ ClockInit
  /\ AH!AutoHealInit
  /\ DevicePoolInit
  /\ pc = [t \in Tasks |-> "idle"]
  /\ device = [t \in Tasks |-> active_profile]
  /\ held_since = [t \in Tasks |-> 0]
  /\ err_run = 0

Goto(t, place) == pc' = [pc EXCEPT ![t] = place]

TakeDevice(t) ==
  /\ device' = [device EXCEPT ![t] = active_profile]
  /\ held_since' = [held_since EXCEPT ![t] = clock]

\* Slip: a second request reuses the clone of the first.
SendWithFirstDevice(t) ==
  /\ pc[t] \in {"idle", "retry"}
  /\ Goto(t, IF pc[t] = "idle" THEN "sent" ELSE "resent")
  /\ device' = [device EXCEPT ![t] =
                  IF pc[t] = "idle" THEN active_profile ELSE @]
  /\ held_since' = [held_since EXCEPT ![t] = clock]
  /\ UNCHANGED <<clock, autoHealVars, devicePoolVars, err_run>>

\* The first line of *_once: clone the active profile, then send with it.
Send(t) ==
  /\ pc[t] \in {"idle", "retry"}
  /\ Goto(t, IF pc[t] = "idle" THEN "sent" ELSE "resent")
  /\ TakeDevice(t)
  /\ UNCHANGED <<clock, autoHealVars, devicePoolVars, err_run>>

\* Slip: success is recorded whatever came back.
AnswerAlwaysSuccess(t, outcome) ==
  /\ pc[t] \in {"sent", "resent"}
  /\ AH!RecordSuccess
  /\ Goto(t, IF outcome = "ok" THEN "idle"
             ELSE IF pc[t] = "sent" /\ AsksRotation(outcome) THEN "rotate"
             ELSE "failed")
  /\ err_run' = IF outcome = "ok" THEN 0 ELSE err_run
  /\ UNCHANGED <<clock, devicePoolVars, device, held_since>>

\* The end of execute_signed_json_get and its caller's check of the code.
\* record_success runs for every JSON body, before the code is looked at.
Answer(t, outcome) ==
  /\ pc[t] \in {"sent", "resent"}
  /\ IF outcome \in Json THEN AH!RecordSuccess ELSE UNCHANGED autoHealVars
  /\ Goto(t, IF outcome = "ok" THEN "idle"
             ELSE IF pc[t] = "sent" /\ AsksRotation(outcome) THEN "rotate"
             ELSE "failed")
  /\ err_run' = IF outcome = "ok" THEN 0 ELSE err_run
  /\ UNCHANGED <<clock, devicePoolVars, device, held_since>>

\* rotate_device_if_allowed answers true: the call is made once more.
RotateAndRetry(t) ==
  /\ pc[t] = "rotate"
  /\ Rotate
  /\ Goto(t, "retry")
  /\ UNCHANGED <<clock, autoHealVars, device, held_since, err_run>>

\* It answers false: the error stands, even if another task has meanwhile
\* moved the pool to a device that would have worked.
RotationRefused(t) ==
  /\ pc[t] = "rotate"
  /\ ~RotationAllowed
  /\ Goto(t, "failed")
  /\ UNCHANGED <<clock, autoHealVars, devicePoolVars, device, held_since,
                 err_run>>

-----------------------------------------------------------------------------
\* auto_heal_after_error, in five steps.
ReportFailure(t) ==
  /\ pc[t] = "failed"
  /\ AH!StampFailure(t)
  /\ Goto(t, "reported")
  /\ UNCHANGED <<clock, devicePoolVars, device, held_since, err_run>>

OneMore(n) == IF n < AH!Threshold THEN n + 1 ELSE n

DecideHeal(t) ==
  /\ pc[t] = "reported"
  /\ AH!RecordFailure(t)
  /\ IF AH!ShouldHeal(stamp[t])
       THEN Goto(t, "heal") /\ err_run' = 0
       ELSE Goto(t, "idle") /\ err_run' = OneMore(err_run)
  /\ UNCHANGED <<clock, devicePoolVars, device, held_since>>

\* Read the active profile and invalidate the register keys of its
\* fingerprint (what invalidate does is modelled in RegisterKey).
HealInvalidate(t) ==
  /\ pc[t] = "heal"
  /\ TakeDevice(t)
  /\ Goto(t, "healRotate")
  /\ UNCHANGED <<clock, autoHealVars, devicePoolVars, err_run>>

HealRotate(t) ==
  /\ pc[t] = "healRotate"
  /\ Rotate \/ (~RotationAllowed /\ UNCHANGED devicePoolVars)
  /\ Goto(t, "healRestart")
  /\ UNCHANGED <<clock, autoHealVars, device, held_since, err_run>>

\* The signer restart has been awaited (the signer thread is not modelled
\* here): the call returns its error.
HealRestarted(t) ==
  /\ pc[t] = "healRestart"
  /\ Goto(t, "idle")
  /\ UNCHANGED <<clock, autoHealVars, devicePoolVars, device, held_since,
                 err_run>>

-----------------------------------------------------------------------------
\* The places where the task still acts on the device it took.
Holding(t) == pc[t] \in {"sent", "rotate", "retry", "healRotate"}

HoldAllowsTick == \A t \in Tasks : Holding(t) => clock - held_since[t] < MaxHold

Tick ==
  /\ Advance
  /\ AH!LagAllowsTick
  /\ HoldAllowsTick
  /\ UNCHANGED <<autoHealVars, devicePoolVars, callVars>>

Step(t) ==
  \/ Send(t)
  \/ \E outcome \in Outcomes : Answer(t, outcome)
  \/ RotateAndRetry(t)
  \/ RotationRefused(t)
  \/ ReportFailure(t)
  \/ DecideHeal(t)
  \/ HealInvalidate(t)
  \/ HealRotate(t)
  \/ HealRestarted(t)

Next == Tick \/ \E t \in Tasks : Step(t)

Spec == Init /\ [][Next]_vars

-----------------------------------------------------------------------------
Places == {"idle", "sent", "rotate", "retry", "resent", "failed", "reported",
           "heal", "healRotate", "healRestart"}

(* Types; a task has a failure stamp exactly while it is in                 *)
(* record_failure_and_should_heal, which reads the clock itself.            *)
CallTypeOK ==
  /\ AH!TypeOK
  /\ TypeOK
  /\ pc \in [Tasks -> Places]
  /\ device \in [Tasks -> Pool \cup BootProfiles]
  /\ held_since \in [Tasks -> 0 .. clock]
  /\ err_run \in 0 .. AH!Threshold
  /\ \A t \in Tasks : stamp[t] # 0 <=> pc[t] = "reported"

(* When calls are shorter than the rotation cooldown, a call that may       *)
(* rotate the pool moves it off the very device that failed it, and a heal  *)
(* off the device whose register keys it invalidated: two calls failing on  *)
(* one device never rotate twice and never rotate a healthy device away     *)
(* (upstream.rs:262, 347, 372, 1525-1528; device_pool.rs:96-109).           *)
RotationLeavesFailedDevice ==
  \A t \in Tasks :
    pc[t] \in {"rotate", "healRotate"} /\ RotationAllowed
      => active_profile = device[t]

(* The second request of a call does not go to the device that has just     *)
(* failed it (upstream.rs:264, 349, 375 after 287, 320, 395).               *)
RetryOnOtherDevice ==
  [][\A t \in Tasks : pc[t] = "retry" /\ pc'[t] = "resent"
                        => device'[t] # device[t]]_vars

(* A heal needs at least `Threshold' calls that really failed, with no      *)
(* successful call between, whichever tasks made them and in whatever order *)
(* they reported (upstream.rs:1520-1523).                                   *)
HealNeedsFailedCalls ==
  \A t \in Tasks : pc[t] = "reported" /\ AH!ShouldHeal(stamp[t])
                      => err_run + 1 >= AH!Threshold

(* README.md:59 describes fq.auto_heal as the self-healing "after           *)
(* consecutive errors": with auto heal on, no cooldown to wait for and all  *)
(* failures inside the window, error_threshold calls do not fail in a row   *)
(* without a heal.                                                          *)
ConsecutiveErrorsHeal ==
  enabled /\ CooldownMs = 0 /\ WindowMs >= MaxTime => err_run < AH!Threshold
=============================================================================
