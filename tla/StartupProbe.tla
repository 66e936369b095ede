---------------------------- MODULE StartupProbe ----------------------------
(***************************************************************************)
(* The device pool's life: run_startup_probe (crates/api/src/upstream.rs)  *)
(* asks the upstream with one device after another until one is answered,  *)
(* before the server listens; from then on failing calls rotate the pool.  *)
(*                                                                         *)
(* The probe walks the pool by index but activates by name, and names may  *)
(* be blank or shared: FQRS_DEVICE_JSON_OVERRIDE may even give one name to *)
(* the whole pool.                                                         *)
(***************************************************************************)
EXTENDS DevicePool

CONSTANTS
  MaxAttempts,      \* fq.device_pool_probe_max_attempts
  FileProfiles,     \* what fq.device_profile may be in the configuration file
  DefaultProfile    \* what it is when the file does not set it

-----------------------------------------------------------------------------
(* The boot profile, as config.rs:load leaves it without the overrides that *)
(* environment variables can make.                                          *)

\* resolve_bootstrap_profile
Bootstrap(startupName) ==
  IF Named(startupName) # {} THEN Profiles[Position(Named(startupName))]
  ELSE Profiles[0]

\* inherit_device_pool_defaults: a profile that is the default as a whole is
\* replaced; of another one, the fields given as blank are inherited.
BootProfile(profile, startupName) ==
  IF PoolSize = 0 THEN profile
  ELSE IF profile = DefaultProfile THEN Bootstrap(startupName)
  ELSE IF profile.name = NoName
         THEN [profile EXCEPT !.name = Bootstrap(startupName).name]
  ELSE profile

ASSUME StartupProbeAssumption ==
  /\ MaxAttempts \in Nat
  /\ \A profile \in FileProfiles, startupName \in StartupNames :
       BootProfile(profile, startupName) \in BootProfiles

VARIABLES
  stage,        \* where the probe stands, then "serving"
  step,
  start_index,
  boot,         \* the profile the pool started with; the code keeps its name
  asked,        \* auxiliary: the profiles with which the upstream was asked
  exhausted,    \* auxiliary: no attempt was answered
  left_at       \* auxiliary: when a rotation last left each place, 0 for never

probeVars == <<stage, step, start_index, boot, asked, exhausted, left_at>>
vars == <<clock, devicePoolVars, probeVars>>

\* max_attempts.max(1).min(profiles.len())
Attempts == Min({Max({MaxAttempts, 1}), PoolSize})

Init ==
  /\ ClockInit
  /\ \E profile \in FileProfiles, startupName \in StartupNames :
       NewPool(BootProfile(profile, startupName), startupName)
  /\ stage \in (IF PoolSize > 1 THEN {"ask", "serving"} ELSE {"serving"})
  /\ step = 0
  /\ start_index = active_index
  /\ boot = active_profile
  /\ asked = {}
  /\ exhausted = FALSE
  /\ left_at = [i \in Indices |-> 0]

-----------------------------------------------------------------------------
\* The profile of an attempt, by index.
Candidate(n) == Profiles[(start_index + n) % PoolSize]

\* activate_profile_by_name, its answer ignored.
TryActivate(name) ==
  ActivateByName(name) \/ (Named(name) = {} /\ UNCHANGED devicePoolVars)

\* probe_current_device asks with whatever device is active.
Ask ==
  /\ stage = "ask"
  /\ asked' = asked \cup {active_profile}
  /\ UNCHANGED <<clock, devicePoolVars, start_index, boot, left_at>>

\* The upstream answers, or gives the empty answer that ends the probe too.
Answered ==
  /\ Ask
  /\ stage' = "serving"
  /\ UNCHANGED <<step, exhausted>>

\* Slip: the last attempt is not made.
FailedShort ==
  /\ Ask
  /\ step' = step + 1
  /\ stage' = IF step' + 1 < Attempts THEN "switch" ELSE "restore"
  /\ UNCHANGED exhausted

Failed ==
  /\ Ask
  /\ step' = step + 1
  /\ stage' = IF step' < Attempts THEN "switch" ELSE "restore"
  /\ UNCHANGED exhausted

Switch ==
  /\ stage = "switch"
  /\ TryActivate(Candidate(step).name)
  /\ stage' = "ask"
  /\ UNCHANGED <<clock, step, start_index, boot, asked, exhausted, left_at>>

\* Slip: the name is read when it is needed, not before the walk.
RestoreCurrent ==
  /\ stage = "restore"
  /\ TryActivate(active_profile.name)
  /\ stage' = "serving"
  /\ exhausted' = TRUE
  /\ UNCHANGED <<clock, step, start_index, boot, asked, left_at>>

Restore ==
  /\ stage = "restore"
  /\ TryActivate(boot.name)
  /\ stage' = "serving"
  /\ exhausted' = TRUE
  /\ UNCHANGED <<clock, step, start_index, boot, asked, left_at>>

\* A failing call or a heal rotates the pool.
RotateServing ==
  /\ stage = "serving"
  /\ Rotate
  /\ left_at' = [left_at EXCEPT ![active_index] = clock]
  /\ UNCHANGED <<clock, stage, step, start_index, boot, asked, exhausted>>

Tick == Advance /\ UNCHANGED <<devicePoolVars, probeVars>>

Next == Answered \/ Failed \/ Switch \/ Restore \/ RotateServing \/ Tick

Spec == Init /\ [][Next]_vars

-----------------------------------------------------------------------------
\* Activating the profile's name activates the profile.
Addressable(profile) ==
  \E i \in Indices : Profiles[i] = profile /\ Position(Named(profile.name)) = i

ProbeTypeOK ==
  /\ TypeOK
  /\ stage \in {"ask", "switch", "restore", "serving"}
  /\ step \in 0 .. Attempts
  /\ stage = "switch" => step \in 1 .. Attempts - 1
  /\ start_index \in Indices \cup {NoIndex}
  /\ boot \in BootProfiles
  /\ asked \in SUBSET (Pool \cup BootProfiles)
  /\ exhausted \in BOOLEAN
  /\ left_at \in [Indices -> 0 .. clock]

(* When no device was answered, the service starts with the one it would    *)
(* have started with without the probe, provided that its name leads to it: *)
(* the first of its name in the pool.  A boot profile that shares a name    *)
(* with another, or that the pool does not hold, may be lost to the probe   *)
(* (upstream.rs:187, 237-239).                                              *)
RestoresBoot ==
  exhausted /\ last_rotate_at_ms = 0 /\ Addressable(boot)
    => active_profile = boot

(* A probe that gives up has asked with every device in its reach that a    *)
(* name leads to, starting from the one in use, round the end of the pool   *)
(* (upstream.rs:180-197).                                                   *)
AsksAllInReach ==
  exhausted => \A n \in 0 .. Attempts - 1 :
    Addressable(Candidate(n)) /\ (n = 0 => Candidate(0) = boot)
      => Candidate(n) \in asked

(* A device that a rotation has left, because the upstream refused it or    *)
(* broke under it, comes back into use only when all the others have had    *)
(* their turn and PoolSize - 1 cooldowns have passed on the real clock,     *)
(* however often callers ask for a rotation (device_pool.rs:79-109,         *)
(* 166-172).                                                                *)
DevicesRest ==
  [][\A i \in Indices :
       active_index # i /\ active_index' = i /\ left_at[i] # 0
         => clock - left_at[i] >= (PoolSize - 1) * RotateCooldownMs]_vars
=============================================================================
