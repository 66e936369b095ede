----------------------------- MODULE DevicePool -----------------------------
(***************************************************************************)
(* DevicePoolManager (crates/api/src/device_pool.rs): the active device    *)
(* profile, the pool it is taken from and the rotation cooldown, behind    *)
(* one mutex.  Every operation is one lock section, hence one action; the  *)
(* clock is read under the lock.  The operations' callers are modelled in  *)
(* StartupProbe and UpstreamCall.                                          *)
(***************************************************************************)
EXTENDS Clock, FiniteSetsExt

CONSTANTS
  PoolSize,          \* the length of fq.device_pool
  Profiles,          \* fq.device_pool, a function on 0 .. PoolSize - 1
  BootProfiles,      \* what fq.device_profile may be after config.rs:load
  StartupNames,      \* what fq.device_pool_startup_name may be
  NoName,            \* a blank name, after trim
  RotateCooldownMs   \* fq.device_rotate_cooldown_ms

Indices == 0 .. PoolSize - 1

NoIndex == -1

Pool == {Profiles[i] : i \in Indices}

\* A profile is a record; only its name and its identity matter.
ASSUME DevicePoolAssumption ==
  /\ PoolSize \in Nat
  /\ DOMAIN Profiles = Indices
  /\ RotateCooldownMs \in Nat

VARIABLES
  active_profile,
  active_index,       \* NoIndex for None
  last_rotate_at_ms

devicePoolVars == <<active_profile, active_index, last_rotate_at_ms>>

-----------------------------------------------------------------------------
\* Iterator::position over the pool.
Position(S) == IF S = {} THEN NoIndex ELSE Min(S)

\* The indices whose trimmed, non-blank name is `name'.
Named(name) == {i \in Indices : name # NoName /\ Profiles[i].name = name}

Same(profile) == {i \in Indices : Profiles[i] = profile}

ResolveActiveIndex(profile, startupName) ==
  IF PoolSize = 0 THEN NoIndex
  ELSE IF Named(profile.name) # {} THEN Position(Named(profile.name))
  ELSE IF Named(startupName) # {} THEN Position(Named(startupName))
  ELSE IF Same(profile) # {} THEN Position(Same(profile))
  ELSE 0

\* DevicePoolManager::new
NewPool(profile, startupName) ==
  /\ active_profile = profile
  /\ active_index = ResolveActiveIndex(profile, startupName)
  /\ last_rotate_at_ms = 0

DevicePoolInit ==
  \E profile \in BootProfiles, startupName \in StartupNames :
    NewPool(profile, startupName)

-----------------------------------------------------------------------------
\* Slip: one tick short.
CoolingDownShort ==
  /\ RotateCooldownMs > 0
  /\ last_rotate_at_ms > 0
  /\ clock - last_rotate_at_ms < RotateCooldownMs - 1

CoolingDown ==
  /\ RotateCooldownMs > 0
  /\ last_rotate_at_ms > 0
  /\ clock - last_rotate_at_ms < RotateCooldownMs

\* rotate_if_allowed answers true exactly when this holds.
RotationAllowed == PoolSize > 1 /\ ~CoolingDown

NextRotationIndex == (active_index + 1) % PoolSize

\* Slip: only the profile is switched, the index stays.
ActivateProfileOnly(index) ==
  /\ active_profile' = Profiles[index]
  /\ UNCHANGED active_index

Activate(index) ==
  /\ active_profile' = Profiles[index]
  /\ active_index' = index

\* Slip: the cooldown is not armed.
RotateUnstamped ==
  /\ RotationAllowed
  /\ Activate(NextRotationIndex)
  /\ UNCHANGED last_rotate_at_ms

\* rotate_if_allowed when it answers true; it changes nothing otherwise.
Rotate ==
  /\ RotationAllowed
  /\ last_rotate_at_ms' = clock
  /\ Activate(NextRotationIndex)

\* activate_profile_by_name when it answers true: the first profile of that
\* name, whatever the cooldown, which it does not arm.
ActivateByName(name) ==
  /\ Named(name) # {}
  /\ Activate(Position(Named(name)))
  /\ UNCHANGED last_rotate_at_ms

-----------------------------------------------------------------------------
TypeOK ==
  /\ clock \in Nat \ {0}
  /\ active_profile \in Pool \cup BootProfiles
  /\ active_index \in Indices \cup {NoIndex}
  /\ active_index = NoIndex <=> PoolSize = 0
  /\ last_rotate_at_ms \in 0 .. clock

(* Once the pool has rotated, the index from which the next rotation steps  *)
(* is that of the profile in use, activations by name included.  Before,   *)
(* the index may be a guess: a boot profile that the pool does not hold     *)
(* resolves to 0 (device_pool.rs:113-164).                                  *)
IndexTracksProfile ==
  last_rotate_at_ms # 0 => Profiles[active_index] = active_profile
=============================================================================
