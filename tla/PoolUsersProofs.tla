--------------------------- MODULE PoolUsersProofs ---------------------------
(***************************************************************************)
(* Proofs about the two that drive the device pool step by step: its       *)
(* startup probe, for every pool, boot profile, number of attempts and     *)
(* cooldown, and a search, for every pool, queries, answers, signer and    *)
(* lists of what to drop.                                                  *)
(***************************************************************************)
EXTENDS StartupProbe, SearchFlow, DevicePoolProofs, FiniteSetTheorems,
        SequenceTheorems

(***************************************************************************)
(* StartupProbe                                                            *)
(***************************************************************************)
\* A probe that waits for an answer has attempts left; one that gives up has
\* none; the pool does not rotate before the probe is over.
Walk ==
  /\ stage # "serving" => PoolSize > 1 /\ last_rotate_at_ms = 0
  /\ stage = "ask" => step < Attempts
  /\ stage = "restore" \/ exhausted => step = Attempts
  /\ exhausted => stage = "serving"

\* The attempts whose device can be relied upon to be asked with.
InReach(n) ==
  Addressable(Candidate(n)) /\ (n = 0 => Candidate(0) = boot)

\* Where the probe asks, the device in use is the candidate of the attempt.
Asking ==
  /\ stage = "ask" /\ step = 0 => active_profile = boot
  /\ stage = "ask" /\ step > 0 /\ Addressable(Candidate(step))
       => active_profile = Candidate(step)

AskedSoFar == \A n \in 0 .. step - 1 : InReach(n) => Candidate(n) \in asked

PInv == ProbeTypeOK /\ IndexTracksProfile /\ Walk /\ RestoresBoot
WInv == PInv /\ Asking /\ AskedSoFar

-----------------------------------------------------------------------------
LEMMA ProbeNumbers == PoolSize \in Nat /\ RotateCooldownMs \in Nat /\ MaxAttempts \in Nat
BY DevicePoolAssumption, StartupProbeAssumption

LEMMA AttemptsBounds ==
  /\ Attempts \in 0 .. PoolSize
  /\ PoolSize > 0 => Attempts > 0
<1>1. PICK m \in Nat : m >= 1 /\ m = Max({MaxAttempts, 1})
  BY ProbeNumbers DEF Max
<1>2. Min({m, PoolSize}) = IF m <= PoolSize THEN m ELSE PoolSize
  BY <1>1, ProbeNumbers DEF Min
<1> QED
  BY <1>1, <1>2, ProbeNumbers DEF Attempts

\* An activation by name keeps the cooldown; it finds the addressable ones.
LEMMA TryActivateTyped ==
  ASSUME TypeOK, NEW name, TryActivate(name)
  PROVE  /\ last_rotate_at_ms' = last_rotate_at_ms
         /\ active_profile' \in Pool \cup BootProfiles
         /\ active_index' \in Indices \cup {NoIndex}
         /\ active_index' = NoIndex <=> PoolSize = 0
         /\ IndexTracksProfile => IndexTracksProfile'
<1>1. CASE ActivateByName(name)
  <2>1. Position(Named(name)) \in Indices
    BY <1>1, PositionInSet, NamedIndices DEF ActivateByName
  <2>2. Activate(Position(Named(name))) /\ last_rotate_at_ms' = last_rotate_at_ms
    BY <1>1 DEF ActivateByName
  <2>3. PoolSize # 0 /\ NoIndex \notin Indices
    BY <2>1, ProbeNumbers DEF Indices, NoIndex
  <2> QED
    BY <2>1, <2>2, <2>3, ActivateAgrees DEF IndexTracksProfile
<1>2. CASE UNCHANGED devicePoolVars
  BY <1>2 DEF devicePoolVars, TypeOK, IndexTracksProfile
<1> QED
  BY <1>1, <1>2 DEF TryActivate

LEMMA TryActivateFinds ==
  ASSUME NEW profile, Addressable(profile), TryActivate(profile.name)
  PROVE  active_profile' = profile
<1>1. PICK i \in Indices : Profiles[i] = profile /\ Position(Named(profile.name)) = i
  BY DEF Addressable
<1>2. Named(profile.name) # {}
  BY <1>1, ProbeNumbers DEF Position, NoIndex, Indices
<1> QED
  BY <1>1, <1>2, ActivateAgrees DEF TryActivate, ActivateByName

-----------------------------------------------------------------------------
LEMMA InitWInv == Init => WInv
<1> SUFFICES ASSUME Init PROVE WInv
  OBVIOUS
<1>1. PICK profile \in FileProfiles, name \in StartupNames :
        NewPool(BootProfile(profile, name), name)
  BY DEF Init
<1>2. /\ active_profile \in BootProfiles
      /\ active_index \in Indices \cup {NoIndex}
      /\ active_index = NoIndex <=> PoolSize = 0
      /\ last_rotate_at_ms = 0
  BY <1>1, ResolvedIndex, StartupProbeAssumption DEF NewPool
<1>3. /\ clock = 1 /\ start_index = active_index /\ boot = active_profile
      /\ step = 0 /\ asked = {} /\ exhausted = FALSE
      /\ left_at = [i \in Indices |-> 0]
  BY DEF Init, ClockInit
<1>4. stage \in {"ask", "serving"} /\ (stage = "ask" => PoolSize > 1)
  BY DEF Init
<1>5. TypeOK
  BY <1>2, <1>3 DEF TypeOK
<1>6. ProbeTypeOK
  <2>1. exhausted \in BOOLEAN
    BY <1>3
  <2>2. /\ stage \in {"ask", "switch", "restore", "serving"} /\ stage # "switch"
        /\ step \in 0 .. Attempts /\ asked \in SUBSET (Pool \cup BootProfiles)
    BY <1>3, <1>4, AttemptsBounds, ProbeNumbers
  <2>3. left_at \in [Indices -> 0 .. clock]
    BY <1>3
  <2> QED
    BY <1>2, <1>3, <1>5, <2>1, <2>2, <2>3 DEF ProbeTypeOK
<1>7. Walk
  BY <1>2, <1>3, <1>4, AttemptsBounds, ProbeNumbers DEF Walk
<1>8. IndexTracksProfile /\ RestoresBoot /\ Asking /\ AskedSoFar
  BY <1>2, <1>3 DEF IndexTracksProfile, RestoresBoot, Asking, AskedSoFar
<1> QED
  BY <1>6, <1>7, <1>8 DEF WInv, PInv

\* What the invariant tells of a state in which the probe asks.
LEMMA AskKeeps ==
  ASSUME PInv, Ask
  PROVE  /\ step \in 0 .. Attempts - 1 /\ Attempts \in Nat
         /\ ~exhausted /\ last_rotate_at_ms = 0 /\ TypeOK'
         /\ start_index' \in Indices \cup {NoIndex} /\ boot' \in BootProfiles
         /\ asked' \in SUBSET (Pool \cup BootProfiles)
         /\ left_at' \in [Indices -> 0 .. clock']
<1>1. /\ stage = "ask" /\ asked' = asked \cup {active_profile}
      /\ UNCHANGED <<clock, active_profile, active_index, last_rotate_at_ms>>
      /\ UNCHANGED <<start_index, boot, left_at>>
  BY DEF Ask, devicePoolVars
<1>2. Attempts \in Nat /\ step \in 0 .. Attempts - 1
  BY <1>1, AttemptsBounds, ProbeNumbers DEF PInv, ProbeTypeOK, Walk
<1>3. TypeOK'
  BY <1>1 DEF PInv, ProbeTypeOK, TypeOK
<1>4. ~exhausted /\ last_rotate_at_ms = 0
  BY <1>1 DEF PInv, Walk
<1> QED
  BY <1>1, <1>2, <1>3, <1>4 DEF PInv, ProbeTypeOK, TypeOK

LEMMA AnsweredPInv == ASSUME PInv, Answered PROVE PInv'
<1>1. /\ Ask /\ stage = "ask" /\ stage' = "serving"
      /\ UNCHANGED <<clock, active_profile, active_index, last_rotate_at_ms,
                     step, exhausted>>
  BY DEF Answered, Ask, devicePoolVars
<1>2. exhausted' \in BOOLEAN /\ ~exhausted'
  BY <1>1, AskKeeps DEF PInv, ProbeTypeOK
<1>3. ProbeTypeOK'
  BY <1>1, <1>2, AskKeeps DEF PInv, ProbeTypeOK
<1>4. IndexTracksProfile' /\ Walk' /\ RestoresBoot'
  BY <1>1, <1>2 DEF PInv, IndexTracksProfile, Walk, RestoresBoot
<1> QED
  BY <1>3, <1>4 DEF PInv

LEMMA FailedPInv == ASSUME PInv, Failed PROVE PInv'
<1>1. /\ Ask /\ stage = "ask" /\ step' = step + 1
      /\ stage' = IF step' < Attempts THEN "switch" ELSE "restore"
      /\ UNCHANGED <<clock, active_profile, active_index, last_rotate_at_ms,
                     exhausted>>
  BY DEF Failed, Ask, devicePoolVars
<1>2. exhausted' \in BOOLEAN /\ ~exhausted'
  BY <1>1, AskKeeps DEF PInv, ProbeTypeOK
<1>3. step' \in 0 .. Attempts /\ (stage' = "switch" => step' \in 1 .. Attempts - 1)
      /\ (stage' = "restore" => step' = Attempts)
  BY <1>1, AskKeeps
<1>4. ProbeTypeOK'
  BY <1>1, <1>2, <1>3, AskKeeps DEF PInv, ProbeTypeOK
<1>5. Walk'
  BY <1>1, <1>2, <1>3 DEF PInv, Walk
<1>6. IndexTracksProfile' /\ RestoresBoot'
  BY <1>1, <1>2 DEF PInv, IndexTracksProfile, RestoresBoot
<1> QED
  BY <1>4, <1>5, <1>6 DEF PInv

\* What the two steps that activate by name leave of the types.
LEMMA NamedStepTyped ==
  ASSUME PInv, NEW name, TryActivate(name), UNCHANGED clock
  PROVE  TypeOK' /\ IndexTracksProfile' /\ last_rotate_at_ms' = last_rotate_at_ms
<1>1. TypeOK
  BY DEF PInv, ProbeTypeOK
<1>2. /\ last_rotate_at_ms' = last_rotate_at_ms
      /\ active_profile' \in Pool \cup BootProfiles
      /\ active_index' \in Indices \cup {NoIndex}
      /\ active_index' = NoIndex <=> PoolSize = 0
      /\ IndexTracksProfile'
  BY <1>1, TryActivateTyped DEF PInv
<1> QED
  BY <1>1, <1>2 DEF TypeOK

LEMMA SwitchPInv == ASSUME PInv, Switch PROVE PInv'
<1>1. /\ stage = "switch" /\ stage' = "ask" /\ TryActivate(Candidate(step).name)
      /\ UNCHANGED <<clock, step, start_index, boot, asked, exhausted, left_at>>
  BY DEF Switch
<1>2. TypeOK' /\ IndexTracksProfile' /\ last_rotate_at_ms' = last_rotate_at_ms
  BY <1>1, NamedStepTyped
<1>3. exhausted' \in BOOLEAN /\ ~exhausted'
  BY <1>1 DEF PInv, ProbeTypeOK, Walk
<1>4. ProbeTypeOK'
  <2>1. asked' \in SUBSET (Pool \cup BootProfiles) /\ boot' \in BootProfiles
        /\ start_index' \in Indices \cup {NoIndex} /\ step' \in 0 .. Attempts
        /\ left_at' \in [Indices -> 0 .. clock']
    BY <1>1 DEF PInv, ProbeTypeOK
  <2> QED
    BY <1>1, <1>2, <1>3, <2>1 DEF ProbeTypeOK
<1>5. Walk'
  BY <1>1, <1>2, <1>3, AttemptsBounds, ProbeNumbers DEF PInv, ProbeTypeOK, Walk
<1>6. RestoresBoot'
  BY <1>3 DEF RestoresBoot
<1> QED
  BY <1>2, <1>4, <1>5, <1>6 DEF PInv

LEMMA RestorePInv == ASSUME PInv, Restore PROVE PInv'
<1>1. /\ stage = "restore" /\ stage' = "serving" /\ TryActivate(boot.name)
      /\ exhausted' = TRUE /\ UNCHANGED <<clock, step, start_index, boot, asked, left_at>>
  BY DEF Restore
<1>2. TypeOK' /\ IndexTracksProfile' /\ last_rotate_at_ms' = last_rotate_at_ms
  BY <1>1, NamedStepTyped
<1>3. ProbeTypeOK'
  <2>1. asked' \in SUBSET (Pool \cup BootProfiles) /\ boot' \in BootProfiles
        /\ start_index' \in Indices \cup {NoIndex} /\ step' \in 0 .. Attempts
        /\ left_at' \in [Indices -> 0 .. clock']
    BY <1>1 DEF PInv, ProbeTypeOK
  <2> QED
    BY <1>1, <1>2, <2>1 DEF ProbeTypeOK
<1>4. Walk'
  BY <1>1 DEF PInv, Walk
<1>5. RestoresBoot'
  <2> SUFFICES ASSUME Addressable(boot) PROVE active_profile' = boot
    BY <1>1 DEF RestoresBoot, Addressable
  <2> QED
    BY <1>1, TryActivateFinds
<1> QED
  BY <1>2, <1>3, <1>4, <1>5 DEF PInv

LEMMA RotatePInv == ASSUME PInv, RotateServing PROVE PInv'
<1>1. /\ stage = "serving" /\ Rotate
      /\ left_at' = [left_at EXCEPT ![active_index] = clock]
      /\ UNCHANGED <<clock, stage, step, start_index, boot, asked, exhausted>>
  BY DEF RotateServing
<1>2. TypeOK
  BY DEF PInv, ProbeTypeOK
<1>3. /\ last_rotate_at_ms' = clock /\ Profiles[active_index'] = active_profile'
      /\ active_profile' \in Pool /\ active_index' \in Indices
      /\ PoolSize > 1
  BY <1>1, <1>2, RotateTyped
<1>4. TypeOK'
  <2>1. NoIndex \notin Indices
    BY ProbeNumbers DEF NoIndex, Indices
  <2> QED
    BY <1>1, <1>2, <1>3, <2>1 DEF TypeOK
<1>5. ProbeTypeOK' /\ Walk'
  <2>1. left_at' \in [Indices -> 0 .. clock']
    <3>1. /\ left_at \in [Indices -> 0 .. clock] /\ clock \in 0 .. clock
          /\ clock' = clock
      BY <1>1, <1>2 DEF PInv, ProbeTypeOK, TypeOK
    <3> QED
      BY <1>1, <3>1
  <2> QED
    BY <1>1, <1>4, <2>1 DEF PInv, ProbeTypeOK, Walk
<1>6. IndexTracksProfile' /\ RestoresBoot'
  BY <1>2, <1>3 DEF IndexTracksProfile, RestoresBoot, TypeOK
<1> QED
  BY <1>5, <1>6 DEF PInv

LEMMA TickPInv == ASSUME PInv, Tick PROVE PInv'
<1>1. /\ clock' = clock + 1
      /\ UNCHANGED <<active_profile, active_index, last_rotate_at_ms, stage,
                     step, start_index, boot, asked, exhausted, left_at>>
  BY DEF Tick, Advance, devicePoolVars, probeVars
<1>2. TypeOK'
  BY <1>1 DEF PInv, ProbeTypeOK, TypeOK
<1>3. ProbeTypeOK'
  <2>1. left_at' \in [Indices -> 0 .. clock']
    BY <1>1 DEF PInv, ProbeTypeOK, TypeOK
  <2> QED
    BY <1>1, <1>2, <2>1 DEF PInv, ProbeTypeOK
<1> QED
  BY <1>1, <1>3 DEF PInv, Walk, IndexTracksProfile, RestoresBoot

LEMMA NextPInv == PInv /\ [Next]_vars => PInv'
<1> SUFFICES ASSUME PInv, [Next]_vars PROVE PInv'
  OBVIOUS
<1>1. CASE UNCHANGED vars
  <2>1. UNCHANGED <<clock, active_profile, active_index, last_rotate_at_ms, stage,
                    step, start_index, boot, asked, exhausted, left_at>>
    BY <1>1 DEF vars, devicePoolVars, probeVars
  <2>2. ProbeTypeOK'
    BY <2>1 DEF PInv, ProbeTypeOK, TypeOK
  <2> QED
    BY <2>1, <2>2 DEF PInv, Walk, IndexTracksProfile, RestoresBoot
<1> QED
  BY <1>1, AnsweredPInv, FailedPInv, SwitchPInv, RestorePInv, RotatePInv,
     TickPInv DEF Next

-----------------------------------------------------------------------------
\* Nothing that the walk's invariant speaks of is undone by these steps.
LEMMA AnsweredWalk == ASSUME WInv, Answered PROVE Asking' /\ AskedSoFar'
<1>1. /\ stage' = "serving" /\ asked \in SUBSET asked'
      /\ UNCHANGED <<start_index, boot, step>>
  BY DEF Answered, Ask
<1> QED
  BY <1>1 DEF WInv, Asking, AskedSoFar, InReach, Candidate, Addressable

LEMMA FailedWalk == ASSUME WInv, Failed PROVE Asking' /\ AskedSoFar'
<1>1. /\ stage = "ask" /\ stage' # "ask" /\ step' = step + 1
      /\ asked' = asked \cup {active_profile}
      /\ UNCHANGED <<start_index, boot>>
  BY DEF Failed, Ask
<1>2. step \in Nat
  BY AttemptsBounds, ProbeNumbers DEF WInv, PInv, ProbeTypeOK
<1>3. \A n \in 0 .. step - 1 : InReach(n) => Candidate(n) \in asked'
  BY <1>1 DEF WInv, AskedSoFar
<1>4. InReach(step) => Candidate(step) = active_profile
  BY <1>1, <1>2 DEF WInv, Asking, InReach
<1>5. \A n \in 0 .. step' - 1 : InReach(n) => Candidate(n) \in asked'
  BY <1>1, <1>2, <1>3, <1>4
<1>6. \A n : InReach(n)' <=> InReach(n)
  BY <1>1 DEF InReach, Candidate, Addressable
<1>7. \A n : Candidate(n)' = Candidate(n)
  BY <1>1 DEF Candidate
<1> QED
  BY <1>1, <1>5, <1>6, <1>7 DEF Asking, AskedSoFar

LEMMA SwitchWalk == ASSUME WInv, Switch PROVE Asking' /\ AskedSoFar'
<1>1. /\ stage = "switch" /\ TryActivate(Candidate(step).name)
      /\ UNCHANGED <<start_index, boot, step, asked>>
  BY DEF Switch
<1>2. step \in 1 .. Attempts - 1 /\ Attempts \in Nat
  BY <1>1, AttemptsBounds, ProbeNumbers DEF WInv, PInv, ProbeTypeOK
<1>3. Addressable(Candidate(step)) => active_profile' = Candidate(step)
  BY <1>1, TryActivateFinds
<1>4. Asking'
  BY <1>1, <1>2, <1>3 DEF Asking, Candidate, Addressable
<1>5. AskedSoFar'
  BY <1>1 DEF WInv, AskedSoFar, InReach, Candidate, Addressable
<1> QED
  BY <1>4, <1>5

LEMMA OtherWalk ==
  ASSUME WInv, Restore \/ RotateServing \/ Tick \/ UNCHANGED vars
  PROVE  Asking' /\ AskedSoFar'
<1>1. UNCHANGED <<start_index, boot, step, asked>>
  BY DEF Restore, RotateServing, Tick, vars, probeVars
<1>2. stage' # "ask" \/ UNCHANGED <<stage, active_profile>>
  BY DEF Restore, RotateServing, Tick, vars, probeVars, devicePoolVars
<1> QED
  BY <1>1, <1>2 DEF WInv, Asking, AskedSoFar, InReach, Candidate, Addressable

LEMMA NextWInv == WInv /\ [Next]_vars => WInv'
<1> SUFFICES ASSUME WInv, [Next]_vars PROVE WInv'
  OBVIOUS
<1>1. PInv'
  BY NextPInv DEF WInv
<1>2. Asking' /\ AskedSoFar'
  BY AnsweredWalk, FailedWalk, SwitchWalk, OtherWalk DEF Next
<1> QED
  BY <1>1, <1>2 DEF WInv

LEMMA Invariance == Spec => []WInv
BY InitWInv, NextWInv, PTL DEF Spec

(* The pool's and the probe's state is well typed: the walk stays within    *)
(* the pool whatever is configured (device_pool.rs, upstream.rs:170-244).   *)
THEOREM TypeCorrect == Spec => []ProbeTypeOK
<1>1. WInv => ProbeTypeOK
  BY DEF WInv, PInv
<1> QED
  BY Invariance, <1>1, PTL

(* For every pool and every boot profile, index and active profile agree    *)
(* from the first rotation on (device_pool.rs:113-131).                     *)
THEOREM IndexFollows == Spec => []IndexTracksProfile
<1>1. WInv => IndexTracksProfile
  BY DEF WInv, PInv
<1> QED
  BY Invariance, <1>1, PTL

(* A probe that no device answered restores a boot device that its name     *)
(* leads to (upstream.rs:237-239).                                          *)
THEOREM Restores == Spec => []RestoresBoot
<1>1. WInv => RestoresBoot
  BY DEF WInv, PInv
<1> QED
  BY Invariance, <1>1, PTL

(* A probe that gives up has asked with every device in its reach, however  *)
(* long the pool and wherever it starts (upstream.rs:180-197).              *)
THEOREM AsksAll == Spec => []AsksAllInReach
<1>1. WInv => AsksAllInReach
  BY DEF WInv, PInv, Walk, AskedSoFar, InReach, AsksAllInReach
<1> QED
  BY Invariance, <1>1, PTL

-----------------------------------------------------------------------------
\* A place that the rotations are d steps past was left at least d - 1
\* cooldowns before the last of them.
Rested ==
  \A i \in Indices : left_at[i] # 0 =>
    /\ last_rotate_at_ms > 0
    /\ \A d \in 1 .. PoolSize : active_index \in {i + d, i + d - PoolSize}
         => last_rotate_at_ms - left_at[i] >= (d - 1) * RotateCooldownMs

\* One more rotation makes one more cooldown.
LEMMA OneMore ==
  ASSUME NEW d \in Nat, NEW c \in Nat, NEW x \in Int, NEW y \in Int, NEW z \in Int,
         y - x >= (d - 1) * c, z - y >= c
  PROVE  z - x >= d * c
<1>1. (d - 1) * c \in Int /\ d * c = (d - 1) * c + c
  OBVIOUS
<1> QED
  BY <1>1

\* A rotation steps to the place that follows, round the end of the pool.
LEMMA StepsRound ==
  ASSUME PInv, RotateServing
  PROVE  /\ active_index \in Indices /\ PoolSize > 1
         /\ active_index' = IF active_index + 1 = PoolSize THEN 0 ELSE active_index + 1
         /\ left_at' = [left_at EXCEPT ![active_index] = clock]
         /\ left_at \in [Indices -> 0 .. clock]
         /\ clock \in Nat \ {0} /\ last_rotate_at_ms \in 0 .. clock
         /\ last_rotate_at_ms' = clock /\ clock' = clock
         /\ last_rotate_at_ms > 0 => clock - last_rotate_at_ms >= RotateCooldownMs
<1>1. /\ PoolSize > 1 /\ ~CoolingDown /\ last_rotate_at_ms' = clock
      /\ active_index' = (active_index + 1) % PoolSize
      /\ left_at' = [left_at EXCEPT ![active_index] = clock] /\ clock' = clock
  BY DEF RotateServing, Rotate, RotationAllowed, Activate, NextRotationIndex
<1>2. /\ clock \in Nat \ {0} /\ last_rotate_at_ms \in 0 .. clock
      /\ active_index \in Indices /\ left_at \in [Indices -> 0 .. clock]
  BY <1>1 DEF PInv, ProbeTypeOK, TypeOK
<1>3. active_index' = IF active_index + 1 = PoolSize THEN 0 ELSE active_index + 1
  BY <1>1, <1>2, ProbeNumbers DEF Indices
<1>4. last_rotate_at_ms > 0 => clock - last_rotate_at_ms >= RotateCooldownMs
  BY <1>1, <1>2, ProbeNumbers DEF CoolingDown
<1> QED
  BY <1>1, <1>2, <1>3, <1>4

LEMMA InitRested == Init => Rested
BY DEF Init, Rested

LEMMA RotateRested == ASSUME PInv, Rested, RotateServing PROVE Rested'
<1>1. /\ active_index \in Indices /\ PoolSize > 1
      /\ active_index' = IF active_index + 1 = PoolSize THEN 0 ELSE active_index + 1
      /\ left_at' = [left_at EXCEPT ![active_index] = clock]
      /\ left_at \in [Indices -> 0 .. clock]
      /\ clock \in Nat \ {0} /\ last_rotate_at_ms \in 0 .. clock
      /\ last_rotate_at_ms' = clock /\ clock' = clock
      /\ last_rotate_at_ms > 0 => clock - last_rotate_at_ms >= RotateCooldownMs
  BY StepsRound
<1> SUFFICES ASSUME NEW i \in Indices, left_at'[i] # 0,
                    NEW d \in 1 .. PoolSize, active_index' \in {i + d, i + d - PoolSize}
             PROVE  last_rotate_at_ms' - left_at'[i] >= (d - 1) * RotateCooldownMs
  BY <1>1 DEF Rested
<1>2. CASE i = active_index
  <2>1. d = 1 /\ left_at'[i] = clock
    BY <1>1, <1>2, ProbeNumbers DEF Indices
  <2>2. (1 - 1) * RotateCooldownMs = 0
    BY ProbeNumbers
  <2> QED
    BY <1>1, <2>1, <2>2
<1>3. CASE i # active_index
  <2>1. left_at'[i] = left_at[i] /\ left_at[i] \in Int
    BY <1>1, <1>3
  <2>2. d - 1 \in 1 .. PoolSize
        /\ active_index \in {i + (d - 1), i + (d - 1) - PoolSize}
    BY <1>1, <1>3, ProbeNumbers DEF Indices
  <2>3. last_rotate_at_ms > 0
        /\ last_rotate_at_ms - left_at[i] >= ((d - 1) - 1) * RotateCooldownMs
    BY <2>1, <2>2 DEF Rested
  <2>4. clock - left_at[i] >= (d - 1) * RotateCooldownMs
    BY <1>1, <2>1, <2>2, <2>3, OneMore, ProbeNumbers
  <2> QED
    BY <1>1, <2>1, <2>4
<1> QED
  BY <1>2, <1>3

\* The other steps leave the pool alone, or come before the first rotation.
LEMMA OthersRested ==
  ASSUME PInv, Rested, Answered \/ Failed \/ Switch \/ Restore \/ Tick \/ UNCHANGED vars
  PROVE  /\ Rested'
         /\ \A i \in Indices : left_at[i] # 0 => active_index' = active_index
<1>1. CASE Answered \/ Failed \/ Tick \/ UNCHANGED vars
  <2>1. UNCHANGED <<active_index, last_rotate_at_ms, left_at>>
    BY <1>1 DEF Answered, Failed, Ask, Tick, vars, devicePoolVars, probeVars
  <2> QED
    BY <2>1 DEF Rested
<1>2. CASE Switch \/ Restore
  <2>1. left_at' = left_at /\ last_rotate_at_ms = 0
    BY <1>2 DEF Switch, Restore, PInv, Walk
  <2>2. \A i \in Indices : left_at[i] = 0
    BY <2>1 DEF Rested
  <2> QED
    BY <2>1, <2>2 DEF Rested
<1> QED
  BY <1>1, <1>2

\* It is after PoolSize rotations that a device's turn comes again.
LEMMA ComesRound ==
  ASSUME PInv, Rested, RotateServing,
         NEW i \in Indices, active_index # i, active_index' = i, left_at[i] # 0
  PROVE  clock - left_at[i] >= (PoolSize - 1) * RotateCooldownMs
<1>1. /\ active_index \in Indices /\ PoolSize > 1
      /\ active_index' = IF active_index + 1 = PoolSize THEN 0 ELSE active_index + 1
      /\ left_at \in [Indices -> 0 .. clock]
      /\ clock \in Nat \ {0} /\ last_rotate_at_ms \in 0 .. clock
      /\ last_rotate_at_ms > 0 => clock - last_rotate_at_ms >= RotateCooldownMs
  BY StepsRound
<1>2. PoolSize - 1 \in 1 .. PoolSize
      /\ active_index \in {i + (PoolSize - 1), i + (PoolSize - 1) - PoolSize}
  BY <1>1, ProbeNumbers DEF Indices
<1>3. last_rotate_at_ms > 0
      /\ last_rotate_at_ms - left_at[i] >= ((PoolSize - 1) - 1) * RotateCooldownMs
  BY <1>2 DEF Rested
<1> QED
  BY <1>1, <1>2, <1>3, OneMore, ProbeNumbers

(* For every pool and every cooldown, a device that a rotation left rests   *)
(* for PoolSize - 1 cooldowns of the real clock before it is used again     *)
(* (device_pool.rs:79-109, 166-172).                                        *)
THEOREM LeftDevicesRest == Spec => DevicesRest
<1> DEFINE Turn ==
      \A i \in Indices :
        active_index # i /\ active_index' = i /\ left_at[i] # 0
          => clock - left_at[i] >= (PoolSize - 1) * RotateCooldownMs
<1>1. WInv /\ Rested /\ [Next]_vars => Rested'
  BY RotateRested, OthersRested DEF Next, WInv
<1>2. WInv /\ Rested /\ [Next]_vars => Turn
  BY ComesRound, OthersRested DEF Next, WInv
<1>3. WInv /\ Rested /\ [Next]_vars => [Turn]_vars
  BY <1>2
<1>4. [][Turn]_vars <=> DevicesRest
  BY DEF DevicesRest
<1>5. Spec => [][Turn]_vars
  <2> HIDE DEF Turn
  <2> QED
    BY Invariance, InitRested, <1>1, <1>3, PTL DEF Spec
<1> QED
  BY <1>4, <1>5

(***************************************************************************)
(* SearchFlow                                                              *)
(***************************************************************************)
Places == {"idle", "prepare", "sign", "await", "heal", "failed", "empty", "pause",
           "finish"}

Response == [id : SearchId, books : Nat]

Locals ==
  [pc : Places, of : Searches, phase : {"first", "again", "second", "known"},
   resent : BOOLEAN, device : Pool \cup BootProfiles,
   signature : Signatures \cup {{}}, id : SearchId, response : Response,
   sends : Nat, reports : 0 .. 1, began : Nat \ {0}]

\* Which id goes with which phase, and what is at hand at which place.
Straight(x) ==
  /\ x.phase \in {"first", "again"} => x.id = {}
  /\ x.phase \in {"second", "known"} => x.id # {}
  /\ x.pc # "idle" /\ x.phase # "known" => x.of.id = {}
  /\ x.phase = "known" => x.of.id # {}
  /\ x.pc \notin {"heal", "failed"} => x.reports = 0
  /\ x.pc = "empty" => x.phase = "first" /\ x.response = Nothing
  /\ x.pc = "pause" => x.phase \in {"first", "again"} /\ x.response.id # {}
  /\ x.pc = "finish" /\ x.phase = "second" => x.response.id # {}

\* The phase's own request, sent or still to be sent.
Sent(x) == IF x.pc \in {"idle", "prepare", "sign"} THEN 0 ELSE 1

\* What phases and retries allow, however long they take ...
Quota(x) ==
  x.sends <= Sent(x) + (IF x.resent THEN 1 ELSE 0)
               + (CASE x.phase = "again" -> 2 [] x.phase = "second" -> 4
                    [] OTHER -> 0)

\* ... and what they allow a search that takes less than a cooldown: beyond
\* one request of each phase it has sent one that a rotation was made for,
\* and before its second rotation a cooldown has passed.
Due(x) == Sent(x) + (IF x.phase = "second" THEN 1 ELSE 0)

Paced(x) ==
  \/ x.sends <= Due(x)
  \/ x.sends <= Due(x) + 1 /\ x.began <= last_rotate_at_ms
  \/ clock - x.began >= RotateCooldownMs

Sound(x) == Straight(x) /\ Quota(x) /\ Paced(x) /\ x.began <= clock

\* What is cached is found under its own search, and keeps its id.
Filed(key, entry) ==
  /\ entry.of \in Searches /\ CacheKey(entry.of) = key
  /\ entry.of.id = {} /\ entry.asked # {} => entry.response.id # {}

SearchInv ==
  /\ TypeOK
  /\ task \in [Tasks -> Locals]
  /\ \A t \in Tasks : Sound(task[t])
  /\ \A key \in DOMAIN search_cache : Filed(key, search_cache[key])

-----------------------------------------------------------------------------
LEMMA OptionLone ==
  ASSUME NEW S, NEW o \in Option(S), o # {}
  PROVE  Unwrap(o) \in o /\ o = {Unwrap(o)} /\ Unwrap(o) \in S
BY DEF Option, Unwrap

LEMMA OrOption ==
  ASSUME NEW S, NEW o \in Option(S), NEW p \in Option(S)
  PROVE  Or(o, p) \in Option(S) /\ (o # {} \/ p # {} => Or(o, p) # {})
BY DEF Or

LEMMA NoneIsOption == ASSUME NEW S PROVE {} \in Option(S)
BY DEF Option

\* str::trim takes a part of the text.
LEMMA TrimmedText ==
  ASSUME NEW text \in Text
  PROVE  Trimmed(text) \in Text
<1> DEFINE solid == {i \in DOMAIN text : text[i] \notin {" ", "tab"}}
<1>1. CASE solid = {}
  <2>1. <<>> \in Seq(Characters)
    OBVIOUS
  <2>2. Trimmed(text) = <<>>
    BY <1>1 DEF Trimmed
  <2> QED
    BY <2>1, <2>2 DEF Text
<1>2. CASE solid # {}
  <2>1. /\ DOMAIN text = 1 .. Len(text) /\ Len(text) \in Nat
        /\ \A i \in 1 .. Len(text) : text[i] \in Characters
    BY DEF Text
  <2>2. solid \in SUBSET Nat /\ solid \in SUBSET (0 .. Len(text))
    <3>1. solid \subseteq DOMAIN text
      OBVIOUS
    <3>2. 1 .. Len(text) \subseteq Nat /\ 1 .. Len(text) \subseteq 0 .. Len(text)
      BY <2>1
    <3> HIDE DEF solid
    <3> QED
      BY <2>1, <3>1, <3>2
  <2>3. Min(solid) \in solid /\ Max(solid) \in solid
    BY <1>2, <2>1, <2>2, LeastNumber, GreatestNumber
  <2> DEFINE a == Min(solid)
             b == Max(solid)
  <2>4. a \in 1 .. Len(text) /\ b \in 1 .. Len(text)
    BY <2>1, <2>3
  <2>5. Trimmed(text) = SubSeq(text, a, b)
    BY <1>2 DEF Trimmed
  <2> HIDE DEF a, b, solid
  <2>6. \A i \in a .. b : text[i] \in Characters
    BY <2>1, <2>4
  <2>7. SubSeq(text, a, b) \in Seq(Characters)
    BY <2>1, <2>4, <2>6, SubSeqProperties
  <2> QED
    BY <2>5, <2>7 DEF Text
<1> QED
  BY <1>1, <1>2

\* What the handler lets through.
LEMMA SearchTyped ==
  ASSUME NEW r \in Searches
  PROVE  /\ r \in [key : Text, page : Numbers, size : Numbers, tab : Numbers,
                   id : SearchId]
         /\ r.page # 0
<1>1. PICK q \in Queries : r \in Validated(q)
  BY DEF Searches
<1>2. q \in SearchQuery
  BY SearchAssumption
<1>3. /\ r = [key |-> Trimmed(q.key), page |-> UnwrapOr(q.page, 1),
              size |-> UnwrapOr(q.size, 20), tab |-> UnwrapOr(q.tab, 3),
              id |-> {Trimmed(id) : id \in q.id} \ {<<>>}]
      /\ UnwrapOr(q.page, 1) # 0
  BY <1>1 DEF Validated
<1>4. /\ UnwrapOr(q.page, 1) \in Numbers /\ UnwrapOr(q.size, 20) \in Numbers
      /\ UnwrapOr(q.tab, 3) \in Numbers
  <2>1. 1 \in Numbers /\ 20 \in Numbers /\ 3 \in Numbers
    BY RequestAssumption DEF Numbers
  <2> QED
    BY <1>2, <2>1, OptionLone DEF SearchQuery, UnwrapOr
<1>5. {Trimmed(id) : id \in q.id} \ {<<>>} \in SearchId
  <2>1. q.id \in Option(Text)
    BY <1>2 DEF SearchQuery
  <2>2. \A id \in q.id : id \in Text /\ Trimmed(id) \in Text
    BY <2>1, TrimmedText DEF Option
  <2> QED
    BY <2>1, <2>2 DEF SearchId, Option
<1>6. Trimmed(q.key) \in Text
  BY <1>2, TrimmedText DEF SearchQuery
<1> QED
  BY <1>3, <1>4, <1>5, <1>6

\* What is read from an answer.
LEMMA ParsedTyped ==
  ASSUME NEW a \in Answers, NEW tab
  PROVE  Parsed(a, tab) \in Response
<1>1. a \in SearchDocument
  BY SearchAssumption
<1>2. /\ a.data_id \in SearchId /\ a.id \in SearchId /\ a.nested \in SearchId
      /\ a.books \in Nat
  BY <1>1 DEF SearchDocument
<1>3. CASE Chosen(a, tab) = {}
  BY <1>2, <1>3, OrOption DEF Parsed, Response, SearchId
<1>4. CASE Chosen(a, tab) # {}
  <2>1. DOMAIN a.tabs = 1 .. Len(a.tabs) /\ Len(a.tabs) \in Nat
    BY <1>1 DEF SearchDocument
  <2>2. Unwrap(Chosen(a, tab)) \in DOMAIN a.tabs
    <3> DEFINE same == {i \in DOMAIN a.tabs : a.tabs[i].tab = tab}
               full == {i \in DOMAIN a.tabs : a.tabs[i].books > 0}
    <3>1. same \in SUBSET Nat /\ full \in SUBSET Nat
      BY <2>1
    <3>2. /\ same # {} => Min(same) \in DOMAIN a.tabs
          /\ full # {} => Min(full) \in DOMAIN a.tabs
      BY <3>1, LeastNumber
    <3>3. PICK i \in DOMAIN a.tabs : Chosen(a, tab) = {i}
      BY <1>4, <3>2 DEF Chosen
    <3> QED
      BY <3>3 DEF Unwrap
  <2> DEFINE t == a.tabs[Unwrap(Chosen(a, tab))]
  <2>3. t \in [tab : Numbers, id : SearchId, books : Nat]
    <3>1. a.tabs \in Seq([tab : Numbers, id : SearchId, books : Nat])
      BY <1>1 DEF SearchDocument
    <3>2. Unwrap(Chosen(a, tab)) \in 1 .. Len(a.tabs)
      BY <2>1, <2>2
    <3> QED
      BY <3>1, <3>2, ElementOfSeq
  <2>4. Parsed(a, tab) = [id |-> Or(t.id, Or(a.data_id, a.id)), books |-> t.books]
    BY <1>4 DEF Parsed
  <2> QED
    BY <1>2, <2>3, <2>4, OrOption DEF Response, SearchId
<1> QED
  BY <1>3, <1>4

LEMMA IdleTyped ==
  ASSUME TypeOK
  PROVE  Idle \in Locals /\ Sound(Idle)
<1>1. (CHOOSE r \in Searches : TRUE) \in Searches
  BY SomeSearch
<1>2. (CHOOSE d \in Pool \cup BootProfiles : TRUE) \in Pool \cup BootProfiles
  BY DEF TypeOK
<1>3. Nothing \in Response /\ {} \in SearchId
  BY NoneIsOption DEF Nothing, Response, SearchId
<1>4. Idle \in Locals
  BY <1>1, <1>2, <1>3 DEF Idle, Locals, Places
<1>5. clock \in Nat \ {0} /\ Idle.began = 1 /\ Idle.sends = 0 /\ Idle.pc = "idle"
  BY DEF TypeOK, Idle
<1>6. Straight(Idle) /\ Quota(Idle) /\ Paced(Idle)
  BY <1>5 DEF Idle, Straight, Quota, Paced, Sent, Due
<1> QED
  BY <1>4, <1>5, <1>6 DEF Sound

\* Time passes and others rotate: what a search may have sent stays so.
LEMMA StaysSound ==
  ASSUME NEW x \in Locals, Sound(x), TypeOK, TypeOK', clock <= clock',
         last_rotate_at_ms' \in {last_rotate_at_ms, clock}
  PROVE  Sound(x)'
<1>1. /\ clock \in Nat /\ clock' \in Nat /\ last_rotate_at_ms \in Nat
      /\ x.began \in Nat /\ x.began <= clock /\ last_rotate_at_ms <= clock
      /\ RotateCooldownMs \in Nat
  BY PoolNumbers DEF TypeOK, Locals, Sound
<1>2. Paced(x)'
  BY <1>1 DEF Sound, Paced
<1> QED
  BY <1>1, <1>2 DEF Sound, Straight, Quota

\* One search moves on, and the pool and the clock with it or not.
LEMMA MovesOn ==
  ASSUME SearchInv, NEW t \in Tasks, NEW x \in Locals, Become(t, x), Sound(x)',
         TypeOK', clock' = clock,
         last_rotate_at_ms' \in {last_rotate_at_ms, clock},
         search_cache' = search_cache
  PROVE  SearchInv'
<1>1. task' \in [Tasks -> Locals] /\ task'[t] = x
      /\ \A u \in Tasks \ {t} : task'[u] = task[u]
  BY DEF SearchInv, Become
<1>2. ASSUME NEW u \in Tasks PROVE Sound(task[u])'
  <2>1. CASE u = t
    BY <1>1, <2>1 DEF Sound, Straight, Quota, Paced, Sent, Due
  <2>2. CASE u # t
    <3>1. clock <= clock' /\ TypeOK
      BY DEF SearchInv, TypeOK
    <3>2. PICK y \in Locals : y = task[u]
      BY DEF SearchInv
    <3>3. Sound(y)
      BY <3>2 DEF SearchInv
    <3>4. Sound(y)'
      BY <3>1, <3>3, StaysSound
    <3>5. task'[u] = y
      BY <1>1, <2>2, <3>2
    <3> QED
      BY <3>4, <3>5 DEF Sound, Straight, Quota, Paced, Sent, Due
  <2> QED
    BY <2>1, <2>2
<1> QED
  BY <1>1, <1>2 DEF SearchInv, Filed

LEMMA InitSearch == SearchInit => SearchInv
<1> SUFFICES ASSUME SearchInit PROVE SearchInv
  OBVIOUS
<1>1. TypeOK
  BY InitPoolTyped DEF SearchInit
<1>2. \A t \in Tasks : task[t] = Idle
  BY DEF SearchInit
<1>3. task \in [Tasks -> Locals] /\ \A t \in Tasks : Sound(task[t])
  BY <1>1, <1>2, IdleTyped DEF SearchInit
<1>4. DOMAIN search_cache = {}
  BY DEF SearchInit
<1> QED
  BY <1>1, <1>3, <1>4 DEF SearchInv

\* The steps that leave pool and clock alone.
LEMMA SearchKeeps ==
  ASSUME SearchInv, NEW t \in Tasks, NEW r \in Searches, Search(t, r)
  PROVE  SearchInv'
<1> DEFINE x == [Idle EXCEPT !.pc = "prepare", !.of = r, !.id = r.id,
                             !.phase = IF r.id = {} THEN "first" ELSE "known",
                             !.began = clock]
<1>1. Become(t, x) /\ UNCHANGED <<clock, devicePoolVars, search_cache>>
  BY DEF Search, poolVars
<1>2. TypeOK /\ TypeOK' /\ clock \in Nat \ {0}
  BY <1>1, PoolStepTyped DEF SearchInv, TypeOK
<1>3. Idle \in Locals /\ Idle.sends = 0 /\ Idle.reports = 0
  BY <1>2, IdleTyped DEF Idle
<1>4. r.id \in SearchId
  BY SearchTyped
<1>5. x \in Locals
  BY <1>2, <1>3, <1>4 DEF Locals, Places
<1>6. /\ x.pc = "prepare" /\ x.of = r /\ x.id = r.id /\ x.sends = 0
      /\ x.phase = IF r.id = {} THEN "first" ELSE "known"
      /\ x.began = clock /\ x.reports = 0 /\ x.resent = FALSE
  BY <1>3 DEF Idle
<1>7. Straight(x) /\ Quota(x)
  BY <1>6 DEF Straight, Quota, Sent
<1>8. Paced(x)' /\ x.began <= clock'
  BY <1>1, <1>2, <1>6 DEF Paced, Sent, Due
<1> QED
  BY <1>1, <1>2, <1>5, <1>7, <1>8, MovesOn DEF Sound, Straight, Quota, devicePoolVars

\* A step without a rotation, which sends at most what is due.
LEMMA MovesQuietly ==
  ASSUME SearchInv, NEW t \in Tasks, NEW x \in Locals, Become(t, x),
         UNCHANGED <<clock, devicePoolVars, search_cache>>,
         Straight(x), Quota(x), x.began = task[t].began,
         x.sends - Due(x) <= task[t].sends - Due(task[t])
  PROVE  SearchInv'
<1>1. PICK y \in Locals : y = task[t] /\ Paced(y) /\ y.began <= clock
  BY DEF SearchInv, Sound
<1>2. TypeOK /\ TypeOK'
  BY PoolStepTyped DEF SearchInv
<1>3. UNCHANGED <<clock, last_rotate_at_ms>>
  BY DEF devicePoolVars
<1>4. Paced(x)
  <2>1. /\ Due(x) \in Int /\ Due(y) \in Int /\ x.sends \in Nat /\ y.sends \in Nat
        /\ x.sends - Due(x) <= y.sends - Due(y) /\ x.began = y.began
    BY <1>1 DEF Due, Sent, Locals
  <2>2. /\ y.sends <= Due(y) => x.sends <= Due(x)
        /\ y.sends <= Due(y) + 1 => x.sends <= Due(x) + 1
    BY <2>1
  <2> QED
    BY <1>1, <2>1, <2>2 DEF Paced
<1>5. Sound(x)'
  BY <1>1, <1>3, <1>4 DEF Sound, Straight, Quota, Paced, Sent, Due
<1> QED
  BY <1>2, <1>3, <1>5, MovesOn

LEMMA PrepareKeeps ==
  ASSUME SearchInv, NEW t \in Tasks, Prepare(t)
  PROVE  SearchInv'
<1>1. PICK y \in Locals : y = task[t] /\ Straight(y) /\ Quota(y)
  BY DEF SearchInv, Sound
<1> DEFINE x == [y EXCEPT !.pc = "sign", !.device = active_profile]
<1>2. active_profile \in Pool \cup BootProfiles /\ y.pc = "prepare"
  BY <1>1 DEF SearchInv, TypeOK, Prepare, At
<1>3. x \in Locals
  BY <1>2 DEF Locals, Places
<1>4. /\ Straight(x) /\ Quota(x) /\ x.began = y.began
      /\ x.sends - Due(x) <= y.sends - Due(y)
  BY <1>1, <1>2 DEF Straight, Quota, Due, Sent, Locals
<1>5. Become(t, x) /\ UNCHANGED <<clock, devicePoolVars, search_cache>>
  BY <1>1 DEF Prepare, poolVars
<1> HIDE DEF x
<1> QED
  BY <1>1, <1>3, <1>4, <1>5, MovesQuietly

LEMMA SignKeeps ==
  ASSUME SearchInv, NEW t \in Tasks, NEW signature \in Signatures, Sign(t, signature)
  PROVE  SearchInv'
<1>1. PICK y \in Locals : y = task[t] /\ Straight(y) /\ Quota(y)
  BY DEF SearchInv, Sound
<1> DEFINE x == [y EXCEPT !.pc = "await", !.signature = signature, !.sends = @ + 1]
<1>2. /\ y.pc = "sign" /\ y.sends + 1 \in Nat
      /\ signature \in Signatures \cup {{}} /\ "await" \in Places
  BY <1>1 DEF Sign, At, Locals, Places
<1>3. x \in Locals
  BY <1>2, Zenon DEF Locals
<1>4. /\ Straight(x) /\ Quota(x) /\ x.began = y.began
      /\ x.sends - Due(x) <= y.sends - Due(y)
  BY <1>1, <1>2 DEF Straight, Quota, Due, Sent, Locals
<1>5. Become(t, x) /\ UNCHANGED <<clock, devicePoolVars, search_cache>>
  BY <1>1 DEF Sign, poolVars
<1> HIDE DEF x
<1> QED
  BY <1>1, <1>3, <1>4, <1>5, MovesQuietly

LEMMA FailKeeps ==
  ASSUME SearchInv, NEW t \in Tasks, NEW heal \in BOOLEAN, Fail(t, heal)
  PROVE  SearchInv'
<1>1. PICK y \in Locals : y = task[t] /\ Straight(y) /\ Quota(y)
  BY DEF SearchInv, Sound
<1> DEFINE x == [y EXCEPT !.reports = @ + 1, !.pc = IF heal THEN "heal" ELSE "failed"]
<1>2. y.pc \in {"sign", "await"} /\ y.reports = 0
  BY <1>1 DEF Fail, Straight
<1>3. x \in Locals
  <2>1. y.reports + 1 \in 0 .. 1
    BY <1>2
  <2>2. (IF heal THEN "heal" ELSE "failed") \in Places
    BY DEF Places
  <2> QED
    BY <2>1, <2>2, Zenon DEF Locals
<1>4. /\ Straight(x) /\ Quota(x) /\ x.began = y.began
      /\ x.sends - Due(x) <= y.sends - Due(y)
  BY <1>1, <1>2 DEF Straight, Quota, Due, Sent, Locals
<1>5. Become(t, x) /\ UNCHANGED <<clock, devicePoolVars, search_cache>>
  BY <1>1 DEF Fail, poolVars
<1> HIDE DEF x
<1> QED
  BY <1>1, <1>3, <1>4, <1>5, MovesQuietly

LEMMA AnswerKeeps ==
  ASSUME SearchInv, NEW t \in Tasks, NEW a \in Answers, Answer(t, a)
  PROVE  SearchInv'
<1>1. PICK y \in Locals : y = task[t] /\ Straight(y) /\ Quota(y)
  BY DEF SearchInv, Sound
<1>2. y.pc = "await"
  BY <1>1 DEF Answer, At
<1>3. PICK response \in Response : response = Parsed(a, y.of.tab)
  BY ParsedTyped
<1> DEFINE x == [y EXCEPT !.pc = AfterAnswer(t, response),
                          !.response = Result(t, response)]
<1>4. /\ Result(t, response) \in Response
      /\ y.phase = "second" => Result(t, response).id # {}
      /\ y.phase # "second" => Result(t, response) = response
  <2>1. CASE y.phase = "second"
    <3>1. y.id \in SearchId /\ y.id # {} /\ response.id \in SearchId
      BY <1>1, <2>1 DEF Straight, Locals, Response
    <3>2. Or(response.id, y.id) \in SearchId /\ Or(response.id, y.id) # {}
      BY <3>1, OrOption DEF SearchId
    <3>3. Result(t, response) = [response EXCEPT !.id = Or(@, y.id)]
      BY <1>1, <2>1 DEF Result
    <3> QED
      BY <2>1, <3>2, <3>3 DEF Response
  <2>2. CASE y.phase # "second"
    BY <1>1, <2>2 DEF Result
  <2> QED
    BY <2>1, <2>2
<1>5. /\ AfterAnswer(t, response) \in {"finish", "pause", "empty"}
      /\ AfterAnswer(t, response) = "pause" =>
           y.phase \in {"first", "again"} /\ response.id # {}
      /\ AfterAnswer(t, response) = "empty" =>
           y.phase = "first" /\ response = Nothing
  BY <1>1 DEF AfterAnswer, Locals
<1>6. x \in Locals
  BY <1>4, <1>5 DEF Locals, Places
<1>7. /\ x.pc = AfterAnswer(t, response) /\ x.response = Result(t, response)
      /\ x.phase = y.phase /\ x.id = y.id /\ x.of = y.of /\ x.reports = y.reports
      /\ x.sends = y.sends /\ x.began = y.began /\ x.resent = y.resent
  BY DEF Locals
<1>8. Become(t, x) /\ UNCHANGED <<clock, devicePoolVars, search_cache>>
  BY <1>1, <1>3 DEF Answer, poolVars
<1> HIDE DEF x
<1>9. Straight(x)
  BY <1>1, <1>2, <1>4, <1>5, <1>7 DEF Straight
<1>10. Sent(x) = Sent(y)
  BY <1>2, <1>5, <1>7 DEF Sent
<1>11. Quota(x) /\ x.sends - Due(x) <= y.sends - Due(y)
  BY <1>1, <1>7, <1>10 DEF Quota, Due, Sent, Locals
<1> QED
  BY <1>1, <1>6, <1>7, <1>8, <1>9, <1>11, MovesQuietly

LEMMA StayEmptyKeeps ==
  ASSUME SearchInv, NEW t \in Tasks, StayEmpty(t)
  PROVE  SearchInv'
<1>1. PICK y \in Locals : y = task[t] /\ Straight(y) /\ Quota(y)
  BY DEF SearchInv, Sound
<1> DEFINE x == [y EXCEPT !.pc = "finish"]
<1>2. y.pc = "empty"
  BY <1>1 DEF StayEmpty, At
<1>3. x \in Locals
  BY <1>2 DEF Locals, Places
<1>4. /\ Straight(x) /\ Quota(x) /\ x.began = y.began
      /\ x.sends - Due(x) <= y.sends - Due(y)
  BY <1>1, <1>2 DEF Straight, Quota, Due, Sent, Locals
<1>5. Become(t, x) /\ UNCHANGED <<clock, devicePoolVars, search_cache>>
  BY <1>1 DEF StayEmpty, poolVars
<1> HIDE DEF x
<1> QED
  BY <1>1, <1>3, <1>4, <1>5, MovesQuietly

LEMMA SecondPhaseKeeps ==
  ASSUME SearchInv, NEW t \in Tasks, SecondPhase(t)
  PROVE  SearchInv'
<1>1. PICK y \in Locals : y = task[t] /\ Straight(y) /\ Quota(y)
  BY DEF SearchInv, Sound
<1> DEFINE x == [y EXCEPT !.pc = "prepare", !.phase = "second", !.resent = FALSE,
                          !.id = y.response.id]
<1>2. /\ y.pc = "pause" /\ y.phase \in {"first", "again"}
      /\ y.response.id # {} /\ y.response.id \in SearchId
  BY <1>1 DEF SecondPhase, At, Straight, Locals, Response
<1>3. x \in Locals
  BY <1>2 DEF Locals, Places
<1>4. /\ Straight(x) /\ Quota(x) /\ x.began = y.began
      /\ x.sends - Due(x) <= y.sends - Due(y)
  BY <1>1, <1>2 DEF Straight, Quota, Due, Sent, Locals
<1>5. Become(t, x) /\ UNCHANGED <<clock, devicePoolVars, search_cache>>
  BY <1>1 DEF SecondPhase, poolVars
<1> HIDE DEF x
<1> QED
  BY <1>1, <1>3, <1>4, <1>5, MovesQuietly

LEMMA EndsKeep ==
  ASSUME SearchInv, NEW t \in Tasks, GiveUp(t) \/ Finish(t)
  PROVE  SearchInv'
<1>1. UNCHANGED <<clock, devicePoolVars>> /\ Become(t, Idle)
  BY DEF GiveUp, Finish, poolVars
<1>2. TypeOK /\ TypeOK'
  BY <1>1, PoolStepTyped DEF SearchInv
<1>3. Idle \in Locals /\ Sound(Idle)
  BY <1>2, IdleTyped
<1>4. task' \in [Tasks -> Locals] /\ task'[t] = Idle
      /\ \A u \in Tasks \ {t} : task'[u] = task[u]
  BY <1>1, <1>3 DEF SearchInv, Become
<1>5. \A u \in Tasks : Sound(task'[u])
  BY <1>3, <1>4 DEF SearchInv
<1>6. \A u \in Tasks : Sound(task[u])'
  BY <1>1, <1>5 DEF Sound, Straight, Quota, Paced, Sent, Due, devicePoolVars
<1>7. CASE GiveUp(t)
  BY <1>2, <1>4, <1>6, <1>7 DEF GiveUp, SearchInv, Filed
<1>8. CASE Finish(t)
  <2>1. PICK y \in Locals : y = task[t] /\ Straight(y) /\ y.pc = "finish"
    BY <1>8 DEF SearchInv, Sound, Finish, At
  <2> DEFINE entry == [of |-> y.of, asked |-> y.id, response |-> y.response]
             key == CacheKey(y.of)
  <2>2. search_cache' = [k \in DOMAIN search_cache \cup {key} |->
                           IF k = key THEN entry ELSE search_cache[k]]
    BY <1>8, <2>1 DEF Finish
  <2>3. Filed(key, entry)
    BY <2>1, SearchTyped DEF Filed, Straight, Locals
  <2> HIDE DEF entry, key
  <2>4. \A k \in DOMAIN search_cache' : Filed(k, search_cache'[k])
    BY <2>2, <2>3 DEF SearchInv
  <2> QED
    BY <1>2, <1>4, <1>6, <2>4 DEF SearchInv, Filed
<1> QED
  BY <1>7, <1>8

-----------------------------------------------------------------------------
\* A search that rotates has one more request due, the first time, and the
\* second time a cooldown has passed since the first.
LEMMA MovesRotating ==
  ASSUME SearchInv, NEW t \in Tasks, NEW x \in Locals, Become(t, x),
         Rotate, UNCHANGED <<clock, search_cache>>,
         Straight(x), Quota(x), x.began = task[t].began,
         x.sends - Due(x) <= task[t].sends - Due(task[t]) + 1
  PROVE  SearchInv'
<1>1. PICK y \in Locals : y = task[t] /\ Paced(y) /\ y.began <= clock
  BY DEF SearchInv, Sound
<1>2. TypeOK /\ TypeOK' /\ last_rotate_at_ms' = clock
  BY PoolStepTyped, RotateTyped DEF SearchInv
<1>3. /\ clock \in Nat \ {0} /\ last_rotate_at_ms \in 0 .. clock
      /\ RotateCooldownMs \in Nat
  BY <1>2, PoolNumbers DEF TypeOK
<1>4. /\ Due(x) \in Int /\ Due(y) \in Int /\ x.sends \in Nat /\ y.sends \in Nat
      /\ x.sends - Due(x) <= y.sends - Due(y) + 1
      /\ x.began = y.began /\ y.began \in Nat \ {0} /\ y.began <= clock
  BY <1>1 DEF Due, Sent, Locals
<1>5. CASE y.sends <= Due(y)
  <2>1. x.sends <= Due(x) + 1 /\ x.began <= last_rotate_at_ms'
    BY <1>2, <1>4, <1>5
  <2> QED
    BY <1>1, <1>2, <1>4, <2>1, MovesOn
    DEF Sound, Straight, Quota, Paced, Sent, Due
<1>6. CASE y.began <= last_rotate_at_ms
  <2>1. clock - last_rotate_at_ms >= RotateCooldownMs
    BY <1>3, <1>4, <1>6 DEF Rotate, RotationAllowed, CoolingDown
  <2>2. clock - x.began >= RotateCooldownMs
    BY <1>3, <1>4, <1>6, <2>1
  <2> QED
    BY <1>1, <1>2, <1>4, <2>2, MovesOn
    DEF Sound, Straight, Quota, Paced, Sent, Due
<1>7. CASE clock - y.began >= RotateCooldownMs
  BY <1>1, <1>2, <1>4, <1>7, MovesOn
  DEF Sound, Straight, Quota, Paced, Sent, Due
<1> QED
  BY <1>1, <1>5, <1>6, <1>7 DEF Paced

LEMMA ResendKeeps ==
  ASSUME SearchInv, NEW t \in Tasks, RotateAndResend(t)
  PROVE  SearchInv'
<1>1. PICK y \in Locals : y = task[t] /\ Straight(y) /\ Quota(y)
  BY DEF SearchInv, Sound
<1> DEFINE x == [y EXCEPT !.pc = "prepare", !.resent = TRUE]
<1>2. y.pc = "await" /\ ~y.resent
  BY <1>1 DEF RotateAndResend, At
<1>3. x \in Locals
  BY <1>2 DEF Locals, Places
<1>4. /\ Straight(x) /\ Quota(x) /\ x.began = y.began
      /\ x.sends - Due(x) <= y.sends - Due(y) + 1
  BY <1>1, <1>2 DEF Straight, Quota, Due, Sent, Locals
<1>5. Become(t, x) /\ Rotate /\ UNCHANGED <<clock, search_cache>>
  BY <1>1 DEF RotateAndResend
<1> HIDE DEF x
<1> QED
  BY <1>1, <1>3, <1>4, <1>5, MovesRotating

LEMMA EmptyKeeps ==
  ASSUME SearchInv, NEW t \in Tasks, RotateOnEmpty(t)
  PROVE  SearchInv'
<1>1. PICK y \in Locals : y = task[t] /\ Straight(y) /\ Quota(y)
  BY DEF SearchInv, Sound
<1> DEFINE x == [y EXCEPT !.pc = "prepare", !.phase = "again", !.resent = FALSE]
<1>2. y.pc = "empty" /\ y.phase = "first"
  BY <1>1 DEF RotateOnEmpty, At, Straight
<1>3. x \in Locals
  BY <1>2 DEF Locals, Places
<1>4. /\ Straight(x) /\ Quota(x) /\ x.began = y.began
      /\ x.sends - Due(x) <= y.sends - Due(y) + 1
  BY <1>1, <1>2 DEF Straight, Quota, Due, Sent, Locals
<1>5. Become(t, x) /\ Rotate /\ UNCHANGED <<clock, search_cache>>
  BY <1>1 DEF RotateOnEmpty
<1> HIDE DEF x
<1> QED
  BY <1>1, <1>3, <1>4, <1>5, MovesRotating

LEMMA HealKeeps ==
  ASSUME SearchInv, NEW t \in Tasks, HealRotate(t)
  PROVE  SearchInv'
<1>1. PICK y \in Locals : y = task[t] /\ Straight(y) /\ Quota(y)
  BY DEF SearchInv, Sound
<1> DEFINE x == [y EXCEPT !.pc = "failed"]
<1>2. y.pc = "heal"
  BY <1>1 DEF HealRotate, At
<1>3. x \in Locals
  BY <1>2 DEF Locals, Places
<1>4. /\ Straight(x) /\ Quota(x) /\ x.began = y.began
      /\ x.sends - Due(x) <= y.sends - Due(y)
      /\ x.sends - Due(x) <= y.sends - Due(y) + 1
  BY <1>1, <1>2 DEF Straight, Quota, Due, Sent, Locals
<1>5. Become(t, x) /\ UNCHANGED <<clock, search_cache>>
  BY <1>1 DEF HealRotate
<1>6. Rotate \/ UNCHANGED devicePoolVars
  BY DEF HealRotate
<1> HIDE DEF x
<1> QED
  BY <1>1, <1>3, <1>4, <1>5, <1>6, MovesRotating, MovesQuietly

LEMMA NextSearch == SearchInv /\ [SearchNext]_searchVars => SearchInv'
<1> SUFFICES ASSUME SearchInv, [SearchNext]_searchVars PROVE SearchInv'
  OBVIOUS
\* No search moves.
<1>1. ASSUME UNCHANGED task, TypeOK', clock <= clock',
             last_rotate_at_ms' \in {last_rotate_at_ms, clock},
             \A key \in DOMAIN search_cache' : Filed(key, search_cache'[key])
      PROVE  SearchInv'
  <2>1. ASSUME NEW u \in Tasks PROVE Sound(task[u])'
    <3>1. PICK y \in Locals : y = task[u] /\ Sound(y)
      BY DEF SearchInv
    <3>2. Sound(y)'
      BY <1>1, <3>1, StaysSound DEF SearchInv
    <3> QED
      BY <1>1, <3>1, <3>2 DEF Sound, Straight, Quota, Paced, Sent, Due
  <2> QED
    BY <1>1, <2>1 DEF SearchInv, Filed
<1>2. CASE UNCHANGED searchVars
  <2>1. TypeOK'
    BY <1>2, PoolStepTyped DEF searchVars, poolVars, SearchInv
  <2> QED
    BY <1>1, <1>2, <2>1
    DEF searchVars, poolVars, devicePoolVars, SearchInv, TypeOK
<1>3. ASSUME NEW t \in Tasks, Proceed(t) PROVE SearchInv'
  BY <1>3, SearchKeeps, PrepareKeeps, ResendKeeps, HealKeeps, SignKeeps, FailKeeps,
     AnswerKeeps, EmptyKeeps, StayEmptyKeeps, SecondPhaseKeeps, EndsKeep
  DEF Proceed
<1>4. ASSUME NEW key \in DOMAIN search_cache, Expire(key) PROVE SearchInv'
  <2>1. TypeOK'
    BY <1>4, PoolStepTyped DEF Expire, poolVars, SearchInv
  <2>2. \A k \in DOMAIN search_cache' : Filed(k, search_cache'[k])
    BY <1>4 DEF Expire, SearchInv
  <2> QED
    BY <1>1, <1>4, <2>1, <2>2 DEF Expire, poolVars, devicePoolVars, SearchInv, TypeOK
<1>5. CASE OthersRotate
  <2>1. TypeOK' /\ last_rotate_at_ms' = clock
    BY <1>5, PoolStepTyped, RotateTyped DEF OthersRotate, SearchInv
  <2> QED
    BY <1>1, <1>5, <2>1 DEF OthersRotate, SearchInv, TypeOK
<1>6. CASE SearchTick
  <2>1. TypeOK'
    BY <1>6, PoolStepTyped DEF SearchTick, SearchInv
  <2> QED
    BY <1>1, <1>6, <2>1 DEF SearchTick, Advance, devicePoolVars, SearchInv, TypeOK
<1> QED
  BY <1>2, <1>3, <1>4, <1>5, <1>6 DEF SearchNext

LEMMA SearchAlways == SearchSpec => []SearchInv
BY InitSearch, NextSearch, PTL DEF SearchSpec

(* A search has an id at hand for a second call and none for a first one,   *)
(* and reports at most one failure, for any pool, queries and answers.      *)
THEOREM SearchIsTyped == SearchSpec => []SearchTypeOK
<1>1. SearchInv => SearchTypeOK
  <2> SUFFICES ASSUME SearchInv, NEW t \in Tasks
               PROVE  /\ task[t].device \in Pool \cup BootProfiles
                      /\ task[t].of \in Searches
                      /\ task[t].phase \in {"first", "again"} => task[t].id = {}
                      /\ task[t].phase \in {"second", "known"} =>
                           Cardinality(task[t].id) = 1
                      /\ task[t].reports <= 1
                      /\ At(t, "empty") =>
                           task[t].phase = "first" /\ task[t].response = Nothing
    BY DEF SearchTypeOK, SearchInv
  <2>1. PICK y \in Locals : y = task[t] /\ Straight(y)
    BY DEF SearchInv, Sound
  <2>2. ASSUME y.phase \in {"second", "known"} PROVE Cardinality(y.id) = 1
    <3>1. y.id \in SearchId /\ y.id # {}
      BY <2>2, <2>1 DEF Straight, Locals
    <3>2. y.id = {Unwrap(y.id)}
      BY <3>1, OptionLone DEF SearchId
    <3> QED
      BY <3>2, FS_Singleton
  <2> QED
    BY <2>1, <2>2 DEF Straight, Locals, At
<1> QED
  BY <1>1, SearchAlways, PTL

(* A search sends at most six requests, and at most three within a rotation *)
(* cooldown, whatever the upstream answers and however others rotate the    *)
(* pool between its calls (search_books).                                   *)
THEOREM SendsFew == SearchSpec => []SendsBounded
<1>1. SearchInv => SendsBounded
  <2> SUFFICES ASSUME SearchInv, NEW t \in Tasks
               PROVE  /\ task[t].sends <= 6
                      /\ clock - task[t].began < RotateCooldownMs => task[t].sends <= 3
    BY DEF SendsBounded
  <2>1. PICK y \in Locals : y = task[t] /\ Quota(y) /\ Paced(y)
    BY DEF SearchInv, Sound
  <2>2. /\ y.sends \in Nat /\ y.began \in Nat /\ clock \in Nat /\ RotateCooldownMs \in Nat
        /\ Sent(y) \in {0, 1} /\ Due(y) \in {0, 1, 2}
    BY PoolNumbers DEF SearchInv, TypeOK, Locals, Sent, Due
  <2> QED
    BY <2>1, <2>2 DEF Quota, Paced
<1> QED
  BY <1>1, SearchAlways, PTL

(* A cached result of a search that was asked again with an id carries one, *)
(* for any answers (upstream.rs:68-87).                                     *)
THEOREM KeepsTheId == SearchSpec => []IdNeverLost
<1>1. SearchInv => IdNeverLost
  BY DEF SearchInv, Filed, IdNeverLost
<1> QED
  BY <1>1, SearchAlways, PTL

-----------------------------------------------------------------------------
(* The cache key. *)

\* Its parts, where they are.
LEMMA KeyParts ==
  ASSUME NEW S, NEW k \in Seq(S), NEW m \in Seq(S), NEW n \in Seq(S)
  PROVE  /\ Len(k \o m \o n) = Len(k) + Len(m) + Len(n)
         /\ \A i \in 1 .. Len(k) : (k \o m \o n)[i] = k[i]
         /\ \A i \in 1 .. Len(m) : (k \o m \o n)[Len(k) + i] = m[i]
         /\ \A i \in 1 .. Len(n) : (k \o m \o n)[Len(k) + Len(m) + i] = n[i]
<1> DEFINE front == k \o m
           s     == front \o n
<1>1. /\ front \in Seq(S) /\ Len(front) = Len(k) + Len(m)
      /\ \A i \in 1 .. Len(k) + Len(m) :
           front[i] = IF i <= Len(k) THEN k[i] ELSE m[i - Len(k)]
  <2> HIDE DEF front
  <2> QED
    BY ConcatProperties, Zenon DEF front
<1> HIDE DEF front
<1>2. front \in Seq(S)
  BY <1>1
<1>3. /\ Len(s) = Len(front) + Len(n)
      /\ \A i \in 1 .. Len(front) + Len(n) :
           s[i] = IF i <= Len(front) THEN front[i] ELSE n[i - Len(front)]
  <2> HIDE DEF s
  <2> QED
    BY <1>2, ConcatProperties, Zenon DEF s
<1> HIDE DEF s
<1>4. Len(k) \in Nat /\ Len(m) \in Nat /\ Len(n) \in Nat
  OBVIOUS
<1>5. ASSUME NEW i \in 1 .. Len(k) PROVE s[i] = k[i]
  BY <1>1, <1>3, <1>4
<1>6. ASSUME NEW i \in 1 .. Len(m) PROVE s[Len(k) + i] = m[i]
  <2>1. /\ Len(k) + i \in 1 .. Len(k) + Len(m) + Len(n) /\ Len(k) + i <= Len(k) + Len(m)
        /\ Len(k) + i \in 1 .. Len(k) + Len(m)
        /\ ~(Len(k) + i <= Len(k)) /\ Len(k) + i - Len(k) = i
    BY <1>4
  <2> QED
    BY <1>1, <1>3, <2>1
<1>7. ASSUME NEW i \in 1 .. Len(n) PROVE s[Len(k) + Len(m) + i] = n[i]
  <2>1. /\ Len(k) + Len(m) + i \in 1 .. Len(k) + Len(m) + Len(n)
        /\ ~(Len(k) + Len(m) + i <= Len(k) + Len(m))
        /\ Len(k) + Len(m) + i - (Len(k) + Len(m)) = i
    BY <1>4
  <2> QED
    BY <1>1, <1>3, <2>1
<1> QED
  BY <1>1, <1>3, <1>5, <1>6, <1>7 DEF s, front

Middle(r) ==
  <<"|", Decimal[r.page], "|", Decimal[r.size], "|", Decimal[r.tab], "|">>

\* A key s is made up of the parts of r.
MadeOf(s, r) ==
  LET k == r.key
      n == UnwrapOr(r.id, <<>>)
  IN  /\ k \in Text /\ n \in Text
      /\ Len(s) = Len(k) + 7 + Len(n)
      /\ \A i \in 1 .. Len(k) : s[i] = k[i]
      /\ s[Len(k) + 1] = "|" /\ s[Len(k) + 2] = Decimal[r.page]
      /\ s[Len(k) + 4] = Decimal[r.size] /\ s[Len(k) + 6] = Decimal[r.tab]
      /\ \A i \in 1 .. Len(n) : s[Len(k) + 7 + i] = n[i]

LEMMA CacheKeyParts ==
  ASSUME NEW r \in Searches
  PROVE  MadeOf(CacheKey(r), r)
<1> DEFINE k == r.key
           n == UnwrapOr(r.id, <<>>)
           m == Middle(r)
           s == CacheKey(r)
<1>1. r.key \in Text /\ r.page \in Numbers /\ r.size \in Numbers /\ r.tab \in Numbers
      /\ r.id \in SearchId
  BY SearchTyped
<1>2. n \in Text
  <2>1. <<>> \in Text
    BY DEF Text
  <2> QED
    BY <1>1, <2>1, OptionLone DEF UnwrapOr, SearchId
<1>3. /\ Decimal[r.page] \in Characters /\ Decimal[r.size] \in Characters
      /\ Decimal[r.tab] \in Characters
  BY <1>1, RequestAssumption DEF Plain
<1>4. m \in Text /\ Len(m) = 7
  <2>1. <<"|", Decimal[r.page], "|", Decimal[r.size], "|", Decimal[r.tab], "|">>
          \in Seq(Characters)
    BY <1>3, RequestAssumption
  <2>2. Len(<<"|", Decimal[r.page], "|", Decimal[r.size], "|", Decimal[r.tab], "|">>) = 7
    OBVIOUS
  <2> QED
    BY <2>1, <2>2 DEF Text, Middle
<1>5. /\ m[1] = "|" /\ m[2] = Decimal[r.page] /\ m[4] = Decimal[r.size]
      /\ m[6] = Decimal[r.tab]
  BY DEF Middle
<1>6. s = k \o m \o n
  BY DEF CacheKey, Middle
<1> HIDE DEF m, n, k, s
<1>7. k \in Text
  BY <1>1 DEF k
<1>8. /\ Len(s) = Len(k) + 7 + Len(n)
      /\ \A i \in 1 .. Len(k) : s[i] = k[i]
      /\ \A i \in 1 .. 7 : s[Len(k) + i] = m[i]
      /\ \A i \in 1 .. Len(n) : s[Len(k) + 7 + i] = n[i]
  <2>1. k \in Seq(Characters) /\ m \in Seq(Characters) /\ n \in Seq(Characters)
    BY <1>2, <1>4, <1>7 DEF Text
  <2>2. /\ Len(s) = Len(k) + Len(m) + Len(n)
        /\ \A i \in 1 .. Len(k) : s[i] = k[i]
        /\ \A i \in 1 .. Len(m) : s[Len(k) + i] = m[i]
        /\ \A i \in 1 .. Len(n) : s[Len(k) + Len(m) + i] = n[i]
    <3>1. /\ Len(k \o m \o n) = Len(k) + Len(m) + Len(n)
          /\ \A i \in 1 .. Len(k) : (k \o m \o n)[i] = k[i]
          /\ \A i \in 1 .. Len(m) : (k \o m \o n)[Len(k) + i] = m[i]
          /\ \A i \in 1 .. Len(n) : (k \o m \o n)[Len(k) + Len(m) + i] = n[i]
      BY <2>1, KeyParts
    <3> QED
      BY <1>6, <3>1
  <2> QED
    BY <1>4, <2>2
<1>9. /\ s[Len(k) + 1] = m[1] /\ s[Len(k) + 2] = m[2] /\ s[Len(k) + 4] = m[4]
      /\ s[Len(k) + 6] = m[6]
  BY <1>8
<1>10. /\ s[Len(k) + 1] = "|" /\ s[Len(k) + 2] = Decimal[r.page]
       /\ s[Len(k) + 4] = Decimal[r.size] /\ s[Len(k) + 6] = Decimal[r.tab]
  BY <1>5, <1>9
<1> QED
  BY <1>2, <1>7, <1>8, <1>10 DEF k, n, s, MadeOf

\* One that has its first bar where the other has, has the same key.
LEMMA SameBar ==
  ASSUME NEW r \in Searches, NEW o \in Searches, ~Barred(o), CacheKey(r) = CacheKey(o)
  PROVE  ~(Len(r.key) < Len(o.key))
<1> SUFFICES ASSUME Len(r.key) < Len(o.key) PROVE FALSE
  OBVIOUS
<1>1. r.key \in Seq(Characters) /\ o.key \in Seq(Characters)
  BY CacheKeyParts DEF MadeOf, Text
<1>2. Len(r.key) + 1 \in 1 .. Len(o.key)
  BY <1>1
<1>3. CacheKey(r)[Len(r.key) + 1] = "|"
  BY CacheKeyParts DEF MadeOf
<1>4. CacheKey(o)[Len(r.key) + 1] = o.key[Len(r.key) + 1]
  BY <1>2, CacheKeyParts DEF MadeOf
<1>5. o.key[Len(r.key) + 1] # "|"
  BY <1>1, <1>2 DEF Barred, Has
<1> QED
  BY <1>3, <1>4, <1>5

LEMMA CacheKeyIsOnes ==
  ASSUME NEW r \in Searches, NEW o \in Searches, ~Barred(r), ~Barred(o),
         CacheKey(r) = CacheKey(o)
  PROVE  r = o
<1> DEFINE nr == UnwrapOr(r.id, <<>>)
           no == UnwrapOr(o.id, <<>>)
           s  == CacheKey(r)
<1>0. MadeOf(s, r) /\ MadeOf(s, o)
  BY CacheKeyParts
<1> HIDE DEF s
<1>1. /\ r.key \in Seq(Characters) /\ o.key \in Seq(Characters)
      /\ nr \in Seq(Characters) /\ no \in Seq(Characters)
  BY <1>0 DEF MadeOf, Text
<1>2. /\ Len(s) = Len(r.key) + 7 + Len(nr)
      /\ \A i \in 1 .. Len(r.key) : s[i] = r.key[i]
      /\ s[Len(r.key) + 2] = Decimal[r.page]
      /\ s[Len(r.key) + 4] = Decimal[r.size] /\ s[Len(r.key) + 6] = Decimal[r.tab]
      /\ \A i \in 1 .. Len(nr) : s[Len(r.key) + 7 + i] = nr[i]
  BY <1>0 DEF MadeOf
<1>3. /\ Len(s) = Len(o.key) + 7 + Len(no)
      /\ \A i \in 1 .. Len(o.key) : s[i] = o.key[i]
      /\ s[Len(o.key) + 2] = Decimal[o.page]
      /\ s[Len(o.key) + 4] = Decimal[o.size] /\ s[Len(o.key) + 6] = Decimal[o.tab]
      /\ \A i \in 1 .. Len(no) : s[Len(o.key) + 7 + i] = no[i]
  BY <1>0 DEF MadeOf
<1>4. Len(r.key) = Len(o.key)
  BY <1>1, SameBar
<1> HIDE DEF nr, no
<1>5. r.key = o.key
  <2>1. \A i \in 1 .. Len(r.key) : r.key[i] = o.key[i]
    BY <1>2, <1>3, <1>4
  <2> QED
    BY <1>1, <1>4, <2>1, SeqEqual
<1>6. r.page = o.page /\ r.size = o.size /\ r.tab = o.tab
  <2>1. /\ Decimal[r.page] = Decimal[o.page] /\ Decimal[r.size] = Decimal[o.size]
        /\ Decimal[r.tab] = Decimal[o.tab]
    BY <1>2, <1>3, <1>4
  <2> QED
    BY <2>1, SearchTyped, RequestAssumption
<1>7. nr = no
  <2>1. Len(nr) = Len(no)
    BY <1>1, <1>2, <1>3, <1>4
  <2>2. \A i \in 1 .. Len(nr) : nr[i] = no[i]
    BY <1>2, <1>3, <1>4, <2>1
  <2> QED
    BY <1>1, <2>1, <2>2, SeqEqual
<1>8. r.id = o.id
  <2>1. r.id \in SearchId /\ o.id \in SearchId
    BY SearchTyped
  <2>2. /\ r.id # {} => r.id = {nr} /\ nr # <<>>
        /\ r.id = {} => nr = <<>>
    BY <2>1, OptionLone DEF UnwrapOr, SearchId, nr
  <2>3. /\ o.id # {} => o.id = {no} /\ no # <<>>
        /\ o.id = {} => no = <<>>
    BY <2>1, OptionLone DEF UnwrapOr, SearchId, no
  <2> QED
    BY <1>7, <2>2, <2>3
<1> QED
  BY <1>5, <1>6, <1>8, SearchTyped

(* The cache answers a search with that very search's answer, unless a bar  *)
(* in a key makes two searches' keys one (upstream.rs:37-47).               *)
THEOREM AnswersItsOwn == SearchSpec => []AnswersOwnRequest
<1>1. SearchInv => AnswersOwnRequest
  BY CacheKeyIsOnes DEF SearchInv, Filed, AnswersOwnRequest
<1> QED
  BY <1>1, SearchAlways, PTL

-----------------------------------------------------------------------------
(* Url, query and headers. *)

LEMMA Devices ==
  ASSUME SearchInv, NEW t \in Tasks
  PROVE  /\ task[t].device.install_id \in Plain /\ task[t].device.type \in Text
         /\ task[t].device.cookie \in Cookie
BY SearchAssumption DEF SearchInv, Locals

LEMMA Elements ==
  ASSUME NEW S, NEW s \in Seq(S)
  PROVE  /\ DOMAIN s = 1 .. Len(s) /\ Len(s) \in Nat
         /\ \A i \in 1 .. Len(s) : s[i] \in S
<1>1. \A i \in 1 .. Len(s) : s[i] \in S
  BY ElementOfSeq
<1> QED
  BY <1>1

LEMMA Appended ==
  ASSUME NEW S, NEW s \in Seq(S), NEW x \in S
  PROVE  /\ DOMAIN Append(s, x) = 1 .. Len(s) + 1 /\ Append(s, x)[Len(s) + 1] = x
         /\ \A i \in 1 .. Len(s) : Append(s, x)[i] = s[i]
BY AppendProperties

Readdressed(cookie, id) ==
  IF InstallIdAt(cookie) # {}
    THEN [cookie EXCEPT ![Min(InstallIdAt(cookie))].value = id]
  ELSE Append(cookie, [key |-> "install_id", value |-> id, pair |-> TRUE])

LEMMA ReaddressedIsThere ==
  ASSUME NEW cookie \in Cookie, NEW id \in Characters
  PROVE  Readdressed(cookie, id)[Min(InstallIdAt(Readdressed(cookie, id)))].value = id
<1> DEFINE at == InstallIdAt(cookie)
           normal == Readdressed(cookie, id)
<1>1. /\ cookie \in Seq(CookiePiece)
      /\ DOMAIN cookie = 1 .. Len(cookie) /\ Len(cookie) \in Nat
      /\ \A i \in 1 .. Len(cookie) : cookie[i] \in CookiePiece
  BY Elements DEF Cookie
<1>1a. Len(cookie) \in Nat /\ Len(cookie) + 1 \in Nat
  BY <1>1
<1> SUFFICES normal[Min(InstallIdAt(normal))].value = id
  OBVIOUS
<1> HIDE DEF at, normal
<1>2. CASE at # {}
  <2>1. at \subseteq 1 .. Len(cookie)
    BY <1>1 DEF InstallIdAt, at
  <2>1a. at \in SUBSET Nat
    BY <1>1a, <2>1
  <2>2. PICK m \in at : m = Min(at)
    BY <1>2, <2>1a, LeastNumber
  <2>3. normal = [cookie EXCEPT ![m].value = id]
    BY <1>2, <2>2 DEF Readdressed, normal, at
  <2>4. m \in 1 .. Len(cookie)
    BY <2>1, <2>2
  <2>5. normal = [cookie EXCEPT ![m] = [cookie[m] EXCEPT !.value = id]]
    BY <2>3
  <2>6. /\ [cookie[m] EXCEPT !.value = id].value = id
        /\ [cookie[m] EXCEPT !.value = id].pair = cookie[m].pair
        /\ [cookie[m] EXCEPT !.value = id].key = cookie[m].key
    BY <1>1, <2>4 DEF CookiePiece
  <2>7. /\ DOMAIN normal = DOMAIN cookie /\ normal[m].value = id
        /\ \A i \in 1 .. Len(cookie) :
             normal[i].pair = cookie[i].pair /\ normal[i].key = cookie[i].key
    BY <1>1, <2>4, <2>5, <2>6
  <2>8. InstallIdAt(normal) = at
    BY <1>1, <2>7 DEF InstallIdAt, at
  <2> QED
    BY <2>2, <2>7, <2>8
<1>3. CASE at = {}
  <2> DEFINE last == [key |-> "install_id", value |-> id, pair |-> TRUE]
             n == Len(cookie) + 1
  <2>1. normal = Append(cookie, last)
    BY <1>3 DEF Readdressed, normal, at
  <2>2. last \in CookiePiece /\ last.key = "install_id" /\ last.value = id /\ last.pair
    BY RequestAssumption DEF CookiePiece
  <2> HIDE DEF last
  <2>3. /\ DOMAIN normal = 1 .. n /\ normal[n] = last
        /\ \A i \in 1 .. Len(cookie) : normal[i] = cookie[i]
    <3>1. cookie \in Seq(CookiePiece)
      BY <1>1
    <3> QED
      BY <2>1, <2>2, <3>1, Appended
  <2>4. InstallIdAt(normal) = {n}
    <3>1. \A i \in 1 .. Len(cookie) : ~(cookie[i].pair /\ cookie[i].key = "install_id")
      BY <1>1, <1>3 DEF InstallIdAt, at
    <3> QED
      BY <1>1a, <2>2, <2>3, <3>1 DEF InstallIdAt
  <2>5. n \in Nat /\ Min({n}) = n
    <3>1. n \in Nat
      BY <1>1a
    <3> HIDE DEF n
    <3>2. {n} \in SUBSET Nat /\ {n} # {}
      BY <3>1
    <3> QED
      BY <3>1, <3>2, LeastNumber
  <2> QED
    BY <2>2, <2>3, <2>4, <2>5
<1> QED
  BY <1>2, <1>3

\* After normalize_install_id the first install_id of a cookie is the device's.
LEMMA CookieNames ==
  ASSUME NEW cookie \in Cookie, NEW id \in Characters, id # ""
  PROVE  LET normal == NormalizeInstallId(cookie, id)
         IN  normal[Min(InstallIdAt(normal))].value = id
<1>1. NormalizeInstallId(cookie, id) = Readdressed(cookie, id)
  BY Zenon DEF NormalizeInstallId, Readdressed
<1> QED
  BY <1>1, ReaddressedIsThere, Zenon

(* The cookie names the installation that the url names, whosever cookie it *)
(* was, and of the headers exactly the dropped ones are missing             *)
(* (upstream.rs:528-537, fq.rs:123-158).                                    *)
THEOREM HeadersSay == SearchSpec => []HeadersAsMeant
<1>1. SearchInv => HeadersAsMeant
  <2> SUFFICES ASSUME SearchInv, NEW t \in Tasks
               PROVE  LET device == task[t].device
                          cookie == NormalizeInstallId(device.cookie, device.install_id)
                      IN  /\ device.install_id # "" =>
                               cookie[Min(InstallIdAt(cookie))].value = device.install_id
                          /\ SentHeaders(t) \cap drop.headers = {}
                          /\ SearchHeaders(device) \subseteq SentHeaders(t) \cup drop.headers
    BY DEF HeadersAsMeant
  <2>1. SentHeaders(t) \cap drop.headers = {}
    BY DEF SentHeaders, HeaderFilter
  <2>2. SearchHeaders(task[t].device) \subseteq SentHeaders(t) \cup drop.headers
    BY DEF SentHeaders, HeaderFilter, MergeHeaders
  <2> QED
    BY <2>1, <2>2, Devices, CookieNames DEF Plain
<1> QED
  BY <1>1, SearchAlways, PTL

-----------------------------------------------------------------------------
(* Texts, character by character. *)

\* The escapes of the model.
Tokens == {"%25", "%26", "%7C", "%2B", "%E4", "%20", "%23", "%09", "%7B%7D"}

LEMMA EscapeIs ==
  /\ DOMAIN Escape = {"%", "&", "|", "+", "zh", "#", "tab", "braces"}
  /\ Escape["%"] = "%25" /\ Escape["&"] = "%26" /\ Escape["|"] = "%7C"
  /\ Escape["+"] = "%2B" /\ Escape["zh"] = "%E4" /\ Escape["#"] = "%23"
  /\ Escape["tab"] = "%09" /\ Escape["braces"] = "%7B%7D"
BY DEF Escape

LEMMA EscapedByIs ==
  /\ EscapedBy("%25") = {"%"} /\ EscapedBy("%26") = {"&"} /\ EscapedBy("%7C") = {"|"}
  /\ EscapedBy("%2B") = {"+"} /\ EscapedBy("%E4") = {"zh"} /\ EscapedBy("%20") = {" "}
  /\ EscapedBy("%23") = {"#"} /\ EscapedBy("%09") = {"tab"}
  /\ EscapedBy("%7B%7D") = {"braces"}
BY EscapeIs DEF EscapedBy

LEMMA EscapedByNone ==
  ASSUME NEW c, c \notin Tokens
  PROVE  EscapedBy(c) = {}
BY EscapeIs DEF EscapedBy, Tokens

LEMMA DecodedCharIs ==
  /\ DecodedChar("%25") = "%" /\ DecodedChar("%26") = "&" /\ DecodedChar("%7C") = "|"
  /\ DecodedChar("%2B") = "+" /\ DecodedChar("%E4") = "zh" /\ DecodedChar("%20") = " "
  /\ DecodedChar("%23") = "#" /\ DecodedChar("%09") = "tab"
  /\ DecodedChar("%7B%7D") = "braces" /\ DecodedChar("+") = " "
  /\ \A c : c \notin Tokens \cup {"+"} => DecodedChar(c) = c
BY EscapedByIs, EscapedByNone DEF DecodedChar

LEMMA EncodedCharIs ==
  /\ EncodedChar("%") = "%25" /\ EncodedChar("&") = "%26" /\ EncodedChar("|") = "%7C"
  /\ EncodedChar("+") = "%2B" /\ EncodedChar("zh") = "%E4" /\ EncodedChar(" ") = "+"
  /\ EncodedChar("#") = "%23" /\ EncodedChar("tab") = "%09"
  /\ EncodedChar("braces") = "%7B%7D"
  /\ \A c : c \notin DOMAIN Escape \cup {" "} => EncodedChar(c) = c
BY EscapeIs DEF EncodedChar

LEMMA WireCharIs ==
  /\ WireChar(" ") = "%20" /\ WireChar("zh") = "%E4" /\ WireChar("tab") = ""
  /\ \A c : c \notin {" ", "zh", "tab"} => WireChar(c) = c
BY DEF WireChar

LEMMA CharDecoded ==
  ASSUME NEW c
  PROVE  DecodedChar(c) \notin Tokens
BY DecodedCharIs DEF Tokens

LEMMA CharBack ==
  ASSUME NEW c, c \notin Tokens
  PROVE  DecodedChar(EncodedChar(c)) = c
<1>1. CASE c \in DOMAIN Escape
  <2>1. \/ c = "%" \/ c = "&" \/ c = "|" \/ c = "+" \/ c = "zh" \/ c = "#"
        \/ c = "tab" \/ c = "braces"
    BY <1>1, EscapeIs
  <2> QED
    BY <2>1, DecodedCharIs, EncodedCharIs, Zenon
<1>2. CASE c = " "
  BY <1>2, DecodedCharIs, EncodedCharIs
<1>3. CASE c \notin DOMAIN Escape \cup {" "}
  <2>1. EncodedChar(c) = c /\ c # "+"
    BY <1>3, EncodedCharIs, EscapeIs
  <2> QED
    BY <2>1, DecodedCharIs
<1> QED
  BY <1>1, <1>2, <1>3

\* What the url parser does not leave as it is.
Unsent == {" ", "zh", "tab", "#"}

LEMMA CharEncoded ==
  ASSUME NEW c
  PROVE  EncodedChar(c) \notin Unsent \cup {"&"}
BY EncodedCharIs, EscapeIs DEF Unsent

LEMMA CharWire ==
  ASSUME NEW c
  PROVE  /\ c # "tab" => DecodedChar(WireChar(c)) = DecodedChar(c)
         /\ c \notin Unsent => WireChar(c) = c
         /\ WireChar(c) \in Unsent => WireChar(c) = "#" /\ c = "#"
         /\ WireChar(c) = "&" => c = "&"
<1>1. CASE c = " "
  <2>1. WireChar(c) = "%20" /\ DecodedChar("%20") = " "
    BY <1>1, DecodedCharIs, WireCharIs, Zenon
  <2>2. DecodedChar(c) = c
    <3>1. c \notin Tokens \cup {"+"}
      BY <1>1 DEF Tokens
    <3> QED
      BY <3>1, DecodedCharIs, Zenon
  <2> QED
    BY <1>1, <2>1, <2>2 DEF Unsent
<1>2. CASE c = "zh"
  <2>1. WireChar(c) = "%E4" /\ DecodedChar("%E4") = "zh"
    BY <1>2, DecodedCharIs, WireCharIs, Zenon
  <2>2. DecodedChar(c) = c
    <3>1. c \notin Tokens \cup {"+"}
      BY <1>2 DEF Tokens
    <3> QED
      BY <3>1, DecodedCharIs, Zenon
  <2> QED
    BY <1>2, <2>1, <2>2 DEF Unsent
<1>3. CASE c = "tab"
  BY <1>3, WireCharIs DEF Unsent
<1>4. CASE c \notin {" ", "zh", "tab"}
  <2>1. WireChar(c) = c
    BY <1>4, WireCharIs
  <2> QED
    BY <1>4, <2>1 DEF Unsent
<1> QED
  BY <1>1, <1>2, <1>3, <1>4

-----------------------------------------------------------------------------
(* Texts as a whole. *)

\* A text is a function.
Whole(text) == text = [i \in DOMAIN text |-> text[i]]

\* It holds no escape.
Clean(text) == Whole(text) /\ \A i \in DOMAIN text : text[i] \notin Tokens

LEMMA DecodedIsClean ==
  ASSUME NEW text
  PROVE  Clean(Decode(text))
BY CharDecoded DEF Clean, Whole, Decode

LEMMA TextIsWhole ==
  ASSUME NEW text \in Text
  PROVE  Whole(text) /\ \E n \in Nat : DOMAIN text = 1 .. n
BY DEF Text, Whole

LEMMA DecodesBack ==
  ASSUME NEW text, Clean(text)
  PROVE  Decode(Encode(text)) = text
BY CharBack DEF Clean, Whole, Decode, Encode

LEMMA PlainlyClean ==
  ASSUME NEW text, Whole(text), Decode(text) = text
  PROVE  Clean(text)
BY DecodedIsClean

LEMMA NothingToCut ==
  ASSUME NEW text, NEW c, ~Has(text, {c})
  PROVE  UpTo(text, c) = text
BY DEF UpTo, Has

\* What is cut off at a character does not hold it.
LEMMA CutOff ==
  ASSUME NEW text, NEW c, NEW n \in Nat, DOMAIN text = 1 .. n
  PROVE  ~Has(UpTo(text, c), {c})
<1> DEFINE at == {i \in DOMAIN text : text[i] = c}
<1>1. CASE at = {}
  BY <1>1 DEF UpTo, Has
<1>2. CASE at # {}
  <2>1. at \in SUBSET Nat
    OBVIOUS
  <2>2. Min(at) \in 1 .. n /\ \A i \in at : Min(at) <= i
    BY <1>2, <2>1, LeastNumber
  <2>3. UpTo(text, c) = SubSeq(text, 1, Min(at) - 1)
    BY <1>2 DEF UpTo
  <2> HIDE DEF at
  <2>4. /\ DOMAIN UpTo(text, c) = 1 .. Min(at) - 1
        /\ \A i \in 1 .. Min(at) - 1 : UpTo(text, c)[i] = text[i]
    BY <2>2, <2>3
  <2>5. ASSUME NEW i \in 1 .. Min(at) - 1 PROVE text[i] # c
    <3>1. i \in DOMAIN text /\ ~(Min(at) <= i)
      BY <2>2
    <3>2. i \notin at
      BY <2>2, <3>1
    <3> QED
      BY <3>1, <3>2 DEF at
  <2> QED
    BY <2>4, <2>5 DEF Has
<1> QED
  BY <1>1, <1>2

LEMMA EncodedHasNot ==
  ASSUME NEW text
  PROVE  ~Has(Encode(text), Unsent) /\ ~Has(Encode(text), {"&"}) /\ Whole(Encode(text))
BY CharEncoded DEF Encode, Has, Whole

\* A text without them goes out as it is.
LEMMA SentAsItIs ==
  ASSUME NEW text, Whole(text), ~Has(text, Unsent)
  PROVE  Wire(UpTo(text, "#")) = text
<1>1. UpTo(text, "#") = text
  <2>1. ~Has(text, {"#"})
    BY DEF Has, Unsent
  <2> QED
    BY <2>1, NothingToCut
<1>2. Wire(text) = text
  BY CharWire DEF Wire, Whole, Has
<1> QED
  BY <1>1, <1>2

\* What goes out holds none of them.
LEMMA WireHasNot ==
  ASSUME NEW text, NEW n \in Nat, DOMAIN text = 1 .. n
  PROVE  ~Has(Wire(UpTo(text, "#")), Unsent)
<1>1. ~Has(UpTo(text, "#"), {"#"})
  BY CutOff
<1> DEFINE cut == UpTo(text, "#")
<1> HIDE DEF cut
<1>2. ~Has(cut, {"#"}) => ~Has(Wire(cut), Unsent)
  BY CharWire DEF Has, Wire
<1> QED
  BY <1>1, <1>2 DEF cut

\* What is read of a value that was written as it is, ...
LEMMA RawIsRead ==
  ASSUME NEW text, ~Has(text, {"&", "#", "tab"})
  PROVE  Decode(UpTo(Wire(UpTo(text, "#")), "&")) = Decode(text)
<1>1. UpTo(text, "#") = text
  BY NothingToCut DEF Has
<1>2. ~Has(Wire(text), {"&"})
  BY CharWire DEF Wire, Has
<1>3. Decode(Wire(text)) = Decode(text)
  BY CharWire DEF Wire, Decode, Has
<1> QED
  BY <1>1, <1>2, <1>3, NothingToCut

\* ... and of one that was encoded.
LEMMA EncodedIsRead ==
  ASSUME NEW text, Clean(text)
  PROVE  Decode(UpTo(Wire(UpTo(Encode(text), "#")), "&")) = text
<1>1. Wire(UpTo(Encode(text), "#")) = Encode(text)
  BY EncodedHasNot, SentAsItIs
<1>2. UpTo(Encode(text), "&") = Encode(text)
  BY EncodedHasNot, NothingToCut
<1> QED
  BY <1>1, <1>2, DecodesBack

LEMMA ParamIs ==
  ASSUME NEW name, NEW value
  PROVE  LET p == Param(name, value)
         IN  p.name = name /\ p.value = value /\ p = Param(p.name, p.value)
BY DEF Param

LEMMA UrlIs ==
  ASSUME NEW params, NEW fragment
  PROVE  /\ Url(params, fragment).params = params
         /\ Url(params, fragment).fragment = fragment
BY DEF Url

\* What a url parser makes of a parameter.
Parsing(p) == Param(p.name, Wire(UpTo(p.value, "#")))

\* The parameters that no fragment takes in.
Reached(url) == {p \in url.params : ~\E end \in Ends(url) : Before(end, p)}

LEMMA OnTheWireIs ==
  ASSUME NEW url
  PROVE  OnTheWire(url) = Url({Parsing(p) : p \in Reached(url)}, FALSE)
BY DEF OnTheWire, Parsing, Reached

LEMMA ParsingIs ==
  ASSUME NEW p
  PROVE  /\ Parsing(p).name = p.name
         /\ Parsing(p).value = Wire(UpTo(p.value, "#"))
BY ParamIs DEF Parsing

LEMMA WireParams ==
  ASSUME NEW url
  PROVE  /\ \A w \in OnTheWire(url).params : \E p \in url.params : w = Parsing(p)
         /\ \A p \in Reached(url) : Parsing(p) \in OnTheWire(url).params
<1>1. OnTheWire(url).params = {Parsing(p) : p \in Reached(url)}
  BY OnTheWireIs, UrlIs
<1>2. Reached(url) \subseteq url.params
  BY DEF Reached
<1> QED
  BY <1>1, <1>2

\* How the upstream reads one.
Reading(p) == Param(p.name, Decode(UpTo(p.value, "&")))

LEMMA ReadParams ==
  ASSUME NEW url
  PROVE  /\ \A r \in Received(url) : \E p \in url.params : r = Reading(p)
         /\ \A p \in url.params : Reading(p) \in Received(url)
BY DEF Received, Reading

-----------------------------------------------------------------------------
(* The url. *)

LEMMA TaskTexts ==
  ASSUME SearchInv, NEW t \in Tasks
  PROVE  /\ task[t].of.key \in Text /\ task[t].device.type \in Text
         /\ task[t].device.brand \in Text /\ task[t].device.install_id \in Plain
         /\ task[t].id \subseteq Text
<1>1. /\ task[t].of \in Searches /\ task[t].id \in SearchId
      /\ task[t].device \in Pool \cup BootProfiles
  BY DEF SearchInv, Locals
<1> QED
  BY <1>1, SearchTyped, SearchAssumption DEF SearchId, Option

LEMMA OffsetIsNumber ==
  ASSUME NEW r \in Searches
  PROVE  Offset(r) \in Numbers
<1> DEFINE a == (r.page - 1) * r.size
<1>1. a \in Nat
  <2>1. r.page - 1 \in Nat /\ r.size \in Nat
    BY SearchTyped, RequestAssumption DEF Numbers
  <2>2. \A m, n \in Nat : m * n \in Nat
    OBVIOUS
  <2> QED
    BY <2>1, <2>2
<1> HIDE DEF a
<1>2. {a, MaxUsize} \in SUBSET Nat /\ {a, MaxUsize} # {}
  BY <1>1, RequestAssumption
<1>3. Min({a, MaxUsize}) \in {a, MaxUsize} /\ Min({a, MaxUsize}) <= MaxUsize
  BY <1>2, LeastNumber
<1>4. Offset(r) = Min({a, MaxUsize})
  BY DEF Offset, a
<1> QED
  BY <1>1, <1>3, <1>4, RequestAssumption DEF Numbers

\* Every parameter of a search has a text for its value.
LEMMA ParamsAreTexts ==
  ASSUME SearchInv, NEW t \in Tasks, NEW p \in Params(t)
  PROVE  p = Param(p.name, p.value) /\ p.value \in Text
<1> DEFINE r == UpstreamSearch(task[t].of, task[t].phase, task[t].id)
           device == task[t].device
<1>1. /\ r.query \in Text /\ r.id \subseteq Text
      /\ r.offset \in Numbers /\ r.count \in Numbers /\ r.tab \in Numbers
      /\ device.type \in Text /\ device.brand \in Text
      /\ device.install_id \in Characters
  <2>1. task[t].of \in Searches
    BY DEF SearchInv, Locals
  <2> QED
    BY <2>1, SearchTyped, OffsetIsNumber, TaskTexts DEF UpstreamSearch, Plain
<1>2. p \in SearchParams(device, r)
  BY DEF Params
<1> HIDE DEF r, device
<1>3. ASSUME NEW c \in Characters PROVE <<c>> \in Text
  BY DEF Text
<1>4. ASSUME NEW n \in Numbers PROVE <<Decimal[n]>> \in Text
  <2>1. Decimal[n] \in Characters
    BY RequestAssumption DEF Plain
  <2> QED
    BY <1>3, <2>1
<1>5. <<device.install_id>> \in Text /\ <<"braces">> \in Text
  BY <1>1, <1>3, RequestAssumption
<1>6. \E name, value : p = Param(name, value) /\ value \in Text
  <2>1. CASE \/ p = Param("iid", <<device.install_id>>)
             \/ p = Param("device_type", device.type)
             \/ p = Param("device_brand", device.brand)
    BY <1>1, <1>5, <2>1, Zenon
  <2>2. CASE \/ p = Param("offset", <<Decimal[r.offset]>>)
             \/ p = Param("passback", <<Decimal[r.offset]>>)
    BY <1>1, <1>4, <2>2, Zenon
  <2>3. CASE p = Param("count", <<Decimal[r.count]>>)
    BY <1>1, <1>4, <2>3, Zenon
  <2>4. CASE p = Param("tab_type", <<Decimal[r.tab]>>)
    BY <1>1, <1>4, <2>4, Zenon
  <2>5. CASE p = Param("query", r.query)
    BY <1>1, <2>5, Zenon
  <2>6. CASE \E id \in r.id : p = Param("search_id", id)
    BY <1>1, <2>6
  <2>7. CASE p = Param("client_ab_info", <<"braces">>)
    BY <1>5, <2>7, Zenon
  <2> QED
    BY <1>2, <2>1, <2>2, <2>3, <2>4, <2>5, <2>6, <2>7, Zenon
       DEF SearchParams, CommonParams
<1> QED
  BY <1>6, ParamIs

\* What build_url writes of a parameter.
Built(p) == Param(p.name, IF Raw(p) THEN p.value ELSE Encode(p.value))

LEMMA BuiltIs ==
  ASSUME NEW params
  PROVE  BuildUrl(params) = Url({Built(p) : p \in params}, FALSE)
<1> DEFINE Written(p) == Param(p.name, IF p.name \in Whitelist
                                         THEN EncodeIfNeeded(p.value) ELSE p.value)
<1>1. ASSUME NEW p PROVE Written(p) = Built(p)
  BY DEF Built, Raw, EncodeIfNeeded
<1>2. BuildUrl(params) = Url({Written(p) : p \in params}, FALSE)
  BY DEF BuildUrl
<1> HIDE DEF Written
<1>3. {Written(p) : p \in params} = {Built(p) : p \in params}
  BY <1>1
<1> QED
  BY <1>2, <1>3

LEMMA BuiltUrl ==
  ASSUME NEW params
  PROVE  /\ BuildUrl(params).params = {Built(p) : p \in params}
         /\ BuildUrl(params).fragment = FALSE
BY BuiltIs, UrlIs

LEMMA BuiltParam ==
  ASSUME NEW p
  PROVE  /\ Built(p).name = p.name
         /\ Built(p).value = IF Raw(p) THEN p.value ELSE Encode(p.value)
         /\ Built(p) = Param(p.name, Built(p).value)
BY ParamIs DEF Built

\* A value that is encoded was clean.
LEMMA EncodedWasClean ==
  ASSUME SearchInv, NEW t \in Tasks, NEW p \in Params(t), ~Raw(p)
  PROVE  Clean(p.value)
BY ParamsAreTexts, TextIsWhole, PlainlyClean DEF Raw

\* The query ends in what is written as it is.
LEMMA EndsAreRaw ==
  ASSUME NEW params
  PROVE  /\ \A end \in Ends(BuildUrl(params)) :
              \E p \in params : end = Built(p) /\ Raw(p) /\ Has(p.value, {"#"})
         /\ \A p \in params : Raw(p) /\ Has(p.value, {"#"})
                                => Built(p) \in Ends(BuildUrl(params))
<1>1. ASSUME NEW p
      PROVE  Has(Built(p).value, {"#"}) <=> Raw(p) /\ Has(p.value, {"#"})
  <2>1. ~Has(Encode(p.value), {"#"})
    BY EncodedHasNot DEF Has, Unsent
  <2> QED
    BY <2>1, BuiltParam
<1>2. Ends(BuildUrl(params)) = {b \in {Built(p) : p \in params} : Has(b.value, {"#"})}
  BY BuiltUrl DEF Ends
<1> QED
  BY <1>1, <1>2

\* What a url parser leaves as it is.
Settled(params) ==
  \A p \in params : p = Param(p.name, p.value) /\ Whole(p.value) /\ ~Has(p.value, Unsent)

LEMMA SettledUrl ==
  ASSUME NEW params, NEW fragment, Settled(params)
  PROVE  /\ Ends(Url(params, fragment)) = {}
         /\ Reached(Url(params, fragment)) = params
         /\ OnTheWire(Url(params, fragment)) = Url(params, FALSE)
<1> DEFINE url == Url(params, fragment)
<1>1. url.params = params
  BY UrlIs
<1> HIDE DEF url
<1>2. Ends(url) = {}
  <2>1. ASSUME NEW p \in params PROVE ~Has(p.value, {"#"})
    BY DEF Settled, Has, Unsent
  <2> QED
    BY <1>1, <2>1 DEF Ends
<1>3. Reached(url) = params
  BY <1>1, <1>2 DEF Reached
<1>4. ASSUME NEW p \in params PROVE Parsing(p) = p
  BY SentAsItIs DEF Parsing, Settled
<1>5. {Parsing(p) : p \in params} = params
  BY <1>4
<1>6. OnTheWire(url) = Url(params, FALSE)
  BY <1>3, <1>5, OnTheWireIs
<1> QED
  BY <1>2, <1>3, <1>6 DEF url

\* What a filter writes of the parameters it has read.
Rewritten(url, dropped) ==
  {Param(p.name, Encode(p.value)) :
     p \in {p \in Received(OnTheWire(url)) : p.name \notin dropped}}

LEMMA RewrittenIs ==
  ASSUME NEW url, NEW dropped
  PROVE  /\ Settled(Rewritten(url, dropped))
         /\ \A p \in Rewritten(url, dropped) : p.name \notin dropped
         /\ \A p \in Received(OnTheWire(url)) :
              p.name \notin dropped
                => Param(p.name, Encode(p.value)) \in Rewritten(url, dropped)
<1> DEFINE kept == {p \in Received(OnTheWire(url)) : p.name \notin dropped}
<1>1. Rewritten(url, dropped) = {Param(p.name, Encode(p.value)) : p \in kept}
  BY DEF Rewritten
<1>2. ASSUME NEW p \in Rewritten(url, dropped)
      PROVE  /\ p = Param(p.name, p.value) /\ Whole(p.value) /\ ~Has(p.value, Unsent)
             /\ p.name \notin dropped
  <2>1. PICK q \in kept : p = Param(q.name, Encode(q.value))
    BY <1>1
  <2>2. q.name \notin dropped
    OBVIOUS
  <2>3. p.name = q.name /\ p.value = Encode(q.value) /\ p = Param(p.name, p.value)
    BY <2>1, ParamIs
  <2> QED
    BY <2>2, <2>3, EncodedHasNot
<1>3. ASSUME NEW p \in Received(OnTheWire(url)), p.name \notin dropped
      PROVE  Param(p.name, Encode(p.value)) \in Rewritten(url, dropped)
  <2>1. p \in kept
    BY <1>3
  <2> QED
    BY <1>1, <2>1
<1> QED
  BY <1>2, <1>3 DEF Settled

LEMMA FilteredIs ==
  ASSUME NEW url, NEW dropped, dropped # {}
  PROVE  QueryFilter(url, dropped)
           = Url(Rewritten(url, dropped), url.fragment \/ Ends(url) # {})
BY DEF QueryFilter, Rewritten

\* A filtered url goes out as it is, but for the fragment.
LEMMA FilteredIsSent ==
  ASSUME NEW url, NEW dropped, dropped # {}, url.fragment = FALSE
  PROVE  OnTheWire(QueryFilter(url, dropped)) = QueryFilter(url, dropped)
           <=> Ends(url) = {}
<1> DEFINE params == Rewritten(url, dropped)
           fragment == url.fragment \/ Ends(url) # {}
<1>1. fragment = (Ends(url) # {}) /\ fragment \in BOOLEAN
  OBVIOUS
<1>2. QueryFilter(url, dropped) = Url(params, fragment)
  BY FilteredIs
<1>3. Settled(params)
  BY RewrittenIs
<1> HIDE DEF params, fragment
<1>4. OnTheWire(Url(params, fragment)) = Url(params, FALSE)
  BY <1>3, SettledUrl
<1>5. Url(params, fragment) = Url(params, FALSE) <=> fragment = FALSE
  <2>1. ASSUME Url(params, fragment) = Url(params, FALSE) PROVE fragment = FALSE
    <3>1. Url(params, fragment).fragment = fragment
      BY UrlIs, Zenon
    <3>2. Url(params, FALSE).fragment = FALSE
      BY UrlIs, Zenon
    <3> QED
      BY <2>1, <3>1, <3>2, Zenon
  <2>2. ASSUME fragment = FALSE PROVE Url(params, fragment) = Url(params, FALSE)
    BY <2>2, Zenon
  <2> QED
    BY <2>1, <2>2, Zenon
<1> QED
  BY <1>1, <1>2, <1>4, <1>5

\* What build_url writes for a parameter of a search.
LEMMA WrittenText ==
  ASSUME SearchInv, NEW t \in Tasks, NEW p \in Params(t)
  PROVE  /\ Whole(Built(p).value)
         /\ \E n \in Nat : DOMAIN Built(p).value = 1 .. n
         /\ Has(Built(p).value, Unsent) <=> Raw(p) /\ Has(p.value, Unsent)
<1>1. Whole(p.value) /\ \E n \in Nat : DOMAIN p.value = 1 .. n
  BY ParamsAreTexts, TextIsWhole
<1>2. /\ Whole(Encode(p.value)) /\ ~Has(Encode(p.value), Unsent)
      /\ DOMAIN Encode(p.value) = DOMAIN p.value
  BY EncodedHasNot DEF Encode
<1> QED
  BY <1>1, <1>2, BuiltParam

\* A url that build_url made goes out as it is if its values do, and only then.
LEMMA BuiltIsSent ==
  ASSUME SearchInv, NEW t \in Tasks
  PROVE  OnTheWire(BuildUrl(Params(t))) = BuildUrl(Params(t))
           <=> ~\E p \in Params(t) : Raw(p) /\ Has(p.value, Unsent)
<1> DEFINE written == {Built(p) : p \in Params(t)}
           url == BuildUrl(Params(t))
<1>1. url = Url(written, FALSE) /\ url.params = written
  BY BuiltIs, BuiltUrl
<1>2. \A b \in written : \E p \in Params(t) : b = Built(p)
  OBVIOUS
<1>3. \A p \in Params(t) : Built(p) \in written
  OBVIOUS
<1> HIDE DEF written, url
<1>4. ASSUME ~\E p \in Params(t) : Raw(p) /\ Has(p.value, Unsent)
      PROVE  OnTheWire(url) = url
  <2>1. Settled(written)
    <3> SUFFICES ASSUME NEW b \in written
                 PROVE  b = Param(b.name, b.value) /\ Whole(b.value) /\ ~Has(b.value, Unsent)
      BY DEF Settled
    <3>1. PICK p \in Params(t) : b = Built(p)
      BY <1>2
    <3> QED
      BY <1>4, <3>1, WrittenText, BuiltParam
  <2> QED
    BY <1>1, <2>1, SettledUrl
<1>5. ASSUME NEW p \in Params(t), Raw(p), Has(p.value, Unsent)
      PROVE  OnTheWire(url) # url
  <2>1. Built(p) \in url.params /\ Has(Built(p).value, Unsent)
    BY <1>1, <1>3, <1>5, WrittenText
  <2>2. ASSUME NEW w \in OnTheWire(url).params PROVE ~Has(w.value, Unsent)
    <3>1. PICK b \in url.params : w = Parsing(b)
      BY WireParams
    <3>2. PICK q \in Params(t) : b = Built(q)
      BY <1>1, <1>2
    <3>3. PICK n \in Nat : DOMAIN b.value = 1 .. n
      BY <3>2, WrittenText
    <3> QED
      BY <3>1, <3>3, WireHasNot, ParsingIs
  <2> QED
    BY <2>1, <2>2
<1> QED
  BY <1>4, <1>5 DEF url

(* What is signed is what goes out, for any device, search, answer and drop *)
(* list, except just where a value that is written as it is holds a "#", or *)
(* without a filter what else a url must escape or leave out                *)
(* (upstream.rs:515-542, 801-835).                                          *)
THEOREM SignsWhatItSends == SearchSpec => []SignedIsSent
<1>1. SearchInv => SignedIsSent
  <2> SUFFICES ASSUME SearchInv, NEW t \in Tasks
               PROVE  OnTheWire(Signed(t)) # Signed(t) <=>
                        \E p \in Params(t) : Raw(p) /\
                          Has(p.value, {"#"} \cup (IF drop.query = {}
                                                     THEN {" ", "zh", "tab"} ELSE {}))
    BY DEF SignedIsSent
  <2>1. CASE drop.query = {}
    <3>1. Signed(t) = BuildUrl(Params(t))
      BY <2>1 DEF Signed, QueryFilter
    <3>2. {"#"} \cup (IF drop.query = {} THEN {" ", "zh", "tab"} ELSE {}) = Unsent
      BY <2>1 DEF Unsent
    <3> QED
      BY <3>1, <3>2, BuiltIsSent
  <2>2. CASE drop.query # {}
    <3>1. OnTheWire(Signed(t)) = Signed(t) <=> Ends(BuildUrl(Params(t))) = {}
      BY <2>2, FilteredIsSent, BuiltUrl DEF Signed
    <3>2. {"#"} \cup (IF drop.query = {} THEN {" ", "zh", "tab"} ELSE {}) = {"#"}
      BY <2>2
    <3>3. Ends(BuildUrl(Params(t))) # {}
            <=> \E p \in Params(t) : Raw(p) /\ Has(p.value, {"#"})
      BY EndsAreRaw
    <3> QED
      BY <3>1, <3>2, <3>3
  <2> QED
    BY <2>1, <2>2
<1> QED
  BY <1>1, SearchAlways, PTL

\* A parameter that is not written as it is with a bare "&", "#" or tab, and
\* before which none with a "#" is, is read of the url that was built.
LEMMA BuiltIsRead ==
  ASSUME SearchInv, NEW t \in Tasks, NEW p \in Params(t),
         ~(Raw(p) /\ Has(p.value, {"&", "#", "tab"})),
         ~\E q \in Params(t) : Before(q, p) /\ Raw(q) /\ Has(q.value, {"#"})
  PROVE  Param(p.name, Decode(p.value)) \in Received(OnTheWire(BuildUrl(Params(t))))
<1> DEFINE url == BuildUrl(Params(t))
<1>1. Built(p) \in url.params
  BY BuiltUrl
<1>2. ~\E end \in Ends(url) : Before(end, Built(p))
  <2> SUFFICES ASSUME NEW end \in Ends(url), Before(end, Built(p)) PROVE FALSE
    OBVIOUS
  <2>1. PICK q \in Params(t) : end = Built(q) /\ Raw(q) /\ Has(q.value, {"#"})
    BY EndsAreRaw
  <2>2. end.name = q.name /\ Built(p).name = p.name
    BY <2>1, BuiltParam
  <2>3. Before(q, p)
    BY <2>2 DEF Before
  <2> QED
    BY <2>1, <2>3
<1>3. Parsing(Built(p)) \in OnTheWire(url).params
  <2>1. Built(p) \in Reached(url)
    BY <1>1, <1>2 DEF Reached
  <2> QED
    BY <2>1, WireParams
<1>4. Reading(Parsing(Built(p))) \in Received(OnTheWire(url))
  BY <1>3, ReadParams
<1> HIDE DEF url
<1>5. Decode(UpTo(Wire(UpTo(Built(p).value, "#")), "&")) = Decode(p.value)
  <2>1. CASE Raw(p)
    BY <2>1, BuiltParam, RawIsRead
  <2>2. CASE ~Raw(p)
    <3>1. Clean(p.value) /\ Decode(p.value) = p.value
      BY <2>2, EncodedWasClean DEF Raw
    <3> QED
      BY <2>2, <3>1, BuiltParam, EncodedIsRead
  <2> QED
    BY <2>1, <2>2
<1>6. Reading(Parsing(Built(p))) = Param(p.name, Decode(p.value))
  BY <1>5, ParsingIs, BuiltParam DEF Reading
<1> QED
  BY <1>4, <1>6 DEF url

\* What a filter writes is read as it was read, and nothing else is.
LEMMA FilteredIsRead ==
  ASSUME NEW url, NEW dropped, dropped # {}
  PROVE  LET received == Received(OnTheWire(QueryFilter(url, dropped)))
         IN  /\ \A p \in received : p.name \notin dropped
             /\ \A name, text :
                  /\ name \notin dropped
                  /\ Param(name, Decode(text)) \in Received(OnTheWire(url))
                  => Param(name, Decode(text)) \in received
<1> DEFINE params == Rewritten(url, dropped)
           filtered == QueryFilter(url, dropped)
           wire == OnTheWire(filtered)
<1>1. Settled(params)
  BY RewrittenIs
<1>2. wire.params = params
  <2>1. filtered = Url(params, url.fragment \/ Ends(url) # {})
    BY FilteredIs
  <2> HIDE DEF filtered, params
  <2>2. wire = Url(params, FALSE)
    BY <1>1, <2>1, SettledUrl
  <2> QED
    BY <2>2, UrlIs
<1> HIDE DEF wire
<1>3. ASSUME NEW p \in Received(wire) PROVE p.name \notin dropped
  <2>1. PICK w \in params : p = Reading(w)
    BY <1>2, ReadParams
  <2>2. p.name = w.name
    BY <2>1, ParamIs DEF Reading
  <2> QED
    BY <2>1, <2>2, RewrittenIs
<1>4. ASSUME NEW name, NEW text, name \notin dropped,
             Param(name, Decode(text)) \in Received(OnTheWire(url))
      PROVE  Param(name, Decode(text)) \in Received(wire)
  <2> DEFINE value == Decode(text)
             again == Param(name, Encode(value))
  <2>1. Param(name, value).name = name /\ Param(name, value).value = value
    BY ParamIs
  <2>2. again \in params
    BY <1>4, <2>1, RewrittenIs
  <2>3. Reading(again) \in Received(wire)
    BY <1>2, <2>2, ReadParams
  <2>4. Clean(value)
    BY DecodedIsClean
  <2> HIDE DEF value
  <2>5. Decode(UpTo(Encode(value), "&")) = value
    BY <2>4, EncodedHasNot, NothingToCut, DecodesBack
  <2>6. Reading(again) = Param(name, value)
    BY <2>5, ParamIs DEF Reading
  <2> QED
    BY <2>3, <2>6 DEF value
<1> QED
  BY <1>3, <1>4 DEF wire

(* The upstream reads every parameter that is not dropped, decoded once if  *)
(* it is written as it is, except one that holds a bare "&", "#" or tab and *)
(* those behind a "#", for any search, device and drop list, filtered and   *)
(* encoded anew or not (fq.rs:24-112; upstream.rs:801-835).                 *)
THEOREM ParametersArrive == SearchSpec => []QueryArrives
<1>1. SearchInv => QueryArrives
  <2> SUFFICES ASSUME SearchInv, NEW t \in Tasks
               PROVE  /\ \A p \in Received(OnTheWire(Signed(t))) : p.name \notin drop.query
                      /\ \A p \in Params(t) :
                           \/ Param(p.name, Decode(p.value)) \in Received(OnTheWire(Signed(t)))
                           \/ p.name \in drop.query
                           \/ Raw(p) /\ Has(p.value, {"&", "#", "tab"})
                           \/ \E q \in Params(t) :
                                Before(q, p) /\ Raw(q) /\ Has(q.value, {"#"})
    BY DEF QueryArrives
  <2> DEFINE url == BuildUrl(Params(t))
  <2>1. \A p \in Params(t) :
          \/ Param(p.name, Decode(p.value)) \in Received(OnTheWire(url))
          \/ Raw(p) /\ Has(p.value, {"&", "#", "tab"})
          \/ \E q \in Params(t) : Before(q, p) /\ Raw(q) /\ Has(q.value, {"#"})
    BY BuiltIsRead
  <2>2. Signed(t) = QueryFilter(url, drop.query)
    BY DEF Signed
  <2> HIDE DEF url
  <2>3. CASE drop.query = {}
    <3>1. Signed(t) = url
      BY <2>2, <2>3 DEF QueryFilter
    <3> QED
      BY <2>1, <2>3, <3>1
  <2>4. CASE drop.query # {}
    BY <2>1, <2>2, <2>4, FilteredIsRead
  <2> QED
    BY <2>3, <2>4
<1> QED
  BY <1>1, SearchAlways, PTL
=============================================================================
