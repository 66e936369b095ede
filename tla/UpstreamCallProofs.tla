------------------------- MODULE UpstreamCallProofs -------------------------
(***************************************************************************)
(* Proofs about UpstreamCall: with calls shorter than the rotation         *)
(* cooldown, rotations do not undo each other.  They hold for every pool,  *)
(* number of tasks, cooldown and outcome.                                  *)
(***************************************************************************)
EXTENDS UpstreamCall, DevicePoolProofs, SequenceTheorems

\* What the theorems assume of the configuration: distinct profiles, a boot
\* profile that the pool holds at the index it resolves to (as config.rs
\* leaves it when fq.device_profile is not set), and calls shorter than the
\* rotation cooldown.
Configured ==
  /\ \A i, j \in Indices : Profiles[i] = Profiles[j] => i = j
  /\ \A profile \in BootProfiles, name \in StartupNames :
       /\ ResolveActiveIndex(profile, name) \in Indices
       /\ Profiles[ResolveActiveIndex(profile, name)] = profile
  /\ MaxHold < RotateCooldownMs

\* The types the argument needs.
Typed ==
  /\ clock \in Nat \ {0}
  /\ last_rotate_at_ms \in 0 .. clock
  /\ pc \in [Tasks -> Places]
  /\ device \in [Tasks -> Pool \cup BootProfiles]
  /\ held_since \in [Tasks -> 0 .. clock]

IndexInv ==
  /\ active_index \in Indices
  /\ active_profile = Profiles[active_index]

\* No call holds its device longer than MaxHold.
HoldBounded ==
  \A t \in Tasks : Holding(t) => clock - held_since[t] <= MaxHold

RotatedSince(t) ==
  last_rotate_at_ms # 0 /\ last_rotate_at_ms >= held_since[t]

\* If the pool is no longer on the device a call holds, it has rotated since
\* the call took it; a call about to retry has itself seen to that.
HeldDevice ==
  \A t \in Tasks :
    /\ Holding(t) /\ active_profile # device[t] => RotatedSince(t)
    /\ pc[t] = "retry" => active_profile # device[t]

HInv == Typed /\ IndexInv /\ HoldBounded /\ HeldDevice

-----------------------------------------------------------------------------
LEMMA Numbers ==
  PoolSize \in Nat /\ RotateCooldownMs \in Nat /\ MaxHold \in Nat
BY UpstreamCallAssumption, PoolNumbers

\* The next index of a pool of at least two is another index of it.
LEMMA NextIndex ==
  ASSUME NEW i \in Indices, PoolSize > 1
  PROVE  (i + 1) % PoolSize \in Indices \ {i}
<1> USE Numbers DEF Indices
<1>1. CASE i + 1 = PoolSize
  BY <1>1
<1>2. CASE i + 1 < PoolSize
  BY <1>2
<1> QED BY <1>1, <1>2

\* Within MaxHold of a rotation no other is allowed.
LEMMA NoRotationWhileHeld ==
  ASSUME Typed, HoldBounded, Configured, NEW t \in Tasks, Holding(t),
         RotatedSince(t)
  PROVE  ~RotationAllowed
<1>1. /\ clock - held_since[t] <= MaxHold
      /\ held_since[t] \in Nat /\ last_rotate_at_ms \in Nat /\ clock \in Nat
  BY DEF HoldBounded, Typed
<1> QED
  BY <1>1, Numbers DEF Configured, RotatedSince, RotationAllowed,
                       CoolingDown

\* A rotation leads to another profile of the pool and arms the cooldown.
LEMMA RotateEffect ==
  ASSUME Typed, IndexInv, Configured, Rotate
  PROVE  /\ IndexInv'
         /\ active_profile' # active_profile
         /\ active_profile' \in Pool
         /\ last_rotate_at_ms' = clock
<1>1. /\ PoolSize > 1
      /\ active_index' = (active_index + 1) % PoolSize
      /\ active_profile' = Profiles[active_index']
      /\ last_rotate_at_ms' = clock
  BY DEF Rotate, RotationAllowed, Activate, NextRotationIndex
<1>2. active_index' \in Indices \ {active_index}
  BY <1>1, NextIndex DEF IndexInv
<1> QED
  BY <1>1, <1>2 DEF IndexInv, Configured, Pool

-----------------------------------------------------------------------------
LEMMA InitHInv == Configured /\ Init => HInv
<1> SUFFICES ASSUME Configured, Init PROVE HInv
  OBVIOUS
<1>1. PICK profile \in BootProfiles, name \in StartupNames :
        /\ active_profile = profile
        /\ active_index = ResolveActiveIndex(profile, name)
        /\ last_rotate_at_ms = 0
  BY DEF Init, DevicePoolInit, NewPool
<1>2. IndexInv
  BY <1>1 DEF Configured, IndexInv
<1>3. Typed
  BY <1>1 DEF Init, ClockInit, Typed, Places
<1>4. HoldBounded /\ HeldDevice
  BY DEF Init, HoldBounded, HeldDevice, Holding
<1> QED
  BY <1>2, <1>3, <1>4 DEF HInv

\* A step of a task that does not touch the pool or the clock, and after
\* which the task holds no device, or holds the one it held before.
Keeps(t) ==
  /\ UNCHANGED <<clock, devicePoolVars, device, held_since>>
  /\ \E place \in Places : pc' = [pc EXCEPT ![t] = place]
  /\ Holding(t)' => Holding(t) /\ pc'[t] # "retry"

LEMMA KeepsHInv ==
  ASSUME HInv, NEW t \in Tasks, Keeps(t)
  PROVE  HInv'
<1>1. PICK place \in Places : pc' = [pc EXCEPT ![t] = place]
  BY DEF Keeps
<1>2. \A u \in Tasks : u # t => (Holding(u)' <=> Holding(u)) /\ pc'[u] = pc[u]
  BY <1>1 DEF Holding, HInv, Typed
<1>3. Typed' /\ IndexInv'
  BY <1>1 DEF Keeps, HInv, Typed, IndexInv, devicePoolVars
<1>4. HoldBounded'
  BY <1>2 DEF Keeps, HInv, HoldBounded
<1>5. HeldDevice'
  <2> SUFFICES ASSUME NEW u \in Tasks
               PROVE /\ Holding(u)' /\ active_profile' # device'[u]
                          => RotatedSince(u)'
                     /\ pc'[u] = "retry" => active_profile' # device'[u]
    BY DEF HeldDevice
  <2>1. UNCHANGED <<active_profile, last_rotate_at_ms, device, held_since>>
    BY DEF Keeps, devicePoolVars
  <2>2. pc'[t] = "retry" => Holding(t)'
    BY DEF Holding
  <2> QED
    BY <1>2, <2>1, <2>2 DEF Keeps, HInv, HeldDevice, RotatedSince
<1> QED
  BY <1>3, <1>4, <1>5 DEF HInv

\* A step in which the task takes the active device afresh.
LEMMA TakesHInv ==
  ASSUME HInv, NEW t \in Tasks, TakeDevice(t),
         UNCHANGED <<clock, devicePoolVars>>,
         \E place \in Places \ {"retry"} : pc' = [pc EXCEPT ![t] = place]
  PROVE  HInv'
<1>1. PICK place \in Places \ {"retry"} : pc' = [pc EXCEPT ![t] = place]
  OBVIOUS
<1>2. /\ device' = [device EXCEPT ![t] = active_profile]
      /\ held_since' = [held_since EXCEPT ![t] = clock]
      /\ UNCHANGED <<clock, active_profile, active_index, last_rotate_at_ms>>
  BY DEF TakeDevice, devicePoolVars
<1>3. Typed' /\ IndexInv'
  BY <1>1, <1>2 DEF HInv, Typed, IndexInv, Pool
<1>4. \A u \in Tasks : u # t =>
        /\ Holding(u)' <=> Holding(u)
        /\ pc'[u] = pc[u] /\ device'[u] = device[u]
        /\ held_since'[u] = held_since[u]
  BY <1>1, <1>2 DEF Holding, HInv, Typed
<1>5. /\ pc'[t] # "retry" /\ device'[t] = active_profile
      /\ held_since'[t] = clock
  BY <1>1, <1>2 DEF HInv, Typed
<1>6. HoldBounded'
  <2>1. clock - clock <= MaxHold
    BY Numbers DEF HInv, Typed
  <2> QED BY <1>2, <1>4, <1>5, <2>1 DEF HInv, HoldBounded
<1>7. HeldDevice'
  BY <1>2, <1>4, <1>5 DEF HInv, HeldDevice, RotatedSince
<1> QED
  BY <1>3, <1>6, <1>7 DEF HInv

\* A rotation, by a task that goes on to retry or leaves its device behind.
LEMMA RotatesHInv ==
  ASSUME HInv, Configured, NEW t \in Tasks, Rotate,
         UNCHANGED <<clock, device, held_since>>,
         \/ pc[t] = "rotate" /\ pc' = [pc EXCEPT ![t] = "retry"]
         \/ pc[t] = "healRotate" /\ pc' = [pc EXCEPT ![t] = "healRestart"]
  PROVE  HInv'
<1>1. /\ IndexInv' /\ active_profile' # active_profile
      /\ active_profile' \in Pool /\ last_rotate_at_ms' = clock
  BY RotateEffect DEF HInv
<1>2. Typed'
  BY <1>1 DEF HInv, Typed, Places
<1>3. RotationAllowed /\ Holding(t)
  BY DEF Rotate, Holding
<1>4. \A u \in Tasks : Holding(u) => active_profile = device[u]
  BY <1>3, NoRotationWhileHeld DEF HInv, HeldDevice
<1>5. \A u \in Tasks : Holding(u)' => Holding(u)
  BY <1>3 DEF HInv, Typed, Holding
<1>6. HoldBounded'
  BY <1>5 DEF HInv, HoldBounded
<1>7. HeldDevice'
  <2> SUFFICES ASSUME NEW u \in Tasks, Holding(u)'
               PROVE  RotatedSince(u)' /\ active_profile' # device'[u]
    BY DEF HeldDevice, Holding
  <2>1. Holding(u) /\ active_profile = device[u]
    BY <1>4, <1>5
  <2>2. active_profile' # device'[u]
    BY <1>1, <2>1
  <2>3. RotatedSince(u)'
    BY <1>1 DEF RotatedSince, HInv, Typed
  <2> QED BY <2>2, <2>3
<1> QED
  BY <1>1, <1>2, <1>6, <1>7 DEF HInv

LEMMA NextHInv == Configured /\ HInv /\ [Next]_vars => HInv'
<1> SUFFICES ASSUME Configured, HInv, [Next]_vars PROVE HInv'
  OBVIOUS
<1>t. Typed
  BY DEF HInv
<1>1. ASSUME NEW t \in Tasks, Send(t) PROVE HInv'
  <2> DEFINE next == IF pc[t] = "idle" THEN "sent" ELSE "resent"
  <2>1. \E place \in Places \ {"retry"} : pc' = [pc EXCEPT ![t] = place]
    <3>1. pc' = [pc EXCEPT ![t] = next]
      BY <1>1 DEF Send, Goto
    <3>2. next \in Places \ {"retry"}
      BY DEF Places
    <3> QED BY <3>1, <3>2, Zenon
  <2> QED BY <1>1, <2>1, TakesHInv DEF Send
<1>2. ASSUME NEW t \in Tasks, NEW outcome \in Outcomes, Answer(t, outcome)
      PROVE  HInv'
  <2>1. Keeps(t)
    BY <1>2, <1>t DEF Answer, Keeps, Goto, Places, Holding, Typed
  <2> QED BY <2>1, KeepsHInv
<1>3. ASSUME NEW t \in Tasks, RotateAndRetry(t) PROVE HInv'
  BY <1>3, RotatesHInv DEF RotateAndRetry, Goto
<1>4. ASSUME NEW t \in Tasks, RotationRefused(t) PROVE HInv'
  <2>1. Keeps(t)
    BY <1>4, <1>t DEF RotationRefused, Keeps, Goto, Places, Holding, Typed
  <2> QED BY <2>1, KeepsHInv
<1>5. ASSUME NEW t \in Tasks, ReportFailure(t) PROVE HInv'
  <2>1. Keeps(t)
    BY <1>5, <1>t DEF ReportFailure, Keeps, Goto, Places, Holding, Typed
  <2> QED BY <2>1, KeepsHInv
<1>6. ASSUME NEW t \in Tasks, DecideHeal(t) PROVE HInv'
  <2>1. Keeps(t)
    BY <1>6, <1>t DEF DecideHeal, Keeps, Goto, Places, Holding, Typed
  <2> QED BY <2>1, KeepsHInv
<1>7. ASSUME NEW t \in Tasks, HealInvalidate(t) PROVE HInv'
  BY <1>7, TakesHInv DEF HealInvalidate, Goto, Places
<1>8. ASSUME NEW t \in Tasks, HealRotate(t) PROVE HInv'
  <2>1. CASE Rotate
    BY <1>8, <2>1, RotatesHInv DEF HealRotate, Goto
  <2>2. CASE UNCHANGED devicePoolVars
    <3>1. Keeps(t)
      BY <1>8, <2>2, <1>t DEF HealRotate, Keeps, Goto, Places, Holding, Typed
    <3> QED BY <3>1, KeepsHInv
  <2> QED BY <1>8, <2>1, <2>2 DEF HealRotate
<1>9. ASSUME NEW t \in Tasks, HealRestarted(t) PROVE HInv'
  <2>1. Keeps(t)
    BY <1>9, <1>t DEF HealRestarted, Keeps, Goto, Places, Holding, Typed
  <2> QED BY <2>1, KeepsHInv
<1>10. CASE Tick
  <2>1. /\ clock' = clock + 1
        /\ UNCHANGED <<active_profile, active_index, last_rotate_at_ms, pc,
                       device, held_since>>
        /\ \A t \in Tasks : Holding(t) => clock - held_since[t] < MaxHold
    BY <1>10 DEF Tick, Advance, HoldAllowsTick, devicePoolVars, callVars
  <2>2. Typed' /\ IndexInv'
    BY <2>1 DEF HInv, Typed, IndexInv
  <2>3. HoldBounded'
    BY <2>1, <1>t, Numbers DEF HoldBounded, Holding, Typed
  <2>4. HeldDevice'
    BY <2>1 DEF HInv, HeldDevice, Holding, RotatedSince
  <2> QED BY <2>2, <2>3, <2>4 DEF HInv
<1>11. CASE UNCHANGED vars
  BY <1>11 DEF vars, callVars, devicePoolVars, HInv, Typed, IndexInv,
               HoldBounded, HeldDevice, Holding, RotatedSince
<1> QED
  BY <1>1, <1>2, <1>3, <1>4, <1>5, <1>6, <1>7, <1>8, <1>9, <1>10, <1>11
     DEF Next, Step

-----------------------------------------------------------------------------
\* A rotation that a failing call or a heal makes leads off the device that
\* failed the call, or whose keys the heal invalidated: concurrent failures
\* on one device cost it one rotation.
THEOREM RotationsDoNotUndoEachOther ==
  ASSUME Configured
  PROVE  Spec => []RotationLeavesFailedDevice
<1>1. HInv => RotationLeavesFailedDevice
  BY Configured, NoRotationWhileHeld
  DEF RotationLeavesFailedDevice, HInv, HeldDevice, Holding
<1>2. Init => HInv
  BY Configured, InitHInv
<1>3. HInv /\ [Next]_vars => HInv'
  BY Configured, NextHInv
<1> QED
  BY <1>1, <1>2, <1>3, PTL DEF Spec

\* The second request of a call goes to another device than its first.
THEOREM RetriesElsewhere ==
  ASSUME Configured
  PROVE  Spec => RetryOnOtherDevice
<1>1. HInv /\ [Next]_vars
        => [\A t \in Tasks : pc[t] = "retry" /\ pc'[t] = "resent"
                               => device'[t] # device[t]]_vars
  <2> SUFFICES ASSUME HInv, Next, NEW t \in Tasks,
                      pc[t] = "retry", pc'[t] = "resent"
               PROVE  device'[t] # device[t]
    OBVIOUS
  <2>1. active_profile # device[t]
    BY DEF HInv, HeldDevice
  <2>2. Send(t)
    BY DEF HInv, Typed, Next, Step, Tick, callVars, Send, Answer,
           RotateAndRetry, RotationRefused, ReportFailure, DecideHeal,
           HealInvalidate, HealRotate, HealRestarted, Goto
  <2> QED
    BY <2>1, <2>2 DEF Send, TakeDevice, HInv, Typed
<1>2. Init => HInv
  BY Configured, InitHInv
<1>3. HInv /\ [Next]_vars => HInv'
  BY Configured, NextHInv
<1> QED
  BY <1>1, <1>2, <1>3, PTL DEF Spec, RetryOnOtherDevice

-----------------------------------------------------------------------------
(* What a call counts: the failures on record, some trimmed, and its own.   *)

LEMMA HealNumbers ==
  /\ AH!Threshold \in Nat \ {0} /\ WindowMs \in Nat /\ CooldownMs \in Nat
  /\ MaxTime \in Nat
BY UpstreamCallAssumption, MaxTimeAssumption DEF AH!Threshold

\* The front where trim_window stops exists; what is before it is stale.
LEMMA FrontExists ==
  ASSUME NEW times \in Seq(Nat), NEW s \in Nat
  PROVE  /\ AH!FirstFresh(times, s) \in 1 .. Len(times) + 1
         /\ \A j \in 1 .. AH!FirstFresh(times, s) - 1 : AH!Stale(times[j], s)
<1> DEFINE Stops == {i \in 1 .. Len(times) + 1 :
                       i <= Len(times) => ~AH!Stale(times[i], s)}
<1>1. Len(times) + 1 \in Stops /\ Stops \in SUBSET Nat
  OBVIOUS
<1>2. PICK n \in Stops : \A m \in Stops : ~(<<m, n>> \in OpToRel(<, Nat))
  BY <1>1, NatLessThanWellFounded, WFMin
<1>3. \A m \in Stops : ~(m < n)
  BY <1>1, <1>2 DEF OpToRel
<1>4. \A j \in 1 .. n - 1 : AH!Stale(times[j], s)
  BY <1>3
<1> QED
  BY <1>2, <1>4 DEF AH!FirstFresh

LEMMA CountedBounds ==
  ASSUME NEW T \in SUBSET Nat, failure_times \in Seq(T), NEW s \in T
  PROVE  /\ AH!Counted(s) \in Seq(T)
         /\ Len(AH!Counted(s)) \in 1 .. Len(failure_times) + 1
<1> DEFINE f == AH!FirstFresh(failure_times, s)
           cut == SubSeq(failure_times, f, Len(failure_times))
<1>1. failure_times \in Seq(Nat) /\ Len(failure_times) \in Nat
  <2>1. failure_times \in Seq(Nat)
    BY SeqMonotonic
  <2> QED BY <2>1
<1>2. f \in 1 .. Len(failure_times) + 1
  BY <1>1, FrontExists
<1> HIDE DEF f
<1>3. cut \in Seq(T) /\ Len(cut) \in 0 .. Len(failure_times)
  <2>1. \A i \in f .. Len(failure_times) : failure_times[i] \in T
    BY <1>2
  <2> QED
    BY <1>1, <1>2, <2>1, SubSeqProperties
<1>4. /\ AH!Trimmed(failure_times, s) \in Seq(T)
      /\ Len(AH!Trimmed(failure_times, s)) \in 0 .. Len(failure_times)
  BY <1>1, <1>3 DEF AH!Trimmed, f
<1> QED
  BY <1>1, <1>4 DEF AH!Counted

\* With a window that outlasts the run, nothing is trimmed.
LEMMA CountedAll ==
  ASSUME NEW n \in Nat, failure_times \in Seq(1 .. n), NEW s \in 1 .. n,
         n <= WindowMs
  PROVE  AH!Counted(s) = Append(failure_times, s)
<1> DEFINE f == AH!FirstFresh(failure_times, s)
<1>1. failure_times \in Seq(Nat) /\ Len(failure_times) \in Nat /\ s \in Nat
  BY SeqMonotonic
<1>2. /\ f \in 1 .. Len(failure_times) + 1
      /\ \A j \in 1 .. f - 1 : AH!Stale(failure_times[j], s)
  BY <1>1, FrontExists
<1>3. \A j \in 1 .. Len(failure_times) : ~AH!Stale(failure_times[j], s)
  BY HealNumbers DEF AH!Stale
<1> HIDE DEF f
<1>4. f = 1
  <2>1. f > 1 => 1 \in 1 .. f - 1 /\ 1 \in 1 .. Len(failure_times)
    BY <1>1, <1>2
  <2> QED BY <1>2, <1>3, <2>1
<1>5. SubSeq(failure_times, 1, Len(failure_times)) = failure_times
  OBVIOUS
<1>6. WindowMs # 0
  BY HealNumbers
<1> QED
  BY <1>4, <1>5, <1>6 DEF AH!Counted, AH!Trimmed, f

-----------------------------------------------------------------------------
\* The window never holds more failures than calls have failed in a row; the
\* run of failed calls is counted up to the threshold only.
WindowInRun == err_run < AH!Threshold => Len(failure_times) <= err_run

WInv == CallTypeOK /\ WindowInRun

LEMMA InitWInv == Init => WInv
<1> SUFFICES ASSUME Init PROVE WInv
  OBVIOUS
<1>1. TypeOK
  BY InitPoolTyped DEF Init
<1>2. clock = 1 /\ AH!AutoHealInit /\ err_run = 0
  BY DEF Init, ClockInit
<1>3. AH!TypeOK
  BY <1>2 DEF AH!TypeOK, AH!AutoHealInit
<1>4. CallTypeOK
  BY <1>1, <1>2, <1>3, HealNumbers
  DEF Init, CallTypeOK, TypeOK, Places, AH!AutoHealInit
<1> QED
  BY <1>2, <1>4 DEF WInv, WindowInRun, AH!AutoHealInit

\* The part of CallTypeOK that is the calls' own.
CallsTyped ==
  /\ pc \in [Tasks -> Places]
  /\ device \in [Tasks -> Pool \cup BootProfiles]
  /\ held_since \in [Tasks -> 0 .. clock]
  /\ err_run \in 0 .. AH!Threshold
  /\ \A t \in Tasks : stamp[t] # 0 <=> pc[t] = "reported"

LEMMA CallTypeParts == CallTypeOK <=> AH!TypeOK /\ TypeOK /\ CallsTyped
BY DEF CallTypeOK, CallsTyped

\* A task that goes from one place to another without reporting.
LEMMA GotoTyped ==
  ASSUME CallTypeOK, NEW t \in Tasks, NEW place \in Places \ {"reported"},
         Goto(t, place), pc[t] # "reported", UNCHANGED <<clock, stamp>>,
         \/ UNCHANGED <<device, held_since>>
         \/ TakeDevice(t),
         err_run' \in 0 .. AH!Threshold
  PROVE  CallsTyped'
<1> USE CallTypeParts DEF CallsTyped, Goto
<1>1. /\ pc' \in [Tasks -> Places]
      /\ \A u \in Tasks : stamp'[u] # 0 <=> pc'[u] = "reported"
  OBVIOUS
<1>2. device' \in [Tasks -> Pool \cup BootProfiles]
  BY DEF TakeDevice, TypeOK
<1>3. held_since' \in [Tasks -> 0 .. clock']
  BY DEF TakeDevice, TypeOK
<1> QED
  BY <1>1, <1>2, <1>3 DEF AH!Threshold

LEMMA NextWInv == WInv /\ [Next]_vars => WInv'
<1> SUFFICES ASSUME WInv, [Next]_vars PROVE WInv'
  OBVIOUS
<1>t. AH!TypeOK /\ TypeOK /\ CallsTyped /\ WindowInRun /\ CallTypeOK
  BY CallTypeParts DEF WInv
<1>n. AH!Threshold \in Nat \ {0} /\ AH!Threshold' = AH!Threshold
  BY HealNumbers DEF AH!Threshold
<1>w. ASSUME AH!TypeOK', TypeOK', CallsTyped', WindowInRun' PROVE WInv'
  BY <1>w DEF WInv, CallTypeOK, CallsTyped
<1>pool. ASSUME UNCHANGED <<clock, devicePoolVars>> PROVE TypeOK'
  BY <1>pool, <1>t, PoolStepTyped
<1>heal. ASSUME UNCHANGED <<clock, autoHealVars>> PROVE AH!TypeOK'
  BY <1>heal, <1>t DEF AH!TypeOK, autoHealVars
<1>1. ASSUME NEW t \in Tasks, Send(t) PROVE WInv'
  <2> DEFINE next == IF pc[t] = "idle" THEN "sent" ELSE "resent"
  <2>1. /\ Goto(t, next) /\ next \in Places \ {"reported"}
        /\ pc[t] # "reported" /\ TakeDevice(t)
        /\ UNCHANGED <<clock, autoHealVars, devicePoolVars, err_run>>
    BY <1>1 DEF Send, Places
  <2> HIDE DEF next
  <2>2. CallsTyped'
    BY <2>1, <1>t, GotoTyped DEF autoHealVars, CallsTyped
  <2>3. WindowInRun'
    BY <2>1, <1>n, <1>t DEF WindowInRun, autoHealVars
  <2> QED BY <2>1, <2>2, <2>3, <1>pool, <1>heal, <1>w
<1>2. ASSUME NEW t \in Tasks, NEW outcome \in Outcomes, Answer(t, outcome)
      PROVE  WInv'
  <2> DEFINE next == IF outcome = "ok" THEN "idle"
                     ELSE IF pc[t] = "sent" /\ AsksRotation(outcome)
                       THEN "rotate" ELSE "failed"
  <2>1. /\ Goto(t, next) /\ next \in Places \ {"reported"}
        /\ pc[t] # "reported"
        /\ AH!RecordSuccess \/ UNCHANGED autoHealVars
        /\ (err_run' = 0 /\ AH!RecordSuccess) \/ err_run' = err_run
        /\ UNCHANGED <<clock, devicePoolVars, device, held_since>>
    BY <1>2 DEF Answer, Places, Json
  <2> HIDE DEF next
  <2>2. stamp' = stamp /\ AH!TypeOK'
    <3>1. CASE AH!RecordSuccess
      BY <2>1, <3>1, <1>t DEF AH!RecordSuccess, AH!TypeOK
    <3>2. CASE UNCHANGED autoHealVars
      BY <2>1, <3>2, <1>heal DEF autoHealVars
    <3> QED BY <2>1, <3>1, <3>2
  <2>3. CallsTyped'
    BY <2>1, <2>2, <1>n, <1>t, GotoTyped DEF CallsTyped
  <2>4. failure_times' = <<>> \/ UNCHANGED <<failure_times, err_run>>
    BY <2>1 DEF AH!RecordSuccess, autoHealVars
  <2>5. WindowInRun'
    BY <2>3, <2>4, <1>n, <1>t DEF WindowInRun, CallsTyped
  <2> QED BY <2>1, <2>2, <2>3, <2>5, <1>pool, <1>w
<1>3. ASSUME NEW t \in Tasks, RotateAndRetry(t) PROVE WInv'
  <2>1. TypeOK'
    BY <1>3, <1>t, PoolStepTyped DEF RotateAndRetry
  <2>2. CallsTyped'
    BY <1>3, <1>t, GotoTyped
    DEF RotateAndRetry, autoHealVars, CallsTyped, Places
  <2>3. WindowInRun'
    BY <1>3, <1>n, <1>t DEF RotateAndRetry, WindowInRun, autoHealVars
  <2> QED
    BY <1>3, <2>1, <2>2, <2>3, <1>heal, <1>w
    DEF RotateAndRetry
<1>4. ASSUME NEW t \in Tasks, RotationRefused(t) PROVE WInv'
  <2>1. CallsTyped'
    BY <1>4, <1>t, GotoTyped
    DEF RotationRefused, autoHealVars, CallsTyped, Places
  <2>2. WindowInRun'
    BY <1>4, <1>n, <1>t DEF RotationRefused, WindowInRun, autoHealVars
  <2> QED
    BY <1>4, <2>1, <2>2, <1>pool, <1>heal, <1>w
    DEF RotationRefused
<1>5. ASSUME NEW t \in Tasks, ReportFailure(t) PROVE WInv'
  <2>1. /\ pc' = [pc EXCEPT ![t] = "reported"]
        /\ stamp' = [stamp EXCEPT ![t] = clock]
        /\ UNCHANGED <<clock, devicePoolVars, device, held_since, err_run>>
        /\ UNCHANGED <<enabled, failure_times, last_heal_at_ms, streak,
                       heal_clock>>
    BY <1>5 DEF ReportFailure, AH!StampFailure, Goto
  <2>2. AH!TypeOK'
    BY <2>1, <1>t DEF AH!TypeOK
  <2>3. CallsTyped'
    BY <2>1, <1>t, <1>n DEF CallsTyped, Places, AH!TypeOK
  <2>4. WindowInRun'
    BY <2>1, <1>n, <1>t DEF WindowInRun
  <2> QED BY <2>1, <2>2, <2>3, <2>4, <1>pool, <1>w
<1>6. ASSUME NEW t \in Tasks, DecideHeal(t) PROVE WInv'
  <2> DEFINE s == stamp[t]
  <2>1. /\ s \in 1 .. clock
        /\ stamp' = [stamp EXCEPT ![t] = 0] /\ UNCHANGED enabled
        /\ UNCHANGED <<clock, devicePoolVars, device, held_since>>
        /\ err_run \in 0 .. AH!Threshold
        /\ failure_times \in Seq(1 .. clock) /\ clock \in Nat
    BY <1>6, <1>t
    DEF DecideHeal, AH!RecordFailure, AH!InCall, AH!TypeOK, CallsTyped
  <2>2. /\ AH!Counted(s) \in Seq(1 .. clock)
        /\ Len(AH!Counted(s)) \in 1 .. Len(failure_times) + 1
    BY <2>1, CountedBounds
  <2>3. \/ /\ ~enabled
           /\ UNCHANGED <<failure_times, last_heal_at_ms, streak, heal_clock>>
           /\ err_run' = OneMore(err_run)
        \/ /\ failure_times' = AH!Counted(s) /\ streak' = streak + 1
           /\ UNCHANGED <<last_heal_at_ms, heal_clock>>
           /\ err_run' = OneMore(err_run)
        \/ /\ failure_times' = <<>> /\ streak' = 0
           /\ last_heal_at_ms' = s /\ heal_clock' = clock
           /\ err_run' = 0
    BY <1>6 DEF DecideHeal, AH!RecordFailure, AH!Ignore, AH!Count, AH!Heal,
                AH!ShouldHeal
  <2>4. \E place \in Places \ {"reported"} : pc' = [pc EXCEPT ![t] = place]
    <3>1. pc' = [pc EXCEPT ![t] = "heal"] \/ pc' = [pc EXCEPT ![t] = "idle"]
      BY <1>6 DEF DecideHeal, Goto
    <3> QED BY <3>1 DEF Places
  <2> HIDE DEF s
  <2>5. OneMore(err_run) \in 0 .. AH!Threshold
    BY <2>1, <1>n DEF OneMore
  <2>6. CallsTyped'
    <3>1. pc' \in [Tasks -> Places] /\ stamp' \in [Tasks -> 0 .. clock]
      BY <2>1, <2>4, <1>t DEF CallsTyped, AH!TypeOK
    <3>2. \A u \in Tasks : stamp'[u] # 0 <=> pc'[u] = "reported"
      BY <2>1, <2>4, <1>t DEF CallsTyped, AH!TypeOK
    <3>3. err_run' \in 0 .. AH!Threshold
      BY <2>3, <2>5, <1>n
    <3> QED BY <2>1, <3>1, <3>2, <3>3, <1>n, <1>t DEF CallsTyped
  <2>7. AH!TypeOK'
    <3>1. failure_times' \in Seq(1 .. clock)
      <4>1. <<>> \in Seq(1 .. clock)
        OBVIOUS
      <4> QED BY <2>1, <2>2, <2>3, <4>1
    <3>2. /\ last_heal_at_ms' \in 0 .. clock /\ heal_clock' \in 0 .. clock
          /\ streak' \in Nat
      BY <2>1, <2>3, <1>t DEF AH!TypeOK
    <3> QED BY <2>1, <3>1, <3>2, <1>t DEF AH!TypeOK
  <2>8. WindowInRun'
    <3>1. Len(failure_times) \in Nat /\ (err_run < AH!Threshold
            => Len(failure_times) <= err_run)
      BY <2>1, <1>t DEF WindowInRun
    <3>2. err_run' < AH!Threshold => Len(failure_times') <= err_run'
      BY <2>1, <2>2, <2>3, <3>1, <1>n DEF OneMore
    <3> QED BY <3>2, <1>n DEF WindowInRun
  <2> QED BY <2>1, <2>6, <2>7, <2>8, <1>pool, <1>w
<1>7. ASSUME NEW t \in Tasks, HealInvalidate(t) PROVE WInv'
  <2>1. CallsTyped'
    BY <1>7, <1>t, GotoTyped
    DEF HealInvalidate, autoHealVars, CallsTyped, Places
  <2>2. WindowInRun'
    BY <1>7, <1>n, <1>t DEF HealInvalidate, WindowInRun, autoHealVars
  <2> QED
    BY <1>7, <2>1, <2>2, <1>pool, <1>heal, <1>w
    DEF HealInvalidate
<1>8. ASSUME NEW t \in Tasks, HealRotate(t) PROVE WInv'
  <2>1. TypeOK'
    BY <1>8, <1>t, PoolStepTyped DEF HealRotate
  <2>2. CallsTyped'
    BY <1>8, <1>t, GotoTyped DEF HealRotate, autoHealVars, CallsTyped, Places
  <2>3. WindowInRun'
    BY <1>8, <1>n, <1>t DEF HealRotate, WindowInRun, autoHealVars
  <2> QED
    BY <1>8, <2>1, <2>2, <2>3, <1>heal, <1>w DEF HealRotate
<1>9. ASSUME NEW t \in Tasks, HealRestarted(t) PROVE WInv'
  <2>1. CallsTyped'
    BY <1>9, <1>t, GotoTyped
    DEF HealRestarted, autoHealVars, CallsTyped, Places
  <2>2. WindowInRun'
    BY <1>9, <1>n, <1>t DEF HealRestarted, WindowInRun, autoHealVars
  <2> QED
    BY <1>9, <2>1, <2>2, <1>pool, <1>heal, <1>w
    DEF HealRestarted
<1>10. CASE Tick
  <2>1. /\ clock' = clock + 1 /\ Advance
        /\ UNCHANGED <<autoHealVars, devicePoolVars, callVars>>
    BY <1>10 DEF Tick, Advance
  <2>2. AH!TypeOK'
    <3>1. failure_times \in Seq(1 .. clock + 1)
      <4>1. 1 .. clock \subseteq 1 .. clock + 1 /\ failure_times \in Seq(1 .. clock)
        BY <1>t DEF AH!TypeOK
      <4> QED BY <4>1, SeqMonotonic
    <3> QED BY <2>1, <3>1, <1>t DEF AH!TypeOK, autoHealVars
  <2>3. TypeOK'
    BY <2>1, <1>t, PoolStepTyped
  <2>4. CallsTyped'
    BY <2>1, <1>t, <1>n DEF CallsTyped, autoHealVars, callVars, TypeOK
  <2>5. WindowInRun'
    BY <2>1, <1>t, <1>n DEF WindowInRun, autoHealVars, callVars
  <2> QED BY <2>2, <2>3, <2>4, <2>5, <1>w
<1>11. CASE UNCHANGED vars
  <2>1. CallsTyped' /\ WindowInRun'
    BY <1>11, <1>t, <1>n DEF vars, autoHealVars, callVars, CallsTyped, WindowInRun
  <2> QED BY <1>11, <2>1, <1>pool, <1>heal, <1>w DEF vars
<1> QED
  BY <1>1, <1>2, <1>3, <1>4, <1>5, <1>6, <1>7, <1>8, <1>9, <1>10, <1>11
     DEF Next, Step

-----------------------------------------------------------------------------
\* The types of the two managers hold under any number of callers.
THEOREM CallsTypeCorrect == Spec => []CallTypeOK
<1>1. WInv => CallTypeOK
  BY DEF WInv
<1> QED
  BY InitWInv, NextWInv, <1>1, PTL DEF Spec

\* A heal needs error_threshold calls that failed with none that succeeded
\* between them, whichever tasks made them.
THEOREM HealsNeedFailures == Spec => []HealNeedsFailedCalls
<1>1. WInv => HealNeedsFailedCalls
  <2> SUFFICES ASSUME WInv, NEW t \in Tasks, pc[t] = "reported",
                      AH!ShouldHeal(stamp[t])
               PROVE  err_run + 1 >= AH!Threshold
    BY DEF HealNeedsFailedCalls
  <2>1. /\ stamp[t] \in 1 .. clock /\ failure_times \in Seq(1 .. clock)
        /\ err_run \in Nat /\ clock \in Nat /\ WindowInRun
    BY HealNumbers DEF WInv, CallTypeOK, AH!TypeOK
  <2>2. Len(AH!Counted(stamp[t])) \in 1 .. Len(failure_times) + 1
    BY <2>1, CountedBounds
  <2>3. Len(AH!Counted(stamp[t])) >= AH!Threshold
    BY DEF AH!ShouldHeal
  <2>4. Len(failure_times) \in Nat
    BY <2>1
  <2> QED BY <2>1, <2>2, <2>3, <2>4, HealNumbers DEF WindowInRun
<1> QED
  BY InitWInv, NextWInv, <1>1, PTL DEF Spec

-----------------------------------------------------------------------------
(* When no failure is a JSON body.                                          *)

NoJsonErrors == Outcomes \cap {"jsonError", "jsonIllegal"} = {}

Lasting == enabled /\ CooldownMs = 0 /\ WindowMs >= MaxTime

\* The window holds exactly the calls that failed in a row.
RunInv ==
  /\ WInv
  /\ clock <= MaxTime
  /\ Lasting => Len(failure_times) = err_run /\ err_run < AH!Threshold

LEMMA InitRunInv == Init => RunInv
<1> SUFFICES ASSUME Init PROVE RunInv
  OBVIOUS
<1>1. WInv
  BY InitWInv
<1>2. clock <= MaxTime
  BY MaxTimeAssumption DEF Init, ClockInit
<1>3. Len(failure_times) = err_run /\ err_run < AH!Threshold
  BY HealNumbers DEF Init, AH!AutoHealInit
<1> QED
  BY <1>1, <1>2, <1>3 DEF RunInv

LEMMA NextRunInv == NoJsonErrors /\ RunInv /\ [Next]_vars => RunInv'
<1> SUFFICES ASSUME NoJsonErrors, RunInv, [Next]_vars PROVE RunInv'
  OBVIOUS
<1>w. WInv'
  BY NextWInv DEF RunInv
<1>n. AH!Threshold \in Nat \ {0} /\ AH!Threshold' = AH!Threshold
  BY HealNumbers DEF AH!Threshold
<1>c. clock' <= MaxTime
  BY HealNumbers
  DEF RunInv, WInv, CallTypeOK, TypeOK, Next, Step, Tick, Advance, Send, Answer,
      RotateAndRetry, RotationRefused, ReportFailure, DecideHeal,
      HealInvalidate, HealRotate, HealRestarted, vars
\* Most steps leave the window and the run of failures alone.
<1>u. ASSUME UNCHANGED <<enabled, failure_times, err_run>> PROVE RunInv'
  BY <1>u, <1>w, <1>c, <1>n DEF RunInv, Lasting
<1>1. ASSUME NEW t \in Tasks, NEW outcome \in Outcomes, Answer(t, outcome)
      PROVE  RunInv'
  <2>1. CASE outcome = "ok"
    <3>1. failure_times' = <<>> /\ err_run' = 0
      BY <1>1, <2>1 DEF Answer, Json, AH!RecordSuccess
    <3> QED BY <3>1, <1>w, <1>c, <1>n DEF RunInv, Lasting
  <2>2. CASE outcome # "ok"
    <3>1. outcome \notin Json
      BY <2>2 DEF NoJsonErrors, Json
    <3> QED BY <1>1, <2>2, <3>1, <1>u DEF Answer, autoHealVars
  <2> QED BY <2>1, <2>2
<1>2. ASSUME NEW t \in Tasks, DecideHeal(t) PROVE RunInv'
  <2> SUFFICES ASSUME Lasting
               PROVE  Len(failure_times') = err_run' /\ err_run' < AH!Threshold
    <3>1. enabled' = enabled
      BY <1>2 DEF DecideHeal, AH!RecordFailure
    <3> QED BY <3>1, <1>w, <1>c, <1>n DEF RunInv, Lasting
  <2> DEFINE s == stamp[t]
  <2>1. /\ s \in 1 .. clock /\ clock \in Nat /\ clock <= WindowMs
        /\ failure_times \in Seq(1 .. clock)
        /\ Len(failure_times) = err_run /\ err_run < AH!Threshold
    BY <1>2, HealNumbers
    DEF DecideHeal, AH!RecordFailure, AH!InCall, RunInv, WInv, CallTypeOK,
        AH!TypeOK, Lasting
  <2>2. AH!Counted(s) = Append(failure_times, s)
    BY <2>1, CountedAll
  <2>3. Len(AH!Counted(s)) = err_run + 1 /\ err_run \in Nat
    BY <2>1, <2>2
  <2>4. CASE AH!ShouldHeal(s)
    <3>1. failure_times' = <<>> /\ err_run' = 0
      BY <1>2, <2>4
      DEF DecideHeal, AH!RecordFailure, AH!Ignore, AH!Count, AH!Heal, Lasting
    <3> QED BY <3>1, <1>n
  <2>5. CASE ~AH!ShouldHeal(s)
    <3>1. failure_times' = AH!Counted(s) /\ err_run' = OneMore(err_run)
      BY <1>2, <2>5
      DEF DecideHeal, AH!RecordFailure, AH!Ignore, AH!Count, AH!Heal, Lasting
    <3>2. Len(AH!Counted(s)) < AH!Threshold
      BY <2>3, <2>5, <1>n DEF AH!ShouldHeal, AH!CoolingDown, Lasting
    <3> QED BY <2>1, <2>3, <3>1, <3>2, <1>n DEF OneMore
  <2> QED BY <2>4, <2>5
<1>3. ASSUME NEW t \in Tasks,
             \/ Send(t) \/ RotateAndRetry(t) \/ RotationRefused(t)
             \/ ReportFailure(t) \/ HealInvalidate(t) \/ HealRotate(t)
             \/ HealRestarted(t)
      PROVE  RunInv'
  <2>1. UNCHANGED <<enabled, failure_times, err_run>>
    BY <1>3
    DEF Send, RotateAndRetry, RotationRefused, ReportFailure, HealInvalidate,
        HealRotate, HealRestarted, AH!StampFailure, autoHealVars
  <2> QED BY <2>1, <1>u
<1>4. CASE Tick \/ UNCHANGED vars
  <2>1. UNCHANGED <<enabled, failure_times, err_run>>
    BY <1>4 DEF Tick, vars, callVars, autoHealVars
  <2> QED BY <2>1, <1>u
<1> QED
  BY <1>1, <1>2, <1>3, <1>4 DEF Next, Step

\* When failures are never JSON bodies, error_threshold failures in a row
\* within the window do heal, for any number of tasks whatever they wait for.
THEOREM FailuresHeal ==
  ASSUME NoJsonErrors
  PROVE  Spec => []ConsecutiveErrorsHeal
<1>1. RunInv => ConsecutiveErrorsHeal
  BY DEF RunInv, Lasting, ConsecutiveErrorsHeal
<1>2. RunInv /\ [Next]_vars => RunInv'
  BY NoJsonErrors, NextRunInv
<1> QED
  BY InitRunInv, <1>1, <1>2, PTL DEF Spec
=============================================================================
