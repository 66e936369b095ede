--------------------------- MODULE AutoHealProofs ---------------------------
(***************************************************************************)
(* Proofs about AutoHeal, for every set of tasks, threshold, window,       *)
(* cooldown and lag.                                                       *)
(***************************************************************************)
EXTENDS AutoHeal, SequenceTheorems, WellFoundedInduction, TLAPS

\* No pending call has waited longer than MaxLag.
LagBounded == \A t \in Tasks : stamp[t] # 0 => clock - stamp[t] <= MaxLag

\* The queue is sorted up to the lag.
NearlySorted ==
  \A i, j \in DOMAIN failure_times :
    i < j => failure_times[j] >= failure_times[i] - MaxLag

\* The stored heal stamp trails the real time of the heal by the lag at most.
HealStampClose ==
  /\ last_heal_at_ms = 0 <=> heal_clock = 0
  /\ heal_clock # 0 => heal_clock - last_heal_at_ms \in 0 .. MaxLag

IInv ==
  /\ TypeOK
  /\ Len(failure_times) <= streak
  /\ LagBounded
  /\ NearlySorted
  /\ HealStampClose

-----------------------------------------------------------------------------
\* A non-empty set of naturals has a least element.
LEMMA LeastNat ==
  ASSUME NEW S \in SUBSET Nat, S # {}
  PROVE  \E n \in S : \A m \in S : n <= m
<1>1. PICK n \in S : \A m \in S : ~(<<m, n>> \in OpToRel(<, Nat))
  BY NatLessThanWellFounded, WFMin
<1>2. \A m \in S : ~(m < n)
  BY <1>1 DEF OpToRel
<1> QED
  BY <1>2

\* The front where trim_window stops exists, and nothing stale is before it.
LEMMA FirstFreshExists ==
  ASSUME NEW times \in Seq(Nat), NEW s \in Nat
  PROVE  /\ FirstFresh(times, s) \in 1 .. Len(times) + 1
         /\ FirstFresh(times, s) <= Len(times)
              => ~Stale(times[FirstFresh(times, s)], s)
<1> DEFINE Stops == {i \in 1 .. Len(times) + 1 :
                       i <= Len(times) => ~Stale(times[i], s)}
<1>1. Len(times) + 1 \in Stops
  OBVIOUS
<1>2. PICK n \in Stops : \A m \in Stops : n <= m
  <2>1. Stops \in SUBSET Nat
    OBVIOUS
  <2> QED BY <1>1, <2>1, LeastNat
<1>3. \A j \in 1 .. n - 1 : Stale(times[j], s)
  BY <1>2
<1> QED
  BY <1>2, <1>3 DEF FirstFresh

\* trim_window drops a prefix; what it leaves starts with a fresh failure.
LEMMA TrimmedIsSuffix ==
  ASSUME NEW S \in SUBSET Nat, NEW times \in Seq(S), NEW s \in Nat
  PROVE  /\ Trimmed(times, s) \in Seq(S)
         /\ \E k \in 0 .. Len(times) :
              /\ Len(Trimmed(times, s)) = Len(times) - k
              /\ \A i \in 1 .. Len(times) - k :
                   Trimmed(times, s)[i] = times[k + i]
         /\ Trimmed(times, s) # <<>> => ~Stale(Trimmed(times, s)[1], s)
<1>1. CASE WindowMs = 0
  <2>1. Trimmed(times, s) = <<>>
    BY <1>1 DEF Trimmed
  <2> QED BY <2>1
<1>2. CASE WindowMs # 0
  <2> DEFINE f == FirstFresh(times, s)
  <2>1. /\ f \in 1 .. Len(times) + 1
        /\ f <= Len(times) => ~Stale(times[f], s)
    <3>1. times \in Seq(Nat)
      BY SeqMonotonic
    <3> QED BY <3>1, FirstFreshExists
  <2> HIDE DEF f
  <2>2. Trimmed(times, s) = SubSeq(times, f, Len(times))
    BY <1>2 DEF Trimmed, f
  <2>3. /\ SubSeq(times, f, Len(times)) \in Seq(S)
        /\ Len(SubSeq(times, f, Len(times))) = Len(times) - (f - 1)
        /\ \A i \in 1 .. Len(times) - (f - 1) :
             SubSeq(times, f, Len(times))[i] = times[(f - 1) + i]
    <3>1. \A i \in f .. Len(times) : times[i] \in S
      BY <2>1
    <3>2. Len(times) \in Nat
      OBVIOUS
    <3>3. /\ SubSeq(times, f, Len(times)) \in Seq(S)
          /\ Len(SubSeq(times, f, Len(times))) =
               IF f <= Len(times) THEN Len(times) - f + 1 ELSE 0
          /\ \A i \in 1 .. Len(times) - f + 1 :
               SubSeq(times, f, Len(times))[i] = times[f + i - 1]
      BY <2>1, <3>1, <3>2, SubSeqProperties
    <3> QED BY <2>1, <3>2, <3>3
  <2>4. f - 1 \in 0 .. Len(times)
    BY <2>1
  <2>5. Trimmed(times, s) # <<>> => ~Stale(Trimmed(times, s)[1], s)
    <3> SUFFICES ASSUME Trimmed(times, s) # <<>>
                 PROVE  ~Stale(Trimmed(times, s)[1], s)
      OBVIOUS
    <3>1. Len(times) - (f - 1) >= 1
      BY <2>1, <2>2, <2>3, EmptySeq
    <3>2. Trimmed(times, s)[1] = times[f]
      BY <2>1, <2>2, <2>3, <3>1
    <3> QED BY <2>1, <3>1, <3>2
  <2> QED BY <2>2, <2>3, <2>4, <2>5
<1> QED BY <1>1, <1>2

-----------------------------------------------------------------------------
\* What a call in progress would count: no more than the failures on record
\* and its own, sorted up to the lag, none older than WindowMs + MaxLag.
LEMMA CountedFacts ==
  ASSUME IInv, NEW t \in Tasks, InCall(t)
  PROVE  /\ Counted(stamp[t]) \in Seq(1 .. clock)
         /\ Len(Counted(stamp[t])) \in 1 .. Len(failure_times) + 1
         /\ \A i, j \in DOMAIN Counted(stamp[t]) :
              i < j => Counted(stamp[t])[j] >= Counted(stamp[t])[i] - MaxLag
         /\ \A i \in DOMAIN Counted(stamp[t]) :
              stamp[t] - Counted(stamp[t])[i] <= WindowMs + MaxLag
<1> DEFINE s == stamp[t]
           T == Trimmed(failure_times, s)
<1>1. /\ clock \in Nat \ {0}
      /\ s \in 1 .. clock
      /\ failure_times \in Seq(1 .. clock)
      /\ clock - s <= MaxLag
      /\ MaxLag \in Nat /\ WindowMs \in Nat
  BY AutoHealAssumption DEF IInv, TypeOK, InCall, LagBounded
<1> HIDE DEF s, T
<1>suffix. /\ T \in Seq(1 .. clock)
           /\ \E k \in 0 .. Len(failure_times) :
                /\ Len(T) = Len(failure_times) - k
                /\ \A i \in 1 .. Len(failure_times) - k :
                     T[i] = failure_times[k + i]
           /\ T # <<>> => ~Stale(T[1], s)
  <2>1. 1 .. clock \in SUBSET Nat /\ s \in Nat
    BY <1>1
  <2> QED BY <1>1, <2>1, TrimmedIsSuffix DEF T
<1>2. /\ T \in Seq(1 .. clock)
      /\ T # <<>> => ~Stale(T[1], s)
  BY <1>suffix
<1>9. /\ Len(failure_times) \in Nat /\ Len(T) \in Nat
      /\ T \in [1 .. Len(T) -> 1 .. clock]
  BY <1>1, <1>2, LenProperties
<1>3. PICK k \in 0 .. Len(failure_times) :
        /\ Len(T) = Len(failure_times) - k
        /\ \A i \in 1 .. Len(failure_times) - k : T[i] = failure_times[k + i]
  BY <1>suffix
<1>4. \A i, j \in 1 .. Len(T) : i < j => T[j] >= T[i] - MaxLag
  <2> SUFFICES ASSUME NEW i \in 1 .. Len(T), NEW j \in 1 .. Len(T), i < j
               PROVE  T[j] >= T[i] - MaxLag
    OBVIOUS
  <2>1. /\ k + i \in DOMAIN failure_times /\ k + j \in DOMAIN failure_times
        /\ k + i < k + j
    BY <1>1, <1>3
  <2>2. failure_times[k + j] >= failure_times[k + i] - MaxLag
    BY <2>1 DEF IInv, NearlySorted
  <2> QED BY <1>3, <2>2
<1>5. \A i \in 1 .. Len(T) : s - T[i] <= WindowMs + MaxLag
  <2> SUFFICES ASSUME NEW i \in 1 .. Len(T)
               PROVE  s - T[i] <= WindowMs + MaxLag
    OBVIOUS
  <2>1. /\ 1 \in 1 .. Len(T) /\ T # <<>>
        /\ T[1] \in Int /\ T[i] \in Int /\ s \in Int
    <3>1. 1 \in 1 .. Len(T) /\ T # <<>>
      BY <1>9, Len(<<>>) = 0
    <3>2. T[1] \in 1 .. clock /\ T[i] \in 1 .. clock
      BY <1>9, <3>1
    <3> QED BY <1>1, <3>1, <3>2
  <2>2. s - T[1] <= WindowMs
    BY <1>1, <1>2, <2>1 DEF Stale
  <2>3. T[i] >= T[1] - MaxLag
    BY <1>1, <1>4, <1>9, <2>1
  <2> QED BY <1>1, <2>1, <2>2, <2>3
<1>6. Counted(s) = Append(T, s)
  BY DEF Counted, T
<1>7. /\ Append(T, s) \in Seq(1 .. clock)
      /\ Len(Append(T, s)) = Len(T) + 1
      /\ DOMAIN Append(T, s) = 1 .. Len(T) + 1
      /\ \A i \in 1 .. Len(T) : Append(T, s)[i] = T[i]
      /\ Append(T, s)[Len(T) + 1] = s
  BY <1>1, <1>2
<1>8. \A i \in 1 .. Len(T) : T[i] \in 1 .. clock
  BY <1>9
<1>10. \A i, j \in 1 .. Len(T) + 1 :
         i < j => Append(T, s)[j] >= Append(T, s)[i] - MaxLag
  <2> SUFFICES ASSUME NEW i \in 1 .. Len(T) + 1, NEW j \in 1 .. Len(T) + 1,
                      i < j
               PROVE  Append(T, s)[j] >= Append(T, s)[i] - MaxLag
    OBVIOUS
  <2>1. CASE j = Len(T) + 1
    BY <1>1, <1>7, <1>8, <1>9, <2>1
  <2>2. CASE j # Len(T) + 1
    <3>1. /\ i \in 1 .. Len(T) /\ j \in 1 .. Len(T)
          /\ Append(T, s)[i] = T[i] /\ Append(T, s)[j] = T[j]
      BY <1>7, <1>9, <2>2
    <3> QED BY <1>4, <3>1
  <2> QED BY <2>1, <2>2
<1>11. \A i \in 1 .. Len(T) + 1 : s - Append(T, s)[i] <= WindowMs + MaxLag
  <2> SUFFICES ASSUME NEW i \in 1 .. Len(T) + 1
               PROVE  s - Append(T, s)[i] <= WindowMs + MaxLag
    OBVIOUS
  <2>1. CASE i = Len(T) + 1
    BY <1>1, <1>7, <2>1
  <2>2. CASE i # Len(T) + 1
    BY <1>5, <1>7, <1>9, <2>2
  <2> QED BY <2>1, <2>2
<1>12. Len(T) + 1 \in 1 .. Len(failure_times) + 1
  BY <1>3, <1>9
<1>13. /\ Counted(s) \in Seq(1 .. clock)
       /\ Len(Counted(s)) \in 1 .. Len(failure_times) + 1
       /\ \A i, j \in DOMAIN Counted(s) :
            i < j => Counted(s)[j] >= Counted(s)[i] - MaxLag
       /\ \A i \in DOMAIN Counted(s) :
            s - Counted(s)[i] <= WindowMs + MaxLag
  BY <1>6, <1>7, <1>10, <1>11, <1>12, Zenon
<1> QED
  BY <1>13 DEF s

-----------------------------------------------------------------------------
LEMMA InitIInv == Init => IInv
<1> SUFFICES ASSUME Init PROVE IInv
  OBVIOUS
<1> USE AutoHealAssumption DEF Init, ClockInit, AutoHealInit
<1>1. TypeOK /\ Len(failure_times) <= streak
  BY DEF TypeOK
<1>2. LagBounded /\ NearlySorted /\ HealStampClose
  BY DEF LagBounded, NearlySorted, HealStampClose
<1> QED
  BY <1>1, <1>2 DEF IInv

LEMMA NextIInv == IInv /\ [Next]_vars => IInv'
<1> SUFFICES ASSUME IInv, [Next]_vars PROVE IInv'
  OBVIOUS
<1> USE AutoHealAssumption
<1>t. TypeOK /\ Len(failure_times) \in Nat
  BY DEF IInv, TypeOK
<1>1. CASE RecordSuccess /\ UNCHANGED clock
  BY <1>1, <1>t DEF RecordSuccess, IInv, TypeOK, LagBounded, NearlySorted,
                    HealStampClose
<1>2. ASSUME NEW t \in Tasks, StampFailure(t), UNCHANGED clock
      PROVE  IInv'
  BY <1>2, <1>t DEF StampFailure, InCall, IInv, TypeOK, LagBounded,
                    NearlySorted, HealStampClose
<1>3. ASSUME NEW t \in Tasks, RecordFailure(t), UNCHANGED clock
      PROVE  IInv'
  <2> DEFINE s == stamp[t]
  <2>1. /\ InCall(t) /\ s \in 1 .. clock /\ clock - s <= MaxLag
        /\ stamp' = [stamp EXCEPT ![t] = 0]
        /\ enabled' = enabled /\ clock' = clock
    BY <1>3, <1>t DEF RecordFailure, IInv, TypeOK, LagBounded, InCall
  <2>2. LagBounded' /\ stamp' \in [Tasks -> 0 .. clock]
    BY <2>1, <1>t DEF IInv, TypeOK, LagBounded
  <2>3. CASE Ignore
    BY <2>1, <2>2, <2>3, <1>t DEF Ignore, IInv, TypeOK, NearlySorted,
                                  HealStampClose
  <2>4. CASE Count(s)
    <3>1. /\ failure_times' = Counted(s) /\ streak' = streak + 1
          /\ UNCHANGED <<last_heal_at_ms, heal_clock>>
      BY <2>4 DEF Count
    <3>2. /\ Counted(s) \in Seq(1 .. clock)
          /\ Len(Counted(s)) \in 1 .. Len(failure_times) + 1
          /\ \A i, j \in DOMAIN Counted(s) :
               i < j => Counted(s)[j] >= Counted(s)[i] - MaxLag
      BY <2>1, CountedFacts
    <3> HIDE DEF s
    <3>3. NearlySorted' /\ HealStampClose'
      BY <2>1, <3>1, <3>2 DEF IInv, NearlySorted, HealStampClose
    <3>4. failure_times' \in Seq(1 .. clock')
      BY <2>1, <3>1, <3>2
    <3>5. streak \in Nat /\ Len(failure_times) <= streak
      BY DEF IInv, TypeOK
    <3>6. streak' \in Nat /\ (Len(failure_times) <= streak)'
      BY <3>1, <3>2, <3>5, <1>t
    <3>7. TypeOK'
      BY <2>1, <2>2, <3>1, <3>4, <3>6, <1>t DEF TypeOK
    <3> QED BY <2>2, <3>3, <3>6, <3>7 DEF IInv
  <2>5. CASE Heal(s)
    <3>1. /\ failure_times' = <<>> /\ streak' = 0
          /\ last_heal_at_ms' = s /\ heal_clock' = clock
      BY <2>5 DEF Heal
    <3> HIDE DEF s
    <3>2. NearlySorted' /\ HealStampClose'
      BY <2>1, <3>1, <1>t DEF NearlySorted, HealStampClose, TypeOK
    <3>3. TypeOK' /\ (Len(failure_times) <= streak)'
      BY <2>1, <2>2, <3>1, <1>t DEF TypeOK
    <3> QED BY <2>2, <3>2, <3>3 DEF IInv
  <2> QED BY <1>3, <2>3, <2>4, <2>5 DEF RecordFailure
<1>4. CASE Tick
  <2>1. /\ clock' = clock + 1
        /\ UNCHANGED autoHealVars
        /\ \A t \in Tasks : stamp[t] # 0 => clock - stamp[t] < MaxLag
    BY <1>4 DEF Tick, Advance, LagAllowsTick, Pending, InCall
  <2>2. TypeOK'
    <3>1. failure_times \in Seq(1 .. clock + 1)
      <4>1. 1 .. clock \subseteq 1 .. clock + 1
        BY <1>t DEF TypeOK
      <4> QED BY <1>t, <4>1, SeqMonotonic DEF TypeOK
    <3> QED BY <2>1, <3>1, <1>t DEF TypeOK, autoHealVars
  <2>3. LagBounded'
    BY <2>1, <1>t DEF LagBounded, TypeOK, autoHealVars
  <2> QED
    BY <2>1, <2>2, <2>3 DEF IInv, NearlySorted, HealStampClose, autoHealVars
<1>5. CASE UNCHANGED vars
  BY <1>5 DEF vars, autoHealVars, IInv, TypeOK, LagBounded, NearlySorted,
              HealStampClose
<1> QED
  BY <1>1, <1>2, <1>3, <1>4, <1>5 DEF Next

-----------------------------------------------------------------------------
\* AutoHeal's state stays in its types: recorded times are past instants.
THEOREM TypeCorrect == Spec => []TypeOK
<1>1. IInv => TypeOK
  BY DEF IInv
<1> QED
  BY InitIInv, NextIInv, <1>1, PTL DEF Spec

\* record_failure_and_should_heal answers true only after at least Threshold
\* failures in a row, in whatever order concurrent calls took the lock.
THEOREM HealsOnEvidence == Spec => []HealOnEvidence
<1>1. IInv => HealOnEvidence
  <2> SUFFICES ASSUME IInv, NEW t \in Tasks, InCall(t), ShouldHeal(stamp[t])
               PROVE  streak + 1 >= Threshold
    BY DEF HealOnEvidence, Pending
  <2>1. Len(Counted(stamp[t])) \in 1 .. Len(failure_times) + 1
    BY CountedFacts
  <2>2. /\ Len(failure_times) \in Nat /\ streak \in Nat
        /\ Len(failure_times) <= streak
    BY DEF IInv, TypeOK
  <2>3. Len(Counted(stamp[t])) >= Threshold /\ Threshold \in Nat
    BY AutoHealAssumption DEF ShouldHeal, Threshold
  <2> QED BY <2>1, <2>2, <2>3
<1> QED
  BY InitIInv, NextIInv, <1>1, PTL DEF Spec

\* A failure that trim_window leaves in the window, sorted or not, is at most
\* WindowMs + MaxLag older than the call that counts it.
THEOREM CountsRecentFailures == Spec => []CountedRecent
<1>1. IInv => CountedRecent
  BY CountedFacts DEF CountedRecent, Pending
<1> QED
  BY InitIInv, NextIInv, <1>1, PTL DEF Spec

\* The manager implements a cooldown gate: two heal decisions are at least
\* CooldownMs - MaxLag apart in real time.
THEOREM ImplementsGate == Spec => HealsApart
<1> USE AutoHealAssumption
<1>1. Init => Gate!Init
  BY DEF Init, AutoHealInit, ClockInit, Gate!Init, Gate!ClockInit
<1>2. IInv /\ [Next]_vars => [Gate!Next]_<<clock, heal_clock>>
  <2> SUFFICES ASSUME IInv, [Next]_vars
               PROVE  [Gate!Next]_<<clock, heal_clock>>
    OBVIOUS
  <2>1. CASE Tick
    BY <2>1 DEF Tick, autoHealVars, Gate!Next, Gate!Tick, Gate!Advance, Advance
  <2>2. ASSUME NEW t \in Tasks, RecordFailure(t), Heal(stamp[t]),
               UNCHANGED clock
        PROVE  Gate!Pass
    <3>1. heal_clock' = clock /\ clock' = clock /\ ~CoolingDown(stamp[t])
      BY <2>2 DEF Heal, ShouldHeal
    <3>2. stamp[t] \in 1 .. clock
      BY <2>2 DEF RecordFailure, InCall, IInv, TypeOK
    <3>3. heal_clock = 0 \/ clock - heal_clock >= CooldownMs - MaxLag
      BY <3>1, <3>2 DEF CoolingDown, IInv, TypeOK, HealStampClose
    <3> QED BY <3>1, <3>3 DEF Gate!Pass, Gate!Open
  <2>3. CASE UNCHANGED <<clock, heal_clock>>
    BY <2>3
  <2>4. RecordSuccess => UNCHANGED heal_clock
    BY DEF RecordSuccess
  <2>5. \A t \in Tasks : StampFailure(t) => UNCHANGED heal_clock
    BY DEF StampFailure
  <2>6. \A t \in Tasks :
          RecordFailure(t) => UNCHANGED heal_clock \/ Heal(stamp[t])
    BY DEF RecordFailure, Ignore, Count
  <2>7. CASE UNCHANGED vars
    BY <2>7 DEF vars, autoHealVars
  <2> QED
    BY <2>1, <2>2, <2>3, <2>4, <2>5, <2>6, <2>7 DEF Next, Gate!Next
<1> QED
  BY InitIInv, NextIInv, <1>1, <1>2, PTL DEF Spec, HealsApart, Gate!Spec
=============================================================================
