-------------------------- MODULE DevicePoolProofs --------------------------
(***************************************************************************)
(* What the device pool's operations do, for every pool, boot profile and  *)
(* cooldown, on which the proofs about the pool's users rest.              *)
(***************************************************************************)
EXTENDS DevicePool, WellFoundedInduction, TLAPS

\* What Min and Max say of sets of numbers.
LEMMA LeastNumber ==
  ASSUME NEW S \in SUBSET Nat, S # {}
  PROVE  Min(S) \in S /\ \A n \in S : Min(S) <= n
<1>1. PICK x \in S : \A y \in S : ~(<<y, x>> \in OpToRel(<, Nat))
  BY NatLessThanWellFounded, WFMin
<1>2. ASSUME NEW y \in S PROVE x <= y
  <2>1. x \in Nat /\ y \in Nat
    OBVIOUS
  <2>2. ~(y < x)
    BY <1>1, <2>1 DEF OpToRel
  <2> QED
    BY <2>1, <2>2
<1>3. \A y \in S : x <= y
  BY <1>2
<1> QED
  BY <1>3 DEF Min

LEMMA GreatestNumber ==
  ASSUME NEW n \in Nat, NEW S \in SUBSET (0 .. n), S # {}
  PROVE  Max(S) \in S /\ \A m \in S : m <= Max(S)
<1> DEFINE below == {m \in Nat : n - m \in S}
<1>1. below # {} /\ below \in SUBSET Nat
  <2>1. PICK m \in S : TRUE
    OBVIOUS
  <2>2. n - m \in Nat /\ n - (n - m) = m
    OBVIOUS
  <2> QED
    BY <2>1, <2>2
<1>2. Min(below) \in below /\ \A m \in below : Min(below) <= m
  BY <1>1, LeastNumber
<1>3. PICK k \in Nat : k \in below /\ \A m \in below : k <= m
  BY <1>2
<1>4. ASSUME NEW m \in S PROVE m <= n - k
  <2>1. n - m \in Nat /\ n - (n - m) = m /\ n - m \in below
    OBVIOUS
  <2> QED
    BY <1>3, <2>1
<1>5. n - k \in S
  BY <1>3
<1>6. \E x \in S : \A y \in S : x >= y
  BY <1>4, <1>5
<1> QED
  BY <1>6 DEF Max

-----------------------------------------------------------------------------
LEMMA PoolNumbers == PoolSize \in Nat /\ RotateCooldownMs \in Nat
BY DevicePoolAssumption

\* A non-empty set of indices has a least one, which Position returns.
LEMMA PositionInSet ==
  ASSUME NEW S \in SUBSET Indices, S # {}
  PROVE  Position(S) \in S
<1>1. S \in SUBSET Nat
  BY PoolNumbers DEF Indices
<1> QED
  BY <1>1, LeastNumber DEF Position

LEMMA NamedIndices == ASSUME NEW name PROVE Named(name) \in SUBSET Indices
BY DEF Named

\* The index that a pool starts with is one of the pool's.
LEMMA ResolvedIndex ==
  ASSUME NEW profile, NEW name
  PROVE  /\ ResolveActiveIndex(profile, name) \in Indices \cup {NoIndex}
         /\ ResolveActiveIndex(profile, name) = NoIndex <=> PoolSize = 0
<1>1. CASE PoolSize = 0
  BY <1>1 DEF ResolveActiveIndex
<1>2. CASE PoolSize # 0
  <2>1. Same(profile) \in SUBSET Indices
    BY DEF Same
  <2>2. 0 \in Indices /\ NoIndex \notin Indices
    BY <1>2, PoolNumbers DEF Indices, NoIndex
  <2>3. ResolveActiveIndex(profile, name) \in Indices
    BY <1>2, <2>1, <2>2, PositionInSet, NamedIndices DEF ResolveActiveIndex
  <2> QED
    BY <1>2, <2>2, <2>3
<1> QED
  BY <1>1, <1>2

-----------------------------------------------------------------------------
\* The next index stays in the pool.
LEMMA NextInPool ==
  ASSUME NEW i \in Indices, PoolSize > 1
  PROVE  (i + 1) % PoolSize \in Indices
BY PoolNumbers DEF Indices

\* Whatever is activated, index and profile agree afterwards.
LEMMA ActivateAgrees ==
  ASSUME NEW i \in Indices, Activate(i)
  PROVE  /\ active_index' = i /\ active_profile' = Profiles[i]
         /\ active_profile' \in Pool /\ Profiles[active_index'] = active_profile'
BY DEF Activate, Pool

LEMMA RotateTyped ==
  ASSUME TypeOK, Rotate
  PROVE  /\ last_rotate_at_ms' = clock /\ Profiles[active_index'] = active_profile'
         /\ active_profile' \in Pool /\ active_index' \in Indices
         /\ PoolSize > 1
<1>1. PoolSize > 1 /\ last_rotate_at_ms' = clock /\ Activate(NextRotationIndex)
  BY DEF Rotate, RotationAllowed
<1>2. active_index \in Indices
  BY <1>1 DEF TypeOK
<1>3. NextRotationIndex \in Indices
  BY <1>1, <1>2, NextInPool DEF NextRotationIndex
<1>4. active_profile' \in Pool /\ Profiles[active_index'] = active_profile'
      /\ active_index' \in Indices
  BY <1>1, <1>3, ActivateAgrees
<1> QED
  BY <1>1, <1>4

\* The pool that the service starts with.
LEMMA InitPoolTyped == ClockInit /\ DevicePoolInit => TypeOK
<1> SUFFICES ASSUME ClockInit, DevicePoolInit PROVE TypeOK
  OBVIOUS
<1>1. PICK profile \in BootProfiles, name \in StartupNames : NewPool(profile, name)
  BY DEF DevicePoolInit
<1>2. active_index \in Indices \cup {NoIndex} /\ (active_index = NoIndex <=> PoolSize = 0)
  BY <1>1, ResolvedIndex DEF NewPool
<1> QED
  BY <1>1, <1>2 DEF NewPool, ClockInit, TypeOK

\* A rotation keeps the types, and so does the clock.
LEMMA PoolStepTyped ==
  ASSUME TypeOK,
         \/ Rotate /\ UNCHANGED clock
         \/ UNCHANGED <<clock, devicePoolVars>>
         \/ Advance /\ UNCHANGED devicePoolVars
  PROVE  TypeOK'
<1>1. CASE Rotate /\ UNCHANGED clock
  <2>1. NoIndex \notin Indices
    BY PoolNumbers DEF Indices, NoIndex
  <2> QED
    BY <1>1, <2>1, RotateTyped, PoolNumbers DEF TypeOK
<1>2. CASE UNCHANGED <<clock, devicePoolVars>>
  BY <1>2 DEF TypeOK, devicePoolVars
<1>3. CASE Advance /\ UNCHANGED devicePoolVars
  BY <1>3 DEF TypeOK, devicePoolVars, Advance
<1> QED
  BY <1>1, <1>2, <1>3
=============================================================================
