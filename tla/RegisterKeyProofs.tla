------------------------- MODULE RegisterKeyProofs -------------------------
(***************************************************************************)
(* Proofs about RegisterKey, for every set of tasks, fingerprints and      *)
(* versions, every number of shards, limit and ttl.                        *)
(***************************************************************************)
EXTENDS RegisterKey, FiniteSetTheorems, TLAPS

\* A trim that follows a pointer knows which key it has removed.
KeyRemoved ==
  \A t \in Tasks : pc[t] \in {"findPointer", "unpoint"} => key[t] \in Keys

TInv == TypeOK /\ AnswersRequest /\ KeyRemoved

-----------------------------------------------------------------------------
LEMMA Constants ==
  /\ Shards \in Nat \ {0} /\ ShardOf \in [Keys -> 0 .. Shards - 1]
  /\ Capacity \in Nat \ {0} /\ TtlMs \in Nat /\ MaxTime \in Nat \ {0}
  /\ KeyVers \subseteq Int /\ NoKey \notin Keys
BY RegisterKeyAssumption, MaxTimeAssumption DEF Capacity

LEMMA KeysFinite == IsFiniteSet(Keys)
BY RegisterKeyAssumption, FS_Product DEF Keys

LEMMA KeysOfType ==
  ASSUME NEW fp \in Fingerprints
  PROVE  /\ KeysOf(fp) \subseteq Keys
         /\ \A kv \in KeyVers : <<fp, kv>> \in KeysOf(fp)
         /\ \A k \in KeysOf(fp) : k[1] = fp /\ k[2] \in KeyVers
BY DEF Keys, KeysOf

LEMMA InitTInv == Init => TInv
<1> SUFFICES ASSUME Init PROVE TInv
  OBVIOUS
<1> QED
  BY Constants
  DEF Init, ClockInit, TInv, TypeOK, AnswersRequest, KeyRemoved,
      Resolving, Trimming, Invalidating

\* What every action of a task that is under way is assumed to start from.
LEMMA StepTInv ==
  ASSUME TInv, NEW t \in Tasks, Step(t)
  PROVE  TInv'
<1> USE Constants, KeysOfType
    DEF TInv, TypeOK, AnswersRequest, KeyRemoved, At, Goto, Live, LiveIn,
        Remove, mapVars, walkVars, Requests, Resolving, Trimming, Invalidating
<1>1. ASSUME NEW fp \in Fingerprints, NEW kv \in KeyVers,
             ResolveVersion(t, fp, kv)
      PROVE  TInv'
  BY <1>1 DEF ResolveVersion
<1>2. ASSUME NEW fp \in Fingerprints, ResolveCurrent(t, fp)  PROVE TInv'
  BY <1>2 DEF ResolveCurrent
<1>3. CASE Hit(t)
  BY <1>3 DEF Hit, Return
<1>4. CASE Miss(t)
  BY <1>4 DEF Miss, AfterMiss
<1>5. CASE FindExpired(t)
  BY <1>5 DEF FindExpired
<1>6. CASE Evict(t)
  BY <1>6 DEF Evict, AfterMiss
<1>7. CASE DropCurrent(t)
  BY <1>7 DEF DropCurrent
<1>8. CASE FetchFails(t)
  BY <1>8 DEF FetchFails, Return
<1>9. ASSUME NEW kv \in KeyVers, VersionMismatch(t, kv)  PROVE TInv'
  BY <1>9 DEF VersionMismatch, Return
<1>10. ASSUME NEW kv \in KeyVers, Fetched(t, kv)  PROVE TInv'
  BY <1>10 DEF Fetched, ExpiresAt
<1>11. CASE Insert(t)
  BY <1>11 DEF Insert
<1>12. CASE Point(t)
  BY <1>12 DEF Point
<1>13. CASE CountShard(t)
  BY <1>13 DEF CountShard
<1>14. CASE NoOverflow(t)
  BY <1>14 DEF NoOverflow, Return
<1>15. CASE StartPick(t)
  BY <1>15 DEF StartPick
<1>16. CASE PickShard(t)
  BY <1>16 DEF PickShard
<1>17. CASE StartTrim(t)
  BY <1>17 DEF StartTrim
<1>18. ASSUME NEW k \in picked[t], TrimKey(t, k)  PROVE TInv'
  <2>1. k \in Keys /\ picked[t] \ {k} \in SUBSET Keys
    OBVIOUS
  <2>2. pc' \in [Tasks -> {"idle"} \cup Resolving \cup Trimming \cup Invalidating]
        /\ \A u \in Tasks : u # t => pc'[u] = pc[u] /\ key'[u] = key[u]
    BY <1>18 DEF TrimKey
  <2>3. key'[t] = k /\ pc[t] = "trim" /\ pc'[t] \in {"trim", "findPointer"}
    BY <1>18 DEF TrimKey
  <2>4. TypeOK'
    BY <1>18, <2>1, <2>2, <2>3 DEF TrimKey
  <2>5. AnswersRequest' /\ KeyRemoved'
    BY <1>18, <2>1, <2>2, <2>3 DEF TrimKey
  <2> QED
    BY <2>4, <2>5
<1>19. CASE FindPointer(t)
  BY <1>19 DEF FindPointer
<1>20. CASE Unpoint(t)
  <2>1. key[t][1] \in Fingerprints
    BY <1>20 DEF Unpoint, Keys
  <2> QED
    BY <1>20, <2>1 DEF Unpoint
<1>21. CASE Trimmed(t)
  BY <1>21 DEF Trimmed, Return
<1>22. ASSUME NEW fp \in Fingerprints, Invalidate(t, fp)  PROVE TInv'
  BY <1>22 DEF Invalidate
<1>23. CASE GatherShard(t)
  BY <1>23 DEF GatherShard
<1>24. CASE StartPurge(t)
  BY <1>24 DEF StartPurge
<1>25. ASSUME NEW k \in picked[t], PurgeKey(t, k)  PROVE TInv'
  BY <1>25 DEF PurgeKey
<1>26. CASE Invalidated(t)
  BY <1>26 DEF Invalidated, Return
<1> QED
  BY <1>1, <1>2, <1>3, <1>4, <1>5, <1>6, <1>7, <1>8, <1>9, <1>10, <1>11,
     <1>12, <1>13, <1>14, <1>15, <1>16, <1>17, <1>18, <1>19, <1>20, <1>21,
     <1>22, <1>23, <1>24, <1>25, <1>26
  DEF Step

LEMMA NextTInv == TInv /\ [Next]_vars => TInv'
<1> SUFFICES ASSUME TInv, [Next]_vars PROVE TInv'
  OBVIOUS
<1>1. ASSUME NEW t \in Tasks, Step(t)  PROVE TInv'
  BY <1>1, StepTInv
<1>2. CASE Tick
  BY <1>2, Constants
  DEF Tick, Advance, taskVars, TInv, TypeOK, AnswersRequest, KeyRemoved
<1>3. CASE UNCHANGED vars
  BY <1>3 DEF vars, taskVars, TInv, TypeOK, AnswersRequest, KeyRemoved
<1> QED
  BY <1>1, <1>2, <1>3 DEF Next

(* The tasks' places and locals keep their types, a fingerprint's pointer   *)
(* names a key of that fingerprint whatever interleaves with its moves.     *)
THEOREM TypeCorrect == Spec => []TypeOK
<1>1. TInv => TypeOK
  BY DEF TInv
<1> QED
  BY <1>1, InitTInv, NextTInv, PTL DEF Spec

(* A resolve only ever looks up, returns and caches a key of the requested  *)
(* fingerprint and version.                                                 *)
THEOREM ResolvesWhatWasAsked == Spec => []AnswersRequest
<1>1. TInv => AnswersRequest
  BY DEF TInv
<1> QED
  BY <1>1, InitTInv, NextTInv, PTL DEF Spec

-----------------------------------------------------------------------------
(* What a step leaves alone *)

Walking == {"count", "pick", "trim", "findPointer", "unpoint", "gather", "purge"}

\* Outside a walk nothing is counted or picked, and a count picks nothing.
Clean(t) ==
  /\ pc[t] \notin Walking => shard[t] = 0
  /\ pc[t] \notin Walking \ {"count"} => picked[t] = {}

CleanInv == \A t \in Tasks : Clean(t)

SameLocals(t) ==
  /\ pc'[t] = pc[t] /\ asked'[t] = asked[t] /\ shard'[t] = shard[t]
  /\ seen'[t] = seen[t] /\ picked'[t] = picked[t]

LEMMA OthersKeepLocals ==
  ASSUME TInv, NEW t \in Tasks, Step(t), NEW u \in Tasks, u # t
  PROVE  SameLocals(u)
BY DEF TInv, TypeOK, Step, SameLocals, Goto, Return, mapVars, walkVars,
       ResolveVersion, ResolveCurrent, Hit, Miss, FindExpired, Evict,
       DropCurrent, FetchFails, VersionMismatch, Fetched, Insert, Point,
       CountShard, NoOverflow, StartPick, PickShard, StartTrim, TrimKey,
       FindPointer, Unpoint, Trimmed, Invalidate, GatherShard, StartPurge,
       PurgeKey, Invalidated

LEMMA OnlyInsertAdds ==
  ASSUME TInv, NEW t \in Tasks, Step(t), ~Insert(t)
  PROVE  Live' \subseteq Live /\ \A u \in Tasks \ {t} : fresh'[u] = fresh[u]
BY DEF TInv, TypeOK, Step, Live, Remove, Goto, Return, mapVars, walkVars,
       ResolveVersion, ResolveCurrent, Hit, Miss, FindExpired, Evict,
       DropCurrent, FetchFails, VersionMismatch, Fetched, Point,
       CountShard, NoOverflow, StartPick, PickShard, StartTrim, TrimKey,
       FindPointer, Unpoint, Trimmed, Invalidate, GatherShard, StartPurge,
       PurgeKey, Invalidated

LEMMA StepClean ==
  ASSUME TInv, CleanInv, NEW t \in Tasks, Step(t)
  PROVE  CleanInv'
<1>1. \A u \in Tasks \ {t} : Clean(u)'
  BY OthersKeepLocals DEF CleanInv, Clean, SameLocals
<1>2. Clean(t)'
  BY DEF TInv, TypeOK, CleanInv, Clean, Walking, Step, At, Goto, Return,
       AfterMiss, mapVars, walkVars,
       ResolveVersion, ResolveCurrent, Hit, Miss, FindExpired, Evict,
       DropCurrent, FetchFails, VersionMismatch, Fetched, Insert, Point,
       CountShard, NoOverflow, StartPick, PickShard, StartTrim, TrimKey,
       FindPointer, Unpoint, Trimmed, Invalidate, GatherShard, StartPurge,
       PurgeKey, Invalidated
<1> QED
  BY <1>1, <1>2 DEF CleanInv

-----------------------------------------------------------------------------
(* Invalidation: what the walk has passed is collected or was inserted since *)

Collected(t) == picked[t] \cup fresh[t]

PurgeCovers(t) ==
  /\ pc[t] = "gather" =>
       \A k \in Live \cap KeysOf(asked[t][1]) :
         ShardOf[k] < shard[t] => k \in Collected(t)
  /\ pc[t] = "purge" => Live \cap KeysOf(asked[t][1]) \subseteq Collected(t)

PInv == TInv /\ CleanInv /\ \A t \in Tasks : PurgeCovers(t)

LEMMA StepPurge ==
  ASSUME PInv, NEW t \in Tasks, Step(t)
  PROVE  \A u \in Tasks : PurgeCovers(u)'
<1> USE DEF PInv
<1>1. CASE Insert(t)
  <2> SUFFICES ASSUME NEW u \in Tasks PROVE PurgeCovers(u)'
    OBVIOUS
  <2>1. Live' \subseteq Live \cup {key[t]}
    BY <1>1 DEF Insert, Live, TInv, TypeOK
  <2>2. CASE u # t /\ pc[u] \in {"gather", "purge"}
    <3>1. SameLocals(u)
      BY <2>2, OthersKeepLocals
    <3>2. fresh'[u] = fresh[u] \cup {key[t]}
      BY <1>1, <2>2 DEF Insert
    <3> QED
      BY <2>1, <3>1, <3>2 DEF PurgeCovers, Collected, SameLocals
  <2>3. CASE u # t /\ pc[u] \notin {"gather", "purge"}
    BY <2>3, OthersKeepLocals DEF PurgeCovers, SameLocals
  <2>4. CASE u = t
    BY <1>1, <2>4 DEF Insert, Goto, PurgeCovers, TInv, TypeOK
  <2> QED
    BY <2>2, <2>3, <2>4
<1>2. CASE ~Insert(t)
  <2>1. Live' \subseteq Live
    BY <1>2, OnlyInsertAdds
  <2>2. ASSUME NEW u \in Tasks \ {t}  PROVE PurgeCovers(u)'
    <3>1. SameLocals(u) /\ fresh'[u] = fresh[u]
      BY <1>2, OthersKeepLocals, OnlyInsertAdds
    <3> QED
      BY <2>1, <3>1 DEF PurgeCovers, Collected, SameLocals
  <2>3. CASE pc'[t] \notin {"gather", "purge"}
    BY <2>2, <2>3 DEF PurgeCovers
  <2>4. ASSUME NEW fp \in Fingerprints, Invalidate(t, fp)
        PROVE  PurgeCovers(t)'
    <3>1. shard'[t] = 0 /\ pc'[t] = "gather"
      BY <2>4 DEF Invalidate, At, Goto, walkVars, CleanInv, Clean, Walking,
                  TInv, TypeOK
    <3>2. \A k \in Keys : ~(ShardOf[k] < 0)
      BY Constants
    <3> QED
      BY <3>1, <3>2 DEF PurgeCovers, Live
  <2>5. CASE GatherShard(t)
    <3>1. /\ pc[t] = "gather" /\ pc' = pc /\ asked' = asked /\ Live' = Live
          /\ fresh' = fresh /\ shard'[t] = shard[t] + 1 /\ shard[t] \in Nat
          /\ picked'[t] = picked[t] \cup (LiveIn(shard[t]) \cap KeysOf(asked[t][1]))
      BY <2>5, Constants DEF GatherShard, At, mapVars, Live, TInv, TypeOK
    <3>2. \A k \in Live : ShardOf[k] \in Nat
      BY Constants DEF Live
    <3>3. \A k \in Live \cap KeysOf(asked[t][1]) :
            ShardOf[k] < shard[t] => k \in Collected(t)
      BY <3>1 DEF PurgeCovers
    <3>4. \A k \in Live \cap KeysOf(asked[t][1]) :
            ShardOf[k] < shard[t] + 1 => k \in Collected(t)'
      BY <3>1, <3>2, <3>3 DEF Collected, LiveIn
    <3>5. PurgeCovers(t)'
      BY <3>1, <3>4 DEF PurgeCovers
    <3> QED
      BY <2>2, <3>5
  <2>6. CASE StartPurge(t)
    <3>1. /\ pc[t] = "gather" /\ pc'[t] = "purge" /\ asked' = asked
          /\ Live' = Live /\ fresh' = fresh /\ picked' = picked
          /\ shard[t] = Shards
      BY <2>6 DEF StartPurge, At, Goto, mapVars, walkVars, Live, TInv, TypeOK
    <3>2. \A k \in Live : ShardOf[k] < Shards
      BY Constants DEF Live
    <3>3. PurgeCovers(t)'
      BY <3>1, <3>2 DEF PurgeCovers, Collected
    <3> QED
      BY <2>2, <3>3
  <2>7. ASSUME NEW k \in picked[t], PurgeKey(t, k)  PROVE PurgeCovers(t)'
    <3>1. /\ pc[t] = "purge" /\ pc' = pc /\ asked' = asked /\ fresh' = fresh
          /\ Live' = Live \ {k} /\ picked'[t] = picked[t] \ {k}
      BY <2>7 DEF PurgeKey, At, Remove, Live, TInv, TypeOK
    <3> QED
      BY <3>1 DEF PurgeCovers, Collected
  <2>8. \/ \E fp \in Fingerprints : Invalidate(t, fp)
        \/ GatherShard(t) \/ StartPurge(t)
        \/ \E k \in picked[t] : PurgeKey(t, k)
        \/ pc'[t] \notin {"gather", "purge"}
    BY <1>2 DEF TInv, TypeOK, Step, At, Goto, Return, AfterMiss,
       ResolveVersion, ResolveCurrent, Hit, Miss, FindExpired, Evict,
       DropCurrent, FetchFails, VersionMismatch, Fetched, Point,
       CountShard, NoOverflow, StartPick, PickShard, StartTrim, TrimKey,
       FindPointer, Unpoint, Trimmed, Invalidated
  <2> QED
    BY <2>2, <2>3, <2>4, <2>5, <2>6, <2>7, <2>8
<1> QED
  BY <1>1, <1>2

LEMMA InitPInv == Init => PInv
BY InitTInv DEF Init, PInv, CleanInv, Clean, Walking, PurgeCovers

LEMMA NextPInv == PInv /\ [Next]_vars => PInv'
<1> SUFFICES ASSUME PInv, [Next]_vars PROVE PInv'
  OBVIOUS
<1>1. TInv'
  BY NextTInv DEF PInv
<1>2. ASSUME NEW t \in Tasks, Step(t)  PROVE PInv'
  BY <1>1, <1>2, StepClean, StepPurge DEF PInv
<1>3. CASE Tick \/ UNCHANGED vars
  BY <1>1, <1>3
  DEF Tick, vars, taskVars, PInv, CleanInv, Clean, PurgeCovers, Collected, Live
<1> QED
  BY <1>2, <1>3 DEF Next

(* An invalidation leaves no key of its fingerprint but those inserted      *)
(* after it began, however walks, inserts and trims interleave with it.     *)
THEOREM Purges == Spec => []InvalidationPurges
<1>1. PInv => InvalidationPurges
  BY DEF PInv, PurgeCovers, Collected, InvalidationPurges
<1> QED
  BY <1>1, InitPInv, NextPInv, PTL DEF Spec

-----------------------------------------------------------------------------
(* Capacity.  For every number j: either the cache is over its limit by no   *)
(* more than j entries, or more than j trims are under way that know all of  *)
(* its entries but j, and will bring it back as near.  An insert makes one   *)
(* such trim and is one more entry that each of the others may have missed.  *)

WithinLimit(j) == Cardinality(Live) <= Capacity + j

\* The shards that the task has passed hold nothing but S, and X it missed.
SeesAllBut(X, t, S) == \A k \in Live \ X : ShardOf[k] < shard[t] => k \in S

\* While it picks: all entries but X were counted, and those it has passed
\* are picked unless the quota is full.
PicksEnough(t, X) ==
  /\ Live \subseteq seen[t] \cup X /\ picked[t] \subseteq seen[t] \cup X
  /\ \A k \in picked[t] : ShardOf[k] < shard[t]
  /\ Cardinality(picked[t]) <= Overflow(t)
  /\ SeesAllBut(X, t, picked[t]) \/ Cardinality(picked[t]) = Overflow(t)

Witness(t, X, j) ==
  \/ pc[t] = "point"
  \/ pc[t] = "count" /\ SeesAllBut(X, t, seen[t])
  \/ pc[t] = "pick" /\ PicksEnough(t, X)
  \/ /\ pc[t] \in {"trim", "findPointer", "unpoint"}
     /\ Cardinality(Live \ picked[t]) <= Capacity + j

UpTo(j) == {X \in SUBSET Keys : Cardinality(X) <= j}

Near(j) == {t \in Tasks : \E X \in UpTo(j) : Witness(t, X, j)}

Trimmers == {t \in Tasks : pc[t] \in Trimming}

CapInv ==
  /\ IsFiniteSet(Trimmers)
  /\ \A j \in Nat : WithinLimit(j) \/ Cardinality(Near(j)) > j

CInv == TInv /\ CleanInv /\ CapInv

\* Sets of keys are finite; a subset is no larger, a union no larger than both.
LEMMA KeySets ==
  ASSUME NEW S \in SUBSET Keys
  PROVE  /\ IsFiniteSet(S) /\ Cardinality(S) \in Nat
         /\ \A R \in SUBSET S : Cardinality(R) <= Cardinality(S)
         /\ \A R \in SUBSET Keys :
              Cardinality(S \cup R) <= Cardinality(S) + Cardinality(R)
<1>1. \A R \in SUBSET Keys : IsFiniteSet(R) /\ Cardinality(R) \in Nat
  BY KeysFinite, FS_Subset, FS_CardinalityType
<1>2. ASSUME NEW R \in SUBSET S  PROVE Cardinality(R) <= Cardinality(S)
  BY <1>1, FS_Subset
<1>3. ASSUME NEW R \in SUBSET Keys
      PROVE  Cardinality(S \cup R) <= Cardinality(S) + Cardinality(R)
  <2>1. Cardinality(S \cup R)
          = Cardinality(S) + Cardinality(R) - Cardinality(S \cap R)
    BY <1>1, FS_Union
  <2>2. S \cap R \in SUBSET Keys
    OBVIOUS
  <2>3. Cardinality(S \cap R) \in Nat
    BY <1>1, <2>2
  <2> QED
    BY <1>1, <2>1, <2>3
<1> QED
  BY <1>1, <1>2, <1>3

\* The entries N that others insert add to what a task has missed.
LEMMA WitnessKept ==
  ASSUME TInv, TInv', NEW u \in Tasks, SameLocals(u),
         NEW N \in SUBSET Keys, Live' \subseteq Live \cup N,
         NEW X \in SUBSET Keys, NEW j \in Nat, Witness(u, X, j)
  PROVE  Witness(u, X \cup N, j + Cardinality(N))'
<1>1. CASE pc[u] \in {"trim", "findPointer", "unpoint"}
  <2>1. Live' \ picked'[u] \subseteq (Live \ picked[u]) \cup N
    BY DEF SameLocals
  <2>2. Live \ picked[u] \in SUBSET Keys /\ Live' \ picked'[u] \in SUBSET Keys
    BY DEF Live
  <2>3. Cardinality(Live \ picked[u]) <= Capacity + j
    BY <1>1 DEF Witness
  <2>4. Cardinality((Live \ picked[u]) \cup N)
          <= Cardinality(Live \ picked[u]) + Cardinality(N)
    BY <2>2, KeySets
  <2>5. Cardinality(Live' \ picked'[u])
          <= Cardinality((Live \ picked[u]) \cup N)
    <3>1. (Live \ picked[u]) \cup N \in SUBSET Keys
      BY <2>2
    <3> QED
      BY <2>1, <3>1, KeySets
  <2>6. /\ Cardinality(Live' \ picked'[u]) \in Nat /\ Cardinality(N) \in Nat
        /\ Cardinality(Live \ picked[u]) \in Nat
        /\ Cardinality((Live \ picked[u]) \cup N) \in Nat
    <3>1. (Live \ picked[u]) \cup N \in SUBSET Keys
      BY <2>2
    <3> QED
      BY <2>2, <3>1, KeySets
  <2>7. Cardinality(Live' \ picked'[u]) <= Capacity + (j + Cardinality(N))
    BY <2>3, <2>4, <2>5, <2>6, Constants
  <2> QED
    BY <1>1, <2>7 DEF Witness, SameLocals
<1>2. CASE pc[u] = "pick"
  <2>1. Overflow(u)' = Overflow(u)
    BY DEF Overflow, SameLocals
  <2>2. PicksEnough(u, X)
    BY <1>2 DEF Witness
  <2>3. SeesAllBut(X, u, picked[u]) => SeesAllBut(X \cup N, u, picked[u])'
    BY DEF SeesAllBut, SameLocals
  <2>4. PicksEnough(u, X \cup N)'
    BY <2>1, <2>2, <2>3 DEF PicksEnough, SameLocals
  <2> QED
    BY <1>2, <2>4 DEF Witness, SameLocals
<1>3. CASE pc[u] \in {"point", "count"}
  BY <1>3 DEF Witness, SeesAllBut, SameLocals
<1> QED
  BY <1>1, <1>2, <1>3 DEF Witness

LEMMA LimitKept ==
  ASSUME Live' \subseteq Live, NEW j \in Nat, WithinLimit(j)
  PROVE  WithinLimit(j)'
<1>1. Live \in SUBSET Keys
  BY DEF Live
<1>2. Cardinality(Live') <= Cardinality(Live)
  BY <1>1, KeySets
<1>3. Cardinality(Live) \in Nat /\ Cardinality(Live') \in Nat
  BY <1>1, KeySets
<1> QED
  BY <1>2, <1>3, Constants DEF WithinLimit

\* The actions of a trim: each hands its knowledge on, or has met the limit.
LEMMA WitnessMoves ==
  ASSUME TInv, CleanInv, NEW t \in Tasks, Step(t),
         NEW j \in Nat, NEW X \in UpTo(j), Witness(t, X, j)
  PROVE  Witness(t, X, j)' \/ WithinLimit(j)'
<1> USE DEF TInv, TypeOK, At, Goto, mapVars, walkVars
<1>a. \A k \in Live : k \in Keys /\ ShardOf[k] \in Nat /\ ShardOf[k] < Shards
  BY Constants DEF Live
<1>b. /\ Live \in SUBSET Keys /\ seen[t] \in SUBSET Keys
      /\ picked[t] \in SUBSET Keys /\ shard[t] \in Nat
  BY Constants DEF Live
<1>c. X \in SUBSET Keys /\ Cardinality(X) \in Nat /\ Cardinality(X) <= j
  BY KeySets DEF UpTo
<1>1. CASE Point(t)
  <2>1. pc'[t] = "count" /\ shard'[t] = 0 /\ Live' = Live
    BY <1>1 DEF Point, CleanInv, Clean, Walking, Live
  <2>2. SeesAllBut(X, t, seen[t])'
    BY <2>1, <1>a DEF SeesAllBut
  <2> QED
    BY <2>1, <2>2 DEF Witness
<1>2. CASE CountShard(t)
  <2>1. /\ pc[t] = "count" /\ pc' = pc /\ Live' = Live /\ shard'[t] = shard[t] + 1
        /\ seen'[t] = seen[t] \cup LiveIn(shard[t])
    BY <1>2 DEF CountShard, Live
  <2>2. SeesAllBut(X, t, seen[t])
    BY <2>1 DEF Witness
  <2>3. SeesAllBut(X, t, seen[t])'
    BY <2>1, <2>2, <1>a, <1>b DEF SeesAllBut, LiveIn
  <2> QED
    BY <2>1, <2>3 DEF Witness
<1>3. CASE NoOverflow(t)
  <2>1. Live' = Live /\ pc[t] = "count" /\ shard[t] = Shards /\ Overflow(t) <= 0
    BY <1>3 DEF NoOverflow, Live
  <2>2. Live \in SUBSET (seen[t] \cup X)
    BY <2>1, <1>a DEF Witness, SeesAllBut
  <2>3. Cardinality(Live) <= Cardinality(seen[t] \cup X)
    <3>1. seen[t] \cup X \in SUBSET Keys
      BY <1>b, <1>c
    <3> QED
      BY <2>2, <3>1, KeySets
  <2>4. Cardinality(seen[t] \cup X) <= Cardinality(seen[t]) + Cardinality(X)
    BY <1>b, <1>c, KeySets
  <2>5. /\ Cardinality(Live) \in Nat /\ Cardinality(seen[t]) \in Nat
        /\ Cardinality(seen[t] \cup X) \in Nat
    <3>1. seen[t] \cup X \in SUBSET Keys
      BY <1>b, <1>c
    <3> QED
      BY <1>b, <3>1, KeySets
  <2>6. Cardinality(Live) <= Capacity + j
    BY <2>1, <2>3, <2>4, <2>5, <1>c, Constants DEF Overflow
  <2> QED
    BY <2>1, <2>6 DEF WithinLimit
<1>4. CASE StartPick(t)
  <2>1. /\ Live' = Live /\ pc[t] = "count" /\ pc'[t] = "pick" /\ shard[t] = Shards
        /\ shard'[t] = 0 /\ seen' = seen /\ picked' = picked /\ Overflow(t) > 0
    BY <1>4 DEF StartPick, Live
  <2>2. Live' \subseteq seen'[t] \cup X
    BY <2>1, <1>a DEF Witness, SeesAllBut
  <2>3. picked'[t] = {} /\ Overflow(t)' > 0
    BY <2>1 DEF CleanInv, Clean, Walking, Overflow
  <2>4. Cardinality(picked'[t]) <= Overflow(t)'
    <3>1. Cardinality(picked'[t]) = 0
      BY <2>3, FS_EmptySet
    <3>2. Overflow(t)' = Cardinality(seen[t]) - Capacity
      BY <2>1 DEF Overflow
    <3>3. Cardinality(seen[t]) \in Nat
      BY <1>b, KeySets
    <3> QED
      BY <2>3, <3>1, <3>2, <3>3, Constants
  <2>5. SeesAllBut(X, t, picked[t])'
    BY <2>1, <1>a DEF SeesAllBut
  <2> QED
    BY <2>1, <2>2, <2>3, <2>4, <2>5 DEF Witness, PicksEnough
<1>5. CASE PickShard(t)
  <2>1. PICK some \in SUBSET LiveIn(shard[t]) :
          /\ Cardinality(some) <= StillToPick(t)
          /\ some = LiveIn(shard[t]) \/ Cardinality(some) = StillToPick(t)
          /\ picked' = [picked EXCEPT ![t] = @ \cup some]
    BY <1>5 DEF PickShard
  <2>2. /\ Live' = Live /\ pc[t] = "pick" /\ pc' = pc /\ seen' = seen
        /\ shard'[t] = shard[t] + 1 /\ StillToPick(t) > 0
        /\ picked'[t] = picked[t] \cup some
    BY <1>5, <2>1 DEF PickShard, Live
  <2>3. PicksEnough(t, X) /\ Overflow(t)' = Overflow(t)
    BY <2>2 DEF Witness, Overflow
  <2>4. some \in SUBSET Keys /\ some \subseteq Live /\ picked[t] \cap some = {}
    BY <2>3, <1>b DEF LiveIn, PicksEnough
  <2>5. /\ Cardinality(some) \in Nat /\ Cardinality(picked[t]) \in Nat
        /\ Cardinality(seen[t]) \in Nat
    BY <1>b, <2>4, KeySets
  <2>6. Cardinality(picked[t] \cup some) = Cardinality(picked[t]) + Cardinality(some)
    <3>1. IsFiniteSet(picked[t]) /\ IsFiniteSet(some)
      BY <1>b, <2>4, KeySets
    <3>2. Cardinality(picked[t] \cup some) = Cardinality(picked[t])
            + Cardinality(some) - Cardinality(picked[t] \cap some)
      BY <3>1, FS_Union
    <3>3. Cardinality(picked[t] \cap some) = 0
      BY <2>4, FS_EmptySet
    <3> QED
      BY <3>2, <3>3, <2>5
  <2>7. Cardinality(picked'[t]) <= Overflow(t)'
    BY <2>1, <2>2, <2>3, <2>5, <2>6, Constants DEF StillToPick, Overflow
  <2>8. Live' \subseteq seen'[t] \cup X /\ picked'[t] \subseteq seen'[t] \cup X
    BY <2>2, <2>3, <2>4 DEF PicksEnough
  <2>9. \A k \in picked'[t] : ShardOf[k] < shard'[t]
    <3>1. \A k \in picked[t] : ShardOf[k] < shard[t] /\ ShardOf[k] \in Int
      BY <2>3, <1>b, Constants DEF PicksEnough
    <3>2. \A k \in some : ShardOf[k] = shard[t]
      BY DEF LiveIn
    <3> QED
      BY <2>2, <3>1, <3>2, <1>b
  <2>10. CASE some = LiveIn(shard[t])
    <3>1. SeesAllBut(X, t, picked[t])
      BY <2>2, <2>3, <2>5, Constants DEF PicksEnough, StillToPick, Overflow
    <3>2. SeesAllBut(X, t, picked[t])'
      BY <2>2, <2>10, <3>1, <1>a, <1>b DEF SeesAllBut, LiveIn
    <3> QED
      BY <2>2, <2>7, <2>8, <2>9, <3>2 DEF Witness, PicksEnough
  <2>11. CASE Cardinality(some) = StillToPick(t)
    <3>1. Cardinality(picked'[t]) = Overflow(t)'
      BY <2>2, <2>3, <2>5, <2>6, <2>11, Constants DEF StillToPick, Overflow
    <3> QED
      BY <2>2, <2>7, <2>8, <2>9, <3>1 DEF Witness, PicksEnough
  <2> QED
    BY <2>1, <2>10, <2>11
<1>6. CASE StartTrim(t)
  <2>1. /\ Live' = Live /\ pc[t] = "pick" /\ pc'[t] = "trim" /\ picked' = picked
        /\ shard[t] = Shards \/ StillToPick(t) <= 0
    BY <1>6 DEF StartTrim, Live
  <2>2. PicksEnough(t, X)
    BY <2>1 DEF Witness
  <2> DEFINE Seen == seen[t] \cup X
  <2>3. /\ Seen \in SUBSET Keys /\ Live \ picked[t] \in SUBSET Keys
        /\ picked[t] \subseteq Seen /\ Live \subseteq Seen
    BY <1>b, <1>c, <2>2 DEF PicksEnough
  <2>4. /\ Cardinality(picked[t]) \in Nat /\ Cardinality(seen[t]) \in Nat
        /\ Cardinality(Live \ picked[t]) \in Nat /\ Cardinality(Seen) \in Nat
        /\ Cardinality(Seen) <= Cardinality(seen[t]) + Cardinality(X)
    BY <1>b, <1>c, <2>3, KeySets
  <2>5. CASE SeesAllBut(X, t, picked[t]) /\ shard[t] = Shards
    <3>1. Live \ picked[t] \in SUBSET X
      BY <2>5, <1>a DEF SeesAllBut
    <3>2. Cardinality(Live \ picked[t]) <= Cardinality(X)
      BY <3>1, <1>c, KeySets
    <3>3. Cardinality(Live \ picked[t]) <= Capacity + j
      BY <3>2, <2>4, <1>c, Constants
    <3> QED
      BY <2>1, <3>3 DEF Witness
  <2>6. CASE Cardinality(picked[t]) = Overflow(t)
    <3> HIDE DEF Seen
    <3>1. Cardinality(Seen \ picked[t])
            = Cardinality(Seen) - Cardinality(Seen \cap picked[t])
      <4>1. IsFiniteSet(Seen)
        BY <2>3, KeySets
      <4> QED
        BY <4>1, FS_Difference
    <3>2. Cardinality(Seen \cap picked[t]) = Cardinality(picked[t])
      <4>1. Seen \cap picked[t] = picked[t]
        BY <2>3
      <4> QED
        BY <4>1
    <3>3. Cardinality(Seen \ picked[t]) <= Capacity + j
      BY <2>4, <2>6, <3>1, <3>2, <1>c, Constants DEF Overflow
    <3>4. Cardinality(Live \ picked[t]) <= Cardinality(Seen \ picked[t])
      <4>1. Seen \ picked[t] \in SUBSET Keys
        BY <2>3
      <4>2. Live \ picked[t] \in SUBSET (Seen \ picked[t])
        BY <2>3
      <4> QED
        BY <4>1, <4>2, KeySets
    <3>5. Cardinality(Seen \ picked[t]) \in Nat
      BY <2>3, KeySets
    <3>6. Cardinality(Live \ picked[t]) <= Capacity + j
      BY <3>3, <3>4, <3>5, <2>4, Constants
    <3> QED
      BY <2>1, <3>6 DEF Witness
  <2>7. \/ SeesAllBut(X, t, picked[t]) /\ shard[t] = Shards
        \/ Cardinality(picked[t]) = Overflow(t)
    BY <2>1, <2>2, <2>4, Constants DEF PicksEnough, StillToPick, Overflow
  <2> QED
    BY <2>5, <2>6, <2>7
<1>7. ASSUME NEW k \in picked[t], TrimKey(t, k)
      PROVE  Witness(t, X, j)' \/ WithinLimit(j)'
  <2>1. /\ Live' = Live \ {k} /\ picked'[t] = picked[t] \ {k}
        /\ pc[t] = "trim" /\ pc'[t] \in {"trim", "findPointer"}
    BY <1>7, <1>b DEF TrimKey, Remove, Live
  <2>2. Live' \ picked'[t] = Live \ picked[t]
    BY <2>1
  <2> QED
    BY <2>1, <2>2 DEF Witness
<1>8. CASE FindPointer(t) \/ Unpoint(t)
  <2>1. /\ Live' = Live /\ picked' = picked
        /\ pc[t] \in {"findPointer", "unpoint"} /\ pc'[t] \in {"trim", "unpoint"}
    BY <1>8 DEF FindPointer, Unpoint, Live
  <2> QED
    BY <2>1 DEF Witness
<1>9. CASE Trimmed(t)
  <2>1. Live' = Live /\ picked[t] = {} /\ pc[t] = "trim"
    BY <1>9 DEF Trimmed, Live
  <2>2. Live \ picked[t] = Live
    BY <2>1
  <2> QED
    BY <2>1, <2>2 DEF Witness, WithinLimit
<1>10. \/ Point(t) \/ CountShard(t) \/ NoOverflow(t) \/ StartPick(t)
       \/ PickShard(t) \/ StartTrim(t) \/ FindPointer(t) \/ Unpoint(t)
       \/ Trimmed(t) \/ \E k \in picked[t] : TrimKey(t, k)
  BY DEF Witness, Step,
       ResolveVersion, ResolveCurrent, Hit, Miss, FindExpired, Evict,
       DropCurrent, FetchFails, VersionMismatch, Fetched, Insert,
       Invalidate, GatherShard, StartPurge, PurgeKey, Invalidated
<1> QED
  BY <1>1, <1>2, <1>3, <1>4, <1>5, <1>6, <1>7, <1>8, <1>9, <1>10

\* A trim under way is one of finitely many, and so are those near the limit.
LEMMA NearFinite ==
  ASSUME IsFiniteSet(Trimmers), NEW j \in Nat
  PROVE  /\ Near(j) \subseteq Trimmers /\ IsFiniteSet(Near(j))
         /\ Cardinality(Near(j)) \in Nat
         /\ Cardinality(Near(j)) <= Cardinality(Trimmers)
         /\ \A S \in SUBSET Near(j) : Cardinality(S) <= Cardinality(Near(j))
<1>1. Near(j) \subseteq Trimmers
  BY DEF Near, Witness, Trimmers, Trimming
<1> QED
  BY <1>1, FS_Subset, FS_CardinalityType

\* Only the insert of a key brings one more trim.
LEMMA TrimmersFinite ==
  ASSUME TInv, CapInv, NEW t \in Tasks, Step(t)
  PROVE  IsFiniteSet(Trimmers')
<1>1. Trimmers' \subseteq Trimmers \cup {t}
  BY OthersKeepLocals DEF Trimmers, SameLocals
<1>2. IsFiniteSet(Trimmers \cup {t})
  BY FS_AddElement DEF CapInv
<1> QED
  BY <1>1, <1>2, FS_Subset

LEMMA InsertCap ==
  ASSUME CInv, NEW t \in Tasks, Insert(t), IsFiniteSet(Trimmers)',
         NEW j \in Nat
  PROVE  WithinLimit(j)' \/ Cardinality(Near(j)') > j
<1> USE DEF CInv
<1>0. Step(t) /\ TInv'
  BY StepTInv DEF Step
<1>1. pc[t] = "insert" /\ pc'[t] = "point"
  BY DEF Insert, At, Goto, TInv, TypeOK
<1>2. PICK k \in Keys : Live' \subseteq Live \cup {k}
  <2>1. key[t] \in Keys
    BY <1>1, KeysOfType DEF TInv, TypeOK, AnswersRequest, Requests
  <2> QED
    BY <2>1 DEF Insert, Live, TInv, TypeOK
<1>3. {k} \in SUBSET Keys /\ Cardinality({k}) = 1
  BY <1>2, FS_Singleton
<1>4. t \in Near(j)'
  <2>1. {} \in UpTo(j)
    BY FS_EmptySet DEF UpTo
  <2>2. Witness(t, {}, j)'
    BY <1>1 DEF Witness
  <2>3. UpTo(j)' = UpTo(j)
    BY DEF UpTo
  <2> QED
    BY <2>1, <2>2, <2>3 DEF Near
<1>5. CASE j = 0
  <2>1. {t} \in SUBSET Near(j)' /\ Cardinality({t}) = 1
    BY <1>4, FS_Singleton
  <2>w. IsFiniteSet(Trimmers)' => /\ IsFiniteSet(Near(j)')
                                  /\ Cardinality(Near(j)') \in Nat
    <3>1. Near(j)' \subseteq Trimmers'
      BY DEF Near, Witness, Trimmers, Trimming
    <3> QED
      BY <3>1, FS_Subset, FS_CardinalityType
  <2>2. 1 <= Cardinality(Near(j)')
    BY <2>1, <2>w, FS_Subset
  <2> QED
    BY <1>5, <2>2, <2>w
<1>6. CASE j > 0
  <2> DEFINE i == j - 1
  <2>0. i \in Nat /\ i + 1 = j
    BY <1>6
  <2> HIDE DEF i
  <2>1. CASE WithinLimit(i)
    <3>1. Live \in SUBSET Keys /\ Live \cup {k} \in SUBSET Keys
      BY <1>2 DEF Live
    <3>2. Cardinality(Live') <= Cardinality(Live \cup {k})
      BY <1>2, <3>1, KeySets
    <3>3. Cardinality(Live \cup {k}) <= Cardinality(Live) + 1
      BY <1>3, <3>1, KeySets
    <3>4. /\ Cardinality(Live') \in Nat /\ Cardinality(Live) \in Nat
          /\ Cardinality(Live \cup {k}) \in Nat
      BY <1>2, <3>1, KeySets
    <3> QED
      BY <2>0, <2>1, <3>2, <3>3, <3>4, Constants DEF WithinLimit
  <2>2. CASE Cardinality(Near(i)) > i
    <3>1. Near(i) \cup {t} \subseteq Near(j)'
      <4>1. ASSUME NEW u \in Near(i)  PROVE u \in Near(j)'
        <5>1. PICK X \in UpTo(i) : Witness(u, X, i)
          BY DEF Near
        <5>2. u \in Tasks /\ u # t
          BY <1>1 DEF Near, Witness
        <5>3. SameLocals(u)
          BY <1>0, <5>2, OthersKeepLocals
        <5>4. X \in SUBSET Keys /\ X \cup {k} \in SUBSET Keys
          BY <1>2 DEF UpTo
        <5>5. Witness(u, X \cup {k}, i + Cardinality({k}))'
          BY <1>0, <1>2, <1>3, <2>0, <5>1, <5>2, <5>3, <5>4, WitnessKept
        <5>6. Cardinality(X \cup {k}) <= j
          <6>1. Cardinality(X \cup {k}) <= Cardinality(X) + 1
            BY <1>3, <5>4, KeySets
          <6>2. /\ Cardinality(X) <= i /\ Cardinality(X) \in Nat
                /\ Cardinality(X \cup {k}) \in Nat
            BY <5>4, KeySets DEF UpTo
          <6> QED
            BY <2>0, <6>1, <6>2
        <5>7. X \cup {k} \in UpTo(j)
          BY <5>4, <5>6 DEF UpTo
        <5>8. Witness(u, X \cup {k}, j)'
          BY <1>3, <2>0, <5>5
        <5> QED
          BY <5>2, <5>7, <5>8 DEF Near, UpTo
      <4> QED
        BY <1>4, <4>1
    <3>2. IsFiniteSet(Near(i)) /\ Cardinality(Near(i)) \in Nat
      BY <2>0, NearFinite DEF CapInv
    <3>3. t \notin Near(i)
      BY <1>1 DEF Near, Witness
    <3>4. Cardinality(Near(i) \cup {t}) = Cardinality(Near(i)) + 1
      BY <3>2, <3>3, FS_AddElement
    <3>5. IsFiniteSet(Near(j)') /\ Cardinality(Near(j)') \in Nat
      <4>1. Near(j)' \subseteq Trimmers'
        BY DEF Near, Witness, Trimmers, Trimming
      <4> QED
        BY <4>1, FS_Subset, FS_CardinalityType
    <3>6. Cardinality(Near(i) \cup {t}) <= Cardinality(Near(j)')
      BY <3>1, <3>5, FS_Subset
    <3> QED
      BY <2>0, <2>2, <3>2, <3>4, <3>5, <3>6
  <2> QED
    BY <2>0, <2>1, <2>2 DEF CapInv
<1> QED
  BY <1>5, <1>6

\* No other step adds an entry: the trims near the limit stay near it.
LEMMA OthersCap ==
  ASSUME TInv, TInv', CapInv, Live' \subseteq Live, IsFiniteSet(Trimmers)',
         NEW t, \A u \in Tasks \ {t} : SameLocals(u),
         \A j \in Nat : \A X \in UpTo(j) : t \in Tasks /\ Witness(t, X, j) =>
           Witness(t, X, j)' \/ WithinLimit(j)'
  PROVE  CapInv'
<1> SUFFICES ASSUME NEW j \in Nat
             PROVE  WithinLimit(j)' \/ Cardinality(Near(j)') > j
  BY DEF CapInv
<1>1. CASE WithinLimit(j) \/ WithinLimit(j)'
  BY <1>1, LimitKept
<1>2. CASE ~WithinLimit(j) /\ ~WithinLimit(j)'
  <2>1. Near(j) \subseteq Near(j)'
    <3> SUFFICES ASSUME NEW u \in Near(j) PROVE u \in Near(j)'
      OBVIOUS
    <3>1. PICK X \in UpTo(j) : Witness(u, X, j)
      BY DEF Near
    <3>2. u \in Tasks
      BY DEF Near
    <3>3. CASE u = t
      BY <1>2, <3>1, <3>2, <3>3 DEF Near, UpTo
    <3>4. CASE u # t
      <4>1. {} \in SUBSET Keys /\ Cardinality({}) = 0 /\ j + 0 = j
        BY FS_EmptySet
      <4>2. X \in SUBSET Keys
        BY DEF UpTo
      <4>3. Witness(u, X \cup {}, j + Cardinality({}))'
        BY <3>1, <3>2, <3>4, <4>1, <4>2, WitnessKept
      <4>4. Witness(u, X, j)'
        <5>1. X \cup {} = X
          OBVIOUS
        <5> QED
          BY <4>1, <4>3, <5>1
      <4> QED
        BY <3>2, <4>4 DEF Near, UpTo
    <3> QED
      BY <3>3, <3>4
  <2>2. Near(j)' \subseteq Trimmers'
    BY DEF Near, Witness, Trimmers, Trimming
  <2>3. IsFiniteSet(Near(j)') /\ Cardinality(Near(j)') \in Nat
    BY <2>2, FS_Subset, FS_CardinalityType
  <2>4. Cardinality(Near(j)) <= Cardinality(Near(j)')
    BY <2>1, <2>3, FS_Subset
  <2>5. Cardinality(Near(j)) \in Nat /\ Cardinality(Near(j)) > j
    BY <1>2, NearFinite DEF CapInv
  <2> QED
    BY <2>3, <2>4, <2>5
<1> QED
  BY <1>1, <1>2

LEMMA StepCap ==
  ASSUME CInv, NEW t \in Tasks, Step(t)
  PROVE  CapInv'
<1> USE DEF CInv
<1>0. TInv' /\ IsFiniteSet(Trimmers')
  BY StepTInv, TrimmersFinite
<1>1. CASE Insert(t)
  BY <1>0, <1>1, InsertCap DEF CapInv
<1>2. CASE ~Insert(t)
  <2>1. Live' \subseteq Live
    BY <1>2, OnlyInsertAdds
  <2>2. \A u \in Tasks \ {t} : SameLocals(u)
    BY OthersKeepLocals
  <2>3. \A j \in Nat : \A X \in UpTo(j) :
          Witness(t, X, j) => Witness(t, X, j)' \/ WithinLimit(j)'
    BY WitnessMoves
  <2> QED
    BY <1>0, <2>1, <2>2, <2>3, OthersCap
<1> QED
  BY <1>1, <1>2

LEMMA InitCInv == Init => CInv
<1> SUFFICES ASSUME Init PROVE CInv
  OBVIOUS
<1>1. Live = {} /\ Trimmers = {}
  BY DEF Init, Live, Trimmers, Trimming
<1>2. \A j \in Nat : WithinLimit(j)
  BY <1>1, FS_EmptySet, Constants DEF WithinLimit
<1>3. IsFiniteSet(Trimmers)
  BY <1>1, FS_EmptySet
<1> QED
  BY <1>2, <1>3, InitPInv DEF PInv, CInv, CapInv

LEMMA NextCInv == CInv /\ [Next]_vars => CInv'
<1> SUFFICES ASSUME CInv, [Next]_vars PROVE CInv'
  OBVIOUS
<1>1. TInv'
  BY NextTInv DEF CInv
<1>2. ASSUME NEW t \in Tasks, Step(t)  PROVE CInv'
  BY <1>1, <1>2, StepClean, StepCap DEF CInv
<1>3. ASSUME Tick \/ UNCHANGED vars  PROVE CInv'
  <2>1. /\ expires' = expires /\ pc' = pc /\ asked' = asked /\ shard' = shard
        /\ seen' = seen /\ picked' = picked
    BY <1>3 DEF Tick, vars, taskVars
  <2>2. CleanInv' /\ Live' = Live
    BY <2>1 DEF CInv, CleanInv, Clean, Live
  <2>4. \A j \in Nat : Near(j)' = Near(j) /\ WithinLimit(j)' = WithinLimit(j)
    BY <2>1, <2>2
    DEF Witness, SeesAllBut, PicksEnough, Overflow, Near, UpTo, WithinLimit
  <2>5. Trimmers' = Trimmers
    BY <2>1 DEF Trimmers
  <2>6. CapInv'
    BY <2>4, <2>5 DEF CInv, CapInv
  <2> QED
    BY <1>1, <2>2, <2>6 DEF CInv
<1> QED
  BY <1>2, <1>3 DEF Next

(* The trims need no lock for this: the cache exceeds its limit by at most  *)
(* one entry for each resolve that has inserted its key and not yet trimmed.*)
THEOREM OvershootHolds == Spec => []OvershootBounded
<1>1. CInv => OvershootBounded
  <2> SUFFICES ASSUME CInv PROVE OvershootBounded
    OBVIOUS
  <2> DEFINE n == Cardinality(Trimmers)
  <2>1. n \in Nat
    BY FS_CardinalityType DEF CInv, CapInv
  <2>2. Cardinality(Near(n)) <= n /\ Cardinality(Near(n)) \in Nat
    BY <2>1, NearFinite DEF CInv, CapInv
  <2>3. WithinLimit(n)
    BY <2>1, <2>2 DEF CInv, CapInv
  <2> QED
    BY <2>3 DEF WithinLimit, OvershootBounded, Trimmers
<1> QED
  BY <1>1, InitCInv, NextCInv, PTL DEF Spec

(* Whatever number of resolves, inserts and trims interleave, the cache is  *)
(* within its limit whenever no trim is pending.                            *)
THEOREM LimitHolds == Spec => []QuiescentCapacity
<1>1. CInv => QuiescentCapacity
  <2> SUFFICES ASSUME CInv, \A t \in Tasks : pc[t] \notin Trimming
               PROVE  Cardinality(Live) <= Capacity
    BY DEF QuiescentCapacity
  <2>1. Cardinality(Near(0)) = 0
    <3>1. Near(0) = {}
      BY DEF Near, Witness, Trimming
    <3> QED
      BY <3>1, FS_EmptySet
  <2>2. WithinLimit(0)
    BY <2>1 DEF CInv, CapInv
  <2>3. Cardinality(Live) \in Nat
    <3>1. Live \in SUBSET Keys
      BY DEF Live
    <3> QED
      BY <3>1, KeySets
  <2> QED
    BY <2>2, <2>3, Constants DEF WithinLimit
<1> QED
  BY <1>1, InitCInv, NextCInv, PTL DEF Spec
=============================================================================
