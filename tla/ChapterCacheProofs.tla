------------------------ MODULE ChapterCacheProofs ------------------------
(***************************************************************************)
(* Proofs about what stands between a request and the upstream: the caches *)
(* (ChapterStore), for any tasks, ttl, latency and run length, and the     *)
(* lock of a bucket (PrefetchDedup), for any number of requests.           *)
(***************************************************************************)
EXTENDS ChapterStore, PrefetchDedup, FiniteSetTheorems, SequenceTheorems, TLAPS

(***************************************************************************)
(* ChapterStore                                                            *)
(***************************************************************************)
\* Nobody acts on a reading of the clock older than MaxHold, and a chapter
\* built by cache_chapter carries that reading.
Held ==
  \A t \in Tasks :
    /\ Holding(t) => clock <= since[t] + MaxHold
    /\ pc[t] \in {"cache", "stamp"} => since[t] = at_hand[t]
    /\ pc[t] \in {"select", "fill", "put"} => since[t] = now[t]
    /\ pc[t] = "put" => at_hand[t] <= now[t] /\ now[t] <= at_hand[t] + MaxHold

\* A row is stamped at most MaxHold after its chapter was built, and read
\* while it is at most a ttl old.
RowAge == row.created <= row.made + MaxHold

ReadAge ==
  TtlMs > 0 => \A t \in Tasks :
    pc[t] = "fill" => now[t] <= at_hand[t] + MaxHold + TtlMs

MemAge ==
  TtlMs > 0 /\ mem # None => mem.until <= mem.made + 2 * (TtlMs + MaxHold)

InTime == clock <= MaxTime

SInv == InTime /\ TypeOK /\ Held /\ RowAge /\ ReadAge /\ MemAge

-----------------------------------------------------------------------------
LEMMA Constants == TtlMs \in Nat /\ MaxHold \in Nat /\ MaxTime \in Nat \ {0}
BY ChapterStoreAssumption, MaxTimeAssumption

LEMMA EntryFacts ==
  ASSUME NEW made \in 1 .. clock, clock \in Nat \ {0}, clock <= MaxTime
  PROVE  /\ Entry(made) \in [until : Nat, made : Nat]
         /\ Entry(made).made = made
         /\ Entry(made).until > 0 /\ made <= Entry(made).until
         /\ TtlMs > 0 => Entry(made).until = clock + TtlMs
BY Constants DEF Entry

LEMMA InitSInv == Init => SInv
<1> SUFFICES ASSUME Init PROVE SInv
  OBVIOUS
<1> QED
  BY Constants
  DEF Init, ClockInit, AllIdle, AllZero, NoBulk, SInv, InTime, TypeOK, Held,
      RowAge, ReadAge, MemAge, Holding, Places, Times, None, NoRow

LEMMA StepSInv ==
  ASSUME SInv, NEW t \in Tasks, Step(t)
  PROVE  SInv'
<1> USE Constants
    DEF SInv, InTime, TypeOK, Held, RowAge, ReadAge, MemAge, Holding, Places, Times,
        Goto
<1>1. CASE MemMiss(t)
  BY <1>1 DEF MemMiss, AfterMiss
<1>2. CASE MemFindExpired(t)
  BY <1>2 DEF MemFindExpired
<1>3. CASE Evict(t)
  BY <1>3 DEF Evict, AfterMiss, None
<1>4. CASE FoundPrefetched(t)
  BY <1>4 DEF FoundPrefetched, Return, Forget
<1>5. CASE AskRow(t)
  BY <1>5 DEF AskRow, ReadClock
<1>6. CASE RowHit(t)
  BY <1>6 DEF RowHit, RowExpired, NoRow
<1>7. CASE RowMiss(t)
  BY <1>7 DEF RowMiss, Forget
<1>8. CASE RowFindExpired(t)
  BY <1>8 DEF RowFindExpired
<1>9. CASE Delete(t)
  BY <1>9 DEF Delete, Forget, NoRow
<1>10. CASE Fill(t)
  BY <1>10, EntryFacts DEF Fill, Return, Forget
<1>11. CASE Prefetch(t)
  BY <1>11 DEF Prefetch, ReadClock
<1>12. CASE NotPrefetched(t)
  BY <1>12 DEF NotPrefetched
<1>13. CASE Batch(t)
  BY <1>13 DEF Batch, ReadClock
<1>14. CASE BatchFails(t)
  BY <1>14 DEF BatchFails, Return, Forget
<1>15. CASE CacheMem(t)
  <2>1. /\ pc[t] = "cache" /\ mem' = Entry(at_hand[t]) /\ clock' = clock
        /\ row' = row /\ table' = table
    BY <1>15 DEF CacheMem
  <2>2. at_hand[t] \in 1 .. clock /\ clock <= at_hand[t] + MaxHold
    BY <2>1
  <2>3. /\ mem' \in [until : Nat, made : Times] /\ mem'.until > 0
        /\ mem'.made \in 1 .. mem'.until
        /\ TtlMs > 0 => mem'.until <= mem'.made + 2 * (TtlMs + MaxHold)
    BY <2>1, <2>2, EntryFacts
  <2>4. CASE table
    BY <1>15, <2>1, <2>3, <2>4 DEF CacheMem
  <2>5. CASE ~table /\ bulk[t]
    BY <1>15, <2>1, <2>3, <2>5 DEF CacheMem, Cached, Forget
  <2>6. CASE ~table /\ ~bulk[t]
    <3>1. Return(t)
      BY <1>15, <2>6 DEF CacheMem, Cached
    <3>2. bulk' \in [Tasks -> BOOLEAN]
      BY <3>1 DEF Return
    <3> QED
      BY <2>1, <2>3, <3>1, <3>2 DEF Return, Forget
  <2> QED
    BY <2>4, <2>5, <2>6
<1>16. CASE StampRow(t)
  BY <1>16 DEF StampRow, ReadClock
<1>17. CASE Put(t)
  <2>1. /\ pc[t] = "put" /\ mem' = mem /\ clock' = clock /\ table' = table
        /\ row' \in {[created |-> now[t], made |-> at_hand[t]], row}
    BY <1>17 DEF Put
  <2>2. /\ at_hand[t] \in 1 .. now[t] /\ now[t] \in Times
        /\ now[t] <= at_hand[t] + MaxHold
    BY <2>1
  <2>3. /\ row' \in [created : Times, made : Times]
        /\ row' # NoRow => row'.made \in 1 .. row'.created
        /\ row'.created <= row'.made + MaxHold
    BY <2>1, <2>2
  <2>4. CASE bulk[t]
    BY <1>17, <2>1, <2>3, <2>4 DEF Put, Cached, Forget, NoRow
  <2>5. CASE ~bulk[t]
    <3>1. Return(t)
      BY <1>17, <2>5 DEF Put, Cached
    <3>2. bulk' \in [Tasks -> BOOLEAN]
      BY <3>1 DEF Return
    <3> QED
      BY <2>1, <2>3, <3>1, <3>2 DEF Return, Forget, NoRow
  <2> QED
    BY <2>4, <2>5
<1> QED
  BY <1>1, <1>2, <1>3, <1>4, <1>5, <1>6, <1>7, <1>8, <1>9, <1>10, <1>11,
     <1>12, <1>13, <1>14, <1>15, <1>16, <1>17
  DEF Step

LEMMA NextSInv == SInv /\ [Next]_vars => SInv'
<1> SUFFICES ASSUME SInv, [Next]_vars PROVE SInv'
  OBVIOUS
<1> USE Constants
    DEF SInv, InTime, TypeOK, Held, RowAge, ReadAge, MemAge, Holding, Places,
        Times, None, NoRow
<1>1. ASSUME NEW t \in Tasks, Step(t)  PROVE SInv'
  BY <1>1, StepSInv
<1>2. CASE Tick
  BY <1>2 DEF Tick, Advance, taskVars
<1>3. CASE Sweep
  BY <1>3 DEF Sweep, taskVars
<1>4. CASE Restart
  BY <1>4 DEF Restart, AllIdle, AllZero, NoBulk
<1>5. CASE UNCHANGED vars
  BY <1>5 DEF vars, taskVars
<1> QED
  BY <1>1, <1>2, <1>3, <1>4, <1>5 DEF Next

(* The types hold, and no cache holds a chapter from after its own insert.  *)
THEOREM TypeCorrect == Spec => []TypeOK
<1>1. SInv => TypeOK
  BY DEF SInv
<1> QED
  BY <1>1, InitSInv, NextSInv, PTL DEF Spec

(* Memory never answers with a chapter older than two ttls and the two      *)
(* latencies between build, write and refill, whatever restarts, removals   *)
(* and late writers come between.                                           *)
THEOREM ServesNothingOlder == Spec => []StalenessBounded
<1>1. SInv => StalenessBounded
  BY Constants
  DEF SInv, TypeOK, MemAge, StalenessBounded, MemValid, MemExpired, None, Times
<1> QED
  BY <1>1, InitSInv, NextSInv, PTL DEF Spec

(***************************************************************************)
(* PrefetchDedup: lines of waiters                                         *)
(***************************************************************************)
\* Whoever joins a line stands in it once, and behind the others ...
LEMMA Joins ==
  ASSUME NEW S, NEW q \in Seq(S), IsInjective(q), NEW x \in S, x \notin ToSet(q)
  PROVE  /\ Append(q, x) \in Seq(S) /\ IsInjective(Append(q, x))
         /\ ToSet(Append(q, x)) = ToSet(q) \cup {x}
         /\ Append(q, x) # <<>>
         /\ q # <<>> => Head(Append(q, x)) = Head(q)
         /\ q = <<>> => Head(Append(q, x)) = x
<1>1. /\ DOMAIN q = 1 .. Len(q) /\ Len(q) \in Nat
      /\ DOMAIN Append(q, x) = 1 .. Len(q) + 1
      /\ \A i \in 1 .. Len(q) : Append(q, x)[i] = q[i]
      /\ Append(q, x)[Len(q) + 1] = x
  OBVIOUS
<1>2. IsInjective(Append(q, x))
  BY <1>1 DEF IsInjective, ToSet
<1>3. ToSet(Append(q, x)) = ToSet(q) \cup {x}
  BY <1>1 DEF ToSet
<1>4. Append(q, x) \in Seq(S) /\ Append(q, x) # <<>>
  BY AppendProperties
<1>5. /\ q # <<>> => Head(Append(q, x)) = Head(q)
      /\ q = <<>> => Head(Append(q, x)) = x
  OBVIOUS
<1> QED
  BY <1>2, <1>3, <1>4, <1>5

\* ... the first leaves it ...
LEMMA FirstLeaves ==
  ASSUME NEW S, NEW q \in Seq(S), IsInjective(q), q # <<>>
  PROVE  /\ Tail(q) \in Seq(S) /\ IsInjective(Tail(q))
         /\ ToSet(Tail(q)) = ToSet(q) \ {Head(q)}
<1>1. /\ DOMAIN q = 1 .. Len(q) /\ Len(q) \in Nat \ {0}
      /\ Head(q) = q[1] /\ 1 \in DOMAIN q
      /\ DOMAIN Tail(q) = 1 .. Len(q) - 1
      /\ \A i \in 1 .. Len(q) - 1 : Tail(q)[i] = q[i + 1]
  OBVIOUS
<1>2. Tail(q) \in Seq(S)
  OBVIOUS
<1>3. IsInjective(Tail(q))
  BY <1>1 DEF IsInjective
<1>4. ASSUME NEW i \in DOMAIN q, i # 1
      PROVE  i - 1 \in DOMAIN Tail(q) /\ q[i] = Tail(q)[i - 1]
  <2>1. i - 1 \in 1 .. Len(q) - 1 /\ (i - 1) + 1 = i
    BY <1>1, <1>4
  <2> QED
    BY <1>1, <2>1
<1>5. ToSet(q) \ {Head(q)} \subseteq ToSet(Tail(q))
  <2> SUFFICES ASSUME NEW x \in ToSet(q), x # Head(q)
               PROVE  x \in ToSet(Tail(q))
    OBVIOUS
  <2>1. PICK i \in DOMAIN q : x = q[i]
    BY DEF ToSet
  <2>2. i - 1 \in DOMAIN Tail(q) /\ x = Tail(q)[i - 1]
    BY <1>1, <1>4, <2>1
  <2> QED
    BY <2>2 DEF ToSet
<1>6. ToSet(Tail(q)) \subseteq ToSet(q)
  BY <1>1 DEF ToSet
<1>7. Head(q) \notin ToSet(Tail(q))
  <2>1. ASSUME NEW i \in DOMAIN Tail(q), Tail(q)[i] = Head(q)
        PROVE  FALSE
    <3>1. i + 1 \in DOMAIN q /\ i + 1 # 1 /\ q[i + 1] = q[1]
      BY <1>1, <2>1
    <3> QED
      BY <1>1, <3>1 DEF IsInjective
  <2> QED
    BY <2>1 DEF ToSet
<1> QED
  BY <1>2, <1>3, <1>5, <1>6, <1>7

\* ... and anybody may, which lets nobody overtake another.
LEMMA OneLeaves ==
  ASSUME NEW S, NEW q \in Seq(S), IsInjective(q), NEW k \in DOMAIN q
  PROVE  /\ RemoveAt(q, k) \in Seq(S) /\ IsInjective(RemoveAt(q, k))
         /\ ToSet(RemoveAt(q, k)) = ToSet(q) \ {q[k]}
         /\ q[k] # Head(q) => /\ RemoveAt(q, k) # <<>>
                              /\ Head(RemoveAt(q, k)) = Head(q)
<1> DEFINE r == RemoveAt(q, k)
<1>1. /\ DOMAIN q = 1 .. Len(q) /\ Len(q) \in Nat /\ k \in 1 .. Len(q)
      /\ \A i \in 1 .. Len(q) : q[i] \in S
  OBVIOUS
<1> DEFINE front == SubSeq(q, 1, k - 1)
           back  == SubSeq(q, k + 1, Len(q))
<1>2. /\ front \in Seq(S) /\ Len(front) = k - 1
      /\ \A i \in 1 .. k - 1 : front[i] = q[i]
  <2>1. \A i \in 1 .. k - 1 : q[i] \in S
    BY <1>1
  <2>2. 1 \in Int /\ k - 1 \in Int
    BY <1>1
  <2>3. /\ front \in Seq(S)
        /\ Len(front) = IF 1 <= k - 1 THEN k - 1 - 1 + 1 ELSE 0
        /\ \A i \in 1 .. k - 1 - 1 + 1 : front[i] = q[1 + i - 1]
    BY <2>1, <2>2, SubSeqProperties
  <2> QED
    BY <1>1, <2>3
<1>3. /\ back \in Seq(S) /\ Len(back) = Len(q) - k
      /\ \A i \in 1 .. Len(q) - k : back[i] = q[k + i]
  <2>1. \A i \in k + 1 .. Len(q) : q[i] \in S
    BY <1>1
  <2>2. k + 1 \in Int /\ Len(q) \in Int
    BY <1>1
  <2>3. /\ back \in Seq(S)
        /\ Len(back) = IF k + 1 <= Len(q) THEN Len(q) - (k + 1) + 1 ELSE 0
        /\ \A i \in 1 .. Len(q) - (k + 1) + 1 : back[i] = q[k + 1 + i - 1]
    BY <2>1, <2>2, SubSeqProperties
  <2>4. Len(back) = Len(q) - k
    BY <1>1, <2>3
  <2>5. ASSUME NEW i \in 1 .. Len(q) - k
        PROVE  back[i] = q[k + i]
    <3>1. i \in 1 .. Len(q) - (k + 1) + 1 /\ k + 1 + i - 1 = k + i
      BY <1>1
    <3> HIDE DEF back
    <3> QED
      BY <2>3, <3>1
  <2> QED
    BY <2>3, <2>4, <2>5
<1>4. /\ r \in Seq(S) /\ Len(r) = Len(q) - 1
      /\ \A i \in 1 .. Len(q) - 1 : r[i] = IF i < k THEN q[i] ELSE q[i + 1]
  <2>0. r = front \o back
    BY DEF RemoveAt
  <2> HIDE DEF r, front, back
  <2>1. /\ r \in Seq(S) /\ Len(r) = Len(front) + Len(back)
        /\ \A i \in 1 .. Len(front) + Len(back) :
             r[i] = IF i <= Len(front) THEN front[i] ELSE back[i - Len(front)]
    BY <1>2, <1>3, <2>0, ConcatProperties
  <2>2. Len(front) + Len(back) = Len(q) - 1
    BY <1>1, <1>2, <1>3
  <2>3. ASSUME NEW i \in 1 .. Len(q) - 1
        PROVE  r[i] = IF i < k THEN q[i] ELSE q[i + 1]
    <3>1. r[i] = IF i <= k - 1 THEN front[i] ELSE back[i - (k - 1)]
      BY <1>2, <2>1, <2>2
    <3>2. CASE i < k
      <4>1. i <= k - 1 /\ i \in 1 .. k - 1
        BY <1>1, <3>2
      <4> QED
        BY <1>2, <3>1, <3>2, <4>1
    <3>3. CASE ~(i < k)
      <4>1. /\ i - (k - 1) \in 1 .. Len(q) - k /\ k + (i - (k - 1)) = i + 1
            /\ ~(i <= k - 1)
        BY <1>1, <3>3
      <4>2. back[i - (k - 1)] = q[k + (i - (k - 1))]
        BY <1>3, <4>1
      <4> QED
        BY <3>1, <3>3, <4>1, <4>2
    <3> QED
      BY <3>2, <3>3
  <2> QED
    BY <2>1, <2>2, <2>3
<1>5. DOMAIN r = 1 .. Len(q) - 1
  BY <1>1, <1>4
<1>6. IsInjective(r)
  <2> SUFFICES ASSUME NEW i \in DOMAIN r, NEW j \in DOMAIN r, r[i] = r[j]
               PROVE  i = j
    BY DEF IsInjective
  <2> DEFINE from(n) == IF n < k THEN n ELSE n + 1
  <2>1. /\ from(i) \in DOMAIN q /\ from(j) \in DOMAIN q
        /\ r[i] = q[from(i)] /\ r[j] = q[from(j)]
    BY <1>1, <1>4, <1>5
  <2>2. from(i) = from(j)
    BY <2>1 DEF IsInjective
  <2> QED
    BY <1>1, <1>5, <2>2
<1>7. ToSet(r) = ToSet(q) \ {q[k]}
  <2>1. ASSUME NEW i \in DOMAIN r
        PROVE  r[i] \in ToSet(q) \ {q[k]}
    <3> HIDE DEF r
    <3>1. CASE i < k
      BY <1>1, <1>4, <1>5, <3>1 DEF ToSet, IsInjective
    <3>2. CASE ~(i < k)
      <4>1. i + 1 \in DOMAIN q /\ i + 1 # k /\ r[i] = q[i + 1]
        BY <1>1, <1>4, <1>5, <3>2
      <4> QED
        BY <4>1 DEF ToSet, IsInjective
    <3> QED
      BY <3>1, <3>2
  <2>2. ASSUME NEW n \in DOMAIN q, q[n] # q[k]
        PROVE  \E i \in DOMAIN r : r[i] = q[n]
    <3>1. CASE n < k
      BY <1>1, <1>4, <1>5, <2>2, <3>1
    <3>2. CASE n > k
      <4>1. n - 1 \in DOMAIN r /\ ~(n - 1 < k) /\ (n - 1) + 1 = n
        BY <1>1, <1>5, <3>2
      <4> QED
        BY <1>4, <1>5, <4>1
    <3> QED
      BY <1>1, <2>2, <3>1, <3>2
  <2> QED
    BY <2>1, <2>2 DEF ToSet
<1>8. ASSUME q[k] # Head(q)
      PROVE  r # <<>> /\ Head(r) = Head(q)
  <2>1. Head(q) = q[1] /\ 1 < k
    BY <1>1, <1>8
  <2>2. 1 \in DOMAIN r /\ r[1] = q[1]
    BY <1>1, <1>4, <1>5, <2>1
  <2> QED
    BY <1>4, <1>5, <2>1, <2>2
<1> QED
  BY <1>4, <1>6, <1>7, <1>8

\* Once is what the cardinality of one's places says.
LEMMA StandsOnce ==
  ASSUME NEW S, NEW q \in Seq(S), IsInjective(q), NEW x
  PROVE  Cardinality({i \in DOMAIN q : q[i] = x}) = IF x \in ToSet(q) THEN 1 ELSE 0
<1>1. CASE x \in ToSet(q)
  <2>1. PICK i \in DOMAIN q : q[i] = x
    BY <1>1 DEF ToSet
  <2>2. {j \in DOMAIN q : q[j] = x} = {i}
    BY <2>1 DEF IsInjective
  <2> QED
    BY <1>1, <2>2, FS_Singleton
<1>2. CASE x \notin ToSet(q)
  <2>1. {j \in DOMAIN q : q[j] = x} = {}
    BY <1>2 DEF ToSet
  <2> QED
    BY <1>2, <2>1, FS_EmptySet
<1> QED
  BY <1>1, <1>2

-----------------------------------------------------------------------------
Standing(l) == {t \in Requests : InLine(t) /\ mine[t] = l}

\* In the line of a lock stand, once each, those who wait for it or hold it.
LinesKept == \A l \in Locks : ToSet(line[l]) = Standing(l) /\ IsInjective(line[l])

\* A section that the lock guards is the holder's.
HoldersFirst ==
  \A t \in Requests :
    section[t] \in {"working", "removing", "leaving"} => IsHolder(t)

\* Until a task slips in between a count and its removal, all who are not on
\* their way out have the lock in the map, and one who removes it is alone.
OneLock ==
  ~raced => \A t \in Requests :
    /\ section[t] \in {"entered", "queued", "working", "removing"} => mine[t] = mapped
    /\ section[t] = "removing" => HeldBy(mine[t]) = {t}

DedupTyped ==
  /\ mapped \in Locks \cup {NoLock}
  /\ mine \in [Requests -> Locks \cup {NoLock}]
  /\ section \in [Requests -> Sections]
  /\ want \in [Requests -> Chapters \cup {NoChapter}]
  /\ stored \in SUBSET Chapters
  /\ raced \in BOOLEAN
  /\ line \in [Locks -> Seq(Requests)]
  /\ \A t \in Requests : section[t] = "idle" <=> mine[t] = NoLock

DedupInv == DedupTyped /\ LinesKept /\ HoldersFirst /\ OneLock

\* There is always a lock for one who enters: fewer are held than there are.
LEMMA LockIsFree ==
  ASSUME DedupTyped, mapped = NoLock
  PROVE  NewLock \in Locks /\ Free(NewLock)
<1> DEFINE used == {mine[t] : t \in Requests}
           n == Cardinality(Requests)
<1>1. IsFiniteSet(Requests) /\ n \in Nat
  BY PrefetchDedupAssumption, FS_CardinalityType
<1>2. IsFiniteSet(used) /\ Cardinality(used) <= n
  <2>1. mine \in Surjection(Requests, used)
    BY DEF DedupTyped, Surjection
  <2> QED
    BY <1>1, <2>1, FS_Surjection
<1>3. \E l \in Locks : l \notin used
  <2> SUFFICES ASSUME \A l \in Locks : l \in used PROVE FALSE
    OBVIOUS
  <2>1. Locks \in SUBSET used
    OBVIOUS
  <2>2. Cardinality(Locks) <= Cardinality(used)
    BY <1>2, <2>1, FS_Subset
  <2>3. Cardinality(Locks) = n + 1
    <3> HIDE DEF n
    <3>1. 1 \in Int /\ n + 1 \in Int /\ ~(1 > n + 1) /\ n + 1 - 1 + 1 = n + 1
      BY <1>1
    <3>2. Cardinality(1 .. n + 1) = n + 1
      BY <3>1, FS_Interval
    <3> QED
      BY <3>2 DEF Locks, n
  <2>4. Cardinality(used) \in Nat
    BY <1>2, FS_CardinalityType
  <2> QED
    BY <1>1, <1>2, <2>2, <2>3, <2>4
<1>4. \E l \in Locks : Free(l)
  BY <1>3, PrefetchDedupAssumption DEF Free, HeldBy
<1> QED
  BY <1>4 DEF NewLock

LEMMA InitDedup == DedupInit => DedupInv
<1> SUFFICES ASSUME DedupInit PROVE DedupInv
  OBVIOUS
<1> USE DEF DedupInit
<1>1. DedupTyped
  <2>1. line \in [Locks -> Seq(Requests)]
    OBVIOUS
  <2> QED
    BY <2>1, PrefetchDedupAssumption DEF DedupTyped, Sections
<1>2. LinesKept
  BY DEF LinesKept, Standing, InLine, ToSet, IsInjective
<1>3. HoldersFirst /\ OneLock
  BY DEF HoldersFirst, OneLock
<1> QED
  BY <1>1, <1>2, <1>3 DEF DedupInv

\* Who stays where he is in an unchanged line keeps his place in it.
LEMMA LineUnchanged ==
  ASSUME DedupTyped, LinesKept, UNCHANGED <<line, mine>>,
         \A t \in Requests : InLine(t)' <=> InLine(t)
  PROVE  LinesKept'
BY DEF LinesKept, Standing

LEMMA EnterKeeps ==
  ASSUME DedupInv, NEW t \in Requests, NEW c \in Chapters, Enter(t, c)
  PROVE  DedupInv'
<1> USE DEF DedupInv, Enter, MoveTo
<1>1. /\ mapped' \in Locks /\ mine'[t] = mapped' /\ section[t] = "idle"
      /\ mapped # NoLock => mapped' = mapped
  BY LockIsFree DEF DedupTyped
<1>2. /\ \A u \in Requests \ {t} : mine'[u] = mine[u] /\ section'[u] = section[u]
      /\ section'[t] = "entered" /\ line' = line
  BY DEF DedupTyped
<1>3. DedupTyped'
  BY <1>1, <1>2, PrefetchDedupAssumption DEF DedupTyped, Sections
<1>4. LinesKept'
  <2>1. ~InLine(t) /\ ~InLine(t)' /\ \A u \in Requests \ {t} : InLine(u)' <=> InLine(u)
    BY <1>1, <1>2 DEF InLine
  <2>2. \A l \in Locks : Standing(l)' = Standing(l)
    BY <1>2, <2>1 DEF Standing
  <2> QED
    BY <1>2, <2>2 DEF LinesKept
<1>5. HoldersFirst'
  BY <1>1, <1>2 DEF HoldersFirst, IsHolder
<1>6. OneLock'
  <2> SUFFICES ASSUME ~raced' PROVE OneLock'
    BY DEF OneLock
  <2>1. ~raced /\ \A u \in Requests : section[u] # "removing"
    OBVIOUS
  <2>2. \A u \in Requests \ {t} :
          section[u] \in {"entered", "queued", "working"} => mine[u] = mapped'
    BY <1>1, <2>1 DEF OneLock, DedupTyped
  <2> QED
    BY <1>1, <1>2, <2>1, <2>2 DEF OneLock
<1> QED
  BY <1>3, <1>4, <1>5, <1>6

LEMMA EnqueueKeeps ==
  ASSUME DedupInv, NEW t \in Requests, Enqueue(t)
  PROVE  DedupInv'
<1> USE DEF DedupInv, Enqueue, MoveTo
<1> DEFINE m == mine[t]
<1>1. /\ m \in Locks /\ section[t] = "entered" /\ section'[t] = "queued"
      /\ \A u \in Requests \ {t} : section'[u] = section[u]
      /\ line[m] \in Seq(Requests) /\ line'[m] = Append(line[m], t)
      /\ \A l \in Locks \ {m} : line'[l] = line[l]
      /\ mine' = mine
  BY DEF DedupTyped
<1>2. t \notin ToSet(line[m]) /\ IsInjective(line[m])
  BY <1>1 DEF LinesKept, Standing, InLine
<1>3. /\ line'[m] \in Seq(Requests) /\ IsInjective(line'[m])
      /\ ToSet(line'[m]) = ToSet(line[m]) \cup {t}
      /\ line[m] # <<>> => line'[m] # <<>> /\ Head(line'[m]) = Head(line[m])
  BY <1>1, <1>2, Joins
<1>4. DedupTyped'
  BY <1>1, <1>3 DEF DedupTyped, Sections
<1>5. LinesKept'
  <2>1. ~InLine(t) /\ InLine(t)' /\ \A u \in Requests \ {t} : InLine(u)' <=> InLine(u)
    BY <1>1 DEF InLine
  <2>2. \A l \in Locks \ {m} : Standing(l)' = Standing(l)
    BY <1>1, <2>1 DEF Standing
  <2>3. Standing(m)' = Standing(m) \cup {t}
    BY <1>1, <2>1 DEF Standing
  <2>4. ToSet(line'[m]) = Standing(m)' /\ IsInjective(line'[m])
    BY <1>1, <1>3, <2>3 DEF LinesKept
  <2>5. \A l \in Locks \ {m} : ToSet(line'[l]) = Standing(l)' /\ IsInjective(line'[l])
    BY <1>1, <2>2 DEF LinesKept
  <2> QED
    BY <2>4, <2>5 DEF LinesKept
<1>6. HoldersFirst'
  <2> SUFFICES ASSUME NEW u \in Requests,
                      section'[u] \in {"working", "removing", "leaving"}
               PROVE  IsHolder(u)'
    BY DEF HoldersFirst
  <2>1. u # t /\ IsHolder(u)
    BY <1>1 DEF HoldersFirst
  <2>2. mine[u] \in Locks
    BY <1>1, <2>1 DEF DedupTyped
  <2> QED
    BY <1>1, <1>3, <2>1, <2>2 DEF IsHolder
<1>7. OneLock'
  BY <1>1 DEF OneLock, HeldBy
<1> QED
  BY <1>4, <1>5, <1>6, <1>7

LEMMA GuardedKeeps ==
  ASSUME DedupInv, NEW t \in Requests, FoundCached(t) \/ StartWork(t) \/ CountRefs(t)
  PROVE  DedupInv'
<1> USE DEF DedupInv, MoveTo
<1>1. /\ IsHolder(t) /\ section[t] \in {"queued", "working"}
      /\ section'[t] \in {"working", "removing", "leaving"}
      /\ section'[t] = "removing" =>
           section[t] = "working" /\ StrongCount(mine[t]) = 2
      /\ \A u \in Requests \ {t} : section'[u] = section[u]
      /\ UNCHANGED <<mapped, line, mine, want, stored, raced>>
  BY DEF FoundCached, StartWork, CountRefs, DedupTyped, HoldersFirst
<1>2. DedupTyped'
  <2>1. section' \in [Requests -> Sections]
    BY DEF FoundCached, StartWork, CountRefs, DedupTyped, Sections
  <2> QED
    BY <1>1, <2>1 DEF DedupTyped
<1>3. LinesKept'
  <2>1. \A u \in Requests : InLine(u)' <=> InLine(u)
    BY <1>1 DEF InLine
  <2> QED
    BY <1>1, <2>1, LineUnchanged
<1>4. HoldersFirst'
  BY <1>1 DEF HoldersFirst, IsHolder
<1>5. OneLock'
  <2> SUFFICES ASSUME ~raced, NEW u \in Requests
               PROVE  /\ section'[u] \in {"entered", "queued", "working", "removing"} =>
                           mine[u] = mapped
                      /\ section'[u] = "removing" => HeldBy(mine[u]) = {u}
    BY <1>1 DEF OneLock, HeldBy
  <2>1. CASE u # t
    BY <1>1, <2>1 DEF OneLock
  <2>2. CASE u = t
    <3>1. mine[t] = mapped
      BY <1>1, <2>2 DEF OneLock
    <3>2. ASSUME section'[t] = "removing" PROVE HeldBy(mine[t]) = {t}
      <4>1. Cardinality(HeldBy(mine[t])) + 1 = 2
        BY <1>1, <3>1, <3>2 DEF StrongCount
      <4>2. IsFiniteSet(HeldBy(mine[t]))
        BY PrefetchDedupAssumption, FS_Subset DEF HeldBy
      <4>3. Cardinality(HeldBy(mine[t])) = 1
        BY <4>1, <4>2, FS_CardinalityType
      <4>4. PICK x : HeldBy(mine[t]) = {x}
        BY <4>2, <4>3, FS_Singleton
      <4>5. t \in HeldBy(mine[t])
        BY DEF HeldBy
      <4> QED
        BY <4>4, <4>5
    <3> QED
      BY <2>2, <3>1, <3>2
  <2> QED
    BY <2>1, <2>2
<1> QED
  BY <1>2, <1>3, <1>4, <1>5

LEMMA UnmapKeeps ==
  ASSUME DedupInv, NEW t \in Requests, Unmap(t)
  PROVE  DedupInv'
<1> USE DEF DedupInv, Unmap, MoveTo
<1>1. /\ section[t] = "removing" /\ section'[t] = "leaving" /\ mapped' = NoLock
      /\ \A u \in Requests \ {t} : section'[u] = section[u]
      /\ UNCHANGED <<line, mine, want, stored, raced>>
  BY DEF DedupTyped
<1>2. DedupTyped'
  BY <1>1 DEF DedupTyped, Sections
<1>3. LinesKept'
  <2>1. \A u \in Requests : InLine(u)' <=> InLine(u)
    BY <1>1 DEF InLine
  <2> QED
    BY <1>1, <2>1, LineUnchanged
<1>4. HoldersFirst'
  BY <1>1 DEF HoldersFirst, IsHolder
<1>5. OneLock'
  <2> SUFFICES ASSUME ~raced PROVE OneLock'
    BY <1>1 DEF OneLock
  <2>1. mine[t] = mapped /\ HeldBy(mine[t]) = {t}
    BY <1>1 DEF OneLock
  <2>2. \A u \in Requests \ {t} : mine[u] # mapped
    BY <2>1 DEF HeldBy
  <2>3. \A u \in Requests \ {t} :
          section[u] \notin {"entered", "queued", "working", "removing"}
    BY <2>2 DEF OneLock
  <2> QED
    BY <1>1, <2>3 DEF OneLock
<1> QED
  BY <1>2, <1>3, <1>4, <1>5

\* Release and Cancel: t leaves the line and keeps its lock for a moment.
LEMMA LeavingKeeps ==
  ASSUME DedupInv, NEW t \in Requests, InLine(t),
         section' = [section EXCEPT ![t] = "dropping"],
         UNCHANGED <<mapped, mine, want, stored, raced>>,
         NEW q \in Seq(Requests), line' = [line EXCEPT ![mine[t]] = q],
         IsInjective(q), ToSet(q) = ToSet(line[mine[t]]) \ {t},
         t # Head(line[mine[t]]) => q # <<>> /\ Head(q) = Head(line[mine[t]])
  PROVE  DedupInv'
<1> USE DEF DedupInv
<1> DEFINE m == mine[t]
<1>1. /\ m \in Locks /\ section'[t] = "dropping" /\ section[t] # "idle"
      /\ \A u \in Requests \ {t} : section'[u] = section[u]
      /\ line'[m] = q /\ \A l \in Locks \ {m} : line'[l] = line[l]
      /\ mine' = mine /\ line' \in [Locks -> Seq(Requests)]
  BY DEF DedupTyped, InLine
<1>2. DedupTyped'
  BY <1>1 DEF DedupTyped, Sections
<1>3. LinesKept'
  <2>1. ~InLine(t)' /\ \A u \in Requests \ {t} : InLine(u)' <=> InLine(u)
    BY <1>1 DEF InLine
  <2>2. \A l \in Locks \ {m} : Standing(l)' = Standing(l)
    BY <1>1, <2>1 DEF Standing
  <2>3. Standing(m)' = Standing(m) \ {t}
    BY <1>1, <2>1 DEF Standing
  <2> QED
    BY <1>1, <2>2, <2>3 DEF LinesKept
<1>4. HoldersFirst'
  <2> SUFFICES ASSUME NEW u \in Requests,
                      section'[u] \in {"working", "removing", "leaving"}
               PROVE  IsHolder(u)'
    BY DEF HoldersFirst
  <2>1. u # t /\ IsHolder(u)
    BY <1>1 DEF HoldersFirst
  <2>2. mine[u] \in Locks
    BY <1>1, <2>1 DEF DedupTyped
  <2>3. CASE mine[u] = m
    BY <1>1, <2>1, <2>3 DEF IsHolder
  <2>4. CASE mine[u] # m
    BY <1>1, <2>1, <2>2, <2>4 DEF IsHolder
  <2> QED
    BY <2>3, <2>4
<1>5. OneLock'
  BY <1>1 DEF OneLock, HeldBy
<1> QED
  BY <1>2, <1>3, <1>4, <1>5

LEMMA ReleaseKeeps ==
  ASSUME DedupInv, NEW t \in Requests, Release(t)
  PROVE  DedupInv'
<1> DEFINE q == line[mine[t]]
<1>1. section[t] = "leaving" /\ IsHolder(t) /\ mine[t] \in Locks
  BY DEF Release, DedupInv, HoldersFirst, DedupTyped
<1>2. q \in Seq(Requests) /\ q # <<>> /\ Head(q) = t /\ IsInjective(q)
  BY <1>1 DEF IsHolder, DedupInv, DedupTyped, LinesKept
<1>3. /\ Tail(q) \in Seq(Requests) /\ IsInjective(Tail(q))
      /\ ToSet(Tail(q)) = ToSet(q) \ {t}
  BY <1>2, FirstLeaves
<1>4. InLine(t)
  BY <1>1 DEF InLine
<1>5. line' = [line EXCEPT ![mine[t]] = Tail(q)]
  BY DEF Release
<1> QED
  BY <1>2, <1>3, <1>4, <1>5, LeavingKeeps DEF Release, MoveTo

LEMMA CancelKeeps ==
  ASSUME DedupInv, NEW t \in Requests, Cancel(t)
  PROVE  DedupInv'
<1> DEFINE q == line[mine[t]]
<1>1. section[t] \in {"queued", "working"} /\ mine[t] \in Locks
  BY DEF Cancel, DedupInv, DedupTyped
<1>2. q \in Seq(Requests) /\ IsInjective(q)
  BY <1>1 DEF DedupInv, DedupTyped, LinesKept
<1>3. PICK i \in DOMAIN q : q[i] = t /\ line' = [line EXCEPT ![mine[t]] = RemoveAt(q, i)]
  BY DEF Cancel
<1>4. /\ RemoveAt(q, i) \in Seq(Requests) /\ IsInjective(RemoveAt(q, i))
      /\ ToSet(RemoveAt(q, i)) = ToSet(q) \ {t}
      /\ t # Head(q) => RemoveAt(q, i) # <<>> /\ Head(RemoveAt(q, i)) = Head(q)
  BY <1>2, <1>3, OneLeaves
<1>5. InLine(t)
  BY <1>1 DEF InLine
<1> QED
  BY <1>3, <1>4, <1>5, LeavingKeeps DEF Cancel, MoveTo

LEMMA DropKeeps ==
  ASSUME DedupInv, NEW t \in Requests, Drop(t)
  PROVE  DedupInv'
<1> USE DEF DedupInv, Drop, MoveTo
<1>1. /\ section[t] = "dropping" /\ section'[t] = "idle" /\ mine'[t] = NoLock
      /\ \A u \in Requests \ {t} : section'[u] = section[u] /\ mine'[u] = mine[u]
      /\ UNCHANGED <<mapped, line, stored>>
      /\ raced' = (raced /\ \E u \in Requests \ {t} : mine[u] # NoLock)
  BY DEF DedupTyped
<1>2. DedupTyped'
  BY <1>1 DEF DedupTyped, Sections
<1>3. LinesKept'
  <2>1. ~InLine(t) /\ ~InLine(t)' /\ \A u \in Requests \ {t} : InLine(u)' <=> InLine(u)
    BY <1>1 DEF InLine
  <2>2. \A l \in Locks : Standing(l)' = Standing(l)
    BY <1>1, <2>1 DEF Standing
  <2> QED
    BY <1>1, <2>2 DEF LinesKept
<1>4. HoldersFirst'
  BY <1>1 DEF HoldersFirst, IsHolder
<1>5. OneLock'
  <2> SUFFICES ASSUME ~raced' PROVE OneLock'
    BY DEF OneLock
  <2>1. CASE raced
    <3>1. \A u \in Requests \ {t} : section[u] = "idle"
      BY <1>1, <2>1 DEF DedupTyped
    <3> QED
      BY <1>1, <3>1 DEF OneLock
  <2>2. CASE ~raced
    <3>1. \A u \in Requests \ {t} :
            /\ section[u] \in {"entered", "queued", "working", "removing"} =>
                 mine[u] = mapped
            /\ section[u] = "removing" => HeldBy(mine[u]) = {u}
      BY <2>2 DEF OneLock
    <3>2. ASSUME NEW u \in Requests \ {t}, section[u] = "removing"
          PROVE  HeldBy(mine[u])' = {u}
      <4>1. HeldBy(mine[u]) = {u} /\ mine[u] # NoLock
        BY <3>1, <3>2 DEF DedupTyped
      <4> QED
        BY <1>1, <4>1 DEF HeldBy
    <3> QED
      BY <1>1, <3>1, <3>2 DEF OneLock
  <2> QED
    BY <2>1, <2>2
<1> QED
  BY <1>2, <1>3, <1>4, <1>5

LEMMA NextDedup == DedupInv /\ [DedupNext]_dedupVars => DedupInv'
<1> SUFFICES ASSUME DedupInv, [DedupNext]_dedupVars PROVE DedupInv'
  OBVIOUS
<1>1. CASE UNCHANGED dedupVars
  BY <1>1 DEF dedupVars, DedupInv, DedupTyped, LinesKept, Standing, InLine,
              HoldersFirst, IsHolder, OneLock, HeldBy
<1>2. ASSUME NEW t \in Requests, Proceed(t) PROVE DedupInv'
  BY <1>2, EnqueueKeeps, GuardedKeeps, UnmapKeeps, ReleaseKeeps, DropKeeps
  DEF Proceed
<1>3. ASSUME NEW S \in SUBSET Chapters, stored' = S,
             UNCHANGED <<mapped, line, mine, section, want, raced>>
      PROVE  DedupInv'
  BY <1>3 DEF DedupInv, DedupTyped, LinesKept, Standing, InLine, HoldersFirst,
              IsHolder, OneLock, HeldBy
<1>4. ASSUME NEW t \in Requests, NEW c \in Chapters, Store(t, c) PROVE DedupInv'
  <2>1. stored \cup {c} \in SUBSET Chapters
    BY DEF DedupInv, DedupTyped
  <2> QED
    BY <1>3, <1>4, <2>1 DEF Store
<1>5. ASSUME NEW c \in Chapters, Expire(c) PROVE DedupInv'
  <2>1. stored \ {c} \in SUBSET Chapters
    BY DEF DedupInv, DedupTyped
  <2> QED
    BY <1>3, <1>5, <2>1 DEF Expire
<1> QED
  BY <1>1, <1>2, <1>4, <1>5, EnterKeeps, CancelKeeps DEF DedupNext

LEMMA DedupAlways == DedupSpec => []DedupInv
BY InitDedup, NextDedup, PTL DEF DedupSpec

(* Who holds which lock of a bucket and stands where in its line, for any   *)
(* number of tasks and whatever order they enter, are cancelled, remove and *)
(* release in (prefetch_and_cache_dedup).                                   *)
THEOREM LinesAreRight == DedupSpec => []DedupTypeOK
<1>1. DedupInv => DedupTypeOK
  <2> SUFFICES ASSUME DedupInv PROVE DedupTypeOK
    OBVIOUS
  <2>1. ASSUME NEW l \in Locks, NEW t \in Requests
        PROVE  Cardinality({i \in DOMAIN line[l] : line[l][i] = t})
                 = IF InLine(t) /\ mine[t] = l THEN 1 ELSE 0
    <3>1. line[l] \in Seq(Requests) /\ IsInjective(line[l])
      BY DEF DedupInv, DedupTyped, LinesKept
    <3>2. t \in ToSet(line[l]) <=> InLine(t) /\ mine[t] = l
      BY DEF DedupInv, LinesKept, Standing
    <3> QED
      BY <3>1, <3>2, StandsOnce
  <2> QED
    BY <2>1 DEF DedupInv, DedupTyped, DedupTypeOK
<1> QED
  BY <1>1, DedupAlways, PTL

(* No two tasks fetch one bucket at the same time, unless one has entered   *)
(* between another's strong_count and its remove since the bucket was last  *)
(* quiet, for any number of tasks (upstream.rs:438-441).                    *)
THEOREM FetchesOnce == DedupSpec => []OneFetchUnlessRaced
<1>1. DedupInv => OneFetchUnlessRaced
  BY DEF DedupInv, OneLock, HoldersFirst, IsHolder, OneFetchUnlessRaced
<1> QED
  BY <1>1, DedupAlways, PTL
=============================================================================
