----------------------- MODULE ChapterPipelineProofs -----------------------
(***************************************************************************)
(* Proofs about ChapterPipeline, for any number of requests, any pool, any *)
(* directories and any number of keys.                                     *)
(***************************************************************************)
EXTENDS ChapterPipeline, DevicePoolProofs, SequenceTheorems,
  FiniteSetTheorems

-----------------------------------------------------------------------------
(* Kept: the positions are counted off in order, none is left out, and what *)
(* is kept of a sequence is a sequence of the same kind, no longer than it. *)

Rank(P, i) == Cardinality({k \in P : k <= i})

LEMMA Ranks ==
  ASSUME NEW m \in Nat, NEW P \in SUBSET (1 .. m)
  PROVE  /\ IsFiniteSet(P) /\ Cardinality(P) \in 0 .. m
         /\ \A i \in P : Rank(P, i) \in 1 .. Cardinality(P)
         /\ \A i, j \in P : i < j => Rank(P, i) < Rank(P, j)
<1>1. IsFiniteSet(P) /\ Cardinality(P) \in Nat /\ Cardinality(P) <= m
  <2>1. IsFiniteSet(1 .. m) /\ Cardinality(1 .. m) = m
    BY FS_Interval
  <2>2. IsFiniteSet(P) /\ Cardinality(P) <= Cardinality(1 .. m)
    BY <2>1, FS_Subset
  <2> QED
    BY <2>1, <2>2, FS_CardinalityType
<1>2. ASSUME NEW i \in P
      PROVE  /\ IsFiniteSet({k \in P : k <= i})
             /\ Rank(P, i) \in 1 .. Cardinality(P)
  <2> DEFINE below == {k \in P : k <= i}
  <2>1. below \in SUBSET P /\ {i} \in SUBSET below
    OBVIOUS
  <2> HIDE DEF below
  <2>2. /\ IsFiniteSet(below) /\ Cardinality(below) \in Nat
        /\ Cardinality(below) <= Cardinality(P)
    BY <1>1, <2>1, FS_Subset, FS_CardinalityType
  <2>3. 1 <= Cardinality(below)
    <3>1. Cardinality({i}) = 1
      BY FS_Singleton
    <3>2. Cardinality({i}) <= Cardinality(below)
      BY <2>1, <2>2, FS_Subset
    <3> QED
      BY <3>1, <3>2
  <2> QED
    BY <1>1, <2>2, <2>3 DEF below, Rank
<1>3. ASSUME NEW i \in P, NEW j \in P, i < j
      PROVE  Rank(P, i) < Rank(P, j)
  <2> DEFINE bi == {k \in P : k <= i}
             bj == {k \in P : k <= j}
  <2>1. bi \in SUBSET bj /\ j \in bj /\ j \notin bi
    <3>1. P \subseteq Int /\ i \in Int /\ j \in Int
      OBVIOUS
    <3>2. ASSUME NEW k \in P, k <= i  PROVE k <= j
      BY <1>3, <3>1, <3>2
    <3>3. ~(j <= i) /\ j <= j
      BY <1>3, <3>1
    <3> QED
      BY <3>2, <3>3
  <2>2. IsFiniteSet(bi) /\ IsFiniteSet(bj)
    BY <1>2
  <2> HIDE DEF bi, bj
  <2>3. Cardinality(bi) <= Cardinality(bj) /\ Cardinality(bi) # Cardinality(bj)
    BY <2>1, <2>2, FS_Subset
  <2>4. Cardinality(bi) \in Nat /\ Cardinality(bj) \in Nat
    BY <2>2, FS_CardinalityType
  <2> QED
    BY <2>3, <2>4 DEF bi, bj, Rank
<1>4. Cardinality(P) \in 0 .. m
  BY <1>1
<1>5. /\ \A i \in P : Rank(P, i) \in 1 .. Cardinality(P)
      /\ \A i, j \in P : i < j => Rank(P, i) < Rank(P, j)
  BY <1>2, <1>3
<1> QED
  BY <1>1, <1>4, <1>5

\* Every number up to the cardinality is the rank of one position.
LEMMA NthRank ==
  ASSUME NEW m \in Nat, NEW P \in SUBSET (1 .. m)
  PROVE  /\ \A n \in 1 .. Cardinality(P) : Nth(P, n) \in P /\ Rank(P, Nth(P, n)) = n
         /\ \A i \in P : Nth(P, Rank(P, i)) = i
<1>1. /\ IsFiniteSet(P) /\ Cardinality(P) \in Nat
      /\ \A i \in P : Rank(P, i) \in 1 .. Cardinality(P)
      /\ \A i, j \in P : Rank(P, i) = Rank(P, j) => i = j
  <2>1. P \subseteq Int
    OBVIOUS
  <2>2. ASSUME NEW i \in P, NEW j \in P, Rank(P, i) = Rank(P, j)  PROVE i = j
    <3>1. Rank(P, i) \in Nat /\ i \in Int /\ j \in Int
      BY Ranks
    <3>2. ~(i < j) /\ ~(j < i)
      BY <2>2, <3>1, Ranks
    <3> QED
      BY <3>1, <3>2
  <2>3. /\ IsFiniteSet(P) /\ Cardinality(P) \in Nat
        /\ \A i \in P : Rank(P, i) \in 1 .. Cardinality(P)
    <3>1. /\ IsFiniteSet(P) /\ Cardinality(P) \in 0 .. m
          /\ \A i \in P : Rank(P, i) \in 1 .. Cardinality(P)
      BY Ranks, Zenon
    <3>2. Cardinality(P) \in Nat
      BY <3>1
    <3> QED
      BY <3>1, <3>2
  <2> QED
    BY <2>2, <2>3
<1>2. ASSUME NEW n \in 1 .. Cardinality(P)
      PROVE  \E i \in P : Rank(P, i) = n
  <2> SUFFICES ASSUME \A i \in P : Rank(P, i) # n  PROVE FALSE
    OBVIOUS
  <2> DEFINE T == (1 .. Cardinality(P)) \ {n}
             f == [i \in P |-> Rank(P, i)]
  <2>1. IsFiniteSet(T) /\ Cardinality(T) = Cardinality(P) - 1
    <3>1. /\ IsFiniteSet(1 .. Cardinality(P))
          /\ Cardinality(1 .. Cardinality(P)) = Cardinality(P)
      BY <1>1, FS_Interval
    <3> QED
      BY <3>1, FS_RemoveElement
  <2>2. f \in [P -> T]
    BY <1>1
  <2>3. Cardinality(T) < Cardinality(P)
    BY <1>1, <2>1
  <2> HIDE DEF T
  <2>4. \E x, y \in P : x # y /\ f[x] = f[y]
    <3> HIDE DEF f
    <3> QED
      BY <1>1, <2>1, <2>2, <2>3, FS_PigeonHole
  <2> QED
    BY <1>1, <2>4
<1>3. ASSUME NEW n \in 1 .. Cardinality(P)
      PROVE  Nth(P, n) \in P /\ Rank(P, Nth(P, n)) = n
  BY <1>2, <1>3 DEF Nth, Rank
<1>4. ASSUME NEW i \in P  PROVE Nth(P, Rank(P, i)) = i
  BY <1>1, <1>3
<1> QED
  BY <1>3, <1>4

LEMMA KeptAll ==
  ASSUME NEW S, NEW s \in Seq(S), NEW P \in SUBSET DOMAIN s
  PROVE  /\ Kept(s, P) \in Seq(S)
         /\ Len(Kept(s, P)) = Cardinality(P) /\ Cardinality(P) \in Nat
         /\ Len(Kept(s, P)) <= Len(s)
         /\ DOMAIN Kept(s, P) = 1 .. Cardinality(P)
         /\ \A n \in 1 .. Cardinality(P) :
              Nth(P, n) \in P /\ Kept(s, P)[n] = s[Nth(P, n)]
         /\ \A i \in P : \E n \in 1 .. Cardinality(P) : Kept(s, P)[n] = s[i]
<1>1. Len(s) \in Nat /\ P \in SUBSET (1 .. Len(s))
  OBVIOUS
<1>2. /\ Cardinality(P) \in 0 .. Len(s)
      /\ \A i \in P : Rank(P, i) \in 1 .. Cardinality(P)
  BY <1>1, Ranks
<1>3. /\ \A n \in 1 .. Cardinality(P) : Nth(P, n) \in P
      /\ \A i \in P : Nth(P, Rank(P, i)) = i
  BY <1>1, NthRank
<1>4. /\ DOMAIN Kept(s, P) = 1 .. Cardinality(P)
      /\ \A n \in 1 .. Cardinality(P) : Kept(s, P)[n] = s[Nth(P, n)]
  BY DEF Kept
<1>5. \A n \in 1 .. Cardinality(P) : s[Nth(P, n)] \in S
  BY <1>1, <1>3
<1>6. Kept(s, P) \in [1 .. Cardinality(P) -> S]
  BY <1>5 DEF Kept
<1>7. Kept(s, P) \in Seq(S) /\ Len(Kept(s, P)) = Cardinality(P)
  BY <1>2, <1>6
<1>8. ASSUME NEW i \in P
      PROVE  \E n \in 1 .. Cardinality(P) : Kept(s, P)[n] = s[i]
  BY <1>2, <1>3, <1>4
<1> QED
  BY <1>2, <1>3, <1>4, <1>7, <1>8

-----------------------------------------------------------------------------
(* A chapter's position and its neighbours.                                  *)

LEMMA PositionFound ==
  ASSUME NEW items \in Seq(DirectoryItemData), NEW c, InDirectory(items, c)
  PROVE  /\ PositionOf(items, c) \in 0 .. Len(items) - 1
         /\ items[PositionOf(items, c) + 1].id = c
<1> DEFINE at == {i \in DOMAIN items : items[i].id = c}
<1>1. at # {}
  BY DEF InDirectory, PositionOf
<1>2. at \in SUBSET (1 .. Len(items)) /\ Len(items) \in Nat /\ at \in SUBSET Nat
  OBVIOUS
<1>3. Min(at) \in at
  BY <1>1, <1>2, LeastNumber
<1>4. PositionOf(items, c) = Min(at) - 1
  BY <1>1 DEF PositionOf
<1>5. Min(at) \in 1 .. Len(items) /\ items[Min(at)].id = c
  BY <1>2, <1>3
<1> HIDE DEF at
<1>6. PositionOf(items, c) + 1 = Min(at)
  BY <1>4, <1>5
<1> QED
  BY <1>2, <1>4, <1>5, <1>6

\* Among items with distinct ids an item is where its id is found.
LEMMA PositionOfItem ==
  ASSUME NEW items \in Seq(DirectoryItemData), Distinct(items),
         NEW i \in DOMAIN items
  PROVE  PositionOf(items, items[i].id) = i - 1
<1> DEFINE at == {j \in DOMAIN items : items[j].id = items[i].id}
<1>1. at = {i}
  BY DEF Distinct
<1>2. Min(at) = i
  <2>1. i \in Int
    OBVIOUS
  <2> QED
    BY <1>1, <2>1 DEF Min
<1> QED
  BY <1>1, <1>2 DEF PositionOf

LEMMA NeighboursAgree ==
  ASSUME NEW items \in Seq(DirectoryItemData), NEW c, InDirectory(items, c)
  PROVE  LET here == Context(items, c)
         IN  /\ here.index \in 1 .. Len(items)
             /\ Distinct(items) => \A n \in here.next :
                  /\ Context(items, n).prev = {c}
                  /\ Context(items, n).index = here.index + 1
<1> DEFINE at == PositionOf(items, c)
<1>1. Len(items) \in Nat /\ at \in 0 .. Len(items) - 1 /\ items[at + 1].id = c
  BY PositionFound
<1>2. /\ Context(items, c).index = at + 1
      /\ Context(items, c).next = IF at + 1 < Len(items) THEN {items[at + 2].id} ELSE {}
  BY DEF Context
<1>3. at + 1 \in 1 .. Len(items)
  BY <1>1
<1>4. ASSUME Distinct(items), NEW n \in Context(items, c).next
      PROVE  Context(items, n).prev = {c} /\ Context(items, n).index = (at + 1) + 1
  <2>1. at + 1 < Len(items) /\ n = items[at + 2].id
    BY <1>2, <1>4
  <2>2. at + 2 \in DOMAIN items
    BY <1>1, <2>1
  <2>3. PositionOf(items, n) = at + 1
    <3>1. PositionOf(items, n) = (at + 2) - 1
      BY <1>4, <2>1, <2>2, PositionOfItem
    <3> QED
      BY <1>1, <3>1
  <2>4. Context(items, n).prev = {items[at + 1].id} /\ Context(items, n).index = (at + 1) + 1
    BY <1>1, <2>3 DEF Context
  <2> QED
    BY <1>1, <2>4
<1> HIDE DEF at
<1> QED
  BY <1>2, <1>3, <1>4

-----------------------------------------------------------------------------
(* The minimal form of a directory is a directory whose count is no less     *)
(* than that of its items.                                                   *)

LEMMA MinimalShape ==
  ASSUME NEW d \in DirectoryResponse
  PROVE  /\ Minimal(d) \in DirectoryResponse
         /\ Len(Minimal(d).items) \in Nat
         /\ Unwrap(Minimal(d).serial) \in Int
         /\ Len(Minimal(d).items) <= Unwrap(Minimal(d).serial)
<1> DEFINE named == WithId(d.items)
           size == Len(named)
           count == Max(d.serial \cup {size})
<1>1. d.items \in Seq(DirectoryItemData) /\ d.serial \in Option(Int)
  BY DEF DirectoryResponse
<1>2. named \in Seq(DirectoryItemData) /\ size \in Nat /\ DOMAIN named = 1 .. size
  <2>1. {i \in DOMAIN d.items : Trim[d.items[i].id] # Blank} \in SUBSET DOMAIN d.items
    OBVIOUS
  <2>2. named \in Seq(DirectoryItemData)
    BY <1>1, <2>1, KeptAll DEF WithId
  <2> HIDE DEF named
  <2> QED
    BY <2>2
<1>3. /\ Minimal(d).items = [i \in 1 .. size |-> [id |-> named[i].id, free |-> {}]]
      /\ Minimal(d).serial = {count} /\ Minimal(d).info = {}
      /\ Minimal(d) = [items |-> Minimal(d).items, serial |-> Minimal(d).serial,
                       info |-> Minimal(d).info]
  BY <1>2 DEF Minimal
<1>4. \A i \in 1 .. size :
        [id |-> named[i].id, free |-> {}] \in DirectoryItemData
  <2> HIDE DEF named
  <2>1. \A i \in 1 .. size : named[i].id \in Ids
    <3>1. \A i \in 1 .. size : named[i] \in DirectoryItemData
      BY <1>2
    <3> QED
      BY <3>1 DEF DirectoryItemData
  <2> QED
    BY <2>1 DEF DirectoryItemData, Option
<1> HIDE DEF named
<1>5. Minimal(d).items \in [1 .. size -> DirectoryItemData]
  BY <1>3, <1>4
<1> HIDE DEF size
<1>6. Minimal(d).items \in Seq(DirectoryItemData) /\ Len(Minimal(d).items) = size
  BY <1>2, <1>5 DEF size
<1>7. count \in Int /\ size <= count
  <2>1. d.serial = {} \/ \E x \in Int : d.serial = {x}
    BY <1>1 DEF Option
  <2>2. \E m \in d.serial \cup {size} : \A n \in d.serial \cup {size} : m >= n
    <3>1. CASE d.serial = {}
      <4> WITNESS size \in d.serial \cup {size}
      <4> QED
        BY <1>2, <3>1
    <3>2. ASSUME NEW x \in Int, d.serial = {x}
          PROVE  \E m \in d.serial \cup {size} : \A n \in d.serial \cup {size} : m >= n
      <4>1. CASE x >= size
        BY <1>2, <3>2, <4>1
      <4>2. CASE ~(x >= size)
        <5>1. size >= x /\ size >= size
          BY <1>2, <4>2
        <5> QED
          BY <3>2, <5>1
      <4> QED
        BY <4>1, <4>2
    <3> QED
      BY <2>1, <3>1, <3>2
  <2>3. count \in d.serial \cup {size} /\ count >= size
    BY <2>2 DEF Max
  <2> QED
    BY <1>2, <2>1, <2>3
<1> HIDE DEF count
<1>8. Minimal(d).serial \in Option(Int) /\ Unwrap(Minimal(d).serial) = count
  BY <1>3, <1>7 DEF Option, Unwrap
<1>9. Minimal(d).info \in Option([serial : Option(Int)])
  BY <1>3 DEF Option
<1>10. Minimal(d) \in DirectoryResponse
  BY <1>3, <1>6, <1>8, <1>9 DEF DirectoryResponse
<1> QED
  BY <1>2, <1>6, <1>7, <1>8, <1>10

LEMMA TotalIsNumber ==
  ASSUME NEW d \in DirectoryResponse, HasBookInfo(d)
  PROVE  TotalChapters(d) \in Int
<1>1. Unwrap(d.info) \in [serial : Option(Int)]
  BY DEF HasBookInfo, DirectoryResponse, Option, Unwrap
<1>2. Unwrap(d.info).serial \in SUBSET Int /\ d.serial \in SUBSET Int
  BY <1>1 DEF DirectoryResponse, Option
<1>3. Or(Unwrap(d.info).serial, d.serial) \in SUBSET Int
  BY <1>2 DEF Or
<1>4. Len(d.items) \in Int
  BY DEF DirectoryResponse
<1>5. \A o \in SUBSET Int : o # {} => Unwrap(o) \in Int
  BY DEF Unwrap
<1> QED
  BY <1>3, <1>4, <1>5 DEF TotalChapters, UnwrapOr

-----------------------------------------------------------------------------
(* What the bucket arithmetic computes, for every directory and size. *)

\* prefetch_batch_size keeps a batch between 1 and 30 (upstream.rs:1139-1146).
LEMMA BatchSizeBounds == BatchSize \in 1 .. MaxChapterPrefetchSize
BY PipelineAssumption DEF BatchSize, BatchSizeOf, MaxChapterPrefetchSize

\* A position lies in the bucket that starts at its bucket's start.
LEMMA InBucket ==
  ASSUME NEW i \in Nat, NEW size \in Nat \ {0}
  PROVE  /\ BucketStart(i, size) \in Nat
         /\ BucketStart(i, size) <= i
         /\ i < BucketStart(i, size) + size
<1>1. /\ i = size * (i \div size) + (i % size)
      /\ i % size \in 0 .. size - 1 /\ i \div size \in Nat
  OBVIOUS
<1>2. (i \div size) * size = size * (i \div size) /\ (i \div size) * size \in Nat
  BY <1>1
<1>3. BucketStart(i, size) = i - (i % size)
  BY <1>1, <1>2 DEF BucketStart
<1> QED
  BY <1>1, <1>2, <1>3 DEF BucketStart

(* The slice of a chapter's bucket is no longer than a bucket and holds the *)
(* chapter's id, trimmed (upstream.rs:1148-1175): the filter that follows   *)
(* takes out blank ids only.                                                *)
THEOREM ChapterInSlice ==
  ASSUME NEW items \in Seq(DirectoryItemData),
         NEW i \in 0 .. Len(items) - 1, NEW size \in Nat \ {0}
  PROVE  LET start == BucketStart(i, size)
             slice == Slice(items, start, size)
         IN  /\ slice \in Seq(Ids) /\ Len(slice) <= size
             /\ i - start + 1 \in DOMAIN slice
             /\ slice[i - start + 1] = Trim[items[i + 1].id]
<1> DEFINE start == BucketStart(i, size)
           end == Min({start + size, Len(items)})
<1>1. Len(items) \in Nat /\ i \in Nat
  BY LenProperties
<1>2. start \in Nat /\ start <= i /\ i < start + size
  BY <1>1, InBucket
<1> HIDE DEF start
<1>3. end \in Nat /\ i + 1 <= end /\ end <= start + size
                  /\ end <= Len(items)
  <2>1. \E m \in {start + size, Len(items)} :
          \A n \in {start + size, Len(items)} : m <= n
    BY <1>1, <1>2
  <2>2. end \in {start + size, Len(items)} /\ end <= start + size
        /\ end <= Len(items)
    BY <2>1, <1>1, <1>2 DEF Min
  <2> QED
    BY <1>1, <1>2, <2>2
<1> HIDE DEF end
<1>4. Slice(items, start, size) = [n \in 1 .. end - start |-> Trim[items[start + n].id]]
  BY DEF Slice, end
<1>5. Len(Slice(items, start, size)) = end - start
  BY <1>2, <1>3, <1>4
<1>10. Slice(items, start, size) \in Seq(Ids)
  <2>1. \A n \in 1 .. end - start : Trim[items[start + n].id] \in Ids
    <3> SUFFICES ASSUME NEW n \in 1 .. end - start
                 PROVE  Trim[items[start + n].id] \in Ids
      OBVIOUS
    <3>1. start + n \in 1 .. Len(items)
      BY <1>1, <1>2, <1>3
    <3>2. items[start + n] \in DirectoryItemData
      BY <3>1
    <3> QED
      BY <3>2, DirectoryAssumption DEF DirectoryItemData
  <2>2. end - start \in Nat
    BY <1>1, <1>2, <1>3
  <2>3. Slice(items, start, size) \in [1 .. end - start -> Ids]
    BY <1>4, <2>1
  <2> QED
    BY <2>2, <2>3
<1>6. i - start + 1 \in 1 .. end - start
  BY <1>1, <1>2, <1>3
<1>7. start + (i - start + 1) = i + 1
  BY <1>1, <1>2
<1>8. Slice(items, start, size)[i - start + 1] = Trim[items[i + 1].id]
  BY <1>4, <1>6, <1>7
<1>9. i - start + 1 \in DOMAIN Slice(items, start, size)
  BY <1>4, <1>6
<1> QED
  BY <1>1, <1>2, <1>3, <1>5, <1>8, <1>9, <1>10 DEF start

(* A batch that is not empty holds the chapter that is wanted, and no more   *)
(* chapters than a bucket has: the filter takes out blank ids only           *)
(* (upstream.rs:1169-1201).                                                  *)
THEOREM BatchHolds ==
  ASSUME NEW items \in Seq(DirectoryItemData), NEW size \in Nat \ {0},
         NEW c \in Ids, Trim[c] = c, c # Blank
  PROVE  LET batch == BatchIds(items, c, size)
         IN  /\ batch \in Seq(Ids) /\ Len(batch) <= size
             /\ items # <<>> => \E i \in DOMAIN batch : batch[i] = c
<1>1. CASE items = <<>>
  <2>1. BatchIds(items, c, size) = <<>>
    BY <1>1 DEF BatchIds
  <2>2. <<>> \in Seq(Ids) /\ Len(<<>>) <= size
    OBVIOUS
  <2> QED
    BY <1>1, <2>1, <2>2
<1>2. CASE items # <<>> /\ PositionOf(items, c) = Absent
  <2>1. BatchIds(items, c, size) = <<c>>
    BY <1>2 DEF BatchIds
  <2>2. <<c>> \in Seq(Ids) /\ Len(<<c>>) = 1 /\ 1 \in DOMAIN <<c>> /\ <<c>>[1] = c
    OBVIOUS
  <2> QED
    BY <2>1, <2>2
<1>3. CASE items # <<>> /\ PositionOf(items, c) # Absent
  <2> DEFINE at == PositionOf(items, c)
             start == BucketStart(at, size)
             ids == Slice(items, start, size)
             named == {i \in DOMAIN ids : ids[i] # Blank}
  <2>1. at \in 0 .. Len(items) - 1 /\ items[at + 1].id = c
    BY <1>3, PositionFound DEF InDirectory
  <2>2. BatchIds(items, c, size) = Kept(ids, named)
    BY <1>3 DEF BatchIds, NonBlank
  <2> HIDE DEF at
  <2>3. /\ ids \in Seq(Ids) /\ Len(ids) <= size
        /\ at - start + 1 \in DOMAIN ids /\ ids[at - start + 1] = c
    BY <2>1, ChapterInSlice
  <2> HIDE DEF ids
  <2>4. at - start + 1 \in named /\ named \in SUBSET DOMAIN ids
    BY <2>3
  <2> HIDE DEF named
  <2>5. /\ Kept(ids, named) \in Seq(Ids) /\ Len(Kept(ids, named)) <= Len(ids)
        /\ \E n \in DOMAIN Kept(ids, named) :
             Kept(ids, named)[n] = ids[at - start + 1]
    BY <2>3, <2>4, KeptAll
  <2>6. Len(Kept(ids, named)) <= size
    <3>1. Len(Kept(ids, named)) \in Nat /\ Len(ids) \in Nat
      BY <2>3, <2>5
    <3> QED
      BY <2>3, <2>5, <3>1
  <2> QED
    BY <2>2, <2>3, <2>5, <2>6
<1> QED
  BY <1>1, <1>2, <1>3

-----------------------------------------------------------------------------
(* What the pipeline needs of all that: directories are directories.         *)

LEMMA GivenShape ==
  ASSUME NEW d \in Given
  PROVE  /\ d \in DirectoryResponse /\ d.items \in Seq(DirectoryItemData)
         /\ HasBookInfo(d) => TotalChapters(d) \in Int
         /\ \A c \in Chapters : BatchIds(d.items, c, BatchSize) \in Seq(Ids)
<1>1. d \in DirectoryResponse
  BY MinimalShape, PipelineAssumption DEF Given
<1>2. d.items \in Seq(DirectoryItemData)
  BY <1>1 DEF DirectoryResponse
<1>3. BatchSize \in Nat \ {0}
  BY BatchSizeBounds DEF MaxChapterPrefetchSize
<1>4. \A c \in Chapters : BatchIds(d.items, c, BatchSize) \in Seq(Ids)
  BY <1>2, <1>3, BatchHolds, PipelineAssumption
<1> QED
  BY <1>1, <1>2, <1>4, TotalIsNumber


-----------------------------------------------------------------------------
(* Types, and what a task has at hand.                                       *)

\* What the calls before the one under way may have reported.
Earlier(l) == IF l.call = "single" THEN 1 ELSE 0

\* How many failures a task has reported where it stands.
Counted(l) ==
  /\ l.pc \in {"send", "await"} \cup WithItems => l.reports <= Earlier(l)
  /\ l.pc \in {"heal", "healRotate"} => l.reports <= Earlier(l) + 1
  /\ l.pc \in {"plan", "recheck"} => l.reports <= 1
  /\ l.pc \in {"idle", "start"} => l.reports = 0
  /\ l.pc = "plan" /\ l.dir # NoDirectory => l.reports = 0

\* What a task wants and holds where it stands.
Prepared(l) ==
  /\ l.pc \in {"send", "await"} /\ l.call # "directory" => l.todo # <<>>
  /\ l.call \in {"prefetch", "single"} => l.want \in Chapters
  /\ l.pc = "recheck" => l.want \in Chapters
  /\ l.pc = "plan" /\ l.want \notin Chapters => l.dir # NoDirectory
  /\ l.call = "directory" /\ l.pc \in {"send", "await", "heal", "healRotate"}
       => l.dir = NoDirectory
  /\ l.pc \in {"idle", "start"} => l.dir = NoDirectory

Steady(l) == l \in Locals /\ Equipped(l) /\ Prepared(l) /\ Counted(l)

LocalInv ==
  /\ task \in [Tasks -> Locals]
  /\ \A t \in Tasks : Steady(task[t])

\* The types of what the tasks share.
SharedTyped ==
  /\ TypeOK
  /\ chapter_cache \in [Chapters -> {"none", "text", "garbage"}]
  /\ directory_cache \in [Forms -> Given \cup {NoDirectory}]
  /\ book_cache \in SUBSET Int
  /\ generation \in [Devices -> 1 .. MaxGen]
  /\ versioned \in BOOLEAN
  /\ cache_by_key \in SUBSET Keys
  /\ current \in [Devices -> 0 .. MaxGen]
  /\ crossed \in BOOLEAN

Typed == SharedTyped /\ LocalInv

-----------------------------------------------------------------------------
LEMMA ActiveIsDevice == ASSUME TypeOK PROVE active_profile \in Devices
BY DEF TypeOK, Devices

LEMMA IdleSteady == Steady(Idle)
<1>1. (CHOOSE d \in Devices : TRUE) \in Devices
  BY PipelineAssumption DEF Devices
<1>2. MaxGen \in Nat \ {0}
  BY PipelineAssumption
<1>3. <<>> \in Seq(Ids)
  BY EmptySeq
<1>4. Idle \in Locals
  BY <1>1, <1>2, <1>3 DEF Idle, Locals, Places, Calls
<1>5. Equipped(Idle) /\ Prepared(Idle) /\ Counted(Idle)
  BY DEF Idle, Equipped, Prepared, Counted, WithItems
<1> QED
  BY <1>4, <1>5 DEF Steady

\* A task that takes steady locals leaves all of them steady.
LEMMA BecomeSteady ==
  ASSUME LocalInv, NEW t \in Tasks, NEW l, Steady(l), Become(t, l)
  PROVE  LocalInv'
BY DEF LocalInv, Become, Steady

\* Every chapter list that a task goes through has a rest of the same kind.
LEMMA RestOfTodo ==
  ASSUME NEW s \in Seq(Ids), s # <<>>
  PROVE  /\ Tail(s) \in Seq(Ids)
         /\ Len(s) # 1 => Tail(s) # <<>>
<1>1. Tail(s) \in Seq(Ids) /\ Len(Tail(s)) = Len(s) - 1 /\ Len(s) \in Nat
  BY HeadTailProperties, LenProperties
<1>2. Len(<<>>) = 0
  BY EmptySeq
<1> QED
  BY <1>1, <1>2

LEMMA AfterItemSteady ==
  ASSUME LocalInv, NEW t \in Tasks, task[t].pc \in WithItems, AfterItem(t)
  PROVE  LocalInv'
<1>1. CASE task[t].call = "single"
  BY <1>1, IdleSteady, BecomeSteady DEF AfterItem, Return
<1>2. CASE task[t].call # "single"
  <2> DEFINE l == [task[t] EXCEPT
         !.pc = IF Len(task[t].todo) = 1 THEN "recheck" ELSE "items",
         !.todo = Tail(@), !.key = NoKey, !.failed = NoKey, !.since = {}]
  <2>1. Steady(task[t]) /\ task[t] \in Locals
    BY DEF LocalInv
  <2>2. task[t].todo \in Seq(Ids) /\ task[t].todo # <<>>
        /\ task[t].call = "prefetch" /\ task[t].gen # 0
    BY <1>2, <2>1 DEF Steady, Equipped, Locals
  <2>3. Tail(task[t].todo) \in Seq(Ids)
        /\ (Len(task[t].todo) # 1 => Tail(task[t].todo) # <<>>)
    BY <2>2, RestOfTodo
  <2>4. l \in Locals
    <3>1. (IF Len(task[t].todo) = 1 THEN "recheck" ELSE "items") \in Places
      BY DEF Places, WithItems
    <3>2. NoKey \in (Devices \X (0 .. MaxGen)) \cup {NoKey}
          /\ NoKey \in Keys \cup {NoKey} /\ {} \in SUBSET Keys
      OBVIOUS
    <3> QED
      BY <2>1, <2>3, <3>1, <3>2, ZenonT(30) DEF Locals
  <2>5. /\ l.pc = IF Len(task[t].todo) = 1 THEN "recheck" ELSE "items"
        /\ l.todo = Tail(task[t].todo) /\ l.call = "prefetch"
        /\ l.gen = task[t].gen /\ l.want = task[t].want
        /\ l.reports = task[t].reports
    BY <2>1, <2>2 DEF Locals
  <2>6. Equipped(l)
    BY <2>2, <2>3, <2>5 DEF Equipped, WithItems
  <2>7. Prepared(l)
    BY <2>1, <2>2, <2>5 DEF Prepared, Steady
  <2>8. Counted(l)
    <3>1. task[t].reports <= 0 /\ task[t].reports \in Nat
      BY <2>1, <2>2 DEF Steady, Counted, Earlier, Locals
    <3> QED
      BY <3>1, <2>5 DEF Counted, Earlier, WithItems
  <2> QED
    BY <1>2, <2>4, <2>6, <2>7, <2>8, BecomeSteady DEF AfterItem, Steady
<1> QED
  BY <1>1, <1>2

LEMMA StartSteady ==
  ASSUME NEW w \in Chapters \cup {Toc, Book}
  PROVE  Steady([Idle EXCEPT !.pc = "start", !.want = w])
<1> DEFINE l == [Idle EXCEPT !.pc = "start", !.want = w]
<1>1. Idle \in Locals /\ "start" \in Places
  BY IdleSteady DEF Steady, Places
<1>2. l \in Locals
  BY <1>1, ZenonT(30) DEF Locals
<1>3. l.pc = "start" /\ l.reports = 0 /\ l.dir = NoDirectory /\ l.call = "none"
  BY DEF Idle
<1> QED
  BY <1>2, <1>3 DEF Steady, Equipped, Prepared, Counted, WithItems

\* A call begins with ids to ask for, in place of an earlier call.
LEMMA CallingSteady ==
  ASSUME NEW l \in Locals, NEW call \in Calls, NEW ids \in Seq(Ids),
         call = "directory" => l.reports = 0 /\ l.dir = NoDirectory,
         call # "directory" => l.want \in Chapters /\ ids # <<>>,
         call = "prefetch" => l.reports = 0,
         l.reports <= 1
  PROVE  Steady(Calling(l, call, ids))
<1> DEFINE m == Calling(l, call, ids)
<1>1. "send" \in Places /\ call \in Calls \cup {"none"} /\ FALSE \in BOOLEAN
  BY DEF Places
<1>2. m \in Locals
  BY <1>1, ZenonT(30) DEF Calling, Locals
<1>3. /\ m.pc = "send" /\ m.call = call /\ m.todo = ids /\ m.dir = l.dir
      /\ m.want = l.want /\ m.reports = l.reports /\ l.reports \in Nat
  BY DEF Calling, Locals
<1> HIDE DEF m
<1>4. Equipped(m)
  BY <1>3 DEF Equipped, WithItems, Calls
<1>5. Prepared(m)
  BY <1>3 DEF Prepared, Calls
<1>6. m.reports <= Earlier(m)
  BY <1>3 DEF Earlier, Calls
<1>7. Counted(m)
  BY <1>3, <1>6 DEF Counted, WithItems
<1> QED
  BY <1>2, <1>4, <1>5, <1>7 DEF Steady, m

LEMMA AfterFailureSteady ==
  ASSUME LocalInv, NEW t \in Tasks, NEW l \in Locals,
         l.want = task[t].want, l.call = task[t].call,
         l.reports <= Earlier(l) + 1,
         l.call = "directory" => l.dir = NoDirectory
  PROVE  Steady(AfterFailure(t, l))
<1>1. CASE task[t].call = "single" \/ task[t].want \in {Toc, Book}
  BY <1>1, IdleSteady DEF AfterFailure
<1>2. CASE ~(task[t].call = "single" \/ task[t].want \in {Toc, Book})
  <2> DEFINE place == IF task[t].call = "directory" THEN "plan" ELSE "recheck"
             m == [l EXCEPT !.pc = place]
  <2>1. AfterFailure(t, l) = m
    BY <1>2 DEF AfterFailure
  <2>2. place \in Places
    BY DEF Places
  <2>3. m \in Locals
    BY <2>2, ZenonT(30) DEF Locals
  <2>4. /\ m.pc = place /\ m.want = l.want /\ m.reports = l.reports
        /\ m.dir = l.dir /\ m.call = l.call /\ l.reports \in Nat
        /\ l.want \in Chapters \cup {Toc, Book}
    BY DEF Locals
  <2>5. l.want \in Chapters /\ l.reports <= 1 /\ l.call # "single"
    BY <1>2, <2>4 DEF Earlier
  <2>6. place = "plan" => l.dir = NoDirectory
    OBVIOUS
  <2>7. place \in {"plan", "recheck"}
    OBVIOUS
  <2> HIDE DEF m, place
  <2> QED
    BY <2>1, <2>3, <2>4, <2>5, <2>6, <2>7
       DEF Steady, Equipped, Prepared, Counted, Earlier, WithItems
<1> QED
  BY <1>1, <1>2

-----------------------------------------------------------------------------
(* Each action leaves the requests' locals steady. *)

LEMMA RequestSteady ==
  ASSUME Typed, NEW t \in Tasks, Request(t)
  PROVE  LocalInv'
BY StartSteady, BecomeSteady
   DEF Typed, Request, RequestChapter, RequestToc, RequestBook

\* Before a call.
LEMMA DirectorySteady ==
  ASSUME Typed, NEW t \in Tasks,
         DirectoryCached(t) \/ DirectoryMissing(t)
  PROVE  LocalInv'
<1>1. LocalInv /\ Steady(task[t]) /\ task[t] \in Locals /\ SharedTyped
  BY DEF Typed, LocalInv
<1>2. CASE DirectoryCached(t)
  <2> DEFINE d == directory_cache[Form(t)]
             l == [task[t] EXCEPT !.pc = "plan", !.dir = d]
  <2>1. task[t].pc = "start" /\ d # NoDirectory /\ Become(t, l)
    BY <1>2 DEF DirectoryCached, At
  <2>2. d \in Given \cup {NoDirectory} /\ "plan" \in Places
    BY <1>1 DEF SharedTyped, Form, Forms, Places
  <2> HIDE DEF d
  <2>3. l \in Locals
    BY <1>1, <2>2, ZenonT(30) DEF Locals
  <2>4. /\ l.pc = "plan" /\ l.dir = d /\ l.reports = task[t].reports
        /\ l.call = task[t].call /\ l.want = task[t].want
    BY <1>1 DEF Locals
  <2>5. task[t].reports = 0
    BY <1>1, <2>1 DEF Steady, Counted
  <2>6. l.call \in {"prefetch", "single"} => l.want \in Chapters
    BY <1>1, <2>4 DEF Steady, Prepared
  <2> HIDE DEF l
  <2>7. Equipped(l) /\ Prepared(l) /\ Counted(l)
    BY <2>1, <2>4, <2>5, <2>6 DEF Equipped, Prepared, Counted, WithItems
  <2> QED
    BY <1>1, <2>1, <2>3, <2>7, BecomeSteady DEF Steady
<1>3. CASE DirectoryMissing(t)
  <2>1. /\ task[t].reports = 0 /\ task[t].dir = NoDirectory
        /\ Become(t, Calling(task[t], "directory", <<>>))
    BY <1>1, <1>3 DEF DirectoryMissing, At, Steady, Counted, Prepared
  <2>2. <<>> \in Seq(Ids) /\ "directory" \in Calls /\ "directory" # "prefetch"
        /\ task[t].reports <= 1
    BY <2>1, EmptySeq DEF Calls
  <2>3. Steady(Calling(task[t], "directory", <<>>))
    BY <1>1, <2>1, <2>2, CallingSteady, ZenonT(30)
  <2> QED
    BY <1>1, <2>1, <2>3, BecomeSteady
<1> QED
  BY <1>2, <1>3

LEMMA PlanSteady ==
  ASSUME Typed, NEW t \in Tasks,
         \/ TocReady(t) \/ BookReady(t) \/ BookUnknown(t) \/ Prefetched(t)
         \/ StartPrefetch(t) \/ SkipPrefetch(t) \/ StartSingle(t)
  PROVE  LocalInv'
<1>1. LocalInv /\ Steady(task[t]) /\ task[t] \in Locals
  BY DEF Typed, LocalInv
<1>2. CASE TocReady(t) \/ BookReady(t) \/ BookUnknown(t) \/ Prefetched(t)
  BY <1>1, <1>2, IdleSteady, BecomeSteady
     DEF TocReady, BookReady, BookUnknown, Prefetched, Return
<1>3. CASE StartPrefetch(t)
  <2>1. /\ task[t].pc = "plan" /\ task[t].want \in Chapters /\ Batch(t) # <<>>
        /\ Become(t, Calling(task[t], "prefetch", Batch(t)))
    BY <1>3 DEF StartPrefetch, PrefetchNeeded, At
  <2>2. task[t].dir # NoDirectory
    BY <2>1 DEF Batch
  <2>3. task[t].dir \in Given
    BY <1>1, <2>2 DEF Locals
  <2>4. Batch(t) \in Seq(Ids)
    BY <2>1, <2>2, <2>3, GivenShape DEF Batch
  <2>5. task[t].reports = 0 /\ "prefetch" \in Calls
    BY <1>1, <2>1, <2>2 DEF Steady, Counted, Calls
  <2>6. Steady(Calling(task[t], "prefetch", Batch(t)))
    BY <1>1, <2>1, <2>4, <2>5, CallingSteady
  <2> QED
    BY <1>1, <2>1, <2>6, BecomeSteady
<1>4. CASE SkipPrefetch(t)
  <2> DEFINE l == [task[t] EXCEPT !.pc = "recheck"]
  <2>1. /\ task[t].pc = "plan" /\ task[t].want \in Chapters /\ Become(t, l)
    BY <1>4 DEF SkipPrefetch, At, Goto
  <2>2. "recheck" \in Places
    BY DEF Places
  <2>3. l \in Locals
    BY <1>1, <2>2, ZenonT(30) DEF Locals
  <2>4. /\ l.pc = "recheck" /\ l.dir = task[t].dir /\ l.reports = task[t].reports
        /\ l.call = task[t].call /\ l.want = task[t].want
    BY <1>1 DEF Locals
  <2>5. task[t].reports <= 1
    BY <1>1, <2>1 DEF Steady, Counted
  <2> HIDE DEF l
  <2>6. Equipped(l) /\ Prepared(l) /\ Counted(l)
    BY <2>1, <2>4, <2>5 DEF Equipped, Prepared, Counted, WithItems
  <2> QED
    BY <1>1, <2>1, <2>3, <2>6, BecomeSteady DEF Steady
<1>5. CASE StartSingle(t)
  <2>1. /\ task[t].pc = "recheck"
        /\ Become(t, Calling(task[t], "single", <<task[t].want>>))
    BY <1>5 DEF StartSingle, At
  <2>2. task[t].reports <= 1 /\ task[t].want \in Chapters
    BY <1>1, <2>1 DEF Steady, Counted, Prepared
  <2>3. <<task[t].want>> \in Seq(Ids) /\ <<task[t].want>> # <<>> /\ "single" \in Calls
    BY <2>2, PipelineAssumption DEF Calls
  <2>4. Steady(Calling(task[t], "single", <<task[t].want>>))
    BY <1>1, <2>2, <2>3, CallingSteady
  <2> QED
    BY <1>1, <2>1, <2>4, BecomeSteady
<1> QED
  BY <1>2, <1>3, <1>4, <1>5

\* Within a call.
LEMMA CallSteady ==
  ASSUME Typed, NEW t \in Tasks,
         Send(t) \/ BatchArrives(t) \/ RotateAndResend(t)
  PROVE  LocalInv'
<1>1. /\ LocalInv /\ Steady(task[t]) /\ task[t] \in Locals /\ SharedTyped
      /\ {"await", "items", "send"} \subseteq Places
  BY DEF Typed, LocalInv, Places, WithItems
<1>2. CASE Send(t)
  <2> DEFINE l == [task[t] EXCEPT !.pc = "await", !.device = active_profile]
  <2>1. task[t].pc = "send" /\ Become(t, l) /\ active_profile \in Devices
    BY <1>1, <1>2, ActiveIsDevice DEF Send, At, SharedTyped
  <2>2. l \in Locals
    BY <1>1, <2>1, ZenonT(30) DEF Locals
  <2>3. /\ l.pc = "await" /\ l.dir = task[t].dir /\ l.reports = task[t].reports
        /\ l.call = task[t].call /\ l.want = task[t].want /\ l.todo = task[t].todo
    BY <1>1 DEF Locals
  <2> HIDE DEF l
  <2>4. Equipped(l) /\ Prepared(l) /\ Counted(l)
    BY <1>1, <2>1, <2>3
       DEF Steady, Equipped, Prepared, Counted, Earlier, WithItems
  <2> QED
    BY <1>1, <2>1, <2>2, <2>4, BecomeSteady DEF Steady
<1>3. CASE BatchArrives(t)
  <2> DEFINE g == generation[task[t].device]
             l == [task[t] EXCEPT !.pc = "items", !.gen = g]
  <2>1. task[t].pc = "await" /\ task[t].call # "directory" /\ Become(t, l)
    BY <1>3 DEF BatchArrives, At
  <2>2. g \in 0 .. MaxGen /\ g # 0
    BY <1>1 DEF SharedTyped, Locals
  <2> HIDE DEF g
  <2>3. l \in Locals
    BY <1>1, <2>2, ZenonT(30) DEF Locals
  <2>4. /\ l.pc = "items" /\ l.dir = task[t].dir /\ l.reports = task[t].reports
        /\ l.call = task[t].call /\ l.want = task[t].want /\ l.todo = task[t].todo
        /\ l.gen = g /\ task[t].call \in Calls \cup {"none"}
    BY <1>1 DEF Locals
  <2> HIDE DEF l
  <2>5. Equipped(l) /\ Prepared(l) /\ Counted(l)
    BY <1>1, <2>1, <2>2, <2>4
       DEF Steady, Equipped, Prepared, Counted, Earlier, WithItems, Calls
  <2> QED
    BY <1>1, <2>1, <2>3, <2>5, BecomeSteady DEF Steady
<1>4. CASE RotateAndResend(t)
  <2> DEFINE l == [task[t] EXCEPT !.pc = "send", !.resent = TRUE]
  <2>1. task[t].pc = "await" /\ Become(t, l) /\ TRUE \in BOOLEAN
    BY <1>4 DEF RotateAndResend, At
  <2>2. l \in Locals
    BY <1>1, <2>1, ZenonT(30) DEF Locals
  <2>3. /\ l.pc = "send" /\ l.dir = task[t].dir /\ l.reports = task[t].reports
        /\ l.call = task[t].call /\ l.want = task[t].want /\ l.todo = task[t].todo
    BY <1>1 DEF Locals
  <2> HIDE DEF l
  <2>4. Equipped(l) /\ Prepared(l) /\ Counted(l)
    BY <1>1, <2>1, <2>3
       DEF Steady, Equipped, Prepared, Counted, Earlier, WithItems
  <2> QED
    BY <1>1, <2>1, <2>2, <2>4, BecomeSteady DEF Steady
<1> QED
  BY <1>2, <1>3, <1>4

LEMMA DirectoryArrivesSteady ==
  ASSUME Typed, NEW t \in Tasks, NEW d \in Directories, DirectoryArrives(t, d)
  PROVE  LocalInv'
<1> DEFINE given == IF Form(t) = "min" THEN Minimal(d) ELSE d
           l == [task[t] EXCEPT !.pc = "plan", !.dir = given]
<1>1. /\ LocalInv /\ Steady(task[t]) /\ task[t] \in Locals
      /\ "plan" \in Places
  BY DEF Typed, LocalInv, Places
<1>2. /\ task[t].pc = "await" /\ task[t].call = "directory" /\ Become(t, l)
  BY DEF DirectoryArrives, At
<1>3. given \in Given /\ given # NoDirectory
  BY PipelineAssumption DEF Given
<1> HIDE DEF given
<1>4. l \in Locals
  <2>1. given \in Given \cup {NoDirectory}
    BY <1>3
  <2> QED
    BY <1>1, <2>1, ZenonT(30) DEF Locals
<1>5. /\ l.pc = "plan" /\ l.dir = given /\ l.reports = task[t].reports
      /\ l.call = "directory" /\ task[t].reports \in Nat
  BY <1>1, <1>2 DEF Locals
<1>6. l.reports = 0
  BY <1>1, <1>2, <1>5 DEF Steady, Counted, Earlier
<1> HIDE DEF l
<1>7. Equipped(l) /\ Prepared(l) /\ Counted(l)
  BY <1>3, <1>5, <1>6 DEF Equipped, Prepared, Counted, WithItems
<1> QED
  BY <1>1, <1>2, <1>4, <1>7, BecomeSteady DEF Steady

\* A failure is counted, and what it leads to is prepared for it.
LEMMA FailSteady ==
  ASSUME Typed, NEW t \in Tasks, NEW heal \in BOOLEAN, Fail(t, heal)
  PROVE  LocalInv'
<1> DEFINE r == [task[t] EXCEPT !.reports = @ + 1]
           l == [r EXCEPT !.pc = "heal"]
<1>1. LocalInv /\ Steady(task[t]) /\ task[t] \in Locals /\ "heal" \in Places
  BY DEF Typed, LocalInv, Places
<1>2. /\ task[t].pc = "await"
      /\ Become(t, IF heal THEN l ELSE AfterFailure(t, r))
  BY DEF Fail, At
<1>3. task[t].reports + 1 \in Nat
  BY <1>1 DEF Locals
<1>4. r \in Locals
  BY <1>1, <1>3, ZenonT(30) DEF Locals
<1>5. /\ r.reports = task[t].reports + 1 /\ r.want = task[t].want
      /\ r.call = task[t].call /\ r.dir = task[t].dir /\ r.pc = "await"
      /\ task[t].reports \in Nat
  BY <1>1, <1>2 DEF Locals
<1>6. task[t].reports <= Earlier(task[t]) /\ Earlier(r) = Earlier(task[t])
      /\ Earlier(r) \in Nat
  BY <1>1, <1>2, <1>5 DEF Steady, Counted, Earlier
<1>7. /\ r.reports <= Earlier(r) + 1
      /\ r.call = "directory" => r.dir = NoDirectory
      /\ r.call \in {"prefetch", "single"} => r.want \in Chapters
  BY <1>1, <1>2, <1>5, <1>6 DEF Steady, Prepared
<1> HIDE DEF r
<1>8. Steady(AfterFailure(t, r))
  BY <1>1, <1>4, <1>5, <1>7, AfterFailureSteady
<1>9. Steady(l)
  <2>1. l \in Locals
    BY <1>1, <1>4, ZenonT(30) DEF Locals
  <2>2. /\ l.pc = "heal" /\ l.dir = r.dir /\ l.reports = r.reports
        /\ l.call = r.call /\ l.want = r.want
    BY <1>4 DEF Locals
  <2> HIDE DEF l
  <2> QED
    BY <2>1, <2>2, <1>7 DEF Steady, Equipped, Prepared, Counted, Earlier, WithItems
<1> QED
  BY <1>1, <1>2, <1>8, <1>9, BecomeSteady

LEMMA HealSteady ==
  ASSUME Typed, NEW t \in Tasks, HealInvalidate(t) \/ HealRotate(t)
  PROVE  LocalInv'
<1>1. LocalInv /\ Steady(task[t]) /\ task[t] \in Locals /\ "healRotate" \in Places
  BY DEF Typed, LocalInv, Places
<1>2. task[t].pc \in {"heal", "healRotate"}
  BY DEF HealInvalidate, HealRotate, At
<1>3. CASE HealInvalidate(t)
  <2> DEFINE l == [task[t] EXCEPT !.pc = "healRotate"]
  <2>1. Become(t, l)
    BY <1>3 DEF HealInvalidate, Goto
  <2>2. l \in Locals
    BY <1>1, ZenonT(30) DEF Locals
  <2>3. /\ l.pc = "healRotate" /\ l.dir = task[t].dir
        /\ l.reports = task[t].reports
        /\ l.call = task[t].call /\ l.want = task[t].want
    BY <1>1 DEF Locals
  <2> HIDE DEF l
  <2>4. Equipped(l) /\ Prepared(l) /\ Counted(l)
    BY <1>1, <1>2, <2>3
       DEF Steady, Equipped, Prepared, Counted, Earlier, WithItems
  <2> QED
    BY <1>1, <2>1, <2>2, <2>4, BecomeSteady DEF Steady
<1>4. CASE HealRotate(t)
  <2>1. /\ task[t].reports <= Earlier(task[t]) + 1
        /\ task[t].call = "directory" => task[t].dir = NoDirectory
    BY <1>1, <1>2 DEF Steady, Counted, Prepared
  <2>2. Steady(AfterFailure(t, task[t]))
    BY <1>1, <2>1, AfterFailureSteady
  <2> QED
    BY <1>1, <1>4, <2>2, BecomeSteady DEF HealRotate
<1> QED
  BY <1>3, <1>4

\* Whoever dropped a device's keys only notes the one that is inserted.
LEMMA InsertedLocals ==
  ASSUME LocalInv, NEW k \in Keys, NEW t \in Tasks
  PROVE  /\ Inserted(k)[t] \in Locals
         /\ \A f \in {"pc", "want", "call", "resent", "device", "gen", "dir",
                      "todo", "key", "failed", "reports"} :
              Inserted(k)[t][f] = task[t][f]
         /\ Inserted(k)[t].since
              = IF task[t].failed # NoKey /\ task[t].failed[1] = k[1]
                  THEN task[t].since \cup {k} ELSE task[t].since
<1> DEFINE l == [task[t] EXCEPT !.since = @ \cup {k}]
<1>1. task[t] \in Locals
  BY DEF LocalInv
<1>2. task[t].since \cup {k} \in SUBSET Keys
  BY <1>1 DEF Locals
<1>3. l \in Locals
  BY <1>1, <1>2, ZenonT(30) DEF Locals
<1>4. /\ l.pc = task[t].pc /\ l.want = task[t].want /\ l.call = task[t].call
      /\ l.resent = task[t].resent /\ l.device = task[t].device
      /\ l.gen = task[t].gen /\ l.dir = task[t].dir /\ l.todo = task[t].todo
      /\ l.key = task[t].key /\ l.failed = task[t].failed
      /\ l.reports = task[t].reports /\ l.since = task[t].since \cup {k}
  BY <1>1 DEF Locals
<1> HIDE DEF l
<1>5. Inserted(k)[t] =
        IF task[t].failed # NoKey /\ task[t].failed[1] = k[1] THEN l ELSE task[t]
  BY DEF Inserted, l
<1> QED
  BY <1>1, <1>3, <1>4, <1>5

LEMMA InsertedSteady ==
  ASSUME LocalInv, NEW k \in Keys, NEW t \in Tasks
  PROVE  Steady(Inserted(k)[t])
<1> DEFINE l == Inserted(k)[t]
<1>1. Steady(task[t])
  BY DEF LocalInv
<1>2. /\ l \in Locals
      /\ l.pc = task[t].pc /\ l.want = task[t].want /\ l.call = task[t].call
      /\ l.gen = task[t].gen /\ l.dir = task[t].dir /\ l.todo = task[t].todo
      /\ l.key = task[t].key /\ l.reports = task[t].reports
  BY InsertedLocals
<1> HIDE DEF l
<1> QED
  BY <1>1, <1>2 DEF Steady, Equipped, Prepared, Counted, Earlier, l

\* Through the chapters of a batch.
LEMMA KeySteady ==
  ASSUME Typed, NEW t \in Tasks,
         KeyCached(t) \/ KeyMissing(t) \/ FetchKey(t) \/ DecryptFails(t)
  PROVE  LocalInv'
<1>1. /\ LocalInv /\ Steady(task[t]) /\ task[t] \in Locals /\ SharedTyped
      /\ {"items", "fetchKey", "insertKey", "decrypt"} \subseteq Places
  BY DEF Typed, LocalInv, Places, WithItems
<1>2. task[t].pc \in WithItems
  BY DEF KeyCached, KeyMissing, FetchKey, DecryptFails, At, WithItems
<1>3. active_profile \in Devices /\ MaxGen \in Nat \ {0}
  BY <1>1, ActiveIsDevice, PipelineAssumption DEF SharedTyped
\* Only the key changes, and the place.
<1>4. ASSUME NEW place \in WithItems,
             NEW k \in (Devices \X (0 .. MaxGen)) \cup {NoKey},
             place \in {"insertKey", "decrypt"} => k \in Keys,
             place = "fetchKey" => k # NoKey,
             Become(t, [task[t] EXCEPT !.pc = place, !.key = k])
      PROVE  LocalInv'
  <2> DEFINE l == [task[t] EXCEPT !.pc = place, !.key = k]
  <2>1. place \in Places
    BY DEF Places
  <2>2. l \in Locals
    BY <1>1, <2>1, ZenonT(30) DEF Locals
  <2>3. /\ l.pc = place /\ l.dir = task[t].dir /\ l.reports = task[t].reports
        /\ l.call = task[t].call /\ l.want = task[t].want /\ l.todo = task[t].todo
        /\ l.gen = task[t].gen /\ l.key = k
    BY <1>1 DEF Locals
  <2> HIDE DEF l
  <2>4. Equipped(l) /\ Prepared(l) /\ Counted(l)
    BY <1>1, <1>2, <1>4, <2>3
       DEF Steady, Equipped, Prepared, Counted, Earlier, WithItems
  <2>5. Steady(l)
    BY <2>2, <2>4 DEF Steady
  <2> QED
    BY <1>1, <1>4, <2>5, BecomeSteady DEF l
<1>5. CASE KeyCached(t)
  <2>1. Entry(t) \in Keys
    BY <1>1, <1>5 DEF KeyCached, SharedTyped
  <2>2. Entry(t) \in (Devices \X (0 .. MaxGen)) \cup {NoKey}
    BY <2>1 DEF Keys
  <2> QED
    BY <1>4, <1>5, <2>1, <2>2 DEF KeyCached, WithItems
<1>6. CASE KeyMissing(t)
  <2>1. <<active_profile, 0>> \in Devices \X (0 .. MaxGen)
    BY <1>3
  <2>2. <<active_profile, 0>> # NoKey
    BY <2>1, PipelineAssumption
  <2> QED
    BY <1>4, <1>6, <2>1, <2>2 DEF KeyMissing, WithItems
<1>7. CASE FetchKey(t)
  <2> DEFINE k == <<task[t].key[1], generation[task[t].key[1]]>>
  <2>1. task[t].key \in Devices \X (0 .. MaxGen)
    BY <1>1, <1>7 DEF FetchKey, At, Steady, Equipped, Locals
  <2>2. generation[task[t].key[1]] \in 1 .. MaxGen
    BY <1>1, <2>1 DEF SharedTyped
  <2>3. k \in Keys /\ k \in (Devices \X (0 .. MaxGen)) \cup {NoKey}
    BY <1>3, <2>1, <2>2 DEF Keys
  <2> QED
    BY <1>4, <1>7, <2>3 DEF FetchKey, WithItems
<1>8. CASE DecryptFails(t)
  <2> DEFINE k == task[t].key
             l == [task[t] EXCEPT !.pc = "items", !.failed = k]
  <2>1. task[t].pc = "decrypt" /\ Become(t, l)
    BY <1>8 DEF DecryptFails, At
  <2>2. k \in Keys \cup {NoKey}
    BY <1>1, <2>1 DEF Steady, Equipped
  <2> HIDE DEF k
  <2>3. l \in Locals
    BY <1>1, <2>2, ZenonT(30) DEF Locals
  <2>4. /\ l.pc = "items" /\ l.dir = task[t].dir /\ l.reports = task[t].reports
        /\ l.call = task[t].call /\ l.want = task[t].want /\ l.todo = task[t].todo
        /\ l.gen = task[t].gen
    BY <1>1 DEF Locals
  <2> HIDE DEF l
  <2>5. Equipped(l) /\ Prepared(l) /\ Counted(l)
    BY <1>1, <1>2, <2>4
       DEF Steady, Equipped, Prepared, Counted, Earlier, WithItems
  <2>6. Steady(l)
    BY <2>3, <2>5 DEF Steady
  <2> QED
    BY <1>1, <2>1, <2>6, BecomeSteady DEF k, l
<1> QED
  BY <1>5, <1>6, <1>7, <1>8

LEMMA ItemsSteady ==
  ASSUME Typed, NEW t \in Tasks,
         \/ ItemMissing(t) \/ KeyUnavailable(t) \/ EmptyText(t)
         \/ Decrypt(t) \/ Garble(t) \/ DecryptFailsAgain(t)
  PROVE  LocalInv'
BY AfterItemSteady
   DEF Typed, ItemMissing, KeyUnavailable, EmptyText, Decrypt, Garble,
       DecryptFailsAgain, StoreChapter, At, WithItems

LEMMA InsertKeySteady ==
  ASSUME Typed, NEW t \in Tasks, InsertKey(t)
  PROVE  LocalInv'
<1> DEFINE k == task[t].key
           l == [Inserted(k)[t] EXCEPT !.pc = "decrypt"]
<1>1. LocalInv /\ Steady(task[t])
  BY DEF Typed, LocalInv
<1>2. /\ task[t].pc = "insertKey" /\ k \in Keys
      /\ task' = [Inserted(k) EXCEPT ![t].pc = "decrypt"]
  BY <1>1 DEF InsertKey, At, Steady, Equipped
<1> HIDE DEF k
<1>3. /\ \A u \in Tasks : Inserted(k)[u] \in Locals /\ Steady(Inserted(k)[u])
      /\ DOMAIN Inserted(k) = Tasks
  BY <1>1, <1>2, InsertedLocals, InsertedSteady DEF Inserted
<1>4. Steady(l)
  <2> DEFINE m == Inserted(k)[t]
  <2>1. m \in Locals /\ Steady(m) /\ "decrypt" \in Places
    BY <1>3 DEF Places, WithItems
  <2>2. m.pc = "insertKey" /\ m.key = k
    BY <1>1, <1>2, InsertedLocals DEF k
  <2> HIDE DEF m
  <2>3. [m EXCEPT !.pc = "decrypt"] \in Locals
    BY <2>1, ZenonT(30) DEF Locals
  <2> DEFINE n == [m EXCEPT !.pc = "decrypt"]
  <2>4. /\ n.pc = "decrypt" /\ n.dir = m.dir /\ n.reports = m.reports
        /\ n.call = m.call /\ n.want = m.want /\ n.todo = m.todo
        /\ n.gen = m.gen /\ n.key = m.key
    BY <2>1 DEF Locals
  <2> HIDE DEF n
  <2>5. Equipped(n) /\ Prepared(n) /\ Counted(n)
    BY <1>2, <2>1, <2>2, <2>4
       DEF Steady, Equipped, Prepared, Counted, Earlier, WithItems
  <2> QED
    BY <2>3, <2>5 DEF Steady, m, n
<1>5. \A u \in Tasks : task'[u] = IF u = t THEN l ELSE Inserted(k)[u]
  BY <1>2, <1>3
<1>6. task' \in [Tasks -> Locals]
  <2>1. DOMAIN task' = Tasks /\ task' = [u \in Tasks |-> task'[u]]
    BY <1>2, <1>3
  <2>2. \A u \in Tasks : task'[u] \in Locals
    BY <1>3, <1>4, <1>5 DEF Steady
  <2> QED
    BY <2>1, <2>2
<1>7. \A u \in Tasks : Steady(task'[u])
  BY <1>3, <1>4, <1>5
<1>8. \A u \in Tasks : Steady(task[u])'
  BY <1>7 DEF Steady, Locals, Equipped, Prepared, Counted, Earlier
<1> QED
  BY <1>6, <1>8 DEF LocalInv

-----------------------------------------------------------------------------
(* The same of what goes on beside the requests, and of the shared state. *)

LEMMA BesideSteady ==
  ASSUME Typed,
         \/ OthersRotate \/ Tick \/ \E c \in Chapters : OthersCache(c)
         \/ \E d \in Devices : Rekey(d) \/ OthersInvalidate(d)
         \/ \E d \in Devices, gen \in 1 .. MaxGen : OthersInsertKey(d, gen)
  PROVE  LocalInv'
<1>1. CASE UNCHANGED task
  BY <1>1 DEF Typed, LocalInv, Steady
<1>2. CASE \E d \in Devices, gen \in 1 .. MaxGen : OthersInsertKey(d, gen)
  <2>1. PICK d \in Devices, gen \in 1 .. MaxGen : OthersInsertKey(d, gen)
    BY <1>2
  <2> DEFINE k == <<d, gen>>
  <2>2. k \in Keys /\ task' = Inserted(k) /\ LocalInv
    BY <2>1 DEF Keys, OthersInsertKey, Typed
  <2> HIDE DEF k
  <2>3. \A u \in Tasks : task'[u] \in Locals /\ Steady(task'[u])
    BY <2>2, InsertedLocals, InsertedSteady
  <2>4. task' \in [Tasks -> Locals]
    BY <2>2, <2>3 DEF Inserted
  <2> QED
    BY <2>3, <2>4 DEF LocalInv, Steady
<1> QED
  BY <1>1, <1>2 DEF OthersRotate, Tick, OthersCache, Rekey, OthersInvalidate

LEMMA RotateBesideTyped ==
  ASSUME NEW others \in SUBSET Tasks, RotateBeside(others),
         SharedTyped, UNCHANGED clock
  PROVE  TypeOK' /\ crossed' \in BOOLEAN
<1>1. TypeOK'
  BY PoolStepTyped DEF RotateBeside, SharedTyped
<1>2. crossed' \in BOOLEAN
  BY DEF RotateBeside, SharedTyped
<1> QED
  BY <1>1, <1>2

\* What an action does to the keys keeps their types.
LEMMA KeysTyped ==
  ASSUME SharedTyped
  PROVE  /\ \A d \in Devices : Invalidate(d) =>
              cache_by_key' \in SUBSET Keys /\ current' \in [Devices -> 0 .. MaxGen]
         /\ \A k \in Keys : PutKey(k) =>
              cache_by_key' \in SUBSET Keys /\ current' \in [Devices -> 0 .. MaxGen]
<1>1. MaxGen \in Nat \ {0}
  BY PipelineAssumption
<1> QED
  BY <1>1 DEF SharedTyped, Invalidate, PutKey, Keys

LEMMA ProceedShared ==
  ASSUME Typed, NEW t \in Tasks, Proceed(t)
  PROVE  SharedTyped'
<1>1. /\ SharedTyped /\ Steady(task[t]) /\ task[t] \in Locals
      /\ MaxGen \in Nat \ {0} /\ active_profile \in Devices
  BY ActiveIsDevice, PipelineAssumption DEF Typed, LocalInv, SharedTyped
<1>2. CASE UNCHANGED <<poolVars, cacheVars, keyVars, externalVars, crossed>>
  <2>1. TypeOK'
    BY <1>1, <1>2, PoolStepTyped DEF SharedTyped, poolVars
  <2> QED
    BY <1>1, <1>2, <2>1
       DEF SharedTyped, cacheVars, keyVars, externalVars, poolVars
<1>3. CASE DirectoryMissing(t) \/ \E d \in Directories : DirectoryArrives(t, d)
  <2>1. TypeOK'
    BY <1>1, <1>3, PoolStepTyped
       DEF DirectoryMissing, DirectoryArrives, SharedTyped, poolVars
  <2>2. Form(t) \in Forms
    BY DEF Form, Forms
  <2>3. directory_cache' \in [Forms -> Given \cup {NoDirectory}]
    BY <1>1, <1>3, <2>2
       DEF DirectoryMissing, DirectoryArrives, SharedTyped, Given
  <2> QED
    BY <1>1, <1>3, <2>1, <2>3
       DEF DirectoryMissing, DirectoryArrives, SharedTyped, keyVars, externalVars
<1>4. CASE RotateAndResend(t) \/ HealRotate(t)
  <2>1. Tasks \ {t} \in SUBSET Tasks /\ UNCHANGED clock
    BY <1>4 DEF RotateAndResend, HealRotate
  <2>2. CASE RotateBeside(Tasks \ {t})
    BY <1>1, <1>4, <2>1, <2>2, RotateBesideTyped
       DEF RotateAndResend, HealRotate, SharedTyped, cacheVars, keyVars,
           externalVars
  <2>3. CASE UNCHANGED <<devicePoolVars, crossed>>
    <3>1. TypeOK'
      BY <1>1, <2>1, <2>3, PoolStepTyped DEF SharedTyped
    <3> QED
      BY <1>1, <1>4, <2>3, <3>1
         DEF RotateAndResend, HealRotate, SharedTyped, cacheVars, keyVars,
             externalVars
  <2> QED
    BY <1>4, <2>2, <2>3 DEF RotateAndResend, HealRotate
<1>5. CASE HealInvalidate(t) \/ DecryptFails(t) \/ InsertKey(t) \/ KeyMissing(t)
  <2>1. TypeOK'
    BY <1>1, <1>5, PoolStepTyped
       DEF HealInvalidate, DecryptFails, InsertKey, KeyMissing, SharedTyped, poolVars
  <2>2. CASE HealInvalidate(t) \/ DecryptFails(t) \/ InsertKey(t)
    <3>1. InsertKey(t) \/ DecryptFails(t) => task[t].key \in Keys
      BY <1>1 DEF InsertKey, DecryptFails, At, Steady, Equipped
    <3>2. DecryptFails(t) => task[t].key[1] \in Devices
      BY <3>1 DEF Keys
    <3>3. cache_by_key' \in SUBSET Keys /\ current' \in [Devices -> 0 .. MaxGen]
      BY <1>1, <2>2, <3>1, <3>2, KeysTyped DEF HealInvalidate, DecryptFails, InsertKey
    <3> QED
      BY <1>1, <2>1, <2>2, <3>3
         DEF HealInvalidate, DecryptFails, InsertKey, SharedTyped, cacheVars,
             externalVars
  <2>3. CASE KeyMissing(t)
    BY <1>1, <2>1, <2>3 DEF KeyMissing, SharedTyped, cacheVars, externalVars
  <2> QED
    BY <1>5, <2>2, <2>3
<1>6. CASE BookReady(t)
  <2>1. TypeOK'
    BY <1>1, <1>6, PoolStepTyped DEF BookReady, SharedTyped, poolVars
  <2>2. task[t].dir \in Given
    <3>1. task[t].dir # NoDirectory
      BY <1>1, <1>6, PipelineAssumption DEF BookReady, At, Steady, Prepared
    <3> QED
      BY <1>1, <3>1 DEF Locals
  <2>3. TotalChapters(task[t].dir) \in Int
    BY <1>6, <2>2, GivenShape DEF BookReady
  <2> QED
    BY <1>1, <1>6, <2>1, <2>3 DEF BookReady, SharedTyped, keyVars, externalVars
<1>7. CASE Decrypt(t) \/ Garble(t)
  <2>1. TypeOK'
    BY <1>1, <1>7, PoolStepTyped
       DEF Decrypt, Garble, StoreChapter, SharedTyped, poolVars
  <2>2. chapter_cache' \in [Chapters -> {"none", "text", "garbage"}]
    BY <1>1, <1>7 DEF Decrypt, Garble, StoreChapter, SharedTyped
  <2> QED
    BY <1>1, <1>7, <2>1, <2>2
       DEF Decrypt, Garble, StoreChapter, SharedTyped, keyVars, externalVars
<1>8. CASE \/ DirectoryCached(t) \/ Send(t) \/ BatchArrives(t)
           \/ \E heal \in BOOLEAN : Fail(t, heal)
           \/ TocReady(t) \/ BookUnknown(t) \/ StartPrefetch(t)
           \/ SkipPrefetch(t) \/ Prefetched(t) \/ StartSingle(t)
           \/ ItemMissing(t) \/ KeyCached(t) \/ FetchKey(t)
           \/ KeyUnavailable(t) \/ EmptyText(t) \/ DecryptFailsAgain(t)
  BY <1>2, <1>8
     DEF DirectoryCached, Send, BatchArrives, Fail, TocReady, BookUnknown,
         StartPrefetch, SkipPrefetch, Prefetched, StartSingle, ItemMissing,
         KeyCached, FetchKey, KeyUnavailable, EmptyText, DecryptFailsAgain
<1> QED
  BY <1>3, <1>4, <1>5, <1>6, <1>7, <1>8 DEF Proceed

LEMMA OtherShared ==
  ASSUME Typed, Next, ~ \E t \in Tasks : Proceed(t)
  PROVE  SharedTyped'
<1>1. SharedTyped /\ MaxGen \in Nat \ {0}
  BY PipelineAssumption DEF Typed
<1>2. CASE \E t \in Tasks : Request(t)
  <2>1. TypeOK'
    BY <1>1, <1>2, PoolStepTyped
       DEF Request, RequestChapter, RequestToc, RequestBook, SharedTyped, poolVars
  <2> QED
    BY <1>1, <1>2, <2>1
       DEF Request, RequestChapter, RequestToc, RequestBook, SharedTyped,
           cacheVars, keyVars, externalVars
<1>3. CASE OthersRotate
  <2>1. TypeOK' /\ crossed' \in BOOLEAN
    BY <1>1, <1>3, RotateBesideTyped DEF OthersRotate
  <2> QED
    BY <1>1, <1>3, <2>1
       DEF OthersRotate, SharedTyped, cacheVars, keyVars, externalVars
<1>4. CASE Tick
  <2>1. TypeOK'
    BY <1>1, <1>4, PoolStepTyped DEF Tick, SharedTyped
  <2> QED
    BY <1>1, <1>4, <2>1 DEF Tick, SharedTyped, cacheVars, keyVars, externalVars
<1>5. CASE \E c \in Chapters : OthersCache(c)
  <2>1. TypeOK'
    BY <1>1, <1>5, PoolStepTyped DEF OthersCache, SharedTyped, poolVars
  <2> QED
    BY <1>1, <1>5, <2>1 DEF OthersCache, SharedTyped, keyVars, externalVars
<1>6. CASE \E d \in Devices : Rekey(d)
  <2>1. TypeOK'
    BY <1>1, <1>6, PoolStepTyped DEF Rekey, SharedTyped, poolVars
  <2>2. generation' \in [Devices -> 1 .. MaxGen]
    BY <1>1, <1>6 DEF Rekey, SharedTyped
  <2> QED
    BY <1>1, <1>6, <2>1, <2>2 DEF Rekey, SharedTyped, cacheVars, keyVars
<1>7. CASE \/ \E d \in Devices : OthersInvalidate(d)
           \/ \E d \in Devices, gen \in 1 .. MaxGen : OthersInsertKey(d, gen)
  <2>1. TypeOK'
    BY <1>1, <1>7, PoolStepTyped
       DEF OthersInvalidate, OthersInsertKey, SharedTyped, poolVars
  <2>2. \A d \in Devices, gen \in 1 .. MaxGen : <<d, gen>> \in Keys
    BY DEF Keys
  <2>3. cache_by_key' \in SUBSET Keys /\ current' \in [Devices -> 0 .. MaxGen]
    BY <1>1, <1>7, <2>2, KeysTyped DEF OthersInvalidate, OthersInsertKey
  <2> QED
    BY <1>1, <1>7, <2>1, <2>3
       DEF OthersInvalidate, OthersInsertKey, SharedTyped, cacheVars, externalVars
<1> QED
  BY <1>2, <1>3, <1>4, <1>5, <1>6, <1>7 DEF Next

LEMMA ProceedSteady ==
  ASSUME Typed, NEW t \in Tasks, Proceed(t)
  PROVE  LocalInv'
BY DirectorySteady, PlanSteady, CallSteady, DirectoryArrivesSteady, FailSteady,
   HealSteady, KeySteady, ItemsSteady, InsertKeySteady DEF Proceed

LEMMA InitTyped == Init => Typed
<1> SUFFICES ASSUME Init PROVE Typed
  OBVIOUS
<1>1. TypeOK
  BY InitPoolTyped DEF Init
<1>2. MaxGen \in Nat \ {0}
  BY PipelineAssumption
<1>3. SharedTyped
  <2>1. versioned \in BOOLEAN /\ crossed \in BOOLEAN
    BY DEF Init
  <2>2. generation \in [Devices -> 1 .. MaxGen] /\ current \in [Devices -> 0 .. MaxGen]
    BY <1>2 DEF Init
  <2>3. /\ chapter_cache \in [Chapters -> {"none", "text", "garbage"}]
        /\ directory_cache \in [Forms -> Given \cup {NoDirectory}]
        /\ book_cache \in SUBSET Int /\ cache_by_key \in SUBSET Keys
    BY DEF Init
  <2> QED
    BY <1>1, <2>1, <2>2, <2>3 DEF SharedTyped
<1>4. LocalInv
  BY IdleSteady DEF Init, LocalInv, Steady
<1> QED
  BY <1>3, <1>4 DEF Typed

LEMMA TypedStep == Typed /\ [Next]_vars => Typed'
<1> SUFFICES ASSUME Typed, [Next]_vars PROVE Typed'
  OBVIOUS
<1>1. CASE \E t \in Tasks : Proceed(t)
  BY <1>1, ProceedShared, ProceedSteady DEF Typed
<1>2. CASE Next /\ ~ \E t \in Tasks : Proceed(t)
  <2>1. SharedTyped'
    BY <1>2, OtherShared
  <2>2. LocalInv'
    BY <1>2, RequestSteady, BesideSteady DEF Next
  <2> QED
    BY <2>1, <2>2 DEF Typed
<1>3. CASE UNCHANGED vars
  <2>1. TypeOK'
    BY <1>3, PoolStepTyped DEF vars, poolVars, Typed, SharedTyped
  <2> QED
    BY <1>3, <2>1
       DEF Typed, SharedTyped, LocalInv, Steady, vars, cacheVars, keyVars,
           externalVars
<1> QED
  BY <1>1, <1>2, <1>3

LEMMA AlwaysTyped == Spec => []Typed
BY InitTyped, TypedStep, PTL DEF Spec

(* PipelineTypeOK, for every instance: no walk over a batch leaves it, no   *)
(* decryption lacks a key (upstream.rs:117-168, 364-405, 470-523).          *)
THEOREM PipelineTypeCorrect == Spec => []PipelineTypeOK
<1>1. Typed => PipelineTypeOK
  BY DEF Typed, SharedTyped, LocalInv, Steady, PipelineTypeOK
<1> QED
  BY <1>1, AlwaysTyped, PTL

(* A request reports at most two failures (upstream.rs:138-167): counted by *)
(* the call that a task is in, and by whether it has a directory.           *)
THEOREM FewReports == Spec => []ReportsBounded
<1>1. Typed => ReportsBounded
  <2> SUFFICES ASSUME Typed, NEW t \in Tasks
               PROVE  /\ task[t].reports <= 2
                      /\ task[t].reports = 2 =>
                           /\ task[t].call = "single"
                           /\ task[t].pc \in {"heal", "healRotate"}
    BY DEF ReportsBounded
  <2>1. Counted(task[t]) /\ task[t].pc \in Places /\ task[t].reports \in Nat
    BY DEF Typed, LocalInv, Steady, Locals
  <2>2. Earlier(task[t]) = IF task[t].call = "single" THEN 1 ELSE 0
    BY DEF Earlier
  <2> QED
    BY <2>1, <2>2 DEF Counted, Places
<1> QED
  BY <1>1, AlwaysTyped, PTL

-----------------------------------------------------------------------------
(* Garbage comes of a key that does not fit, and while the pool stands      *)
(* still and keys are numbered, the key at hand is that of the device the   *)
(* batch was sent with, which is the active one.                            *)

BatchPlaces == {"await"} \cup WithItems

Faithful(l, active) ==
  l.call \in {"prefetch", "single"} /\ l.pc \in BatchPlaces =>
    /\ l.device = active
    /\ l.pc \in {"fetchKey", "insertKey", "decrypt"} => l.key[1] = l.device
    /\ l.pc \in {"insertKey", "decrypt"} => l.key = <<l.device, l.gen>>

TextInv ==
  versioned /\ ~crossed =>
    /\ \A c \in Chapters : chapter_cache[c] # "garbage"
    /\ \A t \in Tasks : Faithful(task[t], active_profile)

\* Steps that leave a task outside of a batch.
Leaves(t) ==
  \/ Request(t) \/ DirectoryCached(t) \/ DirectoryMissing(t)
  \/ \E d \in Directories : DirectoryArrives(t, d)
  \/ \E heal \in BOOLEAN : Fail(t, heal)
  \/ RotateAndResend(t) \/ HealInvalidate(t) \/ HealRotate(t)
  \/ TocReady(t) \/ BookReady(t) \/ BookUnknown(t)
  \/ StartPrefetch(t) \/ SkipPrefetch(t) \/ Prefetched(t) \/ StartSingle(t)

LEMMA LeavesBatch ==
  ASSUME LocalInv, NEW t \in Tasks, Leaves(t)
  PROVE  /\ task'[t].pc \notin BatchPlaces
         /\ \/ task'[t].failed = NoKey
            \/ task'[t].failed = task[t].failed /\ task'[t].since = task[t].since
         /\ \A u \in Tasks \ {t} : task'[u] = task[u]
<1>1. task \in [Tasks -> Locals] /\ task[t] \in Locals
  BY DEF LocalInv
<1> DEFINE Out == {"idle", "start", "plan", "recheck", "send", "heal", "healRotate"}
           Keeps(l) == \/ l.failed = NoKey
                       \/ l.failed = task[t].failed /\ l.since = task[t].since
<1> SUFFICES /\ task'[t].pc \notin BatchPlaces
             /\ Keeps(task'[t])
             /\ \A u \in Tasks \ {t} : task'[u] = task[u]
  OBVIOUS
<1>2. Out \cap BatchPlaces = {}
  BY DEF BatchPlaces, WithItems
<1>3. ASSUME NEW l, Become(t, l), l.pc \in Out, Keeps(l)
      PROVE  /\ task'[t].pc \notin BatchPlaces
             /\ Keeps(task'[t])
             /\ \A u \in Tasks \ {t} : task'[u] = task[u]
  BY <1>1, <1>2, <1>3 DEF Become
<1>4. CASE Request(t)
  BY <1>3, <1>4 DEF Request, RequestChapter, RequestToc, RequestBook, Idle
<1>5. CASE DirectoryCached(t)
  BY <1>1, <1>3, <1>5 DEF DirectoryCached, Locals
<1>6. CASE DirectoryMissing(t)
  BY <1>1, <1>3, <1>6 DEF DirectoryMissing, Calling, Locals
<1>7. CASE \E d \in Directories : DirectoryArrives(t, d)
  BY <1>1, <1>3, <1>7 DEF DirectoryArrives, Locals
<1>8. ASSUME NEW l \in Locals, Keeps(l)
      PROVE  AfterFailure(t, l).pc \in Out /\ Keeps(AfterFailure(t, l))
  BY <1>8 DEF AfterFailure, Idle, Locals
<1>9. CASE \E heal \in BOOLEAN : Fail(t, heal)
  <2> DEFINE r == [task[t] EXCEPT !.reports = @ + 1]
  <2>1. r \in Locals
    <3>1. task[t].reports + 1 \in Nat
      BY <1>1 DEF Locals
    <3> QED
      BY <1>1, <3>1, ZenonT(30) DEF Locals
  <2>2. Become(t, [r EXCEPT !.pc = "heal"]) \/ Become(t, AfterFailure(t, r))
    BY <1>9 DEF Fail
  <2>3. Keeps(r)
    BY <1>1 DEF Locals
  <2>4. /\ [r EXCEPT !.pc = "heal"].pc = "heal"
        /\ Keeps([r EXCEPT !.pc = "heal"])
    BY <2>1, <2>3 DEF Locals
  <2> HIDE DEF r, Keeps
  <2> QED
    BY <1>3, <1>8, <2>1, <2>2, <2>3, <2>4
<1>10. CASE HealRotate(t)
  BY <1>1, <1>3, <1>8, <1>10 DEF HealRotate
<1>11. CASE RotateAndResend(t)
  BY <1>1, <1>3, <1>11 DEF RotateAndResend, Locals
<1>12. CASE HealInvalidate(t) \/ SkipPrefetch(t)
  BY <1>1, <1>3, <1>12 DEF HealInvalidate, SkipPrefetch, Goto, Locals
<1>13. CASE TocReady(t) \/ BookReady(t) \/ BookUnknown(t) \/ Prefetched(t)
  BY <1>3, <1>13 DEF TocReady, BookReady, BookUnknown, Prefetched, Return, Idle
<1>14. CASE StartPrefetch(t) \/ StartSingle(t)
  BY <1>1, <1>3, <1>14 DEF StartPrefetch, StartSingle, Calling, Locals
<1> HIDE DEF Out, Keeps
<1> QED
  BY <1>4, <1>5, <1>6, <1>7, <1>9, <1>10, <1>11, <1>12, <1>13, <1>14 DEF Leaves

\* A pool that rotates beside tasks in a batch has crossed them.
LEMMA PoolStands ==
  ASSUME Typed, NEW others \in SUBSET Tasks, RotateBeside(others), ~crossed'
  PROVE  ~crossed /\ \A u \in others : ~InBatch(u)
BY DEF RotateBeside

LEMMA LeavesText ==
  ASSUME Typed, TextInv, NEW t \in Tasks, Leaves(t)
  PROVE  TextInv'
<1> SUFFICES ASSUME versioned', ~crossed'
             PROVE  /\ \A c \in Chapters : chapter_cache'[c] # "garbage"
                    /\ \A u \in Tasks : Faithful(task'[u], active_profile')
  BY DEF TextInv, Faithful
<1>1. /\ task'[t].pc \notin BatchPlaces
      /\ \A u \in Tasks \ {t} : task'[u] = task[u]
  BY LeavesBatch DEF Typed
<1>2. versioned
  BY DEF Leaves, Request, RequestChapter, RequestToc, RequestBook,
         DirectoryCached, DirectoryMissing, DirectoryArrives, Fail,
         RotateAndResend, HealInvalidate, HealRotate, TocReady, BookReady,
         BookUnknown, StartPrefetch, SkipPrefetch, Prefetched, StartSingle,
         externalVars
<1>3. /\ ~crossed
      /\ \/ active_profile' = active_profile
         \/ \A u \in Tasks \ {t} : ~InBatch(u)
  <2>1. CASE RotateBeside(Tasks \ {t})
    BY <2>1, PoolStands
  <2>2. CASE UNCHANGED <<devicePoolVars, crossed>>
    BY <2>2 DEF devicePoolVars
  <2> QED
    BY <2>1, <2>2
       DEF Leaves, Request, RequestChapter, RequestToc, RequestBook,
           DirectoryCached, DirectoryMissing, DirectoryArrives, Fail,
           RotateAndResend, HealInvalidate, HealRotate, TocReady, BookReady,
           BookUnknown, StartPrefetch, SkipPrefetch, Prefetched, StartSingle,
           poolVars
<1>4. /\ \A c \in Chapters : chapter_cache[c] # "garbage"
      /\ \A u \in Tasks : Faithful(task[u], active_profile)
  BY <1>2, <1>3 DEF TextInv
<1>5. \A c \in Chapters : chapter_cache'[c] # "garbage"
  BY <1>4
     DEF Typed, SharedTyped, Leaves, Request, RequestChapter, RequestToc,
         RequestBook, DirectoryCached, DirectoryMissing, DirectoryArrives, Fail,
         RotateAndResend, HealInvalidate, HealRotate, TocReady, BookReady,
         BookUnknown, StartPrefetch, SkipPrefetch, Prefetched, StartSingle,
         cacheVars
<1>6. \A u \in Tasks : Faithful(task'[u], active_profile')
  BY <1>1, <1>3, <1>4 DEF Faithful, InBatch, BatchPlaces, WithItems
<1> QED
  BY <1>5, <1>6

\* Within a batch: nothing but the task and the caches moves.
LEMMA WithinBatchText ==
  ASSUME Typed, TextInv, NEW t \in Tasks, Proceed(t), ~Leaves(t)
  PROVE  TextInv'
<1> SUFFICES ASSUME versioned', ~crossed'
             PROVE  /\ \A c \in Chapters : chapter_cache'[c] # "garbage"
                    /\ \A u \in Tasks : Faithful(task'[u], active_profile')
  BY DEF TextInv, Faithful
<1>1. \/ Send(t) \/ BatchArrives(t) \/ ItemMissing(t) \/ KeyCached(t)
      \/ KeyMissing(t) \/ FetchKey(t) \/ KeyUnavailable(t) \/ InsertKey(t)
      \/ Decrypt(t) \/ Garble(t) \/ EmptyText(t) \/ DecryptFails(t)
      \/ DecryptFailsAgain(t)
  BY DEF Proceed, Leaves
<1>2. UNCHANGED <<active_profile, versioned, crossed>>
  BY <1>1
     DEF Send, BatchArrives, ItemMissing, KeyCached, KeyMissing, FetchKey,
         KeyUnavailable, InsertKey, Decrypt, Garble, EmptyText, DecryptFails,
         DecryptFailsAgain, StoreChapter, poolVars, devicePoolVars, externalVars
<1>3. /\ \A c \in Chapters : chapter_cache[c] # "garbage"
      /\ \A u \in Tasks : Faithful(task[u], active_profile)
      /\ versioned
  BY <1>2 DEF TextInv
<1>4. /\ LocalInv /\ task \in [Tasks -> Locals] /\ task[t] \in Locals
      /\ Steady(task[t]) /\ SharedTyped
  BY DEF Typed, LocalInv
<1>5. task[t].pc \in WithItems =>
        /\ task[t].device = active_profile /\ task[t].gen # 0
        /\ task[t].pc \in {"fetchKey", "insertKey", "decrypt"} =>
             task[t].key[1] = task[t].device
        /\ task[t].pc \in {"insertKey", "decrypt"} => Fits(t)
  BY <1>3, <1>4 DEF Faithful, BatchPlaces, Steady, Equipped, Fits
<1>6. \A c \in Chapters : chapter_cache'[c] # "garbage"
  <2>1. ~Garble(t)
    BY <1>5 DEF Garble, At, WithItems
  <2> QED
    BY <1>1, <1>3, <1>4, <2>1
       DEF Send, BatchArrives, ItemMissing, KeyCached, KeyMissing, FetchKey,
           KeyUnavailable, InsertKey, Decrypt, EmptyText, DecryptFails,
           DecryptFailsAgain, StoreChapter, cacheVars, SharedTyped
\* Whatever becomes of the task, it is faithful if its locals are.
<1>7. ASSUME NEW l, Become(t, l), Faithful(l, active_profile)
      PROVE  /\ \A c \in Chapters : chapter_cache'[c] # "garbage"
             /\ \A u \in Tasks : Faithful(task'[u], active_profile')
  BY <1>2, <1>3, <1>4, <1>6, <1>7 DEF Become
<1>8. CASE Send(t)
  <2> DEFINE l == [task[t] EXCEPT !.pc = "await", !.device = active_profile]
  <2>1. Become(t, l) /\ l.pc = "await" /\ l.device = active_profile
    BY <1>4, <1>8 DEF Send, Locals
  <2>2. Faithful(l, active_profile)
    BY <2>1 DEF Faithful
  <2> QED
    BY <1>7, <2>1, <2>2
<1>9. CASE BatchArrives(t)
  <2> DEFINE l == [task[t] EXCEPT !.pc = "items", !.gen = generation[task[t].device]]
  <2>1. /\ Become(t, l) /\ l.pc = "items" /\ l.device = task[t].device
        /\ task[t].pc = "await" /\ l.call = task[t].call
    BY <1>4, <1>9 DEF BatchArrives, At, Locals
  <2>2. Faithful(l, active_profile)
    BY <1>3, <2>1 DEF Faithful, BatchPlaces
  <2> QED
    BY <1>7, <2>1, <2>2
<1>10. CASE \/ ItemMissing(t) \/ KeyUnavailable(t) \/ Decrypt(t) \/ Garble(t)
            \/ EmptyText(t) \/ DecryptFailsAgain(t)
  <2> DEFINE l == [task[t] EXCEPT
         !.pc = IF Len(task[t].todo) = 1 THEN "recheck" ELSE "items",
         !.todo = Tail(@), !.key = NoKey, !.failed = NoKey, !.since = {}]
  <2>1. AfterItem(t) /\ task[t].pc \in WithItems
    BY <1>10 DEF ItemMissing, KeyUnavailable, Decrypt, Garble, EmptyText,
                 DecryptFailsAgain, StoreChapter, At, WithItems
  <2>2. CASE Become(t, Idle)
    BY <1>7, <2>2 DEF Faithful, Idle, BatchPlaces, WithItems
  <2>3. CASE Become(t, l)
    <3>1. l.pc \in {"recheck", "items"} /\ l.device = task[t].device
      BY <1>4 DEF Locals
    <3>2. Faithful(l, active_profile)
      BY <1>5, <2>1, <3>1 DEF Faithful
    <3> QED
      BY <1>7, <2>3, <3>2
  <2> QED
    BY <2>1, <2>2, <2>3 DEF AfterItem, Return
<1>11. CASE KeyCached(t) \/ KeyMissing(t) \/ FetchKey(t) \/ DecryptFails(t)
  <2>1. CASE KeyCached(t)
    <3> DEFINE l == [task[t] EXCEPT !.pc = "decrypt", !.key = Entry(t)]
    <3>1. /\ Become(t, l) /\ l.pc = "decrypt" /\ l.key = Entry(t)
          /\ l.device = task[t].device /\ l.gen = task[t].gen
          /\ task[t].pc = "items"
      BY <1>4, <2>1 DEF KeyCached, At, Locals
    <3>2. Entry(t) = <<active_profile, task[t].gen>>
      BY <1>3, <1>5, <3>1 DEF Entry, WantedVersion, KeyVersion, WithItems
    <3>3. Faithful(l, active_profile)
      BY <1>5, <3>1, <3>2 DEF Faithful, WithItems
    <3> QED
      BY <1>7, <3>1, <3>3
  <2>2. CASE KeyMissing(t)
    <3> DEFINE l == [task[t] EXCEPT !.pc = "fetchKey", !.key = <<active_profile, 0>>]
    <3>1. /\ Become(t, l) /\ l.pc = "fetchKey" /\ l.key = <<active_profile, 0>>
          /\ l.device = task[t].device /\ task[t].pc = "items"
      BY <1>4, <2>2 DEF KeyMissing, At, Locals
    <3>2. Faithful(l, active_profile)
      BY <1>5, <3>1 DEF Faithful, WithItems
    <3> QED
      BY <1>7, <3>1, <3>2
  <2>3. CASE FetchKey(t)
    <3> DEFINE k == <<task[t].key[1], generation[task[t].key[1]]>>
               l == [task[t] EXCEPT !.pc = "insertKey", !.key = k]
    <3>1. /\ Become(t, l) /\ l.pc = "insertKey" /\ l.key = k
          /\ l.device = task[t].device /\ l.gen = task[t].gen
          /\ task[t].pc = "fetchKey"
          /\ KeyVersion(task[t].gen) \in {0, generation[task[t].key[1]]}
      BY <1>4, <2>3 DEF FetchKey, At, Locals
    <3>2. k = <<task[t].device, task[t].gen>> /\ task[t].device = active_profile
      BY <1>3, <1>5, <3>1 DEF KeyVersion, WithItems
    <3>3. Faithful(l, active_profile)
      BY <3>1, <3>2 DEF Faithful
    <3> QED
      BY <1>7, <3>1, <3>3
  <2>4. CASE DecryptFails(t)
    <3> DEFINE l == [task[t] EXCEPT !.pc = "items", !.failed = task[t].key]
    <3>1. /\ Become(t, l) /\ l.pc = "items" /\ l.device = task[t].device
          /\ task[t].pc = "decrypt"
      BY <1>4, <2>4 DEF DecryptFails, At, Locals
    <3>2. Faithful(l, active_profile)
      BY <1>5, <3>1 DEF Faithful, WithItems
    <3> QED
      BY <1>7, <3>1, <3>2
  <2> QED
    BY <1>11, <2>1, <2>2, <2>3, <2>4
<1>12. CASE InsertKey(t)
  <2> DEFINE k == task[t].key
  <2>1. /\ task[t].pc = "insertKey" /\ k \in Keys
        /\ task' = [Inserted(k) EXCEPT ![t].pc = "decrypt"]
    BY <1>4, <1>12 DEF InsertKey, At, Steady, Equipped
  <2> HIDE DEF k
  <2>2. \A u \in Tasks :
          /\ task'[u].call = task[u].call /\ task'[u].device = task[u].device
          /\ task'[u].gen = task[u].gen /\ task'[u].key = task[u].key
          /\ task'[u].pc = IF u = t THEN "decrypt" ELSE task[u].pc
    <3>1. \A u \in Tasks :
            /\ Inserted(k)[u] \in Locals
            /\ Inserted(k)[u].pc = task[u].pc /\ Inserted(k)[u].call = task[u].call
            /\ Inserted(k)[u].device = task[u].device
            /\ Inserted(k)[u].gen = task[u].gen /\ Inserted(k)[u].key = task[u].key
      BY <1>4, <2>1, InsertedLocals
    <3>2. task' = [u \in Tasks |-> IF u = t THEN [Inserted(k)[t] EXCEPT !.pc = "decrypt"]
                                   ELSE Inserted(k)[u]]
      BY <2>1 DEF Inserted
    <3> HIDE DEF k
    <3> QED
      BY <3>1, <3>2 DEF Locals
  <2> QED
    BY <1>2, <1>3, <1>5, <1>6, <2>1, <2>2 DEF Faithful, Fits, WithItems, BatchPlaces
<1> QED
  BY <1>1, <1>8, <1>9, <1>10, <1>11, <1>12

LEMMA BesideText ==
  ASSUME Typed, TextInv, Next, ~ \E t \in Tasks : Request(t) \/ Proceed(t)
  PROVE  TextInv'
<1> SUFFICES ASSUME versioned', ~crossed'
             PROVE  /\ \A c \in Chapters : chapter_cache'[c] # "garbage"
                    /\ \A u \in Tasks : Faithful(task'[u], active_profile')
  BY DEF TextInv, Faithful
<1>1. LocalInv /\ SharedTyped
  BY DEF Typed
<1>2. CASE OthersRotate
  <2>1. ~crossed /\ \A u \in Tasks : ~InBatch(u)
    BY <1>2, PoolStands DEF OthersRotate
  <2>2. versioned /\ UNCHANGED <<chapter_cache, task>>
    BY <1>2 DEF OthersRotate, externalVars, cacheVars
  <2> QED
    BY <2>1, <2>2 DEF TextInv, Faithful, InBatch, BatchPlaces, WithItems
<1>3. CASE \/ Tick \/ \E c \in Chapters : OthersCache(c)
           \/ \E d \in Devices : Rekey(d) \/ OthersInvalidate(d)
  <2>1. /\ versioned /\ ~crossed /\ UNCHANGED <<task, active_profile>>
        /\ \A c \in Chapters : chapter_cache'[c] \in {chapter_cache[c], "text"}
    BY <1>1, <1>3
       DEF Tick, OthersCache, Rekey, OthersInvalidate, externalVars, poolVars,
           devicePoolVars, cacheVars, SharedTyped
  <2> QED
    BY <2>1 DEF TextInv
<1>4. CASE \E d \in Devices, gen \in 1 .. MaxGen : OthersInsertKey(d, gen)
  <2>1. PICK k \in Keys : task' = Inserted(k)
    BY <1>4 DEF OthersInsertKey, Keys
  <2>2. versioned /\ ~crossed /\ UNCHANGED <<chapter_cache, active_profile>>
    BY <1>4 DEF OthersInsertKey, externalVars, poolVars, devicePoolVars, cacheVars
  <2>3. \A u \in Tasks :
          /\ task'[u].call = task[u].call /\ task'[u].device = task[u].device
          /\ task'[u].gen = task[u].gen /\ task'[u].key = task[u].key
          /\ task'[u].pc = task[u].pc
    BY <1>1, <2>1, InsertedLocals
  <2> QED
    BY <2>2, <2>3 DEF TextInv, Faithful
<1> QED
  BY <1>2, <1>3, <1>4 DEF Next

LEMMA TextStep == Typed /\ TextInv /\ [Next]_vars => TextInv'
<1> SUFFICES ASSUME Typed, TextInv, [Next]_vars PROVE TextInv'
  OBVIOUS
<1>1. CASE \E t \in Tasks : Request(t) \/ Proceed(t)
  BY <1>1, LeavesText, WithinBatchText DEF Leaves
<1>2. CASE UNCHANGED vars
  BY <1>2 DEF vars, poolVars, devicePoolVars, cacheVars, externalVars, TextInv
<1> QED
  BY <1>1, <1>2, BesideText

(* Garbage is cached only when the pool moved while a batch was under way,  *)
(* or the upstream does not number its keys (upstream.rs:483-498), whatever *)
(* the pool, the requests and the renewals of keys.                         *)
THEOREM OnlyText == Spec => []TextIsTrue
<1>1. Init => TextInv
  BY DEF Init, TextInv, Faithful, Idle
<1>2. TextInv => TextIsTrue
  BY DEF TextInv, TextIsTrue
<1> QED
  BY <1>1, <1>2, AlwaysTyped, TextStep, PTL DEF Spec

-----------------------------------------------------------------------------
(* After a failed decryption the keys cached for the failed key's device   *)
(* are all among those inserted since.                                      *)

RetryInv ==
  \A t \in Tasks :
    /\ task[t].failed # NoKey =>
         \A k \in cache_by_key : k[1] = task[t].failed[1] => k \in task[t].since
    /\ task[t].pc = "decrypt" /\ task[t].failed # NoKey
         /\ task[t].key[1] = task[t].failed[1] => task[t].key \in task[t].since

\* A step that caches no key keeps it, if the task's locals do.
LEMMA RetryFrame ==
  ASSUME LocalInv, RetryInv, NEW t \in Tasks, NEW l, Become(t, l),
         cache_by_key' \subseteq cache_by_key,
         l.failed # NoKey =>
           /\ \A k \in cache_by_key' : k[1] = l.failed[1] => k \in l.since
           /\ l.pc = "decrypt" /\ l.key[1] = l.failed[1] => l.key \in l.since
  PROVE  RetryInv'
<1>1. \A u \in Tasks : task'[u] = IF u = t THEN l ELSE task[u]
  BY DEF Become, LocalInv
<1> QED
  BY <1>1 DEF RetryInv


LEMMA LeavesRetry ==
  ASSUME LocalInv, RetryInv, NEW t \in Tasks, Leaves(t)
  PROVE  RetryInv'
<1>1. cache_by_key' \subseteq cache_by_key
  BY DEF Leaves, Request, RequestChapter, RequestToc, RequestBook,
         DirectoryCached, DirectoryMissing, DirectoryArrives, Fail,
         RotateAndResend, HealInvalidate, HealRotate, TocReady, BookReady,
         BookUnknown, StartPrefetch, SkipPrefetch, Prefetched, StartSingle,
         keyVars, Invalidate
<1>2. task'[t].pc # "decrypt"
  BY LeavesBatch DEF BatchPlaces, WithItems
<1> QED
  BY <1>1, <1>2, LeavesBatch DEF RetryInv

\* A key that is inserted is noted by whoever dropped its device's keys.
LEMMA InsertedRetry ==
  ASSUME LocalInv, RetryInv, NEW k \in Keys,
         cache_by_key' = cache_by_key \cup {k},
         NEW t,
         \A u \in Tasks :
           /\ task'[u].failed = Inserted(k)[u].failed
           /\ task'[u].since = Inserted(k)[u].since
           /\ task'[u].key = Inserted(k)[u].key
           /\ \/ task'[u].pc = Inserted(k)[u].pc
              \/ u = t /\ task'[u].key = k
  PROVE  RetryInv'
<1>1. \A u \in Tasks :
        /\ task'[u].failed = task[u].failed /\ task'[u].key = task[u].key
        /\ task'[u].since = IF task[u].failed # NoKey /\ task[u].failed[1] = k[1]
                              THEN task[u].since \cup {k} ELSE task[u].since
        /\ task'[u].pc = task[u].pc \/ task'[u].key = k
  BY InsertedLocals
<1> SUFFICES ASSUME NEW u \in Tasks, task'[u].failed # NoKey
             PROVE  /\ \A m \in cache_by_key' :
                         m[1] = task'[u].failed[1] => m \in task'[u].since
                    /\ task'[u].pc = "decrypt" /\ task'[u].key[1] = task'[u].failed[1]
                         => task'[u].key \in task'[u].since
  BY Zenon DEF RetryInv
<1>2. /\ task'[u].failed = task[u].failed /\ task[u].failed # NoKey
      /\ task'[u].key = task[u].key
  BY <1>1
<1>3. /\ \A m \in cache_by_key : m[1] = task[u].failed[1] => m \in task[u].since
      /\ task[u].pc = "decrypt" /\ task[u].key[1] = task[u].failed[1]
           => task[u].key \in task[u].since
  BY <1>2 DEF RetryInv
<1>4. /\ task[u].since \subseteq task'[u].since
      /\ k[1] = task[u].failed[1] => k \in task'[u].since
  BY <1>1, <1>2
<1>5. \A m \in cache_by_key \cup {k} :
        m[1] = task[u].failed[1] => m \in task'[u].since
  BY <1>3, <1>4
<1>6. task'[u].pc = "decrypt" /\ task[u].key[1] = task[u].failed[1]
        => task[u].key \in task'[u].since
  <2>1. task'[u].pc = task[u].pc \/ task[u].key = k
    BY <1>1
  <2> QED
    BY <1>3, <1>4, <2>1
<1> QED
  BY <1>2, <1>5, <1>6

LEMMA WithinBatchRetry ==
  ASSUME Typed, RetryInv, NEW t \in Tasks, Proceed(t), ~Leaves(t)
  PROVE  RetryInv'
<1>1. /\ LocalInv /\ task \in [Tasks -> Locals] /\ task[t] \in Locals
      /\ Steady(task[t])
  BY DEF Typed, LocalInv
<1>2. CASE Send(t) \/ BatchArrives(t) \/ FetchKey(t) \/ KeyMissing(t)
  <2> DEFINE Moved == /\ task'[t].failed = task[t].failed
                      /\ task'[t].since = task[t].since
                      /\ task'[t].pc # "decrypt"
                      /\ \A u \in Tasks \ {t} : task'[u] = task[u]
  <2>1. cache_by_key' \subseteq cache_by_key
    BY <1>2 DEF Send, BatchArrives, FetchKey, KeyMissing, keyVars
  <2>2. Send(t) => Moved
    BY <1>1 DEF Send, Become, Locals
  <2>3. BatchArrives(t) => Moved
    BY <1>1 DEF BatchArrives, Become, Locals
  <2>4. FetchKey(t) => Moved
    BY <1>1 DEF FetchKey, Become, Locals
  <2>5. KeyMissing(t) => Moved
    BY <1>1 DEF KeyMissing, Become, Locals
  <2>6. Moved
    BY <1>2, <2>2, <2>3, <2>4, <2>5
  <2> QED
    BY <2>1, <2>6 DEF RetryInv
<1>3. CASE KeyCached(t)
  <2>1. /\ cache_by_key' = cache_by_key /\ Entry(t) \in cache_by_key
        /\ task'[t].failed = task[t].failed /\ task'[t].since = task[t].since
        /\ task'[t].key = Entry(t)
        /\ \A u \in Tasks \ {t} : task'[u] = task[u]
    BY <1>1, <1>3 DEF KeyCached, Become, keyVars, Locals
  <2> QED
    BY <2>1 DEF RetryInv
<1>4. CASE DecryptFails(t)
  <2>1. /\ cache_by_key' = {k \in cache_by_key : k[1] # task[t].key[1]}
        /\ task'[t].failed = task[t].key /\ task'[t].pc = "items"
        /\ \A u \in Tasks \ {t} : task'[u] = task[u]
    BY <1>1, <1>4 DEF DecryptFails, Invalidate, Become, Locals
  <2> QED
    BY <2>1 DEF RetryInv
<1>5. CASE \/ ItemMissing(t) \/ KeyUnavailable(t) \/ Decrypt(t) \/ Garble(t)
           \/ EmptyText(t) \/ DecryptFailsAgain(t)
  <2>1. AfterItem(t) /\ cache_by_key' = cache_by_key
    BY <1>5 DEF ItemMissing, KeyUnavailable, Decrypt, Garble, EmptyText,
                DecryptFailsAgain, StoreChapter, keyVars
  <2> DEFINE l == [task[t] EXCEPT
         !.pc = IF Len(task[t].todo) = 1 THEN "recheck" ELSE "items",
         !.todo = Tail(@), !.key = NoKey, !.failed = NoKey, !.since = {}]
  <2>3. l.failed = NoKey /\ Idle.failed = NoKey
    BY <1>1 DEF Idle, Locals
  <2>4. Become(t, Idle) \/ Become(t, l)
    BY <2>1 DEF AfterItem, Return
  <2> HIDE DEF l
  <2>2. /\ task'[t].failed = NoKey
        /\ \A u \in Tasks \ {t} : task'[u] = task[u]
    BY <1>1, <2>3, <2>4 DEF Become
  <2> QED
    BY <2>1, <2>2 DEF RetryInv
<1>6. CASE InsertKey(t)
  <2> DEFINE k == task[t].key
  <2>1. /\ k \in Keys /\ cache_by_key' = cache_by_key \cup {k}
        /\ task' = [Inserted(k) EXCEPT ![t].pc = "decrypt"]
    BY <1>1, <1>6 DEF InsertKey, PutKey, At, Steady, Equipped
  <2>2. \A u \in Tasks : Inserted(k)[u] \in Locals /\ Inserted(k)[u].key = task[u].key
    BY <1>1, <2>1, InsertedLocals
  <2>3. task' = [u \in Tasks |-> IF u = t THEN [Inserted(k)[t] EXCEPT !.pc = "decrypt"]
                                 ELSE Inserted(k)[u]]
    BY <2>1 DEF Inserted
  <2> HIDE DEF k
  <2>4. \A u \in Tasks :
          /\ task'[u].failed = Inserted(k)[u].failed
          /\ task'[u].since = Inserted(k)[u].since
          /\ task'[u].key = Inserted(k)[u].key
          /\ task'[u].pc = Inserted(k)[u].pc \/ (u = t /\ task'[u].key = k)
    BY <2>2, <2>3 DEF Locals, k
  <2> QED
    BY <1>1, <2>1, <2>4, InsertedRetry
<1> QED
  BY <1>2, <1>3, <1>4, <1>5, <1>6 DEF Proceed, Leaves

LEMMA RetryStep == Typed /\ RetryInv /\ [Next]_vars => RetryInv'
<1> SUFFICES ASSUME Typed, RetryInv, [Next]_vars PROVE RetryInv'
  OBVIOUS
<1>1. LocalInv
  BY DEF Typed
<1>2. CASE \E t \in Tasks : Request(t) \/ Proceed(t)
  BY <1>1, <1>2, LeavesRetry, WithinBatchRetry DEF Leaves
<1>3. CASE \E d \in Devices, gen \in 1 .. MaxGen : OthersInsertKey(d, gen)
  <2>1. PICK k \in Keys : PutKey(k) /\ task' = Inserted(k)
    BY <1>3 DEF OthersInsertKey, Keys
  <2> QED
    BY <1>1, <2>1, InsertedRetry DEF PutKey
<1>4. CASE \/ UNCHANGED vars \/ OthersRotate \/ Tick
           \/ \E c \in Chapters : OthersCache(c)
           \/ \E d \in Devices : Rekey(d) \/ OthersInvalidate(d)
  <2>1. UNCHANGED task /\ cache_by_key' \subseteq cache_by_key
    BY <1>4 DEF vars, OthersRotate, Tick, OthersCache, Rekey, OthersInvalidate,
                Invalidate, keyVars
  <2> QED
    BY <2>1 DEF RetryInv
<1> QED
  BY <1>2, <1>3, <1>4 DEF Next

(* The second attempt never uses a key that was cached when the first one's *)
(* device was invalidated (upstream.rs:504-519), even when other requests   *)
(* insert keys fetched long before.                                         *)
THEOREM FreshRetryKey == Spec => []RetryKeyIsNew
<1>1. Init => RetryInv
  BY DEF Init, RetryInv, Idle
<1>2. RetryInv => RetryKeyIsNew
  BY DEF RetryInv, RetryKeyIsNew
<1> QED
  BY <1>1, <1>2, AlwaysTyped, RetryStep, PTL DEF Spec

-----------------------------------------------------------------------------
(* What a prefetch asks for is the batch of the chapter that is wanted, in  *)
(* the directory at hand, when it is sent again as well.                    *)

Asking(l) == l.call = "prefetch" /\ l.pc \in {"send", "await"}

AsksForBatch(l) ==
  /\ l.dir # NoDirectory
  /\ l.todo = BatchIds(l.dir.items, l.want, BatchSize)

BatchInv == \A t \in Tasks : Asking(task[t]) => AsksForBatch(task[t])

\* One key, one bucket; one bucket, one batch.
LEMMA KeyDeterminesBatch ==
  ASSUME NEW items, NEW b, NEW c, NEW size,
         PrefetchKey(items, b, size) = PrefetchKey(items, c, size)
  PROVE  BatchIds(items, b, size) = BatchIds(items, c, size)
<1> DEFINE i == PositionOf(items, b)
           j == PositionOf(items, c)
<1>1. CASE i = Absent
  <2>1. j = Absent /\ b = c
    BY <1>1 DEF PrefetchKey
  <2> QED
    BY <2>1
<1>2. CASE i # Absent
  <2>1. j # Absent /\ BucketStart(i, size) = BucketStart(j, size)
    BY <1>2 DEF PrefetchKey
  <2> HIDE DEF i, j
  <2> QED
    BY <1>2, <2>1 DEF BatchIds, i, j
<1> QED
  BY <1>1, <1>2

LEMMA BatchBecomes ==
  ASSUME LocalInv, BatchInv, NEW t \in Tasks, NEW l, Become(t, l),
         Asking(l) => AsksForBatch(l)
  PROVE  BatchInv'
<1>1. \A u \in Tasks : task'[u] = IF u = t THEN l ELSE task[u]
  BY DEF Become, LocalInv
<1> QED
  BY <1>1 DEF BatchInv, Asking, AsksForBatch

LEMMA InsertedBatch ==
  ASSUME LocalInv, BatchInv, NEW k \in Keys,
         \A u \in Tasks :
           \/ task'[u] = Inserted(k)[u]
           \/ task'[u].pc = "decrypt"
  PROVE  BatchInv'
<1>1. \A u \in Tasks : Asking(task'[u]) =>
        /\ Asking(task[u]) /\ task'[u].todo = task[u].todo
        /\ task'[u].want = task[u].want /\ task'[u].dir = task[u].dir
  <2> TAKE u \in Tasks
  <2> DEFINE m == Inserted(k)[u]
  <2>1. /\ m.pc = task[u].pc /\ m.call = task[u].call /\ m.todo = task[u].todo
        /\ m.want = task[u].want /\ m.dir = task[u].dir
    BY InsertedLocals
  <2>2. task'[u] = m \/ task'[u].pc = "decrypt"
    OBVIOUS
  <2> HIDE DEF m
  <2> QED
    BY <2>1, <2>2 DEF Asking
<1> QED
  BY <1>1 DEF BatchInv, Asking, AsksForBatch

LEMMA AskingStep ==
  ASSUME Typed, BatchInv, NEW t \in Tasks,
         Send(t) \/ RotateAndResend(t) \/ StartPrefetch(t)
  PROVE  BatchInv'
<1>1. LocalInv /\ task[t] \in Locals /\ Steady(task[t])
  BY DEF Typed, LocalInv
<1>2. CASE Send(t)
  <2> DEFINE l == [task[t] EXCEPT !.pc = "await", !.device = active_profile]
  <2>1. /\ Become(t, l) /\ task[t].pc = "send" /\ l.call = task[t].call
        /\ l.todo = task[t].todo /\ l.dir = task[t].dir /\ l.want = task[t].want
    BY <1>1, <1>2 DEF Send, At, Locals
  <2> HIDE DEF l
  <2> QED
    BY <1>1, <2>1, BatchBecomes DEF BatchInv, Asking, AsksForBatch
<1>3. CASE RotateAndResend(t)
  <2> DEFINE l == [task[t] EXCEPT !.pc = "send", !.resent = TRUE]
  <2>1. /\ Become(t, l) /\ task[t].pc = "await" /\ l.call = task[t].call
        /\ l.todo = task[t].todo /\ l.dir = task[t].dir /\ l.want = task[t].want
    BY <1>1, <1>3 DEF RotateAndResend, At, Locals
  <2> HIDE DEF l
  <2> QED
    BY <1>1, <2>1, BatchBecomes DEF BatchInv, Asking, AsksForBatch
<1>4. CASE StartPrefetch(t)
  <2> DEFINE l == Calling(task[t], "prefetch", Batch(t))
  <2>1. Become(t, l) /\ Batch(t) # <<>>
    BY <1>4 DEF StartPrefetch, PrefetchNeeded
  <2>2. /\ task[t].dir # NoDirectory
        /\ Batch(t) = BatchIds(task[t].dir.items, task[t].want, BatchSize)
    BY <2>1 DEF Batch
  <2>3. l.todo = Batch(t) /\ l.dir = task[t].dir /\ l.want = task[t].want
    BY <1>1 DEF Calling, Locals
  <2> HIDE DEF l
  <2> QED
    BY <1>1, <2>1, <2>2, <2>3, BatchBecomes DEF AsksForBatch
<1> QED
  BY <1>2, <1>3, <1>4

\* No other step of a task leaves it asking.
LEMMA OtherwiseNotAsking ==
  ASSUME Typed, BatchInv, NEW t \in Tasks, Request(t) \/ Proceed(t),
         ~(Send(t) \/ RotateAndResend(t) \/ StartPrefetch(t))
  PROVE  BatchInv'
<1>1. /\ LocalInv /\ task \in [Tasks -> Locals] /\ task[t] \in Locals
      /\ Steady(task[t])
  BY DEF Typed, LocalInv
<1>2. ASSUME NEW l, Become(t, l), l.pc \notin {"send", "await"} \/ l.call # "prefetch"
      PROVE  BatchInv'
  BY <1>1, <1>2, BatchBecomes DEF Asking
<1>3. CASE Request(t)
  BY <1>2, <1>3 DEF Request, RequestChapter, RequestToc, RequestBook, Idle
<1>4. CASE DirectoryCached(t) \/ \E d \in Directories : DirectoryArrives(t, d)
  BY <1>1, <1>2, <1>4 DEF DirectoryCached, DirectoryArrives, Locals
<1>5. CASE DirectoryMissing(t) \/ StartSingle(t)
  BY <1>1, <1>2, <1>5 DEF DirectoryMissing, StartSingle, Calling, Locals
<1>6. CASE \E heal \in BOOLEAN : Fail(t, heal)
  <2> DEFINE r == [task[t] EXCEPT !.reports = @ + 1]
  <2>1. r \in Locals
    <3>1. task[t].reports + 1 \in Nat
      BY <1>1 DEF Locals
    <3> QED
      BY <1>1, <3>1, ZenonT(30) DEF Locals
  <2>2. Become(t, [r EXCEPT !.pc = "heal"]) \/ Become(t, AfterFailure(t, r))
    BY <1>6 DEF Fail
  <2> HIDE DEF r
  <2>3. AfterFailure(t, r).pc \in {"idle", "plan", "recheck"}
    BY <2>1 DEF AfterFailure, Idle, Locals
  <2>4. [r EXCEPT !.pc = "heal"].pc = "heal"
    BY <2>1 DEF Locals
  <2> QED
    BY <1>2, <2>2, <2>3, <2>4
<1>7. CASE HealRotate(t)
  <2>1. AfterFailure(t, task[t]).pc \in {"idle", "plan", "recheck"}
    BY <1>1 DEF AfterFailure, Idle, Locals
  <2> QED
    BY <1>2, <1>7, <2>1 DEF HealRotate
<1>8. CASE HealInvalidate(t) \/ SkipPrefetch(t)
  BY <1>1, <1>2, <1>8 DEF HealInvalidate, SkipPrefetch, Goto, Locals
<1>9. CASE TocReady(t) \/ BookReady(t) \/ BookUnknown(t) \/ Prefetched(t)
  BY <1>2, <1>9 DEF TocReady, BookReady, BookUnknown, Prefetched, Return, Idle
<1>10. CASE BatchArrives(t) \/ KeyCached(t) \/ KeyMissing(t)
  BY <1>1, <1>2, <1>10 DEF BatchArrives, KeyCached, KeyMissing, Locals
<1>11. CASE FetchKey(t) \/ DecryptFails(t)
  BY <1>1, <1>2, <1>11 DEF FetchKey, DecryptFails, Locals
<1>12. CASE \/ ItemMissing(t) \/ KeyUnavailable(t) \/ Decrypt(t) \/ Garble(t)
            \/ EmptyText(t) \/ DecryptFailsAgain(t)
  <2> DEFINE l == [task[t] EXCEPT
         !.pc = IF Len(task[t].todo) = 1 THEN "recheck" ELSE "items",
         !.todo = Tail(@), !.key = NoKey, !.failed = NoKey, !.since = {}]
  <2>1. Become(t, Idle) \/ Become(t, l)
    BY <1>12 DEF ItemMissing, KeyUnavailable, Decrypt, Garble, EmptyText,
                 DecryptFailsAgain, StoreChapter, AfterItem, Return
  <2>2. Idle.pc = "idle" /\ l.pc \in {"recheck", "items"}
    BY <1>1 DEF Idle, Locals
  <2> HIDE DEF l
  <2> QED
    BY <1>2, <2>1, <2>2
<1>13. CASE InsertKey(t)
  <2>1. PICK k \in Keys : task' = [Inserted(k) EXCEPT ![t].pc = "decrypt"]
    BY <1>1, <1>13 DEF InsertKey, At, Steady, Equipped
  <2>2. Inserted(k)[t] \in Locals
    BY <1>1, InsertedLocals
  <2>3. task' = [u \in Tasks |-> IF u = t THEN [Inserted(k)[t] EXCEPT !.pc = "decrypt"]
                                 ELSE Inserted(k)[u]]
    BY <2>1 DEF Inserted
  <2>4. \A u \in Tasks : task'[u] = Inserted(k)[u] \/ task'[u].pc = "decrypt"
    BY <2>2, <2>3 DEF Locals
  <2> QED
    BY <1>1, <2>4, InsertedBatch
<1> QED
  BY <1>3, <1>4, <1>5, <1>6, <1>7, <1>8, <1>9, <1>10, <1>11, <1>12, <1>13
     DEF Proceed

LEMMA BatchStep == Typed /\ BatchInv /\ [Next]_vars => BatchInv'
<1> SUFFICES ASSUME Typed, BatchInv, [Next]_vars PROVE BatchInv'
  OBVIOUS
<1>1. CASE \E t \in Tasks : Request(t) \/ Proceed(t)
  BY <1>1, AskingStep, OtherwiseNotAsking
<1>2. CASE UNCHANGED task
  BY <1>2 DEF BatchInv, Asking, AsksForBatch
<1>3. CASE \E d \in Devices, gen \in 1 .. MaxGen : OthersInsertKey(d, gen)
  <2>1. PICK k \in Keys : task' = Inserted(k)
    BY <1>3 DEF OthersInsertKey, Keys
  <2> QED
    BY <2>1, InsertedBatch DEF Typed
<1> QED
  BY <1>1, <1>2, <1>3
     DEF Next, vars, OthersRotate, Tick, OthersCache, Rekey, OthersInvalidate

(* Tasks that meet under one prefetch key want one batch (upstream.rs:      *)
(* 422-436, 1148-1207), whatever the directory and the size of a bucket.    *)
THEOREM OneKeyOneBatch == Spec => []SameKeySameBatch
<1>1. Init => BatchInv
  BY DEF Init, BatchInv, Asking, Idle
<1>2. BatchInv => SameKeySameBatch
  BY KeyDeterminesBatch
  DEF BatchInv, Asking, AsksForBatch, SameKeySameBatch, Prefetching
<1> QED
  BY <1>1, <1>2, AlwaysTyped, BatchStep, PTL DEF Spec


(* A prefetch asks for the wanted chapter, and for no more chapters than a  *)
(* batch may have, whatever the directory: blank and padded ids, ids that   *)
(* occur twice, a chapter it does not hold (upstream.rs:1169-1201).         *)
THEOREM AsksForChapter == Spec => []BatchHoldsChapter
<1>1. Init => BatchInv
  BY DEF Init, BatchInv, Asking, Idle
<1>2. Typed /\ BatchInv => BatchHoldsChapter
  <2> SUFFICES ASSUME Typed, BatchInv, NEW t \in Tasks, Prefetching(t)
               PROVE  /\ \E i \in DOMAIN task[t].todo : task[t].todo[i] = task[t].want
                      /\ Len(task[t].todo) <= BatchSize
    BY DEF BatchHoldsChapter
  <2>1. /\ task[t].want \in Chapters /\ task[t].todo # <<>>
        /\ task[t].dir \in Given \cup {NoDirectory}
    BY DEF Typed, LocalInv, Steady, Prepared, Prefetching, Locals
  <2>2. /\ task[t].dir \in Given
        /\ task[t].todo = BatchIds(task[t].dir.items, task[t].want, BatchSize)
    BY <2>1 DEF BatchInv, Asking, AsksForBatch, Prefetching
  <2>3. /\ task[t].dir.items \in Seq(DirectoryItemData)
        /\ task[t].dir.items # <<>>
    BY <2>1, <2>2, GivenShape DEF BatchIds
  <2>4. BatchSize \in Nat \ {0}
    BY BatchSizeBounds DEF MaxChapterPrefetchSize
  <2>5. /\ task[t].want \in Ids /\ Trim[task[t].want] = task[t].want
        /\ task[t].want # Blank
    BY <2>1, PipelineAssumption
  <2> QED
    BY <2>2, <2>3, <2>4, <2>5, BatchHolds
<1> QED
  BY <1>1, <1>2, AlwaysTyped, BatchStep, PTL DEF Spec

-----------------------------------------------------------------------------
(* Reading order: whoever wants no book info has a directory in its minimal  *)
(* form, of which the count and the neighbours hold (MinimalShape,           *)
(* NeighboursAgree).                                                         *)

Minimals == {Minimal(d) : d \in Directories}

InForm(l) == l.want # Book => l.dir \in Minimals \cup {NoDirectory}

FormInv ==
  /\ directory_cache["min"] \in Minimals \cup {NoDirectory}
  /\ \A t \in Tasks : InForm(task[t])

LEMMA FormBecomes ==
  ASSUME LocalInv, \A t \in Tasks : InForm(task[t]), NEW t \in Tasks, NEW l,
         Become(t, l),
         InForm(l) \/ (l.dir = task[t].dir /\ l.want = task[t].want)
  PROVE  \A u \in Tasks : InForm(task'[u])
<1>1. \A u \in Tasks : task'[u] = IF u = t THEN l ELSE task[u]
  BY DEF Become, LocalInv
<1> QED
  BY <1>1 DEF InForm

LEMMA InsertedForm ==
  ASSUME LocalInv, \A t \in Tasks : InForm(task[t]), NEW k \in Keys,
         \A u \in Tasks : /\ task'[u].dir = Inserted(k)[u].dir
                          /\ task'[u].want = Inserted(k)[u].want
  PROVE  \A u \in Tasks : InForm(task'[u])
<1> TAKE u \in Tasks
<1>1. Inserted(k)[u].dir = task[u].dir /\ Inserted(k)[u].want = task[u].want
  BY InsertedLocals
<1> QED
  BY <1>1 DEF InForm

LEMMA FormTasks ==
  ASSUME Typed, FormInv, NEW t \in Tasks, Request(t) \/ Proceed(t)
  PROVE  \A u \in Tasks : InForm(task'[u])
<1>1. /\ LocalInv /\ task \in [Tasks -> Locals] /\ task[t] \in Locals
      /\ Steady(task[t]) /\ \A u \in Tasks : InForm(task[u])
  BY DEF Typed, LocalInv, FormInv
<1>2. ASSUME NEW l, Become(t, l),
             InForm(l) \/ (l.dir = task[t].dir /\ l.want = task[t].want)
      PROVE  \A u \in Tasks : InForm(task'[u])
  BY <1>1, <1>2, FormBecomes
<1>3. CASE Request(t)
  BY <1>2, <1>3
  DEF Request, RequestChapter, RequestToc, RequestBook, Idle, InForm
<1>4. CASE DirectoryCached(t)
  <2> DEFINE l == [task[t] EXCEPT !.pc = "plan", !.dir = directory_cache[Form(t)]]
  <2>1. Become(t, l) /\ l.want = task[t].want /\ l.dir = directory_cache[Form(t)]
    BY <1>1, <1>4 DEF DirectoryCached, Locals
  <2>2. InForm(l)
    BY <2>1 DEF InForm, FormInv, Form
  <2> HIDE DEF l
  <2> QED
    BY <1>2, <2>1, <2>2
<1>5. ASSUME NEW d \in Directories, DirectoryArrives(t, d)
      PROVE  \A u \in Tasks : InForm(task'[u])
  <2> DEFINE given == IF Form(t) = "min" THEN Minimal(d) ELSE d
             l == [task[t] EXCEPT !.pc = "plan", !.dir = given]
  <2>1. Become(t, l) /\ l.want = task[t].want /\ l.dir = given
    BY <1>1, <1>5 DEF DirectoryArrives, Locals
  <2>2. InForm(l)
    BY <2>1 DEF InForm, Minimals, Form
  <2> HIDE DEF l
  <2> QED
    BY <1>2, <2>1, <2>2
<1>6. CASE \/ DirectoryMissing(t) \/ StartPrefetch(t) \/ StartSingle(t)
  BY <1>1, <1>2, <1>6
  DEF DirectoryMissing, StartPrefetch, StartSingle, Calling, Locals
<1>7. CASE \/ Send(t) \/ BatchArrives(t) \/ RotateAndResend(t)
           \/ HealInvalidate(t) \/ SkipPrefetch(t) \/ KeyCached(t)
           \/ KeyMissing(t) \/ FetchKey(t) \/ DecryptFails(t)
  BY <1>1, <1>2, <1>7
  DEF Send, BatchArrives, RotateAndResend, HealInvalidate, SkipPrefetch,
      KeyCached, KeyMissing, FetchKey, DecryptFails, Goto, Locals
<1>8. ASSUME NEW l \in Locals, l.dir = task[t].dir, l.want = task[t].want
      PROVE  /\ InForm(AfterFailure(t, l))
             /\ [l EXCEPT !.pc = "heal"].dir = task[t].dir
             /\ [l EXCEPT !.pc = "heal"].want = task[t].want
  BY <1>1, <1>8 DEF AfterFailure, Idle, InForm, Locals
<1>9. CASE \E heal \in BOOLEAN : Fail(t, heal)
  <2> DEFINE r == [task[t] EXCEPT !.reports = @ + 1]
  <2>1. r \in Locals
    <3>1. task[t].reports + 1 \in Nat
      BY <1>1 DEF Locals
    <3> QED
      BY <1>1, <3>1, ZenonT(30) DEF Locals
  <2>2. r.dir = task[t].dir /\ r.want = task[t].want
    BY <1>1 DEF Locals
  <2>3. Become(t, [r EXCEPT !.pc = "heal"]) \/ Become(t, AfterFailure(t, r))
    BY <1>9 DEF Fail
  <2> HIDE DEF r
  <2> QED
    BY <1>2, <1>8, <2>1, <2>2, <2>3
<1>10. CASE HealRotate(t)
  BY <1>1, <1>2, <1>8, <1>10 DEF HealRotate
<1>11. CASE TocReady(t) \/ BookReady(t) \/ BookUnknown(t) \/ Prefetched(t)
  BY <1>2, <1>11
  DEF TocReady, BookReady, BookUnknown, Prefetched, Return, Idle, InForm
<1>12. CASE \/ ItemMissing(t) \/ KeyUnavailable(t) \/ Decrypt(t) \/ Garble(t)
            \/ EmptyText(t) \/ DecryptFailsAgain(t)
  <2> DEFINE l == [task[t] EXCEPT
         !.pc = IF Len(task[t].todo) = 1 THEN "recheck" ELSE "items",
         !.todo = Tail(@), !.key = NoKey, !.failed = NoKey, !.since = {}]
  <2>1. Become(t, Idle) \/ Become(t, l)
    BY <1>12 DEF ItemMissing, KeyUnavailable, Decrypt, Garble, EmptyText,
                 DecryptFailsAgain, StoreChapter, AfterItem, Return
  <2>2. InForm(Idle) /\ l.dir = task[t].dir /\ l.want = task[t].want
    BY <1>1 DEF Idle, InForm, Locals
  <2> HIDE DEF l
  <2> QED
    BY <1>2, <2>1, <2>2
<1>13. CASE InsertKey(t)
  <2>1. PICK k \in Keys : task' = [Inserted(k) EXCEPT ![t].pc = "decrypt"]
    BY <1>1, <1>13 DEF InsertKey, At, Steady, Equipped
  <2>2. Inserted(k)[t] \in Locals
    BY <1>1, InsertedLocals
  <2>3. task' = [u \in Tasks |-> IF u = t THEN [Inserted(k)[t] EXCEPT !.pc = "decrypt"]
                                 ELSE Inserted(k)[u]]
    BY <2>1 DEF Inserted
  <2>4. \A u \in Tasks : /\ task'[u].dir = Inserted(k)[u].dir
                         /\ task'[u].want = Inserted(k)[u].want
    BY <2>2, <2>3 DEF Locals
  <2> QED
    BY <1>1, <2>4, InsertedForm
<1> QED
  BY <1>3, <1>4, <1>5, <1>6, <1>7, <1>9, <1>10, <1>11, <1>12, <1>13
  DEF Proceed

LEMMA FormStep == Typed /\ FormInv /\ [Next]_vars => FormInv'
<1> SUFFICES ASSUME Typed, FormInv, [Next]_vars PROVE FormInv'
  OBVIOUS
<1>1. directory_cache'["min"] \in Minimals \cup {NoDirectory}
  <2> USE DEF FormInv, Typed, SharedTyped
  <2>1. ASSUME NEW t \in Tasks, DirectoryMissing(t)
        PROVE  directory_cache'["min"] \in Minimals \cup {NoDirectory}
    BY <2>1 DEF DirectoryMissing, Form, Forms
  <2>2. ASSUME NEW t \in Tasks, NEW d \in Directories, DirectoryArrives(t, d)
        PROVE  directory_cache'["min"] \in Minimals \cup {NoDirectory}
    <3>1. /\ directory_cache' = [directory_cache EXCEPT ![Form(t)] =
               IF Form(t) = "min" THEN Minimal(d) ELSE d]
          /\ Form(t) \in Forms
      BY <2>2 DEF DirectoryArrives, Form, Forms
    <3> QED
      BY <3>1 DEF Forms, Minimals
  <2>3. CASE UNCHANGED directory_cache
    BY <2>3
  <2>4. \/ UNCHANGED directory_cache
        \/ \E t \in Tasks : \/ DirectoryMissing(t)
                            \/ \E d \in Directories : DirectoryArrives(t, d)
    BY DEF Next, vars, cacheVars, Request, RequestChapter, RequestToc,
      RequestBook, Proceed, DirectoryCached, Send, BatchArrives,
      RotateAndResend, Fail, HealInvalidate, HealRotate, TocReady, BookReady,
      BookUnknown, StartPrefetch, SkipPrefetch, Prefetched, StartSingle,
      ItemMissing, KeyCached, KeyMissing, FetchKey, KeyUnavailable, InsertKey,
      Decrypt, Garble, StoreChapter, EmptyText, DecryptFails,
      DecryptFailsAgain, OthersRotate, Tick, OthersCache, Rekey,
      OthersInvalidate, OthersInsertKey
  <2> QED
    BY <2>1, <2>2, <2>3, <2>4
<1>2. \A u \in Tasks : InForm(task'[u])
  <2>1. CASE \E t \in Tasks : Request(t) \/ Proceed(t)
    BY <2>1, FormTasks
  <2>2. CASE UNCHANGED task
    BY <2>2 DEF FormInv
  <2>3. CASE \E d \in Devices, gen \in 1 .. MaxGen : OthersInsertKey(d, gen)
    <3>1. PICK k \in Keys : task' = Inserted(k)
      BY <2>3 DEF OthersInsertKey, Keys
    <3> QED
      BY <3>1, InsertedForm DEF Typed, FormInv
  <2> QED
    BY <2>1, <2>2, <2>3
    DEF Next, vars, OthersRotate, Tick, OthersCache, Rekey, OthersInvalidate
<1> QED
  BY <1>1, <1>2 DEF FormInv

(* A chapter's number is within the directory's count, and its neighbours   *)
(* name each other, for every directory the upstream may give.              *)
THEOREM NeighboursInOrder == Spec => []ReadingOrder
<1>1. Init => FormInv
  BY DEF Init, FormInv, InForm, Idle, Forms
<1>2. Typed /\ FormInv => ReadingOrder
  <2> SUFFICES ASSUME Typed, FormInv, NEW t \in Tasks, task[t].pc = "decrypt",
                      task[t].dir # NoDirectory,
                      NEW c \in Ids, InDirectory(task[t].dir.items, c)
               PROVE  LET items == task[t].dir.items
                          here == Context(items, c)
                      IN  /\ here.index <= Unwrap(task[t].dir.serial)
                          /\ Distinct(items) => \A n \in here.next :
                               /\ Context(items, n).prev = {c}
                               /\ Context(items, n).index = here.index + 1
    BY DEF ReadingOrder
  <2> DEFINE dir == task[t].dir
  <2>1. task[t].want \in Chapters /\ task[t].want # Book
    BY PipelineAssumption
    DEF Typed, LocalInv, Steady, Equipped, Prepared, WithItems
  <2>2. PICK d \in Directories : dir = Minimal(d)
    BY <2>1 DEF FormInv, InForm, Minimals
  <2>3. d \in DirectoryResponse
    BY PipelineAssumption
  <2>4. /\ dir.items \in Seq(DirectoryItemData) /\ Len(dir.items) \in Nat
        /\ Len(dir.items) <= Unwrap(dir.serial) /\ Unwrap(dir.serial) \in Int
    BY <2>2, <2>3, MinimalShape DEF DirectoryResponse
  <2> HIDE DEF dir
  <2>5. Context(dir.items, c).index \in 1 .. Len(dir.items)
    BY <2>4, NeighboursAgree DEF dir
  <2>6. Context(dir.items, c).index <= Unwrap(dir.serial)
    BY <2>4, <2>5
  <2> QED
    BY <2>4, <2>6, NeighboursAgree DEF dir
<1> QED
  BY <1>1, <1>2, AlwaysTyped, FormStep, PTL DEF Spec
=============================================================================
