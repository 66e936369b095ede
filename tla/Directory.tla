----------------------------- MODULE Directory -----------------------------
(***************************************************************************)
(* What the service computes from a book's directory                       *)
(* (crates/api/src/upstream.rs): the minimal form that is cached, the      *)
(* bucket of chapters that a prefetch asks for and the key under which     *)
(* prefetches of one bucket meet, a chapter's neighbours, the book's       *)
(* number of chapters.                                                     *)
(*                                                                         *)
(* A directory is a record: items, a sequence of [id, free]; serial, the   *)
(* upstream's count; info, its book_info with a count of its own.  An      *)
(* Option is a set of at most one element.  Positions count from 0.        *)
(***************************************************************************)
EXTENDS Options, Integers, Sequences, FiniteSets, FiniteSetsExt

CONSTANTS
  Ids,     \* item ids as the upstream may write them
  Trim,    \* str::trim on them
  Blank    \* the empty id

ASSUME DirectoryAssumption == Trim \in [Ids -> Ids] /\ Blank \in Ids

Absent == -1

MaxChapterPrefetchSize == 30

DirectoryItemData == [id : Ids, free : Option(BOOLEAN)]

DirectoryResponse ==
  [items : Seq(DirectoryItemData), serial : Option(Int),
   info : Option([serial : Option(Int)])]

\* Iterator::filter: what a sequence has at some of its positions, in order.
Nth(positions, n) ==
  CHOOSE i \in positions : Cardinality({k \in positions : k <= i}) = n

Kept(s, positions) == [n \in 1 .. Cardinality(positions) |-> s[Nth(positions, n)]]

-----------------------------------------------------------------------------
\* Iterator::position: the first item of that id, the id compared untrimmed.
PositionOf(items, c) ==
  LET at == {i \in DOMAIN items : items[i].id = c}
  IN  IF at = {} THEN Absent ELSE Min(at) - 1

WithId(items) == Kept(items, {i \in DOMAIN items : Trim[items[i].id] # Blank})

\* Slip: the upstream's count stands, although it may count fewer.
MinimalMiscounted(d) ==
  LET named == WithId(d.items)
  IN  [items |-> [i \in DOMAIN named |-> [id |-> named[i].id, free |-> {}]],
       serial |-> {UnwrapOr(d.serial, Len(named))},
       info |-> {}]

\* trim_directory_for_minimal: items without an id go, and with the others'
\* details whether they are free; the count is at least that of the items.
Minimal(d) ==
  LET named == WithId(d.items)
  IN  [items |-> [i \in DOMAIN named |-> [id |-> named[i].id, free |-> {}]],
       serial |-> {Max(d.serial \cup {Len(named)})},
       info |-> {}]

\* build_book_info, whose only computed field is the number of chapters; a
\* directory without book_info is an error.
HasBookInfo(d) == d.info # {}

TotalChapters(d) ==
  UnwrapOr(Or(Unwrap(d.info).serial, d.serial), Len(d.items))

-----------------------------------------------------------------------------
\* prefetch_batch_size, of fq.prefetch.chapter_size: clamp(1, 30).
BatchSizeOf(chapterSize) ==
  IF chapterSize < 1 THEN 1
  ELSE IF chapterSize > MaxChapterPrefetchSize THEN MaxChapterPrefetchSize
  ELSE chapterSize

\* bucket_start_for
BucketStart(i, size) == IF size = 0 THEN 0 ELSE (i \div size) * size

\* Slip: the bucket of the next chapter.
PrefetchKeyShifted(items, c, size) ==
  LET at == PositionOf(items, c)
  IN  IF at = Absent THEN <<"single", c>>
      ELSE <<"bucket", BucketStart(at + 1, size)>>

\* compute_prefetch_key; the book is the only one of the model.
PrefetchKey(items, c, size) ==
  LET at == PositionOf(items, c)
  IN  IF at = Absent THEN <<"single", c>>
      ELSE <<"bucket", BucketStart(at, size)>>

\* Slip: the end is taken as the last position of the bucket.
SliceShort(items, start, size) ==
  LET end == Min({start + size - 1, Len(items)})
  IN  [i \in 1 .. end - start |-> Trim[items[start + i].id]]

\* The slice of select_prefetch_batch_ids, ids trimmed.
Slice(items, start, size) ==
  LET end == Min({start + size, Len(items)})
  IN  [i \in 1 .. end - start |-> Trim[items[start + i].id]]

\* Its filter: empty ids go.
NonBlank(ids) == Kept(ids, {i \in DOMAIN ids : ids[i] # Blank})

\* select_prefetch_batch_ids
BatchIds(items, c, size) ==
  LET at == PositionOf(items, c)
  IN  IF items = <<>> THEN <<>>
      ELSE IF at = Absent THEN <<c>>
      ELSE NonBlank(Slice(items, BucketStart(at, size), size))

-----------------------------------------------------------------------------
\* chapter_context, for a chapter that the directory holds.
InDirectory(items, c) == PositionOf(items, c) # Absent

Context(items, c) ==
  LET at == PositionOf(items, c)
  IN  [index |-> at + 1,
       prev  |-> IF at > 0 THEN {items[at].id} ELSE {},
       next  |-> IF at + 1 < Len(items) THEN {items[at + 2].id} ELSE {},
       free  |-> UnwrapOr(items[at + 1].free, at < 5)]
=============================================================================
