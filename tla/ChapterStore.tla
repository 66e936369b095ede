---------------------------- MODULE ChapterStore ----------------------------
(***************************************************************************)
(* One chapter in the two caches that get_chapter looks through            *)
(* (crates/api/src/upstream.rs, cache.rs, db_cache.rs): the process' own   *)
(* TtlCache and the PostgreSQL table, which outlives the process.  Both    *)
(* keep a chapter for chapter_ttl_ms, but each counts from its own insert: *)
(* a chapter read from the table starts a new life in memory.              *)
(*                                                                         *)
(* Every access to a cache is a step.  MaxHold bounds the time from a      *)
(* reading of the clock to the access made with it (the code has no such   *)
(* bound; the database and the scheduler set it).                          *)
(***************************************************************************)
EXTENDS Clock

CONSTANTS
  Tasks,
  TtlMs,     \* fq.cache.chapter_ttl_ms
  MaxHold

ASSUME ChapterStoreAssumption == TtlMs \in Nat /\ MaxHold \in Nat

VARIABLES
  mem,     \* chapter_cache: the entry's expiry and its chapter's update_time
  row,     \* the table: the row's created_at_ms and its chapter's update_time
  table,   \* whether this process has a connection to the table
  pc,
  now,     \* the now_ms() that the task's database call was given
  at_hand, \* update_time of the chapter that the task has read or built
  bulk,    \* whether the task is in do_prefetch_and_cache
  since    \* auxiliary: when the task last read the clock

taskVars == <<pc, now, at_hand, bulk, since>>
vars == <<clock, mem, row, table, taskVars>>

None == [until |-> 0, made |-> 0]
NoRow == [created |-> 0, made |-> 0]

\* Instant::now() + ttl; without a ttl the entry stays.
Entry(made) ==
  [until |-> IF TtlMs = 0 THEN MaxTime + 1 ELSE clock + TtlMs, made |-> made]

\* cache.rs:is_expired
MemExpired == clock >= mem.until

\* Slip: the row's age is not looked at.
RowExpiredNever(at) == FALSE

\* db_cache.rs:54
RowExpired(at) == TtlMs > 0 /\ at - row.created > TtlMs

MemValid == mem # None /\ ~MemExpired

AllIdle == [t \in Tasks |-> "idle"]
AllZero == [t \in Tasks |-> 0]
NoBulk == [t \in Tasks |-> FALSE]

\* AppState::new: without a url, or if the table cannot be reached when the
\* process starts, the process does without it.
Init ==
  /\ ClockInit
  /\ mem = None /\ row = NoRow
  /\ table \in BOOLEAN
  /\ pc = AllIdle
  /\ now = AllZero /\ at_hand = AllZero /\ since = AllZero
  /\ bulk = NoBulk

Goto(t, place) == pc' = [pc EXCEPT ![t] = place]

\* A call on a cache is over: its locals are gone.
Forget(t) ==
  /\ now' = [now EXCEPT ![t] = 0]
  /\ at_hand' = [at_hand EXCEPT ![t] = 0]
  /\ since' = [since EXCEPT ![t] = 0]

\* The request is answered, or fails.
Return(t) ==
  /\ Goto(t, "idle")
  /\ Forget(t)
  /\ bulk' = [bulk EXCEPT ![t] = FALSE]

ReadClock(t) ==
  /\ now' = [now EXCEPT ![t] = clock]
  /\ since' = [since EXCEPT ![t] = clock]

-----------------------------------------------------------------------------
(* chapter_cache is looked up twice: when the request comes in (a hit       *)
(* answers it at once and changes nothing) and after the prefetch.          *)

Looking(t) == pc[t] \in {"idle", "prefetched"}

AfterMiss(t) == IF bulk[t] THEN "batch" ELSE IF table THEN "askRow" ELSE "fetch"

MemMiss(t) ==
  /\ Looking(t)
  /\ mem = None
  /\ Goto(t, AfterMiss(t))
  /\ UNCHANGED <<clock, mem, row, table, now, at_hand, bulk, since>>

\* An expired entry is let go of (cache.rs:28) ...
MemFindExpired(t) ==
  /\ Looking(t)
  /\ mem # None /\ MemExpired
  /\ Goto(t, "evict")
  /\ UNCHANGED <<clock, mem, row, table, now, at_hand, bulk, since>>

\* ... and whatever is there by then is removed.
Evict(t) ==
  /\ pc[t] = "evict"
  /\ mem' = None
  /\ Goto(t, AfterMiss(t))
  /\ UNCHANGED <<clock, row, table, now, at_hand, bulk, since>>

FoundPrefetched(t) ==
  /\ pc[t] = "prefetched"
  /\ MemValid
  /\ Return(t)
  /\ UNCHANGED <<clock, mem, row, table>>

-----------------------------------------------------------------------------
(* PgChapterCache::get *)

AskRow(t) ==
  /\ pc[t] = "askRow"
  /\ ReadClock(t)
  /\ Goto(t, "select")
  /\ UNCHANGED <<clock, mem, row, table, at_hand, bulk>>

RowHit(t) ==
  /\ pc[t] = "select"
  /\ row # NoRow /\ ~RowExpired(now[t])
  /\ at_hand' = [at_hand EXCEPT ![t] = row.made]
  /\ Goto(t, "fill")
  /\ UNCHANGED <<clock, mem, row, table, now, bulk, since>>

\* No row, or the query fails, which is only logged.
RowMiss(t) ==
  /\ pc[t] = "select"
  /\ Goto(t, "fetch")
  /\ Forget(t)
  /\ UNCHANGED <<clock, mem, row, table, bulk>>

RowFindExpired(t) ==
  /\ pc[t] = "select"
  /\ row # NoRow /\ RowExpired(now[t])
  /\ Goto(t, "delete")
  /\ UNCHANGED <<clock, mem, row, table, now, at_hand, bulk, since>>

\* DELETE names the key only, so that it takes a row written since the SELECT
\* too; or it fails.
Delete(t) ==
  /\ pc[t] = "delete"
  /\ row' \in {NoRow, row}
  /\ Goto(t, "fetch")
  /\ Forget(t)
  /\ UNCHANGED <<clock, mem, table, bulk>>

\* What the row held goes into memory, with a whole ttl to live.
Fill(t) ==
  /\ pc[t] = "fill"
  /\ mem' = Entry(at_hand[t])
  /\ Return(t)
  /\ UNCHANGED <<clock, row, table>>

-----------------------------------------------------------------------------
(* Fetching and cache_chapter *)

\* The prefetch brings the chapter.
Prefetch(t) ==
  /\ pc[t] = "fetch"
  /\ bulk' = [bulk EXCEPT ![t] = TRUE]
  /\ at_hand' = [at_hand EXCEPT ![t] = clock]
  /\ ReadClock(t)
  /\ Goto(t, "cache")
  /\ UNCHANGED <<clock, mem, row, table>>

\* It fails, or another task does it; or prefetching is disabled, and memory
\* is not looked at again.
NotPrefetched(t) ==
  /\ pc[t] = "fetch"
  /\ bulk' = [bulk EXCEPT ![t] = TRUE]
  /\ Goto(t, "prefetched") \/ Goto(t, "batch")
  /\ UNCHANGED <<clock, mem, row, table, now, at_hand, since>>

\* The chapter alone is fetched, or the request fails.
Batch(t) ==
  /\ pc[t] = "batch"
  /\ bulk' = [bulk EXCEPT ![t] = FALSE]
  /\ at_hand' = [at_hand EXCEPT ![t] = clock]
  /\ ReadClock(t)
  /\ Goto(t, "cache")
  /\ UNCHANGED <<clock, mem, row, table>>

BatchFails(t) ==
  /\ pc[t] = "batch"
  /\ Return(t)
  /\ UNCHANGED <<clock, mem, row, table>>

\* cache_chapter is over: the prefetch goes on, the request is answered.
Cached(t) ==
  IF bulk[t] THEN Goto(t, "prefetched") /\ Forget(t) /\ UNCHANGED bulk
             ELSE Return(t)

CacheMem(t) ==
  /\ pc[t] = "cache"
  /\ mem' = Entry(at_hand[t])
  /\ IF table THEN Goto(t, "stamp") /\ UNCHANGED <<now, at_hand, bulk, since>>
              ELSE Cached(t)
  /\ UNCHANGED <<clock, row, table>>

StampRow(t) ==
  /\ pc[t] = "stamp"
  /\ ReadClock(t)
  /\ Goto(t, "put")
  /\ UNCHANGED <<clock, mem, row, table, at_hand, bulk>>

\* The upsert replaces whatever row there is; if it fails that is logged, and
\* a chapter without text is not written.
Put(t) ==
  /\ pc[t] = "put"
  /\ row' \in {[created |-> now[t], made |-> at_hand[t]], row}
  /\ Cached(t)
  /\ UNCHANGED <<clock, mem, table>>

-----------------------------------------------------------------------------
\* The cleanup task's sweep_expired.
Sweep ==
  /\ mem # None /\ MemExpired
  /\ mem' = None
  /\ UNCHANGED <<clock, row, table, taskVars>>

\* The process dies and is started again: only the table remains.
Restart ==
  /\ mem' = None
  /\ table' \in BOOLEAN
  /\ pc' = AllIdle
  /\ now' = AllZero /\ at_hand' = AllZero /\ since' = AllZero
  /\ bulk' = NoBulk
  /\ UNCHANGED <<clock, row>>

\* The places from which a task acts on the clock that it has read.
Holding(t) == pc[t] \in {"select", "fill", "cache", "stamp", "put"}

Tick ==
  /\ Advance
  /\ \A t \in Tasks : Holding(t) => clock - since[t] < MaxHold
  /\ UNCHANGED <<mem, row, table, taskVars>>

Step(t) ==
  \/ MemMiss(t) \/ MemFindExpired(t) \/ Evict(t) \/ FoundPrefetched(t)
  \/ AskRow(t) \/ RowHit(t) \/ RowMiss(t) \/ RowFindExpired(t)
  \/ Delete(t) \/ Fill(t)
  \/ Prefetch(t) \/ NotPrefetched(t) \/ Batch(t) \/ BatchFails(t)
  \/ CacheMem(t) \/ StampRow(t) \/ Put(t)

Next == Tick \/ Sweep \/ Restart \/ \E t \in Tasks : Step(t)

Spec == Init /\ [][Next]_vars

-----------------------------------------------------------------------------
Places == {"idle", "evict", "askRow", "select", "delete", "fill", "fetch",
           "prefetched", "batch", "cache", "stamp", "put"}

Times == 0 .. clock

(* Types; no cache holds a chapter that is newer than its own insert.       *)
TypeOK ==
  /\ clock \in Nat \ {0}
  /\ mem \in [until : Nat, made : Times] /\ row \in [created : Times, made : Times]
  /\ mem # None => mem.until > 0 /\ mem.made \in 1 .. mem.until
  /\ row # NoRow => row.made \in 1 .. row.created
  /\ table \in BOOLEAN
  /\ pc \in [Tasks -> Places]
  /\ now \in [Tasks -> Times] /\ at_hand \in [Tasks -> Times]
  /\ since \in [Tasks -> Times]
  /\ bulk \in [Tasks -> BOOLEAN]
  /\ \A t \in Tasks : pc[t] \in {"fill", "cache", "stamp", "put"} => at_hand[t] > 0

(* A chapter that memory would answer with was built at most two ttls ago,  *)
(* and the time the two writes and the read between them took: an old row   *)
(* refills memory for one ttl more, but memory never refills the table, so  *)
(* that old content is not handed from one to the other for ever, restarts, *)
(* late writers and raced removals included (upstream.rs:119-134, 647-657). *)
StalenessBounded ==
  TtlMs > 0 /\ MemValid => clock - mem.made < 2 * (TtlMs + MaxHold)
=============================================================================
