--------------------------- MODULE PrefetchDedup ---------------------------
(***************************************************************************)
(* prefetch_and_cache_dedup (crates/api/src/upstream.rs): tasks that miss  *)
(* chapters of one bucket take turns under a lock found in the map         *)
(* inflight_chapter_prefetch, so that the first one fetches the bucket for *)
(* all.  One map entry is modelled, that of one prefetch key; locks are    *)
(* Arcs, told apart by number and reused once nothing refers to them.      *)
(*                                                                         *)
(* A request whose client goes away is dropped at an await: Cancel.        *)
(***************************************************************************)
EXTENDS Integers, FiniteSets, SequencesExt

CONSTANTS
  Requests,
  Chapters,   \* the chapters of the bucket
  Wants,      \* the chapters that a task may be asked for
  NoLock, NoChapter

Locks == 1 .. Cardinality(Requests) + 1

ASSUME PrefetchDedupAssumption ==
  /\ IsFiniteSet(Requests) /\ Wants \in [Requests -> SUBSET Chapters]
  /\ NoLock \notin Locks /\ NoChapter \notin Chapters

VARIABLES
  mapped,  \* the lock in inflight_chapter_prefetch, if any
  line,    \* of each tokio mutex: its holder, then its waiters in their order
  mine,    \* the Arc that the task holds
  section,
  want,    \* the chapter the task is asked for
  stored,  \* the bucket's chapters in chapter_cache
  raced    \* auxiliary: since the bucket was last quiet, a task came between
           \* another's strong_count and its remove

dedupVars == <<mapped, line, mine, section, want, stored, raced>>

-----------------------------------------------------------------------------
HeldBy(l) == {t \in Requests : mine[t] = l}

Free(l) == l # mapped /\ HeldBy(l) = {}

NewLock == CHOOSE l \in Locks : Free(l)

StrongCount(l) == Cardinality(HeldBy(l)) + (IF l = mapped THEN 1 ELSE 0)

IsHolder(t) == line[mine[t]] # <<>> /\ Head(line[mine[t]]) = t

MoveTo(t, place) == section' = [section EXCEPT ![t] = place]

DedupInit ==
  /\ mapped = NoLock
  /\ line = [l \in Locks |-> <<>>]
  /\ mine = [t \in Requests |-> NoLock]
  /\ section = [t \in Requests |-> "idle"]
  /\ want = [t \in Requests |-> NoChapter]
  /\ stored \in SUBSET Chapters
  /\ raced = FALSE

-----------------------------------------------------------------------------
\* entry(key).or_insert_with(..).clone(), atomic under the map's shard.
Enter(t, c) ==
  /\ section[t] = "idle" /\ c \in Wants[t]
  /\ mapped' = IF mapped = NoLock THEN NewLock ELSE mapped
  /\ mine' = [mine EXCEPT ![t] = mapped']
  /\ want' = [want EXCEPT ![t] = c]
  /\ raced' = (raced \/ \E u \in Requests : section[u] = "removing")
  /\ MoveTo(t, "entered")
  /\ UNCHANGED <<line, stored>>

\* lock.lock(): the mutex is fair, and is held by whoever is first in line.
Enqueue(t) ==
  /\ section[t] = "entered"
  /\ line' = [line EXCEPT ![mine[t]] = Append(@, t)]
  /\ MoveTo(t, "queued")
  /\ UNCHANGED <<mapped, mine, want, stored, raced>>

\* Another task has cached the chapter: return, leaving the map as it is.
FoundCached(t) ==
  /\ section[t] = "queued" /\ IsHolder(t)
  /\ want[t] \in stored
  /\ MoveTo(t, "leaving")
  /\ UNCHANGED <<mapped, line, mine, want, stored, raced>>

StartWork(t) ==
  /\ section[t] = "queued" /\ IsHolder(t)
  /\ want[t] \notin stored
  /\ MoveTo(t, "working")
  /\ UNCHANGED <<mapped, line, mine, want, stored, raced>>

\* do_prefetch_and_cache stores the chapters that come back, one by one; it
\* may fail before the first, and skips those missing or undecipherable.
Store(t, c) ==
  /\ section[t] = "working" /\ c \notin stored
  /\ stored' = stored \cup {c}
  /\ UNCHANGED <<mapped, line, mine, section, want, raced>>

\* Slip: others may still hold the lock when it leaves the map.
CountRefsAlways(t) ==
  /\ section[t] = "working"
  /\ MoveTo(t, "removing")
  /\ UNCHANGED <<mapped, line, mine, want, stored, raced>>

\* The work is over: two references are the map's and one's own, if the lock
\* is still in the map.
CountRefs(t) ==
  /\ section[t] = "working"
  /\ MoveTo(t, IF StrongCount(mine[t]) = 2 THEN "removing" ELSE "leaving")
  /\ UNCHANGED <<mapped, line, mine, want, stored, raced>>

\* inflight_chapter_prefetch.remove(key): whatever lock is there by now.
Unmap(t) ==
  /\ section[t] = "removing"
  /\ mapped' = NoLock
  /\ MoveTo(t, "leaving")
  /\ UNCHANGED <<line, mine, want, stored, raced>>

\* Slip: the guard outlives the call.
ReleaseNothing(t) ==
  /\ section[t] = "leaving"
  /\ MoveTo(t, "dropping")
  /\ UNCHANGED <<mapped, line, mine, want, stored, raced>>

\* _guard is dropped first, which lets the next in line in ...
Release(t) ==
  /\ section[t] = "leaving"
  /\ line' = [line EXCEPT ![mine[t]] = Tail(@)]
  /\ MoveTo(t, "dropping")
  /\ UNCHANGED <<mapped, mine, want, stored, raced>>

\* ... and then `lock'.
Drop(t) ==
  /\ section[t] = "dropping"
  /\ mine' = [mine EXCEPT ![t] = NoLock]
  /\ raced' = (raced /\ \E u \in Requests \ {t} : mine[u] # NoLock)
  /\ want' = [want EXCEPT ![t] = NoChapter]
  /\ MoveTo(t, "idle")
  /\ UNCHANGED <<mapped, line, stored>>

\* Slip: a waiter that is dropped keeps its place in the line.
CancelKeepsPlace(t) ==
  /\ section[t] \in {"queued", "working"}
  /\ MoveTo(t, "dropping")
  /\ UNCHANGED <<mapped, line, mine, want, stored, raced>>

\* The task is dropped while it waits for the lock or for the upstream.
Cancel(t) ==
  /\ section[t] \in {"queued", "working"}
  /\ \E i \in DOMAIN line[mine[t]] :
       /\ line[mine[t]][i] = t
       /\ line' = [line EXCEPT ![mine[t]] = RemoveAt(@, i)]
  /\ MoveTo(t, "dropping")
  /\ UNCHANGED <<mapped, mine, want, stored, raced>>

\* The ttl of a cached chapter runs out (TtlCache).
Expire(c) ==
  /\ c \in stored
  /\ stored' = stored \ {c}
  /\ UNCHANGED <<mapped, line, mine, section, want, raced>>

-----------------------------------------------------------------------------
\* What a task does without its client's help.
Proceed(t) ==
  \/ Enqueue(t) \/ FoundCached(t) \/ StartWork(t) \/ CountRefs(t)
  \/ Unmap(t) \/ Release(t) \/ Drop(t)

DedupNext ==
  \/ \E t \in Requests : Proceed(t) \/ Cancel(t)
  \/ \E t \in Requests, c \in Chapters : Enter(t, c) \/ Store(t, c)
  \/ \E c \in Chapters : Expire(c)

\* The runtime polls every task that can move, and the http client's timeouts
\* end the work of a task whatever the upstream does.
DedupFairness == \A t \in Requests : WF_dedupVars(Proceed(t))

DedupSpec == DedupInit /\ [][DedupNext]_dedupVars /\ DedupFairness

-----------------------------------------------------------------------------
Sections ==
  {"idle", "entered", "queued", "working", "removing", "leaving", "dropping"}

InLine(t) == section[t] \in {"queued", "working", "removing", "leaving"}

(* Types, and who stands in which line: a task in a section that the lock   *)
(* guards stands in the line of the lock it holds, once, and nowhere else.  *)
DedupTypeOK ==
  /\ mapped \in Locks \cup {NoLock}
  /\ mine \in [Requests -> Locks \cup {NoLock}]
  /\ section \in [Requests -> Sections]
  /\ want \in [Requests -> Chapters \cup {NoChapter}]
  /\ stored \in SUBSET Chapters
  /\ raced \in BOOLEAN
  /\ line \in [Locks -> Seq(Requests)]
  /\ \A t \in Requests : section[t] = "idle" <=> mine[t] = NoLock
  /\ \A l \in Locks, t \in Requests :
       Cardinality({i \in DOMAIN line[l] : line[l][i] = t})
         = IF InLine(t) /\ mine[t] = l THEN 1 ELSE 0

(* The purpose of the map: two tasks never fetch the bucket at the same     *)
(* time, however early returns, cancelled waiters and removals interleave,  *)
(* unless a task has slipped in between another's strong_count and its      *)
(* remove (upstream.rs:439-440) since the bucket was last quiet.            *)
OneFetchUnlessRaced ==
  ~raced => \A t, u \in Requests :
    section[t] = "working" /\ section[u] = "working" => t = u

(* Everybody leaves: no order of removals, early returns and cancelled      *)
(* waiters leaves a task waiting for a lock for ever (upstream.rs:422-442). *)
EveryoneLeaves ==
  \A t \in Requests : section[t] # "idle" ~> section[t] = "idle"
=============================================================================
