---------------------------- MODULE RegisterKey ----------------------------
(***************************************************************************)
(* RegisterKeyService (crates/api/src/registerkey.rs): register keys by    *)
(* "fingerprint:keyver" in one concurrent map and the current key of each  *)
(* fingerprint in another.  No lock spans the two, or two accesses to one: *)
(* every map access below is a step, so that resolve, invalidate and the   *)
(* trim that ends a resolve interleave as they may in the program.         *)
(*                                                                         *)
(* A DashMap is a row of shards; len() and iter() visit them one by one in *)
(* order, locking one at a time, and see each as it is when visited.       *)
(***************************************************************************)
EXTENDS Clock, FiniteSets

CONSTANTS
  Tasks,
  Fingerprints,   \* device fingerprints
  KeyVers,        \* key versions, as the upstream numbers them
  Serves,         \* those that the upstream may serve a device
  Shards,         \* number of shards of cache_by_key
  ShardOf,        \* the shard a cache key hashes to
  MaxEntries,     \* fq.cache.register_key_max_entries
  TtlMs,          \* fq.cache.register_key_ttl_ms
  NoKey

Keys == Fingerprints \X KeyVers

KeysOf(fp) == {fp} \X KeyVers

\* RegisterKeyService::new stores cache_max_entries.max(1).
Capacity == IF MaxEntries = 0 THEN 1 ELSE MaxEntries

ASSUME RegisterKeyAssumption ==
  /\ IsFiniteSet(Fingerprints) /\ IsFiniteSet(KeyVers)
  /\ KeyVers \subseteq Int
  /\ Serves \in [Fingerprints -> SUBSET KeyVers]
  /\ Shards \in Nat \ {0}
  /\ ShardOf \in [Keys -> 0 .. Shards - 1]
  /\ MaxEntries \in Nat /\ TtlMs \in Nat
  /\ NoKey \notin Keys

VARIABLES
  expires,   \* cache_by_key: the expires_at_ms of an entry, 0 if absent
  current,   \* current_by_fingerprint
  pc,        \* where the task stands
  asked,     \* what the task resolves: fingerprint and required keyver, or 0
  key,       \* the cache key at hand
  expiry,    \* the expires_at_ms computed for the fetched key
  shard,     \* the shard that len() or iter() visits next
  seen,      \* what len() has counted (the code keeps only the number)
  picked,    \* the keys collected for removal
  fresh      \* auxiliary: keys inserted since the task's invalidate began

taskVars == <<pc, asked, key, expiry, shard, seen, picked, fresh>>
vars == <<clock, expires, current, taskVars>>

Live == {k \in Keys : expires[k] # 0}

LiveIn(s) == {k \in Live : ShardOf[k] = s}

\* compute_expires_at_ms; a ttl of 0 means i64::MAX.
ExpiresAt == IF TtlMs = 0 THEN MaxTime + 1 ELSE clock + TtlMs

Expired(k) == expires[k] < clock

Init ==
  /\ ClockInit
  /\ expires = [k \in Keys |-> 0]
  /\ current = [fp \in Fingerprints |-> NoKey]
  /\ pc = [t \in Tasks |-> "idle"]
  /\ asked = [t \in Tasks |-> NoKey]
  /\ key = [t \in Tasks |-> NoKey]
  /\ expiry = [t \in Tasks |-> 0]
  /\ shard = [t \in Tasks |-> 0]
  /\ seen = [t \in Tasks |-> {}]
  /\ picked = [t \in Tasks |-> {}]
  /\ fresh = [t \in Tasks |-> {}]

Goto(t, place) == pc' = [pc EXCEPT ![t] = place]

At(t, place) == pc[t] = place

\* A call is over: its locals are gone.
Return(t) ==
  /\ Goto(t, "idle")
  /\ asked' = [asked EXCEPT ![t] = NoKey]
  /\ key' = [key EXCEPT ![t] = NoKey]
  /\ expiry' = [expiry EXCEPT ![t] = 0]
  /\ shard' = [shard EXCEPT ![t] = 0]
  /\ seen' = [seen EXCEPT ![t] = {}]
  /\ picked' = [picked EXCEPT ![t] = {}]
  /\ fresh' = [fresh EXCEPT ![t] = {}]

walkVars == <<shard, seen, picked, fresh>>
mapVars == <<clock, expires, current>>

Remove(k) == expires' = [expires EXCEPT ![k] = 0]

-----------------------------------------------------------------------------
(* resolve, up to the fetch *)

ResolveVersion(t, fp, kv) ==
  /\ At(t, "idle")
  /\ kv > 0
  /\ asked' = [asked EXCEPT ![t] = <<fp, kv>>]
  /\ key' = [key EXCEPT ![t] = <<fp, kv>>]
  /\ Goto(t, "lookup")
  /\ UNCHANGED <<mapVars, expiry, walkVars>>

\* No version required (None, or not positive): start from current.
ResolveCurrent(t, fp) ==
  /\ At(t, "idle")
  /\ asked' = [asked EXCEPT ![t] = <<fp, 0>>]
  /\ key' = [key EXCEPT ![t] = current[fp]]
  /\ Goto(t, IF current[fp] = NoKey THEN "fetch" ELSE "lookup")
  /\ UNCHANGED <<mapVars, expiry, walkVars>>

\* Where a miss leads: without a version the pointer is dropped first.
AfterMiss(t) == IF asked[t][2] = 0 THEN "dropCurrent" ELSE "fetch"

\* get_valid finds a valid entry: resolve returns it.
Hit(t) ==
  /\ At(t, "lookup")
  /\ key[t] \in Live /\ ~Expired(key[t])
  /\ Return(t)
  /\ UNCHANGED mapVars

Miss(t) ==
  /\ At(t, "lookup")
  /\ key[t] \notin Live
  /\ Goto(t, AfterMiss(t))
  /\ UNCHANGED <<mapVars, asked, key, expiry, walkVars>>

\* get_valid finds an expired entry and lets go of its shard (line 148) ...
FindExpired(t) ==
  /\ At(t, "lookup")
  /\ key[t] \in Live /\ Expired(key[t])
  /\ Goto(t, "evict")
  /\ UNCHANGED <<mapVars, asked, key, expiry, walkVars>>

\* ... to remove whatever the key holds by now.
Evict(t) ==
  /\ At(t, "evict")
  /\ Remove(key[t])
  /\ Goto(t, AfterMiss(t))
  /\ UNCHANGED <<clock, current, asked, key, expiry, walkVars>>

DropCurrent(t) ==
  /\ At(t, "dropCurrent")
  /\ current' = [current EXCEPT ![asked[t][1]] = NoKey]
  /\ Goto(t, "fetch")
  /\ UNCHANGED <<clock, expires, asked, key, expiry, walkVars>>

-----------------------------------------------------------------------------
(* fetch_register_key (its request and decryption are external) and caching *)

FetchFails(t) ==
  /\ At(t, "fetch")
  /\ Return(t)
  /\ UNCHANGED mapVars

\* The upstream serves another version than the required one: error 1101,
\* and the key is not cached.
VersionMismatch(t, kv) ==
  /\ At(t, "fetch") /\ kv \in Serves[asked[t][1]]
  /\ asked[t][2] \notin {0, kv}
  /\ Return(t)
  /\ UNCHANGED mapVars

\* Slip: any version is taken for the required one.
FetchedUnchecked(t, kv) ==
  /\ At(t, "fetch") /\ kv \in Serves[asked[t][1]]
  /\ key' = [key EXCEPT ![t] = <<asked[t][1], kv>>]
  /\ expiry' = [expiry EXCEPT ![t] = ExpiresAt]
  /\ Goto(t, "insert")
  /\ UNCHANGED <<mapVars, asked, walkVars>>

Fetched(t, kv) ==
  /\ At(t, "fetch") /\ kv \in Serves[asked[t][1]]
  /\ asked[t][2] \in {0, kv}
  /\ key' = [key EXCEPT ![t] = <<asked[t][1], kv>>]
  /\ expiry' = [expiry EXCEPT ![t] = ExpiresAt]
  /\ Goto(t, "insert")
  /\ UNCHANGED <<mapVars, asked, walkVars>>

Insert(t) ==
  /\ At(t, "insert")
  /\ expires' = [expires EXCEPT ![key[t]] = expiry[t]]
  /\ fresh' = [u \in Tasks |-> IF pc[u] \in {"gather", "purge"}
                                 THEN fresh[u] \cup {key[t]} ELSE fresh[u]]
  /\ Goto(t, "point")
  /\ UNCHANGED <<clock, current, asked, key, expiry, shard, seen, picked>>

\* Slip: trim_if_needed is not called.
PointUntrimmed(t) ==
  /\ At(t, "point")
  /\ current' = [current EXCEPT ![asked[t][1]] = key[t]]
  /\ Return(t)
  /\ UNCHANGED <<clock, expires>>

Point(t) ==
  /\ At(t, "point")
  /\ current' = [current EXCEPT ![asked[t][1]] = key[t]]
  /\ key' = [key EXCEPT ![t] = NoKey]
  /\ expiry' = [expiry EXCEPT ![t] = 0]
  /\ Goto(t, "count")
  /\ UNCHANGED <<clock, expires, asked, walkVars>>

-----------------------------------------------------------------------------
(* trim_if_needed *)

\* len() visits a shard.
CountShard(t) ==
  /\ At(t, "count") /\ shard[t] < Shards
  /\ seen' = [seen EXCEPT ![t] = @ \cup LiveIn(shard[t])]
  /\ shard' = [shard EXCEPT ![t] = @ + 1]
  /\ UNCHANGED <<mapVars, pc, asked, key, expiry, picked, fresh>>

Overflow(t) == Cardinality(seen[t]) - Capacity

NoOverflow(t) ==
  /\ At(t, "count") /\ shard[t] = Shards
  /\ Overflow(t) <= 0
  /\ Return(t)
  /\ UNCHANGED mapVars

StartPick(t) ==
  /\ At(t, "count") /\ shard[t] = Shards
  /\ Overflow(t) > 0
  /\ Goto(t, "pick")
  /\ shard' = [shard EXCEPT ![t] = 0]
  /\ UNCHANGED <<mapVars, asked, key, expiry, seen, picked, fresh>>

\* Slip: the take stops one short.
StillToPickShort(t) == Overflow(t) - Cardinality(picked[t]) - 1

StillToPick(t) == Overflow(t) - Cardinality(picked[t])

\* iter().take(overflow) visits a shard, in an order that hashing decides,
\* and takes all of it or as much as is still to take.
PickShard(t) ==
  /\ At(t, "pick") /\ shard[t] < Shards /\ StillToPick(t) > 0
  /\ \E some \in SUBSET LiveIn(shard[t]) :
       /\ Cardinality(some) <= StillToPick(t)
       /\ some = LiveIn(shard[t]) \/ Cardinality(some) = StillToPick(t)
       /\ picked' = [picked EXCEPT ![t] = @ \cup some]
  /\ shard' = [shard EXCEPT ![t] = @ + 1]
  /\ UNCHANGED <<mapVars, pc, asked, key, expiry, seen, fresh>>

StartTrim(t) ==
  /\ At(t, "pick")
  /\ shard[t] = Shards \/ StillToPick(t) <= 0
  /\ Goto(t, "trim")
  /\ shard' = [shard EXCEPT ![t] = 0]
  /\ seen' = [seen EXCEPT ![t] = {}]
  /\ UNCHANGED <<mapVars, asked, key, expiry, picked, fresh>>

\* Remove one collected key; if it was still there its pointers go too.
TrimKey(t, k) ==
  /\ At(t, "trim") /\ k \in picked[t]
  /\ Remove(k)
  /\ picked' = [picked EXCEPT ![t] = @ \ {k}]
  /\ key' = [key EXCEPT ![t] = k]
  /\ IF k \in Live THEN Goto(t, "findPointer") ELSE UNCHANGED pc
  /\ UNCHANGED <<clock, current, asked, expiry, shard, seen, fresh>>

\* The walk over current_by_fingerprint collects the pointer to the key ...
FindPointer(t) ==
  /\ At(t, "findPointer")
  /\ Goto(t, IF current[key[t][1]] = key[t] THEN "unpoint" ELSE "trim")
  /\ UNCHANGED <<mapVars, asked, key, expiry, walkVars>>

\* ... and removes the fingerprint's pointer, whatever it is by then.
Unpoint(t) ==
  /\ At(t, "unpoint")
  /\ current' = [current EXCEPT ![key[t][1]] = NoKey]
  /\ Goto(t, "trim")
  /\ UNCHANGED <<clock, expires, asked, key, expiry, walkVars>>

Trimmed(t) ==
  /\ At(t, "trim") /\ picked[t] = {}
  /\ Return(t)
  /\ UNCHANGED mapVars

-----------------------------------------------------------------------------
(* invalidate, called by auto heal and after a failed decryption *)

Invalidate(t, fp) ==
  /\ At(t, "idle")
  /\ current' = [current EXCEPT ![fp] = NoKey]
  /\ asked' = [asked EXCEPT ![t] = <<fp, 0>>]
  /\ Goto(t, "gather")
  /\ UNCHANGED <<clock, expires, key, expiry, walkVars>>

GatherShard(t) ==
  /\ At(t, "gather") /\ shard[t] < Shards
  /\ picked' = [picked EXCEPT ![t] =
                 @ \cup (LiveIn(shard[t]) \cap KeysOf(asked[t][1]))]
  /\ shard' = [shard EXCEPT ![t] = @ + 1]
  /\ UNCHANGED <<mapVars, pc, asked, key, expiry, seen, fresh>>

\* Slip: the walk stops one shard short.
StartPurgeEarly(t) ==
  /\ At(t, "gather") /\ shard[t] = Shards - 1
  /\ Goto(t, "purge")
  /\ UNCHANGED <<mapVars, asked, key, expiry, walkVars>>

StartPurge(t) ==
  /\ At(t, "gather") /\ shard[t] = Shards
  /\ Goto(t, "purge")
  /\ UNCHANGED <<mapVars, asked, key, expiry, walkVars>>

PurgeKey(t, k) ==
  /\ At(t, "purge") /\ k \in picked[t]
  /\ Remove(k)
  /\ picked' = [picked EXCEPT ![t] = @ \ {k}]
  /\ UNCHANGED <<clock, current, pc, asked, key, expiry, shard, seen, fresh>>

Invalidated(t) ==
  /\ At(t, "purge") /\ picked[t] = {}
  /\ Return(t)
  /\ UNCHANGED mapVars

-----------------------------------------------------------------------------
Step(t) ==
  \/ \E fp \in Fingerprints, kv \in KeyVers : ResolveVersion(t, fp, kv)
  \/ \E fp \in Fingerprints : ResolveCurrent(t, fp)
  \/ Hit(t) \/ Miss(t) \/ FindExpired(t) \/ Evict(t) \/ DropCurrent(t)
  \/ FetchFails(t)
  \/ \E kv \in KeyVers : VersionMismatch(t, kv) \/ Fetched(t, kv)
  \/ Insert(t) \/ Point(t)
  \/ CountShard(t) \/ NoOverflow(t)
  \/ StartPick(t) \/ PickShard(t) \/ StartTrim(t)
  \/ \E k \in picked[t] : TrimKey(t, k)
  \/ FindPointer(t) \/ Unpoint(t) \/ Trimmed(t)
  \/ \E fp \in Fingerprints : Invalidate(t, fp)
  \/ GatherShard(t) \/ StartPurge(t)
  \/ \E k \in picked[t] : PurgeKey(t, k)
  \/ Invalidated(t)

Tick == Advance /\ UNCHANGED <<expires, current, taskVars>>

Next == Tick \/ \E t \in Tasks : Step(t)

Spec == Init /\ [][Next]_vars

-----------------------------------------------------------------------------
Resolving == {"lookup", "evict", "dropCurrent", "fetch", "insert"}
Trimming == {"point", "count", "pick", "trim", "findPointer", "unpoint"}
Invalidating == {"gather", "purge"}

Requests == Fingerprints \X (KeyVers \cup {0})

(* Types; a fingerprint's pointer only ever names a key of that fingerprint.*)
TypeOK ==
  /\ clock \in 1 .. MaxTime
  /\ expires \in [Keys -> Nat]
  /\ current \in [Fingerprints -> Keys \cup {NoKey}]
  /\ \A fp \in Fingerprints : current[fp] \in KeysOf(fp) \cup {NoKey}
  /\ pc \in [Tasks -> {"idle"} \cup Resolving \cup Trimming \cup Invalidating]
  /\ asked \in [Tasks -> Requests \cup {NoKey}]
  /\ \A t \in Tasks : pc[t] # "idle" => asked[t] \in Requests
  /\ key \in [Tasks -> Keys \cup {NoKey}]
  /\ expiry \in [Tasks -> Nat]
  /\ shard \in [Tasks -> 0 .. Shards]
  /\ seen \in [Tasks -> SUBSET Keys]
  /\ picked \in [Tasks -> SUBSET Keys]
  /\ fresh \in [Tasks -> SUBSET Keys]

(* What a resolve looks up, returns and caches is a key of the fingerprint  *)
(* it was asked for, and of the version it was asked for if any, although   *)
(* pointers and entries change under it (registerkey.rs:73-105).            *)
AnswersRequest ==
  \A t \in Tasks : pc[t] \in {"lookup", "evict", "insert", "point"} =>
    /\ key[t] \in KeysOf(asked[t][1])
    /\ asked[t][2] # 0 => key[t][2] = asked[t][2]

(* The trim has no lock, its count and its walk see the shards at different *)
(* times and others insert meanwhile; still, once no trim is pending, the   *)
(* cache is back within its limit (registerkey.rs:98-106, 155-188).         *)
QuiescentCapacity ==
  (\A t \in Tasks : pc[t] \notin Trimming) => Cardinality(Live) <= Capacity

(* Until then the cache exceeds the limit by no more entries than there are *)
(* resolves between their insert and the end of their trim.                 *)
OvershootBounded ==
  Cardinality(Live) <=
    Capacity + Cardinality({t \in Tasks : pc[t] \in Trimming})

(* When invalidate returns, the only keys left of its fingerprint are ones  *)
(* that a resolve inserted after it began (registerkey.rs:115-135).  Such a *)
(* resolve may have fetched its key before: nothing stops it from caching   *)
(* what was meant to be dropped.                                            *)
InvalidationPurges ==
  \A t \in Tasks : pc[t] = "purge" /\ picked[t] = {} =>
    Live \cap KeysOf(asked[t][1]) \subseteq fresh[t]
=============================================================================
