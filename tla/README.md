# fq_Rust in TLA+

`fq_Rust` is an HTTP service (axum, tokio) in front of a novel reading app's
upstream API. Each of its requests becomes one or more signed upstream calls;
what makes the program hard is what the calls share: a pool of device
identities, a manager that decides when to heal, register keys with which
chapters are decrypted, caches in memory and in PostgreSQL, and one thread that
owns an ARM emulator and produces the signatures.

This directory holds TLA+ modules of those parts, the TLC configurations that
check them on small instances, and proofs that TLAPS checks for every instance.
`PROJECT.json` lists the runs, the theorems, the lines of code that each
definition models, and the hazards that the properties are aimed at.

## How to run

    tlasany  AutoHeal.tla                               # parse
    tlc -workers 2 -config UpstreamCall.cfg MCUpstreamCall
    tlapm    RegisterKeyProofs.tla                      # check the proofs

## 1. Inventory of the system

The program's own code is `src/crates`, about 6000 lines of Rust; `src/vendor`
(the emulator and its engines) is third-party.

| Component (crates/api/src unless said) | State | Operations | Interacts with | What is hard | What makes it correct | Module |
|---|---|---|---|---|---|---|
| auto heal manager, `auto_heal.rs` | queue of failure times, time of the last heal, under a mutex | `record_success`, `record_failure_and_should_heal` | called at the end of every upstream call | time is read before the lock | heals only on evidence, counts only recent failures, heals are a cooldown apart | `AutoHeal` |
| device pool, `device_pool.rs` | active profile, its index, time of the last rotation, under a mutex | `new`, `rotate_if_allowed`, `activate_profile_by_name` | every call takes the active profile; failures rotate it | names may be blank or shared; the boot profile may not be in the pool | index and profile agree; a device that was left rests before it comes back | `DevicePool` |
| upstream call, `upstream.rs` | the call's place, the device it took | send, sort the answer, rotate and send again, report, heal | device pool, auto heal, register keys, signer | nothing is locked over a call; a device taken before an await is stale after it | a rotation leaves the device that failed; a retry uses another; heals need failed calls; consecutive errors heal | `UpstreamCall` |
| register key service, `registerkey.rs` | two concurrent maps: key by fingerprint and version, current key by fingerprint | `resolve`, `invalidate`, `trim_if_needed` | upstream (fetch), signer; called by the chapter flow and by heals | no lock spans two accesses; fetches are awaited in between | right key for the request; limit kept; invalidation leaves nothing old | `RegisterKey` |
| prefetch deduplication, `upstream.rs:407-443` | map from bucket to an `Arc`ed tokio mutex | enter, lock, fetch the bucket, remove the lock | chapter cache, upstream call | count and remove are two steps; requests may be dropped at any await | one fetch of a bucket at a time; nobody waits for ever | `PrefetchDedup` |
| chapter caches, `cache.rs`, `db_cache.rs` | entries with an expiry; rows with a creation time | get (which deletes what expired), insert/put, sweep | `get_chapter`, `cache_chapter`, the cleanup task; the table outlives the process | two clocks, refill of one cache from the other, late writers, restarts | what is served is not arbitrarily old | `ChapterStore` |
| signer thread, `signer.rs`, `signer-native/src/runtime.rs` | command queue, the emulator, time of the last restart | sign (starts, retries after a restart), restart | every upstream call and key fetch; heals restart it | panics end the thread; emulators are never freed; one queue for all | every caller is released; rebuilds are paced; a refused restart has a young emulator | `SignerThread` |
| chapter pipeline, `upstream.rs:114-168, 364-513, 589-657` | none of its own | directory, prefetch, batch, key, decryption, retry with a new key | all of the above | the device may change between batch and key; a retry may meet the key that failed | text is decrypted with the key it was sealed with, or fails; a retry uses a new key; few reports per request | `ChapterPipeline` |
| search flow, `main.rs:53-77, 135-188`, `upstream.rs:29-96, 316-362, 984-1067` | search cache | validation, two phases with a pause between, rotation on an empty answer | upstream call, device pool | rotations inside and between the phases; a cache key of joined texts | the id is not lost; a search is answered with its own answer; requests are bounded | `SearchFlow` |
| directory and book info, `upstream.rs:98-112, 246-314, 1104-1137, 1210-1237` | two caches | cached fetch, minimal form, number of chapters | upstream call | items without an id, counts that do not fit | chapters' numbers and neighbours agree | `ChapterPipeline`, `Directory` |
| startup probe, `upstream.rs:170-244` | none | walk the pool until a device answers, else restore | device pool | walks by index, activates by name | asks with every device in reach; restores the first when none answers | `StartupProbe` |
| bucket arithmetic, `upstream.rs:1139-1204, 1239-1269` | none | key of a bucket, its chapters, neighbours of a chapter | prefetch | bounds, chapters not in the directory | every chapter of a bucket has the same key and gets the same batch | `Directory` |
| configuration, `config.rs` | none after start | load, inherit, override, validate | gives every constant | precedence of sources; an override that names every profile alike | the boot profile is the pool's, and the pool rotates from it | `ConfigLoad`, `ServiceStart` |
| embedded runtime, `signer-native/src/runtime.rs:204-305` | files under the temporary directory | write what is missing or of another length | signer start | a crash in a write, two processes, two versions | an emulator is built from whole files | `ServiceStart` |
| requests, `fq.rs`, `upstream.rs:745-982`, `signer.rs:248-321` | none | url, encoding, cookie, headers, filters | every call | texts that look encoded, headers merged and then filtered | what is sent is what is signed and meant | `UpstreamRequest`, `SearchFlow` |
| content, encodings, models, `content.rs`, `encoding.rs`, `models.rs` | none | AES, gzip, html, JSON | | pure conversions of bytes | | outcomes only, in `ChapterPipeline` and `SearchFlow` |
| http server, `main.rs` | none | routes, checks, shutdown, spawn of the sweeper | calls the flows | axum's | | checks in `SearchFlow`, start in `ServiceStart`, sweeper in `ChapterStore` |
| signer worker, `signer-native/src/worker` | the emulator, one static address | build: read, create, load | runtime | a build that fails half way | the address is the running emulator's | `ServiceStart` |
| `src/vendor`, scripts, images | the emulated library | | | | | no: external to the models |

How they interact. A request handler runs its flow (search, directory, book,
chapter) as one tokio task. The flow looks in its caches, and otherwise makes
upstream calls. A call takes a clone of the active profile, has its url signed
by the signer thread (through a blocking task that waits for a reply), sends,
and sorts the answer. `execute_signed_json_get` records a success for every
JSON body; an error that speaks of illegal access rotates the pool, once per
call and if the cooldown allows; an error that stands is reported to the auto
heal manager, which may answer that the caller must heal: invalidate the active
device's register keys, rotate, restart the signer. All sharing is through
mutexes, DashMaps and channels that are held for one access only: every two
accesses of one task may have another task's access between them.

## 2. Modules and the code

All modules read time from `Clock` (`fq.rs:now_ms`): a counter from 1 up to
`MaxTime`, the bound of a run. Zero is "never", as in the code's timestamp fields.

**`CooldownGate`** is the abstract specification of a cooldown: two passages
are at least `Gap` apart on the clock. The code checks a cooldown in three places, in
the same form. `AutoHeal` is shown to implement the gate through
`INSTANCE CooldownGate WITH Gap <- .., last <- heal_clock` (`HealsApart`), where
`heal_clock` is the real instant of the heal and not the code's own stamp. For the
device pool and the signer thread a gate on their own stamp would only repeat their
guard; their properties are about what the cooldown is for, on clocks of the model's
own (`DevicesRest`, `BuildsSpaced`, `RefusedWhileYoung`).

**`AutoHeal`**. `failure_times`, `last_heal_at_ms` and `enabled` are the
fields of `AutoHealState`. `StampFailure(t)` is line 40 (the time is read),
`RecordFailure(t)` the section under the lock with its three outcomes:
`Ignore` (disabled), `Count` and `Heal`. `Trimmed` is `trim_window`, which pops
stale *fronts*: with stamps out of order something stale can hide behind
something fresh. `streak` and `heal_clock` are auxiliary: nothing but
properties reads them, `streak` also bounds a run.

**`DevicePool`** has the state of `DevicePoolState` and its operations: `NewPool`
(`new`), `Rotate` (`rotate_if_allowed` answering true) and `ActivateByName`. A
refusal changes nothing and is `~RotationAllowed` for the modules that use it.
Profiles are records of a trimmed name and an identity. It has no next-state
relation of its own: its callers do.

**`StartupProbe`** is the pool from the configuration to service. `Bootstrap`
and `BootProfile` choose the profile it boots on (`config.rs:377-388, 416-437`).
`Answered`, `Failed`, `Switch` and `Restore` are the steps of
`run_startup_probe`, in which each attempt is asked with whatever is active
(`Ask`), since the activation's answer is ignored (`TryActivate`). After it,
`RotateServing` is any caller's rotation. `asked`, `exhausted`, `left_at`
(when a rotation last left each place of the pool) and the identity in `boot` are
auxiliary: the code keeps the boot profile's name.

**`UpstreamCall`** extends `DevicePool`, instantiates `AutoHeal` (as `AH`, over the same
variables), and runs tasks over both. `pc` is the place in `fetch_batch_full` / `fetch_directory` / `execute_search_once_with_rotation`,
which have one skeleton:

| action | code |
|---|---|
| `Send` | the first line of `*_once`: clone the active profile, sign, send |
| `Answer(outcome)` | the end of `execute_signed_json_get`, and the caller's check of the code |
| `RotateAndRetry`, `RotationRefused` | `should_rotate_after_error(..) && rotate_device_if_allowed(..)` |
| `ReportFailure`, `DecideHeal` | `record_failure_and_should_heal`, in its two steps |
| `HealInvalidate`, `HealRotate`, `HealRestarted` | the rest of `auto_heal_after_error` |

The outcomes are the classes that the code tells apart: `ok`, `jsonError`,
`jsonIllegal` (each of which is a JSON body, hence records a success first),
`rawIllegal`, `transport`.

**`RegisterKey`**. `expires` is `cache_by_key` (a key's `expires_at_ms`, 0 if
absent; the key material plays no part), `current` is `current_by_fingerprint`.
Each access to a DashMap is one action, because that is what the map makes
atomic: `get_valid` is `Hit`, `Miss`, or `FindExpired` then `Evict`; `len()`
and `iter()` visit shard after shard (`CountShard`, `PickShard`,
`GatherShard`). The fetch is one step with its outcomes (`FetchFails`,
`VersionMismatch`, `Fetched`); it takes as long as other tasks like.
`fresh` is auxiliary: the keys inserted since an `invalidate` began.

**`PrefetchDedup`** (`DedupSpec`). One entry of `inflight_chapter_prefetch` (keys do not
interact). `section` is where a request stands, `mapped` is the `Arc` in the map, `mine` the clone a task holds, and
`line` the tokio mutex: its holder and then its waiters, in order.
`CountRefs` and `Unmap` are the two halves of lines 439-440. `Cancel` is the
task being dropped at an await. `raced` is auxiliary: a task has come between
another's count and remove since the bucket was last quiet.

**`ChapterStore`**. One chapter in the `TtlCache` (`mem`: expiry and the
chapter's `update_time`), in the table (`row`: `created_at_ms` and
`update_time`). The actions follow `get_chapter`: look in memory, ask the table
and fill memory from it, prefetch, look again, fetch alone, `cache_chapter`
(memory first, then the row). Both caches delete what they find expired *by
key*, after they have let go of it. `Restart` keeps the table only.

**`SignerThread`**. `rx` is the channel, `place` where the thread stands,
`waiting` the callers blocked in `recv()`. `Started`, `Restarted` build an
emulator and count it: `NativeSigner`'s drop is empty, so none is ever freed.
`built` counts them and `made` has the instants at which the last two were complete;
both are auxiliary. The code's own `last_restart_at_ms` is the `now` read before a build.
`Panic` unwinds the thread: the queue and all reply senders go with it.

**`Directory`** holds the pure functions over a book's directory, a record of
the items (with their ids), the upstream's count and the book's own count:
`Minimal` (`trim_directory_for_minimal`), `TotalChapters`, `BatchSizeOf`,
`PrefetchKey`, `BatchIds` and `Context` (`chapter_context`). It has no state. `Kept(s, P)`
is Rust's `filter`: the items of a sequence at the positions `P`, in their order,
written with ranks rather than with `SelectSeq`, so that it can be reasoned about;
`MCChapterPipeline` has TLC compare the two (`KeptIsFilter`).
`Options` has Rust's `Option` as a set of at most one element.

**`ChapterPipeline`** follows `get_chapter`, `get_toc` and `get_book_info` as tasks
(`task[t]`, one record of locals each) over one `DevicePool` and a `Directory`:

| action | code |
|---|---|
| `RequestChapter`, `RequestToc`, `RequestBook` | the flow begins; its cache has no entry |
| `DirectoryCached`, `DirectoryMissing`, `DirectoryArrives` | `fetch_directory`, the minimal or the full form |
| `StartPrefetch`, `SkipPrefetch`, `Prefetched`, `StartSingle` | `prefetch_and_cache_dedup` and `get_chapter:139-153` |
| `Send`, `BatchArrives`, `RotateAndResend`, `Fail`, `HealInvalidate`, `HealRotate` | the upstream call, as in `UpstreamCall` |
| `ItemMissing`, `KeyCached`, `KeyMissing`, `FetchKey`, `KeyUnavailable`, `InsertKey` | `build_chapter_from_item_content` and `resolve` |
| `Decrypt`, `Garble`, `EmptyText`, `DecryptFails`, `DecryptFailsAgain` | `decrypt_chapter_with_retry`, `extract_text`, `cache_chapter` |

A register key is a pair of a device and a generation; a chapter arrives sealed
with the key that its device has at that moment. The upstream may renew a key
(`Rekey`). What any number of other requests do to the shared state is in
`OthersRotate`, `OthersCache`, `OthersInvalidate` and `OthersInsertKey`, so that one
followed task meets all their interleavings. `crossed`, `since` and `reports` are
auxiliary: the pool moved while a batch was under way; keys inserted since the
task dropped one; failures reported by the task.

**`UpstreamRequest`** has the pure functions that make a request. A text is a
sequence over `Characters`, any set of them. The module's header lists the classes
that the encodings, the url parser and the query tell apart (blank, `+`, `&`, `#`, `%`,
a tab or line end, what every encoding escapes, what only `java_url_encode` does,
escapes); the rest are one class. A url is a set of named texts and whether a
fragment follows, since names differ and nothing reorders them; the order that
`build_search_params` gives them (`Order`) matters where a `#` ends the query:
`OnTheWire` leaves out the rest of that value and all parameters after it. `QueryFilter`
keeps the fragment, as `query_pairs_mut` does. `Decimal` is `to_string` of a number, of which only
its being one to one matters. `Decode`, `Encode` and `EncodeIfNeeded` are `java_url_decode`,
`java_url_encode`, `encode_if_needed`; `BuildUrl`, `QueryFilter`, `HeaderFilter`,
`NormalizeInstallId`, `MergeHeaders` carry the code's names. `OnTheWire` (the
http client's url parser) and `Received` (the upstream) are external.

**`SearchFlow`** is `search_books` over `DevicePool` and `UpstreamRequest`:
`Validated` is the handler's check, `Search` to `Finish` the two phases with the pause
between them (`SecondPhase`), the rotation on an empty answer (`RotateOnEmpty`,
`StayEmpty`) and each call's own rotation (`RotateAndResend`). `Parsed` is
`parse_search_response` down to the tab, the id and the number of books.
`sends`, `reports` and `began` are auxiliary.

**`ConfigLoad`** has no state either: it is `AppConfig::load` as one operator, `Load`, from the files and the
environment (a *deployment*) to at most one config, by `LoadFromDisk`, `ApplyEnv`,
`Inherit`, `ApplyOverrides` and `Valid`. `BootIndex` is what `DevicePoolManager::new`
makes of it, taken from `DevicePool` itself. `Deployment` is the set of all deployments.

**`ServiceStart`** (`StartSpec`) has processes that start, materialise the embedded files
(`Keep`, `Refresh`, `Open`, `Write`: one chunk at a time), build emulators from them
(`BuildEmulator`, `Create`, `LoadLibrary`, `LoadFails`, in `LoadOrder`) and may crash anywhere. `disk` is shared
and survives. A file is a sequence of chunks labelled with the version they are of.
`ran`, `overlapped`, `touched` and `spoilt` are auxiliary.

`MC*` modules only give values to constants and name symmetries.

## 3. What each run checks

| run | instance | properties | states |
|---|---|---|---|
| `auto_heal` | 2 tasks, threshold 3, window 2, cooldown 4, lag 1, clock to 9 | `HealOnEvidence`, `CountedRecent`, `HealsApart` (refinement) | 69,882 |
| `startup_probe` | pool of 4: a shared name, a blank one; 5 configured profiles, 3 attempts, cooldown 3, clock to 14 | `IndexTracksProfile`, `RestoresBoot`, `AsksAllInReach`, `DevicesRest` (of steps) | 35,352 |
| `upstream_call` | 2 tasks, 2 devices, threshold 2, window 2, both cooldowns 3, calls up to 2 | `RotationLeavesFailedDevice`, `HealNeedsFailedCalls`, `RetryOnOtherDevice` | 2,162,281 |
| `upstream_call_transport` | 2 tasks, 3 devices, no heal cooldown, no JSON errors | `ConsecutiveErrorsHeal` | 122,230 |
| `upstream_call_json_errors` | 1 task, all outcomes | `ConsecutiveErrorsHeal`, **violated** | |
| `register_key` | 2 tasks up to symmetry, 2 fingerprints, versions 0 and 1, 2 shards, limit 1, ttl 1, clock to 3 | `AnswersRequest`, `QuiescentCapacity`, `OvershootBounded`, `InvalidationPurges` | 1.8 million |
| `prefetch_dedup` | 3 tasks, 2 chapters, two of the tasks want one each and the third either; fairness | `DedupTypeOK`, `OneFetchUnlessRaced`, `EveryoneLeaves` (liveness) | 137,824 |
| `chapter_store` | 2 tasks, ttl 2, hold 1, clock to 8 | `StalenessBounded` | 165,680 |
| `signer_thread` | 3 callers, cooldown 2, 6 emulators, fairness | `TypeOK`, `EmulatorsPaced`, `RefusedWhileYoung`, `BuildsSpaced` (of steps), `EveryCallReturns` (liveness) | 90,762 |
| `chapter_pipeline` | 1 followed request among any number, 2 devices of which one renews its key, 2 directories (an item without an id, a padded id, with and without book info), buckets of 2, cooldown 1, clock to 2 | `TextIsTrue`, `RetryKeyIsNew`, `ReportsBounded`, `BatchHoldsChapter`, `SameKeySameBatch`, `ReadingOrder` | 1,354,938 |
| `search_flow` | 1 followed search, 11 queries (2 refused, 2 with one cache key, 2 with a `#`), 2 devices with one cookie, 4 answers, filters on and off, cooldown 2, clock to 7 | `SearchTypeOK`, `SendsBounded`, `IdNeverLost`, `AnswersOwnRequest`, `SignedIsSent`, `QueryArrives`, `HeadersAsMeant` | 787,124 |
| `service_start` | 2 processes of 2 versions, 2 files of which one tells the versions apart by its length, 6 deployments of which 2 do not load, 2 emulators each | `BootsWithPool`, `LoadsWhatItEmbeds`, `GlobalsOfRunning` | 568,778 |

What they show, beyond what each property says above its definition:

- *`HealsApart`* and *`CountedRecent`* hold with the slack `MaxLag` and fail
  without it: reading the clock before the lock costs exactly the wait for the
  lock, and no more.
- *`RestoresBoot`* and *`AsksAllInReach`* are about the devices that their name
  leads to (`Addressable`), and fail without that condition: a device with a
  blank name, or behind another of its name, is never asked with, and a boot
  device of that kind is not restored.
- *`RotationLeavesFailedDevice`* and *`RetryOnOtherDevice`* hold because calls
  are shorter than the rotation cooldown (`MaxHold < RotateCooldownMs`), and
  fail as soon as a call may last as long as the cooldown. The condition is
  about the configuration: with the defaults, cooldown 60 s, one request may
  take 30 s, and twice that when an empty body is asked for again
  (`upstream.rs:541-554`), signing not counted. Nothing in the code enforces it.
- *`OneFetchUnlessRaced`* says where the deduplication has its one gap: between
  `strong_count` and `remove`. Early returns and dropped waiters do not open another.
- *`StalenessBounded`* has the factor two because a row near the end of its ttl
  refills memory for a whole ttl. The bound is tight.
- *`InvalidationPurges`* is as strong as the code: a resolve that was fetching
  when `invalidate` ran caches its key afterwards.

- *`TextIsTrue`* says when a chapter's text can be wrong: when its device's key is
  not numbered, or when the pool moved between batch and key. In both cases
  `resolve_register_key` looks up a key that may be of another device or
  generation, and one time in 256 the wrong key leaves a valid padding. Without
  either exclusion the run fails.
- *`ReportsBounded`* is what a threshold of failures means in requests: one chapter may
  report two failures, since the directory's and the prefetch's are swallowed
  but counted.
- *`SendsBounded`* has six for a search because each of the two phases, and the repeated
  first one, may be sent twice; within one rotation cooldown only one of the
  repeats happens.
- *`SignedIsSent`* says exactly when signed and sent url differ. A value is written as
  it is when its name is not on the encoding list, or when it looks encoded (it has a
  `+` or an escape). With such a value that holds a `#` they always differ, whatever the
  filter: the rest of the url is a fragment. Without a filter they also
  differ for one that holds a blank, a tab or line end, or what a url must escape,
  such as a search for `c++ 小说`; a filter normalises these.
- *`QueryArrives`* says what the upstream reads: every parameter that is not dropped,
  decoded once if it was written as it is, and none that is. The exceptions are a
  value written as it is that holds a bare `&` or `#`, or a tab or line end, and
  all parameters behind such a `#`: of a search for `C#+` it reads `C`, and neither count
  nor tab.
- *`DevicesRest`* measures the time since a device was left, not since the last
  rotation: it takes as many rotations as the pool has devices to bring it back, each
  of which must find the one before a cooldown ago. A rotation that leaves no stamp
  breaks it just as a short cooldown does.
- *`BuildsSpaced`* is about three emulators because two may be complete in the same
  instant: the stamp is read before the build, so after a build that takes a whole
  cooldown the next restart is allowed at once. *`RefusedWhileYoung`* is what the
  stamp's place does promise: a restart that failed, and the first start, never lead to
  a refusal. That failing builds are therefore not paced at all is in the model too.
- *`AnswersOwnRequest`* excludes searches with a `|` in the key, for which it fails:
  `a|1` on page 2 and `a` on page 1, with tab 20 and the id `3|`, have one cache key.
- *`LoadsWhatItEmbeds`* fails without its two exclusions: processes that overlap
  write one file at once, and a process reads files that another is writing. A
  file of another version with the same length is kept, hence "of one piece"
  rather than "its own".
- *`GlobalsOfRunning`* fails when a rebuild fails after its emulator was created: the
  former emulator signs on with the address of the failed one's globals.
- *`BootsWithPool`* excludes pools whose names an override has made alike, where the
  index the pool rotates from is the first's.

The finding, `upstream_call_json_errors`: the README (line 59) says that
consecutive errors heal. `execute_signed_json_get` records a success for every
JSON body before the code in it is looked at (`upstream.rs:585`), so errors
that arrive as JSON never add up. `upstream_call_transport` shows that other
errors do.

A second disagreement needs no run of its own. The README (line 155) says that the query
filter changes the final url before it is signed, so that signature and request agree.
`apply_upstream_query_filter` keeps the fragment of the url it has parsed
(`upstream.rs:808-834`), and `encode_if_needed` makes one of a key such as `C#+`
(`fq.rs:50-62`): the signer signs it, the http client does not send it. `SignedIsSent` is
an equivalence, so that `search_flow`, whose queries hold such a key, and the theorem
`SignsWhatItSends` both say that the two urls differ there.

### Bounds, and why they are enough

`MaxTime` exceeds two cooldowns (or windows, or ttls; in `startup_probe` four, one for each device of the pool) in each run that has an interval
property, so that something can happen, expire, and happen again. Two tasks
are enough to put a step of another between any two steps of one; the runs
where a third matters have it (a holder, a waiter and a late-comer for one
lock; a queue of two behind the command being served). A pool of two is the
hardest for `RetryOnOtherDevice`, since two rotations lead back. A limit of one
entry with three or more keys overflows at every insert. `MaxStreak`,
`MaxEmulators` and `MaxBuilds` cap counters that the code does not cap, `MaxLag` and `MaxHold` cap
waits that the code does not bound; the last two are assumptions of the
properties that name them, the others only bound a run, and the proofs do not need them
(`EmulatorsPaced` and `HealOnEvidence` are proved for every value).

In `chapter_pipeline` one task is followed and all others are the `Others*` actions,
which may happen at any time and any number of times: a second followed task
would add no step to the shared state that they do not have. Buckets of two over
three chapters have a full and a cut bucket; the second directory misses the
chapter asked for. `MaxGen` 2 renews one device's key once, so that a key can be
stale, and two devices let it also be foreign. In `search_flow` the clock
reaches 7 with a cooldown of 2, which leaves room for the three rotations that six
requests take; `MaxCached` 1 keeps one answer at a time, which is enough for a
second search to meet it. The queries hold every class of characters that
`UpstreamRequest` tells apart, with a `#` once in the key and once in the id, and one
of the devices has a blank in a parameter that is never encoded. The drop list names two
of the parameters, one of them in another spelling. In `service_start` a length of two chunks can be cut short by a crash, and one
chunk cannot; two builds are one that succeeds and one that fails.

Types are invariants of a run where they say more than types (who stands in which line,
what is at hand at which place). All types are theorems; `AutoHeal`, `RegisterKey`,
`ChapterStore`, `StartupProbe`, `UpstreamCall` and `ChapterPipeline` have them as theorems
only.

`CHECK_DEADLOCK FALSE` stands where the bounded clock stops a run that has
nothing else left to do, and in `ServiceStart`, whose processes are bounded by
`MaxBuilds`. `PrefetchDedup` and `ChapterStore` are checked for deadlock.

### Fairness

`PrefetchDedup`: weak fairness of each task's own steps (`Proceed`). The tokio
runtime polls every task that is ready, and the http client's timeouts end a
holder's work. Entering, dropping a request and expiry are not fair: clients
need not do anything. `SignerThread`: weak fairness of the thread's step
(`Serve`): it is an OS thread, and signing comes to an end (external; should the
emulator loop, callers would hang, since the code has no timeout there).
`Panic` is not fair. The other modules state safety only and have no fairness.

## 4. What is proved

Each `*Proofs` module extends the component's and proves its theorems for every
value of the constants that the component's named assumption admits.

| theorem | from | argument |
|---|---|---|
| `AutoHealProofs`: `TypeCorrect`, `HealsOnEvidence`, `CountsRecentFailures`, `ImplementsGate` | `AutoHealAssumption` | `IInv`: the queue is sorted up to `MaxLag`; it is no longer than the streak; the stored heal stamp trails the heal by at most `MaxLag`. Sortedness up to the lag is what bounds the age of what hides behind a fresh front. |
| `DevicePoolProofs` (lemmas) | `DevicePoolAssumption` | what the least and greatest of a set of numbers are; what rotation and activation do to types and index, for every module over the pool. |
| `PoolUsersProofs`: `TypeCorrect`, `IndexFollows`, `Restores`, `AsksAll`, `LeftDevicesRest` (startup probe) | `DevicePoolAssumption`, `StartupProbeAssumption` | `WInv`: the pool does not rotate before the probe is over; where the probe asks, the device in use is the attempt's candidate if its name leads to it; the candidates of the attempts made have been asked with. `Rested`, for `DevicesRest`: a place left `k` rotations ago was left at least `k - 1` cooldowns before the last rotation, where `k` is the distance of the index from it round the pool. |
| `PoolUsersProofs`: `SearchIsTyped`, `KeepsTheId`, `AnswersItsOwn` (search flow) | and `RequestAssumption`, `SearchAssumption` | `SearchInv`: which id goes with which phase (`Straight`); what is cached is filed under its own search's key and keeps its id (`Filed`). That two searches without a bar never share a key is a lemma on joined sequences: the first bar ends the key, and the parts after it have fixed places. |
| `PoolUsersProofs`: `SendsFew` | | `Quota`, what phases and retries allow however long they take, and `Paced`, what they allow within a cooldown: a second rotation of one search finds the cooldown over, so the search is older than it. |
| `PoolUsersProofs`: `SignsWhatItSends`, `ParametersArrive`, `HeadersSay` | | lemmas per character, per text and per url, for any set of characters: what is encoded goes over the wire unchanged and is read back (`SentAsItIs`, `EncodedIsRead`), what is written as it is is read decoded once (`RawIsRead`); what a filter writes the url parser leaves alone, but for the fragment (`SettledUrl`, `FilteredIsSent`, `FilteredIsRead`), which comes from what was written as it is (`EndsAreRaw`). |
| `ChapterPipelineProofs`: `PipelineTypeCorrect` | `DevicePoolAssumption`, `DirectoryAssumption`, `PipelineAssumption` | `Typed`: the shared types, and for each task what its place needs (`Equipped`), what its call will need (`Prepared`) and how many reports its calls allow (`Counted`). Every action keeps one task's locals steady and leaves the others'. |
| `ChapterPipelineProofs`: `FewReports` | | `Counted`: a report moves a request on to a call that can only report once more. |
| `ChapterPipelineProofs`: `OnlyText` | | `TextInv`: without `crossed`, a task in a batch is on the active device, and a key in use that carries a version is the one asked for. |
| `ChapterPipelineProofs`: `FreshRetryKey` | | `RetryInv`: every cached key of the device whose key failed has been inserted since. |
| `ChapterPipelineProofs`: `OneKeyOneBatch`, `AsksForChapter`, with `ChapterInSlice`, `BatchHolds` | | `BatchInv`: what a prefetch has to do is the batch of its directory; the rest is arithmetic on buckets (`KeyDeterminesBatch`, `BatchSizeBounds`, `InBucket`) and on the ranks by which `Kept` filters. |
| `ChapterPipelineProofs`: `NeighboursInOrder` | | `FormInv`: whoever wants no book info has a directory in its minimal form, whose ids are not blank and whose count is at least their number. |
| `UpstreamCallProofs`: `RotationsDoNotUndoEachOther`, `RetriesElsewhere` | `UpstreamCallAssumption`, and `Configured`: distinct profiles, the boot profile in the pool at the index it resolves to, calls shorter than the rotation cooldown | `HInv`: if the pool is no longer on the device that a call holds, it has rotated since the call took it, hence is still cooling down. |
| `UpstreamCallProofs`: `CallsTypeCorrect`, `HealsNeedFailures` | `UpstreamCallAssumption` | `WInv`: the queue never holds more failures than calls have failed in a row (`WindowInRun`), and trimming only shortens it. |
| `UpstreamCallProofs`: `FailuresHeal` | and `NoJsonErrors`, the condition that the finding of section 3 is about | `RunInv`: as long as the window lasts, the queue holds exactly the calls that failed in a row, and fewer than the threshold. |
| `RegisterKeyProofs`: `TypeCorrect`, `ResolvesWhatWasAsked` | `RegisterKeyAssumption` | `TInv`, the types and the tie of `key` to `asked`. |
| `RegisterKeyProofs`: `Purges` | | `PInv`: every live key of the fingerprint in a shard already visited is collected or was inserted since. |
| `RegisterKeyProofs`: `OvershootHolds`, `LimitHolds` | | `CInv`: for every number `j`, a cache that exceeds its limit by more than `j` has more than `j` *witnesses*, tasks whose count has missed at most `j` live keys of the shards behind them, or whose picks suffice but for `j`. The statement for one `j` is not inductive: an insert makes its own task a witness, and turns each witness for `j` into one for `j + 1`. |
| `ChapterCacheProofs`: `TypeCorrect`, `ServesNothingOlder` (caches) | `ChapterStoreAssumption` | `SInv`: a row is stamped within a hold of its chapter, read within a ttl of its stamp, and inserted within a hold of that. |
| `ChapterCacheProofs`: `LinesAreRight`, `FetchesOnce` (deduplication) | `PrefetchDedupAssumption` | `DedupInv`: in the line of a lock stand, once each, those who wait for it or hold it; and without a race all who are not on their way out have the lock in the map, and one who removes it is alone (`OneLock`). |
| `SignerProofs`: `BuildsArePaced`, `RebuildsSpaced`, `RefusesYoung` (thread) | `SignerThreadAssumption` | `EInv`: a restart under way was checked against the last one; before the first at most one emulator exists. The step multiplies, so the arithmetic is a lemma of its own. `Stamped`: the last restart's stamp lies between the completion of the last emulator but one and that of the last. |
| `SignerProofs`: `WaitsForItsCommand` | | `SInv`: who waits has one command, in the channel or being served; the channel holds one per caller, so what is received is gone from it. |
| `SignerProofs`: `GlobalsAreItsOwn` (emulators) | `StartAssumption` | `PlacesInv`: an emulator under way has stored its address once the certificate is read, and one that may sign has its own stored unless a build has failed since (`Placed`). |
| `SignerProofs`: `LoadsAreWhole` | | `WholeInv`: while no two write one file at once, every file is of one piece, as long as its writer has come (`OnePiece`); while nobody else writes, the files a process has gone through have their length, and what it has read of them is right (`Gone`). That every file is loaded is `OrderOfLoading`. |
| `SignerProofs`: `BootsAsConfigured` (configuration) | and `ConfigAssumption` | no induction: the deployment never changes. An override keeps every name or makes them all alike (`OverriddenName`), so the startup name leads to the same position before and after; `BootIndexIsBootstrap` follows `ResolveActiveIndex` to it. |

Each invariant is stronger than its property because the property says nothing of
the steps under way. It is stated as a conjunction of named parts.

What the assumptions say of the constants is what the code's types say
(`PipelineAssumption`, `SearchAssumption`, `ConfigAssumption`: trimmed
texts, records with these fields, numbers in their range), that files have different
names and are not empty (`StartAssumption`), or that a set is finite. TLC evaluates all of them on the
runs. `Configured` and `NoJsonErrors` are no such assumptions but conditions of
the theorems that name them: the code does not enforce them, and section 3 says what
happens without them.

Only model-checked: the two liveness properties, `EveryoneLeaves` and
`EveryCallReturns`, which this prover does not reach, since they rest on fairness.
That `Kept` is `SelectSeq`, which takes an operator as a parameter, is evaluated on sequences of up
to five items. Every other property of the runs that pass is a theorem.

## 5. What is not modelled

Section 1 names the parts without a module and why. Within the modules:

- The clock never steps back. `now_ms` is the wall clock; were it set back,
  no interval property would hold of the code either.
- A poisoned mutex: no code under the two mutexes panics.
- Bytes: AES, compression and html are steps with their outcomes; chapter text is
  `text` or `garbage`; keys and signatures are names.
- `ChapterPipeline` decides neither whether a failure heals (`UpstreamCall`), nor what the
  table answers (`ChapterStore`), and does not take the lock of a bucket (`PrefetchDedup`):
  it has every behaviour that these allow, and more.
- Header values: only names and the installation id are followed. What follows a bare
  `&` in a value is lost to it; that it may be read as a parameter of its own is not
  followed. The fixed parameters of a request
  are left out; directory and batch requests, which have only such parameters and
  numeric ids, are not followed over the wire.
- Which device a search id belongs to: the upstream's treatment of a foreign id is
  unknown (`upstream.rs:75`).
- Blocks that the operating system loses after a write, file permissions, and the
  environment variables that point the signer to other directories.
- The JNI callbacks, hooks and patches of the signer worker: they answer the emulated
  library and share nothing but the address in `ServiceStart`.
- In `PrefetchDedup` a bucket that fails to arrive and one that arrives without the
  chapter are the same: nothing is stored.

## 6. Plan

Done: the inventory, the modules of section 2, their runs, and the proofs of section 4.

Every safety property and every refinement that the runs check is proved; what is left is
to widen the model, and then to prove about the new parts:

1. The refinements behind the refinements: `PrefetchDedup` as an implementation of a
   lock that forgets its holder when a race occurs, `ChapterStore` of a cache of
   bounded age, as `AutoHeal` is of `CooldownGate`.
2. `NoJsonErrors` per device: which mixes of answers still heal.
3. The hazards of `PROJECT.json` that no property covers, each with its reason there.
