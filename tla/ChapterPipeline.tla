--------------------------- MODULE ChapterPipeline ---------------------------
(***************************************************************************)
(* What get_chapter, get_toc and get_book_info do (crates/api/src/         *)
(* upstream.rs): directory, prefetch of the chapter's bucket, batch of the *)
(* one chapter, register key, decryption and its retry.  They meet in the  *)
(* device pool: a batch is sent with one device, and the key that opens    *)
(* what comes back is looked up for the device active by then.             *)
(*                                                                         *)
(* Tasks are requests followed step by step.  Any number of others, and    *)
(* the searches, are present by what they do to the shared state (Others). *)
(*                                                                         *)
(* Modelled elsewhere, and here in one step with all its outcomes: whether *)
(* a failure heals (UpstreamCall), the map accesses of the register key    *)
(* service (RegisterKey), the table behind the chapter cache               *)
(* (ChapterStore).  The lock of a bucket (PrefetchDedup) is not taken: two *)
(* requests may prefetch one bucket at once, as through that lock's gap.   *)
(***************************************************************************)
EXTENDS DevicePool, Directory

CONSTANTS
  Tasks,
  Chapters,         \* those that tasks are asked for and the caches followed
  Toc, Book,        \* what else they are asked for
  Directories,      \* what the upstream may give as the book's directory
  PrefetchEnabled,  \* fq.prefetch.enabled
  ChapterSize,      \* fq.prefetch.chapter_size
  Renewed,          \* bound: the devices whose register key ever changes,
  MaxGen,           \* and the number of keys that one has
  NoDirectory, NoKey

BatchSize == BatchSizeOf(ChapterSize)

Devices == Pool \cup BootProfiles

Forms == {"min", "full"}

\* The directories as they are cached.
Given == Directories \cup {Minimal(d) : d \in Directories}

\* Register keys: the device and the generation of its key.
Keys == Devices \X (1 .. MaxGen)

\* A chapter is asked for by a number, without blanks (validate_numeric_id).
ASSUME PipelineAssumption ==
  /\ BootProfiles # {} /\ MaxGen \in Nat \ {0} /\ ChapterSize \in Nat
  /\ \A c \in Chapters : c \in Ids /\ Trim[c] = c /\ c # Blank
  /\ Toc \notin Chapters /\ Book \notin Chapters
  /\ Directories \subseteq DirectoryResponse
  /\ NoDirectory \notin Given /\ NoKey \notin Devices \X (0 .. MaxGen)

VARIABLES
  chapter_cache,     \* what is cached of a chapter: nothing, its text, garbage
  directory_cache,   \* by form, "directory:min" and "directory:full"
  book_cache,        \* the cached book's number of chapters, an Option
  generation,        \* external: of the key that the upstream holds for a device
  versioned,         \* external: whether chapters carry their key's version
  cache_by_key,      \* the register keys cached
  current,           \* current_by_fingerprint: a generation, or 0
  task,              \* the requests' locals
  crossed            \* auxiliary: the pool moved while a batch was under way

cacheVars == <<chapter_cache, directory_cache, book_cache>>
keyVars == <<cache_by_key, current>>
externalVars == <<generation, versioned>>
poolVars == <<clock, devicePoolVars>>
vars == <<poolVars, cacheVars, keyVars, externalVars, task, crossed>>

Idle == [pc |-> "idle", want |-> Toc, call |-> "none", resent |-> FALSE,
         device |-> CHOOSE d \in Devices : TRUE, gen |-> 0,
         dir |-> NoDirectory, todo |-> <<>>, key |-> NoKey, failed |-> NoKey,
         since |-> {}, reports |-> 0]

\* The key_version of a chapter sealed with a key of that generation: none
\* (0), or the key's, which the upstream numbers by generation.
KeyVersion(gen) == IF versioned THEN gen ELSE 0

Init ==
  /\ ClockInit /\ DevicePoolInit
  /\ chapter_cache = [c \in Chapters |-> "none"]
  /\ directory_cache = [f \in Forms |-> NoDirectory]
  /\ book_cache = {}
  /\ generation = [d \in Devices |-> 1]
  /\ versioned \in BOOLEAN
  /\ cache_by_key = {}
  /\ current = [d \in Devices |-> 0]
  /\ task = [t \in Tasks |-> Idle]
  /\ crossed = FALSE

-----------------------------------------------------------------------------
At(t, place) == task[t].pc = place

Become(t, locals) == task' = [task EXCEPT ![t] = locals]

Goto(t, place) == Become(t, [task[t] EXCEPT !.pc = place])

\* The request is over, answered or not.
Return(t) == Become(t, Idle)

\* An upstream call begins.
Calling(locals, call, ids) ==
  [locals EXCEPT !.call = call, !.resent = FALSE, !.todo = ids, !.pc = "send"]

Form(t) == IF task[t].want = Book THEN "full" ELSE "min"

Cached(c) == chapter_cache[c] # "none"

InBatch(t) ==
  /\ task[t].call \in {"prefetch", "single"}
  /\ task[t].pc \in {"await", "items", "fetchKey", "insertKey", "decrypt"}

\* The pool rotates for some task or for none of those modelled.
RotateBeside(others) ==
  /\ Rotate
  /\ crossed' = (crossed \/ \E u \in others : InBatch(u))

-----------------------------------------------------------------------------
(* A request begins.  A cache that answers it changes nothing, one whose    *)
(* entry has expired drops it.                                              *)

RequestChapter(t, c) ==
  /\ At(t, "idle")
  /\ chapter_cache' = [chapter_cache EXCEPT ![c] = "none"]
  /\ Become(t, [Idle EXCEPT !.pc = "start", !.want = c])
  /\ UNCHANGED <<poolVars, directory_cache, book_cache, keyVars, externalVars,
                 crossed>>

\* get_toc asks for the directory alone; get_book_info has a cache before it.
RequestToc(t) ==
  /\ At(t, "idle")
  /\ Become(t, [Idle EXCEPT !.pc = "start", !.want = Toc])
  /\ UNCHANGED <<poolVars, cacheVars, keyVars, externalVars, crossed>>

RequestBook(t) ==
  /\ At(t, "idle")
  /\ book_cache' = {}
  /\ Become(t, [Idle EXCEPT !.pc = "start", !.want = Book])
  /\ UNCHANGED <<poolVars, chapter_cache, directory_cache, keyVars,
                 externalVars, crossed>>

DirectoryCached(t) ==
  /\ At(t, "start")
  /\ directory_cache[Form(t)] # NoDirectory
  /\ Become(t, [task[t] EXCEPT !.pc = "plan", !.dir = directory_cache[Form(t)]])
  /\ UNCHANGED <<poolVars, cacheVars, keyVars, externalVars, crossed>>

\* There is none, or it has expired.
DirectoryMissing(t) ==
  /\ At(t, "start")
  /\ directory_cache' = [directory_cache EXCEPT ![Form(t)] = NoDirectory]
  /\ Become(t, Calling(task[t], "directory", <<>>))
  /\ UNCHANGED <<poolVars, chapter_cache, book_cache, keyVars, externalVars,
                 crossed>>

-----------------------------------------------------------------------------
(* An upstream call: fetch_directory, fetch_batch_full. *)

Send(t) ==
  /\ At(t, "send")
  /\ Become(t, [task[t] EXCEPT !.pc = "await", !.device = active_profile])
  /\ UNCHANGED <<poolVars, cacheVars, keyVars, externalVars, crossed>>

DirectoryArrives(t, d) ==
  /\ At(t, "await") /\ task[t].call = "directory"
  /\ LET given == IF Form(t) = "min" THEN Minimal(d) ELSE d
     IN  /\ directory_cache' = [directory_cache EXCEPT ![Form(t)] = given]
         /\ Become(t, [task[t] EXCEPT !.pc = "plan", !.dir = given])
  /\ UNCHANGED <<poolVars, chapter_cache, book_cache, keyVars, externalVars,
                 crossed>>

\* The chapters come sealed with the key of the device that asked for them.
BatchArrives(t) ==
  /\ At(t, "await") /\ task[t].call # "directory"
  /\ Become(t, [task[t] EXCEPT !.pc = "items",
                               !.gen = generation[task[t].device]])
  /\ UNCHANGED <<poolVars, cacheVars, keyVars, externalVars, crossed>>

\* The first request failed with code 110 or ILLEGAL_ACCESS.
RotateAndResend(t) ==
  /\ At(t, "await") /\ ~task[t].resent
  /\ RotateBeside(Tasks \ {t})
  /\ Become(t, [task[t] EXCEPT !.pc = "send", !.resent = TRUE])
  /\ UNCHANGED <<clock, cacheVars, keyVars, externalVars>>

\* Slip: a failed directory does not keep the prefetch from being tried.
AfterFailurePrefetching(t, locals) ==
  IF task[t].call = "single" \/ task[t].want \in {Toc, Book} THEN Idle
  ELSE IF task[t].call = "directory"
    THEN Calling(locals, "prefetch", <<task[t].want>>)
  ELSE [locals EXCEPT !.pc = "recheck"]

\* Where a call that failed for good leads: a chapter is asked for without
\* the directory (fetch_directory(..).ok()) and without the prefetch.
AfterFailure(t, locals) ==
  IF task[t].call = "single" \/ task[t].want \in {Toc, Book} THEN Idle
  ELSE [locals EXCEPT !.pc = IF task[t].call = "directory" THEN "plan"
                             ELSE "recheck"]

\* The failure is reported, and healed if the manager says so.
Fail(t, heal) ==
  LET reported == [task[t] EXCEPT !.reports = @ + 1]
  IN  /\ At(t, "await")
      /\ Become(t, IF heal THEN [reported EXCEPT !.pc = "heal"]
                   ELSE AfterFailure(t, reported))
      /\ UNCHANGED <<poolVars, cacheVars, keyVars, externalVars, crossed>>

\* Slip: the pointer goes, the keys stay.
InvalidatePointer(d) ==
  /\ current' = [current EXCEPT ![d] = 0]
  /\ UNCHANGED cache_by_key

\* RegisterKeyService::invalidate
Invalidate(d) ==
  /\ current' = [current EXCEPT ![d] = 0]
  /\ cache_by_key' = {k \in cache_by_key : k[1] # d}

HealInvalidate(t) ==
  /\ At(t, "heal")
  /\ Invalidate(active_profile)
  /\ Goto(t, "healRotate")
  /\ UNCHANGED <<poolVars, cacheVars, externalVars, crossed>>

HealRotate(t) ==
  /\ At(t, "healRotate")
  /\ IF RotationAllowed THEN RotateBeside(Tasks \ {t})
     ELSE UNCHANGED <<devicePoolVars, crossed>>
  /\ Become(t, AfterFailure(t, task[t]))
  /\ UNCHANGED <<clock, cacheVars, keyVars, externalVars>>

-----------------------------------------------------------------------------
(* What follows the calls. *)

\* get_toc
TocReady(t) ==
  /\ At(t, "plan") /\ task[t].want = Toc
  /\ Return(t)
  /\ UNCHANGED <<poolVars, cacheVars, keyVars, externalVars, crossed>>

\* get_book_info
BookReady(t) ==
  /\ At(t, "plan") /\ task[t].want = Book
  /\ HasBookInfo(task[t].dir)
  /\ book_cache' = {TotalChapters(task[t].dir)}
  /\ Return(t)
  /\ UNCHANGED <<poolVars, chapter_cache, directory_cache, keyVars,
                 externalVars, crossed>>

BookUnknown(t) ==
  /\ At(t, "plan") /\ task[t].want = Book
  /\ ~HasBookInfo(task[t].dir)
  /\ Return(t)
  /\ UNCHANGED <<poolVars, cacheVars, keyVars, externalVars, crossed>>

\* prefetch_and_cache_dedup asks for the bucket, unless there is nothing to
\* ask for or another task has cached the chapter meanwhile.
Batch(t) ==
  IF task[t].dir = NoDirectory THEN <<>>
  ELSE BatchIds(task[t].dir.items, task[t].want, BatchSize)

PrefetchNeeded(t) ==
  PrefetchEnabled /\ Batch(t) # <<>> /\ ~Cached(task[t].want)

StartPrefetch(t) ==
  /\ At(t, "plan") /\ task[t].want \in Chapters
  /\ PrefetchNeeded(t)
  /\ Become(t, Calling(task[t], "prefetch", Batch(t)))
  /\ UNCHANGED <<poolVars, cacheVars, keyVars, externalVars, crossed>>

SkipPrefetch(t) ==
  /\ At(t, "plan") /\ task[t].want \in Chapters
  /\ ~PrefetchNeeded(t)
  /\ Goto(t, "recheck")
  /\ UNCHANGED <<poolVars, cacheVars, keyVars, externalVars, crossed>>

\* The prefetch, one's own or another's, has cached the chapter.
Prefetched(t) ==
  /\ At(t, "recheck")
  /\ PrefetchEnabled /\ Cached(task[t].want)
  /\ Return(t)
  /\ UNCHANGED <<poolVars, cacheVars, keyVars, externalVars, crossed>>

StartSingle(t) ==
  /\ At(t, "recheck")
  /\ ~(PrefetchEnabled /\ Cached(task[t].want))
  /\ Become(t, Calling(task[t], "single", <<task[t].want>>))
  /\ UNCHANGED <<poolVars, cacheVars, keyVars, externalVars, crossed>>

-----------------------------------------------------------------------------
(* build_chapter_from_item_content, for the first of the chapters to do. *)

Item(t) == Head(task[t].todo)

\* The chapter is cached or given up: a prefetch goes on to the next one, a
\* single request is over.
AfterItem(t) ==
  IF task[t].call = "single" THEN Return(t)
  ELSE Become(t, [task[t] EXCEPT
         !.pc = IF Len(task[t].todo) = 1 THEN "recheck" ELSE "items",
         !.todo = Tail(@), !.key = NoKey, !.failed = NoKey, !.since = {}])

\* It is not in the answer, or has no content.
ItemMissing(t) ==
  /\ At(t, "items") /\ task[t].failed = NoKey
  /\ AfterItem(t)
  /\ UNCHANGED <<poolVars, cacheVars, keyVars, externalVars, crossed>>

\* resolve_register_key, for the device active now.
WantedVersion(t) ==
  IF KeyVersion(task[t].gen) # 0 THEN KeyVersion(task[t].gen)
  ELSE current[active_profile]

Entry(t) == <<active_profile, WantedVersion(t)>>

KeyCached(t) ==
  /\ At(t, "items")
  /\ Entry(t) \in cache_by_key
  /\ Become(t, [task[t] EXCEPT !.pc = "decrypt", !.key = Entry(t)])
  /\ UNCHANGED <<poolVars, cacheVars, keyVars, externalVars, crossed>>

\* There is none, or it has expired and is removed; without a version to ask
\* for the pointer goes too.
KeyMissing(t) ==
  /\ At(t, "items")
  /\ cache_by_key' = cache_by_key \ {Entry(t)}
  /\ current' = IF KeyVersion(task[t].gen) # 0 THEN current
                ELSE [current EXCEPT ![active_profile] = 0]
  /\ Become(t, [task[t] EXCEPT !.pc = "fetchKey", !.key = <<active_profile, 0>>])
  /\ UNCHANGED <<poolVars, cacheVars, externalVars, crossed>>

\* Slip: the version that came is not compared.
FetchKeyUnchecked(t) ==
  LET d == task[t].key[1]
  IN  /\ At(t, "fetchKey")
      /\ Become(t, [task[t] EXCEPT !.pc = "insertKey",
                                   !.key = <<d, generation[d]>>])
      /\ UNCHANGED <<poolVars, cacheVars, keyVars, externalVars, crossed>>

\* fetch_register_key; a version other than the chapter's is an error.
FetchKey(t) ==
  LET d == task[t].key[1]
  IN  /\ At(t, "fetchKey")
      /\ KeyVersion(task[t].gen) \in {0, generation[d]}
      /\ Become(t, [task[t] EXCEPT !.pc = "insertKey",
                                   !.key = <<d, generation[d]>>])
      /\ UNCHANGED <<poolVars, cacheVars, keyVars, externalVars, crossed>>

\* The fetch fails, or brings another version.
KeyUnavailable(t) ==
  /\ At(t, "fetchKey")
  /\ AfterItem(t)
  /\ UNCHANGED <<poolVars, cacheVars, keyVars, externalVars, crossed>>

PutKey(k) ==
  /\ cache_by_key' = cache_by_key \cup {k}
  /\ current' = [current EXCEPT ![k[1]] = k[2]]

\* Tasks that have dropped a device's keys take note of the key.
Inserted(k) ==
  [t \in Tasks |->
     IF task[t].failed # NoKey /\ task[t].failed[1] = k[1]
       THEN [task[t] EXCEPT !.since = @ \cup {k}]
     ELSE task[t]]

InsertKey(t) ==
  /\ At(t, "insertKey")
  /\ PutKey(task[t].key)
  /\ task' = [Inserted(task[t].key) EXCEPT ![t].pc = "decrypt"]
  /\ UNCHANGED <<poolVars, cacheVars, externalVars, crossed>>

\* decrypt_chapter_with_retry, extract_text, cache_chapter.
Fits(t) == task[t].key = <<task[t].device, task[t].gen>>

StoreChapter(t, what) ==
  /\ chapter_cache' =
       [c \in Chapters |-> IF c = Item(t) THEN what ELSE chapter_cache[c]]
  /\ AfterItem(t)
  /\ UNCHANGED <<poolVars, directory_cache, book_cache, keyVars, externalVars,
                 crossed>>

Decrypt(t) == At(t, "decrypt") /\ Fits(t) /\ StoreChapter(t, "text")

\* A wrong key leaves a valid padding once in 256 times; what comes out is
\* no gzip and is taken for text.
Garble(t) == At(t, "decrypt") /\ ~Fits(t) /\ StoreChapter(t, "garbage")

\* The text is empty.
EmptyText(t) ==
  /\ At(t, "decrypt")
  /\ AfterItem(t)
  /\ UNCHANGED <<poolVars, cacheVars, keyVars, externalVars, crossed>>

\* Wrong key or damaged content: the keys of the first key's device go, and
\* the key is resolved anew, for the device active by then.
DecryptFails(t) ==
  /\ At(t, "decrypt") /\ task[t].failed = NoKey
  /\ Invalidate(task[t].key[1])
  /\ Become(t, [task[t] EXCEPT !.pc = "items", !.failed = task[t].key])
  /\ UNCHANGED <<poolVars, cacheVars, externalVars, crossed>>

DecryptFailsAgain(t) ==
  /\ At(t, "decrypt") /\ task[t].failed # NoKey
  /\ AfterItem(t)
  /\ UNCHANGED <<poolVars, cacheVars, keyVars, externalVars, crossed>>

-----------------------------------------------------------------------------
(* What goes on beside the requests. *)

\* The upstream renews a device's register key.
Rekey(d) ==
  /\ d \in Renewed /\ generation[d] < MaxGen
  /\ generation' = [generation EXCEPT ![d] = @ + 1]
  /\ UNCHANGED <<poolVars, cacheVars, keyVars, versioned, task, crossed>>

\* Searches, and requests beside those of Tasks: any number of them, each of
\* which may rotate the pool, cache a chapter, and drop a device's keys or
\* insert one, be it fetched before the upstream renewed it.
OthersRotate ==
  /\ RotateBeside(Tasks)
  /\ UNCHANGED <<clock, cacheVars, keyVars, externalVars, task>>

OthersCache(c) ==
  /\ chapter_cache' = [chapter_cache EXCEPT ![c] = "text"]
  /\ UNCHANGED <<poolVars, directory_cache, book_cache, keyVars, externalVars,
                 task, crossed>>

OthersInvalidate(d) ==
  /\ Invalidate(d)
  /\ UNCHANGED <<poolVars, cacheVars, externalVars, task, crossed>>

OthersInsertKey(d, gen) ==
  /\ gen <= generation[d]
  /\ PutKey(<<d, gen>>)
  /\ task' = Inserted(<<d, gen>>)
  /\ UNCHANGED <<poolVars, cacheVars, externalVars, crossed>>

Tick == Advance /\ UNCHANGED <<devicePoolVars, cacheVars, keyVars,
                               externalVars, task, crossed>>

Proceed(t) ==
  \/ DirectoryCached(t) \/ DirectoryMissing(t)
  \/ Send(t) \/ BatchArrives(t) \/ RotateAndResend(t)
  \/ \E d \in Directories : DirectoryArrives(t, d)
  \/ \E heal \in BOOLEAN : Fail(t, heal)
  \/ HealInvalidate(t) \/ HealRotate(t)
  \/ TocReady(t) \/ BookReady(t) \/ BookUnknown(t)
  \/ StartPrefetch(t) \/ SkipPrefetch(t) \/ Prefetched(t) \/ StartSingle(t)
  \/ ItemMissing(t) \/ KeyCached(t) \/ KeyMissing(t)
  \/ FetchKey(t) \/ KeyUnavailable(t) \/ InsertKey(t)
  \/ Decrypt(t) \/ Garble(t) \/ EmptyText(t)
  \/ DecryptFails(t) \/ DecryptFailsAgain(t)

Request(t) ==
  \/ \E c \in Chapters : RequestChapter(t, c)
  \/ RequestToc(t) \/ RequestBook(t)

Next ==
  \/ \E t \in Tasks : Request(t) \/ Proceed(t)
  \/ OthersRotate \/ Tick
  \/ \E c \in Chapters : OthersCache(c)
  \/ \E d \in Devices :
       \/ Rekey(d) \/ OthersInvalidate(d)
       \/ \E gen \in 1 .. MaxGen : OthersInsertKey(d, gen)

Spec == Init /\ [][Next]_vars

-----------------------------------------------------------------------------
Calls == {"directory", "prefetch", "single"}

WithItems == {"items", "fetchKey", "insertKey", "decrypt"}

Places == {"idle", "start", "send", "await", "heal", "healRotate", "plan",
           "recheck"} \cup WithItems

Locals ==
  [pc : Places, want : Chapters \cup {Toc, Book}, call : Calls \cup {"none"},
   resent : BOOLEAN, device : Devices, gen : 0 .. MaxGen,
   dir : Given \cup {NoDirectory}, todo : Seq(Ids),
   key : (Devices \X (0 .. MaxGen)) \cup {NoKey}, failed : Keys \cup {NoKey},
   since : SUBSET Keys, reports : Nat]

\* What a task has at hand where it stands: chapters to do while it goes
\* through a batch, a key of some generation when it uses one.
Equipped(l) ==
  /\ l.pc \in WithItems =>
       l.todo # <<>> /\ l.call \in {"prefetch", "single"} /\ l.gen # 0
  /\ l.pc \in {"send", "await"} => l.call # "none"
  /\ l.pc \in {"insertKey", "decrypt"} => l.key \in Keys
  /\ l.pc = "fetchKey" => l.key # NoKey

(* Types, and what each task has at hand.                                   *)
PipelineTypeOK ==
  /\ TypeOK
  /\ chapter_cache \in [Chapters -> {"none", "text", "garbage"}]
  /\ directory_cache \in [Forms -> Given \cup {NoDirectory}]
  /\ book_cache \in SUBSET Int
  /\ generation \in [Devices -> 1 .. MaxGen]
  /\ versioned \in BOOLEAN
  /\ cache_by_key \in SUBSET Keys
  /\ current \in [Devices -> 0 .. MaxGen]
  /\ crossed \in BOOLEAN
  /\ task \in [Tasks -> Locals]
  /\ \A t \in Tasks : Equipped(task[t])

(* A chapter is decrypted with the key of the device that fetched it, and   *)
(* of the version it was sealed with, as long as the upstream numbers its   *)
(* keys and the pool did not move between the two (upstream.rs:479-494):    *)
(* garbage is cached only otherwise.                                        *)
TextIsTrue ==
  versioned /\ ~crossed =>
    \A c \in Chapters : chapter_cache[c] # "garbage"

(* The key of the second attempt was inserted after the first one's was     *)
(* dropped, or is another device's (upstream.rs:496-513).                   *)
RetryKeyIsNew ==
  \A t \in Tasks :
    LET my == task[t]
    IN  my.pc = "decrypt" /\ my.failed # NoKey /\ my.key[1] = my.failed[1]
          => my.key \in my.since

(* Of the three calls a chapter may take, one after another, at most two    *)
(* report a failure, and two only when the chapter is not answered: without *)
(* the directory nothing is prefetched (upstream.rs:138-166).               *)
ReportsBounded ==
  \A t \in Tasks :
    /\ task[t].reports <= 2
    /\ task[t].reports = 2 =>
         task[t].call = "single" /\ task[t].pc \in {"heal", "healRotate"}

Prefetching(t) == task[t].call = "prefetch" /\ task[t].pc = "send"

(* What a prefetch is about to ask for holds the wanted chapter and is no   *)
(* larger than a batch may be (upstream.rs:1139-1204).                      *)
BatchHoldsChapter ==
  \A t \in Tasks : Prefetching(t) =>
    /\ \E i \in DOMAIN task[t].todo : task[t].todo[i] = task[t].want
    /\ Len(task[t].todo) <= BatchSize

(* Whoever asks for a chapter under the same prefetch key would, from the   *)
(* same directory, ask for the same chapters, so that a task that waits for *)
(* another's prefetch finds its own chapter in it (upstream.rs:413-443,     *)
(* 1148-1204).                                                              *)
SameKeySameBatch ==
  \A t \in Tasks, c \in Ids :
    LET items == task[t].dir.items
    IN  /\ Prefetching(t)
        /\ PrefetchKey(items, c, BatchSize)
             = PrefetchKey(items, task[t].want, BatchSize)
        => BatchIds(items, c, BatchSize) = task[t].todo

Distinct(items) ==
  \A i, j \in DOMAIN items : i # j => items[i].id # items[j].id

(* A chapter that tells its number tells none beyond the number of chapters *)
(* that the directory tells, and the one it names as next names it as the   *)
(* one before, with the number that follows, although items without an id   *)
(* have gone from the directory and its count is the upstream's             *)
(* (upstream.rs:1104-1137, 1239-1269).                                      *)
ReadingOrder ==
  \A t \in Tasks : task[t].pc = "decrypt" /\ task[t].dir # NoDirectory =>
    LET items == task[t].dir.items
    IN  \A c \in {c \in Ids : InDirectory(items, c)} :
          LET here == Context(items, c)
          IN  /\ here.index <= Unwrap(task[t].dir.serial)
              /\ Distinct(items) => \A n \in here.next :
                   /\ Context(items, n).prev = {c}
                   /\ Context(items, n).index = here.index + 1
=============================================================================
