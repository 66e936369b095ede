----------------------------- MODULE SearchFlow -----------------------------
(***************************************************************************)
(* search_books (crates/api/src/upstream.rs) from the handler's validation *)
(* (main.rs) to the cached answer: the call that obtains a search id, the  *)
(* pause, the call that searches with it, the rotations in between, and of *)
(* each call the signed request that goes out.                             *)
(*                                                                         *)
(* Tasks are searches followed step by step.  What others do to the device *)
(* pool is OthersRotate; whether a failure heals is decided in             *)
(* UpstreamCall, and of the healing only the rotation is here.             *)
(***************************************************************************)
EXTENDS DevicePool, UpstreamRequest

CONSTANTS
  Tasks,
  Queries,        \* SearchQuery as it arrives
  Answers,        \* what the upstream may answer
  Signatures,     \* the sets of headers the signer may answer with
  DropQuery,      \* FQRS_UPSTREAM_DROP_QUERY_PARAMS,
  DropHeaders,    \* FQRS_UPSTREAM_DROP_HEADERS: the lists that may be set
  MaxCached       \* bound: answers cached when a search begins

SearchQuery ==
  [key : Text, page : Option(Numbers), size : Option(Numbers),
   tab : Option(Numbers), id : Option(Text)]

\* A blank id is none.
SearchId == Option(Text \ {<<>>})

\* An answer: tabs with their ids and numbers of books, the ids beside the
\* tabs, above them, and the first one deeper in the document.
SearchDocument ==
  [tabs : Seq([tab : Numbers, id : SearchId, books : Nat]),
   data_id : SearchId, id : SearchId, nested : SearchId, books : Nat]

ASSUME SearchAssumption ==
  /\ MaxCached \in Nat
  /\ Queries \subseteq SearchQuery /\ Answers \subseteq SearchDocument
  /\ \A device \in Pool \cup BootProfiles :
       /\ device.install_id \in Plain /\ device.type \in Text
       /\ device.brand \in Text
       /\ device.cookie \in Cookie

VARIABLES
  search_cache,   \* a function from keys to what is cached under them
  drop,           \* the two lists, read from the environment on every call
  task

poolVars == <<clock, devicePoolVars>>
searchVars == <<poolVars, search_cache, drop, task>>

-----------------------------------------------------------------------------
(* The request. *)

\* str::trim
Trimmed(text) ==
  LET solid == {i \in DOMAIN text : text[i] \notin {" ", "tab"}}
  IN  IF solid = {} THEN <<>> ELSE SubSeq(text, Min(solid), Max(solid))

\* validate_search_query: the search, if the query is not refused.
Validated(q) ==
  LET page == UnwrapOr(q.page, 1)
      size == UnwrapOr(q.size, 20)
      tab  == UnwrapOr(q.tab, 3)
  IN  IF /\ Len(Trimmed(q.key)) \in 1 .. 100
         /\ page # 0 /\ size \in 1 .. 50 /\ tab \in 1 .. 20
        THEN {[key |-> Trimmed(q.key), page |-> page, size |-> size,
               tab |-> tab, id |-> {Trimmed(id) : id \in q.id} \ {<<>>}]}
      ELSE {}

Searches == UNION {Validated(q) : q \in Queries}

\* Not every query is refused.
ASSUME SomeSearch == Searches # {}

\* Slip: the tab is left out of the key.
CacheKeyWithoutTab(r) ==
  r.key \o <<"|", Decimal[r.page], "|", Decimal[r.size], "|", "|">>
    \o UnwrapOr(r.id, <<>>)

\* The key under which an answer is cached.
CacheKey(r) ==
  r.key \o <<"|", Decimal[r.page], "|", Decimal[r.size], "|",
             Decimal[r.tab], "|">> \o UnwrapOr(r.id, <<>>)

Offset(r) == Min({(r.page - 1) * r.size, MaxUsize})

\* SearchUpstreamRequest of a phase: "first" and "again", without an id,
\* "second" and "known", with one.
UpstreamSearch(r, phase, id) ==
  [query |-> r.key, offset |-> Offset(r), count |-> r.size, tab |-> r.tab,
   id |-> id, first |-> phase # "second"]

-----------------------------------------------------------------------------
(* The answer. *)

Chosen(a, tab) ==
  LET same == {i \in DOMAIN a.tabs : a.tabs[i].tab = tab}
      full == {i \in DOMAIN a.tabs : a.tabs[i].books > 0}
  IN  IF same # {} THEN {Min(same)} ELSE IF full # {} THEN {Min(full)} ELSE {}

\* parse_search_response
Parsed(a, tab) ==
  IF Chosen(a, tab) # {}
    THEN LET t == a.tabs[Unwrap(Chosen(a, tab))]
         IN  [id |-> Or(t.id, Or(a.data_id, a.id)), books |-> t.books]
  ELSE [id |-> Or(a.data_id, Or(a.id, a.nested)), books |-> a.books]

Nothing == [id |-> {}, books |-> 0]

-----------------------------------------------------------------------------
Idle == [pc |-> "idle", of |-> CHOOSE r \in Searches : TRUE, phase |-> "first",
         resent |-> FALSE, device |-> CHOOSE d \in Pool \cup BootProfiles : TRUE,
         signature |-> {}, id |-> {}, response |-> Nothing,
         sends |-> 0, reports |-> 0, began |-> 1]

SearchInit ==
  /\ ClockInit /\ DevicePoolInit
  /\ search_cache = <<>>
  /\ drop \in [query : {DropNames(list) : list \in DropQuery},
               headers : {DropNames(list) : list \in DropHeaders}]
  /\ task = [t \in Tasks |-> Idle]

At(t, place) == task[t].pc = place

Become(t, locals) == task' = [task EXCEPT ![t] = locals]

Params(t) ==
  SearchParams(task[t].device,
               UpstreamSearch(task[t].of, task[t].phase, task[t].id))

\* What is signed, and sent; execute_signed_json_get.
Signed(t) == QueryFilter(BuildUrl(Params(t)), drop.query)

SentHeaders(t) ==
  HeaderFilter(MergeHeaders(SearchHeaders(task[t].device),
                            SignatureHeaders(task[t].signature)), drop.headers)

-----------------------------------------------------------------------------
(* search_books *)

\* A query that is refused, or answered from the cache, changes nothing.
Search(t, r) ==
  /\ At(t, "idle")
  /\ CacheKey(r) \notin DOMAIN search_cache
  /\ Cardinality(DOMAIN search_cache) < MaxCached
  /\ Become(t, [Idle EXCEPT !.pc = "prepare", !.of = r, !.id = r.id,
                            !.phase = IF r.id = {} THEN "first" ELSE "known",
                            !.began = clock])
  /\ UNCHANGED <<poolVars, search_cache, drop>>

\* execute_search_once: one device's profile makes url and headers.
Prepare(t) ==
  /\ At(t, "prepare")
  /\ Become(t, [task[t] EXCEPT !.pc = "sign", !.device = active_profile])
  /\ UNCHANGED <<poolVars, search_cache, drop>>

Sign(t, signature) ==
  /\ At(t, "sign")
  /\ Become(t, [task[t] EXCEPT !.pc = "await", !.signature = signature,
                               !.sends = @ + 1])
  /\ UNCHANGED <<poolVars, search_cache, drop>>

\* execute_search_once_with_rotation: code 110 or ILLEGAL_ACCESS.
RotateAndResend(t) ==
  /\ At(t, "await") /\ ~task[t].resent
  /\ Rotate
  /\ Become(t, [task[t] EXCEPT !.pc = "prepare", !.resent = TRUE])
  /\ UNCHANGED <<clock, search_cache, drop>>

\* Signing, sending or reading fails for good: it is reported, and the search
\* is over with the error.
Fail(t, heal) ==
  /\ task[t].pc \in {"sign", "await"}
  /\ Become(t, [task[t] EXCEPT !.reports = @ + 1,
                               !.pc = IF heal THEN "heal" ELSE "failed"])
  /\ UNCHANGED <<poolVars, search_cache, drop>>

HealRotate(t) ==
  /\ At(t, "heal")
  /\ IF RotationAllowed THEN Rotate ELSE UNCHANGED devicePoolVars
  /\ Become(t, [task[t] EXCEPT !.pc = "failed"])
  /\ UNCHANGED <<clock, search_cache, drop>>

GiveUp(t) ==
  /\ At(t, "failed")
  /\ Become(t, Idle)
  /\ UNCHANGED <<poolVars, search_cache, drop>>

\* Slip: a search that has found books goes on to the second call.
AfterAnswerWithBooks(t, response) ==
  IF task[t].phase \in {"known", "second"} THEN "finish"
  ELSE IF response # Nothing THEN "pause"
  ELSE IF task[t].phase = "first" THEN "empty" ELSE "finish"

AfterAnswer(t, response) ==
  IF task[t].phase \in {"known", "second"} THEN "finish"
  ELSE IF response.id # {} THEN "pause"
  ELSE IF response = Nothing /\ task[t].phase = "first" THEN "empty"
  ELSE "finish"

\* Slip: the answer to the second call is taken as it is.
ResultForgetful(t, response) == response

\* An answer to the second call that has no id gets the one it was asked with.
Result(t, response) ==
  IF task[t].phase = "second"
    THEN [response EXCEPT !.id = Or(@, task[t].id)] ELSE response

Answer(t, a) ==
  LET response == Parsed(a, task[t].of.tab)
  IN  /\ At(t, "await")
      /\ Become(t, [task[t] EXCEPT !.pc = AfterAnswer(t, response),
                                   !.response = Result(t, response)])
      /\ UNCHANGED <<poolVars, search_cache, drop>>

\* Neither id nor books: the search is made again with another device,
\* unless the pool may not rotate.
RotateOnEmpty(t) ==
  /\ At(t, "empty")
  /\ Rotate
  /\ Become(t, [task[t] EXCEPT !.pc = "prepare", !.phase = "again",
                               !.resent = FALSE])
  /\ UNCHANGED <<clock, search_cache, drop>>

StayEmpty(t) ==
  /\ At(t, "empty") /\ ~RotationAllowed
  /\ Become(t, [task[t] EXCEPT !.pc = "finish"])
  /\ UNCHANGED <<poolVars, search_cache, drop>>

\* The pause, bounded_delay, is over.
SecondPhase(t) ==
  /\ At(t, "pause")
  /\ Become(t, [task[t] EXCEPT !.pc = "prepare", !.phase = "second",
                               !.resent = FALSE, !.id = task[t].response.id])
  /\ UNCHANGED <<poolVars, search_cache, drop>>

\* The answer is cached, an empty one too.
Finish(t) ==
  LET key == CacheKey(task[t].of)
      entry == [of |-> task[t].of, asked |-> task[t].id,
                response |-> task[t].response]
  IN  /\ At(t, "finish")
      /\ search_cache' = [k \in DOMAIN search_cache \cup {key} |->
                            IF k = key THEN entry ELSE search_cache[k]]
      /\ Become(t, Idle)
      /\ UNCHANGED <<poolVars, drop>>

\* TtlCache::get and sweep_expired remove what has expired.
Expire(key) ==
  /\ search_cache' = [k \in DOMAIN search_cache \ {key} |-> search_cache[k]]
  /\ UNCHANGED <<poolVars, drop, task>>

OthersRotate == Rotate /\ UNCHANGED <<clock, search_cache, drop, task>>

SearchTick == Advance /\ UNCHANGED <<devicePoolVars, search_cache, drop, task>>

Proceed(t) ==
  \/ \E r \in Searches : Search(t, r)
  \/ Prepare(t) \/ RotateAndResend(t) \/ HealRotate(t) \/ GiveUp(t)
  \/ \E signature \in Signatures : Sign(t, signature)
  \/ \E heal \in BOOLEAN : Fail(t, heal)
  \/ \E a \in Answers : Answer(t, a)
  \/ RotateOnEmpty(t) \/ StayEmpty(t) \/ SecondPhase(t) \/ Finish(t)

SearchNext ==
  \/ \E t \in Tasks : Proceed(t)
  \/ \E key \in DOMAIN search_cache : Expire(key)
  \/ OthersRotate \/ SearchTick

SearchSpec == SearchInit /\ [][SearchNext]_searchVars

-----------------------------------------------------------------------------
(* Types, and what a search has at hand where it stands: an id for a second *)
(* call, none for a first one (upstream.rs:45-93).                          *)
SearchTypeOK ==
  /\ TypeOK
  /\ \A t \in Tasks :
       /\ task[t].device \in Pool \cup BootProfiles
       /\ task[t].of \in Searches
       /\ task[t].phase \in {"first", "again"} => task[t].id = {}
       /\ task[t].phase \in {"second", "known"} => Cardinality(task[t].id) = 1
       /\ task[t].reports <= 1
       /\ At(t, "empty") => task[t].phase = "first" /\ task[t].response = Nothing

(* A search sends at most six requests, and at most three if it takes less  *)
(* than the rotation cooldown: every one beyond the two phases is paid for  *)
(* with a rotation of its own (upstream.rs:45-93, 340-362).                 *)
SendsBounded ==
  \A t \in Tasks :
    /\ task[t].sends <= 6
    /\ clock - task[t].began < RotateCooldownMs => task[t].sends <= 3

(* A result of a search that was given an id carries one, so that the next  *)
(* page can be asked for, whatever the second answer holds                  *)
(* (upstream.rs:68-87).                                                     *)
IdNeverLost ==
  \A key \in DOMAIN search_cache :
    LET entry == search_cache[key]
    IN  entry.of.id = {} /\ entry.asked # {} => entry.response.id # {}

Barred(r) == Has(r.key, {"|"})

(* What the cache answers to a search is the answer to that very search, if *)
(* neither it nor the one that filled the cache has a bar in its key: bars  *)
(* also separate the parts of the cache key (upstream.rs:37-47).            *)
AnswersOwnRequest ==
  \A r \in Searches :
    CacheKey(r) \in DOMAIN search_cache =>
      LET owner == search_cache[CacheKey(r)].of
      IN  Barred(r) \/ Barred(owner) \/ owner = r

\* build_url writes the parameter as it is: because its name is not on the
\* list, or because its value looks encoded.
Raw(p) == p.name \notin Whitelist \/ Decode(p.value) # p.value

(* The url that is signed is the one that goes over the wire, except where  *)
(* a value that is written as it is holds a "#", or, if no filter is set,   *)
(* something that the url parser escapes or leaves out; there the two do    *)
(* differ.  The key, the id and the device's type escape these cases as     *)
(* long as they do not look encoded.  README.md:155 has signature and       *)
(* request agree under the filter, which holds but for the "#": the         *)
(* fragment it makes stays in the url that is signed (upstream.rs:515-542,  *)
(* 801-835; fq.rs:24-62).                                                   *)
SignedIsSent ==
  \A t \in Tasks : At(t, "await") =>
    (OnTheWire(Signed(t)) # Signed(t) <=>
       \E p \in Params(t) : Raw(p) /\
         Has(p.value, {"#"} \cup (IF drop.query = {} THEN {" ", "zh", "tab"} ELSE {})))

(* The upstream reads every parameter that is not on the drop list, decoded *)
(* once when it is written as it is, and none that is; except a value that  *)
(* is written as it is and holds a bare "&", "#" or tab, and all that comes *)
(* behind such a "#" (fq.rs:24-112; upstream.rs:801-835).                   *)
QueryArrives ==
  \A t \in Tasks : At(t, "await") =>
    LET received == Received(OnTheWire(Signed(t)))
    IN  /\ \A p \in received : p.name \notin drop.query
        /\ \A p \in Params(t) :
             \/ Param(p.name, Decode(p.value)) \in received
             \/ p.name \in drop.query
             \/ Raw(p) /\ Has(p.value, {"&", "#", "tab"})
             \/ \E q \in Params(t) : Before(q, p) /\ Raw(q) /\ Has(q.value, {"#"})

(* The cookie names the installation that the url names, also when it is    *)
(* another device's, and of the headers only those on the drop list are     *)
(* missing, one that the signer spells or brings in its own way included    *)
(* (upstream.rs:528-537, 745-799; fq.rs:123-158, 199-202, 250-263).         *)
HeadersAsMeant ==
  \A t \in Tasks : At(t, "await") =>
    LET device == task[t].device
        cookie == NormalizeInstallId(device.cookie, device.install_id)
    IN  /\ device.install_id # "" =>
             cookie[Min(InstallIdAt(cookie))].value = device.install_id
        /\ SentHeaders(t) \cap drop.headers = {}
        /\ SearchHeaders(device) \subseteq SentHeaders(t) \cup drop.headers
=============================================================================
