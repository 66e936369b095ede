--------------------------- MODULE UpstreamRequest ---------------------------
(***************************************************************************)
(* How a request to the upstream is put together: parameters, url, its     *)
(* encoding and filter (crates/api/src/fq.rs, upstream.rs), headers, the   *)
(* signer's headers and their filter (signer.rs).  All of it is pure.      *)
(*                                                                         *)
(* A text is a sequence of characters, told apart by what an encoding does *)
(* to them:                                                                *)
(*   " ", "+", "&", "#"  themselves, each with a meaning in a query;       *)
(*   "%"     one that two hex digits do not follow;                        *)
(*   "tab"   a tab or a line end, which the url parser leaves out;         *)
(*   "zh"    what every encoding escapes: not ASCII, a control, a quote,   *)
(*           "<" or ">";                                                   *)
(*   "|", "braces"  what java_url_encode escapes, the url parser does not; *)
(*   "%20" and the like   an escape, taken as one character;               *)
(*   ""      no character at all.                                          *)
(* Every other string stands for characters that nothing changes, also the *)
(* digits of a number and a device's id, taken as one.  What follows an    *)
(* "&" that is not escaped is lost to the value (it is read as a parameter *)
(* of its own); what follows a "#" is lost to the query, with all the      *)
(* parameters after it.                                                    *)
(***************************************************************************)
EXTENDS Options, Integers, SequencesExt

CONSTANTS
  Characters,
  Spellings,  \* header names: the lower case of each spelling in use
  MaxUsize,   \* usize::MAX
  Decimal     \* to_string of a number

Numbers == 0 .. MaxUsize

Text == Seq(Characters)

\* What java_url_encode and the url crate's form encoding escape.
Escape == [c \in {"%", "&", "|", "+", "zh", "#", "tab", "braces"} |->
             CASE c = "%" -> "%25" [] c = "&" -> "%26" [] c = "|" -> "%7C"
               [] c = "+" -> "%2B" [] c = "zh" -> "%E4" [] c = "#" -> "%23"
               [] c = "tab" -> "%09" [] c = "braces" -> "%7B%7D"]

EscapedBy(c) ==
  {raw \in DOMAIN Escape : Escape[raw] = c} \cup (IF c = "%20" THEN {" "} ELSE {})

\* What no encoding changes.
Plain == Characters \ (DOMAIN Escape \cup {" "})

ASSUME RequestAssumption ==
  /\ {"|", "braces", "install_id"} \subseteq Characters
  /\ MaxUsize \in Nat /\ MaxUsize >= 50
  /\ Decimal \in [Numbers -> Plain]
  /\ \A m, n \in Numbers : Decimal[m] = Decimal[n] => m = n

Has(text, some) == \E i \in DOMAIN text : text[i] \in some

-----------------------------------------------------------------------------
DecodedChar(c) ==
  IF c = "+" THEN " "
  ELSE IF EscapedBy(c) # {} THEN CHOOSE raw \in EscapedBy(c) : TRUE ELSE c

EncodedChar(c) ==
  IF c = " " THEN "+" ELSE IF c \in DOMAIN Escape THEN Escape[c] ELSE c

\* java_url_decode, and how the upstream reads a value.
Decode(text) == [i \in DOMAIN text |-> DecodedChar(text[i])]

\* java_url_encode
Encode(text) == [i \in DOMAIN text |-> EncodedChar(text[i])]

\* Slip: no look at whether the value is encoded already.
EncodeAlways(text) == Encode(text)

\* encode_if_needed: what decoding changes counts as encoded.
EncodeIfNeeded(text) == IF Decode(text) # text THEN text ELSE Encode(text)

Whitelist == {"query", "client_ab_info", "search_source_id", "search_id",
              "device_type", "resolution", "rom_version"}

Param(name, value) == [name |-> name, value |-> value]

\* A url: its parameters, no two of one name, and whether a fragment follows.
Url(params, fragment) == [params |-> params, fragment |-> fragment]

\* The order in which build_search_params puts the parameters.
Order == <<"iid", "device_type", "device_brand", "offset", "query", "count",
           "search_id", "client_ab_info", "tab_type", "passback">>

Before(p, q) ==
  \E i, j \in DOMAIN Order : i < j /\ Order[i] = p.name /\ Order[j] = q.name

\* Slip: the search's own parameters are left out of the list.
BuildUrlUnlisted(params) ==
  Url({Param(p.name, IF p.name \in Whitelist \ {"query", "search_id"}
                       THEN EncodeIfNeeded(p.value) ELSE p.value) : p \in params},
      FALSE)

\* build_url
BuildUrl(params) ==
  Url({Param(p.name, IF p.name \in Whitelist THEN EncodeIfNeeded(p.value)
                     ELSE p.value) : p \in params},
      FALSE)

UpTo(text, c) ==
  LET at == {i \in DOMAIN text : text[i] = c}
  IN  IF at = {} THEN text ELSE SubSeq(text, 1, Min(at) - 1)

\* What reqwest's url parser makes of a character: it escapes what a query
\* must not hold, leaves some out, and changes nothing else.
WireChar(c) ==
  CASE c = " " -> "%20" [] c = "zh" -> "%E4" [] c = "tab" -> "" [] OTHER -> c

Wire(text) == [i \in DOMAIN text |-> WireChar(text[i])]

\* The parameters in which the query ends.
Ends(url) == {p \in url.params : Has(p.value, {"#"})}

\* What it puts on the wire for a url: nothing from the first "#" on.
OnTheWire(url) ==
  Url({Param(p.name, Wire(UpTo(p.value, "#"))) :
         p \in {p \in url.params : ~\E end \in Ends(url) : Before(end, p)}},
      FALSE)

\* What is read of a url that has been parsed.
Received(url) == {Param(p.name, Decode(UpTo(p.value, "&"))) : p \in url.params}

\* apply_upstream_query_filter: a url it filters is parsed, and what has been
\* read of it encoded anew; the fragment stays.
QueryFilter(url, dropped) ==
  IF dropped = {} THEN url
  ELSE Url({Param(p.name, Encode(p.value)) :
              p \in {p \in Received(OnTheWire(url)) : p.name \notin dropped}},
           url.fragment \/ Ends(url) # {})

-----------------------------------------------------------------------------
\* A cookie is a sequence of [key, value, pair], where pair says whether it
\* has an "="; "install_id" stands for every key that ends so, in any case.
\* normalize_install_id puts the device's id in it.
CookiePiece == [key : Characters, value : Characters, pair : BOOLEAN]

Cookie == Seq(CookiePiece)

InstallIdAt(cookie) ==
  {i \in DOMAIN cookie : cookie[i].pair /\ cookie[i].key = "install_id"}

\* Slip: an id that the cookie already has is left.
NormalizeInstallIdOnce(cookie, id) ==
  IF id = "" \/ InstallIdAt(cookie) # {} THEN cookie
  ELSE Append(cookie, [key |-> "install_id", value |-> id, pair |-> TRUE])

NormalizeInstallId(cookie, id) ==
  IF id = "" THEN cookie
  ELSE IF InstallIdAt(cookie) # {}
    THEN [cookie EXCEPT ![Min(InstallIdAt(cookie))].value = id]
  ELSE Append(cookie, [key |-> "install_id", value |-> id, pair |-> TRUE])

\* cookie_value: the walk ends at a piece without "=", with nothing.
CookieValue(cookie, key) ==
  LET ends == {i \in DOMAIN cookie : ~cookie[i].pair
                 \/ (cookie[i].key = key /\ cookie[i].value # "")}
  IN  IF ends = {} \/ ~cookie[Min(ends)].pair THEN {}
      ELSE {cookie[Min(ends)].value}

\* build_common_headers: the names; what device a value is of is in the cookie.
RegionHeaders(cookie) ==
  {h \in {"x-tt-store-region", "x-tt-store-region-src"} :
     CookieValue(cookie, IF h = "x-tt-store-region" THEN "store-region"
                         ELSE "store-region-src") # {}}

CommonHeaders(device) ==
  {"accept", "cookie", "user-agent", "x-reading-request", "x-ss-dp"}
    \cup RegionHeaders(NormalizeInstallId(device.cookie, device.install_id))

\* build_search_headers
SearchHeaders(device) == CommonHeaders(device) \cup {"authorization"}

\* parse_signature_result: whatever the form of the signer's answer, its
\* X-Neptune does not count.
SignatureHeaders(answer) == {h \in answer : Spellings[h] # "x-neptune"}

\* merge_headers: one header of a name, spelled in lower case.
MergeHeaders(own, signed) == own \cup {Spellings[h] : h \in signed}

\* parse_drop_name_list
DropNames(list) == {Spellings[h] : h \in list}

\* apply_upstream_header_filter
HeaderFilter(headers, dropped) == headers \ dropped

-----------------------------------------------------------------------------
\* The ids and numbers of a request; its other parameters are fixed.

\* build_common_params: of a device's parameters, an id and one other that go
\* out as they are, and one that is encoded.
CommonParams(device) ==
  {Param("iid", <<device.install_id>>), Param("device_type", device.type),
   Param("device_brand", device.brand)}

\* build_search_params
SearchParams(device, r) ==
  CommonParams(device)
    \cup {Param("offset", <<Decimal[r.offset]>>), Param("query", r.query),
          Param("count", <<Decimal[r.count]>>),
          Param("tab_type", <<Decimal[r.tab]>>),
          Param("passback", <<Decimal[r.offset]>>)}
    \cup {Param("search_id", id) : id \in r.id}
    \cup (IF r.first THEN {Param("client_ab_info", <<"braces">>)} ELSE {})
=============================================================================
