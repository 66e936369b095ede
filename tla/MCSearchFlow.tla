---------------------------- MODULE MCSearchFlow ----------------------------
(***************************************************************************)
(* One search at a time, over a pool of two devices that share one cookie; *)
(* the keys hold what the encodings treat apart.                           *)
(***************************************************************************)
EXTENDS SearchFlow

Device(name, brand) ==
  [name |-> name, install_id |-> name, type |-> <<"dev">>, brand |-> brand,
   cookie |-> <<[key |-> "store-region", value |-> "cn", pair |-> TRUE],
                [key |-> "install_id", value |-> "devA", pair |-> TRUE]>>]

MCProfiles ==
  [i \in 0 .. 1 |-> IF i = 0 THEN Device("devA", <<"b">>)
                    ELSE Device("devB", <<"b", " ", "c">>)]

MCBootProfiles == {Device("devA", <<"b">>)}

Query(key, page, size, tab, id) ==
  [key |-> key, page |-> page, size |-> size, tab |-> tab, id |-> id]

\* Two of them are refused; the last two have one cache key.  Of two with a
\* "#", one has it in its key, and one in its id.
MCQueries ==
  {Query(<<" ", "zh", " ", "b">>, {}, {}, {}, {}),
   Query(<<"zh", " ", "b">>, {}, {}, {2}, {}),
   Query(<<"zh", " ", "b">>, {2}, {}, {}, {<<" ", "sid">>}),
   Query(<<"c", "+", "zh">>, {}, {}, {}, {<<" ">>}),
   Query(<<"c", "%20", "&">>, {3}, {50}, {1}, {}),
   Query(<<"tab", "c", "tab", "#", "+">>, {}, {}, {}, {}),
   Query(<<"c", "%", "#">>, {}, {5}, {}, {<<"s", "#", "+">>}),
   Query(<<" ", "tab">>, {}, {}, {}, {}),
   Query(<<"a">>, {0}, {}, {}, {}),
   Query(<<"a", "|", "1">>, {2}, {20}, {3}, {}),
   Query(<<"a">>, {1}, {2}, {20}, {<<"3", "|">>})}

Tab(tab, id, books) == [tab |-> tab, id |-> id, books |-> books]

Document(tabs, id, books) ==
  [tabs |-> tabs, data_id |-> {}, id |-> {}, nested |-> id, books |-> books]

MCAnswers ==
  {Document(<<>>, {}, 0),
   Document(<<Tab(1, {<<"sid">>}, 0), Tab(3, {<<"sid">>}, 1)>>, {}, 0),
   Document(<<Tab(2, {}, 1)>>, {}, 0),
   Document(<<>>, {<<"s", "+", "d">>}, 1)}

MCCharacters ==
  {" ", "+", "%", "&", "|", "zh", "#", "tab", "braces", "%20", "a", "b", "c",
   "dev", "devA", "devB", "sid", "s", "d", "cn", "store-region", "install_id"}
    \cup {ToString(n) : n \in Numbers}

MCDecimal == [n \in Numbers |-> ToString(n)]

MCSpellings ==
  [h \in {"X-Gorgon", "X-Neptune", "Cookie", "x-ss-dp", "Passback", "search_id"} |->
     CASE h = "X-Gorgon" -> "x-gorgon" [] h = "X-Neptune" -> "x-neptune"
       [] h = "Cookie" -> "cookie" [] h = "Passback" -> "passback" [] OTHER -> h]

MCSignatures == {{"X-Gorgon", "X-Neptune"}}

MCDropQuery == {{}, {"Passback", "search_id"}}

MCDropHeaders == {{}, {"X-Gorgon", "Cookie"}}
=============================================================================
