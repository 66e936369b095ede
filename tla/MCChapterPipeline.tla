------------------------- MODULE MCChapterPipeline -------------------------
(***************************************************************************)
(* One request followed step by step among any number of others, over a    *)
(* pool of two devices and a book of three chapters in buckets of two.     *)
(***************************************************************************)
EXTENDS ChapterPipeline

CONSTANTS t1, c1, c2, c3, c3Padded, unnamed, devA, devB

\* Of a device only its identity matters here.
Device(name) == [name |-> name]

MCProfiles == [i \in 0 .. 1 |-> Device(IF i = 0 THEN devA ELSE devB)]

\* The service starts with the pool's first device.
MCBootProfiles == {Device(devA)}

MCRenewed == {Device(devA)}

\* c3Padded is c3 between blanks.
MCTrim == [id \in Ids |-> IF id = c3Padded THEN c3 ELSE id]

Items(ids) == [i \in DOMAIN ids |-> [id |-> ids[i], free |-> {FALSE}]]

\* One directory holds the chapter asked for, an item without an id, and
\* book info; the other has neither the chapter nor the info.
MCDirectories ==
  {[items |-> Items(<<unnamed, c1, c2, c3>>), serial |-> {2},
    info |-> {[serial |-> {}]}],
   [items |-> Items(<<c1, c3Padded>>), serial |-> {}, info |-> {}]}

\* Kept takes what SelectSeq does, in the same order.
ASSUME KeptIsFilter ==
  \A n \in 0 .. 5 : \A s \in [1 .. n -> 0 .. 2] :
    Kept(s, {i \in 1 .. n : s[i] # 0}) = SelectSeq(s, LAMBDA x : x # 0)
=============================================================================
