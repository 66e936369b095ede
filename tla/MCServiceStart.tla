--------------------------- MODULE MCServiceStart ---------------------------
(***************************************************************************)
(* Two processes, each of either version, on deployments in which the      *)
(* startup name, the overrides and the validation make a difference.       *)
(***************************************************************************)
EXTENDS ServiceStart

CONSTANTS v1, v2, p1, p2

\* Only invariants are checked, and no definition chooses a process.
Symmetry == Permutations(Processes)

Profile(name, cookie, id) ==
  [name |-> name, cookie |-> cookie, device_id |-> id]

MCDefaultProfile == Profile("dev01", "cookie0", "id0")

MCTexts ==
  {"", "dev01", "dev02", "dev09", "cookie0", "cookie1", "cookie2", "mine",
   "id0", "id1", "id2", "id9", "db", "fq_chapter_cache"}

\* The library's length tells the versions apart, the certificate's does not.
MCFiles == <<"lib", "cert">>

MCLength ==
  [f \in {"lib", "cert"} |->
     IF f = "cert" THEN [v \in Versions |-> 1]
     ELSE [v \in Versions |-> IF v = v1 THEN 2 ELSE 1]]

PoolFile ==
  [DefaultConfig EXCEPT
     !.pool = <<Profile("dev01", "cookie1", "id1"),
                Profile("dev02", "cookie2", "id2")>>,
     !.startup = {"dev02"}]

Plain ==
  [custom |-> {}, standard |-> {{PoolFile}}, port |-> {}, startup |-> {},
   fqrs_db_url |-> {}, db_url |-> {}, table |-> {}, cookie |-> {},
   device |-> {}]

\* The last two do not load.
MCDeployments ==
  {[Plain EXCEPT !.cookie = {"mine"}, !.db_url = {"db"}],
   [Plain EXCEPT !.device = {{Profile("dev09", "", "id9")}}, !.startup = {""}],
   [Plain EXCEPT !.standard = {}, !.device = {{Profile("", "", "id9")}}],
   [Plain EXCEPT !.custom = {{[PoolFile EXCEPT !.profile.cookie = ""]}}],
   [Plain EXCEPT !.custom = {{[PoolFile EXCEPT !.pool[1].cookie = ""]}}],
   [Plain EXCEPT !.device = {{}}]}
=============================================================================
