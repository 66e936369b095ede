-------------------------- MODULE MCPrefetchDedup --------------------------
(***************************************************************************)
(* An instance of PrefetchDedup: three tasks, so that several removals in  *)
(* a row can meet, over two chapters of the bucket, so that a task that    *)
(* finds its own cached leaves early while another goes on to fetch.       *)
(***************************************************************************)
EXTENDS PrefetchDedup

CONSTANTS t1, t2, t3, c1, c2

MCWants == (t1 :> {c1}) @@ (t2 :> {c2}) @@ (t3 :> {c1, c2})
=============================================================================
