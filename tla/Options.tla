------------------------------ MODULE Options ------------------------------
(***************************************************************************)
(* Rust's Option: a set of at most one element.                            *)
(***************************************************************************)

Option(S) == {o \in SUBSET S : \A x, y \in o : x = y}

\* Option::or
Or(option, other) == IF option # {} THEN option ELSE other

Unwrap(option) == CHOOSE x \in option : TRUE

UnwrapOr(option, default) == IF option = {} THEN default ELSE Unwrap(option)
=============================================================================
