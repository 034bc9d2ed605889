------------------------- MODULE MCNamedCacheCalls -------------------------
(***************************************************************************)
(* An instance of NamedCacheCalls for TLC: two calls, of operations that   *)
(* are given for each.                                                     *)
(***************************************************************************)
EXTENDS NamedCacheCalls

CONSTANTS c1, c2, v1, v2,
          First, Second \* what the two calls may be

MCMayCall == [c \in {c1, c2} |-> IF c = c1 THEN First ELSE Second]

\* Everything but get, whose failures resolve to its default.
MCButGet == Ops \ {"get"}

\* An empty cache, and those where all entries have the same value.
MCContents == {[k \in Keys |-> x] : x \in {Absent, v1, v2}}

============================================================================
