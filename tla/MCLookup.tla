------------------------------ MODULE MCLookup ------------------------------
(***************************************************************************)
(* An instance of Lookup for TLC: two clusters on one host, a third that   *)
(* is not running, and targets of every form.  Those that name a port and  *)
(* no cluster are a set of their own.                                      *)
(***************************************************************************)
EXTENDS Lookup, TLC

MCServiceAt == (7574 :> "here") @@ (8000 :> "there")

MCPortOf == ("here" :> 7574) @@ ("there" :> 8000) @@ ("nowhere" :> None)

MCTargets == {[port |-> None, cluster |-> None],
              [port |-> None, cluster |-> "there"], [port |-> 8000, cluster |-> "here"],
              [port |-> 7574, cluster |-> "nowhere"]}

MCPortTargets == {[port |-> 8000, cluster |-> None]}

\* Lengths that take two bytes and three; an empty result has a length of one.
MCLengths == {64, 8192}

\* Integers of one to three bytes.
MCNumbers == -9000 .. 9000

CONSTANTS p1, none

MCAtFirst == {[c \in {"here", "there", "nowhere"} |-> IF c \in running THEN p1 ELSE none] :
                running \in {{"here"}, {"there"}, {"here", "there"}}}

============================================================================
