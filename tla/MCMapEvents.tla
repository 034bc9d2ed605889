---------------------------- MODULE MCMapEvents ----------------------------
(***************************************************************************)
(* Instances of MapEvents for TLC; the cfg files give every constant.      *)
(***************************************************************************)
EXTENDS MapEvents, TLC

\* Listeners are told apart by nothing but their identity.
ListenerSymmetry == Permutations(Listeners)

============================================================================
