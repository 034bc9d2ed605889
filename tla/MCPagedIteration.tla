------------------------- MODULE MCPagedIteration -------------------------
(***************************************************************************)
(* Instances of PagedIteration for TLC; the cfg files give every constant. *)
(***************************************************************************)
EXTENDS PagedIteration

============================================================================
