--------------------------- MODULE EntryIterator ---------------------------
(***************************************************************************)
(* What iterating over a remote set promises: its entries one by one, in   *)
(* the proxy's order, and the end of the iteration after the last of them. *)
(* The entries are numbered 1 .. Total in that order.                      *)
(***************************************************************************)
EXTENDS Naturals, Sequences

CONSTANT Total

VARIABLES delivered, \* what the iteration has yielded, in order
          finished   \* it has reported its end

itVars == <<delivered, finished>>

Init == delivered = <<>> /\ finished = FALSE

Yield ==
  /\ Len(delivered) < Total
  /\ delivered' = Append(delivered, Len(delivered) + 1)
  /\ UNCHANGED finished

Finish ==
  /\ Len(delivered) = Total
  /\ finished' = TRUE
  /\ UNCHANGED delivered

Next == Yield \/ Finish

Spec == Init /\ [][Next]_itVars

============================================================================
