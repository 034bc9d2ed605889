------------------------ MODULE MCSessionLifecycle ------------------------
(***************************************************************************)
(* Instances of SessionLifecycle for TLC: which names are keyed under      *)
(* which, the rest is in the cfg files.                                    *)
(***************************************************************************)
EXTENDS SessionLifecycle

CONSTANTS orders, ordersEU \* the names `orders' and `orders:eu'

Unrelated == [n \in Names |-> {n}]

Nested == [n \in Names |-> IF n = orders THEN {orders, ordersEU} ELSE {n}]

============================================================================
