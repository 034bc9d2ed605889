----------------------------- MODULE RemoteMap -----------------------------
(***************************************************************************)
(* What a NamedMap promises (the interface in named-cache-client.ts): a    *)
(* call takes effect at most once, at one instant, and if it resolves it   *)
(* does so afterwards and to what its documentation says of the map at     *)
(* that instant.  A call that is rejected, or not answered, may have taken *)
(* effect or may do so later.                                              *)
(***************************************************************************)
EXTENDS MapMeaning

CONSTANTS Values, Calls, Contents

VARIABLES
  map,  \* what the cache holds
  calls \* the calls of the application

vars == <<map, calls>>

\* A call of op with the arguments a, which has not taken effect.
Called(op, a, promise) ==
  [op |-> op, key |-> a[1], value |-> a[2], other |-> a[3],
   performed |-> FALSE, outcome |-> <<>>, promise |-> promise, result |-> <<>>]

NotCalled == Called("none", <<Null, Null, Null>>, "none")

----------------------------------------------------------------------------
Init ==
  /\ map \in Contents
  /\ calls = [c \in Calls |-> NotCalled]

Call(c) ==
  /\ calls[c] = NotCalled
  /\ \E op \in Ops, p \in {"pending", "rejected"} : \E a \in Arguments(op, Values) :
       calls' = [calls EXCEPT ![c] = Called(op, a, p)]
  /\ UNCHANGED map

Perform(c) ==
  LET r == calls[c]
  IN  /\ r # NotCalled /\ ~r.performed
      /\ map' = Effect(r.op, r.key, r.value, r.other, map)
      /\ calls' = [calls EXCEPT ![c].performed = TRUE,
                                ![c].outcome = Result(r.op, r.key, r.value, r.other, map)]

Settle(c, promise, result) ==
  /\ calls[c].promise = "pending"
  /\ calls' = [calls EXCEPT ![c].promise = promise, ![c].result = result]
  /\ UNCHANGED map

Resolve(c) == calls[c].performed /\ Settle(c, "resolved", calls[c].outcome)

Reject(c) == Settle(c, "rejected", <<>>)

Next == \E c \in Calls : Call(c) \/ Perform(c) \/ Resolve(c) \/ Reject(c)

Spec == Init /\ [][Next]_vars

============================================================================
