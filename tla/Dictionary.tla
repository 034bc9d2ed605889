----------------------------- MODULE Dictionary -----------------------------
(***************************************************************************)
(* What a HashMap promises, from the comment at its head: it is a drop-in  *)
(* replacement for the Map of the language that finds a mapping by a key   *)
(* equal to the one it was stored under, whether or not it is the same     *)
(* instance.  An iteration that goes on while the map changes yields every *)
(* key that stays in the map, once, with the value it has at that time.    *)
(* As no order is promised, a key set meanwhile may be yielded or not.     *)
(***************************************************************************)
EXTENDS Integers, FiniteSets

CONSTANTS Keys, Values, Iterators,
          Same  \* the pairs of keys that are equal

VARIABLES
  dict,   \* the map
  left,   \* for each iterator, the keys it has still to yield
  answer  \* what the latest operation returned

Missing == <<"undefined">>

Init ==
  /\ dict = [k \in {} |-> Missing]
  /\ left = [i \in Iterators |-> {}]
  /\ answer = Missing

\* The keys a mapping for k is stored under, and the ones it is then set for.
Stored(k) == {x \in DOMAIN dict : <<x, k>> \in Same}

Target(k) == IF Stored(k) = {} THEN {k} ELSE Stored(k)

Set(k, v) ==
  /\ dict' = [x \in DOMAIN dict \cup Target(k) |-> IF x \in Target(k) THEN v ELSE dict[x]]
  /\ \E late \in SUBSET Iterators :
       /\ Stored(k) # {} => late = {}
       /\ left' = [i \in Iterators |-> IF i \in late THEN left[i] \cup {k} ELSE left[i]]
  /\ answer' = <<"map">>

Get(k) ==
  /\ \/ Stored(k) = {} /\ answer' = Missing
     \/ \E x \in Stored(k) : answer' = <<"value", dict[x]>>
  /\ UNCHANGED <<dict, left>>

Has(k) ==
  /\ answer' = <<"boolean", Stored(k) # {}>>
  /\ UNCHANGED <<dict, left>>

Count ==
  /\ answer' = <<"size", Cardinality(DOMAIN dict)>>
  /\ UNCHANGED <<dict, left>>

Delete(k) ==
  /\ answer' = <<"boolean", Stored(k) # {}>>
  /\ dict' = [x \in DOMAIN dict \ Stored(k) |-> dict[x]]
  /\ left' = [i \in Iterators |-> left[i] \ Stored(k)]

Clear ==
  /\ dict' = [k \in {} |-> Missing]
  /\ left' = [i \in Iterators |-> {}]
  /\ answer' = Missing

Iterate(i) ==
  /\ left' = [left EXCEPT ![i] = DOMAIN dict]
  /\ answer' = <<"iterator">>
  /\ UNCHANGED dict

Yield(i) ==
  /\ \/ \E k \in left[i] :
          /\ answer' = <<"entry", k, dict[k]>>
          /\ left' = [left EXCEPT ![i] = @ \ {k}]
     \/ left[i] = {} /\ answer' = <<"done">> /\ UNCHANGED left
  /\ UNCHANGED dict

\* A LocalSet over the map does not let its elements be removed.
Refuse == answer' = <<"boolean", FALSE>> /\ UNCHANGED <<dict, left>>

Next ==
  \/ \E k \in Keys, v \in Values : Set(k, v)
  \/ \E k \in Keys : Get(k) \/ Has(k) \/ Delete(k)
  \/ \E i \in Iterators : Iterate(i) \/ Yield(i)
  \/ Count \/ Clear \/ Refuse

Spec == Init /\ [][Next]_<<dict, left, answer>>

============================================================================
