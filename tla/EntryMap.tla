------------------------------ MODULE EntryMap ------------------------------
(***************************************************************************)
(* The HashMap of util.ts, which MapEventsManager, LocalSet and the caches *)
(* of a session's application use: keys are spread over buckets by a hash  *)
(* of their text and compared by identity, and iterators walk the buckets  *)
(* of the map itself, not a copy.                                          *)
(*                                                                         *)
(* Two keys may have the same text (objects of one class do), and a key    *)
(* has one hash for ever: what happens to a key that is an object whose    *)
(* text changes is not modelled.                                           *)
(***************************************************************************)
EXTENDS Integers, Sequences, FiniteSets

CONSTANTS Keys, Values,
          Hash,      \* the hash of a key's text
          Size,      \* number of buckets
          Iterators, \* iterators that walk the map
          Same,      \* the pairs of keys that are equal, as the application sees it
          SkipsSome  \* whether it deletes what lets an iteration skip an entry

ASSUME EntryMapAssumption ==
  /\ IsFiniteSet(Keys)
  /\ Hash \in [Keys -> Int]
  /\ Size \in Nat \ {0}
  /\ Same \subseteq Keys \X Keys
  /\ SkipsSome \in BOOLEAN

VARIABLES
  buckets, \* the entries of each bucket, oldest first
  size,    \* as in the code
  places,  \* for each iterator: the bucket and the entry it looks at next
  answer   \* what the latest operation returned

vars == <<buckets, size, places, answer>>

Missing == <<"undefined">>

----------------------------------------------------------------------------
(* Where a key goes.                                                       *)

\* A new iterator's place; one that is not in use yet has it from the start.
Start == [bucket |-> 1, entry |-> 1]

Magnitude(n) == IF n < 0 THEN -n ELSE n

\* The remainder has the sign of the hash, which is taken off.
BucketOf(k) == (Magnitude(Hash[k]) % Size) + 1

\* The places of k in its bucket: find() takes the first one.
Found(k) == {n \in DOMAIN buckets[BucketOf(k)] : buckets[BucketOf(k)][n][1] = k}

First(places0) == CHOOSE n \in places0 : \A m \in places0 : n <= m

Entry(k) == buckets[BucketOf(k)][First(Found(k))]

----------------------------------------------------------------------------
Init ==
  /\ buckets = [b \in 1 .. Size |-> <<>>]
  /\ size = 0
  /\ places = [i \in Iterators |-> Start]
  /\ answer = Missing

Set(k, v) ==
  /\ IF Found(k) # {}
     THEN /\ buckets' = [buckets EXCEPT ![BucketOf(k)][First(Found(k))] = <<k, v>>]
          /\ UNCHANGED size
     ELSE /\ buckets' = [buckets EXCEPT ![BucketOf(k)] = Append(@, <<k, v>>)]
          /\ size' = size + 1
  /\ answer' = <<"map">>
  /\ UNCHANGED places

Get(k) ==
  /\ answer' = IF Found(k) # {} THEN <<"value", Entry(k)[2]>> ELSE Missing
  /\ UNCHANGED <<buckets, size, places>>

Has(k) ==
  /\ answer' = <<"boolean", Found(k) # {}>>
  /\ UNCHANGED <<buckets, size, places>>

Count ==
  /\ answer' = <<"size", size>>
  /\ UNCHANGED <<buckets, size, places>>

\* The iterator is past k in a bucket that has more for it: without k its next
\* entry is one place nearer than where it looks.
Skips(i, k) ==
  /\ places[i].bucket = BucketOf(k)
  /\ Found(k) # {} /\ First(Found(k)) < places[i].entry
  /\ places[i].entry <= Len(buckets[BucketOf(k)])

\* What the application may delete while it iterates.
MayDelete(k) == SkipsSome \/ \A i \in Iterators : ~Skips(i, k)

Without(bucket, n) == SubSeq(bucket, 1, n - 1) \o SubSeq(bucket, n + 1, Len(bucket))

\* Mutant of Delete: the size stays.
DeleteUncounted(k) ==
  /\ MayDelete(k)
  /\ answer' = <<"boolean", Found(k) # {}>>
  /\ buckets' = IF Found(k) = {} THEN buckets
                ELSE [buckets EXCEPT ![BucketOf(k)] = Without(@, First(Found(k)))]
  /\ UNCHANGED <<size, places>>

\* Iterators are not told: in this bucket they are now one entry further on.
Delete(k) ==
  /\ MayDelete(k)
  /\ answer' = <<"boolean", Found(k) # {}>>
  /\ IF Found(k) # {}
     THEN /\ buckets' = [buckets EXCEPT ![BucketOf(k)] = Without(@, First(Found(k)))]
          /\ size' = size - 1
     ELSE UNCHANGED <<buckets, size>>
  /\ UNCHANGED places

\* The buckets are replaced one by one in the array that iterators share.
Clear ==
  /\ buckets' = [b \in 1 .. Size |-> <<>>]
  /\ size' = 0
  /\ answer' = Missing
  /\ UNCHANGED places

\* entries(), keys(), values() and the iteration of a LocalSet.
Iterate(i) ==
  /\ places' = [places EXCEPT ![i] = Start]
  /\ answer' = <<"iterator">>
  /\ UNCHANGED <<buckets, size>>

\* Mutant of Ahead: the last entry of the bucket is not looked at.
AheadShort(i) ==
  {b \in places[i].bucket .. Size :
     IF b = places[i].bucket THEN places[i].entry < Len(buckets[b]) ELSE buckets[b] # <<>>}

\* The buckets where the iterator would find an entry.
Ahead(i) ==
  {b \in places[i].bucket .. Size :
     IF b = places[i].bucket THEN places[i].entry <= Len(buckets[b]) ELSE buckets[b] # <<>>}

\* The iterator's place in bucket b, which it goes to through empty ones.
Moved(i, b) == IF b = places[i].bucket THEN places[i] ELSE [bucket |-> b, entry |-> 1]

Yield(i) ==
  /\ IF Ahead(i) # {}
     THEN LET p == Moved(i, First(Ahead(i)))
              e == buckets[p.bucket][p.entry]
          IN  /\ answer' = <<"entry", e[1], e[2]>>
              /\ places' = [places EXCEPT ![i] = [p EXCEPT !.entry = @ + 1]]
     ELSE /\ answer' = <<"done">>
          /\ places' = [places EXCEPT ![i] = [bucket |-> Size + 1, entry |-> 1]]
  /\ UNCHANGED <<buckets, size>>

\* delete() and clear() of a LocalSet.
Refuse ==
  /\ answer' = <<"boolean", FALSE>>
  /\ UNCHANGED <<buckets, size, places>>

Next ==
  \/ \E k \in Keys, v \in Values : Set(k, v)
  \/ \E k \in Keys : Get(k) \/ Has(k) \/ Delete(k)
  \/ \E i \in Iterators : Iterate(i) \/ Yield(i)
  \/ Count \/ Clear \/ Refuse

Spec == Init /\ [][Next]_vars

----------------------------------------------------------------------------
\* No key is in two places: each is in the bucket of its hash, once, and the
\* size counts them all.
KeysOnce ==
  /\ \A b \in 1 .. Size : \A m, n \in DOMAIN buckets[b] :
       /\ BucketOf(buckets[b][n][1]) = b
       /\ buckets[b][m][1] = buckets[b][n][1] => m = n
  /\ size = Cardinality({k \in Keys : Found(k) # {}})

\* What is left for an iterator: the entries at and after its place.
LeftFor(i) ==
  {k \in Keys : \E b \in places[i].bucket .. Size : \E n \in DOMAIN buckets[b] :
     buckets[b][n][1] = k /\ (b = places[i].bucket => places[i].entry <= n)}

Abstract == INSTANCE Dictionary WITH
  dict <- [k \in {x \in Keys : Found(x) # {}} |-> Entry(k)[2]],
  left <- [i \in Iterators |-> LeftFor(i)]

\* The map, walked while it changes or not, is the Map its comment promises.
ImplementsDictionary == Abstract!Spec

============================================================================
