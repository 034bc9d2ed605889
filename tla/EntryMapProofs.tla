--------------------------- MODULE EntryMapProofs ---------------------------
(***************************************************************************)
(* A HashMap is a map, for any keys, hashes and number of buckets, and an  *)
(* iteration over it, while it changes, is that of a Dictionary, where the *)
(* application has one instance of each key and deletes nothing that would *)
(* let an iteration skip an entry.                                         *)
(*                                                                         *)
(* The lemmas are about the buckets bs before and after an operation: the  *)
(* keys in them and where each one is, from which follow what the map has  *)
(* and what is left for an iterator.                                       *)
(***************************************************************************)
EXTENDS EntryMap, FiniteSetTheorems, SequenceTheorems, NaturalsInduction, WellFoundedInduction, TLAPS

Pairs == Keys \X Values

\* Found, Entry and LeftFor of given buckets.
FoundIn(bs, k) == {n \in DOMAIN bs[BucketOf(k)] : bs[BucketOf(k)][n][1] = k}

KeysIn(bs) == {k \in Keys : FoundIn(bs, k) # {}}

Where(bs, k) == First(FoundIn(bs, k))

ValueIn(bs, k) == bs[BucketOf(k)][Where(bs, k)][2]

LeftIn(bs, p) ==
  {k \in Keys : \E b \in p.bucket .. Size : \E n \in DOMAIN bs[b] :
     bs[b][n][1] = k /\ (b = p.bucket => p.entry <= n)}

\* Every key is in the bucket of its hash, once.
Placed(bs) ==
  /\ bs \in [1 .. Size -> Seq(Pairs)]
  /\ \A b \in 1 .. Size : \A m, n \in DOMAIN bs[b] :
       /\ BucketOf(bs[b][n][1]) = b
       /\ bs[b][m][1] = bs[b][n][1] => m = n

Place == [bucket : 1 .. Size + 1, entry : Nat \ {0}]

----------------------------------------------------------------------------
(* Where a key goes and where it is found.                                 *)

LEMMA BucketInRange == ASSUME NEW k \in Keys PROVE BucketOf(k) \in 1 .. Size
<1>1. Hash[k] \in Int /\ Size \in Nat \ {0}
  BY EntryMapAssumption
<1>2. Magnitude(Hash[k]) \in Nat
  BY <1>1 DEF Magnitude
<1>3. ASSUME NEW m \in Nat PROVE m % Size \in 0 .. Size - 1
  BY <1>1
<1>. QED BY <1>1, <1>2, <1>3 DEF BucketOf

LEMMA FirstOfOne == ASSUME NEW n \in Int PROVE First({n}) = n
<1>1. \E x \in {n} : \A m \in {n} : x <= m
  OBVIOUS
<1>2. First({n}) \in {n}
  BY <1>1 DEF First
<1>. QED BY <1>2

\* The least of a set of buckets.
LEMMA FirstOfSome ==
  ASSUME NEW S \in SUBSET Nat, S # {}
  PROVE  First(S) \in S /\ \A n \in S : First(S) <= n
<1>1. \E x \in S : \A m \in S : x <= m
  <2>1. PICK x \in S : \A m \in S : ~(<<m, x>> \in OpToRel(<, Nat))
    BY NatLessThanWellFounded, WFMin
  <2>2. OpToRel(<, Nat) = {ss \in Nat \X Nat : ss[1] < ss[2]}
    BY Zenon DEF OpToRel
  <2>. DEFINE less == OpToRel(<, Nat)
  <2>3. \A m \in S : ~(<<m, x>> \in less)
    BY <2>1
  <2>4. less = {ss \in Nat \X Nat : ss[1] < ss[2]}
    BY <2>2
  <2>. HIDE DEF less
  <2>5. ASSUME NEW m \in S, m < x PROVE FALSE
    <3>1. <<m, x>> \in Nat \X Nat /\ <<m, x>>[1] < <<m, x>>[2]
      BY <2>5
    <3>2. <<m, x>> \in less
      BY <2>4, <3>1, Zenon
    <3>. QED BY <2>3, <3>2
  <2>6. \A m \in S : x <= m
    BY <2>5
  <2>. QED BY <2>6
<1>. QED BY <1>1 DEF First

\* A key that is found is found in one place.
LEMMA FoundOnce ==
  ASSUME NEW bs, Placed(bs), NEW k \in KeysIn(bs)
  PROVE  /\ k \in Keys /\ BucketOf(k) \in 1 .. Size /\ Len(bs[BucketOf(k)]) \in Nat
         /\ bs \in [1 .. Size -> Seq(Pairs)] /\ bs[BucketOf(k)] \in Seq(Pairs)
         /\ Where(bs, k) \in DOMAIN bs[BucketOf(k)] /\ bs[BucketOf(k)][Where(bs, k)][1] = k
         /\ Where(bs, k) \in 1 .. Len(bs[BucketOf(k)])
         /\ bs[BucketOf(k)][Where(bs, k)] = <<k, ValueIn(bs, k)>>
         /\ ValueIn(bs, k) \in Values
<1>1. k \in Keys /\ BucketOf(k) \in 1 .. Size /\ bs[BucketOf(k)] \in Seq(Pairs)
  BY BucketInRange DEF Placed, KeysIn
<1>2. PICK n \in DOMAIN bs[BucketOf(k)] : bs[BucketOf(k)][n][1] = k
  BY DEF FoundIn, KeysIn
<1>3. FoundIn(bs, k) = {n}
  BY <1>1, <1>2 DEF FoundIn, Placed
<1>4. n \in 1 .. Len(bs[BucketOf(k)]) /\ n \in Int /\ Len(bs[BucketOf(k)]) \in Nat
  BY <1>1, <1>2
<1>5. Where(bs, k) = n
  BY <1>3, <1>4, FirstOfOne DEF Where
<1>6. bs[BucketOf(k)][n] \in Pairs
  BY <1>1, <1>4
<1>. QED BY <1>1, <1>2, <1>4, <1>5, <1>6 DEF ValueIn, Pairs, Placed

\* The entry at a place is that of the key that is found there.
LEMMA FoundThere ==
  ASSUME NEW bs, Placed(bs), NEW b \in 1 .. Size, NEW n \in DOMAIN bs[b], NEW k, bs[b][n][1] = k
  PROVE  /\ k \in KeysIn(bs) /\ b = BucketOf(k) /\ n = Where(bs, k)
         /\ ValueIn(bs, k) = bs[b][n][2]
<1>1. bs[b] \in Seq(Pairs) /\ BucketOf(k) = b
  BY DEF Placed
<1>2. bs[b][n] \in Pairs
  BY <1>1
<1>3. k \in Keys
  BY <1>2 DEF Pairs
<1>4. n \in FoundIn(bs, k) /\ k \in KeysIn(bs)
  BY <1>1, <1>3 DEF FoundIn, KeysIn
<1>5. Where(bs, k) \in DOMAIN bs[b] /\ bs[b][Where(bs, k)][1] = k
  BY <1>1, <1>4, FoundOnce
<1>6. n = Where(bs, k)
  BY <1>5 DEF Placed
<1>. QED BY <1>1, <1>4, <1>6 DEF ValueIn

LEMMA EntryThere ==
  ASSUME NEW bs, Placed(bs), NEW b \in 1 .. Size, NEW n \in DOMAIN bs[b]
  PROVE  /\ bs[b][n][1] \in KeysIn(bs) /\ b = BucketOf(bs[b][n][1]) /\ n = Where(bs, bs[b][n][1])
         /\ ValueIn(bs, bs[b][n][1]) = bs[b][n][2]
BY FoundThere

\* What is left for an iterator: the keys that are at or after its place.
LEMMA LeftIs ==
  ASSUME NEW bs, Placed(bs), NEW p \in Place
  PROVE  LeftIn(bs, p) =
           {k \in KeysIn(bs) : /\ p.bucket <= BucketOf(k)
                               /\ BucketOf(k) = p.bucket => p.entry <= Where(bs, k)}
<1>0. Size \in Nat /\ p.bucket \in 1 .. Size + 1
  BY EntryMapAssumption DEF Place
<1>1. ASSUME NEW k \in LeftIn(bs, p)
      PROVE  k \in KeysIn(bs) /\ p.bucket <= BucketOf(k) /\ (BucketOf(k) = p.bucket => p.entry <= Where(bs, k))
  <2>1. PICK b \in p.bucket .. Size : \E n \in DOMAIN bs[b] : bs[b][n][1] = k /\ (b = p.bucket => p.entry <= n)
    BY DEF LeftIn
  <2>2. PICK n \in DOMAIN bs[b] : bs[b][n][1] = k /\ (b = p.bucket => p.entry <= n)
    BY <2>1
  <2>3. b \in 1 .. Size /\ p.bucket <= b
    BY <1>0
  <2>4. k \in KeysIn(bs) /\ b = BucketOf(k) /\ n = Where(bs, k)
    BY <2>2, <2>3, FoundThere
  <2>. QED BY <2>2, <2>3, <2>4
<1>2. ASSUME NEW k \in KeysIn(bs), p.bucket <= BucketOf(k), BucketOf(k) = p.bucket => p.entry <= Where(bs, k)
      PROVE  k \in LeftIn(bs, p)
  <2>1. /\ k \in Keys /\ BucketOf(k) \in 1 .. Size /\ Where(bs, k) \in 1 .. Len(bs[BucketOf(k)])
        /\ bs[BucketOf(k)][Where(bs, k)] = <<k, ValueIn(bs, k)>>
    BY FoundOnce
  <2>2. BucketOf(k) \in p.bucket .. Size
    BY <1>0, <1>2, <2>1
  <2>3. Where(bs, k) \in DOMAIN bs[BucketOf(k)]
    BY <2>1 DEF Placed
  <2>4. bs[BucketOf(k)][Where(bs, k)][1] = k
    BY <2>1
  <2>. QED BY <1>2, <2>1, <2>2, <2>3, <2>4 DEF LeftIn
<1>. QED BY <1>1, <1>2

LEMMA KeysInFinite == ASSUME NEW bs PROVE IsFiniteSet(KeysIn(bs))
BY EntryMapAssumption, FS_Subset DEF KeysIn

----------------------------------------------------------------------------
(* What set, delete and clear do to the buckets.                           *)

\* The entry of k has another value.
ReplacedIn(bs, cs, k, v) ==
  /\ cs \in [1 .. Size -> Seq(Pairs)]
  /\ \A b \in 1 .. Size :
       /\ DOMAIN cs[b] = DOMAIN bs[b]
       /\ \A n \in DOMAIN bs[b] : cs[b][n] = IF b = BucketOf(k) /\ n = Where(bs, k) THEN <<k, v>> ELSE bs[b][n]

LEMMA ExceptReplaces ==
  ASSUME NEW bs, Placed(bs), NEW k \in KeysIn(bs), NEW v \in Values
  PROVE  ReplacedIn(bs, [bs EXCEPT ![BucketOf(k)][Where(bs, k)] = <<k, v>>], k, v)
<1>. DEFINE b0 == BucketOf(k)
            n0 == Where(bs, k)
            s1 == [bs[b0] EXCEPT ![n0] = <<k, v>>]
            cs == [bs EXCEPT ![b0] = s1]
<1>1. /\ k \in Keys /\ b0 \in 1 .. Size /\ bs \in [1 .. Size -> Seq(Pairs)] /\ bs[b0] \in Seq(Pairs)
      /\ n0 \in DOMAIN bs[b0]
  BY FoundOnce
<1>. HIDE DEF b0, n0
<1>2. <<k, v>> \in Pairs
  BY <1>1 DEF Pairs
<1>3. /\ s1 \in Seq(Pairs) /\ DOMAIN s1 = DOMAIN bs[b0]
      /\ \A n \in DOMAIN bs[b0] : s1[n] = IF n = n0 THEN <<k, v>> ELSE bs[b0][n]
  BY <1>1, <1>2
<1>. HIDE DEF s1
<1>4. cs \in [1 .. Size -> Seq(Pairs)] /\ cs[b0] = s1 /\ \A b \in 1 .. Size : b # b0 => cs[b] = bs[b]
  BY <1>1, <1>3
<1>. HIDE DEF cs
<1>5. ReplacedIn(bs, cs, k, v)
  BY <1>3, <1>4 DEF ReplacedIn, b0, n0
<1>. QED BY <1>5 DEF cs, s1, b0, n0

\* A key that is there has its value replaced.
LEMMA ValueSet ==
  ASSUME NEW bs, Placed(bs), NEW k \in KeysIn(bs), NEW v \in Values, NEW cs, ReplacedIn(bs, cs, k, v)
  PROVE  /\ Placed(cs) /\ KeysIn(cs) = KeysIn(bs)
         /\ \A x \in KeysIn(bs) : Where(cs, x) = Where(bs, x) /\ ValueIn(cs, x) = IF x = k THEN v ELSE ValueIn(bs, x)
<1>. DEFINE b0 == BucketOf(k)
            n0 == Where(bs, k)
<1>1. /\ b0 \in 1 .. Size /\ n0 \in DOMAIN bs[b0] /\ bs[b0][n0][1] = k
  BY FoundOnce
<1>. HIDE DEF b0, n0
<1>5. cs \in [1 .. Size -> Seq(Pairs)]
  BY DEF ReplacedIn
<1>6. ASSUME NEW b \in 1 .. Size
      PROVE  /\ DOMAIN cs[b] = DOMAIN bs[b]
             /\ \A n \in DOMAIN bs[b] : cs[b][n] = IF b = b0 /\ n = n0 THEN <<k, v>> ELSE bs[b][n]
  BY DEF ReplacedIn, b0, n0
<1>7. \A b \in 1 .. Size : \A n \in DOMAIN bs[b] : cs[b][n][1] = bs[b][n][1]
  BY <1>1, <1>6
<1>8. Placed(cs)
  BY <1>5, <1>6, <1>7 DEF Placed
<1>9. ASSUME NEW x \in Keys PROVE FoundIn(cs, x) = FoundIn(bs, x)
  BY <1>6, <1>7, BucketInRange DEF FoundIn
<1>10. KeysIn(cs) = KeysIn(bs)
  BY <1>9 DEF KeysIn
<1>11. ASSUME NEW x \in KeysIn(bs)
       PROVE  Where(cs, x) = Where(bs, x) /\ ValueIn(cs, x) = IF x = k THEN v ELSE ValueIn(bs, x)
  <2>1. x \in Keys /\ BucketOf(x) \in 1 .. Size /\ Where(bs, x) \in DOMAIN bs[BucketOf(x)]
        /\ bs[BucketOf(x)][Where(bs, x)][1] = x
    BY FoundOnce
  <2>2. Where(cs, x) = Where(bs, x)
    BY <1>9, <2>1 DEF Where
  <2>3. (BucketOf(x) = b0 /\ Where(bs, x) = n0) <=> x = k
    BY <1>1, <2>1 DEF b0, n0
  <2>4. cs[BucketOf(x)][Where(bs, x)] = IF x = k THEN <<k, v>> ELSE bs[BucketOf(x)][Where(bs, x)]
    BY <1>6, <2>1, <2>3
  <2>. QED BY <2>2, <2>4 DEF ValueIn
<1>. QED BY <1>8, <1>10, <1>11

\* An entry of k is put after the others of its bucket.
AddedTo(bs, cs, k, v) ==
  LET b0 == BucketOf(k)
      l0 == Len(bs[b0])
  IN  /\ cs \in [1 .. Size -> Seq(Pairs)]
      /\ DOMAIN cs[b0] = 1 .. l0 + 1 /\ cs[b0][l0 + 1] = <<k, v>>
      /\ \A n \in 1 .. l0 : cs[b0][n] = bs[b0][n]
      /\ \A b \in 1 .. Size : b # b0 => cs[b] = bs[b]

LEMMA AppendAdds ==
  ASSUME NEW bs, Placed(bs), NEW k \in Keys, NEW v \in Values
  PROVE  AddedTo(bs, [bs EXCEPT ![BucketOf(k)] = Append(@, <<k, v>>)], k, v)
<1>. DEFINE b0 == BucketOf(k)
            s0 == bs[b0]
            l0 == Len(s0)
            s1 == Append(s0, <<k, v>>)
            cs == [bs EXCEPT ![b0] = s1]
<1>1. b0 \in 1 .. Size /\ bs \in [1 .. Size -> Seq(Pairs)] /\ s0 \in Seq(Pairs)
  BY BucketInRange DEF Placed
<1>2. <<k, v>> \in Pairs
  BY DEF Pairs
<1>. HIDE DEF b0
<1>3. /\ s1 \in Seq(Pairs) /\ DOMAIN s1 = 1 .. l0 + 1
      /\ \A n \in 1 .. l0 : s1[n] = s0[n]
      /\ s1[l0 + 1] = <<k, v>>
  BY <1>1, <1>2
<1>. HIDE DEF s1
<1>4. cs \in [1 .. Size -> Seq(Pairs)] /\ cs[b0] = s1 /\ \A b \in 1 .. Size : b # b0 => cs[b] = bs[b]
  BY <1>1, <1>3
<1>. HIDE DEF cs, s0, l0
<1>5. /\ DOMAIN cs[b0] = 1 .. l0 + 1 /\ cs[b0][l0 + 1] = <<k, v>>
      /\ \A n \in 1 .. l0 : cs[b0][n] = s0[n]
  BY <1>3, <1>4
<1>. QED BY <1>4, <1>5 DEF AddedTo, b0, s0, l0, s1, cs

\* A key that is not there is put at the end of its bucket.
LEMMA KeyAdded ==
  ASSUME NEW bs, Placed(bs), NEW k \in Keys, k \notin KeysIn(bs), NEW v \in Values,
         NEW cs, AddedTo(bs, cs, k, v)
  PROVE  /\ Placed(cs) /\ KeysIn(cs) = KeysIn(bs) \cup {k}
         /\ Where(cs, k) = Len(bs[BucketOf(k)]) + 1 /\ ValueIn(cs, k) = v
         /\ \A x \in KeysIn(bs) : Where(cs, x) = Where(bs, x) /\ ValueIn(cs, x) = ValueIn(bs, x)
<1>. DEFINE b0 == BucketOf(k)
            l0 == Len(bs[b0])
<1>1. b0 \in 1 .. Size /\ bs \in [1 .. Size -> Seq(Pairs)] /\ bs[b0] \in Seq(Pairs) /\ l0 \in Nat
      /\ DOMAIN bs[b0] = 1 .. l0
  BY BucketInRange DEF Placed
<1>6. /\ cs \in [1 .. Size -> Seq(Pairs)]
      /\ DOMAIN cs[b0] = 1 .. l0 + 1 /\ cs[b0][l0 + 1] = <<k, v>>
      /\ \A n \in 1 .. l0 : cs[b0][n] = bs[b0][n]
      /\ \A b \in 1 .. Size : b # b0 => cs[b] = bs[b]
  BY DEF AddedTo
<1>. HIDE DEF b0, l0
<1>7. ASSUME NEW b \in 1 .. Size, NEW n \in DOMAIN bs[b]
      PROVE  n \in DOMAIN cs[b] /\ cs[b][n] = bs[b][n] /\ bs[b][n][1] # k
  <2>1. bs[b][n][1] # k
    BY FoundThere
  <2>. QED BY <1>1, <1>6, <2>1
<1>8. ASSUME NEW b \in 1 .. Size, NEW n \in DOMAIN cs[b]
      PROVE  \/ n \in DOMAIN bs[b]
             \/ b = b0 /\ n = l0 + 1 /\ cs[b][n] = <<k, v>>
  BY <1>1, <1>6
<1>9. Placed(cs)
  <2>1. ASSUME NEW b \in 1 .. Size, NEW n \in DOMAIN cs[b] PROVE BucketOf(cs[b][n][1]) = b
    BY <1>7, <1>8 DEF Placed, b0
  <2>2. ASSUME NEW b \in 1 .. Size, NEW m \in DOMAIN cs[b], NEW n \in DOMAIN cs[b], cs[b][m][1] = cs[b][n][1]
        PROVE  m = n
    <3>1. CASE m \in DOMAIN bs[b] /\ n \in DOMAIN bs[b]
      BY <1>7, <2>2, <3>1 DEF Placed
    <3>2. CASE m \in DOMAIN bs[b] /\ n \notin DOMAIN bs[b]
      BY <1>7, <1>8, <2>2, <3>2
    <3>3. CASE m \notin DOMAIN bs[b] /\ n \in DOMAIN bs[b]
      BY <1>7, <1>8, <2>2, <3>3
    <3>4. CASE m \notin DOMAIN bs[b] /\ n \notin DOMAIN bs[b]
      BY <1>8, <3>4
    <3>. QED BY <3>1, <3>2, <3>3, <3>4
  <2>. QED BY <1>6, <2>1, <2>2 DEF Placed
<1>10. ASSUME NEW x \in KeysIn(bs)
       PROVE  x \in KeysIn(cs) /\ Where(cs, x) = Where(bs, x) /\ ValueIn(cs, x) = ValueIn(bs, x)
  <2>1. /\ BucketOf(x) \in 1 .. Size /\ Where(bs, x) \in DOMAIN bs[BucketOf(x)]
        /\ bs[BucketOf(x)][Where(bs, x)] = <<x, ValueIn(bs, x)>>
    BY FoundOnce
  <2>2. Where(bs, x) \in DOMAIN cs[BucketOf(x)] /\ cs[BucketOf(x)][Where(bs, x)] = <<x, ValueIn(bs, x)>>
    BY <1>7, <2>1
  <2>3. cs[BucketOf(x)][Where(bs, x)][1] = x /\ cs[BucketOf(x)][Where(bs, x)][2] = ValueIn(bs, x)
    BY <2>2
  <2>. QED BY <1>9, <2>1, <2>2, <2>3, FoundThere
<1>11. k \in KeysIn(cs) /\ Where(cs, k) = l0 + 1 /\ ValueIn(cs, k) = v
  <2>1. l0 + 1 \in DOMAIN cs[b0] /\ cs[b0][l0 + 1][1] = k /\ cs[b0][l0 + 1][2] = v
    BY <1>1, <1>6
  <2>2. ASSUME NEW b \in 1 .. Size, NEW n \in DOMAIN cs[b], cs[b][n][1] = k
        PROVE  k \in KeysIn(cs) /\ n = Where(cs, k) /\ ValueIn(cs, k) = cs[b][n][2]
    BY <1>9, <2>2, FoundThere
  <2>. QED BY <1>1, <2>1, <2>2
<1>12. ASSUME NEW x \in KeysIn(cs) PROVE x \in KeysIn(bs) \cup {k}
  <2>1. /\ BucketOf(x) \in 1 .. Size /\ Where(cs, x) \in DOMAIN cs[BucketOf(x)]
        /\ cs[BucketOf(x)][Where(cs, x)][1] = x
    BY <1>9, FoundOnce
  <2>2. CASE Where(cs, x) \in DOMAIN bs[BucketOf(x)]
    <3>1. bs[BucketOf(x)][Where(cs, x)][1] = x
      BY <1>7, <2>1, <2>2
    <3>. QED BY <2>1, <2>2, <3>1, FoundThere
  <2>. QED BY <1>8, <2>1, <2>2
<1>13. KeysIn(cs) = KeysIn(bs) \cup {k}
  BY <1>10, <1>11, <1>12
<1>. QED BY <1>9, <1>10, <1>11, <1>13 DEF l0, b0

\* A bucket without its n-th entry.
LEMMA WithoutOne ==
  ASSUME NEW S, NEW s \in Seq(S), NEW n \in 1 .. Len(s)
  PROVE  /\ Without(s, n) \in Seq(S) /\ Len(s) \in Nat
         /\ DOMAIN Without(s, n) = 1 .. Len(s) - 1
         /\ \A i \in 1 .. Len(s) - 1 : Without(s, n)[i] = IF i < n THEN s[i] ELSE s[i + 1]
<1>. DEFINE l == SubSeq(s, 1, n - 1)
            r == SubSeq(s, n + 1, Len(s))
<1>1. /\ l \in Seq(S) /\ Len(l) = n - 1
      /\ \A i \in 1 .. n - 1 : l[i] = s[i]
  OBVIOUS
<1>2. /\ r \in Seq(S) /\ Len(r) = Len(s) - n
      /\ \A i \in 1 .. Len(s) - n : r[i] = s[i + n]
  OBVIOUS
<1>3. Without(s, n) = l \o r
  BY DEF Without
<1>. HIDE DEF l, r
<1>4. Len(s) \in Nat /\ n \in Nat /\ l \o r \in Seq(S) /\ Len(l \o r) = Len(s) - 1
  <2>1. Len(s) \in Nat /\ n \in Nat
    OBVIOUS
  <2>2. l \o r \in Seq(S) /\ Len(l \o r) = Len(l) + Len(r)
    BY <1>1, <1>2, ConcatProperties
  <2>. QED BY <1>1, <1>2, <2>1, <2>2
<1>5. DOMAIN (l \o r) = 1 .. Len(s) - 1
  BY <1>4
<1>6. ASSUME NEW i \in 1 .. Len(s) - 1
      PROVE  (l \o r)[i] = IF i < n THEN s[i] ELSE s[i + 1]
  <2>1. CASE i < n
    BY <1>1, <1>2, <2>1
  <2>2. CASE ~(i < n)
    <3>1. i - (n - 1) \in 1 .. Len(s) - n /\ i - (n - 1) + n = i + 1
      BY <1>4, <2>2
    <3>2. r[i - (n - 1)] = s[i + 1]
      BY <1>2, <3>1
    <3>3. (l \o r)[i] = r[i - (n - 1)]
      BY <1>1, <1>2, <1>4, <2>2, <3>1
    <3>. QED BY <2>2, <3>2, <3>3
  <2>. QED BY <2>1, <2>2
<1>. QED BY <1>3, <1>4, <1>5, <1>6

\* The n0-th entry of bucket b0 is taken out.
RemovedFrom(bs, cs, b0, n0) ==
  /\ cs \in [1 .. Size -> Seq(Pairs)]
  /\ DOMAIN cs[b0] = 1 .. Len(bs[b0]) - 1
  /\ \A n \in 1 .. Len(bs[b0]) - 1 : cs[b0][n] = IF n < n0 THEN bs[b0][n] ELSE bs[b0][n + 1]
  /\ \A b \in 1 .. Size : b # b0 => cs[b] = bs[b]

LEMMA WithoutRemoves ==
  ASSUME NEW bs, Placed(bs), NEW b0 \in 1 .. Size, NEW n0 \in 1 .. Len(bs[b0])
  PROVE  RemovedFrom(bs, [bs EXCEPT ![b0] = Without(@, n0)], b0, n0)
<1>. DEFINE s1 == Without(bs[b0], n0)
            cs == [bs EXCEPT ![b0] = s1]
<1>1. bs \in [1 .. Size -> Seq(Pairs)] /\ bs[b0] \in Seq(Pairs)
  BY DEF Placed
<1>2. /\ s1 \in Seq(Pairs) /\ DOMAIN s1 = 1 .. Len(bs[b0]) - 1
      /\ \A n \in 1 .. Len(bs[b0]) - 1 : s1[n] = IF n < n0 THEN bs[b0][n] ELSE bs[b0][n + 1]
  BY <1>1, WithoutOne
<1>. HIDE DEF s1
<1>3. cs \in [1 .. Size -> Seq(Pairs)] /\ cs[b0] = s1 /\ \A b \in 1 .. Size : b # b0 => cs[b] = bs[b]
  BY <1>1, <1>2
<1>. HIDE DEF cs
<1>4. RemovedFrom(bs, cs, b0, n0)
  BY <1>2, <1>3 DEF RemovedFrom
<1>. QED BY <1>4 DEF cs, s1

\* A key is taken out, and the keys after it in its bucket are one place nearer.
LEMMA KeyDeleted ==
  ASSUME NEW bs, Placed(bs), NEW k \in KeysIn(bs), NEW cs, RemovedFrom(bs, cs, BucketOf(k), Where(bs, k))
  PROVE  /\ Placed(cs) /\ KeysIn(cs) = KeysIn(bs) \ {k}
         /\ \A x \in KeysIn(cs) :
              /\ ValueIn(cs, x) = ValueIn(bs, x)
              /\ Where(cs, x) = IF BucketOf(x) = BucketOf(k) /\ Where(bs, k) < Where(bs, x)
                                THEN Where(bs, x) - 1 ELSE Where(bs, x)
<1>. DEFINE b0 == BucketOf(k)
            n0 == Where(bs, k)
            l0 == Len(bs[b0])
            Old(b, n) == IF b = b0 /\ n0 <= n THEN n + 1 ELSE n
            New(b, n) == IF b = b0 /\ n0 < n THEN n - 1 ELSE n
<1>1. /\ b0 \in 1 .. Size /\ bs \in [1 .. Size -> Seq(Pairs)] /\ bs[b0] \in Seq(Pairs) /\ l0 \in Nat
      /\ DOMAIN bs[b0] = 1 .. l0 /\ n0 \in 1 .. l0 /\ bs[b0][n0][1] = k
  BY FoundOnce
<1>2. /\ cs \in [1 .. Size -> Seq(Pairs)]
      /\ DOMAIN cs[b0] = 1 .. l0 - 1
      /\ \A n \in 1 .. l0 - 1 : cs[b0][n] = IF n < n0 THEN bs[b0][n] ELSE bs[b0][n + 1]
      /\ \A b \in 1 .. Size : b # b0 => cs[b] = bs[b]
  BY DEF RemovedFrom
<1>. HIDE DEF b0, n0, l0
<1>3. ASSUME NEW b \in 1 .. Size, NEW n \in DOMAIN cs[b]
      PROVE  /\ n \in Int /\ Old(b, n) \in DOMAIN bs[b] /\ cs[b][n] = bs[b][Old(b, n)]
             /\ b = b0 => Old(b, n) # n0
  <2>1. CASE b = b0
    BY <1>1, <1>2, <2>1
  <2>2. CASE b # b0
    <3>1. cs[b] = bs[b] /\ cs[b] \in Seq(Pairs)
      BY <1>2, <2>2
    <3>. QED BY <2>2, <3>1
  <2>. QED BY <2>1, <2>2
<1>4. ASSUME NEW b \in 1 .. Size, NEW n \in DOMAIN bs[b], b = b0 => n # n0
      PROVE  New(b, n) \in DOMAIN cs[b] /\ cs[b][New(b, n)] = bs[b][n]
  <2>1. CASE b = b0
    BY <1>1, <1>2, <1>4, <2>1
  <2>2. CASE b # b0
    BY <1>2, <2>2
  <2>. QED BY <2>1, <2>2
<1>5. ASSUME NEW b \in 1 .. Size, NEW n \in DOMAIN cs[b]
      PROVE  cs[b][n][1] = bs[b][Old(b, n)][1] /\ cs[b][n][1] # k /\ BucketOf(cs[b][n][1]) = b
  <2>. DEFINE o == Old(b, n)
  <2>1. o \in DOMAIN bs[b] /\ cs[b][n] = bs[b][o] /\ (b = b0 => o # n0)
    BY <1>3
  <2>. HIDE DEF o
  <2>2. bs[b][o][1] # k
    BY <2>1, FoundThere DEF b0, n0
  <2>3. BucketOf(bs[b][o][1]) = b
    BY <2>1 DEF Placed
  <2>. QED BY <2>1, <2>2, <2>3 DEF o
<1>6. Placed(cs)
  <2>1. ASSUME NEW b \in 1 .. Size, NEW m \in DOMAIN cs[b], NEW n \in DOMAIN cs[b], cs[b][m][1] = cs[b][n][1]
        PROVE  m = n
    <3>1. Old(b, m) \in DOMAIN bs[b] /\ Old(b, n) \in DOMAIN bs[b] /\ bs[b][Old(b, m)][1] = bs[b][Old(b, n)][1]
      BY <1>3, <1>5, <2>1
    <3>2. Old(b, m) = Old(b, n)
      BY <3>1 DEF Placed
    <3>. QED BY <1>1, <1>3, <3>2
  <2>. QED BY <1>2, <1>5, <2>1 DEF Placed
<1>7. ASSUME NEW x \in KeysIn(bs), x # k
      PROVE  x \in KeysIn(cs) /\ ValueIn(cs, x) = ValueIn(bs, x) /\ Where(cs, x) = New(BucketOf(x), Where(bs, x))
  <2>. DEFINE b == BucketOf(x)
              n == Where(bs, x)
  <2>1. b \in 1 .. Size /\ n \in DOMAIN bs[b] /\ bs[b][n] = <<x, ValueIn(bs, x)>>
    BY FoundOnce
  <2>. HIDE DEF b, n
  <2>2. b = b0 => n # n0
    BY <1>1, <1>7, <2>1
  <2>. DEFINE n1 == New(b, n)
  <2>3. n1 \in DOMAIN cs[b] /\ cs[b][n1] = <<x, ValueIn(bs, x)>>
    BY <1>4, <2>1, <2>2
  <2>. HIDE DEF n1
  <2>4. cs[b][n1][1] = x /\ cs[b][n1][2] = ValueIn(bs, x)
    BY <2>3
  <2>5. x \in KeysIn(cs) /\ n1 = Where(cs, x) /\ ValueIn(cs, x) = cs[b][n1][2]
    BY <1>6, <2>1, <2>3, <2>4, FoundThere
  <2>. QED BY <2>4, <2>5 DEF n1, n, b
<1>8. ASSUME NEW x \in KeysIn(cs) PROVE x \in KeysIn(bs) \ {k}
  <2>. DEFINE b == BucketOf(x)
              n == Where(cs, x)
  <2>1. b \in 1 .. Size /\ n \in DOMAIN cs[b] /\ cs[b][n][1] = x
    BY <1>6, FoundOnce
  <2>. HIDE DEF b, n
  <2>. DEFINE o == Old(b, n)
  <2>2. o \in DOMAIN bs[b] /\ bs[b][o][1] = x /\ x # k
    BY <1>3, <1>5, <2>1
  <2>. HIDE DEF o
  <2>. QED BY <2>1, <2>2, FoundThere
<1>9. KeysIn(cs) = KeysIn(bs) \ {k}
  BY <1>7, <1>8
<1>. QED BY <1>6, <1>7, <1>9 DEF b0, n0

LEMMA NothingPlaced ==
  ASSUME NEW bs, bs = [b \in 1 .. Size |-> <<>>]
  PROVE  Placed(bs) /\ KeysIn(bs) = {}
<1>1. \A b \in 1 .. Size : bs[b] = <<>> /\ DOMAIN bs[b] = {}
  OBVIOUS
<1>2. bs \in [1 .. Size -> Seq(Pairs)]
  OBVIOUS
<1>. QED BY <1>1, <1>2, BucketInRange DEF Placed, KeysIn, FoundIn

----------------------------------------------------------------------------
(* What is left for an iterator when the map changes and when it moves on. *)

LEMMA LeftAtStart ==
  ASSUME NEW bs, Placed(bs)
  PROVE  Start \in Place /\ LeftIn(bs, Start) = KeysIn(bs)
<1>1. Start.bucket = 1 /\ Start.entry = 1 /\ Start \in Place
  BY EntryMapAssumption DEF Start, Place
<1>2. ASSUME NEW k \in KeysIn(bs) PROVE 1 <= BucketOf(k) /\ 1 <= Where(bs, k)
  BY FoundOnce
<1>3. LeftIn(bs, Start) = {k \in KeysIn(bs) : /\ Start.bucket <= BucketOf(k)
                                              /\ BucketOf(k) = Start.bucket => Start.entry <= Where(bs, k)}
  BY <1>1, LeftIs
<1>. QED BY <1>1, <1>2, <1>3

\* A new key is left for an iterator that is not past the end of its bucket.
LEMMA LeftAdded ==
  ASSUME NEW bs, Placed(bs), NEW cs, Placed(cs), NEW k, KeysIn(cs) = KeysIn(bs) \cup {k}, k \notin KeysIn(bs),
         \A x \in KeysIn(bs) : Where(cs, x) = Where(bs, x), NEW p \in Place
  PROVE  LeftIn(cs, p) = IF k \in LeftIn(cs, p) THEN LeftIn(bs, p) \cup {k} ELSE LeftIn(bs, p)
BY LeftIs

\* A deleted key is the only one that is not left any more, unless it has the
\* next one skipped.
LEMMA LeftDeleted ==
  ASSUME NEW bs, Placed(bs), NEW k \in KeysIn(bs), NEW cs, Placed(cs), KeysIn(cs) = KeysIn(bs) \ {k},
         \A x \in KeysIn(cs) : Where(cs, x) = IF BucketOf(x) = BucketOf(k) /\ Where(bs, k) < Where(bs, x)
                                              THEN Where(bs, x) - 1 ELSE Where(bs, x),
         NEW p \in Place,
         ~(p.bucket = BucketOf(k) /\ Where(bs, k) < p.entry /\ p.entry <= Len(bs[BucketOf(k)]))
  PROVE  LeftIn(cs, p) = LeftIn(bs, p) \ {k}
<1>. DEFINE LeftOf(ds) == {x \in KeysIn(ds) : /\ p.bucket <= BucketOf(x)
                                              /\ BucketOf(x) = p.bucket => p.entry <= Where(ds, x)}
<1>1. LeftIn(bs, p) = LeftOf(bs) /\ LeftIn(cs, p) = LeftOf(cs)
  BY LeftIs
<1>2. p.bucket \in Int /\ p.entry \in Int
  BY EntryMapAssumption DEF Place
<1>3. ASSUME NEW x \in KeysIn(bs)
      PROVE  /\ BucketOf(x) \in Int /\ Where(bs, x) \in Int
             /\ Where(bs, x) <= Len(bs[BucketOf(x)]) /\ Len(bs[BucketOf(x)]) \in Int
  BY FoundOnce
<1>4. ASSUME NEW x \in KeysIn(bs), x # k, BucketOf(x) = BucketOf(k) PROVE Where(bs, x) # Where(bs, k)
  <2>1. bs[BucketOf(x)][Where(bs, x)][1] = x /\ bs[BucketOf(k)][Where(bs, k)][1] = k
    BY FoundOnce
  <2>. QED BY <1>4, <2>1
<1>5. ASSUME NEW x \in KeysIn(bs), x # k
      PROVE  (BucketOf(x) = p.bucket => p.entry <= Where(cs, x)) <=> (BucketOf(x) = p.bucket => p.entry <= Where(bs, x))
  <2>1. x \in KeysIn(cs)
    BY <1>5
  <2>2. CASE BucketOf(x) = BucketOf(k) /\ Where(bs, k) < Where(bs, x) /\ BucketOf(x) = p.bucket
    <3>1. Where(cs, x) = Where(bs, x) - 1
      BY <2>1, <2>2
    <3>2. p.entry <= Where(bs, k) \/ Len(bs[BucketOf(x)]) < p.entry
      BY <1>2, <1>3, <2>2
    <3>. QED BY <1>2, <1>3, <2>2, <3>1, <3>2
  <2>3. CASE ~(BucketOf(x) = BucketOf(k) /\ Where(bs, k) < Where(bs, x))
    <3>1. Where(cs, x) = Where(bs, x)
      BY <2>1, <2>3
    <3>. QED BY <3>1
  <2>. QED BY <2>2, <2>3
<1>6. LeftOf(cs) = LeftOf(bs) \ {k}
  BY <1>5
<1>. QED BY <1>1, <1>6

\* An iterator moves past one key.
LEMMA LeftAfter ==
  ASSUME NEW bs, Placed(bs), NEW p \in Place, NEW k \in KeysIn(bs), BucketOf(k) = p.bucket, Where(bs, k) = p.entry,
         NEW q \in Place, q.bucket = p.bucket, q.entry = p.entry + 1
  PROVE  k \in LeftIn(bs, p) /\ LeftIn(bs, q) = LeftIn(bs, p) \ {k}
<1>1. p.bucket \in Int /\ p.entry \in Int
  BY EntryMapAssumption DEF Place
<1>2. ASSUME NEW x \in KeysIn(bs)
      PROVE  /\ BucketOf(x) \in Int /\ Where(bs, x) \in Int
             /\ BucketOf(x) = BucketOf(k) /\ Where(bs, x) = Where(bs, k) => x = k
  <2>1. bs[BucketOf(x)][Where(bs, x)][1] = x /\ bs[BucketOf(k)][Where(bs, k)][1] = k
        /\ BucketOf(x) \in Int /\ Where(bs, x) \in Int
    BY FoundOnce
  <2>. QED BY <2>1
<1>3. LeftIn(bs, p) = {x \in KeysIn(bs) : p.bucket <= BucketOf(x) /\ (BucketOf(x) = p.bucket => p.entry <= Where(bs, x))}
  BY LeftIs
<1>4. LeftIn(bs, q) = {x \in KeysIn(bs) : q.bucket <= BucketOf(x) /\ (BucketOf(x) = q.bucket => q.entry <= Where(bs, x))}
  BY LeftIs
<1>. QED BY <1>1, <1>2, <1>3, <1>4

----------------------------------------------------------------------------
(* The map as a Dictionary, step by step.                                  *)

MapInv ==
  /\ Placed(buckets)
  /\ size = Cardinality(KeysIn(buckets))
  /\ places \in [Iterators -> Place]

\* The Dictionary of given buckets, and what is left of it at given places.
Dict(bs) == [k \in KeysIn(bs) |-> ValueIn(bs, k)]

Lefts(bs, ps) == [i \in Iterators |-> LeftIn(bs, ps[i])]

\* One instance of each key, and no iteration that skips an entry.
Plain == Same = {<<k, k>> : k \in Keys} /\ ~SkipsSome

LEMMA FoundIs == ASSUME NEW k PROVE Found(k) = FoundIn(buckets, k) /\ (k \in Keys => (Found(k) # {} <=> k \in KeysIn(buckets)))
BY DEF Found, FoundIn, KeysIn

LEMMA Mapped ==
  /\ [k \in {x \in Keys : Found(x) # {}} |-> Entry(k)[2]] = Dict(buckets)
  /\ [i \in Iterators |-> LeftFor(i)] = Lefts(buckets, places)
<1>1. {x \in Keys : Found(x) # {}} = KeysIn(buckets)
  BY DEF KeysIn, Found, FoundIn
<1>2. \A k : Entry(k)[2] = ValueIn(buckets, k)
  BY DEF Entry, ValueIn, Where, Found, FoundIn
<1>3. \A i \in Iterators : LeftFor(i) = LeftIn(buckets, places[i])
  BY DEF LeftFor, LeftIn
<1>. QED BY <1>1, <1>2, <1>3 DEF Dict, Lefts

\* A key is then stored under itself.
LEMMA StoredIs ==
  ASSUME Plain, NEW k \in Keys
  PROVE  Abstract!Stored(k) = KeysIn(buckets) \cap {k} /\ Abstract!Target(k) = {k}
<1>1. Abstract!Stored(k) = KeysIn(buckets) \cap {k}
  <2>1. Abstract!Stored(k) = {x \in DOMAIN Dict(buckets) : <<x, k>> \in Same}
    BY Mapped DEF Abstract!Stored
  <2>2. DOMAIN Dict(buckets) = KeysIn(buckets)
    BY DEF Dict
  <2>3. ASSUME NEW x \in KeysIn(buckets) PROVE <<x, k>> \in Same <=> x = k
    BY DEF KeysIn, Plain
  <2>. QED BY <2>1, <2>2, <2>3
<1>. QED BY <1>1 DEF Abstract!Target

LEMMA MappedNext ==
  /\ [k \in {x \in Keys : Found(x) # {}} |-> Entry(k)[2]]' = Dict(buckets')
  /\ [i \in Iterators |-> LeftFor(i)]' = Lefts(buckets', places')
<1>1. {x \in Keys : Found(x) # {}}' = KeysIn(buckets')
  BY DEF KeysIn, Found, FoundIn
<1>2. \A k : (Entry(k)[2])' = ValueIn(buckets', k)
  BY DEF Entry, ValueIn, Where, Found, FoundIn
<1>3. \A i \in Iterators : LeftFor(i)' = LeftIn(buckets', places'[i])
  BY DEF LeftFor, LeftIn
<1>. QED BY <1>1, <1>2, <1>3 DEF Dict, Lefts

LEMMA InitMapInv == ASSUME Init PROVE MapInv /\ Abstract!Init
<1>1. Placed(buckets) /\ KeysIn(buckets) = {}
  BY NothingPlaced DEF Init
<1>2. size = Cardinality(KeysIn(buckets))
  BY <1>1, FS_EmptySet DEF Init
<1>3. places \in [Iterators -> Place] /\ \A i \in Iterators : places[i] = Start
  BY <1>1, LeftAtStart DEF Init
<1>4. Dict(buckets) = [k \in {} |-> Missing] /\ Lefts(buckets, places) = [i \in Iterators |-> {}]
  BY <1>1, <1>3, LeftAtStart DEF Dict, Lefts
<1>. QED BY <1>1, <1>2, <1>3, <1>4, Mapped DEF MapInv, Abstract!Init, Init, Abstract!Missing, Missing

\* What the Dictionary's Set asks for, of the buckets.
LEMMA SetIs ==
  ASSUME Plain, NEW k \in Keys, NEW v, answer' = <<"map">>,
         Dict(buckets') = [x \in KeysIn(buckets) \cup {k} |-> IF x \in {k} THEN v ELSE Dict(buckets)[x]],
         NEW late \in SUBSET Iterators, KeysIn(buckets) \cap {k} # {} => late = {},
         Lefts(buckets', places') = [i \in Iterators |-> IF i \in late THEN Lefts(buckets, places)[i] \cup {k}
                                                         ELSE Lefts(buckets, places)[i]]
  PROVE  Abstract!Set(k, v)
<1>. DEFINE d == [x \in {y \in Keys : Found(y) # {}} |-> Entry(x)[2]]
            l == [i \in Iterators |-> LeftFor(i)]
<1>1. /\ d = Dict(buckets) /\ l = Lefts(buckets, places)
      /\ d' = Dict(buckets') /\ l' = Lefts(buckets', places')
  BY Mapped, MappedNext
<1>2. Abstract!Stored(k) = KeysIn(buckets) \cap {k} /\ Abstract!Target(k) = {k}
  BY StoredIs
<1>3. d' = [x \in DOMAIN d \cup Abstract!Target(k) |-> IF x \in Abstract!Target(k) THEN v ELSE d[x]]
  <2>1. DOMAIN Dict(buckets) = KeysIn(buckets)
    BY DEF Dict
  <2>. HIDE DEF d, l
  <2>. QED BY <1>1, <1>2, <2>1
<1>4. /\ Abstract!Stored(k) # {} => late = {}
      /\ l' = [i \in Iterators |-> IF i \in late THEN l[i] \cup {k} ELSE l[i]]
  <2>. HIDE DEF d, l
  <2>. QED BY <1>1, <1>2
<1>. QED BY <1>3, <1>4, Zenon DEF Abstract!Set

LEMMA SetStep ==
  ASSUME MapInv, NEW k \in Keys, NEW v \in Values, Set(k, v)
  PROVE  MapInv' /\ (Plain => Abstract!Set(k, v))
<1>. DEFINE bs == buckets
            cs == buckets'
            d == Dict(bs)
<1>1. Placed(bs) /\ size = Cardinality(KeysIn(bs)) /\ places \in [Iterators -> Place]
  BY DEF MapInv
<1>2. answer' = <<"map">> /\ places' = places
  BY DEF Set
<1>3. DOMAIN d = KeysIn(bs) /\ \A x \in KeysIn(bs) : d[x] = ValueIn(bs, x)
  BY DEF Dict
<1>4. CASE k \in KeysIn(bs)
  <2>1. cs = [bs EXCEPT ![BucketOf(k)][Where(bs, k)] = <<k, v>>] /\ size' = size
    BY <1>4, FoundIs DEF Set, Where
  <2>2. /\ Placed(cs) /\ KeysIn(cs) = KeysIn(bs)
        /\ \A x \in KeysIn(bs) : Where(cs, x) = Where(bs, x) /\ ValueIn(cs, x) = IF x = k THEN v ELSE ValueIn(bs, x)
    <3>1. ReplacedIn(bs, cs, k, v)
      BY <1>1, <1>4, <2>1, ExceptReplaces
    <3>. HIDE DEF bs, cs
    <3>. QED BY <1>1, <1>4, <3>1, ValueSet
  <2>. HIDE DEF bs, cs
  <2>3. Dict(cs) = [x \in KeysIn(bs) \cup {k} |-> IF x \in {k} THEN v ELSE d[x]]
    BY <1>3, <1>4, <2>2 DEF Dict
  <2>4. ASSUME NEW i \in Iterators PROVE LeftIn(cs, places'[i]) = LeftIn(bs, places[i])
    <3>1. places[i] \in Place
      BY <1>1
    <3>2. LeftIn(bs, places[i]) = {x \in KeysIn(bs) : /\ places[i].bucket <= BucketOf(x)
                                                      /\ BucketOf(x) = places[i].bucket => places[i].entry <= Where(bs, x)}
      BY <1>1, <3>1, LeftIs
    <3>3. LeftIn(cs, places[i]) = {x \in KeysIn(cs) : /\ places[i].bucket <= BucketOf(x)
                                                      /\ BucketOf(x) = places[i].bucket => places[i].entry <= Where(cs, x)}
      BY <2>2, <3>1, LeftIs
    <3>. QED BY <1>2, <2>2, <3>2, <3>3
  <2>. DEFINE late == {}
  <2>5. /\ late \in SUBSET Iterators /\ (KeysIn(bs) \cap {k} # {} => late = {})
        /\ \A i \in Iterators : i \notin late
    OBVIOUS
  <2>. HIDE DEF late
  <2>6. MapInv'
    BY <1>1, <1>2, <2>1, <2>2 DEF MapInv, cs
  <2>7. Lefts(cs, places') = [i \in Iterators |-> IF i \in late THEN Lefts(bs, places)[i] \cup {k} ELSE Lefts(bs, places)[i]]
    BY <2>4, <2>5 DEF Lefts
  <2>8. Plain => Abstract!Set(k, v)
    BY <1>2, <2>3, <2>5, <2>7, SetIs DEF bs, cs
  <2>. QED BY <2>6, <2>8
<1>5. CASE k \notin KeysIn(bs)
  <2>1. cs = [bs EXCEPT ![BucketOf(k)] = Append(@, <<k, v>>)] /\ size' = size + 1
    BY <1>5, FoundIs DEF Set
  <2>2. AddedTo(bs, cs, k, v)
    BY <1>1, <2>1, AppendAdds
  <2>3. /\ Placed(cs) /\ KeysIn(cs) = KeysIn(bs) \cup {k} /\ ValueIn(cs, k) = v
        /\ \A x \in KeysIn(bs) : Where(cs, x) = Where(bs, x) /\ ValueIn(cs, x) = ValueIn(bs, x)
    BY <1>1, <1>5, <2>2, KeyAdded
  <2>. HIDE DEF bs, cs
  <2>4. Dict(cs) = [x \in KeysIn(bs) \cup {k} |-> IF x \in {k} THEN v ELSE d[x]]
    BY <1>3, <1>5, <2>3 DEF Dict
  <2>. DEFINE late == {i \in Iterators : k \in LeftIn(cs, places[i])}
  <2>5. ASSUME NEW i \in Iterators
        PROVE  LeftIn(cs, places'[i]) = IF i \in late THEN LeftIn(bs, places[i]) \cup {k} ELSE LeftIn(bs, places[i])
    <3>1. places[i] \in Place
      BY <1>1
    <3>2. LeftIn(cs, places[i]) = IF k \in LeftIn(cs, places[i]) THEN LeftIn(bs, places[i]) \cup {k} ELSE LeftIn(bs, places[i])
      BY <1>1, <1>5, <2>3, <3>1, LeftAdded
    <3>. QED BY <1>2, <3>2
  <2>. HIDE DEF late
  <2>6. Lefts(cs, places') = [i \in Iterators |-> IF i \in late THEN Lefts(bs, places)[i] \cup {k} ELSE Lefts(bs, places)[i]]
    BY <2>5 DEF Lefts
  <2>7. size' = Cardinality(KeysIn(cs))
    BY <1>1, <1>5, <2>1, <2>3, KeysInFinite, FS_AddElement
  <2>8. MapInv'
    BY <1>1, <1>2, <2>3, <2>7 DEF MapInv, cs
  <2>9. late \in SUBSET Iterators /\ (KeysIn(bs) \cap {k} # {} => late = {})
    BY <1>3, <1>5 DEF late
  <2>10. Plain => Abstract!Set(k, v)
    BY <1>2, <2>4, <2>6, <2>9, SetIs DEF bs, cs
  <2>. QED BY <2>8, <2>10
<1>. QED BY <1>4, <1>5

LEMMA DeleteStep ==
  ASSUME MapInv, NEW k \in Keys, Delete(k)
  PROVE  MapInv' /\ (Plain => Abstract!Delete(k))
<1>. DEFINE bs == buckets
            cs == buckets'
            d == Dict(bs)
<1>1. Placed(bs) /\ size = Cardinality(KeysIn(bs)) /\ places \in [Iterators -> Place]
  BY DEF MapInv
<1>2. answer' = <<"boolean", k \in KeysIn(bs)>> /\ places' = places
  BY FoundIs DEF Delete
<1>3. DOMAIN d = KeysIn(bs) /\ \A x \in KeysIn(bs) : d[x] = ValueIn(bs, x)
  BY DEF Dict
<1>4. CASE k \notin KeysIn(bs)
  <2>1. cs = bs /\ size' = size
    BY <1>4, FoundIs DEF Delete
  <2>2. MapInv'
    BY <1>1, <1>2, <2>1 DEF MapInv
  <2>3. KeysIn(bs) \cap {k} = {}
    BY <1>4
  <2>4. Dict(cs) = [x \in KeysIn(bs) \ {} |-> d[x]]
    BY <1>3, <2>1 DEF Dict
  <2>5. Lefts(cs, places') = [i \in Iterators |-> Lefts(bs, places)[i] \ {}]
    BY <1>2, <2>1 DEF Lefts
  <2>6. Plain => Abstract!Delete(k)
    BY <1>2, <1>3, <1>4, <2>3, <2>4, <2>5, StoredIs, Mapped, MappedNext DEF Abstract!Delete
  <2>. QED BY <2>2, <2>6
<1>5. CASE k \in KeysIn(bs)
  <2>1. cs = [bs EXCEPT ![BucketOf(k)] = Without(@, Where(bs, k))] /\ size' = size - 1
    BY <1>5, FoundIs DEF Delete, Where
  <2>2. RemovedFrom(bs, cs, BucketOf(k), Where(bs, k))
    BY <1>1, <1>5, <2>1, FoundOnce, WithoutRemoves
  <2>3. /\ Placed(cs) /\ KeysIn(cs) = KeysIn(bs) \ {k}
        /\ \A x \in KeysIn(cs) :
             /\ ValueIn(cs, x) = ValueIn(bs, x)
             /\ Where(cs, x) = IF BucketOf(x) = BucketOf(k) /\ Where(bs, k) < Where(bs, x)
                               THEN Where(bs, x) - 1 ELSE Where(bs, x)
    BY <1>1, <1>5, <2>2, KeyDeleted
  <2>. HIDE DEF bs, cs
  <2>4. Dict(cs) = [x \in KeysIn(bs) \ {k} |-> d[x]]
    BY <1>3, <2>3 DEF Dict
  <2>5. KeysIn(bs) \cap {k} = {k}
    BY <1>5
  <2>6. ASSUME Plain, NEW i \in Iterators
        PROVE  LeftIn(cs, places'[i]) = LeftIn(bs, places[i]) \ {k}
    <3>1. places[i] \in Place
      BY <1>1
    <3>2. ~Skips(i, k)
      BY <2>6 DEF Delete, MayDelete, Plain
    <3>3. ~(places[i].bucket = BucketOf(k) /\ Where(bs, k) < places[i].entry /\ places[i].entry <= Len(bs[BucketOf(k)]))
      BY <1>5, <3>2, FoundIs DEF Skips, Where, bs
    <3>4. LeftIn(cs, places[i]) = LeftIn(bs, places[i]) \ {k}
      BY <1>1, <1>5, <2>3, <3>1, <3>3, LeftDeleted
    <3>. QED BY <1>2, <3>4
  <2>7. size' = Cardinality(KeysIn(cs))
    BY <1>1, <1>5, <2>1, <2>3, KeysInFinite, FS_RemoveElement
  <2>8. MapInv'
    BY <1>1, <1>2, <2>3, <2>7 DEF MapInv, cs
  <2>9. Plain => Lefts(cs, places') = [i \in Iterators |-> Lefts(bs, places)[i] \ {k}]
    BY <2>6 DEF Lefts
  <2>10. Plain => Abstract!Delete(k)
    BY <1>2, <1>3, <1>5, <2>4, <2>5, <2>9, StoredIs, Mapped, MappedNext DEF Abstract!Delete, bs, cs
  <2>. QED BY <2>8, <2>10
<1>. QED BY <1>4, <1>5

LEMMA ClearStep ==
  ASSUME MapInv, Clear
  PROVE  MapInv' /\ Abstract!Clear
<1>1. Placed(buckets') /\ KeysIn(buckets') = {} /\ places' = places /\ places \in [Iterators -> Place]
  BY NothingPlaced DEF Clear, MapInv
<1>2. size' = Cardinality(KeysIn(buckets'))
  BY <1>1, FS_EmptySet DEF Clear
<1>3. Dict(buckets') = [k \in {} |-> Missing]
  BY <1>1 DEF Dict
<1>4. ASSUME NEW i \in Iterators PROVE LeftIn(buckets', places'[i]) = {}
  <2>1. places'[i] \in Place
    BY <1>1
  <2>2. LeftIn(buckets', places'[i]) \subseteq KeysIn(buckets')
    BY <1>1, <2>1, LeftIs
  <2>. QED BY <1>1, <2>2
<1>5. Lefts(buckets', places') = [i \in Iterators |-> {}]
  BY <1>4 DEF Lefts
<1>. QED BY <1>1, <1>2, <1>3, <1>5, MappedNext DEF MapInv, Clear, Abstract!Clear, Abstract!Missing, Missing

LEMMA IterateStep ==
  ASSUME MapInv, NEW i \in Iterators, Iterate(i)
  PROVE  MapInv' /\ Abstract!Iterate(i)
<1>1. /\ Placed(buckets) /\ places \in [Iterators -> Place] /\ buckets' = buckets /\ size' = size
      /\ answer' = <<"iterator">> /\ places' = [places EXCEPT ![i] = Start]
  BY DEF Iterate, MapInv
<1>2. Start \in Place /\ LeftIn(buckets, Start) = KeysIn(buckets)
  BY <1>1, LeftAtStart
<1>3. MapInv'
  BY <1>1, <1>2 DEF MapInv
<1>4. Lefts(buckets', places') = [Lefts(buckets, places) EXCEPT ![i] = DOMAIN Dict(buckets)]
  BY <1>1, <1>2 DEF Lefts, Dict
<1>5. Dict(buckets') = Dict(buckets)
  BY <1>1
<1>. QED BY <1>1, <1>3, <1>4, <1>5, Mapped, MappedNext DEF Abstract!Iterate

\* The next key of an iterator is in the first bucket that has one for it.
LEMMA YieldStep ==
  ASSUME MapInv, NEW i \in Iterators, Yield(i)
  PROVE  MapInv' /\ Abstract!Yield(i)
<1>. DEFINE p0 == places[i]
            n0 == Size + 1
            gone == [bucket |-> n0, entry |-> 1]
<1>1. /\ Placed(buckets) /\ places \in [Iterators -> Place] /\ buckets' = buckets /\ size' = size
      /\ buckets \in [1 .. Size -> Seq(Pairs)]
  BY DEF Yield, MapInv, Placed
<1>2. Size \in Nat \ {0} /\ p0 \in Place /\ p0.bucket \in 1 .. n0 /\ p0.entry \in Nat \ {0}
  BY <1>1, EntryMapAssumption DEF Place
<1>3. Dict(buckets') = Dict(buckets)
  BY <1>1
<1>4. ASSUME NEW k \in KeysIn(buckets)
      PROVE  /\ BucketOf(k) \in 1 .. Size /\ Where(buckets, k) \in 1 .. Len(buckets[BucketOf(k)])
             /\ Len(buckets[BucketOf(k)]) \in Nat /\ buckets[BucketOf(k)] # <<>>
  <2>1. /\ BucketOf(k) \in 1 .. Size /\ Where(buckets, k) \in 1 .. Len(buckets[BucketOf(k)])
        /\ Len(buckets[BucketOf(k)]) \in Nat
    BY <1>1, FoundOnce
  <2>. QED BY <2>1
<1>5. LeftIn(buckets, p0) = {k \in KeysIn(buckets) : /\ p0.bucket <= BucketOf(k)
                                                     /\ BucketOf(k) = p0.bucket => p0.entry <= Where(buckets, k)}
  BY <1>1, <1>2, LeftIs
<1>. HIDE DEF p0
<1>6. ASSUME NEW k \in LeftIn(buckets, p0) PROVE BucketOf(k) \in Ahead(i)
  <2>1. k \in KeysIn(buckets) /\ p0.bucket <= BucketOf(k) /\ (BucketOf(k) = p0.bucket => p0.entry <= Where(buckets, k))
    BY <1>5
  <2>2. BucketOf(k) \in p0.bucket .. Size
    BY <1>2, <1>4, <2>1
  <2>3. IF BucketOf(k) = p0.bucket THEN p0.entry <= Len(buckets[BucketOf(k)]) ELSE buckets[BucketOf(k)] # <<>>
    BY <1>2, <1>4, <2>1
  <2>. QED BY <2>2, <2>3 DEF Ahead, p0
<1>7. CASE Ahead(i) = {}
  <2>1. answer' = <<"done">> /\ places' = [places EXCEPT ![i] = gone]
    BY <1>7 DEF Yield
  <2>2. gone \in Place /\ gone.bucket = n0
    BY <1>2 DEF Place
  <2>. HIDE DEF gone
  <2>3. LeftIn(buckets, p0) = {}
    BY <1>6, <1>7
  <2>4. LeftIn(buckets, gone) = {}
    BY <1>2, <2>2 DEF LeftIn
  <2>5. Lefts(buckets', places') = Lefts(buckets, places) /\ Lefts(buckets, places)[i] = {}
    BY <1>1, <2>1, <2>3, <2>4 DEF Lefts, p0
  <2>6. MapInv'
    BY <1>1, <2>1, <2>2 DEF MapInv
  <2>. QED BY <1>3, <2>1, <2>5, <2>6, Mapped, MappedNext DEF Abstract!Yield
<1>8. CASE Ahead(i) # {}
  <2>. DEFINE b == First(Ahead(i))
              p == Moved(i, b)
              e == buckets[p.bucket][p.entry]
              k == e[1]
              q == [p EXCEPT !.entry = @ + 1]
  <2>1. answer' = <<"entry", e[1], e[2]>> /\ places' = [places EXCEPT ![i] = q]
    BY <1>8 DEF Yield
  <2>2. Ahead(i) \subseteq 1 .. Size
    BY <1>2 DEF Ahead, p0
  <2>3. b \in Ahead(i) /\ \A c \in Ahead(i) : b <= c
    BY <1>2, <1>8, <2>2, FirstOfSome
  <2>. HIDE DEF b
  <2>4. /\ b \in p0.bucket .. Size /\ b \in 1 .. Size
        /\ IF b = p0.bucket THEN p0.entry <= Len(buckets[b]) ELSE buckets[b] # <<>>
    BY <2>2, <2>3 DEF Ahead, p0
  <2>5. buckets[b] \in Seq(Pairs) /\ Len(buckets[b]) \in Nat
    BY <1>1, <2>4
  <2>6. /\ p \in Place /\ p.bucket = b /\ p.entry \in DOMAIN buckets[b]
        /\ p.entry = IF b = p0.bucket THEN p0.entry ELSE 1
    BY <1>2, <2>4, <2>5 DEF Moved, p0, Place
  <2>7. q \in Place /\ q.bucket = p.bucket /\ q.entry = p.entry + 1
    BY <2>6 DEF Place
  <2>. HIDE DEF p, q
  <2>8. k \in KeysIn(buckets) /\ b = BucketOf(k) /\ p.entry = Where(buckets, k) /\ ValueIn(buckets, k) = e[2]
    <3>. DEFINE n == p.entry
    <3>1. n \in DOMAIN buckets[b] /\ buckets[b][n] = e /\ buckets[b][n][1] = k
      BY <2>6
    <3>. HIDE DEF n, e, k
    <3>2. /\ buckets[b][n][1] \in KeysIn(buckets) /\ b = BucketOf(buckets[b][n][1])
          /\ n = Where(buckets, buckets[b][n][1]) /\ ValueIn(buckets, buckets[b][n][1]) = buckets[b][n][2]
      BY <1>1, <2>4, <3>1, EntryThere
    <3>. QED BY <3>1, <3>2 DEF n
  <2>. HIDE DEF e
  <2>9. k \in LeftIn(buckets, p) /\ LeftIn(buckets, q) = LeftIn(buckets, p) \ {k}
    BY <1>1, <2>6, <2>7, <2>8, LeftAfter
  <2>10. LeftIn(buckets, p0) = LeftIn(buckets, p)
    <3>1. LeftIn(buckets, p) = {x \in KeysIn(buckets) : /\ p.bucket <= BucketOf(x)
                                                        /\ BucketOf(x) = p.bucket => p.entry <= Where(buckets, x)}
      BY <1>1, <2>6, LeftIs
    <3>2. ASSUME NEW x \in LeftIn(buckets, p0) PROVE x \in LeftIn(buckets, p)
      <4>1. x \in KeysIn(buckets) /\ (BucketOf(x) = p0.bucket => p0.entry <= Where(buckets, x)) /\ b <= BucketOf(x)
        BY <1>5, <1>6, <2>3
      <4>. QED BY <1>4, <2>6, <3>1, <4>1
    <3>3. ASSUME NEW x \in LeftIn(buckets, p) PROVE x \in LeftIn(buckets, p0)
      <4>1. x \in KeysIn(buckets) /\ b <= BucketOf(x) /\ (BucketOf(x) = b => p.entry <= Where(buckets, x))
        BY <2>6, <3>1
      <4>. QED BY <1>2, <1>4, <1>5, <2>4, <2>6, <4>1
    <3>. QED BY <3>2, <3>3
  <2>11. Lefts(buckets', places') = [Lefts(buckets, places) EXCEPT ![i] = @ \ {k}] /\ k \in Lefts(buckets, places)[i]
    BY <1>1, <2>1, <2>9, <2>10 DEF Lefts, p0
  <2>12. answer' = <<"entry", k, Dict(buckets)[k]>>
    BY <2>1, <2>8 DEF Dict
  <2>13. MapInv'
    BY <1>1, <2>1, <2>7 DEF MapInv
  <2>14. \E x \in Lefts(buckets, places)[i] :
           /\ answer' = <<"entry", x, Dict(buckets)[x]>>
           /\ Lefts(buckets', places') = [Lefts(buckets, places) EXCEPT ![i] = @ \ {x}]
    BY <2>11, <2>12
  <2>. QED BY <1>3, <2>13, <2>14, Mapped, MappedNext DEF Abstract!Yield
<1>. QED BY <1>7, <1>8

\* The operations that only answer.
LEMMA AnswerStep ==
  ASSUME MapInv, UNCHANGED <<buckets, size, places>>
  PROVE  /\ MapInv'
         /\ UNCHANGED <<[k \in {x \in Keys : Found(x) # {}} |-> Entry(k)[2]], [i \in Iterators |-> LeftFor(i)]>>
<1>1. buckets' = buckets /\ size' = size /\ places' = places
  OBVIOUS
<1>. QED BY <1>1, Mapped, MappedNext DEF MapInv

LEMMA GetStep ==
  ASSUME Plain, MapInv, NEW k \in Keys, Get(k)
  PROVE  Abstract!Get(k)
<1>. DEFINE d == Dict(buckets)
<1>1. Abstract!Stored(k) = KeysIn(buckets) \cap {k}
  BY StoredIs
<1>2. CASE k \in KeysIn(buckets)
  <2>1. Abstract!Stored(k) = {k} /\ d[k] = ValueIn(buckets, k)
    BY <1>1, <1>2 DEF Dict
  <2>2. answer' = <<"value", d[k]>>
    BY <1>2, <2>1, FoundIs DEF Get, ValueIn, Entry, Where
  <2>. QED BY <2>1, <2>2, AnswerStep, Mapped DEF Get, Abstract!Get
<1>3. CASE k \notin KeysIn(buckets)
  <2>1. Abstract!Stored(k) = {} /\ answer' = Missing
    BY <1>1, <1>3, FoundIs DEF Get
  <2>. QED BY <2>1, AnswerStep DEF Get, Abstract!Get, Missing, Abstract!Missing
<1>. QED BY <1>2, <1>3

LEMMA HasStep ==
  ASSUME Plain, MapInv, NEW k \in Keys, Has(k)
  PROVE  Abstract!Has(k)
<1>1. Abstract!Stored(k) = KeysIn(buckets) \cap {k}
  BY StoredIs
<1>2. Found(k) # {} <=> Abstract!Stored(k) # {}
  BY <1>1, FoundIs
<1>. QED BY <1>2, AnswerStep DEF Has, Abstract!Has

LEMMA NextStep ==
  ASSUME MapInv, Next
  PROVE  MapInv' /\ (Plain => Abstract!Next)
<1>. DEFINE Right == MapInv' /\ (Plain => Abstract!Next)
<1>1. ASSUME NEW k \in Keys, NEW v \in Values, Set(k, v) PROVE Right
  BY <1>1, SetStep DEF Abstract!Next
<1>2. ASSUME NEW k \in Keys, Get(k) PROVE Right
  BY <1>2, GetStep, AnswerStep DEF Get, Abstract!Next
<1>3. ASSUME NEW k \in Keys, Has(k) PROVE Right
  BY <1>3, HasStep, AnswerStep DEF Has, Abstract!Next
<1>4. ASSUME NEW k \in Keys, Delete(k) PROVE Right
  BY <1>4, DeleteStep DEF Abstract!Next
<1>5. ASSUME NEW i \in Iterators, Iterate(i) PROVE Right
  BY <1>5, IterateStep DEF Abstract!Next
<1>6. ASSUME NEW i \in Iterators, Yield(i) PROVE Right
  BY <1>6, YieldStep DEF Abstract!Next
<1>7. ASSUME Count PROVE Right
  <2>1. answer' = <<"size", Cardinality({x \in Keys : Found(x) # {}})>>
    <3>1. {x \in Keys : Found(x) # {}} = KeysIn(buckets)
      BY FoundIs DEF KeysIn
    <3>. QED BY <1>7, <3>1 DEF Count, MapInv
  <2>2. \A S : Abstract!Cardinality(S) = Cardinality(S)
    BY Zenon DEF Abstract!Cardinality, Cardinality
  <2>3. Abstract!Count
    BY <1>7, <2>1, <2>2, AnswerStep DEF Count, Abstract!Count
  <2>. QED BY <1>7, <2>3, AnswerStep DEF Count, Abstract!Next
<1>8. ASSUME Clear PROVE Right
  BY <1>8, ClearStep DEF Abstract!Next
<1>9. ASSUME Refuse PROVE Right
  <2>1. Abstract!Refuse
    BY <1>9, AnswerStep DEF Refuse, Abstract!Refuse
  <2>. QED BY <1>9, <2>1, AnswerStep DEF Refuse, Abstract!Next
<1>. QED BY <1>1, <1>2, <1>3, <1>4, <1>5, <1>6, <1>7, <1>8, <1>9 DEF Next

----------------------------------------------------------------------------
THEOREM MapInvariant == Spec => []MapInv
<1>1. MapInv /\ UNCHANGED vars => MapInv'
  BY AnswerStep DEF vars
<1>2. MapInv /\ Next => MapInv'
  BY NextStep
<1>. QED BY InitMapInv, <1>1, <1>2, PTL DEF Spec

\* No key is in the map twice, whatever is set, deleted and cleared, and the
\* size of the map is the number of its keys.
THEOREM KeysAreOnce == Spec => []KeysOnce
<1>1. MapInv => KeysOnce
  BY FoundIs DEF MapInv, Placed, KeysOnce, KeysIn
<1>. QED BY <1>1, MapInvariant, PTL

\* A HashMap answers as the Map its comment promises, and so do the iterations
\* over it while it changes, if equal keys are one instance and nothing is
\* deleted that lets an iteration skip an entry.
THEOREM Implements == Plain => (Spec => ImplementsDictionary)
<1>. SUFFICES ASSUME Plain PROVE Spec => ImplementsDictionary
  OBVIOUS
<1>1. MapInv /\ [Next]_vars => [Abstract!Next]_<<[k \in {x \in Keys : Found(x) # {}} |-> Entry(k)[2]],
                                                 [i \in Iterators |-> LeftFor(i)], answer>>
  BY NextStep, AnswerStep DEF vars
<1>. QED BY InitMapInv, MapInvariant, <1>1, PTL DEF Spec, ImplementsDictionary, Abstract!Spec

============================================================================
