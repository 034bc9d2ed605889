---------------------------- MODULE LookupProofs ----------------------------
(***************************************************************************)
(* What a listener of CoherenceResolver is told, for any number of         *)
(* resolutions, any name services, and responses that are whole, in pieces *)
(* or missing: one thing at most, and the truth if its messages were       *)
(* whole, a cluster's port is that of its own name service and no target   *)
(* names a port alone.  The lengths of results are no condition: the       *)
(* reader of packed integers reads what was written, or loops for ever,    *)
(* which is shown first.                                                   *)
(***************************************************************************)
EXTENDS Lookup, WellFoundedInduction, TLAPS

----------------------------------------------------------------------------
(* The least of a set of naturals.                                         *)
LEMMA Smaller ==
  ASSUME NEW x \in Nat, NEW y \in Nat, ~(<<y, x>> \in OpToRel(<, Nat))
  PROVE  x <= y
  BY DEF OpToRel

LEMMA Least ==
  ASSUME NEW T, T \subseteq Nat, T # {}
  PROVE  \E x \in T : \A y \in T : x <= y
<1>1. IsWellFoundedOn(OpToRel(<, Nat), Nat)
  BY NatLessThanWellFounded
<1>2. PICK x \in T : \A y \in T : ~(<<y, x>> \in OpToRel(<, Nat))
  BY <1>1, WFMin
<1>3. ASSUME NEW y \in T PROVE x <= y
  <2>1. x \in Nat /\ y \in Nat
    OBVIOUS
  <2>2. ~(<<y, x>> \in OpToRel(<, Nat))
    BY <1>2, Zenon
  <2> QED
    BY <2>1, <2>2, Smaller, Zenon
<1> QED
  BY <1>3, Zenon

----------------------------------------------------------------------------
(* Recursive functions: f is one if it obeys its equation, there is one if *)
(* what is gone on to is always of a lower rank, and there is no other.    *)

\* f is defined on D by the recursion: x stops it, or goes on to before[x].
Obeys(f, D, stop, first, step, before) ==
  \A x \in D : f[x] = IF x \in stop THEN first[x] ELSE step[<<x, f[before[x]]>>]

Recursion(S, V, rank, stop, first, step, before) ==
  /\ rank \in [S -> Nat] /\ before \in [S -> S]
  /\ first \in [S -> V] /\ step \in [S \X V -> V]
  /\ \A x \in S : x \notin stop => rank[before[x]] < rank[x]

Below(S, rank, k) == {x \in S : rank[x] < k}

\* f and g agree on x if they do on what x goes on to.
Follows(f, g, D, rank, before) ==
  \A x \in D :
    /\ rank[x] \in Nat
    /\ f[x] # g[x] => before[x] \in D /\ rank[before[x]] < rank[x] /\ f[before[x]] # g[before[x]]

LEMMA RecursionUnique ==
  ASSUME NEW D, NEW rank, NEW before, NEW f, NEW g, Follows(f, g, D, rank, before)
  PROVE  \A x \in D : f[x] = g[x]
<1> DEFINE T == {n \in Nat : \E x \in D : rank[x] = n /\ f[x] # g[x]}
<1>1. SUFFICES ASSUME NEW w \in D, f[w] # g[w]
               PROVE  FALSE
  OBVIOUS
<1>2. PICK n \in T : \A m \in T : n <= m
  <2>1. T \subseteq Nat /\ T # {}
    BY <1>1 DEF Follows
  <2> HIDE DEF T
  <2> QED
    BY <2>1, Least
<1>3. PICK x \in D : rank[x] = n /\ f[x] # g[x]
  BY <1>2
<1>4. /\ before[x] \in D /\ rank[before[x]] < rank[x] /\ f[before[x]] # g[before[x]]
      /\ rank[x] \in Nat /\ rank[before[x]] \in Nat
  BY <1>3 DEF Follows
<1>5. rank[before[x]] \in T
  BY <1>4
<1> QED
  BY <1>2, <1>3, <1>4, <1>5

LEMMA RecursionSame ==
  ASSUME NEW S, NEW V, NEW rank, NEW stop, NEW first, NEW step, NEW before,
         Recursion(S, V, rank, stop, first, step, before),
         NEW f, NEW g, NEW k \in Nat, NEW l \in Nat, k <= l,
         Obeys(f, Below(S, rank, k), stop, first, step, before),
         Obeys(g, Below(S, rank, l), stop, first, step, before)
  PROVE  \A x \in Below(S, rank, k) : f[x] = g[x]
<1> DEFINE D == Below(S, rank, k)
<1>1. ASSUME NEW x \in D
      PROVE  /\ x \in S /\ rank[x] \in Nat /\ x \in Below(S, rank, l)
             /\ x \notin stop => before[x] \in D /\ rank[before[x]] < rank[x]
  BY DEF Below, Recursion
<1>2. ASSUME NEW x \in D
      PROVE  f[x] # g[x] => before[x] \in D /\ rank[before[x]] < rank[x] /\ f[before[x]] # g[before[x]]
  <2>1. CASE x \in stop
    BY <1>1, <2>1 DEF Obeys
  <2>2. CASE x \notin stop
    <3> HIDE DEF D
    <3>1. /\ f[x] = step[<<x, f[before[x]]>>]
          /\ g[x] = step[<<x, g[before[x]]>>]
      BY <1>1, <2>2 DEF Obeys, D
    <3> QED
      BY <1>1, <2>2, <3>1
  <2> QED
    BY <2>1, <2>2
<1> HIDE DEF D
<1>3. Follows(f, g, D, rank, before)
  BY <1>1, <1>2 DEF Follows
<1>4. \A x \in D : f[x] = g[x]
  BY <1>3, RecursionUnique
<1> QED
  BY <1>4 DEF D

LEMMA RecursionStep ==
  ASSUME NEW S, NEW V, NEW rank, NEW stop, NEW first, NEW step, NEW before,
         Recursion(S, V, rank, stop, first, step, before),
         NEW k \in Nat, NEW f \in [Below(S, rank, k) -> V],
         Obeys(f, Below(S, rank, k), stop, first, step, before)
  PROVE  \E g \in [Below(S, rank, k + 1) -> V] : Obeys(g, Below(S, rank, k + 1), stop, first, step, before)
<1> DEFINE g == [x \in Below(S, rank, k + 1) |-> IF x \in stop THEN first[x] ELSE step[<<x, f[before[x]]>>]]
<1>1. ASSUME NEW x \in Below(S, rank, k + 1), x \notin stop
      PROVE  /\ before[x] \in Below(S, rank, k) /\ f[before[x]] \in V
             /\ before[x] \in Below(S, rank, k + 1)
             /\ g[before[x]] = f[before[x]]
  <2>1. /\ before[x] \in S /\ rank[before[x]] \in Nat /\ rank[x] \in Nat
        /\ rank[x] < k + 1 /\ rank[before[x]] < rank[x]
    BY <1>1 DEF Below, Recursion
  <2>2. before[x] \in Below(S, rank, k) /\ before[x] \in Below(S, rank, k + 1)
    BY <2>1 DEF Below
  <2>3. f[before[x]] = IF before[x] \in stop THEN first[before[x]] ELSE step[<<before[x], f[before[before[x]]]>>]
    BY <2>2 DEF Obeys
  <2> QED
    BY <2>2, <2>3
<1>2. g \in [Below(S, rank, k + 1) -> V]
  <2>1. ASSUME NEW x \in Below(S, rank, k + 1)
        PROVE  (IF x \in stop THEN first[x] ELSE step[<<x, f[before[x]]>>]) \in V
    BY <1>1 DEF Below, Recursion
  <2> QED
    BY <2>1
<1>3. Obeys(g, Below(S, rank, k + 1), stop, first, step, before)
  <2>1. ASSUME NEW x \in Below(S, rank, k + 1)
        PROVE  g[x] = IF x \in stop THEN first[x] ELSE step[<<x, g[before[x]]>>]
    BY <1>1
  <2> HIDE DEF g
  <2> QED
    BY <2>1 DEF Obeys
<1> QED
  BY <1>2, <1>3

LEMMA RecursionBelow ==
  ASSUME NEW S, NEW V, NEW rank, NEW stop, NEW first, NEW step, NEW before,
         Recursion(S, V, rank, stop, first, step, before)
  PROVE  \A k \in Nat : \E f \in [Below(S, rank, k) -> V] : Obeys(f, Below(S, rank, k), stop, first, step, before)
<1> DEFINE Holds(k) == \E f \in [Below(S, rank, k) -> V] : Obeys(f, Below(S, rank, k), stop, first, step, before)
           T == {k \in Nat : ~Holds(k)}
<1>1. Holds(0)
  <2>1. Below(S, rank, 0) = {}
    BY DEF Below, Recursion
  <2> DEFINE f == [x \in {} |-> first[x]]
  <2>2. f \in [{} -> V] /\ Obeys(f, {}, stop, first, step, before)
    BY DEF Obeys
  <2> QED
    BY <2>1, <2>2
<1>2. ASSUME NEW k \in Nat, Holds(k) PROVE Holds(k + 1)
  BY <1>2, RecursionStep
<1> HIDE DEF Holds
<1>3. SUFFICES ASSUME T # {} PROVE FALSE
  BY DEF Holds
<1>4. PICK k \in T : \A m \in T : k <= m
  <2>1. T \subseteq Nat
    OBVIOUS
  <2> HIDE DEF T
  <2> QED
    BY <1>3, <2>1, Least
<1>5. k \in Nat /\ ~Holds(k) /\ k # 0
  BY <1>1
<1>6. k - 1 \in Nat /\ k - 1 \notin T
  BY <1>4, <1>5
<1>7. Holds(k - 1)
  BY <1>6
<1>8. Holds((k - 1) + 1)
  BY <1>2, <1>6, <1>7
<1> QED
  BY <1>5, <1>8

LEMMA RecursionHolds ==
  ASSUME NEW S, NEW V, NEW rank, NEW stop, NEW first, NEW step, NEW before,
         Recursion(S, V, rank, stop, first, step, before)
  PROVE  \E f \in [S -> V] : Obeys(f, S, stop, first, step, before)
<1> DEFINE Up(x) == rank[x] + 1
           Part(x) == CHOOSE f : f \in [Below(S, rank, Up(x)) -> V]
                                 /\ Obeys(f, Below(S, rank, Up(x)), stop, first, step, before)
           f == [x \in S |-> Part(x)[x]]
<1>1. ASSUME NEW x \in S
      PROVE  /\ Up(x) \in Nat /\ x \in Below(S, rank, Up(x))
             /\ Part(x) \in [Below(S, rank, Up(x)) -> V]
             /\ Obeys(Part(x), Below(S, rank, Up(x)), stop, first, step, before)
  <2>1. Up(x) \in Nat /\ x \in Below(S, rank, Up(x))
    BY DEF Below, Recursion
  <2>2. \E h : h \in [Below(S, rank, Up(x)) -> V]
                /\ Obeys(h, Below(S, rank, Up(x)), stop, first, step, before)
    BY <2>1, RecursionBelow
  <2> HIDE DEF Up
  <2> QED
    BY <2>1, <2>2, Zenon
<1> HIDE DEF Part
<1>2. f \in [S -> V]
  BY <1>1
<1>3. ASSUME NEW x \in S, x \notin stop
      PROVE  Part(x)[before[x]] = Part(before[x])[before[x]]
  <2>1. before[x] \in S /\ rank[before[x]] \in Nat /\ rank[x] \in Nat /\ rank[before[x]] < rank[x]
    BY <1>3 DEF Recursion
  <2>2. Up(before[x]) \in Nat /\ Up(x) \in Nat /\ Up(before[x]) <= Up(x)
    BY <2>1
  <2>3. before[x] \in Below(S, rank, Up(before[x]))
    BY <1>1, <2>1
  <2> DEFINE y == before[x]  k == Up(y)  l == Up(x)
  <2>4. Obeys(Part(y), Below(S, rank, k), stop, first, step, before)
    BY <1>1, <2>1
  <2>5. Obeys(Part(x), Below(S, rank, l), stop, first, step, before)
    BY <1>1
  <2> HIDE DEF Up, k, l
  <2>6. \A z \in Below(S, rank, k) : Part(y)[z] = Part(x)[z]
    BY <2>2, <2>4, <2>5, RecursionSame DEF k, l
  <2> QED
    BY <2>3, <2>6 DEF k
<1>4. ASSUME NEW x \in S
      PROVE  f[x] = IF x \in stop THEN first[x] ELSE step[<<x, f[before[x]]>>]
  <2>1. Part(x)[x] = IF x \in stop THEN first[x] ELSE step[<<x, Part(x)[before[x]]>>]
    BY <1>1 DEF Obeys
  <2>2. before[x] \in S
    BY DEF Recursion
  <2> QED
    BY <2>1, <2>2, <1>3
<1> HIDE DEF f
<1>5. Obeys(f, S, stop, first, step, before)
  BY <1>4 DEF Obeys
<1> QED
  BY <1>2, <1>5

----------------------------------------------------------------------------
(* The writer's loop.                                                      *)

LEMMA DigitType ==
  ASSUME NEW n \in Nat
  PROVE  /\ n \div 128 \in Nat /\ n % 128 \in 0 .. 127
         /\ n = 128 * (n \div 128) + (n % 128)
         /\ n # 0 => n \div 128 < n
         /\ Flag(n) \in {0, 128} /\ (Flag(n) = 128 <=> n # 0)
<1>1. n \div 128 \in Nat
  OBVIOUS
<1>2. n % 128 \in 0 .. 127
  OBVIOUS
<1>3. n = 128 * (n \div 128) + (n % 128)
  OBVIOUS
<1>4. n # 0 => n \div 128 < n
  BY <1>1, <1>2, <1>3
<1>5. Flag(n) \in {0, 128} /\ (Flag(n) = 128 <=> n # 0)
  BY DEF Flag
<1> QED
  BY <1>1, <1>2, <1>3, <1>4, <1>5

LEMMA ByteType ==
  ASSUME NEW a \in 0 .. 127, NEW b \in {0, 128}
  PROVE  /\ a + b \in Bytes /\ (a + b) % 128 = a
         /\ Continued(a + b) <=> b = 128
  BY DEF Bytes, Continued

\* The equation by which Rest is defined.
IsRest(f) ==
  \A n \in Nat : f[n] = IF n = 0 THEN <<>> ELSE <<(n % 128) + Flag(n \div 128)>> \o f[n \div 128]

LEMMA RestUnique ==
  ASSUME NEW f, NEW g, IsRest(f), IsRest(g)
  PROVE  \A n \in Nat : f[n] = g[n]
<1>1. PICK rank, before : rank = [n \in Nat |-> n] /\ before = [n \in Nat |-> n \div 128]
  OBVIOUS
<1>2. ASSUME NEW n \in Nat, f[n] # g[n]
      PROVE  /\ before[n] \in Nat /\ rank[before[n]] < rank[n]
             /\ f[before[n]] # g[before[n]]
  <2>1. n # 0
    BY <1>2, ZenonT(60) DEF IsRest
  <2>2. before[n] = n \div 128 /\ n \div 128 \in Nat /\ n \div 128 < n
    BY <1>1, <2>1, DigitType
  <2>3. /\ f[n] = <<(n % 128) + Flag(n \div 128)>> \o f[n \div 128]
        /\ g[n] = <<(n % 128) + Flag(n \div 128)>> \o g[n \div 128]
    BY <2>1, ZenonT(60) DEF IsRest
  <2>4. f[n \div 128] # g[n \div 128]
    BY <1>2, <2>3, Zenon
  <2>5. rank[n] = n /\ rank[n \div 128] = n \div 128
    BY <1>1, <2>2
  <2> QED
    BY <2>2, <2>4, <2>5
<1>3. \A n \in Nat : rank[n] \in Nat
  BY <1>1
<1>4. Follows(f, g, Nat, rank, before)
  BY <1>2, <1>3 DEF Follows
<1> QED
  BY <1>4, RecursionUnique

LEMMA RestType ==
  Rest \in [Nat -> Seq(Bytes)] /\ IsRest(Rest)
<1> DEFINE V == Seq(Bytes)
           rank == [n \in Nat |-> n]
           before == [n \in Nat |-> n \div 128]
           first == [n \in Nat |-> <<>>]
           step == [p \in Nat \X V |-> <<(p[1] % 128) + Flag(p[1] \div 128)>> \o p[2]]
           OneStep(f) == [n \in Nat |->
             IF n = 0 THEN <<>> ELSE <<(n % 128) + Flag(n \div 128)>> \o f[n \div 128]]
<1>1. Recursion(Nat, V, rank, {0}, first, step, before)
  <2>1. ASSUME NEW p \in Nat \X V
        PROVE  <<(p[1] % 128) + Flag(p[1] \div 128)>> \o p[2] \in V
    <3>1. p[1] \in Nat /\ p[1] \div 128 \in Nat
      BY DigitType
    <3>2. p[1] % 128 \in 0 .. 127 /\ Flag(p[1] \div 128) \in {0, 128}
      BY <3>1, DigitType
    <3>3. (p[1] % 128) + Flag(p[1] \div 128) \in Bytes
      BY <3>2, ByteType, ZenonT(60)
    <3> QED
      BY <3>3
  <2>2. step \in [Nat \X V -> V]
    BY <2>1
  <2>3. rank \in [Nat -> Nat] /\ before \in [Nat -> Nat] /\ first \in [Nat -> V]
    BY DigitType
  <2>4. ASSUME NEW n \in Nat, n # 0
        PROVE  rank[before[n]] < rank[n]
    BY <2>4, DigitType
  <2> HIDE DEF step, rank, before, first, V
  <2> QED
    BY <2>2, <2>3, <2>4 DEF Recursion
<1>2. PICK f \in [Nat -> V] : Obeys(f, Nat, {0}, first, step, before)
  <2> HIDE DEF step, rank, before, first, V
  <2> QED
    BY <1>1, RecursionHolds
<1>3. ASSUME NEW n \in Nat
      PROVE  f[n] = IF n = 0 THEN <<>> ELSE <<(n % 128) + Flag(n \div 128)>> \o f[n \div 128]
  <2>1. n \div 128 \in Nat
    BY DigitType
  <2>2. <<n, f[n \div 128]>> \in Nat \X V
    BY <2>1
  <2> QED
    BY <1>2, <2>1, <2>2 DEF Obeys
<1>4. f = OneStep(f)
  BY <1>3
<1>5. Rest = OneStep(Rest)
  BY <1>4, ZenonT(60) DEF Rest
<1>6. IsRest(Rest)
  BY <1>5 DEF IsRest
<1>7. PICK g : g = Rest
  OBVIOUS
<1>8. \A n \in Nat : f[n] = g[n]
  <2>1. IsRest(g)
    BY <1>6, <1>7, Zenon
  <2>2. IsRest(f)
    BY <1>3, Zenon DEF IsRest
  <2> QED
    BY <2>1, <2>2, RestUnique
<1>9. g = [n \in Nat |-> g[n]]
  BY <1>5, <1>7
<1>10. g \in [Nat -> V]
  <2> HIDE DEF V
  <2> QED
    BY <1>8, <1>9
<1> QED
  BY <1>6, <1>7, <1>10

----------------------------------------------------------------------------
(* The readers' loops, and that they undo the writer's.                    *)

\* The equation by which Joined is defined.
IsJoined(f) ==
  \A b \in Seq(Bytes) : f[b] = IF b = <<>> THEN 0
    ELSE (Head(b) % 128) + (IF Continued(Head(b)) THEN 128 * f[Tail(b)] ELSE 0)

LEMMA TailType ==
  ASSUME NEW b \in Seq(Bytes), b # <<>>
  PROVE  Head(b) \in Bytes /\ Tail(b) \in Seq(Bytes) /\ Len(Tail(b)) < Len(b)
<1>1. Head(b) \in Bytes /\ Tail(b) \in Seq(Bytes)
  OBVIOUS
<1>2. Len(b) \in Nat /\ Len(b) # 0 /\ Len(Tail(b)) = Len(b) - 1
  OBVIOUS
<1> QED
  BY <1>1, <1>2

LEMMA JoinedUnique ==
  ASSUME NEW f, NEW g, IsJoined(f), IsJoined(g)
  PROVE  \A b \in Seq(Bytes) : f[b] = g[b]
<1>1. PICK rank, before : rank = [b \in Seq(Bytes) |-> Len(b)] /\ before = [b \in Seq(Bytes) |-> Tail(b)]
  OBVIOUS
<1>2. ASSUME NEW b \in Seq(Bytes), f[b] # g[b]
      PROVE  /\ before[b] \in Seq(Bytes) /\ rank[before[b]] < rank[b]
             /\ f[before[b]] # g[before[b]]
  <2>1. b # <<>>
    BY <1>2 DEF IsJoined
  <2>2. before[b] = Tail(b) /\ Tail(b) \in Seq(Bytes) /\ Len(Tail(b)) < Len(b)
    BY <1>1, <2>1, TailType
  <2>3. /\ f[b] = (Head(b) % 128) + (IF Continued(Head(b)) THEN 128 * f[Tail(b)] ELSE 0)
        /\ g[b] = (Head(b) % 128) + (IF Continued(Head(b)) THEN 128 * g[Tail(b)] ELSE 0)
    BY <2>1, Zenon DEF IsJoined
  <2>4. f[Tail(b)] # g[Tail(b)]
    BY <1>2, <2>3, Zenon
  <2>5. rank[b] = Len(b) /\ rank[Tail(b)] = Len(Tail(b))
    BY <1>1, <2>2
  <2> QED
    BY <2>2, <2>4, <2>5
<1>3. \A b \in Seq(Bytes) : rank[b] \in Nat
  BY <1>1
<1>4. Follows(f, g, Seq(Bytes), rank, before)
  BY <1>2, <1>3 DEF Follows
<1> QED
  BY <1>4, RecursionUnique

LEMMA JoinedType ==
  Joined \in [Seq(Bytes) -> Nat] /\ IsJoined(Joined)
<1> DEFINE S == Seq(Bytes)
           rank == [b \in S |-> Len(b)]
           before == [b \in S |-> IF b = <<>> THEN b ELSE Tail(b)]
           first == [b \in S |-> 0]
           step == [p \in S \X Nat |-> IF p[1] = <<>> THEN 0
                      ELSE (Head(p[1]) % 128) + (IF Continued(Head(p[1])) THEN 128 * p[2] ELSE 0)]
           OneStep(f) == [b \in S |-> IF b = <<>> THEN 0
                      ELSE (Head(b) % 128) + (IF Continued(Head(b)) THEN 128 * f[Tail(b)] ELSE 0)]
<1>1. Recursion(S, Nat, rank, {<<>>}, first, step, before)
  <2>1. ASSUME NEW p \in S \X Nat
        PROVE  (IF p[1] = <<>> THEN 0
                ELSE (Head(p[1]) % 128) + (IF Continued(Head(p[1])) THEN 128 * p[2] ELSE 0)) \in Nat
    <3>1. ASSUME NEW x \in Bytes, NEW n \in Nat
          PROVE  (x % 128) + (IF Continued(x) THEN 128 * n ELSE 0) \in Nat
      BY DEF Bytes
    <3>2. p[1] \in S /\ p[2] \in Nat
      OBVIOUS
    <3>3. p[1] # <<>> => Head(p[1]) \in Bytes
      BY <3>2, TailType
    <3> QED
      BY <3>1, <3>2, <3>3
  <2>2. step \in [S \X Nat -> Nat]
    BY <2>1
  <2>3. rank \in [S -> Nat] /\ before \in [S -> S] /\ first \in [S -> Nat]
    BY TailType
  <2>4. ASSUME NEW b \in S, b # <<>>
        PROVE  rank[before[b]] < rank[b]
    BY <2>4, TailType
  <2> HIDE DEF step, rank, before, first, S
  <2> QED
    BY <2>2, <2>3, <2>4 DEF Recursion
<1>2. PICK f \in [S -> Nat] : Obeys(f, S, {<<>>}, first, step, before)
  <2> HIDE DEF step, rank, before, first, S
  <2> QED
    BY <1>1, RecursionHolds
<1>3. ASSUME NEW b \in S
      PROVE  f[b] = IF b = <<>> THEN 0
                    ELSE (Head(b) % 128) + (IF Continued(Head(b)) THEN 128 * f[Tail(b)] ELSE 0)
  <2>1. CASE b = <<>>
    <3>1. f[b] = first[b]
      BY <1>2, <2>1 DEF Obeys
    <3> QED
      BY <2>1, <3>1
  <2>2. CASE b # <<>>
    <3>1. Tail(b) \in S /\ before[b] = Tail(b)
      BY <2>2, TailType
    <3>2. f[b] = step[<<b, f[Tail(b)]>>]
      <4> HIDE DEF step, first, before
      <4> QED
        BY <1>2, <2>2, <3>1 DEF Obeys
    <3>3. <<b, f[Tail(b)]>> \in S \X Nat
      BY <1>2, <3>1
    <3>4. step[<<b, f[Tail(b)]>>] = (Head(b) % 128) + (IF Continued(Head(b)) THEN 128 * f[Tail(b)] ELSE 0)
      BY <2>2, <3>3
    <3> QED
      BY <2>2, <3>2, <3>4
  <2> QED
    BY <2>1, <2>2
<1>4. f = OneStep(f)
  BY <1>3
<1>5. Joined = OneStep(Joined)
  BY <1>4, ZenonT(60) DEF Joined
<1>6. IsJoined(Joined)
  BY <1>5 DEF IsJoined
<1>7. PICK g : g = Joined
  OBVIOUS
<1>8. \A b \in S : f[b] = g[b]
  <2>1. IsJoined(g)
    BY <1>6, <1>7, Zenon
  <2>2. IsJoined(f)
    BY <1>3, Zenon DEF IsJoined
  <2> QED
    BY <2>1, <2>2, JoinedUnique
<1>9. g = [b \in S |-> g[b]]
  BY <1>5, <1>7
<1>10. g \in [S -> Nat]
  <2> HIDE DEF S
  <2> QED
    BY <1>8, <1>9
<1> QED
  BY <1>6, <1>7, <1>10

LEMMA RestJoined ==
  \A n \in Nat : Rest[n] \in Seq(Bytes) /\ Joined[Rest[n]] = n
<1> DEFINE T == {n \in Nat : Joined[Rest[n]] # n}
<1>1. SUFFICES ASSUME T # {} PROVE FALSE
  BY RestType
<1>2. PICK n \in T : \A m \in T : n <= m
  <2>1. T \subseteq Nat
    OBVIOUS
  <2> HIDE DEF T
  <2> QED
    BY <1>1, <2>1, Least
<1>3. n \in Nat /\ Joined[Rest[n]] # n
  OBVIOUS
<1>4. n # 0
  <2>1. <<>> \in Seq(Bytes)
    OBVIOUS
  <2>2. Joined[<<>>] = 0
    BY <2>1, JoinedType, Zenon DEF IsJoined
  <2> QED
    BY <1>3, <2>2, RestType DEF IsRest
<1> DEFINE q == n \div 128
           x == (n % 128) + Flag(q)
<1>5. q \in Nat /\ q < n /\ x \in Bytes /\ x % 128 = n % 128 /\ (Continued(x) <=> q # 0)
      /\ n = 128 * q + (n % 128) /\ n % 128 \in Nat
  <2>1. n \div 128 \in Nat /\ n % 128 \in 0 .. 127 /\ n \div 128 < n
        /\ n = 128 * (n \div 128) + (n % 128)
    BY <1>3, <1>4, DigitType
  <2>2. Flag(q) \in {0, 128} /\ (Flag(q) = 128 <=> q # 0)
    BY <2>1, DigitType
  <2>3. x \in Bytes /\ x % 128 = n % 128 /\ (Continued(x) <=> Flag(q) = 128)
    <3> DEFINE a == n % 128
               c == Flag(q)
    <3>1. a \in 0 .. 127 /\ c \in {0, 128}
      BY <2>1, <2>2
    <3> HIDE DEF a, c
    <3>2. a + c \in Bytes /\ (a + c) % 128 = a /\ (Continued(a + c) <=> c = 128)
      BY <3>1, ByteType
    <3> QED
      BY <3>2 DEF a, c
  <2> QED
    BY <2>1, <2>2, <2>3
<1>6. Rest[n] = <<x>> \o Rest[q] /\ Rest[q] \in Seq(Bytes)
  BY <1>3, <1>4, <1>5, RestType, ZenonT(60) DEF IsRest
<1>7. Joined[Rest[q]] = q
  BY <1>2, <1>5
<1> HIDE DEF T, q, x
<1>8. /\ Rest[n] \in Seq(Bytes) /\ Rest[n] # <<>>
      /\ Head(Rest[n]) = x /\ Tail(Rest[n]) = Rest[q]
  <2> DEFINE r == Rest[q]
  <2>1. x \in Bytes /\ r \in Seq(Bytes)
    BY <1>5, <1>6
  <2> HIDE DEF r
  <2>2. <<x>> \o r \in Seq(Bytes) /\ <<x>> \o r # <<>>
    BY <2>1
  <2>3. Head(<<x>> \o r) = x /\ Tail(<<x>> \o r) = r
    BY <2>1
  <2> QED
    BY <1>6, <2>2, <2>3 DEF r
<1>9. Joined[Rest[n]] = (x % 128) + (IF Continued(x) THEN 128 * q ELSE 0)
  <2>1. Joined[Rest[n]] = (Head(Rest[n]) % 128)
                          + (IF Continued(Head(Rest[n])) THEN 128 * Joined[Tail(Rest[n])] ELSE 0)
    BY <1>8, JoinedType DEF IsJoined
  <2> QED
    BY <1>7, <1>8, <2>1, Zenon
<1> QED
  BY <1>3, <1>5, <1>9

\* What the readers make of a first part b, with the rest m after it.
LEMMA GroupsRead ==
  ASSUME NEW b \in 0 .. 127, NEW m \in Nat
  PROVE  LET bytes == Groups(b, m)
             value == IF b >= 64 THEN -((b % 64) + 64 * m) - 1 ELSE (b % 64) + 64 * m
         IN  /\ ReadPackedInt(bytes) = value
             /\ Hangs(bytes) <=> m >= 128
             /\ ~Hangs(bytes) => ReadPackedIntFromBuffer(bytes) = value
<1> DEFINE x == b + Flag(m)
           r == Rest[m]
           bytes == <<x>> \o r
           value == IF b >= 64 THEN -((b % 64) + 64 * m) - 1 ELSE (b % 64) + 64 * m
<1>1. x \in Bytes /\ x % 64 = b % 64 /\ (Continued(x) <=> m # 0)
      /\ ((x \div 64) % 2 = 1 <=> b >= 64)
  <2>1. Flag(m) \in {0, 128} /\ (Flag(m) = 128 <=> m # 0)
    BY DigitType
  <2> DEFINE c == Flag(m)
  <2> HIDE DEF c
  <2>2. ASSUME NEW d \in {0, 128}
        PROVE  /\ b + d \in Bytes /\ (b + d) % 64 = b % 64 /\ (Continued(b + d) <=> d = 128)
               /\ ((b + d) \div 64) % 2 = 1 <=> b >= 64
    BY DEF Bytes, Continued
  <2> QED
    BY <2>1, <2>2
<1>2. r \in Seq(Bytes) /\ Joined[r] = m
  BY RestJoined
<1> HIDE DEF x, r
<1>3. bytes[1] = x /\ Tail(bytes) = r /\ (r # <<>> => bytes[2] = r[1])
  BY <1>1, <1>2
<1> HIDE DEF bytes
<1>4. \A v \in Nat : Signed(x, v) = IF b >= 64 THEN -v - 1 ELSE v
  BY <1>1 DEF Signed
<1>5. b % 64 \in Nat /\ (b % 64) + 64 * m \in Nat
  OBVIOUS
<1>6. ReadPackedInt(bytes) = value
  <2>1. ReadPackedInt(bytes) = Signed(x, (b % 64) + (IF m # 0 THEN 64 * m ELSE 0))
    BY <1>1, <1>2, <1>3, Zenon DEF ReadPackedInt
  <2>2. (b % 64) + (IF m # 0 THEN 64 * m ELSE 0) = (b % 64) + 64 * m
    BY <1>5
  <2> QED
    BY <1>4, <1>5, <2>1, <2>2
<1>7. m # 0 => /\ bytes[2] % 128 = m % 128
               /\ Continued(bytes[2]) <=> m \div 128 # 0
  <2> SUFFICES ASSUME m # 0
               PROVE  /\ bytes[2] % 128 = m % 128
                      /\ Continued(bytes[2]) <=> m \div 128 # 0
    OBVIOUS
  <2> DEFINE a == m % 128
             c == Flag(m \div 128)
             t == Rest[m \div 128]
  <2>1. a \in 0 .. 127 /\ c \in {0, 128} /\ (c = 128 <=> m \div 128 # 0) /\ m \div 128 \in Nat
    BY DigitType
  <2>2. r = <<a + c>> \o t /\ t \in Seq(Bytes)
    BY <2>1, RestType, ZenonT(60) DEF IsRest, r
  <2> HIDE DEF a, c, t
  <2>3. a + c \in Bytes /\ (a + c) % 128 = a /\ (Continued(a + c) <=> c = 128)
    BY <2>1, ByteType
  <2>4. r # <<>> /\ r[1] = a + c
    BY <2>2, <2>3
  <2>5. bytes[2] = a + c
    BY <1>3, <2>4
  <2> QED
    BY <2>1, <2>3, <2>5 DEF a
<1>8. (m \div 128 # 0 <=> m >= 128) /\ (m < 128 => m % 128 = m)
  OBVIOUS
<1>9. Hangs(bytes) <=> m >= 128
  BY <1>1, <1>3, <1>7, <1>8 DEF Hangs
<1>10. ASSUME m < 128
       PROVE  ReadPackedIntFromBuffer(bytes) = value
  <2>1. ReadPackedIntFromBuffer(bytes) = Signed(x, (b % 64) + (IF m # 0 THEN (bytes[2] % 128) * 64 ELSE 0))
    BY <1>1, <1>3, Zenon DEF ReadPackedIntFromBuffer
  <2>2. (b % 64) + (IF m # 0 THEN (bytes[2] % 128) * 64 ELSE 0) = (b % 64) + 64 * m
    <3>1. m # 0 => bytes[2] % 128 = m
      BY <1>7, <1>8, <1>10
    <3> QED
      BY <1>5, <3>1
  <2> QED
    BY <1>4, <1>5, <2>1, <2>2
<1>11. Groups(b, m) = bytes
  BY DEF Groups, bytes, x, r
<1> QED
  BY <1>6, <1>9, <1>10, <1>11

\* Every integer is read back from the socket; from a message, those that are
\* written in two bytes at most, and the reader hangs on the others.
LEMMA PackedIntRead ==
  ASSUME NEW n \in Int
  PROVE  LET bytes == WritePackedInt(n)
         IN  /\ ReadPackedInt(bytes) = n
             /\ Hangs(bytes) <=> (n < -8192 \/ n > 8191)
             /\ ~Hangs(bytes) => ReadPackedIntFromBuffer(bytes) = n
<1>1. CASE n < 0
  <2> DEFINE k == -n - 1
             b == (k % 64) + 64
             m == k \div 64
  <2>1. k \in Nat /\ n = -k - 1
    BY <1>1
  <2> HIDE DEF k
  <2>2. b \in 0 .. 127 /\ m \in Nat /\ b >= 64 /\ (b % 64) + 64 * m = k
    BY <2>1
  <2>3. m >= 128 <=> (n < -8192 \/ n > 8191)
    <3>1. m >= 128 <=> k >= 8192
      BY <2>1
    <3>2. k >= 8192 <=> (n < -8192 \/ n > 8191)
      BY <2>1
    <3> QED
      BY <3>1, <3>2
  <2>4. WritePackedInt(n) = Groups(b, m)
    BY <1>1 DEF WritePackedInt, k
  <2> HIDE DEF b, m
  <2> DEFINE bytes == Groups(b, m)
  <2>5. /\ ReadPackedInt(bytes) = -((b % 64) + 64 * m) - 1
        /\ Hangs(bytes) <=> m >= 128
        /\ ~Hangs(bytes) => ReadPackedIntFromBuffer(bytes) = -((b % 64) + 64 * m) - 1
    BY <2>2, GroupsRead, ZenonT(60)
  <2> HIDE DEF bytes
  <2>6. -((b % 64) + 64 * m) - 1 = n
    BY <2>1, <2>2
  <2> QED
    BY <2>3, <2>4, <2>5, <2>6 DEF bytes
<1>2. CASE n >= 0
  <2> DEFINE b == n % 64
             m == n \div 64
  <2>2. b \in 0 .. 127 /\ m \in Nat /\ ~(b >= 64) /\ (b % 64) + 64 * m = n
    BY <1>2
  <2>3. m >= 128 <=> (n < -8192 \/ n > 8191)
    <3>1. m >= 128 <=> n >= 8192
      BY <1>2
    <3>2. n >= 8192 <=> (n < -8192 \/ n > 8191)
      BY <1>2
    <3> QED
      BY <3>1, <3>2
  <2>4. WritePackedInt(n) = Groups(b, m)
    BY <1>2 DEF WritePackedInt
  <2> HIDE DEF b, m
  <2> DEFINE bytes == Groups(b, m)
  <2>5. /\ ReadPackedInt(bytes) = (b % 64) + 64 * m
        /\ Hangs(bytes) <=> m >= 128
        /\ ~Hangs(bytes) => ReadPackedIntFromBuffer(bytes) = (b % 64) + 64 * m
    BY <2>2, GroupsRead, ZenonT(60)
  <2> HIDE DEF bytes
  <2> QED
    BY <2>2, <2>3, <2>4, <2>5 DEF bytes
<1> QED
  BY <1>1, <1>2

----------------------------------------------------------------------------
\* A cluster that is found is found at its own name service.
PortsFound == \A c \in Clusters : PortOf[c] # None => ServiceAt[PortOf[c]] = c

\* No target names a port other than the default and no cluster: its port would be
\* dropped, and another cluster told of.
PortsKept == \A t \in Targets : t.cluster = None => t.port \in {None, DefaultPort}

PortsRight == PortsFound /\ PortsKept

----------------------------------------------------------------------------
(* The inductive invariant.                                                *)

Tales == {<<"error">>} \cup {<<"proxies", p>> : p \in Proxies \cup {None}}

Lookups ==
  [target : Targets \cup {None},
   stage  : {"unused", "cluster", "grpc", "over"},
   port   : Ports \cup {None},
   state  : {"INITIAL", "CONNECTION", "CHANNEL", "LOOKUP"},
   owed   : {"none", "connection", "rest", "channel", "result"},
   answer : {<<>>} \cup ((Ports \cup Proxies \cup {None}) \X (Lengths \cup {0})),
   intact : BOOLEAN,
   held   : SUBSET Proxies,
   told   : {<<>>} \cup {<<t>> : t \in Tales}]

\* While a lookup is under way its listener has been told nothing, and what the
\* name service has answered is a port first and proxies then.
IsLookup(l) ==
  /\ l \in Lookups
  /\ l.stage = "unused" => l = Unused
  /\ l.stage # "unused" => l.target \in Targets /\ l.port \in Ports
  /\ l.stage # "over" => l.told = <<>>
  /\ l.stage = "cluster" =>
       /\ l.target.cluster # None
       /\ l.answer # <<>> =>
            /\ l.answer[1] = PortOf[l.target.cluster]
            /\ l.answer[2] # 0 => l.answer[1] # None
  /\ l.stage = "grpc" /\ l.answer # <<>> => l.answer[1] \in Proxies

\* A lookup whose messages were whole is at the cluster that is wanted, holds the
\* proxies it has now, and has told nothing else than what it holds.
IsTrue(l, now) ==
  l.intact /\ l.stage # "unused" =>
    /\ l.told \in {<<>>, <<<<"error">>>>} \cup {<<<<"proxies", p>>>> : p \in l.held}
    /\ l.stage # "over" =>
         /\ now[Wanted(l.target)] \in l.held
         /\ l.owed # "rest" /\ ~(l.state = "LOOKUP" /\ l.owed = "channel")
    /\ l.stage = "grpc" =>
         /\ ServiceAt[l.port] = Wanted(l.target)
         /\ l.answer # <<>> => l.answer[1] \in l.held

Right(l, now) == IsLookup(l) /\ (PortsRight => IsTrue(l, now))

LookupInv ==
  /\ proxies \in [Clusters -> Proxies]
  /\ changes \in 0 .. MaxChanges /\ crashed \in BOOLEAN
  /\ lookups = [r \in Resolutions |-> lookups[r]]
  /\ \A r \in Resolutions : Right(lookups[r], proxies)

LEMMA BecomeRight ==
  ASSUME LookupInv, NEW r \in Resolutions, NEW l, Right(l, proxies), Become(r, l)
  PROVE  LookupInv'
<1>1. lookups' = [lookups EXCEPT ![r] = l] /\ proxies' = proxies /\ changes' = changes /\ crashed' = crashed
  BY DEF Become
<1>2. lookups' = [x \in Resolutions |-> lookups'[x]] /\ \A x \in Resolutions : Right(lookups'[x], proxies)
  BY <1>1 DEF LookupInv
<1>3. (\A x \in Resolutions : Right(lookups[x], proxies))'
  BY <1>1, <1>2 DEF Right, IsLookup, IsTrue
<1>. QED BY <1>1, <1>2, <1>3 DEF LookupInv

\* A handler that throws leaves the lookup as it is, though not intact.
LEMMA CrashRight ==
  ASSUME LookupInv, NEW r \in Resolutions, lookups[r].stage # "unused", Crash(r)
  PROVE  LookupInv'
<1>. DEFINE l == [lookups[r] EXCEPT !.intact = FALSE]
<1>1. lookups' = [lookups EXCEPT ![r] = l] /\ proxies' = proxies /\ changes' = changes /\ crashed' = TRUE
  BY DEF Crash
<1>2. IsLookup(lookups[r])
  BY DEF LookupInv, Right
<1>3. IsLookup(l) /\ l.intact = FALSE
  BY <1>2 DEF IsLookup, Lookups
<1>4. Right(l, proxies)
  BY <1>3 DEF Right, IsTrue
<1>. HIDE DEF l
<1>5. lookups' = [x \in Resolutions |-> lookups'[x]] /\ \A x \in Resolutions : Right(lookups'[x], proxies)
  BY <1>1, <1>4 DEF LookupInv
<1>6. (\A x \in Resolutions : Right(lookups[x], proxies))'
  BY <1>1, <1>5 DEF Right, IsLookup, IsTrue
<1>. QED BY <1>1, <1>5, <1>6 DEF LookupInv

----------------------------------------------------------------------------
(* What settles a lookup.                                                  *)

LEMMA WantedIsCluster ==
  ASSUME NEW t \in Targets
  PROVE  ParsedPort(t) \in Ports /\ Wanted(t) \in Clusters /\ t.cluster \in Clusters \cup {None}
<1>1. t \in [port : Ports \cup {None}, cluster : Clusters \cup {None}]
  BY LookupAssumption
<1>2. ParsedPort(t) \in Ports
  BY <1>1, LookupAssumption DEF ParsedPort
<1>. QED BY <1>1, <1>2, LookupAssumption DEF Wanted

LEMMA ToldRight ==
  ASSUME NEW l, NEW now, Right(l, now), l.stage \in {"cluster", "grpc"}, NEW what \in Tales,
         l.intact /\ PortsRight => what \in {<<"error">>} \cup {<<"proxies", p>> : p \in l.held}
  PROVE  Right(Told(l, what), now)
<1>. DEFINE m == Told(l, what)
<1>1. l.told = <<>> /\ IsLookup(l) /\ l \in Lookups
  BY DEF Right, IsLookup
<1>2. Append(l.told, what) = <<what>>
  BY <1>1
<1>3. /\ m \in Lookups
      /\ m.stage = "over" /\ m.told = <<what>> /\ m.target = l.target /\ m.port = l.port
      /\ m.intact = l.intact /\ m.held = l.held
  <2>1. m = [l EXCEPT !.stage = "over", !.told = <<what>>]
    BY <1>2 DEF Told
  <2>2. <<what>> \in {<<>>} \cup {<<t>> : t \in Tales}
    OBVIOUS
  <2>. QED BY <1>1, <2>1, <2>2 DEF Lookups
<1>. HIDE DEF m
<1>4. IsLookup(m)
  BY <1>1, <1>3 DEF IsLookup
<1>5. PortsRight => IsTrue(m, now)
  BY <1>3 DEF IsTrue
<1>. QED BY <1>4, <1>5 DEF Right, m

\* The second lookup starts at a port where there is a service, at that of the
\* wanted cluster if the first one was not misled.
LEMMA DialRight ==
  ASSUME NEW l, NEW now, Right(l, now), l.stage = "cluster", NEW port \in Ports,
         l.intact /\ PortsRight => ServiceAt[port] = Wanted(l.target)
  PROVE  Right(Dial(l, "grpc", port), now)
<1>. DEFINE m == Dial(l, "grpc", port)
<1>1. IsLookup(l)
  BY DEF Right
<1>2. /\ m \in Lookups
      /\ m.stage = "grpc" /\ m.told = l.told /\ m.target = l.target /\ m.port = port /\ m.state = "INITIAL"
      /\ m.owed = "none" /\ m.answer = <<>> /\ m.intact = l.intact /\ m.held = l.held
  BY <1>1 DEF IsLookup, Lookups, Dial
<1>. HIDE DEF m
<1>3. IsLookup(m)
  BY <1>1, <1>2 DEF IsLookup
<1>4. PortsRight => IsTrue(m, now)
  <2>1. l.told = <<>>
    BY <1>1 DEF IsLookup
  <2>. QED BY <1>2, <2>1 DEF IsTrue, Right
<1>. QED BY <1>3, <1>4 DEF Right, m

\* What the cluster's name service says leads to the second lookup, and what the
\* second says is told.
LEMMA ResolvedRight ==
  ASSUME NEW l, NEW now, Right(l, now), l.stage \in {"cluster", "grpc"}, NEW value,
         l.stage = "cluster" => value \in {None, PortOf[l.target.cluster]},
         l.stage = "grpc" => value \in Proxies \cup {None},
         l.stage = "grpc" /\ l.intact /\ PortsRight => value \in l.held
  PROVE  Right(Resolved(l, value), now)
<1>1. <<"error">> \in Tales /\ \A p \in Proxies \cup {None} : <<"proxies", p>> \in Tales
  BY DEF Tales
<1>2. Right(Told(l, <<"error">>), now)
  BY <1>1, ToldRight
<1>3. CASE l.stage = "cluster" /\ value = None
  BY <1>2, <1>3 DEF Resolved, Garbage
<1>4. CASE l.stage = "cluster" /\ value # None
  <2>1. l.target \in Targets /\ l.target.cluster # None
    BY <1>4 DEF Right, IsLookup
  <2>2. l.target.cluster \in Clusters /\ Wanted(l.target) = l.target.cluster
    BY <2>1, WantedIsCluster DEF Wanted
  <2>3. value = PortOf[l.target.cluster] /\ value \in Ports
    BY <1>4, <2>2, LookupAssumption
  <2>4. PortsRight => ServiceAt[value] = Wanted(l.target)
    BY <1>4, <2>2, <2>3 DEF PortsRight, PortsFound
  <2>5. Right(Dial(l, "grpc", value), now)
    BY <1>4, <2>3, <2>4, DialRight
  <2>. QED BY <1>4, <2>5 DEF Resolved, Garbage
<1>5. CASE l.stage = "grpc" /\ value = NoProxy
  BY <1>2, <1>5 DEF Resolved
<1>6. CASE l.stage = "grpc" /\ value # NoProxy
  <2>1. Right(Told(l, <<"proxies", value>>), now)
    BY <1>1, <1>6, ToldRight
  <2>. QED BY <1>6, <2>1 DEF Resolved
<1>. QED BY <1>3, <1>4, <1>5, <1>6

\* A rejection is told of by the first lookup, and ends the process in the second.
LEMMA RejectedStep ==
  ASSUME LookupInv, NEW r \in Resolutions, lookups[r].stage # "unused", NEW l, Right(l, proxies),
         l.stage \in {"cluster", "grpc"}, Rejected(r, l)
  PROVE  LookupInv'
<1>1. CASE l.stage = "cluster"
  <2>1. <<"error">> \in Tales
    BY DEF Tales
  <2>2. Right(Told(l, <<"error">>), proxies)
    BY <2>1, ToldRight
  <2>. QED BY <1>1, <2>2, BecomeRight DEF Rejected
<1>2. CASE l.stage # "cluster"
  BY <1>2, CrashRight DEF Rejected
<1>. QED BY <1>1, <1>2

----------------------------------------------------------------------------
(* The actions.                                                            *)

\* A lookup under way moves on, and is told nothing.
LEMMA MovedRight ==
  ASSUME NEW l, NEW now, Right(l, now), l.stage \in {"cluster", "grpc"}, NEW m,
         m \in Lookups, m.stage = l.stage, m.target = l.target, m.port = l.port, m.told = l.told, m.held = l.held,
         m.answer = l.answer, m.intact => l.intact /\ m.owed # "rest" /\ ~(m.state = "LOOKUP" /\ m.owed = "channel")
  PROVE  Right(m, now)
<1>1. IsLookup(m)
  BY DEF Right, IsLookup
<1>2. PortsRight => IsTrue(m, now)
  BY DEF Right, IsTrue
<1>. QED BY <1>1, <1>2 DEF Right

LEMMA ActiveRight ==
  ASSUME LookupInv, NEW r \in Resolutions, Active(r)
  PROVE  /\ Right(lookups[r], proxies) /\ IsLookup(lookups[r]) /\ lookups[r] \in Lookups
         /\ lookups[r].stage \in {"cluster", "grpc"} /\ lookups[r].stage # "unused"
BY DEF LookupInv, Active, Right, IsLookup

LEMMA UpdateResolutionStep ==
  ASSUME LookupInv, NEW r \in Resolutions, UpdateResolution(r)
  PROVE  LookupInv'
<1>1. PICK t \in Targets :
        Become(r, Dial([Unused EXCEPT !.target = t, !.held = {proxies[Wanted(t)]}],
                       IF t.cluster # None THEN "cluster" ELSE "grpc", ParsedPort(t)))
  BY DEF UpdateResolution
<1>. DEFINE s == IF t.cluster # None THEN "cluster" ELSE "grpc"
            m == Dial([Unused EXCEPT !.target = t, !.held = {proxies[Wanted(t)]}], s, ParsedPort(t))
<1>2. ParsedPort(t) \in Ports /\ Wanted(t) \in Clusters /\ proxies[Wanted(t)] \in Proxies
  BY WantedIsCluster DEF LookupInv
<1>3. /\ m \in Lookups
      /\ m.stage = s /\ m.told = <<>> /\ m.target = t /\ m.port = ParsedPort(t) /\ m.state = "INITIAL"
      /\ m.owed = "none" /\ m.answer = <<>> /\ m.intact = TRUE /\ m.held = {proxies[Wanted(t)]}
  BY <1>2 DEF Lookups, Dial, Unused
<1>4. PortsRight /\ t.cluster = None => ServiceAt[ParsedPort(t)] = Wanted(t)
  BY DEF Wanted, ParsedPort, PortsRight, PortsKept
<1>. HIDE DEF m
<1>5. Right(m, proxies)
  BY <1>2, <1>3, <1>4 DEF Right, IsLookup, IsTrue
<1>6. Become(r, m)
  BY <1>1 DEF m
<1>. QED BY <1>5, <1>6, BecomeRight

LEMMA ConnectStep ==
  ASSUME LookupInv, NEW r \in Resolutions, Connect(r)
  PROVE  LookupInv'
<1>. DEFINE l == lookups[r]
            m == [l EXCEPT !.state = "CONNECTION", !.owed = "connection"]
<1>1. Active(r) /\ Become(r, m)
  BY DEF Connect
<1>2. /\ m \in Lookups /\ m.stage = l.stage /\ m.target = l.target /\ m.port = l.port /\ m.told = l.told
      /\ m.held = l.held /\ m.answer = l.answer /\ m.state = "CONNECTION" /\ m.owed = "connection" /\ m.intact = l.intact
  BY <1>1, ActiveRight DEF Lookups
<1>. HIDE DEF m
<1>3. Right(m, proxies)
  BY <1>1, <1>2, ActiveRight, MovedRight
<1>. QED BY <1>1, <1>3, BecomeRight

LEMMA ConnectionRead ==
  ASSUME NEW l \in Lookups, NEW o \in {"channel", "rest"}, NEW b \in BOOLEAN
  PROVE  [l EXCEPT !.state = "CHANNEL", !.owed = o, !.intact = b] \in Lookups
BY ZenonT(60) DEF Lookups

LEMMA ReadConnectionStep ==
  ASSUME LookupInv, NEW r \in Resolutions, NEW whole \in BOOLEAN, ReadConnection(r, whole)
  PROVE  LookupInv'
<1>. DEFINE l == lookups[r]
            m == [l EXCEPT !.state = "CHANNEL", !.owed = IF whole THEN "channel" ELSE "rest", !.intact = @ /\ whole]
<1>1. Active(r) /\ Become(r, m)
  BY DEF ReadConnection
<1>2. /\ m \in Lookups /\ m.stage = l.stage /\ m.target = l.target /\ m.port = l.port /\ m.told = l.told
      /\ m.held = l.held /\ m.answer = l.answer /\ m.state = "CHANNEL" /\ m.intact = (l.intact /\ whole)
      /\ m.owed = IF whole THEN "channel" ELSE "rest"
  <2>1. l \in Lookups
    BY <1>1, ActiveRight
  <2>. HIDE DEF l
  <2>2. (l.intact /\ whole) \in BOOLEAN /\ (IF whole THEN "channel" ELSE "rest") \in {"channel", "rest"}
    BY <2>1 DEF Lookups
  <2>3. m \in Lookups
    BY <2>1, <2>2, ConnectionRead
  <2>. QED BY <2>1, <2>3 DEF Lookups
<1>. HIDE DEF m
<1>3. Right(m, proxies)
  BY <1>1, <1>2, ActiveRight, MovedRight
<1>. QED BY <1>1, <1>3, BecomeRight

LEMMA ReadRestStep ==
  ASSUME LookupInv, NEW r \in Resolutions, ReadRest(r)
  PROVE  LookupInv'
<1>. DEFINE l == lookups[r]
            m == [l EXCEPT !.state = "LOOKUP", !.owed = "channel"]
<1>1. Active(r) /\ l.owed = "rest" /\ (Crash(r) \/ Become(r, m))
  BY DEF ReadRest
<1>2. CASE Crash(r)
  BY <1>1, <1>2, ActiveRight, CrashRight
<1>3. CASE Become(r, m)
  <2>1. /\ m \in Lookups /\ m.stage = l.stage /\ m.target = l.target /\ m.port = l.port /\ m.told = l.told
        /\ m.held = l.held /\ m.answer = l.answer /\ m.intact = l.intact
    <3>1. l \in Lookups
      BY <1>1, ActiveRight
    <3>. HIDE DEF l
    <3>2. m \in Lookups
      BY <3>1 DEF Lookups
    <3>. QED BY <3>1, <3>2 DEF Lookups
  <2>2. PortsRight => ~l.intact
    BY <1>1, ActiveRight DEF Right, IsTrue
  <2>. HIDE DEF m
  <2>3. IsLookup(m)
    BY <1>1, <2>1, ActiveRight DEF IsLookup
  <2>4. Right(m, proxies)
    BY <2>1, <2>2, <2>3 DEF Right, IsTrue
  <2>. QED BY <1>3, <2>4, BecomeRight
<1>. QED BY <1>1, <1>2, <1>3

LEMMA ReadChannelStep ==
  ASSUME LookupInv, NEW r \in Resolutions, NEW whole \in BOOLEAN, ReadChannel(r, whole)
  PROVE  LookupInv'
<1>. DEFINE l == lookups[r]
            m == [l EXCEPT !.state = "LOOKUP", !.owed = "result"]
<1>1. Active(r) /\ (Crash(r) \/ Become(r, m))
  BY DEF ReadChannel
<1>2. CASE Crash(r)
  BY <1>1, <1>2, ActiveRight, CrashRight
<1>3. CASE Become(r, m)
  <2>1. /\ m \in Lookups /\ m.stage = l.stage /\ m.target = l.target /\ m.port = l.port /\ m.told = l.told
        /\ m.held = l.held /\ m.answer = l.answer /\ m.intact = l.intact /\ m.owed = "result"
    BY <1>1, ActiveRight, ZenonT(60) DEF Lookups
  <2>. HIDE DEF m
  <2>2. Right(m, proxies)
    BY <1>1, <2>1, ActiveRight, MovedRight
  <2>. QED BY <1>3, <2>2, BecomeRight
<1>. QED BY <1>1, <1>2, <1>3

LEMMA ServeStep ==
  ASSUME LookupInv, NEW r \in Resolutions, Serve(r)
  PROVE  LookupInv'
<1>. DEFINE l == lookups[r]
            found == IF l.stage = "cluster" THEN PortOf[l.target.cluster] ELSE proxies[ServiceAt[l.port]]
<1>1. PICK length \in Lengths \cup {0} :
        /\ Active(r) /\ l.state = "LOOKUP" /\ l.owed = "result"
        /\ found = None => length = 0
        /\ Become(r, [l EXCEPT !.answer = <<found, length>>])
  BY DEF Serve
<1>. DEFINE m == [l EXCEPT !.answer = <<found, length>>]
<1>2. Right(l, proxies) /\ IsLookup(l) /\ l \in Lookups /\ l.stage \in {"cluster", "grpc"}
  BY <1>1, ActiveRight
<1>3. l.target \in Targets /\ l.port \in Ports
  BY <1>2 DEF IsLookup
<1>4. l.stage = "cluster" => found = PortOf[l.target.cluster] /\ found \in Ports \cup {None}
  BY <1>2, <1>3, WantedIsCluster, LookupAssumption DEF IsLookup
<1>5. l.stage = "grpc" => found = proxies[ServiceAt[l.port]] /\ found \in Proxies
  BY <1>3, LookupAssumption DEF LookupInv
<1>. HIDE DEF found
<1>6. m \in Lookups
  BY <1>2, <1>4, <1>5 DEF Lookups
<1>7. /\ m.stage = l.stage /\ m.target = l.target /\ m.port = l.port /\ m.told = l.told
      /\ m.held = l.held /\ m.state = l.state /\ m.owed = l.owed /\ m.intact = l.intact
      /\ m.answer = <<found, length>> /\ m.answer[1] = found /\ m.answer[2] = length
  BY <1>2 DEF Lookups
<1>8. Become(r, m)
  BY <1>1
<1>. HIDE DEF m
<1>9. IsLookup(m)
  BY <1>1, <1>2, <1>4, <1>5, <1>6, <1>7 DEF IsLookup
<1>10. PortsRight => IsTrue(m, proxies)
  BY <1>2, <1>5, <1>7 DEF Right, IsTrue
<1>. QED BY <1>8, <1>9, <1>10, BecomeRight DEF Right

LEMMA LengthsAreIntegers == \A k \in Lengths : k \in Int
<1>1. Lengths \subseteq Nat \ {0}
  BY LookupAssumption, Zenon
<1>. QED BY <1>1

LEMMA ReadResultStep ==
  ASSUME LookupInv, NEW r \in Resolutions, NEW whole \in BOOLEAN, ReadResult(r, whole)
  PROVE  LookupInv'
<1>. DEFINE l == lookups[r]
            length == WritePackedInt(l.answer[2])
            value == IF ReadPackedIntFromBuffer(length) = l.answer[2] THEN l.answer[1] ELSE Garbage
<1>1. /\ Active(r) /\ l.answer # <<>>
      /\ \/ Crash(r)
         \/ /\ ~Hangs(length)
            /\ IF l.answer[2] = 0 THEN Rejected(r, l) ELSE Become(r, Resolved(l, value))
  BY DEF ReadResult
<1>2. Right(l, proxies) /\ IsLookup(l) /\ l \in Lookups /\ l.stage \in {"cluster", "grpc"} /\ l.stage # "unused"
  BY <1>1, ActiveRight
<1>3. CASE Crash(r)
  BY <1>2, <1>3, CrashRight
<1>4. CASE l.answer[2] = 0 /\ Rejected(r, l)
  BY <1>2, <1>4, RejectedStep
<1>5. CASE ~Hangs(length) /\ l.answer[2] # 0 /\ Become(r, Resolved(l, value))
  <2>1. l.answer[2] \in Lengths
    BY <1>1, <1>2, <1>5 DEF Lookups
  <2>2. value = l.answer[1]
    <3>1. l.answer[2] \in Int
      BY <2>1, LengthsAreIntegers
    <3>2. ReadPackedIntFromBuffer(length) = l.answer[2]
      BY <1>5, <3>1, PackedIntRead
    <3> QED
      BY <3>2
  <2>3. value \in {l.answer[1], None}
    BY DEF Garbage
  <2>. HIDE DEF value
  <2>4. l.stage = "cluster" => value \in {None, PortOf[l.target.cluster]}
    BY <1>1, <1>2, <2>3 DEF IsLookup
  <2>5. l.stage = "grpc" => value \in Proxies \cup {None}
    BY <1>1, <1>2, <2>3 DEF IsLookup
  <2>6. l.stage = "grpc" /\ l.intact /\ PortsRight => value \in l.held
    BY <1>1, <1>2, <2>2 DEF Right, IsTrue
  <2>7. Right(Resolved(l, value), proxies)
    BY <1>2, <2>4, <2>5, <2>6, ResolvedRight
  <2>. QED BY <1>5, <2>7, BecomeRight
<1>. QED BY <1>1, <1>3, <1>4, <1>5

LEMMA ReadLateStep ==
  ASSUME LookupInv, NEW r \in Resolutions, ReadLate(r)
  PROVE  LookupInv'
<1>. DEFINE l == lookups[r]
<1>1. /\ Active(r) /\ l.state = "LOOKUP" /\ l.owed = "channel"
      /\ Rejected(r, l) \/ Become(r, Resolved(l, Garbage))
  BY DEF ReadLate
<1>2. Right(l, proxies) /\ l.stage \in {"cluster", "grpc"} /\ l.stage # "unused"
  BY <1>1, ActiveRight
<1>3. PortsRight => ~l.intact
  BY <1>1, <1>2 DEF Right, IsTrue
<1>4. CASE Rejected(r, l)
  BY <1>2, <1>4, RejectedStep
<1>5. Right(Resolved(l, Garbage), proxies)
  BY <1>2, <1>3, ResolvedRight DEF Garbage
<1>. QED BY <1>1, <1>4, <1>5, BecomeRight

LEMMA ServiceClosesStep ==
  ASSUME LookupInv, NEW r \in Resolutions, ServiceCloses(r)
  PROVE  LookupInv'
<1>. DEFINE l == lookups[r]
            m == [l EXCEPT !.state = "CHANNEL", !.owed = "none", !.intact = FALSE]
<1>1. Active(r) /\ (Crash(r) \/ Become(r, m))
  BY DEF ServiceCloses
<1>2. CASE Crash(r)
  BY <1>1, <1>2, ActiveRight, CrashRight
<1>3. CASE Become(r, m)
  <2>1. /\ m \in Lookups /\ m.stage = l.stage /\ m.target = l.target /\ m.port = l.port /\ m.told = l.told
        /\ m.held = l.held /\ m.answer = l.answer /\ m.intact = FALSE
    BY <1>1, ActiveRight, ZenonT(60) DEF Lookups
  <2>. HIDE DEF m
  <2>2. Right(m, proxies)
    BY <1>1, <2>1, ActiveRight, MovedRight
  <2>. QED BY <1>3, <2>2, BecomeRight
<1>. QED BY <1>1, <1>2, <1>3

LEMMA SocketErrorStep ==
  ASSUME LookupInv, NEW r \in Resolutions, SocketError(r)
  PROVE  LookupInv'
<1>. DEFINE l == lookups[r]
            m == [l EXCEPT !.intact = FALSE]
<1>1. Active(r) /\ Rejected(r, m)
  BY DEF SocketError
<1>2. /\ m \in Lookups /\ m.stage = l.stage /\ m.target = l.target /\ m.port = l.port /\ m.told = l.told
      /\ m.held = l.held /\ m.answer = l.answer /\ m.intact = FALSE
  BY <1>1, ActiveRight, ZenonT(60) DEF Lookups
<1>. HIDE DEF m
<1>3. Right(m, proxies) /\ m.stage \in {"cluster", "grpc"}
  BY <1>1, <1>2, ActiveRight, MovedRight
<1>4. l.stage # "unused"
  BY <1>1, ActiveRight
<1>. QED BY <1>1, <1>3, <1>4, RejectedStep

\* Those who want the proxies of c hold them from now on.
LEMMA ChangeStep ==
  ASSUME LookupInv, NEW c \in Clusters, Change(c)
  PROVE  LookupInv'
<1>1. PICK p \in Proxies :
        /\ proxies' = [proxies EXCEPT ![c] = p]
        /\ lookups' = [r \in Resolutions |->
             IF Active(r) /\ Wanted(lookups[r].target) = c
             THEN [lookups[r] EXCEPT !.held = @ \cup {p}] ELSE lookups[r]]
  BY DEF Change
<1>2. changes' \in 0 .. MaxChanges /\ crashed' \in BOOLEAN
  BY LookupAssumption DEF Change, LookupInv
<1>3. proxies' \in [Clusters -> Proxies]
  BY <1>1 DEF LookupInv
<1>4. ASSUME NEW r \in Resolutions PROVE Right(lookups'[r], proxies')
  <2>. DEFINE l == lookups[r]
  <2>1. Right(l, proxies) /\ IsLookup(l)
    BY DEF LookupInv, Right
  <2>2. CASE Active(r) /\ Wanted(l.target) = c
    <3>. DEFINE m == [l EXCEPT !.held = @ \cup {p}]
    <3>1. lookups'[r] = m
      BY <1>1, <2>2
    <3>2. /\ m \in Lookups /\ m.stage = l.stage /\ m.target = l.target /\ m.port = l.port /\ m.told = l.told
          /\ m.state = l.state /\ m.owed = l.owed
          /\ m.held = l.held \cup {p} /\ m.answer = l.answer /\ m.intact = l.intact
      BY <2>1 DEF IsLookup, Lookups
    <3>3. proxies'[Wanted(l.target)] = p
      BY <1>1, <2>2 DEF LookupInv
    <3>. HIDE DEF m
    <3>4. IsLookup(m)
      BY <2>1, <2>2, <3>2 DEF IsLookup, Active
    <3>5. PortsRight => IsTrue(m, proxies')
      BY <2>1, <2>2, <3>2, <3>3 DEF Right, IsTrue, Active
    <3>. QED BY <3>1, <3>4, <3>5 DEF Right
  <2>3. CASE ~(Active(r) /\ Wanted(l.target) = c)
    <3>1. lookups'[r] = l
      BY <1>1, <2>3
    <3>2. l.stage \in {"cluster", "grpc"} => proxies'[Wanted(l.target)] = proxies[Wanted(l.target)]
      BY <1>1, <2>3 DEF LookupInv, Active
    <3>3. PortsRight => IsTrue(l, proxies')
      BY <2>1, <3>2 DEF Right, IsTrue, IsLookup, Lookups
    <3>. QED BY <2>1, <3>1, <3>3 DEF Right
  <2>. QED BY <2>2, <2>3
<1>5. (\A r \in Resolutions : Right(lookups[r], proxies))'
  BY <1>4 DEF Right, IsLookup, IsTrue
<1>6. lookups' = [r \in Resolutions |-> lookups'[r]]
  BY <1>1
<1>. QED BY <1>2, <1>3, <1>5, <1>6 DEF LookupInv

----------------------------------------------------------------------------
(* The theorems.                                                           *)

LEMMA InitRight == Init => LookupInv
<1>1. IsLookup(Unused) /\ Unused.stage = "unused"
  BY DEF IsLookup, Lookups, Unused
<1>2. \A now : Right(Unused, now)
  BY <1>1 DEF Right, IsTrue
<1>3. ASSUME Init PROVE LookupInv
  <2>1. proxies \in [Clusters -> Proxies]
    <3>1. AtFirst \subseteq [Clusters -> Proxies] /\ proxies \in AtFirst
      BY <1>3, LookupAssumption DEF Init
    <3>. QED BY <3>1
  <2>2. lookups = [r \in Resolutions |-> Unused] /\ changes = 0 /\ crashed = FALSE
    BY <1>3 DEF Init
  <2>3. lookups = [r \in Resolutions |-> lookups[r]] /\ \A r \in Resolutions : Right(lookups[r], proxies)
    BY <1>2, <2>2
  <2>4. changes \in 0 .. MaxChanges
    BY <2>2, LookupAssumption
  <2>. QED BY <2>1, <2>2, <2>3, <2>4 DEF LookupInv
<1>. QED BY <1>3

LEMMA NextRight == LookupInv /\ [Next]_vars => LookupInv'
<1>. SUFFICES ASSUME LookupInv, [Next]_vars PROVE LookupInv'
  OBVIOUS
<1>1. ASSUME NEW r \in Resolutions, UpdateResolution(r) \/ Connect(r) \/ Serve(r) PROVE LookupInv'
  BY <1>1, UpdateResolutionStep, ConnectStep, ServeStep
<1>2. ASSUME NEW r \in Resolutions, NEW whole \in BOOLEAN, Arrives(r, whole) PROVE LookupInv'
  BY <1>2, ReadConnectionStep, ReadChannelStep, ReadResultStep DEF Arrives
<1>3. ASSUME NEW r \in Resolutions, ReadRest(r) \/ ReadLate(r) PROVE LookupInv'
  BY <1>3, ReadRestStep, ReadLateStep
<1>4. ASSUME NEW r \in Resolutions, ServiceCloses(r) \/ SocketError(r) PROVE LookupInv'
  BY <1>4, ServiceClosesStep, SocketErrorStep
<1>5. ASSUME NEW c \in Clusters, Change(c) PROVE LookupInv'
  BY <1>5, ChangeStep
<1>6. CASE UNCHANGED vars
  BY <1>6 DEF vars, LookupInv, Right, IsLookup, IsTrue
<1>. QED BY <1>1, <1>2, <1>3, <1>4, <1>5, <1>6 DEF Next

LEMMA AlwaysRight == Spec => []LookupInv
<1>. QED BY InitRight, NextRight, PTL DEF Spec

\* Every lookup goes to a port where there is a service.
THEOREM TypeCorrect == Spec => []TypeOK
<1>1. LookupInv => TypeOK
  BY DEF LookupInv, Right, IsLookup, Lookups, TypeOK
<1>. QED BY <1>1, AlwaysRight, PTL

\* A resolution is answered once at most, over both of its lookups and whatever
\* becomes of its sockets.
THEOREM TellsOnce == Spec => []ToldOnce
<1>1. LookupInv => ToldOnce
  <2>1. LookupInv => \A r \in Resolutions : lookups[r].told \in {<<>>} \cup {<<t>> : t \in Tales}
    BY DEF LookupInv, Right, IsLookup, Lookups
  <2>2. \A s \in {<<>>} \cup {<<t>> : t \in Tales} : Len(s) <= 1
    <3>1. ASSUME NEW t PROVE Len(<<t>>) = 1
      OBVIOUS
    <3>2. Len(<<>>) = 0
      OBVIOUS
    <3>3. ASSUME NEW s, NEW t \in Tales, s = <<t>> PROVE Len(s) <= 1
      BY <3>1, <3>3
    <3>. QED BY <3>2, <3>3
  <2>. QED BY <2>1, <2>2 DEF ToldOnce
<1>. QED BY <1>1, AlwaysRight, PTL

\* The proxies that are told were those of the cluster that the target asks for,
\* over any changes of theirs, unless messages were cut, for targets that do not
\* name a port alone and name services that know where the others are.
THEOREM TellsTheTruth == PortsRight => (Spec => []ToldTheTruth)
<1>. SUFFICES ASSUME PortsRight PROVE Spec => []ToldTheTruth
  OBVIOUS
<1>1. LookupInv => ToldTheTruth
  <2>. SUFFICES ASSUME LookupInv, NEW r \in Resolutions, lookups[r].intact, NEW i \in DOMAIN lookups[r].told
                PROVE  lookups[r].told[i] \in {<<"error">>} \cup {<<"proxies", p>> : p \in lookups[r].held}
    BY DEF ToldTheTruth
  <2>1. IsLookup(lookups[r]) /\ IsTrue(lookups[r], proxies)
    BY DEF LookupInv, Right
  <2>2. lookups[r].told \in {<<>>, <<<<"error">>>>} \cup {<<<<"proxies", p>>>> : p \in lookups[r].held}
    BY <2>1 DEF IsLookup, IsTrue, Unused
  <2>. QED BY <2>2
<1>2. Spec => []LookupInv
  BY AlwaysRight
<1>. QED BY <1>1, <1>2, PTL

\* The codec of the name service protocol: whatever integers are written, they are
\* read back from the socket, and from a message exactly if they fit into two
\* bytes; the reader of messages hangs on every other, but misreads none.
THEOREM ReadsBack == Spec => []PackedIntsReadBack
<1>1. PackedIntsReadBack
  <2>1. \A n \in Numbers : n \in Int
    <3>1. Numbers \subseteq Int32
      BY LookupAssumption, Zenon
    <3>2. \A n \in Int32 : n \in Int
      BY SMT DEF Int32
    <3>. QED BY <3>1, <3>2, Zenon
  <2>2. ASSUME NEW n \in Numbers
        PROVE  LET bytes == WritePackedInt(n)
               IN  /\ ReadPackedInt(bytes) = n
                   /\ Hangs(bytes) <=> (n < -8192 \/ n > 8191)
                   /\ ~Hangs(bytes) => ReadPackedIntFromBuffer(bytes) = n
    <3>1. n \in Int
      BY <2>1
    <3>. QED BY <3>1, PackedIntRead
  <2>. QED BY <2>2 DEF PackedIntsReadBack
<1>. QED BY <1>1, PTL

============================================================================
