------------------------ MODULE PagedIterationProofs ------------------------
(***************************************************************************)
(* An iteration that awaits next() before it calls it again, and stops     *)
(* when it is rejected - what `for await' does - yields every entry once   *)
(* and in order, however long the cache is and however it is paged.        *)
(***************************************************************************)
EXTENDS PagedIteration, SequenceTheorems, TLAPS

Awaited == Serial /\ ~MayRetry

----------------------------------------------------------------------------
\* A page of entries is a sequence.
LEMMA EntriesSeq ==
  ASSUME NEW from \in 0 .. Total, NEW to \in 0 .. Total, from <= to
  PROVE  /\ Entries(from, to) \in Seq(1 .. Total)
         /\ Len(Entries(from, to)) = to - from
         /\ \A i \in 1 .. (to - from) : Entries(from, to)[i] = from + i
<1> DEFINE n == to - from
           s == Entries(from, to)
<1>1. n \in Nat
  BY PagesAssumption
<1>2. /\ s = [i \in 1 .. n |-> from + i]
      /\ \A i \in 1 .. n : from + i \in 1 .. Total
  BY PagesAssumption DEF Entries
<1>3. s \in Seq(1 .. Total)
  <2> HIDE DEF n, s
  <2> QED
    BY <1>1, <1>2, IsASeq
<1>4. Len(s) = n
  <2>1. Len(s) \in Nat /\ DOMAIN s = 1 .. Len(s)
    BY <1>3, LenProperties
  <2>2. DOMAIN s = 1 .. n
    BY <1>2
  <2> QED
    BY <1>1, <2>1, <2>2
<1>5. \A i \in 1 .. n : s[i] = from + i
  BY DEF Entries
<1> QED
  BY <1>3, <1>4, <1>5

----------------------------------------------------------------------------
\* Append, element by element.
LEMMA AppendOne ==
  ASSUME NEW S, NEW s \in Seq(S), NEW e \in S
  PROVE  /\ Append(s, e) \in Seq(S)
         /\ Len(s) \in Nat /\ Len(Append(s, e)) = Len(s) + 1
         /\ DOMAIN Append(s, e) = 1 .. (Len(s) + 1)
         /\ \A i \in 1 .. (Len(s) + 1) : Append(s, e)[i] = IF i = Len(s) + 1 THEN e ELSE s[i]
<1>1. Append(s, e) \in Seq(S) /\ Len(Append(s, e)) = Len(s) + 1 /\ Len(s) \in Nat
  BY AppendProperties, LenProperties
<1>2. DOMAIN Append(s, e) = 1 .. (Len(s) + 1)
  BY <1>1, LenProperties
<1>3. ASSUME NEW i \in 1 .. (Len(s) + 1)
      PROVE  Append(s, e)[i] = IF i = Len(s) + 1 THEN e ELSE s[i]
  <2>1. i = Len(s) + 1 \/ i \in 1 .. Len(s)
    BY <1>1
  <2> QED
    BY <1>1, <2>1, AppendProperties
<1> QED
  BY <1>1, <1>2, <1>3

\* Yielding the next number after 1, 2, ..., Len(s).
LEMMA CountOn ==
  ASSUME NEW s \in Seq(1 .. Total), \A i \in 1 .. Len(s) : s[i] = i,
         Len(s) + 1 \in 1 .. Total
  PROVE  LET t == Append(s, Len(s) + 1)
         IN  t \in Seq(1 .. Total) /\ Len(t) = Len(s) + 1 /\ \A i \in 1 .. Len(t) : t[i] = i
<1>1. \A i \in 1 .. (Len(s) + 1) : i = Len(s) + 1 \/ i \in 1 .. Len(s)
  BY LenProperties
<1> QED
  BY <1>1, AppendOne

\* The head of a page that follows on from the first n entries, and its tail.
LEMMA TailFollows ==
  ASSUME NEW n \in Nat, NEW page \in Seq(1 .. Total), page # <<>>,
         \A i \in 1 .. Len(page) : page[i] = n + i
  PROVE  /\ Head(page) = n + 1 /\ n + 1 \in 1 .. Total
         /\ Tail(page) \in Seq(1 .. Total)
         /\ Len(page) \in Nat /\ Len(Tail(page)) = Len(page) - 1
         /\ \A i \in 1 .. Len(Tail(page)) : Tail(page)[i] = (n + 1) + i
<1>1. Len(page) \in Nat /\ 1 \in 1 .. Len(page)
  BY EmptySeq, LenProperties
<1>2. Head(page) = page[1] /\ Head(page) \in 1 .. Total
  <2>1. Head(page) = page[1]
    BY <1>1
  <2> QED
    BY <2>1, HeadTailProperties
<1>3. /\ Tail(page) \in Seq(1 .. Total) /\ Len(Tail(page)) = Len(page) - 1
      /\ \A i \in 1 .. Len(Tail(page)) : Tail(page)[i] = page[i + 1]
  BY HeadTailProperties
<1>4. \A i \in 1 .. Len(Tail(page)) : i + 1 \in 1 .. Len(page) /\ n + (i + 1) = (n + 1) + i
  BY <1>1, <1>3
<1>5. \A i \in 1 .. Len(Tail(page)) : Tail(page)[i] = (n + 1) + i
  BY <1>3, <1>4
<1> QED
  BY <1>1, <1>2, <1>3, <1>5

\* One load is started when all others are over.
LEMMA LoadStarted ==
  ASSUME From(cookie) \in 0 .. Total,
         NEW started \in Seq(Loads),
         \A l \in 1 .. Len(started) : started[l].phase = "done",
         loads' = Append(started, NewLoad)
  PROVE  /\ loads' \in Seq(Loads)
         /\ Open' = {Len(loads')} /\ Failed' = {}
         /\ ~loads'[Len(loads')].started
         /\ loads'[Len(loads')].from = From(cookie)
<1>1. NewLoad \in Loads
  <2>1. NewLoad = [phase |-> "open", from |-> From(cookie), started |-> FALSE, to |-> 0]
    BY DEF NewLoad
  <2>2. From(cookie) \in 0 .. Total /\ 0 \in 0 .. Total
    BY PagesAssumption
  <2> QED
    BY <2>1, <2>2 DEF Loads
<1> DEFINE n == Len(started)
<1>2. /\ loads' \in Seq(Loads) /\ n \in Nat /\ Len(loads') = n + 1
      /\ DOMAIN loads' = 1 .. (n + 1)
      /\ \A l \in 1 .. (n + 1) : loads'[l] = IF l = n + 1 THEN NewLoad ELSE started[l]
  <2> HIDE DEF NewLoad, Loads
  <2> QED
    BY <1>1, AppendOne
<1>3. \A l \in 1 .. (n + 1) : l = n + 1 \/ l \in 1 .. n
  BY <1>2
<1>4. n + 1 \in 1 .. (n + 1) /\ loads'[n + 1] = NewLoad
  BY <1>2
<1>5. \A l \in 1 .. (n + 1) : l # n + 1 => loads'[l].phase = "done"
  BY <1>2, <1>3
<1>6. NewLoad.phase = "open" /\ ~NewLoad.started /\ NewLoad.from = From(cookie)
  BY DEF NewLoad
<1> HIDE DEF n
<1>7. Open' = {n + 1} /\ Failed' = {}
  BY <1>2, <1>4, <1>5, <1>6 DEF Open, Failed
<1> QED
  BY <1>2, <1>4, <1>6, <1>7

----------------------------------------------------------------------------
\* What is held follows on from what has been yielded.
Consecutive ==
  /\ \A i \in 1 .. Len(delivered) : delivered[i] = i
  /\ \A i \in 1 .. Len(data) : data[i] = Len(delivered) + i

\* The one page that is being loaded follows on from what has been yielded, and
\* the cookie belongs to that page or, once it has started, to the next one.
LoadInPlace(l) ==
  /\ l = Len(loads)
  /\ Failed = {}
  /\ data = <<>>
  /\ loads[l].from = Len(delivered)
  /\ IF loads[l].started
     THEN /\ loads[l].from <= loads[l].to
          /\ IF cookie = None THEN loads[l].to = Total ELSE cookie = loads[l].to
     ELSE From(cookie) = loads[l].from

\* Between loads the cookie follows on from what is held.
CookieInPlace ==
  Open = {} /\ Failed = {} =>
    Len(delivered) + Len(data) = IF exhausted THEN Total ELSE From(cookie)

IterationInv ==
  /\ TypeOK
  /\ Consecutive
  /\ \A l \in Open : LoadInPlace(l)
  /\ CookieInPlace
  /\ finished => Len(delivered) = Total

\* The position of a cookie is a number of entries.
LEMMA FromType ==
  ASSUME NEW c \in {None} \cup 0 .. Total
  PROVE  From(c) \in 0 .. Total
BY PagesAssumption DEF From, None

LEMMA InitInv == Init => IterationInv
<1> SUFFICES ASSUME Init PROVE IterationInv
  OBVIOUS
<1>1. TypeOK
  <2>1. data \in Seq(1 .. Total) /\ delivered \in Seq(1 .. Total) /\ loads \in Seq(Loads)
    BY DEF Init
  <2> QED
    BY <2>1 DEF Init, TypeOK
<1>2. Open = {} /\ Failed = {}
  BY DEF Init, Open, Failed
<1>3. Consecutive
  BY DEF Init, Consecutive
<1>4. CookieInPlace
  BY DEF Init, CookieInPlace, From
<1> QED
  BY <1>1, <1>2, <1>3, <1>4 DEF IterationInv, Init

----------------------------------------------------------------------------
\* One entry moves from what is held to what has been yielded.
LEMMA OneOnward ==
  \A n, m \in Nat : (n + 1) + (m - 1) = n + m /\ (n + 1 \in 1 .. Total => n # Total)
BY PagesAssumption

\* The body of next(), called when nothing is being loaded (the loads given as
\* `started' are all over): given entries that follow on from what has been
\* yielded, and a cookie that follows on from them, the invariant holds after.
LEMMA AdvanceKeepsInv ==
  ASSUME TypeOK,
         \A i \in 1 .. Len(delivered) : delivered[i] = i,
         finished => Len(delivered) = Total,
         NEW page \in Seq(1 .. Total),
         \A i \in 1 .. Len(page) : page[i] = Len(delivered) + i,
         NEW exh \in BOOLEAN,
         NEW started \in Seq(Loads),
         \A l \in 1 .. Len(started) : started[l].phase = "done",
         Len(delivered) + Len(page) = (IF exh THEN Total ELSE From(cookie)),
         Advance(page, exh, started),
         exhausted' = exh,
         UNCHANGED cookie,
         used' \in [calls : Nat, fails : Nat]
  PROVE  IterationInv'
<1> USE PagesAssumption
<1>1. /\ Len(delivered) \in Nat /\ DOMAIN delivered = 1 .. Len(delivered)
      /\ Len(page) \in Nat /\ Len(started) \in Nat /\ DOMAIN started = 1 .. Len(started)
      /\ From(cookie) \in 0 .. Total
  BY LenProperties, FromType DEF TypeOK
<1>2. CASE page # <<>>
  <2>1. /\ Head(page) = Len(delivered) + 1 /\ Len(delivered) + 1 \in 1 .. Total
        /\ Tail(page) \in Seq(1 .. Total) /\ Len(Tail(page)) = Len(page) - 1
        /\ \A i \in 1 .. Len(Tail(page)) : Tail(page)[i] = (Len(delivered) + 1) + i
    BY <1>1, <1>2, TailFollows
  <2>2. /\ delivered' = Append(delivered, Len(delivered) + 1)
        /\ data' = Tail(page) /\ loads' = started /\ finished' = finished
    BY <1>2, <2>1 DEF Advance
  <2>3. /\ delivered' \in Seq(1 .. Total) /\ Len(delivered') = Len(delivered) + 1
        /\ \A i \in 1 .. Len(delivered') : delivered'[i] = i
    BY <2>1, <2>2, CountOn DEF TypeOK
  <2>4. TypeOK'
    BY <2>1, <2>2, <2>3 DEF TypeOK
  <2>5. Consecutive'
    BY <2>1, <2>2, <2>3 DEF Consecutive
  <2>6. Open' = {}
    BY <1>1, <2>2 DEF Open
  <2>7. CookieInPlace'
    <3>1. Len(delivered') + Len(data') = Len(delivered) + Len(page)
      <4>1. Len(delivered') = Len(delivered) + 1 /\ Len(data') = Len(page) - 1
        BY <2>1, <2>2, <2>3
      <4>2. (Len(delivered) + 1) + (Len(page) - 1) = Len(delivered) + Len(page)
        BY <1>1, OneOnward
      <4> QED
        BY <4>1, <4>2
    <3>2. From(cookie)' = From(cookie)
      BY DEF From
    <3> QED
      BY <3>1, <3>2 DEF CookieInPlace
  <2>8. ~finished'
    <3>1. Len(delivered) # Total
      BY <1>1, <2>1, OneOnward
    <3> QED
      BY <2>2, <3>1
  <2> QED
    BY <2>4, <2>5, <2>6, <2>7, <2>8 DEF IterationInv
<1>3. CASE page = <<>> /\ exh
  <2>1. /\ data' = <<>> /\ delivered' = delivered /\ finished' = TRUE /\ loads' = started
        /\ Len(page) = 0
    BY <1>3 DEF Advance
  <2>2. TypeOK'
    BY <2>1 DEF TypeOK
  <2>3. Consecutive'
    BY <2>1 DEF Consecutive
  <2>4. Open' = {}
    BY <1>1, <2>1 DEF Open
  <2>5. Len(delivered) = Total
    BY <1>1, <1>3, <2>1
  <2>6. CookieInPlace'
    BY <1>3, <2>1, <2>5 DEF CookieInPlace
  <2> QED
    BY <2>1, <2>2, <2>3, <2>4, <2>5, <2>6 DEF IterationInv
<1>4. CASE page = <<>> /\ ~exh
  <2>1. /\ data' = <<>> /\ delivered' = delivered /\ finished' = finished
        /\ loads' = Append(started, NewLoad)
        /\ Len(page) = 0
    BY <1>4 DEF Advance, TypeOK
  <2>2. /\ loads' \in Seq(Loads)
        /\ Open' = {Len(loads')} /\ Failed' = {}
        /\ ~loads'[Len(loads')].started
        /\ loads'[Len(loads')].from = From(cookie)
    BY <1>1, <2>1, LoadStarted
  <2>3. TypeOK'
    BY <1>4, <2>1, <2>2 DEF TypeOK
  <2>4. Consecutive'
    BY <2>1 DEF Consecutive
  <2>5. \A l \in Open' : LoadInPlace(l)'
    <3>1. From(cookie) = Len(delivered)
      BY <1>1, <1>4, <2>1
    <3>2. From(cookie)' = From(cookie)
      BY DEF From
    <3> QED
      BY <2>1, <2>2, <3>1, <3>2 DEF LoadInPlace
  <2>6. CookieInPlace'
    BY <2>2 DEF CookieInPlace
  <2> QED
    BY <2>1, <2>3, <2>4, <2>5, <2>6 DEF IterationInv
<1> QED
  BY <1>2, <1>3, <1>4

----------------------------------------------------------------------------
\* Every action keeps the invariant.

LEMMA CallKeepsInv ==
  ASSUME Awaited, IterationInv, Call
  PROVE  IterationInv'
<1>1. Open = {} /\ Failed = {}
  BY DEF Awaited, Call
<1>2. /\ data \in Seq(1 .. Total) /\ exhausted \in BOOLEAN /\ loads \in Seq(Loads)
      /\ \A i \in 1 .. Len(data) : data[i] = Len(delivered) + i
      /\ \A i \in 1 .. Len(delivered) : delivered[i] = i
      /\ finished => Len(delivered) = Total
      /\ TypeOK
  BY DEF IterationInv, TypeOK, Consecutive
<1>3. \A l \in 1 .. Len(loads) : loads[l].phase = "done"
  <2>1. DOMAIN loads = 1 .. Len(loads)
    BY <1>2, LenProperties
  <2>2. \A l \in 1 .. Len(loads) : loads[l] \in Loads
    BY <1>2, ElementOfSeq
  <2>3. \A l \in 1 .. Len(loads) : loads[l].phase \in {"open", "done", "failed", "over"}
    BY <2>2 DEF Loads
  <2> QED
    BY <1>1, <2>1, <2>3 DEF Open, Failed
<1>4. Len(delivered) + Len(data) = (IF exhausted THEN Total ELSE From(cookie))
  BY <1>1 DEF IterationInv, CookieInPlace
<1>5. /\ Advance(data, exhausted, loads) /\ exhausted' = exhausted /\ UNCHANGED cookie
      /\ used' \in [calls : Nat, fails : Nat]
  BY <1>2 DEF Call, TypeOK
<1> QED
  BY <1>2, <1>3, <1>4, <1>5, AdvanceKeepsInv

\* What the invariant says of a page that is being loaded.
LEMMA LoadFacts ==
  ASSUME IterationInv, NEW l \in DOMAIN loads, loads[l].phase = "open"
  PROVE  /\ l = Len(loads) /\ l \in 1 .. Len(loads) /\ Len(loads) \in Nat
         /\ DOMAIN loads = 1 .. Len(loads)
         /\ \A k \in DOMAIN loads : k # l => loads[k].phase = "done"
         /\ loads[l] \in Loads /\ loads \in Seq(Loads)
         /\ LoadInPlace(l)
         /\ TypeOK
<1>1. l \in Open /\ LoadInPlace(l) /\ TypeOK /\ loads \in Seq(Loads)
  BY DEF IterationInv, Open, TypeOK
<1>2. Len(loads) \in Nat /\ DOMAIN loads = 1 .. Len(loads) /\ l = Len(loads) /\ Failed = {}
  BY <1>1, LenProperties DEF LoadInPlace
<1>3. \A k \in DOMAIN loads : loads[k] \in Loads
  BY <1>1, <1>2, ElementOfSeq
<1>4. ASSUME NEW k \in DOMAIN loads, k # l
      PROVE  loads[k].phase = "done"
  <2>1. loads[k].phase \in {"open", "done", "failed", "over"}
    BY <1>3 DEF Loads
  <2>2. loads[k].phase # "open"
    <3>1. SUFFICES ASSUME loads[k].phase = "open" PROVE FALSE
      OBVIOUS
    <3>2. LoadInPlace(k)
      BY <3>1 DEF IterationInv, Open
    <3> QED
      BY <1>2, <1>4, <3>2 DEF LoadInPlace
  <2> QED
    BY <1>2, <2>1, <2>2 DEF Failed
<1> QED
  BY <1>1, <1>2, <1>3, <1>4

\* Replacing the load l, the only one that is open.
LEMMA ReplaceLoad ==
  ASSUME IterationInv, NEW l \in DOMAIN loads, loads[l].phase = "open",
         NEW new \in Loads, loads' = [loads EXCEPT ![l] = new]
  PROVE  /\ loads' \in Seq(Loads) /\ Len(loads') = Len(loads)
         /\ DOMAIN loads' = DOMAIN loads
         /\ loads'[l] = new
         /\ \A k \in DOMAIN loads : k # l => loads'[k].phase = "done"
<1>1. /\ loads \in Seq(Loads) /\ l \in 1 .. Len(loads) /\ DOMAIN loads = 1 .. Len(loads)
      /\ \A k \in DOMAIN loads : k # l => loads[k].phase = "done"
  BY LoadFacts
<1>2. loads' \in Seq(Loads) /\ Len(loads') = Len(loads)
  BY <1>1, ExceptSeq
<1>3. DOMAIN loads' = DOMAIN loads /\ loads'[l] = new /\ \A k \in DOMAIN loads : k # l => loads'[k] = loads[k]
  BY <1>1
<1> QED
  BY <1>1, <1>2, <1>3

LEMMA FirstMessageKeepsInv ==
  ASSUME IterationInv, NEW l \in DOMAIN loads, FirstMessage(l)
  PROVE  IterationInv'
<1>1. /\ loads[l].phase = "open" /\ ~loads[l].started
      /\ UNCHANGED <<exhausted, data, delivered, finished, used>>
  BY DEF FirstMessage
<1>2. PICK to \in loads[l].from .. Total :
        /\ (cookie' = None /\ to = Total) \/ cookie' = to
        /\ loads' = [loads EXCEPT ![l].started = TRUE, ![l].to = to]
  BY DEF FirstMessage
<1> DEFINE new == [loads[l] EXCEPT !.started = TRUE, !.to = to]
<1>3. LoadInPlace(l) /\ TypeOK /\ loads[l] \in Loads /\ l = Len(loads) /\ DOMAIN loads = 1 .. Len(loads)
  BY <1>1, LoadFacts
<1>4. /\ loads[l].from \in 0 .. Total /\ to \in 0 .. Total /\ loads[l].from <= to
      /\ new \in Loads /\ new.phase = "open" /\ new.started
      /\ new.from = loads[l].from /\ new.to = to
  <2>1. loads[l].from \in 0 .. Total
    BY <1>3 DEF Loads
  <2>2. to \in 0 .. Total /\ loads[l].from <= to
    BY <2>1, PagesAssumption
  <2>3. /\ new.phase = loads[l].phase /\ new.started
        /\ new.from = loads[l].from /\ new.to = to
    BY <1>3 DEF Loads
  <2>4. new \in Loads
    BY <1>3, <2>2 DEF Loads
  <2> QED
    BY <1>1, <2>1, <2>2, <2>3, <2>4
<1>5. loads' = [loads EXCEPT ![l] = new]
  BY <1>2
<1> HIDE DEF new
<1>6. /\ loads' \in Seq(Loads) /\ Len(loads') = Len(loads) /\ DOMAIN loads' = DOMAIN loads
      /\ loads'[l] = new /\ \A k \in DOMAIN loads : k # l => loads'[k].phase = "done"
  BY <1>1, <1>4, <1>5, ReplaceLoad
<1>7. Open' = {l} /\ Failed' = {}
  BY <1>4, <1>6 DEF Open, Failed
<1>8. TypeOK'
  BY <1>1, <1>2, <1>3, <1>4, <1>6 DEF TypeOK
<1>9. LoadInPlace(l)'
  <2>1. IF cookie' = None THEN to = Total ELSE cookie' = to
    BY <1>2, <1>4 DEF None
  <2>2. data' = <<>> /\ new.from = Len(delivered')
    BY <1>1, <1>3, <1>4 DEF LoadInPlace
  <2> QED
    BY <1>3, <1>4, <1>6, <1>7, <2>1, <2>2 DEF LoadInPlace
<1>10. Consecutive' /\ CookieInPlace' /\ (finished' => Len(delivered') = Total)
  BY <1>1, <1>7 DEF IterationInv, Consecutive, CookieInPlace
<1> QED
  BY <1>7, <1>8, <1>9, <1>10 DEF IterationInv

LEMMA PageEndKeepsInv ==
  ASSUME IterationInv, NEW l \in DOMAIN loads, PageEnd(l)
  PROVE  IterationInv'
<1> DEFINE from == loads[l].from
           to   == loads[l].to
           new  == [loads[l] EXCEPT !.phase = "done"]
           over == [loads EXCEPT ![l] = new]
<1>1. /\ loads[l].phase = "open" /\ loads[l].started
      /\ exhausted' = (cookie = None) /\ UNCHANGED <<cookie, used>>
      /\ Advance(Entries(from, to), exhausted', over)
  BY DEF PageEnd
<1>2. /\ LoadInPlace(l) /\ TypeOK /\ loads \in Seq(Loads) /\ loads[l] \in Loads
      /\ l \in 1 .. Len(loads) /\ DOMAIN loads = 1 .. Len(loads)
      /\ \A k \in DOMAIN loads : k # l => loads[k].phase = "done"
  BY <1>1, LoadFacts
<1>3. /\ from \in 0 .. Total /\ to \in 0 .. Total /\ new \in Loads /\ new.phase = "done"
  BY <1>2 DEF Loads
<1>4. /\ from = Len(delivered) /\ from <= to
      /\ IF cookie = None THEN to = Total ELSE cookie = to
  BY <1>1, <1>2 DEF LoadInPlace
<1>5. over \in Seq(Loads) /\ Len(over) = Len(loads) /\ \A k \in 1 .. Len(over) : over[k].phase = "done"
  <2>1. over \in Seq(Loads) /\ Len(over) = Len(loads)
    BY <1>2, <1>3, ExceptSeq
  <2>2. \A k \in 1 .. Len(loads) : over[k].phase = "done"
    BY <1>2, <1>3
  <2> QED
    BY <2>1, <2>2
<1>6. /\ Entries(from, to) \in Seq(1 .. Total) /\ Len(Entries(from, to)) = to - from
      /\ \A i \in 1 .. Len(Entries(from, to)) : Entries(from, to)[i] = Len(delivered) + i
  <2> HIDE DEF from, to, over
  <2>1. /\ Entries(from, to) \in Seq(1 .. Total) /\ Len(Entries(from, to)) = to - from
        /\ \A i \in 1 .. (to - from) : Entries(from, to)[i] = from + i
    BY <1>3, <1>4, EntriesSeq
  <2> QED
    BY <1>4, <2>1
<1>7. Len(delivered) + Len(Entries(from, to)) = (IF exhausted' THEN Total ELSE From(cookie))
  <2>1. Len(delivered) + Len(Entries(from, to)) = to
    BY <1>3, <1>4, <1>6
  <2> QED
    BY <1>1, <1>4, <2>1 DEF From
<1>8. /\ \A i \in 1 .. Len(delivered) : delivered[i] = i
      /\ finished => Len(delivered) = Total
      /\ exhausted' \in BOOLEAN /\ used' \in [calls : Nat, fails : Nat]
  BY <1>1, <1>2 DEF IterationInv, Consecutive, TypeOK
<1> HIDE DEF from, to, new, over
<1> QED
  BY <1>1, <1>2, <1>5, <1>6, <1>7, <1>8, AdvanceKeepsInv

LEMMA PageErrorKeepsInv ==
  ASSUME IterationInv, NEW l \in DOMAIN loads, PageError(l)
  PROVE  IterationInv'
<1> DEFINE new == [loads[l] EXCEPT !.phase = "failed"]
<1>1. /\ loads[l].phase = "open" /\ loads' = [loads EXCEPT ![l] = new]
      /\ UNCHANGED <<exhausted, data, cookie, delivered, finished>>
      /\ used' = [used EXCEPT !.fails = @ + 1]
  BY DEF PageError
<1>2. loads[l] \in Loads /\ TypeOK
  BY <1>1, LoadFacts
<1>3. new \in Loads /\ new.phase = "failed"
  BY <1>2 DEF Loads
<1> HIDE DEF new
<1>4. /\ loads' \in Seq(Loads) /\ DOMAIN loads' = DOMAIN loads
      /\ loads'[l] = new /\ \A k \in DOMAIN loads : k # l => loads'[k].phase = "done"
  BY <1>1, <1>3, ReplaceLoad
<1>5. Open' = {} /\ l \in Failed'
  BY <1>3, <1>4 DEF Open, Failed
<1>6. used' \in [calls : Nat, fails : Nat]
  <2>1. used \in [calls : Nat, fails : Nat]
    BY <1>2 DEF TypeOK
  <2>2. used' = [used EXCEPT !.fails = @ + 1]
    BY <1>1
  <2> QED
    BY <2>1, <2>2
<1>7. TypeOK'
  BY <1>1, <1>2, <1>4, <1>6 DEF TypeOK
<1> QED
  BY <1>1, <1>5, <1>7 DEF IterationInv, Consecutive, CookieInPlace

LEMMA EndAfterErrorKeepsInv ==
  ASSUME IterationInv, NEW l \in DOMAIN loads, EndAfterError(l)
  PROVE  IterationInv'
<1> DEFINE new == [loads[l] EXCEPT !.phase = "over"]
<1>1. /\ loads[l].phase = "failed" /\ loads' = [loads EXCEPT ![l] = new]
      /\ exhausted' = (cookie = None)
      /\ UNCHANGED <<data, cookie, delivered, finished, used>>
  BY DEF EndAfterError
<1>2. TypeOK /\ loads \in Seq(Loads) /\ DOMAIN loads = 1 .. Len(loads) /\ loads[l] \in Loads
  <2>1. TypeOK /\ loads \in Seq(Loads)
    BY DEF IterationInv, TypeOK
  <2>2. DOMAIN loads = 1 .. Len(loads)
    BY <2>1, LenProperties
  <2> QED
    BY <2>1, <2>2, ElementOfSeq
<1>3. new \in Loads /\ new.phase = "over"
  BY <1>2 DEF Loads
<1>4. Open = {}
  BY <1>1 DEF IterationInv, LoadInPlace, Failed
<1> HIDE DEF new
<1>5. loads' \in Seq(Loads) /\ DOMAIN loads' = DOMAIN loads /\ loads'[l] = new
      /\ \A k \in DOMAIN loads : k # l => loads'[k] = loads[k]
  BY <1>1, <1>2, <1>3, ExceptSeq
<1>6. Open' = {} /\ l \in Failed'
  BY <1>3, <1>4, <1>5 DEF Open, Failed
<1>7. TypeOK'
  BY <1>1, <1>2, <1>5 DEF TypeOK
<1> QED
  BY <1>1, <1>6, <1>7 DEF IterationInv, Consecutive, CookieInPlace

LEMMA NextKeepsInv ==
  ASSUME Awaited, IterationInv, [Next]_vars
  PROVE  IterationInv'
<1>1. CASE Call
  BY <1>1, CallKeepsInv
<1>2. ASSUME NEW l \in DOMAIN loads, FirstMessage(l)
      PROVE  IterationInv'
  BY <1>2, FirstMessageKeepsInv
<1>3. ASSUME NEW l \in DOMAIN loads, PageEnd(l)
      PROVE  IterationInv'
  BY <1>3, PageEndKeepsInv
<1>4. ASSUME NEW l \in DOMAIN loads, PageError(l)
      PROVE  IterationInv'
  BY <1>4, PageErrorKeepsInv
<1>5. ASSUME NEW l \in DOMAIN loads, EndAfterError(l)
      PROVE  IterationInv'
  BY <1>5, EndAfterErrorKeepsInv
<1>6. CASE UNCHANGED vars
  BY <1>6 DEF vars, IterationInv, TypeOK, Consecutive, LoadInPlace, CookieInPlace, Open, Failed, From
<1> QED
  BY <1>1, <1>2, <1>3, <1>4, <1>5, <1>6 DEF Next, Answers

----------------------------------------------------------------------------
\* However long the cache is and however it is paged, nothing is skipped and
\* nothing is handed out twice as long as calls are awaited.
LEMMA InvAlways == Awaited => (Spec => []IterationInv)
<1> SUFFICES ASSUME Awaited PROVE Spec => []IterationInv
  OBVIOUS
<1>1. Init => IterationInv
  BY InitInv
<1>2. IterationInv /\ [Next]_vars => IterationInv'
  BY NextKeepsInv
<1> QED
  BY <1>1, <1>2, PTL DEF Spec

\* The sequence of what has been yielded and what is held is 1, 2, 3, ...
LEMMA InvSkipsNothing == IterationInv => NothingSkipped
<1> SUFFICES ASSUME IterationInv PROVE NothingSkipped
  OBVIOUS
<1> DEFINE n == Len(delivered)
           m == Len(data)
<1>1. /\ delivered \in Seq(1 .. Total) /\ data \in Seq(1 .. Total)
      /\ \A i \in 1 .. n : delivered[i] = i
      /\ \A i \in 1 .. m : data[i] = n + i
  BY DEF IterationInv, TypeOK, Consecutive
<1>2. n \in Nat /\ m \in Nat
  BY <1>1, LenProperties
<1>3. /\ delivered \o data \in Seq(1 .. Total) /\ Len(delivered \o data) = n + m
      /\ \A i \in 1 .. (n + m) : (delivered \o data)[i] = IF i <= n THEN delivered[i] ELSE data[i - n]
  BY <1>1, ConcatProperties
<1> HIDE DEF n, m
<1>4. \A i \in 1 .. (n + m) : (delivered \o data)[i] = i
  <2>1. \A i \in 1 .. (n + m) : i <= n => i \in 1 .. n
    BY <1>2
  <2>2. \A i \in 1 .. (n + m) : ~(i <= n) => i - n \in 1 .. m /\ n + (i - n) = i
    BY <1>2
  <2> QED
    BY <1>1, <1>3, <2>1, <2>2
<1>5. delivered \o data = [i \in 1 .. (n + m) |-> i]
  <2>1. delivered \o data \in [1 .. (n + m) -> 1 .. Total]
    BY <1>3, LenProperties
  <2> QED
    BY <1>4, <2>1
<1>6. Entries(0, n + m) = [i \in 1 .. (n + m) |-> i]
  <2>1. (n + m) - 0 = n + m /\ \A i \in 1 .. (n + m) : 0 + i = i
    BY <1>2
  <2> QED
    BY <2>1 DEF Entries
<1>7. Open = {} /\ Failed = {} => n + m = IF exhausted THEN Total ELSE From(cookie)
  BY DEF IterationInv, CookieInPlace, n, m
<1> QED
  BY <1>5, <1>6, <1>7 DEF NothingSkipped, n, m

\* What has been yielded, what is held and what is still to be fetched follow on
\* from each other in every iteration that awaits its calls, for any number of
\* entries, pages and failures.
THEOREM SkipsNothing == Awaited => (Spec => []NothingSkipped)
<1> SUFFICES ASSUME Awaited PROVE Spec => []NothingSkipped
  OBVIOUS
<1>1. Spec => []IterationInv
  BY InvAlways
<1>2. IterationInv => NothingSkipped
  BY InvSkipsNothing
<1> QED
  BY <1>1, <1>2, PTL

----------------------------------------------------------------------------
\* What next() does, seen as a step of the abstract iterator.
LEMMA AdvanceYields ==
  ASSUME NEW page \in Seq(1 .. Total), NEW exh \in BOOLEAN, NEW started,
         delivered \in Seq(1 .. Total), finished \in BOOLEAN,
         \A i \in 1 .. Len(page) : page[i] = Len(delivered) + i,
         page = <<>> /\ exh => Len(delivered) = Total,
         Advance(page, exh, started)
  PROVE  [Iteration!Next]_(Iteration!itVars)
<1>1. CASE page # <<>>
  <2>1. Len(delivered) \in Nat
    BY LenProperties
  <2>2. Head(page) = Len(delivered) + 1 /\ Len(delivered) + 1 \in 1 .. Total
    BY <1>1, <2>1, TailFollows
  <2>3. Len(delivered) < Total
    BY <2>1, <2>2, PagesAssumption
  <2>4. delivered' = Append(delivered, Len(delivered) + 1) /\ finished' = finished
    BY <1>1, <2>2 DEF Advance
  <2> QED
    BY <2>3, <2>4 DEF Iteration!Next, Iteration!Yield
<1>2. CASE page = <<>> /\ exh
  BY <1>2 DEF Advance, Iteration!Next, Iteration!Finish
<1>3. CASE page = <<>> /\ ~exh
  BY <1>3 DEF Advance, Iteration!itVars
<1> QED
  BY <1>1, <1>2, <1>3

\* Every step of the paged iteration is a step of the abstract one, or none.
LEMMA StepYields ==
  ASSUME Awaited, IterationInv, [Next]_vars
  PROVE  [Iteration!Next]_(Iteration!itVars)
<1>0. /\ delivered \in Seq(1 .. Total) /\ finished \in BOOLEAN
      /\ data \in Seq(1 .. Total) /\ exhausted \in BOOLEAN
  BY DEF IterationInv, TypeOK
<1>1. CASE Call
  <2>1. Open = {} /\ Failed = {}
    BY <1>1 DEF Awaited, Call
  <2>2. Len(delivered) + Len(data) = (IF exhausted THEN Total ELSE From(cookie))
    BY <2>1 DEF IterationInv, CookieInPlace
  <2>3. data = <<>> /\ exhausted => Len(delivered) = Total
    BY <1>0, <2>2, LenProperties, EmptySeq
  <2>4. \A i \in 1 .. Len(data) : data[i] = Len(delivered) + i
    BY DEF IterationInv, Consecutive
  <2>5. Advance(data, exhausted, loads)
    BY <1>1 DEF Call
  <2> QED
    BY <1>0, <2>3, <2>4, <2>5, AdvanceYields
<1>2. ASSUME NEW l \in DOMAIN loads, PageEnd(l)
      PROVE  [Iteration!Next]_(Iteration!itVars)
  <2> DEFINE from == loads[l].from
             to   == loads[l].to
             over == [loads EXCEPT ![l].phase = "done"]
  <2>1. /\ loads[l].phase = "open" /\ loads[l].started /\ exhausted' = (cookie = None)
        /\ Advance(Entries(from, to), exhausted', over)
    BY <1>2 DEF PageEnd
  <2>2. LoadInPlace(l) /\ loads[l] \in Loads
    BY <2>1, LoadFacts
  <2>3. /\ from \in 0 .. Total /\ to \in 0 .. Total /\ from <= to /\ from = Len(delivered)
        /\ exhausted' => to = Total
    BY <2>1, <2>2 DEF LoadInPlace, Loads
  <2>4. /\ Entries(from, to) \in Seq(1 .. Total) /\ Len(Entries(from, to)) = to - from
        /\ \A i \in 1 .. Len(Entries(from, to)) : Entries(from, to)[i] = Len(delivered) + i
    <3>1. /\ Entries(from, to) \in Seq(1 .. Total) /\ Len(Entries(from, to)) = to - from
          /\ \A i \in 1 .. (to - from) : Entries(from, to)[i] = from + i
      <4> HIDE DEF from, to
      <4> QED
        BY <2>3, EntriesSeq
    <3> QED
      BY <2>3, <3>1
  <2>5. Entries(from, to) = <<>> /\ exhausted' => Len(delivered) = Total
    <3>1. Entries(from, to) = <<>> => to - from = 0
      BY <2>4, EmptySeq
    <3> QED
      BY <2>3, <3>1
  <2>6. exhausted' \in BOOLEAN
    BY <2>1
  <2> HIDE DEF from, to, over
  <2> QED
    BY <1>0, <2>1, <2>4, <2>5, <2>6, AdvanceYields
<1>3. CASE UNCHANGED <<delivered, finished>>
  BY <1>3 DEF Iteration!itVars
<1>4. ASSUME NEW l \in DOMAIN loads, FirstMessage(l) \/ PageError(l) \/ EndAfterError(l)
      PROVE  UNCHANGED <<delivered, finished>>
  BY <1>4 DEF FirstMessage, PageError, EndAfterError
<1>5. CASE UNCHANGED vars
  BY <1>3, <1>5 DEF vars
<1> QED
  BY <1>1, <1>2, <1>3, <1>4, <1>5 DEF Next, Answers

\* An iteration that awaits its calls and stops when one is rejected implements
\* the abstract iterator: every entry once, in order, the end after the last.
THEOREM Implements == Awaited => (Spec => ImplementsIterator)
<1> SUFFICES ASSUME Awaited PROVE Spec => ImplementsIterator
  OBVIOUS
<1>1. Spec => []IterationInv
  BY InvAlways
<1>2. Init => Iteration!Init
  BY DEF Init, Iteration!Init
<1>3. IterationInv /\ [Next]_vars => [Iteration!Next]_(Iteration!itVars)
  BY StepYields
<1> QED
  BY <1>1, <1>2, <1>3, PTL DEF Spec, ImplementsIterator, Iteration!Spec

----------------------------------------------------------------------------
(* Types, also of calls that overlap and of iterations that go on after a  *)
(* failed page.                                                            *)

LEMMA PageType ==
  ASSUME NEW from \in 0 .. Total, NEW to \in 0 .. Total
  PROVE  Entries(from, to) \in Seq(1 .. Total)
<1>1. CASE from <= to
  BY <1>1, EntriesSeq
<1>2. CASE ~(from <= to)
  <2>1. 1 .. (to - from) = {} /\ 1 .. 0 = {}
    BY <1>2, PagesAssumption
  <2>2. Entries(from, to) \in [1 .. 0 -> 1 .. Total]
    BY <2>1 DEF Entries
  <2> QED
    BY <2>2, IsASeq
<1> QED
  BY <1>1, <1>2

LEMMA AdvanceType ==
  ASSUME NEW page \in Seq(1 .. Total), NEW exh \in BOOLEAN, NEW started \in Seq(Loads),
         TypeOK, Advance(page, exh, started)
  PROVE  data' \in Seq(1 .. Total) /\ delivered' \in Seq(1 .. Total) /\ loads' \in Seq(Loads) /\ finished' \in BOOLEAN
<1>1. NewLoad \in Loads
  BY PagesAssumption DEF NewLoad, Loads, From, TypeOK
<1>2. CASE page # <<>>
  <2>1. Head(page) \in 1 .. Total /\ Tail(page) \in Seq(1 .. Total)
    BY <1>2, HeadTailProperties
  <2> QED
    <3>1. data' = Tail(page) /\ delivered' = Append(delivered, Head(page)) /\ loads' = started /\ finished' = finished
      BY <1>2 DEF Advance
    <3>2. delivered \in Seq(1 .. Total) /\ finished \in BOOLEAN
      BY DEF TypeOK
    <3> QED
      BY <2>1, <3>1, <3>2, AppendProperties
<1>3. CASE page = <<>>
  <2>1. Append(started, NewLoad) \in Seq(Loads)
    BY <1>1, AppendProperties
  <2> QED
    BY <1>3, <2>1 DEF Advance, TypeOK
<1> QED
  BY <1>2, <1>3

LEMMA TypeStep == ASSUME TypeOK, [Next]_vars PROVE TypeOK'
<1>1. /\ exhausted \in BOOLEAN /\ finished \in BOOLEAN /\ data \in Seq(1 .. Total)
      /\ cookie \in {None} \cup 0 .. Total /\ loads \in Seq(Loads)
      /\ delivered \in Seq(1 .. Total) /\ used \in [calls : Nat, fails : Nat]
  BY DEF TypeOK
<1>2. ASSUME NEW l \in DOMAIN loads PROVE loads[l] \in Loads
  BY <1>1
<1>3. CASE Call
  <2>1. [used EXCEPT !.calls = @ + 1] \in [calls : Nat, fails : Nat]
    BY <1>1
  <2>2. used' \in [calls : Nat, fails : Nat] /\ exhausted' = exhausted /\ cookie' = cookie
        /\ Advance(data, exhausted, loads)
    BY <1>3, <2>1 DEF Call
  <2> QED
    BY <1>1, <2>2, AdvanceType DEF TypeOK
<1>4. ASSUME NEW l \in DOMAIN loads, FirstMessage(l) PROVE TypeOK'
  <2>1. PICK to \in loads[l].from .. Total :
          /\ cookie' = None \/ cookie' = to
          /\ loads' = [loads EXCEPT ![l].started = TRUE, ![l].to = to]
    BY <1>4 DEF FirstMessage
  <2>2. to \in 0 .. Total
    BY <1>2, PagesAssumption DEF Loads
  <2>3. [loads[l] EXCEPT !.started = TRUE, !.to = to] \in Loads
    BY <1>2, <2>2 DEF Loads
  <2>4. loads' \in Seq(Loads)
    <3>1. loads' = [loads EXCEPT ![l] = [loads[l] EXCEPT !.started = TRUE, !.to = to]]
      BY <2>1
    <3> QED
      BY <1>1, <2>3, <3>1
  <2> QED
    BY <1>1, <1>4, <2>1, <2>2, <2>4 DEF FirstMessage, TypeOK
<1>5. ASSUME NEW l \in DOMAIN loads, PageEnd(l) PROVE TypeOK'
  <2>1. [loads EXCEPT ![l].phase = "done"] \in Seq(Loads)
    <3>1. [loads[l] EXCEPT !.phase = "done"] \in Loads
      BY <1>2 DEF Loads
    <3> QED
      BY <1>1, <3>1
  <2>2. Entries(loads[l].from, loads[l].to) \in Seq(1 .. Total)
    BY <1>2, PageType DEF Loads
  <2>3. exhausted' \in BOOLEAN /\ cookie' = cookie /\ used' = used
        /\ Advance(Entries(loads[l].from, loads[l].to), exhausted', [loads EXCEPT ![l].phase = "done"])
    BY <1>5 DEF PageEnd
  <2> QED
    BY <1>1, <2>1, <2>2, <2>3, AdvanceType DEF TypeOK
<1>6. ASSUME NEW l \in DOMAIN loads, PageError(l) PROVE TypeOK'
  <2>1. [loads[l] EXCEPT !.phase = "failed"] \in Loads
    BY <1>2 DEF Loads
  <2>3. [used EXCEPT !.fails = @ + 1] \in [calls : Nat, fails : Nat]
    BY <1>1
  <2>2. [loads EXCEPT ![l].phase = "failed"] \in Seq(Loads)
    BY <1>1, <2>1
  <2> QED
    BY <1>1, <1>6, <2>2, <2>3 DEF PageError, TypeOK
<1>7. ASSUME NEW l \in DOMAIN loads, EndAfterError(l) PROVE TypeOK'
  <2>1. [loads[l] EXCEPT !.phase = "over"] \in Loads
    BY <1>2 DEF Loads
  <2>2. [loads EXCEPT ![l].phase = "over"] \in Seq(Loads)
    BY <1>1, <2>1
  <2> QED
    BY <1>1, <1>7, <2>2 DEF EndAfterError, TypeOK
<1>8. CASE UNCHANGED vars
  BY <1>1, <1>8 DEF vars, TypeOK
<1> QED
  BY <1>3, <1>4, <1>5, <1>6, <1>7, <1>8 DEF Next, Answers

\* No page starts or ends outside the entries there are, even when calls of
\* next() overlap or go on after one was rejected.
THEOREM TypeCorrect == Spec => []TypeOK
<1>1. Init => TypeOK
  BY InitInv DEF IterationInv
<1> QED
  BY <1>1, TypeStep, PTL DEF Spec

=============================================================================
