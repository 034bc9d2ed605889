------------------------ MODULE NamedCacheCallsProofs ------------------------
(***************************************************************************)
(* The calls of NamedCacheClient implement RemoteMap, for any number of    *)
(* them, any keys and values that are truthy, if no get fails and one call *)
(* truncates at most: no order of requests, answers, expired waits and     *)
(* deadlines resolves a promise to anything else than what its operation   *)
(* means at the instant the proxy performed it.  Without each of these     *)
(* conditions it does, which runs show.                                    *)
(***************************************************************************)
EXTENDS NamedCacheCalls, TLAPS

----------------------------------------------------------------------------
\* What the client leaves as it is given: truthy keys and values.
Truthy == Falsy \cap (Keys \cup Values) = {}

\* Only one of the calls may be a truncate.
OneTruncates == \A c, d \in Calls : "truncate" \in MayCall[c] /\ "truncate" \in MayCall[d] => c = d

Plainly == Truthy /\ "get" \notin MayFail /\ OneTruncates

----------------------------------------------------------------------------
(* Requests: what is built says what was asked for, as RemoteMap has it.   *)

Queries == {"aggregate", "addIndex", "removeIndex", "clear", "hasEntry", "has", "hasValue", "get"}

Bulk == Streams \cup {"empty", "invoke"}

Plain == {"size", "truncate"}

Updates == {"ready", "set", "setIfAbsent", "setAll", "delete", "keySet.delete", "removeMapping", "replace",
            "replaceMapping"}

\* RemoteMap has the operations and their meaning from the same module.
LEMMA SameMeaning ==
  /\ Abstract!Ops = Ops
  /\ \A op : Abstract!Arguments(op, Values) = Arguments(op, Values)
  /\ \A op, k, v, w, m : Abstract!Effect(op, k, v, w, m) = Effect(op, k, v, w, m)
  /\ \A op, k, v, w, m : Abstract!Result(op, k, v, w, m) = Result(op, k, v, w, m)
<1>1. Abstract!Ops = Ops
  BY DEF Abstract!Ops, Ops
<1>2. \A op : Abstract!Arguments(op, Values) = Arguments(op, Values)
  BY DEF Abstract!Arguments, Arguments, Abstract!Keyed, Keyed, Abstract!Valued, Valued
<1>3. \A m : Abstract!Present(m) = Present(m)
  BY DEF Abstract!Present, Present
<1>4. \A m, k : Abstract!Current(m, k) = Current(m, k)
  BY DEF Abstract!Current, Current
<1>5. \A m, k, v : Abstract!With(m, k, v) = With(m, k, v)
  BY DEF Abstract!With, With
<1>6. ASSUME NEW op, NEW k, NEW v, NEW w, NEW m PROVE Abstract!Effect(op, k, v, w, m) = Effect(op, k, v, w, m)
  BY <1>3, <1>4, <1>5 DEF Abstract!Effect, Effect
<1>7. ASSUME NEW op, NEW k, NEW v, NEW w, NEW m PROVE Abstract!Result(op, k, v, w, m) = Result(op, k, v, w, m)
  BY <1>3, <1>4 DEF Abstract!Result, Result
<1>. QED BY <1>1, <1>2, <1>6, <1>7

LEMMA OpsApart ==
  ASSUME NEW op \in Ops
  PROVE  \/ op \in Queries
         \/ op \in Bulk /\ op \notin Queries
         \/ op \in Plain /\ op \notin Queries /\ op \notin Bulk
         \/ op \in Updates /\ op \notin Queries /\ op \notin Bulk /\ op \notin Plain
BY DEF Ops, Queries, Bulk, Plain, Updates, Streams, Filtered

\* The request for an operation: the same, with its arguments if they are truthy.
LEMMA BuiltFields ==
  ASSUME NEW op \in Ops, NEW k, NEW v, NEW w, <<k, v, w>> \in Arguments(op, Values)
  PROVE  /\ Built(op, k, v, w).op = op
         /\ Built(op, k, v, w).key = k
         /\ Built(op, k, v, w).value \in {v, Null} /\ Built(op, k, v, w).other \in {w, Null}
         /\ Truthy => /\ Built(op, k, v, w).value = v
                      /\ op = "replaceMapping" => Built(op, k, v, w).other = w
<1>0. Truthy => v \notin Falsy
  <2>1. v \in Values \cup {Null}
    BY DEF Arguments
  <2>. QED BY <2>1, CallsAssumption DEF Truthy
<1>1. CASE op \in Queries
  <2>1. Built(op, k, v, w) = QueryRequest(op, k, v)
    BY <1>1 DEF Built, Queries, Streams, Filtered
  <2>2. op # "replaceMapping"
    BY <1>1 DEF Queries
  <2>. QED BY <1>0, <2>1, <2>2 DEF QueryRequest, Request, Field
<1>2. CASE op \in Bulk /\ op \notin Queries
  <2>1. Built(op, k, v, w) = BulkRequest(op, k, v)
    BY <1>2 DEF Built, Bulk, Queries, Streams, Filtered
  <2>2. op # "replaceMapping"
    BY <1>2 DEF Bulk, Streams, Filtered
  <2>. QED BY <2>1, <2>2 DEF BulkRequest, Request
<1>3. CASE op \in Plain /\ op \notin Queries /\ op \notin Bulk
  <2>1. Built(op, k, v, w) = PlainRequest(op, k)
    BY <1>3 DEF Built, Bulk, Queries, Plain
  <2>2. op \notin Valued /\ op # "replaceMapping"
    BY <1>3 DEF Plain, Valued
  <2>3. v = Null
    BY <2>2 DEF Arguments
  <2>. QED BY <2>1, <2>2, <2>3 DEF PlainRequest, Request
<1>4. CASE op \in Updates /\ op \notin Queries /\ op \notin Bulk /\ op \notin Plain
  <2>1. Built(op, k, v, w) = UpdateRequest(op, k, v, w)
    BY <1>4 DEF Built, Bulk, Queries, Plain
  <2>. QED BY <1>0, <2>1 DEF UpdateRequest, Request, Field
<1>. QED BY <1>1, <1>2, <1>3, <1>4, OpsApart

\* The second value of a request matters to replaceMapping alone.
LEMMA EffectOfOther ==
  ASSUME NEW op, NEW k, NEW v, NEW w, NEW w2, NEW m, op = "replaceMapping" => w = w2
  PROVE  Effect(op, k, v, w, m) = Effect(op, k, v, w2, m)
BY DEF Effect

LEMMA ResultOfOther ==
  ASSUME NEW op, NEW k, NEW v, NEW w, NEW w2, NEW m, op # "get"
  PROVE  Result(op, k, v, w, m) = Result(op, k, v, w2, m)
BY DEF Result

\* A request has the effect its operation has.
LEMMA EffectRight ==
  ASSUME Truthy, NEW op \in Ops, NEW k, NEW v, NEW w, <<k, v, w>> \in Arguments(op, Values), NEW m
  PROVE  LET q == Built(op, k, v, w)
         IN  Effect(q.op, q.key, q.value, q.other, m) = Effect(op, k, v, w, m)
BY BuiltFields, EffectOfOther

LEMMA EntryParts ==
  ASSUME NEW m
  PROVE  /\ {e[1] : e \in {<<x, m[x]>> : x \in Present(m)}} = Present(m)
         /\ {e[2] : e \in {<<x, m[x]>> : x \in Present(m)}} = {m[x] : x \in Present(m)}
<1>. DEFINE E == {<<x, m[x]>> : x \in Present(m)}
<1>1. \A x \in Present(m) : <<x, m[x]>> \in E /\ <<x, m[x]>>[1] = x /\ <<x, m[x]>>[2] = m[x]
  OBVIOUS
<1>2. \A e \in E : \E x \in Present(m) : e = <<x, m[x]>>
  OBVIOUS
<1>. HIDE DEF E
<1>3. ASSUME NEW y PROVE y \in {e[1] : e \in E} <=> y \in Present(m)
  <2>1. y \in {e[1] : e \in E} <=> \E e \in E : y = e[1]
    OBVIOUS
  <2>2. ASSUME NEW e \in E, y = e[1] PROVE y \in Present(m)
    BY <1>1, <1>2, <2>2
  <2>3. ASSUME y \in Present(m) PROVE \E e \in E : y = e[1]
    BY <1>1, <2>3
  <2>. QED BY <2>1, <2>2, <2>3
<1>4. ASSUME NEW y PROVE y \in {e[2] : e \in E} <=> y \in {m[x] : x \in Present(m)}
  <2>1. y \in {e[2] : e \in E} <=> \E e \in E : y = e[2]
    OBVIOUS
  <2>2. y \in {m[x] : x \in Present(m)} <=> \E x \in Present(m) : y = m[x]
    OBVIOUS
  <2>3. ASSUME NEW e \in E, y = e[2] PROVE \E x \in Present(m) : y = m[x]
    <3>1. PICK x \in Present(m) : e = <<x, m[x]>>
      BY <1>2
    <3>2. y = m[x]
      BY <1>1, <2>3, <3>1
    <3>. QED BY <3>2
  <2>4. ASSUME NEW x \in Present(m), y = m[x] PROVE \E e \in E : y = e[2]
    <3>1. <<x, m[x]>> \in E /\ <<x, m[x]>>[2] = m[x]
      BY <1>1
    <3>. QED BY <2>4, <3>1
  <2>. QED BY <2>1, <2>2, <2>3, <2>4
<1>5. {e[1] : e \in E} = Present(m)
  BY <1>3
<1>6. {e[2] : e \in E} = {m[x] : x \in Present(m)}
  BY <1>4
<1>. QED BY <1>5, <1>6 DEF E

\* What the client makes of the answer is what the operation means.
LEMMA AnswerRight ==
  ASSUME Truthy, NEW op \in Ops, NEW k, NEW v, NEW w, <<k, v, w>> \in Arguments(op, Values), NEW m
  PROVE  Answered(op, Reply(Built(op, k, v, w), m), w) = Result(op, k, v, w, m)
<1>. DEFINE q == Built(op, k, v, w)
<1>. HIDE DEF q
<1>0. q.op = op /\ q.key = k /\ q.value = v
  BY BuiltFields DEF q
<1>1. CASE op \in Streams
  <2>1. Reply(q, m) = <<{<<x, m[x]>> : x \in Present(m)}>>
    <3>1. op # "get" /\ op # "keySet.delete"
      BY <1>1 DEF Streams, Filtered
    <3>. QED BY <1>0, <1>1, <3>1 DEF Reply
  <2>2. CASE op = "keys"
    <3>1. {e[1] : e \in {<<x, m[x]>> : x \in Present(m)}} = Present(m)
      BY EntryParts
    <3>2. Answered(op, Reply(q, m), w) = <<{e[1] : e \in {<<x, m[x]>> : x \in Present(m)}} \ Falsy>>
      BY <2>1, <2>2 DEF Answered
    <3>3. Present(m) \ Falsy = Present(m)
      BY DEF Present, Truthy
    <3>. QED BY <2>2, <3>1, <3>2, <3>3 DEF Result, q
  <2>3. CASE op = "values"
    <3>1. {e[2] : e \in {<<x, m[x]>> : x \in Present(m)}} = {m[x] : x \in Present(m)}
      BY EntryParts
    <3>2. Answered(op, Reply(q, m), w) = <<{e[2] : e \in {<<x, m[x]>> : x \in Present(m)}}>>
      BY <2>1, <2>3 DEF Answered
    <3>. QED BY <2>3, <3>1, <3>2 DEF Result, q
  <2>4. CASE op \notin {"keys", "values"}
    <3>1. Answered(op, Reply(q, m), w) = <<{<<x, m[x]>> : x \in Present(m)}>>
      BY <1>1, <2>1, <2>4 DEF Answered, Streams, Filtered
    <3>2. Result(op, k, v, w, m) = <<{<<x, m[x]>> : x \in Present(m)}>>
      BY <1>1, <2>4 DEF Result, Streams, Filtered
    <3>. QED BY <3>1, <3>2 DEF q
  <2>. QED BY <2>2, <2>3, <2>4
<1>2. CASE op = "get"
  <2>1. Reply(q, m) = <<k \in Present(m), Current(m, k)>>
    BY <1>0, <1>2 DEF Reply, Streams, Filtered
  <2>2. v = Null /\ k \in Keys
    BY <1>2 DEF Arguments, Valued, Keyed
  <2>4. Answered(op, Reply(q, m), w) = <<IF k \in Present(m) THEN Current(m, k) ELSE w>>
    <3>. DEFINE there == k \in Present(m)
                what  == Current(m, k)
    <3>. HIDE DEF there, what
    <3>1. Reply(q, m) = <<there, what>>
      BY <2>1 DEF there, what
    <3>2. Reply(q, m)[1] = there /\ Reply(q, m)[2] = what
      BY <3>1
    <3>3. Answered(op, Reply(q, m), w) = <<IF there THEN what ELSE w>>
      BY <1>2, <3>2 DEF Answered
    <3>. QED BY <3>3 DEF there, what
  <2>5. Result(op, k, v, w, m) = <<IF m[k] = Absent THEN w ELSE m[k]>>
    BY <1>2 DEF Result
  <2>. QED BY <2>2, <2>4, <2>5 DEF Present, Current, q
<1>3. CASE op = "keySet.delete"
  <2>1. Reply(q, m) = <<Current(m, k)>>
    BY <1>0, <1>3 DEF Reply, Streams, Filtered
  <2>2. Answered(op, Reply(q, m), w) = <<Current(m, k) # Null>>
    BY <1>3, <2>1 DEF Answered
  <2>. QED BY <1>3, <2>2 DEF Result, q
<1>4. CASE op \notin Streams /\ op # "get" /\ op # "keySet.delete"
  <2>1. Reply(q, m) = Result(q.op, q.key, q.value, q.other, m)
    BY <1>0, <1>4 DEF Reply
  <2>2. Answered(op, Reply(q, m), w) = Reply(q, m)
    BY <1>4 DEF Answered, Streams, Filtered
  <2>3. Result(op, k, v, q.other, m) = Result(op, k, v, w, m)
    BY <1>4, ResultOfOther
  <2>. QED BY <1>0, <2>1, <2>2, <2>3 DEF q
<1>. QED BY <1>1, <1>2, <1>3, <1>4

----------------------------------------------------------------------------
(* The inductive invariant.                                                *)

Shaped(r) ==
  r = [op |-> r.op, key |-> r.key, value |-> r.value, other |-> r.other, wait |-> r.wait, rpc |-> r.rpc,
       performed |-> r.performed, reply |-> r.reply, got |-> r.got, promise |-> r.promise, result |-> r.result]

\* A call is typed; it has a result only once it is settled, the reply of a stream
\* is its set of entries, and that of a truncate says nothing.
Sound(c, r) ==
  /\ Shaped(r)
  /\ r # Idle =>
       /\ r.op \in MayCall[c]
       /\ <<r.key, r.value, r.other>> \in Arguments(r.op, Values)
       /\ r.wait \in 0 .. 2 /\ r.rpc \in {"none", "open", "closed"}
       /\ r.promise \in {"pending", "resolved", "rejected"}
       /\ r.performed \in BOOLEAN
  /\ r.promise = "pending" => r.result = <<>>
  /\ r.performed /\ r.op \in Streams => r.reply = <<r.reply[1]>>
  /\ r.performed /\ r.op = "truncate" => r.reply = <<>>

\* The cache has been truncated.
Seen == \E c \in Calls : calls[c].op = "truncate" /\ calls[c].performed

\* An event that is on its way is that of a truncation that was performed.
CallsInv ==
  /\ map \in [Keys -> Values \cup {Null, Absent}]
  /\ active \in BOOLEAN /\ crashed \in BOOLEAN /\ events \in Nat
  /\ calls = [c \in Calls |-> calls[c]]
  /\ \A c \in Calls : Sound(c, calls[c])
  /\ events > 0 => Seen

\* A call of RemoteMap.
Mapped(r) ==
  [op |-> r.op, key |-> r.key, value |-> r.value, other |-> r.other,
   performed |-> r.performed, promise |-> r.promise, result |-> r.result,
   outcome |-> IF r.performed THEN Answered(r.op, r.reply, r.other) ELSE <<>>]

\* One call has become another, which differs in nothing that is performed.
Alike(s, r) ==
  /\ Shaped(s)
  /\ s.op = r.op /\ s.key = r.key /\ s.value = r.value /\ s.other = r.other
  /\ s.performed = r.performed /\ s.reply = r.reply
  /\ s.wait \in 0 .. 2 /\ s.rpc \in {"none", "open", "closed"}
  /\ s.promise \in {"pending", "resolved", "rejected"}
  /\ s.promise = "pending" => s.result = <<>>

\* A call that is not idle has an operation.
LEMMA CallsHaveOps ==
  ASSUME NEW c \in Calls, NEW r, Sound(c, r), r # Idle
  PROVE  r.op \in Ops /\ r.op # "none"
<1>1. MayCall[c] \subseteq Ops
  BY CallsAssumption
<1>. QED BY <1>1 DEF Sound, Ops

LEMMA AlikeSound ==
  ASSUME NEW c \in Calls, NEW r, NEW s, Sound(c, r), r # Idle, Alike(s, r)
  PROVE  Sound(c, s)
BY DEF Sound, Alike

LEMMA ChangedCall ==
  ASSUME NEW c \in Calls, NEW s, calls = [x \in Calls |-> calls[x]], calls' = [calls EXCEPT ![c] = s]
  PROVE  /\ calls' = [x \in Calls |-> calls'[x]]
         /\ calls'[c] = s
         /\ \A x \in Calls \ {c} : calls'[x] = calls[x]
OBVIOUS

\* A step that changes one call, to one that is alike, keeps the invariant.
LEMMA AlikeStep ==
  ASSUME CallsInv, NEW c \in Calls, NEW s, calls[c] # Idle, Alike(s, calls[c]),
         calls' = [calls EXCEPT ![c] = s],
         map' = map, active' = active, events' = events, crashed' \in BOOLEAN
  PROVE  CallsInv' /\ (Seen' <=> Seen)
<1>1. calls' = [x \in Calls |-> calls'[x]] /\ calls'[c] = s /\ \A x \in Calls \ {c} : calls'[x] = calls[x]
  BY ChangedCall DEF CallsInv
<1>2. Sound(c, s)
  BY AlikeSound DEF CallsInv
<1>3. \A x \in Calls : Sound(x, calls'[x])
  BY <1>1, <1>2 DEF CallsInv
<1>4. (\A x \in Calls : Sound(x, calls[x]))'
  BY <1>3 DEF Sound, Shaped, Idle, Made
<1>5. Seen' <=> Seen
  BY <1>1 DEF Seen, Alike
<1>. QED BY <1>1, <1>4, <1>5 DEF CallsInv

----------------------------------------------------------------------------
(* How a step that changes one call looks to RemoteMap.                    *)

LEMMA QuietStep ==
  ASSUME CallsInv, NEW c \in Calls, NEW s, calls[c] # Idle, Alike(s, calls[c]),
         s.promise = calls[c].promise, s.result = calls[c].result,
         calls' = [calls EXCEPT ![c] = s], map' = map
  PROVE  UNCHANGED Abstract!vars
<1>1. calls' = [x \in Calls |-> calls'[x]] /\ calls'[c] = s /\ \A x \in Calls \ {c} : calls'[x] = calls[x]
  BY ChangedCall DEF CallsInv
<1>2. \A x \in Calls : Mapped(calls'[x]) = Mapped(calls[x])
  BY <1>1 DEF Mapped, Alike
<1>3. [x \in Calls |-> Mapped(calls'[x])] = [x \in Calls |-> Mapped(calls[x])]
  BY <1>2
<1>. QED BY <1>3 DEF Abstract!vars, Mapped

LEMMA SettleStep ==
  ASSUME CallsInv, NEW c \in Calls, NEW s, calls[c] # Idle, Alike(s, calls[c]), calls[c].promise = "pending",
         calls' = [calls EXCEPT ![c] = s], map' = map
  PROVE  Abstract!Settle(c, s.promise, s.result)
<1>1. calls' = [x \in Calls |-> calls'[x]] /\ calls'[c] = s /\ \A x \in Calls \ {c} : calls'[x] = calls[x]
  BY ChangedCall DEF CallsInv
<1>2. \A x \in Calls : Mapped(calls'[x]) =
        IF x = c THEN [Mapped(calls[x]) EXCEPT !.promise = s.promise, !.result = s.result] ELSE Mapped(calls[x])
  BY <1>1, ZenonT(60) DEF Mapped, Alike
<1>3. [x \in Calls |-> Mapped(calls'[x])] =
        [[x \in Calls |-> Mapped(calls[x])] EXCEPT ![c].promise = s.promise, ![c].result = s.result]
  <2>. DEFINE F == [x \in Calls |-> Mapped(calls[x])]
              G == [x \in Calls |-> IF x = c THEN [F[c] EXCEPT !.promise = s.promise, !.result = s.result] ELSE F[x]]
  <2>1. \A x \in Calls : F[x] = Mapped(calls[x])
    OBVIOUS
  <2>. HIDE DEF F
  <2>2. [x \in Calls |-> Mapped(calls'[x])] = G
    BY <1>2, <2>1
  <2>3. F = [x \in Calls |-> F[x]]
    BY DEF F
  <2>4. [F EXCEPT ![c].promise = s.promise, ![c].result = s.result] = G
    BY <2>3
  <2>. QED BY <2>2, <2>4 DEF F
<1>4. [x \in Calls |-> Mapped(calls[x])][c].promise = "pending"
  BY DEF Mapped
<1>. QED BY <1>3, <1>4 DEF Abstract!Settle, Mapped

----------------------------------------------------------------------------
(* Every action but Call and Perform.                                      *)

LEMMA Helpers ==
  ASSUME NEW c \in Calls, NEW r, Sound(c, r), r # Idle
  PROVE  /\ Alike(r, r)
         /\ Alike([r EXCEPT !.rpc = "closed"], r)
         /\ \A g : Alike([r EXCEPT !.got = @ \cup g], r)
         /\ r.wait > 0 => Alike([r EXCEPT !.wait = @ - 1, !.rpc = "open"], r)
         /\ \A s, x : Alike(s, r) => Alike(Resolved(s, x), r) /\ Alike(Rejected(s), r)
<1>1. Alike(r, r)
  BY DEF Alike, Sound
<1>2. Alike([r EXCEPT !.rpc = "closed"], r)
  BY DEF Alike, Sound, Shaped
<1>3. ASSUME NEW g PROVE Alike([r EXCEPT !.got = @ \cup g], r)
  <2>1. \A x : Alike([r EXCEPT !.got = x], r)
    BY DEF Alike, Sound, Shaped
  <2>. QED BY <2>1
<1>4. r.wait > 0 => Alike([r EXCEPT !.wait = @ - 1, !.rpc = "open"], r)
  <2>1. ASSUME NEW x \in 0 .. 2 PROVE Alike([r EXCEPT !.wait = x, !.rpc = "open"], r)
    <3>1. Shaped(r) /\ r.promise \in {"pending", "resolved", "rejected"} /\ (r.promise = "pending" => r.result = <<>>)
      BY DEF Sound
    <3>2. \A q, y : Shaped(q) => Shaped([q EXCEPT !.rpc = y]) /\ Shaped([q EXCEPT !.wait = y])
      BY DEF Shaped
    <3>3. [r EXCEPT !.wait = x, !.rpc = "open"] = [[r EXCEPT !.rpc = "open"] EXCEPT !.wait = x]
      BY <3>1 DEF Shaped
    <3>. DEFINE s == [[r EXCEPT !.rpc = "open"] EXCEPT !.wait = x]
    <3>4. /\ s.wait = x /\ s.rpc = "open" /\ s.op = r.op /\ s.key = r.key /\ s.value = r.value /\ s.other = r.other
          /\ s.performed = r.performed /\ s.reply = r.reply /\ s.promise = r.promise /\ s.result = r.result
      BY <3>1 DEF Shaped
    <3>5. Shaped(s)
      BY <3>1, <3>2
    <3>. HIDE DEF s
    <3>6. Alike(s, r)
      BY <3>1, <3>4, <3>5 DEF Alike
    <3>. QED BY <3>3, <3>6 DEF s
  <2>2. r.wait > 0 => r.wait - 1 \in 0 .. 2
    BY DEF Sound
  <2>. QED BY <2>1, <2>2
<1>5. ASSUME NEW s, NEW x, Alike(s, r) PROVE Alike(Resolved(s, x), r) /\ Alike(Rejected(s), r)
  BY <1>5 DEF Alike, Shaped, Resolved, Rejected
<1>. QED BY <1>1, <1>2, <1>3, <1>4, <1>5

LEMMA ReleaseStep ==
  ASSUME CallsInv, Release
  PROVE  CallsInv' /\ UNCHANGED Abstract!vars
<1>1. CallsInv'
  BY DEF CallsInv, Release, Sound, Shaped, Idle, Made, Seen
<1>2. UNCHANGED Abstract!vars
  BY DEF Release, Abstract!vars
<1>. QED BY <1>1, <1>2

\* A call is rejected, or stays pending and the process ends.
LEMMA RejectEither ==
  ASSUME NEW c \in Calls, NEW s, Reject(c, s)
  PROVE  /\ crashed' \in BOOLEAN
         /\ \E t : calls' = [calls EXCEPT ![c] = t] /\ (t = s \/ t = Rejected(s))
<1>1. CASE s.op = "keySet.delete" /\ s.promise = "pending"
  BY <1>1 DEF Reject
<1>2. CASE ~(s.op = "keySet.delete" /\ s.promise = "pending")
  BY <1>2 DEF Reject
<1>. QED BY <1>1, <1>2

\* What a step that settles a call, or not, comes to.
LEMMA SettledOrNot ==
  ASSUME CallsInv, NEW c \in Calls, NEW s, NEW t, calls[c] # Idle, Alike(s, calls[c]),
         s.promise = calls[c].promise, s.result = calls[c].result,
         t = s \/ t = Rejected(s) \/ (\E x : t = Resolved(s, x) /\ (Plainly =>
           calls[c].performed /\ x = Answered(calls[c].op, calls[c].reply, calls[c].other))),
         calls' = [calls EXCEPT ![c] = t],
         map' = map, active' = active, events' = events, crashed' \in BOOLEAN
  PROVE  CallsInv' /\ (Plainly => [Abstract!Next]_Abstract!vars)
<1>. DEFINE A == [x \in Calls |-> Mapped(calls[x])]
<1>0. A[c].performed = calls[c].performed
      /\ (A[c].performed => A[c].outcome = Answered(calls[c].op, calls[c].reply, calls[c].other))
  BY DEF Mapped
<1>. HIDE DEF A
<1>1. Sound(c, calls[c])
  BY DEF CallsInv
<1>2. Alike(t, calls[c])
  <2>1. Alike(Rejected(s), calls[c]) /\ \A x : Alike(Resolved(s, x), calls[c])
    BY <1>1, Helpers
  <2>. QED BY <2>1
<1>3. CallsInv'
  BY <1>2, AlikeStep
<1>4. CASE t = s
  BY <1>2, <1>3, <1>4, QuietStep
<1>5. CASE s.promise # "pending"
  <2>1. t = s
    BY <1>5 DEF Rejected, Resolved
  <2>. QED BY <2>1, <1>4
<1>6. CASE t = Rejected(s) /\ s.promise = "pending" /\ t # s
  <2>1. t.promise = "rejected" /\ t.result = <<>>
    BY <1>6 DEF Rejected, Alike, Shaped
  <2>2. Abstract!Settle(c, t.promise, t.result)
    BY <1>2, <1>6, SettleStep
  <2>3. Abstract!Reject(c)
    BY <2>1, <2>2 DEF Abstract!Reject
  <2>. QED BY <1>3, <2>3 DEF Abstract!Next
<1>7. ASSUME NEW x, t = Resolved(s, x), s.promise = "pending", Plainly,
             calls[c].performed, x = Answered(calls[c].op, calls[c].reply, calls[c].other)
      PROVE  Abstract!Resolve(c)
  <2>1. t.promise = "resolved" /\ t.result = x
    BY <1>7 DEF Resolved, Alike, Shaped
  <2>2. Abstract!Settle(c, t.promise, t.result)
    BY <1>2, <1>7, SettleStep
  <2>3. A[c].promise = "pending" /\ A' = [A EXCEPT ![c].promise = t.promise, ![c].result = t.result]
    BY <2>2 DEF A, Mapped, Abstract!Settle
  <2>4. /\ A[c].performed /\ A[c].promise = "pending"
        /\ A' = [A EXCEPT ![c].promise = "resolved", ![c].result = A[c].outcome]
    BY <1>0, <1>7, <2>1, <2>3
  <2>. QED BY <2>4 DEF A, Mapped, Abstract!Resolve, Abstract!Settle
<1>8. ASSUME NEW x, t = Resolved(s, x), s.promise = "pending",
             Plainly => calls[c].performed /\ x = Answered(calls[c].op, calls[c].reply, calls[c].other)
      PROVE  CallsInv' /\ (Plainly => [Abstract!Next]_Abstract!vars)
  BY <1>3, <1>7, <1>8 DEF Abstract!Next
<1>. QED BY <1>4, <1>5, <1>6, <1>8

LEMMA WaitEndsStep ==
  ASSUME CallsInv, NEW c \in Calls, NEW expired \in BOOLEAN, WaitEnds(c, expired)
  PROVE  CallsInv' /\ (Plainly => [Abstract!Next]_Abstract!vars)
<1>. DEFINE s == [calls[c] EXCEPT !.wait = @ - 1, !.rpc = "open"]
<1>1. calls[c] # Idle /\ calls[c].wait > 0
  BY DEF WaitEnds, Idle, Made
<1>2. Sound(c, calls[c]) /\ Shaped(calls[c])
  BY DEF CallsInv, Sound
<1>3. Alike(s, calls[c]) /\ s.promise = calls[c].promise /\ s.result = calls[c].result
  BY <1>1, <1>2, Helpers DEF Shaped
<1>4. /\ crashed' \in BOOLEAN
      /\ \E t : calls' = [calls EXCEPT ![c] = t] /\ (t = s \/ t = Rejected(s))
  <2>1. CASE Reject(c, s)
    BY <2>1, RejectEither
  <2>2. CASE calls' = [calls EXCEPT ![c] = s] /\ crashed' = crashed
    BY <2>2 DEF CallsInv
  <2>. QED BY <2>1, <2>2 DEF WaitEnds
<1>5. map' = map /\ active' = active /\ events' = events /\ crashed' \in BOOLEAN
  BY <1>4 DEF WaitEnds
<1>. HIDE DEF s
<1>. QED BY <1>1, <1>3, <1>4, <1>5, SettledOrNot

LEMMA ClosedAlike ==
  ASSUME CallsInv, NEW c \in Calls, calls[c].rpc = "open"
  PROVE  /\ calls[c] # Idle /\ Sound(c, calls[c])
         /\ Alike(Closed(c), calls[c])
         /\ Closed(c).promise = calls[c].promise /\ Closed(c).result = calls[c].result
<1>1. calls[c] # Idle
  BY DEF Idle, Made
<1>2. Sound(c, calls[c]) /\ Shaped(calls[c])
  BY DEF CallsInv, Sound
<1>. QED BY <1>1, <1>2, Helpers DEF Closed, Shaped

LEMMA AnswerStep ==
  ASSUME CallsInv, NEW c \in Calls, Answer(c)
  PROVE  CallsInv' /\ (Plainly => [Abstract!Next]_Abstract!vars)
<1>1. calls[c].rpc = "open" /\ calls[c].performed
  BY DEF Answer, Listens
<1>2. PICK t : /\ calls' = [calls EXCEPT ![c] = t]
               /\ \/ t = Closed(c)
                  \/ t = Resolved(Closed(c), Answered(calls[c].op, calls[c].reply, calls[c].other))
  BY DEF Answer
<1>3. map' = map /\ active' = active /\ events' = events /\ crashed' \in BOOLEAN
  BY DEF Answer, CallsInv
<1>. QED BY <1>1, <1>2, <1>3, ClosedAlike, SettledOrNot

LEMMA DataStep ==
  ASSUME CallsInv, NEW c \in Calls, Data(c)
  PROVE  CallsInv' /\ (Plainly => [Abstract!Next]_Abstract!vars)
<1>1. calls[c].rpc = "open"
  BY DEF Data, Listens
<1>2. calls[c] # Idle /\ Sound(c, calls[c]) /\ Shaped(calls[c])
  BY <1>1, ClosedAlike DEF Sound
<1>3. PICK e : /\ calls' = [calls EXCEPT ![c].got = @ \cup {e}]
               /\ crashed' = (calls[c].op = "values" /\ e[2] = Null)
  BY DEF Data
<1>. DEFINE s == [calls[c] EXCEPT !.got = @ \cup {e}]
<1>4. Alike(s, calls[c]) /\ s.promise = calls[c].promise /\ s.result = calls[c].result
  BY <1>2, Helpers DEF Shaped
<1>5. calls' = [calls EXCEPT ![c] = s]
  BY <1>3
<1>6. map' = map /\ active' = active /\ events' = events /\ crashed' \in BOOLEAN
  BY <1>3 DEF Data
<1>. HIDE DEF s
<1>. QED BY <1>2, <1>4, <1>5, <1>6, SettledOrNot

LEMMA EndStep ==
  ASSUME CallsInv, NEW c \in Calls, End(c)
  PROVE  CallsInv' /\ (Plainly => [Abstract!Next]_Abstract!vars)
<1>1. calls[c].rpc = "open" /\ calls[c].performed /\ calls[c].op \in Streams /\ calls[c].got = calls[c].reply[1]
  BY DEF End, Listens
<1>2. calls[c].reply = <<calls[c].reply[1]>>
  BY <1>1 DEF CallsInv, Sound
<1>3. Answered(calls[c].op, <<calls[c].got>>, Null) = Answered(calls[c].op, calls[c].reply, calls[c].other)
  <2>1. calls[c].op # "get"
    BY <1>1 DEF Streams, Filtered
  <2>. QED BY <1>1, <1>2, <2>1 DEF Answered
<1>4. calls' = [calls EXCEPT ![c] =
        Resolved(Closed(c), Answered(calls[c].op, calls[c].reply, calls[c].other))]
  BY <1>3 DEF End
<1>5. map' = map /\ active' = active /\ events' = events /\ crashed' \in BOOLEAN
  BY DEF End, CallsInv
<1>. QED BY <1>1, <1>4, <1>5, ClosedAlike, SettledOrNot

LEMMA FailsStep ==
  ASSUME CallsInv, NEW c \in Calls, Fails(c)
  PROVE  CallsInv' /\ (Plainly => [Abstract!Next]_Abstract!vars)
<1>1. calls[c].rpc = "open"
  BY DEF Fails
<1>2. map' = map /\ active' = active /\ events' = events
  BY DEF Fails
<1>3. CASE calls[c].wait > 0
  <2>1. calls' = [calls EXCEPT ![c] = Closed(c)] /\ crashed' \in BOOLEAN
    BY <1>3 DEF Fails
  <2>. QED BY <1>1, <1>2, <2>1, ClosedAlike, SettledOrNot
<1>4. CASE calls[c].wait = 0 /\ calls[c].op = "get"
  <2>1. calls' = [calls EXCEPT ![c] = Resolved(Closed(c), <<calls[c].other>>)] /\ crashed' \in BOOLEAN
    BY <1>4 DEF Fails, CallsInv
  <2>2. ~Plainly
    BY <1>4 DEF Fails, Plainly
  <2>. QED BY <1>1, <1>2, <2>1, <2>2, ClosedAlike, SettledOrNot
<1>5. CASE calls[c].wait = 0 /\ calls[c].op # "get"
  <2>1. Reject(c, Closed(c))
    BY <1>5 DEF Fails
  <2>2. PICK t : calls' = [calls EXCEPT ![c] = t] /\ (t = Closed(c) \/ t = Rejected(Closed(c)))
    BY <2>1, RejectEither
  <2>3. crashed' \in BOOLEAN
    BY <2>1, RejectEither
  <2>. QED BY <1>1, <1>2, <2>2, <2>3, ClosedAlike, SettledOrNot
<1>6. calls[c].wait > 0 \/ calls[c].wait = 0
  <2>1. calls[c].wait \in 0 .. 2
    BY <1>1, ClosedAlike DEF Sound
  <2>. QED BY <2>1
<1>. QED BY <1>3, <1>4, <1>5, <1>6

----------------------------------------------------------------------------
(* Call, Perform and the event of a truncation.                            *)

LEMMA RejectedMade ==
  ASSUME NEW op, NEW a, NEW waits, NEW rpc
  PROVE  LET r == Made(op, a, waits, rpc, "pending")
         IN  Rejected(r) = r \/ Rejected(r) = Made(op, a, waits, rpc, "rejected")
<1>. DEFINE r == Made(op, a, waits, rpc, "pending")
<1>1. /\ Shaped(r)
      /\ r = [op |-> op, key |-> a[1], value |-> a[2], other |-> a[3], wait |-> waits, rpc |-> rpc,
              performed |-> FALSE, reply |-> <<>>, got |-> {}, promise |-> "pending", result |-> <<>>]
  BY DEF Made, Shaped
<1>. HIDE DEF r
<1>2. [r EXCEPT !.promise = "rejected"] = Made(op, a, waits, rpc, "rejected")
  <2>1. [r EXCEPT !.promise = "rejected"] =
          [op |-> r.op, key |-> r.key, value |-> r.value, other |-> r.other, wait |-> r.wait, rpc |-> r.rpc,
           performed |-> r.performed, reply |-> r.reply, got |-> r.got, promise |-> "rejected", result |-> r.result]
    <3>1. Shaped(r)
      BY <1>1
    <3>. QED BY <3>1 DEF Shaped
  <2>2. /\ r.op = op /\ r.key = a[1] /\ r.value = a[2] /\ r.other = a[3] /\ r.wait = waits /\ r.rpc = rpc
        /\ r.performed = FALSE /\ r.reply = <<>> /\ r.got = {} /\ r.result = <<>>
    BY <1>1
  <2>. QED BY <2>1, <2>2 DEF Made
<1>. QED BY <1>2 DEF Rejected, r

\* A call starts with its arguments, no result and nothing performed.
LEMMA CallStep ==
  ASSUME CallsInv, NEW c \in Calls, NEW op \in Ops, NEW waits \in 0 .. 2, NEW rpc \in {"none", "open"},
         Call(c, op, waits, rpc)
  PROVE  CallsInv' /\ (Plainly => [Abstract!Next]_Abstract!vars)
<1>1. calls[c] = Idle /\ op \in MayCall[c] /\ map' = map /\ active' = active /\ events' = events
  BY DEF Call
<1>2. PICK a \in Arguments(op, Values), p \in {"pending", "rejected"} :
        calls' = [calls EXCEPT ![c] = Made(op, a, waits, rpc, p)]
  <2>1. PICK a \in Arguments(op, Values) :
          \/ calls' = [calls EXCEPT ![c] = Made(op, a, waits, rpc, "pending")]
          \/ Reject(c, Made(op, a, waits, rpc, "pending"))
    BY DEF Call
  <2>2. \/ Rejected(Made(op, a, waits, rpc, "pending")) = Made(op, a, waits, rpc, "pending")
        \/ Rejected(Made(op, a, waits, rpc, "pending")) = Made(op, a, waits, rpc, "rejected")
    BY RejectedMade
  <2>3. CASE Reject(c, Made(op, a, waits, rpc, "pending"))
    <3>1. PICK t : /\ calls' = [calls EXCEPT ![c] = t]
                   /\ \/ t = Made(op, a, waits, rpc, "pending")
                      \/ t = Rejected(Made(op, a, waits, rpc, "pending"))
      BY <2>3, RejectEither
    <3>. QED BY <2>2, <3>1
  <2>. QED BY <2>1, <2>3
<1>0. crashed' \in BOOLEAN
  <2>1. ASSUME NEW r, Reject(c, r) PROVE crashed' \in BOOLEAN
    BY <2>1, RejectEither
  <2>. QED BY <2>1 DEF Call, CallsInv
<1>. DEFINE s == Made(op, a, waits, rpc, p)
<1>3. calls' = [x \in Calls |-> calls'[x]] /\ calls'[c] = s /\ \A x \in Calls \ {c} : calls'[x] = calls[x]
  BY <1>2, ChangedCall DEF CallsInv
<1>4. Sound(c, s)
  <2>1. <<a[1], a[2], a[3]>> = a
    BY DEF Arguments
  <2>. QED BY <1>1, <2>1 DEF Sound, Shaped, Made
<1>5. Seen' <=> Seen
  <2>1. calls[c].performed = FALSE /\ s.performed = FALSE
    BY <1>1 DEF Idle, Made
  <2>. HIDE DEF s
  <2>. QED BY <1>3, <2>1 DEF Seen
<1>6. CallsInv'
  <2>1. \A x \in Calls : Sound(x, calls'[x])
    BY <1>3, <1>4 DEF CallsInv
  <2>2. (\A x \in Calls : Sound(x, calls[x]))'
    BY <2>1 DEF Sound, Shaped, Idle, Made
  <2>. QED BY <1>0, <1>1, <1>3, <1>5, <2>2 DEF CallsInv
<1>. DEFINE A == [x \in Calls |-> Mapped(calls[x])]
<1>7. A[c] = Abstract!NotCalled
  <2>1. Mapped(Idle) = Abstract!NotCalled
    BY DEF Mapped, Idle, Made, Abstract!NotCalled, Abstract!Called
  <2>. QED BY <1>1, <2>1
<1>8. A' = [A EXCEPT ![c] = Abstract!Called(op, a, p)]
  <2>1. Mapped(s) = Abstract!Called(op, a, p)
    BY DEF Mapped, Made, Abstract!Called
  <2>. HIDE DEF s
  <2>2. A' = [x \in Calls |-> Mapped(calls'[x])]
    BY DEF Mapped
  <2>3. \A x \in Calls : Mapped(calls'[x]) = IF x = c THEN Mapped(s) ELSE A[x]
    BY <1>3
  <2>. QED BY <2>1, <2>2, <2>3
<1>9. Abstract!Call(c)
  <2>1. /\ A[c] = Abstract!NotCalled
        /\ \E o \in Abstract!Ops, y \in {"pending", "rejected"} : \E b \in Abstract!Arguments(o, Values) :
             A' = [A EXCEPT ![c] = Abstract!Called(o, b, y)]
        /\ map' = map
    <3>. HIDE DEF A
    <3>. QED BY <1>1, <1>7, <1>8, SameMeaning
  <2>. QED BY <2>1 DEF A, Mapped, Abstract!Call
<1>. QED BY <1>6, <1>9 DEF Abstract!Next

LEMMA ApplicationStep ==
  ASSUME CallsInv, NEW c \in Calls, Application(c)
  PROVE  CallsInv' /\ (Plainly => [Abstract!Next]_Abstract!vars)
<1>1. ASSUME NEW op, NEW waits \in 0 .. 2, NEW rpc \in {"none", "open"}, Call(c, op, waits, rpc)
      PROVE  CallsInv' /\ (Plainly => [Abstract!Next]_Abstract!vars)
  <2>1. op \in MayCall[c] /\ MayCall[c] \subseteq Ops
    BY <1>1, CallsAssumption DEF Call
  <2>. QED BY <1>1, <2>1, CallStep
<1>2. CASE CallKeySet(c)
  BY <1>1, <1>2 DEF CallKeySet
<1>3. CASE CallEntrySet(c)
  BY <1>1, <1>3 DEF CallEntrySet
<1>4. CASE CallValueSet(c)
  BY <1>1, <1>4 DEF CallValueSet
<1>5. CASE CallState(c)
  BY <1>1, <1>5 DEF CallState
<1>6. CASE CallAggregate(c)
  BY <1>1, <1>6 DEF CallAggregate
<1>7. CASE CallProcessor(c)
  BY <1>1, <1>7 DEF CallProcessor
<1>8. CASE CallForEach(c)
  BY <1>1, <1>8 DEF CallForEach
<1>9. CASE CallFiltered(c)
  BY <1>1, <1>9 DEF CallFiltered
<1>10. CASE CallIndex(c)
  BY <1>1, <1>10 DEF CallIndex
<1>11. CASE CallClear(c)
  BY <1>1, <1>11 DEF CallClear
<1>12. CASE CallGet(c)
  BY <1>1, <1>12 DEF CallGet
<1>13. CASE CallUpdate(c)
  BY <1>1, <1>13 DEF CallUpdate
<1>14. CASE CallTruncate(c)
  BY <1>1, <1>14 DEF CallTruncate
<1>. QED
  BY <1>2, <1>3, <1>4, <1>5, <1>6, <1>7, <1>8, <1>9, <1>10, <1>11, <1>12, <1>13, <1>14 DEF Application

\* The map stays one of keys to values.
LEMMA EffectTyped ==
  ASSUME NEW m \in [Keys -> Values \cup {Null, Absent}], NEW op, NEW k,
         NEW v \in Values \cup {Null}, NEW w \in Values \cup {Null}
  PROVE  Effect(op, k, v, w, m) \in [Keys -> Values \cup {Null, Absent}]
<1>. DEFINE V == Values \cup {Null, Absent}
<1>1. \A y \in V : With(m, k, y) \in [Keys -> V] /\ [x \in Keys |-> y] \in [Keys -> V]
                   /\ [x \in Keys |-> IF m[x] = Absent THEN Absent ELSE y] \in [Keys -> V]
  BY DEF With
<1>2. Effect(op, k, v, w, m) \in
        {m, With(m, k, v), With(m, k, w), With(m, k, Absent), [x \in Keys |-> Absent],
         [x \in Keys |-> v], [x \in Keys |-> IF m[x] = Absent THEN Absent ELSE v]}
  BY DEF Effect
<1>. QED BY <1>1, <1>2

LEMMA ReplyPut ==
  ASSUME NEW r, Shaped(r), NEW y, NEW b
  PROVE  [r EXCEPT !.performed = b, !.reply = y] =
           [op |-> r.op, key |-> r.key, value |-> r.value, other |-> r.other, wait |-> r.wait, rpc |-> r.rpc,
            performed |-> b, reply |-> y, got |-> r.got, promise |-> r.promise, result |-> r.result]
<1>. DEFINE p == [r EXCEPT !.performed = b]
<1>1. p = [op |-> r.op, key |-> r.key, value |-> r.value, other |-> r.other, wait |-> r.wait, rpc |-> r.rpc,
           performed |-> b, reply |-> r.reply, got |-> r.got, promise |-> r.promise, result |-> r.result]
  BY DEF Shaped
<1>2. [r EXCEPT !.performed = b, !.reply = y] = [p EXCEPT !.reply = y]
  BY DEF Shaped
<1>. HIDE DEF p
<1>3. [p EXCEPT !.reply = y] =
        [op |-> r.op, key |-> r.key, value |-> r.value, other |-> r.other, wait |-> r.wait, rpc |-> r.rpc,
         performed |-> b, reply |-> y, got |-> r.got, promise |-> r.promise, result |-> r.result]
  BY <1>1
<1>. QED BY <1>2, <1>3

LEMMA OutcomePut ==
  ASSUME NEW m, NEW y, NEW b,
         m = [op |-> m.op, key |-> m.key, value |-> m.value, other |-> m.other, performed |-> m.performed,
              promise |-> m.promise, result |-> m.result, outcome |-> m.outcome]
  PROVE  [m EXCEPT !.performed = b, !.outcome = y] =
           [op |-> m.op, key |-> m.key, value |-> m.value, other |-> m.other, performed |-> b,
            promise |-> m.promise, result |-> m.result, outcome |-> y]
<1>. DEFINE p == [m EXCEPT !.performed = b]
<1>1. p = [op |-> m.op, key |-> m.key, value |-> m.value, other |-> m.other, performed |-> b,
           promise |-> m.promise, result |-> m.result, outcome |-> m.outcome]
  OBVIOUS
<1>2. [m EXCEPT !.performed = b, !.outcome = y] = [p EXCEPT !.outcome = y]
  OBVIOUS
<1>. HIDE DEF p
<1>3. [p EXCEPT !.outcome = y] =
        [op |-> m.op, key |-> m.key, value |-> m.value, other |-> m.other, performed |-> b,
         promise |-> m.promise, result |-> m.result, outcome |-> y]
  BY <1>1
<1>. QED BY <1>2, <1>3

LEMMA PromisePut ==
  ASSUME NEW m,
         m = [op |-> m.op, key |-> m.key, value |-> m.value, other |-> m.other, performed |-> m.performed,
              promise |-> m.promise, result |-> m.result, outcome |-> m.outcome],
         m.result = m.outcome
  PROVE  [m EXCEPT !.promise = "resolved", !.result = m.outcome] = [m EXCEPT !.promise = "resolved"]
OBVIOUS

LEMMA PerformStep ==
  ASSUME CallsInv, NEW c \in Calls, Perform(c)
  PROVE  CallsInv' /\ (Plainly => [Abstract!Next]_Abstract!vars)
<1>. DEFINE r == calls[c]
            q == Built(r.op, r.key, r.value, r.other)
            s == [r EXCEPT !.performed = TRUE, !.reply = Reply(q, map)]
            A == [x \in Calls |-> Mapped(calls[x])]
<1>1. r.rpc # "none" /\ r # Idle
  BY DEF Perform, Idle, Made
<1>2. Sound(c, r) /\ Shaped(r) /\ r.op \in Ops /\ <<r.key, r.value, r.other>> \in Arguments(r.op, Values) /\ r.op # "none"
  <2>1. Sound(c, r)
    BY DEF CallsInv
  <2>. QED BY <1>1, <2>1, CallsHaveOps DEF Sound
<1>3. calls' = [calls EXCEPT ![c] = s] /\ active' = active /\ crashed' = crashed /\ ~r.performed
  BY DEF Perform
<1>4. calls' = [x \in Calls |-> calls'[x]] /\ calls'[c] = s /\ \A x \in Calls \ {c} : calls'[x] = calls[x]
  BY <1>3, ChangedCall DEF CallsInv
<1>0. map' = Effect(q.op, q.key, q.value, q.other, map)
  BY DEF Perform
<1>5. Truthy => map' = Effect(r.op, r.key, r.value, r.other, map)
  BY <1>0, <1>2, EffectRight
<1>6. Truthy => Answered(r.op, Reply(q, map), r.other) = Result(r.op, r.key, r.value, r.other, map)
  BY <1>2, AnswerRight
<1>7. /\ r.op \in Streams => Reply(q, map) = <<Reply(q, map)[1]>>
      /\ r.op = "truncate" => Reply(q, map) = <<>>
  <2>1. q.op = r.op
    BY <1>2, BuiltFields
  <2>2. r.op \in Streams => r.op # "get" /\ r.op # "keySet.delete"
    BY DEF Streams, Filtered
  <2>3. r.op = "truncate" => Reply(q, map) = Result("truncate", q.key, q.value, q.other, map)
    BY <2>1 DEF Reply, Streams, Filtered
  <2>4. \A x, v, w : Result("truncate", x, v, w, map) = <<>>
    BY DEF Result
  <2>. QED BY <2>1, <2>2, <2>3, <2>4 DEF Reply
<1>. DEFINE rep == Reply(q, map)
<1>. HIDE DEF rep
<1>8. /\ Shaped(s)
      /\ s.op = r.op /\ s.key = r.key /\ s.value = r.value /\ s.other = r.other /\ s.wait = r.wait
      /\ s.rpc = r.rpc /\ s.performed = TRUE /\ s.reply = rep /\ s.promise = r.promise /\ s.result = r.result
  <2>1. \A y : LET z == [r EXCEPT !.performed = TRUE, !.reply = y]
               IN  /\ Shaped(z)
                   /\ z.op = r.op /\ z.key = r.key /\ z.value = r.value /\ z.other = r.other /\ z.wait = r.wait
                   /\ z.rpc = r.rpc /\ z.performed = TRUE /\ z.reply = y /\ z.promise = r.promise
                   /\ z.result = r.result
    <3>. TAKE y
    <3>. DEFINE z == [r EXCEPT !.performed = TRUE, !.reply = y]
    <3>1. z = [op |-> r.op, key |-> r.key, value |-> r.value, other |-> r.other, wait |-> r.wait, rpc |-> r.rpc,
               performed |-> TRUE, reply |-> y, got |-> r.got, promise |-> r.promise, result |-> r.result]
      BY <1>2, ReplyPut
    <3>. HIDE DEF z
    <3>2. /\ Shaped(z)
          /\ z.op = r.op /\ z.key = r.key /\ z.value = r.value /\ z.other = r.other /\ z.wait = r.wait
          /\ z.rpc = r.rpc /\ z.performed = TRUE /\ z.reply = y /\ z.promise = r.promise /\ z.result = r.result
      BY <3>1 DEF Shaped
    <3>. QED BY <3>2 DEF z
  <2>. QED BY <2>1 DEF rep
<1>. HIDE DEF s
<1>9. Sound(c, s)
  BY <1>1, <1>2, <1>7, <1>8 DEF Sound, rep
<1>10. map' \in [Keys -> Values \cup {Null, Absent}]
  <2>1. q.value \in {r.value, Null} /\ q.other \in {r.other, Null}
    BY <1>2, BuiltFields
  <2>2. r.value \in Values \cup {Null} /\ r.other \in Values \cup {Null}
    BY <1>2 DEF Arguments
  <2>. HIDE DEF q
  <2>. QED BY <1>0, <2>1, <2>2, EffectTyped DEF CallsInv
<1>11. Seen' <=> (Seen \/ r.op = "truncate")
  BY <1>3, <1>4, <1>8 DEF Seen
<1>12. CallsInv'
  <2>1. \A x \in Calls : Sound(x, calls'[x])
    BY <1>4, <1>9 DEF CallsInv
  <2>2. (\A x \in Calls : Sound(x, calls[x]))'
    BY <2>1 DEF Sound, Shaped, Idle, Made
  <2>3. events' \in Nat /\ (events' > 0 => events > 0 \/ r.op = "truncate")
    BY DEF CallsInv, Perform
  <2>. QED BY <1>3, <1>4, <1>10, <1>11, <2>2, <2>3 DEF CallsInv
<1>13. /\ A[c] # Abstract!NotCalled /\ ~A[c].performed
       /\ A[c].op = r.op /\ A[c].key = r.key /\ A[c].value = r.value /\ A[c].other = r.other
  BY <1>2, <1>3 DEF Mapped, Abstract!NotCalled, Abstract!Called
<1>14. Truthy =>
        A' = [A EXCEPT ![c].performed = TRUE, ![c].outcome = Result(r.op, r.key, r.value, r.other, map)]
  <2>1. Mapped(s) = [Mapped(r) EXCEPT !.performed = TRUE, !.outcome = Answered(r.op, rep, r.other)]
    <3>1. Mapped(s) = [op |-> r.op, key |-> r.key, value |-> r.value, other |-> r.other, performed |-> TRUE,
                       promise |-> r.promise, result |-> r.result, outcome |-> Answered(r.op, rep, r.other)]
      BY <1>8 DEF Mapped
    <3>. DEFINE m == Mapped(r)
    <3>2. m = [op |-> m.op, key |-> m.key, value |-> m.value, other |-> m.other, performed |-> m.performed,
               promise |-> m.promise, result |-> m.result, outcome |-> m.outcome]
      BY DEF Mapped
    <3>3. /\ m.op = r.op /\ m.key = r.key /\ m.value = r.value /\ m.other = r.other
          /\ m.promise = r.promise /\ m.result = r.result
      BY DEF Mapped
    <3>. HIDE DEF m
    <3>4. [m EXCEPT !.performed = TRUE, !.outcome = Answered(r.op, rep, r.other)] =
            [op |-> m.op, key |-> m.key, value |-> m.value, other |-> m.other, performed |-> TRUE,
             promise |-> m.promise, result |-> m.result, outcome |-> Answered(r.op, rep, r.other)]
      BY <3>2, OutcomePut
    <3>5. Mapped(s) = [m EXCEPT !.performed = TRUE, !.outcome = Answered(r.op, rep, r.other)]
      BY <3>1, <3>3, <3>4
    <3>. QED BY <3>5 DEF m
  <2>2. A' = [x \in Calls |-> Mapped(calls'[x])]
    BY DEF Mapped
  <2>3. \A x \in Calls : Mapped(calls'[x]) = IF x = c THEN Mapped(s) ELSE A[x]
    BY <1>4
  <2>. HIDE DEF r
  <2>4. A[c] = Mapped(r)
    BY DEF r
  <2>5. Truthy => Answered(r.op, rep, r.other) = Result(r.op, r.key, r.value, r.other, map)
    BY <1>6 DEF rep
  <2>. QED BY <2>1, <2>2, <2>3, <2>4, <2>5
<1>15. ASSUME Truthy PROVE Abstract!Perform(c)
  <2>1. LET z == A[c]
        IN  /\ z # Abstract!NotCalled /\ ~z.performed
            /\ map' = Abstract!Effect(z.op, z.key, z.value, z.other, map)
            /\ A' = [A EXCEPT ![c].performed = TRUE,
                              ![c].outcome = Abstract!Result(z.op, z.key, z.value, z.other, map)]
    <3>. HIDE DEF A, r
    <3>. QED BY <1>5, <1>13, <1>14, <1>15, SameMeaning
  <2>. QED BY <2>1 DEF A, Mapped, Abstract!Perform
<1>. QED BY <1>12, <1>15 DEF Plainly, Abstract!Next

\* The event resolves the truncates that listen.
LEMMA HearTruncatedStep ==
  ASSUME CallsInv, HearTruncated
  PROVE  CallsInv' /\ (Plainly => [Abstract!Next]_Abstract!vars)
<1>. DEFINE hears(c) == calls[c].op = "truncate" /\ calls[c].rpc # "none"
            told == {c \in Calls : hears(c) /\ calls[c].promise = "pending"}
            A == [x \in Calls |-> Mapped(calls[x])]
<1>1. /\ events > 0 /\ events' = events - 1 /\ map' = map /\ active' = active /\ crashed' = crashed
      /\ calls' = [c \in Calls |-> IF hears(c) THEN Resolved(calls[c], <<>>) ELSE calls[c]]
  BY DEF HearTruncated
<1>2. Seen
  BY <1>1 DEF CallsInv
<1>3. ASSUME NEW c \in Calls
      PROVE  /\ Sound(c, calls'[c])
             /\ calls'[c].op = calls[c].op /\ calls'[c].performed = calls[c].performed
             /\ Mapped(calls'[c]) = IF c \in told THEN [A[c] EXCEPT !.promise = "resolved"] ELSE A[c]
  <2>1. Sound(c, calls[c]) /\ Shaped(calls[c])
    BY DEF CallsInv, Sound
  <2>2. CASE c \notin told
    <3>1. calls'[c] = calls[c]
      BY <1>1, <2>2 DEF Resolved
    <3>. QED BY <2>1, <2>2, <3>1
  <2>3. CASE c \in told
    <3>1. calls[c] # Idle /\ calls'[c] = Resolved(calls[c], <<>>) /\ calls[c].promise = "pending"
      BY <1>1, <2>3 DEF Idle, Made
    <3>2. Alike(calls'[c], calls[c])
      <4>1. Alike(calls[c], calls[c]) /\ \A y, x : Alike(y, calls[c]) => Alike(Resolved(y, x), calls[c])
        BY <2>1, <3>1, Helpers
      <4>. QED BY <3>1, <4>1
    <3>3. calls'[c].promise = "resolved" /\ calls'[c].result = <<>>
      BY <2>1, <3>1 DEF Resolved, Shaped
    <3>4. Sound(c, calls'[c])
      BY <2>1, <3>1, <3>2, AlikeSound
    <3>5. calls[c].result = <<>>
      BY <2>1, <3>1 DEF Sound
    <3>. QED BY <2>3, <3>2, <3>3, <3>4, <3>5 DEF Alike, Mapped
  <2>. QED BY <2>2, <2>3
<1>4. Seen' <=> Seen
  BY <1>3 DEF Seen
<1>5. CallsInv'
  <2>1. (\A c \in Calls : Sound(c, calls[c]))'
    BY <1>3 DEF Sound, Shaped, Idle, Made
  <2>2. calls' = [c \in Calls |-> calls'[c]]
    BY <1>1
  <2>3. events' \in Nat
    BY <1>1 DEF CallsInv
  <2>. QED BY <1>1, <1>2, <1>4, <2>1, <2>2, <2>3 DEF CallsInv
<1>6. \A c \in told : calls[c] # Idle /\ calls[c].op = "truncate" /\ calls[c].promise = "pending"
  BY DEF Idle, Made
<1>7. A' = [c \in Calls |-> IF c \in told THEN [A[c] EXCEPT !.promise = "resolved"] ELSE A[c]]
  <2>1. A' = [c \in Calls |-> Mapped(calls'[c])]
    BY DEF Mapped
  <2>. HIDE DEF told, A
  <2>. QED BY <1>3, <2>1
<1>. HIDE DEF told
<1>8. CASE told = {}
  <2>1. A' = A
    BY <1>7, <1>8
  <2>. QED BY <1>1, <1>5, <2>1 DEF Mapped, Abstract!vars
<1>9. ASSUME NEW c \in told, Plainly PROVE Abstract!Resolve(c)
  <2>0. c \in Calls
    BY DEF told
  <2>1. PICK d \in Calls : calls[d].op = "truncate" /\ calls[d].performed
    BY <1>2 DEF Seen
  <2>2. calls[d] # Idle
    BY <2>1 DEF Idle, Made
  <2>3. \A e \in Calls : calls[e] # Idle => calls[e].op \in MayCall[e]
    BY DEF CallsInv, Sound
  <2>4. \A e \in told : e = d
    <3>1. \A e \in told : e \in Calls
      BY DEF told
    <3>. QED BY <1>6, <1>9, <2>1, <2>2, <2>3, <3>1 DEF Plainly, OneTruncates
  <2>5. c = d
    BY <2>4
  <2>6. calls[c].performed /\ calls[c].reply = <<>> /\ calls[c].result = <<>> /\ Sound(c, calls[c])
    BY <1>6, <2>0, <2>1, <2>5 DEF CallsInv, Sound
  <2>7. Answered("truncate", <<>>, calls[c].other) = <<>>
    BY DEF Answered
  <2>8. /\ A[c].performed /\ A[c].promise = "pending" /\ A[c].outcome = <<>> /\ A[c].result = <<>>
        /\ A[c] = [op |-> A[c].op, key |-> A[c].key, value |-> A[c].value, other |-> A[c].other,
                   performed |-> A[c].performed, promise |-> A[c].promise, result |-> A[c].result,
                   outcome |-> A[c].outcome]
    BY <1>6, <2>0, <2>6, <2>7 DEF Mapped
  <2>9. A = [e \in Calls |-> A[e]]
    OBVIOUS
  <2>. HIDE DEF A
  <2>10. A' = [e \in Calls |-> IF e = c THEN [A[c] EXCEPT !.promise = "resolved"] ELSE A[e]]
    BY <1>7, <2>4, <2>5
  <2>12. [A EXCEPT ![c].promise = "resolved", ![c].result = A[c].outcome] =
           [e \in Calls |-> IF e = c THEN [A[c] EXCEPT !.promise = "resolved"] ELSE A[e]]
    <3>. DEFINE z == [A[c] EXCEPT !.promise = "resolved", !.result = A[c].outcome]
    <3>1. [A EXCEPT ![c].promise = "resolved", ![c].result = A[c].outcome] =
            [e \in Calls |-> IF e = c THEN z ELSE A[e]]
      BY <2>0, <2>9
    <3>2. z = [A[c] EXCEPT !.promise = "resolved"]
      BY <2>8, PromisePut
    <3>. HIDE DEF z
    <3>. QED BY <3>1, <3>2
  <2>. QED BY <1>1, <2>8, <2>10, <2>12 DEF A, Mapped, Abstract!Resolve, Abstract!Settle
<1>10. told \subseteq Calls
  BY DEF told
<1>. QED BY <1>5, <1>8, <1>9, <1>10 DEF Abstract!Next

----------------------------------------------------------------------------
(* The theorems.                                                           *)

LEMMA InitSound == Init => CallsInv /\ Abstract!Init
<1>. SUFFICES ASSUME Init PROVE CallsInv /\ Abstract!Init
  OBVIOUS
<1>1. CallsInv
  <2>1. \A c \in Calls : Sound(c, Idle)
    BY DEF Idle, Made, Sound, Shaped
  <2>2. map \in [Keys -> Values \cup {Null, Absent}]
    <3>1. map \in Contents
      BY DEF Init
    <3>2. Contents \subseteq [Keys -> Values \cup {Null, Absent}]
      BY CallsAssumption
    <3>. QED BY <3>1, <3>2
  <2>3. calls = [c \in Calls |-> Idle] /\ active \in BOOLEAN /\ crashed \in BOOLEAN /\ events = 0
    BY DEF Init
  <2>4. calls = [c \in Calls |-> calls[c]] /\ \A c \in Calls : calls[c] = Idle
    BY <2>3
  <2>. QED BY <2>1, <2>2, <2>3, <2>4 DEF CallsInv
<1>2. Abstract!Init
  BY DEF Init, Idle, Made, Abstract!Init, Abstract!NotCalled, Abstract!Called
<1>. QED BY <1>1, <1>2

LEMMA NextSound == CallsInv /\ [Next]_vars => CallsInv' /\ (Plainly => [Abstract!Next]_Abstract!vars)
<1>. SUFFICES ASSUME CallsInv, [Next]_vars PROVE CallsInv' /\ (Plainly => [Abstract!Next]_Abstract!vars)
  OBVIOUS
<1>1. ASSUME NEW c \in Calls, Application(c) PROVE CallsInv' /\ (Plainly => [Abstract!Next]_Abstract!vars)
  BY <1>1, ApplicationStep
<1>2. ASSUME NEW c \in Calls, NEW expired \in BOOLEAN, WaitEnds(c, expired)
      PROVE  CallsInv' /\ (Plainly => [Abstract!Next]_Abstract!vars)
  BY <1>2, WaitEndsStep
<1>3. ASSUME NEW c \in Calls, Perform(c) PROVE CallsInv' /\ (Plainly => [Abstract!Next]_Abstract!vars)
  BY <1>3, PerformStep
<1>4. ASSUME NEW c \in Calls, Answer(c) \/ Data(c) \/ End(c) \/ Fails(c)
      PROVE  CallsInv' /\ (Plainly => [Abstract!Next]_Abstract!vars)
  BY <1>4, AnswerStep, DataStep, EndStep, FailsStep
<1>5. CASE Release
  BY <1>5, ReleaseStep
<1>6. CASE HearTruncated
  BY <1>6, HearTruncatedStep
<1>7. CASE UNCHANGED vars
  <2>1. CallsInv'
    BY <1>7 DEF vars, CallsInv, Sound, Shaped, Idle, Made, Seen
  <2>2. UNCHANGED Abstract!vars
    BY <1>7 DEF vars, Abstract!vars
  <2>. QED BY <2>1, <2>2
<1>. QED BY <1>1, <1>2, <1>3, <1>4, <1>5, <1>6, <1>7 DEF Next

\* Calls are of the kind and with the arguments they may have, and the map maps
\* its keys to values, over any requests that are lost, late or overtaken.
THEOREM TypeCorrect == Spec => []TypeOK
<1>1. Init => CallsInv
  BY InitSound
<1>2. CallsInv /\ [Next]_vars => CallsInv'
  BY NextSound
<1>3. CallsInv => TypeOK
  BY DEF CallsInv, Sound, TypeOK
<1>. QED BY <1>1, <1>2, <1>3, PTL DEF Spec

\* Any calls of the data operations, with truthy keys and values, are calls of a
\* RemoteMap over any requests that are lost, late, overtaken or given up, if no get
\* is and one truncates at most.
THEOREM Implements ==
  Truthy /\ "get" \notin MayFail /\ OneTruncates => (Spec => ImplementsRemoteMap)
<1>. SUFFICES ASSUME Plainly PROVE Spec => ImplementsRemoteMap
  BY DEF Plainly
<1>1. Init => CallsInv /\ Abstract!Init
  BY InitSound
<1>2. CallsInv /\ [Next]_vars => CallsInv' /\ [Abstract!Next]_Abstract!vars
  BY NextSound
<1>. QED BY <1>1, <1>2, PTL DEF Spec, ImplementsRemoteMap, Abstract!Spec

============================================================================
