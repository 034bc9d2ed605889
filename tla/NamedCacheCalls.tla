-------------------------- MODULE NamedCacheCalls --------------------------
(***************************************************************************)
(* The data operations of NamedCacheClient (named-cache-client.ts) and the *)
(* requests RequestFactory builds for them (util.ts).                      *)
(*                                                                         *)
(* Most operations are promisified: they wait for the channel, then send   *)
(* their request and settle on its answer.  A wait that expires and a      *)
(* cache that is no longer active reject the promise without stopping the  *)
(* operation.  The operations with a filter start their stream before they *)
(* wait and listen to it afterwards; getAll and invokeAll do not wait.     *)
(* Requests overtake each other, are lost, and are performed long after    *)
(* the client has given up; their deadline may pass at any time.           *)
(*                                                                         *)
(* The arguments can be serialized.  The proxy is external: it performs a  *)
(* request in one instant and takes a value that is not sent for none.     *)
(***************************************************************************)
EXTENDS Integers, MapMeaning

CONSTANTS Values, Calls,
          Falsy,    \* keys and values that the language takes for false
          Contents, \* what the cache may hold when the client comes to it
          MayCall,  \* the operations that each call may be
          MayFail   \* the operations whose requests may fail or be too late

ASSUME CallsAssumption ==
  /\ MayFail \subseteq Ops
  /\ Null \notin Values \cup Falsy /\ Absent \notin Values \cup {Null}
  /\ Contents \subseteq [Keys -> Values \cup {Null, Absent}]
  /\ MayCall \in [Calls -> SUBSET Ops]

VARIABLES
  map,     \* what the cache holds at the proxy
  active,  \* the client is neither released nor destroyed
  calls,   \* the calls of the application
  events,  \* truncations whose event the client has not heard of
  crashed  \* an error that nothing handles has ended the process

vars == <<map, active, calls, events, crashed>>

\* Streams whose handlers are attached after a wait, and before one.
Filtered == {"entries", "keys", "values", "forEach"}

Streams == Filtered \cup {"getAll", "invokeAll", "forEachKey"}

Direct == {"getAll", "invokeAll"}

\* Requests that are sent without call options, and so without a deadline.
Endless == {"invoke", "removeIndex"}

----------------------------------------------------------------------------
(* Requests and answers.                                                   *)

Request(op, k, v, w) == [op |-> op, key |-> k, value |-> v, other |-> w]

\* A value is set in the request if it is truthy.
Field(v) == IF v \in Falsy THEN Null ELSE v

\* aggregate .. get: an aggregator or extractor is set as it is, a value is not.
QueryRequest(op, k, v) == Request(op, k, Field(v), Null)

\* getAll .. keySet, values: keys, filters and processors are set as they are.
BulkRequest(op, k, v) == Request(op, k, v, Null)

\* Mutant of UpdateRequest: replaceMapping swaps its values.
UpdateRequestSwapped(op, k, v, w) ==
  IF op = "replaceMapping" THEN Request(op, k, Field(w), Field(v)) ELSE Request(op, k, Field(v), Null)

\* put .. replaceMapping, which sets both its values if the old one is truthy.
UpdateRequest(op, k, v, w) == Request(op, k, Field(v), IF v \in Falsy THEN Null ELSE w)

\* size and truncate, with what all requests have.
PlainRequest(op, k) == Request(op, k, Null, Null)

Built(op, k, v, w) ==
  CASE op \in {"aggregate", "addIndex", "removeIndex", "clear", "hasEntry", "has", "hasValue", "get"} ->
         QueryRequest(op, k, v)
    [] op \in Streams \cup {"empty", "invoke"} -> BulkRequest(op, k, v)
    [] op \in {"size", "truncate"}             -> PlainRequest(op, k)
    [] OTHER                                   -> UpdateRequest(op, k, v, w)

\* What the proxy answers to a request: a stream has a message for each entry.
Reply(q, m) ==
  CASE q.op \in Streams        -> <<{<<x, m[x]>> : x \in Present(m)}>>
    [] q.op = "get"            -> <<q.key \in Present(m), Current(m, q.key)>>
    [] q.op = "keySet.delete"  -> <<Current(m, q.key)>>
    [] OTHER                   -> Result(q.op, q.key, q.value, q.other, m)

\* What the client makes of an answer: a value that was present, or the default;
\* the keys that are truthy; whether the value removed was one.
Answered(op, reply, default) ==
  CASE op = "get"            -> <<IF reply[1] THEN reply[2] ELSE default>>
    [] op = "keySet.delete"  -> <<reply[1] # Null>>
    [] op = "keys"           -> <<{e[1] : e \in reply[1]} \ Falsy>>
    [] op = "values"         -> <<{e[2] : e \in reply[1]}>>
    [] OTHER                 -> reply

----------------------------------------------------------------------------
\* A call of op with the arguments a, of which nothing has happened yet.
Made(op, a, waits, rpc, promise) ==
  [op |-> op, key |-> a[1], value |-> a[2], other |-> a[3], wait |-> waits, rpc |-> rpc,
   performed |-> FALSE, reply |-> <<>>, got |-> {}, promise |-> promise, result |-> <<>>]

Idle == Made("none", <<Null, Null, Null>>, 0, "none", "none")

Init ==
  /\ map \in Contents
  /\ active = TRUE
  /\ calls = [c \in Calls |-> Idle]
  /\ events = 0
  /\ crashed = FALSE

\* A promise is resolved or rejected once; later attempts do nothing.
Resolved(r, result) ==
  IF r.promise = "pending" THEN [r EXCEPT !.promise = "resolved", !.result = result] ELSE r

Rejected(r) == IF r.promise = "pending" THEN [r EXCEPT !.promise = "rejected"] ELSE r

\* keySet().delete() has no handler for the rejection of the delete it makes: its
\* own promise stays pending, and an unhandled rejection ends the process.
Reject(c, r) ==
  LET unhandled == r.op = "keySet.delete" /\ r.promise = "pending"
  IN  /\ calls' = [calls EXCEPT ![c] = IF unhandled THEN r ELSE Rejected(r)]
      /\ crashed' = unhandled

\* An operation is called: it waits that many times before it listens to the
\* answer.  promisify rejects for a cache that is not active, and goes on.
Call(c, op, waits, rpc) ==
  /\ ~crashed
  /\ calls[c] = Idle /\ op \in MayCall[c]
  /\ \E a \in Arguments(op, Values) :
       LET r == Made(op, a, waits, rpc, "pending")
       IN  IF waits > 0 /\ ~active THEN Reject(c, r)
           ELSE calls' = [calls EXCEPT ![c] = r] /\ UNCHANGED crashed
  /\ UNCHANGED <<map, active, events>>

CallState(c) == \E op \in {"ready", "empty", "size"} : Call(c, op, 1, "none")

CallAggregate(c) == \E op \in {"hasEntry", "aggregate"} : Call(c, op, 1, "none")

CallProcessor(c) == Call(c, "invoke", 1, "none") \/ Call(c, "invokeAll", 0, "open")

\* With keys it waits before getAll, else before entries, which waits again.
CallForEach(c) == Call(c, "forEachKey", 1, "none") \/ Call(c, "forEach", 2, "none")

CallFiltered(c) == \E op \in {"entries", "keys", "values"} : Call(c, op, 1, "open")

CallIndex(c) == \E op \in {"addIndex", "removeIndex"} : Call(c, op, 1, "none")

CallClear(c) == \E op \in {"clear", "has", "hasValue"} : Call(c, op, 1, "none")

CallGet(c) == Call(c, "get", 1, "none") \/ Call(c, "getAll", 0, "open")

CallUpdate(c) ==
  \E op \in {"set", "setAll", "setIfAbsent", "delete", "removeMapping", "replace", "replaceMapping"} :
    Call(c, op, 1, "none")

\* Through the sets that keys, entries and values return without a filter: all
\* but the delete of a key are operations of the cache.
CallKeySet(c) == \E op \in {"keySet.delete", "has", "size"} : Call(c, op, 1, "none")

CallEntrySet(c) == \E op \in {"removeMapping", "hasEntry", "size"} : Call(c, op, 1, "none")

CallValueSet(c) == \E op \in {"hasValue", "size"} : Call(c, op, 1, "none")

CallTruncate(c) == Call(c, "truncate", 1, "none")

Application(c) ==
  \/ CallKeySet(c) \/ CallEntrySet(c) \/ CallValueSet(c)
  \/ CallState(c) \/ CallAggregate(c) \/ CallProcessor(c) \/ CallForEach(c) \/ CallFiltered(c) \/ CallIndex(c)
  \/ CallClear(c) \/ CallGet(c) \/ CallUpdate(c) \/ CallTruncate(c)

\* The cache is released or destroyed; calls under way go on.
Release ==
  /\ active
  /\ active' = FALSE
  /\ UNCHANGED <<map, calls, events, crashed>>

\* Mutant of WaitEnds: a wait that is over calls back once more.
WaitEndsAgain(c, expired) ==
  /\ ~crashed /\ calls[c].op # "none"
  /\ LET r == [calls[c] EXCEPT !.wait = @ - 1, !.rpc = "open"]
     IN  IF expired \/ (r.wait > 0 /\ ~active) THEN Reject(c, r)
         ELSE calls' = [calls EXCEPT ![c] = r] /\ UNCHANGED crashed
  /\ UNCHANGED <<map, active, events>>

\* The channel is ready, or was not in time, which rejects the promise.  Either
\* way the operation goes on; that of forEach is to call entries.
WaitEnds(c, expired) ==
  /\ ~crashed /\ calls[c].wait > 0
  /\ LET r == [calls[c] EXCEPT !.wait = @ - 1, !.rpc = "open"]
     IN  IF expired \/ (r.wait > 0 /\ ~active) THEN Reject(c, r)
         ELSE calls' = [calls EXCEPT ![c] = r] /\ UNCHANGED crashed
  /\ UNCHANGED <<map, active, events>>

----------------------------------------------------------------------------
\* The proxy performs a request, which may be long after its deadline.
Perform(c) ==
  LET r == calls[c]
      q == Built(r.op, r.key, r.value, r.other)
  IN  /\ r.rpc # "none" /\ ~r.performed
      /\ map' = Effect(q.op, q.key, q.value, q.other, map)
      /\ calls' = [calls EXCEPT ![c].performed = TRUE, ![c].reply = Reply(q, map)]
      /\ events' = IF r.op = "truncate" THEN events + 1 ELSE events
      /\ UNCHANGED <<active, crashed>>

Listens(c) == ~crashed /\ calls[c].rpc = "open" /\ calls[c].wait = 0

Closed(c) == [calls[c] EXCEPT !.rpc = "closed"]

\* The answer to a unary request; that to a truncate settles nothing.
Answer(c) ==
  /\ Listens(c) /\ calls[c].performed /\ calls[c].op \notin Streams
  /\ calls' = [calls EXCEPT ![c] =
       IF calls[c].op = "truncate" THEN Closed(c)
       ELSE Resolved(Closed(c), Answered(calls[c].op, calls[c].reply, calls[c].other))]
  /\ UNCHANGED <<map, active, events, crashed>>

\* A message of a stream: an entry is added to a HashMap or a LocalSet, which
\* cannot take a value that is null.
Data(c) ==
  /\ Listens(c) /\ calls[c].performed /\ calls[c].op \in Streams
  /\ \E e \in calls[c].reply[1] \ calls[c].got :
       /\ calls' = [calls EXCEPT ![c].got = @ \cup {e}]
       /\ crashed' = (calls[c].op = "values" /\ e[2] = Null)
  /\ UNCHANGED <<map, active, events>>

\* The stream has come to its end after all of its messages.
End(c) ==
  /\ Listens(c) /\ calls[c].performed /\ calls[c].op \in Streams
  /\ calls[c].got = calls[c].reply[1]
  /\ calls' = [calls EXCEPT ![c] = Resolved(Closed(c), Answered(calls[c].op, <<calls[c].got>>, Null))]
  /\ UNCHANGED <<map, active, events, crashed>>

\* Mutant of Fails: an update that fails leaves its promise alone.
FailsUnanswered(c) ==
  /\ ~crashed /\ calls[c].rpc = "open" /\ calls[c].op \in MayFail
  /\ IF calls[c].wait > 0 \/ calls[c].op = "replace"
     THEN calls' = [calls EXCEPT ![c] = Closed(c)] /\ crashed' = (calls[c].wait > 0)
     ELSE IF calls[c].op = "get"
     THEN calls' = [calls EXCEPT ![c] = Resolved(Closed(c), <<calls[c].other>>)] /\ UNCHANGED crashed
     ELSE Reject(c, Closed(c))
  /\ UNCHANGED <<map, active, events>>

\* The request fails or its deadline passes.  A get resolves to its default,
\* and nobody hears the error of a stream that is still waited for.
Fails(c) ==
  /\ ~crashed /\ calls[c].rpc = "open" /\ calls[c].op \in MayFail
  /\ IF calls[c].wait > 0 THEN calls' = [calls EXCEPT ![c] = Closed(c)] /\ crashed' = TRUE
     ELSE IF calls[c].op = "get"
     THEN calls' = [calls EXCEPT ![c] = Resolved(Closed(c), <<calls[c].other>>)] /\ UNCHANGED crashed
     ELSE Reject(c, Closed(c))
  /\ UNCHANGED <<map, active, events>>

\* The event of a truncation arrives: every truncate that listens is resolved.
HearTruncated ==
  /\ events > 0 /\ active /\ ~crashed
  /\ events' = events - 1
  /\ calls' = [c \in Calls |->
       IF calls[c].op = "truncate" /\ calls[c].rpc # "none" THEN Resolved(calls[c], <<>>) ELSE calls[c]]
  /\ UNCHANGED <<map, active, crashed>>

Next ==
  \/ \E c \in Calls :
       \/ Application(c) \/ (\E expired \in BOOLEAN : WaitEnds(c, expired))
       \/ Perform(c) \/ Answer(c) \/ Data(c) \/ End(c) \/ Fails(c)
  \/ Release \/ HearTruncated

Spec == Init /\ [][Next]_vars

\* Waits have a limit and requests have deadlines: no more than that is assumed
\* of the channel and the proxy, but that what cannot fail is answered.
FairSpec ==
  /\ Spec
  /\ \A c \in Calls :
       /\ WF_vars(\E expired \in BOOLEAN : WaitEnds(c, expired))
       /\ WF_vars(calls[c].op \notin Endless /\ Fails(c))
       /\ WF_vars(calls[c].op \notin MayFail /\ (Perform(c) \/ Answer(c) \/ Data(c) \/ End(c)))

----------------------------------------------------------------------------
\* Types; a call listens, is settled and is performed only in the ways it may.
TypeOK ==
  /\ map \in [Keys -> Values \cup {Null, Absent}]
  /\ active \in BOOLEAN /\ crashed \in BOOLEAN /\ events \in Nat
  /\ \A c \in Calls : calls[c] # Idle =>
       /\ calls[c].op \in MayCall[c]
       /\ <<calls[c].key, calls[c].value, calls[c].other>> \in Arguments(calls[c].op, Values)
       /\ calls[c].wait \in 0 .. 2 /\ calls[c].rpc \in {"none", "open", "closed"}
       /\ calls[c].promise \in {"pending", "resolved", "rejected"}
       /\ calls[c].performed \in BOOLEAN

Abstract == INSTANCE RemoteMap WITH
  calls <- [c \in Calls |->
    [op |-> calls[c].op, key |-> calls[c].key, value |-> calls[c].value, other |-> calls[c].other,
     performed |-> calls[c].performed, promise |-> calls[c].promise, result |-> calls[c].result,
     outcome |-> IF calls[c].performed THEN Answered(calls[c].op, calls[c].reply, calls[c].other) ELSE <<>>]]

\* Whatever is late, lost or overtaken, a promise resolves to what its operation
\* means, after the operation took effect with the arguments it was given, and that
\* it does once at most.
ImplementsRemoteMap == Abstract!Spec

\* Every call settles though the proxy never answers, except those that have no
\* deadline and truncate, which waits for an event, unless an error or a rejection
\* that nothing handles ends the process first.
CallsSettle ==
  \A c \in Calls :
    calls[c].promise = "pending" /\ calls[c].op \notin Endless \cup {"truncate"}
      ~> calls[c].promise # "pending" \/ crashed

============================================================================
