# Formal models of the Coherence JavaScript client

TLA+ models of `oracle/coherence-js-client` (TypeScript, `src/src/*.ts`), the TLC configurations that check them
on small instances, and theorems about them that TLAPS proves for every value of their constants.

The client is a single-threaded Node.js library. What makes it hard is not parallelism but the order in which
callbacks arrive: gRPC answers, stream errors, changes of the channel's connectivity, expired deadlines, data on a
socket and the application's own calls, with promise continuations in between.

## 1. Inventory

| Component | Source | State it keeps | Operations | Modelled by |
|---|---|---|---|---|
| `MapEventsManager` | `events.ts` 254-679 | `keyMap`, `filterMap`, `filterId2ListenerGroup`, `pendingSubscriptions`, `streamPromise`, `markedForClose` | register/remove listener, `ensureStream`, `writeRequest`, `handleResponse`, `onDisconnect`, `onReconnect`, `onError`, `closeEventStream` | `MapEvents` |
| `ListenerGroup` and its two subclasses | `events.ts` 686-940 | `listeners`, `isLiteFalseCount`, `registeredIsLite` | `addListener`, `removeListener`, `doSubscribe`, `doUnsubscribe`, `post(Un)Subscribe`, `notifyListeners` | `ListenerGroup`, `MapEvents` |
| `Session`: channel watcher | `session.ts` 569-599 | last state seen, connected once | `CONNECTED`, `RECONNECTED`, `DISCONNECTED` | `SessionWatch` |
| `Session`: caches and close | `session.ts` 600-860 | `caches`, `markedForClose`, `_closed`, the channel | `getCache`, `close`, handlers of `RELEASED` and `DESTROYED` | `SessionLifecycle`, `SessionCaches` |
| `NamedCacheClient`: lifecycle | `named-cache-client.ts` 1296-1462 | `_released`, `_destroyed` | `release`, `destroy`, `promisify` | `SessionLifecycle` |
| `NamedCacheClient`: data operations | `named-cache-client.ts` 690-1462 | none but promises | `get`, `set`, `invoke`, `entries`, `truncate`, ... | `NamedCacheCalls` |
| `RequestFactory` | `util.ts` 1041-1580 | none | builders of requests | `NamedCacheCalls`, `MapEvents` |
| Paged remote sets, `PageAdvancer` | `util.ts` 512-930 | `data`, `cookie`, `exhausted` | `next`, `loadNextPage`; their `delete`, `has`, `size` | `PagedIteration`, `NamedCacheCalls` |
| `HashMap`, `LocalSet`, their iterators | `util.ts` 61-460 | buckets, size, an iterator's place | map and set operations, iteration | `EntryMap`, `HashCode` |
| `CoherenceResolver` | `session.ts` 869-1202 | a socket per lookup and its automaton | `updateResolution`, the two lookups, packed integers | `Lookup`, `PackedInt` |
| `Options`, `TlsOptions` | `session.ts` 31-440 | settings and a lock | setters, the session's copy | `SessionOptions` |
| `MapEvent`, `MapListener` | `events.ts` 25-215 | values deserialized so far | getters | not modelled |
| Serializers, filters, extractors, processors, aggregators, comparators, generated stubs | the rest | values | conversions | not modelled |

How they interact: `getCache` makes a `NamedCacheClient`, which makes a `MapEventsManager`; the manager listens to
the session's `RECONNECTED` and `DISCONNECTED`, the session to the cache's `RELEASED` and `DESTROYED`. An emit runs
its handlers on the spot, so a handler is part of the step that emits. Everything that talks to the proxy first
waits for a ready channel (`waitForReady` with a deadline), in `ensureStream` as in `promisify`; the channel learns
where the proxies are from the resolver, and the deadline of a request is a function the session's options hold. The
sets that `keys`, `entries` and `values` return go back to the cache for everything they are asked; with a filter
they are copied into a `HashMap` or `LocalSet`.

The hard behaviours, which `hazards` in PROJECT.json lists line by line:

* a stream fails, or the connection is lost, and the errors of old streams are reported after their successors exist;
* `addListener` and `removeListener` go over two awaited requests and decide on what they read before;
* a wait for readiness expires, and the code behind the wait runs all the same: what the caller believes failed is
  performed later, after calls that were made after it;
* `close()` walks over a map that releases and destroys delete from between its awaits;
* an event (`DESTROYED`, `TRUNCATED`) or an answer is lost, or comes for a request of somebody else;
* a stream is opened before a wait and gets its handlers after it;
* the end of a paged iteration is told from a cookie, over pages that may be empty or fail halfway;
* iterators walk the live buckets of a map that changes;
* the name service's responses come in pieces, late or never, and the proxies change between two lookups;
* falsy keys and values are taken for none.

What makes each component correct: registrations survive every failure and nobody else is notified
(`ImplementsRegistry`, `EventuallyHeard`); the flags and counts a group keeps never under-serve a listener
(`LiteFlagSound`, `CountCovers`); no stream is left behind to deliver twice or after release (`NoDuplicates`,
`ReleasedIsSilent`); the session holds exactly the caches in use and its close reaches all of them
(`HoldsTheActive`, `ClosedExactly`, `CloseCompletes`, `ImplementsSession`); a promise resolves only to what its
operation means, at an instant between the call and the answer (`ImplementsRemoteMap`), and calls settle; an iteration
yields each entry once (`ImplementsIterator`); a `HashMap` is a map (`ImplementsDictionary`); gRPC is told once, and the
truth, where the proxies are (`ToldOnce`, `ToldTheTruth`). Where the code falls short of this, a run whose name begins
with `v_`, or a constant named under "Where the promises end", shows how, and the passing runs and the theorems say for
which use it keeps it.

## 2. The modules

**`ListenerGroup`** holds one group as a record `[target, listeners, isLiteFalseCount, registeredIsLite]`. `Added` and
`Removed` are what `addListener` and `removeListener` write before their first await, `AddSteps` and `RemoveSteps`
the requests they then await one after the other (`full`, `lite`, `unsub`). A target is a key, a `MapEventFilter`
(`Filters`) or any other filter (`PlainFilters`, which `addMapListener` and `removeMapListener` treat differently).

**`SessionWatch`** is the session's connectivity watcher as a function from what it has seen to the event it emits.

**`MapEvents`** composes both with the manager. The correspondence:

| Variable | Code |
|---|---|
| `groups`, `groupOf` | the `ListenerGroup` objects; `keyMap` and `filterMap` (0: no entry) |
| `filterIds` | `filterId2ListenerGroup` |
| `requests`, `pending` | the `MapListenerRequest`s built, numbered; `pendingSubscriptions` |
| `streams` | every stream asked for: the promise of `ensureStream` and who awaits it, the state of the call (`wire`), the messages in both directions, the proxy's subscriptions for it |
| `streamPromise` | the current one, 0 for null |
| `jobs` | promise continuations ready to run, oldest first |
| `channel`, `session` | gRPC connectivity, the watcher |
| `markedForClose`, `attached`, `released` | as in the code; handlers registered with the session; `closeEventStream` called |
| `open`, `used` | listener calls whose promise is pending; counters of the bounds |

Actions: `AddListener`, `RemoveListener`, `CloseEventStream` (application), `RunJob` with `WriteJob`, `SettledJob`,
`DisconnectJob`, `CloseJob` (the code behind each `await` or `then`), `StreamReady` and `ReadyTimeout` (the two
outcomes of `waitForReady`), `ServerReceive` (proxy), `HandleResponse`, `ChannelDrop` (+ `onDisconnect`), `ChannelUp`
(+ `onReconnect`), `StreamFail`, `StreamError` (`onError`), `StreamEnd`.

**`ListenerRegistry`** is the abstract specification: a set of registrations that only a call changes, and the pairs
of target and listener an event would reach, always among the registered. `MapEvents` refines it by
`registered <- what removeMapListener would find`, `reached <- what an event raised now would be delivered to`.

**`SessionLifecycle`** models clients, the session's map of caches, every call of `release` and `destroy` with the
phase and outcome of its promise, DESTROYED events under way, and how far `close()` has come. Actions: `GetCache`,
`Release`, `Destroy`, `Close`, `WaitedForReady` (the wait of `promisify` ends or expires, then the logic),
`DestroyAnswered`, `DestroyFailed`, `OnDestroyed`, `NoticeLost`, `DestroyedElsewhere`, `CloseResume`, `ChannelDrop`,
`ChannelUp`.

**`SessionCaches`** is what the session promises of its caches, with no call, event or channel in sight: clients are
handed out, one for a name at a time and none once it closes; they go out of use one by one; the session reports itself
closed exactly when it closes and none is in use, and its channel is shut down only then. `SessionLifecycle` refines it
by `handed <- the names of the clients`, `inUse <- those neither released nor destroyed`, `closing <- markedForClose`,
`shut <- channel = "SHUTDOWN"`.

**`NamedCacheCalls`** models the data operations of one client against a proxy. `calls` holds, for each call, its
arguments, the waits before it listens (`wait`), its request or stream (`rpc`: none, open, closed), whether the proxy
has performed it and what it replies, the messages received (`got`) and the promise; `map` is the cache at the proxy,
`active` whether the client is neither released nor destroyed, `events` the TRUNCATED events not heard of, `crashed`
that an error without a handler has ended the process. One action per family of operations makes the call
(`CallGet`, `CallUpdate`, `CallFiltered`, `CallForEach`, ..., and `CallKeySet`, `CallEntrySet`, `CallValueSet` for the
remote sets), then `WaitEnds` (ready or expired), `Perform` (the proxy), `Answer` (unary), `Data` and `End` (stream),
`Fails` (failure or deadline), `HearTruncated`, `Release`. `QueryRequest`, `BulkRequest`, `UpdateRequest` and
`PlainRequest` are the builders of `RequestFactory`: which arguments they carry and which they drop.

**`MapMeaning`** says what each operation does to a map and what it returns. **`RemoteMap`** is the abstract
specification over it: a call takes effect at most once, at one instant, and what resolves does so afterwards and
with the meaning of the operation at that instant. Both follow the comments of the interface `NamedCache`, not the
client: `Falsy` (the keys and values that JavaScript takes for FALSE) and `MayFail` (the operations that the proxy may
fail) are constants of `NamedCacheCalls` alone.

**`PagedIteration`** models `PageAdvancer`: `Call` is `next()`, `FirstMessage`, `PageEnd`, `PageError` and
`EndAfterError` are the handlers of a page's stream. **`EntryIterator`** is the abstract iterator it implements.

**`EntryMap`** is `HashMap` bucket by bucket (`buckets`, `size`), with the place of every iterator (`places`) and what
the latest operation returned (`answer`): `Set`, `Get`, `Has`, `Count`, `Delete`, `Clear`, `Iterate`, `Yield`, and
`Refuse` for the operations a `LocalSet` turns down. **`HashCode`** is the hash of a text, truncated to `Bits`.
**`Dictionary`** is the abstract specification, from the comment at the head of `HashMap`: a finite map that finds a
mapping by any key that is equal to its own (`Same`), and iterations that yield every key that stays, once. A key set
meanwhile may be yielded or not, as no order is promised. `SkipsSome` of `EntryMap` says whether the application
deletes, while it iterates, an entry behind the iterator in a bucket that has more for it (`Skips`).

**`Lookup`** models `CoherenceResolver`. Each of `Resolutions` is a call of `updateResolution`: its `target`, `stage`
(first the foreign cluster, then the proxies), the `port` it has dialled, the `state` of the socket's automaton
(INITIAL, CONNECTION, CHANNEL, LOOKUP as in the code), what the service still owes it, the `answer`, whether its
messages were whole (`intact`), what the listener was `told`, and the proxies the wanted cluster has `held` since.
Actions: `UpdateResolution`, `Connect`, `ReadConnection`, `ReadChannel`, `ReadResult` (whole or in pieces), `ReadRest`
and `ReadLate` (what a piece left behind), `Serve`, `ServiceCloses`, `SocketError`, `Change`. What a resolution wants
(`Wanted`) is read off its target as the comment of the address says; where it goes (`ParsedPort`), off the code. A
rejection is told after the first lookup and ends the process after the second (`Rejected`). **`PackedInt`** holds the
writer and the two readers of packed integers; the loops of the writer and of the socket's reader are the recursive
functions `Rest` and `Joined`, the reader of messages takes two bytes at most and `Hangs` on more.

**`SessionOptions`** models `Options` and `TlsOptions`: one action per setter with its lock, `Create`, and `NewSession`
with what the session and its channel take over.

`MCMapEvents`, `MCSessionLifecycle`, `MCNamedCacheCalls`, `MCPagedIteration`, `MCEntryMap`, `MCLookup` and
`MCSessionOptions` instantiate them for TLC; the modules whose names end in `Proofs` hold the proofs. Operators called
"Mutant of" are deliberately wrong variants; no specification uses them, they record which mistake each property would
expose.

### Modelling decisions

* *Event loop.* One callback runs at a time and the promise jobs it schedules run before the next one: `MayRun`
  asks for `jobs = <<>>`. In `SessionLifecycle` jobs are folded into their callback, but for `close()`, whose
  continuation (`CloseResume`) comes before everything except continuations of the application.
* *INIT.* The manager's INIT request is left out: the stream's promise is resolved before it is written and its
  answer resolves it again, without effect. The constructor's request for a stream is in `Init`.
* *Streams.* A call that fails or is cancelled loses its messages and the proxy drops its subscriptions at once;
  its `error` is reported later (`Prompt = FALSE`) or before anything else (`Prompt = TRUE`).
* *Delivery of events* changes no state of the manager. Instead of sending them the model says who would hear one
  (`Subscriptions`, `Dispatch`, `Heard`).
* *Keys* of `MapEvents` are compared by value, and decoding of falsy or object keys is abstracted there; `EntryMap`
  compares by identity, as `HashMap` does.
* *Order of resubscription.* `forEach` over the map of keys and then the map of filters. `Orders` leaves the groups
  of each map in order of creation.
* *Release while the channel is down* is a wait that has expired and counts against `MaxTimeouts`.
* *Readiness waits* of `SessionLifecycle` call back in the order in which they began; those of `NamedCacheCalls` end
  in any order.
* *A cache* is identified by its name; `KeyedUnder` says which cache keys start with `name:`.
* *The proxy* answers requests of one events stream in order; unary requests overtake each other and may be performed
  long after the client has given up, or never. The contents of the cache do not change during a paged iteration, every
  page starts with a message that carries the next cookie (empty after the last), and `end` may still follow `error`.
* *Operations.* Filters match every entry, the entry processor puts a value and returns the one before, the
  aggregator counts, `setAll` puts one value under every key: what they compute is the proxy's affair, which argument
  reaches it and what becomes of its answer is the client's.
* *Falsy data* is a subset of keys and values (`Falsy`); the proxy takes a value that is not sent for none.
* *Lookup.* One name service per port, all on one host; addresses are abstracted to the list of proxies they stand
  for. A packed length on which the reader loops sets `crashed`; a piece of a message that is read as a whole one gives
  `Garbage`.
* *Hashes.* A key has one hash for ever. `HashCode` is instantiated with 10 bits instead of 32, so that a text of two
  letters overflows.
* *Options.* The format setter accepts `json` only and is left out.

How the application uses the client is a set of constants, because part of the promises depend on it:
`Serial` (calls are awaited before the next on the same target, or the next `next()`), `Modes` (the lite flags in
use), `MayRelease`, `ReleaseOnce` (a cache is released once, and release and destruction are kept apart until the
session closes), `MayDestroy`, `MayRetry` (iterating on after a rejected `next()`), `MayCall` (the operations a call
may be). `Prompt` is about grpc-js, `KeyedUnder` about names.

## 3. Runs

`CHECK_DEADLOCK FALSE` where, with its calls made and its bounded failures spent, the client rests: everywhere but in
`entry_map`.

| Run | Bounds | Question and result |
|---|---|---|
| `events_recovery` | key and filter, 2 listeners, 2 awaited full calls, 1 drop, 1 stream failure, errors late, fair | `RegisteredHear`, `CurrentStreamUsable`, `ImplementsRegistry`: in whatever order errors, RECONNECTED and answers come, no registration is lost. `EventuallyHeard`: the last failure is recovered from, if the channel comes back. 363 k states |
| `events_prompt` | key and filter, 4 calls of both modes, awaited per target, 1 drop, release, errors first | `TypeOK`, `NoDuplicates`, `ReleasedIsSilent`; `ValuesDelivered`: no subscription whose events reach a listener that wants values is a lite one, after re-registrations, fallbacks to lite events and resubscriptions, too, the first two of which take a group out of the maps but not out of the filter ids. 2.4 M states |
| `events_settle` | key, filter and plain filter, 3 overlapping calls of both modes, expired wait, fair | `LiteFlagSound`, `CountCovers` under overlapping calls; `CallsSettle` as long as no answer is lost |
| `session` | 2 names, 3 clients, 2 calls of release or destroy, 1 drop, 1 expired wait, 1 lost event or answer, destruction elsewhere, `close()`, fair | `TypeOK`; `HoldsTheActive`, also when caches are destroyed while the session closes; `NothingHeldAfterShutdown`: the walk over the live map misses no cache; `ClosedExactly`: whichever handler comes last, `closed` overlooks no moment at which nothing is held, and reports no other; `ImplementsSession`; `CloseCompletes`: only an expired wait makes `close()` fail; `CallsSettle` of every release. 648 k states |
| `pages` | 4 entries, any cut into pages, 2 empty pages, 1 failure, 6 calls, fair | `TypeOK`, `NothingSkipped`, `ImplementsIterator`, `ComesToItsEnd` |
| `calls` | 2 calls, one of any of the 28 operations and one `set` or `clear`; 2 keys and 2 values, all truthy; an empty cache or a full one; every operation but `get` may fail; fair | `TypeOK`, `ImplementsRemoteMap`, `CallsSettle`. 157 k states |
| `lookup` | 2 resolutions, targets of every form but a port alone, 2 running clusters and one that is not, results of 64 and 8192 bytes, 1 change of the proxies, fair | `TypeOK`, `ToldOnce`, `ToldTheTruth`, `Answered`; `PackedIntsReadBack` for every integer from -9000 to 9000. 322 k states |
| `entry_map` | 3 keys, 2 of one hash and one negative, each of one instance, 2 values, 2 buckets, 1 iterator, no deletion that skips | `KeysOnce`, `ImplementsDictionary` |
| `v_reregister` | 2 calls | violated: `RegistrationsKept`, see below |
| `v_settle` | 1 stream failure | violated: `CallsSettle` |
| `v_options` | one `Options`, one session | violated: `FixedOnceLocked` |
| `v_replace` | one `replaceMapping`, a key and a value that are falsy | violated: `ImplementsRemoteMap` |

Why the bounds are enough: a group tells apart "first listener", "one more" and "last one gone", which two listeners
cover: two awaited calls reach the second and the last, the three overlapping ones of `events_settle` add them in every
order. A stale error needs one replaced stream, so one drop together with one failure gives the error of an old stream
before, between and after RECONNECTED and the resubscription. Two names and three clients give a name a successor
client while another cache is still open. A group falls back to lite events after two additions and one removal, so
that the fourth call of `events_prompt`, of the same or of another listener, meets what the fallback left behind; that
calls on one target overlap there, and that streams fail on their own, is left to the proofs of `NoDuplicates` and
`ReleasedIsSilent`, which hold for both. Four entries give a full page, a page cut short, an empty page in the middle
and one at the end. Calls of one client share nothing but the cache and the TRUNCATED event, so that two calls, one
of which changes the map before, during or after the other, give every interference. Two resolutions
share nothing but the proxies and the process. In `entry_map` every way of sharing a bucket and of standing before,
on or behind an entry occurs with three keys in two buckets.

Fairness. `Fairness` of `MapEvents` is weak fairness of the event loop (`RunJob`), of the proxy answering (`Answers`),
of grpc-js reporting readiness, errors and the end of a stream (`StreamChanges`), and of reconnection while some
stream waits for the channel (`Demanded`): grpc-js connects on demand only, `waitForReady` is a demand, and the
watcher of the session is none (`getConnectivityState(false)`, `session.ts` 573). Nothing makes a channel reconnect
that nobody waits for: `EventuallyHeard` therefore speaks of behaviours in which the channel is READY time and again.
Losses and expired waits are never fair and are bounded. `SessionLifecycle` asks for weak fairness of `Progress`, the
callbacks of what was asked for, reconnection while some call waits (`Asked`) included; the application is under no
obligation. In `pages` it is the application that iterates, hence `WF(Call)`. `NamedCacheCalls` assumes nothing of the
proxy: waits end, one way or the other (`WaitEnds`), and deadlines pass (`Fails`), except for the requests that the
code sends without call options (`Endless`: `invoke`, `removeIndex`); only an operation that the instance does not let
fail is answered. `Lookup` has to assume of each resolution that a name service can be reached and answers (`Connect`,
`Serve`, `Arrives`): the code has no limit of its own on that wait, so `Answered` is a statement about resolutions
whose service does answer.

### What the violations show

* `v_reregister`. A listener that wants values joins a group with a lite one. `addListener` re-registers the group by
  `doUnsubscribe` and `doSubscribe`; `postUnsubscribe` removes the group from its map and nothing puts it back. Both
  listeners are lost to dispatch (key) or to removal and resubscription (filter).
* `v_settle`. A stream fails with a request outstanding; `onError` subscribes every group anew under new uids, and
  the old callback in `pendingSubscriptions` is never called: the call's promise never settles.
* `v_options`. A session locks the `Options` it has copied. The setter of `scope` does not look at the lock, and the
  function that gives requests their deadline still reads the application's own object: the scope of new caches and
  the timeout of requests change after the lock, against `session.ts` 269 ("no further mutations can be made").
* `v_replace`. `replaceMapping` sends its new value only if the *old* one is truthy: the entry whose value was `0`,
  `false` or `''` is left without one, against `named-cache-client.ts` 249 ("replaces the entry").

### Where the promises end

The passing runs restrict the usage because the code keeps no more. The abstract specifications and the properties do
not: they say what the comments promise, and relaxing the named constant in a cfg makes TLC show the consequence.
First, what contradicts a comment or document, next to the four runs above:

* `ValuesDelivered` with `Serial = FALSE` (and, to be fast, no keys) in `events_prompt`. The filter has a lite listener
  and one that wants values; the latter is removed, and the group falls back to lite events over two awaited requests. A
  listener that wants values and joins between them finds the group still registered with values, and asks for nothing.
  The fallback then subscribes as lite; the unsubscribe took the group out of `filterMap`, but its filter id still leads
  to it, and the new listener gets its events without values. `addListener` would have re-registered the group
  (`events.ts` 700-701) had it not read the flag before the fallback's second request.
* `ReleasedIsSilent` with `MaxTimeouts = 1` in `events_prompt`. The channel is lost, which leaves the manager without a
  stream; the wait of a release expires, and its logic runs all the same. `closeEventStream` does nothing without a
  stream, not even detach the manager from its session. When the channel is back, the released cache opens a stream and
  subscribes again, though `release` is to "release local resources" (`named-cache-client.ts` 582).
* `CloseCompletes` excepts a release that `close()` awaits and whose wait expires: its promise rejects, and the release
  goes on. The map of caches is emptied and the session reports itself closed, but `close()` has ended with the
  rejection, before it closes the channel (`session.ts` 784-786), and a second `close()` returns at once.
* `ToldTheTruth` with `Targets <- MCPortTargets` in `lookup`. `parseConn` drops a port that no cluster follows:
  `host:8000` is looked up at 7574, against `src/README.md` 134, and the listener is told of another cluster's proxies.
* `ImplementsRemoteMap` with falsy members in `Falsy`: besides `v_replace`, `set` sends its value only if it is truthy
  (`util.ts` 1299), and `keys` with a filter leaves out falsy keys (`named-cache-client.ts` 1077). With `MayFail <-
  Ops`: a `get` that failed resolves to its default, as if there were no mapping, although an error is promised
  (`named-cache-client.ts` 653-655). With `truncate` in `Second`: it resolves on the TRUNCATED event of another
  truncation, before its own has been performed.
* `ImplementsDictionary`. The comment of `HashMap` (`util.ts` 46-55) promises a drop-in replacement of `Map` that does
  not enforce key identity. With `SkipsSome = TRUE` in `entry_map`: deleting the entry that an iteration has just
  yielded makes it skip the next one of that bucket. With `MCTwins`, `MCTwinHash` and `MCEqual` for `Keys`, `Hash` and
  `Same`: a mapping is not found by an equal key that is another instance, as `find` compares with `===`.

The rest are restrictions that nothing written promises to lift:

* `Serial = FALSE`, filters: an unsubscribe answered after a new listener has joined the group takes the group out
  of `filterMap` although it is subscribed again; `next()` called twice at once loads a page twice.
* `Modes` with both flags: `v_reregister`; the full listener added again as lite stays counted, and after the
  fallback to lite events `registeredIsLite` stays false, so that values are sent nobody asked for.
* `PlainFilters`: such a listener is registered under the filters and looked up among the keys on removal.
* `MaxTimeouts > 0` in `events_recovery`: a registration whose wait expires resolves without having been made.
* `ReleaseOnce = FALSE` in `session`: a second release that completes late, or a release mixed with a
  destruction, drops the successor client of that name. The theorems about `ClosedExactly` and
  `NothingHeldAfterShutdown` hold for such an application, too.
* `KeyedUnder <- Nested` in `session`: DESTROYED of `orders` drops the cache `orders:eu` as well.
* `MayDestroy` with a lost event, or with the cache destroyed elsewhere while the call waits: the promise of `destroy`
  stays pending, so that `CallsSettle` speaks of releases.
* `MayRetry = TRUE`: the cookie moves on with a page's first message, so that iterating on after an error leaves out
  the entries of the failed page.

Others are exceptions a property makes:

* `CallsSettle` of `NamedCacheCalls` excepts `invoke` and `removeIndex`, which have no deadline, and `truncate`, which
  waits for an event. It excepts the end of the process, too, which a client can bring about in three ways: `entries`,
  `keys`, `values` and `forEach` with a filter open their stream before they wait and attach handlers after it; a null
  among the values throws in the `data` handler; `delete` of a key set has no handler for a rejection, and Node (since
  version 15) ends a process for one.
* `Answered` of `Lookup` excepts resolutions with a message in pieces and the end of the process, by the unhandled
  rejection of a second lookup for example: one cluster without a proxy is enough to leave every resolution unanswered.
  `PackedIntsReadBack` says where the reader of messages ends: at 8191, on every longer length it loops without end, and
  it misreads none.
* `EventuallyHeard` excepts a channel that is lost for good, which a client that only listens cannot prevent: it makes
  no demand for a connection (see Fairness).

The comment of class `MapEventsManager` (`events.ts` 225-244) says that the stream is opened with the first callback
and closed with the last one. The constructor asks for the stream at once, and nothing closes it when the last
listener goes; the models follow the code.

## 4. Proofs

All theorems hold for every value of the constants that satisfies the named assumptions: `TargetsDisjoint` and
`ListenersFinite` (kinds of targets are disjoint, listeners can be counted), `BoundsAssumption`,
`LifecycleAssumption`, `PagesAssumption` (bounds are naturals, usage flags Boolean, a name is keyed under itself),
`CallsAssumption` (no value is null or absent, the cache begins with keys and values there are), `LookupAssumption`
(targets name ports with a service and clusters that are known, lengths are positive, numbers have 32 bits),
`EntryMapAssumption` (finitely many keys, integer
hashes, at least one bucket). Where a theorem needs more it says so in its statement.

* `TypeCorrect` (`Spec => []TypeOK`, `MapEvents`). `TypeOK` is inductive as it stands. Its content is referential:
  every group, request and stream named in a map, a job, a message or by the proxy exists. It is split into
  `MessagesOK`, `RegistryOK` and `OthersOK`, with one lemma per action, and lemmas on the shared helpers (`SendType`,
  `AwaitingType`, `BrokenType`) that say what they preserve when the sequences grow.
* `LiteFlagIsSound` and `CountIsCovering`. The inductive invariant `GroupsInv` says of every group that a lite flag
  means that all its listeners are lite (`LiteMeansLite`), and that the count is at least the number of listeners
  that are not (`CountBounds`); it needs `TypeOK`, by which an index in a map is one of a group. Only calls of
  listeners change a group, and only one group (`GroupsStep`); lemmas on `NewGroup`, `Added` and
  `Removed` show that these keep both parts, by the cardinality of the set they change.
* `CurrentIsUsable` (`MapEventsProofs`). The property speaks of moments at which no job is left; `UsableInv`
  holds in between, too: as long as the manager is not marked as closed it is attached, nothing closes a stream, and the
  current stream is usable (`Usable`): on a ready channel it is not dead, and while the channel is down the rest of
  `onDisconnect`, which will drop it, is among the jobs. The stream of `ChannelDrop` may still be waited for, in which
  case the continuation runs with the writes that wait for it; `Awaiting` and `Send` are lemmas of their own.
* `NothingTwice` and `ReleasedHearsNothing` (`MapEventsStreamProofs`), under `Prompt` and `MaxTimeouts = 0`. TLC shows
  that both conditions are needed: an error that comes late finds a stream that replaced the broken one already, and a
  wait that expires opens its stream all the same. `OneInv` says that of all streams one at most is not dead, that it
  is the current one unless it is broken (`OneStream`), and that the jobs name streams that were opened, the rest of
  `onDisconnect` none but the current one (`JobsFit`). The release needs more: that every group is found under its own
  target (`TargetsFit`), what the watcher knows of the channel (`WatchInv`), and `ReleaseInv`: a manager marked as
  closed has a job that closes whatever stream it has, and asks for no new one (`CloseInv`); one that was released
  without a current stream, which marks nothing, has no group to subscribe (`LeftInv`).
* `ValuesAreDelivered` (`MapEventsRegistryProofs`), under `OneMode` (the application uses one of the two lite flags)
  or under `Prompt`, `MaxTimeouts = 0` and `Serial` (what happens without the last is under "Where the promises end").
  It speaks of the group that an event reaches, which for a filter may be out of the maps (`Dispatch`). `SubsFit` says
  that what the proxy holds for a target is a subscription of that target. With both modes a lite request, of the
  first listener, of a resubscription or of a group that fell back to lite events, can be under way where values are
  wanted (`Wanted`: by the group found under the target, or by a listener of the group that made the request). `Words`
  says that on a stream that serves such a request is then followed by a later one that is not lite; it is inductive
  because the requests of a stream are taken in the order of their uids (`Lines`, see `AllAreHeard`), because a new
  request goes to the only stream that lives (`OneInv`), and because of what `FallsBack` says of a group whose
  fallback is half done: its call is still open, so that with awaited calls nobody has joined, and none of its
  listeners wants values. With errors that are late TLC finds a lite subscription on a stream that was replaced and
  left open. With one mode there is nothing to follow: `ModeInv` says of every group that its listeners are of that
  mode (`GroupsUniform`), of every request that it is the only one of its call (`RequestsFit`), and that a group that
  wants values asks for them, when it resubscribes, too (`NoneLite`); errors may be late and waits may expire.
* `Implements` (`MapEventsRegistryProofs`), under `Serial` and `OneMode`. Every step maps to a call of
  `ListenerRegistry`, to `Reach` or to a stutter. `RegistryFits` adds to the above that every request is settled once
  (`Once`: its uid is in one job, or awaits one answer), that a group with listeners is the one in the map (`Owned`),
  that a filter id stands for the group that asked with it (`IdsFit`), and that an unsubscribe that is not settled
  belongs to an open call, with nobody registered for its target (`Guarded`): that is what makes the answer of an
  unsubscribe, which empties the map, take no registration away. `Serial` is needed for `Guarded`, `OneMode` because a
  re-registration unsubscribes with listeners registered; relaxing either makes TLC find a violation. The removal of a
  registered listener of a plain filter, which looks among the keys, is the abstract call that adds it once more.
* `RegistrationsStay` (`MapEventsRegistryProofs`): under the same two conditions `RegistrationsKept` holds, the property
  that `v_reregister` shows violated. That run awaits its calls, too, so the theorem says what the violation takes: both
  modes.
* `AllAreHeard` (`MapEventsRegistryProofs`): what is registered is heard once nothing is under way, under `Serial`,
  `OneMode`, `MaxTimeouts = 0` and without plain filters. Plain filters are never notified in the code, and a wait
  that expires leaves the manager with a stream on a dead channel, so neither can be promised more. To `RegistryFits`
  and `UsableInv` the invariant adds `Lines`: a stream carries its requests in the order of their uids, from the jobs
  that write them to the answers, and each is carried once; hence the request a stream took last for a target is the
  latest. `Reached` says that a target with listeners has a subscribe request of its present group under way on a
  stream that serves, or a subscription there that is no older, or that a lost channel or failed stream is yet to be
  reported (`Recovering`); `OrdersCover`, that the recovery then subscribes every group that is mapped. `LastGroup`
  (requests later than one of the present group are of that group) turns "no older" into a subscription of that group,
  and `IdsKnown` makes its filter id known to the client, or about to be, when the event arrives.
* `NothingHeld` (`SessionCachesProofs`). `close()` walks the live map and never goes back: `Remaining` is what lies
  ahead of the cache it visits (`Visited`). `LoopInv` says that nothing that is held lies behind, and that the cache
  visited is itself gone once its release has resolved; it needs that each client is held under its own name
  (`OwnName`), by which the RELEASED of the client that is visited takes it out of the map, and that no cache is
  handed out during the walk. `NothingMissed` concludes that what remains is all that is held, whenever the loop goes
  on. `ShutdownInv` keeps it for ever after; `CloseInv` says that an awaited release belongs to a `close()`.
* `ReportsExactly` (`SessionCachesProofs`): `ClosedExactly`, with `CloseInv`, is inductive for any names and any
  application, one that releases late and repeatedly included. The handler of DESTROYED looks only when it has dropped
  something, and only the end of the loop of `close()` looks without having dropped anything.
* `HoldsExactlyTheActive` (`SessionCachesProofs`, with the type correctness it rests on), for
  an application that is `Disciplined`: it releases a cache once, keeps release and destruction apart until it closes,
  and no name is keyed under another. The property is `Held` and `Kept`. It is not inductive, because the marking of a
  client drops its *name*, whichever client holds it: `NoneReplaced` adds that nobody has taken the place of a client
  that is about to be marked (by a release that waits, or a DESTROYED on its way). That in turn holds because such a
  client is still in use until `close()` is called (`PendingActive`), which takes the discipline: one release per client
  (`ReleasedOnce`), none of one that is destroyed (`ReleasesApart`, with `NoticesFrom` and `SentDestroys` for where
  events come from). After `close()` no client is made and the argument is no longer needed.
* `Implements` (`SessionCachesProofs`), for a `Disciplined` application: `GetCache` hands a client out, the logic of a
  release and the DESTROYED event retire theirs, or stutter when it is out of use already (a cache released and
  destroyed while the session closes), the end of `close()` shuts down, everything else stutters. `ClosedExactly` and
  the invariant above give `ClosedUnused`, which is what the abstract session says of `closed` at each of its steps.
  Without the discipline the successor client of a dropped name is in use and not held, and `getCache` makes a third.
* `TypeCorrect` and `Implements` (`NamedCacheCalls`), the latter for data that is truthy (`Truthy`), a `get` that does
  not fail and at most one call of `truncate` (`OneTruncates`); "Where the promises end" shows what each condition is
  for. `CallsInv` says what a call's record may be at each stage, in particular that the reply of one that was
  performed is that of its own request, and that an event under way is of a truncation that was performed. The lemmas
  on requests show, operation by operation, that what a builder sends has the effect (`EffectRight`) and the answer
  (`AnswerRight`) of what was asked for, with the arguments that count. Each action then settles one promise or leaves
  the abstract state alone (`SettleStep`), or is `Perform`, the instant at which the abstract call takes effect.
* `TellsOnce`, `TellsTheTruth` and `TypeCorrect` (`Lookup`). `LookupInv` ties the stage of a lookup to what has been
  told, and, while its messages are whole, the port it has dialled to the cluster wanted and its answer to the proxies
  held since. `TellsTheTruth` is stated under `PortsRight`: a cluster's port is that of its own name service
  (`PortsFound`), and no target has a port other than the default without a cluster (`PortsKept`); the other
  two hold without it. That lengths are read back, or the reader loops, is
  not assumed but proved:
* `ReadsBack` (`LookupProofs`): `PackedIntsReadBack` for any set of 32-bit integers. This takes an induction over
  data, which the library's induction theorems cannot give here; it goes by the least counterexample, whose existence
  is a fact about well-founded relations (`WFMin`). `RecursionHolds` shows in the same way that a function obeying a
  recursive equation exists if the equation goes on to what has a lower rank, `RecursionUnique` that there is one
  only: so the loops `Rest` (rank: the number that is left) and `Joined` (rank: the bytes that are left) are what
  their equations say. `RestJoined` then is the heart of it, by the least number whose bytes are not joined to it
  again; `GroupsRead` and `PackedIntRead` add the first byte, the sign and the reader of messages, with the two
  boundaries at 8191 and -8192 exact.
* `SkipsNothing` and `Implements` (`PagedIteration`). For an application that awaits its calls and stops at an error
  (`Awaited`), `IterationInv` ties what was delivered, what is held and the place of the cookie together, one open
  load at most; `Implements` is the refinement of `EntryIterator`, step by step. `TypeCorrect` holds for any usage.
* `MapInvariant`, `KeysAreOnce` and `Implements` (`EntryMap`), the last where equal keys are one instance and nothing
  is deleted that lets an iteration skip an entry (`Plain`). `MapInv`: every entry is in the bucket of its key's hash
  and no bucket holds a key twice (`Placed`), the size is the number of keys, every iterator is at a place. The lemmas
  `KeyAdded`, `KeyDeleted` and `ValueSet` say what the three changes of a bucket do to the map it stands for,
  `LeftAdded`, `LeftDeleted` and `LeftAfter` what they, and a step of an iterator, do to the keys that are left for
  it: after a deletion the entries behind it move up by one, and one of them slips past an iterator only if that was
  past the deleted entry and had more to yield in its bucket.

Only model-checked: liveness (`EventuallyHeard`, the three `CallsSettle`, `CloseCompletes`, `ComesToItsEnd`,
`Answered`), which is out of the proof system's reach. Every invariant and action property of the
passing runs, and every refinement, is a theorem, under the conditions stated with it.

## 5. Plan

Done, in this order: `ListenerGroup`, `SessionWatch`, `MapEvents` with `ListenerRegistry`; `SessionLifecycle` with
`SessionCaches`; `PagedIteration` with `EntryIterator`; `NamedCacheCalls` with `MapMeaning` and `RemoteMap`; `Lookup`
with `PackedInt`; `EntryMap` with `HashCode` and `Dictionary`; `SessionOptions`; their proofs. Next: the dispatch of one
event to the listeners of a group that change while it is being notified, as an action of `MapEvents`.

Not modelled, and not planned: the lazy deserialization of one `MapEvent` (it caches values and decides nothing);
serializers (stateless conversions); filters, extractors, processors, aggregators and comparators (immutable values
that the proxy evaluates); generated stubs; build files, examples and tests.
