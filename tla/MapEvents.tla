----------------------------- MODULE MapEvents -----------------------------
(***************************************************************************)
(* The MapEventsManager of one cache (events.ts): listener groups, the     *)
(* lazily opened bidirectional events stream, the requests written to it,  *)
(* and how the stream is replaced when it fails or the session reconnects. *)
(*                                                                         *)
(* JavaScript runs one callback at a time and drains the promise jobs it   *)
(* scheduled before the next one: every action but RunJob needs `jobs' to  *)
(* be empty, and RunJob takes the first job.  A request is identified by   *)
(* its position in `requests'; that number stands for its uid and for the  *)
(* fresh filter id that a filter request carries.  The INIT request is     *)
(* left out: the stream's promise is resolved before it is written and     *)
(* the callback of its answer resolves it once more, to no effect.         *)
(***************************************************************************)
EXTENDS ListenerGroup, SessionWatch

CONSTANTS Modes,       \* isLite flags that the application uses
          Serial,      \* TRUE: it awaits a call before the next one on that target
          MayRelease,  \* TRUE: it may release (or destroy) the cache
          Prompt,      \* TRUE: a failed stream emits 'error' before anything else happens
          MaxCalls,    \* bound on listener calls
          MaxDrops,    \* bound on losses of the channel
          MaxFails,    \* bound on failures of a single stream
          MaxTimeouts  \* bound on expired waits for a ready channel

ASSUME BoundsAssumption ==
  /\ Modes \subseteq BOOLEAN
  /\ Serial \in BOOLEAN /\ MayRelease \in BOOLEAN /\ Prompt \in BOOLEAN
  /\ MaxCalls \in Nat /\ MaxDrops \in Nat /\ MaxFails \in Nat /\ MaxTimeouts \in Nat

VARIABLES
  groups,         \* every ListenerGroup created so far, in creation order
  groupOf,        \* keyMap and filterMap: target -> index of its group, or 0
  filterIds,      \* filterId2ListenerGroup: filter id -> group, or 0
  requests,       \* every MapListenerRequest built so far
  pending,        \* pendingSubscriptions: requests that await an answer
  streams,        \* every events stream and the promise it was asked through
  streamPromise,  \* the current one, or 0 for null
  jobs,           \* promise jobs, oldest first
  channel,        \* connectivity of the gRPC channel, "READY" or "CONNECTING"
  session,        \* the session's channel watcher
  markedForClose, \* as in the code
  attached,       \* onDisconnect and onReconnect are registered with the session
  released,       \* closeEventStream has been called
  open,           \* listener calls whose promise has not settled
  used            \* how often each bounded event has happened

vars == <<groups, groupOf, filterIds, requests, pending, streams, streamPromise,
          jobs, channel, session, markedForClose, attached, released, open, used>>

registry  == <<groups, groupOf>>
lifecycle == <<markedForClose, attached, released>>
network   == <<channel, session>>

----------------------------------------------------------------------------
\* A request, the steps that follow it once it is answered, and the listener
\* call it belongs to (0 for a resubscription, which nobody awaits).
Request(g, steps, call) ==
  [group |-> g, step |-> Head(steps), rest |-> Tail(steps), call |-> call]

Job(do, uid, via) == [do |-> do, uid |-> uid, via |-> via]

NoSubscriptions == [t \in Targets |-> 0]

\* ensureStream's promise while waitForReady is outstanding.
NewStream == [promise |-> "pending", wire |-> "none", waiters |-> <<>>,
              toServer |-> <<>>, toClient |-> <<>>, subs |-> NoSubscriptions]

\* A stream whose call has failed or was cancelled: its messages are lost, the
\* proxy forgets its subscriptions, and 'error' is yet to be emitted.
Broken(s) ==
  IF s.wire \in {"open", "ended"}
  THEN [s EXCEPT !.wire = "broken", !.toServer = <<>>, !.toClient = <<>>,
                 !.subs = NoSubscriptions]
  ELSE s

Target(uid) == groups[requests[uid].group].target

\* Mutant of FilterId: the id recorded is the next one to be handed out.
NextFilterId(uid) == IF Target(uid) \in Filters THEN uid + 1 ELSE 0

\* getFilterid(): only a MapEventFilter's request carries an id of its own.
FilterId(uid) == IF Target(uid) \in Filters THEN uid ELSE 0

\* The streamPromise that ensureStream returns.
Ensured(current, strs) == IF current = 0 THEN Len(strs) + 1 ELSE current

\* ensureStream().then(write) and await streamPromise: the continuations run
\* as jobs if the promise has been resolved and wait for it otherwise.
Awaiting(s, js, strs, queue) ==
  IF strs[s].promise = "pending"
  THEN /\ streams' = [strs EXCEPT ![s].waiters = @ \o js]
       /\ jobs'    = queue
  ELSE /\ streams' = strs
       /\ jobs'    = queue \o js

\* writeRequest for each request of the batch, up to its first await.
Send(batch, current, strs, queue) ==
  /\ requests' = requests \o batch
  /\ IF batch = <<>>
     THEN /\ streamPromise' = current
          /\ streams' = strs
          /\ jobs' = queue
     ELSE LET s == Ensured(current, strs)
          IN /\ streamPromise' = s
             /\ Awaiting(s,
                         [i \in DOMAIN batch |-> Job("write", Len(requests) + i, s)],
                         IF current = 0 THEN Append(strs, NewStream) ELSE strs,
                         queue)

\* Mutant of Mapped: the filters' groups are forgotten.
MappedKeys == {g \in 1 .. Len(groups) : groups[g].target \in Keys /\ groupOf[groups[g].target] = g}

\* keyMap.forEach and filterMap.forEach: each map's groups in insertion order.
Mapped == {g \in 1 .. Len(groups) : groupOf[groups[g].target] = g}

Precedes(g, h) ==
  LET isKey(n) == groups[n].target \in Keys
  IN (isKey(g) /\ ~isKey(h)) \/ (isKey(g) = isKey(h) /\ g < h)

Orders == {o \in [1 .. Cardinality(Mapped) -> Mapped] :
             \A i, j \in DOMAIN o : i < j => Precedes(o[i], o[j])}

\* Mutant of Resubscriptions: the subscribe's default, lite, is used.
LiteResubscriptions(order) == [i \in DOMAIN order |-> Request(order[i], <<"lite">>, 0)]

\* doSubscribe(registeredIsLite) for every group.
Resubscriptions(order) ==
  [i \in DOMAIN order |->
     Request(order[i], <<Flag(groups[order[i]].registeredIsLite)>>, 0)]

----------------------------------------------------------------------------
\* A cache is created before its channel is ready, on a ready channel, or
\* while a lost connection is being restored; the constructor asks for a stream.
Init ==
  /\ groups = <<>>
  /\ groupOf = NoSubscriptions
  /\ filterIds = [id \in {0} |-> 0]
  /\ requests = <<>>
  /\ pending = {}
  /\ streams = <<NewStream>>
  /\ streamPromise = 1
  /\ jobs = <<>>
  /\ \/ channel = "CONNECTING" /\ session = FirstWatch
     \/ channel = "READY"      /\ session = Watched(FirstWatch, TRUE)
     \/ channel = "CONNECTING" /\ session = Watched(Watched(FirstWatch, TRUE), FALSE)
  /\ markedForClose = FALSE
  /\ attached = TRUE
  /\ released = FALSE
  /\ open = {}
  /\ used = [calls |-> 0, drops |-> 0, fails |-> 0, timeouts |-> 0]

\* A callback of the application, of grpc-js or of the proxy: no promise job
\* is left to run, and no stream error to report if errors are prompt.
MayRun ==
  /\ jobs = <<>>
  /\ Prompt => \A s \in DOMAIN streams : streams[s].wire # "broken"

\* Listener calls: not after release, and one at a time per target if Serial.
MayCall(t) ==
  /\ MayRun
  /\ ~released
  /\ used.calls < MaxCalls
  /\ Serial => \A c \in open : c.target # t

\* The promise of an async listener method that has these steps to await.
Call(t, g, steps) ==
  LET call == used.calls + 1
  IN /\ used' = [used EXCEPT !.calls = call]
     /\ IF steps = <<>>
        THEN open' = open /\ Send(<<>>, streamPromise, streams, jobs)
        ELSE /\ open' = open \cup {[call |-> call, target |-> t]}
             /\ Send(<<Request(g, steps, call)>>, streamPromise, streams, jobs)

\* registerKeyListener and registerFilterListener with addListener.
AddListener(t, l, isLite) ==
  /\ MayCall(t)
  /\ LET known == groupOf[t] # 0
         g     == IF known THEN groupOf[t] ELSE Len(groups) + 1
         grp   == IF known THEN groups[g] ELSE NewGroup(t)
     IN /\ groups' = IF known
                     THEN [groups EXCEPT ![g] = Added(grp, l, isLite)]
                     ELSE Append(groups, Added(grp, l, isLite))
        /\ groupOf' = [groupOf EXCEPT ![t] = g]
        /\ Call(t, g, AddSteps(grp, l, isLite))
  /\ UNCHANGED <<filterIds, pending, network, lifecycle>>

\* removeMapListener looks a plain filter up among the keys.
FoundForRemoval(t) == IF t \in PlainFilters THEN 0 ELSE groupOf[t]

\* removeKeyListener and removeFilterListener with removeListener.
RemoveListener(t, l) ==
  /\ MayCall(t)
  /\ LET g == FoundForRemoval(t)
     IN IF g = 0
        THEN groups' = groups /\ Call(t, g, <<>>)
        ELSE /\ groups' = [groups EXCEPT ![g] = Removed(groups[g], l)]
             /\ Call(t, g, RemoveSteps(groups[g], l))
  /\ UNCHANGED <<groupOf, filterIds, pending, network, lifecycle>>

----------------------------------------------------------------------------
\* Mutant of WriteJob: the request is written before its callback is stored,
\* and the callback is never stored.
WriteJobUntracked(job) ==
  /\ job.do = "write"
  /\ streams' = IF streams[job.via].wire = "open"
                THEN [streams EXCEPT ![job.via].toServer = Append(@, job.uid)]
                ELSE streams
  /\ jobs' = Tail(jobs)
  /\ UNCHANGED <<registry, filterIds, requests, pending, streamPromise, network, lifecycle,
                 open, used>>

\* writeRequest's continuation: a stream that never became ready swallows the
\* request; otherwise its callback is stored and it is written to the stream,
\* where a dead stream loses it.
WriteJob(job) ==
  /\ job.do = "write"
  /\ IF streams[job.via].promise = "null"
     THEN /\ jobs' = Append(Tail(jobs), Job("settled", job.uid, 0))
          /\ UNCHANGED <<pending, streams>>
     ELSE /\ pending' = pending \cup {job.uid}
          /\ streams' = IF streams[job.via].wire = "open"
                        THEN [streams EXCEPT ![job.via].toServer = Append(@, job.uid)]
                        ELSE streams
          /\ jobs' = Tail(jobs)
  /\ UNCHANGED <<registry, filterIds, requests, streamPromise, network, lifecycle, open, used>>

\* postSubscribe: filterGroupSubscribed for a filter, nothing for a key.
PostSubscribe(uid) ==
  /\ filterIds' = IF Target(uid) \in Keys THEN filterIds
                  ELSE [id \in DOMAIN filterIds \cup {FilterId(uid)} |->
                          IF id = FilterId(uid) THEN requests[uid].group ELSE filterIds[id]]
  /\ UNCHANGED groupOf

\* postUnsubscribe: keyGroupUnsubscribed or filterGroupUnsubscribed.  The id
\* that is deleted is the one of the unsubscribe request.
PostUnsubscribe(uid) ==
  /\ groupOf' = [groupOf EXCEPT ![Target(uid)] = 0]
  /\ filterIds' = IF Target(uid) \in Keys \/ FilterId(uid) \notin DOMAIN filterIds THEN filterIds
                  ELSE [filterIds EXCEPT ![FilterId(uid)] = 0]

\* The rest of doSubscribe or doUnsubscribe once its request is settled, then
\* the next step of addListener or removeListener or the end of the call.
SettledJob(job) ==
  /\ job.do = "settled"
  /\ IF requests[job.uid].step = "unsub" THEN PostUnsubscribe(job.uid) ELSE PostSubscribe(job.uid)
  /\ LET r == requests[job.uid]
     IN IF r.rest # <<>>
        THEN /\ Send(<<Request(r.group, r.rest, r.call)>>, streamPromise, streams, Tail(jobs))
             /\ UNCHANGED open
        ELSE /\ Send(<<>>, streamPromise, streams, Tail(jobs))
             /\ open' = {c \in open : c.call # r.call}
  /\ UNCHANGED <<groups, pending, network, lifecycle, used>>

\* Mutant of DisconnectJob: the stream it awaited is not cancelled.
DisconnectJobUncancelled(job) ==
  /\ job.do = "disconnect"
  /\ streamPromise' = 0
  /\ jobs' = Tail(jobs)
  /\ UNCHANGED <<registry, filterIds, requests, pending, streams, network, lifecycle, open, used>>

\* Mutant of DisconnectJob: the cancelled stream stays the current one.
DisconnectJobKeepsStream(job) ==
  /\ job.do = "disconnect"
  /\ streams' = IF job.via # 0 /\ streams[job.via].promise = "stream"
                THEN [streams EXCEPT ![job.via] = Broken(@)] ELSE streams
  /\ jobs' = Tail(jobs)
  /\ UNCHANGED <<registry, filterIds, requests, pending, streamPromise, network, lifecycle,
                 open, used>>

\* The rest of onDisconnect: cancel the stream it awaited, if any, and forget
\* whichever stream is current by now.
DisconnectJob(job) ==
  /\ job.do = "disconnect"
  /\ streams' = IF job.via # 0 /\ streams[job.via].promise = "stream"
                THEN [streams EXCEPT ![job.via] = Broken(@)] ELSE streams
  /\ streamPromise' = 0
  /\ jobs' = Tail(jobs)
  /\ UNCHANGED <<registry, filterIds, requests, pending, network, lifecycle, open, used>>

\* Mutant of CloseJob: the stream is not half-closed.
CloseJobDetachOnly(job) ==
  /\ job.do = "close"
  /\ attached' = FALSE
  /\ jobs' = Tail(jobs)
  /\ UNCHANGED <<registry, filterIds, requests, pending, streams, streamPromise, network,
                 markedForClose, released, open, used>>

\* The rest of closeEventStream: detach from the session, half-close the stream.
CloseJob(job) ==
  /\ job.do = "close"
  /\ attached' = FALSE
  /\ streams' = IF streams[job.via].promise = "stream" /\ streams[job.via].wire = "open"
                THEN [streams EXCEPT ![job.via].wire = "ended"] ELSE streams
  /\ jobs' = Tail(jobs)
  /\ UNCHANGED <<registry, filterIds, requests, pending, streamPromise, network,
                 markedForClose, released, open, used>>

RunJob ==
  /\ jobs # <<>>
  /\ \/ WriteJob(Head(jobs))
     \/ SettledJob(Head(jobs))
     \/ DisconnectJob(Head(jobs))
     \/ CloseJob(Head(jobs))

----------------------------------------------------------------------------
\* waitForReady calls back without an error: the stream is opened and the
\* promise resolved with it.
StreamReady(s) ==
  /\ MayRun
  /\ streams[s].promise = "pending"
  /\ channel = "READY"
  /\ streams' = [streams EXCEPT ![s].promise = "stream", ![s].wire = "open", ![s].waiters = <<>>]
  /\ jobs' = streams[s].waiters
  /\ UNCHANGED <<registry, filterIds, requests, pending, streamPromise, network,
                 lifecycle, open, used>>

\* waitForReady calls back with an error.  The promise is resolved with null,
\* ensureStream makes a new one only if streamPromise was nulled meanwhile, and
\* for want of a return the stream is opened all the same.
ReadyTimeout(s) ==
  /\ MayRun
  /\ streams[s].promise = "pending"
  /\ channel # "READY"
  /\ used.timeouts < MaxTimeouts
  /\ used' = [used EXCEPT !.timeouts = @ + 1]
  /\ LET opened == [streams EXCEPT ![s].promise = "null", ![s].wire = "open",
                                   ![s].waiters = <<>>]
     IN streams' = IF streamPromise = 0 THEN Append(opened, NewStream) ELSE opened
  /\ streamPromise' = Ensured(streamPromise, streams)
  /\ jobs' = streams[s].waiters
  /\ UNCHANGED <<registry, filterIds, requests, pending, network, lifecycle, open>>

\* The proxy takes the next request of a stream and answers it.
ServerReceive(s) ==
  /\ MayRun
  /\ channel = "READY"
  /\ streams[s].toServer # <<>>
  /\ LET uid == Head(streams[s].toServer)
         sub == IF requests[uid].step = "unsub" THEN 0 ELSE uid
     IN streams' = [streams EXCEPT ![s].toServer = Tail(@),
                                   ![s].toClient = Append(@, uid),
                                   ![s].subs[Target(uid)] = sub]
  /\ UNCHANGED <<registry, filterIds, requests, pending, streamPromise, jobs, network,
                 lifecycle, open, used>>

\* handleResponse for SUBSCRIBED and UNSUBSCRIBED: the callback resolves the
\* promise that writeRequest returned.
HandleResponse(s) ==
  /\ MayRun
  /\ streams[s].toClient # <<>>
  /\ LET uid == Head(streams[s].toClient)
     IN /\ pending' = pending \ {uid}
        /\ jobs' = IF uid \in pending THEN <<Job("settled", uid, 0)>> ELSE jobs
  /\ streams' = [streams EXCEPT ![s].toClient = Tail(@)]
  /\ UNCHANGED <<registry, filterIds, requests, streamPromise, network, lifecycle, open, used>>

----------------------------------------------------------------------------
\* The connection is lost: every stream fails.  The session's watcher emits
\* DISCONNECTED, on which onDisconnect awaits the current stream.
ChannelDrop ==
  /\ MayRun
  /\ channel = "READY"
  /\ used.drops < MaxDrops
  /\ used' = [used EXCEPT !.drops = @ + 1]
  /\ channel' = "CONNECTING"
  /\ session' = Watched(session, FALSE)
  /\ LET failed == [s \in DOMAIN streams |-> Broken(streams[s])]
         wait   == <<Job("disconnect", 0, streamPromise)>>
     IN IF Emits(session, FALSE) = "DISCONNECTED" /\ attached
        THEN IF streamPromise = 0
             THEN streams' = failed /\ jobs' = wait
             ELSE Awaiting(streamPromise, wait, failed, jobs)
        ELSE streams' = failed /\ jobs' = jobs
  /\ UNCHANGED <<registry, filterIds, requests, pending, streamPromise, lifecycle, open>>

\* The connection is (re)established; on RECONNECTED onReconnect subscribes
\* every group anew.
ChannelUp ==
  /\ MayRun
  /\ channel = "CONNECTING"
  /\ channel' = "READY"
  /\ session' = Watched(session, TRUE)
  /\ IF Emits(session, TRUE) = "RECONNECTED" /\ attached
     THEN \E order \in Orders : Send(Resubscriptions(order), streamPromise, streams, jobs)
     ELSE Send(<<>>, streamPromise, streams, jobs)
  /\ UNCHANGED <<registry, filterIds, pending, lifecycle, open, used>>

\* The call of one stream fails while the channel stays as it is.
StreamFail(s) ==
  /\ MayRun
  /\ streams[s].wire \in {"open", "ended"}
  /\ used.fails < MaxFails
  /\ used' = [used EXCEPT !.fails = @ + 1]
  /\ streams' = [streams EXCEPT ![s] = Broken(@)]
  /\ UNCHANGED <<registry, filterIds, requests, pending, streamPromise, jobs, network,
                 lifecycle, open>>

\* onError, attached to every stream: whichever stream failed, the current one
\* is dropped and every group subscribed anew.  closeEventStream adds a handler
\* that nulls streamPromise when the stream it ended fails.
StreamError(s) ==
  /\ jobs = <<>>
  /\ streams[s].wire = "broken"
  /\ LET dead == [streams EXCEPT ![s].wire = "dead"]
     IN IF ~markedForClose /\ channel = "READY"
        THEN \E order \in Orders : Send(Resubscriptions(order), 0, dead, jobs)
        ELSE LET isEnded == markedForClose /\ ~attached /\ s = streamPromise
             IN Send(<<>>, IF isEnded THEN 0 ELSE streamPromise, dead, jobs)
  /\ UNCHANGED <<registry, filterIds, pending, network, lifecycle, open, used>>

\* The proxy completes a stream that the client has half-closed.
StreamEnd(s) ==
  /\ MayRun
  /\ streams[s].wire = "ended"
  /\ channel = "READY"
  /\ streams[s].toServer = <<>> /\ streams[s].toClient = <<>>
  /\ streams' = [streams EXCEPT ![s].wire = "dead", ![s].subs = NoSubscriptions]
  /\ UNCHANGED <<registry, filterIds, requests, pending, streamPromise, jobs, network,
                 lifecycle, open, used>>

\* closeEventStream, called once the cache is released or destroyed: without a
\* current stream it does nothing, not even mark itself closed.  release waits
\* for a ready channel, and goes ahead all the same when that wait expires.
CloseEventStream ==
  /\ MayRun
  /\ MayRelease /\ ~released
  /\ released' = TRUE
  /\ IF channel = "READY" THEN UNCHANGED used
     ELSE /\ used.timeouts < MaxTimeouts
          /\ used' = [used EXCEPT !.timeouts = @ + 1]
  /\ IF streamPromise = 0
     THEN UNCHANGED <<markedForClose, streams, jobs>>
     ELSE /\ markedForClose' = TRUE
          /\ Awaiting(streamPromise, <<Job("close", 0, streamPromise)>>, streams, jobs)
  /\ UNCHANGED <<registry, filterIds, requests, pending, streamPromise, network,
                 attached, open>>

----------------------------------------------------------------------------
Application ==
  \/ \E t \in Targets, l \in Listeners, isLite \in Modes : AddListener(t, l, isLite)
  \/ \E t \in Targets, l \in Listeners : RemoveListener(t, l)
  \/ CloseEventStream

Failures ==
  \/ ChannelDrop
  \/ \E s \in DOMAIN streams : StreamFail(s) \/ ReadyTimeout(s)

Answers == \E s \in DOMAIN streams : ServerReceive(s) \/ HandleResponse(s)

StreamChanges == \E s \in DOMAIN streams : StreamReady(s) \/ StreamError(s) \/ StreamEnd(s)

Next == Application \/ Failures \/ Answers \/ StreamChanges \/ RunJob \/ ChannelUp

Spec == Init /\ [][Next]_vars

\* Something waits for the channel.  grpc-js connects on demand: waitForReady asks
\* for a connection until it has one, the watcher of the session never does.
Demanded == \E s \in DOMAIN streams : streams[s].promise = "pending"

\* The event loop runs its jobs; a channel that is waited for connects; on a ready
\* channel the proxy answers and grpc-js delivers what it has.
Fairness ==
  /\ WF_vars(RunJob)
  /\ WF_vars(Demanded /\ ChannelUp)
  /\ WF_vars(Answers)
  /\ WF_vars(StreamChanges)

FairSpec == Spec /\ Fairness

----------------------------------------------------------------------------
\* A job names the request it is about, if any, and the stream it goes through.
Jobs == [do : {"write", "settled"}, uid : 1 .. Len(requests), via : 0 .. Len(streams)]
          \cup [do : {"disconnect", "close"}, uid : {0}, via : 0 .. Len(streams)]

Requests == [group : 1 .. Len(groups), step : Steps, rest : Seq(Steps), call : Nat]

Streams == [promise  : {"pending", "stream", "null"},
            wire     : {"none", "open", "ended", "broken", "dead"},
            waiters  : Seq(Jobs),
            toServer : Seq(1 .. Len(requests)),
            toClient : Seq(1 .. Len(requests)),
            subs     : [Targets -> 0 .. Len(requests)]]

\* Types, and every reference to a group, a request or a stream - from the
\* maps, the jobs, the proxy or a message - is to one that exists.
TypeOK ==
  /\ groups \in Seq(Group)
  /\ groupOf \in [Targets -> 0 .. Len(groups)]
  /\ DOMAIN filterIds \subseteq 0 .. Len(requests)
  /\ filterIds \in [DOMAIN filterIds -> 0 .. Len(groups)]
  /\ requests \in Seq(Requests)
  /\ pending \subseteq 1 .. Len(requests)
  /\ streams \in Seq(Streams)
  /\ streamPromise \in 0 .. Len(streams)
  /\ jobs \in Seq(Jobs)
  /\ channel \in {"READY", "CONNECTING"}
  /\ session \in Watcher
  /\ markedForClose \in BOOLEAN /\ attached \in BOOLEAN /\ released \in BOOLEAN
  /\ open \subseteq [call : Nat, target : Targets]
  /\ used \in [calls : Nat, drops : Nat, fails : Nat, timeouts : Nat]

\* A group that (re)subscribes as lite has no listener that asked for values,
\* whatever calls overlapped: what addListener decides before its awaits and
\* the flag that onError and onReconnect read later never disagree that way.
LiteFlagSound ==
  \A g \in DOMAIN groups : groups[g].registeredIsLite => FullListeners(groups[g]) = {}

\* isLiteFalseCount never falls below the number of listeners that want values,
\* so removeListener never falls back to lite events while one is left.
CountCovers ==
  \A g \in DOMAIN groups : Cardinality(FullListeners(groups[g])) <= groups[g].isLiteFalseCount

----------------------------------------------------------------------------
\* handleResponse for EVENT: the group that an event for target t reaches when
\* the proxy raises it for the subscription that request uid made.
Dispatch(t, uid) ==
  IF t \in Keys THEN groupOf[t]
  ELSE IF t \in Filters /\ uid \in DOMAIN filterIds THEN filterIds[uid] ELSE 0

\* The subscriptions the proxy holds for t on streams it can still send on.  A
\* plain filter is registered as if it were a key: no event is raised for it.
Subscriptions(t) ==
  IF t \in PlainFilters \/ channel # "READY" THEN {}
  ELSE {s \in DOMAIN streams : streams[s].subs[t] # 0}

\* The listeners that an event raised for t would be delivered to now.
Heard(t) ==
  {l \in Listeners : \E s \in Subscriptions(t) :
     LET g == Dispatch(t, streams[s].subs[t])
     IN g # 0 /\ l \in Registered(groups[g])}

\* The listeners that removeMapListener would find registered for t.
Findable(t) == IF groupOf[t] = 0 THEN {} ELSE Registered(groups[groupOf[t]])

\* Nothing is under way: what the client holds is what it will go on holding.
Quiet ==
  /\ jobs = <<>>
  /\ channel = "READY"
  /\ \A s \in DOMAIN streams :
       /\ streams[s].promise # "pending" /\ streams[s].wire \notin {"broken", "ended"}
       /\ streams[s].toServer = <<>> /\ streams[s].toClient = <<>>

\* Once nothing is under way, every listener that is registered hears its
\* events: no loss of a stream or of the channel, in whatever order its
\* notifications came, has cost a registration.
RegisteredHear == Quiet /\ ~released => \A t \in Targets : Findable(t) \subseteq Heard(t)

\* A listener that wants values gets them: no subscription whose events reach
\* its group, be it found in the maps or by its filter id only, is a lite one.
ValuesDelivered ==
  Quiet /\ ~released =>
    \A t \in Keys \cup Filters : \A s \in Subscriptions(t) :
      LET uid == streams[s].subs[t]
          g   == Dispatch(t, uid)
      IN  g # 0 /\ FullListeners(groups[g]) # {} => requests[uid].step = "full"

\* While the channel is ready, the current stream is not one whose failure has
\* already been reported: nothing would ever replace it, and every later
\* request would be written to it in vain.
CurrentStreamUsable ==
  channel = "READY" /\ jobs = <<>> /\ streamPromise # 0 /\ ~markedForClose =>
    (streams[streamPromise].promise = "stream" => streams[streamPromise].wire # "dead")

----------------------------------------------------------------------------
\* The proxy holds one subscription per target at most: a stream that was
\* replaced is not left open behind the new one, which would deliver every
\* event twice.
NoDuplicates == Quiet => \A t \in Targets : Cardinality(Subscriptions(t)) <= 1

\* A released cache receives nothing: no stream of its manager is left open
\* with subscriptions.
ReleasedIsSilent == Quiet /\ released => \A t \in Targets : Subscriptions(t) = {}

\* The promise of every addMapListener and removeMapListener settles.
CallsSettle == <>[](open = {})

\* If the channel comes back after each loss - something must ask for it, since a
\* lost connection leaves a manager that only listens with nothing to wait for -
\* every registered listener is reached in the end, and nobody else.
EventuallyHeard ==
  []<>(channel = "READY") => <>[](\A t \in Targets : Findable(t) = Heard(t))

Pairs(S(_)) == {p \in Targets \X Listeners : p[2] \in S(p[1])}

Registry == INSTANCE ListenerRegistry
              WITH registered <- Pairs(Findable), reached <- Pairs(Heard), calls <- used.calls

\* MapEvents implements ListenerRegistry: no failure, resubscription or answer
\* takes a registration away, and nobody is notified who is not registered.
ImplementsRegistry == Registry!Spec

\* The same for the registrations alone, as an action property: nothing but a
\* listener call changes who is registered ("a re-registration occurs", says
\* events.ts of a lite group that gets a full listener, and no more).
RegistrationsKept ==
  [][used.calls' = used.calls => \A t \in Targets : Findable(t)' = Findable(t)]_vars

============================================================================
