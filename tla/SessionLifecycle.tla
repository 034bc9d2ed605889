-------------------------- MODULE SessionLifecycle --------------------------
(***************************************************************************)
(* A Session and the NamedCacheClients it hands out (session.ts and        *)
(* named-cache-client.ts): creating, releasing and destroying caches and   *)
(* closing the session.  A cache is identified by its name: the only       *)
(* format that can be asked for is json, so the session's key name:format  *)
(* says no more, except that it starts with `name:' for other names too.   *)
(* An emit runs its handlers synchronously, so the handlers of the client  *)
(* and of the session are part of the step that emits.                     *)
(***************************************************************************)
EXTENDS Integers, FiniteSets, Sequences

CONSTANTS Names,        \* cache names
          KeyedUnder,   \* name -> the names whose cache key starts with `name:'
          MayRelease,   \* TRUE: the application may release caches itself
          ReleaseOnce,  \* TRUE: it releases a client once, while active, and
                        \* while it hands out caches keeps to release or destroy
          MayDestroy,   \* TRUE: caches may be destroyed, here or elsewhere
          MaxClients,   \* bound on clients created
          MaxCalls,     \* bound on calls of release and destroy
          MaxDrops,     \* bound on losses of the channel
          MaxTimeouts,  \* bound on expired waits for a ready channel
          MaxLost       \* bound on lost answers and lost events

ASSUME LifecycleAssumption ==
  /\ KeyedUnder \in [Names -> SUBSET Names]
  /\ \A n \in Names : n \in KeyedUnder[n]
  /\ {MayRelease, ReleaseOnce, MayDestroy} \subseteq BOOLEAN
  /\ {MaxClients, MaxCalls, MaxDrops, MaxTimeouts, MaxLost} \subseteq Nat

VARIABLES
  clients,        \* every NamedCacheClient created, in creation order
  caches,         \* name -> index of the client the session holds, or 0
  calls,          \* every call of release and destroy, and its promise
  notices,        \* clients that a DESTROYED event is on its way to
  markedForClose, \* close() has been called
  closed,         \* _closed: what `closed' and waitUntilClosed report
  closing,        \* how far close() has come
  channel,        \* "READY", "CONNECTING" or "SHUTDOWN"
  used            \* how often each bounded event has happened

vars == <<clients, caches, calls, notices, markedForClose, closed, closing, channel, used>>

Active(c) == ~clients[c].released /\ ~clients[c].destroyed

Tracked == {caches[n] : n \in Names} \ {0}

----------------------------------------------------------------------------
Init ==
  /\ clients = <<>>
  /\ caches = [n \in Names |-> 0]
  /\ calls = <<>>
  /\ notices = {}
  /\ markedForClose = FALSE
  /\ closed = FALSE
  /\ closing = [phase |-> "no", call |-> 0]
  /\ channel \in {"READY", "CONNECTING"}
  /\ used = [drops |-> 0, timeouts |-> 0, lost |-> 0, destroys |-> 0]

\* Mutant of GetCache: a closing session still hands out caches.
GetCacheWhileClosing(n) ==
  /\ ~closed
  /\ caches[n] = 0
  /\ Len(clients) < MaxClients
  /\ clients' = Append(clients, [name |-> n, released |-> FALSE, destroyed |-> FALSE])
  /\ caches' = [caches EXCEPT ![n] = Len(clients) + 1]
  /\ UNCHANGED <<calls, notices, markedForClose, closed, closing, channel, used>>

\* getCache for a name the session holds no client for.
GetCache(n) ==
  /\ ~markedForClose /\ ~closed
  /\ caches[n] = 0
  /\ Len(clients) < MaxClients
  /\ clients' = Append(clients, [name |-> n, released |-> FALSE, destroyed |-> FALSE])
  /\ caches' = [caches EXCEPT ![n] = Len(clients) + 1]
  /\ UNCHANGED <<calls, notices, markedForClose, closed, closing, channel, used>>

\* promisify: an inactive client's promise is rejected at once, and the call
\* waits for the channel like any other.
NewCall(op, c) == [op      |-> op,
                   client  |-> c,
                   phase   |-> "waiting",
                   outcome |-> IF Active(c) THEN "pending" ELSE "rejected"]

\* Mutant of Settled: a promise that is settled again throws.
SettledOnce(call, outcome) ==
  [call EXCEPT !.outcome = IF @ = "pending" THEN outcome ELSE "thrown"]

\* The first outcome of a promise stands.
Settled(call, outcome) ==
  [call EXCEPT !.outcome = IF @ = "pending" THEN outcome ELSE @]

\* Both go by the name of the cache, whichever client holds it now.
KeepsTo(op) ==
  \/ markedForClose
  \/ /\ \A i \in DOMAIN calls : calls[i].op = op
     /\ op = "release" => used.destroys = 0

Release(c) ==
  /\ MayRelease
  /\ Len(calls) < MaxCalls
  /\ ReleaseOnce => /\ Active(c) /\ KeepsTo("release")
                    /\ \A i \in DOMAIN calls : calls[i].client # c \/ calls[i].op # "release"
  /\ calls' = Append(calls, NewCall("release", c))
  /\ UNCHANGED <<clients, caches, notices, markedForClose, closed, closing, channel, used>>

\* destroy of an inactive client resolves at once and does nothing.
Destroy(c) ==
  /\ MayDestroy
  /\ ReleaseOnce => KeepsTo("destroy")
  /\ Len(calls) < MaxCalls
  /\ Active(c)
  /\ calls' = Append(calls, NewCall("destroy", c))
  /\ UNCHANGED <<clients, caches, notices, markedForClose, closed, closing, channel, used>>

----------------------------------------------------------------------------
\* Mutant of Dropped: the session keeps what was released or destroyed.
DroppedNone(names) == caches

\* The session's handler for RELEASED drops the name, whichever client holds
\* it now.
Dropped(names) == [n \in Names |-> IF n \in names THEN 0 ELSE caches[n]]

\* Mutant of ClosedAfter: one remaining cache is overlooked.
ClosedAfterMost(held, marked) ==
  closed \/ (marked /\ Cardinality({n \in Names : held[n] # 0}) <= 1)

\* Mutant of ClosedAfter: the handler tests a flag that is never set.
ClosedAfterNever(held, marked) == closed

\* The handler behind waitUntilClosed; marked says whether close() was called.
ClosedAfter(held, marked) == closed \/ (marked /\ \A n \in Names : held[n] = 0)

\* Mutant of ReleaseLogic: the promise is not resolved after the event.
ReleaseLogicUnresolved(i, failed) ==
  LET c == calls[i].client
      held == Dropped({clients[c].name})
      call == IF failed THEN Settled(calls[i], "rejected") ELSE calls[i]
  IN /\ clients' = [clients EXCEPT ![c].released = TRUE]
     /\ caches' = held
     /\ closed' = ClosedAfter(held, markedForClose)
     /\ calls' = [calls EXCEPT ![i] = [call EXCEPT !.phase = "done"]]

\* The logic of release: RELEASED is emitted to the client's and the session's
\* handlers, then the promise is resolved.
ReleaseLogic(i, failed) ==
  LET c == calls[i].client
      held == Dropped({clients[c].name})
      call == IF failed THEN Settled(calls[i], "rejected") ELSE calls[i]
  IN /\ clients' = [clients EXCEPT ![c].released = TRUE]
     /\ caches' = held
     /\ closed' = ClosedAfter(held, markedForClose)
     /\ calls' = [calls EXCEPT ![i] = [Settled(call, "resolved") EXCEPT !.phase = "done"]]

\* The logic of destroy: wait for the DESTROYED event, send the request.
DestroyLogic(i, failed) ==
  LET call == IF failed THEN Settled(calls[i], "rejected") ELSE calls[i]
  IN /\ calls' = [calls EXCEPT ![i] = [call EXCEPT !.phase = "sent"]]
     /\ UNCHANGED <<clients, caches, closed>>

\* waitForReady calls back, in the order of the calls.  An error rejects the
\* promise, and the logic is executed regardless.
WaitedForReady(i) ==
  /\ calls[i].phase = "waiting"
  /\ \A j \in 1 .. (i - 1) : calls[j].phase # "waiting"
  /\ channel = "CONNECTING" => used.timeouts < MaxTimeouts
  /\ used' = [used EXCEPT !.timeouts = IF channel = "CONNECTING" THEN @ + 1 ELSE @]
  /\ \/ calls[i].op = "release" /\ ReleaseLogic(i, channel # "READY")
     \/ calls[i].op = "destroy" /\ DestroyLogic(i, channel # "READY")
  /\ UNCHANGED <<notices, markedForClose, closing, channel>>

\* The active clients of a cache are told of its destruction.
Notified(n) == notices \cup {c \in DOMAIN clients : clients[c].name = n /\ Active(c)}

\* The proxy destroys the cache; the answer to the request changes nothing.
DestroyAnswered(i) ==
  /\ calls[i].phase = "sent"
  /\ channel = "READY"
  /\ calls' = [calls EXCEPT ![i].phase = "answered"]
  /\ notices' = Notified(clients[calls[i].client].name)
  /\ UNCHANGED <<clients, caches, markedForClose, closed, closing, channel, used>>

\* The request fails: its promise is rejected.
DestroyFailed(i) ==
  /\ calls[i].phase = "sent"
  /\ channel = "READY" => used.lost < MaxLost
  /\ used' = [used EXCEPT !.lost = IF channel = "READY" THEN @ + 1 ELSE @]
  /\ calls' = [calls EXCEPT ![i] = [Settled(@, "rejected") EXCEPT !.phase = "answered"]]
  /\ UNCHANGED <<clients, caches, notices, markedForClose, closed, closing, channel>>

\* Another member of the cluster destroys the cache.
DestroyedElsewhere(n) ==
  /\ MayDestroy
  /\ ReleaseOnce => KeepsTo("destroy")
  /\ used.destroys < MaxCalls
  /\ used' = [used EXCEPT !.destroys = @ + 1]
  /\ notices' = Notified(n)
  /\ UNCHANGED <<clients, caches, calls, markedForClose, closed, closing, channel>>

\* The DESTROYED event reaches a client: the session drops every cache whose
\* key starts with the name, and the client's pending destroys resolve.
OnDestroyed(c) ==
  /\ c \in notices
  /\ channel = "READY"
  /\ notices' = notices \ {c}
  /\ clients' = [clients EXCEPT ![c].destroyed = TRUE]
  /\ LET under == KeyedUnder[clients[c].name]
         held  == Dropped(under)
     IN /\ caches' = held
        /\ closed' = IF \E n \in under : caches[n] # 0 THEN ClosedAfter(held, markedForClose) ELSE closed
  /\ calls' = [i \in DOMAIN calls |->
                 IF /\ calls[i].client = c /\ calls[i].op = "destroy"
                    /\ calls[i].phase \in {"sent", "answered"}
                 THEN Settled(calls[i], "resolved") ELSE calls[i]]
  /\ UNCHANGED <<markedForClose, closing, channel, used>>

\* The event is lost with the stream that carried it.
NoticeLost(c) ==
  /\ c \in notices
  /\ channel = "READY" => used.lost < MaxLost
  /\ used' = [used EXCEPT !.lost = IF channel = "READY" THEN @ + 1 ELSE @]
  /\ notices' = notices \ {c}
  /\ UNCHANGED <<clients, caches, calls, markedForClose, closed, closing, channel>>

----------------------------------------------------------------------------
\* The client of the release that close() awaits; 0 when it awaits none.
Visited == IF closing.phase = "awaiting" THEN calls[closing.call].client ELSE 0

\* Mutant of Remaining: the map is walked by position, and a deletion moves the
\* entry behind it out of the walk.
RemainingByPosition ==
  IF closing.phase = "awaiting" THEN {c \in Tracked : \E d \in Tracked : d < c} ELSE Tracked

\* What the for...of over the live map has yet to come to.  A Map iterates in
\* insertion order, which is the order of creation; an iteration under way skips
\* what was deleted meanwhile and does not go back.
Remaining == {c \in Tracked : c > Visited}

\* The loop of close(): release the next cache in the map and await it; behind
\* the last one shut the channel down and emit CLOSED.
CloseLoop ==
  IF Remaining # {}
  THEN LET c == CHOOSE c \in Remaining : \A d \in Remaining : c <= d
       IN /\ calls' = Append(calls, NewCall("release", c))
          /\ closing' = [phase |-> "awaiting", call |-> Len(calls) + 1]
          /\ UNCHANGED <<closed, channel>>
  ELSE /\ channel' = "SHUTDOWN"
       /\ closing' = [phase |-> "done", call |-> 0]
       /\ closed' = ClosedAfter(caches, TRUE)
       /\ UNCHANGED calls

\* close(): a second call returns at once.
Close ==
  /\ ~markedForClose
  /\ markedForClose' = TRUE
  /\ CloseLoop
  /\ UNCHANGED <<clients, caches, notices, used>>

\* The promise that close() awaits has settled: before anything but the
\* application's own continuations runs, close() goes on.
ResumeDue == closing.phase = "awaiting" /\ calls[closing.call].outcome # "pending"

\* close() goes on with its loop, or rejects with the release it awaited.
CloseResume ==
  /\ ResumeDue
  /\ IF calls[closing.call].outcome = "resolved" THEN CloseLoop
     ELSE /\ closing' = [phase |-> "failed", call |-> 0]
          /\ UNCHANGED <<calls, closed, channel>>
  /\ UNCHANGED <<clients, caches, notices, markedForClose, used>>

ChannelDrop ==
  /\ channel = "READY"
  /\ used.drops < MaxDrops
  /\ used' = [used EXCEPT !.drops = @ + 1]
  /\ channel' = "CONNECTING"
  /\ notices' = {}
  /\ UNCHANGED <<clients, caches, calls, markedForClose, closed, closing>>

ChannelUp ==
  /\ channel = "CONNECTING"
  /\ channel' = "READY"
  /\ UNCHANGED <<clients, caches, calls, notices, markedForClose, closed, closing, used>>

----------------------------------------------------------------------------
\* Some call waits for the channel: waitForReady is what makes grpc-js connect
\* again, a channel that nobody asks stays as it is.
Asked == \E i \in DOMAIN calls : calls[i].phase = "waiting"

Application ==
  \/ \E n \in Names : GetCache(n)
  \/ \E c \in DOMAIN clients : Release(c) \/ Destroy(c)
  \/ Close

\* What goes on once it has been asked for.
Progress ==
  \/ CloseResume
  \/ /\ ~ResumeDue
     /\ \/ \E i \in DOMAIN calls : WaitedForReady(i) \/ DestroyAnswered(i) \/ DestroyFailed(i)
        \/ \E c \in DOMAIN clients : OnDestroyed(c)
        \/ Asked /\ ChannelUp

Environment ==
  /\ ~ResumeDue
  /\ \/ \E n \in Names : DestroyedElsewhere(n)
     \/ \E c \in DOMAIN clients : NoticeLost(c)
     \/ ChannelDrop
     \/ ChannelUp

Next == Application \/ Progress \/ Environment

Spec == Init /\ [][Next]_vars

\* Callbacks, answers and events arrive; a channel that is asked for connects.
FairSpec == Spec /\ WF_vars(Progress)

----------------------------------------------------------------------------
TypeOK ==
  /\ clients \in Seq([name : Names, released : BOOLEAN, destroyed : BOOLEAN])
  /\ caches \in [Names -> 0 .. Len(clients)]
  /\ calls \in Seq([op      : {"release", "destroy"},
                    client  : 1 .. Len(clients),
                    phase   : {"waiting", "sent", "answered", "done"},
                    outcome : {"pending", "resolved", "rejected"}])
  /\ notices \subseteq DOMAIN clients
  /\ markedForClose \in BOOLEAN /\ closed \in BOOLEAN
  /\ closing \in [phase : {"no", "awaiting", "failed", "done"},
                  call  : 0 .. Len(calls)]
  /\ channel \in {"READY", "CONNECTING", "SHUTDOWN"}
  /\ used \in [drops : Nat, timeouts : Nat, lost : Nat, destroys : Nat]

\* The session holds exactly the active clients: activeCacheCount counts them,
\* close() reaches every one, and getCache never makes a second client for a
\* cache whose first one is still in use.
HoldsTheActive == Tracked = {c \in DOMAIN clients : Active(c)}

\* However the application releases, and whichever handler or step of close()
\* comes last: no moment at which a closing session is left with no cache goes
\* unreported, and none is reported that is not one.
ClosedExactly == closed <=> markedForClose /\ Tracked = {}

\* The loop of close() leaves nothing behind: it walks the map while releases,
\* destroys and its own releases delete from it, and when it shuts the channel
\* down the session holds no cache, nor ever gets one.
NothingHeldAfterShutdown == channel = "SHUTDOWN" => Tracked = {}

\* close() runs to its end and the session reports itself closed, however many
\* releases, destroys and losses it meets; it fails only if a wait has expired.
CloseCompletes ==
  markedForClose ~> \/ closing.phase = "done" /\ closed
                    \/ closing.phase = "failed" /\ used.timeouts > 0

\* Seen without its calls, events and channel the session is SessionCaches:
\* whatever overlaps, it hands out one client for a name at a time and none
\* once it closes, it takes one at a time out of use, and it reports itself
\* closed exactly when close() was called and no client is in use.
Caches == INSTANCE SessionCaches WITH
            handed  <- [c \in DOMAIN clients |-> clients[c].name],
            inUse   <- {c \in DOMAIN clients : Active(c)},
            closing <- markedForClose,
            shut    <- channel = "SHUTDOWN"

ImplementsSession == Caches!Spec

\* The promise of every release settles, whatever becomes of its client and of
\* the session meanwhile.
CallsSettle ==
  []<>(\A i \in DOMAIN calls : calls[i].op = "release" => calls[i].outcome # "pending")

============================================================================
