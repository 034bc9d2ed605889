---------------------- MODULE MapEventsRegistryProofs ----------------------
(***************************************************************************)
(* Theorems about the registrations of MapEvents, for an application that  *)
(* uses lite or full listeners but not both: what the proxy was asked for, *)
(* and, with awaited calls, that MapEvents implements ListenerRegistry and *)
(* that a listener which is registered is heard however streams fail; and  *)
(* what the proxy was asked for where both are used and errors are prompt. *)
(***************************************************************************)
EXTENDS MapEventsStreamProofs

----------------------------------------------------------------------------
(* One mode: every call is followed by one request, or none.               *)

\* The application uses lite listeners or full ones, not both.
OneMode == \A m1, m2 \in Modes : m1 = m2

\* The listeners of a group are of the application's mode.
Uniform(grp) == \A l \in Registered(grp) : \E m \in Modes : grp.listeners[l] = Flag(m)

LEMMA FlagsDiffer ==
  ASSUME NEW a \in BOOLEAN, NEW b \in BOOLEAN
  PROVE  /\ Flag(a) = Flag(b) <=> a = b
         /\ Flag(a) \in Steps /\ Flag(a) \in Statuses /\ Flag(a) # "none" /\ Flag(a) # "unsub"
         /\ Flag(a) = "full" <=> ~a
  BY DEF Flag, Steps, Statuses

\* All listeners have the flag of the mode.
LEMMA UniformFlag ==
  ASSUME OneMode, NEW grp \in Group, Uniform(grp), NEW m \in Modes, NEW l \in Registered(grp)
  PROVE  grp.listeners[l] = Flag(m)
  BY DEF OneMode, Uniform

\* A listener that joins is registered along with those there were.
LEMMA AddedRegistered ==
  ASSUME NEW grp \in Group, NEW l \in Listeners, NEW isLite \in BOOLEAN
  PROVE  /\ Registered(Added(grp, l, isLite)) = Registered(grp) \cup {l}
         /\ \A k \in Listeners : k # l => Added(grp, l, isLite).listeners[k] = grp.listeners[k]
         /\ Added(grp, l, isLite).listeners[l] = Flag(isLite)
<1>1. Flag(isLite) # "none" /\ Flag(isLite) \in Statuses
  BY FlagsDiffer
<1>2. /\ \A k \in Listeners : k # l => Added(grp, l, isLite).listeners[k] = grp.listeners[k]
      /\ Added(grp, l, isLite).listeners[l] = Flag(isLite)
  BY DEF Added, IsNews, Group
<1> QED
  BY <1>1, <1>2 DEF Registered

LEMMA RemovedRegistered ==
  ASSUME NEW grp \in Group, NEW l \in Listeners
  PROVE  /\ Registered(Removed(grp, l)) = Registered(grp) \ {l}
         /\ \A k \in Listeners : k # l => Removed(grp, l).listeners[k] = grp.listeners[k]
<1>1. /\ \A k \in Listeners : k # l => Removed(grp, l).listeners[k] = grp.listeners[k]
      /\ Removed(grp, l).listeners[l] = "none"
  BY DEF Removed, Group
<1> QED
  BY <1>1 DEF Registered

\* A group that gets a listener subscribes or does nothing, ...
LEMMA AddStepsOne ==
  ASSUME OneMode, NEW grp \in Group, Uniform(grp), LiteMeansLite(grp),
         NEW l \in Listeners, NEW isLite \in Modes
  PROVE  /\ AddSteps(grp, l, isLite) \in {<<>>, <<Flag(isLite)>>}
         /\ Uniform(Added(grp, l, isLite))
<1>1. isLite \in BOOLEAN
  BY BoundsAssumption
<1>2. \A k \in Registered(grp) : grp.listeners[k] = Flag(isLite)
  BY UniformFlag
<1>3. Uniform(Added(grp, l, isLite))
  <2> DEFINE new == Added(grp, l, isLite)
  <2>1. /\ Registered(new) = Registered(grp) \cup {l} /\ new.listeners[l] = Flag(isLite)
        /\ \A k \in Listeners : k # l => new.listeners[k] = grp.listeners[k]
    BY <1>1, AddedRegistered
  <2> HIDE DEF new
  <2>2. Registered(grp) \subseteq Listeners
    BY DEF Registered
  <2>3. \A k \in Registered(new) : new.listeners[k] = Flag(isLite)
    BY <1>2, <2>1, <2>2
  <2> QED
    BY <2>3 DEF Uniform, new
<1>4. AddSteps(grp, l, isLite) \in {<<>>, <<Flag(isLite)>>}
  <2>1. CASE Registered(grp) \ {l} = {}
    BY <2>1 DEF AddSteps
  <2>2. CASE Registered(grp) \ {l} # {}
    <3>1. PICK k \in Registered(grp) : k # l
      BY <2>2
    <3>2. ~isLite => k \in FullListeners(grp)
      BY <1>1, <1>2, <3>1, FlagsDiffer DEF FullListeners, Registered
    <3>3. ~NeedsRegistration(grp, l, isLite)
      BY <2>2, <3>2 DEF NeedsRegistration, LiteMeansLite
    <3> QED
      BY <3>3 DEF AddSteps
  <2> QED
    BY <2>1, <2>2
<1> QED
  BY <1>3, <1>4

\* ... and one that loses a listener unsubscribes, with its last one, or does
\* nothing: it has no lite listeners to fall back to lite events for.
LEMMA RemoveStepsOne ==
  ASSUME OneMode, NEW grp \in Group, Uniform(grp), CountBounds(grp), NEW l \in Listeners
  PROVE  /\ RemoveSteps(grp, l) # <<>> => RemoveSteps(grp, l) = <<"unsub">> /\ Registered(Removed(grp, l)) = {}
         /\ Uniform(Removed(grp, l))
<1> DEFINE last == <<"unsub">>
<1>1. Registered(grp) \subseteq Listeners
  BY DEF Registered
<1>2. Uniform(Removed(grp, l))
  <2>1. /\ Registered(Removed(grp, l)) = Registered(grp) \ {l}
        /\ \A k \in Listeners : k # l => Removed(grp, l).listeners[k] = grp.listeners[k]
    BY RemovedRegistered
  <2> QED
    BY <1>1, <2>1 DEF Uniform
<1>3. RemoveSteps(grp, l) # <<>> => RemoveSteps(grp, l) = last /\ Registered(Removed(grp, l)) = {}
  <2>1. CASE grp.listeners[l] = "none"
    BY <2>1 DEF RemoveSteps
  <2>2. CASE grp.listeners[l] # "none" /\ IsLast(grp, l)
    <3>1. RemoveSteps(grp, l) = last /\ Registered(grp) = {l}
      BY <2>2 DEF RemoveSteps, IsLast
    <3>2. Registered(Removed(grp, l)) = {}
      BY <3>1, RemovedRegistered
    <3> QED
      BY <3>1, <3>2
  <2>3. CASE grp.listeners[l] # "none" /\ ~IsLast(grp, l)
    <3>1. l \in Registered(grp)
      BY <2>3 DEF Registered
    <3>2. PICK k \in Registered(grp) : k # l
      BY <2>3, <3>1 DEF IsLast
    <3>3. grp.listeners[k] = grp.listeners[l]
      <4>1. PICK m \in Modes : grp.listeners[l] = Flag(m)
        BY <3>1 DEF Uniform
      <4> QED
        BY <4>1, <3>2, UniformFlag
    <3>4. ASSUME grp.listeners[l] = "full" PROVE grp.isLiteFalseCount # 1
      <4>1. {k, l} \subseteq FullListeners(grp)
        BY <1>1, <3>2, <3>3, <3>4 DEF FullListeners
      <4>2. Cardinality({k, l}) = 2
        <5>1. {k, l} = {k} \cup {l} /\ l \notin {k}
          BY <3>2
        <5>2. IsFiniteSet({k}) /\ Cardinality({k}) = 1
          BY FS_Singleton
        <5>3. Cardinality({k} \cup {l}) = Cardinality({k}) + 1
          BY <5>1, <5>2, FS_AddElement
        <5> QED
          BY <5>1, <5>2, <5>3
      <4>3. Cardinality({k, l}) <= Cardinality(FullListeners(grp)) /\ Cardinality(FullListeners(grp)) \in Nat
        BY <4>1, FullListenersFinite, FS_Subset
      <4>4. 2 <= Cardinality(FullListeners(grp))
        BY <4>2, <4>3
      <4>5. grp.isLiteFalseCount \in Int
        BY DEF Group
      <4> QED
        BY <4>3, <4>4, <4>5 DEF CountBounds
    <3>5. RemoveSteps(grp, l) = <<>>
      BY <2>3, <3>4 DEF RemoveSteps
    <3> QED
      BY <3>5
  <2> QED
    BY <2>1, <2>2, <2>3
<1> QED
  BY <1>2, <1>3 DEF last

\* Requests are never changed.
RequestsKept == \A u \in DOMAIN requests : u \in DOMAIN requests' /\ requests'[u] = requests[u]

\* A listener call makes the request that it awaits first.
LEMMA CallDoes ==
  ASSUME Typed, NEW t, NEW g, NEW step, NEW steps, steps = <<>> \/ steps = <<step>>, Call(t, g, steps)
  PROVE  /\ used' = [used EXCEPT !.calls = used.calls + 1] /\ RequestsKept
         /\ steps = <<>> => Fresh = {} /\ open' = open
         /\ steps # <<>> =>
              /\ open' = open \cup {[call |-> used.calls + 1, target |-> t]}
              /\ Fresh = {Len(requests) + 1}
              /\ \A u \in Fresh : requests'[u] = [group |-> g, step |-> step, rest |-> <<>>, call |-> used.calls + 1]
<1> DEFINE one == <<step>>
           req == Request(g, one, used.calls + 1)
           new == [group |-> g, step |-> step, rest |-> <<>>, call |-> used.calls + 1]
<1>0. one # <<>> /\ Head(one) = step /\ Tail(one) = <<>>
  OBVIOUS
<1> HIDE DEF one
<1>1. used' = [used EXCEPT !.calls = used.calls + 1]
  BY DEF Call
<1>2. CASE steps = <<>>
  <2>1. open' = open /\ requests' = requests \o <<>>
    BY <1>2 DEF Call, Send
  <2>2. requests' = requests
    BY <2>1, ConcatEmptySeq DEF Typed, MessagesOK
  <2> QED
    BY <1>1, <1>2, <2>1, <2>2 DEF RequestsKept, Fresh
<1>3. CASE steps = one
  <2>1. /\ open' = open \cup {[call |-> used.calls + 1, target |-> t]}
        /\ requests' = requests \o <<req>>
    BY <1>0, <1>3 DEF Call, Send
  <2>2. req = new
    BY <1>0 DEF Request
  <2> HIDE DEF req, new
  <2> DEFINE batch == <<req>>
  <2>3. batch \in Seq({req}) /\ DOMAIN batch = {1} /\ Len(batch) = 1 /\ batch[1] = req
    OBVIOUS
  <2>4. requests' = requests \o batch
    BY <2>1
  <2> HIDE DEF batch
  <2>5. /\ Len(requests) \in Nat /\ DOMAIN requests = 1 .. Len(requests)
        /\ DOMAIN requests' = 1 .. Len(requests) + 1
        /\ RequestsKept
        /\ \A u \in Fresh : u - Len(requests) \in {1} /\ requests'[u] = batch[u - Len(requests)]
    BY <2>3, <2>4, RequestsJoined DEF RequestsKept, Fresh
  <2>6. Fresh = {Len(requests) + 1}
    BY <2>5 DEF Fresh
  <2>7. \A u \in Fresh : requests'[u] = new
    BY <2>2, <2>3, <2>5
  <2> QED
    BY <1>0, <1>1, <1>3, <2>1, <2>5, <2>6, <2>7 DEF new
<1> QED
  BY <1>2, <1>3 DEF one

\* A step of nobody's call: it may renew the subscriptions there are.
Renews ==
  /\ UNCHANGED <<registry, filterIds, open>> /\ used'.calls = used.calls
  /\ \E batch : Renewal(batch) /\ requests' = requests \o batch

LEMMA RenewsDoes ==
  ASSUME Typed, Renews
  PROVE  /\ RequestsKept
         /\ \A u \in Fresh : LET r == requests'[u]
                             IN /\ r.group \in Mapped /\ r.group \in DOMAIN groups /\ r.rest = <<>> /\ r.call = 0
                                /\ r.step = Flag(groups[r.group].registeredIsLite)
<1>1. PICK batch : Renewal(batch) /\ requests' = requests \o batch
  BY DEF Renews
<1>2. CASE batch = <<>>
  <2>1. requests' = requests
    BY <1>1, <1>2, ConcatEmptySeq DEF Typed, MessagesOK
  <2> QED
    BY <2>1 DEF RequestsKept, Fresh
<1>3. ASSUME NEW order \in Orders, batch = Resubscriptions(order)
      PROVE  RequestsKept /\ \A u \in Fresh : \E i \in DOMAIN order : requests'[u] = batch[i]
  <2>1. RegistryOK
    BY DEF Typed
  <2>2. batch \in Seq(RequestSet(Len(groups)))
    BY <1>3, <2>1, ResubscriptionsType
  <2>3. DOMAIN batch = DOMAIN order
    BY <1>3 DEF Resubscriptions
  <2> QED
    BY SMTT(30), <1>1, <2>2, <2>3, RequestsJoined DEF RequestsKept, Fresh
<1>4. ASSUME NEW order \in Orders, batch = Resubscriptions(order), NEW i \in DOMAIN order
      PROVE  /\ batch[i].group = order[i] /\ order[i] \in Mapped /\ order[i] \in DOMAIN groups /\ batch[i].rest = <<>>
             /\ batch[i].call = 0 /\ batch[i].step = Flag(groups[order[i]].registeredIsLite)
  <2> DEFINE flag == Flag(groups[order[i]].registeredIsLite)
             steps == <<flag>>
  <2>1. batch[i] = Request(order[i], steps, 0)
    BY <1>4 DEF Resubscriptions
  <2> HIDE DEF flag
  <2>2. Head(steps) = flag /\ Tail(steps) = <<>>
    OBVIOUS
  <2> HIDE DEF steps
  <2>3. order[i] \in Mapped
    BY DEF Orders
  <2>4. order[i] \in DOMAIN groups
    BY <2>3, Lengths DEF Mapped, Typed
  <2> QED
    BY <2>1, <2>2, <2>3, <2>4 DEF Request, flag
<1>5. ASSUME NEW order \in Orders, batch = Resubscriptions(order), NEW u \in Fresh
      PROVE  LET r == requests'[u]
             IN /\ r.group \in Mapped /\ r.group \in DOMAIN groups /\ r.rest = <<>> /\ r.call = 0
                /\ r.step = Flag(groups[r.group].registeredIsLite)
  <2>1. PICK i \in DOMAIN order : requests'[u] = batch[i]
    BY <1>3, <1>5
  <2>2. /\ batch[i].group = order[i] /\ order[i] \in Mapped /\ order[i] \in DOMAIN groups /\ batch[i].rest = <<>>
        /\ batch[i].call = 0 /\ batch[i].step = Flag(groups[order[i]].registeredIsLite)
    BY <1>4, <1>5
  <2> QED
    BY <2>1, <2>2
<1>6. CASE \E order \in Orders : batch = Resubscriptions(order)
  BY <1>3, <1>5, <1>6
<1> QED
  BY <1>1, <1>2, <1>6 DEF Renewal

\* The end of a call with one request: it is answered.
LEMMA SettledDoes ==
  ASSUME Typed, \A u \in DOMAIN requests : requests[u].rest = <<>>, jobs # <<>>, SettledJob(Head(jobs))
  PROVE  LET u == Head(jobs).uid
         IN /\ u \in DOMAIN requests /\ requests' = requests
            /\ groups' = groups /\ used' = used
            /\ open' = {c \in open : c.call # requests[u].call}
            /\ IF requests[u].step = "unsub" THEN PostUnsubscribe(u) ELSE PostSubscribe(u)
<1>1. Head(jobs).uid \in DOMAIN requests
  <2>1. Head(jobs) \in JobSet(Len(requests), Len(streams)) /\ Head(jobs).do = "settled"
    BY JobTypes DEF Typed, SettledJob
  <2>2. DOMAIN requests = 1 .. Len(requests)
    BY LenProperties DEF Typed, MessagesOK
  <2> QED
    BY <2>1, <2>2 DEF JobSet
<1>2. requests' = requests \o <<>> /\ open' = {c \in open : c.call # requests[Head(jobs).uid].call}
  BY <1>1 DEF SettledJob, Send
<1>3. requests' = requests
  BY <1>2, ConcatEmptySeq DEF Typed, MessagesOK
<1> QED
  BY <1>1, <1>2, <1>3 DEF SettledJob

\* Every step is one of these.
LEMMA StepKinds ==
  ASSUME Typed, [Next]_vars
  PROVE  \/ \E t \in Targets, l \in Listeners, isLite \in Modes : AddListener(t, l, isLite)
         \/ \E t \in Targets, l \in Listeners : RemoveListener(t, l)
         \/ jobs # <<>> /\ SettledJob(Head(jobs))
         \/ Renews
<1>0. used \in [calls : Nat, drops : Nat, fails : Nat, timeouts : Nat]
  BY DEF Typed, OthersOK
<1>1. ASSUME UNCHANGED <<registry, filterIds, open>>, used'.calls = used.calls, requests' = requests
      PROVE  Renews
  <2>1. requests' = requests \o <<>> /\ Renewal(<<>>)
    BY <1>1, ConcatEmptySeq DEF Typed, MessagesOK, Renewal
  <2> QED
    BY <1>1, <2>1 DEF Renews
<1>2. CASE CloseEventStream \/ Failures \/ Answers \/ UNCHANGED vars
           \/ WriteJob(Head(jobs)) \/ DisconnectJob(Head(jobs)) \/ CloseJob(Head(jobs))
  BY <1>0, <1>1, <1>2 DEF CloseEventStream, Failures, Answers, vars, registry, ChannelDrop, StreamFail,
                ReadyTimeout, ServerReceive, HandleResponse, WriteJob, DisconnectJob, CloseJob
<1>3. CASE ChannelUp
  <2>1. UNCHANGED <<registry, filterIds, open, used>>
    BY <1>3 DEF ChannelUp, registry
  <2>2. PICK batch : Renewal(batch) /\ Send(batch, streamPromise, streams, jobs)
    BY <1>3, ChannelUpSends
  <2> QED
    BY <2>1, <2>2 DEF Renews, Send
<1>4. ASSUME NEW s \in DOMAIN streams, StreamError(s) PROVE Renews
  <2>1. UNCHANGED <<registry, filterIds, open, used>>
    BY <1>4 DEF StreamError, registry
  <2>2. PICK batch, current : Renewal(batch) /\ Send(batch, current, Reported(s), jobs)
    BY <1>4, StreamErrorRenews
  <2> QED
    BY <2>1, <2>2 DEF Renews, Send
<1>5. ASSUME NEW s \in DOMAIN streams, StreamReady(s) \/ StreamEnd(s) PROVE Renews
  <2>1. /\ UNCHANGED <<registry, filterIds, open>> /\ used'.calls = used.calls
        /\ requests' = requests
    BY <1>5 DEF StreamReady, StreamEnd
  <2> QED
    BY <1>1, <2>1
<1> QED
  BY <1>2, <1>3, <1>4, <1>5 DEF Next, Application, StreamChanges, RunJob

\* Every request is the only one of its call; a subscription that is renewed is
\* of no call.
RequestsFit ==
  /\ \A u \in DOMAIN requests : LET r == requests[u]
                                IN r.rest = <<>> /\ r.call \in 0 .. used.calls /\ (r.step = "unsub" => r.call # 0)
  /\ \A u, v \in DOMAIN requests : u # v /\ requests[u].call = requests[v].call => requests[u].call = 0

GroupsUniform == \A g \in DOMAIN groups : Uniform(groups[g])

\* Where listeners want values, nobody subscribes as lite.
NoneLite ==
  FALSE \in Modes => /\ \A g \in DOMAIN groups : ~groups[g].registeredIsLite
                     /\ \A u \in DOMAIN requests : requests[u].step # "lite"

ModeInv == RequestsFit /\ GroupsUniform /\ NoneLite

LEMMA AddedNotLite ==
  ASSUME NEW grp \in Group, NEW l \in Listeners,
         ~grp.registeredIsLite \/ Registered(grp) = {}
  PROVE  ~Added(grp, l, FALSE).registeredIsLite
<1>1. CASE IsNews(grp, l, FALSE)
  <2>1. Added(grp, l, FALSE).registeredIsLite = IF NeedsRegistration(grp, l, FALSE) THEN FALSE ELSE grp.registeredIsLite
    BY <1>1 DEF Added, Group
  <2> QED
    BY <2>1 DEF NeedsRegistration
<1>2. CASE ~IsNews(grp, l, FALSE)
  <2>1. l \in Registered(grp) /\ Added(grp, l, FALSE) = grp
    BY <1>2 DEF IsNews, Added, Flag, Registered
  <2> QED
    BY <2>1
<1> QED
  BY <1>1, <1>2

LEMMA CallFits ==
  ASSUME Typed, RequestsFit, NEW t, NEW g, NEW step, NEW steps, steps = <<>> \/ steps = <<step>>,
         Call(t, g, steps)
  PROVE  /\ RequestsFit'
         /\ \A u \in DOMAIN requests' : \/ u \in DOMAIN requests /\ requests'[u] = requests[u]
                                        \/ steps # <<>> /\ requests'[u].step = step
<1>1. /\ used' = [used EXCEPT !.calls = used.calls + 1] /\ RequestsKept
      /\ steps = <<>> => Fresh = {}
      /\ steps # <<>> =>
           /\ Fresh = {Len(requests) + 1}
           /\ \A u \in Fresh : requests'[u] = [group |-> g, step |-> step, rest |-> <<>>, call |-> used.calls + 1]
  BY CallDoes
<1>2. used \in [calls : Nat, drops : Nat, fails : Nat, timeouts : Nat]
  BY DEF Typed, OthersOK
<1>3. used.calls \in Nat /\ used'.calls = used.calls + 1
  BY <1>1, <1>2
<1> DEFINE n == used.calls
<1> HIDE DEF n
<1>4. n \in Nat /\ used'.calls = n + 1
  BY <1>3 DEF n
<1>5. \A u \in DOMAIN requests : u \in DOMAIN requests' /\ requests'[u] = requests[u]
  BY <1>1 DEF RequestsKept
<1>6. \A u \in DOMAIN requests' : u \in DOMAIN requests \/ u \in Fresh
  BY DEF Fresh
<1>7. ASSUME NEW u \in Fresh
      PROVE  /\ requests'[u].step = step /\ requests'[u].rest = <<>> /\ requests'[u].call = n + 1 /\ steps # <<>>
             /\ \A v \in Fresh : v = u
  <2>1. steps # <<>>
    BY <1>1
  <2>2. requests'[u] = [group |-> g, step |-> step, rest |-> <<>>, call |-> used.calls + 1] /\ \A v \in Fresh : v = u
    BY <1>1, <2>1
  <2> QED
    BY <2>1, <2>2 DEF n
<1>8. ASSUME NEW u \in DOMAIN requests
      PROVE  LET r == requests[u] IN r.rest = <<>> /\ r.call \in 0 .. n /\ (r.step = "unsub" => r.call # 0)
  BY DEF RequestsFit, n
<1>9. ASSUME NEW u \in DOMAIN requests'
      PROVE  LET r == requests'[u] IN r.rest = <<>> /\ r.call \in 0 .. n + 1 /\ (r.step = "unsub" => r.call # 0)
  <2>1. CASE u \in DOMAIN requests
    BY <1>4, <1>5, <1>8, <2>1
  <2>2. CASE u \in Fresh
    BY <1>4, <1>7, <2>2
  <2> QED
    BY <1>6, <2>1, <2>2
<1>10. ASSUME NEW u \in DOMAIN requests', NEW v \in DOMAIN requests', u # v, requests'[u].call = requests'[v].call
       PROVE  requests'[u].call = 0
  <2>1. CASE u \in DOMAIN requests /\ v \in DOMAIN requests
    BY <1>5, <1>10, <2>1 DEF RequestsFit
  <2>2. CASE u \in Fresh /\ v \in Fresh
    BY <1>7, <1>10, <2>2
  <2>3. CASE u \in DOMAIN requests /\ v \in Fresh
    BY <1>4, <1>5, <1>7, <1>8, <1>10, <2>3
  <2>4. CASE v \in DOMAIN requests /\ u \in Fresh
    BY <1>4, <1>5, <1>7, <1>8, <1>10, <2>4
  <2> QED
    BY <1>6, <2>1, <2>2, <2>3, <2>4
<1>11. RequestsFit'
  BY <1>4, <1>9, <1>10 DEF RequestsFit
<1> QED
  BY <1>5, <1>6, <1>7, <1>11

\* What a listener call asks for, with one mode.
LEMMA AddListenerMode ==
  ASSUME OneMode, Typed, GroupsInv, GroupsUniform,
         NEW t \in Targets, NEW l \in Listeners, NEW isLite \in Modes, AddListener(t, l, isLite)
  PROVE  LET known == groupOf[t] # 0
             g     == IF known THEN groupOf[t] ELSE Len(groups) + 1
             grp   == IF known THEN groups[g] ELSE NewGroup(t)
         IN /\ AddSteps(grp, l, isLite) \in {<<>>, <<Flag(isLite)>>}
            /\ Uniform(Added(grp, l, isLite))
<1> DEFINE known == groupOf[t] # 0
           g     == IF known THEN groupOf[t] ELSE Len(groups) + 1
           grp   == IF known THEN groups[g] ELSE NewGroup(t)
<1>1. isLite \in BOOLEAN
  BY BoundsAssumption
<1>2. grp \in Group /\ (known <=> g \in DOMAIN groups)
  BY <1>1, AddListenerDoes
<1>3. Uniform(grp) /\ LiteMeansLite(grp)
  <2>1. CASE known
    BY <1>2, <2>1 DEF GroupsInv, GroupsUniform
  <2>2. CASE ~known
    <3>1. Registered(NewGroup(t)) = {}
      BY DEF NewGroup, Registered
    <3> QED
      BY <2>2, <3>1, NewGroupFacts DEF Uniform
  <2> QED
    BY <2>1, <2>2
<1> HIDE DEF grp
<1>4. /\ AddSteps(grp, l, isLite) \in {<<>>, <<Flag(isLite)>>}
      /\ Uniform(Added(grp, l, isLite))
  BY <1>2, <1>3, AddStepsOne
<1> QED
  BY <1>4 DEF grp

LEMMA AddListenerKeepsMode ==
  ASSUME OneMode, Typed, GroupsInv, ModeInv,
         NEW t \in Targets, NEW l \in Listeners, NEW isLite \in Modes, AddListener(t, l, isLite)
  PROVE  ModeInv'
<1> DEFINE known == groupOf[t] # 0
           g     == IF known THEN groupOf[t] ELSE Len(groups) + 1
           grp   == IF known THEN groups[g] ELSE NewGroup(t)
           new   == Added(grp, l, isLite)
           steps == AddSteps(grp, l, isLite)
           step  == Flag(isLite)
<1>1. isLite \in BOOLEAN
  BY BoundsAssumption
<1>2. /\ grp \in Group
      /\ \A h \in DOMAIN groups' : groups'[h] = IF h = g THEN new ELSE groups[h]
      /\ DOMAIN groups = 1 .. Len(groups) /\ (known <=> g \in DOMAIN groups)
      /\ DOMAIN groups' = IF known THEN 1 .. Len(groups) ELSE 1 .. Len(groups) + 1
      /\ Call(t, g, steps)
  BY <1>1, AddListenerDoes
<1>3. steps \in {<<>>, <<step>>} /\ Uniform(new)
  BY AddListenerMode DEF ModeInv
<1>4. Len(groups) \in Nat
  BY Lengths DEF Typed
<1>5. \A h \in DOMAIN groups' : h # g => h \in DOMAIN groups /\ groups'[h] = groups[h]
  BY <1>2, <1>4
<1>6. FALSE \in Modes => step # "lite" /\ ~new.registeredIsLite
  <2> SUFFICES ASSUME FALSE \in Modes PROVE step # "lite" /\ ~new.registeredIsLite
    OBVIOUS
  <2>1. isLite = FALSE
    BY DEF OneMode
  <2>2. ~grp.registeredIsLite \/ Registered(grp) = {}
    <3>1. CASE known
      BY <1>2, <3>1 DEF ModeInv, NoneLite
    <3>2. CASE ~known
      BY <3>2 DEF NewGroup, Registered
    <3> QED
      BY <3>1, <3>2
  <2> HIDE DEF grp
  <2>3. ~Added(grp, l, FALSE).registeredIsLite
    BY <1>2, <2>2, AddedNotLite
  <2> QED
    BY <2>1, <2>3 DEF Flag
<1> HIDE DEF g, new, steps, step, known
<1>7. GroupsUniform'
  BY <1>2, <1>3, <1>5 DEF GroupsUniform, ModeInv
<1>8. /\ RequestsFit'
      /\ \A u \in DOMAIN requests' : \/ u \in DOMAIN requests /\ requests'[u] = requests[u]
                                     \/ requests'[u].step = step
  BY <1>2, <1>3, CallFits DEF ModeInv
<1>9. NoneLite'
  BY <1>2, <1>5, <1>6, <1>8 DEF NoneLite, ModeInv
<1> QED
  BY <1>7, <1>8, <1>9 DEF ModeInv

LEMMA RemoveListenerKeepsMode ==
  ASSUME OneMode, Typed, GroupsInv, ModeInv,
         NEW t \in Targets, NEW l \in Listeners, RemoveListener(t, l)
  PROVE  ModeInv'
<1> DEFINE g     == FoundForRemoval(t)
           new   == Removed(groups[g], l)
           steps == RemoveSteps(groups[g], l)
           step  == "unsub"
<1>1. /\ DOMAIN groups' = DOMAIN groups
      /\ g = 0 => groups' = groups /\ Call(t, g, <<>>)
      /\ g # 0 => /\ g \in DOMAIN groups /\ groups[g] \in Group
                  /\ \A h \in DOMAIN groups : groups'[h] = IF h = g THEN new ELSE groups[h]
                  /\ Call(t, g, steps)
  BY RemoveListenerDoes
<1>2. g # 0 => /\ steps # <<>> => steps = <<step>>
               /\ Uniform(new) /\ new.registeredIsLite = groups[g].registeredIsLite
  <2>1. ASSUME g # 0 PROVE Uniform(groups[g]) /\ CountBounds(groups[g])
    BY <1>1, <2>1 DEF GroupsInv, ModeInv, GroupsUniform
  <2>2. g # 0 => new.registeredIsLite = groups[g].registeredIsLite
    BY <1>1 DEF Removed, Group
  <2> HIDE DEF g
  <2> QED
    BY <1>1, <2>1, <2>2, RemoveStepsOne
<1> HIDE DEF g, new, steps
<1>3. PICK ss : (ss = <<>> \/ ss = <<step>>) /\ Call(t, g, ss)
  BY <1>1, <1>2
<1>4. step # "lite"
  OBVIOUS
<1> HIDE DEF step
<1>5. /\ RequestsFit'
      /\ \A u \in DOMAIN requests' : \/ u \in DOMAIN requests /\ requests'[u] = requests[u]
                                     \/ requests'[u].step = step
  BY <1>3, CallFits DEF ModeInv
<1>6. GroupsUniform'
  BY <1>1, <1>2 DEF GroupsUniform, ModeInv
<1>7. NoneLite'
  BY <1>1, <1>2, <1>4, <1>5 DEF NoneLite, ModeInv
<1> QED
  BY <1>5, <1>6, <1>7 DEF ModeInv

LEMMA RenewsKeepsMode ==
  ASSUME OneMode, Typed, ModeInv, Renews
  PROVE  ModeInv'
<1>1. /\ RequestsKept
      /\ \A u \in Fresh : LET r == requests'[u]
                          IN /\ r.group \in DOMAIN groups /\ r.rest = <<>> /\ r.call = 0
                             /\ r.step = Flag(groups[r.group].registeredIsLite)
  BY RenewsDoes
<1>2. groups' = groups /\ used'.calls = used.calls /\ used.calls \in Nat
  BY DEF Renews, registry, Typed, OthersOK
<1>3. \A u \in DOMAIN requests' : (u \in DOMAIN requests /\ requests'[u] = requests[u]) \/ u \in Fresh
  BY <1>1 DEF Fresh, RequestsKept
<1>4. ASSUME NEW u \in Fresh
      PROVE  /\ requests'[u].rest = <<>> /\ requests'[u].call = 0 /\ requests'[u].step # "unsub"
             /\ FALSE \in Modes => requests'[u].step # "lite"
  <2> DEFINE r    == requests'[u]
             flag == groups[r.group].registeredIsLite
  <2>1. /\ r.group \in DOMAIN groups /\ r.rest = <<>> /\ r.call = 0 /\ r.step = Flag(flag)
    BY <1>1
  <2>2. FALSE \in Modes => ~flag
    BY <2>1 DEF ModeInv, NoneLite
  <2> QED
    BY <2>1, <2>2 DEF Flag
<1>5. RequestsFit'
  <2>1. ASSUME NEW u \in DOMAIN requests'
        PROVE  LET r == requests'[u]
               IN r.rest = <<>> /\ r.call \in 0 .. used.calls /\ (r.step = "unsub" => r.call # 0)
    <3>1. CASE u \in DOMAIN requests /\ requests'[u] = requests[u]
      BY <3>1 DEF ModeInv, RequestsFit
    <3>2. CASE u \in Fresh
      <4>1. 0 \in 0 .. used.calls
        BY <1>2
      <4>2. requests'[u].rest = <<>> /\ requests'[u].call = 0 /\ requests'[u].step # "unsub"
        BY <1>4, <3>2
      <4> QED
        BY <4>1, <4>2
    <3> QED
      BY <1>3, <3>1, <3>2
  <2>2. ASSUME NEW u \in DOMAIN requests', NEW v \in DOMAIN requests', u # v,
               requests'[u].call = requests'[v].call
        PROVE  requests'[u].call = 0
    <3>1. CASE /\ u \in DOMAIN requests /\ requests'[u] = requests[u]
               /\ v \in DOMAIN requests /\ requests'[v] = requests[v]
      BY <2>2, <3>1 DEF ModeInv, RequestsFit
    <3>2. CASE u \in Fresh \/ v \in Fresh
      BY <1>4, <2>2, <3>2
    <3> QED
      BY <1>3, <3>1, <3>2
  <2> QED
    BY <1>2, <2>1, <2>2 DEF RequestsFit
<1>6. NoneLite'
  BY <1>2, <1>3, <1>4 DEF NoneLite, ModeInv
<1> QED
  BY <1>2, <1>5, <1>6 DEF ModeInv, GroupsUniform

LEMMA NextMode ==
  ASSUME OneMode
  PROVE  Typed /\ GroupsInv /\ ModeInv /\ [Next]_vars => ModeInv'
<1> SUFFICES ASSUME Typed, GroupsInv, ModeInv, [Next]_vars PROVE ModeInv'
  OBVIOUS
<1>1. CASE jobs # <<>> /\ SettledJob(Head(jobs))
  <2>1. \A u \in DOMAIN requests : requests[u].rest = <<>>
    BY DEF ModeInv, RequestsFit
  <2>2. requests' = requests /\ groups' = groups /\ used' = used
    BY <1>1, <2>1, SettledDoes
  <2> QED
    BY <2>2 DEF ModeInv, RequestsFit, GroupsUniform, NoneLite
<1> QED
  BY <1>1, StepKinds, AddListenerKeepsMode, RemoveListenerKeepsMode, RenewsKeepsMode

LEMMA InitMode == Init => ModeInv
  BY DEF Init, ModeInv, RequestsFit, GroupsUniform, NoneLite

----------------------------------------------------------------------------
(* What the proxy holds for a target is a subscription of that target.     *)

SubsFit ==
  \A s \in DOMAIN streams, t \in Targets :
    LET u == streams[s].subs[t]
    IN u # 0 => u \in DOMAIN requests /\ Target(u) = t /\ requests[u].step # "unsub"

\* A stream's subscription to t is the one there was, and its answers have
\* still to be handled.
SameSub(str, new, t) == new.subs[t] = str.subs[t] /\ new.toClient = str.toClient

\* Subscriptions are those there were, or gone.
Fewer(strs, new) ==
  \A s \in DOMAIN new, t \in Targets :
    new[s].subs[t] = 0 \/ (s \in DOMAIN strs /\ SameSub(strs[s], new[s], t))

LEMMA SameFewer ==
  ASSUME NEW strs, NEW all, NEW new, Fewer(strs, all), DOMAIN new = DOMAIN all,
         \A x \in DOMAIN all : SameButWaiters(all[x], new[x])
  PROVE  Fewer(strs, new)
  BY DEF Fewer, SameSub, SameButWaiters

LEMMA BrokenFewer ==
  ASSUME NEW str \in SomeStream
  PROVE  (\A t \in Targets : Broken(str).subs[t] = 0) \/ Broken(str) = str
<1>1. \A t \in Targets : NoSubscriptions[t] = 0
  BY DEF NoSubscriptions
<1> QED
  BY <1>1 DEF Broken, SomeStream

LEMMA SendFewer ==
  ASSUME Typed, NEW B, NEW batch \in Seq(B), NEW strs \in Seq(SomeStream), NEW queue \in Seq(SomeJob),
         NEW current \in 0 .. Len(strs), Send(batch, current, strs, queue), Fewer(streams, strs)
  PROVE  Fewer(streams, streams')
<1>0. Len(requests) \in Nat
  BY SomeShape
<1>1. CASE batch = <<>>
  BY <1>0, <1>1, SendDoes
<1>2. CASE batch # <<>>
  <2> DEFINE all == Ensuring(current, strs)
             n   == Len(strs)
  <2>1. DOMAIN streams' = 1 .. Len(all) /\ \A x \in 1 .. Len(all) : SameButWaiters(all[x], streams'[x])
    BY <1>0, <1>2, SendDoes
  <2>2. /\ Len(all) = (IF current = 0 THEN n + 1 ELSE n) /\ \A x \in 1 .. n : all[x] = strs[x]
        /\ current = 0 => all[n + 1] = NewStream
        /\ all \in Seq(SomeStream)
    BY EnsuringDoes
  <2>3. n \in Nat /\ DOMAIN strs = 1 .. n /\ DOMAIN all = 1 .. Len(all)
    BY <2>2, LenProperties
  <2>4. \A t \in Targets : NewStream.subs[t] = 0
    BY NewStreamIs DEF NoSubscriptions
  <2> HIDE DEF all, n
  <2>5. \A x \in DOMAIN all : (x \in DOMAIN strs /\ all[x] = strs[x]) \/ all[x] = NewStream
    BY <2>2, <2>3
  <2>6. ASSUME NEW x \in DOMAIN all, NEW t \in Targets
        PROVE  all[x].subs[t] = 0 \/ (x \in DOMAIN streams /\ SameSub(streams[x], all[x], t))
    <3>1. CASE x \in DOMAIN strs /\ all[x] = strs[x]
      BY <3>1 DEF Fewer
    <3>2. CASE all[x] = NewStream
      BY <2>4, <3>2
    <3> QED
      BY <2>5, <3>1, <3>2
  <2>7. Fewer(streams, all)
    BY <2>6 DEF Fewer
  <2> QED
    BY <2>1, <2>3, <2>7, SameFewer
<1> QED
  BY <1>1, <1>2

LEMMA SameStreamsFewer ==
  Fewer(streams, streams)
  BY DEF Fewer, SameSub

LEMMA FewSubs ==
  ASSUME DOMAIN streams' = DOMAIN streams,
         \A x \in DOMAIN streams, t \in Targets :
           streams'[x].subs[t] = 0 \/ SameSub(streams[x], streams'[x], t)
  PROVE  Fewer(streams, streams')
  BY DEF Fewer

LEMMA BrokenOrSameFewer ==
  ASSUME DOMAIN streams' = DOMAIN streams, \A x \in DOMAIN streams : streams[x] \in SomeStream,
         \A x \in DOMAIN streams : streams'[x] = streams[x] \/ streams'[x] = Broken(streams[x])
  PROVE  Fewer(streams, streams')
<1>1. ASSUME NEW x \in DOMAIN streams, NEW t \in Targets
      PROVE  streams'[x].subs[t] = 0 \/ SameSub(streams[x], streams'[x], t)
  <2>1. (Broken(streams[x]).subs[t] = 0) \/ Broken(streams[x]) = streams[x]
    BY <1>1, BrokenFewer
  <2> QED
    BY <1>1, <2>1 DEF SameSub
<1> QED
  BY <1>1, FewSubs

LEMMA RenewalFewer ==
  ASSUME Typed, NEW batch, Renewal(batch), NEW strs \in Seq(SomeStream),
         NEW current \in 0 .. Len(strs), Send(batch, current, strs, jobs), Fewer(streams, strs)
  PROVE  Fewer(streams, streams')
<1>1. batch \in Seq(RequestSet(Len(groups)))
  BY RenewalType
<1>2. jobs \in Seq(SomeJob)
  BY SomeShape
<1> QED
  BY <1>1, <1>2, SendFewer

LEMMA ListenerCallFewer ==
  ASSUME Typed, NEW t, NEW l, NEW isLite, AddListener(t, l, isLite) \/ RemoveListener(t, l)
  PROVE  Fewer(streams, streams')
<1>1. \E g, steps : Call(t, g, steps)
  BY DEF AddListener, RemoveListener
<1>2. PICK B : \E batch \in Seq(B) : Send(batch, streamPromise, streams, jobs)
  BY <1>1, CallSends
<1>3. PICK batch \in Seq(B) : Send(batch, streamPromise, streams, jobs)
  BY <1>2
<1>4. streams \in Seq(SomeStream) /\ jobs \in Seq(SomeJob) /\ streamPromise \in 0 .. Len(streams)
  BY SomeShape
<1> QED
  BY <1>3, <1>4, SendFewer, SameStreamsFewer

LEMMA JobFewer ==
  ASSUME Typed, RunJob
  PROVE  Fewer(streams, streams')
<1> DEFINE job == Head(jobs)
<1>1. /\ jobs \in Seq(SomeJob) /\ Tail(jobs) \in Seq(SomeJob) /\ job \in SomeJob /\ jobs # <<>>
      /\ streams \in Seq(SomeStream) /\ streamPromise \in 0 .. Len(streams)
      /\ DOMAIN streams = 1 .. Len(streams) /\ \A x \in DOMAIN streams : streams[x] \in SomeStream
  BY SomeShape, RangeOfTail DEF RunJob
<1>2. CASE WriteJob(job)
  <2> DEFINE v   == job.via
             new == [streams[v] EXCEPT !.toServer = Append(@, job.uid)]
  <2>1. streams' = streams \/ streams' = [streams EXCEPT ![v] = new]
    BY <1>2 DEF WriteJob
  <2>2. job.uid \in Nat
    BY <1>1 DEF SomeJob
  <2>3. v \in DOMAIN streams => new.subs = streams[v].subs /\ new.toClient = streams[v].toClient
    BY <1>1, <2>2, StreamWritten
  <2> HIDE DEF new, v
  <2>4. /\ DOMAIN streams' = DOMAIN streams
        /\ \A x \in DOMAIN streams : \A t \in Targets : SameSub(streams[x], streams'[x], t)
    BY <2>1, <2>3 DEF SameSub
  <2> QED
    BY <2>4, FewSubs
<1>3. CASE SettledJob(job)
  <2>1. \E B : \E batch \in Seq(B) : Send(batch, streamPromise, streams, Tail(jobs))
    <3> DEFINE r   == requests[job.uid]
               req == Request(r.group, r.rest, r.call)
    <3>1. Send(<<req>>, streamPromise, streams, Tail(jobs)) \/ Send(<<>>, streamPromise, streams, Tail(jobs))
      BY <1>3 DEF SettledJob
    <3> HIDE DEF req
    <3>2. <<req>> \in Seq({req}) /\ <<>> \in Seq({req})
      OBVIOUS
    <3> QED
      BY <3>1, <3>2
  <2>2. PICK B : \E batch \in Seq(B) : Send(batch, streamPromise, streams, Tail(jobs))
    BY <2>1
  <2>3. PICK batch \in Seq(B) : Send(batch, streamPromise, streams, Tail(jobs))
    BY <2>2
  <2> QED
    BY <1>1, <2>3, SendFewer, SameStreamsFewer
<1>4. CASE DisconnectJob(job)
  <2>1. /\ DOMAIN streams' = DOMAIN streams
        /\ \A x \in DOMAIN streams : streams'[x] = streams[x] \/ streams'[x] = Broken(streams[x])
    BY <1>4 DEF DisconnectJob
  <2> QED
    BY <1>1, <2>1, BrokenOrSameFewer
<1>5. CASE CloseJob(job)
  <2> DEFINE v   == job.via
             new == [streams[v] EXCEPT !.wire = "ended"]
  <2>1. streams' = streams \/ streams' = [streams EXCEPT ![v] = new]
    BY <1>5 DEF CloseJob
  <2>2. v \in DOMAIN streams => new.subs = streams[v].subs /\ new.toClient = streams[v].toClient
    BY <1>1, StreamEnded
  <2> HIDE DEF new, v
  <2>3. /\ DOMAIN streams' = DOMAIN streams
        /\ \A x \in DOMAIN streams : \A t \in Targets : SameSub(streams[x], streams'[x], t)
    BY <2>1, <2>2 DEF SameSub
  <2> QED
    BY <2>3, FewSubs
<1> QED
  BY <1>2, <1>3, <1>4, <1>5 DEF RunJob

LEMMA StreamFewer ==
  ASSUME Typed, NEW s \in DOMAIN streams,
         StreamReady(s) \/ StreamFail(s) \/ StreamEnd(s)
  PROVE  Fewer(streams, streams')
<1>1. /\ streams \in Seq(SomeStream) /\ DOMAIN streams = 1 .. Len(streams) /\ s \in 1 .. Len(streams)
      /\ \A x \in DOMAIN streams : streams[x] \in SomeStream
  BY SomeShape
<1>2. CASE StreamReady(s)
  <2>1. /\ DOMAIN streams' = DOMAIN streams
        /\ \A x \in DOMAIN streams : /\ streams'[x].subs = streams[x].subs
                                     /\ streams'[x].toClient = streams[x].toClient
    BY <1>1, <1>2 DEF StreamReady, SomeStream
  <2> QED
    BY <2>1, FewSubs DEF SameSub
<1>3. CASE StreamFail(s)
  <2>1. /\ DOMAIN streams' = DOMAIN streams
        /\ \A x \in DOMAIN streams : streams'[x] = streams[x] \/ streams'[x] = Broken(streams[x])
    BY <1>3 DEF StreamFail
  <2> QED
    BY <1>1, <2>1, BrokenOrSameFewer
<1>4. CASE StreamEnd(s)
  <2>1. /\ DOMAIN streams' = DOMAIN streams
        /\ \A x \in DOMAIN streams : streams'[x] = streams[x] \/ streams'[x].subs = NoSubscriptions
    BY <1>1, <1>4 DEF StreamEnd, SomeStream
  <2>2. \A t \in Targets : NoSubscriptions[t] = 0
    BY DEF NoSubscriptions
  <2> QED
    BY <2>1, <2>2, FewSubs DEF SameSub
<1> QED
  BY <1>2, <1>3, <1>4

LEMMA ReadyTimeoutFewer ==
  ASSUME Typed, NEW s \in DOMAIN streams, ReadyTimeout(s)
  PROVE  Fewer(streams, streams')
<1> DEFINE new    == [streams[s] EXCEPT !.promise = "null", !.wire = "open", !.waiters = <<>>]
           opened == [streams EXCEPT ![s] = new]
<1>1. /\ streams \in Seq(SomeStream) /\ DOMAIN streams = 1 .. Len(streams) /\ s \in 1 .. Len(streams)
      /\ streams[s] \in SomeStream /\ Len(streams) \in Nat
  BY SomeShape
<1>2. streams' = opened \/ streams' = Append(opened, NewStream)
  BY <1>1 DEF ReadyTimeout
<1>3. new.subs = streams[s].subs /\ new.toClient = streams[s].toClient /\ new \in SomeStream
  <2>1. <<>> \in Seq(SomeJob)
    OBVIOUS
  <2> QED
    BY <1>1, <2>1 DEF SomeStream
<1> HIDE DEF new
<1>4. /\ opened \in Seq(SomeStream) /\ Len(opened) = Len(streams) /\ DOMAIN opened = DOMAIN streams
      /\ \A x \in DOMAIN streams : \A t \in Targets : SameSub(streams[x], opened[x], t)
  BY <1>1, <1>3, OneReplaced DEF SameSub
<1> HIDE DEF opened
<1>5. \A t \in Targets : NewStream.subs[t] = 0
  BY NewStreamIs DEF NoSubscriptions
<1>6. ASSUME NEW x \in DOMAIN streams' PROVE (x \in DOMAIN opened /\ streams'[x] = opened[x]) \/ streams'[x] = NewStream
  <2>1. CASE streams' = opened
    BY <1>6, <2>1
  <2>2. CASE streams' = Append(opened, NewStream)
    <3>1. DOMAIN streams' = 1 .. Len(streams) + 1
      BY <1>1, <1>4, <2>2, NewStreamIs, AppendProperties
    <3>2. x \in 1 .. Len(streams) \/ x = Len(streams) + 1
      BY <1>1, <1>6, <3>1
    <3> QED
      BY <1>1, <1>4, <2>2, <3>2, NewStreamIs, AppendProperties
  <2> QED
    BY <1>2, <2>1, <2>2
<1>7. ASSUME NEW x \in DOMAIN streams', NEW t \in Targets
      PROVE  streams'[x].subs[t] = 0 \/ (x \in DOMAIN streams /\ SameSub(streams[x], streams'[x], t))
  <2>1. CASE x \in DOMAIN opened /\ streams'[x] = opened[x]
    BY <1>4, <2>1
  <2>2. CASE streams'[x] = NewStream
    BY <1>5, <2>2
  <2> QED
    BY <1>6, <2>1, <2>2
<1> QED
  BY <1>7 DEF Fewer

LEMMA AwaitingFewer ==
  ASSUME Typed, NEW strs \in Seq(SomeStream), DOMAIN strs = DOMAIN streams, Fewer(streams, strs),
         NEW s \in 1 .. Len(strs), NEW job \in SomeJob, Awaiting(s, <<job>>, strs, jobs)
  PROVE  Fewer(streams, streams')
<1> DEFINE js == <<job>>
<1>1. js \in Seq(SomeJob) /\ jobs \in Seq(SomeJob) /\ DOMAIN strs = 1 .. Len(strs)
  BY SomeShape, LenProperties
<1> HIDE DEF js
<1>2. Awaiting(s, js, strs, jobs)
  BY DEF js
<1>3. DOMAIN streams' = DOMAIN strs /\ \A x \in DOMAIN strs : SameButWaiters(strs[x], streams'[x])
  BY <1>1, <1>2, AwaitingDoes
<1> QED
  BY <1>3, SameFewer

LEMMA WaitFewer ==
  ASSUME Typed, ChannelDrop \/ CloseEventStream
  PROVE  Fewer(streams, streams')
<1>1. /\ streams \in Seq(SomeStream) /\ streamPromise \in 0 .. Len(streams) /\ Len(streams) \in Nat
      /\ \A x \in DOMAIN streams : streams[x] \in SomeStream
  BY SomeShape
<1>2. CASE ChannelDrop
  <2> DEFINE job == Job("disconnect", 0, streamPromise)
  <2>1. job \in SomeJob
    BY <1>1 DEF Job, SomeJob
  <2>2. \/ streams' = AllBroken
        \/ streamPromise # 0 /\ Awaiting(streamPromise, <<job>>, AllBroken, jobs)
    BY <1>2 DEF ChannelDrop, AllBroken
  <2> HIDE DEF job
  <2>3. /\ AllBroken \in Seq(SomeStream) /\ Len(AllBroken) = Len(streams) /\ DOMAIN AllBroken = DOMAIN streams
        /\ \A x \in DOMAIN streams : AllBroken[x] = Broken(streams[x])
    BY AllBrokenIs
  <2>4. ASSUME NEW x \in DOMAIN AllBroken, NEW t \in Targets
        PROVE  AllBroken[x].subs[t] = 0 \/ (x \in DOMAIN streams /\ SameSub(streams[x], AllBroken[x], t))
    BY <1>1, <2>3, BrokenFewer DEF SameSub
  <2>5. Fewer(streams, AllBroken)
    BY <2>4 DEF Fewer
  <2>6. streamPromise # 0 => streamPromise \in 1 .. Len(AllBroken)
    BY <1>1, <2>3
  <2> HIDE DEF AllBroken
  <2> QED
    BY <2>1, <2>2, <2>3, <2>5, <2>6, AwaitingFewer
<1>3. CASE CloseEventStream
  <2> DEFINE job == Job("close", 0, streamPromise)
  <2>1. job \in SomeJob
    BY <1>1 DEF Job, SomeJob
  <2>2. \/ streams' = streams
        \/ streamPromise # 0 /\ Awaiting(streamPromise, <<job>>, streams, jobs)
    BY <1>3 DEF CloseEventStream
  <2> HIDE DEF job
  <2>3. streamPromise # 0 => streamPromise \in 1 .. Len(streams)
    BY <1>1
  <2> QED
    BY <1>1, <2>1, <2>2, <2>3, AwaitingFewer, SameStreamsFewer
<1> QED
  BY <1>2, <1>3

LEMMA RenewalsFewer ==
  ASSUME Typed, ChannelUp \/ \E s \in DOMAIN streams : StreamError(s)
  PROVE  Fewer(streams, streams')
<1>1. /\ streams \in Seq(SomeStream) /\ streamPromise \in 0 .. Len(streams) /\ Len(streams) \in Nat
      /\ \A x \in DOMAIN streams : streams[x] \in SomeStream
  BY SomeShape
<1>2. CASE ChannelUp
  <2>1. PICK batch : Renewal(batch) /\ Send(batch, streamPromise, streams, jobs)
    BY <1>2, ChannelUpSends
  <2> QED
    BY <1>1, <2>1, RenewalFewer, SameStreamsFewer
<1>3. ASSUME NEW s \in DOMAIN streams, StreamError(s) PROVE Fewer(streams, streams')
  <2>1. PICK batch, current : /\ Renewal(batch) /\ current \in {0, streamPromise}
                              /\ Send(batch, current, Reported(s), jobs)
    BY <1>3, StreamErrorRenews
  <2>2. /\ Reported(s) \in Seq(SomeStream) /\ Len(Reported(s)) = Len(streams) /\ DOMAIN Reported(s) = DOMAIN streams
        /\ \A x \in DOMAIN streams : \A t \in Targets : SameSub(streams[x], Reported(s)[x], t)
    <3> DEFINE new == [streams[s] EXCEPT !.wire = "dead"]
    <3>1. new.subs = streams[s].subs /\ new.toClient = streams[s].toClient
      BY <1>1 DEF SomeStream
    <3>2. Reported(s)[s] = new /\ \A x \in DOMAIN streams : x # s => Reported(s)[x] = streams[x]
      BY ReportedIs
    <3> HIDE DEF new
    <3>3. \A x \in DOMAIN streams : \A t \in Targets : SameSub(streams[x], Reported(s)[x], t)
      BY <3>1, <3>2 DEF SameSub
    <3> QED
      BY <3>3, ReportedIs
  <2>3. current \in 0 .. Len(Reported(s))
    BY <1>1, <2>1, <2>2
  <2>4. Fewer(streams, Reported(s))
    BY <2>2 DEF Fewer
  <2> QED
    BY <2>1, <2>2, <2>3, <2>4, RenewalFewer
<1> QED
  BY <1>2, <1>3

\* Only the proxy makes a subscription, and the client handles the answer.
LEMMA StepsFewer ==
  ASSUME Typed, [Next]_vars
  PROVE  Fewer(streams, streams') \/ \E s \in DOMAIN streams : ServerReceive(s) \/ HandleResponse(s)
<1>1. CASE \/ \E t \in Targets, l \in Listeners, isLite \in Modes : AddListener(t, l, isLite)
           \/ \E t \in Targets, l \in Listeners : RemoveListener(t, l)
  BY <1>1, ListenerCallFewer
<1>2. CASE RunJob
  BY <1>2, JobFewer
<1>3. CASE CloseEventStream \/ ChannelDrop
  BY <1>3, WaitFewer
<1>4. CASE ChannelUp \/ \E s \in DOMAIN streams : StreamError(s)
  BY <1>4, RenewalsFewer
<1>5. CASE \E s \in DOMAIN streams : ReadyTimeout(s)
  BY <1>5, ReadyTimeoutFewer
<1>6. CASE \E s \in DOMAIN streams : StreamReady(s) \/ StreamFail(s) \/ StreamEnd(s)
  BY <1>6, StreamFewer
<1>7. CASE UNCHANGED vars
  BY <1>7, SameStreamsFewer DEF vars
<1> QED
  BY <1>1, <1>2, <1>3, <1>4, <1>5, <1>6, <1>7 DEF Next, Application, Failures, Answers, StreamChanges

\* A request is about a group.
LEMMA RequestGroups ==
  ASSUME Typed, NEW u \in DOMAIN requests
  PROVE  /\ requests[u].group \in DOMAIN groups /\ groups[requests[u].group] \in Group
         /\ requests[u].step \in Steps
<1>1. requests[u] \in RequestSet(Len(groups))
  BY LenProperties, ElementOfSeq DEF Typed, MessagesOK
<1>2. DOMAIN groups = 1 .. Len(groups) /\ \A g \in DOMAIN groups : groups[g] \in Group
  BY LenProperties, ElementOfSeq DEF Typed, RegistryOK
<1> QED
  BY <1>1, <1>2 DEF RequestSet

\* An answer may make the next request of its call, and changes none.
LEMMA SettledKeeps ==
  ASSUME Typed, SettledJob(Head(jobs))
  PROVE  RequestsKept
<1> DEFINE r   == requests[Head(jobs).uid]
           req == Request(r.group, r.rest, r.call)
<1>1. requests' = requests \o <<req>> \/ requests' = requests \o <<>>
  BY DEF SettledJob, Send
<1> HIDE DEF req
<1>2. <<req>> \in Seq({req}) /\ <<>> \in Seq({req})
  OBVIOUS
<1> QED
  BY <1>1, <1>2, RequestsJoined DEF RequestsKept

\* The target of a group, and so of a request, never changes.
LEMMA TargetsStay ==
  ASSUME Typed, [Next]_vars
  PROVE  /\ RequestsKept
         /\ \A u \in DOMAIN requests : Target(u)' = Target(u) /\ requests[u].group \in DOMAIN groups
<1>1. \A g \in DOMAIN groups : g \in DOMAIN groups' /\ groups'[g].target = groups[g].target
  <2>1. ASSUME NEW t \in Targets, NEW l \in Listeners, NEW isLite \in Modes, AddListener(t, l, isLite)
        PROVE  \A g \in DOMAIN groups : g \in DOMAIN groups' /\ groups'[g].target = groups[g].target
    <3> DEFINE known == groupOf[t] # 0
               h     == IF known THEN groupOf[t] ELSE Len(groups) + 1
               grp   == IF known THEN groups[h] ELSE NewGroup(t)
               new   == Added(grp, l, isLite)
    <3>1. isLite \in BOOLEAN
      BY BoundsAssumption
    <3>2. /\ new.target = grp.target /\ DOMAIN groups = 1 .. Len(groups)
          /\ DOMAIN groups' = IF known THEN 1 .. Len(groups) ELSE 1 .. Len(groups) + 1
          /\ \A g \in DOMAIN groups' : groups'[g] = IF g = h THEN new ELSE groups[g]
          /\ (known <=> h \in DOMAIN groups)
      BY <2>1, <3>1, AddListenerDoes
    <3>3. Len(groups) \in Nat
      BY Lengths DEF Typed
    <3> HIDE DEF new, h
    <3> QED
      BY <3>2, <3>3
  <2>2. ASSUME NEW t \in Targets, NEW l \in Listeners, RemoveListener(t, l)
        PROVE  \A g \in DOMAIN groups : g \in DOMAIN groups' /\ groups'[g].target = groups[g].target
    BY <2>2, RemoveListenerDoes
  <2>3. CASE jobs # <<>> /\ SettledJob(Head(jobs))
    BY <2>3 DEF SettledJob
  <2>4. CASE Renews
    BY <2>4 DEF Renews, registry
  <2> QED
    BY <2>1, <2>2, <2>3, <2>4, StepKinds
<1>2. RequestsKept
  <2>1. ASSUME NEW t, NEW g, NEW steps, Call(t, g, steps) PROVE RequestsKept
    <3>1. PICK batch : requests' = requests \o batch /\ batch \in Seq({Request(g, steps, used.calls + 1)})
      <4> DEFINE req == Request(g, steps, used.calls + 1)
      <4>1. requests' = requests \o <<>> \/ requests' = requests \o <<req>>
        BY <2>1 DEF Call, Send
      <4> HIDE DEF req
      <4>2. <<req>> \in Seq({req}) /\ <<>> \in Seq({req})
        OBVIOUS
      <4> QED
        BY <4>1, <4>2 DEF req
    <3> QED
      BY <3>1, RequestsJoined DEF RequestsKept
  <2>2. ASSUME NEW t \in Targets, NEW l \in Listeners, NEW isLite \in Modes, AddListener(t, l, isLite)
        PROVE  RequestsKept
    BY <2>1, <2>2 DEF AddListener
  <2>3. ASSUME NEW t \in Targets, NEW l \in Listeners, RemoveListener(t, l)
        PROVE  RequestsKept
    BY <2>1, <2>3 DEF RemoveListener
  <2>4. CASE jobs # <<>> /\ SettledJob(Head(jobs))
    BY <2>4, SettledKeeps
  <2>5. CASE Renews
    BY <2>5, RenewsDoes
  <2> QED
    BY <2>2, <2>3, <2>4, <2>5, StepKinds
<1>3. \A u \in DOMAIN requests : requests[u].group \in DOMAIN groups
  BY RequestGroups DEF Typed
<1> QED
  BY <1>1, <1>2, <1>3 DEF RequestsKept, Target

\* What the proxy does with a request is about the target of that request.
LEMMA ServerReceiveFits ==
  ASSUME Typed, SubsFit, NEW s \in DOMAIN streams, ServerReceive(s)
  PROVE  SubsFit'
<1> DEFINE uid == Head(streams[s].toServer)
           sub == IF requests[uid].step = "unsub" THEN 0 ELSE uid
           new == [streams[s] EXCEPT !.toServer = Tail(@), !.toClient = Append(@, uid),
                                     !.subs[Target(uid)] = sub]
<1>1. /\ DOMAIN streams = 1 .. Len(streams) /\ \A x \in DOMAIN streams : streams[x] \in SomeStream
  BY SomeShape
<1>2. /\ groups' = groups /\ requests' = requests /\ DOMAIN streams' = DOMAIN streams
      /\ \A x \in DOMAIN streams : streams'[x] = IF x = s THEN new ELSE streams[x]
  BY DEF ServerReceive, registry
<1>3. new.subs = [streams[s].subs EXCEPT ![Target(uid)] = sub]
  BY <1>1 DEF SomeStream
<1>4. uid \in DOMAIN requests
  <2>1. streams[s] \in StreamSet(Len(requests), Len(streams))
    BY <1>1, ElementOfSeq DEF Typed, MessagesOK
  <2>2. streams[s].toServer \in Seq(1 .. Len(requests)) /\ streams[s].toServer # <<>>
    BY <2>1 DEF StreamSet, ServerReceive
  <2>3. uid \in 1 .. Len(requests)
    BY <2>2
  <2> QED
    BY <2>3, LenProperties DEF Typed, MessagesOK
<1> HIDE DEF new, uid
<1>5. ASSUME NEW t \in Targets
      PROVE  new.subs[t] = streams[s].subs[t] \/ new.subs[t] = 0
               \/ (new.subs[t] = uid /\ Target(uid) = t /\ requests[uid].step # "unsub")
  BY <1>1, <1>3 DEF SomeStream
<1>6. ASSUME NEW x \in DOMAIN streams', NEW t \in Targets, streams'[x].subs[t] # 0
      PROVE  LET u == streams'[x].subs[t]
             IN u \in DOMAIN requests /\ Target(u) = t /\ requests[u].step # "unsub"
  <2>1. CASE x # s
    BY <1>2, <1>6, <2>1 DEF SubsFit
  <2>2. CASE x = s
    BY <1>2, <1>4, <1>5, <1>6, <2>2 DEF SubsFit
  <2> QED
    BY <2>1, <2>2
<1> QED
  BY <1>2, <1>6 DEF SubsFit, Target

LEMMA HandleResponseSubs ==
  ASSUME Typed, NEW s \in DOMAIN streams, HandleResponse(s)
  PROVE  /\ groups' = groups /\ requests' = requests /\ DOMAIN streams' = DOMAIN streams
         /\ \A x \in DOMAIN streams : streams'[x].subs = streams[x].subs
<1>1. \A x \in DOMAIN streams : streams[x] \in SomeStream
  BY SomeShape
<1> QED
  BY <1>1 DEF HandleResponse, SomeStream, registry

LEMMA NextSubs == Typed /\ SubsFit /\ [Next]_vars => SubsFit'
<1> SUFFICES ASSUME Typed, SubsFit, [Next]_vars PROVE SubsFit'
  OBVIOUS
<1>1. CASE \E s \in DOMAIN streams : ServerReceive(s)
  BY <1>1, ServerReceiveFits
<1>2. CASE Fewer(streams, streams')
  <2>1. /\ \A u \in DOMAIN requests : u \in DOMAIN requests' /\ requests'[u] = requests[u]
        /\ \A u \in DOMAIN requests : groups'[requests'[u].group].target = Target(u)
    BY TargetsStay DEF RequestsKept, Target
  <2>2. ASSUME NEW x \in DOMAIN streams', NEW t \in Targets, streams'[x].subs[t] # 0
        PROVE  LET u == streams'[x].subs[t]
               IN /\ u \in DOMAIN requests' /\ groups'[requests'[u].group].target = t
                  /\ requests'[u].step # "unsub"
    <3>1. x \in DOMAIN streams /\ streams'[x].subs[t] = streams[x].subs[t]
      BY <1>2, <2>2 DEF Fewer, SameSub
    <3> DEFINE u == streams[x].subs[t]
    <3>2. u \in DOMAIN requests /\ Target(u) = t /\ requests[u].step # "unsub"
      BY <2>2, <3>1 DEF SubsFit
    <3> QED
      BY <2>1, <3>1, <3>2
  <2> QED
    BY <2>2 DEF SubsFit, Target
<1>3. ASSUME NEW s \in DOMAIN streams, HandleResponse(s) PROVE SubsFit'
  BY <1>3, HandleResponseSubs DEF SubsFit, Target
<1> QED
  BY <1>1, <1>2, <1>3, StepsFewer

LEMMA InitSubs == Init => SubsFit
  BY NewStreamIs DEF Init, SubsFit, NoSubscriptions

ModeFits == Typed /\ GroupsInv /\ ModeInv /\ SubsFit

LEMMA ModeInvariant ==
  ASSUME OneMode
  PROVE  Spec => []ModeFits
<1>1. Init => ModeFits
  BY InitTyped, InitMode, InitSubs DEF ModeFits, Init, GroupsInv
<1>2. ModeFits /\ [Next]_vars => ModeFits'
  BY NextTyped, GroupsInvStep, NextMode, NextSubs DEF ModeFits, ModeInv
<1> QED
  BY <1>1, <1>2, PTL DEF Spec

\* A filter id stands for the group that asked with it.
IdsFit ==
  \A id \in DOMAIN filterIds :
    id # 0 /\ filterIds[id] # 0 => id \in DOMAIN requests /\ filterIds[id] = requests[id].group

LEMMA SettledIdsFit ==
  ASSUME Typed, IdsFit, jobs # <<>>, SettledJob(Head(jobs))
  PROVE  IdsFit'
<1> DEFINE v == Head(jobs).uid
<1>1. /\ v \in DOMAIN requests /\ RequestsKept
      /\ IF requests[v].step = "unsub" THEN PostUnsubscribe(v) ELSE PostSubscribe(v)
  <2>1. Head(jobs) \in JobSet(Len(requests), Len(streams)) /\ Head(jobs).do = "settled"
    BY JobTypes DEF Typed, SettledJob
  <2>2. DOMAIN requests = 1 .. Len(requests)
    BY LenProperties DEF Typed, MessagesOK
  <2> QED
    BY <2>1, <2>2, SettledKeeps DEF JobSet, SettledJob
<1> SUFFICES ASSUME NEW id \in DOMAIN filterIds', id # 0, filterIds'[id] # 0
             PROVE  id \in DOMAIN requests /\ filterIds'[id] = requests[id].group
  BY <1>1 DEF IdsFit, RequestsKept
<1> HIDE DEF v
<1>2. \/ id \in DOMAIN filterIds /\ filterIds'[id] = filterIds[id]
      \/ id = FilterId(v) /\ filterIds'[id] = requests[v].group
  <2>1. CASE requests[v].step = "unsub"
    BY <1>1, <2>1 DEF PostUnsubscribe
  <2>2. CASE requests[v].step # "unsub"
    BY <1>1, <2>2 DEF PostSubscribe
  <2> QED
    BY <2>1, <2>2
<1>3. CASE id \in DOMAIN filterIds /\ filterIds'[id] = filterIds[id]
  BY <1>3 DEF IdsFit
<1>4. CASE id = FilterId(v) /\ filterIds'[id] = requests[v].group
  BY <1>1, <1>4 DEF FilterId
<1> QED
  BY <1>2, <1>3, <1>4

LEMMA NextIds == Typed /\ IdsFit /\ [Next]_vars => IdsFit'
<1> SUFFICES ASSUME Typed, IdsFit, [Next]_vars PROVE IdsFit'
  OBVIOUS
<1>1. filterIds' = filterIds \/ (jobs # <<>> /\ SettledJob(Head(jobs)))
  <2>1. \A t, l, isLite : AddListener(t, l, isLite) => filterIds' = filterIds
    BY DEF AddListener
  <2>2. \A t, l : RemoveListener(t, l) => filterIds' = filterIds
    BY DEF RemoveListener
  <2> QED
    BY <2>1, <2>2, StepKinds DEF Renews
<1>2. RequestsKept
  BY TargetsStay
<1> QED
  BY <1>1, <1>2, SettledIdsFit DEF IdsFit, RequestsKept

\* An event reaches the group in the map, or the one that asked for it.
LEMMA DispatchedTo ==
  ASSUME Typed, SubsFit, IdsFit, NEW t \in Keys \cup Filters, NEW s \in Subscriptions(t),
         Dispatch(t, streams[s].subs[t]) # 0
  PROVE  LET u == streams[s].subs[t]
             g == Dispatch(t, u)
         IN /\ t \in Targets /\ s \in DOMAIN streams /\ g \in DOMAIN groups
            /\ u \in DOMAIN requests /\ Target(u) = t /\ requests[u].step \in {"lite", "full"}
            /\ g = groupOf[t] \/ g = requests[u].group
<1> DEFINE u == streams[s].subs[t]
           g == Dispatch(t, u)
<1>1. t \in Targets /\ s \in DOMAIN streams /\ u # 0
  BY DEF Targets, Subscriptions
<1>2. u \in DOMAIN requests /\ Target(u) = t /\ requests[u].step # "unsub"
  BY <1>1 DEF SubsFit
<1>3. requests[u].step \in Steps /\ requests[u].group \in DOMAIN groups
  BY <1>2, RequestGroups
<1>4. g = groupOf[t] \/ g = requests[u].group
  <2>1. CASE t \in Keys
    BY <2>1 DEF Dispatch
  <2>2. CASE t \notin Keys
    <3>1. u \in DOMAIN filterIds /\ g = filterIds[u]
      BY <2>2 DEF Dispatch
    <3> QED
      BY <1>1, <3>1 DEF IdsFit
  <2> QED
    BY <2>1, <2>2
<1>5. g \in DOMAIN groups
  <2>1. groupOf[t] \in 0 .. Len(groups) /\ DOMAIN groups = 1 .. Len(groups) /\ Len(groups) \in Nat
    BY <1>1, Lengths DEF Typed, RegistryOK
  <2>2. groupOf[t] # 0 => groupOf[t] \in DOMAIN groups
    BY <2>1
  <2> QED
    BY <1>3, <1>4, <2>2
<1> QED
  BY <1>1, <1>2, <1>3, <1>4, <1>5 DEF Steps

\* Where no lite request is made for who wants values, none is held.
LEMMA ModeDelivers == ModeFits /\ IdsFit => ValuesDelivered
<1> SUFFICES ASSUME ModeFits, IdsFit, NEW t \in Keys \cup Filters, NEW s \in Subscriptions(t),
                    Dispatch(t, streams[s].subs[t]) # 0,
                    NEW l \in FullListeners(groups[Dispatch(t, streams[s].subs[t])])
             PROVE  requests[streams[s].subs[t]].step = "full"
  BY DEF ValuesDelivered
<1> DEFINE u == streams[s].subs[t]
           g == Dispatch(t, u)
<1>1. u \in DOMAIN requests /\ requests[u].step \in {"lite", "full"} /\ g \in DOMAIN groups
  BY DispatchedTo DEF ModeFits
<1> HIDE DEF g, u
<1>2. l \in Registered(groups[g]) /\ groups[g].listeners[l] = "full"
  BY DEF FullListeners, Registered, g, u
<1>3. PICK m \in Modes : groups[g].listeners[l] = Flag(m)
  BY <1>1, <1>2 DEF ModeFits, ModeInv, GroupsUniform, Uniform
<1>4. FALSE \in Modes
  BY <1>2, <1>3, BoundsAssumption DEF Flag
<1> QED
  BY <1>1, <1>4 DEF ModeFits, ModeInv, NoneLite, u

----------------------------------------------------------------------------
(* What a group was asked for last, for an application that uses both      *)
(* flags and a grpc-js that reports failures before anything else happens. *)

\* The group of target t, if any, was asked to have its events with values.
Wants(t) == groupOf[t] # 0 /\ ~groups[groupOf[t]].registeredIsLite

\* Values are wanted where request u asks: by the group found under its target, or
\* by a listener of the group it was made for, which may be out of the maps.
Wanted(u) == Wants(Target(u)) \/ FullListeners(groups[requests[u].group]) # {}

\* A lite request on its way to the proxy, or the subscription that the proxy
\* made of one, is followed by a later request where values are wanted.
Words ==
  \A s \in DOMAIN streams, t \in Targets, u \in DOMAIN requests :
    /\ Serving(streams[s]) /\ Wanted(u)
    /\ Target(u) = t /\ requests[u].step = "lite"
    /\ u \in Underway(streams, jobs, s) \/ streams[s].subs[t] = u
    => \E v \in DOMAIN requests : v > u /\ Target(v) = t /\ requests[v].step # "lite"
                                        /\ v \in Underway(streams, jobs, s)

\* What is left of a call is one subscription, after an unsubscription.
RestFit(r) == r.rest = <<>> \/ (r.step = "unsub" /\ (r.rest = <<"lite">> \/ r.rest = <<"full">>))

RestsFit == \A u \in DOMAIN requests : RestFit(requests[u])

\* Where values are wanted nothing else is asked for, and they are at once.
StepWords ==
  /\ \A v \in Fresh : RestFit(requests'[v]) /\ (requests'[v].step = "lite" => ~Wanted(v)')
  /\ \A u \in DOMAIN requests : Wanted(u)' =>
       Wanted(u) \/ \E v \in Fresh : Target(v)' = Target(u) /\ requests'[v].step # "lite"

\* A request outstanding is the only one of its call.
CallsApart ==
  /\ \A u \in DOMAIN requests : requests[u].call \in 0 .. used.calls
  /\ \A u, v \in Outstanding : requests[u].call = requests[v].call => u = v \/ requests[u].call = 0

\* A call that falls back to lite events is open until it has done so, and no
\* listener of its group wants values by then.
FallsBack ==
  \A u \in Outstanding : requests[u].rest = <<"lite">> =>
    /\ requests[u].call # 0 /\ [call |-> requests[u].call, target |-> Target(u)] \in open
    /\ FullListeners(groups[requests[u].group]) = {}

\* One request is made, or none.
LEMMA OneMade ==
  ASSUME Typed, NEW g, NEW steps, NEW call,
         \/ requests' = requests \o <<>>
         \/ requests' = requests \o <<Request(g, steps, call)>>
  PROVE  \A v \in Fresh : /\ requests'[v].group = g /\ requests'[v].step = Head(steps)
                           /\ requests'[v].rest = Tail(steps) /\ requests'[v].call = call
                           /\ \A w \in Fresh : w = v
<1> DEFINE req == Request(g, steps, call)
           one == <<req>>
<1>0. one \in Seq({req}) /\ DOMAIN one = {1} /\ one[1] = req
  BY DEF one
<1>1. CASE requests' = requests
  BY <1>1 DEF Fresh
<1>2. CASE requests' = requests \o one
  <2> HIDE DEF req, one
  <2>0. one \in Seq({req}) /\ Len(one) = 1
    BY DEF one
  <2>1. /\ Len(requests) \in Nat /\ DOMAIN requests = 1 .. Len(requests)
        /\ DOMAIN requests' = 1 .. Len(requests) + 1
        /\ \A u \in Fresh : u - Len(requests) \in {1} /\ requests'[u] = one[u - Len(requests)]
    BY <1>0, <1>2, <2>0, RequestsJoined DEF Fresh
  <2>2. Fresh = {Len(requests) + 1}
    BY <2>1 DEF Fresh
  <2>3. \A u \in Fresh : requests'[u] = req /\ \A w \in Fresh : w = u
    BY <1>0, <2>1, <2>2
  <2>4. req.group = g /\ req.step = Head(steps) /\ req.rest = Tail(steps) /\ req.call = call
    BY DEF req, Request
  <2> QED
    BY <2>3, <2>4
<1>3. requests \o <<>> = requests
  BY ConcatEmptySeq DEF Typed, MessagesOK
<1> QED
  BY <1>1, <1>2, <1>3

LEMMA CallMakes ==
  ASSUME Typed, NEW t, NEW g, NEW steps, Call(t, g, steps)
  PROVE  /\ \A v \in Fresh : /\ steps # <<>> /\ requests'[v].group = g
                             /\ requests'[v].step = Head(steps) /\ requests'[v].rest = Tail(steps)
                             /\ requests'[v].call = used.calls + 1 /\ \A w \in Fresh : w = v
         /\ steps # <<>> => \E v : v \in Fresh
         /\ steps # <<>> => open' = open \cup {[call |-> used.calls + 1, target |-> t]}
         /\ used.calls \in Nat /\ used'.calls = used.calls + 1
         /\ \A c \in open : c \in open'
<1>0. /\ used.calls \in Nat /\ used'.calls = used.calls + 1
      /\ steps # <<>> => open' = open \cup {[call |-> used.calls + 1, target |-> t]}
      /\ \A c \in open : c \in open'
  BY DEF Call, Typed, OthersOK
<1>1. CASE steps = <<>>
  <2>1. requests' = requests \o <<>>
    BY <1>1 DEF Call, Send
  <2>2. requests' = requests
    BY <2>1, ConcatEmptySeq DEF Typed, MessagesOK
  <2> QED
    BY <1>0, <1>1, <2>2 DEF Fresh
<1>2. CASE steps # <<>>
  <2> DEFINE req == Request(g, steps, used.calls + 1)
             one == <<req>>
  <2>1. requests' = requests \o one
    BY <1>2 DEF Call, Send
  <2>2. \A v \in Fresh : /\ requests'[v].group = g /\ requests'[v].step = Head(steps)
                         /\ requests'[v].rest = Tail(steps) /\ requests'[v].call = used.calls + 1
                         /\ \A w \in Fresh : w = v
    BY <2>1, OneMade
  <2>3. one \in Seq({req}) /\ Len(one) = 1
    BY DEF one
  <2> HIDE DEF one, req
  <2>4. Len(requests) \in Nat /\ DOMAIN requests = 1 .. Len(requests) /\ DOMAIN requests' = 1 .. Len(requests) + 1
    BY <2>1, <2>3, RequestsJoined
  <2>5. Len(requests) + 1 \in Fresh
    BY <2>4 DEF Fresh
  <2> QED
    BY <1>0, <1>2, <2>2, <2>5
<1> QED
  BY <1>1, <1>2

\* The requests of addListener and removeListener.
LEMMA AddAsks ==
  ASSUME NEW grp \in Group, NEW l, NEW isLite \in BOOLEAN
  PROVE  LET steps == AddSteps(grp, l, isLite)
             new   == Added(grp, l, isLite)
         IN /\ steps = <<>> => new.registeredIsLite = grp.registeredIsLite
            /\ steps # <<>> => /\ new.registeredIsLite = isLite
                               /\ RestFit([step |-> Head(steps), rest |-> Tail(steps)])
                               /\ ~isLite => Head(steps) # "lite"
                               /\ Tail(steps) # <<"lite">>
<1> DEFINE f == Flag(isLite)
           one == <<f>>
           two == <<"unsub", f>>
           new == Added(grp, l, isLite)
           steps == AddSteps(grp, l, isLite)
<1>1. /\ Head(one) = f /\ Tail(one) = <<>> /\ one # <<>>
      /\ Head(two) = "unsub" /\ Tail(two) = one /\ two # <<>>
      /\ f \in {"lite", "full"} /\ (~isLite => f = "full")
  BY DEF Flag
<1>2. one = <<"lite">> \/ one = <<"full">>
  BY <1>1
<1>3. steps = <<>> \/ steps = one \/ steps = two
  BY DEF AddSteps
<1>4. steps = <<>> => new.registeredIsLite = grp.registeredIsLite
  BY <1>1 DEF AddSteps, Added, Group
<1>5. steps # <<>> => IsNews(grp, l, isLite) /\ NeedsRegistration(grp, l, isLite)
  BY DEF AddSteps
<1>6. steps # <<>> => new.registeredIsLite = isLite
  BY <1>5 DEF Added, Group
<1>7. steps = <<>> \/ steps = one \/ (steps = two /\ f = "full")
  BY DEF AddSteps, NeedsRegistration, Flag
<1>8. <<>> # <<"lite">> /\ <<"full">> # <<"lite">>
  OBVIOUS
<1>9. f = "full" => one = <<"full">>
  OBVIOUS
<1> HIDE DEF f, one, two, new, steps
<1>10. steps # <<>> => Tail(steps) # <<"lite">>
  BY <1>1, <1>7, <1>8, <1>9
<1> QED
  BY <1>1, <1>2, <1>3, <1>4, <1>6, <1>10 DEF RestFit, new, steps

LEMMA RemoveAsks ==
  ASSUME NEW grp \in Group, NEW l
  PROVE  LET steps == RemoveSteps(grp, l)
         IN /\ Removed(grp, l).registeredIsLite = grp.registeredIsLite
            /\ steps # <<>> => /\ Head(steps) = "unsub"
                               /\ RestFit([step |-> Head(steps), rest |-> Tail(steps)])
<1> DEFINE one == <<"unsub">>
           two == <<"unsub", "lite">>
           steps == RemoveSteps(grp, l)
<1>1. /\ Head(one) = "unsub" /\ Tail(one) = <<>>
      /\ Head(two) = "unsub" /\ Tail(two) = <<"lite">>
  OBVIOUS
<1>2. steps = <<>> \/ steps = one \/ steps = two
  BY DEF RemoveSteps
<1>3. Removed(grp, l).registeredIsLite = grp.registeredIsLite
  BY DEF Removed, Group
<1> HIDE DEF one, two, steps
<1> QED
  BY <1>1, <1>2, <1>3 DEF RestFit, steps

LEMMA AddListenerWords ==
  ASSUME Typed, TargetsFit, GroupsInv', NEW t \in Targets, NEW l \in Listeners, NEW isLite \in Modes,
         AddListener(t, l, isLite)
  PROVE  StepWords
<1> DEFINE known == groupOf[t] # 0
           g     == IF known THEN groupOf[t] ELSE Len(groups) + 1
           grp   == IF known THEN groups[g] ELSE NewGroup(t)
           new   == Added(grp, l, isLite)
           steps == AddSteps(grp, l, isLite)
<1>1. isLite \in BOOLEAN
  BY BoundsAssumption
<1>2. /\ grp \in Group /\ new.target = grp.target
      /\ \A h \in DOMAIN groups' : groups'[h] = IF h = g THEN new ELSE groups[h]
      /\ g \in DOMAIN groups' /\ (known <=> g \in DOMAIN groups)
      /\ groupOf' = [groupOf EXCEPT ![t] = g] /\ DOMAIN groups = 1 .. Len(groups)
      /\ DOMAIN groups' = IF known THEN 1 .. Len(groups) ELSE 1 .. Len(groups) + 1
      /\ Call(t, g, steps)
  BY <1>1, AddListenerDoes
<1>3. grp.target = t /\ (~known => grp.registeredIsLite) /\ (known => g = groupOf[t] /\ grp = groups[g])
  BY DEF NewGroup, TargetsFit
<1>4. /\ groupOf \in [Targets -> 0 .. Len(groups)] /\ Len(groups) \in Nat
  BY Lengths DEF Typed, RegistryOK
<1>5. /\ steps = <<>> => new.registeredIsLite = grp.registeredIsLite
      /\ steps # <<>> => /\ new.registeredIsLite = isLite
                         /\ RestFit([step |-> Head(steps), rest |-> Tail(steps)])
                         /\ ~isLite => Head(steps) # "lite"
  <2> HIDE DEF grp
  <2> QED
    BY <1>1, <1>2, AddAsks
<1>6. known => Wants(t) = ~grp.registeredIsLite
  BY <1>3 DEF Wants
<1>7. groups'[g].target = t
  BY <1>2, <1>3
<1>8. g # 0
  BY <1>3, <1>4
<1>9. Wants(t)' = ~new.registeredIsLite
  BY <1>2, <1>4, <1>8 DEF Wants
<1> HIDE DEF known, g, grp, new, steps
<1>10. /\ \A v \in Fresh : /\ steps # <<>> /\ requests'[v].group = g
                           /\ requests'[v].step = Head(steps) /\ requests'[v].rest = Tail(steps)
       /\ steps # <<>> => \E v : v \in Fresh
  BY <1>2, CallMakes
<1>11. \A v \in Fresh : Target(v)' = t /\ RestFit(requests'[v])
  BY <1>5, <1>7, <1>10 DEF Target, RestFit
<1>12. Wants(t)' => /\ \A v \in Fresh : requests'[v].step # "lite"
                    /\ Wants(t) \/ \E v : v \in Fresh
  BY <1>3, <1>5, <1>6, <1>9, <1>10
<1>13. ASSUME NEW x \in Targets, x # t, Wants(x)'
       PROVE  Wants(x)
  <2>1. groupOf'[x] = groupOf[x] /\ groupOf[x] # 0 /\ groupOf[x] \in 0 .. Len(groups)
    BY <1>2, <1>4, <1>13 DEF Wants
  <2>2. groupOf[x] \in DOMAIN groups'
    BY <1>2, <1>4, <2>1
  <2>3. groupOf[x] # g
    <3>1. CASE known
      BY <1>3, <1>13, <2>1, <3>1 DEF TargetsFit
    <3>2. CASE ~known
      BY <1>2, <1>4, <2>1, <3>2
    <3> QED
      BY <3>1, <3>2
  <2> QED
    BY <1>2, <1>13, <2>1, <2>2, <2>3 DEF Wants
<1>14. LiteMeansLite(groups'[g]) /\ groups'[g] = new /\ isLite \in BOOLEAN
  BY <1>1, <1>2 DEF GroupsInv
<1>15. ASSUME NEW v \in Fresh, requests'[v].step = "lite" PROVE ~Wanted(v)'
  <2>1. new.registeredIsLite
    BY <1>5, <1>10, <1>14, <1>15
  <2> QED
    BY <1>9, <1>10, <1>11, <1>14, <2>1 DEF Wanted, LiteMeansLite
<1>16. ASSUME NEW u \in DOMAIN requests, Wanted(u)'
       PROVE  Wanted(u) \/ \E v \in Fresh : Target(v)' = Target(u) /\ requests'[v].step # "lite"
  <2> DEFINE h == requests[u].group
  <2>1. /\ requests'[u] = requests[u] /\ Target(u)' = Target(u) /\ h \in DOMAIN groups
        /\ Target(u) \in Targets
    <3>1. [Next]_vars
      BY DEF Next, Application
    <3> QED
      BY <3>1, TargetsStay, RequestGroups DEF RequestsKept, Target, Group
  <2>2. CASE Target(u) = t /\ Wants(t)'
    BY <1>11, <1>12, <2>1, <2>2 DEF Wanted
  <2>3. CASE Target(u) # t /\ Wants(Target(u))'
    BY <1>13, <2>1, <2>3 DEF Wanted
  <2>4. CASE FullListeners(groups'[h]) # {} /\ h # g
    <3>1. h \in DOMAIN groups'
      BY <1>2, <1>4, <2>1, <2>4
    <3> QED
      BY <1>2, <2>1, <2>4, <3>1 DEF Wanted
  <2>5. CASE FullListeners(groups'[h]) # {} /\ h = g
    <3>1. Target(u) = t
      BY <1>7, <2>1, <2>5 DEF Target
    <3>2. Wants(t)'
      BY <1>9, <1>14, <2>5 DEF LiteMeansLite
    <3> QED
      BY <2>2, <3>1, <3>2
  <2>6. Wants(Target(u))' \/ FullListeners(groups'[h]) # {}
    BY <1>16, <2>1 DEF Wanted
  <2> QED
    BY <2>1, <2>2, <2>3, <2>4, <2>5, <2>6
<1> QED
  BY <1>11, <1>15, <1>16 DEF StepWords

LEMMA RemoveListenerWords ==
  ASSUME Typed, NEW t \in Targets, NEW l \in Listeners, RemoveListener(t, l)
  PROVE  StepWords
<1> DEFINE g == FoundForRemoval(t)
           steps == RemoveSteps(groups[g], l)
<1>1. /\ DOMAIN groups' = DOMAIN groups /\ groupOf' = groupOf
      /\ g = 0 => groups' = groups /\ Call(t, g, <<>>)
      /\ g # 0 => /\ g = groupOf[t] /\ g \in DOMAIN groups /\ groups[g] \in Group
                  /\ \A h \in DOMAIN groups : groups'[h] = IF h = g THEN Removed(groups[g], l) ELSE groups[h]
                  /\ Call(t, g, steps)
  BY RemoveListenerDoes
<1>2. g # 0 => /\ Removed(groups[g], l).registeredIsLite = groups[g].registeredIsLite
               /\ steps # <<>> => /\ Head(steps) = "unsub"
                                  /\ RestFit([step |-> Head(steps), rest |-> Tail(steps)])
  BY <1>1, RemoveAsks
<1>6. g # 0 => FullListeners(Removed(groups[g], l)) \subseteq FullListeners(groups[g])
  BY <1>1, RemovedFull
<1> HIDE DEF g, steps
<1>3. \A h \in DOMAIN groups : /\ groups'[h].registeredIsLite = groups[h].registeredIsLite
                               /\ FullListeners(groups'[h]) \subseteq FullListeners(groups[h])
  BY <1>1, <1>2, <1>6
<1>4. \A v \in Fresh : RestFit(requests'[v]) /\ requests'[v].step # "lite"
  <2>1. CASE g = 0
    BY <1>1, <2>1, CallMakes
  <2>2. CASE g # 0
    <3>1. \A v \in Fresh : /\ steps # <<>>
                           /\ requests'[v].step = Head(steps) /\ requests'[v].rest = Tail(steps)
      BY <1>1, <2>2, CallMakes
    <3> QED
      BY <1>2, <2>2, <3>1 DEF RestFit
  <2> QED
    BY <2>1, <2>2
<1>5. \A x \in Targets : Wants(x)' => Wants(x)
  <2>1. \A x \in Targets : groupOf[x] \in 0 .. Len(groups)
    BY DEF Typed, RegistryOK
  <2>2. Len(groups) \in Nat /\ DOMAIN groups = 1 .. Len(groups)
    BY Lengths DEF Typed
  <2>3. \A x \in Targets : groupOf[x] # 0 => groupOf[x] \in DOMAIN groups
    BY <2>1, <2>2
  <2> QED
    BY <1>1, <1>3, <2>3 DEF Wants
<1>7. \A u \in DOMAIN requests : Wanted(u)' => Wanted(u)
  <2>1. [Next]_vars
    BY DEF Next, Application
  <2>2. \A u \in DOMAIN requests : /\ requests'[u] = requests[u] /\ Target(u)' = Target(u)
                                  /\ requests[u].group \in DOMAIN groups /\ Target(u) \in Targets
    BY <2>1, TargetsStay, RequestGroups DEF RequestsKept, Target, Group
  <2> QED
    BY <1>3, <1>5, <2>2 DEF Wanted
<1> QED
  BY <1>4, <1>7 DEF StepWords

LEMMA SettledWords ==
  ASSUME Typed, RestsFit, Once, FallsBack, jobs # <<>>, SettledJob(Head(jobs))
  PROVE  StepWords
<1> DEFINE u    == Head(jobs).uid
           r    == requests[u]
           left == r.rest
<1>1. u \in DOMAIN requests
  <2>1. Head(jobs) \in JobSet(Len(requests), Len(streams)) /\ Head(jobs).do = "settled"
    BY JobTypes DEF Typed, SettledJob
  <2>2. DOMAIN requests = 1 .. Len(requests)
    BY LenProperties DEF Typed, MessagesOK
  <2> QED
    BY <2>1, <2>2 DEF JobSet
<1>2. /\ groups' = groups
      /\ IF left = <<>> THEN requests' = requests \o <<>>
                        ELSE requests' = requests \o <<Request(r.group, left, r.call)>>
      /\ IF r.step = "unsub" THEN groupOf' = [groupOf EXCEPT ![Target(u)] = 0] ELSE groupOf' = groupOf
  BY DEF SettledJob, Send, PostUnsubscribe, PostSubscribe
<1>3. groupOf \in [Targets -> 0 .. Len(groups)] /\ Target(u) \in Targets
  BY <1>1, RequestGroups DEF Typed, RegistryOK, Target, Group
<1>4. ASSUME NEW v \in DOMAIN requests, Wanted(v)' PROVE Wanted(v)
  <2>1. requests'[v] = requests[v] /\ requests[v].group \in DOMAIN groups
    BY SettledKeeps, RequestGroups DEF RequestsKept
  <2>2. Target(v)' = Target(v) /\ Target(v) \in Targets
    BY <1>2, <2>1, RequestGroups DEF Target, Group
  <2>3. \A t \in Targets : Wants(t)' => Wants(t)
    BY <1>2, <1>3 DEF Wants
  <2> QED
    BY <1>2, <1>4, <2>1, <2>2, <2>3 DEF Wanted
<1>5. CASE left = <<>>
  <2>1. requests' = requests
    BY <1>2, <1>5, ConcatEmptySeq DEF Typed, MessagesOK
  <2> QED
    BY <1>4, <2>1 DEF StepWords, Fresh
<1>6. CASE left # <<>>
  <2>1. r.step = "unsub" /\ (left = <<"lite">> \/ left = <<"full">>)
    BY <1>1, <1>6 DEF RestsFit, RestFit
  <2>2. \A v \in Fresh : /\ requests'[v].group = r.group /\ requests'[v].rest = Tail(left)
                         /\ requests'[v].step = Head(left)
    <3> HIDE DEF r, left
    <3> QED
      BY <1>2, <1>6, OneMade
  <2>3. /\ Tail(left) = <<>>
        /\ Head(left) = "lite" => left = <<"lite">>
    <3> HIDE DEF left
    <3>1. /\ Tail(<<"lite">>) = <<>> /\ Tail(<<"full">>) = <<>>
          /\ Head(<<"full">>) = "full"
      OBVIOUS
    <3> QED
      BY <2>1, <3>1
  <2>4. \A v \in Fresh : requests'[v].group = r.group /\ requests'[v].rest = <<>>
    BY <2>2, <2>3
  <2>5. \A v \in Fresh : Target(v)' = Target(u) /\ RestFit(requests'[v])
    BY <1>2, <2>4 DEF Target, RestFit
  <2>6. ASSUME NEW v \in Fresh, requests'[v].step = "lite" PROVE ~Wanted(v)'
    <3>1. FullListeners(groups[r.group]) = {}
      BY <2>2, <2>3, <2>6, SettledJobOnce DEF FallsBack
    <3>2. groupOf'[Target(u)] = 0
      BY <1>2, <1>3, <2>1
    <3> QED
      BY <1>2, <2>4, <2>5, <3>1, <3>2 DEF Wanted, Wants
  <2> QED
    BY <1>4, <2>5, <2>6 DEF StepWords
<1> QED
  BY <1>5, <1>6

LEMMA RenewsWords ==
  ASSUME Typed, GroupsInv, Renews
  PROVE  StepWords
<1>1. groups' = groups /\ groupOf' = groupOf
  BY DEF Renews, registry
<1>2. /\ RequestsKept
      /\ \A v \in Fresh : LET r == requests'[v]
                          IN /\ r.group \in Mapped /\ r.group \in DOMAIN groups /\ r.rest = <<>>
                             /\ r.step = Flag(groups[r.group].registeredIsLite)
  BY RenewsDoes
<1>3. ASSUME NEW v \in Fresh, requests'[v].step = "lite" PROVE ~Wanted(v)'
  <2> DEFINE g == requests'[v].group
  <2>1. groups[g].registeredIsLite /\ g \in DOMAIN groups /\ groupOf[groups[g].target] = g
    BY <1>2, <1>3 DEF Flag, Mapped
  <2>2. FullListeners(groups[g]) = {}
    BY <2>1 DEF GroupsInv, LiteMeansLite
  <2> QED
    BY <1>1, <2>1, <2>2 DEF Wanted, Wants, Target
<1>4. \A u \in DOMAIN requests : Wanted(u)' => Wanted(u)
  BY <1>1, <1>2 DEF Wanted, Wants, Target, RequestsKept
<1> QED
  BY <1>2, <1>3, <1>4 DEF StepWords, RestFit

LEMMA NextAsksWords ==
  ASSUME Typed, TargetsFit, GroupsInv, RestsFit, Once, FallsBack, [Next]_vars
  PROVE  StepWords /\ RestsFit'
<1>1. GroupsInv'
  BY GroupsInvStep DEF Typed
<1>2. StepWords
  BY <1>1, StepKinds, AddListenerWords, RemoveListenerWords, SettledWords, RenewsWords
<1>3. RestsFit'
  BY <1>2, TargetsStay DEF StepWords, RestsFit, RequestsKept, Fresh
<1> QED
  BY <1>2, <1>3

\* The requests of a step are those there were and those it makes, and of the
\* former none is outstanding that was not.
LEMMA OutstandingKept ==
  ASSUME Typed, Once, [Next]_vars, NEW u \in Outstanding'
  PROVE  /\ u \in DOMAIN requests' /\ (u \in DOMAIN requests => u \in Outstanding)
         /\ u \in Fresh \/ (u \in Outstanding /\ u \in DOMAIN requests /\ requests'[u] = requests[u]
                              /\ Target(u)' = Target(u) /\ requests[u].group \in DOMAIN groups)
<1>1. Typed'
  BY NextTyped
<1>2. Outstanding' \subseteq Outstanding \cup (Len(requests) + 1 .. Len(requests'))
  BY NextOnce DEF StepOnce
<1>3. Outstanding' \subseteq 1 .. Len(requests')
  <2>1. Typed => Outstanding \subseteq 1 .. Len(requests)
    BY HeldTyped
  <2>2. (Typed => Outstanding \subseteq 1 .. Len(requests))'
    BY HeldTyped, PTL
  <2> QED
    BY <1>1, <2>2
<1>4. /\ DOMAIN requests = 1 .. Len(requests) /\ Len(requests) \in Nat
      /\ DOMAIN requests' = 1 .. Len(requests') /\ Len(requests') \in Nat
  BY <1>1, LenProperties DEF Typed, MessagesOK
<1>5. u \in DOMAIN requests' /\ (u \in DOMAIN requests => u \in Outstanding)
  BY <1>2, <1>3, <1>4
<1>6. u \in Fresh \/ u \in DOMAIN requests
  BY <1>5 DEF Fresh
<1>7. u \in DOMAIN requests => /\ requests'[u] = requests[u] /\ Target(u)' = Target(u)
                               /\ requests[u].group \in DOMAIN groups
  BY TargetsStay DEF RequestsKept
<1> QED
  BY <1>5, <1>6, <1>7

\* A new request is of a new call, of nobody's call, or goes on with the call of
\* a request that is settled.
LEMMA CallsStayApart ==
  ASSUME Typed, Once, CallsApart, [Next]_vars,
         \/ /\ \A v \in Fresh : requests'[v].call = used.calls + 1 /\ \A w \in Fresh : w = v
            /\ used'.calls = used.calls + 1
         \/ /\ \A v \in Fresh : requests'[v].call = 0
            /\ used'.calls = used.calls
         \/ /\ \E u \in DOMAIN requests :
                 /\ u \in Outstanding /\ u \notin Outstanding'
                 /\ \A v \in Fresh : requests'[v].call = requests[u].call /\ \A w \in Fresh : w = v
            /\ used'.calls = used.calls
  PROVE  CallsApart'
<1>1. used.calls \in Nat /\ RequestsKept
  BY TargetsStay DEF Typed, OthersOK
<1>2. \A u \in DOMAIN requests' : u \in Fresh \/ (u \in DOMAIN requests /\ requests'[u] = requests[u])
  BY <1>1 DEF Fresh, RequestsKept
<1>3. \A u \in DOMAIN requests : requests[u].call \in 0 .. used.calls
  BY DEF CallsApart
<1>4. \A u \in DOMAIN requests' : requests'[u].call \in 0 .. used'.calls
  BY <1>1, <1>2, <1>3
<1>5. \A u \in Outstanding' : u \in Fresh \/ (u \in Outstanding /\ u \in DOMAIN requests /\ requests'[u] = requests[u])
  BY OutstandingKept
<1>6. ASSUME NEW u \in Outstanding', NEW v \in Outstanding', requests'[u].call = requests'[v].call,
             requests'[u].call # 0
      PROVE  u = v
  <2>1. CASE u \notin Fresh /\ v \notin Fresh
    BY <1>5, <1>6, <2>1 DEF CallsApart
  <2>2. CASE u \in Fresh /\ v \in Fresh
    BY <1>6, <2>2
  <2>3. ASSUME NEW x \in Outstanding', NEW y \in Outstanding', x \in Fresh, y \notin Fresh,
               requests'[x].call = requests'[y].call, requests'[x].call # 0
        PROVE  FALSE
    <3>1. y \in Outstanding /\ y \in DOMAIN requests /\ requests'[y] = requests[y]
      BY <1>5, <2>3
    <3>2. requests[y].call \in 0 .. used.calls
      BY <1>3, <3>1
    <3>3. requests'[x].call # used.calls + 1
      BY <1>1, <2>3, <3>1, <3>2
    <3>4. PICK u1 \in DOMAIN requests : /\ u1 \in Outstanding /\ u1 \notin Outstanding'
                                       /\ requests'[x].call = requests[u1].call
      BY <2>3, <3>3
    <3> QED
      BY <2>3, <3>1, <3>4 DEF CallsApart
  <2> QED
    BY <1>6, <2>1, <2>2, <2>3
<1> QED
  BY <1>4, <1>6 DEF CallsApart

\* A removal falls back to lite events with the last listener that wanted values.
LEMMA FallBackAsks ==
  ASSUME NEW grp \in Group, NEW l \in Listeners, CountBounds(grp),
         RemoveSteps(grp, l) # <<>>, Tail(RemoveSteps(grp, l)) = <<"lite">>
  PROVE  FullListeners(Removed(grp, l)) = {}
<1> DEFINE F == FullListeners(grp)
<1>1. Tail(<<"unsub">>) # <<"lite">>
  OBVIOUS
<1>2. grp.listeners[l] = "full" /\ grp.isLiteFalseCount = 1
  BY <1>1 DEF RemoveSteps
<1>3. IsFiniteSet(F) /\ Cardinality(F) \in Nat /\ Cardinality(F) <= 1 /\ l \in F
  BY <1>2, FullListenersFinite DEF CountBounds, FullListeners
<1>4. Cardinality(F \ {l}) = Cardinality(F) - 1 /\ IsFiniteSet(F \ {l})
  BY <1>3, FS_RemoveElement
<1>5. Cardinality(F \ {l}) \in Nat
  BY <1>4, FS_CardinalityType
<1>6. F \ {l} = {}
  BY <1>3, <1>4, <1>5, FS_EmptySet
<1> QED
  BY <1>6, RemovedFull

\* All that keeps a fallback from meeting a listener that wants values.
Fallbacks == Typed /\ GroupsInv /\ TargetsFit /\ Once /\ RestsFit /\ CallsApart /\ FallsBack

LEMMA AddListenerFalls ==
  ASSUME Serial, Fallbacks, NEW t \in Targets, NEW l \in Listeners, NEW isLite \in Modes,
         AddListener(t, l, isLite)
  PROVE  CallsApart' /\ FallsBack'
<1> DEFINE known == groupOf[t] # 0
           g     == IF known THEN groupOf[t] ELSE Len(groups) + 1
           grp   == IF known THEN groups[g] ELSE NewGroup(t)
           new   == Added(grp, l, isLite)
           steps == AddSteps(grp, l, isLite)
<1>0. Typed /\ Once /\ [Next]_vars /\ isLite \in BOOLEAN
  BY BoundsAssumption DEF Fallbacks, Next, Application
<1>1. /\ grp \in Group
      /\ \A h \in DOMAIN groups' : groups'[h] = IF h = g THEN new ELSE groups[h]
      /\ (known <=> g \in DOMAIN groups) /\ DOMAIN groups = 1 .. Len(groups)
      /\ DOMAIN groups' = IF known THEN 1 .. Len(groups) ELSE 1 .. Len(groups) + 1
      /\ Call(t, g, steps)
  BY <1>0, AddListenerDoes
<1>2. Len(groups) \in Nat /\ (known => groups[g].target = t)
  BY <1>0, Lengths DEF Fallbacks, TargetsFit
<1>3. steps # <<>> => Tail(steps) # <<"lite">>
  <2> HIDE DEF grp
  <2> QED
    BY <1>0, <1>1, AddAsks
<1> HIDE DEF g, new, steps, known, grp
<1>4. /\ \A v \in Fresh : /\ steps # <<>> /\ requests'[v].rest = Tail(steps)
                          /\ requests'[v].call = used.calls + 1 /\ \A w \in Fresh : w = v
      /\ used.calls \in Nat /\ used'.calls = used.calls + 1
      /\ \A c \in open : c \in open'
  BY <1>0, <1>1, CallMakes
<1>5. FallsBack'
  <2> SUFFICES ASSUME NEW u \in Outstanding', requests'[u].rest = <<"lite">>
               PROVE  /\ requests'[u].call # 0
                      /\ [call |-> requests'[u].call, target |-> Target(u)'] \in open'
                      /\ FullListeners(groups'[requests'[u].group]) = {}
    BY DEF FallsBack
  <2>1. /\ u \in Outstanding /\ u \in DOMAIN requests /\ requests'[u] = requests[u]
        /\ Target(u)' = Target(u) /\ requests[u].group \in DOMAIN groups
    BY <1>0, <1>3, <1>4, OutstandingKept
  <2>2. /\ requests[u].call # 0 /\ [call |-> requests[u].call, target |-> Target(u)] \in open
        /\ FullListeners(groups[requests[u].group]) = {}
    BY <2>1 DEF Fallbacks, FallsBack
  <2>3. Target(u) # t
    BY <2>2 DEF AddListener, MayCall
  <2>4. groups'[requests[u].group] = groups[requests[u].group]
    BY <1>1, <1>2, <2>1, <2>3 DEF Target
  <2> QED
    BY <1>4, <2>1, <2>2, <2>4
<1>6. CallsApart'
  BY <1>0, <1>4, CallsStayApart DEF Fallbacks
<1> QED
  BY <1>5, <1>6

LEMMA RemoveListenerFalls ==
  ASSUME Fallbacks, NEW t \in Targets, NEW l \in Listeners, RemoveListener(t, l)
  PROVE  CallsApart' /\ FallsBack'
<1> DEFINE g     == FoundForRemoval(t)
           new   == Removed(groups[g], l)
           steps == RemoveSteps(groups[g], l)
<1>0. Typed /\ Once /\ [Next]_vars
  BY DEF Fallbacks, Next, Application
<1>1. /\ DOMAIN groups' = DOMAIN groups
      /\ g = 0 => groups' = groups /\ Call(t, g, <<>>)
      /\ g # 0 => /\ g = groupOf[t] /\ g \in DOMAIN groups /\ groups[g] \in Group
                  /\ \A h \in DOMAIN groups : groups'[h] = IF h = g THEN new ELSE groups[h]
                  /\ Call(t, g, steps)
      /\ \A h \in DOMAIN groups : groups'[h].target = groups[h].target
  BY <1>0, RemoveListenerDoes
<1>2. g # 0 => /\ groups[g].target = t /\ FullListeners(new) \subseteq FullListeners(groups[g])
               /\ steps # <<>> /\ Tail(steps) = <<"lite">> => FullListeners(new) = {}
  <2>1. g # 0 => CountBounds(groups[g]) /\ groups[g].target = t
    BY <1>1 DEF Fallbacks, GroupsInv, TargetsFit
  <2> QED
    BY <1>1, <2>1, RemovedFull, FallBackAsks
<1> HIDE DEF g, new, steps
<1>3. PICK ss : Call(t, g, ss) /\ (ss # <<>> => g # 0 /\ ss = steps)
  BY <1>1
<1>4. /\ \A v \in Fresh : /\ ss # <<>> /\ requests'[v].rest = Tail(ss) /\ requests'[v].group = g
                          /\ requests'[v].call = used.calls + 1 /\ \A w \in Fresh : w = v
      /\ used.calls \in Nat /\ used'.calls = used.calls + 1
      /\ ss # <<>> => open' = open \cup {[call |-> used.calls + 1, target |-> t]}
      /\ \A c \in open : c \in open'
  BY <1>0, <1>3, CallMakes
<1>5. FallsBack'
  <2> SUFFICES ASSUME NEW u \in Outstanding', requests'[u].rest = <<"lite">>
               PROVE  /\ requests'[u].call # 0
                      /\ [call |-> requests'[u].call, target |-> Target(u)'] \in open'
                      /\ FullListeners(groups'[requests'[u].group]) = {}
    BY DEF FallsBack
  <2>1. CASE u \in Fresh
    <3>1. /\ g # 0 /\ ss = steps /\ steps # <<>> /\ Tail(steps) = <<"lite">>
          /\ requests'[u].group = g /\ requests'[u].call = used.calls + 1
      BY <1>3, <1>4, <2>1
    <3>2. groups'[g] = new /\ groups'[g].target = t
      BY <1>1, <1>2, <3>1
    <3> QED
      BY <1>2, <1>4, <3>1, <3>2 DEF Target
  <2>2. CASE u \notin Fresh
    <3>1. /\ u \in Outstanding /\ u \in DOMAIN requests /\ requests'[u] = requests[u]
          /\ Target(u)' = Target(u) /\ requests[u].group \in DOMAIN groups
      BY <1>0, <2>2, OutstandingKept
    <3>2. /\ requests[u].call # 0 /\ [call |-> requests[u].call, target |-> Target(u)] \in open
          /\ FullListeners(groups[requests[u].group]) = {}
      BY <3>1 DEF Fallbacks, FallsBack
    <3>3. FullListeners(groups'[requests[u].group]) = {}
      BY <1>1, <1>2, <3>1, <3>2
    <3> QED
      BY <1>4, <3>1, <3>2, <3>3
  <2> QED
    BY <2>1, <2>2
<1>6. CallsApart'
  BY <1>0, <1>4, CallsStayApart DEF Fallbacks
<1> QED
  BY <1>5, <1>6

LEMMA SettledFalls ==
  ASSUME Fallbacks, jobs # <<>>, SettledJob(Head(jobs))
  PROVE  CallsApart' /\ FallsBack'
<1> DEFINE v    == Head(jobs).uid
           r    == requests[v]
           left == r.rest
<1>0. Typed /\ Once /\ [Next]_vars
  BY DEF Fallbacks, Next, RunJob
<1>1. v \in DOMAIN requests
  <2>1. Head(jobs) \in JobSet(Len(requests), Len(streams)) /\ Head(jobs).do = "settled"
    BY <1>0, JobTypes DEF Typed, SettledJob
  <2>2. DOMAIN requests = 1 .. Len(requests)
    BY <1>0, LenProperties DEF Typed, MessagesOK
  <2> QED
    BY <2>1, <2>2 DEF JobSet
<1>2. /\ groups' = groups /\ used' = used
      /\ \A c \in open : c.call # r.call => c \in open'
      /\ IF left = <<>> THEN requests' = requests \o <<>>
                        ELSE requests' = requests \o <<Request(r.group, left, r.call)>>
  BY DEF SettledJob, Send
<1>3. v \in Outstanding /\ v \notin Outstanding'
  BY <1>0, SettledJobOnce
<1>4. \A w \in Fresh : /\ left # <<>> /\ requests'[w].rest = Tail(left) /\ requests'[w].call = r.call
                       /\ \A x \in Fresh : x = w
  <2>1. CASE left = <<>>
    <3>1. requests' = requests
      BY <1>0, <1>2, <2>1, ConcatEmptySeq DEF Typed, MessagesOK
    <3> QED
      BY <3>1 DEF Fresh
  <2>2. CASE left # <<>>
    <3> HIDE DEF r, left
    <3> QED
      BY <1>0, <1>2, <2>2, OneMade
  <2> QED
    BY <2>1, <2>2
<1>5. left # <<>> => Tail(left) = <<>>
  <2>1. left # <<>> => left = <<"lite">> \/ left = <<"full">>
    BY <1>1 DEF Fallbacks, RestsFit, RestFit
  <2> HIDE DEF left
  <2>2. Tail(<<"lite">>) = <<>> /\ Tail(<<"full">>) = <<>>
    OBVIOUS
  <2> QED
    BY <2>1, <2>2
<1> HIDE DEF v, left
<1>6. FallsBack'
  <2> SUFFICES ASSUME NEW u \in Outstanding', requests'[u].rest = <<"lite">>
               PROVE  /\ requests'[u].call # 0
                      /\ [call |-> requests'[u].call, target |-> Target(u)'] \in open'
                      /\ FullListeners(groups'[requests'[u].group]) = {}
    BY DEF FallsBack
  <2>1. <<>> # <<"lite">>
    OBVIOUS
  <2>2. /\ u \in Outstanding /\ u \in DOMAIN requests /\ requests'[u] = requests[u]
        /\ Target(u)' = Target(u)
    BY <1>0, <1>4, <1>5, <2>1, OutstandingKept
  <2>3. /\ requests[u].call # 0 /\ [call |-> requests[u].call, target |-> Target(u)] \in open
        /\ FullListeners(groups[requests[u].group]) = {}
    BY <2>2 DEF Fallbacks, FallsBack
  <2>4. requests[u].call # r.call
    BY <1>3, <2>2, <2>3 DEF Fallbacks, CallsApart
  <2> QED
    BY <1>2, <2>2, <2>3, <2>4
<1>7. CallsApart'
  <2>1. used'.calls = used.calls
    BY <1>2
  <2> QED
    BY <1>0, <1>1, <1>3, <1>4, <2>1, CallsStayApart DEF Fallbacks
<1> QED
  BY <1>6, <1>7

LEMMA RenewsFalls ==
  ASSUME Fallbacks, Renews, [Next]_vars
  PROVE  CallsApart' /\ FallsBack'
<1>0. Typed /\ Once
  BY DEF Fallbacks
<1>1. /\ groups' = groups /\ open' = open /\ used'.calls = used.calls
      /\ \A v \in Fresh : requests'[v].rest = <<>> /\ requests'[v].call = 0
  BY <1>0, RenewsDoes DEF Renews, registry
<1>2. FallsBack'
  <2>1. <<>> # <<"lite">>
    OBVIOUS
  <2>2. ASSUME NEW u \in Outstanding', requests'[u].rest = <<"lite">>
        PROVE  /\ u \in Outstanding /\ u \in DOMAIN requests /\ requests'[u] = requests[u]
               /\ Target(u)' = Target(u)
    BY <1>0, <1>1, <2>1, <2>2, OutstandingKept
  <2> QED
    BY <1>1, <2>2 DEF FallsBack, Fallbacks
<1>3. CallsApart'
  BY <1>0, <1>1, CallsStayApart DEF Fallbacks
<1> QED
  BY <1>2, <1>3

LEMMA NextFalls ==
  ASSUME Serial, Fallbacks, [Next]_vars
  PROVE  CallsApart' /\ FallsBack'
  BY StepKinds, AddListenerFalls, RemoveListenerFalls, SettledFalls, RenewsFalls DEF Fallbacks

\* Through a step in which no request is taken.
LEMMA WordsStay ==
  ASSUME Typed, Words, StepWords, StepLines, OneInv', [Next]_vars
  PROVE  Words'
<1>1. /\ RequestsKept
      /\ \A u \in DOMAIN requests : Target(u)' = Target(u)
  BY TargetsStay
<1>2. DOMAIN requests = 1 .. Len(requests) /\ Len(requests) \in Nat
      /\ DOMAIN requests' = 1 .. Len(requests') /\ Len(requests') \in Nat
  BY NextTyped, LenProperties DEF Typed, MessagesOK
<1> SUFFICES ASSUME NEW s \in DOMAIN streams', NEW t \in Targets, NEW u \in DOMAIN requests',
                    Serving(streams'[s]), Wanted(u)', Target(u)' = t, requests'[u].step = "lite",
                    u \in Underway(streams', jobs', s) \/ streams'[s].subs[t] = u
             PROVE  \E v \in DOMAIN requests' : v > u /\ Target(v)' = t /\ requests'[v].step # "lite"
                                                /\ v \in Underway(streams', jobs', s)
  BY DEF Words
<1>3. u \notin Fresh /\ u \in DOMAIN requests /\ requests'[u] = requests[u] /\ Target(u) = t
  BY <1>1 DEF StepWords, Fresh, RequestsKept
<1>4. CASE \E v \in Fresh : Target(v)' = t /\ requests'[v].step # "lite"
  <2>1. PICK v \in Fresh : Target(v)' = t /\ requests'[v].step # "lite"
    BY <1>4
  <2>2. v \in DOMAIN requests' /\ v > u
    BY <1>2, <1>3, <2>1 DEF Fresh
  <2>3. v \in Underway(streams', jobs', streamPromise')
    BY DEF StepLines, Sent
  <2>4. s = streamPromise'
    BY DEF OneInv, OneStream, Serving, Living
  <2> QED
    BY <2>1, <2>2, <2>3, <2>4
<1>5. CASE ~\E v \in Fresh : Target(v)' = t /\ requests'[v].step # "lite"
  <2>1. Wanted(u)
    BY <1>3, <1>5 DEF StepWords
  <2>2. Flow(streams, jobs, streams', jobs', Fresh)
    BY DEF StepLines
  <2>3. s \in DOMAIN streams
    <3>1. u # 0
      BY <1>2
    <3> QED
      BY <1>3, <2>2, <3>1 DEF Flow, NoSubscriptions
  <2>4. /\ Serving(streams[s]) /\ streams'[s].subs = streams[s].subs
        /\ Underway(streams, jobs, s) \subseteq Underway(streams', jobs', s)
        /\ Underway(streams', jobs', s) \subseteq Underway(streams, jobs, s) \cup Fresh
    BY <2>2, <2>3 DEF Flow
  <2>5. u \in Underway(streams, jobs, s) \/ streams[s].subs[t] = u
    BY <1>3, <2>4
  <2>6. PICK v \in DOMAIN requests : v > u /\ Target(v) = t /\ requests[v].step # "lite"
                                     /\ v \in Underway(streams, jobs, s)
    BY <1>3, <2>1, <2>3, <2>4, <2>5 DEF Words
  <2> QED
    BY <1>1, <2>4, <2>6 DEF RequestsKept
<1> QED
  BY <1>4, <1>5

\* The request that is taken is the first of those under way.
LEMMA WordsTaken ==
  ASSUME Typed, Lines, Words, NEW x \in DOMAIN streams, ServerReceive(x)
  PROVE  Words'
<1> DEFINE h == Head(streams[x].toServer)
<1>1. /\ streams[x].toServer \in Seq(Nat) /\ streams[x].toServer # <<>> /\ h \in DOMAIN requests
      /\ streams'[x].wire = streams[x].wire /\ streams'[x].waiters = streams[x].waiters
      /\ streams'[x].toServer = Tail(streams[x].toServer)
      /\ \A y \in Targets : streams'[x].subs[y] = IF y # Target(h) THEN streams[x].subs[y]
                                                  ELSE IF requests[h].step = "unsub" THEN 0 ELSE h
      /\ DOMAIN streams' = DOMAIN streams
      /\ \A y \in DOMAIN streams : y # x => streams'[y] = streams[y]
      /\ jobs = <<>> /\ jobs' = <<>> /\ requests' = requests
  BY ServerReceiveDoes
<1>2. groupOf' = groupOf /\ groups' = groups
  BY DEF ServerReceive, registry
<1>3. DOMAIN requests = 1 .. Len(requests) /\ Len(requests) \in Nat
  BY LenProperties DEF Typed, MessagesOK
<1>4. Range(streams[x].toServer) = {h} \cup Range(Tail(streams[x].toServer)) /\ h \in Nat
  BY <1>1, RangeOfTail
<1>5. \A w \in Range(Tail(streams[x].toServer)) : h < w
  <2> DEFINE q == streams[x].toServer
  <2>1. Rising(q)
    BY DEF Lines, LinesOK, InLines, InLine
  <2>2. q \in Seq(Nat) /\ q # <<>>
    BY <1>1
  <2> HIDE DEF q
  <2>3. 1 \in DOMAIN q /\ h = q[1]
    BY <2>2, <1>1 DEF q
  <2>4. \A i \in DOMAIN Tail(q) : i + 1 \in DOMAIN q /\ Tail(q)[i] = q[i + 1] /\ i \in Nat /\ i > 0
    BY <2>2
  <2> QED
    BY <2>1, <2>3, <2>4 DEF Rising, Range, q
<1>6. \A w \in Written(streams[x].waiters, x) : h < w
  <2>1. h \in Carried(streams[x])
    BY <1>4 DEF Carried
  <2> QED
    BY <2>1 DEF Written, Lines, LinesOK, InLines, InLine, Behind
<1> HIDE DEF h
<1>7. /\ \A w : w \in Underway(streams, jobs, x) <=> w = h \/ w \in Underway(streams', jobs', x)
      /\ \A w \in Underway(streams', jobs', x) : h < w
  <2>1. \A w : w \notin Written(jobs, x)
    BY <1>1 DEF Written, Range
  <2>2. jobs' = jobs
    BY <1>1
  <2> QED
    BY <1>1, <1>4, <1>5, <1>6, <2>1, <2>2 DEF Underway
<1>10. /\ \A u : Wanted(u)' <=> Wanted(u)
       /\ \A u : Target(u)' = Target(u)
  BY <1>1, <1>2 DEF Wanted, Wants, Target
<1> SUFFICES ASSUME NEW s \in DOMAIN streams, NEW t \in Targets, NEW u \in DOMAIN requests,
                    Serving(streams'[s]), Wanted(u), Target(u) = t, requests[u].step = "lite",
                    u \in Underway(streams', jobs', s) \/ streams'[s].subs[t] = u
             PROVE  \E v \in DOMAIN requests : v > u /\ Target(v) = t /\ requests[v].step # "lite"
                                               /\ v \in Underway(streams', jobs', s)
  BY <1>1, <1>10 DEF Words
<1>8. CASE s # x
  <2>1. streams'[s] = streams[s] /\ jobs' = jobs
    BY <1>1, <1>8
  <2>2. Underway(streams', jobs', s) = Underway(streams, jobs, s)
    BY <2>1 DEF Underway
  <2> QED
    BY <2>1, <2>2 DEF Words
<1>9. CASE s = x
  <2>1. Serving(streams[x])
    BY <1>1, <1>9 DEF Serving
  <2>2. ASSUME u \in Underway(streams', jobs', x) \/ u = h
        PROVE  \E v \in DOMAIN requests : v > u /\ Target(v) = t /\ requests[v].step # "lite"
                                          /\ v \in Underway(streams', jobs', x)
    <3>1. u \in Underway(streams, jobs, x)
      BY <1>7, <2>2
    <3>2. PICK v \in DOMAIN requests : v > u /\ Target(v) = t /\ requests[v].step # "lite"
                                       /\ v \in Underway(streams, jobs, x)
      BY <2>1, <3>1 DEF Words
    <3>3. v # h
      BY <1>3, <1>4, <1>7, <2>2, <3>2
    <3> QED
      BY <1>7, <3>2, <3>3
  <2>3. CASE streams'[x].subs[t] = u /\ Target(h) = t
    <3>1. u # 0
      BY <1>3
    <3>2. u = h
      BY <1>1, <2>3, <3>1
    <3> QED
      BY <1>9, <2>2, <3>2
  <2>4. CASE streams'[x].subs[t] = u /\ Target(h) # t
    <3>1. streams[x].subs[t] = u
      BY <1>1, <2>4
    <3>2. PICK v \in DOMAIN requests : v > u /\ Target(v) = t /\ requests[v].step # "lite"
                                       /\ v \in Underway(streams, jobs, x)
      BY <2>1, <3>1 DEF Words
    <3>3. v \in Underway(streams', jobs', x)
      BY <1>7, <2>4, <3>2
    <3> QED
      BY <1>9, <3>2, <3>3
  <2> QED
    BY <1>9, <2>2, <2>3, <2>4
<1> QED
  BY <1>8, <1>9

\* All that the proof of ValuesDelivered needs where errors are prompt.
WordsFit == Fallbacks /\ SubsFit /\ IdsFit /\ Lines /\ OneInv /\ Words

LEMMA InitWords == Init => WordsFit
<1> SUFFICES ASSUME Init PROVE WordsFit
  OBVIOUS
<1>1. requests = <<>> /\ groups = <<>> /\ groupOf = NoSubscriptions /\ filterIds = [id \in {0} |-> 0]
  BY DEF Init
<1>2. RestsFit /\ Words /\ TargetsFit /\ GroupsInv /\ IdsFit
  BY <1>1 DEF RestsFit, Words, TargetsFit, GroupsInv, NoSubscriptions, IdsFit
<1>3. \A u : u \notin Outstanding
  BY <1>1, InitTyped, HeldTyped
<1> QED
  BY <1>1, <1>2, <1>3, InitTyped, InitSubs, InitOnce, InitLines, InitOne
     DEF WordsFit, Fallbacks, CallsApart, FallsBack

LEMMA NextWords ==
  ASSUME Prompt, MaxTimeouts = 0, Serial, WordsFit, [Next]_vars
  PROVE  WordsFit'
<1>0. Fallbacks /\ Typed /\ GroupsInv /\ TargetsFit /\ RestsFit /\ Once /\ FallsBack
  BY DEF WordsFit, Fallbacks
<1>1. Typed' /\ GroupsInv' /\ TargetsFit' /\ SubsFit' /\ IdsFit' /\ Once' /\ Lines' /\ OneInv'
  BY <1>0, NextTyped, GroupsInvStep, NextTargetsFit, NextSubs, NextIds, NextOnce, NextKeepsLines, NextOne
     DEF WordsFit, StepOnce
<1>2. StepWords /\ RestsFit' /\ CallsApart' /\ FallsBack'
  BY <1>0, NextAsksWords, NextFalls
<1>3. Words'
  BY <1>0, <1>1, <1>2, NextLines, WordsStay, WordsTaken DEF WordsFit
<1> QED
  BY <1>1, <1>2, <1>3 DEF WordsFit, Fallbacks

\* What rests on the proxy when nothing is under way is what was asked last.
LEMMA WordsDeliver == WordsFit => ValuesDelivered
<1> SUFFICES ASSUME WordsFit, Quiet, NEW t \in Keys \cup Filters, NEW s \in Subscriptions(t),
                    Dispatch(t, streams[s].subs[t]) # 0,
                    NEW l \in FullListeners(groups[Dispatch(t, streams[s].subs[t])])
             PROVE  requests[streams[s].subs[t]].step = "full"
  BY DEF ValuesDelivered
<1> DEFINE u == streams[s].subs[t]
           g == Dispatch(t, u)
<1>0. Typed /\ GroupsInv /\ SubsFit /\ IdsFit
  BY DEF WordsFit, Fallbacks
<1>1. /\ t \in Targets /\ s \in DOMAIN streams /\ g \in DOMAIN groups /\ u # 0
      /\ u \in DOMAIN requests /\ Target(u) = t /\ requests[u].step \in {"lite", "full"}
      /\ g = groupOf[t] \/ g = requests[u].group
  BY <1>0, DispatchedTo DEF Subscriptions
<1>2. FullListeners(groups[g]) # {} /\ g # 0
  OBVIOUS
<1> HIDE DEF g
<1>4. Wanted(u)
  <2>1. g = groupOf[t] => Wants(t)
    BY <1>0, <1>1, <1>2 DEF Wants, GroupsInv, LiteMeansLite
  <2> QED
    BY <1>1, <1>2, <2>1 DEF Wanted
<1>5. Serving(streams[s])
  <2>1. FitStream(streams[s]) /\ streams[s].wire \notin {"broken", "ended"}
    BY <1>1 DEF WordsFit, OneInv, OneStream, Quiet
  <2> QED
    BY <1>1, <2>1 DEF FitStream, Silent, NoSubscriptions, Serving
<1>6. \A v : v \notin Underway(streams, jobs, s)
  <2>1. /\ jobs = <<>> /\ streams[s].toServer = <<>> /\ streams[s].promise # "pending"
        /\ \A j : j \notin Range(streams[s].waiters)
    BY <1>1 DEF Quiet, WordsFit, Lines, LinesOK, InLines, InLine
  <2>2. \A v : v \notin Written(jobs, s) /\ v \notin Range(streams[s].toServer)
    BY <2>1 DEF Written, Range
  <2>3. \A v : v \notin Written(streams[s].waiters, s)
    BY <2>1 DEF Written
  <2> QED
    BY <2>2, <2>3 DEF Underway
<1>7. requests[u].step # "lite"
  BY <1>1, <1>4, <1>5, <1>6 DEF WordsFit, Words
<1> QED
  BY <1>1, <1>7

\* A listener that wants values is never left with lite events, be its group in
\* the maps or reached by its filter id only: for an application that uses one of
\* the flags, or one that uses both but awaits a call before the next one on that
\* target, where a failed stream is reported before anything else happens and no
\* wait for the channel expires.  Without the awaiting it fails.
THEOREM ValuesAreDelivered ==
  ASSUME OneMode \/ (Prompt /\ MaxTimeouts = 0 /\ Serial)
  PROVE  Spec => []ValuesDelivered
<1>1. CASE OneMode
  <2>1. ModeFits /\ IdsFit => ValuesDelivered
    BY ModeDelivers
  <2>2. Spec => []ModeFits
    BY <1>1, ModeInvariant
  <2>3. Init => IdsFit
    BY DEF Init, IdsFit
  <2>4. ModeFits /\ IdsFit /\ [Next]_vars => IdsFit'
    BY NextIds DEF ModeFits
  <2> QED
    BY <2>1, <2>2, <2>3, <2>4, PTL DEF Spec
<1>2. CASE Prompt /\ MaxTimeouts = 0 /\ Serial
  <2>1. Init => WordsFit
    BY InitWords
  <2>2. WordsFit /\ [Next]_vars => WordsFit'
    BY <1>2, NextWords
  <2>3. WordsFit => ValuesDelivered
    BY WordsDeliver
  <2> QED
    BY <2>1, <2>2, <2>3, PTL DEF Spec
<1> QED
  BY <1>1, <1>2

----------------------------------------------------------------------------
(* One call at a time: who is registered, and with which group.            *)

\* A group that has listeners is the one found under its target.
Owned == \A g \in DOMAIN groups : \A l \in Registered(groups[g]) : groupOf[groups[g].target] = g

\* While an unsubscribe is yet to be settled its call is open, so that no
\* other call is about its target, and nobody is registered for it.
Guarded ==
  \A u \in Outstanding : requests[u].step = "unsub" =>
    /\ [call |-> requests[u].call, target |-> Target(u)] \in open
    /\ \A g \in DOMAIN groups : groups[g].target = Target(u) => \A l \in Listeners : l \notin Registered(groups[g])

RegistryInv == TargetsFit /\ Owned /\ Guarded /\ IdsFit

RegistryFits == ModeFits /\ Once /\ RegistryInv

LEMMA StillOutstanding ==
  ASSUME RegistryFits, [Next]_vars, NEW u \in Outstanding'
  PROVE  /\ u \in DOMAIN requests' /\ (u \in DOMAIN requests => u \in Outstanding)
         /\ u \in Fresh \/ (u \in Outstanding /\ u \in DOMAIN requests /\ requests'[u] = requests[u]
                              /\ Target(u)' = Target(u) /\ requests[u].group \in DOMAIN groups)
  BY OutstandingKept DEF RegistryFits, ModeFits

LEMMA AddListenerRegistry ==
  ASSUME Serial, OneMode, RegistryFits,
         NEW t \in Targets, NEW l \in Listeners, NEW isLite \in Modes, AddListener(t, l, isLite)
  PROVE  Owned' /\ Guarded'
<1> DEFINE known == groupOf[t] # 0
           g     == IF known THEN groupOf[t] ELSE Len(groups) + 1
           grp   == IF known THEN groups[g] ELSE NewGroup(t)
           new   == Added(grp, l, isLite)
           steps == AddSteps(grp, l, isLite)
           step  == Flag(isLite)
<1>0. Typed /\ GroupsInv /\ GroupsUniform /\ isLite \in BOOLEAN
  BY BoundsAssumption DEF RegistryFits, ModeFits, ModeInv
<1>1. /\ new.target = grp.target
      /\ \A h \in DOMAIN groups' : groups'[h] = IF h = g THEN new ELSE groups[h]
      /\ DOMAIN groups = 1 .. Len(groups) /\ (known <=> g \in DOMAIN groups) /\ g \in DOMAIN groups'
      /\ DOMAIN groups' = IF known THEN 1 .. Len(groups) ELSE 1 .. Len(groups) + 1
      /\ groupOf' = [groupOf EXCEPT ![t] = g] /\ Call(t, g, steps)
  BY <1>0, AddListenerDoes
<1>2. steps \in {<<>>, <<step>>}
  BY <1>0, AddListenerMode
<1>3. new.target = t
  <2>1. known => groups[groupOf[t]].target = t
    BY DEF RegistryFits, RegistryInv, TargetsFit
  <2> QED
    BY <1>1, <2>1 DEF NewGroup
<1>4. Len(groups) \in Nat /\ groupOf \in [Targets -> 0 .. Len(groups)]
  BY <1>0, Lengths DEF Typed, RegistryOK
<1>5. \A h \in DOMAIN groups' : h # g => h \in DOMAIN groups /\ groups'[h] = groups[h]
  BY <1>1, <1>4
<1>6. step # "unsub"
  BY DEF Flag
<1>7. known => groupOf[t] = g
  OBVIOUS
<1>8. [Next]_vars
  BY DEF Next, Application
<1> HIDE DEF g, new, steps, step, known
<1>9. /\ RequestsKept
      /\ steps = <<>> => Fresh = {} /\ open' = open
      /\ steps # <<>> => /\ open' = open \cup {[call |-> used.calls + 1, target |-> t]}
                         /\ \A u \in Fresh : requests'[u] = [group |-> g, step |-> step, rest |-> <<>>, call |-> used.calls + 1]
  BY <1>0, <1>1, <1>2, CallDoes
<1>10. \A c \in open : c \in open' /\ c.target # t
  BY <1>9 DEF AddListener, MayCall
<1>11. \A u \in Fresh : requests'[u].step # "unsub"
  BY <1>6, <1>9
<1>12. Owned'
  <2>1. ASSUME NEW h \in DOMAIN groups', NEW k \in Registered(groups'[h])
        PROVE  groupOf'[groups'[h].target] = h
    <3>1. CASE h = g
      BY <1>1, <1>3, <1>4, <3>1
    <3>2. CASE h # g
      <4>1. h \in DOMAIN groups /\ groups'[h] = groups[h]
        BY <1>5, <3>2
      <4>2. groupOf[groups[h].target] = h
        BY <2>1, <4>1 DEF RegistryFits, RegistryInv, Owned
      <4>3. groups[h].target # t
        <5>1. h # 0
          BY <1>1, <4>1
        <5> QED
          BY <1>7, <3>2, <4>2, <5>1 DEF known
      <4> QED
        BY <1>1, <4>1, <4>2, <4>3
    <3> QED
      BY <3>1, <3>2
  <2> QED
    BY <2>1 DEF Owned
<1>13. Guarded'
  <2>1. ASSUME NEW u \in Outstanding', requests'[u].step = "unsub"
        PROVE  /\ [call |-> requests'[u].call, target |-> Target(u)'] \in open'
               /\ \A h \in DOMAIN groups' : groups'[h].target = Target(u)' => \A k \in Listeners : k \notin Registered(groups'[h])
    <3>1. u \in Outstanding /\ u \in DOMAIN requests /\ requests'[u] = requests[u] /\ Target(u)' = Target(u)
      BY <1>8, <1>11, <2>1, StillOutstanding
    <3>2. /\ [call |-> requests[u].call, target |-> Target(u)] \in open
          /\ \A h \in DOMAIN groups : groups[h].target = Target(u) => \A k \in Listeners : k \notin Registered(groups[h])
      BY <2>1, <3>1 DEF RegistryFits, RegistryInv, Guarded
    <3>3. Target(u) # t /\ [call |-> requests[u].call, target |-> Target(u)] \in open'
      BY <1>10, <3>2
    <3> QED
      BY <1>1, <1>3, <1>5, <3>1, <3>2, <3>3
  <2> QED
    BY <2>1 DEF Guarded
<1> QED
  BY <1>12, <1>13

LEMMA RemoveListenerRegistry ==
  ASSUME Serial, OneMode, RegistryFits,
         NEW t \in Targets, NEW l \in Listeners, RemoveListener(t, l)
  PROVE  Owned' /\ Guarded'
<1> DEFINE g     == FoundForRemoval(t)
           new   == Removed(groups[g], l)
           steps == RemoveSteps(groups[g], l)
           step  == "unsub"
<1>0. Typed /\ GroupsInv /\ GroupsUniform
  BY DEF RegistryFits, ModeFits, ModeInv
<1>1. /\ DOMAIN groups' = DOMAIN groups /\ groupOf' = groupOf
      /\ g = 0 => groups' = groups /\ Call(t, g, <<>>)
      /\ g # 0 => /\ g = groupOf[t] /\ g \in DOMAIN groups /\ groups[g] \in Group
                  /\ \A h \in DOMAIN groups : groups'[h] = IF h = g THEN new ELSE groups[h]
                  /\ Call(t, g, steps)
      /\ \A h \in DOMAIN groups : groups'[h].target = groups[h].target
  BY <1>0, RemoveListenerDoes
<1>2. g # 0 => /\ groups[g].target = t /\ Registered(new) = Registered(groups[g]) \ {l}
               /\ steps # <<>> => steps = <<step>> /\ \A k : k \notin Registered(new)
  <2>1. g # 0 => Uniform(groups[g]) /\ CountBounds(groups[g])
    BY <1>0, <1>1 DEF GroupsInv, GroupsUniform
  <2>2. g # 0 => groups[g].target = t
    BY <1>1 DEF RegistryFits, RegistryInv, TargetsFit
  <2> HIDE DEF g
  <2>3. g # 0 => Registered(new) = Registered(groups[g]) \ {l}
    BY <1>1, RemovedRegistered
  <2>4. g # 0 /\ steps # <<>> => steps = <<step>> /\ \A k : k \notin Registered(new)
    BY <1>1, <2>1, RemoveStepsOne
  <2> QED
    BY <2>2, <2>3, <2>4
<1>3. [Next]_vars
  BY DEF Next, Application
<1> HIDE DEF g, new, steps
<1>4. \A h \in DOMAIN groups' : \A k \in Registered(groups'[h]) : h \in DOMAIN groups /\ k \in Registered(groups[h])
  BY <1>1, <1>2
<1>5. PICK ss : (ss = <<>> \/ ss = <<step>>) /\ Call(t, g, ss) /\ (ss # <<>> => g # 0 /\ steps # <<>>)
  BY <1>1, <1>2
<1> HIDE DEF step
<1>6. /\ RequestsKept
      /\ ss = <<>> => Fresh = {} /\ open' = open
      /\ ss # <<>> => /\ open' = open \cup {[call |-> used.calls + 1, target |-> t]}
                      /\ \A u \in Fresh : requests'[u] = [group |-> g, step |-> step, rest |-> <<>>, call |-> used.calls + 1]
  BY <1>0, <1>5, CallDoes
<1>7. \A c \in open : c \in open'
  BY <1>6
<1>8. Owned'
  BY <1>1, <1>4 DEF Owned, RegistryFits, RegistryInv
<1>9. Guarded'
  <2>1. ASSUME NEW u \in Outstanding', requests'[u].step = "unsub", u \in Fresh
        PROVE  /\ [call |-> requests'[u].call, target |-> groups'[requests'[u].group].target] \in open'
               /\ \A h \in DOMAIN groups' : groups'[h].target = groups'[requests'[u].group].target
                                              => \A k \in Listeners : k \notin Registered(groups'[h])
    <3>1. ss # <<>>
      BY <1>6, <2>1
    <3>2. /\ g # 0 /\ requests'[u].group = g /\ requests'[u].call = used.calls + 1
          /\ [call |-> used.calls + 1, target |-> t] \in open' /\ steps # <<>>
      BY <1>5, <1>6, <2>1, <3>1
    <3>3. groups'[g].target = t /\ \A k : k \notin Registered(groups'[g])
      BY <1>1, <1>2, <3>2
    <3>4. ASSUME NEW h \in DOMAIN groups', groups'[h].target = t, NEW k \in Listeners, k \in Registered(groups'[h])
          PROVE  FALSE
      <4>1. h \in DOMAIN groups /\ k \in Registered(groups[h]) /\ groups[h].target = t
        BY <1>1, <1>4, <3>4
      <4>2. groupOf[t] = h
        BY <4>1 DEF RegistryFits, RegistryInv, Owned
      <4> QED
        BY <1>1, <3>2, <3>3, <3>4, <4>2
    <3> QED
      BY <3>2, <3>3, <3>4
  <2>2. ASSUME NEW u \in Outstanding', requests'[u].step = "unsub", u \notin Fresh
        PROVE  /\ [call |-> requests'[u].call, target |-> Target(u)'] \in open'
               /\ \A h \in DOMAIN groups' : groups'[h].target = Target(u)' => \A k \in Listeners : k \notin Registered(groups'[h])
    <3>1. u \in Outstanding /\ u \in DOMAIN requests /\ requests'[u] = requests[u] /\ Target(u)' = Target(u)
      BY <1>3, <2>2, StillOutstanding
    <3>2. /\ [call |-> requests[u].call, target |-> Target(u)] \in open
          /\ \A h \in DOMAIN groups : groups[h].target = Target(u) => \A k \in Listeners : k \notin Registered(groups[h])
      BY <2>2, <3>1 DEF RegistryFits, RegistryInv, Guarded
    <3> QED
      BY <1>1, <1>4, <1>7, <3>1, <3>2
  <2> QED
    BY <2>1, <2>2 DEF Guarded, Target
<1> QED
  BY <1>8, <1>9

LEMMA SettledRegistry ==
  ASSUME OneMode, RegistryFits, jobs # <<>>, SettledJob(Head(jobs))
  PROVE  /\ Owned' /\ Guarded'
         /\ \A t \in Targets : Findable(t)' = Findable(t)
<1> DEFINE v == Head(jobs).uid
<1>0. Typed /\ Once /\ RequestsFit /\ \A u \in DOMAIN requests : requests[u].rest = <<>>
  BY DEF RegistryFits, ModeFits, ModeInv, RequestsFit
<1>1. /\ v \in DOMAIN requests /\ requests' = requests /\ groups' = groups
      /\ open' = {c \in open : c.call # requests[v].call}
      /\ IF requests[v].step = "unsub" THEN PostUnsubscribe(v) ELSE PostSubscribe(v)
  BY <1>0, SettledDoes
<1>2. v \in Outstanding /\ v \notin Outstanding'
  BY <1>0, SettledJobOnce
<1>3. [Next]_vars
  BY DEF Next, RunJob
<1> HIDE DEF v
<1>4. groupOf \in [Targets -> 0 .. Len(groups)] /\ DOMAIN groups = 1 .. Len(groups) /\ Len(groups) \in Nat
  BY <1>0, Lengths DEF Typed, RegistryOK
<1>5. \/ groupOf' = groupOf
      \/ /\ groupOf' = [groupOf EXCEPT ![Target(v)] = 0]
         /\ \A g \in DOMAIN groups : groups[g].target = Target(v) => \A l \in Listeners : l \notin Registered(groups[g])
  BY <1>1, <1>2 DEF PostUnsubscribe, PostSubscribe, RegistryFits, RegistryInv, Guarded
<1>6. Owned'
  <2>1. ASSUME NEW g \in DOMAIN groups, NEW l \in Registered(groups[g])
        PROVE  groupOf'[groups[g].target] = g
    <3>1. groupOf[groups[g].target] = g /\ l \in Listeners
      BY DEF RegistryFits, RegistryInv, Owned, Registered
    <3>2. groups[g].target \in Targets
      <4>1. groups \in Seq(Group) /\ g \in 1 .. Len(groups)
        BY <1>0, <1>4 DEF Typed, RegistryOK
      <4>2. groups[g] \in Group
        BY <4>1, ElementOfSeq
      <4> QED
        BY <4>2 DEF Group
    <3> QED
      BY <1>4, <1>5, <3>1, <3>2
  <2> QED
    BY <1>1, <2>1 DEF Owned
<1>7. ASSUME NEW t \in Targets PROVE Findable(t)' = Findable(t)
  <2>1. CASE groupOf'[t] = groupOf[t]
    BY <1>1, <2>1 DEF Findable
  <2>2. CASE groupOf'[t] # groupOf[t]
    <3>1. /\ groupOf'[t] = 0 /\ t = Target(v) /\ groupOf[t] # 0
          /\ \A g \in DOMAIN groups : groups[g].target = t => \A l \in Listeners : l \notin Registered(groups[g])
      BY <1>4, <1>5, <2>2
    <3>2. groupOf[t] \in DOMAIN groups /\ groups[groupOf[t]].target = t
      BY <1>4, <3>1 DEF RegistryFits, RegistryInv, TargetsFit
    <3>3. \A l : l \notin Registered(groups[groupOf[t]])
      BY <3>1, <3>2 DEF Registered
    <3>4. \A l : l \notin Findable(t)
      BY <3>3 DEF Findable
    <3>5. \A l : l \notin Findable(t)'
      BY <3>1 DEF Findable
    <3> QED
      BY <3>4, <3>5
  <2> QED
    BY <2>1, <2>2
<1>8. Guarded'
  <2>1. ASSUME NEW u \in Outstanding', requests[u].step = "unsub"
        PROVE  /\ [call |-> requests[u].call, target |-> Target(u)] \in open'
               /\ \A g \in DOMAIN groups : groups[g].target = Target(u) => \A l \in Listeners : l \notin Registered(groups[g])
    <3>1. u \in Outstanding /\ u \in DOMAIN requests
      BY <1>1, <1>3, <2>1, StillOutstanding
    <3>2. /\ [call |-> requests[u].call, target |-> Target(u)] \in open
          /\ \A g \in DOMAIN groups : groups[g].target = Target(u) => \A l \in Listeners : l \notin Registered(groups[g])
      BY <2>1, <3>1 DEF RegistryFits, RegistryInv, Guarded
    <3>3. requests[u].call # requests[v].call
      BY <1>0, <1>1, <1>2, <2>1, <3>1 DEF RequestsFit
    <3> QED
      BY <1>1, <3>2, <3>3
  <2> QED
    BY <1>1, <2>1 DEF Guarded, Target
<1> QED
  BY <1>6, <1>7, <1>8

LEMMA RenewsRegistry ==
  ASSUME RegistryFits, [Next]_vars, Renews
  PROVE  /\ Owned' /\ Guarded'
         /\ \A t \in Targets : Findable(t)' = Findable(t)
<1>0. Typed
  BY DEF RegistryFits, ModeFits
<1>1. UNCHANGED <<groups, groupOf, filterIds, open>>
  BY DEF Renews, registry
<1>2. /\ RequestsKept
      /\ \A u \in Fresh : requests'[u].step # "unsub"
  BY <1>0, RenewsDoes DEF Flag
<1>3. Guarded'
  <2>1. ASSUME NEW u \in Outstanding', requests'[u].step = "unsub"
        PROVE  /\ [call |-> requests'[u].call, target |-> Target(u)'] \in open'
               /\ \A g \in DOMAIN groups' : groups'[g].target = Target(u)' => \A l \in Listeners : l \notin Registered(groups'[g])
    <3>1. u \in Outstanding /\ u \in DOMAIN requests /\ requests'[u] = requests[u] /\ Target(u)' = Target(u)
      BY <1>2, <2>1, StillOutstanding
    <3> QED
      BY <1>1, <2>1, <3>1 DEF RegistryFits, RegistryInv, Guarded
  <2> QED
    BY <2>1 DEF Guarded
<1>4. Owned'
  BY <1>1 DEF Owned, RegistryFits, RegistryInv
<1>5. \A t \in Targets : Findable(t)' = Findable(t)
  BY <1>1 DEF Findable
<1> QED
  BY <1>3, <1>4, <1>5

LEMMA InitRegistry == Init => RegistryInv
<1> SUFFICES ASSUME Init PROVE RegistryInv
  OBVIOUS
<1>1. \A u : u \notin Outstanding
  <2>1. pending = {} /\ jobs = <<>> /\ DOMAIN streams = {1} /\ streams[1] = NewStream
    BY DEF Init
  <2>2. Uids(<<>>) = {}
    BY DEF Uids
  <2> QED
    BY <2>1, <2>2, NewStreamIs DEF Outstanding, Held
<1>2. TargetsFit /\ Owned /\ IdsFit
  BY DEF Init, TargetsFit, Owned, IdsFit, NoSubscriptions
<1> QED
  BY <1>1, <1>2 DEF RegistryInv, Guarded

LEMMA NextRegistry ==
  ASSUME Serial, OneMode
  PROVE  RegistryFits /\ [Next]_vars => RegistryFits'
<1> SUFFICES ASSUME RegistryFits, [Next]_vars PROVE RegistryFits'
  OBVIOUS
<1>1. Typed /\ GroupsInv /\ ModeInv /\ SubsFit /\ Once /\ TargetsFit
  BY DEF RegistryFits, ModeFits, RegistryInv
<1>2. ModeFits'
  BY <1>1, NextTyped, GroupsInvStep, NextMode, NextSubs DEF ModeFits, ModeInv
<1>3. Once' /\ TargetsFit'
  BY <1>1, NextOnce, NextTargetsFit DEF StepOnce
<1>5. IdsFit'
  BY <1>1, NextIds DEF RegistryFits, RegistryInv
<1>4. Owned' /\ Guarded'
  BY <1>1, StepKinds, AddListenerRegistry, RemoveListenerRegistry, SettledRegistry, RenewsRegistry
<1> QED
  BY <1>2, <1>3, <1>4, <1>5 DEF RegistryFits, RegistryInv

----------------------------------------------------------------------------
(* MapEvents implements ListenerRegistry.                                  *)

\* Who is registered and who is reached, as pairs.
Found == {p \in Targets \X Listeners : p[2] \in Findable(p[1])}

Told == {p \in Targets \X Listeners : p[2] \in Heard(p[1])}

LEMMA PairsAre == Pairs(Findable) = Found /\ Pairs(Heard) = Told
  BY DEF Pairs, Found, Told

LEMMA PairsWillBe == Pairs(Findable)' = Found' /\ Pairs(Heard)' = Told'
  BY DEF Pairs, Found, Told

\* Events reach registered listeners only.
LEMMA HeardAreFound ==
  ASSUME RegistryFits
  PROVE  Told \subseteq Found
<1>1. ASSUME NEW t \in Targets, NEW l \in Heard(t) PROVE l \in Findable(t)
  <2>1. PICK s \in Subscriptions(t) : LET g == Dispatch(t, streams[s].subs[t])
                                      IN g # 0 /\ l \in Registered(groups[g])
    BY DEF Heard
  <2> DEFINE u == streams[s].subs[t]
  <2>2. s \in DOMAIN streams /\ u # 0
    BY DEF Subscriptions
  <2>3. u \in DOMAIN requests /\ Target(u) = t
    BY <2>2 DEF RegistryFits, ModeFits, SubsFit
  <2>4. CASE t \in Keys
    BY <2>1, <2>4 DEF Dispatch, Findable
  <2>5. CASE t \notin Keys
    <3> DEFINE g == filterIds[u]
    <3>1. u \in DOMAIN filterIds /\ g # 0 /\ l \in Registered(groups[g])
      BY <2>1, <2>5 DEF Dispatch
    <3>2. g = requests[u].group
      BY <2>2, <3>1 DEF RegistryFits, RegistryInv, IdsFit
    <3>3. g \in DOMAIN groups /\ groups[g].target = t
      BY <2>3, <3>2, RequestGroups DEF Target, RegistryFits, ModeFits
    <3>4. groupOf[t] = g
      BY <3>1, <3>3 DEF RegistryFits, RegistryInv, Owned
    <3> QED
      BY <3>1, <3>4 DEF Findable
  <2> QED
    BY <2>4, <2>5
<1> QED
  BY <1>1 DEF Told, Found

LEMMA AddListenerFound ==
  ASSUME RegistryFits,
         NEW t \in Targets, NEW l \in Listeners, NEW isLite \in Modes, AddListener(t, l, isLite)
  PROVE  Found' = Found \cup {<<t, l>>} /\ used'.calls = used.calls + 1
<1> DEFINE known == groupOf[t] # 0
           g     == IF known THEN groupOf[t] ELSE Len(groups) + 1
           grp   == IF known THEN groups[g] ELSE NewGroup(t)
           new   == Added(grp, l, isLite)
<1>0. Typed /\ isLite \in BOOLEAN /\ used \in [calls : Nat, drops : Nat, fails : Nat, timeouts : Nat]
  BY BoundsAssumption DEF RegistryFits, ModeFits, Typed, OthersOK
<1>1. /\ grp \in Group
      /\ \A h \in DOMAIN groups' : groups'[h] = IF h = g THEN new ELSE groups[h]
      /\ DOMAIN groups = 1 .. Len(groups) /\ g \in DOMAIN groups'
      /\ DOMAIN groups' = IF known THEN 1 .. Len(groups) ELSE 1 .. Len(groups) + 1
      /\ groupOf' = [groupOf EXCEPT ![t] = g] /\ Call(t, g, AddSteps(grp, l, isLite))
  BY <1>0, AddListenerDoes
<1>2. used'.calls = used.calls + 1
  BY <1>0, <1>1 DEF Call
<1>3. Len(groups) \in Nat /\ groupOf \in [Targets -> 0 .. Len(groups)]
  BY <1>0, Lengths DEF Typed, RegistryOK
<1>4. known => groups[g].target = t
  BY DEF RegistryFits, RegistryInv, TargetsFit
<1>5. Registered(grp) = Findable(t)
  <2>1. Registered(NewGroup(t)) = {}
    BY DEF NewGroup, Registered
  <2> QED
    BY <2>1 DEF Findable
<1>6. Findable(t)' = Findable(t) \cup {l}
  <2>1. Findable(t)' = Registered(new)
    <3>1. groupOf'[t] = g /\ groups'[g] = new /\ g # 0
      BY <1>1, <1>3
    <3> QED
      BY <3>1 DEF Findable
  <2> HIDE DEF grp
  <2>2. Registered(new) = Registered(grp) \cup {l}
    BY <1>0, <1>1, AddedRegistered
  <2> QED
    BY <1>5, <2>1, <2>2
<1>7. ASSUME NEW t2 \in Targets, t2 # t PROVE Findable(t2)' = Findable(t2)
  <2>1. groupOf'[t2] = groupOf[t2]
    BY <1>1, <1>7
  <2>2. CASE groupOf[t2] = 0
    BY <2>1, <2>2 DEF Findable
  <2>3. CASE groupOf[t2] # 0
    <3> DEFINE h == groupOf[t2]
    <3>1. groups[h].target = t2
      BY <2>3 DEF RegistryFits, RegistryInv, TargetsFit
    <3>2. h \in DOMAIN groups /\ h \in DOMAIN groups'
      BY <1>1, <1>3, <2>3
    <3>3. h # g
      BY <1>1, <1>3, <1>4, <1>7, <3>1, <3>2
    <3>4. groups'[h] = groups[h]
      BY <1>1, <3>2, <3>3
    <3> QED
      BY <2>1, <2>3, <3>4 DEF Findable
  <2> QED
    BY <2>2, <2>3
<1> QED
  BY <1>2, <1>6, <1>7 DEF Found

LEMMA RemoveListenerFound ==
  ASSUME RegistryFits, NEW t \in Targets, NEW l \in Listeners, RemoveListener(t, l)
  PROVE  /\ Found' = Found \ {<<t, l>>} \/ (Found' = Found /\ <<t, l>> \in Found)
         /\ used'.calls = used.calls + 1
<1> DEFINE g   == FoundForRemoval(t)
           new == Removed(groups[g], l)
<1>0. Typed /\ used \in [calls : Nat, drops : Nat, fails : Nat, timeouts : Nat]
  BY DEF RegistryFits, ModeFits, Typed, OthersOK
<1>1. /\ groupOf' = groupOf /\ DOMAIN groups' = DOMAIN groups
      /\ g = 0 => groups' = groups /\ Call(t, g, <<>>)
      /\ g # 0 => /\ g = groupOf[t] /\ g \in DOMAIN groups /\ groups[g] \in Group
                  /\ \A h \in DOMAIN groups : groups'[h] = IF h = g THEN new ELSE groups[h]
                  /\ Call(t, g, RemoveSteps(groups[g], l))
  BY <1>0, RemoveListenerDoes
<1>2. used'.calls = used.calls + 1
  BY <1>0, <1>1 DEF Call
<1>3. groupOf \in [Targets -> 0 .. Len(groups)] /\ DOMAIN groups = 1 .. Len(groups)
  BY <1>0, Lengths DEF Typed, RegistryOK
<1>4. CASE g = 0
  <2>1. Found' = Found
    BY <1>1, <1>4 DEF Found, Findable
  <2>2. Found = Found \ {<<t, l>>} \/ <<t, l>> \in Found
    OBVIOUS
  <2> QED
    BY <1>2, <2>1, <2>2
<1>5. CASE g # 0
  <2> HIDE DEF g
  <2>1. Registered(new) = Registered(groups[g]) \ {l}
    BY <1>1, <1>5, RemovedRegistered
  <2>2. Findable(t)' = Findable(t) \ {l}
    BY <1>1, <1>5, <2>1 DEF Findable
  <2>3. ASSUME NEW t2 \in Targets, t2 # t PROVE Findable(t2)' = Findable(t2)
    <3>1. CASE groupOf[t2] = 0
      BY <1>1, <3>1 DEF Findable
    <3>2. CASE groupOf[t2] # 0
      <4>1. groups[groupOf[t2]].target = t2 /\ groups[groupOf[t]].target = t
        BY <1>1, <1>5, <3>2 DEF RegistryFits, RegistryInv, TargetsFit
      <4>2. groupOf[t2] # g /\ groupOf[t2] \in DOMAIN groups
        BY <1>1, <1>3, <1>5, <2>3, <3>2, <4>1
      <4> QED
        BY <1>1, <1>5, <3>2, <4>2 DEF Findable
    <3> QED
      BY <3>1, <3>2
  <2> QED
    BY <1>2, <2>2, <2>3 DEF Found
<1> QED
  BY <1>4, <1>5

LEMMA StepImplements ==
  ASSUME Serial, OneMode, RegistryFits, [Next]_vars
  PROVE  Registry!Next
<1> SUFFICES /\ \/ Found' = Found /\ used'.calls = used.calls
                \/ \E t \in Targets, l \in Listeners :
                     /\ Found' = Found \cup {<<t, l>>} \/ Found' = Found \ {<<t, l>>}
                     /\ used'.calls = used.calls + 1
             /\ Told' \subseteq Found'
  BY PairsAre, PairsWillBe DEF Registry!Next, Registry!Reach, Registry!Add, Registry!Remove
<1>1. Told' \subseteq Found'
  <2>1. RegistryFits'
    BY NextRegistry
  <2>2. RegistryFits => Told \subseteq Found
    BY HeardAreFound
  <2>3. (RegistryFits => Told \subseteq Found)'
    BY <2>2, HeardAreFound, PTL
  <2> QED
    BY <2>1, <2>3
<1>2. ASSUME NEW t \in Targets, NEW l \in Listeners, NEW isLite \in Modes, AddListener(t, l, isLite)
      PROVE  Found' = Found \cup {<<t, l>>} /\ used'.calls = used.calls + 1
  BY <1>2, AddListenerFound
<1>3. ASSUME NEW t \in Targets, NEW l \in Listeners, RemoveListener(t, l)
      PROVE  /\ Found' = Found \cup {<<t, l>>} \/ Found' = Found \ {<<t, l>>}
             /\ used'.calls = used.calls + 1
  <2>1. /\ Found' = Found \ {<<t, l>>} \/ (Found' = Found /\ <<t, l>> \in Found)
        /\ used'.calls = used.calls + 1
    BY <1>3, RemoveListenerFound
  <2> QED
    BY <2>1
<1>4. CASE jobs # <<>> /\ SettledJob(Head(jobs))
  <2>1. Found' = Found
    BY <1>4, SettledRegistry DEF Found
  <2>2. used' = used
    BY <1>4 DEF SettledJob
  <2> QED
    BY <1>1, <2>1, <2>2
<1>5. CASE Renews
  <2>1. Found' = Found
    BY <1>5, RenewsRegistry DEF Found
  <2>2. used'.calls = used.calls
    BY <1>5 DEF Renews
  <2> QED
    BY <1>1, <2>1, <2>2
<1>6. Typed
  BY DEF RegistryFits, ModeFits
<1> QED
  BY <1>1, <1>2, <1>3, <1>4, <1>5, <1>6, StepKinds

LEMMA InitImplements == Init => Registry!Init
<1> SUFFICES ASSUME Init PROVE Found = {} /\ Told = {} /\ used.calls = 0
  BY PairsAre DEF Registry!Init
<1>1. used.calls = 0
  BY DEF Init
<1>2. ASSUME NEW t \in Targets, NEW l PROVE l \notin Findable(t)
  BY DEF Init, Findable, NoSubscriptions
<1>3. ASSUME NEW t \in Targets, NEW l PROVE l \notin Heard(t)
  <2>1. DOMAIN streams = {1} /\ streams[1].subs[t] = 0
    BY NewStreamIs DEF Init, NoSubscriptions
  <2> QED
    BY <2>1 DEF Heard, Subscriptions
<1> QED
  BY <1>1, <1>2, <1>3 DEF Found, Told

\* When the application awaits each listener call before the next one on the
\* same key or filter, and uses one of the two modes, addMapListener and
\* removeMapListener do what they promise: no stream that fails, no connection
\* that is lost or restored, no subscription that is renewed and no answer, in
\* whatever order, takes a registration away or adds one, and an event reaches
\* nobody who is not registered.
THEOREM Implements ==
  ASSUME Serial, OneMode
  PROVE  Spec => ImplementsRegistry
<1>1. Init => RegistryFits
  BY InitTyped, InitMode, InitSubs, InitOnce, InitRegistry DEF RegistryFits, ModeFits, Init, GroupsInv
<1>2. RegistryFits /\ [Next]_vars => RegistryFits'
  BY NextRegistry
<1>3. RegistryFits /\ [Next]_vars => [Registry!Next]_(Registry!regVars)
  BY StepImplements
<1> QED
  BY <1>1, <1>2, <1>3, InitImplements, PTL DEF Spec, ImplementsRegistry, Registry!Spec

\* A step that is no listener call leaves everybody's registration alone.
LEMMA StepKeeps ==
  ASSUME Serial, OneMode, RegistryFits, [Next]_vars, used'.calls = used.calls
  PROVE  \A t \in Targets : Findable(t)' = Findable(t)
<1>1. Typed
  BY DEF RegistryFits, ModeFits
<1>2. used.calls \in Nat
  BY <1>1 DEF Typed, OthersOK
<1>3. used.calls # used.calls + 1
  BY <1>2
<1>4. ASSUME NEW t \in Targets, NEW l \in Listeners, NEW isLite \in Modes, AddListener(t, l, isLite)
      PROVE  FALSE
  BY <1>3, <1>4, AddListenerFound
<1>5. ASSUME NEW t \in Targets, NEW l \in Listeners, RemoveListener(t, l)
      PROVE  FALSE
  BY <1>3, <1>5, RemoveListenerFound
<1>6. CASE jobs # <<>> /\ SettledJob(Head(jobs))
  BY <1>6, SettledRegistry
<1>7. CASE Renews
  BY <1>7, RenewsRegistry
<1> QED
  BY <1>1, <1>4, <1>5, <1>6, <1>7, StepKinds

\* Nothing but a listener call changes who is registered, when the application
\* uses one of the two modes: the answer to a request that was made late, and
\* the re-registrations that follow a loss, find the group where it was.  With
\* both modes the code breaks this, as the run v_reregister shows for calls that
\* are awaited, too.
THEOREM RegistrationsStay ==
  ASSUME Serial, OneMode
  PROVE  Spec => RegistrationsKept
<1>1. Init => RegistryFits
  BY InitTyped, InitMode, InitSubs, InitOnce, InitRegistry DEF RegistryFits, ModeFits, Init, GroupsInv
<1>2. RegistryFits /\ [Next]_vars => RegistryFits'
  BY NextRegistry
<1>3. RegistryFits /\ [Next]_vars
        => [used.calls' = used.calls => \A t \in Targets : Findable(t)' = Findable(t)]_vars
  BY StepKeeps
<1> QED
  BY <1>1, <1>2, <1>3, PTL DEF Spec, RegistrationsKept

----------------------------------------------------------------------------
(* RegisteredHear: a target that has listeners is always asked for, on a   *)
(* stream that serves, or will be once what has failed is recovered.       *)

\* What a lost connection or a failed stream has cost will be asked for again:
\* by onReconnect when the channel is back, by onError on a ready channel.
RecoverOK(strs, state, watch) ==
  \/ state = "CONNECTING" /\ ~watch.firstConnect
  \/ state = "READY" /\ \E x \in DOMAIN strs : strs[x].wire = "broken"

Recovering == RecoverOK(streams, channel, session)

\* Target t has a group with listeners to be notified.
Listened(t) == groupOf[t] # 0 /\ \E l \in Listeners : l \in Registered(groups[groupOf[t]])

\* A subscribe request u of t's group is under way on stream s or was taken.
Asked(t, s, u) ==
  /\ requests[u].group = groupOf[t] /\ requests[u].step # "unsub" /\ Serving(streams[s])
  /\ u \in Underway(streams, jobs, s) \/ streams[s].subs[t] >= u

Reached ==
  ~released => \A t \in Targets : Listened(t) =>
    Recovering \/ \E s \in DOMAIN streams, u \in DOMAIN requests : Asked(t, s, u)

MarkedReleased == markedForClose => released

\* Once a request of t's present group was made, the later ones are of it too.
LastGroup ==
  \A t \in Targets : \A u, v \in DOMAIN requests :
    u <= v /\ groupOf[t] # 0 /\ requests[u].group = groupOf[t] /\ Target(v) = t =>
      requests[v].group = groupOf[t]

Settling(js, u) == \E j \in Range(js) : j.do = "settled" /\ j.uid = u

\* A filter's subscription is one whose id is recorded or is about to be: its
\* answer is on its way to the client or was just handed over.
Known(str, u) ==
  \/ u \in Range(str.toClient) \/ Settling(jobs, u)
  \/ u \in DOMAIN filterIds /\ filterIds[u] = requests[u].group

IdsKnown ==
  \A s \in DOMAIN streams, t \in Filters :
    streams[s].subs[t] # 0 => Known(streams[s], streams[s].subs[t])

----------------------------------------------------------------------------
\* Only closeEventStream marks the manager for close, and it releases it.
LEMMA NextMarked == MarkedReleased /\ [Next]_vars => MarkedReleased'
<1> SUFFICES ASSUME MarkedReleased, [Next]_vars PROVE MarkedReleased'
  OBVIOUS
<1>1. CASE UNCHANGED vars
  BY <1>1 DEF vars, MarkedReleased, lifecycle
<1>2. CASE CloseEventStream
  BY <1>2 DEF CloseEventStream, MarkedReleased
<1>3. CASE Next /\ ~CloseEventStream
  <2>1. UNCHANGED <<markedForClose, released>>
    BY <1>3 DEF Next, Application, AddListener, RemoveListener, Failures, StreamFail, ChannelDrop, ChannelUp,
                ReadyTimeout, Answers, ServerReceive, HandleResponse, StreamChanges, StreamReady, lifecycle,
                StreamError, StreamEnd, RunJob, WriteJob, SettledJob, DisconnectJob, CloseJob
  <2> QED
    BY <2>1 DEF MarkedReleased
<1> QED
  BY <1>1, <1>2, <1>3

\* A step leaves a target's group alone, forgets it, or gives it a new one.
LEMMA GroupOfSteps ==
  ASSUME Typed, [Next]_vars, NEW t \in Targets
  PROVE  groupOf'[t] = groupOf[t] \/ groupOf'[t] = 0 \/ groupOf'[t] \notin DOMAIN groups
<1>1. groupOf \in [Targets -> 0 .. Len(groups)] /\ Len(groups) \in Nat /\ DOMAIN groups = 1 .. Len(groups)
  BY Lengths DEF Typed, RegistryOK
<1>3. CASE \E x \in Targets, l \in Listeners, isLite \in Modes : AddListener(x, l, isLite)
  <2>1. PICK x \in Targets, l \in Listeners, isLite \in Modes : AddListener(x, l, isLite)
    BY <1>3
  <2>2. groupOf' = [groupOf EXCEPT ![x] = IF groupOf[x] # 0 THEN groupOf[x] ELSE Len(groups) + 1]
    BY <2>1 DEF AddListener
  <2> QED
    BY <1>1, <2>2
<1>4. CASE \E x \in Targets, l \in Listeners : RemoveListener(x, l)
  BY <1>4 DEF RemoveListener
<1>5. CASE RegistryRests
  <2>1. CASE groupOf' = groupOf
    BY <2>1
  <2>2. CASE \E x : groupOf' = [groupOf EXCEPT ![x] = 0]
    BY <1>1, <2>2
  <2> QED
    BY <1>5, <2>1, <2>2 DEF RegistryRests
<1> QED
  BY <1>3, <1>4, <1>5, RegistryStep

\* Every group that is mapped is subscribed anew by a resubscription.
LEMMA OrdersCover ==
  ASSUME Typed, NEW order \in Orders, NEW g \in Mapped
  PROVE  \E i \in DOMAIN order : order[i] = g
<1> DEFINE n == Cardinality(Mapped)
<1>1. Len(groups) \in Nat /\ IsFiniteSet(1 .. Len(groups)) /\ Mapped \in SUBSET (1 .. Len(groups))
  BY Lengths, FS_Interval DEF Typed, Mapped
<1>2. IsFiniteSet(Mapped) /\ n \in Nat
  BY <1>1, FS_Subset, FS_CardinalityType
<1>3. IsFiniteSet(1 .. n) /\ Cardinality(1 .. n) = n
  BY <1>2, FS_Interval
<1>4. /\ order \in [1 .. n -> Mapped]
      /\ \A i, j \in 1 .. n : i < j => Precedes(order[i], order[j])
  BY DEF Orders
<1>5. \A i, j \in 1 .. n : i < j => order[i] # order[j]
  <2>1. \A h : h \in Mapped => h \in Nat
    BY <1>1
  <2> QED
    BY <1>4, <2>1 DEF Precedes
<1>6. \A i, j \in 1 .. n : order[i] = order[j] => i = j
  BY <1>2, <1>5
<1> HIDE DEF n
<1>7. order \in Injection(1 .. n, Mapped)
  BY <1>4, <1>6 DEF Injection, IsInjective
<1>8. order \in Surjection(1 .. n, Mapped)
  BY <1>2, <1>3, <1>7, FS_Injection DEF n
<1> QED
  BY <1>4, <1>8 DEF Surjection

\* What a step asks for is asked for a group that is mapped, and a target that
\* has come to be listened to is asked for at once.
StepAsks ==
  /\ \A v \in Fresh : groupOf'[Target(v)'] = requests'[v].group /\ requests'[v].group # 0
  /\ \A t \in Targets : Listened(t)' =>
       \/ Listened(t) /\ groupOf'[t] = groupOf[t]
       \/ \E v \in Fresh : requests'[v].group = groupOf'[t] /\ requests'[v].step # "unsub"

LEMMA AddListenerAsks ==
  ASSUME OneMode, RegistryFits,
         NEW t \in Targets, NEW l \in Listeners, NEW isLite \in Modes, AddListener(t, l, isLite)
  PROVE  StepAsks
<1> DEFINE known == groupOf[t] # 0
           g     == IF known THEN groupOf[t] ELSE Len(groups) + 1
           grp   == IF known THEN groups[g] ELSE NewGroup(t)
           new   == Added(grp, l, isLite)
           steps == AddSteps(grp, l, isLite)
           step  == Flag(isLite)
<1>0. Typed /\ GroupsInv /\ GroupsUniform /\ isLite \in BOOLEAN
  BY BoundsAssumption DEF RegistryFits, ModeFits, ModeInv
<1>1. /\ new.target = grp.target /\ grp \in Group
      /\ \A h \in DOMAIN groups' : groups'[h] = IF h = g THEN new ELSE groups[h]
      /\ DOMAIN groups = 1 .. Len(groups) /\ (known <=> g \in DOMAIN groups) /\ g \in DOMAIN groups'
      /\ DOMAIN groups' = IF known THEN 1 .. Len(groups) ELSE 1 .. Len(groups) + 1
      /\ groupOf' = [groupOf EXCEPT ![t] = g] /\ Call(t, g, steps)
  BY <1>0, AddListenerDoes
<1>2. steps \in {<<>>, <<step>>}
  BY <1>0, AddListenerMode
<1>3. new.target = t
  <2>1. known => groups[groupOf[t]].target = t
    BY DEF RegistryFits, RegistryInv, TargetsFit
  <2> QED
    BY <1>1, <2>1 DEF NewGroup
<1>4. Len(groups) \in Nat /\ groupOf \in [Targets -> 0 .. Len(groups)] /\ g # 0
  BY <1>0, <1>1, Lengths DEF Typed, RegistryOK
<1>5. steps = <<>> => Registered(grp) # {} /\ known
  <2>1. CASE ~IsNews(grp, l, isLite)
    <3>1. grp.listeners[l] = Flag(isLite)
      BY <2>1 DEF IsNews
    <3>2. l \in Registered(grp)
      BY <1>0, <3>1, FlagsDiffer DEF Registered
    <3> QED
      BY <3>2 DEF NewGroup, Registered
  <2>2. CASE IsNews(grp, l, isLite) /\ ~NeedsRegistration(grp, l, isLite)
    BY <2>2 DEF NeedsRegistration, NewGroup, Registered
  <2>3. CASE IsNews(grp, l, isLite) /\ NeedsRegistration(grp, l, isLite)
    <3>1. steps # <<>>
      BY <2>3 DEF AddSteps
    <3> QED
      BY <3>1
  <2> QED
    BY <2>1, <2>2, <2>3
<1>6. step # "unsub"
  BY DEF Flag
<1> HIDE DEF step
<1>7. /\ steps = <<>> => Fresh = {}
      /\ steps # <<>> =>
           /\ Fresh = {Len(requests) + 1}
           /\ \A u \in Fresh : requests'[u] = [group |-> g, step |-> step, rest |-> <<>>, call |-> used.calls + 1]
  BY <1>0, <1>1, <1>2, CallDoes
<1>8. \A v \in Fresh : groupOf'[Target(v)'] = requests'[v].group /\ requests'[v].group # 0
  <2>1. ASSUME NEW v \in Fresh PROVE groupOf'[groups'[requests'[v].group].target] = requests'[v].group
                                     /\ requests'[v].group # 0
    <3>1. requests'[v].group = g
      BY <1>7
    <3>2. groups'[g].target = t
      BY <1>1, <1>3
    <3> HIDE DEF g
    <3> QED
      BY <1>1, <1>4, <3>1, <3>2
  <2> QED
    BY <2>1 DEF Target
<1>9. ASSUME NEW x \in Targets, Listened(x)'
      PROVE  \/ Listened(x) /\ groupOf'[x] = groupOf[x]
             \/ \E v \in Fresh : requests'[v].group = groupOf'[x] /\ requests'[v].step # "unsub"
  <2>1. CASE x = t /\ steps # <<>>
    <3>1. Len(requests) + 1 \in Fresh
      BY <1>7, <2>1
    <3>2. /\ requests'[Len(requests) + 1].group = g
          /\ requests'[Len(requests) + 1].step # "unsub"
      BY <1>6, <1>7, <2>1
    <3> QED
      BY <1>1, <1>4, <2>1, <3>1, <3>2
  <2>2. CASE x = t /\ steps = <<>>
    BY <1>1, <1>4, <1>5, <2>2 DEF Listened, Registered
  <2>3. CASE x # t
    <3>1. groupOf'[x] = groupOf[x] /\ groupOf[x] # 0
      BY <1>1, <1>4, <2>3, <1>9 DEF Listened
    <3>2. groups[groupOf[x]].target = x /\ groupOf[x] \in DOMAIN groups
      BY <1>1, <1>4, <3>1 DEF RegistryFits, RegistryInv, TargetsFit
    <3>3. groupOf[x] # g
      <4>1. CASE known
        BY <2>3, <3>2, <4>1 DEF RegistryFits, RegistryInv, TargetsFit
      <4>2. CASE ~known
        BY <1>1, <3>2, <4>2
      <4> QED
        BY <4>1, <4>2
    <3>4. groupOf[x] \in DOMAIN groups'
      BY <1>1, <1>4, <3>2
    <3>5. groups'[groupOf[x]] = groups[groupOf[x]]
      BY <1>1, <3>3, <3>4
    <3> QED
      BY <1>9, <3>1, <3>5 DEF Listened, Registered
  <2> QED
    BY <2>1, <2>2, <2>3
<1> QED
  BY <1>8, <1>9 DEF StepAsks

LEMMA RemoveListenerAsks ==
  ASSUME OneMode, RegistryFits,
         NEW t \in Targets, NEW l \in Listeners, RemoveListener(t, l)
  PROVE  StepAsks
<1> DEFINE g     == FoundForRemoval(t)
           new   == Removed(groups[g], l)
           steps == RemoveSteps(groups[g], l)
           step  == "unsub"
<1>0. Typed /\ GroupsInv /\ GroupsUniform
  BY DEF RegistryFits, ModeFits, ModeInv
<1>1. /\ DOMAIN groups' = DOMAIN groups /\ groupOf' = groupOf
      /\ g = 0 => groups' = groups /\ Call(t, g, <<>>)
      /\ g # 0 => /\ g = groupOf[t] /\ g \in DOMAIN groups /\ groups[g] \in Group
                  /\ \A h \in DOMAIN groups : groups'[h] = IF h = g THEN new ELSE groups[h]
                  /\ Call(t, g, steps)
      /\ \A h \in DOMAIN groups : groups'[h].target = groups[h].target
  BY <1>0, RemoveListenerDoes
<1>2. g # 0 => /\ groups[g].target = t /\ Registered(new) = Registered(groups[g]) \ {l}
               /\ steps # <<>> => steps = <<step>>
  <2>1. g # 0 => Uniform(groups[g]) /\ CountBounds(groups[g])
    BY <1>0, <1>1 DEF GroupsInv, GroupsUniform
  <2>2. g # 0 => groups[g].target = t
    BY <1>1 DEF RegistryFits, RegistryInv, TargetsFit
  <2> HIDE DEF g
  <2>3. g # 0 => Registered(new) = Registered(groups[g]) \ {l}
    BY <1>1, RemovedRegistered
  <2>4. g # 0 /\ steps # <<>> => steps = <<step>>
    BY <1>1, <2>1, RemoveStepsOne
  <2> QED
    BY <2>2, <2>3, <2>4
<1> HIDE DEF g, new, steps
<1>4. \A h \in DOMAIN groups' : \A k \in Registered(groups'[h]) : h \in DOMAIN groups /\ k \in Registered(groups[h])
  BY <1>1, <1>2
<1>5. PICK ss : (ss = <<>> \/ ss = <<step>>) /\ Call(t, g, ss) /\ (ss # <<>> => g # 0)
  BY <1>1, <1>2
<1> HIDE DEF step
<1>6. /\ ss = <<>> => Fresh = {}
      /\ ss # <<>> => \A u \in Fresh : requests'[u] = [group |-> g, step |-> step, rest |-> <<>>, call |-> used.calls + 1]
  BY <1>0, <1>5, CallDoes
<1>7. ASSUME NEW v \in Fresh
      PROVE  groupOf'[groups'[requests'[v].group].target] = requests'[v].group /\ requests'[v].group # 0
  <2>1. ss # <<>>
    BY <1>6
  <2>2. requests'[v].group = g /\ g # 0
    BY <1>5, <1>6, <2>1
  <2> QED
    BY <1>1, <1>2, <2>2
<1>8. ASSUME NEW x \in Targets, Listened(x)' PROVE Listened(x) /\ groupOf'[x] = groupOf[x]
  <2>1. groupOf[x] \in 0 .. Len(groups) /\ Len(groups) \in Nat /\ DOMAIN groups = 1 .. Len(groups)
    BY <1>0, Lengths DEF Typed, RegistryOK
  <2>2. groupOf[x] # 0 /\ \E k \in Listeners : k \in Registered(groups'[groupOf[x]])
    BY <1>1, <1>8 DEF Listened, Registered
  <2>3. groupOf[x] \in DOMAIN groups'
    BY <1>1, <2>1, <2>2
  <2> QED
    BY <1>1, <1>4, <2>2, <2>3 DEF Listened
<1> QED
  BY <1>7, <1>8 DEF StepAsks, Target

LEMMA NextAsks ==
  ASSUME OneMode, RegistryFits, [Next]_vars
  PROVE  StepAsks
<1>0. Typed /\ \A u \in DOMAIN requests : requests[u].rest = <<>>
  BY DEF RegistryFits, ModeFits, ModeInv, RequestsFit
<1>1. CASE \E t \in Targets, l \in Listeners, isLite \in Modes : AddListener(t, l, isLite)
  BY <1>1, AddListenerAsks
<1>2. CASE \E t \in Targets, l \in Listeners : RemoveListener(t, l)
  BY <1>2, RemoveListenerAsks
<1>3. CASE jobs # <<>> /\ SettledJob(Head(jobs))
  <2>1. requests' = requests /\ groups' = groups
    BY <1>0, <1>3, SettledDoes
  <2>2. ASSUME NEW t \in Targets, Listened(t)' PROVE groupOf'[t] = groupOf[t]
    <3>1. groupOf'[t] \in 0 .. Len(groups) /\ Len(groups) \in Nat /\ DOMAIN groups = 1 .. Len(groups)
      <4>1. Typed'
        BY <1>0, NextTyped
      <4> QED
        BY <1>0, <2>1, <4>1, Lengths DEF Typed, RegistryOK
    <3> QED
      BY <1>0, <2>2, <3>1, GroupOfSteps DEF Listened
  <2> QED
    BY <2>1, <2>2 DEF StepAsks, Fresh, Listened, Registered
<1>4. CASE Renews
  <2>1. groups' = groups /\ groupOf' = groupOf
    BY <1>4 DEF Renews, registry
  <2>2. \A v \in Fresh : requests'[v].group \in Mapped
    BY <1>0, <1>4, RenewsDoes
  <2>3. \A g \in Mapped : groupOf[groups[g].target] = g /\ g # 0
    BY <1>0, Lengths DEF Mapped, Typed
  <2> QED
    BY <2>1, <2>2, <2>3 DEF StepAsks, Target, Listened, Registered
<1> QED
  BY <1>0, <1>1, <1>2, <1>3, <1>4, StepKinds

\* The target of a request is fixed, and its group is one that exists.
LEMMA RequestTargets ==
  ASSUME RegistryFits, [Next]_vars, NEW v \in DOMAIN requests'
  PROVE  /\ v \in Nat /\ v # 0 /\ Target(v)' \in Targets /\ requests'[v].group # 0
         /\ v \notin Fresh => /\ v \in DOMAIN requests /\ requests'[v] = requests[v]
                              /\ Target(v)' = Target(v) /\ requests[v].group \in DOMAIN groups
<1>1. Typed /\ RequestsFit
  BY DEF RegistryFits, ModeFits, ModeInv
<1>2. Typed'
  BY <1>1, NextTyped
<1>3. v \in 1 .. Len(requests') /\ v \in Nat /\ v # 0 /\ requests' \in Seq(RequestSet(Len(groups')))
  <2>1. requests' \in Seq(RequestSet(Len(groups')))
    BY <1>2 DEF Typed, MessagesOK
  <2>2. Len(requests') \in Nat /\ DOMAIN requests' = 1 .. Len(requests')
    BY <2>1, LenProperties
  <2> QED
    BY <2>1, <2>2
<1>4. requests'[v].group \in DOMAIN groups' /\ groups' \in Seq(Group)
  <2>1. groups' \in Seq(Group)
    BY <1>2 DEF Typed, RegistryOK
  <2>2. requests'[v] \in RequestSet(Len(groups'))
    BY <1>3, ElementOfSeq
  <2>3. requests'[v].group \in 1 .. Len(groups')
    BY <2>2 DEF RequestSet
  <2> QED
    BY <2>1, <2>3, LenProperties
<1>5. requests'[v].group # 0 /\ Target(v)' \in Targets
  <2>1. groups'[requests'[v].group] \in Group
    BY <1>4, ElementOfSeq, LenProperties
  <2> QED
    BY <1>4, <2>1, LenProperties DEF Group, Target
<1>6. v \notin Fresh => /\ v \in DOMAIN requests /\ requests'[v] = requests[v]
                        /\ Target(v)' = Target(v) /\ requests[v].group \in DOMAIN groups
  BY <1>1, TargetsStay DEF Fresh, RequestsKept
<1> QED
  BY <1>3, <1>5, <1>6

\* Requests are made for the group that is mapped: those made after the first
\* one of the present group are of that group.
LEMMA NextLastGroup ==
  ASSUME OneMode, RegistryFits, LastGroup, [Next]_vars
  PROVE  LastGroup'
<1>0. Typed /\ StepAsks
  BY NextAsks DEF RegistryFits, ModeFits
<1>1. DOMAIN requests = 1 .. Len(requests) /\ Len(requests) \in Nat
  BY <1>0, LenProperties DEF Typed, MessagesOK
<1>2. ASSUME NEW t \in Targets, NEW u \in DOMAIN requests', NEW v \in DOMAIN requests', u <= v,
             groupOf'[t] # 0, requests'[u].group = groupOf'[t], Target(v)' = t
      PROVE  requests'[v].group = groupOf'[t]
  <2>1. CASE v \in Fresh
    BY <1>0, <1>2, <2>1 DEF StepAsks
  <2>2. CASE v \notin Fresh
    <3>1. u \in Nat /\ v \in Nat /\ v \in DOMAIN requests
      BY <2>2, RequestTargets
    <3>2. u \in DOMAIN requests
      <4>1. u # 0
        BY RequestTargets
      <4> QED
        BY <1>1, <1>2, <3>1, <4>1
    <3>3. u \notin Fresh
      BY <3>2 DEF Fresh
    <3>4. /\ requests'[u] = requests[u] /\ requests[u].group \in DOMAIN groups
          /\ requests'[v] = requests[v] /\ Target(v)' = Target(v)
      BY <2>2, <3>3, RequestTargets
    <3>5. groupOf'[t] = groupOf[t]
      BY <1>0, <1>2, <3>4, GroupOfSteps
    <3> QED
      BY <1>2, <3>1, <3>2, <3>4, <3>5 DEF LastGroup
  <2> QED
    BY <2>1, <2>2
<1> QED
  BY <1>2 DEF LastGroup

LEMMA SettledSends ==
  ASSUME SettledJob(Head(jobs))
  PROVE  \E B : \E batch \in Seq(B) : Send(batch, streamPromise, streams, Tail(jobs))
<1> DEFINE r   == requests[Head(jobs).uid]
           req == Request(r.group, r.rest, r.call)
<1>1. Send(<<req>>, streamPromise, streams, Tail(jobs)) \/ Send(<<>>, streamPromise, streams, Tail(jobs))
  BY DEF SettledJob
<1> HIDE DEF req
<1>2. <<req>> \in Seq({req}) /\ <<>> \in Seq({req})
  OBVIOUS
<1> QED
  BY <1>1, <1>2

\* Nothing but its own turn takes the job of an answer out of the queue.
LEMMA SettledStays ==
  ASSUME Typed, [Next]_vars, NEW j \in Range(jobs), j.do = "settled"
  PROVE  j \in Range(jobs') \/ (jobs # <<>> /\ j = Head(jobs) /\ SettledJob(Head(jobs)))
<1>1. /\ streams \in Seq(SomeStream) /\ jobs \in Seq(SomeJob) /\ streamPromise \in 0 .. Len(streams)
      /\ Len(requests) \in Nat
  BY SomeShape
<1>2. jobs # <<>>
  <2>1. Range(<<>>) = {}
    BY DEF Range
  <2> QED
    BY <2>1
<1>3. CASE UNCHANGED vars
  BY <1>3 DEF vars
<1>4. CASE RunJob
  <2>1. /\ Tail(jobs) \in Seq(SomeJob) /\ Head(jobs) \in SomeJob
        /\ j = Head(jobs) \/ j \in Range(Tail(jobs))
    BY <1>1, <1>2, RangeOfTail
  <2>2. CASE SettledJob(Head(jobs)) /\ j # Head(jobs)
    <3>1. PICK B : \E batch \in Seq(B) : Send(batch, streamPromise, streams, Tail(jobs))
      BY <2>2, SettledSends
    <3> QED
      BY <1>1, <2>1, <2>2, <3>1, SendKeeps
  <2>3. CASE WriteJob(Head(jobs))
    <3>1. j \in Range(Tail(jobs))
      BY <2>1, <2>3 DEF WriteJob
    <3>2. CASE jobs' = Tail(jobs)
      BY <3>1, <3>2
    <3>3. CASE jobs' = Append(Tail(jobs), Job("settled", Head(jobs).uid, 0))
      <4> DEFINE job == Job("settled", Head(jobs).uid, 0)
      <4>1. job \in SomeJob
        BY <2>1 DEF Job, SomeJob
      <4> HIDE DEF job
      <4>2. Range(Append(Tail(jobs), job)) = Range(Tail(jobs)) \cup {job}
        BY <2>1, <4>1, RangeOfFew
      <4> QED
        BY <3>1, <3>3, <4>2 DEF job
    <3> QED
      BY <2>3, <3>2, <3>3 DEF WriteJob
  <2>4. CASE DisconnectJob(Head(jobs)) \/ CloseJob(Head(jobs))
    BY <2>1, <2>4 DEF DisconnectJob, CloseJob
  <2> QED
    BY <1>2, <1>4, <2>2, <2>3, <2>4 DEF RunJob
<1>5. CASE Next /\ ~RunJob
  <2>1. jobs = <<>>
    BY <1>5 DEF Next, Application, AddListener, RemoveListener, MayCall, MayRun, CloseEventStream, Failures,
                StreamFail, ChannelDrop, ChannelUp, ReadyTimeout, Answers, ServerReceive, HandleResponse,
                StreamChanges, StreamReady, StreamError, StreamEnd
  <2> QED
    BY <1>2, <2>1
<1> QED
  BY <1>3, <1>4, <1>5

\* What a settled subscription records is its own id, and what a settled
\* unsubscription forgets is another's.
LEMMA SettledIds ==
  ASSUME PlainFilters = {}, Typed, jobs # <<>>, \A r \in DOMAIN requests : requests[r].rest = <<>>,
         SettledJob(Head(jobs)), NEW u \in DOMAIN requests, requests[u].step # "unsub"
  PROVE  /\ requests' = requests
         /\ u \in DOMAIN filterIds /\ filterIds[u] = requests[u].group =>
              u \in DOMAIN filterIds' /\ filterIds'[u] = requests[u].group
         /\ Head(jobs).uid = u /\ Target(u) \in Filters =>
              u \in DOMAIN filterIds' /\ filterIds'[u] = requests[u].group
<1> DEFINE v == Head(jobs).uid
<1>1. /\ v \in DOMAIN requests /\ requests' = requests
      /\ IF requests[v].step = "unsub" THEN PostUnsubscribe(v) ELSE PostSubscribe(v)
  BY SettledDoes
<1> HIDE DEF v
<1>2. DOMAIN requests = 1 .. Len(requests) /\ Len(requests) \in Nat /\ Target(v) \in Targets
  <2>1. MessagesOK /\ RegistryOK
    BY DEF Typed
  <2>2. DOMAIN requests = 1 .. Len(requests) /\ Len(requests) \in Nat
    BY <2>1, LenProperties DEF MessagesOK
  <2> QED
    BY <1>1, <2>1, <2>2, TargetType
<1>3. u # 0 /\ v # 0
  BY <1>1, <1>2
<1>4. FilterId(v) \in {0, v} /\ (Target(v) \in Filters => FilterId(v) = v)
  BY DEF FilterId
<1>5. CASE requests[v].step = "unsub"
  <2>1. u # v
    BY <1>5
  <2>2. PostUnsubscribe(v)
    BY <1>1, <1>5
  <2>3. \/ filterIds' = filterIds
        \/ FilterId(v) \in DOMAIN filterIds /\ filterIds' = [filterIds EXCEPT ![FilterId(v)] = 0]
    BY <2>2 DEF PostUnsubscribe
  <2> QED
    BY <1>1, <1>3, <1>4, <2>1, <2>3 DEF v
<1>6. CASE requests[v].step # "unsub"
  <2>1. PostSubscribe(v)
    BY <1>1, <1>6
  <2>2. CASE Target(v) \in Keys
    <3>1. Target(v) \notin Filters
      BY <2>2, TargetsDisjoint
    <3> QED
      BY <1>1, <2>1, <2>2, <3>1 DEF PostSubscribe, v
  <2>3. CASE Target(v) \notin Keys
    <3>1. FilterId(v) = v
      BY <1>2, <1>4, <2>3 DEF Targets
    <3>2. filterIds' = [id \in DOMAIN filterIds \cup {v} |-> IF id = v THEN requests[v].group ELSE filterIds[id]]
      BY <2>1, <2>3, <3>1 DEF PostSubscribe
    <3> QED
      BY <1>1, <3>2 DEF v
  <2> QED
    BY <2>2, <2>3
<1> QED
  BY <1>5, <1>6

LEMMA NextIdsKnown ==
  ASSUME PlainFilters = {}, OneMode, RegistryFits, Lines, IdsKnown, [Next]_vars
  PROVE  IdsKnown'
<1>0. Typed /\ RequestsFit /\ SubsFit /\ \A r \in DOMAIN requests : requests[r].rest = <<>>
  BY DEF RegistryFits, ModeFits, ModeInv, RequestsFit
<1>1. RequestsKept
  BY <1>0, TargetsStay
<1>2. streams \in Seq(SomeStream) /\ jobs \in Seq(SomeJob)
  BY <1>0, SomeShape
<1>3. ASSUME NEW s \in DOMAIN streams, NEW t \in Filters, streams[s].subs[t] # 0
      PROVE  /\ streams[s].subs[t] \in DOMAIN requests /\ Target(streams[s].subs[t]) = t
             /\ requests[streams[s].subs[t]].step # "unsub" /\ Known(streams[s], streams[s].subs[t])
  <2>1. t \in Targets
    BY DEF Targets
  <2> QED
    BY <1>0, <1>3, <2>1 DEF SubsFit, IdsKnown
<1>4. ASSUME NEW s \in DOMAIN streams, NEW t \in Filters, NEW u, u = streams[s].subs[t], u # 0,
             NEW str, \A c \in Range(streams[s].toClient) : c \in Range(str.toClient)
      PROVE  \/ u \in Range(str.toClient) \/ Settling(jobs', u)
             \/ u \in DOMAIN filterIds' /\ filterIds'[u] = requests'[u].group
  <2>1. /\ u \in DOMAIN requests /\ Target(u) = t /\ requests[u].step # "unsub" /\ Known(streams[s], u)
        /\ requests'[u] = requests[u]
    BY <1>1, <1>3, <1>4 DEF RequestsKept
  <2>2. CASE u \in Range(streams[s].toClient)
    BY <1>4, <2>2
  <2>3. CASE Settling(jobs, u)
    <3>1. PICK j \in Range(jobs) : j.do = "settled" /\ j.uid = u
      BY <2>3 DEF Settling
    <3>2. CASE j \in Range(jobs')
      BY <3>1, <3>2 DEF Settling
    <3>3. CASE jobs # <<>> /\ j = Head(jobs) /\ SettledJob(Head(jobs))
      BY <1>0, <2>1, <3>1, <3>3, SettledIds
    <3> QED
      BY <1>0, <3>1, <3>2, <3>3, SettledStays
  <2>4. CASE u \in DOMAIN filterIds /\ filterIds[u] = requests[u].group
    <3>1. CASE filterIds' = filterIds
      BY <2>1, <2>4, <3>1
    <3>2. CASE jobs # <<>> /\ SettledJob(Head(jobs))
      BY <1>0, <2>1, <2>4, <3>2, SettledIds
    <3>3. filterIds' = filterIds \/ (jobs # <<>> /\ SettledJob(Head(jobs)))
      BY <1>0, StepKinds DEF AddListener, RemoveListener, Renews
    <3> QED
      BY <3>1, <3>2, <3>3
  <2> QED
    BY <2>1, <2>2, <2>3, <2>4 DEF Known
<1>5. CASE Fewer(streams, streams')
  <2>1. ASSUME NEW s \in DOMAIN streams', NEW t \in Filters, streams'[s].subs[t] # 0
        PROVE  Known(streams[s], streams[s].subs[t])' 
    <3>1. s \in DOMAIN streams /\ streams'[s].subs[t] = streams[s].subs[t] /\ streams'[s].toClient = streams[s].toClient
      BY <1>5, <2>1 DEF Fewer, SameSub, Targets
    <3> DEFINE u == streams[s].subs[t]
               str == streams'[s]
    <3>2. u # 0 /\ str.toClient = streams[s].toClient /\ streams'[s].subs[t] = u
      BY <2>1, <3>1
    <3> HIDE DEF u, str
    <3>3. \/ u \in Range(str.toClient) \/ Settling(jobs', u)
          \/ u \in DOMAIN filterIds' /\ filterIds'[u] = requests'[u].group
      BY <1>4, <3>1, <3>2 DEF u
    <3> QED
      BY <3>2, <3>3 DEF Known, str
  <2> QED
    BY <2>1 DEF IdsKnown
<1>6. ASSUME NEW x \in DOMAIN streams, ServerReceive(x)
      PROVE  IdsKnown'
  <2> DEFINE uid == Head(streams[x].toServer)
  <2>1. /\ streams'[x].toClient = Append(streams[x].toClient, uid) /\ uid \in DOMAIN requests
        /\ \A t \in Targets : streams'[x].subs[t] = IF t # Target(uid) THEN streams[x].subs[t]
                                                    ELSE IF requests[uid].step = "unsub" THEN 0 ELSE uid
        /\ DOMAIN streams' = DOMAIN streams
        /\ \A y \in DOMAIN streams : y # x => streams'[y] = streams[y]
        /\ streams[x].toClient \in Seq(Nat) /\ uid \in Nat
    <3>1. streams[x].toClient \in Seq(Nat) /\ streams[x].toServer \in Seq(Nat) /\ streams[x].toServer # <<>>
      BY <1>0, <1>6, ServerReceiveDoes DEF SomeStream
    <3>2. uid \in Nat
      BY <3>1, RangeOfTail
    <3> QED
      BY <1>0, <1>6, <3>1, <3>2, ServerReceiveDoes
  <2> HIDE DEF uid
  <2>2. Range(streams'[x].toClient) = Range(streams[x].toClient) \cup {uid}
    BY <2>1, RangeOfFew
  <2>3. ASSUME NEW s \in DOMAIN streams', NEW t \in Filters, streams'[s].subs[t] # 0
        PROVE  Known(streams[s], streams[s].subs[t])'
    <3> DEFINE u == streams'[s].subs[t]
               str == streams'[s]
    <3>1. CASE s = x /\ t = Target(uid)
      <4>1. u = uid
        BY <2>1, <2>3, <3>1 DEF Targets
      <4> QED
        BY <2>2, <3>1, <4>1 DEF Known
    <3>2. CASE s # x \/ t # Target(uid)
      <4>1. /\ s \in DOMAIN streams /\ u = streams[s].subs[t] /\ u # 0
            /\ \A c \in Range(streams[s].toClient) : c \in Range(str.toClient)
        BY <2>1, <2>2, <2>3, <3>2 DEF Targets
      <4> HIDE DEF u, str
      <4>2. \/ u \in Range(str.toClient) \/ Settling(jobs', u)
            \/ u \in DOMAIN filterIds' /\ filterIds'[u] = requests'[u].group
        BY <1>4, <4>1
      <4> QED
        BY <4>2 DEF Known, u, str
    <3> QED
      BY <3>1, <3>2
  <2> QED
    BY <2>3 DEF IdsKnown
<1>7. ASSUME NEW x \in DOMAIN streams, HandleResponse(x)
      PROVE  IdsKnown'
  <2> DEFINE h == Head(streams[x].toClient)
             job == Job("settled", h, 0)
  <2>1. /\ jobs = <<>> /\ streams[x].toClient # <<>>
        /\ jobs' = IF h \in pending THEN <<job>> ELSE jobs
        /\ streams' = [streams EXCEPT ![x].toClient = Tail(@)]
        /\ filterIds' = filterIds /\ requests' = requests
    BY <1>7 DEF HandleResponse, MayRun
  <2>2. streams[x].toClient \in Seq(Nat) /\ DOMAIN streams' = DOMAIN streams
    <3>1. streams[x] \in SomeStream
      BY <1>2, ElementOfSeq, LenProperties
    <3> QED
      BY <2>1, <3>1 DEF SomeStream
  <2>3. Range(streams[x].toClient) = {h} \cup Range(Tail(streams[x].toClient)) /\ h \in Nat
    BY <2>1, <2>2, RangeOfTail
  <2>4. h \in pending
    BY <2>3 DEF Lines, LinesOK, CarriedOnce, Carried
  <2> HIDE DEF h
  <2>5. Settling(jobs', h)
    <3>1. job \in SomeJob
      BY <2>3 DEF Job, SomeJob
    <3>2. job.do = "settled" /\ job.uid = h
      BY DEF Job
    <3> HIDE DEF job
    <3>3. job \in Range(<<job>>)
      BY <1>2, <3>1, RangeOfFew
    <3> QED
      BY <2>1, <2>4, <3>2, <3>3 DEF Settling
  <2>6. \A s \in DOMAIN streams : streams'[s].subs = streams[s].subs
    BY <1>0, <1>7, HandleResponseSubs
  <2>7. ASSUME NEW s \in DOMAIN streams', NEW t \in Filters, streams'[s].subs[t] # 0
        PROVE  Known(streams[s], streams[s].subs[t])'
    <3> DEFINE u == streams'[s].subs[t]
               str == streams'[s]
    <3>1. s \in DOMAIN streams /\ u = streams[s].subs[t] /\ u # 0
      BY <2>2, <2>6, <2>7
    <3>2. Known(streams[s], u)
      BY <1>3, <3>1
    <3>3. ~Settling(jobs, u)
      BY <2>1 DEF Settling, Range
    <3>4. u \in Range(streams[s].toClient) => u = h \/ u \in Range(str.toClient)
      <4>1. CASE s = x
        <5>1. str.toClient = Tail(streams[x].toClient)
          <6>1. streams[x] \in SomeStream
            BY <1>2, ElementOfSeq, LenProperties
          <6> QED
            BY <2>1, <4>1, <6>1 DEF SomeStream
        <5> QED
          BY <2>3, <4>1, <5>1
      <4>2. CASE s # x
        BY <2>1, <3>1, <4>2
      <4> QED
        BY <4>1, <4>2
    <3> QED
      BY <2>1, <2>5, <3>2, <3>3, <3>4 DEF Known
  <2> QED
    BY <2>7 DEF IdsKnown
<1> QED
  BY <1>0, <1>5, <1>6, <1>7, StepsFewer

\* Before the first connection no stream has been opened.
FirstOK(strs, js, state, watch) ==
  /\ state \in {"READY", "CONNECTING"}
  /\ watch.firstConnect => state # "READY" /\ js = <<>> /\ \A s \in DOMAIN strs : strs[s].promise = "pending"

LEMMA BrokenRecovers ==
  ASSUME NEW strs, NEW js, NEW state, NEW watch, InLines(strs), FirstOK(strs, js, state, watch),
         NEW s \in DOMAIN strs, strs[s].wire = "broken"
  PROVE  RecoverOK(strs, state, watch)
<1>1. strs[s].promise # "pending"
  BY DEF InLines, InLine
<1> QED
  BY <1>1 DEF FirstOK, RecoverOK

\* The current stream serves, or its replacement is on its way.
LEMMA CurrentServes ==
  ASSUME NEW strs \in Seq(SomeStream), NEW current \in DOMAIN strs, current # 0, NEW js, NEW state, NEW watch,
         InLines(strs), FirstOK(strs, js, state, watch), Unended(strs), Usable(current, strs, js, state)
  PROVE  Serving(strs[current]) \/ RecoverOK(strs, state, watch)
<1> DEFINE str == strs[current]
<1>1. str \in SomeStream
  BY ElementOfSeq, LenProperties
<1>2. /\ str.promise \in {"pending", "stream", "null"} /\ str.wire \in {"none", "open", "ended", "broken", "dead"}
  BY <1>1 DEF SomeStream
<1>3. /\ str.promise # "null" /\ (str.promise = "pending" => str.wire = "none")
  BY DEF InLines, InLine
<1>4. str.wire # "ended"
  BY DEF Unended
<1>5. CASE str.promise = "pending"
  BY <1>3, <1>5 DEF Serving
<1>6. CASE str.promise = "stream" /\ state = "READY"
  <2>1. str.wire # "dead"
    BY <1>6 DEF Usable
  <2>2. str.wire \in {"none", "open"} \/ str.wire = "broken"
    BY <1>2, <1>4, <2>1
  <2> QED
    BY <1>6, <2>2 DEF Serving, RecoverOK
<1>7. CASE str.promise = "stream" /\ state # "READY"
  <2>1. Drops(js)
    BY <1>7 DEF Usable
  <2>2. js # <<>>
    BY <2>1 DEF Drops, Range
  <2> QED
    BY <1>7, <2>2 DEF FirstOK, RecoverOK
<1> QED
  BY <1>2, <1>3, <1>5, <1>6, <1>7

LEMMA ReleasedStays ==
  ASSUME OthersOK, [Next]_vars, released
  PROVE  released'
<1>1. CASE UNCHANGED vars
  BY <1>1 DEF vars, lifecycle
<1>2. CASE CloseEventStream
  BY <1>2 DEF CloseEventStream
<1>3. CASE Next /\ ~CloseEventStream
  BY <1>3 DEF Next, Application, AddListener, RemoveListener, Failures, StreamFail, ChannelDrop, ChannelUp,
              ReadyTimeout, Answers, ServerReceive, HandleResponse, StreamChanges, StreamReady, lifecycle,
              StreamError, StreamEnd, RunJob, WriteJob, SettledJob, DisconnectJob, CloseJob
<1> QED
  BY <1>1, <1>2, <1>3

\* Every mapped group is subscribed anew.
Renewed ==
  /\ UNCHANGED registry
  /\ \E order \in Orders : requests' = requests \o Resubscriptions(order)

LEMMA RenewedAsks ==
  ASSUME Typed, TargetsFit, Renewed, NEW t \in Targets, Listened(t)
  PROVE  \E v \in Fresh : requests'[v].group = groupOf[t] /\ requests'[v].step # "unsub"
<1>1. PICK order \in Orders : requests' = requests \o Resubscriptions(order)
  BY DEF Renewed
<1> DEFINE g == groupOf[t]
           batch == Resubscriptions(order)
<1>2. groupOf[t] \in 0 .. Len(groups) /\ Len(groups) \in Nat /\ DOMAIN groups = 1 .. Len(groups)
  BY Lengths DEF Typed, RegistryOK
<1>3. g \in Mapped
  <2>1. g # 0 /\ groups[g].target = t
    BY DEF Listened, TargetsFit
  <2> QED
    BY <1>2, <2>1 DEF Mapped
<1> HIDE DEF g
<1>4. PICK i \in DOMAIN order : order[i] = g
  BY <1>3, OrdersCover
<1>5. DOMAIN batch = DOMAIN order /\ batch[i].group = g /\ batch[i].step # "unsub"
  <2> DEFINE flag == Flag(groups[order[i]].registeredIsLite)
             steps == <<flag>>
  <2>1. DOMAIN batch = DOMAIN order /\ batch[i] = Request(order[i], steps, 0)
    BY DEF Resubscriptions
  <2>2. flag # "unsub"
    BY DEF Flag
  <2> HIDE DEF flag
  <2>3. Head(steps) = flag
    OBVIOUS
  <2> HIDE DEF steps
  <2> QED
    BY <1>4, <2>1, <2>2, <2>3 DEF Request
<1>6. batch \in Seq(RequestSet(Len(groups))) /\ requests \in Seq(RequestSet(Len(groups)))
  <2>1. RegistryOK
    BY DEF Typed
  <2> QED
    BY <2>1, ResubscriptionsType DEF Typed, MessagesOK
<1> HIDE DEF batch
<1>7. /\ Len(requests) \in Nat /\ DOMAIN requests = 1 .. Len(requests)
      /\ DOMAIN batch = 1 .. Len(batch) /\ Len(batch) \in Nat
      /\ DOMAIN requests' = 1 .. Len(requests) + Len(batch)
      /\ \A n \in 1 .. Len(requests) + Len(batch) :
           requests'[n] = IF n <= Len(requests) THEN requests[n] ELSE batch[n - Len(requests)]
  <2>1. requests' = requests \o batch
    BY <1>1 DEF batch
  <2> QED
    BY <1>6, <2>1, JoinedPlaces
<1> DEFINE v == Len(requests) + i
<1>8. i \in 1 .. Len(batch)
  BY <1>5, <1>7
<1>9. v \in Fresh /\ v - Len(requests) = i /\ v \in 1 .. Len(requests) + Len(batch) /\ ~(v <= Len(requests))
  BY <1>7, <1>8 DEF Fresh
<1>10. requests'[v] = batch[i]
  BY <1>7, <1>9
<1> QED
  BY <1>5, <1>9, <1>10 DEF g

\* What is to be recovered stays to be recovered until it is asked for again.
LEMMA RecoveringSteps ==
  ASSUME MaxTimeouts = 0, Typed, UsableInv, WatchInv, Lines, ~markedForClose, [Next]_vars, Recovering,
         InLines(streams'), FirstOK(streams', jobs', channel', session')
  PROVE  Recovering' \/ Renewed
<1>1. attached
  BY DEF UsableInv
<1>2. CASE channel = "CONNECTING" /\ ~session.firstConnect
  <2>1. CASE ChannelUp
    <3>1. ~session.connected
      BY <1>2 DEF WatchInv
    <3>2. Emits(session, TRUE) = "RECONNECTED"
      BY <1>2, <3>1 DEF Emits
    <3>3. \E order \in Orders : Send(Resubscriptions(order), streamPromise, streams, jobs)
      BY <1>1, <2>1, <3>2 DEF ChannelUp
    <3> QED
      BY <2>1, <3>3 DEF Renewed, Send, ChannelUp
  <2>2. CASE ~ChannelUp
    <3>1. ~ChannelDrop
      BY <1>2 DEF ChannelDrop
    <3>2. CASE UNCHANGED vars
      BY <1>2, <3>2 DEF Recovering, RecoverOK, vars
    <3>3. CASE Next
      <4>1. UNCHANGED network
        BY <2>2, <3>1, <3>3 DEF Next, Application, AddListener, RemoveListener, CloseEventStream, Failures,
                  StreamFail, ReadyTimeout, Answers, ServerReceive, HandleResponse, StreamChanges, StreamReady,
                  StreamError, StreamEnd, RunJob, WriteJob, SettledJob, DisconnectJob, CloseJob
      <4> QED
        BY <1>2, <4>1 DEF Recovering, RecoverOK, network
    <3> QED
      BY <3>2, <3>3
  <2> QED
    BY <2>1, <2>2
<1>3. ASSUME channel = "READY", NEW x \in DOMAIN streams, streams[x].wire = "broken"
      PROVE  Recovering' \/ Renewed
  <2>1. CASE x \in DOMAIN streams' /\ streams'[x].wire = "broken"
    BY <2>1, BrokenRecovers DEF Recovering
  <2>2. CASE StreamError(x)
    <3>1. \E order \in Orders : Send(Resubscriptions(order), 0, Reported(x), jobs)
      BY <1>3, <2>2 DEF StreamError, Reported
    <3> QED
      BY <2>2, <3>1 DEF Renewed, Send, StreamError
  <2> QED
    BY <1>3, <2>1, <2>2, BrokenStays, LinesUnopened
<1> QED
  BY <1>2, <1>3 DEF Recovering, RecoverOK

\* A new request goes to a stream that serves, unless that is to be recovered.
LEMMA FreshIsAsked ==
  ASSUME StepLines, streams' \in Seq(SomeStream), NEW t, NEW v \in Fresh,
         requests'[v].group = groupOf'[t], requests'[v].step # "unsub",
         streamPromise' # 0, Unended(streams'), Usable(streamPromise', streams', jobs', channel'),
         FirstOK(streams', jobs', channel', session')
  PROVE  Recovering' \/ \E s \in DOMAIN streams', u \in DOMAIN requests' : Asked(t, s, u)'
<1>1. streamPromise' \in DOMAIN streams' /\ v \in Underway(streams', jobs', streamPromise')
  BY DEF StepLines, Sent
<1>2. v \in DOMAIN requests'
  BY DEF Fresh
<1>3. InLines(streams')
  BY DEF StepLines, Lines, LinesOK
<1>4. Serving(streams'[streamPromise']) \/ Recovering'
  BY <1>1, <1>3, CurrentServes DEF Recovering
<1> QED
  BY <1>1, <1>2, <1>4 DEF Asked

\* What was asked for stays so through a step in which no request is taken.
LEMMA StaysAsked ==
  ASSUME StepLines, RequestsKept, NEW t \in Targets, groupOf'[t] = groupOf[t],
         NEW s \in DOMAIN streams, NEW u \in DOMAIN requests, Asked(t, s, u),
         Unended(streams'), FirstOK(streams', jobs', channel', session')
  PROVE  Recovering' \/ (s \in DOMAIN streams' /\ u \in DOMAIN requests' /\ Asked(t, s, u)')
<1>1. InLines(streams') /\ Flow(streams, jobs, streams', jobs', Fresh)
  BY DEF StepLines, Lines, LinesOK
<1>2. s \in DOMAIN streams' /\ u \in DOMAIN requests' /\ requests'[u] = requests[u]
  BY <1>1 DEF Flow, RequestsKept
<1>3. CASE streams'[s].wire = "broken"
  BY <1>1, <1>2, <1>3, BrokenRecovers DEF Recovering
<1>4. CASE Serving(streams'[s])
  <2>1. streams'[s].subs = streams[s].subs /\ Underway(streams, jobs, s) \subseteq Underway(streams', jobs', s)
    BY <1>1, <1>2, <1>4 DEF Flow
  <2> QED
    BY <1>2, <1>4, <2>1 DEF Asked
<1>5. streams'[s].wire # "ended"
  BY <1>2 DEF Unended
<1> QED
  BY <1>1, <1>3, <1>4, <1>5 DEF Flow, Asked

\* A request that is taken is the subscription from then on, and replaces none
\* but an older one: the requests of a stream are taken in the order they were
\* made, and no unsubscribe of a target that has listeners is under way.
LEMMA TakenAsked ==
  ASSUME RegistryFits, Lines, NEW t \in Targets, Listened(t),
         NEW s \in DOMAIN streams, NEW u \in DOMAIN requests, Asked(t, s, u),
         NEW x \in DOMAIN streams, ServerReceive(x)
  PROVE  s \in DOMAIN streams' /\ u \in DOMAIN requests' /\ Asked(t, s, u)'
<1> DEFINE h == Head(streams[x].toServer)
<1>0. Typed
  BY DEF RegistryFits, ModeFits
<1>1. /\ streams[x].toServer \in Seq(Nat) /\ streams[x].toServer # <<>> /\ h \in DOMAIN requests
      /\ streams'[x].wire = streams[x].wire /\ streams'[x].waiters = streams[x].waiters
      /\ streams'[x].toServer = Tail(streams[x].toServer)
      /\ \A y \in Targets : streams'[x].subs[y] = IF y # Target(h) THEN streams[x].subs[y]
                                                  ELSE IF requests[h].step = "unsub" THEN 0 ELSE h
      /\ DOMAIN streams' = DOMAIN streams
      /\ \A y \in DOMAIN streams : y # x => streams'[y] = streams[y]
      /\ jobs = <<>> /\ jobs' = <<>> /\ requests' = requests
  BY <1>0, ServerReceiveDoes
<1> HIDE DEF h
<1>2. groupOf' = groupOf
  BY DEF ServerReceive, registry
<1>3. CASE s # x
  <2>1. streams'[s] = streams[s] /\ jobs' = jobs /\ s \in DOMAIN streams'
    BY <1>1, <1>3
  <2> QED
    BY <1>1, <1>2, <2>1 DEF Asked, Underway
<1>4. CASE s = x
  <2>1. Range(streams[x].toServer) = {h} \cup Range(Tail(streams[x].toServer)) /\ h \in Nat
    BY <1>1, RangeOfTail DEF h
  <2>2. Target(h) = t => requests[h].step # "unsub"
    <3>1. h \in Outstanding
      <4>1. h \in pending
        BY <2>1 DEF Lines, LinesOK, CarriedOnce, Carried
      <4> QED
        BY <4>1, HeldIs DEF Outstanding
    <3>2. groupOf[t] \in DOMAIN groups /\ groups[groupOf[t]].target = t
      <4>1. groupOf[t] \in 0 .. Len(groups) /\ DOMAIN groups = 1 .. Len(groups) /\ Len(groups) \in Nat
        BY <1>0, Lengths DEF Typed, RegistryOK
      <4> QED
        BY <4>1 DEF Listened, RegistryFits, RegistryInv, TargetsFit
    <3> QED
      BY <3>1, <3>2 DEF RegistryFits, RegistryInv, Guarded, Listened
  <2>3. Target(h) = t => streams[x].subs[t] < h
    BY <2>1 DEF Lines, LinesOK, InLines, InLine
  <2>4. u \in Nat /\ streams[x].subs[t] \in Nat
    <3>1. streams[x] \in SomeStream /\ DOMAIN requests = 1 .. Len(requests)
      BY <1>0, SomeShape, LenProperties DEF Typed, MessagesOK
    <3> QED
      BY <3>1 DEF SomeStream
  <2>5. u \in Underway(streams, jobs, x) => u = h \/ u \in Underway(streams', jobs', x)
    BY <1>1, <2>1 DEF Underway
  <2>6. Target(u) = t
    BY DEF Asked, Target, Listened, RegistryFits, RegistryInv, TargetsFit
  <2>7. u \in Underway(streams', jobs', x) \/ streams'[x].subs[t] >= u
    <3>1. CASE u = h
      BY <1>1, <2>1, <2>2, <2>6, <3>1
    <3>2. CASE streams[x].subs[t] >= u
      <4>1. CASE Target(h) = t
        BY <1>1, <2>1, <2>2, <2>3, <2>4, <3>2, <4>1
      <4>2. CASE Target(h) # t
        BY <1>1, <3>2, <4>2
      <4> QED
        BY <4>1, <4>2
    <3> QED
      BY <1>4, <2>5, <3>1, <3>2 DEF Asked
  <2> QED
    BY <1>1, <1>2, <1>4, <2>7 DEF Asked, Serving
<1> QED
  BY <1>3, <1>4

LEMMA ShapeAfter ==
  ASSUME Typed, [Next]_vars
  PROVE  streams' \in Seq(SomeStream) /\ DOMAIN streams' \subseteq Nat \ {0}
<1>1. streams' \in Seq(StreamSet(Len(requests'), Len(streams'))) /\ requests' \in Seq(RequestSet(Len(groups')))
  BY NextTyped DEF Typed, MessagesOK
<1>2. Len(requests') \in Nat /\ Len(streams') \in Nat /\ DOMAIN streams' = 1 .. Len(streams')
  BY <1>1, LenProperties
<1> DEFINE r == Len(requests')
           s == Len(streams')
<1> HIDE DEF r, s
<1>3. ASSUME r \in Nat, s \in Nat
      PROVE  StreamSet(r, s) \subseteq SomeStream
  <2>1. JobSet(r, s) \subseteq SomeJob
    BY <1>3 DEF JobSet, SomeJob
  <2>2. Seq(JobSet(r, s)) \subseteq Seq(SomeJob) /\ Seq(1 .. r) \subseteq Seq(Nat)
    BY <1>3, <2>1
  <2> QED
    BY <1>3, <2>2 DEF StreamSet, SomeStream
<1>4. StreamSet(Len(requests'), Len(streams')) \subseteq SomeStream
  BY <1>2, <1>3 DEF r, s
<1> QED
  BY <1>1, <1>2, <1>4

\* The part of the invariant that the other parts need after the step.
Serviced == Typed /\ UsableInv /\ Lines /\ WatchInv /\ MarkedReleased

LEMMA NextReached ==
  ASSUME MaxTimeouts = 0, OneMode, RegistryFits, Serviced, Reached, [Next]_vars, Serviced'
  PROVE  Reached'
<1> SUFFICES ASSUME ~released', NEW t \in Targets, Listened(t)'
             PROVE  Recovering' \/ \E s \in DOMAIN streams', u \in DOMAIN requests' : Asked(t, s, u)'
  BY DEF Reached
<1>0. Typed /\ Once /\ Lines /\ WatchInv /\ UsableInv /\ TargetsFit /\ RequestsFit
  BY DEF RegistryFits, RegistryInv, ModeFits, ModeInv, Serviced
<1>1. ~released /\ ~markedForClose /\ ~markedForClose'
  BY <1>0, ReleasedStays DEF Typed, Serviced, MarkedReleased
<1>2. /\ streams' \in Seq(SomeStream) /\ DOMAIN streams' \subseteq Nat \ {0}
      /\ FirstOK(streams', jobs', channel', session')
      /\ InLines(streams') /\ Unended(streams') /\ Usable(streamPromise', streams', jobs', channel')
  <2>1. Unended(streams') /\ Usable(streamPromise', streams', jobs', channel') /\ InLines(streams')
    BY <1>1 DEF Serviced, UsableInv, Serviceable, Lines, LinesOK
  <2>2. FirstOK(streams', jobs', channel', session')
    BY DEF Serviced, WatchInv, Typed, OthersOK, FirstOK
  <2>3. streams' \in Seq(SomeStream) /\ DOMAIN streams' \subseteq Nat \ {0}
    BY <1>0, ShapeAfter
  <2> QED
    BY <2>1, <2>2, <2>3
<1>3. StepAsks /\ RequestsKept
  BY <1>0, NextAsks, TargetsStay
<1>4. CASE \E x \in DOMAIN streams : ServerReceive(x)
  <2>1. PICK x \in DOMAIN streams : ServerReceive(x)
    BY <1>4
  <2>2. groupOf' = groupOf /\ groups' = groups
    BY <2>1 DEF ServerReceive, registry
  <2>3. Listened(t)
    BY <2>2 DEF Listened, Registered
  <2>4. CASE Recovering
    <3>1. Recovering' \/ Renewed
      BY <1>0, <1>1, <1>2, <2>4, RecoveringSteps
    <3>2. requests' = requests
      BY <2>1 DEF ServerReceive
    <3>3. ~Renewed
      <4>1. \A v : v \notin Fresh
        BY <3>2 DEF Fresh
      <4> QED
        BY <1>0, <2>3, <4>1, RenewedAsks
    <3> QED
      BY <3>1, <3>3
  <2>5. CASE \E s \in DOMAIN streams, u \in DOMAIN requests : Asked(t, s, u)
    BY <1>0, <2>1, <2>3, <2>5, TakenAsked
  <2> QED
    BY <1>1, <2>3, <2>4, <2>5 DEF Reached
<1>5. CASE StepLines
  <2>1. ASSUME NEW v \in Fresh, requests'[v].group = groupOf'[t], requests'[v].step # "unsub"
        PROVE  Recovering' \/ \E s \in DOMAIN streams', u \in DOMAIN requests' : Asked(t, s, u)'
    <3>1. streamPromise' # 0
      BY <1>2, <1>5 DEF StepLines, Sent
    <3> QED
      BY <1>2, <1>5, <2>1, <3>1, FreshIsAsked
  <2>2. CASE Listened(t) /\ groupOf'[t] = groupOf[t]
    <3>1. CASE Recovering
      <4>1. Recovering' \/ Renewed
        BY <1>0, <1>1, <1>2, <3>1, RecoveringSteps
      <4>2. CASE Renewed
        BY <1>0, <2>1, <2>2, <4>2, RenewedAsks
      <4> QED
        BY <4>1, <4>2
    <3>2. ASSUME NEW s \in DOMAIN streams, NEW u \in DOMAIN requests, Asked(t, s, u)
          PROVE  Recovering' \/ (s \in DOMAIN streams' /\ u \in DOMAIN requests' /\ Asked(t, s, u)')
      BY <1>2, <1>3, <1>5, <2>2, <3>2, StaysAsked
    <3> QED
      BY <1>1, <2>2, <3>1, <3>2 DEF Reached
  <2>3. CASE \E v \in Fresh : requests'[v].group = groupOf'[t] /\ requests'[v].step # "unsub"
    BY <2>1, <2>3
  <2> QED
    BY <1>3, <2>2, <2>3 DEF StepAsks
<1> QED
  BY <1>0, <1>4, <1>5, NextLines

LEMMA QuietHears ==
  ASSUME PlainFilters = {}, RegistryFits, Serviced, LastGroup, IdsKnown, Reached
  PROVE  RegisteredHear
<1> SUFFICES ASSUME Quiet, ~released, NEW t \in Targets, NEW l \in Findable(t)
             PROVE  l \in Heard(t)
  BY DEF RegisteredHear
<1> DEFINE g == groupOf[t]
<1>0. Typed /\ SubsFit
  BY DEF RegistryFits, ModeFits
<1>1. g # 0 /\ l \in Listeners /\ l \in Registered(groups[g]) /\ Listened(t)
  BY DEF Findable, Listened, Registered
<1>2. ~Recovering
  BY DEF Quiet, Recovering, RecoverOK
<1>3. PICK s \in DOMAIN streams, u \in DOMAIN requests : Asked(t, s, u)
  BY <1>1, <1>2 DEF Reached
<1> DEFINE v == streams[s].subs[t]
<1>4. \A w : w \notin Underway(streams, jobs, s)
  <2>1. \A j : j \notin Range(streams[s].waiters)
    BY DEF Quiet, Serviced, Lines, LinesOK, InLines, InLine
  <2>2. jobs = <<>> /\ streams[s].toServer = <<>>
    BY DEF Quiet
  <2>3. \A j : j \notin Range(jobs) /\ j \notin Range(streams[s].toServer)
    BY <2>2 DEF Range
  <2> QED
    BY <2>1, <2>3 DEF Underway, Written
<1>5. u \in Nat /\ u # 0 /\ v \in Nat
  <2>1. streams[s] \in SomeStream /\ DOMAIN requests = 1 .. Len(requests)
    BY <1>0, SomeShape, LenProperties DEF Typed, MessagesOK
  <2> QED
    BY <2>1 DEF SomeStream
<1>6. u <= v /\ v # 0
  BY <1>3, <1>4, <1>5 DEF Asked
<1>7. v \in DOMAIN requests /\ Target(v) = t
  BY <1>0, <1>6 DEF SubsFit
<1>8. requests[v].group = g
  BY <1>1, <1>3, <1>6, <1>7 DEF LastGroup, Asked
<1>9. s \in Subscriptions(t)
  BY <1>6 DEF Subscriptions, Quiet
<1>10. Dispatch(t, v) = g
  <2>1. CASE t \in Keys
    BY <2>1 DEF Dispatch
  <2>2. CASE t \in Filters
    <3>1. t \notin Keys
      BY <2>2, TargetsDisjoint
    <3>2. Known(streams[s], v)
      BY <1>6, <2>2 DEF IdsKnown
    <3>3. jobs = <<>> /\ streams[s].toClient = <<>>
      BY DEF Quiet
    <3>4. v \in DOMAIN filterIds /\ filterIds[v] = requests[v].group
      BY <3>2, <3>3 DEF Known, Settling, Range
    <3> QED
      BY <1>8, <2>2, <3>1, <3>4 DEF Dispatch
  <2> QED
    BY <2>1, <2>2 DEF Targets
<1> HIDE DEF g, v
<1> QED
  BY <1>1, <1>9, <1>10 DEF Heard, v

\* Whoever is registered is heard once nothing is under way, whatever streams
\* failed and however often the channel was lost in between: an application
\* that uses one isLite flag and awaits its calls loses no registration.
THEOREM AllAreHeard ==
  ASSUME Serial, OneMode, MaxTimeouts = 0, PlainFilters = {}
  PROVE  Spec => []RegisteredHear
<1> DEFINE All == RegistryFits /\ Serviced /\ LastGroup /\ IdsKnown /\ Reached
<1>1. Init => All
  <2> SUFFICES ASSUME Init PROVE All
    OBVIOUS
  <2>1. RegistryFits
    BY InitTyped, InitMode, InitSubs, InitOnce, InitRegistry DEF RegistryFits, ModeFits, Init, GroupsInv
  <2>2. Serviced
    BY InitTyped, InitUsable, InitLines, InitRelease DEF Serviced, MarkedReleased, Init
  <2>3. LastGroup /\ Reached
    BY DEF Init, LastGroup, Reached, Listened, NoSubscriptions
  <2>4. IdsKnown
    BY DEF Init, IdsKnown, NewStream, NoSubscriptions, Targets
  <2> QED
    BY <2>1, <2>2, <2>3, <2>4
<1>2. All /\ [Next]_vars => All'
  <2> SUFFICES ASSUME All, [Next]_vars PROVE All'
    OBVIOUS
  <2>1. RegistryFits'
    BY NextRegistry
  <2>2. Typed /\ Once /\ Lines /\ UsableInv /\ WatchInv /\ Unopened /\ MarkedReleased
    BY LinesUnopened DEF RegistryFits, ModeFits, Serviced
  <2>3. Serviced'
    BY <2>2, NextTyped, NextUsable, NextKeepsLines, NextWatch, NextMarked DEF Serviced
  <2>4. LastGroup' /\ IdsKnown'
    BY <2>2, NextLastGroup, NextIdsKnown
  <2>5. Reached'
    BY <2>3, NextReached
  <2> QED
    BY <2>1, <2>3, <2>4, <2>5
<1>3. All => RegisteredHear
  BY QuietHears
<1> QED
  BY <1>1, <1>2, <1>3, PTL DEF Spec

==============================================================================
