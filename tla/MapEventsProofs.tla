--------------------------- MODULE MapEventsProofs ---------------------------
(***************************************************************************)
(* Theorems about MapEvents for every set of keys, filters and listeners   *)
(* and every bound: TypeOK, the two invariants of the groups that the      *)
(* lite/full book-keeping rests on, and that the current stream is never   *)
(* dead on a ready channel.  TypeOK is inductive as it stands.             *)
(***************************************************************************)
EXTENDS MapEvents, FiniteSetTheorems, SequenceTheorems, TLAPS

----------------------------------------------------------------------------
(* What addListener and removeListener preserve in one group.              *)

\* The two halves of the invariants of MapEvents, for a single group.
LiteMeansLite(grp) == grp.registeredIsLite => FullListeners(grp) = {}

CountBounds(grp) == Cardinality(FullListeners(grp)) <= grp.isLiteFalseCount

\* The listeners that want values are finitely many: they are counted.
LEMMA FullListenersFinite ==
  ASSUME NEW grp
  PROVE  /\ IsFiniteSet(FullListeners(grp))
         /\ Cardinality(FullListeners(grp)) \in Nat
  BY ListenersFinite, FS_Subset, FS_CardinalityType DEF FullListeners

\* A new group is a group without listeners, registered as lite.
LEMMA NewGroupFacts ==
  ASSUME NEW t \in Targets
  PROVE  /\ NewGroup(t) \in Group
         /\ FullListeners(NewGroup(t)) = {}
         /\ LiteMeansLite(NewGroup(t))
         /\ CountBounds(NewGroup(t))
<1>1. NewGroup(t) \in Group
  BY DEF NewGroup, Group, Statuses
<1>2. FullListeners(NewGroup(t)) = {}
  BY DEF NewGroup, FullListeners
<1>3. CountBounds(NewGroup(t))
  <2>1. NewGroup(t).isLiteFalseCount = 0
    BY DEF NewGroup
  <2>2. Cardinality(FullListeners(NewGroup(t))) = 0
    BY <1>2, FS_EmptySet
  <2> QED
    BY <2>1, <2>2 DEF CountBounds
<1> QED
  BY <1>1, <1>2, <1>3 DEF LiteMeansLite

\* A group changed in the fields that addListener and removeListener change.
Updated(grp, l, status, count, flag) ==
  [grp EXCEPT !.listeners[l]     = status,
              !.isLiteFalseCount = count,
              !.registeredIsLite = flag]

\* It is still a group, on the same target.
LEMMA UpdatedGroup ==
  ASSUME NEW grp \in Group, NEW l \in Listeners, NEW status \in Statuses,
         NEW count \in Int, NEW flag \in BOOLEAN
  PROVE  /\ Updated(grp, l, status, count, flag) \in Group
         /\ Updated(grp, l, status, count, flag).target = grp.target
<1>1. [grp.listeners EXCEPT ![l] = status] \in [Listeners -> Statuses]
  BY DEF Group
<1> QED
  BY <1>1 DEF Group, Updated

\* addListener keeps a group a group, on the same target.
LEMMA AddedType ==
  ASSUME NEW grp \in Group, NEW l \in Listeners, NEW isLite \in BOOLEAN
  PROVE  /\ Added(grp, l, isLite) \in Group
         /\ Added(grp, l, isLite).target = grp.target
<1>1. CASE ~IsNews(grp, l, isLite)
  BY <1>1 DEF Added
<1>2. CASE IsNews(grp, l, isLite)
  <2> DEFINE flag == IF NeedsRegistration(grp, l, isLite) THEN isLite
                     ELSE grp.registeredIsLite
             count == IF isLite THEN grp.isLiteFalseCount ELSE grp.isLiteFalseCount + 1
  <2>1. flag \in BOOLEAN
    BY DEF Group
  <2>2. count \in Int
    BY DEF Group
  <2>3. Flag(isLite) \in Statuses
    BY DEF Flag, Statuses
  <2>4. Added(grp, l, isLite) = Updated(grp, l, Flag(isLite), count, flag)
    BY <1>2 DEF Added, Updated
  <2> HIDE DEF flag, count
  <2> QED
    BY <2>1, <2>2, <2>3, <2>4, UpdatedGroup
<1> QED
  BY <1>1, <1>2

\* removeListener keeps a group a group, on the same target.
LEMMA RemovedType ==
  ASSUME NEW grp \in Group, NEW l \in Listeners
  PROVE  /\ Removed(grp, l) \in Group
         /\ Removed(grp, l).target = grp.target
<1> DEFINE count == IF grp.listeners[l] = "full" /\ ~IsLast(grp, l)
                    THEN grp.isLiteFalseCount - 1 ELSE grp.isLiteFalseCount
<1>1. count \in Int /\ grp.registeredIsLite \in BOOLEAN /\ "none" \in Statuses
  BY DEF Group, Statuses
<1>2. Removed(grp, l) = Updated(grp, l, "none", count, grp.registeredIsLite)
  BY DEF Removed, Updated, Group
<1> HIDE DEF count
<1> QED
  BY <1>1, <1>2, UpdatedGroup

\* What addListener does to the listeners that want values.
LEMMA AddedFull ==
  ASSUME NEW grp \in Group, NEW l \in Listeners, NEW isLite \in BOOLEAN,
         IsNews(grp, l, isLite)
  PROVE  /\ isLite => FullListeners(Added(grp, l, isLite)) = FullListeners(grp) \ {l}
         /\ ~isLite => FullListeners(Added(grp, l, isLite)) = FullListeners(grp) \cup {l}
  BY DEF FullListeners, Added, Flag, Group

\* removeListener takes the listener from those that want values.
LEMMA RemovedFull ==
  ASSUME NEW grp \in Group, NEW l \in Listeners
  PROVE  FullListeners(Removed(grp, l)) = FullListeners(grp) \ {l}
  BY DEF FullListeners, Removed, Group

\* addListener never leaves a group lite that has a listener for values: the
\* first such listener is the one that makes it re-register.
LEMMA AddedKeepsLiteMeansLite ==
  ASSUME NEW grp \in Group, NEW l \in Listeners, NEW isLite \in BOOLEAN,
         LiteMeansLite(grp)
  PROVE  LiteMeansLite(Added(grp, l, isLite))
<1>1. CASE ~IsNews(grp, l, isLite)
  BY <1>1 DEF Added
<1>2. CASE IsNews(grp, l, isLite)
  <2>1. Added(grp, l, isLite).registeredIsLite =
          IF NeedsRegistration(grp, l, isLite) THEN isLite ELSE grp.registeredIsLite
    BY <1>2 DEF Added, Group
  <2>2. SUFFICES ASSUME Added(grp, l, isLite).registeredIsLite
                 PROVE  FullListeners(Added(grp, l, isLite)) = {}
    BY DEF LiteMeansLite
  <2>3. CASE NeedsRegistration(grp, l, isLite)
    <3>1. isLite
      BY <2>1, <2>2, <2>3
    <3>2. Registered(grp) \ {l} = {} \/ grp.registeredIsLite
      BY <2>3, <3>1 DEF NeedsRegistration
    <3>3. FullListeners(grp) \subseteq Registered(grp)
      BY DEF FullListeners, Registered
    <3>4. FullListeners(grp) \ {l} = {}
      BY <3>2, <3>3 DEF LiteMeansLite
    <3>5. FullListeners(Added(grp, l, isLite)) = FullListeners(grp) \ {l}
      BY <1>2, <3>1, AddedFull
    <3> QED
      BY <3>4, <3>5
  <2>4. CASE ~NeedsRegistration(grp, l, isLite)
    <3>1. grp.registeredIsLite
      BY <2>1, <2>2, <2>4
    <3>2. isLite
      BY <2>4, <3>1 DEF NeedsRegistration
    <3>3. FullListeners(Added(grp, l, isLite)) = FullListeners(grp) \ {l}
      BY <1>2, <3>2, AddedFull
    <3> QED
      BY <3>1, <3>3 DEF LiteMeansLite
  <2> QED
    BY <2>3, <2>4
<1> QED
  BY <1>1, <1>2

\* removeListener only takes listeners away and leaves the flag alone.
LEMMA RemovedKeepsLiteMeansLite ==
  ASSUME NEW grp \in Group, NEW l \in Listeners, LiteMeansLite(grp)
  PROVE  LiteMeansLite(Removed(grp, l))
<1>1. Removed(grp, l).registeredIsLite = grp.registeredIsLite
  BY DEF Removed, Group
<1> QED
  BY <1>1, RemovedFull DEF LiteMeansLite

\* addListener counts every listener that comes to want values; one that turns
\* lite stays counted, so the count may exceed the listeners.
LEMMA AddedKeepsCountBounds ==
  ASSUME NEW grp \in Group, NEW l \in Listeners, NEW isLite \in BOOLEAN,
         CountBounds(grp)
  PROVE  CountBounds(Added(grp, l, isLite))
<1>1. CASE ~IsNews(grp, l, isLite)
  BY <1>1 DEF Added
<1>2. CASE IsNews(grp, l, isLite) /\ isLite
  <2>1. Added(grp, l, isLite).isLiteFalseCount = grp.isLiteFalseCount
    BY <1>2 DEF Added, Group
  <2>2. Cardinality(FullListeners(grp) \ {l}) <= Cardinality(FullListeners(grp))
    <3>1. IsFiniteSet(FullListeners(grp)) /\ Cardinality(FullListeners(grp)) \in Nat
      BY FullListenersFinite
    <3>2. \/ Cardinality(FullListeners(grp) \ {l}) = Cardinality(FullListeners(grp)) - 1
          \/ Cardinality(FullListeners(grp) \ {l}) = Cardinality(FullListeners(grp))
      BY <3>1, FS_RemoveElement
    <3> QED
      BY <3>1, <3>2
  <2>3. Cardinality(FullListeners(grp) \ {l}) \in Nat
    BY FullListenersFinite, FS_RemoveElement, FS_CardinalityType
  <2>4. grp.isLiteFalseCount \in Int
    BY DEF Group
  <2>5. FullListeners(Added(grp, l, isLite)) = FullListeners(grp) \ {l}
    BY <1>2, AddedFull
  <2> QED
    BY <2>1, <2>2, <2>3, <2>4, <2>5, FullListenersFinite DEF CountBounds
<1>3. CASE IsNews(grp, l, isLite) /\ ~isLite
  <2>1. Added(grp, l, isLite).isLiteFalseCount = grp.isLiteFalseCount + 1
    BY <1>3 DEF Added, Group
  <2>2. Cardinality(FullListeners(grp) \cup {l}) = Cardinality(FullListeners(grp)) + 1
    <3>1. l \notin FullListeners(grp)
      BY <1>3 DEF IsNews, Flag, FullListeners
    <3> QED
      BY <3>1, FullListenersFinite, FS_AddElement
  <2>3. grp.isLiteFalseCount \in Int
    BY DEF Group
  <2>4. FullListeners(Added(grp, l, isLite)) = FullListeners(grp) \cup {l}
    BY <1>3, AddedFull
  <2> QED
    BY <2>1, <2>2, <2>3, <2>4, FullListenersFinite DEF CountBounds
<1> QED
  BY <1>1, <1>2, <1>3

\* removeListener uncounts only listeners that it takes away.
LEMMA RemovedKeepsCountBounds ==
  ASSUME NEW grp \in Group, NEW l \in Listeners, CountBounds(grp)
  PROVE  CountBounds(Removed(grp, l))
<1>1. grp.isLiteFalseCount \in Int
  BY DEF Group
<1>2. CASE grp.listeners[l] = "full"
  <2>1. Removed(grp, l).isLiteFalseCount \in {grp.isLiteFalseCount, grp.isLiteFalseCount - 1}
    BY DEF Removed, Group
  <2>2. l \in FullListeners(grp)
    BY <1>2 DEF FullListeners
  <2>3. Cardinality(FullListeners(grp) \ {l}) = Cardinality(FullListeners(grp)) - 1
    BY <2>2, FullListenersFinite, FS_RemoveElement
  <2> QED
    BY <1>1, <2>1, <2>3, RemovedFull, FullListenersFinite DEF CountBounds
<1>3. CASE grp.listeners[l] # "full"
  <2>1. Removed(grp, l).isLiteFalseCount = grp.isLiteFalseCount
    BY <1>3 DEF Removed, Group
  <2>2. FullListeners(grp) \ {l} = FullListeners(grp)
    BY <1>3 DEF FullListeners
  <2> QED
    BY <2>1, <2>2, RemovedFull DEF CountBounds
<1> QED
  BY <1>2, <1>3

\* The requests of a call are subscribes and unsubscribes.
LEMMA ShortSeqs ==
  ASSUME NEW a \in Steps, NEW b \in Steps
  PROVE  <<>> \in Seq(Steps) /\ <<a>> \in Seq(Steps) /\ <<a, b>> \in Seq(Steps)
  OBVIOUS

\* What addListener awaits.
LEMMA AddStepsType ==
  ASSUME NEW grp \in Group, NEW l \in Listeners, NEW isLite \in BOOLEAN
  PROVE  AddSteps(grp, l, isLite) \in Seq(Steps)
<1>1. Flag(isLite) \in Steps /\ "unsub" \in Steps
  BY DEF Flag, Steps
<1>2. /\ <<>> \in Seq(Steps)
      /\ <<Flag(isLite)>> \in Seq(Steps)
      /\ <<"unsub", Flag(isLite)>> \in Seq(Steps)
  BY <1>1, ShortSeqs
<1> QED
  BY <1>2 DEF AddSteps

\* What removeListener awaits.
LEMMA RemoveStepsType ==
  ASSUME NEW grp \in Group, NEW l \in Listeners
  PROVE  RemoveSteps(grp, l) \in Seq(Steps)
<1>1. "lite" \in Steps /\ "unsub" \in Steps
  BY DEF Steps
<1>2. <<>> \in Seq(Steps) /\ <<"unsub">> \in Seq(Steps) /\ <<"unsub", "lite">> \in Seq(Steps)
  BY <1>1, ShortSeqs
<1> QED
  BY <1>2 DEF RemoveSteps

----------------------------------------------------------------------------
(* Types, and the groups of a manager.                                     *)

\* The types of TypeOK with the lengths they depend on as parameters.
JobSet(r, s) == [do : {"write", "settled"}, uid : 1 .. r, via : 0 .. s]
                  \cup [do : {"disconnect", "close"}, uid : {0}, via : 0 .. s]

RequestSet(g) == [group : 1 .. g, step : Steps, rest : Seq(Steps), call : Nat]

StreamSet(r, s) == [promise  : {"pending", "stream", "null"},
                    wire     : {"none", "open", "ended", "broken", "dead"},
                    waiters  : Seq(JobSet(r, s)),
                    toServer : Seq(1 .. r),
                    toClient : Seq(1 .. r),
                    subs     : [Targets -> 0 .. r]]

\* The parts of TypeOK that Send changes.
MessagesOK ==
  /\ requests \in Seq(RequestSet(Len(groups)))
  /\ streams \in Seq(StreamSet(Len(requests), Len(streams)))
  /\ streamPromise \in 0 .. Len(streams)
  /\ jobs \in Seq(JobSet(Len(requests), Len(streams)))

\* The parts about the groups and the maps to them.
RegistryOK ==
  /\ groups \in Seq(Group)
  /\ groupOf \in [Targets -> 0 .. Len(groups)]
  /\ DOMAIN filterIds \subseteq 0 .. Len(requests)
  /\ filterIds \in [DOMAIN filterIds -> 0 .. Len(groups)]

\* The rest.
OthersOK ==
  /\ pending \subseteq 1 .. Len(requests)
  /\ channel \in {"READY", "CONNECTING"}
  /\ session \in Watcher
  /\ markedForClose \in BOOLEAN /\ attached \in BOOLEAN /\ released \in BOOLEAN
  /\ open \subseteq [call : Nat, target : Targets]
  /\ used \in [calls : Nat, drops : Nat, fails : Nat, timeouts : Nat]

\* TypeOK is the conjunction of these parts.
LEMMA TypeParts == TypeOK <=> MessagesOK /\ RegistryOK /\ OthersOK
  BY DEF TypeOK, MessagesOK, RegistryOK, OthersOK, Jobs, Requests, Streams,
         JobSet, RequestSet, StreamSet

\* More requests and streams only add jobs.
LEMMA JobsGrow ==
  ASSUME NEW r1 \in Nat, NEW r2 \in Nat, NEW s1 \in Nat, NEW s2 \in Nat,
         r1 <= r2, s1 <= s2
  PROVE  Seq(JobSet(r1, s1)) \subseteq Seq(JobSet(r2, s2))
<1>1. JobSet(r1, s1) \subseteq JobSet(r2, s2)
  BY DEF JobSet
<1> QED
  BY <1>1, SeqMonotonic

\* More groups only add requests.
LEMMA RequestsGrow ==
  ASSUME NEW g1 \in Nat, NEW g2 \in Nat, g1 <= g2
  PROVE  Seq(RequestSet(g1)) \subseteq Seq(RequestSet(g2))
<1>1. RequestSet(g1) \subseteq RequestSet(g2)
  BY DEF RequestSet
<1> QED
  BY <1>1, SeqMonotonic

\* More requests and streams only add stream states.
LEMMA StreamsGrow ==
  ASSUME NEW r1 \in Nat, NEW r2 \in Nat, NEW s1 \in Nat, NEW s2 \in Nat,
         r1 <= r2, s1 <= s2
  PROVE  Seq(StreamSet(r1, s1)) \subseteq Seq(StreamSet(r2, s2))
<1>1. Seq(JobSet(r1, s1)) \subseteq Seq(JobSet(r2, s2))
  BY JobsGrow
<1>2. Seq(1 .. r1) \subseteq Seq(1 .. r2)
  <2>1. 1 .. r1 \subseteq 1 .. r2
    OBVIOUS
  <2> QED
    BY <2>1, SeqMonotonic
<1>3. [Targets -> 0 .. r1] \subseteq [Targets -> 0 .. r2]
  <2>1. 0 .. r1 \subseteq 0 .. r2
    OBVIOUS
  <2> QED
    BY <2>1
<1>4. StreamSet(r1, s1) \subseteq StreamSet(r2, s2)
  BY <1>1, <1>2, <1>3 DEF StreamSet
<1> QED
  BY <1>4, SeqMonotonic

\* A stream as ensureStream makes it.
LEMMA NewStreamType ==
  ASSUME NEW r \in Nat, NEW s \in Nat
  PROVE  NewStream \in StreamSet(r, s)
<1>1. NoSubscriptions \in [Targets -> 0 .. r]
  BY DEF NoSubscriptions
<1>2. <<>> \in Seq(JobSet(r, s)) /\ <<>> \in Seq(1 .. r)
  OBVIOUS
<1> QED
  BY <1>1, <1>2 DEF NewStream, StreamSet

\* A stream stays a stream when it breaks.
LEMMA BrokenType ==
  ASSUME NEW r \in Nat, NEW s \in Nat, NEW str \in StreamSet(r, s)
  PROVE  Broken(str) \in StreamSet(r, s)
<1>1. NoSubscriptions \in [Targets -> 0 .. r]
  BY DEF NoSubscriptions
<1>2. <<>> \in Seq(1 .. r)
  OBVIOUS
<1> QED
  BY <1>1, <1>2 DEF Broken, StreamSet

\* Continuations go to the waiters of a stream or to the jobs.
LEMMA AwaitingType ==
  ASSUME NEW r \in Nat, NEW strs, NEW s \in 1 .. Len(strs), NEW js, NEW queue,
         strs \in Seq(StreamSet(r, Len(strs))),
         js \in Seq(JobSet(r, Len(strs))),
         queue \in Seq(JobSet(r, Len(strs))),
         Awaiting(s, js, strs, queue)
  PROVE  /\ streams' \in Seq(StreamSet(r, Len(strs)))
         /\ Len(streams') = Len(strs)
         /\ jobs' \in Seq(JobSet(r, Len(strs)))
<1>1. CASE strs[s].promise = "pending"
  <2> DEFINE new == [strs[s] EXCEPT !.waiters = @ \o js]
  <2>1. strs[s] \in StreamSet(r, Len(strs))
    BY ElementOfSeq
  <2>2. strs[s].waiters \o js \in Seq(JobSet(r, Len(strs)))
    BY <2>1, ConcatProperties DEF StreamSet
  <2>3. new \in StreamSet(r, Len(strs))
    BY <2>1, <2>2 DEF StreamSet
  <2>4. streams' = [strs EXCEPT ![s] = new] /\ jobs' = queue
    BY <1>1 DEF Awaiting
  <2> HIDE DEF new
  <2> QED
    BY <2>3, <2>4, ExceptSeq
<1>2. CASE strs[s].promise # "pending"
  BY <1>2, ConcatProperties DEF Awaiting
<1> QED
  BY <1>1, <1>2

\* Building and writing requests keeps everything Send changes well typed,
\* while groups may be added in the same step.
LEMMA SendType ==
  ASSUME MessagesOK, Len(groups) \in Nat, Len(groups)' \in Nat,
         Len(groups) <= Len(groups)',
         NEW batch \in Seq(RequestSet(Len(groups)')),
         NEW current \in 0 .. Len(streams),
         NEW strs \in Seq(StreamSet(Len(requests), Len(streams))),
         Len(strs) = Len(streams),
         NEW queue \in Seq(JobSet(Len(requests), Len(streams))),
         Send(batch, current, strs, queue)
  PROVE  MessagesOK' /\ Len(requests) <= Len(requests)' /\ Len(streams) <= Len(streams)'
<1> DEFINE r  == Len(requests)
           n  == Len(streams)
           rr == Len(requests) + Len(batch)
<1>1. r \in Nat /\ n \in Nat /\ rr \in Nat /\ r <= rr
  BY LenProperties DEF MessagesOK
<1>2. requests' \in Seq(RequestSet(Len(groups)')) /\ Len(requests') = rr
  <2>1. requests \in Seq(RequestSet(Len(groups)'))
    BY RequestsGrow DEF MessagesOK
  <2> QED
    BY <2>1, ConcatProperties DEF Send
<1>3. CASE batch = <<>>
  <2>1. streamPromise' = current /\ streams' = strs /\ jobs' = queue
    BY <1>3 DEF Send
  <2>2. Len(requests') = Len(requests) /\ Len(streams') = Len(streams)
    BY <1>1, <1>2, <1>3, <2>1
  <2>3. /\ streams' \in Seq(StreamSet(Len(requests'), Len(streams')))
        /\ jobs' \in Seq(JobSet(Len(requests'), Len(streams')))
        /\ streamPromise' \in 0 .. Len(streams')
    BY <2>1, <2>2
  <2> QED
    BY <1>1, <1>2, <2>2, <2>3 DEF MessagesOK
<1>4. CASE batch # <<>>
  <2> DEFINE s   == Ensured(current, strs)
             all == IF current = 0 THEN Append(strs, NewStream) ELSE strs
             m   == Len(all)
             js  == [i \in DOMAIN batch |-> Job("write", Len(requests) + i, s)]
  <2>1. streamPromise' = s /\ Awaiting(s, js, all, queue)
    BY <1>4 DEF Send
  <2>2. m \in Nat /\ n <= m /\ s \in 1 .. m
    BY <1>1 DEF Ensured
  <2>3. /\ Seq(StreamSet(r, n)) \subseteq Seq(StreamSet(rr, m))
        /\ Seq(JobSet(r, n)) \subseteq Seq(JobSet(rr, m))
    <3> HIDE DEF r, n, rr, m
    <3> QED
      BY <1>1, <2>2, StreamsGrow, JobsGrow
  <2>4. all \in Seq(StreamSet(rr, m))
    <3>1. strs \in Seq(StreamSet(rr, m))
      BY <2>3
    <3>2. NewStream \in StreamSet(rr, m)
      <4> HIDE DEF rr, m
      <4> QED
        BY <1>1, <2>2, NewStreamType
    <3> HIDE DEF rr, m
    <3> QED
      BY <3>1, <3>2
  <2>5. js \in Seq(JobSet(rr, m))
    <3>1. DOMAIN batch = 1 .. Len(batch) /\ Len(batch) \in Nat
      BY LenProperties
    <3>2. \A i \in 1 .. Len(batch) : Job("write", Len(requests) + i, s) \in JobSet(rr, m)
      BY <1>1, <2>2, <3>1 DEF Job, JobSet
    <3> HIDE DEF rr, m, s
    <3> QED
      BY <3>1, <3>2, IsASeq
  <2>6. queue \in Seq(JobSet(rr, m))
    BY <2>3
  <2>7. /\ streams' \in Seq(StreamSet(rr, m))
        /\ Len(streams') = m
        /\ jobs' \in Seq(JobSet(rr, m))
    <3> HIDE DEF rr, s, all, js
    <3> QED
      BY <1>1, <2>1, <2>2, <2>4, <2>5, <2>6, AwaitingType
  <2> HIDE DEF rr, s, m
  <2> QED
    BY <1>1, <1>2, <2>1, <2>2, <2>7 DEF MessagesOK
<1> QED
  BY <1>3, <1>4

\* The lengths that the types depend on.
LEMMA Lengths ==
  ASSUME MessagesOK, RegistryOK
  PROVE  /\ Len(groups) \in Nat /\ Len(requests) \in Nat /\ Len(streams) \in Nat
         /\ DOMAIN groups = 1 .. Len(groups)
         /\ DOMAIN streams = 1 .. Len(streams)
  BY LenProperties DEF MessagesOK, RegistryOK

\* Replacing one stream.
LEMMA ReplaceType ==
  ASSUME MessagesOK, NEW s \in 1 .. Len(streams),
         NEW new \in StreamSet(Len(requests), Len(streams)),
         NEW queue \in Seq(JobSet(Len(requests), Len(streams))),
         streams' = [streams EXCEPT ![s] = new], jobs' = queue,
         UNCHANGED <<groups, requests>>,
         streamPromise' \in 0 .. Len(streams)
  PROVE  MessagesOK' /\ Len(streams)' = Len(streams)
<1>1. streams' \in Seq(StreamSet(Len(requests), Len(streams))) /\ Len(streams') = Len(streams)
  BY ExceptSeq DEF MessagesOK
<1> QED
  BY <1>1 DEF MessagesOK

\* The first job and the rest.
LEMMA JobTypes ==
  ASSUME MessagesOK, jobs # <<>>
  PROVE  /\ Head(jobs) \in JobSet(Len(requests), Len(streams))
         /\ Tail(jobs) \in Seq(JobSet(Len(requests), Len(streams)))
  BY HeadTailProperties DEF MessagesOK

\* A stream is one of the known states.
LEMMA StreamType ==
  ASSUME MessagesOK, NEW s \in 1 .. Len(streams)
  PROVE  streams[s] \in StreamSet(Len(requests), Len(streams))
  BY ElementOfSeq DEF MessagesOK

\* The target of a request that exists.
LEMMA TargetType ==
  ASSUME MessagesOK, RegistryOK, NEW uid \in 1 .. Len(requests)
  PROVE  /\ requests[uid] \in RequestSet(Len(groups))
         /\ Target(uid) \in Targets
<1>1. requests[uid] \in RequestSet(Len(groups))
  BY ElementOfSeq DEF MessagesOK
<1>2. groups[requests[uid].group] \in Group
  BY <1>1, ElementOfSeq DEF RequestSet, RegistryOK
<1> QED
  BY <1>1, <1>2 DEF Target, Group

\* Resubscriptions are requests of groups that exist.
LEMMA ResubscriptionsType ==
  ASSUME RegistryOK, NEW order \in Orders
  PROVE  Resubscriptions(order) \in Seq(RequestSet(Len(groups)))
<1>1. Len(groups) \in Nat
  BY LenProperties DEF RegistryOK
<1>2. Mapped \subseteq 1 .. Len(groups)
  BY DEF Mapped
<1>3. Cardinality(Mapped) \in Nat
  <2>1. IsFiniteSet(1 .. Len(groups))
    BY <1>1, FS_Interval
  <2>2. IsFiniteSet(Mapped)
    BY <1>2, <2>1, FS_Subset
  <2> QED
    BY <2>2, FS_CardinalityType
<1>4. order \in [1 .. Cardinality(Mapped) -> Mapped]
  BY DEF Orders
<1> DEFINE flag(i) == Flag(groups[order[i]].registeredIsLite)
           req(i)  == Request(order[i], <<flag(i)>>, 0)
<1>5. ASSUME NEW i \in 1 .. Cardinality(Mapped)
      PROVE  req(i) \in RequestSet(Len(groups))
  <2>1. order[i] \in 1 .. Len(groups)
    BY <1>2, <1>4
  <2>2. flag(i) \in Steps
    BY DEF Flag, Steps
  <2> HIDE DEF flag
  <2>3. Head(<<flag(i)>>) = flag(i) /\ Tail(<<flag(i)>>) = <<>>
    OBVIOUS
  <2>4. <<>> \in Seq(Steps) /\ 0 \in Nat
    OBVIOUS
  <2> QED
    BY <2>1, <2>2, <2>3, <2>4 DEF Request, RequestSet
<1>6. Resubscriptions(order) = [i \in 1 .. Cardinality(Mapped) |-> req(i)]
  BY <1>4 DEF Resubscriptions
<1> HIDE DEF req
<1> QED
  BY <1>3, <1>5, <1>6, IsASeq

\* A listener call: its first request, if any, is sent.
LEMMA CallType ==
  ASSUME MessagesOK, RegistryOK, OthersOK,
         Len(groups)' \in Nat, Len(groups) <= Len(groups)',
         NEW t \in Targets, NEW g, NEW steps \in Seq(Steps),
         steps # <<>> => g \in 1 .. Len(groups)',
         Call(t, g, steps)
  PROVE  /\ MessagesOK'
         /\ Len(requests) <= Len(requests)' /\ Len(streams) <= Len(streams)'
         /\ used' \in [calls : Nat, drops : Nat, fails : Nat, timeouts : Nat]
         /\ open' \subseteq [call : Nat, target : Targets]
<1> DEFINE call == used.calls + 1
<1>1. call \in Nat
  BY DEF OthersOK
<1>2. used' \in [calls : Nat, drops : Nat, fails : Nat, timeouts : Nat]
  BY <1>1 DEF Call, OthersOK
<1>3. /\ streamPromise \in 0 .. Len(streams)
      /\ streams \in Seq(StreamSet(Len(requests), Len(streams)))
      /\ jobs \in Seq(JobSet(Len(requests), Len(streams)))
  BY DEF MessagesOK
<1>4. CASE steps = <<>>
  <2>1. <<>> \in Seq(RequestSet(Len(groups)'))
    OBVIOUS
  <2>2. open' = open /\ Send(<<>>, streamPromise, streams, jobs)
    BY <1>4 DEF Call
  <2> QED
    BY <1>2, <1>3, <2>1, <2>2, Lengths, SendType DEF OthersOK
<1>5. CASE steps # <<>>
  <2> DEFINE req == Request(g, steps, call)
  <2>1. Head(steps) \in Steps /\ Tail(steps) \in Seq(Steps)
    BY <1>5, HeadTailProperties
  <2>2. req \in RequestSet(Len(groups)')
    BY <1>1, <1>5, <2>1 DEF Request, RequestSet
  <2>3. /\ open' = open \cup {[call |-> call, target |-> t]}
        /\ Send(<<req>>, streamPromise, streams, jobs)
    BY <1>5 DEF Call
  <2> HIDE DEF req, call
  <2>4. <<req>> \in Seq(RequestSet(Len(groups)'))
    BY <2>2
  <2>5. open' \subseteq [call : Nat, target : Targets]
    BY <1>1, <2>3 DEF OthersOK
  <2> QED
    BY <1>2, <1>3, <2>3, <2>4, <2>5, Lengths, SendType
<1> QED
  BY <1>4, <1>5

\* Every part of TypeOK.
Typed == MessagesOK /\ RegistryOK /\ OthersOK

\* What is left to show of RegistryOK when requests, and maybe groups, are
\* added and filterIds stays.
LEMMA RegistryGrows ==
  ASSUME RegistryOK, Len(requests) \in Nat, Len(requests)' \in Nat,
         Len(requests) <= Len(requests)',
         Len(groups)' \in Nat, Len(groups) <= Len(groups)',
         groups' \in Seq(Group),
         groupOf' \in [Targets -> 0 .. Len(groups)'],
         UNCHANGED filterIds
  PROVE  RegistryOK'
<1>1. 0 .. Len(groups) \subseteq 0 .. Len(groups)'
  BY LenProperties DEF RegistryOK
<1>2. filterIds' \in [DOMAIN filterIds -> 0 .. Len(groups)']
  BY <1>1 DEF RegistryOK
<1>3. DOMAIN filterIds \subseteq 0 .. Len(requests')
  BY DEF RegistryOK
<1> QED
  BY <1>2, <1>3 DEF RegistryOK

\* addMapListener.
LEMMA AddListenerTyped ==
  ASSUME Typed, NEW t \in Targets, NEW l \in Listeners, NEW isLite \in BOOLEAN,
         AddListener(t, l, isLite)
  PROVE  Typed'
<1> USE DEF Typed
<1> DEFINE known == groupOf[t] # 0
           g     == IF known THEN groupOf[t] ELSE Len(groups) + 1
           grp   == IF known THEN groups[g] ELSE NewGroup(t)
           new   == Added(grp, l, isLite)
           steps == AddSteps(grp, l, isLite)
<1>1. /\ groups' = IF known THEN [groups EXCEPT ![g] = new] ELSE Append(groups, new)
      /\ groupOf' = [groupOf EXCEPT ![t] = g]
      /\ Call(t, g, steps)
      /\ UNCHANGED <<filterIds, pending, network, lifecycle>>
  BY DEF AddListener
<1>2. Len(groups) \in Nat /\ (known => g \in 1 .. Len(groups))
  BY Lengths DEF RegistryOK
<1>3. grp \in Group
  BY <1>2, NewGroupFacts, ElementOfSeq DEF RegistryOK
<1>4. new \in Group /\ steps \in Seq(Steps)
  <2> HIDE DEF grp
  <2> QED
    BY <1>3, AddedType, AddStepsType
<1> HIDE DEF grp, new, steps
<1>5. /\ groups' \in Seq(Group)
      /\ Len(groups)' \in Nat
      /\ Len(groups) <= Len(groups)'
      /\ g \in 1 .. Len(groups)'
  <2>1. CASE known
    <3>1. groups' = [groups EXCEPT ![g] = new] /\ g \in 1 .. Len(groups)
      BY <1>1, <1>2, <2>1
    <3> HIDE DEF g, known
    <3> QED
      BY <1>2, <1>4, <3>1, ExceptSeq DEF RegistryOK
  <2>2. CASE ~known
    <3>1. groups' = Append(groups, new) /\ g = Len(groups) + 1
      BY <1>1, <2>2
    <3> HIDE DEF g, known
    <3> QED
      BY <1>2, <1>4, <3>1 DEF RegistryOK
  <2> QED
    BY <2>1, <2>2
<1> HIDE DEF g, known
<1>6. groupOf' \in [Targets -> 0 .. Len(groups)']
  <2>1. 0 .. Len(groups) \subseteq 0 .. Len(groups)' /\ g \in 0 .. Len(groups)'
    BY <1>2, <1>5
  <2> QED
    BY <1>1, <2>1 DEF RegistryOK
<1>7. /\ MessagesOK'
      /\ Len(requests) <= Len(requests)'
      /\ used' \in [calls : Nat, drops : Nat, fails : Nat, timeouts : Nat]
      /\ open' \subseteq [call : Nat, target : Targets]
  BY <1>1, <1>4, <1>5, CallType
<1>8. Len(requests) \in Nat /\ Len(requests)' \in Nat
  BY <1>7, LenProperties DEF MessagesOK
<1>9. RegistryOK'
  BY <1>1, <1>5, <1>6, <1>7, <1>8, RegistryGrows
<1>10. OthersOK'
  BY <1>1, <1>7, <1>8 DEF OthersOK, network, lifecycle
<1> QED
  BY <1>7, <1>9, <1>10

\* removeMapListener.
LEMMA RemoveListenerTyped ==
  ASSUME Typed, NEW t \in Targets, NEW l \in Listeners, RemoveListener(t, l)
  PROVE  Typed'
<1> USE DEF Typed
<1> DEFINE g     == FoundForRemoval(t)
           steps == IF g = 0 THEN <<>> ELSE RemoveSteps(groups[g], l)
<1>1. Len(groups) \in Nat /\ g \in 0 .. Len(groups)
  BY Lengths DEF RegistryOK, FoundForRemoval
<1>2. UNCHANGED <<groupOf, filterIds, pending, network, lifecycle>>
  BY DEF RemoveListener
<1>3. Call(t, g, steps) /\ steps \in Seq(Steps) /\ (steps # <<>> => g # 0)
  <2>1. CASE g = 0
    BY <2>1 DEF RemoveListener
  <2>2. CASE g # 0
    <3>1. Call(t, g, RemoveSteps(groups[g], l))
      BY <2>2 DEF RemoveListener
    <3>2. groups[g] \in Group
      BY <1>1, <2>2, ElementOfSeq DEF RegistryOK
    <3> QED
      BY <2>2, <3>1, <3>2, RemoveStepsType
  <2> QED
    BY <2>1, <2>2
<1>4. groups' \in Seq(Group) /\ Len(groups)' = Len(groups)
  <2>1. CASE g = 0
    BY <2>1 DEF RemoveListener, RegistryOK
  <2>2. CASE g # 0
    <3>1. groups' = [groups EXCEPT ![g] = Removed(groups[g], l)] /\ g \in 1 .. Len(groups)
      BY <1>1, <2>2 DEF RemoveListener
    <3>2. Removed(groups[g], l) \in Group
      BY <3>1, ElementOfSeq, RemovedType DEF RegistryOK
    <3> HIDE DEF g
    <3> QED
      BY <3>1, <3>2, ExceptSeq DEF RegistryOK
  <2> QED
    BY <2>1, <2>2
<1> HIDE DEF g, steps
<1>5. /\ MessagesOK'
      /\ Len(requests) <= Len(requests)'
      /\ used' \in [calls : Nat, drops : Nat, fails : Nat, timeouts : Nat]
      /\ open' \subseteq [call : Nat, target : Targets]
  <2>1. steps # <<>> => g \in 1 .. Len(groups)'
    BY <1>1, <1>3, <1>4
  <2> QED
    BY <1>1, <1>3, <1>4, <2>1, CallType
<1>6. Len(requests) \in Nat /\ Len(requests)' \in Nat
  BY <1>5, LenProperties DEF MessagesOK
<1>7. groupOf' \in [Targets -> 0 .. Len(groups)']
  BY <1>2, <1>4 DEF RegistryOK
<1>8. RegistryOK'
  BY <1>1, <1>2, <1>4, <1>5, <1>6, <1>7, RegistryGrows
<1>9. OthersOK'
  BY <1>2, <1>5, <1>6 DEF OthersOK, network, lifecycle
<1> QED
  BY <1>5, <1>8, <1>9

\* writeRequest's continuation.
LEMMA WriteJobTyped ==
  ASSUME Typed, jobs # <<>>, WriteJob(Head(jobs))
  PROVE  Typed'
<1> USE DEF Typed
<1> DEFINE job == Head(jobs)
           r   == Len(requests)
           n   == Len(streams)
<1>1. job \in JobSet(r, n) /\ Tail(jobs) \in Seq(JobSet(r, n))
  BY JobTypes
<1>2. r \in Nat /\ n \in Nat
  BY Lengths
<1>3. job.do = "write" /\ job.uid \in 1 .. r
  BY <1>1 DEF WriteJob, JobSet
<1>4. UNCHANGED <<registry, filterIds, requests, streamPromise, network, lifecycle, open, used>>
  BY DEF WriteJob
<1>5. jobs' \in Seq(JobSet(r, n)) /\ pending' \subseteq 1 .. r
  <2>1. CASE streams[job.via].promise = "null"
    <3>1. jobs' = Append(Tail(jobs), Job("settled", job.uid, 0)) /\ pending' = pending
      BY <2>1 DEF WriteJob
    <3>2. Job("settled", job.uid, 0) \in JobSet(r, n)
      BY <1>2, <1>3 DEF Job, JobSet
    <3> HIDE DEF r, n, job
    <3> QED
      BY <1>1, <3>1, <3>2 DEF OthersOK, r
  <2>2. CASE streams[job.via].promise # "null"
    BY <1>1, <1>3, <2>2 DEF WriteJob, OthersOK
  <2> QED
    BY <2>1, <2>2
<1>6. streams' \in Seq(StreamSet(r, n)) /\ Len(streams') = n
  <2>1. CASE streams' = streams
    BY <2>1 DEF MessagesOK
  <2>2. CASE streams' # streams
    <3> DEFINE v   == job.via
               new == [streams[v] EXCEPT !.toServer = Append(@, job.uid)]
    <3>1. streams' = [streams EXCEPT ![v] = new]
      BY <2>2 DEF WriteJob
    <3>2. v \in 1 .. n
      BY <2>2, <3>1, Lengths DEF MessagesOK
    <3>3. streams[v] \in StreamSet(r, n)
      BY <3>2, StreamType
    <3>4. Append(streams[v].toServer, job.uid) \in Seq(1 .. r)
      BY <1>3, <3>3 DEF StreamSet
    <3>5. new \in StreamSet(r, n)
      BY <3>3, <3>4 DEF StreamSet
    <3> HIDE DEF new, v
    <3> QED
      BY <3>1, <3>2, <3>5, ExceptSeq DEF MessagesOK
  <2> QED
    BY <2>1, <2>2
<1>7. MessagesOK'
  BY <1>4, <1>5, <1>6 DEF MessagesOK, registry
<1>8. RegistryOK' /\ OthersOK'
  BY <1>4, <1>5 DEF RegistryOK, OthersOK, registry, network, lifecycle
<1> QED
  BY <1>7, <1>8

\* postSubscribe and postUnsubscribe leave the maps well typed.
LEMMA PostTyped ==
  ASSUME Typed, NEW uid \in 1 .. Len(requests),
         PostSubscribe(uid) \/ PostUnsubscribe(uid)
  PROVE  /\ groupOf' \in [Targets -> 0 .. Len(groups)]
         /\ DOMAIN filterIds' \subseteq 0 .. Len(requests)
         /\ filterIds' \in [DOMAIN filterIds' -> 0 .. Len(groups)]
<1> USE DEF Typed
<1>1. /\ Len(groups) \in Nat /\ Len(requests) \in Nat
      /\ requests[uid].group \in 1 .. Len(groups)
      /\ Target(uid) \in Targets
  BY Lengths, TargetType DEF RequestSet
<1>2. FilterId(uid) \in 0 .. Len(requests)
  BY <1>1 DEF FilterId
<1>3. CASE PostSubscribe(uid)
  <2>1. groupOf' = groupOf
    BY <1>3 DEF PostSubscribe
  <2>2. CASE Target(uid) \in Keys
    BY <1>3, <2>1, <2>2 DEF PostSubscribe, RegistryOK
  <2>3. CASE Target(uid) \notin Keys
    <3>1. filterIds' = [id \in DOMAIN filterIds \cup {FilterId(uid)} |->
                          IF id = FilterId(uid) THEN requests[uid].group ELSE filterIds[id]]
      BY <1>3, <2>3 DEF PostSubscribe
    <3> QED
      BY <1>1, <1>2, <2>1, <3>1 DEF RegistryOK
  <2> QED
    BY <2>2, <2>3
<1>4. CASE PostUnsubscribe(uid)
  BY <1>1, <1>4 DEF PostUnsubscribe, RegistryOK
<1> QED
  BY <1>3, <1>4

\* The rest of doSubscribe or doUnsubscribe.
LEMMA SettledJobTyped ==
  ASSUME Typed, jobs # <<>>, SettledJob(Head(jobs))
  PROVE  Typed'
<1> USE DEF Typed
<1> DEFINE job == Head(jobs)
           r   == requests[job.uid]
<1>1. /\ job \in JobSet(Len(requests), Len(streams))
      /\ Tail(jobs) \in Seq(JobSet(Len(requests), Len(streams)))
  BY JobTypes
<1>2. job.uid \in 1 .. Len(requests)
  BY <1>1 DEF SettledJob, JobSet
<1>3. PostSubscribe(job.uid) \/ PostUnsubscribe(job.uid)
  BY DEF SettledJob
<1>4. r \in RequestSet(Len(groups))
  BY <1>2, TargetType
<1>5. UNCHANGED <<groups, pending, network, lifecycle, used>>
  BY DEF SettledJob
<1>6. /\ streamPromise \in 0 .. Len(streams)
      /\ streams \in Seq(StreamSet(Len(requests), Len(streams)))
      /\ Len(groups) \in Nat /\ Len(groups)' \in Nat /\ Len(groups) <= Len(groups)'
      /\ RequestSet(Len(groups)') = RequestSet(Len(groups))
  BY <1>5, Lengths DEF MessagesOK
<1>7. MessagesOK' /\ Len(requests) <= Len(requests)' /\ open' \subseteq open
  <2>1. CASE r.rest = <<>>
    <3>1. open' = {c \in open : c.call # r.call} /\ Send(<<>>, streamPromise, streams, Tail(jobs))
      BY <2>1 DEF SettledJob
    <3>2. <<>> \in Seq(RequestSet(Len(groups)'))
      OBVIOUS
    <3> HIDE DEF r
    <3>5. MessagesOK' /\ Len(requests) <= Len(requests)'
      <4> HIDE DEF Typed, job
      <4> QED
        BY <1>1, <1>6, <3>1, <3>2, SendType DEF Typed
    <3> QED
      BY <3>1, <3>5
  <2>2. CASE r.rest # <<>>
    <3> DEFINE req == Request(r.group, r.rest, r.call)
    <3>1. open' = open /\ Send(<<req>>, streamPromise, streams, Tail(jobs))
      BY <2>2 DEF SettledJob
    <3>2. Head(r.rest) \in Steps /\ Tail(r.rest) \in Seq(Steps)
      BY <1>4, <2>2, HeadTailProperties DEF RequestSet
    <3>3. req \in RequestSet(Len(groups)')
      BY <1>4, <1>6, <3>2 DEF Request, RequestSet
    <3> HIDE DEF req
    <3>4. <<req>> \in Seq(RequestSet(Len(groups)'))
      BY <3>3
    <3>5. MessagesOK' /\ Len(requests) <= Len(requests)'
      <4> HIDE DEF Typed, job
      <4> QED
        BY <1>1, <1>6, <3>1, <3>4, SendType DEF Typed
    <3> QED
      BY <3>1, <3>5
  <2> QED
    BY <2>1, <2>2
<1>8. Len(requests) \in Nat /\ Len(requests)' \in Nat
  BY <1>7, LenProperties DEF MessagesOK
<1>9. RegistryOK'
  <2>1. /\ groupOf' \in [Targets -> 0 .. Len(groups)]
        /\ DOMAIN filterIds' \subseteq 0 .. Len(requests)
        /\ filterIds' \in [DOMAIN filterIds' -> 0 .. Len(groups)]
    BY <1>2, <1>3, PostTyped
  <2> QED
    BY <1>5, <1>7, <1>8, <2>1 DEF RegistryOK
<1>10. OthersOK'
  BY <1>5, <1>7, <1>8 DEF OthersOK, network, lifecycle
<1> QED
  BY <1>7, <1>9, <1>10

\* The rest of onDisconnect.
LEMMA DisconnectJobTyped ==
  ASSUME Typed, jobs # <<>>, DisconnectJob(Head(jobs))
  PROVE  Typed'
<1> USE DEF Typed
<1> DEFINE v == Head(jobs).via
<1>1. /\ Tail(jobs) \in Seq(JobSet(Len(requests), Len(streams)))
      /\ v \in 0 .. Len(streams)
  BY JobTypes DEF JobSet
<1>2. /\ jobs' = Tail(jobs) /\ streamPromise' = 0
      /\ UNCHANGED <<registry, filterIds, requests, pending, network, lifecycle, open, used>>
  BY DEF DisconnectJob
<1>3. MessagesOK'
  <2>1. CASE v # 0 /\ streams[v].promise = "stream"
    <3>1. streams' = [streams EXCEPT ![v] = Broken(streams[v])] /\ v \in 1 .. Len(streams)
      BY <1>1, <2>1, Lengths DEF DisconnectJob
    <3>2. Broken(streams[v]) \in StreamSet(Len(requests), Len(streams))
      BY <3>1, Lengths, StreamType, BrokenType
    <3>3. 0 \in 0 .. Len(streams)
      BY Lengths
    <3> HIDE DEF v
    <3> QED
      BY <1>1, <1>2, <3>1, <3>2, <3>3, ReplaceType DEF registry
  <2>2. CASE ~(v # 0 /\ streams[v].promise = "stream")
    <3>1. streams' = streams
      BY <2>2 DEF DisconnectJob
    <3> QED
      BY <1>1, <1>2, <3>1, Lengths DEF MessagesOK, registry
  <2> QED
    BY <2>1, <2>2
<1> QED
  BY <1>2, <1>3 DEF RegistryOK, OthersOK, registry, network, lifecycle

\* The rest of closeEventStream.
LEMMA CloseJobTyped ==
  ASSUME Typed, jobs # <<>>, CloseJob(Head(jobs))
  PROVE  Typed'
<1> USE DEF Typed
<1> DEFINE v == Head(jobs).via
           new == [streams[v] EXCEPT !.wire = "ended"]
<1>1. Tail(jobs) \in Seq(JobSet(Len(requests), Len(streams)))
  BY JobTypes
<1>2. /\ jobs' = Tail(jobs) /\ attached' = FALSE
      /\ UNCHANGED <<registry, filterIds, requests, pending, streamPromise, network,
                     markedForClose, released, open, used>>
  BY DEF CloseJob
<1>3. MessagesOK'
  <2>1. CASE streams' = streams
    BY <1>1, <1>2, <2>1 DEF MessagesOK, registry
  <2>2. CASE streams' # streams
    <3>1. streams' = [streams EXCEPT ![v] = new]
      BY <2>2 DEF CloseJob
    <3>2. v \in 1 .. Len(streams)
      BY <2>2, <3>1, Lengths DEF MessagesOK
    <3>3. new \in StreamSet(Len(requests), Len(streams))
      BY <3>2, StreamType DEF StreamSet
    <3>4. streamPromise' \in 0 .. Len(streams)
      BY <1>2 DEF MessagesOK
    <3> HIDE DEF v, new
    <3> QED
      BY <1>1, <1>2, <3>1, <3>2, <3>3, <3>4, ReplaceType DEF registry
  <2> QED
    BY <2>1, <2>2
<1> QED
  BY <1>2, <1>3 DEF RegistryOK, OthersOK, registry, network

\* waitForReady calls back on a ready channel.
LEMMA StreamReadyTyped ==
  ASSUME Typed, NEW s \in DOMAIN streams, StreamReady(s)
  PROVE  Typed'
<1> USE DEF Typed
<1> DEFINE new == [streams[s] EXCEPT !.promise = "stream", !.wire = "open", !.waiters = <<>>]
<1>1. s \in 1 .. Len(streams) /\ streams[s] \in StreamSet(Len(requests), Len(streams))
  BY Lengths, StreamType
<1>2. streams' = [streams EXCEPT ![s] = new] /\ jobs' = streams[s].waiters
  BY DEF StreamReady
<1>3. UNCHANGED <<registry, filterIds, requests, pending, streamPromise, network,
                  lifecycle, open, used>>
  BY DEF StreamReady
<1>4. <<>> \in Seq(JobSet(Len(requests), Len(streams)))
  OBVIOUS
<1>5. /\ new \in StreamSet(Len(requests), Len(streams))
      /\ streams[s].waiters \in Seq(JobSet(Len(requests), Len(streams)))
  BY <1>1, <1>4 DEF StreamSet
<1>6. streamPromise' \in 0 .. Len(streams)
  BY <1>3 DEF MessagesOK
<1> HIDE DEF new
<1>7. MessagesOK'
  BY <1>1, <1>2, <1>3, <1>5, <1>6, ReplaceType DEF registry
<1> QED
  BY <1>3, <1>7 DEF RegistryOK, OthersOK, registry, network, lifecycle

\* waitForReady calls back with an error.
LEMMA ReadyTimeoutTyped ==
  ASSUME Typed, NEW s \in DOMAIN streams, ReadyTimeout(s)
  PROVE  Typed'
<1> USE DEF Typed
<1> DEFINE r == Len(requests)
           n == Len(streams)
           new == [streams[s] EXCEPT !.promise = "null", !.wire = "open", !.waiters = <<>>]
           opened == [streams EXCEPT ![s] = new]
<1>1. /\ s \in 1 .. n /\ r \in Nat /\ n \in Nat
      /\ streams[s] \in StreamSet(r, n)
  BY Lengths, StreamType
<1>2. /\ streams' = IF streamPromise = 0 THEN Append(opened, NewStream) ELSE opened
      /\ streamPromise' = Ensured(streamPromise, streams)
      /\ jobs' = streams[s].waiters
      /\ UNCHANGED <<registry, filterIds, requests, pending, network, lifecycle, open>>
  BY DEF ReadyTimeout
<1>3. used' \in [calls : Nat, drops : Nat, fails : Nat, timeouts : Nat]
  BY DEF ReadyTimeout, OthersOK
<1>4. <<>> \in Seq(JobSet(r, n))
  OBVIOUS
<1>5. new \in StreamSet(r, n) /\ streams[s].waiters \in Seq(JobSet(r, n))
  BY <1>1, <1>4 DEF StreamSet
<1> HIDE DEF new
<1>6. opened \in Seq(StreamSet(r, n)) /\ Len(opened) = n
  BY <1>1, <1>5, ExceptSeq DEF MessagesOK
<1> HIDE DEF opened
<1>7. MessagesOK'
  <2>1. CASE streamPromise = 0
    <3>1. /\ Seq(StreamSet(r, n)) \subseteq Seq(StreamSet(r, n + 1))
          /\ Seq(JobSet(r, n)) \subseteq Seq(JobSet(r, n + 1))
      <4>1. n + 1 \in Nat /\ n <= n + 1 /\ r <= r
        BY <1>1
      <4> HIDE DEF r, n
      <4> QED
        BY <1>1, <4>1, StreamsGrow, JobsGrow
    <3>2. NewStream \in StreamSet(r, n + 1)
      <4>1. n + 1 \in Nat
        BY <1>1
      <4> QED
        BY <1>1, <4>1, NewStreamType
    <3>3. opened \in Seq(StreamSet(r, n + 1))
      BY <1>6, <3>1
    <3>4. /\ streams' \in Seq(StreamSet(r, n + 1))
          /\ Len(streams') = n + 1
          /\ streamPromise' = n + 1
      BY <1>1, <1>2, <1>6, <2>1, <3>2, <3>3 DEF Ensured
    <3>5. jobs' \in Seq(JobSet(r, n + 1))
      BY <1>2, <1>5, <3>1
    <3> QED
      BY <1>1, <1>2, <3>4, <3>5 DEF MessagesOK, registry
  <2>2. CASE streamPromise # 0
    <3>1. streams' = opened /\ streamPromise' = streamPromise
      BY <1>2, <2>2 DEF Ensured
    <3> QED
      BY <1>2, <1>5, <1>6, <3>1 DEF MessagesOK, registry
  <2> QED
    BY <2>1, <2>2
<1> QED
  BY <1>2, <1>3, <1>7 DEF RegistryOK, OthersOK, registry, network, lifecycle

\* The proxy takes a request.
LEMMA ServerReceiveTyped ==
  ASSUME Typed, NEW s \in DOMAIN streams, ServerReceive(s)
  PROVE  Typed'
<1> USE DEF Typed
<1> DEFINE r   == Len(requests)
           uid == Head(streams[s].toServer)
           sub == IF requests[uid].step = "unsub" THEN 0 ELSE uid
           new == [streams[s] EXCEPT !.toServer = Tail(@), !.toClient = Append(@, uid),
                                     !.subs[Target(uid)] = sub]
<1>1. /\ s \in 1 .. Len(streams) /\ r \in Nat
      /\ streams[s] \in StreamSet(r, Len(streams))
      /\ streams[s].toServer \in Seq(1 .. r)
      /\ streams[s].toClient \in Seq(1 .. r)
      /\ streams[s].subs \in [Targets -> 0 .. r]
  BY Lengths, StreamType DEF StreamSet
<1>2. /\ streams[s].toServer # <<>>
      /\ streams' = [streams EXCEPT ![s] = new]
      /\ UNCHANGED <<registry, filterIds, requests, pending, streamPromise, jobs, network,
                     lifecycle, open, used>>
  BY DEF ServerReceive
<1>3. uid \in 1 .. r /\ Tail(streams[s].toServer) \in Seq(1 .. r)
  <2> HIDE DEF r
  <2> QED
    BY <1>1, <1>2, HeadTailProperties
<1>4. Target(uid) \in Targets /\ sub \in 0 .. r
  BY <1>1, <1>3, TargetType
<1> HIDE DEF uid, sub
<1>5. /\ Append(streams[s].toClient, uid) \in Seq(1 .. r)
      /\ [streams[s].subs EXCEPT ![Target(uid)] = sub] \in [Targets -> 0 .. r]
  BY <1>1, <1>3, <1>4
<1>6. new \in StreamSet(r, Len(streams))
  BY <1>1, <1>3, <1>5 DEF StreamSet
<1> HIDE DEF new
<1>7. MessagesOK'
  <2>1. /\ streamPromise' \in 0 .. Len(streams)
        /\ jobs \in Seq(JobSet(Len(requests), Len(streams)))
        /\ jobs' = jobs
    BY <1>2 DEF MessagesOK
  <2> QED
    BY <1>1, <1>2, <1>6, <2>1, ReplaceType DEF registry
<1> QED
  BY <1>2, <1>7 DEF RegistryOK, OthersOK, registry, network, lifecycle

\* An answer arrives.
LEMMA HandleResponseTyped ==
  ASSUME Typed, NEW s \in DOMAIN streams, HandleResponse(s)
  PROVE  Typed'
<1> USE DEF Typed
<1> DEFINE r   == Len(requests)
           uid == Head(streams[s].toClient)
           new == [streams[s] EXCEPT !.toClient = Tail(@)]
<1>1. /\ s \in 1 .. Len(streams) /\ r \in Nat /\ Len(streams) \in Nat
      /\ streams[s] \in StreamSet(r, Len(streams))
      /\ streams[s].toClient \in Seq(1 .. r)
  BY Lengths, StreamType DEF StreamSet
<1>2. /\ streams[s].toClient # <<>>
      /\ streams' = [streams EXCEPT ![s] = new]
      /\ pending' = pending \ {uid}
      /\ jobs' = IF uid \in pending THEN <<Job("settled", uid, 0)>> ELSE jobs
      /\ UNCHANGED <<registry, filterIds, requests, streamPromise, network, lifecycle, open, used>>
  BY DEF HandleResponse
<1>3. uid \in 1 .. r /\ Tail(streams[s].toClient) \in Seq(1 .. r)
  <2> HIDE DEF r
  <2> QED
    BY <1>1, <1>2, HeadTailProperties
<1> HIDE DEF uid
<1>4. new \in StreamSet(r, Len(streams))
  BY <1>1, <1>3 DEF StreamSet
<1> HIDE DEF new
<1>5. jobs' \in Seq(JobSet(r, Len(streams)))
  <2> DEFINE job == Job("settled", uid, 0)
  <2>1. job \in JobSet(r, Len(streams))
    BY <1>1, <1>3 DEF Job, JobSet
  <2> HIDE DEF job
  <2>2. <<job>> \in Seq(JobSet(r, Len(streams)))
    BY <2>1
  <2>3. jobs \in Seq(JobSet(r, Len(streams)))
    BY DEF MessagesOK
  <2> QED
    BY <1>2, <2>2, <2>3 DEF job
<1>6. streamPromise' \in 0 .. Len(streams)
  BY <1>2 DEF MessagesOK
<1>7. MessagesOK'
  BY <1>1, <1>2, <1>4, <1>5, <1>6, ReplaceType DEF registry
<1> QED
  BY <1>2, <1>7 DEF RegistryOK, OthersOK, registry, network, lifecycle

\* The channel goes down.
LEMMA ChannelDropTyped ==
  ASSUME Typed, ChannelDrop
  PROVE  Typed'
<1> USE DEF Typed
<1> DEFINE r == Len(requests)
           n == Len(streams)
           failed == [s \in DOMAIN streams |-> Broken(streams[s])]
           job  == Job("disconnect", 0, streamPromise)
           wait == <<job>>
<1>1. r \in Nat /\ n \in Nat /\ DOMAIN streams = 1 .. n /\ streamPromise \in 0 .. n
  BY Lengths DEF MessagesOK
<1>2. failed \in Seq(StreamSet(r, n)) /\ Len(failed) = n
  <2>1. \A s \in 1 .. n : Broken(streams[s]) \in StreamSet(r, n)
    BY <1>1, StreamType, BrokenType
  <2>2. failed = [s \in 1 .. n |-> Broken(streams[s])]
    BY <1>1
  <2> HIDE DEF r, n
  <2> QED
    BY <1>1, <2>1, <2>2, IsASeq
<1>3. job \in JobSet(r, n)
  BY <1>1 DEF Job, JobSet
<1> HIDE DEF failed, job
<1>4. wait \in Seq(JobSet(r, n)) /\ jobs \in Seq(JobSet(r, n))
  BY <1>3 DEF MessagesOK
<1>5. /\ channel' = "CONNECTING"
      /\ session' = Watched(session, FALSE)
      /\ used' \in [calls : Nat, drops : Nat, fails : Nat, timeouts : Nat]
      /\ UNCHANGED <<registry, filterIds, requests, pending, streamPromise, lifecycle, open>>
  BY DEF ChannelDrop, OthersOK
<1>6. session' \in Watcher
  BY <1>5 DEF OthersOK, Watched, Watcher
<1>7. /\ streams' \in Seq(StreamSet(r, n)) /\ Len(streams') = n
      /\ jobs' \in Seq(JobSet(r, n))
  <2>1. CASE streams' = failed /\ (jobs' = wait \/ jobs' = jobs)
    BY <1>2, <1>4, <2>1
  <2>2. CASE Awaiting(streamPromise, wait, failed, jobs) /\ streamPromise # 0
    <3>1. streamPromise \in 1 .. Len(failed)
      BY <1>1, <1>2, <2>2
    <3>2. /\ failed \in Seq(StreamSet(r, Len(failed)))
          /\ wait \in Seq(JobSet(r, Len(failed)))
          /\ jobs \in Seq(JobSet(r, Len(failed)))
      BY <1>2, <1>4
    <3> HIDE DEF r, wait
    <3>3. /\ streams' \in Seq(StreamSet(r, Len(failed))) /\ Len(streams') = Len(failed)
          /\ jobs' \in Seq(JobSet(r, Len(failed)))
      BY <1>1, <2>2, <3>1, <3>2, AwaitingType
    <3> QED
      BY <1>2, <3>3
  <2>3. \/ streams' = failed /\ (jobs' = wait \/ jobs' = jobs)
        \/ Awaiting(streamPromise, wait, failed, jobs) /\ streamPromise # 0
    BY DEF ChannelDrop, failed, job
  <2> QED
    BY <2>1, <2>2, <2>3
<1>8. MessagesOK'
  BY <1>1, <1>5, <1>7 DEF MessagesOK, registry
<1> QED
  BY <1>5, <1>6, <1>8 DEF RegistryOK, OthersOK, registry, lifecycle

\* What Send and a step that adds no group leave well typed.
LEMMA SendTyped ==
  ASSUME Typed, UNCHANGED <<registry, filterIds, pending, lifecycle, open>>,
         NEW batch \in Seq(RequestSet(Len(groups))),
         NEW current \in 0 .. Len(streams),
         NEW strs \in Seq(StreamSet(Len(requests), Len(streams))),
         Len(strs) = Len(streams),
         Send(batch, current, strs, jobs),
         channel' \in {"READY", "CONNECTING"}, session' \in Watcher, used' = used
  PROVE  Typed'
<1> USE DEF Typed
<1>1. Len(groups) \in Nat /\ Len(groups)' = Len(groups)
  BY Lengths DEF registry
<1>2. batch \in Seq(RequestSet(Len(groups)')) /\ Len(groups)' \in Nat /\ Len(groups) <= Len(groups)'
  BY <1>1
<1>3. jobs \in Seq(JobSet(Len(requests), Len(streams)))
  BY DEF MessagesOK
<1>4. MessagesOK' /\ Len(requests) <= Len(requests)'
  BY <1>1, <1>2, <1>3, SendType
<1>5. Len(requests) \in Nat /\ Len(requests)' \in Nat
  BY <1>4, LenProperties DEF MessagesOK
<1>6. RegistryOK' /\ OthersOK'
  BY <1>4, <1>5 DEF RegistryOK, OthersOK, registry, lifecycle
<1> QED
  BY <1>4, <1>6

\* The channel is up.
LEMMA ChannelUpTyped ==
  ASSUME Typed, ChannelUp
  PROVE  Typed'
<1>1. /\ channel' = "READY" /\ session' = Watched(session, TRUE)
      /\ UNCHANGED <<registry, filterIds, pending, lifecycle, open, used>>
  BY DEF ChannelUp
<1>2. session' \in Watcher
  BY <1>1 DEF Typed, OthersOK, Watched, Watcher
<1>3. /\ streamPromise \in 0 .. Len(streams)
      /\ streams \in Seq(StreamSet(Len(requests), Len(streams)))
  BY DEF Typed, MessagesOK
<1>4. PICK batch \in Seq(RequestSet(Len(groups))) : Send(batch, streamPromise, streams, jobs)
  <2>1. <<>> \in Seq(RequestSet(Len(groups)))
    OBVIOUS
  <2>2. \A order \in Orders : Resubscriptions(order) \in Seq(RequestSet(Len(groups)))
    BY ResubscriptionsType DEF Typed
  <2> QED
    BY <2>1, <2>2 DEF ChannelUp
<1> QED
  BY <1>1, <1>2, <1>3, <1>4, SendTyped

\* A stream fails.
LEMMA StreamFailTyped ==
  ASSUME Typed, NEW s \in DOMAIN streams, StreamFail(s)
  PROVE  Typed'
<1> USE DEF Typed
<1>1. s \in 1 .. Len(streams) /\ Broken(streams[s]) \in StreamSet(Len(requests), Len(streams))
  BY Lengths, StreamType, BrokenType
<1>2. /\ streams' = [streams EXCEPT ![s] = Broken(streams[s])]
      /\ UNCHANGED <<registry, filterIds, requests, pending, streamPromise, jobs, network,
                     lifecycle, open>>
  BY DEF StreamFail
<1>3. used' \in [calls : Nat, drops : Nat, fails : Nat, timeouts : Nat]
  BY DEF StreamFail, OthersOK
<1>4. MessagesOK'
  <2>1. /\ streamPromise' \in 0 .. Len(streams)
        /\ jobs \in Seq(JobSet(Len(requests), Len(streams)))
        /\ jobs' = jobs
    BY <1>2 DEF MessagesOK
  <2> QED
    BY <1>1, <1>2, <2>1, ReplaceType DEF registry
<1> QED
  BY <1>2, <1>3, <1>4 DEF RegistryOK, OthersOK, registry, network, lifecycle

\* A failed stream emits 'error'.
LEMMA StreamErrorTyped ==
  ASSUME Typed, NEW s \in DOMAIN streams, StreamError(s)
  PROVE  Typed'
<1> DEFINE new  == [streams[s] EXCEPT !.wire = "dead"]
           dead == [streams EXCEPT ![s] = new]
<1>1. /\ s \in 1 .. Len(streams)
      /\ streams[s] \in StreamSet(Len(requests), Len(streams))
      /\ Len(streams) \in Nat
  BY Lengths, StreamType DEF Typed
<1>2. new \in StreamSet(Len(requests), Len(streams))
  BY <1>1 DEF StreamSet
<1>3. dead \in Seq(StreamSet(Len(requests), Len(streams))) /\ Len(dead) = Len(streams)
  <2> HIDE DEF new
  <2> QED
    BY <1>1, <1>2, ExceptSeq DEF Typed, MessagesOK
<1>4. UNCHANGED <<registry, filterIds, pending, network, lifecycle, open, used>>
  BY DEF StreamError
<1>5. /\ channel' \in {"READY", "CONNECTING"} /\ session' \in Watcher /\ used' = used
      /\ UNCHANGED <<registry, filterIds, pending, lifecycle, open>>
  BY <1>4 DEF Typed, OthersOK, network
<1>6. PICK batch \in Seq(RequestSet(Len(groups))), current \in 0 .. Len(streams) :
        Send(batch, current, dead, jobs)
  <2>1. 0 \in 0 .. Len(streams) /\ streamPromise \in 0 .. Len(streams)
    BY <1>1 DEF Typed, MessagesOK
  <2>2. <<>> \in Seq(RequestSet(Len(groups)))
    OBVIOUS
  <2>3. \A order \in Orders : Resubscriptions(order) \in Seq(RequestSet(Len(groups)))
    BY ResubscriptionsType DEF Typed
  <2>4. CASE ~markedForClose /\ channel = "READY"
    <3>1. PICK order \in Orders : Send(Resubscriptions(order), 0, dead, jobs)
      BY <2>4 DEF StreamError
    <3> HIDE DEF dead
    <3> QED
      BY <2>1, <2>3, <3>1
  <2>5. CASE ~(~markedForClose /\ channel = "READY")
    <3>1. Send(<<>>, 0, dead, jobs) \/ Send(<<>>, streamPromise, dead, jobs)
      BY <2>5 DEF StreamError
    <3> HIDE DEF dead
    <3> QED
      BY <2>1, <2>2, <3>1
  <2> QED
    BY <2>4, <2>5
<1> HIDE DEF dead
<1> QED
  BY <1>3, <1>5, <1>6, SendTyped

\* The proxy completes a half-closed stream.
LEMMA StreamEndTyped ==
  ASSUME Typed, NEW s \in DOMAIN streams, StreamEnd(s)
  PROVE  Typed'
<1> USE DEF Typed
<1> DEFINE new == [streams[s] EXCEPT !.wire = "dead", !.subs = NoSubscriptions]
<1>1. /\ s \in 1 .. Len(streams) /\ Len(requests) \in Nat
      /\ streams[s] \in StreamSet(Len(requests), Len(streams))
  BY Lengths, StreamType
<1>2. /\ streams' = [streams EXCEPT ![s] = new]
      /\ UNCHANGED <<registry, filterIds, requests, pending, streamPromise, jobs, network,
                     lifecycle, open, used>>
  BY DEF StreamEnd
<1>3. NoSubscriptions \in [Targets -> 0 .. Len(requests)]
  BY <1>1 DEF NoSubscriptions
<1>4. new \in StreamSet(Len(requests), Len(streams))
  BY <1>1, <1>3 DEF StreamSet
<1> HIDE DEF new
<1>5. MessagesOK'
  <2>1. /\ streamPromise' \in 0 .. Len(streams)
        /\ jobs \in Seq(JobSet(Len(requests), Len(streams)))
        /\ jobs' = jobs
    BY <1>2 DEF MessagesOK
  <2> QED
    BY <1>1, <1>2, <1>4, <2>1, ReplaceType DEF registry
<1> QED
  BY <1>2, <1>5 DEF RegistryOK, OthersOK, registry, network, lifecycle

\* The cache is released.
LEMMA CloseEventStreamTyped ==
  ASSUME Typed, CloseEventStream
  PROVE  Typed'
<1> USE DEF Typed
<1> DEFINE r == Len(requests)
           n == Len(streams)
           job  == Job("close", 0, streamPromise)
           wait == <<job>>
<1>1. r \in Nat /\ n \in Nat /\ streamPromise \in 0 .. n
  BY Lengths DEF MessagesOK
<1>2. job \in JobSet(r, n)
  BY <1>1 DEF Job, JobSet
<1> HIDE DEF job
<1>3. wait \in Seq(JobSet(r, n)) /\ jobs \in Seq(JobSet(r, n))
  BY <1>2 DEF MessagesOK
<1>4. /\ released' = TRUE /\ markedForClose' \in BOOLEAN
      /\ used' \in [calls : Nat, drops : Nat, fails : Nat, timeouts : Nat]
      /\ UNCHANGED <<registry, filterIds, requests, pending, streamPromise, network,
                     attached, open>>
  <2>1. markedForClose' = markedForClose \/ markedForClose' = TRUE
    BY DEF CloseEventStream
  <2>2. used' = used \/ used' = [used EXCEPT !.timeouts = @ + 1]
    BY DEF CloseEventStream
  <2>3. used' \in [calls : Nat, drops : Nat, fails : Nat, timeouts : Nat]
    BY <2>2 DEF OthersOK
  <2>4. markedForClose' \in BOOLEAN
    BY <2>1 DEF OthersOK
  <2> QED
    BY <2>3, <2>4 DEF CloseEventStream
<1>5. /\ streams' \in Seq(StreamSet(r, n)) /\ Len(streams') = n
      /\ jobs' \in Seq(JobSet(r, n))
  <2>1. CASE streamPromise = 0
    BY <1>1, <1>3, <2>1 DEF CloseEventStream, MessagesOK
  <2>2. CASE streamPromise # 0
    <3>1. Awaiting(streamPromise, wait, streams, jobs)
      BY <2>2 DEF CloseEventStream, job
    <3>2. streamPromise \in 1 .. n /\ streams \in Seq(StreamSet(r, n))
      BY <1>1, <2>2 DEF MessagesOK
    <3> HIDE DEF r, wait
    <3> QED
      BY <1>1, <1>3, <3>1, <3>2, AwaitingType
  <2> QED
    BY <2>1, <2>2
<1>6. MessagesOK'
  BY <1>1, <1>4, <1>5 DEF MessagesOK, registry
<1> QED
  BY <1>4, <1>6 DEF RegistryOK, OthersOK, registry, network

----------------------------------------------------------------------------
\* The initial states are well typed.
LEMMA InitTyped == Init => Typed
<1> SUFFICES ASSUME Init PROVE Typed
  OBVIOUS
<1> USE DEF Init
<1>1. RegistryOK
  BY DEF RegistryOK, NoSubscriptions
<1>2. MessagesOK
  <2>1. NewStream \in StreamSet(0, 1)
    BY NewStreamType
  <2>2. /\ Len(requests) = 0 /\ Len(groups) = 0
        /\ streams = <<NewStream>> /\ Len(<<NewStream>>) = 1
    OBVIOUS
  <2>3. <<NewStream>> \in Seq(StreamSet(0, 1))
    <3> HIDE DEF Init
    <3> QED
      BY <2>1
  <2> QED
    BY <2>2, <2>3 DEF MessagesOK
<1>3. OthersOK
  <2>1. session \in Watcher /\ channel \in {"READY", "CONNECTING"}
    <3>1. FirstWatch \in Watcher
      BY DEF FirstWatch, Watcher
    <3>2. \A w \in Watcher, ready \in BOOLEAN : Watched(w, ready) \in Watcher
      BY DEF Watched, Watcher
    <3> QED
      BY <3>1, <3>2
  <2> QED
    BY <2>1 DEF OthersOK
<1> QED
  BY <1>1, <1>2, <1>3 DEF Typed

\* A step of any action keeps every state well typed.
LEMMA NextTyped == Typed /\ [Next]_vars => Typed'
<1> SUFFICES ASSUME Typed, [Next]_vars PROVE Typed'
  OBVIOUS
<1>1. CASE Application
  <2>1. ASSUME NEW t \in Targets, NEW l \in Listeners, NEW isLite \in Modes,
               AddListener(t, l, isLite)
        PROVE  Typed'
    <3>1. isLite \in BOOLEAN
      BY BoundsAssumption
    <3> QED
      BY <2>1, <3>1, AddListenerTyped
  <2>2. ASSUME NEW t \in Targets, NEW l \in Listeners, RemoveListener(t, l)
        PROVE  Typed'
    BY <2>2, RemoveListenerTyped
  <2>3. CASE CloseEventStream
    BY <2>3, CloseEventStreamTyped
  <2> QED
    BY <1>1, <2>1, <2>2, <2>3 DEF Application
<1>2. CASE Failures
  BY <1>2, ChannelDropTyped, StreamFailTyped, ReadyTimeoutTyped DEF Failures
<1>3. CASE Answers
  BY <1>3, ServerReceiveTyped, HandleResponseTyped DEF Answers
<1>4. CASE StreamChanges
  BY <1>4, StreamReadyTyped, StreamErrorTyped, StreamEndTyped DEF StreamChanges
<1>5. CASE RunJob
  BY <1>5, WriteJobTyped, SettledJobTyped, DisconnectJobTyped, CloseJobTyped DEF RunJob
<1>6. CASE ChannelUp
  BY <1>6, ChannelUpTyped
<1>7. CASE UNCHANGED vars
  BY <1>7 DEF vars, Typed, MessagesOK, RegistryOK, OthersOK
<1> QED
  BY <1>1, <1>2, <1>3, <1>4, <1>5, <1>6, <1>7 DEF Next

\* Every group, request and stream that anything refers to exists, for any
\* number of listener calls, streams and failures.
THEOREM TypeCorrect == Spec => []TypeOK
<1>1. Init => Typed
  BY InitTyped
<1>2. Typed /\ [Next]_vars => Typed'
  BY NextTyped
<1>3. Typed => TypeOK
  BY TypeParts DEF Typed
<1> QED
  BY <1>1, <1>2, <1>3, PTL DEF Spec

----------------------------------------------------------------------------
\* The two invariants of the groups, group by group.
GroupsInv == \A g \in DOMAIN groups : LiteMeansLite(groups[g]) /\ CountBounds(groups[g])

\* How one step may change the groups: not at all, by a group with its first
\* listener, or by a listener added to or removed from one group.
GroupsChange ==
  \/ groups' = groups
  \/ \E t \in Targets, l \in Listeners, isLite \in BOOLEAN :
       groups' = Append(groups, Added(NewGroup(t), l, isLite))
  \/ \E g \in DOMAIN groups, l \in Listeners, isLite \in BOOLEAN :
       \/ groups' = [groups EXCEPT ![g] = Added(groups[g], l, isLite)]
       \/ groups' = [groups EXCEPT ![g] = Removed(groups[g], l)]

\* Every step is of one of these kinds.
LEMMA GroupsStep ==
  ASSUME Typed, [Next]_vars
  PROVE  GroupsChange
<1>0. Len(groups) \in Nat /\ DOMAIN groups = 1 .. Len(groups) /\ groupOf \in [Targets -> 0 .. Len(groups)]
  BY Lengths DEF Typed, RegistryOK
<1>1. ASSUME NEW t \in Targets, NEW l \in Listeners, NEW isLite \in Modes,
             AddListener(t, l, isLite)
      PROVE  GroupsChange
  <2>1. isLite \in BOOLEAN
    BY BoundsAssumption
  <2>2. CASE groupOf[t] = 0
    <3>1. groups' = Append(groups, Added(NewGroup(t), l, isLite))
      BY <1>1, <2>2 DEF AddListener
    <3> QED
      BY <2>1, <3>1 DEF GroupsChange
  <2>3. CASE groupOf[t] # 0
    <3>1. groups' = [groups EXCEPT ![groupOf[t]] = Added(groups[groupOf[t]], l, isLite)]
      BY <1>1, <2>3 DEF AddListener
    <3>2. groupOf[t] \in DOMAIN groups
      BY <1>0, <2>3
    <3> QED
      BY <2>1, <3>1, <3>2 DEF GroupsChange
  <2> QED
    BY <2>2, <2>3
<1>2. ASSUME NEW t \in Targets, NEW l \in Listeners, RemoveListener(t, l)
      PROVE  GroupsChange
  <2> DEFINE g == FoundForRemoval(t)
  <2>1. CASE g = 0
    BY <1>2, <2>1 DEF RemoveListener, GroupsChange
  <2>2. CASE g # 0
    <3>1. groups' = [groups EXCEPT ![g] = Removed(groups[g], l)]
      BY <1>2, <2>2 DEF RemoveListener
    <3>2. g \in DOMAIN groups
      BY <1>0, <2>2 DEF FoundForRemoval
    <3>3. TRUE \in BOOLEAN
      OBVIOUS
    <3> HIDE DEF g
    <3> QED
      BY <3>1, <3>2, <3>3 DEF GroupsChange
  <2> QED
    BY <2>1, <2>2
<1>3. CASE CloseEventStream \/ Failures \/ Answers \/ StreamChanges \/ RunJob \/ ChannelUp
           \/ UNCHANGED vars
  <2>1. groups' = groups
    BY <1>3 DEF CloseEventStream, Failures, Answers, StreamChanges, RunJob, ChannelUp, vars,
                registry, ChannelDrop, StreamFail, ReadyTimeout, ServerReceive, HandleResponse,
                StreamReady, StreamError, StreamEnd, WriteJob, SettledJob, DisconnectJob, CloseJob
  <2> QED
    BY <2>1 DEF GroupsChange
<1>4. CASE Application
  <2>1. CASE \E t \in Targets, l \in Listeners, isLite \in Modes : AddListener(t, l, isLite)
    BY <1>1, <2>1
  <2>2. CASE \E t \in Targets, l \in Listeners : RemoveListener(t, l)
    BY <1>2, <2>2
  <2> QED
    BY <1>3, <1>4, <2>1, <2>2 DEF Application
<1> QED
  BY <1>3, <1>4 DEF Next

\* Both invariants are kept, whatever the step.
LEMMA GroupsInvStep ==
  ASSUME Typed, GroupsInv, [Next]_vars
  PROVE  GroupsInv'
<1> DEFINE Good(grp) == LiteMeansLite(grp) /\ CountBounds(grp)
<1>0. /\ groups \in Seq(Group) /\ Len(groups) \in Nat
      /\ DOMAIN groups = 1 .. Len(groups)
      /\ \A g \in 1 .. Len(groups) : Good(groups[g])
  BY Lengths DEF Typed, RegistryOK, GroupsInv
<1>1. \A grp \in Group, l \in Listeners, isLite \in BOOLEAN :
        Good(grp) => Good(Added(grp, l, isLite)) /\ Good(Removed(grp, l))
  BY AddedKeepsLiteMeansLite, RemovedKeepsLiteMeansLite, AddedKeepsCountBounds,
     RemovedKeepsCountBounds
<1>2. \A t \in Targets : NewGroup(t) \in Group /\ Good(NewGroup(t))
  BY NewGroupFacts
<1> HIDE DEF Good
<1>3. CASE groups' = groups
  BY <1>0, <1>3 DEF GroupsInv, Good
<1>4. ASSUME NEW t \in Targets, NEW l \in Listeners, NEW isLite \in BOOLEAN,
             groups' = Append(groups, Added(NewGroup(t), l, isLite))
      PROVE  GroupsInv'
  <2> DEFINE new == Added(NewGroup(t), l, isLite)
  <2>1. Good(new)
    BY <1>1, <1>2
  <2> HIDE DEF new
  <2>2. groups' = Append(groups, new)
    BY <1>4 DEF new
  <2>3. \A g \in DOMAIN groups' : Good(groups'[g])
    BY <1>0, <2>1, <2>2
  <2> QED
    BY <2>3 DEF GroupsInv, Good
<1>5. ASSUME NEW g \in DOMAIN groups, NEW grp, Good(grp), groups' = [groups EXCEPT ![g] = grp]
      PROVE  GroupsInv'
  <2>1. \A h \in DOMAIN groups' : Good(groups'[h])
    BY <1>0, <1>5
  <2> QED
    BY <2>1 DEF GroupsInv, Good
<1>6. ASSUME NEW g \in DOMAIN groups, NEW l \in Listeners, NEW isLite \in BOOLEAN,
             \/ groups' = [groups EXCEPT ![g] = Added(groups[g], l, isLite)]
             \/ groups' = [groups EXCEPT ![g] = Removed(groups[g], l)]
      PROVE  GroupsInv'
  <2>1. groups[g] \in Group /\ Good(groups[g])
    BY <1>0, ElementOfSeq
  <2>2. Good(Added(groups[g], l, isLite)) /\ Good(Removed(groups[g], l))
    BY <1>1, <2>1
  <2> QED
    BY <1>5, <1>6, <2>2
<1> QED
  BY <1>3, <1>4, <1>6, GroupsStep DEF GroupsChange

\* The inductive invariant of the groups holds of every behaviour.
LEMMA GroupsInvariant == Spec => []GroupsInv
<1>1. Init => Typed /\ GroupsInv
  BY InitTyped DEF Init, GroupsInv
<1>2. Typed /\ GroupsInv /\ [Next]_vars => Typed' /\ GroupsInv'
  BY NextTyped, GroupsInvStep
<1> QED
  BY <1>1, <1>2, PTL DEF Spec

\* A group that subscribes as lite has no listener that asked for values, for
\* any listeners and targets and however calls and failures overlap.
THEOREM LiteFlagIsSound == Spec => []LiteFlagSound
<1>1. GroupsInv => LiteFlagSound
  BY DEF GroupsInv, LiteFlagSound, LiteMeansLite
<1> QED
  BY <1>1, GroupsInvariant, PTL

\* isLiteFalseCount never falls below the number of listeners that want values.
THEOREM CountIsCovering == Spec => []CountCovers
<1>1. GroupsInv => CountCovers
  BY DEF GroupsInv, CountCovers, CountBounds
<1> QED
  BY <1>1, GroupsInvariant, PTL

----------------------------------------------------------------------------
(* Jobs and streams, whatever they refer to, and what happens to them.     *)

SomeJob == [do : {"write", "settled", "disconnect", "close"}, uid : Nat, via : Nat]

SomeStream == [promise  : {"pending", "stream", "null"},
               wire     : {"none", "open", "ended", "broken", "dead"},
               waiters  : Seq(SomeJob),
               toServer : Seq(Nat),
               toClient : Seq(Nat),
               subs     : [Targets -> Nat]]

\* The part of TypeOK that the arguments about streams need.
LEMMA SomeShape ==
  ASSUME Typed
  PROVE  /\ streams \in Seq(SomeStream) /\ jobs \in Seq(SomeJob)
         /\ streamPromise \in 0 .. Len(streams)
         /\ Len(streams) \in Nat /\ DOMAIN streams = 1 .. Len(streams)
         /\ Len(requests) \in Nat
         /\ \A x \in DOMAIN streams : streams[x] \in SomeStream
<1>1. Len(requests) \in Nat /\ Len(streams) \in Nat /\ DOMAIN streams = 1 .. Len(streams)
  BY Lengths DEF Typed
<1> DEFINE r == Len(requests)
           n == Len(streams)
<1>2. streams \in Seq(StreamSet(r, n)) /\ jobs \in Seq(JobSet(r, n)) /\ streamPromise \in 0 .. n
  BY DEF Typed, MessagesOK
<1> HIDE DEF r, n
<1>3. r \in Nat /\ n \in Nat
  BY <1>1 DEF r, n
<1>4. JobSet(r, n) \subseteq SomeJob
  BY <1>3 DEF JobSet, SomeJob
<1>5. Seq(JobSet(r, n)) \subseteq Seq(SomeJob) /\ Seq(1 .. r) \subseteq Seq(Nat)
  <2>1. 1 .. r \subseteq Nat
    BY <1>3
  <2> QED
    BY <1>4, <2>1, SeqMonotonic
<1>6. [Targets -> 0 .. r] \subseteq [Targets -> Nat]
  BY <1>3
<1>7. StreamSet(r, n) \subseteq SomeStream
  BY <1>5, <1>6 DEF StreamSet, SomeStream
<1>8. Seq(StreamSet(r, n)) \subseteq Seq(SomeStream)
  BY <1>7, SeqMonotonic
<1>9. \A x \in DOMAIN streams : streams[x] \in SomeStream
  BY <1>1, <1>2, <1>7, ElementOfSeq DEF n
<1> QED
  BY <1>1, <1>2, <1>5, <1>8, <1>9 DEF n

\* The elements of a sequence: those behind the first one, ...
LEMMA RangeOfTail ==
  ASSUME NEW S, NEW js \in Seq(S), js # <<>>
  PROVE  /\ Tail(js) \in Seq(S) /\ Head(js) \in S
         /\ Range(js) = {Head(js)} \cup Range(Tail(js))
<1>1. /\ Len(js) \in Nat \ {0} /\ DOMAIN js = 1 .. Len(js)
      /\ Tail(js) \in Seq(S) /\ Len(Tail(js)) = Len(js) - 1
      /\ \A i \in 1 .. Len(js) - 1 : Tail(js)[i] = js[i + 1]
      /\ Head(js) = js[1] /\ Head(js) \in S
  BY LenProperties, HeadTailProperties, EmptySeq
<1>2. DOMAIN Tail(js) = 1 .. Len(js) - 1
  BY <1>1, LenProperties
<1>3. Range(js) = {js[i] : i \in 1 .. Len(js)} /\ Range(Tail(js)) = {Tail(js)[i] : i \in 1 .. Len(js) - 1}
  BY <1>1, <1>2 DEF Range
<1>4. ASSUME NEW j \in Range(js) PROVE j \in {Head(js)} \cup Range(Tail(js))
  <2>1. PICK i \in 1 .. Len(js) : j = js[i]
    BY <1>3
  <2>2. CASE i = 1
    BY <1>1, <2>1, <2>2
  <2>3. CASE i # 1
    <3>1. i - 1 \in 1 .. Len(js) - 1 /\ (i - 1) + 1 = i
      BY <1>1, <2>3
    <3>2. Tail(js)[i - 1] = j
      BY <1>1, <2>1, <3>1
    <3> QED
      BY <1>3, <3>1, <3>2
  <2> QED
    BY <2>2, <2>3
<1>5. ASSUME NEW j \in Range(Tail(js)) PROVE j \in Range(js)
  <2>1. PICK i \in 1 .. Len(js) - 1 : j = js[i + 1]
    BY <1>1, <1>3
  <2>2. i + 1 \in 1 .. Len(js)
    BY <1>1
  <2> QED
    BY <1>3, <2>1, <2>2
<1>6. Head(js) \in Range(js)
  <2>1. 1 \in 1 .. Len(js)
    BY <1>1
  <2> QED
    BY <1>1, <1>3, <2>1
<1> QED
  BY <1>1, <1>4, <1>5, <1>6

\* ... of none, of a single one, and of one that an element is put behind.
LEMMA RangeOfFew ==
  ASSUME NEW S, NEW e \in S, NEW js \in Seq(S)
  PROVE  /\ Range(<<>>) = {} /\ Range(<<e>>) = {e}
         /\ <<e>> \in Seq(S) /\ Append(js, e) \in Seq(S)
         /\ Range(Append(js, e)) = Range(js) \cup {e}
<1>1. Range(<<>>) = {} /\ Range(<<e>>) = {e} /\ <<e>> \in Seq(S) /\ Append(js, e) \in Seq(S)
  BY DEF Range
<1>2. Append(js, e) = js \o <<e>>
  BY AppendIsConcat
<1>3. Range(js \o <<e>>) = Range(js) \cup Range(<<e>>)
  <2> DEFINE one == <<e>>
  <2>1. one \in Seq(S)
    BY <1>1
  <2> HIDE DEF one
  <2>2. Range(js \o one) = Range(js) \cup Range(one)
    BY <2>1, RangeConcatenation
  <2> QED
    BY <2>2 DEF one
<1> QED
  BY <1>1, <1>2, <1>3

\* One stream is replaced.
LEMMA OneReplaced ==
  ASSUME NEW strs \in Seq(SomeStream), NEW s \in 1 .. Len(strs), NEW new \in SomeStream
  PROVE  /\ [strs EXCEPT ![s] = new] \in Seq(SomeStream)
         /\ Len([strs EXCEPT ![s] = new]) = Len(strs)
         /\ DOMAIN [strs EXCEPT ![s] = new] = 1 .. Len(strs)
         /\ \A x \in 1 .. Len(strs) : [strs EXCEPT ![s] = new][x] = IF x = s THEN new ELSE strs[x]
  BY ExceptSeq, LenProperties

\* A request is written to a stream, or the stream is half-closed.
LEMMA StreamWritten ==
  ASSUME NEW str \in SomeStream, NEW uid \in Nat
  PROVE  LET new == [str EXCEPT !.toServer = Append(@, uid)]
         IN /\ new \in SomeStream /\ new.wire = str.wire /\ new.promise = str.promise
            /\ new.waiters = str.waiters /\ new.toClient = str.toClient /\ new.subs = str.subs
            /\ new.toServer = Append(str.toServer, uid)
<1>1. Append(str.toServer, uid) \in Seq(Nat)
  BY DEF SomeStream
<1> QED
  BY <1>1 DEF SomeStream

LEMMA StreamEnded ==
  ASSUME NEW str \in SomeStream
  PROVE  LET new == [str EXCEPT !.wire = "ended"]
         IN /\ new \in SomeStream /\ new.wire = "ended" /\ new.promise = str.promise
            /\ new.waiters = str.waiters /\ new.toServer = str.toServer
            /\ new.toClient = str.toClient /\ new.subs = str.subs
  BY DEF SomeStream

\* The streams differ in nothing but who waits for them.
SameButWaiters(str, new) ==
  /\ new.promise = str.promise /\ new.wire = str.wire /\ new.subs = str.subs
  /\ new.toServer = str.toServer /\ new.toClient = str.toClient

\* Continuations go to the waiters of a stream or behind the jobs.
LEMMA AwaitingDoes ==
  ASSUME NEW strs \in Seq(SomeStream), NEW s \in 1 .. Len(strs), NEW js \in Seq(SomeJob),
         NEW queue \in Seq(SomeJob), Awaiting(s, js, strs, queue)
  PROVE  /\ streams' \in Seq(SomeStream) /\ jobs' \in Seq(SomeJob)
         /\ DOMAIN streams' = 1 .. Len(strs)
         /\ \A x \in 1 .. Len(strs) : SameButWaiters(strs[x], streams'[x])
         /\ \A x \in 1 .. Len(strs) :
              streams'[x].waiters = IF x = s /\ strs[s].promise = "pending"
                                    THEN strs[s].waiters \o js ELSE strs[x].waiters
         /\ jobs' = IF strs[s].promise = "pending" THEN queue ELSE queue \o js
<1>1. strs[s] \in SomeStream /\ Len(strs) \in Nat /\ DOMAIN strs = 1 .. Len(strs)
  BY ElementOfSeq, LenProperties
<1>2. CASE strs[s].promise = "pending"
  <2> DEFINE new == [strs[s] EXCEPT !.waiters = @ \o js]
  <2>1. strs[s].waiters \o js \in Seq(SomeJob)
    BY <1>1, ConcatProperties DEF SomeStream
  <2>2. new \in SomeStream /\ SameButWaiters(strs[s], new) /\ new.waiters = strs[s].waiters \o js
    BY <1>1, <2>1 DEF SomeStream, SameButWaiters
  <2>3. streams' = [strs EXCEPT ![s] = new] /\ jobs' = queue
    BY <1>2 DEF Awaiting
  <2> HIDE DEF new
  <2>4. /\ streams' \in Seq(SomeStream) /\ DOMAIN streams' = 1 .. Len(strs)
        /\ \A x \in 1 .. Len(strs) : streams'[x] = IF x = s THEN new ELSE strs[x]
    BY <2>2, <2>3, OneReplaced
  <2> QED
    BY <1>2, <2>2, <2>3, <2>4 DEF SameButWaiters
<1>3. CASE strs[s].promise # "pending"
  <2>1. streams' = strs /\ jobs' = queue \o js
    BY <1>3 DEF Awaiting
  <2>2. jobs' \in Seq(SomeJob)
    BY <2>1, ConcatProperties
  <2> QED
    BY <1>1, <1>3, <2>1, <2>2 DEF SameButWaiters
<1> QED
  BY <1>2, <1>3

\* The jobs that write a batch of requests, and the streams they may use.
Writes(batch, s) == [i \in DOMAIN batch |-> Job("write", Len(requests) + i, s)]

Ensuring(current, strs) == IF current = 0 THEN Append(strs, NewStream) ELSE strs

\* A new stream awaits its connection, and nobody waits for it.
LEMMA NewStreamIs ==
  /\ NewStream \in SomeStream
  /\ NewStream.promise = "pending" /\ NewStream.wire = "none" /\ NewStream.waiters = <<>>
  /\ NewStream.toServer = <<>> /\ NewStream.toClient = <<>> /\ NewStream.subs = NoSubscriptions
  BY DEF NewStream, SomeStream, NoSubscriptions

\* ensureStream: the current stream is there.
LEMMA EnsuringDoes ==
  ASSUME NEW strs \in Seq(SomeStream), NEW current \in 0 .. Len(strs)
  PROVE  /\ Ensuring(current, strs) \in Seq(SomeStream)
         /\ Ensured(current, strs) \in 1 .. Len(Ensuring(current, strs))
         /\ Len(Ensuring(current, strs)) = (IF current = 0 THEN Len(strs) + 1 ELSE Len(strs))
         /\ \A x \in 1 .. Len(strs) : Ensuring(current, strs)[x] = strs[x]
         /\ current = 0 => Ensuring(current, strs)[Len(strs) + 1] = NewStream
<1>1. Len(strs) \in Nat
  BY LenProperties
<1>2. CASE current = 0
  <2>1. Ensuring(current, strs) = Append(strs, NewStream) /\ Ensured(current, strs) = Len(strs) + 1
    BY <1>2 DEF Ensuring, Ensured
  <2>2. NewStream \in SomeStream
    BY NewStreamIs
  <2> QED
    BY <1>1, <1>2, <2>1, <2>2, AppendProperties
<1>3. CASE current # 0
  BY <1>1, <1>3 DEF Ensuring, Ensured
<1> QED
  BY <1>2, <1>3

\* The jobs of a batch: a write for each request, in the order of the requests.
LEMMA WritesAre ==
  ASSUME Len(requests) \in Nat, NEW B, NEW batch \in Seq(B), NEW s \in Nat
  PROVE  /\ Writes(batch, s) \in Seq(SomeJob) /\ Len(Writes(batch, s)) = Len(batch)
         /\ DOMAIN Writes(batch, s) = 1 .. Len(batch)
         /\ \A i \in 1 .. Len(batch) : /\ Writes(batch, s)[i].do = "write" 
                                       /\ Writes(batch, s)[i].uid = Len(requests) + i
                                       /\ Writes(batch, s)[i].via = s
         /\ \A j \in Range(Writes(batch, s)) : j.do = "write" /\ j.via = s /\ j.uid > Len(requests)
<1> DEFINE js == Writes(batch, s)
           e(i) == Job("write", Len(requests) + i, s)
<1>1. DOMAIN batch = 1 .. Len(batch) /\ Len(batch) \in Nat
  BY LenProperties
<1>2. \A i \in 1 .. Len(batch) : e(i) \in SomeJob
  BY <1>1 DEF Job, SomeJob
<1>3. js = [i \in 1 .. Len(batch) |-> e(i)]
  BY <1>1 DEF Writes
<1> HIDE DEF e
<1>4. js \in Seq(SomeJob) /\ DOMAIN js = 1 .. Len(batch) /\ \A i \in 1 .. Len(batch) : js[i] = e(i)
  BY <1>1, <1>2, <1>3, IsASeq
<1>5. \A i \in 1 .. Len(batch) : js[i].do = "write" /\ js[i].uid = Len(requests) + i /\ js[i].via = s
  BY <1>4 DEF e, Job
<1>6. Len(js) = Len(batch)
  BY <1>1, <1>4, LenProperties
<1>7. ASSUME NEW j \in Range(js) PROVE j.do = "write" /\ j.via = s /\ j.uid > Len(requests)
  <2>1. PICK i \in 1 .. Len(batch) : j = js[i]
    BY <1>4 DEF Range
  <2> HIDE DEF js
  <2> QED
    BY <1>1, <1>5, <2>1
<1> QED
  BY <1>4, <1>5, <1>6, <1>7

\* Send: without requests nothing happens; otherwise there is a current stream
\* afterwards and the requests are on their way through it.
LEMMA SendDoes ==
  ASSUME Len(requests) \in Nat, NEW B, NEW batch \in Seq(B), NEW strs \in Seq(SomeStream),
         NEW current \in 0 .. Len(strs), NEW queue \in Seq(SomeJob),
         Send(batch, current, strs, queue)
  PROVE  /\ requests' = requests \o batch
         /\ streams' \in Seq(SomeStream) /\ jobs' \in Seq(SomeJob)
         /\ batch = <<>> => streamPromise' = current /\ streams' = strs /\ jobs' = queue
         /\ batch # <<>> =>
              LET s   == Ensured(current, strs)
                  all == Ensuring(current, strs)
              IN /\ streamPromise' = s /\ s \in 1 .. Len(all)
                 /\ DOMAIN streams' = 1 .. Len(all)
                 /\ \A x \in 1 .. Len(all) : SameButWaiters(all[x], streams'[x])
                 /\ \A x \in 1 .. Len(all) :
                      streams'[x].waiters = IF x = s /\ all[s].promise = "pending"
                                            THEN all[s].waiters \o Writes(batch, s) ELSE all[x].waiters
                 /\ jobs' = IF all[s].promise = "pending" THEN queue ELSE queue \o Writes(batch, s)
<1>1. CASE batch = <<>>
  BY <1>1 DEF Send
<1>2. CASE batch # <<>>
  <2> DEFINE s   == Ensured(current, strs)
             all == Ensuring(current, strs)
  <2>1. /\ requests' = requests \o batch /\ streamPromise' = s
        /\ Awaiting(s, Writes(batch, s), all, queue)
    BY <1>2 DEF Send, Ensuring, Writes
  <2>2. all \in Seq(SomeStream) /\ s \in 1 .. Len(all)
    BY EnsuringDoes
  <2> HIDE DEF s, all
  <2>3. s \in Nat
    BY <2>2, LenProperties
  <2>4. Writes(batch, s) \in Seq(SomeJob)
    BY <2>3, WritesAre
  <2> QED
    BY <1>2, <2>1, <2>2, <2>4, AwaitingDoes DEF s, all
<1> QED
  BY <1>1, <1>2

----------------------------------------------------------------------------
(* CurrentStreamUsable: until the manager is marked as closed, the current *)
(* stream is not dead while the channel is ready, and while it is not the  *)
(* rest of onDisconnect is about to drop it.                               *)

NoClose(js) == \A j \in Range(js) : j.do # "close"

Drops(js) == \E j \in Range(js) : j.do = "disconnect"

\* Nobody closes a stream.
Unended(strs) == \A s \in DOMAIN strs : strs[s].wire # "ended" /\ NoClose(strs[s].waiters)

Usable(current, strs, js, state) ==
  current # 0 /\ strs[current].promise = "stream" =>
    IF state = "READY" THEN strs[current].wire # "dead" ELSE Drops(js)

\* All of it, for the streams, jobs and channel there are.
Serviceable(current, strs, js, state) ==
  NoClose(js) /\ Unended(strs) /\ Usable(current, strs, js, state)

\* The watcher has seen that the channel is ready: it will emit DISCONNECTED.
UsableInv ==
  /\ channel = "READY" => session.connected
  /\ ~markedForClose => attached /\ Serviceable(streamPromise, streams, jobs, channel)

\* Jobs that are put behind others.
LEMMA JobsJoined ==
  ASSUME NEW as \in Seq(SomeJob), NEW bs \in Seq(SomeJob)
  PROVE  /\ NoClose(as \o bs) <=> NoClose(as) /\ NoClose(bs)
         /\ Drops(as \o bs) <=> Drops(as) \/ Drops(bs)
<1>0. Range(as \o bs) = Range(as) \cup Range(bs)
  BY Zenon, RangeConcatenation
<1> DEFINE cs == as \o bs
<1>1. Range(cs) = Range(as) \cup Range(bs)
  BY <1>0
<1> HIDE DEF cs
<1>2. NoClose(cs) <=> NoClose(as) /\ NoClose(bs)
  BY <1>1 DEF NoClose
<1>3. Drops(cs) <=> Drops(as) \/ Drops(bs)
  BY <1>1 DEF Drops
<1> QED
  BY <1>2, <1>3 DEF cs

\* The jobs behind the first one.
LEMMA JobsLeft ==
  ASSUME NEW js \in Seq(SomeJob), js # <<>>
  PROVE  /\ NoClose(js) => NoClose(Tail(js)) /\ Head(js).do # "close"
         /\ Drops(js) /\ Head(js).do # "disconnect" => Drops(Tail(js))
<1>1. Range(js) = {Head(js)} \cup Range(Tail(js))
  BY RangeOfTail
<1> QED
  BY <1>1 DEF NoClose, Drops

\* Continuations that nobody closes with keep a manager serviceable.
LEMMA AwaitingServes ==
  ASSUME NEW strs \in Seq(SomeStream), NEW s \in 1 .. Len(strs), NEW js \in Seq(SomeJob),
         NEW queue \in Seq(SomeJob), NoClose(js), NoClose(queue), Unended(strs),
         NEW state, Usable(s, strs, queue, state) \/ Usable(s, strs, js, state),
         Awaiting(s, js, strs, queue)
  PROVE  Serviceable(s, streams', jobs', state)
<1>1. /\ DOMAIN streams' = 1 .. Len(strs)
      /\ \A x \in 1 .. Len(strs) : SameButWaiters(strs[x], streams'[x])
      /\ \A x \in 1 .. Len(strs) :
           streams'[x].waiters = IF x = s /\ strs[s].promise = "pending"
                                 THEN strs[s].waiters \o js ELSE strs[x].waiters
      /\ jobs' = IF strs[s].promise = "pending" THEN queue ELSE queue \o js
  BY AwaitingDoes
<1>2. DOMAIN strs = 1 .. Len(strs) /\ \A x \in 1 .. Len(strs) : strs[x] \in SomeStream
  BY LenProperties, ElementOfSeq
<1>3. NoClose(strs[s].waiters \o js) /\ NoClose(queue \o js)
  <2>1. strs[s].waiters \in Seq(SomeJob) /\ NoClose(strs[s].waiters)
    BY <1>2 DEF SomeStream, Unended
  <2> QED
    BY <2>1, JobsJoined
<1>4. Drops(queue \o js) <=> Drops(queue) \/ Drops(js)
  BY JobsJoined
<1>5. NoClose(jobs')
  BY <1>1, <1>3
<1>6. Unended(streams')
  BY <1>1, <1>2, <1>3 DEF Unended, SameButWaiters
<1>7. Usable(s, streams', jobs', state)
  BY <1>1, <1>4 DEF Usable, SameButWaiters
<1> QED
  BY <1>5, <1>6, <1>7 DEF Serviceable

\* So does a batch of requests, whether it needs a new stream or not.
LEMMA SendServes ==
  ASSUME Len(requests) \in Nat, NEW B, NEW batch \in Seq(B), NEW strs \in Seq(SomeStream),
         NEW current \in 0 .. Len(strs), NEW queue \in Seq(SomeJob), NEW state,
         Serviceable(current, strs, queue, state), Send(batch, current, strs, queue)
  PROVE  Serviceable(streamPromise', streams', jobs', state)
<1>1. CASE batch = <<>>
  BY <1>1 DEF Send
<1>2. CASE batch # <<>>
  <2> DEFINE s   == Ensured(current, strs)
             all == Ensuring(current, strs)
  <2>1. streamPromise' = s /\ Awaiting(s, Writes(batch, s), all, queue)
    BY <1>2 DEF Send, Ensuring, Writes
  <2>2. /\ all \in Seq(SomeStream) /\ s \in 1 .. Len(all)
        /\ Len(all) = IF current = 0 THEN Len(strs) + 1 ELSE Len(strs)
        /\ \A x \in 1 .. Len(strs) : all[x] = strs[x]
        /\ current = 0 => all[Len(strs) + 1] = NewStream
    BY EnsuringDoes
  <2>3. /\ Len(strs) \in Nat /\ DOMAIN strs = 1 .. Len(strs) /\ DOMAIN all = 1 .. Len(all)
        /\ s = IF current = 0 THEN Len(strs) + 1 ELSE current
    BY <2>2, LenProperties DEF Ensured
  <2> HIDE DEF s, all
  <2>4. NewStream.wire # "ended" /\ NoClose(NewStream.waiters)
    BY NewStreamIs DEF NoClose, Range
  <2>5. Unended(all)
    BY <2>2, <2>3, <2>4 DEF Unended, Serviceable
  <2>6. Usable(s, all, queue, state)
    BY <2>2, <2>3, NewStreamIs DEF Usable, Serviceable
  <2>7. Writes(batch, s) \in Seq(SomeJob) /\ NoClose(Writes(batch, s))
    <3>1. s \in Nat
      BY <2>2, LenProperties
    <3> QED
      BY <3>1, WritesAre DEF NoClose
  <2>8. NoClose(queue)
    BY DEF Serviceable
  <2>9. Serviceable(s, streams', jobs', state)
    BY <2>1, <2>2, <2>5, <2>6, <2>7, <2>8, AwaitingServes
  <2> QED
    BY <2>1, <2>9
<1> QED
  BY <1>1, <1>2

\* A stream is replaced by one that nobody closes.
LEMMA ReplacedServes ==
  ASSUME NEW strs \in Seq(SomeStream), NEW s \in 1 .. Len(strs), NEW new \in SomeStream,
         Unended(strs), new.wire # "ended", NoClose(new.waiters)
  PROVE  Unended([strs EXCEPT ![s] = new])
<1>1. /\ DOMAIN [strs EXCEPT ![s] = new] = 1 .. Len(strs)
      /\ \A x \in 1 .. Len(strs) : [strs EXCEPT ![s] = new][x] = IF x = s THEN new ELSE strs[x]
  BY OneReplaced
<1>2. DOMAIN strs = 1 .. Len(strs)
  BY LenProperties
<1> QED
  BY <1>1, <1>2 DEF Unended

\* A step that only sends requests, while the channel stays as it is.
LEMMA SendUsable ==
  ASSUME Typed, UsableInv, NEW B, NEW batch \in Seq(B), NEW queue \in Seq(SomeJob),
         Send(batch, streamPromise, streams, queue),
         NoClose(jobs) => NoClose(queue), Drops(jobs) => Drops(queue),
         UNCHANGED <<network, lifecycle>>
  PROVE  UsableInv'
<1>1. channel' = channel /\ session' = session /\ attached' = attached /\ markedForClose' = markedForClose
  BY DEF network, lifecycle
<1>2. ASSUME ~markedForClose
      PROVE  attached /\ Serviceable(streamPromise', streams', jobs', channel)
  <2>1. attached /\ Serviceable(streamPromise, streams, queue, channel)
    BY <1>2 DEF UsableInv, Serviceable, Usable
  <2> QED
    BY <2>1, SomeShape, SendServes
<1> QED
  BY <1>1, <1>2 DEF UsableInv

\* A listener call sends one request or none.
LEMMA CallSends ==
  ASSUME NEW t, NEW g, NEW steps, Call(t, g, steps)
  PROVE  \E B : \E batch \in Seq(B) : Send(batch, streamPromise, streams, jobs)
<1>1. CASE steps = <<>>
  <2>1. Send(<<>>, streamPromise, streams, jobs) /\ <<>> \in Seq({})
    BY <1>1 DEF Call
  <2> QED
    BY <2>1
<1>2. CASE steps # <<>>
  <2> DEFINE r == Request(g, steps, used.calls + 1)
  <2>1. Send(<<r>>, streamPromise, streams, jobs)
    BY <1>2 DEF Call
  <2> HIDE DEF r
  <2>2. <<r>> \in Seq({r})
    OBVIOUS
  <2> QED
    BY <2>1, <2>2
<1> QED
  BY <1>1, <1>2

LEMMA ListenerCallUsable ==
  ASSUME Typed, UsableInv, NEW t, NEW l, NEW isLite,
         AddListener(t, l, isLite) \/ RemoveListener(t, l)
  PROVE  UsableInv'
<1>1. \E g, steps : Call(t, g, steps)
  BY DEF AddListener, RemoveListener
<1>2. PICK B : \E batch \in Seq(B) : Send(batch, streamPromise, streams, jobs)
  BY <1>1, CallSends
<1>3. PICK batch \in Seq(B) : Send(batch, streamPromise, streams, jobs)
  BY <1>2
<1>4. UNCHANGED <<network, lifecycle>>
  BY DEF AddListener, RemoveListener
<1> QED
  BY <1>3, <1>4, SomeShape, SendUsable

LEMMA WriteJobUsable ==
  ASSUME Typed, UsableInv, jobs # <<>>, WriteJob(Head(jobs))
  PROVE  UsableInv'
<1> DEFINE job == Head(jobs)
           v   == job.via
<1>1. /\ streams \in Seq(SomeStream) /\ Tail(jobs) \in Seq(SomeJob) /\ job \in SomeJob
      /\ DOMAIN streams = 1 .. Len(streams)
      /\ \A x \in DOMAIN streams : streams[x] \in SomeStream
  BY SomeShape, RangeOfTail
<1>2. UNCHANGED <<streamPromise, network, lifecycle>> /\ job.do = "write"
  BY DEF WriteJob
<1>3. /\ NoClose(jobs) => NoClose(jobs')
      /\ Drops(jobs) => Drops(jobs')
  <2>1. /\ NoClose(jobs) => NoClose(Tail(jobs))
        /\ Drops(jobs) => Drops(Tail(jobs))
    BY <1>2, SomeShape, JobsLeft
  <2> DEFINE new == Job("settled", job.uid, 0)
  <2>2. new \in SomeJob /\ new.do = "settled"
    BY <1>1 DEF Job, SomeJob
  <2>3. jobs' = Tail(jobs) \/ jobs' = Append(Tail(jobs), new)
    BY DEF WriteJob
  <2> HIDE DEF new
  <2>4. Range(Append(Tail(jobs), new)) = Range(Tail(jobs)) \cup {new}
    BY <1>1, <2>2, RangeOfFew
  <2> QED
    BY <2>1, <2>2, <2>3, <2>4 DEF NoClose, Drops
<1>4. /\ DOMAIN streams' = DOMAIN streams
      /\ \A x \in DOMAIN streams : /\ streams'[x].promise = streams[x].promise
                                   /\ streams'[x].wire = streams[x].wire
                                   /\ streams'[x].waiters = streams[x].waiters
  <2>1. CASE streams' = streams
    BY <2>1
  <2>2. CASE streams' = [streams EXCEPT ![v].toServer = Append(@, job.uid)]
    BY <1>1, <2>2 DEF SomeStream
  <2> QED
    BY <2>1, <2>2 DEF WriteJob
<1>5. Unended(streams) => Unended(streams')
  BY <1>4 DEF Unended
<1>6. streamPromise \in {0} \cup DOMAIN streams
  BY SomeShape
<1> QED
  BY <1>2, <1>3, <1>4, <1>5, <1>6 DEF UsableInv, Serviceable, Usable, network, lifecycle

LEMMA SettledJobUsable ==
  ASSUME Typed, UsableInv, jobs # <<>>, SettledJob(Head(jobs))
  PROVE  UsableInv'
<1> DEFINE job == Head(jobs)
           r   == requests[job.uid]
           req == Request(r.group, r.rest, r.call)
<1>1. Tail(jobs) \in Seq(SomeJob)
  BY SomeShape, RangeOfTail
<1>2. UNCHANGED <<network, lifecycle>> /\ job.do = "settled"
  BY DEF SettledJob
<1>3. /\ NoClose(jobs) => NoClose(Tail(jobs))
      /\ Drops(jobs) => Drops(Tail(jobs))
  BY <1>2, SomeShape, JobsLeft
<1>4. PICK B : \E batch \in Seq(B) : Send(batch, streamPromise, streams, Tail(jobs))
  <2>1. Send(<<req>>, streamPromise, streams, Tail(jobs)) \/ Send(<<>>, streamPromise, streams, Tail(jobs))
    BY DEF SettledJob
  <2> HIDE DEF req
  <2>2. <<req>> \in Seq({req}) /\ <<>> \in Seq({req})
    OBVIOUS
  <2> QED
    BY <2>1, <2>2
<1>5. PICK batch \in Seq(B) : Send(batch, streamPromise, streams, Tail(jobs))
  BY <1>4
<1> QED
  BY <1>1, <1>2, <1>3, <1>5, SendUsable

\* A stream that breaks.
LEMMA BrokenIs ==
  ASSUME NEW str \in SomeStream
  PROVE  /\ Broken(str) \in SomeStream
         /\ Broken(str).promise = str.promise /\ Broken(str).waiters = str.waiters
         /\ Broken(str).wire = IF str.wire \in {"open", "ended"} THEN "broken" ELSE str.wire
<1>1. NoSubscriptions \in [Targets -> Nat] /\ <<>> \in Seq(Nat)
  BY DEF NoSubscriptions
<1> QED
  BY <1>1 DEF Broken, SomeStream

LEMMA DisconnectJobUsable ==
  ASSUME Typed, UsableInv, jobs # <<>>, DisconnectJob(Head(jobs))
  PROVE  UsableInv'
<1> DEFINE v == Head(jobs).via
<1>1. /\ streams \in Seq(SomeStream) /\ jobs \in Seq(SomeJob)
      /\ DOMAIN streams = 1 .. Len(streams)
      /\ \A x \in DOMAIN streams : streams[x] \in SomeStream
  BY SomeShape
<1>2. streamPromise' = 0 /\ jobs' = Tail(jobs) /\ UNCHANGED <<network, lifecycle>>
  BY DEF DisconnectJob
<1>3. NoClose(jobs) => NoClose(jobs')
  BY <1>1, <1>2, JobsLeft
<1>4. Unended(streams) => Unended(streams')
  <2>1. CASE streams' = streams
    BY <2>1
  <2>2. CASE v \in 1 .. Len(streams) /\ streams' = [streams EXCEPT ![v] = Broken(streams[v])]
    BY <1>1, <2>2, BrokenIs, ReplacedServes DEF Unended
  <2>3. v \in 0 .. Len(streams)
    BY JobTypes DEF JobSet, Typed
  <2> QED
    BY <1>1, <2>1, <2>2, <2>3 DEF DisconnectJob
<1> QED
  BY <1>2, <1>3, <1>4 DEF UsableInv, Serviceable, Usable, network, lifecycle

LEMMA CloseJobUsable ==
  ASSUME Typed, UsableInv, jobs # <<>>, CloseJob(Head(jobs))
  PROVE  UsableInv'
<1>1. Head(jobs).do = "close" /\ UNCHANGED <<network, markedForClose>>
  BY DEF CloseJob
<1>2. ~NoClose(jobs)
  BY <1>1, SomeShape, JobsLeft
<1> QED
  BY <1>1, <1>2 DEF UsableInv, Serviceable, network

LEMMA StreamReadyUsable ==
  ASSUME Typed, UsableInv, NEW s \in DOMAIN streams, StreamReady(s)
  PROVE  UsableInv'
<1> DEFINE new == [streams[s] EXCEPT !.promise = "stream", !.wire = "open", !.waiters = <<>>]
<1>1. /\ streams \in Seq(SomeStream) /\ DOMAIN streams = 1 .. Len(streams)
      /\ streams[s] \in SomeStream /\ streamPromise \in 0 .. Len(streams)
  BY SomeShape
<1>2. /\ channel = "READY" /\ jobs' = streams[s].waiters /\ streams' = [streams EXCEPT ![s] = new]
      /\ UNCHANGED <<streamPromise, network, lifecycle>>
  BY DEF StreamReady
<1>3. new \in SomeStream /\ new.wire = "open" /\ NoClose(new.waiters)
  <2>1. <<>> \in Seq(SomeJob)
    OBVIOUS
  <2>2. new \in SomeStream /\ new.wire = "open" /\ new.waiters = <<>>
    BY <1>1, <2>1 DEF SomeStream
  <2>3. NoClose(<<>>)
    BY DEF NoClose, Range
  <2> QED
    BY <2>2, <2>3
<1> HIDE DEF new
<1>4. /\ Unended(streams) => Unended(streams')
      /\ \A x \in DOMAIN streams : streams'[x] = IF x = s THEN new ELSE streams[x]
  <2>1. new.wire # "ended"
    BY <1>3
  <2> QED
    BY <1>1, <1>2, <1>3, <2>1, OneReplaced, ReplacedServes
<1>5. Unended(streams) => NoClose(jobs')
  BY <1>2 DEF Unended
<1>6. Usable(streamPromise, streams, jobs, channel) => Usable(streamPromise, streams', jobs', channel)
  BY <1>1, <1>2, <1>3, <1>4 DEF Usable
<1> QED
  BY <1>2, <1>4, <1>5, <1>6 DEF UsableInv, Serviceable, network, lifecycle

LEMMA ReadyTimeoutUsable ==
  ASSUME Typed, UsableInv, NEW s \in DOMAIN streams, ReadyTimeout(s)
  PROVE  UsableInv'
<1> DEFINE new == [streams[s] EXCEPT !.promise = "null", !.wire = "open", !.waiters = <<>>]
           opened == [streams EXCEPT ![s] = new]
<1>1. /\ streams \in Seq(SomeStream) /\ DOMAIN streams = 1 .. Len(streams)
      /\ streams[s] \in SomeStream /\ streamPromise \in 0 .. Len(streams) /\ Len(streams) \in Nat
  BY SomeShape
<1>2. /\ jobs' = streams[s].waiters /\ streams' = Ensuring(streamPromise, opened)
      /\ streamPromise' = Ensured(streamPromise, streams)
      /\ UNCHANGED <<network, lifecycle>> /\ channel # "READY"
      /\ streams[s].promise = "pending" /\ jobs = <<>>
  BY DEF ReadyTimeout, Ensuring, MayRun
<1>3. new \in SomeStream /\ new.promise = "null" /\ new.wire = "open" /\ NoClose(new.waiters)
  <2>1. <<>> \in Seq(SomeJob)
    OBVIOUS
  <2>2. new \in SomeStream /\ new.promise = "null" /\ new.wire = "open" /\ new.waiters = <<>>
    BY <1>1, <2>1 DEF SomeStream
  <2>3. NoClose(<<>>)
    BY DEF NoClose, Range
  <2> QED
    BY <2>2, <2>3
<1> HIDE DEF new
<1>4. /\ Unended(streams) => Unended(opened)
      /\ opened \in Seq(SomeStream) /\ Len(opened) = Len(streams)
      /\ \A x \in 1 .. Len(streams) : opened[x] = IF x = s THEN new ELSE streams[x]
  <2>1. new.wire # "ended"
    BY <1>3
  <2> QED
    BY <1>1, <1>3, <2>1, OneReplaced, ReplacedServes
<1> HIDE DEF opened
<1>5. /\ Len(streams') = (IF streamPromise = 0 THEN Len(streams) + 1 ELSE Len(streams))
      /\ \A x \in 1 .. Len(streams) : streams'[x] = opened[x]
      /\ streamPromise = 0 => streams'[Len(streams) + 1] = NewStream
      /\ streams' \in Seq(SomeStream)
  BY <1>1, <1>2, <1>4, EnsuringDoes
<1>6. DOMAIN streams' = 1 .. Len(streams') /\ DOMAIN opened = 1 .. Len(streams)
  BY <1>4, <1>5, LenProperties
<1>7. Unended(opened) => Unended(streams')
  <2>1. NewStream.wire # "ended" /\ NoClose(NewStream.waiters)
    BY NewStreamIs DEF NoClose, Range
  <2> QED
    BY <1>1, <1>5, <1>6, <2>1 DEF Unended
<1>8. Unended(streams) => NoClose(jobs')
  BY <1>2 DEF Unended
<1>9. ~Drops(jobs)
  BY <1>2 DEF Drops, Range
<1>10. Usable(streamPromise, streams, jobs, channel) => Usable(streamPromise', streams', jobs', channel)
  <2>1. CASE streamPromise = 0
    BY <1>1, <1>2, <1>5, <2>1, NewStreamIs DEF Usable, Ensured
  <2>2. CASE streamPromise # 0
    <3>1. streamPromise' = streamPromise /\ streamPromise \in 1 .. Len(streams)
      BY <1>1, <1>2, <2>2 DEF Ensured
    <3>2. streams'[streamPromise] = opened[streamPromise]
      BY <1>5, <3>1
    <3> QED
      BY <1>1, <1>2, <1>3, <1>4, <1>9, <3>1, <3>2 DEF Usable
  <2> QED
    BY <2>1, <2>2
<1> QED
  BY <1>2, <1>4, <1>7, <1>8, <1>10 DEF UsableInv, Serviceable, network, lifecycle

\* A step that changes neither promises, wires, waiters nor jobs.
LEMMA MessagesUsable ==
  ASSUME Typed, UsableInv, NEW s \in DOMAIN streams,
         ServerReceive(s) \/ HandleResponse(s)
  PROVE  UsableInv'
<1>1. /\ DOMAIN streams = 1 .. Len(streams) /\ streamPromise \in 0 .. Len(streams)
      /\ streams \in Seq(SomeStream) /\ \A x \in DOMAIN streams : streams[x] \in SomeStream
  BY SomeShape
<1>2. UNCHANGED <<streamPromise, network, lifecycle>> /\ jobs = <<>>
  BY DEF ServerReceive, HandleResponse, MayRun
<1>3. /\ DOMAIN streams' = DOMAIN streams
      /\ \A x \in DOMAIN streams : /\ streams'[x].promise = streams[x].promise
                                   /\ streams'[x].wire = streams[x].wire
                                   /\ streams'[x].waiters = streams[x].waiters
  <2>1. CASE ServerReceive(s)
    BY Zenon, <1>1, <2>1 DEF ServerReceive, SomeStream
  <2>2. CASE HandleResponse(s)
    BY <1>1, <2>2 DEF HandleResponse, SomeStream
  <2> QED
    BY <2>1, <2>2
<1>4. NoClose(jobs') /\ ~Drops(jobs)
  <2>1. jobs' = <<>> \/ \E uid : jobs' = <<Job("settled", uid, 0)>>
    BY <1>2 DEF ServerReceive, HandleResponse
  <2> QED
    BY <1>2, <2>1 DEF NoClose, Drops, Range, Job
<1>5. Unended(streams) => Unended(streams')
  BY <1>3 DEF Unended
<1>6. Usable(streamPromise, streams, jobs, channel) => Usable(streamPromise, streams', jobs', channel)
  BY <1>1, <1>3, <1>4 DEF Usable
<1> QED
  BY <1>2, <1>4, <1>5, <1>6 DEF UsableInv, Serviceable, network, lifecycle

LEMMA ChannelDropUsable ==
  ASSUME Typed, UsableInv, ChannelDrop
  PROVE  UsableInv'
<1> DEFINE failed == [s \in DOMAIN streams |-> Broken(streams[s])]
           wait   == <<Job("disconnect", 0, streamPromise)>>
<1>1. /\ streams \in Seq(SomeStream) /\ DOMAIN streams = 1 .. Len(streams) /\ Len(streams) \in Nat
      /\ \A x \in DOMAIN streams : streams[x] \in SomeStream
      /\ streamPromise \in 0 .. Len(streams)
  BY SomeShape
<1>2. /\ channel = "READY" /\ channel' = "CONNECTING" /\ session.connected /\ jobs = <<>>
      /\ session' = Watched(session, FALSE)
      /\ UNCHANGED <<streamPromise, lifecycle>>
  BY DEF ChannelDrop, UsableInv, MayRun
<1>3. /\ failed \in Seq(SomeStream) /\ DOMAIN failed = 1 .. Len(streams) /\ Len(failed) = Len(streams)
      /\ \A x \in 1 .. Len(streams) : failed[x] = Broken(streams[x])
  <2> DEFINE e(x) == Broken(streams[x])
  <2>1. \A x \in 1 .. Len(streams) : e(x) \in SomeStream
    BY <1>1, BrokenIs
  <2>2. failed = [x \in 1 .. Len(streams) |-> e(x)]
    BY <1>1
  <2> HIDE DEF e
  <2>3. failed \in Seq(SomeStream)
    BY <1>1, <2>1, <2>2, IsASeq
  <2> QED
    BY <1>1, <2>2, <2>3, LenProperties DEF e
<1>4. Unended(streams) => Unended(failed)
  BY <1>1, <1>3, BrokenIs DEF Unended
<1>5. wait \in Seq(SomeJob) /\ NoClose(wait) /\ Drops(wait)
  <2> DEFINE job == Job("disconnect", 0, streamPromise)
  <2>1. job \in SomeJob /\ job.do = "disconnect"
    BY <1>1 DEF Job, SomeJob
  <2> HIDE DEF job
  <2>2. <<job>> \in Seq(SomeJob) /\ Range(<<job>>) = {job}
    BY <2>1, RangeOfFew, SomeShape
  <2> QED
    BY <2>1, <2>2 DEF NoClose, Drops, job
<1>6. jobs \in Seq(SomeJob) /\ NoClose(jobs)
  BY <1>2 DEF NoClose, Range
<1>7. ASSUME ~markedForClose
      PROVE  Serviceable(streamPromise', streams', jobs', channel')
  <2>1. attached /\ Unended(failed)
    BY <1>4, <1>7 DEF UsableInv, Serviceable
  <2>2. Emits(session, FALSE) = "DISCONNECTED"
    BY <1>2 DEF Emits
  <2>3. CASE streamPromise = 0
    <3>1. streams' = failed /\ jobs' = wait
      BY <2>1, <2>2, <2>3 DEF ChannelDrop
    <3> QED
      BY <1>2, <1>5, <2>1, <2>3, <3>1 DEF Serviceable, Usable
  <2>4. CASE streamPromise # 0
    <3>1. Awaiting(streamPromise, wait, failed, jobs)
      BY <2>1, <2>2, <2>4 DEF ChannelDrop
    <3>2. streamPromise \in 1 .. Len(failed) /\ Usable(streamPromise, failed, wait, "CONNECTING")
      BY <1>1, <1>3, <1>5, <2>4 DEF Usable
    <3> HIDE DEF failed, wait
    <3>3. Serviceable(streamPromise, streams', jobs', "CONNECTING")
      BY <1>3, <1>5, <1>6, <2>1, <3>1, <3>2, AwaitingServes
    <3> QED
      BY <1>2, <3>3
  <2> QED
    BY <2>3, <2>4
<1>8. markedForClose' = markedForClose /\ attached' = attached
  BY <1>2 DEF lifecycle
<1> QED
  BY <1>2, <1>7, <1>8 DEF UsableInv

LEMMA ChannelUpUsable ==
  ASSUME Typed, UsableInv, ChannelUp
  PROVE  UsableInv'
<1>1. /\ channel = "CONNECTING" /\ channel' = "READY" /\ session' = Watched(session, TRUE) /\ jobs = <<>>
      /\ UNCHANGED lifecycle
  BY DEF ChannelUp, MayRun
<1>2. session'.connected
  BY <1>1 DEF Watched
<1>3. ASSUME ~markedForClose
      PROVE  attached /\ Serviceable(streamPromise', streams', jobs', "READY")
  <2>1. ~Drops(jobs)
    BY <1>1 DEF Drops, Range
  <2>2. attached /\ Serviceable(streamPromise, streams, jobs, "READY")
    BY <1>1, <1>3, <2>1 DEF UsableInv, Serviceable, Usable
  <2>3. PICK batch \in Seq(RequestSet(Len(groups))) : Send(batch, streamPromise, streams, jobs)
    <3>1. <<>> \in Seq(RequestSet(Len(groups)))
      OBVIOUS
    <3>2. \A order \in Orders : Resubscriptions(order) \in Seq(RequestSet(Len(groups)))
      BY ResubscriptionsType DEF Typed
    <3> QED
      BY <3>1, <3>2 DEF ChannelUp
  <2> QED
    BY <2>2, <2>3, SomeShape, SendServes
<1> QED
  BY <1>1, <1>2, <1>3 DEF UsableInv, lifecycle

LEMMA StreamFailUsable ==
  ASSUME Typed, UsableInv, NEW s \in DOMAIN streams, StreamFail(s)
  PROVE  UsableInv'
<1>1. /\ streams \in Seq(SomeStream) /\ DOMAIN streams = 1 .. Len(streams)
      /\ streams[s] \in SomeStream /\ streamPromise \in 0 .. Len(streams)
  BY SomeShape
<1>2. /\ streams' = [streams EXCEPT ![s] = Broken(streams[s])] /\ jobs = <<>>
      /\ UNCHANGED <<streamPromise, jobs, network, lifecycle>>
  BY DEF StreamFail, MayRun
<1>3. /\ Unended(streams) => Unended(streams')
      /\ \A x \in DOMAIN streams : streams'[x] = IF x = s THEN Broken(streams[s]) ELSE streams[x]
  BY <1>1, <1>2, BrokenIs, OneReplaced, ReplacedServes DEF Unended
<1>4. Usable(streamPromise, streams, jobs, channel) => Usable(streamPromise, streams', jobs, channel)
  BY <1>1, <1>3, BrokenIs DEF Usable
<1> QED
  BY <1>2, <1>3, <1>4 DEF UsableInv, Serviceable, network, lifecycle

\* The stream after its failure has been reported.
Reported(s) == [streams EXCEPT ![s].wire = "dead"]

LEMMA ReportedIs ==
  ASSUME Typed, NEW s \in DOMAIN streams
  PROVE  /\ Reported(s) \in Seq(SomeStream) /\ Len(Reported(s)) = Len(streams)
         /\ DOMAIN Reported(s) = DOMAIN streams
         /\ \A x \in DOMAIN streams : x # s => Reported(s)[x] = streams[x]
         /\ Reported(s)[s] = [streams[s] EXCEPT !.wire = "dead"]
<1> DEFINE new == [streams[s] EXCEPT !.wire = "dead"]
<1>1. /\ streams \in Seq(SomeStream) /\ DOMAIN streams = 1 .. Len(streams) /\ streams[s] \in SomeStream
  BY SomeShape
<1>2. new \in SomeStream
  BY <1>1 DEF SomeStream
<1>3. Reported(s) = [streams EXCEPT ![s] = new]
  BY DEF Reported
<1> HIDE DEF new
<1>4. /\ Reported(s) \in Seq(SomeStream) /\ Len(Reported(s)) = Len(streams)
      /\ DOMAIN Reported(s) = 1 .. Len(streams)
      /\ \A x \in 1 .. Len(streams) : Reported(s)[x] = IF x = s THEN new ELSE streams[x]
  BY <1>1, <1>2, <1>3, OneReplaced
<1> QED
  BY <1>1, <1>4 DEF new

LEMMA StreamErrorUsable ==
  ASSUME Typed, UsableInv, NEW s \in DOMAIN streams, StreamError(s)
  PROVE  UsableInv'
<1>1. /\ streams \in Seq(SomeStream) /\ DOMAIN streams = 1 .. Len(streams) /\ jobs \in Seq(SomeJob)
      /\ streams[s] \in SomeStream /\ streamPromise \in 0 .. Len(streams) /\ Len(requests) \in Nat
      /\ Len(streams) \in Nat
  BY SomeShape
<1>2. jobs = <<>> /\ UNCHANGED <<network, lifecycle>>
  BY DEF StreamError
<1>3. /\ Reported(s) \in Seq(SomeStream) /\ Len(Reported(s)) = Len(streams)
      /\ DOMAIN Reported(s) = DOMAIN streams
      /\ \A x \in DOMAIN streams : x # s => Reported(s)[x] = streams[x]
      /\ Reported(s)[s] = [streams[s] EXCEPT !.wire = "dead"]
  BY ReportedIs
<1>4. ASSUME ~markedForClose
      PROVE  attached /\ Serviceable(streamPromise', streams', jobs', channel)
  <2>1. attached /\ NoClose(jobs) /\ Unended(streams) /\ Usable(streamPromise, streams, jobs, channel)
    BY <1>4 DEF UsableInv, Serviceable
  <2>2. Unended(Reported(s))
    <3>1. Reported(s)[s].wire = "dead" /\ Reported(s)[s].waiters = streams[s].waiters
      BY <1>1, <1>3 DEF SomeStream
    <3> QED
      BY <1>3, <2>1, <3>1 DEF Unended
  <2>3. CASE channel = "READY"
    <3>1. PICK order \in Orders : Send(Resubscriptions(order), 0, Reported(s), jobs)
      BY <1>4, <2>3 DEF StreamError, Reported
    <3>2. Resubscriptions(order) \in Seq(RequestSet(Len(groups)))
      BY ResubscriptionsType DEF Typed
    <3>3. Serviceable(0, Reported(s), jobs, channel) /\ 0 \in 0 .. Len(Reported(s))
      BY <1>1, <1>3, <2>1, <2>2 DEF Serviceable, Usable
    <3> QED
      BY <1>1, <1>3, <2>1, <3>1, <3>2, <3>3, SendServes
  <2>4. CASE channel # "READY"
    <3>1. Send(<<>>, streamPromise, Reported(s), jobs)
      BY <1>4, <2>4 DEF StreamError, Reported
    <3>2. streamPromise' = streamPromise /\ streams' = Reported(s) /\ jobs' = jobs
      BY <3>1 DEF Send
    <3>3. \A x \in DOMAIN streams : Reported(s)[x].promise = streams[x].promise
      BY <1>1, <1>3 DEF SomeStream
    <3>4. Usable(streamPromise, Reported(s), jobs, channel)
      BY <1>1, <2>1, <2>4, <3>3 DEF Usable
    <3> QED
      BY <2>1, <2>2, <3>2, <3>4 DEF Serviceable
  <2> QED
    BY <2>3, <2>4
<1> QED
  BY <1>2, <1>4 DEF UsableInv, network, lifecycle

LEMMA StreamEndUsable ==
  ASSUME Typed, UsableInv, NEW s \in DOMAIN streams, StreamEnd(s)
  PROVE  UsableInv'
  BY DEF StreamEnd, UsableInv, Serviceable, Unended, network, lifecycle

LEMMA CloseEventStreamUsable ==
  ASSUME Typed, UsableInv, CloseEventStream
  PROVE  UsableInv'
<1>1. UNCHANGED <<streamPromise, network, attached>>
  BY DEF CloseEventStream
<1>2. CASE streamPromise = 0
  <2>1. UNCHANGED <<markedForClose, streams, jobs>>
    BY <1>2 DEF CloseEventStream
  <2> QED
    BY <1>1, <2>1 DEF UsableInv, network
<1>3. CASE streamPromise # 0
  BY <1>1, <1>3 DEF CloseEventStream, UsableInv, network
<1> QED
  BY <1>2, <1>3

LEMMA InitUsable == Init => UsableInv
<1> SUFFICES ASSUME Init PROVE UsableInv
  OBVIOUS
<1>1. channel = "READY" => session.connected
  BY DEF Init, Watched
<1>2. NoClose(jobs) /\ NoClose(NewStream.waiters)
  BY NewStreamIs DEF Init, NoClose, Range
<1>3. streams = <<NewStream>> /\ streamPromise = 1 /\ attached
  BY DEF Init
<1>4. DOMAIN streams = {1} /\ streams[1] = NewStream
  BY <1>3
<1> QED
  BY <1>1, <1>2, <1>3, <1>4, NewStreamIs DEF UsableInv, Serviceable, Unended, Usable

\* Every step keeps the current stream serviceable.
LEMMA NextUsable == Typed /\ UsableInv /\ [Next]_vars => UsableInv'
<1> SUFFICES ASSUME Typed, UsableInv, [Next]_vars PROVE UsableInv'
  OBVIOUS
<1>1. CASE Application
  BY <1>1, ListenerCallUsable, CloseEventStreamUsable DEF Application
<1>2. CASE Failures
  BY <1>2, ChannelDropUsable, StreamFailUsable, ReadyTimeoutUsable DEF Failures
<1>3. CASE Answers
  BY <1>3, MessagesUsable DEF Answers
<1>4. CASE StreamChanges
  BY <1>4, StreamReadyUsable, StreamErrorUsable, StreamEndUsable DEF StreamChanges
<1>5. CASE RunJob
  BY <1>5, WriteJobUsable, SettledJobUsable, DisconnectJobUsable, CloseJobUsable DEF RunJob
<1>6. CASE ChannelUp
  BY <1>6, ChannelUpUsable
<1>7. CASE UNCHANGED vars
  BY <1>7 DEF vars, UsableInv
<1> QED
  BY <1>1, <1>2, <1>3, <1>4, <1>5, <1>6, <1>7 DEF Next

\* While the channel is ready, the current stream of a manager that is not
\* closed is never one whose failure was already reported, however many streams
\* and connections were lost and whenever their errors are emitted.
THEOREM CurrentIsUsable == Spec => []CurrentStreamUsable
<1>1. Init => Typed /\ UsableInv
  BY InitTyped, InitUsable
<1>2. Typed /\ UsableInv /\ [Next]_vars => Typed' /\ UsableInv'
  BY NextTyped, NextUsable
<1>3. UsableInv => CurrentStreamUsable
  BY DEF UsableInv, Serviceable, Usable, CurrentStreamUsable
<1> QED
  BY <1>1, <1>2, <1>3, PTL DEF Spec

==============================================================================
