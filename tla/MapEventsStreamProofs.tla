----------------------- MODULE MapEventsStreamProofs -----------------------
(***************************************************************************)
(* Theorems about the streams of MapEvents.  When the errors of streams    *)
(* are reported before anything else happens and no wait expires, at most  *)
(* one stream lives at a time, so that the proxy holds each subscription   *)
(* once, and none once the cache is released.  Then, whatever is reported  *)
(* when, what becomes of requests: each is settled once, and a stream      *)
(* carries them in the order in which they were made.                      *)
(***************************************************************************)
EXTENDS MapEventsProofs

----------------------------------------------------------------------------
(* NoDuplicates and ReleasedIsSilent, for a grpc-js that reports a failed  *)
(* stream before anything else happens and a channel that is ready before  *)
(* any wait for it expires: one stream at most is not dead, the current    *)
(* one unless its failure is about to be reported.                         *)

\* The proxy and the network know nothing of the stream.
Silent(str) == str.toServer = <<>> /\ str.toClient = <<>> /\ str.subs = NoSubscriptions

Living == {"none", "open", "ended"}

FitStream(str) ==
  /\ str.wire \in {"open", "ended"} \/ Silent(str)
  /\ str.promise = IF str.wire = "none" THEN "pending" ELSE "stream"
  /\ str.promise = "stream" => str.waiters = <<>>

\* Who waits for stream s wants to do something with it.
Waiting(js, s) == \A j \in Range(js) : j.via = s /\ j.do # "settled"

OneStream(strs, current) ==
  /\ \A s \in DOMAIN strs : FitStream(strs[s]) /\ Waiting(strs[s].waiters, s)
  /\ \A s \in DOMAIN strs : strs[s].wire \in Living => s = current
  /\ \A s, x \in DOMAIN strs : s # x => strs[s].wire = "dead" \/ strs[x].wire = "dead"

NoneBroken(strs) == \A s \in DOMAIN strs : strs[s].wire # "broken"

Settles(js) == \E j \in Range(js) : j.do = "settled"

\* A job uses a stream that was opened.  What onDisconnect awaited is the
\* current stream or there is none; an answer came from the current stream.
JobsFit(js, current, strs) ==
  /\ \A j \in Range(js) : j.do # "settled" /\ (j.do = "disconnect" => j.via # 0) =>
       j.via \in DOMAIN strs /\ strs[j.via].promise = "stream"
  /\ \A j \in Range(js) : j.do = "disconnect" => current \in {0, j.via}
  /\ Settles(js) => current # 0 /\ ~Drops(js) /\ NoneBroken(strs)

OneInv == OneStream(streams, streamPromise) /\ JobsFit(jobs, streamPromise, streams)

\* One stream is replaced: it does not come back from the dead, and it lives
\* only as the current one.
LEMMA OneChanged ==
  ASSUME NEW strs \in Seq(SomeStream), NEW s \in 1 .. Len(strs), NEW new \in SomeStream,
         NEW current, OneStream(strs, current),
         FitStream(new), Waiting(new.waiters, s),
         new.wire # "dead" => strs[s].wire # "dead",
         new.wire \in Living => s = current
  PROVE  OneStream([strs EXCEPT ![s] = new], current)
<1>1. /\ DOMAIN strs = 1 .. Len(strs) /\ DOMAIN [strs EXCEPT ![s] = new] = 1 .. Len(strs)
      /\ \A x \in 1 .. Len(strs) : [strs EXCEPT ![s] = new][x] = IF x = s THEN new ELSE strs[x]
  BY OneReplaced, LenProperties
<1> DEFINE all == [strs EXCEPT ![s] = new]
<1> HIDE DEF all
<1>2. /\ DOMAIN all = 1 .. Len(strs)
      /\ \A x \in 1 .. Len(strs) : all[x] = IF x = s THEN new ELSE strs[x]
  BY <1>1 DEF all
<1>3. \A x \in DOMAIN all : FitStream(all[x]) /\ Waiting(all[x].waiters, x)
  BY <1>1, <1>2 DEF OneStream
<1>4. \A x \in DOMAIN all : all[x].wire \in Living => x = current
  BY <1>1, <1>2 DEF OneStream
<1>5. \A x, y \in DOMAIN all : x # y => all[x].wire = "dead" \/ all[y].wire = "dead"
  BY <1>1, <1>2 DEF OneStream
<1> QED
  BY <1>3, <1>4, <1>5 DEF OneStream, all

\* A stream that is not dead is the only one.
LEMMA OthersDead ==
  ASSUME NEW strs, NEW current, OneStream(strs, current), NEW s \in DOMAIN strs,
         strs[s].wire # "dead"
  PROVE  \A x \in DOMAIN strs : x # s => strs[x].wire = "dead"
  BY DEF OneStream

\* Continuations are put behind.
LEMMA OneAwaiting ==
  ASSUME NEW strs \in Seq(SomeStream), NEW s \in 1 .. Len(strs), NEW js \in Seq(SomeJob),
         NEW queue \in Seq(SomeJob), OneStream(strs, s), Waiting(js, s),
         JobsFit(queue, s, strs), Drops(js) => ~Settles(queue),
         Awaiting(s, js, strs, queue)
  PROVE  OneStream(streams', s) /\ JobsFit(jobs', s, streams')
<1>1. /\ DOMAIN streams' = 1 .. Len(strs)
      /\ \A x \in 1 .. Len(strs) : SameButWaiters(strs[x], streams'[x])
      /\ \A x \in 1 .. Len(strs) :
           streams'[x].waiters = IF x = s /\ strs[s].promise = "pending"
                                 THEN strs[s].waiters \o js ELSE strs[x].waiters
      /\ jobs' = IF strs[s].promise = "pending" THEN queue ELSE queue \o js
  BY AwaitingDoes
<1>2. DOMAIN strs = 1 .. Len(strs) /\ \A x \in 1 .. Len(strs) : strs[x] \in SomeStream
  BY LenProperties, ElementOfSeq
<1>3. Range(strs[s].waiters \o js) = Range(strs[s].waiters) \cup Range(js)
  BY <1>2, RangeConcatenation DEF SomeStream
<1>4. Waiting(strs[s].waiters \o js, s)
  BY <1>2, <1>3 DEF OneStream, Waiting
<1>5. \A x \in DOMAIN streams' : FitStream(streams'[x]) /\ Waiting(streams'[x].waiters, x)
  <2> SUFFICES ASSUME NEW x \in 1 .. Len(strs)
               PROVE  FitStream(streams'[x]) /\ Waiting(streams'[x].waiters, x)
    BY <1>1
  <2>1. FitStream(strs[x]) /\ Waiting(strs[x].waiters, x) /\ SameButWaiters(strs[x], streams'[x])
    BY <1>1, <1>2 DEF OneStream
  <2>2. CASE x = s /\ strs[s].promise = "pending"
    BY <1>1, <1>4, <2>1, <2>2 DEF FitStream, SameButWaiters, Silent
  <2>3. CASE ~(x = s /\ strs[s].promise = "pending")
    BY <1>1, <2>1, <2>3 DEF FitStream, SameButWaiters, Silent
  <2> QED
    BY <2>2, <2>3
<1>6. OneStream(streams', s)
  <2>1. \A x \in DOMAIN strs : streams'[x].wire = strs[x].wire
    BY <1>1, <1>2 DEF SameButWaiters
  <2>2. DOMAIN streams' = DOMAIN strs
    BY <1>1, <1>2
  <2> QED
    BY <1>5, <2>1, <2>2 DEF OneStream
<1>7. JobsFit(queue, s, streams')
  BY <1>1, <1>2 DEF JobsFit, SameButWaiters, NoneBroken
<1>8. CASE strs[s].promise = "pending"
  BY <1>1, <1>6, <1>7, <1>8
<1>9. CASE strs[s].promise # "pending"
  <2>1. Range(jobs') = Range(queue) \cup Range(js)
    BY <1>1, <1>9, RangeConcatenation
  <2>2. strs[s].promise = "stream" /\ streams'[s].promise = "stream" /\ s \in DOMAIN streams'
    BY <1>1, <1>2, <1>9 DEF OneStream, FitStream, SameButWaiters
  <2>3. \A j \in Range(jobs') : j.do # "settled" /\ (j.do = "disconnect" => j.via # 0) =>
          j.via \in DOMAIN streams' /\ streams'[j.via].promise = "stream"
    BY <1>7, <2>1, <2>2 DEF JobsFit, Waiting
  <2>4. \A j \in Range(jobs') : j.do = "disconnect" => s \in {0, j.via}
    BY <1>7, <2>1 DEF JobsFit, Waiting
  <2>5. Settles(jobs') => s # 0 /\ ~Drops(jobs') /\ NoneBroken(streams')
    BY <1>7, <2>1 DEF JobsFit, Waiting, Settles, Drops
  <2> QED
    BY <1>6, <2>3, <2>4, <2>5 DEF JobsFit
<1> QED
  BY <1>8, <1>9

\* A batch of requests: a new stream is asked for only when all are dead.
LEMMA OneSent ==
  ASSUME Len(requests) \in Nat, NEW B, NEW batch \in Seq(B), NEW strs \in Seq(SomeStream),
         NEW current \in 0 .. Len(strs), NEW queue \in Seq(SomeJob),
         OneStream(strs, current), JobsFit(queue, current, strs),
         current = 0 => NoneBroken(strs) /\ ~Drops(queue),
         Send(batch, current, strs, queue)
  PROVE  OneInv'
<1>1. CASE batch = <<>>
  BY <1>1 DEF Send, OneInv
<1>2. CASE batch # <<>>
  <2> DEFINE s   == Ensured(current, strs)
             all == Ensuring(current, strs)
  <2>1. streamPromise' = s /\ Awaiting(s, Writes(batch, s), all, queue)
    BY <1>2 DEF Send, Ensuring, Writes
  <2>2. /\ all \in Seq(SomeStream) /\ s \in 1 .. Len(all)
        /\ Len(all) = IF current = 0 THEN Len(strs) + 1 ELSE Len(strs)
        /\ \A x \in 1 .. Len(strs) : all[x] = strs[x]
        /\ current = 0 => all[Len(strs) + 1] = NewStream
    BY EnsuringDoes
  <2>3. /\ Len(strs) \in Nat /\ DOMAIN strs = 1 .. Len(strs) /\ DOMAIN all = 1 .. Len(all)
        /\ s = IF current = 0 THEN Len(strs) + 1 ELSE current
        /\ \A x \in DOMAIN strs : strs[x] \in SomeStream
    BY <2>2, LenProperties, ElementOfSeq DEF Ensured
  <2> HIDE DEF s, all
  <2>4. s \in Nat \ {0}
    BY <2>2, LenProperties
  <2>5. Writes(batch, s) \in Seq(SomeJob) /\ Waiting(Writes(batch, s), s) /\ ~Drops(Writes(batch, s))
    <3>1. /\ Writes(batch, s) \in Seq(SomeJob)
          /\ \A j \in Range(Writes(batch, s)) : j.do = "write" /\ j.via = s
      BY <2>4, WritesAre
    <3> QED
      BY <3>1 DEF Waiting, Drops
  <2>6. FitStream(NewStream) /\ Waiting(NewStream.waiters, s) /\ NewStream.wire = "none"
    BY NewStreamIs DEF FitStream, Silent, Waiting, Range
  <2>7. OneStream(all, s) /\ JobsFit(queue, s, all)
    <3>1. CASE current = 0
      <4>1. ASSUME NEW x \in DOMAIN strs PROVE strs[x].wire = "dead"
        <5>1. strs[x].wire \in Living \cup {"broken", "dead"}
          BY <2>3 DEF SomeStream, Living
        <5>2. strs[x].wire # "broken" /\ x # 0
          BY <2>3, <3>1 DEF NoneBroken
        <5>3. strs[x].wire \notin Living
          BY <3>1, <5>2 DEF OneStream
        <5> QED
          BY <5>1, <5>2, <5>3
      <4>2. /\ DOMAIN all = DOMAIN strs \cup {s} /\ s \notin DOMAIN strs /\ all[s] = NewStream
            /\ \A x \in DOMAIN strs : all[x] = strs[x]
        BY <2>2, <2>3, <3>1
      <4>3. \A x \in DOMAIN all : FitStream(all[x]) /\ Waiting(all[x].waiters, x)
        BY <2>6, <4>2 DEF OneStream
      <4>4. \A x \in DOMAIN all : x # s => all[x].wire = "dead"
        BY <4>1, <4>2
      <4>5. OneStream(all, s)
        BY <4>3, <4>4 DEF OneStream, Living
      <4>6. JobsFit(queue, s, all)
        BY <2>2, <2>3, <3>1 DEF JobsFit, Drops, Settles, NoneBroken
      <4> QED
        BY <4>5, <4>6
    <3>2. CASE current # 0
      <4>1. s = current /\ DOMAIN all = DOMAIN strs /\ \A x \in DOMAIN strs : all[x] = strs[x]
        BY <2>2, <2>3, <3>2
      <4> QED
        BY <4>1 DEF OneStream, JobsFit, NoneBroken
    <3> QED
      BY <3>1, <3>2
  <2>8. OneStream(streams', s) /\ JobsFit(jobs', s, streams')
    BY <2>1, <2>2, <2>5, <2>7, OneAwaiting
  <2> QED
    BY <2>1, <2>8 DEF OneInv
<1> QED
  BY <1>1, <1>2

\* With prompt errors a callback finds no job and no broken stream.
LEMMA NothingUnderWay ==
  ASSUME Prompt, MayRun
  PROVE  jobs = <<>> /\ NoneBroken(streams)
  BY DEF MayRun, NoneBroken

LEMMA FewJobsFit ==
  ASSUME NEW js \in Seq(SomeJob), NEW current, NEW strs
  PROVE  /\ JobsFit(<<>>, current, strs) /\ ~Drops(<<>>) /\ ~Settles(<<>>)
         /\ js # <<>> /\ JobsFit(js, current, strs) => JobsFit(Tail(js), current, strs)
<1>1. JobsFit(<<>>, current, strs) /\ ~Drops(<<>>) /\ ~Settles(<<>>)
  BY DEF JobsFit, Drops, Settles, Range
<1>2. ASSUME js # <<>>, JobsFit(js, current, strs) PROVE JobsFit(Tail(js), current, strs)
  <2>1. Range(Tail(js)) \subseteq Range(js)
    BY <1>2, RangeOfTail
  <2> QED
    BY <1>2, <2>1 DEF JobsFit, Drops, Settles
<1> QED
  BY <1>1, <1>2

LEMMA ListenerCallOne ==
  ASSUME Prompt, Typed, OneInv, NEW t, NEW l, NEW isLite,
         AddListener(t, l, isLite) \/ RemoveListener(t, l)
  PROVE  OneInv'
<1>1. \E g, steps : Call(t, g, steps)
  BY DEF AddListener, RemoveListener
<1>2. PICK B : \E batch \in Seq(B) : Send(batch, streamPromise, streams, jobs)
  BY <1>1, CallSends
<1>3. PICK batch \in Seq(B) : Send(batch, streamPromise, streams, jobs)
  BY <1>2
<1>4. jobs = <<>> /\ NoneBroken(streams)
  BY NothingUnderWay DEF AddListener, RemoveListener, MayCall
<1>5. ~Drops(jobs)
  BY <1>4, SomeShape, FewJobsFit
<1> QED
  BY <1>3, <1>4, <1>5, SomeShape, OneSent DEF OneInv

LEMMA WriteJobOne ==
  ASSUME Typed, OneInv, jobs # <<>>, WriteJob(Head(jobs))
  PROVE  OneInv'
<1> DEFINE job == Head(jobs)
           v   == job.via
           new == [streams[v] EXCEPT !.toServer = Append(@, job.uid)]
<1>1. /\ streams \in Seq(SomeStream) /\ DOMAIN streams = 1 .. Len(streams) /\ job \in SomeJob
      /\ \A x \in DOMAIN streams : streams[x] \in SomeStream
      /\ job \in Range(jobs) /\ jobs \in Seq(SomeJob)
  BY SomeShape, RangeOfTail
<1>2. job.do = "write" /\ streamPromise' = streamPromise
  BY DEF WriteJob
<1>3. v \in DOMAIN streams /\ streams[v].promise = "stream"
  BY <1>1, <1>2 DEF OneInv, JobsFit
<1>4. /\ jobs' = Tail(jobs)
      /\ streams' = streams \/ (streams[v].wire = "open" /\ streams' = [streams EXCEPT ![v] = new])
  BY <1>3 DEF WriteJob
<1>5. JobsFit(jobs', streamPromise, streams)
  BY <1>1, <1>4, FewJobsFit DEF OneInv
<1>6. CASE streams' = streams
  BY <1>2, <1>5, <1>6 DEF OneInv
<1>7. CASE streams[v].wire = "open" /\ streams' = [streams EXCEPT ![v] = new]
  <2>1. streams[v] \in SomeStream /\ job.uid \in Nat
    BY <1>1, <1>3 DEF SomeJob
  <2>3. new \in SomeStream /\ new.wire = streams[v].wire /\ new.promise = streams[v].promise
        /\ new.waiters = streams[v].waiters
    BY <2>1, StreamWritten
  <2> HIDE DEF new
  <2>4. FitStream(new) /\ Waiting(new.waiters, v)
    BY <1>3, <1>7, <2>3 DEF OneInv, OneStream, FitStream
  <2>5. new.wire \in Living => v = streamPromise
    BY <1>3, <2>3 DEF OneInv, OneStream
  <2>6. OneStream(streams', streamPromise)
    BY <1>1, <1>3, <1>7, <2>3, <2>4, <2>5, OneChanged DEF OneInv
  <2>7. DOMAIN streams' = DOMAIN streams
        /\ \A x \in DOMAIN streams : /\ streams'[x].promise = streams[x].promise
                                     /\ streams'[x].wire = streams[x].wire
    BY <1>1, <1>3, <1>7, <2>3, OneReplaced
  <2>8. JobsFit(jobs', streamPromise, streams')
    BY <1>5, <2>7 DEF JobsFit, NoneBroken
  <2> QED
    BY <1>2, <2>6, <2>8 DEF OneInv
<1> QED
  BY <1>4, <1>6, <1>7

LEMMA SettledJobOne ==
  ASSUME Typed, OneInv, jobs # <<>>, SettledJob(Head(jobs))
  PROVE  OneInv'
<1> DEFINE job == Head(jobs)
           r   == requests[job.uid]
           req == Request(r.group, r.rest, r.call)
<1>1. Tail(jobs) \in Seq(SomeJob) /\ jobs \in Seq(SomeJob) /\ job \in Range(jobs)
  BY SomeShape, RangeOfTail
<1>2. job.do = "settled"
  BY DEF SettledJob
<1>3. streamPromise # 0
  BY <1>1, <1>2 DEF OneInv, JobsFit, Settles
<1>4. JobsFit(Tail(jobs), streamPromise, streams)
  BY <1>1, FewJobsFit DEF OneInv
<1>5. PICK B : \E batch \in Seq(B) : Send(batch, streamPromise, streams, Tail(jobs))
  <2>1. Send(<<req>>, streamPromise, streams, Tail(jobs)) \/ Send(<<>>, streamPromise, streams, Tail(jobs))
    BY DEF SettledJob
  <2> HIDE DEF req
  <2>2. <<req>> \in Seq({req}) /\ <<>> \in Seq({req})
    OBVIOUS
  <2> QED
    BY <2>1, <2>2
<1>6. PICK batch \in Seq(B) : Send(batch, streamPromise, streams, Tail(jobs))
  BY <1>5
<1> QED
  BY <1>1, <1>3, <1>4, <1>6, SomeShape, OneSent DEF OneInv

\* A stream that breaks stays fit.
LEMMA BrokenFits ==
  ASSUME NEW str \in SomeStream, FitStream(str)
  PROVE  /\ FitStream(Broken(str)) /\ Broken(str).wire \notin {"open", "ended"}
         /\ Broken(str).wire = "none" <=> str.wire = "none"
         /\ Broken(str).wire = "dead" <=> str.wire = "dead"
<1>1. CASE str.wire \in {"open", "ended"}
  <2>1. /\ Broken(str).wire = "broken" /\ Silent(Broken(str))
        /\ Broken(str).promise = str.promise /\ Broken(str).waiters = str.waiters
    BY <1>1 DEF Broken, Silent, SomeStream
  <2> QED
    BY <1>1, <2>1 DEF FitStream
<1>2. CASE str.wire \notin {"open", "ended"}
  BY <1>2 DEF Broken
<1> QED
  BY <1>1, <1>2

\* One of the streams breaks.
LEMMA OneBreaks ==
  ASSUME NEW strs \in Seq(SomeStream), NEW s \in 1 .. Len(strs), NEW current, OneStream(strs, current)
  PROVE  /\ OneStream([strs EXCEPT ![s] = Broken(@)], current)
         /\ DOMAIN [strs EXCEPT ![s] = Broken(@)] = DOMAIN strs
         /\ \A x \in DOMAIN strs : [strs EXCEPT ![s] = Broken(@)][x] = IF x = s THEN Broken(strs[s]) ELSE strs[x]
<1>1. strs[s] \in SomeStream /\ DOMAIN strs = 1 .. Len(strs)
  BY ElementOfSeq, LenProperties
<1>2. FitStream(strs[s]) /\ Waiting(strs[s].waiters, s) /\ (strs[s].wire \in Living => s = current)
  BY <1>1 DEF OneStream
<1>3. /\ Broken(strs[s]) \in SomeStream /\ FitStream(Broken(strs[s]))
      /\ Waiting(Broken(strs[s]).waiters, s)
      /\ Broken(strs[s]).wire # "dead" => strs[s].wire # "dead"
      /\ Broken(strs[s]).wire \in Living => s = current
  BY <1>1, <1>2, BrokenIs, BrokenFits DEF Living
<1>4. OneStream([strs EXCEPT ![s] = Broken(strs[s])], current)
  BY <1>3, OneChanged
<1> QED
  BY <1>1, <1>3, <1>4, OneReplaced

LEMMA DisconnectJobOne ==
  ASSUME Typed, OneInv, jobs # <<>>, DisconnectJob(Head(jobs))
  PROVE  OneInv'
<1> DEFINE job == Head(jobs)
           v   == job.via
<1>1. /\ streams \in Seq(SomeStream) /\ DOMAIN streams = 1 .. Len(streams)
      /\ \A x \in DOMAIN streams : streams[x] \in SomeStream
      /\ job \in Range(jobs) /\ jobs \in Seq(SomeJob) /\ streamPromise \in 0 .. Len(streams)
      /\ Range(Tail(jobs)) \subseteq Range(jobs) /\ job \in SomeJob
  BY SomeShape, RangeOfTail
<1>2. job.do = "disconnect" /\ streamPromise' = 0 /\ jobs' = Tail(jobs)
  BY DEF DisconnectJob
<1>3. /\ streamPromise \in {0, v} /\ ~Settles(jobs)
      /\ v # 0 => v \in DOMAIN streams /\ streams[v].promise = "stream"
  BY <1>1, <1>2 DEF OneInv, JobsFit, Drops
<1>4. streams' = IF v # 0 THEN [streams EXCEPT ![v] = Broken(@)] ELSE streams
  BY <1>3 DEF DisconnectJob
<1>5. /\ OneStream(streams', streamPromise) /\ DOMAIN streams' = DOMAIN streams
      /\ \A x \in DOMAIN streams : streams'[x] = IF x = v THEN Broken(streams[v]) ELSE streams[x]
  <2>1. CASE v = 0
    BY <1>1, <1>4, <2>1 DEF OneInv
  <2>2. CASE v # 0
    BY <1>1, <1>3, <1>4, <2>2, OneBreaks DEF OneInv
  <2> QED
    BY <2>1, <2>2
<1>6. ASSUME NEW x \in DOMAIN streams PROVE streams'[x].wire \notin Living
  <2>1. CASE x = v
    <3>1. FitStream(streams[v]) /\ streams[v].promise = "stream"
      BY <1>1, <1>3, <2>1 DEF OneInv, OneStream
    <3>2. streams[v].wire # "none"
      BY <3>1 DEF FitStream
    <3> QED
      BY <1>1, <1>5, <2>1, <3>1, <3>2, BrokenFits DEF Living
  <2>2. CASE x # v
    <3>1. x # streamPromise
      BY <1>1, <1>3, <2>2
    <3> QED
      BY <1>5, <3>1 DEF OneStream
  <2> QED
    BY <2>1, <2>2
<1>7. OneStream(streams', 0)
  BY <1>5, <1>6 DEF OneStream
<1>8. \A x \in DOMAIN streams : streams'[x].promise = streams[x].promise
  BY <1>1, <1>5, BrokenIs
<1>9. JobsFit(jobs', 0, streams')
  BY <1>1, <1>2, <1>3, <1>5, <1>8 DEF OneInv, JobsFit, Settles
<1> QED
  BY <1>2, <1>7, <1>9 DEF OneInv

LEMMA CloseJobOne ==
  ASSUME Typed, OneInv, jobs # <<>>, CloseJob(Head(jobs))
  PROVE  OneInv'
<1> DEFINE job == Head(jobs)
           v   == job.via
           new == [streams[v] EXCEPT !.wire = "ended"]
<1>1. /\ streams \in Seq(SomeStream) /\ DOMAIN streams = 1 .. Len(streams) /\ job \in SomeJob
      /\ \A x \in DOMAIN streams : streams[x] \in SomeStream
      /\ job \in Range(jobs) /\ jobs \in Seq(SomeJob)
  BY SomeShape, RangeOfTail
<1>2. job.do = "close" /\ streamPromise' = streamPromise /\ jobs' = Tail(jobs)
  BY DEF CloseJob
<1>3. v \in DOMAIN streams /\ streams[v].promise = "stream"
  BY <1>1, <1>2 DEF OneInv, JobsFit
<1>4. streams' = streams \/ (streams[v].wire = "open" /\ streams' = [streams EXCEPT ![v] = new])
  BY DEF CloseJob
<1>5. JobsFit(jobs', streamPromise, streams)
  BY <1>1, <1>2, FewJobsFit DEF OneInv
<1>6. CASE streams' = streams
  BY <1>2, <1>5, <1>6 DEF OneInv
<1>7. CASE streams[v].wire = "open" /\ streams' = [streams EXCEPT ![v] = new]
  <2>1. new \in SomeStream /\ new.wire = "ended" /\ new.promise = "stream"
        /\ new.waiters = streams[v].waiters
    <3>1. streams[v] \in SomeStream
      BY <1>1, <1>3
    <3> QED
      BY <1>3, <3>1, StreamEnded
  <2> HIDE DEF new
  <2>2. FitStream(new) /\ Waiting(new.waiters, v)
    BY <1>3, <1>7, <2>1 DEF OneInv, OneStream, FitStream
  <2>3. v = streamPromise
    BY <1>3, <1>7 DEF OneInv, OneStream, Living
  <2>4. OneStream(streams', streamPromise)
    BY <1>1, <1>3, <1>7, <2>1, <2>2, <2>3, OneChanged DEF OneInv
  <2>5. DOMAIN streams' = DOMAIN streams
        /\ \A x \in DOMAIN streams : streams'[x] = IF x = v THEN new ELSE streams[x]
    BY <1>1, <1>3, <1>7, <2>1, OneReplaced
  <2>6. JobsFit(jobs', streamPromise, streams')
    BY <1>3, <1>5, <2>1, <2>5 DEF JobsFit, NoneBroken
  <2> QED
    BY <1>2, <2>4, <2>6 DEF OneInv
<1> QED
  BY <1>4, <1>6, <1>7

\* The promise of a stream is resolved with the stream, and what waited for it
\* becomes jobs.
LEMMA StreamReadyOne ==
  ASSUME Prompt, Typed, OneInv, NEW s \in DOMAIN streams, StreamReady(s)
  PROVE  OneInv'
<1> DEFINE new == [streams[s] EXCEPT !.promise = "stream", !.wire = "open", !.waiters = <<>>]
<1>1. /\ streams \in Seq(SomeStream) /\ DOMAIN streams = 1 .. Len(streams)
      /\ streams[s] \in SomeStream
  BY SomeShape
<1>2. /\ jobs' = streams[s].waiters /\ streams' = [streams EXCEPT ![s] = new]
      /\ streamPromise' = streamPromise /\ streams[s].promise = "pending"
  BY DEF StreamReady
<1>3. FitStream(streams[s]) /\ Waiting(streams[s].waiters, s) /\ (streams[s].wire \in Living => s = streamPromise)
  BY DEF OneInv, OneStream
<1>4. streams[s].wire = "none" /\ s = streamPromise
  BY <1>2, <1>3 DEF FitStream, Living
<1>5. new \in SomeStream /\ new.promise = "stream" /\ new.wire = "open" /\ new.waiters = <<>>
  <2>1. <<>> \in Seq(SomeJob)
    OBVIOUS
  <2> QED
    BY <1>1, <2>1 DEF SomeStream
<1> HIDE DEF new
<1>6. FitStream(new) /\ Waiting(new.waiters, s)
  BY <1>5 DEF FitStream, Waiting, Range
<1>7. OneStream(streams', streamPromise)
  BY <1>1, <1>2, <1>4, <1>5, <1>6, OneChanged DEF OneInv
<1>8. s \in DOMAIN streams' /\ streams'[s].promise = "stream"
  BY <1>1, <1>2, <1>5, OneReplaced
<1>9. JobsFit(jobs', streamPromise, streams')
  BY <1>2, <1>3, <1>4, <1>8 DEF JobsFit, Waiting, Settles
<1> QED
  BY <1>2, <1>7, <1>9 DEF OneInv

\* A stream with messages is the current one.
LEMMA ServerReceiveOne ==
  ASSUME Prompt, Typed, OneInv, NEW s \in DOMAIN streams, ServerReceive(s)
  PROVE  OneInv'
<1>1. /\ streams \in Seq(SomeStream) /\ DOMAIN streams = 1 .. Len(streams)
      /\ streams[s] \in SomeStream
  BY SomeShape
<1> DEFINE uid == Head(streams[s].toServer)
           sub == IF requests[uid].step = "unsub" THEN 0 ELSE uid
           new == [streams[s] EXCEPT !.toServer = Tail(@), !.toClient = Append(@, uid),
                                     !.subs[Target(uid)] = sub]
<1>2. streams[s].toServer # <<>> /\ streams' = [streams EXCEPT ![s] = new] /\ jobs = <<>>
      /\ UNCHANGED <<streamPromise, jobs>>
  BY DEF ServerReceive, MayRun
<1>3. FitStream(streams[s]) /\ Waiting(streams[s].waiters, s) /\ (streams[s].wire \in Living => s = streamPromise)
  BY DEF OneInv, OneStream
<1>4. streams[s].wire \in {"open", "ended"}
  BY <1>2, <1>3 DEF FitStream, Silent
<1>5. new \in SomeStream /\ new.promise = streams[s].promise /\ new.wire = streams[s].wire
      /\ new.waiters = streams[s].waiters
  <2>1. streams[s].toServer \in Seq(Nat) /\ streams[s].toClient \in Seq(Nat) /\ streams[s].subs \in [Targets -> Nat]
    BY <1>1 DEF SomeStream
  <2>2. uid \in Nat /\ Tail(streams[s].toServer) \in Seq(Nat)
    BY <1>2, <2>1, HeadTailProperties
  <2>3. Append(streams[s].toClient, uid) \in Seq(Nat) /\ sub \in Nat
    BY <2>1, <2>2, AppendProperties
  <2>4. [streams[s].subs EXCEPT ![Target(uid)] = sub] \in [Targets -> Nat]
    BY <2>1, <2>3
  <2> QED
    BY <1>1, <2>2, <2>3, <2>4 DEF SomeStream
<1> HIDE DEF new
<1>6. FitStream(new) /\ Waiting(new.waiters, s)
  BY <1>3, <1>4, <1>5 DEF FitStream
<1>7. OneStream(streams', streamPromise)
  BY <1>1, <1>2, <1>3, <1>4, <1>5, <1>6, OneChanged DEF OneInv
<1>8. JobsFit(jobs', streamPromise, streams')
  BY <1>2, SomeShape, FewJobsFit
<1> QED
  BY <1>2, <1>7, <1>8 DEF OneInv

LEMMA HandleResponseOne ==
  ASSUME Prompt, Typed, OneInv, NEW s \in DOMAIN streams, HandleResponse(s)
  PROVE  OneInv'
<1>1. /\ streams \in Seq(SomeStream) /\ DOMAIN streams = 1 .. Len(streams)
      /\ streams[s] \in SomeStream
  BY SomeShape
<1> DEFINE uid == Head(streams[s].toClient)
           job == Job("settled", uid, 0)
           new == [streams[s] EXCEPT !.toClient = Tail(@)]
<1>2. /\ streams[s].toClient # <<>> /\ streams' = [streams EXCEPT ![s] = new]
      /\ jobs = <<>> /\ NoneBroken(streams)
      /\ jobs' \in {<<>>, <<job>>} /\ streamPromise' = streamPromise
  BY NothingUnderWay DEF HandleResponse
<1>3. FitStream(streams[s]) /\ Waiting(streams[s].waiters, s) /\ (streams[s].wire \in Living => s = streamPromise)
  BY DEF OneInv, OneStream
<1>4. streams[s].wire \in {"open", "ended"} /\ s = streamPromise
  BY <1>2, <1>3 DEF FitStream, Silent, Living
<1>5. new \in SomeStream /\ new.promise = streams[s].promise /\ new.wire = streams[s].wire
      /\ new.waiters = streams[s].waiters /\ job \in SomeJob /\ job.do = "settled"
  <2>1. streams[s].toClient \in Seq(Nat)
    BY <1>1 DEF SomeStream
  <2>2. uid \in Nat /\ Tail(streams[s].toClient) \in Seq(Nat)
    BY <1>2, <2>1, HeadTailProperties
  <2> QED
    BY <1>1, <2>2 DEF SomeStream, SomeJob, Job
<1> HIDE DEF new, job
<1>6. FitStream(new) /\ Waiting(new.waiters, s)
  BY <1>3, <1>4, <1>5 DEF FitStream
<1>7. OneStream(streams', streamPromise)
  BY <1>1, <1>2, <1>3, <1>4, <1>5, <1>6, OneChanged DEF OneInv
<1>8. NoneBroken(streams')
  BY <1>1, <1>2, <1>5, OneReplaced DEF NoneBroken
<1>9. JobsFit(jobs', streamPromise, streams')
  <2>1. CASE jobs' = <<>>
    BY <2>1, SomeShape, FewJobsFit
  <2>2. CASE jobs' = <<job>>
    <3>1. Range(jobs') = {job}
      BY <1>5, <2>2, SomeShape, RangeOfFew
    <3> QED
      BY <1>1, <1>4, <1>5, <1>8, <3>1 DEF JobsFit, Drops
  <2> QED
    BY <1>2, <2>1, <2>2
<1> QED
  BY <1>2, <1>7, <1>9 DEF OneInv

LEMMA StreamFailOne ==
  ASSUME Prompt, Typed, OneInv, NEW s \in DOMAIN streams, StreamFail(s)
  PROVE  OneInv'
<1>1. streams \in Seq(SomeStream) /\ DOMAIN streams = 1 .. Len(streams)
  BY SomeShape
<1>2. /\ streams' = [streams EXCEPT ![s] = Broken(@)] /\ jobs' = <<>> /\ streamPromise' = streamPromise
  BY DEF StreamFail, MayRun
<1>3. OneStream(streams', streamPromise)
  BY <1>1, <1>2, OneBreaks DEF OneInv
<1> QED
  BY <1>2, <1>3, SomeShape, FewJobsFit DEF OneInv

\* A dead stream is silent.
LEMMA StreamEndOne ==
  ASSUME Prompt, Typed, OneInv, NEW s \in DOMAIN streams, StreamEnd(s)
  PROVE  OneInv'
<1> DEFINE new == [streams[s] EXCEPT !.wire = "dead", !.subs = NoSubscriptions]
<1>1. /\ streams \in Seq(SomeStream) /\ DOMAIN streams = 1 .. Len(streams)
      /\ streams[s] \in SomeStream
  BY SomeShape
<1>2. /\ streams[s].wire = "ended" /\ streams[s].toServer = <<>> /\ streams[s].toClient = <<>>
      /\ streams' = [streams EXCEPT ![s] = new] /\ jobs' = <<>> /\ streamPromise' = streamPromise
  BY DEF StreamEnd, MayRun
<1>3. FitStream(streams[s]) /\ Waiting(streams[s].waiters, s)
  BY DEF OneInv, OneStream
<1>4. NoSubscriptions \in [Targets -> Nat]
  BY DEF NoSubscriptions
<1>5. new \in SomeStream /\ Silent(new) /\ new.wire = "dead"
      /\ new.promise = streams[s].promise /\ new.waiters = streams[s].waiters
  BY <1>1, <1>2, <1>4 DEF SomeStream, Silent
<1> HIDE DEF new
<1>6. FitStream(new) /\ Waiting(new.waiters, s) /\ new.wire \notin Living
  BY <1>2, <1>3, <1>5 DEF FitStream, Living
<1>7. OneStream(streams', streamPromise)
  BY <1>1, <1>2, <1>5, <1>6, OneChanged DEF OneInv
<1> QED
  BY <1>2, <1>7, SomeShape, FewJobsFit DEF OneInv

LEMMA CloseEventStreamOne ==
  ASSUME Prompt, Typed, OneInv, CloseEventStream
  PROVE  OneInv'
<1> DEFINE job  == Job("close", 0, streamPromise)
           last == <<job>>
<1>1. /\ streams \in Seq(SomeStream) /\ streamPromise \in 0 .. Len(streams) /\ jobs \in Seq(SomeJob)
      /\ Len(streams) \in Nat
  BY SomeShape
<1>2. streamPromise' = streamPromise
  BY DEF CloseEventStream
<1>3. CASE streamPromise = 0
  <2>1. UNCHANGED <<streams, jobs>>
    BY <1>3 DEF CloseEventStream
  <2> QED
    BY <1>2, <2>1 DEF OneInv
<1>4. CASE streamPromise # 0
  <2>1. Awaiting(streamPromise, last, streams, jobs)
    BY <1>4 DEF CloseEventStream
  <2>2. job \in SomeJob /\ job.do = "close" /\ job.via = streamPromise
    BY <1>1 DEF Job, SomeJob
  <2> HIDE DEF job
  <2>3. last \in Seq(SomeJob) /\ Range(last) = {job}
    BY <1>1, <2>2, RangeOfFew
  <2>4. Waiting(last, streamPromise) /\ ~Drops(last)
    BY <2>2, <2>3 DEF Waiting, Drops
  <2> HIDE DEF last
  <2>5. OneStream(streams', streamPromise) /\ JobsFit(jobs', streamPromise, streams')
    BY <1>1, <1>4, <2>1, <2>3, <2>4, OneAwaiting DEF OneInv
  <2> QED
    BY <1>2, <2>5 DEF OneInv
<1> QED
  BY <1>3, <1>4

\* All streams break at once.
AllBroken == [s \in DOMAIN streams |-> Broken(streams[s])]

LEMMA AllBrokenIs ==
  ASSUME Typed
  PROVE  /\ AllBroken \in Seq(SomeStream) /\ DOMAIN AllBroken = DOMAIN streams
         /\ Len(AllBroken) = Len(streams)
         /\ \A x \in DOMAIN streams : AllBroken[x] = Broken(streams[x])
<1> DEFINE e(x) == Broken(streams[x])
<1>1. Len(streams) \in Nat /\ DOMAIN streams = 1 .. Len(streams)
  BY SomeShape
<1>2. \A x \in 1 .. Len(streams) : e(x) \in SomeStream
  BY SomeShape, BrokenIs
<1>3. AllBroken = [x \in 1 .. Len(streams) |-> e(x)]
  BY <1>1 DEF AllBroken
<1> HIDE DEF e
<1>4. AllBroken \in Seq(SomeStream) /\ DOMAIN AllBroken = 1 .. Len(streams)
  BY <1>1, <1>2, <1>3, IsASeq
<1> QED
  BY <1>1, <1>3, <1>4, LenProperties DEF e

LEMMA AllBrokenOne ==
  ASSUME Typed, OneInv
  PROVE  OneStream(AllBroken, streamPromise)
<1>1. /\ DOMAIN AllBroken = DOMAIN streams /\ \A x \in DOMAIN streams : AllBroken[x] = Broken(streams[x])
      /\ \A x \in DOMAIN streams : streams[x] \in SomeStream
  BY SomeShape, AllBrokenIs
<1>2. ASSUME NEW x \in DOMAIN streams
      PROVE  /\ FitStream(AllBroken[x]) /\ Waiting(AllBroken[x].waiters, x)
             /\ AllBroken[x].wire \in Living => x = streamPromise
             /\ AllBroken[x].wire # "dead" => streams[x].wire # "dead"
  <2>1. FitStream(streams[x]) /\ Waiting(streams[x].waiters, x) /\ (streams[x].wire \in Living => x = streamPromise)
    BY DEF OneInv, OneStream
  <2> QED
    BY <1>1, <2>1, BrokenIs, BrokenFits DEF Living
<1> QED
  BY <1>1, <1>2 DEF OneInv, OneStream

LEMMA ChannelDropOne ==
  ASSUME Prompt, Typed, OneInv, ChannelDrop
  PROVE  OneInv'
<1> DEFINE job  == Job("disconnect", 0, streamPromise)
           wait == <<job>>
<1>1. /\ AllBroken \in Seq(SomeStream) /\ Len(AllBroken) = Len(streams)
      /\ streamPromise \in 0 .. Len(streams) /\ Len(streams) \in Nat /\ jobs \in Seq(SomeJob)
      /\ OneStream(AllBroken, streamPromise)
  BY SomeShape, AllBrokenIs, AllBrokenOne
<1>2. /\ jobs = <<>> /\ streamPromise' = streamPromise
      /\ \/ streams' = AllBroken /\ jobs' = jobs
         \/ streamPromise = 0 /\ streams' = AllBroken /\ jobs' = wait
         \/ streamPromise # 0 /\ Awaiting(streamPromise, wait, AllBroken, jobs)
  BY DEF ChannelDrop, MayRun, AllBroken
<1>3. job \in SomeJob /\ job.do = "disconnect" /\ job.via = streamPromise
  BY <1>1 DEF Job, SomeJob
<1> HIDE DEF job
<1>4. wait \in Seq(SomeJob) /\ Range(wait) = {job}
  BY <1>1, <1>3, RangeOfFew
<1> HIDE DEF wait
<1>5. Waiting(wait, streamPromise)
  BY <1>3, <1>4 DEF Waiting
<1>6. /\ JobsFit(jobs, streamPromise, AllBroken)
      /\ Drops(wait) => ~Settles(jobs)
  BY <1>1, <1>2, FewJobsFit
<1>7. CASE streams' = AllBroken /\ jobs' = jobs
  BY <1>1, <1>2, <1>6, <1>7 DEF OneInv
<1>8. CASE streamPromise = 0 /\ streams' = AllBroken /\ jobs' = wait
  <2>1. JobsFit(wait, 0, AllBroken)
    BY <1>3, <1>4, <1>8 DEF JobsFit, Settles
  <2> QED
    BY <1>1, <1>2, <1>8, <2>1 DEF OneInv
<1>9. CASE streamPromise # 0 /\ Awaiting(streamPromise, wait, AllBroken, jobs)
  <2>1. streamPromise \in 1 .. Len(AllBroken)
    BY <1>1, <1>9
  <2>2. OneStream(streams', streamPromise) /\ JobsFit(jobs', streamPromise, streams')
    BY <1>1, <1>4, <1>5, <1>6, <1>9, <2>1, OneAwaiting
  <2> QED
    BY <1>2, <2>2 DEF OneInv
<1> QED
  BY <1>2, <1>7, <1>8, <1>9

LEMMA ChannelUpOne ==
  ASSUME Prompt, Typed, OneInv, ChannelUp
  PROVE  OneInv'
<1>1. jobs = <<>> /\ NoneBroken(streams)
  BY NothingUnderWay DEF ChannelUp
<1>2. PICK batch \in Seq(RequestSet(Len(groups))) : Send(batch, streamPromise, streams, jobs)
  <2>1. <<>> \in Seq(RequestSet(Len(groups)))
    OBVIOUS
  <2>2. \A order \in Orders : Resubscriptions(order) \in Seq(RequestSet(Len(groups)))
    BY ResubscriptionsType DEF Typed
  <2> QED
    BY <2>1, <2>2 DEF ChannelUp
<1>3. ~Drops(jobs)
  BY <1>1, SomeShape, FewJobsFit
<1> QED
  BY <1>1, <1>2, <1>3, SomeShape, OneSent DEF OneInv

\* A stream whose failure was reported is dead, and so are all others.
LEMMA ReportedOne ==
  ASSUME Typed, OneInv, NEW s \in DOMAIN streams, streams[s].wire = "broken", NEW current
  PROVE  OneStream(Reported(s), current) /\ \A x \in DOMAIN streams : Reported(s)[x].wire = "dead"
<1> DEFINE new == [streams[s] EXCEPT !.wire = "dead"]
<1>1. /\ streams[s] \in SomeStream /\ DOMAIN streams = DOMAIN Reported(s)
      /\ \A x \in DOMAIN streams : Reported(s)[x] = IF x = s THEN new ELSE streams[x]
  BY SomeShape, ReportedIs
<1>2. FitStream(streams[s]) /\ Waiting(streams[s].waiters, s)
  BY DEF OneInv, OneStream
<1>3. /\ new.wire = "dead" /\ new.promise = streams[s].promise /\ new.waiters = streams[s].waiters
      /\ Silent(streams[s]) => Silent(new)
  BY <1>1 DEF SomeStream, Silent
<1> HIDE DEF new
<1>4. FitStream(new) /\ Waiting(new.waiters, s)
  BY <1>2, <1>3 DEF FitStream
<1>5. \A x \in DOMAIN streams : x # s => streams[x].wire = "dead"
  BY OthersDead DEF OneInv
<1>6. \A x \in DOMAIN streams : Reported(s)[x].wire = "dead"
  BY <1>1, <1>3, <1>5
<1>7. \A x \in DOMAIN streams : FitStream(Reported(s)[x]) /\ Waiting(Reported(s)[x].waiters, x)
  BY <1>1, <1>2, <1>4 DEF OneInv, OneStream
<1> QED
  BY <1>1, <1>6, <1>7 DEF OneStream, Living

\* What onError sends: every group's subscription, or nothing.
LEMMA StreamErrorSends ==
  ASSUME Typed, NEW s \in DOMAIN streams, StreamError(s)
  PROVE  /\ jobs = <<>> /\ streams[s].wire = "broken"
         /\ \E batch \in Seq(RequestSet(Len(groups))), current \in {0, streamPromise} :
              Send(batch, current, Reported(s), jobs)
<1>1. \A order \in Orders : Resubscriptions(order) \in Seq(RequestSet(Len(groups)))
  BY ResubscriptionsType DEF Typed
<1>2. <<>> \in Seq(RequestSet(Len(groups)))
  OBVIOUS
<1> QED
  BY <1>1, <1>2 DEF StreamError, Reported

LEMMA StreamErrorOne ==
  ASSUME Typed, OneInv, NEW s \in DOMAIN streams, StreamError(s)
  PROVE  OneInv'
<1>1. jobs = <<>> /\ streams[s].wire = "broken"
  BY StreamErrorSends
<1>2. PICK batch \in Seq(RequestSet(Len(groups))), current \in {0, streamPromise} :
        Send(batch, current, Reported(s), jobs)
  BY StreamErrorSends
<1>3. /\ Reported(s) \in Seq(SomeStream) /\ current \in 0 .. Len(Reported(s)) /\ jobs \in Seq(SomeJob)
      /\ Len(requests) \in Nat
  <2>1. /\ streamPromise \in 0 .. Len(streams) /\ Len(streams) \in Nat
        /\ jobs \in Seq(SomeJob) /\ Len(requests) \in Nat
    BY SomeShape
  <2>2. Reported(s) \in Seq(SomeStream) /\ Len(Reported(s)) = Len(streams)
    BY ReportedIs
  <2> QED
    BY <2>1, <2>2
<1>4. JobsFit(jobs, current, Reported(s)) /\ ~Drops(jobs)
  BY <1>1, <1>3, FewJobsFit
<1>5. OneStream(Reported(s), current) /\ NoneBroken(Reported(s))
  BY <1>1, ReportedOne, ReportedIs DEF NoneBroken
<1> QED
  BY <1>2, <1>3, <1>4, <1>5, OneSent

LEMMA InitOne == Init => OneInv
<1> SUFFICES ASSUME Init PROVE OneInv
  OBVIOUS
<1>1. streams = <<NewStream>> /\ streamPromise = 1 /\ jobs = <<>>
  BY DEF Init
<1>2. DOMAIN streams = {1} /\ streams[1] = NewStream
  BY <1>1
<1>3. FitStream(NewStream) /\ Waiting(NewStream.waiters, 1)
  BY NewStreamIs DEF FitStream, Silent, Waiting, Range
<1>4. JobsFit(jobs, streamPromise, streams)
  BY <1>1 DEF JobsFit, Settles, Range
<1> QED
  BY <1>1, <1>2, <1>3, <1>4 DEF OneInv, OneStream

\* No wait for a ready channel expires.
LEMMA NoTimeout ==
  ASSUME Typed, MaxTimeouts = 0, NEW s
  PROVE  ~ReadyTimeout(s) /\ (CloseEventStream => channel = "READY" /\ used' = used)
<1>1. used.timeouts \in Nat
  BY DEF Typed, OthersOK
<1> QED
  BY <1>1 DEF ReadyTimeout, CloseEventStream

LEMMA NextOne ==
  ASSUME Prompt, MaxTimeouts = 0
  PROVE  Typed /\ OneInv /\ [Next]_vars => OneInv'
<1> SUFFICES ASSUME Typed, OneInv, [Next]_vars PROVE OneInv'
  OBVIOUS
<1>1. CASE Application
  BY <1>1, ListenerCallOne, CloseEventStreamOne DEF Application
<1>2. CASE Failures
  BY <1>2, ChannelDropOne, StreamFailOne, NoTimeout DEF Failures
<1>3. CASE Answers
  BY <1>3, ServerReceiveOne, HandleResponseOne DEF Answers
<1>4. CASE StreamChanges
  BY <1>4, StreamReadyOne, StreamErrorOne, StreamEndOne DEF StreamChanges
<1>5. CASE RunJob
  BY <1>5, WriteJobOne, SettledJobOne, DisconnectJobOne, CloseJobOne DEF RunJob
<1>6. CASE ChannelUp
  BY <1>6, ChannelUpOne
<1>7. CASE UNCHANGED vars
  BY <1>7 DEF vars, OneInv
<1> QED
  BY <1>1, <1>2, <1>3, <1>4, <1>5, <1>6, <1>7 DEF Next

\* At most one element.
LEMMA AtMostOne ==
  ASSUME NEW S, \A x, y \in S : x = y
  PROVE  Cardinality(S) \in {0, 1}
<1>1. CASE S = {}
  BY <1>1, FS_EmptySet
<1>2. CASE S # {}
  <2>1. PICK x : S = {x}
    BY <1>2
  <2> QED
    BY <2>1, FS_Singleton
<1> QED
  BY <1>1, <1>2

\* The proxy holds one subscription per target at most, so that no event is
\* delivered twice: whatever fails, the stream that onError or onReconnect
\* replaces is gone when the new one is subscribed.
THEOREM NothingTwice ==
  ASSUME Prompt, MaxTimeouts = 0
  PROVE  Spec => []NoDuplicates
<1>1. Init => Typed /\ OneInv
  BY InitTyped, InitOne
<1>2. Typed /\ OneInv /\ [Next]_vars => Typed' /\ OneInv'
  BY NextTyped, NextOne
<1>3. Typed /\ OneInv => NoDuplicates
  <2> SUFFICES ASSUME OneInv, NEW t \in Targets
               PROVE  Cardinality(Subscriptions(t)) <= 1
    BY DEF NoDuplicates
  <2>1. ASSUME NEW s \in Subscriptions(t) PROVE s \in DOMAIN streams /\ streams[s].wire # "dead"
    <3>1. s \in DOMAIN streams /\ streams[s].subs[t] # 0
      BY <2>1 DEF Subscriptions
    <3>2. ~Silent(streams[s])
      BY <3>1 DEF Silent, NoSubscriptions
    <3> QED
      BY <3>1, <3>2 DEF OneInv, OneStream, FitStream
  <2>2. \A s, x \in Subscriptions(t) : s = x
    BY <2>1 DEF OneInv, OneStream
  <2> QED
    BY <2>2, AtMostOne
<1> QED
  BY <1>1, <1>2, <1>3, PTL DEF Spec

----------------------------------------------------------------------------
(* ReleasedIsSilent, under the same assumptions: what is known of the      *)
(* groups, of the channel watcher, of a manager that was closed and of one *)
(* that was not.                                                           *)

\* Every group is found under its own target.
TargetsFit == \A t \in Targets : groupOf[t] # 0 => groups[groupOf[t]].target = t

LEMMA TargetsKept ==
  ASSUME NEW grp \in Group, NEW l, NEW isLite
  PROVE  Added(grp, l, isLite).target = grp.target /\ Removed(grp, l).target = grp.target
  BY DEF Added, Removed, Group

\* addListener changes the group of its target, or makes one.
LEMMA AddListenerDoes ==
  ASSUME Typed, NEW t \in Targets, NEW l \in Listeners, NEW isLite \in BOOLEAN,
         AddListener(t, l, isLite)
  PROVE  LET known == groupOf[t] # 0
             g     == IF known THEN groupOf[t] ELSE Len(groups) + 1
             grp   == IF known THEN groups[g] ELSE NewGroup(t)
             new   == Added(grp, l, isLite)
         IN /\ grp \in Group /\ new \in Group /\ new.target = grp.target
            /\ DOMAIN groups = 1 .. Len(groups)
            /\ DOMAIN groups' = IF known THEN 1 .. Len(groups) ELSE 1 .. Len(groups) + 1
            /\ \A h \in DOMAIN groups' : groups'[h] = IF h = g THEN new ELSE groups[h]
            /\ g \in DOMAIN groups' /\ (known <=> g \in DOMAIN groups)
            /\ groupOf' = [groupOf EXCEPT ![t] = g]
            /\ Call(t, g, AddSteps(grp, l, isLite))
<1> DEFINE known == groupOf[t] # 0
           g     == IF known THEN groupOf[t] ELSE Len(groups) + 1
           grp   == IF known THEN groups[g] ELSE NewGroup(t)
           new   == Added(grp, l, isLite)
<1>1. /\ groups' = IF known THEN [groups EXCEPT ![g] = new] ELSE Append(groups, new)
      /\ groupOf' = [groupOf EXCEPT ![t] = g]
      /\ Call(t, g, AddSteps(grp, l, isLite))
  BY DEF AddListener
<1>2. /\ Len(groups) \in Nat /\ (known => g \in 1 .. Len(groups)) /\ groups \in Seq(Group)
      /\ (~known => g = Len(groups) + 1) /\ DOMAIN groups = 1 .. Len(groups)
  BY Lengths DEF Typed, RegistryOK
<1>3. grp \in Group
  BY <1>2, NewGroupFacts, ElementOfSeq
<1>4. new \in Group /\ new.target = grp.target
  <2> HIDE DEF grp
  <2> QED
    BY <1>3, AddedType, TargetsKept
<1>5. /\ DOMAIN groups' = IF known THEN 1 .. Len(groups) ELSE 1 .. Len(groups) + 1
      /\ \A h \in DOMAIN groups' : groups'[h] = IF h = g THEN new ELSE groups[h]
      /\ g \in DOMAIN groups' /\ (known <=> g \in DOMAIN groups)
  <2> HIDE DEF new, g, grp
  <2>1. CASE known
    <3> HIDE DEF known
    <3> QED
      BY <1>1, <1>2, <1>4, <2>1, ExceptSeq, LenProperties
  <2>2. CASE ~known
    <3> HIDE DEF known
    <3> QED
      BY <1>1, <1>2, <1>4, <2>2, AppendProperties, LenProperties
  <2> QED
    BY <2>1, <2>2
<1> QED
  BY <1>1, <1>2, <1>3, <1>4, <1>5

\* removeListener changes the group it finds, if any, and no target.
LEMMA RemoveListenerDoes ==
  ASSUME Typed, NEW t \in Targets, NEW l \in Listeners, RemoveListener(t, l)
  PROVE  LET g == FoundForRemoval(t)
         IN /\ DOMAIN groups = 1 .. Len(groups) /\ DOMAIN groups' = DOMAIN groups
            /\ groupOf' = groupOf
            /\ g = 0 => groups' = groups /\ Call(t, g, <<>>)
            /\ g # 0 => /\ g = groupOf[t] /\ g \in DOMAIN groups /\ groups[g] \in Group
                        /\ Removed(groups[g], l) \in Group
                        /\ \A h \in DOMAIN groups : groups'[h] = IF h = g THEN Removed(groups[g], l) ELSE groups[h]
                        /\ Call(t, g, RemoveSteps(groups[g], l))
            /\ \A h \in DOMAIN groups : groups'[h].target = groups[h].target
<1> DEFINE g == FoundForRemoval(t)
<1>1. /\ Len(groups) \in Nat /\ g \in 0 .. Len(groups) /\ groups \in Seq(Group)
      /\ DOMAIN groups = 1 .. Len(groups) /\ groupOf' = groupOf
      /\ g # 0 => g = groupOf[t]
  BY Lengths DEF Typed, RegistryOK, FoundForRemoval, RemoveListener
<1>2. CASE g = 0
  <2>1. groups' = groups /\ Call(t, g, <<>>)
    BY <1>2 DEF RemoveListener
  <2> QED
    BY <1>1, <1>2, <2>1
<1>3. CASE g # 0
  <2> DEFINE new == Removed(groups[g], l)
  <2>1. groups' = [groups EXCEPT ![g] = new] /\ Call(t, g, RemoveSteps(groups[g], l))
    BY <1>3 DEF RemoveListener
  <2>2. g \in DOMAIN groups /\ groups[g] \in Group
    BY <1>1, <1>3, ElementOfSeq
  <2>3. new \in Group /\ new.target = groups[g].target
    BY <2>2, RemovedType, TargetsKept
  <2> HIDE DEF new, g
  <2>4. /\ DOMAIN groups' = DOMAIN groups
        /\ \A h \in DOMAIN groups : groups'[h] = IF h = g THEN new ELSE groups[h]
    BY <1>1, <2>1, <2>2, <2>3, ExceptSeq, LenProperties
  <2> QED
    BY <1>1, <1>3, <2>1, <2>2, <2>3, <2>4 DEF new, g
<1> QED
  BY <1>2, <1>3

\* Everything else changes no group, and at most takes one from the maps.
RegistryRests ==
  /\ groups' = groups
  /\ groupOf' = groupOf \/ \E t : groupOf' = [groupOf EXCEPT ![t] = 0]

LEMMA RegistryStep ==
  ASSUME [Next]_vars
  PROVE  \/ \E t \in Targets, l \in Listeners, isLite \in Modes : AddListener(t, l, isLite)
         \/ \E t \in Targets, l \in Listeners : RemoveListener(t, l)
         \/ RegistryRests
<1>1. CASE \E job : SettledJob(job)
  BY <1>1 DEF SettledJob, PostSubscribe, PostUnsubscribe, RegistryRests
<1>2. CASE CloseEventStream \/ Failures \/ Answers \/ StreamChanges \/ ChannelUp \/ UNCHANGED vars
             \/ WriteJob(Head(jobs)) \/ DisconnectJob(Head(jobs)) \/ CloseJob(Head(jobs))
  <2>1. groups' = groups /\ groupOf' = groupOf
    BY <1>2 DEF CloseEventStream, Failures, Answers, StreamChanges, ChannelUp, vars,
                registry, ChannelDrop, StreamFail, ReadyTimeout, ServerReceive, HandleResponse,
                StreamReady, StreamError, StreamEnd, WriteJob, DisconnectJob, CloseJob
  <2> QED
    BY <2>1 DEF RegistryRests
<1> QED
  BY <1>1, <1>2 DEF Next, Application, RunJob

LEMMA NextTargetsFit == Typed /\ TargetsFit /\ [Next]_vars => TargetsFit'
<1> SUFFICES ASSUME Typed, TargetsFit, [Next]_vars PROVE TargetsFit'
  OBVIOUS
<1>0. groupOf \in [Targets -> 0 .. Len(groups)] /\ DOMAIN groups = 1 .. Len(groups) /\ Len(groups) \in Nat
  BY Lengths DEF Typed, RegistryOK
<1>1. ASSUME NEW t \in Targets, NEW l \in Listeners, NEW isLite \in Modes, AddListener(t, l, isLite)
      PROVE  TargetsFit'
  <2> DEFINE known == groupOf[t] # 0
             g     == IF known THEN groupOf[t] ELSE Len(groups) + 1
             grp   == IF known THEN groups[g] ELSE NewGroup(t)
             new   == Added(grp, l, isLite)
  <2>1. isLite \in BOOLEAN
    BY BoundsAssumption
  <2>2. /\ new.target = grp.target
        /\ DOMAIN groups' = IF known THEN 1 .. Len(groups) ELSE 1 .. Len(groups) + 1
        /\ \A h \in DOMAIN groups' : groups'[h] = IF h = g THEN new ELSE groups[h]
        /\ g \in DOMAIN groups' /\ (known <=> g \in DOMAIN groups)
        /\ groupOf' = [groupOf EXCEPT ![t] = g]
    BY <1>1, <2>1, AddListenerDoes
  <2>3. grp.target = t
    BY DEF TargetsFit, NewGroup
  <2> HIDE DEF new, grp
  <2>4. ASSUME NEW x \in Targets, groupOf'[x] # 0 PROVE groups'[groupOf'[x]].target = x
    <3>1. CASE x = t
      BY <1>0, <2>2, <2>3, <3>1
    <3>2. CASE x # t
      <4>1. groupOf'[x] = groupOf[x] /\ groupOf[x] \in 1 .. Len(groups)
        BY <1>0, <2>2, <2>4, <3>2
      <4>2. groupOf[x] # g
        BY <1>0, <2>2, <2>3, <3>2, <4>1 DEF TargetsFit, grp
      <4>3. groups'[groupOf[x]] = groups[groupOf[x]]
        BY <1>0, <2>2, <4>1, <4>2
      <4> QED
        BY <4>1, <4>3 DEF TargetsFit
    <3> QED
      BY <3>1, <3>2
  <2> QED
    BY <2>4 DEF TargetsFit
<1>2. ASSUME NEW t \in Targets, NEW l \in Listeners, RemoveListener(t, l)
      PROVE  TargetsFit'
  BY <1>0, <1>2, RemoveListenerDoes DEF TargetsFit
<1>3. CASE RegistryRests
  BY <1>0, <1>3 DEF RegistryRests, TargetsFit
<1> QED
  BY <1>1, <1>2, <1>3, RegistryStep

\* What a batch leaves as it was: the streams there were, but for who waits for
\* them, and the jobs there were, behind which there may be writes.
LEMMA SendKeeps ==
  ASSUME Len(requests) \in Nat, NEW B, NEW batch \in Seq(B), NEW strs \in Seq(SomeStream),
         NEW current \in 0 .. Len(strs), NEW queue \in Seq(SomeJob),
         Send(batch, current, strs, queue)
  PROVE  /\ DOMAIN strs \subseteq DOMAIN streams'
         /\ \A x \in DOMAIN strs : /\ streams'[x].promise = strs[x].promise
                                   /\ streams'[x].wire = strs[x].wire
                                   /\ Range(strs[x].waiters) \subseteq Range(streams'[x].waiters)
         /\ Range(queue) \subseteq Range(jobs')
         /\ \A j \in Range(jobs') : j \in Range(queue) \/ j.do = "write"
         /\ current # 0 \/ batch = <<>> => DOMAIN streams' = DOMAIN strs /\ streamPromise' = current
         /\ batch # <<>> => streamPromise' # 0
         /\ current # 0 /\ strs[current].promise = "pending" => jobs' = queue
<1>0. DOMAIN strs = 1 .. Len(strs) /\ Len(strs) \in Nat
  BY LenProperties
<1>1. CASE batch = <<>>
  BY <1>0, <1>1, SendDoes
<1>2. CASE batch # <<>>
  <2> DEFINE s   == Ensured(current, strs)
             all == Ensuring(current, strs)
             js  == Writes(batch, s)
  <2>1. /\ streamPromise' = s /\ s \in 1 .. Len(all)
        /\ DOMAIN streams' = 1 .. Len(all)
        /\ \A x \in 1 .. Len(all) : SameButWaiters(all[x], streams'[x])
        /\ \A x \in 1 .. Len(all) :
             streams'[x].waiters = IF x = s /\ all[s].promise = "pending"
                                   THEN all[s].waiters \o js ELSE all[x].waiters
        /\ jobs' = IF all[s].promise = "pending" THEN queue ELSE queue \o js
    BY <1>2, SendDoes
  <2>2. /\ all \in Seq(SomeStream) /\ Len(all) \in Nat
        /\ Len(all) = IF current = 0 THEN Len(strs) + 1 ELSE Len(strs)
        /\ \A x \in 1 .. Len(strs) : all[x] = strs[x]
        /\ current # 0 => s = current
    BY <1>0, EnsuringDoes, LenProperties DEF Ensured
  <2> HIDE DEF s, all, js
  <2>3. js \in Seq(SomeJob) /\ \A j \in Range(js) : j.do = "write"
    <3>1. s \in Nat
      BY <2>1, <2>2
    <3> QED
      BY <3>1, WritesAre DEF js
  <2>4. all[s].waiters \in Seq(SomeJob)
    <3>1. all[s] \in SomeStream
      BY <2>1, <2>2, ElementOfSeq
    <3> QED
      BY <3>1 DEF SomeStream
  <2>5. /\ Range(all[s].waiters \o js) = Range(all[s].waiters) \cup Range(js)
        /\ Range(queue \o js) = Range(queue) \cup Range(js)
    BY <2>3, <2>4, RangeConcatenation
  <2>6. 1 .. Len(strs) \subseteq 1 .. Len(all)
    BY <1>0, <2>2
  <2>7. ASSUME NEW x \in 1 .. Len(strs)
        PROVE  /\ streams'[x].promise = strs[x].promise
               /\ streams'[x].wire = strs[x].wire
               /\ Range(strs[x].waiters) \subseteq Range(streams'[x].waiters)
    <3>1. all[x] = strs[x] /\ x \in 1 .. Len(all)
      BY <2>2, <2>6
    <3>2. SameButWaiters(strs[x], streams'[x])
      BY <2>1, <3>1
    <3>3. Range(strs[x].waiters) \subseteq Range(streams'[x].waiters)
      BY <2>1, <2>5, <3>1
    <3> QED
      BY <3>2, <3>3 DEF SameButWaiters
  <2>8. /\ Range(queue) \subseteq Range(jobs')
        /\ \A j \in Range(jobs') : j \in Range(queue) \/ j.do = "write"
    BY <2>1, <2>3, <2>5
  <2>9. s # 0 /\ (current # 0 => Len(all) = Len(strs) /\ all[s] = strs[current])
    <3>1. s # 0
      BY <2>1, <2>2
    <3>2. ASSUME current # 0 PROVE Len(all) = Len(strs) /\ all[s] = strs[current]
      <4>1. current \in 1 .. Len(strs)
        BY <1>0, <3>2
      <4> QED
        BY <2>2, <3>2, <4>1
    <3> QED
      BY <3>1, <3>2
  <2>10. current # 0 /\ strs[current].promise = "pending" => jobs' = queue
    BY <2>1, <2>9
  <2> QED
    BY <1>0, <1>2, <2>1, <2>2, <2>6, <2>7, <2>8, <2>9, <2>10
<1> QED
  BY <1>1, <1>2

\* The watcher knows whether the channel is ready; before the channel is ready
\* for the first time, the first stream is waited for and nothing runs.
WatchInv ==
  /\ session.connected <=> channel = "READY"
  /\ session.firstConnect =>
       /\ channel # "READY" /\ jobs = <<>> /\ streamPromise # 0
       /\ \A s \in DOMAIN streams : streams[s].promise = "pending"

\* A stream that waits for the channel has not been opened.
Unopened ==
  \A s \in DOMAIN streams :
    streams[s].promise = "pending" => streams[s].wire = "none" /\ streams[s].toClient = <<>>

LEMMA OneUnopened == OneInv => Unopened
  BY DEF OneInv, OneStream, FitStream, Silent, Unopened

\* Until then, nothing happens but listener calls and the connection itself.
LEMMA FirstSteps ==
  ASSUME MaxTimeouts = 0, Typed, Unopened, WatchInv, session.firstConnect, Next
  PROVE  ChannelUp \/ \E t, l, isLite : AddListener(t, l, isLite) \/ RemoveListener(t, l)
<1>1. channel # "READY" /\ jobs = <<>> /\ \A s \in DOMAIN streams : streams[s].promise = "pending"
  BY DEF WatchInv
<1>2. ASSUME NEW s \in DOMAIN streams
      PROVE  /\ streams[s].wire = "none" /\ streams[s].toClient = <<>>
  BY <1>1 DEF Unopened
<1>3. ~RunJob /\ ~ChannelDrop /\ ~CloseEventStream
  BY <1>1, NoTimeout DEF RunJob, ChannelDrop
<1>4. ~StreamChanges /\ ~Answers
  BY <1>1, <1>2 DEF StreamChanges, Answers, StreamReady, StreamError, StreamEnd, ServerReceive, HandleResponse
<1>5. ~Failures
  BY <1>2, <1>3, NoTimeout DEF Failures, StreamFail
<1> QED
  BY <1>3, <1>4, <1>5 DEF Next, Application

LEMMA NextWatch ==
  ASSUME MaxTimeouts = 0
  PROVE  Typed /\ Unopened /\ WatchInv /\ [Next]_vars => WatchInv'
<1> SUFFICES ASSUME Typed, Unopened, WatchInv, [Next]_vars PROVE WatchInv'
  OBVIOUS
<1>1. channel \in {"READY", "CONNECTING"}
  BY DEF Typed, OthersOK
<1>2. CASE UNCHANGED vars
  BY <1>2 DEF vars, WatchInv, network
<1>3. CASE ChannelUp
  BY <1>3 DEF ChannelUp, WatchInv, Watched
<1>4. CASE ChannelDrop
  BY <1>4 DEF ChannelDrop, WatchInv, Watched
<1>5. CASE Next /\ ~ChannelUp /\ ~ChannelDrop
  <2>1. UNCHANGED network
    BY <1>5 DEF Next, Application, AddListener, RemoveListener, CloseEventStream, Failures, StreamFail,
                ReadyTimeout, Answers, ServerReceive, HandleResponse, StreamChanges, StreamReady,
                StreamError, StreamEnd, RunJob, WriteJob, SettledJob, DisconnectJob, CloseJob
  <2>2. CASE ~session.firstConnect
    BY <2>1, <2>2 DEF WatchInv, network
  <2>3. CASE session.firstConnect
    <3>1. PICK t, l, isLite : AddListener(t, l, isLite) \/ RemoveListener(t, l)
      BY <1>5, <2>3, FirstSteps
    <3>2. \E g, steps : Call(t, g, steps)
      BY <3>1 DEF AddListener, RemoveListener
    <3>3. PICK B : \E batch \in Seq(B) : Send(batch, streamPromise, streams, jobs)
      BY <3>2, CallSends
    <3>4. PICK batch \in Seq(B) : Send(batch, streamPromise, streams, jobs)
      BY <3>3
    <3>5. streamPromise # 0 /\ jobs = <<>> /\ \A s \in DOMAIN streams : streams[s].promise = "pending"
      BY <2>3 DEF WatchInv
    <3>6. streamPromise \in DOMAIN streams
      BY <3>5, SomeShape
    <3>7. /\ DOMAIN streams' = DOMAIN streams /\ streamPromise' = streamPromise /\ jobs' = jobs
          /\ \A x \in DOMAIN streams : streams'[x].promise = streams[x].promise
      <4>1. /\ streams \in Seq(SomeStream) /\ jobs \in Seq(SomeJob)
            /\ streamPromise \in 0 .. Len(streams) /\ Len(requests) \in Nat
        BY SomeShape
      <4> QED
        BY Zenon, <3>4, <3>5, <3>6, <4>1, SendKeeps
    <3> QED
      BY <2>1, <3>5, <3>7 DEF WatchInv, network
  <2> QED
    BY <2>2, <2>3
<1> QED
  BY <1>2, <1>3, <1>4, <1>5

----------------------------------------------------------------------------
\* Some job closes the stream.
Closing(js, s) == \E j \in Range(js) : j.do = "close" /\ j.via = s

\* A manager that was marked as closed will close whatever stream it has, and
\* asks for no new one: until it has left the session it is still closing one.
CloseOK(strs, js, att) ==
  /\ \A s \in DOMAIN strs : /\ strs[s].promise = "pending" => Closing(strs[s].waiters, s)
                            /\ strs[s].wire = "open" => Closing(js, s)
  /\ att => ~NoClose(js) \/ \E s \in DOMAIN strs : strs[s].promise = "pending"

CloseInv == markedForClose => released /\ CloseOK(streams, jobs, attached)

\* A manager that was not marked: without a current stream it has no groups to
\* subscribe, or a broken stream is about to have them subscribed; released, it
\* has neither.
LeftOK(strs, js, current, ready, rel, mapped) ==
  /\ rel => current = 0 /\ mapped = {} /\ \A j \in Range(js) : j.do = "disconnect"
  /\ ready => /\ current = 0 => mapped = {} \/ ~NoneBroken(strs)
              /\ \A j \in Range(js) : j.do = "disconnect" =>
                   j.via # 0 /\ strs[j.via].wire \in {"open", "broken"}

LeftInv ==
  ~markedForClose => LeftOK(streams, jobs, streamPromise, channel = "READY", released, Mapped)

ReleaseInv == CloseInv /\ LeftInv

\* A stream that may break, or end.
Fades(str, new) ==
  /\ new.promise = str.promise
  /\ \/ new.wire = str.wire
     \/ str.wire \in {"open", "ended"} /\ new.wire = "broken"
     \/ str.wire = "ended" /\ new.wire = "dead"
  /\ Range(str.waiters) \subseteq Range(new.waiters)

Fade(strs, new) == DOMAIN new = DOMAIN strs /\ \A x \in DOMAIN strs : Fades(strs[x], new[x])

\* What waits to be closed is closed still.
LEMMA CloseKept ==
  ASSUME NEW strs, NEW new, NEW js, NEW queue, NEW att, CloseOK(strs, js, att), Fade(strs, new),
         \A j \in Range(js) : j.do = "close" => j \in Range(queue)
  PROVE  CloseOK(new, queue, att)
<1>1. \A s : Closing(js, s) => Closing(queue, s)
  BY DEF Closing
<1>2. \A s \in DOMAIN strs : Closing(strs[s].waiters, s) => Closing(new[s].waiters, s)
  BY DEF Closing, Fade, Fades
<1>3. ~NoClose(js) => ~NoClose(queue)
  BY DEF NoClose
<1>4. /\ DOMAIN new = DOMAIN strs
      /\ \A x \in DOMAIN strs : /\ new[x].promise = strs[x].promise
                                /\ new[x].wire = "open" => strs[x].wire = "open"
  BY DEF Fade, Fades
<1> QED
  BY <1>1, <1>2, <1>3, <1>4 DEF CloseOK

LEMMA LeftKept ==
  ASSUME NEW strs, NEW new, NEW js, NEW queue, NEW current, NEW ready, NEW rel, NEW mapped,
         LeftOK(strs, js, current, ready, rel, mapped), Fade(strs, new), Unended(strs),
         JobsFit(js, current, strs), Range(queue) \subseteq Range(js)
  PROVE  LeftOK(new, queue, current, ready, rel, mapped)
<1>1. ~NoneBroken(strs) => ~NoneBroken(new)
  BY DEF Fade, Fades, NoneBroken
<1>2. ASSUME NEW j \in Range(queue), j.do = "disconnect", ready
      PROVE  j.via # 0 /\ new[j.via].wire \in {"open", "broken"}
  <2>1. j.via # 0 /\ strs[j.via].wire \in {"open", "broken"} /\ j.via \in DOMAIN strs
    BY <1>2 DEF LeftOK, JobsFit
  <2>2. Fades(strs[j.via], new[j.via])
    BY <2>1 DEF Fade
  <2> QED
    BY <2>1, <2>2 DEF Fades
<1> QED
  BY <1>1, <1>2 DEF LeftOK

\* A step that lets streams fade and leaves the rest as it is.
LEMMA FadingRelease ==
  ASSUME UsableInv, OneInv, ReleaseInv, Fade(streams, streams'),
         UNCHANGED <<streamPromise, registry, network, lifecycle>>,
         Range(jobs') \subseteq Range(jobs),
         \A j \in Range(jobs) : j.do = "close" => j \in Range(jobs')
  PROVE  ReleaseInv'
<1>1. /\ markedForClose' = markedForClose /\ released' = released /\ attached' = attached
      /\ channel' = channel /\ streamPromise' = streamPromise /\ Mapped' = Mapped
  BY DEF network, lifecycle, registry, Mapped
<1>2. CloseInv'
  BY <1>1, CloseKept DEF ReleaseInv, CloseInv
<1>3. ASSUME ~markedForClose PROVE LeftOK(streams', jobs', streamPromise, channel = "READY", released, Mapped)
  <2>1. Unended(streams) /\ JobsFit(jobs, streamPromise, streams)
        /\ LeftOK(streams, jobs, streamPromise, channel = "READY", released, Mapped)
    BY <1>3 DEF UsableInv, Serviceable, OneInv, ReleaseInv, LeftInv
  <2> QED
    BY <2>1, LeftKept
<1> QED
  BY <1>1, <1>2, <1>3 DEF ReleaseInv, LeftInv

\* The job that runs is gone; the others are still there.
LEMMA JobsBehind ==
  ASSUME Typed, jobs # <<>>
  PROVE  /\ Range(Tail(jobs)) \subseteq Range(jobs) /\ Head(jobs) \in Range(jobs)
         /\ \A j \in Range(jobs) : j # Head(jobs) => j \in Range(Tail(jobs))
  BY SomeShape, RangeOfTail

LEMMA OneFades ==
  ASSUME NEW strs \in Seq(SomeStream), NEW s \in 1 .. Len(strs), NEW new \in SomeStream,
         Fades(strs[s], new)
  PROVE  Fade(strs, [strs EXCEPT ![s] = new])
<1>1. DOMAIN strs = 1 .. Len(strs)
  BY LenProperties
<1> QED
  BY <1>1, OneReplaced DEF Fade, Fades

LEMMA BrokenFades ==
  ASSUME NEW str \in SomeStream
  PROVE  Broken(str) \in SomeStream /\ Fades(str, Broken(str))
  BY BrokenIs DEF Fades

LEMMA WriteJobRelease ==
  ASSUME Typed, UsableInv, OneInv, ReleaseInv, jobs # <<>>, WriteJob(Head(jobs))
  PROVE  ReleaseInv'
<1> DEFINE job == Head(jobs)
           v   == job.via
           new == [streams[v] EXCEPT !.toServer = Append(@, job.uid)]
<1>1. /\ streams \in Seq(SomeStream) /\ DOMAIN streams = 1 .. Len(streams) /\ job \in SomeJob
      /\ \A x \in DOMAIN streams : streams[x] \in SomeStream
      /\ job \in Range(jobs) /\ jobs \in Seq(SomeJob)
  BY SomeShape, RangeOfTail
<1>2. job.do = "write" /\ UNCHANGED <<streamPromise, registry, network, lifecycle>>
  BY DEF WriteJob
<1>3. v \in DOMAIN streams /\ streams[v].promise = "stream"
  BY <1>1, <1>2 DEF OneInv, JobsFit
<1>4. jobs' = Tail(jobs) /\ (streams' = streams \/ streams' = [streams EXCEPT ![v] = new])
  BY <1>3 DEF WriteJob
<1>5. Fade(streams, streams')
  <2>1. CASE streams' = streams
    BY <2>1 DEF Fade, Fades
  <2>2. CASE streams' = [streams EXCEPT ![v] = new]
    <3>1. streams[v] \in SomeStream /\ job.uid \in Nat
      BY <1>1, <1>3 DEF SomeJob
    <3>2. new \in SomeStream /\ new.wire = streams[v].wire /\ new.promise = streams[v].promise
          /\ new.waiters = streams[v].waiters
      BY <3>1, StreamWritten
    <3> HIDE DEF new
    <3>3. Fades(streams[v], new)
      BY <3>2 DEF Fades
    <3> QED
      BY <1>1, <1>3, <2>2, <3>2, <3>3, OneFades
  <2> QED
    BY <1>4, <2>1, <2>2
<1>6. /\ Range(jobs') \subseteq Range(jobs)
      /\ \A j \in Range(jobs) : j.do = "close" => j \in Range(jobs')
  BY <1>2, <1>4, JobsBehind
<1> QED
  BY <1>2, <1>5, <1>6, FadingRelease

LEMMA ServerReceiveRelease ==
  ASSUME Typed, UsableInv, OneInv, ReleaseInv, NEW s \in DOMAIN streams, ServerReceive(s)
  PROVE  ReleaseInv'
<1>1. UNCHANGED <<streamPromise, jobs, registry, network, lifecycle>>
  BY DEF ServerReceive
<1>2. Fade(streams, streams')
  <2>1. DOMAIN streams = 1 .. Len(streams) /\ \A x \in DOMAIN streams : streams[x] \in SomeStream
    BY SomeShape
  <2>2. /\ DOMAIN streams' = DOMAIN streams
        /\ \A x \in DOMAIN streams : /\ streams'[x].promise = streams[x].promise
                                     /\ streams'[x].wire = streams[x].wire
                                     /\ streams'[x].waiters = streams[x].waiters
    BY <2>1 DEF ServerReceive, SomeStream
  <2> QED
    BY <2>2 DEF Fade, Fades
<1> QED
  BY <1>1, <1>2, FadingRelease

LEMMA StreamFailRelease ==
  ASSUME Typed, UsableInv, OneInv, ReleaseInv, NEW s \in DOMAIN streams,
         StreamFail(s) \/ StreamEnd(s)
  PROVE  ReleaseInv'
<1>1. UNCHANGED <<streamPromise, jobs, registry, network, lifecycle>>
  BY DEF StreamFail, StreamEnd
<1>2. streams \in Seq(SomeStream) /\ DOMAIN streams = 1 .. Len(streams) /\ streams[s] \in SomeStream
  BY SomeShape
<1>3. CASE StreamFail(s)
  <2>1. streams' = [streams EXCEPT ![s] = Broken(streams[s])]
    BY <1>3 DEF StreamFail
  <2>2. Fade(streams, streams')
    BY <1>2, <2>1, BrokenFades, OneFades
  <2> QED
    BY <1>1, <2>2, FadingRelease
<1>4. CASE StreamEnd(s)
  <2> DEFINE new == [streams[s] EXCEPT !.wire = "dead", !.subs = NoSubscriptions]
  <2>1. streams' = [streams EXCEPT ![s] = new] /\ streams[s].wire = "ended"
    BY <1>4 DEF StreamEnd
  <2>2. NoSubscriptions \in [Targets -> Nat]
    BY DEF NoSubscriptions
  <2>3. new \in SomeStream /\ Fades(streams[s], new)
    BY <1>2, <2>1, <2>2 DEF SomeStream, Fades
  <2> HIDE DEF new
  <2>4. Fade(streams, streams')
    BY <1>2, <2>1, <2>3, OneFades
  <2> QED
    BY <1>1, <2>4, FadingRelease
<1> QED
  BY <1>3, <1>4

\* The stream that onDisconnect awaited breaks, and there is no current one.
LEMMA DisconnectJobRelease ==
  ASSUME Typed, UsableInv, OneInv, ReleaseInv, jobs # <<>>, DisconnectJob(Head(jobs))
  PROVE  ReleaseInv'
<1> DEFINE job == Head(jobs)
           v   == job.via
<1>1. /\ streams \in Seq(SomeStream) /\ DOMAIN streams = 1 .. Len(streams)
      /\ \A x \in DOMAIN streams : streams[x] \in SomeStream
      /\ job \in Range(jobs) /\ Range(Tail(jobs)) \subseteq Range(jobs)
      /\ \A j \in Range(jobs) : j.do = "close" => j \in Range(Tail(jobs))
      /\ job.do = "disconnect" /\ streamPromise' = 0 /\ jobs' = Tail(jobs)
  BY SomeShape, JobsBehind DEF DisconnectJob
<1>2. /\ markedForClose' = markedForClose /\ released' = released /\ attached' = attached
      /\ channel' = channel /\ Mapped' = Mapped
  BY DEF DisconnectJob, network, lifecycle, registry, Mapped
<1>3. v # 0 => v \in DOMAIN streams /\ streams[v].promise = "stream"
  BY <1>1 DEF OneInv, JobsFit
<1>4. streams' = IF v # 0 THEN [streams EXCEPT ![v] = Broken(streams[v])] ELSE streams
  BY <1>3 DEF DisconnectJob
<1>5. Fade(streams, streams')
  <2>1. CASE v = 0
    BY <1>4, <2>1 DEF Fade, Fades
  <2>2. CASE v # 0
    BY <1>1, <1>3, <1>4, <2>2, BrokenFades, OneFades
  <2> QED
    BY <2>1, <2>2
<1>6. CloseInv'
  BY <1>1, <1>2, <1>5, CloseKept DEF ReleaseInv, CloseInv
<1>7. ASSUME ~markedForClose PROVE LeftOK(streams', jobs', 0, channel = "READY", released, Mapped)
  <2>1. Unended(streams) /\ JobsFit(jobs, streamPromise, streams)
        /\ LeftOK(streams, jobs, streamPromise, channel = "READY", released, Mapped)
    BY <1>7 DEF UsableInv, Serviceable, OneInv, ReleaseInv, LeftInv
  <2>2. LeftOK(streams', jobs', streamPromise, channel = "READY", released, Mapped)
    BY <1>1, <1>5, <2>1, LeftKept
  <2>3. ASSUME channel = "READY" PROVE ~NoneBroken(streams')
    <3>1. v # 0 /\ streams[v].wire \in {"open", "broken"}
      BY <1>1, <2>1, <2>3 DEF LeftOK
    <3>2. v \in DOMAIN streams' /\ streams'[v].wire = "broken"
      BY <1>1, <1>3, <1>4, <3>1, BrokenIs, OneReplaced
    <3> QED
      BY <3>2 DEF NoneBroken
  <2> QED
    BY <2>2, <2>3 DEF LeftOK
<1> QED
  BY <1>1, <1>2, <1>6, <1>7 DEF ReleaseInv, LeftInv

\* The manager leaves the session and half-closes its stream.
LEMMA CloseJobRelease ==
  ASSUME Typed, UsableInv, OneInv, ReleaseInv, jobs # <<>>, CloseJob(Head(jobs))
  PROVE  ReleaseInv'
<1> DEFINE job == Head(jobs)
           v   == job.via
           new == [streams[v] EXCEPT !.wire = "ended"]
<1>1. /\ streams \in Seq(SomeStream) /\ DOMAIN streams = 1 .. Len(streams)
      /\ \A x \in DOMAIN streams : streams[x] \in SomeStream
      /\ job \in Range(jobs)
      /\ \A j \in Range(jobs) : j # job => j \in Range(Tail(jobs))
      /\ job.do = "close" /\ jobs' = Tail(jobs)
  BY SomeShape, JobsBehind DEF CloseJob
<1>2. /\ markedForClose' = markedForClose /\ released' = released /\ attached' = FALSE
  BY DEF CloseJob
<1>3. markedForClose
  BY <1>1 DEF UsableInv, Serviceable, NoClose
<1>4. v \in DOMAIN streams /\ streams[v].promise = "stream"
  BY <1>1 DEF OneInv, JobsFit
<1>5. streams' = IF streams[v].wire = "open" THEN [streams EXCEPT ![v] = new] ELSE streams
  BY <1>4 DEF CloseJob
<1>6. new \in SomeStream /\ new.wire = "ended" /\ new.promise = "stream"
  <2>1. streams[v] \in SomeStream
    BY <1>1, <1>4
  <2> QED
    BY <1>4, <2>1, StreamEnded
<1> HIDE DEF new
<1>7. /\ DOMAIN streams' = DOMAIN streams
      /\ \A x \in DOMAIN streams : x # v => streams'[x] = streams[x]
      /\ streams'[v].wire # "open" /\ streams'[v].promise = "stream"
  <2>1. CASE streams[v].wire = "open"
    BY <1>1, <1>4, <1>5, <1>6, <2>1, OneReplaced
  <2>2. CASE streams[v].wire # "open"
    BY <1>4, <1>5, <2>2
  <2> QED
    BY <2>1, <2>2
<1>8. ASSUME NEW x \in DOMAIN streams
      PROVE  /\ streams'[x].promise = "pending" => Closing(streams'[x].waiters, x)
             /\ streams'[x].wire = "open" => Closing(jobs', x)
  <2>1. /\ streams[x].promise = "pending" => Closing(streams[x].waiters, x)
        /\ streams[x].wire = "open" => Closing(jobs, x)
    BY <1>3 DEF ReleaseInv, CloseInv, CloseOK
  <2>2. x # v /\ Closing(jobs, x) => Closing(jobs', x)
    BY <1>1 DEF Closing
  <2> QED
    BY <1>7, <2>1, <2>2
<1>9. CloseOK(streams', jobs', FALSE)
  BY <1>7, <1>8 DEF CloseOK
<1>10. released
  BY <1>3 DEF ReleaseInv, CloseInv
<1> QED
  BY <1>2, <1>3, <1>9, <1>10 DEF ReleaseInv, CloseInv, LeftInv

\* A batch, behind the jobs that are left, through the current stream.
LEMMA SendCloses ==
  ASSUME Typed, NEW B, NEW batch \in Seq(B), NEW queue \in Seq(SomeJob),
         Send(batch, streamPromise, streams, queue), streamPromise # 0 \/ batch = <<>>,
         CloseOK(streams, queue, attached)
  PROVE  CloseOK(streams', jobs', attached)
<1>1. /\ streams \in Seq(SomeStream) /\ streamPromise \in 0 .. Len(streams) /\ Len(requests) \in Nat
  BY SomeShape
<1>2. /\ DOMAIN streams' = DOMAIN streams
      /\ \A x \in DOMAIN streams : /\ streams'[x].promise = streams[x].promise
                                   /\ streams'[x].wire = streams[x].wire
                                   /\ Range(streams[x].waiters) \subseteq Range(streams'[x].waiters)
      /\ Range(queue) \subseteq Range(jobs')
  BY <1>1, SendKeeps
<1>3. Fade(streams, streams')
  BY <1>2 DEF Fade, Fades
<1> QED
  BY <1>2, <1>3, CloseKept

\* A call goes on with its next request or ends; its answer came through the
\* current stream, which stays.
LEMMA SettledJobRelease ==
  ASSUME Typed, UsableInv, OneInv, ReleaseInv, jobs # <<>>, SettledJob(Head(jobs))
  PROVE  ReleaseInv'
<1> DEFINE job == Head(jobs)
           r   == requests[job.uid]
           req == Request(r.group, r.rest, r.call)
<1>1. /\ Tail(jobs) \in Seq(SomeJob) /\ job \in Range(jobs) /\ job.do = "settled"
      /\ streams \in Seq(SomeStream) /\ streamPromise \in 0 .. Len(streams) /\ Len(requests) \in Nat
  BY SomeShape, RangeOfTail DEF SettledJob
<1>2. Range(Tail(jobs)) \subseteq Range(jobs) /\ \A j \in Range(jobs) : j # job => j \in Range(Tail(jobs))
  BY JobsBehind
<1>3. streamPromise # 0 /\ ~Drops(jobs)
  BY <1>1 DEF OneInv, JobsFit, Settles
<1>4. PICK B : \E batch \in Seq(B) : Send(batch, streamPromise, streams, Tail(jobs))
  <2>1. Send(<<req>>, streamPromise, streams, Tail(jobs)) \/ Send(<<>>, streamPromise, streams, Tail(jobs))
    BY DEF SettledJob
  <2> HIDE DEF req
  <2>2. <<req>> \in Seq({req}) /\ <<>> \in Seq({req})
    OBVIOUS
  <2> QED
    BY <2>1, <2>2
<1>5. PICK batch \in Seq(B) : Send(batch, streamPromise, streams, Tail(jobs))
  BY <1>4
<1>6. /\ streamPromise' = streamPromise
      /\ \A j \in Range(jobs') : j \in Range(Tail(jobs)) \/ j.do = "write"
  <2>1. /\ \A j \in Range(jobs') : j \in Range(Tail(jobs)) \/ j.do = "write"
        /\ streamPromise # 0 \/ batch = <<>> => DOMAIN streams' = DOMAIN streams /\ streamPromise' = streamPromise
    <3>1. Tail(jobs) \in Seq(SomeJob) /\ streams \in Seq(SomeStream)
          /\ streamPromise \in 0 .. Len(streams) /\ Len(requests) \in Nat
      BY <1>1
    <3> QED
      BY Zenon, <1>5, <3>1, SendKeeps
  <2> QED
    BY <1>3, <2>1
<1>7. /\ markedForClose' = markedForClose /\ released' = released /\ attached' = attached
      /\ channel' = channel
  BY DEF SettledJob, network, lifecycle
<1>8. ASSUME markedForClose PROVE CloseOK(streams', jobs', attached)
  <2>1. CloseOK(streams, jobs, attached)
    BY <1>8 DEF ReleaseInv, CloseInv
  <2>2. Fade(streams, streams)
    BY DEF Fade, Fades
  <2>3. CloseOK(streams, Tail(jobs), attached)
    BY <1>1, <1>2, <2>1, <2>2, CloseKept
  <2> QED
    BY <1>1, <1>3, <1>5, <2>3, SendCloses
<1>9. ASSUME ~markedForClose
      PROVE  ~released /\ \A m : LeftOK(streams', jobs', streamPromise, channel = "READY", FALSE, m)
  <2>1. ~released
    BY <1>1, <1>9 DEF ReleaseInv, LeftInv, LeftOK
  <2>2. \A j \in Range(jobs') : j.do # "disconnect"
    BY <1>2, <1>3, <1>6 DEF Drops
  <2> QED
    BY <1>3, <2>1, <2>2 DEF LeftOK
<1>10. CloseInv'
  BY <1>7, <1>8 DEF ReleaseInv, CloseInv
<1>11. LeftInv'
  BY <1>6, <1>7, <1>9 DEF LeftInv, LeftOK
<1> QED
  BY <1>10, <1>11 DEF ReleaseInv

\* The stream is there: what waited for it, the end of closeEventStream
\* included, is to run.
LEMMA StreamReadyRelease ==
  ASSUME Prompt, Typed, UsableInv, OneInv, ReleaseInv, NEW s \in DOMAIN streams, StreamReady(s)
  PROVE  ReleaseInv'
<1> DEFINE new == [streams[s] EXCEPT !.promise = "stream", !.wire = "open", !.waiters = <<>>]
<1>1. /\ streams \in Seq(SomeStream) /\ DOMAIN streams = 1 .. Len(streams)
      /\ streams[s] \in SomeStream /\ streamPromise \in 0 .. Len(streams) /\ s # 0
  BY SomeShape
<1>2. /\ jobs' = streams[s].waiters /\ streams' = [streams EXCEPT ![s] = new]
      /\ streamPromise' = streamPromise /\ streams[s].promise = "pending"
      /\ jobs = <<>>
  BY DEF StreamReady, MayRun
<1>3. /\ markedForClose' = markedForClose /\ released' = released /\ attached' = attached
      /\ channel' = channel /\ Mapped' = Mapped
  BY DEF StreamReady, network, lifecycle, registry, Mapped
<1>4. new \in SomeStream /\ new.promise = "stream" /\ new.wire = "open"
  <2>1. <<>> \in Seq(SomeJob)
    OBVIOUS
  <2> QED
    BY <1>1, <2>1 DEF SomeStream
<1> HIDE DEF new
<1>5. /\ DOMAIN streams' = DOMAIN streams /\ streams'[s] = new
      /\ \A x \in DOMAIN streams : x # s => streams'[x] = streams[x]
  BY <1>1, <1>2, <1>4, OneReplaced
<1>6. FitStream(streams[s]) /\ Waiting(streams[s].waiters, s)
  BY DEF OneInv, OneStream
<1>7. streams[s].wire = "none"
  BY <1>2, <1>6 DEF FitStream
<1>8. s = streamPromise /\ \A x \in DOMAIN streams : x # s => streams[x].wire = "dead"
  BY <1>7, OthersDead DEF OneInv, OneStream, Living
<1>9. \A x \in DOMAIN streams : x # s => streams[x].promise # "pending"
  BY <1>8 DEF OneInv, OneStream, FitStream
<1>10. ASSUME markedForClose PROVE CloseOK(streams', jobs', attached)
  <2>1. Closing(jobs', s)
    BY <1>2, <1>10 DEF ReleaseInv, CloseInv, CloseOK
  <2>2. ~NoClose(jobs')
    BY <2>1 DEF Closing, NoClose
  <2> QED
    BY <1>4, <1>5, <1>8, <1>9, <2>1, <2>2 DEF CloseOK
<1>11. ASSUME ~markedForClose
      PROVE LeftOK(streams', jobs', streamPromise, channel = "READY", released, Mapped)
  <2>1. ~released
    BY <1>1, <1>8, <1>11 DEF ReleaseInv, LeftInv, LeftOK
  <2>2. \A j \in Range(jobs') : j.via = s
    BY <1>2, <1>6 DEF Waiting
  <2> QED
    BY <1>1, <1>4, <1>5, <1>8, <2>1, <2>2 DEF LeftOK
<1> QED
  BY <1>2, <1>3, <1>10, <1>11 DEF ReleaseInv, CloseInv, LeftInv

LEMMA HandleResponseRelease ==
  ASSUME Prompt, Typed, UsableInv, OneInv, ReleaseInv, NEW s \in DOMAIN streams, HandleResponse(s)
  PROVE  ReleaseInv'
<1>1. /\ \A x \in DOMAIN streams : streams[x] \in SomeStream
      /\ DOMAIN streams = 1 .. Len(streams) /\ jobs \in Seq(SomeJob) /\ s # 0
  BY SomeShape
<1>2. /\ streams[s].toClient # <<>> /\ jobs = <<>> /\ streamPromise' = streamPromise
      /\ \E uid : jobs' = <<>> \/ jobs' = <<Job("settled", uid, 0)>>
  BY DEF HandleResponse, MayRun
<1>3. /\ markedForClose' = markedForClose /\ released' = released /\ attached' = attached
      /\ channel' = channel /\ Mapped' = Mapped
  BY DEF HandleResponse, network, lifecycle, registry, Mapped
<1>4. \A j \in Range(jobs') : j.do = "settled"
  BY <1>2 DEF Range, Job
<1>5. Fade(streams, streams')
  <2>1. /\ DOMAIN streams' = DOMAIN streams
        /\ \A x \in DOMAIN streams : /\ streams'[x].promise = streams[x].promise
                                     /\ streams'[x].wire = streams[x].wire
                                     /\ streams'[x].waiters = streams[x].waiters
    BY <1>1 DEF HandleResponse, SomeStream
  <2> QED
    BY <2>1 DEF Fade, Fades
<1>6. s = streamPromise
  <2>1. FitStream(streams[s]) /\ (streams[s].wire \in Living => s = streamPromise)
    BY DEF OneInv, OneStream
  <2> QED
    BY <1>2, <2>1 DEF FitStream, Silent, Living
<1>7. ASSUME markedForClose PROVE CloseOK(streams', jobs', attached)
  <2>1. CloseOK(streams, jobs, attached) /\ \A j \in Range(jobs) : j.do # "close"
    BY <1>2, <1>7 DEF ReleaseInv, CloseInv, Range
  <2> QED
    BY <1>5, <2>1, CloseKept
<1>8. ASSUME ~markedForClose
      PROVE LeftOK(streams', jobs', streamPromise, channel = "READY", released, Mapped)
  <2>1. ~released
    BY <1>1, <1>6, <1>8 DEF ReleaseInv, LeftInv, LeftOK
  <2> QED
    BY <1>1, <1>4, <1>6, <2>1 DEF LeftOK
<1> QED
  BY <1>2, <1>3, <1>7, <1>8 DEF ReleaseInv, CloseInv, LeftInv

\* Continuations only wait.
LEMMA AwaitingFades ==
  ASSUME NEW strs \in Seq(SomeStream), NEW s \in 1 .. Len(strs), NEW js \in Seq(SomeJob),
         NEW queue \in Seq(SomeJob), Awaiting(s, js, strs, queue), NEW base, Fade(base, strs)
  PROVE  Fade(base, streams') /\ Range(queue) \subseteq Range(jobs')
<1>1. /\ DOMAIN streams' = 1 .. Len(strs)
      /\ \A x \in 1 .. Len(strs) : SameButWaiters(strs[x], streams'[x])
      /\ \A x \in 1 .. Len(strs) :
           streams'[x].waiters = IF x = s /\ strs[s].promise = "pending"
                                 THEN strs[s].waiters \o js ELSE strs[x].waiters
      /\ jobs' = IF strs[s].promise = "pending" THEN queue ELSE queue \o js
  BY AwaitingDoes
<1>2. DOMAIN strs = 1 .. Len(strs) /\ strs[s] \in SomeStream
  BY LenProperties, ElementOfSeq
<1>3. /\ Range(strs[s].waiters \o js) = Range(strs[s].waiters) \cup Range(js)
      /\ Range(queue \o js) = Range(queue) \cup Range(js)
  <2>1. strs[s].waiters \in Seq(SomeJob)
    BY <1>2 DEF SomeStream
  <2> QED
    BY <2>1, RangeConcatenation
<1>4. \A x \in DOMAIN strs : Range(strs[x].waiters) \subseteq Range(streams'[x].waiters)
  BY <1>1, <1>2, <1>3
<1>5. ASSUME NEW x \in DOMAIN base PROVE Fades(base[x], streams'[x])
  <2>1. x \in DOMAIN strs /\ Fades(base[x], strs[x])
    BY <1>5 DEF Fade
  <2>2. streams'[x].promise = strs[x].promise /\ streams'[x].wire = strs[x].wire
    BY <1>1, <1>2, <2>1 DEF SameButWaiters
  <2> QED
    BY <1>4, <2>1, <2>2 DEF Fades
<1>6. Fade(base, streams')
  BY <1>1, <1>2, <1>5 DEF Fade
<1> QED
  BY <1>1, <1>3, <1>6

LEMMA ChannelDropRelease ==
  ASSUME Prompt, Typed, UsableInv, OneInv, ReleaseInv, ChannelDrop
  PROVE  ReleaseInv'
<1> DEFINE job  == Job("disconnect", 0, streamPromise)
           wait == <<job>>
<1>1. /\ AllBroken \in Seq(SomeStream) /\ Len(AllBroken) = Len(streams)
      /\ streamPromise \in 0 .. Len(streams) /\ Len(streams) \in Nat /\ jobs \in Seq(SomeJob)
  BY SomeShape, AllBrokenIs
<1>2. /\ jobs = <<>> /\ streamPromise' = streamPromise /\ channel' = "CONNECTING"
      /\ \/ streams' = AllBroken /\ jobs' = jobs
         \/ streamPromise = 0 /\ streams' = AllBroken /\ jobs' = wait
         \/ streamPromise # 0 /\ Awaiting(streamPromise, wait, AllBroken, jobs)
  BY DEF ChannelDrop, MayRun, AllBroken
<1>3. /\ markedForClose' = markedForClose /\ released' = released /\ attached' = attached
      /\ Mapped' = Mapped
  BY DEF ChannelDrop, lifecycle, registry, Mapped
<1>4. job \in SomeJob /\ job.do = "disconnect"
  BY <1>1 DEF Job, SomeJob
<1> HIDE DEF job
<1>5. wait \in Seq(SomeJob) /\ Range(wait) = {job}
  BY <1>1, <1>4, RangeOfFew
<1> HIDE DEF wait
<1>6. Fade(streams, AllBroken)
  BY SomeShape, AllBrokenIs, BrokenFades DEF Fade
<1>7. Fade(streams, streams')
  <2>1. CASE streams' = AllBroken
    BY <1>6, <2>1
  <2>2. CASE streamPromise # 0 /\ Awaiting(streamPromise, wait, AllBroken, jobs)
    <3>1. streamPromise \in 1 .. Len(AllBroken)
      BY <1>1, <2>2
    <3> QED
      BY <1>1, <1>5, <1>6, <2>2, <3>1, AwaitingFades
  <2> QED
    BY <1>2, <2>1, <2>2
<1>8. ASSUME markedForClose PROVE CloseOK(streams', jobs', attached)
  <2>1. CloseOK(streams, jobs, attached) /\ \A j \in Range(jobs) : j.do # "close"
    BY <1>2, <1>8 DEF ReleaseInv, CloseInv, Range
  <2> QED
    BY <1>7, <2>1, CloseKept
<1>9. ASSUME ~markedForClose
      PROVE LeftOK(streams', jobs', streamPromise, FALSE, released, Mapped)
  <2>1. CASE ~released
    BY <2>1 DEF LeftOK
  <2>2. CASE released
    <3>1. streamPromise = 0 /\ Mapped = {} /\ \A j \in Range(jobs) : j.do = "disconnect"
      BY <1>9, <2>2 DEF ReleaseInv, LeftInv, LeftOK
    <3>2. \A j \in Range(jobs') : j.do = "disconnect"
      BY <1>2, <1>4, <1>5, <3>1
    <3> QED
      BY <3>1, <3>2 DEF LeftOK
  <2> QED
    BY <2>1, <2>2
<1>10. channel' # "READY"
  BY <1>2
<1> QED
  BY <1>2, <1>3, <1>8, <1>9, <1>10 DEF ReleaseInv, CloseInv, LeftInv

\* Every group is subscribed anew, so nothing is sent only if there is none.
LEMMA OrdersEmpty ==
  ASSUME Typed, NEW order \in Orders
  PROVE  Resubscriptions(order) = <<>> <=> Mapped = {}
<1>1. IsFiniteSet(Mapped)
  <2>1. Len(groups) \in Nat /\ Mapped \subseteq 1 .. Len(groups)
    BY Lengths DEF Typed, Mapped
  <2>2. IsFiniteSet(1 .. Len(groups))
    BY <2>1, FS_Interval
  <2> QED
    BY <2>1, <2>2, FS_Subset
<1>2. Cardinality(Mapped) \in Nat /\ (Cardinality(Mapped) = 0 <=> Mapped = {})
  BY <1>1, FS_CardinalityType, FS_EmptySet
<1>3. Resubscriptions(order) \in Seq(RequestSet(Len(groups)))
  BY ResubscriptionsType DEF Typed
<1>4. DOMAIN Resubscriptions(order) = 1 .. Cardinality(Mapped)
  BY DEF Resubscriptions, Orders
<1>5. Len(Resubscriptions(order)) = Cardinality(Mapped)
  BY <1>2, <1>3, <1>4, LenProperties
<1> QED
  BY <1>2, <1>3, <1>5, EmptySeq

\* On a ready channel, a manager that has a stream or no groups is all right.
LEMMA SentLeft ==
  ASSUME Typed, NEW B, NEW batch \in Seq(B), NEW strs \in Seq(SomeStream),
         NEW current \in 0 .. Len(strs), Range(jobs) = {}, Send(batch, current, strs, jobs),
         NEW rel, rel => current = 0 /\ batch = <<>>,
         NEW mapped, rel => mapped = {},
         NEW ready, ready => (current = 0 /\ batch = <<>> => mapped = {})
  PROVE  LeftOK(streams', jobs', streamPromise', ready, rel, mapped)
<1>1. jobs \in Seq(SomeJob) /\ Len(requests) \in Nat
  BY SomeShape
<1>2. /\ \A j \in Range(jobs') : j.do = "write"
      /\ current # 0 \/ batch = <<>> => streamPromise' = current
      /\ batch # <<>> => streamPromise' # 0
  <2>1. /\ \A j \in Range(jobs') : j \in Range(jobs) \/ j.do = "write"
        /\ current # 0 \/ batch = <<>> => streamPromise' = current
        /\ batch # <<>> => streamPromise' # 0
    BY <1>1, SendKeeps
  <2> QED
    BY <1>1, <2>1
<1>3. ASSUME batch = <<>> PROVE jobs' = jobs
  BY <1>3 DEF Send
<1> QED
  BY <1>1, <1>2, <1>3 DEF LeftOK

LEMMA ChannelUpRelease ==
  ASSUME Prompt, Typed, UsableInv, OneInv, WatchInv, ReleaseInv, ChannelUp
  PROVE  ReleaseInv'
<1>0. Range(jobs) = {}
  BY DEF ChannelUp, MayRun, Range
<1>1. /\ jobs = <<>> /\ channel = "CONNECTING" /\ channel' = "READY"
      /\ markedForClose' = markedForClose /\ released' = released /\ attached' = attached
      /\ Mapped' = Mapped
  BY DEF ChannelUp, MayRun, lifecycle, registry, Mapped
<1>2. streams \in Seq(SomeStream) /\ streamPromise \in 0 .. Len(streams) /\ jobs \in Seq(SomeJob)
      /\ DOMAIN streams = 1 .. Len(streams)
  BY SomeShape
<1>3. ~session.connected
  BY <1>1 DEF WatchInv
<1> DEFINE again == Emits(session, TRUE) = "RECONNECTED" /\ attached
<1>4. PICK batch \in Seq(RequestSet(Len(groups))) :
        /\ Send(batch, streamPromise, streams, jobs)
        /\ IF again THEN batch = <<>> <=> Mapped = {} ELSE batch = <<>>
  <2>1. <<>> \in Seq(RequestSet(Len(groups)))
    OBVIOUS
  <2>2. \A order \in Orders : /\ Resubscriptions(order) \in Seq(RequestSet(Len(groups)))
                              /\ Resubscriptions(order) = <<>> <=> Mapped = {}
    BY ResubscriptionsType, OrdersEmpty DEF Typed
  <2> QED
    BY <2>1, <2>2 DEF ChannelUp
<1>5. ASSUME markedForClose PROVE CloseOK(streams', jobs', attached)
  <2>1. CloseOK(streams, jobs, attached) /\ NoClose(jobs)
    BY <1>1, <1>5 DEF ReleaseInv, CloseInv, NoClose, Range
  <2>2. ASSUME attached PROVE streamPromise # 0
    <3>1. PICK s \in DOMAIN streams : streams[s].promise = "pending"
      BY <2>1, <2>2 DEF CloseOK
    <3>2. streams[s].wire = "none"
      BY <3>1 DEF OneInv, OneStream, FitStream
    <3> QED
      BY <1>2, <3>2 DEF OneInv, OneStream, Living
  <2>3. streamPromise # 0 \/ batch = <<>>
    BY <1>4, <2>2
  <2> QED
    BY <1>2, <1>4, <2>1, <2>3, SendCloses
<1>6. ASSUME ~markedForClose
      PROVE LeftOK(streams', jobs', streamPromise', TRUE, released, Mapped)
  <2>1. attached
    BY <1>6 DEF UsableInv
  <2>2. released => streamPromise = 0 /\ Mapped = {}
    BY <1>6 DEF ReleaseInv, LeftInv, LeftOK
  <2>3. streamPromise = 0 => again
    BY <1>3, <2>1 DEF WatchInv, Emits
  <2> HIDE DEF again
  <2> QED
    BY <1>0, <1>1, <1>2, <1>4, <2>2, <2>3, SentLeft
<1> QED
  BY <1>1, <1>5, <1>6 DEF ReleaseInv, CloseInv, LeftInv

LEMMA StreamErrorRelease ==
  ASSUME Typed, UsableInv, OneInv, ReleaseInv, NEW s \in DOMAIN streams, StreamError(s)
  PROVE  ReleaseInv'
<1>0. Range(jobs) = {}
  BY DEF StreamError, Range
<1>1. /\ jobs = <<>> /\ streams[s].wire = "broken"
      /\ markedForClose' = markedForClose /\ released' = released /\ attached' = attached
      /\ Mapped' = Mapped /\ channel' = channel
  BY DEF StreamError, network, lifecycle, registry, Mapped
<1>2. /\ streamPromise \in 0 .. Len(streams) /\ Len(streams) \in Nat /\ jobs \in Seq(SomeJob)
  BY SomeShape
<1>3. Reported(s) \in Seq(SomeStream) /\ Len(Reported(s)) = Len(streams) /\ DOMAIN Reported(s) = DOMAIN streams
  BY ReportedIs
<1>4. ASSUME markedForClose PROVE CloseOK(streams', jobs', attached)
  <2>1. CloseOK(streams, jobs, attached) /\ NoClose(jobs)
    BY <1>1, <1>4 DEF ReleaseInv, CloseInv, NoClose, Range
  <2>2. \A x \in DOMAIN streams : streams[x].wire # "none" /\ FitStream(streams[x])
    BY <1>1, OthersDead DEF OneInv, OneStream
  <2>3. ~attached
    BY <2>1, <2>2 DEF CloseOK, FitStream
  <2>4. streams' = Reported(s)
    BY <1>4 DEF StreamError, Reported, Send
  <2>5. /\ OneStream(Reported(s), streamPromise)
        /\ \A x \in DOMAIN streams : Reported(s)[x].wire = "dead"
    BY <1>1, ReportedOne
  <2>6. \A x \in DOMAIN streams : Reported(s)[x].promise = "stream"
    BY <1>3, <2>5 DEF OneStream, FitStream
  <2> QED
    BY <1>3, <2>3, <2>4, <2>5, <2>6 DEF CloseOK
<1>5. ASSUME ~markedForClose
      PROVE LeftOK(streams', jobs', streamPromise', channel = "READY", released, Mapped)
  <2>1. released => streamPromise = 0 /\ Mapped = {}
    BY <1>5 DEF ReleaseInv, LeftInv, LeftOK
  <2>2. CASE channel = "READY"
    <3>1. PICK order \in Orders : Send(Resubscriptions(order), 0, Reported(s), jobs)
      BY <1>5, <2>2 DEF StreamError, Reported
    <3>2. /\ Resubscriptions(order) \in Seq(RequestSet(Len(groups)))
          /\ Resubscriptions(order) = <<>> <=> Mapped = {}
      BY ResubscriptionsType, OrdersEmpty DEF Typed
    <3>3. 0 \in 0 .. Len(Reported(s))
      BY <1>2, <1>3
    <3> QED
      BY <1>0, <1>3, <2>1, <3>1, <3>2, <3>3, SentLeft
  <2>3. CASE channel # "READY"
    <3>1. Send(<<>>, streamPromise, Reported(s), jobs)
      BY <1>5, <2>3 DEF StreamError, Reported
    <3>2. <<>> \in Seq({})
      OBVIOUS
    <3> QED
      BY <1>0, <1>2, <1>3, <2>1, <2>3, <3>1, <3>2, SentLeft
  <2> QED
    BY <2>2, <2>3
<1> QED
  BY <1>1, <1>4, <1>5 DEF ReleaseInv, CloseInv, LeftInv

LEMMA CloseEventStreamRelease ==
  ASSUME Prompt, MaxTimeouts = 0, Typed, UsableInv, OneInv, ReleaseInv, CloseEventStream
  PROVE  ReleaseInv'
<1> DEFINE job  == Job("close", 0, streamPromise)
           last == <<job>>
<1>1. /\ streams \in Seq(SomeStream) /\ streamPromise \in 0 .. Len(streams) /\ jobs \in Seq(SomeJob)
      /\ Len(streams) \in Nat /\ DOMAIN streams = 1 .. Len(streams)
  BY SomeShape
<1>2. /\ ~released /\ released' /\ channel = "READY" /\ jobs = <<>> /\ NoneBroken(streams)
      /\ UNCHANGED <<registry, streamPromise, network, attached>>
  BY NoTimeout, NothingUnderWay DEF CloseEventStream
<1>3. ~markedForClose /\ Mapped' = Mapped
  BY <1>2 DEF ReleaseInv, CloseInv, Mapped, registry
<1>4. CASE streamPromise = 0
  <2>1. UNCHANGED <<markedForClose, streams, jobs>>
    BY <1>4 DEF CloseEventStream
  <2>2. Mapped = {}
    BY <1>2, <1>3, <1>4 DEF ReleaseInv, LeftInv, LeftOK
  <2>3. LeftOK(streams', jobs', 0, TRUE, TRUE, {})
    BY <1>2, <2>1 DEF LeftOK, Range
  <2> QED
    BY <1>2, <1>3, <1>4, <2>1, <2>2, <2>3 DEF ReleaseInv, CloseInv, LeftInv, LeftOK, network
<1>5. CASE streamPromise # 0
  <2>1. markedForClose' /\ Awaiting(streamPromise, last, streams, jobs) /\ streamPromise \in 1 .. Len(streams)
    BY <1>1, <1>5 DEF CloseEventStream
  <2>2. job \in SomeJob /\ job.do = "close" /\ job.via = streamPromise
    BY <1>1 DEF Job, SomeJob
  <2> HIDE DEF job
  <2>3. last \in Seq(SomeJob) /\ Range(last) = {job}
    BY <1>1, <2>2, RangeOfFew
  <2> HIDE DEF last
  <2>4. /\ DOMAIN streams' = DOMAIN streams
        /\ \A x \in DOMAIN streams : SameButWaiters(streams[x], streams'[x])
        /\ streams[streamPromise].promise = "pending" =>
             streams'[streamPromise].waiters = streams[streamPromise].waiters \o last
        /\ jobs' = IF streams[streamPromise].promise = "pending" THEN jobs ELSE jobs \o last
    BY <1>1, <2>1, <2>3, AwaitingDoes
  <2>5. /\ Range(streams[streamPromise].waiters \o last) = Range(streams[streamPromise].waiters) \cup {job}
        /\ Range(jobs \o last) = Range(jobs) \cup {job}
    <3>1. streams[streamPromise] \in SomeStream
      BY <1>1, <2>1, SomeShape
    <3>2. streams[streamPromise].waiters \in Seq(SomeJob)
      BY <3>1 DEF SomeStream
    <3> QED
      BY <1>1, <2>3, <3>2, RangeConcatenation
  <2>6. ASSUME NEW x \in DOMAIN streams
        PROVE  /\ streams'[x].promise = "pending" => Closing(streams'[x].waiters, x)
               /\ streams'[x].wire = "open" => Closing(jobs', x)
    <3>1. FitStream(streams[x]) /\ (streams[x].wire \in Living => x = streamPromise)
      BY DEF OneInv, OneStream
    <3>2. streams'[x].promise = streams[x].promise /\ streams'[x].wire = streams[x].wire
      BY <2>4 DEF SameButWaiters
    <3>3. streams[x].promise = "pending" <=> streams[x].wire = "none"
      BY <3>1 DEF FitStream
    <3> QED
      BY <2>2, <2>4, <2>5, <3>1, <3>2, <3>3 DEF Closing, Living
  <2>7. ~NoClose(jobs') \/ \E x \in DOMAIN streams' : streams'[x].promise = "pending"
    <3>1. CASE streams[streamPromise].promise = "pending"
      BY <1>1, <2>1, <2>4, <3>1 DEF SameButWaiters
    <3>2. CASE streams[streamPromise].promise # "pending"
      BY <2>2, <2>4, <2>5, <3>2 DEF NoClose
    <3> QED
      BY <3>1, <3>2
  <2>8. CloseOK(streams', jobs', attached)
    BY <2>4, <2>6, <2>7 DEF CloseOK
  <2> QED
    BY <1>2, <2>1, <2>8 DEF ReleaseInv, CloseInv, LeftInv
<1> QED
  BY <1>4, <1>5

\* A listener call finds the current stream or asks for one, unless there is
\* nothing to subscribe.
LEMMA ListenerCallRelease ==
  ASSUME Prompt, Typed, UsableInv, OneInv, TargetsFit, ReleaseInv,
         NEW t \in Targets, NEW l \in Listeners, NEW isLite \in BOOLEAN,
         AddListener(t, l, isLite) \/ RemoveListener(t, l)
  PROVE  ReleaseInv'
<1>0. Range(jobs) = {}
  BY DEF AddListener, RemoveListener, MayCall, MayRun, Range
<1>1. /\ ~released /\ jobs = <<>> /\ NoneBroken(streams)
      /\ UNCHANGED <<network, lifecycle>>
  BY NothingUnderWay DEF AddListener, RemoveListener, MayCall
<1>2. /\ ~markedForClose /\ markedForClose' = markedForClose /\ released' = released
      /\ attached' = attached /\ channel' = channel
  BY <1>1 DEF ReleaseInv, CloseInv, network, lifecycle
<1>3. /\ streams \in Seq(SomeStream) /\ streamPromise \in 0 .. Len(streams)
  BY SomeShape
<1>4. channel = "READY" /\ streamPromise = 0 => Mapped = {}
  BY <1>1, <1>2 DEF ReleaseInv, LeftInv, LeftOK
<1>5. \A B : \A batch \in Seq(B) :
        /\ Send(batch, streamPromise, streams, jobs)
        /\ channel = "READY" /\ streamPromise = 0 /\ batch = <<>> => Mapped' = {}
        => LeftOK(streams', jobs', streamPromise', channel = "READY", FALSE, Mapped')
  <2> SUFFICES ASSUME NEW B, NEW batch \in Seq(B), Send(batch, streamPromise, streams, jobs),
                      channel = "READY" /\ streamPromise = 0 /\ batch = <<>> => Mapped' = {}
               PROVE  LeftOK(streams', jobs', streamPromise', channel = "READY", FALSE, Mapped')
    OBVIOUS
  <2> DEFINE mapped == Mapped'
             ready  == channel = "READY"
             rel    == FALSE
  <2>1. /\ ready => (streamPromise = 0 /\ batch = <<>> => mapped = {})
        /\ rel => mapped = {}
        /\ rel => streamPromise = 0 /\ batch = <<>>
    OBVIOUS
  <2> HIDE DEF mapped, ready, rel
  <2>2. LeftOK(streams', jobs', streamPromise', ready, rel, mapped)
    BY <1>0, <1>3, <2>1, SentLeft
  <2> QED
    BY <2>2 DEF mapped, ready, rel
<1>6. LeftOK(streams', jobs', streamPromise', channel = "READY", FALSE, Mapped')
  <2>1. CASE AddListener(t, l, isLite)
    <3> DEFINE known == groupOf[t] # 0
               g     == IF known THEN groupOf[t] ELSE Len(groups) + 1
               grp   == IF known THEN groups[g] ELSE NewGroup(t)
               steps == AddSteps(grp, l, isLite)
               r     == Request(g, steps, used.calls + 1)
    <3>1. Call(t, g, steps)
      BY <2>1, AddListenerDoes
    <3>2. channel = "READY" /\ streamPromise = 0 => steps # <<>>
      <4> SUFFICES ASSUME channel = "READY", streamPromise = 0 PROVE steps # <<>>
        OBVIOUS
      <4>1. groupOf[t] \in 0 .. Len(groups) /\ Len(groups) \in Nat
        BY Lengths DEF Typed, RegistryOK
      <4>2. ~known
        BY <1>4, <4>1 DEF TargetsFit, Mapped
      <4>3. Registered(grp) = {} /\ grp.listeners[l] # Flag(isLite)
        BY <4>2 DEF NewGroup, Registered, Flag
      <4> HIDE DEF grp
      <4>4. steps = <<Flag(isLite)>>
        BY <4>3 DEF AddSteps, IsNews, NeedsRegistration
      <4> QED
        BY <4>4
    <3>3. CASE steps = <<>>
      <4>1. Send(<<>>, streamPromise, streams, jobs) /\ <<>> \in Seq({})
        BY <3>1, <3>3 DEF Call
      <4> HIDE DEF steps
      <4> QED
        BY <1>5, <3>2, <3>3, <4>1
    <3>4. CASE steps # <<>>
      <4>1. Send(<<r>>, streamPromise, streams, jobs)
        BY <3>1, <3>4 DEF Call
      <4> HIDE DEF r
      <4>2. <<r>> \in Seq({r}) /\ <<r>> # <<>>
        OBVIOUS
      <4> QED
        BY <1>5, <4>1, <4>2
    <3> QED
      BY <3>3, <3>4
  <2>2. CASE RemoveListener(t, l)
    <3>1. Mapped' = Mapped
      <4>1. /\ DOMAIN groups = 1 .. Len(groups) /\ DOMAIN groups' = DOMAIN groups
            /\ groupOf' = groupOf
            /\ \A h \in DOMAIN groups : groups'[h].target = groups[h].target
        BY <2>2, RemoveListenerDoes
      <4>2. DOMAIN groups' = 1 .. Len(groups')
        <5>1. Typed'
          BY <2>2, RemoveListenerTyped
        <5> QED
          BY <5>1, Lengths DEF Typed, LenProperties, RegistryOK
      <4> QED
        BY <4>1, <4>2 DEF Mapped
    <3>2. \E g, steps : Call(t, g, steps)
      BY <2>2 DEF RemoveListener
    <3>3. PICK B : \E batch \in Seq(B) : Send(batch, streamPromise, streams, jobs)
      BY <3>2, CallSends
    <3> QED
      BY <1>4, <1>5, <3>1, <3>3
  <2> QED
    BY <2>1, <2>2
<1> QED
  BY <1>1, <1>2, <1>6 DEF ReleaseInv, CloseInv, LeftInv, LeftOK

LEMMA InitRelease == Init => TargetsFit /\ WatchInv /\ ReleaseInv
<1> SUFFICES ASSUME Init PROVE TargetsFit /\ WatchInv /\ ReleaseInv
  OBVIOUS
<1>1. TargetsFit
  BY DEF Init, TargetsFit, NoSubscriptions
<1>2. streams = <<NewStream>> /\ jobs = <<>> /\ streamPromise = 1 /\ ~markedForClose /\ ~released
  BY DEF Init
<1>3. DOMAIN streams = {1} /\ streams[1] = NewStream
  BY <1>2
<1>4. /\ session.connected <=> channel = "READY"
      /\ session.firstConnect => channel # "READY"
  <2>1. CASE channel = "CONNECTING" /\ session = FirstWatch
    BY <2>1 DEF FirstWatch
  <2>2. CASE channel = "READY" /\ session = Watched(FirstWatch, TRUE)
    BY <2>2 DEF Watched
  <2>3. CASE channel = "CONNECTING" /\ session = Watched(Watched(FirstWatch, TRUE), FALSE)
    BY <2>3 DEF Watched
  <2> QED
    BY <2>1, <2>2, <2>3 DEF Init
<1>5. ReleaseInv
  BY <1>2 DEF ReleaseInv, CloseInv, LeftInv, LeftOK, Range
<1>6. WatchInv
  BY <1>2, <1>3, <1>4, NewStreamIs DEF WatchInv
<1> QED
  BY <1>1, <1>5, <1>6

LEMMA NextRelease ==
  ASSUME Prompt, MaxTimeouts = 0
  PROVE  Typed /\ UsableInv /\ OneInv /\ TargetsFit /\ WatchInv /\ ReleaseInv /\ [Next]_vars => ReleaseInv'
<1> SUFFICES ASSUME Typed, UsableInv, OneInv, TargetsFit, WatchInv, ReleaseInv, [Next]_vars
             PROVE  ReleaseInv'
  OBVIOUS
<1>1. CASE Application
  <2>1. \A isLite \in Modes : isLite \in BOOLEAN
    BY BoundsAssumption
  <2>2. TRUE \in BOOLEAN
    OBVIOUS
  <2> QED
    BY <1>1, <2>1, <2>2, ListenerCallRelease, CloseEventStreamRelease DEF Application
<1>2. CASE Failures
  BY <1>2, ChannelDropRelease, StreamFailRelease, NoTimeout DEF Failures
<1>3. CASE Answers
  BY <1>3, ServerReceiveRelease, HandleResponseRelease DEF Answers
<1>4. CASE StreamChanges
  BY <1>4, StreamReadyRelease, StreamErrorRelease, StreamFailRelease DEF StreamChanges
<1>5. CASE RunJob
  BY <1>5, WriteJobRelease, SettledJobRelease, DisconnectJobRelease, CloseJobRelease DEF RunJob
<1>6. CASE ChannelUp
  BY <1>6, ChannelUpRelease
<1>7. CASE UNCHANGED vars
  BY <1>7 DEF vars, ReleaseInv, CloseInv, LeftInv, Mapped
<1> QED
  BY <1>1, <1>2, <1>3, <1>4, <1>5, <1>6, <1>7 DEF Next

\* A released cache receives nothing: closeEventStream ends the stream there
\* is, and no failure or reconnection that it races with opens another one.
THEOREM ReleasedHearsNothing ==
  ASSUME Prompt, MaxTimeouts = 0
  PROVE  Spec => []ReleasedIsSilent
<1> DEFINE All == Typed /\ UsableInv /\ OneInv /\ TargetsFit /\ WatchInv /\ ReleaseInv
<1>1. Init => All
  BY InitTyped, InitUsable, InitOne, InitRelease
<1>2. All /\ [Next]_vars => All'
  BY NextTyped, NextUsable, NextOne, NextTargetsFit, OneUnopened, NextWatch, NextRelease
<1>3. All => ReleasedIsSilent
  <2> SUFFICES ASSUME All, Quiet, released, NEW t \in Targets, NEW s \in Subscriptions(t)
               PROVE  FALSE
    BY DEF ReleasedIsSilent
  <2>1. s \in DOMAIN streams /\ streams[s].subs[t] # 0
    BY DEF Subscriptions
  <2>2. FitStream(streams[s]) /\ (streams[s].wire \in Living => s = streamPromise)
    BY <2>1 DEF OneInv, OneStream
  <2>3. streams[s].wire = "open" /\ s = streamPromise /\ s # 0
    <3>1. ~Silent(streams[s])
      BY <2>1 DEF Silent, NoSubscriptions
    <3>2. streams[s].wire # "ended"
      BY <2>1 DEF Quiet
    <3>3. s # 0
      BY <2>1, SomeShape
    <3> QED
      BY <2>2, <3>1, <3>2, <3>3 DEF FitStream, Living
  <2>4. jobs = <<>> /\ ~Closing(jobs, s)
    BY DEF Quiet, Closing, Range
  <2>5. ~markedForClose
    BY <2>1, <2>3, <2>4 DEF ReleaseInv, CloseInv, CloseOK
  <2> QED
    BY <2>3, <2>5 DEF ReleaseInv, LeftInv, LeftOK
<1> QED
  BY <1>1, <1>2, <1>3, PTL DEF Spec

----------------------------------------------------------------------------
(* Every request is settled once: its uid is held by one job, or awaits    *)
(* one answer, or neither.                                                 *)

Uids(js) == {js[i].uid : i \in DOMAIN js} \ {0}

\* No two jobs are about the same request.
Apart(js) == \A i, j \in DOMAIN js : i # j => js[i].uid # js[j].uid \/ js[i].uid = 0

OnceOK(strs, js, pend) ==
  /\ Apart(js) /\ pend \cap Uids(js) = {}
  /\ \A s \in DOMAIN strs : /\ Apart(strs[s].waiters)
                            /\ Uids(strs[s].waiters) \cap (pend \cup Uids(js)) = {}
  /\ \A s, x \in DOMAIN strs : s # x => Uids(strs[s].waiters) \cap Uids(strs[x].waiters) = {}

Once == OnceOK(streams, jobs, pending)

\* The requests that are yet to be settled.
Held(strs, js, pend) == pend \cup Uids(js) \cup UNION {Uids(strs[s].waiters) : s \in DOMAIN strs}

Outstanding == Held(streams, jobs, pending)

LEMMA HeldIs ==
  ASSUME NEW strs, NEW js, NEW pend, NEW u
  PROVE  u \in Held(strs, js, pend) <=>
           u \in pend \/ u \in Uids(js) \/ \E x \in DOMAIN strs : u \in Uids(strs[x].waiters)
  BY DEF Held

\* Jobs behind others.
LEMMA ApartJoined ==
  ASSUME NEW as \in Seq(SomeJob), NEW bs \in Seq(SomeJob)
  PROVE  /\ Uids(as \o bs) = Uids(as) \cup Uids(bs)
         /\ Apart(as) /\ Apart(bs) /\ Uids(as) \cap Uids(bs) = {} => Apart(as \o bs)
<1> DEFINE n == Len(as)
           m == Len(bs)
<1>0. /\ n \in Nat /\ m \in Nat /\ DOMAIN as = 1 .. n /\ DOMAIN bs = 1 .. m
      /\ DOMAIN (as \o bs) = 1 .. n + m
      /\ \A i \in 1 .. n + m : (as \o bs)[i] = IF i <= n THEN as[i] ELSE bs[i - n]
  <2>1. n \in Nat /\ m \in Nat /\ DOMAIN as = 1 .. n /\ DOMAIN bs = 1 .. m
    BY LenProperties
  <2>2. /\ as \o bs \in Seq(SomeJob) /\ Len(as \o bs) = n + m
        /\ \A i \in 1 .. n + m : (as \o bs)[i] = IF i <= n THEN as[i] ELSE bs[i - n]
    BY ConcatProperties
  <2>3. DOMAIN (as \o bs) = 1 .. Len(as \o bs)
    BY <2>2, LenProperties
  <2> QED
    BY <2>1, <2>2, <2>3
<1> DEFINE c == as \o bs
<1>1. /\ n \in Nat /\ m \in Nat /\ DOMAIN as = 1 .. n /\ DOMAIN bs = 1 .. m
      /\ DOMAIN c = 1 .. n + m
      /\ \A i \in 1 .. n + m : c[i] = IF i <= n THEN as[i] ELSE bs[i - n]
  BY <1>0
<1> HIDE DEF n, m, c
<1>2. ASSUME NEW i \in 1 .. n PROVE i \in 1 .. n + m /\ c[i] = as[i]
  <2>1. i \in 1 .. n + m /\ i <= n
    BY <1>1
  <2> QED
    BY <1>1, <2>1
<1>3. ASSUME NEW i \in 1 .. m PROVE n + i \in 1 .. n + m /\ c[n + i] = bs[i]
  <2>1. n + i \in 1 .. n + m /\ ~(n + i <= n) /\ (n + i) - n = i
    BY <1>1
  <2> QED
    BY <1>1, <2>1
<1>4. ASSUME NEW i \in 1 .. n + m, i \notin 1 .. n PROVE i - n \in 1 .. m /\ c[i] = bs[i - n]
  <2>1. i - n \in 1 .. m /\ ~(i <= n)
    BY <1>1, <1>4
  <2> QED
    BY <1>1, <2>1
<1>5. ASSUME NEW i \in 1 .. n + m
      PROVE  /\ i \in 1 .. n => c[i].uid \in Uids(as) \cup {0}
             /\ i \notin 1 .. n => c[i].uid \in Uids(bs) \cup {0}
  BY <1>1, <1>2, <1>4 DEF Uids
<1>6. Uids(c) \subseteq Uids(as) \cup Uids(bs)
  BY <1>1, <1>5 DEF Uids
<1>7. Uids(as) \subseteq Uids(c) /\ Uids(bs) \subseteq Uids(c)
  <2>1. Uids(as) \subseteq Uids(c)
    BY <1>1, <1>2 DEF Uids
  <2>2. Uids(bs) \subseteq Uids(c)
    BY <1>1, <1>3 DEF Uids
  <2> QED
    BY <2>1, <2>2
<1>8. ASSUME Apart(as), Apart(bs), Uids(as) \cap Uids(bs) = {},
             NEW i \in DOMAIN c, NEW j \in DOMAIN c, i # j
      PROVE  c[i].uid # c[j].uid \/ c[i].uid = 0
  <2>1. CASE i \in 1 .. n /\ j \in 1 .. n
    BY <1>1, <1>2, <1>8, <2>1 DEF Apart
  <2>2. CASE i \notin 1 .. n /\ j \notin 1 .. n
    <3>1. i - n \in 1 .. m /\ j - n \in 1 .. m /\ c[i] = bs[i - n] /\ c[j] = bs[j - n]
      BY <1>1, <1>4, <2>2
    <3>2. i - n # j - n
      BY <1>1, <1>8
    <3> QED
      BY <1>1, <1>8, <3>1, <3>2 DEF Apart
  <2>3. CASE i \in 1 .. n <=> j \notin 1 .. n
    BY <1>1, <1>5, <1>8, <2>3
  <2> QED
    BY <2>1, <2>2, <2>3
<1> QED
  BY <1>6, <1>7, <1>8 DEF c, Apart

\* The jobs behind the first one.
LEMMA ApartTail ==
  ASSUME NEW js \in Seq(SomeJob), js # <<>>, Apart(js)
  PROVE  /\ Apart(Tail(js)) /\ Uids(Tail(js)) \subseteq Uids(js)
         /\ Head(js).uid # 0 => Head(js).uid \in Uids(js) /\ Head(js).uid \notin Uids(Tail(js))
<1>1. /\ Len(js) \in Nat /\ Len(js) # 0 /\ DOMAIN js = 1 .. Len(js)
      /\ DOMAIN Tail(js) = 1 .. Len(js) - 1 /\ Head(js) = js[1]
      /\ \A i \in 1 .. Len(js) - 1 : Tail(js)[i] = js[i + 1]
  BY HeadTailProperties, EmptySeq, LenProperties
<1> DEFINE n == Len(js)
<1>2. ASSUME NEW i \in 1 .. n - 1 PROVE i + 1 \in 1 .. n /\ i + 1 # 1
  <2>1. n \in Nat
    BY <1>1
  <2> HIDE DEF n
  <2> QED
    BY <2>1
<1>3. 1 \in 1 .. Len(js)
  BY <1>1
<1>4. Uids(Tail(js)) \subseteq Uids(js)
  BY <1>1, <1>2 DEF Uids
<1>5. ASSUME Head(js).uid # 0
      PROVE  Head(js).uid \in Uids(js) /\ Head(js).uid \notin Uids(Tail(js))
  BY <1>1, <1>2, <1>3, <1>5 DEF Uids, Apart
<1>6. ASSUME NEW i \in DOMAIN Tail(js), NEW j \in DOMAIN Tail(js), i # j
      PROVE  Tail(js)[i].uid # Tail(js)[j].uid \/ Tail(js)[i].uid = 0
  <2>1. i + 1 # j + 1
    BY <1>1, <1>6
  <2> QED
    BY <1>1, <1>2, <1>6, <2>1 DEF Apart
<1> QED
  BY <1>4, <1>5, <1>6 DEF Apart

\* A single job, or none.
LEMMA ApartFew ==
  ASSUME NEW j \in SomeJob
  PROVE  /\ Apart(<<>>) /\ Uids(<<>>) = {}
         /\ <<j>> \in Seq(SomeJob) /\ Apart(<<j>>) /\ Uids(<<j>>) = {j.uid} \ {0}
<1> DEFINE js == <<j>>
<1>1. js \in Seq(SomeJob) /\ DOMAIN js = 1 .. 1 /\ js[1] = j
  OBVIOUS
<1>2. DOMAIN <<>> = {}
  OBVIOUS
<1> HIDE DEF js
<1>3. Apart(js) /\ Uids(js) = {j.uid} \ {0}
  BY <1>1 DEF Apart, Uids
<1> QED
  BY <1>1, <1>2, <1>3 DEF js, Apart, Uids

\* The writes of a batch are about its requests.
LEMMA ApartWrites ==
  ASSUME Len(requests) \in Nat, NEW B, NEW batch \in Seq(B), NEW s \in Nat
  PROVE  /\ Apart(Writes(batch, s))
         /\ Uids(Writes(batch, s)) = Len(requests) + 1 .. Len(requests) + Len(batch)
<1> DEFINE js == Writes(batch, s)
           r  == Len(requests)
<1>1. /\ DOMAIN js = 1 .. Len(batch) /\ r \in Nat /\ Len(batch) \in Nat
      /\ \A i \in 1 .. Len(batch) : js[i].uid = r + i
  BY WritesAre, LenProperties
<1> HIDE DEF js, r
<1>2. Apart(js)
  BY <1>1 DEF Apart
<1>3. Uids(js) = r + 1 .. r + Len(batch)
  <2>1. \A i \in 1 .. Len(batch) : r + i \in r + 1 .. r + Len(batch)
    BY <1>1
  <2>2. \A u \in r + 1 .. r + Len(batch) : u - r \in 1 .. Len(batch) /\ u = r + (u - r) /\ u # 0
    BY <1>1
  <2>3. \A i \in 1 .. Len(batch) : r + i # 0
    BY <1>1
  <2>4. Uids(js) = {r + i : i \in 1 .. Len(batch)} \ {0}
    BY <1>1 DEF Uids
  <2> QED
    BY <2>1, <2>2, <2>3, <2>4
<1> QED
  BY <1>2, <1>3 DEF js, r

\* Fewer jobs and answers to wait for, with the same waiters.
LEMMA OnceFewer ==
  ASSUME NEW strs, NEW js, NEW pend, OnceOK(strs, js, pend), NEW new, NEW queue, NEW left,
         DOMAIN new = DOMAIN strs, \A x \in DOMAIN strs : new[x].waiters = strs[x].waiters,
         Apart(queue), left \cap Uids(queue) = {}, left \cup Uids(queue) \subseteq pend \cup Uids(js)
  PROVE  OnceOK(new, queue, left) /\ Held(new, queue, left) \subseteq Held(strs, js, pend)
<1>1. OnceOK(new, queue, left)
  BY DEF OnceOK
<1>2. UNION {Uids(new[s].waiters) : s \in DOMAIN new} = UNION {Uids(strs[s].waiters) : s \in DOMAIN strs}
  <2>1. \A x \in DOMAIN strs : Uids(new[x].waiters) = Uids(strs[x].waiters)
    BY DEF Uids
  <2> QED
    BY <2>1
<1> QED
  BY <1>1, <1>2 DEF Held

\* Jobs wait for a stream or go behind the jobs there are.
Placed(strs, s, js, queue, new, behind) ==
  /\ DOMAIN new = 1 .. Len(strs)
  /\ \A x \in 1 .. Len(strs) :
       new[x].waiters = IF x = s /\ strs[s].promise = "pending" THEN strs[s].waiters \o js ELSE strs[x].waiters
  /\ behind = IF strs[s].promise = "pending" THEN queue ELSE queue \o js

\* ... and are about requests that no other job is about.
LEMMA OncePlaced ==
  ASSUME NEW strs \in Seq(SomeStream), NEW s \in 1 .. Len(strs), NEW js \in Seq(SomeJob),
         NEW queue \in Seq(SomeJob), NEW pend, NEW new, NEW behind,
         OnceOK(strs, queue, pend), Apart(js), Uids(js) \cap Held(strs, queue, pend) = {},
         Placed(strs, s, js, queue, new, behind)
  PROVE  OnceOK(new, behind, pend) /\ Held(new, behind, pend) = Held(strs, queue, pend) \cup Uids(js)
<1>1. DOMAIN strs = 1 .. Len(strs) /\ strs[s].waiters \in Seq(SomeJob)
  <2>1. strs[s] \in SomeStream
    BY ElementOfSeq
  <2> QED
    BY <2>1, LenProperties DEF SomeStream
<1>0. /\ DOMAIN new = 1 .. Len(strs)
      /\ \A x \in 1 .. Len(strs) :
           new[x].waiters = IF x = s /\ strs[s].promise = "pending" THEN strs[s].waiters \o js ELSE strs[x].waiters
      /\ behind = IF strs[s].promise = "pending" THEN queue ELSE queue \o js
  BY DEF Placed
<1> DEFINE ws   == strs[s].waiters
           more == ws \o js
           U(x) == Uids(strs[x].waiters)
<1>2. /\ Uids(js) \cap pend = {} /\ Uids(js) \cap Uids(queue) = {}
      /\ \A x \in DOMAIN strs : Uids(js) \cap U(x) = {}
  BY DEF Held
<1>3. CASE strs[s].promise = "pending"
  <2>1. Uids(more) = U(s) \cup Uids(js) /\ Apart(more)
    BY <1>1, <1>2, ApartJoined DEF OnceOK
  <2> HIDE DEF more
  <2>2. new[s].waiters = more /\ behind = queue
    BY <1>0, <1>3 DEF more
  <2>3. \A x \in DOMAIN strs : Uids(new[x].waiters) = IF x = s THEN U(s) \cup Uids(js) ELSE U(x)
    BY <1>0, <1>1, <1>3, <2>1, <2>2
  <2>4. \A x \in DOMAIN strs : Apart(new[x].waiters)
    BY <1>0, <1>1, <1>3, <2>1, <2>2 DEF OnceOK
  <2>5. OnceOK(new, behind, pend)
    BY <1>0, <1>1, <1>2, <2>2, <2>3, <2>4 DEF OnceOK
  <2>6. \A u : (\E x \in DOMAIN new : u \in Uids(new[x].waiters)) <=> (\E x \in DOMAIN strs : u \in Uids(strs[x].waiters)) \/ u \in Uids(js)
    BY <1>0, <1>1, <2>3
  <2>7. ASSUME NEW u PROVE u \in Held(new, behind, pend) <=> u \in Held(strs, queue, pend) \/ u \in Uids(js)
    <3>1. u \in Held(new, behind, pend) <=>
            u \in pend \/ u \in Uids(behind) \/ \E x \in DOMAIN new : u \in Uids(new[x].waiters)
      BY HeldIs
    <3>2. u \in Held(strs, queue, pend) <=>
            u \in pend \/ u \in Uids(queue) \/ \E x \in DOMAIN strs : u \in Uids(strs[x].waiters)
      BY HeldIs
    <3> QED
      BY <2>2, <2>6, <3>1, <3>2
  <2> QED
    BY <2>5, <2>7
<1>4. CASE strs[s].promise # "pending"
  <2>1. Uids(queue \o js) = Uids(queue) \cup Uids(js) /\ Apart(queue \o js)
    BY <1>2, ApartJoined DEF OnceOK
  <2>2. behind = queue \o js
    BY <1>0, <1>4
  <2>3. Uids(behind) = Uids(queue) \cup Uids(js) /\ Apart(behind)
    BY <2>1, <2>2
  <2>4. \A x \in DOMAIN strs : new[x].waiters = strs[x].waiters
    BY <1>0, <1>1, <1>4
  <2>5. OnceOK(new, behind, pend)
    BY <1>0, <1>1, <1>2, <2>3, <2>4 DEF OnceOK
  <2>6. \A u : (\E x \in DOMAIN new : u \in Uids(new[x].waiters)) <=> \E x \in DOMAIN strs : u \in Uids(strs[x].waiters)
    BY <1>0, <1>1, <2>4
  <2>7. ASSUME NEW u PROVE u \in Held(new, behind, pend) <=> u \in Held(strs, queue, pend) \/ u \in Uids(js)
    <3>1. u \in Held(new, behind, pend) <=>
            u \in pend \/ u \in Uids(behind) \/ \E x \in DOMAIN new : u \in Uids(new[x].waiters)
      BY HeldIs
    <3>2. u \in Held(strs, queue, pend) <=>
            u \in pend \/ u \in Uids(queue) \/ \E x \in DOMAIN strs : u \in Uids(strs[x].waiters)
      BY HeldIs
    <3> QED
      BY <2>3, <2>6, <3>1, <3>2
  <2> QED
    BY <2>5, <2>7
<1> QED
  BY <1>3, <1>4

\* A new stream, for which nobody waits.
LEMMA OnceEnsured ==
  ASSUME NEW strs \in Seq(SomeStream), NEW current \in 0 .. Len(strs), NEW js, NEW pend,
         OnceOK(strs, js, pend)
  PROVE  LET all == Ensuring(current, strs)
         IN OnceOK(all, js, pend) /\ Held(all, js, pend) = Held(strs, js, pend)
<1> DEFINE all == Ensuring(current, strs)
           n   == Len(strs)
<1>1. CASE current # 0
  BY <1>1 DEF Ensuring
<1>2. CASE current = 0
  <2>1. /\ n \in Nat /\ DOMAIN strs = 1 .. n /\ DOMAIN all = 1 .. n + 1
        /\ \A x \in 1 .. n : all[x] = strs[x]
        /\ all[n + 1].waiters = <<>>
    BY <1>2, EnsuringDoes, LenProperties, NewStreamIs
  <2> HIDE DEF all, n
  <2>2. Apart(<<>>) /\ Uids(<<>>) = {}
    BY DEF Apart, Uids
  <2>3. DOMAIN all = 1 .. n \cup {n + 1} /\ n + 1 \notin 1 .. n
    BY <2>1
  <2>4. OnceOK(all, js, pend)
    BY <2>1, <2>2, <2>3 DEF OnceOK
  <2>5. UNION {Uids(all[x].waiters) : x \in DOMAIN all} = UNION {Uids(strs[x].waiters) : x \in DOMAIN strs}
    BY <2>1, <2>2, <2>3
  <2> QED
    BY <2>4, <2>5 DEF Held, all
<1> QED
  BY <1>1, <1>2

\* Requests are sent under uids of their own.
LEMMA OnceSend ==
  ASSUME Len(requests) \in Nat, NEW B, NEW batch \in Seq(B), NEW strs \in Seq(SomeStream),
         NEW current \in 0 .. Len(strs), NEW queue \in Seq(SomeJob), NEW pend,
         Send(batch, current, strs, queue),
         OnceOK(strs, queue, pend), Held(strs, queue, pend) \subseteq 1 .. Len(requests)
  PROVE  /\ OnceOK(streams', jobs', pend)
         /\ Held(streams', jobs', pend) \subseteq
              Held(strs, queue, pend) \cup (Len(requests) + 1 .. Len(requests) + Len(batch))
<1>1. CASE batch = <<>>
  BY <1>1, SendDoes
<1>2. CASE batch # <<>>
  <2> DEFINE s    == Ensured(current, strs)
             all  == Ensuring(current, strs)
             js   == Writes(batch, s)
  <2>1. /\ s \in 1 .. Len(all) /\ DOMAIN streams' = 1 .. Len(all)
        /\ \A x \in 1 .. Len(all) :
             streams'[x].waiters = IF x = s /\ all[s].promise = "pending" THEN all[s].waiters \o js ELSE all[x].waiters
        /\ jobs' = IF all[s].promise = "pending" THEN queue ELSE queue \o js
    BY <1>2, SendDoes
  <2>2. all \in Seq(SomeStream)
    BY EnsuringDoes
  <2>3. OnceOK(all, queue, pend) /\ Held(all, queue, pend) = Held(strs, queue, pend)
    BY OnceEnsured
  <2> HIDE DEF all, s
  <2>4. s \in Nat
    BY <2>1, <2>2, LenProperties
  <2>5. /\ js \in Seq(SomeJob) /\ Apart(js)
        /\ Uids(js) = Len(requests) + 1 .. Len(requests) + Len(batch)
    BY <2>4, WritesAre, ApartWrites
  <2>7. Uids(js) \cap Held(all, queue, pend) = {}
    <3>1. \A u \in Uids(js) : u \notin 1 .. Len(requests)
      BY <2>5
    <3> QED
      BY <2>3, <3>1
  <2> HIDE DEF js
  <2>9. OnceOK(streams', jobs', pend) /\ Held(streams', jobs', pend) = Held(all, queue, pend) \cup Uids(js)
    <3>1. Placed(all, s, js, queue, streams', jobs')
      BY <2>1 DEF Placed
    <3>2. s \in 1 .. Len(all)
      BY <2>1
    <3> QED
      BY <2>2, <2>3, <2>5, <2>7, <3>1, <3>2, OncePlaced
  <2> QED
    BY <2>3, <2>5, <2>9 DEF js
<1> QED
  BY <1>1, <1>2

\* Requests behind those there were.
LEMMA RequestsJoined ==
  ASSUME Typed, NEW B, NEW batch \in Seq(B), requests' = requests \o batch
  PROVE  /\ Len(requests) \in Nat /\ DOMAIN requests = 1 .. Len(requests)
         /\ Len(batch) \in Nat /\ DOMAIN batch = 1 .. Len(batch)
         /\ Len(requests') = Len(requests) + Len(batch) /\ DOMAIN requests' = 1 .. Len(requests')
         /\ \A u \in DOMAIN requests : u \in DOMAIN requests' /\ requests'[u] = requests[u]
         /\ \A u \in DOMAIN requests' \ DOMAIN requests :
              u - Len(requests) \in DOMAIN batch /\ requests'[u] = batch[u - Len(requests)]
<1> DEFINE R == RequestSet(Len(groups))
           n == Len(requests)
           m == Len(batch)
<1>1. requests \in Seq(R) /\ n \in Nat /\ DOMAIN requests = 1 .. n
  BY LenProperties DEF Typed, MessagesOK
<1>2. m \in Nat /\ DOMAIN batch = 1 .. m
  BY LenProperties
<1> HIDE DEF R
<1>3. requests \in Seq(R \cup B) /\ batch \in Seq(R \cup B)
  <2>1. R \subseteq R \cup B /\ B \subseteq R \cup B
    OBVIOUS
  <2> QED
    BY <1>1, <2>1, SeqMonotonic
<1>4. /\ requests \o batch \in Seq(R \cup B) /\ Len(requests \o batch) = n + m
      /\ \A i \in 1 .. n + m : (requests \o batch)[i] = IF i <= n THEN requests[i] ELSE batch[i - n]
  BY <1>3, ConcatProperties
<1>5. /\ requests' \in Seq(R \cup B) /\ Len(requests') = n + m
      /\ \A i \in 1 .. n + m : requests'[i] = IF i <= n THEN requests[i] ELSE batch[i - n]
  BY <1>4
<1>6. DOMAIN requests' = 1 .. Len(requests')
  BY <1>5, LenProperties
<1> HIDE DEF n, m
<1>7. ASSUME NEW u \in 1 .. n PROVE u \in 1 .. n + m /\ requests'[u] = requests[u]
  <2>1. u \in 1 .. n + m /\ u <= n
    BY <1>1, <1>2
  <2> QED
    BY <1>5, <2>1
<1>8. ASSUME NEW u \in 1 .. n + m, u \notin 1 .. n PROVE u - n \in 1 .. m /\ requests'[u] = batch[u - n]
  <2>1. u - n \in 1 .. m /\ ~(u <= n)
    BY <1>1, <1>2, <1>8
  <2> QED
    BY <1>5, <2>1
<1> QED
  BY <1>1, <1>2, <1>5, <1>6, <1>7, <1>8 DEF n, m

\* A step: nothing is to be settled that was not, but for the requests made.
StepOnce ==
  Once' /\ Outstanding' \subseteq Outstanding \cup (Len(requests) + 1 .. Len(requests'))

\* What is yet to be settled is a request.
LEMMA HeldTyped ==
  ASSUME Typed
  PROVE  Outstanding \subseteq 1 .. Len(requests)
<1> DEFINE r == Len(requests)
           n == Len(streams)
<1>1. /\ streams \in Seq(StreamSet(r, n)) /\ jobs \in Seq(JobSet(r, n)) /\ pending \subseteq 1 .. r
      /\ DOMAIN streams = 1 .. Len(streams)
  BY LenProperties DEF Typed, MessagesOK, OthersOK
<1> HIDE DEF r, n
<1>2. ASSUME NEW js \in Seq(JobSet(r, n)) PROVE Uids(js) \subseteq 1 .. r
  <2>1. \A i \in DOMAIN js : js[i] \in JobSet(r, n)
    BY LenProperties, ElementOfSeq
  <2>2. \A j \in JobSet(r, n) : j.uid \in (1 .. r) \cup {0}
    BY DEF JobSet
  <2> QED
    BY <2>1, <2>2 DEF Uids
<1>3. \A x \in DOMAIN streams : streams[x].waiters \in Seq(JobSet(r, n))
  <2>1. \A x \in DOMAIN streams : streams[x] \in StreamSet(r, n)
    BY <1>1, ElementOfSeq
  <2> QED
    BY <2>1 DEF StreamSet
<1>4. ASSUME NEW u \in Outstanding PROVE u \in 1 .. r
  BY <1>1, <1>2, <1>3 DEF Outstanding, Held
<1> QED
  BY <1>4 DEF r

\* A step that sends a batch.
LEMMA SendsOnce ==
  ASSUME Typed, NEW B, NEW batch \in Seq(B), NEW strs \in Seq(SomeStream),
         NEW current \in 0 .. Len(strs), NEW queue \in Seq(SomeJob),
         Send(batch, current, strs, queue), pending' = pending,
         OnceOK(strs, queue, pending), Held(strs, queue, pending) \subseteq Outstanding
  PROVE  StepOnce
<1>1. Len(requests) \in Nat /\ Held(strs, queue, pending) \subseteq 1 .. Len(requests)
  BY SomeShape, HeldTyped
<1>2. /\ OnceOK(streams', jobs', pending)
      /\ Held(streams', jobs', pending) \subseteq
           Held(strs, queue, pending) \cup (Len(requests) + 1 .. Len(requests) + Len(batch))
  BY <1>1, OnceSend
<1>3. Len(requests') = Len(requests) + Len(batch)
  <2>1. requests' = requests \o batch
    BY DEF Send
  <2> QED
    BY <2>1, RequestsJoined
<1> QED
  BY <1>2, <1>3 DEF StepOnce, Once, Outstanding

\* A step that moves what is to be settled from one place to another.
LEMMA MovesOnce ==
  ASSUME Once, DOMAIN streams' = DOMAIN streams,
         \A x \in DOMAIN streams : streams'[x].waiters = streams[x].waiters,
         Apart(jobs'), pending' \cap Uids(jobs') = {},
         pending' \cup Uids(jobs') \subseteq pending \cup Uids(jobs)
  PROVE  StepOnce
<1>1. OnceOK(streams', jobs', pending') /\ Held(streams', jobs', pending') \subseteq Held(streams, jobs, pending)
  BY OnceFewer DEF Once
<1> QED
  BY <1>1 DEF StepOnce, Once, Outstanding

LEMMA ListenerCallOnce ==
  ASSUME Typed, Once, NEW t, NEW l, NEW isLite, AddListener(t, l, isLite) \/ RemoveListener(t, l)
  PROVE  StepOnce
<1>1. /\ pending' = pending
      /\ \E g, steps : Call(t, g, steps)
  BY DEF AddListener, RemoveListener
<1>2. PICK B : \E batch \in Seq(B) : Send(batch, streamPromise, streams, jobs)
  BY <1>1, CallSends
<1>3. PICK batch \in Seq(B) : Send(batch, streamPromise, streams, jobs)
  BY <1>2
<1>4. streams \in Seq(SomeStream) /\ jobs \in Seq(SomeJob) /\ streamPromise \in 0 .. Len(streams)
  BY SomeShape
<1>5. OnceOK(streams, jobs, pending) /\ Held(streams, jobs, pending) \subseteq Outstanding
  BY DEF Once, Outstanding
<1> QED
  BY <1>1, <1>3, <1>4, <1>5, SendsOnce

\* The first job has run, and what it was about may await an answer now.
LEMMA WriteJobOnce ==
  ASSUME Typed, Once, jobs # <<>>, WriteJob(Head(jobs))
  PROVE  StepOnce
<1> DEFINE job  == Head(jobs)
           done == Job("settled", job.uid, 0)
<1>1. /\ jobs \in Seq(SomeJob) /\ Tail(jobs) \in Seq(SomeJob) /\ job \in SomeJob
      /\ DOMAIN streams = 1 .. Len(streams) /\ \A x \in DOMAIN streams : streams[x] \in SomeStream
  BY SomeShape, RangeOfTail
<1>2. /\ DOMAIN streams' = DOMAIN streams
      /\ \A x \in DOMAIN streams : streams'[x].waiters = streams[x].waiters
  <2> DEFINE v   == job.via
             new == [streams[v] EXCEPT !.toServer = Append(@, job.uid)]
  <2>1. streams' = streams \/ streams' = [streams EXCEPT ![v] = new]
    BY DEF WriteJob
  <2>2. \A x \in DOMAIN streams : [streams[x] EXCEPT !.toServer = Append(@, job.uid)].waiters = streams[x].waiters
    BY <1>1 DEF SomeStream
  <2>3. v \in DOMAIN streams => new.waiters = streams[v].waiters
    BY <2>2
  <2> HIDE DEF new, v
  <2> QED
    BY <2>1, <2>3
<1>3. /\ Apart(Tail(jobs)) /\ Uids(Tail(jobs)) \subseteq Uids(jobs)
      /\ job.uid # 0 => job.uid \in Uids(jobs) /\ job.uid \notin Uids(Tail(jobs))
      /\ pending \cap Uids(jobs) = {}
  BY <1>1, ApartTail DEF Once, OnceOK
<1>4. job.uid # 0
  <2>1. job \in JobSet(Len(requests), Len(streams)) /\ job.do = "write" /\ Len(requests) \in Nat
    BY JobTypes, SomeShape DEF Typed, WriteJob
  <2> QED
    BY <2>1 DEF JobSet
<1>5. CASE streams[job.via].promise = "null"
  <2>1. pending' = pending /\ jobs' = Append(Tail(jobs), done)
    BY <1>5 DEF WriteJob
  <2>2. done \in SomeJob /\ done.uid = job.uid
    BY <1>1 DEF Job, SomeJob
  <2> HIDE DEF done
  <2>3. <<done>> \in Seq(SomeJob) /\ Apart(<<done>>) /\ Uids(<<done>>) = {job.uid}
    BY <1>4, <2>2, ApartFew
  <2>4. Append(Tail(jobs), done) = Tail(jobs) \o <<done>>
    BY <1>1, <2>2, AppendIsConcat
  <2>5. Uids(Tail(jobs)) \cap Uids(<<done>>) = {}
    BY <1>3, <1>4, <2>3
  <2>6. Uids(jobs') = Uids(Tail(jobs)) \cup {job.uid} /\ Apart(jobs')
    BY <1>1, <1>3, <2>1, <2>3, <2>4, <2>5, ApartJoined
  <2> QED
    BY <1>2, <1>3, <1>4, <2>1, <2>6, MovesOnce
<1>6. CASE streams[job.via].promise # "null"
  <2>1. pending' = pending \cup {job.uid} /\ jobs' = Tail(jobs)
    BY <1>6 DEF WriteJob
  <2> QED
    BY <1>2, <1>3, <1>4, <2>1, MovesOnce
<1> QED
  BY <1>5, <1>6

\* What a settled job was about is settled.
LEMMA SettledJobOnce ==
  ASSUME Typed, Once, jobs # <<>>, SettledJob(Head(jobs))
  PROVE  StepOnce /\ Head(jobs).uid \notin Outstanding' /\ Head(jobs).uid \in Outstanding
<1> DEFINE job == Head(jobs)
           r   == requests[job.uid]
           req == Request(r.group, r.rest, r.call)
<1>1. /\ jobs \in Seq(SomeJob) /\ Tail(jobs) \in Seq(SomeJob) /\ job \in SomeJob
      /\ streams \in Seq(SomeStream) /\ streamPromise \in 0 .. Len(streams) /\ Len(requests) \in Nat
  BY SomeShape, RangeOfTail
<1>2. /\ Apart(Tail(jobs)) /\ Uids(Tail(jobs)) \subseteq Uids(jobs)
      /\ job.uid # 0 => job.uid \in Uids(jobs) /\ job.uid \notin Uids(Tail(jobs))
      /\ pending \cap Uids(jobs) = {}
  BY <1>1, ApartTail DEF Once, OnceOK
<1>3. job.uid # 0 /\ job.uid \in 1 .. Len(requests)
  <2>1. job \in JobSet(Len(requests), Len(streams)) /\ job.do = "settled" /\ Len(requests) \in Nat
    BY JobTypes, SomeShape DEF Typed, SettledJob
  <2> QED
    BY <2>1 DEF JobSet
<1>4. /\ OnceOK(streams, Tail(jobs), pending)
      /\ Held(streams, Tail(jobs), pending) \subseteq Outstanding
  <2>1. pending \cap Uids(Tail(jobs)) = {} /\ pending \cup Uids(Tail(jobs)) \subseteq pending \cup Uids(jobs)
    BY <1>2
  <2> QED
    BY <1>2, <2>1, OnceFewer DEF Once, Outstanding
<1>5. job.uid \notin Held(streams, Tail(jobs), pending) /\ job.uid \in Outstanding
  BY <1>2, <1>3 DEF Held, Once, OnceOK, Outstanding
<1>6. pending' = pending /\ \E B : \E batch \in Seq(B) : Send(batch, streamPromise, streams, Tail(jobs))
  <2>1. /\ pending' = pending
        /\ Send(<<req>>, streamPromise, streams, Tail(jobs)) \/ Send(<<>>, streamPromise, streams, Tail(jobs))
    BY DEF SettledJob
  <2> HIDE DEF req
  <2>2. <<req>> \in Seq({req}) /\ <<>> \in Seq({req})
    OBVIOUS
  <2> QED
    BY <2>1, <2>2
<1>7. PICK B : \E batch \in Seq(B) : Send(batch, streamPromise, streams, Tail(jobs))
  BY <1>6
<1>8. PICK batch \in Seq(B) : Send(batch, streamPromise, streams, Tail(jobs))
  BY <1>7
<1>9. StepOnce
  BY <1>1, <1>4, <1>6, <1>8, SendsOnce
<1>10. job.uid \notin Outstanding'
  <2>1. Held(streams, Tail(jobs), pending) \subseteq 1 .. Len(requests)
    BY <1>4, HeldTyped
  <2>2. Held(streams', jobs', pending) \subseteq Held(streams, Tail(jobs), pending) \cup
          (Len(requests) + 1 .. Len(requests) + Len(batch))
    BY <1>1, <1>4, <1>8, <2>1, OnceSend
  <2>3. job.uid \notin Len(requests) + 1 .. Len(requests) + Len(batch)
    BY <1>1, <1>3
  <2> QED
    BY <1>5, <1>6, <2>2, <2>3 DEF Outstanding
<1> QED
  BY <1>5, <1>9, <1>10

LEMMA OtherJobOnce ==
  ASSUME Typed, Once, jobs # <<>>, DisconnectJob(Head(jobs)) \/ CloseJob(Head(jobs))
  PROVE  StepOnce
<1>1. /\ jobs \in Seq(SomeJob) /\ DOMAIN streams = 1 .. Len(streams)
      /\ \A x \in DOMAIN streams : streams[x] \in SomeStream
      /\ pending' = pending /\ jobs' = Tail(jobs)
  BY SomeShape DEF DisconnectJob, CloseJob
<1>2. /\ DOMAIN streams' = DOMAIN streams
      /\ \A x \in DOMAIN streams : streams'[x].waiters = streams[x].waiters
  <2>1. CASE CloseJob(Head(jobs))
    BY <1>1, <2>1 DEF CloseJob, SomeStream
  <2>2. CASE DisconnectJob(Head(jobs))
    BY <1>1, <2>2, BrokenIs DEF DisconnectJob
  <2> QED
    BY <2>1, <2>2
<1>3. Apart(jobs) /\ pending \cap Uids(jobs) = {}
  BY DEF Once, OnceOK
<1>4. Apart(Tail(jobs)) /\ Uids(Tail(jobs)) \subseteq Uids(jobs)
  BY <1>1, <1>3, ApartTail
<1>5. pending' \cap Uids(jobs') = {} /\ pending' \cup Uids(jobs') \subseteq pending \cup Uids(jobs)
  BY <1>1, <1>3, <1>4
<1> QED
  BY <1>1, <1>2, <1>4, <1>5, MovesOnce

\* What waited for a stream is what there is to do.
LEMMA ResumedOnce ==
  ASSUME NEW strs \in Seq(SomeStream), NEW s \in 1 .. Len(strs), NEW js, NEW pend, js = <<>>,
         OnceOK(strs, js, pend), NEW new, new.waiters = <<>>
  PROVE  LET all == [strs EXCEPT ![s] = new]
         IN /\ OnceOK(all, strs[s].waiters, pend)
            /\ Held(all, strs[s].waiters, pend) \subseteq Held(strs, js, pend)
<1> DEFINE all == [strs EXCEPT ![s] = new]
           ws  == strs[s].waiters
<1>1. DOMAIN strs = 1 .. Len(strs)
  BY LenProperties
<1>2. /\ DOMAIN all = DOMAIN strs /\ all[s].waiters = <<>>
      /\ \A x \in DOMAIN strs : x # s => all[x] = strs[x]
  BY <1>1
<1> HIDE DEF all
<1>3. Apart(<<>>) /\ Uids(<<>>) = {}
  BY DEF Apart, Uids
<1>4. OnceOK(all, ws, pend)
  BY <1>1, <1>2, <1>3 DEF OnceOK
<1>5. ASSUME NEW u \in Held(all, ws, pend) PROVE u \in Held(strs, js, pend)
  <2>1. u \in pend \/ u \in Uids(ws) \/ \E x \in DOMAIN all : u \in Uids(all[x].waiters)
    BY <1>5 DEF Held
  <2>2. u \in pend \/ \E x \in DOMAIN strs : u \in Uids(strs[x].waiters)
    BY <1>1, <1>2, <1>3, <2>1
  <2> QED
    BY <2>2 DEF Held
<1> QED
  BY <1>4, <1>5 DEF all

LEMMA StreamReadyOnce ==
  ASSUME Typed, Once, NEW s \in DOMAIN streams, StreamReady(s)
  PROVE  StepOnce
<1> DEFINE new == [streams[s] EXCEPT !.promise = "stream", !.wire = "open", !.waiters = <<>>]
<1>1. /\ streams \in Seq(SomeStream) /\ DOMAIN streams = 1 .. Len(streams) /\ s \in 1 .. Len(streams)
      /\ streams[s] \in SomeStream
  BY SomeShape
<1>2. /\ streams' = [streams EXCEPT ![s] = new] /\ jobs = <<>>
      /\ jobs' = streams[s].waiters /\ pending' = pending
  BY <1>1 DEF StreamReady, MayRun
<1>3. new.waiters = <<>>
  BY <1>1 DEF SomeStream
<1> HIDE DEF new
<1>4. OnceOK(streams', jobs', pending) /\ Held(streams', jobs', pending) \subseteq Held(streams, jobs, pending)
  BY <1>1, <1>2, <1>3, ResumedOnce DEF Once
<1> QED
  BY <1>2, <1>4 DEF StepOnce, Once, Outstanding

LEMMA ReadyTimeoutOnce ==
  ASSUME Typed, Once, NEW s \in DOMAIN streams, ReadyTimeout(s)
  PROVE  StepOnce
<1> DEFINE new    == [streams[s] EXCEPT !.promise = "null", !.wire = "open", !.waiters = <<>>]
           opened == [streams EXCEPT ![s] = new]
<1>1. /\ streams \in Seq(SomeStream) /\ DOMAIN streams = 1 .. Len(streams) /\ s \in 1 .. Len(streams)
      /\ streams[s] \in SomeStream /\ streamPromise \in 0 .. Len(streams)
  BY SomeShape
<1>2. /\ jobs = <<>> /\ jobs' = streams[s].waiters /\ pending' = pending
      /\ streams' = Ensuring(streamPromise, opened)
  BY <1>1 DEF ReadyTimeout, MayRun, Ensuring
<1>3. new.waiters = <<>> /\ new \in SomeStream
  <2>1. <<>> \in Seq(SomeJob)
    OBVIOUS
  <2> QED
    BY <1>1, <2>1 DEF SomeStream
<1> HIDE DEF new
<1>4. OnceOK(opened, jobs', pending) /\ Held(opened, jobs', pending) \subseteq Held(streams, jobs, pending)
  BY <1>1, <1>2, <1>3, ResumedOnce DEF Once
<1>5. opened \in Seq(SomeStream) /\ Len(opened) = Len(streams)
  BY <1>1, <1>3, OneReplaced
<1>6. streamPromise \in 0 .. Len(opened)
  BY <1>1, <1>5
<1> HIDE DEF opened
<1>7. /\ OnceOK(Ensuring(streamPromise, opened), jobs', pending)
      /\ Held(Ensuring(streamPromise, opened), jobs', pending) = Held(opened, jobs', pending)
  BY <1>4, <1>5, <1>6, OnceEnsured
<1> QED
  BY <1>2, <1>4, <1>7 DEF StepOnce, Once, Outstanding

\* A step that changes neither the jobs nor who waits.
LEMMA QuietOnce ==
  ASSUME Typed, Once, NEW s \in DOMAIN streams,
         ServerReceive(s) \/ StreamFail(s) \/ StreamEnd(s)
  PROVE  StepOnce
<1>1. /\ DOMAIN streams = 1 .. Len(streams) /\ \A x \in DOMAIN streams : streams[x] \in SomeStream
      /\ pending' = pending /\ jobs' = jobs
  BY SomeShape DEF ServerReceive, StreamFail, StreamEnd
<1>2. /\ DOMAIN streams' = DOMAIN streams
      /\ \A x \in DOMAIN streams : streams'[x].waiters = streams[x].waiters
  <2>1. CASE ServerReceive(s)
    BY <1>1, <2>1 DEF ServerReceive, SomeStream
  <2>2. CASE StreamFail(s)
    BY <1>1, <2>2, BrokenIs DEF StreamFail
  <2>3. CASE StreamEnd(s)
    BY <1>1, <2>3 DEF StreamEnd, SomeStream
  <2> QED
    BY <2>1, <2>2, <2>3
<1>3. Apart(jobs) /\ pending \cap Uids(jobs) = {}
  BY DEF Once, OnceOK
<1> QED
  BY <1>1, <1>2, <1>3, MovesOnce

\* An answer settles the request that awaits it, and no other.
LEMMA HandleResponseOnce ==
  ASSUME Typed, Once, NEW s \in DOMAIN streams, HandleResponse(s)
  PROVE  StepOnce
<1> DEFINE uid == Head(streams[s].toClient)
           job == Job("settled", uid, 0)
<1>1. /\ DOMAIN streams = 1 .. Len(streams) /\ \A x \in DOMAIN streams : streams[x] \in SomeStream
  BY SomeShape
<1>2. /\ DOMAIN streams' = DOMAIN streams
      /\ \A x \in DOMAIN streams : streams'[x].waiters = streams[x].waiters
  BY <1>1 DEF HandleResponse, SomeStream
<1>3. /\ jobs = <<>> /\ pending' = pending \ {uid}
      /\ jobs' = IF uid \in pending THEN <<job>> ELSE jobs
  BY DEF HandleResponse, MayRun
<1>4. uid \in Nat
  <2>1. streams[s].toClient \in Seq(Nat) /\ streams[s].toClient # <<>>
    BY <1>1 DEF SomeStream, HandleResponse
  <2> QED
    BY <2>1, RangeOfTail
<1>5. job \in SomeJob /\ job.uid = uid
  BY <1>4 DEF Job, SomeJob
<1> HIDE DEF job, uid
<1>6. Apart(<<job>>) /\ Uids(<<job>>) = {uid} \ {0} /\ Apart(<<>>) /\ Uids(<<>>) = {}
  BY <1>5, ApartFew
<1>7. /\ Apart(jobs') /\ pending' \cap Uids(jobs') = {}
      /\ pending' \cup Uids(jobs') \subseteq pending \cup Uids(jobs)
  BY <1>3, <1>6
<1> QED
  BY <1>2, <1>7, MovesOnce

\* The continuation of onDisconnect or closeEventStream, which is about no
\* request, goes where the others go.
LEMMA OnceWaits ==
  ASSUME NEW strs \in Seq(SomeStream), NEW s \in 1 .. Len(strs), NEW js \in Seq(SomeJob),
         NEW queue \in Seq(SomeJob), NEW pend, OnceOK(strs, queue, pend), Apart(js), \A u : u \notin Uids(js),
         Awaiting(s, js, strs, queue)
  PROVE  OnceOK(streams', jobs', pend) /\ Held(streams', jobs', pend) = Held(strs, queue, pend)
<1>1. Placed(strs, s, js, queue, streams', jobs')
  BY AwaitingDoes DEF Placed
<1>2. Uids(js) \cap Held(strs, queue, pend) = {}
  OBVIOUS
<1>3. OnceOK(streams', jobs', pend) /\ Held(streams', jobs', pend) = Held(strs, queue, pend) \cup Uids(js)
  BY <1>1, <1>2, OncePlaced
<1> QED
  BY <1>3

LEMMA WaitOnce ==
  ASSUME Typed, Once, pending' = pending, NEW wait \in Seq(SomeJob), Apart(wait), Uids(wait) = {},
         NEW strs \in Seq(SomeStream), DOMAIN strs = DOMAIN streams,
         \A x \in DOMAIN streams : strs[x].waiters = streams[x].waiters,
         NEW s \in 1 .. Len(strs), Awaiting(s, wait, strs, jobs)
  PROVE  StepOnce
<1>1. jobs \in Seq(SomeJob)
  BY SomeShape
<1>2. /\ OnceOK(strs, jobs, pending) /\ Held(strs, jobs, pending) \subseteq Outstanding
  <2>1. /\ OnceOK(streams, jobs, pending) /\ Apart(jobs) /\ pending \cap Uids(jobs) = {}
        /\ pending \cup Uids(jobs) \subseteq pending \cup Uids(jobs)
    BY DEF Once, OnceOK
  <2> QED
    BY <2>1, OnceFewer DEF Outstanding
<1>3. OnceOK(streams', jobs', pending) /\ Held(streams', jobs', pending) = Held(strs, jobs, pending)
  BY <1>1, <1>2, OnceWaits
<1> QED
  BY <1>2, <1>3 DEF StepOnce, Once, Outstanding

LEMMA ChannelDropOnce ==
  ASSUME Typed, Once, ChannelDrop
  PROVE  StepOnce
<1> DEFINE job == Job("disconnect", 0, streamPromise)
<1>1. /\ AllBroken \in Seq(SomeStream) /\ Len(AllBroken) = Len(streams) /\ DOMAIN AllBroken = DOMAIN streams
      /\ \A x \in DOMAIN streams : AllBroken[x].waiters = streams[x].waiters
  BY AllBrokenIs, BrokenIs, SomeShape
<1>2. pending' = pending /\ jobs = <<>> /\ streamPromise \in 0 .. Len(streams)
  BY SomeShape DEF ChannelDrop, MayRun
<1>3. job \in SomeJob /\ job.uid = 0
  BY <1>2, SomeShape DEF Job, SomeJob
<1>4. \/ streams' = AllBroken /\ jobs' \in {<<>>, <<job>>}
      \/ streamPromise # 0 /\ Awaiting(streamPromise, <<job>>, AllBroken, jobs)
  BY <1>2 DEF ChannelDrop, AllBroken
<1> DEFINE wait == <<job>>
<1> HIDE DEF job
<1>9. wait \in Seq(SomeJob) /\ Apart(wait) /\ Uids(wait) = {} /\ Apart(<<>>) /\ Uids(<<>>) = {}
  BY <1>3, ApartFew
<1> HIDE DEF wait
<1>5. CASE streams' = AllBroken /\ jobs' \in {<<>>, wait}
  <2>1. Apart(jobs') /\ Uids(jobs') = {}
    BY <1>5, <1>9
  <2> QED
    BY <1>1, <1>2, <1>5, <2>1, MovesOnce
<1>6. CASE streamPromise # 0 /\ Awaiting(streamPromise, wait, AllBroken, jobs)
  <2>1. streamPromise \in 1 .. Len(streams)
    BY <1>2, <1>6, SomeShape
  <2> QED
    BY <1>1, <1>2, <1>6, <1>9, <2>1, WaitOnce
<1> QED
  BY <1>4, <1>5, <1>6 DEF wait

LEMMA CloseEventStreamOnce ==
  ASSUME Typed, Once, CloseEventStream
  PROVE  StepOnce
<1> DEFINE job == Job("close", 0, streamPromise)
<1>1. pending' = pending /\ streamPromise \in 0 .. Len(streams) /\ streams \in Seq(SomeStream)
  BY SomeShape DEF CloseEventStream
<1>2. job \in SomeJob /\ job.uid = 0
  BY <1>1, SomeShape DEF Job, SomeJob
<1>3. \/ UNCHANGED <<streams, jobs>>
      \/ streamPromise # 0 /\ Awaiting(streamPromise, <<job>>, streams, jobs)
  BY DEF CloseEventStream
<1> DEFINE wait == <<job>>
<1> HIDE DEF job
<1>9. wait \in Seq(SomeJob) /\ Apart(wait) /\ Uids(wait) = {} /\ Apart(<<>>) /\ Uids(<<>>) = {}
  BY <1>2, ApartFew
<1> HIDE DEF wait
<1>4. CASE UNCHANGED <<streams, jobs>>
  BY <1>1, <1>4 DEF StepOnce, Once, Outstanding
<1>5. CASE streamPromise # 0 /\ Awaiting(streamPromise, wait, streams, jobs)
  <2>1. streamPromise \in 1 .. Len(streams)
    BY <1>1, <1>5, SomeShape
  <2> QED
    BY <1>1, <1>5, <1>9, <2>1, WaitOnce
<1> QED
  BY <1>3, <1>4, <1>5 DEF wait

\* What onReconnect and onError send: every group's subscription anew, or
\* nothing.
Renewal(batch) == batch = <<>> \/ \E order \in Orders : batch = Resubscriptions(order)

LEMMA RenewalType ==
  ASSUME Typed, NEW batch, Renewal(batch)
  PROVE  batch \in Seq(RequestSet(Len(groups)))
<1>1. batch = <<>> => batch \in Seq(RequestSet(Len(groups)))
  OBVIOUS
<1>2. RegistryOK
  BY DEF Typed
<1> QED
  BY <1>1, <1>2, ResubscriptionsType DEF Renewal

LEMMA RenewalSent ==
  ASSUME Typed, Once, pending' = pending, NEW batch, Renewal(batch),
         NEW strs \in Seq(SomeStream), NEW current \in 0 .. Len(strs), Len(strs) = Len(streams),
         \A x \in DOMAIN streams : strs[x].waiters = streams[x].waiters,
         Send(batch, current, strs, jobs)
  PROVE  StepOnce
<1>1. batch \in Seq(RequestSet(Len(groups)))
  BY RenewalType
<1>2. /\ OnceOK(strs, jobs, pending) /\ Held(strs, jobs, pending) \subseteq Outstanding
      /\ jobs \in Seq(SomeJob)
  <2>1. /\ OnceOK(streams, jobs, pending) /\ Apart(jobs) /\ pending \cap Uids(jobs) = {}
        /\ pending \cup Uids(jobs) \subseteq pending \cup Uids(jobs)
    BY DEF Once, OnceOK
  <2>2. DOMAIN strs = DOMAIN streams
    BY SomeShape, LenProperties
  <2> QED
    BY <2>1, <2>2, OnceFewer, SomeShape DEF Outstanding
<1> QED
  BY <1>1, <1>2, SendsOnce

LEMMA ChannelUpSends ==
  ASSUME ChannelUp
  PROVE  \E batch : Renewal(batch) /\ Send(batch, streamPromise, streams, jobs)
  BY DEF ChannelUp, Renewal

LEMMA StreamErrorRenews ==
  ASSUME NEW s \in DOMAIN streams, StreamError(s)
  PROVE  \E batch, current : /\ Renewal(batch) /\ current \in {0, streamPromise}
                             /\ Send(batch, current, Reported(s), jobs)
  BY DEF StreamError, Renewal, Reported

LEMMA RenewalsOnce ==
  ASSUME Typed, Once, ChannelUp \/ \E s \in DOMAIN streams : StreamError(s)
  PROVE  StepOnce
<1>1. /\ streams \in Seq(SomeStream) /\ streamPromise \in 0 .. Len(streams) /\ Len(streams) \in Nat
      /\ \A x \in DOMAIN streams : streams[x] \in SomeStream
  BY SomeShape
<1>2. CASE ChannelUp
  <2>1. PICK batch : Renewal(batch) /\ Send(batch, streamPromise, streams, jobs)
    BY <1>2, ChannelUpSends
  <2>2. pending' = pending
    BY <1>2 DEF ChannelUp
  <2> QED
    BY <1>1, <2>1, <2>2, RenewalSent
<1>3. ASSUME NEW s \in DOMAIN streams, StreamError(s) PROVE StepOnce
  <2>1. PICK batch, current : /\ Renewal(batch) /\ current \in {0, streamPromise}
                              /\ Send(batch, current, Reported(s), jobs)
    BY <1>3, StreamErrorRenews
  <2>2. pending' = pending
    BY <1>3 DEF StreamError
  <2>3. /\ Reported(s) \in Seq(SomeStream) /\ Len(Reported(s)) = Len(streams)
        /\ \A x \in DOMAIN streams : Reported(s)[x].waiters = streams[x].waiters
    <3>1. [streams[s] EXCEPT !.wire = "dead"].waiters = streams[s].waiters
      BY <1>1 DEF SomeStream
    <3> QED
      BY <3>1, ReportedIs
  <2>4. current \in 0 .. Len(Reported(s))
    BY <1>1, <2>1, <2>3
  <2> QED
    BY <2>1, <2>2, <2>3, <2>4, RenewalSent
<1> QED
  BY <1>2, <1>3

LEMMA InitOnce == Init => Once
<1> SUFFICES ASSUME Init PROVE Once
  OBVIOUS
<1>1. pending = {} /\ jobs = <<>> /\ DOMAIN streams = {1} /\ streams[1] = NewStream
  BY DEF Init
<1>2. Apart(<<>>) /\ Uids(<<>>) = {}
  BY DEF Apart, Uids
<1> QED
  BY <1>1, <1>2, NewStreamIs DEF Once, OnceOK

LEMMA NextOnce == Typed /\ Once /\ [Next]_vars => StepOnce
<1> SUFFICES ASSUME Typed, Once, [Next]_vars PROVE StepOnce
  OBVIOUS
<1>1. CASE Application
  BY <1>1, ListenerCallOnce, CloseEventStreamOnce DEF Application
<1>2. CASE Failures
  BY <1>2, ChannelDropOnce, QuietOnce, ReadyTimeoutOnce DEF Failures
<1>3. CASE Answers
  BY <1>3, QuietOnce, HandleResponseOnce DEF Answers
<1>4. CASE StreamChanges
  BY <1>4, StreamReadyOnce, RenewalsOnce, QuietOnce DEF StreamChanges
<1>5. CASE RunJob
  BY <1>5, WriteJobOnce, SettledJobOnce, OtherJobOnce DEF RunJob
<1>6. CASE ChannelUp
  BY <1>6, RenewalsOnce
<1>7. CASE UNCHANGED vars
  BY <1>7 DEF vars, StepOnce, Once, Outstanding
<1> QED
  BY <1>1, <1>2, <1>3, <1>4, <1>5, <1>6, <1>7 DEF Next

----------------------------------------------------------------------------
(* The order of requests: a stream carries them in the order in which they *)
(* were made, and no request is carried twice.                             *)

\* Jobs write their requests in the order in which these were made.
Ordered(js) ==
  \A i, j \in DOMAIN js : i < j /\ js[i].do = "write" /\ js[j].do = "write" => js[i].uid < js[j].uid

Rising(q) == \A i, j \in DOMAIN q : i < j => q[i] < q[j]

\* The places of one sequence behind another.
LEMMA JoinedPlaces ==
  ASSUME NEW S, NEW as \in Seq(S), NEW bs \in Seq(S)
  PROVE  /\ Len(as) \in Nat /\ Len(bs) \in Nat
         /\ DOMAIN as = 1 .. Len(as) /\ DOMAIN bs = 1 .. Len(bs)
         /\ DOMAIN (as \o bs) = 1 .. Len(as) + Len(bs)
         /\ \A i \in 1 .. Len(as) + Len(bs) :
              (as \o bs)[i] = IF i <= Len(as) THEN as[i] ELSE bs[i - Len(as)]
<1>1. Len(as) \in Nat /\ Len(bs) \in Nat /\ DOMAIN as = 1 .. Len(as) /\ DOMAIN bs = 1 .. Len(bs)
  BY LenProperties
<1>2. /\ as \o bs \in Seq(S) /\ Len(as \o bs) = Len(as) + Len(bs)
      /\ \A i \in 1 .. Len(as) + Len(bs) :
           (as \o bs)[i] = IF i <= Len(as) THEN as[i] ELSE bs[i - Len(as)]
  BY ConcatProperties
<1>3. DOMAIN (as \o bs) = 1 .. Len(as \o bs)
  BY <1>2, LenProperties
<1> QED
  BY <1>1, <1>2, <1>3

LEMMA ElementsAre ==
  ASSUME NEW S, NEW q \in Seq(S)
  PROVE  \A e \in Range(q) : e \in S
  BY LenProperties, ElementOfSeq DEF Range

LEMMA OrderedJoined ==
  ASSUME NEW as \in Seq(SomeJob), NEW bs \in Seq(SomeJob), Ordered(as), Ordered(bs),
         \A a \in Range(as), b \in Range(bs) : a.do = "write" /\ b.do = "write" => a.uid < b.uid
  PROVE  Ordered(as \o bs)
<1> DEFINE n == Len(as)
           m == Len(bs)
           c == as \o bs
<1>0. /\ Len(as) \in Nat /\ Len(bs) \in Nat
      /\ DOMAIN as = 1 .. Len(as) /\ DOMAIN bs = 1 .. Len(bs)
      /\ DOMAIN (as \o bs) = 1 .. Len(as) + Len(bs)
      /\ \A i \in 1 .. Len(as) + Len(bs) :
           (as \o bs)[i] = IF i <= Len(as) THEN as[i] ELSE bs[i - Len(as)]
  BY JoinedPlaces
<1>1. /\ n \in Nat /\ m \in Nat /\ DOMAIN as = 1 .. n /\ DOMAIN bs = 1 .. m
      /\ DOMAIN c = 1 .. n + m
      /\ \A i \in 1 .. n + m : c[i] = IF i <= n THEN as[i] ELSE bs[i - n]
  BY <1>0
<1> HIDE DEF n, m, c
<1>2. ASSUME NEW i \in 1 .. n + m, NEW j \in 1 .. n + m, i < j, c[i].do = "write", c[j].do = "write"
      PROVE  c[i].uid < c[j].uid
  <2>1. CASE j <= n
    <3>0. i \in 1 .. n /\ j \in 1 .. n /\ i <= n
      BY <1>1, <1>2, <2>1
    <3>1. c[i] = as[i] /\ c[j] = as[j]
      BY <1>1, <2>1, <3>0
    <3> QED
      BY <1>1, <1>2, <3>0, <3>1 DEF Ordered
  <2>2. CASE ~(i <= n)
    <3>0. i - n \in 1 .. m /\ j - n \in 1 .. m /\ i - n < j - n /\ ~(j <= n)
      BY <1>1, <1>2, <2>2
    <3>1. c[i] = bs[i - n] /\ c[j] = bs[j - n]
      BY <1>1, <2>2, <3>0
    <3> QED
      BY <1>1, <1>2, <3>0, <3>1 DEF Ordered
  <2>3. CASE i <= n /\ ~(j <= n)
    <3>0. i \in 1 .. n /\ j - n \in 1 .. m
      BY <1>1, <1>2, <2>3
    <3>1. c[i] = as[i] /\ c[j] = bs[j - n]
      BY <1>1, <2>3, <3>0
    <3>2. c[i] \in Range(as) /\ c[j] \in Range(bs)
      BY <1>1, <3>0, <3>1 DEF Range
    <3> QED
      BY <1>2, <3>2
  <2> QED
    BY <2>1, <2>2, <2>3
<1> QED
  BY <1>1, <1>2 DEF Ordered, c

\* The places behind the first one.
LEMMA TailPlaces ==
  ASSUME NEW S, NEW q \in Seq(S), q # <<>>
  PROVE  /\ Len(q) \in Nat /\ DOMAIN q = 1 .. Len(q) /\ 1 \in DOMAIN q /\ Head(q) = q[1]
         /\ DOMAIN Tail(q) = 1 .. Len(q) - 1
         /\ \A i \in DOMAIN Tail(q) : i + 1 \in DOMAIN q /\ 1 < i + 1 /\ Tail(q)[i] = q[i + 1]
<1>1. /\ Len(q) \in Nat /\ Len(q) # 0 /\ DOMAIN q = 1 .. Len(q)
      /\ DOMAIN Tail(q) = 1 .. Len(q) - 1 /\ Head(q) = q[1]
      /\ \A i \in 1 .. Len(q) - 1 : Tail(q)[i] = q[i + 1]
  BY HeadTailProperties, EmptySeq, LenProperties
<1>2. ASSUME NEW i \in 1 .. Len(q) - 1 PROVE i + 1 \in 1 .. Len(q) /\ 1 < i + 1
  BY <1>1
<1> QED
  BY <1>1, <1>2

LEMMA OrderedTail ==
  ASSUME NEW js \in Seq(SomeJob), js # <<>>, Ordered(js)
  PROVE  /\ Ordered(Tail(js))
         /\ \A j \in Range(Tail(js)) : Head(js).do = "write" /\ j.do = "write" => Head(js).uid < j.uid
<1> DEFINE rest == Tail(js)
<1>1. /\ Len(js) \in Nat /\ DOMAIN js = 1 .. Len(js) /\ 1 \in DOMAIN js /\ Head(js) = js[1]
      /\ DOMAIN rest = 1 .. Len(js) - 1
      /\ \A i \in DOMAIN rest : i + 1 \in DOMAIN js /\ 1 < i + 1 /\ rest[i] = js[i + 1]
  BY TailPlaces
<1> HIDE DEF rest
<1>2. Ordered(rest)
  <2>1. ASSUME NEW i \in DOMAIN rest, NEW j \in DOMAIN rest, i < j
        PROVE  i + 1 \in DOMAIN js /\ j + 1 \in DOMAIN js /\ i + 1 < j + 1
    BY <1>1, <2>1
  <2> QED
    BY <1>1, <2>1 DEF Ordered
<1>3. ASSUME NEW j \in Range(rest), Head(js).do = "write", j.do = "write" PROVE Head(js).uid < j.uid
  <2>1. PICK i \in DOMAIN rest : j = rest[i]
    BY DEF Range
  <2> QED
    BY <1>1, <1>3, <2>1 DEF Ordered
<1> QED
  BY <1>2, <1>3 DEF rest

LEMMA RisingTail ==
  ASSUME NEW q \in Seq(Nat), q # <<>>, Rising(q)
  PROVE  Rising(Tail(q)) /\ \A b \in Range(Tail(q)) : Head(q) < b
<1> DEFINE rest == Tail(q)
<1>1. /\ Len(q) \in Nat /\ DOMAIN q = 1 .. Len(q) /\ 1 \in DOMAIN q /\ Head(q) = q[1]
      /\ DOMAIN rest = 1 .. Len(q) - 1
      /\ \A i \in DOMAIN rest : i + 1 \in DOMAIN q /\ 1 < i + 1 /\ rest[i] = q[i + 1]
  BY TailPlaces
<1> HIDE DEF rest
<1>2. Rising(rest)
  <2>1. ASSUME NEW i \in DOMAIN rest, NEW j \in DOMAIN rest, i < j
        PROVE  i + 1 \in DOMAIN q /\ j + 1 \in DOMAIN q /\ i + 1 < j + 1
    BY <1>1, <2>1
  <2> QED
    BY <1>1, <2>1 DEF Rising
<1>3. ASSUME NEW b \in Range(rest) PROVE Head(q) < b
  <2>1. PICK i \in DOMAIN rest : b = rest[i]
    BY DEF Range
  <2> QED
    BY <1>1, <2>1 DEF Rising
<1> QED
  BY <1>2, <1>3 DEF rest

LEMMA RisingAppend ==
  ASSUME NEW q \in Seq(Nat), NEW u \in Nat, Rising(q), \A b \in Range(q) : b < u
  PROVE  Rising(Append(q, u))
<1> DEFINE n   == Len(q)
           all == Append(q, u)
<1>1. /\ n \in Nat /\ DOMAIN q = 1 .. n /\ DOMAIN all = 1 .. n + 1 /\ all[n + 1] = u
      /\ \A i \in 1 .. n : all[i] = q[i]
  <2>1. /\ all \in Seq(Nat) /\ Len(all) = n + 1 /\ all[n + 1] = u
        /\ \A i \in 1 .. n : all[i] = q[i]
    BY AppendProperties
  <2> QED
    BY <2>1, LenProperties
<1> HIDE DEF n, all
<1>2. \A i \in 1 .. n : q[i] \in Range(q)
  BY <1>1 DEF Range
<1>3. ASSUME NEW i \in 1 .. n + 1, NEW j \in 1 .. n + 1, i < j PROVE all[i] < all[j]
  <2>1. i \in 1 .. n
    BY <1>1, <1>3
  <2>2. CASE j = n + 1
    BY <1>1, <1>2, <2>1, <2>2
  <2>3. CASE j # n + 1
    <3>1. j \in 1 .. n
      BY <1>1, <2>3
    <3> QED
      BY <1>1, <1>3, <2>1, <3>1 DEF Rising
  <2> QED
    BY <2>2, <2>3
<1> QED
  BY <1>1, <1>3 DEF Rising, all

\* Jobs that write nothing, and the writes of a batch.
LEMMA OrderedNoWrites ==
  ASSUME NEW js, \A j \in Range(js) : j.do # "write"
  PROVE  Ordered(js)
  BY DEF Ordered, Range

LEMMA OrderedWrites ==
  ASSUME Len(requests) \in Nat, NEW B, NEW batch \in Seq(B), NEW s \in Nat
  PROVE  Ordered(Writes(batch, s))
<1> DEFINE js == Writes(batch, s)
<1>1. /\ DOMAIN js = 1 .. Len(batch) /\ \A i \in 1 .. Len(batch) : js[i].uid = Len(requests) + i
  BY WritesAre
<1> HIDE DEF js
<1>2. Ordered(js)
  BY <1>1 DEF Ordered
<1> QED
  BY <1>2 DEF js

\* What a stream carries to the proxy and back, and what comes behind it: a
\* request made later than all of it and than what the proxy holds.
Carried(str) == Range(str.toServer) \cup Range(str.toClient)

Behind(str, u) == (\A b \in Carried(str) : b < u) /\ \A t \in Targets : str.subs[t] < u

\* Answers come before requests, and requests before what waits to be written.
InLine(str, s) ==
  /\ Rising(str.toClient) /\ Rising(str.toServer) /\ Ordered(str.waiters)
  /\ \A b \in Range(str.toServer) : /\ \A a \in Range(str.toClient) : a < b
                                    /\ \A t \in Targets : str.subs[t] < b
  /\ \A j \in Range(str.waiters) : j.do = "write" => j.via = s /\ Behind(str, j.uid)
  /\ str.promise # "null"
  /\ str.promise = "pending" => str.wire = "none" /\ \A u : u \notin Carried(str)
  /\ str.promise # "pending" => str.wire # "none" /\ \A j : j \notin Range(str.waiters)

InLines(strs) == \A s \in DOMAIN strs : InLine(strs[s], s)

JobsInLine(js, strs) ==
  \A j \in Range(js) : j.do = "write" =>
    /\ j.via \in DOMAIN strs /\ strs[j.via].promise # "pending" /\ Behind(strs[j.via], j.uid)

\* Every request that is carried awaits its answer, on one stream.
CarriedOnce(strs, pend) ==
  /\ \A s \in DOMAIN strs : Carried(strs[s]) \subseteq pend
  /\ \A s, x \in DOMAIN strs : s # x => \A u \in Carried(strs[s]) : u \notin Carried(strs[x])

LinesOK(strs, js, pend) ==
  Ordered(js) /\ InLines(strs) /\ JobsInLine(js, strs) /\ CarriedOnce(strs, pend)

Lines == LinesOK(streams, jobs, pending)

\* No request is later than r.
Below(strs, js, r) ==
  /\ \A s \in DOMAIN strs : /\ \A u \in Carried(strs[s]) : u <= r
                            /\ \A t \in Targets : strs[s].subs[t] <= r
                            /\ \A j \in Range(strs[s].waiters) : j.uid <= r
  /\ \A j \in Range(js) : j.uid <= r

\* Where there is nothing but continuations to add.
Queued(strs, s, js, queue, new, behind) ==
  /\ Placed(strs, s, js, queue, new, behind)
  /\ \A x \in 1 .. Len(strs) : SameButWaiters(strs[x], new[x])

\* Two jobs, one of which is of a request made later.
LEMMA OrderedBehind ==
  ASSUME NEW as \in Seq(SomeJob), NEW bs \in Seq(SomeJob), Ordered(as), Ordered(bs), NEW r \in Nat,
         \A a \in Range(as) : a.uid <= r, \A b \in Range(bs) : b.do = "write" => b.uid > r
  PROVE  Ordered(as \o bs) /\ Range(as \o bs) = Range(as) \cup Range(bs)
<1>1. ASSUME NEW a \in Range(as), NEW b \in Range(bs), a.do = "write", b.do = "write"
      PROVE  a.uid < b.uid
  <2>1. a \in SomeJob /\ b \in SomeJob
    BY ElementsAre
  <2>2. a.uid \in Nat /\ b.uid \in Nat
    BY <2>1 DEF SomeJob
  <2>3. a.uid <= r /\ b.uid > r
    BY <1>1
  <2> QED
    BY <2>2, <2>3
<1>2. Ordered(as \o bs)
  BY <1>1, OrderedJoined
<1>3. Range(as \o bs) = Range(as) \cup Range(bs)
  BY Zenon, RangeConcatenation
<1> QED
  BY <1>2, <1>3

LEMMA LinesQueued ==
  ASSUME NEW strs \in Seq(SomeStream), NEW s \in 1 .. Len(strs), NEW js \in Seq(SomeJob),
         NEW queue \in Seq(SomeJob), NEW pend, NEW new, NEW behind, NEW r \in Nat,
         LinesOK(strs, queue, pend), Below(strs, queue, r), Ordered(js),
         \A j \in Range(js) : j.do = "write" => j.via = s /\ j.uid > r,
         Queued(strs, s, js, queue, new, behind)
  PROVE  LinesOK(new, behind, pend)
<1>1. DOMAIN strs = 1 .. Len(strs) /\ \A x \in 1 .. Len(strs) : strs[x] \in SomeStream
  BY LenProperties, ElementOfSeq
<1> DEFINE ws   == strs[s].waiters
           more == ws \o js
           long == queue \o js
<1>2. /\ DOMAIN new = 1 .. Len(strs)
      /\ \A x \in 1 .. Len(strs) : SameButWaiters(strs[x], new[x])
      /\ \A x \in 1 .. Len(strs) : x # s \/ strs[s].promise # "pending" => new[x].waiters = strs[x].waiters
      /\ strs[s].promise = "pending" => new[s].waiters = more /\ behind = queue
      /\ strs[s].promise # "pending" => behind = long
  BY DEF Queued, Placed
<1>3. ws \in Seq(SomeJob)
  BY <1>1 DEF SomeStream
<1>4. Ordered(more) /\ Range(more) = Range(ws) \cup Range(js)
  <2>1. Ordered(ws) /\ \A a \in Range(ws) : a.uid <= r
    BY <1>1 DEF LinesOK, InLines, InLine, Below
  <2>2. \A b \in Range(js) : b.do = "write" => b.uid > r
    OBVIOUS
  <2> HIDE DEF ws
  <2> QED
    BY <1>3, <2>1, <2>2, OrderedBehind
<1>5. Ordered(long) /\ Range(long) = Range(queue) \cup Range(js)
  <2>1. Ordered(queue) /\ \A a \in Range(queue) : a.uid <= r
    BY DEF LinesOK, Below
  <2>2. \A b \in Range(js) : b.do = "write" => b.uid > r
    OBVIOUS
  <2> QED
    BY <2>1, <2>2, OrderedBehind
<1> HIDE DEF more, long
<1>6. ASSUME NEW x \in 1 .. Len(strs)
      PROVE  /\ Carried(new[x]) = Carried(strs[x])
             /\ \A u : Behind(new[x], u) <=> Behind(strs[x], u)
  BY <1>2 DEF SameButWaiters, Carried, Behind
<1>7. ASSUME NEW x \in 1 .. Len(strs), NEW u, u \in Nat, u > r PROVE Behind(new[x], u)
  <2>1. \A b \in Carried(strs[x]) : b \in Nat /\ b <= r
    <3>1. strs[x].toServer \in Seq(Nat) /\ strs[x].toClient \in Seq(Nat)
      BY <1>1 DEF SomeStream
    <3>2. (\A b \in Range(strs[x].toServer) : b \in Nat) /\ \A b \in Range(strs[x].toClient) : b \in Nat
      BY <3>1, ElementsAre
    <3> QED
      BY <1>1, <3>2 DEF Carried, Below
  <2>2. \A t \in Targets : strs[x].subs[t] \in Nat /\ strs[x].subs[t] <= r
    <3>1. strs[x].subs \in [Targets -> Nat]
      BY <1>1 DEF SomeStream
    <3> QED
      BY <1>1, <3>1 DEF Below
  <2>3. Behind(strs[x], u)
    BY <1>7, <2>1, <2>2 DEF Behind
  <2> QED
    BY <1>6, <2>3
<1>8. CarriedOnce(new, pend)
  BY <1>1, <1>2, <1>6 DEF LinesOK, CarriedOnce
<1>9. \A j \in Range(js) : j.uid \in Nat
  <2>1. \A j \in Range(js) : j \in SomeJob
    BY ElementsAre
  <2> QED
    BY <2>1 DEF SomeJob
<1>10. InLines(new)
  <2> SUFFICES ASSUME NEW x \in 1 .. Len(strs) PROVE InLine(new[x], x)
    BY <1>2 DEF InLines
  <2>1. InLine(strs[x], x)
    BY <1>1 DEF LinesOK, InLines
  <2>2. CASE new[x].waiters = strs[x].waiters
    BY <1>2, <1>6, <2>1, <2>2 DEF InLine, SameButWaiters
  <2>3. CASE x = s /\ strs[s].promise = "pending"
    <3>1. new[x].waiters = more
      BY <1>2, <2>3
    <3>2. Ordered(new[x].waiters)
      BY <1>4, <3>1
    <3>3. \A j \in Range(new[x].waiters) : j.do = "write" => j.via = x /\ Behind(new[x], j.uid)
      <4>1. \A j \in Range(ws) : j.do = "write" => j.via = x /\ Behind(new[x], j.uid)
        BY <1>6, <2>1, <2>3 DEF InLine
      <4>2. \A j \in Range(js) : j.do = "write" => j.via = x /\ Behind(new[x], j.uid)
        BY <1>7, <1>9, <2>3
      <4> QED
        BY <1>4, <3>1, <4>1, <4>2
    <3> QED
      BY <1>2, <1>6, <2>1, <2>3, <3>2, <3>3 DEF InLine, SameButWaiters
  <2> QED
    BY <1>2, <2>2, <2>3
<1>11. JobsInLine(behind, new)
  <2>1. \A x \in 1 .. Len(strs) : new[x].promise = strs[x].promise
    BY <1>2 DEF SameButWaiters
  <2>2. JobsInLine(queue, new)
    BY <1>1, <1>2, <1>6, <2>1 DEF LinesOK, JobsInLine
  <2>3. CASE strs[s].promise = "pending"
    BY <1>2, <2>2, <2>3
  <2>4. CASE strs[s].promise # "pending"
    <3>1. behind = long
      BY <1>2, <2>4
    <3>2. ASSUME NEW j \in Range(js), j.do = "write"
          PROVE  j.via = s /\ new[s].promise # "pending" /\ Behind(new[s], j.uid)
      BY <1>7, <1>9, <2>1, <2>4, <3>2
    <3> QED
      BY <1>2, <1>5, <2>2, <3>1, <3>2 DEF JobsInLine
  <2> QED
    BY <2>3, <2>4
<1>12. Ordered(behind)
  BY <1>2, <1>5 DEF LinesOK
<1> QED
  BY <1>8, <1>10, <1>11, <1>12 DEF LinesOK

----------------------------------------------------------------------------
\* The requests that jobs write to a stream, and all that are on their way to
\* the proxy through it.
Written(js, s) == {j.uid : j \in {i \in Range(js) : i.do = "write" /\ i.via = s}}

Underway(strs, js, s) == Written(js, s) \cup Written(strs[s].waiters, s) \cup Range(strs[s].toServer)

\* The stream is open, or will be.
Serving(str) == str.wire \in {"none", "open"}

\* From one state to another, requests stay under way through a stream until
\* it fails, and none comes up but those that were made.
Flow(strs, js, new, queue, made) ==
  /\ DOMAIN strs \subseteq DOMAIN new
  /\ \A s \in DOMAIN strs : Serving(strs[s]) => Serving(new[s]) \/ new[s].wire \in {"broken", "ended"}
  /\ \A s \in DOMAIN new : Serving(new[s]) =>
       IF s \in DOMAIN strs
       THEN /\ Serving(strs[s]) /\ new[s].subs = strs[s].subs
            /\ Underway(strs, js, s) \subseteq Underway(new, queue, s)
            /\ Underway(new, queue, s) \subseteq Underway(strs, js, s) \cup made
       ELSE new[s].subs = NoSubscriptions /\ Underway(new, queue, s) \subseteq made

LEMMA FlowThen ==
  ASSUME NEW strs, NEW js, NEW mid, NEW between, NEW new, NEW queue, NEW made,
         Flow(strs, js, mid, between, {}), Flow(mid, between, new, queue, made),
         \A s \in DOMAIN strs : Serving(strs[s]) => Serving(mid[s]) \/ new[s].wire = mid[s].wire
  PROVE  Flow(strs, js, new, queue, made)
<1>1. DOMAIN strs \subseteq DOMAIN mid /\ DOMAIN mid \subseteq DOMAIN new
  BY DEF Flow
<1>2. \A s \in DOMAIN strs : Serving(strs[s]) => Serving(new[s]) \/ new[s].wire \in {"broken", "ended"}
  BY <1>1 DEF Flow
<1>3. ASSUME NEW s \in DOMAIN new, Serving(new[s])
      PROVE  IF s \in DOMAIN strs
             THEN /\ Serving(strs[s]) /\ new[s].subs = strs[s].subs
                  /\ Underway(strs, js, s) \subseteq Underway(new, queue, s)
                  /\ Underway(new, queue, s) \subseteq Underway(strs, js, s) \cup made
             ELSE new[s].subs = NoSubscriptions /\ Underway(new, queue, s) \subseteq made
  <2>1. CASE s \notin DOMAIN mid
    <3>1. new[s].subs = NoSubscriptions /\ Underway(new, queue, s) \subseteq made
      BY <1>3, <2>1 DEF Flow
    <3> QED
      BY <1>1, <2>1, <3>1
  <2>2. CASE s \in DOMAIN mid
    <3>1. /\ Serving(mid[s]) /\ new[s].subs = mid[s].subs
          /\ Underway(mid, between, s) \subseteq Underway(new, queue, s)
          /\ Underway(new, queue, s) \subseteq Underway(mid, between, s) \cup made
      BY <1>3, <2>2 DEF Flow
    <3>2. IF s \in DOMAIN strs
          THEN /\ Serving(strs[s]) /\ mid[s].subs = strs[s].subs
               /\ Underway(strs, js, s) \subseteq Underway(mid, between, s)
               /\ Underway(mid, between, s) \subseteq Underway(strs, js, s)
          ELSE mid[s].subs = NoSubscriptions /\ \A u : u \notin Underway(mid, between, s)
      BY <2>2, <3>1 DEF Flow
    <3> QED
      BY <3>1, <3>2
  <2> QED
    BY <2>1, <2>2
<1> QED
  BY <1>1, <1>2, <1>3 DEF Flow

LEMMA WrittenJoined ==
  ASSUME NEW as \in Seq(SomeJob), NEW bs \in Seq(SomeJob), NEW s
  PROVE  Written(as \o bs, s) = Written(as, s) \cup Written(bs, s)
<1> DEFINE c == as \o bs
<1>1. Range(as \o bs) = Range(as) \cup Range(bs)
  BY Zenon, RangeConcatenation
<1>2. Range(c) = Range(as) \cup Range(bs)
  BY <1>1
<1> HIDE DEF c
<1>3. Written(c, s) = Written(as, s) \cup Written(bs, s)
  BY <1>2 DEF Written
<1> QED
  BY <1>3 DEF c

\* What is queued for a stream is under way through it.
LEMMA FlowQueued ==
  ASSUME NEW strs \in Seq(SomeStream), NEW s \in 1 .. Len(strs), NEW js \in Seq(SomeJob),
         NEW queue \in Seq(SomeJob), NEW new, NEW behind,
         \A j \in Range(js) : j.do = "write" => j.via = s,
         Queued(strs, s, js, queue, new, behind)
  PROVE  /\ Flow(strs, queue, new, behind, Written(js, s))
         /\ s \in DOMAIN new /\ Written(js, s) \subseteq Underway(new, behind, s)
<1>1. DOMAIN strs = 1 .. Len(strs) /\ strs[s] \in SomeStream
  BY LenProperties, ElementOfSeq
<1> DEFINE ws   == strs[s].waiters
           more == ws \o js
           long == queue \o js
           made == Written(js, s)
<1>2. /\ DOMAIN new = 1 .. Len(strs)
      /\ \A x \in 1 .. Len(strs) : SameButWaiters(strs[x], new[x])
      /\ \A x \in 1 .. Len(strs) : x # s \/ strs[s].promise # "pending" => new[x].waiters = strs[x].waiters
      /\ strs[s].promise = "pending" => new[s].waiters = more /\ behind = queue
      /\ strs[s].promise # "pending" => behind = long
  BY DEF Queued, Placed
<1>3. ws \in Seq(SomeJob)
  BY <1>1 DEF SomeStream
<1>4. Written(more, s) = Written(ws, s) \cup made
  BY <1>3, WrittenJoined
<1>5. \A x : x # s => Written(long, x) = Written(queue, x)
  <2> SUFFICES ASSUME NEW x, x # s PROVE Written(long, x) = Written(queue, x)
    OBVIOUS
  <2>1. Written(long, x) = Written(queue, x) \cup Written(js, x)
    BY WrittenJoined
  <2>2. \A u : u \notin Written(js, x)
    BY DEF Written
  <2> QED
    BY <2>1, <2>2
<1>6. Written(long, s) = Written(queue, s) \cup made
  BY WrittenJoined
<1> HIDE DEF ws, more, long, made
<1>7. ASSUME NEW x \in 1 .. Len(strs), x # s
      PROVE  Underway(new, behind, x) = Underway(strs, queue, x)
  <2>1. Written(behind, x) = Written(queue, x)
    BY <1>2, <1>5, <1>7
  <2>2. new[x].waiters = strs[x].waiters /\ new[x].toServer = strs[x].toServer
    BY <1>2, <1>7 DEF SameButWaiters
  <2> QED
    BY <2>1, <2>2 DEF Underway
<1>8. Underway(new, behind, s) = Underway(strs, queue, s) \cup made
  <2>1. new[s].toServer = strs[s].toServer
    BY <1>2 DEF SameButWaiters
  <2>2. CASE strs[s].promise = "pending"
    <3>1. Written(new[s].waiters, s) = Written(ws, s) \cup made /\ behind = queue
      BY <1>2, <1>4, <2>2
    <3> QED
      BY <2>1, <3>1 DEF Underway, ws
  <2>3. CASE strs[s].promise # "pending"
    <3>1. Written(behind, s) = Written(queue, s) \cup made /\ new[s].waiters = strs[s].waiters
      BY <1>2, <1>6, <2>3
    <3> QED
      BY <2>1, <3>1 DEF Underway
  <2> QED
    BY <2>2, <2>3
<1>9. \A x \in 1 .. Len(strs) : new[x].wire = strs[x].wire /\ new[x].subs = strs[x].subs
  BY <1>2 DEF SameButWaiters
<1>10. Flow(strs, queue, new, behind, made)
  BY <1>1, <1>2, <1>7, <1>8, <1>9 DEF Flow, Serving
<1> QED
  BY <1>2, <1>8, <1>10 DEF made

\* A new stream carries nothing.
LEMMA EnsuringLines ==
  ASSUME NEW strs \in Seq(SomeStream), NEW current \in 0 .. Len(strs), NEW js \in Seq(SomeJob), NEW pend,
         LinesOK(strs, js, pend), NEW r \in Nat, Below(strs, js, r)
  PROVE  LET all == Ensuring(current, strs)
         IN LinesOK(all, js, pend) /\ Below(all, js, r) /\ Flow(strs, js, all, js, {})
<1> DEFINE all == Ensuring(current, strs)
           n   == Len(strs)
<1>0. \A x \in DOMAIN strs : Serving(strs[x]) => Serving(strs[x]) /\ strs[x].subs = strs[x].subs
  OBVIOUS
<1>1. CASE current # 0
  <2>1. all = strs
    BY <1>1 DEF Ensuring
  <2>2. Flow(strs, js, strs, js, {})
    BY DEF Flow
  <2> QED
    BY <2>1, <2>2
<1>2. CASE current = 0
  <2>1. /\ n \in Nat /\ DOMAIN strs = 1 .. n /\ DOMAIN all = 1 .. n + 1
        /\ \A x \in 1 .. n : all[x] = strs[x]
        /\ all[n + 1] = NewStream
    BY <1>2, EnsuringDoes, LenProperties
  <2>2. /\ NewStream.promise = "pending" /\ NewStream.wire = "none"
        /\ \A j : j \notin Range(NewStream.waiters)
        /\ \A u : u \notin Range(NewStream.toServer) /\ u \notin Carried(NewStream)
        /\ NewStream.subs = NoSubscriptions /\ \A t \in Targets : NewStream.subs[t] = 0
        /\ InLine(NewStream, n + 1)
    <3>1. Range(<<>>) = {} /\ Rising(<<>>) /\ Ordered(<<>>)
      BY DEF Range, Rising, Ordered
    <3>2. /\ NewStream.promise = "pending" /\ NewStream.wire = "none" /\ NewStream.waiters = <<>>
          /\ NewStream.toServer = <<>> /\ NewStream.toClient = <<>> /\ NewStream.subs = NoSubscriptions
      BY NewStreamIs
    <3>3. /\ \A j : j \notin Range(NewStream.waiters)
          /\ \A u : u \notin Range(NewStream.toServer) /\ u \notin Carried(NewStream)
          /\ Rising(NewStream.toServer) /\ Rising(NewStream.toClient) /\ Ordered(NewStream.waiters)
      BY <3>1, <3>2 DEF Carried
    <3>4. \A t \in Targets : NewStream.subs[t] = 0
      BY <3>2 DEF NoSubscriptions
    <3>5. NewStream.promise # "null"
      BY <3>2
    <3> QED
      BY <3>2, <3>3, <3>4, <3>5 DEF InLine
  <2> HIDE DEF all, n
  <2>3. DOMAIN all = 1 .. n \cup {n + 1} /\ n + 1 \notin 1 .. n
    BY <2>1
  <2>4. \A j \in Range(js) : j.do = "write" => j.via # n + 1
    BY <2>1, <2>3 DEF LinesOK, JobsInLine
  <2>5. InLines(all)
    BY <2>1, <2>2, <2>3 DEF LinesOK, InLines
  <2>6. JobsInLine(js, all)
    BY <2>1, <2>3, <2>4 DEF LinesOK, JobsInLine
  <2>7. CarriedOnce(all, pend)
    BY <2>1, <2>2, <2>3 DEF LinesOK, CarriedOnce
  <2>8. Below(all, js, r)
    BY SMTT(30), <2>1, <2>2, <2>3 DEF Below
  <2>9. \A u : u \notin Underway(all, js, n + 1)
    BY <2>1, <2>2, <2>4 DEF Underway, Written
  <2>10. \A x \in 1 .. n : Underway(all, js, x) = Underway(strs, js, x)
    BY <2>1 DEF Underway
  <2>11. Flow(strs, js, all, js, {})
    BY <2>1, <2>2, <2>3, <2>9, <2>10 DEF Flow
  <2> QED
    BY <2>5, <2>6, <2>7, <2>8, <2>11 DEF LinesOK, all
<1> QED
  BY <1>1, <1>2

\* The requests that a step has made.
Fresh == DOMAIN requests' \ DOMAIN requests

\* What was made is under way through the current stream.
Sent == \A u \in Fresh : streamPromise' \in DOMAIN streams' /\ u \in Underway(streams', jobs', streamPromise')

StepLines == Lines' /\ Flow(streams, jobs, streams', jobs', Fresh) /\ Sent

\* Requests are queued in the order in which they are made.
LEMMA LinesSent ==
  ASSUME Typed, NEW B, NEW batch \in Seq(B), NEW strs \in Seq(SomeStream),
         NEW current \in 0 .. Len(strs), NEW queue \in Seq(SomeJob), NEW pend,
         LinesOK(strs, queue, pend), Below(strs, queue, Len(requests)),
         Send(batch, current, strs, queue)
  PROVE  /\ LinesOK(streams', jobs', pend) /\ Flow(strs, queue, streams', jobs', Fresh) /\ Sent
         /\ \A s \in DOMAIN strs : streams'[s].wire = strs[s].wire
<1> DEFINE r == Len(requests)
<1>1. /\ r \in Nat /\ DOMAIN requests = 1 .. r
      /\ Len(batch) \in Nat /\ DOMAIN requests' = 1 .. r + Len(batch)
  <2>1. requests' = requests \o batch
    BY DEF Send
  <2> QED
    BY <2>1, RequestsJoined
<1>2. Fresh = r + 1 .. r + Len(batch)
  BY <1>1 DEF Fresh
<1>3. CASE batch = <<>>
  <2>1. streams' = strs /\ jobs' = queue
    BY <1>1, <1>3, SendDoes
  <2>2. \A u : u \notin Fresh
    BY <1>1, <1>2, <1>3
  <2>3. Flow(strs, queue, streams', jobs', Fresh)
    BY <2>1 DEF Flow
  <2> QED
    BY <2>1, <2>2, <2>3 DEF Sent
<1>4. CASE batch # <<>>
  <2> DEFINE s   == Ensured(current, strs)
             all == Ensuring(current, strs)
             js  == Writes(batch, s)
  <2>1. /\ streamPromise' = s /\ s \in 1 .. Len(all)
        /\ DOMAIN streams' = 1 .. Len(all)
        /\ \A x \in 1 .. Len(all) : SameButWaiters(all[x], streams'[x])
        /\ \A x \in 1 .. Len(all) :
             streams'[x].waiters = IF x = s /\ all[s].promise = "pending" THEN all[s].waiters \o js ELSE all[x].waiters
        /\ jobs' = IF all[s].promise = "pending" THEN queue ELSE queue \o js
    BY <1>1, <1>4, SendDoes
  <2>2. /\ all \in Seq(SomeStream) /\ Len(strs) \in Nat /\ DOMAIN strs = 1 .. Len(strs)
        /\ \A x \in 1 .. Len(strs) : all[x] = strs[x]
        /\ Len(all) = IF current = 0 THEN Len(strs) + 1 ELSE Len(strs)
    BY EnsuringDoes, LenProperties
  <2>3. LinesOK(all, queue, pend) /\ Below(all, queue, r) /\ Flow(strs, queue, all, queue, {})
    BY <1>1, EnsuringLines
  <2> HIDE DEF all, s
  <2>4. s \in Nat
    BY <2>1, <2>2, LenProperties
  <2>50. Ordered(js)
    BY <1>1, <2>4, OrderedWrites
  <2>51. /\ js \in Seq(SomeJob) /\ DOMAIN js = 1 .. Len(batch)
         /\ \A i \in 1 .. Len(batch) : js[i].do = "write" /\ js[i].uid = r + i /\ js[i].via = s
         /\ \A j \in Range(js) : j.do = "write" /\ j.via = s /\ j.uid > r
    BY <1>1, <2>4, WritesAre
  <2>5. /\ js \in Seq(SomeJob) /\ Ordered(js) /\ DOMAIN js = 1 .. Len(batch)
        /\ \A i \in 1 .. Len(batch) : js[i].do = "write" /\ js[i].uid = r + i /\ js[i].via = s
        /\ \A j \in Range(js) : j.do = "write" /\ j.via = s /\ j.uid > r
    BY <2>50, <2>51
  <2> HIDE DEF js, r
  <2>6. Queued(all, s, js, queue, streams', jobs')
    BY <2>1 DEF Queued, Placed
  <2>7. LinesOK(streams', jobs', pend)
    <3>1. /\ s \in 1 .. Len(all) /\ r \in Nat
          /\ \A j \in Range(js) : j.do = "write" => j.via = s /\ j.uid > r
      BY <1>1, <2>1, <2>5
    <3> QED
      BY <2>2, <2>3, <2>5, <2>6, <3>1, LinesQueued
  <2>8. /\ Flow(all, queue, streams', jobs', Written(js, s))
        /\ s \in DOMAIN streams' /\ Written(js, s) \subseteq Underway(streams', jobs', s)
    <3>1. s \in 1 .. Len(all) /\ \A j \in Range(js) : j.do = "write" => j.via = s
      BY <2>1, <2>5
    <3> QED
      BY <2>2, <2>5, <2>6, <3>1, FlowQueued
  <2>9. Written(js, s) = Fresh
    <3>0. Written(js, s) = {js[i].uid : i \in 1 .. Len(batch)}
      BY <2>5 DEF Written, Range
    <3>1. Written(js, s) = {r + i : i \in 1 .. Len(batch)}
      BY <2>5, <3>0
    <3>2. \A u \in r + 1 .. r + Len(batch) : u - r \in 1 .. Len(batch) /\ u = r + (u - r)
      BY <1>1
    <3>3. \A i \in 1 .. Len(batch) : r + i \in r + 1 .. r + Len(batch)
      BY <1>1
    <3> QED
      BY <1>2, <3>1, <3>2, <3>3
  <2>10. Flow(strs, queue, streams', jobs', Fresh)
    <3>1. \A x \in DOMAIN strs : Serving(strs[x]) => Serving(all[x])
      BY <2>2
    <3> QED
      BY <2>3, <2>8, <2>9, <3>1, FlowThen
  <2>11. \A x \in DOMAIN strs : streams'[x].wire = strs[x].wire
    <3>1. \A x \in 1 .. Len(strs) : x \in 1 .. Len(all)
      BY <2>2
    <3> QED
      BY <2>1, <2>2, <3>1 DEF SameButWaiters
  <2> QED
    BY <2>1, <2>7, <2>8, <2>9, <2>10, <2>11 DEF Sent
<1> QED
  BY <1>3, <1>4

\* Nothing refers to a request or a stream that is not there.
LEMMA TypedBelow ==
  ASSUME Typed
  PROVE  /\ Below(streams, jobs, Len(requests))
         /\ \A s \in DOMAIN streams : \A u \in Carried(streams[s]) : u \in 1 .. Len(requests)
<1> DEFINE r == Len(requests)
           n == Len(streams)
<1>1. /\ streams \in Seq(StreamSet(r, n)) /\ jobs \in Seq(JobSet(r, n)) /\ r \in Nat /\ n \in Nat
      /\ DOMAIN streams = 1 .. Len(streams)
  BY LenProperties DEF Typed, MessagesOK, OthersOK
<1> HIDE DEF r, n
<1>2. ASSUME NEW js \in Seq(JobSet(r, n)), NEW j \in Range(js) PROVE j.via \in 0 .. n /\ j.uid \in 0 .. r
  <2>1. j \in JobSet(r, n)
    BY ElementsAre
  <2> QED
    BY <1>1, <2>1 DEF JobSet
<1>3. \A x \in DOMAIN streams : streams[x] \in StreamSet(r, n)
  BY <1>1, ElementOfSeq
<1>4. ASSUME NEW x \in DOMAIN streams
      PROVE  /\ \A u \in Carried(streams[x]) : u \in 1 .. r
             /\ \A t \in Targets : streams[x].subs[t] \in 0 .. r
             /\ \A j \in Range(streams[x].waiters) : j.uid \in 0 .. r
  <2>1. /\ streams[x].waiters \in Seq(JobSet(r, n)) /\ streams[x].subs \in [Targets -> 0 .. r]
        /\ streams[x].toServer \in Seq(1 .. r) /\ streams[x].toClient \in Seq(1 .. r)
    BY <1>3 DEF StreamSet
  <2>2. (\A u \in Range(streams[x].toServer) : u \in 1 .. r) /\ \A u \in Range(streams[x].toClient) : u \in 1 .. r
    BY <2>1, ElementsAre
  <2> QED
    BY <1>2, <2>1, <2>2 DEF Carried
<1>5. \A u \in 0 .. r : u <= r
  BY <1>1
<1>6. \A u \in 1 .. r : u <= r
  BY <1>1
<1>7. \A j \in Range(jobs) : j.via \in 0 .. n /\ j.uid \in 0 .. r
  BY <1>1, <1>2
<1> QED
  BY <1>4, <1>5, <1>6, <1>7 DEF Below, r, n

\* A step that sends a batch.
LEMMA SendsLines ==
  ASSUME Typed, NEW B, NEW batch \in Seq(B), NEW strs \in Seq(SomeStream),
         NEW current \in 0 .. Len(strs), NEW queue \in Seq(SomeJob),
         LinesOK(strs, queue, pending), Below(strs, queue, Len(requests)),
         Flow(streams, jobs, strs, queue, {}), \A s \in DOMAIN streams : Serving(streams[s]) => Serving(strs[s]),
         Send(batch, current, strs, queue), pending' = pending
  PROVE  StepLines
<1>1. LinesOK(streams', jobs', pending) /\ Flow(strs, queue, streams', jobs', Fresh) /\ Sent
  BY LinesSent
<1>2. Flow(streams, jobs, streams', jobs', Fresh)
  BY <1>1, FlowThen
<1> QED
  BY <1>1, <1>2 DEF StepLines, Lines
\* A step without requests.
LEMMA QuietLines ==
  ASSUME requests' = requests, LinesOK(streams', jobs', pending'), Flow(streams, jobs, streams', jobs', {})
  PROVE  StepLines
<1>1. \A u : u \notin Fresh
  BY DEF Fresh
<1>2. Fresh = {}
  BY <1>1
<1>3. Sent
  BY <1>1 DEF Sent
<1> QED
  BY <1>2, <1>3 DEF StepLines, Lines

\* The first job has run, and it was not to write.
LEMMA LinesAfter ==
  ASSUME NEW strs, NEW js \in Seq(SomeJob), js # <<>>, Head(js).do # "write", NEW pend, LinesOK(strs, js, pend)
  PROVE  /\ LinesOK(strs, Tail(js), pend) /\ Flow(strs, js, strs, Tail(js), {})
         /\ Range(Tail(js)) \subseteq Range(js) /\ Tail(js) \in Seq(SomeJob)
<1>1. /\ Range(js) = {Head(js)} \cup Range(Tail(js)) /\ Tail(js) \in Seq(SomeJob)
  BY RangeOfTail
<1>2. Ordered(Tail(js))
  BY OrderedTail DEF LinesOK
<1>3. JobsInLine(Tail(js), strs)
  BY <1>1 DEF LinesOK, JobsInLine
<1>4. \A s : Written(Tail(js), s) = Written(js, s)
  BY <1>1 DEF Written
<1>5. Flow(strs, js, strs, Tail(js), {})
  BY <1>4 DEF Flow, Underway
<1> QED
  BY <1>1, <1>2, <1>3, <1>5 DEF LinesOK

LEMMA ListenerCallLines ==
  ASSUME Typed, Lines, NEW t, NEW l, NEW isLite, AddListener(t, l, isLite) \/ RemoveListener(t, l)
  PROVE  StepLines
<1>1. /\ pending' = pending
      /\ \E g, steps : Call(t, g, steps)
  BY DEF AddListener, RemoveListener
<1>2. PICK B : \E batch \in Seq(B) : Send(batch, streamPromise, streams, jobs)
  BY <1>1, CallSends
<1>3. PICK batch \in Seq(B) : Send(batch, streamPromise, streams, jobs)
  BY <1>2
<1>4. streams \in Seq(SomeStream) /\ jobs \in Seq(SomeJob) /\ streamPromise \in 0 .. Len(streams)
  BY SomeShape
<1>5. LinesOK(streams, jobs, pending) /\ Below(streams, jobs, Len(requests)) /\ Flow(streams, jobs, streams, jobs, {})
  BY TypedBelow DEF Lines, Flow
<1> QED
  BY <1>1, <1>3, <1>4, <1>5, SendsLines

LEMMA SettledJobLines ==
  ASSUME Typed, Lines, jobs # <<>>, SettledJob(Head(jobs))
  PROVE  StepLines
<1> DEFINE r   == requests[Head(jobs).uid]
           req == Request(r.group, r.rest, r.call)
<1>1. streams \in Seq(SomeStream) /\ jobs \in Seq(SomeJob) /\ streamPromise \in 0 .. Len(streams)
  BY SomeShape
<1>2. pending' = pending /\ \E B : \E batch \in Seq(B) : Send(batch, streamPromise, streams, Tail(jobs))
  <2>1. /\ pending' = pending
        /\ Send(<<req>>, streamPromise, streams, Tail(jobs)) \/ Send(<<>>, streamPromise, streams, Tail(jobs))
    BY DEF SettledJob
  <2> HIDE DEF req
  <2>2. <<req>> \in Seq({req}) /\ <<>> \in Seq({req})
    OBVIOUS
  <2> QED
    BY <2>1, <2>2
<1>3. PICK B : \E batch \in Seq(B) : Send(batch, streamPromise, streams, Tail(jobs))
  BY <1>2
<1>4. PICK batch \in Seq(B) : Send(batch, streamPromise, streams, Tail(jobs))
  BY <1>3
<1>5. /\ LinesOK(streams, Tail(jobs), pending) /\ Flow(streams, jobs, streams, Tail(jobs), {})
      /\ Range(Tail(jobs)) \subseteq Range(jobs) /\ Tail(jobs) \in Seq(SomeJob)
  <2>1. LinesOK(streams, jobs, pending) /\ Head(jobs).do # "write"
    BY DEF Lines, SettledJob
  <2> QED
    BY <1>1, <2>1, LinesAfter
<1>6. Below(streams, Tail(jobs), Len(requests))
  BY <1>5, TypedBelow DEF Below
<1> QED
  BY <1>1, <1>2, <1>4, <1>5, <1>6, SendsLines

\* A stream that stays as it is, or fails or is closed and may lose everything.
Wanes(str, new) ==
  /\ new.promise = str.promise /\ new.waiters = str.waiters
  /\ \/ new.wire = str.wire
     \/ /\ str.wire # "none" /\ ~Serving(new)
        /\ str.wire = "open" => new.wire \in {"broken", "ended"}
  /\ \/ new.toServer = str.toServer /\ new.toClient = str.toClient /\ new.subs = str.subs
     \/ ~Serving(new) /\ new.toServer = <<>> /\ new.toClient = <<>> /\ new.subs = NoSubscriptions

LEMMA WaningLine ==
  ASSUME NEW str \in SomeStream, NEW new, Wanes(str, new), NEW s, InLine(str, s)
  PROVE  /\ InLine(new, s) /\ Carried(new) \subseteq Carried(str)
         /\ \A u \in Nat : Behind(str, u) => Behind(new, u)
<1>1. CASE new.toServer = str.toServer /\ new.toClient = str.toClient /\ new.subs = str.subs
  <2>1. Carried(new) = Carried(str) /\ \A u : Behind(new, u) <=> Behind(str, u)
    BY <1>1 DEF Carried, Behind
  <2> QED
    BY <1>1, <2>1 DEF InLine, Wanes, Serving
<1>2. CASE ~Serving(new) /\ new.toServer = <<>> /\ new.toClient = <<>> /\ new.subs = NoSubscriptions
  <2>1. Range(<<>>) = {} /\ Rising(<<>>)
    BY DEF Range, Rising
  <2>2. /\ \A u : u \notin Range(new.toServer) /\ u \notin Carried(new)
        /\ Rising(new.toServer) /\ Rising(new.toClient)
    BY <1>2, <2>1 DEF Carried
  <2>3. \A u \in Nat : Behind(str, u) => Behind(new, u)
    <3>1. \A t \in Targets : str.subs[t] \in Nat /\ new.subs[t] = 0
      BY <1>2 DEF SomeStream, NoSubscriptions
    <3> QED
      BY <2>2, <3>1 DEF Behind
  <2> QED
    BY <1>2, <2>2, <2>3 DEF InLine, Wanes, Serving
<1> QED
  BY <1>1, <1>2 DEF Wanes
LEMMA LinesWane ==
  ASSUME NEW strs \in Seq(SomeStream), NEW new, NEW js \in Seq(SomeJob), NEW pend,
         DOMAIN new = DOMAIN strs, \A s \in DOMAIN strs : Wanes(strs[s], new[s]),
         LinesOK(strs, js, pend)
  PROVE  LinesOK(new, js, pend) /\ Flow(strs, js, new, js, {})
<1>1. \A s \in DOMAIN strs : strs[s] \in SomeStream
  BY LenProperties, ElementOfSeq
<1>2. ASSUME NEW s \in DOMAIN strs
      PROVE  /\ InLine(new[s], s) /\ Carried(new[s]) \subseteq Carried(strs[s])
             /\ \A u \in Nat : Behind(strs[s], u) => Behind(new[s], u)
             /\ new[s].promise = strs[s].promise
  <2>1. InLine(strs[s], s) /\ Wanes(strs[s], new[s]) /\ strs[s] \in SomeStream
    BY <1>1 DEF LinesOK, InLines
  <2>2. new[s].promise = strs[s].promise
    BY <2>1 DEF Wanes
  <2> QED
    BY <2>1, <2>2, WaningLine
<1>3. InLines(new)
  BY <1>2 DEF InLines
<1>4. JobsInLine(js, new)
  <2>0. \A j \in Range(js) : j \in SomeJob
    BY ElementsAre
  <2>1. \A j \in Range(js) : j.uid \in Nat
    BY <2>0 DEF SomeJob
  <2> QED
    BY <1>2, <2>1 DEF LinesOK, JobsInLine
<1>5. CarriedOnce(new, pend)
  BY <1>2 DEF LinesOK, CarriedOnce
<1>6. Flow(strs, js, new, js, {})
  <2>1. ASSUME NEW s \in DOMAIN strs, Serving(new[s])
        PROVE  /\ Serving(strs[s]) /\ new[s].subs = strs[s].subs
               /\ Underway(new, js, s) = Underway(strs, js, s)
    <3>1. Wanes(strs[s], new[s])
      OBVIOUS
    <3>2. /\ Serving(strs[s]) /\ new[s].subs = strs[s].subs
          /\ new[s].waiters = strs[s].waiters /\ new[s].toServer = strs[s].toServer
      BY <2>1, <3>1 DEF Wanes, Serving
    <3> QED
      BY <3>2 DEF Underway
  <2>2. ASSUME NEW s \in DOMAIN strs, Serving(strs[s])
        PROVE  Serving(new[s]) \/ new[s].wire \in {"broken", "ended"}
    BY <2>2 DEF Wanes, Serving
  <2> QED
    BY <2>1, <2>2 DEF Flow
<1> QED
  BY <1>3, <1>4, <1>5, <1>6 DEF LinesOK

LEMMA BrokenWanes ==
  ASSUME NEW str \in SomeStream
  PROVE  Wanes(str, Broken(str))
<1>1. CASE str.wire \in {"open", "ended"}
  <2> DEFINE new == [str EXCEPT !.wire = "broken", !.toServer = <<>>, !.toClient = <<>>, !.subs = NoSubscriptions]
  <2>1. Broken(str) = new
    BY <1>1 DEF Broken
  <2>2. /\ new.promise = str.promise /\ new.waiters = str.waiters /\ new.wire = "broken"
        /\ new.toServer = <<>> /\ new.toClient = <<>> /\ new.subs = NoSubscriptions
    BY DEF SomeStream
  <2> HIDE DEF new
  <2> QED
    BY <1>1, <2>1, <2>2 DEF Wanes, Serving
<1>2. CASE str.wire \notin {"open", "ended"}
  BY <1>2 DEF Broken, Wanes
<1> QED
  BY <1>1, <1>2

\* One stream wanes, and a job that was not to write may have run.
LEMMA OneWanes ==
  ASSUME Typed, Lines, requests' = requests, pending' = pending, NEW s \in DOMAIN streams, NEW new,
         streams' = [streams EXCEPT ![s] = new], Wanes(streams[s], new),
         jobs' = jobs \/ (jobs # <<>> /\ Head(jobs).do # "write" /\ jobs' = Tail(jobs))
  PROVE  StepLines
<1>1. streams \in Seq(SomeStream) /\ jobs \in Seq(SomeJob)
  BY SomeShape
<1>2. /\ LinesOK(streams, jobs', pending) /\ Flow(streams, jobs, streams, jobs', {}) /\ jobs' \in Seq(SomeJob)
  <2>1. CASE jobs' = jobs
    BY <1>1, <2>1 DEF Lines, Flow
  <2>2. CASE jobs # <<>> /\ Head(jobs).do # "write" /\ jobs' = Tail(jobs)
    BY <1>1, <2>2, LinesAfter DEF Lines
  <2> QED
    BY <2>1, <2>2
<1>3. DOMAIN streams' = DOMAIN streams /\ \A x \in DOMAIN streams : Wanes(streams[x], streams'[x])
  BY DEF Wanes
<1>4. LinesOK(streams', jobs', pending) /\ Flow(streams, jobs', streams', jobs', {})
  BY <1>1, <1>2, <1>3, LinesWane
<1>5. Flow(streams, jobs, streams', jobs', {})
  BY <1>2, <1>4, FlowThen
<1> QED
  BY <1>4, <1>5, QuietLines

LEMMA WaningLines ==
  ASSUME Typed, Lines, NEW s \in DOMAIN streams, StreamFail(s) \/ StreamEnd(s)
  PROVE  StepLines
<1>1. streams[s] \in SomeStream
  BY SomeShape
<1>2. CASE StreamFail(s)
  <2>1. /\ requests' = requests /\ pending' = pending /\ jobs' = jobs
        /\ streams' = [streams EXCEPT ![s] = Broken(streams[s])]
    BY <1>2 DEF StreamFail
  <2>2. Wanes(streams[s], Broken(streams[s]))
    BY <1>1, BrokenWanes
  <2> QED
    BY <2>1, <2>2, OneWanes
<1>3. CASE StreamEnd(s)
  <2> DEFINE new == [streams[s] EXCEPT !.wire = "dead", !.subs = NoSubscriptions]
  <2>1. /\ requests' = requests /\ pending' = pending /\ jobs' = jobs
        /\ streams' = [streams EXCEPT ![s] = new]
        /\ streams[s].wire = "ended" /\ streams[s].toServer = <<>> /\ streams[s].toClient = <<>>
    BY <1>3 DEF StreamEnd
  <2>2. /\ new.promise = streams[s].promise /\ new.waiters = streams[s].waiters
        /\ new.wire = "dead" /\ new.subs = NoSubscriptions
        /\ new.toServer = streams[s].toServer /\ new.toClient = streams[s].toClient
    BY <1>1 DEF SomeStream
  <2> HIDE DEF new
  <2>3. Wanes(streams[s], new)
    BY <2>1, <2>2 DEF Wanes, Serving
  <2> QED
    BY <2>1, <2>3, OneWanes
<1> QED
  BY <1>2, <1>3

LEMMA OtherJobLines ==
  ASSUME Typed, Lines, jobs # <<>>, DisconnectJob(Head(jobs)) \/ CloseJob(Head(jobs))
  PROVE  StepLines
<1> DEFINE v == Head(jobs).via
<1>1. \A x \in DOMAIN streams : streams[x] \in SomeStream
  BY SomeShape
<1>2. streams \in Seq(SomeStream) /\ jobs \in Seq(SomeJob) /\ LinesOK(streams, jobs, pending)
  BY SomeShape DEF Lines
<1>3. requests' = requests /\ pending' = pending /\ jobs' = Tail(jobs) /\ Head(jobs).do # "write"
  BY DEF DisconnectJob, CloseJob
<1>4. CASE streams' = streams
  <2>1. LinesOK(streams, Tail(jobs), pending) /\ Flow(streams, jobs, streams, Tail(jobs), {})
    BY <1>2, <1>3, LinesAfter
  <2> QED
    BY <1>3, <1>4, <2>1, QuietLines
<1>5. ASSUME v \in DOMAIN streams, streams' = [streams EXCEPT ![v] = Broken(streams[v])] PROVE StepLines
  <2>1. Wanes(streams[v], Broken(streams[v]))
    BY <1>1, <1>5, BrokenWanes
  <2> QED
    BY <1>3, <1>5, <2>1, OneWanes
<1>6. ASSUME v \in DOMAIN streams, streams[v].wire = "open",
             streams' = [streams EXCEPT ![v] = [streams[v] EXCEPT !.wire = "ended"]]
      PROVE  StepLines
  <2> DEFINE new == [streams[v] EXCEPT !.wire = "ended"]
  <2>1. /\ new.wire = "ended" /\ new.promise = streams[v].promise
        /\ new.waiters = streams[v].waiters /\ new.toServer = streams[v].toServer
        /\ new.toClient = streams[v].toClient /\ new.subs = streams[v].subs
    BY <1>1, <1>6, StreamEnded
  <2>2. streams' = [streams EXCEPT ![v] = new]
    BY <1>6
  <2> HIDE DEF new
  <2>3. Wanes(streams[v], new)
    BY <1>6, <2>1 DEF Wanes, Serving
  <2> QED
    BY <1>3, <1>6, <2>2, <2>3, OneWanes
<1>7. v \notin DOMAIN streams => streams' = streams
  <2>1. streams \in [DOMAIN streams -> SomeStream]
    BY <1>2, LenProperties
  <2>2. ASSUME v \notin DOMAIN streams, NEW new PROVE [streams EXCEPT ![v] = new] = streams
    BY <2>1, <2>2
  <2> QED
    BY <2>2 DEF DisconnectJob, CloseJob
<1>8. \/ streams' = streams \/ streams' = [streams EXCEPT ![v] = Broken(streams[v])]
      \/ streams[v].wire = "open" /\ streams' = [streams EXCEPT ![v] = [streams[v] EXCEPT !.wire = "ended"]]
  BY DEF DisconnectJob, CloseJob
<1> QED
  BY <1>4, <1>5, <1>6, <1>7, <1>8
\* One stream is replaced, and the jobs are.
LEMMA OneInLine ==
  ASSUME NEW strs, NEW js, NEW pend, LinesOK(strs, js, pend), NEW s \in DOMAIN strs, NEW new,
         DOMAIN new = DOMAIN strs, \A x \in DOMAIN strs : x # s => new[x] = strs[x], InLine(new[s], s),
         NEW queue, Ordered(queue),
         \A j \in Range(queue) : j.do = "write" =>
           \/ j.via = s /\ new[s].promise # "pending" /\ Behind(new[s], j.uid)
           \/ j.via # s /\ j \in Range(js),
         NEW left, Carried(new[s]) \subseteq left,
         \A x \in DOMAIN strs : x # s => /\ Carried(strs[x]) \subseteq left
                                         /\ \A u \in Carried(new[s]) : u \notin Carried(strs[x])
  PROVE  LinesOK(new, queue, left)
<1>1. InLines(new)
  BY DEF LinesOK, InLines
<1>2. JobsInLine(queue, new)
  BY DEF LinesOK, JobsInLine
<1>3. CarriedOnce(new, left)
  BY DEF LinesOK, CarriedOnce
<1> QED
  BY <1>1, <1>2, <1>3 DEF LinesOK

\* A request that was to be written is carried, behind the others, or lost.
LEMMA WriteJobLines ==
  ASSUME Typed, Once, Lines, jobs # <<>>, WriteJob(Head(jobs))
  PROVE  StepLines
<1> DEFINE job == Head(jobs)
           v   == job.via
           uid == job.uid
           rest == Tail(jobs)
<1>1. /\ streams \in Seq(SomeStream) /\ jobs \in Seq(SomeJob) /\ LinesOK(streams, jobs, pending)
      /\ \A x \in DOMAIN streams : streams[x] \in SomeStream
  BY SomeShape DEF Lines
<1>2. /\ Range(jobs) = {job} \cup Range(rest) /\ rest \in Seq(SomeJob) /\ job \in SomeJob
  BY <1>1, RangeOfTail
<1>3. /\ Ordered(rest) /\ \A j \in Range(rest) : j.do = "write" => uid < j.uid
  BY <1>1, OrderedTail DEF LinesOK, WriteJob
<1>4. job.do = "write" /\ requests' = requests /\ uid \in Nat
  BY <1>2 DEF WriteJob, SomeJob
<1>5. v \in DOMAIN streams /\ streams[v].promise # "pending" /\ Behind(streams[v], uid)
  BY <1>1, <1>2, <1>4 DEF LinesOK, JobsInLine
<1>6. InLine(streams[v], v) /\ streams[v].wire # "none" /\ streams[v].promise # "null"
      /\ \A j : j \notin Range(streams[v].waiters)
  BY <1>1, <1>5 DEF LinesOK, InLines, InLine
<1>7. /\ pending' = pending \cup {uid} /\ jobs' = rest
      /\ streams' = IF streams[v].wire = "open"
                    THEN [streams EXCEPT ![v] = [streams[v] EXCEPT !.toServer = Append(@, uid)]]
                    ELSE streams
  BY <1>6 DEF WriteJob
<1>8. uid \notin pending
  <2>1. uid # 0
    <3>1. job \in JobSet(Len(requests), Len(streams)) /\ Len(requests) \in Nat
      BY JobTypes, SomeShape DEF Typed
    <3> QED
      BY <1>4, <3>1 DEF JobSet
  <2>2. uid \in Uids(jobs) /\ pending \cap Uids(jobs) = {}
    BY <1>1, <2>1, ApartTail DEF Once, OnceOK
  <2> QED
    BY <2>2
<1>9. \A x : Written(jobs, x) = IF x = v THEN Written(rest, x) \cup {uid} ELSE Written(rest, x)
  BY <1>2, <1>4 DEF Written
<1> HIDE DEF job, v, uid, rest
<1>10. CASE streams[v].wire # "open"
  <2>1. LinesOK(streams', jobs', pending')
    <3>1. streams' = streams /\ jobs' = rest /\ pending \subseteq pending'
      BY <1>7, <1>10
    <3>2. JobsInLine(rest, streams)
      BY <1>1, <1>2 DEF LinesOK, JobsInLine
    <3>3. CarriedOnce(streams, pending')
      BY <1>1, <3>1 DEF LinesOK, CarriedOnce
    <3> QED
      BY <1>1, <1>3, <3>1, <3>2, <3>3 DEF LinesOK
  <2>2. Flow(streams, jobs, streams', jobs', {})
    <3>1. streams' = streams /\ jobs' = rest /\ ~Serving(streams[v])
      BY <1>6, <1>7, <1>10 DEF Serving
    <3>2. \A x \in DOMAIN streams : x # v => Underway(streams, rest, x) = Underway(streams, jobs, x)
      BY <1>9 DEF Underway
    <3> QED
      BY <3>1, <3>2 DEF Flow
  <2> QED
    BY <1>4, <2>1, <2>2, QuietLines
<1>11. CASE streams[v].wire = "open"
  <2> DEFINE new == [streams[v] EXCEPT !.toServer = Append(@, uid)]
  <2>1. /\ new.wire = streams[v].wire /\ new.promise = streams[v].promise
        /\ new.waiters = streams[v].waiters /\ new.toClient = streams[v].toClient /\ new.subs = streams[v].subs
        /\ new.toServer = Append(streams[v].toServer, uid)
    BY <1>1, <1>4, <1>5, StreamWritten
  <2>2. streams' = [streams EXCEPT ![v] = new]
    BY <1>7, <1>11
  <2> HIDE DEF new
  <2>3. DOMAIN streams' = DOMAIN streams /\ streams'[v] = new /\ \A x \in DOMAIN streams : x # v => streams'[x] = streams[x]
    BY <1>5, <2>2
  <2>4. streams[v].toServer \in Seq(Nat) /\ streams[v].toClient \in Seq(Nat)
    BY <1>1, <1>5 DEF SomeStream
  <2>5. Range(new.toServer) = Range(streams[v].toServer) \cup {uid}
    BY <1>4, <2>1, <2>4, RangeOfFew
  <2>6. Carried(new) = Carried(streams[v]) \cup {uid}
    BY <2>1, <2>5 DEF Carried
  <2>7. Rising(new.toServer)
    <3>1. Rising(streams[v].toServer) /\ \A b \in Range(streams[v].toServer) : b < uid
      BY <1>5, <1>6 DEF InLine, Behind, Carried
    <3> QED
      BY <1>4, <2>1, <2>4, <3>1, RisingAppend
  <2>8. InLine(new, v)
    <3>1. \A b \in Range(new.toServer) : /\ \A a \in Range(new.toClient) : a < b
                                         /\ \A t \in Targets : new.subs[t] < b
      BY <1>5, <1>6, <2>1, <2>5 DEF InLine, Behind, Carried
    <3> QED
      BY <1>5, <1>6, <2>1, <2>7, <3>1 DEF InLine
  <2>9. \A j \in Range(rest) : j.do = "write" /\ j.via = v => Behind(new, j.uid)
    <3>1. \A j \in Range(rest) : j.do = "write" /\ j.via = v => Behind(streams[v], j.uid)
      BY <1>1, <1>2 DEF LinesOK, JobsInLine
    <3> QED
      BY <1>3, <2>1, <2>6, <3>1 DEF Behind
  <2>10. \A x \in DOMAIN streams : x # v => /\ Carried(streams[x]) \subseteq pending'
                                            /\ \A u \in Carried(new) : u \notin Carried(streams[x])
    BY <1>1, <1>5, <1>7, <1>8, <2>6 DEF LinesOK, CarriedOnce
  <2>11. LinesOK(streams', jobs', pending')
    <3>1. \A j \in Range(rest) : j.do = "write" =>
            \/ j.via = v /\ streams'[v].promise # "pending" /\ Behind(streams'[v], j.uid)
            \/ j.via # v /\ j \in Range(jobs)
      BY <1>2, <1>5, <2>1, <2>3, <2>9
    <3>2. Carried(streams'[v]) \subseteq pending' /\ InLine(streams'[v], v) /\ jobs' = rest
      BY <1>1, <1>5, <1>7, <2>3, <2>6, <2>8 DEF LinesOK, CarriedOnce
    <3>3. \A x \in DOMAIN streams : x # v => /\ Carried(streams[x]) \subseteq pending'
                                             /\ \A u \in Carried(streams'[v]) : u \notin Carried(streams[x])
      BY <2>3, <2>10
    <3>4. LinesOK(streams', rest, pending')
      BY <1>1, <1>3, <1>5, <2>3, <3>1, <3>2, <3>3, OneInLine
    <3> QED
      BY <3>2, <3>4
  <2>12. Flow(streams, jobs, streams', jobs', {})
    <3>1. \A x \in DOMAIN streams : Underway(streams', rest, x) = Underway(streams, jobs, x)
      <4>1. ASSUME NEW x \in DOMAIN streams, x # v PROVE Underway(streams', rest, x) = Underway(streams, jobs, x)
        BY <1>9, <2>3, <4>1 DEF Underway
      <4>2. Underway(streams', rest, v) = Underway(streams, jobs, v)
        BY <1>9, <2>1, <2>3, <2>5 DEF Underway
      <4> QED
        BY <4>1, <4>2
    <3>2. \A x \in DOMAIN streams : streams'[x].wire = streams[x].wire /\ streams'[x].subs = streams[x].subs
      BY <2>1, <2>3
    <3> QED
      BY <1>7, <2>3, <3>1, <3>2 DEF Flow, Serving
  <2> QED
    BY <1>4, <2>11, <2>12, QuietLines
<1> QED
  BY <1>10, <1>11

LEMMA HandleResponseLines ==
  ASSUME Typed, Lines, NEW s \in DOMAIN streams, HandleResponse(s)
  PROVE  StepLines
<1> DEFINE str == streams[s]
           uid == Head(str.toClient)
           rest == Tail(str.toClient)
           new == [str EXCEPT !.toClient = rest]
<1>1. /\ str \in SomeStream /\ jobs \in Seq(SomeJob) /\ jobs = <<>> /\ requests' = requests
      /\ LinesOK(streams, jobs, pending) /\ str.toClient \in Seq(Nat)
  BY SomeShape DEF HandleResponse, MayRun, Lines, SomeStream
<1>2. /\ new.promise = str.promise /\ new.wire = str.wire /\ new.waiters = str.waiters
      /\ new.toServer = str.toServer /\ new.toClient = rest /\ new.subs = str.subs
  BY <1>1 DEF SomeStream
<1>3. /\ streams' = [streams EXCEPT ![s] = new] /\ pending' = pending \ {uid}
      /\ str.toClient # <<>> /\ jobs' \in {<<Job("settled", uid, 0)>>, jobs}
  BY DEF HandleResponse
<1>4. /\ Range(str.toClient) = {uid} \cup Range(rest) /\ Rising(rest)
      /\ \A b \in Range(rest) : uid < b /\ b \in Nat
  <2>1. Rising(str.toClient)
    BY <1>1 DEF LinesOK, InLines, InLine
  <2>2. rest \in Seq(Nat) /\ Range(str.toClient) = {uid} \cup Range(rest)
    BY <1>1, <1>3, RangeOfTail
  <2>3. \A b \in Range(rest) : b \in Nat
    BY <2>2, ElementsAre
  <2> QED
    BY <1>1, <1>3, <2>1, <2>2, <2>3, RisingTail
<1>5. uid \in Nat
  BY <1>1, <1>3, RangeOfTail
<1>6. \A j \in Range(jobs') : j.do # "write"
  <2>1. Job("settled", uid, 0) \in SomeJob /\ Job("settled", uid, 0).do = "settled"
    BY <1>5 DEF Job, SomeJob
  <2>2. Range(<<Job("settled", uid, 0)>>) = {Job("settled", uid, 0)} /\ Range(<<>>) = {}
    BY <1>1, <2>1, RangeOfFew
  <2> QED
    BY <1>1, <1>3, <2>1, <2>2
<1>7. \A j \in Range(jobs) : j.do # "write"
  BY <1>1, RangeOfFew DEF Range
<1> HIDE DEF str, uid, rest, new
<1>8. Carried(new) \subseteq Carried(str) /\ uid \notin Carried(new) /\ uid \in Carried(str)
  <2>1. InLine(str, s)
    BY <1>1 DEF LinesOK, InLines, str
  <2>2. \A b \in Range(str.toServer) : uid < b
    BY <1>4, <2>1 DEF InLine
  <2> QED
    BY <1>2, <1>4, <1>5, <2>2 DEF Carried
<1>9. InLine(new, s)
  <2>1. InLine(str, s)
    BY <1>1 DEF LinesOK, InLines, str
  <2>2. \A u : Behind(str, u) => Behind(new, u)
    BY <1>2, <1>8 DEF Behind
  <2>3. \A b \in Range(new.toServer) : /\ \A a \in Range(new.toClient) : a < b
                                       /\ \A t \in Targets : new.subs[t] < b
    BY <1>2, <1>4, <2>1 DEF InLine
  <2> QED
    BY <1>2, <1>4, <1>8, <2>1, <2>2, <2>3 DEF InLine
<1>10. DOMAIN streams' = DOMAIN streams /\ streams'[s] = new
       /\ \A x \in DOMAIN streams : x # s => streams'[x] = streams[x]
  BY <1>3
<1>11. LinesOK(streams', jobs', pending')
  <2>1. Ordered(jobs')
    BY <1>6, OrderedNoWrites
  <2>2. Carried(new) \subseteq pending'
    BY <1>1, <1>3, <1>8 DEF LinesOK, CarriedOnce, str
  <2>3. \A x \in DOMAIN streams : x # s => /\ Carried(streams[x]) \subseteq pending'
                                           /\ \A u \in Carried(new) : u \notin Carried(streams[x])
    <3>1. \A x \in DOMAIN streams : x # s => /\ Carried(streams[x]) \subseteq pending
                                             /\ \A u \in Carried(str) : u \notin Carried(streams[x])
      BY <1>1 DEF LinesOK, CarriedOnce, str
    <3> QED
      BY <1>3, <1>8, <3>1
  <2> QED
    BY <1>1, <1>6, <1>9, <1>10, <2>1, <2>2, <2>3, OneInLine
<1>12. Flow(streams, jobs, streams', jobs', {})
  <2>1. \A x : Written(jobs', x) = {} /\ Written(jobs, x) = {}
    BY <1>6, <1>7 DEF Written
  <2>2. \A x \in DOMAIN streams : /\ streams'[x].wire = streams[x].wire /\ streams'[x].subs = streams[x].subs
                                  /\ streams'[x].waiters = streams[x].waiters
                                  /\ streams'[x].toServer = streams[x].toServer
    BY <1>2, <1>10 DEF str
  <2>3. \A x \in DOMAIN streams : Underway(streams', jobs', x) = Underway(streams, jobs, x)
    BY <2>1, <2>2 DEF Underway
  <2> QED
    BY <1>10, <2>2, <2>3 DEF Flow, Serving
<1> QED
  BY <1>1, <1>11, <1>12, QuietLines

LEMMA StreamReadyLines ==
  ASSUME Typed, Lines, NEW s \in DOMAIN streams, StreamReady(s)
  PROVE  StepLines
<1> DEFINE str == streams[s]
           new == [str EXCEPT !.promise = "stream", !.wire = "open", !.waiters = <<>>]
<1>1. /\ str \in SomeStream /\ jobs = <<>> /\ requests' = requests /\ pending' = pending
      /\ LinesOK(streams, jobs, pending) /\ str.promise = "pending"
  BY SomeShape DEF StreamReady, MayRun, Lines
<1>2. /\ new.promise = "stream" /\ new.wire = "open" /\ new.waiters = <<>>
      /\ new.toServer = str.toServer /\ new.toClient = str.toClient /\ new.subs = str.subs
  BY <1>1 DEF SomeStream
<1>3. streams' = [streams EXCEPT ![s] = new] /\ jobs' = str.waiters
  BY DEF StreamReady
<1>4. Range(<<>>) = {} /\ jobs = <<>>
  BY <1>1 DEF Range
<1> HIDE DEF str, new
<1>5. InLine(str, s) /\ str.wire = "none" /\ Carried(new) = Carried(str) /\ \A u : Behind(str, u) <=> Behind(new, u)
  <2>1. InLine(str, s)
    BY <1>1 DEF LinesOK, InLines, str
  <2> QED
    BY <1>1, <1>2, <2>1 DEF InLine, Carried, Behind
<1>6. InLine(new, s)
  <2>1. Ordered(new.waiters) /\ \A j : j \notin Range(new.waiters)
    BY <1>2, <1>4, OrderedNoWrites
  <2> QED
    BY <1>2, <1>5, <2>1 DEF InLine
<1>7. Ordered(jobs') /\ \A j \in Range(jobs') : j.do = "write" => j.via = s /\ Behind(new, j.uid)
  BY <1>3, <1>5 DEF InLine
<1>8. DOMAIN streams' = DOMAIN streams /\ streams'[s] = new
      /\ \A x \in DOMAIN streams : x # s => streams'[x] = streams[x]
  BY <1>3
<1>9. LinesOK(streams', jobs', pending')
  <2>1. Carried(new) \subseteq pending'
    BY <1>1, <1>5 DEF LinesOK, CarriedOnce, str
  <2>2. \A x \in DOMAIN streams : x # s => /\ Carried(streams[x]) \subseteq pending'
                                           /\ \A u \in Carried(new) : u \notin Carried(streams[x])
    BY <1>1, <1>5 DEF LinesOK, CarriedOnce, str
  <2>3. new.promise # "pending"
    BY <1>2
  <2> QED
    BY <1>1, <1>6, <1>7, <1>8, <2>1, <2>2, <2>3, OneInLine
<1>10. Flow(streams, jobs, streams', jobs', {})
  <2>1. \A x : Written(jobs, x) = {}
    BY <1>4 DEF Written
  <2>2. Underway(streams', jobs', s) = Underway(streams, jobs, s)
    <3>1. Written(new.waiters, s) = {}
      BY <1>2, <1>4 DEF Written
    <3> QED
      BY <1>2, <1>3, <1>8, <2>1, <3>1 DEF Underway, str
  <2>3. ASSUME NEW x \in DOMAIN streams, x # s PROVE Underway(streams', jobs', x) = Underway(streams, jobs, x)
    <3>1. Written(jobs', x) = {}
      BY <1>7, <2>3 DEF Written
    <3> QED
      BY <1>8, <2>1, <2>3, <3>1 DEF Underway
  <2>4. \A x \in DOMAIN streams : /\ streams'[x].subs = streams[x].subs
                                  /\ Serving(streams'[x]) <=> Serving(streams[x])
    BY <1>2, <1>5, <1>8 DEF Serving, str
  <2> QED
    BY <1>8, <2>2, <2>3, <2>4 DEF Flow
<1> QED
  BY <1>1, <1>9, <1>10, QuietLines

LEMMA ServerReceiveDoes ==
  ASSUME Typed, NEW s \in DOMAIN streams, ServerReceive(s)
  PROVE  LET str == streams[s]
             uid == Head(str.toServer)
             new == streams'[s]
         IN /\ str \in SomeStream /\ str.toServer \in Seq(Nat) /\ str.toServer # <<>> /\ uid \in DOMAIN requests
            /\ new.promise = str.promise /\ new.wire = str.wire /\ new.waiters = str.waiters
            /\ new.toServer = Tail(str.toServer) /\ new.toClient = Append(str.toClient, uid)
            /\ \A t \in Targets : new.subs[t] = IF t # Target(uid) THEN str.subs[t]
                                                ELSE IF requests[uid].step = "unsub" THEN 0 ELSE uid
            /\ DOMAIN streams' = DOMAIN streams
            /\ \A x \in DOMAIN streams : x # s => streams'[x] = streams[x]
            /\ jobs = <<>> /\ jobs' = <<>> /\ requests' = requests /\ pending' = pending
            /\ channel = "READY" /\ channel' = "READY"
<1> DEFINE str == streams[s]
           uid == Head(str.toServer)
           sub == IF requests[uid].step = "unsub" THEN 0 ELSE uid
           new == [str EXCEPT !.toServer = Tail(@), !.toClient = Append(@, uid), !.subs[Target(uid)] = sub]
<1>1. str \in SomeStream /\ str.toServer \in Seq(Nat)
  BY SomeShape DEF SomeStream
<1>2. str.toServer # <<>> /\ jobs = <<>> /\ jobs' = <<>> /\ requests' = requests /\ pending' = pending
      /\ channel = "READY" /\ channel' = "READY"
  BY DEF ServerReceive, MayRun, network
<1>3. streams' = [streams EXCEPT ![s] = new]
  BY DEF ServerReceive
<1>4. str.toServer \in Seq(1 .. Len(requests)) /\ DOMAIN requests = 1 .. Len(requests)
  <2>1. s \in 1 .. Len(streams) /\ MessagesOK
    BY SomeShape DEF Typed
  <2>2. str \in StreamSet(Len(requests), Len(streams))
    BY <2>1, StreamType
  <2>3. requests \in Seq(RequestSet(Len(groups)))
    BY <2>1 DEF MessagesOK
  <2> QED
    BY <2>2, <2>3, LenProperties DEF StreamSet
<1>5. uid \in DOMAIN requests
  <2>1. uid \in 1 .. Len(requests)
    BY <1>2, <1>4, RangeOfTail
  <2> QED
    BY <1>4, <2>1
<1>6. /\ new.promise = str.promise /\ new.wire = str.wire /\ new.waiters = str.waiters
      /\ new.toServer = Tail(str.toServer) /\ new.toClient = Append(str.toClient, uid)
      /\ new.subs = [str.subs EXCEPT ![Target(uid)] = sub] /\ str.subs \in [Targets -> Nat]
  BY <1>1 DEF SomeStream
<1> HIDE DEF new, sub
<1>7. \A t \in Targets : new.subs[t] = IF t # Target(uid) THEN str.subs[t] ELSE sub
  BY <1>6
<1>8. DOMAIN streams' = DOMAIN streams /\ streams'[s] = new
      /\ \A x \in DOMAIN streams : x # s => streams'[x] = streams[x]
  BY <1>3
<1> QED
  BY <1>1, <1>2, <1>5, <1>6, <1>7, <1>8 DEF sub

LEMMA ServerReceiveLines ==
  ASSUME Typed, Lines, NEW s \in DOMAIN streams, ServerReceive(s)
  PROVE  Lines'
<1> DEFINE str == streams[s]
           uid == Head(str.toServer)
           rest == Tail(str.toServer)
           new == streams'[s]
<1>1. /\ str \in SomeStream /\ str.toServer \in Seq(Nat) /\ str.toClient \in Seq(Nat)
      /\ str.toServer # <<>> /\ uid \in Nat /\ str.subs \in [Targets -> Nat]
  BY ServerReceiveDoes, RangeOfTail DEF SomeStream
<1>2. /\ new.promise = str.promise /\ new.wire = str.wire /\ new.waiters = str.waiters
      /\ new.toServer = rest /\ new.toClient = Append(str.toClient, uid)
      /\ \A t \in Targets : new.subs[t] \in {str.subs[t], 0, uid}
  BY ServerReceiveDoes
<1>3. /\ DOMAIN streams' = DOMAIN streams /\ \A x \in DOMAIN streams : x # s => streams'[x] = streams[x]
      /\ jobs = <<>> /\ jobs' = <<>> /\ pending' = pending
  BY ServerReceiveDoes
<1>4. LinesOK(streams, jobs, pending) /\ InLine(str, s)
  BY DEF Lines, LinesOK, InLines
<1>5. /\ Range(str.toServer) = {uid} \cup Range(rest) /\ Rising(rest)
      /\ \A b \in Range(rest) : uid < b /\ b \in Nat
  <2>1. rest \in Seq(Nat) /\ Range(str.toServer) = {uid} \cup Range(rest)
    BY <1>1, RangeOfTail
  <2>2. \A b \in Range(rest) : b \in Nat
    BY <2>1, ElementsAre
  <2> QED
    BY <1>1, <1>4, <2>1, <2>2, RisingTail DEF InLine
<1>6. Range(new.toClient) = Range(str.toClient) \cup {uid} /\ Rising(new.toClient)
  <2>1. \A b \in Range(str.toClient) : b < uid
    BY <1>4, <1>5 DEF InLine
  <2>2. Rising(str.toClient)
    BY <1>4 DEF InLine
  <2>3. Range(Append(str.toClient, uid)) = Range(str.toClient) \cup {uid}
    BY <1>1, RangeOfFew
  <2>4. Rising(Append(str.toClient, uid))
    BY <1>1, <2>1, <2>2, RisingAppend
  <2> QED
    BY <1>2, <2>3, <2>4
<1> HIDE DEF str, uid, rest, new
<1>7. Carried(new) = Carried(str) /\ uid \in Carried(str)
  BY <1>2, <1>5, <1>6 DEF Carried
<1>8. ASSUME NEW u \in Nat, Behind(str, u) PROVE Behind(new, u)
  <2>1. uid < u /\ 0 < u
    BY <1>1, <1>7, <1>8 DEF Behind
  <2> QED
    BY <1>2, <1>7, <1>8, <2>1 DEF Behind
<1>9. InLine(new, s)
  <2>1. \A b \in Range(new.toServer) : /\ \A a \in Range(new.toClient) : a < b
                                       /\ \A t \in Targets : new.subs[t] < b
    <3>1. ASSUME NEW b \in Range(rest) PROVE /\ \A a \in Range(str.toClient) : a < b
                                             /\ \A t \in Targets : str.subs[t] < b
                                             /\ uid < b /\ 0 < b
      BY <1>1, <1>4, <1>5 DEF InLine
    <3> QED
      BY <1>2, <1>6, <3>1
  <2>2. \A j \in Range(new.waiters) : j.do = "write" => j.via = s /\ Behind(new, j.uid)
    <3>1. \A j \in Range(str.waiters) : j.uid \in Nat
      <4>1. str.waiters \in Seq(SomeJob)
        BY <1>1 DEF SomeStream
      <4>2. \A j \in Range(str.waiters) : j \in SomeJob
        BY <4>1, ElementsAre
      <4> QED
        BY <4>2 DEF SomeJob
    <3> QED
      BY <1>2, <1>4, <1>8, <3>1 DEF InLine
  <2> QED
    BY <1>2, <1>4, <1>5, <1>6, <1>7, <2>1, <2>2 DEF InLine
<1>10. LinesOK(streams', <<>>, pending')
  <2>1. Range(<<>>) = {} /\ Ordered(<<>>)
    BY DEF Range, Ordered
  <2>2. Carried(new) \subseteq pending'
    BY <1>3, <1>4, <1>7 DEF LinesOK, CarriedOnce, str
  <2>3. \A x \in DOMAIN streams : x # s => /\ Carried(streams[x]) \subseteq pending'
                                           /\ \A u \in Carried(new) : u \notin Carried(streams[x])
    BY <1>3, <1>4, <1>7 DEF LinesOK, CarriedOnce, str
  <2>4. \A j \in Range(<<>>) : j.do # "write"
    BY <2>1
  <2>5. InLine(streams'[s], s) /\ Carried(streams'[s]) \subseteq pending'
        /\ \A x \in DOMAIN streams : x # s => /\ Carried(streams[x]) \subseteq pending'
                                              /\ \A u \in Carried(streams'[s]) : u \notin Carried(streams[x])
    BY <1>9, <2>2, <2>3 DEF new
  <2> QED
    BY <1>3, <1>4, <2>1, <2>4, <2>5, OneInLine
<1> QED
  BY <1>3, <1>10 DEF Lines

\* Something other than a write is queued behind the stream's promise.
LEMMA WaitLines ==
  ASSUME Typed, NEW strs \in Seq(SomeStream), LinesOK(strs, jobs, pending),
         Below(strs, jobs, Len(requests)), Flow(streams, jobs, strs, jobs, {}),
         requests' = requests, pending' = pending, DOMAIN strs = DOMAIN streams,
         NEW wait \in Seq(SomeJob), \A j \in Range(wait) : j.do # "write",
         NEW s \in 1 .. Len(strs), Awaiting(s, wait, strs, jobs)
  PROVE  StepLines
<1>1. jobs \in Seq(SomeJob) /\ Len(requests) \in Nat /\ DOMAIN strs = 1 .. Len(strs)
  BY SomeShape, LenProperties
<1>2. /\ DOMAIN streams' = 1 .. Len(strs)
      /\ \A x \in 1 .. Len(strs) : SameButWaiters(strs[x], streams'[x])
      /\ \A x \in 1 .. Len(strs) :
           streams'[x].waiters = IF x = s /\ strs[s].promise = "pending"
                                 THEN strs[s].waiters \o wait ELSE strs[x].waiters
      /\ jobs' = IF strs[s].promise = "pending" THEN jobs ELSE jobs \o wait
  BY <1>1, AwaitingDoes
<1>3. Queued(strs, s, wait, jobs, streams', jobs')
  BY <1>2 DEF Queued, Placed
<1>4. LinesOK(streams', jobs', pending)
  <2>1. Ordered(wait)
    BY OrderedNoWrites
  <2>2. \A j \in Range(wait) : j.do = "write" => j.via = s /\ j.uid > Len(requests)
    OBVIOUS
  <2> QED
    BY <1>1, <1>3, <2>1, <2>2, LinesQueued
<1>5. Flow(strs, jobs, streams', jobs', {})
  <2>1. \A j \in Range(wait) : j.do = "write" => j.via = s
    OBVIOUS
  <2>2. Flow(strs, jobs, streams', jobs', Written(wait, s))
    BY <1>1, <1>3, <2>1, FlowQueued
  <2>3. Written(wait, s) = {}
    BY DEF Written
  <2> QED
    BY <2>2, <2>3
<1>6. \A x \in DOMAIN streams : streams'[x].wire = strs[x].wire
  BY <1>1, <1>2 DEF SameButWaiters
<1>7. Flow(streams, jobs, streams', jobs', {})
  BY <1>5, <1>6, FlowThen
<1> QED
  BY <1>4, <1>7, QuietLines

LEMMA AllBrokenLines ==
  ASSUME Typed, Lines
  PROVE  /\ LinesOK(AllBroken, jobs, pending) /\ Flow(streams, jobs, AllBroken, jobs, {})
         /\ Below(AllBroken, jobs, Len(requests))
<1>1. /\ streams \in Seq(SomeStream) /\ DOMAIN AllBroken = DOMAIN streams /\ jobs \in Seq(SomeJob)
      /\ \A x \in DOMAIN streams : streams[x] \in SomeStream
  BY AllBrokenIs, SomeShape
<1>2. \A x \in DOMAIN streams : Wanes(streams[x], AllBroken[x])
  BY <1>1, BrokenWanes DEF AllBroken
<1>3. LinesOK(streams, jobs, pending)
  BY DEF Lines
<1>4. LinesOK(AllBroken, jobs, pending) /\ Flow(streams, jobs, AllBroken, jobs, {})
  BY <1>1, <1>2, <1>3, LinesWane
<1>5. Below(streams, jobs, Len(requests)) /\ Len(requests) \in Nat
  BY TypedBelow, SomeShape
<1>6. Below(AllBroken, jobs, Len(requests))
  <2>1. ASSUME NEW x \in DOMAIN streams
        PROVE  /\ \A u \in Carried(AllBroken[x]) : u <= Len(requests)
               /\ \A t \in Targets : AllBroken[x].subs[t] <= Len(requests)
               /\ \A j \in Range(AllBroken[x].waiters) : j.uid <= Len(requests)
    <3>1. Carried(AllBroken[x]) \subseteq Carried(streams[x])
      BY <1>1, <1>2, <1>3, <2>1, WaningLine DEF LinesOK, InLines
    <3>2. AllBroken[x].waiters = streams[x].waiters
          /\ (AllBroken[x].subs = streams[x].subs \/ AllBroken[x].subs = NoSubscriptions)
      BY <1>2, <2>1 DEF Wanes
    <3>3. \A t \in Targets : AllBroken[x].subs[t] \in {streams[x].subs[t], 0}
      BY <3>2 DEF NoSubscriptions
    <3> QED
      BY <1>5, <2>1, <3>1, <3>2, <3>3 DEF Below
  <2> QED
    BY <1>1, <1>5, <2>1 DEF Below
<1> QED
  BY <1>4, <1>6

LEMMA ChannelDropLines ==
  ASSUME Typed, Lines, ChannelDrop
  PROVE  StepLines
<1> DEFINE job == Job("disconnect", 0, streamPromise)
<1>1. /\ AllBroken \in Seq(SomeStream) /\ Len(AllBroken) = Len(streams) /\ DOMAIN AllBroken = DOMAIN streams
  BY AllBrokenIs, SomeShape
<1>2. /\ pending' = pending /\ requests' = requests /\ jobs = <<>>
      /\ streamPromise \in 0 .. Len(streams) /\ Len(streams) \in Nat
  BY SomeShape DEF ChannelDrop, MayRun
<1>3. job \in SomeJob /\ job.do # "write"
  BY <1>2 DEF Job, SomeJob
<1>4. \/ streams' = AllBroken /\ jobs' \in {<<>>, <<job>>}
      \/ streamPromise # 0 /\ Awaiting(streamPromise, <<job>>, AllBroken, jobs)
  BY <1>2 DEF ChannelDrop, AllBroken
<1> DEFINE wait == <<job>>
<1> HIDE DEF job
<1>5. wait \in Seq(SomeJob) /\ Range(wait) = {job} /\ Range(<<>>) = {}
  BY <1>3, SomeShape, RangeOfFew
<1> HIDE DEF wait
<1>6. /\ LinesOK(AllBroken, jobs, pending) /\ Flow(streams, jobs, AllBroken, jobs, {})
      /\ Below(AllBroken, jobs, Len(requests))
  BY AllBrokenLines
<1>7. CASE streams' = AllBroken /\ jobs' \in {<<>>, wait}
  <2>1. (\A j \in Range(jobs') : j.do # "write") /\ \A j \in Range(jobs) : j.do # "write"
    BY <1>2, <1>3, <1>5, <1>7
  <2>2. LinesOK(streams', jobs', pending')
    <3>1. Ordered(jobs') /\ JobsInLine(jobs', AllBroken)
      BY <2>1, OrderedNoWrites DEF JobsInLine
    <3> QED
      BY <1>2, <1>6, <1>7, <3>1 DEF LinesOK
  <2>3. Flow(streams, jobs, streams', jobs', {})
    <3>1. \A x : Written(jobs', x) = {} /\ Written(jobs, x) = {}
      BY <2>1 DEF Written
    <3>2. \A x : Underway(AllBroken, jobs', x) = Underway(AllBroken, jobs, x)
      BY <3>1 DEF Underway
    <3> QED
      BY <1>6, <1>7, <3>2 DEF Flow
  <2> QED
    BY <1>2, <2>2, <2>3, QuietLines
<1>8. CASE streamPromise # 0 /\ Awaiting(streamPromise, wait, AllBroken, jobs)
  <2>1. streamPromise \in 1 .. Len(AllBroken) /\ \A j \in Range(wait) : j.do # "write"
    BY <1>1, <1>2, <1>3, <1>5, <1>8
  <2> QED
    BY <1>1, <1>2, <1>5, <1>6, <1>8, <2>1, WaitLines
<1> QED
  BY <1>4, <1>7, <1>8 DEF wait

LEMMA SameFlow ==
  ASSUME Typed
  PROVE  Flow(streams, jobs, streams, jobs, {})
  BY DEF Flow

LEMMA CloseEventStreamLines ==
  ASSUME Typed, Lines, CloseEventStream
  PROVE  StepLines
<1> DEFINE job == Job("close", 0, streamPromise)
<1>1. /\ pending' = pending /\ requests' = requests /\ jobs = <<>> /\ streams \in Seq(SomeStream)
      /\ streamPromise \in 0 .. Len(streams) /\ Len(streams) \in Nat
  BY SomeShape DEF CloseEventStream, MayRun
<1>2. job \in SomeJob /\ job.do # "write"
  BY <1>1 DEF Job, SomeJob
<1>3. \/ streams' = streams /\ jobs' = jobs
      \/ streamPromise # 0 /\ Awaiting(streamPromise, <<job>>, streams, jobs)
  BY DEF CloseEventStream
<1> DEFINE wait == <<job>>
<1> HIDE DEF job
<1>4. wait \in Seq(SomeJob) /\ Range(wait) = {job}
  BY <1>2, SomeShape, RangeOfFew
<1> HIDE DEF wait
<1>5. /\ LinesOK(streams, jobs, pending) /\ Flow(streams, jobs, streams, jobs, {})
      /\ Below(streams, jobs, Len(requests))
  BY TypedBelow, SameFlow DEF Lines
<1>6. CASE streams' = streams /\ jobs' = jobs
  BY <1>1, <1>5, <1>6, QuietLines
<1>7. CASE streamPromise # 0 /\ Awaiting(streamPromise, wait, streams, jobs)
  <2>1. streamPromise \in 1 .. Len(streams) /\ \A j \in Range(wait) : j.do # "write"
    BY <1>1, <1>2, <1>4, <1>7
  <2> QED
    BY <1>1, <1>4, <1>5, <1>7, <2>1, WaitLines
<1> QED
  BY <1>3, <1>6, <1>7 DEF wait

LEMMA ReportedLines ==
  ASSUME Typed, Lines, NEW s \in DOMAIN streams, streams[s].wire = "broken"
  PROVE  /\ LinesOK(Reported(s), jobs, pending) /\ Flow(streams, jobs, Reported(s), jobs, {})
         /\ Below(Reported(s), jobs, Len(requests))
         /\ \A x \in DOMAIN streams : Serving(streams[x]) => Serving(Reported(s)[x])
<1> DEFINE new == [streams[s] EXCEPT !.wire = "dead"]
<1>1. /\ streams \in Seq(SomeStream) /\ jobs \in Seq(SomeJob) /\ streams[s] \in SomeStream
      /\ DOMAIN Reported(s) = DOMAIN streams
      /\ \A x \in DOMAIN streams : x # s => Reported(s)[x] = streams[x]
      /\ Reported(s)[s] = new
  BY SomeShape, ReportedIs
<1>2. /\ new.promise = streams[s].promise /\ new.waiters = streams[s].waiters /\ new.wire = "dead"
      /\ new.toServer = streams[s].toServer /\ new.toClient = streams[s].toClient /\ new.subs = streams[s].subs
  BY <1>1 DEF SomeStream
<1> HIDE DEF new
<1>3. \A x \in DOMAIN streams : Wanes(streams[x], Reported(s)[x])
  <2>1. Wanes(streams[s], new)
    BY <1>2 DEF Wanes, Serving
  <2>2. \A x \in DOMAIN streams : x # s => Wanes(streams[x], Reported(s)[x])
    BY <1>1 DEF Wanes
  <2> QED
    BY <1>1, <2>1, <2>2
<1>4. LinesOK(Reported(s), jobs, pending) /\ Flow(streams, jobs, Reported(s), jobs, {})
  BY <1>1, <1>3, LinesWane DEF Lines
<1>5. Below(Reported(s), jobs, Len(requests))
  <2>1. Below(streams, jobs, Len(requests))
    BY TypedBelow
  <2>2. Carried(new) = Carried(streams[s])
    BY <1>2 DEF Carried
  <2> QED
    BY <1>1, <1>2, <2>1, <2>2 DEF Below
<1>6. \A x \in DOMAIN streams : Serving(streams[x]) => Serving(Reported(s)[x])
  BY <1>1 DEF Serving
<1> QED
  BY <1>4, <1>5, <1>6

LEMMA RenewalsLines ==
  ASSUME Typed, Lines, ChannelUp \/ \E s \in DOMAIN streams : StreamError(s)
  PROVE  StepLines
<1>1. /\ streams \in Seq(SomeStream) /\ streamPromise \in 0 .. Len(streams) /\ Len(streams) \in Nat
      /\ jobs \in Seq(SomeJob)
  BY SomeShape
<1>2. ASSUME NEW batch, Renewal(batch) PROVE batch \in Seq(RequestSet(Len(groups)))
  BY <1>2, RenewalType
<1>3. CASE ChannelUp
  <2>1. PICK batch : Renewal(batch) /\ Send(batch, streamPromise, streams, jobs)
    BY <1>3, ChannelUpSends
  <2>2. pending' = pending /\ batch \in Seq(RequestSet(Len(groups)))
    BY <1>2, <1>3, <2>1 DEF ChannelUp
  <2>3. LinesOK(streams, jobs, pending) /\ Below(streams, jobs, Len(requests)) /\ Flow(streams, jobs, streams, jobs, {})
    BY TypedBelow, SameFlow DEF Lines
  <2> QED
    BY <1>1, <2>1, <2>2, <2>3, SendsLines
<1>4. ASSUME NEW s \in DOMAIN streams, StreamError(s) PROVE StepLines
  <2>1. PICK batch, current : /\ Renewal(batch) /\ current \in {0, streamPromise}
                              /\ Send(batch, current, Reported(s), jobs)
    BY <1>4, StreamErrorRenews
  <2>2. pending' = pending /\ streams[s].wire = "broken" /\ batch \in Seq(RequestSet(Len(groups)))
    BY <1>2, <1>4, <2>1 DEF StreamError
  <2>3. Reported(s) \in Seq(SomeStream) /\ Len(Reported(s)) = Len(streams)
    BY ReportedIs
  <2>4. current \in 0 .. Len(Reported(s))
    BY <1>1, <2>1, <2>3
  <2>5. /\ LinesOK(Reported(s), jobs, pending) /\ Flow(streams, jobs, Reported(s), jobs, {})
        /\ Below(Reported(s), jobs, Len(requests))
        /\ \A x \in DOMAIN streams : Serving(streams[x]) => Serving(Reported(s)[x])
    BY <2>2, ReportedLines
  <2> QED
    BY <1>1, <2>1, <2>2, <2>3, <2>4, <2>5, SendsLines
<1> QED
  BY <1>3, <1>4

LEMMA InitLines == Init => Lines
<1> SUFFICES ASSUME Init PROVE Lines
  OBVIOUS
<1>1. pending = {} /\ jobs = <<>> /\ DOMAIN streams = {1} /\ streams[1] = NewStream
  BY DEF Init
<1>2. Range(<<>>) = {} /\ Ordered(<<>>) /\ Rising(<<>>)
  BY DEF Range, Ordered, Rising
<1>3. Carried(NewStream) = {} /\ InLine(NewStream, 1)
  <2>1. Carried(NewStream) = {}
    BY <1>2, NewStreamIs DEF Carried
  <2> QED
    BY <1>2, <2>1, NewStreamIs DEF InLine
<1>4. InLines(streams) /\ CarriedOnce(streams, {})
  BY <1>1, <1>3 DEF InLines, CarriedOnce
<1>5. JobsInLine(<<>>, streams)
  BY <1>2 DEF JobsInLine
<1> QED
  BY <1>1, <1>2, <1>4, <1>5 DEF Lines, LinesOK

LEMMA NextLines ==
  ASSUME MaxTimeouts = 0, Typed, Once, Lines, [Next]_vars
  PROVE  StepLines \/ \E s \in DOMAIN streams : ServerReceive(s)
<1>1. CASE Application
  BY <1>1, ListenerCallLines, CloseEventStreamLines DEF Application
<1>2. CASE Failures
  <2>1. \A s \in DOMAIN streams : ~ReadyTimeout(s)
    BY NoTimeout
  <2>2. ChannelDrop \/ \E s \in DOMAIN streams : StreamFail(s)
    BY <1>2, <2>1 DEF Failures
  <2> QED
    BY <2>2, ChannelDropLines, WaningLines
<1>3. CASE Answers
  BY <1>3, HandleResponseLines DEF Answers
<1>4. CASE StreamChanges
  BY <1>4, StreamReadyLines, RenewalsLines, WaningLines DEF StreamChanges
<1>5. CASE RunJob
  BY <1>5, WriteJobLines, SettledJobLines, OtherJobLines DEF RunJob
<1>6. CASE ChannelUp
  BY <1>6, RenewalsLines
<1>7. CASE UNCHANGED vars
  <2>1. /\ requests' = requests /\ LinesOK(streams', jobs', pending')
        /\ streams' = streams /\ jobs' = jobs
    BY <1>7 DEF vars, Lines
  <2>2. Flow(streams, jobs, streams', jobs', {})
    BY <2>1, SameFlow
  <2> QED
    BY <2>1, <2>2, QuietLines
<1> QED
  BY <1>1, <1>2, <1>3, <1>4, <1>5, <1>6, <1>7 DEF Next

LEMMA NextKeepsLines ==
  ASSUME MaxTimeouts = 0
  PROVE  Typed /\ Once /\ Lines /\ [Next]_vars => Lines'
  BY NextLines, ServerReceiveLines DEF StepLines

LEMMA LinesUnopened == Typed /\ Lines => Unopened
<1> SUFFICES ASSUME Typed, Lines, NEW s \in DOMAIN streams, streams[s].promise = "pending"
             PROVE  streams[s].wire = "none" /\ streams[s].toClient = <<>>
  BY DEF Unopened
<1>1. InLine(streams[s], s) /\ streams[s].toClient \in Seq(Nat)
  BY SomeShape DEF Lines, LinesOK, InLines, SomeStream
<1>2. streams[s].wire = "none" /\ \A u : u \notin Range(streams[s].toClient)
  BY <1>1 DEF InLine, Carried
<1>3. streams[s].toClient # <<>> => Head(streams[s].toClient) \in Range(streams[s].toClient)
  BY <1>1, RangeOfTail
<1> QED
  BY <1>2, <1>3

----------------------------------------------------------------------------
(* The streams that fail.                                                  *)

\* A stream that has failed stays so until its error is reported.
LEMMA BrokenStays ==
  ASSUME MaxTimeouts = 0, Typed, Unopened, [Next]_vars, NEW x \in DOMAIN streams, streams[x].wire = "broken"
  PROVE  (x \in DOMAIN streams' /\ streams'[x].wire = "broken") \/ StreamError(x)
<1> DEFINE Stays == x \in DOMAIN streams' /\ streams'[x].wire = "broken"
<1>1. /\ streams \in Seq(SomeStream) /\ jobs \in Seq(SomeJob) /\ Len(requests) \in Nat
      /\ streamPromise \in 0 .. Len(streams) /\ Len(streams) \in Nat
      /\ DOMAIN streams = 1 .. Len(streams) /\ \A s \in DOMAIN streams : streams[s] \in SomeStream
  BY SomeShape
<1>2. ASSUME NEW B, NEW batch \in Seq(B), NEW current \in 0 .. Len(streams), NEW queue \in Seq(SomeJob),
             Send(batch, current, streams, queue)
      PROVE  Stays
  BY <1>1, <1>2, SendKeeps
<1>3. CASE \/ \E t \in Targets, l \in Listeners, isLite \in Modes : AddListener(t, l, isLite)
           \/ \E t \in Targets, l \in Listeners : RemoveListener(t, l)
  <2>1. \E t, g, steps : Call(t, g, steps)
    BY <1>3 DEF AddListener, RemoveListener
  <2>2. PICK B : \E batch \in Seq(B) : Send(batch, streamPromise, streams, jobs)
    BY <2>1, CallSends
  <2> QED
    BY <1>1, <1>2, <2>2
<1>4. CASE ChannelUp
  <2>1. PICK batch : Renewal(batch) /\ Send(batch, streamPromise, streams, jobs)
    BY <1>4, ChannelUpSends
  <2>2. batch \in Seq(RequestSet(Len(groups)))
    BY <2>1, RenewalType
  <2> QED
    BY <1>1, <1>2, <2>1, <2>2
<1>5. ASSUME NEW s \in DOMAIN streams, StreamError(s), s # x PROVE Stays
  <2>1. PICK batch, current : /\ Renewal(batch) /\ current \in {0, streamPromise}
                              /\ Send(batch, current, Reported(s), jobs)
    BY <1>5, StreamErrorRenews
  <2>2. batch \in Seq(RequestSet(Len(groups)))
    BY <2>1, RenewalType
  <2>3. /\ Reported(s) \in Seq(SomeStream) /\ Len(Reported(s)) = Len(streams)
        /\ DOMAIN Reported(s) = DOMAIN streams /\ Reported(s)[x] = streams[x]
    BY <1>5, ReportedIs
  <2>4. current \in 0 .. Len(Reported(s))
    BY <1>1, <2>1, <2>3
  <2> QED
    BY <1>1, <2>1, <2>2, <2>3, <2>4, SendKeeps
<1>6. CASE RunJob
  <2> DEFINE job == Head(jobs)
  <2>1. CASE SettledJob(job)
    <3>1. \E B : \E batch \in Seq(B) : Send(batch, streamPromise, streams, Tail(jobs))
      <4> DEFINE r   == requests[job.uid]
                 req == Request(r.group, r.rest, r.call)
      <4>1. Send(<<req>>, streamPromise, streams, Tail(jobs)) \/ Send(<<>>, streamPromise, streams, Tail(jobs))
        BY <2>1 DEF SettledJob
      <4> HIDE DEF req
      <4>2. <<req>> \in Seq({req}) /\ <<>> \in Seq({req})
        OBVIOUS
      <4> QED
        BY <4>1, <4>2
    <3>2. Tail(jobs) \in Seq(SomeJob)
      BY <1>1, <1>6, RangeOfTail DEF RunJob
    <3> QED
      BY <1>1, <1>2, <3>1, <3>2
  <2>2. CASE WriteJob(job)
    <3> DEFINE new == [streams[job.via] EXCEPT !.toServer = Append(@, job.uid)]
    <3>1. streams' = streams \/ streams' = [streams EXCEPT ![job.via] = new]
      BY <2>2 DEF WriteJob
    <3>2. job.via \in DOMAIN streams => new.wire = streams[job.via].wire
      BY <1>1 DEF SomeStream
    <3> HIDE DEF new
    <3> QED
      BY <3>1, <3>2
  <2>3. CASE DisconnectJob(job)
    <3>1. streams' = streams \/ streams' = [streams EXCEPT ![job.via] = Broken(streams[job.via])]
      BY <2>3 DEF DisconnectJob
    <3>2. Broken(streams[x]).wire = "broken"
      BY <1>1, BrokenIs
    <3> QED
      BY <3>1, <3>2
  <2>4. CASE CloseJob(job)
    BY <2>4 DEF CloseJob
  <2> QED
    BY <1>6, <2>1, <2>2, <2>3, <2>4 DEF RunJob
<1>7. ASSUME NEW s \in DOMAIN streams, StreamReady(s) PROVE Stays
  <2>1. streams[s].promise = "pending" /\ s # x
    BY <1>7 DEF StreamReady, Unopened
  <2>2. DOMAIN streams' = DOMAIN streams /\ \A y \in DOMAIN streams : y # s => streams'[y] = streams[y]
    BY <1>7 DEF StreamReady
  <2> QED
    BY <2>1, <2>2
<1>8. ASSUME NEW s \in DOMAIN streams, StreamEnd(s) PROVE Stays
  BY <1>1, <1>8 DEF StreamEnd
<1>9. ASSUME NEW s \in DOMAIN streams, StreamFail(s) PROVE Stays
  BY <1>1, <1>9 DEF StreamFail
<1>10. ASSUME NEW s \in DOMAIN streams, ServerReceive(s) PROVE Stays
  BY <1>10, ServerReceiveDoes
<1>11. ASSUME NEW s \in DOMAIN streams, HandleResponse(s) PROVE Stays
  BY <1>1, <1>11 DEF HandleResponse, SomeStream
<1>12. ASSUME NEW strs \in Seq(SomeStream), Len(strs) = Len(streams), strs[x].wire = "broken",
              NEW do \in {"disconnect", "close"}, NEW job, job = Job(do, 0, streamPromise),
              streams' = strs \/ (streamPromise # 0 /\ Awaiting(streamPromise, <<job>>, strs, jobs))
       PROVE  Stays
  <2>1. CASE streams' = strs
    BY <1>1, <1>12, <2>1, LenProperties
  <2>2. CASE streamPromise # 0 /\ Awaiting(streamPromise, <<job>>, strs, jobs)
    <3>1. job \in SomeJob
      BY <1>1, <1>12 DEF Job, SomeJob
    <3>2. <<job>> \in Seq(SomeJob) /\ streamPromise \in 1 .. Len(strs)
      BY <1>1, <1>12, <2>2, <3>1
    <3> DEFINE wait == <<job>>
    <3>3. wait \in Seq(SomeJob) /\ Awaiting(streamPromise, wait, strs, jobs)
      BY <2>2, <3>2
    <3> HIDE DEF wait
    <3>4. DOMAIN streams' = 1 .. Len(strs) /\ \A y \in 1 .. Len(strs) : SameButWaiters(strs[y], streams'[y])
      BY <1>1, <3>2, <3>3, AwaitingDoes
    <3> QED
      BY <1>1, <1>12, <3>4 DEF SameButWaiters
  <2> QED
    BY <1>12, <2>1, <2>2
<1>13. CASE ChannelDrop
  <2>1. AllBroken \in Seq(SomeStream) /\ Len(AllBroken) = Len(streams) /\ AllBroken[x].wire = "broken"
    BY <1>1, AllBrokenIs, BrokenIs
  <2>2. \/ streams' = AllBroken
        \/ streamPromise # 0 /\ Awaiting(streamPromise, <<Job("disconnect", 0, streamPromise)>>, AllBroken, jobs)
    BY <1>13 DEF ChannelDrop, AllBroken
  <2> HIDE DEF AllBroken
  <2> QED
    BY <1>12, <2>1, <2>2
<1>14. CASE CloseEventStream
  <2>1. \/ streams' = streams
        \/ streamPromise # 0 /\ Awaiting(streamPromise, <<Job("close", 0, streamPromise)>>, streams, jobs)
    BY <1>14 DEF CloseEventStream
  <2> QED
    BY <1>1, <1>12, <2>1
<1>15. CASE UNCHANGED vars
  BY <1>15 DEF vars
<1>16. \A s \in DOMAIN streams : ~ReadyTimeout(s)
  BY NoTimeout
<1> QED
  BY <1>3, <1>4, <1>5, <1>6, <1>7, <1>8, <1>9, <1>10, <1>11, <1>12, <1>13, <1>14, <1>15, <1>16
     DEF Next, Application, Failures, Answers, StreamChanges

==============================================================================
