------------------------- MODULE SessionCachesProofs -------------------------
(***************************************************************************)
(* A session and the caches it holds, for every set of names and every     *)
(* bound: types, and - for an application that releases a cache once and   *)
(* keeps release and destruction apart, and names none of which is keyed   *)
(* under another - that the session holds the caches in use and no others, *)
(* and that it implements SessionCaches.                                   *)
(***************************************************************************)
EXTENDS SessionLifecycle, SequenceTheorems, WellFoundedInduction, TLAPS

----------------------------------------------------------------------------
(* What a session reports of itself.                                       *)

\* Dropping names from caches that hold nothing leaves them holding nothing.
LEMMA NothingToDrop ==
  ASSUME Tracked = {}, NEW names
  PROVE  {Dropped(names)[n] : n \in Names} \ {0} = {}
<1>1. \A n \in Names : caches[n] = 0
  BY DEF Tracked
<1> QED
  BY <1>1 DEF Dropped

\* close() awaits a release only once it has marked the session.
CloseInv == closing.phase = "awaiting" => markedForClose

\* Nothing but close() changes how far it has come, and nothing clears the mark.
LEMMA CloseInvStep ==
  ASSUME CloseInv, [Next]_vars
  PROVE  CloseInv'
<1>1. CASE Application
  BY <1>1 DEF Application, CloseInv, GetCache, Release, Destroy, Close
<1>2. CASE Progress
  BY <1>2 DEF Progress, CloseInv, CloseResume, ResumeDue, WaitedForReady, DestroyAnswered,
              DestroyFailed, OnDestroyed, ChannelUp
<1>3. CASE Environment
  BY <1>3 DEF Environment, CloseInv, DestroyedElsewhere, NoticeLost, ChannelDrop, ChannelUp
<1>4. CASE UNCHANGED vars
  BY <1>4 DEF vars, CloseInv
<1> QED
  BY <1>1, <1>2, <1>3, <1>4 DEF Next

\* What is tracked is what is held under some name.
LEMMA TrackedNone == Tracked = {} <=> \A n \in Names : caches[n] = 0
  BY DEF Tracked

\* The handler that looks, after names were dropped, whether none is left.
LEMMA LookedKeepsExact ==
  ASSUME ClosedExactly, UNCHANGED markedForClose, NEW names, caches' = Dropped(names),
         closed' = ClosedAfter(caches', markedForClose)
  PROVE  ClosedExactly'
<1>1. Tracked' = {} <=> \A n \in Names : caches'[n] = 0
  BY DEF Tracked
<1>2. closed => Tracked' = {}
  <2> SUFFICES ASSUME closed PROVE Tracked' = {}
    OBVIOUS
  <2>1. {Dropped(names)[n] : n \in Names} \ {0} = {}
    BY NothingToDrop DEF ClosedExactly
  <2> QED
    BY <2>1 DEF Tracked
<1> QED
  BY <1>1, <1>2 DEF ClosedExactly, ClosedAfter

\* A step that touches neither the caches, nor the mark, nor what is reported.
LEMMA FrameKeepsExact ==
  ASSUME ClosedExactly, UNCHANGED <<caches, markedForClose, closed>>
  PROVE  ClosedExactly'
  BY DEF ClosedExactly, Tracked

\* The loop of close() reports what it finds at its end.
LEMMA CloseLoopKeepsExact ==
  ASSUME ClosedExactly, CloseLoop, markedForClose', UNCHANGED caches
  PROVE  ClosedExactly'
<1>1. Tracked' = Tracked
  BY DEF Tracked
<1>2. CASE Remaining # {}
  BY <1>1, <1>2 DEF CloseLoop, Remaining, ClosedExactly
<1>3. CASE Remaining = {}
  BY <1>1, <1>3, TrackedNone DEF CloseLoop, ClosedExactly, ClosedAfter
<1> QED
  BY <1>2, <1>3

\* The DESTROYED event: nobody looks when nothing was dropped.
LEMMA OnDestroyedKeepsExact ==
  ASSUME ClosedExactly, NEW c \in DOMAIN clients, OnDestroyed(c)
  PROVE  ClosedExactly'
<1> DEFINE under == KeyedUnder[clients[c].name]
<1>1. /\ caches' = Dropped(under) /\ UNCHANGED markedForClose
      /\ closed' = IF \E n \in under : caches[n] # 0 THEN ClosedAfter(caches', markedForClose) ELSE closed
  BY DEF OnDestroyed
<1> HIDE DEF under
<1>2. CASE \E n \in under : caches[n] # 0
  BY <1>1, <1>2, LookedKeepsExact
<1>3. CASE \A n \in under : caches[n] = 0
  <2>1. \A n \in Names : caches'[n] = caches[n]
    BY <1>1, <1>3 DEF Dropped
  <2>2. Tracked' = Tracked
    BY <2>1 DEF Tracked
  <2> QED
    BY <1>1, <1>3, <2>2 DEF ClosedExactly
<1> QED
  BY <1>2, <1>3

LEMMA ExactStep ==
  ASSUME ClosedExactly, CloseInv, [Next]_vars
  PROVE  ClosedExactly'
<1>1. CASE Application
  <2>1. ASSUME NEW n \in Names, GetCache(n) PROVE ClosedExactly'
    BY <2>1 DEF GetCache, ClosedExactly
  <2>2. ASSUME NEW c \in DOMAIN clients, Release(c) \/ Destroy(c) PROVE ClosedExactly'
    BY <2>2, FrameKeepsExact DEF Release, Destroy
  <2>3. CASE Close
    BY <2>3, CloseLoopKeepsExact DEF Close
  <2> QED
    BY <1>1, <2>1, <2>2, <2>3 DEF Application
<1>2. CASE Progress
  <2>1. CASE CloseResume
    <3>1. markedForClose' /\ UNCHANGED <<caches, markedForClose>>
      BY <2>1 DEF CloseResume, ResumeDue, CloseInv
    <3>2. CloseLoop \/ UNCHANGED closed
      BY <2>1 DEF CloseResume
    <3> QED
      BY <3>1, <3>2, CloseLoopKeepsExact, FrameKeepsExact
  <2>2. ASSUME NEW i \in DOMAIN calls, WaitedForReady(i) PROVE ClosedExactly'
    <3>1. UNCHANGED markedForClose
      BY <2>2 DEF WaitedForReady
    <3>2. CASE ReleaseLogic(i, channel # "READY")
      BY <3>1, <3>2, LookedKeepsExact DEF ReleaseLogic
    <3>3. CASE DestroyLogic(i, channel # "READY")
      BY <3>1, <3>3, FrameKeepsExact DEF DestroyLogic
    <3> QED
      BY <2>2, <3>2, <3>3 DEF WaitedForReady
  <2>3. ASSUME NEW i \in DOMAIN calls, DestroyAnswered(i) \/ DestroyFailed(i) PROVE ClosedExactly'
    BY <2>3, FrameKeepsExact DEF DestroyAnswered, DestroyFailed
  <2>4. CASE ChannelUp
    BY <2>4, FrameKeepsExact DEF ChannelUp
  <2> QED
    BY <1>2, <2>1, <2>2, <2>3, <2>4, OnDestroyedKeepsExact DEF Progress
<1>3. CASE Environment
  BY <1>3, FrameKeepsExact DEF Environment, DestroyedElsewhere, NoticeLost, ChannelDrop, ChannelUp
<1>4. CASE UNCHANGED vars
  BY <1>4, FrameKeepsExact DEF vars
<1> QED
  BY <1>1, <1>2, <1>3, <1>4 DEF Next

\* A session reports itself closed exactly when close() was called and it holds
\* no cache: for any names, related ones included, and any application, one
\* that releases a client twice or late included.
THEOREM ReportsExactly == Spec => []ClosedExactly
<1>1. Init => ClosedExactly /\ CloseInv
  BY DEF Init, ClosedExactly, CloseInv
<1>2. ClosedExactly /\ CloseInv /\ [Next]_vars => ClosedExactly' /\ CloseInv'
  BY ExactStep, CloseInvStep
<1> QED
  BY <1>1, <1>2, PTL DEF Spec

----------------------------------------------------------------------------
(* The clients and the calls.                                              *)

Clients == [name : Names, released : BOOLEAN, destroyed : BOOLEAN]

CallsOf(n) == [op      : {"release", "destroy"},
               client  : 1 .. n,
               phase   : {"waiting", "sent", "answered", "done"},
               outcome : {"pending", "resolved", "rejected"}]

\* What the types say of the two sequences.
LEMMA SeqFacts ==
  ASSUME TypeOK
  PROVE  /\ clients \in Seq(Clients) /\ Len(clients) \in Nat /\ DOMAIN clients = 1 .. Len(clients)
         /\ calls \in Seq(CallsOf(Len(clients))) /\ Len(calls) \in Nat /\ DOMAIN calls = 1 .. Len(calls)
         /\ \A c \in DOMAIN clients : clients[c] \in Clients
         /\ \A i \in DOMAIN calls : calls[i] \in CallsOf(Len(clients)) /\ calls[i].client \in DOMAIN clients
<1>1. clients \in Seq(Clients) /\ calls \in Seq(CallsOf(Len(clients)))
  BY DEF TypeOK, Clients, CallsOf
<1>2. /\ Len(clients) \in Nat /\ DOMAIN clients = 1 .. Len(clients)
      /\ Len(calls) \in Nat /\ DOMAIN calls = 1 .. Len(calls)
  BY <1>1, LenProperties
<1>3. /\ \A c \in DOMAIN clients : clients[c] \in Clients
      /\ \A i \in DOMAIN calls : calls[i] \in CallsOf(Len(clients))
  BY <1>1, <1>2, ElementOfSeq
<1>4. \A i \in DOMAIN calls : calls[i].client \in DOMAIN clients
  BY <1>2, <1>3 DEF CallsOf
<1> QED
  BY <1>1, <1>2, <1>3, <1>4

\* Append, element by element.
LEMMA AppendFacts ==
  ASSUME NEW S, NEW s \in Seq(S), NEW e \in S
  PROVE  /\ Append(s, e) \in Seq(S)
         /\ Len(s) \in Nat /\ Len(Append(s, e)) = Len(s) + 1
         /\ DOMAIN s = 1 .. Len(s)
         /\ DOMAIN Append(s, e) = 1 .. (Len(s) + 1)
         /\ \A i \in 1 .. Len(s) : Append(s, e)[i] = s[i]
         /\ Append(s, e)[Len(s) + 1] = e
<1>1. /\ Append(s, e) \in Seq(S) /\ Len(Append(s, e)) = Len(s) + 1 /\ Len(s) \in Nat
      /\ \A i \in 1 .. Len(s) : Append(s, e)[i] = s[i]
      /\ Append(s, e)[Len(s) + 1] = e
  BY AppendProperties, LenProperties
<1> QED
  BY <1>1, LenProperties

----------------------------------------------------------------------------
\* Types, one lemma for each kind of step.

\* The part of the types that a step on calls alone may disturb.
LEMMA CallReplaced ==
  ASSUME TypeOK, NEW i \in DOMAIN calls, NEW r \in CallsOf(Len(clients))
  PROVE  [calls EXCEPT ![i] = r] \in Seq(CallsOf(Len(clients)))
  BY SeqFacts, ExceptSeq

LEMMA NewCallType ==
  ASSUME NEW op \in {"release", "destroy"}, NEW n \in Nat, NEW c \in 1 .. n
  PROVE  NewCall(op, c) \in CallsOf(n)
  BY DEF NewCall, CallsOf

LEMMA CallAdded ==
  ASSUME TypeOK, NEW op \in {"release", "destroy"}, NEW c \in DOMAIN clients,
         calls' = Append(calls, NewCall(op, c))
  PROVE  calls' \in Seq(CallsOf(Len(clients))) /\ Len(calls') = Len(calls) + 1
<1>1. NewCall(op, c) \in CallsOf(Len(clients))
  BY SeqFacts, NewCallType
<1> QED
  BY <1>1, SeqFacts, AppendFacts

LEMMA DroppedType ==
  ASSUME TypeOK, NEW names
  PROVE  Dropped(names) \in [Names -> 0 .. Len(clients)]
  BY SeqFacts DEF TypeOK, Dropped

LEMMA SettledType ==
  ASSUME NEW n \in Nat, NEW call \in CallsOf(n), NEW outcome \in {"resolved", "rejected"}
  PROVE  Settled(call, outcome) \in CallsOf(n)
  BY DEF Settled, CallsOf

LEMMA GetCacheTyped ==
  ASSUME TypeOK, NEW n \in Names, GetCache(n)
  PROVE  TypeOK'
<1> DEFINE new == [name |-> n, released |-> FALSE, destroyed |-> FALSE]
<1>1. new \in Clients
  BY DEF Clients
<1>2. clients' = Append(clients, new)
  BY DEF GetCache
<1>3. clients' \in Seq(Clients) /\ Len(clients') = Len(clients) + 1 /\ DOMAIN clients' = 1 .. Len(clients')
  <2> HIDE DEF new
  <2> QED
    BY <1>1, <1>2, SeqFacts, AppendFacts
<1>4. calls' \in Seq(CallsOf(Len(clients')))
  <2>1. CallsOf(Len(clients)) \subseteq CallsOf(Len(clients'))
    BY <1>3, SeqFacts DEF CallsOf
  <2> QED
    BY <2>1, SeqFacts, SeqMonotonic DEF GetCache
<1>5. caches' \in [Names -> 0 .. Len(clients')]
  BY <1>3, SeqFacts DEF GetCache, TypeOK
<1>6. notices' \subseteq DOMAIN clients'
  BY <1>3, SeqFacts DEF GetCache, TypeOK
<1> QED
  BY <1>3, <1>4, <1>5, <1>6 DEF GetCache, TypeOK, Clients, CallsOf

\* A step that leaves the clients and caches alone.
LEMMA CallsStepTyped ==
  ASSUME TypeOK, UNCHANGED <<clients, caches>>,
         calls' \in Seq(CallsOf(Len(clients))), notices' \subseteq DOMAIN clients,
         markedForClose' \in BOOLEAN, closed' \in BOOLEAN,
         closing' \in [phase : {"no", "awaiting", "failed", "done"}, call : 0 .. Len(calls')],
         channel' \in {"READY", "CONNECTING", "SHUTDOWN"},
         used' \in [drops : Nat, timeouts : Nat, lost : Nat, destroys : Nat]
  PROVE  TypeOK'
  BY DEF TypeOK, CallsOf

LEMMA CallTyped ==
  ASSUME TypeOK, NEW c \in DOMAIN clients, Release(c) \/ Destroy(c)
  PROVE  TypeOK'
<1>1. calls' \in Seq(CallsOf(Len(clients))) /\ Len(calls') = Len(calls) + 1
  BY CallAdded DEF Release, Destroy
<1>2. closing' \in [phase : {"no", "awaiting", "failed", "done"}, call : 0 .. Len(calls')]
  BY <1>1, SeqFacts DEF TypeOK, Release, Destroy
<1> QED
  BY <1>1, <1>2, CallsStepTyped DEF TypeOK, Release, Destroy

LEMMA ClosedAfterType ==
  ASSUME TypeOK, NEW held, NEW marked
  PROVE  ClosedAfter(held, marked) \in BOOLEAN
  BY DEF ClosedAfter

\* The session's caches belong to clients.
LEMMA TrackedType ==
  ASSUME TypeOK
  PROVE  Tracked \subseteq DOMAIN clients
  BY SeqFacts DEF TypeOK, Tracked

\* The oldest of the caches that close() has yet to come to.
LEMMA OldestExists ==
  ASSUME TypeOK, Remaining # {}
  PROVE  \E c \in Remaining : \A d \in Remaining : c <= d
<1>1. Remaining \subseteq Nat
  BY TrackedType, SeqFacts DEF Remaining
<1>2. PICK c \in Remaining : \A d \in Remaining : ~(<<d, c>> \in OpToRel(<, Nat))
  BY <1>1, NatLessThanWellFounded, WFMin
<1>3. \A d \in Remaining : ~(d < c)
  BY <1>1, <1>2 DEF OpToRel
<1> QED
  BY <1>1, <1>3

LEMMA CloseLoopTyped ==
  ASSUME TypeOK, CloseLoop
  PROVE  /\ calls' \in Seq(CallsOf(Len(clients))) /\ Len(calls') \in Nat /\ Len(calls') >= Len(calls)
         /\ closing' \in [phase : {"no", "awaiting", "failed", "done"}, call : 0 .. Len(calls')]
         /\ channel' \in {"READY", "CONNECTING", "SHUTDOWN"}
         /\ closed' \in BOOLEAN
<1>1. CASE Remaining # {}
  <2>1. PICK c \in Remaining : \A d \in Remaining : c <= d
    BY <1>1, OldestExists
  <2> DEFINE oldest == CHOOSE c0 \in Remaining : \A d \in Remaining : c0 <= d
  <2>2. oldest \in Tracked
    BY <2>1 DEF Remaining
  <2>3. /\ calls' = Append(calls, NewCall("release", oldest))
        /\ closing' = [phase |-> "awaiting", call |-> Len(calls) + 1]
        /\ UNCHANGED <<closed, channel>>
    BY <1>1 DEF CloseLoop
  <2> HIDE DEF oldest
  <2>4. calls' \in Seq(CallsOf(Len(clients))) /\ Len(calls') = Len(calls) + 1
    BY <2>2, <2>3, CallAdded, TrackedType
  <2>5. Len(calls) + 1 \in 0 .. Len(calls') /\ Len(calls') \in Nat
    BY <2>4, SeqFacts
  <2> QED
    BY <2>3, <2>4, <2>5, SeqFacts DEF TypeOK
<1>2. CASE Remaining = {}
  <2>1. /\ channel' = "SHUTDOWN" /\ closing' = [phase |-> "done", call |-> 0]
        /\ closed' = ClosedAfter(caches, TRUE) /\ calls' = calls
    BY <1>2 DEF CloseLoop
  <2>2. closed' \in BOOLEAN
    BY <2>1, ClosedAfterType
  <2>3. closing' \in [phase : {"no", "awaiting", "failed", "done"}, call : 0 .. Len(calls')]
    BY <2>1, SeqFacts
  <2>4. calls' \in Seq(CallsOf(Len(clients))) /\ Len(calls') \in Nat /\ Len(calls') >= Len(calls)
    BY <2>1, SeqFacts
  <2>5. channel' \in {"READY", "CONNECTING", "SHUTDOWN"}
    BY <2>1
  <2> QED
    BY <2>2, <2>3, <2>4, <2>5
<1> QED
  BY <1>1, <1>2

LEMMA CloseTyped ==
  ASSUME TypeOK, Close
  PROVE  TypeOK'
  BY CloseLoopTyped, CallsStepTyped, SeqFacts DEF Close, TypeOK

LEMMA CloseResumeTyped ==
  ASSUME TypeOK, CloseResume
  PROVE  TypeOK'
<1>1. CASE CloseLoop
  BY <1>1, CloseLoopTyped, CallsStepTyped, SeqFacts DEF CloseResume, TypeOK
<1>2. CASE closing' = [phase |-> "failed", call |-> 0] /\ UNCHANGED <<calls, closed, channel>>
  <2>1. closing' \in [phase : {"no", "awaiting", "failed", "done"}, call : 0 .. Len(calls')]
    BY <1>2, SeqFacts
  <2> QED
    BY <1>2, <2>1, CallsStepTyped, SeqFacts DEF CloseResume, TypeOK
<1> QED
  BY <1>1, <1>2 DEF CloseResume

\* The counters of what is bounded.
LEMMA UsedType ==
  ASSUME TypeOK
  PROVE  LET counters == [drops : Nat, timeouts : Nat, lost : Nat, destroys : Nat]
         IN  /\ used \in counters
             /\ [used EXCEPT !.drops = @ + 1] \in counters
             /\ [used EXCEPT !.lost = @ + 1] \in counters
             /\ [used EXCEPT !.destroys = @ + 1] \in counters
             /\ [used EXCEPT !.timeouts = @ + 1] \in counters
             /\ \A b \in BOOLEAN : /\ [used EXCEPT !.timeouts = IF b THEN @ + 1 ELSE @] \in counters
                                   /\ [used EXCEPT !.lost = IF b THEN @ + 1 ELSE @] \in counters
<1> DEFINE counters == [drops : Nat, timeouts : Nat, lost : Nat, destroys : Nat]
<1>1. used \in counters
  BY DEF TypeOK
<1>2. [used EXCEPT !.drops = @ + 1] \in counters
  BY <1>1
<1>3. [used EXCEPT !.lost = @ + 1] \in counters
  BY <1>1
<1>4. [used EXCEPT !.destroys = @ + 1] \in counters
  BY <1>1
<1>5. [used EXCEPT !.timeouts = @ + 1] \in counters
  BY <1>1
<1>6. ASSUME NEW b \in BOOLEAN PROVE [used EXCEPT !.timeouts = IF b THEN @ + 1 ELSE @] \in counters
  BY <1>1
<1>7. ASSUME NEW b \in BOOLEAN PROVE [used EXCEPT !.lost = IF b THEN @ + 1 ELSE @] \in counters
  BY <1>1
<1> QED
  BY <1>1, <1>2, <1>3, <1>4, <1>5, <1>6, <1>7

\* A client is marked as released or destroyed and a call is replaced.
LEMMA ClientStepTyped ==
  ASSUME TypeOK, NEW c \in DOMAIN clients,
         clients' \in {[clients EXCEPT ![c].released = TRUE], [clients EXCEPT ![c].destroyed = TRUE]},
         caches' \in [Names -> 0 .. Len(clients)],
         calls' \in Seq(CallsOf(Len(clients))) /\ Len(calls') = Len(calls),
         notices' \subseteq notices, closed' \in BOOLEAN,
         UNCHANGED <<markedForClose, closing, channel>>,
         used' \in [drops : Nat, timeouts : Nat, lost : Nat, destroys : Nat]
  PROVE  TypeOK'
<1>1. clients' = [clients EXCEPT ![c] = [clients[c] EXCEPT !.released = TRUE]]
        \/ clients' = [clients EXCEPT ![c] = [clients[c] EXCEPT !.destroyed = TRUE]]
  OBVIOUS
<1>2. /\ [clients[c] EXCEPT !.released = TRUE] \in Clients
      /\ [clients[c] EXCEPT !.destroyed = TRUE] \in Clients
  BY SeqFacts DEF Clients
<1>3. clients' \in Seq(Clients) /\ Len(clients') = Len(clients)
  <2>1. \A e \in Clients : /\ [clients EXCEPT ![c] = e] \in Seq(Clients)
                           /\ Len([clients EXCEPT ![c] = e]) = Len(clients)
    BY SeqFacts, ExceptSeq
  <2> QED
    BY <1>1, <1>2, <2>1
<1>4. DOMAIN clients' = DOMAIN clients
  BY <1>3, SeqFacts, LenProperties
<1> QED
  BY <1>3, <1>4, SeqFacts DEF TypeOK, Clients, CallsOf

LEMMA WaitedForReadyTyped ==
  ASSUME TypeOK, NEW i \in DOMAIN calls, WaitedForReady(i)
  PROVE  TypeOK'
<1> DEFINE c == calls[i].client
           failed == channel # "READY"
           call == IF failed THEN Settled(calls[i], "rejected") ELSE calls[i]
<1>1. used' \in [drops : Nat, timeouts : Nat, lost : Nat, destroys : Nat]
  BY UsedType DEF WaitedForReady
<1>2. calls[i] \in CallsOf(Len(clients)) /\ c \in DOMAIN clients
  BY SeqFacts
<1>3. call \in CallsOf(Len(clients)) /\ Settled(call, "resolved") \in CallsOf(Len(clients))
  BY <1>2, SeqFacts, SettledType
<1>4. /\ [Settled(call, "resolved") EXCEPT !.phase = "done"] \in CallsOf(Len(clients))
      /\ [call EXCEPT !.phase = "sent"] \in CallsOf(Len(clients))
  <2> HIDE DEF call
  <2> QED
    BY <1>3 DEF CallsOf
<1>5. CASE ReleaseLogic(i, channel # "READY")
  <2>1. /\ clients' = [clients EXCEPT ![c].released = TRUE]
        /\ caches' = Dropped({clients[c].name})
        /\ closed' = ClosedAfter(Dropped({clients[c].name}), markedForClose)
        /\ calls' = [calls EXCEPT ![i] = [Settled(call, "resolved") EXCEPT !.phase = "done"]]
    BY <1>5 DEF ReleaseLogic
  <2> HIDE DEF call, c
  <2>2. calls' \in Seq(CallsOf(Len(clients))) /\ Len(calls') = Len(calls)
    BY <1>4, <2>1, SeqFacts, ExceptSeq
  <2> QED
    BY <1>1, <1>2, <2>1, <2>2, ClientStepTyped, DroppedType, ClosedAfterType DEF WaitedForReady
<1>6. CASE DestroyLogic(i, channel # "READY")
  <2>1. calls' = [calls EXCEPT ![i] = [call EXCEPT !.phase = "sent"]] /\ UNCHANGED <<clients, caches, closed>>
    BY <1>6 DEF DestroyLogic
  <2> HIDE DEF call, c
  <2>2. calls' \in Seq(CallsOf(Len(clients))) /\ Len(calls') = Len(calls)
    BY <1>4, <2>1, SeqFacts, ExceptSeq
  <2> QED
    BY <1>1, <2>1, <2>2, CallsStepTyped DEF WaitedForReady, TypeOK
<1> QED
  BY <1>5, <1>6 DEF WaitedForReady

LEMMA DestroySettledTyped ==
  ASSUME TypeOK, NEW i \in DOMAIN calls, DestroyAnswered(i) \/ DestroyFailed(i)
  PROVE  TypeOK'
<1>1. /\ [calls[i] EXCEPT !.phase = "answered"] \in CallsOf(Len(clients))
      /\ [Settled(calls[i], "rejected") EXCEPT !.phase = "answered"] \in CallsOf(Len(clients))
  <2>1. calls[i] \in CallsOf(Len(clients)) /\ Settled(calls[i], "rejected") \in CallsOf(Len(clients))
    BY SeqFacts, SettledType
  <2> QED
    BY <2>1 DEF CallsOf
<1>2. calls' \in Seq(CallsOf(Len(clients))) /\ Len(calls') = Len(calls)
  <2>1. \/ calls' = [calls EXCEPT ![i] = [calls[i] EXCEPT !.phase = "answered"]]
        \/ calls' = [calls EXCEPT ![i] = [Settled(calls[i], "rejected") EXCEPT !.phase = "answered"]]
    BY DEF DestroyAnswered, DestroyFailed
  <2>2. \A r \in CallsOf(Len(clients)) :
          /\ [calls EXCEPT ![i] = r] \in Seq(CallsOf(Len(clients)))
          /\ Len([calls EXCEPT ![i] = r]) = Len(calls)
    BY SeqFacts, ExceptSeq
  <2> QED
    BY <1>1, <2>1, <2>2
<1>3. notices' \subseteq DOMAIN clients
  BY DEF DestroyAnswered, DestroyFailed, Notified, TypeOK
<1>4. used' \in [drops : Nat, timeouts : Nat, lost : Nat, destroys : Nat]
  <2>1. used \in [drops : Nat, timeouts : Nat, lost : Nat, destroys : Nat]
    BY DEF TypeOK
  <2>2. used' = used \/ used' = [used EXCEPT !.lost = @ + 1]
    <3>1. used' = used \/ used' = [used EXCEPT !.lost = IF channel = "READY" THEN @ + 1 ELSE @]
      BY DEF DestroyAnswered, DestroyFailed
    <3> QED
      BY <2>1, <3>1
  <2> QED
    BY <2>1, <2>2
<1> QED
  BY <1>2, <1>3, <1>4, CallsStepTyped DEF DestroyAnswered, DestroyFailed, TypeOK

LEMMA OnDestroyedTyped ==
  ASSUME TypeOK, NEW c \in DOMAIN clients, OnDestroyed(c)
  PROVE  TypeOK'
<1> DEFINE new(i) == IF /\ calls[i].client = c /\ calls[i].op = "destroy"
                        /\ calls[i].phase \in {"sent", "answered"}
                     THEN Settled(calls[i], "resolved") ELSE calls[i]
<1>1. calls' = [i \in 1 .. Len(calls) |-> new(i)]
  BY SeqFacts DEF OnDestroyed
<1>2. \A i \in 1 .. Len(calls) : new(i) \in CallsOf(Len(clients))
  BY SeqFacts, SettledType
<1>3. calls' \in Seq(CallsOf(Len(clients)))
  <2> HIDE DEF new
  <2> QED
    BY <1>1, <1>2, SeqFacts, IsASeq
<1>4. Len(calls') = Len(calls)
  <2>1. DOMAIN calls' = 1 .. Len(calls) /\ DOMAIN calls' = 1 .. Len(calls') /\ Len(calls') \in Nat
    BY <1>1, <1>3, LenProperties
  <2> QED
    BY <2>1, SeqFacts
<1>5. closed' \in BOOLEAN
  BY ClosedAfterType DEF OnDestroyed, TypeOK
<1>6. caches' \in [Names -> 0 .. Len(clients)]
  BY DroppedType DEF OnDestroyed
<1>7. used' \in [drops : Nat, timeouts : Nat, lost : Nat, destroys : Nat]
  BY DEF OnDestroyed, TypeOK
<1>8. /\ clients' = [clients EXCEPT ![c].destroyed = TRUE] /\ notices' \subseteq notices
      /\ UNCHANGED <<markedForClose, closing, channel>>
  BY DEF OnDestroyed
<1> QED
  BY <1>3, <1>4, <1>5, <1>6, <1>7, <1>8, ClientStepTyped

LEMMA OthersTyped ==
  ASSUME TypeOK,
         \/ \E n \in Names : DestroyedElsewhere(n)
         \/ \E c \in DOMAIN clients : NoticeLost(c)
         \/ ChannelDrop \/ ChannelUp
  PROVE  TypeOK'
<1>1. /\ UNCHANGED <<clients, caches, calls, markedForClose, closed, closing>>
      /\ channel' \in {"READY", "CONNECTING", "SHUTDOWN"}
      /\ notices' \subseteq DOMAIN clients
  BY DEF DestroyedElsewhere, NoticeLost, ChannelDrop, ChannelUp, Notified, TypeOK
<1>2. used' \in [drops : Nat, timeouts : Nat, lost : Nat, destroys : Nat]
  <2>1. ASSUME NEW c \in DOMAIN clients, NoticeLost(c)
        PROVE  used' \in [drops : Nat, timeouts : Nat, lost : Nat, destroys : Nat]
    BY <2>1, UsedType DEF NoticeLost
  <2> QED
    BY <2>1, UsedType DEF DestroyedElsewhere, ChannelDrop, ChannelUp
<1> QED
  BY <1>1, <1>2, CallsStepTyped, SeqFacts DEF TypeOK

\* Types hold for any names and bounds, and calls that are stale, repeated or
\* rejected leave no index that points nowhere.
LEMMA NextTyped ==
  ASSUME TypeOK, [Next]_vars
  PROVE  TypeOK'
<1>1. CASE Application
  BY <1>1, GetCacheTyped, CallTyped, CloseTyped DEF Application
<1>2. CASE Progress
  BY <1>2, CloseResumeTyped, WaitedForReadyTyped, DestroySettledTyped, OnDestroyedTyped, OthersTyped DEF Progress
<1>3. CASE Environment
  BY <1>3, OthersTyped DEF Environment
<1>4. CASE UNCHANGED vars
  BY <1>4 DEF vars, TypeOK
<1> QED
  BY <1>1, <1>2, <1>3, <1>4 DEF Next

LEMMA InitTyped == Init => TypeOK
<1>1. <<>> \in Seq(Clients) /\ Len(<<>>) = 0 /\ DOMAIN <<>> = {}
  BY EmptySeq
<1>2. <<>> \in Seq(CallsOf(0))
  BY EmptySeq
<1> SUFFICES ASSUME Init PROVE TypeOK
  OBVIOUS
<1>3. clients \in Seq(Clients) /\ Len(clients) = 0 /\ calls \in Seq(CallsOf(Len(clients))) /\ Len(calls) = 0
  BY <1>1, <1>2 DEF Init
<1>4. caches \in [Names -> 0 .. Len(clients)] /\ notices \subseteq DOMAIN clients
  BY <1>3 DEF Init
<1>5. closing \in [phase : {"no", "awaiting", "failed", "done"}, call : 0 .. Len(calls)]
  BY <1>3 DEF Init
<1> QED
  BY <1>3, <1>4, <1>5 DEF Init, TypeOK, Clients, CallsOf

\* The state keeps its types, and no call, cache or notice is of a client that
\* does not exist.
THEOREM TypeCorrect == Spec => []TypeOK
  BY InitTyped, NextTyped, PTL DEF Spec

----------------------------------------------------------------------------
(* The loop of close() over the live map.                                  *)

\* A client is held under its own name.
OwnName == \A n \in Names : caches[n] # 0 => clients[caches[n]].name = n

\* While close() awaits a release no cache that is left lies behind the one that
\* it visits, and that one is gone once the release has been resolved.
LoopInv ==
  /\ OwnName
  /\ closing.phase = "awaiting" =>
       /\ closing.call \in DOMAIN calls
       /\ calls[closing.call].op = "release"
       /\ \A d \in Tracked : Visited <= d
       /\ calls[closing.call].outcome = "resolved" => Visited \notin Tracked

\* The channel is only shut down by a session that no longer hands out caches.
ShutdownInv == channel = "SHUTDOWN" => markedForClose /\ Tracked = {}

\* Whenever the loop goes on, everything that is left lies ahead of it.
LEMMA NothingMissed ==
  ASSUME TypeOK, CloseInv, LoopInv,
         ~markedForClose \/ (ResumeDue /\ calls[closing.call].outcome = "resolved")
  PROVE  Remaining = Tracked
<1>1. Tracked \subseteq Nat /\ \A d \in Tracked : d > 0
  BY TrackedType, SeqFacts
<1>2. \A d \in Tracked : d > Visited
  <2>1. CASE ~markedForClose
    BY <1>1, <2>1 DEF CloseInv, Visited
  <2>2. CASE ResumeDue /\ calls[closing.call].outcome = "resolved"
    <3>1. closing.phase = "awaiting" /\ Visited \in Nat
      BY <2>2, SeqFacts DEF ResumeDue, LoopInv, Visited
    <3> QED
      BY <1>1, <2>2, <3>1 DEF LoopInv
  <2> QED
    BY <2>1, <2>2
<1> QED
  BY <1>2 DEF Remaining

\* Calls keep what they are of and what they do; what else a step may change.
LEMMA StepKeepsLoop ==
  ASSUME LoopInv, OwnName', UNCHANGED closing,
         Tracked' \subseteq Tracked,
         DOMAIN calls \subseteq DOMAIN calls',
         \A i \in DOMAIN calls :
           /\ calls'[i].op = calls[i].op /\ calls'[i].client = calls[i].client
           /\ calls'[i].op = "release" /\ calls'[i].outcome = "resolved" =>
                calls[i].outcome = "resolved" \/ calls[i].client \notin Tracked'
  PROVE  LoopInv'
<1>1. SUFFICES ASSUME closing.phase = "awaiting"
               PROVE  /\ closing.call \in DOMAIN calls'
                      /\ calls'[closing.call].op = "release"
                      /\ \A d \in Tracked' : Visited' <= d
                      /\ calls'[closing.call].outcome = "resolved" => Visited' \notin Tracked'
  BY DEF LoopInv
<1>2. /\ closing.call \in DOMAIN calls /\ calls[closing.call].op = "release"
      /\ \A d \in Tracked : Visited <= d
      /\ calls[closing.call].outcome = "resolved" => Visited \notin Tracked
  BY <1>1 DEF LoopInv
<1>3. Visited' = Visited /\ Visited = calls[closing.call].client
  BY <1>1, <1>2 DEF Visited
<1> QED
  BY <1>1, <1>2, <1>3

\* What is dropped is no longer tracked, and nothing else is touched.
LEMMA DropsTracked ==
  ASSUME NEW names, caches' = Dropped(names)
  PROVE  Tracked' \subseteq Tracked
  BY DEF Tracked, Dropped

\* Caches and the names of clients as they were.
LEMMA FrameKeepsOwn ==
  ASSUME OwnName, UNCHANGED <<clients, caches>>
  PROVE  OwnName' /\ Tracked' = Tracked
  BY DEF OwnName, Tracked

\* A client is marked, and names are dropped.
LEMMA MarkKeepsOwn ==
  ASSUME TypeOK, OwnName, NEW c \in DOMAIN clients, NEW names, caches' = Dropped(names),
         clients' \in {[clients EXCEPT ![c].released = TRUE], [clients EXCEPT ![c].destroyed = TRUE]}
  PROVE  OwnName'
<1>1. \A d \in DOMAIN clients : clients'[d].name = clients[d].name
  BY SeqFacts DEF Clients
<1>2. \A n \in Names : caches'[n] # 0 => caches'[n] = caches[n] /\ caches[n] \in DOMAIN clients
  BY SeqFacts DEF Dropped, TypeOK
<1> QED
  BY <1>1, <1>2 DEF OwnName

\* What the loop does next, from a state in which it has missed nothing.
LEMMA LoopKeepsLoop ==
  ASSUME TypeOK, LoopInv, ShutdownInv, Remaining = Tracked, CloseLoop, markedForClose',
         UNCHANGED <<clients, caches>>
  PROVE  LoopInv' /\ ShutdownInv'
<1>1. OwnName' /\ Tracked' = Tracked
  BY FrameKeepsOwn DEF LoopInv
<1>2. CASE Tracked # {}
  <2> DEFINE oldest == CHOOSE c0 \in Remaining : \A d \in Remaining : c0 <= d
             k == Len(calls) + 1
  <2>1. oldest \in Tracked /\ \A d \in Tracked : oldest <= d
    BY <1>2, OldestExists
  <2>2. /\ calls' = Append(calls, NewCall("release", oldest))
        /\ closing' = [phase |-> "awaiting", call |-> k]
        /\ UNCHANGED channel
    BY <1>2 DEF CloseLoop
  <2> HIDE DEF oldest
  <2>3. oldest \in DOMAIN clients
    BY <2>1, TrackedType
  <2>4. NewCall("release", oldest) \in CallsOf(Len(clients))
    BY <2>3, SeqFacts, NewCallType
  <2>5. DOMAIN calls' = 1 .. k /\ k \in Nat /\ k >= 1 /\ calls'[k] = NewCall("release", oldest)
    BY <2>2, <2>4, SeqFacts, AppendFacts
  <2> HIDE DEF k
  <2>6. /\ calls'[k].op = "release" /\ calls'[k].client = oldest
        /\ calls'[k].outcome # "resolved"
    BY <2>5 DEF NewCall
  <2>7. Visited' = oldest /\ closing'.call = k
    BY <2>2, <2>6 DEF Visited
  <2>8. LoopInv'
    BY <1>1, <2>1, <2>5, <2>6, <2>7 DEF LoopInv
  <2> QED
    BY <1>1, <1>2, <2>2, <2>8 DEF ShutdownInv
<1>3. CASE Tracked = {}
  <2>1. closing' = [phase |-> "done", call |-> 0]
    BY <1>3 DEF CloseLoop
  <2> QED
    BY <1>1, <1>3, <2>1 DEF LoopInv, ShutdownInv
<1> QED
  BY <1>2, <1>3

\* A call that is added leaves the others as they were.
LEMMA CallAppended ==
  ASSUME TypeOK, NEW op \in {"release", "destroy"}, NEW c \in DOMAIN clients,
         calls' = Append(calls, NewCall(op, c))
  PROVE  DOMAIN calls \subseteq DOMAIN calls' /\ \A i \in DOMAIN calls : calls'[i] = calls[i]
<1>1. NewCall(op, c) \in CallsOf(Len(clients))
  BY SeqFacts, NewCallType
<1>2. /\ DOMAIN calls' = 1 .. (Len(calls) + 1) /\ DOMAIN calls = 1 .. Len(calls) /\ Len(calls) \in Nat
      /\ \A i \in DOMAIN calls : calls'[i] = calls[i]
  BY <1>1, SeqFacts, AppendFacts
<1> QED
  BY <1>2

\* A step that leaves clients and caches alone and at most adds a call.
LEMMA CallKeepsLoop ==
  ASSUME TypeOK, LoopInv, ShutdownInv, UNCHANGED <<clients, caches, markedForClose, closing, channel>>,
         \/ UNCHANGED calls
         \/ \E op \in {"release", "destroy"}, c \in DOMAIN clients : calls' = Append(calls, NewCall(op, c))
  PROVE  LoopInv' /\ ShutdownInv'
<1>1. OwnName' /\ Tracked' = Tracked
  BY FrameKeepsOwn DEF LoopInv
<1>2. DOMAIN calls \subseteq DOMAIN calls' /\ \A i \in DOMAIN calls : calls'[i] = calls[i]
  BY CallAppended
<1>3. LoopInv'
  BY <1>1, <1>2, StepKeepsLoop
<1> QED
  BY <1>1, <1>3 DEF ShutdownInv

LEMMA ApplicationKeepsLoop ==
  ASSUME TypeOK, CloseInv, LoopInv, ShutdownInv, Application
  PROVE  LoopInv' /\ ShutdownInv'
<1>1. ASSUME NEW n \in Names, GetCache(n) PROVE LoopInv' /\ ShutdownInv'
  <2> DEFINE new == [name |-> n, released |-> FALSE, destroyed |-> FALSE]
             k == Len(clients) + 1
  <2>1. /\ ~markedForClose /\ clients' = Append(clients, new) /\ caches' = [caches EXCEPT ![n] = k]
        /\ UNCHANGED <<calls, closing, channel, markedForClose>>
    BY <1>1 DEF GetCache
  <2>2. new \in Clients
    BY DEF Clients
  <2>3. /\ \A c \in DOMAIN clients : clients'[c] = clients[c]
        /\ clients'[k].name = n
    <3>1. /\ \A c \in 1 .. Len(clients) : clients'[c] = clients[c]
          /\ clients'[k] = new
      <4> HIDE DEF new
      <4> QED
        BY <2>1, <2>2, SeqFacts, AppendFacts
    <3> QED
      BY <3>1, SeqFacts
  <2> HIDE DEF new, k
  <2>4. OwnName'
    <3> SUFFICES ASSUME NEW m \in Names, caches'[m] # 0
                 PROVE  clients'[caches'[m]].name = m
      BY DEF OwnName
    <3>1. CASE m = n
      BY <3>1, <2>1, <2>3 DEF TypeOK
    <3>2. CASE m # n
      <4>1. caches'[m] = caches[m] /\ caches[m] \in DOMAIN clients
        BY <3>2, <2>1, SeqFacts DEF TypeOK
      <4> QED
        BY <4>1, <2>3 DEF LoopInv, OwnName
    <3> QED
      BY <3>1, <3>2
  <2>5. closing.phase # "awaiting" /\ channel # "SHUTDOWN"
    BY <2>1 DEF CloseInv, ShutdownInv
  <2>6. LoopInv'
    BY <2>1, <2>4, <2>5 DEF LoopInv
  <2>7. ShutdownInv'
    BY <2>1, <2>5 DEF ShutdownInv
  <2> QED
    BY <2>6, <2>7
<1>2. ASSUME NEW c \in DOMAIN clients, Release(c) \/ Destroy(c) PROVE LoopInv' /\ ShutdownInv'
  BY <1>2, CallKeepsLoop DEF Release, Destroy
<1>3. CASE Close
  BY <1>3, NothingMissed, LoopKeepsLoop DEF Close
<1> QED
  BY <1>1, <1>2, <1>3 DEF Application

\* The application's or close()'s own release: its client's name is dropped.
LEMMA WaitedKeepsLoop ==
  ASSUME TypeOK, LoopInv, ShutdownInv, NEW i \in DOMAIN calls, WaitedForReady(i)
  PROVE  LoopInv' /\ ShutdownInv'
<1> DEFINE c == calls[i].client
           call == IF channel # "READY" THEN Settled(calls[i], "rejected") ELSE calls[i]
<1>1. UNCHANGED <<markedForClose, closing, channel>>
  BY DEF WaitedForReady
<1>2. calls[i] \in CallsOf(Len(clients)) /\ c \in DOMAIN clients /\ Len(clients) \in Nat
  BY SeqFacts
<1>3. /\ call \in CallsOf(Len(clients)) /\ call.op = calls[i].op /\ call.client = c
      /\ call.outcome = "resolved" => calls[i].outcome = "resolved"
  BY <1>2 DEF Settled, CallsOf
<1>4. CASE calls[i].op = "release" /\ ReleaseLogic(i, channel # "READY")
  <2> DEFINE r == [Settled(call, "resolved") EXCEPT !.phase = "done"]
  <2>1. /\ clients' = [clients EXCEPT ![c].released = TRUE]
        /\ caches' = Dropped({clients[c].name})
        /\ calls' = [calls EXCEPT ![i] = r]
    BY <1>4 DEF ReleaseLogic
  <2>2. r.op = calls[i].op /\ r.client = c
    <3> HIDE DEF call, c
    <3> QED
      BY <1>3 DEF Settled, CallsOf
  <2> HIDE DEF r, call
  <2>3. OwnName'
    BY <1>2, <2>1, MarkKeepsOwn DEF LoopInv
  <2>4. Tracked' \subseteq Tracked
    BY <2>1, DropsTracked
  <2>5. c \notin Tracked'
    <3> SUFFICES ASSUME NEW n \in Names, caches'[n] = c, c # 0 PROVE FALSE
      BY DEF Tracked
    <3>1. n # clients[c].name /\ caches[n] = c
      BY <2>1 DEF Dropped
    <3> QED
      BY <3>1 DEF LoopInv, OwnName
  <2>6. DOMAIN calls' = DOMAIN calls /\ \A j \in DOMAIN calls : calls'[j] = IF j = i THEN r ELSE calls[j]
    BY <2>1
  <2>7. LoopInv'
    BY <1>1, <2>2, <2>3, <2>4, <2>5, <2>6, StepKeepsLoop
  <2> QED
    BY <1>1, <2>4, <2>7 DEF ShutdownInv
<1>5. CASE calls[i].op = "destroy" /\ DestroyLogic(i, channel # "READY")
  <2> DEFINE r == [call EXCEPT !.phase = "sent"]
  <2>1. UNCHANGED <<clients, caches>> /\ calls' = [calls EXCEPT ![i] = r]
    BY <1>5 DEF DestroyLogic
  <2>2. r.op = calls[i].op /\ r.client = c
    <3> HIDE DEF call, c
    <3> QED
      BY <1>3 DEF CallsOf
  <2> HIDE DEF r, call
  <2>3. OwnName' /\ Tracked' = Tracked
    BY <2>1, FrameKeepsOwn DEF LoopInv
  <2>4. DOMAIN calls' = DOMAIN calls /\ \A j \in DOMAIN calls : calls'[j] = IF j = i THEN r ELSE calls[j]
    BY <2>1
  <2>5. LoopInv'
    BY <1>1, <1>5, <2>2, <2>3, <2>4, StepKeepsLoop
  <2> QED
    BY <1>1, <2>3, <2>5 DEF ShutdownInv
<1> QED
  BY <1>4, <1>5 DEF WaitedForReady

LEMMA DestroySettledKeepsLoop ==
  ASSUME TypeOK, LoopInv, ShutdownInv, NEW i \in DOMAIN calls, DestroyAnswered(i) \/ DestroyFailed(i)
  PROVE  LoopInv' /\ ShutdownInv'
<1> DEFINE r == [calls[i] EXCEPT !.phase = "answered"]
           s == [Settled(calls[i], "rejected") EXCEPT !.phase = "answered"]
<1>1. /\ UNCHANGED <<clients, caches, markedForClose, closing, channel>>
      /\ calls' = [calls EXCEPT ![i] = r] \/ calls' = [calls EXCEPT ![i] = s]
  BY DEF DestroyAnswered, DestroyFailed
<1>2. \A e \in {r, s} : /\ e.op = calls[i].op /\ e.client = calls[i].client
                        /\ e.outcome = "resolved" => calls[i].outcome = "resolved"
  BY SeqFacts DEF Settled, CallsOf
<1> HIDE DEF r, s
<1>3. OwnName' /\ Tracked' = Tracked
  BY <1>1, FrameKeepsOwn DEF LoopInv
<1>4. DOMAIN calls' = DOMAIN calls
      /\ \A j \in DOMAIN calls : /\ calls'[j].op = calls[j].op /\ calls'[j].client = calls[j].client
                                 /\ calls'[j].outcome = "resolved" => calls[j].outcome = "resolved"
  BY <1>1, <1>2
<1>5. UNCHANGED closing /\ Tracked' \subseteq Tracked /\ DOMAIN calls \subseteq DOMAIN calls'
  BY <1>1, <1>3, <1>4
<1>6. LoopInv'
  BY <1>3, <1>4, <1>5, StepKeepsLoop
<1> QED
  BY <1>1, <1>3, <1>6 DEF ShutdownInv

LEMMA OnDestroyedKeepsLoop ==
  ASSUME TypeOK, LoopInv, ShutdownInv, NEW c \in DOMAIN clients, OnDestroyed(c)
  PROVE  LoopInv' /\ ShutdownInv'
<1> DEFINE new(i) == IF /\ calls[i].client = c /\ calls[i].op = "destroy"
                        /\ calls[i].phase \in {"sent", "answered"}
                     THEN Settled(calls[i], "resolved") ELSE calls[i]
<1>1. /\ UNCHANGED <<markedForClose, closing, channel>>
      /\ clients' = [clients EXCEPT ![c].destroyed = TRUE] /\ caches' = Dropped(KeyedUnder[clients[c].name])
      /\ calls' = [i \in DOMAIN calls |-> new(i)]
  BY DEF OnDestroyed
<1>2. \A i \in DOMAIN calls : /\ new(i).op = calls[i].op /\ new(i).client = calls[i].client
                              /\ calls[i].op = "release" => new(i) = calls[i]
  BY SeqFacts DEF Settled, CallsOf
<1> HIDE DEF new
<1>3. OwnName'
  BY <1>1, MarkKeepsOwn DEF LoopInv
<1>4. Tracked' \subseteq Tracked
  BY <1>1, DropsTracked
<1>5. /\ UNCHANGED closing /\ DOMAIN calls \subseteq DOMAIN calls'
      /\ \A i \in DOMAIN calls : /\ calls'[i].op = calls[i].op /\ calls'[i].client = calls[i].client
                                 /\ calls[i].op = "release" => calls'[i] = calls[i]
  BY <1>1, <1>2
<1>6. LoopInv'
  BY <1>3, <1>4, <1>5, StepKeepsLoop
<1> QED
  BY <1>1, <1>4, <1>6 DEF ShutdownInv

LEMMA OthersKeepLoop ==
  ASSUME TypeOK, LoopInv, ShutdownInv,
         \/ \E n \in Names : DestroyedElsewhere(n)
         \/ \E c \in DOMAIN clients : NoticeLost(c)
         \/ ChannelDrop \/ ChannelUp
  PROVE  LoopInv' /\ ShutdownInv'
<1>1. UNCHANGED <<clients, caches, calls, markedForClose, closing>> /\ (channel' = "SHUTDOWN" => channel = "SHUTDOWN")
  BY DEF DestroyedElsewhere, NoticeLost, ChannelDrop, ChannelUp
<1>2. OwnName' /\ Tracked' = Tracked
  BY <1>1, FrameKeepsOwn DEF LoopInv
<1>3. LoopInv'
  BY <1>1, <1>2, StepKeepsLoop
<1> QED
  BY <1>1, <1>2, <1>3 DEF ShutdownInv

LEMMA LoopStep ==
  ASSUME TypeOK, CloseInv, LoopInv, ShutdownInv, [Next]_vars
  PROVE  LoopInv' /\ ShutdownInv'
<1>1. CASE CloseResume
  <2>1. UNCHANGED <<clients, caches>> /\ markedForClose' = markedForClose /\ markedForClose
    BY <1>1 DEF CloseResume, ResumeDue, CloseInv
  <2>2. CASE calls[closing.call].outcome = "resolved"
    BY <1>1, <2>1, <2>2, NothingMissed, LoopKeepsLoop DEF CloseResume
  <2>3. CASE closing' = [phase |-> "failed", call |-> 0] /\ UNCHANGED channel
    <3>1. OwnName' /\ Tracked' = Tracked
      BY <2>1, FrameKeepsOwn DEF LoopInv
    <3> QED
      BY <2>1, <2>3, <3>1 DEF LoopInv, ShutdownInv
  <2> QED
    BY <1>1, <2>2, <2>3 DEF CloseResume
<1>2. CASE UNCHANGED vars
  BY <1>2, CallKeepsLoop DEF vars
<1> QED
  BY <1>1, <1>2, ApplicationKeepsLoop, WaitedKeepsLoop, DestroySettledKeepsLoop, OnDestroyedKeepsLoop,
     OthersKeepLoop DEF Next, Progress, Environment

LEMMA ShutdownHolds == Spec => [](LoopInv /\ ShutdownInv)
<1>1. Init => TypeOK /\ CloseInv /\ LoopInv /\ ShutdownInv
  BY InitTyped DEF Init, CloseInv, LoopInv, OwnName, ShutdownInv
<1>2. TypeOK /\ CloseInv /\ LoopInv /\ ShutdownInv /\ [Next]_vars
        => TypeOK' /\ CloseInv' /\ LoopInv' /\ ShutdownInv'
  BY NextTyped, CloseInvStep, LoopStep
<1> QED
  BY <1>1, <1>2, PTL DEF Spec

\* The loop of close() leaves nothing behind: however releases, destroys and
\* losses delete from the map while it is walked, and for any names, the session
\* holds no cache once its channel is shut down, and gets none.
THEOREM NothingHeld == Spec => []NothingHeldAfterShutdown
<1>1. ShutdownInv => NothingHeldAfterShutdown
  BY DEF ShutdownInv, NothingHeldAfterShutdown
<1> QED
  BY <1>1, ShutdownHolds, PTL


----------------------------------------------------------------------------
\* The application releases a cache once and keeps release and destruction
\* apart, and no cache is keyed under another's name.
Disciplined == ReleaseOnce /\ \A n \in Names : KeyedUnder[n] = {n}

\* The calls of release that wait for the channel, and the clients that are
\* about to be marked as released or destroyed.
Waiting == {i \in DOMAIN calls : calls[i].op = "release" /\ calls[i].phase = "waiting"}

Pending == {calls[i].client : i \in Waiting} \cup notices

\* The session holds every active client under its name ...
Held == \A c \in DOMAIN clients : Active(c) => caches[clients[c].name] = c

\* ... and no others.
Kept == \A n \in Names : caches[n] # 0 =>
          caches[n] \in DOMAIN clients /\ clients[caches[n]].name = n /\ Active(caches[n])

\* No active client has taken the place of one that is about to be marked: the
\* marking drops the name, whichever client holds it.
NoneReplaced ==
  \A c \in Pending : \A d \in DOMAIN clients :
    Active(d) /\ clients[d].name = clients[c].name => d = c

\* Until close() is called, whatever is about to be marked is still in use ...
PendingActive == ~markedForClose => \A c \in Pending : Active(c)

\* ... because a client is released once ...
ReleasedOnce ==
  ~markedForClose =>
    \A i, j \in DOMAIN calls :
      calls[i].op = "release" /\ calls[j].op = "release" /\ calls[i].client = calls[j].client => i = j

\* ... and nothing is destroyed, or about to be, that is released.
ReleasesApart ==
  ~markedForClose /\ (\E i \in DOMAIN calls : calls[i].op = "release") =>
    used.destroys = 0 /\ notices = {} /\ \A i \in DOMAIN calls : calls[i].op = "release"

NoticesFrom == notices # {} => used.destroys > 0 \/ \E i \in DOMAIN calls : calls[i].op = "destroy"

SentDestroys == \A i \in DOMAIN calls : calls[i].phase = "sent" => calls[i].op = "destroy"

ClosedInv == closed => markedForClose /\ \A n \in Names : caches[n] = 0

\* What is held, and what the calls may still do.
HeldInv == Held /\ Kept /\ NoneReplaced /\ ClosedInv

CallsInv == PendingActive /\ ReleasedOnce /\ ReleasesApart /\ NoticesFrom /\ SentDestroys

CachesInv == HeldInv /\ CallsInv /\ CloseInv

\* Calls go on: none is added, and none goes back to waiting or is sent anew
\* but a destroy.
CallsGoOn ==
  /\ DOMAIN calls' = DOMAIN calls
  /\ \A i \in DOMAIN calls :
       /\ calls'[i].op = calls[i].op /\ calls'[i].client = calls[i].client
       /\ calls'[i].phase = "waiting" => calls[i].phase = "waiting"
       /\ calls'[i].phase = "sent" => calls[i].phase = "sent" \/ calls[i].op = "destroy"

\* Whoever is pending is a client.
LEMMA PendingType ==
  ASSUME TypeOK
  PROVE  Pending \subseteq DOMAIN clients
<1>1. notices \subseteq DOMAIN clients
  BY SeqFacts DEF TypeOK
<1>2. ASSUME NEW i \in DOMAIN calls PROVE calls[i].client \in DOMAIN clients
  BY SeqFacts DEF TypeOK
<1> QED
  BY <1>1, <1>2 DEF Pending, Waiting

LEMMA PendingShrinks ==
  ASSUME CallsGoOn, notices' \subseteq notices
  PROVE  Waiting' \subseteq Waiting /\ Pending' \subseteq Pending
<1>1. Waiting' \subseteq Waiting
  BY DEF Waiting, CallsGoOn
<1>2. \A i \in Waiting' : calls'[i].client = calls[i].client
  BY <1>1 DEF Waiting, CallsGoOn
<1>3. ASSUME NEW c \in Pending' PROVE c \in Pending
  <2>1. CASE c \in notices'
    BY <2>1 DEF Pending
  <2>2. CASE \E i \in Waiting' : c = calls'[i].client
    <3>1. PICK i \in Waiting' : c = calls'[i].client
      BY <2>2
    <3>2. i \in Waiting /\ c = calls[i].client
      BY <1>1, <1>2, <3>1
    <3> QED
      BY <3>2 DEF Pending
  <2> QED
    BY <1>3, <2>1, <2>2 DEF Pending
<1> QED
  BY <1>1, <1>3

\* Calls that only go on keep what is known of them but PendingActive.
LEMMA GoOnKeepsCalls ==
  ASSUME CallsInv, CallsGoOn, notices' \subseteq notices, UNCHANGED markedForClose,
         used'.destroys = used.destroys
  PROVE  ReleasedOnce' /\ ReleasesApart' /\ NoticesFrom' /\ SentDestroys'
<1>1. ReleasedOnce'
  BY DEF CallsInv, ReleasedOnce, CallsGoOn
<1>2. ReleasesApart'
  BY DEF CallsInv, ReleasesApart, CallsGoOn
<1>3. NoticesFrom'
  BY DEF CallsInv, NoticesFrom, CallsGoOn
<1>4. SentDestroys'
  BY DEF CallsInv, SentDestroys, CallsGoOn
<1> QED
  BY <1>1, <1>2, <1>3, <1>4

\* A step that moves calls on, or loses notices, and leaves the caches alone.
LEMMA GoOnKeepsInv ==
  ASSUME TypeOK, HeldInv, CallsInv, CallsGoOn, notices' \subseteq notices,
         UNCHANGED <<clients, caches, markedForClose, closed>>,
         used'.destroys = used.destroys
  PROVE  HeldInv' /\ CallsInv'
<1>1. Pending' \subseteq Pending /\ \A c : Active(c)' = Active(c)
  BY PendingShrinks DEF Active
<1>2. HeldInv'
  BY <1>1 DEF HeldInv, Held, Kept, NoneReplaced, ClosedInv
<1>3. PendingActive'
  BY <1>1 DEF CallsInv, PendingActive
<1> QED
  BY <1>2, <1>3, GoOnKeepsCalls DEF CallsInv

\* A client that is pending is marked, and the session drops its name.
LEMMA MarkedKeepsInv ==
  ASSUME TypeOK, HeldInv, CallsInv, CallsGoOn, notices' \subseteq notices,
         UNCHANGED markedForClose, used'.destroys = used.destroys,
         NEW c \in Pending,
         ~markedForClose => c \notin Pending',
         clients' \in {[clients EXCEPT ![c].released = TRUE], [clients EXCEPT ![c].destroyed = TRUE]},
         caches' = Dropped({clients[c].name}),
         closed' \in {closed, ClosedAfter(caches', markedForClose)}
  PROVE  HeldInv' /\ CallsInv'
<1>1. c \in DOMAIN clients /\ Pending' \subseteq Pending /\ Pending \subseteq DOMAIN clients
  BY PendingType, PendingShrinks
<1>2. /\ DOMAIN clients' = DOMAIN clients
      /\ \A d \in DOMAIN clients : clients'[d].name = clients[d].name /\ clients[d].name \in Names
      /\ ~Active(c)'
      /\ \A d \in DOMAIN clients : d # c => Active(d)' = Active(d)
  <2>1. DOMAIN clients = 1 .. Len(clients) /\ \A d \in DOMAIN clients : clients[d] \in Clients
    BY SeqFacts
  <2>2. CASE clients' = [clients EXCEPT ![c].released = TRUE]
    BY <1>1, <2>1, <2>2 DEF Active, Clients
  <2>3. CASE clients' = [clients EXCEPT ![c].destroyed = TRUE]
    BY <1>1, <2>1, <2>3 DEF Active, Clients
  <2> QED
    BY <2>2, <2>3
<1>3. /\ caches'[clients[c].name] = 0
      /\ \A n \in Names : caches'[n] = IF n = clients[c].name THEN 0 ELSE caches[n]
  BY <1>1, SeqFacts DEF Dropped, Clients
<1>4. Held'
  <2> SUFFICES ASSUME NEW d \in DOMAIN clients, Active(d)'
               PROVE  caches'[clients'[d].name] = d
    BY <1>2 DEF Held
  <2>1. d # c /\ Active(d)
    BY <1>2
  <2>2. clients[d].name # clients[c].name
    BY <2>1 DEF HeldInv, NoneReplaced
  <2> QED
    BY <1>2, <1>3, <2>1, <2>2 DEF HeldInv, Held
<1>5. Kept'
  <2> SUFFICES ASSUME NEW n \in Names, caches'[n] # 0
               PROVE  /\ caches'[n] \in DOMAIN clients' /\ clients'[caches'[n]].name = n
                      /\ Active(caches[n])'
    BY DEF Kept
  <2>1. n # clients[c].name /\ caches'[n] = caches[n]
    BY <1>3
  <2>2. PICK d \in DOMAIN clients : d = caches[n] /\ clients[d].name = n /\ Active(d)
    BY <2>1 DEF HeldInv, Kept
  <2>3. d # c /\ Active(d)'
    BY <1>2, <2>1, <2>2
  <2>4. Active(caches[n])'
    BY <2>1, <2>2, <2>3 DEF Active
  <2> QED
    BY <1>2, <2>1, <2>2, <2>4
<1>6. NoneReplaced'
  <2> SUFFICES ASSUME NEW e \in Pending', NEW d \in DOMAIN clients, Active(d)',
                      clients'[d].name = clients'[e].name
               PROVE  d = e
    BY <1>2 DEF NoneReplaced
  <2>1. d # c /\ Active(d) /\ e \in Pending /\ e \in DOMAIN clients
    BY <1>1, <1>2
  <2> QED
    BY <1>2, <2>1 DEF HeldInv, NoneReplaced
<1>7. ClosedInv'
  BY <1>3 DEF HeldInv, ClosedInv, ClosedAfter
<1>8. PendingActive'
  BY <1>1, <1>2 DEF CallsInv, PendingActive
<1> QED
  BY <1>4, <1>5, <1>6, <1>7, <1>8, GoOnKeepsCalls DEF HeldInv, CallsInv

\* Active clients are told of a destruction.
LEMMA NotifiedKeepsInv ==
  ASSUME TypeOK, HeldInv, CallsInv, CallsGoOn, NEW n, notices' = Notified(n),
         UNCHANGED <<clients, caches, markedForClose, closed>>,
         used'.destroys \in Nat, used'.destroys >= used.destroys,
         used'.destroys > 0 \/ \E i \in DOMAIN calls : calls[i].op = "destroy",
         ~markedForClose => \A i \in DOMAIN calls : calls[i].op # "release"
  PROVE  HeldInv' /\ CallsInv'
<1>1. \A c : Active(c)' = Active(c)
  BY DEF Active
<1>2. \A c \in Pending' : c \in Pending \/ (c \in DOMAIN clients /\ Active(c))
  BY DEF Pending, Waiting, Notified, CallsGoOn
<1>3. NoneReplaced'
  <2> SUFFICES ASSUME NEW c \in Pending', NEW d \in DOMAIN clients, Active(d),
                      clients[d].name = clients[c].name
               PROVE  d = c
    BY <1>1 DEF NoneReplaced
  <2> QED
    BY <1>2 DEF HeldInv, NoneReplaced, Held
<1>4. HeldInv'
  BY <1>1, <1>3 DEF HeldInv, Held, Kept, ClosedInv
<1>5. PendingActive'
  BY <1>1, <1>2 DEF CallsInv, PendingActive
<1>6. ReleasedOnce' /\ ReleasesApart'
  BY DEF ReleasedOnce, ReleasesApart, CallsGoOn
<1>7. NoticesFrom' /\ SentDestroys'
  BY DEF CallsInv, NoticesFrom, SentDestroys, CallsGoOn
<1> QED
  BY <1>4, <1>5, <1>6, <1>7 DEF CallsInv

----------------------------------------------------------------------------
\* The steps one by one.
LEMMA GetCacheKeepsInv ==
  ASSUME TypeOK, HeldInv, CallsInv, NEW n \in Names, GetCache(n)
  PROVE  HeldInv' /\ CallsInv'
<1> DEFINE new == [name |-> n, released |-> FALSE, destroyed |-> FALSE]
<1> PICK k : k = Len(clients) + 1
  OBVIOUS
<1>1. /\ ~markedForClose /\ ~closed /\ caches[n] = 0
      /\ clients' = Append(clients, new) /\ caches' = [caches EXCEPT ![n] = k]
      /\ UNCHANGED <<calls, notices, markedForClose, closed, used>>
  BY DEF GetCache
<1>2. new \in Clients
  BY DEF Clients
<1>3. /\ Len(clients) \in Nat /\ DOMAIN clients = 1 .. Len(clients) /\ DOMAIN clients' = 1 .. k
      /\ \A c \in DOMAIN clients : clients'[c] = clients[c]
      /\ clients'[k] = new
  <2> HIDE DEF new
  <2> QED
    BY <1>1, <1>2, SeqFacts, AppendFacts
<1>4. /\ \A c \in DOMAIN clients : c # k /\ Active(c)' = Active(c)
      /\ k \in DOMAIN clients' /\ Active(k)' /\ clients'[k].name = n /\ k # 0
      /\ DOMAIN clients' = DOMAIN clients \cup {k}
  BY <1>3 DEF Active
<1>5. /\ caches'[n] = k /\ \A m \in Names : m # n => caches'[m] = caches[m]
      /\ \A c \in DOMAIN clients : clients[c].name \in Names
  BY <1>1, SeqFacts DEF TypeOK, Clients
<1>6. \A c \in DOMAIN clients : Active(c) => clients[c].name # n
  BY <1>1, <1>3, <1>4 DEF HeldInv, Held
<1> HIDE DEF new
<1>7. Held'
  <2> SUFFICES ASSUME NEW c \in DOMAIN clients', Active(c)'
               PROVE  caches'[clients'[c].name] = c
    BY DEF Held
  <2>1. CASE c = k
    BY <2>1, <1>4, <1>5
  <2>2. CASE c \in DOMAIN clients
    BY <2>2, <1>3, <1>4, <1>5, <1>6 DEF HeldInv, Held
  <2> QED
    BY <2>1, <2>2, <1>4
<1>8. Kept'
  <2> SUFFICES ASSUME NEW m \in Names, caches'[m] # 0
               PROVE  \E c \in DOMAIN clients' : c = caches'[m] /\ clients'[c].name = m /\ Active(c)'
    BY DEF Kept, Active
  <2>1. CASE m = n
    BY <2>1, <1>4, <1>5
  <2>2. CASE m # n
    <3>1. PICK c \in DOMAIN clients : c = caches[m] /\ clients[c].name = m /\ Active(c)
      BY <2>2, <1>5 DEF HeldInv, Kept
    <3> QED
      BY <2>2, <3>1, <1>3, <1>4, <1>5
  <2> QED
    BY <2>1, <2>2
<1>9. Pending' = Pending /\ Pending \subseteq DOMAIN clients /\ \A c \in Pending : Active(c)
  BY <1>1, PendingType DEF Pending, Waiting, CallsInv, PendingActive
<1>10. NoneReplaced'
  <2> SUFFICES ASSUME NEW c \in Pending, NEW d \in DOMAIN clients', Active(d)',
                      clients'[d].name = clients'[c].name
               PROVE  d = c
    BY <1>9 DEF NoneReplaced
  <2>1. c \in DOMAIN clients /\ clients[c].name # n
    BY <1>6, <1>9
  <2>2. d # k
    BY <2>1, <1>3, <1>4
  <2> QED
    BY <2>1, <2>2, <1>3, <1>4 DEF HeldInv, NoneReplaced
<1>11. PendingActive'
  BY <1>4, <1>9 DEF PendingActive
<1>12. ReleasedOnce' /\ ReleasesApart' /\ NoticesFrom' /\ SentDestroys' /\ ClosedInv'
  BY <1>1 DEF CallsInv, ReleasedOnce, ReleasesApart, NoticesFrom, SentDestroys, ClosedInv
<1> QED
  BY <1>7, <1>8, <1>10, <1>11, <1>12 DEF HeldInv, CallsInv

\* A call is added by the application or by close().
LEMMA CallAddedFacts ==
  ASSUME TypeOK, NEW op \in {"release", "destroy"}, NEW c \in DOMAIN clients,
         calls' = Append(calls, NewCall(op, c)), notices' = notices
  PROVE  /\ DOMAIN calls' = DOMAIN calls \cup {Len(calls) + 1}
         /\ Len(calls) + 1 \notin DOMAIN calls
         /\ \A i \in DOMAIN calls : calls'[i] = calls[i]
         /\ LET new == calls'[Len(calls) + 1]
            IN  new.op = op /\ new.client = c /\ new.phase = "waiting"
         /\ Pending' = Pending \cup (IF op = "release" THEN {c} ELSE {})
<1> DEFINE k == Len(calls) + 1
<1>1. NewCall(op, c) \in CallsOf(Len(clients))
  BY SeqFacts, NewCallType
<1>2. /\ DOMAIN calls' = 1 .. k /\ DOMAIN calls = 1 .. Len(calls) /\ Len(calls) \in Nat
      /\ \A i \in DOMAIN calls : calls'[i] = calls[i]
      /\ calls'[k] = NewCall(op, c)
  BY <1>1, SeqFacts, AppendFacts
<1>3. /\ DOMAIN calls' = DOMAIN calls \cup {k} /\ k \notin DOMAIN calls
      /\ calls'[k].op = op /\ calls'[k].client = c /\ calls'[k].phase = "waiting"
  BY <1>2 DEF NewCall
<1> HIDE DEF k
<1>4. Waiting' = Waiting \cup (IF op = "release" THEN {k} ELSE {})
  BY <1>2, <1>3 DEF Waiting
<1>5. Waiting \subseteq DOMAIN calls
  BY DEF Waiting
<1>6. Pending' = Pending \cup (IF op = "release" THEN {c} ELSE {})
  BY <1>2, <1>3, <1>4, <1>5 DEF Pending
<1> QED
  BY <1>2, <1>3, <1>6 DEF k

\* A release of a client that is in use keeps what is held.
LEMMA CallKeepsHeld ==
  ASSUME TypeOK, HeldInv, NEW op \in {"release", "destroy"}, NEW c \in DOMAIN clients, Active(c),
         calls' = Append(calls, NewCall(op, c)), UNCHANGED <<clients, caches, notices>>,
         ClosedInv'
  PROVE  HeldInv'
<1>1. \A d : Active(d)' = Active(d)
  BY DEF Active
<1>2. \A d \in Pending' : d \in Pending \/ d = c
  BY CallAddedFacts
<1>3. NoneReplaced'
  BY <1>1, <1>2 DEF NoneReplaced, HeldInv, Held
<1> QED
  BY <1>1, <1>3 DEF HeldInv, Held, Kept

LEMMA ReleaseKeepsInv ==
  ASSUME Disciplined, TypeOK, HeldInv, CallsInv, NEW c \in DOMAIN clients, Release(c)
  PROVE  HeldInv' /\ CallsInv'
<1> DEFINE k == Len(calls) + 1
<1>1. /\ Active(c) /\ KeepsTo("release")
      /\ \A i \in DOMAIN calls : calls[i].client # c \/ calls[i].op # "release"
      /\ calls' = Append(calls, NewCall("release", c))
      /\ UNCHANGED <<clients, caches, notices, markedForClose, closed, closing, used>>
  BY DEF Release, Disciplined
<1>2. HeldInv'
  BY <1>1, CallKeepsHeld DEF HeldInv, ClosedInv
<1>3. /\ DOMAIN calls' = DOMAIN calls \cup {k} /\ k \notin DOMAIN calls
      /\ \A i \in DOMAIN calls : calls'[i] = calls[i]
      /\ calls'[k].op = "release" /\ calls'[k].client = c /\ calls'[k].phase = "waiting"
      /\ Pending' = Pending \cup {c}
  BY <1>1, CallAddedFacts
<1> HIDE DEF k
<1>4. PendingActive'
  BY <1>1, <1>3 DEF CallsInv, PendingActive, Active
<1>5. ReleasedOnce'
  BY <1>1, <1>3 DEF CallsInv, ReleasedOnce
<1>6. NoticesFrom' /\ SentDestroys'
  BY <1>1, <1>3 DEF CallsInv, NoticesFrom, SentDestroys
<1>7. ReleasesApart'
  BY <1>1, <1>3 DEF CallsInv, ReleasesApart, NoticesFrom, KeepsTo
<1> QED
  BY <1>2, <1>4, <1>5, <1>6, <1>7 DEF CallsInv

LEMMA DestroyKeepsInv ==
  ASSUME Disciplined, TypeOK, HeldInv, CallsInv, NEW c \in DOMAIN clients, Destroy(c)
  PROVE  HeldInv' /\ CallsInv'
<1> DEFINE k == Len(calls) + 1
<1>1. /\ Active(c) /\ KeepsTo("destroy")
      /\ calls' = Append(calls, NewCall("destroy", c))
      /\ UNCHANGED <<clients, caches, notices, markedForClose, closed, closing, used>>
  BY DEF Destroy, Disciplined
<1>2. HeldInv'
  BY <1>1, CallKeepsHeld DEF HeldInv, ClosedInv
<1>3. /\ DOMAIN calls' = DOMAIN calls \cup {k} /\ k \notin DOMAIN calls
      /\ \A i \in DOMAIN calls : calls'[i] = calls[i]
      /\ calls'[k].op = "destroy" /\ calls'[k].client = c /\ calls'[k].phase = "waiting"
      /\ Pending' = Pending
  BY <1>1, CallAddedFacts
<1> HIDE DEF k
<1>4. PendingActive'
  BY <1>1, <1>3 DEF CallsInv, PendingActive, Active
<1>5. ReleasedOnce' /\ NoticesFrom' /\ SentDestroys'
  BY <1>1, <1>3 DEF CallsInv, ReleasedOnce, NoticesFrom, SentDestroys
<1>6. ReleasesApart'
  BY <1>1, <1>3 DEF ReleasesApart, KeepsTo
<1> QED
  BY <1>2, <1>4, <1>5, <1>6 DEF CallsInv

\* The release that close() adds, of the oldest cache the session holds.
LEMMA CloseLoopKeepsCaches ==
  ASSUME TypeOK, HeldInv, CallsInv, CloseLoop, markedForClose', UNCHANGED <<clients, caches, notices, used>>
  PROVE  HeldInv' /\ CallsInv'
<1>1. CASE Remaining # {}
  <2> DEFINE oldest == CHOOSE c0 \in Remaining : \A d \in Remaining : c0 <= d
  <2>1. oldest \in Remaining
    BY <1>1, OldestExists
  <2>2. calls' = Append(calls, NewCall("release", oldest)) /\ UNCHANGED closed
    BY <1>1 DEF CloseLoop
  <2> HIDE DEF oldest
  <2>3. oldest \in DOMAIN clients /\ Active(oldest)
    BY <2>1 DEF HeldInv, Kept, Tracked, Remaining
  <2>4. HeldInv'
    BY <2>2, <2>3, CallKeepsHeld DEF HeldInv, ClosedInv
  <2>5. NoticesFrom' /\ SentDestroys'
    BY <2>2, <2>3, CallAddedFacts DEF CallsInv, NoticesFrom, SentDestroys
  <2> QED
    BY <2>4, <2>5 DEF CallsInv, PendingActive, ReleasedOnce, ReleasesApart
<1>2. CASE Remaining = {}
  <2>1. UNCHANGED <<clients, caches, notices, calls, used>> /\ closed' = ClosedAfter(caches, TRUE)
    BY <1>2 DEF CloseLoop
  <2>2. Pending' = Pending /\ \A c : Active(c)' = Active(c)
    BY <2>1 DEF Pending, Waiting, Active
  <2>3. HeldInv'
    BY <2>1, <2>2 DEF HeldInv, Held, Kept, NoneReplaced, ClosedInv, ClosedAfter
  <2> QED
    BY <2>1, <2>3 DEF CallsInv, PendingActive, ReleasedOnce, ReleasesApart, NoticesFrom, SentDestroys
<1> QED
  BY <1>1, <1>2

LEMMA CloseKeepsInv ==
  ASSUME TypeOK, CachesInv, Close \/ CloseResume
  PROVE  HeldInv' /\ CallsInv'
<1>1. UNCHANGED <<clients, caches, notices, used>> /\ markedForClose'
  BY DEF Close, CloseResume, ResumeDue, CachesInv, CloseInv
<1>2. CASE CloseLoop
  BY <1>1, <1>2, CloseLoopKeepsCaches DEF CachesInv
<1>3. CASE UNCHANGED <<calls, closed, markedForClose>>
  <2>1. CallsGoOn
    BY <1>3 DEF CallsGoOn
  <2> QED
    BY <1>1, <1>3, <2>1, GoOnKeepsInv DEF CachesInv
<1> QED
  BY <1>2, <1>3 DEF Close, CloseResume

LEMMA WaitedKeepsInv ==
  ASSUME TypeOK, HeldInv, CallsInv, NEW i \in DOMAIN calls, WaitedForReady(i)
  PROVE  HeldInv' /\ CallsInv'
<1> DEFINE c == calls[i].client
           call == IF channel # "READY" THEN Settled(calls[i], "rejected") ELSE calls[i]
<1>1. /\ calls[i].phase = "waiting" /\ UNCHANGED <<notices, markedForClose>>
      /\ used'.destroys = used.destroys
  BY DEF WaitedForReady, TypeOK
<1>2. /\ call.op = calls[i].op /\ call.client = c /\ call \in CallsOf(Len(clients))
      /\ Settled(call, "resolved") \in CallsOf(Len(clients))
      /\ Settled(call, "resolved").op = calls[i].op /\ Settled(call, "resolved").client = c
  <2>1. calls[i] \in CallsOf(Len(clients)) /\ Len(clients) \in Nat
    BY SeqFacts
  <2>2. /\ \A r \in CallsOf(Len(clients)), o \in {"resolved", "rejected"} :
             /\ Settled(r, o) \in CallsOf(Len(clients))
             /\ Settled(r, o).op = r.op /\ Settled(r, o).client = r.client
    BY <2>1, SettledType DEF Settled, CallsOf
  <2>3. call \in CallsOf(Len(clients)) /\ call.op = calls[i].op /\ call.client = c
    BY <2>1, <2>2
  <2> QED
    BY <2>2, <2>3
<1>3. CASE calls[i].op = "release" /\ ReleaseLogic(i, channel # "READY")
  <2>1. /\ clients' = [clients EXCEPT ![c].released = TRUE]
        /\ caches' = Dropped({clients[c].name})
        /\ closed' = ClosedAfter(caches', markedForClose)
        /\ calls' = [calls EXCEPT ![i] = [Settled(call, "resolved") EXCEPT !.phase = "done"]]
    BY <1>3 DEF ReleaseLogic
  <2> DEFINE r == [Settled(call, "resolved") EXCEPT !.phase = "done"]
  <2>2. r.op = calls[i].op /\ r.client = c /\ r.phase = "done"
    <3> HIDE DEF call, c
    <3> QED
      BY <1>2 DEF CallsOf
  <2> HIDE DEF r, call
  <2>3. CallsGoOn /\ calls'[i].phase = "done"
    BY <2>1, <2>2 DEF CallsGoOn, r
  <2>4. c \in Pending
    BY <1>1, <1>3 DEF Pending, Waiting
  <2>5. ~markedForClose => c \notin Pending'
    <3> SUFFICES ASSUME ~markedForClose, c \in Pending' PROVE FALSE
      OBVIOUS
    <3>1. notices = {}
      BY <1>3 DEF CallsInv, ReleasesApart
    <3>2. PICK j \in Waiting' : calls'[j].client = c
      BY <1>1, <3>1 DEF Pending
    <3>3. j \in DOMAIN calls /\ j # i /\ calls[j].op = "release" /\ calls[j].client = c
      BY <2>3, <3>2 DEF Waiting, CallsGoOn
    <3> QED
      BY <1>3, <3>3 DEF CallsInv, ReleasedOnce
  <2> HIDE DEF c
  <2> QED
    BY <1>1, <2>1, <2>3, <2>4, <2>5, MarkedKeepsInv
<1>4. CASE calls[i].op = "destroy" /\ DestroyLogic(i, channel # "READY")
  <2>1. UNCHANGED <<clients, caches, closed>> /\ calls' = [calls EXCEPT ![i] = [call EXCEPT !.phase = "sent"]]
    BY <1>4 DEF DestroyLogic
  <2> DEFINE r == [call EXCEPT !.phase = "sent"]
  <2>2. r.op = calls[i].op /\ r.client = c /\ r.phase = "sent"
    <3> HIDE DEF call, c
    <3> QED
      BY <1>2 DEF CallsOf
  <2> HIDE DEF r, call
  <2>3. CallsGoOn
    BY <1>4, <2>1, <2>2 DEF CallsGoOn, r
  <2> QED
    BY <1>1, <2>1, <2>3, GoOnKeepsInv
<1> QED
  BY <1>3, <1>4 DEF WaitedForReady

LEMMA DestroySettledKeepsInv ==
  ASSUME TypeOK, HeldInv, CallsInv, NEW i \in DOMAIN calls, DestroyAnswered(i) \/ DestroyFailed(i)
  PROVE  HeldInv' /\ CallsInv'
<1>1. /\ calls[i].phase = "sent" /\ calls[i].op = "destroy"
      /\ used'.destroys = used.destroys /\ used.destroys \in Nat
      /\ UNCHANGED <<clients, caches, markedForClose, closed>>
  BY DEF DestroyAnswered, DestroyFailed, TypeOK, CallsInv, SentDestroys
<1>2. CallsGoOn
  <2>1. calls[i] \in CallsOf(Len(clients)) /\ Settled(calls[i], "rejected") \in CallsOf(Len(clients))
    BY SeqFacts, SettledType
  <2> DEFINE r == [calls[i] EXCEPT !.phase = "answered"]
             s == [Settled(calls[i], "rejected") EXCEPT !.phase = "answered"]
  <2>2. /\ r.op = calls[i].op /\ r.client = calls[i].client /\ r.phase = "answered"
        /\ s.op = calls[i].op /\ s.client = calls[i].client /\ s.phase = "answered"
    BY <2>1 DEF CallsOf, Settled
  <2>3. calls' = [calls EXCEPT ![i] = r] \/ calls' = [calls EXCEPT ![i] = s]
    BY DEF DestroyAnswered, DestroyFailed
  <2> HIDE DEF r, s
  <2> QED
    BY <2>2, <2>3 DEF CallsGoOn
<1>3. CASE DestroyAnswered(i)
  <2>1. notices' = Notified(clients[calls[i].client].name)
    BY <1>3 DEF DestroyAnswered
  <2>2. ~markedForClose => \A j \in DOMAIN calls : calls[j].op # "release"
    BY <1>1 DEF CallsInv, ReleasesApart
  <2> QED
    BY <1>1, <1>2, <2>1, <2>2, NotifiedKeepsInv
<1>4. CASE DestroyFailed(i)
  BY <1>1, <1>2, <1>4, GoOnKeepsInv DEF DestroyFailed
<1> QED
  BY <1>3, <1>4

LEMMA DestroyedElsewhereKeepsInv ==
  ASSUME Disciplined, TypeOK, HeldInv, CallsInv, NEW n \in Names, DestroyedElsewhere(n)
  PROVE  HeldInv' /\ CallsInv'
<1>1. /\ UNCHANGED <<clients, caches, calls, markedForClose, closed>> /\ notices' = Notified(n)
      /\ used'.destroys = used.destroys + 1 /\ used.destroys \in Nat
      /\ KeepsTo("destroy")
  BY DEF DestroyedElsewhere, TypeOK, Disciplined
<1>2. CallsGoOn /\ HeldInv' /\ PendingActive' /\ NoticesFrom' /\ SentDestroys'
  <2>1. CallsGoOn
    BY <1>1 DEF CallsGoOn
  <2>2. \A c : Active(c)' = Active(c)
    BY <1>1 DEF Active
  <2>3. \A c \in Pending' : c \in Pending \/ (c \in DOMAIN clients /\ Active(c))
    BY <1>1 DEF Pending, Waiting, Notified
  <2>4. NoneReplaced'
    BY <1>1, <2>2, <2>3 DEF HeldInv, NoneReplaced, Held
  <2>5. HeldInv' /\ PendingActive'
    BY <1>1, <2>2, <2>3, <2>4 DEF HeldInv, Held, Kept, ClosedInv, CallsInv, PendingActive
  <2> QED
    BY <1>1, <2>1, <2>5 DEF CallsInv, NoticesFrom, SentDestroys
<1>3. ReleasedOnce' /\ ReleasesApart'
  BY <1>1 DEF CallsInv, ReleasedOnce, ReleasesApart, KeepsTo
<1> QED
  BY <1>2, <1>3 DEF CallsInv

LEMMA OnDestroyedKeepsInv ==
  ASSUME Disciplined, TypeOK, HeldInv, CallsInv, NEW c \in DOMAIN clients, OnDestroyed(c)
  PROVE  HeldInv' /\ CallsInv'
<1>1. /\ c \in notices /\ notices' = notices \ {c} /\ UNCHANGED <<markedForClose, used>>
      /\ clients' = [clients EXCEPT ![c].destroyed = TRUE]
  BY DEF OnDestroyed
<1>2. KeyedUnder[clients[c].name] = {clients[c].name}
  BY SeqFacts DEF Disciplined, Clients
<1>3. caches' = Dropped({clients[c].name}) /\ closed' \in {closed, ClosedAfter(caches', markedForClose)}
  BY <1>2 DEF OnDestroyed
<1>4. CallsGoOn
  <2> DEFINE new(i) == IF /\ calls[i].client = c /\ calls[i].op = "destroy"
                          /\ calls[i].phase \in {"sent", "answered"}
                       THEN Settled(calls[i], "resolved") ELSE calls[i]
  <2>1. calls' = [i \in DOMAIN calls |-> new(i)]
    BY DEF OnDestroyed
  <2>2. \A i \in DOMAIN calls :
          new(i).op = calls[i].op /\ new(i).client = calls[i].client /\ new(i).phase = calls[i].phase
    BY SeqFacts DEF Settled, CallsOf
  <2> HIDE DEF new
  <2> QED
    BY <2>1, <2>2 DEF CallsGoOn
<1>5. ~markedForClose => c \notin Pending'
  <2>1. ~markedForClose => Waiting = {}
    BY <1>1 DEF Waiting, CallsInv, ReleasesApart
  <2> QED
    BY <1>1, <1>4, <2>1, PendingShrinks DEF Pending
<1>6. c \in Pending
  BY <1>1 DEF Pending
<1> QED
  BY <1>1, <1>3, <1>4, <1>5, <1>6, MarkedKeepsInv

LEMMA ChannelKeepsInv ==
  ASSUME TypeOK, HeldInv, CallsInv,
         (\E c \in DOMAIN clients : NoticeLost(c)) \/ ChannelDrop \/ ChannelUp
  PROVE  HeldInv' /\ CallsInv'
<1>1. /\ UNCHANGED <<clients, caches, calls, markedForClose, closed>> /\ notices' \subseteq notices
      /\ used'.destroys = used.destroys
  BY DEF NoticeLost, ChannelDrop, ChannelUp, TypeOK
<1>2. CallsGoOn
  BY <1>1 DEF CallsGoOn
<1> QED
  BY <1>1, <1>2, GoOnKeepsInv

LEMMA NextKeepsInv ==
  ASSUME Disciplined, TypeOK, CachesInv, [Next]_vars
  PROVE  CachesInv'
<1>1. CloseInv'
  BY CloseInvStep DEF CachesInv
<1> SUFFICES HeldInv' /\ CallsInv'
  BY <1>1 DEF CachesInv
<1>2. HeldInv /\ CallsInv
  BY DEF CachesInv
<1>3. CASE Application
  BY <1>2, <1>3, GetCacheKeepsInv, ReleaseKeepsInv, DestroyKeepsInv, CloseKeepsInv DEF Application
<1>4. CASE Progress
  BY <1>2, <1>4, CloseKeepsInv, WaitedKeepsInv, DestroySettledKeepsInv, OnDestroyedKeepsInv,
     ChannelKeepsInv DEF Progress
<1>5. CASE Environment
  BY <1>2, <1>5, DestroyedElsewhereKeepsInv, ChannelKeepsInv DEF Environment
<1>6. CASE UNCHANGED vars
  <2>1. CallsGoOn
    BY <1>6 DEF CallsGoOn, vars
  <2> QED
    BY <1>2, <1>6, <2>1, GoOnKeepsInv DEF vars
<1> QED
  BY <1>3, <1>4, <1>5, <1>6 DEF Next

LEMMA InitHeld == Init => CachesInv
<1> SUFFICES ASSUME Init PROVE CachesInv
  OBVIOUS
<1>1. DOMAIN clients = {} /\ DOMAIN calls = {} /\ notices = {} /\ Pending = {}
  BY EmptySeq DEF Init, Pending, Waiting
<1> QED
  BY <1>1 DEF Init, CachesInv, HeldInv, CallsInv, Held, Kept, NoneReplaced, PendingActive, ReleasedOnce,
              ReleasesApart, NoticesFrom, SentDestroys, ClosedInv, CloseInv

LEMMA CachesInvHolds ==
  ASSUME Disciplined
  PROVE  Spec => [](TypeOK /\ CachesInv)
<1>1. TypeOK /\ CachesInv /\ [Next]_vars => TypeOK' /\ CachesInv'
  BY NextTyped, NextKeepsInv
<1> QED
  BY <1>1, InitTyped, InitHeld, PTL DEF Spec

\* However releases, destructions, lost answers and close() overlap, the session
\* holds exactly the caches that are in use: close() reaches every one of them,
\* and getCache makes no second client for one.
THEOREM HoldsExactlyTheActive == Disciplined => (Spec => []HoldsTheActive)
<1> SUFFICES ASSUME Disciplined PROVE Spec => []HoldsTheActive
  OBVIOUS
<1>1. TypeOK /\ CachesInv => HoldsTheActive
  <2> SUFFICES ASSUME TypeOK, CachesInv PROVE HoldsTheActive
    OBVIOUS
  <2>1. \A c \in DOMAIN clients : c # 0 /\ clients[c].name \in Names
    BY SeqFacts DEF Clients
  <2> QED
    BY <2>1 DEF CachesInv, HeldInv, Held, Kept, HoldsTheActive, Tracked
<1>2. Spec => [](TypeOK /\ CachesInv)
  BY CachesInvHolds
<1> QED
  BY <1>1, <1>2, PTL

----------------------------------------------------------------------------
(* The session implements SessionCaches.                                   *)

\* What SessionCaches sees of the session.
Handed == [c \in DOMAIN clients |-> clients[c].name]

InUse == {c \in DOMAIN clients : Active(c)}

\* In terms of the clients: ClosedExactly, and that the session holds what is
\* in use.
ClosedUnused == closed <=> markedForClose /\ InUse = {}

\* What the session holds and what is in use run out together.
LEMMA NoneHeldNoneUsed ==
  ASSUME TypeOK, HeldInv
  PROVE  (Tracked = {} <=> InUse = {}) /\ (InUse = {} <=> \A n \in Names : caches[n] = 0)
<1>1. \A c \in DOMAIN clients : c # 0 /\ clients[c].name \in Names
  BY SeqFacts DEF Clients
<1>2. Tracked = {} <=> \A n \in Names : caches[n] = 0
  BY DEF Tracked
<1>3. InUse = {} => \A n \in Names : caches[n] = 0
  BY DEF HeldInv, Kept, InUse
<1>4. (\A n \in Names : caches[n] = 0) => InUse = {}
  BY <1>1 DEF HeldInv, Held, InUse
<1> QED
  BY <1>2, <1>3, <1>4

\* Marking a client takes it out of use and changes nothing else that is seen.
LEMMA MarkedRetires ==
  ASSUME TypeOK, NEW c \in DOMAIN clients,
         clients' \in {[clients EXCEPT ![c].released = TRUE], [clients EXCEPT ![c].destroyed = TRUE]}
  PROVE  /\ DOMAIN clients' = DOMAIN clients
         /\ \A d \in DOMAIN clients : clients'[d].name = clients[d].name
         /\ Handed' = Handed /\ InUse' = InUse \ {c}
<1>1. DOMAIN clients = 1 .. Len(clients) /\ \A d \in DOMAIN clients : clients[d] \in Clients
  BY SeqFacts
<1>2. /\ DOMAIN clients' = DOMAIN clients
      /\ \A d \in DOMAIN clients : clients'[d].name = clients[d].name
      /\ ~Active(c)' /\ \A d \in DOMAIN clients : d # c => Active(d)' = Active(d)
  <2>1. CASE clients' = [clients EXCEPT ![c].released = TRUE]
    BY <1>1, <2>1 DEF Active, Clients
  <2>2. CASE clients' = [clients EXCEPT ![c].destroyed = TRUE]
    BY <1>1, <2>2 DEF Active, Clients
  <2> QED
    BY <2>1, <2>2
<1>3. Handed' = Handed
  BY <1>2 DEF Handed
<1>4. InUse' = InUse \ {c}
  BY <1>2 DEF InUse
<1> QED
  BY <1>2, <1>3, <1>4

\* A step on which SessionCaches stutters.
LEMMA StepUnseen ==
  ASSUME UNCHANGED <<clients, markedForClose, closed>>,
         channel' = "SHUTDOWN" <=> channel = "SHUTDOWN"
  PROVE  [Caches!Next]_(Caches!sessionVars)
<1>1. Handed' = Handed /\ InUse' = InUse
  BY DEF Handed, InUse, Active
<1>2. (channel' = "SHUTDOWN") = (channel = "SHUTDOWN")
  OBVIOUS
<1> QED
  BY <1>1, <1>2 DEF Caches!sessionVars, Handed, InUse

\* A step that marks a client is one that retires it, or one that marks it again.
LEMMA StepRetires ==
  ASSUME TypeOK, TypeOK', ClosedUnused, ClosedUnused', UNCHANGED <<markedForClose, channel>>,
         NEW c \in DOMAIN clients, Handed' = Handed, InUse' = InUse \ {c}
  PROVE  [Caches!Next]_(Caches!sessionVars)
<1>1. closed \in BOOLEAN /\ closed' \in BOOLEAN /\ markedForClose \in BOOLEAN
  BY DEF TypeOK
<1>2. CASE c \in InUse
  <2>1. Caches!Retire(c)
    BY <1>2 DEF Caches!Retire, Handed, InUse
  <2>2. closed' = (markedForClose' /\ InUse' = {})
    BY <1>1 DEF ClosedUnused
  <2>3. Caches!Next
    BY <1>2, <2>1, <2>2 DEF Caches!Next, InUse
  <2> QED
    BY <2>3
<1>3. CASE c \notin InUse
  <2>1. InUse' = InUse
    BY <1>3
  <2>2. closed' = closed
    BY <1>1, <2>1 DEF ClosedUnused
  <2>3. UNCHANGED Caches!sessionVars
    BY <2>1, <2>2 DEF Caches!sessionVars, Handed, InUse
  <2> QED
    BY <2>3
<1> QED
  BY <1>2, <1>3

\* getCache hands out a client for a name that none is in use for.
LEMMA GetCacheHandsOut ==
  ASSUME TypeOK, TypeOK', CachesInv, ClosedUnused', NEW n \in Names, GetCache(n)
  PROVE  [Caches!Next]_(Caches!sessionVars)
<1> DEFINE new == [name |-> n, released |-> FALSE, destroyed |-> FALSE]
<1> PICK k : k = Len(clients) + 1
  OBVIOUS
<1>1. /\ ~markedForClose /\ ~closed /\ caches[n] = 0
      /\ clients' = Append(clients, new)
      /\ UNCHANGED <<markedForClose, closed, channel>>
  BY DEF GetCache
<1>2. new \in Clients
  BY DEF Clients
<1>3. /\ Len(clients) \in Nat /\ DOMAIN clients = 1 .. Len(clients) /\ DOMAIN clients' = 1 .. k
      /\ \A c \in DOMAIN clients : clients'[c] = clients[c]
      /\ clients'[k] = new
  <2> HIDE DEF new
  <2> QED
    BY <1>1, <1>2, SeqFacts, AppendFacts
<1>4. /\ \A c \in DOMAIN clients : c # k /\ c # 0 /\ Active(c)' = Active(c)
      /\ k \in DOMAIN clients' /\ Active(k)' /\ clients'[k].name = n
      /\ DOMAIN clients' = DOMAIN clients \cup {k}
  BY <1>3 DEF Active
<1> HIDE DEF new
<1>5. Handed \in Seq(Names) /\ Len(Handed) = Len(clients)
  <2>1. \A c \in 1 .. Len(clients) : clients[c].name \in Names
    BY SeqFacts DEF Clients
  <2>2. Handed \in [1 .. Len(clients) -> Names]
    BY <1>3, <2>1 DEF Handed
  <2> QED
    BY <1>3, <2>2, IsASeq, LenProperties
<1>6. Handed' = Append(Handed, n)
  <2>1. /\ Append(Handed, n) \in [1 .. k -> Names]
        /\ \A c \in 1 .. Len(clients) : Append(Handed, n)[c] = Handed[c]
        /\ Append(Handed, n)[k] = n
    <3>1. Append(Handed, n) \in Seq(Names) /\ Len(Append(Handed, n)) = Len(Handed) + 1
      BY <1>5, AppendFacts
    <3>2. Append(Handed, n) \in [1 .. k -> Names]
      BY <1>5, <3>1, LenProperties
    <3>3. \A c \in 1 .. Len(Handed) : Append(Handed, n)[c] = Handed[c]
      BY <1>5, AppendFacts
    <3>4. Append(Handed, n)[Len(Handed) + 1] = n
      BY <1>5, AppendFacts
    <3> QED
      BY <1>5, <3>2, <3>3, <3>4
  <2>2. Handed' = [c \in 1 .. k |-> clients'[c].name]
    BY <1>3 DEF Handed
  <2>3. ASSUME NEW c \in 1 .. k PROVE Append(Handed, n)[c] = clients'[c].name
    <3>1. CASE c = k
      BY <3>1, <1>4, <2>1
    <3>2. CASE c \in DOMAIN clients
      BY <3>2, <1>3, <2>1 DEF Handed
    <3> QED
      BY <3>1, <3>2, <1>3, <1>4
  <2> QED
    BY <2>1, <2>2, <2>3
<1>7. InUse' = InUse \cup {k}
  BY <1>4 DEF InUse
<1>8. \A c \in InUse : Handed[c] # n
  BY <1>1, <1>4 DEF InUse, Handed, CachesInv, HeldInv, Held
<1>9. Caches!HandOut(n)
  BY <1>1, <1>5, <1>6, <1>7, <1>8 DEF Caches!HandOut, Handed, InUse
<1>10. closed' = (markedForClose' /\ InUse' = {})
  BY DEF ClosedUnused, TypeOK
<1>11. Caches!Next
  BY <1>9, <1>10 DEF Caches!Next, InUse
<1> QED
  BY <1>11

\* close() begins, and with nothing held comes to its end.
LEMMA CloseIsClose ==
  ASSUME TypeOK, TypeOK', CachesInv, LoopInv, ShutdownInv, ClosedUnused', Close
  PROVE  [Caches!Next]_(Caches!sessionVars)
<1>1. ~markedForClose /\ markedForClose' /\ CloseLoop /\ UNCHANGED <<clients, caches>>
  BY DEF Close, TypeOK
<1>2. Handed' = Handed /\ InUse' = InUse
  BY <1>1 DEF Handed, InUse, Active
<1>3. (Tracked = {} <=> InUse = {}) /\ (InUse = {} <=> \A n \in Names : caches[n] = 0)
  BY NoneHeldNoneUsed DEF CachesInv
<1>4. channel' = "SHUTDOWN" <=> InUse = {}
  <2>1. channel # "SHUTDOWN"
    BY <1>1 DEF ShutdownInv
  <2>2. Remaining = Tracked
    BY <1>1, NothingMissed DEF CachesInv
  <2> QED
    BY <1>1, <1>3, <2>1, <2>2 DEF CloseLoop
<1>5. closed' = (markedForClose' /\ InUse' = {})
  BY DEF ClosedUnused, TypeOK
<1>6. Caches!Close
  BY <1>1, <1>2, <1>4 DEF Caches!Close, Handed, InUse, TypeOK
<1>7. Caches!Next
  BY <1>5, <1>6 DEF Caches!Next, InUse
<1> QED
  BY <1>7

\* close() goes on: it asks for a release, fails, or shuts the channel down.
LEMMA CloseResumeShutsDown ==
  ASSUME TypeOK, TypeOK', CachesInv, LoopInv, ClosedUnused, ClosedUnused', CloseResume
  PROVE  [Caches!Next]_(Caches!sessionVars)
<1>1. markedForClose /\ UNCHANGED <<clients, caches, markedForClose>>
  BY DEF CloseResume, ResumeDue, CachesInv, CloseInv
<1>2. CASE UNCHANGED <<closed, channel>>
  BY <1>1, <1>2, StepUnseen
<1>3. CASE Tracked = {} /\ channel' = "SHUTDOWN"
  <2>1. InUse = {} /\ closed /\ InUse' = InUse /\ Handed' = Handed
    BY <1>1, <1>3, NoneHeldNoneUsed DEF CachesInv, ClosedUnused, InUse, Handed, Active
  <2>2. closed' = (markedForClose' /\ InUse' = {})
    BY DEF ClosedUnused, TypeOK
  <2>3. Caches!ShutDown
    BY <1>1, <1>3, <2>1 DEF Caches!ShutDown, Handed, InUse
  <2>4. Caches!Next
    BY <2>2, <2>3 DEF Caches!Next, InUse
  <2> QED
    BY <2>4
<1>4. CASE calls[closing.call].outcome = "resolved" /\ CloseLoop
  <2>1. Remaining = Tracked
    BY <1>4, NothingMissed DEF CachesInv, CloseResume
  <2> QED
    BY <1>2, <1>3, <1>4, <2>1 DEF CloseLoop
<1> QED
  BY <1>2, <1>4 DEF CloseResume

\* The logic of a release retires its client.
LEMMA WaitedRetires ==
  ASSUME TypeOK, TypeOK', ClosedUnused, ClosedUnused', NEW i \in DOMAIN calls, WaitedForReady(i)
  PROVE  [Caches!Next]_(Caches!sessionVars)
<1> DEFINE c == calls[i].client
<1>1. UNCHANGED <<markedForClose, channel>>
  BY DEF WaitedForReady
<1>2. CASE ReleaseLogic(i, channel # "READY")
  <2>1. c \in DOMAIN clients
    BY SeqFacts
  <2>2. clients' = [clients EXCEPT ![c].released = TRUE]
    BY <1>2 DEF ReleaseLogic
  <2> HIDE DEF c
  <2> QED
    BY <1>1, <2>1, <2>2, MarkedRetires, StepRetires
<1>3. CASE DestroyLogic(i, channel # "READY")
  BY <1>1, <1>3, StepUnseen DEF DestroyLogic
<1> QED
  BY <1>2, <1>3 DEF WaitedForReady

\* The DESTROYED event retires the client that it reaches.
LEMMA OnDestroyedRetires ==
  ASSUME TypeOK, TypeOK', ClosedUnused, ClosedUnused', NEW c \in DOMAIN clients, OnDestroyed(c)
  PROVE  [Caches!Next]_(Caches!sessionVars)
<1>1. clients' = [clients EXCEPT ![c].destroyed = TRUE] /\ UNCHANGED <<markedForClose, channel>>
  BY DEF OnDestroyed
<1> QED
  BY <1>1, MarkedRetires, StepRetires

\* Every step is one of SessionCaches or none.
LEMMA NextIsSeen ==
  ASSUME TypeOK, TypeOK', CachesInv, LoopInv, ShutdownInv, ClosedUnused, ClosedUnused', [Next]_vars
  PROVE  [Caches!Next]_(Caches!sessionVars)
<1>1. CASE Application
  <2>1. ASSUME NEW c \in DOMAIN clients, Release(c) \/ Destroy(c)
        PROVE  UNCHANGED <<clients, markedForClose, closed, channel>>
    BY <2>1 DEF Release, Destroy
  <2> QED
    BY <1>1, <2>1, GetCacheHandsOut, CloseIsClose, StepUnseen DEF Application
<1>2. CASE Progress
  <2>1. ASSUME NEW i \in DOMAIN calls, DestroyAnswered(i) \/ DestroyFailed(i)
        PROVE  UNCHANGED <<clients, markedForClose, closed, channel>>
    BY <2>1 DEF DestroyAnswered, DestroyFailed
  <2>2. CASE ChannelUp
    BY <2>2, StepUnseen DEF ChannelUp
  <2> QED
    BY <1>2, <2>1, <2>2, CloseResumeShutsDown, WaitedRetires, OnDestroyedRetires, StepUnseen DEF Progress
<1>3. CASE Environment
  <2>1. UNCHANGED <<clients, markedForClose, closed>> /\ (channel' = "SHUTDOWN" <=> channel = "SHUTDOWN")
    BY <1>3 DEF Environment, DestroyedElsewhere, NoticeLost, ChannelDrop, ChannelUp
  <2> QED
    BY <2>1, StepUnseen
<1>4. CASE UNCHANGED vars
  BY <1>4, StepUnseen DEF vars
<1> QED
  BY <1>1, <1>2, <1>3, <1>4 DEF Next

LEMMA InitIsSeen == Init => Caches!Init
<1> SUFFICES ASSUME Init PROVE Caches!Init
  OBVIOUS
<1>1. clients = <<>> /\ DOMAIN clients = {} /\ InUse = {}
  BY EmptySeq DEF Init, InUse
<1>2. Handed = <<>>
  BY <1>1, EmptySeq DEF Handed
<1> QED
  BY <1>1, <1>2 DEF Init, Caches!Init, Handed, InUse

\* The session implements SessionCaches for any names and however releases,
\* destructions, losses and close() overlap: one client for a name at a time,
\* none from a closing session, and closed exactly when nothing is in use.
THEOREM Implements == Disciplined => (Spec => ImplementsSession)
<1> SUFFICES ASSUME Disciplined PROVE Spec => ImplementsSession
  OBVIOUS
<1>1. Spec => [](TypeOK /\ CachesInv)
  BY CachesInvHolds
<1>2. Spec => [](LoopInv /\ ShutdownInv)
  BY ShutdownHolds
<1>3. Spec => []ClosedUnused
  <2>1. TypeOK /\ CachesInv /\ ClosedExactly => ClosedUnused
    BY NoneHeldNoneUsed DEF CachesInv, ClosedExactly, ClosedUnused
  <2> QED
    BY <1>1, <2>1, ReportsExactly, PTL
<1>4. Init => Caches!Init
  BY InitIsSeen
<1>5. TypeOK /\ TypeOK' /\ CachesInv /\ LoopInv /\ ShutdownInv /\ ClosedUnused /\ ClosedUnused' /\ [Next]_vars
        => [Caches!Next]_(Caches!sessionVars)
  BY NextIsSeen
<1> QED
  BY <1>1, <1>2, <1>3, <1>4, <1>5, PTL DEF Spec, ImplementsSession, Caches!Spec

============================================================================
