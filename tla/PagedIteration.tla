--------------------------- MODULE PagedIteration ---------------------------
(***************************************************************************)
(* The PageAdvancer behind the iterators of KeySet, EntrySet and ValueSet  *)
(* (util.ts): entries are fetched a page at a time and handed out one by   *)
(* one by next().  A page is a stream: its first message carries the       *)
(* cookie that asks for the page after it, the rest carry the entries.     *)
(*                                                                         *)
(* The entries are numbered 1 .. Total in the proxy's order and do not     *)
(* change meanwhile; the proxy cuts them into pages as it likes.  A cookie *)
(* is the number of entries before the page it asks for.                   *)
(***************************************************************************)
EXTENDS Integers, Sequences

CONSTANTS Total,      \* number of entries in the cache
          Serial,     \* TRUE: next() is awaited before it is called again
          MayRetry,   \* TRUE: next() may be called after it was rejected
          EmptyPages, \* bound on loads that may find an empty page with more to come
          MaxCalls,   \* bound on calls of next()
          MaxFails    \* bound on page loads that fail

ASSUME PagesAssumption ==
  /\ Total \in Nat
  /\ Serial \in BOOLEAN /\ MayRetry \in BOOLEAN
  /\ EmptyPages \in Nat /\ MaxCalls \in Nat /\ MaxFails \in Nat

VARIABLES
  exhausted, \* as in the code
  data,      \* entries that have been fetched and not handed out
  cookie,    \* of the next page, or None
  loads,     \* every page load, in the order of their start
  delivered, \* entries that calls of next() resolved to, in that order
  finished,  \* a call has resolved to done
  used       \* how often each bounded event has happened

vars == <<exhausted, data, cookie, loads, delivered, finished, used>>

\* Undefined or empty: the code treats them alike, and so does the proxy, which
\* takes a request without a cookie as one for the first page.
None == -1

From(c) == IF c = None THEN 0 ELSE c

\* Mutant of NewLoad: the page asked for starts one entry too far.
NewLoadBehind == [phase |-> "open", from |-> From(cookie) + 1, started |-> FALSE, to |-> 0]

\* A page load: where its page starts, whether its first message is here, and
\* where its page ends.
NewLoad == [phase |-> "open", from |-> From(cookie), started |-> FALSE, to |-> 0]

Entries(from, to) == [i \in 1 .. (to - from) |-> from + i]

----------------------------------------------------------------------------
Init ==
  /\ exhausted = FALSE
  /\ data = <<>>
  /\ cookie = None
  /\ loads = <<>>
  /\ delivered = <<>>
  /\ finished = FALSE
  /\ used = [calls |-> 0, fails |-> 0]

\* Mutant of Advance: the entry handed out stays in the page.
AdvanceKeeping(page, exh, started) ==
  IF page # <<>>
  THEN /\ data' = page
       /\ delivered' = Append(delivered, Head(page))
       /\ loads' = started
       /\ UNCHANGED finished
  ELSE /\ data' = page
       /\ UNCHANGED delivered
       /\ finished' = (finished \/ exh)
       /\ loads' = IF exh THEN started ELSE Append(started, NewLoad)

\* The body of next(): hand out an entry, report the end, or load a page.
Advance(page, exh, started) ==
  IF page # <<>>
  THEN /\ data' = Tail(page)
       /\ delivered' = Append(delivered, Head(page))
       /\ loads' = started
       /\ UNCHANGED finished
  ELSE /\ data' = page
       /\ UNCHANGED delivered
       /\ finished' = (finished \/ exh)
       /\ loads' = IF exh THEN started ELSE Append(started, NewLoad)

Open == {l \in DOMAIN loads : loads[l].phase = "open"}

Failed == {l \in DOMAIN loads : loads[l].phase \in {"failed", "over"}}

\* The application calls next().
Call ==
  /\ used.calls < MaxCalls
  /\ Serial => Open = {}
  /\ ~MayRetry => Failed = {}
  /\ used' = [used EXCEPT !.calls = @ + 1]
  /\ Advance(data, exhausted, loads)
  /\ UNCHANGED <<exhausted, cookie>>

\* The first message of a page: the proxy leaves the cookie out, or sends an
\* empty one, on the last page only.
FirstMessage(l) ==
  /\ loads[l].phase = "open" /\ ~loads[l].started
  /\ \E to \in loads[l].from .. Total :
       /\ \/ cookie' = None /\ to = Total
          \/ cookie' = to /\ (to > loads[l].from \/ l <= EmptyPages)
       /\ loads' = [loads EXCEPT ![l].started = TRUE, ![l].to = to]
  /\ UNCHANGED <<exhausted, data, delivered, finished, used>>

\* Mutant of PageEnd: the end is looked for in the page instead of the cookie.
PageEndOnEmpty(l) ==
  /\ loads[l].phase = "open" /\ loads[l].started
  /\ exhausted' = (loads[l].from = loads[l].to)
  /\ Advance(Entries(loads[l].from, loads[l].to), exhausted', [loads EXCEPT ![l].phase = "done"])
  /\ UNCHANGED <<cookie, used>>

\* Mutant of PageEnd: exhausted is not set.
PageEndUnnoticed(l) ==
  /\ loads[l].phase = "open" /\ loads[l].started
  /\ Advance(Entries(loads[l].from, loads[l].to), exhausted, [loads EXCEPT ![l].phase = "done"])
  /\ UNCHANGED <<exhausted, cookie, used>>

\* The page has been read to its end: its entries replace what the iterator
\* holds and next() starts over.
PageEnd(l) ==
  /\ loads[l].phase = "open" /\ loads[l].started
  /\ exhausted' = (cookie = None)
  /\ Advance(Entries(loads[l].from, loads[l].to), exhausted', [loads EXCEPT ![l].phase = "done"])
  /\ UNCHANGED <<cookie, used>>

\* The stream fails: the call that loads the page is rejected.
PageError(l) ==
  /\ loads[l].phase = "open"
  /\ used.fails < MaxFails
  /\ used' = [used EXCEPT !.fails = @ + 1]
  /\ loads' = [loads EXCEPT ![l].phase = "failed"]
  /\ UNCHANGED <<exhausted, data, cookie, delivered, finished>>

\* A failed stream may still emit its end, which nobody awaits any more.
EndAfterError(l) ==
  /\ loads[l].phase = "failed"
  /\ loads' = [loads EXCEPT ![l].phase = "over"]
  /\ exhausted' = (cookie = None)
  /\ UNCHANGED <<data, cookie, delivered, finished, used>>

----------------------------------------------------------------------------
Answers == \E l \in DOMAIN loads : FirstMessage(l) \/ PageEnd(l)

Next ==
  \/ Call
  \/ Answers
  \/ \E l \in DOMAIN loads : PageError(l) \/ EndAfterError(l)

Spec == Init /\ [][Next]_vars

\* The application goes on iterating, the proxy answers.
FairSpec == Spec /\ WF_vars(Call) /\ WF_vars(Answers)

----------------------------------------------------------------------------
Loads == [phase : {"open", "done", "failed", "over"}, from : 0 .. Total,
          started : BOOLEAN, to : 0 .. Total]

\* Types; no page starts or ends outside the entries there are.
TypeOK ==
  /\ exhausted \in BOOLEAN /\ finished \in BOOLEAN
  /\ data \in Seq(1 .. Total)
  /\ cookie \in {None} \cup 0 .. Total
  /\ loads \in Seq(Loads)
  /\ delivered \in Seq(1 .. Total)
  /\ used \in [calls : Nat, fails : Nat]

\* However the proxy cuts its pages, an iteration yields every entry once and
\* in order, and reports its end after the last one only.
Iteration == INSTANCE EntryIterator

ImplementsIterator == Iteration!Spec

\* Nothing is skipped: what has been yielded, what is held and what is still to
\* be fetched follow on from each other.
NothingSkipped ==
  /\ delivered \o data = Entries(0, Len(delivered) + Len(data))
  /\ Open = {} /\ Failed = {} =>
       Len(delivered) + Len(data) = IF exhausted THEN Total ELSE From(cookie)

\* An iteration that is carried on comes to its end unless a page fails.
ComesToItsEnd == <>(finished \/ Failed # {})

============================================================================
