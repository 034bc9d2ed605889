------------------------------- MODULE Lookup -------------------------------
(***************************************************************************)
(* CoherenceResolver (session.ts): gRPC asks it, again and again, for the  *)
(* addresses of the proxies; it asks a name service, over a socket of its  *)
(* own each time, and tells a listener.  A foreign cluster is looked up    *)
(* first: that gives the port of the name service to ask for its proxies.  *)
(*                                                                         *)
(* A socket's responses are read as they arrive: the end of the stream and *)
(* a piece of a message are taken for a whole one.  Nothing bounds the     *)
(* wait for an answer (the timeout that is set has no handler).            *)
(*                                                                         *)
(* The name services are external.  There is one at each port, on one      *)
(* host, and it knows the ports of the other clusters.                     *)
(***************************************************************************)
EXTENDS PackedInt, FiniteSets

CONSTANTS
  Resolutions, \* calls of updateResolution
  Targets,     \* what they are to resolve: [port, cluster], each may be None
  None,
  DefaultPort, \* 7574
  ServiceAt,   \* the cluster whose name service listens at a port
  PortOf,      \* the port of a cluster's name service, or None
  Proxies,     \* lists of proxy addresses, of which NoProxy is empty
  NoProxy,
  AtFirst,     \* the proxies that clusters may have in the beginning
  Lengths,     \* lengths a name service's result may have
  Numbers,     \* integers that are written
  MaxChanges   \* bound on how often the proxies of a cluster change

Ports == DOMAIN ServiceAt

Clusters == DOMAIN PortOf

ASSUME LookupAssumption ==
  /\ DefaultPort \in Ports /\ None \notin Ports /\ None \notin Clusters
  /\ Targets \subseteq [port : Ports \cup {None}, cluster : Clusters \cup {None}]
  /\ ServiceAt \in [Ports -> Clusters] /\ PortOf \in [Clusters -> Ports \cup {None}]
  /\ AtFirst \subseteq [Clusters -> Proxies]
  /\ NoProxy \in Proxies /\ None \notin Proxies
  /\ Lengths \subseteq Nat \ {0} /\ Numbers \subseteq Int32 /\ MaxChanges \in Nat

VARIABLES
  lookups, \* the lookup of each resolution, with its socket
  proxies, \* the proxies of each cluster
  changes, \* how often they have changed
  crashed  \* a handler has thrown an error or loops for ever, or a rejection has no handler

vars == <<lookups, proxies, changes, crashed>>

\* What is made of bytes that are no result.
Garbage == None

Unused == [target |-> None, stage |-> "unused", port |-> None, state |-> "INITIAL", owed |-> "none",
           answer |-> <<>>, intact |-> TRUE, held |-> {}, told |-> <<>>]

----------------------------------------------------------------------------
\* Mutant of ParsedPort: a cluster without a port has no default.
ParsedPortOnly(t) == IF t.port # None \/ t.cluster # None THEN t.port ELSE DefaultPort

\* A port counts only with a cluster after it: one without is dropped.
ParsedPort(t) == IF t.port # None /\ t.cluster # None THEN t.port ELSE DefaultPort

\* The cluster whose proxies a target asks for: the one it names, or else that of
\* the name service at the port it names, 7574 if it names none.
Wanted(t) ==
  IF t.cluster # None THEN t.cluster ELSE ServiceAt[IF t.port # None THEN t.port ELSE DefaultPort]

Init ==
  /\ lookups = [r \in Resolutions |-> Unused]
  /\ proxies \in AtFirst
  /\ changes = 0
  /\ crashed = FALSE

Become(r, l) ==
  /\ ~crashed
  /\ lookups' = [lookups EXCEPT ![r] = l]
  /\ UNCHANGED <<proxies, changes, crashed>>

Crash(r) ==
  /\ ~crashed /\ crashed' = TRUE
  /\ lookups' = [lookups EXCEPT ![r].intact = FALSE]
  /\ UNCHANGED <<proxies, changes>>

\* createSocket, connect
Dial(l, stage, port) == [l EXCEPT !.stage = stage, !.port = port, !.state = "INITIAL", !.owed = "none", !.answer = <<>>]

UpdateResolution(r) ==
  /\ lookups[r] = Unused
  /\ \E t \in Targets :
       Become(r, Dial([Unused EXCEPT !.target = t, !.held = {proxies[Wanted(t)]}],
                      IF t.cluster # None THEN "cluster" ELSE "grpc", ParsedPort(t)))

Told(l, what) == [l EXCEPT !.stage = "over", !.told = Append(@, what)]

\* Mutant of Rejected: the handler of the first lookup tells nobody.
RejectedUnheard(r, l) == IF l.stage = "cluster" THEN Become(r, [l EXCEPT !.stage = "over"]) ELSE Crash(r)

\* Only the first lookup of a foreign cluster has a handler for its rejection.
\* That of the second is unhandled, which ends the process.
Rejected(r, l) == IF l.stage = "cluster" THEN Become(r, Told(l, <<"error">>)) ELSE Crash(r)

\* Mutant of Resolved: the proxies are asked for where the cluster was.
ResolvedSamePort(l, value) ==
  IF l.stage = "cluster" THEN Dial(l, "grpc", l.port)
  ELSE Told(l, IF value = NoProxy THEN <<"error">> ELSE <<"proxies", value>>)

\* Mutant of Resolved: the error of a port that makes no sense is told, and the lookup goes on.
ResolvedOn(l, value) ==
  IF l.stage = "cluster" THEN Dial(Told(l, <<"error">>), "grpc", IF value = Garbage THEN l.port ELSE value)
  ELSE Told(l, IF value = NoProxy THEN <<"error">> ELSE <<"proxies", value>>)

\* A port that makes no sense makes connect throw, which is caught and told.
Resolved(l, value) ==
  IF l.stage = "cluster"
  THEN IF value = Garbage THEN Told(l, <<"error">>) ELSE Dial(l, "grpc", value)
  ELSE Told(l, IF value = NoProxy THEN <<"error">> ELSE <<"proxies", value>>)

Active(r) == lookups[r].stage \in {"cluster", "grpc"}

----------------------------------------------------------------------------
(* The socket: connect, error and readable.                                *)

Connect(r) ==
  /\ Active(r) /\ lookups[r].state = "INITIAL"
  /\ Become(r, [lookups[r] EXCEPT !.state = "CONNECTION", !.owed = "connection"])

\* Whatever there is of the response is thrown away and the channel is opened.
ReadConnection(r, whole) ==
  LET l == lookups[r]
  IN  /\ Active(r) /\ l.state = "CONNECTION" /\ l.owed = "connection"
      /\ Become(r, [l EXCEPT !.state = "CHANNEL", !.owed = IF whole THEN "channel" ELSE "rest",
                             !.intact = @ /\ whole])

\* The rest of the response that was thrown away is read as the channel's.
ReadRest(r) ==
  LET l == lookups[r]
  IN  /\ Active(r) /\ l.state = "CHANNEL" /\ l.owed = "rest"
      /\ \/ Crash(r)
         \/ Become(r, [l EXCEPT !.state = "LOOKUP", !.owed = "channel"])

\* A part of a message has no bytes to read yet, and null has no subarray.
ReadChannel(r, whole) ==
  LET l == lookups[r]
  IN  /\ Active(r) /\ l.state = "CHANNEL" /\ l.owed = "channel"
      /\ IF whole THEN Become(r, [l EXCEPT !.state = "LOOKUP", !.owed = "result"]) ELSE Crash(r)

\* The name service answers the query: a cluster's port, or the proxies.
Serve(r) ==
  LET l == lookups[r]
      found == IF l.stage = "cluster" THEN PortOf[l.target.cluster] ELSE proxies[ServiceAt[l.port]]
  IN  /\ Active(r) /\ l.state = "LOOKUP" /\ l.owed = "result" /\ l.answer = <<>>
      /\ \E length \in Lengths \cup {0} :
           /\ found = None => length = 0
           /\ found \notin {None, NoProxy} => length > 0
           /\ Become(r, [l EXCEPT !.answer = <<found, length>>])

\* The socket is destroyed and the promise settled.  A message of few bytes has
\* no result, and one of very many makes the reader loop.
ReadResult(r, whole) ==
  LET l      == lookups[r]
      length == WritePackedInt(l.answer[2])
      value  == IF ReadPackedIntFromBuffer(length) = l.answer[2] THEN l.answer[1] ELSE Garbage
  IN  /\ Active(r) /\ l.state = "LOOKUP" /\ l.answer # <<>>
      /\ IF ~whole \/ Hangs(length) THEN Crash(r)
         ELSE IF l.answer[2] = 0 THEN Rejected(r, l) ELSE Become(r, Resolved(l, value))

\* A response that is one behind is read as the result.
ReadLate(r) ==
  LET l == lookups[r]
  IN  /\ Active(r) /\ l.state = "LOOKUP" /\ l.owed = "channel"
      /\ Rejected(r, l) \/ Become(r, Resolved(l, Garbage))

\* The service ends the stream: that, too, is readable.
ServiceCloses(r) ==
  LET l == lookups[r]
  IN  /\ Active(r) /\ l.state # "INITIAL" /\ l.owed # "none"
      /\ IF l.state = "CONNECTION"
         THEN Become(r, [l EXCEPT !.state = "CHANNEL", !.owed = "none", !.intact = FALSE])
         ELSE Crash(r)

SocketError(r) ==
  /\ Active(r)
  /\ Rejected(r, [lookups[r] EXCEPT !.intact = FALSE])

\* Proxies of a cluster come and go.
Change(c) ==
  /\ changes < MaxChanges
  /\ changes' = changes + 1
  /\ \E p \in Proxies \ {proxies[c]} :
       /\ proxies' = [proxies EXCEPT ![c] = p]
       /\ lookups' = [r \in Resolutions |->
            IF Active(r) /\ Wanted(lookups[r].target) = c
            THEN [lookups[r] EXCEPT !.held = @ \cup {p}] ELSE lookups[r]]
  /\ UNCHANGED crashed

----------------------------------------------------------------------------
Arrives(r, whole) == ReadConnection(r, whole) \/ ReadChannel(r, whole) \/ ReadResult(r, whole)

Next ==
  \/ \E r \in Resolutions :
       \/ UpdateResolution(r) \/ Connect(r) \/ Serve(r) \/ \E whole \in BOOLEAN : Arrives(r, whole)
       \/ ReadRest(r) \/ ReadLate(r) \/ ServiceCloses(r) \/ SocketError(r)
  \/ \E c \in Clusters : Change(c)

Spec == Init /\ [][Next]_vars

\* A name service can be reached and answers, and what it sends arrives: assumed of
\* the service, for the code has no timeout that would take its place.
FairSpec ==
  /\ Spec
  /\ \A r \in Resolutions : WF_vars(Connect(r) \/ Serve(r) \/ \E whole \in BOOLEAN : Arrives(r, whole))

----------------------------------------------------------------------------
\* Types; every lookup goes to a port where there is a service.
TypeOK ==
  /\ proxies \in [Clusters -> Proxies]
  /\ changes \in 0 .. MaxChanges /\ crashed \in BOOLEAN
  /\ \A r \in Resolutions : lookups[r] # Unused =>
       /\ lookups[r].target \in Targets
       /\ lookups[r].stage \in {"cluster", "grpc", "over"}
       /\ lookups[r].port \in Ports
       /\ lookups[r].state \in {"INITIAL", "CONNECTION", "CHANNEL", "LOOKUP"}
       /\ lookups[r].owed \in {"none", "connection", "rest", "channel", "result"}
       /\ lookups[r].intact \in BOOLEAN
       /\ lookups[r].held \subseteq Proxies

\* A resolution is answered once at most, over both of its lookups.
ToldOnce == \A r \in Resolutions : Len(lookups[r].told) <= 1

\* The proxies that are told were those of the cluster that the target asks for at
\* some time since, unless the lookup was cut short or its messages were.
ToldTheTruth ==
  \A r \in Resolutions : lookups[r].intact =>
    \A i \in DOMAIN lookups[r].told :
      lookups[r].told[i] \in {<<"error">>} \cup {<<"proxies", p>> : p \in lookups[r].held}

\* What writePackedInt writes is read back from the socket, whatever its sign and
\* its number of bytes; from a message it is read back if it has two bytes at most,
\* and otherwise the reader hangs.  Looked at before the first lookup.
PackedIntsReadBack ==
  (\A r \in Resolutions : lookups[r] = Unused) =>
    \A n \in Numbers :
      LET bytes == WritePackedInt(n)
      IN  /\ ReadPackedInt(bytes) = n
          /\ Hangs(bytes) <=> (n < -8192 \/ n > 8191)
          /\ ~Hangs(bytes) => ReadPackedIntFromBuffer(bytes) = n

\* A resolution is answered, over both of its lookups and a cluster or a proxy that
\* is not there, unless its messages are cut or the process ends: which a rejection
\* of the second lookup of any resolution is enough for.
Answered ==
  \A r \in Resolutions :
    lookups[r] # Unused ~> lookups[r].told # <<>> \/ ~lookups[r].intact \/ crashed

============================================================================
