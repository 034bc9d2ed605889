--------------------------- MODULE SessionOptions ---------------------------
(***************************************************************************)
(* Options and TlsOptions (session.ts): what an application configures a   *)
(* session with, and what the session makes of it.  A Session copies the   *)
(* options it is given into an object of its own, which it locks; the      *)
(* application keeps the original and can reach the copy, session.options. *)
(*                                                                         *)
(* The copy of an Options takes its fields as they are: the function that  *)
(* gives each request its deadline goes on to read the original.  Plain    *)
(* objects go through the setters.  Connecting takes the address, channel  *)
(* options and TLS as they are then, requests the rest as it is later.     *)
(***************************************************************************)
EXTENDS Integers

CONSTANTS
  Valid,            \* addresses of one of the formats accepted (others throw)
  Scopes, Timeouts, \* scopes, and timeouts that an application may ask for
  Infinity,         \* no timeout
  Files, None,      \* files for TLS, and none
  Env               \* the environment: [address, key, cert, ca], each may be None

VARIABLES
  options, \* the application's Options and the session's, or None
  channel  \* what the session's channel was made with, or None

vars == <<options, channel>>

Objects == {"own", "session"}

DefaultAddress == "localhost:1408"

DefaultRequestTimeout == 60000

DefaultReadyTimeout == 30000

\* From the environment: TLS is on if it names all three files.
NewTls ==
  [key |-> Env.key, cert |-> Env.cert, ca |-> Env.ca, locked |-> FALSE,
   enabled |-> Env.key # None /\ Env.cert # None /\ Env.ca # None]

\* Its deadline function reads the request timeout of the object it belongs to.
NewOptions(object) ==
  [address |-> IF Env.address # None THEN Env.address ELSE DefaultAddress,
   scope |-> "", request |-> DefaultRequestTimeout, ready |-> DefaultReadyTimeout,
   channelOptions |-> "default", deadlineOf |-> object, tls |-> NewTls, locked |-> FALSE]

Init == options = [o \in Objects |-> None] /\ channel = None

Timeout(t) == IF t <= 0 THEN Infinity ELSE t

\* A setter of the object o: a lock makes it do nothing.
Put(o, changed) ==
  /\ options[o] # None
  /\ options' = IF options[o].locked THEN options ELSE [options EXCEPT ![o] = changed]
  /\ UNCHANGED channel

----------------------------------------------------------------------------
SetAddress(o) == \E a \in Valid : Put(o, [options[o] EXCEPT !.address = a])

SetRequestTimeout(o) == \E t \in Timeouts : Put(o, [options[o] EXCEPT !.request = Timeout(t)])

SetReadyTimeout(o) == \E t \in Timeouts : Put(o, [options[o] EXCEPT !.ready = Timeout(t)])

SetChannelOptions(o) == Put(o, [options[o] EXCEPT !.channelOptions = "configured"])

\* The application's own function reads nothing of the options.
SetCallOptions(o) == Put(o, [options[o] EXCEPT !.deadlineOf = None])

\* The setters of scope and tls do not look at the lock.
SetScope(o) ==
  /\ options[o] # None
  /\ \E s \in Scopes : options' = [options EXCEPT ![o].scope = s]
  /\ UNCHANGED channel

SetTls(o) ==
  /\ options[o] # None
  /\ options' = [options EXCEPT ![o].tls = NewTls]
  /\ UNCHANGED channel

PutTls(o, changed) ==
  /\ options[o] # None
  /\ options' = IF options[o].tls.locked THEN options ELSE [options EXCEPT ![o].tls = changed]
  /\ UNCHANGED channel

SetEnabled(o) == \E on \in BOOLEAN : PutTls(o, [options[o].tls EXCEPT !.enabled = on])

SetCaCertPath(o) == \E f \in Files : PutTls(o, [options[o].tls EXCEPT !.ca = f])

SetClientCertPath(o) == \E f \in Files : PutTls(o, [options[o].tls EXCEPT !.cert = f])

SetClientKeyPath(o) == \E f \in Files : PutTls(o, [options[o].tls EXCEPT !.key = f])

----------------------------------------------------------------------------
Create ==
  /\ options["own"] = None
  /\ options' = [options EXCEPT !["own"] = NewOptions("own")]
  /\ UNCHANGED channel

Locked(opts) == [opts EXCEPT !.locked = TRUE, !.tls.locked = TRUE]

\* The session is constructed: certificates are read when TLS is on, and a file
\* that is not named makes the constructor throw.
Session(opts) ==
  /\ options["session"] = None
  /\ opts.tls.enabled => None \notin {opts.tls.key, opts.tls.cert, opts.tls.ca}
  /\ options' = [options EXCEPT !["session"] = Locked(opts)]
  /\ channel' = [address |-> opts.address, channelOptions |-> opts.channelOptions, secure |-> opts.tls.enabled]

\* With no options, with a plain object of two of them, or with the Options.
NewSession ==
  \/ Session(NewOptions("session"))
  \/ \E a \in Valid, t \in Timeouts :
       Session([NewOptions("session") EXCEPT !.address = a, !.request = Timeout(t)])
  \/ options["own"] # None /\ Session(options["own"])

Next ==
  \/ Create \/ NewSession
  \/ \E o \in Objects :
       \/ SetAddress(o) \/ SetRequestTimeout(o) \/ SetReadyTimeout(o) \/ SetChannelOptions(o)
       \/ SetCallOptions(o) \/ SetScope(o) \/ SetTls(o)
       \/ SetEnabled(o) \/ SetCaCertPath(o) \/ SetClientCertPath(o) \/ SetClientKeyPath(o)

Spec == Init /\ [][Next]_vars

----------------------------------------------------------------------------
\* What a request's deadline, a wait and a new cache take from the options.
RequestTimeout ==
  LET opts == options["session"]
  IN  IF opts.deadlineOf = None THEN None ELSE options[opts.deadlineOf].request

\* Once a session has locked its options no mutation is made to what it works
\* with: the timeout of a request, that of a wait and the scope of new caches.
FixedOnceLocked ==
  [][options["session"] # None =>
       /\ RequestTimeout' = RequestTimeout
       /\ options'["session"].ready = options["session"].ready
       /\ options'["session"].scope = options["session"].scope]_vars

============================================================================
