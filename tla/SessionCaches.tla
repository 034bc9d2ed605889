--------------------------- MODULE SessionCaches ---------------------------
(***************************************************************************)
(* What a Session promises about the caches it hands out, with no call,    *)
(* event or channel in sight: one client for a name at a time, which stays *)
(* in use until it is released or destroyed and is not revived; no more    *)
(* once it closes; and that it reports itself closed exactly when it is    *)
(* closing and no client is in use.  Clients are numbered as handed out.   *)
(***************************************************************************)
EXTENDS Naturals, Sequences

CONSTANT Names

VARIABLES handed,  \* the names of the clients handed out, in order
          inUse,   \* the clients neither released nor destroyed
          closing, \* close() has been called
          closed,  \* what the session reports
          shut     \* its channel is shut down

sessionVars == <<handed, inUse, closing, closed, shut>>

Init == handed = <<>> /\ inUse = {} /\ ~closing /\ ~closed /\ ~shut

HandOut(n) ==
  /\ ~closing
  /\ \A c \in inUse : handed[c] # n
  /\ handed' = Append(handed, n)
  /\ inUse' = inUse \cup {Len(handed) + 1}
  /\ UNCHANGED <<closing, shut>>

Retire(c) == inUse' = inUse \ {c} /\ UNCHANGED <<handed, closing, shut>>

\* With nothing to release the channel is shut down at once.
Close ==
  /\ ~closing
  /\ closing' = TRUE
  /\ shut' = (inUse = {})
  /\ UNCHANGED <<handed, inUse>>

ShutDown ==
  /\ closed
  /\ shut' = TRUE
  /\ UNCHANGED <<handed, inUse, closing>>

Next ==
  /\ \/ \E n \in Names : HandOut(n)
     \/ \E c \in inUse : Retire(c)
     \/ Close
     \/ ShutDown
  /\ closed' = (closing' /\ inUse' = {})

Spec == Init /\ [][Next]_sessionVars

============================================================================
