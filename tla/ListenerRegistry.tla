-------------------------- MODULE ListenerRegistry --------------------------
(***************************************************************************)
(* What addMapListener and removeMapListener promise an application, with  *)
(* no stream, request or proxy in sight: a listener stays registered from  *)
(* the call that adds it to the call that removes it, and events reach     *)
(* registered listeners only.  Who of them is reached may change at any    *)
(* time, as connections come and go; that all of them are reached in the   *)
(* end is a liveness property of MapEvents.                                *)
(***************************************************************************)
EXTENDS Naturals

CONSTANTS Targets,    \* what listeners register for
          Listeners

VARIABLES registered, \* pairs of a target and a listener registered for it
          reached,    \* the pairs an event would be delivered to now
          calls       \* listener calls made so far

regVars == <<registered, reached, calls>>

Init == registered = {} /\ reached = {} /\ calls = 0

\* One call to addMapListener or removeMapListener.
Add(t, l) == registered' = registered \cup {<<t, l>>} /\ calls' = calls + 1

Remove(t, l) == registered' = registered \ {<<t, l>>} /\ calls' = calls + 1

\* Subscriptions are made, lost and renewed.
Reach == UNCHANGED <<registered, calls>>

Next ==
  /\ \/ Reach
     \/ \E t \in Targets, l \in Listeners : Add(t, l) \/ Remove(t, l)
  /\ reached' \subseteq registered'

Spec == Init /\ [][Next]_regVars

============================================================================
