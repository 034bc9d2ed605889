--------------------------- MODULE ListenerGroup ---------------------------
(***************************************************************************)
(* The book-keeping of one ListenerGroup (events.ts): the listeners that   *)
(* share a key or a filter, what they make the group ask the proxy for,    *)
(* and the requests a change of the set leads to.  Everything here is the  *)
(* synchronous part of addListener and removeListener; the requests are    *)
(* returned as a sequence of steps that MapEvents carries out one by one.  *)
(***************************************************************************)
EXTENDS Integers, FiniteSets, Sequences

CONSTANTS Keys,         \* keys that listeners are registered for
          Filters,      \* instances of MapEventFilter
          PlainFilters, \* filters that are not instances of MapEventFilter
          Listeners     \* MapListener objects

ASSUME TargetsDisjoint ==
  /\ Keys \cap (Filters \cup PlainFilters) = {}
  /\ Filters \cap PlainFilters = {}

ASSUME ListenersFinite == IsFiniteSet(Listeners)

\* What a group is registered for: its keyOrFilter.
Targets == Keys \cup Filters \cup PlainFilters

\* A listener's entry in the listeners map; "none" when it has no entry.
Statuses == {"none", "lite", "full"}

\* The requests of a group: an unsubscribe, or a subscribe with its lite flag.
Steps == {"unsub", "lite", "full"}

Flag(isLite) == IF isLite THEN "lite" ELSE "full"

Group == [target           : Targets,
          listeners        : [Listeners -> Statuses],
          registeredIsLite : BOOLEAN,
          isLiteFalseCount : Int]

NewGroup(t) == [target           |-> t,
                listeners        |-> [l \in Listeners |-> "none"],
                registeredIsLite |-> TRUE,
                isLiteFalseCount |-> 0]

Registered(grp) == {l \in Listeners : grp.listeners[l] # "none"}

FullListeners(grp) == {l \in Listeners : grp.listeners[l] = "full"}

----------------------------------------------------------------------------
\* addListener returns at once when the listener already has that flag.
IsNews(grp, l, isLite) == grp.listeners[l] # Flag(isLite)

\* Mutant of NeedsRegistration: a group is registered anew for each listener.
NeedsRegistrationAlways(grp, l, isLite) == TRUE

\* A request is needed for the first listener, or when the new one wants
\* values and the proxy was asked for keys only.
NeedsRegistration(grp, l, isLite) ==
  \/ Registered(grp) \ {l} = {}
  \/ grp.registeredIsLite /\ ~isLite

\* Mutant of Added: a re-registration forgets to record the new flag.
AddedKeepingFlag(grp, l, isLite) ==
  IF IsNews(grp, l, isLite)
  THEN [grp EXCEPT !.listeners[l]     = Flag(isLite),
                   !.isLiteFalseCount = IF isLite THEN @ ELSE @ + 1]
  ELSE grp

\* The group after addListener(l, isLite), before its first await.
Added(grp, l, isLite) ==
  IF IsNews(grp, l, isLite)
  THEN [grp EXCEPT
         !.listeners[l]     = Flag(isLite),
         !.isLiteFalseCount = IF isLite THEN @ ELSE @ + 1,
         !.registeredIsLite = IF NeedsRegistration(grp, l, isLite) THEN isLite ELSE @]
  ELSE grp

\* The requests addListener awaits in turn: a group of several listeners is
\* unsubscribed first, a group of one is only subscribed.
AddSteps(grp, l, isLite) ==
  IF ~IsNews(grp, l, isLite) \/ ~NeedsRegistration(grp, l, isLite) THEN <<>>
  ELSE IF Registered(grp) \ {l} = {} THEN <<Flag(isLite)>>
  ELSE <<"unsub", Flag(isLite)>>

----------------------------------------------------------------------------
IsLast(grp, l) == Registered(grp) = {l}

\* Mutant of Removed: the count goes down for lite listeners too.
RemovedCountingAll(grp, l) ==
  [grp EXCEPT
    !.listeners[l]     = "none",
    !.isLiteFalseCount = IF grp.listeners[l] # "none" /\ ~IsLast(grp, l) THEN @ - 1 ELSE @]

\* The group after removeListener(l), before its first await.  The count is
\* left alone when the last listener goes: that path returns early.
Removed(grp, l) ==
  [grp EXCEPT
    !.listeners[l]     = "none",
    !.isLiteFalseCount = IF grp.listeners[l] = "full" /\ ~IsLast(grp, l) THEN @ - 1 ELSE @]

\* The requests removeListener awaits in turn.  registeredIsLite is not set
\* when the group falls back to lite events.
RemoveSteps(grp, l) ==
  IF grp.listeners[l] = "none" THEN <<>>
  ELSE IF IsLast(grp, l) THEN <<"unsub">>
  ELSE IF grp.listeners[l] = "full" /\ grp.isLiteFalseCount = 1 THEN <<"unsub", "lite">>
  ELSE <<>>

============================================================================
