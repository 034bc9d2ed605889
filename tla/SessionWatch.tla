---------------------------- MODULE SessionWatch ----------------------------
(***************************************************************************)
(* The channel watcher that the Session constructor installs (session.ts). *)
(* grpc-js calls it synchronously on every change of the channel's state,  *)
(* so one call per change is all there is to model.  Every state other     *)
(* than READY (and SHUTDOWN, on which the watcher stops) is treated alike. *)
(***************************************************************************)

\* The two variables the callback closes over.
Watcher == [connected : BOOLEAN, firstConnect : BOOLEAN]

FirstWatch == [connected |-> FALSE, firstConnect |-> TRUE]

\* Mutant of Emits: the first connection is not told from later ones.
EmitsConnectedAlways(w, ready) ==
  IF ready /\ ~w.connected THEN "CONNECTED"
  ELSE IF ~ready /\ w.connected THEN "DISCONNECTED" ELSE "none"

\* The lifecycle event that the callback emits when it finds the channel
\* ready or not ready.
Emits(w, ready) ==
  IF ready /\ ~w.connected
  THEN IF w.firstConnect THEN "CONNECTED" ELSE "RECONNECTED"
  ELSE IF ~ready /\ w.connected THEN "DISCONNECTED" ELSE "none"

\* The variables after the callback.
Watched(w, ready) ==
  [connected    |-> ready,
   firstConnect |-> w.firstConnect /\ ~ready]

============================================================================
