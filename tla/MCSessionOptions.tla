-------------------------- MODULE MCSessionOptions --------------------------
(***************************************************************************)
(* An instance of SessionOptions for TLC, without TLS in the environment.  *)
(***************************************************************************)
EXTENDS SessionOptions

MCEnv == [address |-> None, key |-> None, cert |-> None, ca |-> None]

============================================================================
