----------------------------- MODULE MCEntryMap -----------------------------
(***************************************************************************)
(* An instance of EntryMap for TLC: three keys, two of them of one hash,   *)
(* and one whose hash is negative at the width chosen; and one of two keys *)
(* that are equal but not the same instance, so that they have one text.   *)
(***************************************************************************)
EXTENDS EntryMap, HashCode, TLC

MCKeys == {"Aa", "BB", "zy"}

MCHash == ("Aa" :> HashOf(<<65, 97>>)) @@ ("BB" :> HashOf(<<66, 66>>)) @@ ("zy" :> HashOf(<<122, 121>>))

MCIdentity == {<<k, k>> : k \in Keys}

MCTwins == {"one", "other"}

MCTwinHash == [k \in MCTwins |-> HashOf(<<65, 97>>)]

MCEqual == MCTwins \X MCTwins

============================================================================
