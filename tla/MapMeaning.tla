----------------------------- MODULE MapMeaning -----------------------------
(***************************************************************************)
(* What each operation of a NamedMap does to the map and what its promise  *)
(* resolves to, as the interface in named-cache-client.ts has it: op with  *)
(* key k, value v and, for replaceMapping and get, a new or default value  *)
(* w, on the map m.                                                        *)
(*                                                                         *)
(* setAll puts one value under every key, the filters match everything,    *)
(* the entry processor puts v and returns the value before, and the        *)
(* aggregator counts.                                                      *)
(***************************************************************************)
EXTENDS FiniteSets

CONSTANTS Keys,
          Null, Absent \* an entry without a value, no entry

Ops ==
  {"get", "has", "hasEntry", "hasValue", "size", "empty", "ready", "aggregate", "getAll", "entries", "keys",
   "values", "forEach", "forEachKey", "set", "setIfAbsent", "setAll", "delete", "keySet.delete",
   "removeMapping", "replace", "replaceMapping", "clear", "truncate", "invoke", "invokeAll", "addIndex",
   "removeIndex"}

\* The operations with a key, with a value and with a second one.
Keyed ==
  {"get", "has", "hasEntry", "set", "setIfAbsent", "delete", "keySet.delete", "removeMapping", "replace",
   "replaceMapping", "invoke"}

Valued ==
  {"hasEntry", "hasValue", "set", "setIfAbsent", "setAll", "removeMapping", "replace", "replaceMapping",
   "invoke", "invokeAll"}

Arguments(op, values) ==
  (IF op \in Keyed THEN Keys ELSE {Null})
    \X (IF op \in Valued THEN values ELSE {Null})
    \X (IF op \in {"get", "replaceMapping"} THEN values ELSE {Null})

Present(m) == {k \in Keys : m[k] # Absent}

Current(m, k) == IF m[k] = Absent THEN Null ELSE m[k]

With(m, k, v) == [x \in Keys |-> IF x = k THEN v ELSE m[x]]

\* The map after an operation with these arguments.
Effect(op, k, v, w, m) ==
  CASE op \in {"set", "invoke"}                            -> With(m, k, v)
    [] op = "setIfAbsent" /\ Current(m, k) = Null          -> With(m, k, v)
    [] op = "replace" /\ k \in Present(m)                  -> With(m, k, v)
    [] op = "replaceMapping" /\ m[k] = v                   -> With(m, k, w)
    [] op = "removeMapping" /\ m[k] = v                    -> With(m, k, Absent)
    [] op \in {"delete", "keySet.delete"}                  -> With(m, k, Absent)
    [] op \in {"clear", "truncate"}                        -> [x \in Keys |-> Absent]
    [] op = "setAll"                                       -> [x \in Keys |-> v]
    [] op = "invokeAll"                                    -> [x \in Keys |-> IF m[x] = Absent THEN Absent ELSE v]
    [] OTHER                                               -> m

\* What its promise resolves to.
Result(op, k, v, w, m) ==
  CASE op = "get"                                          -> <<IF m[k] = Absent THEN w ELSE m[k]>>
    [] op \in {"set", "setIfAbsent", "replace", "delete", "invoke"} -> <<Current(m, k)>>
    [] op = "keySet.delete"                                -> <<Current(m, k) # Null>>
    [] op = "has"                                          -> <<k \in Present(m)>>
    [] op \in {"hasEntry", "removeMapping", "replaceMapping"} -> <<m[k] = v>>
    [] op = "hasValue"                                     -> <<\E x \in Keys : m[x] = v>>
    [] op \in {"size", "aggregate"}                        -> <<Cardinality(Present(m))>>
    [] op = "ready"                                        -> <<TRUE>>
    [] op = "empty"                                        -> <<Present(m) = {}>>
    [] op \in {"getAll", "invokeAll", "entries", "forEach", "forEachKey"} -> <<{<<x, m[x]>> : x \in Present(m)}>>
    [] op = "keys"                                         -> <<Present(m)>>
    [] op = "values"                                       -> <<{m[x] : x \in Present(m)}>>
    [] OTHER                                               -> <<>>

============================================================================
