------------------------------ MODULE HashCode ------------------------------
(***************************************************************************)
(* The hash of a text in util.ts, after that of Java's strings: computed   *)
(* character by character and truncated to a signed integer each time.     *)
(***************************************************************************)
EXTENDS Integers, Sequences

CONSTANT Bits \* width of a hash: 32 in the code

Wrapped(n) == ((n + 2^(Bits - 1)) % 2^Bits) - 2^(Bits - 1)

HashOf(text) ==
  LET hash[n \in 0 .. Len(text)] ==
        IF n = 0 THEN 0 ELSE Wrapped(31 * hash[n - 1] + text[n])
  IN  hash[Len(text)]

============================================================================
