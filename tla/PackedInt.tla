----------------------------- MODULE PackedInt -----------------------------
(***************************************************************************)
(* The packed integers of the name service protocol, as CoherenceResolver  *)
(* (session.ts) writes and reads them: the first byte holds a sign and six *)
(* bits, each byte after it seven, the lowest first; a byte of 128 or more *)
(* has another one after it.  Two readers read them: one from the socket,  *)
(* and one from a message, where it looks at two bytes only.               *)
(***************************************************************************)
EXTENDS Integers, Sequences

\* What the bit operations work on.
Int32 == {n \in Int : -2147483647 - 1 <= n /\ n <= 2147483647}

Continued(byte) == byte >= 128

\* The bit that says that rest is still to come.
Flag(rest) == IF rest > 0 THEN 128 ELSE 0

\* The bytes that hold what is left of n after the first one.
Rest[n \in Nat] ==
  IF n = 0 THEN <<>> ELSE <<(n % 128) + Flag(n \div 128)>> \o Rest[n \div 128]

\* The bytes that hold n after a first part b.
Groups(b, n) == <<b + Flag(n)>> \o Rest[n]

\* Mutant of WritePackedInt: seven bits go into the first byte.
WritePackedIntWide(n) ==
  IF n < 0 THEN Groups(((-n - 1) % 64) + 64, (-n - 1) \div 64) ELSE Groups(n % 128, n \div 128)

\* A negative number is written as its complement, with the sign set.
WritePackedInt(n) ==
  IF n < 0 THEN Groups(((-n - 1) % 64) + 64, (-n - 1) \div 64) ELSE Groups(n % 64, n \div 64)

Signed(first, magnitude) == IF (first \div 64) % 2 = 1 THEN -magnitude - 1 ELSE magnitude

Bytes == 0 .. 255

\* The number in the bytes after the first: each is read if the one before it says so.
Joined[bytes \in Seq(Bytes)] ==
  IF bytes = <<>> THEN 0
  ELSE (Head(bytes) % 128) + (IF Continued(Head(bytes)) THEN 128 * Joined[Tail(bytes)] ELSE 0)

\* From the socket.
ReadPackedInt(bytes) ==
  Signed(bytes[1], (bytes[1] % 64) + (IF Continued(bytes[1]) THEN 64 * Joined[Tail(bytes)] ELSE 0))

\* From a message: the byte after the first is read again for as long as it says
\* that another one follows.
Hangs(bytes) == Continued(bytes[1]) /\ Continued(bytes[2])

ReadPackedIntFromBuffer(bytes) ==
  Signed(bytes[1], (bytes[1] % 64) + (IF Continued(bytes[1]) THEN (bytes[2] % 128) * 64 ELSE 0))

============================================================================
