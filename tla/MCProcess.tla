------------------------------ MODULE MCProcess ------------------------------
(***************************************************************************)
(* Small instances of the components of Process.  The numbers stand for    *)
(* larger ones: an int of 3 bits, an OCaml int of 5 bits, limits of 3 bits *)
(* with an infinity that is 2^64 - 1 of 3 bits, buffers of 2, 4, 8 bytes   *)
(* for links of up to 5, bytes of two bits, so that a word has 16.         *)
(***************************************************************************)
EXTENDS Process

MCAmounts == {-1, 0, 1, 2, 3, 4, 8}

\* Empty, shorter than a type, and one byte longer than the largest; no two
\* neighbours are equal.
MCBuffers == {[i \in 0 .. n - 1 |-> (3 * i + 2) % 4] : n \in {0, 3, 9}}

\* The ends of the types, and numbers whose digits differ.
MCValues == {27, -100, 2 ^ 14 - 1, -(2 ^ 15)}

MCStrings == {[i \in 0 .. n - 1 |-> 1] : n \in {0, 3, 9}}

MCOffsets == {-1, 0, 1, 9}
=============================================================================
