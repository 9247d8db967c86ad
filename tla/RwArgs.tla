------------------------------- MODULE RwArgs -------------------------------
(***************************************************************************)
(* The argument checks which the OCaml wrappers of src/src/extUnix.pp.ml   *)
(* make before they enter a C stub of the pread/pwrite/read/write family.  *)
(* OCaml integers wrap around silently, so the checks are stated in the    *)
(* machine arithmetic the compiled code uses.                              *)
(***************************************************************************)
EXTENDS Integers

CONSTANT max_int    \* OCaml's max_int (2^62 - 1 on 64-bit platforms)

ASSUME MaxIntAssumption == max_int \in Nat

min_int  == -max_int - 1
OCamlInt == min_int .. max_int

(***************************************************************************)
(* The result of one addition or subtraction of OCaml integers: the exact  *)
(* sum brought back into OCamlInt (it is off by at most one period).       *)
(***************************************************************************)
Wrap(x) == IF x > max_int THEN x - (2 * max_int + 2)
           ELSE IF x < min_int THEN x + (2 * max_int + 2)
           ELSE x

Minus(a, b) == Wrap(a - b)

(***************************************************************************)
(* "invalid_arg" conditions.  length is Bytes.length or String.length of   *)
(* the buffer, off the file offset, [ofs, ofs + len) the window.           *)
(***************************************************************************)
\* Mutant: the check written as a sum, which wraps.
SumRejects(ofs, len, length) ==
    ofs < 0 \/ len < 0 \/ Wrap(ofs + len) > length

\* read, write: {all_,single_,,intr_}{read,write}
StreamRejects(ofs, len, length) ==
    ofs < 0 \/ len < 0 \/ ofs > Minus(length, len)

\* pread, pwrite: {all_,single_,,intr_}{pread,pwrite}
PositionalRejects(off, ofs, len, length) ==
    off < 0 \/ ofs < 0 \/ len < 0 \/ ofs > Minus(length, len)

\* LargeFile.{pread,pwrite} and LargeFile.BA.{pread,pwrite} look at off only.
LargeFileRejects(off) == off < 0

\* BA.{pread,pwrite}: the whole bigarray is the window, off is checked.
BAPositionalRejects(off) == off < 0

\* BA.{read,write} are externals without a wrapper.
BAStreamRejects == FALSE

=============================================================================
