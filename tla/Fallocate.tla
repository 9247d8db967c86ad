------------------------------ MODULE Fallocate ------------------------------
(***************************************************************************)
(* caml_fallocate_do of fallocate.c, the version for Windows: a thread     *)
(* extends a file by moving its pointer.  Other threads write through the  *)
(* same handle (Unix.write gives up the runtime lock), others through      *)
(* handles of their own.                                                   *)
(***************************************************************************)
EXTENDS Integers, FiniteSetsExt

CONSTANTS
  MaxInt64,      \* largest file size and offset (2^63 - 1)
  MaxWrites      \* bound: number of bytes the others write

ASSUME FallocateAssumption == MaxInt64 \in Nat /\ MaxWrites \in Nat

VARIABLES
  fsize, fptr,     \* size of the file, position of the handle
  writes,          \* bytes the others have written
  fpc,             \* where the thread is
  off, len, i64Cur,
  foutcome,        \* "none", "ok" or "raised"
  before,          \* history: [size, ptr] when the call began
  others           \* history: who has used the file since then

fallocateVars == <<fsize, fptr, writes, fpc, off, len, i64Cur, foutcome, before, others>>

-----------------------------------------------------------------------------
Int64   == -MaxInt64 - 1 .. MaxInt64
Modulus == 2 * (MaxInt64 + 1)

\* off + len as an __int64
Sum(a, b) == IF a + b > MaxInt64 THEN a + b - Modulus
             ELSE IF a + b < -MaxInt64 - 1 THEN a + b + Modulus
             ELSE a + b

Step(from, to) == fpc = from /\ fpc' = to

Returns(r) == foutcome' = r
Goes       == UNCHANGED foutcome

caml_fallocate_do(o, n) ==
  /\ Step("ocaml", "check")
  /\ off' = o /\ len' = n
  /\ before' = [size |-> fsize, ptr |-> fptr] /\ others' = {}
  /\ Returns("none")
  /\ UNCHANGED <<fsize, fptr, writes, i64Cur>>

\* Mutant: the offset alone is compared with the size.
GetFileSizeEx_off ==
  /\ \/ off <= fsize /\ Step("check", "ocaml") /\ Returns("ok")
     \/ off > fsize /\ Step("check", "current") /\ Goes
  /\ UNCHANGED <<fsize, fptr, writes, off, len, i64Cur, before, others>>

GetFileSizeEx ==
  /\ \/ Sum(off, len) <= fsize /\ Step("check", "ocaml") /\ Returns("ok")
     \/ Sum(off, len) > fsize /\ Step("check", "current") /\ Goes
  /\ UNCHANGED <<fsize, fptr, writes, off, len, i64Cur, before, others>>

\* caml_fallocate_lseek(hFile, 0, FILE_CURRENT)
lseek_current ==
  /\ Step("current", "begin") /\ Goes
  /\ i64Cur' = fptr
  /\ UNCHANGED <<fsize, fptr, writes, off, len, before, others>>

\* A position before the start of the file is an error.
lseek_off ==
  /\ Step("begin", "end") /\ Goes
  /\ off >= 0
  /\ fptr' = off
  /\ UNCHANGED <<fsize, writes, off, len, i64Cur, before, others>>

\* FILE_CURRENT: len is added to where the pointer is now.
lseek_len ==
  /\ Step("end", "extend") /\ Goes
  /\ fptr + len \in 0 .. MaxInt64
  /\ fptr' = fptr + len
  /\ UNCHANGED <<fsize, writes, off, len, i64Cur, before, others>>

SetEndOfFile ==
  /\ Step("extend", "restore") /\ Goes
  /\ fsize' = fptr
  /\ UNCHANGED <<fptr, writes, off, len, i64Cur, before, others>>

lseek_restore ==
  /\ Step("restore", "ocaml") /\ Returns("ok")
  /\ fptr' = i64Cur
  /\ UNCHANGED <<fsize, writes, off, len, i64Cur, before, others>>

\* One of the calls fails, caml_fallocate_error raises: nothing is restored.
caml_fallocate_error ==
  /\ fpc # "ocaml"
  /\ fpc' = "ocaml" /\ Returns("raised")
  /\ UNCHANGED <<fsize, fptr, writes, off, len, i64Cur, before, others>>

\* Another thread writes one byte through the handle.
WriteHandle ==
  /\ writes < MaxWrites /\ fptr < MaxInt64
  /\ writes' = writes + 1
  /\ fptr' = fptr + 1 /\ fsize' = Max({fsize, fptr + 1})
  /\ others' = others \cup {"handle"}
  /\ UNCHANGED <<fpc, off, len, i64Cur, foutcome, before>>

\* Somebody appends one byte through a handle of his own.
WriteFile ==
  /\ writes < MaxWrites /\ fsize < MaxInt64
  /\ writes' = writes + 1
  /\ fsize' = fsize + 1
  /\ others' = others \cup {"file"}
  /\ UNCHANGED <<fptr, fpc, off, len, i64Cur, foutcome, before>>

-----------------------------------------------------------------------------
FallocateInit ==
  /\ fsize = 0 /\ fptr = 0 /\ writes = 0
  /\ fpc = "ocaml" /\ off = 0 /\ len = 0 /\ i64Cur = 0
  /\ foutcome = "none" /\ before = [size |-> 0, ptr |-> 0] /\ others = {}

FallocateNext ==
  \/ \E o, n \in Int64 : caml_fallocate_do(o, n)
  \/ GetFileSizeEx \/ lseek_current \/ lseek_off \/ lseek_len
  \/ SetEndOfFile \/ lseek_restore \/ caml_fallocate_error
  \/ WriteHandle \/ WriteFile

-----------------------------------------------------------------------------
\* Whatever others do meanwhile, the file is never shorter than at the start of
\* the call (what they append during the call may be cut off).  When the call
\* succeeds, a write through the handle goes where it would have gone unless
\* another thread used the handle, and the file reaches to off + len if nobody
\* else wrote (an off + len behind the largest file is a success all the same).
FallocateKeeps ==
  /\ fsize >= before.size
  /\ foutcome = "ok" /\ "handle" \notin others => fptr = before.ptr
  /\ foutcome = "ok" /\ others = {} /\ off + len <= MaxInt64 =>
       fsize = Max({before.size, off + len})
=============================================================================
