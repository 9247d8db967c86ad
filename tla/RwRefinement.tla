---------------------------- MODULE RwRefinement ----------------------------
(***************************************************************************)
(* The transfer loops implement the documented contract.                   *)
(***************************************************************************)
EXTENDS RwLoop

Phase(t) == CASE pc[t] = "ocaml" -> "idle"
              [] pc[t] \in {"loop", "syscall"} -> "busy"
              [] pc[t] = "leave" -> "answered"

Outcome(t) == IF pc[t] # "leave" THEN "none"
              ELSE IF ret[t] > 0 THEN "data"
              ELSE IF ret[t] = 0 THEN "end"
              ELSE errno[t]

Contract == INSTANCE RwContract WITH
  phase   <- [t \in Threads |-> Phase(t)],
  call    <- [t \in Threads |-> [variant |-> req[t].variant,
                                 reads   |-> IsRead(req[t]),
                                 want    |-> WinLen(t, req[t])]],
  got     <- moved,
  outcome <- [t \in Threads |-> Outcome(t)],
  res     <- result

\* Every behaviour of the loops, with chunking through iobuf, the released
\* lock, partial transfers and errors in any order, is one the comments of
\* extUnix.pp.ml allow for the variant that was called.  It holds where no
\* all_ write is answered with 0 bytes: see NeverZero.
ImplementsContract == Contract!CSpec

\* extUnix.pp.ml says of all_write and all_pwrite that they are short "on
\* EAGAIN, EWOULDBLOCK but never 0".  The loops leave on ret == 0 as if it
\* were the end of a file, and return what they have, which may be nothing.
NeverZero == \A t \in Threads :
  /\ pc[t] = "ocaml" /\ result[t].kind = "ok"
  /\ ~IsRead(req[t]) /\ req[t].variant = "all" /\ WinLen(t, req[t]) > 0
  => result[t].n > 0
=============================================================================
