----------------------------- MODULE Readlinkat -----------------------------
(***************************************************************************)
(* readlinkat_malloc of atfile.c: the link is read with larger and larger  *)
(* buffers, outside of the runtime lock, while others replace it.  A       *)
(* target is modelled by its length and a number that tells targets of one *)
(* length apart.                                                           *)
(***************************************************************************)
EXTENDS Integers, FiniteSetsExt

CONSTANTS
  FirstSize,      \* size of the first buffer (100)
  PathMax,        \* the system's longest target
  MaxChanges      \* bound: how often the link is replaced

ASSUME ReadlinkatAssumption ==
  /\ FirstSize \in Nat \ {0} /\ PathMax \in Nat \ {0} /\ MaxChanges \in Nat

VARIABLES
  link,       \* target of the link
  changes,
  rpc,        \* "ocaml", "loop"
  size,       \* of the buffer
  rresult,    \* what was returned: a target of which nchars bytes are there
  seen        \* history: the targets the link has had during the call

readlinkatVars == <<link, changes, rpc, size, rresult, seen>>

-----------------------------------------------------------------------------
Target == [len : 1 .. PathMax, id : 0 .. MaxChanges]
NoLink == [target |-> [len |-> 0, id |-> 0], nchars |-> 0]

\* Somebody replaces the link.
Replace(n) ==
  /\ changes < MaxChanges
  /\ changes' = changes + 1
  /\ link' = [len |-> n, id |-> changes + 1]
  /\ seen' = IF rpc = "loop" THEN seen \cup {link'} ELSE seen
  /\ UNCHANGED <<rpc, size, rresult>>

caml_extunix_readlinkat ==
  /\ rpc = "ocaml" /\ rpc' = "loop"
  /\ size' = FirstSize
  /\ rresult' = NoLink /\ seen' = {link}
  /\ UNCHANGED <<link, changes>>

\* Mutant: a buffer that is just full is taken for a whole target.
Fits_full(n) == n <= size

Fits(n) == n < size

\* One round: readlinkat of the system gives as much as fits.
readlinkat_malloc ==
  LET nchars == Min({link.len, size}) IN
  /\ rpc = "loop"
  /\ IF Fits(nchars)
     THEN /\ rpc' = "ocaml" /\ rresult' = [target |-> link, nchars |-> nchars]
          /\ UNCHANGED size
     ELSE size' = 2 * size /\ UNCHANGED <<rpc, rresult>>
  /\ UNCHANGED <<link, changes, seen>>

\* There is no link any more, or no memory: NULL, and Unix_error.
readlinkat_fails ==
  /\ rpc = "loop" /\ rpc' = "ocaml"
  /\ UNCHANGED <<link, changes, size, rresult, seen>>

-----------------------------------------------------------------------------
ReadlinkatInit ==
  /\ link = [len |-> 1, id |-> 0] /\ changes = 0
  /\ rpc = "ocaml" /\ size = FirstSize
  /\ rresult = NoLink /\ seen = {}

ReadlinkatNext ==
  \/ \E n \in 1 .. PathMax : Replace(n)
  \/ caml_extunix_readlinkat \/ readlinkat_malloc \/ readlinkat_fails

-----------------------------------------------------------------------------
\* The result of readlinkat is a target that the link had during the call,
\* whole and with room for its terminator in the buffer, however often the
\* link was replaced between two rounds; and the buffer is never larger than
\* twice what the longest target needs, so that the loop ends.
LinkIsWhole ==
  /\ rresult # NoLink => /\ rresult.target \in seen
                         /\ rresult.nchars = rresult.target.len
                         /\ rresult.nchars < size
  /\ size <= Max({FirstSize, 2 * PathMax})
=============================================================================
