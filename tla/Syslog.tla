------------------------------- MODULE Syslog -------------------------------
(***************************************************************************)
(* src/src/syslog.c: openlog, closelog, syslog and setlogmask, called by   *)
(* OCaml threads, and the state of the C library they share.               *)
(*                                                                         *)
(* The C library keeps the pointer it is given by openlog (LogTag here:    *)
(* tag) and reads it in every later syslog, so caml_extunix_openlog keeps  *)
(* a copy of the string in the static variable ident.  syslog and          *)
(* setlogmask run without the runtime lock, openlog and closelog with it;  *)
(* the C library serialises all four with a lock of its own.               *)
(***************************************************************************)
EXTENDS Integers, Sequences

CONSTANTS
  Threads, NoThread,
  Idents,      \* strings given to openlog
  None,        \* openlog without ident
  Reopen,      \* do callers open the log again without closing it?
  MaskArgs,    \* arguments of setlogmask: lists of levels
  LogLevels,   \* levels of messages
  MaxOpens,    \* bound: number of openlog calls
  MaxCalls     \* bound: calls of each thread

ASSUME SyslogAssumption ==
  /\ NoThread \notin Threads
  /\ None \notin Idents
  /\ Reopen \in BOOLEAN
  /\ MaskArgs \subseteq Seq(0 .. 7)
  /\ LogLevels \subseteq 0 .. 7
  /\ MaxOpens \in Nat /\ MaxCalls \in Nat

Null   == 0                   \* the null pointer
Closed == "closed"
Copies == 1 .. MaxOpens       \* the strings openlog allocates

VARIABLES
  lock, pc, calls,  \* the runtime lock and the threads
  ident,       \* the static variable: a copy, or Null
  copies,      \* copies[c]: how often the memory of copy c is allocated
  text,        \* text[c]: the string in copy c
  opens,       \* number of copies made so far
  tag,         \* LogTag of the C library: a copy, or Null (program name)
  libc,        \* holder of the C library's lock, or NoThread
  mask,        \* LogMask of the C library
  level, request, old, answer,  \* locals of syslog and setlogmask
  asked,       \* history: the ident openlog was called with
  opened       \* history: ident of the openlog in force, or Closed

locals == <<level, request, old, answer>>
history == <<asked, opened>>
vars   == <<lock, pc, calls, ident, copies, text, opens, tag, libc, mask, locals, history>>

-----------------------------------------------------------------------------
(* Levels.  The constructor LOG_EMERG is number 0, LOG_DEBUG number 7, and *)
(* mask_table[i] is the bit of level i: a mask is a set of levels.         *)

Descending == <<7, 6, 5, 4, 3, 2, 1, 0>>

\* The suffix of the list that starts at lvl.
log_upto(lvl) == SubSeq(Descending, 8 - lvl, 8)

\* caml_convert_flag_list(v_level, mask_table)
EncodeMask(list) == {list[i] : i \in DOMAIN list}

\* The loop over mask_table puts level 0 first into the list: after n rounds
\* the levels of the mask below n are there, the highest in front.
Listed(m, list, i) == IF i - 1 \in m THEN <<i - 1>> \o list[i - 1] ELSE list[i - 1]

\* Mutant: the loop stops one entry early.
DecodeMaskShort(m) ==
  LET list[i \in 0 .. 7] == IF i = 0 THEN <<>> ELSE Listed(m, list, i) IN list[7]

DecodeMask(m) ==
  LET list[i \in 0 .. 8] == IF i = 0 THEN <<>> ELSE Listed(m, list, i) IN list[8]

-----------------------------------------------------------------------------
Calling(t) ==
  /\ pc[t] = "ocaml" /\ lock = t /\ calls[t] < MaxCalls
  /\ calls' = [calls EXCEPT ![t] = @ + 1]

Acquire(t) ==
  /\ pc[t] = "ocaml" /\ lock = NoThread
  /\ lock' = t
  /\ UNCHANGED <<pc, calls, ident, copies, text, opens, tag, libc, mask, locals, history>>

Yield(t) ==
  /\ pc[t] = "ocaml" /\ lock = t
  /\ lock' = NoThread
  /\ UNCHANGED <<pc, calls, ident, copies, text, opens, tag, libc, mask, locals, history>>

FreeIdent == IF ident = Null THEN copies ELSE [copies EXCEPT ![ident] = @ - 1]

\* Mutant: ident keeps its value when the copy raises Out_of_memory.
openlog_no_reset(t, id) ==
  /\ Calling(t) /\ opens < MaxOpens
  /\ Reopen \/ opened = Closed
  /\ asked' = [asked EXCEPT ![t] = id]
  /\ \/ /\ id # None
        /\ copies' = FreeIdent
        /\ UNCHANGED <<pc, ident, text, opens>>
     \/ /\ IF id = None
           THEN /\ ident' = Null /\ copies' = FreeIdent
                /\ UNCHANGED <<text, opens>>
           ELSE /\ opens'  = opens + 1
                /\ ident'  = opens'
                /\ copies' = [FreeIdent EXCEPT ![opens'] = 1]
                /\ text'   = [text EXCEPT ![opens'] = id]
        /\ pc' = [pc EXCEPT ![t] = "openlog"]
  /\ UNCHANGED <<lock, tag, libc, mask, locals, opened>>

\* Mutant: the new ident is not kept in the static variable.
openlog_no_static(t, id) ==
  /\ Calling(t) /\ opens < MaxOpens
  /\ Reopen \/ opened = Closed
  /\ asked' = [asked EXCEPT ![t] = id]
  /\ ident' = Null /\ copies' = FreeIdent
  /\ pc' = [pc EXCEPT ![t] = "openlog"]
  /\ UNCHANGED <<lock, text, opens, tag, libc, mask, locals, opened>>

(***************************************************************************)
(* caml_extunix_openlog up to its call of openlog: the old copy is freed   *)
(* and forgotten, then the new one is made, which may raise Out_of_memory. *)
(***************************************************************************)
caml_extunix_openlog(t, id) ==
  /\ Calling(t) /\ opens < MaxOpens
  /\ Reopen \/ opened = Closed
  /\ asked' = [asked EXCEPT ![t] = id]
  /\ \/ /\ id # None
        /\ copies' = FreeIdent /\ ident' = Null
        /\ UNCHANGED <<pc, text, opens>>
     \/ /\ IF id = None
           THEN /\ ident' = Null /\ copies' = FreeIdent
                /\ UNCHANGED <<text, opens>>
           ELSE /\ opens'  = opens + 1
                /\ ident'  = opens'
                /\ copies' = [FreeIdent EXCEPT ![opens'] = 1]
                /\ text'   = [text EXCEPT ![opens'] = id]
        /\ pc' = [pc EXCEPT ![t] = "openlog"]
  /\ UNCHANGED <<lock, tag, libc, mask, locals, opened>>

\* openlog of the C library: a null ident leaves the tag alone.
libc_openlog(t) ==
  /\ pc[t] = "openlog" /\ libc = NoThread
  /\ tag'    = IF ident = Null THEN tag ELSE ident
  /\ opened' = asked[t]
  /\ pc'     = [pc EXCEPT ![t] = "ocaml"]
  /\ UNCHANGED <<lock, calls, ident, copies, text, opens, libc, mask, locals, asked>>

\* Mutant: the copy is freed before the C library is told.
closelog_frees(t) ==
  /\ Calling(t)
  /\ copies' = FreeIdent /\ ident' = Null
  /\ pc'  = [pc EXCEPT ![t] = "closelog"]
  /\ UNCHANGED <<lock, text, opens, tag, libc, mask, locals, history>>

caml_extunix_closelog(t) ==
  /\ Calling(t)
  /\ pc'  = [pc EXCEPT ![t] = "closelog"]
  /\ UNCHANGED <<lock, ident, copies, text, opens, tag, libc, mask, locals, history>>

\* closelog of the C library forgets the tag.
libc_closelog(t) ==
  /\ pc[t] = "closelog" /\ libc = NoThread
  /\ tag' = Null /\ opened' = Closed
  /\ pc'  = [pc EXCEPT ![t] = "ocaml"]
  /\ UNCHANGED <<lock, calls, ident, copies, text, opens, libc, mask, locals, asked>>

(***************************************************************************)
(* caml_extunix_syslog: the call is made without the runtime lock.         *)
(***************************************************************************)
caml_extunix_syslog(t, l) ==
  /\ Calling(t)
  /\ level' = [level EXCEPT ![t] = l]
  /\ lock'  = NoThread
  /\ pc'    = [pc EXCEPT ![t] = "syslog"]
  /\ UNCHANGED <<ident, copies, text, opens, tag, libc, mask, request, old, answer, history>>

\* syslog of the C library: a masked level is dropped; otherwise the message
\* is put together from the tag and sent while the lock is held.
libc_syslog_begin(t) ==
  /\ pc[t] = "syslog" /\ libc = NoThread
  /\ IF level[t] \in mask
     THEN libc' = t /\ pc' = [pc EXCEPT ![t] = "logging"]
     ELSE pc' = [pc EXCEPT ![t] = "syslog_return"] /\ UNCHANGED libc
  /\ UNCHANGED <<lock, calls, ident, copies, text, opens, tag, mask, locals, history>>

libc_syslog_end(t) ==
  /\ pc[t] = "logging"
  /\ libc' = NoThread
  /\ pc'   = [pc EXCEPT ![t] = "syslog_return"]
  /\ UNCHANGED <<lock, calls, ident, copies, text, opens, tag, mask, locals, history>>

\* caml_leave_blocking_section to the end of the stub
syslog_return(t) ==
  /\ pc[t] = "syslog_return" /\ lock = NoThread
  /\ lock' = t
  /\ pc'   = [pc EXCEPT ![t] = "ocaml"]
  /\ UNCHANGED <<calls, ident, copies, text, opens, tag, libc, mask, locals, history>>

(***************************************************************************)
(* caml_extunix_setlogmask.                                                *)
(***************************************************************************)
caml_extunix_setlogmask(t, list) ==
  /\ Calling(t)
  /\ request' = [request EXCEPT ![t] = EncodeMask(list)]
  /\ lock'    = NoThread
  /\ pc'      = [pc EXCEPT ![t] = "setlogmask"]
  /\ UNCHANGED <<ident, copies, text, opens, tag, libc, mask, level, old, answer, history>>

\* setlogmask of the C library: the empty mask asks and changes nothing.
libc_setlogmask(t) ==
  /\ pc[t] = "setlogmask" /\ libc = NoThread
  /\ old'  = [old EXCEPT ![t] = mask]
  /\ mask' = IF request[t] = {} THEN mask ELSE request[t]
  /\ pc'   = [pc EXCEPT ![t] = "setlogmask_return"]
  /\ UNCHANGED <<lock, calls, ident, copies, text, opens, tag, libc, level, request, answer, history>>

setlogmask_return(t) ==
  /\ pc[t] = "setlogmask_return" /\ lock = NoThread
  /\ lock'   = t
  /\ answer' = [answer EXCEPT ![t] = DecodeMask(old[t])]
  /\ pc'     = [pc EXCEPT ![t] = "ocaml"]
  /\ UNCHANGED <<calls, ident, copies, text, opens, tag, libc, mask, level, request, old, history>>

-----------------------------------------------------------------------------
Init ==
  /\ lock = NoThread
  /\ pc = [t \in Threads |-> "ocaml"]
  /\ calls = [t \in Threads |-> 0]
  /\ ident = Null
  /\ copies = [c \in Copies |-> 0]
  /\ text = [c \in Copies |-> None]
  /\ opens = 0
  /\ tag = Null
  /\ libc = NoThread
  /\ mask = 0 .. 7
  /\ level = [t \in Threads |-> 0]
  /\ request = [t \in Threads |-> {}]
  /\ old = [t \in Threads |-> 0 .. 7]
  /\ answer = [t \in Threads |-> Descending]
  /\ asked = [t \in Threads |-> None]
  /\ opened = Closed

Libc(t) ==
  \/ libc_openlog(t) \/ libc_closelog(t) \/ libc_setlogmask(t)
  \/ libc_syslog_begin(t) \/ libc_syslog_end(t)

Next == \E t \in Threads :
  \/ Acquire(t) \/ Yield(t)
  \/ \E id \in Idents \cup {None} : caml_extunix_openlog(t, id)
  \/ caml_extunix_closelog(t)
  \/ \E l \in LogLevels : caml_extunix_syslog(t, l)
  \/ \E list \in MaskArgs : caml_extunix_setlogmask(t, list)
  \/ Libc(t)
  \/ syslog_return(t) \/ setlogmask_return(t)

Spec == Init /\ [][Next]_vars
-----------------------------------------------------------------------------
Pcs == {"ocaml", "openlog", "closelog", "syslog", "logging", "syslog_return",
        "setlogmask", "setlogmask_return"}

\* Type invariant.  A copy of an ident is allocated or it is not: a count of
\* -1 would be a copy freed twice, by two calls of openlog.
TypeOK ==
  /\ lock \in Threads \cup {NoThread}
  /\ pc \in [Threads -> Pcs]
  /\ calls \in [Threads -> 0 .. MaxCalls]
  /\ ident \in {Null} \cup Copies
  /\ copies \in [Copies -> 0 .. 1]
  /\ text \in [Copies -> Idents \cup {None}]
  /\ opens \in 0 .. MaxOpens
  /\ tag \in {Null} \cup Copies
  /\ libc \in Threads \cup {NoThread}
  /\ mask \in SUBSET (0 .. 7)
  /\ level \in [Threads -> 0 .. 7]
  /\ request \in [Threads -> SUBSET (0 .. 7)]
  /\ old \in [Threads -> SUBSET (0 .. 7)]
  /\ asked \in [Threads -> Idents \cup {None}]
  /\ opened \in Idents \cup {None, Closed}

\* While a thread is inside the C library's syslog, the string its tag
\* points to is allocated, whatever other threads do with openlog and
\* closelog in the meantime.
TagAlive == \A t \in Threads : pc[t] = "logging" => tag = Null \/ copies[tag] = 1

\* A message carries the ident of the openlog in force: the last one, unless
\* the log was closed since, or had no ident.
TagIsCurrent == \A t \in Threads : pc[t] = "logging" =>
  IF opened \in {None, Closed} THEN tag = Null
  ELSE tag # Null /\ text[tag] = opened

\* The list setlogmask returns stands for the mask that was in force before:
\* setting it again restores the mask.
MaskRestorable == \A t \in Threads :
  pc[t] = "ocaml" => EncodeMask(answer[t]) = old[t]
-----------------------------------------------------------------------------
(***************************************************************************)
(* The invariant behind TagAlive and TagIsCurrent for callers that close   *)
(* the log before they open it again: the tag of the C library is the copy *)
(* in the static variable or nothing, and it is nothing while openlog      *)
(* replaces that copy.                                                     *)
(***************************************************************************)
Opening(t) == pc[t] = "openlog" =>
  /\ opened = Closed
  /\ ident = Null => asked[t] = None
  /\ ident # Null => text[ident] = asked[t]

TagInv ==
  /\ TypeOK
  /\ \A t \in Threads : pc[t] \in {"openlog", "closelog"} => lock = t
  /\ \A t \in Threads : Opening(t)
  /\ ident # Null => copies[ident] = 1 /\ text[ident] # None
  /\ tag # Null => tag = ident /\ text[tag] = opened
  /\ tag = Null => opened \in {None, Closed}
  /\ opened = Closed => tag = Null
=============================================================================
