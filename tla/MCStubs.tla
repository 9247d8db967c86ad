------------------------------- MODULE MCStubs -------------------------------
(***************************************************************************)
(* Instances of Stubs for TLC: two threads.  What the first waits for may  *)
(* never come.                                                             *)
(***************************************************************************)
EXTENDS Stubs

CONSTANTS t1, t2

\* The first thread calls every stub that may be left waiting, the second
\* the ones with the most to free, some that use heap addresses, and the
\* ones of eventfd, whose events come.
AllCalls == [t \in Threads |->
  IF t = t1 THEN Table \ EventfdStubs
            ELSE {caml_extunix_readlinkat, caml_extunix_mkdtemp, caml_extunix_poll,
                  caml_extunix_realpath, caml_extunix_fexecve, caml_extunix_sendmsg}
                 \cup EventfdStubs]

EventfdCalls == [t \in Threads |->
  IF t = t1 THEN {caml_extunix_eventfd_read} ELSE {caml_extunix_sendmsg}]
=============================================================================
