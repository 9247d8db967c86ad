-------------------------------- MODULE Wait4 --------------------------------
(***************************************************************************)
(* wait4.c: the status word of the system and its meaning in OCaml.        *)
(* Children stop, go on and end while the stub is in the system and after  *)
(* its answer.  A status word is exit code * 256, the number of a signal   *)
(* that killed (+ 128 with a core), or signal * 256 + 127 for a stop.      *)
(***************************************************************************)
EXTENDS Integers

CONSTANTS
  Pids,         \* children
  ExitCodes, KillSignals, StopSignals,     \* what may happen to them
  JunkWords     \* values of an uninitialised word

ASSUME Wait4Assumption ==
  /\ Pids \subseteq Nat \ {0}
  /\ ExitCodes \subseteq 0 .. 255
  /\ KillSignals \subseteq 1 .. 126 /\ StopSignals \subseteq 1 .. 126
  /\ JunkWords \subseteq Int

VARIABLES
  child,      \* child[p]: "running", "reaped", or an event that waits to be reported
  wpc,        \* the caller: "ocaml", in the "wait", "back" from it
  wflags, wpid, wstatus,     \* options, answer and status word of the call
  wresult,    \* what the last call returned: [pid, status], "raised" or "none"
  fate        \* history: the event the system reported to that call

wait4Vars == <<child, wpc, wflags, wpid, wstatus, wresult, fate>>

-----------------------------------------------------------------------------
Exited(c)   == [kind |-> "exited", n |-> c]
Signaled(s) == [kind |-> "signaled", n |-> s]
Stopped(s)  == [kind |-> "stopped", n |-> s]
Running     == [kind |-> "running", n |-> 0]
Reaped      == [kind |-> "reaped", n |-> 0]

Ends == {Exited(c) : c \in ExitCodes} \cup {Signaled(s) : s \in KillSignals}
Events == Ends \cup {Stopped(s) : s \in StopSignals}

\* The words of the system for an event: a signal may leave a core.
Words(e) == CASE e.kind = "exited"   -> {e.n * 256}
              [] e.kind = "signaled" -> {e.n, e.n + 128}
              [] e.kind = "stopped"  -> {e.n * 256 + 127}

\* sys/wait.h
WIFEXITED(w)   == w % 128 = 0
WEXITSTATUS(w) == (w \div 256) % 256
WIFSTOPPED(w)  == w % 256 = 127
WSTOPSIG(w)    == (w \div 256) % 256
WTERMSIG(w)    == w % 128

\* OCaml has numbers of its own for some signals (here SIGKILL, SIGSEGV,
\* SIGSTOP), the others keep theirs.
caml_rev_convert_signal_number(s) ==
  CASE s = 9 -> -7 [] s = 11 -> -10 [] s = 19 -> -16 [] OTHER -> s

\* Mutant: without status = 0 when there is no child to report.
alloc_wait4_return_junk(pid, word) ==
  [pid |-> pid, status |->
     CASE WIFEXITED(word)  -> [tag |-> "WEXITED", n |-> WEXITSTATUS(word)]
       [] ~WIFEXITED(word) /\ WIFSTOPPED(word) ->
            [tag |-> "WSTOPPED", n |-> caml_rev_convert_signal_number(WSTOPSIG(word))]
       [] OTHER -> [tag |-> "WSIGNALED", n |-> caml_rev_convert_signal_number(WTERMSIG(word))]]

\* Not modelled: the usage, which is not filled in when pid is 0.
alloc_wait4_return(pid, word) ==
  LET status == IF pid = 0 THEN 0 ELSE word IN
  [pid |-> pid, status |->
     CASE WIFEXITED(status)  -> [tag |-> "WEXITED", n |-> WEXITSTATUS(status)]
       [] ~WIFEXITED(status) /\ WIFSTOPPED(status) ->
            [tag |-> "WSTOPPED", n |-> caml_rev_convert_signal_number(WSTOPSIG(status))]
       [] OTHER -> [tag |-> "WSIGNALED", n |-> caml_rev_convert_signal_number(WTERMSIG(status))]]

-----------------------------------------------------------------------------
NoResult == [pid |-> -1, status |-> [tag |-> "none", n |-> 0]]

\* The child ends, stops, or is continued.
ChildChanges(p, e) ==
  /\ child[p].kind \in {"running", "stopped"}
  /\ e \in Events \cup {Running} /\ e # child[p]
  /\ child' = [child EXCEPT ![p] = e]
  /\ UNCHANGED <<wpc, wflags, wpid, wstatus, wresult, fate>>

\* caml_extunix_wait4 up to the system call: wstatus is not initialised.
caml_extunix_wait4(flags, word) ==
  /\ wpc = "ocaml"
  /\ wpc' = "wait" /\ wflags' = flags /\ wstatus' = word
  /\ wpid' = 0 /\ wresult' = NoResult /\ fate' = Running
  /\ UNCHANGED child

Ready(p) == \/ child[p] \in Ends
            \/ child[p].kind = "stopped" /\ "WUNTRACED" \in wflags

\* wait4 of the system for any child: it reports an event once.
KernelReports(p, word) ==
  /\ wpc = "wait" /\ Ready(p) /\ word \in Words(child[p])
  /\ wpc' = "back" /\ wpid' = p /\ wstatus' = word /\ fate' = child[p]
  /\ child' = [child EXCEPT ![p] = IF @ \in Ends THEN Reaped ELSE Running]
  /\ UNCHANGED <<wflags, wresult>>

KernelNothing ==
  /\ wpc = "wait" /\ "WNOHANG" \in wflags
  /\ \A p \in Pids : ~Ready(p)
  /\ \E p \in Pids : child[p] # Reaped
  /\ wpc' = "back"
  /\ UNCHANGED <<child, wflags, wpid, wstatus, wresult, fate>>

\* ECHILD, or EINTR
KernelWaitFails ==
  /\ wpc = "wait"
  /\ wpc' = "back" /\ wpid' = -1
  /\ UNCHANGED <<child, wflags, wstatus, wresult, fate>>

wait4_return ==
  /\ wpc = "back" /\ wpc' = "ocaml"
  /\ wresult' = IF wpid = -1 THEN NoResult ELSE alloc_wait4_return(wpid, wstatus)
  /\ UNCHANGED <<child, wflags, wpid, wstatus, fate>>

-----------------------------------------------------------------------------
Wait4Init ==
  /\ child = [p \in Pids |-> Running]
  /\ wpc = "ocaml" /\ wflags = {} /\ wpid = 0 /\ wstatus = 0
  /\ wresult = NoResult /\ fate = Running

Wait4Next ==
  \/ \E p \in Pids, e \in Events \cup {Running} : ChildChanges(p, e)
  \/ \E flags \in SUBSET {"WNOHANG", "WUNTRACED"}, word \in JunkWords :
       caml_extunix_wait4(flags, word)
  \/ \E p \in Pids : \E word \in UNION {Words(e) : e \in Events} : KernelReports(p, word)
  \/ KernelNothing \/ KernelWaitFails \/ wait4_return

-----------------------------------------------------------------------------
\* The status wait4 returns is what happened to the child it names: the exit
\* code, or the signal with OCaml's number, whether there is a core or not,
\* and a stop only when it was asked for.  Without a child to report (pid 0,
\* with WNOHANG only) it is WEXITED 0, whatever the word on the stack was.
WaitTellsTruth ==
  /\ wresult.pid = 0 => /\ "WNOHANG" \in wflags
                        /\ wresult.status = [tag |-> "WEXITED", n |-> 0]
  /\ wresult.pid > 0 =>
       wresult.status =
         CASE fate.kind = "exited"   -> [tag |-> "WEXITED", n |-> fate.n]
           [] fate.kind = "signaled" -> [tag |-> "WSIGNALED",
                                         n |-> caml_rev_convert_signal_number(fate.n)]
           [] fate.kind = "stopped"  -> [tag |-> "WSTOPPED",
                                         n |-> caml_rev_convert_signal_number(fate.n)]
  /\ wresult.status.tag = "WSTOPPED" => "WUNTRACED" \in wflags
=============================================================================
