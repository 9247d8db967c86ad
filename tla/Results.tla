------------------------------ MODULE Results ------------------------------
(***************************************************************************)
(* Stubs that make one call and turn its answer into a result.  The C      *)
(* functions say that they failed in different ways, and errno keeps what  *)
(* earlier calls of the thread left there: each stub is a record of the    *)
(* convention of the function it calls (external) and of what it does with *)
(* the answer.                                                             *)
(*                                                                         *)
(*   conv     convention of the function, see Answers                      *)
(*   resets   the stub sets errno to 0 before the call                     *)
(*   test     when the stub takes the answer for a failure                 *)
(*   raises   the error it raises then: "errno", the answer ("ret"), or a  *)
(*            fixed one                                                    *)
(*   special  errors with a result of their own                            *)
(*   gives    "ret": the answer is the result, "unit": there is none       *)
(*   early    results without a call                                       *)
(***************************************************************************)
EXTENDS Integers, FiniteSets

VARIABLES
  errno,      \* of the thread
  called,     \* the stub of the last call
  said,       \* what the system meant by its answer
  result      \* what the OCaml program got

resultsVars == <<errno, called, said, result>>

-----------------------------------------------------------------------------
EINTR       == 4
EBADF       == 9
EINVAL      == 22
ENOPROTOOPT == 92
Errors      == {EINTR, EBADF, EINVAL, ENOPROTOOPT}

Value(v) == <<"value", v>>
Error(e) == <<"error", e>>
NoLimit  == <<"no_limit", 0>>
Nothing  == <<"nothing", 0>>
NotAvailable == <<"Not_available", 0>>

Call(name, conv, test) ==
  [name |-> name, conv |-> conv, resets |-> FALSE, test |-> test, raises |-> "errno",
   special |-> [e \in {} |-> Nothing], gives |-> "out", early |-> {}]

Unit(name, test) == [Call(name, "status", test) EXCEPT !.gives = "unit"]

\* posix_* functions return the error and do not set errno.
Code(name) == [Call(name, "code", "nonzero") EXCEPT !.raises = "ret", !.gives = "unit"]

-----------------------------------------------------------------------------
(* unistd.c, pts.c, tty_ioctl.c *)

caml_extunix_ttyname   == Call("ttyname", "pointer", "null")
caml_extunix_ctermid   == Call("ctermid", "sure", "never")
caml_extunix_gettid    == Call("gettid", "sure", "never")
caml_extunix_setpgid   == Unit("setpgid", "nonzero")
caml_extunix_getpgid   == Call("getpgid", "value", "negative")
caml_extunix_getsid    == Call("getsid", "value", "negative")
caml_extunix_setreuid  == Unit("setreuid", "negative")
caml_extunix_setregid  == Unit("setregid", "negative")
caml_extunix_setresuid == Unit("setresuid", "nonzero")
caml_extunix_setresgid == Unit("setresgid", "minus_one")
caml_extunix_tcgetpgrp == Call("tcgetpgrp", "value", "minus_one")
caml_extunix_tcsetpgrp == Unit("tcsetpgrp", "minus_one")

caml_extunix_is_open_descr ==
  [Call("is_open_descr", "value", "minus_one") EXCEPT
     !.special = [e \in {EBADF} |-> Value(0)], !.gives = "true"]

caml_extunix_posix_openpt == Call("posix_openpt", "value", "minus_one")
caml_extunix_grantpt      == Unit("grantpt", "minus_one")
caml_extunix_unlockpt     == Unit("unlockpt", "minus_one")
caml_extunix_ptsname      == Call("ptsname", "pointer", "null")

\* tcgetattr, and tcsetattr if that succeeded
caml_extunix_crtscts          == Unit("crtscts", "nonzero")
caml_extunix_ioctl_TIOCGWINSZ == Call("TIOCGWINSZ", "status", "negative")
caml_extunix_ioctl_TIOCMGET   == Call("TIOCMGET", "status", "negative")
TTY_IOCTL_INT                 == Unit("TTY_IOCTL_INT", "negative")

-----------------------------------------------------------------------------
(* resource.c, ptrace.c, sysconf.c: -1 is an answer, too *)

\* Mutant: without errno = 0.
getpriority_stale == Call("getpriority", "signed", "minus_one_errno")

caml_extunix_getpriority ==
  [Call("getpriority", "signed", "minus_one_errno") EXCEPT !.resets = TRUE]

caml_extunix_setpriority == Unit("setpriority", "nonzero")

caml_extunix_ptrace_traceme  == Unit("ptrace_traceme", "nonzero")
caml_extunix_ptrace          == Unit("ptrace", "nonzero")
caml_extunix_ptrace_peekdata == Call("ptrace_peekdata", "peek", "minus_one_errno")
caml_extunix_ptrace_peektext == Call("ptrace_peektext", "peek", "minus_one_errno")

\* A name the platform does not have is -1 in caml_conf_table: Not_found, and
\* Not_available from the wrapper.
caml_extunix_sysconf ==
  [Call("sysconf", "limit", "minus_one") EXCEPT !.early = {NotAvailable}]

-----------------------------------------------------------------------------
(* sockopt.c with the wrappers of extUnix.pp.ml *)

\* An option the platform does not have is -1 in tcp_options.
caml_extunix_setsockopt_int ==
  [Unit("setsockopt_int", "nonzero") EXCEPT
     !.special = [e \in {ENOPROTOOPT} |-> NotAvailable], !.early = {NotAvailable}]

caml_extunix_getsockopt_int ==
  [Call("getsockopt_int", "status", "nonzero") EXCEPT
     !.special = [e \in {ENOPROTOOPT} |-> NotAvailable], !.early = {NotAvailable}]

-----------------------------------------------------------------------------
(* fadvise.c, fallocate.c, memalign.c, and calls that fill in a structure *)

caml_extunix_fadvise64   == Code("fadvise64")
caml_extunix_fadvise     == Code("fadvise")
caml_extunix_fallocate64 == Code("fallocate64")
caml_extunix_fallocate   == Code("fallocate")
caml_extunix_memalign    == [Code("memalign") EXCEPT !.gives = "out"]

caml_extunix_uname            == Call("uname", "status", "nonzero")
caml_extunix_sysinfo          == Call("sysinfo", "status", "nonzero")
caml_extunix_uptime           == Call("uptime", "status", "nonzero")
caml_extunix_read_credentials == Call("read_credentials", "status", "minus_one")
caml_extunix_fstatvfs         == Call("fstatvfs", "status", "nonzero")
caml_extunix_clearenv         == Unit("clearenv", "nonzero")

\* A closed directory is EBADF without a call.
caml_extunix_dirfd == [Call("dirfd", "value", "negative") EXCEPT !.early = {Error(EBADF)}]

\* A signal that interrupts read is EINVAL, as every other failure.
caml_extunix_signalfd_read ==
  [Call("signalfd_read", "status", "nonzero") EXCEPT !.raises = "EINVAL"]

-----------------------------------------------------------------------------
(* time.c *)

caml_extunix_strptime == [Call("strptime", "text", "null") EXCEPT !.raises = "EINVAL"]
caml_extunix_asctime  == Call("asctime", "pointer", "null")
caml_extunix_strftime == [Call("strftime", "count", "null") EXCEPT !.raises = "EINVAL"]
caml_extunix_tzname   == Call("tzname", "sure", "never")
caml_extunix_timezone == Call("timezone", "sure", "never")
caml_extunix_timegm   == Call("timegm", "time", "never")

-----------------------------------------------------------------------------
Calls ==
  {caml_extunix_ttyname, caml_extunix_ctermid, caml_extunix_gettid, caml_extunix_setpgid,
   caml_extunix_getpgid, caml_extunix_getsid, caml_extunix_setreuid,
   caml_extunix_setregid, caml_extunix_setresuid, caml_extunix_setresgid,
   caml_extunix_tcgetpgrp, caml_extunix_tcsetpgrp, caml_extunix_is_open_descr,
   caml_extunix_posix_openpt, caml_extunix_grantpt, caml_extunix_unlockpt,
   caml_extunix_ptsname, caml_extunix_crtscts, caml_extunix_ioctl_TIOCGWINSZ,
   caml_extunix_ioctl_TIOCMGET, TTY_IOCTL_INT, caml_extunix_getpriority,
   caml_extunix_setpriority, caml_extunix_ptrace_traceme, caml_extunix_ptrace,
   caml_extunix_ptrace_peekdata, caml_extunix_ptrace_peektext, caml_extunix_sysconf,
   caml_extunix_setsockopt_int, caml_extunix_getsockopt_int, caml_extunix_fadvise64,
   caml_extunix_fadvise, caml_extunix_fallocate64, caml_extunix_fallocate,
   caml_extunix_memalign, caml_extunix_uname, caml_extunix_sysinfo,
   caml_extunix_uptime, caml_extunix_read_credentials, caml_extunix_fstatvfs,
   caml_extunix_clearenv, caml_extunix_dirfd, caml_extunix_signalfd_read,
   caml_extunix_strptime, caml_extunix_asctime, caml_extunix_strftime,
   caml_extunix_tzname, caml_extunix_timezone, caml_extunix_timegm}

(***************************************************************************)
(* What a function of each convention may answer when errno is e before    *)
(* the call: what it means, what it returns, what it has filled in, and    *)
(* errno behind it.  A success may leave anything in errno, except where   *)
(* the function promises to leave it alone.                                *)
(***************************************************************************)
Answer(meant, ret, out, err) == [said |-> meant, ret |-> ret, out |-> out, errno |-> err]

AnyErrno == Errors \cup {0}
Success(rets, errnos) == {Answer(Value(r), r, r, x) : r \in rets, x \in errnos}
Filled(outs) == {Answer(Value(o), 0, o, x) : o \in outs, x \in AnyErrno}
Failure(ret) == {Answer(Error(x), ret, 0, x) : x \in Errors}

Answers(conv, e) ==
  CASE conv = "status"  -> Filled({-1, 0, 1}) \cup Failure(-1)
    [] conv = "value"   -> Success({0, 1}, AnyErrno) \cup Failure(-1)
    [] conv = "pointer" -> Success({1}, AnyErrno) \cup Failure(0)
    [] conv = "sure"    -> Success({0, 1}, AnyErrno)
    [] conv = "signed"  -> Success({-1, 0, 1}, {e}) \cup Failure(-1)
    [] conv = "peek"    -> Success({-1, 0, 1}, {0, e}) \cup Failure(-1)
    [] conv = "limit"   -> Success({0, 1}, AnyErrno) \cup Failure(-1)
                             \cup {Answer(NoLimit, -1, 0, e)}
    [] conv = "code"    -> Filled({1}) \cup
                             {Answer(Error(x), x, 0, y) : x \in Errors, y \in AnyErrno}
    [] conv = "text"    -> Success({1}, AnyErrno) \cup {Answer(Error(EINVAL), 0, 0, e)}
    [] conv = "count"   -> Success({0, 1}, AnyErrno) \cup {Answer(Error(EINVAL), 0, 0, e)}
    [] conv = "time"    -> Success({-1, 0, 1}, AnyErrno)
                             \cup {Answer(Error(x), -1, -1, x) : x \in Errors}

-----------------------------------------------------------------------------
(* What the stub makes of the answer a. *)

Fails(s, a) ==
  CASE s.test = "nonzero"          -> a.ret # 0
    [] s.test = "negative"         -> a.ret < 0
    [] s.test = "minus_one"        -> a.ret = -1
    [] s.test = "minus_one_errno" -> a.ret = -1 /\ a.errno # 0
    [] s.test = "null"             -> a.ret = 0
    [] s.test = "never"            -> FALSE

Raised(s, a) ==
  CASE s.raises = "ret"    -> a.ret
    [] s.raises = "errno"  -> a.errno
    [] s.raises = "EINVAL" -> EINVAL

ResultOf(s, a) ==
  CASE Fails(s, a) /\ Raised(s, a) \in DOMAIN s.special -> s.special[Raised(s, a)]
    [] Fails(s, a) /\ Raised(s, a) \notin DOMAIN s.special -> Error(Raised(s, a))
    [] ~Fails(s, a) -> Value(CASE s.gives = "out" -> a.out [] s.gives = "unit" -> 0
                               [] s.gives = "true" -> 1)

CallStub(s) ==
  \E a \in Answers(s.conv, IF s.resets THEN 0 ELSE errno) :
    /\ called' = s
    /\ errno'  = a.errno
    /\ said'   = a.said
    /\ result' = ResultOf(s, a)

CallEarly(s) ==
  \E r \in s.early :
    /\ called' = s /\ said' = Nothing /\ result' = r
    /\ UNCHANGED errno

ResultsInit ==
  /\ errno = 0 /\ called = caml_extunix_uname
  /\ said = Nothing /\ result = Nothing

ResultsNext == \E s \in Calls : CallStub(s) \/ CallEarly(s)

-----------------------------------------------------------------------------
(***************************************************************************)
(* The stubs that blur what the system said: sysconf raises whatever is in *)
(* errno when there is no limit; an empty string of strftime is taken for  *)
(* an error; timegm hands on the -1 of a failure; signalfd_read has one    *)
(* error for all; a word -1 of another process is an error where the C     *)
(* library does not set errno to 0 (musl).                                 *)
(***************************************************************************)
Blurred ==
  \/ called.name = "sysconf" /\ said = NoLimit /\ result[1] = "error"
  \/ called.name = "strftime" /\ said = Value(0) /\ result = Error(EINVAL)
  \/ called.name = "timegm" /\ said[1] = "error" /\ result = Value(-1)
  \/ called.name = "signalfd_read" /\ said[1] = "error" /\ result = Error(EINVAL)
  \/ called.conv = "peek" /\ said = Value(-1) /\ result[1] = "error"

\* The program learns what the system said: a failure is raised with the
\* error of this call, never one that an earlier call left in errno, and a
\* value that looks like the mark of a failure (the priority -1) is returned.
\* Errors a stub has another result for, and Blurred, are the exceptions.
ResultIsTrue ==
  \/ Blurred
  \/ said = Nothing
  \/ said[1] = "value" /\ (IF called.gives = "out" THEN result = said ELSE result[1] = "value")
  \/ said[1] = "error" /\ result = IF said[2] \in DOMAIN called.special
                                   THEN called.special[said[2]] ELSE Error(said[2])
=============================================================================
