-------------------------------- MODULE Build --------------------------------
(***************************************************************************)
(* How the library is put together.  discover.ml probes the platform for   *)
(* each feature and writes config.h and config.ml; ppx_have.ml expands the *)
(* sections [%%have ...] of extUnix.pp.ml twice, into Specific and (with   *)
(* --gen-all) into All; the C files guard their stubs with EXTUNIX_HAVE_*. *)
(* The externals of a section are represented by one external with the     *)
(* name of the section's feature.  One constructor has a condition of its  *)
(* own, RENAME_WHITEOUT of renameat2.                                      *)
(***************************************************************************)
VARIABLES
  os,            \* "unix" or "windows"
  found,         \* features the platform has
  disabled,      \* options --disable-*
  bpc,           \* "discover", "expand", "compile" or "done"
  config,        \* discover: the features that are YES
  specific,      \* externals, types and constructors of Specific
  all,           \* All: [real, dummies] externals
  funcs,         \* the answers of All.have: [yes, no]
  symbols        \* stubs in the C library, or {"error"} if it does not compile

buildVars == <<os, found, disabled, bpc, config, specific, all, funcs, symbols>>

-----------------------------------------------------------------------------
\* Features without externals of their own.
Internal == {"RENAME_WHITEOUT", "INET_NTOA", "INET_NTOP", "TCP_KEEPIDLE", "TCP_KEEPCNT",
             "TCP_KEEPINTVL", "SO_REUSEPORT"}

Externals ==
  {"EVENTFD", "ATFILE", "RENAMEAT2", "DIRFD", "STATVFS", "FSTATVFS", "SIOCGIFCONF",
   "IFADDRS", "UNAME", "FADVISE", "FALLOCATE", "TTY_IOCTL", "TTYNAME", "CTERMID",
   "GETTID", "PGID", "SETREUID", "FSYNC", "FDATASYNC", "SYNC", "SYNCFS", "REALPATH",
   "SIGNALFD", "PTRACE", "RESOURCE", "MLOCKALL", "STRPTIME", "STRTIME", "TIMEZONE",
   "TIMEGM", "PTS", "FCNTL", "TCPGRP", "EXECINFO", "SETENV", "CLEARENV", "MKDTEMP",
   "MALLOC_INFO", "MALLOC_STATS", "MEMALIGN", "ENDIAN", "READ_CREDENTIALS", "FEXECVE",
   "SENDMSG", "PREAD", "PWRITE", "READ", "WRITE", "MKSTEMPS", "MKOSTEMPS", "SETRESUID",
   "SYSCONF", "SPLICE", "TEE", "VMSPLICE", "SOCKOPT", "POLL", "SYSINFO", "MCHECK",
   "MOUNT", "UNSHARE", "CHROOT", "SYSLOG", "WAIT4"}

features == Internal \cup Externals

\* The ones whose probe has an alternative for Windows.
Portable == {"STATVFS", "INET_NTOA", "INET_NTOP", "FALLOCATE", "GETTID", "FSYNC", "FDATASYNC",
             "REALPATH", "STRTIME", "TIMEZONE", "TIMEGM", "ENDIAN", "SOCKOPT",
             "TCP_KEEPIDLE", "TCP_KEEPCNT", "TCP_KEEPINTVL"}

\* An assumption on platforms, not a fact of the code: where the first of a
\* pair is found the second is, too.
Implied == {<<"FSTATVFS", "STATVFS">>, <<"FDATASYNC", "FSYNC">>,
            <<"SIOCGIFCONF", "INET_NTOA">>, <<"IFADDRS", "INET_NTOP">>}

\* The sections that declare types other sections use, with their conditions
\* (a disjunction of conjunctions).
SharedTypes == {"st_flag", "splice_flag"}

\* Mutant: the type of the flags is in the section of splice.
section_splice(t) ==
  CASE t = "st_flag"     -> {{"STATVFS"}, {"FSTATVFS"}}
    [] t = "splice_flag" -> {{"SPLICE"}}
    [] t \in Externals   -> {{t}}

section(t) ==
  CASE t = "st_flag"     -> {{"STATVFS"}, {"FSTATVFS"}}
    [] t = "splice_flag" -> {{"SPLICE"}, {"TEE"}, {"VMSPLICE"}}
    [] t \in Externals   -> {{t}}

TypesOf(e) == CASE e \in {"STATVFS", "FSTATVFS"}        -> {"st_flag"}
                [] e \in {"SPLICE", "TEE", "VMSPLICE"}  -> {"splice_flag"}
                [] OTHER                                -> {}

\* Constructors that are marked [@have ...].
Constructors == {"RENAME_WHITEOUT"}

eval_cond(cond) == \E conj \in cond : \A f \in conj : f \in config

\* The #if around the stub, or around what makes renameat2 refuse the flag.
guard(e) ==
  CASE e = "FSTATVFS"          -> os = "unix" /\ "STATVFS" \in config
    [] e = "FDATASYNC"         -> /\ e \in config
                                  /\ os = "windows" => "FSYNC" \in config
    [] e \in {"SYNC", "SYNCFS"} -> os = "unix" /\ e \in config
    [] e = "RENAME_WHITEOUT"   -> {"RENAMEAT2", e} \subseteq config
    [] OTHER                   -> e \in config

\* Does the platform have, and config.h declare, what the code for e uses?
\* Code of statvfs.c is compiled for both features, and the stub of fstatvfs
\* for STATVFS; the two stubs of ioctl_siocgifconf.c use functions of another
\* header than their own: config.h includes a header if a feature that has it
\* is there and is wanted (EXTUNIX_WANT_*) by the C file.
declared(e) ==
  CASE e = "STATVFS"                       -> os = "unix" => "FSTATVFS" \in found
    [] e = "FSTATVFS"                      -> os = "unix" => "STATVFS" \in config
    [] e \in {"SIOCGIFCONF", "IFADDRS"}    -> config \cap {"INET_NTOA", "INET_NTOP"} # {}
    [] OTHER                               -> TRUE

-----------------------------------------------------------------------------
\* discover and show_c, show_ml: a disabled feature is NO without a probe.
discover ==
  /\ bpc = "discover" /\ bpc' = "expand"
  /\ config' = found \ disabled
  /\ UNCHANGED <<os, found, disabled, specific, all, funcs, symbols>>

\* Constructors that keep their name in Specific; the others are renamed to
\* __Not_available.
have_constr == {c \in Constructors : eval_cond(section("RENAMEAT2")) /\ eval_cond({{c}})}

\* have_expand on every section, for Specific and for All, and
\* show_me_the_money: types are kept in All whether they are used or not.
have_expand ==
  LET have == {t \in Externals \cup SharedTypes : eval_cond(section(t))} IN
  /\ bpc = "expand" /\ bpc' = "compile"
  /\ specific' = have \cup have_constr
  /\ all' = [real |-> (have \cap Externals) \cup SharedTypes, dummies |-> Externals \ have]
  /\ funcs' = [yes |-> have \cap Externals, no |-> Externals \ have]
  /\ UNCHANGED <<os, found, disabled, config, symbols>>

compile ==
  /\ bpc = "compile" /\ bpc' = "done"
  /\ symbols' = IF \E e \in config \cap Externals : ~declared(e) THEN {"error"}
                ELSE {e \in Externals \cup Constructors : guard(e)}
  /\ UNCHANGED <<os, found, disabled, config, specific, all, funcs>>

-----------------------------------------------------------------------------
\* Bound: at most two features are not found or disabled.
AtMostTwo(S) == {{}} \cup {{f, g} : f, g \in S}

Possible == IF os = "unix" THEN features ELSE Portable

BuildInit ==
  /\ os \in {"unix", "windows"}
  /\ \E gone \in AtMostTwo(Possible) :
       /\ disabled \in SUBSET gone
       /\ found = Possible \ (gone \ disabled)
  /\ \A p \in Implied : p[1] \in found => p[2] \in found
  /\ bpc = "discover" /\ config = {} /\ specific = {}
  /\ all = [real |-> {}, dummies |-> {}] /\ funcs = [yes |-> {}, no |-> {}]
  /\ symbols = {}

BuildNext == discover \/ have_expand \/ compile

BuildSpec == BuildInit /\ [][BuildNext]_buildVars
-----------------------------------------------------------------------------
\* What refers to what: an external has its stub and its types, and the
\* constructors of Specific are those that no stub answers with Not_available.
Links == /\ (specific \cap Externals) \cup (all.real \cap Externals) \subseteq symbols
         /\ \A e \in specific \cap Externals : TypesOf(e) \subseteq specific
         /\ \A e \in all.real \cap Externals : TypesOf(e) \subseteq all.real
         /\ specific \cap Constructors = symbols \cap Constructors

\* Options that no build goes well with: a feature is disabled whose code
\* another one uses.
Unlucky == \/ "STATVFS" \in disabled /\ "FSTATVFS" \in config
           \/ os = "windows" /\ "FSYNC" \in disabled /\ "FDATASYNC" \in config
           \/ /\ disabled \cap {"INET_NTOA", "INET_NTOP"} # {}
              /\ config \cap {"INET_NTOA", "INET_NTOP"} = {}
              /\ config \cap {"SIOCGIFCONF", "IFADDRS"} # {}

\* A platform that no build goes well with: statvfs.c calls fstatvfs for the
\* feature STATVFS, whether it was found or not.
Unsuited == os = "unix" /\ "STATVFS" \in config /\ "FSTATVFS" \notin found

\* The library compiles, and every external of Specific and of All has its stub
\* and its types, on every platform but the Unsuited and with any options but
\* the Unlucky ones, and with those it never does.  What Specific names does not
\* raise Not_available.  All.have knows every external and tells whether it is
\* real or raises Not_available, and Specific has the real ones.
BuildIsWhole ==
  bpc = "done" =>
    /\ (symbols # {"error"} /\ Links) <=> ~(Unlucky \/ Unsuited)
    /\ funcs.yes = all.real \cap Externals /\ funcs.no = all.dummies
    /\ funcs.yes \cup funcs.no = Externals
    /\ specific \cap Externals = funcs.yes

\* CHANGES.txt: "--disable-* options to exclude selected features from build".
\* Whatever is disabled, the rest builds.
DisableLeavesRest == bpc = "done" /\ ~Unsuited => symbols # {"error"} /\ Links
=============================================================================
