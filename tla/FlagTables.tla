------------------------------ MODULE FlagTables ------------------------------
(***************************************************************************)
(* Flags.  An OCaml constructor reaches a stub as its position in the      *)
(* type's declaration (extUnix.pp.ml), and the stub looks the C flag up at *)
(* that position of a table: the two have to be written in the same order. *)
(* A mask is modelled as the set of its flags' names; a flag the platform  *)
(* does not have is 0 and sets nothing.  Some stubs take one constructor   *)
(* instead of a list: a switch or a table with one case for each.  The     *)
(* *at functions drop flags after the conversion, mkostemps adds one.      *)
(*                                                                         *)
(* statvfs goes the other way, from a mask to constructors.  renameat2 is  *)
(* modelled together with the files it works on.                           *)
(***************************************************************************)
EXTENDS Integers, Sequences

CONSTANTS
  Families,     \* the families of flags that are used
  MaxFlags,     \* bound: length of a list of flags
  Files, Names, Absent,
  MaxCalls      \* bound: number of calls

ManyOf == {"at", "open", "mount", "umount2", "clone", "mlockall", "splice", "wait",
           "option", "rename"}
OneOf  == {"advice", "sysconf", "resource", "which_prio", "ptrace", "sockopt", "facility"}

ASSUME FlagsAssumption ==
  /\ Families \subseteq ManyOf \cup OneOf
  /\ MaxFlags \in Nat /\ MaxCalls \in Nat
  /\ Absent \notin Files

VARIABLES
  files,     \* files[n]: the file of that name, or Absent
  calls,
  caller,    \* history: the function that was called last
  asked,     \* history: the constructors the program named
  given,     \* the flags the system call got
  f_flag,    \* the mask statvfs got from the system
  f_flags    \* the list it returned

flagsVars == <<files, calls, caller, asked, given, f_flag, f_flags>>

-----------------------------------------------------------------------------
(* Types in extUnix.pp.ml (open_flag: the Unix library) and the C tables. *)

at_flag == <<"AT_EACCESS", "AT_SYMLINK_NOFOLLOW", "AT_REMOVEDIR",
             "AT_SYMLINK_FOLLOW", "AT_NO_AUTOMOUNT">>

at_flags_table == <<"AT_EACCESS", "AT_SYMLINK_NOFOLLOW", "AT_REMOVEDIR",
                    "AT_SYMLINK_FOLLOW", "AT_NO_AUTOMOUNT">>

open_flag == <<"O_RDONLY", "O_WRONLY", "O_RDWR", "O_NONBLOCK", "O_APPEND",
  "O_CREAT", "O_TRUNC", "O_EXCL", "O_NOCTTY", "O_DSYNC", "O_SYNC", "O_RSYNC",
  "O_SHARE_DELETE", "O_CLOEXEC", "O_KEEPEXEC">>

open_flag_table == <<"O_RDONLY", "O_WRONLY", "O_RDWR", "O_NONBLOCK", "O_APPEND",
  "O_CREAT", "O_TRUNC", "O_EXCL", "O_NOCTTY", "O_DSYNC", "O_SYNC", "O_RSYNC",
  "0", "O_CLOEXEC", "O_KEEPEXEC">>

mount_flag == <<"MS_RDONLY", "MS_NOSUID", "MS_NODEV", "MS_NOEXEC",
  "MS_SYNCHRONOUS", "MS_REMOUNT", "MS_MANDLOCK", "MS_DIRSYNC", "MS_NOATIME",
  "MS_NODIRATIME", "MS_BIND", "MS_MOVE", "MS_REC", "MS_SILENT", "MS_POSIXACL",
  "MS_UNBINDABLE", "MS_PRIVATE", "MS_SLAVE", "MS_SHARED", "MS_RELATIME",
  "MS_KERNMOUNT", "MS_I_VERSION", "MS_STRICTATIME", "MS_NOUSER">>

mountflags_table == <<"MS_RDONLY", "MS_NOSUID", "MS_NODEV", "MS_NOEXEC",
  "MS_SYNCHRONOUS", "MS_REMOUNT", "MS_MANDLOCK", "MS_DIRSYNC", "MS_NOATIME",
  "MS_NODIRATIME", "MS_BIND", "MS_MOVE", "MS_REC", "MS_SILENT", "MS_POSIXACL",
  "MS_UNBINDABLE", "MS_PRIVATE", "MS_SLAVE", "MS_SHARED", "MS_RELATIME",
  "MS_KERNMOUNT", "MS_I_VERSION", "MS_STRICTATIME", "MS_NOUSER">>

umount2_flag      == <<"MNT_FORCE", "MNT_DETACH", "MNT_EXPIRE", "UMOUNT_NOFOLLOW">>
umountflags_table == <<"MNT_FORCE", "MNT_DETACH", "MNT_EXPIRE", "UMOUNT_NOFOLLOW">>

clone_flag == <<"CLONE_FS", "CLONE_FILES", "CLONE_NEWNS", "CLONE_SYSVSEM",
  "CLONE_NEWUTS", "CLONE_NEWIPC", "CLONE_NEWUSER", "CLONE_NEWPID", "CLONE_NEWNET">>

\* umountflags_table of unshare.c
cloneflags_table == <<"CLONE_FS", "CLONE_FILES", "CLONE_NEWNS", "CLONE_SYSVSEM",
  "CLONE_NEWUTS", "CLONE_NEWIPC", "CLONE_NEWUSER", "CLONE_NEWPID", "CLONE_NEWNET">>

mlockall_flag        == <<"MCL_CURRENT", "MCL_FUTURE">>
mlockall_flags_table == <<"MCL_CURRENT", "MCL_FUTURE">>

splice_flag == <<"SPLICE_F_MOVE", "SPLICE_F_NONBLOCK", "SPLICE_F_MORE",
                 "SPLICE_F_GIFT">>
splice_flags_table == <<"SPLICE_F_MOVE", "SPLICE_F_NONBLOCK", "SPLICE_F_MORE",
                        "SPLICE_F_GIFT">>

rename_flag        == <<"RENAME_EXCHANGE", "RENAME_NOREPLACE", "RENAME_WHITEOUT">>
rename_flags_table == <<"RENAME_NOREPLACE", "RENAME_EXCHANGE", "RENAME_WHITEOUT">>

wait_flag       == <<"WNOHANG", "WUNTRACED">>
wait_flag_table == <<"WNOHANG", "WUNTRACED">>

log_options  == <<"LOG_PID", "LOG_CONS", "LOG_NDELAY", "LOG_ODELAY", "LOG_NOWAIT">>
option_table == <<"LOG_PID", "LOG_CONS", "LOG_NDELAY", "LOG_ODELAY", "LOG_NOWAIT">>

log_facility == <<"KERN", "USER", "MAIL", "NEWS", "UUCP", "DAEMON", "AUTH", "CRON", "LPR",
  "LOCAL0", "LOCAL1", "LOCAL2", "LOCAL3", "LOCAL4", "LOCAL5", "LOCAL6", "LOCAL7">>
facility_table == <<"KERN", "USER", "MAIL", "NEWS", "UUCP", "DAEMON", "AUTH", "CRON", "LPR",
  "LOCAL0", "LOCAL1", "LOCAL2", "LOCAL3", "LOCAL4", "LOCAL5", "LOCAL6", "LOCAL7">>

advice == <<"NORMAL", "SEQUENTIAL", "RANDOM", "NOREUSE", "WILLNEED", "DONTNEED">>
fadv_flags_table == <<"NORMAL", "SEQUENTIAL", "RANDOM", "NOREUSE", "WILLNEED", "DONTNEED">>

\* Without _SC_; POSIX_VERSION stands for VERSION and POSIX2_VERSION for
\* 2_VERSION.
sysconf_name == <<"ARG_MAX", "CHILD_MAX", "HOST_NAME_MAX", "LOGIN_NAME_MAX", "CLK_TCK",
  "OPEN_MAX", "PAGESIZE", "RE_DUP_MAX", "STREAM_MAX", "SYMLOOP_MAX", "TTY_NAME_MAX",
  "TZNAME_MAX", "VERSION", "LINE_MAX", "2_VERSION", "PHYS_PAGES", "AVPHYS_PAGES",
  "NPROCESSORS_CONF", "NPROCESSORS_ONLN">>
caml_conf_table == <<"ARG_MAX", "CHILD_MAX", "HOST_NAME_MAX", "LOGIN_NAME_MAX", "CLK_TCK",
  "OPEN_MAX", "PAGESIZE", "RE_DUP_MAX", "STREAM_MAX", "SYMLOOP_MAX", "TTY_NAME_MAX",
  "TZNAME_MAX", "VERSION", "LINE_MAX", "2_VERSION", "PHYS_PAGES", "AVPHYS_PAGES",
  "NPROCESSORS_CONF", "NPROCESSORS_ONLN">>

resource     == <<"CORE", "CPU", "DATA", "FSIZE", "NOFILE", "STACK", "AS">>
resource_map == <<"CORE", "CPU", "DATA", "FSIZE", "NOFILE", "STACK", "AS">>

which_prio_t      == <<"PRIO_PROCESS", "PRIO_PGRP", "PRIO_USER">>
decode_which_prio == <<"PRIO_PROCESS", "PRIO_PGRP", "PRIO_USER">>

ptrace_request == <<"PTRACE_ATTACH", "PTRACE_DETACH">>
ptrace_cases   == <<"PTRACE_ATTACH", "PTRACE_DETACH">>

socket_int_option_ == <<"TCP_KEEPCNT", "TCP_KEEPIDLE", "TCP_KEEPINTVL", "SO_REUSEPORT",
  "SO_ATTACH_BPF", "SO_ATTACH_REUSEPORT_EBPF", "SO_DETACH_FILTER", "SO_DETACH_BPF",
  "SO_LOCK_FILTER">>
tcp_options == <<"TCP_KEEPCNT", "TCP_KEEPIDLE", "TCP_KEEPINTVL", "SO_REUSEPORT",
  "SO_ATTACH_BPF", "SO_ATTACH_REUSEPORT_EBPF", "SO_DETACH_FILTER", "SO_DETACH_BPF",
  "SO_LOCK_FILTER">>

st_flag == <<"ST_RDONLY", "ST_NOSUID", "ST_NODEV", "ST_NOEXEC", "ST_SYNCHRONOUS",
  "ST_MANDLOCK", "ST_WRITE", "ST_APPEND", "ST_IMMUTABLE", "ST_NOATIME",
  "ST_NODIRATIME", "ST_RELATIME">>

st_flags_table == <<"ST_RDONLY", "ST_NOSUID", "ST_NODEV", "ST_NOEXEC",
  "ST_SYNCHRONOUS", "ST_MANDLOCK", "ST_WRITE", "ST_APPEND", "ST_IMMUTABLE",
  "ST_NOATIME", "ST_NODIRATIME", "ST_RELATIME">>

TypeOf(f) ==
  CASE f = "at" -> at_flag [] f = "open" -> open_flag [] f = "mount" -> mount_flag
    [] f = "umount2" -> umount2_flag [] f = "clone" -> clone_flag
    [] f = "mlockall" -> mlockall_flag [] f = "splice" -> splice_flag
    [] f = "rename" -> rename_flag [] f = "wait" -> wait_flag
    [] f = "option" -> log_options [] f = "facility" -> log_facility
    [] f = "advice" -> advice [] f = "sysconf" -> sysconf_name
    [] f = "resource" -> resource [] f = "which_prio" -> which_prio_t
    [] f = "ptrace" -> ptrace_request [] f = "sockopt" -> socket_int_option_

TableOf(f) ==
  CASE f = "at" -> at_flags_table [] f = "open" -> open_flag_table
    [] f = "mount" -> mountflags_table [] f = "umount2" -> umountflags_table
    [] f = "clone" -> cloneflags_table [] f = "mlockall" -> mlockall_flags_table
    [] f = "splice" -> splice_flags_table [] f = "rename" -> rename_flags_table
    [] f = "wait" -> wait_flag_table [] f = "option" -> option_table
    [] f = "facility" -> facility_table [] f = "advice" -> fadv_flags_table
    [] f = "sysconf" -> caml_conf_table [] f = "resource" -> resource_map
    [] f = "which_prio" -> decode_which_prio [] f = "ptrace" -> ptrace_cases
    [] f = "sockopt" -> tcp_options

\* Lists of constructor numbers, from 0.
Lists(f) == UNION {[1 .. n -> 0 .. Len(TypeOf(f)) - 1] :
                     n \in IF f \in OneOf THEN {1} ELSE 0 .. MaxFlags}

\* What the program means by them.
Meaning(type, list) == {type[list[i] + 1] : i \in DOMAIN list}

\* caml_convert_flag_list, and extunix_open_flags, which skips numbers behind
\* the end of its table
Mask(list, table) == {table[list[i] + 1] : i \in {j \in DOMAIN list : list[j] < Len(table)}}

\* One round of the loop over st_flags_table.
Converted(mask, list, i) ==
  IF st_flags_table[i] \in mask THEN <<i - 1>> \o list[i - 1] ELSE list[i - 1]

\* Mutant: the loop begins with the second entry.
convert_st_flags_short(mask) ==
  LET list[i \in 0 .. 12] == IF i \in {0, 1} THEN <<>> ELSE Converted(mask, list, i)
  IN  list[12]

\* The loop of convert_st_flags puts number 0 first into the list, in the end
\* the last number is in front.
convert_st_flags(mask) ==
  LET list[i \in 0 .. 12] == IF i = 0 THEN <<>> ELSE Converted(mask, list, i)
  IN  list[12]

-----------------------------------------------------------------------------
(* The functions that take flags, and what they do to the mask. *)

AtCalls == {"fstatat", "unlinkat", "linkat", "fchownat", "fchmodat"}

\* The functions of a family; where they are alike they are represented by
\* the family's name: mount, umount2, unshare, mlockall, splice (tee,
\* vmsplice), wait4, openlog; or one constant: fadvise, sysconf, getrlimit,
\* setrlimit, getpriority, setpriority, ptrace, setsockopt_int (getsockopt_int,
\* have_sockopt), openlog, syslog.
Callers(f) == CASE f = "at"   -> AtCalls
                [] f = "open" -> {"openat", "posix_openpt", "mkostemps"}
                [] OTHER      -> {f}

\* Mutant: linkat keeps the flag of its neighbours.
AtMask_linkat(c) ==
  CASE c = "fstatat"  -> {"AT_SYMLINK_NOFOLLOW", "AT_NO_AUTOMOUNT"}
    [] c = "unlinkat" -> {"AT_REMOVEDIR"}
    [] c \in {"linkat", "fchownat", "fchmodat"} -> {"AT_SYMLINK_NOFOLLOW"}

\* flags &= ...
AtMask(c) ==
  CASE c = "fstatat"  -> {"AT_SYMLINK_NOFOLLOW", "AT_NO_AUTOMOUNT"}
    [] c = "unlinkat" -> {"AT_REMOVEDIR"}
    [] c = "linkat"   -> {"AT_SYMLINK_FOLLOW"}
    [] c \in {"fchownat", "fchmodat"} -> {"AT_SYMLINK_NOFOLLOW"}

\* Linux has one bit for AT_EACCESS (of faccessat) and AT_REMOVEDIR.
AtBit(flag) == IF flag = "AT_EACCESS" THEN "AT_REMOVEDIR" ELSE flag

\* What the function makes of the converted flags.
Passed(c, flags) ==
  IF c \in AtCalls THEN {AtBit(x) : x \in flags} \cap AtMask(c)
  ELSE IF c = "mkostemps" THEN flags \cup {"O_CLOEXEC"}
  ELSE flags

Uses(f, c, list) ==
  /\ calls < MaxCalls /\ calls' = calls + 1
  /\ caller' = c
  /\ asked'  = Meaning(TypeOf(f), list)
  /\ given'  = Passed(c, Mask(list, TableOf(f)) \ {"0"})

\* A call that hands its flags on.
HandsOn(f, c, list) ==
  /\ f # "rename"
  /\ Uses(f, c, list)
  /\ UNCHANGED <<files, f_flag, f_flags>>

(***************************************************************************)
(* renameat2, on a kernel that has RENAME_WHITEOUT: the files change only  *)
(* when it succeeds.  The entry that RENAME_WHITEOUT leaves behind hides   *)
(* the name, as if it were absent.                                         *)
(***************************************************************************)
Renamed(old, new, flags) ==
  IF "RENAME_EXCHANGE" \in flags
  THEN IF files[new] = Absent \/ flags # {"RENAME_EXCHANGE"} THEN files
       ELSE [files EXCEPT ![old] = files[new], ![new] = files[old]]
  ELSE IF "RENAME_NOREPLACE" \in flags /\ files[new] # Absent THEN files
       ELSE [files EXCEPT ![old] = Absent, ![new] = files[old]]

caml_extunix_renameat2(old, new, list) ==
  /\ Uses("rename", "rename", list)
  /\ files' = IF files[old] = Absent \/ old = new THEN files
              ELSE Renamed(old, new, given')
  /\ UNCHANGED <<f_flag, f_flags>>

\* caml_extunix_statvfs: the system answers with any flags.
caml_extunix_statvfs(mask) ==
  /\ calls < MaxCalls /\ calls' = calls + 1
  /\ f_flag'  = mask
  /\ f_flags' = convert_st_flags(mask)
  /\ UNCHANGED <<files, caller, asked, given>>

-----------------------------------------------------------------------------
StFlags == {st_flag[i] : i \in DOMAIN st_flag}

FlagsInit ==
  /\ files \in [Names -> Files \cup {Absent}]
  /\ calls = 0
  /\ caller = "none"
  /\ asked = {} /\ given = {}
  /\ f_flag = {} /\ f_flags = <<>>

FlagsNext ==
  \/ \E f \in Families : \E c \in Callers(f), list \in Lists(f) : HandsOn(f, c, list)
  \/ "rename" \in Families /\
       \E old, new \in Names : \E list \in Lists("rename") :
         caml_extunix_renameat2(old, new, list)
  \/ \E mask \in SUBSET StFlags : caml_extunix_statvfs(mask)

FlagsSpec == FlagsInit /\ [][FlagsNext]_flagsVars
-----------------------------------------------------------------------------
\* The flags a function supports: "Supported flags : [...]" in extUnix.pp.ml
\* for the first three, POSIX for the other two.
Supported(c) ==
  CASE c = "fstatat"  -> {"AT_SYMLINK_NOFOLLOW", "AT_NO_AUTOMOUNT"}
    [] c = "unlinkat" -> {"AT_REMOVEDIR"}
    [] c = "linkat"   -> {"AT_SYMLINK_FOLLOW"}
    [] c \in {"fchownat", "fchmodat"} -> {"AT_SYMLINK_NOFOLLOW"}

\* Each constructor sets the flag of its own name and no other.  The *at
\* functions get those of the named flags that they support, mkostemps always
\* opens with O_CLOEXEC.  Left out are renameat2, about which NoReplaceKeeps
\* is, and unlinkat with AT_EACCESS, which the mask does not tell from
\* AT_REMOVEDIR.  (O_SHARE_DELETE exists on Windows only.)
FlagsAsNamed ==
  LET named == asked \ {"O_SHARE_DELETE"} IN
  /\ caller \in AtCalls /\ ~(caller = "unlinkat" /\ "AT_EACCESS" \in asked)
       => given = named \cap Supported(caller)
  /\ caller = "mkostemps" => given = named \cup {"O_CLOEXEC"}
  /\ caller \notin AtCalls \cup {"mkostemps", "rename"} => given = named

\* The list in the result of statvfs names exactly the flags of the mask,
\* each one once.
StFlagsExact ==
  /\ Meaning(st_flag, f_flags) = f_flag
  /\ \A i, j \in DOMAIN f_flags : f_flags[i] = f_flags[j] => i = j

\* RENAME_NOREPLACE protects what has the new name already: after a call that
\* asks for it, every name that had a file has that file or none.
NoReplaceKeeps ==
  [][caller' = "rename" /\ "RENAME_NOREPLACE" \in asked' /\ calls' # calls
     => \A n \in Names : files[n] # Absent => files'[n] \in {files[n], Absent}]_flagsVars
=============================================================================
