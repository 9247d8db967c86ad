------------------------------ MODULE StubTable ------------------------------
(***************************************************************************)
(* The C stubs that hand memory to the system or give up the runtime lock, *)
(* each as a record of what it does around its one system call:            *)
(*                                                                         *)
(*   early         ways to end before anything is allocated                *)
(*   copies        C memory it allocates, in this order (caml_stat_strdup, *)
(*                 caml_stat_alloc: each may raise Out_of_memory)          *)
(*   heap          OCaml values whose own address goes to the call         *)
(*   releases      caml_enter/leave_blocking_section around the call       *)
(*   waits         the call may wait for an event (external)               *)
(*   outcomes      what the stub can tell of the call: "ok", "failed"      *)
(*   gives         C memory the stub owns when the call succeeded          *)
(*   freed         freed behind the call in every case                     *)
(*   freedOnError  freed in the branch of the error only                   *)
(*   later, roots  OCaml values used behind the call; the ones that        *)
(*                 CAMLparam registers                                     *)
(*   late          errors raised although the call succeeded               *)
(*   decodes       builds an OCaml value (which may raise Out_of_memory)   *)
(*   freedLast     freed behind that                                       *)
(***************************************************************************)
EXTENDS Sequences

Stub(name, roots) ==
  [name |-> name, roots |-> roots, early |-> {}, copies |-> <<>>, heap |-> {},
   releases |-> TRUE, waits |-> FALSE, outcomes |-> {"ok", "failed"},
   gives |-> {}, freed |-> {}, freedOnError |-> {}, later |-> {}, late |-> {},
   decodes |-> FALSE, freedLast |-> {}]

-----------------------------------------------------------------------------
(* atfile.c, rename.c *)

caml_extunix_fstatat ==
  [Stub("fstatat", {"v_name", "v_flags"}) EXCEPT
     !.copies = <<"p">>, !.freed = {"p"}, !.later = {"v_name"},
     !.late = {"EOVERFLOW"}, !.decodes = TRUE]

\* Mutant: the name is freed behind the error test.
unlinkat_free_last ==
  [Stub("unlinkat", {"v_name", "v_flags"}) EXCEPT
     !.copies = <<"p">>, !.freedLast = {"p"}, !.later = {"v_name"}]

caml_extunix_unlinkat ==
  [Stub("unlinkat", {"v_name", "v_flags"}) EXCEPT
     !.copies = <<"p">>, !.freed = {"p"}, !.later = {"v_name"}]

\* Mutant: the two names and the error branch free the same memory.
renameat_free_twice ==
  [Stub("renameat", {"v_oldname", "v_newname"}) EXCEPT
     !.copies = <<"oldname", "newname">>, !.freed = {"newname", "oldname"},
     !.freedOnError = {"oldname"}, !.later = {"v_oldname"}]

caml_extunix_renameat ==
  [Stub("renameat", {"v_oldname", "v_newname"}) EXCEPT
     !.copies = <<"oldname", "newname">>, !.freed = {"newname", "oldname"},
     !.later = {"v_oldname"}]

\* Mutant: String_val(v_name) goes to mkdirat.
mkdirat_no_copy ==
  [Stub("mkdirat", {"v_name"}) EXCEPT !.heap = {"v_name"}, !.later = {"v_name"}]

caml_extunix_mkdirat ==
  [Stub("mkdirat", {"v_name"}) EXCEPT
     !.copies = <<"name">>, !.freed = {"name"}, !.later = {"v_name"}]

caml_extunix_linkat ==
  [Stub("linkat", {"v_oldname", "v_newname", "v_flags"}) EXCEPT
     !.copies = <<"oldname", "newname">>, !.freed = {"newname", "oldname"},
     !.later = {"v_oldname"}]

caml_extunix_fchownat ==
  [Stub("fchownat", {"v_name", "v_flags"}) EXCEPT
     !.copies = <<"name">>, !.freed = {"name"}, !.later = {"v_name"}]

caml_extunix_fchmodat ==
  [Stub("fchmodat", {"v_name", "v_flags"}) EXCEPT
     !.copies = <<"name">>, !.freed = {"name"}, !.later = {"v_name"}]

caml_extunix_symlinkat ==
  [Stub("symlinkat", {"v_path", "v_newname"}) EXCEPT
     !.copies = <<"path", "newname">>, !.freed = {"newname", "path"},
     !.later = {"v_path"}]

\* "open on a named FIFO can block"
caml_extunix_openat ==
  [Stub("openat", {"v_path", "flags"}) EXCEPT
     !.copies = <<"path">>, !.freed = {"path"}, !.later = {"v_path"},
     !.waits = TRUE]

\* readlinkat_malloc gives up its buffer when it fails, and only then.
caml_extunix_readlinkat ==
  [Stub("readlinkat", {"v_name"}) EXCEPT
     !.copies = <<"name">>, !.gives = {"res"}, !.freed = {"name"},
     !.later = {"v_name"}, !.decodes = TRUE, !.freedLast = {"res"}]

\* check_flag_list raises before the names are copied.
caml_extunix_renameat2 ==
  [Stub("renameat2", {"v_oldname", "v_newname", "v_flags"}) EXCEPT
     !.early = {"Not_available"},
     !.copies = <<"oldname", "newname">>, !.freed = {"oldname", "newname"},
     !.later = {"v_oldname"}]

-----------------------------------------------------------------------------
(* mount.c, mktemp.c, realpath.c, statvfs.c, unistd.c *)

caml_extunix_chroot ==
  [Stub("chroot", {"v_path"}) EXCEPT
     !.copies = <<"p_path">>, !.freed = {"p_path"}, !.later = {"v_path"}]

caml_extunix_mount ==
  [Stub("mount", {"v_source", "v_target", "v_fstype", "v_mountflags", "v_data"}) EXCEPT
     !.copies = <<"p_source", "p_target", "p_fstype", "p_data">>,
     !.freed = {"p_source", "p_target", "p_fstype", "p_data"},
     !.later = {"v_target"}]

caml_extunix_umount2 ==
  [Stub("umount2", {"v_target", "v_umountflags"}) EXCEPT
     !.copies = <<"p_target">>, !.freed = {"p_target"}, !.later = {"v_target"}]

\* The C library writes the name into path, which is decoded from there.
caml_extunix_mkdtemp ==
  [Stub("mkdtemp", {"v_path"}) EXCEPT
     !.copies = <<"path">>, !.freedOnError = {"path"}, !.later = {"v_path"},
     !.decodes = TRUE, !.freedLast = {"path"}]

\* The C library changes the template in place, in the OCaml heap.
caml_extunix_internal_mkstemps ==
  [Stub("mkstemps", {"v_template"}) EXCEPT
     !.heap = {"v_template"}, !.releases = FALSE, !.later = {"v_template"}]

caml_extunix_internal_mkostemps ==
  [Stub("mkostemps", {"v_template", "v_flags"}) EXCEPT
     !.heap = {"v_template"}, !.releases = FALSE, !.later = {"v_template"}]

caml_extunix_realpath ==
  [Stub("realpath", {"p"}) EXCEPT
     !.heap = {"p"}, !.releases = FALSE, !.gives = {"r"}, !.later = {"p"},
     !.decodes = TRUE, !.freedLast = {"r"}]

caml_extunix_statvfs ==
  [Stub("statvfs", {"v_path"}) EXCEPT
     !.heap = {"v_path"}, !.releases = FALSE, !.later = {"v_path"},
     !.decodes = TRUE]

-----------------------------------------------------------------------------
(* fsync.c, mman.c, unshare.c: a descriptor or a mask, no memory *)

caml_extunix_fsync     == Stub("fsync", {})
caml_extunix_fdatasync == Stub("fdatasync", {})
caml_extunix_syncfs    == Stub("syncfs", {})
caml_extunix_sync      == [Stub("sync", {}) EXCEPT !.outcomes = {"ok"}]

caml_extunix_mlockall   == Stub("mlockall", {"v_flags"})
caml_extunix_munlockall == Stub("munlockall", {})
caml_extunix_unshare    == Stub("unshare", {"v_cloneflags"})

-----------------------------------------------------------------------------
(* splice.c, sendmsg.c, poll.c, syslog.c, wait4.c, signalfd.c, eventfd.c:  *)
(* calls that wait for another process or thread                           *)

caml_extunix_splice ==
  [Stub("splice", {"v_off_in", "v_off_out", "v_flags"}) EXCEPT !.waits = TRUE]

caml_extunix_tee == [Stub("tee", {"v_flags"}) EXCEPT !.waits = TRUE]

\* The data of the bigarrays is outside of the heap and does not move; the
\* array of iovecs is on the stack.
caml_extunixba_vmsplice ==
  [Stub("vmsplice", {"v_iov", "v_flags"}) EXCEPT
     !.early = {"Invalid_argument"}, !.waits = TRUE]

caml_extunix_sendmsg ==
  [Stub("sendmsg", {"sendfd_val", "data_val"}) EXCEPT
     !.copies = <<"buf">>, !.waits = TRUE, !.freed = {"buf"}]

caml_extunix_recvmsg ==
  [Stub("recvmsg", {}) EXCEPT
     !.waits = TRUE, !.late = {"EINVAL"}, !.decodes = TRUE]

\* Mutant: the result list is returned without freeing the array.
poll_keeps_array ==
  [Stub("poll", {"v_fds"}) EXCEPT
     !.early = {"Invalid_argument", "ok"}, !.copies = <<"fd">>,
     !.waits = TRUE, !.freedOnError = {"fd"}, !.decodes = TRUE]

\* With n = 0 the empty list is returned before the array is allocated.
caml_extunix_poll ==
  [Stub("poll", {"v_fds"}) EXCEPT
     !.early = {"Invalid_argument", "ok"}, !.copies = <<"fd">>,
     !.waits = TRUE, !.freedOnError = {"fd"}, !.decodes = TRUE,
     !.freedLast = {"fd"}]

\* libc may wait for the daemon; syslog has no result.
caml_extunix_syslog ==
  [Stub("syslog", {"v_facility", "v_level", "v_string"}) EXCEPT
     !.copies = <<"str">>, !.waits = TRUE, !.outcomes = {"ok"}, !.freed = {"str"}]

caml_extunix_wait4 ==
  [Stub("wait4", {"vwait_flags"}) EXCEPT !.waits = TRUE, !.decodes = TRUE]

\* sigaddset may fail before the call.
caml_extunix_signalfd ==
  [Stub("signalfd", {"vfd", "vsigs", "vflags"}) EXCEPT
     !.early = {"EINVAL"}, !.releases = FALSE]

\* Mutant: read is called with the lock held.
signalfd_read_locked ==
  [Stub("signalfd_read", {}) EXCEPT
     !.releases = FALSE, !.waits = TRUE, !.decodes = TRUE]

caml_extunix_signalfd_read ==
  [Stub("signalfd_read", {}) EXCEPT !.waits = TRUE, !.decodes = TRUE]

caml_extunix_eventfd == [Stub("eventfd", {}) EXCEPT !.releases = FALSE]

caml_extunix_eventfd_read ==
  [Stub("eventfd_read", {}) EXCEPT
     !.releases = FALSE, !.waits = TRUE, !.decodes = TRUE]

caml_extunix_eventfd_write ==
  [Stub("eventfd_write", {"v_val"}) EXCEPT !.releases = FALSE, !.waits = TRUE]

-----------------------------------------------------------------------------
(* stdlib.c, fexecve.c, ioctl_siocgifconf.c, execinfo.c *)

caml_extunix_setenv ==
  [Stub("setenv", {"v_name", "v_val"}) EXCEPT
     !.heap = {"v_name", "v_val"}, !.releases = FALSE, !.later = {"v_name"}]

caml_extunix_unsetenv ==
  [Stub("unsetenv", {"v_name"}) EXCEPT
     !.heap = {"v_name"}, !.releases = FALSE, !.later = {"v_name"}]

\* The two arrays are C memory, their elements point into the heap.  When
\* fexecve succeeds there is no stub any more.
caml_extunix_fexecve ==
  [Stub("fexecve", {"argv_val", "envp_val"}) EXCEPT
     !.copies = <<"argv", "envp">>, !.heap = {"argv_val", "envp_val"},
     !.releases = FALSE, !.outcomes = {"failed"}, !.freed = {"argv", "envp"}]

\* An address inet_ntop cannot print raises inside of the loop, and the list
\* is not freed then.
caml_extunix_getifaddrs ==
  [Stub("getifaddrs", {}) EXCEPT
     !.releases = FALSE, !.gives = {"ifaddrs"}, !.late = {"inet_ntop"},
     !.decodes = TRUE, !.freedLast = {"ifaddrs"}]

caml_extunix_backtrace ==
  [Stub("backtrace", {}) EXCEPT
     !.releases = FALSE, !.gives = {"strings"}, !.decodes = TRUE,
     !.freedLast = {"strings"}]

\* On an error buf is freed before the exception: the stub owns it only when
\* malloc_info succeeded.
caml_extunix_malloc_info ==
  [Stub("malloc_info", {}) EXCEPT
     !.releases = FALSE, !.gives = {"buf"}, !.decodes = TRUE, !.freedLast = {"buf"}]

-----------------------------------------------------------------------------
NameStubs ==
  {caml_extunix_fstatat, caml_extunix_unlinkat, caml_extunix_renameat,
   caml_extunix_mkdirat, caml_extunix_linkat, caml_extunix_fchownat,
   caml_extunix_fchmodat, caml_extunix_symlinkat, caml_extunix_openat,
   caml_extunix_readlinkat, caml_extunix_renameat2, caml_extunix_mount,
   caml_extunix_umount2, caml_extunix_mkdtemp, caml_extunix_chroot}

PlainStubs ==
  {caml_extunix_fsync, caml_extunix_fdatasync, caml_extunix_syncfs,
   caml_extunix_sync, caml_extunix_mlockall, caml_extunix_munlockall,
   caml_extunix_unshare}

WaitingStubs ==
  {caml_extunix_splice, caml_extunix_tee, caml_extunixba_vmsplice,
   caml_extunix_sendmsg, caml_extunix_recvmsg, caml_extunix_poll,
   caml_extunix_wait4, caml_extunix_signalfd_read, caml_extunix_syslog}

LockedStubs ==
  {caml_extunix_internal_mkstemps, caml_extunix_internal_mkostemps,
   caml_extunix_realpath, caml_extunix_statvfs, caml_extunix_signalfd,
   caml_extunix_eventfd, caml_extunix_setenv, caml_extunix_unsetenv,
   caml_extunix_fexecve, caml_extunix_getifaddrs, caml_extunix_backtrace,
   caml_extunix_malloc_info}

EventfdStubs == {caml_extunix_eventfd_read, caml_extunix_eventfd_write}

Table == NameStubs \cup PlainStubs \cup WaitingStubs \cup LockedStubs \cup EventfdStubs
=============================================================================
