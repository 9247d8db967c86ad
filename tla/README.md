# TLA+ models of extunix

extunix is a library of thin OCaml bindings to system calls: C stubs in
`src/src/*.c`, their OCaml declarations and argument checks in
`src/src/extUnix.pp.ml`, and a build that discovers which functions a platform
has (`src/discover`, `src/ppx_have`). The specifications here model the parts
with control flow of their own, check them with TLC and prove their central
properties with TLAPS.

## 1. Inventory

| Component | State | Operations | What is hard | What makes it correct |
|---|---|---|---|---|
| Transfer loops on Bytes (`unistd.c` 182-475) | locals `off, ofs, len, processed`, stack buffer `iobuf` | `{all_,single_,,intr_}{pread,pwrite,read,write}`, 64-bit entry points | lock released during the system call, moving collector, partial transfers, EINTR/EAGAIN/other errors after progress, chunks | memory safety, exact counts, exact contents, the documented contract per variant |
| Transfer loops on bigarrays (`pread_pwrite_ba.c`) | `off, buf, len, processed` | the same on bigarrays | the kernel works on the OCaml data itself | the same |
| eventfd (`eventfd.c`) | kernel counter | create, read, write | blocks with the runtime lock held | a writer thread can wake a reader |
| syslog (`syslog.c`) | static `ident` shared with libc | openlog, closelog, syslog, setlogmask | `ident` freed while another thread is inside libc | libc never uses freed memory |
| Descriptor passing (`sendmsg.c`) | socket queue, descriptor ownership | sendmsg, recvmsg | partial sends, truncation, error paths that own a descriptor | a descriptor arrives once, or somebody closes it |
| Stubs around one system call (`atfile.c`, `rename.c`, `mount.c`, `mktemp.c`, `fsync.c`, `splice.c`, `signalfd.c`, `poll.c`, `wait4.c`, ...) | C copies of arguments, OCaml roots | copy, release the lock, call, take the lock, free, raise or decode | each step may fail, other threads collect, calls wait | memory freed once on every path, no stale address |
| Byte order (`endian.c`, `endianba.c`, `bigarray.c`) | the buffer | get, set and swap for widths and orders, substrings | boundary widths, signs, truncation, the machine's order | round trip, no access outside |
| Discovery and build (`discover.ml`, `ppx_have.ml`) | set of features found | probe, generate `config.h`/`config.ml`, expand `%%have` | two generators must agree | every external has its stub |
| Flag tables (`rename.c`, `statvfs.c`, `atfile.c`, ...) | constant tables | list of constructors to bit mask and back, masks of the functions that use them | constructor order against table order, a mask per function | each constructor sets its own flag, each function gets those it supports |
| wait4 (`wait4.c`) | children, status word | wait4 | a child ends during and after the call, nothing to report, stops | the status names what happened to that child |
| Limits and priorities (`resource.c`, module `Rlimit`) | limits of the process | getrlimit, setrlimit, comparison, priorities | unsigned against signed, infinity, -1 as a value | a limit can be restored, the order is the system's |
| fallocate for Windows (`fallocate.c`) | file size, file pointer | `caml_fallocate_do` | six calls in a row, each may fail, others use the file | the file does not shrink, the pointer comes back |
| readlinkat (`atfile.c`) | a growing buffer | `readlinkat_malloc` | the link is replaced between two rounds | a whole target that the link had |
| splice, tee, vmsplice, fadvise, fallocate | none | offsets and lengths to the system | `int` arithmetic | the system gets the numbers the program meant |
| Single calls (`unistd.c`, `pts.c`, `tty_ioctl.c`, `sockopt.c`, `sysconf.c`, `ptrace.c`, `time.c`, ...) | `errno` | one call and its result | conventions of failure differ, `errno` is stale | errors and values are the ones of this call |
| Everything else | none | copies of what the system reports | nothing beyond the call | - |

All stubs interact through the OCaml runtime: one runtime lock, released between
`caml_enter_blocking_section` and `caml_leave_blocking_section`, and one heap
whose values move when any thread collects. `PROJECT.json` lists every component
with its sources, and the hazards at the line where they bite.

## 2. Modules

| Module | Models | Role |
|---|---|---|
| `RwArgs` | wrappers in `extUnix.pp.ml` | the `invalid_arg` conditions in wrapping OCaml integers |
| `RwLoop` | `unistd.c`, `pread_pwrite_ba.c` | threads, lock, collector, kernel and the eight `*_common` functions |
| `RwContract` | interface comments of `extUnix.pp.ml` | abstract specification: when a variant may go on, return or raise |
| `RwRefinement` | - | the mapping from `RwLoop` to `RwContract` |
| `RwLoopProofs` | - | theorems about `RwLoop` and `RwArgs`: counters and memory safety |
| `RwContentProofs` | - | theorems about `RwLoop`: what the buffers hold |
| `RwRefinementProofs` | - | `RwLoop` implements `RwContract` |
| `StubTable` | 45 stubs in 22 C files | one record per stub: what it copies, releases, frees, uses and raises |
| `Stubs` | how a stub runs | threads, lock, collector, failures; the three steps of every stub |
| `StubsProofs` | - | theorems about `Stubs` |
| `Syslog` | `syslog.c`, `log_upto` | openlog, closelog, syslog, setlogmask with the C library's state |
| `SyslogProofs` | - | theorems about `Syslog` |
| `Endian` | `endian.c`, `endianba.c`, `endian_helper.h`, `bigarray.c`, their wrappers | integers and substrings in buffers |
| `EndianProofs` | - | theorems about `Endian`: bounds, values and bytes |
| `FdPass` | `sendmsg.c`, its wrappers | messages and descriptors over a socket |
| `FdPassProofs` | - | theorems about `FdPass` |
| `FlagTables` | types in `extUnix.pp.ml` against tables in 15 C files | flags and constants, renameat2 with the files it moves |
| `Results` | 49 stubs in 18 C files | one record per stub: the convention of its call and what it makes of the answer |
| `Rlimit` | `resource.c`, module `Rlimit` of `extUnix.pp.ml` | limits on both sides |
| `Wait4` | `wait4.c` | children and status words |
| `Fallocate` | `fallocate.c`, Windows | the sequence of `caml_fallocate_do` |
| `Readlinkat` | `readlinkat_malloc` | the loop against a changing link |
| `Numbers` | `splice.c`, `fadvise.c`, `fallocate.c` | offsets and lengths |
| `Build` | `discover.ml`, `ppx_have.ml`, the `#if` of the C files | features, externals, constructors, stubs |
| `Process` | - | composes nine parts that share no state: the eight above and `Endian` |
| `ProcessProofs` | - | theorems about the eight parts above `Process` |
| `MCRwLoop`, `MCStubs`, `MCSyslog`, `MCFdPass`, `MCProcess` | - | instances for TLC |

### RwLoop: state and actions

`lock` is the runtime lock, `pc[t]` where thread `t` is: in OCaml code, at the
head of the while loop, inside the system call, or behind it waiting for the
lock. `off`, `ofs`, `len`, `processed`, `iobuf`, `ret` and `errno` are the
locals of the `*_common` functions (the bigarray versions advance a pointer
`buf`; the model uses `ofs` for both). `heap[t][a]` is memory at address `a` and
`loc[t]` the address of `t`'s buffer; `dst[t]` is what the kernel was given.
`before`, `moved` and `xfer` are history variables that no action reads to decide
anything.

Code between two lock operations is one action, since no other thread runs then:

* `Start(t, r)`: the wrapper's check and the prologue of the stub.
* `Enter`: loop head to `caml_enter_blocking_section`, for writes with the
  `memcpy` into `iobuf`; `LoopEnds`: `len` is 0; `SignalRaises`: a pending
  OCaml signal handler raises inside `caml_enter_blocking_section`.
* `KernelRead`, `KernelWrite`, `KernelZero`, `KernelFail`: every answer a
  system call may give: any count from one byte up, 0, and EINTR, EAGAIN or
  another error (`EIO`). A full device fails or answers 0; it answers 0 to
  the writes of the variants in `ZeroWrites`.
* `LeaveEmpty`, `LeaveMoved`: from `caml_leave_blocking_section` to the next
  loop head, the return or the exception.
* `Acquire`, `Yield`, `GC`: the OCaml runtime (external).

`BytesRead`, `BytesWrite` and `BigarrayLoop` put the pieces together the way
the three shapes of loop in the source do; the eight `caml_extunix*_common`
actions select one by the operation and the kind of the buffer. EWOULDBLOCK is
EAGAIN on the supported platforms. Each thread uses a buffer of its own: two
calls on one buffer at a time are a race of the caller.

### Stubs: state and actions

`StubTable` says of each stub what its code does around its system call; the
comment at its head explains the fields. `Stubs` runs any of them in any thread:

* `Prologue(t, s)`: early returns and `invalid_arg`, the copies (each may raise
  Out_of_memory when the ones before it succeeded), and
  `caml_enter_blocking_section`, where a signal handler may collect or raise.
* `Syscall(t, o)`: the call succeeds or fails; `waits` marks calls that may
  never answer.
* `Epilogue(t)`: takes the lock back, frees, raises or builds the result (which
  may raise: Out_of_memory, or an error of the stub's own such as EOVERFLOW of
  fstatat and inet_ntop in getifaddrs), frees the rest.
* `Acquire`, `Yield`, `GC`: the OCaml runtime (external).

`live[t][m]` counts how often memory `m` is allocated (-1 would be a double free),
`moved[t]` says whether a collection has moved the values of `t`'s call.

### Syslog: state and actions

`ident` is the static variable, `copies` and `text` the strings `openlog`
allocates, `tag` and `mask` the C library's `LogTag` and `LogMask`, `libc` its
lock. The `caml_extunix_*` actions are the stubs up to the C library's call, the
`libc_*` actions (external, after glibc and BSD) the calls, `*_return` the rest
behind `caml_leave_blocking_section`; openlog and closelog keep the runtime lock
throughout. `syslog` is two steps of the C library, between which the tag is in
use. `Reopen` says whether callers open an open log again.

### Endian: state and actions

`buf` is one string, Bytes or bigarray (`kind`), `host` the byte order of the
machine. `GET`, `SET` and `CONV` are the macros of the same names; `conv` is
`htobe16` and its siblings as `endian_helper.h` selects them. The modules
`BigEndian`, `LittleEndian`, `HostEndian` and the ones in `BA` are actions;
`get(o, X, off)` and `set(o, X, off, v)` have the wrapper's check and the stub's
`memcpy`. `last`, `touched`, `before` and `stored` are history variables. C
integers, sign extension, `Val_long`'s lost bit and byte order are computed, only
a byte has `Base` values instead of 256.

### FdPass: state and actions

`queue` is the socket: one entry per byte of a stream, or per datagram, with the
descriptor attached to the first byte. Messages are numbered; a byte is its
message and its place in it, and a descriptor has its message's number. `desc[m]`
says where the passed copy of the descriptor is: kept by the sender, in flight,
installed in the receiver's table, dropped by the system, or closed.
`caml_extunix_sendmsg` and `sendfd` begin a call, the `Kernel*` actions (external)
take and deliver bytes in pieces, `sendmsg_return` is the rest of the stub with the
count it ignores. On the other side `recvmsg_return(w, oom)` is everything from the
answer of the system to the result of wrapper `w`, with an allocation that fails
(`oom`). `creds` makes the system send credentials instead of the descriptor, for
which there is room only once; `MaxFds` bounds the table. `due`, `leaked` and `last`
are history variables.

### FlagTables: state and actions

A list of constructor numbers goes through a table (`Mask`); a mask is the set of
its flags' names. `HandsOn` stands for all stubs that hand such a mask, or one
constant, on; `caller` is the function. `Passed` is what the function does to the
converted mask: the *at functions keep only the flags in `AtMask` (`flags &= ...`),
mkostemps adds O_CLOEXEC. `AtBit` says that AT_EACCESS and AT_REMOVEDIR are one
bit on Linux. `caml_extunix_renameat2` changes `files`, `caml_extunix_statvfs`
decodes a mask.

### Results: state and actions

`errno` is the thread's and keeps what the last call left there. `Answers` (external)
lists what a C function of each convention may answer and leave in `errno`: functions
that return a status, a pointer, a value for which -1 is possible, the error itself,
and so on. A record says what the stub makes of it: whether it clears `errno` before,
when it takes the answer for a failure (`test`), which error it raises (`raises`), and
which errors have results of their own. `CallStub` is a call, `CallEarly` an end
without one. `said` is what the system meant, `result` what the program got. The
records describe the code for POSIX systems.

### Rlimit, Wait4, Fallocate, Readlinkat, Numbers

* `Rlimit`: `rlim` are the limits of the system, `saved` the last result of
  getrlimit; `prlimit` (external) is another process that sets them. `Half` is 2^63.
* `Wait4`: `child[p]` is running, reaped or has an event to report. A call has three
  steps: `caml_extunix_wait4` to the system, `KernelReports`, `KernelNothing` or
  `KernelWaitFails` there, `wait4_return` back; the word starts as garbage. Calls wait
  for any child.
* `Fallocate`: one action per call to Windows, `caml_fallocate_error` after any of
  them, and writers through the same handle and through others. Offsets and
  lengths are any `__int64`; nobody else truncates the file.
* `Readlinkat`: one action per round of the loop; `Replace` (external) in between.
* `Numbers`: one call; `wanted` are the program's numbers, `got` the system's.

### Build: state and actions

`found` are the features of a platform, `disabled` the options. `discover` decides
what is configured, `have_expand` expands the sections into `Specific` and `All` with
the table of `All.have`, `have_constr` those constructors of `Specific` that have a
condition of their own (RENAME_WHITEOUT), `compile` leaves the stubs whose `#if` holds,
or an error if code uses what no included header declares or what the platform does not
have. One external stands for all of a section. `Implied` is an assumption on platforms:
where fstatvfs is found statvfs is, and three more pairs of this kind.

### Process

The nine parts keep no state in common and a stub of one does not call another, so
an interleaving of them has nothing to show. `Process` chooses one (`area`) in the
beginning and leaves the others as they are; its behaviours are those of the parts.

## 3. What the runs check

The `rw_` runs use two threads, buffers of 2 or 3 bytes, a chunk size
(`UNIX_BUFFER_SIZE`) of 1 or 2 and a file of 2 or 3 bytes, so that a request
takes several chunks, the last chunk is shorter than the others, and both end of
file and a full device occur after progress. `max_int` is 7, so that `ofs + len`
can overflow. Bytes carry their origin (file, first or second buffer, position),
so a byte in a wrong place is seen. `MaxCalls` is 1 per thread: the loops keep no
state from one call to the next except the shared file offset and contents, which
the other thread's call already changes at every point.

* `rw_mixed` (1 686 630 states): Bytes calls, readers and writers in all variants
  and all combinations of edge values for `off`, `ofs` and `len`, next to every
  bigarray call. `InBounds` (memory safety); `CountIsExact` (the count returned is
  what the kernel moved, and an error of all but the `all_` variants means that
  nothing was); `BufferIsExact` (a read changes exactly the bytes delivered,
  wherever the collector put the buffer; a write changes nothing); `SentIsPrefix` (a
  write sends its window in order, no byte twice); `ImplementsContract`: `RwLoop`
  implements `RwContract` under the mapping of `RwRefinement`. The contract lets
  `all_write` and `all_pwrite` return a short count on EAGAIN only, and never 0; it
  holds as long as no device answers their writes with 0 bytes (`AllWritesProgress`),
  so `ZeroWrites` has the other three variants here and all four in the other runs.
* `rw_zero_write` (expected violation of `NeverZero`): without that assumption
  all_pwrite returns 0, since its loop ends on `ret == 0` as that of a read does.
* `rw_live` (34 712 states): two threads on Bytes, one thread's descriptor gets
  ready and the other's may block for ever. `TypeOK`, `HeapUnderLock` (a Bytes value
  is only written by the thread that has the lock) and `Completes`.
* `rw_largefile` (expected violation): `LargeFile.pread` does not check its
  window although the comment calls it a 64-bit variant of `pread`. `InBounds`
  fails. See "findings" in `PROJECT.json`.
* `stubs` (103 493 states): one thread may call any stub but eventfd's, and what
  it waits for may never come; another calls the stubs with the most memory to
  free, some that give heap addresses to the system, and eventfd's. One call
  each: stubs keep nothing between calls. `TypeOK` (nothing is freed twice);
  `PointersValid` (what a system call works on stays allocated and in place);
  `NothingLeaks` (no C memory is left behind, unless the runtime itself raises; when
  inet_ntop fails, getifaddrs does lose its list, and only that); `OthersComplete` (a
  thread whose calls are answered gets back to OCaml whatever the other one waits
  for). That the errors raised are the right ones is `ResultIsTrue` below.
* `stubs_eventfd` (expected violation of `OthersComplete`): eventfd_read waits
  with the lock held.
* `syslog` (1 165 639 states): two threads with three calls each, two
  idents, two openings, three mask arguments, levels on both sides of a mask.
  `TypeOK` (a copy is freed once); `TagAlive`; `TagIsCurrent`; `MaskRestorable`.
* `syslog_reopen` (expected violation of `TagAlive`): one thread that opens an
  open log again is enough.
* `fdpass` (173 852 states): two senders with two calls between them: empty
  messages, messages as long as the receiver's buffer (2 bytes) and longer ones with
  a descriptor, on stream and datagram sockets with room for 3, and a table with one
  free place, so that partial sends, messages in pieces, interleaved senders and
  dropped descriptors all happen. `TypeOK`; `SendIsHonest` (an error means that nothing
  was sent; success that the beginning and the descriptor were); `FdsHaveOwners`;
  `StreamInOrder` (the bytes a stream took are returned in order, none twice);
  `FdWithItsData`; `EmptyIsEnd`; `RecvfdFinds`; `Delivered` (every call of sendmsg
  ends and no descriptor stays in the socket).
* `process` (387 228 states), per part:
  - flags: every list of up to two flags of every family given to every function that
    treats it in its own way, every constant, all 4096 masks of statvfs:
    `FlagsAsNamed` (the system gets the flags that were named; an *at function those it
    supports, and mkostemps one more), `StFlagsExact`. unlinkat with AT_EACCESS is
    exempt: the mask takes it for AT_REMOVEDIR, the same bit;
  - results: sequences of all calls with four errors, values -1, 0 and 1, and any
    `errno` left behind: `ResultIsTrue`. `Blurred` names the answers to five stubs that
    are exempt, since these do blur what the system said: two of them are the hazards
    at `sysconf.c:70` and `ptrace.c:35`, for which no property is stated;
  - limits: `Half` = 4 and infinity the largest unsigned number, as on Linux:
    `LimitsRestorable`, `SoftBelowHard` (proved for the infinity of the BSDs, too);
  - wait4: two children, exit codes 0, 127 and 255, signals with and without a number
    of OCaml's own: `WaitTellsTruth`;
  - fallocate: sizes up to 3 and arguments from -4 to 3, so that `off + len` overflows
    on both sides, and two bytes written by others: `FallocateKeeps`, which says what
    is kept whatever they do;
  - readlinkat: targets of 1 to 5 bytes, a first buffer of 2, three replacements:
    `LinkIsWhole`;
  - numbers: an `int` of 3 bits in a word of 5, up to two buffers: `ArgumentsReach`,
    which states the ranges in which vmsplice is right, and that splice and tee hand on
    an offset and a length exactly if they fit an `int` (the comment of `splice` at
    `extUnix.pp.ml:2221` knows no such limit);
  - build: 71 features on Unix, 16 on Windows, up to two of them not found or
    disabled: `BuildIsWhole`. `Unlucky` names the options that break a build,
    `Unsuited` the platform that does (statvfs without fstatvfs, which `statvfs.c:127`
    calls all the same); a build is whole exactly if it is neither.
    Two show every condition of the code; `EveryBuildIsWhole` proves it for any number;
  - byte order: bytes of two bits (`Base` = 4), so that a word has 16; buffers of 0, 3
    and 9 bytes; offsets before, at and behind the ends, and the one at which the
    widest type just fits; values at the ends of the types; two calls in a row, one
    that stores and one that reads. `InBounds`, `GetIsExact`, `ConvAgrees`,
    `SetIsExact`, `RoundTrip`.
* `build_disable` (expected violation of `DisableLeavesRest`): `--disable-statvfs`
  leaves `fstatvfs` without its stub.
* `flags_rename` (expected violation of `NoReplaceKeeps`): RENAME_NOREPLACE
  reaches the system as RENAME_EXCHANGE.

`process`, `flags_rename` and `build_disable` say CHECK_DEADLOCK FALSE: the
calls of a program and a build come to an end there. In `fdpass` the receiver
can
always be interrupted and call again. In the other runs a thread that has made all of
its calls still takes and yields the lock, and no state is without a successor;
in `stubs_eventfd` that very thread is what `OthersComplete` is about.

Fairness in `stubs` and `stubs_eventfd`: `Yield` and `Epilogue` are strongly fair,
because the tick thread of the runtime makes the holder yield and a waiting thread
is not passed over for ever; system calls are weakly fair only where they do not
wait or the thread is in `Ready`.

Fairness in `rw_live`: `Stub(t)` and `Yield(t)` are strongly fair, because
the tick thread of the OCaml runtime forces the holder of the lock to yield and
waiting threads are not passed over for ever; the kernel answers threads in
`Ready` with something other than EINTR again and again. Nothing is assumed of
the other threads' system calls.

Fairness in `fdpass`: the receiver goes on calling recvmsg, system calls that can make
progress again and again are answered in the end and not always interrupted (strong
fairness of `KernelReceives` and `KernelSends`), and a stub that is back from the
system returns. The sender's `Close` and the receiver's `CloseFd` need not happen.

Each property has a mutant, a plausible slip in the code that breaks it: the
check as a sum, a chunk size forgotten in one place, copying `numbytes` instead
of `ret`, filling from the start of the window, passing the heap address to the
kernel, a missing `ret == 0` test, the wrong mode bits, a free in the wrong
branch, a blocking call under the lock, a flag out of order, `Val_int` for
`Val_long`, a descriptor nobody closes, `errno` not cleared, `<=` for `<`, a type in
the wrong section.

## 4. What is proved

`RwLoopProofs` proves, for every set of threads and calls and all sizes:

* `WindowCheckExact`: the wrapping check accepts exactly the windows inside the
  buffer.
* `Invariance`: `Spec => []IInv`, and from it `TypeCorrect` (`TypeOK`),
  `MemorySafety` (`InBounds`), `CountsAreExact` (`CountIsExact`) and
  `HeapIsLocked` (`HeapUnderLock`).

Assumptions: the constants' (`MaxIntAssumption`, `RwAssumption`,
`CallsAssumption`), and `LargeFileCallersCheck`: callers of the LargeFile
functions on Bytes keep their windows inside the buffer, which `rw_largefile`
shows to be necessary.

`InBounds` and `CountIsExact` are not inductive: that `ofs + len` stays inside the
buffer needs that `ofs` and `len` are the request's window shifted by
`processed`; that the count is right needs that `moved` is `processed` plus
what the last system call moved and the loop has not booked yet. `IInv` is
`TypeOK`, `LockInv` (a stub runs under the lock; the kernel has `iobuf` for
Bytes), `Bookkeeping` (the two facts above, the chunk limit, and that a `single_`
call has no progress before its only transfer) and `CountIsExact`. There is one
lemma per action or group of actions; `AcceptedInWindow` connects the wrapper's
check with the start of the loop.

`RwContentProofs` adds what the buffers hold. `ContentInv` says of every thread
that its OCaml buffer is the one the call started with, overwritten by the first
`Landed` bytes of the transfer (for a write: not at all), and what the stack
buffer holds. It has to tell `Landed` from `moved`, because the loops on Bytes
copy after the system call while the kernel writes into a bigarray directly, and
it needs the contents of `iobuf` on both sides of the system call: between the
`memcpy` and `pwrite` for a write, between `pread` and the `memcpy` for a read.
`ContentInvariance` proves `IInv /\ ContentInv` invariant (`IInv` supplies that
the copies stay inside both buffers), and from it `BuffersAreExact`
(`BufferIsExact`) and `WritesInOrder` (`SentIsPrefix`).

`RwRefinementProofs` proves `ContractImplemented` (`ImplementsContract`): under the
mapping of `RwRefinement` the initial states are initial states of `RwContract`
(`CInitially`), and every step of the loops is a step of the contract or leaves its
variables alone (`StepRefines`). There is a lemma for each shape of return: a call that
`LeaveMoved` or `LeaveEmpty` ends has to show the outcome its variant may have. `IInv`
supplies what the mapping does not show by itself, that `processed` is what was
moved when a call returns and that a `single_` call ends with its first transfer.
The assumptions are `LargeFileCallersCheck` again and `AllWritesProgress`, which
`rw_zero_write` shows to be necessary: `ZeroInv` says that a write was answered with 0
bytes only where a device may do so.

`StubsProofs` proves for any threads and any selection of calls `StubInvariance`
(`StubInv`), and from it `PointersAlwaysValid` (`PointersValid`), `MemoryIsFreed`
(`NothingLeaks`) and `NothingFreedTwice` (`TypeOK`). `TableDisciplined`
shows of each stub that it is `Disciplined`: it frees what it owns exactly once
on each path (but for getifaddrs when inet_ntop fails), gives heap addresses only to
calls made under the lock, and registers what it uses later. `StubInv` adds to the properties what a stub owns
in the middle of its call (`InCall`), without which nothing is known about what
`Epilogue` frees, and that a stub that does not release the lock has it, without
which another thread could collect under it.

`SyslogProofs` proves `TagInvariance` (`TagInv`), `TagIsSafe` (`TagAlive`),
`MessagesAreTagged` (`TagIsCurrent`) and `CopiesFreedOnce` (`TypeOK`), assuming
`ClosedFirst`: callers close the log before they open it again. `syslog_reopen` shows
that this is needed. `TagInv` says that the C library's tag is the copy in `ident` or
nothing, and that it is nothing while openlog replaces that copy. `MaskIsRestorable`
(`MaskRestorable`) holds for any callers: `DecodeEncode` says that the list that the
loop of setlogmask builds stands for the mask it was built from, and `MaskInv` carries
the mask from the C library's call to the return of the stub.

`EndianProofs` proves, for every buffer, offset and value, hosts of both orders and
every number of values a byte may have that is a multiple of 4 (256 among them):

* `AccessInBounds` (`InBounds`), by `BoundsInv`, which adds that a buffer's places are
  numbered from 0 to its length;
* `GetReadsTheInteger` (`GetIsExact`), `ConversionsAgree` (`ConvAgrees`),
  `SetWritesTheInteger` (`SetIsExact`) and `StoredIsReadBack` (`RoundTrip`), by `ExactInv`.

None of the last four is inductive: that a get returns what was stored needs that the
stored bytes are still in place (`StoredIsThere`), and what a call returned says
something about the buffer only as long as it is what the bytes of its window give
(`GetIsFound`, `SetIsKept`). The rest is arithmetic: `NumberDigits` and `DigitsNumber`
(an integer and its bytes determine each other), `MirrorTwice`, `ConvLoad` and
`ConvStore` (`conv` and the host's order together are the function's order), and
`BoxAs`, `BoxKeeps` (which bits survive `Val_long`). Base is a multiple of 4
because `Val_long` drops one bit of eight bytes and signs need another.

`FdPassProofs` proves for any senders, requests, size of the buffer, room in the socket
and size of the descriptor table: `FdPassType` (`TypeOK`), `SendTellsTruth`
(`SendIsHonest`), `EveryFdHasItsOwner` (`FdsHaveOwners`), `StreamStaysInOrder`
(`StreamInOrder`), `FdComesWithItsData` (`FdWithItsData`), `OnlyTheEndIsEmpty`
(`EmptyIsEnd`) and `RecvfdFindsItsDescriptor` (`RecvfdFinds`). They speak of what the
program got and depend on what is still on its way. The invariant `FdInv` relates

* each sender to its message (`SenderInv`) and each message to what the socket took of
  it and to its descriptor (`Taken`);
* the queue to the messages (`QueueInv`): a descriptor in flight is in exactly one entry,
  on a stream with the first byte of its message, and the bytes behind that one belong
  to the message up to the end of the piece (`PieceInv`, `Block`), because of which a
  receive that stops at such an end cannot mix two messages behind a descriptor;
* the descriptors to their owners, a call in progress included (`OwnerInv`);
* what the system has answered, but the stub has not returned yet, to both
  (`AnswerInv`, `DataInv`, `EndInv`).

`ProcessProofs` starts from `Projects`: a behaviour of `Process` is one of each part.

* `RestoreLimits` (`LimitsRestorable`) and `SoftStaysBelowHard` (`SoftBelowHard`), for
  every width and both values of infinity. Both rest on `decode_limit` undoing
  `encode_limit` on every limit, for which the conversions between signed and unsigned
  have to be inverse and no limit other than infinity may become `None`. The invariant
  adds that `saved` is what `encode_limit` makes of `origin`, and that the system keeps
  the soft limit below the hard one.
* `FallocateIsSafe` (`FallocateKeeps`). `FallocateInv` says at each of the calls what is
  known of the size (for all arguments; `WillGrow`: the new end lies behind the size the file had, and the
  sum did not overflow), of the pointer (`PointerIsBehind`: others only move it on;
  `PointerIsKept`) and of the file if nobody else wrote (`Undisturbed`).
* `ReadlinkatIsWhole` (`LinkIsWhole`): inside the loop the link's
  target is one of those seen since the call began, and a buffer is doubled only while
  it is too small for some target.
* `WaitIsTrue` (`WaitTellsTruth`): `WordIsUnderstood` shows that `wait4_return` decodes
  every status word the system can build; `AnswerIsTrue` keeps between the system's answer
  and the return that the word is the one of that child's event.
* `ArgumentsArrive` (`ArgumentsReach`), for every width of `int` and of a word.
* `FlagsKeepTheirNames` (`FlagsAsNamed`), for lists of any length: `TablesAgree` compares
  each table with its type, `MaskIsMeaning` carries that over to lists, and
  `PassedIsSupported` compares the masks of the functions with what they support.
  `StatvfsIsExact` (`StFlagsExact`) goes through the twelve rounds of `convert_st_flags`.
* `EveryBuildIsWhole` (`BuildIsWhole` for `AnyBuildSpec`): any set of features may be found
  and any set disabled, under the assumption `Implied`; a build is whole exactly if it is
  neither `Unlucky` nor `Unsuited`. `ProcessBuildsWhole` is the same for the instance of the run.
* `ResultsAreTrue` (`ResultIsTrue`): `StubsMatch` shows of every record that its test and
  its error fit the convention of its call; `PlainTold` and `AmbiguousTold` that
  such a stub tells the truth whatever `errno` was before. No stronger invariant is needed,
  since nothing but `errno` goes from one call to the next, and any `errno` will do.

The loops over tables and bytes are recursive functions with a small fixed domain (8 or
12 table entries, up to 8 bytes). Their values are obtained round by round, so that no
induction over data is needed; only `Bytewise` in `EndianProofs` states induction
over the at most 8 bytes of an integer, written out.

Two corrections of the models came out of the proofs. `Unlucky` had left out builds in
which inet_ntoa is disabled, inet_ntop not found (or the other way round) and one of the
two interface lists is configured. And the results of recvmsg had overlapping cases, of
which TLC takes the first one and a proof may not.

Only model-checked is liveness, which is outside of the prover's reach: `Completes`,
`OthersComplete` and `Delivered`. Every invariant, the action property and the
refinement that the passing runs check are theorems.

## 5. Not modelled, and the plan

What is left of the library's own control flow: the Windows versions of statvfs,
realpath and time.c, the msg_accrights variant of sendmsg.c, the loop of
ioctl_siocgifconf, wait4 for one particular child, the result of gettid, which is cut
to an `int` (`unistd.c:62`), truncation by others during fallocate, and the hazards in
`PROJECT.json` that have a note instead of a property. On the side of the proofs a general form of
`TableDisciplined` and `StubsMatch` would make a new stub a single obligation.

Left out for good: ioctl_siocgifconf (copies an array of at most 32 interfaces),
malloc_stats, mtrace and muntrace (no result), the accessors of signalfd's record,
the values of records copied field by field (stat, statvfs, sysinfo, tm, the usage of
wait4; where a stub builds such a record, the model has that it may raise, and the map
names the stub's lines), texts
(Rlimit.to_string, time formats of the C library), and `src/src/TODO`, which is not
built.

Abstracted: in `Stubs`, `errno` between a system call and `caml_uerror` is taken to be the
call's (`caml_leave_blocking_section` keeps it); the names of mkstemp, the contents
of stat records and addresses are what the system says; 32-bit platforms are left
out.
