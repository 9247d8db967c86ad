------------------------------- MODULE RwLoop -------------------------------
(***************************************************************************)
(* The transfer loops of src/src/unistd.c (Bytes/string buffers) and       *)
(* src/src/pread_pwrite_ba.c (bigarrays): OCaml threads that share one     *)
(* runtime lock call all_/single_/plain/intr_ variants of pread, pwrite,   *)
(* read and write on one file.                                             *)
(*                                                                         *)
(* A thread executes OCaml code and C stubs only while it holds the        *)
(* runtime lock; caml_enter_blocking_section gives it up for the time of   *)
(* the system call.  The steps of a stub between two lock operations are   *)
(* therefore one action.  While the lock is released another thread may    *)
(* run the garbage collector, which moves Bytes values; bigarray data is   *)
(* allocated outside the heap and stays where it is.                       *)
(*                                                                         *)
(* Every thread has one buffer of its own.  Two concurrent calls on one    *)
(* buffer are a race of the caller, outside what the library promises.     *)
(***************************************************************************)
EXTENDS RwArgs

CONSTANTS
  Threads,           \* OCaml threads
  NoThread,          \* the runtime lock is free
  UNIX_BUFFER_SIZE,  \* size of the C stack buffer iobuf
  BufLen,            \* length of every OCaml buffer, in bytes
  Kind,              \* Kind[t]: is t's buffer a "Bytes" or a bigarray "BA"
  Calls,             \* Calls[t]: the calls thread t may make
  Ready,             \* threads whose system calls complete some day
  MaxCalls,          \* bound: how many calls a thread makes
  FileMax,           \* capacity of the file's device
  ZeroWrites,        \* variants whose writes a full device may answer with 0
  InitSize,          \* bytes in the file at the start
  Byte,              \* byte values
  InitFile, InitBuf, \* initial bytes of the file and of the buffers
  Junk               \* what reused or uninitialised memory holds

ASSUME RwAssumption ==
  /\ NoThread \notin Threads
  /\ ZeroWrites \subseteq {"all", "single", "plain", "intr"}
  /\ UNIX_BUFFER_SIZE \in Nat \ {0}
  /\ BufLen \in Nat /\ BufLen <= max_int
  /\ Kind \in [Threads -> {"Bytes", "BA"}]
  /\ FileMax \in Nat /\ MaxCalls \in Nat
  /\ Ready \subseteq Threads
  /\ InitSize \in 0..FileMax
  /\ Junk \in Byte
  /\ InitFile \in [0 .. FileMax - 1 -> Byte]
  /\ InitBuf \in [Threads -> [0 .. BufLen - 1 -> Byte]]

Op      == {"pread", "pwrite", "read", "write"}
Variant == {"all", "single", "plain", "intr"}
Request == [op : Op, variant : Variant, large : BOOLEAN,
            off : Int, ofs : OCamlInt, len : OCamlInt]

ASSUME CallsAssumption == Calls \in [Threads -> SUBSET Request]

Errors   == {"EINTR", "EAGAIN", "EIO"}   \* EIO stands for all other errnos
Addr     == {"heap0", "heap1"}           \* the places a Bytes value can be
BufIndex == 0 .. BufLen - 1
IobufIndex == 0 .. UNIX_BUFFER_SIZE - 1
FileIndex  == 0 .. FileMax - 1

VARIABLES
  lock,       \* holder of the OCaml runtime lock, or NoThread
  pc,         \* "ocaml", "loop", "syscall" or "leave"
  req, calls, \* the current or last call; how many calls were made
  off, ofs, len, processed,   \* locals of the *_common functions
  iobuf,      \* the stack buffer
  dst,        \* the buffer handed to the kernel: "iobuf" or a heap address
  ret, errno, \* outcome of the last system call
  result,     \* how the last call ended
  heap, loc,  \* heap[t][a]: memory at address a; loc[t]: where t's buffer is
  file, size, pos,            \* the open file and its shared offset
  before, moved, xfer         \* history: buffer at the start of the call,
                              \* number of bytes the kernel moved, and which

frame   == <<off, ofs, len, processed>>
memory  == <<heap, loc>>
kernel  == <<file, size, pos>>
history == <<before, moved, xfer>>
vars    == <<lock, pc, req, calls, frame, iobuf, dst, ret, errno, result,
             memory, kernel, history>>

-----------------------------------------------------------------------------
Min2(a, b) == IF a <= b THEN a ELSE b

\* memcpy(&to[at], &from[start], n)
Blit(to, at, from, start, n) ==
    [i \in DOMAIN to |-> IF at <= i /\ i < at + n THEN from[start + (i - at)]
                                                  ELSE to[i]]

JunkIobuf == [i \in IobufIndex |-> Junk]
JunkBuf   == [i \in BufIndex |-> Junk]

Positional(r) == r.op \in {"pread", "pwrite"}
IsRead(r)     == r.op \in {"pread", "read"}

(***************************************************************************)
(* The mode bits each entry point passes to its *_common function.         *)
(***************************************************************************)
Mode(r) == CASE r.variant = "all"    -> {"NOINTR"}
             [] r.variant = "single" -> {"ONCE"}
             [] r.variant = "plain"  -> {"NOINTR", "NOERROR"}
             [] r.variant = "intr"   -> {"NOERROR"}

(***************************************************************************)
(* Does the wrapper raise Invalid_argument?                                *)
(***************************************************************************)
Rejected(t, r) ==
  IF Kind[t] = "BA"
  THEN IF ~Positional(r) THEN BAStreamRejects
       ELSE IF r.large THEN LargeFileRejects(r.off)
       ELSE BAPositionalRejects(r.off)
  ELSE IF ~Positional(r) THEN StreamRejects(r.ofs, r.len, BufLen)
       ELSE IF r.large THEN LargeFileRejects(r.off)
       ELSE PositionalRejects(r.off, r.ofs, r.len, BufLen)

\* The window of the buffer a call works on; a bigarray is used as a whole.
WinOfs(t, r) == IF Kind[t] = "BA" THEN 0 ELSE r.ofs
WinLen(t, r) == IF Kind[t] = "BA" THEN BufLen ELSE r.len

InWindow(t, r) == /\ WinOfs(t, r) >= 0 /\ WinLen(t, r) >= 0
                  /\ WinOfs(t, r) + WinLen(t, r) <= BufLen

\* The LargeFile functions on Bytes leave the window to their callers.
LargeFileCallersCheck ==
    \A t \in Threads : \A r \in Calls[t] : r.large /\ Positional(r) => InWindow(t, r)

\* No device answers the writes of all_write and all_pwrite with 0 bytes.
AllWritesProgress == "all" \notin ZeroWrites

\* How much one system call asks for: the bigarray loops have no limit.
numbytes(t) == IF Kind[t] = "BA" THEN len[t] ELSE Min2(len[t], UNIX_BUFFER_SIZE)

Buf(t)     == heap[t][loc[t]]
Running(t) == pc[t] \in {"loop", "syscall", "leave"}

Ok(n)    == [kind |-> "ok", n |-> n]
Raise(e) == [kind |-> e, n |-> 0]
Result   == [kind : {"none", "ok", "Invalid_argument", "exn"} \cup Errors, n : Nat]

-----------------------------------------------------------------------------
(***************************************************************************)
(* The OCaml runtime: threads take and yield the lock, and whoever runs    *)
(* OCaml code may trigger a collection that moves a Bytes value of any     *)
(* thread; the old place is reused.                                        *)
(***************************************************************************)
Acquire(t) ==
  /\ pc[t] = "ocaml" /\ lock = NoThread
  /\ lock' = t
  /\ UNCHANGED <<pc, req, calls, frame, iobuf, dst, ret, errno, result, memory, kernel, history>>

Yield(t) ==
  /\ pc[t] = "ocaml" /\ lock = t
  /\ lock' = NoThread
  /\ UNCHANGED <<pc, req, calls, frame, iobuf, dst, ret, errno, result, memory, kernel, history>>

GC(t, u) ==
  /\ pc[t] = "ocaml" /\ lock = t
  /\ Kind[u] = "Bytes"
  /\ loc'  = [loc EXCEPT ![u] = IF @ = "heap0" THEN "heap1" ELSE "heap0"]
  /\ heap' = [heap EXCEPT ![u] = [a \in Addr |-> IF a = loc[u] THEN JunkBuf ELSE Buf(u)]]
  /\ UNCHANGED <<lock, pc, req, calls, frame, iobuf, dst, ret, errno, result, kernel, history>>

(***************************************************************************)
(* The wrapper and the prologue of the stub.                               *)
(***************************************************************************)
Start(t, r) ==
  /\ pc[t] = "ocaml" /\ lock = t
  /\ calls[t] < MaxCalls
  /\ calls'  = [calls EXCEPT ![t] = @ + 1]
  /\ req'    = [req EXCEPT ![t] = r]
  /\ before' = [before EXCEPT ![t] = Buf(t)]
  /\ moved'  = [moved EXCEPT ![t] = 0]
  /\ xfer'   = [xfer EXCEPT ![t] = JunkBuf]
  /\ IF Rejected(t, r)
     THEN /\ result' = [result EXCEPT ![t] = Raise("Invalid_argument")]
          /\ UNCHANGED <<pc, frame>>
     ELSE /\ pc'        = [pc EXCEPT ![t] = "loop"]
          /\ off'       = [off EXCEPT ![t] = r.off]
          /\ ofs'       = [ofs EXCEPT ![t] = WinOfs(t, r)]
          /\ len'       = [len EXCEPT ![t] = WinLen(t, r)]
          /\ processed' = [processed EXCEPT ![t] = 0]
          /\ result'    = [result EXCEPT ![t] = Raise("none")]
  /\ UNCHANGED <<lock, iobuf, dst, ret, errno, memory, kernel>>

-----------------------------------------------------------------------------
(***************************************************************************)
(* The kernel, working on behalf of a thread inside a blocking section.    *)
(* A call moves one byte at least and any shorter count than asked for.    *)
(***************************************************************************)
At(t) == IF Positional(req[t]) THEN off[t] ELSE pos

Advance(t, k) ==
  /\ moved' = [moved EXCEPT ![t] = @ + k]
  /\ pos'   = IF Positional(req[t]) THEN pos ELSE pos + k
  /\ ret'   = [ret EXCEPT ![t] = k]
  /\ pc'    = [pc EXCEPT ![t] = "leave"]
  /\ UNCHANGED <<lock, req, calls, frame, dst, errno, result, loc, before>>

KernelRead(t, k) ==
  /\ pc[t] = "syscall" /\ IsRead(req[t])
  /\ k <= numbytes(t) /\ k <= size - At(t)
  /\ xfer' = [xfer EXCEPT ![t] = Blit(@, moved[t], file, At(t), k)]
  /\ IF dst[t] = "iobuf"
     THEN /\ iobuf' = [iobuf EXCEPT ![t] = Blit(@, 0, file, At(t), k)]
          /\ UNCHANGED heap
     ELSE /\ heap' = [heap EXCEPT ![t][dst[t]] = Blit(@, ofs[t], file, At(t), k)]
          /\ UNCHANGED iobuf
  /\ Advance(t, k)
  /\ UNCHANGED <<file, size>>

KernelWrite(t, k) ==
  LET src   == IF dst[t] = "iobuf" THEN iobuf[t] ELSE heap[t][dst[t]]
      start == IF dst[t] = "iobuf" THEN 0 ELSE ofs[t]
  IN  /\ pc[t] = "syscall" /\ ~IsRead(req[t])
      /\ k <= numbytes(t) /\ k <= FileMax - At(t)
      /\ xfer' = [xfer EXCEPT ![t] = Blit(@, moved[t], src, start, k)]
      /\ file' = Blit(file, At(t), src, start, k)
      /\ size' = IF At(t) + k > size THEN At(t) + k ELSE size
      /\ Advance(t, k)
      /\ UNCHANGED <<iobuf, heap>>

\* End of file, or a device that is full and says so by writing nothing
\* (most devices fail with ENOSPC instead).
KernelZero(t) ==
  /\ pc[t] = "syscall"
  /\ IF IsRead(req[t]) THEN At(t) >= size
     ELSE At(t) >= FileMax /\ req[t].variant \in ZeroWrites
  /\ ret' = [ret EXCEPT ![t] = 0]
  /\ pc'  = [pc EXCEPT ![t] = "leave"]
  /\ UNCHANGED <<lock, req, calls, frame, iobuf, dst, errno, result, memory, kernel, history>>

KernelFail(t, e) ==
  /\ pc[t] = "syscall"
  /\ ret'   = [ret EXCEPT ![t] = -1]
  /\ errno' = [errno EXCEPT ![t] = e]
  /\ pc'    = [pc EXCEPT ![t] = "leave"]
  /\ UNCHANGED <<lock, req, calls, frame, iobuf, dst, result, memory, kernel, history>>

-----------------------------------------------------------------------------
(***************************************************************************)
(* The loop.  Each operator is a piece of every *_common function; the     *)
(* eight functions below put the pieces together.                          *)
(***************************************************************************)
\* Leaving the function: a value or an exception goes back to OCaml code,
\* with the lock held; the stack buffer is gone.
Finish(t, res) ==
  /\ lock'   = t
  /\ pc'     = [pc EXCEPT ![t] = "ocaml"]
  /\ result' = [result EXCEPT ![t] = res]
  /\ iobuf'  = [iobuf EXCEPT ![t] = JunkIobuf]
  /\ UNCHANGED <<req, calls, dst, ret, errno, kernel, history>>

\* while (len > 0) is over
LoopEnds(t) ==
  /\ pc[t] = "loop" /\ len[t] = 0
  /\ Finish(t, Ok(processed[t]))
  /\ UNCHANGED <<frame, memory>>

\* caml_enter_blocking_section runs the handlers of pending signals first,
\* and a handler may raise: the exception leaves the stub from there.
SignalRaises(t) ==
  /\ pc[t] = "loop" /\ len[t] > 0
  /\ Finish(t, Raise("exn"))
  /\ UNCHANGED <<frame, memory>>

\* caml_enter_blocking_section: the lock is free from here on.
Enter(t, buffer) ==
  /\ pc[t] = "loop" /\ len[t] > 0
  /\ lock' = NoThread
  /\ pc'   = [pc EXCEPT ![t] = "syscall"]
  /\ dst'  = [dst EXCEPT ![t] = buffer]
  /\ UNCHANGED <<req, calls, frame, ret, errno, result, memory, kernel, history>>

\* Mutant: every chunk is filled from the start of the window.
FillFromStart(t) ==
  iobuf' = [iobuf EXCEPT ![t] = Blit(@, 0, Buf(t), WinOfs(t, req[t]), numbytes(t))]

\* memcpy(iobuf, &Byte(v_buf, ofs), numbytes)
FillIobuf(t) ==
  iobuf' = [iobuf EXCEPT ![t] = Blit(@, 0, Buf(t), ofs[t], numbytes(t))]

\* Mutant: copies what was asked for instead of what came.
DrainNumbytes(t) ==
  heap' = [heap EXCEPT ![t][loc[t]] = Blit(@, ofs[t], iobuf[t], 0, numbytes(t))]

\* memcpy(&Byte(v_buf, ofs), iobuf, ret), at the place v_buf has now
DrainIobuf(t) ==
  heap' = [heap EXCEPT ![t][loc[t]] = Blit(@, ofs[t], iobuf[t], 0, ret[t])]

\* Mutants: a retry for every variant; a partial count on EAGAIN only.
RetriesAlways(t) == errno[t] = "EINTR"
SettlesOnEagain(t) == processed[t] > 0 /\ errno[t] = "EAGAIN"

\* What a failed system call means, given the mode bits and the progress.
Retries(t) == errno[t] = "EINTR" /\ "NOINTR" \in Mode(req[t])
Settles(t) == processed[t] > 0 /\ (errno[t] = "EAGAIN" \/ "NOERROR" \in Mode(req[t]))

\* Mutant: no "if (ret == 0) break".
LeaveEmptySpins(t) ==
  /\ pc[t] = "leave" /\ lock = NoThread
  /\ ret[t] <= 0
  /\ \/ /\ ret[t] = -1 /\ ~Retries(t) /\ Settles(t)
        /\ Finish(t, Ok(processed[t]))
     \/ /\ ret[t] = -1 /\ ~Retries(t) /\ ~Settles(t)
        /\ Finish(t, Raise(errno[t]))
     \/ /\ ret[t] = 0 \/ Retries(t)
        /\ lock' = t
        /\ pc'   = [pc EXCEPT ![t] = "loop"]
        /\ UNCHANGED <<req, calls, iobuf, dst, ret, errno, result, kernel, history>>
  /\ UNCHANGED <<frame, memory>>

\* The part after caml_leave_blocking_section when no byte moved.
LeaveEmpty(t) ==
  /\ pc[t] = "leave" /\ lock = NoThread
  /\ ret[t] <= 0
  /\ \/ /\ ret[t] = 0 \/ (~Retries(t) /\ Settles(t))
        /\ Finish(t, Ok(processed[t]))
     \/ /\ ret[t] = -1 /\ ~Retries(t) /\ ~Settles(t)
        /\ Finish(t, Raise(errno[t]))
     \/ /\ ret[t] = -1 /\ Retries(t)
        /\ lock' = t
        /\ pc'   = [pc EXCEPT ![t] = "loop"]
        /\ UNCHANGED <<req, calls, iobuf, dst, ret, errno, result, kernel, history>>
  /\ UNCHANGED <<frame, memory>>

\* Mutant: a failed system call falls through to the bookkeeping.
LeaveMovedOnError(t) ==
  /\ pc[t] = "leave" /\ lock = NoThread
  /\ ret[t] # 0
  /\ processed' = [processed EXCEPT ![t] = @ + ret[t]]
  /\ ofs'       = [ofs EXCEPT ![t] = @ + ret[t]]
  /\ len'       = [len EXCEPT ![t] = @ - ret[t]]
  /\ lock' = t
  /\ pc'   = [pc EXCEPT ![t] = "loop"]
  /\ UNCHANGED <<off, loc, req, calls, iobuf, dst, ret, errno, result, kernel, history>>

\* The part after caml_leave_blocking_section when ret > 0 bytes moved.
LeaveMoved(t) ==
  /\ pc[t] = "leave" /\ lock = NoThread
  /\ ret[t] > 0
  /\ processed' = [processed EXCEPT ![t] = @ + ret[t]]
  /\ ofs'       = [ofs EXCEPT ![t] = @ + ret[t]]
  /\ len'       = [len EXCEPT ![t] = @ - ret[t]]
  /\ off'       = IF Positional(req[t]) THEN [off EXCEPT ![t] = @ + ret[t]] ELSE off
  /\ UNCHANGED loc
  /\ IF "ONCE" \in Mode(req[t])
     THEN Finish(t, Ok(processed[t] + ret[t]))
     ELSE /\ lock' = t
          /\ pc'   = [pc EXCEPT ![t] = "loop"]
          /\ UNCHANGED <<req, calls, iobuf, dst, ret, errno, result, kernel, history>>

\* Mutant: the kernel gets the address of the Bytes value itself.
BytesReadNoCopy(t) ==
  \/ LoopEnds(t) \/ SignalRaises(t) \/ LeaveEmpty(t)
  \/ Enter(t, loc[t]) /\ UNCHANGED iobuf
  \/ LeaveMoved(t) /\ UNCHANGED heap

BytesRead(t) ==
  \/ LoopEnds(t) \/ SignalRaises(t) \/ LeaveEmpty(t)
  \/ Enter(t, "iobuf") /\ UNCHANGED iobuf
  \/ LeaveMoved(t) /\ DrainIobuf(t)

BytesWrite(t) ==
  \/ LoopEnds(t) \/ SignalRaises(t) \/ LeaveEmpty(t)
  \/ Enter(t, "iobuf") /\ FillIobuf(t)
  \/ LeaveMoved(t) /\ UNCHANGED heap

BigarrayLoop(t) ==
  \/ LoopEnds(t) \/ SignalRaises(t) \/ LeaveEmpty(t)
  \/ Enter(t, loc[t]) /\ UNCHANGED iobuf
  \/ LeaveMoved(t) /\ UNCHANGED heap

Calling(t, op, kind) == req[t].op = op /\ Kind[t] = kind

caml_extunix_pread_common(t)    == Calling(t, "pread", "Bytes")  /\ BytesRead(t)
caml_extunix_pwrite_common(t)   == Calling(t, "pwrite", "Bytes") /\ BytesWrite(t)
caml_extunix_read_common(t)     == Calling(t, "read", "Bytes")   /\ BytesRead(t)
caml_extunix_write_common(t)    == Calling(t, "write", "Bytes")  /\ BytesWrite(t)
caml_extunixba_pread_common(t)  == Calling(t, "pread", "BA")     /\ BigarrayLoop(t)
caml_extunixba_pwrite_common(t) == Calling(t, "pwrite", "BA")    /\ BigarrayLoop(t)
caml_extunixba_read_common(t)   == Calling(t, "read", "BA")      /\ BigarrayLoop(t)
caml_extunixba_write_common(t)  == Calling(t, "write", "BA")     /\ BigarrayLoop(t)

Stub(t) ==
  \/ caml_extunix_pread_common(t)   \/ caml_extunix_pwrite_common(t)
  \/ caml_extunix_read_common(t)    \/ caml_extunix_write_common(t)
  \/ caml_extunixba_pread_common(t) \/ caml_extunixba_pwrite_common(t)
  \/ caml_extunixba_read_common(t)  \/ caml_extunixba_write_common(t)

-----------------------------------------------------------------------------
NoCall == [op |-> "read", variant |-> "plain", large |-> FALSE,
           off |-> 0, ofs |-> 0, len |-> 0]

Init ==
  /\ lock = NoThread
  /\ pc = [t \in Threads |-> "ocaml"]
  /\ req = [t \in Threads |-> NoCall]
  /\ calls = [t \in Threads |-> 0]
  /\ off = [t \in Threads |-> 0]
  /\ ofs = [t \in Threads |-> 0]
  /\ len = [t \in Threads |-> 0]
  /\ processed = [t \in Threads |-> 0]
  /\ iobuf = [t \in Threads |-> JunkIobuf]
  /\ dst = [t \in Threads |-> "iobuf"]
  /\ ret = [t \in Threads |-> 0]
  /\ errno = [t \in Threads |-> "EIO"]
  /\ result = [t \in Threads |-> Raise("none")]
  /\ loc = [t \in Threads |-> "heap0"]
  /\ heap = [t \in Threads |-> [a \in Addr |->
               IF a = "heap0" THEN InitBuf[t] ELSE JunkBuf]]
  /\ file = InitFile
  /\ size = InitSize
  /\ pos = 0
  /\ before = InitBuf
  /\ moved = [t \in Threads |-> 0]
  /\ xfer = [t \in Threads |-> JunkBuf]

Kernel(t) ==
  \/ \E k \in 1 .. BufLen : KernelRead(t, k) \/ KernelWrite(t, k)
  \/ KernelZero(t)
  \/ \E e \in Errors : KernelFail(t, e)

Next == \E t \in Threads :
  \/ Acquire(t) \/ Yield(t)
  \/ \E u \in Threads : GC(t, u)
  \/ \E r \in Calls[t] : Start(t, r)
  \/ Kernel(t)
  \/ Stub(t)

Spec == Init /\ [][Next]_vars

(***************************************************************************)
(* Fairness.  The tick thread of the OCaml runtime makes the holder of the *)
(* lock yield again and again, and a waiting thread is not passed over for *)
(* ever (strong fairness, since the lock is taken and released meanwhile). *)
(* The kernel answers the calls of the threads in Ready, and signals do    *)
(* not interrupt every one of their attempts; the other threads may stay   *)
(* in their system calls for ever, as on an idle socket.                   *)
(***************************************************************************)
KernelServes(t) ==
  \/ \E k \in 1 .. BufLen : KernelRead(t, k) \/ KernelWrite(t, k)
  \/ KernelZero(t)
  \/ \E e \in Errors \ {"EINTR"} : KernelFail(t, e)

Fairness ==
  /\ \A t \in Threads : SF_vars(Yield(t)) /\ SF_vars(Stub(t))
  /\ \A t \in Ready : SF_vars(KernelServes(t))

FairSpec == Spec /\ Fairness
-----------------------------------------------------------------------------
(***************************************************************************)
(* Correctness.                                                            *)
(***************************************************************************)
ControlType ==
  /\ lock \in Threads \cup {NoThread}
  /\ pc \in [Threads -> {"ocaml", "loop", "syscall", "leave"}]
  /\ req \in [Threads -> Request]
  /\ calls \in [Threads -> 0 .. MaxCalls]
  /\ dst \in [Threads -> Addr \cup {"iobuf"}]
  /\ loc \in [Threads -> Addr]
  /\ errno \in [Threads -> Errors]
  /\ result \in [Threads -> Result]

CounterType ==
  /\ off \in [Threads -> Int]
  /\ ofs \in [Threads -> Nat]
  /\ len \in [Threads -> Nat]
  /\ processed \in [Threads -> Nat]
  /\ ret \in [Threads -> Int] /\ \A t \in Threads : ret[t] >= -1
  /\ moved \in [Threads -> Nat]
  /\ size \in 0 .. FileMax
  /\ pos \in Nat

MemoryType ==
  /\ iobuf \in [Threads -> [IobufIndex -> Byte]]
  /\ heap \in [Threads -> [Addr -> [BufIndex -> Byte]]]
  /\ file \in [FileIndex -> Byte]
  /\ before \in [Threads -> [BufIndex -> Byte]]
  /\ xfer \in [Threads -> [BufIndex -> Byte]]

\* Type invariant: every local of the *_common functions, the buffers, the
\* file and the outcome of the last call have the values their types allow.
TypeOK == ControlType /\ CounterType /\ MemoryType

\* Memory safety of the loops: at every moment of a call the rest of the
\* window lies inside the OCaml buffer, what the kernel was asked for fits
\* the memory it was given, and it moved no more than it was asked for.
InBounds == \A t \in Threads : Running(t) =>
  /\ ofs[t] >= 0 /\ len[t] >= 0 /\ ofs[t] + len[t] <= BufLen
  /\ pc[t] = "syscall" /\ dst[t] = "iobuf" => numbytes(t) <= UNIX_BUFFER_SIZE
  /\ pc[t] = "leave" => ret[t] <= numbytes(t)

\* The count a call returns is the number of bytes the kernel moved for it.
\* A Unix_error means that nothing moved, so the caller may simply try again;
\* only the all_ variants may raise after a partial transfer.
CountIsExact == \A t \in Threads : pc[t] = "ocaml" =>
  /\ result[t].kind = "ok" => result[t].n = moved[t]
  /\ result[t].kind = "Invalid_argument" => moved[t] = 0
  /\ result[t].kind \in Errors /\ req[t].variant # "all" => moved[t] = 0

\* When a call is over, however it ended, a read has put exactly the bytes
\* the kernel delivered at the start of the window and changed no other byte
\* of the buffer, although the collector may have moved it in the meantime;
\* a write has changed nothing.
BufferIsExact == \A t \in Threads : pc[t] = "ocaml" /\ result[t].kind # "none" =>
  Buf(t) = IF IsRead(req[t])
           THEN Blit(before[t], WinOfs(t, req[t]), xfer[t], 0, moved[t])
           ELSE before[t]

\* A write sends the window in order: the bytes the kernel took so far are
\* the first moved[t] bytes of the window, none twice and none left out.
SentIsPrefix == \A t \in Threads : ~IsRead(req[t]) =>
  \A i \in 0 .. moved[t] - 1 : xfer[t][i] = before[t][WinOfs(t, req[t]) + i]

\* A Bytes value is only touched under the runtime lock: its bytes are
\* changed by the thread that called with it and that has the lock, and it
\* is moved by whichever thread has the lock.
HeapUnderLock == [][ \A t \in Threads :
  Kind[t] = "Bytes" /\ heap'[t] # heap[t] =>
    /\ lock' # NoThread
    /\ Buf(t)' # Buf(t) => lock' = t ]_vars

\* A call on a descriptor that gets ready ends, however often it is
\* interrupted and although other threads stay blocked in their calls.
Completes == \A t \in Ready : Running(t) ~> pc[t] = "ocaml"
-----------------------------------------------------------------------------
(***************************************************************************)
(* The inductive invariant behind the properties above.                    *)
(***************************************************************************)
\* A stub runs under the lock, and the kernel works on the memory the loop
\* chose: the stack buffer for Bytes, the data itself for bigarrays.
LockInv == \A t \in Threads :
  /\ pc[t] = "loop" => lock = t
  /\ pc[t] \in {"syscall", "leave"} =>
       /\ lock # t /\ len[t] > 0
       /\ dst[t] = IF Kind[t] = "BA" THEN loc[t] ELSE "iobuf"

\* The bytes of the last system call that the loop has not booked yet.
Unbooked(t) == IF pc[t] = "leave" /\ ret[t] > 0 THEN ret[t] ELSE 0

\* The locals of a running call agree with its request and with the kernel.
Booked(t) ==
  /\ InWindow(t, req[t])
  /\ Positional(req[t]) => off[t] >= 0
  /\ ofs[t] = WinOfs(t, req[t]) + processed[t]
  /\ len[t] = WinLen(t, req[t]) - processed[t]
  /\ Unbooked(t) <= numbytes(t)
  /\ moved[t] = processed[t] + Unbooked(t)
  /\ "ONCE" \in Mode(req[t]) => processed[t] = 0

Bookkeeping == \A t \in Threads : Running(t) => Booked(t)

IInv == TypeOK /\ LockInv /\ Bookkeeping /\ CountIsExact

(***************************************************************************)
(* What the buffers hold, on top of IInv.                                  *)
(***************************************************************************)
\* How many of the bytes the kernel delivered are in the OCaml buffer: the
\* loops on Bytes copy them after the system call.
Landed(t) == IF Running(t) /\ Kind[t] # "BA" THEN processed[t] ELSE moved[t]

ReadContents(t) == \A i \in BufIndex :
  Buf(t)[i] = IF WinOfs(t, req[t]) <= i /\ i < WinOfs(t, req[t]) + Landed(t)
              THEN xfer[t][i - WinOfs(t, req[t])]
              ELSE before[t][i]

WriteContents(t) ==
  /\ Buf(t) = before[t]
  /\ \A i \in 0 .. moved[t] - 1 : xfer[t][i] = before[t][WinOfs(t, req[t]) + i]

\* The stack buffer holds the chunk the kernel is to take, or the one it
\* delivered and the loop has not copied yet.
IobufContents(t) ==
  /\ pc[t] = "syscall" /\ ~IsRead(req[t]) =>
       \A i \in 0 .. numbytes(t) - 1 : iobuf[t][i] = before[t][ofs[t] + i]
  /\ pc[t] = "leave" /\ IsRead(req[t]) =>
       \A i \in 0 .. ret[t] - 1 : iobuf[t][i] = xfer[t][processed[t] + i]

Contents(t) ==
  /\ IsRead(req[t]) => ReadContents(t)
  /\ ~IsRead(req[t]) => WriteContents(t)
  /\ Kind[t] # "BA" => IobufContents(t)

ContentInv == \A t \in Threads : Contents(t)
=============================================================================
