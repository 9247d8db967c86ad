---------------------------- MODULE RwLoopProofs ----------------------------
(***************************************************************************)
(* Proofs about the transfer loops, for any number of threads, any buffer  *)
(* and file sizes, any chunk size and any set of calls.                    *)
(***************************************************************************)
EXTENDS RwLoop, TLAPS

-----------------------------------------------------------------------------
(***************************************************************************)
(* The argument checks.                                                    *)
(***************************************************************************)
\* Although it is computed in wrapping arithmetic, the check of the string
\* functions of extUnix.pp.ml accepts exactly the windows inside the buffer.
THEOREM WindowCheckExact ==
  ASSUME NEW w \in OCamlInt, NEW n \in OCamlInt, NEW length \in 0 .. max_int
  PROVE  ~StreamRejects(w, n, length) <=> (w >= 0 /\ n >= 0 /\ w + n <= length)
BY MaxIntAssumption DEF StreamRejects, Minus, Wrap, OCamlInt, min_int

\* A call that gets past its wrapper has its window inside the buffer and a
\* file offset that is not negative, if LargeFile callers mind their windows.
LEMMA AcceptedInWindow ==
  ASSUME LargeFileCallersCheck,
         NEW t \in Threads, NEW r \in Calls[t], ~Rejected(t, r)
  PROVE  InWindow(t, r) /\ (Positional(r) => r.off >= 0)
<1>1. r \in Request
  BY CallsAssumption
<1>2. r.off \in Int /\ r.ofs \in OCamlInt /\ r.len \in OCamlInt /\ r.large \in BOOLEAN
  BY <1>1 DEF Request
<1>3. BufLen \in 0 .. max_int
  BY RwAssumption, MaxIntAssumption
<1>4. CASE Kind[t] = "BA"
  BY <1>2, <1>3, <1>4 DEF InWindow, WinOfs, WinLen, Rejected, LargeFileRejects, BAPositionalRejects
<1>5. CASE Kind[t] # "BA" /\ r.large /\ Positional(r)
  BY <1>2, <1>5 DEF LargeFileCallersCheck, Rejected, LargeFileRejects
<1>6. CASE Kind[t] # "BA" /\ ~r.large /\ Positional(r)
  <2>1. ~StreamRejects(r.ofs, r.len, BufLen) /\ ~(r.off < 0)
    BY <1>6 DEF Rejected, PositionalRejects, StreamRejects
  <2> QED
    BY <1>2, <1>3, <1>6, <2>1, WindowCheckExact DEF InWindow, WinOfs, WinLen
<1>7. CASE Kind[t] # "BA" /\ ~Positional(r)
  <2>1. ~StreamRejects(r.ofs, r.len, BufLen)
    BY <1>7 DEF Rejected
  <2> QED
    BY <1>2, <1>3, <1>7, <2>1, WindowCheckExact DEF InWindow, WinOfs, WinLen
<1> QED
  BY <1>2, <1>4, <1>5, <1>6, <1>7

-----------------------------------------------------------------------------
\* memcpy within the source and any destination keeps bytes bytes.
LEMMA BlitType ==
  ASSUME NEW D, NEW to \in [D -> Byte], D \subseteq Int,
         NEW m \in Nat, NEW from \in [0 .. m - 1 -> Byte],
         NEW at \in Int, NEW start \in Nat, NEW n \in Nat, start + n <= m
  PROVE  Blit(to, at, from, start, n) \in [D -> Byte]
<1> SUFFICES ASSUME NEW i \in D, at <= i, i < at + n
             PROVE  from[start + (i - at)] \in Byte
  BY DEF Blit
<1>1. start + (i - at) \in 0 .. m - 1
  OBVIOUS
<1> QED
  BY <1>1

LEMMA JunkType == /\ JunkBuf \in [BufIndex -> Byte]
                  /\ JunkIobuf \in [IobufIndex -> Byte]
BY RwAssumption DEF JunkBuf, JunkIobuf

\* What a step of one of the eight *_common functions can be.
LEMMA StubCases ==
  ASSUME NEW t \in Threads, Stub(t), TypeOK
  PROVE  \/ LoopEnds(t)
         \/ SignalRaises(t)
         \/ LeaveEmpty(t)
         \/ /\ Enter(t, IF Kind[t] = "BA" THEN loc[t] ELSE "iobuf")
            /\ IF Kind[t] = "BA" \/ IsRead(req[t]) THEN UNCHANGED iobuf ELSE FillIobuf(t)
         \/ /\ LeaveMoved(t)
            /\ IF Kind[t] = "BA" \/ ~IsRead(req[t]) THEN UNCHANGED heap ELSE DrainIobuf(t)
BY Zenon DEF Stub, caml_extunix_pread_common, caml_extunix_pwrite_common,
       caml_extunix_read_common, caml_extunix_write_common,
       caml_extunixba_pread_common, caml_extunixba_pwrite_common,
       caml_extunixba_read_common, caml_extunixba_write_common,
       Calling, BytesRead, BytesWrite, BigarrayLoop, IsRead

-----------------------------------------------------------------------------
(***************************************************************************)
(* The invariant holds initially and every step keeps it.                  *)
(***************************************************************************)
LEMMA InitIInv == Init => IInv
<1> SUFFICES ASSUME Init PROVE IInv
  OBVIOUS
<1> USE DEF Init
<1>1. TypeOK
  <2>1. NoCall \in Request
    BY MaxIntAssumption DEF NoCall, Request, Op, Variant, OCamlInt, min_int
  <2>2. Raise("none") \in Result
    BY DEF Raise, Result
  <2>3. ControlType
    BY <2>1, <2>2, RwAssumption DEF ControlType, Addr, Errors
  <2>4. CounterType
    BY RwAssumption DEF CounterType
  <2>5. MemoryType
    BY JunkType, RwAssumption DEF MemoryType, BufIndex, FileIndex
  <2> QED
    BY <2>3, <2>4, <2>5 DEF TypeOK
<1>2. LockInv /\ Bookkeeping
  BY DEF LockInv, Bookkeeping, Running
<1>3. CountIsExact
  BY DEF CountIsExact, Raise, Errors
<1> QED
  BY <1>1, <1>2, <1>3 DEF IInv

\* A thread that a step does not touch keeps its books.
LEMMA BookedFrame ==
  ASSUME NEW u \in Threads, Running(u) => Booked(u),
         pc'[u] = pc[u], req'[u] = req[u], off'[u] = off[u], ofs'[u] = ofs[u],
         len'[u] = len[u], processed'[u] = processed[u], ret'[u] = ret[u],
         moved'[u] = moved[u]
  PROVE  (Running(u) => Booked(u))'
BY DEF Running, Booked, InWindow, WinOfs, WinLen, Positional, Unbooked, numbytes, Mode

\* Taking and yielding the lock changes nothing else.
LEMMA LockSteps ==
  ASSUME IInv, NEW t \in Threads, Acquire(t) \/ Yield(t)
  PROVE  IInv'
<1>1. TypeOK'
  BY DEF IInv, TypeOK, ControlType, CounterType, MemoryType, Acquire, Yield,
         frame, memory, kernel, history
<1>2. LockInv'
  BY RwAssumption DEF IInv, TypeOK, ControlType, LockInv, Acquire, Yield, frame, memory
<1>3. Bookkeeping'
  BY BookedFrame DEF IInv, Bookkeeping, Acquire, Yield, frame, history
<1>4. CountIsExact'
  BY DEF IInv, CountIsExact, Acquire, Yield, history
<1> QED
  BY <1>1, <1>2, <1>3, <1>4 DEF IInv

\* The collector moves buffers, and never a bigarray.
LEMMA GCStep ==
  ASSUME IInv, NEW t \in Threads, NEW u \in Threads, GC(t, u)
  PROVE  IInv'
<1>1. TypeOK'
  <2>1. MemoryType'
    BY JunkType DEF IInv, TypeOK, ControlType, MemoryType, GC, Buf, kernel, history
  <2>2. ControlType'
    BY DEF IInv, TypeOK, ControlType, GC, Addr
  <2>3. CounterType'
    BY DEF IInv, TypeOK, CounterType, GC, frame, kernel, history
  <2> QED
    BY <2>1, <2>2, <2>3 DEF TypeOK
<1>2. LockInv'
  BY RwAssumption DEF IInv, TypeOK, ControlType, LockInv, GC, frame
<1>3. Bookkeeping'
  BY BookedFrame DEF IInv, Bookkeeping, GC, frame, history
<1>4. CountIsExact'
  BY DEF IInv, CountIsExact, GC, history
<1> QED
  BY <1>1, <1>2, <1>3, <1>4 DEF IInv

\* A wrapper refuses a call or starts it with a window inside the buffer.
LEMMA StartStep ==
  ASSUME LargeFileCallersCheck, IInv,
         NEW t \in Threads, NEW r \in Calls[t], Start(t, r)
  PROVE  IInv'
<1>0. r \in Request /\ r.off \in Int
  BY CallsAssumption DEF Request
<1>1. MemoryType'
  BY JunkType DEF IInv, TypeOK, ControlType, MemoryType, Start, Buf, memory, kernel
<1>2. ControlType'
  <2>1. Raise("none") \in Result /\ Raise("Invalid_argument") \in Result
    BY DEF Raise, Result
  <2>2. calls' \in [Threads -> 0 .. MaxCalls]
    BY RwAssumption DEF IInv, TypeOK, ControlType, Start
  <2>3. pc' \in [Threads -> {"ocaml", "loop", "syscall", "leave"}]
    BY DEF IInv, TypeOK, ControlType, Start
  <2> QED
    BY <1>0, <2>1, <2>2, <2>3 DEF IInv, TypeOK, ControlType, Start, memory
<1>3. LockInv'
  BY DEF IInv, TypeOK, ControlType, CounterType, LockInv, Start, frame, memory
<1>4. CASE Rejected(t, r)
  <2>1. CounterType'
    BY <1>4 DEF IInv, TypeOK, CounterType, Start, frame, kernel
  <2>2. Bookkeeping'
    <3> SUFFICES ASSUME NEW u \in Threads PROVE (Running(u) => Booked(u))'
      BY DEF Bookkeeping
    <3>1. CASE u = t
      BY <1>4, <3>1 DEF Start, Running
    <3>2. CASE u # t
      BY <1>4, <3>2, BookedFrame
      DEF IInv, TypeOK, ControlType, CounterType, Bookkeeping, Start, frame
    <3> QED
      BY <3>1, <3>2
  <2>3. CountIsExact'
    BY <1>4 DEF IInv, TypeOK, ControlType, CounterType, CountIsExact, Start, Raise, Errors
  <2> QED
    BY <1>1, <1>2, <1>3, <2>1, <2>2, <2>3 DEF IInv, TypeOK
<1>5. CASE ~Rejected(t, r)
  <2>0. /\ InWindow(t, r) /\ (Positional(r) => r.off >= 0)
        /\ WinOfs(t, r) \in Nat /\ WinLen(t, r) \in Nat
    <3>1. InWindow(t, r) /\ (Positional(r) => r.off >= 0)
      BY <1>5, AcceptedInWindow
    <3>2. WinOfs(t, r) \in Int /\ WinLen(t, r) \in Int
      BY <1>0, RwAssumption DEF WinOfs, WinLen, Request, OCamlInt, min_int
    <3> QED
      BY <3>1, <3>2 DEF InWindow
  <2>1. CounterType'
    BY <1>0, <1>5, <2>0 DEF IInv, TypeOK, CounterType, Start, kernel
  <2>2. Bookkeeping'
    <3> SUFFICES ASSUME NEW u \in Threads PROVE (Running(u) => Booked(u))'
      BY DEF Bookkeeping
    <3>1. CASE u = t
      <4>1. /\ pc'[t] = "loop" /\ req'[t] = r /\ off'[t] = r.off /\ processed'[t] = 0
            /\ moved'[t] = 0 /\ ofs'[t] = WinOfs(t, r) /\ len'[t] = WinLen(t, r)
        BY <1>5 DEF IInv, TypeOK, ControlType, CounterType, Start
      <4>2. numbytes(t)' >= 0
        BY <2>0, <4>1, RwAssumption DEF numbytes, Min2
      <4>3. InWindow(t, req[t])'
        BY <2>0, <4>1 DEF InWindow, WinOfs, WinLen
      <4>4. ofs'[t] = WinOfs(t, req[t])' + 0 /\ len'[t] = WinLen(t, req[t])' - 0
        BY <2>0, <4>1 DEF WinOfs, WinLen
      <4> QED
        BY <2>0, <3>1, <4>1, <4>2, <4>3, <4>4 DEF Booked, Unbooked, Positional
    <3>2. CASE u # t
      BY <1>5, <3>2, BookedFrame
      DEF IInv, TypeOK, ControlType, CounterType, Bookkeeping, Start
    <3> QED
      BY <3>1, <3>2
  <2>3. CountIsExact'
    BY <1>5 DEF IInv, TypeOK, ControlType, CounterType, CountIsExact, Start
  <2> QED
    BY <1>1, <1>2, <1>3, <2>1, <2>2, <2>3 DEF IInv, TypeOK
<1> QED
  BY <1>4, <1>5

-----------------------------------------------------------------------------
\* The counters after the kernel moved k bytes for t.
LEMMA AdvanceStep ==
  ASSUME IInv, NEW t \in Threads, NEW k \in Nat \ {0}, Advance(t, k),
         pc[t] = "syscall", k <= numbytes(t), size' \in 0 .. FileMax
  PROVE  ControlType' /\ CounterType' /\ LockInv' /\ Bookkeeping' /\ CountIsExact'
<1>0. Booked(t)
  BY DEF IInv, Bookkeeping, Running
<1>1. ControlType'
  BY DEF IInv, TypeOK, ControlType, Advance
<1>2. CounterType'
  <2>1. moved' \in [Threads -> Nat]
    BY DEF IInv, TypeOK, CounterType, Advance
  <2>2. ret' \in [Threads -> Int] /\ \A u \in Threads : ret'[u] >= -1
    BY DEF IInv, TypeOK, CounterType, Advance
  <2>3. pos' \in Nat
    BY DEF IInv, TypeOK, CounterType, Advance
  <2> QED
    BY <2>1, <2>2, <2>3 DEF IInv, TypeOK, CounterType, Advance, frame
<1>3. LockInv'
  BY DEF IInv, TypeOK, ControlType, LockInv, Advance, frame
<1>4. Bookkeeping'
  <2> SUFFICES ASSUME NEW u \in Threads PROVE (Running(u) => Booked(u))'
    BY DEF Bookkeeping
  <2>1. CASE u = t
    <3>1. /\ pc'[t] = "leave" /\ ret'[t] = k /\ moved'[t] = moved[t] + k
          /\ UNCHANGED <<req, off, ofs, len, processed>>
      BY DEF IInv, TypeOK, ControlType, CounterType, Advance, frame
    <3>2. moved[t] = processed[t] + 0 /\ processed[t] \in Nat
      BY <1>0 DEF IInv, TypeOK, CounterType, Booked, Unbooked
    <3>3. Unbooked(t)' = k /\ numbytes(t)' = numbytes(t)
      BY <3>1 DEF Unbooked, numbytes
    <3>4. moved'[t] = processed'[t] + Unbooked(t)' /\ Unbooked(t)' <= numbytes(t)'
      BY <3>1, <3>2, <3>3
    <3>5. /\ InWindow(t, req[t])' /\ (Positional(req[t]) => off[t] >= 0)'
          /\ (ofs[t] = WinOfs(t, req[t]) + processed[t])'
          /\ (len[t] = WinLen(t, req[t]) - processed[t])'
          /\ ("ONCE" \in Mode(req[t]) => processed[t] = 0)'
      BY <1>0, <3>1 DEF Booked, InWindow, WinOfs, WinLen, Positional, Mode
    <3> QED
      BY <2>1, <3>4, <3>5 DEF Booked
  <2>2. CASE u # t
    BY <2>2, BookedFrame
    DEF IInv, TypeOK, ControlType, CounterType, Bookkeeping, Advance, frame
  <2> QED
    BY <2>1, <2>2
<1>5. CountIsExact'
  BY DEF IInv, TypeOK, ControlType, CounterType, CountIsExact, Advance
<1> QED
  BY <1>1, <1>2, <1>3, <1>4, <1>5

\* The kernel works between the start of the file and its end.
LEMMA KernelReadStep ==
  ASSUME IInv, NEW t \in Threads, NEW k \in 1 .. BufLen, KernelRead(t, k)
  PROVE  IInv'
<1>0. /\ pc[t] = "syscall" /\ Booked(t)
      /\ k <= numbytes(t) /\ k <= size - At(t) /\ Advance(t, k) /\ UNCHANGED <<file, size>>
  BY DEF IInv, Bookkeeping, Running, KernelRead
<1>1. At(t) \in Nat /\ k \in Nat \ {0} /\ At(t) + k <= FileMax
  BY <1>0, RwAssumption DEF IInv, TypeOK, CounterType, Booked, At
<1>2. MemoryType'
  <2>0. /\ file \in [0 .. FileMax - 1 -> Byte] /\ FileMax \in Nat
        /\ xfer[t] \in [BufIndex -> Byte] /\ BufIndex \subseteq Int
        /\ iobuf[t] \in [IobufIndex -> Byte] /\ IobufIndex \subseteq Int
        /\ moved[t] \in Int /\ ofs[t] \in Int
    BY RwAssumption DEF IInv, TypeOK, CounterType, MemoryType, BufIndex, IobufIndex, FileIndex
  <2>1. Blit(xfer[t], moved[t], file, At(t), k) \in [BufIndex -> Byte]
    BY <1>1, <2>0, BlitType
  <2>2. Blit(iobuf[t], 0, file, At(t), k) \in [IobufIndex -> Byte]
    <3>1. \A at \in Int : Blit(iobuf[t], at, file, At(t), k) \in [IobufIndex -> Byte]
      BY <1>1, <2>0, BlitType
    <3> QED
      BY <3>1
  <2>3. dst[t] # "iobuf" => dst[t] \in Addr
    BY DEF IInv, TypeOK, ControlType
  <2>4. dst[t] # "iobuf" => Blit(heap[t][dst[t]], ofs[t], file, At(t), k) \in [BufIndex -> Byte]
    <3> SUFFICES ASSUME dst[t] # "iobuf"
                 PROVE  Blit(heap[t][dst[t]], ofs[t], file, At(t), k) \in [BufIndex -> Byte]
      OBVIOUS
    <3>1. heap[t][dst[t]] \in [BufIndex -> Byte]
      BY <2>3 DEF IInv, TypeOK, MemoryType
    <3> QED
      BY <1>1, <2>0, <3>1, BlitType
  <2>5. heap' \in [Threads -> [Addr -> [BufIndex -> Byte]]]
    <3>1. heap \in [Threads -> [Addr -> [BufIndex -> Byte]]]
      BY DEF IInv, TypeOK, MemoryType
    <3>2. CASE dst[t] = "iobuf"
      BY <3>1, <3>2 DEF KernelRead
    <3>3. CASE dst[t] # "iobuf"
      <4>1. heap' = [heap EXCEPT ![t] = [heap[t] EXCEPT ![dst[t]] =
                       Blit(heap[t][dst[t]], ofs[t], file, At(t), k)]]
        BY <3>3 DEF KernelRead
      <4>2. [heap[t] EXCEPT ![dst[t]] = Blit(heap[t][dst[t]], ofs[t], file, At(t), k)]
              \in [Addr -> [BufIndex -> Byte]]
        BY <2>3, <2>4, <3>1, <3>3
      <4> QED
        BY <3>1, <4>1, <4>2
    <3> QED
      BY <3>2, <3>3
  <2>6. iobuf' \in [Threads -> [IobufIndex -> Byte]]
    BY <2>2 DEF IInv, TypeOK, MemoryType, KernelRead
  <2> QED
    BY <1>0, <2>1, <2>5, <2>6 DEF IInv, TypeOK, MemoryType, KernelRead, Advance
<1>3. size' \in 0 .. FileMax
  BY <1>0 DEF IInv, TypeOK, CounterType
<1> QED
  BY <1>0, <1>1, <1>2, <1>3, AdvanceStep DEF IInv, TypeOK

LEMMA KernelWriteStep ==
  ASSUME IInv, NEW t \in Threads, NEW k \in 1 .. BufLen, KernelWrite(t, k)
  PROVE  IInv'
<1> DEFINE src   == IF dst[t] = "iobuf" THEN iobuf[t] ELSE heap[t][dst[t]]
           start == IF dst[t] = "iobuf" THEN 0 ELSE ofs[t]
           m     == IF dst[t] = "iobuf" THEN UNIX_BUFFER_SIZE ELSE BufLen
<1>0. /\ pc[t] = "syscall" /\ Booked(t)
      /\ k <= numbytes(t) /\ k <= FileMax - At(t) /\ Advance(t, k)
      /\ xfer' = [xfer EXCEPT ![t] = Blit(xfer[t], moved[t], src, start, k)]
      /\ file' = Blit(file, At(t), src, start, k)
      /\ size' = IF At(t) + k > size THEN At(t) + k ELSE size
      /\ UNCHANGED <<iobuf, heap>>
  BY DEF IInv, Bookkeeping, Running, KernelWrite
<1>1. At(t) \in Nat /\ k \in Nat \ {0} /\ At(t) + k <= FileMax
  BY <1>0, RwAssumption DEF IInv, TypeOK, CounterType, Booked, At
<1>2. /\ src \in [0 .. m - 1 -> Byte]
      /\ m \in Nat /\ start \in Nat /\ start + k <= m
  <2>1. CASE dst[t] = "iobuf"
    <3>1. Kind[t] = "Bytes"
      BY <1>0, <2>1, RwAssumption DEF IInv, TypeOK, ControlType, LockInv, Addr
    <3>2. k <= UNIX_BUFFER_SIZE
      <4>1. len[t] \in Nat /\ UNIX_BUFFER_SIZE \in Nat /\ k <= numbytes(t)
        BY <1>0, RwAssumption DEF IInv, TypeOK, CounterType
      <4>2. numbytes(t) = Min2(len[t], UNIX_BUFFER_SIZE)
        BY <3>1 DEF numbytes
      <4> QED
        BY <1>1, <4>1, <4>2 DEF Min2
    <3>3. iobuf[t] \in [0 .. UNIX_BUFFER_SIZE - 1 -> Byte] /\ UNIX_BUFFER_SIZE \in Nat
      BY RwAssumption DEF IInv, TypeOK, MemoryType, IobufIndex
    <3> QED
      BY <1>1, <2>1, <3>2, <3>3
  <2>2. CASE dst[t] # "iobuf"
    <3>1. Kind[t] = "BA" /\ dst[t] \in Addr
      BY <1>0, <2>2 DEF IInv, TypeOK, ControlType, LockInv
    <3>2. ofs[t] + len[t] <= BufLen /\ numbytes(t) = len[t] /\ ofs[t] \in Nat /\ len[t] \in Nat
      BY <1>0, <3>1, RwAssumption
      DEF IInv, TypeOK, CounterType, Booked, InWindow, WinOfs, WinLen, numbytes
    <3>3. heap[t][dst[t]] \in [0 .. BufLen - 1 -> Byte]
      BY <3>1 DEF IInv, TypeOK, MemoryType, BufIndex
    <3>4. k <= len[t] /\ BufLen \in Nat
      BY <1>0, <3>2, RwAssumption
    <3>5. src = heap[t][dst[t]] /\ start = ofs[t] /\ m = BufLen
      BY <2>2
    <3>6. start + k <= m
      BY <1>1, <3>2, <3>4, <3>5
    <3> QED
      BY <3>2, <3>3, <3>4, <3>5, <3>6
  <2> QED
    BY <2>1, <2>2
<1> HIDE DEF src, start, m
<1>3. MemoryType'
  <2>0. /\ file \in [FileIndex -> Byte] /\ FileIndex \subseteq Int
        /\ xfer[t] \in [BufIndex -> Byte] /\ BufIndex \subseteq Int /\ moved[t] \in Int
    BY RwAssumption DEF IInv, TypeOK, CounterType, MemoryType, BufIndex, FileIndex
  <2>1. Blit(xfer[t], moved[t], src, start, k) \in [BufIndex -> Byte]
    BY <1>1, <1>2, <2>0, BlitType
  <2>2. Blit(file, At(t), src, start, k) \in [FileIndex -> Byte]
    <3>1. At(t) \in Int /\ k \in Nat
      BY <1>1
    <3> QED
      BY <1>2, <2>0, <3>1, BlitType
  <2> QED
    BY <1>0, <2>1, <2>2 DEF IInv, TypeOK, MemoryType, Advance
<1>4. size' \in 0 .. FileMax
  BY <1>0, <1>1, RwAssumption DEF IInv, TypeOK, CounterType
<1> QED
  BY <1>0, <1>1, <1>3, <1>4, AdvanceStep DEF IInv, TypeOK

\* End of file and errors leave all counters alone.
LEMMA KernelNothingStep ==
  ASSUME IInv, NEW t \in Threads, KernelZero(t) \/ \E e \in Errors : KernelFail(t, e)
  PROVE  IInv'
<1>0. /\ pc[t] = "syscall"
      /\ pc' = [pc EXCEPT ![t] = "leave"]
      /\ ret' = [ret EXCEPT ![t] = 0] \/ ret' = [ret EXCEPT ![t] = -1]
      /\ UNCHANGED <<lock, req, calls, frame, iobuf, dst, result, memory, kernel, history>>
  BY DEF KernelZero, KernelFail
<1>1. errno' \in [Threads -> Errors]
  BY DEF IInv, TypeOK, ControlType, KernelZero, KernelFail
<1>2. Booked(t)
  BY <1>0 DEF IInv, Bookkeeping, Running
<1>3. ControlType' /\ MemoryType'
  BY <1>0, <1>1 DEF IInv, TypeOK, ControlType, MemoryType, memory, kernel, history
<1>4. CounterType'
  BY <1>0 DEF IInv, TypeOK, CounterType, frame, kernel, history
<1>5. LockInv'
  BY <1>0 DEF IInv, TypeOK, ControlType, LockInv, frame, memory
<1>6. Bookkeeping'
  <2> SUFFICES ASSUME NEW u \in Threads PROVE (Running(u) => Booked(u))'
    BY DEF Bookkeeping
  <2>1. CASE u = t
    <3>1. Unbooked(t)' = 0 /\ Unbooked(t) = 0 /\ numbytes(t)' = numbytes(t)
      BY <1>0 DEF IInv, TypeOK, ControlType, CounterType, Unbooked, numbytes, frame
    <3> QED
      BY <1>0, <1>2, <2>1, <3>1 DEF Booked, InWindow, WinOfs, WinLen, Positional, Mode,
                                    frame, history
  <2>2. CASE u # t
    BY <1>0, <2>2, BookedFrame
    DEF IInv, TypeOK, ControlType, CounterType, Bookkeeping, frame, history
  <2> QED
    BY <2>1, <2>2
<1>7. CountIsExact'
  BY <1>0 DEF IInv, TypeOK, ControlType, CountIsExact, history
<1> QED
  BY <1>3, <1>4, <1>5, <1>6, <1>7 DEF IInv, TypeOK

-----------------------------------------------------------------------------
\* Steps that leave the function without moving the books.
LEMMA FinishStep ==
  ASSUME IInv, NEW t \in Threads, NEW res \in Result, Finish(t, res), UNCHANGED <<frame, memory>>,
         pc[t] \in {"loop", "leave"}, lock \in {t, NoThread},
         res.kind = "ok" => res.n = moved[t],
         res.kind = "Invalid_argument" => moved[t] = 0,
         res.kind \in Errors /\ req[t].variant # "all" => moved[t] = 0
  PROVE  IInv'
<1>1. ControlType' /\ CounterType'
  BY DEF IInv, TypeOK, ControlType, CounterType, Finish, frame, memory, kernel, history
<1>2. MemoryType'
  BY JunkType DEF IInv, TypeOK, MemoryType, Finish, memory, kernel, history
<1>3. LockInv'
  BY RwAssumption DEF IInv, TypeOK, ControlType, LockInv, Finish, frame, memory
<1>4. Bookkeeping'
  <2> SUFFICES ASSUME NEW u \in Threads PROVE (Running(u) => Booked(u))'
    BY DEF Bookkeeping
  <2>1. CASE u = t
    BY <2>1 DEF IInv, TypeOK, ControlType, Finish, Running
  <2>2. CASE u # t
    BY <2>2, BookedFrame DEF IInv, TypeOK, ControlType, Bookkeeping, Finish, frame, history
  <2> QED
    BY <2>1, <2>2
<1>5. CountIsExact'
  BY DEF IInv, TypeOK, ControlType, CountIsExact, Finish, history
<1> QED
  BY <1>1, <1>2, <1>3, <1>4, <1>5 DEF IInv, TypeOK

\* The loop is over, or a signal handler raises in front of the next try.
LEMMA LoopExitStep ==
  ASSUME IInv, NEW t \in Threads, LoopEnds(t) \/ SignalRaises(t)
  PROVE  IInv'
<1>0. pc[t] = "loop" /\ lock = t /\ Booked(t) /\ moved[t] = processed[t]
  BY DEF IInv, TypeOK, CounterType, LockInv, Bookkeeping, Booked, Running, Unbooked,
         LoopEnds, SignalRaises
<1>1. CASE LoopEnds(t)
  <2>1. Ok(processed[t]) \in Result
    BY DEF IInv, TypeOK, CounterType, Ok, Result
  <2> QED
    BY <1>0, <1>1, <2>1, FinishStep DEF LoopEnds, Ok, Errors
<1>2. CASE SignalRaises(t)
  <2>1. Raise("exn") \in Result
    BY DEF Raise, Result
  <2> QED
    BY <1>0, <1>2, <2>1, FinishStep DEF SignalRaises, Raise, Errors
<1> QED
  BY <1>1, <1>2

\* A system call that moved nothing: the call returns, raises or tries again.
LEMMA LeaveEmptyStep ==
  ASSUME IInv, NEW t \in Threads, LeaveEmpty(t)
  PROVE  IInv'
<1>0. /\ pc[t] = "leave" /\ lock = NoThread /\ Booked(t)
      /\ UNCHANGED <<frame, memory>> /\ ret[t] <= 0
  BY DEF IInv, Bookkeeping, Running, LeaveEmpty
<1>1. moved[t] = processed[t] /\ processed[t] \in Nat
  BY <1>0 DEF IInv, TypeOK, CounterType, Booked, Unbooked
<1>2. ASSUME Finish(t, Ok(processed[t])) PROVE IInv'
  <2>1. Ok(processed[t]) \in Result
    BY <1>1 DEF Ok, Result
  <2> QED
    BY <1>0, <1>1, <1>2, <2>1, FinishStep DEF Ok, Errors
<1>3. ASSUME ret[t] = -1, ~Retries(t), ~Settles(t), Finish(t, Raise(errno[t])) PROVE IInv'
  <2>1. Raise(errno[t]) \in Result /\ errno[t] \in Errors
    BY DEF IInv, TypeOK, ControlType, Raise, Result
  <2>2. req[t].variant # "all" => moved[t] = 0
    <3>1. req[t].variant \in Variant
      BY DEF IInv, TypeOK, ControlType, Request
    <3>2. CASE req[t].variant = "single"
      BY <1>0, <1>1, <3>2 DEF Booked, Mode
    <3>3. CASE req[t].variant \in {"plain", "intr"}
      <4>1. "NOERROR" \in Mode(req[t])
        BY <3>3 DEF Mode
      <4> QED
        BY <1>1, <1>3, <4>1 DEF Settles
    <3> QED
      BY <3>1, <3>2, <3>3 DEF Variant
  <2>3. Raise(errno[t]).kind = errno[t]
    BY DEF Raise
  <2>4. errno[t] # "ok" /\ errno[t] # "Invalid_argument"
    BY <2>1 DEF Errors
  <2> QED
    BY <1>0, <1>3, <2>1, <2>2, <2>3, <2>4, FinishStep
<1>4. ASSUME ret[t] = -1, lock' = t, pc' = [pc EXCEPT ![t] = "loop"],
             UNCHANGED <<req, calls, iobuf, dst, ret, errno, result, kernel, history>>
      PROVE  IInv'
  <2>1. TypeOK'
    BY <1>0, <1>4 DEF IInv, TypeOK, ControlType, CounterType, MemoryType,
                      frame, memory, kernel, history
  <2>2. LockInv'
    BY <1>0, <1>4, RwAssumption DEF IInv, TypeOK, ControlType, LockInv, frame, memory
  <2>3. Bookkeeping'
    <3> SUFFICES ASSUME NEW u \in Threads PROVE (Running(u) => Booked(u))'
      BY DEF Bookkeeping
    <3>1. CASE u = t
      <4>1. Unbooked(t)' = 0 /\ Unbooked(t) = 0 /\ numbytes(t)' = numbytes(t)
        BY <1>0, <1>4 DEF IInv, TypeOK, ControlType, CounterType, Unbooked, numbytes, frame
      <4> QED
        BY <1>0, <1>4, <3>1, <4>1 DEF Booked, InWindow, WinOfs, WinLen, Positional, Mode,
                                      frame, history
    <3>2. CASE u # t
      BY <1>0, <1>4, <3>2, BookedFrame
      DEF IInv, TypeOK, ControlType, Bookkeeping, frame, history
    <3> QED
      BY <3>1, <3>2
  <2>4. CountIsExact'
    BY <1>0, <1>4 DEF IInv, TypeOK, ControlType, CountIsExact, history
  <2> QED
    BY <2>1, <2>2, <2>3, <2>4 DEF IInv
<1> QED
  BY <1>2, <1>3, <1>4 DEF LeaveEmpty

\* caml_enter_blocking_section, after the copy into iobuf for a write.
LEMMA EnterStep ==
  ASSUME IInv, NEW t \in Threads,
         Enter(t, IF Kind[t] = "BA" THEN loc[t] ELSE "iobuf"),
         UNCHANGED iobuf \/ (Kind[t] # "BA" /\ FillIobuf(t))
  PROVE  IInv'
<1>0. /\ pc[t] = "loop" /\ len[t] > 0 /\ lock = t /\ Booked(t)
      /\ lock' = NoThread /\ pc' = [pc EXCEPT ![t] = "syscall"]
      /\ dst' = [dst EXCEPT ![t] = IF Kind[t] = "BA" THEN loc[t] ELSE "iobuf"]
      /\ UNCHANGED <<req, calls, frame, ret, errno, result, memory, kernel, history>>
  BY DEF IInv, LockInv, Bookkeeping, Running, Enter
<1>1. iobuf' \in [Threads -> [IobufIndex -> Byte]]
  <2>1. CASE UNCHANGED iobuf
    BY <2>1 DEF IInv, TypeOK, MemoryType
  <2>2. CASE Kind[t] # "BA" /\ FillIobuf(t)
    <3>1. /\ Buf(t) \in [0 .. BufLen - 1 -> Byte] /\ BufLen \in Nat
          /\ iobuf[t] \in [IobufIndex -> Byte] /\ IobufIndex \subseteq Int
          /\ UNIX_BUFFER_SIZE \in Nat
      BY RwAssumption DEF IInv, TypeOK, ControlType, MemoryType, Buf, BufIndex, IobufIndex
    <3>2. ofs[t] \in Nat /\ numbytes(t) \in Nat /\ ofs[t] + numbytes(t) <= BufLen
      <4>1. ofs[t] \in Nat /\ len[t] \in Nat /\ processed[t] \in Nat
        BY DEF IInv, TypeOK, CounterType
      <4>2. ofs[t] + len[t] <= BufLen
        <5>1. req[t].ofs \in Int /\ req[t].len \in Int
          BY DEF IInv, TypeOK, ControlType, Request, OCamlInt, min_int
        <5> QED
          BY <1>0, <4>1, <5>1, <2>2 DEF Booked, InWindow, WinOfs, WinLen
      <4>3. numbytes(t) \in Nat /\ numbytes(t) <= len[t]
        BY <2>2, <3>1, <4>1 DEF numbytes, Min2
      <4> QED
        BY <3>1, <4>1, <4>2, <4>3
    <3>3. Blit(iobuf[t], 0, Buf(t), ofs[t], numbytes(t)) \in [IobufIndex -> Byte]
      <4>1. \A at \in Int : Blit(iobuf[t], at, Buf(t), ofs[t], numbytes(t)) \in [IobufIndex -> Byte]
        BY <3>1, <3>2, BlitType
      <4> QED
        BY <4>1
    <3> QED
      BY <2>2, <3>3 DEF IInv, TypeOK, MemoryType, FillIobuf
  <2> QED
    BY <2>1, <2>2
<1>2. ControlType' /\ CounterType'
  BY <1>0 DEF IInv, TypeOK, ControlType, CounterType, frame, memory, kernel, history
<1>3. MemoryType'
  BY <1>0, <1>1 DEF IInv, TypeOK, MemoryType, memory, kernel, history
<1>4. LockInv'
  BY <1>0, RwAssumption DEF IInv, TypeOK, ControlType, LockInv, frame, memory
<1>5. Bookkeeping'
  <2> SUFFICES ASSUME NEW u \in Threads PROVE (Running(u) => Booked(u))'
    BY DEF Bookkeeping
  <2>1. CASE u = t
    <3>1. Unbooked(t)' = 0 /\ Unbooked(t) = 0 /\ numbytes(t)' = numbytes(t)
      BY <1>0 DEF IInv, TypeOK, ControlType, CounterType, Unbooked, numbytes, frame
    <3> QED
      BY <1>0, <2>1, <3>1 DEF Booked, InWindow, WinOfs, WinLen, Positional, Mode,
                              frame, history
  <2>2. CASE u # t
    BY <1>0, <2>2, BookedFrame DEF IInv, TypeOK, ControlType, Bookkeeping, frame, history
  <2> QED
    BY <2>1, <2>2
<1>6. CountIsExact'
  BY <1>0 DEF IInv, TypeOK, ControlType, CountIsExact, history
<1> QED
  BY <1>2, <1>3, <1>4, <1>5, <1>6 DEF IInv, TypeOK

\* After a transfer the loop books it and goes on, or returns at once.
LEMMA LeaveMovedStep ==
  ASSUME IInv, NEW t \in Threads, LeaveMoved(t),
         UNCHANGED heap \/ (Kind[t] # "BA" /\ DrainIobuf(t))
  PROVE  IInv'
<1>0. /\ pc[t] = "leave" /\ lock = NoThread /\ ret[t] > 0 /\ Booked(t)
      /\ processed' = [processed EXCEPT ![t] = @ + ret[t]]
      /\ ofs'       = [ofs EXCEPT ![t] = @ + ret[t]]
      /\ len'       = [len EXCEPT ![t] = @ - ret[t]]
      /\ off'       = IF Positional(req[t]) THEN [off EXCEPT ![t] = @ + ret[t]] ELSE off
      /\ UNCHANGED <<loc, req, calls, dst, ret, errno, kernel, history>>
      /\ lock' = t
  BY DEF IInv, Bookkeeping, Running, LeaveMoved, Finish
<1>1. /\ ret[t] \in Nat /\ processed[t] \in Nat /\ ofs[t] \in Nat /\ len[t] \in Nat
      /\ off[t] \in Int
  BY <1>0 DEF IInv, TypeOK, CounterType
<1>2. ret[t] <= numbytes(t) /\ moved[t] = processed[t] + ret[t]
  BY <1>0 DEF Booked, Unbooked
<1>3. ret[t] <= len[t] /\ (Kind[t] # "BA" => ret[t] <= UNIX_BUFFER_SIZE)
  BY <1>1, <1>2, RwAssumption DEF numbytes, Min2
<1>4. CounterType'
  <2>1. /\ processed' \in [Threads -> Nat] /\ ofs' \in [Threads -> Nat]
        /\ len' \in [Threads -> Nat]
    BY <1>0, <1>1, <1>3 DEF IInv, TypeOK, CounterType
  <2>2. off' \in [Threads -> Int]
    BY <1>0, <1>1 DEF IInv, TypeOK, CounterType
  <2> QED
    BY <1>0, <2>1, <2>2 DEF IInv, TypeOK, CounterType, kernel, history
<1>5. MemoryType'
  <2>1. heap' \in [Threads -> [Addr -> [BufIndex -> Byte]]]
    <3>1. heap \in [Threads -> [Addr -> [BufIndex -> Byte]]] /\ loc[t] \in Addr
      BY DEF IInv, TypeOK, ControlType, MemoryType
    <3>2. CASE Kind[t] # "BA" /\ DrainIobuf(t)
      <4>1. /\ iobuf[t] \in [0 .. UNIX_BUFFER_SIZE - 1 -> Byte] /\ UNIX_BUFFER_SIZE \in Nat
            /\ heap[t][loc[t]] \in [BufIndex -> Byte] /\ BufIndex \subseteq Int
        BY <3>1, RwAssumption DEF IInv, TypeOK, MemoryType, IobufIndex, BufIndex
      <4>2. Blit(heap[t][loc[t]], ofs[t], iobuf[t], 0, ret[t]) \in [BufIndex -> Byte]
        <5>1. \A start \in Nat : start + ret[t] <= UNIX_BUFFER_SIZE =>
                Blit(heap[t][loc[t]], ofs[t], iobuf[t], start, ret[t]) \in [BufIndex -> Byte]
          <6>1. ofs[t] \in Int
            BY <1>1
          <6> QED
            BY <1>1, <4>1, <6>1, BlitType
        <5> QED
          BY <1>1, <1>3, <3>2, <5>1
      <4>3. heap' = [heap EXCEPT ![t] = [heap[t] EXCEPT ![loc[t]] =
                       Blit(heap[t][loc[t]], ofs[t], iobuf[t], 0, ret[t])]]
        BY <3>2 DEF DrainIobuf
      <4>4. [heap[t] EXCEPT ![loc[t]] = Blit(heap[t][loc[t]], ofs[t], iobuf[t], 0, ret[t])]
              \in [Addr -> [BufIndex -> Byte]]
        BY <3>1, <4>2
      <4> QED
        BY <3>1, <4>3, <4>4
    <3> QED
      BY <3>1, <3>2
  <2>2. iobuf' \in [Threads -> [IobufIndex -> Byte]]
    BY JunkType DEF IInv, TypeOK, MemoryType, LeaveMoved, Finish
  <2> QED
    BY <1>0, <2>1, <2>2 DEF IInv, TypeOK, MemoryType, kernel, history
<1>6. CASE "ONCE" \in Mode(req[t])
  <2>0. pc' = [pc EXCEPT ![t] = "ocaml"]
        /\ result' = [result EXCEPT ![t] = Ok(processed[t] + ret[t])]
    BY <1>6 DEF LeaveMoved, Finish
  <2>1. ControlType'
    <3>1. Ok(processed[t] + ret[t]) \in Result
      BY <1>1 DEF Ok, Result
    <3> QED
      BY <1>0, <2>0, <3>1 DEF IInv, TypeOK, ControlType
  <2>2. LockInv'
    BY <1>0, <2>0, RwAssumption DEF IInv, TypeOK, ControlType, CounterType, LockInv
  <2>3. Bookkeeping'
    <3> SUFFICES ASSUME NEW u \in Threads PROVE (Running(u) => Booked(u))'
      BY DEF Bookkeeping
    <3>1. CASE u = t
      BY <2>0, <3>1 DEF IInv, TypeOK, ControlType, Running
    <3>2. CASE u # t
      BY <1>0, <2>0, <3>2, BookedFrame
      DEF IInv, TypeOK, ControlType, CounterType, Bookkeeping, history
    <3> QED
      BY <3>1, <3>2
  <2>4. CountIsExact'
    BY <1>0, <1>2, <2>0
    DEF IInv, TypeOK, ControlType, CountIsExact, history, Ok, Errors
  <2> QED
    BY <1>4, <1>5, <2>1, <2>2, <2>3, <2>4 DEF IInv, TypeOK
<1>7. CASE "ONCE" \notin Mode(req[t])
  <2>0. pc' = [pc EXCEPT ![t] = "loop"] /\ UNCHANGED result
    BY <1>7 DEF LeaveMoved
  <2>1. ControlType'
    BY <1>0, <2>0 DEF IInv, TypeOK, ControlType
  <2>2. LockInv'
    BY <1>0, <2>0, RwAssumption DEF IInv, TypeOK, ControlType, CounterType, LockInv
  <2>3. Bookkeeping'
    <3> SUFFICES ASSUME NEW u \in Threads PROVE (Running(u) => Booked(u))'
      BY DEF Bookkeeping
    <3>1. CASE u = t
      <4>1. /\ processed'[t] = processed[t] + ret[t] /\ ofs'[t] = ofs[t] + ret[t]
            /\ len'[t] = len[t] - ret[t] /\ (Positional(req[t]) => off'[t] = off[t] + ret[t])
            /\ req'[t] = req[t] /\ moved'[t] = moved[t] /\ pc'[t] = "loop"
        BY <1>0, <2>0 DEF IInv, TypeOK, ControlType, CounterType, history
      <4>2. Unbooked(t)' = 0 /\ numbytes(t)' >= 0
        BY <1>1, <1>3, <4>1, RwAssumption DEF Unbooked, numbytes, Min2
      <4>3. req[t].ofs \in Int /\ req[t].len \in Int /\ BufLen \in Int
        BY RwAssumption DEF IInv, TypeOK, ControlType, Request, OCamlInt, min_int
      <4>4. InWindow(t, req[t])' /\ (Positional(req[t]) => off[t] >= 0)'
        BY <1>0, <1>1, <4>1 DEF Booked, InWindow, WinOfs, WinLen, Positional
      <4>5. /\ (ofs[t] = WinOfs(t, req[t]) + processed[t])'
            /\ (len[t] = WinLen(t, req[t]) - processed[t])'
        BY <1>0, <1>1, <4>1, <4>3 DEF Booked, WinOfs, WinLen
      <4>6. (moved[t] = processed[t] + Unbooked(t))'
        BY <1>1, <1>2, <4>1, <4>2
      <4>7. "ONCE" \notin Mode(req'[t])
        BY <1>7, <4>1
      <4> QED
        BY <3>1, <4>2, <4>4, <4>5, <4>6, <4>7 DEF Booked
    <3>2. CASE u # t
      BY <1>0, <2>0, <3>2, BookedFrame
      DEF IInv, TypeOK, ControlType, CounterType, Bookkeeping, history
    <3> QED
      BY <3>1, <3>2
  <2>4. CountIsExact'
    BY <1>0, <2>0 DEF IInv, TypeOK, ControlType, CountIsExact, history
  <2> QED
    BY <1>4, <1>5, <2>1, <2>2, <2>3, <2>4 DEF IInv, TypeOK
<1> QED
  BY <1>6, <1>7

-----------------------------------------------------------------------------
(***************************************************************************)
(* The theorems.                                                           *)
(***************************************************************************)
LEMMA StubStep ==
  ASSUME IInv, NEW t \in Threads, Stub(t)
  PROVE  IInv'
BY StubCases, LoopExitStep, LeaveEmptyStep, EnterStep, LeaveMovedStep DEF IInv

LEMMA NextIInv ==
  ASSUME LargeFileCallersCheck, IInv, [Next]_vars
  PROVE  IInv'
<1>1. CASE UNCHANGED vars
  <2>1. TypeOK' /\ LockInv' /\ CountIsExact'
    BY <1>1 DEF IInv, TypeOK, ControlType, CounterType, MemoryType, LockInv, CountIsExact,
                vars, frame, memory, kernel, history
  <2>2. Bookkeeping'
    BY <1>1, BookedFrame DEF IInv, Bookkeeping, vars, frame, memory, kernel, history
  <2> QED
    BY <2>1, <2>2 DEF IInv
<1>2. ASSUME NEW t \in Threads, Acquire(t) \/ Yield(t) PROVE IInv'
  BY <1>2, LockSteps
<1>3. ASSUME NEW t \in Threads, NEW u \in Threads, GC(t, u) PROVE IInv'
  BY <1>3, GCStep
<1>4. ASSUME NEW t \in Threads, NEW r \in Calls[t], Start(t, r) PROVE IInv'
  BY <1>4, StartStep
<1>5. ASSUME NEW t \in Threads, Kernel(t) PROVE IInv'
  BY <1>5, KernelReadStep, KernelWriteStep, KernelNothingStep DEF Kernel
<1>6. ASSUME NEW t \in Threads, Stub(t) PROVE IInv'
  BY <1>6, StubStep
<1> QED
  BY <1>1, <1>2, <1>3, <1>4, <1>5, <1>6 DEF Next

\* The books of every running call agree with what the kernel moved for it,
\* in every reachable state, if LargeFile callers mind their windows.
THEOREM Invariance == ASSUME LargeFileCallersCheck PROVE Spec => []IInv
<1>1. Init => IInv
  BY InitIInv
<1>2. IInv /\ [Next]_vars => IInv'
  BY NextIInv
<1> QED
  BY <1>1, <1>2, PTL DEF Spec

\* All variables keep their types: no counter of a *_common function goes
\* below zero and the buffers hold bytes only.
THEOREM TypeCorrect == ASSUME LargeFileCallersCheck PROVE Spec => []TypeOK
<1>1. IInv => TypeOK
  BY DEF IInv
<1> QED
  BY <1>1, Invariance, PTL

\* Memory safety of the eight loops for all buffer and chunk sizes.
THEOREM MemorySafety == ASSUME LargeFileCallersCheck PROVE Spec => []InBounds
<1>1. IInv => InBounds
  <2> SUFFICES ASSUME IInv, NEW t \in Threads, Running(t)
               PROVE  /\ ofs[t] >= 0 /\ len[t] >= 0 /\ ofs[t] + len[t] <= BufLen
                      /\ pc[t] = "syscall" /\ dst[t] = "iobuf" => numbytes(t) <= UNIX_BUFFER_SIZE
                      /\ pc[t] = "leave" => ret[t] <= numbytes(t)
    BY DEF InBounds
  <2>0. Booked(t) /\ ofs[t] \in Nat /\ len[t] \in Nat /\ ret[t] \in Int /\ processed[t] \in Nat
    BY DEF IInv, Bookkeeping, TypeOK, CounterType
  <2>1. ofs[t] + len[t] <= BufLen
    <3>1. req[t].ofs \in Int /\ req[t].len \in Int /\ BufLen \in Int
      BY RwAssumption DEF IInv, TypeOK, ControlType, Request, OCamlInt, min_int
    <3> QED
      BY <2>0, <3>1 DEF Booked, InWindow, WinOfs, WinLen
  <2>2. pc[t] = "syscall" /\ dst[t] = "iobuf" => numbytes(t) <= UNIX_BUFFER_SIZE
    <3>1. pc[t] = "syscall" /\ dst[t] = "iobuf" => Kind[t] # "BA"
      BY DEF IInv, TypeOK, ControlType, LockInv, Addr
    <3> QED
      BY <2>0, <3>1, RwAssumption DEF numbytes, Min2
  <2>3. pc[t] = "leave" => ret[t] <= numbytes(t)
    <3>1. numbytes(t) \in Nat
      BY <2>0, RwAssumption DEF numbytes, Min2
    <3> QED
      BY <2>0, <3>1 DEF Booked, Unbooked
  <2> QED
    BY <2>0, <2>1, <2>2, <2>3
<1> QED
  BY <1>1, Invariance, PTL

\* The count that a call returns is the number of bytes moved for it, and a
\* Unix_error of single_, plain and intr_ calls means that none was.
THEOREM CountsAreExact == ASSUME LargeFileCallersCheck PROVE Spec => []CountIsExact
<1>1. IInv => CountIsExact
  BY DEF IInv
<1> QED
  BY <1>1, Invariance, PTL

\* Bytes values are only touched under the runtime lock, and their bytes
\* only by the thread that called with them (HeapUnderLock).
THEOREM HeapIsLocked == ASSUME LargeFileCallersCheck PROVE Spec => HeapUnderLock
<1>1. ASSUME IInv, [Next]_vars
      PROVE  [\A t \in Threads : Kind[t] = "Bytes" /\ heap'[t] # heap[t] =>
                /\ lock' # NoThread
                /\ Buf(t)' # Buf(t) => lock' = t]_vars
  <2>1. CASE UNCHANGED vars
    BY <2>1
  <2>2. CASE UNCHANGED heap
    BY <2>2
  <2>3. ASSUME NEW t \in Threads, NEW u \in Threads, GC(t, u), NEW v \in Threads
        PROVE  lock' # NoThread /\ Buf(v)' = Buf(v)
    <3>1. lock' # NoThread
      BY <2>3, RwAssumption DEF GC
    <3>2. CASE v = u
      <4>1. loc[u] \in Addr /\ heap[u] \in [Addr -> [BufIndex -> Byte]]
        BY <1>1 DEF IInv, TypeOK, ControlType, MemoryType
      <4>2. loc'[u] \in Addr /\ loc'[u] # loc[u]
        BY <1>1, <2>3, <4>1 DEF GC, IInv, TypeOK, ControlType, Addr
      <4>3. heap'[u] = [a \in Addr |-> IF a = loc[u] THEN JunkBuf ELSE Buf(u)]
        BY <1>1, <2>3 DEF GC, IInv, TypeOK, MemoryType
      <4>4. heap'[u][loc'[u]] = Buf(u)
        BY <4>2, <4>3
      <4> QED
        BY <3>1, <3>2, <4>4 DEF Buf
    <3>3. CASE v # u
      BY <1>1, <2>3, <3>1, <3>3 DEF GC, Buf, IInv, TypeOK, ControlType, MemoryType
    <3> QED
      BY <3>1, <3>2, <3>3
  <2>4. ASSUME NEW t \in Threads, NEW k \in 1 .. BufLen, KernelRead(t, k),
               NEW u \in Threads, Kind[u] = "Bytes"
        PROVE  heap'[u] = heap[u]
    <3>1. CASE u = t
      BY <1>1, <2>4, <3>1 DEF IInv, LockInv, KernelRead
    <3>2. CASE u # t
      BY <1>1, <2>4, <3>2 DEF IInv, TypeOK, MemoryType, KernelRead
    <3> QED
      BY <3>1, <3>2
  <2>5. ASSUME NEW t \in Threads, Stub(t), NEW u \in Threads, heap'[u] # heap[u]
        PROVE  u = t /\ lock' = t /\ lock' # NoThread
    <3>1. ASSUME LeaveMoved(t) PROVE lock' = t /\ lock' # NoThread
      BY <3>1, RwAssumption DEF LeaveMoved, Finish
    <3>2. ASSUME DrainIobuf(t) PROVE u = t
      BY <1>1, <2>5, <3>2 DEF DrainIobuf, IInv, TypeOK, MemoryType
    <3> QED
      BY <1>1, <2>5, <3>1, <3>2, StubCases
      DEF IInv, LoopEnds, SignalRaises, LeaveEmpty, Enter, memory
  <2>6. ASSUME NEW t \in Threads,
               \/ Acquire(t) \/ Yield(t) \/ KernelZero(t)
               \/ \E r \in Calls[t] : Start(t, r)
               \/ \E e \in Errors : KernelFail(t, e)
               \/ \E k \in 1 .. BufLen : KernelWrite(t, k)
        PROVE  UNCHANGED heap
    BY <2>6 DEF Acquire, Yield, KernelZero, Start, KernelFail, KernelWrite, memory
  <2> QED
    BY <1>1, <2>1, <2>2, <2>3, <2>4, <2>5, <2>6 DEF Next, Kernel
<1> QED
  BY <1>1, Invariance, PTL DEF Spec, HeapUnderLock
=============================================================================
