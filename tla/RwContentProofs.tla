-------------------------- MODULE RwContentProofs ---------------------------
(***************************************************************************)
(* What the buffers hold: a read delivers exactly the kernel's bytes and a *)
(* write sends its window in order, for all sizes, threads and calls.      *)
(***************************************************************************)
EXTENDS RwLoopProofs

\* The arithmetic of a running call, from the invariant.
LEMMA RunningFacts ==
  ASSUME IInv, NEW t \in Threads, Running(t)
  PROVE  /\ WinOfs(t, req[t]) \in Nat /\ BufLen \in Nat /\ UNIX_BUFFER_SIZE \in Nat
         /\ processed[t] \in Nat /\ moved[t] \in Nat /\ ofs[t] \in Nat /\ len[t] \in Nat
         /\ ret[t] \in Int /\ numbytes(t) \in Nat
         /\ ofs[t] = WinOfs(t, req[t]) + processed[t]
         /\ ofs[t] + numbytes(t) <= BufLen
         /\ Kind[t] # "BA" => numbytes(t) <= UNIX_BUFFER_SIZE
         /\ Unbooked(t) \in Nat /\ moved[t] = processed[t] + Unbooked(t)
         /\ Unbooked(t) <= numbytes(t)
<1>1. Booked(t)
  BY DEF IInv, Bookkeeping
<1>2. /\ processed[t] \in Nat /\ moved[t] \in Nat /\ ofs[t] \in Nat /\ len[t] \in Nat
      /\ ret[t] \in Int
  BY DEF IInv, TypeOK, CounterType
<1>3. BufLen \in Nat /\ UNIX_BUFFER_SIZE \in Nat
  BY RwAssumption
<1>4. WinOfs(t, req[t]) \in Int /\ WinLen(t, req[t]) \in Int
  <2>1. req[t].ofs \in Int /\ req[t].len \in Int
    BY DEF IInv, TypeOK, ControlType, Request, OCamlInt, min_int
  <2> QED
    BY <1>3, <2>1 DEF WinOfs, WinLen
<1>5. numbytes(t) \in Nat /\ numbytes(t) <= len[t]
      /\ (Kind[t] # "BA" => numbytes(t) <= UNIX_BUFFER_SIZE)
  BY <1>2, <1>3 DEF numbytes, Min2
<1>6. WinOfs(t, req[t]) >= 0 /\ ofs[t] + len[t] <= BufLen
  BY <1>1, <1>2, <1>3, <1>4 DEF Booked, InWindow
<1>7. Unbooked(t) \in Nat
  BY <1>2 DEF Unbooked
<1> QED
  BY <1>1, <1>2, <1>3, <1>4, <1>5, <1>6, <1>7 DEF Booked

\* A thread whose buffers and books a step leaves alone keeps its contents.
LEMMA ContentsFrame ==
  ASSUME NEW u \in Threads, Contents(u),
         pc'[u] = pc[u], req'[u] = req[u], ofs'[u] = ofs[u], len'[u] = len[u],
         processed'[u] = processed[u], ret'[u] = ret[u], moved'[u] = moved[u],
         before'[u] = before[u], xfer'[u] = xfer[u], iobuf'[u] = iobuf[u],
         Buf(u)' = Buf(u)
  PROVE  Contents(u)'
<1>1. /\ IsRead(req[u])' <=> IsRead(req[u])
      /\ WinOfs(u, req[u])' = WinOfs(u, req[u])
      /\ Landed(u)' = Landed(u) /\ numbytes(u)' = numbytes(u)
  BY DEF IsRead, WinOfs, Landed, Running, numbytes
<1>2. ReadContents(u) => ReadContents(u)'
  BY <1>1 DEF ReadContents
<1>3. WriteContents(u) => WriteContents(u)'
  BY <1>1 DEF WriteContents
<1>4. IobufContents(u) => IobufContents(u)'
  BY <1>1 DEF IobufContents
<1> QED
  BY <1>1, <1>2, <1>3, <1>4 DEF Contents

\* A step of t that changes neither its OCaml buffer nor the history keeps
\* the contents, if the books agree and the stack buffer is not in use.
LEMMA ContentsKept ==
  ASSUME NEW t \in Threads, Contents(t), req'[t] = req[t], moved'[t] = moved[t],
         before'[t] = before[t], xfer'[t] = xfer[t], Buf(t)' = Buf(t),
         Landed(t)' = Landed(t), IobufContents(t)'
  PROVE  Contents(t)'
<1>1. /\ IsRead(req[t])' <=> IsRead(req[t])
      /\ WinOfs(t, req[t])' = WinOfs(t, req[t])
  BY DEF IsRead, WinOfs
<1>2. ReadContents(t) => ReadContents(t)'
  BY <1>1 DEF ReadContents
<1>3. WriteContents(t) => WriteContents(t)'
  BY <1>1 DEF WriteContents
<1> QED
  BY <1>1, <1>2, <1>3 DEF Contents

\* An action of t that leaves the arrays of the other threads alone.
OthersKept(t) == \A u \in Threads \ {t} :
  /\ pc'[u] = pc[u] /\ req'[u] = req[u] /\ ofs'[u] = ofs[u] /\ len'[u] = len[u]
  /\ processed'[u] = processed[u] /\ ret'[u] = ret[u] /\ moved'[u] = moved[u]
  /\ before'[u] = before[u] /\ xfer'[u] = xfer[u] /\ iobuf'[u] = iobuf[u]
  /\ heap'[u] = heap[u] /\ loc'[u] = loc[u]

\* It is enough to look at the thread that makes the step.
LEMMA OnlyActor ==
  ASSUME ContentInv, NEW t \in Threads, OthersKept(t), Contents(t)'
  PROVE  ContentInv'
<1> SUFFICES ASSUME NEW u \in Threads, u # t PROVE Contents(u)'
  BY DEF ContentInv
<1>1. Buf(u)' = Buf(u)
  BY DEF OthersKept, Buf
<1> QED
  BY <1>1, ContentsFrame DEF ContentInv, OthersKept

-----------------------------------------------------------------------------
LEMMA ContentInit == Init => ContentInv
<1> SUFFICES ASSUME Init, NEW t \in Threads PROVE Contents(t)
  BY DEF ContentInv
<1>1. Buf(t) = InitBuf[t] /\ before[t] = InitBuf[t] /\ moved[t] = 0 /\ pc[t] = "ocaml"
      /\ req[t] = NoCall
  BY DEF Init, Buf, Addr
<1>2. IsRead(req[t]) /\ WinOfs(t, req[t]) = 0 /\ Landed(t) = 0
  BY <1>1 DEF NoCall, IsRead, WinOfs, Landed, Running
<1>3. ReadContents(t)
  BY <1>1, <1>2 DEF ReadContents, BufIndex
<1>4. IobufContents(t)
  BY <1>1 DEF IobufContents
<1> QED
  BY <1>2, <1>3, <1>4 DEF Contents

\* The collector moves a buffer together with its contents.
LEMMA ContentLock ==
  ASSUME IInv, ContentInv, NEW t \in Threads,
         Acquire(t) \/ Yield(t) \/ \E w \in Threads : GC(t, w)
  PROVE  ContentInv'
<1> SUFFICES ASSUME NEW u \in Threads PROVE Contents(u)'
  BY DEF ContentInv
<1>1. UNCHANGED <<pc, req, frame, iobuf, ret, history>>
  BY DEF Acquire, Yield, GC
<1>2. Buf(u)' = Buf(u)
  <2>1. CASE Acquire(t) \/ Yield(t)
    BY <2>1 DEF Acquire, Yield, memory, Buf
  <2>2. ASSUME NEW w \in Threads, GC(t, w) PROVE Buf(u)' = Buf(u)
    <3>1. CASE u = w
      BY <2>2, <3>1 DEF IInv, TypeOK, ControlType, MemoryType, GC, Buf, Addr
    <3>2. CASE u # w
      BY <2>2, <3>2 DEF IInv, TypeOK, ControlType, MemoryType, GC, Buf
    <3> QED
      BY <3>1, <3>2
  <2> QED
    BY <2>1, <2>2
<1> QED
  BY <1>1, <1>2, ContentsFrame DEF ContentInv, frame, history

LEMMA ContentStart ==
  ASSUME IInv, ContentInv, NEW t \in Threads, NEW r \in Calls[t], Start(t, r)
  PROVE  ContentInv'
<1>1. OthersKept(t)
  BY DEF IInv, TypeOK, ControlType, CounterType, MemoryType, OthersKept, Start, frame, memory
<1>2. /\ req'[t] = r /\ before'[t] = Buf(t) /\ moved'[t] = 0 /\ Buf(t)' = Buf(t)
      /\ pc'[t] \in {"ocaml", "loop"}
      /\ pc'[t] = "loop" => processed'[t] = 0
  BY DEF IInv, TypeOK, ControlType, CounterType, MemoryType, Start, Buf, memory
<1>3. Landed(t)' = 0
  BY <1>2 DEF Landed, Running
<1>4. WinOfs(t, req[t])' \in Int
  BY <1>2, CallsAssumption DEF WinOfs, Request, OCamlInt, min_int
<1>5. ReadContents(t)'
  BY <1>2, <1>3, <1>4 DEF ReadContents, BufIndex
<1>6. WriteContents(t)'
  BY <1>2 DEF WriteContents
<1>7. IobufContents(t)'
  BY <1>2 DEF IobufContents
<1>8. Contents(t)'
  BY <1>5, <1>6, <1>7 DEF Contents
<1> QED
  BY <1>1, <1>8, OnlyActor

-----------------------------------------------------------------------------
LEMMA ContentKernelRead ==
  ASSUME IInv, ContentInv, NEW t \in Threads, NEW k \in 1 .. BufLen, KernelRead(t, k)
  PROVE  ContentInv'
<1> DEFINE W == WinOfs(t, req[t])
           A == At(t)
<1>0. /\ pc[t] = "syscall" /\ IsRead(req[t]) /\ k <= numbytes(t) /\ Advance(t, k)
      /\ xfer' = [xfer EXCEPT ![t] = Blit(xfer[t], moved[t], file, A, k)]
  BY DEF KernelRead
<1>1. OthersKept(t)
  BY DEF IInv, TypeOK, ControlType, CounterType, MemoryType, OthersKept, KernelRead, Advance, frame
<1>2. Running(t) /\ Unbooked(t) = 0
  BY <1>0 DEF Running, Unbooked
<1>3. /\ W \in Nat /\ BufLen \in Nat /\ UNIX_BUFFER_SIZE \in Nat /\ k \in Nat \ {0}
      /\ processed[t] \in Nat /\ moved[t] = processed[t] /\ ofs[t] = W + processed[t]
      /\ ofs[t] + k <= BufLen
      /\ Kind[t] # "BA" => k <= UNIX_BUFFER_SIZE
  BY <1>0, <1>2, RunningFacts
<1>4. A \in Int
  BY DEF IInv, TypeOK, CounterType, At
<1>5. /\ pc'[t] = "leave" /\ ret'[t] = k /\ moved'[t] = moved[t] + k
      /\ UNCHANGED <<req, processed, ofs, loc, before>>
      /\ xfer'[t] = Blit(xfer[t], moved[t], file, A, k)
  BY <1>0 DEF IInv, TypeOK, ControlType, CounterType, MemoryType, Advance, frame
<1>6. /\ IsRead(req[t])' /\ WinOfs(t, req[t])' = W /\ Running(t)'
  BY <1>0, <1>5 DEF IsRead, WinOfs, Running
<1>7. \A j \in BufIndex : xfer'[t][j] = IF moved[t] <= j /\ j < moved[t] + k
                                         THEN file[A + (j - moved[t])] ELSE xfer[t][j]
  BY <1>5 DEF IInv, TypeOK, MemoryType, Blit
<1>8. \A i \in BufIndex : Buf(t)[i] = IF W <= i /\ i < W + processed[t]
                                      THEN xfer[t][i - W] ELSE before[t][i]
  BY <1>0, <1>2, <1>3 DEF ContentInv, Contents, ReadContents, Landed
<1> HIDE DEF W, A
<1>9. CASE Kind[t] # "BA"
  <2>1. dst[t] = "iobuf"
    BY <1>0, <1>9 DEF IInv, LockInv
  <2>2. Buf(t)' = Buf(t) /\ iobuf'[t] = Blit(iobuf[t], 0, file, A, k)
    BY <1>5, <2>1 DEF IInv, TypeOK, MemoryType, KernelRead, Buf, A
  <2>3. Landed(t)' = processed[t]
    BY <1>5, <1>6, <1>9 DEF Landed
  <2>4. ReadContents(t)'
    <3> SUFFICES ASSUME NEW i \in BufIndex
                 PROVE  Buf(t)'[i] = IF W <= i /\ i < W + processed[t]
                                     THEN xfer'[t][i - W] ELSE before'[t][i]
      BY <1>6, <2>3 DEF ReadContents
    <3>1. CASE W <= i /\ i < W + processed[t]
      <4>1. i - W \in BufIndex /\ i - W < moved[t]
        BY <1>3, <3>1 DEF BufIndex
      <4>2. xfer'[t][i - W] = xfer[t][i - W]
        BY <1>3, <1>7, <4>1 DEF BufIndex
      <4> QED
        BY <1>8, <2>2, <3>1, <4>2
    <3>2. CASE ~(W <= i /\ i < W + processed[t])
      BY <1>5, <1>8, <2>2, <3>2
    <3> QED
      BY <3>1, <3>2
  <2>5. IobufContents(t)'
    <3> SUFFICES ASSUME NEW i \in 0 .. k - 1
                 PROVE  iobuf'[t][i] = xfer'[t][processed[t] + i]
      BY <1>5 DEF IobufContents
    <3>1. i \in IobufIndex /\ processed[t] + i \in BufIndex
      BY <1>3, <1>9 DEF IobufIndex, BufIndex
    <3>2. iobuf'[t][i] = file[A + (i - 0)]
      BY <1>3, <2>2, <3>1 DEF IInv, TypeOK, MemoryType, Blit
    <3>3. xfer'[t][processed[t] + i] = file[A + (processed[t] + i - moved[t])]
      BY <1>3, <1>7, <3>1
    <3>4. i - 0 = processed[t] + i - moved[t]
      BY <1>3
    <3> QED
      BY <3>2, <3>3, <3>4
  <2>6. Contents(t)'
    BY <1>6, <2>4, <2>5 DEF Contents
  <2> QED
    BY <1>1, <2>6, OnlyActor
<1>10. CASE Kind[t] = "BA"
  <2>1. dst[t] = loc[t] /\ loc[t] # "iobuf" /\ loc[t] \in Addr
    BY <1>0, <1>10 DEF IInv, TypeOK, ControlType, LockInv, Addr
  <2>2. Buf(t)' = Blit(Buf(t), ofs[t], file, A, k)
    BY <1>5, <2>1 DEF IInv, TypeOK, MemoryType, KernelRead, Buf, A
  <2>3. Landed(t)' = processed[t] + k
    BY <1>3, <1>5, <1>10 DEF Landed
  <2>4. \A i \in BufIndex : Buf(t)'[i] = IF ofs[t] <= i /\ i < ofs[t] + k
                                         THEN file[A + (i - ofs[t])] ELSE Buf(t)[i]
    <3>1. Buf(t) \in [BufIndex -> Byte]
      BY <2>1 DEF IInv, TypeOK, MemoryType, Buf
    <3> QED
      BY <2>2, <3>1 DEF Blit
  <2>5. ReadContents(t)'
    <3> SUFFICES ASSUME NEW i \in BufIndex
                 PROVE  Buf(t)'[i] = IF W <= i /\ i < W + (processed[t] + k)
                                     THEN xfer'[t][i - W] ELSE before'[t][i]
      BY <1>6, <2>3 DEF ReadContents
    <3>0. i \in Nat /\ (W <= i => i - W \in BufIndex)
      BY <1>3 DEF BufIndex
    <3>1. CASE W <= i /\ i < W + processed[t]
      <4>1. Buf(t)'[i] = xfer[t][i - W]
        BY <1>3, <1>8, <2>4, <3>0, <3>1
      <4>2. xfer'[t][i - W] = xfer[t][i - W]
        BY <1>3, <1>7, <3>0, <3>1
      <4> QED
        BY <1>3, <3>0, <3>1, <4>1, <4>2
    <3>2. CASE W + processed[t] <= i /\ i < W + (processed[t] + k)
      <4>1. Buf(t)'[i] = file[A + (i - ofs[t])]
        BY <1>3, <2>4, <3>0, <3>2
      <4>2. xfer'[t][i - W] = file[A + (i - W - moved[t])]
        BY <1>3, <1>7, <3>0, <3>2
      <4>3. i - ofs[t] = i - W - moved[t] /\ W <= i
        BY <1>3, <3>0, <3>2
      <4> QED
        BY <3>2, <4>1, <4>2, <4>3
    <3>3. CASE i < W \/ W + (processed[t] + k) <= i
      BY <1>3, <1>5, <1>8, <2>4, <3>0, <3>3
    <3> QED
      BY <1>3, <3>0, <3>1, <3>2, <3>3
  <2>6. Contents(t)'
    BY <1>6, <1>10, <2>5 DEF Contents
  <2> QED
    BY <1>1, <2>6, OnlyActor
<1> QED
  BY <1>9, <1>10

LEMMA ContentKernelWrite ==
  ASSUME IInv, ContentInv, NEW t \in Threads, NEW k \in 1 .. BufLen, KernelWrite(t, k)
  PROVE  ContentInv'
<1> DEFINE W     == WinOfs(t, req[t])
           src   == IF dst[t] = "iobuf" THEN iobuf[t] ELSE heap[t][dst[t]]
           start == IF dst[t] = "iobuf" THEN 0 ELSE ofs[t]
<1>0. /\ pc[t] = "syscall" /\ ~IsRead(req[t]) /\ k <= numbytes(t) /\ Advance(t, k)
      /\ xfer' = [xfer EXCEPT ![t] = Blit(xfer[t], moved[t], src, start, k)]
      /\ UNCHANGED <<iobuf, heap>>
  BY DEF KernelWrite
<1>1. OthersKept(t)
  BY <1>0 DEF IInv, TypeOK, ControlType, CounterType, MemoryType, OthersKept, Advance, frame
<1>2. Running(t) /\ Unbooked(t) = 0
  BY <1>0 DEF Running, Unbooked
<1>3. /\ W \in Nat /\ BufLen \in Nat /\ k \in Nat \ {0} /\ numbytes(t) \in Nat
      /\ processed[t] \in Nat /\ moved[t] = processed[t] /\ ofs[t] = W + processed[t]
      /\ ofs[t] + k <= BufLen
  BY <1>0, <1>2, RunningFacts
<1>4. /\ pc'[t] = "leave" /\ moved'[t] = moved[t] + k /\ Buf(t)' = Buf(t)
      /\ UNCHANGED <<req, before>>
      /\ xfer'[t] = Blit(xfer[t], moved[t], src, start, k)
  BY <1>0 DEF IInv, TypeOK, ControlType, CounterType, MemoryType, Advance, Buf
<1>5. ~IsRead(req[t])' /\ WinOfs(t, req[t])' = W
  BY <1>0, <1>4 DEF IsRead, WinOfs
<1>6. Buf(t) = before[t] /\ \A i \in 0 .. moved[t] - 1 : xfer[t][i] = before[t][W + i]
  BY <1>0 DEF ContentInv, Contents, WriteContents
<1>7. \A j \in 0 .. k - 1 : src[start + j] = before[t][ofs[t] + j]
  <2>1. CASE Kind[t] # "BA"
    <3>1. dst[t] = "iobuf"
      BY <1>0, <2>1 DEF IInv, LockInv
    <3>2. \A j \in 0 .. numbytes(t) - 1 : iobuf[t][j] = before[t][ofs[t] + j]
      BY <1>0, <2>1 DEF ContentInv, Contents, IobufContents
    <3>3. src = iobuf[t] /\ start = 0
      BY <3>1
    <3>4. \A j \in 0 .. k - 1 : j \in 0 .. numbytes(t) - 1 /\ 0 + j = j
      BY <1>0, <1>3
    <3> HIDE DEF src, start
    <3> QED
      BY <3>2, <3>3, <3>4
  <2>2. CASE Kind[t] = "BA"
    <3>1. dst[t] = loc[t] /\ loc[t] # "iobuf"
      BY <1>0, <2>2 DEF IInv, TypeOK, ControlType, LockInv, Addr
    <3> QED
      BY <1>6, <3>1 DEF Buf
  <2> QED
    BY <2>1, <2>2
<1> HIDE DEF W, src, start
<1>8. \A i \in 0 .. (moved[t] + k) - 1 : xfer'[t][i] = before[t][W + i]
  <2> SUFFICES ASSUME NEW i \in 0 .. (moved[t] + k) - 1
               PROVE  xfer'[t][i] = before[t][W + i]
    OBVIOUS
  <2>0. i \in BufIndex
    BY <1>3 DEF BufIndex
  <2>1. xfer'[t][i] = IF moved[t] <= i /\ i < moved[t] + k
                      THEN src[start + (i - moved[t])] ELSE xfer[t][i]
    BY <1>4, <2>0 DEF IInv, TypeOK, MemoryType, Blit
  <2>2. CASE i < moved[t]
    BY <1>3, <1>6, <2>1, <2>2
  <2>3. CASE moved[t] <= i
    <3>1. i - moved[t] \in 0 .. k - 1 /\ ofs[t] + (i - moved[t]) = W + i
      BY <1>3, <2>3
    <3>2. src[start + (i - moved[t])] = before[t][ofs[t] + (i - moved[t])]
      BY <1>7, <3>1
    <3> QED
      BY <1>3, <2>1, <2>3, <3>1, <3>2
  <2> QED
    BY <1>3, <2>2, <2>3
<1>9. WriteContents(t)'
  BY <1>4, <1>5, <1>6, <1>8 DEF WriteContents
<1>10. IobufContents(t)'
  BY <1>4, <1>5 DEF IobufContents
<1>11. Contents(t)'
  BY <1>5, <1>9, <1>10 DEF Contents
<1> QED
  BY <1>1, <1>11, OnlyActor

LEMMA ContentKernelNothing ==
  ASSUME IInv, ContentInv, NEW t \in Threads,
         KernelZero(t) \/ \E e \in Errors : KernelFail(t, e)
  PROVE  ContentInv'
<1>0. /\ pc[t] = "syscall" /\ pc' = [pc EXCEPT ![t] = "leave"]
      /\ ret' = [ret EXCEPT ![t] = 0] \/ ret' = [ret EXCEPT ![t] = -1]
      /\ UNCHANGED <<req, frame, iobuf, memory, history>>
  BY DEF KernelZero, KernelFail
<1>1. OthersKept(t)
  BY <1>0 DEF IInv, TypeOK, ControlType, CounterType, OthersKept, frame, memory, history
<1>2. Landed(t)' = Landed(t) /\ Buf(t)' = Buf(t)
  BY <1>0 DEF IInv, TypeOK, ControlType, Landed, Running, Buf, frame, memory, history
<1>3. pc'[t] = "leave" /\ (ret'[t] = 0 \/ ret'[t] = -1)
  BY <1>0 DEF IInv, TypeOK, ControlType, CounterType
<1>4. IobufContents(t)'
  BY <1>3 DEF IobufContents
<1>5. Contents(t)'
  BY <1>0, <1>2, <1>4, ContentsKept DEF ContentInv, history
<1> QED
  BY <1>1, <1>5, OnlyActor

-----------------------------------------------------------------------------
\* Steps of the stub that neither move nor copy bytes.
LEMMA ContentQuiet ==
  ASSUME IInv, ContentInv, NEW t \in Threads, LoopEnds(t) \/ SignalRaises(t) \/ LeaveEmpty(t)
  PROVE  ContentInv'
<1>0. /\ pc[t] \in {"loop", "leave"} /\ Running(t) /\ Unbooked(t) = 0
      /\ pc' = [pc EXCEPT ![t] = "ocaml"] \/ pc' = [pc EXCEPT ![t] = "loop"]
      /\ iobuf' = [iobuf EXCEPT ![t] = JunkIobuf] \/ UNCHANGED iobuf
      /\ UNCHANGED <<req, frame, ret, memory, history>>
  BY DEF IInv, TypeOK, CounterType, LoopEnds, SignalRaises, LeaveEmpty, Finish, Running, Unbooked
<1>1. OthersKept(t)
  BY <1>0 DEF IInv, TypeOK, ControlType, MemoryType, OthersKept, frame, memory, history
<1>2. moved[t] = processed[t]
  BY <1>0, RunningFacts
<1>3. pc'[t] \in {"ocaml", "loop"}
  BY <1>0 DEF IInv, TypeOK, ControlType
<1>4. Landed(t)' = Landed(t) /\ Buf(t)' = Buf(t)
  BY <1>0, <1>2 DEF Landed, Buf, frame, memory, history
<1>5. IobufContents(t)'
  BY <1>3 DEF IobufContents
<1>6. Contents(t)'
  BY <1>0, <1>4, <1>5, ContentsKept DEF ContentInv, history
<1> QED
  BY <1>1, <1>6, OnlyActor

LEMMA ContentEnter ==
  ASSUME IInv, ContentInv, NEW t \in Threads,
         Enter(t, IF Kind[t] = "BA" THEN loc[t] ELSE "iobuf"),
         IF Kind[t] = "BA" \/ IsRead(req[t]) THEN UNCHANGED iobuf ELSE FillIobuf(t)
  PROVE  ContentInv'
<1>0. /\ pc[t] = "loop" /\ pc' = [pc EXCEPT ![t] = "syscall"]
      /\ UNCHANGED <<req, frame, ret, memory, history>>
  BY DEF Enter
<1>1. OthersKept(t)
  BY <1>0 DEF IInv, TypeOK, ControlType, MemoryType, OthersKept, FillIobuf, frame, memory, history
<1>2. Landed(t)' = Landed(t) /\ Buf(t)' = Buf(t) /\ pc'[t] = "syscall"
  BY <1>0 DEF IInv, TypeOK, ControlType, Landed, Running, Buf, frame, memory, history
<1>3. Kind[t] # "BA" => IobufContents(t)'
  <2> SUFFICES ASSUME Kind[t] # "BA", ~IsRead(req[t])'
               PROVE  (\A i \in 0 .. numbytes(t) - 1 : iobuf[t][i] = before[t][ofs[t] + i])'
    BY <1>2 DEF IobufContents
  <2>1. ~IsRead(req[t]) /\ numbytes(t)' = numbytes(t)
        /\ before'[t] = before[t] /\ ofs'[t] = ofs[t]
    BY <1>0 DEF IsRead, numbytes, frame, history
  <2>2. /\ numbytes(t) \in Nat /\ numbytes(t) <= UNIX_BUFFER_SIZE /\ UNIX_BUFFER_SIZE \in Nat
        /\ ofs[t] \in Nat
    BY <1>0, RunningFacts DEF Running
  <2>3. iobuf'[t] = Blit(iobuf[t], 0, Buf(t), ofs[t], numbytes(t))
    BY <2>1 DEF IInv, TypeOK, MemoryType, FillIobuf
  <2>4. Buf(t) = before[t]
    BY <2>1 DEF ContentInv, Contents, WriteContents
  <2>5. \A i \in 0 .. numbytes(t) - 1 : iobuf'[t][i] = before[t][ofs[t] + i]
    <3> SUFFICES ASSUME NEW i \in 0 .. numbytes(t) - 1
                 PROVE  iobuf'[t][i] = before[t][ofs[t] + i]
      OBVIOUS
    <3>1. i \in IobufIndex
      BY <2>2 DEF IobufIndex
    <3>2. iobuf'[t][i] = Buf(t)[ofs[t] + (i - 0)]
      BY <2>2, <2>3, <3>1 DEF IInv, TypeOK, MemoryType, Blit
    <3>3. ofs[t] + (i - 0) = ofs[t] + i
      BY <2>2
    <3> QED
      BY <2>4, <3>2, <3>3
  <2> QED
    BY <2>1, <2>5
<1>4. Contents(t)'
  <2>1. CASE Kind[t] # "BA"
    BY <1>0, <1>2, <1>3, <2>1, ContentsKept DEF ContentInv, history
  <2>2. CASE Kind[t] = "BA"
    <3>1. /\ IsRead(req[t])' <=> IsRead(req[t])
          /\ WinOfs(t, req[t])' = WinOfs(t, req[t])
      BY <1>0 DEF IsRead, WinOfs
    <3>2. ReadContents(t) => ReadContents(t)'
      BY <1>0, <1>2, <3>1 DEF ReadContents, history
    <3>3. WriteContents(t) => WriteContents(t)'
      BY <1>0, <1>2, <3>1 DEF WriteContents, history
    <3> QED
      BY <2>2, <3>1, <3>2, <3>3 DEF ContentInv, Contents
  <2> QED
    BY <2>1, <2>2
<1> QED
  BY <1>1, <1>4, OnlyActor

LEMMA ContentMoved ==
  ASSUME IInv, ContentInv, NEW t \in Threads, LeaveMoved(t),
         IF Kind[t] = "BA" \/ ~IsRead(req[t]) THEN UNCHANGED heap ELSE DrainIobuf(t)
  PROVE  ContentInv'
<1> DEFINE W == WinOfs(t, req[t])
<1>0. /\ pc[t] = "leave" /\ ret[t] > 0
      /\ processed' = [processed EXCEPT ![t] = @ + ret[t]]
      /\ ofs' = [ofs EXCEPT ![t] = @ + ret[t]] /\ len' = [len EXCEPT ![t] = @ - ret[t]]
      /\ UNCHANGED <<loc, req, ret, history>>
      /\ pc' = [pc EXCEPT ![t] = "ocaml"] \/ pc' = [pc EXCEPT ![t] = "loop"]
      /\ iobuf' = [iobuf EXCEPT ![t] = JunkIobuf] \/ UNCHANGED iobuf
      /\ heap' = [heap EXCEPT ![t][loc[t]] = Blit(@, ofs[t], iobuf[t], 0, ret[t])]
         \/ UNCHANGED heap
  BY DEF LeaveMoved, Finish, DrainIobuf
<1>1. OthersKept(t)
  BY <1>0 DEF IInv, TypeOK, ControlType, CounterType, MemoryType, OthersKept, history
<1>2. Running(t) /\ Unbooked(t) = ret[t]
  BY <1>0 DEF Running, Unbooked
<1>3. /\ W \in Nat /\ BufLen \in Nat /\ UNIX_BUFFER_SIZE \in Nat /\ ret[t] \in Nat
      /\ processed[t] \in Nat /\ moved[t] = processed[t] + ret[t] /\ ofs[t] = W + processed[t]
      /\ ofs[t] + ret[t] <= BufLen
  BY <1>2, RunningFacts
<1>4. pc'[t] \in {"ocaml", "loop"} /\ processed'[t] = moved[t] /\ moved'[t] = moved[t]
      /\ before'[t] = before[t] /\ xfer'[t] = xfer[t] /\ req'[t] = req[t]
  BY <1>0, <1>3 DEF IInv, TypeOK, ControlType, CounterType, history
<1>5. IobufContents(t)'
  BY <1>4 DEF IobufContents
<1>6. Landed(t)' = moved[t]
  BY <1>4 DEF Landed
<1>7. CASE Kind[t] = "BA" \/ ~IsRead(req[t])
  <2>1. Buf(t)' = Buf(t)
    BY <1>0, <1>7 DEF Buf
  <2>2. CASE Kind[t] = "BA"
    <3>1. Landed(t) = moved[t]
      BY <2>2 DEF Landed
    <3>2. Contents(t)'
      BY <1>4, <1>5, <1>6, <2>1, <3>1, ContentsKept DEF ContentInv
    <3> QED
      BY <1>1, <3>2, OnlyActor
  <2>3. CASE ~IsRead(req[t])
    <3>1. ~IsRead(req[t])' /\ WinOfs(t, req[t])' = WinOfs(t, req[t])
      BY <1>4, <2>3 DEF IsRead, WinOfs
    <3>2. WriteContents(t)'
      BY <1>4, <2>1, <2>3, <3>1 DEF ContentInv, Contents, WriteContents
    <3>3. Contents(t)'
      BY <1>5, <3>1, <3>2 DEF Contents
    <3> QED
      BY <1>1, <3>3, OnlyActor
  <2> QED
    BY <1>7, <2>2, <2>3
<1>8. CASE Kind[t] # "BA" /\ IsRead(req[t])
  <2>1. Buf(t)' = Blit(Buf(t), ofs[t], iobuf[t], 0, ret[t]) /\ Buf(t) \in [BufIndex -> Byte]
    BY <1>0, <1>8 DEF IInv, TypeOK, ControlType, MemoryType, DrainIobuf, Buf
  <2>2. \A i \in BufIndex : Buf(t)'[i] = IF ofs[t] <= i /\ i < ofs[t] + ret[t]
                                         THEN iobuf[t][0 + (i - ofs[t])] ELSE Buf(t)[i]
    BY <2>1 DEF Blit
  <2>3. \A j \in 0 .. ret[t] - 1 : iobuf[t][j] = xfer[t][processed[t] + j]
    BY <1>0, <1>8 DEF ContentInv, Contents, IobufContents
  <2>4. \A i \in BufIndex : Buf(t)[i] = IF W <= i /\ i < W + processed[t]
                                        THEN xfer[t][i - W] ELSE before[t][i]
    BY <1>2, <1>8 DEF ContentInv, Contents, ReadContents, Landed
  <2>5. IsRead(req[t])' /\ WinOfs(t, req[t])' = W
    BY <1>4, <1>8 DEF IsRead, WinOfs
  <2> HIDE DEF W
  <2>6. ReadContents(t)'
    <3> SUFFICES ASSUME NEW i \in BufIndex
                 PROVE  Buf(t)'[i] = IF W <= i /\ i < W + moved[t]
                                     THEN xfer[t][i - W] ELSE before[t][i]
      BY <1>4, <1>6, <2>5 DEF ReadContents
    <3>0. i \in Nat
      BY <1>3 DEF BufIndex
    <3>1. CASE ofs[t] <= i /\ i < ofs[t] + ret[t]
      <4>1. 0 + (i - ofs[t]) \in 0 .. ret[t] - 1 /\ processed[t] + (0 + (i - ofs[t])) = i - W
        BY <1>3, <3>0, <3>1
      <4>2. Buf(t)'[i] = xfer[t][processed[t] + (0 + (i - ofs[t]))]
        BY <2>2, <2>3, <3>1, <4>1
      <4>3. W <= i /\ i < W + moved[t]
        BY <1>3, <3>0, <3>1
      <4> QED
        BY <4>1, <4>2, <4>3
    <3>2. CASE ~(ofs[t] <= i /\ i < ofs[t] + ret[t])
      <4>1. Buf(t)'[i] = Buf(t)[i]
        BY <2>2, <3>2
      <4>2. (W <= i /\ i < W + moved[t]) <=> (W <= i /\ i < W + processed[t])
        BY <1>3, <3>0, <3>2
      <4> QED
        BY <2>4, <4>1, <4>2
    <3> QED
      BY <3>1, <3>2
  <2>7. Contents(t)'
    BY <1>5, <2>5, <2>6 DEF Contents
  <2> QED
    BY <1>1, <2>7, OnlyActor
<1> QED
  BY <1>7, <1>8

-----------------------------------------------------------------------------
LEMMA NextContent ==
  ASSUME IInv, ContentInv, [Next]_vars
  PROVE  ContentInv'
<1>1. CASE UNCHANGED vars
  <2> SUFFICES ASSUME NEW u \in Threads PROVE Contents(u)'
    BY DEF ContentInv
  <2>1. Buf(u)' = Buf(u)
    BY <1>1 DEF vars, memory, Buf
  <2> QED
    BY <1>1, <2>1, ContentsFrame DEF ContentInv, vars, frame, history
<1>2. ASSUME NEW t \in Threads, Acquire(t) \/ Yield(t) \/ \E u \in Threads : GC(t, u)
      PROVE  ContentInv'
  BY <1>2, ContentLock
<1>3. ASSUME NEW t \in Threads, NEW r \in Calls[t], Start(t, r) PROVE ContentInv'
  BY <1>3, ContentStart
<1>4. ASSUME NEW t \in Threads, Kernel(t) PROVE ContentInv'
  BY <1>4, ContentKernelRead, ContentKernelWrite, ContentKernelNothing DEF Kernel
<1>5. ASSUME NEW t \in Threads, Stub(t) PROVE ContentInv'
  BY <1>5, StubCases, ContentQuiet, ContentEnter, ContentMoved DEF IInv
<1> QED
  BY <1>1, <1>2, <1>3, <1>4, <1>5 DEF Next

\* The contents of all buffers follow from what the kernel moved, in every
\* reachable state, if LargeFile callers mind their windows.
THEOREM ContentInvariance == ASSUME LargeFileCallersCheck PROVE Spec => []ContentInv
<1>1. Init => ContentInv
  BY ContentInit
<1>2. IInv /\ ContentInv /\ [Next]_vars => ContentInv'
  BY NextContent
<1> QED
  BY <1>1, <1>2, Invariance, PTL DEF Spec

\* When a call is over, a read has delivered exactly the bytes of the kernel
\* to the window and touched nothing else, and a write has changed nothing.
THEOREM BuffersAreExact == ASSUME LargeFileCallersCheck PROVE Spec => []BufferIsExact
<1>1. IInv /\ ContentInv => BufferIsExact
  <2> SUFFICES ASSUME IInv, ContentInv, NEW t \in Threads, pc[t] = "ocaml"
               PROVE  Buf(t) = IF IsRead(req[t])
                               THEN Blit(before[t], WinOfs(t, req[t]), xfer[t], 0, moved[t])
                               ELSE before[t]
    BY DEF BufferIsExact
  <2>0. Buf(t) \in [BufIndex -> Byte] /\ before[t] \in [BufIndex -> Byte]
    BY DEF IInv, TypeOK, ControlType, MemoryType, Buf
  <2>1. Landed(t) = moved[t]
    BY DEF Landed, Running
  <2>2. CASE ~IsRead(req[t])
    BY <2>2 DEF ContentInv, Contents, WriteContents
  <2>3. CASE IsRead(req[t])
    <3>0. WinOfs(t, req[t]) \in Int
      BY DEF IInv, TypeOK, ControlType, WinOfs, Request, OCamlInt, min_int
    <3>1. \A i \in BufIndex : 0 + (i - WinOfs(t, req[t])) = i - WinOfs(t, req[t])
      BY <3>0 DEF BufIndex
    <3>2. \A i \in BufIndex :
            Buf(t)[i] = Blit(before[t], WinOfs(t, req[t]), xfer[t], 0, moved[t])[i]
      BY <2>0, <2>1, <2>3, <3>1 DEF ContentInv, Contents, ReadContents, Blit
    <3>3. Blit(before[t], WinOfs(t, req[t]), xfer[t], 0, moved[t])
            = [i \in BufIndex |-> Blit(before[t], WinOfs(t, req[t]), xfer[t], 0, moved[t])[i]]
      BY <2>0 DEF Blit
    <3>4. Buf(t) = [i \in BufIndex |-> Buf(t)[i]]
      BY <2>0
    <3> QED
      BY <2>3, <3>2, <3>3, <3>4
  <2> QED
    BY <2>2, <2>3
<1> QED
  BY <1>1, Invariance, ContentInvariance, PTL

\* The bytes a write has sent are the first bytes of its window, in order.
THEOREM WritesInOrder == ASSUME LargeFileCallersCheck PROVE Spec => []SentIsPrefix
<1>1. ContentInv => SentIsPrefix
  BY DEF ContentInv, Contents, WriteContents, SentIsPrefix
<1> QED
  BY <1>1, ContentInvariance, PTL
=============================================================================
