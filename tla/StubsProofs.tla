----------------------------- MODULE StubsProofs -----------------------------
(***************************************************************************)
(* Theorems about Stubs, for any threads and any selection of calls.       *)
(***************************************************************************)
EXTENDS Stubs, TLAPS

(***************************************************************************)
(* Every stub of the table keeps the discipline: it frees what it owns     *)
(* exactly once on each path, gives addresses in the heap only to calls    *)
(* made under the lock, and registers the values it uses later.            *)
(***************************************************************************)
LEMMA TableDisciplined == \A s \in Table : Disciplined(s)
<1>1. Disciplined(caml_extunix_fstatat)
  BY DEF Disciplined, Copied, Memory, Stub, caml_extunix_fstatat
<1>2. Disciplined(caml_extunix_unlinkat)
  BY DEF Disciplined, Copied, Memory, Stub, caml_extunix_unlinkat
<1>3. Disciplined(caml_extunix_renameat)
  BY DEF Disciplined, Copied, Memory, Stub, caml_extunix_renameat
<1>4. Disciplined(caml_extunix_mkdirat)
  BY DEF Disciplined, Copied, Memory, Stub, caml_extunix_mkdirat
<1>5. Disciplined(caml_extunix_linkat)
  BY DEF Disciplined, Copied, Memory, Stub, caml_extunix_linkat
<1>6. Disciplined(caml_extunix_fchownat)
  BY DEF Disciplined, Copied, Memory, Stub, caml_extunix_fchownat
<1>7. Disciplined(caml_extunix_fchmodat)
  BY DEF Disciplined, Copied, Memory, Stub, caml_extunix_fchmodat
<1>8. Disciplined(caml_extunix_symlinkat)
  BY DEF Disciplined, Copied, Memory, Stub, caml_extunix_symlinkat
<1>9. Disciplined(caml_extunix_openat)
  BY DEF Disciplined, Copied, Memory, Stub, caml_extunix_openat
<1>10. Disciplined(caml_extunix_readlinkat)
  BY DEF Disciplined, Copied, Memory, Stub, caml_extunix_readlinkat
<1>11. Disciplined(caml_extunix_renameat2)
  BY DEF Disciplined, Copied, Memory, Stub, caml_extunix_renameat2
<1>12. Disciplined(caml_extunix_mount)
  BY DEF Disciplined, Copied, Memory, Stub, caml_extunix_mount
<1>13. Disciplined(caml_extunix_umount2)
  BY DEF Disciplined, Copied, Memory, Stub, caml_extunix_umount2
<1>14. Disciplined(caml_extunix_mkdtemp)
  BY DEF Disciplined, Copied, Memory, Stub, caml_extunix_mkdtemp
<1>15. Disciplined(caml_extunix_internal_mkstemps)
  BY DEF Disciplined, Copied, Memory, Stub, caml_extunix_internal_mkstemps
<1>16. Disciplined(caml_extunix_internal_mkostemps)
  BY DEF Disciplined, Copied, Memory, Stub, caml_extunix_internal_mkostemps
<1>17. Disciplined(caml_extunix_realpath)
  BY DEF Disciplined, Copied, Memory, Stub, caml_extunix_realpath
<1>18. Disciplined(caml_extunix_statvfs)
  BY DEF Disciplined, Copied, Memory, Stub, caml_extunix_statvfs
<1>19. Disciplined(caml_extunix_fsync)
  BY DEF Disciplined, Copied, Memory, Stub, caml_extunix_fsync
<1>20. Disciplined(caml_extunix_fdatasync)
  BY DEF Disciplined, Copied, Memory, Stub, caml_extunix_fdatasync
<1>21. Disciplined(caml_extunix_syncfs)
  BY DEF Disciplined, Copied, Memory, Stub, caml_extunix_syncfs
<1>22. Disciplined(caml_extunix_sync)
  BY DEF Disciplined, Copied, Memory, Stub, caml_extunix_sync
<1>23. Disciplined(caml_extunix_mlockall)
  BY DEF Disciplined, Copied, Memory, Stub, caml_extunix_mlockall
<1>24. Disciplined(caml_extunix_munlockall)
  BY DEF Disciplined, Copied, Memory, Stub, caml_extunix_munlockall
<1>25. Disciplined(caml_extunix_unshare)
  BY DEF Disciplined, Copied, Memory, Stub, caml_extunix_unshare
<1>26. Disciplined(caml_extunix_splice)
  BY DEF Disciplined, Copied, Memory, Stub, caml_extunix_splice
<1>27. Disciplined(caml_extunix_tee)
  BY DEF Disciplined, Copied, Memory, Stub, caml_extunix_tee
<1>28. Disciplined(caml_extunixba_vmsplice)
  BY DEF Disciplined, Copied, Memory, Stub, caml_extunixba_vmsplice
<1>29. Disciplined(caml_extunix_sendmsg)
  BY DEF Disciplined, Copied, Memory, Stub, caml_extunix_sendmsg
<1>30. Disciplined(caml_extunix_recvmsg)
  BY DEF Disciplined, Copied, Memory, Stub, caml_extunix_recvmsg
<1>31. Disciplined(caml_extunix_poll)
  BY DEF Disciplined, Copied, Memory, Stub, caml_extunix_poll
<1>32. Disciplined(caml_extunix_wait4)
  BY DEF Disciplined, Copied, Memory, Stub, caml_extunix_wait4
<1>33. Disciplined(caml_extunix_signalfd)
  BY DEF Disciplined, Copied, Memory, Stub, caml_extunix_signalfd
<1>34. Disciplined(caml_extunix_signalfd_read)
  BY DEF Disciplined, Copied, Memory, Stub, caml_extunix_signalfd_read
<1>35. Disciplined(caml_extunix_eventfd)
  BY DEF Disciplined, Copied, Memory, Stub, caml_extunix_eventfd
<1>36. Disciplined(caml_extunix_eventfd_read)
  BY DEF Disciplined, Copied, Memory, Stub, caml_extunix_eventfd_read
<1>37. Disciplined(caml_extunix_eventfd_write)
  BY DEF Disciplined, Copied, Memory, Stub, caml_extunix_eventfd_write
<1>38. Disciplined(caml_extunix_setenv)
  BY DEF Disciplined, Copied, Memory, Stub, caml_extunix_setenv
<1>39. Disciplined(caml_extunix_unsetenv)
  BY DEF Disciplined, Copied, Memory, Stub, caml_extunix_unsetenv
<1>40. Disciplined(caml_extunix_fexecve)
  BY DEF Disciplined, Copied, Memory, Stub, caml_extunix_fexecve
<1>41. Disciplined(caml_extunix_getifaddrs)
  BY DEF Disciplined, Copied, Memory, Stub, caml_extunix_getifaddrs
<1>42. Disciplined(caml_extunix_backtrace)
  BY DEF Disciplined, Copied, Memory, Stub, caml_extunix_backtrace
<1>43. Disciplined(caml_extunix_chroot)
  BY DEF Disciplined, Copied, Memory, Stub, caml_extunix_chroot
<1>44. Disciplined(caml_extunix_syslog)
  BY DEF Disciplined, Copied, Memory, Stub, caml_extunix_syslog
<1>45. Disciplined(caml_extunix_malloc_info)
  BY DEF Disciplined, Copied, Memory, Stub, caml_extunix_malloc_info
<1> QED
  BY <1>1, <1>2, <1>3, <1>4, <1>5, <1>6, <1>7, <1>8, <1>9, <1>10, <1>11,
     <1>12, <1>13, <1>14, <1>15, <1>16, <1>17, <1>18, <1>19, <1>20, <1>21,
     <1>22, <1>23, <1>24, <1>25, <1>26, <1>27, <1>28, <1>29, <1>30, <1>31,
     <1>32, <1>33, <1>34, <1>35, <1>36, <1>37, <1>38, <1>39, <1>40, <1>41,
     <1>42, <1>43, <1>44, <1>45
     DEF Table, NameStubs, PlainStubs, WaitingStubs, LockedStubs, EventfdStubs

\* What the provers need to know of the operators.
LEMMA FreeExact ==
  ASSUME NEW A \in SUBSET Memory, NEW B \in SUBSET A
  PROVE  Free(Exactly(A), B) = Exactly(A \ B)
BY DEF Free, Exactly

LEMMA ExactNothing == Exactly({}) = Nothing
BY DEF Exactly, Nothing

LEMMA ExactType == \A M : Exactly(M) \in [Memory -> 0 .. 1]
BY DEF Exactly

(***************************************************************************)
(* One lemma per step of a stub.                                           *)
(***************************************************************************)
LEMMA InitInv == Init => StubInv
<1> SUFFICES ASSUME Init PROVE StubInv
  OBVIOUS
<1>1. caml_extunix_sync \in Table
  BY DEF Table, PlainStubs
<1>2. TypeOK
  BY <1>1, StubsAssumption, ExactType, ExactNothing DEF Init, TypeOK, Results, Nothing
<1>3. \A t \in Threads : InCall(t)
  BY DEF Init, InCall
<1>4. NothingLeaks
  BY DEF Init, NothingLeaks
<1> QED
  BY <1>2, <1>3, <1>4 DEF StubInv

LEMMA RuntimeStep ==
  ASSUME StubInv, NEW t \in Threads, Acquire(t) \/ Yield(t) \/ GC(t)
  PROVE  StubInv'
<1> USE StubsAssumption DEF StubInv
<1>0. \A u \in Threads : u # t => (pc[u] \in {"call", "return"} => stub[u].releases \/ lock = u)
  BY DEF InCall
<1>1. TypeOK'
  BY DEF TypeOK, Acquire, Yield, GC
<1>2. \A u \in Threads : InCall(u)'
  <2> SUFFICES ASSUME NEW u \in Threads PROVE InCall(u)'
    OBVIOUS
  <2>1. CASE Acquire(t)
    BY <2>1 DEF Acquire, InCall, TypeOK
  <2>2. CASE Yield(t)
    BY <2>2 DEF Yield, InCall, TypeOK
  <2>3. CASE GC(t)
    <3>1. pc[u] = "call" => stub[u].heap = {}
      BY <2>3, TableDisciplined DEF GC, InCall, TypeOK, Disciplined
    <3> QED
      BY <2>3, <3>1 DEF GC, InCall, TypeOK
  <2> QED
    BY <2>1, <2>2, <2>3
<1>3. NothingLeaks'
  BY DEF NothingLeaks, Acquire, Yield, GC
<1> QED
  BY <1>1, <1>2, <1>3

LEMMA OthersStay ==
  ASSUME StubInv, NEW t \in Threads, NEW u \in Threads, u # t,
         lock = t \/ lock = NoThread,
         pc'[u] = pc[u], stub'[u] = stub[u], live'[u] = live[u],
         moved'[u] = moved[u], outcome'[u] = outcome[u]
  PROVE  InCall(u)'
<1>1. pc[u] \in {"call", "return"} => stub[u].releases
  BY StubsAssumption DEF StubInv, InCall
<1> QED
  BY <1>1 DEF StubInv, InCall

LEMMA PrologueStep ==
  ASSUME StubInv, NEW t \in Threads, NEW s \in Calls[t], Prologue(t, s)
  PROVE  StubInv'
<1> USE StubsAssumption DEF StubInv
<1>0. s \in Table
  BY StubsAssumption
<1>1. Disciplined(s)
  BY <1>0, TableDisciplined
<1>a. CASE \E how \in s.early : Ends(t, Nothing, how) /\ moved' = [moved EXCEPT ![t] = FALSE]
  <2>1. PICK how \in s.early : Ends(t, Nothing, how)
    BY <1>a
  <2>2. how \in {"ok", "Not_available", "Invalid_argument", "EINVAL"}
    BY <1>1, <2>1 DEF Disciplined
  <2>3. TypeOK'
    BY <1>0, <1>a, <2>1, <2>2, ExactType, ExactNothing DEF TypeOK, Prologue, Ends, Results
  <2>4. \A u \in Threads : InCall(u)'
    <3> SUFFICES ASSUME NEW u \in Threads PROVE InCall(u)'
      OBVIOUS
    <3>1. CASE u = t
      BY <3>1, <2>1 DEF InCall, Ends, TypeOK
    <3>2. CASE u # t
      BY <3>2, <2>1, <1>a, OthersStay DEF Prologue, Ends, TypeOK
    <3> QED
      BY <3>1, <3>2
  <2>5. NothingLeaks'
    BY <2>1, <2>2 DEF NothingLeaks, Ends, TypeOK
  <2> QED
    BY <2>3, <2>4, <2>5
<1>b. CASE \E k \in 0 .. Len(s.copies) - 1 :
             Ends(t, Exactly(Prefix(s, k)), "Out_of_memory") /\ moved' = [moved EXCEPT ![t] = FALSE]
  <2>1. PICK M : Ends(t, Exactly(M), "Out_of_memory")
    BY <1>b
  <2>3. TypeOK'
    BY <1>0, <1>b, <2>1, ExactType DEF TypeOK, Prologue, Ends, Results
  <2>4. \A u \in Threads : InCall(u)'
    <3> SUFFICES ASSUME NEW u \in Threads PROVE InCall(u)'
      OBVIOUS
    <3>1. CASE u = t
      BY <3>1, <2>1 DEF InCall, Ends, TypeOK
    <3>2. CASE u # t
      BY <3>2, <2>1, <1>b, OthersStay DEF Prologue, Ends, TypeOK
    <3> QED
      BY <3>1, <3>2
  <2>5. NothingLeaks'
    BY <2>1 DEF NothingLeaks, Ends, TypeOK
  <2> QED
    BY <2>3, <2>4, <2>5
<1>c. CASE Ends(t, Exactly(Copied(s)), "exn") /\ moved' = [moved EXCEPT ![t] = TRUE]
  <2>3. TypeOK'
    BY <1>0, <1>c, ExactType DEF TypeOK, Prologue, Ends, Results
  <2>4. \A u \in Threads : InCall(u)'
    <3> SUFFICES ASSUME NEW u \in Threads PROVE InCall(u)'
      OBVIOUS
    <3>1. CASE u = t
      BY <3>1, <1>c DEF InCall, Ends, TypeOK
    <3>2. CASE u # t
      BY <3>2, <1>c, OthersStay DEF Prologue, Ends, TypeOK
    <3> QED
      BY <3>1, <3>2
  <2>5. NothingLeaks'
    BY <1>c DEF NothingLeaks, Ends, TypeOK
  <2> QED
    BY <2>3, <2>4, <2>5
<1>d. ASSUME lock' = IF s.releases THEN NoThread ELSE t,
             pc'     = [pc EXCEPT ![t] = "call"],
             live'   = [live EXCEPT ![t] = Exactly(Copied(s))],
             result' = [result EXCEPT ![t] = "none"],
             NEW handled \in BOOLEAN, handled => s.releases,
             moved' = [moved EXCEPT ![t] = handled]
      PROVE  StubInv'
  <2>3. TypeOK'
    BY <1>0, <1>d, ExactType DEF TypeOK, Prologue, Results
  <2>4. \A u \in Threads : InCall(u)'
    <3> SUFFICES ASSUME NEW u \in Threads PROVE InCall(u)'
      OBVIOUS
    <3>1. CASE u = t
      <4>1. s.heap # {} => ~handled
        BY <1>1, <1>d DEF Disciplined
      <4> QED
        BY <3>1, <1>d, <4>1 DEF InCall, Prologue, TypeOK
    <3>2. CASE u # t
      BY <3>2, <1>d, OthersStay DEF Prologue, TypeOK
    <3> QED
      BY <3>1, <3>2
  <2>5. NothingLeaks'
    BY <1>d DEF NothingLeaks, TypeOK
  <2> QED
    BY <2>3, <2>4, <2>5
<1> QED
  BY <1>a, <1>b, <1>c, <1>d DEF Prologue

LEMMA SyscallStep ==
  ASSUME StubInv, NEW t \in Threads, NEW o \in {"ok", "failed"}, Syscall(t, o)
  PROVE  StubInv'
<1> USE StubsAssumption DEF StubInv
<1>0. stub[t] \in Table
  BY DEF TypeOK
<1>1. Disciplined(stub[t])
  BY <1>0, TableDisciplined
<1>2. live'[t] = IF o = "ok" THEN Exactly(Copied(stub[t]) \cup stub[t].gives)
                             ELSE Exactly(Copied(stub[t]))
  <2>1. live[t] = Exactly(Copied(stub[t]))
    BY DEF Syscall, InCall
  <2>2. live'[t] = [m \in Memory |-> IF o = "ok" /\ m \in stub[t].gives
                                      THEN live[t][m] + 1 ELSE live[t][m]]
    BY DEF Syscall, TypeOK
  <2> QED
    BY <1>1, <2>1, <2>2 DEF Exactly, Disciplined
<1>3. live'[t] \in [Memory -> 0 .. 1]
  BY <1>2, ExactType
<1>4. live' = [live EXCEPT ![t] = live'[t]]
  BY DEF Syscall, TypeOK
<1>5. TypeOK'
  BY <1>3, <1>4 DEF TypeOK, Syscall
<1>6. \A u \in Threads : InCall(u)'
  <2> SUFFICES ASSUME NEW u \in Threads PROVE InCall(u)'
    OBVIOUS
  <2>1. CASE u = t
    BY <2>1, <1>2 DEF InCall, Syscall, TypeOK
  <2>2. CASE u # t
    BY <2>2 DEF InCall, Syscall, TypeOK
  <2> QED
    BY <2>1, <2>2
<1>7. NothingLeaks'
  BY DEF NothingLeaks, Syscall, TypeOK
<1> QED
  BY <1>5, <1>6, <1>7

LEMMA EpilogueStep ==
  ASSUME StubInv, NEW t \in Threads, Epilogue(t)
  PROVE  StubInv'
<1> USE StubsAssumption DEF StubInv
<1> DEFINE s == stub[t]
           rest == Free(live[t], s.freed)
<1>0. Disciplined(s)
  BY TableDisciplined DEF TypeOK
<1>l. lock = t \/ lock = NoThread
  BY DEF Epilogue
<1>f. outcome[t] = "failed" => Free(rest, s.freedOnError) = Nothing
  <2> SUFFICES ASSUME outcome[t] = "failed" PROVE Free(rest, s.freedOnError) = Nothing
    OBVIOUS
  <2>1. live[t] = Exactly(Copied(s))
    BY DEF Epilogue, InCall
  <2>2. rest = Exactly(Copied(s) \ s.freed)
    BY <1>0, <2>1, FreeExact DEF Disciplined
  <2>3. Free(rest, s.freedOnError) = Exactly((Copied(s) \ s.freed) \ s.freedOnError)
    BY <1>0, <2>2, FreeExact DEF Disciplined
  <2>4. (Copied(s) \ s.freed) \ s.freedOnError = {}
    BY <1>0 DEF Disciplined
  <2> QED
    BY <2>3, <2>4, ExactNothing
<1>o. outcome[t] = "ok" => /\ rest \in [Memory -> 0 .. 1]
                           /\ s.late \ {"inet_ntop"} # {} => rest = Nothing
                           /\ "inet_ntop" \in s.late => rest = Exactly({"ifaddrs"})
                           /\ Free(rest, s.freedLast) = Nothing
  <2> SUFFICES ASSUME outcome[t] = "ok"
               PROVE  /\ rest \in [Memory -> 0 .. 1]
                      /\ s.late \ {"inet_ntop"} # {} => rest = Nothing
                      /\ "inet_ntop" \in s.late => rest = Exactly({"ifaddrs"})
                      /\ Free(rest, s.freedLast) = Nothing
    OBVIOUS
  <2> DEFINE owned == Copied(s) \cup s.gives
  <2>1. live[t] = Exactly(owned)
    BY DEF Epilogue, InCall
  <2>2. rest = Exactly(owned \ s.freed)
    BY <1>0, <2>1, FreeExact DEF Disciplined
  <2>3. Free(rest, s.freedLast) = Exactly((owned \ s.freed) \ s.freedLast)
    BY <1>0, <2>2, FreeExact DEF Disciplined
  <2>4. /\ (owned \ s.freed) \ s.freedLast = {}
        /\ s.late \ {"inet_ntop"} # {} => owned \ s.freed = {}
        /\ "inet_ntop" \in s.late => owned \ s.freed = {"ifaddrs"}
    BY <1>0 DEF Disciplined
  <2> HIDE DEF rest, owned, s
  <2> QED
    BY <2>2, <2>3, <2>4, ExactNothing, ExactType
<1>e. PICK memory, how :
        /\ Ends(t, memory, how)
        /\ memory \in [Memory -> 0 .. 1]
        /\ how \in Results \ {"none"}
        /\ how \notin {"Out_of_memory", "exn", "inet_ntop"} => memory = Nothing
        /\ how = "inet_ntop" => memory = Exactly({"ifaddrs"})
  <2>0. Nothing \in [Memory -> 0 .. 1]
    BY ExactNothing, ExactType
  <2>1. CASE outcome[t] = "failed"
    <3>1. Ends(t, Nothing, "Unix_error")
      BY <2>1, <1>f DEF Epilogue
    <3> QED
      BY <3>1, <2>0, <2>1 DEF Results
  <2>2. CASE outcome[t] = "ok" /\ \E how \in s.late : Ends(t, rest, how)
    <3>1. PICK how \in s.late : Ends(t, rest, how)
      BY <2>2
    <3>2. how \in {"EINVAL", "EOVERFLOW", "inet_ntop"}
      BY <1>0, <3>1 DEF Disciplined
    <3>3. /\ how # "inet_ntop" => rest = Nothing
          /\ how = "inet_ntop" => rest = Exactly({"ifaddrs"})
          /\ rest \in [Memory -> 0 .. 1]
      BY <1>o, <2>2, <3>1
    <3> HIDE DEF rest
    <3> QED
      BY <3>1, <3>2, <3>3 DEF Results
  <2>3. CASE outcome[t] = "ok" /\ Ends(t, rest, "Out_of_memory")
    <3> HIDE DEF rest
    <3> QED
      BY <1>o, <2>3 DEF Results
  <2>4. CASE outcome[t] = "ok" /\ Ends(t, Free(rest, s.freedLast), "ok")
    <3>1. Ends(t, Nothing, "ok")
      BY <2>4, <1>o
    <3> QED
      BY <3>1, <2>4, <2>0 DEF Results
  <2> QED
    BY <2>1, <2>2, <2>3, <2>4 DEF Epilogue
<1>5. TypeOK'
  BY <1>e DEF TypeOK, Epilogue, Ends
<1>6. \A u \in Threads : InCall(u)'
  <2> SUFFICES ASSUME NEW u \in Threads PROVE InCall(u)'
    OBVIOUS
  <2>1. CASE u = t
    BY <2>1, <1>e DEF InCall, Ends, TypeOK
  <2>2. CASE u # t
    BY <2>2, <1>e, <1>l, OthersStay DEF Ends, Epilogue, TypeOK
  <2> QED
    BY <2>1, <2>2
<1>7. NothingLeaks'
  BY <1>e DEF NothingLeaks, Ends, TypeOK
<1> QED
  BY <1>5, <1>6, <1>7

(***************************************************************************)
(* The invariant holds in every reachable state: what a stub owns and      *)
(* whether it holds the lock follow from where it is, for any threads      *)
(* calling any stubs of the table.                                         *)
(***************************************************************************)
THEOREM StubInvariance == Spec => []StubInv
<1>1. StubInv /\ [Next]_vars => StubInv'
  <2> SUFFICES ASSUME StubInv, [Next]_vars PROVE StubInv'
    OBVIOUS
  <2>1. CASE UNCHANGED vars
    BY <2>1 DEF vars, StubInv, TypeOK, InCall, NothingLeaks
  <2>2. CASE Next
    BY <2>2, RuntimeStep, PrologueStep, SyscallStep, EpilogueStep DEF Next
  <2> QED
    BY <2>1, <2>2
<1> QED
  BY InitInv, <1>1, PTL DEF Spec

(***************************************************************************)
(* The system never works on freed or moved memory, and no stub uses a     *)
(* value that moved behind its back (PointersValid).                       *)
(***************************************************************************)
THEOREM PointersAlwaysValid == Spec => []PointersValid
<1>1. StubInv => PointersValid
  <2> SUFFICES ASSUME StubInv, NEW t \in Threads
               PROVE  /\ pc[t] = "call" =>
                           /\ \A m \in Copied(stub[t]) : live[t][m] = 1
                           /\ stub[t].heap # {} => ~moved[t]
                      /\ stub[t].later \subseteq stub[t].roots
    BY DEF PointersValid
  <2>1. Disciplined(stub[t])
    BY TableDisciplined DEF StubInv, TypeOK
  <2>2. stub[t].later \subseteq stub[t].roots
    BY <2>1 DEF Disciplined
  <2>3. ASSUME pc[t] = "call", NEW m \in Copied(stub[t]) PROVE live[t][m] = 1
    <3>1. live[t] = Exactly(Copied(stub[t]))
      BY <2>3 DEF StubInv, InCall
    <3>2. m \in Memory
      BY <2>1, <2>3 DEF Disciplined
    <3> QED
      BY <3>1, <3>2, <2>3 DEF Exactly
  <2>4. pc[t] = "call" /\ stub[t].heap # {} => ~moved[t]
    BY DEF StubInv, InCall
  <2> QED
    BY <2>2, <2>3, <2>4
<1> QED
  BY <1>1, StubInvariance, PTL

(***************************************************************************)
(* No memory of a stub is freed twice (live in TypeOK would be -1), on any *)
(* path and whatever fails.                                                *)
(***************************************************************************)
THEOREM NothingFreedTwice == Spec => []TypeOK
<1>1. StubInv => TypeOK
  BY DEF StubInv
<1> QED
  BY <1>1, StubInvariance, PTL

(***************************************************************************)
(* Every path of every stub frees its C memory, except for exceptions of   *)
(* the runtime itself and the list getifaddrs loses when inet_ntop fails   *)
(* (NothingLeaks).                                                         *)
(***************************************************************************)
THEOREM MemoryIsFreed == Spec => []NothingLeaks
<1>1. StubInv => NothingLeaks
  BY DEF StubInv
<1> QED
  BY <1>1, StubInvariance, PTL
=============================================================================
