------------------------- MODULE RwRefinementProofs -------------------------
(***************************************************************************)
(* The transfer loops implement the contract of RwContract, for any        *)
(* threads, sizes, windows and answers of the kernel.                      *)
(***************************************************************************)
EXTENDS RwRefinement, RwLoopProofs

\* The refinement mapping.
phaseBar   == [t \in Threads |-> Phase(t)]
callBar    == [t \in Threads |-> [variant |-> req[t].variant, reads |-> IsRead(req[t]),
                                 want |-> WinLen(t, req[t])]]
outcomeBar == [t \in Threads |-> Outcome(t)]

\* A step of t as far as the contract sees it.
OnlyThread(t) == \A u \in Threads \ {t} :
  /\ pc'[u] = pc[u] /\ req'[u] = req[u] /\ ret'[u] = ret[u] /\ errno'[u] = errno[u]
  /\ moved'[u] = moved[u] /\ result'[u] = result[u]

\* A write that took nothing is one the device may answer so.
ZeroInv == \A t \in Threads :
  pc[t] = "leave" /\ ret[t] = 0 => IsRead(req[t]) \/ req[t].variant \in ZeroWrites

LEMMA ZeroStep ==
  ASSUME IInv, ZeroInv, [Next]_vars
  PROVE  ZeroInv'
<1> SUFFICES ASSUME NEW u \in Threads, pc'[u] = "leave", ret'[u] = 0
             PROVE  IsRead(req'[u]) \/ req'[u].variant \in ZeroWrites
  BY DEF ZeroInv, IsRead
<1> DEFINE Kept == pc'[u] = pc[u] /\ ret'[u] = ret[u] /\ req'[u] = req[u]
<1>0. CASE Kept
  BY <1>0 DEF ZeroInv
<1> USE DEF IInv, TypeOK, ControlType, CounterType
<1>1. CASE UNCHANGED vars
  BY <1>0, <1>1 DEF vars
<1>2. ASSUME NEW t \in Threads, Acquire(t) \/ Yield(t) \/ \E v \in Threads : GC(t, v) PROVE Kept
  BY <1>2 DEF Acquire, Yield, GC
<1>3. ASSUME NEW t \in Threads, NEW r \in Calls[t], Start(t, r) PROVE Kept
  BY <1>3 DEF Start
<1>4. ASSUME NEW t \in Threads, NEW k \in 1 .. BufLen, Advance(t, k) PROVE Kept
  BY <1>4, RwAssumption DEF Advance
<1>5. ASSUME NEW t \in Threads, KernelZero(t)
      PROVE  Kept \/ IsRead(req'[u]) \/ req'[u].variant \in ZeroWrites
  BY <1>5 DEF KernelZero
<1>6. ASSUME NEW t \in Threads, NEW e \in Errors, KernelFail(t, e) PROVE Kept
  BY <1>6 DEF KernelFail
<1>7. ASSUME NEW t \in Threads, Stub(t) PROVE Kept
  BY <1>7, StubCases DEF LoopEnds, SignalRaises, LeaveEmpty, LeaveMoved, Enter, Finish
<1> QED
  BY <1>0, <1>1, <1>2, <1>3, <1>4, <1>5, <1>6, <1>7 DEF Next, Kernel, KernelRead, KernelWrite

LEMMA BarExcept ==
  ASSUME IInv, IInv', NEW t \in Threads, OnlyThread(t)
  PROVE  /\ phaseBar' = [phaseBar EXCEPT ![t] = Phase(t)']
         /\ callBar' = [callBar EXCEPT ![t] = callBar'[t]]
         /\ moved' = [moved EXCEPT ![t] = moved'[t]]
         /\ outcomeBar' = [outcomeBar EXCEPT ![t] = Outcome(t)']
         /\ result' = [result EXCEPT ![t] = result'[t]]
<1>1. \A u \in Threads \ {t} : /\ Phase(u)' = Phase(u)
                               /\ Outcome(u)' = Outcome(u)
                               /\ WinLen(u, req[u])' = WinLen(u, req[u])
                               /\ req[u]' = req[u]
  BY DEF OnlyThread, Phase, Outcome, WinLen
<1>2. phaseBar' = [phaseBar EXCEPT ![t] = Phase(t)']
  BY <1>1 DEF phaseBar
<1>3. callBar' = [callBar EXCEPT ![t] = callBar'[t]]
  BY <1>1 DEF callBar, IsRead
<1>4. outcomeBar' = [outcomeBar EXCEPT ![t] = Outcome(t)']
  BY <1>1 DEF outcomeBar
<1>5. /\ moved' = [moved EXCEPT ![t] = moved'[t]]
      /\ result' = [result EXCEPT ![t] = result'[t]]
  BY DEF IInv, TypeOK, ControlType, CounterType, OnlyThread
<1> QED
  BY <1>2, <1>3, <1>4, <1>5

\* What t keeps too is kept.
LEMMA BarKept ==
  ASSUME IInv, IInv', NEW t \in Threads, OnlyThread(t)
  PROVE  /\ Phase(t)' = Phase(t) => phaseBar' = phaseBar
         /\ req'[t] = req[t] => callBar' = callBar
         /\ moved'[t] = moved[t] => moved' = moved
         /\ Outcome(t)' = Outcome(t) => outcomeBar' = outcomeBar
         /\ result'[t] = result[t] => result' = result
<1>1. \A u \in Threads \ {t} : /\ Phase(u)' = Phase(u)
                               /\ Outcome(u)' = Outcome(u)
                               /\ WinLen(u, req[u])' = WinLen(u, req[u])
                               /\ req[u]' = req[u]
  BY DEF OnlyThread, Phase, Outcome, WinLen
<1>2. Phase(t)' = Phase(t) => phaseBar' = phaseBar
  BY <1>1 DEF phaseBar
<1>3. req'[t] = req[t] => callBar' = callBar
  BY <1>1 DEF callBar, WinLen, IsRead
<1>4. Outcome(t)' = Outcome(t) => outcomeBar' = outcomeBar
  BY <1>1 DEF outcomeBar
<1>5. (moved'[t] = moved[t] => moved' = moved) /\ (result'[t] = result[t] => result' = result)
  BY DEF IInv, TypeOK, ControlType, CounterType, OnlyThread
<1> QED
  BY <1>2, <1>3, <1>4, <1>5

LEMMA PhaseIs ==
  ASSUME NEW t \in Threads
  PROVE  /\ pc[t] = "ocaml" => Phase(t) = "idle"
         /\ pc[t] \in {"loop", "syscall"} => Phase(t) = "busy"
         /\ pc[t] = "leave" => Phase(t) = "answered"
BY DEF Phase

LEMMA PhaseIsPrime ==
  ASSUME NEW t \in Threads
  PROVE  /\ pc'[t] = "ocaml" => Phase(t)' = "idle"
         /\ pc'[t] \in {"loop", "syscall"} => Phase(t)' = "busy"
         /\ pc'[t] = "leave" => Phase(t)' = "answered"
BY DEF Phase

\* The modes of the variants.
LEMMA Modes ==
  ASSUME NEW r \in Request
  PROVE  /\ "NOINTR" \in Mode(r) <=> r.variant \in {"all", "plain"}
         /\ "NOERROR" \in Mode(r) <=> r.variant \in {"plain", "intr"}
         /\ "ONCE" \in Mode(r) <=> r.variant = "single"
<1>1. r.variant \in {"all", "single", "plain", "intr"}
  BY DEF Request, Variant
<1>2. CASE r.variant = "all"
  BY <1>2 DEF Mode
<1>3. CASE r.variant = "single"
  BY <1>3 DEF Mode
<1>4. CASE r.variant = "plain"
  BY <1>4 DEF Mode
<1>5. CASE r.variant = "intr"
  BY <1>5 DEF Mode
<1> QED
  BY <1>1, <1>2, <1>3, <1>4, <1>5

LEMMA CInitially == Init => Contract!CInit
<1> SUFFICES ASSUME Init PROVE Contract!CInit
  OBVIOUS
<1>1. \A t \in Threads : Phase(t) = "idle" /\ Outcome(t) = "none"
  BY DEF Init, Phase, Outcome
<1>2. \A t \in Threads : req[t].variant = "plain" /\ WinLen(t, req[t]) \in Int
                        /\ IsRead(req[t]) \in BOOLEAN
  BY RwAssumption DEF Init, NoCall, WinLen, IsRead
<1>3. result = [t \in Threads |-> [kind |-> "none", n |-> 0]]
  BY DEF Init, Raise
<1>4. moved = [t \in Threads |-> 0]
  BY DEF Init
<1> QED
  BY <1>1, <1>2, <1>3, <1>4 DEF Contract!CInit, Contract!Variants

\* A step that changes nothing the contract speaks of.
LEMMA Stutters ==
  ASSUME NEW t \in Threads, IInv,
         UNCHANGED <<req, moved, result>>,
         \A u \in Threads : Phase(u)' = Phase(u) /\ Outcome(u)' = Outcome(u)
  PROVE  UNCHANGED Contract!cvars
<1>1. \A u \in Threads : WinLen(u, req[u])' = WinLen(u, req[u])
  BY DEF WinLen
<1> QED
  BY <1>1 DEF Contract!cvars

LEMMA RuntimeStutters ==
  ASSUME IInv, NEW t \in Threads, Acquire(t) \/ Yield(t) \/ \E u \in Threads : GC(t, u)
  PROVE  UNCHANGED Contract!cvars
<1>1. UNCHANGED <<pc, req, ret, errno, result, moved>>
  BY DEF Acquire, Yield, GC, history
<1>2. \A u \in Threads : Phase(u)' = Phase(u) /\ Outcome(u)' = Outcome(u)
  BY <1>1 DEF Phase, Outcome
<1> QED
  BY <1>1, <1>2, Stutters

LEMMA EnterStutters ==
  ASSUME IInv, NEW t \in Threads, NEW b, Enter(t, b)
  PROVE  UNCHANGED Contract!cvars
<1>1. /\ UNCHANGED <<req, ret, errno, result, moved>>
      /\ pc[t] = "loop" /\ pc'[t] = "syscall" /\ \A u \in Threads \ {t} : pc'[u] = pc[u]
  BY DEF Enter, IInv, TypeOK, ControlType, history
<1>2. Phase(t)' = Phase(t)
  BY <1>1, PhaseIs, PhaseIsPrime
<1>3. \A u \in Threads \ {t} : Phase(u)' = Phase(u)
  BY <1>1 DEF Phase
<1>4. \A u \in Threads : Outcome(u)' = Outcome(u)
  BY <1>1 DEF Outcome
<1> QED
  BY <1>1, <1>2, <1>3, <1>4, Stutters

\* The wrapper refuses the call, or the stub begins.
LEMMA StartRefines ==
  ASSUME LargeFileCallersCheck, IInv, IInv', NEW t \in Threads, NEW r \in Calls[t], Start(t, r)
  PROVE  Contract!Refuse(t) \/ Contract!Begin(t)
<1>1. OnlyThread(t)
  BY DEF OnlyThread, Start, IInv, TypeOK, ControlType, CounterType
<1>2. /\ pc[t] = "ocaml" /\ req'[t] = r /\ moved'[t] = 0 /\ ret' = ret /\ errno' = errno
  BY DEF Start, IInv, TypeOK, ControlType, CounterType
<1>3. r \in Request /\ req'[t] \in Request
  BY <1>2, CallsAssumption
<1>4. callBar'[t] = [variant |-> r.variant, reads |-> IsRead(r), want |-> WinLen(t, r)]
  BY <1>2 DEF callBar, WinLen, IsRead
<1>5. r.variant \in Contract!Variants /\ WinLen(t, r) \in Int /\ IsRead(r) \in BOOLEAN
  BY <1>3, RwAssumption DEF Request, Variant, Contract!Variants, WinLen, OCamlInt, min_int, IsRead
<1>6. CASE Rejected(t, r)
  <2>1. pc'[t] = "ocaml" /\ result'[t] = [kind |-> "Invalid_argument", n |-> 0]
    BY <1>2, <1>6 DEF Start, Raise, IInv, TypeOK, ControlType
  <2>2. Phase(t)' = "idle" /\ Phase(t) = "idle" /\ Outcome(t)' = Outcome(t)
    BY <1>2, <2>1, PhaseIs, PhaseIsPrime DEF Outcome
  <2>3. /\ phaseBar[t] = "idle" /\ phaseBar' = phaseBar
        /\ callBar'[t] \in [variant : Contract!Variants, reads : BOOLEAN, want : Int]
        /\ callBar' = [callBar EXCEPT ![t] = callBar'[t]]
        /\ moved' = [moved EXCEPT ![t] = 0]
        /\ outcomeBar' = outcomeBar
        /\ result' = [result EXCEPT ![t] = [kind |-> "Invalid_argument", n |-> 0]]
    <3>1. phaseBar[t] = "idle"
      BY <2>2 DEF phaseBar
    <3>2. phaseBar' = phaseBar /\ outcomeBar' = outcomeBar
      BY <1>1, <2>2, BarKept
    <3> QED
      BY <1>1, <1>2, <1>4, <1>5, <2>1, <3>1, <3>2, BarExcept
  <2>4. Contract!Refuse(t)
    BY <2>3 DEF phaseBar, callBar, outcomeBar, Contract!Refuse, Contract!NewCall, Contract!Becomes
  <2> QED
    BY <2>4
<1>7. CASE ~Rejected(t, r)
  <2>1. pc'[t] = "loop" /\ result'[t] = [kind |-> "none", n |-> 0]
    BY <1>2, <1>7 DEF Start, Raise, IInv, TypeOK, ControlType
  <2>2. Phase(t)' = "busy" /\ Phase(t) = "idle" /\ Outcome(t)' = Outcome(t)
    BY <1>2, <2>1, PhaseIs, PhaseIsPrime DEF Outcome
  <2>3. WinLen(t, r) >= 0
    BY <1>7, AcceptedInWindow DEF InWindow
  <2>4. /\ phaseBar[t] = "idle" /\ phaseBar' = [phaseBar EXCEPT ![t] = "busy"]
        /\ callBar'[t] \in [variant : Contract!Variants, reads : BOOLEAN, want : Int]
        /\ callBar'[t].want >= 0
        /\ callBar' = [callBar EXCEPT ![t] = callBar'[t]]
        /\ moved' = [moved EXCEPT ![t] = 0]
        /\ outcomeBar' = outcomeBar
        /\ result' = [result EXCEPT ![t] = [kind |-> "none", n |-> 0]]
    BY <1>1, <1>2, <1>4, <1>5, <2>1, <2>2, <2>3, BarExcept, BarKept DEF phaseBar
  <2>5. Contract!Begin(t)
    BY <2>4 DEF phaseBar, callBar, outcomeBar, Contract!Begin, Contract!NewCall, Contract!Becomes
  <2> QED
    BY <2>5
<1> QED
  BY <1>6, <1>7

-----------------------------------------------------------------------------
\* The kernel moves k bytes.
LEMMA DataRefines ==
  ASSUME IInv, IInv', NEW t \in Threads, NEW k \in 1 .. BufLen,
         pc[t] = "syscall", k <= numbytes(t), Advance(t, k)
  PROVE  Contract!Answer(t)
<1>1. OnlyThread(t)
  BY DEF OnlyThread, Advance, IInv, TypeOK, ControlType, CounterType
<1>2. /\ pc'[t] = "leave" /\ ret'[t] = k /\ moved'[t] = moved[t] + k
      /\ req' = req /\ result' = result
  BY DEF Advance, IInv, TypeOK, ControlType, CounterType
<1>3. moved[t] \in Nat /\ k \in Nat \ {0} /\ moved[t] + k <= WinLen(t, req[t])
      /\ WinLen(t, req[t]) \in Int
  <2>1. Booked(t) /\ Unbooked(t) = 0
    BY DEF IInv, Bookkeeping, Running, Unbooked
  <2>2. processed[t] \in Nat /\ moved[t] \in Nat /\ len[t] \in Nat
    BY DEF IInv, TypeOK, CounterType
  <2>3. k \in Nat \ {0} /\ numbytes(t) \in Nat /\ numbytes(t) <= len[t]
    BY <2>2, RwAssumption DEF numbytes, Min2
  <2>4. req[t].len \in Int /\ BufLen \in Int
    BY RwAssumption DEF IInv, TypeOK, ControlType, Request, OCamlInt, min_int
  <2>5. WinLen(t, req[t]) \in Int
    BY <2>4 DEF WinLen
  <2>6. len[t] = WinLen(t, req[t]) - processed[t] /\ moved[t] = processed[t]
    BY <2>1, <2>2 DEF Booked
  <2> QED
    BY <2>2, <2>3, <2>5, <2>6
<1>4. Phase(t) = "busy" /\ Phase(t)' = "answered" /\ Outcome(t)' = "data"
  BY <1>2, <1>3, PhaseIs, PhaseIsPrime DEF Outcome
<1>5. /\ phaseBar[t] = "busy" /\ callBar[t].want = WinLen(t, req[t])
      /\ phaseBar' = [phaseBar EXCEPT ![t] = "answered"]
      /\ outcomeBar' = [outcomeBar EXCEPT ![t] = "data"]
      /\ moved' = [moved EXCEPT ![t] = moved'[t]]
      /\ callBar' = callBar /\ result' = result
  BY <1>1, <1>2, <1>4, BarExcept, BarKept DEF phaseBar, callBar
<1>6. moved[t] < callBar[t].want /\ moved'[t] \in moved[t] + 1 .. callBar[t].want
  BY <1>2, <1>3, <1>5
<1> QED
  BY <1>5, <1>6 DEF phaseBar, callBar, outcomeBar, Contract!Answer, Contract!Becomes

\* The kernel moves nothing, or fails.
LEMMA NothingRefines ==
  ASSUME IInv, IInv', NEW t \in Threads, KernelZero(t) \/ \E e \in Errors : KernelFail(t, e)
  PROVE  Contract!Answer(t)
<1>1. OnlyThread(t)
  BY DEF OnlyThread, KernelZero, KernelFail, IInv, TypeOK, ControlType, CounterType, history
<1>2. /\ pc[t] = "syscall" /\ pc'[t] = "leave" /\ UNCHANGED <<req, result, moved>>
      /\ ret'[t] = 0 \/ (ret'[t] = -1 /\ errno'[t] \in Errors)
  BY DEF KernelZero, KernelFail, IInv, TypeOK, ControlType, CounterType, history
<1>3. moved[t] < WinLen(t, req[t])
  <2>1. Booked(t) /\ Unbooked(t) = 0 /\ len[t] > 0
    BY <1>2 DEF IInv, LockInv, Bookkeeping, Running, Unbooked
  <2>2. processed[t] \in Nat /\ moved[t] \in Nat /\ len[t] \in Nat
    BY DEF IInv, TypeOK, CounterType
  <2>4. req[t].len \in Int /\ BufLen \in Int
    BY RwAssumption DEF IInv, TypeOK, ControlType, Request, OCamlInt, min_int
  <2>5. WinLen(t, req[t]) \in Int
    BY <2>4 DEF WinLen
  <2>6. len[t] = WinLen(t, req[t]) - processed[t] /\ moved[t] = processed[t]
    BY <2>1, <2>2 DEF Booked
  <2> QED
    BY <2>1, <2>2, <2>5, <2>6
<1>4. Phase(t) = "busy" /\ Phase(t)' = "answered"
  BY <1>2, PhaseIs, PhaseIsPrime
<1>5. Outcome(t)' \in Contract!SysErrors \cup {"end"}
  BY <1>2 DEF Outcome, Contract!SysErrors, Errors
<1>6. /\ phaseBar[t] = "busy" /\ moved[t] < callBar[t].want
      /\ phaseBar' = [phaseBar EXCEPT ![t] = "answered"]
      /\ outcomeBar' = [outcomeBar EXCEPT ![t] = Outcome(t)']
      /\ callBar' = callBar /\ result' = result /\ moved' = moved
  BY <1>1, <1>2, <1>3, <1>4, BarExcept, BarKept DEF phaseBar, callBar
<1> QED
  BY <1>5, <1>6 DEF phaseBar, callBar, outcomeBar, Contract!Answer, Contract!Becomes

-----------------------------------------------------------------------------
\* The end of a call: a function leaves through Finish.
LEMMA FinishCloses ==
  ASSUME IInv, IInv', NEW t \in Threads, OnlyThread(t),
         pc'[t] = "ocaml", req' = req, moved' = moved
  PROVE  /\ phaseBar' = [phaseBar EXCEPT ![t] = "idle"]
         /\ outcomeBar' = [outcomeBar EXCEPT ![t] = "none"]
         /\ result' = [result EXCEPT ![t] = result'[t]]
         /\ callBar' = callBar
<1>1. Phase(t)' = "idle" /\ Outcome(t)' = "none"
  BY PhaseIsPrime DEF Outcome
<1> QED
  BY <1>1, BarExcept, BarKept

\* The loop tries again.
LEMMA GoesOn ==
  ASSUME IInv, IInv', NEW t \in Threads, OnlyThread(t), Contract!MayGoOn(t),
         pc[t] = "leave", pc'[t] = "loop", req' = req, moved' = moved, result' = result
  PROVE  Contract!GoOn(t)
<1>1. Phase(t) = "answered" /\ Phase(t)' = "busy" /\ Outcome(t)' = "none"
  BY PhaseIs, PhaseIsPrime DEF Outcome
<1>2. /\ phaseBar[t] = "answered"
      /\ phaseBar' = [phaseBar EXCEPT ![t] = "busy"]
      /\ outcomeBar' = [outcomeBar EXCEPT ![t] = "none"]
      /\ callBar' = callBar
  BY <1>1, BarExcept, BarKept DEF phaseBar
<1> QED
  BY <1>2 DEF phaseBar, callBar, outcomeBar, Contract!GoOn, Contract!Becomes

\* In the loop no byte is unbooked.
LEMMA InLoop ==
  ASSUME IInv, NEW t \in Threads, pc[t] = "loop"
  PROVE  /\ moved[t] = processed[t] /\ moved[t] \in Nat /\ len[t] \in Nat
         /\ WinLen(t, req[t]) = moved[t] + len[t]
<1>1. Booked(t) /\ Unbooked(t) = 0
  BY DEF IInv, Bookkeeping, Running, Unbooked
<1>2. processed[t] \in Nat /\ moved[t] \in Nat /\ len[t] \in Nat
  BY DEF IInv, TypeOK, CounterType
<1>3. req[t].len \in Int /\ BufLen \in Int
  BY RwAssumption DEF IInv, TypeOK, ControlType, Request, OCamlInt, min_int
<1>4. WinLen(t, req[t]) \in Int
  BY <1>3 DEF WinLen
<1> QED
  BY <1>1, <1>2, <1>4 DEF Booked

\* The loop has everything, or a signal handler raises before the next try.
LEMMA LoopExitRefines ==
  ASSUME IInv, IInv', NEW t \in Threads, LoopEnds(t) \/ SignalRaises(t)
  PROVE  Contract!Return(t) \/ Contract!Interrupted(t)
<1>0. pc[t] = "loop"
  BY DEF LoopEnds, SignalRaises
<1>1. phaseBar[t] = "busy" /\ callBar[t].want = WinLen(t, req[t])
  BY <1>0, PhaseIs DEF phaseBar, callBar
<1>2. CASE LoopEnds(t)
  <2>1. /\ OnlyThread(t) /\ pc'[t] = "ocaml" /\ req' = req /\ moved' = moved
        /\ result'[t] = [kind |-> "ok", n |-> moved[t]] /\ moved[t] = callBar[t].want
    BY <1>0, <1>1, <1>2, InLoop
       DEF LoopEnds, Finish, Ok, OnlyThread, IInv, TypeOK, ControlType, history
  <2>2. /\ phaseBar' = [phaseBar EXCEPT ![t] = "idle"]
        /\ outcomeBar' = [outcomeBar EXCEPT ![t] = "none"]
        /\ result' = [result EXCEPT ![t] = [kind |-> "ok", n |-> moved[t]]]
        /\ callBar' = callBar
    BY <2>1, FinishCloses
  <2> QED
    BY <1>1, <2>1, <2>2
       DEF Contract!Return, Contract!Close, Contract!Becomes, phaseBar, callBar, outcomeBar
<1>3. CASE SignalRaises(t)
  <2>1. /\ OnlyThread(t) /\ pc'[t] = "ocaml" /\ req' = req /\ moved' = moved
        /\ result'[t] = [kind |-> "exn", n |-> 0] /\ moved[t] < callBar[t].want
    BY <1>0, <1>1, <1>3, InLoop
       DEF SignalRaises, Finish, Raise, OnlyThread, IInv, TypeOK, ControlType, history
  <2>2. /\ phaseBar' = [phaseBar EXCEPT ![t] = "idle"]
        /\ outcomeBar' = [outcomeBar EXCEPT ![t] = "none"]
        /\ result' = [result EXCEPT ![t] = [kind |-> "exn", n |-> 0]]
        /\ callBar' = callBar
    BY <2>1, FinishCloses
  <2> QED
    BY <1>1, <2>1, <2>2
       DEF Contract!Interrupted, Contract!Close, Contract!Becomes, phaseBar, callBar, outcomeBar
<1> QED
  BY <1>2, <1>3

\* The loop looks at an answer without bytes.
LEMMA LeaveEmptyRefines ==
  ASSUME AllWritesProgress, ZeroInv, IInv, IInv', NEW t \in Threads, LeaveEmpty(t)
  PROVE  Contract!Return(t) \/ Contract!Fail(t) \/ Contract!GoOn(t)
<1>1. pc[t] = "leave" /\ ret[t] <= 0 /\ ret[t] \in {0, -1} /\ req[t] \in Request
      /\ errno[t] \in {"EINTR", "EAGAIN", "EIO"}
  BY DEF LeaveEmpty, IInv, TypeOK, ControlType, CounterType, Errors
<1>2. moved[t] = processed[t] /\ moved[t] \in Nat
  <2>1. Booked(t) /\ Unbooked(t) = 0
    BY <1>1 DEF IInv, Bookkeeping, Running, Unbooked
  <2> QED
    BY <2>1 DEF Booked, IInv, TypeOK, CounterType
<1>3. /\ phaseBar[t] = "answered" /\ callBar[t].variant = req[t].variant
      /\ callBar[t].reads = IsRead(req[t])
      /\ outcomeBar[t] = IF ret[t] = 0 THEN "end" ELSE errno[t]
  BY <1>1, PhaseIs DEF phaseBar, callBar, outcomeBar, Outcome
<1>4. req[t].variant \in {"all", "single", "plain", "intr"}
  BY <1>1 DEF Request, Variant
<1>5. "ONCE" \in Mode(req[t]) => processed[t] = 0
  BY <1>1 DEF IInv, Bookkeeping, Running, Booked
<1>6. /\ Retries(t) <=> errno[t] = "EINTR" /\ req[t].variant \in {"all", "plain"}
      /\ Settles(t) <=> moved[t] > 0 /\ (errno[t] = "EAGAIN" \/ req[t].variant \in {"plain", "intr"})
      /\ req[t].variant = "single" => moved[t] = 0
  BY <1>1, <1>2, <1>5, Modes DEF Retries, Settles
<1>7. CASE (ret[t] = 0 \/ (~Retries(t) /\ Settles(t))) /\ Finish(t, Ok(processed[t]))
  <2>0. /\ OnlyThread(t) /\ pc'[t] = "ocaml" /\ req' = req /\ moved' = moved
        /\ result'[t] = [kind |-> "ok", n |-> moved[t]]
    BY <1>2, <1>7 DEF Finish, Ok, OnlyThread, IInv, TypeOK, ControlType, history
  <2>1. /\ phaseBar' = [phaseBar EXCEPT ![t] = "idle"]
        /\ outcomeBar' = [outcomeBar EXCEPT ![t] = "none"]
        /\ result' = [result EXCEPT ![t] = [kind |-> "ok", n |-> moved[t]]]
        /\ callBar' = callBar /\ moved' = moved
    BY <2>0, FinishCloses
  <2>2. \/ outcomeBar[t] = "end" /\ (callBar[t].reads \/ callBar[t].variant # "all")
        \/ outcomeBar[t] = "EAGAIN" /\ moved[t] > 0
        \/ outcomeBar[t] = "EIO" /\ moved[t] > 0 /\ callBar[t].variant \in {"plain", "intr"}
        \/ outcomeBar[t] = "EINTR" /\ moved[t] > 0 /\ callBar[t].variant = "intr"
    BY <1>1, <1>3, <1>4, <1>6, <1>7 DEF ZeroInv, AllWritesProgress
  <2> QED
    BY <1>3, <2>1, <2>2 DEF Contract!Return, Contract!MayReturn, Contract!EndsQuietly, Contract!Close,
       Contract!Becomes, phaseBar, callBar, outcomeBar
<1>8. CASE ret[t] = -1 /\ ~Retries(t) /\ ~Settles(t) /\ Finish(t, Raise(errno[t]))
  <2>0. /\ OnlyThread(t) /\ pc'[t] = "ocaml" /\ req' = req /\ moved' = moved
        /\ result'[t] = [kind |-> outcomeBar[t], n |-> 0]
    BY <1>3, <1>8 DEF Finish, Raise, OnlyThread, IInv, TypeOK, ControlType, history
  <2>1. /\ phaseBar' = [phaseBar EXCEPT ![t] = "idle"]
        /\ outcomeBar' = [outcomeBar EXCEPT ![t] = "none"]
        /\ result' = [result EXCEPT ![t] = [kind |-> outcomeBar[t], n |-> 0]]
        /\ callBar' = callBar /\ moved' = moved
    BY <2>0, FinishCloses
  <2>2. \/ outcomeBar[t] = "EIO" /\ (moved[t] = 0 \/ callBar[t].variant = "all")
        \/ outcomeBar[t] = "EAGAIN" /\ moved[t] = 0
        \/ outcomeBar[t] = "EINTR" /\ moved[t] = 0 /\ callBar[t].variant \in {"single", "intr"}
    BY <1>1, <1>2, <1>3, <1>4, <1>6, <1>8
  <2>3. outcomeBar[t] \in Contract!SysErrors
    BY <2>2 DEF Contract!SysErrors
  <2> QED
    BY <1>3, <2>1, <2>2, <2>3 DEF Contract!Fail, Contract!MayRaise, Contract!Close,
       Contract!Becomes, phaseBar, callBar, outcomeBar
<1>9. CASE /\ ret[t] = -1 /\ Retries(t)
           /\ pc' = [pc EXCEPT ![t] = "loop"]
           /\ UNCHANGED <<req, calls, iobuf, dst, ret, errno, result, kernel, history>>
  <2>1. outcomeBar[t] = "EINTR" /\ callBar[t].variant \in {"all", "plain"}
    BY <1>3, <1>6, <1>9
  <2>2. Contract!MayGoOn(t)
    BY <2>1 DEF Contract!MayGoOn, callBar, outcomeBar
  <2>3. OnlyThread(t) /\ pc'[t] = "loop" /\ moved' = moved
    BY <1>9 DEF OnlyThread, IInv, TypeOK, ControlType, history
  <2> QED
    BY <1>1, <1>9, <2>2, <2>3, GoesOn
<1> QED
  BY <1>7, <1>8, <1>9 DEF LeaveEmpty

\* The loop books the bytes.
LEMMA LeaveMovedRefines ==
  ASSUME IInv, IInv', NEW t \in Threads, LeaveMoved(t)
  PROVE  Contract!Return(t) \/ Contract!GoOn(t)
<1>1. pc[t] = "leave" /\ ret[t] > 0 /\ req[t] \in Request
  BY DEF LeaveMoved, IInv, TypeOK, ControlType
<1>2. moved[t] = processed[t] + ret[t]
  BY <1>1 DEF IInv, Bookkeeping, Running, Booked, Unbooked
<1>3. /\ phaseBar[t] = "answered" /\ callBar[t].variant = req[t].variant
      /\ outcomeBar[t] = "data"
  BY <1>1, PhaseIs DEF phaseBar, callBar, outcomeBar, Outcome
<1>4. CASE "ONCE" \in Mode(req[t])
  <2>1. /\ OnlyThread(t) /\ pc'[t] = "ocaml" /\ req' = req /\ moved' = moved
        /\ result'[t] = [kind |-> "ok", n |-> moved[t]]
    BY <1>2, <1>4
       DEF LeaveMoved, Finish, Ok, OnlyThread, IInv, TypeOK, ControlType, history
  <2>2. /\ phaseBar' = [phaseBar EXCEPT ![t] = "idle"]
        /\ outcomeBar' = [outcomeBar EXCEPT ![t] = "none"]
        /\ result' = [result EXCEPT ![t] = [kind |-> "ok", n |-> moved[t]]]
        /\ callBar' = callBar /\ moved' = moved
    BY <2>1, FinishCloses
  <2>3. callBar[t].variant = "single"
    BY <1>1, <1>3, <1>4, Modes
  <2> QED
    BY <1>3, <2>2, <2>3 DEF Contract!Return, Contract!MayReturn, Contract!Close,
       Contract!Becomes, phaseBar, callBar, outcomeBar
<1>5. CASE "ONCE" \notin Mode(req[t])
  <2>1. callBar[t].variant # "single"
    BY <1>1, <1>3, <1>5, Modes
  <2>2. Contract!MayGoOn(t)
    BY <1>3, <2>1 DEF Contract!MayGoOn, callBar, outcomeBar
  <2>3. /\ OnlyThread(t) /\ pc'[t] = "loop" /\ moved' = moved
        /\ req' = req /\ result' = result
    BY <1>5 DEF LeaveMoved, OnlyThread, IInv, TypeOK, ControlType, history
  <2> QED
    BY <1>1, <2>2, <2>3, GoesOn
<1> QED
  BY <1>4, <1>5

-----------------------------------------------------------------------------
LEMMA StepRefines ==
  ASSUME LargeFileCallersCheck, AllWritesProgress, ZeroInv, IInv, IInv', [Next]_vars
  PROVE  [Contract!CNext]_(Contract!cvars)
<1>1. CASE UNCHANGED vars
  <2>1. \A u \in Threads : Phase(u)' = Phase(u) /\ Outcome(u)' = Outcome(u)
                          /\ WinLen(u, req[u])' = WinLen(u, req[u])
    BY <1>1 DEF vars, Phase, Outcome, WinLen
  <2> QED
    BY <1>1, <2>1 DEF vars, history, Contract!cvars
<1>2. ASSUME NEW t \in Threads, Acquire(t) \/ Yield(t) \/ \E u \in Threads : GC(t, u)
      PROVE  UNCHANGED Contract!cvars
  BY <1>2, RuntimeStutters
<1>3. ASSUME NEW t \in Threads, NEW r \in Calls[t], Start(t, r) PROVE Contract!CNext
  BY <1>3, StartRefines DEF Contract!CNext
<1>4. ASSUME NEW t \in Threads, Kernel(t) PROVE Contract!CNext
  <2>1. Contract!Answer(t)
    BY <1>4, DataRefines, NothingRefines DEF Kernel, KernelRead, KernelWrite
  <2> QED
    BY <2>1 DEF Contract!CNext
<1>5. ASSUME NEW t \in Threads, Stub(t) PROVE Contract!CNext \/ UNCHANGED Contract!cvars
  <2>1. \/ LoopEnds(t) \/ SignalRaises(t) \/ LeaveEmpty(t)
        \/ LeaveMoved(t) \/ \E b : Enter(t, b)
    BY <1>5, StubCases DEF IInv
  <2> QED
    BY <2>1, LoopExitRefines, LeaveEmptyRefines, LeaveMovedRefines, EnterStutters
       DEF Contract!CNext
<1> QED
  BY <1>1, <1>2, <1>3, <1>4, <1>5 DEF Next

(***************************************************************************)
(* The loops implement the contract (ImplementsContract): every call ends, *)
(* goes on and raises as the comments of extUnix.pp.ml say for its         *)
(* variant, for buffers, chunks and answers of every size, if the callers  *)
(* of LargeFile mind their windows and no device answers a write of        *)
(* all_write or all_pwrite with 0 bytes.                                   *)
(***************************************************************************)
THEOREM ContractImplemented ==
  ASSUME LargeFileCallersCheck, AllWritesProgress
  PROVE  Spec => ImplementsContract
<1>1. IInv /\ IInv' /\ ZeroInv /\ [Next]_vars => [Contract!CNext]_(Contract!cvars)
  BY StepRefines
<1>2. Init => Contract!CInit
  BY CInitially
<1>3. Init => ZeroInv
  BY DEF Init, ZeroInv
<1>4. IInv /\ ZeroInv /\ [Next]_vars => ZeroInv'
  BY ZeroStep
<1> QED
  BY <1>1, <1>2, <1>3, <1>4, Invariance, PTL DEF Spec, ImplementsContract, Contract!CSpec
=============================================================================
