-------------------------------- MODULE Stubs --------------------------------
(***************************************************************************)
(* OCaml threads calling the stubs of StubTable: what becomes of the       *)
(* runtime lock, of the C memory a stub allocates and of the OCaml values  *)
(* it uses, when other threads run and collect in the meantime and any     *)
(* step fails that can.                                                    *)
(*                                                                         *)
(* A stub has three steps.  Prologue: everything up to the system call;    *)
(* Syscall: the call; Epilogue: everything behind it.  No other thread     *)
(* runs OCaml code or a stub inside of Prologue or Epilogue, since the     *)
(* lock is held there.                                                     *)
(***************************************************************************)
EXTENDS StubTable, Integers

CONSTANTS
  Threads, NoThread,
  Calls,      \* Calls[t]: the stubs thread t may call
  Ready,      \* threads whose calls get what they wait for
  MaxCalls    \* bound: how many calls a thread makes

ASSUME StubsAssumption ==
  /\ NoThread \notin Threads
  /\ Calls \in [Threads -> SUBSET Table]
  /\ Ready \subseteq Threads
  /\ MaxCalls \in Nat

VARIABLES
  lock,      \* holder of the OCaml runtime lock, or NoThread
  pc,        \* "ocaml", "call" or "return"
  stub,      \* the stub that runs, or ran last
  calls,     \* how many calls were made
  live,      \* live[t][m]: how often the memory m of t's call is allocated
  moved,     \* did the OCaml values of the call move since it began?
  outcome,   \* what the system call answered: "ok", "failed"; "none" before
  result     \* how the last call ended

vars == <<lock, pc, stub, calls, live, moved, outcome, result>>

Memory == {"p", "name", "path", "oldname", "newname", "res", "p_source",
           "p_target", "p_fstype", "p_data", "r", "buf", "fd", "argv", "envp",
           "ifaddrs", "strings", "p_path", "str"}

Copied(s)   == {s.copies[i] : i \in DOMAIN s.copies}
Prefix(s, k) == {s.copies[i] : i \in 1 .. k}
Nothing     == [m \in Memory |-> 0]
Exactly(M)  == [m \in Memory |-> IF m \in M THEN 1 ELSE 0]
Free(l, M)  == [m \in Memory |-> IF m \in M THEN l[m] - 1 ELSE l[m]]

-----------------------------------------------------------------------------
(* The OCaml runtime. *)

Acquire(t) ==
  /\ pc[t] = "ocaml" /\ lock = NoThread
  /\ lock' = t
  /\ UNCHANGED <<pc, stub, calls, live, moved, outcome, result>>

Yield(t) ==
  /\ pc[t] = "ocaml" /\ lock = t
  /\ lock' = NoThread
  /\ UNCHANGED <<pc, stub, calls, live, moved, outcome, result>>

\* A collection moves every value there is.
GC(t) ==
  /\ pc[t] = "ocaml" /\ lock = t
  /\ moved' = [u \in Threads |-> TRUE]
  /\ UNCHANGED <<lock, pc, stub, calls, live, outcome, result>>

-----------------------------------------------------------------------------
Ends(t, memory, how) ==
  /\ lock'   = t
  /\ pc'     = [pc EXCEPT ![t] = "ocaml"]
  /\ live'   = [live EXCEPT ![t] = memory]
  /\ result' = [result EXCEPT ![t] = how]

(***************************************************************************)
(* Up to the system call.  Allocation k + 1 may fail when k succeeded.     *)
(* caml_enter_blocking_section runs the handlers of pending signals: they  *)
(* may collect, and they may raise.                                        *)
(***************************************************************************)
Prologue(t, s) ==
  /\ pc[t] = "ocaml" /\ lock = t /\ calls[t] < MaxCalls
  /\ calls'   = [calls EXCEPT ![t] = @ + 1]
  /\ stub'    = [stub EXCEPT ![t] = s]
  /\ outcome' = [outcome EXCEPT ![t] = "none"]
  /\ \/ /\ \E how \in s.early : Ends(t, Nothing, how)
        /\ moved' = [moved EXCEPT ![t] = FALSE]
     \/ /\ \E k \in 0 .. Len(s.copies) - 1 : Ends(t, Exactly(Prefix(s, k)), "Out_of_memory")
        /\ moved' = [moved EXCEPT ![t] = FALSE]
     \/ /\ s.releases
        /\ Ends(t, Exactly(Copied(s)), "exn")
        /\ moved' = [moved EXCEPT ![t] = TRUE]
     \/ /\ lock'   = IF s.releases THEN NoThread ELSE t
        /\ pc'     = [pc EXCEPT ![t] = "call"]
        /\ live'   = [live EXCEPT ![t] = Exactly(Copied(s))]
        /\ result' = [result EXCEPT ![t] = "none"]
        /\ \E handled \in BOOLEAN :
             /\ handled => s.releases
             /\ moved' = [moved EXCEPT ![t] = handled]

Syscall(t, o) ==
  /\ pc[t] = "call" /\ o \in stub[t].outcomes
  /\ outcome' = [outcome EXCEPT ![t] = o]
  /\ live'    = [live EXCEPT ![t] =
                   [m \in Memory |-> IF o = "ok" /\ m \in stub[t].gives
                                     THEN @[m] + 1 ELSE @[m]]]
  /\ pc'      = [pc EXCEPT ![t] = "return"]
  /\ UNCHANGED <<lock, stub, calls, moved, result>>

(***************************************************************************)
(* Behind the system call: free, raise or decode, free the rest, return.   *)
(***************************************************************************)
Epilogue(t) ==
  LET s    == stub[t]
      rest == Free(live[t], s.freed)
  IN  /\ pc[t] = "return"
      /\ lock = IF s.releases THEN NoThread ELSE t
      /\ \/ /\ outcome[t] = "failed"
            /\ Ends(t, Free(rest, s.freedOnError), "Unix_error")
         \/ /\ outcome[t] = "ok"
            /\ \/ \E how \in s.late : Ends(t, rest, how)
               \/ s.decodes /\ Ends(t, rest, "Out_of_memory")
               \/ Ends(t, Free(rest, s.freedLast), "ok")
      /\ UNCHANGED <<stub, calls, moved, outcome>>

-----------------------------------------------------------------------------
Init ==
  /\ lock = NoThread
  /\ pc = [t \in Threads |-> "ocaml"]
  /\ stub = [t \in Threads |-> caml_extunix_sync]
  /\ calls = [t \in Threads |-> 0]
  /\ live = [t \in Threads |-> Nothing]
  /\ moved = [t \in Threads |-> FALSE]
  /\ outcome = [t \in Threads |-> "none"]
  /\ result = [t \in Threads |-> "none"]

Next == \E t \in Threads :
  \/ Acquire(t) \/ Yield(t) \/ GC(t)
  \/ \E s \in Calls[t] : Prologue(t, s)
  \/ \E o \in {"ok", "failed"} : Syscall(t, o)
  \/ Epilogue(t)

Spec == Init /\ [][Next]_vars

(***************************************************************************)
(* Fairness: the tick thread of the runtime makes the holder of the lock   *)
(* yield, waiting threads get it some day, and the system answers a call   *)
(* that does not wait, or waits for something that comes.                  *)
(***************************************************************************)
Answered(t) == (~stub[t].waits \/ t \in Ready) /\ \E o \in {"ok", "failed"} : Syscall(t, o)

Fairness == \A t \in Threads :
  SF_vars(Yield(t)) /\ SF_vars(Epilogue(t)) /\ WF_vars(Answered(t))

FairSpec == Spec /\ Fairness

-----------------------------------------------------------------------------
Results == {"none", "ok", "Unix_error", "Out_of_memory", "exn", "Not_available",
            "Invalid_argument", "EINVAL", "EOVERFLOW", "inet_ntop"}

\* Type invariant.  C memory is allocated once and freed once: a count of -1
\* would be memory freed twice, or freed although it was never allocated.
TypeOK ==
  /\ lock \in Threads \cup {NoThread}
  /\ pc \in [Threads -> {"ocaml", "call", "return"}]
  /\ stub \in [Threads -> Table]
  /\ calls \in [Threads -> 0 .. MaxCalls]
  /\ live \in [Threads -> [Memory -> 0 .. 1]]
  /\ moved \in [Threads -> BOOLEAN]
  /\ outcome \in [Threads -> {"none", "ok", "failed"}]
  /\ result \in [Threads -> Results]

\* During the whole system call the memory it was given is there: the copies
\* are not freed, and an address in the OCaml heap is still the address of
\* the value, whatever other threads and signal handlers collect.  A value
\* the stub uses behind the call is registered or did not move.
PointersValid == \A t \in Threads :
  /\ pc[t] = "call" =>
       /\ \A m \in Copied(stub[t]) : live[t][m] = 1
       /\ stub[t].heap # {} => ~moved[t]
  /\ pc[t] = "return" => (stub[t].later \subseteq stub[t].roots \/ ~moved[t])

\* A call that ends leaves no C memory behind, on any path: early returns,
\* errors of the system call, errors found behind it, and success.  The
\* exceptions that come out of the runtime itself (no memory, a signal
\* handler) pass by the frees, and so does one error of the library's own:
\* getifaddrs loses its list, and nothing else, when inet_ntop fails.
NothingLeaks == \A t \in Threads : pc[t] = "ocaml" =>
  /\ result[t] \notin {"Out_of_memory", "exn", "inet_ntop"} => live[t] = Nothing
  /\ result[t] = "inet_ntop" => live[t] = Exactly({"ifaddrs"})

\* Whatever the other threads wait for: a call whose event comes returns to
\* OCaml.  No stub may keep the lock while it waits.
OthersComplete == \A t \in Ready : pc[t] # "ocaml" ~> pc[t] = "ocaml"
-----------------------------------------------------------------------------
(***************************************************************************)
(* The discipline that makes a stub safe, and the invariant it implies.    *)
(***************************************************************************)
Disciplined(s) ==
  /\ Copied(s) \cup s.gives \subseteq Memory /\ Copied(s) \cap s.gives = {}
  /\ s.heap # {} => ~s.releases
  /\ s.later \subseteq s.roots
  /\ s.freed \cup s.freedOnError = Copied(s)
  /\ s.freed \cup s.freedLast = Copied(s) \cup s.gives
  /\ s.freed \cap (s.freedOnError \cup s.freedLast) = {}
  /\ s.late \ {"inet_ntop"} # {} => s.freed = Copied(s) \cup s.gives
  /\ "inet_ntop" \in s.late => Copied(s) = {} /\ s.gives = {"ifaddrs"} /\ s.freed = {}
  /\ s.early \subseteq {"ok", "Not_available", "Invalid_argument", "EINVAL"}
  /\ s.late \subseteq {"EINVAL", "EOVERFLOW", "inet_ntop"}

\* A running stub holds the lock unless it released it, owns what it
\* allocated so far, and uses addresses in the heap only under the lock.
InCall(t) ==
  /\ pc[t] \in {"call", "return"} /\ ~stub[t].releases => lock = t
  /\ pc[t] = "call" => /\ live[t] = Exactly(Copied(stub[t]))
                       /\ stub[t].heap # {} => ~moved[t]
  /\ pc[t] = "return" =>
       /\ outcome[t] = "ok" => live[t] = Exactly(Copied(stub[t]) \cup stub[t].gives)
       /\ outcome[t] # "ok" => outcome[t] = "failed" /\ live[t] = Exactly(Copied(stub[t]))

StubInv == TypeOK /\ (\A t \in Threads : InCall(t)) /\ NothingLeaks
=============================================================================
