----------------------------- MODULE RwContract -----------------------------
(***************************************************************************)
(* What the interface comments of src/src/extUnix.pp.ml promise of the     *)
(* all_, single_, plain and intr_ variants of pread, pwrite, read and      *)
(* write: when a call may try again, when it returns a count and when it   *)
(* raises.  Buffers, locks, chunks and files do not appear.                *)
(***************************************************************************)
EXTENDS Integers

CONSTANTS Threads

VARIABLES
  phase,     \* "idle", "busy" (a try is due) or "answered" (by the system)
  call,      \* [variant, reads, want]
  got,       \* bytes transferred so far
  outcome,   \* the system's last answer
  res        \* how the last call ended

cvars == <<phase, call, got, outcome, res>>

SysErrors == {"EINTR", "EAGAIN", "EIO"}
Variants  == {"all", "single", "plain", "intr"}

Becomes(f, t, x) == f' = [f EXCEPT ![t] = x]

CInit ==
  /\ phase = [t \in Threads |-> "idle"]
  /\ call \in [Threads -> [variant : Variants, reads : BOOLEAN, want : Int]]
  /\ got = [t \in Threads |-> 0]
  /\ outcome = [t \in Threads |-> "none"]
  /\ res = [t \in Threads |-> [kind |-> "none", n |-> 0]]

\* A new call starts; a refused one is over at once with Invalid_argument.
NewCall(t) ==
  /\ phase[t] = "idle"
  /\ call'[t] \in [variant : Variants, reads : BOOLEAN, want : Int]
  /\ Becomes(call, t, call'[t])
  /\ Becomes(got, t, 0)
  /\ UNCHANGED outcome

Refuse(t) ==
  /\ NewCall(t)
  /\ Becomes(res, t, [kind |-> "Invalid_argument", n |-> 0])
  /\ UNCHANGED phase

Begin(t) ==
  /\ NewCall(t)
  /\ call'[t].want >= 0
  /\ Becomes(res, t, [kind |-> "none", n |-> 0])
  /\ Becomes(phase, t, "busy")

\* The system answers a try: some bytes, none left, or an error.
Answer(t) ==
  /\ phase[t] = "busy" /\ got[t] < call[t].want
  /\ Becomes(phase, t, "answered")
  /\ \/ /\ Becomes(outcome, t, "data")
        /\ got'[t] \in got[t] + 1 .. call[t].want
        /\ Becomes(got, t, got'[t])
     \/ /\ \E o \in SysErrors \cup {"end"} : Becomes(outcome, t, o)
        /\ UNCHANGED got
  /\ UNCHANGED <<call, res>>

\* "repeats the operation until all characters have been read or an error
\* occurs"; "continues the operation on EINTR" for all_ and plain only;
\* single_ "attempts to read only once".
MayGoOn(t) ==
  \/ outcome[t] = "data" /\ call[t].variant # "single"
  \/ outcome[t] = "EINTR" /\ call[t].variant \in {"all", "plain"}

\* A write that takes nothing is no reason for all_write and all_pwrite to
\* return: they are short "on EAGAIN, EWOULDBLOCK but never 0".
EndsQuietly(t) == call[t].reads \/ call[t].variant # "all"

\* "Returns less than the number of characters requested on EAGAIN,
\* EWOULDBLOCK or End-of-file", plain and intr_ on every error that comes
\* after some progress.
MayReturn(t) ==
  \/ outcome[t] = "data" /\ call[t].variant = "single"
  \/ outcome[t] = "end" /\ EndsQuietly(t)
  \/ outcome[t] = "EAGAIN" /\ got[t] > 0
  \/ outcome[t] = "EIO" /\ got[t] > 0 /\ call[t].variant \in {"plain", "intr"}
  \/ outcome[t] = "EINTR" /\ got[t] > 0 /\ call[t].variant = "intr"

\* all_ raises "in all other cases"; the others "if 0 characters could be
\* read before an error occurs".
MayRaise(t) ==
  \/ outcome[t] = "end" /\ ~EndsQuietly(t)
  \/ outcome[t] = "EIO" /\ (got[t] = 0 \/ call[t].variant = "all")
  \/ outcome[t] = "EAGAIN" /\ got[t] = 0
  \/ outcome[t] = "EINTR" /\ got[t] = 0 /\ call[t].variant \in {"single", "intr"}

Close(t, r) ==
  /\ Becomes(phase, t, "idle")
  /\ Becomes(outcome, t, "none")
  /\ Becomes(res, t, r)
  /\ UNCHANGED <<call, got>>

GoOn(t) ==
  /\ phase[t] = "answered" /\ MayGoOn(t)
  /\ Becomes(phase, t, "busy")
  /\ Becomes(outcome, t, "none")
  /\ UNCHANGED <<call, got, res>>

Return(t) ==
  /\ \/ phase[t] = "busy" /\ got[t] = call[t].want
     \/ phase[t] = "answered" /\ MayReturn(t)
  /\ Close(t, [kind |-> "ok", n |-> got[t]])

Fail(t) ==
  /\ phase[t] = "answered" /\ MayRaise(t)
  /\ \E e \in SysErrors : /\ outcome[t] \in SysErrors => e = outcome[t]
                           /\ Close(t, [kind |-> e, n |-> 0])

\* An OCaml signal handler raises while the call is about to block.
Interrupted(t) ==
  /\ phase[t] = "busy" /\ got[t] < call[t].want
  /\ Close(t, [kind |-> "exn", n |-> 0])

CNext == \E t \in Threads :
  \/ Refuse(t) \/ Begin(t) \/ Answer(t) \/ GoOn(t)
  \/ Return(t) \/ Fail(t) \/ Interrupted(t)

CSpec == CInit /\ [][CNext]_cvars
=============================================================================
