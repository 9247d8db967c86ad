------------------------------- MODULE Rlimit -------------------------------
(***************************************************************************)
(* getrlimit and setrlimit of resource.c and module Rlimit of              *)
(* extUnix.pp.ml, on one resource of the process.  The system has unsigned *)
(* limits of 64 bits with one value for infinity, OCaml has an option of a *)
(* signed integer of 64 bits.                                              *)
(***************************************************************************)
EXTENDS Integers

CONSTANTS
  Half,             \* 2^63: rlim_t and int64 have 2 * Half values
  RLIM_INFINITY     \* 2^64 - 1, or 2^63 - 1 on the BSDs

ASSUME RlimitAssumption ==
  /\ Half \in Nat \ {0}
  /\ RLIM_INFINITY \in {Half - 1, 2 * Half - 1}

VARIABLES
  rlim,       \* the limits of the system: [cur, max]
  saved,      \* the last result of getrlimit: [soft, hard]
  origin      \* history: the limits at that time

rlimitVars == <<rlim, saved, origin>>

-----------------------------------------------------------------------------
rlim_t == 0 .. 2 * Half - 1
int64_t  == -Half .. Half - 1

\* Values of type Rlimit.t: None is <<>>, Some v is <<v>>.
None    == <<>>
Some(v) == <<v>>
Limit   == {None} \cup {Some(v) : v \in int64_t}

\* The conversions of C between the two types.
ToSigned(v)   == IF v < Half THEN v ELSE v - 2 * Half
ToUnsigned(v) == IF v < 0 THEN v + 2 * Half ELSE v

encode_limit(v) == IF v = RLIM_INFINITY THEN None ELSE Some(ToSigned(v))

\* Mutant: the limit is read as an OCaml int, which has one bit less.
decode_limit_int(l) == IF l = None THEN RLIM_INFINITY ELSE ToUnsigned(l[1]) % Half

decode_limit(l) == IF l = None THEN RLIM_INFINITY ELSE ToUnsigned(l[1])

\* Mutant: the polymorphic order, in which None comes first.
le_polymorphic(l1, l2) == l1 = None \/ (l1 # None /\ l2 # None /\ l1[1] <= l2[1])

\* Rlimit.le, by Rlimit.compare
le(l1, l2) == l2 = None \/ (l1 # None /\ l2 # None /\ l1[1] <= l2[1])

-----------------------------------------------------------------------------
caml_extunix_getrlimit ==
  /\ saved'  = [soft |-> encode_limit(rlim.cur), hard |-> encode_limit(rlim.max)]
  /\ origin' = rlim
  /\ UNCHANGED rlim

\* The system refuses a soft limit above the hard one, and to raise the hard
\* one without privileges: Unix_error.
Kernel_setrlimit(cur, max) ==
  \/ cur <= max /\ rlim' = [cur |-> cur, max |-> max]
  \/ (cur > max \/ max > rlim.max) /\ UNCHANGED rlim

caml_extunix_setrlimit(soft, hard) ==
  /\ Kernel_setrlimit(decode_limit(soft), decode_limit(hard))
  /\ UNCHANGED <<saved, origin>>

\* Another process with the privilege changes the limits of this one.
prlimit(l) ==
  /\ l.cur <= l.max
  /\ rlim' = l
  /\ UNCHANGED <<saved, origin>>

RlimitInit ==
  /\ rlim = [cur |-> RLIM_INFINITY, max |-> RLIM_INFINITY]
  /\ saved = [soft |-> None, hard |-> None]
  /\ origin = rlim

RlimitNext ==
  \/ caml_extunix_getrlimit
  \/ \E soft, hard \in Limit : caml_extunix_setrlimit(soft, hard)
  \/ \E l \in [cur : rlim_t, max : rlim_t] : prlimit(l)

RlimitSpec == RlimitInit /\ [][RlimitNext]_rlimitVars

-----------------------------------------------------------------------------
RlimitTypeOK ==
  /\ rlim \in [cur : rlim_t, max : rlim_t] /\ origin \in [cur : rlim_t, max : rlim_t]
  /\ saved \in [soft : Limit, hard : Limit]

\* What getrlimit returned can be given to setrlimit to restore the limits:
\* no limit is changed on the way to OCaml and back, infinity and the ones
\* that are negative as an int64 included.
LimitsRestorable ==
  /\ decode_limit(saved.soft) = origin.cur
  /\ decode_limit(saved.hard) = origin.max

\* Rlimit.le orders the two results of getrlimit as the system orders the
\* limits, as long as they have a sign in OCaml: the soft limit is below the
\* hard one.
SoftBelowHard ==
  origin.max < Half \/ origin.max = RLIM_INFINITY =>
    (origin.cur < Half \/ origin.cur = RLIM_INFINITY => le(saved.soft, saved.hard))
=============================================================================
