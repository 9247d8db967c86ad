------------------------------- MODULE Numbers -------------------------------
(***************************************************************************)
(* Offsets and lengths on their way to the system.  An OCaml int has 63    *)
(* bits.  Int_val keeps the low 32 bits (splice, tee, vmsplice), Long_val  *)
(* and Int64_val keep them all (fadvise, fallocate); size_t has no         *)
(* negative numbers.                                                       *)
(***************************************************************************)
EXTENDS Integers, Sequences

CONSTANTS
  IntHalf,      \* 2^31
  LongHalf,     \* 2^63
  Amounts,      \* offsets and lengths that are used
  Dims          \* sizes of the bigarrays

ASSUME NumbersAssumption ==
  /\ IntHalf \in Nat \ {0} /\ LongHalf \in Nat \ {0} /\ IntHalf <= LongHalf
  /\ Amounts \subseteq -LongHalf .. LongHalf - 1
  /\ Dims \subseteq 0 .. LongHalf - 1

VARIABLES
  wanted,     \* what the program asked for
  got         \* what the system got, or "Invalid_argument", or "none"

numbersVars == <<wanted, got>>

-----------------------------------------------------------------------------
Int_val(v)  == ((v + IntHalf) % (2 * IntHalf)) - IntHalf
Long_val(v) == v
size_t(v)   == v % (2 * LongHalf)

Iov == [dim : Dims, off : Amounts, len : Amounts]
File(fn, o, n) == [fn |-> fn, off |-> o, len |-> n, iov |-> <<>>]
NoCall == File("none", 0, 0)

\* off_in and off_out are handled alike.
caml_extunix_splice(o, n) ==
  /\ wanted' = File("splice", o, n)
  /\ got'   = File("splice", Int_val(o), size_t(Int_val(n)))

caml_extunix_tee(n) ==
  /\ wanted' = File("tee", 0, n)
  /\ got'   = File("tee", 0, size_t(Int_val(n)))

\* Mutant: fadvise converts as splice does.
fadvise_int(o, n) ==
  /\ wanted' = File("fadvise", o, n)
  /\ got'   = File("fadvise", Int_val(o), Int_val(n))

\* fadvise, fadvise64, fallocate and fallocate64
fadvise_call(o, n) ==
  /\ wanted' = File("fadvise", o, n)
  /\ got'   = File("fadvise", Long_val(o), Long_val(n))

\* The check of vmsplice on one iov, in int arithmetic: a sum that is too
\* large is taken as the build does it, modulo 2^32.
Refused(v) == Int_val(Int_val(v.off) + Int_val(v.len)) > v.dim

caml_extunixba_vmsplice(v_iov) ==
  /\ wanted' = [fn |-> "vmsplice", off |-> 0, len |-> 0, iov |-> v_iov]
  /\ got' = IF \E i \in DOMAIN v_iov : Refused(v_iov[i]) THEN File("Invalid_argument", 0, 0)
            ELSE [wanted' EXCEPT !.iov = [i \in DOMAIN v_iov |->
                    [dim |-> v_iov[i].dim, off |-> Int_val(v_iov[i].off),
                     len |-> size_t(Int_val(v_iov[i].len))]]]

NumbersInit == wanted = NoCall /\ got = NoCall

\* The calls keep nothing: one is enough.
NumbersNext ==
  /\ wanted = NoCall
  /\ \/ \E o, n \in Amounts : caml_extunix_splice(o, n) \/ fadvise_call(o, n)
     \/ \E n \in Amounts : caml_extunix_tee(n)
     \/ \E v_iov \in UNION {[1 .. k -> Iov] : k \in 0 .. 2} : caml_extunixba_vmsplice(v_iov)

-----------------------------------------------------------------------------
int   == -IntHalf .. IntHalf - 1
uint  == 0 .. IntHalf - 1

\* fadvise and fallocate hand on every offset and length; splice and tee the
\* ones of 31 bits and no other: the system gets something else then.  What vmsplice gives to the system lies in the bigarrays,
\* as long as no offset or length is negative or has more than 31 bits and
\* no sum of two has.
ArgumentsReach ==
  /\ wanted.fn = "fadvise" => got = wanted
  /\ wanted.fn \in {"splice", "tee"} =>
       (got = wanted <=> wanted.off \in int /\ wanted.len \in uint)
  /\ got.fn = "vmsplice" =>
       \A i \in DOMAIN got.iov :
         LET v == wanted.iov[i] IN
         v.off \in uint /\ v.len \in uint /\ v.off + v.len \in uint =>
           got.iov[i] = v /\ v.off + v.len <= v.dim
=============================================================================
