------------------------------- MODULE Endian -------------------------------
(***************************************************************************)
(* Integers in strings, Bytes and bigarrays: the get_X, set_X and          *)
(* conversion functions of the modules BigEndian, LittleEndian and         *)
(* HostEndian (extUnix.pp.ml), the macros CONV, GET and SET they are       *)
(* generated from (endian.c, endianba.c), and get_substr and set_substr of *)
(* bigarrays (bigarray.c), on a 64-bit platform.                           *)
(*                                                                         *)
(* A byte has Base values instead of 256.  The widths are the code's, in   *)
(* bytes: an int16_t has 2, a word has 8, an OCaml int one bit less than a *)
(* word.                                                                   *)
(***************************************************************************)
EXTENDS Integers, FiniteSets

CONSTANTS
  Base,        \* number of values of a byte
  Buffers,     \* buffers the program may start with
  Values,      \* integers it stores
  Strings,     \* strings it gives to set_substr
  Offsets,     \* offsets it uses
  MaxAccesses  \* bound: number of calls

ASSUME EndianAssumption ==
  /\ Base \in Nat \ {0} /\ Base % 4 = 0
  /\ \A b \in Buffers \cup Strings :
       LET n == Cardinality(DOMAIN b)
       IN  n \in Nat /\ b \in [0 .. n - 1 -> 0 .. Base - 1]
  /\ Values \subseteq Int /\ Offsets \subseteq Int
  /\ MaxAccesses \in Nat

VARIABLES
  host,     \* byte order of the machine
  kind,     \* "bytes" (string and Bytes) or "bigarray"
  buf,      \* the buffer: a function from 0 .. length - 1
  accesses, \* number of calls
  last,     \* history: the last call and its result
  touched,  \* history: the places in memory its memcpy worked on
  earlier,  \* history: the buffer before it
  stored    \* history: the last set_X that succeeded

endianVars == <<host, kind, buf, accesses, last, touched, earlier, stored>>

-----------------------------------------------------------------------------
(* C integers and their bytes. *)

\* How many integers w bytes have (2^16, 2^32, ...), and an OCaml int.
Span(w) == LET span[i \in 0 .. w] == IF i = 0 THEN 1 ELSE span[i - 1] * Base IN span[w]
IntSpan == Span(8) \div 2

Unsigned(n, span) == n % span
Signed(n, span) ==
  LET u == n % span IN IF u >= span \div 2 THEN u - span ELSE u

\* The integer with the digits d[0], d[1], ..., d[w - 1], lowest first, put
\* together from the highest on.
Number(d, w) ==
  LET sum[i \in 0 .. w] == IF i = 0 THEN 0 ELSE sum[i - 1] * Base + d[w - i] IN sum[w]

Digits(x, w) ==
  LET rest[i \in 0 .. w] == IF i = 0 THEN x ELSE rest[i - 1] \div Base
  IN  [i \in 0 .. w - 1 |-> rest[i] % Base]

Mirror(d, w) == [i \in 0 .. w - 1 |-> d[w - 1 - i]]

\* An unsigned integer in memory, in a given order.
Load(o, d, w)  == IF o = "little" THEN Number(d, w) ELSE Number(Mirror(d, w), w)
Store(o, x, w) == IF o = "little" THEN Digits(x, w) ELSE Mirror(Digits(x, w), w)

bswap(x, w) == Number(Mirror(Digits(x, w), w), w)

\* Mutant: little endian machines only.
conv_little(o, x, w) == IF o \in {"host", "little"} THEN x ELSE bswap(x, w)

\* htobe16, be16toh, htole16, ..., and id for the host's order
conv(o, x, w) == IF o \in {"host", host} THEN x ELSE bswap(x, w)

-----------------------------------------------------------------------------
(* The types X of get_X and set_X: width and sign of the C type, and the   *)
(* OCaml type of the result: an int (Val_long) or boxed (caml_copy_intN).  *)

Type(w, signed, boxed) == [w |-> w, signed |-> signed, boxed |-> boxed]

uint8  == Type(1, FALSE, FALSE)
int8   == Type(1, TRUE, FALSE)
uint16 == Type(2, FALSE, FALSE)
int16  == Type(2, TRUE, FALSE)
uint31 == Type(4, FALSE, FALSE)
int31  == Type(4, TRUE, FALSE)
int32  == Type(4, TRUE, TRUE)
uint63 == Type(8, FALSE, FALSE)
int63  == Type(8, TRUE, FALSE)
int64  == Type(8, TRUE, TRUE)

Types == {uint8, int8, uint16, int16, uint31, int31, int32, uint63, int63, int64}

\* set_uintN and set_intN are one stub, which stores an unsigned integer.
SetTypes == {uint8, uint16, uint31, int32, uint63, int64}

\* The types with uintN_from_host and to_host.
ConvTypes == {uint16, int16, uint31, int31, int32, int64}

\* Mutant: int16 and int31 are read as unsigned.
AsUnsigned(X, n) == IF X.boxed THEN Signed(n, Span(X.w)) ELSE Unsigned(n, Span(X.w))

\* Assignment to a variable of the C type.
As(X, n) == IF X.signed THEN Signed(n, Span(X.w)) ELSE Unsigned(n, Span(X.w))

\* Mutant: Val_int instead of Val_long.
BoxInt(X, n) == IF X.boxed THEN n ELSE Signed(n, Span(4))

\* Val_long drops the highest bit of a word.
Box(X, n) == IF X.boxed THEN n ELSE Signed(n, IntSpan)

\* The OCaml values of type X.
OCamlValues(X) ==
  LET half == (IF X.boxed THEN Span(X.w) ELSE IntSpan) \div 2
  IN  {v \in Values : -half <= v /\ v < half}

GET(o, X, d) ==
  LET x == As(X, Load(host, d, X.w))
  IN  Box(X, As(X, conv(o, Unsigned(x, Span(X.w)), X.w)))

SET(o, X, v) == Store(host, conv(o, Unsigned(v, Span(X.w)), X.w), X.w)

\* Mutant: the result of conv is not brought back to the type.
CONVUnsigned(o, X, v) == Box(X, conv(o, Unsigned(v, Span(X.w)), X.w))

CONV(o, X, v) ==
  LET x == As(X, v)
  IN  Box(X, As(X, conv(o, Unsigned(x, Span(X.w)), X.w)))

-----------------------------------------------------------------------------
length == Cardinality(DOMAIN buf)

\* Mutant: the width of a byte for every type.
OutOfBoundsShort(off, w) == off < 0 \/ off >= length

\* The check of the OCaml functions.
OutOfBounds(off, w) == off < 0 \/ (IF w = 1 THEN off >= length ELSE off > length - w)

\* The check of get_substr.
SubstrOutOfBounds(off, len) == off < 0 \/ len < 0 \/ off > length - len

Window(off, w) == off .. off + w - 1

\* The 0 stands for memory outside of the buffer, which a window that passed
\* the check does not reach.
At(off, w) == [i \in 0 .. w - 1 |-> IF off + i \in DOMAIN buf THEN buf[off + i] ELSE 0]
Put(off, w, d) == [i \in DOMAIN buf |-> IF i \in Window(off, w) THEN d[i - off] ELSE buf[i]]

NoAccess == [op |-> "none", o |-> "host", X |-> uint8, off |-> 0, w |-> 0,
             v |-> 0, raised |-> FALSE, result |-> 0]

AccessOf(op, o, X, off, w, v) ==
  [NoAccess EXCEPT !.op = op, !.o = o, !.X = X, !.off = off, !.w = w, !.v = v]

Counted == accesses < MaxAccesses /\ accesses' = accesses + 1

Raises(c) ==
  /\ last' = [c EXCEPT !.raised = TRUE]
  /\ touched' = {} /\ earlier' = buf
  /\ UNCHANGED <<host, kind, buf, stored>>

get(o, X, off) ==
  LET c == AccessOf("get", o, X, off, X.w, 0)
  IN  /\ Counted
      /\ \/ OutOfBounds(off, X.w) /\ Raises(c)
         \/ /\ ~OutOfBounds(off, X.w)
            /\ last' = [c EXCEPT !.result = GET(o, X, At(off, X.w))]
            /\ touched' = Window(off, X.w)
            /\ earlier' = buf
            /\ UNCHANGED <<host, kind, buf, stored>>

set(o, X, off, v) ==
  LET c == AccessOf("set", o, X, off, X.w, v)
  IN  /\ Counted
      /\ \/ OutOfBounds(off, X.w) /\ Raises(c)
         \/ /\ ~OutOfBounds(off, X.w)
            /\ buf' = Put(off, X.w, SET(o, X, v))
            /\ last' = c /\ stored' = c
            /\ touched' = Window(off, X.w)
            /\ earlier' = buf
            /\ UNCHANGED <<host, kind>>

get_substr(off, len) ==
  LET c == AccessOf("get_substr", "host", uint8, off, len, 0)
  IN  /\ Counted
      /\ \/ SubstrOutOfBounds(off, len) /\ Raises(c)
         \/ /\ ~SubstrOutOfBounds(off, len)
            /\ touched' = Window(off, len)
            /\ last' = c
            /\ earlier' = buf
            /\ UNCHANGED <<host, kind, buf, stored>>

set_substr(off, str) ==
  LET len == Cardinality(DOMAIN str)
      c   == AccessOf("set_substr", "host", uint8, off, len, 0)
  IN  /\ Counted
      /\ \/ (off < 0 \/ off > length - len) /\ Raises(c)
         \/ /\ ~(off < 0 \/ off > length - len)
            /\ buf' = Put(off, len, str)
            /\ touched' = Window(off, len)
            /\ last' = c /\ stored' = NoAccess
            /\ earlier' = buf
            /\ UNCHANGED <<host, kind>>

-----------------------------------------------------------------------------
Orders == {"big", "little", "host"}

EndianInit ==
  /\ host \in {"big", "little"}
  /\ kind \in {"bytes", "bigarray"}
  /\ buf \in Buffers
  /\ accesses = 0
  /\ last = NoAccess
  /\ touched = {}
  /\ earlier = buf
  /\ stored = NoAccess

Access(o) ==
  \/ \E X \in Types, off \in Offsets : get(o, X, off)
  \/ \E X \in SetTypes, off \in Offsets : \E v \in OCamlValues(X) : set(o, X, off, v)

\* The modules of ExtUnix, and the ones of the same names in ExtUnix.BA.
BigEndian       == kind = "bytes"    /\ Access("big")
LittleEndian    == kind = "bytes"    /\ Access("little")
HostEndian      == kind = "bytes"    /\ Access("host")
BA_BigEndian    == kind = "bigarray" /\ Access("big")
BA_LittleEndian == kind = "bigarray" /\ Access("little")
BA_HostEndian   == kind = "bigarray" /\ Access("host")

BA_substr ==
  /\ kind = "bigarray"
  /\ \/ \E off, len \in Offsets : get_substr(off, len)
     \/ \E off \in Offsets, str \in Strings : set_substr(off, str)

EndianNext ==
  \/ BigEndian \/ LittleEndian \/ HostEndian
  \/ BA_BigEndian \/ BA_LittleEndian \/ BA_HostEndian
  \/ BA_substr

EndianSpec == EndianInit /\ [][EndianNext]_endianVars
-----------------------------------------------------------------------------
\* Type invariant: the buffer keeps its length and holds bytes.
EndianTypeOK ==
  /\ host \in {"big", "little"}
  /\ kind \in {"bytes", "bigarray"}
  /\ buf \in [DOMAIN earlier -> 0 .. Base - 1]
  /\ accesses \in 0 .. MaxAccesses

\* No call works outside of the buffer, and the checks refuse nothing else.
InBounds ==
  /\ touched \subseteq DOMAIN buf
  /\ last.raised => \/ last.w < 0
                    \/ last.w = 0 /\ last.off \notin 0 .. length
                    \/ ~(Window(last.off, last.w) \subseteq DOMAIN buf)

\* The order in which a function reads, whatever the machine's is.
Resolve(o) == IF o = "host" THEN host ELSE o

\* r is n as an OCaml value of type X: equal in the bits X has, and extended
\* by zeros or by the sign.  The 63-bit functions lose the highest bit.
Represents(X, r, n) ==
  LET span == IF X.w = 8 /\ ~X.boxed THEN IntSpan ELSE Span(X.w)
  IN  /\ (r - n) % span = 0
      /\ IF X.signed \/ X.w = 8 THEN -(span \div 2) <= r /\ r < span \div 2
                               ELSE 0 <= r /\ r < span

\* get_X returns the integer that the bytes stand for in the function's
\* order, extended by zeros or by the sign, on machines of either order.
GetIsExact == last.op = "get" /\ ~last.raised =>
  Represents(last.X, last.result, Load(Resolve(last.o), At(last.off, last.w), last.w))

\* Conversion from and to the host's order agrees with reading in that order:
\* to_host undoes from_host, and it makes of what HostEndian.get_X read what
\* get_X of the other modules reads.
ConvAgrees == last.op = "get" /\ ~last.raised /\ last.X \in ConvTypes =>
  LET h == GET("host", last.X, At(last.off, last.w))
  IN  /\ CONV(last.o, last.X, h) = last.result
      /\ CONV(last.o, last.X, last.result) = h

\* set_X changes the bytes of its window, to the ones of the integer in the
\* function's order, and no other byte.
SetIsExact == last.op = "set" /\ ~last.raised =>
  /\ At(last.off, last.w) = Store(Resolve(last.o), Unsigned(last.v, Span(last.w)), last.w)
  /\ \A i \in DOMAIN buf \ touched : buf[i] = earlier[i]

\* What one call stores the next one reads: get_X returns the value given to
\* set_Y of the same width, order and offset, fitted to X.
RoundTrip ==
  /\ last.op = "get" /\ ~last.raised
  /\ stored.op = "set" /\ stored.off = last.off /\ stored.w = last.w
  /\ Resolve(stored.o) = Resolve(last.o)
  => Represents(last.X, last.result, stored.v)

\* The invariant behind InBounds: places of the buffer are numbered from 0.
BoundsInv ==
  /\ length \in Nat /\ DOMAIN buf = 0 .. length - 1
  /\ InBounds
\* The invariant behind the four properties of the values: what a call found
\* and what the last set_X stored are still in the buffer.
GetIsFound == last.op = "get" /\ ~last.raised =>
  /\ last.o \in Orders /\ last.X \in Types /\ last.w = last.X.w
  /\ last.result = GET(last.o, last.X, At(last.off, last.w))

SetIsKept == last.op = "set" /\ ~last.raised =>
  /\ last = stored
  /\ \A i \in DOMAIN buf \ touched : buf[i] = earlier[i]

StoredIsThere == stored.op = "set" =>
  /\ stored.o \in Orders /\ stored.w \in {1, 2, 4, 8} /\ stored.v \in Int
  /\ At(stored.off, stored.w)
       = Store(Resolve(stored.o), Unsigned(stored.v, Span(stored.w)), stored.w)

ExactInv == EndianTypeOK /\ GetIsFound /\ SetIsKept /\ StoredIsThere
=============================================================================
