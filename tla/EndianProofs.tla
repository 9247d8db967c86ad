---------------------------- MODULE EndianProofs ----------------------------
(***************************************************************************)
(* The bounds checks of Endian and the values its functions read, write    *)
(* and convert, for buffers of any length, any offset and type, and bytes  *)
(* of any size.                                                            *)
(***************************************************************************)
EXTENDS Endian, TLAPS

\* The two forms of the check accept exactly the windows inside the buffer.
LEMMA CheckExact ==
  ASSUME length \in Nat, DOMAIN buf = 0 .. length - 1,
         NEW off \in Int, NEW w \in Nat \ {0}
  PROVE  OutOfBounds(off, w) <=> ~(Window(off, w) \subseteq DOMAIN buf)
<1>1. CASE off \in 0 .. length - w
  BY <1>1 DEF OutOfBounds, Window
<1>2. CASE off < 0 \/ off > length - w
  <2>1. off \in Window(off, w) /\ off + w - 1 \in Window(off, w)
    BY DEF Window
  <2>2. off \notin DOMAIN buf \/ off + w - 1 \notin DOMAIN buf
    BY <1>2
  <2> QED
    BY <2>1, <2>2, <1>2 DEF OutOfBounds
<1> QED
  BY <1>1, <1>2

\* The check of the substrings does too, and for the empty one it asks for an
\* offset inside the buffer or at its end.
LEMMA SubstrCheckExact ==
  ASSUME length \in Nat, DOMAIN buf = 0 .. length - 1,
         NEW off \in Int, NEW len \in Int
  PROVE  /\ ~SubstrOutOfBounds(off, len) => Window(off, len) \subseteq DOMAIN buf
         /\ SubstrOutOfBounds(off, len) =>
              \/ len < 0
              \/ len = 0 /\ off \notin 0 .. length
              \/ ~(Window(off, len) \subseteq DOMAIN buf)
<1>1. ~SubstrOutOfBounds(off, len) => Window(off, len) \subseteq DOMAIN buf
  BY DEF SubstrOutOfBounds, Window
<1>2. ASSUME SubstrOutOfBounds(off, len), len > 0
      PROVE  ~(Window(off, len) \subseteq DOMAIN buf)
  <2>1. off \in Window(off, len) /\ off + len - 1 \in Window(off, len)
    BY <1>2 DEF Window
  <2>2. off \notin DOMAIN buf \/ off + len - 1 \notin DOMAIN buf
    BY <1>2 DEF SubstrOutOfBounds
  <2> QED
    BY <2>1, <2>2
<1>3. SubstrOutOfBounds(off, 0) => off \notin 0 .. length
  BY DEF SubstrOutOfBounds
<1> QED
  BY <1>1, <1>2, <1>3

LEMMA Widths == \A X \in Types : X.w \in Nat \ {0}
BY DEF Types, Type, uint8, int8, uint16, int16, uint31, int31, int32, uint63,
       int63, int64

\* What the history says of a call.
LEMMA CallFields ==
  ASSUME NEW op, NEW o, NEW X, NEW off, NEW w, NEW v
  PROVE  LET c == AccessOf(op, o, X, off, w, v)
         IN  /\ ~c.raised
             /\ \A r : ~[c EXCEPT !.result = r].raised
             /\ [c EXCEPT !.raised = TRUE].off = off
             /\ [c EXCEPT !.raised = TRUE].w = w
BY DEF AccessOf, NoAccess

\* A call that raises touches nothing and leaves the buffer alone.
LEMMA RaisesStep ==
  ASSUME BoundsInv, NEW op, NEW o, NEW X, NEW off, NEW w, NEW v,
         Raises(AccessOf(op, o, X, off, w, v)),
         \/ w < 0
         \/ w = 0 /\ off \notin 0 .. length
         \/ ~(Window(off, w) \subseteq DOMAIN buf)
  PROVE  BoundsInv'
<1>1. buf' = buf /\ touched' = {}
  BY DEF Raises
<1>2. last'.off = off /\ last'.w = w
  BY CallFields DEF Raises
<1>3. Window(last'.off, last'.w) = Window(off, w)
  BY <1>2
<1> QED
  BY <1>1, <1>2, <1>3 DEF BoundsInv, InBounds, length, Window

\* A call that does not raise keeps the places of the buffer and works inside.
LEMMA AccessStep ==
  ASSUME BoundsInv, NEW off, NEW w, DOMAIN buf' = DOMAIN buf,
         touched' = Window(off, w), Window(off, w) \subseteq DOMAIN buf,
         ~last'.raised
  PROVE  BoundsInv'
BY DEF BoundsInv, InBounds, length

LEMMA GetStep ==
  ASSUME BoundsInv, NEW o \in Orders, NEW X \in Types, NEW off \in Int, get(o, X, off)
  PROVE  BoundsInv'
<1> DEFINE c == AccessOf("get", o, X, off, X.w, 0)
<1>1. OutOfBounds(off, X.w) <=> ~(Window(off, X.w) \subseteq DOMAIN buf)
  BY CheckExact, Widths DEF BoundsInv
<1>2. CASE OutOfBounds(off, X.w) /\ Raises(c)
  BY <1>1, <1>2, RaisesStep
<1>3. CASE ~OutOfBounds(off, X.w)
  <2>1. ~last'.raised
    BY <1>3, CallFields DEF get
  <2> QED
    BY <1>1, <1>3, <2>1, AccessStep DEF get
<1> QED
  BY <1>2, <1>3 DEF get

LEMMA SetStep ==
  ASSUME BoundsInv, NEW o \in Orders, NEW X \in SetTypes, NEW off \in Int, NEW v,
         set(o, X, off, v)
  PROVE  BoundsInv'
<1> DEFINE c == AccessOf("set", o, X, off, X.w, v)
<1>0. X \in Types
  BY DEF SetTypes, Types
<1>1. OutOfBounds(off, X.w) <=> ~(Window(off, X.w) \subseteq DOMAIN buf)
  BY <1>0, CheckExact, Widths DEF BoundsInv
<1>2. CASE OutOfBounds(off, X.w) /\ Raises(c)
  BY <1>1, <1>2, RaisesStep
<1>3. CASE ~OutOfBounds(off, X.w)
  <2>1. ~last'.raised
    BY <1>3, CallFields DEF set
  <2>2. DOMAIN buf' = DOMAIN buf
    BY <1>3 DEF set, Put
  <2> QED
    BY <1>1, <1>3, <2>1, <2>2, AccessStep DEF set
<1> QED
  BY <1>2, <1>3 DEF set

LEMMA GetSubstrStep ==
  ASSUME BoundsInv, NEW off \in Int, NEW len \in Int, get_substr(off, len)
  PROVE  BoundsInv'
<1> DEFINE c == AccessOf("get_substr", "host", uint8, off, len, 0)
<1>1. CASE SubstrOutOfBounds(off, len) /\ Raises(c)
  BY <1>1, SubstrCheckExact, RaisesStep DEF BoundsInv
<1>2. CASE ~SubstrOutOfBounds(off, len)
  <2>1. ~last'.raised
    BY <1>2, CallFields DEF get_substr
  <2>2. Window(off, len) \subseteq DOMAIN buf
    BY <1>2, SubstrCheckExact DEF BoundsInv
  <2> QED
    BY <1>2, <2>1, <2>2, AccessStep DEF get_substr
<1> QED
  BY <1>1, <1>2 DEF get_substr

LEMMA SetSubstrStep ==
  ASSUME BoundsInv, NEW off \in Int, NEW str \in Strings, set_substr(off, str)
  PROVE  BoundsInv'
<1> DEFINE len == Cardinality(DOMAIN str)
           c   == AccessOf("set_substr", "host", uint8, off, len, 0)
<1>1. len \in Nat
  BY EndianAssumption
<1>2. (off < 0 \/ off > length - len) <=> SubstrOutOfBounds(off, len)
  BY <1>1 DEF SubstrOutOfBounds, BoundsInv
<1>3. CASE SubstrOutOfBounds(off, len) /\ Raises(c)
  BY <1>1, <1>3, SubstrCheckExact, RaisesStep DEF BoundsInv
<1>4. CASE ~SubstrOutOfBounds(off, len)
  <2>1. ~last'.raised
    BY <1>2, <1>4, CallFields DEF set_substr
  <2>2. Window(off, len) \subseteq DOMAIN buf
    BY <1>1, <1>4, SubstrCheckExact DEF BoundsInv
  <2>3. DOMAIN buf' = DOMAIN buf /\ touched' = Window(off, len)
    BY <1>2, <1>4 DEF set_substr, Put
  <2> QED
    BY <2>1, <2>2, <2>3, AccessStep
<1> QED
  BY <1>2, <1>3, <1>4 DEF set_substr

LEMMA BoundsInvariance == EndianSpec => []BoundsInv
<1>1. EndianInit => BoundsInv
  <2> SUFFICES ASSUME EndianInit PROVE BoundsInv
    OBVIOUS
  <2>1. length \in Nat /\ DOMAIN buf = 0 .. length - 1
    BY EndianAssumption DEF EndianInit, length
  <2>2. touched = {} /\ ~last.raised
    BY DEF EndianInit, NoAccess
  <2> QED
    BY <2>1, <2>2 DEF BoundsInv, InBounds
<1>2. BoundsInv /\ [EndianNext]_endianVars => BoundsInv'
  <2> SUFFICES ASSUME BoundsInv, [EndianNext]_endianVars PROVE BoundsInv'
    OBVIOUS
  <2>1. CASE UNCHANGED endianVars
    BY <2>1 DEF endianVars, BoundsInv, InBounds, length, Window
  <2>2. CASE EndianNext
    <3>1. ASSUME NEW o \in Orders, Access(o) PROVE BoundsInv'
      BY <3>1, GetStep, SetStep, EndianAssumption DEF Access
    <3>2. CASE BA_substr
      BY <3>2, GetSubstrStep, SetSubstrStep, EndianAssumption DEF BA_substr
    <3> QED
      BY <2>2, <3>1, <3>2 DEF EndianNext, Orders, BigEndian, LittleEndian, HostEndian,
         BA_BigEndian, BA_LittleEndian, BA_HostEndian
  <2> QED
    BY <2>1, <2>2
<1> QED
  BY <1>1, <1>2, PTL DEF EndianSpec

(***************************************************************************)
(* No call of get_X, set_X, get_substr or set_substr works outside of its  *)
(* buffer, and none is refused that would not, for every length, offset,   *)
(* type and byte order.                                                    *)
(***************************************************************************)
THEOREM AccessInBounds == EndianSpec => []InBounds
<1>1. BoundsInv => InBounds
  BY DEF BoundsInv
<1> QED
  BY <1>1, BoundsInvariance, PTL

-----------------------------------------------------------------------------
(* Division, and numbers that are the same up to a multiple of m. *)

LEMMA DivMod ==
  ASSUME NEW b \in Nat \ {0}, NEW x \in Int
  PROVE  x \div b \in Int /\ x % b \in 0 .. b - 1 /\ x = (x \div b) * b + (x % b)
<1>1. x \div b \in Int /\ x % b \in 0 .. b - 1
  OBVIOUS
<1> QED
  BY <1>1

LEMMA DivNat ==
  ASSUME NEW b \in Nat \ {0}, NEW x \in Nat
  PROVE  x \div b \in Nat
OBVIOUS

LEMMA Unpack ==
  ASSUME NEW b \in Nat \ {0}, NEW a \in Int, NEW r \in 0 .. b - 1
  PROVE  (a * b + r) \div b = a /\ (a * b + r) % b = r
OBVIOUS

LEMMA Grow ==
  ASSUME NEW b \in Nat \ {0}, NEW n \in Nat, NEW p \in Nat, n < p, NEW r \in 0 .. b - 1
  PROVE  n * b + r < p * b /\ n * b + r \in Nat
OBVIOUS

LEMMA Shrink ==
  ASSUME NEW b \in Nat \ {0}, NEW p \in Nat, NEW x \in Nat, x < p * b
  PROVE  x \div b < p
OBVIOUS

Same(a, b, m) == \E k \in Int : a = b + k * m

LEMMA SameMod ==
  ASSUME NEW m \in Nat \ {0}, NEW a \in Int, NEW b \in Int
  PROVE  /\ Same(a, a, m)
         /\ Same(a, b, m) => Same(b, a, m) /\ (a - b) % m = 0
<1>1. Same(a, a, m)
  <2>1. a = a + 0 * m /\ 0 \in Int
    OBVIOUS
  <2> QED
    BY <2>1, Zenon DEF Same
<1>2. ASSUME NEW k \in Int, a = b + k * m
      PROVE  b = a + (-k) * m /\ -k \in Int /\ (a - b) % m = 0
  <2>1. b = a + (-k) * m /\ -k \in Int
    BY <1>2
  <2>2. a - b = k * m + 0 /\ 0 \in 0 .. m - 1
    BY <1>2
  <2>3. (k * m + 0) % m = 0
    BY <2>2, Unpack
  <2> QED
    BY <2>1, <2>2, <2>3
<1>3. ASSUME Same(a, b, m) PROVE Same(b, a, m) /\ (a - b) % m = 0
  BY <1>2, <1>3, Zenon DEF Same
<1> QED
  BY <1>1, <1>3

LEMMA SameTrans ==
  ASSUME NEW m \in Nat \ {0}, NEW a \in Int, NEW b \in Int, NEW c \in Int,
         Same(a, b, m), Same(b, c, m)
  PROVE  Same(a, c, m)
<1>1. PICK k \in Int : a = b + k * m
  BY DEF Same
<1>2. PICK l \in Int : b = c + l * m
  BY DEF Same
<1>3. a = c + (l + k) * m /\ l + k \in Int
  BY <1>1, <1>2
<1> QED
  BY <1>3 DEF Same

\* Up to a divisor, too.
LEMMA SameDivisor ==
  ASSUME NEW m \in Nat \ {0}, NEW c \in Nat, NEW a \in Int, NEW b \in Int,
         Same(a, b, m * c)
  PROVE  Same(a, b, m)
<1>1. PICK k \in Int : a = b + k * (m * c)
  BY DEF Same
<1>2. k * (m * c) = (k * c) * m /\ k * c \in Int
  OBVIOUS
<1> QED
  BY <1>1, <1>2 DEF Same

\* m numbers in a row have only one that is the same as x.
LEMMA SameIsEqual ==
  ASSUME NEW m \in Nat \ {0}, NEW s \in Int, NEW a \in Int, NEW b \in Int,
         Same(a, b, m), s <= a, a < s + m, s <= b, b < s + m
  PROVE  a = b
<1>1. PICK k \in Int : a = b + k * m
  BY DEF Same
<1>2. CASE k = 0
  BY <1>1, <1>2
<1>3. CASE k >= 1
  <2>1. k * m >= m
    BY <1>3
  <2> QED
    BY <1>1, <2>1
<1>4. CASE k <= -1
  <2>1. k * m <= -m
    BY <1>4
  <2> QED
    BY <1>1, <2>1
<1> QED
  BY <1>2, <1>3, <1>4

\* The conversions of C give the number in the range of the type that is the
\* same.
LEMMA UnsignedSame ==
  ASSUME NEW m \in Nat \ {0}, NEW n \in Int
  PROVE  /\ Unsigned(n, m) \in 0 .. m - 1 /\ Same(Unsigned(n, m), n, m)
         /\ n \in 0 .. m - 1 => Unsigned(n, m) = n
<1>1. n \div m \in Int /\ n % m \in 0 .. m - 1 /\ n = (n \div m) * m + (n % m)
  BY DivMod
<1>2. PICK q \in Int : q = n \div m
  BY <1>1
<1>3. PICK r \in 0 .. m - 1 : r = n % m
  BY <1>1
<1>4. n = q * m + r
  BY <1>1, <1>2, <1>3
<1>5. r = n + (-q) * m /\ -q \in Int
  BY <1>4
<1>6. Same(r, n, m)
  BY <1>5 DEF Same
<1>7. n \in 0 .. m - 1 => r = n
  BY <1>6, SameIsEqual
<1> QED
  BY <1>3, <1>6, <1>7 DEF Unsigned

LEMMA SignedSame ==
  ASSUME NEW h \in Nat \ {0}, NEW n \in Int
  PROVE  /\ Signed(n, 2 * h) \in -h .. h - 1 /\ Same(Signed(n, 2 * h), n, 2 * h)
         /\ n \in -h .. h - 1 => Signed(n, 2 * h) = n
<1>1. 2 * h \in Nat \ {0} /\ (2 * h) \div 2 = h
  OBVIOUS
<1>2. PICK u \in 0 .. 2 * h - 1 : u = n % (2 * h) /\ Same(u, n, 2 * h)
  BY <1>1, UnsignedSame DEF Unsigned
<1>3. Signed(n, 2 * h) = IF u >= h THEN u - 2 * h ELSE u
  BY <1>1, <1>2 DEF Signed
<1>4. PICK s \in Int : s = Signed(n, 2 * h)
  BY <1>3
<1>5. s \in -h .. h - 1
  BY <1>3, <1>4
<1>6. s = u + 0 * (2 * h) \/ s = u + (-1) * (2 * h)
  BY <1>3, <1>4
<1>7. Same(s, u, 2 * h)
  BY <1>6 DEF Same
<1>8. Same(s, n, 2 * h)
  BY <1>1, <1>2, <1>4, <1>7, SameTrans
<1>9. n \in -h .. h - 1 => s = n
  BY <1>1, <1>4, <1>5, <1>8, SameIsEqual
<1> QED
  BY <1>4, <1>5, <1>8, <1>9

-----------------------------------------------------------------------------
(* Numbers and their digits: the definitions by recursion go at most eight *)
(* steps, one for each byte of a word.                                      *)

\* Induction on the bytes of a word.
LEMMA Bytewise ==
  ASSUME NEW S, 0 \in S, \A n \in 0 .. 7 : n \in S => n + 1 \in S
  PROVE  \A n \in 0 .. 8 : n \in S
<1>1. 1 \in S
  <2>1. 0 \in 0 .. 7 /\ 0 + 1 = 1
    OBVIOUS
  <2>2. QED
    BY <2>1
<1>2. 2 \in S
  <2>1. 1 \in 0 .. 7 /\ 1 + 1 = 2
    OBVIOUS
  <2>2. QED
    BY <1>1, <2>1
<1>3. 3 \in S
  <2>1. 2 \in 0 .. 7 /\ 2 + 1 = 3
    OBVIOUS
  <2>2. QED
    BY <1>2, <2>1
<1>4. 4 \in S
  <2>1. 3 \in 0 .. 7 /\ 3 + 1 = 4
    OBVIOUS
  <2>2. QED
    BY <1>3, <2>1
<1>5. 5 \in S
  <2>1. 4 \in 0 .. 7 /\ 4 + 1 = 5
    OBVIOUS
  <2>2. QED
    BY <1>4, <2>1
<1>6. 6 \in S
  <2>1. 5 \in 0 .. 7 /\ 5 + 1 = 6
    OBVIOUS
  <2>2. QED
    BY <1>5, <2>1
<1>7. 7 \in S
  <2>1. 6 \in 0 .. 7 /\ 6 + 1 = 7
    OBVIOUS
  <2>2. QED
    BY <1>6, <2>1
<1>8. 8 \in S
  <2>1. 7 \in 0 .. 7 /\ 7 + 1 = 8
    OBVIOUS
  <2>2. QED
    BY <1>7, <2>1
<1>9. \A n \in 0 .. 8 : n = 0 \/ n = 1 \/ n = 2 \/ n = 3 \/ n = 4 \/ n = 5 \/ n = 6 \/ n = 7 \/ n = 8
  OBVIOUS
<1> QED
  BY <1>1, <1>2, <1>3, <1>4, <1>5, <1>6, <1>7, <1>8, <1>9

\* The recursion of Span.
Spans(f, w) == f = [i \in 0 .. w |-> IF i = 0 THEN 1 ELSE f[i - 1] * Base]

LEMMA SpansAt ==
  ASSUME NEW f, NEW w \in Nat, Spans(f, w)
  PROVE  f[0] = 1 /\ \A i \in 1 .. w : f[i] = f[i - 1] * Base
BY DEF Spans

LEMMA SpansNext ==
  ASSUME NEW n \in Nat, NEW f, Spans(f, n)
  PROVE  \E g : Spans(g, n + 1)
<1> DEFINE g == [i \in 0 .. n + 1 |-> IF i <= n THEN f[i] ELSE f[i - 1] * Base]
<1>1. \A i \in 0 .. n : g[i] = f[i]
  OBVIOUS
<1>2. \A i \in 1 .. n + 1 : g[i - 1] = f[i - 1]
  BY <1>1
<1>3. \A i \in 0 .. n + 1 : g[i] = IF i = 0 THEN 1 ELSE g[i - 1] * Base
  BY <1>2, SpansAt
<1>4. Spans(g, n + 1)
  BY <1>3 DEF Spans
<1> QED
  BY <1>4

LEMMA SpanIs ==
  ASSUME NEW w \in 0 .. 8
  PROVE  \E f : Spans(f, w) /\ Span(w) = f[w]
<1> DEFINE S == {n \in 0 .. 8 : \E f : Spans(f, n)}
<1>1. 0 \in S
  <2>1. Spans([i \in 0 .. 0 |-> 1], 0)
    BY DEF Spans
  <2>2. 0 \in 0 .. 8
    OBVIOUS
  <2> QED
    BY <2>1, <2>2
<1>2. \A n \in 0 .. 7 : n \in S => n + 1 \in S
  <2>1. \A n \in 0 .. 7 : n \in Nat /\ n + 1 \in 0 .. 8
    OBVIOUS
  <2> QED
    BY <2>1, SpansNext
<1>3. \E f : Spans(f, w)
  <2> HIDE DEF S
  <2>1. w \in S
    BY <1>1, <1>2, Bytewise
  <2> QED
    BY <2>1 DEF S
<1> QED
  BY <1>3, Zenon DEF Spans, Span

\* Two unfoldings of the recursion agree.
LEMMA SpansAgree ==
  ASSUME NEW n \in 0 .. 7, NEW f, NEW g, Spans(f, n), Spans(g, n + 1)
  PROVE  f[n] = g[n]
<1> DEFINE S == {i \in 0 .. 8 : i <= n => f[i] = g[i]}
<1>1. 0 \in S
  BY SpansAt
<1>2. ASSUME NEW i \in 0 .. 7, i \in S PROVE i + 1 \in S
  <2>1. CASE i + 1 <= n
    <3>1. f[i] = g[i]
      BY <1>2, <2>1
    <3>2. i + 1 \in 1 .. n /\ i + 1 \in 1 .. n + 1 /\ (i + 1) - 1 = i /\ n + 1 \in Nat /\ n \in Nat
      BY <2>1
    <3>3. f[i + 1] = f[i] * Base
      BY <3>2, SpansAt
    <3>4. g[i + 1] = g[i] * Base
      BY <3>2, SpansAt
    <3> QED
      BY <3>1, <3>3, <3>4
  <2>2. CASE ~(i + 1 <= n)
    BY <2>2
  <2> QED
    BY <2>1, <2>2
<1> HIDE DEF S
<1>3. n \in S
  BY <1>1, <1>2, Bytewise
<1> QED
  BY <1>3 DEF S

LEMMA SpanStep ==
  /\ Span(0) = 1
  /\ \A n \in 0 .. 7 : Span(n + 1) = Span(n) * Base
<1>1. Span(0) = 1
  <2>1. PICK f : Spans(f, 0) /\ Span(0) = f[0]
    BY SpanIs
  <2> QED
    BY <2>1, SpansAt
<1>2. ASSUME NEW n \in 0 .. 7 PROVE Span(n + 1) = Span(n) * Base
  <2>1. PICK f : Spans(f, n) /\ Span(n) = f[n]
    BY SpanIs
  <2>2. PICK g : Spans(g, n + 1) /\ Span(n + 1) = g[n + 1]
    BY SpanIs
  <2>3. f[n] = g[n]
    BY <2>1, <2>2, SpansAgree
  <2>4. g[n + 1] = g[n] * Base
    <3>1. n + 1 \in 1 .. n + 1 /\ (n + 1) - 1 = n /\ n + 1 \in Nat
      OBVIOUS
    <3> QED
      BY <2>2, <3>1, SpansAt
  <2> QED
    BY <2>1, <2>2, <2>3, <2>4
<1> QED
  BY <1>1, <1>2

\* Sizes of the C types.
LEMMA SpanNat ==
  ASSUME NEW n \in 0 .. 8
  PROVE  Span(n) \in Nat \ {0}
<1> DEFINE S == {k \in 0 .. 8 : Span(k) \in Nat \ {0}}
<1>1. 0 \in S
  BY SpanStep
<1>2. ASSUME NEW k \in 0 .. 7, k \in S PROVE k + 1 \in S
  <2>1. Span(k + 1) = Span(k) * Base /\ Span(k) \in Nat \ {0} /\ Base \in Nat \ {0}
    BY <1>2, SpanStep, EndianAssumption
  <2> QED
    BY <2>1
<1> HIDE DEF S
<1>3. n \in S
  BY <1>1, <1>2, Bytewise
<1> QED
  BY <1>3 DEF S

\* The recursion of Number.
Sums(d, w, f, n) == f = [i \in 0 .. n |-> IF i = 0 THEN 0 ELSE f[i - 1] * Base + d[w - i]]

LEMMA SumsAt ==
  ASSUME NEW d, NEW w \in Nat, NEW f, NEW n \in Nat, Sums(d, w, f, n)
  PROVE  f[0] = 0 /\ \A i \in 1 .. n : f[i] = f[i - 1] * Base + d[w - i]
BY DEF Sums

LEMMA SumsNext ==
  ASSUME NEW d, NEW w \in Nat, NEW n \in Nat, NEW f, Sums(d, w, f, n)
  PROVE  \E g : Sums(d, w, g, n + 1)
<1> DEFINE g == [i \in 0 .. n + 1 |-> IF i <= n THEN f[i] ELSE f[i - 1] * Base + d[w - i]]
<1>1. \A i \in 0 .. n : g[i] = f[i]
  OBVIOUS
<1>2. \A i \in 1 .. n + 1 : g[i - 1] = f[i - 1]
  BY <1>1
<1>3. \A i \in 0 .. n + 1 : g[i] = IF i = 0 THEN 0 ELSE g[i - 1] * Base + d[w - i]
  BY <1>2, SumsAt
<1>4. Sums(d, w, g, n + 1)
  BY <1>3 DEF Sums
<1> QED
  BY <1>4

LEMMA NumberIs ==
  ASSUME NEW d, NEW w \in 0 .. 8
  PROVE  \E f : Sums(d, w, f, w) /\ Number(d, w) = f[w]
<1> DEFINE S == {n \in 0 .. 8 : \E f : Sums(d, w, f, n)}
<1>1. 0 \in S
  <2>1. Sums(d, w, [i \in 0 .. 0 |-> 0], 0)
    BY DEF Sums
  <2>2. 0 \in 0 .. 8
    OBVIOUS
  <2> QED
    BY <2>1, <2>2
<1>2. \A n \in 0 .. 7 : n \in S => n + 1 \in S
  <2>1. \A n \in 0 .. 7 : n \in Nat /\ n + 1 \in 0 .. 8
    OBVIOUS
  <2> QED
    BY <2>1, SumsNext
<1>3. \E f : Sums(d, w, f, w)
  <2> HIDE DEF S
  <2>1. w \in S
    BY <1>1, <1>2, Bytewise
  <2> QED
    BY <2>1 DEF S
<1> QED
  BY <1>3, Zenon DEF Sums, Number

\* The recursion of Digits.
Rests(x, f, n) == f = [i \in 0 .. n |-> IF i = 0 THEN x ELSE f[i - 1] \div Base]

LEMMA RestsAt ==
  ASSUME NEW x, NEW f, NEW n \in Nat, Rests(x, f, n)
  PROVE  f[0] = x /\ \A i \in 1 .. n : f[i] = f[i - 1] \div Base
BY DEF Rests

LEMMA RestsNext ==
  ASSUME NEW x, NEW n \in Nat, NEW f, Rests(x, f, n)
  PROVE  \E g : Rests(x, g, n + 1)
<1> DEFINE g == [i \in 0 .. n + 1 |-> IF i <= n THEN f[i] ELSE f[i - 1] \div Base]
<1>1. \A i \in 0 .. n : g[i] = f[i]
  OBVIOUS
<1>2. \A i \in 1 .. n + 1 : g[i - 1] = f[i - 1]
  BY <1>1
<1>3. \A i \in 0 .. n + 1 : g[i] = IF i = 0 THEN x ELSE g[i - 1] \div Base
  BY <1>2, RestsAt
<1>4. Rests(x, g, n + 1)
  BY <1>3 DEF Rests
<1> QED
  BY <1>4

LEMMA DigitsIs ==
  ASSUME NEW x, NEW w \in 0 .. 8
  PROVE  \E f : Rests(x, f, w) /\ Digits(x, w) = [i \in 0 .. w - 1 |-> f[i] % Base]
<1> DEFINE S == {n \in 0 .. 8 : \E f : Rests(x, f, n)}
<1>1. 0 \in S
  <2>1. Rests(x, [i \in 0 .. 0 |-> x], 0)
    BY DEF Rests
  <2>2. 0 \in 0 .. 8
    OBVIOUS
  <2> QED
    BY <2>1, <2>2
<1>2. \A n \in 0 .. 7 : n \in S => n + 1 \in S
  <2>1. \A n \in 0 .. 7 : n \in Nat /\ n + 1 \in 0 .. 8
    OBVIOUS
  <2> QED
    BY <2>1, RestsNext
<1>3. \E f : Rests(x, f, w)
  <2> HIDE DEF S
  <2>1. w \in S
    BY <1>1, <1>2, Bytewise
  <2> QED
    BY <2>1 DEF S
<1> QED
  BY <1>3, Zenon DEF Rests, Digits

\* w bytes.
Vectors(w) == [0 .. w - 1 -> 0 .. Base - 1]

\* Partial sums of digits are below the size of their type.
LEMMA SumsBelow ==
  ASSUME NEW w \in 0 .. 8, NEW d \in Vectors(w), NEW f, Sums(d, w, f, w),
         NEW n \in 0 .. w
  PROVE  f[n] \in Nat /\ f[n] < Span(n)
<1> DEFINE S == {i \in 0 .. 8 : i <= w => f[i] \in Nat /\ f[i] < Span(i)}
<1>1. 0 \in S
  <2>1. w \in Nat
    OBVIOUS
  <2>2. f[0] = 0
    BY <2>1, SumsAt
  <2>3. Span(0) = 1
    BY SpanStep
  <2> QED
    BY <2>2, <2>3
<1>2. ASSUME NEW i \in 0 .. 7, i \in S PROVE i + 1 \in S
  <2>1. CASE i + 1 <= w
    <3>1. f[i] \in Nat /\ f[i] < Span(i)
      BY <1>2, <2>1
    <3>2. i + 1 \in 1 .. w /\ (i + 1) - 1 = i /\ w - (i + 1) \in 0 .. w - 1 /\ w \in Nat
      BY <2>1
    <3>3. f[i + 1] = f[i] * Base + d[w - (i + 1)]
      BY <3>2, SumsAt
    <3>4. d[w - (i + 1)] \in 0 .. Base - 1
      BY <3>2 DEF Vectors
    <3>5. Span(i) \in Nat /\ Span(i + 1) = Span(i) * Base /\ i \in 0 .. 8
      BY SpanNat, SpanStep
    <3>6. Base \in Nat \ {0}
      BY EndianAssumption
    <3>7. f[i + 1] \in Nat /\ f[i + 1] < Span(i + 1)
      BY <3>1, <3>3, <3>4, <3>5, <3>6, Grow
    <3> QED
      BY <3>7
  <2>2. CASE ~(i + 1 <= w)
    BY <2>2
  <2> QED
    BY <2>1, <2>2
<1> HIDE DEF S
<1>3. n \in S
  BY <1>1, <1>2, Bytewise
<1> QED
  BY <1>3 DEF S

LEMMA NumberBound ==
  ASSUME NEW w \in 0 .. 8, NEW d \in Vectors(w)
  PROVE  Number(d, w) \in 0 .. Span(w) - 1
<1>1. PICK f : Sums(d, w, f, w) /\ Number(d, w) = f[w]
  BY NumberIs
<1>2. f[w] \in Nat /\ f[w] < Span(w) /\ Span(w) \in Nat
  BY <1>1, SumsBelow, SpanNat
<1> QED
  BY <1>1, <1>2

\* What is left of a number after n digits.
LEMMA RestsBelow ==
  ASSUME NEW w \in 0 .. 8, NEW x \in Nat, x < Span(w), NEW f, Rests(x, f, w),
         NEW n \in 0 .. w
  PROVE  f[n] \in Nat /\ f[n] < Span(w - n)
<1> DEFINE S == {i \in 0 .. 8 : i <= w => f[i] \in Nat /\ f[i] < Span(w - i)}
<1>1. 0 \in S
  <2>1. w - 0 = w /\ 0 \in 0 .. 8
    OBVIOUS
  <2> QED
    BY <2>1, RestsAt
<1>2. ASSUME NEW i \in 0 .. 7, i \in S PROVE i + 1 \in S
  <2>1. CASE i + 1 <= w
    <3>1. f[i] \in Nat /\ f[i] < Span(w - i)
      BY <1>2, <2>1
    <3>2. i + 1 \in 1 .. w /\ (i + 1) - 1 = i /\ w \in Nat /\ w - (i + 1) \in 0 .. 7
          /\ (w - (i + 1)) + 1 = w - i /\ w - (i + 1) \in 0 .. 8
      BY <2>1
    <3>3. f[i + 1] = f[i] \div Base
      BY <3>2, RestsAt
    <3>5. Span(w - (i + 1)) \in Nat /\ Span(w - i) = Span(w - (i + 1)) * Base
      BY <3>2, SpanNat, SpanStep
    <3>6. Base \in Nat \ {0}
      BY EndianAssumption
    <3>7. f[i + 1] \in Nat /\ f[i + 1] < Span(w - (i + 1))
      BY <3>1, <3>3, <3>5, <3>6, DivNat, Shrink
    <3> QED
      BY <3>7
  <2>2. CASE ~(i + 1 <= w)
    BY <2>2
  <2> QED
    BY <2>1, <2>2
<1> HIDE DEF S
<1>3. n \in S
  BY <1>1, <1>2, Bytewise
<1> QED
  BY <1>3 DEF S

LEMMA DigitsBytes ==
  ASSUME NEW w \in 0 .. 8, NEW x \in Nat, x < Span(w)
  PROVE  Digits(x, w) \in Vectors(w)
<1>1. PICK f : Rests(x, f, w) /\ Digits(x, w) = [i \in 0 .. w - 1 |-> f[i] % Base]
  BY DigitsIs
<1>2. ASSUME NEW i \in 0 .. w - 1 PROVE f[i] % Base \in 0 .. Base - 1
  <2>1. i \in 0 .. w
    OBVIOUS
  <2>2. f[i] \in Int
    BY <1>1, <2>1, RestsBelow
  <2> QED
    BY <2>2, DivMod, EndianAssumption
<1> QED
  BY <1>1, <1>2 DEF Vectors

\* A number is the one of its digits.
LEMMA NumberDigits ==
  ASSUME NEW w \in 0 .. 8, NEW x \in Nat, x < Span(w)
  PROVE  Number(Digits(x, w), w) = x
<1>1. PICK f : Rests(x, f, w) /\ Digits(x, w) = [i \in 0 .. w - 1 |-> f[i] % Base]
  BY DigitsIs
<1>2. PICK d : d = Digits(x, w)
  OBVIOUS
<1>3. PICK g : Sums(d, w, g, w) /\ Number(d, w) = g[w]
  BY NumberIs
<1> DEFINE S == {i \in 0 .. 8 : i <= w => g[i] = f[w - i]}
<1>4. 0 \in S
  <2>1. w \in 0 .. w /\ w - 0 = w /\ w - w = 0 /\ 0 \in 0 .. 8 /\ w \in Nat
    OBVIOUS
  <2>2. f[w] \in Nat /\ f[w] < 1
    BY <1>1, <2>1, RestsBelow, SpanStep
  <2>3. g[0] = 0
    BY <1>3, <2>1, SumsAt
  <2>4. f[w - 0] = 0
    BY <2>1, <2>2
  <2> QED
    BY <2>1, <2>3, <2>4
<1>5. ASSUME NEW i \in 0 .. 7, i \in S PROVE i + 1 \in S
  <2>1. CASE i + 1 <= w
    <3>0. i + 1 \in 0 .. 8 /\ i \in 0 .. 8 /\ i <= w
      BY <2>1
    <3>1. g[i] = f[w - i]
      BY <1>5, <3>0
    <3>2. PICK j \in 0 .. w - 1 : j = w - (i + 1)
      BY <2>1
    <3>3. i + 1 \in 1 .. w /\ (i + 1) - 1 = i /\ w \in Nat /\ j + 1 = w - i /\ j + 1 \in 1 .. w
          /\ (j + 1) - 1 = j /\ j \in 0 .. w
      BY <2>1, <3>2
    <3>4. g[i + 1] = g[i] * Base + d[j]
      BY <1>3, <3>2, <3>3, SumsAt
    <3>5. f[j + 1] = f[j] \div Base
      BY <1>1, <3>3, RestsAt
    <3>6. d[j] = f[j] % Base
      BY <1>1, <1>2
    <3>7. f[j] \in Int
      BY <1>1, <3>3, RestsBelow
    <3>8. f[j] = (f[j] \div Base) * Base + (f[j] % Base)
      BY <3>7, DivMod, EndianAssumption
    <3>9. g[i + 1] = f[j]
      BY <3>1, <3>3, <3>4, <3>5, <3>6, <3>8
    <3> QED
      BY <3>0, <3>2, <3>9
  <2>2. CASE ~(i + 1 <= w)
    BY <2>2
  <2> QED
    BY <2>1, <2>2
<1> HIDE DEF S
<1>6. w \in S
  BY <1>4, <1>5, Bytewise
<1>7. g[w] = f[0]
  <2>1. w - w = 0
    OBVIOUS
  <2> QED
    BY <1>6, <2>1 DEF S
<1>8. f[0] = x
  BY <1>1, RestsAt
<1> QED
  BY <1>2, <1>3, <1>7, <1>8

\* Bytes are the digits of their number.
LEMMA DigitsNumber ==
  ASSUME NEW w \in 0 .. 8, NEW d \in Vectors(w)
  PROVE  Digits(Number(d, w), w) = d
<1>1. PICK g : Sums(d, w, g, w) /\ Number(d, w) = g[w]
  BY NumberIs
<1>2. PICK x : x = g[w]
  OBVIOUS
<1>3. PICK f : Rests(x, f, w) /\ Digits(x, w) = [i \in 0 .. w - 1 |-> f[i] % Base]
  BY DigitsIs
<1>a. ASSUME NEW j \in 0 .. w - 1
      PROVE  g[w - j] \div Base = g[w - (j + 1)] /\ g[w - j] % Base = d[j]
  <2>1. PICK n \in 0 .. w - 1 : n = w - (j + 1)
    OBVIOUS
  <2>2. n + 1 = w - j /\ n + 1 \in 1 .. w /\ (n + 1) - 1 = n /\ w - (n + 1) = j /\ n \in 0 .. w
        /\ w \in Nat
    BY <2>1
  <2>3. g[n + 1] = g[n] * Base + d[j]
    BY <1>1, <2>2, SumsAt
  <2>4. g[n] \in Int
    BY <1>1, <2>2, SumsBelow
  <2>5. d[j] \in 0 .. Base - 1
    BY DEF Vectors
  <2>6. g[n + 1] \div Base = g[n] /\ g[n + 1] % Base = d[j]
    <3>1. Base \in Nat \ {0}
      BY EndianAssumption
    <3>2. (g[n] * Base + d[j]) \div Base = g[n] /\ (g[n] * Base + d[j]) % Base = d[j]
      BY <2>4, <2>5, <3>1, Unpack
    <3> QED
      BY <2>3, <3>2
  <2> QED
    BY <2>1, <2>2, <2>6
<1> DEFINE S == {i \in 0 .. 8 : i <= w => f[i] = g[w - i]}
<1>4. 0 \in S
  <2>1. w - 0 = w /\ 0 \in 0 .. 8 /\ w \in Nat
    OBVIOUS
  <2> QED
    BY <1>2, <1>3, <2>1, RestsAt
<1>5. ASSUME NEW i \in 0 .. 7, i \in S PROVE i + 1 \in S
  <2>1. CASE i + 1 <= w
    <3>0. i + 1 \in 0 .. 8 /\ i \in 0 .. 8 /\ i <= w /\ i + 1 \in 1 .. w /\ (i + 1) - 1 = i
          /\ i \in 0 .. w - 1 /\ w \in Nat
      BY <2>1
    <3>1. f[i] = g[w - i]
      BY <1>5, <3>0
    <3>2. f[i + 1] = f[i] \div Base
      BY <1>3, <3>0, RestsAt
    <3>3. f[i + 1] = g[w - (i + 1)]
      BY <1>a, <3>0, <3>1, <3>2
    <3> QED
      BY <3>0, <3>3
  <2>2. CASE ~(i + 1 <= w)
    BY <2>2
  <2> QED
    BY <2>1, <2>2
<1> HIDE DEF S
<1>6. ASSUME NEW i \in 0 .. w - 1 PROVE f[i] % Base = d[i]
  <2>1. i \in 0 .. 8 /\ i <= w
    OBVIOUS
  <2>2. i \in S
    BY <1>4, <1>5, <2>1, Bytewise
  <2>3. f[i] = g[w - i]
    BY <2>1, <2>2 DEF S
  <2> QED
    BY <1>a, <2>3
<1>7. d = [i \in 0 .. w - 1 |-> d[i]]
  BY DEF Vectors
<1>8. [i \in 0 .. w - 1 |-> f[i] % Base] = [i \in 0 .. w - 1 |-> d[i]]
  BY <1>6
<1> QED
  BY <1>1, <1>2, <1>3, <1>7, <1>8

LEMMA MirrorTwice ==
  ASSUME NEW w \in 0 .. 8, NEW d \in Vectors(w)
  PROVE  Mirror(d, w) \in Vectors(w) /\ Mirror(Mirror(d, w), w) = d
<1>1. \A i \in 0 .. w - 1 : w - 1 - i \in 0 .. w - 1 /\ w - 1 - (w - 1 - i) = i
  OBVIOUS
<1>2. \A i \in 0 .. w - 1 : Mirror(d, w)[i] = d[w - 1 - i]
  BY DEF Mirror
<1>3. Mirror(d, w) \in Vectors(w)
  BY <1>1 DEF Mirror, Vectors
<1>4. \A i \in 0 .. w - 1 : Mirror(d, w)[w - 1 - i] = d[i]
  BY <1>1, <1>2
<1>5. Mirror(Mirror(d, w), w) = [i \in 0 .. w - 1 |-> d[i]]
  BY <1>4 DEF Mirror
<1>6. d = [i \in 0 .. w - 1 |-> d[i]]
  BY DEF Vectors
<1> QED
  BY <1>3, <1>5, <1>6

-----------------------------------------------------------------------------
(* Integers in memory, and conversion between orders. *)

LEMMA LoadBound ==
  ASSUME NEW o, NEW w \in 0 .. 8, NEW d \in Vectors(w)
  PROVE  Load(o, d, w) \in 0 .. Span(w) - 1
BY NumberBound, MirrorTwice DEF Load

LEMMA StoreLoad ==
  ASSUME NEW o, NEW w \in 0 .. 8, NEW d \in Vectors(w)
  PROVE  Store(o, Load(o, d, w), w) = d
BY DigitsNumber, MirrorTwice DEF Load, Store

LEMMA LoadStore ==
  ASSUME NEW o, NEW w \in 0 .. 8, NEW x \in Nat, x < Span(w)
  PROVE  Store(o, x, w) \in Vectors(w) /\ Load(o, Store(o, x, w), w) = x
BY DigitsBytes, NumberDigits, MirrorTwice DEF Load, Store

\* An integer read in the machine's order and converted is the one read in
\* the function's order, and converted again it is the machine's.
LEMMA ConvLoad ==
  ASSUME host \in {"big", "little"}, NEW o \in Orders, NEW w \in 0 .. 8,
         NEW d \in Vectors(w)
  PROVE  /\ conv(o, Load(host, d, w), w) = Load(Resolve(o), d, w)
         /\ conv(o, Load(Resolve(o), d, w), w) = Load(host, d, w)
<1>1. CASE o \in {"host", host}
  <2>1. Resolve(o) = host
    BY <1>1 DEF Resolve
  <2> QED
    BY <1>1, <2>1 DEF conv
<1>2. CASE o \notin {"host", host}
  <2>1. Resolve(o) = o /\ ((o = "big" /\ host = "little") \/ (o = "little" /\ host = "big"))
    BY <1>2 DEF Resolve, Orders
  <2>2. \A x : conv(o, x, w) = bswap(x, w)
    BY <1>2 DEF conv
  <2>3. bswap(Number(d, w), w) = Number(Mirror(d, w), w)
    BY DigitsNumber DEF bswap
  <2>4. bswap(Number(Mirror(d, w), w), w) = Number(d, w)
    BY DigitsNumber, MirrorTwice DEF bswap
  <2>5. Load("little", d, w) = Number(d, w) /\ Load("big", d, w) = Number(Mirror(d, w), w)
    BY DEF Load
  <2> QED
    BY <2>1, <2>2, <2>3, <2>4, <2>5
<1> QED
  BY <1>1, <1>2

\* An integer converted and written in the machine's order is the one written
\* in the function's order.
LEMMA ConvStore ==
  ASSUME host \in {"big", "little"}, NEW o \in Orders, NEW w \in 0 .. 8,
         NEW x \in Nat, x < Span(w)
  PROVE  Store(host, conv(o, x, w), w) = Store(Resolve(o), x, w)
<1>1. PICK d \in Vectors(w) : d = Store(Resolve(o), x, w)
  BY LoadStore
<1>2. Load(Resolve(o), d, w) = x
  BY <1>1, LoadStore
<1>3. conv(o, x, w) = Load(host, d, w)
  BY <1>2, ConvLoad
<1> QED
  BY <1>1, <1>3, StoreLoad

-----------------------------------------------------------------------------
(* The types. *)

\* Every type has an even number of values, an OCaml int half the ones of a
\* word, and at least twice the ones of a shorter type.
LEMMA Sizes ==
  /\ \A w \in {1, 2, 4, 8} : \E h \in Nat \ {0} : Span(w) = 2 * h
  /\ \E h \in Nat \ {0} : /\ IntSpan = 2 * h /\ Span(8) = IntSpan * 2
                          /\ \A w \in {1, 2, 4} : Span(w) <= h
<1>1. PICK q \in Nat \ {0} : Base = 4 * q
  <2>1. Base \in Nat \ {0} /\ Base % 4 = 0
    BY EndianAssumption
  <2>2. Base = 4 * (Base \div 4) /\ Base \div 4 \in Nat \ {0}
    BY <2>1
  <2> QED
    BY <2>2
<1>2. \A n \in 0 .. 7 : Span(n) \in Nat \ {0} /\ Span(n + 1) = Span(n) * (4 * q)
  <2>1. \A n \in 0 .. 7 : n \in 0 .. 8
    OBVIOUS
  <2> QED
    BY <1>1, <2>1, SpanNat, SpanStep
<1>3. ASSUME NEW p \in Nat \ {0}
      PROVE  /\ p * (4 * q) = 2 * (2 * (p * q)) /\ 2 * (p * q) \in Nat \ {0}
             /\ p * q \in Nat \ {0} /\ p <= p * (4 * q) /\ p <= p * q
  OBVIOUS
<1>4. ASSUME NEW w \in {1, 2, 4, 8} PROVE \E h \in Nat \ {0} : Span(w) = 2 * h
  <2>1. w - 1 \in 0 .. 7 /\ (w - 1) + 1 = w
    OBVIOUS
  <2>2. Span(w) = Span(w - 1) * (4 * q) /\ Span(w - 1) \in Nat \ {0}
    BY <1>2, <2>1
  <2>3. Span(w) = 2 * (2 * (Span(w - 1) * q)) /\ 2 * (Span(w - 1) * q) \in Nat \ {0}
    BY <1>3, <2>2
  <2> QED
    BY <2>3
<1>5. PICK p \in Nat \ {0} : p = Span(7)
  BY <1>2
<1>6. PICK h \in Nat \ {0} : h = p * q
  BY <1>3
<1>7. Span(8) = 2 * (2 * h) /\ p <= h
  <2>1. 7 \in 0 .. 7 /\ 7 + 1 = 8
    OBVIOUS
  <2>2. Span(8) = p * (4 * q)
    BY <1>2, <1>5, <2>1
  <2> QED
    BY <1>3, <1>6, <2>2
<1>8. IntSpan = 2 * h /\ Span(8) = IntSpan * 2
  <2>1. (2 * (2 * h)) \div 2 = 2 * h /\ 2 * (2 * h) = (2 * h) * 2
    OBVIOUS
  <2> QED
    BY <1>7, <2>1 DEF IntSpan
<1>9. \A n \in 0 .. 7 : Span(n) <= Span(n + 1)
  BY <1>2, <1>3
<1>10. Span(1) <= Span(2) /\ Span(2) <= Span(3) /\ Span(3) <= Span(4)
  <2>1. 1 \in 0 .. 7 /\ 2 \in 0 .. 7 /\ 3 \in 0 .. 7 /\ 1 + 1 = 2 /\ 2 + 1 = 3 /\ 3 + 1 = 4
    OBVIOUS
  <2> QED
    BY <1>9, <2>1
<1>11. Span(4) <= Span(5) /\ Span(5) <= Span(6) /\ Span(6) <= Span(7)
  <2>1. 4 \in 0 .. 7 /\ 5 \in 0 .. 7 /\ 6 \in 0 .. 7 /\ 4 + 1 = 5 /\ 5 + 1 = 6 /\ 6 + 1 = 7
    OBVIOUS
  <2> QED
    BY <1>9, <2>1
<1>12. \A n \in 1 .. 7 : Span(n) \in Nat
  <2>1. \A n \in 1 .. 7 : n \in 0 .. 7
    OBVIOUS
  <2> QED
    BY <1>2, <2>1
<1>13. /\ Span(1) \in Nat /\ Span(2) \in Nat /\ Span(3) \in Nat /\ Span(4) \in Nat
       /\ Span(5) \in Nat /\ Span(6) \in Nat
  BY <1>12
<1>14. Span(1) <= h /\ Span(2) <= h /\ Span(4) <= h
  BY <1>5, <1>7, <1>10, <1>11, <1>13
<1>15. \A w \in {1, 2, 4} : Span(w) <= h
  BY <1>14
<1> QED
  BY <1>4, <1>8, <1>15

\* The shapes the types have.
LEMMA Shapes ==
  ASSUME NEW X \in Types
  PROVE  /\ X.w \in {1, 2, 4, 8} /\ X.w \in 0 .. 8
         /\ X.boxed => X.signed
         /\ X \in ConvTypes => X.boxed \/ X.w \in {1, 2, 4}
         /\ X.w = 8 \/ X.w \in {1, 2, 4}
<1>1. X.w \in {1, 2, 4, 8}
  BY DEF Types, Type, uint8, int8, uint16, int16, uint31, int31, int32, uint63, int63, int64
<1>2. X.boxed => X.signed
  BY DEF Types, Type, uint8, int8, uint16, int16, uint31, int31, int32, uint63, int63, int64
<1>3. X \in ConvTypes => X.boxed \/ X.w \in {1, 2, 4}
  BY DEF ConvTypes, Type, uint16, int16, uint31, int31, int32, int64
<1> QED
  BY <1>1, <1>2, <1>3

\* Assignment to a variable of type X keeps the number up to a multiple of
\* the type's size, and brings it in the type's range.
LEMMA AsSame ==
  ASSUME NEW X \in Types, NEW h \in Nat \ {0}, Span(X.w) = 2 * h, NEW n \in Int
  PROVE  /\ As(X, n) \in Int /\ Same(As(X, n), n, Span(X.w))
         /\ X.signed => -h <= As(X, n) /\ As(X, n) < h
         /\ ~X.signed => 0 <= As(X, n) /\ As(X, n) < 2 * h
<1>1. 2 * h \in Nat \ {0}
  OBVIOUS
<1>2. CASE X.signed
  <2>1. As(X, n) = Signed(n, 2 * h)
    BY <1>2 DEF As
  <2>2. Signed(n, 2 * h) \in -h .. h - 1 /\ Same(Signed(n, 2 * h), n, 2 * h)
    BY SignedSame
  <2> QED
    BY <1>2, <2>1, <2>2
<1>3. CASE ~X.signed
  <2>1. As(X, n) = Unsigned(n, 2 * h)
    BY <1>3 DEF As
  <2>2. Unsigned(n, 2 * h) \in 0 .. 2 * h - 1 /\ Same(Unsigned(n, 2 * h), n, 2 * h)
    BY <1>1, UnsignedSame
  <2> QED
    BY <1>3, <2>1, <2>2
<1> QED
  BY <1>2, <1>3

\* Numbers that differ by a multiple of the size are assigned the same value.
LEMMA AsEqual ==
  ASSUME NEW X \in Types, NEW a \in Int, NEW b \in Int, Same(a, b, Span(X.w))
  PROVE  As(X, a) = As(X, b)
<1>1. PICK h \in Nat \ {0} : Span(X.w) = 2 * h
  BY Sizes, Shapes
<1>2. PICK p \in Int : p = As(X, a)
  BY <1>1, AsSame
<1>3. PICK q \in Int : q = As(X, b)
  BY <1>1, AsSame
<1>4. Same(p, a, 2 * h) /\ Same(q, b, 2 * h) /\ Same(a, b, 2 * h) /\ 2 * h \in Nat \ {0}
  BY <1>1, <1>2, <1>3, AsSame
<1>5. Same(b, q, 2 * h)
  BY <1>4, SameMod
<1>6. Same(p, b, 2 * h)
  BY <1>4, SameTrans
<1>7. Same(p, q, 2 * h)
  BY <1>4, <1>5, <1>6, SameTrans
<1>8. CASE X.signed
  <2>1. -h <= p /\ p < h /\ -h <= q /\ q < h
    BY <1>1, <1>2, <1>3, <1>8, AsSame
  <2>2. -h \in Int /\ p < -h + 2 * h /\ q < -h + 2 * h
    BY <2>1
  <2> QED
    BY <1>2, <1>3, <1>4, <1>7, <2>1, <2>2, SameIsEqual
<1>9. CASE ~X.signed
  <2>1. 0 <= p /\ p < 2 * h /\ 0 <= q /\ q < 2 * h
    BY <1>1, <1>2, <1>3, <1>9, AsSame
  <2>2. 0 \in Int /\ p < 0 + 2 * h /\ q < 0 + 2 * h
    BY <2>1
  <2> QED
    BY <1>2, <1>3, <1>4, <1>7, <2>1, <2>2, SameIsEqual
<1> QED
  BY <1>8, <1>9

\* The bits of a C variable are the ones of what was assigned.
LEMMA UnsignedAs ==
  ASSUME NEW X \in Types, NEW n \in 0 .. Span(X.w) - 1
  PROVE  Unsigned(As(X, n), Span(X.w)) = n
<1>1. PICK h \in Nat \ {0} : Span(X.w) = 2 * h
  BY Sizes, Shapes
<1>2. PICK p \in Int : p = As(X, n) /\ Same(p, n, 2 * h)
  BY <1>1, AsSame
<1>3. 2 * h \in Nat \ {0}
  OBVIOUS
<1>4. PICK u \in Int : u = Unsigned(p, 2 * h) /\ u \in 0 .. 2 * h - 1 /\ Same(u, p, 2 * h)
  BY <1>3, UnsignedSame
<1>5. Same(u, n, 2 * h)
  BY <1>1, <1>2, <1>3, <1>4, SameTrans
<1>6. u = n
  <2>1. 0 \in Int /\ 0 <= u /\ u < 0 + 2 * h /\ 0 <= n /\ n < 0 + 2 * h /\ n \in Int
    BY <1>1, <1>4
  <2> QED
    BY <1>3, <1>4, <1>5, <2>1, SameIsEqual
<1> QED
  BY <1>1, <1>2, <1>4, <1>6

\* Val_long keeps what a type shorter than a word holds, and caml_copy_intN
\* everything.
LEMMA BoxKeeps ==
  ASSUME NEW X \in Types, X.boxed \/ X.w \in {1, 2, 4}, NEW n \in Int
  PROVE  Box(X, As(X, n)) = As(X, n)
<1>1. CASE X.boxed
  BY <1>1 DEF Box
<1>2. CASE ~X.boxed
  <2>1. PICK h \in Nat \ {0} : Span(X.w) = 2 * h
    BY Sizes, Shapes
  <2>2. PICK k \in Nat \ {0} : IntSpan = 2 * k /\ \A w \in {1, 2, 4} : Span(w) <= k
    BY Sizes
  <2>3. 2 * h <= k
    BY <1>2, <2>1, <2>2
  <2>4. PICK a \in Int : a = As(X, n)
    BY <2>1, AsSame
  <2>5. -h <= a /\ a < 2 * h
    BY <2>1, <2>4, AsSame, Shapes
  <2>6. a \in -k .. k - 1
    BY <2>3, <2>5
  <2>7. Signed(a, 2 * k) = a
    BY <2>6, SignedSame
  <2> QED
    BY <1>2, <2>2, <2>4, <2>7 DEF Box
<1> QED
  BY <1>1, <1>2, Shapes

\* A number assigned to type X and made an OCaml value is that number, as far
\* as the type can tell.
LEMMA BoxAs ==
  ASSUME NEW X \in Types, NEW n \in Int
  PROVE  Represents(X, Box(X, As(X, n)), n)
<1>1. PICK h \in Nat \ {0} : Span(X.w) = 2 * h
  BY Sizes, Shapes
<1>2. PICK a \in Int : /\ a = As(X, n) /\ Same(a, n, 2 * h)
                       /\ X.signed => -h <= a /\ a < h
                       /\ ~X.signed => 0 <= a /\ a < 2 * h
  BY <1>1, AsSame
<1>3. 2 * h \in Nat \ {0} /\ (2 * h) \div 2 = h
  OBVIOUS
<1>4. CASE X.boxed \/ X.w \in {1, 2, 4}
  <2>1. Box(X, a) = a
    BY <1>2, <1>4, BoxKeeps
  <2>2. (a - n) % (2 * h) = 0
    BY <1>2, <1>3, SameMod
  <2>3. ~(X.w = 8 /\ ~X.boxed)
    BY <1>4
  <2>4. X.w = 8 => X.signed
    BY <2>3, Shapes
  <2>5. IF X.signed \/ X.w = 8 THEN -h <= a /\ a < h ELSE 0 <= a /\ a < 2 * h
    BY <1>2, <2>4
  <2> QED
    BY <1>1, <1>2, <1>3, <2>1, <2>2, <2>3, <2>5 DEF Represents
<1>5. CASE X.w = 8 /\ ~X.boxed
  <2>1. PICK k \in Nat \ {0} : IntSpan = 2 * k /\ Span(8) = IntSpan * 2
    BY Sizes
  <2>2. 2 * k \in Nat \ {0} /\ (2 * k) \div 2 = k
    OBVIOUS
  <2>3. PICK r \in Int : r = Signed(a, 2 * k) /\ r \in -k .. k - 1 /\ Same(r, a, 2 * k)
    BY SignedSame
  <2>4. Same(a, n, 2 * k)
    <3>1. Same(a, n, (2 * k) * 2)
      BY <1>1, <1>2, <1>5, <2>1
    <3> QED
      BY <2>2, <3>1, SameDivisor
  <2>5. Same(r, n, 2 * k)
    BY <2>2, <2>3, <2>4, SameTrans
  <2>6. (r - n) % (2 * k) = 0
    BY <2>2, <2>5, SameMod
  <2>7. Box(X, a) = r
    BY <1>5, <2>1, <2>3 DEF Box
  <2>8. -k <= r /\ r < k
    BY <2>3
  <2> QED
    BY <1>2, <1>5, <2>1, <2>2, <2>6, <2>7, <2>8 DEF Represents
<1> QED
  BY <1>4, <1>5, Shapes

-----------------------------------------------------------------------------
(* The three stubs. *)

LEMMA GetStub ==
  ASSUME host \in {"big", "little"}, NEW o \in Orders, NEW X \in Types,
         NEW d \in Vectors(X.w)
  PROVE  GET(o, X, d) = Box(X, As(X, Load(Resolve(o), d, X.w)))
<1>1. X.w \in 0 .. 8
  BY Shapes
<1>2. Unsigned(As(X, Load(host, d, X.w)), Span(X.w)) = Load(host, d, X.w)
  BY <1>1, LoadBound, UnsignedAs
<1>3. conv(o, Load(host, d, X.w), X.w) = Load(Resolve(o), d, X.w)
  BY <1>1, ConvLoad
<1> QED
  BY <1>2, <1>3 DEF GET

LEMMA SetStub ==
  ASSUME host \in {"big", "little"}, NEW o \in Orders, NEW X \in Types, NEW v \in Int
  PROVE  /\ SET(o, X, v) = Store(Resolve(o), Unsigned(v, Span(X.w)), X.w)
         /\ SET(o, X, v) \in Vectors(X.w)
<1>1. X.w \in 0 .. 8
  BY Shapes
<1>2. Span(X.w) \in Nat \ {0}
  BY <1>1, SpanNat
<1>3. PICK u \in Nat : u = Unsigned(v, Span(X.w)) /\ u < Span(X.w)
  BY <1>2, UnsignedSame
<1>4. Store(host, conv(o, u, X.w), X.w) = Store(Resolve(o), u, X.w)
  BY <1>1, <1>3, ConvStore
<1>5. Store(Resolve(o), u, X.w) \in Vectors(X.w)
  BY <1>1, <1>3, LoadStore
<1> QED
  BY <1>3, <1>4, <1>5 DEF SET

\* CONV of an integer of X in one order is the integer in the other.
LEMMA ConvStub ==
  ASSUME NEW o, NEW X \in Types, X.boxed \/ X.w \in {1, 2, 4},
         NEW m \in 0 .. Span(X.w) - 1
  PROVE  CONV(o, X, Box(X, As(X, m))) = Box(X, As(X, conv(o, m, X.w)))
<1>1. PICK h \in Nat \ {0} : Span(X.w) = 2 * h
  BY Sizes, Shapes
<1>2. m \in Int
  BY <1>1
<1>3. PICK a \in Int : a = As(X, m) /\ Same(a, m, Span(X.w))
  BY <1>1, <1>2, AsSame
<1>4. Box(X, As(X, m)) = a
  BY <1>2, <1>3, BoxKeeps
<1>5. As(X, a) = As(X, m)
  BY <1>2, <1>3, AsEqual
<1>6. Unsigned(As(X, a), Span(X.w)) = m
  BY <1>5, UnsignedAs
<1> QED
  BY <1>4, <1>6 DEF CONV

LEMMA ConvGet ==
  ASSUME host \in {"big", "little"}, NEW o \in Orders, NEW X \in ConvTypes,
         NEW d \in Vectors(X.w)
  PROVE  /\ CONV(o, X, GET("host", X, d)) = GET(o, X, d)
         /\ CONV(o, X, GET(o, X, d)) = GET("host", X, d)
<1>0. X \in Types
  BY DEF ConvTypes, Types
<1>1. X.w \in 0 .. 8 /\ (X.boxed \/ X.w \in {1, 2, 4})
  BY <1>0, Shapes
<1>2. PICK m \in 0 .. Span(X.w) - 1 : m = Load(host, d, X.w)
  BY <1>1, LoadBound
<1>3. PICK n \in 0 .. Span(X.w) - 1 : n = Load(Resolve(o), d, X.w)
  BY <1>1, LoadBound
<1>4. conv(o, m, X.w) = n /\ conv(o, n, X.w) = m
  BY <1>1, <1>2, <1>3, ConvLoad
<1>5. GET(o, X, d) = Box(X, As(X, n))
  BY <1>0, <1>3, GetStub
<1>6. GET("host", X, d) = Box(X, As(X, m))
  <2>1. "host" \in Orders /\ Resolve("host") = host
    BY DEF Orders, Resolve
  <2> QED
    BY <1>0, <1>2, <2>1, GetStub
<1> QED
  BY <1>0, <1>1, <1>4, <1>5, <1>6, ConvStub

\* The window of a buffer of bytes.
LEMMA AtBytes ==
  ASSUME \A i \in DOMAIN buf : buf[i] \in 0 .. Base - 1, NEW off, NEW w
  PROVE  At(off, w) \in Vectors(w)
<1>1. 0 \in 0 .. Base - 1
  BY EndianAssumption
<1> QED
  BY <1>1 DEF At, Vectors

\* The properties follow from the invariant.
LEMMA ExactFacts ==
  ASSUME ExactInv
  PROVE  GetIsExact /\ ConvAgrees /\ SetIsExact /\ RoundTrip
<1>1. host \in {"big", "little"} /\ \A i \in DOMAIN buf : buf[i] \in 0 .. Base - 1
  BY DEF ExactInv, EndianTypeOK
<1>2. ASSUME last.op = "get", ~last.raised
      PROVE  /\ last.o \in Orders /\ last.X \in Types /\ last.w = last.X.w
             /\ At(last.off, last.w) \in Vectors(last.X.w)
             /\ last.result = GET(last.o, last.X, At(last.off, last.w))
             /\ last.result = Box(last.X, As(last.X,
                                Load(Resolve(last.o), At(last.off, last.w), last.w)))
  <2>1. /\ last.o \in Orders /\ last.X \in Types /\ last.w = last.X.w
        /\ last.result = GET(last.o, last.X, At(last.off, last.w))
    BY <1>2 DEF ExactInv, GetIsFound
  <2>2. At(last.off, last.w) \in Vectors(last.X.w)
    BY <1>1, <2>1, AtBytes
  <2> QED
    BY <1>1, <2>1, <2>2, GetStub
<1>3. GetIsExact
  <2> SUFFICES ASSUME last.op = "get", ~last.raised
      PROVE  Represents(last.X, last.result, Load(Resolve(last.o), At(last.off, last.w), last.w))
    BY DEF GetIsExact
  <2>1. PICK n \in Int : n = Load(Resolve(last.o), At(last.off, last.w), last.w)
    <3>1. last.w \in 0 .. 8 /\ At(last.off, last.w) \in Vectors(last.w)
      BY <1>2, Shapes
    <3>2. Span(last.w) \in Nat
      BY <3>1, SpanNat
    <3>3. Load(Resolve(last.o), At(last.off, last.w), last.w) \in 0 .. Span(last.w) - 1
      BY <3>1, LoadBound
    <3> QED
      BY <3>2, <3>3
  <2>2. last.X \in Types /\ last.result = Box(last.X, As(last.X, n))
    BY <1>2, <2>1
  <2> QED
    BY <2>1, <2>2, BoxAs
<1>4. ConvAgrees
  <2> SUFFICES ASSUME last.op = "get", ~last.raised, last.X \in ConvTypes
      PROVE  /\ CONV(last.o, last.X, GET("host", last.X, At(last.off, last.w))) = last.result
             /\ CONV(last.o, last.X, last.result) = GET("host", last.X, At(last.off, last.w))
    BY DEF ConvAgrees
  <2> QED
    BY <1>1, <1>2, ConvGet
<1>5. SetIsExact
  BY DEF ExactInv, SetIsKept, StoredIsThere, SetIsExact
<1>6. RoundTrip
  <2> SUFFICES ASSUME last.op = "get", ~last.raised,
                      stored.op = "set", stored.off = last.off, stored.w = last.w,
                      Resolve(stored.o) = Resolve(last.o)
      PROVE  Represents(last.X, last.result, stored.v)
    BY DEF RoundTrip
  <2>1. /\ stored.v \in Int /\ last.X \in Types /\ last.w = last.X.w
        /\ At(last.off, last.w)
             = Store(Resolve(last.o), Unsigned(stored.v, Span(last.w)), last.w)
    BY <1>2 DEF ExactInv, StoredIsThere
  <2>2. last.w \in 0 .. 8
    BY <2>1, Shapes
  <2>3. Span(last.w) \in Nat \ {0}
    BY <2>2, SpanNat
  <2>4. PICK u \in Nat : /\ u = Unsigned(stored.v, Span(last.w)) /\ u < Span(last.w)
                         /\ Same(u, stored.v, Span(last.w))
    BY <2>1, <2>3, UnsignedSame
  <2>5. Load(Resolve(last.o), At(last.off, last.w), last.w) = u
    BY <2>1, <2>2, <2>4, LoadStore
  <2>6. last.result = Box(last.X, As(last.X, u))
    BY <1>2, <2>5
  <2>7. As(last.X, u) = As(last.X, stored.v)
    BY <2>1, <2>4, AsEqual
  <2> QED
    BY <2>1, <2>6, <2>7, BoxAs
<1> QED
  BY <1>3, <1>4, <1>5, <1>6

-----------------------------------------------------------------------------
(* The steps. *)

LEMMA ReadsFields ==
  ASSUME NEW op, NEW o, NEW X, NEW off, NEW w, NEW v
  PROVE  LET c == AccessOf(op, o, X, off, w, v)
         IN  /\ c.op = op /\ c.o = o /\ c.w = w /\ c.off = off /\ c.v = v /\ ~c.raised
             /\ [c EXCEPT !.raised = TRUE].raised
             /\ \A r : LET e == [c EXCEPT !.result = r]
                       IN  /\ e.op = op /\ e.o = o /\ e.X = X /\ e.off = off /\ e.w = w
                           /\ e.result = r
BY DEF AccessOf, NoAccess

\* What was stored stays there while the buffer is left alone.
LEMMA StoredKept ==
  ASSUME StoredIsThere, buf' = buf, host' = host, stored' = stored
  PROVE  StoredIsThere'
<1>1. At(stored.off, stored.w)' = At(stored.off, stored.w)
  BY DEF At
<1>2. Resolve(stored.o)' = Resolve(stored.o)
  BY DEF Resolve
<1>3. Store(Resolve(stored.o), Unsigned(stored.v, Span(stored.w)), stored.w)'
        = Store(Resolve(stored.o), Unsigned(stored.v, Span(stored.w)), stored.w)
  BY <1>2
<1> QED
  BY <1>1, <1>3 DEF StoredIsThere

LEMMA RaisesKeeps ==
  ASSUME ExactInv, Counted, NEW op, NEW o, NEW X, NEW off, NEW w, NEW v,
         Raises(AccessOf(op, o, X, off, w, v))
  PROVE  ExactInv'
<1>1. buf' = buf /\ host' = host /\ kind' = kind /\ stored' = stored /\ earlier' = buf
  BY DEF Raises
<1>2. last'.raised
  BY ReadsFields DEF Raises
<1>3. EndianTypeOK'
  BY <1>1, EndianAssumption DEF ExactInv, EndianTypeOK, Counted
<1>4. GetIsFound' /\ SetIsKept'
  BY <1>2 DEF GetIsFound, SetIsKept
<1>5. StoredIsThere'
  BY <1>1, StoredKept DEF ExactInv
<1> QED
  BY <1>3, <1>4, <1>5 DEF ExactInv

LEMMA GetKeeps ==
  ASSUME ExactInv, NEW o \in Orders, NEW X \in Types, NEW off \in Int, get(o, X, off)
  PROVE  ExactInv'
<1> DEFINE c == AccessOf("get", o, X, off, X.w, 0)
<1>1. CASE Raises(c)
  BY <1>1, RaisesKeeps DEF get
<1>2. CASE /\ last' = [c EXCEPT !.result = GET(o, X, At(off, X.w))]
           /\ earlier' = buf /\ UNCHANGED <<host, kind, buf, stored>>
  <2>1. /\ last'.op = "get" /\ last'.o = o /\ last'.X = X /\ last'.off = off
        /\ last'.w = X.w /\ last'.result = GET(o, X, At(off, X.w))
    BY <1>2, ReadsFields
  <2>2. EndianTypeOK'
    BY <1>2, EndianAssumption DEF ExactInv, EndianTypeOK, get, Counted
  <2>3. At(last.off, last.w)' = At(off, X.w)
    BY <1>2, <2>1 DEF At
  <2>4. GET(last.o, last.X, At(last.off, last.w))' = GET(o, X, At(off, X.w))
    BY <1>2, <2>1, <2>3 DEF GET, conv
  <2>5. GetIsFound'
    BY <2>1, <2>4 DEF GetIsFound
  <2>6. SetIsKept'
    BY <2>1 DEF SetIsKept
  <2>7. StoredIsThere'
    BY <1>2, StoredKept DEF ExactInv
  <2> QED
    BY <2>2, <2>5, <2>6, <2>7 DEF ExactInv
<1> QED
  BY <1>1, <1>2 DEF get

\* Put writes its bytes in the window and nothing else.
LEMMA PutWindow ==
  ASSUME NEW off \in Int, NEW w \in Nat, NEW d \in Vectors(w),
         Window(off, w) \subseteq DOMAIN buf, buf' = Put(off, w, d),
         buf \in [DOMAIN earlier -> 0 .. Base - 1]
  PROVE  /\ buf' \in [DOMAIN buf -> 0 .. Base - 1]
         /\ At(off, w)' = d
         /\ \A i \in DOMAIN buf \ Window(off, w) : buf'[i] = buf[i]
<1>1. \A i \in Window(off, w) : i - off \in 0 .. w - 1
  BY DEF Window
<1>2. \A i \in 0 .. w - 1 : off + i \in Window(off, w) /\ (off + i) - off = i
  BY DEF Window
<1>3. buf' = [i \in DOMAIN buf |-> IF i \in Window(off, w) THEN d[i - off] ELSE buf[i]]
  BY DEF Put
<1>4. buf' \in [DOMAIN buf -> 0 .. Base - 1]
  BY <1>1, <1>3 DEF Vectors
<1>5. \A i \in DOMAIN buf \ Window(off, w) : buf'[i] = buf[i]
  BY <1>3
<1>6. \A i \in 0 .. w - 1 : off + i \in DOMAIN buf' /\ buf'[off + i] = d[i]
  BY <1>2, <1>3
<1>7. At(off, w)' = [i \in 0 .. w - 1 |-> d[i]]
  BY <1>6 DEF At
<1>8. d = [i \in 0 .. w - 1 |-> d[i]]
  BY DEF Vectors
<1> QED
  BY <1>4, <1>5, <1>7, <1>8

LEMMA SetKeeps ==
  ASSUME BoundsInv, ExactInv, NEW o \in Orders, NEW X \in SetTypes, NEW off \in Int,
         NEW v \in Int, set(o, X, off, v)
  PROVE  ExactInv'
<1> DEFINE c == AccessOf("set", o, X, off, X.w, v)
<1>0. X \in Types
  BY DEF SetTypes, Types
<1>1. CASE Raises(c)
  BY <1>1, RaisesKeeps DEF set
<1>2. CASE /\ ~OutOfBounds(off, X.w)
           /\ buf' = Put(off, X.w, SET(o, X, v))
           /\ last' = c /\ stored' = c /\ touched' = Window(off, X.w)
           /\ earlier' = buf /\ UNCHANGED <<host, kind>>
  <2>1. /\ last'.op = "set" /\ stored'.op = "set" /\ stored'.o = o /\ stored'.off = off
        /\ stored'.w = X.w /\ stored'.v = v
    BY <1>2, ReadsFields
  <2>2. X.w \in Nat \ {0} /\ X.w \in {1, 2, 4, 8}
    BY <1>0, Widths, Shapes
  <2>3. Window(off, X.w) \subseteq DOMAIN buf
    BY <1>2, <2>2, CheckExact DEF BoundsInv
  <2>4. host \in {"big", "little"} /\ buf \in [DOMAIN earlier -> 0 .. Base - 1]
    BY DEF ExactInv, EndianTypeOK
  <2>5. /\ SET(o, X, v) = Store(Resolve(o), Unsigned(v, Span(X.w)), X.w)
        /\ SET(o, X, v) \in Vectors(X.w)
    BY <1>0, <2>4, SetStub
  <2>6. /\ buf' \in [DOMAIN buf -> 0 .. Base - 1]
        /\ At(off, X.w)' = SET(o, X, v)
        /\ \A i \in DOMAIN buf \ Window(off, X.w) : buf'[i] = buf[i]
    BY <1>2, <2>2, <2>3, <2>4, <2>5, PutWindow
  <2>7. EndianTypeOK'
    BY <1>2, <2>6, EndianAssumption DEF ExactInv, EndianTypeOK, set, Counted
  <2>8. GetIsFound'
    BY <2>1 DEF GetIsFound
  <2>9. SetIsKept'
    <3>1. DOMAIN buf' = DOMAIN buf
      BY <2>6
    <3> QED
      BY <1>2, <2>6, <3>1 DEF SetIsKept
  <2>10. StoredIsThere'
    <3>1. At(stored.off, stored.w)' = At(off, X.w)'
      BY <2>1 DEF At
    <3>2. Resolve(stored.o)' = Resolve(o)
      BY <1>2, <2>1 DEF Resolve
    <3> QED
      BY <2>1, <2>2, <2>5, <2>6, <3>1, <3>2 DEF StoredIsThere
  <2> QED
    BY <2>7, <2>8, <2>9, <2>10 DEF ExactInv
<1> QED
  BY <1>1, <1>2 DEF set

LEMMA GetSubstrKeeps ==
  ASSUME ExactInv, NEW off \in Int, NEW len \in Int, get_substr(off, len)
  PROVE  ExactInv'
<1> DEFINE c == AccessOf("get_substr", "host", uint8, off, len, 0)
<1>1. CASE Raises(c)
  BY <1>1, RaisesKeeps DEF get_substr
<1>2. CASE last' = c /\ earlier' = buf /\ UNCHANGED <<host, kind, buf, stored>>
  <2>1. last'.op = "get_substr"
    BY <1>2, ReadsFields
  <2>2. EndianTypeOK'
    BY <1>2, EndianAssumption DEF ExactInv, EndianTypeOK, get_substr, Counted
  <2>3. GetIsFound' /\ SetIsKept'
    BY <2>1 DEF GetIsFound, SetIsKept
  <2>4. StoredIsThere'
    BY <1>2, StoredKept DEF ExactInv
  <2> QED
    BY <2>2, <2>3, <2>4 DEF ExactInv
<1> QED
  BY <1>1, <1>2 DEF get_substr

LEMMA SetSubstrKeeps ==
  ASSUME BoundsInv, ExactInv, NEW off \in Int, NEW str \in Strings, set_substr(off, str)
  PROVE  ExactInv'
<1> DEFINE len == Cardinality(DOMAIN str)
           c   == AccessOf("set_substr", "host", uint8, off, len, 0)
<1>1. len \in Nat /\ str \in Vectors(len)
  BY EndianAssumption DEF Vectors
<1>2. CASE Raises(c)
  BY <1>2, RaisesKeeps DEF set_substr
<1>3. CASE /\ ~(off < 0 \/ off > length - len)
           /\ buf' = Put(off, len, str)
           /\ last' = c /\ stored' = NoAccess
           /\ earlier' = buf /\ UNCHANGED <<host, kind>>
  <2>1. last'.op = "set_substr" /\ stored'.op = "none"
    BY <1>3, ReadsFields DEF NoAccess
  <2>2. ~SubstrOutOfBounds(off, len)
    BY <1>1, <1>3 DEF SubstrOutOfBounds, BoundsInv
  <2>3. Window(off, len) \subseteq DOMAIN buf
    BY <1>1, <2>2, SubstrCheckExact DEF BoundsInv
  <2>4. buf \in [DOMAIN earlier -> 0 .. Base - 1]
    BY DEF ExactInv, EndianTypeOK
  <2>5. buf' \in [DOMAIN buf -> 0 .. Base - 1]
    BY <1>1, <1>3, <2>3, <2>4, PutWindow
  <2>6. EndianTypeOK'
    BY <1>3, <2>5, EndianAssumption DEF ExactInv, EndianTypeOK, set_substr, Counted
  <2>7. GetIsFound' /\ SetIsKept' /\ StoredIsThere'
    BY <2>1 DEF GetIsFound, SetIsKept, StoredIsThere
  <2> QED
    BY <2>6, <2>7 DEF ExactInv
<1> QED
  BY <1>2, <1>3 DEF set_substr

LEMMA ExactInvariance == EndianSpec => []ExactInv
<1>1. EndianInit => ExactInv
  <2> SUFFICES ASSUME EndianInit PROVE ExactInv
    OBVIOUS
  <2>1. EndianTypeOK
    BY EndianAssumption DEF EndianInit, EndianTypeOK
  <2>2. last.op = "none" /\ stored.op = "none"
    BY DEF EndianInit, NoAccess
  <2> QED
    BY <2>1, <2>2 DEF ExactInv, GetIsFound, SetIsKept, StoredIsThere
<1>2. BoundsInv /\ ExactInv /\ [EndianNext]_endianVars => ExactInv'
  <2> SUFFICES ASSUME BoundsInv, ExactInv, [EndianNext]_endianVars PROVE ExactInv'
    OBVIOUS
  <2>1. CASE UNCHANGED endianVars
    <3>1. EndianTypeOK' /\ SetIsKept'
      BY <2>1 DEF endianVars, ExactInv, EndianTypeOK, SetIsKept
    <3>2. GetIsFound'
      <4>1. GET(last.o, last.X, At(last.off, last.w))'
              = GET(last.o, last.X, At(last.off, last.w))
        BY <2>1 DEF endianVars, GET, conv, At
      <4> QED
        BY <2>1, <4>1 DEF endianVars, ExactInv, GetIsFound
    <3>3. StoredIsThere'
      BY <2>1, StoredKept DEF endianVars, ExactInv
    <3> QED
      BY <3>1, <3>2, <3>3 DEF ExactInv
  <2>2. CASE EndianNext
    <3>1. ASSUME NEW o \in Orders, Access(o) PROVE ExactInv'
      <4>1. ASSUME NEW X \in Types, NEW off \in Offsets, get(o, X, off) PROVE ExactInv'
        BY <4>1, GetKeeps, EndianAssumption
      <4>2. ASSUME NEW X \in SetTypes, NEW off \in Offsets, NEW v \in OCamlValues(X),
                   set(o, X, off, v)
            PROVE  ExactInv'
        <5>1. v \in Int
          BY EndianAssumption DEF OCamlValues
        <5> QED
          BY <4>2, <5>1, SetKeeps, EndianAssumption
      <4> QED
        BY <3>1, <4>1, <4>2 DEF Access
    <3>2. CASE BA_substr
      BY <3>2, GetSubstrKeeps, SetSubstrKeeps, EndianAssumption DEF BA_substr
    <3> QED
      BY <2>2, <3>1, <3>2 DEF EndianNext, Orders, BigEndian, LittleEndian, HostEndian,
         BA_BigEndian, BA_LittleEndian, BA_HostEndian
  <2> QED
    BY <2>1, <2>2
<1> QED
  BY <1>1, <1>2, BoundsInvariance, PTL DEF EndianSpec

(***************************************************************************)
(* get_X returns the integer the bytes stand for in the function's order,  *)
(* extended by zeros or by the sign, on machines of either order: for any  *)
(* size of a byte that is a multiple of four, any buffer and any offset.   *)
(***************************************************************************)
THEOREM GetReadsTheInteger == EndianSpec => []GetIsExact
<1>1. ExactInv => GetIsExact
  BY ExactFacts
<1> QED
  BY <1>1, ExactInvariance, PTL

(***************************************************************************)
(* The conversions from and to the host's order undo each other and agree  *)
(* with the reading functions.                                             *)
(***************************************************************************)
THEOREM ConversionsAgree == EndianSpec => []ConvAgrees
<1>1. ExactInv => ConvAgrees
  BY ExactFacts
<1> QED
  BY <1>1, ExactInvariance, PTL

(***************************************************************************)
(* set_X writes the bytes of its integer in the function's order, and no   *)
(* other byte of the buffer.                                               *)
(***************************************************************************)
THEOREM SetWritesTheInteger == EndianSpec => []SetIsExact
<1>1. ExactInv => SetIsExact
  BY ExactFacts
<1> QED
  BY <1>1, ExactInvariance, PTL

(***************************************************************************)
(* get_X returns what set_Y stored at the same place in the same order and *)
(* width, with any number of reads in between.                             *)
(***************************************************************************)
THEOREM StoredIsReadBack == EndianSpec => []RoundTrip
<1>1. ExactInv => RoundTrip
  BY ExactFacts
<1> QED
  BY <1>1, ExactInvariance, PTL
=============================================================================
