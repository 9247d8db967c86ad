---------------------------- MODULE ProcessProofs ----------------------------
(***************************************************************************)
(* The components of Process, each with an inductive invariant of its own, *)
(* for every value of their constants: limits and integers of any width,   *)
(* links and buffers of any size, lists of flags of any length, any        *)
(* children and any platform.                                              *)
(***************************************************************************)
EXTENDS Process, TLAPS

-----------------------------------------------------------------------------
(* A behaviour of Process is one of each of its components. *)

LEMMA Projects ==
  ProcessSpec => /\ RlimitSpec
                 /\ FallocateInit /\ [][FallocateNext]_fallocateVars
                 /\ ReadlinkatInit /\ [][ReadlinkatNext]_readlinkatVars
                 /\ Wait4Init /\ [][Wait4Next]_wait4Vars
                 /\ NumbersInit /\ [][NumbersNext]_numbersVars
                 /\ ResultsInit /\ [][ResultsNext]_resultsVars
                 /\ FlagsSpec /\ BuildSpec /\ EndianSpec
<1>1. ProcessInit => /\ RlimitInit /\ FallocateInit /\ ReadlinkatInit /\ Wait4Init
                     /\ NumbersInit /\ ResultsInit /\ FlagsInit /\ BuildInit /\ EndianInit
  BY DEF ProcessInit
<1>2. [ProcessNext]_processVars =>
        /\ [RlimitNext]_rlimitVars /\ [FallocateNext]_fallocateVars
        /\ [ReadlinkatNext]_readlinkatVars /\ [Wait4Next]_wait4Vars
        /\ [NumbersNext]_numbersVars /\ [ResultsNext]_resultsVars
        /\ [FlagsNext]_flagsVars /\ [BuildNext]_buildVars /\ [EndianNext]_endianVars
  BY DEF ProcessNext, processVars, InFlags, InResults, InRlimit, InWait4, InFallocate,
         InReadlinkat, InNumbers, InBuild, InEndian
<1>3. QED
  BY <1>1, <1>2, PTL DEF ProcessSpec, RlimitSpec, FlagsSpec, BuildSpec, EndianSpec

-----------------------------------------------------------------------------
(* getrlimit and setrlimit *)

\* What le needs of the limits: the system keeps the soft one below the hard
\* one.
Ordered == rlim.cur <= rlim.max /\ origin.cur <= origin.max

RlimitInv == RlimitTypeOK /\ Ordered /\ LimitsRestorable

-----------------------------------------------------------------------------
\* encode_limit gives a value of Rlimit.t and decode_limit undoes it.
LEMMA DecodeEncode ==
  ASSUME NEW v \in rlim_t
  PROVE  encode_limit(v) \in Limit /\ decode_limit(encode_limit(v)) = v
<1>1. ToSigned(v) \in int64_t /\ ToUnsigned(ToSigned(v)) = v
  BY RlimitAssumption DEF ToSigned, ToUnsigned, rlim_t, int64_t
<1>2. CASE v = RLIM_INFINITY
  BY <1>2 DEF encode_limit, decode_limit, Limit, None
<1>3. CASE v # RLIM_INFINITY
  <2>1. encode_limit(v) = Some(ToSigned(v))
    BY <1>3 DEF encode_limit
  <2>2. Some(ToSigned(v)) \in Limit
    BY <1>1 DEF Limit
  <2>3. Some(ToSigned(v)) # None /\ Some(ToSigned(v))[1] = ToSigned(v)
    BY DEF Some, None
  <2>4. QED
    BY <1>1, <2>1, <2>2, <2>3 DEF decode_limit
<1>4. QED
  BY <1>2, <1>3

\* decode_limit gives a limit of the system.
LEMMA DecodeType ==
  ASSUME NEW l \in Limit
  PROVE  decode_limit(l) \in rlim_t
<1>1. CASE l = None
  BY <1>1, RlimitAssumption DEF decode_limit, rlim_t
<1>2. CASE l # None
  <2>1. PICK v \in int64_t : l = Some(v)
    BY <1>2 DEF Limit
  <2>2. l[1] = v
    BY <2>1 DEF Some
  <2>3. QED
    BY <1>2, <2>2, RlimitAssumption DEF decode_limit, ToUnsigned, rlim_t, int64_t
<1>3. QED
  BY <1>1, <1>2

\* Rlimit.le agrees with the order of the system on limits that have a sign
\* in OCaml.
LEMMA LeAgrees ==
  ASSUME NEW a \in rlim_t, NEW b \in rlim_t, a <= b,
         a < Half \/ a = RLIM_INFINITY, b < Half \/ b = RLIM_INFINITY
  PROVE  le(encode_limit(a), encode_limit(b))
<1>1. CASE b = RLIM_INFINITY
  BY <1>1 DEF encode_limit, le, None
<1>2. CASE b # RLIM_INFINITY
  <2>1. a # RLIM_INFINITY /\ a < Half /\ b < Half
    BY <1>2, RlimitAssumption DEF rlim_t
  <2>2. encode_limit(a) = <<a>> /\ encode_limit(b) = <<b>>
    BY <1>2, <2>1 DEF encode_limit, ToSigned, Some
  <2>3. <<a>> # None /\ <<b>> # None /\ <<a>>[1] <= <<b>>[1]
    BY DEF None
  <2>4. QED
    BY <2>2, <2>3 DEF le
<1>3. QED
  BY <1>1, <1>2

-----------------------------------------------------------------------------
LEMMA RlimitInitially == RlimitInit => RlimitInv
<1> SUFFICES ASSUME RlimitInit PROVE RlimitInv
  OBVIOUS
<1>1. RLIM_INFINITY \in rlim_t
  BY RlimitAssumption DEF rlim_t
<1>2. None \in Limit /\ decode_limit(None) = RLIM_INFINITY
  BY DEF Limit, decode_limit
<1>3. QED
  BY <1>1, <1>2 DEF RlimitInit, RlimitInv, RlimitTypeOK, Ordered, LimitsRestorable, rlim_t

LEMMA RlimitStep == RlimitInv /\ [RlimitNext]_rlimitVars => RlimitInv'
<1> SUFFICES ASSUME RlimitInv, [RlimitNext]_rlimitVars PROVE RlimitInv'
  OBVIOUS
<1> USE DEF RlimitInv
<1>1. CASE caml_extunix_getrlimit
  <2>1. rlim.cur \in rlim_t /\ rlim.max \in rlim_t
    BY DEF RlimitTypeOK
  <2>2. saved'.soft = encode_limit(rlim.cur) /\ saved'.hard = encode_limit(rlim.max)
    BY <1>1 DEF caml_extunix_getrlimit
  <2>3. RlimitTypeOK'
    BY <1>1, <2>1, DecodeEncode DEF RlimitTypeOK, caml_extunix_getrlimit
  <2>4. Ordered'
    BY <1>1 DEF Ordered, caml_extunix_getrlimit
  <2>5. origin' = rlim
    BY <1>1 DEF caml_extunix_getrlimit
  <2>6. LimitsRestorable'
    BY <2>1, <2>2, <2>5, DecodeEncode DEF LimitsRestorable
  <2>7. QED
    BY <2>3, <2>4, <2>6
<1>2. CASE \E soft, hard \in Limit : caml_extunix_setrlimit(soft, hard)
  <2>1. PICK soft, hard \in Limit : caml_extunix_setrlimit(soft, hard)
    BY <1>2
  <2>2. decode_limit(soft) \in rlim_t /\ decode_limit(hard) \in rlim_t
    BY DecodeType
  <2>3. saved' = saved /\ origin' = origin
    BY <2>1 DEF caml_extunix_setrlimit
  <2>4. rlim' \in [cur : rlim_t, max : rlim_t] /\ rlim'.cur <= rlim'.max
    BY <2>1, <2>2 DEF caml_extunix_setrlimit, Kernel_setrlimit, RlimitTypeOK, Ordered
  <2>5. QED
    BY <2>3, <2>4 DEF RlimitTypeOK, Ordered, LimitsRestorable
<1>3. CASE \E l \in [cur : rlim_t, max : rlim_t] : prlimit(l)
  BY <1>3 DEF prlimit, RlimitTypeOK, Ordered, LimitsRestorable
<1>4. CASE UNCHANGED rlimitVars
  BY <1>4 DEF rlimitVars, RlimitTypeOK, Ordered, LimitsRestorable
<1>5. QED
  BY <1>1, <1>2, <1>3, <1>4 DEF RlimitNext

LEMMA RlimitInvHolds == RlimitSpec => []RlimitInv
BY RlimitInitially, RlimitStep, PTL DEF RlimitSpec

-----------------------------------------------------------------------------
\* What getrlimit returned is, given to setrlimit, what the limits were, for
\* every limit of the system (encode_limit and decode_limit of resource.c).
THEOREM RestoreLimits == RlimitSpec => []LimitsRestorable
<1>1. RlimitInv => LimitsRestorable
  BY DEF RlimitInv
<1>2. QED
  BY <1>1, RlimitInvHolds, PTL

-----------------------------------------------------------------------------
\* saved is what getrlimit makes of origin.
SavedIsOrigin ==
  saved = [soft |-> encode_limit(origin.cur), hard |-> encode_limit(origin.max)]

LEMMA SavedIsOriginHolds == RlimitSpec => []SavedIsOrigin
<1>1. RlimitInit => SavedIsOrigin
  BY DEF RlimitInit, SavedIsOrigin, encode_limit
<1>2. SavedIsOrigin /\ [RlimitNext]_rlimitVars => SavedIsOrigin'
  BY DEF SavedIsOrigin, RlimitNext, rlimitVars, caml_extunix_getrlimit,
         caml_extunix_setrlimit, prlimit, encode_limit
<1>3. QED
  BY <1>1, <1>2, PTL DEF RlimitSpec

\* Rlimit.le, which orders the values of OCaml, finds the soft limit of
\* getrlimit below the hard one.
THEOREM SoftStaysBelowHard == RlimitSpec => []SoftBelowHard
<1>1. RlimitInv /\ SavedIsOrigin => SoftBelowHard
  <2> SUFFICES ASSUME RlimitInv, SavedIsOrigin,
                      origin.max < Half \/ origin.max = RLIM_INFINITY,
                      origin.cur < Half \/ origin.cur = RLIM_INFINITY
               PROVE  le(saved.soft, saved.hard)
    BY DEF SoftBelowHard
  <2>1. origin.cur \in rlim_t /\ origin.max \in rlim_t /\ origin.cur <= origin.max
    BY DEF RlimitInv, RlimitTypeOK, Ordered
  <2>2. le(encode_limit(origin.cur), encode_limit(origin.max))
    BY <2>1, LeAgrees
  <2>3. QED
    BY <2>2 DEF SavedIsOrigin
<1>2. QED
  BY <1>1, RlimitInvHolds, SavedIsOriginHolds, PTL

-----------------------------------------------------------------------------
(* fallocate *)

LEMMA MaxOfTwo ==
  ASSUME NEW a \in Int, NEW b \in Int
  PROVE  /\ Max({a, b}) = IF a <= b THEN b ELSE a
         /\ Max({a, b}) \in {a, b}
<1>1. ASSUME NEW m \in {a, b}, \A y \in {a, b} : m >= y
      PROVE  m = IF a <= b THEN b ELSE a
  BY <1>1
<1>2. \E m \in {a, b} : \A y \in {a, b} : m >= y
  <2>1. CASE a <= b
    BY <2>1
  <2>2. CASE ~(a <= b)
    BY <2>2
  <2>3. QED
    BY <2>1, <2>2
<1>3. Max({a, b}) \in {a, b} /\ \A y \in {a, b} : Max({a, b}) >= y
  BY <1>2 DEF Max
<1>4. QED
  BY <1>1, <1>3

LEMMA MinOfTwo ==
  ASSUME NEW a \in Int, NEW b \in Int
  PROVE  Min({a, b}) = IF a <= b THEN a ELSE b
<1>1. ASSUME NEW m \in {a, b}, \A y \in {a, b} : m <= y
      PROVE  m = IF a <= b THEN a ELSE b
  BY <1>1
<1>2. \E m \in {a, b} : \A y \in {a, b} : m <= y
  <2>1. CASE a <= b
    BY <2>1
  <2>2. CASE ~(a <= b)
    BY <2>2
  <2>3. QED
    BY <2>1, <2>2
<1>3. Min({a, b}) \in {a, b} /\ \A y \in {a, b} : Min({a, b}) <= y
  BY <1>2 DEF Min
<1>4. QED
  BY <1>1, <1>3

Extending == {"current", "begin", "end", "extend", "restore"}

FallocateTypeOK ==
  /\ fsize \in Nat /\ fptr \in Nat /\ off \in Int64 /\ len \in Int64
  /\ i64Cur \in Nat /\ before.size \in Nat /\ before.ptr \in Nat
  /\ fpc \in {"ocaml", "check"} \cup Extending

\* Once the size is compared, the file is to become longer than it was when
\* the call began, and off + len did not overflow; or off is negative, which
\* the first move of the pointer finds out.
WillGrow ==
  /\ fpc \in Extending /\ off >= 0 => before.size < off + len /\ off + len <= MaxInt64
  /\ fpc \in Extending \ {"current", "begin"} => off >= 0

\* Whoever writes through the handle meanwhile moves the pointer on, never
\* back.
PointerIsBehind ==
  /\ fpc = "end" => fptr >= off
  /\ fpc = "extend" => fptr >= off + len

\* The old position is in the file or in i64Cur, unless somebody has moved
\* the pointer.
PointerIsKept ==
  "handle" \notin others =>
    /\ fpc \in {"check", "current"} => fptr = before.ptr
    /\ fpc \in Extending \ {"current"} => i64Cur = before.ptr

\* A call that nobody disturbs.
Undisturbed ==
  others = {} =>
    /\ fpc \in {"check"} \cup (Extending \ {"restore"}) => fsize = before.size
    /\ fpc = "end" => fptr = off
    /\ fpc = "extend" => fptr = off + len
    /\ fpc = "restore" => fsize = off + len

SuccessIsReturned == foutcome = "ok" => fpc = "ocaml"

FallocateInv ==
  /\ FallocateTypeOK /\ WillGrow /\ PointerIsBehind /\ PointerIsKept /\ Undisturbed
  /\ SuccessIsReturned /\ FallocateKeeps

LEMMA FallocateInitially == FallocateInit => FallocateInv
<1>1. 0 \in Int64
  BY FallocateAssumption DEF Int64
<1>2. QED
  BY <1>1 DEF FallocateInit, FallocateInv, FallocateTypeOK, WillGrow, PointerIsBehind,
              PointerIsKept, Undisturbed, SuccessIsReturned, FallocateKeeps, Extending

\* The comparison in 64 bits tells whether the file is long enough.
LEMMA SumIsBehind ==
  ASSUME NEW a \in Int64, NEW b \in Int64, NEW s \in Nat
  PROVE  /\ Sum(a, b) \in Int
         /\ Sum(a, b) > s /\ a >= 0 => Sum(a, b) = a + b /\ a + b <= MaxInt64
         /\ Sum(a, b) <= s /\ a + b <= MaxInt64 => a + b <= s
  BY FallocateAssumption DEF Sum, Modulus, Int64

LEMMA FallocateStep == FallocateInv /\ [FallocateNext]_fallocateVars => FallocateInv'
<1> SUFFICES ASSUME FallocateInv, [FallocateNext]_fallocateVars PROVE FallocateInv'
  OBVIOUS
<1> USE FallocateAssumption
<1> DEFINE Parts == /\ FallocateTypeOK /\ WillGrow /\ PointerIsBehind /\ PointerIsKept
                    /\ Undisturbed /\ SuccessIsReturned
<1>0. /\ Parts
      /\ fsize >= before.size
      /\ foutcome = "ok" /\ "handle" \notin others => fptr = before.ptr
      /\ foutcome = "ok" /\ others = {} /\ off + len <= MaxInt64 =>
           fsize = Max({before.size, off + len})
  BY DEF FallocateInv, FallocateKeeps
<1>a. before.size \in Int /\ off \in Int /\ len \in Int /\ off + len \in Int
  BY <1>0, FallocateAssumption DEF FallocateTypeOK, Int64
<1> USE DEF FallocateTypeOK, WillGrow, PointerIsBehind, PointerIsKept, Undisturbed,
            SuccessIsReturned, Extending, Step, Returns, Goes
<1>1. CASE \E o, n \in Int64 : caml_fallocate_do(o, n)
  <2>1. Parts'
    BY <1>0, <1>1 DEF caml_fallocate_do
  <2>2. FallocateKeeps'
    BY <1>0, <1>1 DEF caml_fallocate_do, FallocateKeeps
  <2>3. QED
    BY <2>1, <2>2 DEF FallocateInv
<1>2. CASE GetFileSizeEx
  <2>1. Sum(off, len) > fsize /\ off >= 0 => Sum(off, len) = off + len /\ off + len <= MaxInt64
    BY <1>0, SumIsBehind
  <2>2. Sum(off, len) <= fsize /\ off + len <= MaxInt64 => off + len <= fsize
    BY <1>0, SumIsBehind
  <2>3. Max({before.size, off + len}) = IF before.size <= off + len THEN off + len ELSE before.size
    BY <1>a, MaxOfTwo
  <2>4. Parts'
    BY <1>0, <1>2, <1>a, <2>1 DEF GetFileSizeEx
  <2>5. FallocateKeeps'
    <3>1. CASE Sum(off, len) <= fsize /\ Step("check", "ocaml") /\ Returns("ok")
      BY <1>0, <1>2, <1>a, <2>2, <2>3, <3>1 DEF GetFileSizeEx, FallocateKeeps
    <3>2. CASE Sum(off, len) > fsize /\ Step("check", "current") /\ Goes
      BY <1>0, <1>2, <3>2 DEF GetFileSizeEx, FallocateKeeps
    <3>3. QED
      BY <1>2, <3>1, <3>2 DEF GetFileSizeEx
  <2>6. QED
    BY <2>4, <2>5 DEF FallocateInv
<1>3. CASE lseek_current
  BY <1>0, <1>3 DEF lseek_current, FallocateInv, FallocateKeeps
<1>4. CASE lseek_off
  BY <1>0, <1>4, <1>a DEF lseek_off, FallocateInv, FallocateKeeps
<1>5. CASE lseek_len
  BY <1>0, <1>5, <1>a DEF lseek_len, FallocateInv, FallocateKeeps
<1>6. CASE SetEndOfFile
  BY <1>0, <1>6, <1>a DEF SetEndOfFile, FallocateInv, FallocateKeeps
<1>7. CASE lseek_restore
  <2>1. Max({before.size, off + len}) = IF before.size <= off + len THEN off + len ELSE before.size
    BY <1>a, MaxOfTwo
  <2>2. Parts'
    BY <1>0, <1>7 DEF lseek_restore
  <2>3. FallocateKeeps'
    BY <1>0, <1>7, <2>1 DEF lseek_restore, FallocateKeeps
  <2>4. QED
    BY <2>2, <2>3 DEF FallocateInv
<1>8. CASE caml_fallocate_error
  BY <1>0, <1>8 DEF caml_fallocate_error, FallocateInv, FallocateKeeps
<1>9. CASE WriteHandle
  <2>1. Max({fsize, fptr + 1}) = IF fsize <= fptr + 1 THEN fptr + 1 ELSE fsize
    BY <1>0, MaxOfTwo
  <2>2. fsize' \in Nat /\ fsize' >= fsize
    BY <1>0, <1>9, <2>1 DEF WriteHandle
  <2>3. "handle" \in others' /\ others' # {}
    BY <1>9 DEF WriteHandle
  <2>4. Parts'
    BY <1>0, <1>9, <1>a, <2>2, <2>3 DEF WriteHandle
  <2>5. FallocateKeeps'
    BY <1>0, <1>9, <1>a, <2>2, <2>3 DEF WriteHandle, FallocateKeeps
  <2>6. QED
    BY <2>4, <2>5 DEF FallocateInv
<1>10. CASE WriteFile
  <2>1. others' # {} /\ ("handle" \notin others' => "handle" \notin others)
    BY <1>10 DEF WriteFile
  <2>2. QED
    BY <1>0, <1>10, <2>1 DEF WriteFile, FallocateInv, FallocateKeeps
<1>11. CASE UNCHANGED fallocateVars
  BY <1>0, <1>11 DEF fallocateVars, FallocateInv, FallocateKeeps
<1>12. QED
  BY <1>1, <1>2, <1>3, <1>4, <1>5, <1>6, <1>7, <1>8, <1>9, <1>10, <1>11 DEF FallocateNext

\* fallocate.c for Windows, with files of any size, any offsets and lengths,
\* negative ones too, and any number of writes of others between its calls:
\* the file is never shorter than it was, the pointer is where it was and the
\* file reaches to off + len.
THEOREM FallocateIsSafe == ProcessSpec => []FallocateKeeps
<1>1. FallocateInv => FallocateKeeps
  BY DEF FallocateInv
<1>2. QED
  BY <1>1, FallocateInitially, FallocateStep, Projects, PTL

-----------------------------------------------------------------------------
(* readlinkat *)

\* size doubles as long as the buffer may be too small, from FirstSize on.
ReadlinkatInv ==
  /\ link.len \in 1 .. PathMax /\ size \in Nat \ {0}
  /\ rpc \in {"ocaml", "loop"}
  /\ rpc = "loop" => rresult = NoLink /\ link \in seen
  /\ LinkIsWhole

LEMMA ReadlinkatInitially == ReadlinkatInit => ReadlinkatInv
<1> SUFFICES ASSUME ReadlinkatInit PROVE ReadlinkatInv
  OBVIOUS
<1>1. Max({FirstSize, 2 * PathMax}) =
        IF FirstSize <= 2 * PathMax THEN 2 * PathMax ELSE FirstSize
  BY ReadlinkatAssumption, MaxOfTwo
<1>2. QED
  BY <1>1, ReadlinkatAssumption DEF ReadlinkatInit, ReadlinkatInv, LinkIsWhole

LEMMA ReadlinkatStep == ReadlinkatInv /\ [ReadlinkatNext]_readlinkatVars => ReadlinkatInv'
<1> SUFFICES ASSUME ReadlinkatInv, [ReadlinkatNext]_readlinkatVars PROVE ReadlinkatInv'
  OBVIOUS
<1> DEFINE Largest == Max({FirstSize, 2 * PathMax})
<1>0. Largest \in Nat /\ FirstSize <= Largest /\ 2 * PathMax <= Largest
  <2>1. Largest = IF FirstSize <= 2 * PathMax THEN 2 * PathMax ELSE FirstSize
    BY ReadlinkatAssumption, MaxOfTwo
  <2>2. QED
    BY <2>1, ReadlinkatAssumption
<1> HIDE DEF Largest
<1>a. /\ link.len \in 1 .. PathMax /\ size \in Nat \ {0} /\ rpc \in {"ocaml", "loop"}
      /\ rpc = "loop" => rresult = NoLink /\ link \in seen
      /\ rresult # NoLink => /\ rresult.target \in seen
                             /\ rresult.nchars = rresult.target.len
                             /\ rresult.nchars < size
      /\ size <= Largest
  BY DEF ReadlinkatInv, LinkIsWhole, Largest
<1>b. ASSUME /\ link'.len \in 1 .. PathMax /\ size' \in Nat \ {0} /\ rpc' \in {"ocaml", "loop"}
             /\ rpc' = "loop" => rresult' = NoLink /\ link' \in seen'
             /\ rresult' # NoLink => /\ rresult'.target \in seen'
                                     /\ rresult'.nchars = rresult'.target.len
                                     /\ rresult'.nchars < size'
             /\ size' <= Largest
      PROVE  ReadlinkatInv'
  BY <1>b DEF ReadlinkatInv, LinkIsWhole, Largest, NoLink
<1>1. CASE \E n \in 1 .. PathMax : Replace(n)
  BY <1>a, <1>b, <1>1 DEF Replace
<1>2. CASE caml_extunix_readlinkat
  BY <1>0, <1>a, <1>b, <1>2, ReadlinkatAssumption DEF caml_extunix_readlinkat
<1>3. CASE readlinkat_malloc
  <2> DEFINE nchars == Min({link.len, size})
  <2>1. nchars = IF link.len <= size THEN link.len ELSE size
    BY <1>a, MinOfTwo
  <2> HIDE DEF nchars
  <2>2. CASE nchars < size
    <3>1. nchars = link.len
      BY <1>a, <2>1, <2>2
    <3>2. rpc' = "ocaml" /\ rresult' = [target |-> link, nchars |-> nchars]
          /\ size' = size /\ link' = link /\ seen' = seen /\ rpc = "loop"
      BY <1>3, <2>2 DEF readlinkat_malloc, Fits, nchars
    <3>3. rresult'.target = link /\ rresult'.nchars = nchars
      BY <3>2
    <3>4. QED
      BY <1>a, <1>b, <2>2, <3>1, <3>2, <3>3
  <2>3. CASE ~(nchars < size)
    <3>1. size <= link.len
      BY <1>a, <2>1, <2>3
    <3>2. size' = 2 * size /\ rpc' = rpc /\ rresult' = rresult /\ link' = link
          /\ seen' = seen /\ rpc = "loop"
      BY <1>3, <2>3 DEF readlinkat_malloc, Fits, nchars
    <3>3. 2 * size <= Largest /\ 2 * size \in Nat \ {0}
      BY <1>0, <1>a, <3>1, ReadlinkatAssumption
    <3>4. QED
      BY <1>a, <1>b, <3>2, <3>3
  <2>4. QED
    BY <2>2, <2>3
<1>4. CASE readlinkat_fails
  BY <1>a, <1>b, <1>4 DEF readlinkat_fails
<1>5. CASE UNCHANGED readlinkatVars
  BY <1>a, <1>b, <1>5 DEF readlinkatVars
<1>6. QED
  BY <1>1, <1>2, <1>3, <1>4, <1>5 DEF ReadlinkatNext

\* readlinkat_malloc of atfile.c, with a first buffer and targets of any
\* length and any number of replacements between its rounds.
THEOREM ReadlinkatIsWhole == ProcessSpec => []LinkIsWhole
<1>1. ReadlinkatInv => LinkIsWhole
  BY DEF ReadlinkatInv
<1>2. QED
  BY <1>1, ReadlinkatInitially, ReadlinkatStep, Projects, PTL

-----------------------------------------------------------------------------
(* wait4 *)

\* The words of the system, taken apart.
LEMMA ExitWord ==
  ASSUME NEW c \in 0 .. 255
  PROVE  (c * 256) % 128 = 0 /\ ((c * 256) \div 256) % 256 = c /\ c * 256 \in Nat
  OBVIOUS

LEMMA KillWord ==
  ASSUME NEW s \in 1 .. 126
  PROVE  /\ s % 128 = s /\ s % 256 = s /\ s # 127
         /\ (s + 128) % 128 = s /\ (s + 128) % 256 = s + 128 /\ s + 128 # 127
  OBVIOUS

LEMMA StopWord ==
  ASSUME NEW s \in 1 .. 126
  PROVE  /\ (s * 256 + 127) % 128 = 127 /\ (s * 256 + 127) % 256 = 127
         /\ ((s * 256 + 127) \div 256) % 256 = s
  OBVIOUS

\* What alloc_wait4_return makes of a word, without its CASE.
LEMMA ReturnExited ==
  ASSUME NEW p, p # 0, NEW w, WIFEXITED(w)
  PROVE  alloc_wait4_return(p, w) = [pid |-> p, status |-> [tag |-> "WEXITED", n |-> WEXITSTATUS(w)]]
  BY Zenon DEF alloc_wait4_return

LEMMA ReturnNothing ==
  ASSUME NEW w
  PROVE  alloc_wait4_return(0, w) = [pid |-> 0, status |-> [tag |-> "WEXITED", n |-> 0]]
<1>1. WIFEXITED(0) /\ WEXITSTATUS(0) = 0
  BY DEF WIFEXITED, WEXITSTATUS
<1>2. QED
  BY <1>1, Zenon DEF alloc_wait4_return

LEMMA ReturnStopped ==
  ASSUME NEW p, p # 0, NEW w, ~WIFEXITED(w), WIFSTOPPED(w)
  PROVE  alloc_wait4_return(p, w) =
           [pid |-> p, status |->
             [tag |-> "WSTOPPED", n |-> caml_rev_convert_signal_number(WSTOPSIG(w))]]
  BY Zenon DEF alloc_wait4_return

LEMMA ReturnSignaled ==
  ASSUME NEW p, p # 0, NEW w, ~WIFEXITED(w), ~WIFSTOPPED(w)
  PROVE  alloc_wait4_return(p, w) =
           [pid |-> p, status |->
             [tag |-> "WSIGNALED", n |-> caml_rev_convert_signal_number(WTERMSIG(w))]]
  BY Zenon DEF alloc_wait4_return

\* The status WaitTellsTruth asks for.
Truth(e) ==
  CASE e.kind = "exited"   -> [tag |-> "WEXITED", n |-> e.n]
    [] e.kind = "signaled" -> [tag |-> "WSIGNALED", n |-> caml_rev_convert_signal_number(e.n)]
    [] e.kind = "stopped"  -> [tag |-> "WSTOPPED", n |-> caml_rev_convert_signal_number(e.n)]

LEMMA TruthCases ==
  ASSUME NEW e
  PROVE  /\ e.kind = "exited" => Truth(e) = [tag |-> "WEXITED", n |-> e.n]
         /\ e.kind = "signaled" =>
              Truth(e) = [tag |-> "WSIGNALED", n |-> caml_rev_convert_signal_number(e.n)]
         /\ e.kind = "stopped" =>
              Truth(e) = [tag |-> "WSTOPPED", n |-> caml_rev_convert_signal_number(e.n)]
<1>0. "exited" # "signaled" /\ "exited" # "stopped" /\ "signaled" # "stopped"
  OBVIOUS
<1>1. ASSUME e.kind = "exited" PROVE Truth(e) = [tag |-> "WEXITED", n |-> e.n]
  BY <1>0, <1>1, Zenon DEF Truth
<1>2. ASSUME e.kind = "signaled"
      PROVE  Truth(e) = [tag |-> "WSIGNALED", n |-> caml_rev_convert_signal_number(e.n)]
  BY <1>0, <1>2, Zenon DEF Truth
<1>3. ASSUME e.kind = "stopped"
      PROVE  Truth(e) = [tag |-> "WSTOPPED", n |-> caml_rev_convert_signal_number(e.n)]
  BY <1>0, <1>3, Zenon DEF Truth
<1>4. QED
  BY <1>1, <1>2, <1>3, Zenon

LEMMA WordsCases ==
  ASSUME NEW e
  PROVE  /\ e.kind = "exited" => Words(e) = {e.n * 256}
         /\ e.kind = "signaled" => Words(e) = {e.n, e.n + 128}
         /\ e.kind = "stopped" => Words(e) = {e.n * 256 + 127}
<1>0. "exited" # "signaled" /\ "exited" # "stopped" /\ "signaled" # "stopped"
  OBVIOUS
<1>1. ASSUME e.kind = "exited" PROVE Words(e) = {e.n * 256}
  BY <1>0, <1>1, Zenon DEF Words
<1>2. ASSUME e.kind = "signaled" PROVE Words(e) = {e.n, e.n + 128}
  BY <1>0, <1>2, Zenon DEF Words
<1>3. ASSUME e.kind = "stopped" PROVE Words(e) = {e.n * 256 + 127}
  BY <1>0, <1>3, Zenon DEF Words
<1>4. QED
  BY <1>1, <1>2, <1>3, Zenon

LEMMA EventCases ==
  ASSUME NEW e \in Events
  PROVE  \/ e.kind = "exited" /\ e.n \in 0 .. 255
         \/ e.kind = "signaled" /\ e.n \in 1 .. 126
         \/ e.kind = "stopped" /\ e.n \in 1 .. 126
  BY Wait4Assumption DEF Events, Ends, Exited, Signaled, Stopped

\* Every word of the system is taken for the event it stands for.
LEMMA WordIsUnderstood ==
  ASSUME NEW e \in Events, NEW w \in Words(e), NEW p, p # 0
  PROVE  alloc_wait4_return(p, w) = [pid |-> p, status |-> Truth(e)]
<1>1. CASE e.kind = "exited" /\ e.n \in 0 .. 255
  <2>1. w = e.n * 256
    BY <1>1, WordsCases
  <2>2. WIFEXITED(w) /\ WEXITSTATUS(w) = e.n
    BY <1>1, <2>1, ExitWord DEF WIFEXITED, WEXITSTATUS
  <2>3. Truth(e) = [tag |-> "WEXITED", n |-> e.n]
    BY <1>1, TruthCases
  <2>4. QED
    BY <2>2, <2>3, ReturnExited
<1>2. CASE e.kind = "signaled" /\ e.n \in 1 .. 126
  <2>1. w = e.n \/ w = e.n + 128
    BY <1>2, WordsCases
  <2>2. ~WIFEXITED(w) /\ ~WIFSTOPPED(w) /\ WTERMSIG(w) = e.n
    BY <1>2, <2>1, KillWord DEF WIFEXITED, WIFSTOPPED, WTERMSIG
  <2>3. Truth(e) = [tag |-> "WSIGNALED", n |-> caml_rev_convert_signal_number(e.n)]
    BY <1>2, TruthCases
  <2>4. QED
    BY <2>2, <2>3, ReturnSignaled
<1>3. CASE e.kind = "stopped" /\ e.n \in 1 .. 126
  <2>1. w = e.n * 256 + 127
    BY <1>3, WordsCases
  <2>2. ~WIFEXITED(w) /\ WIFSTOPPED(w) /\ WSTOPSIG(w) = e.n
    BY <1>3, <2>1, StopWord DEF WIFEXITED, WIFSTOPPED, WSTOPSIG
  <2>3. Truth(e) = [tag |-> "WSTOPPED", n |-> caml_rev_convert_signal_number(e.n)]
    BY <1>3, TruthCases
  <2>4. QED
    BY <2>2, <2>3, ReturnStopped
<1>4. QED
  BY <1>1, <1>2, <1>3, EventCases

\* While the stub is in the system or on its way back nothing is returned
\* yet, and the answer goes with the event.
AnswerIsTrue ==
  /\ wpc \in {"ocaml", "wait", "back"}
  /\ wpc # "ocaml" => wresult = NoResult
  /\ wpc = "wait" => wpid = 0
  /\ wpc = "back" =>
       \/ wpid = -1
       \/ wpid = 0 /\ "WNOHANG" \in wflags
       \/ /\ wpid \in Pids /\ fate \in Events /\ wstatus \in Words(fate)
          /\ fate.kind = "stopped" => "WUNTRACED" \in wflags

ChildTypeOK == child \in [Pids -> Events \cup {Running, Reaped}]

Wait4Inv == ChildTypeOK /\ AnswerIsTrue /\ WaitTellsTruth

LEMMA NoResultIsTrue == wresult = NoResult => WaitTellsTruth
<1>1. NoResult.pid = -1 /\ NoResult.status.tag # "WSTOPPED"
  BY DEF NoResult
<1>2. ~(-1 = 0) /\ ~(-1 > 0)
  OBVIOUS
<1>3. QED
  BY <1>1, <1>2, Zenon DEF WaitTellsTruth

LEMMA Wait4Initially == Wait4Init => Wait4Inv
<1>1. Wait4Init => ChildTypeOK /\ AnswerIsTrue
  BY DEF Wait4Init, ChildTypeOK, AnswerIsTrue
<1>2. Wait4Init => wresult = NoResult
  BY DEF Wait4Init
<1>3. QED
  BY <1>1, <1>2, NoResultIsTrue DEF Wait4Inv

\* WaitTellsTruth is about these three variables.
LEMMA TruthIsKept ==
  ASSUME WaitTellsTruth, wresult' = wresult, wflags' = wflags, fate' = fate
  PROVE  WaitTellsTruth'
  BY Zenon DEF WaitTellsTruth

LEMMA TruthIsReset ==
  ASSUME wresult' = NoResult
  PROVE  WaitTellsTruth'
<1>1. NoResult.pid = -1 /\ NoResult.status.tag # "WSTOPPED"
  BY DEF NoResult
<1>2. ~(-1 = 0) /\ ~(-1 > 0)
  OBVIOUS
<1>3. wresult'.pid = -1 /\ wresult'.status.tag # "WSTOPPED"
  BY <1>1
<1>4. QED
  BY <1>2, <1>3, Zenon DEF WaitTellsTruth

LEMMA TruthIsTold ==
  ASSUME \/ /\ wresult'.pid = 0 /\ "WNOHANG" \in wflags'
            /\ wresult'.status = [tag |-> "WEXITED", n |-> 0]
         \/ /\ wresult'.pid \in Nat \ {0} /\ fate' \in Events /\ wresult'.status = Truth(fate')
            /\ fate'.kind = "stopped" => "WUNTRACED" \in wflags'
  PROVE  WaitTellsTruth'
<1>1. wresult'.pid = 0 => /\ "WNOHANG" \in wflags'
                          /\ wresult'.status = [tag |-> "WEXITED", n |-> 0]
  OBVIOUS
<1>2. wresult'.pid > 0 => wresult'.status = Truth(fate')
  OBVIOUS
<1>3. wresult'.status.tag = "WSTOPPED" => "WUNTRACED" \in wflags'
  <2>1. CASE wresult'.status = [tag |-> "WEXITED", n |-> 0]
    BY <2>1
  <2>2. CASE /\ fate' \in Events /\ wresult'.status = Truth(fate')
             /\ fate'.kind = "stopped" => "WUNTRACED" \in wflags'
    <3> DEFINE e == fate'
    <3>1. e.kind \in {"exited", "signaled", "stopped"}
      BY <2>2, EventCases
    <3>2. e.kind # "stopped" => Truth(e).tag # "WSTOPPED"
      BY <3>1, TruthCases
    <3>3. QED
      BY <2>2, <3>2
  <2>3. QED
    BY <2>1, <2>2
<1>4. QED
  BY <1>1, <1>2, <1>3, Zenon DEF WaitTellsTruth, Truth

LEMMA Wait4Step == Wait4Inv /\ [Wait4Next]_wait4Vars => Wait4Inv'
<1> SUFFICES ASSUME ChildTypeOK, AnswerIsTrue, WaitTellsTruth, [Wait4Next]_wait4Vars
             PROVE  ChildTypeOK' /\ AnswerIsTrue' /\ WaitTellsTruth'
  BY DEF Wait4Inv
<1>0. ChildTypeOK'
  BY DEF ChildTypeOK, Wait4Next, wait4Vars, ChildChanges, caml_extunix_wait4, KernelReports,
         KernelNothing, KernelWaitFails, wait4_return
<1>1. CASE \E p \in Pids, e \in Events \cup {Running} : ChildChanges(p, e)
  BY <1>0, <1>1, TruthIsKept DEF ChildChanges, AnswerIsTrue
<1>2. CASE \E flags \in SUBSET {"WNOHANG", "WUNTRACED"}, word \in JunkWords :
             caml_extunix_wait4(flags, word)
  BY <1>0, <1>2, TruthIsReset DEF caml_extunix_wait4, AnswerIsTrue
<1>3. CASE \E p \in Pids : \E word \in UNION {Words(e) : e \in Events} : KernelReports(p, word)
  <2>0. PICK p \in Pids : \E word : KernelReports(p, word)
    BY <1>3
  <2>1. PICK word : KernelReports(p, word)
    BY <2>0
  <2>2. Running.kind = "running" /\ Reaped.kind = "reaped"
    BY DEF Running, Reaped
  <2>3. \A e \in Ends : e.kind # "stopped"
    BY DEF Ends, Exited, Signaled
  <2>4. child[p] \in Events /\ (child[p].kind = "stopped" => "WUNTRACED" \in wflags)
    BY <2>1, <2>2, <2>3 DEF KernelReports, Ready, Events, ChildTypeOK
  <2>5. AnswerIsTrue'
    BY <2>1, <2>4 DEF KernelReports, AnswerIsTrue
  <2>6. wresult' = NoResult
    BY <2>1 DEF KernelReports, AnswerIsTrue
  <2>7. QED
    BY <1>0, <2>5, <2>6, TruthIsReset
<1>4. CASE KernelNothing
  BY <1>0, <1>4, TruthIsReset DEF KernelNothing, AnswerIsTrue
<1>5. CASE KernelWaitFails
  BY <1>0, <1>5, TruthIsReset DEF KernelWaitFails, AnswerIsTrue
<1>6. CASE wait4_return
  <2>1. AnswerIsTrue'
    BY <1>6 DEF wait4_return, AnswerIsTrue
  <2>2. CASE wpid = -1
    <3>1. wresult' = NoResult
      BY <1>6, <2>2 DEF wait4_return
    <3>2. QED
      BY <1>0, <2>1, <3>1, TruthIsReset
  <2>3. CASE wpid = 0 /\ "WNOHANG" \in wflags
    <3>1. wresult' = alloc_wait4_return(0, wstatus) /\ wflags' = wflags
      BY <1>6, <2>3 DEF wait4_return
    <3>2. wresult' = [pid |-> 0, status |-> [tag |-> "WEXITED", n |-> 0]]
      BY <3>1, ReturnNothing
    <3>3. wresult'.pid = 0 /\ wresult'.status = [tag |-> "WEXITED", n |-> 0]
      BY <3>2
    <3>4. "WNOHANG" \in wflags'
      BY <2>3, <3>1
    <3>5. WaitTellsTruth'
      BY <3>3, <3>4, TruthIsTold, Zenon
    <3>6. QED
      BY <1>0, <2>1, <3>5
  <2>4. CASE /\ wpid \in Pids /\ fate \in Events /\ wstatus \in Words(fate)
             /\ fate.kind = "stopped" => "WUNTRACED" \in wflags
    <3>1. wpid \in Nat \ {0}
      BY <2>4, Wait4Assumption
    <3>2. wresult' = [pid |-> wpid, status |-> Truth(fate)]
      <4>1. wresult' = alloc_wait4_return(wpid, wstatus)
        BY <1>6, <3>1 DEF wait4_return
      <4>2. QED
        BY <2>4, <3>1, <4>1, WordIsUnderstood
    <3>3. wresult'.pid = wpid /\ wresult'.status = Truth(fate)
      BY <3>2
    <3>4. fate' = fate /\ wflags' = wflags
      BY <1>6 DEF wait4_return
    <3>5. /\ wresult'.pid \in Nat \ {0} /\ fate' \in Events /\ wresult'.status = Truth(fate')
          /\ fate'.kind = "stopped" => "WUNTRACED" \in wflags'
      BY <2>4, <3>1, <3>3, <3>4
    <3>6. WaitTellsTruth'
      BY <3>5, TruthIsTold, Zenon
    <3>7. QED
      BY <1>0, <2>1, <3>6
  <2>5. wpc = "back"
    BY <1>6 DEF wait4_return
  <2>6. QED
    BY <2>2, <2>3, <2>4, <2>5 DEF AnswerIsTrue
<1>7. CASE UNCHANGED wait4Vars
  BY <1>0, <1>7, TruthIsKept DEF wait4Vars, AnswerIsTrue
<1>8. QED
  BY <1>1, <1>2, <1>3, <1>4, <1>5, <1>6, <1>7 DEF Wait4Next

\* wait4.c with any children, exit codes and signals, which stop, go on and
\* end at any moment, and any word on the stack: the status that is returned
\* is what happened to the child that is named.
THEOREM WaitIsTrue == ProcessSpec => []WaitTellsTruth
<1>1. Wait4Inv => WaitTellsTruth
  BY DEF Wait4Inv
<1>2. QED
  BY <1>1, Wait4Initially, Wait4Step, Projects, PTL

-----------------------------------------------------------------------------
(* Numbers on their way to the system *)

LEMMA SmallMod ==
  ASSUME NEW m \in Nat \ {0}, NEW x \in 0 .. m - 1
  PROVE  x % m = x
  OBVIOUS

\* Int_val keeps an int, size_t a number that has no sign.
LEMMA IntValKeeps ==
  ASSUME NEW v \in int
  PROVE  Int_val(v) = v
<1>1. 2 * IntHalf \in Nat \ {0} /\ v + IntHalf \in 0 .. 2 * IntHalf - 1
  BY NumbersAssumption DEF int
<1>2. (v + IntHalf) % (2 * IntHalf) = v + IntHalf
  BY <1>1, SmallMod
<1>3. QED
  BY <1>2, NumbersAssumption DEF Int_val, int

LEMMA SizeTKeeps ==
  ASSUME NEW v \in uint
  PROVE  size_t(v) = v
<1>1. 2 * LongHalf \in Nat \ {0} /\ v \in 0 .. 2 * LongHalf - 1
  BY NumbersAssumption DEF uint
<1>2. QED
  BY <1>1, SmallMod DEF size_t

\* They keep no other number.
LEMMA RemainderInRange ==
  ASSUME NEW x \in Int, NEW m \in Nat \ {0}
  PROVE  x % m \in 0 .. m - 1
  OBVIOUS

LEMMA IntValInRange ==
  ASSUME NEW v \in Int
  PROVE  Int_val(v) \in int
<1>1. (v + IntHalf) % (2 * IntHalf) \in 0 .. 2 * IntHalf - 1
  BY RemainderInRange, NumbersAssumption
<1>2. QED
  BY <1>1, NumbersAssumption DEF Int_val, int

LEMMA SizeTOfNegative ==
  ASSUME NEW v \in int, v < 0
  PROVE  size_t(v) = v + 2 * LongHalf
<1>1. 2 * LongHalf \in Nat \ {0} /\ v + 2 * LongHalf \in 0 .. 2 * LongHalf - 1
  BY NumbersAssumption DEF int
<1>2. v \in Int /\ LongHalf \in Nat
  BY NumbersAssumption DEF int
<1>3. (v + 2 * LongHalf) % (2 * LongHalf) = v % (2 * LongHalf)
  BY <1>1, <1>2
<1>4. QED
  BY <1>1, <1>3, SmallMod DEF size_t

LEMMA OnlyUintIsKept ==
  ASSUME NEW n \in Amounts, size_t(Int_val(n)) = n
  PROVE  n \in uint
<1>1. n \in -LongHalf .. LongHalf - 1 /\ n \in Int
  BY NumbersAssumption
<1>2. Int_val(n) \in int
  BY <1>1, IntValInRange
<1>3. CASE Int_val(n) < 0
  BY <1>1, <1>2, <1>3, SizeTOfNegative, NumbersAssumption DEF int
<1>4. CASE Int_val(n) >= 0
  <2>1. Int_val(n) \in uint
    BY <1>2, <1>4, NumbersAssumption DEF int, uint
  <2>2. QED
    BY <2>1, SizeTKeeps
<1>5. QED
  BY <1>2, <1>3, <1>4, NumbersAssumption DEF int

LEMMA UintIsInt ==
  ASSUME NEW v \in uint
  PROVE  v \in int /\ v \in Int
  BY NumbersAssumption DEF uint, int

\* What vmsplice does not refuse and what has 31 bits lies in the bigarray.
LEMMA IovLies ==
  ASSUME NEW v \in Iov, ~Refused(v), v.off \in uint, v.len \in uint, v.off + v.len \in uint
  PROVE  /\ [dim |-> v.dim, off |-> Int_val(v.off), len |-> size_t(Int_val(v.len))] = v
         /\ v.off + v.len <= v.dim
<1>1. Int_val(v.off) = v.off /\ Int_val(v.len) = v.len
  BY UintIsInt, IntValKeeps
<1>2. size_t(v.len) = v.len
  BY SizeTKeeps
<1>3. Int_val(v.off + v.len) = v.off + v.len
  BY UintIsInt, IntValKeeps
<1>4. v.dim \in Int
  <2>1. v.dim \in Dims
    BY DEF Iov
  <2>2. v.dim \in 0 .. LongHalf - 1
    BY <2>1, NumbersAssumption
  <2>3. QED
    BY <2>2, NumbersAssumption
<1>5. v.off + v.len <= v.dim
  <2>1. ~(Int_val(v.off + v.len) > v.dim)
    BY <1>1 DEF Refused
  <2>2. v.off + v.len \in Int
    BY UintIsInt
  <2>3. QED
    BY <1>3, <1>4, <2>1, <2>2
<1>6. v = [dim |-> v.dim, off |-> v.off, len |-> v.len]
  BY DEF Iov
<1>7. QED
  BY <1>1, <1>2, <1>5, <1>6

\* The calls keep nothing, so each one alone is enough.
LEMMA NumbersStep == ArgumentsReach /\ [NumbersNext]_numbersVars => ArgumentsReach'
<1> SUFFICES ASSUME ArgumentsReach, [NumbersNext]_numbersVars PROVE ArgumentsReach'
  OBVIOUS
<1>1. CASE \E o, n \in Amounts : caml_extunix_splice(o, n)
  <2>1. PICK o, n \in Amounts : caml_extunix_splice(o, n)
    BY <1>1
  <2>2. wanted' = File("splice", o, n) /\ got' = File("splice", Int_val(o), size_t(Int_val(n)))
    BY <2>1 DEF caml_extunix_splice
  <2>3. wanted'.fn = "splice" /\ got'.fn = "splice" /\ wanted'.off = o /\ wanted'.len = n
    BY <2>2 DEF File
  <2>4. o \in int /\ n \in uint => got' = wanted'
    BY <2>2, UintIsInt, IntValKeeps, SizeTKeeps
  <2>5. got' = wanted' => o \in int /\ n \in uint
    <3>1. got'.off = Int_val(o) /\ got'.len = size_t(Int_val(n))
      BY <2>2 DEF File
    <3>2. o \in Int
      BY NumbersAssumption
    <3>3. QED
      BY <2>3, <3>1, <3>2, IntValInRange, OnlyUintIsKept
  <2>6. QED
    BY <2>3, <2>4, <2>5 DEF ArgumentsReach
<1>2. CASE \E o, n \in Amounts : fadvise_call(o, n)
  <2>1. PICK o, n \in Amounts : fadvise_call(o, n)
    BY <1>2
  <2>2. got' = wanted' /\ got'.fn = "fadvise"
    BY <2>1 DEF fadvise_call, Long_val, File
  <2>3. QED
    BY <2>2 DEF ArgumentsReach
<1>3. CASE \E n \in Amounts : caml_extunix_tee(n)
  <2>1. PICK n \in Amounts : caml_extunix_tee(n)
    BY <1>3
  <2>2. wanted' = File("tee", 0, n) /\ got' = File("tee", 0, size_t(Int_val(n)))
    BY <2>1 DEF caml_extunix_tee
  <2>3. /\ wanted'.fn = "tee" /\ got'.fn = "tee" /\ wanted'.len = n /\ wanted'.off = 0
        /\ got'.len = size_t(Int_val(n))
    BY <2>2 DEF File
  <2>4. n \in uint => got' = wanted'
    BY <2>2, UintIsInt, IntValKeeps, SizeTKeeps
  <2>5. got' = wanted' => n \in uint
    BY <2>3, OnlyUintIsKept
  <2>6. 0 \in int
    BY NumbersAssumption DEF int
  <2>7. QED
    BY <2>3, <2>4, <2>5, <2>6 DEF ArgumentsReach
<1>4. CASE \E v_iov \in UNION {[1 .. k -> Iov] : k \in 0 .. 2} : caml_extunixba_vmsplice(v_iov)
  <2>1. PICK v_iov : /\ \A i \in DOMAIN v_iov : v_iov[i] \in Iov
                     /\ caml_extunixba_vmsplice(v_iov)
    BY <1>4
  <2>2. wanted' = [fn |-> "vmsplice", off |-> 0, len |-> 0, iov |-> v_iov]
    BY <2>1 DEF caml_extunixba_vmsplice
  <2>3. wanted'.fn = "vmsplice" /\ wanted'.iov = v_iov
    BY <2>2
  <2>4. CASE \E i \in DOMAIN v_iov : Refused(v_iov[i])
    <3>1. got'.fn = "Invalid_argument"
      BY <2>1, <2>4 DEF caml_extunixba_vmsplice, File
    <3>2. QED
      BY <2>3, <3>1 DEF ArgumentsReach
  <2>5. CASE ~ \E i \in DOMAIN v_iov : Refused(v_iov[i])
    <3> DEFINE f == [i \in DOMAIN v_iov |->
                      [dim |-> v_iov[i].dim, off |-> Int_val(v_iov[i].off),
                       len |-> size_t(Int_val(v_iov[i].len))]]
    <3>1. got' = [wanted' EXCEPT !.iov = f]
      BY <2>1, <2>5 DEF caml_extunixba_vmsplice
    <3>2. got'.iov = f
      BY <2>2, <3>1
    <3>3. ASSUME NEW i \in DOMAIN v_iov, v_iov[i].off \in uint, v_iov[i].len \in uint,
                 v_iov[i].off + v_iov[i].len \in uint
          PROVE  f[i] = v_iov[i] /\ v_iov[i].off + v_iov[i].len <= v_iov[i].dim
      BY <2>1, <2>5, <3>3, IovLies
    <3>4. DOMAIN f = DOMAIN v_iov
      OBVIOUS
    <3> HIDE DEF f
    <3>5. QED
      BY <2>3, <3>2, <3>3, <3>4 DEF ArgumentsReach
  <2>6. QED
    BY <2>4, <2>5
<1>5. CASE UNCHANGED numbersVars
  BY <1>5 DEF numbersVars, ArgumentsReach
<1>6. QED
  BY <1>1, <1>2, <1>3, <1>4, <1>5 DEF NumbersNext

\* Offsets and lengths of splice, tee, vmsplice, fadvise and fallocate with an
\* int and an OCaml int of any widths.
THEOREM ArgumentsArrive == ProcessSpec => []ArgumentsReach
<1>1. NumbersInit => ArgumentsReach
  BY DEF NumbersInit, ArgumentsReach, NoCall, File
<1>2. QED
  BY <1>1, NumbersStep, Projects, PTL

-----------------------------------------------------------------------------
(* Flags *)

\* A table gives each constructor the flag of its name, and 0 to the one flag
\* that Unix does not have.
Agrees(type, table) ==
  /\ Len(type) \in Nat /\ Len(table) = Len(type)
  /\ \A i \in 1 .. Len(type) :
       /\ type[i] # "0"
       /\ table[i] = IF type[i] = "O_SHARE_DELETE" THEN "0" ELSE type[i]

\* The loop of caml_convert_flag_list over such a table, for a list of any
\* length.
LEMMA MaskIsMeaning ==
  ASSUME NEW type, NEW table, Agrees(type, table),
         NEW n \in Nat, NEW list \in [1 .. n -> 0 .. Len(type) - 1]
  PROVE  Mask(list, table) \ {"0"} = Meaning(type, list) \ {"O_SHARE_DELETE"}
<1>1. \A i \in DOMAIN list : list[i] < Len(table) /\ list[i] + 1 \in 1 .. Len(type)
  BY DEF Agrees
<1>2. \A i \in DOMAIN list :
        /\ type[list[i] + 1] # "0"
        /\ table[list[i] + 1] = IF type[list[i] + 1] = "O_SHARE_DELETE" THEN "0"
                                ELSE type[list[i] + 1]
  BY <1>1 DEF Agrees
<1>3. Mask(list, table) = {table[list[i] + 1] : i \in DOMAIN list}
  BY <1>1 DEF Mask
<1>4. QED
  BY <1>2, <1>3 DEF Meaning

\* The tables of atfile.c, mount.c, unshare.c, mlockall.c, splice.c, wait4.c,
\* syslog.c, fadvise.c, unistd.c, resource.c, ptrace.c and sockopt.c, each
\* next to its type.
LEMMA TablesAgree ==
  ASSUME NEW f \in (ManyOf \cup OneOf) \ {"rename"}
  PROVE  Agrees(TypeOf(f), TableOf(f))
<1>1. CASE f = "at"
  <2>1. TypeOf(f) = at_flag /\ TableOf(f) = at_flags_table
    BY <1>1, Zenon DEF TypeOf, TableOf
  <2>2. Agrees(at_flag, at_flags_table)
    BY DEF Agrees, at_flag, at_flags_table
  <2>3. QED
    BY <2>1, <2>2
<1>2. CASE f = "open"
  <2>1. TypeOf(f) = open_flag /\ TableOf(f) = open_flag_table
    BY <1>2, Zenon DEF TypeOf, TableOf
  <2>2. Agrees(open_flag, open_flag_table)
    BY DEF Agrees, open_flag, open_flag_table
  <2>3. QED
    BY <2>1, <2>2
<1>3. CASE f = "mount"
  <2>1. TypeOf(f) = mount_flag /\ TableOf(f) = mountflags_table
    BY <1>3, Zenon DEF TypeOf, TableOf
  <2>2. Agrees(mount_flag, mountflags_table)
    BY DEF Agrees, mount_flag, mountflags_table
  <2>3. QED
    BY <2>1, <2>2
<1>4. CASE f = "umount2"
  <2>1. TypeOf(f) = umount2_flag /\ TableOf(f) = umountflags_table
    BY <1>4, Zenon DEF TypeOf, TableOf
  <2>2. Agrees(umount2_flag, umountflags_table)
    BY DEF Agrees, umount2_flag, umountflags_table
  <2>3. QED
    BY <2>1, <2>2
<1>5. CASE f = "clone"
  <2>1. TypeOf(f) = clone_flag /\ TableOf(f) = cloneflags_table
    BY <1>5, Zenon DEF TypeOf, TableOf
  <2>2. Agrees(clone_flag, cloneflags_table)
    BY DEF Agrees, clone_flag, cloneflags_table
  <2>3. QED
    BY <2>1, <2>2
<1>6. CASE f = "mlockall"
  <2>1. TypeOf(f) = mlockall_flag /\ TableOf(f) = mlockall_flags_table
    BY <1>6, Zenon DEF TypeOf, TableOf
  <2>2. Agrees(mlockall_flag, mlockall_flags_table)
    BY DEF Agrees, mlockall_flag, mlockall_flags_table
  <2>3. QED
    BY <2>1, <2>2
<1>7. CASE f = "splice"
  <2>1. TypeOf(f) = splice_flag /\ TableOf(f) = splice_flags_table
    BY <1>7, Zenon DEF TypeOf, TableOf
  <2>2. Agrees(splice_flag, splice_flags_table)
    BY DEF Agrees, splice_flag, splice_flags_table
  <2>3. QED
    BY <2>1, <2>2
<1>8. CASE f = "wait"
  <2>1. TypeOf(f) = wait_flag /\ TableOf(f) = wait_flag_table
    BY <1>8, Zenon DEF TypeOf, TableOf
  <2>2. Agrees(wait_flag, wait_flag_table)
    BY DEF Agrees, wait_flag, wait_flag_table
  <2>3. QED
    BY <2>1, <2>2
<1>9. CASE f = "option"
  <2>1. TypeOf(f) = log_options /\ TableOf(f) = option_table
    BY <1>9, Zenon DEF TypeOf, TableOf
  <2>2. Agrees(log_options, option_table)
    BY DEF Agrees, log_options, option_table
  <2>3. QED
    BY <2>1, <2>2
<1>10. CASE f = "facility"
  <2>1. TypeOf(f) = log_facility /\ TableOf(f) = facility_table
    BY <1>10, Zenon DEF TypeOf, TableOf
  <2>2. Agrees(log_facility, facility_table)
    BY DEF Agrees, log_facility, facility_table
  <2>3. QED
    BY <2>1, <2>2
<1>11. CASE f = "advice"
  <2>1. TypeOf(f) = advice /\ TableOf(f) = fadv_flags_table
    BY <1>11, Zenon DEF TypeOf, TableOf
  <2>2. Agrees(advice, fadv_flags_table)
    BY DEF Agrees, advice, fadv_flags_table
  <2>3. QED
    BY <2>1, <2>2
<1>12. CASE f = "sysconf"
  <2>1. TypeOf(f) = sysconf_name /\ TableOf(f) = caml_conf_table
    BY <1>12, Zenon DEF TypeOf, TableOf
  <2>2. Agrees(sysconf_name, caml_conf_table)
    BY DEF Agrees, sysconf_name, caml_conf_table
  <2>3. QED
    BY <2>1, <2>2
<1>13. CASE f = "resource"
  <2>1. TypeOf(f) = resource /\ TableOf(f) = resource_map
    BY <1>13, Zenon DEF TypeOf, TableOf
  <2>2. Agrees(resource, resource_map)
    BY DEF Agrees, resource, resource_map
  <2>3. QED
    BY <2>1, <2>2
<1>14. CASE f = "which_prio"
  <2>1. TypeOf(f) = which_prio_t /\ TableOf(f) = decode_which_prio
    BY <1>14, Zenon DEF TypeOf, TableOf
  <2>2. Agrees(which_prio_t, decode_which_prio)
    BY DEF Agrees, which_prio_t, decode_which_prio
  <2>3. QED
    BY <2>1, <2>2
<1>15. CASE f = "ptrace"
  <2>1. TypeOf(f) = ptrace_request /\ TableOf(f) = ptrace_cases
    BY <1>15, Zenon DEF TypeOf, TableOf
  <2>2. Agrees(ptrace_request, ptrace_cases)
    BY DEF Agrees, ptrace_request, ptrace_cases
  <2>3. QED
    BY <2>1, <2>2
<1>16. CASE f = "sockopt"
  <2>1. TypeOf(f) = socket_int_option_ /\ TableOf(f) = tcp_options
    BY <1>16, Zenon DEF TypeOf, TableOf
  <2>2. Agrees(socket_int_option_, tcp_options)
    BY DEF Agrees, socket_int_option_, tcp_options
  <2>3. QED
    BY <2>1, <2>2
<1>17. QED
  BY <1>1, <1>2, <1>3, <1>4, <1>5, <1>6, <1>7, <1>8, <1>9,
     <1>10, <1>11, <1>12, <1>13, <1>14, <1>15, <1>16 DEF ManyOf, OneOf

\* What each function keeps of the flags and adds to them.
LEMMA PassedIsSupported ==
  ASSUME NEW c, NEW A
  PROVE  LET named == A \ {"O_SHARE_DELETE"} IN
         /\ c \in AtCalls /\ ~(c = "unlinkat" /\ "AT_EACCESS" \in A)
              => Passed(c, named) = named \cap Supported(c)
         /\ c = "mkostemps" => Passed(c, named) = named \cup {"O_CLOEXEC"}
         /\ c \notin AtCalls \cup {"mkostemps", "rename"} => Passed(c, named) = named
<1> DEFINE named == A \ {"O_SHARE_DELETE"}
<1>1. ASSUME c \in AtCalls, ~(c = "unlinkat" /\ "AT_EACCESS" \in A)
      PROVE  {AtBit(x) : x \in named} \cap AtMask(c) = named \cap Supported(c)
  <2>1. CASE c = "fstatat"
    <3>1. /\ AtMask(c) = {"AT_SYMLINK_NOFOLLOW", "AT_NO_AUTOMOUNT"}
          /\ Supported(c) = {"AT_SYMLINK_NOFOLLOW", "AT_NO_AUTOMOUNT"}
      BY <2>1, Zenon DEF AtMask, Supported
    <3>2. QED
      BY <3>1 DEF AtBit
  <2>2. CASE c = "unlinkat"
    <3>1. AtMask(c) = {"AT_REMOVEDIR"} /\ Supported(c) = {"AT_REMOVEDIR"}
      BY <2>2, Zenon DEF AtMask, Supported
    <3>2. QED
      BY <1>1, <2>2, <3>1 DEF AtBit
  <2>3. CASE c = "linkat"
    <3>1. AtMask(c) = {"AT_SYMLINK_FOLLOW"} /\ Supported(c) = {"AT_SYMLINK_FOLLOW"}
      BY <2>3, Zenon DEF AtMask, Supported
    <3>2. QED
      BY <3>1 DEF AtBit
  <2>4. CASE c = "fchownat"
    <3>1. AtMask(c) = {"AT_SYMLINK_NOFOLLOW"} /\ Supported(c) = {"AT_SYMLINK_NOFOLLOW"}
      BY <2>4, Zenon DEF AtMask, Supported
    <3>2. QED
      BY <3>1 DEF AtBit
  <2>5. CASE c = "fchmodat"
    <3>1. AtMask(c) = {"AT_SYMLINK_NOFOLLOW"} /\ Supported(c) = {"AT_SYMLINK_NOFOLLOW"}
      BY <2>5, Zenon DEF AtMask, Supported
    <3>2. QED
      BY <3>1 DEF AtBit
  <2>6. QED
    BY <1>1, <2>1, <2>2, <2>3, <2>4, <2>5 DEF AtCalls
<1>2. c = "mkostemps" => c \notin AtCalls
  BY DEF AtCalls
<1>3. QED
  BY <1>1, <1>2 DEF Passed

LEMMA FlagsStep == FlagsAsNamed /\ [FlagsNext]_flagsVars => FlagsAsNamed'
<1> SUFFICES ASSUME FlagsAsNamed, [FlagsNext]_flagsVars PROVE FlagsAsNamed'
  OBVIOUS
<1>1. CASE \E f \in Families : \E c \in Callers(f), list \in Lists(f) : HandsOn(f, c, list)
  <2>a. PICK f \in Families : \E c \in Callers(f), list \in Lists(f) : HandsOn(f, c, list)
    BY <1>1
  <2>b. PICK c \in Callers(f) : \E list \in Lists(f) : HandsOn(f, c, list)
    BY <2>a
  <2>1. PICK list \in Lists(f) : HandsOn(f, c, list)
    BY <2>b
  <2>2. f \in (ManyOf \cup OneOf) \ {"rename"}
    BY <2>1, FlagsAssumption DEF HandsOn
  <2>3. PICK n \in Nat : list \in [1 .. n -> 0 .. Len(TypeOf(f)) - 1]
    BY FlagsAssumption DEF Lists
  <2>4. Agrees(TypeOf(f), TableOf(f))
    BY <2>2, TablesAgree
  <2>5. Mask(list, TableOf(f)) \ {"0"} = Meaning(TypeOf(f), list) \ {"O_SHARE_DELETE"}
    BY <2>3, <2>4, MaskIsMeaning
  <2>6. /\ caller' = c /\ asked' = Meaning(TypeOf(f), list)
        /\ given' = Passed(c, asked' \ {"O_SHARE_DELETE"})
    BY <2>1, <2>5 DEF HandsOn, Uses
  <2>7. QED
    BY <2>6, PassedIsSupported DEF FlagsAsNamed
<1>2. CASE \E old, new \in Names : \E list \in Lists("rename") :
             caml_extunix_renameat2(old, new, list)
  <2>1. caller' = "rename"
    BY <1>2 DEF caml_extunix_renameat2, Uses
  <2>2. "rename" \notin AtCalls /\ "rename" # "mkostemps"
    BY DEF AtCalls
  <2>3. QED
    BY <2>1, <2>2 DEF FlagsAsNamed
<1>3. CASE \E mask \in SUBSET StFlags : caml_extunix_statvfs(mask)
  BY <1>3 DEF caml_extunix_statvfs, FlagsAsNamed
<1>4. CASE UNCHANGED flagsVars
  BY <1>4 DEF flagsVars, FlagsAsNamed
<1>5. QED
  BY <1>1, <1>2, <1>3, <1>4 DEF FlagsNext

\* Every stub that takes flags, with lists of any length and any number of
\* calls: each constructor sets the flag of its own name and no other, the *at
\* functions keep those they support, mkostemps adds O_CLOEXEC (FlagsAsNamed).
THEOREM FlagsKeepTheirNames == ProcessSpec => []FlagsAsNamed
<1>1. FlagsInit => FlagsAsNamed
  BY DEF FlagsInit, FlagsAsNamed
<1>2. QED
  BY <1>1, FlagsStep, Projects, PTL DEF FlagsSpec

-----------------------------------------------------------------------------
(* The build *)

\* BuildInit without its bound: any features are found, any are disabled.
AnyBuildInit ==
  /\ os \in {"unix", "windows"}
  /\ found \subseteq Possible /\ disabled \subseteq features
  /\ \A p \in Implied : p[1] \in found => p[2] \in found
  /\ bpc = "discover" /\ config = {} /\ specific = {}
  /\ all = [real |-> {}, dummies |-> {}] /\ funcs = [yes |-> {}, no |-> {}]
  /\ symbols = {}

AnyBuildSpec == AnyBuildInit /\ [][BuildNext]_buildVars

\* The sections that are expanded.
Have == {t \in Externals \cup SharedTypes : eval_cond(section(t))}

\* What each step of the build has left.
PlatformIsReal ==
  /\ os \in {"unix", "windows"} /\ found \subseteq Possible
  /\ \A p \in Implied : p[1] \in found => p[2] \in found

BuildInv ==
  /\ PlatformIsReal
  /\ bpc \in {"discover", "expand", "compile", "done"}
  /\ bpc # "discover" => config = found \ disabled
  /\ bpc \in {"compile", "done"} =>
       /\ specific = Have \cup have_constr
       /\ all = [real |-> (Have \cap Externals) \cup SharedTypes, dummies |-> Externals \ Have]
       /\ funcs = [yes |-> Have \cap Externals, no |-> Externals \ Have]
  /\ bpc = "done" =>
       symbols = IF \E e \in config \cap Externals : ~declared(e) THEN {"error"}
                 ELSE {e \in Externals \cup Constructors : guard(e)}

LEMMA BuildInitially == AnyBuildInit => BuildInv
  BY DEF AnyBuildInit, BuildInv, PlatformIsReal

LEMMA HaveIsKept ==
  ASSUME config' = config
  PROVE  Have' = Have /\ have_constr' = have_constr
  BY DEF Have, have_constr, eval_cond

LEMMA BuildStep == BuildInv /\ [BuildNext]_buildVars => BuildInv'
<1> SUFFICES ASSUME BuildInv, [BuildNext]_buildVars PROVE BuildInv'
  OBVIOUS
<1>0. PlatformIsReal'
  BY DEF BuildInv, PlatformIsReal, Possible, BuildNext, buildVars, discover, have_expand, compile
<1>1. CASE discover
  BY <1>0, <1>1 DEF discover, BuildInv
<1>2. CASE have_expand
  <2>1. config' = config
    BY <1>2 DEF have_expand
  <2>2. /\ specific' = Have \cup have_constr
        /\ all' = [real |-> (Have \cap Externals) \cup SharedTypes, dummies |-> Externals \ Have]
        /\ funcs' = [yes |-> Have \cap Externals, no |-> Externals \ Have]
    BY <1>2 DEF have_expand, Have
  <2>3. QED
    BY <1>0, <1>2, <2>1, <2>2, HaveIsKept DEF have_expand, BuildInv
<1>3. CASE compile
  <2>1. config' = config /\ os' = os /\ found' = found /\ bpc = "compile" /\ bpc' = "done"
    BY <1>3 DEF compile
  <2>2. symbols' = IF \E e \in config' \cap Externals : ~declared(e)' THEN {"error"}
                   ELSE {e \in Externals \cup Constructors : guard(e)'}
    BY <1>3, <2>1 DEF compile, declared, guard
  <2>3. QED
    BY <1>0, <1>3, <2>1, <2>2, HaveIsKept DEF compile, BuildInv
<1>4. CASE UNCHANGED buildVars
  <2>1. config' = config /\ os' = os /\ symbols' = symbols /\ bpc' = bpc
        /\ found' = found /\ disabled' = disabled
        /\ specific' = specific /\ all' = all /\ funcs' = funcs
    BY <1>4 DEF buildVars
  <2>2. (IF \E e \in config' \cap Externals : ~declared(e)' THEN {"error"}
         ELSE {e \in Externals \cup Constructors : guard(e)'})
        = IF \E e \in config \cap Externals : ~declared(e) THEN {"error"}
          ELSE {e \in Externals \cup Constructors : guard(e)}
    BY <2>1 DEF declared, guard
  <2>3. QED
    BY <1>0, <2>1, <2>2, HaveIsKept DEF BuildInv
<1>5. QED
  BY <1>1, <1>2, <1>3, <1>4 DEF BuildNext

LEMMA SectionCases ==
  /\ section("st_flag") = {{"STATVFS"}, {"FSTATVFS"}}
  /\ section("splice_flag") = {{"SPLICE"}, {"TEE"}, {"VMSPLICE"}}
  /\ \A t \in Externals : section(t) = {{t}}
<1>1. section("st_flag") = {{"STATVFS"}, {"FSTATVFS"}}
  BY Zenon DEF section, Externals
<1>2. section("splice_flag") = {{"SPLICE"}, {"TEE"}, {"VMSPLICE"}}
  BY Zenon DEF section, Externals
<1>3. "st_flag" \notin Externals /\ "splice_flag" \notin Externals
  BY DEF Externals
<1>4. ASSUME NEW t \in Externals PROVE section(t) = {{t}}
  <2>1. t # "st_flag" /\ t # "splice_flag"
    BY <1>3
  <2>2. QED
    BY <2>1, Zenon DEF section
<1>5. QED
  BY <1>1, <1>2, <1>4, Zenon

\* An external is there if its feature is, the types if one of the features
\* that use them is.
LEMMA HaveIsConfig ==
  /\ Have \cap Externals = config \cap Externals
  /\ config \cap {"STATVFS", "FSTATVFS"} # {} => "st_flag" \in Have
  /\ config \cap {"SPLICE", "TEE", "VMSPLICE"} # {} => "splice_flag" \in Have
<1>1. \A t \in Externals : eval_cond(section(t)) <=> t \in config
  <2> SUFFICES ASSUME NEW t \in Externals PROVE eval_cond({{t}}) <=> t \in config
    BY SectionCases
  <2>1. QED
    BY DEF eval_cond
<1>2. config \cap {"STATVFS", "FSTATVFS"} # {} => eval_cond(section("st_flag"))
  <2>1. ASSUME NEW e \in {"STATVFS", "FSTATVFS"}, e \in config
        PROVE  eval_cond({{"STATVFS"}, {"FSTATVFS"}})
    <3>1. {e} \in {{"STATVFS"}, {"FSTATVFS"}} /\ \A f \in {e} : f \in config
      BY <2>1
    <3>2. QED
      BY <3>1, Zenon DEF eval_cond
  <2>2. QED
    BY <2>1, SectionCases
<1>3. config \cap {"SPLICE", "TEE", "VMSPLICE"} # {} => eval_cond(section("splice_flag"))
  <2>1. ASSUME NEW e \in {"SPLICE", "TEE", "VMSPLICE"}, e \in config
        PROVE  eval_cond({{"SPLICE"}, {"TEE"}, {"VMSPLICE"}})
    <3>1. {e} \in {{"SPLICE"}, {"TEE"}, {"VMSPLICE"}} /\ \A f \in {e} : f \in config
      BY <2>1
    <3>2. QED
      BY <3>1, Zenon DEF eval_cond
  <2>2. QED
    BY <2>1, SectionCases
<1>4. QED
  BY <1>1, <1>2, <1>3 DEF Have, SharedTypes

LEMMA TypesOfCases ==
  ASSUME NEW e
  PROVE  /\ e \in {"STATVFS", "FSTATVFS"} => TypesOf(e) = {"st_flag"}
         /\ e \in {"SPLICE", "TEE", "VMSPLICE"} => TypesOf(e) = {"splice_flag"}
         /\ e \notin {"STATVFS", "FSTATVFS", "SPLICE", "TEE", "VMSPLICE"} => TypesOf(e) = {}
  BY DEF TypesOf

\* A feature that is found on a real platform compiles and has its stub,
\* unless one whose code it uses is disabled.
LEMMA StubIsThere ==
  ASSUME PlatformIsReal, config = found \ disabled, ~Unlucky, ~Unsuited,
         NEW e \in config \cap Externals
  PROVE  declared(e) /\ guard(e)
<1>1. os = "windows" => e \in Portable
  BY DEF PlatformIsReal, Possible
<1>2. CASE e = "FSTATVFS"
  <2>1. "STATVFS" \in found
    BY <1>2 DEF PlatformIsReal, Implied
  <2>2. "STATVFS" \in config /\ os = "unix"
    BY <1>1, <1>2, <2>1 DEF Unlucky, Portable, PlatformIsReal
  <2>3. QED
    BY <1>2, <2>2 DEF declared, guard
<1>3. CASE e = "FDATASYNC"
  <2>1. "FSYNC" \in found
    BY <1>3 DEF PlatformIsReal, Implied
  <2>2. os = "windows" => "FSYNC" \in config
    BY <1>3, <2>1 DEF Unlucky
  <2>3. QED
    BY <1>3, <2>2 DEF declared, guard
<1>4. CASE e \in {"SYNC", "SYNCFS"}
  <2>1. os = "unix"
    BY <1>1, <1>4 DEF Portable, PlatformIsReal
  <2>2. QED
    BY <1>4, <2>1 DEF declared, guard
<1>5. CASE e \in {"SIOCGIFCONF", "IFADDRS"}
  <2>1. found \cap {"INET_NTOA", "INET_NTOP"} # {}
    BY <1>5 DEF PlatformIsReal, Implied
  <2>2. config \cap {"INET_NTOA", "INET_NTOP"} # {}
    BY <1>5, <2>1 DEF Unlucky
  <2>3. QED
    BY <1>5, <2>2 DEF declared, guard
<1>6. CASE e = "STATVFS"
  BY <1>6 DEF declared, guard, Unsuited
<1>7. CASE e \notin {"STATVFS", "FSTATVFS", "FDATASYNC", "SYNC", "SYNCFS",
                    "SIOCGIFCONF", "IFADDRS"}
  <2>1. e # "RENAME_WHITEOUT"
    BY DEF Externals
  <2>2. QED
    BY <1>7, <2>1 DEF declared, guard
<1>8. QED
  BY <1>2, <1>3, <1>4, <1>5, <1>6, <1>7

LEMMA BuiltIsWhole == BuildInv => BuildIsWhole
<1> SUFFICES ASSUME BuildInv, bpc = "done"
             PROVE  /\ (symbols # {"error"} /\ Links) <=> ~(Unlucky \/ Unsuited)
                    /\ funcs.yes = all.real \cap Externals /\ funcs.no = all.dummies
                    /\ funcs.yes \cup funcs.no = Externals
                    /\ specific \cap Externals = funcs.yes
  BY DEF BuildIsWhole
<1>1. /\ PlatformIsReal /\ config = found \ disabled /\ specific = Have \cup have_constr
      /\ all.real = (Have \cap Externals) \cup SharedTypes /\ all.dummies = Externals \ Have
      /\ funcs.yes = Have \cap Externals /\ funcs.no = Externals \ Have
      /\ symbols = IF \E e \in config \cap Externals : ~declared(e) THEN {"error"}
                   ELSE {e \in Externals \cup Constructors : guard(e)}
  BY DEF BuildInv
<1>2. /\ SharedTypes \cap Externals = {} /\ "error" \notin Externals \cup Constructors
      /\ Constructors \cap (Externals \cup SharedTypes) = {}
  BY DEF SharedTypes, Externals, Constructors
<1>c. have_constr = {c \in Constructors : guard(c)} /\ have_constr \subseteq Constructors
  <2>0. section("RENAMEAT2") = {{"RENAMEAT2"}}
    BY SectionCases DEF Externals
  <2>1. eval_cond(section("RENAMEAT2")) <=> "RENAMEAT2" \in config
    BY <2>0 DEF eval_cond
  <2>2. eval_cond({{"RENAME_WHITEOUT"}}) <=> "RENAME_WHITEOUT" \in config
    BY DEF eval_cond
  <2>3. guard("RENAME_WHITEOUT") <=> {"RENAMEAT2", "RENAME_WHITEOUT"} \subseteq config
    BY DEF guard
  <2>4. QED
    BY <2>1, <2>2, <2>3 DEF have_constr, Constructors
<1>3. ASSUME ~Unlucky, ~Unsuited PROVE symbols # {"error"} /\ Links
  <2>1. \A e \in config \cap Externals : declared(e) /\ guard(e)
    BY <1>1, <1>3, StubIsThere
  <2>2. symbols = {e \in Externals \cup Constructors : guard(e)}
    BY <1>1, <2>1
  <2>3. symbols # {"error"} /\ symbols \cap Constructors = have_constr
    BY <1>2, <1>c, <2>2
  <2>4. Have \cap Externals \subseteq symbols
    BY <2>1, <2>2, HaveIsConfig
  <2>5. specific \cap Externals = Have \cap Externals
        /\ all.real \cap Externals = Have \cap Externals
        /\ specific \cap Constructors = have_constr
    BY <1>1, <1>2, <1>c DEF Have
  <2>6. ASSUME NEW e \in Have \cap Externals PROVE TypesOf(e) \subseteq Have \cap SharedTypes
    <3>1. e \in config
      BY HaveIsConfig
    <3>2. QED
      BY <3>1, HaveIsConfig, TypesOfCases DEF SharedTypes
  <2>7. QED
    BY <1>1, <2>3, <2>4, <2>5, <2>6 DEF Links
<1>4. ASSUME Unlucky \/ Unsuited, symbols # {"error"}, Links PROVE FALSE
  <2>1. \A e \in config \cap Externals : declared(e)
    BY <1>1, <1>4
  <2>2. {"STATVFS", "FSTATVFS", "FDATASYNC", "SIOCGIFCONF", "IFADDRS"} \subseteq Externals
    BY DEF Externals
  <2>3. \A e \in config \cap Externals : guard(e)
    <3>1. Have \cap Externals \subseteq specific
      BY <1>1
    <3>2. config \cap Externals \subseteq symbols
      BY <1>4, <3>1, HaveIsConfig DEF Links
    <3>3. symbols = {e \in Externals \cup Constructors : guard(e)}
      BY <1>1, <2>1
    <3>4. QED
      BY <3>2, <3>3
  <2>4. CASE "FSTATVFS" \in config /\ "STATVFS" \in disabled
    <3>1. guard("FSTATVFS")
      BY <2>2, <2>3, <2>4
    <3>2. "STATVFS" \in config
      BY <3>1 DEF guard
    <3>3. QED
      BY <1>1, <2>4, <3>2
  <2>5. CASE os = "windows" /\ "FSYNC" \in disabled /\ "FDATASYNC" \in config
    <3>1. guard("FDATASYNC")
      BY <2>2, <2>3, <2>5
    <3>2. "FSYNC" \in config
      BY <2>5, <3>1 DEF guard
    <3>3. QED
      BY <1>1, <2>5, <3>2
  <2>6. CASE /\ config \cap {"INET_NTOA", "INET_NTOP"} = {}
             /\ config \cap {"SIOCGIFCONF", "IFADDRS"} # {}
    <3>1. PICK e \in {"SIOCGIFCONF", "IFADDRS"} : e \in config
      BY <2>6
    <3>2. declared(e)
      BY <2>1, <2>2, <3>1
    <3>3. declared(e) <=> config \cap {"INET_NTOA", "INET_NTOP"} # {}
      BY <3>1 DEF declared
    <3>4. QED
      BY <2>6, <3>2, <3>3
  <2>7. CASE Unsuited
    <3>1. declared("STATVFS")
      BY <2>1, <2>2, <2>7 DEF Unsuited
    <3>2. QED
      BY <2>7, <3>1 DEF declared, Unsuited
  <2>8. QED
    BY <1>4, <2>4, <2>5, <2>6, <2>7 DEF Unlucky
<1>5. (symbols # {"error"} /\ Links) <=> ~(Unlucky \/ Unsuited)
  BY <1>3, <1>4
<1>6. QED
  BY <1>1, <1>2, <1>5, <1>c

\* discover.ml, ppx_have.ml and the C files on any platform, with any features
\* missing and any disabled: what is built is whole (BuildIsWhole), except for
\* Unlucky options and the Unsuited platform with statvfs and no fstatvfs, for
\* which no build ever is.
THEOREM EveryBuildIsWhole == AnyBuildSpec => []BuildIsWhole
  BY BuildInitially, BuildStep, BuiltIsWhole, PTL DEF AnyBuildSpec

LEMMA BuildIsAnyBuild == BuildInit => AnyBuildInit
<1> SUFFICES ASSUME BuildInit PROVE AnyBuildInit
  OBVIOUS
<1>1. PICK gone \in AtMostTwo(Possible) :
        disabled \in SUBSET gone /\ found = Possible \ (gone \ disabled)
  BY DEF BuildInit
<1>2. gone \subseteq Possible
  BY DEF AtMostTwo
<1>3. Portable \subseteq features
  BY DEF Portable, features, Internal, Externals
<1>4. Possible \subseteq features
  BY <1>3 DEF Possible
<1>5. QED
  BY <1>1, <1>2, <1>4 DEF BuildInit, AnyBuildInit

\* The builds that TLC looks at are among them.
THEOREM ProcessBuildsWhole == ProcessSpec => []BuildIsWhole
  BY BuildIsAnyBuild, EveryBuildIsWhole, Projects, PTL DEF BuildSpec, AnyBuildSpec

-----------------------------------------------------------------------------
(* The flags of statvfs *)

\* What the loop of convert_st_flags computes in its first n rounds.
Rounds(mask, list, n) ==
  list = [i \in 0 .. n |-> IF i = 0 THEN <<>> ELSE Converted(mask, list, i)]

LEMMA RoundsAt ==
  ASSUME NEW mask, NEW list, NEW n \in Nat, Rounds(mask, list, n)
  PROVE  \A i \in 0 .. n : list[i] = IF i = 0 THEN <<>> ELSE Converted(mask, list, i)
BY DEF Rounds

LEMMA NextRound ==
  ASSUME NEW mask, NEW n \in Nat, \E list : Rounds(mask, list, n)
  PROVE  \E list : Rounds(mask, list, n + 1)
<1>1. PICK list : Rounds(mask, list, n)
  OBVIOUS
<1> DEFINE longer == [i \in 0 .. n + 1 |->
                       IF i <= n THEN list[i] ELSE Converted(mask, list, i)]
<1>2. \A i \in 0 .. n : longer[i] = list[i]
  OBVIOUS
<1>3. \A i \in 1 .. n + 1 : Converted(mask, longer, i) = Converted(mask, list, i)
  BY <1>2 DEF Converted
<1>4. \A i \in 0 .. n + 1 : longer[i] = IF i = 0 THEN <<>> ELSE Converted(mask, longer, i)
  BY <1>1, <1>3, RoundsAt
<1>5. Rounds(mask, longer, n + 1)
  BY <1>4 DEF Rounds
<1>6. QED
  BY <1>5

\* The definition of convert_st_flags has a value: its twelve rounds, one
\* after the other.
LEMMA TwelveRounds ==
  ASSUME NEW mask
  PROVE  \E list : Rounds(mask, list, 12) /\ convert_st_flags(mask) = list[12]
<1> DEFINE Done(n) == \E list : Rounds(mask, list, n)
<1>1. Done(0)
  <2>1. Rounds(mask, [i \in 0 .. 0 |-> <<>>], 0)
    BY DEF Rounds
  <2>2. QED
    BY <2>1
<1>2. \A n \in Nat : Done(n) => Done(n + 1)
  BY NextRound
<1> HIDE DEF Done
<1>3. Done(1) /\ Done(2) /\ Done(3)
  BY <1>1, <1>2
<1>4. Done(4) /\ Done(5) /\ Done(6)
  BY <1>3, <1>2
<1>5. Done(7) /\ Done(8) /\ Done(9)
  BY <1>4, <1>2
<1>6. Done(10) /\ Done(11) /\ Done(12)
  BY <1>5, <1>2
<1>7. QED
  BY <1>6, Zenon DEF Done, Rounds, convert_st_flags

\* A list without repetitions of the numbers below n whose flags are in the
\* mask.
Listing(mask, s, n) ==
  /\ s \in Seq(Nat)
  /\ {s[i] : i \in 1 .. Len(s)} = {l \in 0 .. n - 1 : st_flags_table[l + 1] \in mask}
  /\ \A i, j \in 1 .. Len(s) : s[i] = s[j] => i = j

LEMMA RoundLists ==
  ASSUME NEW mask, NEW n \in 0 .. 11, NEW s, Listing(mask, s, n)
  PROVE  Listing(mask, IF st_flags_table[n + 1] \in mask THEN <<n>> \o s ELSE s, n + 1)
<1>0. /\ s \in Seq(Nat) /\ Len(s) \in Nat
      /\ {s[i] : i \in 1 .. Len(s)} = {l \in 0 .. n - 1 : st_flags_table[l + 1] \in mask}
      /\ \A i, j \in 1 .. Len(s) : s[i] = s[j] => i = j
  BY DEF Listing
<1>1. \A l : l \in 0 .. (n + 1) - 1 <=> l = n \/ l \in 0 .. n - 1
  OBVIOUS
<1>2. CASE st_flags_table[n + 1] \notin mask
  <2>1. {l \in 0 .. (n + 1) - 1 : st_flags_table[l + 1] \in mask}
          = {l \in 0 .. n - 1 : st_flags_table[l + 1] \in mask}
    BY <1>1, <1>2
  <2>2. QED
    BY <1>0, <1>2, <2>1 DEF Listing
<1>3. CASE st_flags_table[n + 1] \in mask
  <2> DEFINE e == <<n>> \o s
  <2>1. /\ e \in Seq(Nat) /\ Len(e) = Len(s) + 1 /\ e[1] = n
        /\ \A i \in 1 .. Len(s) : e[i + 1] = s[i]
    BY <1>0
  <2> HIDE DEF e
  <2>2. \A i \in 1 .. Len(e) : i = 1 \/ (i - 1 \in 1 .. Len(s) /\ e[i] = s[i - 1])
    <3>1. ASSUME NEW i \in 1 .. Len(e), i # 1
          PROVE  i - 1 \in 1 .. Len(s) /\ e[(i - 1) + 1] = s[i - 1] /\ (i - 1) + 1 = i
      BY <1>0, <2>1, <3>1
    <3>2. QED
      BY <3>1
  <2>3. {e[i] : i \in 1 .. Len(e)} = {n} \cup {s[i] : i \in 1 .. Len(s)}
    <3>1. ASSUME NEW i \in 1 .. Len(e) PROVE e[i] \in {n} \cup {s[j] : j \in 1 .. Len(s)}
      BY <2>1, <2>2
    <3>2. n \in {e[i] : i \in 1 .. Len(e)}
      BY <1>0, <2>1
    <3>3. ASSUME NEW j \in 1 .. Len(s) PROVE s[j] \in {e[i] : i \in 1 .. Len(e)}
      <4>1. j + 1 \in 1 .. Len(e) /\ e[j + 1] = s[j]
        BY <1>0, <2>1
      <4>2. QED
        BY <4>1
    <3>4. QED
      BY <3>1, <3>2, <3>3
  <2>4. {l \in 0 .. (n + 1) - 1 : st_flags_table[l + 1] \in mask}
          = {n} \cup {l \in 0 .. n - 1 : st_flags_table[l + 1] \in mask}
    BY <1>1, <1>3
  <2>5. \A i \in 1 .. Len(s) : s[i] # n
    <3>1. \A i \in 1 .. Len(s) : s[i] \in 0 .. n - 1
      BY <1>0
    <3>2. n \notin 0 .. n - 1
      OBVIOUS
    <3>3. QED
      BY <3>1, <3>2
  <2>6. ASSUME NEW i \in 1 .. Len(e), NEW j \in 1 .. Len(e), e[i] = e[j] PROVE i = j
    <3>1. CASE i = 1 /\ j = 1
      BY <3>1
    <3>2. CASE i # 1 /\ j = 1
      BY <2>1, <2>2, <2>5, <2>6, <3>2
    <3>3. CASE i = 1 /\ j # 1
      BY <2>1, <2>2, <2>5, <2>6, <3>3
    <3>4. CASE i # 1 /\ j # 1
      <4>1. i - 1 = j - 1
        BY <1>0, <2>2, <2>6, <3>4
      <4>2. QED
        BY <2>1, <4>1
    <3>5. QED
      BY <3>1, <3>2, <3>3, <3>4
  <2>7. Listing(mask, e, n + 1)
    BY <1>0, <2>1, <2>3, <2>4, <2>6 DEF Listing
  <2>8. QED
    BY <1>3, <2>7 DEF e
<1>4. QED
  BY <1>2, <1>3

LEMMA LoopLists ==
  ASSUME NEW mask
  PROVE  Listing(mask, convert_st_flags(mask), 12)
<1>1. PICK list : Rounds(mask, list, 12) /\ convert_st_flags(mask) = list[12]
  BY TwelveRounds
<1> DEFINE Good(n) == Listing(mask, list[n], n)
<1>2. Good(0)
  <2>1. list[0] = <<>>
    BY <1>1, RoundsAt
  <2>2. {l \in 0 .. 0 - 1 : st_flags_table[l + 1] \in mask} = {}
    OBVIOUS
  <2>3. <<>> \in Seq(Nat) /\ Len(<<>>) = 0 /\ 1 .. 0 = {}
    OBVIOUS
  <2>4. QED
    BY <2>1, <2>2, <2>3 DEF Listing
<1>3. ASSUME NEW n \in 0 .. 11, Good(n) PROVE Good(n + 1)
  <2>1. list[n + 1] = Converted(mask, list, n + 1)
    BY <1>1, RoundsAt
  <2>2. (n + 1) - 1 = n
    OBVIOUS
  <2>3. list[n + 1] = IF st_flags_table[n + 1] \in mask THEN <<n>> \o list[n] ELSE list[n]
    BY <2>1, <2>2 DEF Converted
  <2>4. QED
    BY <1>3, <2>3, RoundLists
<1> HIDE DEF Good
<1>4. Good(1) /\ Good(2) /\ Good(3)
  BY <1>2, <1>3
<1>5. Good(4) /\ Good(5) /\ Good(6)
  BY <1>4, <1>3
<1>6. Good(7) /\ Good(8) /\ Good(9)
  BY <1>5, <1>3
<1>7. Good(10) /\ Good(11) /\ Good(12)
  BY <1>6, <1>3
<1>8. QED
  BY <1>1, <1>7 DEF Good

LEMMA LoopIsExact ==
  ASSUME NEW mask \in SUBSET StFlags, NEW s, Listing(mask, s, 12)
  PROVE  /\ Meaning(st_flag, s) = mask
         /\ \A i, j \in DOMAIN s : s[i] = s[j] => i = j
<1>1. st_flag = st_flags_table
  BY DEF st_flag, st_flags_table
<1>2. DOMAIN st_flag = 1 .. 12
  BY DEF st_flag
<1>3. DOMAIN s = 1 .. Len(s)
  BY DEF Listing
<1>4. Meaning(st_flag, s) = {st_flag[l + 1] : l \in {s[i] : i \in 1 .. Len(s)}}
  BY <1>3 DEF Meaning
<1>5. {s[i] : i \in 1 .. Len(s)} = {l \in 0 .. 11 : st_flag[l + 1] \in mask}
  <2>1. 12 - 1 = 11
    OBVIOUS
  <2>2. QED
    BY <1>1, <2>1 DEF Listing
<1>6. ASSUME NEW x \in mask PROVE \E l \in 0 .. 11 : st_flag[l + 1] = x
  <2>1. PICK i \in 1 .. 12 : st_flag[i] = x
    BY <1>2 DEF StFlags
  <2>2. i - 1 \in 0 .. 11 /\ (i - 1) + 1 = i
    OBVIOUS
  <2>3. QED
    BY <2>1, <2>2
<1>7. {st_flag[l + 1] : l \in {k \in 0 .. 11 : st_flag[k + 1] \in mask}} = mask
  BY <1>6
<1>8. QED
  BY <1>3, <1>4, <1>5, <1>7 DEF Listing

LEMMA StFlagsStep == StFlagsExact /\ [FlagsNext]_flagsVars => StFlagsExact'
<1> SUFFICES ASSUME StFlagsExact, [FlagsNext]_flagsVars PROVE StFlagsExact'
  OBVIOUS
<1>1. CASE UNCHANGED <<f_flag, f_flags>>
  BY <1>1 DEF StFlagsExact, Meaning
<1>2. CASE \E mask \in SUBSET StFlags : caml_extunix_statvfs(mask)
  <2>1. PICK mask \in SUBSET StFlags : f_flag' = mask /\ f_flags' = convert_st_flags(mask)
    BY <1>2 DEF caml_extunix_statvfs
  <2>2. /\ Meaning(st_flag, convert_st_flags(mask)) = mask
        /\ \A i, j \in DOMAIN convert_st_flags(mask) :
             convert_st_flags(mask)[i] = convert_st_flags(mask)[j] => i = j
    BY LoopLists, LoopIsExact
  <2>3. QED
    BY <2>1, <2>2 DEF StFlagsExact, Meaning
<1>3. QED
  BY <1>1, <1>2 DEF FlagsNext, flagsVars, HandsOn, caml_extunix_renameat2

\* statvfs.c: the list names the flags of the mask and no other, each once,
\* whatever flags the system answers with.
THEOREM StatvfsIsExact == ProcessSpec => []StFlagsExact
<1>1. FlagsInit => StFlagsExact
  BY DEF FlagsInit, StFlagsExact, Meaning
<1>2. QED
  BY <1>1, StFlagsStep, Projects, PTL DEF FlagsSpec

-----------------------------------------------------------------------------
(* What the stubs make of an answer *)

\* The tests that tell the failures of a convention from its successes, and
\* where the error is then.  Strptime and strftime have only one.
Plain(s) ==
  \/ /\ s.conv = "status" /\ s.test \in {"nonzero", "negative", "minus_one"}
     /\ s.raises = "errno"
  \/ s.conv = "value" /\ s.test \in {"negative", "minus_one"} /\ s.raises = "errno"
  \/ s.conv = "pointer" /\ s.test = "null" /\ s.raises = "errno"
  \/ s.conv = "sure" /\ s.test = "never"
  \/ s.conv = "code" /\ s.test = "nonzero" /\ s.raises = "ret"
  \/ s.conv = "text" /\ s.test = "null" /\ s.raises = "EINVAL"

\* The stubs with more to tell: a value that looks like a failure.
Ambiguous(s) ==
  /\ s.special = [e \in {} |-> Nothing] /\ s.gives = "out"
  /\ \/ s.conv = "signed" /\ s.test = "minus_one_errno" /\ s.raises = "errno" /\ s.resets
     \/ s.conv = "peek" /\ s.test = "minus_one_errno" /\ s.raises = "errno"
     \/ s.conv = "limit" /\ s.test = "minus_one" /\ s.raises = "errno" /\ s.name = "sysconf"
     \/ s.conv = "count" /\ s.test = "null" /\ s.raises = "EINVAL" /\ s.name = "strftime"
     \/ s.conv = "time" /\ s.test = "never" /\ s.name = "timegm"
     \/ /\ s.conv = "status" /\ s.test = "nonzero" /\ s.raises = "EINVAL"
        /\ s.name = "signalfd_read"

Matches(s) == (Plain(s) /\ s.gives \in {"out", "unit", "true"}) \/ Ambiguous(s)

LEMMA CallMatches ==
  ASSUME NEW name, NEW cv, NEW test,
         \/ cv = "status" /\ test \in {"nonzero", "negative", "minus_one"}
         \/ cv = "value" /\ test \in {"negative", "minus_one"}
         \/ cv = "pointer" /\ test = "null"
         \/ cv = "sure" /\ test = "never"
         \/ cv = "peek" /\ test = "minus_one_errno"
         \/ cv = "time" /\ test = "never" /\ name = "timegm"
  PROVE  Matches(Call(name, cv, test))
<1> DEFINE c == Call(name, cv, test)
<1>1. /\ c.name = name /\ c.conv = cv /\ c.test = test /\ c.raises = "errno"
      /\ c.gives = "out" /\ c.special = [e \in {} |-> Nothing]
  BY DEF Call
<1> HIDE DEF c
<1>2. Matches(c)
  BY <1>1 DEF Matches, Plain, Ambiguous
<1> QED
  BY <1>2 DEF c

LEMMA UnitMatches ==
  ASSUME NEW name, NEW test, test \in {"nonzero", "negative", "minus_one"}
  PROVE  Matches(Unit(name, test))
BY DEF Unit, Call, Matches, Plain

LEMMA CodeMatches ==
  ASSUME NEW name
  PROVE  Matches(Code(name)) /\ Matches([Code(name) EXCEPT !.gives = "out"])
BY DEF Code, Call, Matches, Plain

LEMMA StubsMatch ==
  ASSUME NEW s \in Calls
  PROVE  Matches(s)
<1>1. \A x \in {caml_extunix_setpgid, caml_extunix_setreuid, caml_extunix_setregid,
            caml_extunix_setresuid, caml_extunix_setresgid, caml_extunix_tcsetpgrp,
            caml_extunix_grantpt, caml_extunix_unlockpt, caml_extunix_crtscts,
            TTY_IOCTL_INT, caml_extunix_setpriority, caml_extunix_ptrace_traceme,
            caml_extunix_ptrace, caml_extunix_clearenv} :
       Matches(x)
  BY UnitMatches DEF caml_extunix_setpgid, caml_extunix_setreuid,
       caml_extunix_setregid, caml_extunix_setresuid, caml_extunix_setresgid,
       caml_extunix_tcsetpgrp, caml_extunix_grantpt, caml_extunix_unlockpt,
       caml_extunix_crtscts, TTY_IOCTL_INT, caml_extunix_setpriority,
       caml_extunix_ptrace_traceme, caml_extunix_ptrace, caml_extunix_clearenv
<1>2. \A x \in {caml_extunix_fadvise64, caml_extunix_fadvise,
            caml_extunix_fallocate64, caml_extunix_fallocate, caml_extunix_memalign} :
       Matches(x)
  BY CodeMatches DEF caml_extunix_fadvise64, caml_extunix_fadvise,
       caml_extunix_fallocate64, caml_extunix_fallocate, caml_extunix_memalign
<1>3. \A x \in {caml_extunix_ttyname, caml_extunix_ctermid, caml_extunix_gettid,
            caml_extunix_getpgid, caml_extunix_getsid, caml_extunix_tcgetpgrp,
            caml_extunix_posix_openpt, caml_extunix_ptsname,
            caml_extunix_ioctl_TIOCGWINSZ, caml_extunix_ioctl_TIOCMGET} :
       Matches(x)
  BY CallMatches DEF caml_extunix_ttyname, caml_extunix_ctermid,
       caml_extunix_gettid, caml_extunix_getpgid, caml_extunix_getsid,
       caml_extunix_tcgetpgrp, caml_extunix_posix_openpt, caml_extunix_ptsname,
       caml_extunix_ioctl_TIOCGWINSZ, caml_extunix_ioctl_TIOCMGET
<1>4. \A x \in {caml_extunix_ptrace_peekdata, caml_extunix_ptrace_peektext,
            caml_extunix_uname, caml_extunix_sysinfo, caml_extunix_uptime,
            caml_extunix_read_credentials, caml_extunix_fstatvfs,
            caml_extunix_asctime, caml_extunix_tzname, caml_extunix_timezone,
            caml_extunix_timegm} :
       Matches(x)
  BY CallMatches DEF caml_extunix_ptrace_peekdata, caml_extunix_ptrace_peektext,
       caml_extunix_uname, caml_extunix_sysinfo, caml_extunix_uptime,
       caml_extunix_read_credentials, caml_extunix_fstatvfs, caml_extunix_asctime,
       caml_extunix_tzname, caml_extunix_timezone, caml_extunix_timegm
<1>5. Matches(caml_extunix_is_open_descr)
  BY DEF caml_extunix_is_open_descr, Call, Unit, Matches, Plain, Ambiguous
<1>6. Matches(caml_extunix_getpriority)
  BY DEF caml_extunix_getpriority, Call, Unit, Matches, Plain, Ambiguous
<1>7. Matches(caml_extunix_sysconf)
  BY DEF caml_extunix_sysconf, Call, Unit, Matches, Plain, Ambiguous
<1>8. Matches(caml_extunix_setsockopt_int)
  BY DEF caml_extunix_setsockopt_int, Call, Unit, Matches, Plain, Ambiguous
<1>9. Matches(caml_extunix_getsockopt_int)
  BY DEF caml_extunix_getsockopt_int, Call, Unit, Matches, Plain, Ambiguous
<1>10. Matches(caml_extunix_dirfd)
  BY DEF caml_extunix_dirfd, Call, Unit, Matches, Plain, Ambiguous
<1>11. Matches(caml_extunix_signalfd_read)
  BY DEF caml_extunix_signalfd_read, Call, Unit, Matches, Plain, Ambiguous
<1>12. Matches(caml_extunix_strptime)
  BY DEF caml_extunix_strptime, Call, Unit, Matches, Plain, Ambiguous
<1>13. Matches(caml_extunix_strftime)
  BY DEF caml_extunix_strftime, Call, Unit, Matches, Plain, Ambiguous
<1> QED
  BY <1>1, <1>2, <1>3, <1>4, <1>5, <1>6, <1>7, <1>8, <1>9, <1>10, <1>11, <1>12, <1>13 DEF Calls

\* What ResultIsTrue asks of the result r of stub s when the system meant m.
Faithful(s, m, r) ==
  \/ m[1] = "value" /\ (IF s.gives = "out" THEN r = m ELSE r[1] = "value")
  \/ m[1] = "error" /\ r = IF m[2] \in DOMAIN s.special THEN s.special[m[2]] ELSE Error(m[2])

\* A success that the test takes for one, and a failure that it takes for one
\* and whose error it finds.
LEMMA SuccessTold ==
  ASSUME NEW s, NEW v, NEW ret, NEW err, s.gives \in {"out", "unit", "true"},
         ~Fails(s, Answer(Value(v), ret, v, err))
  PROVE  Faithful(s, Value(v), ResultOf(s, Answer(Value(v), ret, v, err)))
<1> DEFINE a == Answer(Value(v), ret, v, err)
           x == CASE s.gives = "out" -> a.out [] s.gives = "unit" -> 0 [] s.gives = "true" -> 1
<1>1. a.out = v
  BY DEF Answer
<1>2. s.gives = "out" => x = v
  BY <1>1
<1>3. ResultOf(s, a) = Value(x)
  BY Zenon DEF ResultOf
<1> HIDE DEF x, a
<1>4. Value(x)[1] = "value" /\ Value(v)[1] = "value"
  BY DEF Value
<1>5. s.gives = "out" => Value(x) = Value(v)
  BY <1>2
<1>6. Faithful(s, Value(v), Value(x))
  BY <1>4, <1>5 DEF Faithful
<1> QED
  BY <1>3, <1>6 DEF a

LEMMA FailureTold ==
  ASSUME NEW s, NEW x, NEW a, Fails(s, a), Raised(s, a) = x
  PROVE  Faithful(s, Error(x), ResultOf(s, a))
<1>1. Error(x)[1] = "error" /\ Error(x)[2] = x
  BY DEF Error
<1>2. CASE x \in DOMAIN s.special
  <2>1. ResultOf(s, a) = s.special[x]
    BY <1>2, Zenon DEF ResultOf
  <2> QED
    BY <1>1, <1>2, <2>1 DEF Faithful
<1>3. CASE x \notin DOMAIN s.special
  <2>1. ResultOf(s, a) = Error(x)
    BY <1>3, Zenon DEF ResultOf
  <2> QED
    BY <1>1, <1>3, <2>1 DEF Faithful
<1> QED
  BY <1>2, <1>3

\* When a test takes an answer for a failure, and the error it raises then.
LEMMA TestsAre ==
  ASSUME NEW s, NEW m, NEW ret, NEW out, NEW err
  PROVE  LET a == Answer(m, ret, out, err)
         IN  /\ s.test = "nonzero" => (Fails(s, a) <=> ret # 0)
             /\ s.test = "negative" => (Fails(s, a) <=> ret < 0)
             /\ s.test = "minus_one" => (Fails(s, a) <=> ret = -1)
             /\ s.test = "minus_one_errno" => (Fails(s, a) <=> ret = -1 /\ err # 0)
             /\ s.test = "null" => (Fails(s, a) <=> ret = 0)
             /\ s.test = "never" => ~Fails(s, a)
             /\ s.raises = "errno" => Raised(s, a) = err
             /\ s.raises = "ret" => Raised(s, a) = ret
             /\ s.raises = "EINVAL" => Raised(s, a) = EINVAL
             /\ a.said = m
<1> DEFINE a == Answer(m, ret, out, err)
<1>1. a.said = m /\ a.ret = ret /\ a.out = out /\ a.errno = err
  BY DEF Answer
<1> HIDE DEF a
<1>2. /\ s.test = "nonzero" => (Fails(s, a) <=> ret # 0)
      /\ s.test = "negative" => (Fails(s, a) <=> ret < 0)
      /\ s.test = "minus_one" => (Fails(s, a) <=> ret = -1)
      /\ s.test = "minus_one_errno" => (Fails(s, a) <=> ret = -1 /\ err # 0)
      /\ s.test = "null" => (Fails(s, a) <=> ret = 0)
      /\ s.test = "never" => ~Fails(s, a)
  BY <1>1 DEF Fails
<1>3. /\ s.raises = "errno" => Raised(s, a) = err
      /\ s.raises = "ret" => Raised(s, a) = ret
      /\ s.raises = "EINVAL" => Raised(s, a) = EINVAL
  BY <1>1 DEF Raised
<1> QED
  BY <1>1, <1>2, <1>3 DEF a

Told(s, a) == Faithful(s, a.said, ResultOf(s, a))

\* A success with a result the test lets through, and a failure with one it
\* does not: told as they were meant.
LEMMA TellsValue ==
  ASSUME NEW s, s.gives \in {"out", "unit", "true"}, NEW ret, NEW v, NEW err,
         ~Fails(s, Answer(Value(v), ret, v, err))
  PROVE  Told(s, Answer(Value(v), ret, v, err))
BY SuccessTold DEF Told, Answer

LEMMA TellsError ==
  ASSUME NEW s, NEW x, NEW ret, NEW out, NEW err,
         Fails(s, Answer(Error(x), ret, out, err)),
         Raised(s, Answer(Error(x), ret, out, err)) = x
  PROVE  Told(s, Answer(Error(x), ret, out, err))
BY FailureTold DEF Told, Answer

LEMMA PlainTold ==
  ASSUME NEW s, Plain(s), s.gives \in {"out", "unit", "true"}, NEW e,
         NEW a \in Answers(s.conv, e)
  PROVE  Told(s, a)
<1>1. CASE s.conv = "status" /\ s.test \in {"nonzero", "negative", "minus_one"}
           /\ s.raises = "errno"
  <2>1. \A v, err : Told(s, Answer(Value(v), 0, v, err))
    BY <1>1, TestsAre, TellsValue
  <2>2. ASSUME NEW x PROVE Told(s, Answer(Error(x), -1, 0, x))
    <3>1. Fails(s, Answer(Error(x), -1, 0, x))
      BY <1>1, TestsAre
    <3>2. Raised(s, Answer(Error(x), -1, 0, x)) = x
      BY <1>1, TestsAre
    <3> QED
      BY <3>1, <3>2, TellsError
  <2>3. a \in Filled({-1, 0, 1}) \cup Failure(-1)
    BY <1>1 DEF Answers
  <2> QED
    BY <2>1, <2>2, <2>3 DEF Filled, Failure
<1>2. CASE s.conv = "value" /\ s.test \in {"negative", "minus_one"} /\ s.raises = "errno"
  <2>1. \A v \in {0, 1} : \A err : Told(s, Answer(Value(v), v, v, err))
    BY <1>2, TestsAre, TellsValue
  <2>2. ASSUME NEW x PROVE Told(s, Answer(Error(x), -1, 0, x))
    <3>1. Fails(s, Answer(Error(x), -1, 0, x))
      BY <1>2, TestsAre
    <3>2. Raised(s, Answer(Error(x), -1, 0, x)) = x
      BY <1>2, TestsAre
    <3> QED
      BY <3>1, <3>2, TellsError
  <2>3. a \in Success({0, 1}, AnyErrno) \cup Failure(-1)
    BY <1>2 DEF Answers
  <2> QED
    BY <2>1, <2>2, <2>3 DEF Success, Failure
<1>3. CASE s.conv = "pointer" /\ s.test = "null" /\ s.raises = "errno"
  <2>1. \A v \in {1} : \A err : Told(s, Answer(Value(v), v, v, err))
    BY <1>3, TestsAre, TellsValue
  <2>2. ASSUME NEW x PROVE Told(s, Answer(Error(x), 0, 0, x))
    <3>1. Fails(s, Answer(Error(x), 0, 0, x))
      BY <1>3, TestsAre
    <3>2. Raised(s, Answer(Error(x), 0, 0, x)) = x
      BY <1>3, TestsAre
    <3> QED
      BY <3>1, <3>2, TellsError
  <2>3. a \in Success({1}, AnyErrno) \cup Failure(0)
    BY <1>3 DEF Answers
  <2> QED
    BY <2>1, <2>2, <2>3 DEF Success, Failure
<1>4. CASE s.conv = "sure" /\ s.test = "never"
  <2>1. \A v, err : Told(s, Answer(Value(v), v, v, err))
    BY <1>4, TestsAre, TellsValue
  <2>2. a \in Success({0, 1}, AnyErrno)
    BY <1>4 DEF Answers
  <2> QED
    BY <2>1, <2>2 DEF Success
<1>5. CASE s.conv = "code" /\ s.test = "nonzero" /\ s.raises = "ret"
  <2>1. \A v, err : Told(s, Answer(Value(v), 0, v, err))
    BY <1>5, TestsAre, TellsValue
  <2>2. ASSUME NEW x \in Errors, NEW y PROVE Told(s, Answer(Error(x), x, 0, y))
    <3>1. x # 0
      BY DEF Errors, EINTR, EBADF, EINVAL, ENOPROTOOPT
    <3>2. Fails(s, Answer(Error(x), x, 0, y))
      BY <1>5, <3>1, TestsAre
    <3>3. Raised(s, Answer(Error(x), x, 0, y)) = x
      BY <1>5, <3>1, TestsAre
    <3> QED
      BY <3>2, <3>3, TellsError
  <2>3. a \in Filled({1}) \cup {Answer(Error(x), x, 0, y) : x \in Errors, y \in AnyErrno}
    BY <1>5 DEF Answers
  <2> QED
    BY <2>1, <2>2, <2>3 DEF Filled
<1>6. CASE s.conv = "text" /\ s.test = "null" /\ s.raises = "EINVAL"
  <2>1. \A v \in {1} : \A err : Told(s, Answer(Value(v), v, v, err))
    BY <1>6, TestsAre, TellsValue
  <2>2. Told(s, Answer(Error(EINVAL), 0, 0, e))
    <3>1. Fails(s, Answer(Error(EINVAL), 0, 0, e))
      BY <1>6, TestsAre
    <3>2. Raised(s, Answer(Error(EINVAL), 0, 0, e)) = EINVAL
      BY <1>6, TestsAre
    <3> QED
      BY <3>1, <3>2, TellsError
  <2>3. a \in Success({1}, AnyErrno) \cup {Answer(Error(EINVAL), 0, 0, e)}
    BY <1>6 DEF Answers
  <2> QED
    BY <2>1, <2>2, <2>3 DEF Success
<1> QED
  BY <1>1, <1>2, <1>3, <1>4, <1>5, <1>6 DEF Plain

\* What a stub raises without a result of its own for the error.
LEMMA RaisesError ==
  ASSUME NEW s, s.special = [e \in {} |-> Nothing], NEW a, Fails(s, a)
  PROVE  ResultOf(s, a) = Error(Raised(s, a)) /\ ResultOf(s, a)[1] = "error"
<1>1. Raised(s, a) \notin DOMAIN s.special
  OBVIOUS
<1>2. ResultOf(s, a) = Error(Raised(s, a))
  BY <1>1, Zenon DEF ResultOf
<1> QED
  BY <1>2 DEF Error

\* Blurred, for the answer a.
Blurs(s, a) ==
  LET m == a.said
      r == ResultOf(s, a)
  IN  \/ s.name = "sysconf" /\ m = NoLimit /\ r[1] = "error"
      \/ s.name = "strftime" /\ m = Value(0) /\ r = Error(EINVAL)
      \/ s.name = "timegm" /\ m[1] = "error" /\ r = Value(-1)
      \/ s.name = "signalfd_read" /\ m[1] = "error" /\ r = Error(EINVAL)
      \/ s.conv = "peek" /\ m = Value(-1) /\ r[1] = "error"

LEMMA AmbiguousTold ==
  ASSUME NEW s, Ambiguous(s), NEW old, NEW e,
         e = IF s.resets THEN 0 ELSE old, NEW a \in Answers(s.conv, e)
  PROVE  Told(s, a) \/ Blurs(s, a)
<1>0. s.special = [x \in {} |-> Nothing] /\ s.gives = "out"
  BY DEF Ambiguous
<1>a. \A m, ret, out, err : Answer(m, ret, out, err).said = m
  BY DEF Answer
<1>b. \A x \in Errors : x # 0
  BY DEF Errors, EINTR, EBADF, EINVAL, ENOPROTOOPT
<1>c. \A x : Error(x)[1] = "error"
  BY DEF Error
<1>1. CASE s.conv = "signed" /\ s.test = "minus_one_errno" /\ s.raises = "errno" /\ s.resets
  <2>1. \A v : Told(s, Answer(Value(v), v, v, 0))
    BY <1>0, <1>1, TestsAre, TellsValue
  <2>2. ASSUME NEW x \in Errors PROVE Told(s, Answer(Error(x), -1, 0, x))
    <3>1. Fails(s, Answer(Error(x), -1, 0, x))
      BY <1>0, <1>1, <1>b, TestsAre
    <3>2. Raised(s, Answer(Error(x), -1, 0, x)) = x
      BY <1>0, <1>1, <1>b, TestsAre
    <3> QED
      BY <3>1, <3>2, TellsError
  <2>3. a \in Success({-1, 0, 1}, {0}) \cup Failure(-1)
    BY <1>1 DEF Answers
  <2> QED
    BY <2>1, <2>2, <2>3 DEF Success, Failure
<1>2. CASE s.conv = "peek" /\ s.test = "minus_one_errno" /\ s.raises = "errno"
  <2>1. ASSUME NEW v \in {-1, 0, 1}, NEW err
        PROVE  Told(s, Answer(Value(v), v, v, err)) \/ Blurs(s, Answer(Value(v), v, v, err))
    <3> DEFINE b == Answer(Value(v), v, v, err)
    <3>1. CASE ~Fails(s, b)
      BY <1>0, <3>1, TellsValue
    <3>2. CASE Fails(s, b)
      <4>1. v = -1
        BY <1>2, <3>2, TestsAre
      <4>2. ResultOf(s, b)[1] = "error"
        BY <1>0, <3>2, RaisesError
      <4> QED
        BY <1>2, <1>a, <4>1, <4>2 DEF Blurs
    <3> QED
      BY <3>1, <3>2
  <2>2. ASSUME NEW x \in Errors PROVE Told(s, Answer(Error(x), -1, 0, x))
    <3>1. Fails(s, Answer(Error(x), -1, 0, x))
      BY <1>0, <1>2, <1>b, TestsAre
    <3>2. Raised(s, Answer(Error(x), -1, 0, x)) = x
      BY <1>0, <1>2, <1>b, TestsAre
    <3> QED
      BY <3>1, <3>2, TellsError
  <2>3. a \in Success({-1, 0, 1}, {0, e}) \cup Failure(-1)
    BY <1>2 DEF Answers
  <2> QED
    BY <2>1, <2>2, <2>3 DEF Success, Failure
<1>3. CASE s.conv = "limit" /\ s.test = "minus_one" /\ s.raises = "errno" /\ s.name = "sysconf"
  <2>1. \A v \in {0, 1} : \A err : Told(s, Answer(Value(v), v, v, err))
    BY <1>0, <1>3, TestsAre, TellsValue
  <2>2. ASSUME NEW x PROVE Told(s, Answer(Error(x), -1, 0, x))
    <3>1. Fails(s, Answer(Error(x), -1, 0, x))
      BY <1>0, <1>3, TestsAre
    <3>2. Raised(s, Answer(Error(x), -1, 0, x)) = x
      BY <1>0, <1>3, TestsAre
    <3> QED
      BY <3>1, <3>2, TellsError
  <2>3. Blurs(s, Answer(NoLimit, -1, 0, e))
    <3>1. Fails(s, Answer(NoLimit, -1, 0, e))
      BY <1>3, TestsAre
    <3>2. ResultOf(s, Answer(NoLimit, -1, 0, e))[1] = "error"
      BY <1>0, <3>1, RaisesError
    <3> QED
      BY <1>3, <1>a, <3>2 DEF Blurs
  <2>4. a \in Success({0, 1}, AnyErrno) \cup Failure(-1) \cup {Answer(NoLimit, -1, 0, e)}
    BY <1>3 DEF Answers
  <2> QED
    BY <2>1, <2>2, <2>3, <2>4 DEF Success, Failure
<1>4. CASE s.conv = "count" /\ s.test = "null" /\ s.raises = "EINVAL" /\ s.name = "strftime"
  <2>1. \A err : Told(s, Answer(Value(1), 1, 1, err))
    BY <1>0, <1>4, TestsAre, TellsValue
  <2>2. Told(s, Answer(Error(EINVAL), 0, 0, e))
    <3>1. Fails(s, Answer(Error(EINVAL), 0, 0, e))
      BY <1>0, <1>4, TestsAre
    <3>2. Raised(s, Answer(Error(EINVAL), 0, 0, e)) = EINVAL
      BY <1>0, <1>4, TestsAre
    <3> QED
      BY <3>1, <3>2, TellsError
  <2>3. ASSUME NEW err PROVE Blurs(s, Answer(Value(0), 0, 0, err))
    <3>1. Fails(s, Answer(Value(0), 0, 0, err)) /\ Raised(s, Answer(Value(0), 0, 0, err)) = EINVAL
      BY <1>4, TestsAre
    <3>2. ResultOf(s, Answer(Value(0), 0, 0, err)) = Error(EINVAL)
      BY <1>0, <3>1, RaisesError
    <3> QED
      BY <1>4, <1>a, <3>2 DEF Blurs
  <2>4. a \in Success({0, 1}, AnyErrno) \cup {Answer(Error(EINVAL), 0, 0, e)}
    BY <1>4 DEF Answers
  <2> QED
    BY <2>1, <2>2, <2>3, <2>4 DEF Success
<1>5. CASE s.conv = "time" /\ s.test = "never" /\ s.name = "timegm"
  <2>1. \A v, err : Told(s, Answer(Value(v), v, v, err))
    BY <1>0, <1>5, TestsAre, TellsValue
  <2>2. ASSUME NEW x PROVE Blurs(s, Answer(Error(x), -1, -1, x))
    <3> DEFINE b == Answer(Error(x), -1, -1, x)
    <3>1. ~Fails(s, b)
      BY <1>5, TestsAre
    <3>2. b.out = -1
      BY DEF Answer
    <3> HIDE DEF b
    <3>3. ResultOf(s, b) = Value(CASE s.gives = "out" -> b.out [] s.gives = "unit" -> 0
                                   [] s.gives = "true" -> 1)
      BY <3>1, Zenon DEF ResultOf
    <3>4. (CASE s.gives = "out" -> b.out [] s.gives = "unit" -> 0 [] s.gives = "true" -> 1) = -1
      BY <1>0, <3>2
    <3>5. ResultOf(s, b) = Value(-1)
      BY <3>3, <3>4
    <3> QED
      BY <1>5, <1>a, <1>c, <3>5 DEF Blurs, b
  <2>3. a \in Success({-1, 0, 1}, AnyErrno) \cup {Answer(Error(x), -1, -1, x) : x \in Errors}
    BY <1>5 DEF Answers
  <2> QED
    BY <2>1, <2>2, <2>3 DEF Success
<1>6. CASE s.conv = "status" /\ s.test = "nonzero" /\ s.raises = "EINVAL"
           /\ s.name = "signalfd_read"
  <2>1. \A v, err : Told(s, Answer(Value(v), 0, v, err))
    BY <1>0, <1>6, TestsAre, TellsValue
  <2>2. ASSUME NEW x PROVE Blurs(s, Answer(Error(x), -1, 0, x))
    <3>1. Fails(s, Answer(Error(x), -1, 0, x)) /\ Raised(s, Answer(Error(x), -1, 0, x)) = EINVAL
      BY <1>6, TestsAre
    <3>2. ResultOf(s, Answer(Error(x), -1, 0, x)) = Error(EINVAL)
      BY <1>0, <3>1, RaisesError
    <3> QED
      BY <1>6, <1>a, <1>c, <3>2 DEF Blurs
  <2>3. a \in Filled({-1, 0, 1}) \cup Failure(-1)
    BY <1>6 DEF Answers
  <2> QED
    BY <2>1, <2>2, <2>3 DEF Filled, Failure
<1> QED
  BY <1>1, <1>2, <1>3, <1>4, <1>5, <1>6 DEF Ambiguous

LEMMA StubTells ==
  ASSUME NEW s \in Calls, CallStub(s) \/ CallEarly(s)
  PROVE  ResultIsTrue'
<1>1. CASE CallEarly(s)
  BY <1>1 DEF CallEarly, ResultIsTrue
<1>2. CASE CallStub(s)
  <2>1. PICK e : e = IF s.resets THEN 0 ELSE errno
    OBVIOUS
  <2>2. PICK a \in Answers(s.conv, e) :
          called' = s /\ said' = a.said /\ result' = ResultOf(s, a)
    BY <1>2, <2>1 DEF CallStub
  <2>3. Told(s, a) \/ Blurs(s, a)
    <3>1. CASE Plain(s) /\ s.gives \in {"out", "unit", "true"}
      BY <3>1, PlainTold
    <3>2. CASE Ambiguous(s)
      BY <2>1, <3>2, AmbiguousTold
    <3> QED
      BY <3>1, <3>2, StubsMatch DEF Matches
  <2>4. Told(s, a) => ResultIsTrue'
    BY <2>2 DEF Told, Faithful, ResultIsTrue
  <2>5. Blurs(s, a) => ResultIsTrue'
    BY <2>2 DEF Blurs, Blurred, ResultIsTrue
  <2> QED
    BY <2>3, <2>4, <2>5
<1> QED
  BY <1>1, <1>2

(***************************************************************************)
(* The program learns what the system said, from every stub, whatever is   *)
(* in errno before the call: the test and the error of each stub fit the   *)
(* convention of the function it calls, but for the cases Blurred names.   *)
(***************************************************************************)
THEOREM ResultsAreTrue == ProcessSpec => []ResultIsTrue
<1>1. ResultsInit => ResultIsTrue
  BY DEF ResultsInit, ResultIsTrue
<1>2. ResultIsTrue /\ [ResultsNext]_resultsVars => ResultIsTrue'
  <2> SUFFICES ASSUME ResultIsTrue, [ResultsNext]_resultsVars PROVE ResultIsTrue'
    OBVIOUS
  <2>1. CASE ResultsNext
    BY <2>1, StubTells DEF ResultsNext
  <2>2. CASE UNCHANGED resultsVars
    BY <2>2 DEF resultsVars, ResultIsTrue, Blurred
  <2> QED
    BY <2>1, <2>2
<1> QED
  BY <1>1, <1>2, Projects, PTL
=============================================================================
