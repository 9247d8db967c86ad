---------------------------- MODULE SyslogProofs ----------------------------
(***************************************************************************)
(* Theorems about Syslog, for any threads, strings and number of calls.    *)
(***************************************************************************)
EXTENDS Syslog, TLAPS

\* The assumption on callers: closelog between any two calls of openlog; and
\* no program calls itself by the word that stands for a closed log.
ClosedFirst == ~Reopen /\ Closed \notin Idents \cup {None}

LEMMA EncodedType ==
  ASSUME NEW list \in Seq(0 .. 7) PROVE EncodeMask(list) \in SUBSET (0 .. 7)
BY DEF EncodeMask

LEMMA InitTag == Init => TagInv
BY SyslogAssumption
   DEF Init, TagInv, TypeOK, Opening, Pcs, Null, Copies, Closed

\* The runtime, and the calls that neither touch ident nor the tag.
LEMMA QuietStep ==
  ASSUME TagInv, NEW t \in Threads,
         \/ Acquire(t) \/ Yield(t)
         \/ caml_extunix_closelog(t)
         \/ \E l \in LogLevels : caml_extunix_syslog(t, l)
         \/ \E list \in MaskArgs : caml_extunix_setlogmask(t, list)
         \/ libc_setlogmask(t)
         \/ libc_syslog_begin(t) \/ libc_syslog_end(t)
         \/ syslog_return(t) \/ setlogmask_return(t)
  PROVE  TagInv'
<1> USE SyslogAssumption DEF TagInv, Opening
<1>1. CASE Acquire(t)
  BY <1>1 DEF Acquire, TypeOK, locals, history
<1>2. CASE Yield(t)
  BY <1>2 DEF Yield, TypeOK, locals, history
<1>3. CASE caml_extunix_closelog(t)
  BY <1>3 DEF caml_extunix_closelog, Calling, TypeOK, Pcs, locals, history
<1>4. ASSUME NEW l \in LogLevels, caml_extunix_syslog(t, l) PROVE TagInv'
  BY <1>4 DEF caml_extunix_syslog, Calling, TypeOK, Pcs, locals, history
<1>5. ASSUME NEW list \in MaskArgs, caml_extunix_setlogmask(t, list) PROVE TagInv'
  <2>1. EncodeMask(list) \in SUBSET (0 .. 7)
    BY EncodedType
  <2> QED
    BY <1>5, <2>1 DEF caml_extunix_setlogmask, Calling, TypeOK, Pcs, locals, history
<1>6. CASE libc_setlogmask(t)
  BY <1>6 DEF libc_setlogmask, TypeOK, Pcs, locals, history
<1>7. CASE libc_syslog_begin(t)
  BY <1>7 DEF libc_syslog_begin, TypeOK, Pcs, locals, history
<1>8. CASE libc_syslog_end(t)
  BY <1>8 DEF libc_syslog_end, TypeOK, Pcs, locals, history
<1>9. CASE syslog_return(t)
  BY <1>9 DEF syslog_return, TypeOK, Pcs, locals, history
<1>10. CASE setlogmask_return(t)
  BY <1>10 DEF setlogmask_return, TypeOK, Pcs, locals, history
<1> QED
  BY <1>1, <1>2, <1>3, <1>4, <1>5, <1>6, <1>7, <1>8, <1>9, <1>10

\* openlog frees the old copy only while the C library has no tag.
LEMMA OpenlogStep ==
  ASSUME ClosedFirst, TagInv, NEW t \in Threads, NEW id \in Idents \cup {None},
         caml_extunix_openlog(t, id)
  PROVE  TagInv'
<1> USE SyslogAssumption DEF TagInv, Opening, Null, Copies
<1>1. opened = Closed /\ tag = Null /\ lock = t
  BY DEF caml_extunix_openlog, Calling, ClosedFirst
<1>2. \A u \in Threads : pc[u] # "openlog"
  BY <1>1 DEF caml_extunix_openlog, Calling
<1>3. FreeIdent \in [Copies -> 0 .. 1]
  BY DEF FreeIdent, TypeOK
<1>4. CASE id # None /\ copies' = FreeIdent /\ ident' = Null /\ UNCHANGED <<pc, text, opens>>
  BY <1>1, <1>2, <1>3, <1>4 DEF caml_extunix_openlog, Calling, TypeOK, locals, Closed
<1>5. CASE id = None /\ ident' = Null /\ copies' = FreeIdent /\ UNCHANGED <<text, opens>>
           /\ pc' = [pc EXCEPT ![t] = "openlog"]
  BY <1>1, <1>2, <1>3, <1>5 DEF caml_extunix_openlog, Calling, TypeOK, Pcs, locals, Closed
<1>6. CASE /\ id # None
           /\ opens'  = opens + 1
           /\ ident'  = opens'
           /\ copies' = [FreeIdent EXCEPT ![opens'] = 1]
           /\ text'   = [text EXCEPT ![opens'] = id]
           /\ pc' = [pc EXCEPT ![t] = "openlog"]
  <2>1. opens' \in Copies /\ opens' \in 0 .. MaxOpens
    BY <1>6 DEF caml_extunix_openlog, TypeOK
  <2>2. copies' \in [Copies -> 0 .. 1] /\ copies'[opens'] = 1
    BY <1>3, <1>6, <2>1
  <2>3. text' \in [Copies -> Idents \cup {None}] /\ text'[opens'] = id
    BY <1>6, <2>1 DEF TypeOK
  <2>4. TypeOK'
    BY <1>6, <2>1, <2>2, <2>3 DEF caml_extunix_openlog, Calling, TypeOK, Pcs, locals
  <2>5. \A u \in Threads : Opening(u)'
    BY <1>1, <1>2, <1>6, <2>1, <2>3 DEF caml_extunix_openlog, TypeOK
  <2>6. \A u \in Threads : pc'[u] \in {"openlog", "closelog"} => lock' = u
    BY <1>1, <1>6 DEF caml_extunix_openlog, TypeOK
  <2> QED
    BY <1>1, <1>6, <2>1, <2>2, <2>3, <2>4, <2>5, <2>6 DEF caml_extunix_openlog, Closed
<1> QED
  BY <1>4, <1>5, <1>6 DEF caml_extunix_openlog

LEMMA LibcStep ==
  ASSUME ClosedFirst, TagInv, NEW t \in Threads, libc_openlog(t) \/ libc_closelog(t)
  PROVE  TagInv'
<1> USE SyslogAssumption DEF TagInv, Opening, Null, Copies
<1>1. CASE libc_openlog(t)
  <2>1. tag = Null /\ lock = t /\ asked[t] \in Idents \cup {None}
    BY <1>1 DEF libc_openlog, TypeOK
  <2>2. \A u \in Threads : pc'[u] # "openlog"
    BY <1>1, <2>1 DEF libc_openlog, TypeOK
  <2>3. TypeOK'
    BY <1>1, <2>1 DEF libc_openlog, TypeOK, Pcs, locals
  <2> QED
    BY <1>1, <2>1, <2>2, <2>3 DEF libc_openlog, TypeOK, ClosedFirst, locals
<1>2. CASE libc_closelog(t)
  <2>1. lock = t
    BY <1>2 DEF libc_closelog
  <2>2. \A u \in Threads : pc'[u] # "openlog"
    BY <1>2, <2>1 DEF libc_closelog, TypeOK
  <2>3. TypeOK'
    BY <1>2 DEF libc_closelog, TypeOK, Pcs, locals
  <2> QED
    BY <1>2, <2>1, <2>2, <2>3 DEF libc_closelog, TypeOK, locals
<1> QED
  BY <1>1, <1>2

(***************************************************************************)
(* If every openlog but the first comes after a closelog, the C library's  *)
(* tag is always the copy that openlog keeps, or nothing.                  *)
(***************************************************************************)
THEOREM TagInvariance == ASSUME ClosedFirst PROVE Spec => []TagInv
<1>1. TagInv /\ [Next]_vars => TagInv'
  <2> SUFFICES ASSUME TagInv, [Next]_vars PROVE TagInv'
    OBVIOUS
  <2>1. CASE UNCHANGED vars
    BY <2>1 DEF vars, locals, history, TagInv, TypeOK, Opening
  <2>2. CASE Next
    BY <2>2, QuietStep, OpenlogStep, LibcStep DEF Next, Libc
  <2> QED
    BY <2>1, <2>2
<1> QED
  BY InitTag, <1>1, PTL DEF Spec

(***************************************************************************)
(* No thread inside syslog reads a freed ident, whatever other threads do  *)
(* with openlog and closelog.                                              *)
(***************************************************************************)
THEOREM TagIsSafe == ASSUME ClosedFirst PROVE Spec => []TagAlive
<1>1. TagInv => TagAlive
  BY DEF TagInv, TagAlive
<1> QED
  BY <1>1, TagInvariance, PTL

(***************************************************************************)
(* Each message carries the ident of the openlog in force, and none after  *)
(* closelog or an openlog without ident.                                   *)
(***************************************************************************)
THEOREM MessagesAreTagged == ASSUME ClosedFirst PROVE Spec => []TagIsCurrent
<1>1. TagInv => TagIsCurrent
  BY DEF TagInv, TagIsCurrent, ClosedFirst
<1> QED
  BY <1>1, TagInvariance, PTL

(***************************************************************************)
(* No copy of an ident is freed twice (TypeOK), also when the allocation   *)
(* of the next one fails.                                                  *)
(***************************************************************************)
THEOREM CopiesFreedOnce == ASSUME ClosedFirst PROVE Spec => []TypeOK
<1>1. TagInv => TypeOK
  BY DEF TagInv
<1> QED
  BY <1>1, TagInvariance, PTL

-----------------------------------------------------------------------------
(* The mask. *)

\* What the loop of setlogmask computes in its first n rounds.
Rounds(m, list, n) ==
  list = [i \in 0 .. n |-> IF i = 0 THEN <<>> ELSE Listed(m, list, i)]

LEMMA NextRound ==
  ASSUME NEW m, NEW n \in Nat, \E list : Rounds(m, list, n)
  PROVE  \E list : Rounds(m, list, n + 1)
<1>1. PICK list : Rounds(m, list, n)
  OBVIOUS
<1> DEFINE longer == [i \in 0 .. n + 1 |-> IF i <= n THEN list[i] ELSE Listed(m, list, i)]
<1>2. \A i \in 0 .. n : longer[i] = list[i]
  OBVIOUS
<1>3. \A i \in 1 .. n + 1 : Listed(m, longer, i) = Listed(m, list, i)
  BY <1>2 DEF Listed
<1>4. \A i \in 0 .. n : list[i] = IF i = 0 THEN <<>> ELSE Listed(m, list, i)
  BY <1>1 DEF Rounds
<1>5. \A i \in 0 .. n + 1 : longer[i] = IF i = 0 THEN <<>> ELSE Listed(m, longer, i)
  BY <1>3, <1>4
<1>6. Rounds(m, longer, n + 1)
  BY <1>5 DEF Rounds
<1> QED
  BY <1>6

\* The definition of DecodeMask has a value: its eight rounds, one after the
\* other.
LEMMA EightRounds ==
  ASSUME NEW m
  PROVE  \E list : Rounds(m, list, 8) /\ DecodeMask(m) = list[8]
<1>0. \E list : Rounds(m, list, 0)
  <2>1. Rounds(m, [i \in 0 .. 0 |-> <<>>], 0)
    BY DEF Rounds
  <2> QED
    BY <2>1
<1>1. \E list : Rounds(m, list, 1)
  BY <1>0, NextRound
<1>2. \E list : Rounds(m, list, 2)
  BY <1>1, NextRound
<1>3. \E list : Rounds(m, list, 3)
  BY <1>2, NextRound
<1>4. \E list : Rounds(m, list, 4)
  BY <1>3, NextRound
<1>5. \E list : Rounds(m, list, 5)
  BY <1>4, NextRound
<1>6. \E list : Rounds(m, list, 6)
  BY <1>5, NextRound
<1>7. \E list : Rounds(m, list, 7)
  BY <1>6, NextRound
<1>8. \E list : Rounds(m, list, 8)
  BY <1>7, NextRound
<1> QED
  BY <1>8, Zenon DEF Rounds, DecodeMask

LEMMA RoundsAt ==
  ASSUME NEW m, NEW list, NEW n \in Nat, Rounds(m, list, n)
  PROVE  \A i \in 0 .. n : list[i] = IF i = 0 THEN <<>> ELSE Listed(m, list, i)
BY DEF Rounds

\* The levels below a bound.
LEMMA Below ==
  ASSUME NEW m \in SUBSET (0 .. 7), NEW n \in 0 .. 7
  PROVE  /\ {l \in m : l < 0} = {} /\ {l \in m : l < 8} = m
         /\ n \in m => {l \in m : l < n + 1} = {n} \cup {l \in m : l < n}
         /\ n \notin m => {l \in m : l < n + 1} = {l \in m : l < n}
<1>1. \A l \in m : l \in 0 .. 7
  OBVIOUS
<1>2. \A l \in m : l < n + 1 <=> l = n \/ l < n
  BY <1>1
<1>3. \A l \in m : ~(l < 0) /\ l < 8
  BY <1>1
<1>4. {l \in m : l < 0} = {} /\ {l \in m : l < 8} = m
  BY <1>3
<1>5. n < n + 1
  OBVIOUS
<1>6. ASSUME n \in m PROVE {l \in m : l < n + 1} = {n} \cup {l \in m : l < n}
  BY <1>2, <1>5, <1>6
<1>7. ASSUME n \notin m PROVE {l \in m : l < n + 1} = {l \in m : l < n}
  BY <1>2, <1>7
<1> QED
  BY <1>4, <1>6, <1>7

\* One round adds one level.
LEMMA RoundAdds ==
  ASSUME NEW m \in SUBSET (0 .. 7), NEW list, Rounds(m, list, 8), NEW n \in 0 .. 7,
         list[n] \in Seq(0 .. 7), EncodeMask(list[n]) = {l \in m : l < n}
  PROVE  /\ list[n + 1] \in Seq(0 .. 7)
         /\ EncodeMask(list[n + 1]) = {l \in m : l < n + 1}
<1>1. list[n + 1] = IF n \in m THEN <<n>> \o list[n] ELSE list[n]
  <2>1. list[n + 1] = Listed(m, list, n + 1)
    BY RoundsAt
  <2>2. (n + 1) - 1 = n
    OBVIOUS
  <2> QED
    BY <2>1, <2>2 DEF Listed
<1>2. CASE n \notin m
  BY <1>1, <1>2, Below
<1>3. CASE n \in m
  <2> DEFINE s == list[n]
             e == <<n>> \o s
  <2>1. s \in Seq(0 .. 7) /\ Len(s) \in Nat
    OBVIOUS
  <2>2. e \in Seq(0 .. 7) /\ Len(e) = Len(s) + 1 /\ e[1] = n
        /\ \A i \in 1 .. Len(s) : e[i + 1] = s[i]
    BY <2>1
  <2> HIDE DEF s, e
  <2>3. {e[i] : i \in 1 .. Len(e)} = {n} \cup {s[i] : i \in 1 .. Len(s)}
    <3>1. ASSUME NEW i \in 1 .. Len(e) PROVE e[i] \in {n} \cup {s[j] : j \in 1 .. Len(s)}
      <4>1. CASE i = 1
        BY <2>2, <4>1
      <4>2. CASE i # 1
        <5>1. i - 1 \in 1 .. Len(s) /\ e[(i - 1) + 1] = s[i - 1]
          BY <2>1, <2>2, <4>2
        <5> QED
          BY <5>1
      <4> QED
        BY <4>1, <4>2
    <3>2. n \in {e[i] : i \in 1 .. Len(e)}
      BY <2>1, <2>2
    <3>3. ASSUME NEW j \in 1 .. Len(s) PROVE s[j] \in {e[i] : i \in 1 .. Len(e)}
      BY <2>1, <2>2
    <3> QED
      BY <3>1, <3>2, <3>3
  <2>4. EncodeMask(e) = {n} \cup EncodeMask(s)
    <3>1. DOMAIN e = 1 .. Len(e) /\ DOMAIN s = 1 .. Len(s)
      BY <2>1, <2>2
    <3> QED
      BY <2>3, <3>1 DEF EncodeMask
  <2>5. list[n + 1] = e /\ EncodeMask(s) = {l \in m : l < n}
    BY <1>1, <1>3 DEF s, e
  <2> QED
    BY <1>3, <2>2, <2>4, <2>5, Below
<1> QED
  BY <1>2, <1>3

\* The list of setlogmask, given to setlogmask, is the mask again.
LEMMA DecodeEncode ==
  ASSUME NEW m \in SUBSET (0 .. 7)
  PROVE  DecodeMask(m) \in Seq(0 .. 7) /\ EncodeMask(DecodeMask(m)) = m
<1>1. PICK list : Rounds(m, list, 8) /\ DecodeMask(m) = list[8]
  BY EightRounds
<1> DEFINE Good(n) == list[n] \in Seq(0 .. 7) /\ EncodeMask(list[n]) = {l \in m : l < n}
<1>a. Good(0)
  <2>1. list[0] = <<>>
    BY <1>1, RoundsAt
  <2>2. EncodeMask(<<>>) = {}
    BY DEF EncodeMask
  <2>3. {l \in m : l < 0} = {}
    BY Below
  <2> QED
    BY <2>1, <2>2, <2>3
<1>b. \A n \in 0 .. 7 : Good(n) => Good(n + 1)
  BY <1>1, RoundAdds
<1> HIDE DEF Good
<1>c. Good(8)
  <2>1. Good(1) /\ Good(2)
    BY <1>a, <1>b
  <2>2. Good(3) /\ Good(4)
    BY <2>1, <1>b
  <2>3. Good(5) /\ Good(6)
    BY <2>2, <1>b
  <2> QED
    BY <2>3, <1>b
<1> QED
  BY <1>1, <1>c, Below DEF Good

-----------------------------------------------------------------------------
\* Only between the system's answer and the return of the stub does the list
\* that was returned last not stand for the old mask.
AnswerIsOld ==
  \A t \in Threads : pc[t] # "setlogmask_return" => EncodeMask(answer[t]) = old[t]

MaskTypeOK ==
  /\ pc \in [Threads -> Pcs]
  /\ mask \in SUBSET (0 .. 7)
  /\ request \in [Threads -> SUBSET (0 .. 7)]
  /\ old \in [Threads -> SUBSET (0 .. 7)]
  /\ answer \in [Threads -> Seq(0 .. 7)]

MaskInv == MaskTypeOK /\ AnswerIsOld

LEMMA InitMask == Init => MaskInv
<1> SUFFICES ASSUME Init PROVE MaskInv
  OBVIOUS
<1>1. Descending \in Seq(0 .. 7) /\ EncodeMask(Descending) = 0 .. 7
  BY DEF Descending, EncodeMask
<1> QED
  BY <1>1 DEF Init, MaskInv, MaskTypeOK, AnswerIsOld, Pcs

\* The steps that are not about the mask.
LEMMA OtherStep ==
  ASSUME MaskInv, NEW t \in Threads,
         UNCHANGED <<mask, old, answer>>,
         request' \in [Threads -> SUBSET (0 .. 7)],
         \/ pc' = pc
         \/ /\ pc[t] # "setlogmask_return"
            /\ \E p \in Pcs : pc' = [pc EXCEPT ![t] = p]
  PROVE  MaskInv'
<1>1. MaskTypeOK'
  BY DEF MaskInv, MaskTypeOK
<1>2. ASSUME NEW u \in Threads, pc'[u] # "setlogmask_return"
      PROVE  EncodeMask(answer'[u]) = old'[u]
  <2>1. pc[u] # "setlogmask_return"
    BY <1>2 DEF MaskInv, MaskTypeOK
  <2> QED
    BY <2>1 DEF MaskInv, AnswerIsOld
<1> QED
  BY <1>1, <1>2 DEF MaskInv, AnswerIsOld

LEMMA MaskStep == MaskInv /\ [Next]_vars => MaskInv'
<1> SUFFICES ASSUME MaskInv, [Next]_vars PROVE MaskInv'
  OBVIOUS
<1>0. request \in [Threads -> SUBSET (0 .. 7)] /\ pc \in [Threads -> Pcs]
  BY DEF MaskInv, MaskTypeOK
<1>1. CASE UNCHANGED vars
  BY <1>1 DEF vars, locals, MaskInv, MaskTypeOK, AnswerIsOld
<1>2. ASSUME NEW t \in Threads,
             \/ Acquire(t) \/ Yield(t)
             \/ \E id \in Idents \cup {None} : caml_extunix_openlog(t, id)
             \/ caml_extunix_closelog(t)
             \/ \E l \in LogLevels : caml_extunix_syslog(t, l)
             \/ libc_openlog(t) \/ libc_closelog(t)
             \/ libc_syslog_begin(t) \/ libc_syslog_end(t)
             \/ syslog_return(t)
      PROVE  MaskInv'
  <2>1. UNCHANGED <<mask, request, old, answer>>
    BY <1>2 DEF Acquire, Yield, caml_extunix_openlog, caml_extunix_closelog, caml_extunix_syslog,
                libc_openlog, libc_closelog, libc_syslog_begin, libc_syslog_end, syslog_return,
                locals
  <2>2. \/ pc' = pc
        \/ /\ pc[t] # "setlogmask_return"
           /\ \E p \in Pcs : pc' = [pc EXCEPT ![t] = p]
    BY <1>2 DEF Acquire, Yield, caml_extunix_openlog, caml_extunix_closelog, caml_extunix_syslog,
                libc_openlog, libc_closelog, libc_syslog_begin, libc_syslog_end, syslog_return,
                Calling, Pcs
  <2> QED
    BY <1>0, <2>1, <2>2, OtherStep
<1>3. ASSUME NEW t \in Threads, NEW list \in MaskArgs, caml_extunix_setlogmask(t, list)
      PROVE  MaskInv'
  <2>1. EncodeMask(list) \in SUBSET (0 .. 7)
    BY SyslogAssumption, EncodedType
  <2>2. request' \in [Threads -> SUBSET (0 .. 7)]
    BY <1>0, <1>3, <2>1 DEF caml_extunix_setlogmask
  <2>3. UNCHANGED <<mask, old, answer>> /\ pc[t] # "setlogmask_return"
        /\ pc' = [pc EXCEPT ![t] = "setlogmask"] /\ "setlogmask" \in Pcs
    BY <1>3 DEF caml_extunix_setlogmask, Calling, Pcs
  <2> QED
    BY <2>2, <2>3, OtherStep
<1>4. ASSUME NEW t \in Threads, libc_setlogmask(t) PROVE MaskInv'
  <2>1. pc' = [pc EXCEPT ![t] = "setlogmask_return"] /\ "setlogmask_return" \in Pcs
    BY <1>4 DEF libc_setlogmask, Pcs
  <2>2. MaskTypeOK'
    BY <1>4, <2>1 DEF libc_setlogmask, MaskInv, MaskTypeOK
  <2>3. AnswerIsOld'
    BY <1>4, <2>1 DEF libc_setlogmask, MaskInv, MaskTypeOK, AnswerIsOld
  <2> QED
    BY <2>2, <2>3 DEF MaskInv
<1>5. ASSUME NEW t \in Threads, setlogmask_return(t) PROVE MaskInv'
  <2>1. old[t] \in SUBSET (0 .. 7)
    BY DEF MaskInv, MaskTypeOK
  <2>2. DecodeMask(old[t]) \in Seq(0 .. 7) /\ EncodeMask(DecodeMask(old[t])) = old[t]
    BY <2>1, DecodeEncode
  <2>3. pc' = [pc EXCEPT ![t] = "ocaml"] /\ "ocaml" \in Pcs
        /\ answer' = [answer EXCEPT ![t] = DecodeMask(old[t])]
        /\ UNCHANGED <<mask, request, old>>
    BY <1>5 DEF setlogmask_return, Pcs
  <2>4. MaskTypeOK'
    BY <2>2, <2>3 DEF MaskInv, MaskTypeOK
  <2>5. AnswerIsOld'
    BY <2>2, <2>3 DEF MaskInv, MaskTypeOK, AnswerIsOld
  <2> QED
    BY <2>4, <2>5 DEF MaskInv
<1> QED
  BY <1>1, <1>2, <1>3, <1>4, <1>5 DEF Next, Libc

(***************************************************************************)
(* The list that setlogmask returned is the mask before it, for any number *)
(* of threads and any masks, whoever changes the mask between the call of  *)
(* the C library and the end of the stub; also for callers that open the   *)
(* log twice.                                                              *)
(***************************************************************************)
THEOREM MaskIsRestorable == Spec => []MaskRestorable
<1>1. MaskInv => MaskRestorable
  BY DEF MaskInv, AnswerIsOld, MaskRestorable
<1> QED
  BY <1>1, InitMask, MaskStep, PTL DEF Spec
=============================================================================
