---------------------------- MODULE FdPassProofs ----------------------------
(***************************************************************************)
(* Descriptor passing, for any number of senders, messages of any size, a  *)
(* buffer, a socket and a descriptor table of any size.                    *)
(***************************************************************************)
EXTENDS FdPass, TLAPS, SequenceTheorems, FiniteSetTheorems, WellFoundedInduction

Octet == Msg \X Nat

SockType ==
  /\ stream \in BOOLEAN /\ creds \in BOOLEAN /\ proto \in {"any", "fd"} /\ shut \in BOOLEAN
  /\ queue \in Seq(Piece)

SendType ==
  /\ calls \in 0 .. MaxSends
  /\ req \in [Msg -> [size : Nat, fd : BOOLEAN]]
  /\ sender \in [Senders -> 0 .. MaxSends]
  /\ ret \in [Msg -> Int]
  /\ outcome \in [Msg -> {"none", "unit", "raised"}]
  /\ desc \in [Msg -> {"kept", "flight", "installed", "dropped", "closed"}]

RecvType ==
  /\ pc \in {"ocaml", "back"}
  /\ msg \in [len : Int, data : Seq(Octet), cmsg : {"none", "rights", "other"}, fd : 0 .. MaxSends]
  /\ known \in SUBSET Msg /\ leaked \in SUBSET Msg
  /\ due \in Seq(Octet)
  /\ last \in [result : {"none", "ok", "no descriptor", "Unix_error", "Out_of_memory", "EINVAL"},
               fds : SUBSET Msg, data : Seq(Octet), due : Seq(Octet)]

FdType == SockType /\ SendType /\ RecvType

\* The senders: a message belongs to one call, which is over or not.
SenderInv ==
  /\ \A t \in Senders : sender[t] <= calls
  /\ \A t \in Senders : sender[t] # 0 => outcome[sender[t]] = "none"
  /\ \A t, u \in Senders : sender[t] = sender[u] /\ sender[t] # 0 => t = u
  /\ shut => \A t \in Senders : sender[t] = 0

\* What the system has taken of message m, and what became of its descriptor.
Taken(m) ==
  /\ ret[m] >= -1 /\ ret[m] <= req[m].size
  /\ m > calls => ret[m] = -1 /\ outcome[m] = "none"
  /\ ret[m] = -1 => desc[m] = "kept"
  /\ ret[m] = 0 => req[m].size = 0
  /\ ret[m] > 0 /\ req[m].fd => desc[m] # "kept"
  /\ outcome[m] = "raised" => ret[m] = -1
  /\ outcome[m] = "unit" => ret[m] # -1
  /\ proto = "fd" /\ m <= calls => req[m].size = 1 /\ req[m].fd

SendInv == SenderInv /\ \A m \in Msg : Taken(m)

\* What is in the socket.
PieceInv(i) ==
  /\ queue[i].msg <= calls
  /\ queue[i].fd => desc[queue[i].msg] = "flight"
  /\ ~stream => queue[i].pos = req[queue[i].msg].size
  /\ proto = "fd" => queue[i].fd

\* The bytes behind one with a descriptor belong to its message, up to the
\* end of the piece.
Block(i) == \E j \in DOMAIN queue : 
  /\ i <= j /\ queue[j].end
  /\ \A k \in DOMAIN queue : i <= k /\ k <= j => queue[k].msg = queue[i].msg

QueueInv ==
  /\ Len(queue) <= Room
  /\ \A i \in DOMAIN queue : PieceInv(i)
  /\ \A i, j \in DOMAIN queue :
       queue[i].fd /\ queue[j].fd /\ queue[i].msg = queue[j].msg => i = j
  /\ \A m \in Msg : desc[m] = "flight" =>
       \E i \in DOMAIN queue : queue[i].fd /\ queue[i].msg = m
  /\ stream => \A i \in DOMAIN queue : queue[i].fd => queue[i].pos = 1 /\ Block(i)

\* The descriptor of the answer that the stub has in its hand.
InHand == {m \in {msg.fd} : msg.cmsg = "rights"}

OwnerInv ==
  /\ known \cap leaked = {} /\ InHand \cap (known \cup leaked) = {}
  /\ Installed = known \cup leaked \cup InHand
  /\ Cardinality(Installed) <= MaxFds

AnswerInv ==
  /\ pc = "ocaml" => msg = NoMsg
  /\ msg.len = -1 => msg.data = <<>> /\ msg.cmsg = "none"
  /\ msg.len # -1 => msg.len = Len(msg.data)
  /\ msg.len <= sizeof_buf

\* d is what may come with the descriptor m.
Companion(m, d) ==
  IF stream
  THEN \E i \in DOMAIN d : d[i] = <<m, 1>> /\ \A j \in i .. Len(d) : d[j][1] = m
  ELSE \A i \in DOMAIN d : d[i] = <<m, i>>

Complete(d) ==
  /\ \A i \in DOMAIN d : d[i][1] <= calls
  /\ ~stream /\ Len(d) < sizeof_buf => \A i \in DOMAIN d : Len(d) = req[d[i][1]].size

DataInv ==
  /\ msg.cmsg = "rights" => Companion(msg.fd, msg.data)
  /\ \A m \in last.fds : Companion(m, last.data)
  /\ Complete(msg.data) /\ Complete(last.data)

AtEnd == shut /\ queue = <<>>
Dropped == \E m \in Msg : desc[m] = "dropped"

EndInv ==
  /\ stream /\ pc = "back" /\ msg.len = 0 => AtEnd
  /\ proto = "fd" /\ pc = "back" /\ msg.len # -1 /\ msg.cmsg = "none" =>
       (stream /\ AtEnd) \/ Dropped
  /\ EmptyIsEnd /\ RecvfdFinds

FdInv == /\ FdType /\ SendInv /\ QueueInv /\ OwnerInv /\ AnswerInv
         /\ StreamInOrder /\ DataInv /\ EndInv

-----------------------------------------------------------------------------
(* Numbers and sequences. *)

LEMMA MaxWithZero ==
  ASSUME NEW x \in Int
  PROVE  /\ Max({x, 0}) = IF x >= 0 THEN x ELSE 0
         /\ Max({0, x}) = IF x >= 0 THEN x ELSE 0
<1>1. {0, x} = {x, 0}
  OBVIOUS
<1>2. CASE x >= 0
  <2>1. \A y \in {x, 0} : (\A z \in {x, 0} : y >= z) <=> y = x
    BY <1>2
  <2>2. QED
    BY <1>1, <1>2, <2>1 DEF Max
<1>3. CASE x < 0
  <2>1. \A y \in {x, 0} : (\A z \in {x, 0} : y >= z) <=> y = 0
    BY <1>3
  <2>2. QED
    BY <1>1, <1>3, <2>1 DEF Max
<1>4. QED
  BY <1>2, <1>3

LEMMA MinExists ==
  ASSUME NEW S \in SUBSET Nat, S # {}
  PROVE  Min(S) \in S /\ \A y \in S : Min(S) <= y
<1>1. PICK x \in S : \A y \in S : ~ (<<y, x>> \in OpToRel(<, Nat))
  BY NatLessThanWellFounded, WFMin
<1>2. \A y \in S : y \in Nat /\ x \in Nat => ~ (y < x)
  BY <1>1, Zenon DEF OpToRel
<1>3. \A y \in S : x <= y
  BY <1>2
<1>4. QED
  BY <1>3 DEF Min

LEMMA PieceType ==
  ASSUME NEW q \in Seq(Piece), NEW i \in DOMAIN q
  PROVE  /\ q[i] \in Piece /\ q[i].msg \in Msg /\ q[i].pos \in Nat
         /\ q[i].fd \in BOOLEAN /\ q[i].end \in BOOLEAN
         /\ i \in 1 .. Len(q) /\ i \in Nat
<1>1. q[i] \in Piece /\ i \in 1 .. Len(q) /\ Len(q) \in Nat
  OBVIOUS
<1>2. QED
  BY <1>1 DEF Piece

LEMMA BytesType ==
  ASSUME NEW q \in Seq(Piece)
  PROVE  /\ Bytes(q) \in Seq(Octet) /\ Len(Bytes(q)) = Len(q)
         /\ \A i \in 1 .. Len(q) : Bytes(q)[i] = <<q[i].msg, q[i].pos>>
<1>1. DOMAIN q = 1 .. Len(q) /\ Len(q) \in Nat
  OBVIOUS
<1>2. \A i \in 1 .. Len(q) : q[i] \in Piece
  OBVIOUS
<1>3. \A i \in 1 .. Len(q) : <<q[i].msg, q[i].pos>> \in Octet
  BY <1>2 DEF Octet, Piece
<1>4. Bytes(q) = [i \in 1 .. Len(q) |-> <<q[i].msg, q[i].pos>>]
  BY <1>1 DEF Bytes
<1>5. QED
  BY <1>1, <1>3, <1>4

LEMMA BytesConcat ==
  ASSUME NEW p \in Seq(Piece), NEW q \in Seq(Piece)
  PROVE  Bytes(p \o q) = Bytes(p) \o Bytes(q)
<1>1. PICK r \in Seq(Piece) : r = p \o q
  BY ConcatProperties
<1>2. PICK a \in Seq(Octet), b \in Seq(Octet), c \in Seq(Octet) :
        /\ a = Bytes(p) /\ Len(a) = Len(p)
        /\ b = Bytes(q) /\ Len(b) = Len(q)
        /\ c = Bytes(r) /\ Len(c) = Len(r)
        /\ \A i \in 1 .. Len(p) : a[i] = <<p[i].msg, p[i].pos>>
        /\ \A i \in 1 .. Len(q) : b[i] = <<q[i].msg, q[i].pos>>
        /\ \A i \in 1 .. Len(r) : c[i] = <<r[i].msg, r[i].pos>>
  <2>1. /\ Bytes(p) \in Seq(Octet) /\ Len(Bytes(p)) = Len(p)
        /\ \A i \in 1 .. Len(p) : Bytes(p)[i] = <<p[i].msg, p[i].pos>>
    BY BytesType
  <2>2. /\ Bytes(q) \in Seq(Octet) /\ Len(Bytes(q)) = Len(q)
        /\ \A i \in 1 .. Len(q) : Bytes(q)[i] = <<q[i].msg, q[i].pos>>
    BY BytesType
  <2>3. /\ Bytes(r) \in Seq(Octet) /\ Len(Bytes(r)) = Len(r)
        /\ \A i \in 1 .. Len(r) : Bytes(r)[i] = <<r[i].msg, r[i].pos>>
    BY BytesType
  <2>4. QED
    BY <2>1, <2>2, <2>3
<1>3. /\ Len(r) = Len(p) + Len(q) /\ Len(p) \in Nat /\ Len(q) \in Nat
      /\ \A i \in 1 .. Len(r) : r[i] = IF i <= Len(p) THEN p[i] ELSE q[i - Len(p)]
  BY <1>1, ConcatProperties
<1>4. ASSUME NEW i \in 1 .. Len(r)
      PROVE  c[i] = IF i <= Len(p) THEN a[i] ELSE b[i - Len(p)]
  <2>1. CASE i <= Len(p)
    <3>1. i \in 1 .. Len(p) /\ r[i] = p[i]
      BY <1>3, <2>1
    <3>2. QED
      BY <1>2, <2>1, <3>1
  <2>2. CASE ~ (i <= Len(p))
    <3>1. i - Len(p) \in 1 .. Len(q) /\ r[i] = q[i - Len(p)]
      BY <1>3, <2>2
    <3>2. QED
      BY <1>2, <2>2, <3>1
  <2>3. QED
    BY <2>1, <2>2
<1>5. /\ a \o b \in Seq(Octet) /\ Len(a \o b) = Len(a) + Len(b)
      /\ \A i \in 1 .. Len(a) + Len(b) : (a \o b)[i] = IF i <= Len(a) THEN a[i] ELSE b[i - Len(a)]
  BY ConcatProperties
<1>6. Len(c) = Len(a \o b) /\ \A i \in 1 .. Len(c) : c[i] = (a \o b)[i]
  BY <1>2, <1>3, <1>4, <1>5
<1>7. c = a \o b
  BY <1>5, <1>6, SeqEqual
<1>8. QED
  BY <1>1, <1>2, <1>7

\* A sequence of pieces is cut in two.
LEMMA Cut ==
  ASSUME NEW q \in Seq(Piece), NEW n \in 0 .. Len(q)
  PROVE  /\ SubSeq(q, 1, n) \in Seq(Piece) /\ Len(SubSeq(q, 1, n)) = n
         /\ SubSeq(q, n + 1, Len(q)) \in Seq(Piece)
         /\ Len(SubSeq(q, n + 1, Len(q))) = Len(q) - n
         /\ \A i \in 1 .. n : SubSeq(q, 1, n)[i] = q[i]
         /\ \A i \in 1 .. Len(q) - n : SubSeq(q, n + 1, Len(q))[i] = q[n + i]
         /\ Bytes(q) = Bytes(SubSeq(q, 1, n)) \o Bytes(SubSeq(q, n + 1, Len(q)))
<1>1. Len(q) \in Nat /\ n \in Nat /\ \A i \in 1 .. Len(q) : q[i] \in Piece
  OBVIOUS
<1>2. /\ SubSeq(q, 1, n) \in Seq(Piece) /\ Len(SubSeq(q, 1, n)) = n
      /\ \A i \in 1 .. n : SubSeq(q, 1, n)[i] = q[i]
  BY <1>1, SubSeqProperties
<1>3. /\ SubSeq(q, n + 1, Len(q)) \in Seq(Piece)
      /\ Len(SubSeq(q, n + 1, Len(q))) = Len(q) - n
      /\ \A i \in 1 .. Len(q) - n : SubSeq(q, n + 1, Len(q))[i] = q[n + i]
  BY <1>1, SubSeqProperties
<1>4. SubSeq(q, 1, n) \o SubSeq(q, n + 1, Len(q)) = q
  <2>1. 1 \in 1 .. Len(q) + 1 /\ n \in 1 - 1 .. Len(q) /\ Len(q) \in n .. Len(q)
    BY <1>1
  <2>2. SubSeq(q, 1, n) \o SubSeq(q, n + 1, Len(q)) = SubSeq(q, 1, Len(q))
    BY <2>1, ConcatAdjacentSubSeq, Zenon
  <2>3. SubSeq(q, 1, Len(q)) = q
    BY SubSeqFull
  <2>4. QED
    BY <2>2, <2>3
<1>5. QED
  BY <1>2, <1>3, <1>4, BytesConcat

\* What is left of p \o q behind p.
LEMMA Behind ==
  ASSUME NEW p \in Seq(Octet), NEW q \in Seq(Octet)
  PROVE  /\ SubSeq(p \o q, 1, Len(p)) = p
         /\ SubSeq(p \o q, Len(p) + 1, Len(p \o q)) = q
<1>1. /\ p \o q \in Seq(Octet) /\ Len(p \o q) = Len(p) + Len(q)
      /\ \A i \in 1 .. Len(p) + Len(q) : (p \o q)[i] = IF i <= Len(p) THEN p[i] ELSE q[i - Len(p)]
      /\ Len(p) \in Nat /\ Len(q) \in Nat
  BY ConcatProperties
<1>2. \A i \in 1 .. Len(p) + Len(q) : (p \o q)[i] \in Octet
  BY <1>1
<1>3. SubSeq(p \o q, 1, Len(p)) = p
  <2>1. /\ SubSeq(p \o q, 1, Len(p)) \in Seq(Octet)
        /\ Len(SubSeq(p \o q, 1, Len(p))) = Len(p)
        /\ \A i \in 1 .. Len(p) : SubSeq(p \o q, 1, Len(p))[i] = (p \o q)[i]
    BY <1>1, <1>2, SubSeqProperties
  <2>2. QED
    BY <1>1, <2>1, SeqEqual
<1>4. SubSeq(p \o q, Len(p) + 1, Len(p \o q)) = q
  <2>1. /\ SubSeq(p \o q, Len(p) + 1, Len(p \o q)) \in Seq(Octet)
        /\ Len(SubSeq(p \o q, Len(p) + 1, Len(p \o q))) = Len(q)
        /\ \A i \in 1 .. Len(q) : SubSeq(p \o q, Len(p) + 1, Len(p \o q))[i] = (p \o q)[Len(p) + i]
    BY <1>1, <1>2, SubSeqProperties
  <2>2. QED
    BY <1>1, <2>1, SeqEqual
<1>5. QED
  BY <1>3, <1>4

-----------------------------------------------------------------------------
(* One lemma for every action. *)

LEMMA FdInitially == Init => FdInv
<1> SUFFICES ASSUME Init PROVE FdInv
  OBVIOUS
<1> USE FdPassAssumption DEF Init
<1>1. <<>> \in Seq(Octet) /\ <<>> \in Seq(Piece) /\ Len(<<>>) = 0 /\ DOMAIN <<>> = {}
  OBVIOUS
<1>2. FdType
  <2>1. SockType
    BY <1>1 DEF SockType
  <2>2. SendType
    BY DEF SendType, Msg
  <2>3. RecvType
    <3>1. /\ msg.len \in Int /\ msg.data \in Seq(Octet) /\ msg.cmsg = "none" /\ msg.fd = 0
          /\ last.fds = {} /\ last.data \in Seq(Octet) /\ last.due \in Seq(Octet)
      BY <1>1 DEF NoMsg, Nothing
    <3>2. QED
      BY <1>1, <3>1 DEF RecvType, NoMsg, Nothing
  <2>4. QED
    BY <2>1, <2>2, <2>3 DEF FdType
<1>3. SendInv
  BY DEF SendInv, SenderInv, Taken, Msg
<1>4. QueueInv
  <2>1. Len(queue) <= Room /\ DOMAIN queue = {}
    BY <1>1
  <2>2. QED
    BY <2>1 DEF QueueInv
<1>5. Installed = {} /\ Cardinality(Installed) <= MaxFds
  <2>1. Installed = {}
    BY DEF Installed
  <2>2. QED
    BY <2>1, FS_EmptySet
<1>6. OwnerInv
  BY <1>5 DEF OwnerInv, InHand, NoMsg
<1>7. AnswerInv
  BY <1>1 DEF AnswerInv, NoMsg
<1>8. StreamInOrder
  <2>1. Bytes(queue) = <<>>
    <3>1. Bytes(queue) \in Seq(Octet) /\ Len(Bytes(queue)) = 0
      BY <1>1, BytesType
    <3>2. QED
      BY <3>1, EmptySeq
  <2>2. QED
    BY <1>1, <2>1, ConcatEmptySeq DEF StreamInOrder, NoMsg, Nothing
<1>9. DataInv
  BY <1>1 DEF DataInv, Complete, NoMsg, Nothing
<1>10. EndInv
  BY DEF EndInv, EmptyIsEnd, RecvfdFinds, NoMsg, Nothing
<1>11. QED
  BY <1>2, <1>3, <1>4, <1>6, <1>7, <1>8, <1>9, <1>10 DEF FdInv

\* A call of sendmsg takes the next number; nothing in the socket or in the
\* receiver's hands has that number yet.
LEMMA SendStep ==
  ASSUME FdInv, NEW t \in Senders, NEW r \in [size : Nat, fd : BOOLEAN],
         proto = "fd" => r.size = 1 /\ r.fd,
         caml_extunix_sendmsg(t, r)
  PROVE  FdInv'
<1> USE FdPassAssumption
<1>t. SockType /\ SendType /\ RecvType
  BY DEF FdInv, FdType
<1>1. /\ calls' = calls + 1 /\ calls + 1 \in Msg /\ calls \in Nat
      /\ sender[t] = 0 /\ ~shut
      /\ sender' = [sender EXCEPT ![t] = calls + 1]
      /\ req' = [req EXCEPT ![calls + 1] = r]
  <2>1. calls \in 0 .. MaxSends /\ calls < MaxSends
    BY <1>t DEF caml_extunix_sendmsg, SendType
  <2>2. QED
    BY <2>1 DEF caml_extunix_sendmsg, Msg
<1>2. UNCHANGED <<sockVars, queue, shut, ret, outcome, desc, recvVars, due>>
  BY DEF caml_extunix_sendmsg
<1>3. FdType'
  <2>1. SendType'
    BY <1>1, <1>2, <1>t DEF SendType, Msg
  <2>2. SockType' /\ RecvType'
    BY <1>2, <1>t DEF SockType, RecvType, sockVars, recvVars
  <2>3. QED
    BY <2>1, <2>2 DEF FdType
<1>4. \A m \in Msg : m <= calls => req'[m] = req[m]
  BY <1>1, <1>t DEF SendType, Msg
<1>5. SendInv'
  <2>0. SenderInv /\ Taken(calls + 1)
    BY <1>1 DEF FdInv, SendInv
  <2>1. SenderInv'
    BY <1>1, <1>2, <1>t, <2>0 DEF SendType, SenderInv, Taken, Msg
  <2>2. ASSUME NEW m \in Msg PROVE Taken(m)'
    <3>1. Taken(m) /\ Taken(calls + 1) /\ m \in Int
      BY <1>1 DEF FdInv, SendInv, Msg
    <3>2. CASE m <= calls
      BY <1>1, <1>2, <1>4, <3>1, <3>2 DEF Taken, sockVars
    <3>3. CASE m > calls
      <4>1. ret[m] = -1 /\ outcome[m] = "none" /\ desc[m] = "kept"
        BY <3>1, <3>3 DEF Taken
      <4>2. m = calls + 1 => req'[m] = r
        BY <1>1, <1>t DEF SendType
      <4>3. req'[m].size >= 0
        BY <1>3 DEF FdType, SendType
      <4>4. QED
        BY <1>1, <1>2, <3>1, <3>3, <4>1, <4>2, <4>3 DEF Taken, sockVars
    <3>4. QED
      BY <1>1, <3>1, <3>2, <3>3
  <2>3. QED
    BY <2>1, <2>2 DEF SendInv
<1>6. QueueInv'
  <2>1. ASSUME NEW i \in DOMAIN queue PROVE PieceInv(i)'
    <3>1. PieceInv(i)
      BY DEF FdInv, QueueInv
    <3>2. queue[i].msg \in Msg
      BY <1>t, PieceType DEF SockType
    <3>3. QED
      BY <1>1, <1>2, <1>4, <3>1, <3>2 DEF PieceInv, sockVars, Msg
  <2>2. (\A i \in DOMAIN queue : PieceInv(i))'
    BY <1>2, <2>1
  <2>3. QED
    BY <1>2, <2>2 DEF FdInv, QueueInv, Block, sockVars
<1>7. OwnerInv'
  BY <1>2 DEF FdInv, OwnerInv, Installed, InHand, recvVars
<1>8. AnswerInv'
  BY <1>2 DEF FdInv, AnswerInv, recvVars
<1>9. StreamInOrder'
  BY <1>2 DEF FdInv, StreamInOrder, Bytes, sockVars, recvVars
<1>10. DataInv'
  <2>1. ASSUME NEW d \in Seq(Octet), Complete(d) PROVE Complete(d)'
    <3>1. \A i \in DOMAIN d : d[i][1] \in Msg /\ d[i][1] <= calls
      BY <2>1 DEF Octet, Complete
    <3>2. \A i \in DOMAIN d : d[i][1] <= calls' /\ req'[d[i][1]] = req[d[i][1]]
      BY <1>1, <1>4, <3>1 DEF Msg
    <3>3. QED
      BY <1>2, <2>1, <3>2 DEF Complete, sockVars
  <2>2. msg.data \in Seq(Octet) /\ last.data \in Seq(Octet)
    BY <1>t DEF RecvType
  <2>3. Complete(msg.data) /\ Complete(last.data)
    BY DEF FdInv, DataInv
  <2>4. Complete(msg.data)' /\ Complete(last.data)'
    BY <1>2, <2>1, <2>2, <2>3 DEF Complete, sockVars, recvVars
  <2>5. QED
    BY <1>2, <2>4 DEF FdInv, DataInv, Companion, sockVars, recvVars
<1>11. EndInv'
  BY <1>2 DEF FdInv, EndInv, EmptyIsEnd, RecvfdFinds, AtEnd, Dropped, sockVars, recvVars
<1>12. QED
  BY <1>3, <1>5, <1>6, <1>7, <1>8, <1>9, <1>10, <1>11 DEF FdInv

LEMMA DataUnchanged ==
  ASSUME DataInv, UNCHANGED <<stream, calls, req, msg, last>>
  PROVE  DataInv'
BY DEF DataInv, Companion, Complete

\* The end of a call of sendmsg: what was taken decides what it says.
LEMMA SendReturnStep ==
  ASSUME FdInv, NEW t \in Senders, sendmsg_return(t)
  PROVE  FdInv'
<1> USE FdPassAssumption
<1> DEFINE m == sender[t]
<1>t. SockType /\ SendType /\ RecvType
  BY DEF FdInv, FdType
<1>1. /\ m \in Msg /\ outcome' = [outcome EXCEPT ![m] = sendmsg_result(m)]
      /\ sender' = [sender EXCEPT ![t] = 0]
  BY <1>t DEF sendmsg_return, SendType, Msg
<1>2. UNCHANGED <<sockVars, queue, shut, calls, req, ret, desc, recvVars, due>>
  BY DEF sendmsg_return
<1>3. outcome'[m] = (IF ret[m] = -1 THEN "raised" ELSE "unit")
  BY <1>1, <1>t DEF sendmsg_result, SendType
<1>4. FdType'
  <2>1. SendType'
    BY <1>1, <1>2, <1>3, <1>t DEF SendType, sendmsg_result
  <2>2. SockType' /\ RecvType'
    BY <1>2, <1>t DEF SockType, RecvType, sockVars, recvVars
  <2>3. QED
    BY <2>1, <2>2 DEF FdType
<1>5. SendInv'
  <2>0. SenderInv
    BY DEF FdInv, SendInv
  <2>1. SenderInv'
    BY <1>1, <1>2, <1>t, <2>0 DEF SenderInv, SendType
  <2>2. ASSUME NEW n \in Msg PROVE Taken(n)'
    <3>1. Taken(n)
      BY DEF FdInv, SendInv
    <3>2. CASE n = m
      <4>1. ~ (n > calls)
        BY <2>0, <1>t, <3>2 DEF SenderInv, SendType
      <4>2. QED
        BY <1>2, <1>3, <3>1, <3>2, <4>1 DEF Taken, sockVars
    <3>3. CASE n # m
      <4>1. outcome'[n] = outcome[n]
        BY <1>1, <1>t, <3>3 DEF SendType
      <4>2. QED
        BY <1>2, <3>1, <4>1 DEF Taken, sockVars
    <3>4. QED
      BY <3>2, <3>3
  <2>3. QED
    BY <2>1, <2>2 DEF SendInv
<1>6. QueueInv'
  BY <1>2 DEF FdInv, QueueInv, PieceInv, Block, sockVars
<1>7. OwnerInv'
  BY <1>2 DEF FdInv, OwnerInv, Installed, InHand, recvVars
<1>8. AnswerInv'
  BY <1>2 DEF FdInv, AnswerInv, recvVars
<1>9. StreamInOrder'
  BY <1>2 DEF FdInv, StreamInOrder, Bytes, sockVars, recvVars
<1>10. DataInv'
  <2>1. DataInv /\ UNCHANGED <<stream, calls, req, msg, last>>
    BY <1>2 DEF FdInv, sockVars, recvVars
  <2>2. QED
    BY <2>1, DataUnchanged
<1>11. EndInv'
  BY <1>2 DEF FdInv, EndInv, EmptyIsEnd, RecvfdFinds, AtEnd, Dropped, sockVars, recvVars
<1>12. QED
  BY <1>4, <1>5, <1>6, <1>7, <1>8, <1>9, <1>10, <1>11 DEF FdInv

LEMMA CloseStep ==
  ASSUME FdInv, Close
  PROVE  FdInv'
<1>1. shut' = TRUE /\ ~shut /\ \A t \in Senders : sender[t] = 0
  BY DEF Close
<1>2. UNCHANGED <<sockVars, queue, sendVars, desc, recvVars, due>>
  BY DEF Close
<1>4. FdType'
  BY <1>1, <1>2 DEF FdInv, FdType, SockType, SendType, RecvType, sockVars, sendVars, recvVars
<1>5. SendInv'
  BY <1>1, <1>2 DEF FdInv, SendInv, SenderInv, Taken, sockVars, sendVars
<1>6. QueueInv'
  BY <1>2 DEF FdInv, QueueInv, PieceInv, Block, sockVars, sendVars
<1>7. OwnerInv'
  BY <1>2 DEF FdInv, OwnerInv, Installed, InHand, recvVars
<1>8. AnswerInv'
  BY <1>2 DEF FdInv, AnswerInv, recvVars
<1>9. StreamInOrder'
  BY <1>2 DEF FdInv, StreamInOrder, Bytes, sockVars, recvVars
<1>10. DataInv'
  BY <1>2 DEF FdInv, DataInv, Companion, Complete, sockVars, sendVars, recvVars
<1>11. EndInv'
  BY <1>1, <1>2 DEF FdInv, EndInv, EmptyIsEnd, RecvfdFinds, AtEnd, Dropped, sockVars, recvVars
<1>12. QED
  BY <1>4, <1>5, <1>6, <1>7, <1>8, <1>9, <1>10, <1>11 DEF FdInv

LEMMA KernelEndStep ==
  ASSUME FdInv, KernelEnd
  PROVE  FdInv'
<1> USE FdPassAssumption
<1>t. SockType /\ SendType /\ RecvType
  BY DEF FdInv, FdType
<1>1. /\ pc' = "back" /\ last' = Nothing /\ pc = "ocaml" /\ stream /\ AtEnd
      /\ msg = NoMsg
      /\ msg' = [len |-> 0, data |-> <<>>, cmsg |-> Control(0).cmsg, fd |-> 0]
  BY DEF KernelEnd, AtEnd, FdInv, AnswerInv, NoMsg
<1>2. UNCHANGED <<sockVars, queue, shut, sendVars, desc, known, leaked, due>>
  BY DEF KernelEnd
<1>3. Control(0).cmsg \in {"other", "none"}
  BY DEF Control
<1>4. FdType'
  <2>1. <<>> \in Seq(Octet)
    OBVIOUS
  <2>2. RecvType'
    <3>1. msg' \in [len : Int, data : Seq(Octet), cmsg : {"none", "rights", "other"},
                    fd : 0 .. MaxSends]
      BY <1>1, <1>3, <2>1
    <3>2. QED
      BY <1>1, <1>2, <1>t, <2>1, <3>1 DEF RecvType, Nothing
  <2>3. QED
    BY <1>2, <1>t, <2>2 DEF FdType, SockType, SendType, sockVars, sendVars
<1>5. SendInv'
  BY <1>2 DEF FdInv, SendInv, SenderInv, Taken, sockVars, sendVars
<1>6. QueueInv'
  BY <1>2 DEF FdInv, QueueInv, PieceInv, Block, sockVars, sendVars
<1>7. OwnerInv'
  <2>1. InHand = {} /\ InHand' = {} /\ Installed' = Installed
    BY <1>1, <1>2, <1>3 DEF InHand, NoMsg, Installed
  <2>2. QED
    BY <1>2, <2>1 DEF FdInv, OwnerInv
<1>8. AnswerInv'
  BY <1>1, <1>3 DEF AnswerInv
<1>9. StreamInOrder'
  <2>1. msg'.data = msg.data /\ Bytes(queue)' = Bytes(queue) /\ last'.data = last'.due
    BY <1>1, <1>2 DEF NoMsg, Nothing, Bytes
  <2>2. QED
    BY <1>2, <2>1 DEF FdInv, StreamInOrder, sockVars
<1>10. DataInv'
  <2>1. msg'.data = <<>> /\ msg'.cmsg # "rights" /\ last'.data = <<>> /\ last'.fds = {}
    BY <1>1, <1>3 DEF Nothing
  <2>2. QED
    BY <2>1 DEF DataInv, Complete
<1>11. EndInv'
  BY <1>1, <1>2 DEF EndInv, EmptyIsEnd, RecvfdFinds, AtEnd, Nothing, sockVars
<1>12. QED
  BY <1>4, <1>5, <1>6, <1>7, <1>8, <1>9, <1>10, <1>11 DEF FdInv

LEMMA KernelFailsStep ==
  ASSUME FdInv, KernelFails
  PROVE  FdInv'
<1> USE FdPassAssumption
<1>t. SockType /\ SendType /\ RecvType
  BY DEF FdInv, FdType
<1>1. /\ pc' = "back" /\ last' = Nothing /\ pc = "ocaml"
      /\ msg = NoMsg
      /\ msg' = [len |-> -1, data |-> <<>>, cmsg |-> "none", fd |-> 0]
  BY DEF KernelFails, FdInv, AnswerInv, NoMsg
<1>2. UNCHANGED <<sockVars, queue, shut, sendVars, desc, known, leaked, due>>
  BY DEF KernelFails
<1>4. FdType'
  <2>1. <<>> \in Seq(Octet)
    OBVIOUS
  <2>2. RecvType'
    <3>1. msg' \in [len : Int, data : Seq(Octet), cmsg : {"none", "rights", "other"},
                    fd : 0 .. MaxSends]
      BY <1>1, <2>1
    <3>2. QED
      BY <1>1, <1>2, <1>t, <2>1, <3>1 DEF RecvType, Nothing
  <2>3. QED
    BY <1>2, <1>t, <2>2 DEF FdType, SockType, SendType, sockVars, sendVars
<1>5. SendInv'
  BY <1>2 DEF FdInv, SendInv, SenderInv, Taken, sockVars, sendVars
<1>6. QueueInv'
  BY <1>2 DEF FdInv, QueueInv, PieceInv, Block, sockVars, sendVars
<1>7. OwnerInv'
  <2>1. InHand = {} /\ InHand' = {} /\ Installed' = Installed
    BY <1>1, <1>2 DEF InHand, NoMsg, Installed
  <2>2. QED
    BY <1>2, <2>1 DEF FdInv, OwnerInv
<1>8. AnswerInv'
  BY <1>1 DEF AnswerInv
<1>9. StreamInOrder'
  <2>1. msg'.data = msg.data /\ Bytes(queue)' = Bytes(queue) /\ last'.data = last'.due
    BY <1>1, <1>2 DEF NoMsg, Nothing, Bytes
  <2>2. QED
    BY <1>2, <2>1 DEF FdInv, StreamInOrder, sockVars
<1>10. DataInv'
  <2>1. msg'.data = <<>> /\ msg'.cmsg # "rights" /\ last'.data = <<>> /\ last'.fds = {}
    BY <1>1 DEF Nothing
  <2>2. QED
    BY <2>1 DEF DataInv, Complete
<1>11. EndInv'
  BY <1>1, <1>2 DEF EndInv, EmptyIsEnd, RecvfdFinds, Nothing, sockVars
<1>12. QED
  BY <1>4, <1>5, <1>6, <1>7, <1>8, <1>9, <1>10, <1>11 DEF FdInv

\* A change of desc that keeps the "kept" ones and the others apart leaves
\* the senders alone.
LEMMA DescMoves ==
  ASSUME FdInv, UNCHANGED <<proto, shut, sendVars>>,
         \A m \in Msg : desc'[m] = "kept" <=> desc[m] = "kept"
  PROVE  SendInv'
<1>1. SenderInv'
  BY DEF FdInv, SendInv, SenderInv, sendVars
<1>2. ASSUME NEW m \in Msg PROVE Taken(m)'
  <2>1. Taken(m)
    BY DEF FdInv, SendInv
  <2>2. QED
    BY <2>1 DEF Taken, sendVars
<1>3. QED
  BY <1>1, <1>2 DEF SendInv

LEMMA CloseFdStep ==
  ASSUME FdInv, NEW m \in Msg, CloseFd(m)
  PROVE  FdInv'
<1> USE FdPassAssumption
<1>t. SockType /\ SendType /\ RecvType
  BY DEF FdInv, FdType
<1>1. m \in known /\ known' = known \ {m} /\ desc' = [desc EXCEPT ![m] = "closed"]
  BY DEF CloseFd
<1>2. UNCHANGED <<sockVars, queue, shut, sendVars, pc, msg, leaked, last, due>>
  BY DEF CloseFd
<1>3. desc[m] = "installed"
  BY <1>1 DEF FdInv, OwnerInv, Installed
<1>d. \A n \in Msg : desc'[n] = IF n = m THEN "closed" ELSE desc[n]
  BY <1>1, <1>t DEF SendType
<1>4. FdType'
  <2>1. SendType'
    BY <1>1, <1>2, <1>t DEF SendType, sendVars
  <2>2. SockType' /\ RecvType'
    BY <1>1, <1>2, <1>t DEF SockType, RecvType, sockVars
  <2>3. QED
    BY <2>1, <2>2 DEF FdType
<1>5. SendInv'
  BY <1>2, <1>3, <1>d, DescMoves DEF sockVars
<1>6. QueueInv'
  <2>1. ASSUME NEW i \in DOMAIN queue PROVE PieceInv(i)'
    <3>1. PieceInv(i)
      BY DEF FdInv, QueueInv
    <3>2. queue[i].msg \in Msg
      BY <1>t, PieceType DEF SockType
    <3>3. QED
      BY <1>2, <1>3, <1>d, <3>1, <3>2 DEF PieceInv, sockVars, sendVars
  <2>2. (\A i \in DOMAIN queue : PieceInv(i))'
    BY <1>2, <2>1
  <2>3. \A n \in Msg : desc'[n] = "flight" => desc[n] = "flight"
    BY <1>d
  <2>4. QED
    BY <1>2, <2>2, <2>3 DEF FdInv, QueueInv, Block, sockVars
<1>7. OwnerInv'
  <2>1. Installed' = Installed \ {m} /\ InHand' = InHand
    BY <1>2, <1>d DEF Installed, InHand
  <2>2. Cardinality(Installed') <= Cardinality(Installed) /\ Cardinality(Installed) \in Nat
    <3>1. IsFiniteSet(Msg)
      BY FS_Interval DEF Msg
    <3>2. IsFiniteSet(Installed)
      BY <3>1, FS_Subset DEF Installed
    <3>3. QED
      BY <2>1, <3>2, FS_Subset, FS_CardinalityType
  <2>3. Cardinality(Installed') \in Nat
    <3>1. IsFiniteSet(Msg)
      BY FS_Interval DEF Msg
    <3>2. IsFiniteSet(Installed')
      BY <3>1, FS_Subset DEF Installed
    <3>3. QED
      BY <3>2, FS_CardinalityType
  <2>4. m \notin leaked /\ m \notin InHand
    BY <1>1 DEF FdInv, OwnerInv
  <2>5. QED
    BY <1>1, <1>2, <2>1, <2>2, <2>3, <2>4 DEF FdInv, OwnerInv
<1>8. AnswerInv'
  BY <1>2 DEF FdInv, AnswerInv
<1>9. StreamInOrder'
  BY <1>2 DEF FdInv, StreamInOrder, Bytes, sockVars
<1>10. DataInv'
  <2>1. DataInv /\ UNCHANGED <<stream, calls, req, msg, last>>
    BY <1>2 DEF FdInv, sockVars, sendVars
  <2>2. QED
    BY <2>1, DataUnchanged
<1>11. EndInv'
  <2>1. Dropped => Dropped'
    BY <1>3, <1>d DEF Dropped
  <2>2. QED
    BY <1>2, <2>1 DEF FdInv, EndInv, EmptyIsEnd, RecvfdFinds, AtEnd, Dropped, sockVars
<1>12. QED
  BY <1>4, <1>5, <1>6, <1>7, <1>8, <1>9, <1>10, <1>11 DEF FdInv

\* What the system puts into the socket for the call of t comes at the end of
\* the queue, and its descriptor was still the sender's.
LEMMA QueueGrows ==
  ASSUME FdInv, NEW t \in Senders, NEW m \in Msg, m = sender[t], NEW p \in Seq(Piece),
         queue' = queue \o p, Len(queue) + Len(p) <= Room,
         UNCHANGED <<sockVars, shut, calls, req, sender, outcome, recvVars>>,
         \A i \in 1 .. Len(p) :
           /\ p[i].msg = m
           /\ p[i].fd => i = 1
           /\ ~stream => p[i].pos = req[m].size
           /\ stream /\ p[i].fd => p[i].pos = 1
           /\ proto = "fd" => p[i].fd,
         stream /\ Len(p) > 0 => p[Len(p)].end,
         Len(p) > 0 /\ p[1].fd => desc[m] = "kept",
         desc' = [desc EXCEPT ![m] = IF Len(p) > 0 /\ p[1].fd THEN "flight" ELSE @],
         due' \in Seq(Octet)
  PROVE  /\ SockType' /\ RecvType'
         /\ QueueInv' /\ OwnerInv' /\ AnswerInv' /\ DataInv' /\ EndInv'
<1> USE FdPassAssumption
<1>t. SockType /\ SendType /\ RecvType
  BY DEF FdInv, FdType
<1>s. ~shut /\ m <= calls
  BY <1>t DEF FdInv, SendInv, SenderInv, Msg, SockType
<1>q. /\ queue' \in Seq(Piece) /\ Len(queue') = Len(queue) + Len(p)
      /\ \A i \in 1 .. Len(queue) + Len(p) :
           queue'[i] = IF i <= Len(queue) THEN queue[i] ELSE p[i - Len(queue)]
      /\ Len(queue) \in Nat /\ Len(p) \in Nat
      /\ DOMAIN queue' = 1 .. Len(queue) + Len(p) /\ DOMAIN queue = 1 .. Len(queue)
  <2>1. queue \in Seq(Piece)
    BY <1>t DEF SockType
  <2>2. QED
    BY <2>1, ConcatProperties, LenProperties
<1>o. \A i \in 1 .. Len(queue) : queue'[i] = queue[i]
  BY <1>q
<1>n. \A i \in 1 .. Len(p) : queue'[Len(queue) + i] = p[i]
  BY <1>q
<1>d. \A n \in Msg : desc'[n] = IF n = m /\ Len(p) > 0 /\ p[1].fd THEN "flight" ELSE desc[n]
  BY <1>t DEF SendType
<1>p. \A i \in 1 .. Len(queue) : queue[i].msg \in Msg /\ PieceInv(i)
  <2>1. queue \in Seq(Piece)
    BY <1>t DEF SockType
  <2>2. QED
    BY <1>q, <2>1, PieceType DEF FdInv, QueueInv
<1>u. Len(p) > 0 /\ p[1].fd => \A i \in 1 .. Len(queue) : ~ (queue[i].fd /\ queue[i].msg = m)
  BY <1>p DEF PieceInv
<1>1. SockType' /\ RecvType'
  BY <1>t, <1>q DEF SockType, RecvType, sockVars, recvVars
<1>2. QueueInv'
  <2>1. ASSUME NEW i \in 1 .. Len(queue) + Len(p) PROVE PieceInv(i)'
    <3>1. CASE i <= Len(queue)
      <4>1. queue'[i] = queue[i] /\ PieceInv(i) /\ queue[i].msg \in Msg
        BY <1>o, <1>p, <1>q, <3>1
      <4>2. QED
        BY <1>d, <4>1 DEF PieceInv, sockVars
    <3>2. CASE i > Len(queue)
      <4>1. PICK j \in 1 .. Len(p) : i = Len(queue) + j
        <5>1. i - Len(queue) \in 1 .. Len(p) /\ i = Len(queue) + (i - Len(queue))
          BY <1>q, <3>2
        <5>2. QED
          BY <5>1
      <4>2. queue'[i] = p[j]
        BY <1>n, <4>1
      <4>3. p[j].fd => desc'[m] = "flight"
        BY <1>d, <1>q, <4>1
      <4>4. QED
        BY <1>s, <4>2, <4>3 DEF PieceInv, sockVars
    <3>3. QED
      BY <1>q, <3>1, <3>2
  <2>2. ASSUME NEW i \in 1 .. Len(queue) + Len(p), NEW j \in 1 .. Len(queue) + Len(p),
               queue'[i].fd, queue'[j].fd, queue'[i].msg = queue'[j].msg
        PROVE  i = j
    <3>1. CASE i <= Len(queue) /\ j <= Len(queue)
      <4>1. queue'[i] = queue[i] /\ queue'[j] = queue[j] /\ i \in DOMAIN queue /\ j \in DOMAIN queue
        BY <1>q, <1>o, <3>1
      <4>2. QED
        BY <2>2, <4>1 DEF FdInv, QueueInv
    <3>2. ASSUME NEW k \in 1 .. Len(queue) + Len(p), k > Len(queue), queue'[k].fd
          PROVE  k = Len(queue) + 1 /\ Len(p) > 0 /\ p[1].fd /\ queue'[k].msg = m
      <4>1. k - Len(queue) \in 1 .. Len(p) /\ k = Len(queue) + (k - Len(queue))
        BY <1>q, <3>2
      <4>2. queue'[k] = p[k - Len(queue)]
        BY <1>n, <4>1
      <4>3. k - Len(queue) = 1
        BY <3>2, <4>1, <4>2
      <4>4. QED
        BY <1>q, <3>2, <4>1, <4>2, <4>3
    <3>3. ASSUME NEW k \in 1 .. Len(queue) + Len(p), NEW l \in 1 .. Len(queue) + Len(p),
                 k <= Len(queue), l > Len(queue), queue'[k].fd, queue'[l].fd
          PROVE  queue'[k].msg # queue'[l].msg
      <4>1. Len(p) > 0 /\ p[1].fd /\ queue'[l].msg = m
        BY <3>2, <3>3
      <4>2. k \in 1 .. Len(queue) /\ queue'[k] = queue[k]
        BY <1>q, <1>o, <3>3
      <4>3. QED
        BY <1>u, <3>3, <4>1, <4>2
    <3>4. CASE i <= Len(queue) /\ j > Len(queue)
      BY <2>2, <3>3, <3>4
    <3>5. CASE i > Len(queue) /\ j <= Len(queue)
      BY <2>2, <3>3, <3>5
    <3>6. CASE i > Len(queue) /\ j > Len(queue)
      BY <2>2, <3>2, <3>6
    <3>7. QED
      BY <1>q, <3>1, <3>4, <3>5, <3>6
  <2>3. ASSUME NEW n \in Msg, desc'[n] = "flight"
        PROVE  \E i \in 1 .. Len(queue) + Len(p) : queue'[i].fd /\ queue'[i].msg = n
    <3>1. CASE n = m /\ Len(p) > 0 /\ p[1].fd
      <4>1. 1 \in 1 .. Len(p) /\ Len(queue) + 1 \in 1 .. Len(queue) + Len(p)
        BY <1>q, <3>1
      <4>2. queue'[Len(queue) + 1] = p[1]
        BY <1>n, <4>1
      <4>3. QED
        BY <3>1, <4>1, <4>2
    <3>2. CASE ~ (n = m /\ Len(p) > 0 /\ p[1].fd)
      <4>1. desc[n] = "flight"
        BY <1>d, <2>3, <3>2
      <4>2. PICK i \in DOMAIN queue : queue[i].fd /\ queue[i].msg = n
        BY <4>1 DEF FdInv, QueueInv
      <4>3. i \in 1 .. Len(queue) + Len(p) /\ queue'[i] = queue[i]
        BY <1>q, <1>o
      <4>4. QED
        BY <4>2, <4>3
    <3>3. QED
      BY <3>1, <3>2
  <2>4. ASSUME stream, NEW i \in 1 .. Len(queue) + Len(p), queue'[i].fd
        PROVE  queue'[i].pos = 1 /\ Block(i)'
    <3>1. CASE i <= Len(queue)
      <4>1. i \in DOMAIN queue /\ queue'[i] = queue[i]
        BY <1>q, <1>o, <3>1
      <4>2. queue[i].pos = 1 /\ Block(i)
        BY <2>4, <4>1 DEF FdInv, QueueInv
      <4>3. PICK j \in DOMAIN queue :
              /\ i <= j /\ queue[j].end
              /\ \A k \in DOMAIN queue : i <= k /\ k <= j => queue[k].msg = queue[i].msg
        BY <4>2 DEF Block
      <4>4. j \in DOMAIN queue' /\ queue'[j] = queue[j]
        BY <1>q, <1>o
      <4>5. \A k \in DOMAIN queue' : i <= k /\ k <= j => k \in DOMAIN queue /\ queue'[k] = queue[k]
        BY <1>q, <1>o
      <4>6. QED
        BY <4>1, <4>2, <4>3, <4>4, <4>5 DEF Block
    <3>2. CASE i > Len(queue)
      <4>1. i - Len(queue) \in 1 .. Len(p) /\ i = Len(queue) + (i - Len(queue))
        BY <1>q, <3>2
      <4>2. queue'[i] = p[i - Len(queue)] /\ p[i - Len(queue)].fd
        BY <1>n, <2>4, <4>1
      <4>3. queue'[i].pos = 1 /\ queue'[i].msg = m
        BY <2>4, <4>1, <4>2
      <4>4. /\ Len(p) > 0 /\ Len(p) \in 1 .. Len(p)
            /\ Len(queue) + Len(p) \in DOMAIN queue' /\ i <= Len(queue) + Len(p)
        BY <1>q, <4>1
      <4>5. queue'[Len(queue) + Len(p)].end
        BY <1>n, <2>4, <4>4
      <4>6. ASSUME NEW k \in DOMAIN queue', i <= k, k <= Len(queue) + Len(p)
            PROVE  queue'[k].msg = m
        <5>1. k - Len(queue) \in 1 .. Len(p) /\ k = Len(queue) + (k - Len(queue))
          BY <1>q, <3>2, <4>6
        <5>2. QED
          BY <1>n, <5>1
      <4>7. QED
        BY <4>3, <4>4, <4>5, <4>6 DEF Block
    <3>3. QED
      BY <1>q, <3>1, <3>2
  <2>5. Len(queue') <= Room /\ stream' = stream
    BY <1>q DEF sockVars
  <2>6. DOMAIN queue' = 1 .. Len(queue) + Len(p)
    BY <1>q
  <2>7. /\ \A i \in DOMAIN queue' : PieceInv(i)'
        /\ \A i, j \in DOMAIN queue' :
             queue'[i].fd /\ queue'[j].fd /\ queue'[i].msg = queue'[j].msg => i = j
    BY <2>1, <2>2, <2>6, Zenon
  <2>8. /\ \A n \in Msg : desc'[n] = "flight" =>
             \E i \in DOMAIN queue' : queue'[i].fd /\ queue'[i].msg = n
        /\ stream' => \A i \in DOMAIN queue' : queue'[i].fd => queue'[i].pos = 1 /\ Block(i)'
    <3>1. ASSUME NEW n \in Msg, desc'[n] = "flight"
          PROVE  \E i \in DOMAIN queue' : queue'[i].fd /\ queue'[i].msg = n
      BY <2>3, <2>6, <3>1, Zenon
    <3>2. ASSUME stream', NEW i \in DOMAIN queue', queue'[i].fd
          PROVE  queue'[i].pos = 1 /\ Block(i)'
      <4>1. stream /\ i \in 1 .. Len(queue) + Len(p)
        BY <2>5, <2>6, <3>2
      <4>2. QED
        BY <2>4, <3>2, <4>1
    <3>3. QED
      BY <3>1, <3>2, Zenon
  <2>9. QED
    BY <2>5, <2>7, <2>8, Zenon DEF QueueInv
<1>3. OwnerInv'
  <2>1. Installed' = Installed
    BY <1>d DEF Installed
  <2>2. InHand' = InHand
    BY DEF InHand, recvVars
  <2>3. QED
    BY <2>1, <2>2 DEF FdInv, OwnerInv, recvVars
<1>4. AnswerInv'
  BY DEF FdInv, AnswerInv, recvVars
<1>5. DataInv'
  BY DataUnchanged DEF FdInv, sockVars, recvVars
<1>6. EndInv'
  <2>1. Dropped => Dropped'
    BY <1>d DEF Dropped
  <2>2. RecvfdFinds <=> (proto = "fd" /\ last.result = "no descriptor" => (stream /\ AtEnd) \/ Dropped)
    BY DEF RecvfdFinds, AtEnd, Dropped
  <2>3. RecvfdFinds' <=>
          (proto' = "fd" /\ last'.result = "no descriptor" => (stream' /\ AtEnd') \/ Dropped')
    BY DEF RecvfdFinds, AtEnd, Dropped
  <2>4. ~AtEnd
    BY <1>s DEF AtEnd
  <2>5. EmptyIsEnd'
    BY <1>s DEF FdInv, EndInv, EmptyIsEnd, sockVars, recvVars
  <2>6. QED
    BY <2>1, <2>2, <2>3, <2>4, <2>5 DEF FdInv, EndInv, sockVars, recvVars
<1>7. QED
  BY <1>1, <1>2, <1>3, <1>4, <1>5, <1>6

LEMMA KernelDatagramStep ==
  ASSUME FdInv, NEW t \in Senders, KernelDatagram(t)
  PROVE  FdInv'
<1> USE FdPassAssumption
<1>t. SockType /\ SendType /\ RecvType
  BY DEF FdInv, FdType
<1>0. PICK m \in Msg : m = sender[t]
  BY <1>t DEF KernelDatagram, SendType, Msg
<1>1. /\ ~stream /\ ret[m] = -1 /\ Len(queue) < Room
      /\ queue' = Append(queue, [msg |-> m, pos |-> req[m].size, fd |-> req[m].fd, end |-> TRUE])
      /\ ret' = [ret EXCEPT ![m] = req[m].size]
      /\ desc' = [desc EXCEPT ![m] = IF req[m].fd THEN "flight" ELSE @]
  BY <1>0 DEF KernelDatagram
<1>2. UNCHANGED <<sockVars, shut, calls, req, sender, outcome, recvVars, due>>
  BY DEF KernelDatagram
<1>3. req[m].size \in Nat /\ req[m].fd \in BOOLEAN
  BY <1>t DEF SendType
<1>4. Taken(m) /\ m <= calls /\ outcome[m] = "none"
  BY <1>0, <1>t DEF FdInv, SendInv, SenderInv, SendType, Msg
<1>5. desc[m] = "kept"
  BY <1>1, <1>4 DEF Taken
<1> DEFINE e == [msg |-> m, pos |-> req[m].size, fd |-> req[m].fd, end |-> TRUE]
<1>6. e \in Piece
  BY <1>3 DEF Piece
<1>7. /\ <<e>> \in Seq(Piece) /\ Len(<<e>>) = 1 /\ <<e>>[1] = e
      /\ e.msg = m /\ e.pos = req[m].size /\ e.fd = req[m].fd /\ e.end
  BY <1>6
<1>8. queue \in Seq(Piece) /\ Len(queue) \in Nat /\ due \in Seq(Octet)
  <2>1. queue \in Seq(Piece) /\ due \in Seq(Octet)
    BY <1>t, Zenon DEF SockType, RecvType
  <2>2. QED
    BY <2>1
<1>9. queue' = queue \o <<e>>
  BY <1>1, <1>6, <1>8, AppendIsConcat
<1>10. PICK p \in Seq(Piece) : /\ queue' = queue \o p /\ Len(p) = 1 /\ p[1].msg = m
                               /\ p[1].pos = req[m].size /\ p[1].fd = req[m].fd
  BY <1>7, <1>9
<1>11. \A i \in 1 .. Len(p) :
           /\ p[i].msg = m
           /\ p[i].fd => i = 1
           /\ ~stream => p[i].pos = req[m].size
           /\ stream /\ p[i].fd => p[i].pos = 1
           /\ proto = "fd" => p[i].fd
  BY <1>1, <1>4, <1>10 DEF Taken
<1>12. desc' = [desc EXCEPT ![m] = IF Len(p) > 0 /\ p[1].fd THEN "flight" ELSE @]
  BY <1>1, <1>10
<1>13. Len(queue) + Len(p) <= Room
  BY <1>1, <1>8, <1>10
<1>14. due' \in Seq(Octet)
  BY <1>2, <1>8
<1>15. UNCHANGED <<sockVars, shut, calls, req, sender, outcome, recvVars>>
  BY <1>2
<1>16. /\ SockType' /\ RecvType'
       /\ QueueInv' /\ OwnerInv' /\ AnswerInv' /\ DataInv' /\ EndInv'
  BY <1>0, <1>1, <1>5, <1>10, <1>11, <1>12, <1>13, <1>14, <1>15, QueueGrows
<1>17. SendType'
  BY <1>1, <1>2, <1>3, <1>t DEF SendType
<1>18. SendInv'
  <2>1. SenderInv'
    BY <1>2 DEF FdInv, SendInv, SenderInv
  <2>2. ASSUME NEW n \in Msg PROVE Taken(n)'
    <3>1. Taken(n)
      BY DEF FdInv, SendInv
    <3>2. CASE n = m
      <4>1. ret'[m] = req[m].size /\ desc'[m] = IF req[m].fd THEN "flight" ELSE "kept"
        BY <1>1, <1>5, <1>t DEF SendType
      <4>2. m <= calls /\ m \in Int /\ calls \in Int
        BY <1>4, <1>t DEF Msg, SendType
      <4>3. proto = "fd" => req[m].size = 1 /\ req[m].fd
        BY <1>4 DEF Taken
      <4>4. UNCHANGED <<proto, calls, req, outcome>>
        BY <1>2 DEF sockVars
      <4>5. QED
        BY <1>3, <1>4, <3>2, <4>1, <4>2, <4>3, <4>4 DEF Taken
    <3>3. CASE n # m
      <4>1. ret'[n] = ret[n] /\ desc'[n] = desc[n]
        BY <1>1, <1>t, <3>3 DEF SendType
      <4>2. QED
        BY <1>2, <3>1, <4>1 DEF Taken, sockVars
    <3>4. QED
      BY <3>2, <3>3
  <2>3. QED
    BY <2>1, <2>2 DEF SendInv
<1>19. StreamInOrder'
  BY <1>1, <1>2 DEF StreamInOrder, sockVars
<1>20. QED
  BY <1>16, <1>17, <1>18, <1>19 DEF FdInv, FdType

LEMMA KernelStreamStep ==
  ASSUME FdInv, NEW t \in Senders, NEW k \in Nat, KernelStream(t, k)
  PROVE  FdInv'
<1> USE FdPassAssumption
<1>t. SockType /\ SendType /\ RecvType
  BY DEF FdInv, FdType
<1>0. PICK m \in Msg : m = sender[t]
  BY <1>t DEF KernelStream, SendType, Msg
<1>1. Taken(m) /\ m <= calls /\ outcome[m] = "none"
  BY <1>0, <1>t DEF FdInv, SendInv, SenderInv, SendType, Msg
<1>2. req[m].size \in Nat /\ req[m].fd \in BOOLEAN /\ ret[m] \in Int /\ ret[m] >= -1
  BY <1>1, <1>t DEF SendType, Taken
<1>3. PICK n \in Nat : n = Max({ret[m], 0}) /\ n = IF ret[m] >= 0 THEN ret[m] ELSE 0
  BY <1>2, MaxWithZero
<1> DEFINE piece == [i \in 1 .. k |-> [msg |-> m, pos |-> n + i, end |-> i = k,
                                       fd  |-> req[m].fd /\ n + i = 1]]
<1>4. /\ stream /\ ret[m] < req[m].size
      /\ k <= req[m].size - n /\ Len(queue) + k <= Room
      /\ k = 0 => req[m].size = 0
      /\ queue' = queue \o piece /\ due' = due \o Bytes(piece)
      /\ ret'   = [ret EXCEPT ![m] = n + k]
      /\ desc'  = [desc EXCEPT ![m] = IF k > 0 /\ piece[1].fd THEN "flight" ELSE @]
  BY <1>0, <1>3 DEF KernelStream
<1>5. UNCHANGED <<sockVars, shut, calls, req, sender, outcome, recvVars>>
  BY DEF KernelStream
<1>6. /\ piece \in Seq(Piece) /\ Len(piece) = k
      /\ \A i \in 1 .. k : /\ piece[i].msg = m /\ piece[i].pos = n + i /\ (i = k => piece[i].end)
                           /\ piece[i].fd <=> req[m].fd /\ n + i = 1
  <2>1. \A i \in 1 .. k : [msg |-> m, pos |-> n + i, end |-> i = k,
                           fd  |-> req[m].fd /\ n + i = 1] \in Piece
    BY <1>2 DEF Piece
  <2>2. piece \in [1 .. k -> Piece]
    BY <2>1
  <2>3. ASSUME NEW i \in 1 .. k
        PROVE  /\ piece[i].msg = m /\ piece[i].pos = n + i /\ (i = k => piece[i].end)
               /\ piece[i].fd <=> req[m].fd /\ n + i = 1
    OBVIOUS
  <2>4. QED
    BY <2>2, <2>3
<1>7. PICK p \in Seq(Piece) :
        /\ Len(p) = k /\ queue' = queue \o p /\ due' = due \o Bytes(p)
        /\ desc' = [desc EXCEPT ![m] = IF k > 0 /\ p[1].fd THEN "flight" ELSE @]
        /\ \A i \in 1 .. k : /\ p[i].msg = m /\ p[i].pos = n + i /\ (i = k => p[i].end)
                             /\ p[i].fd <=> req[m].fd /\ n + i = 1
  BY <1>4, <1>6
<1> HIDE DEF piece
<1>8. \A i \in 1 .. Len(p) :
           /\ p[i].msg = m
           /\ p[i].fd => i = 1
           /\ ~stream => p[i].pos = req[m].size
           /\ stream /\ p[i].fd => p[i].pos = 1
           /\ proto = "fd" => p[i].fd
  <2> SUFFICES ASSUME NEW i \in 1 .. k
               PROVE  /\ p[i].fd => i = 1 /\ n = 0
                      /\ proto = "fd" => p[i].fd
    BY <1>4, <1>7
  <2>1. proto = "fd" => req[m].size = 1 /\ req[m].fd
    BY <1>1 DEF Taken
  <2>2. p[i].fd <=> req[m].fd /\ n + i = 1
    BY <1>7
  <2>3. p[i].fd => i = 1 /\ n = 0
    BY <2>2
  <2>4. proto = "fd" => n + i = 1
    BY <1>4, <2>1
  <2>5. QED
    BY <2>1, <2>2, <2>3, <2>4
<1>9. stream /\ Len(p) > 0 => p[Len(p)].end
  BY <1>7
<1>10. k > 0 => (p[1].fd <=> req[m].fd /\ n = 0)
  BY <1>7
<1>11. k > 0 /\ p[1].fd => desc[m] = "kept"
  <2>1. (ret[m] = -1 => desc[m] = "kept") /\ (ret[m] = 0 => req[m].size = 0)
    BY <1>1 DEF Taken
  <2>2. k > 0 /\ n = 0 => ret[m] = -1
    <3>1. k <= req[m].size - n
      BY <1>4
    <3>2. CASE ret[m] >= 0
      <4>1. n = ret[m]
        BY <1>3, <3>2
      <4>2. ~ (k > 0 /\ n = 0)
        BY <1>2, <2>1, <3>1, <4>1
      <4>3. QED
        BY <4>2
    <3>3. CASE ret[m] < 0
      BY <1>2, <3>3
    <3>4. QED
      BY <1>2, <3>2, <3>3
  <2>3. QED
    BY <1>10, <2>1, <2>2
<1>12. queue \in Seq(Piece) /\ due \in Seq(Octet) /\ msg.data \in Seq(Octet)
  <2>1. queue \in Seq(Piece) /\ due \in Seq(Octet)
    BY <1>t, Zenon DEF SockType, RecvType
  <2>2. QED
    BY <1>t, <2>1 DEF RecvType
<1>13. Bytes(p) \in Seq(Octet) /\ due' \in Seq(Octet)
  <2>1. Bytes(p) \in Seq(Octet)
    BY BytesType
  <2>2. QED
    BY <1>7, <1>12, <2>1, ConcatProperties
<1>a. desc' = [desc EXCEPT ![m] = IF Len(p) > 0 /\ p[1].fd THEN "flight" ELSE @]
  BY <1>7
<1>b. queue' = queue \o p /\ Len(queue) + Len(p) <= Room /\ (Len(p) > 0 /\ p[1].fd => desc[m] = "kept")
  BY <1>4, <1>7, <1>11
<1>14. /\ SockType' /\ RecvType'
       /\ QueueInv' /\ OwnerInv' /\ AnswerInv' /\ DataInv' /\ EndInv'
  BY <1>0, <1>5, <1>8, <1>9, <1>13, <1>a, <1>b, QueueGrows
<1>15. SendType'
  BY <1>4, <1>5, <1>7, <1>t DEF SendType
<1>16. SendInv'
  <2>1. SenderInv'
    BY <1>5 DEF FdInv, SendInv, SenderInv
  <2>2. ASSUME NEW l \in Msg PROVE Taken(l)'
    <3>1. Taken(l)
      BY DEF FdInv, SendInv
    <3>2. UNCHANGED <<proto, calls, req, outcome>>
      BY <1>5 DEF sockVars
    <3>3. CASE l = m
      <4>1. ret'[m] = n + k /\ desc'[m] = IF k > 0 /\ p[1].fd THEN "flight" ELSE desc[m]
        BY <1>4, <1>7, <1>t DEF SendType
      <4>2. n + k >= 0 /\ n + k <= req[m].size /\ (n + k = 0 => req[m].size = 0)
        BY <1>2, <1>4
      <4>3. n + k > 0 /\ req[m].fd => desc'[m] # "kept"
        BY <1>1, <1>2, <1>3, <1>4, <1>10, <4>1 DEF Taken
      <4>4. m <= calls /\ m \in Int /\ calls \in Int
        BY <1>1, <1>t DEF Msg, SendType
      <4>5. proto = "fd" => req[m].size = 1 /\ req[m].fd
        BY <1>1 DEF Taken
      <4>6. QED
        BY <1>1, <1>2, <3>2, <3>3, <4>1, <4>2, <4>3, <4>4, <4>5 DEF Taken
    <3>4. CASE l # m
      <4>1. ret'[l] = ret[l] /\ desc'[l] = desc[l]
        BY <1>4, <1>t, <3>4 DEF SendType
      <4>2. QED
        BY <3>1, <3>2, <4>1 DEF Taken
    <3>5. QED
      BY <3>3, <3>4
  <2>3. QED
    BY <2>1, <2>2 DEF SendInv
<1>17. StreamInOrder'
  <2>1. due = msg.data \o Bytes(queue) /\ last.data = last.due
    BY <1>4 DEF FdInv, StreamInOrder
  <2>2. Bytes(queue \o p) = Bytes(queue) \o Bytes(p) /\ Bytes(queue) \in Seq(Octet)
    BY <1>12, BytesConcat, BytesType
  <2>3. (msg.data \o Bytes(queue)) \o Bytes(p) = msg.data \o (Bytes(queue) \o Bytes(p))
    <3>1. \A a, b, c \in Seq(Octet) : (a \o b) \o c = a \o (b \o c)
      BY ConcatAssociative
    <3>2. QED
      BY <1>12, <1>13, <2>2, <3>1, Zenon
  <2>4. due' = msg.data \o Bytes(queue \o p)
    BY <1>7, <2>1, <2>2, <2>3
  <2>5. Bytes(queue)' = Bytes(queue')
    BY DEF Bytes
  <2>6. due' = msg'.data \o Bytes(queue)' /\ last'.data = last'.due
    BY <1>5, <1>7, <2>1, <2>4, <2>5 DEF recvVars
  <2>7. QED
    BY <2>6 DEF StreamInOrder
<1>18. QED
  BY <1>14, <1>15, <1>16, <1>17 DEF FdInv, FdType

LEMMA MsgFinite == IsFiniteSet(Msg) /\ \A S \in SUBSET Msg : IsFiniteSet(S) /\ Cardinality(S) \in Nat
<1>1. IsFiniteSet(Msg)
  BY FdPassAssumption, FS_Interval DEF Msg
<1>2. QED
  BY <1>1, FS_Subset, FS_CardinalityType

\* The place in the rest of the queue of a piece behind the first n.
LEMMA Shift ==
  ASSUME NEW L \in Nat, NEW n \in 1 .. L
  PROVE  /\ \A r \in Nat : L <= r => L - n <= r
         /\ \A i \in 1 .. L : i \notin 1 .. n => i - n \in 1 .. L - n /\ n + (i - n) = i
         /\ \A i \in 1 .. L - n, j \in 1 .. L : n + i <= j => j \notin 1 .. n /\ i <= j - n
OBVIOUS

\* The system takes the first n pieces, which bring one descriptor, m, or none
\* (m = 0), and gives recvmsg the bytes d.
LEMMA QueueShrinks ==
  ASSUME FdInv, NEW n \in 1 .. Len(queue), NEW m \in 0 .. MaxSends, NEW d \in Seq(Octet),
         queue' = SubSeq(queue, n + 1, Len(queue)), Takes(m, d), pc = "ocaml",
         Len(d) <= sizeof_buf,
         m # 0 => \E i \in 1 .. n : queue[i].fd /\ queue[i].msg = m,
         \A i \in 1 .. n : queue[i].fd => queue[i].msg = m,
         stream => Len(d) > 0 /\ d = Bytes(SubSeq(queue, 1, n)),
         m # 0 => Companion(m, d), Complete(d),
         proto = "fd" => m # 0
  PROVE  FdInv'
<1> USE FdPassAssumption
<1>t. SockType /\ SendType /\ RecvType
  BY DEF FdInv, FdType
<1>q. queue \in Seq(Piece)
  BY <1>t, Zenon DEF SockType
<1>l. Len(queue) \in Nat /\ DOMAIN queue = 1 .. Len(queue) /\ n \in Nat /\ n <= Len(queue)
  BY <1>q
<1>r. /\ queue' \in Seq(Piece) /\ Len(queue') = Len(queue) - n
      /\ DOMAIN queue' = 1 .. Len(queue) - n
      /\ \A i \in 1 .. Len(queue) - n : queue'[i] = queue[n + i]
  <2>1. n \in 0 .. Len(queue)
    BY <1>l
  <2>2. /\ queue' \in Seq(Piece) /\ Len(queue') = Len(queue) - n
        /\ \A i \in 1 .. Len(queue) - n : queue'[i] = queue[n + i]
    BY <1>q, <2>1, Cut
  <2>3. QED
    BY <2>2
<1>z. /\ Len(queue) <= Room => Len(queue) - n <= Room
      /\ \A i \in 1 .. Len(queue) :
           i \notin 1 .. n => i - n \in 1 .. Len(queue) - n /\ n + (i - n) = i
      /\ \A i \in 1 .. Len(queue) - n, j \in 1 .. Len(queue) :
           n + i <= j => j \notin 1 .. n /\ i <= j - n
  <2>1. Room \in Nat
    OBVIOUS
  <2>2. QED
    BY <1>l, <2>1, Shift, Zenon
<1>1. UNCHANGED <<sockVars, shut, sendVars, known, leaked, due>>
  BY DEF Takes
<1>2. /\ pc' = "back" /\ last' = Nothing
      /\ msg' = [len |-> Len(d), data |-> d, cmsg |-> Control(m).cmsg, fd |-> Control(m).fd]
  BY DEF Takes
<1>3. desc' = [x \in Msg |-> IF x # m THEN desc[x]
                              ELSE IF Control(m).fd = m THEN "installed" ELSE "dropped"]
  BY DEF Takes
<1>4. \/ /\ Control(m) = [cmsg |-> "rights", fd |-> m]
         /\ m # 0 /\ Cardinality(Installed) < MaxFds
      \/ Control(m) = [cmsg |-> "other", fd |-> 0]
      \/ Control(m) = [cmsg |-> "none", fd |-> 0]
  BY DEF Control
<1>c. \/ /\ Control(m).cmsg = "rights" /\ Control(m).fd = m
         /\ m # 0 /\ Cardinality(Installed) < MaxFds
      \/ Control(m).cmsg \in {"other", "none"} /\ Control(m).fd = 0
  BY <1>4
<1>m. 0 \notin Msg /\ m \in Nat /\ (m # 0 => m \in Msg /\ desc[m] = "flight")
  <2>1. 0 \notin Msg /\ (m # 0 => m \in Msg)
    BY DEF Msg
  <2>2. ASSUME m # 0 PROVE desc[m] = "flight"
    <3>1. PICK i \in 1 .. n : queue[i].fd /\ queue[i].msg = m
      BY <2>2
    <3>2. i \in DOMAIN queue
      BY <1>l
    <3>3. QED
      BY <3>1, <3>2 DEF FdInv, QueueInv, PieceInv
  <2>3. QED
    BY <2>1, <2>2
<1>d. \A x \in Msg :
        /\ x # m => desc'[x] = desc[x]
        /\ x = m => desc'[x] = IF Control(m).cmsg = "rights" THEN "installed" ELSE "dropped"
  BY <1>3, <1>c, <1>m
<1>5. FdType'
  <2>1. SockType'
    BY <1>t, <1>1, <1>r DEF SockType, sockVars
  <2>2. SendType'
    <3>1. desc' \in [Msg -> {"kept", "flight", "installed", "dropped", "closed"}]
      BY <1>3, <1>t DEF SendType
    <3>2. QED
      BY <1>t, <1>1, <3>1 DEF SendType, sendVars
  <2>3. RecvType'
    <3>1. msg' \in [len : Int, data : Seq(Octet), cmsg : {"none", "rights", "other"},
                    fd : 0 .. MaxSends]
      BY <1>2, <1>c
    <3>2. last'.data = <<>> /\ <<>> \in Seq(Octet)
      BY <1>2 DEF Nothing
    <3>3. QED
      BY <1>1, <1>2, <1>t, <3>1, <3>2 DEF RecvType, Nothing
  <2>4. QED
    BY <2>1, <2>2, <2>3 DEF FdType
<1>6. SendInv'
  <2>1. \A x \in Msg : desc'[x] = "kept" <=> desc[x] = "kept"
    BY <1>d, <1>m
  <2>2. QED
    BY <1>1, <2>1, DescMoves DEF sockVars
<1>7. QueueInv'
  <2>0. \A i \in DOMAIN queue' : n + i \in DOMAIN queue /\ i \in Nat /\ queue'[i] = queue[n + i]
    BY <1>l, <1>r
  <2>1. ASSUME NEW i \in DOMAIN queue' PROVE PieceInv(i)'
    <3>1. PieceInv(n + i) /\ queue[n + i].msg \in Msg
      BY <1>q, <2>0, PieceType DEF FdInv, QueueInv
    <3>2. ASSUME queue[n + i].fd PROVE queue[n + i].msg # m
      <4>1. SUFFICES ASSUME queue[n + i].msg = m PROVE FALSE
        OBVIOUS
      <4>2. m # 0
        BY <3>1, <4>1 DEF Msg
      <4>3. PICK j \in 1 .. n : queue[j].fd /\ queue[j].msg = m
        BY <4>2
      <4>4. j \in DOMAIN queue /\ n + i \in DOMAIN queue /\ j # n + i
        BY <1>l, <2>0
      <4>5. QED
        BY <3>2, <4>1, <4>3, <4>4 DEF FdInv, QueueInv
    <3>3. queue[n + i].fd => desc'[queue[n + i].msg] = desc[queue[n + i].msg]
      BY <1>d, <3>1, <3>2
    <3>4. UNCHANGED <<stream, proto, calls, req>>
      BY <1>1 DEF sockVars, sendVars
    <3>5. queue'[i] = queue[n + i]
      BY <2>0
    <3>6. QED
      BY <3>1, <3>3, <3>4, <3>5 DEF PieceInv
  <2>2. ASSUME NEW i \in DOMAIN queue', NEW j \in DOMAIN queue',
               queue'[i].fd, queue'[j].fd, queue'[i].msg = queue'[j].msg
        PROVE  i = j
    <3>1. n + i = n + j
      BY <2>0, <2>2 DEF FdInv, QueueInv
    <3>2. QED
      BY <1>l, <2>0, <3>1
  <2>3. ASSUME NEW x \in Msg, desc'[x] = "flight"
        PROVE  \E i \in DOMAIN queue' : queue'[i].fd /\ queue'[i].msg = x
    <3>1. x # m /\ desc[x] = "flight"
      BY <1>d, <2>3
    <3>2. PICK i \in DOMAIN queue : queue[i].fd /\ queue[i].msg = x
      BY <3>1 DEF FdInv, QueueInv
    <3>3. ~ (i \in 1 .. n)
      BY <3>1, <3>2
    <3>4. i - n \in DOMAIN queue' /\ n + (i - n) = i
      BY <1>l, <1>r, <1>z, <3>3, Zenon
    <3>5. queue'[i - n] = queue[i]
      BY <2>0, <3>4
    <3>6. QED
      BY <3>2, <3>4, <3>5
  <2>4. ASSUME stream', NEW i \in DOMAIN queue', queue'[i].fd
        PROVE  queue'[i].pos = 1 /\ Block(i)'
    <3>1. queue[n + i].pos = 1 /\ Block(n + i)
      BY <1>1, <2>0, <2>4 DEF FdInv, QueueInv, sockVars
    <3>2. PICK j \in DOMAIN queue :
            /\ n + i <= j /\ queue[j].end
            /\ \A k \in DOMAIN queue : n + i <= k /\ k <= j => queue[k].msg = queue[n + i].msg
      BY <3>1 DEF Block
    <3>3. j - n \in DOMAIN queue' /\ i <= j - n /\ n + (j - n) = j
      BY <1>l, <1>r, <1>z, <3>2, Zenon
    <3>4. queue'[j - n] = queue[j] /\ queue'[i] = queue[n + i]
      BY <2>0, <3>3
    <3>5. ASSUME NEW k \in DOMAIN queue', i <= k, k <= j - n
          PROVE  queue'[k].msg = queue'[i].msg
      <4>1. n + k \in DOMAIN queue /\ n + i <= n + k /\ n + k <= j /\ queue'[k] = queue[n + k]
        BY <1>l, <2>0, <3>5
      <4>2. QED
        BY <3>2, <3>4, <4>1
    <3>6. QED
      BY <3>1, <3>2, <3>3, <3>4, <3>5 DEF Block
  <2>5. Len(queue') <= Room
    <3>1. Len(queue) <= Room
      BY DEF FdInv, QueueInv
    <3>2. QED
      BY <1>r, <1>z, <3>1, Zenon
  <2>6. QED
    BY <2>1, <2>2, <2>3, <2>4, <2>5, Zenon DEF QueueInv
<1>i. msg = NoMsg /\ InHand = {}
  BY DEF FdInv, AnswerInv, InHand, NoMsg
<1>8. OwnerInv'
  <2>0. known \cap leaked = {} /\ Installed = known \cup leaked /\ Cardinality(Installed) <= MaxFds
    BY <1>i DEF FdInv, OwnerInv
  <2>1. CASE Control(m).cmsg = "rights"
    <3>1. /\ Control(m).fd = m /\ m \in Msg /\ desc[m] = "flight" 
          /\ Cardinality(Installed) < MaxFds
      BY <1>c, <1>m, <2>1
    <3>2. InHand' = {m}
      BY <1>2, <2>1, <3>1 DEF InHand
    <3>3. Installed' = Installed \cup {m} /\ m \notin Installed
      BY <1>d, <2>1, <3>1 DEF Installed
    <3>4. Cardinality(Installed) \in Nat /\ IsFiniteSet(Installed)
      BY MsgFinite DEF Installed
    <3>5. Cardinality(Installed \cup {m}) = Cardinality(Installed) + 1
      BY <3>3, <3>4, FS_AddElement
    <3>6. Cardinality(Installed') <= MaxFds
      BY <3>1, <3>3, <3>4, <3>5
    <3>7. QED
      BY <1>1, <2>0, <3>2, <3>3, <3>6 DEF OwnerInv
  <2>2. CASE Control(m).cmsg # "rights"
    <3>1. InHand' = {}
      BY <1>2, <2>2 DEF InHand
    <3>2. Installed' = Installed
      BY <1>d, <1>m, <2>2 DEF Installed
    <3>3. QED
      BY <1>1, <2>0, <3>1, <3>2 DEF OwnerInv
  <2>3. QED
    BY <2>1, <2>2
<1>9. AnswerInv'
  <2>1. Len(d) \in Nat
    OBVIOUS
  <2>2. QED
    BY <1>2, <2>1 DEF AnswerInv
<1>10. StreamInOrder'
  <2>1. CASE stream
    <3>1. msg.data = <<>> /\ due = msg.data \o Bytes(queue)
      BY <1>i, <2>1 DEF FdInv, StreamInOrder, NoMsg
    <3>2. Bytes(queue) \in Seq(Octet)
      BY <1>q, BytesType
    <3>3. due = Bytes(queue)
      BY <3>1, <3>2, ConcatEmptySeq
    <3>4. n \in 0 .. Len(queue)
      BY <1>l
    <3>5. Bytes(queue) = d \o Bytes(queue')
      BY <1>q, <2>1, <3>4, Cut
    <3>6. Bytes(queue)' = Bytes(queue')
      BY DEF Bytes
    <3>7. due' = msg'.data \o Bytes(queue)' /\ last'.data = last'.due
      BY <1>1, <1>2, <3>3, <3>5, <3>6 DEF Nothing
    <3>8. QED
      BY <3>7 DEF StreamInOrder
  <2>2. CASE ~stream
    BY <1>1, <2>2 DEF StreamInOrder, sockVars
  <2>3. QED
    BY <2>1, <2>2
<1>11. DataInv'
  <2>1. msg'.data = d /\ (msg'.cmsg = "rights" => msg'.fd = m /\ m # 0)
    BY <1>2, <1>c
  <2>2. last'.fds = {} /\ last'.data = <<>>
    BY <1>2 DEF Nothing
  <2>3. UNCHANGED <<stream, calls, req>>
    BY <1>1 DEF sockVars, sendVars
  <2>4. Complete(d)'
    BY <2>3 DEF Complete
  <2>5. m # 0 => Companion(m, d)'
    BY <2>3 DEF Companion
  <2>6. Complete(msg.data)'
    BY <2>1, <2>4 DEF Complete
  <2>7. msg'.cmsg = "rights" => Companion(msg.fd, msg.data)'
    BY <2>1, <2>5 DEF Companion
  <2>8. Complete(last.data)'
    BY <2>2 DEF Complete
  <2>9. QED
    BY <2>2, <2>6, <2>7, <2>8 DEF DataInv
<1>12. EndInv'
  <2>1. last'.result = "none" /\ msg'.len = Len(d) /\ msg'.cmsg = Control(m).cmsg
    BY <1>2 DEF Nothing
  <2>2. stream' => Len(d) > 0 /\ Len(d) \in Nat
    BY <1>1 DEF sockVars
  <2>3. proto' = "fd" /\ msg'.cmsg = "none" => Dropped'
    <3>1. proto' = proto
      BY <1>1 DEF sockVars
    <3>2. SUFFICES ASSUME proto = "fd", Control(m).cmsg = "none" PROVE Dropped'
      BY <2>1, <3>1
    <3>3. m \in Msg /\ desc'[m] = "dropped"
      BY <1>d, <1>m, <3>2
    <3>4. QED
      BY <3>3 DEF Dropped
  <2>4. EmptyIsEnd' /\ RecvfdFinds'
    BY <2>1 DEF EmptyIsEnd, RecvfdFinds
  <2>5. stream' => msg'.len # 0
    BY <2>1, <2>2
  <2>6. QED
    BY <2>3, <2>4, <2>5 DEF EndInv
<1>13. QED
  BY <1>5, <1>6, <1>7, <1>8, <1>9, <1>10, <1>11, <1>12 DEF FdInv

\* A read of a stream takes at least one byte, fits into the buffer, and does
\* not go beyond the piece of the first descriptor.
LEMMA StreamTakesWell ==
  ASSUME queue \in Seq(Piece), queue # <<>>
  PROVE  /\ StreamTakes \in 1 .. Len(queue) /\ StreamTakes <= sizeof_buf
         /\ \A i, j \in DOMAIN queue : i <= j /\ queue[i].fd /\ queue[j].end => StreamTakes <= j
<1> USE FdPassAssumption
<1> DEFINE S == {iov_len, Len(queue)} \cup
                {j \in DOMAIN queue : queue[j].end /\ \E i \in 1 .. j : queue[i].fd}
<1>1. Len(queue) \in Nat \ {0} /\ DOMAIN queue = 1 .. Len(queue)
  BY EmptySeq
<1>2. iov_len \in Nat \ {0} /\ iov_len = sizeof_buf
  BY DEF iov_len
<1>3. S \in SUBSET (Nat \ {0}) /\ S # {} /\ iov_len \in S /\ Len(queue) \in S
  BY <1>1, <1>2
<1>4. \A i, j \in DOMAIN queue : i <= j /\ queue[i].fd /\ queue[j].end => j \in S
  BY <1>1
<1>5. StreamTakes = Min(S)
  BY DEF StreamTakes
<1> HIDE DEF S
<1>6. Min(S) \in S /\ \A y \in S : Min(S) <= y
  <2>1. S \in SUBSET Nat
    BY <1>3
  <2>2. QED
    BY <1>3, <2>1, MinExists
<1>7. PICK n \in Nat \ {0} : n = StreamTakes /\ \A y \in S : n <= y
  BY <1>3, <1>5, <1>6
<1>8. n <= Len(queue) /\ n <= sizeof_buf
  BY <1>2, <1>3, <1>7
<1>9. QED
  BY <1>1, <1>4, <1>7, <1>8

LEMMA ReceiveStreamStep ==
  ASSUME FdInv, KernelReceives, stream
  PROVE  FdInv'
<1> USE FdPassAssumption
<1>t. SockType /\ SendType /\ RecvType
  BY DEF FdInv, FdType
<1>q. queue \in Seq(Piece) /\ queue # <<>> /\ pc = "ocaml"
  BY <1>t, Zenon DEF SockType, KernelReceives
<1>l. Len(queue) \in Nat /\ DOMAIN queue = 1 .. Len(queue)
  BY <1>q
<1>n. PICK n \in 1 .. Len(queue) :
        /\ n = StreamTakes /\ n <= sizeof_buf
        /\ \A i, j \in DOMAIN queue : i <= j /\ queue[i].fd /\ queue[j].end => n <= j
  BY <1>q, StreamTakesWell
<1>x. n \in Nat /\ n > 0 /\ n <= Len(queue) /\ n \in 0 .. Len(queue) /\ 1 \in 1 .. n
  BY <1>l
<1> DEFINE D == {i \in 1 .. n : queue[i].fd}
           m == IF D = {} THEN 0 ELSE queue[Min(D)].msg
           d == Bytes(SubSeq(queue, 1, n))
<1>1. queue' = SubSeq(queue, n + 1, Len(queue)) /\ Takes(m, d)
  BY <1>n DEF KernelReceives
<1>2. /\ d \in Seq(Octet) /\ Len(d) = n
      /\ \A i \in 1 .. n : d[i] = <<queue[i].msg, queue[i].pos>>
  <2>1. PICK s \in Seq(Piece) : /\ s = SubSeq(queue, 1, n) /\ Len(s) = n
                                /\ \A i \in 1 .. n : s[i] = queue[i]
    BY <1>q, <1>x, Cut
  <2>2. /\ Bytes(s) \in Seq(Octet) /\ Len(Bytes(s)) = Len(s)
        /\ \A i \in 1 .. Len(s) : Bytes(s)[i] = <<s[i].msg, s[i].pos>>
    BY BytesType
  <2>3. QED
    BY <2>1, <2>2
<1>p. \A i \in 1 .. n : /\ i \in DOMAIN queue /\ queue[i].msg \in Msg /\ PieceInv(i)
                        /\ queue[i].fd => queue[i].pos = 1 /\ Block(i)
  <2>1. \A i \in 1 .. n : i \in DOMAIN queue
    BY <1>l, <1>x
  <2>2. QED
    BY <1>q, <2>1, PieceType DEF FdInv, QueueInv
<1>3. D # {} => /\ m \in Msg
                /\ \E i \in 1 .. n : /\ queue[i].fd /\ queue[i].msg = m
                                     /\ \A k \in 1 .. n : i <= k => queue[k].msg = m
                                     /\ \A k \in 1 .. n : queue[k].fd => i <= k
  <2> SUFFICES ASSUME D # {}
               PROVE  /\ m \in Msg
                      /\ \E i \in 1 .. n : /\ queue[i].fd /\ queue[i].msg = m
                                           /\ \A k \in 1 .. n : i <= k => queue[k].msg = m
                                           /\ \A k \in 1 .. n : queue[k].fd => i <= k
    OBVIOUS
  <2>1. D \in SUBSET Nat
    OBVIOUS
  <2>2. Min(D) \in D /\ \A y \in D : Min(D) <= y
    BY <2>1, MinExists
  <2>3. PICK i \in 1 .. n : i = Min(D) /\ queue[i].fd /\ m = queue[i].msg /\ \A y \in D : i <= y
    BY <2>2
  <2>4. PICK j \in DOMAIN queue :
          /\ i <= j /\ queue[j].end
          /\ \A k \in DOMAIN queue : i <= k /\ k <= j => queue[k].msg = queue[i].msg
    BY <1>p, <2>3 DEF Block
  <2>5. n <= j
    BY <1>n, <1>p, <2>3, <2>4
  <2>6. ASSUME NEW k \in 1 .. n, i <= k PROVE queue[k].msg = m
    <3>1. k <= j /\ k \in DOMAIN queue
      BY <1>l, <1>x, <2>5, <2>6
    <3>2. QED
      BY <2>3, <2>4, <2>6, <3>1
  <2>7. \A k \in 1 .. n : queue[k].fd => i <= k
    BY <2>3
  <2>8. QED
    BY <1>p, <2>3, <2>6, <2>7
<1>4. D = {} => m = 0 /\ \A i \in 1 .. n : ~queue[i].fd
  OBVIOUS
<1> HIDE DEF D, m, d
<1>5. m \in 0 .. MaxSends
  BY <1>3, <1>4 DEF Msg
<1>6. m # 0 => \E i \in 1 .. n : queue[i].fd /\ queue[i].msg = m
  BY <1>3, <1>4
<1>7. \A i \in 1 .. n : queue[i].fd => queue[i].msg = m
  BY <1>3, <1>4
<1>8. Len(d) > 0 /\ d = Bytes(SubSeq(queue, 1, n)) /\ Len(d) <= sizeof_buf
  BY <1>2, <1>n, <1>x DEF d
<1>9. m # 0 => Companion(m, d)
  <2> SUFFICES ASSUME m # 0 PROVE Companion(m, d)
    OBVIOUS
  <2>1. PICK i \in 1 .. n : /\ queue[i].fd /\ queue[i].msg = m
                            /\ \A k \in 1 .. n : i <= k => queue[k].msg = m
    BY <1>3, <1>4
  <2>2. queue[i].pos = 1 /\ i \in DOMAIN d /\ d[i] = <<m, 1>>
    BY <1>2, <1>p, <2>1
  <2>3. ASSUME NEW k \in i .. Len(d) PROVE d[k][1] = m
    <3>1. k \in 1 .. n /\ i <= k
      BY <1>2, <1>x
    <3>2. d[k] = <<queue[k].msg, queue[k].pos>> /\ queue[k].msg = m
      BY <1>2, <2>1, <3>1
    <3>3. QED
      BY <3>2
  <2>4. QED
    BY <2>2, <2>3 DEF Companion
<1>10. Complete(d)
  <2>1. \A i \in DOMAIN d : i \in 1 .. n
    BY <1>2
  <2>2. \A i \in 1 .. n : d[i][1] = queue[i].msg /\ queue[i].msg <= calls
    BY <1>2, <1>p DEF PieceInv
  <2>3. QED
    BY <2>1, <2>2 DEF Complete
<1>11. proto = "fd" => m # 0
  <2>1. proto = "fd" => queue[1].fd /\ queue[1].msg \in Msg
    BY <1>p, <1>x DEF PieceInv
  <2>2. 0 \notin Msg
    BY DEF Msg
  <2>3. QED
    BY <1>7, <1>x, <2>1, <2>2
<1>12. QED
  BY <1>q, <1>1, <1>2, <1>5, <1>6, <1>7, <1>8, <1>9, <1>10, <1>11, QueueShrinks

LEMMA ReceiveDatagramStep ==
  ASSUME FdInv, KernelReceives, ~stream
  PROVE  FdInv'
<1> USE FdPassAssumption
<1>t. SockType /\ SendType /\ RecvType
  BY DEF FdInv, FdType
<1>q. queue \in Seq(Piece) /\ queue # <<>> /\ pc = "ocaml"
  BY <1>t, Zenon DEF SockType, KernelReceives
<1>l. Len(queue) \in Nat \ {0} /\ 1 \in 1 .. Len(queue) /\ DOMAIN queue = 1 .. Len(queue)
  BY <1>q, EmptySeq
<1>p. /\ queue[1].msg \in Msg /\ queue[1].pos \in Nat /\ PieceInv(1)
      /\ queue[1].msg \in Nat \ {0} /\ queue[1].msg <= MaxSends
  <2>1. queue[1].msg \in Msg /\ queue[1].pos \in Nat /\ PieceInv(1)
    BY <1>q, <1>l, PieceType DEF FdInv, QueueInv
  <2>2. QED
    BY <2>1 DEF Msg
<1>k. PICK k \in Nat : /\ k = Min({queue[1].pos, iov_len})
                       /\ k <= sizeof_buf /\ (k < sizeof_buf => k = queue[1].pos)
  <2>1. {queue[1].pos, iov_len} \in SUBSET Nat /\ iov_len = sizeof_buf
    BY <1>p DEF iov_len
  <2>2. /\ Min({queue[1].pos, iov_len}) \in {queue[1].pos, iov_len}
        /\ \A y \in {queue[1].pos, iov_len} : Min({queue[1].pos, iov_len}) <= y
    BY <2>1, MinExists
  <2>3. QED
    BY <1>p, <2>1, <2>2
<1> DEFINE m == IF queue[1].fd THEN queue[1].msg ELSE 0
           d == [i \in 1 .. k |-> <<queue[1].msg, i>>]
<1>1. queue' = Tail(queue) /\ Takes(m, d)
  BY <1>k DEF KernelReceives
<1>2. queue' = SubSeq(queue, 1 + 1, Len(queue))
  BY <1>q, <1>1, TailIsSubSeq
<1>3. d \in Seq(Octet) /\ Len(d) = k /\ \A i \in 1 .. k : d[i] = <<queue[1].msg, i>>
  <2>1. \A i \in 1 .. k : <<queue[1].msg, i>> \in Octet
    BY <1>p DEF Octet
  <2>2. d \in [1 .. k -> Octet]
    BY <2>1
  <2>3. QED
    BY <2>2
<1>4. m \in 0 .. MaxSends
  BY <1>p
<1>5. m # 0 => \E i \in 1 .. 1 : queue[i].fd /\ queue[i].msg = m
  OBVIOUS
<1>6. \A i \in 1 .. 1 : queue[i].fd => queue[i].msg = m
  OBVIOUS
<1>7. proto = "fd" => m # 0
  BY <1>p DEF PieceInv
<1>m. m # 0 => m = queue[1].msg
  OBVIOUS
<1> HIDE DEF m, d
<1>8. m # 0 => Companion(m, d)
  <2>0. DOMAIN d = 1 .. k
    BY <1>3, LenProperties
  <2>1. \A i \in DOMAIN d : d[i] = <<queue[1].msg, i>>
    BY <1>3, <2>0
  <2>2. QED
    BY <1>m, <2>1 DEF Companion
<1>9. Complete(d)
  <2>1. \A i \in DOMAIN d : d[i][1] = queue[1].msg
    BY <1>3
  <2>2. queue[1].msg <= calls /\ queue[1].pos = req[queue[1].msg].size
    BY <1>p DEF PieceInv
  <2>3. Len(d) < sizeof_buf => Len(d) = queue[1].pos
    BY <1>3, <1>k
  <2>4. QED
    BY <2>1, <2>2, <2>3 DEF Complete
<1>10. Len(d) <= sizeof_buf
  BY <1>3, <1>k
<1>11. stream => Len(d) > 0 /\ d = Bytes(SubSeq(queue, 1, 1))
  OBVIOUS
<1>12. PICK n \in 1 .. Len(queue) : n = 1
  BY <1>l
<1>13. QED
  <2>1. /\ queue' = SubSeq(queue, n + 1, Len(queue))
        /\ m # 0 => \E i \in 1 .. n : queue[i].fd /\ queue[i].msg = m
        /\ \A i \in 1 .. n : queue[i].fd => queue[i].msg = m
        /\ stream => Len(d) > 0 /\ d = Bytes(SubSeq(queue, 1, n))
    BY <1>2, <1>5, <1>6, <1>11, <1>12
  <2>2. QED
    BY <1>q, <1>1, <1>3, <1>4, <1>7, <1>8, <1>9, <1>10, <2>1, QueueShrinks

\* A descriptor that is closed was not on its way.
LEMMA QueueKept ==
  ASSUME FdInv, UNCHANGED <<sockVars, queue, sendVars>>,
         \A x \in Msg : desc'[x] = "flight" <=> desc[x] = "flight"
  PROVE  QueueInv'
<1>1. ASSUME NEW i \in DOMAIN queue PROVE PieceInv(i)'
  <2>1. PieceInv(i)
    BY DEF FdInv, QueueInv
  <2>2. queue \in Seq(Piece)
    BY Zenon DEF FdInv, FdType, SockType
  <2>3. queue[i].msg \in Msg
    BY <2>2, PieceType
  <2>4. QED
    BY <2>1, <2>3 DEF PieceInv, sockVars, sendVars
<1>2. (\A i \in DOMAIN queue : PieceInv(i))'
  BY <1>1
<1>3. QED
  BY <1>2 DEF FdInv, QueueInv, Block, sockVars

LEMMA ReturnStep ==
  ASSUME FdInv, NEW w \in Wrapper, NEW oom \in BOOLEAN, recvmsg_return(w, oom)
  PROVE  FdInv'
<1> USE FdPassAssumption
<1>t. SockType /\ SendType /\ RecvType
  BY DEF FdInv, FdType
<1>r. PICK r \in {"Unix_error", "Out_of_memory", "EINVAL", "ok"} :
        /\ r = recvmsg_result(oom)
        /\ r = "ok" => msg.len # -1 /\ msg.cmsg # "other"
        /\ r = "EINVAL" => msg.cmsg = "other"
        /\ msg.len = -1 => r = "Unix_error"
        /\ r = "Unix_error" => msg.len = -1
  BY DEF recvmsg_result
<1>n. PICK n \in Nat : n = IF stream THEN Max({0, msg.len}) ELSE 0
  <2>1. msg.len \in Int
    BY <1>t DEF RecvType
  <2>2. QED
    BY <2>1, MaxWithZero
<1>1. pc = "back" /\ pc' = "ocaml" /\ msg' = NoMsg /\ (proto = "fd" => w = "recvfd")
  BY DEF recvmsg_return
<1>2. UNCHANGED <<sockVars, queue, shut, sendVars>>
  BY DEF recvmsg_return
<1>3. /\ known' = IF r = "ok" THEN known \cup gives(w) ELSE known
      /\ desc'  = [m \in Msg |-> IF r = "ok" /\ m \in closes(w) THEN "closed" ELSE desc[m]]
      /\ due'   = SubSeq(due, n + 1, Len(due))
      /\ leaked' = IF r = "Out_of_memory" /\ msg.cmsg = "rights" THEN leaked \cup {msg.fd} ELSE leaked
      /\ last' = [result |-> IF r = "ok" /\ w = "recvfd" /\ msg.cmsg # "rights"
                             THEN "no descriptor" ELSE r,
                  fds    |-> IF r = "ok" THEN gives(w) \cup closes(w) ELSE {},
                  data   |-> IF r = "ok" THEN msg.data ELSE <<>>,
                  due    |-> IF r = "ok" THEN SubSeq(due, 1, n) ELSE <<>>]
  BY <1>r, <1>n DEF recvmsg_return, data
<1>4. /\ gives(w) \cup closes(w) = InHand /\ gives(w) \subseteq InHand /\ closes(w) \subseteq InHand
      /\ gives(w) \cap closes(w) = {}
      /\ InHand = IF msg.cmsg = "rights" THEN {msg.fd} ELSE {}
  BY DEF gives, closes, InHand
<1>o. /\ InHand \subseteq Msg /\ \A m \in InHand : desc[m] = "installed"
      /\ known \cap leaked = {} /\ InHand \cap (known \cup leaked) = {}
      /\ Installed = known \cup leaked \cup InHand
  BY DEF FdInv, OwnerInv, Installed
<1>d. \A m \in Msg : desc'[m] = IF r = "ok" /\ m \in closes(w) THEN "closed" ELSE desc[m]
  BY <1>3
<1>h. InHand' = {}
  BY <1>1 DEF InHand, NoMsg
<1>e. msg.data \in Seq(Octet) /\ due \in Seq(Octet) /\ msg.len \in Int
  <2>1. due \in Seq(Octet)
    BY <1>t, Zenon DEF RecvType
  <2>2. QED
    BY <1>t, <2>1 DEF RecvType
<1>a. msg.len = -1 => msg.data = <<>> /\ msg.cmsg = "none"
  BY DEF FdInv, AnswerInv
<1>b. msg.len # -1 => msg.len = Len(msg.data)
  BY DEF FdInv, AnswerInv
<1>s. stream => /\ n = Len(msg.data) /\ due = msg.data \o Bytes(queue)
                /\ SubSeq(due, 1, n) = msg.data /\ SubSeq(due, n + 1, Len(due)) = Bytes(queue)
                /\ Bytes(queue) \in Seq(Octet)
  <2> SUFFICES ASSUME stream
               PROVE  /\ n = Len(msg.data) /\ due = msg.data \o Bytes(queue)
                      /\ SubSeq(due, 1, n) = msg.data /\ SubSeq(due, n + 1, Len(due)) = Bytes(queue)
                      /\ Bytes(queue) \in Seq(Octet)
    OBVIOUS
  <2>1. n = Len(msg.data)
    <3>1. n = IF msg.len >= 0 THEN msg.len ELSE 0
      BY <1>e, <1>n, MaxWithZero
    <3>2. Len(msg.data) \in Nat /\ (msg.len = -1 => Len(msg.data) = 0)
      BY <1>a, <1>e
    <3>3. QED
      BY <1>b, <1>e, <3>1, <3>2
  <2>2. due = msg.data \o Bytes(queue)
    BY DEF FdInv, StreamInOrder
  <2>3. queue \in Seq(Piece)
    BY <1>t, Zenon DEF SockType
  <2>4. Bytes(queue) \in Seq(Octet)
    BY <2>3, BytesType
  <2>5. QED
    BY <1>e, <2>1, <2>2, <2>4, Behind
<1>f. due' \in Seq(Octet) /\ (r = "ok" => SubSeq(due, 1, n) \in Seq(Octet))
  <2>1. CASE stream
    BY <1>3, <1>e, <1>s, <2>1
  <2>2. CASE ~stream
    <3>1. n = 0 /\ SubSeq(due, 1, 0) = <<>> /\ SubSeq(due, 1, Len(due)) = due
      BY <1>e, <1>n, <2>2, SubSeqFull, SubSeqEmpty
    <3>2. <<>> \in Seq(Octet) /\ n + 1 = 1
      BY <3>1
    <3>3. QED
      BY <1>3, <1>e, <3>1, <3>2
  <2>3. QED
    BY <2>1, <2>2
<1>5. FdType'
  <2>1. SockType'
    BY <1>2, <1>t DEF SockType, sockVars
  <2>2. desc' \in [Msg -> {"kept", "flight", "installed", "dropped", "closed"}]
    BY <1>3, <1>t DEF SendType
  <2>3. SendType'
    BY <1>2, <1>t, <2>2 DEF SendType, sendVars
  <2>4. <<>> \in Seq(Octet)
    OBVIOUS
  <2>5. msg' \in [len : Int, data : Seq(Octet), cmsg : {"none", "rights", "other"},
                  fd : 0 .. MaxSends]
    BY <1>1, <2>4 DEF NoMsg
  <2>6. known' \in SUBSET Msg /\ leaked' \in SUBSET Msg
    BY <1>3, <1>4, <1>o, <1>t DEF RecvType
  <2>7. last' \in [result : {"none", "ok", "no descriptor", "Unix_error", "Out_of_memory", "EINVAL"},
                   fds : SUBSET Msg, data : Seq(Octet), due : Seq(Octet)]
    <3>1. (IF r = "ok" THEN gives(w) \cup closes(w) ELSE {}) \in SUBSET Msg
      BY <1>4, <1>o
    <3>2. (IF r = "ok" THEN SubSeq(due, 1, n) ELSE <<>>) \in Seq(Octet)
      BY <1>f, <2>4
    <3>3. (IF r = "ok" THEN msg.data ELSE <<>>) \in Seq(Octet)
      BY <1>e, <2>4
    <3>4. QED
      BY <1>3, <3>1, <3>2, <3>3
  <2>8. RecvType'
    BY <1>1, <1>f, <2>5, <2>6, <2>7 DEF RecvType
  <2>9. QED
    BY <2>1, <2>3, <2>8 DEF FdType
<1>6. SendInv'
  <2>1. \A x \in Msg : desc'[x] = "kept" <=> desc[x] = "kept"
    BY <1>4, <1>d, <1>o
  <2>2. QED
    BY <1>2, <2>1, DescMoves DEF sockVars
<1>7. QueueInv'
  <2>1. \A x \in Msg : desc'[x] = "flight" <=> desc[x] = "flight"
    BY <1>4, <1>d, <1>o
  <2>2. QED
    BY <1>2, <2>1, QueueKept
<1>8. OwnerInv'
  <2>1. Installed' = IF r = "ok" THEN Installed \ closes(w) ELSE Installed
    BY <1>d DEF Installed
  <2>2. Cardinality(Installed') <= Cardinality(Installed)
    <3>1. Installed' \in SUBSET Installed
      BY <2>1
    <3>2. IsFiniteSet(Installed)
      BY MsgFinite DEF Installed
    <3>3. QED
      BY <3>1, <3>2, FS_Subset
  <2>3. Cardinality(Installed') \in Nat /\ Cardinality(Installed) \in Nat
    BY MsgFinite DEF Installed
  <2>4. Cardinality(Installed') <= MaxFds
    BY <2>2, <2>3 DEF FdInv, OwnerInv
  <2>5. r = "ok" \/ InHand = {} \/ (r = "Out_of_memory" /\ msg.cmsg = "rights")
    BY <1>4, <1>a, <1>r
  <2>6. /\ known' \cap leaked' = {} /\ Installed' = known' \cup leaked'
    <3>1. CASE r = "ok"
      BY <1>3, <1>4, <1>o, <2>1, <3>1
    <3>2. CASE r # "ok" /\ InHand = {}
      BY <1>3, <1>4, <1>o, <2>1, <3>2
    <3>3. CASE r = "Out_of_memory" /\ msg.cmsg = "rights"
      BY <1>3, <1>4, <1>o, <2>1, <3>3
    <3>4. QED
      BY <2>5, <3>1, <3>2, <3>3
  <2>7. QED
    BY <1>h, <2>4, <2>6 DEF OwnerInv
<1>9. AnswerInv'
  BY <1>1 DEF AnswerInv, NoMsg
<1>10. StreamInOrder'
  <2>1. CASE stream
    <3>1. due' = Bytes(queue) /\ msg'.data = <<>> /\ last'.data = last'.due
      BY <1>1, <1>3, <1>s, <2>1 DEF NoMsg
    <3>2. <<>> \o Bytes(queue) = Bytes(queue)
      BY <1>s, <2>1, ConcatEmptySeq
    <3>3. Bytes(queue)' = Bytes(queue)
      BY <1>2 DEF Bytes
    <3>4. QED
      BY <3>1, <3>2, <3>3 DEF StreamInOrder
  <2>2. CASE ~stream
    BY <1>2, <2>2 DEF StreamInOrder, sockVars
  <2>3. QED
    BY <2>1, <2>2
<1>11. DataInv'
  <2>1. UNCHANGED <<stream, calls, req>>
    BY <1>2 DEF sockVars, sendVars
  <2>2. msg'.data = <<>> /\ msg'.cmsg # "rights"
    BY <1>1 DEF NoMsg
  <2>3. Complete(msg.data) /\ (msg.cmsg = "rights" => Companion(msg.fd, msg.data))
    BY DEF FdInv, DataInv
  <2>4. last'.data = (IF r = "ok" THEN msg.data ELSE <<>>) /\ last'.fds = (IF r = "ok" THEN InHand ELSE {})
    BY <1>3, <1>4
  <2>5. Complete(last.data)'
    <3>1. CASE r = "ok"
      BY <2>1, <2>3, <2>4, <3>1 DEF Complete
    <3>2. CASE r # "ok"
      BY <2>4, <3>2 DEF Complete
    <3>3. QED
      BY <3>1, <3>2
  <2>6. Complete(msg.data)'
    BY <2>2 DEF Complete
  <2>7. ASSUME NEW m \in last'.fds PROVE Companion(m, last.data)'
    <3>1. m = msg.fd /\ msg.cmsg = "rights" /\ last'.data = msg.data
      BY <1>4, <2>4, <2>7
    <3>2. Companion(m, msg.data)
      BY <2>3, <3>1
    <3>3. QED
      BY <2>1, <3>1, <3>2 DEF Companion
  <2>8. QED
    BY <2>2, <2>5, <2>6, <2>7 DEF DataInv
<1>12. EndInv'
  <2>0. /\ stream /\ msg.len = 0 => AtEnd
        /\ proto = "fd" /\ msg.len # -1 /\ msg.cmsg = "none" => (stream /\ AtEnd) \/ Dropped
    BY <1>1 DEF FdInv, EndInv
  <2>1. EmptyIsEnd'
    <3> SUFFICES ASSUME stream, last'.result = "ok", last'.data = <<>> PROVE AtEnd
      BY <1>2 DEF EmptyIsEnd, AtEnd, sockVars
    <3>1. r = "ok"
      BY <1>3
    <3>2. msg.data = <<>> /\ msg.len # -1
      BY <1>3, <1>r, <3>1
    <3>3. msg.len = 0
      BY <1>b, <3>2
    <3>4. QED
      BY <2>0, <3>3
  <2>2. RecvfdFinds'
    <3> SUFFICES ASSUME proto = "fd", last'.result = "no descriptor"
                 PROVE  (stream /\ AtEnd) \/ \E m \in Msg : desc'[m] = "dropped"
      BY <1>2 DEF RecvfdFinds, AtEnd, sockVars
    <3>1. r = "ok" /\ msg.cmsg # "rights"
      BY <1>3
    <3>2. msg.cmsg = "none" /\ msg.len # -1
      BY <1>r, <1>t, <3>1 DEF RecvType
    <3>3. \A m \in Msg : desc[m] = "dropped" => desc'[m] = "dropped"
      BY <1>4, <1>d, <1>o
    <3>4. QED
      BY <2>0, <3>2, <3>3 DEF Dropped
  <2>3. QED
    BY <1>1, <2>1, <2>2 DEF EndInv
<1>13. QED
  BY <1>5, <1>6, <1>7, <1>8, <1>9, <1>10, <1>11, <1>12 DEF FdInv

-----------------------------------------------------------------------------
LEMMA FdStep == FdInv /\ [Next]_vars => FdInv'
<1> SUFFICES ASSUME FdInv, [Next]_vars PROVE FdInv'
  OBVIOUS
<1>1. ASSUME NEW t \in Senders, Send(t) PROVE FdInv'
  <2>1. CASE proto = "any" /\ \E r \in Requests : caml_extunix_sendmsg(t, r)
    <3>1. PICK r \in Requests : caml_extunix_sendmsg(t, r)
      BY <2>1
    <3>2. r \in [size : Nat, fd : BOOLEAN] /\ (proto = "fd" => r.size = 1 /\ r.fd)
      BY <2>1, FdPassAssumption
    <3>3. QED
      BY <3>1, <3>2, SendStep
  <2>2. CASE sendfd(t)
    <3>1. PICK r \in [size : Nat, fd : BOOLEAN] : r = [size |-> 1, fd |-> TRUE]
      OBVIOUS
    <3>2. caml_extunix_sendmsg(t, r) /\ r.size = 1 /\ r.fd
      BY <2>2, <3>1 DEF sendfd
    <3>3. QED
      BY <3>2, SendStep
  <2>3. QED
    BY <1>1, <2>1, <2>2 DEF Send
<1>2. ASSUME NEW t \in Senders, KernelSends(t) PROVE FdInv'
  <2>1. CASE \E k \in 0 .. Room : KernelStream(t, k)
    <3>1. PICK k \in 0 .. Room : KernelStream(t, k)
      BY <2>1
    <3>2. k \in Nat
      BY FdPassAssumption
    <3>3. QED
      BY <3>1, <3>2, KernelStreamStep
  <2>2. CASE KernelDatagram(t)
    BY <2>2, KernelDatagramStep
  <2>3. QED
    BY <1>2, <2>1, <2>2 DEF KernelSends
<1>3. ASSUME NEW t \in Senders, sendmsg_return(t) PROVE FdInv'
  BY <1>3, SendReturnStep
<1>4. CASE Close
  BY <1>4, CloseStep
<1>5. CASE KernelReceives
  BY <1>5, ReceiveStreamStep, ReceiveDatagramStep
<1>6. CASE KernelEnd
  BY <1>6, KernelEndStep
<1>7. CASE KernelFails
  BY <1>7, KernelFailsStep
<1>8. CASE Returns
  <2>1. PICK w \in Wrapper, oom \in BOOLEAN : recvmsg_return(w, oom)
    BY <1>8 DEF Returns
  <2>2. QED
    BY <2>1, ReturnStep
<1>9. ASSUME NEW m \in Msg, CloseFd(m) PROVE FdInv'
  BY <1>9, CloseFdStep
<1>10. CASE UNCHANGED vars
  <2>1. UNCHANGED <<sockVars, queue, shut, sendVars, desc, recvVars, due>>
    BY <1>10 DEF vars
  <2>2. FdType' /\ SendInv'
    BY <2>1 DEF FdInv, FdType, SockType, SendType, RecvType, SendInv, SenderInv, Taken,
                sockVars, sendVars, recvVars
  <2>3. QueueInv' /\ OwnerInv' /\ AnswerInv'
    BY <2>1 DEF FdInv, QueueInv, PieceInv, Block, OwnerInv, Installed, InHand, AnswerInv,
                sockVars, sendVars, recvVars
  <2>4. StreamInOrder'
    BY <2>1 DEF FdInv, StreamInOrder, Bytes, sockVars, recvVars
  <2>5. DataInv'
    BY <2>1, DataUnchanged DEF FdInv, sockVars, sendVars, recvVars
  <2>6. EndInv'
    BY <2>1 DEF FdInv, EndInv, EmptyIsEnd, RecvfdFinds, AtEnd, Dropped, sockVars, recvVars
  <2>7. QED
    BY <2>2, <2>3, <2>4, <2>5, <2>6 DEF FdInv
<1>11. QED
  BY <1>1, <1>2, <1>3, <1>4, <1>5, <1>6, <1>7, <1>8, <1>9, <1>10 DEF Next

LEMMA FdInvHolds == Spec => []FdInv
BY FdInitially, FdStep, PTL DEF Spec

-----------------------------------------------------------------------------
\* The type invariant of descriptor passing (sendmsg.c).
THEOREM FdPassType == Spec => []TypeOK
<1>1. ASSUME FdInv PROVE TypeOK
  <2> USE FdPassAssumption
  <2>t. SockType /\ SendType /\ RecvType /\ SenderInv /\ (\A m \in Msg : Taken(m)) /\ AnswerInv
    BY <1>1 DEF FdInv, FdType, SendInv
  <2>1. queue \in Seq(Piece) /\ Len(queue) <= Room
    BY <1>1, Zenon DEF FdInv, FdType, SockType, QueueInv
  <2>2. sender \in [Senders -> 0 .. calls] /\ calls \in 0 .. MaxSends
    BY <2>t DEF SendType, SenderInv
  <2>3. \A m \in Msg : ret[m] \in -1 .. req[m].size
    BY <2>t DEF SendType, Taken
  <2>4. msg.len \in -1 .. sizeof_buf
    <3>1. msg.len \in Int /\ msg.data \in Seq(Octet)
      BY <2>t DEF RecvType
    <3>2. Len(msg.data) \in Nat
      BY <3>1
    <3>3. QED
      BY <2>t, <3>1, <3>2 DEF AnswerInv
  <2>5. pc \in {"ocaml", "back"} /\ known \subseteq Msg
    BY <2>t DEF RecvType
  <2>6. QED
    BY <2>t, <2>1, <2>2, <2>3, <2>4, <2>5 DEF TypeOK, SendType
<1>2. QED
  BY <1>1, FdInvHolds, PTL

\* Whoever gets an error from caml_extunix_sendmsg may send again, and success
\* means that the beginning of the message and its descriptor have left.
THEOREM SendTellsTruth == Spec => []SendIsHonest
<1>1. ASSUME FdInv PROVE SendIsHonest
  <2>1. ASSUME NEW m \in Msg
        PROVE  /\ outcome[m] = "raised" => ret[m] = -1 /\ desc[m] = "kept"
               /\ outcome[m] = "unit" /\ req[m].size > 0 =>
                    /\ ret[m] > 0
                    /\ req[m].fd => desc[m] # "kept"
    <3>1. Taken(m) /\ ret[m] \in Int /\ req[m].size \in Int
      BY <1>1 DEF FdInv, SendInv, FdType, SendType
    <3>2. QED
      BY <3>1 DEF Taken
  <2>2. QED
    BY <2>1 DEF SendIsHonest
<1>2. QED
  BY <1>1, FdInvHolds, PTL

\* No descriptor gets lost in the receiver's table, none is counted twice, and
\* one that is on its way is in the socket exactly once (caml_extunix_recvmsg
\* and its wrappers).
THEOREM EveryFdHasItsOwner == Spec => []FdsHaveOwners
<1>1. ASSUME FdInv PROVE FdsHaveOwners
  <2>1. /\ Installed = known \cup leaked \cup {m \in {msg.fd} : msg.cmsg = "rights"}
        /\ Cardinality(Installed) <= MaxFds
    BY <1>1 DEF FdInv, OwnerInv, InHand
  <2>2. ASSUME NEW m \in Msg
        PROVE  Cardinality({i \in DOMAIN queue : queue[i].fd /\ queue[i].msg = m})
                 = IF desc[m] = "flight" THEN 1 ELSE 0
    <3> DEFINE At == {i \in DOMAIN queue : queue[i].fd /\ queue[i].msg = m}
    <3>1. CASE desc[m] = "flight"
      <4>1. PICK i \in DOMAIN queue : queue[i].fd /\ queue[i].msg = m
        BY <1>1, <3>1 DEF FdInv, QueueInv
      <4>2. At = {i}
        BY <1>1, <4>1 DEF FdInv, QueueInv
      <4>3. QED
        BY <3>1, <4>2, FS_Singleton
    <3>2. CASE desc[m] # "flight"
      <4>1. At = {}
        BY <1>1, <3>2 DEF FdInv, QueueInv, PieceInv
      <4>2. QED
        BY <3>2, <4>1, FS_EmptySet
    <3>3. QED
      BY <3>1, <3>2
  <2>3. QED
    BY <2>1, <2>2 DEF FdsHaveOwners
<1>2. QED
  BY <1>1, FdInvHolds, PTL

\* The bytes of a stream come out of recvmsg in the order in which the socket
\* took them, whatever the pieces, the senders and the failures.
THEOREM StreamStaysInOrder == Spec => []StreamInOrder
<1>1. FdInv => StreamInOrder
  BY DEF FdInv
<1>2. QED
  BY <1>1, FdInvHolds, PTL

\* The descriptor of a result of recvmsg comes with the data that was sent
\* with it, and a datagram that does not fill the buffer is whole.
THEOREM FdComesWithItsData == Spec => []FdWithItsData
<1>1. FdInv => FdWithItsData
  <2>1. SUFFICES ASSUME DataInv PROVE FdWithItsData
    BY DEF FdInv
  <2>2. \A m \in last.fds : Companion(m, last.data)
    BY <2>1 DEF DataInv
  <2>3. Complete(last.data)
    BY <2>1 DEF DataInv
  <2>4. QED
    BY <2>2, <2>3, Zenon DEF FdWithItsData, Companion, Complete
<1>2. QED
  BY <1>1, FdInvHolds, PTL

\* recvmsg of a stream gives an empty message without a descriptor at the end
\* of the stream only.
THEOREM OnlyTheEndIsEmpty == Spec => []EmptyIsEnd
<1>1. FdInv => EmptyIsEnd
  BY DEF FdInv, EndInv
<1>2. QED
  BY <1>1, FdInvHolds, PTL

\* Between sendfd and recvfd, recvfd misses a descriptor at the end of the
\* stream, or because the system has dropped one, and for no other reason.
THEOREM RecvfdFindsItsDescriptor == Spec => []RecvfdFinds
<1>1. FdInv => RecvfdFinds
  BY DEF FdInv, EndInv
<1>2. QED
  BY <1>1, FdInvHolds, PTL
=============================================================================
