------------------------------- MODULE FdPass -------------------------------
(***************************************************************************)
(* sendmsg and recvmsg of sendmsg.c with the wrappers of extUnix.pp.ml on  *)
(* a pair of connected UNIX sockets: threads that send, one receiver, the  *)
(* socket's queue and the receiver's table of descriptors.                 *)
(*                                                                         *)
(* Messages are numbered in the order of the calls.  A byte is <<m, i>>,   *)
(* the i-th byte of message m; the descriptor passed with message m is     *)
(* called m too.                                                           *)
(***************************************************************************)
EXTENDS Integers, Sequences, FiniteSets, FiniteSetsExt

CONSTANTS
  Senders,       \* threads that call sendmsg
  Requests,      \* what they send: [size, fd], fd says whether a descriptor is passed
  MaxSends,      \* bound: number of calls of sendmsg
  sizeof_buf,    \* size of the buffer in recvmsg (4096)
  Room,          \* what the socket's queue holds: bytes, or datagrams
  MaxFds         \* free places in the receiver's descriptor table (RLIMIT_NOFILE)

ASSUME FdPassAssumption ==
  /\ MaxSends \in Nat /\ MaxFds \in Nat
  /\ sizeof_buf \in Nat \ {0} /\ Room \in Nat \ {0}
  /\ Requests \subseteq [size : Nat, fd : BOOLEAN]

VARIABLES
  stream,      \* SOCK_STREAM, or SOCK_DGRAM
  creds,       \* the receiver's socket has SO_PASSCRED
  proto,       \* "fd": both sides use sendfd and recvfd only; "any"
  queue,       \* what is in the socket, see Piece
  shut,        \* the senders have closed their end
  calls,       \* number of the last message
  req,         \* req[m]: the request of message m
  sender,      \* sender[t]: the message t's call is about, 0 in OCaml code
  ret,         \* ret[m]: what the system answers now: bytes of m it took, or -1
  outcome,     \* outcome[m]: "unit" or "raised" when sendmsg is over
  desc,        \* desc[m]: where the passed copy of descriptor m is
  pc,          \* the receiver: in "ocaml" code, or "back" from its system call
  msg,         \* the result of the receiver's system call
  known,       \* descriptors the receiving program has got and not closed
  due,         \* history: the bytes a stream took and recvmsg has not returned or lost
  leaked,      \* history: descriptors in the hand of calls that ran out of memory
  last         \* history: what the call of a wrapper gave, until the next call

sockVars == <<stream, creds, proto>>
sendVars == <<calls, req, sender, ret, outcome>>
recvVars == <<pc, msg, known, leaked, last>>
vars == <<sockVars, queue, shut, sendVars, desc, recvVars, due>>

-----------------------------------------------------------------------------
Msg == 1 .. MaxSends

\* One byte of a stream, or a whole datagram of pos bytes.  end: the last byte
\* of a piece that was queued at once; fd: a descriptor is attached to the piece.
Piece == [msg : Msg, pos : Nat, fd : BOOLEAN, end : BOOLEAN]

NoMsg   == [len |-> 0, data |-> <<>>, cmsg |-> "none", fd |-> 0]
Nothing == [result |-> "none", fds |-> {}, data |-> <<>>, due |-> <<>>]

Bytes(q)  == [i \in DOMAIN q |-> <<q[i].msg, q[i].pos>>]
Installed == {m \in Msg : desc[m] = "installed"}

\* Mutant: a count that is not the whole message is an error.
sendmsg_whole(m) == IF ret[m] # req[m].size THEN "raised" ELSE "unit"

\* The end of caml_extunix_sendmsg: the count is not looked at.
sendmsg_result(m) == IF ret[m] = -1 THEN "raised" ELSE "unit"
-----------------------------------------------------------------------------
(* Sending. *)

\* caml_extunix_sendmsg up to the system call, on a copy of the data.
caml_extunix_sendmsg(t, r) ==
  /\ sender[t] = 0 /\ ~shut /\ calls < MaxSends
  /\ calls'  = calls + 1
  /\ sender' = [sender EXCEPT ![t] = calls + 1]
  /\ req'    = [req EXCEPT ![calls + 1] = r]
  /\ UNCHANGED <<sockVars, queue, shut, ret, outcome, desc, recvVars, due>>

\* Mutant: a longer sentinel.
sendfd_padded(t) == caml_extunix_sendmsg(t, [size |-> 2, fd |-> TRUE])

\* sendfd sends one byte with the descriptor.
sendfd(t) == caml_extunix_sendmsg(t, [size |-> 1, fd |-> TRUE])

\* The system queues k bytes of a stream's message; the descriptor goes with
\* the first of them.  Other senders' bytes may come in between.  Of an empty
\* message it queues nothing, and the descriptor goes nowhere.
KernelStream(t, k) ==
  LET m == sender[t]
      n == Max({ret[m], 0})
      piece == [i \in 1 .. k |-> [msg |-> m, pos |-> n + i, end |-> i = k,
                                  fd  |-> req[m].fd /\ n + i = 1]]
  IN
  /\ stream /\ m # 0 /\ ret[m] < req[m].size
  /\ k <= req[m].size - n /\ Len(queue) + k <= Room
  /\ k = 0 => req[m].size = 0
  /\ queue'    = queue \o piece
  /\ due'      = due \o Bytes(piece)
  /\ ret'      = [ret EXCEPT ![m] = n + k]
  /\ desc'     = [desc EXCEPT ![m] = IF k > 0 /\ piece[1].fd THEN "flight" ELSE @]
  /\ UNCHANGED <<sockVars, shut, calls, req, sender, outcome, recvVars>>

\* A datagram is taken as a whole.
KernelDatagram(t) ==
  LET m == sender[t] IN
  /\ ~stream /\ m # 0 /\ ret[m] = -1
  /\ Len(queue) < Room
  /\ queue' = Append(queue, [msg |-> m, pos |-> req[m].size, fd |-> req[m].fd, end |-> TRUE])
  /\ ret'   = [ret EXCEPT ![m] = req[m].size]
  /\ desc'  = [desc EXCEPT ![m] = IF req[m].fd THEN "flight" ELSE @]
  /\ UNCHANGED <<sockVars, shut, calls, req, sender, outcome, recvVars, due>>

\* The system call ends when the whole message is taken, or before that by a
\* signal or for want of room on a non-blocking socket, with what was taken
\* so far as its answer; the stub returns.
sendmsg_return(t) ==
  LET m == sender[t] IN
  /\ m # 0
  /\ outcome' = [outcome EXCEPT ![m] = sendmsg_result(m)]
  /\ sender'  = [sender EXCEPT ![t] = 0]
  /\ UNCHANGED <<sockVars, queue, shut, calls, req, ret, desc, recvVars, due>>

\* The sending program closes its end.
Close ==
  /\ ~shut /\ \A t \in Senders : sender[t] = 0
  /\ shut' = TRUE
  /\ UNCHANGED <<sockVars, queue, sendVars, desc, recvVars, due>>

-----------------------------------------------------------------------------
(* Receiving: caml_extunix_recvmsg up to the answer of the system. *)

\* Mutants: one byte more than the buffer has; the length is forgotten, as in
\* a zeroed iovec.
iov_len_over == sizeof_buf + 1

iov_len_unset == 0

iov_len == sizeof_buf

\* A read takes bytes up to the end of the first piece with a descriptor.
StreamTakes ==
  Min({iov_len, Len(queue)} \cup
      {j \in DOMAIN queue : queue[j].end /\ \E i \in 1 .. j : queue[i].fd})

\* What the system makes of a descriptor m that it has taken from the queue:
\* it gets a number in the receiver's table if there is room in the message and
\* in the table.  With SO_PASSCRED the credentials come first and fill the
\* room for control messages.
Control(m) ==
  IF creds THEN [cmsg |-> "other", fd |-> 0]
  ELSE IF m # 0 /\ Cardinality(Installed) < MaxFds THEN [cmsg |-> "rights", fd |-> m]
  ELSE [cmsg |-> "none", fd |-> 0]

Takes(m, data) ==
  /\ pc' = "back" /\ last' = Nothing
  /\ msg' = [len |-> Len(data), data |-> data, cmsg |-> Control(m).cmsg, fd |-> Control(m).fd]
  /\ desc' = [d \in Msg |-> IF d # m THEN desc[d]
                            ELSE IF Control(m).fd = m THEN "installed" ELSE "dropped"]
  /\ UNCHANGED <<sockVars, shut, sendVars, known, leaked, due>>

KernelReceives ==
  /\ pc = "ocaml" /\ queue # <<>>
  /\ IF stream
     THEN LET n == StreamTakes
              d == {i \in 1 .. n : queue[i].fd}
          IN  /\ queue' = SubSeq(queue, n + 1, Len(queue))
              /\ Takes(IF d = {} THEN 0 ELSE queue[Min(d)].msg, Bytes(SubSeq(queue, 1, n)))
     ELSE LET q == queue[1]
          IN  /\ queue' = Tail(queue)
              /\ Takes(IF q.fd THEN q.msg ELSE 0,
                       [i \in 1 .. Min({q.pos, iov_len}) |-> <<q.msg, i>>])

\* End of file: no bytes, and no descriptor.
KernelEnd ==
  /\ pc = "ocaml" /\ stream /\ shut /\ queue = <<>>
  /\ pc' = "back" /\ last' = Nothing /\ msg' = [NoMsg EXCEPT !.cmsg = Control(0).cmsg]
  /\ UNCHANGED <<sockVars, queue, shut, sendVars, desc, known, leaked, due>>

\* A signal, or nothing to read on a non-blocking socket.
KernelFails ==
  /\ pc = "ocaml"
  /\ pc' = "back" /\ last' = Nothing /\ msg' = [NoMsg EXCEPT !.len = -1]
  /\ UNCHANGED <<sockVars, queue, shut, sendVars, desc, known, leaked, due>>

-----------------------------------------------------------------------------
\* Mutant: an interrupted call is an empty message.
recvmsg_forgiving(oom) ==
  IF msg.len = -1 THEN "ok"
  ELSE IF oom THEN "Out_of_memory"
  ELSE IF msg.cmsg = "other" THEN "EINVAL"
  ELSE "ok"

\* caml_extunix_recvmsg behind the system call: oom says that one of the
\* allocations of the result raises.
recvmsg_result(oom) ==
  IF msg.len = -1 THEN "Unix_error"
  ELSE IF oom THEN "Out_of_memory"
  ELSE IF msg.cmsg = "other" THEN "EINVAL"
  ELSE "ok"

Wrapper == {"recvmsg_fd", "recvfd", "recvmsg", "recvmsg_nofd"}

\* Mutant: the last byte of a full buffer is taken for a terminator.
data_terminated == SubSeq(msg.data, 1, Min({msg.len, sizeof_buf - 1}))

\* The string of the result: msg.len bytes of buf.
data == msg.data

\* Mutant: recvmsg_nofd forgets to close.
closes_never(w) == {}

\* The descriptor w closes, and the ones it gives its caller (recvmsg does so
\* in an exception).
closes(w) == IF w = "recvmsg_nofd" /\ msg.cmsg = "rights" THEN {msg.fd} ELSE {}
gives(w)  == IF w # "recvmsg_nofd" /\ msg.cmsg = "rights" THEN {msg.fd} ELSE {}

\* recvfd ignores the message, and raises EINVAL when there is no descriptor.
recvmsg_return(w, oom) ==
  LET r == recvmsg_result(oom)
      n == IF stream THEN Max({0, msg.len}) ELSE 0
  IN
  /\ pc = "back"
  /\ proto = "fd" => w = "recvfd"
  /\ oom => msg.len # -1
  /\ pc' = "ocaml" /\ msg' = NoMsg
  /\ known' = IF r = "ok" THEN known \cup gives(w) ELSE known
  /\ desc'  = [m \in Msg |-> IF r = "ok" /\ m \in closes(w) THEN "closed" ELSE desc[m]]
  /\ due'   = SubSeq(due, n + 1, Len(due))
  /\ leaked' = IF r = "Out_of_memory" /\ msg.cmsg = "rights" THEN leaked \cup {msg.fd} ELSE leaked
  /\ last' = [result |-> IF r = "ok" /\ w = "recvfd" /\ msg.cmsg # "rights"
                         THEN "no descriptor" ELSE r,
              fds    |-> IF r = "ok" THEN gives(w) \cup closes(w) ELSE {},
              data   |-> IF r = "ok" THEN data ELSE <<>>,
              due    |-> IF r = "ok" THEN SubSeq(due, 1, n) ELSE <<>>]
  /\ UNCHANGED <<sockVars, queue, shut, sendVars>>

\* The program closes a descriptor it has got.
CloseFd(m) ==
  /\ m \in known
  /\ known' = known \ {m}
  /\ desc'  = [desc EXCEPT ![m] = "closed"]
  /\ UNCHANGED <<sockVars, queue, shut, sendVars, pc, msg, leaked, last, due>>
-----------------------------------------------------------------------------
Init ==
  /\ stream \in BOOLEAN /\ creds \in BOOLEAN /\ proto \in {"any", "fd"}
  /\ queue = <<>> /\ shut = FALSE
  /\ calls = 0
  /\ req     = [m \in Msg |-> [size |-> 0, fd |-> FALSE]]
  /\ sender  = [t \in Senders |-> 0]
  /\ ret     = [m \in Msg |-> -1]
  /\ outcome = [m \in Msg |-> "none"]
  /\ desc    = [m \in Msg |-> "kept"]
  /\ pc = "ocaml" /\ msg = NoMsg
  /\ known = {} /\ leaked = {} /\ due = <<>>
  /\ last = Nothing

Send(t) ==
  \/ proto = "any" /\ \E r \in Requests : caml_extunix_sendmsg(t, r)
  \/ sendfd(t)

KernelSends(t) == (\E k \in 0 .. Room : KernelStream(t, k)) \/ KernelDatagram(t)

Whole(t) == sender[t] # 0 /\ ret[sender[t]] = req[sender[t]].size

Returns == \E w \in Wrapper, oom \in BOOLEAN : recvmsg_return(w, oom)

Next ==
  \/ \E t \in Senders : Send(t) \/ KernelSends(t) \/ sendmsg_return(t)
  \/ Close
  \/ KernelReceives \/ KernelEnd \/ KernelFails \/ Returns
  \/ \E m \in Msg : CloseFd(m)

Spec == Init /\ [][Next]_vars

(***************************************************************************)
(* The receiver calls recvmsg again and again; a system call that can make *)
(* progress is not interrupted for ever, nor overtaken by another sender   *)
(* whenever there is room; a stub that is back from the system returns.    *)
(***************************************************************************)
Fairness ==
  /\ SF_vars(KernelReceives) /\ WF_vars(Returns)
  /\ \A t \in Senders : SF_vars(KernelSends(t)) /\ WF_vars(Whole(t) /\ sendmsg_return(t))

FairSpec == Spec /\ Fairness
-----------------------------------------------------------------------------
TypeOK ==
  /\ queue \in Seq(Piece) /\ Len(queue) <= Room
  /\ calls \in 0 .. MaxSends
  /\ sender \in [Senders -> 0 .. calls]
  /\ \A m \in Msg : ret[m] \in -1 .. req[m].size
  /\ outcome \in [Msg -> {"none", "unit", "raised"}]
  /\ desc \in [Msg -> {"kept", "flight", "installed", "dropped", "closed"}]
  /\ pc \in {"ocaml", "back"}
  /\ msg.len \in -1 .. sizeof_buf
  /\ known \subseteq Msg

\* Whoever gets an error from sendmsg may send again: nothing of the message
\* and no descriptor has left.  Success with a message that is not empty
\* means that its beginning and its descriptor did, whatever the count the
\* stub ignores was.
SendIsHonest ==
  \A m \in Msg :
    /\ outcome[m] = "raised" => ret[m] = -1 /\ desc[m] = "kept"
    /\ outcome[m] = "unit" /\ req[m].size > 0 =>
         /\ ret[m] > 0
         /\ req[m].fd => desc[m] # "kept"

\* Every descriptor in the receiver's table has an owner: the program, or the
\* call of recvmsg that is about to return it (calls that ran out of memory
\* leave theirs behind).  A descriptor on its way is in the queue once.
FdsHaveOwners ==
  /\ Installed = known \cup leaked \cup {m \in {msg.fd} : msg.cmsg = "rights"}
  /\ Cardinality(Installed) <= MaxFds
  /\ \A m \in Msg : Cardinality({i \in DOMAIN queue : queue[i].fd /\ queue[i].msg = m})
                     = IF desc[m] = "flight" THEN 1 ELSE 0

\* A stream's bytes reach the program in the order in which the socket took
\* them, none twice and none left out (a call that raises behind the system
\* call loses the ones it has taken, and no other).
StreamInOrder ==
  stream => last.data = last.due /\ due = msg.data \o Bytes(queue)

\* What comes with a descriptor: on a stream the first byte of its message,
\* and no other message's byte behind it; on a datagram socket the message.
\* A datagram that does not fill the buffer of recvmsg is complete.
FdWithItsData ==
  /\ \A m \in last.fds :
       IF stream
       THEN \E i \in DOMAIN last.data : /\ last.data[i] = <<m, 1>>
                                        /\ \A j \in i .. Len(last.data) : last.data[j][1] = m
       ELSE \A i \in DOMAIN last.data : last.data[i] = <<m, i>>
  /\ ~stream /\ Len(last.data) < sizeof_buf =>
       \A i \in DOMAIN last.data : Len(last.data) = req[last.data[i][1]].size

\* An empty message without a descriptor from a stream is its end: neither an
\* empty message nor an interrupted call looks like it.
EmptyIsEnd ==
  stream /\ last.result = "ok" /\ last.fds = {} /\ last.data = <<>> => shut /\ queue = <<>>

\* Between sendfd and recvfd: recvfd does not complain about a missing
\* descriptor before the end of the stream unless the system dropped one.
RecvfdFinds ==
  proto = "fd" /\ last.result = "no descriptor" =>
    \/ stream /\ shut /\ queue = <<>>
    \/ \E m \in Msg : desc[m] = "dropped"

\* Every call of sendmsg ends, and its descriptor does not stay in the socket.
Delivered ==
  \A m \in Msg : calls >= m ~> outcome[m] # "none" /\ desc[m] # "flight"
=============================================================================
