------------------------------ MODULE MCFdPass ------------------------------
(***************************************************************************)
(* An instance of FdPass for TLC.  Messages are empty, as long as the      *)
(* buffer of recvmsg, or longer than it and than the socket's free room.   *)
(***************************************************************************)
EXTENDS FdPass

MCRequests == {[size |-> 0, fd |-> TRUE], [size |-> 2, fd |-> FALSE], [size |-> 3, fd |-> TRUE]}
=============================================================================
