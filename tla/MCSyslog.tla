------------------------------ MODULE MCSyslog ------------------------------
(***************************************************************************)
(* Instances of Syslog for TLC.                                            *)
(***************************************************************************)
EXTENDS Syslog

\* Nothing (a question), everything up to a level, and a list out of order.
MCMaskArgs == {<<>>, log_upto(3), <<3, 5, 7>>}
=============================================================================
