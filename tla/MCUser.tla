------------------------------- MODULE MCUser -------------------------------
(***************************************************************************)
(* Small instances of the packet core with its user plane.                 *)
(***************************************************************************)
EXTENDS UserPlane, TLC

MCS11Sock == Conn \X (0 .. MaxS11Timeouts)
MCS5Sock == S11Threads \X (0 .. MaxS5Timeouts)

AllKeys == {[n \in UEs |-> "same"]}
=============================================================================
