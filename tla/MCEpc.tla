------------------------------- MODULE MCEpc -------------------------------
(***************************************************************************)
(* Small instances of the packet core.                                     *)
(***************************************************************************)
EXTENDS Epc, TLC

MCS11Sock == Conn \X (0 .. MaxS11Timeouts)
MCS5Sock == S11Threads \X (0 .. MaxS5Timeouts)

(* Every key in autn_info is the one on the SIM, or the subscriber that is *)
(* not handed over has any row or none.                                    *)
AllKeys == {[n \in UEs |-> "same"]}
AnyRow == {f \in [UEs -> {"same", "other", "none"}] : f[HoUE] = "same"}
=============================================================================
