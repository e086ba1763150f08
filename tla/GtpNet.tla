------------------------------- MODULE GtpNet -------------------------------
(***************************************************************************)
(* Identifiers and the UDP interfaces of the gateways: S11 (MME - SGW) and *)
(* S5 (SGW - PGW).                                                         *)
(*                                                                         *)
(* A subscriber is named by the number the RAN is started with: the MSISDN *)
(* is 9000000000 + n, so n stands for the IMSI, for the GUTI built from    *)
(* it, and for the nine low digits of the MSISDN that the MME turns into   *)
(* the S11 TEID.  0 is the value get_imsi and get_guti return when they    *)
(* find nothing.                                                           *)
(*                                                                         *)
(* A datagram in transit is a member of a set: the socket buffers are read *)
(* by several threads, so the order of arrival is no order of processing.  *)
(***************************************************************************)
EXTENDS Naturals

CONSTANTS
  UEs,         \* the numbers of the subscribers
  S11Sock,     \* reply addresses of the MME's UdpClients
  S5Sock       \* reply addresses of the SGW's UdpClients

ASSUME UEsAssumption == UEs \subseteq Nat \ {0}

VARIABLES
  s11,   \* requests on their way to the SGW's S11 server
  s11r,  \* answers on their way to the MME's UdpClients
  s5,    \* requests on their way to the PGW's S5 server
  s5r    \* answers on their way to the SGW's UdpClients

gtpVars == <<s11, s11r, s5, s5r>>
-----------------------------------------------------------------------------
Imsi == UEs \cup {0}

(* The TEIDs in use: a subscriber's number, the number after it (the       *)
(* indirect tunnel of a handover), and 0 and 1, which stand in the same    *)
(* relation for a context that was never filled in.                        *)
Teid == Imsi \cup {n + 1 : n \in Imsi}

(* GTP-C requests.  teid is the header's TEID, arg the one TEID of the     *)
(* body: s11_cteid_mme in a create, s1_uteid_dl in a modify or a setup,    *)
(* the indirect uplink TEID in a teardown.                                 *)
S11Op == {"create", "modify", "detach", "setup", "complete", "teardown"}

S11Any == [op : S11Op, sock : S11Sock, teid : Teid, imsi : Imsi, arg : Teid]

(* The MME reads the IMSI of a create from the context its GUTI leads to:  *)
(* 0 if that is gone.                                                      *)
S11Req == {d \in S11Any : d.op = "create" => d.arg \in UEs /\ d.imsi \in {0, d.arg}}

S11Rsp == [op : S11Op, sock : S11Sock, ok : BOOLEAN, teid : Teid, ip : Imsi]

S5Any == [op : {"create", "detach"}, sock : S5Sock, teid : Teid, imsi : Imsi]

S5Req == {q \in S5Any : q.op = "create" => q.teid \in UEs /\ q.imsi \in {0, q.teid}}

S5Rsp == [sock : S5Sock, ok : BOOLEAN, teid : Teid, ip : Imsi]

GtpTypeOK == /\ s11 \subseteq S11Req /\ s11r \subseteq S11Rsp
             /\ s5 \subseteq S5Req   /\ s5r \subseteq S5Rsp

GtpInit == s11 = {} /\ s11r = {} /\ s5 = {} /\ s5r = {}
=============================================================================
