------------------------------- MODULE SctpNet -------------------------------
(***************************************************************************)
(* The SCTP connections: eNodeBs to MME (S1AP, both ways), MME to eNodeBs  *)
(* (the handover messages), MME to HSS (Diameter).                         *)
(*                                                                         *)
(* A connection delivers in order and loses nothing.  The eNodeB of        *)
(* subscriber n keeps one connection to the MME, which is called n; 0 is   *)
(* the one the target eNodeB opens during a handover.  For every message   *)
(* to an eNodeB the MME opens a connection of its own, and two threads     *)
(* serve them, so those messages are a set.  A handler of the MME that     *)
(* asks the HSS opens a connection for the one request, so there is one    *)
(* exchange for each connection of the MME.                                *)
(***************************************************************************)
EXTENDS GtpNet, Sequences

CONSTANTS
  HoUE,       \* the subscriber that is handed over, 0 if none is
  MaxUeId     \* bound: mme_s1ap_ue_ids given out

ASSUME HoUEAssumption == HoUE \in Imsi
ASSUME MaxUeIdAssumption == MaxUeId \in Nat

VARIABLES
  up,      \* eNodeB -> MME, for every connection
  down,    \* MME -> eNodeB, on the same connection
  toRan,   \* MME -> the server of the eNodeBs
  s6a      \* the exchange with the HSS of the handler on a connection

sctpVars == <<up, down, toRan, s6a>>
-----------------------------------------------------------------------------
Conn == UEs \cup {0}

UeId == 0 .. MaxUeId

(* S1AP messages.  t is the message type, id the mme_s1ap_ue_id of the     *)
(* header, arg the item of the body that matters: the IMSI (1), the result *)
(* of the authentication (2), the downlink TEID (4, 8), the GUTI (5), the  *)
(* eNodeB's UE id (7), the indirect TEID (10).                             *)
UpAny == [t : {1, 2, 3, 4, 5, 7, 8, 9, 10}, id : UeId, arg : Teid]

Up == {m \in UpAny : m.t \in {1, 5, 7} => m.arg \in Imsi}

(* arg: the authentication token (1), the uplink TEID (3); guti and the IP *)
(* address ip: in the attach accept (3).                                   *)
Down == [t : {1, 2, 3, 5}, id : UeId, arg : Teid, guti : Imsi, ip : Imsi]

(* arg: the uplink TEID (7), the indirect TEID (8); enb: the UE id (7).    *)
ToRan == [t : {7, 8, 9}, id : UeId, arg : Teid, enb : Imsi]

(* x: the IMSI asked about, and in the answer to autn what the HSS         *)
(* computed from its key.                                                  *)
S6a == [k : {"none", "autn", "loc", "insert", "autn_ok", "loc_ok"}, x : Imsi]
NoS6a == [k |-> "none", x |-> 0]

SctpTypeOK ==
  /\ up \in [Conn -> Seq(Up)]
  /\ down \in [Conn -> Seq(Down)]
  /\ toRan \subseteq ToRan
  /\ s6a \in [Conn -> S6a]

SctpInit ==
  /\ up = [c \in Conn |-> <<>>]
  /\ down = [c \in Conn |-> <<>>]
  /\ toRan = {}
  /\ s6a = [c \in Conn |-> NoS6a]
=============================================================================
