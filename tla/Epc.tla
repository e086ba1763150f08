--------------------------------- MODULE Epc ---------------------------------
(***************************************************************************)
(* The evolved packet core: RAN simulator, MME, HSS, serving gateway and   *)
(* packet gateway, with the procedures that run through all of them:       *)
(* attach, detach and the S1 handover.                                     *)
(***************************************************************************)
EXTENDS Ran, Mme, Hss, Sgw, Pgw

epcVars == <<sctpVars, gtpVars, ranOwn, mmeOwn, hssOwn, sgwOwn, pgwOwn>>

EpcInit == /\ SctpInit /\ GtpInit
           /\ RanInit /\ MmeInit /\ HssInit /\ SgwInit /\ PgwInit

(* The steps of each program, with what they leave to the others.          *)
RanNext == /\ RanHoStep \/ \E n \in UEs : RanUeStep(n)
           /\ UNCHANGED <<gtpVars, mmeOwn, hssOwn, sgwOwn, pgwOwn>>

(* The MME connects to the HSS before it does anything else, and tries     *)
(* again for as long as the connection is refused (connect_with_server).   *)
HssAccepts(c) == s6a[c].k = "none" /\ s6a'[c].k # "none" => hss_up

MmeProcess(c) == MmeStep(c) /\ HssAccepts(c) /\ UNCHANGED <<ranOwn, hssOwn, sgwOwn, pgwOwn>>

HssNext(c) == HssStep(c) /\ UNCHANGED <<gtpVars, ranOwn, mmeOwn, sgwOwn, pgwOwn>>

SgwProcess(t) == SgwStep(t) /\ UNCHANGED <<sctpVars, ranOwn, mmeOwn, hssOwn, pgwOwn>>

PgwProcess(t) == PgwStep(t) /\ UNCHANGED <<sctpVars, ranOwn, mmeOwn, hssOwn, sgwOwn>>

EpcNext ==
  \/ RanNext
  \/ \E c \in Conn : MmeProcess(c) \/ HssNext(c)
  \/ \E t \in S11Threads : SgwProcess(t)
  \/ \E t \in S5Threads : PgwProcess(t)

EpcSpec == EpcInit /\ [][EpcNext]_epcVars

(* Every thread that can move does, sooner or later: the operating system  *)
(* schedules all of them, and each waits only for a datagram, a message or *)
(* a lock that is held for a bounded time.                                 *)
EpcFairness ==
  /\ \A n \in UEs :
       WF_epcVars(RanUeStep(n) /\ UNCHANGED <<gtpVars, mmeOwn, hssOwn, sgwOwn, pgwOwn>>)
  /\ WF_epcVars(RanHoStep /\ UNCHANGED <<gtpVars, mmeOwn, hssOwn, sgwOwn, pgwOwn>>)
  /\ \A c \in Conn : WF_epcVars(MmeProcess(c)) /\ WF_epcVars(HssNext(c))
  /\ \A t \in S11Threads : WF_epcVars(SgwProcess(t))
  /\ \A t \in S5Threads : WF_epcVars(PgwProcess(t))

FairEpcSpec == EpcSpec /\ EpcFairness
-----------------------------------------------------------------------------
(* Properties.                                                             *)

EpcTypeOK == /\ SctpTypeOK /\ GtpTypeOK
             /\ RanTypeOK /\ MmeTypeOK /\ HssTypeOK /\ SgwTypeOK /\ PgwTypeOK

(* Lockstep: the RAN reads whatever comes next as the answer it waits for, *)
(* so on its connection there is at most one message, of that type, and    *)
(* none when it waits for none (Ran::authenticate, set_security,           *)
(* set_eps_session, detach; handle_ue).                                    *)
Expected == [off |-> 0, auth |-> 1, sec |-> 2, eps |-> 3, attached |-> 0,
             bye |-> 5, ho |-> 0, end |-> 0]
Lockstep ==
  \A n \in UEs : \A k \in 1 .. Len(down[n]) :
    k = 1 /\ down[n][k].t = Expected[ran[n].pc]

(* Identity: from authentication to detach the mme_s1ap_ue_id the RAN uses *)
(* is that subscriber's in the MME and no other's, however the attaches of *)
(* others interleave (ue_count, s1mme_id, get_guti).                       *)
Identity ==
  \A n \in UEs :
    /\ ran[n].pc \in {"sec", "eps", "attached", "ho", "end"} /\ n \in Provisioned
         => s1mme_id[ran[n].id] = n
    /\ \A m \in UEs \ {n} : ran[n].id # 0 => ran[n].id # ran[m].id

(* The MME regards n as connected and has not begun to detach it.          *)
Active(n) == mme_ctx[n].ecm = 1 /\ mme_w[n].pc \notin {"detach", "rem"}

(* The tables, followed as signalling, an uplink and a downlink packet     *)
(* would follow them.                                                      *)
SignallingPath(n) == sgw_id["s11"][mme_ctx[n].teid] = n
UplinkPath(n) == /\ sgw_id["s1"][mme_ctx[n].ul] = n
                 /\ pgw_s5[sgw_ctx[n].s5] = n
DownlinkPath(n) == /\ pgw_sgi[pgw_ctx[n].ip] = n
                   /\ sgw_id["s5"][pgw_ctx[n].teid] = n
                   /\ sgw_ctx[n].enb /\ sgw_ctx[n].dl = ran[n].dl

Routed(n) == SignallingPath(n) /\ UplinkPath(n)

(* An active session is routed from end to end: the TEIDs and the address  *)
(* one node holds for it resolve, in the next node's table, to the same    *)
(* subscriber.  Five tables in three processes, filled and emptied by      *)
(* different threads, have to agree.                                       *)
SessionRouted ==
  \A n \in UEs : Active(n) => Routed(n) /\ DownlinkPath(n)

(* The phase of n's session, read off the tables.                          *)
SessionPhase(n) ==
  CASE Routed(n) /\ Active(n) /\ DownlinkPath(n) -> IF sgw_ho[n].in THEN "handover" ELSE "active"
    [] Routed(n) /\ ~(Active(n) /\ DownlinkPath(n)) -> "routed"
    [] ~Routed(n) -> IF mme_ctx[n] # NoMmeCtx THEN "known" ELSE "none"

Promised == INSTANCE Session WITH phase <- [n \in UEs |-> SessionPhase(n)],
                                  authorised <- Provisioned

(* The five programs implement the life of a session: no step of any of    *)
(* them moves two subscribers' sessions, skips a phase, or routes a        *)
(* subscriber whose key the HSS does not hold.                             *)
SessionLife == Promised!SessionSpec

(* Nothing of n is in progress.                                            *)
Quiet(n) ==
  /\ up[n] = <<>> /\ mme_w[n].pc = "idle"
  /\ \A t \in S11Threads : sgw_th[t].pc = "idle" \/ sgw_th[t].imsi # n
  /\ \A t \in S5Threads : pgw_th[t].pc = "idle" \/ pgw_th[t].imsi # n

(* Detach leaves nothing: once a detach has come to rest no table of the   *)
(* MME or of a gateway mentions the subscriber (the three handle_detach).  *)
DetachedClean ==
  \A n \in Provisioned : hss_up /\ ran[n].pc = "off" /\ Quiet(n) =>
    /\ mme_ctx[n] = NoMmeCtx /\ \A i \in UeId : s1mme_id[i] # n
    /\ \A itf \in Itf, x \in Teid : sgw_id[itf][x] # n
    /\ sgw_ctx[n] = NoCtx /\ ~sgw_ho[n].in
    /\ \A x \in Teid : pgw_s5[x] # n
    /\ \A a \in Imsi : pgw_sgi[a] # n
    /\ pgw_ctx[n] = NoPgwCtx

(* An attached subscriber is registered once: its location has one row,    *)
(* and never two (Hss::set_loc_info).                                      *)
Registered ==
  \A n \in UEs : loc_info[n] < 2 /\ (hss_up /\ mme_ctx[n].emm = 1 => loc_info[n] = 1)

(* No process leaves through handle_type1_error or an exception: no        *)
(* message of a normal run names a session the receiver does not have.     *)
NeverExits == mme_up /\ sgw_up

(* Forwarding: from the moment the source eNodeB knows the indirect TEID   *)
(* until it gives it back, that TEID leads to the subscriber               *)
(* (handle_indirect_tunnel_setup, indirect_tunnel_complete,                *)
(* request_tear_down).                                                     *)
IndirectTunnelLive ==
  \A n \in UEs \cap {HoUE} :
    ranS.state = 4 /\ ran[n].ul # 0 => sgw_id["s1"][ranS.indirect] = n

(* The handover has come to rest: the downlink leads to the target, the    *)
(* handover context and the indirect tunnel are gone, the session is not.  *)
Switched(n) ==
  /\ sgw_ctx[n].dl = ranT.enb /\ ~sgw_ho[n].in
  /\ \A x \in Teid \ {n} : sgw_id["s1"][x] # n

HandoverClean ==
  \A n \in UEs \cap {HoUE} :
    ran[n].pc = "end" /\ ran[n].ul = 0 /\ Quiet(n) /\ Quiet(0) => Switched(n) /\ Active(n)

(* The handover context exists in the gateway only between set-up and      *)
(* completion: while it does, the target has answered and the source has   *)
(* not been told to tear down (ho_ue_ctx).                                 *)
HandoverContext ==
  \A n \in UEs \cap {HoUE} :
    sgw_ho[n].in => ranT.state # 0 /\ ran[n].ul # 0 /\ ran[n].pc \in {"ho", "end"}

(* An attach that was begun ends in a completed detach or in a rejected    *)
(* authentication, and the loop of simulate can go on; an attach that needs *)
(* the HSS once it has left waits for ever (connect_with_server).          *)
AttachDetachCompletes ==
  \A n \in UEs \ {HoUE} : ran[n].pc = "auth" ~> ran[n].pc = "off" \/ ~hss_up

(* A handover that was begun switches the downlink to the target and tears *)
(* the indirect tunnel down, for good.                                     *)
HandoverCompletes ==
  \A n \in UEs \cap {HoUE} : ran[n].pc = "ho" ~> [](ran[n].ul = 0 /\ Switched(n))
=============================================================================
