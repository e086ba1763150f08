--------------------------------- MODULE Ran ---------------------------------
(***************************************************************************)
(* The RAN simulator (ran.cpp, ran_simulator.cpp): one thread for each     *)
(* subscriber that attaches and detaches in a loop (simulate), one for the *)
(* subscriber that is handed over (simulateHandover), whose source eNodeB  *)
(* is ranS and whose target is ranT, and the server both use for what the  *)
(* MME sends during a handover (handle_mme_conn).                          *)
(*                                                                         *)
(* Ran reads a message without looking at its type.                        *)
(***************************************************************************)
EXTENDS SctpNet

CONSTANTS
  MaxAttaches,   \* bound: the attaches of one subscriber, for g_req_dur
  SleepCovers    \* the half second of simulateHandover outlasts the set-up

ASSUME MaxAttachesAssumption == MaxAttaches \in Nat \ {0}
ASSUME SleepCoversAssumption == SleepCovers \in BOOLEAN

VARIABLES
  ran,         \* what the thread of each subscriber knows, and where it is
  attaches,    \* attaches begun so far
  ranS,        \* handover_state of the source eNodeB, its indirect_s1_uteid_ul
  ranT,        \* the target eNodeB
  uplink_info  \* of the TrafficMonitor: IP address -> uplink TEID, 0 if none

ranOwn == <<ran, attaches, ranS, ranT, uplink_info>>
ranVars == <<sctpVars, ranOwn>>
-----------------------------------------------------------------------------
RanPc == {"off", "auth", "sec", "eps", "attached", "bye", "ho", "end"}

RanCtx == [pc : RanPc, id : UeId, guti : Imsi, ul : Teid, dl : Teid, ip : Imsi]

SourceEnb == [state : {0, 1, 4}, indirect : Teid]

(* connected: mme_client is; pc: what handle_handover does next.           *)
TargetEnb == [state : {0, 2, 3}, id : UeId, enb : Imsi, ul : Teid,
              connected : BOOLEAN, pc : {"wait", "connect", "send"}]

RanTypeOK ==
  /\ ran \in [UEs -> RanCtx]
  /\ attaches \in [UEs -> 0 .. MaxAttaches]
  /\ ranS \in SourceEnb
  /\ ranT \in TargetEnb
  /\ uplink_info \in [Imsi -> Teid]

RanInit ==
  /\ ran = [n \in UEs |-> [pc |-> "off", id |-> 0, guti |-> 0, ul |-> 0, dl |-> 0,
                        ip |-> 0]]
  /\ attaches = [n \in UEs |-> 0]
  /\ ranS = [state |-> 0, indirect |-> 0]
  /\ ranT = [state |-> 0, id |-> 0, enb |-> 0, ul |-> 0,
             connected |-> FALSE, pc |-> "wait"]
  /\ uplink_info = [a \in Imsi |-> 0]
-----------------------------------------------------------------------------
RanAt(n, pc) == ran[n].pc = pc

Send(c, t, id, arg) ==
  up' = [up EXCEPT ![c] = Append(@, [t |-> t, id |-> id, arg |-> arg])]

Rcv(n) == down[n] # <<>> /\ down' = [down EXCEPT ![n] = Tail(@)]

(* After a failure simulate starts over; simulateHandover says so and goes *)
(* on.                                                                     *)
RanInitialAttach(n) ==
  /\ RanAt(n, "off")
  /\ attaches[n] < IF n = HoUE THEN 1 ELSE MaxAttaches
  /\ attaches' = [attaches EXCEPT ![n] = @ + 1]
  /\ Send(n, 1, 0, n)
  /\ ran' = [ran EXCEPT ![n].pc = "auth"]
  /\ UNCHANGED <<down, toRan, s6a, ranS, ranT, uplink_info>>

(* The SIM computes the token from its own key; the MME is not told if it  *)
(* is not the one received.                                                *)
RanAuthenticate(n) ==
  LET m == Head(down[n])
      ok == m.arg = n
  IN /\ RanAt(n, "auth")
     /\ Rcv(n)
     /\ IF ok THEN Send(n, 2, m.id, n) ELSE UNCHANGED up
     /\ ran' = [ran EXCEPT ![n].id = m.id,
                           ![n].pc = IF ok \/ n = HoUE THEN "sec" ELSE "off"]
     /\ UNCHANGED <<toRan, s6a, attaches, ranS, ranT, uplink_info>>

RanSetSecurity(n) ==
  /\ RanAt(n, "sec")
  /\ Rcv(n)
  /\ Send(n, 3, ran[n].id, 0)
  /\ ran' = [ran EXCEPT ![n].pc = "eps"]
  /\ UNCHANGED <<toRan, s6a, attaches, ranS, ranT, uplink_info>>

(* Faulty variant: the GUTI is not extracted.                              *)
NoGutiEpsSession(n) ==
  LET m == Head(down[n]) IN
  /\ RanAt(n, "eps")
  /\ Rcv(n)
  /\ Send(n, 4, ran[n].id, m.arg)
  /\ ran' = [ran EXCEPT ![n].pc = "attached", ![n].ul = m.arg, ![n].dl = m.arg,
                        ![n].ip = m.ip]
  /\ uplink_info' = [uplink_info EXCEPT ![m.ip] = m.arg]
  /\ UNCHANGED <<toRan, s6a, attaches, ranS, ranT>>

(* The downlink TEID is the uplink TEID again.                             *)
RanSetEpsSession(n) ==
  LET m == Head(down[n]) IN
  /\ RanAt(n, "eps")
  /\ Rcv(n)
  /\ Send(n, 4, ran[n].id, m.arg)
  /\ ran' = [ran EXCEPT ![n].pc = "attached", ![n].guti = m.guti,
                        ![n].ul = m.arg, ![n].dl = m.arg, ![n].ip = m.ip]
  /\ uplink_info' = [uplink_info EXCEPT ![m.ip] = m.arg]
  /\ UNCHANGED <<toRan, s6a, attaches, ranS, ranT>>

RanDetach(n) ==
  /\ RanAt(n, "attached") /\ n # HoUE
  /\ Send(n, 5, ran[n].id, ran[n].guti)
  /\ ran' = [ran EXCEPT ![n].pc = "bye"]
  /\ UNCHANGED <<down, toRan, s6a, attaches, ranS, ranT, uplink_info>>

(* Faulty variant: the answer is not waited for.                           *)
HastyDetached(n) ==
  /\ RanAt(n, "bye")
  /\ ran' = [ran EXCEPT ![n].pc = "off"]
  /\ UNCHANGED <<up, down, toRan, s6a, attaches, ranS, ranT, uplink_info>>

RanDetached(n) ==
  /\ RanAt(n, "bye")
  /\ Rcv(n)
  /\ ran' = [ran EXCEPT ![n].pc = "off"]
  /\ UNCHANGED <<up, toRan, s6a, attaches, ranS, ranT, uplink_info>>
-----------------------------------------------------------------------------
(* Handover.                                                               *)

RanInitiateHandover ==
  \E n \in UEs \cap {HoUE} :
    /\ RanAt(n, "attached")
    /\ ranS' = [ranS EXCEPT !.state = 1]
    /\ Send(n, 7, ran[n].id, n)
    /\ ran' = [ran EXCEPT ![n].pc = "ho"]
    /\ UNCHANGED <<down, toRan, s6a, attaches, ranT, uplink_info>>

(* handle_handover of ranT: take over the ids, connect, answer.            *)
RanHandleHandover ==
  \E m \in toRan :
    /\ m.t = 7
    /\ ranT.pc = "wait"
    /\ toRan' = toRan \ {m}
    /\ ranT' = [ranT EXCEPT !.state = 2, !.enb = m.enb, !.id = m.id, !.ul = m.arg,
                            !.pc = "connect"]
    /\ UNCHANGED <<up, down, s6a, ran, attaches, ranS, uplink_info>>

RanConnect ==
  /\ ranT.pc = "connect"
  /\ ranT' = [ranT EXCEPT !.connected = TRUE, !.pc = "send"]
  /\ UNCHANGED <<sctpVars, ran, attaches, ranS, uplink_info>>

RanAckHandover ==
  /\ ranT.pc = "send"
  /\ Send(0, 8, ranT.id, ranT.enb)
  /\ ranT' = [ranT EXCEPT !.state = 3, !.pc = "wait"]
  /\ UNCHANGED <<down, toRan, s6a, ran, attaches, ranS, uplink_info>>

RanIndirectTunnelComplete ==
  \E m \in toRan :
    /\ m.t = 8
    /\ toRan' = toRan \ {m}
    /\ ranS' = [state |-> 4, indirect |-> m.arg]
    /\ UNCHANGED <<up, down, s6a, ran, attaches, ranT, uplink_info>>

(* complete_handover of ranT, half a second after initiate_handover: on a  *)
(* socket that is not connected the message is lost.                       *)
RanCompleteHandover ==
  \E n \in UEs \cap {HoUE} :
    /\ RanAt(n, "ho")
    /\ SleepCovers => ranS.state = 4
    /\ IF ranT.connected THEN Send(0, 9, ranT.id, 0) ELSE UNCHANGED up
    /\ ran' = [ran EXCEPT ![n].pc = "end"]
    /\ UNCHANGED <<down, toRan, s6a, attaches, ranS, ranT, uplink_info>>

(* Faulty variant: the source goes on forwarding.                          *)
ForwardingTearDown ==
  \E m \in toRan, n \in UEs \cap {HoUE} :
    /\ m.t = 9
    /\ toRan' = toRan \ {m}
    /\ Send(n, 10, ran[n].id, ranS.indirect)
    /\ UNCHANGED <<down, s6a, ran, attaches, ranS, ranT, uplink_info>>

RanRequestTearDown ==
  \E m \in toRan, n \in UEs \cap {HoUE} :
    /\ m.t = 9
    /\ toRan' = toRan \ {m}
    /\ Send(n, 10, ran[n].id, ranS.indirect)
    /\ ran' = [ran EXCEPT ![n].ul = 0]
    /\ UNCHANGED <<down, s6a, attaches, ranS, ranT, uplink_info>>

RanUeStep(n) ==
  \/ RanInitialAttach(n) \/ RanAuthenticate(n) \/ RanSetSecurity(n)
  \/ RanSetEpsSession(n) \/ RanDetach(n) \/ RanDetached(n)

RanHoStep ==
  \/ RanInitiateHandover \/ RanHandleHandover \/ RanConnect \/ RanAckHandover
  \/ RanIndirectTunnelComplete \/ RanCompleteHandover \/ RanRequestTearDown
=============================================================================
