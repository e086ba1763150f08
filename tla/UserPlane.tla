------------------------------ MODULE UserPlane ------------------------------
(***************************************************************************)
(* The user plane of the packet core: the traffic monitor of the eNodeB    *)
(* (ran.cpp, ran_simulator.cpp), the data handlers of the two gateways     *)
(* (sgw.cpp, pgw.cpp and their servers) and the sink (sink.cpp), beside    *)
(* the signalling of Epc, whose tables they read.                          *)
(*                                                                         *)
(* A handler holds one packet from the datagram it takes to the one it     *)
(* sends, so the state of the threads is the stage of the packets; a step  *)
(* is one critical section.                                                *)
(***************************************************************************)
EXTENDS Epc

CONSTANT MaxPackets   \* bound: user packets under way at a time

ASSUME MaxPacketsAssumption == MaxPackets \in Nat

VARIABLES
  data,   \* the user packets under way
  mon     \* what the traffic monitor waits for: select, or a second datagram

userOwn == <<data, mon>>
userVars == <<epcVars, userOwn>>
-----------------------------------------------------------------------------
(* Where a packet is: in the tun device of the eNodeB (tun), on its way on *)
(* an interface (s1, s5, sink up, sgi, s5d, s1d down), or with a handler   *)
(* that has read a table for it (s1_imsi, s1_plain, sgi_imsi, s5d_imsi).   *)
Stage == {"tun", "s1", "s1_imsi", "s1_plain", "s5", "sink",
          "sgi", "sgi_imsi", "s5d", "s5d_imsi", "s1d"}

(* of: the subscriber that sent it, or that it is for; ip: the address in  *)
(* its IP header; teid: of its GTP header; imsi: whom its handler found;   *)
(* no tells it from the others under way.                                  *)
Datum == [no : 1 .. MaxPackets, at : Stage, of : UEs, ip : Imsi, teid : Teid, imsi : Imsi]

UserTypeOK ==
  /\ data \subseteq Datum /\ mon \in {"select", "second"}
  /\ \A p, q \in data : p.no = q.no => p = q

UserInit == data = {} /\ mon = "select"

Enter(stage, n, ip) ==
  \E k \in 1 .. MaxPackets :
    /\ \A p \in data : p.no # k
    /\ data' = data \cup {[no |-> k, at |-> stage, of |-> n, ip |-> ip, teid |-> 0, imsi |-> 0]}

Pass(p, stage, teid, imsi) ==
  data' = (data \ {p}) \cup
          {[p EXCEPT !.at = stage, !.teid = teid, !.imsi = imsi]}

Leave(p) == data' = data \ {p}
-----------------------------------------------------------------------------
(* The eNodeB.                                                             *)

(* transfer_data gives the subscriber's address to an interface and sends. *)
UeSends(n) ==
  /\ ran[n].pc \in {"attached", "ho", "end"} /\ ran[n].ip # 0
  /\ Enter("tun", n, ran[n].ip)
  /\ UNCHANGED <<mon, sgw_up>>

(* handle_uplink_udata of the TrafficMonitor                               *)
MonitorUplink(p) ==
  /\ p.at = "tun" /\ mon = "select"
  /\ IF uplink_info[p.ip] # 0 THEN Pass(p, "s1", uplink_info[p.ip], 0) ELSE Leave(p)
  /\ UNCHANGED <<mon, sgw_up>>

(* handle_downlink_udata, which traffic_monitor calls twice for one        *)
(* readable datagram, if the tun device is not readable: the second call   *)
(* waits for another one, and the device with it.                          *)
MonitorDownlink(p) ==
  /\ p.at = "s1d"
  /\ mon = "select" => \A q \in data : q.at # "tun"
  /\ mon' = IF mon = "select" THEN "second" ELSE "select"
  /\ Leave(p)
  /\ UNCHANGED sgw_up
-----------------------------------------------------------------------------
(* The serving gateway.  An empty address ends the process: inet_aton in   *)
(* set_inet_sock_addr fails.                                               *)

(* handle_uplink_udata: the subscriber, whether it is in a handover, and   *)
(* the tunnel to the PGW are three readings of the tables; the second is   *)
(* outside any lock.                                                       *)
SgwUplink(p) ==
  /\ p.at = "s1" /\ sgw_up
  /\ Pass(p, "s1_imsi", p.teid, get_imsi("s1", p.teid))
  /\ UNCHANGED <<mon, sgw_up>>

(* The address in a handover context is never filled in.                   *)
SgwUplinkHo(p) ==
  /\ p.at = "s1_imsi" /\ sgw_up
  /\ IF sgw_ho[p.imsi].in THEN sgw_up' = FALSE /\ Leave(p)
     ELSE Pass(p, "s1_plain", p.teid, p.imsi) /\ UNCHANGED sgw_up
  /\ UNCHANGED mon

SgwUplinkForward(p) ==
  /\ p.at = "s1_plain" /\ sgw_up
  /\ \/ /\ ~sgw_ctx[p.imsi].in
        /\ Leave(p) /\ UNCHANGED sgw_up
     \/ /\ sgw_ctx[p.imsi].in /\ ~HasPgw(p.imsi)
        /\ Leave(p) /\ sgw_up' = FALSE
     \/ /\ HasPgw(p.imsi)
        /\ Pass(p, "s5", sgw_ctx[p.imsi].s5, p.imsi) /\ UNCHANGED sgw_up
  /\ UNCHANGED mon

(* handle_downlink_udata; before the modify bearer request the eNodeB's    *)
(* address is empty.                                                       *)
SgwDownlink(p) ==
  /\ p.at = "s5d" /\ sgw_up
  /\ Pass(p, "s5d_imsi", p.teid, get_imsi("s5", p.teid))
  /\ UNCHANGED <<mon, sgw_up>>

SgwDownlinkForward(p) ==
  LET c == sgw_ctx[p.imsi] IN
  /\ p.at = "s5d_imsi" /\ sgw_up
  /\ \/ ~c.in /\ Leave(p) /\ UNCHANGED sgw_up
     \/ c.in /\ ~c.enb /\ Leave(p) /\ sgw_up' = FALSE
     \/ c.in /\ c.enb /\ Pass(p, "s1d", c.dl, p.imsi) /\ UNCHANGED sgw_up
  /\ UNCHANGED mon
-----------------------------------------------------------------------------
(* The packet gateway and the sink.                                        *)

(* handle_uplink_udata looks at no table.                                  *)
PgwUplink(p) ==
  /\ p.at = "s5"
  /\ Pass(p, "sink", 0, 0)
  /\ UNCHANGED <<mon, sgw_up>>

SinkUplink(p) ==
  /\ p.at = "sink"
  /\ Leave(p)
  /\ UNCHANGED <<mon, sgw_up>>

(* A host behind the sink sends to an address, in use or not.              *)
SinkDownlink(n) ==
  /\ ip_addrs[n] # 0
  /\ Enter("sgi", n, ip_addrs[n])
  /\ UNCHANGED <<mon, sgw_up>>

PgwDownlink(p) ==
  /\ p.at = "sgi"
  /\ Pass(p, "sgi_imsi", 0, pgw_sgi[p.ip])
  /\ UNCHANGED <<mon, sgw_up>>

PgwDownlinkForward(p) ==
  /\ p.at = "sgi_imsi"
  /\ IF pgw_ctx[p.imsi].in THEN Pass(p, "s5d", pgw_ctx[p.imsi].teid, p.imsi)
     ELSE Leave(p)
  /\ UNCHANGED <<mon, sgw_up>>
-----------------------------------------------------------------------------
UserStep ==
  \/ \E n \in UEs : UeSends(n) \/ SinkDownlink(n)
  \/ \E p \in data :
       \/ MonitorUplink(p) \/ MonitorDownlink(p)
       \/ SgwUplink(p) \/ SgwUplinkHo(p) \/ SgwUplinkForward(p)
       \/ SgwDownlink(p) \/ SgwDownlinkForward(p)
       \/ PgwUplink(p) \/ SinkUplink(p)
       \/ PgwDownlink(p) \/ PgwDownlinkForward(p)

(* The data handlers write no table; all they may change of the rest is    *)
(* that the serving gateway runs.                                          *)
UserNext ==
  \/ EpcNext /\ UNCHANGED userOwn
  \/ /\ UserStep
     /\ UNCHANGED <<sctpVars, gtpVars, ranOwn, mmeOwn, hssOwn, pgwOwn,
                    sgw_id, sgw_ctx, sgw_ho, sgw_th, s5port>>

UserSpec == EpcInit /\ UserInit /\ [][UserNext]_userVars
-----------------------------------------------------------------------------
(* A subscriber's packets are handled for that subscriber or for nobody,   *)
(* and travel in its tunnels: five lookups in the tables of three          *)
(* processes, which attaches, detaches and handovers change meanwhile      *)
(* (handle_uplink_udata and handle_downlink_udata of each).                *)
DataIsolation ==
  \A p \in data : p.imsi \in {0, p.of} /\ p.teid \in {0, p.of}

(* A handler has looked for p's subscriber and found none.                 *)
Nobodys(p) ==
  p.at \in {"s1_imsi", "s1_plain", "sgi_imsi", "s5d_imsi"} /\ p.imsi = 0

(* p, so far somebody's and not yet at its end, is discarded or turns out  *)
(* to be nobody's.                                                         *)
Fails(p) ==
  /\ p \notin data' /\ p.at \notin {"sink", "s1d"} /\ ~Nobodys(p)
  /\ \A q \in data' \ data : Nobodys(q)

(* No packet of an active session is lost, except during its handover.     *)
ServedWhileActive ==
  [][\A p \in data : Fails(p) => ~Active(p.of) \/ sgw_ho[p.of].in]_userVars

(* What the user plane can do to the whole gateway: it ends the process    *)
(* only for a packet of a subscriber whose session is being set up or torn *)
(* down, or that is in a handover (set_inet_sock_addr on an empty address).*)
ExitWindows ==
  [][sgw_up /\ ~sgw_up' =>
       \E p \in data \ data' : ~Active(p.of) \/ sgw_ho[p.of].in]_userVars
=============================================================================
