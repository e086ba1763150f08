--------------------------------- MODULE Pgw ---------------------------------
(***************************************************************************)
(* The control plane of the packet gateway (pgw.cpp, pgw_server.cpp).      *)
(* As in the serving gateway, a thread takes a datagram and runs the whole *)
(* handler; a step is one critical section.                                *)
(***************************************************************************)
EXTENDS GtpNet

CONSTANTS
  S5Threads,    \* the threads of the S5 server
  MaxUeCount    \* MAX_UE_COUNT: the subscribers set_ip_addrs has an address for

ASSUME MaxUeCountAssumption == MaxUeCount \in Nat

VARIABLES
  pgw_s5,    \* s5_id: TEID -> IMSI, 0 where there is no entry
  pgw_sgi,   \* sgi_id: IP address -> IMSI
  pgw_ctx,   \* ue_ctx: IMSI -> UeContext; in: it has an entry
  pgw_th     \* the handler each S5 thread is in

pgwOwn == <<pgw_s5, pgw_sgi, pgw_ctx, pgw_th>>
-----------------------------------------------------------------------------
(* Faulty variant: everybody gets the same address.                        *)
OneAddress == [i \in Imsi |-> CHOOSE n \in UEs : TRUE]

(* ip_addrs: the address of a subscriber is named by the subscriber; 0 is  *)
(* the empty string that ip_addrs[imsi] makes for one without an address.  *)
ip_addrs == [i \in Imsi |-> IF i < MaxUeCount THEN i ELSE 0]

PgwCtx == [in : BOOLEAN, ip : Imsi, teid : Teid]
NoPgwCtx == [in |-> FALSE, ip |-> 0, teid |-> 0]

PgwIdle == [pc |-> "idle", req |-> [op |-> "none"], imsi |-> 0, teid |-> 0, ip |-> 0]

PgwPc == {"sgi", "ctx", "answer", "rem_s5", "rem_sgi", "rem_ctx"}
PgwThread == {PgwIdle} \cup
             [pc : PgwPc, req : S5Req, imsi : Imsi, teid : Teid, ip : Imsi]

PgwTypeOK ==
  /\ pgw_s5 \in [Teid -> Imsi]
  /\ pgw_sgi \in [Imsi -> Imsi]
  /\ pgw_ctx \in [Imsi -> PgwCtx]
  /\ pgw_th \in [S5Threads -> PgwThread]

PgwInit ==
  /\ pgw_s5 = [x \in Teid |-> 0]
  /\ pgw_sgi = [a \in Imsi |-> 0]
  /\ pgw_ctx = [i \in Imsi |-> NoPgwCtx]
  /\ pgw_th = [t \in S5Threads |-> PgwIdle]
-----------------------------------------------------------------------------
PgwGoto(t, pc) == pgw_th' = [pgw_th EXCEPT ![t].pc = pc]

PgwReturn(t) == pgw_th' = [pgw_th EXCEPT ![t] = PgwIdle]

PgwTake(t, q, pc, imsi, teid, ip) ==
  /\ pgw_th[t].pc = "idle"
  /\ s5' = s5 \ {q}
  /\ pgw_th' = [pgw_th EXCEPT ![t] = [pc |-> pc, req |-> q, imsi |-> imsi,
                                      teid |-> teid, ip |-> ip]]

(* Faulty variant: the answer goes nowhere.                                *)
PgwSilent(t, ok, teid, ip) == UNCHANGED s5r

PgwAnswer(t, ok, teid, ip) ==
  s5r' = s5r \cup {[sock |-> pgw_th[t].req.sock, ok |-> ok, teid |-> teid, ip |-> ip]}

(* handle_create_session: both tables, then the context and the answer.    *)
PgwCreateSession(t) ==
  \E q \in s5 :
    /\ q.op = "create"
    /\ PgwTake(t, q, "sgi", q.imsi, q.teid, ip_addrs[q.imsi])
    /\ pgw_s5' = [pgw_s5 EXCEPT ![q.teid] = q.imsi]
    /\ UNCHANGED <<s11, s11r, s5r, pgw_sgi, pgw_ctx>>

(* Faulty variant: the address is not the one that was assigned.           *)
NoAddressSgi(t) ==
  /\ pgw_th[t].pc = "sgi"
  /\ pgw_sgi' = [pgw_sgi EXCEPT ![0] = pgw_th[t].imsi]
  /\ PgwGoto(t, "ctx")
  /\ UNCHANGED <<gtpVars, pgw_s5, pgw_ctx>>

PgwCreateSgi(t) ==
  /\ pgw_th[t].pc = "sgi"
  /\ pgw_sgi' = [pgw_sgi EXCEPT ![pgw_th[t].ip] = pgw_th[t].imsi]
  /\ PgwGoto(t, "ctx")
  /\ UNCHANGED <<gtpVars, pgw_s5, pgw_ctx>>

PgwCreateCtx(t) ==
  LET w == pgw_th[t] IN
  /\ w.pc = "ctx"
  /\ pgw_ctx' = [pgw_ctx EXCEPT ![w.imsi] = [in |-> TRUE, ip |-> w.ip, teid |-> w.teid]]
  /\ PgwAnswer(t, TRUE, w.teid, w.ip)
  /\ PgwReturn(t)
  /\ UNCHANGED <<s11, s11r, s5, pgw_s5, pgw_sgi>>

(* handle_detach: the answer goes out first, then the three removals, with *)
(* what the context held before.  An unknown TEID is answered like any,    *)
(* and ue_ctx[imsi] makes the entry it does not find.                      *)
PgwDetach(t) ==
  \E q \in s5 :
    /\ q.op = "detach"
    /\ PgwTake(t, q, "answer", pgw_s5[q.teid], 0, 0)
    /\ UNCHANGED <<s11, s11r, s5r, pgw_s5, pgw_sgi, pgw_ctx>>

PgwDetachAnswer(t) ==
  LET i == pgw_th[t].imsi IN
  /\ pgw_th[t].pc = "answer"
  /\ PgwAnswer(t, TRUE, 0, 0)
  /\ pgw_ctx' = [pgw_ctx EXCEPT ![i].in = TRUE]
  /\ pgw_th' = [pgw_th EXCEPT ![t].pc = "rem_s5", ![t].teid = pgw_ctx[i].teid,
                              ![t].ip = pgw_ctx[i].ip]
  /\ UNCHANGED <<s11, s11r, s5, pgw_s5, pgw_sgi>>

PgwDetachS5(t) ==
  /\ pgw_th[t].pc = "rem_s5"
  /\ pgw_s5' = [pgw_s5 EXCEPT ![pgw_th[t].teid] = 0]
  /\ PgwGoto(t, "rem_sgi")
  /\ UNCHANGED <<gtpVars, pgw_sgi, pgw_ctx>>

PgwDetachSgi(t) ==
  /\ pgw_th[t].pc = "rem_sgi"
  /\ pgw_sgi' = [pgw_sgi EXCEPT ![pgw_th[t].ip] = 0]
  /\ PgwGoto(t, "rem_ctx")
  /\ UNCHANGED <<gtpVars, pgw_s5, pgw_ctx>>

PgwDetachCtx(t) ==
  /\ pgw_th[t].pc = "rem_ctx"
  /\ pgw_ctx' = [pgw_ctx EXCEPT ![pgw_th[t].imsi] = NoPgwCtx]
  /\ PgwReturn(t)
  /\ UNCHANGED <<gtpVars, pgw_s5, pgw_sgi>>

PgwStep(t) ==
  \/ PgwCreateSession(t) \/ PgwCreateSgi(t) \/ PgwCreateCtx(t)
  \/ PgwDetach(t) \/ PgwDetachAnswer(t)
  \/ PgwDetachS5(t) \/ PgwDetachSgi(t) \/ PgwDetachCtx(t)

(* Whoever else moves sends well-formed datagrams, in any order and        *)
(* number, and leaves the gateway's tables alone.                          *)
PgwEnv == s5' \subseteq S5Req /\ UNCHANGED pgwOwn

PgwNext == PgwEnv \/ \E t \in S5Threads : PgwStep(t)

pgwVars == <<gtpVars, pgwOwn>>

PgwSpec == GtpInit /\ PgwInit /\ [][PgwNext]_pgwVars
-----------------------------------------------------------------------------
(* Address isolation: a subscriber's address and TEID lead to nobody else, *)
(* and its context holds nobody else's: a downlink packet for one never    *)
(* enters the tunnel of another, whatever the serving gateway sends and    *)
(* however the threads interleave (set_ip_addrs, update_itfid, rem_itfid). *)
PgwIsolation ==
  \A n \in UEs :
    /\ pgw_s5[n] \in {0, n} /\ pgw_sgi[n] \in {0, n}
    /\ pgw_ctx[n].ip \in {0, n} /\ pgw_ctx[n].teid \in {0, n}
=============================================================================
