--------------------------------- MODULE Sgw ---------------------------------
(***************************************************************************)
(* The control plane of the serving gateway (sgw.cpp, sgw_server.cpp).     *)
(*                                                                         *)
(* Every thread of the S11 server repeats: take a datagram, run the whole  *)
(* handler.  Handlers of different threads share the identification tables *)
(* and the context tables, each under its own mutex that is released       *)
(* between two accesses; so a step here is one critical section, together  *)
(* with the sends and local computation next to it.  A step that also      *)
(* takes a datagram or answers one touches nothing else that is shared.    *)
(***************************************************************************)
EXTENDS GtpNet

CONSTANTS
  S11Threads,     \* the threads of the S11 server
  MaxS5Timeouts   \* bound: the answers of the PGW a thread gives up waiting for

ASSUME MaxS5TimeoutsAssumption == MaxS5Timeouts \in Nat
ASSUME S5SockAssumption == S11Threads \X (0 .. MaxS5Timeouts) \subseteq S5Sock

VARIABLES
  sgw_id,    \* s11_id, s1_id and s5_id: TEID -> IMSI, 0 where there is no entry
  sgw_ctx,   \* ue_ctx: IMSI -> UeContext
  sgw_ho,    \* ho_ue_ctx: the context of a handover in progress
  sgw_th,    \* the handler each S11 thread is in
  sgw_up,    \* the process has not left through handle_type1_error
  s5port     \* the ephemeral port of each thread's UdpClient towards the PGW

sgwOwn == <<sgw_id, sgw_ctx, sgw_ho, sgw_th, sgw_up, s5port>>
sgwVars == <<gtpVars, sgwOwn>>
-----------------------------------------------------------------------------
Itf == {"s11", "s1", "s5"}

(* The UeContext fields the properties tell apart.  The five TEIDs that    *)
(* handle_create_session copies from s11_cteid_mme are one field; in says  *)
(* that the table has an entry; enb that the eNodeB's address is known; s5 *)
(* is what the PGW assigned.                                               *)
Ctx == [in : BOOLEAN, teid : Imsi, dl : Teid, enb : BOOLEAN, s5 : Teid]
NoCtx == [in |-> FALSE, teid |-> 0, dl |-> 0, enb |-> FALSE, s5 |-> 0]

HoCtx == [in : BOOLEAN, dl : Teid]
NoHo == [in |-> FALSE, dl |-> 0]

NoReq == [op |-> "none", sock |-> CHOOSE s \in S11Sock : TRUE,
          teid |-> 0, imsi |-> 0, arg |-> 0]
Idle == [pc |-> "idle", req |-> NoReq, imsi |-> 0, teid |-> 0]

LookupOp == S11Op \ {"create"}
CreatePc == {"add_s1", "add_s5", "init", "wait_create"}
DetachPc == {"wait_detach", "rem_s11", "rem_s1", "rem_s5", "rem_ctx"}
SgwPc == {"ho_add", "ho_erase"} \cup LookupOp \cup CreatePc \cup DetachPc

SgwThread == {Idle} \cup [pc : SgwPc, req : S11Req, imsi : Imsi, teid : Imsi]

SgwTypeOK ==
  /\ sgw_id \in [Itf -> [Teid -> Imsi]]
  /\ sgw_ctx \in [Imsi -> Ctx]
  /\ sgw_ho \in [Imsi -> HoCtx]
  /\ sgw_th \in [S11Threads -> SgwThread]
  /\ sgw_up \in BOOLEAN
  /\ s5port \in [S11Threads -> 0 .. MaxS5Timeouts]

SgwInit ==
  /\ sgw_id = [i \in Itf |-> [x \in Teid |-> 0]]
  /\ sgw_ctx = [i \in Imsi |-> NoCtx]
  /\ sgw_ho = [i \in Imsi |-> NoHo]
  /\ sgw_th = [t \in S11Threads |-> Idle]
  /\ sgw_up = TRUE
  /\ s5port = [t \in S11Threads |-> 0]
-----------------------------------------------------------------------------
(* Helpers.                                                                *)

(* Faulty variants: the table is not consulted; the table of S1 is.        *)
TeidImsi(itf, teid) == teid
S1Imsi(itf, teid) == sgw_id["s1"][teid]

get_imsi(itf, teid) == sgw_id[itf][teid]

update_itfid(itf, teid, imsi) == sgw_id' = [sgw_id EXCEPT ![itf][teid] = imsi]

(* Faulty variants: the case of S5, or of S1, is missing.                  *)
NoS5Removal(itf, teid) ==
  sgw_id' = IF itf = "s5" THEN sgw_id ELSE [sgw_id EXCEPT ![itf][teid] = 0]
NoS1Removal(itf, teid) ==
  sgw_id' = IF itf = "s1" THEN sgw_id ELSE [sgw_id EXCEPT ![itf][teid] = 0]

(* Faulty variant: clear() for erase().                                    *)
ClearItf(itf, teid) == sgw_id' = [sgw_id EXCEPT ![itf] = [x \in Teid |-> 0]]

rem_itfid(itf, teid) == sgw_id' = [sgw_id EXCEPT ![itf][teid] = 0]

(* ue_ctx[imsi] makes the entry it does not find.                          *)
Touch(imsi) == [sgw_ctx EXCEPT ![imsi].in = TRUE]

At(t, pc) == sgw_up /\ sgw_th[t].pc = pc

Goto(t, pc, imsi, teid) ==
  sgw_th' = [sgw_th EXCEPT ![t] =
               [pc |-> pc, req |-> sgw_th[t].req, imsi |-> imsi, teid |-> teid]]

Continue(t, pc) == Goto(t, pc, sgw_th[t].imsi, sgw_th[t].teid)

Return(t) == sgw_th' = [sgw_th EXCEPT ![t] = Idle]

Take(t, d, pc, imsi, teid) ==
  /\ At(t, "idle")
  /\ s11' = s11 \ {d}
  /\ sgw_th' = [sgw_th EXCEPT ![t] =
                  [pc |-> pc, req |-> d, imsi |-> imsi, teid |-> teid]]

Answer(t, ok, teid, ip) ==
  s11r' = s11r \cup {[op |-> sgw_th[t].req.op, sock |-> sgw_th[t].req.sock,
                      ok |-> ok, teid |-> teid, ip |-> ip]}

S5Socket(t) == <<t, s5port[t]>>

AskPgw(t, op, teid, imsi) ==
  s5' = s5 \cup {[op |-> op, sock |-> S5Socket(t), teid |-> teid, imsi |-> imsi]}

(* The PGW's answer r reaches the UdpClient, or after five seconds the     *)
(* receive fails and the handler reads a cleared packet: zeros.  The next  *)
(* UdpClient has another port, so an answer that is late goes nowhere.     *)
PgwAnswers(t, r) ==
  /\ r \in s5r /\ r.sock = S5Socket(t)
  /\ s5r' = s5r \ {r}
  /\ UNCHANGED s5port

PgwTimeout(t) ==
  /\ s5port[t] < MaxS5Timeouts
  /\ s5port' = [s5port EXCEPT ![t] = @ + 1]
  /\ UNCHANGED s5r
-----------------------------------------------------------------------------
(* handle_create_session                                                   *)

SgwCreateSession(t) ==
  \E d \in s11 :
    /\ d.op = "create"
    /\ Take(t, d, "add_s1", d.imsi, d.arg)
    /\ update_itfid("s11", d.arg, d.imsi)
    /\ UNCHANGED <<s11r, s5, s5r, sgw_ctx, sgw_ho, sgw_up, s5port>>

SgwCreateItf(t) ==
  \E itf \in {"s1", "s5"} :
    /\ At(t, IF itf = "s1" THEN "add_s1" ELSE "add_s5")
    /\ update_itfid(itf, sgw_th[t].teid, sgw_th[t].imsi)
    /\ Continue(t, IF itf = "s1" THEN "add_s5" ELSE "init")
    /\ UNCHANGED <<gtpVars, sgw_ctx, sgw_ho, sgw_up, s5port>>

(* UeContext::init leaves s1_uteid_dl, s5_uteid_ul and the eNodeB alone.   *)
SgwCreateCtx(t) ==
  LET i == sgw_th[t].imsi IN
  /\ At(t, "init")
  /\ sgw_ctx' = [sgw_ctx EXCEPT ![i].in = TRUE, ![i].teid = sgw_th[t].teid]
  /\ AskPgw(t, "create", sgw_th[t].teid, i)
  /\ Continue(t, "wait_create")
  /\ UNCHANGED <<s11, s11r, s5r, sgw_id, sgw_ho, sgw_up, s5port>>

(* With an answer or without one, the session is reported to the MME.      *)
SgwCreateFinish(t, teid, ip) ==
  LET i == sgw_th[t].imsi IN
  /\ At(t, "wait_create")
  /\ sgw_ctx' = [sgw_ctx EXCEPT ![i].in = TRUE, ![i].s5 = teid]
  /\ Answer(t, TRUE, sgw_th[t].teid, ip)
  /\ Return(t)
  /\ UNCHANGED <<s11, s5, sgw_id, sgw_ho, sgw_up>>

SgwCreateRsp(t) ==
  \E r \in s5r : PgwAnswers(t, r) /\ SgwCreateFinish(t, r.teid, r.ip)

SgwCreateTimeout(t) == PgwTimeout(t) /\ SgwCreateFinish(t, 0, 0)
-----------------------------------------------------------------------------
(* Every other handler begins with imsi = get_imsi(11, teid); the lock is  *)
(* released and the imsi used later.                                       *)

SgwLookup(t) ==
  \E d \in s11 :
    /\ d.op \in LookupOp
    /\ Take(t, d, d.op, get_imsi("s11", d.teid), 0)
    /\ UNCHANGED <<s11r, s5, s5r, sgw_id, sgw_ctx, sgw_ho, sgw_up, s5port>>

(* Faulty variant: the eNodeB's address is not stored.                     *)
ForgetEnb(t) ==
  LET i == sgw_th[t].imsi IN
  /\ At(t, "modify") /\ i # 0
  /\ sgw_ctx' = [sgw_ctx EXCEPT ![i].in = TRUE, ![i].dl = sgw_th[t].req.arg]
  /\ Answer(t, TRUE, 0, 0)
  /\ Return(t)
  /\ UNCHANGED <<s11, s5, s5r, sgw_id, sgw_ho, sgw_up, s5port>>

(* handle_modify_bearer *)
SgwModifyBearer(t) ==
  LET i == sgw_th[t].imsi IN
  /\ At(t, "modify") /\ i # 0
  /\ sgw_ctx' = [sgw_ctx EXCEPT ![i].in = TRUE, ![i].enb = TRUE,
                                ![i].dl = sgw_th[t].req.arg]
  /\ Answer(t, TRUE, 0, 0)
  /\ Return(t)
  /\ UNCHANGED <<s11, s5, s5r, sgw_id, sgw_ho, sgw_up, s5port>>

(* The context was filled in by UeContext::init, not merely made by        *)
(* ue_ctx[imsi]: else pgw_s5_ip_addr is empty and inet_aton fails.         *)
HasPgw(imsi) == sgw_ctx[imsi].in /\ sgw_ctx[imsi].teid # 0

(* handle_type1_error: a modify for an unknown TEID, or a detach of a      *)
(* subscriber without context, ends the process and with it every session. *)
SgwExit(t) ==
  /\ \/ At(t, "modify") /\ sgw_th[t].imsi = 0
     \/ At(t, "detach") /\ ~HasPgw(sgw_th[t].imsi)
  /\ sgw_up' = FALSE
  /\ UNCHANGED <<gtpVars, sgw_id, sgw_ctx, sgw_ho, sgw_th, s5port>>
-----------------------------------------------------------------------------
(* The handover handlers; none of them tests imsi against 0.               *)

(* handle_indirect_tunnel_setup: the handover context, then the indirect   *)
(* tunnel under s11_cteid_mme + 1.                                         *)
SgwHoSetup(t) ==
  LET i == sgw_th[t].imsi IN
  /\ At(t, "setup")
  /\ sgw_ho' = [sgw_ho EXCEPT ![i] = [in |-> TRUE, dl |-> sgw_th[t].req.arg]]
  /\ sgw_ctx' = Touch(i)
  /\ Goto(t, "ho_add", i, sgw_ctx[i].teid)
  /\ UNCHANGED <<gtpVars, sgw_id, sgw_up, s5port>>

(* Faulty variant: off by one more.                                        *)
TwoAbove(teid) == teid + 2

IndirectTeid(teid) == teid + 1

SgwHoAdd(t) ==
  /\ At(t, "ho_add")
  /\ update_itfid("s1", IndirectTeid(sgw_th[t].teid), sgw_th[t].imsi)
  /\ Answer(t, TRUE, IndirectTeid(sgw_th[t].teid), 0)
  /\ Return(t)
  /\ UNCHANGED <<s11, s5, s5r, sgw_ctx, sgw_ho, sgw_up, s5port>>

(* handle_handover_completion: the downlink moves to the target, then the  *)
(* handover context goes, outside the lock.                                *)
SgwHoCompletion(t) ==
  LET i == sgw_th[t].imsi IN
  /\ At(t, "complete")
  /\ sgw_ctx' = [sgw_ctx EXCEPT ![i].in = TRUE, ![i].dl = sgw_ho[i].dl]
  /\ sgw_ho' = [sgw_ho EXCEPT ![i].in = TRUE]
  /\ Continue(t, "ho_erase")
  /\ UNCHANGED <<gtpVars, sgw_id, sgw_up, s5port>>

(* Faulty variant: the handover context stays.                             *)
KeepHoErase(t) ==
  /\ At(t, "ho_erase")
  /\ Answer(t, TRUE, 0, 0)
  /\ Return(t)
  /\ UNCHANGED <<s11, s5, s5r, sgw_id, sgw_ctx, sgw_ho, sgw_up, s5port>>

SgwHoErase(t) ==
  /\ At(t, "ho_erase")
  /\ sgw_ho' = [sgw_ho EXCEPT ![sgw_th[t].imsi] = NoHo]
  /\ Answer(t, TRUE, 0, 0)
  /\ Return(t)
  /\ UNCHANGED <<s11, s5, s5r, sgw_id, sgw_ctx, sgw_up, s5port>>

(* handle_indirect_tunnel_teardown_.  ue_ctx[imsi], without the lock, and  *)
(* rem_itfid are one step: the TEID read in between only goes into a       *)
(* header field nobody looks at.                                           *)
SgwTeardown(t) ==
  /\ At(t, "teardown")
  /\ sgw_ctx' = Touch(sgw_th[t].imsi)
  /\ rem_itfid("s1", sgw_th[t].req.arg)
  /\ Answer(t, TRUE, 0, 0)
  /\ Return(t)
  /\ UNCHANGED <<s11, s5, s5r, sgw_ho, sgw_up, s5port>>
-----------------------------------------------------------------------------
(* handle_detach: the answer leaves before the four removals.              *)

SgwDetach(t) ==
  LET i == sgw_th[t].imsi IN
  /\ At(t, "detach") /\ HasPgw(i)
  /\ AskPgw(t, "detach", sgw_ctx[i].s5, 0)
  /\ Goto(t, "wait_detach", i, sgw_ctx[i].teid)
  /\ UNCHANGED <<s11, s11r, s5r, sgw_id, sgw_ctx, sgw_ho, sgw_up, s5port>>

SgwDetachRsp(t) ==
  \E r \in s5r :
    /\ At(t, "wait_detach")
    /\ PgwAnswers(t, r)
    /\ IF r.ok THEN Answer(t, TRUE, 0, 0) /\ Continue(t, "rem_s11")
               ELSE Return(t) /\ UNCHANGED s11r
    /\ UNCHANGED <<s11, s5, sgw_id, sgw_ctx, sgw_ho, sgw_up>>

SgwDetachTimeout(t) ==
  /\ At(t, "wait_detach")
  /\ PgwTimeout(t)
  /\ Return(t)
  /\ UNCHANGED <<s11, s11r, s5, sgw_id, sgw_ctx, sgw_ho, sgw_up>>

SgwDetachItf(t) ==
  \E step \in {<<"s11", "rem_s11", "rem_s1">>, <<"s1", "rem_s1", "rem_s5">>,
               <<"s5", "rem_s5", "rem_ctx">>} :
    /\ At(t, step[2])
    /\ rem_itfid(step[1], sgw_th[t].teid)
    /\ Continue(t, step[3])
    /\ UNCHANGED <<gtpVars, sgw_ctx, sgw_ho, sgw_up, s5port>>

SgwDetachCtx(t) ==
  /\ At(t, "rem_ctx")
  /\ sgw_ctx' = [sgw_ctx EXCEPT ![sgw_th[t].imsi] = NoCtx]
  /\ Return(t)
  /\ UNCHANGED <<gtpVars, sgw_id, sgw_ho, sgw_up, s5port>>
-----------------------------------------------------------------------------
SgwStep(t) ==
  \/ SgwCreateSession(t) \/ SgwCreateItf(t) \/ SgwCreateCtx(t)
  \/ SgwCreateRsp(t) \/ SgwCreateTimeout(t)
  \/ SgwLookup(t) \/ SgwModifyBearer(t) \/ SgwExit(t)
  \/ SgwHoSetup(t) \/ SgwHoAdd(t)
  \/ SgwHoCompletion(t) \/ SgwHoErase(t) \/ SgwTeardown(t)
  \/ SgwDetach(t) \/ SgwDetachRsp(t) \/ SgwDetachTimeout(t)
  \/ SgwDetachItf(t) \/ SgwDetachCtx(t)

(* Whoever else moves sends the gateway well-formed datagrams, in any      *)
(* order and number, and leaves its tables alone; the threads of its data  *)
(* plane may end the process.                                              *)
SgwEnv ==
  /\ s11' \subseteq S11Req
  /\ s5r' \subseteq S5Rsp
  /\ sgw_up' \in {sgw_up, FALSE}
  /\ UNCHANGED <<sgw_id, sgw_ctx, sgw_ho, sgw_th, s5port>>

SgwNext == SgwEnv \/ \E t \in S11Threads : SgwStep(t)

SgwSpec == GtpInit /\ SgwInit /\ [][SgwNext]_sgwVars
-----------------------------------------------------------------------------
(* No subscriber's number follows another's, and none is 1, the number     *)
(* that follows the 0 of a context never filled in.                        *)
Spaced == \A m \in Imsi : m + 1 \notin UEs

(* UE isolation: a TEID that is a subscriber's own never resolves, on any  *)
(* of the three interfaces, to another subscriber.  It is what keeps one   *)
(* subscriber's traffic and signalling out of another's context, whatever  *)
(* the MME asks for and however the threads interleave (update_itfid,      *)
(* get_imsi).                                                              *)
UeIsolation ==
  \A itf \in Itf, n \in UEs : sgw_id[itf][n] \in {0, n}

(* Signalling isolation: the subscriber a handler works on is the one the  *)
(* request's TEID names, or none, all along the handler: also when the     *)
(* table changed after the lookup.                                         *)
HandlerIsolation ==
  \A t \in S11Threads :
    sgw_th[t].req.op \in LookupOp => sgw_th[t].imsi \in {0, sgw_th[t].req.teid}
=============================================================================
