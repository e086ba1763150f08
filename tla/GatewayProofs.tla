---------------------------- MODULE GatewayProofs ----------------------------
(***************************************************************************)
(* Proofs about each of the two gateways alone, for every set of           *)
(* subscribers, every number of threads and every environment that sends   *)
(* well-formed datagrams.                                                  *)
(***************************************************************************)
EXTENDS Sgw, Pgw, TLAPS

-----------------------------------------------------------------------------
(* The serving gateway, for every number of S11 threads.  Types.           *)

TypeInv == SgwTypeOK /\ s11 \subseteq S11Req /\ s5r \subseteq S5Rsp

(* Teid is closed under what the gateway does to an IMSI.                  *)
LEMMA ImsiTeid == /\ Imsi \subseteq Nat /\ 0 \in Imsi
                  /\ Imsi \subseteq Teid /\ 0 \in Teid
                  /\ \A n \in Imsi : n + 1 \in Teid
BY UEsAssumption DEF Imsi, Teid

(* The initial state is well typed.                                        *)
LEMMA InitType == GtpInit /\ SgwInit => TypeInv
BY ImsiTeid, MaxS5TimeoutsAssumption
DEF GtpInit, SgwInit, TypeInv, SgwTypeOK, NoCtx, NoHo, Ctx, HoCtx, SgwThread

(* A thread that is in a handler has a request and two IMSIs.              *)
LEMMA Busy ==
  ASSUME SgwTypeOK, NEW t \in S11Threads, sgw_th[t].pc # "idle"
  PROVE  sgw_th[t] \in [pc : SgwPc, req : S11Req, imsi : Imsi, teid : Imsi]
BY DEF SgwTypeOK, SgwThread, Idle

(* Moving on within a handler keeps the threads well typed ...             *)
LEMMA GotoType ==
  ASSUME SgwTypeOK, NEW t \in S11Threads, sgw_th[t].pc # "idle",
         NEW pc \in SgwPc, NEW i \in Imsi, NEW x \in Imsi, Goto(t, pc, i, x)
  PROVE  sgw_th' \in [S11Threads -> SgwThread]
BY Busy DEF SgwTypeOK, SgwThread, Goto

(* ... and so do its end ...                                               *)
LEMMA ReturnType ==
  ASSUME SgwTypeOK, NEW t \in S11Threads, Return(t)
  PROVE  sgw_th' \in [S11Threads -> SgwThread]
BY DEF SgwTypeOK, SgwThread, Return

(* ... and its beginning.                                                  *)
LEMMA TakeType ==
  ASSUME TypeInv, NEW t \in S11Threads, NEW d \in s11,
         NEW pc \in SgwPc, NEW i \in Imsi, NEW x \in Imsi, Take(t, d, pc, i, x)
  PROVE  sgw_th' \in [S11Threads -> SgwThread] /\ s11' \subseteq S11Req
BY DEF TypeInv, SgwTypeOK, SgwThread, Take

(* An answer of the PGW that is read, and one that is not.                 *)
LEMMA PgwType ==
  ASSUME TypeInv, NEW t \in S11Threads,
         PgwTimeout(t) \/ \E r \in s5r : PgwAnswers(t, r)
  PROVE  s5port' \in [S11Threads -> 0 .. MaxS5Timeouts] /\ s5r' \subseteq S5Rsp
BY MaxS5TimeoutsAssumption DEF TypeInv, SgwTypeOK, PgwTimeout, PgwAnswers

(* What the S11 table finds is an IMSI.                                    *)
LEMMA LookupType ==
  ASSUME SgwTypeOK, NEW itf \in Itf, NEW x \in Teid
  PROVE  get_imsi(itf, x) \in Imsi
BY DEF SgwTypeOK, get_imsi

(* Making and removing a table entry keeps the tables well typed           *)
(* (update_itfid, rem_itfid).                                              *)
LEMMA UpdateType ==
  ASSUME SgwTypeOK, NEW itf \in Itf, NEW x \in Teid, NEW i \in Imsi,
         update_itfid(itf, x, i) \/ rem_itfid(itf, x)
  PROVE  sgw_id' \in [Itf -> [Teid -> Imsi]]
BY ImsiTeid DEF SgwTypeOK, update_itfid, rem_itfid

(* No step of a thread disturbs the types.                                 *)
LEMMA StepType ==
  ASSUME TypeInv, NEW t \in S11Threads, SgwStep(t)
  PROVE  TypeInv'
<1> USE DEF TypeInv, At
<1>t. /\ s11 \subseteq S11Req /\ s5r \subseteq S5Rsp /\ SgwTypeOK
  OBVIOUS
<1>1. CASE SgwCreateSession(t)
  <2>1. PICK d \in s11 : /\ d.op = "create"
                         /\ Take(t, d, "add_s1", d.imsi, d.arg)
                         /\ update_itfid("s11", d.arg, d.imsi)
    BY <1>1 DEF SgwCreateSession
  <2>2. d.imsi \in Imsi /\ d.arg \in Imsi /\ d.arg \in Teid
    BY <2>1, <1>t, ImsiTeid DEF S11Req, S11Any, Imsi
  <2>3. sgw_th' \in [S11Threads -> SgwThread] /\ s11' \subseteq S11Req
    BY <2>1, <2>2, TakeType DEF SgwPc, CreatePc
  <2>4. sgw_id' \in [Itf -> [Teid -> Imsi]]
    BY <2>1, <2>2, UpdateType DEF Itf
  <2> QED
    BY <1>1, <2>3, <2>4 DEF SgwCreateSession, SgwTypeOK
<1>2. CASE SgwCreateItf(t)
  <2>1. PICK itf \in {"s1", "s5"} :
          /\ At(t, IF itf = "s1" THEN "add_s1" ELSE "add_s5")
          /\ update_itfid(itf, sgw_th[t].teid, sgw_th[t].imsi)
          /\ Continue(t, IF itf = "s1" THEN "add_s5" ELSE "init")
    BY <1>2 DEF SgwCreateItf
  <2>2. sgw_th[t].imsi \in Imsi /\ sgw_th[t].teid \in Imsi /\ sgw_th[t].teid \in Teid
    BY <2>1, Busy, ImsiTeid
  <2>3. sgw_th' \in [S11Threads -> SgwThread]
    BY <2>1, <2>2, GotoType DEF Continue, SgwPc, CreatePc
  <2>4. sgw_id' \in [Itf -> [Teid -> Imsi]]
    BY <2>1, <2>2, UpdateType DEF Itf
  <2> QED
    BY <1>2, <2>3, <2>4 DEF SgwCreateItf, SgwTypeOK, gtpVars
<1>3. CASE SgwCreateCtx(t)
  <2>1. sgw_th[t].imsi \in Imsi /\ sgw_th[t].teid \in Imsi
    BY <1>3, Busy DEF SgwCreateCtx
  <2>2. sgw_th' \in [S11Threads -> SgwThread]
    BY <1>3, <2>1, GotoType DEF SgwCreateCtx, Continue, SgwPc, CreatePc
  <2>3. sgw_ctx' \in [Imsi -> Ctx]
    BY <1>3, <2>1 DEF SgwCreateCtx, SgwTypeOK, Ctx
  <2> QED
    BY <1>3, <2>2, <2>3 DEF SgwCreateCtx, SgwTypeOK
<1>4. CASE SgwCreateRsp(t)
  <2>1. PICK r \in s5r : PgwAnswers(t, r) /\ SgwCreateFinish(t, r.teid, r.ip)
    BY <1>4 DEF SgwCreateRsp
  <2>2. sgw_th' \in [S11Threads -> SgwThread]
    BY <2>1, ReturnType DEF SgwCreateFinish
  <2>3. sgw_ctx' \in [Imsi -> Ctx]
    <3>1. r.teid \in Teid
      BY DEF S5Rsp
    <3> QED
      BY <2>1, <3>1 DEF SgwCreateFinish, SgwTypeOK, Ctx
  <2> QED
    BY <2>1, <2>2, <2>3, PgwType DEF SgwCreateFinish, SgwTypeOK
<1>5. CASE SgwCreateTimeout(t)
  <2>1. PgwTimeout(t) /\ SgwCreateFinish(t, 0, 0)
    BY <1>5 DEF SgwCreateTimeout
  <2>2. sgw_th' \in [S11Threads -> SgwThread]
    BY <2>1, ReturnType DEF SgwCreateFinish
  <2>3. sgw_ctx' \in [Imsi -> Ctx]
    BY <2>1, ImsiTeid DEF SgwCreateFinish, SgwTypeOK, Ctx
  <2> QED
    BY <2>1, <2>2, <2>3, PgwType DEF SgwCreateFinish, SgwTypeOK
<1>6. CASE SgwLookup(t)
  <2>1. PICK d \in s11 : /\ d.op \in LookupOp
                         /\ Take(t, d, d.op, get_imsi("s11", d.teid), 0)
    BY <1>6 DEF SgwLookup
  <2>2. get_imsi("s11", d.teid) \in Imsi
    BY <1>t, LookupType DEF S11Req, S11Any, Itf
  <2>3. sgw_th' \in [S11Threads -> SgwThread] /\ s11' \subseteq S11Req
    BY <2>1, <2>2, TakeType, ImsiTeid DEF SgwPc
  <2> QED
    BY <1>6, <2>3 DEF SgwLookup, SgwTypeOK
<1>7. CASE SgwModifyBearer(t)
  <2>1. sgw_th[t].imsi \in Imsi /\ sgw_th[t].req.arg \in Teid
    BY <1>7, Busy DEF SgwModifyBearer, LookupOp, S11Op, S11Req, S11Any
  <2>2. sgw_th' \in [S11Threads -> SgwThread]
    BY <1>7, ReturnType DEF SgwModifyBearer
  <2>3. sgw_ctx' \in [Imsi -> Ctx]
    BY <1>7, <2>1 DEF SgwModifyBearer, SgwTypeOK, Ctx
  <2> QED
    BY <1>7, <2>2, <2>3 DEF SgwModifyBearer, SgwTypeOK
<1>8. CASE SgwExit(t)
  BY <1>8 DEF SgwExit, SgwTypeOK, gtpVars
<1>9. CASE SgwHoSetup(t)
  <2>1. sgw_th[t].imsi \in Imsi /\ sgw_th[t].req.arg \in Teid
    BY <1>9, Busy DEF SgwHoSetup, S11Req, S11Any
  <2>2. sgw_ctx[sgw_th[t].imsi].teid \in Imsi
    BY <2>1 DEF SgwTypeOK, Ctx
  <2>3. sgw_th' \in [S11Threads -> SgwThread]
    BY <1>9, <2>1, <2>2, GotoType DEF SgwHoSetup, SgwPc
  <2>4. sgw_ctx' \in [Imsi -> Ctx]
    BY <1>9, <2>1 DEF SgwHoSetup, SgwTypeOK, Ctx, Touch
  <2>5. sgw_ho' \in [Imsi -> HoCtx]
    BY <1>9, <2>1 DEF SgwHoSetup, SgwTypeOK, HoCtx
  <2> QED
    BY <1>9, <2>3, <2>4, <2>5 DEF SgwHoSetup, SgwTypeOK, gtpVars
<1>10. CASE SgwHoAdd(t)
  <2>1. sgw_th[t].imsi \in Imsi /\ sgw_th[t].teid + 1 \in Teid
    BY <1>10, Busy, ImsiTeid DEF SgwHoAdd, IndirectTeid
  <2>2. sgw_th' \in [S11Threads -> SgwThread]
    BY <1>10, ReturnType DEF SgwHoAdd
  <2>3. sgw_id' \in [Itf -> [Teid -> Imsi]]
    BY <1>10, <2>1, UpdateType DEF SgwHoAdd, IndirectTeid, Itf
  <2> QED
    BY <1>10, <2>2, <2>3 DEF SgwHoAdd, IndirectTeid, SgwTypeOK
<1>11. CASE SgwHoCompletion(t)
  <2>1. sgw_th[t].imsi \in Imsi /\ sgw_th[t].teid \in Imsi
    BY <1>11, Busy DEF SgwHoCompletion
  <2>2. sgw_th' \in [S11Threads -> SgwThread]
    BY <1>11, <2>1, GotoType DEF SgwHoCompletion, Continue, SgwPc
  <2>3. sgw_ho[sgw_th[t].imsi].dl \in Teid
    BY <2>1 DEF SgwTypeOK, HoCtx
  <2>4. sgw_ctx' \in [Imsi -> Ctx]
    BY <1>11, <2>1, <2>3 DEF SgwHoCompletion, SgwTypeOK, Ctx
  <2>5. sgw_ho' \in [Imsi -> HoCtx]
    BY <1>11, <2>1 DEF SgwHoCompletion, SgwTypeOK, HoCtx
  <2> QED
    BY <1>11, <2>2, <2>4, <2>5 DEF SgwHoCompletion, SgwTypeOK, gtpVars
<1>12. CASE SgwHoErase(t)
  <2>1. sgw_th' \in [S11Threads -> SgwThread]
    BY <1>12, ReturnType DEF SgwHoErase
  <2>2. sgw_ho' \in [Imsi -> HoCtx]
    BY <1>12, ImsiTeid DEF SgwHoErase, SgwTypeOK, HoCtx, NoHo
  <2> QED
    BY <1>12, <2>1, <2>2 DEF SgwHoErase, SgwTypeOK
<1>13. CASE SgwTeardown(t)
  <2>1. sgw_th[t].req.arg \in Teid
    BY <1>13, Busy DEF SgwTeardown, S11Req, S11Any
  <2>2. sgw_th' \in [S11Threads -> SgwThread]
    BY <1>13, ReturnType DEF SgwTeardown
  <2>3. sgw_id' \in [Itf -> [Teid -> Imsi]]
    BY <1>13, <2>1, UpdateType, ImsiTeid DEF SgwTeardown, Itf
  <2>4. sgw_ctx' \in [Imsi -> Ctx]
    BY <1>13 DEF SgwTeardown, SgwTypeOK, Ctx, Touch
  <2> QED
    BY <1>13, <2>2, <2>3, <2>4 DEF SgwTeardown, SgwTypeOK
<1>14. CASE SgwDetach(t)
  <2>1. sgw_th[t].imsi \in Imsi
    BY <1>14, Busy DEF SgwDetach
  <2>2. sgw_ctx[sgw_th[t].imsi].teid \in Imsi
    BY <2>1 DEF SgwTypeOK, Ctx
  <2>3. sgw_th' \in [S11Threads -> SgwThread]
    BY <1>14, <2>1, <2>2, GotoType DEF SgwDetach, SgwPc, DetachPc
  <2> QED
    BY <1>14, <2>3 DEF SgwDetach, SgwTypeOK
<1>15. CASE SgwDetachRsp(t)
  <2>1. PICK r \in s5r :
          /\ At(t, "wait_detach")
          /\ PgwAnswers(t, r)
          /\ Continue(t, "rem_s11") \/ Return(t)
    BY <1>15 DEF SgwDetachRsp
  <2>2. sgw_th[t].imsi \in Imsi /\ sgw_th[t].teid \in Imsi
    BY <2>1, Busy
  <2>3. sgw_th' \in [S11Threads -> SgwThread]
    BY <2>1, <2>2, GotoType, ReturnType DEF Continue, SgwPc, DetachPc
  <2> QED
    BY <1>15, <2>1, <2>3, PgwType DEF SgwDetachRsp, SgwTypeOK
<1>16. CASE SgwDetachTimeout(t)
  <2>1. sgw_th' \in [S11Threads -> SgwThread]
    BY <1>16, ReturnType DEF SgwDetachTimeout
  <2> QED
    BY <1>16, <2>1, PgwType DEF SgwDetachTimeout, SgwTypeOK
<1>17. CASE SgwDetachItf(t)
  <2>1. PICK step \in {<<"s11", "rem_s11", "rem_s1">>, <<"s1", "rem_s1", "rem_s5">>,
                       <<"s5", "rem_s5", "rem_ctx">>} :
          /\ At(t, step[2])
          /\ rem_itfid(step[1], sgw_th[t].teid)
          /\ Continue(t, step[3])
    BY <1>17 DEF SgwDetachItf
  <2>2. step[1] \in Itf /\ step[2] # "idle" /\ step[3] \in SgwPc
    BY DEF Itf, SgwPc, DetachPc
  <2>3. sgw_th[t].imsi \in Imsi /\ sgw_th[t].teid \in Imsi /\ sgw_th[t].teid \in Teid
    BY <2>1, <2>2, Busy, ImsiTeid
  <2>4. sgw_th' \in [S11Threads -> SgwThread]
    BY <2>1, <2>2, <2>3, GotoType DEF Continue
  <2>5. sgw_id' \in [Itf -> [Teid -> Imsi]]
    BY <2>1, <2>2, <2>3, UpdateType, ImsiTeid
  <2> QED
    BY <1>17, <2>4, <2>5 DEF SgwDetachItf, SgwTypeOK, gtpVars
<1>18. CASE SgwDetachCtx(t)
  <2>1. sgw_th' \in [S11Threads -> SgwThread]
    BY <1>18, ReturnType DEF SgwDetachCtx
  <2>2. sgw_ctx' \in [Imsi -> Ctx]
    BY <1>18, ImsiTeid DEF SgwDetachCtx, SgwTypeOK, Ctx, NoCtx
  <2> QED
    BY <1>18, <2>1, <2>2 DEF SgwDetachCtx, SgwTypeOK, gtpVars
<1> QED
  BY <1>1, <1>2, <1>3, <1>4, <1>5, <1>6, <1>7, <1>8, <1>9, <1>10, <1>11,
     <1>12, <1>13, <1>14, <1>15, <1>16, <1>17, <1>18 DEF SgwStep

(* No step of the gateway, and none of its environment, disturbs the       *)
(* types.                                                                  *)
LEMMA NextType == TypeInv /\ [SgwNext]_sgwVars => TypeInv'
<1> SUFFICES ASSUME TypeInv, [SgwNext]_sgwVars
             PROVE  TypeInv'
  OBVIOUS
<1>1. CASE SgwEnv
  BY <1>1 DEF SgwEnv, sgwOwn, TypeInv, SgwTypeOK
<1>2. ASSUME NEW t \in S11Threads, SgwStep(t)
      PROVE  TypeInv'
  BY <1>2, StepType
<1>3. CASE UNCHANGED sgwVars
  BY <1>3 DEF sgwVars, sgwOwn, gtpVars, TypeInv, SgwTypeOK
<1> QED
  BY <1>1, <1>2, <1>3 DEF SgwNext

(* The types together with what the environment is assumed to send are     *)
(* invariant.                                                              *)
LEMMA TypeInvariant == SgwSpec => []TypeInv
<1>1. GtpInit /\ SgwInit => TypeInv
  BY InitType
<1>2. TypeInv /\ [SgwNext]_sgwVars => TypeInv'
  BY NextType
<1> QED
  BY <1>1, <1>2, PTL DEF SgwSpec

(* Type correctness of the gateway: whatever the MME and the PGW send, the *)
(* tables only ever hold TEIDs and IMSIs of subscribers (or 0), and a      *)
(* thread in a handler has a request (sgw.cpp).                            *)
THEOREM SgwTypeCorrect == SgwSpec => []SgwTypeOK
<1>1. TypeInv => SgwTypeOK
  BY DEF TypeInv
<1> QED
  BY <1>1, TypeInvariant, PTL
-----------------------------------------------------------------------------
(* Isolation.  HandlerIsolation and UeIsolation are not inductive alone: a *)
(* thread writes the tables with an IMSI and a TEID it copied from its     *)
(* request, a lock ago.  On S11 and S5 a TEID leads to its own number or   *)
(* to nobody, whoever asks for what: so a handler works on the subscriber  *)
(* its request names.  On S1 the indirect tunnel is entered under a TEID   *)
(* that may be another subscriber's.                                       *)

IdInv == \A itf \in {"s11", "s5"}, x \in Teid : sgw_id[itf][x] \in {0, x}

ThreadInv(t) ==
  /\ sgw_th[t].pc \in CreatePc => sgw_th[t].imsi \in {0, sgw_th[t].teid}
  /\ sgw_th[t].req.op \in LookupOp => sgw_th[t].imsi \in {0, sgw_th[t].req.teid}

IsolationInv == TypeInv /\ IdInv /\ \A t \in S11Threads : ThreadInv(t)

(* Empty tables and idle threads are isolated.                             *)
LEMMA InitIsolation == GtpInit /\ SgwInit => IsolationInv /\ UeIsolation
<1> SUFFICES ASSUME GtpInit, SgwInit PROVE IsolationInv /\ UeIsolation
  OBVIOUS
<1>1. TypeInv
  BY InitType
<1>2. IdInv /\ UeIsolation
  BY ImsiTeid DEF SgwInit, IdInv, UeIsolation, Itf, Imsi
<1>3. \A t \in S11Threads : ThreadInv(t)
  BY DEF SgwInit, ThreadInv, Idle, NoReq, CreatePc, LookupOp, S11Op
<1> QED
  BY <1>1, <1>2, <1>3 DEF IsolationInv

(* An update or a removal concerns the one entry (update_itfid,            *)
(* rem_itfid).                                                             *)
LEMMA UpdateEntry ==
  ASSUME SgwTypeOK, NEW itf \in Itf, NEW x \in Teid, NEW i \in Imsi,
         update_itfid(itf, x, i) \/ rem_itfid(itf, x)
  PROVE  \A j \in Itf, y \in Teid : /\ sgw_id'[j][y] \in {0, i, sgw_id[j][y]}
                                    /\ j # itf \/ y # x => sgw_id'[j][y] = sgw_id[j][y]
                                    /\ rem_itfid(itf, x) => sgw_id'[j][y] \in {0, sgw_id[j][y]}
<1>1. PICK v \in {0, i} : /\ sgw_id' = [sgw_id EXCEPT ![itf][x] = v]
                          /\ rem_itfid(itf, x) => sgw_id' = [sgw_id EXCEPT ![itf][x] = 0]
  BY DEF rem_itfid, update_itfid
<1>2. sgw_id \in [Itf -> [Teid -> Imsi]]
  BY DEF SgwTypeOK
<1>3. ASSUME NEW w, sgw_id' = [sgw_id EXCEPT ![itf][x] = w], NEW j \in Itf, NEW y \in Teid
      PROVE  sgw_id'[j][y] = IF j = itf /\ y = x THEN w ELSE sgw_id[j][y]
  <2>1. sgw_id[itf] \in [Teid -> Imsi]
    BY <1>2
  <2>2. CASE j = itf
    <3>1. sgw_id'[j] = [sgw_id[itf] EXCEPT ![x] = w]
      BY <1>3, <1>2, <2>2
    <3> QED
      BY <2>1, <2>2, <3>1
  <2>3. CASE j # itf
    BY <1>3, <1>2, <2>3
  <2> QED
    BY <2>2, <2>3
<1> QED
  BY <1>1, <1>3

(* Removing an entry, adding one for the subscriber it belongs to, or one  *)
(* of S1, keeps the tables of S11 and S5 isolated.                         *)
LEMMA UpdateIsolation ==
  ASSUME SgwTypeOK, IdInv, NEW itf \in Itf, NEW x \in Teid, NEW i \in Imsi,
         \/ rem_itfid(itf, x)
         \/ update_itfid(itf, x, i) /\ (i \in {0, x} \/ itf = "s1")
  PROVE  IdInv'
<1>1. ASSUME NEW j \in {"s11", "s5"}, NEW y \in Teid
      PROVE  sgw_id'[j][y] \in {0, y}
  <2>1. j \in Itf /\ j # "s1" /\ sgw_id[j][y] \in {0, y}
    BY DEF Itf, IdInv
  <2> QED
    BY <2>1, UpdateEntry
<1> QED
  BY <1>1 DEF IdInv

(* The same of the subscribers' entries, in all three tables.              *)
LEMMA UpdateUes ==
  ASSUME SgwTypeOK, UeIsolation, NEW itf \in Itf, NEW x \in Teid, NEW i \in Imsi,
         \/ rem_itfid(itf, x)
         \/ update_itfid(itf, x, i) /\ (i \in {0, x} \/ x \notin UEs)
  PROVE  UeIsolation'
<1>1. ASSUME NEW j \in Itf, NEW y \in UEs
      PROVE  sgw_id'[j][y] \in {0, y}
  <2>1. y \in Teid /\ sgw_id[j][y] \in {0, y}
    BY ImsiTeid DEF Imsi, UeIsolation
  <2> QED
    BY <2>1, UpdateEntry
<1> QED
  BY <1>1 DEF UeIsolation

(* A thread that stays in its handler keeps its request.                   *)
LEMMA GotoThread ==
  ASSUME SgwTypeOK, NEW t \in S11Threads, NEW pc, NEW i, NEW x, Goto(t, pc, i, x),
         \A u \in S11Threads : ThreadInv(u),
         i = sgw_th[t].imsi,
         pc \in CreatePc => i \in {0, x}
  PROVE  \A u \in S11Threads : ThreadInv(u)'
<1>1. \A u \in S11Threads :
        sgw_th'[u] = IF u = t THEN [pc |-> pc, req |-> sgw_th[t].req, imsi |-> i, teid |-> x]
                              ELSE sgw_th[u]
  BY DEF Goto, SgwTypeOK
<1> SUFFICES ASSUME NEW u \in S11Threads PROVE ThreadInv(u)'
  OBVIOUS
<1>2. CASE u = t
  <2>1. ThreadInv(t)
    OBVIOUS
  <2>2. /\ sgw_th'[u].pc = pc /\ sgw_th'[u].req = sgw_th[t].req
        /\ sgw_th'[u].imsi = i /\ sgw_th'[u].teid = x
    BY <1>1, <1>2
  <2> QED
    BY <2>1, <2>2 DEF ThreadInv
<1>3. CASE u # t
  BY <1>1, <1>3 DEF ThreadInv
<1> QED
  BY <1>2, <1>3

(* The thread that returns, and every other, respects its request.         *)
LEMMA ReturnThread ==
  ASSUME SgwTypeOK, NEW t \in S11Threads, Return(t),
         \A u \in S11Threads : ThreadInv(u)
  PROVE  \A u \in S11Threads : ThreadInv(u)'
<1>1. \A u \in S11Threads : sgw_th'[u] = IF u = t THEN Idle ELSE sgw_th[u]
  BY DEF Return, SgwTypeOK
<1> SUFFICES ASSUME NEW u \in S11Threads PROVE ThreadInv(u)'
  OBVIOUS
<1>2. CASE u = t
  <2>1. sgw_th'[u] = Idle
    BY <1>1, <1>2
  <2>2. Idle.pc = "idle" /\ Idle.req.op = "none"
    BY Zenon DEF Idle, NoReq
  <2> QED
    BY <2>1, <2>2 DEF ThreadInv, CreatePc, LookupOp, S11Op
<1>3. CASE u # t
  BY <1>1, <1>3 DEF ThreadInv
<1> QED
  BY <1>2, <1>3

(* A thread that takes a request with the imsi of its TEID respects it.    *)
LEMMA TakeThread ==
  ASSUME SgwTypeOK, NEW t \in S11Threads, NEW d, NEW pc, NEW i, NEW x, Take(t, d, pc, i, x),
         \A u \in S11Threads : ThreadInv(u),
         pc \in CreatePc => i \in {0, x},
         d.op \in LookupOp => i \in {0, d.teid}
  PROVE  \A u \in S11Threads : ThreadInv(u)'
<1>1. \A u \in S11Threads :
        sgw_th'[u] = IF u = t THEN [pc |-> pc, req |-> d, imsi |-> i, teid |-> x]
                              ELSE sgw_th[u]
  BY DEF Take, SgwTypeOK
<1> SUFFICES ASSUME NEW u \in S11Threads PROVE ThreadInv(u)'
  OBVIOUS
<1>2. CASE u = t
  BY <1>1, <1>2 DEF ThreadInv
<1>3. CASE u # t
  BY <1>1, <1>3 DEF ThreadInv
<1> QED
  BY <1>2, <1>3

(* No step of a thread disturbs the isolation: one case for each action.   *)
LEMMA StepIsolation ==
  ASSUME IsolationInv, NEW t \in S11Threads, SgwStep(t)
  PROVE  IsolationInv'
<1> USE DEF IsolationInv, TypeInv, At
<1>t. TypeInv'
  BY StepType
<1>b. sgw_th[t].pc # "idle" => /\ sgw_th[t].imsi \in Imsi /\ sgw_th[t].teid \in Imsi
                               /\ sgw_th[t].req \in S11Req
  BY Busy
<1>1. CASE SgwCreateSession(t)
  <2>1. PICK d \in s11 : /\ d.op = "create"
                         /\ Take(t, d, "add_s1", d.imsi, d.arg)
                         /\ update_itfid("s11", d.arg, d.imsi)
    BY <1>1 DEF SgwCreateSession
  <2>2. d.imsi \in Imsi /\ d.arg \in Teid /\ d.imsi \in {0, d.arg}
    BY <2>1 DEF S11Req, S11Any
  <2>3. IdInv'
    BY <2>1, <2>2, UpdateIsolation DEF Itf
  <2>4. \A u \in S11Threads : ThreadInv(u)'
    BY <2>1, <2>2, TakeThread DEF LookupOp
  <2> QED
    BY <1>1, <1>t, <2>3, <2>4 DEF SgwCreateSession
<1>2. CASE SgwCreateItf(t)
  <2>1. PICK itf \in {"s1", "s5"} :
          /\ At(t, IF itf = "s1" THEN "add_s1" ELSE "add_s5")
          /\ update_itfid(itf, sgw_th[t].teid, sgw_th[t].imsi)
          /\ Continue(t, IF itf = "s1" THEN "add_s5" ELSE "init")
    BY <1>2 DEF SgwCreateItf
  <2>2. sgw_th[t].imsi \in {0, sgw_th[t].teid}
    BY <2>1 DEF ThreadInv, CreatePc
  <2>5. itf \in Itf /\ sgw_th[t].imsi \in Imsi /\ sgw_th[t].teid \in Teid
    BY <1>b, <2>1, ImsiTeid DEF Itf
  <2>3. IdInv'
    BY <2>1, <2>2, <2>5, UpdateIsolation
  <2>4. \A u \in S11Threads : ThreadInv(u)'
    BY <2>1, <2>2, GotoThread DEF Continue
  <2> QED
    BY <1>2, <1>t, <2>3, <2>4 DEF SgwCreateItf
<1>3. CASE SgwCreateCtx(t)
  <2>1. sgw_th[t].imsi \in {0, sgw_th[t].teid}
    BY <1>3 DEF SgwCreateCtx, ThreadInv, CreatePc
  <2>2. \A u \in S11Threads : ThreadInv(u)'
    BY <1>3, <2>1, GotoThread DEF SgwCreateCtx, Continue
  <2> QED
    BY <1>3, <1>t, <2>2 DEF SgwCreateCtx, IdInv
<1>4. CASE SgwCreateRsp(t) \/ SgwCreateTimeout(t)
  <2>1. PICK x, y : SgwCreateFinish(t, x, y)
    BY <1>4 DEF SgwCreateRsp, SgwCreateTimeout
  <2>3. \A u \in S11Threads : ThreadInv(u)'
    BY <2>1, ReturnThread DEF SgwCreateFinish
  <2> QED
    BY <1>t, <2>1, <2>3 DEF SgwCreateFinish, IdInv
<1>6. CASE SgwLookup(t)
  <2>1. PICK d \in s11 : /\ d.op \in LookupOp
                         /\ Take(t, d, d.op, get_imsi("s11", d.teid), 0)
    BY <1>6 DEF SgwLookup
  <2>2. get_imsi("s11", d.teid) \in {0, d.teid}
    BY DEF IdInv, get_imsi, S11Req, S11Any
  <2>3. d.op \notin CreatePc /\ d.op # "ho_add"
    BY <2>1 DEF LookupOp, S11Op, CreatePc
  <2>4. \A u \in S11Threads : ThreadInv(u)'
    BY <2>1, <2>2, <2>3, TakeThread
  <2> QED
    BY <1>6, <1>t, <2>4 DEF SgwLookup, IdInv
<1>7. CASE SgwModifyBearer(t)
  <2>2. \A u \in S11Threads : ThreadInv(u)'
    BY <1>7, ReturnThread DEF SgwModifyBearer
  <2> QED
    BY <1>7, <1>t, <2>2 DEF SgwModifyBearer, IdInv
<1>8. CASE SgwExit(t)
  BY <1>8, <1>t DEF SgwExit, IdInv, ThreadInv
<1>9. CASE SgwHoSetup(t)
  <2>1. \A u \in S11Threads : ThreadInv(u)'
    BY <1>9, GotoThread DEF SgwHoSetup, CreatePc
  <2> QED
    BY <1>9, <1>t, <2>1 DEF SgwHoSetup, IdInv
<1>10. CASE SgwHoAdd(t)
  <2>1. sgw_th[t].teid \in Imsi /\ sgw_th[t].imsi \in Imsi
    BY <1>10, <1>b DEF SgwHoAdd
  <2>2. sgw_th[t].teid + 1 \in Teid
    BY <2>1, ImsiTeid
  <2>3. IdInv'
    BY <1>10, <2>1, <2>2, UpdateIsolation DEF SgwHoAdd, IndirectTeid, Itf
  <2>4. \A u \in S11Threads : ThreadInv(u)'
    BY <1>10, ReturnThread DEF SgwHoAdd
  <2> QED
    BY <1>10, <1>t, <2>3, <2>4 DEF SgwHoAdd, IndirectTeid
<1>11. CASE SgwHoCompletion(t)
  <2>2. \A u \in S11Threads : ThreadInv(u)'
    BY <1>11, GotoThread DEF SgwHoCompletion, Continue, CreatePc
  <2> QED
    BY <1>11, <1>t, <2>2 DEF SgwHoCompletion, IdInv
<1>12. CASE SgwHoErase(t)
  <2>1. \A u \in S11Threads : ThreadInv(u)'
    BY <1>12, ReturnThread DEF SgwHoErase
  <2> QED
    BY <1>12, <1>t, <2>1 DEF SgwHoErase, IdInv
<1>13. CASE SgwTeardown(t)
  <2>1. sgw_th[t].imsi \in Imsi /\ sgw_th[t].req.arg \in Teid
    BY <1>13, <1>b DEF SgwTeardown, S11Req, S11Any
  <2>2. IdInv'
    BY <1>13, <2>1, UpdateIsolation DEF SgwTeardown, Itf
  <2>4. \A u \in S11Threads : ThreadInv(u)'
    BY <1>13, ReturnThread DEF SgwTeardown
  <2> QED
    BY <1>t, <2>2, <2>4
<1>14. CASE SgwDetach(t)
  <2>1. \A u \in S11Threads : ThreadInv(u)'
    BY <1>14, GotoThread DEF SgwDetach, CreatePc
  <2> QED
    BY <1>14, <1>t, <2>1 DEF SgwDetach, IdInv
<1>15. CASE SgwDetachRsp(t) \/ SgwDetachTimeout(t)
  <2>1. \/ At(t, "wait_detach") /\ Continue(t, "rem_s11")
        \/ Return(t)
    BY <1>15 DEF SgwDetachRsp, SgwDetachTimeout
  <2>2. \A u \in S11Threads : ThreadInv(u)'
    BY <2>1, GotoThread, ReturnThread DEF Continue, CreatePc
  <2>3. UNCHANGED <<sgw_id, sgw_ctx>>
    BY <1>15 DEF SgwDetachRsp, SgwDetachTimeout
  <2> QED
    BY <1>t, <2>2, <2>3 DEF IdInv
<1>17. CASE SgwDetachItf(t)
  <2>1. PICK step \in {<<"s11", "rem_s11", "rem_s1">>, <<"s1", "rem_s1", "rem_s5">>,
                       <<"s5", "rem_s5", "rem_ctx">>} :
          /\ At(t, step[2])
          /\ rem_itfid(step[1], sgw_th[t].teid)
          /\ Continue(t, step[3])
    BY <1>17 DEF SgwDetachItf
  <2>2. /\ step[1] \in Itf /\ step[2] # "idle"
        /\ step[3] \notin CreatePc /\ step[3] # "ho_add"
    BY DEF Itf, CreatePc
  <2>3. IdInv'
    BY <1>b, <2>1, <2>2, UpdateIsolation, ImsiTeid
  <2>4. \A u \in S11Threads : ThreadInv(u)'
    BY <2>1, <2>2, GotoThread DEF Continue
  <2> QED
    BY <1>17, <1>t, <2>3, <2>4 DEF SgwDetachItf
<1>18. CASE SgwDetachCtx(t)
  <2>2. \A u \in S11Threads : ThreadInv(u)'
    BY <1>18, ReturnThread DEF SgwDetachCtx
  <2> QED
    BY <1>18, <1>t, <2>2 DEF SgwDetachCtx, IdInv
<1> QED
  BY <1>1, <1>2, <1>3, <1>4, <1>6, <1>7, <1>8, <1>9, <1>10, <1>11,
     <1>12, <1>13, <1>14, <1>15, <1>17, <1>18 DEF SgwStep

(* No step of the gateway or of its environment disturbs the isolation.    *)
LEMMA NextIsolation == IsolationInv /\ [SgwNext]_sgwVars => IsolationInv'
<1> SUFFICES ASSUME IsolationInv, [SgwNext]_sgwVars
             PROVE  IsolationInv'
  OBVIOUS
<1>1. TypeInv'
  BY NextType DEF IsolationInv
<1>2. ASSUME NEW t \in S11Threads, SgwStep(t)
      PROVE  IsolationInv'
  BY <1>2, StepIsolation
<1>3. CASE SgwEnv \/ UNCHANGED sgwVars
  BY <1>1, <1>3 DEF SgwEnv, sgwVars, sgwOwn, IsolationInv, IdInv, ThreadInv
<1> QED
  BY <1>2, <1>3 DEF SgwNext

LEMMA IsolationInvariant == SgwSpec => []IsolationInv
BY InitIsolation, NextIsolation, PTL DEF SgwSpec

(* A handler of a request that names a session by its TEID works on that   *)
(* session's subscriber or on none until it returns, although the tables   *)
(* change under it (get_imsi and what follows it in each handler).         *)
THEOREM SgwHandlerIsolation == SgwSpec => []HandlerIsolation
<1>1. IsolationInv => HandlerIsolation
  BY DEF IsolationInv, ThreadInv, HandlerIsolation
<1> QED
  BY <1>1, IsolationInvariant, PTL

(* A step leaves a subscriber's TEIDs to that subscriber unless it enters  *)
(* an indirect tunnel under the TEID of another: one case for each action  *)
(* that writes a table.                                                    *)
LEMMA StepUes ==
  ASSUME IsolationInv, UeIsolation, NEW t \in S11Threads, SgwStep(t),
         At(t, "ho_add") => sgw_th[t].imsi = 0 \/ IndirectTeid(sgw_th[t].teid) \notin UEs
  PROVE  UeIsolation'
<1> USE DEF IsolationInv, TypeInv, At
<1>b. sgw_th[t].pc # "idle" => /\ sgw_th[t].imsi \in Imsi /\ sgw_th[t].teid \in Imsi
                               /\ sgw_th[t].req \in S11Req
  BY Busy
<1>1. CASE SgwCreateSession(t)
  <2>1. PICK d \in s11 : /\ d.op = "create"
                         /\ update_itfid("s11", d.arg, d.imsi)
    BY <1>1 DEF SgwCreateSession
  <2>2. d.imsi \in Imsi /\ d.arg \in Teid /\ d.imsi \in {0, d.arg}
    BY <2>1 DEF S11Req, S11Any
  <2> QED
    BY <2>1, <2>2, UpdateUes DEF Itf
<1>2. CASE SgwCreateItf(t)
  <2>1. PICK itf \in {"s1", "s5"} :
          /\ At(t, IF itf = "s1" THEN "add_s1" ELSE "add_s5")
          /\ update_itfid(itf, sgw_th[t].teid, sgw_th[t].imsi)
    BY <1>2 DEF SgwCreateItf
  <2>2. sgw_th[t].imsi \in {0, sgw_th[t].teid}
    BY <2>1 DEF ThreadInv, CreatePc
  <2> QED
    BY <1>b, <2>1, <2>2, UpdateUes, ImsiTeid DEF Itf
<1>3. CASE SgwHoAdd(t)
  <2>1. /\ sgw_th[t].teid + 1 \in Teid /\ sgw_th[t].imsi \in Imsi
        /\ sgw_th[t].imsi = 0 \/ sgw_th[t].teid + 1 \notin UEs
    BY <1>3, <1>b, ImsiTeid DEF SgwHoAdd, IndirectTeid
  <2> QED
    BY <1>3, <2>1, UpdateUes DEF SgwHoAdd, IndirectTeid, Itf
<1>4. CASE SgwTeardown(t)
  <2>1. sgw_th[t].req.arg \in Teid
    BY <1>4, <1>b DEF SgwTeardown, S11Req, S11Any
  <2> QED
    BY <1>4, <2>1, UpdateUes, ImsiTeid DEF SgwTeardown, Itf
<1>5. CASE SgwDetachItf(t)
  <2>1. PICK step \in {<<"s11", "rem_s11", "rem_s1">>, <<"s1", "rem_s1", "rem_s5">>,
                       <<"s5", "rem_s5", "rem_ctx">>} :
          At(t, step[2]) /\ rem_itfid(step[1], sgw_th[t].teid)
    BY <1>5 DEF SgwDetachItf
  <2>2. step[1] \in Itf /\ step[2] # "idle"
    BY DEF Itf
  <2> QED
    BY <1>b, <2>1, <2>2, UpdateUes, ImsiTeid
<1>6. CASE UNCHANGED sgw_id
  BY <1>6 DEF UeIsolation
<1> QED
  BY <1>1, <1>2, <1>3, <1>4, <1>5, <1>6
  DEF SgwStep, SgwCreateCtx, SgwCreateRsp, SgwCreateTimeout, SgwCreateFinish, SgwLookup,
      SgwModifyBearer, SgwExit, SgwHoSetup, SgwHoCompletion, SgwHoErase, SgwDetach,
      SgwDetachRsp, SgwDetachTimeout, SgwDetachCtx

(* No subscriber's number follows another's: then no TEID of a subscriber  *)
(* ever resolves to another, whatever the MME and the PGW send and however *)
(* the S11 threads interleave (update_itfid, handle_indirect_tunnel_setup).*)
THEOREM SgwUeIsolation == ASSUME Spaced PROVE SgwSpec => []UeIsolation
<1>1. GtpInit /\ SgwInit => UeIsolation
  BY InitIsolation
<1>2. IsolationInv /\ UeIsolation /\ [SgwNext]_sgwVars => UeIsolation'
  <2> SUFFICES ASSUME IsolationInv, UeIsolation, [SgwNext]_sgwVars
               PROVE  UeIsolation'
    OBVIOUS
  <2>1. ASSUME NEW t \in S11Threads, SgwStep(t) PROVE UeIsolation'
    <3>1. At(t, "ho_add") => sgw_th[t].teid \in Imsi
      BY Busy DEF At, IsolationInv, TypeInv
    <3> QED
      BY <2>1, <3>1, StepUes DEF Spaced, IndirectTeid
  <2>2. CASE SgwEnv \/ UNCHANGED sgwVars
    BY <2>2 DEF SgwEnv, sgwVars, sgwOwn, UeIsolation
  <2> QED
    BY <2>1, <2>2 DEF SgwNext
<1> QED
  BY <1>1, <1>2, IsolationInvariant, PTL DEF SgwSpec
-----------------------------------------------------------------------------
(* The packet gateway, for every number of S5 threads and every            *)
(* MAX_UE_COUNT.  Types.                                                   *)

PgwTypeInv == PgwTypeOK /\ s5 \subseteq S5Req

(* What set_ip_addrs keeps for a subscriber names it, or nobody.           *)
LEMMA OwnAddress ==
  /\ Imsi \subseteq Nat /\ Imsi \subseteq Teid /\ 0 \in Imsi /\ 0 \in Teid
  /\ UEs \subseteq Imsi /\ 0 \notin UEs
  /\ \A i \in Imsi : ip_addrs[i] \in Imsi /\ ip_addrs[i] \in {0, i}
<1>1. /\ Imsi \subseteq Nat /\ Imsi \subseteq Teid /\ 0 \in Imsi /\ 0 \in Teid
      /\ UEs \subseteq Imsi /\ 0 \notin UEs
  BY UEsAssumption DEF Imsi, Teid
<1>2. ASSUME NEW i \in Imsi
      PROVE  ip_addrs[i] \in {0, i}
  BY MaxUeCountAssumption DEF ip_addrs
<1> QED
  BY <1>1, <1>2

(* What a well-formed request carries.                                     *)
LEMMA RequestType ==
  ASSUME NEW q \in S5Req
  PROVE  /\ q.imsi \in Imsi /\ q.teid \in Teid /\ ip_addrs[q.imsi] \in Imsi
         /\ q.op = "create" => q.teid \in UEs /\ q.imsi \in {0, q.teid}
BY OwnAddress DEF S5Req, S5Any

(* The initial state is well typed.                                        *)
LEMMA PgwInitType == GtpInit /\ PgwInit => PgwTypeInv
BY OwnAddress
DEF GtpInit, PgwInit, PgwTypeInv, PgwTypeOK, NoPgwCtx, PgwCtx, PgwThread

(* A thread that is in a handler has a request, an IMSI, a TEID and an     *)
(* address.                                                                *)
LEMMA PgwBusy ==
  ASSUME PgwTypeOK, NEW t \in S5Threads, pgw_th[t].pc # "idle"
  PROVE  pgw_th[t] \in [pc : PgwPc, req : S5Req, imsi : Imsi, teid : Teid, ip : Imsi]
BY DEF PgwTypeOK, PgwThread, PgwIdle

(* Taking a datagram, moving on and returning keep the threads well typed. *)
LEMMA PgwTakeType ==
  ASSUME PgwTypeInv, NEW t \in S5Threads, NEW q \in s5, NEW pc \in PgwPc,
         NEW i \in Imsi, NEW x \in Teid, NEW a \in Imsi, PgwTake(t, q, pc, i, x, a)
  PROVE  pgw_th' \in [S5Threads -> PgwThread] /\ s5' \subseteq S5Req
BY DEF PgwTypeInv, PgwTypeOK, PgwThread, PgwTake

LEMMA PgwGotoType ==
  ASSUME PgwTypeOK, NEW t \in S5Threads, pgw_th[t].pc # "idle", NEW pc \in PgwPc,
         PgwGoto(t, pc)
  PROVE  pgw_th' \in [S5Threads -> PgwThread]
BY PgwBusy DEF PgwTypeOK, PgwThread, PgwGoto

LEMMA PgwReturnType ==
  ASSUME PgwTypeOK, NEW t \in S5Threads, PgwReturn(t)
  PROVE  pgw_th' \in [S5Threads -> PgwThread]
BY DEF PgwTypeOK, PgwThread, PgwReturn

(* No step of a thread disturbs the types.                                 *)
LEMMA PgwStepType ==
  ASSUME PgwTypeInv, NEW t \in S5Threads, PgwStep(t)
  PROVE  PgwTypeInv'
<1> USE DEF PgwTypeInv
<1>t. PgwTypeOK /\ s5 \subseteq S5Req
  OBVIOUS
<1>1. CASE PgwCreateSession(t)
  <2>1. PICK q \in s5 :
          /\ q.op = "create"
          /\ PgwTake(t, q, "sgi", q.imsi, q.teid, ip_addrs[q.imsi])
          /\ pgw_s5' = [pgw_s5 EXCEPT ![q.teid] = q.imsi]
    BY <1>1 DEF PgwCreateSession
  <2>2. q.imsi \in Imsi /\ q.teid \in Teid /\ ip_addrs[q.imsi] \in Imsi
    BY <1>t, RequestType
  <2>3. pgw_th' \in [S5Threads -> PgwThread] /\ s5' \subseteq S5Req
    BY <2>1, <2>2, PgwTakeType DEF PgwPc
  <2> QED
    BY <1>1, <2>1, <2>2, <2>3 DEF PgwCreateSession, PgwTypeOK
<1>2. CASE PgwCreateSgi(t)
  <2>1. pgw_th' \in [S5Threads -> PgwThread]
    BY <1>2, PgwGotoType DEF PgwCreateSgi, PgwPc
  <2>2. pgw_th[t].imsi \in Imsi
    BY <1>2, PgwBusy DEF PgwCreateSgi
  <2> QED
    BY <1>2, <2>1, <2>2 DEF PgwCreateSgi, PgwTypeOK, gtpVars
<1>3. CASE PgwCreateCtx(t)
  <2>1. pgw_th' \in [S5Threads -> PgwThread]
    BY <1>3, PgwReturnType DEF PgwCreateCtx
  <2>2. pgw_th[t].ip \in Imsi /\ pgw_th[t].teid \in Teid
    BY <1>3, PgwBusy DEF PgwCreateCtx
  <2> QED
    BY <1>3, <2>1, <2>2 DEF PgwCreateCtx, PgwTypeOK, PgwCtx
<1>4. CASE PgwDetach(t)
  <2>1. PICK q \in s5 : PgwTake(t, q, "answer", pgw_s5[q.teid], 0, 0)
    BY <1>4 DEF PgwDetach
  <2>2. pgw_s5[q.teid] \in Imsi
    BY <1>t, RequestType DEF PgwTypeOK
  <2>3. pgw_th' \in [S5Threads -> PgwThread] /\ s5' \subseteq S5Req
    BY <2>1, <2>2, PgwTakeType, OwnAddress DEF PgwPc
  <2> QED
    BY <1>4, <2>3 DEF PgwDetach, PgwTypeOK
<1>5. CASE PgwDetachAnswer(t)
  <2>1. pgw_th[t] \in [pc : PgwPc, req : S5Req, imsi : Imsi, teid : Teid, ip : Imsi]
    BY <1>5, PgwBusy DEF PgwDetachAnswer
  <2>2. pgw_ctx[pgw_th[t].imsi] \in PgwCtx
    BY <2>1 DEF PgwTypeOK
  <2>3. pgw_th' \in [S5Threads -> PgwThread]
    BY <1>5, <2>1, <2>2 DEF PgwDetachAnswer, PgwTypeOK, PgwThread, PgwPc, PgwCtx
  <2>4. pgw_ctx' \in [Imsi -> PgwCtx]
    BY <1>5, <2>2 DEF PgwDetachAnswer, PgwTypeOK, PgwCtx
  <2> QED
    BY <1>5, <2>3, <2>4 DEF PgwDetachAnswer, PgwTypeOK
<1>6. CASE PgwDetachS5(t)
  <2>1. pgw_th' \in [S5Threads -> PgwThread]
    BY <1>6, PgwGotoType DEF PgwDetachS5, PgwPc
  <2> QED
    BY <1>6, <2>1, OwnAddress DEF PgwDetachS5, PgwTypeOK, gtpVars
<1>7. CASE PgwDetachSgi(t)
  <2>1. pgw_th' \in [S5Threads -> PgwThread]
    BY <1>7, PgwGotoType DEF PgwDetachSgi, PgwPc
  <2> QED
    BY <1>7, <2>1, OwnAddress DEF PgwDetachSgi, PgwTypeOK, gtpVars
<1>8. CASE PgwDetachCtx(t)
  <2>1. pgw_th' \in [S5Threads -> PgwThread]
    BY <1>8, PgwReturnType DEF PgwDetachCtx
  <2>2. NoPgwCtx \in PgwCtx
    BY OwnAddress DEF NoPgwCtx, PgwCtx
  <2> QED
    BY <1>8, <2>1, <2>2 DEF PgwDetachCtx, PgwTypeOK, gtpVars
<1> QED
  BY <1>1, <1>2, <1>3, <1>4, <1>5, <1>6, <1>7, <1>8 DEF PgwStep

(* Types hold in every state of the gateway.                               *)
THEOREM PgwTypes == PgwSpec => [](PgwTypeOK /\ s5 \subseteq S5Req)
<1>1. GtpInit /\ PgwInit => PgwTypeInv
  BY PgwInitType
<1>2. PgwTypeInv /\ [PgwNext]_pgwVars => PgwTypeInv'
  <2> SUFFICES ASSUME PgwTypeInv, [PgwNext]_pgwVars
               PROVE  PgwTypeInv'
    OBVIOUS
  <2>1. CASE PgwEnv
    BY <2>1 DEF PgwEnv, PgwTypeInv, PgwTypeOK, pgwOwn
  <2>2. CASE \E t \in S5Threads : PgwStep(t)
    BY <2>2, PgwStepType
  <2>3. CASE UNCHANGED pgwVars
    BY <2>3 DEF PgwTypeInv, PgwTypeOK, pgwVars, pgwOwn, gtpVars
  <2> QED
    BY <2>1, <2>2, <2>3 DEF PgwNext
<1> QED
  BY <1>1, <1>2, PTL DEF PgwSpec, PgwTypeInv
-----------------------------------------------------------------------------
(* Isolation.  PgwIsolation is not inductive: between the critical         *)
(* sections of a create the thread alone knows the subscriber, its TEID    *)
(* and its address.                                                        *)

Making(t) == pgw_th[t].pc \in {"sgi", "ctx"}

ThreadOwn ==
  \A t \in S5Threads :
    Making(t) => /\ pgw_th[t].teid \in UEs
                 /\ pgw_th[t].imsi \in {0, pgw_th[t].teid}
                 /\ pgw_th[t].ip \in {0, pgw_th[t].imsi}

PgwInv == PgwTypeInv /\ ThreadOwn /\ PgwIsolation

(* Nothing is in the tables when the gateway starts.                       *)
LEMMA PgwInitIsolated == GtpInit /\ PgwInit => PgwInv
BY PgwInitType, OwnAddress
DEF PgwInit, PgwInv, ThreadOwn, Making, PgwIdle, PgwIsolation, NoPgwCtx

(* The TEID that the SGW sends in a create is the subscriber's own, and    *)
(* so is the address the PGW gives it.                                     *)
LEMMA ThreadStep ==
  ASSUME PgwInv, NEW t \in S5Threads, PgwStep(t)
  PROVE  ThreadOwn'
<1> USE DEF PgwInv
<1>t. PgwTypeOK /\ s5 \subseteq S5Req /\ ThreadOwn
  BY DEF PgwTypeInv
<1>d. pgw_th \in [S5Threads -> PgwThread]
  BY <1>t DEF PgwTypeOK
<1>1. CASE PgwCreateSession(t)
  <2>1. PICK q \in s5 :
          /\ q.op = "create"
          /\ PgwTake(t, q, "sgi", q.imsi, q.teid, ip_addrs[q.imsi])
    BY <1>1 DEF PgwCreateSession
  <2>2. q.teid \in UEs /\ q.imsi \in {0, q.teid} /\ ip_addrs[q.imsi] \in {0, q.imsi}
    BY <1>t, <2>1, RequestType, OwnAddress
  <2> QED
    BY <1>t, <1>d, <2>1, <2>2 DEF ThreadOwn, Making, PgwTake
<1>2. CASE PgwCreateSgi(t)
  BY <1>t, <1>d, <1>2 DEF PgwCreateSgi, PgwGoto, ThreadOwn, Making
<1>3. CASE PgwCreateCtx(t)
  BY <1>t, <1>d, <1>3 DEF PgwCreateCtx, PgwReturn, PgwIdle, ThreadOwn, Making
<1>4. CASE PgwDetach(t)
  <2>1. PICK q \in s5 : PgwTake(t, q, "answer", pgw_s5[q.teid], 0, 0)
    BY <1>4 DEF PgwDetach
  <2> QED
    BY <1>t, <1>d, <2>1 DEF ThreadOwn, Making, PgwTake
<1>5. CASE PgwDetachAnswer(t)
  <2>1. /\ pgw_th'[t].pc = "rem_s5"
        /\ \A u \in S5Threads \ {t} : pgw_th'[u] = pgw_th[u]
    BY <1>d, <1>5 DEF PgwDetachAnswer
  <2> QED
    BY <1>t, <2>1 DEF ThreadOwn, Making
<1>6. CASE PgwDetachS5(t)
  BY <1>t, <1>d, <1>6 DEF PgwDetachS5, PgwGoto, ThreadOwn, Making
<1>7. CASE PgwDetachSgi(t)
  BY <1>t, <1>d, <1>7 DEF PgwDetachSgi, PgwGoto, ThreadOwn, Making
<1>8. CASE PgwDetachCtx(t)
  BY <1>t, <1>d, <1>8 DEF PgwDetachCtx, PgwReturn, PgwIdle, ThreadOwn, Making
<1> QED
  BY <1>1, <1>2, <1>3, <1>4, <1>5, <1>6, <1>7, <1>8 DEF PgwStep

(* Whatever a thread writes into a subscriber's entry is the subscriber's. *)
LEMMA IsolationStep ==
  ASSUME PgwInv, NEW t \in S5Threads, PgwStep(t)
  PROVE  PgwIsolation'
<1> USE DEF PgwInv
<1>t. PgwTypeOK /\ s5 \subseteq S5Req /\ ThreadOwn /\ PgwIsolation
  BY DEF PgwTypeInv
<1>d. /\ pgw_s5 \in [Teid -> Imsi] /\ pgw_sgi \in [Imsi -> Imsi]
      /\ pgw_ctx \in [Imsi -> PgwCtx]
      /\ UEs \subseteq Teid /\ UEs \subseteq Imsi /\ 0 \notin UEs
  BY <1>t, OwnAddress DEF PgwTypeOK
<1>1. CASE PgwCreateSession(t)
  <2>1. PICK q \in s5 :
          /\ q.op = "create"
          /\ pgw_s5' = [pgw_s5 EXCEPT ![q.teid] = q.imsi]
    BY <1>1 DEF PgwCreateSession
  <2>2. q.imsi \in {0, q.teid}
    BY <1>t, <2>1, RequestType
  <2> QED
    BY <1>t, <1>d, <1>1, <2>1, <2>2 DEF PgwCreateSession, PgwIsolation
<1>2. CASE PgwCreateSgi(t)
  <2>1. pgw_th[t].ip \in {0, pgw_th[t].imsi}
    BY <1>t, <1>2 DEF PgwCreateSgi, ThreadOwn, Making
  <2> QED
    BY <1>t, <1>d, <1>2, <2>1 DEF PgwCreateSgi, PgwIsolation
<1>3. CASE PgwCreateCtx(t)
  <2>1. /\ pgw_th[t].ip \in {0, pgw_th[t].imsi}
        /\ pgw_th[t].imsi \in {0, pgw_th[t].teid}
    BY <1>t, <1>3 DEF PgwCreateCtx, ThreadOwn, Making
  <2> QED
    BY <1>t, <1>d, <1>3, <2>1 DEF PgwCreateCtx, PgwIsolation, PgwCtx
<1>4. CASE PgwDetach(t)
  BY <1>t, <1>4 DEF PgwDetach, PgwIsolation
<1>5. CASE PgwDetachAnswer(t)
  <2>1. \A n \in UEs : /\ pgw_ctx'[n].ip = pgw_ctx[n].ip
                       /\ pgw_ctx'[n].teid = pgw_ctx[n].teid
    BY <1>d, <1>5 DEF PgwDetachAnswer, PgwCtx
  <2> QED
    BY <1>t, <1>5, <2>1 DEF PgwDetachAnswer, PgwIsolation
<1>6. CASE PgwDetachS5(t)
  BY <1>t, <1>d, <1>6 DEF PgwDetachS5, PgwIsolation
<1>7. CASE PgwDetachSgi(t)
  BY <1>t, <1>d, <1>7 DEF PgwDetachSgi, PgwIsolation
<1>8. CASE PgwDetachCtx(t)
  BY <1>t, <1>d, <1>8 DEF PgwDetachCtx, PgwIsolation, NoPgwCtx, PgwCtx
<1> QED
  BY <1>1, <1>2, <1>3, <1>4, <1>5, <1>6, <1>7, <1>8 DEF PgwStep

(* PgwIsolation holds in every state: no interleaving of creates and       *)
(* detaches of the S5 threads, with any requests of the serving gateway,   *)
(* puts one subscriber's IMSI, address or TEID into another's entry.       *)
THEOREM PgwIsolated == PgwSpec => []PgwIsolation
<1>1. GtpInit /\ PgwInit => PgwInv
  BY PgwInitIsolated
<1>2. PgwInv /\ [PgwNext]_pgwVars => PgwInv'
  <2> SUFFICES ASSUME PgwInv, [PgwNext]_pgwVars
               PROVE  PgwInv'
    OBVIOUS
  <2>1. CASE PgwEnv
    BY <2>1 DEF PgwEnv, PgwInv, PgwTypeInv, PgwTypeOK, pgwOwn, ThreadOwn, Making,
                PgwIsolation
  <2>2. CASE \E t \in S5Threads : PgwStep(t)
    <3>1. PICK t \in S5Threads : PgwStep(t)
      BY <2>2
    <3>2. PgwTypeInv'
      BY <3>1, PgwStepType DEF PgwInv
    <3> QED
      BY <3>1, <3>2, ThreadStep, IsolationStep DEF PgwInv
  <2>3. CASE UNCHANGED pgwVars
    BY <2>3 DEF PgwInv, PgwTypeInv, PgwTypeOK, pgwVars, pgwOwn, gtpVars, ThreadOwn,
                Making, PgwIsolation
  <2> QED
    BY <2>1, <2>2, <2>3 DEF PgwNext
<1>3. PgwInv => PgwIsolation
  BY DEF PgwInv
<1> QED
  BY <1>1, <1>2, <1>3, PTL DEF PgwSpec
=============================================================================
