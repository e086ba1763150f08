----------------------------- MODULE EpcProofs -----------------------------
(***************************************************************************)
(* Proofs about the five programs together, for every set of subscribers   *)
(* and every number of threads, ids, attaches and timeouts: their types,   *)
(* and that each gateway, among the others, behaves as the specification   *)
(* says under which GatewayProofs looks at it alone.                       *)
(***************************************************************************)
EXTENDS Epc, GatewayProofs, MmeProofs

-----------------------------------------------------------------------------
(* A thread of the serving gateway that makes a session has its TEID, and  *)
(* its IMSI or none: so what it asks the PGW is well formed.               *)
SgwMaking ==
  \A t \in S11Threads :
    sgw_th[t].pc \in CreatePc =>
      sgw_th[t].teid \in UEs /\ sgw_th[t].imsi \in {0, sgw_th[t].teid}

EpcTypeInv == EpcTypeOK /\ CtxOwn /\ SgwMaking

(* The RAN.                                                                *)

LEMMA SendType ==
  ASSUME SctpTypeOK, NEW c \in Conn, NEW t \in {1, 2, 3, 4, 5, 7, 8, 9, 10},
         NEW id \in UeId, NEW arg \in Teid, t \in {1, 5, 7} => arg \in Imsi,
         Send(c, t, id, arg)
  PROVE  up' \in [Conn -> Seq(Up)]
<1> DEFINE m == [t |-> t, id |-> id, arg |-> arg]
<1>1. m \in Up
  BY DEF Up, UpAny
<1>2. up[c] \in Seq(Up)
  BY DEF SctpTypeOK
<1>3. Append(up[c], m) \in Seq(Up)
  BY <1>1, <1>2, AppendProperties
<1> QED
  BY <1>3 DEF Send, SctpTypeOK

LEMMA RcvType ==
  ASSUME SctpTypeOK, NEW n \in UEs, Rcv(n)
  PROVE  /\ down' \in [Conn -> Seq(Down)]
         /\ Head(down[n]).id \in UeId /\ Head(down[n]).arg \in Teid
         /\ Head(down[n]).guti \in Imsi /\ Head(down[n]).ip \in Imsi
<1>1. down[n] \in Seq(Down) /\ down[n] # <<>>
  BY MmeIdentifiers DEF SctpTypeOK, Rcv
<1>2. Head(down[n]) \in Down /\ Tail(down[n]) \in Seq(Down)
  BY <1>1, HeadTailProperties
<1>3. down' \in [Conn -> Seq(Down)]
  BY <1>2 DEF Rcv, SctpTypeOK
<1> QED
  BY <1>2, <1>3 DEF Down

LEMMA RanUeType ==
  ASSUME SctpTypeOK, RanTypeOK, NEW n \in UEs, RanUeStep(n)
  PROVE  SctpTypeOK' /\ RanTypeOK'
<1>n. /\ n \in Conn /\ n \in Imsi /\ n \in Teid /\ 0 \in Imsi /\ 0 \in Teid /\ 0 \in UeId
      /\ Imsi \subseteq Teid
  BY MmeIdentifiers
<1>r. ran[n] \in RanCtx /\ ran \in [UEs -> RanCtx]
  BY DEF RanTypeOK
<1>1. CASE RanInitialAttach(n)
  <2>1. up' \in [Conn -> Seq(Up)]
    BY <1>1, <1>n, SendType DEF RanInitialAttach
  <2>2. attaches' \in [UEs -> 0 .. MaxAttaches]
    BY <1>1, MaxAttachesAssumption DEF RanInitialAttach, RanTypeOK
  <2>3. ran' \in [UEs -> RanCtx]
    BY <1>1, <1>r DEF RanInitialAttach, RanCtx, RanPc
  <2> QED
    BY <1>1, <2>1, <2>2, <2>3 DEF RanInitialAttach, SctpTypeOK, RanTypeOK
<1>2. CASE RanAuthenticate(n)
  <2>1. /\ down' \in [Conn -> Seq(Down)] /\ Head(down[n]).id \in UeId
    BY <1>2, RcvType DEF RanAuthenticate
  <2>2. up' \in [Conn -> Seq(Up)]
    <3>1. CASE Send(n, 2, Head(down[n]).id, n)
      BY <1>n, <2>1, <3>1, SendType
    <3>2. CASE UNCHANGED up
      BY <3>2 DEF SctpTypeOK
    <3> QED
      BY <1>2, <3>1, <3>2 DEF RanAuthenticate
  <2>3. ran' \in [UEs -> RanCtx]
    <3> DEFINE pc == IF Head(down[n]).arg = n \/ n = HoUE THEN "sec" ELSE "off"
    <3>1. ran' = [ran EXCEPT ![n].id = Head(down[n]).id, ![n].pc = pc]
      BY <1>2 DEF RanAuthenticate
    <3>2. pc \in RanPc
      BY DEF RanPc
    <3> HIDE DEF pc
    <3> QED
      BY <1>r, <2>1, <3>1, <3>2 DEF RanCtx
  <2> QED
    BY <1>2, <2>1, <2>2, <2>3 DEF RanAuthenticate, SctpTypeOK, RanTypeOK
<1>3. CASE RanSetSecurity(n)
  <2>1. up' \in [Conn -> Seq(Up)]
    BY <1>3, <1>n, <1>r, SendType DEF RanSetSecurity, RanCtx
  <2>2. ran' \in [UEs -> RanCtx]
    BY <1>3, <1>r DEF RanSetSecurity, RanCtx, RanPc
  <2> QED
    BY <1>3, <2>1, <2>2, RcvType DEF RanSetSecurity, SctpTypeOK, RanTypeOK
<1>4. CASE RanSetEpsSession(n)
  <2> DEFINE m == Head(down[n])
  <2>1. /\ down' \in [Conn -> Seq(Down)]
        /\ m.id \in UeId /\ m.arg \in Teid /\ m.guti \in Imsi /\ m.ip \in Imsi
    BY <1>4, RcvType DEF RanSetEpsSession
  <2>2. /\ Send(n, 4, ran[n].id, m.arg)
        /\ ran' = [ran EXCEPT ![n].pc = "attached", ![n].guti = m.guti,
                              ![n].ul = m.arg, ![n].dl = m.arg, ![n].ip = m.ip]
        /\ uplink_info' = [uplink_info EXCEPT ![m.ip] = m.arg]
        /\ UNCHANGED <<toRan, s6a, attaches, ranS, ranT>>
    BY <1>4 DEF RanSetEpsSession
  <2> HIDE DEF m
  <2>3. up' \in [Conn -> Seq(Up)]
    BY <1>n, <1>r, <2>1, <2>2, SendType DEF RanCtx
  <2>4. ran' \in [UEs -> RanCtx]
    BY <1>r, <2>1, <2>2 DEF RanCtx, RanPc
  <2>5. uplink_info' \in [Imsi -> Teid]
    BY <2>1, <2>2 DEF RanTypeOK
  <2> QED
    BY <2>1, <2>2, <2>3, <2>4, <2>5 DEF SctpTypeOK, RanTypeOK
<1>5. CASE RanDetach(n)
  <2>1. up' \in [Conn -> Seq(Up)]
    <3>1. ran[n].guti \in Imsi /\ ran[n].guti \in Teid /\ ran[n].id \in UeId
      BY <1>n, <1>r DEF RanCtx
    <3> QED
      BY <1>5, <1>n, <3>1, SendType DEF RanDetach
  <2>2. ran' \in [UEs -> RanCtx]
    BY <1>5, <1>r DEF RanDetach, RanCtx, RanPc
  <2> QED
    BY <1>5, <2>1, <2>2 DEF RanDetach, SctpTypeOK, RanTypeOK
<1>6. CASE RanDetached(n)
  <2>1. ran' \in [UEs -> RanCtx]
    BY <1>6, <1>r DEF RanDetached, RanCtx, RanPc
  <2> QED
    BY <1>6, <2>1, RcvType DEF RanDetached, SctpTypeOK, RanTypeOK
<1> QED
  BY <1>1, <1>2, <1>3, <1>4, <1>5, <1>6 DEF RanUeStep

LEMMA RanHoType ==
  ASSUME SctpTypeOK, RanTypeOK, RanHoStep
  PROVE  SctpTypeOK' /\ RanTypeOK'
<1>n. /\ UEs \subseteq Conn /\ 0 \in Conn /\ UEs \subseteq Imsi /\ UEs \subseteq Teid
      /\ 0 \in Imsi /\ 0 \in Teid /\ Imsi \subseteq Teid /\ 0 \in UeId
  BY MmeIdentifiers
<1>r. ran \in [UEs -> RanCtx] /\ ranS \in SourceEnb /\ ranT \in TargetEnb
  BY DEF RanTypeOK
<1>i. \A n \in UEs : ran[n].id \in UeId
  BY <1>r DEF RanCtx
<1>m. \A m \in toRan : m.id \in UeId /\ m.arg \in Teid /\ m.enb \in Imsi
  BY DEF SctpTypeOK, ToRan
<1>1. CASE RanInitiateHandover
  <2>1. PICK n \in UEs \cap {HoUE} :
          /\ ranS' = [ranS EXCEPT !.state = 1]
          /\ Send(n, 7, ran[n].id, n)
          /\ ran' = [ran EXCEPT ![n].pc = "ho"]
          /\ UNCHANGED <<down, toRan, s6a, attaches, ranT, uplink_info>>
    BY <1>1 DEF RanInitiateHandover
  <2>2. up' \in [Conn -> Seq(Up)]
    BY <1>n, <1>i, <2>1, SendType
  <2>3. ran' \in [UEs -> RanCtx]
    BY <1>r, <2>1 DEF RanCtx, RanPc
  <2>4. ranS' \in SourceEnb
    BY <1>r, <2>1 DEF SourceEnb
  <2> QED
    BY <2>1, <2>2, <2>3, <2>4 DEF SctpTypeOK, RanTypeOK
<1>2. CASE RanHandleHandover
  <2>1. PICK m \in toRan :
          /\ toRan' = toRan \ {m}
          /\ ranT' = [ranT EXCEPT !.state = 2, !.enb = m.enb, !.id = m.id, !.ul = m.arg,
                                  !.pc = "connect"]
          /\ UNCHANGED <<up, down, s6a, ran, attaches, ranS, uplink_info>>
    BY <1>2 DEF RanHandleHandover
  <2>2. ranT' \in TargetEnb
    BY <1>r, <1>m, <2>1 DEF TargetEnb
  <2> QED
    BY <2>1, <2>2 DEF SctpTypeOK, RanTypeOK
<1>3. CASE RanConnect
  <2>1. ranT' \in TargetEnb
    BY <1>r, <1>3 DEF RanConnect, TargetEnb
  <2> QED
    BY <1>3, <2>1 DEF RanConnect, sctpVars, SctpTypeOK, RanTypeOK
<1>4. CASE RanAckHandover
  <2>1. ranT.id \in UeId /\ ranT.enb \in Imsi /\ ranT.enb \in Teid
    BY <1>r, <1>n DEF TargetEnb
  <2>2. up' \in [Conn -> Seq(Up)]
    BY <1>4, <1>n, <2>1, SendType DEF RanAckHandover
  <2>3. ranT' \in TargetEnb
    BY <1>r, <1>4 DEF RanAckHandover, TargetEnb
  <2> QED
    BY <1>4, <2>2, <2>3 DEF RanAckHandover, SctpTypeOK, RanTypeOK
<1>5. CASE RanIndirectTunnelComplete
  <2>1. PICK m \in toRan :
          /\ toRan' = toRan \ {m}
          /\ ranS' = [state |-> 4, indirect |-> m.arg]
          /\ UNCHANGED <<up, down, s6a, ran, attaches, ranT, uplink_info>>
    BY <1>5 DEF RanIndirectTunnelComplete
  <2>2. ranS' \in SourceEnb
    BY <1>m, <2>1 DEF SourceEnb
  <2> QED
    BY <2>1, <2>2 DEF SctpTypeOK, RanTypeOK
<1>6. CASE RanCompleteHandover
  <2>1. PICK n \in UEs \cap {HoUE} :
          /\ Send(0, 9, ranT.id, 0) \/ UNCHANGED up
          /\ ran' = [ran EXCEPT ![n].pc = "end"]
          /\ UNCHANGED <<down, toRan, s6a, attaches, ranS, ranT, uplink_info>>
    BY <1>6 DEF RanCompleteHandover
  <2>2. ranT.id \in UeId
    BY <1>r DEF TargetEnb
  <2>3. ASSUME Send(0, 9, ranT.id, 0) PROVE up' \in [Conn -> Seq(Up)]
    BY <1>n, <2>2, <2>3, SendType
  <2>4. up' \in [Conn -> Seq(Up)]
    BY <2>1, <2>3 DEF SctpTypeOK
  <2>5. ran' \in [UEs -> RanCtx]
    BY <1>r, <2>1 DEF RanCtx, RanPc
  <2> QED
    BY <2>1, <2>4, <2>5 DEF SctpTypeOK, RanTypeOK
<1>7. CASE RanRequestTearDown
  <2>1. PICK m \in toRan, n \in UEs \cap {HoUE} :
          /\ toRan' = toRan \ {m}
          /\ Send(n, 10, ran[n].id, ranS.indirect)
          /\ ran' = [ran EXCEPT ![n].ul = 0]
          /\ UNCHANGED <<down, s6a, attaches, ranS, ranT, uplink_info>>
    BY <1>7 DEF RanRequestTearDown
  <2>2. up' \in [Conn -> Seq(Up)]
    BY <1>n, <1>r, <1>i, <2>1, SendType DEF SourceEnb
  <2>3. ran' \in [UEs -> RanCtx]
    BY <1>r, <1>n, <2>1 DEF RanCtx
  <2> QED
    BY <2>1, <2>2, <2>3 DEF SctpTypeOK, RanTypeOK
<1> QED
  BY <1>1, <1>2, <1>3, <1>4, <1>5, <1>6, <1>7 DEF RanHoStep
-----------------------------------------------------------------------------
(* The HSS.                                                                *)

LEMMA HssType ==
  ASSUME SctpTypeOK, HssTypeOK, NEW c \in Conn, HssStep(c)
  PROVE  SctpTypeOK' /\ HssTypeOK'
<1>n. UEs \subseteq Imsi /\ 0 \in Imsi
  BY MmeIdentifiers
<1>s. s6a \in [Conn -> S6a] /\ \A d \in Conn : s6a[d].x \in Imsi
  BY DEF SctpTypeOK, S6a
<1>1. CASE HssAutnInfo(c)
  <2>1. get_autn_info(s6a[c].x) \in Imsi
    BY <1>n, <1>s DEF get_autn_info
  <2>2. s6a' \in [Conn -> S6a]
    BY <1>1, <1>s, <2>1 DEF HssAutnInfo, S6a
  <2> QED
    BY <1>1, <2>2 DEF HssAutnInfo, hssOwn, SctpTypeOK, HssTypeOK
<1>2. CASE HssExit(c)
  <2>1. \A d \in Conn : Closed(s6a[d]) \in S6a
    BY <1>n, <1>s DEF Closed, S6a
  <2> QED
    BY <1>2, <2>1 DEF HssExit, SctpTypeOK, HssTypeOK
<1>3. CASE HssDeleteLoc(c)
  <2>1. s6a' \in [Conn -> S6a]
    BY <1>3, <1>s DEF HssDeleteLoc, S6a
  <2>2. loc_info' \in [Imsi -> 0 .. 2]
    BY <1>3, <1>s DEF HssDeleteLoc, HssTypeOK
  <2> QED
    BY <1>3, <2>1, <2>2 DEF HssDeleteLoc, SctpTypeOK, HssTypeOK
<1>4. CASE HssInsertLoc(c)
  <2>1. s6a' \in [Conn -> S6a]
    BY <1>4, <1>s DEF HssInsertLoc, S6a
  <2>2. loc_info' \in [Imsi -> 0 .. 2]
    BY <1>4, <1>s DEF HssInsertLoc, HssTypeOK
  <2> QED
    BY <1>4, <2>1, <2>2 DEF HssInsertLoc, SctpTypeOK, HssTypeOK
<1> QED
  BY <1>1, <1>2, <1>3, <1>4 DEF HssStep
-----------------------------------------------------------------------------
(* The gateways: what they send is well formed.                            *)

LEMMA AskPgwType ==
  ASSUME SgwTypeOK, s5 \subseteq S5Req, NEW t \in S11Threads,
         NEW op \in {"create", "detach"}, NEW x \in Teid, NEW i \in Imsi,
         op = "create" => x \in UEs /\ i \in {0, x},
         AskPgw(t, op, x, i)
  PROVE  s5' \subseteq S5Req
<1>1. S5Socket(t) \in S5Sock
  BY S5SockAssumption DEF SgwTypeOK, S5Socket
<1>2. [op |-> op, sock |-> S5Socket(t), teid |-> x, imsi |-> i] \in S5Req
  BY <1>1 DEF S5Req, S5Any
<1> QED
  BY <1>2 DEF AskPgw

LEMMA AnswerType ==
  ASSUME SgwTypeOK, s11r \subseteq S11Rsp, NEW t \in S11Threads, sgw_th[t].pc # "idle",
         NEW x \in Teid, NEW a \in Imsi, Answer(t, TRUE, x, a)
  PROVE  s11r' \subseteq S11Rsp
<1>1. sgw_th[t].req.op \in S11Op /\ sgw_th[t].req.sock \in S11Sock
  BY Busy DEF S11Req, S11Any
<1>2. [op |-> sgw_th[t].req.op, sock |-> sgw_th[t].req.sock, ok |-> TRUE, teid |-> x,
       ip |-> a] \in S11Rsp
  BY <1>1 DEF S11Rsp
<1> QED
  BY <1>2 DEF Answer

LEMMA GotoMaking ==
  ASSUME SgwTypeOK, SgwMaking, NEW t \in S11Threads, NEW pc, NEW i, NEW x,
         Goto(t, pc, i, x), pc \in CreatePc => x \in UEs /\ i \in {0, x}
  PROVE  SgwMaking'
BY DEF SgwTypeOK, SgwMaking, Goto

LEMMA ReturnMaking ==
  ASSUME SgwTypeOK, SgwMaking, NEW t \in S11Threads, Return(t)
  PROVE  SgwMaking'
BY DEF SgwTypeOK, SgwMaking, Return, Idle, CreatePc

LEMMA TakeMaking ==
  ASSUME SgwTypeOK, SgwMaking, NEW t \in S11Threads, NEW d, NEW pc, NEW i, NEW x,
         Take(t, d, pc, i, x), pc \in CreatePc => x \in UEs /\ i \in {0, x}
  PROVE  SgwMaking'
BY DEF SgwTypeOK, SgwMaking, Take

LEMMA SgwSends ==
  ASSUME TypeInv, s11r \subseteq S11Rsp, s5 \subseteq S5Req, SgwMaking,
         NEW t \in S11Threads, SgwStep(t)
  PROVE  s11r' \subseteq S11Rsp /\ s5' \subseteq S5Req /\ SgwMaking'
<1>t. SgwTypeOK /\ s11 \subseteq S11Req /\ s5r \subseteq S5Rsp
  BY DEF TypeInv
<1>b. sgw_th[t].pc # "idle" =>
        /\ sgw_th[t].imsi \in Imsi /\ sgw_th[t].teid \in Imsi /\ sgw_th[t].req.arg \in Teid
  BY <1>t, Busy DEF S11Req, S11Any
<1>m. sgw_th[t].pc \in CreatePc =>
        sgw_th[t].teid \in UEs /\ sgw_th[t].imsi \in {0, sgw_th[t].teid}
  BY DEF SgwMaking
<1>n. /\ UEs \subseteq Imsi /\ Imsi \subseteq Teid /\ 0 \in Teid /\ 0 \in Imsi
      /\ \A n \in Imsi : n + 1 \in Teid
  BY MmeIdentifiers, ImsiTeid
<1>1. CASE SgwCreateSession(t)
  <2>1. PICK d \in s11 : /\ d.op = "create"
                         /\ Take(t, d, "add_s1", d.imsi, d.arg)
                         /\ UNCHANGED <<s11r, s5>>
    BY <1>1 DEF SgwCreateSession
  <2>2. d.arg \in UEs /\ d.imsi \in {0, d.arg}
    BY <1>t, <2>1 DEF S11Req
  <2> QED
    BY <1>t, <2>1, <2>2, TakeMaking
<1>2. CASE SgwCreateItf(t)
  <2>1. /\ sgw_th[t].pc \in CreatePc /\ UNCHANGED <<s11r, s5>>
        /\ \E pc \in CreatePc : Continue(t, pc)
    BY <1>2 DEF SgwCreateItf, At, CreatePc, gtpVars
  <2> QED
    BY <1>t, <1>m, <2>1, GotoMaking DEF Continue
<1>3. CASE SgwCreateCtx(t)
  <2>1. /\ sgw_th[t].pc \in CreatePc /\ s11r' = s11r
        /\ AskPgw(t, "create", sgw_th[t].teid, sgw_th[t].imsi)
        /\ Goto(t, "wait_create", sgw_th[t].imsi, sgw_th[t].teid)
    BY <1>3 DEF SgwCreateCtx, At, CreatePc, Continue
  <2>2. s5' \subseteq S5Req
    BY <1>t, <1>m, <1>n, <2>1, AskPgwType
  <2> QED
    BY <1>t, <1>m, <2>1, <2>2, GotoMaking
<1>4. CASE SgwCreateRsp(t) \/ SgwCreateTimeout(t)
  <2>1. \E x \in Teid, a \in Imsi : SgwCreateFinish(t, x, a)
    BY <1>4, <1>t, <1>n DEF SgwCreateRsp, SgwCreateTimeout, S5Rsp
  <2>2. PICK x \in Teid, a \in Imsi :
          /\ At(t, "wait_create")
          /\ Answer(t, TRUE, sgw_th[t].teid, a)
          /\ Return(t) /\ s5' = s5
    BY <2>1 DEF SgwCreateFinish
  <2>3. sgw_th[t].pc # "idle"
    BY <2>2 DEF At
  <2>4. s11r' \subseteq S11Rsp
    BY <1>t, <1>b, <1>n, <2>2, <2>3, AnswerType
  <2> QED
    BY <1>t, <2>2, <2>4, ReturnMaking
<1>5. CASE SgwLookup(t)
  <2>1. PICK d \in s11 : /\ d.op \in LookupOp
                         /\ Take(t, d, d.op, get_imsi("s11", d.teid), 0)
                         /\ UNCHANGED <<s11r, s5>>
    BY <1>5 DEF SgwLookup
  <2>2. d.op \notin CreatePc
    BY <2>1 DEF LookupOp, S11Op, CreatePc
  <2> QED
    BY <1>t, <2>1, <2>2, TakeMaking
<1>6. CASE SgwModifyBearer(t) \/ SgwHoErase(t) \/ SgwTeardown(t)
  <2>1. /\ sgw_th[t].pc # "idle" /\ s5' = s5
        /\ Answer(t, TRUE, 0, 0) /\ Return(t)
    BY <1>6 DEF SgwModifyBearer, SgwHoErase, SgwTeardown, At
  <2>2. s11r' \subseteq S11Rsp
    BY <1>t, <1>n, <2>1, AnswerType
  <2> QED
    BY <1>t, <2>1, <2>2, ReturnMaking
<1>7. CASE SgwExit(t)
  BY <1>7 DEF SgwExit, gtpVars, SgwMaking
<1>8. CASE SgwHoSetup(t) \/ SgwHoCompletion(t) \/ SgwDetachItf(t)
  <2>1. \E pc \in {"ho_add", "ho_erase", "rem_s1", "rem_s5", "rem_ctx"} : \E x :
          Goto(t, pc, sgw_th[t].imsi, x)
    BY <1>8 DEF SgwHoSetup, SgwHoCompletion, SgwDetachItf, Continue
  <2>2. UNCHANGED <<s11r, s5>>
    BY <1>8 DEF SgwHoSetup, SgwHoCompletion, SgwDetachItf, gtpVars
  <2> QED
    BY <1>t, <2>1, <2>2, GotoMaking DEF CreatePc
<1>9. CASE SgwHoAdd(t)
  <2>1. /\ sgw_th[t].pc # "idle" /\ s5' = s5
        /\ Answer(t, TRUE, IndirectTeid(sgw_th[t].teid), 0) /\ Return(t)
    BY <1>9 DEF SgwHoAdd, At
  <2>2. IndirectTeid(sgw_th[t].teid) \in Teid
    BY <1>b, <1>n, <2>1 DEF IndirectTeid
  <2>3. s11r' \subseteq S11Rsp
    BY <1>t, <1>n, <2>1, <2>2, AnswerType
  <2> QED
    BY <1>t, <2>1, <2>3, ReturnMaking
<1>10. CASE SgwDetach(t)
  <2> DEFINE i == sgw_th[t].imsi
  <2>1. /\ sgw_th[t].pc # "idle" /\ s11r' = s11r
        /\ AskPgw(t, "detach", sgw_ctx[i].s5, 0)
        /\ Goto(t, "wait_detach", i, sgw_ctx[i].teid)
    BY <1>10 DEF SgwDetach, At
  <2>2. sgw_ctx[i].s5 \in Teid
    BY <1>t, <1>b, <2>1 DEF SgwTypeOK, Ctx
  <2>3. s5' \subseteq S5Req
    BY <1>t, <1>n, <2>1, <2>2, AskPgwType
  <2> QED
    BY <1>t, <2>1, <2>3, GotoMaking DEF CreatePc
<1>11. CASE SgwDetachRsp(t)
  <2>1. /\ sgw_th[t].pc # "idle" /\ s5' = s5
        /\ \/ Answer(t, TRUE, 0, 0) /\ Continue(t, "rem_s11")
           \/ Return(t) /\ s11r' = s11r
    BY <1>11 DEF SgwDetachRsp, At
  <2>2. CASE Answer(t, TRUE, 0, 0) /\ Continue(t, "rem_s11")
    <3>1. s11r' \subseteq S11Rsp
      BY <1>t, <1>n, <2>1, <2>2, AnswerType
    <3>2. SgwMaking'
      BY <1>t, <2>2, GotoMaking DEF Continue, CreatePc
    <3> QED
      BY <2>1, <3>1, <3>2
  <2>3. CASE Return(t) /\ s11r' = s11r
    BY <1>t, <2>1, <2>3, ReturnMaking
  <2> QED
    BY <2>1, <2>2, <2>3
<1>12. CASE SgwDetachTimeout(t)
  BY <1>t, <1>12, ReturnMaking DEF SgwDetachTimeout
<1>13. CASE SgwDetachCtx(t)
  BY <1>t, <1>13, ReturnMaking DEF SgwDetachCtx, gtpVars
<1> QED
  BY <1>1, <1>2, <1>3, <1>4, <1>5, <1>6, <1>7, <1>8, <1>9, <1>10, <1>11, <1>12, <1>13
  DEF SgwStep

LEMMA PgwSends ==
  ASSUME PgwTypeInv, s5r \subseteq S5Rsp, NEW t \in S5Threads, PgwStep(t)
  PROVE  s5r' \subseteq S5Rsp
<1>t. PgwTypeOK
  BY DEF PgwTypeInv
<1>1. ASSUME NEW x \in Teid, NEW a \in Imsi, pgw_th[t].pc # "idle",
             PgwAnswer(t, TRUE, x, a)
      PROVE  s5r' \subseteq S5Rsp
  <2>1. pgw_th[t].req.sock \in S5Sock
    BY <1>t, <1>1, PgwBusy DEF S5Req, S5Any
  <2>2. [sock |-> pgw_th[t].req.sock, ok |-> TRUE, teid |-> x, ip |-> a] \in S5Rsp
    BY <2>1 DEF S5Rsp
  <2> QED
    BY <1>1, <2>2 DEF PgwAnswer
<1>2. CASE PgwCreateCtx(t)
  <2>1. /\ pgw_th[t].pc # "idle"
        /\ PgwAnswer(t, TRUE, pgw_th[t].teid, pgw_th[t].ip)
    BY <1>2 DEF PgwCreateCtx
  <2>2. pgw_th[t].teid \in Teid /\ pgw_th[t].ip \in Imsi
    BY <1>t, <2>1, PgwBusy
  <2> QED
    BY <1>1, <2>1, <2>2
<1>3. CASE PgwDetachAnswer(t)
  BY <1>1, <1>3, MmeIdentifiers DEF PgwDetachAnswer
<1>4. CASE s5r' = s5r
  BY <1>4
<1> QED
  BY <1>2, <1>3, <1>4 DEF PgwStep, PgwCreateSession, PgwCreateSgi, PgwDetach, PgwDetachS5,
                         PgwDetachSgi, PgwDetachCtx, gtpVars
-----------------------------------------------------------------------------
(* All together.                                                           *)

LEMMA EpcInitType == EpcInit => EpcTypeInv
<1> SUFFICES ASSUME EpcInit PROVE EpcTypeInv
  OBVIOUS
<1>1. SctpTypeOK /\ MmeTypeOK /\ CtxOwn
  BY MmeInitType DEF EpcInit, MmeTypeInv
<1>2. GtpTypeOK
  BY DEF EpcInit, GtpInit, GtpTypeOK
<1>3. SgwTypeOK
  BY InitType DEF EpcInit, TypeInv
<1>4. PgwTypeOK
  BY PgwInitType DEF EpcInit, PgwTypeInv
<1>5. RanTypeOK
  BY MmeIdentifiers, MaxAttachesAssumption
  DEF EpcInit, RanInit, RanTypeOK, RanCtx, RanPc, SourceEnb, TargetEnb
<1>6. HssTypeOK
  BY DEF EpcInit, HssInit, HssTypeOK
<1>7. SgwMaking
  BY DEF EpcInit, SgwInit, SgwMaking, Idle, CreatePc
<1> QED
  BY <1>1, <1>2, <1>3, <1>4, <1>5, <1>6, <1>7 DEF EpcTypeInv, EpcTypeOK

LEMMA EpcNextType == EpcTypeInv /\ [EpcNext]_epcVars => EpcTypeInv'
<1> SUFFICES ASSUME EpcTypeInv, [EpcNext]_epcVars PROVE EpcTypeInv'
  OBVIOUS
<1>t. /\ SctpTypeOK /\ GtpTypeOK /\ RanTypeOK /\ MmeTypeOK /\ HssTypeOK /\ SgwTypeOK
      /\ PgwTypeOK /\ CtxOwn /\ SgwMaking
  BY DEF EpcTypeInv, EpcTypeOK
<1>g. s11 \subseteq S11Req /\ s11r \subseteq S11Rsp /\ s5 \subseteq S5Req /\ s5r \subseteq S5Rsp
  BY <1>t DEF GtpTypeOK
<1>i. TypeInv /\ PgwTypeInv /\ MmeTypeInv
  BY <1>t, <1>g DEF TypeInv, PgwTypeInv, MmeTypeInv
<1>1. CASE RanNext
  <2>1. UNCHANGED <<gtpVars, mmeOwn, hssOwn, sgwOwn, pgwOwn>>
    BY <1>1 DEF RanNext
  <2>2. SctpTypeOK' /\ RanTypeOK'
    BY <1>1, <1>t, RanUeType, RanHoType DEF RanNext
  <2> QED
    BY <1>t, <2>1, <2>2
    DEF gtpVars, mmeOwn, hssOwn, sgwOwn, pgwOwn, GtpTypeOK, MmeTypeOK, CtxOwn, HssTypeOK,
        SgwTypeOK, SgwMaking, PgwTypeOK, EpcTypeInv, EpcTypeOK
<1>2. ASSUME NEW c \in Conn, MmeProcess(c) PROVE EpcTypeInv'
  <2>1. MmeStep(c) /\ UNCHANGED <<ranOwn, hssOwn, sgwOwn, pgwOwn>>
    BY <1>2 DEF MmeProcess
  <2>2. MmeTypeInv'
    BY <1>i, <2>1, MmeStepType
  <2>3. UNCHANGED <<s5, s5r>>
    BY <2>1 DEF MmeStep, MmeInitialAttach, MmeAutnInfo, MmeAuthentication,
                MmeSecurityComplete, MmeLocationUpdate, MmeCreateSession, MmeAttachComplete,
                MmeModifyBearer, MmeDetach, MmeDetachAnswer, MmeDetachRemove, MmeHandover,
                MmeHoRequest, MmeHoAnswer, MmeIgnore, gtpVars
  <2> QED
    BY <1>t, <1>g, <2>1, <2>2, <2>3
    DEF MmeTypeInv, ranOwn, hssOwn, sgwOwn, pgwOwn, GtpTypeOK, RanTypeOK, HssTypeOK,
        SgwTypeOK, SgwMaking, PgwTypeOK, EpcTypeInv, EpcTypeOK
<1>3. ASSUME NEW c \in Conn, HssNext(c) PROVE EpcTypeInv'
  <2>1. HssStep(c) /\ UNCHANGED <<gtpVars, ranOwn, mmeOwn, sgwOwn, pgwOwn>>
    BY <1>3 DEF HssNext
  <2>2. SctpTypeOK' /\ HssTypeOK'
    BY <1>t, <2>1, HssType
  <2> QED
    BY <1>t, <2>1, <2>2
    DEF gtpVars, ranOwn, mmeOwn, sgwOwn, pgwOwn, GtpTypeOK, RanTypeOK, MmeTypeOK, CtxOwn,
        SgwTypeOK, SgwMaking, PgwTypeOK, EpcTypeInv, EpcTypeOK
<1>4. ASSUME NEW t \in S11Threads, SgwProcess(t) PROVE EpcTypeInv'
  <2>1. SgwStep(t) /\ UNCHANGED <<sctpVars, ranOwn, mmeOwn, hssOwn, pgwOwn>>
    BY <1>4 DEF SgwProcess
  <2>2. TypeInv'
    BY <1>i, <2>1, StepType
  <2>3. s11r' \subseteq S11Rsp /\ s5' \subseteq S5Req /\ SgwMaking'
    BY <1>t, <1>g, <1>i, <2>1, SgwSends
  <2> QED
    BY <1>t, <2>1, <2>2, <2>3
    DEF TypeInv, sctpVars, ranOwn, mmeOwn, hssOwn, pgwOwn, SctpTypeOK, GtpTypeOK, RanTypeOK,
        MmeTypeOK, CtxOwn, HssTypeOK, PgwTypeOK, EpcTypeInv, EpcTypeOK
<1>5. ASSUME NEW t \in S5Threads, PgwProcess(t) PROVE EpcTypeInv'
  <2>1. PgwStep(t) /\ UNCHANGED <<sctpVars, ranOwn, mmeOwn, hssOwn, sgwOwn>>
    BY <1>5 DEF PgwProcess
  <2>2. PgwTypeInv' /\ s5r' \subseteq S5Rsp
    BY <1>g, <1>i, <2>1, PgwStepType, PgwSends
  <2>3. UNCHANGED <<s11, s11r>>
    BY <2>1 DEF PgwStep, PgwCreateSession, PgwCreateSgi, PgwCreateCtx, PgwDetach,
                PgwDetachAnswer, PgwDetachS5, PgwDetachSgi, PgwDetachCtx, gtpVars
  <2> QED
    BY <1>t, <1>g, <2>1, <2>2, <2>3
    DEF PgwTypeInv, sctpVars, ranOwn, mmeOwn, hssOwn, sgwOwn, SctpTypeOK, GtpTypeOK,
        RanTypeOK, MmeTypeOK, CtxOwn, HssTypeOK, SgwTypeOK, SgwMaking, EpcTypeInv, EpcTypeOK
<1>6. CASE UNCHANGED epcVars
  BY <1>t, <1>6
  DEF epcVars, sctpVars, gtpVars, ranOwn, mmeOwn, hssOwn, sgwOwn, pgwOwn, SctpTypeOK,
      GtpTypeOK, RanTypeOK, MmeTypeOK, CtxOwn, HssTypeOK, SgwTypeOK, SgwMaking, PgwTypeOK,
      EpcTypeInv, EpcTypeOK
<1> QED
  BY <1>1, <1>2, <1>3, <1>4, <1>5, <1>6 DEF EpcNext

LEMMA EpcTypeInvariant == EpcSpec => []EpcTypeInv
BY EpcInitType, EpcNextType, PTL DEF EpcSpec

(* No program ever sends another something malformed, and every table      *)
(* holds what it is meant to hold, whatever the interleaving of the five   *)
(* programs (all handlers).                                                *)
THEOREM EpcTypes == EpcSpec => []EpcTypeOK
<1>1. EpcTypeInv => EpcTypeOK
  BY DEF EpcTypeInv
<1> QED
  BY <1>1, EpcTypeInvariant, PTL

(* Among the other four, the serving gateway is the one that is specified  *)
(* alone: nobody sends it more, or changes more of it, than SgwEnv allows  *)
(* (handle_s11_traffic).                                                   *)
THEOREM EpcImplementsSgw == EpcSpec => SgwSpec
<1>1. EpcInit => GtpInit /\ SgwInit
  BY DEF EpcInit
<1>2. EpcTypeInv /\ EpcTypeInv' /\ [EpcNext]_epcVars => [SgwNext]_sgwVars
  <2> SUFFICES ASSUME EpcTypeInv', [EpcNext]_epcVars PROVE [SgwNext]_sgwVars
    OBVIOUS
  <2>1. s11' \subseteq S11Req /\ s5r' \subseteq S5Rsp
    BY DEF EpcTypeInv, EpcTypeOK, GtpTypeOK
  <2>2. CASE \E t \in S11Threads : SgwProcess(t)
    BY <2>2 DEF SgwProcess, SgwNext
  <2>3. CASE UNCHANGED sgwOwn
    BY <2>1, <2>3 DEF sgwOwn, SgwEnv, SgwNext
  <2> QED
    BY <2>2, <2>3 DEF EpcNext, RanNext, MmeProcess, HssNext, PgwProcess, epcVars
<1> QED
  BY <1>1, <1>2, EpcTypeInvariant, PTL DEF EpcSpec, SgwSpec

(* So is the packet gateway (PgwServer, handle_s5_traffic).                *)
THEOREM EpcImplementsPgw == EpcSpec => PgwSpec
<1>1. EpcInit => GtpInit /\ PgwInit
  BY DEF EpcInit
<1>2. EpcTypeInv /\ EpcTypeInv' /\ [EpcNext]_epcVars => [PgwNext]_pgwVars
  <2> SUFFICES ASSUME EpcTypeInv', [EpcNext]_epcVars PROVE [PgwNext]_pgwVars
    OBVIOUS
  <2>1. s5' \subseteq S5Req
    BY DEF EpcTypeInv, EpcTypeOK, GtpTypeOK
  <2>2. CASE \E t \in S5Threads : PgwProcess(t)
    BY <2>2 DEF PgwProcess, PgwNext
  <2>3. CASE UNCHANGED pgwOwn
    BY <2>1, <2>3 DEF PgwEnv, PgwNext
  <2> QED
    BY <2>2, <2>3 DEF EpcNext, RanNext, MmeProcess, HssNext, SgwProcess, epcVars
<1> QED
  BY <1>1, <1>2, EpcTypeInvariant, PTL DEF EpcSpec, PgwSpec

(* What is proved of the gateways alone holds in the whole system.  A      *)
(* handler of the serving gateway works on the subscriber its request      *)
(* names, also when the tables have changed since (get_imsi) ...           *)
THEOREM EpcHandlerIsolation == EpcSpec => []HandlerIsolation
BY EpcImplementsSgw, SgwHandlerIsolation, PTL

(* ... and no TEID, address or context of the packet gateway leads from    *)
(* one subscriber to another (set_ip_addrs, the three tables).             *)
THEOREM EpcPgwIsolation == EpcSpec => []PgwIsolation
BY EpcImplementsPgw, PgwIsolated, PTL
=============================================================================
