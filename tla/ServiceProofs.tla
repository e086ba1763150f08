---------------------------- MODULE ServiceProofs ---------------------------
(***************************************************************************)
(* What the packet core promises its subscribers, proved from the          *)
(* invariant of the session: active sessions are routed, a handover leaves *)
(* the downlink at the target, a detach leaves nothing, the five programs  *)
(* implement the life of a session; and of the user plane that a packet is *)
(* delivered to its subscriber or not at all, and is delivered while the   *)
(* session is active.  The last part needs no such invariant: whatever the *)
(* threads and timeouts of the gateways, no subscriber's TEID leads to     *)
(* another while nobody's number follows that of the one handed over.      *)
(***************************************************************************)
EXTENDS UserPlane, SessionProofs
-----------------------------------------------------------------------------
(* What follows from the invariant.                                        *)

(* The thread that serves a detach serves its subscriber's own worker.     *)
LEMMA Detaching ==
  ASSUME Orderly, OrderlyInv, NEW n \in UEs, On(n, {"wait_detach"})
  PROVE  mme_w[n].pc = "detach"
<1>1. LockInv /\ SessInv /\ HoInv /\ th.pc = "wait_detach" /\ th.imsi = n
  BY DEF OrderlyInv, On
<1>2. Working
  BY <1>1 DEF Working, Tail11
<1> QED
  BY <1>1, <1>2, AtWork

(* A session that is there and known to the eNodeB is routed.              *)
LEMMA PresentRouted ==
  ASSUME Orderly, OrderlyInv, NEW n \in UEs, Present(n), mme_w[n].pc # "detach"
  PROVE  /\ \A itf \in Itf : sgw_id[itf][n] = n
         /\ sgw_ctx[n].s5 = n /\ pgw_s5[n] = n /\ pgw_sgi[n] = n
         /\ pgw_ctx[n] = [in |-> TRUE, ip |-> n, teid |-> n]
<1>1. SgwRow(n) /\ PgwRow(n)
  BY DEF OrderlyInv, SessInv
<1>2. ~On(n, {"wait_detach"})
  BY Detaching
<1>3. Linked(n) /\ \A itf \in Itf : Entry(itf, n)
  BY <1>2 DEF Linked, Entry
<1> QED
  BY <1>1, <1>3 DEF SgwRow, PgwRow

(* An active session is there.                                             *)
LEMMA ActivePresent ==
  ASSUME OrderlyInv, NEW n \in UEs, Active(n)
  PROVE  /\ Present(n) /\ ~Unbound(n) /\ mme_w[n].pc # "detach"
         /\ mme_ctx[n].teid = n /\ mme_ctx[n].ul = n /\ ran[n].dl = n
<1>1. EpcTypeInv /\ Given(n) /\ mme_ctx[n].ecm = 1 /\ mme_w[n].pc \notin {"detach", "rem"}
  BY DEF OrderlyInv, LockInv, SessInv, Active
<1>2. mme_ctx[n].emm = 1 /\ mme_w[n].pc # "modify"
  BY <1>1 DEF Given
<1>3. MPresent(n) /\ ran[n].pc # "eps" /\ ~Completes(n)
  BY <1>1, <1>2 DEF Given
<1>4. ran[n].pc \in {"attached", "ho", "end"} \/ (ran[n].pc = "bye" /\ down[n] = <<>>)
  BY <1>1, <1>3 DEF MPresent
<1>5. Present(n)
  BY <1>1, <1>4 DEF Present
<1>6. ~Unbound(n)
  BY <1>2, <1>3 DEF Unbound, Completes
<1> QED
  BY <1>1, <1>3, <1>4, <1>5, <1>6 DEF Given

LEMMA SessionsRouted ==
  ASSUME Orderly, OrderlyInv
  PROVE  SessionRouted
<1> SUFFICES ASSUME NEW n \in UEs, Active(n)
             PROVE  Routed(n) /\ DownlinkPath(n)
  BY DEF SessionRouted
<1>1. /\ Present(n) /\ ~Unbound(n) /\ mme_w[n].pc # "detach"
      /\ mme_ctx[n].teid = n /\ mme_ctx[n].ul = n /\ ran[n].dl = n
  BY ActivePresent
<1>2. /\ \A itf \in Itf : sgw_id[itf][n] = n
      /\ sgw_ctx[n].s5 = n /\ pgw_s5[n] = n /\ pgw_sgi[n] = n
      /\ pgw_ctx[n] = [in |-> TRUE, ip |-> n, teid |-> n]
  BY <1>1, PresentRouted
<1>3. sgw_ctx[n].enb /\ sgw_ctx[n].dl = n
  BY <1>1 DEF OrderlyInv, SessInv, Bearer
<1>4. SignallingPath(n) /\ UplinkPath(n)
  BY <1>1, <1>2 DEF SignallingPath, UplinkPath, Itf
<1>5. DownlinkPath(n)
  BY <1>1, <1>2, <1>3 DEF DownlinkPath, Itf
<1> QED
  BY <1>4, <1>5 DEF Routed

(* With a gateway thread each, answers in time and a target that is        *)
(* connected in time, the five tables of three processes agree about every *)
(* active session, for every number of subscribers and every interleaving  *)
(* of their attaches, detaches and the handover.                           *)
THEOREM EpcSessionRouted ==
  ASSUME Orderly
  PROVE  EpcSpec => []SessionRouted
BY SessionsRouted, OrderlyInvariant, PTL

(* No process leaves through handle_type1_error or an exception.           *)
THEOREM EpcNeverExits ==
  ASSUME Orderly
  PROVE  EpcSpec => []NeverExits
<1>1. OrderlyInv /\ sgw_up => NeverExits
  BY DEF OrderlyInv, LockInv, EpcInv, NeverExits
<1> QED
  BY <1>1, OrderlyInvariant, PTL
-----------------------------------------------------------------------------
(* The indirect TEID the source eNodeB forwards to leads to the subscriber *)
(* for as long as it forwards (handle_indirect_tunnel_setup,               *)
(* indirect_tunnel_complete, request_tear_down).                           *)
THEOREM EpcIndirectTunnelLive ==
  ASSUME Orderly
  PROVE  EpcSpec => []IndirectTunnelLive
<1>1. OrderlyInv => IndirectTunnelLive
  <2> SUFFICES ASSUME OrderlyInv, HoUE \in UEs, ranS.state = 4, ran[HoUE].ul # 0
               PROVE  sgw_id["s1"][ranS.indirect] = HoUE
    BY DEF IndirectTunnelLive
  <2>1. PICK s \in 0 .. 14 : HoAt(s)
    BY DEF OrderlyInv, HoInv
  <2>2. s > 7 /\ ranS.indirect = HoUE + 1 /\ ran[HoUE].pc \in {"ho", "end"}
    BY <2>1 DEF HoAt, HoRan
  <2>3. s < 12
    BY <2>1, <2>2 DEF HoAt, HoRan
  <2> QED
    BY <2>1, <2>2, <2>3 DEF HoAt, HoSgw
<1> QED
  BY <1>1, OrderlyInvariant, PTL

(* The handover context exists between the target's answer and the         *)
(* tear-down alone (ho_ue_ctx).                                            *)
THEOREM EpcHandoverContext ==
  ASSUME Orderly
  PROVE  EpcSpec => []HandoverContext
<1>1. OrderlyInv => HandoverContext
  <2> SUFFICES ASSUME OrderlyInv, HoUE \in UEs, sgw_ho[HoUE].in
               PROVE  /\ ranT.state # 0 /\ ran[HoUE].ul # 0
                      /\ ran[HoUE].pc \in {"ho", "end"}
    BY DEF HandoverContext
  <2>1. PICK s \in 0 .. 14 : HoAt(s)
    BY DEF OrderlyInv, HoInv
  <2>2. s \in 6 .. 10
    BY <2>1 DEF HoAt, HoSgw, NoHo
  <2>3. ran[HoUE].pc \in {"ho", "end"} /\ ranT.state # 0
    BY <2>1, <2>2 DEF HoAt, HoRan
  <2>4. ran[HoUE].ul = HoUE /\ HoUE # 0
    BY <2>1, <2>2, <2>3, MmeIdentifiers DEF HoAt, HoRan
  <2> QED
    BY <2>3, <2>4
<1> QED
  BY <1>1, OrderlyInvariant, PTL

(* A handover that has come to rest leaves the session where the target    *)
(* is, and nothing of its own.                                             *)
THEOREM EpcHandoverClean ==
  ASSUME Orderly
  PROVE  EpcSpec => []HandoverClean
<1>1. OrderlyInv => HandoverClean
  <2> SUFFICES ASSUME OrderlyInv, HoUE \in UEs, ran[HoUE].pc = "end", ran[HoUE].ul = 0,
                      Quiet(HoUE)
               PROVE  Switched(HoUE) /\ Active(HoUE)
    BY DEF HandoverClean
  <2> DEFINE n == HoUE
  <2>t. /\ EpcTypeInv /\ SgwRow(n) /\ Bearer(n) /\ Given(n) /\ SgwExtra
        /\ \A m \in UEs : SgwRow(m) /\ m # 0
        /\ up[n] = <<>> /\ mme_w[n].pc = "idle"
    BY MmeIdentifiers DEF OrderlyInv, LockInv, SessInv, Quiet
  <2>1. PICK s \in 0 .. 14 : HoAt(s)
    BY DEF OrderlyInv, HoInv
  <2>2. s > 11
    BY <2>1, <2>t DEF HoAt, HoRan
  <2>3. s # 12
    <3>1. s = 12 => up[n] # <<>>
      BY <2>1 DEF HoAt, HoUp
    <3> QED
      BY <2>t, <3>1
  <2>4. s # 13
    BY <2>1, <2>t DEF HoAt, HoWorker
  <2>5. s = 14
    BY <2>2, <2>3, <2>4
  <2>6. sgw_ho[n] = NoHo /\ sgw_id["s1"][n + 1] = 0 /\ ranT.enb = n
    BY <2>1, <2>5 DEF HoAt, HoSgw, HoRan
  <2>7. Present(n) /\ MPresent(n)
    BY DEF Present, MPresent
  <2>8. ~Completes(n)
    <3>1. DOMAIN up[n] = {}
      BY <2>t
    <3> QED
      BY <3>1 DEF Completes
  <2>9. ~Unbound(n)
    BY <2>t, <2>8 DEF Unbound, Completes
  <2>10. sgw_ctx[n].dl = n
    BY <2>t, <2>7, <2>9 DEF Bearer
  <2>11. ASSUME NEW x \in Teid \ {n} PROVE sgw_id["s1"][x] # n
    <3>1. CASE x \in UEs
      <4>1. sgw_id["s1"][x] \in {x, 0}
        BY <2>t, <3>1 DEF SgwRow, Itf
      <4> QED
        BY <2>t, <2>11, <4>1
    <3>2. CASE x \notin UEs
      <4>1. sgw_id["s1"][x] # 0 => x = n + 1
        BY <2>t, <2>11, <3>2 DEF SgwExtra, Itf
      <4> QED
        BY <2>6, <2>t, <4>1
    <3> QED
      BY <3>1, <3>2
  <2>12. Switched(n)
    BY <2>6, <2>10, <2>11 DEF Switched, NoHo
  <2>13. Active(n)
    <3>1. mme_ctx[n].emm = 1
      BY <2>t, <2>7, <2>8 DEF Given
    <3>2. mme_ctx[n].ecm = 1
      BY <2>t, <3>1 DEF Given
    <3> QED
      BY <2>t, <3>2 DEF Active
  <2> QED
    BY <2>12, <2>13
<1> QED
  BY <1>1, OrderlyInvariant, PTL
-----------------------------------------------------------------------------
(* Detach.  What the MME has of a subscriber whose key the HSS holds, until*)
(* it forgets him; timeouts of the gateways included.                      *)

(* The ids under which the MME still knows n.                              *)
Claims(n, i) ==
  \/ /\ ran[n].pc \in {"sec", "eps", "attached", "ho", "end"} \/ (ran[n].pc = "bye" /\ down[n] = <<>>)
     /\ i = ran[n].id
  \/ mme_w[n].pc \in {"rem", "autn"} /\ i = mme_w[n].id
  \/ ran[n].pc = "auth" /\ down[n] # <<>> /\ i = down[n][1].id

Gone(n) ==
  mme_w[n].pc # "rem" /\ (ran[n].pc = "off" \/ (ran[n].pc = "bye" /\ down[n] # <<>>))

Forgets(n) ==
  /\ s6a[n].k \in {"autn", "autn_ok"} => s6a[n].x = n
  /\ down[n] # <<>> /\ down[n][1].t = 1 => down[n][1].arg = n
  /\ mme_w[n].pc = "detach" => mme_w[n].id = ran[n].id
  /\ mme_w[n].pc = "rem" /\ ran[n].pc = "bye" => down[n] # <<>>
  /\ Gone(n) => mme_ctx[n] = NoMmeCtx
  /\ \A i \in UeId : s1mme_id[i] = n => Claims(n, i)

ForgetInv == hss_up => \A n \in Provisioned : Forgets(n)

LEMMA ForgetsStays ==
  ASSUME NEW n \in UEs, Forgets(n),
         ran'[n].pc = ran[n].pc, ran'[n].id = ran[n].id, down'[n] = down[n],
         mme_w'[n] = mme_w[n], mme_ctx'[n] = mme_ctx[n], s6a'[n] = s6a[n],
         \A i \in UeId : s1mme_id'[i] = n => s1mme_id[i] = n
  PROVE  Forgets(n)'
BY DEF Forgets, Claims, Gone

LEMMA RanUeForgets ==
  ASSUME LockInv, NEW n \in UEs, RanUeStep(n), Forgets(n),
         UNCHANGED <<mme_w, mme_ctx, s1mme_id, s6a>>
  PROVE  Forgets(n)'
<1>t. EpcTypeInv /\ Turn(n) /\ Knows(n) /\ ran[n].pc \in RanPc /\ ran \in [UEs -> RanCtx]
  BY EnrolledTypes DEF LockInv, EpcInv
<1>o. ran[n].pc \in {"off", "attached"} => down[n] = <<>>
  <2>1. n \in Conn
    BY EnrolledTypes, <1>t
  <2>2. down[n] # <<>> => down[n][1].t \in {1, 2, 3, 5}
    BY <1>t, <2>1, Queues DEF Down
  <2> QED
    BY <1>t, <2>2 DEF Turn, Expected
<1>d. ASSUME Rcv(n)
      PROVE  /\ down'[n] = <<>> /\ down[n] # <<>> /\ Head(down[n]) = down[n][1]
             /\ down[n][1].t = Expected[ran[n].pc]
             /\ mme_w[n].pc = "idle" \/ (mme_w[n].pc = "rem" /\ ran[n].pc = "bye")
  BY <1>d, <1>t, RcvQueue DEF Turn
<1>w. mme_w[n].pc \in Serves[ran[n].pc]
  BY <1>t DEF Turn
<1>1. CASE RanInitialAttach(n)
  <2>1. ran[n].pc = "off" /\ ran'[n].pc = "auth" /\ down'[n] = <<>> /\ down[n] = <<>>
    BY <1>1, <1>t, <1>o DEF RanInitialAttach, RanAt, RanCtx
  <2>2. mme_w[n].pc \in {"idle", "rem"}
    BY <1>w, <2>1 DEF Serves
  <2> QED
    BY <2>1, <2>2 DEF Forgets, Claims, Gone
<1>2. CASE RanAuthenticate(n)
  <2>1. /\ ran[n].pc = "auth" /\ down'[n] = <<>> /\ down[n] # <<>> /\ mme_w[n].pc = "idle"
        /\ Head(down[n]) = down[n][1] /\ down[n][1].t = 1
    BY <1>2, <1>d DEF RanAuthenticate, RanAt, Expected
  <2>2. down[n][1].arg = n
    BY <2>1 DEF Forgets
  <2>3. ran'[n].pc = "sec" /\ ran'[n].id = down[n][1].id
    BY <1>2, <1>t, <2>1, <2>2 DEF RanAuthenticate, RanCtx
  <2> QED
    BY <2>1, <2>3 DEF Forgets, Claims, Gone
<1>3. CASE RanSetSecurity(n) \/ RanSetEpsSession(n)
  <2>1. /\ ran[n].pc \in {"sec", "eps"} /\ ran'[n].pc \in {"eps", "attached"}
        /\ ran'[n].id = ran[n].id /\ down'[n] = <<>> /\ mme_w[n].pc = "idle"
    BY <1>3, <1>t, <1>d DEF RanSetSecurity, RanSetEpsSession, RanAt, RanCtx
  <2> QED
    BY <2>1 DEF Forgets, Claims, Gone
<1>4. CASE RanDetach(n)
  <2>1. /\ ran[n].pc = "attached" /\ ran'[n].pc = "bye" /\ ran'[n].id = ran[n].id
        /\ down'[n] = <<>> /\ down[n] = <<>>
    BY <1>4, <1>t, <1>o DEF RanDetach, RanAt, RanCtx
  <2>2. mme_w[n].pc \in {"idle", "modify"}
    BY <1>w, <2>1 DEF Serves
  <2> QED
    BY <2>1, <2>2 DEF Forgets, Claims, Gone
<1>5. CASE RanDetached(n)
  <2>1. /\ ran[n].pc = "bye" /\ ran'[n].pc = "off" /\ down'[n] = <<>> /\ down[n] # <<>>
        /\ mme_w[n].pc \in {"idle", "rem"}
    BY <1>5, <1>t, <1>d DEF RanDetached, RanAt, RanCtx
  <2> QED
    BY <2>1 DEF Forgets, Claims, Gone
<1> QED
  BY <1>1, <1>2, <1>3, <1>4, <1>5 DEF RanUeStep

LEMMA RanHoForgets ==
  ASSUME LockInv, RanHoStep, NEW n \in UEs, Forgets(n),
         UNCHANGED <<mme_w, mme_ctx, s1mme_id>>
  PROVE  Forgets(n)'
<1>r. ran \in [UEs -> RanCtx]
  BY EnrolledTypes DEF LockInv
<1>1. UNCHANGED <<s6a, down>>
  BY DEF RanHoStep, RanInitiateHandover, RanHandleHandover, RanConnect, RanAckHandover,
         RanIndirectTunnelComplete, RanCompleteHandover, RanRequestTearDown, sctpVars
<1>2. /\ ran'[n].id = ran[n].id
      /\ \/ ran'[n].pc = ran[n].pc
         \/ ran[n].pc \in {"attached", "ho"} /\ ran'[n].pc \in {"ho", "end"}
  <2>1. CASE RanInitiateHandover
    BY <1>r, <2>1 DEF RanInitiateHandover, RanAt, RanCtx
  <2>2. CASE RanCompleteHandover
    BY <1>r, <2>2 DEF RanCompleteHandover, RanAt, RanCtx
  <2>3. CASE RanRequestTearDown
    BY <1>r, <2>3 DEF RanRequestTearDown, RanCtx
  <2>4. CASE UNCHANGED ran
    BY <2>4
  <2> QED
    BY <2>1, <2>2, <2>3, <2>4 DEF RanHoStep, RanHandleHandover, RanConnect, RanAckHandover,
                                  RanIndirectTunnelComplete
<1>3. mme_w[n].pc \in Serves[ran[n].pc]
  BY DEF LockInv, EpcInv, Turn
<1>4. ran[n].pc \in {"attached", "ho"} => mme_w[n].pc \in {"idle", "modify", "teardown"}
  BY <1>3 DEF Serves
<1> QED
  BY <1>1, <1>2, <1>4 DEF Forgets, Claims, Gone

(* What the steps of a connection do to the ids of the others.             *)
LEMMA OtherIds ==
  ASSUME MmeInv, NEW c \in UEs, MmeStep(c), NEW n \in UEs, n # c, NEW i \in UeId,
         s1mme_id'[i] = n
  PROVE  s1mme_id[i] = n
<1>t. /\ s1mme_id \in [UeId -> Imsi] /\ ue_count \in Nat /\ UeId \subseteq Nat /\ n # 0
      /\ up[c] # <<>> /\ Head(up[c]).t = 1 => Head(up[c]).arg = c
  BY CountIds, HeadOwn, MmeIdentifiers DEF MmeInv, MmeTypeInv, MmeTypeOK
<1>1. CASE MmeInitialAttach(c)
  BY <1>1, <1>t DEF MmeInitialAttach, Receive
<1>2. CASE ~MmeInitialAttach(c)
  <2>1. UNCHANGED s1mme_id \/ \E x : s1mme_id' = [s1mme_id EXCEPT ![x] = 0]
    BY <1>2 DEF MmeStep, MmeAutnInfo, MmeAuthentication, MmeSecurityComplete,
         MmeLocationUpdate, MmeCreateSession, MmeAttachComplete, MmeModifyBearer,
         MmeDetach, MmeDetachAnswer, MmeDetachRemove, MmeHandover, MmeHoRequest,
         MmeHoAnswer, MmeIgnore, Forget, mmeOwn
  <2> QED
    BY <1>t, <2>1
<1> QED
  BY <1>1, <1>2

(* A worker that forgets nothing and gives out no id.                      *)
LEMMA WorkerForgets ==
  ASSUME NEW c \in UEs, Forgets(c),
         UNCHANGED <<ran, s1mme_id, s6a>>, down'[c] = down[c],
         mme_w[c].pc \notin {"autn", "rem"},
         mme_w'[c].pc \notin {"autn", "rem"},
         mme_w'[c].pc = "detach" => mme_w'[c].id = ran[c].id,
         ~Gone(c) \/ mme_ctx'[c] = mme_ctx[c]
  PROVE  Forgets(c)'
BY DEF Forgets, Claims, Gone

(* The answer is the one message under way to the subscriber.              *)
LEMMA Answers ==
  ASSUME EpcTypeInv, NEW n \in UEs, down[n] = <<>>,
         NEW t, NEW id, NEW arg, NEW guti, NEW ip, ToUe(n, t, id, arg, guti, ip)
  PROVE  down'[n] # <<>> /\ down'[n][1].t = t /\ down'[n][1].id = id /\ down'[n][1].arg = arg
<1>1. Len(down'[n]) = 1 /\ down'[n][1] = [t |-> t, id |-> id, arg |-> arg, guti |-> guti, ip |-> ip]
  BY ToUeQueue
<1> QED
  BY <1>1

LEMMA MmeForgets ==
  ASSUME LockInv, RegInv, NEW c \in UEs, MmeStep(c), Forgets(c),
         UNCHANGED ran
  PROVE  Forgets(c)'
<1> DEFINE w == mme_w[c]
           m == Head(up[c])
<1>t. /\ EpcTypeInv /\ Turn(c) /\ Knows(c) /\ c \in Conn /\ c # 0 /\ c \in Imsi
      /\ ran \in [UEs -> RanCtx] /\ s6a \in [Conn -> S6a] /\ ran[c].pc \in RanPc
      /\ mme_w \in [Conn -> [pc : MmePc, id : UeId, guti : Imsi]]
      /\ mme_ctx \in [Imsi -> MmeCtx] /\ mme_ctx[c] \in MmeCtx
      /\ down \in [Conn -> Seq(Down)] /\ s1mme_id \in [UeId -> Imsi]
      /\ HssExchange(c)
  BY EnrolledTypes DEF LockInv, EpcInv, RegInv, Enrolled, MmeInv, MmeTypeInv, MmeTypeOK
<1>g. w.pc # "idle" => w.guti = c
  BY <1>t DEF Knows
<1>p. ran[c].pc \in RanPc
  BY <1>t
<1>s. /\ \A t \in {1} : t \in Says[ran[c].pc] => ran[c].pc = "auth"
      /\ \A t \in {2} : t \in Says[ran[c].pc] => ran[c].pc = "sec"
      /\ \A t \in {3} : t \in Says[ran[c].pc] => ran[c].pc = "eps"
      /\ \A t \in {4} : t \in Says[ran[c].pc] => ran[c].pc \in {"attached", "bye", "ho", "end"}
  BY <1>p DEF Says, RanPc
<1>v. /\ w.pc = "autn" => ran[c].pc = "auth"
      /\ w.pc \in {"loc", "create"} => ran[c].pc = "eps"
      /\ w.pc = "detach" => ran[c].pc = "bye"
      /\ w.pc = "rem" => ran[c].pc \in {"off", "auth", "bye"}
      /\ w.pc = "modify" => ran[c].pc \in {"attached", "bye", "ho", "end"}
      /\ w.pc \in Answering \cup {"modify"} => down[c] = <<>>
      /\ w.pc = "rem" /\ down[c] # <<>> => ran[c].pc = "bye"
  <2>1. /\ w.pc \in Serves[ran[c].pc] /\ (w.pc \in Answering => down[c] = <<>>)
        /\ down[c] # <<>> => w.pc = "idle" \/ (w.pc = "rem" /\ ran[c].pc = "bye")
    BY <1>t DEF Turn
  <2> QED
    BY <1>t, <2>1 DEF Serves, RanPc
<1>w. ASSUME NEW pc, NEW id, NEW guti, Wait(c, pc, id, guti)
      PROVE  mme_w'[c].pc = pc /\ mme_w'[c].id = id
  BY <1>t, <1>w DEF Wait
<1>d. Done(c) => mme_w'[c].pc = "idle"
  BY <1>w DEF Done
<1>1. CASE MmeInitialAttach(c)
  <2>4. Receive(c, 1) /\ m.arg = c
    BY <1>1, TakeMessage DEF MmeInitialAttach, UpTrue
  <2>1. /\ ran[c].pc = "auth" /\ w.pc = "idle" /\ down[c] = <<>>
        /\ Wait(c, "autn", NextUeId, c)
        /\ s1mme_id' = [s1mme_id EXCEPT ![NextUeId] = c]
        /\ s6a' = [s6a EXCEPT ![c] = [k |-> "autn", x |-> c]] /\ UNCHANGED down
    BY <1>1, <1>s, <2>4, TakeMessage DEF MmeInitialAttach
  <2>2. s6a'[c] = [k |-> "autn", x |-> c]
    BY <1>t, <2>1
  <2>3. mme_w'[c].pc = "autn" /\ mme_w'[c].id = NextUeId
    BY <1>w, <2>1
  <2>5. \A i \in UeId : s1mme_id'[i] = c => i = NextUeId
    <3>1. \A i \in UeId : s1mme_id[i] # c
      BY <2>1 DEF Forgets, Claims
    <3> QED
      BY <1>t, <2>1, <3>1
  <2> QED
    BY <2>1, <2>2, <2>3, <2>5 DEF Forgets, Claims, Gone
<1>2. CASE MmeAutnInfo(c)
  <2>1. /\ w.pc = "autn" /\ ran[c].pc = "auth" /\ down[c] = <<>> /\ s6a[c].k = "autn_ok"
        /\ s6a' = [s6a EXCEPT ![c] = NoS6a] /\ Done(c) /\ UNCHANGED s1mme_id
        /\ ToUe(c, 1, w.id, s6a[c].x, 0, 0)
    BY <1>2, <1>v DEF MmeAutnInfo, HandlerAt, Answering
  <2>2. s6a'[c].k = "none" /\ mme_w'[c].pc = "idle" /\ s6a[c].x = c
    BY <1>t, <1>d, <2>1 DEF NoS6a, Forgets
  <2>3. down'[c] # <<>> /\ down'[c][1].t = 1 /\ down'[c][1].id = w.id /\ down'[c][1].arg = c
    BY <1>t, Answers, <2>1, <2>2
  <2>4. \A i \in UeId : s1mme_id'[i] = c => i = w.id
    BY <2>1 DEF Forgets, Claims
  <2> QED
    BY <2>1, <2>2, <2>3, <2>4 DEF Forgets, Claims, Gone
(* The result is the one expected, so the subscriber is not forgotten.     *)
<1>3. CASE MmeAuthentication(c)
  <2>1. /\ ran[c].pc = "sec" /\ w.pc = "idle" /\ get_guti(c) = c /\ down[c] = <<>>
        /\ m.arg = mme_ctx[c].xres
    BY <1>3, <1>s, TakeMessage DEF MmeAuthentication, UpTrue
  <2>2. UNCHANGED <<mme_ctx, s6a, mme_w, s1mme_id>> /\ ToUe(c, 2, m.id, 0, 0, 0)
    BY <1>3, <2>1 DEF MmeAuthentication
  <2>3. down'[c][1].t = 2
    BY <1>t, Answers, <2>1, <2>2
  <2> QED
    BY <2>1, <2>2, <2>3 DEF Forgets, Claims, Gone
<1>4. CASE MmeSecurityComplete(c)
  <2>1. /\ ran[c].pc = "eps" /\ w.pc = "idle" /\ down[c] = <<>> /\ get_guti(c) = c
        /\ s6a' = [s6a EXCEPT ![c] = [k |-> "loc", x |-> mme_ctx[c].imsi]]
        /\ Wait(c, "loc", m.id, c) /\ UNCHANGED <<down, mme_ctx, s1mme_id>>
    BY <1>4, <1>s, TakeMessage DEF MmeSecurityComplete
  <2>3. s6a'[c].k = "loc" /\ mme_w'[c].pc = "loc"
    BY <1>t, <1>w, <2>1
  <2> QED
    BY <2>1, <2>3 DEF Forgets, Claims, Gone
<1>5. CASE MmeLocationUpdate(c)
  <2>1. /\ w.pc = "loc" /\ w.guti = c /\ ran[c].pc = "eps"
        /\ s6a' = [s6a EXCEPT ![c] = NoS6a] /\ Wait(c, "create", w.id, c)
        /\ UNCHANGED <<down, mme_ctx, s1mme_id>>
    BY <1>5, <1>g, <1>t, <1>v DEF MmeLocationUpdate, HandlerAt
  <2>2. s6a'[c].k = "none" /\ mme_w'[c].pc = "create"
    BY <1>t, <1>w, <2>1 DEF NoS6a
  <2> QED
    BY <2>1, <2>2 DEF Forgets, Claims, Gone
<1>6. CASE MmeCreateSession(c)
  <2>1. PICK r \in Replies(c) :
          /\ w.pc = "create" /\ UNCHANGED <<s6a, s1mme_id>> /\ Done(c)
          /\ ToUe(c, 3, w.id, r.teid, w.guti, r.ip)
    BY <1>6 DEF MmeCreateSession, HandlerAt
  <2>2. ran[c].pc = "eps" /\ mme_w'[c].pc = "idle" /\ down[c] = <<>>
    BY <1>d, <1>v, <2>1 DEF Answering
  <2>3. down'[c][1].t = 3
    BY <1>t, Answers, <2>1, <2>2
  <2> QED
    BY <2>1, <2>2, <2>3 DEF Forgets, Claims, Gone
<1>7. CASE MmeAttachComplete(c)
  <2>1. /\ ran[c].pc \in {"attached", "bye", "ho", "end"} /\ w.pc = "idle"
        /\ down[c] = <<>> /\ UNCHANGED <<down, s6a, s1mme_id>> /\ Wait(c, "modify", m.id, c)
    BY <1>7, <1>s, TakeMessage DEF MmeAttachComplete
  <2>2. mme_w'[c].pc = "modify" /\ ~Gone(c)
    BY <1>w, <2>1 DEF Gone
  <2> QED
    BY <2>1, <2>2, WorkerForgets
<1>8. CASE MmeModifyBearer(c)
  <2>1. w.pc = "modify" /\ UNCHANGED <<down, s6a, s1mme_id>> /\ Done(c)
    BY <1>8 DEF MmeModifyBearer, HandlerAt, sctpVars
  <2>2. mme_w'[c].pc = "idle" /\ ~Gone(c)
    BY <1>d, <1>v, <2>1 DEF Gone
  <2> QED
    BY <2>1, <2>2, WorkerForgets
<1>9. CASE MmeDetach(c)
  <2>1. /\ w.pc = "idle" /\ UNCHANGED <<down, s6a, mme_ctx, s1mme_id>> /\ m.id = ran[c].id
        /\ Wait(c, "detach", m.id, m.arg) \/ UNCHANGED mme_w
    BY <1>9, TakeMessage DEF MmeDetach, UpTrue
  <2>2. \/ mme_w'[c].pc = "detach" /\ mme_w'[c].id = ran[c].id
        \/ mme_w'[c].pc = "idle"
    BY <1>w, <2>1
  <2> QED
    BY <2>1, <2>2, WorkerForgets
(* The answer leaves before anything is removed.                           *)
<1>10. CASE MmeDetachAnswer(c)
  <2>1. /\ w.pc = "detach" /\ ran[c].pc = "bye" /\ UNCHANGED <<s6a, mme_ctx, s1mme_id>>
        /\ down[c] = <<>>
        /\ \/ Wait(c, "rem", w.id, w.guti) /\ ToUe(c, 5, w.id, 0, 0, 0)
           \/ Done(c) /\ UNCHANGED down
    BY <1>10, <1>v DEF MmeDetachAnswer, HandlerAt, Answering
  <2>2. CASE Done(c) /\ UNCHANGED down
    BY <1>d, <2>1, <2>2, WorkerForgets
  <2>3. CASE Wait(c, "rem", w.id, w.guti) /\ ToUe(c, 5, w.id, 0, 0, 0)
    <3>1. mme_w'[c].pc = "rem" /\ mme_w'[c].id = ran[c].id
      BY <1>w, <2>1, <2>3 DEF Forgets
    <3>2. down'[c] # <<>> /\ down'[c][1].t = 5
      BY <1>t, Answers, <2>1, <2>3
    <3>3. \A i \in UeId : s1mme_id'[i] = c => i = ran[c].id
      BY <2>1 DEF Forgets, Claims
    <3> QED
      BY <2>1, <3>1, <3>2, <3>3 DEF Forgets, Claims, Gone
  <2> QED
    BY <2>1, <2>2, <2>3
<1>11. CASE MmeDetachRemove(c)
  <2>1. /\ w.pc = "rem" /\ w.guti = c /\ UNCHANGED <<s6a, down>> /\ Done(c)
        /\ mme_ctx' = [mme_ctx EXCEPT ![c] = NoMmeCtx]
        /\ s1mme_id' = [s1mme_id EXCEPT ![w.id] = 0]
    BY <1>11, <1>g DEF MmeDetachRemove, HandlerAt, Forget, sctpVars
  <2>2. mme_ctx'[c] = NoMmeCtx /\ mme_w'[c].pc = "idle" /\ w.id \in UeId
    BY <1>t, <1>d, <2>1
  <2>3. /\ ran[c].pc \in {"off", "auth", "bye"} /\ (ran[c].pc = "auth" => down[c] = <<>>)
        /\ ran[c].pc = "bye" => down[c] # <<>>
    BY <1>v, <2>1 DEF Forgets
  <2>4. \A i \in UeId : s1mme_id[i] = c => i = w.id
    BY <2>1, <2>3 DEF Forgets, Claims
  <2>5. \A i \in UeId : s1mme_id'[i] # c
    BY <1>t, <2>1, <2>2, <2>4
  <2> QED
    BY <2>1, <2>2, <2>3, <2>5 DEF Forgets, Claims, Gone
<1>12. CASE MmeHandover(c) \/ MmeIgnore(c)
  <2>1. w.pc = "idle" /\ UNCHANGED <<down, s6a, mme_w, mme_ctx, s1mme_id>>
    BY <1>12 DEF MmeHandover, MmeIgnore, Receive, mmeOwn
  <2> QED
    BY <2>1, WorkerForgets
<1>13. CASE MmeHoRequest(c)
  <2>1. PICK h \in HoOp : w.pc = "idle" /\ Wait(c, h[2], m.id, get_guti(c))
    BY <1>13 DEF MmeHoRequest, Receive
  <2>2. /\ mme_w'[c].pc \in {"setup", "complete", "teardown"}
        /\ UNCHANGED <<down, s6a, mme_ctx, s1mme_id>>
    BY <1>13, <1>w, <2>1 DEF HoOp, MmeHoRequest
  <2> QED
    BY <2>1, <2>2, WorkerForgets
<1>14. CASE MmeHoAnswer(c)
  <2>1. /\ w.pc \in {"setup", "complete", "teardown"} /\ Done(c)
        /\ UNCHANGED <<down, s6a, mme_ctx, s1mme_id>>
    BY <1>14 DEF MmeHoAnswer, HandlerAt, HoOp
  <2>2. mme_w'[c].pc = "idle"
    BY <1>d, <2>1
  <2> QED
    BY <2>1, <2>2, WorkerForgets
<1> QED
  BY <1>1, <1>2, <1>3, <1>4, <1>5, <1>6, <1>7, <1>8, <1>9, <1>10, <1>11, <1>12, <1>13, <1>14
  DEF MmeStep

LEMMA HssForgets ==
  ASSUME LockInv, RegInv, ForgetInv, NEW c \in Conn, HssStep(c),
         UNCHANGED <<ran, mme_w, mme_ctx, s1mme_id>>
  PROVE  ForgetInv'
<1>1. CASE HssExit(c)
  BY <1>1 DEF HssExit, ForgetInv
<1>2. CASE ~HssExit(c)
  <2>t. /\ UEs \subseteq Conn /\ s6a \in [Conn -> S6a] /\ s6a[0] = NoS6a /\ Conn = UEs \cup {0}
    BY EnrolledTypes DEF LockInv, RegInv
  <2>1. /\ s6a[c].k \in {"autn", "loc", "insert"} /\ UNCHANGED <<hss_up, autn_info, down>>
        /\ hss_up /\ \E x : s6a' = [s6a EXCEPT ![c] = x]
    BY <1>2 DEF HssStep, HssAutnInfo, HssDeleteLoc, HssInsertLoc, Asked, hssOwn
  <2>2. c \in UEs /\ s6a[c] \in S6a
    BY <2>t, <2>1 DEF NoS6a
  <2>3. Provisioned' = Provisioned /\ Provisioned \subseteq UEs
    BY <2>1 DEF Provisioned
  <2>4. ASSUME NEW n \in Provisioned PROVE Forgets(n)'
    <3>1. n \in UEs /\ Forgets(n)
      BY <2>1, <2>3, <2>4 DEF ForgetInv
    <3>2. CASE n # c
      <4>1. s6a'[n] = s6a[n]
        BY <2>t, <2>1, <3>1, <3>2
      <4> QED
        BY <2>1, <3>1, <4>1, ForgetsStays
    <3>3. CASE n = c
      <4>1. s6a'[c].k \in {"autn", "autn_ok"} => s6a'[c].x = c
        <5>1. CASE HssAutnInfo(c)
          <6>1. s6a[c].x = c
            BY <3>1, <3>3, <5>1 DEF Forgets, HssAutnInfo, Asked
          <6>2. s6a' = [s6a EXCEPT ![c] = [k |-> "autn_ok", x |-> c]]
            BY <2>4, <3>3, <5>1, <6>1 DEF HssAutnInfo, get_autn_info
          <6> QED
            BY <2>t, <2>2, <6>2
        <5>2. CASE HssDeleteLoc(c) \/ HssInsertLoc(c)
          <6>1. s6a'[c].k \in {"insert", "loc_ok"}
            BY <2>t, <2>2, <5>2 DEF HssDeleteLoc, HssInsertLoc, S6a
          <6> QED
            BY <6>1
        <5> QED
          BY <1>2, <5>1, <5>2 DEF HssStep
      <4> QED
        BY <2>1, <3>1, <3>3, <4>1 DEF Forgets, Claims, Gone
    <3> QED
      BY <3>2, <3>3
  <2> QED
    BY <2>3, <2>4 DEF ForgetInv
<1> QED
  BY <1>1, <1>2

LEMMA ForgetInit == EpcInit => ForgetInv
<1> SUFFICES ASSUME EpcInit, NEW n \in Provisioned PROVE Forgets(n)
  BY DEF ForgetInv
<1>n. n \in UEs /\ n \in Conn /\ n \in Imsi /\ n # 0
  BY MmeIdentifiers DEF Provisioned
<1>1. /\ s6a[n] = NoS6a /\ mme_w[n].pc = "idle" /\ down[n] = <<>> /\ ran[n].pc = "off"
      /\ mme_ctx[n] = NoMmeCtx /\ \A i \in UeId : s1mme_id[i] = 0
  BY <1>n DEF EpcInit, SctpInit, MmeInit, RanInit
<1>2. s6a[n].k = "none"
  BY <1>1 DEF NoS6a
<1> QED
  BY <1>n, <1>1, <1>2 DEF Forgets, Claims, Gone

LEMMA ForgetNext ==
  ASSUME LockInv, RegInv, ForgetInv, [EpcNext]_epcVars
  PROVE  ForgetInv'
<1>t. /\ EpcTypeInv /\ MmeInv /\ MmeTypeInv /\ 0 \in Conn /\ Conn = UEs \cup {0} /\ 0 \notin UEs
      /\ \A n \in UEs : Turn(n)
  BY EnrolledTypes DEF LockInv, EpcInv, MmeInv
(* Only the HSS exits.                                                     *)
<1>h. ASSUME UNCHANGED <<hss_up, autn_info>>, \A n \in UEs : Forgets(n) => Forgets(n)'
      PROVE  ForgetInv'
  <2>1. Provisioned' = Provisioned /\ Provisioned \subseteq UEs
    BY <1>h DEF Provisioned
  <2> QED
    BY <1>h, <2>1 DEF ForgetInv
<1>1. CASE RanNext
  <2>1. UNCHANGED <<mme_w, mme_ctx, s1mme_id, hss_up, autn_info>>
    BY <1>1 DEF RanNext, mmeOwn, hssOwn
  <2>2. ASSUME NEW n \in UEs, RanUeStep(n) PROVE ForgetInv'
    <3>1. UNCHANGED s6a
      BY <2>2 DEF RanUeStep, RanInitialAttach, RanAuthenticate, RanSetSecurity,
                  RanSetEpsSession, RanDetach, RanDetached
    <3>2. ASSUME NEW m \in UEs, Forgets(m) PROVE Forgets(m)'
      <4>1. CASE m = n
        BY <2>1, <2>2, <3>1, <3>2, <4>1, RanUeForgets
      <4>2. CASE m # n
        <5>1. ran'[m] = ran[m] /\ down'[m] = down[m]
          BY <1>t, <2>2, <4>2, RanOthers
        <5> QED
          BY <2>1, <3>1, <3>2, <5>1, ForgetsStays
      <4> QED
        BY <4>1, <4>2
    <3> QED
      BY <1>h, <2>1, <3>2
  <2>3. ASSUME RanHoStep PROVE ForgetInv'
    <3>1. \A n \in UEs : Forgets(n) => Forgets(n)'
      BY <2>1, <2>3, RanHoForgets
    <3> QED
      BY <1>h, <2>1, <3>1
  <2> QED
    BY <1>1, <2>2, <2>3 DEF RanNext
<1>2. ASSUME NEW c \in UEs, MmeProcess(c) PROVE ForgetInv'
  <2>1. MmeStep(c) /\ UNCHANGED <<ran, hss_up, autn_info>> /\ c \in Conn
    BY <1>2, <1>t DEF MmeProcess, ranOwn, hssOwn
  <2>2. ASSUME NEW n \in UEs, Forgets(n) PROVE Forgets(n)'
    <3>1. CASE n = c
      BY <2>1, <2>2, <3>1, MmeForgets
    <3>2. CASE n # c
      <4>1. n \in Conn /\ mme_w'[n] = mme_w[n] /\ mme_ctx'[n] = mme_ctx[n]
        BY <1>t, <2>1, <3>2, OtherHandlers, OtherContexts
      <4>2. down'[n] = down[n] /\ s6a'[n] = s6a[n]
        BY <1>t, <2>1, <3>2, <4>1, OtherQueues, OtherExchanges
      <4>3. \A i \in UeId : s1mme_id'[i] = n => s1mme_id[i] = n
        BY <1>t, <2>1, <3>2, OtherIds
      <4> QED
        BY <2>1, <2>2, <4>1, <4>2, <4>3, ForgetsStays
    <3> QED
      BY <3>1, <3>2
  <2> QED
    BY <1>h, <2>1, <2>2
<1>3. ASSUME MmeProcess(0) PROVE ForgetInv'
  <2>1. MmeStep(0) /\ UNCHANGED <<ran, hss_up, autn_info>>
    BY <1>3 DEF MmeProcess, ranOwn, hssOwn
  <2>2. UNCHANGED <<mme_ctx, s1mme_id>>
    BY <1>t, <2>1, TargetStep
  <2>3. ASSUME NEW n \in UEs, Forgets(n) PROVE Forgets(n)'
    <3>1. n \in Conn /\ n # 0
      BY <1>t
    <3>2. mme_w'[n] = mme_w[n] /\ down'[n] = down[n] /\ s6a'[n] = s6a[n]
      BY <1>t, <2>1, <3>1, OtherHandlers, OtherQueues, OtherExchanges
    <3> QED
      BY <2>1, <2>2, <2>3, <3>2, ForgetsStays
  <2> QED
    BY <1>h, <2>1, <2>3
<1>4. ASSUME NEW c \in Conn, HssNext(c) PROVE ForgetInv'
  BY <1>4, HssForgets DEF HssNext, ranOwn, mmeOwn
<1>5. ASSUME UNCHANGED <<ran, down, s6a, mme_w, mme_ctx, s1mme_id, hss_up, autn_info>>
      PROVE  ForgetInv'
  BY <1>5, <1>h, ForgetsStays
<1>6. ASSUME NEW t, SgwProcess(t) \/ PgwProcess(t) PROVE ForgetInv'
  BY <1>5, <1>6 DEF SgwProcess, PgwProcess, sctpVars, ranOwn, mmeOwn, hssOwn
<1>7. CASE UNCHANGED epcVars
  BY <1>5, <1>7 DEF epcVars, sctpVars, ranOwn, mmeOwn, hssOwn
<1> QED
  BY <1>1, <1>2, <1>3, <1>4, <1>6, <1>7, <1>t DEF EpcNext

LEMMA ForgetInvariant == EpcSpec => [](LockInv /\ RegInv /\ ForgetInv)
<1>1. EpcInit => LockInv /\ RegInv /\ ForgetInv
  BY LockInit, RegInit, ForgetInit
<1>2. LockInv /\ RegInv /\ ForgetInv /\ [EpcNext]_epcVars => (LockInv /\ RegInv /\ ForgetInv)'
  BY LockNext, RegNext, ForgetNext
<1> QED
  BY <1>1, <1>2, PTL DEF EpcSpec

(* Once a detach has come to rest no table of the MME or of a gateway      *)
(* mentions the subscriber, whatever the attaches and detaches of the      *)
(* others are doing (the three handle_detach).                             *)
THEOREM EpcDetachedClean ==
  ASSUME Orderly
  PROVE  EpcSpec => []DetachedClean
<1>1. OrderlyInv /\ ForgetInv => DetachedClean
  <2> SUFFICES ASSUME OrderlyInv, ForgetInv, NEW n \in Provisioned, hss_up,
                      ran[n].pc = "off", Quiet(n)
               PROVE  /\ mme_ctx[n] = NoMmeCtx /\ \A i \in UeId : s1mme_id[i] # n
                      /\ \A itf \in Itf, x \in Teid : sgw_id[itf][x] # n
                      /\ sgw_ctx[n] = NoCtx /\ ~sgw_ho[n].in
                      /\ \A x \in Teid : pgw_s5[x] # n
                      /\ \A a \in Imsi : pgw_sgi[a] # n
                      /\ pgw_ctx[n] = NoPgwCtx
    BY DEF DetachedClean
  <2>t. /\ n \in UEs /\ n # 0 /\ Imsi = {0} \cup UEs
        /\ mme_w[n].pc = "idle" /\ (th.pc = "idle" \/ th.imsi # n)
        /\ (pw.pc = "idle" \/ pw.imsi # n)
    BY MmeIdentifiers DEF Quiet, Provisioned, Orderly, th, pw, Imsi
  <2>s. SgwExtra /\ PgwExtra /\ \A x \in UEs : SgwRow(x) /\ PgwRow(x)
    BY DEF OrderlyInv, SessInv
  <2>1. mme_ctx[n] = NoMmeCtx /\ \A i \in UeId : s1mme_id[i] # n
    <3>1. Forgets(n) /\ Gone(n)
      BY <2>t DEF ForgetInv, Gone
    <3> QED
      BY <2>t, <3>1 DEF Forgets, Claims
  <2>2. ~Present(n)
    BY DEF Present
  <2>3. /\ ~On(n, {"init", "wait_create", "rem_s11"}) /\ ~On(n, {"add_s1", "add_s5"})
        /\ ~On(n, {"add_s5", "rem_s1"}) /\ ~On(n, {"rem_s1", "rem_s5"})
        /\ ~On(n, {"wait_create"} \cup Tail11) /\ ~On(n, {"wait_create"})
    BY <2>t DEF On, Tail11
  <2>4. /\ ~POn(n, {"sgi", "ctx", "rem_s5"}) /\ ~POn(n, {"ctx", "rem_s5", "rem_sgi"})
        /\ ~POn(n, Tail5)
    BY <2>t DEF POn, Tail5
  <2>5. ~Linked(n) /\ \A itf \in Itf : ~Entry(itf, n)
    BY <2>2, <2>3 DEF Linked, Entry
  <2>6. sgw_ctx[n] = NoCtx /\ \A itf \in Itf : sgw_id[itf][n] = 0
    BY <2>t, <2>s, <2>2, <2>3, <2>5 DEF SgwRow
  <2>7. pgw_s5[n] = 0 /\ pgw_sgi[n] = 0 /\ pgw_ctx[n] = NoPgwCtx
    BY <2>t, <2>s, <2>4, <2>5 DEF PgwRow
  <2>8. \A x \in UEs \ {n} : /\ \A itf \in Itf : sgw_id[itf][x] # n
                             /\ pgw_s5[x] # n /\ pgw_sgi[x] # n
    <3> SUFFICES ASSUME NEW x \in UEs \ {n}
                 PROVE  /\ \A itf \in Itf : sgw_id[itf][x] # n
                        /\ pgw_s5[x] # n /\ pgw_sgi[x] # n
      OBVIOUS
    <3>1. \A itf \in Itf : sgw_id[itf][x] \in {x, 0}
      BY <2>s DEF SgwRow
    <3>2. pgw_s5[x] \in {x, 0} /\ pgw_sgi[x] \in {x, 0}
      BY <2>s DEF PgwRow
    <3> QED
      BY <2>t, <3>1, <3>2
(* The handover has not begun, if it is n's.                               *)
  <2>9. sgw_ho[n] = NoHo /\ (n = HoUE => sgw_id["s1"][HoUE + 1] = 0)
    <3>1. CASE n # HoUE
      BY <2>t, <3>1 DEF OrderlyInv, HoInv
    <3>2. CASE n = HoUE
      <4>1. PICK s \in 0 .. 14 : HoAt(s)
        BY <2>t, <3>2 DEF OrderlyInv, HoInv
      <4>2. s = 0
        BY <3>2, <4>1 DEF HoAt, HoRan
      <4> QED
        BY <3>2, <4>1, <4>2 DEF HoAt, HoSgw
    <3> QED
      BY <3>1, <3>2
  <2>10. \A itf \in Itf, x \in Teid \ UEs : sgw_id[itf][x] # n
    BY <2>s, <2>t, <2>9 DEF SgwExtra
  <2>11. ~sgw_ho[n].in
    BY <2>9 DEF NoHo
  <2>12. \A itf \in Itf, x \in Teid : sgw_id[itf][x] # n
    BY <2>t, <2>6, <2>8, <2>10
  <2>13. \A x \in Teid : pgw_s5[x] # n
    BY <2>t, <2>s, <2>7, <2>8 DEF PgwExtra
  <2>14. \A a \in Imsi : pgw_sgi[a] # n
    BY <2>t, <2>s, <2>7, <2>8 DEF PgwExtra
  <2> QED
    BY <2>1, <2>6, <2>7, <2>11, <2>12, <2>13, <2>14
<1> QED
  BY <1>1, OrderlyInvariant, ForgetInvariant, PTL
-----------------------------------------------------------------------------
(* A subscriber whose key the HSS does not hold gets no further than       *)
(* authentication: the token it is sent is not its own.                    *)
Stranger(n) ==
  /\ ran[n].pc \in {"off", "auth", "sec"}
  /\ ran[n].pc = "sec" => up[n] = <<>> /\ down[n] = <<>>
  /\ s6a[n].k = "autn" => s6a[n].x = n
  /\ s6a[n].k = "autn_ok" => s6a[n].x # n
  /\ ran[n].pc = "auth" /\ down[n] # <<>> => down[n][1].arg # n

StrangerInv == \A n \in UEs \ Provisioned : Stranger(n)

LEMMA StrangerStays ==
  ASSUME NEW n \in UEs, Stranger(n), ran'[n] = ran[n], up'[n] = up[n], down'[n] = down[n],
         s6a'[n] = s6a[n]
  PROVE  Stranger(n)'
BY DEF Stranger

LEMMA RanUeStranger ==
  ASSUME LockInv, NEW n \in UEs, RanUeStep(n), Stranger(n), UNCHANGED s6a
  PROVE  Stranger(n)'
<1>t. EpcTypeInv /\ Turn(n) /\ ran \in [UEs -> RanCtx] /\ ran[n].pc \in RanPc
  BY EnrolledTypes DEF LockInv, EpcInv
<1>o. ran[n].pc = "off" => down[n] = <<>>
  <2>1. n \in Conn
    BY EnrolledTypes, <1>t
  <2>2. down[n] # <<>> => down[n][1].t \in {1, 2, 3, 5}
    BY <1>t, <2>1, Queues DEF Down
  <2> QED
    BY <1>t, <2>2 DEF Turn, Expected
<1>d. ASSUME Rcv(n)
      PROVE  up[n] = <<>> /\ down'[n] = <<>> /\ down[n] # <<>> /\ Head(down[n]) = down[n][1]
  BY <1>d, <1>t, RcvQueue
<1>1. CASE RanInitialAttach(n)
  <2>1. ran[n].pc = "off" /\ ran'[n].pc = "auth" /\ down'[n] = <<>>
    BY <1>1, <1>t, <1>o DEF RanInitialAttach, RanAt, RanCtx
  <2> QED
    BY <2>1 DEF Stranger
<1>2. CASE RanAuthenticate(n)
  <2>1. ran[n].pc = "auth" /\ down'[n] = <<>> /\ up[n] = <<>> /\ Head(down[n]).arg # n
    BY <1>2, <1>d DEF RanAuthenticate, RanAt, Stranger
  <2>2. UNCHANGED up /\ ran'[n].pc \in {"off", "sec"}
    BY <1>2, <1>t, <2>1 DEF RanAuthenticate, RanCtx
  <2> QED
    BY <2>1, <2>2 DEF Stranger
<1>3. ~RanSetSecurity(n) /\ ~RanSetEpsSession(n) /\ ~RanDetach(n) /\ ~RanDetached(n)
  BY DEF RanSetSecurity, RanSetEpsSession, RanDetach, RanDetached, RanAt, Rcv, Stranger
<1> QED
  BY <1>1, <1>2, <1>3 DEF RanUeStep

LEMMA RanHoStranger ==
  ASSUME LockInv, RanHoStep, NEW n \in UEs, Stranger(n)
  PROVE  Stranger(n)'
<1>t. /\ ran \in [UEs -> RanCtx] /\ EpcInv /\ n # 0 /\ n \in Conn /\ up \in [Conn -> Seq(Up)]
  BY EnrolledTypes, MmeIdentifiers DEF LockInv, EpcTypeInv, EpcTypeOK, SctpTypeOK
<1>1. UNCHANGED <<s6a, down>>
  BY DEF RanHoStep, RanInitiateHandover, RanHandleHandover, RanConnect, RanAckHandover,
         RanIndirectTunnelComplete, RanCompleteHandover, RanRequestTearDown, sctpVars
<1>2. ran'[n] = ran[n] /\ up'[n] = up[n]
  <2>p. ran[n].pc \notin {"attached", "ho", "end"}
    BY DEF Stranger
  <2>0. ASSUME NEW t, NEW id, NEW arg, Send(0, t, id, arg) PROVE up'[n] = up[n]
    BY <1>t, <2>0 DEF Send
  <2>1. CASE RanInitiateHandover
    BY <1>t, <2>p, <2>1 DEF RanInitiateHandover, RanAt, Send
  <2>2. CASE RanCompleteHandover
    BY <1>t, <2>p, <2>0, <2>2 DEF RanCompleteHandover, RanAt
  <2>3. CASE RanRequestTearDown
    <3>1. HoUE \in UEs /\ ran[HoUE].pc = "end"
      BY <1>t, <2>3 DEF RanRequestTearDown, EpcInv, Completing, AtEnd
    <3> QED
      BY <1>t, <2>p, <2>3, <3>1 DEF RanRequestTearDown, Send
  <2>4. CASE RanAckHandover
    BY <2>0, <2>4 DEF RanAckHandover
  <2> QED
    BY <2>1, <2>2, <2>3, <2>4 DEF RanHoStep, RanHandleHandover, RanConnect,
                                  RanIndirectTunnelComplete, sctpVars
<1> QED
  BY <1>1, <1>2, StrangerStays

LEMMA MmeStranger ==
  ASSUME LockInv, RegInv, NEW c \in UEs, MmeStep(c), Stranger(c), UNCHANGED ran
  PROVE  Stranger(c)'
<1> DEFINE w == mme_w[c]
<1>t. /\ EpcTypeInv /\ Turn(c) /\ Knows(c) /\ c \in Conn /\ s6a \in [Conn -> S6a]
      /\ ran[c].pc \in {"off", "auth", "sec"} /\ HssExchange(c)
  BY EnrolledTypes DEF LockInv, EpcInv, Stranger, RegInv, Enrolled
<1>g. w.pc # "idle" => w.guti = c
  BY <1>t DEF Knows
<1>1. /\ w.pc \in {"idle", "rem", "autn"}
      /\ ran[c].pc = "sec" => w.pc = "idle"
      /\ w.pc = "autn" => ran[c].pc = "auth" /\ down[c] = <<>>
  BY <1>t DEF Turn, Serves, Answering
<1>2. ASSUME NEW t, Receive(c, t) PROVE t = 1 /\ ran[c].pc = "auth"
  <2>1. t \in Says[ran[c].pc] /\ up[c] # <<>>
    BY <1>2, TakeMessage DEF Receive
  <2> QED
    BY <1>t, <2>1 DEF Says, Stranger
<1>3. ran[c].pc # "sec"
  <2>1. ASSUME ran[c].pc = "sec" PROVE up[c] = <<>> /\ w.pc = "idle"
    BY <1>1, <2>1 DEF Stranger
  <2>2. /\ \A t : Receive(c, t) => up[c] # <<>>
        /\ \A p : HandlerAt(c, p) => mme_w[c].pc = p
    BY DEF Receive, HandlerAt
  <2>3. CASE MmeInitialAttach(c) \/ MmeAuthentication(c) \/ MmeSecurityComplete(c)
             \/ MmeAttachComplete(c) \/ MmeDetach(c) \/ MmeHandover(c)
    <3>1. \E t \in 1 .. 7 : Receive(c, t)
      BY <2>3 DEF MmeInitialAttach, MmeAuthentication, MmeSecurityComplete, MmeAttachComplete,
                  MmeDetach, MmeHandover
    <3> QED
      BY <2>1, <2>2, <3>1
  <2>4. CASE MmeHoRequest(c)
    BY <2>1, <2>2, <2>4 DEF MmeHoRequest
  <2>5. CASE MmeAutnInfo(c) \/ MmeLocationUpdate(c) \/ MmeCreateSession(c) \/ MmeModifyBearer(c)
             \/ MmeDetachAnswer(c) \/ MmeDetachRemove(c)
    <3>1. \E p \in S11Op \cup {"autn", "loc", "rem"} : HandlerAt(c, p)
      BY <2>5 DEF MmeAutnInfo, MmeLocationUpdate, MmeCreateSession, MmeModifyBearer,
                  MmeDetachAnswer, MmeDetachRemove, S11Op
    <3> QED
      BY <2>1, <2>2, <3>1 DEF S11Op
  <2>6. CASE MmeHoAnswer(c)
    <3>1. \E p \in S11Op : HandlerAt(c, p)
      BY <2>6 DEF MmeHoAnswer, HoOp, S11Op
    <3> QED
      BY <2>1, <2>2, <3>1 DEF S11Op
  <2>7. CASE MmeIgnore(c)
    BY <2>1, <2>7 DEF MmeIgnore
  <2> QED
    BY <2>3, <2>4, <2>5, <2>6, <2>7 DEF MmeStep
<1>4. CASE MmeInitialAttach(c)
  <2>1. Receive(c, 1) /\ Head(up[c]).arg = c
    BY <1>4, TakeMessage DEF MmeInitialAttach, UpTrue
  <2>2. s6a'[c] = [k |-> "autn", x |-> c] /\ UNCHANGED down
    BY <1>4, <1>t, <2>1 DEF MmeInitialAttach
  <2> QED
    BY <1>3, <2>2 DEF Stranger
<1>5. CASE MmeAutnInfo(c)
  <2>1. /\ s6a'[c] = NoS6a /\ s6a[c].x # c /\ down[c] = <<>> /\ ran[c].pc = "auth"
        /\ ToUe(c, 1, w.id, s6a[c].x, 0, 0)
    BY <1>5, <1>t, <1>1 DEF MmeAutnInfo, HandlerAt, Stranger
  <2>2. down'[c][1].arg = s6a[c].x
    BY <1>t, <2>1, Answers
  <2> QED
    BY <1>3, <2>1, <2>2 DEF Stranger, NoS6a
<1>6. CASE MmeDetachRemove(c) \/ MmeIgnore(c)
  <2>1. UNCHANGED <<s6a, down>>
    BY <1>6 DEF MmeDetachRemove, MmeIgnore, sctpVars
  <2> QED
    BY <1>3, <2>1 DEF Stranger
<1>7. ~MmeAuthentication(c) /\ ~MmeSecurityComplete(c) /\ ~MmeAttachComplete(c) /\ ~MmeDetach(c)
      /\ ~MmeHandover(c) /\ ~MmeHoRequest(c)
  BY <1>2 DEF MmeAuthentication, MmeSecurityComplete, MmeAttachComplete, MmeDetach, MmeHandover,
              MmeHoRequest, HoOp
<1>8. ~MmeLocationUpdate(c) /\ ~MmeCreateSession(c) /\ ~MmeModifyBearer(c) /\ ~MmeDetachAnswer(c)
      /\ ~MmeHoAnswer(c)
  <2>1. \A p \in {"loc", "create", "modify", "detach", "setup", "complete", "teardown"} :
          ~HandlerAt(c, p)
    BY <1>1 DEF HandlerAt
  <2> QED
    <3>1. ~MmeLocationUpdate(c) /\ ~MmeCreateSession(c) /\ ~MmeModifyBearer(c)
          /\ ~MmeDetachAnswer(c)
      BY <2>1 DEF MmeLocationUpdate, MmeCreateSession, MmeModifyBearer, MmeDetachAnswer
    <3>2. ~MmeHoAnswer(c)
      BY <2>1 DEF MmeHoAnswer, HoOp
    <3> QED
      BY <3>1, <3>2
<1> QED
  BY <1>4, <1>5, <1>6, <1>7, <1>8 DEF MmeStep

LEMMA HssStranger ==
  ASSUME LockInv, NEW c \in Conn, HssStep(c), NEW n \in UEs \ Provisioned, Stranger(n),
         UNCHANGED ran
  PROVE  Stranger(n)'
<1>t. n \in UEs /\ n # 0 /\ n \in Conn /\ s6a \in [Conn -> S6a] /\ s6a[n] \in S6a
  BY EnrolledTypes DEF LockInv
<1>1. UNCHANGED <<up, down>>
  BY DEF HssStep, HssAutnInfo, HssExit, HssDeleteLoc, HssInsertLoc
<1>2. CASE HssExit(c)
  <2>1. s6a'[n] = Closed(s6a[n])
    BY <1>2, <1>t DEF HssExit
  <2>2. s6a'[n].k # "autn" /\ (s6a'[n].k = "autn_ok" => s6a'[n].x # n)
    BY <1>t, <2>1 DEF Closed, Stranger, S6a
  <2> QED
    BY <1>1, <2>2 DEF Stranger
<1>3. CASE ~HssExit(c) /\ c # n
  <2>1. \E x : s6a' = [s6a EXCEPT ![c] = x]
    BY <1>3 DEF HssStep, HssAutnInfo, HssDeleteLoc, HssInsertLoc
  <2>2. s6a'[n] = s6a[n]
    BY <1>t, <1>3, <2>1
  <2> QED
    BY <1>1, <2>2, StrangerStays
<1>4. CASE HssAutnInfo(c) /\ c = n
  <2>1. s6a[n].x = n
    BY <1>4 DEF HssAutnInfo, Asked, Stranger
  <2>2. s6a'[n] = [k |-> "autn_ok", x |-> 0]
    BY <1>4, <1>t, <2>1 DEF HssAutnInfo, get_autn_info
  <2> QED
    BY <1>1, <1>t, <2>2 DEF Stranger
<1>5. CASE (HssDeleteLoc(c) \/ HssInsertLoc(c)) /\ c = n
  <2>1. s6a'[n].k \in {"insert", "loc_ok"}
    BY <1>5, <1>t DEF HssDeleteLoc, HssInsertLoc, S6a
  <2> QED
    BY <1>1, <2>1 DEF Stranger
<1> QED
  BY <1>2, <1>3, <1>4, <1>5 DEF HssStep

LEMMA StrangerInit == EpcInit => StrangerInv
<1> SUFFICES ASSUME EpcInit, NEW n \in UEs PROVE Stranger(n)
  BY DEF StrangerInv
<1>1. n \in Conn /\ s6a[n] = NoS6a /\ ran[n].pc = "off"
  BY MmeIdentifiers DEF EpcInit, SctpInit, RanInit
<1> QED
  BY <1>1 DEF Stranger, NoS6a

LEMMA StrangerNext ==
  ASSUME LockInv, RegInv, StrangerInv, [EpcNext]_epcVars
  PROVE  StrangerInv' /\ Provisioned' = Provisioned
<1>p. Provisioned' = Provisioned
  BY DEF EpcNext, RanNext, MmeProcess, HssNext, HssStep, HssAutnInfo, HssExit, HssDeleteLoc,
         HssInsertLoc, SgwProcess, PgwProcess, epcVars, hssOwn, Provisioned
<1> SUFFICES ASSUME NEW n \in UEs \ Provisioned PROVE Stranger(n)'
  BY <1>p DEF StrangerInv
<1>t. n \in UEs /\ n # 0 /\ n \in Conn /\ Stranger(n) /\ EpcTypeInv /\ MmeInv /\ MmeTypeInv
      /\ Conn = UEs \cup {0}
  BY EnrolledTypes DEF LockInv, StrangerInv, MmeInv
<1>1. ASSUME UNCHANGED <<sctpVars, ran>> PROVE Stranger(n)'
  BY <1>1, <1>t, StrangerStays DEF sctpVars
<1>2. ASSUME RanNext PROVE Stranger(n)'
  <2>1. ASSUME NEW m \in UEs, RanUeStep(m) PROVE Stranger(n)'
    <3>1. UNCHANGED s6a
      BY <2>1 DEF RanUeStep, RanInitialAttach, RanAuthenticate, RanSetSecurity, RanSetEpsSession,
                  RanDetach, RanDetached
    <3>2. CASE m = n
      BY <1>t, <2>1, <3>1, <3>2, RanUeStranger
    <3>3. CASE m # n
      <4>1. ran'[n] = ran[n] /\ down'[n] = down[n] /\ up'[n] = up[n]
        <5>1. EpcTypeInv /\ Turn(m) /\ m \in UEs
          BY <2>1 DEF LockInv, EpcInv
        <5>2. /\ \A d \in Conn \ {m} : up'[d] = up[d]
              /\ \A k \in UEs \ {m} : ran'[k] = ran[k] /\ down'[k] = down[k]
          BY <2>1, <5>1, RanOthers
        <5> QED
          BY <1>t, <3>3, <5>2
      <4> QED
        BY <1>t, <3>1, <4>1, StrangerStays
    <3> QED
      BY <3>2, <3>3
  <2> QED
    BY <1>2, <1>t, <2>1, RanHoStranger DEF RanNext
<1>3. ASSUME NEW c \in Conn, MmeProcess(c) PROVE Stranger(n)'
  <2>1. MmeStep(c) /\ UNCHANGED ran
    BY <1>3 DEF MmeProcess, ranOwn
  <2>2. CASE c = n
    BY <1>t, <2>1, <2>2, MmeStranger
  <2>3. CASE c # n
    BY <1>t, <2>1, <2>3, OtherQueues, OtherExchanges, StrangerStays
  <2> QED
    BY <2>2, <2>3
<1>4. ASSUME NEW c \in Conn, HssNext(c) PROVE Stranger(n)'
  BY <1>4, <1>t, HssStranger DEF HssNext, ranOwn
<1>5. ASSUME NEW t, SgwProcess(t) \/ PgwProcess(t) PROVE Stranger(n)'
  BY <1>5, <1>1 DEF SgwProcess, PgwProcess, ranOwn
<1>6. CASE UNCHANGED epcVars
  BY <1>6, <1>1 DEF epcVars, ranOwn
<1> QED
  BY <1>2, <1>3, <1>4, <1>5, <1>6 DEF EpcNext
-----------------------------------------------------------------------------
(* The phase of a session, when the tables that route it hold n or nothing *)
(* and an active session is routed.                                        *)
Route(n) ==
  /\ mme_ctx[n].teid = n
  /\ sgw_id["s11"][n] = n /\ sgw_id["s1"][n] = n
  /\ sgw_ctx[n].s5 = n /\ pgw_s5[n] = n

PhaseOf(n) ==
  IF Active(n) THEN IF sgw_ho[n].in THEN "handover" ELSE "active"
  ELSE IF Route(n) THEN "routed"
  ELSE IF mme_ctx[n] # NoMmeCtx THEN "known" ELSE "none"

LEMMA PhaseRead ==
  ASSUME Orderly, OrderlyInv, NEW n \in UEs
  PROVE  SessionPhase(n) = PhaseOf(n) /\ (Active(n) => Route(n))
<1>t. n # 0 /\ Given(n) /\ SgwRow(n) /\ SgwExtra /\ PgwExtra
  BY MmeIdentifiers DEF OrderlyInv, SessInv
<1>z. 0 \in Teid \ UEs /\ \A m \in UEs : m \in Nat
  BY MmeIdentifiers DEF Teid
<1>1. /\ mme_ctx[n].teid \in {0, n} /\ mme_ctx[n].ul = mme_ctx[n].teid
      /\ sgw_ctx[n].s5 \in {0, n}
  BY <1>t DEF Given, SgwRow
<1>2. sgw_id["s11"][0] = 0 /\ sgw_id["s1"][0] = 0 /\ pgw_s5[0] = 0
  BY <1>t, <1>z DEF SgwExtra, PgwExtra, Itf
<1>3. Routed(n) <=> Route(n)
  BY <1>t, <1>1, <1>2 DEF Routed, Route, SignallingPath, UplinkPath
<1>4. Active(n) => Routed(n) /\ DownlinkPath(n)
  BY SessionsRouted DEF SessionRouted
<1> QED
  BY <1>3, <1>4 DEF SessionPhase, PhaseOf

(* A step of a session, and a step of the core: it moves one session at    *)
(* most.                                                                   *)
Stays(n) == PhaseOf(n)' = PhaseOf(n)

Passage(n, from, to) == PhaseOf(n) = from /\ PhaseOf(n)' = to

Moved(n) ==
  \/ Stays(n)
  \/ Passage(n, "none", "known") \/ Passage(n, "known", "none")
  \/ n \in Provisioned /\ Passage(n, "known", "routed")
  \/ Passage(n, "routed", "active")
  \/ Passage(n, "active", "handover") \/ Passage(n, "handover", "active")
  \/ Passage(n, "active", "routed")
  \/ Passage(n, "routed", "known") \/ Passage(n, "routed", "none")

OneMoves ==
  \E m \in UEs \cup {0} :
    (m \in UEs => Moved(m)) /\ \A n \in UEs \ {m} : Stays(n)

(* The gateways leave what the MME knows, and route nobody anew.           *)
LEMMA GatewayMoves ==
  ASSUME UNCHANGED <<mme_w, mme_ctx>>, NEW m \in UEs \cup {0},
         \A n \in UEs \ {m} : (Route(n)' <=> Route(n)) /\ sgw_ho'[n].in = sgw_ho[n].in,
         m \in UEs => (Route(m)' => Route(m)) /\ (Active(m)' => Route(m)')
  PROVE  OneMoves
<1>1. \A n \in UEs : Active(n)' <=> Active(n)
  BY DEF Active
<1>2. ASSUME NEW n \in UEs \ {m} PROVE Stays(n)
  BY <1>1 DEF Stays, PhaseOf
<1>3. m \in UEs => Moved(m)
  BY <1>1 DEF Moved, Stays, Passage, PhaseOf
<1> QED
  BY <1>2, <1>3 DEF OneMoves
-----------------------------------------------------------------------------
(* The serving gateway: a creation concerns a session the MME does not     *)
(* know yet, a removal one that is no longer there.                        *)
RowStays(n) ==
  /\ sgw_id'["s11"][n] = sgw_id["s11"][n] /\ sgw_id'["s1"][n] = sgw_id["s1"][n]
  /\ sgw_ctx'[n].s5 = sgw_ctx[n].s5 /\ sgw_ho'[n].in = sgw_ho[n].in

LEMMA SgwMoves ==
  ASSUME Orderly, OrderlyInv, SgwStep(SgwT)
  PROVE  \E m \in UEs \cup {0} :
           /\ \A n \in UEs \ {m} : RowStays(n)
           /\ m \in UEs => \/ mme_ctx[m].teid = 0
                           \/ /\ sgw_id'["s11"][m] \in {0, sgw_id["s11"][m]}
                              /\ sgw_id'["s1"][m] \in {0, sgw_id["s1"][m]}
                              /\ sgw_ctx'[m].s5 \in {0, sgw_ctx[m].s5}
<1>t. /\ LockInv /\ EpcTypeInv /\ SessInv /\ HoInv /\ Exchange11
      /\ \A m \in UEs : m # 0 /\ m \in Teid /\ m \in Imsi /\ m \in Conn
      /\ sgw_id \in [Itf -> [Teid -> Imsi]] /\ sgw_ctx \in [Imsi -> Ctx]
      /\ sgw_ho \in [Imsi -> HoCtx]
      /\ "s11" \in Itf /\ "s1" \in Itf /\ "s5" \in Itf
  BY SessTypes, SgwTypes DEF OrderlyInv, LockInv, SessInv, EpcTypeInv, EpcTypeOK, SgwTypeOK, Itf
(* Nothing a session's phase depends on.                                   *)
<1>n. ASSUME \A n \in UEs : RowStays(n)
      PROVE  \E m \in UEs \cup {0} : m \notin UEs /\ \A n \in UEs \ {m} : RowStays(n)
  BY <1>n, <1>t
(* Before the answer to a creation the MME has no TEID.                    *)
<1>c. ASSUME NEW n \in UEs, mme_w[n].pc = "create"
      PROVE  mme_ctx[n].teid = 0
  <2>1. Asks(n) /\ Given(n) /\ n \in Conn
    BY <1>c, <1>t DEF Asks, S11Op, SessInv
  <2>2. mme_w[n].guti = n /\ ran[n].pc = "eps" /\ down[n] = <<>>
    BY <1>c, <1>t, <2>1, Subjects
  <2>3. ~MPresent(n)
    BY <1>c, <2>2 DEF MPresent
  <2> QED
    BY <2>1, <2>3 DEF Given
<1>w. ASSUME th.pc \in CreatePc
      PROVE  th.imsi \in UEs /\ th.teid = th.imsi /\ mme_ctx[th.imsi].teid = 0
  <2>1. Working
    BY <1>w DEF Working, CreatePc, Tail11
  <2>2. PICK c \in Conn : /\ th.imsi \in UEs /\ mme_w[c].pc = "create" /\ c = th.imsi
                          /\ th.teid = th.imsi
    BY <1>w, <1>t, <2>1, AtWork
  <2> QED
    BY <1>c, <2>2
<1>1. CASE SgwCreateSession(SgwT)
  <2>1. PICK d \in s11 :
          /\ d.op = "create" /\ sgw_id' = [sgw_id EXCEPT !["s11"][d.arg] = d.imsi]
          /\ UNCHANGED <<sgw_ctx, sgw_ho>>
    BY <1>1 DEF SgwCreateSession, update_itfid
  <2>2. PICK c \in Conn : d.sock = Sock11(c)
    BY <1>t DEF Exchange11
  <2>3. Asks(c) /\ d = Question(c)
    BY <1>t, <2>2 DEF Exchange11, Line11
  <2>4. mme_w[c].pc = "create"
    BY <2>1, <2>3 DEF Question
  <2>5. PICK k \in UEs : k = mme_w[c].guti /\ c = k /\ d.imsi = k /\ d.arg = k
    BY <2>3, <2>4, <1>t, Subjects DEF Question
  <2>6. mme_ctx[k].teid = 0
    BY <1>c, <2>4, <2>5
  <2>7. \A n \in UEs \ {k} : RowStays(n)
    BY <1>t, <2>1, <2>5 DEF RowStays
  <2> QED
    BY <2>6, <2>7
<1>2. CASE SgwCreateItf(SgwT) \/ SgwCreateCtx(SgwT) \/ SgwCreateRsp(SgwT) \/ SgwCreateTimeout(SgwT)
  <2>1. th.pc \in CreatePc
    BY <1>2 DEF SgwCreateItf, SgwCreateCtx, SgwCreateRsp, SgwCreateTimeout, SgwCreateFinish,
                At, CreatePc, th
  <2>2. PICK k \in UEs : k = th.imsi /\ th.teid = k /\ mme_ctx[k].teid = 0
    BY <1>w, <2>1
  <2>3. /\ UNCHANGED sgw_ho
        /\ sgw_id' = sgw_id \/ \E itf \in Itf : sgw_id' = [sgw_id EXCEPT ![itf][k] = k]
        /\ \/ sgw_ctx' = sgw_ctx
           \/ sgw_ctx' = [sgw_ctx EXCEPT ![k].in = TRUE, ![k].teid = k]
           \/ \E x : sgw_ctx' = [sgw_ctx EXCEPT ![k].in = TRUE, ![k].s5 = x]
    BY <1>2, <1>t, <2>2 DEF SgwCreateItf, SgwCreateCtx, SgwCreateRsp, SgwCreateTimeout,
                SgwCreateFinish, update_itfid, th
  <2>4. \A n \in UEs \ {k} : RowStays(n)
    BY <1>t, <2>3 DEF RowStays
  <2> QED
    BY <2>2, <2>4
<1>3. CASE SgwLookup(SgwT) \/ SgwExit(SgwT) \/ SgwDetach(SgwT) \/ SgwDetachRsp(SgwT)
           \/ SgwDetachTimeout(SgwT)
  <2>1. UNCHANGED <<sgw_id, sgw_ctx, sgw_ho>>
    BY <1>3 DEF SgwLookup, SgwExit, SgwDetach, SgwDetachRsp, SgwDetachTimeout
  <2> QED
    BY <1>n, <2>1 DEF RowStays
<1>4. CASE SgwModifyBearer(SgwT)
  <2>1. /\ UNCHANGED <<sgw_id, sgw_ho>>
        /\ sgw_ctx' = [sgw_ctx EXCEPT ![th.imsi].in = TRUE, ![th.imsi].enb = TRUE,
                                      ![th.imsi].dl = th.req.arg]
    BY <1>4 DEF SgwModifyBearer, th
  <2>2. \A n \in UEs : sgw_ctx'[n].s5 = sgw_ctx[n].s5
    BY <1>t, <2>1 DEF Ctx
  <2> QED
    BY <1>n, <2>1, <2>2 DEF RowStays
<1>5. CASE SgwHoSetup(SgwT) \/ SgwHoCompletion(SgwT) \/ SgwHoErase(SgwT)
  <2>1. th.pc \in {"setup", "complete", "ho_erase"}
    BY <1>5 DEF SgwHoSetup, SgwHoCompletion, SgwHoErase, At, th
  <2>2. Working
    BY <2>1 DEF Working, Tail11
  <2>3. PICK k \in UEs : k = th.imsi
    BY <1>t, <2>2, AtWork
  <2>4. /\ UNCHANGED sgw_id
        /\ \E h : sgw_ho' = [sgw_ho EXCEPT ![k] = h]
        /\ \/ sgw_ctx' = sgw_ctx \/ sgw_ctx' = [sgw_ctx EXCEPT ![k].in = TRUE]
           \/ \E x : sgw_ctx' = [sgw_ctx EXCEPT ![k].in = TRUE, ![k].dl = x]
    BY <1>5, <1>t, <2>3 DEF SgwHoSetup, SgwHoCompletion, SgwHoErase, Touch, th
  <2>5. \A n \in UEs : sgw_ctx'[n].s5 = sgw_ctx[n].s5
    BY <1>t, <2>4 DEF Ctx
  <2>6. \A n \in UEs \ {k} : RowStays(n)
    BY <1>t, <2>4, <2>5 DEF RowStays
  <2> QED
    BY <2>4, <2>5, <2>6
<1>6. CASE SgwHoAdd(SgwT) \/ SgwTeardown(SgwT)
  <2>1. th.pc \in {"ho_add", "teardown"}
    BY <1>6 DEF SgwHoAdd, SgwTeardown, At, th
  <2>2. Working
    BY <2>1 DEF Working, Tail11
  <2>3. PICK k \in UEs : /\ k = th.imsi /\ k = HoUE
                         /\ th.pc = "ho_add" => th.teid = k
                         /\ th.pc = "teardown" => th.req.arg = k + 1
    <3>1. PICK c \in Conn :
            /\ th.imsi \in UEs /\ th.imsi = HoUE /\ mme_w[c].guti = th.imsi
            /\ th.pc = "ho_add" => th.teid = th.imsi
            /\ th.req = Question(c)
            /\ th.pc = "teardown" => mme_w[c].pc = "teardown"
      BY <1>t, <2>1, <2>2, AtWork
    <3> QED
      BY <3>1 DEF Question
  <2>4. k + 1 \notin UEs
    BY <2>3 DEF Orderly
  <2>5. UNCHANGED sgw_ho /\ \E x : sgw_id' = [sgw_id EXCEPT !["s1"][k + 1] = x]
    <3>1. CASE SgwHoAdd(SgwT)
      BY <2>3, <3>1 DEF SgwHoAdd, At, update_itfid, IndirectTeid, th
    <3>2. CASE SgwTeardown(SgwT)
      BY <2>3, <3>2 DEF SgwTeardown, At, rem_itfid, th
    <3> QED
      BY <1>6, <3>1, <3>2
  <2>6. sgw_ctx' = sgw_ctx \/ sgw_ctx' = [sgw_ctx EXCEPT ![k].in = TRUE]
    BY <1>6, <2>3 DEF SgwHoAdd, SgwTeardown, Touch, th
  <2>7. \A n \in UEs : sgw_ctx'[n].s5 = sgw_ctx[n].s5
    <3>1. CASE sgw_ctx' = sgw_ctx
      BY <3>1
    <3>2. CASE sgw_ctx' = [sgw_ctx EXCEPT ![k].in = TRUE]
      BY <1>t, <3>2 DEF Ctx
    <3> QED
      BY <2>6, <3>1, <3>2
  <2>8. \A n \in UEs : /\ sgw_id'["s1"][n] = sgw_id["s1"][n]
                       /\ sgw_id'["s11"][n] = sgw_id["s11"][n]
    BY <1>t, <2>4, <2>5
  <2> QED
    BY <1>n, <2>5, <2>7, <2>8 DEF RowStays
<1>7. CASE SgwDetachItf(SgwT) \/ SgwDetachCtx(SgwT)
  <2>1. th.pc \in Tail11
    BY <1>7 DEF SgwDetachItf, SgwDetachCtx, At, Tail11, th
  <2>2. PICK k \in UEs : k = th.imsi /\ th.teid = k
    BY <1>t, <2>1 DEF Exchange11
  <2>3. /\ UNCHANGED sgw_ho
        /\ sgw_id' = sgw_id \/ \E itf \in Itf : sgw_id' = [sgw_id EXCEPT ![itf][k] = 0]
        /\ sgw_ctx' = sgw_ctx \/ sgw_ctx' = [sgw_ctx EXCEPT ![k] = NoCtx]
    BY <1>7, <1>t, <2>2 DEF SgwDetachItf, SgwDetachCtx, rem_itfid, th
  <2>4. \A n \in UEs \ {k} : RowStays(n)
    BY <1>t, <2>3 DEF RowStays
  <2>5. /\ sgw_id'["s11"][k] \in {0, sgw_id["s11"][k]}
        /\ sgw_id'["s1"][k] \in {0, sgw_id["s1"][k]}
    BY <1>t, <2>3
  <2>6. sgw_ctx'[k].s5 \in {0, sgw_ctx[k].s5}
    BY <1>t, <2>3 DEF NoCtx
  <2> QED
    BY <2>4, <2>5, <2>6
<1> QED
  BY <1>1, <1>2, <1>3, <1>4, <1>5, <1>6, <1>7 DEF SgwStep

LEMMA SgwPhases ==
  ASSUME Orderly, OrderlyInv, SgwProcess(SgwT), \A n \in UEs : (Active(n) => Route(n))'
  PROVE  OneMoves
<1>t. UNCHANGED <<mme_w, mme_ctx, pgw_s5>> /\ SgwStep(SgwT) /\ \A n \in UEs : n # 0
  BY MmeIdentifiers DEF SgwProcess, mmeOwn, pgwOwn
<1>1. PICK m \in UEs \cup {0} :
        /\ \A n \in UEs \ {m} : RowStays(n)
        /\ m \in UEs => \/ mme_ctx[m].teid = 0
                        \/ /\ sgw_id'["s11"][m] \in {0, sgw_id["s11"][m]}
                           /\ sgw_id'["s1"][m] \in {0, sgw_id["s1"][m]}
                           /\ sgw_ctx'[m].s5 \in {0, sgw_ctx[m].s5}
  BY <1>t, SgwMoves
<1>2. \A n \in UEs \ {m} : (Route(n)' <=> Route(n)) /\ sgw_ho'[n].in = sgw_ho[n].in
  BY <1>t, <1>1 DEF RowStays, Route
<1>3. m \in UEs => (Route(m)' => Route(m)) /\ (Active(m)' => Route(m)')
  BY <1>t, <1>1 DEF Route
<1> QED
  BY <1>t, <1>2, <1>3, GatewayMoves

LEMMA PgwPhases ==
  ASSUME Orderly, OrderlyInv, PgwProcess(PgwT), \A n \in UEs : (Active(n) => Route(n))'
  PROVE  OneMoves
<1>t. /\ UNCHANGED <<mme_w, mme_ctx, sgw_id, sgw_ctx, sgw_ho>> /\ PgwStep(PgwT)
      /\ \A n \in UEs : n # 0 /\ n \in Teid
      /\ EpcTypeInv /\ Exchange5 /\ LockInv /\ HoInv /\ SessInv
      /\ pgw_s5 \in [Teid -> Imsi]
  BY MmeIdentifiers, PacketTypes DEF PgwProcess, mmeOwn, sgwOwn, OrderlyInv, LockInv, SessInv, Teid
<1>s. ASSUME NEW m \in UEs \cup {0}, \A n \in UEs \ {m} : pgw_s5'[n] = pgw_s5[n],
             m \in UEs => mme_ctx[m].teid = 0 \/ pgw_s5'[m] \in {0, pgw_s5[m]}
      PROVE  OneMoves
  <2>1. \A n \in UEs \ {m} : (Route(n)' <=> Route(n)) /\ sgw_ho'[n].in = sgw_ho[n].in
    BY <1>t, <1>s DEF Route
  <2>2. m \in UEs => (Route(m)' => Route(m)) /\ (Active(m)' => Route(m)')
    BY <1>t, <1>s DEF Route
  <2> QED
    BY <1>t, <2>1, <2>2, GatewayMoves
<1>1. CASE PgwCreateSession(PgwT)
  <2>1. PICK q \in s5 :
          q.op = "create" /\ pgw_s5' = [pgw_s5 EXCEPT ![q.teid] = q.imsi]
    BY <1>1 DEF PgwCreateSession
  <2>2. q = Question5 /\ Asking5
    BY <1>t DEF Exchange5
  <2>3. th.pc = "wait_create" /\ q.teid = th.imsi
    BY <2>1, <2>2 DEF Question5, Asking5
  <2>4. Working
    BY <2>3 DEF Working, Tail11
  <2>5. PICK k \in UEs : k = th.imsi /\ mme_w[k].pc = "create"
    BY <1>t, <2>3, <2>4, AtWork DEF CreatePc
  <2>6. Asks(k) /\ k \in Conn
    BY <2>5, MmeIdentifiers DEF Asks, S11Op
  <2>7. mme_w[k].guti = k /\ ran[k].pc = "eps" /\ down[k] = <<>>
    BY <1>t, <2>5, <2>6, Subjects
  <2>8. mme_ctx[k].teid = 0
    <3>1. ~MPresent(k)
      BY <2>5, <2>7 DEF MPresent
    <3> QED
      BY <1>t, <3>1 DEF SessInv, Given
  <2>9. \A n \in UEs \ {k} : pgw_s5'[n] = pgw_s5[n]
    BY <1>t, <2>1, <2>3, <2>5
  <2> QED
    BY <1>s, <2>8, <2>9
<1>2. CASE PgwDetachS5(PgwT)
  <2>1. pw.pc = "rem_s5" /\ pgw_s5' = [pgw_s5 EXCEPT ![pw.teid] = 0]
    BY <1>2 DEF PgwDetachS5, pw
  <2>2. PICK k \in UEs : k = pw.imsi /\ pw.teid = k
    BY <1>t, <2>1 DEF Exchange5, Tail5
  <2>3. (\A n \in UEs \ {k} : pgw_s5'[n] = pgw_s5[n]) /\ pgw_s5'[k] = 0
    BY <1>t, <2>1, <2>2
  <2> QED
    BY <1>s, <2>3
<1>3. CASE ~PgwCreateSession(PgwT) /\ ~PgwDetachS5(PgwT)
  <2>1. UNCHANGED pgw_s5
    BY <1>t, <1>3 DEF PgwStep, PgwCreateSgi, PgwCreateCtx, PgwDetach, PgwDetachAnswer,
                      PgwDetachSgi, PgwDetachCtx
  <2> QED
    BY <1>t, <1>s, <2>1
<1> QED
  BY <1>1, <1>2, <1>3
-----------------------------------------------------------------------------
(* The MME: the worker of a connection moves its own subscriber's session. *)
LEMMA WorkerMoves ==
  ASSUME Orderly, OrderlyInv, StrangerInv, NEW c \in UEs, MmeStep(c),
         UNCHANGED <<ran, sgw_id, sgw_ctx, sgw_ho, pgw_s5>>,
         Active(c) => Route(c), (Active(c) => Route(c))'
  PROVE  Moved(c)
<1> DEFINE w == mme_w[c]
           m == Head(up[c])
<1>t. /\ LockInv /\ EpcTypeInv /\ RegInv /\ SessInv /\ HoInv /\ Turn(c) /\ Knows(c) /\ Given(c)
      /\ Exchange11 /\ c \in Conn /\ c # 0 /\ c \in Imsi /\ s1mme_id[0] = 0 /\ mme_up
      /\ mme_w \in [Conn -> [pc : MmePc, id : UeId, guti : Imsi]]
      /\ mme_ctx \in [Imsi -> MmeCtx] /\ mme_ctx[c] \in MmeCtx /\ ran[c].pc \in RanPc
  BY SessTypes DEF OrderlyInv, LockInv, EpcInv, SessInv, MmeInv
<1>g. w.pc # "idle" => w.guti = c
  BY <1>t DEF Knows
<1>w. ASSUME NEW pc, NEW id, NEW guti, Wait(c, pc, id, guti) PROVE mme_w'[c].pc = pc
  BY <1>t, <1>w DEF Wait
<1>d. Done(c) => mme_w'[c].pc = "idle"
  BY <1>w DEF Done
<1>k. ASSUME NEW t, Receive(c, t)
      PROVE  w.pc = "idle" /\ t \in Says[ran[c].pc] /\ (t # 1 => get_guti(c) = c)
  BY <1>t, <1>k, TakeMessage
(* The phase depends on this much of what the MME knows.                   *)
<1>e. ASSUME mme_ctx'[c].teid = mme_ctx[c].teid, Active(c)' <=> Active(c)
      PROVE  Moved(c)
  <2>1. Route(c)' <=> Route(c)
    BY <1>e DEF Route
  <2> QED
    BY <1>e, <2>1 DEF Moved, Stays, Passage, PhaseOf
<1>q. ASSUME w.pc \notin {"detach", "rem"}, mme_w'[c].pc \notin {"detach", "rem"},
             mme_ctx'[c].teid = mme_ctx[c].teid, mme_ctx'[c].ecm = mme_ctx[c].ecm
      PROVE  Moved(c)
  BY <1>e, <1>q DEF Active
<1>1. CASE MmeInitialAttach(c)
  <2>1. Receive(c, 1) /\ m.arg = c
    BY <1>1, <1>t, TakeMessage DEF MmeInitialAttach, UpTrue
  <2>2. Wait(c, "autn", NextUeId, c) /\ mme_ctx' = [mme_ctx EXCEPT ![c].imsi = c]
    BY <1>1, <2>1 DEF MmeInitialAttach
  <2>3. mme_ctx'[c].teid = mme_ctx[c].teid /\ mme_ctx'[c].ecm = mme_ctx[c].ecm
    BY <1>t, <2>2 DEF MmeCtx
  <2> QED
    BY <1>k, <1>w, <1>q, <2>1, <2>2, <2>3
<1>2. CASE MmeAutnInfo(c)
  <2>1. w.pc = "autn" /\ Done(c) /\ mme_ctx' = [mme_ctx EXCEPT ![c].xres = s6a[c].x]
    BY <1>2, <1>g DEF MmeAutnInfo, HandlerAt
  <2>2. mme_ctx'[c].teid = mme_ctx[c].teid /\ mme_ctx'[c].ecm = mme_ctx[c].ecm
    BY <1>t, <2>1 DEF MmeCtx
  <2> QED
    BY <1>d, <1>q, <2>1, <2>2
<1>3. CASE MmeAuthentication(c)
  <2>1. Receive(c, 2) /\ m.arg = mme_ctx[get_guti(c)].xres
    BY <1>3, <1>t, TakeMessage DEF MmeAuthentication, UpTrue
  <2>2. UNCHANGED <<mme_ctx, mme_w>>
    BY <1>3, <2>1 DEF MmeAuthentication
  <2> QED
    BY <1>k, <1>q, <2>1, <2>2
<1>4. CASE MmeSecurityComplete(c)
  <2>1. /\ Receive(c, 3) /\ UNCHANGED mme_ctx /\ Wait(c, "loc", m.id, get_guti(c))
    BY <1>4 DEF MmeSecurityComplete
  <2> QED
    BY <1>k, <1>w, <1>q, <2>1
<1>5. CASE MmeLocationUpdate(c)
  <2>1. w.pc = "loc" /\ UNCHANGED mme_ctx /\ Wait(c, "create", w.id, w.guti)
    BY <1>5, <1>g, <1>t DEF MmeLocationUpdate, HandlerAt
  <2> QED
    BY <1>w, <1>q, <2>1
<1>6. CASE MmeCreateSession(c)
  <2>1. /\ w.pc = "create" /\ w.guti = c /\ Done(c)
        /\ \E x : mme_ctx' = [mme_ctx EXCEPT ![c].teid = x, ![c].ul = x]
    BY <1>6, <1>g DEF MmeCreateSession, HandlerAt
  <2>2. ran[c].pc = "eps" /\ down[c] = <<>>
    <3>1. w.pc \in Serves[ran[c].pc] /\ (w.pc \in Answering => down[c] = <<>>)
      BY <1>t DEF Turn
    <3> QED
      BY <1>t, <2>1, <3>1 DEF Serves, Answering, RanPc
  <2>3. ~MPresent(c)
    BY <2>1, <2>2 DEF MPresent
  <2>4. mme_ctx[c].teid = 0 /\ mme_ctx[c].ecm = 0
    <3>1. mme_ctx[c].teid = 0 /\ mme_ctx[c].emm = 0
      BY <1>t, <2>3 DEF Given
    <3> QED
      BY <1>t, <3>1 DEF Given
  <2>5. mme_ctx[c].imsi = c
    BY <1>t, <2>2 DEF RegInv, Enrolled, Emm, Authenticating
  <2>6. mme_ctx[c] # NoMmeCtx
    BY <1>t, <2>5 DEF NoMmeCtx
  <2>7. mme_ctx'[c].ecm = 0 /\ mme_ctx'[c].imsi = c
    BY <1>t, <2>1, <2>4, <2>5 DEF MmeCtx
  <2>8. ~Active(c) /\ ~Active(c)' /\ ~Route(c) /\ mme_ctx'[c] # NoMmeCtx
    BY <1>t, <2>4, <2>7 DEF Active, Route, NoMmeCtx
  <2>9. c \in Provisioned
    BY <2>2 DEF StrangerInv, Stranger
  <2> QED
    BY <2>6, <2>8, <2>9 DEF Moved, Stays, Passage, PhaseOf
<1>7. CASE MmeAttachComplete(c)
  <2>0. Receive(c, 4) /\ get_guti(c) = c
    BY <1>7, <1>k DEF MmeAttachComplete
  <2>1. /\ Receive(c, 4) /\ Wait(c, "modify", m.id, c)
        /\ mme_ctx' = [mme_ctx EXCEPT ![c].dl = m.arg, ![c].emm = 1]
    BY <1>7, <2>0 DEF MmeAttachComplete
  <2>2. mme_ctx'[c].teid = mme_ctx[c].teid /\ mme_ctx'[c].ecm = mme_ctx[c].ecm
    BY <1>t, <2>1 DEF MmeCtx
  <2> QED
    BY <1>k, <1>w, <1>q, <2>1, <2>2
(* The downlink is there; no handover has begun.                           *)
<1>8. CASE MmeModifyBearer(c)
  <2>1. /\ w.pc = "modify" /\ w.guti = c /\ Done(c)
        /\ mme_ctx' = [mme_ctx EXCEPT ![c].ecm = 1] \/ UNCHANGED mme_ctx
    BY <1>8, <1>g DEF MmeModifyBearer, HandlerAt
  <2>2. mme_ctx[c].ecm = 0
    BY <1>t, <2>1 DEF Given
  <2>3. ~Active(c) /\ mme_ctx'[c].teid = mme_ctx[c].teid
    BY <1>t, <2>1, <2>2 DEF Active, MmeCtx
  <2>4. ~sgw_ho[c].in
    <3>1. CASE c # HoUE
      BY <1>t, <3>1 DEF HoInv, NoHo
    <3>2. CASE c = HoUE
      <4>1. PICK s \in 0 .. 14 : HoAt(s)
        BY <1>t, <3>2 DEF HoInv
      <4>2. s < 2
        BY <2>1, <3>2, <4>1 DEF HoAt, HoWorker
      <4> QED
        BY <3>2, <4>1, <4>2 DEF HoAt, HoSgw, NoHo
    <3> QED
      BY <3>1, <3>2
  <2>5. Route(c)' <=> Route(c)
    BY <2>3 DEF Route
  <2> QED
    BY <2>3, <2>4, <2>5 DEF Moved, Stays, Passage, PhaseOf
(* The detach begins; the handover, if there was one, is over.             *)
<1>9. CASE MmeDetach(c)
  <2>0. Receive(c, 5) /\ get_guti(c) = c
    BY <1>9, <1>k DEF MmeDetach
  <2>1. Receive(c, 5) /\ UNCHANGED mme_ctx /\ Wait(c, "detach", m.id, m.arg)
    BY <1>9, <1>t, <2>0 DEF MmeDetach
  <2>2. ran[c].pc = "bye"
    <3>1. 5 \in Says[ran[c].pc]
      BY <1>k, <2>1
    <3> QED
      BY <1>t, <3>1 DEF Says, RanPc
  <2>3. ~sgw_ho[c].in
    <3>1. CASE c # HoUE
      BY <1>t, <3>1 DEF HoInv, NoHo
    <3>2. CASE c = HoUE
      <4>1. PICK s \in 0 .. 14 : HoAt(s)
        BY <1>t, <3>2 DEF HoInv
      <4>2. s = 0
        BY <2>2, <3>2, <4>1 DEF HoAt, HoRan
      <4> QED
        BY <3>2, <4>1, <4>2 DEF HoAt, HoSgw, NoHo
    <3> QED
      BY <3>1, <3>2
  <2>4. ~Active(c)' /\ (Route(c)' <=> Route(c))
    BY <1>w, <2>1 DEF Active, Route
  <2> QED
    BY <2>1, <2>3, <2>4 DEF Moved, Stays, Passage, PhaseOf
<1>10. CASE MmeDetachAnswer(c)
  <2>1. PICK r \in Replies(c) :
          /\ w.pc = "detach" /\ SgwReply(c, r) /\ UNCHANGED mme_ctx
          /\ IF r.ok THEN ToUe(c, 5, w.id, 0, 0, 0) /\ Wait(c, "rem", w.id, w.guti)
                     ELSE Done(c) /\ UNCHANGED down
    BY <1>10 DEF MmeDetachAnswer, HandlerAt
  <2>2. r = Reply(c)
    <3>1. Asks(c)
      BY <2>1 DEF Asks, S11Op
    <3> QED
      BY <1>t, <2>1, <3>1, TakeReply
  <2>3. mme_w'[c].pc = "rem"
    BY <1>w, <2>1, <2>2 DEF Reply
  <2>4. ~Active(c) /\ ~Active(c)'
    BY <2>1, <2>3 DEF Active
  <2> QED
    BY <1>e, <2>1, <2>4
<1>11. CASE MmeDetachRemove(c)
  <2>1. w.pc = "rem" /\ mme_ctx' = [mme_ctx EXCEPT ![c] = NoMmeCtx]
    BY <1>11, <1>g DEF MmeDetachRemove, HandlerAt, Forget
  <2>2. mme_ctx'[c] = NoMmeCtx
    BY <1>t, <2>1
  <2>3. ~Active(c) /\ ~Active(c)' /\ ~Route(c)'
    BY <1>t, <2>1, <2>2 DEF Active, Route, NoMmeCtx
  <2> QED
    BY <2>2, <2>3 DEF Moved, Stays, Passage, PhaseOf
<1>12. CASE MmeHandover(c)
  <2>1. Receive(c, 7) /\ UNCHANGED <<mme_w, mme_ctx>>
    BY <1>12 DEF MmeHandover, mmeOwn
  <2> QED
    BY <1>k, <1>q, <2>1
<1>13. CASE MmeHoRequest(c)
  <2>1. PICK h \in HoOp : Receive(c, h[1]) /\ Wait(c, h[2], m.id, get_guti(c)) /\ UNCHANGED mme_ctx
    BY <1>13 DEF MmeHoRequest
  <2>2. mme_w'[c].pc \in {"setup", "complete", "teardown"}
    BY <1>w, <2>1 DEF HoOp
  <2> QED
    BY <1>k, <1>q, <2>1, <2>2
<1>14. CASE MmeHoAnswer(c)
  <2>1. PICK h \in HoOp : w.pc = h[2] /\ Done(c) /\ UNCHANGED mme_ctx
    BY <1>14 DEF MmeHoAnswer, HandlerAt
  <2>2. w.pc \in {"setup", "complete", "teardown"} /\ mme_w'[c].pc = "idle"
    BY <1>d, <2>1 DEF HoOp
  <2> QED
    BY <1>q, <2>1, <2>2
<1>15. CASE MmeIgnore(c)
  <2>1. w.pc = "idle" /\ UNCHANGED <<mme_w, mme_ctx>>
    BY <1>15 DEF MmeIgnore, mmeOwn
  <2> QED
    BY <1>q, <2>1
<1> QED
  BY <1>1, <1>2, <1>3, <1>4, <1>5, <1>6, <1>7, <1>8, <1>9, <1>10, <1>11, <1>12, <1>13, <1>14,
     <1>15 DEF MmeStep

LEMMA MmePhases ==
  ASSUME Orderly, OrderlyInv, StrangerInv, NEW c \in Conn, MmeProcess(c),
         \A n \in UEs : (Active(n) => Route(n)) /\ (Active(n) => Route(n))'
  PROVE  OneMoves
<1>t. /\ LockInv /\ EpcTypeInv /\ MmeInv /\ MmeTypeInv /\ MmeStep(c) /\ Conn = UEs \cup {0} /\ 0 \notin UEs
      /\ UNCHANGED <<ran, sgw_id, sgw_ctx, sgw_ho, pgw_s5>>
  BY MmeIdentifiers DEF OrderlyInv, LockInv, MmeInv, MmeProcess, ranOwn, sgwOwn, pgwOwn
<1>1. ASSUME NEW n \in UEs, n # c PROVE Stays(n)
  <2>1. mme_w'[n] = mme_w[n]
    BY <1>1, <1>t, OtherHandlers
  <2>2. mme_ctx'[n] = mme_ctx[n]
    <3>1. CASE c = 0
      <4>1. UNCHANGED mme_ctx
        BY <1>t, <3>1, TargetDoes DEF MmeHoRequest, MmeHoAnswer, MmeIgnore, mmeOwn
      <4> QED
        BY <4>1
    <3>2. CASE c \in UEs
      BY <1>1, <1>t, <3>2, OtherContexts
    <3> QED
      BY <1>t, <3>1, <3>2
  <2> QED
    BY <1>t, <2>1, <2>2 DEF Stays, PhaseOf, Active, Route
<1>2. c \in UEs => Moved(c)
  BY <1>t, WorkerMoves
<1> QED
  BY <1>t, <1>1, <1>2 DEF OneMoves

LEMMA CoreMoves ==
  ASSUME Orderly, OrderlyInv, StrangerInv, [EpcNext]_epcVars,
         \A n \in UEs : (Active(n) => Route(n)) /\ (Active(n) => Route(n))'
  PROVE  OneMoves
<1>n. ASSUME UNCHANGED <<mme_w, mme_ctx, sgw_id, sgw_ctx, sgw_ho, pgw_s5>> PROVE OneMoves
  <2>1. \A n \in UEs : Stays(n)
    BY <1>n DEF Stays, PhaseOf, Active, Route
  <2> QED
    BY <2>1, MmeIdentifiers DEF OneMoves
<1>1. CASE RanNext \/ (\E c \in Conn : HssNext(c)) \/ UNCHANGED epcVars
  <2>1. UNCHANGED <<mmeOwn, sgwOwn, pgwOwn>>
    BY <1>1 DEF RanNext, HssNext, epcVars
  <2> QED
    BY <1>n, <2>1 DEF mmeOwn, sgwOwn, pgwOwn
<1>2. CASE \E c \in Conn : MmeProcess(c)
  BY <1>2, MmePhases
<1>3. CASE \E t \in S11Threads : SgwProcess(t)
  <2>1. SgwProcess(SgwT)
    BY <1>3 DEF Orderly
  <2> QED
    BY <2>1, SgwPhases
<1>4. CASE \E t \in S5Threads : PgwProcess(t)
  <2>1. PgwProcess(PgwT)
    BY <1>4 DEF Orderly
  <2> QED
    BY <2>1, PgwPhases
<1> QED
  BY <1>1, <1>2, <1>3, <1>4 DEF EpcNext
-----------------------------------------------------------------------------
(* The five programs implement the life of a session.                      *)
THEOREM EpcSessionLife ==
  ASSUME Orderly
  PROVE  EpcSpec => SessionLife
<1> DEFINE Phases == \A n \in UEs : SessionPhase(n) = PhaseOf(n) /\ (Active(n) => Route(n))
<1>1. EpcInit => Promised!SessionInit
  <2> SUFFICES ASSUME EpcInit PROVE Promised!SessionInit
    OBVIOUS
  <2>1. OrderlyInv
    BY LockInit, RegInit, SessInit DEF OrderlyInv
  <2>2. ASSUME NEW n \in UEs PROVE SessionPhase(n) = "none"
    <3>1. n \in Imsi /\ n # 0 /\ mme_ctx[n] = NoMmeCtx
      BY MmeIdentifiers DEF EpcInit, MmeInit
    <3>2. PhaseOf(n) = "none"
      BY <3>1 DEF PhaseOf, Active, Route, NoMmeCtx
    <3> QED
      BY <2>1, <3>2, PhaseRead
  <2> QED
    BY <2>2 DEF Promised!SessionInit, Provisioned
<1>2. OrderlyInv => Phases
  BY PhaseRead
<1>3. OrderlyInv /\ StrangerInv /\ Phases /\ Phases' /\ Provisioned' = Provisioned
      /\ [EpcNext]_epcVars => [Promised!SessionNext]_(Promised!sessionVars)
  <2> SUFFICES ASSUME OrderlyInv, StrangerInv, Phases, Phases',
                      Provisioned' = Provisioned, [EpcNext]_epcVars
               PROVE  Promised!SessionNext \/ UNCHANGED Promised!sessionVars
    OBVIOUS
  <2> DEFINE phase == [n \in UEs |-> SessionPhase(n)]
  <2>1. PICK m \in UEs \cup {0} : (m \in UEs => Moved(m)) /\ \A n \in UEs \ {m} : Stays(n)
    BY CoreMoves DEF OneMoves
  <2>2. \A n \in UEs : phase[n] = PhaseOf(n) /\ phase'[n] = PhaseOf(n)'
    OBVIOUS
  <2>3. CASE m \notin UEs \/ Stays(m)
    <3>1. \A n \in UEs : phase'[n] = phase[n]
      BY <2>1, <2>2, <2>3 DEF Stays
    <3>2. phase' = phase
      BY <3>1
    <3> QED
      BY <3>2 DEF Promised!sessionVars
  <2>4. CASE m \in UEs /\ ~Stays(m)
    <3>1. ASSUME NEW from, NEW to, Passage(m, from, to) PROVE Promised!Moves(m, from, to)
      <4>1. phase[m] = from /\ phase'[m] = to /\ \A n \in UEs \ {m} : phase'[n] = phase[n]
        BY <2>1, <2>2, <2>4, <3>1 DEF Passage, Stays
      <4>2. phase' = [phase EXCEPT ![m] = to]
        BY <2>4, <4>1
      <4> QED
        BY <4>1, <4>2 DEF Promised!Moves
    <3>2. \/ Promised!Attach(m) \/ Promised!Reject(m) \/ Promised!Admit(m) \/ Promised!Activate(m)
          \/ Promised!Prepare(m) \/ Promised!Switch(m) \/ Promised!Release(m)
          \/ Promised!Withdraw(m)
      BY <2>1, <2>4, <3>1 DEF Moved, Promised!Attach, Promised!Reject, Promised!Admit,
         Promised!Activate, Promised!Prepare, Promised!Switch, Promised!Release,
         Promised!Withdraw
    <3> QED
      BY <2>4, <3>2 DEF Promised!SessionNext
  <2> QED
    BY <2>3, <2>4
<1>4. EpcSpec => [](OrderlyInv /\ sgw_up)
  BY OrderlyInvariant
<1>5. EpcInit => LockInv /\ RegInv /\ StrangerInv
  BY LockInit, RegInit, StrangerInit
<1>6. LockInv /\ RegInv /\ StrangerInv /\ [EpcNext]_epcVars
        => (LockInv /\ RegInv /\ StrangerInv)' /\ Provisioned' = Provisioned
  BY LockNext, RegNext, StrangerNext
<1> QED
  BY <1>1, <1>2, <1>3, <1>4, <1>5, <1>6, PTL
     DEF EpcSpec, SessionLife, Promised!SessionSpec
-----------------------------------------------------------------------------
(* The user plane.  The signalling sees nothing of it, but for the end of  *)
(* the serving gateway.                                                    *)
UserKeeps ==
  UNCHANGED <<sctpVars, gtpVars, ranOwn, mmeOwn, hssOwn, pgwOwn,
              sgw_id, sgw_ctx, sgw_ho, sgw_th, s5port>>

LEMMA SignallingKept ==
  ASSUME OrderlyInv, UserKeeps, sgw_up' \in BOOLEAN
  PROVE  OrderlyInv'
<1>k. UNCHANGED <<up, down, toRan, s6a, s11, s11r, s5, s5r, ran, ranS, ranT,
                  mme_up, mme_ctx, mme_w, s1mme_id, loc_info, hss_up,
                  sgw_id, sgw_ctx, sgw_ho, sgw_th, pgw_s5, pgw_sgi, pgw_ctx, pgw_th>>
  BY DEF UserKeeps, sctpVars, gtpVars, ranOwn, mmeOwn, hssOwn, pgwOwn
<1>t. LockInv /\ RegInv /\ SessInv /\ HoInv /\ EpcTypeInv /\ MmeInv /\ EpcInv
  BY DEF OrderlyInv, LockInv
<1>1. EpcTypeInv'
  BY <1>t
  DEF UserKeeps, sctpVars, gtpVars, ranOwn, mmeOwn, hssOwn, pgwOwn, EpcTypeInv, EpcTypeOK,
      SctpTypeOK, GtpTypeOK, RanTypeOK, MmeTypeOK, HssTypeOK, SgwTypeOK, PgwTypeOK, CtxOwn, SgwMaking
<1>2. EpcInv'
  BY <1>t DEF EpcInv, Completing, AtEnd, Turn, Knows, Apart, UpTrue, DownTrue, UserKeeps, sctpVars,
              ranOwn, mmeOwn
<1>3. MmeInv'
  <2>1. UNCHANGED mmeVars
    BY DEF UserKeeps, mmeVars
  <2>2. [MmeNext]_mmeVars
    BY <2>1
  <2> QED
    BY <1>t, <2>2, MmeNextInv
<1>4. RegInv'
  BY <1>t, <1>k, EnrolledStays DEF RegInv
<1>5. SessInv' /\ HoInv'
  BY <1>t, HssSession DEF UserKeeps, sctpVars, gtpVars
<1> QED
  BY <1>1, <1>2, <1>3, <1>4, <1>5 DEF OrderlyInv, LockInv
-----------------------------------------------------------------------------
(* The gateways never write a context for the subscriber 0, whom a lookup  *)
(* returns that finds nobody.                                              *)
Nobody == sgw_ctx[0] = NoCtx /\ sgw_ho[0] = NoHo /\ pgw_ctx[0] = NoPgwCtx

LEMMA SgwNobody ==
  ASSUME Orderly, LockInv, SessInv, HoInv, NEW t \in S11Threads, SgwProcess(t), Nobody
  PROVE  Nobody'
<1>t. /\ EpcTypeInv /\ 0 \notin UEs /\ 0 \in Imsi
      /\ sgw_ctx \in [Imsi -> Ctx] /\ sgw_ho \in [Imsi -> HoCtx]
      /\ UNCHANGED pgw_ctx /\ SgwStep(t)
  BY MmeIdentifiers DEF LockInv, EpcTypeInv, EpcTypeOK, SgwTypeOK, SgwProcess, pgwOwn
<1>1. sgw_th[t].pc # "idle" => sgw_th[t].imsi \in UEs
  <2>1. sgw_th[t] = th
    BY DEF Orderly, th
  <2>2. CASE Working
    BY <2>1, <2>2, AtWork
  <2>3. CASE th.pc \in Tail11
    BY <2>1, <2>3 DEF SessInv, Exchange11
  <2> QED
    BY <2>1, <2>2, <2>3 DEF Working
<1>2. sgw_th[t].pc # "idle" => sgw_th[t].imsi # 0
  BY <1>t, <1>1
<1>3. sgw_ctx'[0] = sgw_ctx[0]
  BY <1>t, <1>2 DEF SgwStep, SgwCreateSession, SgwCreateItf, SgwCreateCtx, SgwCreateRsp,
     SgwCreateTimeout, SgwCreateFinish, SgwLookup, SgwModifyBearer, SgwExit, SgwHoSetup, SgwHoAdd,
     SgwHoCompletion, SgwHoErase, SgwTeardown, SgwDetach, SgwDetachRsp, SgwDetachTimeout,
     SgwDetachItf, SgwDetachCtx, Touch, At
<1>4. sgw_ho'[0] = sgw_ho[0]
  BY <1>t, <1>2 DEF SgwStep, SgwCreateSession, SgwCreateItf, SgwCreateCtx, SgwCreateRsp,
     SgwCreateTimeout, SgwCreateFinish, SgwLookup, SgwModifyBearer, SgwExit, SgwHoSetup, SgwHoAdd,
     SgwHoCompletion, SgwHoErase, SgwTeardown, SgwDetach, SgwDetachRsp, SgwDetachTimeout,
     SgwDetachItf, SgwDetachCtx, At
<1> QED
  BY <1>t, <1>3, <1>4 DEF Nobody

LEMMA PgwNobody ==
  ASSUME Orderly, LockInv, SessInv, HoInv, NEW t \in S5Threads, PgwProcess(t), Nobody
  PROVE  Nobody'
<1>t. /\ EpcTypeInv /\ 0 \notin UEs /\ 0 \in Imsi /\ pgw_ctx \in [Imsi -> PgwCtx]
      /\ UNCHANGED <<sgw_ctx, sgw_ho>> /\ PgwStep(t) /\ pw \in PgwThread
  BY MmeIdentifiers, PacketTypes DEF LockInv, EpcTypeInv, EpcTypeOK, PgwTypeOK, PgwProcess, sgwOwn
<1>1. pgw_th[t] = pw
  BY DEF Orderly, pw
<1>2. pw.pc = "answer" => pw.imsi \in UEs
  <2>1. pw.pc = "answer" => th.pc = "wait_detach" /\ pw.imsi = th.imsi
    BY DEF SessInv, Exchange5
  <2>2. th.pc = "wait_detach" => Working
    BY DEF Working, Tail11
  <2> QED
    BY <2>1, <2>2, AtWork
<1>3. pw.pc \in {"sgi", "ctx"} \cup Tail5 => pw.imsi \in UEs
  BY DEF SessInv, Exchange5
<1>4. pgw_th[t].pc \in {"ctx", "answer", "rem_ctx"} => pgw_th[t].imsi # 0
  BY <1>t, <1>1, <1>2, <1>3 DEF Tail5
<1>5. pgw_ctx'[0] = pgw_ctx[0]
  BY <1>t, <1>4 DEF PgwStep, PgwCreateSession, PgwCreateSgi, PgwCreateCtx, PgwDetach,
                    PgwDetachAnswer, PgwDetachS5, PgwDetachSgi, PgwDetachCtx
<1> QED
  BY <1>t, <1>5 DEF Nobody

(* The traffic monitor knows the tunnel of every subscriber that attached. *)
Uplinked(n) ==
  /\ uplink_info[n] \in {0, n}
  /\ ran[n].pc \in {"attached", "bye", "ho", "end"} => uplink_info[n] = n

LEMMA RanUplinked ==
  ASSUME LockInv, SessInv, RanNext, \A n \in UEs : Uplinked(n)
  PROVE  \A n \in UEs : Uplinked(n)'
<1>t. /\ EpcTypeInv /\ ran \in [UEs -> RanCtx] /\ uplink_info \in [Imsi -> Teid]
      /\ \A n \in UEs : n \in Imsi /\ Turn(n) /\ Given(n)
  BY MmeIdentifiers
  DEF LockInv, EpcTypeInv, EpcTypeOK, RanTypeOK, EpcInv, SessInv
<1>1. ASSUME NEW n \in UEs, RanUeStep(n), NEW m \in UEs PROVE Uplinked(m)'
  <2>1. CASE RanSetEpsSession(n)
    <3>1. down[n] # <<>> /\ Head(down[n]) = down[n][1]
      BY <2>1, <1>t, RcvQueue DEF RanSetEpsSession
    <3>2. down[n][1].t = 3
      BY <2>1, <3>1, <1>t DEF RanSetEpsSession, RanAt, Turn, Expected
    <3>3. down[n][1].arg = n /\ down[n][1].ip = n
      BY <3>1, <3>2, <1>t DEF Given
    <3>4. /\ uplink_info' = [uplink_info EXCEPT ![n] = n]
          /\ m # n => ran'[m].pc = ran[m].pc
      BY <2>1, <3>1, <3>3, <1>t DEF RanSetEpsSession
    <3> QED
      BY <3>4, <1>t DEF Uplinked
  <2>2. ASSUME UNCHANGED uplink_info, ran'[m].pc = ran[m].pc \/ ran'[m].pc \in {"off", "auth", "sec", "eps"}
                                      \/ ran[m].pc = "attached"
        PROVE  Uplinked(m)'
    BY <2>2, <1>t DEF Uplinked
  <2>3. CASE RanInitialAttach(n)
    BY <2>2, <2>3, <1>t DEF RanInitialAttach, RanCtx
  <2>4. CASE RanAuthenticate(n)
    BY <2>2, <2>4, <1>t DEF RanAuthenticate, RanCtx
  <2>5. CASE RanSetSecurity(n)
    BY <2>2, <2>5, <1>t DEF RanSetSecurity, RanCtx
  <2>6. CASE RanDetach(n)
    BY <2>2, <2>6, <1>t DEF RanDetach, RanAt, RanCtx
  <2>7. CASE RanDetached(n)
    BY <2>2, <2>7, <1>t DEF RanDetached, RanCtx
  <2> QED
    BY <1>1, <2>1, <2>3, <2>4, <2>5, <2>6, <2>7 DEF RanUeStep
<1>2. ASSUME RanHoStep, NEW m \in UEs PROVE Uplinked(m)'
  <2>1. UNCHANGED uplink_info
    BY <1>2 DEF RanHoStep, RanInitiateHandover, RanHandleHandover, RanConnect, RanAckHandover,
                RanIndirectTunnelComplete, RanCompleteHandover, RanRequestTearDown
  <2>2. ran'[m].pc = ran[m].pc \/ ran[m].pc \in {"attached", "ho"}
    <3>1. CASE UNCHANGED ran
      BY <3>1
    <3>2. CASE RanInitiateHandover
      BY <3>2, <1>t DEF RanInitiateHandover, RanAt, RanCtx
    <3>3. CASE RanCompleteHandover
      BY <3>3, <1>t DEF RanCompleteHandover, RanAt, RanCtx
    <3>4. CASE RanRequestTearDown
      BY <3>4, <1>t DEF RanRequestTearDown, RanCtx
    <3> QED
      BY <1>2, <3>1, <3>2, <3>3, <3>4
      DEF RanHoStep, RanHandleHandover, RanConnect, RanAckHandover, RanIndirectTunnelComplete
  <2> QED
    BY <2>1, <2>2, <1>t DEF Uplinked
<1> QED
  BY <1>1, <1>2 DEF RanNext

(* The tunnel a serving gateway holds towards the eNodeB is the            *)
(* subscriber's own.                                                       *)
Downlinked(n) == sgw_ctx[n].dl \in {0, n}

LEMMA SgwDownlinked ==
  ASSUME Orderly, LockInv, SessInv, HoInv, NEW t \in S11Threads, SgwProcess(t),
         \A n \in UEs : Downlinked(n)
  PROVE  \A n \in UEs : Downlinked(n)'
<1>t. /\ EpcTypeInv /\ UEs \subseteq Imsi /\ sgw_ctx \in [Imsi -> Ctx] /\ SgwStep(t)
  BY MmeIdentifiers DEF LockInv, EpcTypeInv, EpcTypeOK, SgwTypeOK, SgwProcess
<1>u. sgw_th[t] = th
  BY DEF Orderly, th
<1> SUFFICES ASSUME NEW n \in UEs, sgw_ctx'[n].dl # sgw_ctx[n].dl
             PROVE  sgw_ctx'[n].dl \in {0, n}
  BY DEF Downlinked
<1>1. CASE SgwModifyBearer(t)
  <2>1. /\ th.pc = "modify" /\ th.imsi = n /\ sgw_ctx'[n].dl = th.req.arg
    BY <1>1, <1>t, <1>u DEF SgwModifyBearer, At
  <2>2. Working
    BY <2>1 DEF Working, Tail11
  <2>3. mme_w[n].pc = "modify" /\ mme_w[n].guti = n /\ th.req = Question(n)
    BY <2>1, <2>2, AtWork
  <2> QED
    BY <2>1, <2>3 DEF Question
<1>2. CASE SgwHoCompletion(t)
  <2>1. /\ th.pc = "complete" /\ th.imsi = n /\ sgw_ctx'[n].dl = sgw_ho[n].dl
    BY <1>2, <1>t, <1>u DEF SgwHoCompletion, At
  <2>2. Working
    BY <2>1 DEF Working, Tail11
  <2>3. mme_w[0].pc = "complete" /\ n = HoUE /\ ~Replied(0)
    BY <2>1, <2>2, AtWork
  <2>4. PICK s \in 0 .. 14 : HoAt(s)
    BY <2>3 DEF HoInv
  <2>5. s = 10
    BY <2>3, <2>4 DEF HoAt, HoWorker
  <2>6. sgw_ho[n].dl = n
    BY <2>3, <2>4, <2>5 DEF HoAt, HoSgw
  <2> QED
    BY <2>1, <2>6
<1>3. CASE SgwDetachCtx(t)
  BY <1>3, <1>t DEF SgwDetachCtx, NoCtx
<1>c. sgw_ctx \in [Imsi -> Ctx] /\ n \in Imsi /\ SgwStep(t)
  BY <1>t
<1>d. sgw_ctx[n] \in Ctx
  BY <1>c
<1>4. ~SgwCreateCtx(t)
  <2>1. ASSUME SgwCreateCtx(t)
        PROVE  sgw_ctx' = [sgw_ctx EXCEPT ![th.imsi].in = TRUE, ![th.imsi].teid = th.teid]
    BY <2>1, <1>u DEF SgwCreateCtx
  <2> QED
    BY <2>1, <1>c, <1>d DEF Ctx
<1>5. ~SgwHoSetup(t) /\ ~SgwTeardown(t)
  <2>1. ASSUME SgwHoSetup(t) \/ SgwTeardown(t)
        PROVE  sgw_ctx' = [sgw_ctx EXCEPT ![th.imsi].in = TRUE]
    BY <2>1, <1>u DEF SgwHoSetup, SgwTeardown, Touch
  <2> QED
    BY <2>1, <1>c, <1>d DEF Ctx
<1>6. ~SgwCreateRsp(t) /\ ~SgwCreateTimeout(t)
  <2>1. ASSUME NEW teid, NEW ip, SgwCreateFinish(t, teid, ip) PROVE FALSE
    <3>1. sgw_ctx' = [sgw_ctx EXCEPT ![th.imsi].in = TRUE, ![th.imsi].s5 = teid]
      BY <2>1, <1>u DEF SgwCreateFinish
    <3> QED
      BY <3>1, <1>c, <1>d DEF Ctx
  <2> QED
    BY <2>1 DEF SgwCreateRsp, SgwCreateTimeout
<1> QED
  BY <1>c, <1>1, <1>2, <1>3, <1>4, <1>5, <1>6
  DEF SgwStep, SgwCreateSession, SgwCreateItf, SgwLookup, SgwExit, SgwHoAdd, SgwHoErase, SgwDetach,
      SgwDetachRsp, SgwDetachTimeout, SgwDetachItf
-----------------------------------------------------------------------------
(* A packet carries its subscriber's address, and its tunnel or none.      *)
Carries(p) ==
  /\ p.ip = p.of /\ p.imsi \in {0, p.of} /\ p.teid \in {0, p.of}
  /\ p.at \in {"s1", "s5d"} => p.teid = p.of

UserInv ==
  /\ OrderlyInv /\ Nobody /\ UserTypeOK
  /\ \A n \in UEs : Uplinked(n) /\ Downlinked(n)
  /\ \A p \in data : Carries(p)

LEMMA Passes ==
  ASSUME UserTypeOK, \A q \in data : Carries(q), NEW p \in data,
         NEW stage \in Stage, NEW teid \in {0, p.of}, NEW imsi \in {0, p.of},
         stage \in {"s1", "s5d"} => teid = p.of,
         Pass(p, stage, teid, imsi)
  PROVE  /\ mon' \in {"select", "second"} => UserTypeOK'
         /\ \A q \in data' : Carries(q)'
         /\ p.at # stage => \E q \in data' \ data : q.at = stage /\ q.imsi = imsi
<1> DEFINE q == [p EXCEPT !.at = stage, !.teid = teid, !.imsi = imsi]
<1>t. /\ p \in Datum /\ UEs \subseteq Imsi /\ Imsi \subseteq Teid /\ 0 \in Imsi /\ p.of \in UEs
  BY MmeIdentifiers DEF UserTypeOK, Datum, Teid
<1>1. /\ q \in Datum /\ q.no = p.no /\ q.at = stage /\ q.of = p.of /\ q.ip = p.ip
      /\ q.teid = teid /\ q.imsi = imsi
  BY <1>t DEF Datum
<1>2. data' = (data \ {p}) \cup {q}
  BY DEF Pass
<1> HIDE DEF q
<1>3. \A x \in data \ {p} : x.no # q.no
  BY <1>1 DEF UserTypeOK
<1>4. \A x, y \in data' : x.no = y.no => x = y
  BY <1>2, <1>3 DEF UserTypeOK
<1>5. data' \subseteq Datum
  BY <1>1, <1>2 DEF UserTypeOK
<1>6. Carries(p)
  OBVIOUS
<1>7. \A x \in data' : Carries(x)'
  <2>1. Carries(q)
    BY <1>1, <1>6 DEF Carries
  <2> QED
    BY <1>2, <2>1 DEF Carries
<1>8. p.at # stage => q \in data' \ data
  BY <1>1, <1>2, <1>3
<1> QED
  BY <1>1, <1>4, <1>5, <1>7, <1>8 DEF UserTypeOK

LEMMA Leaves ==
  ASSUME UserTypeOK, \A q \in data : Carries(q), NEW p \in data, Leave(p)
  PROVE  /\ mon' \in {"select", "second"} => UserTypeOK'
         /\ \A q \in data' : Carries(q)'
BY DEF UserTypeOK, Leave, Carries

LEMMA Enters ==
  ASSUME UserTypeOK, \A q \in data : Carries(q), NEW n \in UEs,
         NEW stage \in Stage \ {"s1", "s5d"}, Enter(stage, n, n), UNCHANGED mon
  PROVE  UserTypeOK' /\ (\A q \in data' : Carries(q)') /\ data \subseteq data'
<1>1. PICK k \in 1 .. MaxPackets :
        /\ \A p \in data : p.no # k
        /\ data' = data \cup {[no |-> k, at |-> stage, of |-> n, ip |-> n, teid |-> 0, imsi |-> 0]}
  BY DEF Enter
<1> DEFINE q == [no |-> k, at |-> stage, of |-> n, ip |-> n, teid |-> 0, imsi |-> 0]
<1>2. n \in Imsi /\ 0 \in Imsi /\ 0 \in Teid
  BY MmeIdentifiers DEF Teid
<1>3. q \in Datum /\ Carries(q) /\ q.no = k
  BY <1>2 DEF Datum, Carries
<1>4. data' = data \cup {q}
  BY <1>1
<1> HIDE DEF q
<1>5. data' \subseteq Datum
  BY <1>3, <1>4 DEF UserTypeOK
<1>6. \A x, y \in data' : x.no = y.no => x = y
  BY <1>1, <1>3, <1>4 DEF UserTypeOK
<1>7. \A x \in data' : Carries(x)'
  BY <1>3, <1>4 DEF Carries
<1> QED
  BY <1>4, <1>5, <1>6, <1>7 DEF UserTypeOK
-----------------------------------------------------------------------------
(* What a lookup for n's packet returns.                                   *)
LEMMA Lookups ==
  ASSUME UserInv, NEW n \in UEs
  PROVE  /\ uplink_info[n] \in {0, n}
         /\ \A x \in {0, n} : /\ sgw_id["s1"][x] \in {0, x} /\ sgw_id["s5"][x] \in {0, x}
                              /\ sgw_ctx[x].in => x = n
                              /\ HasPgw(x) <=> sgw_ctx[x].in
                              /\ sgw_ctx[x].s5 \in {0, x}
                              /\ sgw_ho[x].in => x = n
                              /\ pgw_sgi[x] \in {0, x}
                              /\ pgw_ctx[x].in => x = n /\ pgw_ctx[x].teid = n
<1>t. /\ n # 0 /\ 0 \in Teid \ UEs /\ n \in Imsi /\ Uplinked(n) /\ Nobody
      /\ SgwRow(n) /\ PgwRow(n) /\ SgwExtra /\ PgwExtra
      /\ HoUE \in UEs => HoUE \in Nat
  BY MmeIdentifiers DEF UserInv, OrderlyInv, SessInv, Teid
<1>1. uplink_info[n] \in {0, n}
  BY <1>t DEF Uplinked
<1>2. sgw_id["s1"][0] = 0 /\ sgw_id["s5"][0] = 0
  <2>1. HoUE \in UEs => 0 # HoUE + 1
    BY <1>t
  <2> QED
    BY <1>t, <2>1 DEF SgwExtra, Itf
<1>3. sgw_id["s1"][n] \in {0, n} /\ sgw_id["s5"][n] \in {0, n}
  BY <1>t DEF SgwRow, Itf
<1>4. /\ ~sgw_ctx[0].in /\ sgw_ctx[0].s5 = 0 /\ ~HasPgw(0) /\ ~sgw_ho[0].in
      /\ pgw_sgi[0] = 0 /\ ~pgw_ctx[0].in
  BY <1>t DEF Nobody, NoCtx, NoHo, NoPgwCtx, PgwExtra, HasPgw
<1>5. (HasPgw(n) <=> sgw_ctx[n].in) /\ sgw_ctx[n].s5 \in {0, n}
  BY <1>t DEF SgwRow, HasPgw
<1>6. pgw_sgi[n] \in {0, n} /\ (pgw_ctx[n].in => pgw_ctx[n].teid = n)
  BY <1>t DEF PgwRow, NoPgwCtx
<1> QED
  BY <1>1, <1>2, <1>3, <1>4, <1>5, <1>6
-----------------------------------------------------------------------------
LEMMA Addresses ==
  ASSUME Orderly, UserInv, NEW n \in UEs
  PROVE  /\ ip_addrs[n] = n
         /\ ran[n].pc \in {"attached", "ho", "end"} => ran[n].ip = n
<1>1. n \in Imsi /\ n < MaxUeCount /\ Given(n)
  BY MmeIdentifiers DEF UserInv, OrderlyInv, SessInv, Orderly
<1> QED
  BY <1>1 DEF ip_addrs, Given

(* What a step of the user plane may do to the serving gateway.            *)
Ends ==
  sgw_up' = sgw_up \/ \E p \in data : Leave(p) /\ sgw_up' = FALSE /\
     \/ p.at = "s1_imsi" /\ sgw_ho[p.imsi].in
     \/ p.at = "s1_plain" /\ sgw_ctx[p.imsi].in /\ ~HasPgw(p.imsi)
     \/ p.at = "s5d_imsi" /\ sgw_ctx[p.imsi].in /\ ~sgw_ctx[p.imsi].enb

LEMMA UserStepEnds == UserStep => Ends
BY DEF UserStep, UeSends, SinkDownlink, MonitorUplink, MonitorDownlink, SgwUplink, SgwUplinkHo,
       SgwUplinkForward, SgwDownlink, SgwDownlinkForward, PgwUplink, SinkUplink, PgwDownlink,
       PgwDownlinkForward, Ends

LEMMA UserStepInv ==
  ASSUME Orderly, UserInv, UserStep, UserKeeps
  PROVE  UserInv'
<1>t. /\ OrderlyInv /\ UserTypeOK /\ (\A q \in data : Carries(q)) /\ mon \in {"select", "second"}
  BY DEF UserInv, UserTypeOK
<1>1. sgw_up' \in BOOLEAN
  <2>1. sgw_up \in BOOLEAN
    BY <1>t DEF OrderlyInv, LockInv, EpcTypeInv, EpcTypeOK, SgwTypeOK
  <2> QED
    BY <2>1, UserStepEnds DEF Ends
<1>2. OrderlyInv' /\ Nobody' /\ \A n \in UEs : Uplinked(n)' /\ Downlinked(n)'
  <2>1. OrderlyInv'
    BY <1>t, <1>1, SignallingKept
  <2>2. Nobody' /\ \A n \in UEs : Uplinked(n)' /\ Downlinked(n)'
    BY DEF UserInv, UserKeeps, ranOwn, pgwOwn, Nobody, Uplinked, Downlinked
  <2> QED
    BY <2>1, <2>2
<1> DEFINE Good == UserTypeOK' /\ \A q \in data' : Carries(q)'
<1>p. ASSUME NEW p \in data
      PROVE  /\ p.of \in UEs /\ p.ip = p.of /\ p.imsi \in {0, p.of} /\ p.teid \in {0, p.of}
             /\ p.at \in {"s1", "s5d"} => p.teid = p.of
  BY <1>t DEF UserTypeOK, Datum, Carries
<1>l. ASSUME NEW p \in data, mon' \in {"select", "second"}, Leave(p) PROVE Good
  BY <1>t, <1>l, Leaves
<1>s. ASSUME NEW p \in data, UNCHANGED mon, NEW stage \in Stage, NEW teid, NEW imsi,
             Pass(p, stage, teid, imsi), teid \in {0, p.of}, imsi \in {0, p.of},
             stage \in {"s1", "s5d"} => teid = p.of
      PROVE  Good
  BY <1>t, <1>s, Passes
<1>3. ASSUME NEW n \in UEs, UeSends(n) \/ SinkDownlink(n) PROVE Good
  <2>1. CASE UeSends(n)
    <3>1. Enter("tun", n, n) /\ UNCHANGED mon
      BY <2>1, Addresses DEF UeSends
    <3> QED
      BY <1>t, <3>1, Enters DEF Stage
  <2>2. CASE SinkDownlink(n)
    <3>1. Enter("sgi", n, n) /\ UNCHANGED mon
      BY <2>2, Addresses DEF SinkDownlink
    <3> QED
      BY <1>t, <3>1, Enters DEF Stage
  <2> QED
    BY <1>3, <2>1, <2>2
<1>4. ASSUME NEW p \in data, MonitorUplink(p) \/ MonitorDownlink(p) PROVE Good
  <2>1. CASE MonitorUplink(p)
    <3>1. uplink_info[p.ip] \in {0, p.of}
      BY <1>p, Lookups
    <3> QED
      BY <1>t, <1>p, <1>l, <1>s, <2>1, <3>1 DEF MonitorUplink, Stage
  <2>2. CASE MonitorDownlink(p)
    BY <1>t, <1>l, <2>2 DEF MonitorDownlink
  <2> QED
    BY <1>4, <2>1, <2>2
<1>5. ASSUME NEW p \in data, SgwUplink(p) \/ SgwUplinkHo(p) \/ SgwUplinkForward(p) PROVE Good
  <2>1. CASE SgwUplink(p)
    <3>1. get_imsi("s1", p.teid) \in {0, p.of}
      BY <1>p, Lookups DEF get_imsi
    <3> QED
      BY <1>p, <1>s, <2>1, <3>1 DEF SgwUplink, Stage
  <2>2. CASE SgwUplinkHo(p)
    BY <1>t, <1>p, <1>l, <1>s, <2>2 DEF SgwUplinkHo, Stage
  <2>3. CASE SgwUplinkForward(p)
    <3>1. sgw_ctx[p.imsi].s5 \in {0, p.of}
      BY <1>p, Lookups
    <3> QED
      BY <1>t, <1>p, <1>l, <1>s, <2>3, <3>1 DEF SgwUplinkForward, Stage
  <2> QED
    BY <1>5, <2>1, <2>2, <2>3
<1>6. ASSUME NEW p \in data, SgwDownlink(p) \/ SgwDownlinkForward(p) PROVE Good
  <2>1. CASE SgwDownlink(p)
    <3>1. get_imsi("s5", p.teid) \in {0, p.of}
      BY <1>p, Lookups DEF get_imsi
    <3> QED
      BY <1>p, <1>s, <2>1, <3>1 DEF SgwDownlink, Stage
  <2>2. CASE SgwDownlinkForward(p)
    <3>1. sgw_ctx[p.imsi].in /\ sgw_ctx[p.imsi].enb => sgw_ctx[p.imsi].dl \in {0, p.of}
      <4>1. p.of \in UEs /\ p.imsi \in {0, p.of}
        BY <1>p
      <4>2. \A x \in {0, p.of} : sgw_ctx[x].in => x = p.of
        BY <4>1, Lookups
      <4>3. sgw_ctx[p.of].dl \in {0, p.of}
        BY <4>1 DEF UserInv, Downlinked
      <4> QED
        BY <4>1, <4>2, <4>3
    <3> QED
      BY <1>t, <1>p, <1>l, <1>s, <2>2, <3>1 DEF SgwDownlinkForward, Stage
  <2> QED
    BY <1>6, <2>1, <2>2
<1>7. ASSUME NEW p \in data,
             PgwUplink(p) \/ SinkUplink(p) \/ PgwDownlink(p) \/ PgwDownlinkForward(p)
      PROVE  Good
  <2>1. CASE PgwUplink(p)
    BY <1>p, <1>s, <2>1 DEF PgwUplink, Stage
  <2>2. CASE SinkUplink(p)
    BY <1>t, <1>l, <2>2 DEF SinkUplink
  <2>3. CASE PgwDownlink(p)
    <3>1. pgw_sgi[p.ip] \in {0, p.of}
      BY <1>p, Lookups
    <3> QED
      BY <1>p, <1>s, <2>3, <3>1 DEF PgwDownlink, Stage
  <2>4. CASE PgwDownlinkForward(p)
    <3>1. pgw_ctx[p.imsi].in => pgw_ctx[p.imsi].teid = p.of
      <4>1. p.of \in UEs /\ p.imsi \in {0, p.of}
        BY <1>p
      <4>2. \A x \in {0, p.of} : pgw_ctx[x].in => x = p.of /\ pgw_ctx[x].teid = p.of
        BY <4>1, Lookups
      <4> QED
        BY <4>1, <4>2
    <3> QED
      BY <1>t, <1>p, <1>l, <1>s, <2>4, <3>1 DEF PgwDownlinkForward, Stage
  <2> QED
    BY <1>7, <2>1, <2>2, <2>3, <2>4
<1>8. Good
  BY <1>3, <1>4, <1>5, <1>6, <1>7 DEF UserStep
<1> QED
  BY <1>2, <1>8 DEF UserInv
-----------------------------------------------------------------------------
LEMMA SignallingInv ==
  ASSUME Orderly, UserInv, [EpcNext]_epcVars, UNCHANGED userOwn
  PROVE  UserInv' /\ (sgw_up => sgw_up')
<1>1. /\ OrderlyInv' /\ (sgw_up => sgw_up')
      /\ LockInv /\ SessInv /\ HoInv /\ Nobody
      /\ \A n \in UEs : Uplinked(n) /\ Downlinked(n)
  BY OrderlyNext DEF UserInv, OrderlyInv
<1>2. UserTypeOK' /\ \A p \in data' : Carries(p)'
  BY DEF UserInv, UserTypeOK, userOwn, Carries
<1>3. Nobody' /\ \A n \in UEs : Downlinked(n)'
  <2>1. ASSUME UNCHANGED <<sgw_ctx, sgw_ho, pgw_ctx>> PROVE Nobody' /\ \A n \in UEs : Downlinked(n)'
    BY <1>1, <2>1 DEF Nobody, Downlinked
  <2>2. ASSUME NEW t \in S11Threads, SgwProcess(t) PROVE Nobody' /\ \A n \in UEs : Downlinked(n)'
    BY <1>1, <2>2, SgwNobody, SgwDownlinked
  <2>3. ASSUME NEW t \in S5Threads, PgwProcess(t) PROVE Nobody' /\ \A n \in UEs : Downlinked(n)'
    <3>1. UNCHANGED sgw_ctx
      BY <2>3 DEF PgwProcess, sgwOwn
    <3> QED
      BY <1>1, <2>3, <3>1, PgwNobody DEF Downlinked
  <2> QED
    BY <2>1, <2>2, <2>3 DEF EpcNext, RanNext, MmeProcess, HssNext, epcVars, sgwOwn, pgwOwn
<1>4. \A n \in UEs : Uplinked(n)'
  <2>1. CASE UNCHANGED ranOwn
    BY <1>1, <2>1 DEF ranOwn, Uplinked
  <2>2. CASE RanNext
    BY <1>1, <2>2, RanUplinked
  <2> QED
    BY <2>1, <2>2 DEF EpcNext, MmeProcess, HssNext, SgwProcess, PgwProcess, epcVars
<1> QED
  BY <1>1, <1>2, <1>3, <1>4 DEF UserInv

LEMMA UserInitInv ==
  ASSUME Orderly, EpcInit, UserInit
  PROVE  UserInv
<1>1. OrderlyInv
  BY LockInit, RegInit, SessInit DEF OrderlyInv
<1>2. /\ \A i \in Imsi : sgw_ctx[i] = NoCtx /\ sgw_ho[i] = NoHo /\ pgw_ctx[i] = NoPgwCtx
      /\ \A a \in Imsi : uplink_info[a] = 0
      /\ \A n \in UEs : ran[n].pc = "off"
  BY DEF EpcInit, SgwInit, PgwInit, RanInit
<1>3. Nobody /\ \A n \in UEs : Uplinked(n) /\ Downlinked(n)
  <2>1. 0 \in Imsi /\ UEs \subseteq Imsi
    BY MmeIdentifiers
  <2>2. Nobody
    BY <1>2, <2>1 DEF Nobody
  <2>3. ASSUME NEW n \in UEs PROVE Uplinked(n) /\ Downlinked(n)
    <3>1. sgw_ctx[n] = NoCtx /\ uplink_info[n] = 0 /\ ran[n].pc = "off"
      BY <1>2, <2>1
    <3> QED
      BY <3>1 DEF Uplinked, Downlinked, NoCtx
  <2> QED
    BY <2>2, <2>3
<1>4. UserTypeOK /\ data = {}
  BY DEF UserInit, UserTypeOK
<1> QED
  BY <1>1, <1>3, <1>4 DEF UserInv

LEMMA UserNextInv == Orderly /\ UserInv /\ [UserNext]_userVars => UserInv'
<1> SUFFICES ASSUME Orderly, UserInv, [UserNext]_userVars PROVE UserInv'
  OBVIOUS
<1>1. CASE [EpcNext]_epcVars /\ UNCHANGED userOwn
  BY <1>1, SignallingInv
<1>2. CASE UserStep /\ UserKeeps
  BY <1>2, UserStepInv
<1> QED
  BY <1>1, <1>2 DEF UserNext, UserKeeps, userVars

LEMMA UserInvariant ==
  ASSUME Orderly
  PROVE  UserSpec => []UserInv
<1>1. EpcInit /\ UserInit => UserInv
  BY UserInitInv
<1>2. UserInv /\ [UserNext]_userVars => UserInv'
  BY UserNextInv
<1> QED
  BY <1>1, <1>2, PTL DEF UserSpec

(* A packet is handled for its subscriber or for nobody, whatever attaches *)
(* and detaches between two of the lookups it goes through                 *)
(* (handle_uplink_udata, handle_downlink_udata).                           *)
THEOREM UserDataIsolation ==
  ASSUME Orderly
  PROVE  UserSpec => []DataIsolation
<1>1. UserInv => DataIsolation
  BY DEF UserInv, Carries, DataIsolation
<1> QED
  BY <1>1, UserInvariant, PTL
-----------------------------------------------------------------------------
(* The tables a packet of an active session meets.                         *)
LEMMA ActiveServed ==
  ASSUME Orderly, UserInv, NEW n \in UEs, Active(n)
  PROVE  /\ n # 0 /\ uplink_info[n] = n /\ sgw_id["s1"][n] = n /\ sgw_id["s5"][n] = n
         /\ sgw_ctx[n].in /\ HasPgw(n) /\ sgw_ctx[n].enb
         /\ pgw_sgi[n] = n /\ pgw_ctx[n].in
<1>1. OrderlyInv /\ n # 0 /\ Uplinked(n) /\ SgwRow(n) /\ Bearer(n)
  BY MmeIdentifiers DEF UserInv, OrderlyInv, SessInv
<1>2. Present(n) /\ ~Unbound(n) /\ mme_w[n].pc # "detach"
  BY <1>1, ActivePresent
<1>3. /\ sgw_id["s1"][n] = n /\ sgw_id["s5"][n] = n
      /\ pgw_sgi[n] = n /\ pgw_ctx[n].in
  <2>1. /\ \A itf \in Itf : sgw_id[itf][n] = n
        /\ pgw_sgi[n] = n /\ pgw_ctx[n] = [in |-> TRUE, ip |-> n, teid |-> n]
    BY <1>1, <1>2, PresentRouted
  <2> QED
    BY <2>1 DEF Itf
<1>4. sgw_ctx[n].in /\ HasPgw(n)
  BY <1>1, <1>2 DEF SgwRow, HasPgw
<1>5. sgw_ctx[n].enb
  BY <1>1, <1>2 DEF Bearer
<1>6. uplink_info[n] = n
  <2>1. ran[n].pc # "eps"
    BY <1>2 DEF Unbound
  <2> QED
    BY <1>1, <1>2, <2>1 DEF Present, Uplinked
<1> QED
  BY <1>1, <1>3, <1>4, <1>5, <1>6

(* A packet that is passed on does not fail, unless it turns out to be     *)
(* nobody's.                                                               *)
LEMMA PassedOn ==
  ASSUME UserInv, NEW p \in data, NEW stage \in Stage \ {p.at}, NEW teid \in {0, p.of},
         NEW imsi \in {0, p.of}, stage \in {"s1", "s5d"} => teid = p.of,
         Pass(p, stage, teid, imsi),
         imsi # 0 \/ stage \notin {"s1_imsi", "s1_plain", "sgi_imsi", "s5d_imsi"}
  PROVE  ~Fails(p)
<1>1. \E q \in data' \ data : q.at = stage /\ q.imsi = imsi
  BY Passes DEF UserInv
<1> QED
  BY <1>1 DEF Fails, Nobodys

LEMMA StepServes ==
  ASSUME Orderly, UserInv, UserStep, UserKeeps, NEW p \in data,
         Active(p.of), ~sgw_ho[p.of].in
  PROVE  ~Fails(p)
<1> SUFFICES ASSUME Fails(p) PROVE FALSE
  OBVIOUS
<1>t. /\ p.of \in UEs /\ p.ip = p.of /\ p.imsi \in {0, p.of} /\ p.teid \in {0, p.of}
      /\ p.at \in {"s1", "s5d"} => p.teid = p.of
      /\ p \notin data' /\ p.at \notin {"sink", "s1d"} /\ ~Nobodys(p)
  BY DEF UserInv, UserTypeOK, Datum, Carries, Fails
<1>n. p.of # 0 /\ (p.at \in {"s1_imsi", "s1_plain", "sgi_imsi", "s5d_imsi"} => p.imsi = p.of)
  BY <1>t, ActiveServed DEF Nobodys
<1>a. LET n == p.of IN
      /\ uplink_info[n] = n /\ sgw_id["s1"][n] = n /\ sgw_id["s5"][n] = n
      /\ sgw_ctx[n].in /\ HasPgw(n) /\ sgw_ctx[n].enb
      /\ pgw_sgi[n] = n /\ pgw_ctx[n].in
  BY <1>t, ActiveServed
<1>p. ASSUME NEW stage \in Stage \ {p.at}, NEW teid \in {0, p.of},
             NEW imsi \in {0, p.of}, stage \in {"s1", "s5d"} => teid = p.of,
             imsi # 0 \/ stage \notin {"s1_imsi", "s1_plain", "sgi_imsi", "s5d_imsi"}
      PROVE  ~Pass(p, stage, teid, imsi)
  BY <1>p, PassedOn
<1>1. ~\E n \in UEs : UeSends(n) \/ SinkDownlink(n)
  BY <1>t DEF UeSends, SinkDownlink, Enter
<1>2. ASSUME NEW q \in data,
             \/ MonitorUplink(q) \/ MonitorDownlink(q)
             \/ SgwUplink(q) \/ SgwUplinkHo(q) \/ SgwUplinkForward(q)
             \/ SgwDownlink(q) \/ SgwDownlinkForward(q)
             \/ PgwUplink(q) \/ SinkUplink(q)
             \/ PgwDownlink(q) \/ PgwDownlinkForward(q)
      PROVE  q = p
  <2>1. data \ {q} \subseteq data'
    BY <1>2 DEF MonitorUplink, MonitorDownlink, SgwUplink, SgwUplinkHo, SgwUplinkForward, SgwDownlink,
       SgwDownlinkForward, PgwUplink, SinkUplink, PgwDownlink, PgwDownlinkForward, Pass, Leave
  <2> QED
    BY <2>1, <1>t
<1>3. ~MonitorUplink(p)
  BY <1>t, <1>n, <1>a, <1>p DEF MonitorUplink, Stage
<1>4. ~MonitorDownlink(p) /\ ~SinkUplink(p)
  BY <1>t DEF MonitorDownlink, SinkUplink
<1>5. ~SgwUplink(p)
  BY <1>t, <1>n, <1>a, <1>p DEF SgwUplink, Stage, get_imsi
<1>6. ~SgwUplinkHo(p)
  BY <1>t, <1>n, <1>a, <1>p DEF SgwUplinkHo, Stage
<1>7. ~SgwUplinkForward(p)
  <2>1. sgw_ctx[p.of].s5 \in {0, p.of}
    BY <1>t, Lookups
  <2> QED
    BY <2>1, <1>t, <1>n, <1>a, <1>p DEF SgwUplinkForward, Stage
<1>8. ~SgwDownlink(p)
  BY <1>t, <1>n, <1>a, <1>p DEF SgwDownlink, Stage, get_imsi
<1>9. ~SgwDownlinkForward(p)
  <2>1. sgw_ctx[p.of].dl \in {0, p.of}
    BY <1>t DEF UserInv, Downlinked
  <2> QED
    BY <2>1, <1>t, <1>n, <1>a, <1>p DEF SgwDownlinkForward, Stage
<1>10. ~PgwUplink(p)
  BY <1>t, <1>p DEF PgwUplink, Stage
<1>11. ~PgwDownlink(p)
  BY <1>t, <1>n, <1>a, <1>p DEF PgwDownlink, Stage
<1>12. ~PgwDownlinkForward(p)
  <2>1. pgw_ctx[p.of].teid = p.of
    <3>1. \A x \in {0, p.of} : pgw_ctx[x].in => x = p.of /\ pgw_ctx[x].teid = p.of
      BY <1>t, Lookups
    <3> QED
      BY <3>1, <1>a
  <2> QED
    BY <2>1, <1>t, <1>n, <1>a, <1>p DEF PgwDownlinkForward, Stage
<1> QED
  BY <1>1, <1>2, <1>3, <1>4, <1>5, <1>6, <1>7, <1>8, <1>9, <1>10, <1>11, <1>12 DEF UserStep

(* No packet of an active session is lost outside its handover, although   *)
(* no handler reads two tables at one time (the two handle_udata of each   *)
(* program).                                                               *)
THEOREM UserServedWhileActive ==
  ASSUME Orderly
  PROVE  UserSpec => ServedWhileActive
<1>1. ASSUME UserInv, [UserNext]_userVars
      PROVE  [\A p \in data : Fails(p) => ~Active(p.of) \/ sgw_ho[p.of].in]_userVars
  <2>1. CASE UNCHANGED userOwn
    BY <2>1 DEF userOwn, Fails
  <2>2. CASE UserStep /\ UserKeeps
    BY <1>1, <2>2, StepServes
  <2> QED
    BY <1>1, <2>1, <2>2 DEF UserNext, UserKeeps, userVars
<1> QED
  BY <1>1, UserInvariant, PTL DEF UserSpec, ServedWhileActive

(* All the user plane can end the serving gateway for is a packet of a     *)
(* session that is being set up, torn down or handed over                  *)
(* (set_inet_sock_addr).                                                   *)
THEOREM UserExitWindows ==
  ASSUME Orderly
  PROVE  UserSpec => ExitWindows
<1>1. ASSUME UserInv, [UserNext]_userVars
      PROVE  [sgw_up /\ ~sgw_up' =>
                \E p \in data \ data' : ~Active(p.of) \/ sgw_ho[p.of].in]_userVars
  <2>1. CASE [EpcNext]_epcVars /\ UNCHANGED userOwn
    BY <1>1, <2>1, SignallingInv
  <2>2. ASSUME UserStep, sgw_up, ~sgw_up'
        PROVE  \E p \in data \ data' : ~Active(p.of) \/ sgw_ho[p.of].in
    <3>1. PICK p \in data :
            /\ Leave(p)
            /\ \/ p.at = "s1_imsi" /\ sgw_ho[p.imsi].in
               \/ p.at = "s1_plain" /\ sgw_ctx[p.imsi].in /\ ~HasPgw(p.imsi)
               \/ p.at = "s5d_imsi" /\ sgw_ctx[p.imsi].in /\ ~sgw_ctx[p.imsi].enb
      BY <2>2, UserStepEnds DEF Ends
    <3>2. p \in data \ data'
      BY <3>1 DEF Leave
    <3>3. p.of \in UEs /\ p.imsi \in {0, p.of}
      BY <1>1 DEF UserInv, UserTypeOK, Datum, Carries
    <3>4. \A x \in {0, p.of} : /\ sgw_ctx[x].in => x = p.of
                               /\ HasPgw(x) <=> sgw_ctx[x].in
                               /\ sgw_ho[x].in => x = p.of
      BY <1>1, <3>3, Lookups
    <3>5. \/ sgw_ho[p.of].in
          \/ ~sgw_ctx[p.of].enb
      BY <3>1, <3>3, <3>4
    <3> QED
      BY <1>1, <3>2, <3>3, <3>5, ActiveServed
  <2> QED
    BY <1>1, <2>1, <2>2 DEF UserNext, userVars
<1> QED
  BY <1>1, UserInvariant, PTL DEF UserSpec, ExitWindows
-----------------------------------------------------------------------------
(* Isolation among neighbours.  The serving gateway alone cannot tell      *)
(* whose session a set-up is for; in the whole system the one subscriber   *)
(* that is handed over is the only one an indirect tunnel is entered for.  *)
(* So no other subscriber's neighbour is in danger, and neither is         *)
(* subscriber 1, the neighbour of a context that was never filled in: the  *)
(* MME has no TEID for a session the gateway has no context of (HoThere).  *)

(* An id of the handover is the handed over subscriber's or nobody's.      *)
HandedOver(i) == i \in 0 .. ue_count /\ s1mme_id[i] \in {0, HoUE}

HandoverIds ==
  /\ \A n \in UEs : /\ ran[n].pc \in {"ho", "end"} => n = HoUE
                    /\ ran[n].pc = "bye" => n # HoUE
  /\ \A m \in toRan : m.t = 7 => HandedOver(m.id)
  /\ HandedOver(ranT.id)
  /\ \A k \in DOMAIN up[0] : HandedOver(up[0][k].id)

HoThere == sgw_ctx[HoUE].teid = HoUE

(* What the MME asks and is told, by the connection it asks for, which the *)
(* socket of the request names.                                            *)
Ordered(d) ==
  LET c == d.sock[1] IN
  /\ d.op = "create" => c \in UEs /\ d.arg = c /\ d.imsi = c
  /\ d.op = "detach" => c \in UEs \ {HoUE} /\ d.teid \in {0, c}
  /\ d.op = "setup" => c = 0 /\ d.teid \in {0, HoUE} /\ (d.teid # 0 => HoThere)

Told(r) ==
  LET c == r.sock[1] IN
  c # 0 => r.teid \in {0, c} /\ (r.teid # 0 /\ c = HoUE => HoThere)

(* What a thread of the gateway does is what it was asked.                 *)
WorksOn(t) ==
  LET h == sgw_th[t] IN
  h.pc # "idle" =>
    /\ Ordered(h.req)
    /\ h.pc \in CreatePc => h.req.op = "create" /\ h.imsi = h.req.imsi /\ h.teid = h.req.arg
    /\ h.pc = "wait_create" /\ h.teid = HoUE => HoThere
    /\ h.pc \in LookupOp => h.req.op = h.pc
    /\ h.pc \in DetachPc => h.req.op = "detach"
    /\ h.pc = "ho_add" => h.req.op = "setup" /\ (h.imsi # 0 => h.teid = HoUE)

IndirectInv ==
  /\ HandoverIds
  /\ \A g \in Imsi : mme_ctx[g].teid \in {0, g}
  /\ mme_ctx[HoUE].teid # 0 => HoThere
  /\ \A d \in s11 : Ordered(d)
  /\ \A r \in s11r : Told(r)
  /\ \A t \in S11Threads : WorksOn(t)

(* The context of the handed over subscriber stays: what was said of it    *)
(* holds.                                                                  *)
LEMMA StillOrdered ==
  ASSUME HoThere => HoThere'
  PROVE  /\ \A d : Ordered(d) => Ordered(d)'
         /\ \A r : Told(r) => Told(r)'
         /\ \A t : WorksOn(t) /\ sgw_th'[t] = sgw_th[t] => WorksOn(t)'
<1>1. \A d : Ordered(d) => Ordered(d)'
  BY DEF Ordered
<1>2. \A r : Told(r) => Told(r)'
  BY DEF Told
<1>3. ASSUME NEW t, WorksOn(t), sgw_th'[t] = sgw_th[t] PROVE WorksOn(t)'
  BY <1>1, <1>3 DEF WorksOn
<1> QED
  BY <1>1, <1>2, <1>3

(* A step of a thread is its own.                                          *)
LEMMA OtherThreads ==
  ASSUME SgwTypeOK, NEW t \in S11Threads, SgwStep(t), NEW u \in S11Threads, u # t
  PROVE  sgw_th'[u] = sgw_th[u]
<1>1. UNCHANGED sgw_th \/ \E x : sgw_th' = [sgw_th EXCEPT ![t] = x]
  BY DEF SgwStep, SgwCreateSession, SgwCreateItf, SgwCreateCtx, SgwCreateRsp,
         SgwCreateTimeout, SgwCreateFinish, SgwLookup, SgwModifyBearer, SgwExit, SgwHoSetup,
         SgwHoAdd, SgwHoCompletion, SgwHoErase, SgwTeardown, SgwDetach, SgwDetachRsp,
         SgwDetachTimeout, SgwDetachItf, SgwDetachCtx, Goto, Continue, Return, Take
<1> QED
  BY <1>1 DEF SgwTypeOK

(* The TEID of a context is written when it is made and removed.           *)
LEMMA ContextTeids ==
  ASSUME SgwTypeOK, NEW t \in S11Threads, SgwStep(t), NEW i \in Imsi
  PROVE  \/ sgw_ctx'[i].teid = sgw_ctx[i].teid
         \/ /\ SgwCreateCtx(t) /\ i = sgw_th[t].imsi
            /\ sgw_ctx'[i].teid = sgw_th[t].teid
         \/ SgwDetachCtx(t) /\ i = sgw_th[t].imsi /\ sgw_ctx'[i].teid = 0
<1>t. sgw_ctx \in [Imsi -> Ctx]
  BY DEF SgwTypeOK
<1>i. sgw_th[t].pc # "idle" => sgw_th[t].imsi \in Imsi
  BY Busy
<1>1. CASE SgwCreateCtx(t)
  <2>1. sgw_ctx' = [sgw_ctx EXCEPT ![sgw_th[t].imsi] =
                      [sgw_ctx[sgw_th[t].imsi] EXCEPT !.in = TRUE, !.teid = sgw_th[t].teid]]
    BY <1>1, <1>t, <1>i DEF SgwCreateCtx, At
  <2>2. sgw_ctx[sgw_th[t].imsi] \in Ctx
    BY <1>1, <1>t, <1>i DEF SgwCreateCtx, At
  <2>3. CASE i = sgw_th[t].imsi
    BY <1>1, <2>1, <2>2, <2>3, <1>t DEF Ctx
  <2>4. CASE i # sgw_th[t].imsi
    BY <2>1, <2>4, <1>t
  <2> QED
    BY <2>3, <2>4
<1>2. CASE SgwDetachCtx(t)
  BY <1>2, <1>t, <1>i DEF SgwDetachCtx, At, NoCtx
<1>3. CASE SgwCreateRsp(t) \/ SgwCreateTimeout(t)
  <2>1. PICK x : sgw_ctx' = [sgw_ctx EXCEPT ![sgw_th[t].imsi].in = TRUE,
                                            ![sgw_th[t].imsi].s5 = x]
    BY <1>3 DEF SgwCreateRsp, SgwCreateTimeout, SgwCreateFinish
  <2>2. CASE i = sgw_th[t].imsi
    <3>1. sgw_ctx[i] \in Ctx /\ sgw_ctx'[i] = [sgw_ctx[i] EXCEPT !.in = TRUE, !.s5 = x]
      BY <1>t, <2>1, <2>2
    <3> QED
      BY <3>1 DEF Ctx
  <2>3. CASE i # sgw_th[t].imsi
    BY <1>t, <2>1, <2>3
  <2> QED
    BY <2>2, <2>3
<1>4. CASE SgwModifyBearer(t) \/ SgwHoSetup(t) \/ SgwHoCompletion(t) \/ SgwTeardown(t)
  <2>1. \/ sgw_ctx' = Touch(sgw_th[t].imsi)
        \/ \E x : sgw_ctx' = [sgw_ctx EXCEPT ![sgw_th[t].imsi].in = TRUE,
                                             ![sgw_th[t].imsi].dl = x]
        \/ \E x : sgw_ctx' = [sgw_ctx EXCEPT ![sgw_th[t].imsi].in = TRUE,
                                             ![sgw_th[t].imsi].enb = TRUE,
                                             ![sgw_th[t].imsi].dl = x]
    BY <1>4 DEF SgwModifyBearer, SgwHoSetup, SgwHoCompletion, SgwTeardown
  <2>2. CASE i = sgw_th[t].imsi
    <3>1. /\ sgw_ctx[i] \in Ctx
          /\ \/ sgw_ctx'[i] = [sgw_ctx[i] EXCEPT !.in = TRUE]
             \/ \E x : sgw_ctx'[i] = [sgw_ctx[i] EXCEPT !.in = TRUE, !.dl = x]
             \/ \E x : sgw_ctx'[i] = [sgw_ctx[i] EXCEPT !.in = TRUE, !.enb = TRUE, !.dl = x]
      BY <1>t, <2>1, <2>2 DEF Touch
    <3> QED
      BY <3>1 DEF Ctx
  <2>3. CASE i # sgw_th[t].imsi
    BY <1>t, <2>1, <2>3 DEF Touch
  <2> QED
    BY <2>2, <2>3
<1>5. CASE UNCHANGED sgw_ctx
  BY <1>5
<1> QED
  BY <1>1, <1>2, <1>3, <1>4, <1>5
  DEF SgwStep, SgwCreateSession, SgwCreateItf, SgwLookup, SgwExit, SgwHoAdd, SgwHoErase,
      SgwDetach, SgwDetachRsp, SgwDetachTimeout, SgwDetachItf

(* An answer goes to the socket of the request; it names a TEID if the     *)
(* request was a create or a set-up.                                       *)
LEMMA GatewayTells ==
  ASSUME NEW t \in S11Threads, SgwStep(t), NEW r \in s11r', r \notin s11r
  PROVE  /\ r.sock = sgw_th[t].req.sock /\ sgw_th[t].pc # "idle"
         /\ \/ r.teid = 0
            \/ sgw_th[t].pc = "wait_create" /\ r.teid = sgw_th[t].teid
            \/ sgw_th[t].pc = "ho_add"
<1>1. ASSUME NEW ok, NEW x, NEW a, Answer(t, ok, x, a)
      PROVE  r.sock = sgw_th[t].req.sock /\ r.teid = x
  BY <1>1 DEF Answer
<1>2. CASE SgwCreateRsp(t) \/ SgwCreateTimeout(t)
  <2>1. \E a : Answer(t, TRUE, sgw_th[t].teid, a)
    BY <1>2 DEF SgwCreateRsp, SgwCreateTimeout, SgwCreateFinish
  <2>2. sgw_th[t].pc = "wait_create"
    BY <1>2 DEF SgwCreateRsp, SgwCreateTimeout, SgwCreateFinish, At
  <2> QED
    BY <1>1, <2>1, <2>2
<1>3. CASE SgwHoAdd(t)
  BY <1>1, <1>3 DEF SgwHoAdd, At
<1>4. CASE SgwModifyBearer(t) \/ SgwHoErase(t) \/ SgwTeardown(t)
  BY <1>1, <1>4 DEF SgwModifyBearer, SgwHoErase, SgwTeardown, At
<1>5. CASE SgwDetachRsp(t)
  BY <1>1, <1>5 DEF SgwDetachRsp, At
<1> QED
  BY <1>2, <1>3, <1>4, <1>5
  DEF SgwStep, SgwCreateSession, SgwCreateItf, SgwCreateCtx, SgwLookup, SgwExit, SgwHoSetup,
      SgwHoCompletion, SgwDetach, SgwDetachTimeout, SgwDetachItf, SgwDetachCtx, gtpVars

(* So whoever is there stays while the threads work as they were told.     *)
LEMMA ThereStays ==
  ASSUME SgwTypeOK, IndirectInv, \A t \in S11Threads : ThreadInv(t),
         NEW t \in S11Threads, SgwStep(t)
  PROVE  HoThere => HoThere'
<1> SUFFICES ASSUME HoThere PROVE HoThere'
  OBVIOUS
<1>1. HoUE \in Imsi /\ ThreadInv(t) /\ WorksOn(t)
  BY HoUEAssumption DEF IndirectInv
<1>2. CASE SgwCreateCtx(t) /\ HoUE = sgw_th[t].imsi
  <2>1. sgw_th[t].pc = "init"
    BY <1>2 DEF SgwCreateCtx, At
  <2>2. sgw_th[t].teid = sgw_th[t].imsi
    BY <1>1, <2>1 DEF WorksOn, Ordered, CreatePc
  <2>3. sgw_ctx'[HoUE].teid \in {sgw_ctx[HoUE].teid, sgw_th[t].teid}
    BY <1>1, <1>2, ContextTeids DEF SgwCreateCtx, SgwDetachCtx, At
  <2> QED
    BY <1>2, <2>2, <2>3 DEF HoThere
(* The removal of a context is the end of a detach, and HoUE's is none.    *)
<1>3. CASE SgwDetachCtx(t) /\ HoUE = sgw_th[t].imsi
  <2>1. sgw_th[t].pc = "rem_ctx"
    BY <1>3 DEF SgwDetachCtx, At
  <2>2. /\ sgw_th[t].req.op = "detach" /\ sgw_th[t].req.sock[1] # HoUE
        /\ sgw_th[t].req.teid \in {0, sgw_th[t].req.sock[1]}
    BY <1>1, <2>1 DEF WorksOn, Ordered, DetachPc
  <2>3. HoUE = 0
    BY <1>1, <1>3, <2>2 DEF ThreadInv, LookupOp, S11Op
  <2>4. sgw_ctx'[HoUE].teid \in {sgw_ctx[HoUE].teid, 0}
    BY <1>1, <1>3, ContextTeids DEF SgwCreateCtx, SgwDetachCtx, At
  <2> QED
    BY <2>3, <2>4 DEF HoThere
<1> QED
  BY <1>1, <1>2, <1>3, ContextTeids DEF HoThere

(* The thread that moves goes on with what it was asked.                   *)
LEMMA GatewayWorksOn ==
  ASSUME SgwTypeOK, IndirectInv, \A u \in S11Threads : ThreadInv(u),
         NEW t \in S11Threads, SgwStep(t)
  PROVE  WorksOn(t)'
<1> DEFINE h == sgw_th[t]
<1>t. /\ HoThere => HoThere'
      /\ WorksOn(t) /\ ThreadInv(t) /\ HoUE \in Imsi
      /\ \A d \in s11 : Ordered(d)
  BY ThereStays, HoUEAssumption DEF IndirectInv
<1>o. \A d : Ordered(d) => Ordered(d)'
  BY <1>t, StillOrdered
<1>g. ASSUME NEW pc, NEW i, NEW x, Goto(t, pc, i, x)
      PROVE  h'.pc = pc /\ h'.req = h.req /\ h'.imsi = i /\ h'.teid = x
  BY <1>g DEF Goto, SgwTypeOK
<1>r. ASSUME Return(t) PROVE WorksOn(t)'
  <2>1. h'.pc = "idle"
    BY <1>r DEF Return, SgwTypeOK, Idle
  <2> QED
    BY <2>1 DEF WorksOn
<1>k. ASSUME NEW d, NEW pc, NEW i, NEW x, Take(t, d, pc, i, x)
      PROVE  h'.pc = pc /\ h'.req = d /\ h'.imsi = i /\ h'.teid = x
  BY <1>k DEF Take, SgwTypeOK
<1>1. CASE SgwCreateSession(t)
  <2>1. PICK d \in s11 : d.op = "create" /\ Take(t, d, "add_s1", d.imsi, d.arg)
    BY <1>1 DEF SgwCreateSession
  <2>2. /\ h'.pc = "add_s1" /\ h'.req = d /\ h'.imsi = d.imsi /\ h'.teid = d.arg
        /\ Ordered(d)'
    BY <1>t, <1>o, <1>k, <2>1
  <2> QED
    BY <2>1, <2>2 DEF WorksOn, Ordered, LookupOp, S11Op, DetachPc
<1>2. CASE SgwCreateItf(t)
  <2>1. /\ h.pc \in {"add_s1", "add_s5"}
        /\ \E pc \in {"add_s5", "init"} : Goto(t, pc, h.imsi, h.teid)
    BY <1>2 DEF SgwCreateItf, At, Continue
  <2>2. /\ h'.pc \in {"add_s5", "init"} /\ h'.req = h.req
        /\ h'.imsi = h.imsi /\ h'.teid = h.teid
    BY <1>g, <2>1
  <2> QED
    BY <1>t, <1>o, <2>1, <2>2 DEF WorksOn, Ordered, CreatePc, LookupOp, S11Op, DetachPc
(* The context that is made is there.                                      *)
<1>3. CASE SgwCreateCtx(t)
  <2>1. h.pc = "init" /\ Goto(t, "wait_create", h.imsi, h.teid)
    BY <1>3 DEF SgwCreateCtx, At, Continue
  <2>2. /\ h'.pc = "wait_create" /\ h'.req = h.req /\ h'.imsi = h.imsi /\ h'.teid = h.teid
    BY <1>g, <2>1
  <2>3. /\ Ordered(h.req) /\ h.req.op = "create" /\ h.imsi = h.req.imsi /\ h.teid = h.req.arg
    BY <1>t, <2>1 DEF WorksOn, Ordered, CreatePc
  <2>4. h.imsi = h.teid /\ h.imsi \in Imsi
    BY <2>3, MmeIdentifiers DEF Ordered
  <2>5. sgw_ctx'[h.imsi].teid = h.teid
    <3>1. sgw_ctx' = [sgw_ctx EXCEPT ![h.imsi] =
                        [sgw_ctx[h.imsi] EXCEPT !.in = TRUE, !.teid = h.teid]]
      BY <1>3, <2>4 DEF SgwCreateCtx, SgwTypeOK
    <3> QED
      BY <2>4, <3>1 DEF SgwTypeOK, Ctx
  <2> QED
    BY <1>o, <2>2, <2>3, <2>4, <2>5 DEF WorksOn, Ordered, HoThere, LookupOp, S11Op, DetachPc
<1>4. CASE SgwLookup(t)
  <2>1. PICK d \in s11 : /\ d.op \in LookupOp
                         /\ Take(t, d, d.op, get_imsi("s11", d.teid), 0)
    BY <1>4 DEF SgwLookup
  <2>2. h'.pc = d.op /\ h'.req = d /\ Ordered(d)'
    BY <1>t, <1>o, <1>k, <2>1
  <2> QED
    BY <2>1, <2>2 DEF WorksOn, Ordered, LookupOp, S11Op, CreatePc, DetachPc
(* A set-up that found a subscriber found HoUE, whose context is there.    *)
<1>5. CASE SgwHoSetup(t)
  <2>1. h.pc = "setup" /\ Goto(t, "ho_add", h.imsi, sgw_ctx[h.imsi].teid)
    BY <1>5 DEF SgwHoSetup, At
  <2>2. /\ h'.pc = "ho_add" /\ h'.req = h.req /\ h'.imsi = h.imsi
        /\ h'.teid = sgw_ctx[h.imsi].teid
    BY <1>g, <2>1
  <2>3. Ordered(h.req) /\ h.req.op = "setup" /\ h.imsi \in {0, h.req.teid}
    BY <1>t, <2>1 DEF WorksOn, Ordered, ThreadInv, LookupOp, S11Op
  <2>4. h.imsi # 0 => h.imsi = HoUE /\ HoThere
    BY <2>3 DEF Ordered
  <2> QED
    BY <1>o, <2>2, <2>3, <2>4 DEF WorksOn, Ordered, HoThere, LookupOp, S11Op, CreatePc, DetachPc
<1>6. CASE SgwHoCompletion(t)
  <2>1. h.pc = "complete" /\ Goto(t, "ho_erase", h.imsi, h.teid)
    BY <1>6 DEF SgwHoCompletion, At, Continue
  <2>2. h'.pc = "ho_erase" /\ h'.req = h.req
    BY <1>g, <2>1
  <2> QED
    BY <1>t, <1>o, <2>1, <2>2 DEF WorksOn, Ordered, LookupOp, S11Op, CreatePc, DetachPc
<1>7. CASE SgwDetach(t) \/ SgwDetachItf(t)
  <2>1. /\ h.pc = "detach" \/ h.pc \in DetachPc
        /\ \E pc \in DetachPc : \E x : Goto(t, pc, h.imsi, x)
    BY <1>7 DEF SgwDetach, SgwDetachItf, At, Continue, DetachPc
  <2>2. h'.pc \in DetachPc /\ h'.req = h.req
    BY <1>g, <2>1
  <2> QED
    BY <1>t, <1>o, <2>1, <2>2 DEF WorksOn, Ordered, LookupOp, S11Op, CreatePc, DetachPc
<1>8. CASE SgwDetachRsp(t)
  <2>1. h.pc = "wait_detach" /\ (Goto(t, "rem_s11", h.imsi, h.teid) \/ Return(t))
    BY <1>8 DEF SgwDetachRsp, At, Continue
  <2>2. ASSUME Goto(t, "rem_s11", h.imsi, h.teid)
        PROVE  h'.pc = "rem_s11" /\ h'.req = h.req
    BY <1>g, <2>2
  <2> QED
    BY <1>t, <1>o, <1>r, <2>1, <2>2 DEF WorksOn, Ordered, LookupOp, S11Op, CreatePc, DetachPc
<1>9. CASE SgwExit(t)
  BY <1>t, <1>9, StillOrdered DEF SgwExit
<1>10. CASE Return(t)
  BY <1>10, <1>r
<1> QED
  BY <1>1, <1>2, <1>3, <1>4, <1>5, <1>6, <1>7, <1>8, <1>9, <1>10
  DEF SgwStep, SgwCreateRsp, SgwCreateTimeout, SgwCreateFinish, SgwModifyBearer, SgwHoAdd,
      SgwHoErase, SgwTeardown, SgwDetachTimeout, SgwDetachCtx

LEMMA SgwIndirect ==
  ASSUME LockInv, IsolationInv, IndirectInv, NEW t \in S11Threads, SgwProcess(t)
  PROVE  IndirectInv'
<1>t. /\ SgwStep(t) /\ SgwTypeOK /\ \A u \in S11Threads : ThreadInv(u)
      /\ UNCHANGED <<ran, toRan, ranT, up, ue_count, s1mme_id, mme_ctx>>
  BY DEF SgwProcess, IsolationInv, TypeInv, sctpVars, ranOwn, mmeOwn
<1>h. HoThere => HoThere'
  BY <1>t, ThereStays
<1>o. /\ \A d : Ordered(d) => Ordered(d)'
      /\ \A r : Told(r) => Told(r)'
      /\ \A u : WorksOn(u) /\ sgw_th'[u] = sgw_th[u] => WorksOn(u)'
  BY <1>h, StillOrdered
<1>1. HandoverIds'
  BY <1>t DEF IndirectInv, HandoverIds, HandedOver
<1>2. \A d \in s11' : Ordered(d)'
  <2>1. s11' \subseteq s11
    BY <1>t DEF SgwStep, SgwCreateSession, SgwCreateItf, SgwCreateCtx, SgwCreateRsp,
         SgwCreateTimeout, SgwCreateFinish, SgwLookup, SgwModifyBearer, SgwExit, SgwHoSetup,
         SgwHoAdd, SgwHoCompletion, SgwHoErase, SgwTeardown, SgwDetach, SgwDetachRsp,
         SgwDetachTimeout, SgwDetachItf, SgwDetachCtx, Take, gtpVars
  <2> QED
    BY <1>o, <2>1 DEF IndirectInv
<1>3. ASSUME NEW r \in s11r' PROVE Told(r)'
  <2>1. CASE r \in s11r
    BY <1>o, <2>1 DEF IndirectInv
  <2>2. CASE r \notin s11r
    <3>1. /\ r.sock = sgw_th[t].req.sock /\ sgw_th[t].pc # "idle" /\ WorksOn(t)
          /\ \/ r.teid = 0
             \/ sgw_th[t].pc = "wait_create" /\ r.teid = sgw_th[t].teid
             \/ sgw_th[t].pc = "ho_add"
      BY <1>t, <2>2, GatewayTells DEF IndirectInv
    <3>2. CASE r.teid = 0
      BY <3>2 DEF Told
    <3>3. CASE sgw_th[t].pc = "wait_create" /\ r.teid = sgw_th[t].teid
      <4>1. r.teid = r.sock[1] /\ (r.teid = HoUE => HoThere)
        BY <3>1, <3>3 DEF WorksOn, Ordered, CreatePc
      <4> QED
        BY <1>h, <4>1 DEF Told
    <3>4. CASE sgw_th[t].pc = "ho_add"
      <4>1. r.sock[1] = 0
        BY <3>1, <3>4 DEF WorksOn, Ordered
      <4> QED
        BY <4>1 DEF Told
    <3> QED
      BY <3>1, <3>2, <3>3, <3>4
  <2> QED
    BY <2>1, <2>2
<1>4. ASSUME NEW u \in S11Threads PROVE WorksOn(u)'
  <2>1. CASE u = t
    BY <1>t, <2>1, GatewayWorksOn
  <2>2. CASE u # t
    BY <1>t, <1>o, <2>2, OtherThreads DEF IndirectInv
  <2> QED
    BY <2>1, <2>2
<1> QED
  BY <1>t, <1>h, <1>1, <1>2, <1>3, <1>4 DEF IndirectInv

(* An id that was HoUE's or nobody's stays so.                             *)
LEMMA StillHandedOver ==
  ASSUME LockInv, NEW c \in UEs, MmeStep(c), NEW i, HandedOver(i)
  PROVE  HandedOver(i)'
<1>1. MmeInv /\ ue_count \in Nat
  BY MmeIdentifiers DEF LockInv, MmeInv, MmeTypeInv, MmeTypeOK
<1>2. ue_count' \in {ue_count, ue_count + 1} /\ s1mme_id'[i] \in {s1mme_id[i], 0}
  BY <1>1, EntryChange DEF HandedOver
<1> QED
  BY <1>1, <1>2 DEF HandedOver

(* The TEID of a context is what the SGW answered the subscriber's own     *)
(* connection.                                                             *)
LEMMA MmeTeids ==
  ASSUME LockInv, NEW c \in UEs, MmeStep(c), NEW g \in Imsi
  PROVE  \/ mme_ctx'[g].teid = mme_ctx[g].teid
         \/ g = c /\ mme_ctx'[g].teid = 0
         \/ /\ g = c
            /\ \E r \in s11r : r.sock = <<c, s11port[c]>> /\ mme_ctx'[g].teid = r.teid
<1> DEFINE w == mme_w[c]
           m == Head(up[c])
<1>t. /\ mme_ctx \in [Imsi -> MmeCtx] /\ c \in Imsi /\ mme_ctx[c] \in MmeCtx
      /\ w.pc # "idle" => w.guti = c
  BY EnrolledTypes DEF LockInv, EpcInv, Knows
<1>g. ASSUME g # c, NEW x, mme_ctx' = [mme_ctx EXCEPT ![c] = x]
      PROVE  mme_ctx'[g].teid = mme_ctx[g].teid
  BY <1>t, <1>g
<1>c. ASSUME NEW x, mme_ctx' = [mme_ctx EXCEPT ![c] = x] PROVE mme_ctx'[c] = x
  BY <1>t, <1>c
<1>1. CASE MmeInitialAttach(c)
  <2>1. m.arg = c
    BY <1>1, TakeMessage DEF MmeInitialAttach, UpTrue
  <2>2. mme_ctx' = [mme_ctx EXCEPT ![c] = [mme_ctx[c] EXCEPT !.imsi = c]]
    BY <1>1, <1>t, <2>1 DEF MmeInitialAttach
  <2> QED
    BY <1>t, <1>g, <1>c, <2>2 DEF MmeCtx
<1>2. CASE MmeAutnInfo(c)
  <2>1. mme_ctx' = [mme_ctx EXCEPT ![c] = [mme_ctx[c] EXCEPT !.xres = s6a[c].x]]
    BY <1>2, <1>t DEF MmeAutnInfo, HandlerAt
  <2> QED
    BY <1>t, <1>g, <1>c, <2>1 DEF MmeCtx
<1>3. CASE MmeAuthentication(c)
  <2>1. mme_ctx' = mme_ctx \/ mme_ctx' = [mme_ctx EXCEPT ![c] = NoMmeCtx]
    BY <1>3, TakeMessage DEF MmeAuthentication, Forget
  <2> QED
    BY <1>t, <1>g, <1>c, <2>1 DEF NoMmeCtx
<1>4. CASE MmeCreateSession(c)
  <2>1. PICK r \in Replies(c) :
          /\ SgwReply(c, r)
          /\ mme_ctx' = [mme_ctx EXCEPT ![c].teid = r.teid, ![c].ul = r.teid]
    BY <1>4, <1>t DEF MmeCreateSession, HandlerAt
  <2>2. mme_ctx'[c].teid = r.teid /\ (g # c => mme_ctx'[g].teid = mme_ctx[g].teid)
    BY <1>t, <2>1 DEF MmeCtx
  <2>3. r.teid = 0 \/ (r \in s11r /\ r.sock = <<c, s11port[c]>>)
    BY <2>1 DEF SgwReply, SgwAnswers, SgwTimeout, Nothing
  <2> QED
    BY <2>2, <2>3
<1>5. CASE MmeAttachComplete(c)
  <2>1. mme_ctx' = [mme_ctx EXCEPT ![c].dl = m.arg, ![c].emm = 1]
    <3>1. get_guti(c) = c
      BY <1>5, TakeMessage DEF MmeAttachComplete
    <3> QED
      BY <1>5, <3>1 DEF MmeAttachComplete
  <2>2. g = c => mme_ctx'[g].teid = mme_ctx[g].teid
    BY <1>t, <2>1 DEF MmeCtx
  <2>3. g # c => mme_ctx'[g].teid = mme_ctx[g].teid
    BY <1>t, <2>1
  <2> QED
    BY <2>2, <2>3
<1>6. CASE MmeModifyBearer(c)
  <2>1. \/ mme_ctx' = mme_ctx
        \/ mme_ctx' = [mme_ctx EXCEPT ![c] = [mme_ctx[c] EXCEPT !.ecm = 1]]
    BY <1>6, <1>t DEF MmeModifyBearer, HandlerAt
  <2> QED
    BY <1>t, <1>g, <1>c, <2>1 DEF MmeCtx
<1>7. CASE MmeDetachRemove(c)
  <2>1. mme_ctx' = [mme_ctx EXCEPT ![c] = NoMmeCtx]
    BY <1>7, <1>t DEF MmeDetachRemove, HandlerAt, Forget
  <2> QED
    BY <1>g, <1>c, <2>1 DEF NoMmeCtx
<1>8. CASE UNCHANGED mme_ctx
  BY <1>8
<1> QED
  BY <1>1, <1>2, <1>3, <1>4, <1>5, <1>6, <1>7, <1>8
  DEF MmeStep, MmeSecurityComplete, MmeLocationUpdate, MmeDetach, MmeDetachAnswer,
      MmeHandover, MmeHoRequest, MmeHoAnswer, MmeIgnore, mmeOwn

(* What a subscriber's connection asks the SGW.                            *)
LEMMA MmeAsks ==
  ASSUME LockInv, RegInv, IndirectInv, NEW c \in UEs, MmeStep(c), NEW d \in s11', d \notin s11
  PROVE  Ordered(d)
<1> DEFINE w == mme_w[c]
<1>t. /\ mme_ctx \in [Imsi -> MmeCtx] /\ c \in Imsi /\ ran[c].pc \in RanPc
      /\ w.pc # "idle" => w.guti = c
      /\ w.pc \in Serves[ran[c].pc]
      /\ Authenticating(c) => mme_ctx[c].imsi = c
  BY EnrolledTypes DEF LockInv, EpcInv, Knows, Turn, RegInv, Enrolled, Emm
<1>a. ASSUME NEW op, NEW teid, NEW imsi, NEW arg, AskSgw(c, op, teid, imsi, arg)
      PROVE  d.sock[1] = c /\ d.op = op /\ d.teid = teid /\ d.imsi = imsi /\ d.arg = arg
  BY <1>a DEF AskSgw
<1>1. CASE MmeLocationUpdate(c)
  <2>1. w.pc = "loc" /\ w.guti = c
    BY <1>1, <1>t DEF MmeLocationUpdate, HandlerAt
  <2>2. ran[c].pc = "eps"
    BY <1>t, <2>1 DEF Serves, RanPc
  <2>3. AskSgw(c, "create", 0, c, c)
    BY <1>1, <1>t, <2>1, <2>2 DEF MmeLocationUpdate, get_s11cteidmme, Authenticating
  <2> QED
    BY <1>a, <2>3 DEF Ordered
<1>2. CASE MmeAttachComplete(c)
  <2>1. \E x, y : AskSgw(c, "modify", x, 0, y)
    BY <1>2 DEF MmeAttachComplete
  <2> QED
    BY <1>a, <2>1 DEF Ordered
<1>3. CASE MmeDetach(c)
  <2>1. get_guti(c) = c /\ 5 \in Says[ran[c].pc]
    BY <1>3, TakeMessage DEF MmeDetach
  <2>2. c # HoUE
    BY <1>t, <2>1 DEF Says, RanPc, IndirectInv, HandoverIds
  <2>3. AskSgw(c, "detach", mme_ctx[c].teid, 0, 0)
    BY <1>3, <2>1 DEF MmeDetach
  <2> QED
    BY <1>a, <1>t, <2>2, <2>3 DEF Ordered, IndirectInv
<1>4. CASE MmeHoRequest(c)
  <2>1. PICK h \in HoOp : /\ Receive(c, h[1])
                          /\ \E x, y : AskSgw(c, h[2], x, 0, y)
    BY <1>4 DEF MmeHoRequest
  <2>2. h[1] \in Says[ran[c].pc]
    BY <2>1, TakeMessage
  <2>3. h[2] = "teardown"
    BY <1>t, <2>1, <2>2 DEF HoOp, Says, RanPc
  <2> QED
    BY <1>a, <2>1, <2>3 DEF Ordered
<1>5. CASE UNCHANGED s11
  BY <1>5
<1> QED
  BY <1>1, <1>2, <1>3, <1>4, <1>5
  DEF MmeStep, MmeInitialAttach, MmeAutnInfo, MmeAuthentication, MmeSecurityComplete,
      MmeCreateSession, MmeModifyBearer, MmeDetachAnswer, MmeDetachRemove, MmeHandover,
      MmeHoAnswer, MmeIgnore, gtpVars

(* No step of the MME adds an answer of the SGW.                           *)
LEMMA MmeReads ==
  ASSUME NEW c \in Conn, MmeStep(c)
  PROVE  s11r' \subseteq s11r
<1>1. ASSUME NEW r \in Replies(c), SgwReply(c, r) PROVE s11r' \subseteq s11r
  BY <1>1 DEF SgwReply, SgwAnswers, SgwTimeout
<1>2. CASE UNCHANGED s11r
  BY <1>2
<1>3. CASE \E r \in Replies(c) : SgwReply(c, r)
  BY <1>1, <1>3
<1> QED
  BY <1>2, <1>3
  DEF MmeStep, MmeInitialAttach, MmeAutnInfo, MmeAuthentication, MmeSecurityComplete,
      MmeLocationUpdate, MmeCreateSession, MmeAttachComplete, MmeModifyBearer, MmeDetach,
      MmeDetachAnswer, MmeDetachRemove, MmeHandover, MmeHoRequest, MmeHoAnswer, MmeIgnore,
      gtpVars

(* The only message of the handover that the MME sends with a new id is    *)
(* the command, and HoUE asked for it.                                     *)
LEMMA MmeHandsOver ==
  ASSUME LockInv, IndirectInv, NEW c \in UEs, MmeStep(c), NEW m \in toRan', m \notin toRan,
         m.t = 7
  PROVE  HandedOver(m.id)
<1> DEFINE u == Head(up[c])
<1>a. ASSUME NEW t, NEW id, NEW arg, NEW enb, ToEnb(t, id, arg, enb)
      PROVE  m.t = t /\ m.id = id
  BY <1>a DEF ToEnb
<1>1. CASE MmeHandover(c)
  <2>1. Receive(c, 7) /\ m.id = u.id
    BY <1>1, <1>a DEF MmeHandover
  <2>2. 7 \in Says[ran[c].pc] /\ s1mme_id[u.id] = c
    BY <2>1, TakeMessage DEF get_guti
  <2>3. c = HoUE
    <3>1. ran[c].pc \in RanPc
      BY EnrolledTypes DEF LockInv
    <3> QED
      BY <2>2, <3>1 DEF Says, RanPc, IndirectInv, HandoverIds
  <2>4. u.id \in 0 .. ue_count
    BY <2>1, HeadOwn, MmeIdentifiers DEF LockInv, Receive
  <2> QED
    BY <2>1, <2>2, <2>3, <2>4 DEF HandedOver
<1>2. CASE MmeHoAnswer(c)
  <2>1. \E h \in HoOp : (\E id, arg : ToEnb(h[1], id, arg, 0)) \/ UNCHANGED toRan
    BY <1>2 DEF MmeHoAnswer
  <2>2. \E h \in HoOp : h[1] = 7
    BY <1>a, <2>1
  <2> QED
    BY <2>2 DEF HoOp
<1>3. CASE UNCHANGED toRan
  BY <1>3
<1> QED
  BY <1>1, <1>2, <1>3
  DEF MmeStep, MmeInitialAttach, MmeAutnInfo, MmeAuthentication, MmeSecurityComplete,
      MmeLocationUpdate, MmeCreateSession, MmeAttachComplete, MmeModifyBearer, MmeDetach,
      MmeDetachAnswer, MmeDetachRemove, MmeHoRequest, MmeIgnore, sctpVars

LEMMA MmeIndirect ==
  ASSUME LockInv, RegInv, IndirectInv, NEW c \in UEs, MmeProcess(c)
  PROVE  IndirectInv'
<1>t. /\ MmeStep(c) /\ c \in Conn /\ 0 \in Conn /\ c # 0 /\ EpcTypeInv /\ MmeTypeInv /\ HoUE \in Imsi
      /\ UNCHANGED <<ran, ranT, sgw_ctx, sgw_th>>
  BY MmeIdentifiers, HoUEAssumption DEF MmeProcess, ranOwn, sgwOwn, LockInv, MmeInv
<1>h. (HoThere <=> HoThere') /\ (HoThere => HoThere')
  BY <1>t DEF HoThere
<1>o. /\ \A d : Ordered(d) => Ordered(d)'
      /\ \A r : Told(r) => Told(r)'
      /\ \A u : WorksOn(u) /\ sgw_th'[u] = sgw_th[u] => WorksOn(u)'
  BY <1>h, StillOrdered
<1>i. \A i : HandedOver(i) => HandedOver(i)'
  BY <1>t, StillHandedOver
<1>1. HandoverIds'
  <2>1. \A n \in UEs : /\ ran'[n].pc \in {"ho", "end"} => n = HoUE
                       /\ ran'[n].pc = "bye" => n # HoUE
    BY <1>t DEF IndirectInv, HandoverIds
  <2>2. ASSUME NEW m \in toRan', m.t = 7 PROVE HandedOver(m.id)'
    <3>1. HandedOver(m.id)
      BY <1>t, <2>2, MmeHandsOver DEF IndirectInv, HandoverIds
    <3> QED
      BY <1>i, <3>1
  <2>3. HandedOver(ranT.id)'
    BY <1>i, <1>t DEF IndirectInv, HandoverIds, HandedOver
  <2>4. \A k \in DOMAIN up'[0] : HandedOver(up[0][k].id)'
    <3>1. up'[0] = up[0]
      BY <1>t, OtherQueues
    <3>2. \A k \in DOMAIN up[0] : HandedOver(up[0][k].id)
      BY DEF IndirectInv, HandoverIds
    <3> QED
      BY <1>i, <3>1, <3>2 DEF HandedOver
  <2> QED
    BY <2>1, <2>2, <2>3, <2>4 DEF HandoverIds, HandedOver
<1>2. ASSUME NEW g \in Imsi PROVE mme_ctx'[g].teid \in {0, g} /\ (g = HoUE /\ mme_ctx'[g].teid # 0 => HoThere)
  <2>1. ASSUME NEW r \in s11r, r.sock = <<c, s11port[c]>>, g = c
        PROVE  r.teid \in {0, g} /\ (r.teid # 0 /\ g = HoUE => HoThere)
    BY <1>t, <2>1 DEF IndirectInv, Told
  <2> QED
    BY <1>t, <2>1, MmeTeids DEF IndirectInv
<1>3. ASSUME NEW d \in s11' PROVE Ordered(d)'
  BY <1>t, <1>o, MmeAsks DEF IndirectInv
<1>4. ASSUME NEW r \in s11r' PROVE Told(r)'
  BY <1>t, <1>o, MmeReads DEF IndirectInv
<1>5. \A t \in S11Threads : WorksOn(t)'
  BY <1>t, <1>o DEF IndirectInv
<1> QED
  BY <1>t, <1>h, <1>1, <1>2, <1>3, <1>4, <1>5 DEF IndirectInv

(* The target eNodeB's connection asks about the id of the handover.       *)
LEMMA MmeTargetIndirect ==
  ASSUME LockInv, IndirectInv, MmeProcess(0)
  PROVE  IndirectInv'
<1> DEFINE u == Head(up[0])
<1>t. /\ MmeStep(0) /\ 0 \in Conn /\ EpcTypeInv /\ MmeTypeInv /\ HoUE \in Imsi
      /\ UNCHANGED <<ran, ranT, sgw_ctx, sgw_th, ue_count, s1mme_id, mme_ctx>>
  BY MmeIdentifiers, HoUEAssumption, TargetStep
  DEF MmeProcess, ranOwn, sgwOwn, LockInv, MmeInv
<1>h. (HoThere <=> HoThere') /\ (HoThere => HoThere')
  BY <1>t DEF HoThere
<1>o. /\ \A d : Ordered(d) => Ordered(d)'
      /\ \A r : Told(r) => Told(r)'
      /\ \A v : WorksOn(v) /\ sgw_th'[v] = sgw_th[v] => WorksOn(v)'
  BY <1>h, StillOrdered
<1>i. \A i : HandedOver(i) => HandedOver(i)'
  BY <1>t DEF HandedOver
<1>u. up[0] # <<>> => HandedOver(u.id)
  <2>1. up[0] # <<>> => 1 \in DOMAIN up[0] /\ u = up[0][1]
    BY <1>t, Queues
  <2> QED
    BY <2>1 DEF IndirectInv, HandoverIds
<1>1. ASSUME NEW d \in s11', d \notin s11 PROVE Ordered(d)
  <2>1. MmeHoRequest(0) /\ up[0] # <<>>
    <3>1. MmeHoAnswer(0) \/ MmeIgnore(0) => UNCHANGED s11
      BY DEF MmeHoAnswer, MmeIgnore, gtpVars
    <3> QED
      BY <1>t, <1>1, <3>1, TargetDoes
  <2>2. PICK h \in HoOp : AskSgw(0, h[2], mme_ctx[get_guti(0)].teid, 0, u.arg)
    BY <2>1 DEF MmeHoRequest
  <2>3. d.sock[1] = 0 /\ d.op = h[2] /\ d.teid = mme_ctx[get_guti(0)].teid
    BY <1>1, <2>2 DEF AskSgw
  <2>4. h[2] # "create" /\ h[2] # "detach"
    BY <2>2 DEF HoOp
  <2>5. get_guti(0) \in {0, HoUE}
    BY <1>u, <2>1 DEF HandedOver, get_guti
  <2>6. d.teid \in {0, HoUE} /\ (d.teid # 0 => HoThere)
    BY <1>t, <2>3, <2>5, MmeIdentifiers DEF IndirectInv
  <2> QED
    BY <2>3, <2>4, <2>6 DEF Ordered
<1>2. ASSUME NEW m \in toRan', m \notin toRan PROVE m.t # 7
  <2>1. MmeHoAnswer(0)
    <3>1. MmeHoRequest(0) \/ MmeIgnore(0) => UNCHANGED toRan
      BY DEF MmeHoRequest, MmeIgnore
    <3> QED
      BY <1>t, <1>2, <3>1, TargetDoes
  <2>2. \E h \in HoOp : (\E id, arg : ToEnb(h[1], id, arg, 0)) \/ UNCHANGED toRan
    BY <2>1 DEF MmeHoAnswer
  <2>3. \E h \in HoOp : m.t = h[1]
    BY <1>2, <2>2 DEF ToEnb
  <2> QED
    BY <2>3 DEF HoOp
<1>3. HandoverIds'
  <2>1. \A m \in toRan' : m.t = 7 => HandedOver(m.id)
    BY <1>2 DEF IndirectInv, HandoverIds
  <2>2. \A k \in DOMAIN up'[0] : \E j \in DOMAIN up[0] : up'[0][k] = up[0][j]
    BY <1>t, MessagesTaken
  <2>3. \A k \in DOMAIN up'[0] : \E j : HandedOver(j) /\ up'[0][k].id = j
    BY <2>2 DEF IndirectInv, HandoverIds
  <2> QED
    BY <1>t, <2>1, <2>3 DEF IndirectInv, HandoverIds, HandedOver
<1> QED
  BY <1>t, <1>h, <1>o, <1>1, <1>3, MmeReads DEF IndirectInv

(* Only HoUE is handed over, and the target eNodeB passes on the id it was *)
(* given.                                                                  *)
LEMMA RanHandoverIds ==
  ASSUME LockInv, HandoverIds, RanNext
  PROVE  HandoverIds'
<1>t. /\ EpcTypeInv /\ 0 \in Conn /\ ran \in [UEs -> RanCtx] /\ 0 \notin UEs /\ UEs \subseteq Conn
      /\ ranT \in TargetEnb /\ \A n \in UEs : Turn(n)
      /\ UNCHANGED <<ue_count, s1mme_id>>
  BY EnrolledTypes, MmeIdentifiers
  DEF LockInv, EpcInv, EpcTypeInv, EpcTypeOK, RanTypeOK, RanNext, mmeOwn
<1> DEFINE Ids == {i \in 0 .. ue_count : s1mme_id[i] \in {0, HoUE}}
<1>i. \A i : (HandedOver(i) <=> i \in Ids) /\ (HandedOver(i)' <=> i \in Ids)
  BY <1>t DEF HandedOver
<1>0. /\ \A n \in UEs : /\ ran[n].pc \in {"ho", "end"} => n = HoUE
                        /\ ran[n].pc = "bye" => n # HoUE
      /\ \A m \in toRan : m.t = 7 => m.id \in Ids
      /\ ranT.id \in Ids
      /\ \A k \in DOMAIN up[0] : up[0][k].id \in Ids
  BY <1>i DEF HandoverIds
<1> HIDE DEF Ids
<1>p. ASSUME NEW n \in UEs, NEW x, ran' = [ran EXCEPT ![n].pc = x],
             x \in {"ho", "end"} => n = HoUE, x = "bye" => n # HoUE
      PROVE  \A m \in UEs : /\ ran'[m].pc \in {"ho", "end"} => m = HoUE
                            /\ ran'[m].pc = "bye" => m # HoUE
  <2>1. \A m \in UEs \ {n} : ran'[m] = ran[m]
    BY <1>t, <1>p
  <2>2. ran'[n].pc = x
    BY <1>t, <1>p DEF RanCtx
  <2> QED
    BY <1>0, <1>p, <2>1, <2>2
<1>s. ASSUME NEW t, NEW arg, Send(0, t, ranT.id, arg)
      PROVE  \A k \in DOMAIN up'[0] : up'[0][k].id \in Ids
  <2>1. /\ DOMAIN up'[0] = 1 .. Len(up[0]) + 1
        /\ \A k \in 1 .. Len(up[0]) : up'[0][k] = up[0][k]
        /\ up'[0][Len(up[0]) + 1] = [t |-> t, id |-> ranT.id, arg |-> arg]
    BY <1>s, <1>t, SendQueue
  <2>2. Len(up[0]) \in Nat /\ DOMAIN up[0] = 1 .. Len(up[0])
    BY <1>t, Queues
  <2> QED
    BY <1>0, <2>1, <2>2
<1>n. ASSUME NEW n \in UEs, NEW t, NEW id, NEW arg, Send(n, t, id, arg) PROVE up'[0] = up[0]
  <2>1. n \in Conn /\ 0 \in Conn \ {n}
    BY <1>t
  <2> QED
    BY <1>n, <1>t, <2>1, SendQueue
(* What is to be shown, with the ids of today.                             *)
<1>c. ASSUME \A n \in UEs : /\ ran'[n].pc \in {"ho", "end"} => n = HoUE
                            /\ ran'[n].pc = "bye" => n # HoUE,
             toRan' \subseteq toRan, ranT'.id \in Ids,
             up'[0] = up[0] \/ \A k \in DOMAIN up'[0] : up'[0][k].id \in Ids
      PROVE  HandoverIds'
  <2>1. \A k \in DOMAIN up'[0] : up'[0][k].id \in Ids
    BY <1>c, <1>0
  <2>2. \A m \in toRan' : m.t = 7 => m.id \in Ids
    BY <1>c, <1>0
  <2> QED
    BY <1>c, <1>i, <2>1, <2>2 DEF HandoverIds, HandedOver
<1>1. ASSUME NEW n \in UEs, RanUeStep(n) PROVE HandoverIds'
  <2>1. /\ UNCHANGED <<toRan, ranT>> /\ up'[0] = up[0]
        /\ \A m \in UEs \ {n} : ran'[m] = ran[m]
    BY <1>1, <1>t, RanOthers
    DEF RanUeStep, RanInitialAttach, RanAuthenticate, RanSetSecurity, RanSetEpsSession,
        RanDetach, RanDetached
  <2>2. \/ ran'[n].pc \in {"off", "auth", "sec", "eps", "attached"}
        \/ ran'[n].pc = "bye" /\ n # HoUE
    BY <1>1, <1>t
    DEF RanUeStep, RanInitialAttach, RanAuthenticate, RanSetSecurity, RanSetEpsSession,
        RanDetach, RanDetached, RanCtx
  <2> QED
    BY <1>c, <1>0, <2>1, <2>2
<1>2. CASE RanInitiateHandover
  <2>1. PICK n \in UEs \cap {HoUE} :
          /\ Send(n, 7, ran[n].id, n) /\ ran' = [ran EXCEPT ![n].pc = "ho"]
          /\ UNCHANGED <<toRan, ranT>>
    BY <1>2 DEF RanInitiateHandover
  <2> QED
    BY <1>c, <1>n, <1>p, <1>0, <2>1
<1>3. CASE RanHandleHandover
  <2>1. PICK m \in toRan : /\ m.t = 7 /\ toRan' = toRan \ {m} /\ UNCHANGED <<up, ran>>
                           /\ ranT'.id = m.id
    BY <1>3, <1>t DEF RanHandleHandover, TargetEnb
  <2> QED
    BY <1>c, <1>0, <2>1
<1>4. CASE RanConnect
  <2>1. ranT'.id = ranT.id /\ UNCHANGED <<up, ran, toRan>>
    BY <1>4, <1>t DEF RanConnect, TargetEnb, sctpVars
  <2> QED
    BY <1>c, <1>0, <2>1
<1>5. CASE RanAckHandover
  <2>1. ranT'.id = ranT.id /\ UNCHANGED <<ran, toRan>> /\ Send(0, 8, ranT.id, ranT.enb)
    BY <1>5, <1>t DEF RanAckHandover, TargetEnb
  <2> QED
    BY <1>c, <1>0, <1>s, <2>1
<1>6. CASE RanIndirectTunnelComplete
  BY <1>6, <1>c, <1>0 DEF RanIndirectTunnelComplete
<1>7. CASE RanCompleteHandover
  <2>1. PICK n \in UEs \cap {HoUE} :
          /\ Send(0, 9, ranT.id, 0) \/ UNCHANGED up
          /\ ran' = [ran EXCEPT ![n].pc = "end"] /\ UNCHANGED <<toRan, ranT>>
    BY <1>7 DEF RanCompleteHandover
  <2> QED
    BY <1>c, <1>p, <1>0, <1>s, <2>1
<1>8. CASE RanRequestTearDown
  <2>1. PICK m \in toRan, n \in UEs \cap {HoUE} :
          /\ toRan' = toRan \ {m} /\ Send(n, 10, ran[n].id, ranS.indirect)
          /\ ran' = [ran EXCEPT ![n].ul = 0] /\ UNCHANGED ranT
    BY <1>8 DEF RanRequestTearDown
  <2>2. \A k \in UEs : ran'[k].pc = ran[k].pc
    BY <1>t, <2>1 DEF RanCtx
  <2> QED
    BY <1>c, <1>n, <1>0, <2>1, <2>2
<1> QED
  BY <1>1, <1>2, <1>3, <1>4, <1>5, <1>6, <1>7, <1>8 DEF RanNext, RanHoStep

LEMMA IndirectInit == EpcInit => IndirectInv
<1> SUFFICES ASSUME EpcInit PROVE IndirectInv
  OBVIOUS
<1>1. HandoverIds
  BY MmeIdentifiers
  DEF EpcInit, SctpInit, RanInit, MmeInit, HandoverIds, HandedOver
<1>2. \A g \in Imsi : mme_ctx[g].teid = 0
  BY DEF EpcInit, MmeInit, NoMmeCtx
<1>3. s11 = {} /\ s11r = {} /\ \A t \in S11Threads : sgw_th[t].pc = "idle"
  BY DEF EpcInit, GtpInit, SgwInit, Idle
<1> QED
  BY <1>1, <1>2, <1>3, HoUEAssumption DEF IndirectInv, WorksOn

LEMMA IndirectNext ==
  LockInv /\ RegInv /\ IsolationInv /\ IndirectInv /\ [EpcNext]_epcVars => IndirectInv'
<1> SUFFICES ASSUME LockInv, RegInv, IsolationInv, IndirectInv, [EpcNext]_epcVars
             PROVE  IndirectInv'
  OBVIOUS
<1>s. ASSUME UNCHANGED <<s11, s11r, mme_ctx, sgw_ctx, sgw_th>>, HandoverIds'
      PROVE  IndirectInv'
  <2>1. HoThere <=> HoThere'
    BY <1>s DEF HoThere
  <2> QED
    BY <1>s, <2>1, StillOrdered DEF IndirectInv
<1>1. CASE RanNext
  BY <1>1, <1>s, RanHandoverIds DEF RanNext, gtpVars, mmeOwn, sgwOwn, IndirectInv
<1>2. ASSUME NEW c \in Conn, MmeProcess(c) PROVE IndirectInv'
  BY <1>2, MmeIndirect, MmeTargetIndirect, MmeIdentifiers
<1>3. ASSUME NEW c \in Conn, HssNext(c) PROVE IndirectInv'
  <2>1. UNCHANGED <<up, toRan>>
    BY <1>3 DEF HssNext, HssStep, HssAutnInfo, HssExit, HssDeleteLoc, HssInsertLoc
  <2> QED
    BY <1>3, <1>s, <2>1
    DEF HssNext, gtpVars, mmeOwn, sgwOwn, ranOwn, IndirectInv, HandoverIds, HandedOver
<1>4. ASSUME NEW t \in S11Threads, SgwProcess(t) PROVE IndirectInv'
  BY <1>4, SgwIndirect
<1>5. ASSUME NEW t \in S5Threads, PgwProcess(t) PROVE IndirectInv'
  <2>1. UNCHANGED <<s11, s11r>>
    BY <1>5 DEF PgwProcess, PgwStep, PgwCreateSession, PgwCreateSgi, PgwCreateCtx, PgwDetach,
         PgwDetachAnswer, PgwDetachS5, PgwDetachSgi, PgwDetachCtx, gtpVars
  <2> QED
    BY <1>5, <1>s, <2>1
    DEF PgwProcess, sctpVars, mmeOwn, sgwOwn, ranOwn, IndirectInv, HandoverIds, HandedOver
<1>6. CASE UNCHANGED epcVars
  BY <1>6, <1>s
  DEF epcVars, sctpVars, gtpVars, ranOwn, mmeOwn, sgwOwn, IndirectInv, HandoverIds, HandedOver
<1> QED
  BY <1>1, <1>2, <1>3, <1>4, <1>5, <1>6 DEF EpcNext

LEMMA IndirectInvariant == EpcSpec => [](LockInv /\ RegInv /\ IsolationInv /\ IndirectInv)
<1>1. EpcInit => IndirectInv
  BY IndirectInit
<1>2. LockInv /\ RegInv /\ IsolationInv /\ IndirectInv /\ [EpcNext]_epcVars => IndirectInv'
  BY IndirectNext
<1> QED
  BY <1>1, <1>2, RegInvariant, EpcImplementsSgw, IsolationInvariant, PTL DEF EpcSpec

(* The number that follows the handed over subscriber's is nobody's.       *)
NoNeighbour == \A n \in UEs \cap {HoUE} : n + 1 \notin UEs

(* In the whole system no TEID that is a subscriber's own ever resolves to *)
(* another, if the one number that follows the handed over subscriber's is *)
(* nobody's: subscriber 1 and the neighbours of all the others are safe,   *)
(* timeouts of the gateways and any number of their threads included       *)
(* (update_itfid, handle_indirect_tunnel_setup).                           *)
THEOREM EpcUeIsolation == ASSUME NoNeighbour PROVE EpcSpec => []UeIsolation
<1>1. EpcInit => UeIsolation
  BY InitIsolation DEF EpcInit
<1>2. LockInv /\ IsolationInv /\ IndirectInv /\ UeIsolation /\ [EpcNext]_epcVars
        => UeIsolation'
  <2> SUFFICES ASSUME LockInv, IsolationInv, IndirectInv, UeIsolation, [EpcNext]_epcVars
               PROVE  UeIsolation'
    OBVIOUS
  <2>1. CASE UNCHANGED sgw_id
    BY <2>1 DEF UeIsolation
  <2>2. ASSUME NEW t \in S11Threads, SgwProcess(t) PROVE UeIsolation'
    <3>1. ASSUME At(t, "ho_add"), sgw_th[t].imsi # 0
          PROVE  IndirectTeid(sgw_th[t].teid) \notin UEs
      <4>1. WorksOn(t) /\ ThreadInv(t) /\ sgw_th[t].pc = "ho_add"
        BY <3>1 DEF At, IndirectInv, IsolationInv
      <4>2. sgw_th[t].teid = HoUE /\ sgw_th[t].imsi = HoUE
        BY <3>1, <4>1 DEF WorksOn, Ordered, ThreadInv, LookupOp, S11Op
      <4>3. HoUE \in UEs
        BY <3>1, <4>2, HoUEAssumption, MmeIdentifiers
      <4> QED
        BY <4>2, <4>3 DEF IndirectTeid, NoNeighbour
    <3> QED
      BY <2>2, <3>1, StepUes DEF SgwProcess
  <2> QED
    BY <2>1, <2>2
    DEF EpcNext, epcVars, RanNext, MmeProcess, HssNext, PgwProcess, sgwOwn
<1> QED
  BY <1>1, <1>2, IndirectInvariant, PTL DEF EpcSpec
=============================================================================
