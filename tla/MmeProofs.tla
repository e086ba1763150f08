----------------------------- MODULE MmeProofs -----------------------------
(***************************************************************************)
(* Proofs about the mobility management entity, for every set of           *)
(* subscribers, every number of ids and timeouts, and every environment    *)
(* that uses a subscriber's ids on its own connection alone (MmeEnv).      *)
(***************************************************************************)
EXTENDS Mme, SequenceTheorems, TLAPS

-----------------------------------------------------------------------------
(* Types.                                                                  *)

(* A context holds the IMSI of the GUTI it belongs to, or none: so a       *)
(* create session is well formed.                                          *)
CtxOwn == \A g \in Imsi : mme_ctx[g].imsi \in {0, g}

MmeTypeInv ==
  /\ SctpTypeOK /\ MmeTypeOK /\ CtxOwn
  /\ s11 \subseteq S11Req /\ s11r \subseteq S11Rsp

LEMMA MmeIdentifiers ==
  /\ Imsi \subseteq Nat /\ 0 \in Imsi /\ Imsi \subseteq Teid /\ 0 \in Teid
  /\ UEs \subseteq Imsi /\ 0 \notin UEs /\ Imsi = UEs \cup {0}
  /\ Conn = UEs \cup {0} /\ UeId \subseteq Nat /\ 0 \in UeId
BY UEsAssumption, MaxUeIdAssumption DEF Imsi, Teid, Conn, UeId

LEMMA MmeInitType == SctpInit /\ GtpInit /\ MmeInit => MmeTypeInv
<1> SUFFICES ASSUME SctpInit, GtpInit, MmeInit PROVE MmeTypeInv
  OBVIOUS
<1>1. SctpTypeOK
  BY MmeIdentifiers, EmptySeq DEF SctpInit, SctpTypeOK, S6a, NoS6a
<1>2. NoMmeCtx \in MmeCtx
  BY MmeIdentifiers DEF NoMmeCtx, MmeCtx
<1>3. MmeTypeOK
  BY <1>2, MmeIdentifiers, MaxS11TimeoutsAssumption DEF MmeInit, MmeTypeOK, MmePc
<1>4. CtxOwn
  BY DEF MmeInit, CtxOwn, NoMmeCtx
<1> QED
  BY <1>1, <1>3, <1>4 DEF GtpInit, MmeTypeInv

(* The message a handler reads, and what it leaves of the queue.           *)
LEMMA HeadType ==
  ASSUME MmeTypeInv, NEW c \in Conn, up[c] # <<>>
  PROVE  /\ Head(up[c]) \in UpAny
         /\ Head(up[c]).id \in UeId /\ Head(up[c]).arg \in Teid
         /\ Head(up[c]).t \in {1, 5, 7} => Head(up[c]).arg \in Imsi
         /\ get_guti(c) \in Imsi
         /\ [up EXCEPT ![c] = Tail(@)] \in [Conn -> Seq(Up)]
<1>1. up \in [Conn -> Seq(Up)] /\ up[c] \in Seq(Up)
  BY DEF MmeTypeInv, SctpTypeOK
<1>2. Head(up[c]) \in Up /\ Tail(up[c]) \in Seq(Up)
  BY <1>1, HeadTailProperties
<1>3. Head(up[c]).id \in UeId
  BY <1>2 DEF Up, UpAny
<1>4. get_guti(c) \in Imsi
  BY <1>3 DEF get_guti, MmeTypeInv, MmeTypeOK
<1> QED
  BY <1>1, <1>2, <1>4 DEF Up, UpAny

LEMMA ReceiveType ==
  ASSUME MmeTypeInv, NEW c \in Conn, NEW t, Receive(c, t)
  PROVE  up' \in [Conn -> Seq(Up)]
BY HeadType DEF Receive

LEMMA WaitType ==
  ASSUME MmeTypeInv, NEW c \in Conn, NEW pc \in MmePc, NEW id \in UeId, NEW g \in Imsi,
         Wait(c, pc, id, g)
  PROVE  mme_w' \in [Conn -> [pc : MmePc, id : UeId, guti : Imsi]]
BY DEF Wait, MmeTypeInv, MmeTypeOK

LEMMA DoneType ==
  ASSUME MmeTypeInv, NEW c \in Conn, Done(c)
  PROVE  mme_w' \in [Conn -> [pc : MmePc, id : UeId, guti : Imsi]]
BY WaitType, MmeIdentifiers DEF Done, MmePc

LEMMA HandlerType ==
  ASSUME MmeTypeInv, NEW c \in Conn
  PROVE  mme_w[c].pc \in MmePc /\ mme_w[c].id \in UeId /\ mme_w[c].guti \in Imsi
BY DEF MmeTypeInv, MmeTypeOK

LEMMA ToUeType ==
  ASSUME MmeTypeInv, NEW c \in Conn, NEW t \in {1, 2, 3, 5}, NEW id \in UeId,
         NEW arg \in Teid, NEW g \in Imsi, NEW ip \in Imsi, ToUe(c, t, id, arg, g, ip)
  PROVE  down' \in [Conn -> Seq(Down)]
<1> DEFINE m == [t |-> t, id |-> id, arg |-> arg, guti |-> g, ip |-> ip]
<1>1. m \in Down
  BY DEF Down
<1>2. down[c] \in Seq(Down)
  BY DEF MmeTypeInv, SctpTypeOK
<1>3. Append(down[c], m) \in Seq(Down)
  BY <1>1, <1>2, AppendProperties
<1> QED
  BY <1>3 DEF ToUe, MmeTypeInv, SctpTypeOK

LEMMA AskType ==
  ASSUME MmeTypeInv, NEW c \in Conn, NEW op \in S11Op, NEW teid \in Teid,
         NEW i \in Imsi, NEW arg \in Teid, AskSgw(c, op, teid, i, arg),
         op = "create" => arg \in UEs /\ i \in {0, arg}
  PROVE  s11' \subseteq S11Req
<1>1. <<c, s11port[c]>> \in S11Sock
  BY S11SockAssumption DEF MmeTypeInv, MmeTypeOK
<1>2. [op |-> op, sock |-> <<c, s11port[c]>>, teid |-> teid, imsi |-> i, arg |-> arg]
        \in S11Req
  BY <1>1 DEF S11Req, S11Any
<1> QED
  BY <1>2 DEF AskSgw, MmeTypeInv

(* An answer of the gateway, or its absence, is well formed.               *)
LEMMA ReplyType ==
  ASSUME MmeTypeInv, NEW c \in Conn, mme_w[c].pc \in S11Op,
         NEW r \in Replies(c), SgwReply(c, r)
  PROVE  /\ r \in S11Rsp /\ s11r' \subseteq S11Rsp
         /\ s11port' \in [Conn -> 0 .. MaxS11Timeouts]
<1>1. <<c, s11port[c]>> \in S11Sock
  BY S11SockAssumption DEF MmeTypeInv, MmeTypeOK
<1>2. Nothing(c) \in S11Rsp
  BY <1>1, MmeIdentifiers DEF Nothing, S11Rsp
<1>3. r \in S11Rsp
  BY <1>2 DEF Replies, MmeTypeInv
<1> QED
  BY <1>3, MaxS11TimeoutsAssumption
  DEF SgwReply, SgwAnswers, SgwTimeout, MmeTypeInv, MmeTypeOK

LEMMA ForgetType ==
  ASSUME MmeTypeInv, NEW id \in UeId, NEW g \in Imsi, Forget(id, g)
  PROVE  s1mme_id' \in [UeId -> Imsi] /\ mme_ctx' \in [Imsi -> MmeCtx] /\ CtxOwn'
<1>1. NoMmeCtx \in MmeCtx
  BY MmeIdentifiers DEF NoMmeCtx, MmeCtx
<1>2. s1mme_id' \in [UeId -> Imsi] /\ mme_ctx' \in [Imsi -> MmeCtx]
  BY <1>1, MmeIdentifiers DEF Forget, MmeTypeInv, MmeTypeOK
<1>3. CtxOwn'
  BY DEF Forget, MmeTypeInv, MmeTypeOK, CtxOwn, NoMmeCtx
<1> QED
  BY <1>2, <1>3

(* The fields of a context stay well typed one by one; only a new attach   *)
(* writes an IMSI, its own.                                                *)
LEMMA CtxType ==
  ASSUME MmeTypeInv, NEW g \in Imsi, NEW x \in MmeCtx, x.imsi \in {0, g},
         mme_ctx' = [mme_ctx EXCEPT ![g] = x]
  PROVE  mme_ctx' \in [Imsi -> MmeCtx] /\ CtxOwn'
BY DEF MmeTypeInv, MmeTypeOK, CtxOwn

(* No handler disturbs the types, and none asks the gateway anything       *)
(* malformed.                                                              *)
LEMMA MmeStepType ==
  ASSUME MmeTypeInv, NEW c \in Conn, MmeStep(c)
  PROVE  MmeTypeInv'
<1> DEFINE m == Head(up[c])
           g == get_guti(c)
           w == mme_w[c]
<1>t. /\ SctpTypeOK /\ MmeTypeOK /\ CtxOwn
      /\ s11 \subseteq S11Req /\ s11r \subseteq S11Rsp
  BY DEF MmeTypeInv
<1>w. w.pc \in MmePc /\ w.id \in UeId /\ w.guti \in Imsi
  BY HandlerType
<1>c. \A h \in Imsi : mme_ctx[h] \in MmeCtx /\ mme_ctx[h].imsi \in {0, h}
  BY <1>t DEF MmeTypeOK, CtxOwn
<1>1. CASE MmeInitialAttach(c)
  <2>1. Receive(c, 1) /\ m.t = 1
    BY <1>1 DEF MmeInitialAttach, Receive
  <2>2. m.arg \in Imsi /\ up' \in [Conn -> Seq(Up)]
    BY <2>1, HeadType, ReceiveType DEF Receive
  <2>3. NextUeId \in UeId
    BY <1>1, <1>t, MaxUeIdAssumption DEF MmeInitialAttach, NextUeId, MmeTypeOK, UeId
  <2>4. mme_w' \in [Conn -> [pc : MmePc, id : UeId, guti : Imsi]]
    BY <1>1, <2>2, <2>3, WaitType DEF MmeInitialAttach, MmePc
  <2>5. mme_ctx' = [mme_ctx EXCEPT ![m.arg] = [mme_ctx[m.arg] EXCEPT !.imsi = m.arg]]
    BY <1>1 DEF MmeInitialAttach
  <2>6. [mme_ctx[m.arg] EXCEPT !.imsi = m.arg] \in MmeCtx
    BY <1>c, <2>2 DEF MmeCtx
  <2>7. [mme_ctx[m.arg] EXCEPT !.imsi = m.arg].imsi = m.arg
    BY <1>c, <2>2 DEF MmeCtx
  <2>8. mme_ctx' \in [Imsi -> MmeCtx] /\ CtxOwn'
    BY <2>2, <2>5, <2>6, <2>7, CtxType
  <2>9. s6a' \in [Conn -> S6a]
    BY <1>1, <1>t, <2>2 DEF MmeInitialAttach, SctpTypeOK, S6a
  <2> QED
    BY <1>1, <1>t, <2>2, <2>3, <2>4, <2>8, <2>9
    DEF MmeInitialAttach, MmeTypeInv, MmeTypeOK, SctpTypeOK, gtpVars
<1>2. CASE MmeAutnInfo(c)
  <2>1. s6a[c].x \in Imsi
    BY <1>t DEF SctpTypeOK, S6a
  <2>2. mme_ctx' = [mme_ctx EXCEPT ![w.guti] = [mme_ctx[w.guti] EXCEPT !.xres = s6a[c].x]]
    BY <1>2 DEF MmeAutnInfo
  <2>3. /\ [mme_ctx[w.guti] EXCEPT !.xres = s6a[c].x] \in MmeCtx
        /\ [mme_ctx[w.guti] EXCEPT !.xres = s6a[c].x].imsi = mme_ctx[w.guti].imsi
    BY <1>c, <1>w, <2>1 DEF MmeCtx
  <2>4. mme_ctx' \in [Imsi -> MmeCtx] /\ CtxOwn'
    BY <1>c, <1>w, <2>2, <2>3, CtxType
  <2>5. down' \in [Conn -> Seq(Down)]
    BY <1>2, <1>w, <2>1, ToUeType, MmeIdentifiers DEF MmeAutnInfo
  <2>6. mme_w' \in [Conn -> [pc : MmePc, id : UeId, guti : Imsi]]
    BY <1>2, DoneType DEF MmeAutnInfo
  <2>7. s6a' \in [Conn -> S6a]
    BY <1>2, <1>t, MmeIdentifiers DEF MmeAutnInfo, SctpTypeOK, S6a, NoS6a
  <2> QED
    BY <1>2, <1>t, <2>4, <2>5, <2>6, <2>7
    DEF MmeAutnInfo, MmeTypeInv, MmeTypeOK, SctpTypeOK, gtpVars
<1>3. CASE MmeAuthentication(c)
  <2>1. Receive(c, 2) /\ up[c] # <<>>
    BY <1>3 DEF MmeAuthentication, Receive
  <2>2. m.id \in UeId /\ g \in Imsi /\ up' \in [Conn -> Seq(Up)]
    BY <2>1, HeadType, ReceiveType
  <2>3. CASE ToUe(c, 2, m.id, 0, 0, 0) /\ UNCHANGED <<s1mme_id, mme_ctx>>
    <3>1. down' \in [Conn -> Seq(Down)]
      BY <2>2, <2>3, ToUeType, MmeIdentifiers
    <3> QED
      BY <1>3, <1>t, <2>2, <2>3, <3>1
      DEF MmeAuthentication, MmeTypeInv, MmeTypeOK, SctpTypeOK, gtpVars, CtxOwn
  <2>4. CASE Forget(m.id, g) /\ UNCHANGED down
    BY <1>3, <1>t, <2>2, <2>4, ForgetType
    DEF MmeAuthentication, MmeTypeInv, MmeTypeOK, SctpTypeOK, gtpVars
  <2> QED
    BY <1>3, <2>3, <2>4 DEF MmeAuthentication
<1>4. CASE MmeSecurityComplete(c)
  <2>1. Receive(c, 3) /\ up[c] # <<>>
    BY <1>4 DEF MmeSecurityComplete, Receive
  <2>2. m.id \in UeId /\ g \in Imsi /\ up' \in [Conn -> Seq(Up)]
    BY <2>1, HeadType, ReceiveType
  <2>3. mme_w' \in [Conn -> [pc : MmePc, id : UeId, guti : Imsi]]
    BY <1>4, <2>2, WaitType DEF MmeSecurityComplete, MmePc
  <2>4. mme_ctx[g].imsi \in Imsi
    BY <1>c, <2>2, MmeIdentifiers
  <2>5. s6a' \in [Conn -> S6a]
    BY <1>4, <1>t, <2>4 DEF MmeSecurityComplete, SctpTypeOK, S6a
  <2> QED
    BY <1>4, <1>t, <2>2, <2>3, <2>5
    DEF MmeSecurityComplete, MmeTypeInv, MmeTypeOK, SctpTypeOK, gtpVars, CtxOwn
<1>5. CASE MmeLocationUpdate(c)
  <2>1. s6a' \in [Conn -> S6a]
    BY <1>5, <1>t, MmeIdentifiers DEF MmeLocationUpdate, SctpTypeOK, S6a, NoS6a
  <2>2. CASE /\ w.guti # 0
             /\ AskSgw(c, "create", 0, mme_ctx[w.guti].imsi, get_s11cteidmme(w.guti))
             /\ Wait(c, "create", w.id, w.guti)
             /\ UNCHANGED mme_up
    <3>1. /\ w.guti \in UEs /\ w.guti \in Teid /\ 0 \in Teid
          /\ mme_ctx[w.guti].imsi \in {0, w.guti} /\ mme_ctx[w.guti].imsi \in Imsi
      BY <1>w, <1>c, <2>2, MmeIdentifiers
    <3>2. s11' \subseteq S11Req
      BY <2>2, <3>1, AskType DEF get_s11cteidmme, S11Op
    <3>3. mme_w' \in [Conn -> [pc : MmePc, id : UeId, guti : Imsi]]
      BY <1>w, <2>2, WaitType DEF MmePc, S11Op
    <3> QED
      BY <1>5, <1>t, <2>1, <2>2, <3>2, <3>3
      DEF MmeLocationUpdate, MmeTypeInv, MmeTypeOK, SctpTypeOK, CtxOwn
  <2>3. CASE mme_up' = FALSE /\ UNCHANGED <<s11, mme_w>>
    BY <1>5, <1>t, <2>1, <2>3
    DEF MmeLocationUpdate, MmeTypeInv, MmeTypeOK, SctpTypeOK, CtxOwn
  <2> QED
    BY <1>5, <2>2, <2>3 DEF MmeLocationUpdate
<1>6. CASE MmeCreateSession(c)
  <2>1. PICK r \in Replies(c) :
          /\ HandlerAt(c, "create")
          /\ SgwReply(c, r)
          /\ mme_ctx' = [mme_ctx EXCEPT ![w.guti].teid = r.teid, ![w.guti].ul = r.teid]
          /\ ToUe(c, 3, w.id, r.teid, w.guti, r.ip)
          /\ Done(c)
          /\ UNCHANGED <<up, toRan, s6a, s11, s5, s5r, ue_count, s1mme_id, mme_up>>
    BY <1>6 DEF MmeCreateSession
  <2>2. /\ r \in S11Rsp /\ s11r' \subseteq S11Rsp
        /\ s11port' \in [Conn -> 0 .. MaxS11Timeouts]
    BY <2>1, ReplyType DEF HandlerAt, S11Op
  <2>3. r.teid \in Teid /\ r.ip \in Imsi
    BY <2>2 DEF S11Rsp
  <2> DEFINE x == [mme_ctx[w.guti] EXCEPT !.teid = r.teid, !.ul = r.teid]
  <2>4. mme_ctx' = [mme_ctx EXCEPT ![w.guti] = x]
    BY <2>1, <1>t, <1>w DEF MmeTypeOK
  <2>5. x \in MmeCtx /\ x.imsi = mme_ctx[w.guti].imsi
    BY <1>c, <1>w, <2>3 DEF MmeCtx
  <2>6. mme_ctx' \in [Imsi -> MmeCtx] /\ CtxOwn'
    <3> HIDE DEF x
    <3> QED
      BY <1>c, <1>w, <2>4, <2>5, CtxType
  <2>7. down' \in [Conn -> Seq(Down)]
    BY <1>w, <2>1, <2>3, ToUeType
  <2>8. mme_w' \in [Conn -> [pc : MmePc, id : UeId, guti : Imsi]]
    BY <2>1, DoneType
  <2> QED
    BY <1>t, <2>1, <2>2, <2>6, <2>7, <2>8 DEF MmeTypeInv, MmeTypeOK, SctpTypeOK
<1>7. CASE MmeAttachComplete(c)
  <2>1. Receive(c, 4) /\ up[c] # <<>>
    BY <1>7 DEF MmeAttachComplete, Receive
  <2>2. m.id \in UeId /\ g \in Imsi /\ m.arg \in Teid /\ up' \in [Conn -> Seq(Up)]
    BY <2>1, HeadType, ReceiveType
  <2> DEFINE x == [mme_ctx[g] EXCEPT !.dl = m.arg, !.emm = 1]
  <2>3. mme_ctx' = [mme_ctx EXCEPT ![g] = x]
    BY <1>7, <1>t, <2>2 DEF MmeAttachComplete, MmeTypeOK
  <2>4. x \in MmeCtx /\ x.imsi = mme_ctx[g].imsi /\ mme_ctx[g].teid \in Teid
    <3> HIDE DEF g, m
    <3>1. mme_ctx[g] \in MmeCtx
      BY <1>c, <2>2
    <3>2. m.arg \in Teid
      BY <2>2
    <3> QED
      BY <3>1, <3>2 DEF MmeCtx
  <2>5. mme_ctx' \in [Imsi -> MmeCtx] /\ CtxOwn'
    <3> HIDE DEF x
    <3> QED
      BY <1>c, <2>2, <2>3, <2>4, CtxType
  <2>6. s11' \subseteq S11Req
    BY <1>7, <2>2, <2>4, AskType, MmeIdentifiers DEF MmeAttachComplete, S11Op
  <2>7. mme_w' \in [Conn -> [pc : MmePc, id : UeId, guti : Imsi]]
    BY <1>7, <2>2, WaitType DEF MmeAttachComplete, MmePc, S11Op
  <2> QED
    BY <1>7, <1>t, <2>2, <2>5, <2>6, <2>7
    DEF MmeAttachComplete, MmeTypeInv, MmeTypeOK, SctpTypeOK
<1>8. CASE MmeModifyBearer(c)
  <2>1. PICK r \in Replies(c) :
          /\ HandlerAt(c, "modify")
          /\ SgwReply(c, r)
          /\ mme_ctx' = IF r.ok THEN [mme_ctx EXCEPT ![w.guti].ecm = 1] ELSE mme_ctx
          /\ Done(c)
          /\ UNCHANGED <<sctpVars, s11, s5, s5r, ue_count, s1mme_id, mme_up>>
    BY <1>8 DEF MmeModifyBearer
  <2>2. s11r' \subseteq S11Rsp /\ s11port' \in [Conn -> 0 .. MaxS11Timeouts]
    BY <2>1, ReplyType DEF HandlerAt, S11Op
  <2>3. mme_ctx' \in [Imsi -> MmeCtx] /\ CtxOwn'
    <3>1. CASE mme_ctx' = [mme_ctx EXCEPT ![w.guti].ecm = 1]
      <4>1. /\ [mme_ctx[w.guti] EXCEPT !.ecm = 1] \in MmeCtx
            /\ [mme_ctx[w.guti] EXCEPT !.ecm = 1].imsi = mme_ctx[w.guti].imsi
        BY <1>c, <1>w DEF MmeCtx
      <4> QED
        BY <1>c, <1>w, <3>1, <4>1, CtxType
    <3>2. CASE mme_ctx' = mme_ctx
      BY <1>t, <3>2 DEF MmeTypeOK, CtxOwn
    <3> QED
      BY <2>1, <3>1, <3>2
  <2>4. mme_w' \in [Conn -> [pc : MmePc, id : UeId, guti : Imsi]]
    BY <2>1, DoneType
  <2> QED
    BY <1>t, <2>1, <2>2, <2>3, <2>4 DEF MmeTypeInv, MmeTypeOK, SctpTypeOK, sctpVars
<1>9. CASE MmeDetach(c)
  <2>1. Receive(c, 5) /\ up[c] # <<>> /\ m.t = 5
    BY <1>9 DEF MmeDetach, Receive
  <2>2. m.id \in UeId /\ g \in Imsi /\ m.arg \in Imsi /\ up' \in [Conn -> Seq(Up)]
    BY <2>1, HeadType, ReceiveType
  <2>3. CASE /\ AskSgw(c, "detach", mme_ctx[g].teid, 0, 0)
             /\ Wait(c, "detach", m.id, m.arg)
             /\ UNCHANGED mme_up
    <3>1. mme_ctx[g].teid \in Teid
      BY <1>c, <2>2 DEF MmeCtx
    <3>2. s11' \subseteq S11Req
      BY <2>3, <3>1, AskType, MmeIdentifiers DEF S11Op
    <3>3. mme_w' \in [Conn -> [pc : MmePc, id : UeId, guti : Imsi]]
      BY <2>2, <2>3, WaitType DEF MmePc, S11Op
    <3> QED
      BY <1>9, <1>t, <2>2, <2>3, <3>2, <3>3
      DEF MmeDetach, MmeTypeInv, MmeTypeOK, SctpTypeOK, CtxOwn
  <2>4. CASE mme_up' = FALSE /\ UNCHANGED <<s11, mme_w>>
    BY <1>9, <1>t, <2>2, <2>4 DEF MmeDetach, MmeTypeInv, MmeTypeOK, SctpTypeOK, CtxOwn
  <2> QED
    BY <1>9, <2>3, <2>4 DEF MmeDetach
<1>10. CASE MmeDetachAnswer(c)
  <2>1. PICK r \in Replies(c) :
          /\ HandlerAt(c, "detach")
          /\ SgwReply(c, r)
          /\ \/ ToUe(c, 5, w.id, 0, 0, 0) /\ Wait(c, "rem", w.id, w.guti)
             \/ Done(c) /\ UNCHANGED down
          /\ UNCHANGED <<up, toRan, s6a, s11, s5, s5r, ue_count, s1mme_id, mme_ctx, mme_up>>
    BY <1>10 DEF MmeDetachAnswer
  <2>2. s11r' \subseteq S11Rsp /\ s11port' \in [Conn -> 0 .. MaxS11Timeouts]
    BY <2>1, ReplyType DEF HandlerAt, S11Op
  <2>3. down' \in [Conn -> Seq(Down)]
    BY <1>t, <1>w, <2>1, ToUeType, MmeIdentifiers DEF SctpTypeOK
  <2>4. mme_w' \in [Conn -> [pc : MmePc, id : UeId, guti : Imsi]]
    BY <1>w, <2>1, DoneType, WaitType DEF MmePc
  <2> QED
    BY <1>t, <2>1, <2>2, <2>3, <2>4 DEF MmeTypeInv, MmeTypeOK, SctpTypeOK, CtxOwn
<1>11. CASE MmeDetachRemove(c)
  <2>1. mme_w' \in [Conn -> [pc : MmePc, id : UeId, guti : Imsi]]
    BY <1>11, DoneType DEF MmeDetachRemove
  <2>2. s1mme_id' \in [UeId -> Imsi] /\ mme_ctx' \in [Imsi -> MmeCtx] /\ CtxOwn'
    BY <1>11, <1>w, ForgetType DEF MmeDetachRemove
  <2> QED
    BY <1>11, <1>t, <2>1, <2>2
    DEF MmeDetachRemove, MmeTypeInv, MmeTypeOK, SctpTypeOK, sctpVars, gtpVars
<1>12. CASE MmeHandover(c)
  <2>1. Receive(c, 7) /\ up[c] # <<>> /\ m.t = 7
    BY <1>12 DEF MmeHandover, Receive
  <2>2. m.id \in UeId /\ g \in Imsi /\ m.arg \in Imsi /\ up' \in [Conn -> Seq(Up)]
    BY <2>1, HeadType, ReceiveType
  <2>3. mme_ctx[g].ul \in Teid
    BY <1>c, <2>2 DEF MmeCtx
  <2>4. toRan' \subseteq ToRan
    BY <1>12, <1>t, <2>2, <2>3 DEF MmeHandover, ToEnb, ToRan, SctpTypeOK
  <2> QED
    BY <1>12, <1>t, <2>2, <2>4
    DEF MmeHandover, MmeTypeInv, MmeTypeOK, SctpTypeOK, CtxOwn, mmeOwn, gtpVars
<1>13. CASE MmeHoRequest(c)
  <2>1. PICK h \in HoOp :
          /\ Receive(c, h[1])
          /\ AskSgw(c, h[2], mme_ctx[g].teid, 0, m.arg)
          /\ Wait(c, h[2], m.id, g)
          /\ UNCHANGED <<down, toRan, s6a, s11r, s5, s5r, ue_count, s1mme_id,
                         mme_ctx, mme_up, s11port>>
    BY <1>13 DEF MmeHoRequest
  <2>2. up[c] # <<>> /\ h[2] \in S11Op /\ h[2] # "create" /\ h[2] \in MmePc
    BY <2>1 DEF Receive, HoOp, S11Op, MmePc
  <2>3. m.id \in UeId /\ g \in Imsi /\ m.arg \in Teid /\ up' \in [Conn -> Seq(Up)]
    BY <2>1, <2>2, HeadType, ReceiveType
  <2>4. mme_ctx[g].teid \in Teid
    BY <1>c, <2>3 DEF MmeCtx
  <2>5. s11' \subseteq S11Req
    BY <2>1, <2>2, <2>3, <2>4, AskType, MmeIdentifiers
  <2>6. mme_w' \in [Conn -> [pc : MmePc, id : UeId, guti : Imsi]]
    BY <2>1, <2>2, <2>3, WaitType
  <2> QED
    BY <1>t, <2>1, <2>3, <2>5, <2>6 DEF MmeTypeInv, MmeTypeOK, SctpTypeOK, CtxOwn
<1>14. CASE MmeHoAnswer(c)
  <2>1. PICK h \in HoOp, r \in Replies(c) :
          /\ HandlerAt(c, h[2])
          /\ SgwReply(c, r)
          /\ IF r.ok /\ h[1] # 10 THEN ToEnb(h[1], w.id, r.teid, 0) ELSE UNCHANGED toRan
          /\ Done(c)
          /\ UNCHANGED <<up, down, s6a, s11, s5, s5r, ue_count, s1mme_id, mme_ctx, mme_up>>
    BY <1>14 DEF MmeHoAnswer
  <2>2. /\ r \in S11Rsp /\ s11r' \subseteq S11Rsp
        /\ s11port' \in [Conn -> 0 .. MaxS11Timeouts]
    BY <2>1, ReplyType DEF HandlerAt, S11Op, HoOp
  <2>3. toRan' \subseteq ToRan
    <3>1. r.teid \in Teid
      BY <2>2 DEF S11Rsp
    <3>2. h[1] # 10 => h[1] \in {7, 8, 9}
      BY DEF HoOp
    <3> QED
      BY <1>t, <1>w, <2>1, <3>1, <3>2, MmeIdentifiers DEF ToEnb, ToRan, SctpTypeOK
  <2>4. mme_w' \in [Conn -> [pc : MmePc, id : UeId, guti : Imsi]]
    BY <2>1, DoneType
  <2> QED
    BY <1>t, <2>1, <2>2, <2>3, <2>4 DEF MmeTypeInv, MmeTypeOK, SctpTypeOK, CtxOwn
<1>15. CASE MmeIgnore(c)
  <2>1. up' \in [Conn -> Seq(Up)]
    BY <1>15, HeadType DEF MmeIgnore
  <2> QED
    BY <1>15, <1>t, <2>1
    DEF MmeIgnore, MmeTypeInv, MmeTypeOK, SctpTypeOK, CtxOwn, mmeOwn, gtpVars
<1> QED
  BY <1>1, <1>2, <1>3, <1>4, <1>5, <1>6, <1>7, <1>8, <1>9, <1>10, <1>11,
     <1>12, <1>13, <1>14, <1>15 DEF MmeStep

(* Types hold in every state of the MME, and what it asks the gateway is   *)
(* well formed (mme.cpp).                                                  *)
LEMMA MmeNextType == MmeTypeInv /\ [MmeNext]_mmeVars => MmeTypeInv'
<1> SUFFICES ASSUME MmeTypeInv, [MmeNext]_mmeVars PROVE MmeTypeInv'
  OBVIOUS
<1>1. CASE MmeEnv
  BY <1>1 DEF MmeEnv, MmeTypeInv, MmeTypeOK, CtxOwn, mmeOwn
<1>2. ASSUME NEW c \in Conn, MmeStep(c) PROVE MmeTypeInv'
  BY <1>2, MmeStepType
<1>3. CASE UNCHANGED mmeVars
  BY <1>3 DEF mmeVars, mmeOwn, sctpVars, gtpVars, MmeTypeInv, MmeTypeOK, SctpTypeOK, CtxOwn
<1> QED
  BY <1>1, <1>2, <1>3 DEF MmeNext

THEOREM MmeTypes == MmeSpec => [](MmeTypeOK /\ s11 \subseteq S11Req)
<1>1. SctpInit /\ GtpInit /\ MmeInit => MmeTypeInv
  BY MmeInitType
<1>2. MmeTypeInv /\ [MmeNext]_mmeVars => MmeTypeInv'
  BY MmeNextType
<1>3. MmeTypeInv => MmeTypeOK /\ s11 \subseteq S11Req
  BY DEF MmeTypeInv
<1> QED
  BY <1>1, <1>2, <1>3, PTL DEF MmeSpec
-----------------------------------------------------------------------------
(* Ids, handlers and contexts.  HandlerKeepsSubscriber is not inductive:   *)
(* a handler of another connection could remove the entry, were it not for *)
(* the messages, which name ids of their own connection's subscriber.      *)

(* No id ahead of the counter has an entry.                                *)
IdsBehind == \A i \in UeId : i > ue_count => s1mme_id[i] = 0

OwnMessages == \A c \in UEs : \A k \in DOMAIN up[c] : OwnMessage(c, up[c][k])

TargetMessages == \A k \in DOMAIN up[0] : up[0][k].t \in {8, 9}

(* A handler of c's connection works for c, or for nobody.                 *)
Keeps(c) ==
  mme_w[c].pc # "idle" =>
    /\ mme_w[c].id \in 0 .. ue_count
    /\ mme_w[c].guti \in {0, c} /\ s1mme_id[mme_w[c].id] = mme_w[c].guti

TargetHandler == mme_w[0].pc \in {"idle", "setup", "complete"}

Reachable(g) == mme_ctx[g] # NoMmeCtx => \E i \in UeId : s1mme_id[i] = g

MmeInv ==
  /\ MmeTypeInv /\ IdsBehind /\ OwnMessages /\ TargetMessages /\ TargetHandler
  /\ \A c \in UEs : Keeps(c) /\ Reachable(c)

(* In the beginning there is no message, no handler and no entry.          *)
LEMMA MmeInitInv == SctpInit /\ GtpInit /\ MmeInit => MmeInv
<1> SUFFICES ASSUME SctpInit, GtpInit, MmeInit PROVE MmeInv
  OBVIOUS
<1>1. \A c \in Conn : up[c] = <<>> /\ DOMAIN up[c] = {}
  BY EmptySeq DEF SctpInit
<1>2. \A c \in Conn : mme_w[c].pc = "idle"
  BY DEF MmeInit
<1> QED
  BY <1>1, <1>2, MmeInitType, MmeIdentifiers
  DEF MmeInit, MmeInv, IdsBehind, OwnMessages, TargetMessages, TargetHandler, Keeps, Reachable

(* The message at the head of a queue is one of it, and so is every        *)
(* message that is left when it is read.                                   *)
LEMMA QueueRead ==
  ASSUME MmeTypeInv, NEW c \in Conn, up[c] # <<>>
  PROVE  /\ 1 \in DOMAIN up[c] /\ Head(up[c]) = up[c][1]
         /\ \A k \in DOMAIN Tail(up[c]) :
              k + 1 \in DOMAIN up[c] /\ Tail(up[c])[k] = up[c][k + 1]
<1>1. up[c] \in Seq(Up) /\ Len(up[c]) \in Nat /\ DOMAIN up[c] = 1 .. Len(up[c])
  BY LenProperties DEF MmeTypeInv, SctpTypeOK
<1>2. Len(up[c]) # 0
  BY <1>1, EmptySeq
<1> QED
  BY <1>1, <1>2

(* What a message names is its connection's subscriber's.                  *)
LEMMA HeadOwn ==
  ASSUME MmeInv, NEW c \in Conn, up[c] # <<>>
  PROVE  /\ c = 0 => Head(up[c]).t \in {8, 9}
         /\ c \in UEs => /\ Head(up[c]).id \in 0 .. ue_count
                         /\ get_guti(c) = s1mme_id[Head(up[c]).id]
                         /\ get_guti(c) \in {0, c}
                         /\ Head(up[c]).t \in {1, 5} => Head(up[c]).arg = c
<1>1. 1 \in DOMAIN up[c] /\ Head(up[c]) = up[c][1]
  BY QueueRead DEF MmeInv
<1> QED
  BY <1>1 DEF MmeInv, OwnMessages, OwnMessage, TargetMessages, get_guti

LEMMA CountIds ==
  ASSUME MmeTypeInv
  PROVE  ue_count \in Nat /\ 0 .. ue_count \subseteq UeId
BY MaxUeIdAssumption DEF MmeTypeInv, MmeTypeOK, UeId

(* The connection of the target eNodeB has only handlers that write        *)
(* nothing.                                                                *)
LEMMA TargetStep ==
  ASSUME MmeInv, MmeStep(0)
  PROVE  TargetHandler' /\ UNCHANGED <<ue_count, s1mme_id, mme_ctx>>
<1>1. 0 \in Conn /\ mme_w \in [Conn -> [pc : MmePc, id : UeId, guti : Imsi]]
  BY MmeIdentifiers DEF MmeInv, MmeTypeInv, MmeTypeOK
<1>2. mme_w[0].pc \in {"idle", "setup", "complete"}
  BY DEF MmeInv, TargetHandler
<1>3. up[0] # <<>> => Head(up[0]).t \in {8, 9}
  BY <1>1, HeadOwn
<1>4. MmeHandover(0) \/ MmeHoRequest(0) \/ MmeHoAnswer(0) \/ MmeIgnore(0)
  <2>1. ~MmeInitialAttach(0) /\ ~MmeAuthentication(0) /\ ~MmeSecurityComplete(0)
    BY <1>3 DEF MmeInitialAttach, MmeAuthentication, MmeSecurityComplete, Receive
  <2>2. ~MmeAttachComplete(0) /\ ~MmeDetach(0)
    BY <1>3 DEF MmeAttachComplete, MmeDetach, Receive
  <2>3. ~MmeAutnInfo(0) /\ ~MmeLocationUpdate(0) /\ ~MmeDetachRemove(0)
    BY <1>2 DEF MmeAutnInfo, MmeLocationUpdate, MmeDetachRemove, HandlerAt
  <2>4. ~MmeCreateSession(0) /\ ~MmeModifyBearer(0) /\ ~MmeDetachAnswer(0)
    BY <1>2 DEF MmeCreateSession, MmeModifyBearer, MmeDetachAnswer, HandlerAt
  <2> QED
    BY <2>1, <2>2, <2>3, <2>4 DEF MmeStep
<1>5. CASE MmeHandover(0) \/ MmeIgnore(0)
  BY <1>2, <1>5 DEF MmeHandover, MmeIgnore, mmeOwn, TargetHandler
<1>6. CASE MmeHoRequest(0)
  <2>1. PICK h \in HoOp : Receive(0, h[1]) /\ Wait(0, h[2], Head(up[0]).id, get_guti(0))
    BY <1>6 DEF MmeHoRequest
  <2>2. h[2] \in {"setup", "complete"}
    BY <1>3, <2>1 DEF Receive, HoOp
  <2>3. TargetHandler'
    BY <1>1, <2>1, <2>2 DEF Wait, TargetHandler
  <2> QED
    BY <1>6, <2>3 DEF MmeHoRequest
<1>7. CASE MmeHoAnswer(0)
  BY <1>1, <1>7 DEF MmeHoAnswer, Done, Wait, TargetHandler
<1> QED
  BY <1>4, <1>5, <1>6, <1>7

(* A handler of c's connection gives out the next id and removes entries   *)
(* of c, and leaves the other connections' handlers alone.                 *)
LEMMA EntryChange ==
  ASSUME MmeInv, NEW c \in UEs, MmeStep(c)
  PROVE  /\ ue_count' \in {ue_count, ue_count + 1}
         /\ \A i \in UeId : i > ue_count' => s1mme_id'[i] = 0
         /\ \A i \in 0 .. ue_count :
              s1mme_id'[i] = s1mme_id[i] \/ (s1mme_id'[i] = 0 /\ s1mme_id[i] = c)
<1>t. /\ s1mme_id \in [UeId -> Imsi] /\ ue_count \in Nat /\ 0 .. ue_count \subseteq UeId
      /\ c \in Conn /\ IdsBehind /\ UeId \subseteq Nat
  BY CountIds, MmeIdentifiers DEF MmeInv, MmeTypeInv, MmeTypeOK
<1>1. CASE MmeInitialAttach(c)
  BY <1>1, <1>t DEF MmeInitialAttach, NextUeId, IdsBehind
<1>2. CASE MmeAuthentication(c)
  <2>1. up[c] # <<>> /\ Receive(c, 2)
    BY <1>2 DEF MmeAuthentication, Receive
  <2>2. Head(up[c]).id \in 0 .. ue_count /\ s1mme_id[Head(up[c]).id] \in {0, c}
    BY <1>t, <2>1, HeadOwn
  <2> QED
    BY <1>2, <1>t, <2>2 DEF MmeAuthentication, Forget, IdsBehind
<1>3. CASE MmeDetachRemove(c)
  <2>1. mme_w[c].id \in 0 .. ue_count /\ s1mme_id[mme_w[c].id] \in {0, c}
    BY <1>3 DEF MmeDetachRemove, HandlerAt, MmeInv, Keeps
  <2> QED
    BY <1>3, <1>t, <2>1 DEF MmeDetachRemove, Forget, IdsBehind
<1>4. CASE UNCHANGED <<ue_count, s1mme_id>>
  BY <1>4, <1>t DEF IdsBehind
<1> QED
  BY <1>1, <1>2, <1>3, <1>4
  DEF MmeStep, MmeAutnInfo, MmeSecurityComplete, MmeLocationUpdate, MmeCreateSession,
      MmeAttachComplete, MmeModifyBearer, MmeDetach, MmeDetachAnswer, MmeHandover,
      MmeHoRequest, MmeHoAnswer, MmeIgnore, mmeOwn

(* A step on one connection does not move the handler of another.          *)
LEMMA OtherHandlers ==
  ASSUME MmeTypeInv, NEW c \in Conn, MmeStep(c), NEW d \in Conn, d # c
  PROVE  mme_w'[d] = mme_w[d]
<1>1. mme_w \in [Conn -> [pc : MmePc, id : UeId, guti : Imsi]]
  BY DEF MmeTypeInv, MmeTypeOK
<1>2. \/ UNCHANGED mme_w
      \/ \E pc, id, g : Wait(c, pc, id, g)
  BY DEF MmeStep, MmeInitialAttach, MmeAutnInfo, MmeAuthentication, MmeSecurityComplete,
         MmeLocationUpdate, MmeCreateSession, MmeAttachComplete, MmeModifyBearer,
         MmeDetach, MmeDetachAnswer, MmeDetachRemove, MmeHandover, MmeHoRequest,
         MmeHoAnswer, MmeIgnore, Done, mmeOwn
<1> QED
  BY <1>1, <1>2 DEF Wait

(* A handler writes to the context of its own subscriber, or to the one of *)
(* nobody.                                                                 *)
LEMMA OtherContexts ==
  ASSUME MmeInv, NEW c \in UEs, MmeStep(c), NEW g \in UEs, g # c
  PROVE  mme_ctx'[g] = mme_ctx[g]
<1>t. /\ mme_ctx \in [Imsi -> MmeCtx] /\ c \in Conn /\ g \in Imsi /\ g # 0
      /\ mme_w[c].pc # "idle" => mme_w[c].guti \in {0, c}
      /\ up[c] # <<>> => /\ get_guti(c) \in {0, c}
                         /\ Head(up[c]).t = 1 => Head(up[c]).arg = c
  BY HeadOwn, MmeIdentifiers DEF MmeInv, MmeTypeInv, MmeTypeOK, Keeps
<1>1. CASE MmeInitialAttach(c)
  <2>1. Head(up[c]).arg = c
    BY <1>1, <1>t DEF MmeInitialAttach, Receive
  <2> QED
    BY <1>1, <1>t, <2>1 DEF MmeInitialAttach
<1>2. CASE MmeAutnInfo(c) \/ MmeCreateSession(c) \/ MmeModifyBearer(c)
  BY <1>2, <1>t DEF MmeAutnInfo, MmeCreateSession, MmeModifyBearer, HandlerAt
<1>3. CASE MmeAuthentication(c) \/ MmeAttachComplete(c)
  <2>1. get_guti(c) \in {0, c}
    BY <1>3, <1>t DEF MmeAuthentication, MmeAttachComplete, Receive
  <2> QED
    BY <1>3, <1>t, <2>1 DEF MmeAuthentication, MmeAttachComplete, Forget
<1>4. CASE MmeDetachRemove(c)
  BY <1>4, <1>t DEF MmeDetachRemove, HandlerAt, Forget
<1>5. CASE UNCHANGED mme_ctx
  BY <1>5
<1> QED
  BY <1>1, <1>2, <1>3, <1>4, <1>5
  DEF MmeStep, MmeSecurityComplete, MmeLocationUpdate, MmeDetach, MmeDetachAnswer,
      MmeHandover, MmeHoRequest, MmeHoAnswer, MmeIgnore, mmeOwn

(* What a handler waits for is its own subscriber's, and its context stays *)
(* reachable.                                                              *)
LEMMA OwnStep ==
  ASSUME MmeInv, NEW c \in UEs, MmeStep(c)
  PROVE  Keeps(c)' /\ Reachable(c)'
<1> DEFINE m == Head(up[c])
           g == get_guti(c)
           w == mme_w[c]
<1>t. /\ s1mme_id \in [UeId -> Imsi] /\ mme_ctx \in [Imsi -> MmeCtx]
      /\ mme_w \in [Conn -> [pc : MmePc, id : UeId, guti : Imsi]]
      /\ ue_count \in Nat /\ 0 .. ue_count \subseteq UeId
      /\ c \in Conn /\ c \in Imsi /\ c # 0 /\ 0 \in Imsi
  BY CountIds, MmeIdentifiers DEF MmeInv, MmeTypeInv, MmeTypeOK
<1>m. up[c] # <<>> => /\ m.id \in 0 .. ue_count /\ g = s1mme_id[m.id] /\ g \in {0, c}
                      /\ m.t \in {1, 5} => m.arg = c
  BY <1>t, HeadOwn
<1>k. Keeps(c) /\ Reachable(c)
  BY DEF MmeInv
<1>w. w.pc # "idle" => w.id \in 0 .. ue_count /\ w.guti \in {0, c} /\ s1mme_id[w.id] = w.guti
  BY <1>k DEF Keeps
<1>1. CASE MmeInitialAttach(c)
  <2>1. m.arg = c
    BY <1>1, <1>m DEF MmeInitialAttach, Receive
  <2>2. /\ ue_count' = ue_count + 1 /\ ue_count + 1 \in UeId
        /\ s1mme_id' = [s1mme_id EXCEPT ![ue_count + 1] = c]
        /\ mme_w' = [mme_w EXCEPT ![c] = [pc |-> "autn", id |-> ue_count + 1, guti |-> c]]
    <3>1. ue_count + 1 \in UeId
      BY <1>1, <1>t, MaxUeIdAssumption DEF MmeInitialAttach, UeId
    <3> QED
      BY <1>1, <2>1, <3>1 DEF MmeInitialAttach, NextUeId, Wait
  <2> QED
    BY <1>t, <2>2 DEF Keeps, Reachable
<1>2. CASE MmeAutnInfo(c) \/ MmeCreateSession(c) \/ MmeModifyBearer(c)
  <2>1. /\ w.pc # "idle" /\ UNCHANGED s1mme_id /\ Done(c)
        /\ \A h \in Imsi : h # w.guti => mme_ctx'[h] = mme_ctx[h]
    BY <1>2, <1>t DEF MmeAutnInfo, MmeCreateSession, MmeModifyBearer, HandlerAt
  <2>2. Keeps(c)'
    BY <1>t, <2>1 DEF Done, Wait, Keeps
  <2>3. Reachable(c)'
    BY <1>t, <1>k, <1>w, <2>1 DEF Reachable
  <2> QED
    BY <2>2, <2>3
<1>3. CASE MmeAuthentication(c)
  <2>1. up[c] # <<>> /\ w.pc = "idle" /\ UNCHANGED <<mme_w, ue_count>>
    BY <1>3 DEF MmeAuthentication, Receive
  <2>2. CASE UNCHANGED <<s1mme_id, mme_ctx>>
    BY <1>k, <2>1, <2>2 DEF Keeps, Reachable
  <2>3. CASE Forget(m.id, g)
    <3>1. CASE g = c
      BY <1>t, <2>1, <2>3, <3>1 DEF Forget, Keeps, Reachable
    <3>2. CASE g = 0
      BY <1>t, <1>m, <1>k, <2>1, <2>3, <3>2 DEF Forget, Keeps, Reachable
    <3> QED
      BY <1>m, <2>1, <3>1, <3>2
  <2> QED
    BY <1>3, <2>2, <2>3 DEF MmeAuthentication
<1>4. CASE MmeSecurityComplete(c) \/ MmeHoRequest(c) \/ MmeAttachComplete(c)
  <2>1. PICK pc : /\ up[c] # <<>> /\ UNCHANGED <<s1mme_id, ue_count>>
                  /\ Wait(c, pc, m.id, g)
                  /\ \A h \in Imsi : h # g => mme_ctx'[h] = mme_ctx[h]
    BY <1>4, <1>t DEF MmeSecurityComplete, MmeHoRequest, MmeAttachComplete, Receive
  <2>2. Keeps(c)'
    BY <1>t, <1>m, <2>1 DEF Wait, Keeps
  <2>3. Reachable(c)'
    BY <1>t, <1>m, <1>k, <2>1 DEF Reachable
  <2> QED
    BY <2>2, <2>3
<1>5. CASE MmeLocationUpdate(c) \/ MmeDetachAnswer(c) \/ MmeHoAnswer(c)
  <2>1. /\ w.pc # "idle" /\ UNCHANGED <<s1mme_id, ue_count, mme_ctx>>
        /\ \/ UNCHANGED mme_w
           \/ Done(c)
           \/ \E pc : Wait(c, pc, w.id, w.guti)
    BY <1>5 DEF MmeLocationUpdate, MmeDetachAnswer, MmeHoAnswer, HandlerAt, HoOp
  <2> QED
    BY <1>t, <1>k, <1>w, <2>1 DEF Done, Wait, Keeps, Reachable
<1>6. CASE MmeDetach(c)
  <2>1. /\ up[c] # <<>> /\ m.t = 5 /\ w.pc = "idle"
        /\ UNCHANGED <<s1mme_id, ue_count, mme_ctx>>
        /\ \/ g # 0 /\ Wait(c, "detach", m.id, m.arg)
           \/ UNCHANGED mme_w
    BY <1>6 DEF MmeDetach, Receive
  <2> QED
    BY <1>t, <1>k, <1>m, <2>1 DEF Wait, Keeps, Reachable
<1>7. CASE MmeDetachRemove(c)
  <2>1. w.pc # "idle" /\ Done(c) /\ Forget(w.id, w.guti)
    BY <1>7 DEF MmeDetachRemove, HandlerAt
  <2>2. Keeps(c)'
    BY <1>t, <2>1 DEF Done, Wait, Keeps
  <2>3. Reachable(c)'
    <3>1. CASE w.guti = c
      BY <1>t, <2>1, <3>1 DEF Forget, Reachable
    <3>2. CASE w.guti = 0
      BY <1>t, <1>k, <1>w, <2>1, <3>2 DEF Forget, Reachable
    <3> QED
      BY <1>w, <2>1, <3>1, <3>2
  <2> QED
    BY <2>2, <2>3
<1>8. CASE MmeHandover(c) \/ MmeIgnore(c)
  BY <1>8, <1>k DEF MmeHandover, MmeIgnore, mmeOwn, Keeps, Reachable
<1> QED
  BY <1>1, <1>2, <1>3, <1>4, <1>5, <1>6, <1>7, <1>8 DEF MmeStep

(* The MME only takes messages from the queues.                            *)
LEMMA MessagesTaken ==
  ASSUME MmeTypeInv, NEW c \in Conn, MmeStep(c), NEW d \in Conn, NEW k \in DOMAIN up'[d]
  PROVE  \E j \in DOMAIN up[d] : up'[d][k] = up[d][j]
<1>1. up \in [Conn -> Seq(Up)]
  BY DEF MmeTypeInv, SctpTypeOK
<1>2. \/ UNCHANGED up
      \/ up[c] # <<>> /\ up' = [up EXCEPT ![c] = Tail(@)]
  BY DEF MmeStep, MmeInitialAttach, MmeAutnInfo, MmeAuthentication, MmeSecurityComplete,
         MmeLocationUpdate, MmeCreateSession, MmeAttachComplete, MmeModifyBearer,
         MmeDetach, MmeDetachAnswer, MmeDetachRemove, MmeHandover, MmeHoRequest,
         MmeHoAnswer, MmeIgnore, Receive, sctpVars
<1>3. CASE up'[d] = up[d]
  BY <1>3
<1>4. CASE up[c] # <<>> /\ d = c /\ up'[d] = Tail(up[d])
  BY <1>4, QueueRead
<1> QED
  BY <1>1, <1>2, <1>3, <1>4

(* An id that was somebody's is never anybody else's.                      *)
LEMMA MessagesOwn ==
  ASSUME MmeInv, NEW c \in Conn, MmeStep(c), ue_count' >= ue_count, ue_count' \in Nat,
         \A i \in 0 .. ue_count : s1mme_id'[i] \in {0, s1mme_id[i]}
  PROVE  OwnMessages' /\ TargetMessages'
<1>1. OwnMessages /\ TargetMessages /\ MmeTypeInv /\ ue_count \in Nat
  BY CountIds DEF MmeInv
<1>2. ASSUME NEW d \in UEs, NEW k \in DOMAIN up'[d]
      PROVE  OwnMessage(d, up[d][k])'
  <2>1. PICK j \in DOMAIN up[d] : up'[d][k] = up[d][j]
    BY <1>1, MessagesTaken, MmeIdentifiers
  <2>2. OwnMessage(d, up[d][j])
    BY <1>1, <2>1 DEF OwnMessages
  <2> QED
    BY <1>1, <2>1, <2>2 DEF OwnMessage
<1>3. ASSUME NEW k \in DOMAIN up'[0]
      PROVE  up'[0][k].t \in {8, 9}
  <2>1. PICK j \in DOMAIN up[0] : up'[0][k] = up[0][j]
    BY <1>1, MessagesTaken, MmeIdentifiers
  <2> QED
    BY <1>1, <2>1 DEF TargetMessages
<1> QED
  BY <1>2, <1>3 DEF OwnMessages, TargetMessages

(* No step of the MME and none of its environment disturbs the invariant.  *)
LEMMA MmeNextInv == MmeInv /\ [MmeNext]_mmeVars => MmeInv'
<1> SUFFICES ASSUME MmeInv, [MmeNext]_mmeVars PROVE MmeInv'
  OBVIOUS
<1>t. MmeTypeInv /\ MmeTypeInv'
  BY MmeNextType DEF MmeInv
<1>n. /\ ue_count \in Nat /\ 0 .. ue_count \subseteq UeId /\ UeId \subseteq Nat
      /\ UEs \subseteq Conn /\ 0 \in Conn /\ 0 \notin UEs /\ UEs \subseteq Nat
      /\ s1mme_id \in [UeId -> Imsi]
  BY <1>t, CountIds, MmeIdentifiers DEF MmeTypeInv, MmeTypeOK
<1>1. CASE MmeEnv
  <2>1. OwnMessages' /\ TargetMessages'
    BY <1>1 DEF MmeEnv, OwnMessages, OwnMessage, TargetMessages, mmeOwn
  <2> QED
    BY <1>1, <1>t, <2>1
    DEF MmeEnv, mmeOwn, MmeInv, IdsBehind, TargetHandler, Keeps, Reachable
<1>2. CASE MmeStep(0)
  <2>1. TargetHandler' /\ UNCHANGED <<ue_count, s1mme_id, mme_ctx>>
    BY <1>2, TargetStep
  <2>2. OwnMessages' /\ TargetMessages'
    BY <1>2, <1>n, <2>1, MessagesOwn
  <2>3. \A d \in UEs : mme_w'[d] = mme_w[d]
    BY <1>2, <1>t, <1>n, OtherHandlers
  <2> QED
    BY <1>t, <2>1, <2>2, <2>3 DEF MmeInv, IdsBehind, Keeps, Reachable
<1>3. ASSUME NEW c \in UEs, MmeStep(c)
      PROVE  MmeInv'
  <2>1. /\ ue_count' \in {ue_count, ue_count + 1}
        /\ \A i \in UeId : i > ue_count' => s1mme_id'[i] = 0
        /\ \A i \in 0 .. ue_count :
             s1mme_id'[i] = s1mme_id[i] \/ (s1mme_id'[i] = 0 /\ s1mme_id[i] = c)
    BY <1>3, EntryChange
  <2>2. OwnMessages' /\ TargetMessages'
    BY <1>3, <1>n, <2>1, MessagesOwn
  <2>3. TargetHandler'
    <3>1. mme_w'[0] = mme_w[0]
      BY <1>3, <1>t, <1>n, OtherHandlers
    <3> QED
      BY <3>1 DEF TargetHandler, MmeInv
  <2>4. ASSUME NEW d \in UEs
        PROVE  Keeps(d)' /\ Reachable(d)'
    <3>1. CASE d = c
      BY <1>3, <3>1, OwnStep
    <3>2. CASE d # c
      <4>1. mme_w'[d] = mme_w[d] /\ mme_ctx'[d] = mme_ctx[d]
        BY <1>3, <1>t, <1>n, <3>2, OtherHandlers, OtherContexts
      <4>2. Keeps(d) /\ Reachable(d) /\ IdsBehind
        BY DEF MmeInv
      <4>3. Keeps(d)'
        BY <1>n, <2>1, <3>2, <4>1, <4>2 DEF Keeps
      <4>4. \A i \in UeId : s1mme_id[i] = d => s1mme_id'[i] = d
        BY <1>n, <2>1, <3>2, <4>2 DEF IdsBehind
      <4>5. Reachable(d)'
        BY <4>1, <4>2, <4>4 DEF Reachable
      <4> QED
        BY <4>3, <4>5
    <3> QED
      BY <3>1, <3>2
  <2>5. IdsBehind'
    BY <2>1 DEF IdsBehind
  <2> QED
    BY <1>t, <2>2, <2>3, <2>4, <2>5 DEF MmeInv
<1>4. CASE UNCHANGED mmeVars
  <2>1. OwnMessages' /\ TargetMessages'
    BY <1>4 DEF MmeInv, OwnMessages, OwnMessage, TargetMessages, mmeVars, mmeOwn, sctpVars
  <2> QED
    BY <1>4, <1>t, <2>1
    DEF mmeVars, mmeOwn, MmeInv, IdsBehind, TargetHandler, Keeps, Reachable
<1> QED
  BY <1>1, <1>2, <1>3, <1>4, MmeIdentifiers DEF MmeNext

LEMMA MmeInvariant == MmeSpec => []MmeInv
<1>1. SctpInit /\ GtpInit /\ MmeInit => MmeInv
  BY MmeInitInv
<1> QED
  BY <1>1, MmeNextInv, PTL DEF MmeSpec

(* What a handler writes after it waited goes to the subscriber it was     *)
(* called for, whatever the handlers of other connections do meanwhile     *)
(* (handle_initial_attach, handle_location_update, handle_create_session,  *)
(* handle_modify_bearer, handle_detach).                                   *)
THEOREM MmeHandlerKeepsSubscriber == MmeSpec => []HandlerKeepsSubscriber
<1>1. MmeInv => HandlerKeepsSubscriber
  BY DEF MmeInv, Keeps, HandlerKeepsSubscriber
<1> QED
  BY <1>1, MmeInvariant, PTL

(* A subscriber's context is never left behind where no message can name   *)
(* it (handle_autn, handle_detach).                                        *)
THEOREM MmeContextReachable == MmeSpec => []ContextReachable
<1>1. MmeInv => ContextReachable
  BY DEF MmeInv, Reachable, ContextReachable
<1> QED
  BY <1>1, MmeInvariant, PTL

(* No id is ever given out twice (handle_initial_attach, under             *)
(* s1mmeid_mux).                                                           *)
THEOREM MmeIdsGivenOnce == MmeSpec => IdsGivenOnce
<1> DEFINE A == \A i \in UeId :
                  /\ s1mme_id'[i] \in {0, s1mme_id[i]} \/ i > ue_count
                  /\ ue_count' < i => s1mme_id'[i] = 0
<1>1. MmeInv /\ [MmeNext]_mmeVars => [A]_mmeVars
  <2> SUFFICES ASSUME MmeInv, [MmeNext]_mmeVars, NEW i \in UeId
               PROVE  /\ s1mme_id'[i] \in {0, s1mme_id[i]} \/ i > ue_count
                      /\ ue_count' < i => s1mme_id'[i] = 0
    OBVIOUS
  <2>n. IdsBehind /\ ue_count \in Nat /\ UeId \subseteq Nat
    BY CountIds, MmeIdentifiers DEF MmeInv
  <2>1. CASE UNCHANGED <<ue_count, s1mme_id>>
    BY <2>1, <2>n DEF IdsBehind
  <2>2. ASSUME NEW c \in UEs, MmeStep(c)
        PROVE  /\ s1mme_id'[i] \in {0, s1mme_id[i]} \/ i > ue_count
               /\ ue_count' < i => s1mme_id'[i] = 0
    BY <2>2, <2>n, EntryChange
  <2>3. CASE MmeStep(0)
    BY <2>1, <2>3, TargetStep
  <2>4. CASE MmeEnv \/ UNCHANGED mmeVars
    BY <2>1, <2>4 DEF MmeEnv, mmeVars, mmeOwn
  <2> QED
    BY <2>2, <2>3, <2>4, MmeIdentifiers DEF MmeNext
<1> QED
  BY <1>1, MmeInvariant, PTL DEF MmeSpec, IdsGivenOnce
=============================================================================
