--------------------------- MODULE SessionProofs ---------------------------
(***************************************************************************)
(* The invariant of the session, from the location update of an attach to  *)
(* the last removal of a detach, and that every step of the five programs  *)
(* preserves it.  RegInv says what the HSS and the MME hold of a           *)
(* subscriber; SessInv, exchange by exchange, what the MME asks the        *)
(* serving gateway and that the packet gateway, and which entries the      *)
(* tables of both have meanwhile; HoInv numbers the stages of the          *)
(* handover.  Together with LockInv they are inductive (OrderlyInv).       *)
(***************************************************************************)
EXTENDS LockstepProofs
-----------------------------------------------------------------------------
(* Registration: the row of a subscriber in loc_info.                      *)

(* The location of n was updated in the attach n is in.                    *)
LocationKnown(n) ==
  \/ s6a[n].k = "loc_ok" \/ mme_w[n].pc \in {"create", "rem"}
  \/ (ran[n].pc = "eps" /\ down[n] # <<>>)
  \/ ran[n].pc \in {"attached", "bye", "ho", "end"}

(* An exchange with the HSS is the one its handler is waiting for.         *)
HssExchange(n) ==
  /\ s6a[n].k \in {"loc", "insert", "loc_ok"} => mme_w[n].pc = "loc" /\ s6a[n].x = n
  /\ s6a[n].k \in {"autn", "autn_ok"} => mme_w[n].pc = "autn"

Located(n) ==
  /\ loc_info[n] < 2 /\ (s6a[n].k = "insert" => loc_info[n] = 0)
  /\ hss_up /\ LocationKnown(n) => loc_info[n] = 1

Authenticating(n) ==
  \/ mme_w[n].pc = "autn" \/ (ran[n].pc = "auth" /\ down[n] # <<>>)
  \/ ran[n].pc \in {"sec", "eps"}

(* The MME has n down as registered from attach complete until the context *)
(* is removed; the context it asks the HSS about is n's.                   *)
Emm(n) ==
  /\ mme_ctx[n].emm = 1 =>
       \/ mme_w[n].pc = "rem" \/ ran[n].pc \in {"attached", "ho", "end"}
       \/ (ran[n].pc = "bye" /\ down[n] = <<>>)
  /\ Authenticating(n) => mme_ctx[n].imsi = n

Enrolled(n) == HssExchange(n) /\ Located(n) /\ Emm(n)

RegInv == s6a[0] = NoS6a /\ \A n \in UEs : Enrolled(n)

(* What n's registration depends on.                                       *)
LEMMA EnrolledStays ==
  ASSUME NEW n \in UEs, Enrolled(n),
         ran'[n].pc = ran[n].pc, down'[n] = down[n], mme_w'[n] = mme_w[n],
         mme_ctx'[n] = mme_ctx[n], s6a'[n] = s6a[n], loc_info'[n] = loc_info[n],
         hss_up' => hss_up
  PROVE  Enrolled(n)'
BY DEF Enrolled, HssExchange, Located, LocationKnown, Emm, Authenticating

LEMMA EnrolledTypes ==
  ASSUME EpcTypeInv
  PROVE  /\ ran \in [UEs -> RanCtx] /\ s6a \in [Conn -> S6a]
         /\ mme_w \in [Conn -> [pc : MmePc, id : UeId, guti : Imsi]]
         /\ mme_ctx \in [Imsi -> MmeCtx] /\ loc_info \in [Imsi -> 0 .. 2]
         /\ down \in [Conn -> Seq(Down)]
         /\ UEs \subseteq Conn /\ UEs \subseteq Imsi /\ 0 \notin UEs /\ Conn = UEs \cup {0}
         /\ \A n \in UEs : ran[n].pc \in RanPc
<1>1. ran \in [UEs -> RanCtx]
  BY DEF EpcTypeInv, EpcTypeOK, RanTypeOK
<1>2. \A n \in UEs : ran[n].pc \in RanPc
  BY <1>1 DEF RanCtx
<1>3. /\ mme_w \in [Conn -> [pc : MmePc, id : UeId, guti : Imsi]]
      /\ mme_ctx \in [Imsi -> MmeCtx] /\ loc_info \in [Imsi -> 0 .. 2]
  BY DEF EpcTypeInv, EpcTypeOK, MmeTypeOK, HssTypeOK
<1>4. s6a \in [Conn -> S6a] /\ down \in [Conn -> Seq(Down)]
  BY DEF EpcTypeInv, EpcTypeOK, SctpTypeOK
<1> QED
  BY <1>1, <1>2, <1>3, <1>4, MmeIdentifiers

LEMMA RanUeEnrolled ==
  ASSUME LockInv, NEW n \in UEs, RanUeStep(n), Enrolled(n),
         UNCHANGED <<mme_w, mme_ctx, loc_info, hss_up>>
  PROVE  Enrolled(n)' /\ UNCHANGED s6a
<1>t. EpcTypeInv /\ Turn(n) /\ n \in Conn /\ down \in [Conn -> Seq(Down)]
  BY EnrolledTypes DEF LockInv, EpcInv
<1>r. ran \in [UEs -> RanCtx] /\ ran[n].pc \in RanPc
  BY <1>t, EnrolledTypes
<1>s. UNCHANGED s6a
  BY DEF RanUeStep, RanInitialAttach, RanAuthenticate, RanSetSecurity, RanSetEpsSession,
         RanDetach, RanDetached
(* Where the thread waits for nothing there is nothing to read.            *)
<1>o. ran[n].pc \in {"off", "attached"} => down[n] = <<>>
  <2>1. down[n] # <<>> => down[n][1].t \in {1, 2, 3, 5}
    BY <1>t, Queues DEF Down
  <2> QED
    BY <1>t, <2>1 DEF Turn, Expected
<1>d. ASSUME Rcv(n)
      PROVE  down'[n] = <<>> /\ down[n] # <<>>
             /\ (mme_w[n].pc = "idle" \/ (mme_w[n].pc = "rem" /\ ran[n].pc = "bye"))
  BY <1>d, <1>t, RcvQueue DEF Turn
<1>1. CASE RanInitialAttach(n)
  <2>1. ran[n].pc = "off" /\ ran'[n].pc = "auth" /\ down'[n] = <<>> /\ down[n] = <<>>
    BY <1>1, <1>r, <1>o DEF RanInitialAttach, RanAt, RanCtx
  <2> QED
    BY <1>s, <2>1 DEF Enrolled, HssExchange, Located, LocationKnown, Emm, Authenticating
<1>2. CASE RanAuthenticate(n)
  <2>1. /\ ran[n].pc = "auth" /\ ran'[n].pc \in {"sec", "off"}
        /\ down'[n] = <<>> /\ down[n] # <<>> /\ mme_w[n].pc = "idle"
    BY <1>2, <1>r, <1>d DEF RanAuthenticate, RanAt, RanCtx
  <2> QED
    BY <1>s, <2>1 DEF Enrolled, HssExchange, Located, LocationKnown, Emm, Authenticating
<1>3. CASE RanSetSecurity(n)
  <2>1. /\ ran[n].pc = "sec" /\ ran'[n].pc = "eps"
        /\ down'[n] = <<>> /\ down[n] # <<>> /\ mme_w[n].pc = "idle"
    BY <1>3, <1>r, <1>d DEF RanSetSecurity, RanAt, RanCtx
  <2> QED
    BY <1>s, <2>1 DEF Enrolled, HssExchange, Located, LocationKnown, Emm, Authenticating
<1>4. CASE RanSetEpsSession(n)
  <2>1. /\ ran[n].pc = "eps" /\ ran'[n].pc = "attached"
        /\ down'[n] = <<>> /\ down[n] # <<>> /\ mme_w[n].pc = "idle"
    BY <1>4, <1>r, <1>d DEF RanSetEpsSession, RanAt, RanCtx
  <2> QED
    BY <1>s, <2>1 DEF Enrolled, HssExchange, Located, LocationKnown, Emm, Authenticating
<1>5. CASE RanDetach(n)
  <2>1. ran[n].pc = "attached" /\ ran'[n].pc = "bye" /\ down'[n] = <<>> /\ down[n] = <<>>
    BY <1>5, <1>r, <1>o DEF RanDetach, RanAt, RanCtx
  <2> QED
    BY <1>s, <2>1 DEF Enrolled, HssExchange, Located, LocationKnown, Emm, Authenticating
<1>6. CASE RanDetached(n)
  <2>1. ran[n].pc = "bye" /\ ran'[n].pc = "off" /\ down'[n] = <<>> /\ down[n] # <<>>
    BY <1>6, <1>r, <1>d DEF RanDetached, RanAt, RanCtx
  <2> QED
    BY <1>s, <2>1 DEF Enrolled, HssExchange, Located, LocationKnown, Emm, Authenticating
<1> QED
  BY <1>s, <1>1, <1>2, <1>3, <1>4, <1>5, <1>6 DEF RanUeStep

(* A handover takes a registered subscriber as it is.                      *)
LEMMA RanHoEnrolled ==
  ASSUME LockInv, RanHoStep, NEW n \in UEs, Enrolled(n),
         UNCHANGED <<mme_w, mme_ctx, loc_info, hss_up>>
  PROVE  Enrolled(n)' /\ UNCHANGED s6a
<1>r. ran \in [UEs -> RanCtx]
  BY EnrolledTypes DEF LockInv
<1>1. UNCHANGED <<s6a, down>>
  BY DEF RanHoStep, RanInitiateHandover, RanHandleHandover, RanConnect, RanAckHandover,
         RanIndirectTunnelComplete, RanCompleteHandover, RanRequestTearDown, sctpVars
<1>2. \/ ran'[n].pc = ran[n].pc
      \/ ran[n].pc \in {"attached", "ho"} /\ ran'[n].pc \in {"ho", "end"}
  <2>1. CASE RanInitiateHandover
    BY <1>r, <2>1 DEF RanInitiateHandover, RanAt, RanCtx
  <2>2. CASE RanCompleteHandover
    BY <1>r, <2>2 DEF RanCompleteHandover, RanAt, RanCtx
  <2>3. CASE RanRequestTearDown
    BY <1>r, <2>3 DEF RanRequestTearDown, RanCtx
  <2>4. CASE UNCHANGED ran
    BY <2>4
  <2> QED
    BY <2>1, <2>2, <2>3, <2>4 DEF RanHoStep, RanHandleHandover, RanConnect, RanAckHandover,
                                  RanIndirectTunnelComplete
<1> QED
  BY <1>1, <1>2 DEF Enrolled, HssExchange, Located, LocationKnown, Emm, Authenticating

(* The exchanges with the HSS of the other connections go on.              *)
LEMMA OtherExchanges ==
  ASSUME EpcTypeInv, NEW c \in Conn, MmeStep(c), NEW d \in Conn, d # c
  PROVE  s6a'[d] = s6a[d]
<1>1. s6a \in [Conn -> S6a]
  BY EnrolledTypes
<1>2. s6a' = s6a \/ \E x : s6a' = [s6a EXCEPT ![c] = x]
  BY DEF MmeStep, MmeInitialAttach, MmeAutnInfo, MmeAuthentication, MmeSecurityComplete,
         MmeLocationUpdate, MmeCreateSession, MmeAttachComplete, MmeModifyBearer,
         MmeDetach, MmeDetachAnswer, MmeDetachRemove, MmeHandover, MmeHoRequest,
         MmeHoAnswer, MmeIgnore, sctpVars
<1> QED
  BY <1>1, <1>2

(* A worker that asks nothing of the HSS and leaves the registration alone. *)
LEMMA WorkerEnrolled ==
  ASSUME NEW c \in UEs, Enrolled(c),
         UNCHANGED <<ran, loc_info, hss_up>>, s6a'[c] = s6a[c],
         mme_ctx'[c].emm = mme_ctx[c].emm, mme_ctx'[c].imsi = mme_ctx[c].imsi,
         mme_w[c].pc \notin {"autn", "loc", "create", "rem"},
         mme_w'[c].pc \notin {"autn", "loc", "create", "rem"},
         down'[c] = down[c]
  PROVE  Enrolled(c)'
BY DEF Enrolled, HssExchange, Located, LocationKnown, Emm, Authenticating

LEMMA MmeEnrolled ==
  ASSUME LockInv, NEW c \in UEs, MmeStep(c), Enrolled(c),
         UNCHANGED <<ran, loc_info, hss_up>>
  PROVE  Enrolled(c)'
<1> DEFINE w == mme_w[c]
           m == Head(up[c])
<1>t. /\ EpcTypeInv /\ Turn(c) /\ Knows(c) /\ c \in Conn /\ c # 0 /\ c \in Imsi
      /\ ran \in [UEs -> RanCtx] /\ s6a \in [Conn -> S6a] /\ ran[c].pc \in RanPc
      /\ mme_w \in [Conn -> [pc : MmePc, id : UeId, guti : Imsi]]
      /\ mme_ctx \in [Imsi -> MmeCtx] /\ mme_ctx[c] \in MmeCtx
      /\ down \in [Conn -> Seq(Down)]
  BY EnrolledTypes DEF LockInv, EpcInv
<1>g. w.pc # "idle" => w.guti = c
  BY <1>t DEF Knows
<1>p. ran[c].pc \in RanPc
  BY <1>t
(* Where the thread is, by what the worker received or does.               *)
<1>s. /\ \A t \in {1} : t \in Says[ran[c].pc] => ran[c].pc = "auth"
      /\ \A t \in {2} : t \in Says[ran[c].pc] => ran[c].pc = "sec"
      /\ \A t \in {3} : t \in Says[ran[c].pc] => ran[c].pc = "eps"
      /\ \A t \in {4} : t \in Says[ran[c].pc] => ran[c].pc \in {"attached", "bye", "ho", "end"}
  BY <1>p DEF Says, RanPc
<1>v. /\ w.pc = "autn" => ran[c].pc = "auth"
      /\ w.pc \in {"loc", "create"} => ran[c].pc = "eps"
      /\ w.pc = "detach" => ran[c].pc = "bye"
      /\ w.pc = "rem" => ran[c].pc \in {"off", "auth", "bye"}
      /\ w.pc \in Answering \cup {"modify"} => down[c] = <<>>
      /\ w.pc = "rem" /\ down[c] # <<>> => ran[c].pc = "bye"
  <2>1. /\ w.pc \in Serves[ran[c].pc] /\ (w.pc \in Answering => down[c] = <<>>)
        /\ down[c] # <<>> => w.pc = "idle" \/ (w.pc = "rem" /\ ran[c].pc = "bye")
    BY <1>t DEF Turn
  <2> QED
    BY <1>t, <2>1 DEF Serves, RanPc
<1>w. ASSUME NEW pc, NEW id, NEW guti, Wait(c, pc, id, guti) PROVE mme_w'[c].pc = pc
  BY <1>t, <1>w DEF Wait
<1>d. Done(c) => mme_w'[c].pc = "idle"
  BY <1>w DEF Done
<1>1. CASE MmeInitialAttach(c)
  <2>4. Receive(c, 1) /\ m.arg = c
    BY <1>1, TakeMessage DEF MmeInitialAttach, UpTrue
  <2>1. /\ ran[c].pc = "auth" /\ w.pc = "idle" /\ down[c] = <<>>
        /\ Wait(c, "autn", NextUeId, c) /\ mme_ctx' = [mme_ctx EXCEPT ![c].imsi = c]
        /\ s6a' = [s6a EXCEPT ![c] = [k |-> "autn", x |-> c]] /\ UNCHANGED down
    BY <1>1, <1>s, <2>4, TakeMessage DEF MmeInitialAttach
  <2>2. mme_ctx'[c].imsi = c /\ mme_ctx'[c].emm = mme_ctx[c].emm /\ s6a'[c].k = "autn"
    BY <1>t, <2>1 DEF MmeCtx
  <2>3. mme_w'[c].pc = "autn"
    BY <1>w, <2>1
  <2> QED
    BY <2>1, <2>2, <2>3
    DEF Enrolled, HssExchange, Located, LocationKnown, Emm, Authenticating
<1>2. CASE MmeAutnInfo(c)
  <2>1. /\ w.pc = "autn" /\ ran[c].pc = "auth" /\ down[c] = <<>>
        /\ s6a' = [s6a EXCEPT ![c] = NoS6a] /\ Done(c)
        /\ mme_ctx' = [mme_ctx EXCEPT ![c].xres = s6a[c].x]
    BY <1>2, <1>g, <1>v DEF MmeAutnInfo, HandlerAt, Answering
  <2>2. mme_ctx'[c].imsi = mme_ctx[c].imsi /\ mme_ctx'[c].emm = mme_ctx[c].emm
    BY <1>t, <2>1 DEF MmeCtx
  <2>3. s6a'[c].k = "none" /\ mme_w'[c].pc = "idle"
    BY <1>t, <1>d, <2>1 DEF NoS6a
  <2> QED
    BY <2>1, <2>2, <2>3
    DEF Enrolled, HssExchange, Located, LocationKnown, Emm, Authenticating
(* The result is the one expected, so the subscriber is not forgotten.     *)
<1>3. CASE MmeAuthentication(c)
  <2>1. /\ ran[c].pc = "sec" /\ w.pc = "idle" /\ get_guti(c) = c
        /\ m.arg = mme_ctx[c].xres
    BY <1>3, <1>s, TakeMessage DEF MmeAuthentication, UpTrue
  <2>2. UNCHANGED <<mme_ctx, s6a, mme_w>>
    BY <1>3, <2>1 DEF MmeAuthentication
  <2> QED
    BY <2>1, <2>2 DEF Enrolled, HssExchange, Located, LocationKnown, Emm, Authenticating
<1>4. CASE MmeSecurityComplete(c)
  <2>1. /\ ran[c].pc = "eps" /\ w.pc = "idle" /\ down[c] = <<>> /\ get_guti(c) = c
        /\ s6a' = [s6a EXCEPT ![c] = [k |-> "loc", x |-> mme_ctx[c].imsi]]
        /\ Wait(c, "loc", m.id, c) /\ UNCHANGED <<down, mme_ctx>>
    BY <1>4, <1>s, TakeMessage DEF MmeSecurityComplete
  <2>2. mme_ctx[c].imsi = c
    BY <2>1 DEF Enrolled, Emm, Authenticating
  <2>3. s6a'[c] = [k |-> "loc", x |-> c] /\ mme_w'[c].pc = "loc"
    BY <1>t, <1>w, <2>1, <2>2
  <2> QED
    BY <2>1, <2>2, <2>3
    DEF Enrolled, HssExchange, Located, LocationKnown, Emm, Authenticating
<1>5. CASE MmeLocationUpdate(c)
  <2>1. /\ w.pc = "loc" /\ w.guti = c /\ ran[c].pc = "eps" /\ s6a[c].k = "loc_ok"
        /\ s6a' = [s6a EXCEPT ![c] = NoS6a] /\ Wait(c, "create", w.id, c)
        /\ UNCHANGED <<down, mme_ctx>>
    BY <1>5, <1>g, <1>t, <1>v DEF MmeLocationUpdate, HandlerAt
  <2>2. s6a'[c].k = "none" /\ mme_w'[c].pc = "create"
    BY <1>t, <1>w, <2>1 DEF NoS6a
  <2> QED
    BY <2>1, <2>2 DEF Enrolled, HssExchange, Located, LocationKnown, Emm, Authenticating
<1>6. CASE MmeCreateSession(c)
  <2>1. PICK r \in Replies(c) :
          /\ w.pc = "create" /\ UNCHANGED s6a /\ Done(c)
          /\ mme_ctx' = [mme_ctx EXCEPT ![w.guti].teid = r.teid, ![w.guti].ul = r.teid]
    BY <1>6 DEF MmeCreateSession, HandlerAt
  <2>2. w.guti = c /\ ran[c].pc = "eps" /\ mme_w'[c].pc = "idle"
    BY <1>d, <1>g, <1>v, <2>1
  <2>3. mme_ctx'[c].imsi = mme_ctx[c].imsi /\ mme_ctx'[c].emm = mme_ctx[c].emm
    BY <1>t, <2>1, <2>2 DEF MmeCtx
  <2> QED
    BY <2>1, <2>2, <2>3
    DEF Enrolled, HssExchange, Located, LocationKnown, Emm, Authenticating
<1>7. CASE MmeAttachComplete(c)
  <2>1. /\ ran[c].pc \in {"attached", "bye", "ho", "end"} /\ w.pc = "idle"
        /\ down[c] = <<>> /\ UNCHANGED <<down, s6a>>
        /\ mme_ctx' = [mme_ctx EXCEPT ![c].dl = m.arg, ![c].emm = 1]
        /\ Wait(c, "modify", m.id, c)
    BY <1>7, <1>s, TakeMessage DEF MmeAttachComplete
  <2>2. mme_w'[c].pc = "modify" /\ mme_ctx'[c].imsi = mme_ctx[c].imsi
    BY <1>t, <1>w, <2>1 DEF MmeCtx
  <2> QED
    BY <2>1, <2>2 DEF Enrolled, HssExchange, Located, LocationKnown, Emm, Authenticating
<1>8. CASE MmeModifyBearer(c)
  <2>1. PICK r \in Replies(c) :
          /\ w.pc = "modify" /\ UNCHANGED <<down, s6a>> /\ Done(c)
          /\ mme_ctx' = IF r.ok THEN [mme_ctx EXCEPT ![w.guti].ecm = 1] ELSE mme_ctx
    BY <1>8 DEF MmeModifyBearer, HandlerAt, sctpVars
  <2>2. w.guti = c /\ mme_w'[c].pc = "idle"
    BY <1>d, <1>g, <2>1
  <2>3. mme_ctx'[c].imsi = mme_ctx[c].imsi /\ mme_ctx'[c].emm = mme_ctx[c].emm
    BY <1>t, <2>1, <2>2 DEF MmeCtx
  <2> QED
    BY <2>1, <2>2, <2>3, WorkerEnrolled
<1>9. CASE MmeDetach(c)
  <2>1. /\ w.pc = "idle" /\ UNCHANGED <<down, s6a, mme_ctx>>
        /\ Wait(c, "detach", m.id, m.arg) \/ UNCHANGED mme_w
    BY <1>9, TakeMessage DEF MmeDetach
  <2>2. mme_w'[c].pc \in {"idle", "detach"}
    BY <1>w, <2>1
  <2> QED
    BY <2>1, <2>2, WorkerEnrolled
<1>10. CASE MmeDetachAnswer(c)
  <2>1. /\ w.pc = "detach" /\ ran[c].pc = "bye" /\ UNCHANGED <<s6a, mme_ctx>>
        /\ Wait(c, "rem", w.id, w.guti) \/ (Done(c) /\ UNCHANGED down)
    BY <1>10, <1>v DEF MmeDetachAnswer, HandlerAt
  <2>2. mme_w'[c].pc = "rem" \/ (mme_w'[c].pc = "idle" /\ down' = down)
    BY <1>d, <1>w, <2>1
  <2> QED
    BY <2>1, <2>2 DEF Enrolled, HssExchange, Located, LocationKnown, Emm, Authenticating
<1>11. CASE MmeDetachRemove(c)
  <2>1. /\ w.pc = "rem" /\ w.guti = c /\ UNCHANGED <<s6a, down>> /\ Done(c)
        /\ mme_ctx' = [mme_ctx EXCEPT ![c] = NoMmeCtx]
    BY <1>11, <1>g DEF MmeDetachRemove, HandlerAt, Forget, sctpVars
  <2>2. mme_ctx'[c].emm = 0 /\ mme_w'[c].pc = "idle"
    BY <1>t, <1>d, <2>1 DEF NoMmeCtx
  <2>3. ran[c].pc \in {"off", "auth", "bye"} /\ (ran[c].pc = "auth" => down[c] = <<>>)
    BY <1>v, <2>1
  <2> QED
    BY <2>1, <2>2, <2>3
    DEF Enrolled, HssExchange, Located, LocationKnown, Emm, Authenticating
<1>12. CASE MmeHandover(c) \/ MmeIgnore(c)
  BY <1>12, WorkerEnrolled DEF MmeHandover, MmeIgnore, Receive, mmeOwn
<1>13. CASE MmeHoRequest(c)
  <2>1. PICK h \in HoOp : w.pc = "idle" /\ Wait(c, h[2], m.id, get_guti(c))
    BY <1>13 DEF MmeHoRequest, Receive
  <2>2. mme_w'[c].pc \in {"setup", "complete", "teardown"} /\ UNCHANGED <<down, s6a, mme_ctx>>
    BY <1>13, <1>w, <2>1 DEF HoOp, MmeHoRequest
  <2> QED
    BY <2>1, <2>2, WorkerEnrolled
<1>14. CASE MmeHoAnswer(c)
  <2>1. w.pc \in {"setup", "complete", "teardown"} /\ UNCHANGED <<down, s6a, mme_ctx>> /\ Done(c)
    BY <1>14 DEF MmeHoAnswer, HandlerAt, HoOp
  <2>2. mme_w'[c].pc = "idle"
    BY <1>d, <2>1
  <2> QED
    BY <2>1, <2>2, WorkerEnrolled
<1> QED
  BY <1>1, <1>2, <1>3, <1>4, <1>5, <1>6, <1>7, <1>8, <1>9, <1>10, <1>11, <1>12, <1>13, <1>14
  DEF MmeStep

LEMMA HssEnrolled ==
  ASSUME LockInv, RegInv, NEW c \in Conn, HssStep(c),
         UNCHANGED <<ran, mme_w, mme_ctx>>
  PROVE  RegInv'
<1>t. /\ EpcTypeInv /\ UEs \subseteq Conn /\ 0 \in Conn /\ 0 \notin UEs /\ UEs \subseteq Imsi
      /\ s6a \in [Conn -> S6a] /\ loc_info \in [Imsi -> 0 .. 2]
      /\ s6a[0] = NoS6a /\ \A n \in UEs : Turn(n) /\ Enrolled(n)
  BY EnrolledTypes, MmeIdentifiers DEF LockInv, EpcInv, RegInv
<1>d. UNCHANGED down
  BY DEF HssStep, HssAutnInfo, HssExit, HssDeleteLoc, HssInsertLoc
<1>1. CASE HssExit(c)
  <2>1. /\ hss_up' = FALSE /\ UNCHANGED loc_info
        /\ \A d \in Conn : s6a'[d] = Closed(s6a[d])
    BY <1>1, <1>t DEF HssExit
  <2>2. \A n \in UEs : s6a[n] \in S6a /\ s6a'[n] = Closed(s6a[n])
    BY <1>t, <2>1
  <2>3. ASSUME NEW n \in UEs PROVE Enrolled(n)'
    <3>1. /\ s6a'[n].k \in {"loc", "insert", "loc_ok"} =>
               s6a[n].k \in {"loc", "insert", "loc_ok"} /\ s6a'[n].x = s6a[n].x
          /\ s6a'[n].k \in {"autn", "autn_ok"} => s6a[n].k \in {"autn", "autn_ok"}
          /\ s6a'[n].k # "insert"
      <4>1. s6a[n].k \in {"none", "autn", "loc", "insert", "autn_ok", "loc_ok"}
        BY <2>2 DEF S6a
      <4>2. /\ s6a[n].k = "autn" => s6a'[n] = [k |-> "autn_ok", x |-> 0]
            /\ s6a[n].k \in {"loc", "insert"} => s6a'[n] = [k |-> "loc_ok", x |-> s6a[n].x]
            /\ s6a[n].k \notin {"autn", "loc", "insert"} => s6a'[n] = s6a[n]
        BY <2>2 DEF Closed
      <4> QED
        BY <4>1, <4>2
    <3> QED
      BY <1>d, <1>t, <2>1, <3>1
      DEF Enrolled, HssExchange, Located, Emm, Authenticating
  <2>4. s6a'[0] = NoS6a
    <3>1. s6a'[0] = Closed(NoS6a) /\ NoS6a.k = "none"
      BY <1>t, <2>1 DEF NoS6a
    <3> QED
      BY <3>1 DEF Closed
  <2> QED
    BY <2>3, <2>4 DEF RegInv
<1>2. CASE ~HssExit(c)
  <2>1. /\ s6a[c].k \in {"autn", "loc", "insert"} /\ UNCHANGED hss_up
        /\ \E x : s6a' = [s6a EXCEPT ![c] = x]
    BY <1>2 DEF HssStep, HssAutnInfo, HssDeleteLoc, HssInsertLoc, Asked, hssOwn
  <2>2. c \in UEs /\ s6a[c] \in S6a
    BY <1>t, <2>1, MmeIdentifiers DEF NoS6a
  <2>3. \A d \in Conn \ {c} : s6a'[d] = s6a[d]
    BY <1>t, <2>1
  <2>4. Enrolled(c) /\ Turn(c)
    BY <1>t, <2>2
  <2>5. Enrolled(c)' /\ \A n \in UEs \ {c} : loc_info'[n] = loc_info[n]
    <3>1. CASE HssAutnInfo(c)
      <4>1. s6a'[c].k = "autn_ok" /\ s6a[c].k = "autn" /\ UNCHANGED loc_info
        BY <1>t, <3>1 DEF HssAutnInfo, Asked, hssOwn
      <4> QED
        BY <1>d, <2>1, <2>4, <4>1
        DEF Enrolled, HssExchange, Located, LocationKnown, Emm, Authenticating
(* While the worker waits for the HSS, the subscriber is still attaching.  *)
    <3>2. ASSUME s6a[c].k \in {"loc", "insert"}
          PROVE  /\ mme_w[c].pc = "loc" /\ s6a[c].x = c /\ down[c] = <<>>
                 /\ ran[c].pc = "eps"
      <4>1. mme_w[c].pc = "loc" /\ s6a[c].x = c
        BY <2>4, <3>2 DEF Enrolled, HssExchange
      <4>2. mme_w[c].pc \in Serves[ran[c].pc] /\ down[c] = <<>> /\ ran[c].pc \in RanPc
        BY <1>t, <2>2, <2>4, <4>1, EnrolledTypes DEF Turn, Answering
      <4> QED
        BY <4>1, <4>2 DEF Serves, RanPc
    <3>3. CASE HssDeleteLoc(c)
      <4>1. s6a[c].k = "loc" /\ loc_info' = [loc_info EXCEPT ![s6a[c].x] = 0]
            /\ s6a' = [s6a EXCEPT ![c].k = "insert"]
        BY <3>3 DEF HssDeleteLoc, Asked
      <4>2. /\ mme_w[c].pc = "loc" /\ s6a[c].x = c /\ down[c] = <<>> /\ ran[c].pc = "eps"
        BY <3>2, <4>1
      <4>3. s6a'[c].k = "insert" /\ s6a'[c].x = c
        BY <1>t, <2>2, <4>1, <4>2 DEF S6a
      <4>4. loc_info'[c] = 0 /\ \A n \in UEs \ {c} : loc_info'[n] = loc_info[n]
        BY <1>t, <2>2, <4>1, <4>2
      <4> QED
        BY <1>d, <2>1, <2>4, <4>2, <4>3, <4>4
        DEF Enrolled, HssExchange, Located, LocationKnown, Emm, Authenticating
    <3>4. CASE HssInsertLoc(c)
      <4>1. s6a[c].k = "insert" /\ s6a' = [s6a EXCEPT ![c].k = "loc_ok"]
            /\ loc_info' = [loc_info EXCEPT ![s6a[c].x] = IF @ < 2 THEN @ + 1 ELSE 2]
        BY <3>4 DEF HssInsertLoc, Asked
      <4>2. /\ mme_w[c].pc = "loc" /\ s6a[c].x = c /\ loc_info[c] = 0
        BY <2>4, <3>2, <4>1 DEF Enrolled, Located
      <4>3. s6a'[c].k = "loc_ok" /\ s6a'[c].x = c
        BY <1>t, <2>2, <4>1, <4>2 DEF S6a
      <4>4. loc_info'[c] = 1 /\ \A n \in UEs \ {c} : loc_info'[n] = loc_info[n]
        BY <1>t, <2>2, <4>1, <4>2
      <4> QED
        BY <1>d, <2>1, <2>4, <4>2, <4>3, <4>4
        DEF Enrolled, HssExchange, Located, LocationKnown, Emm, Authenticating
    <3> QED
      BY <1>2, <3>1, <3>3, <3>4 DEF HssStep
  <2>6. ASSUME NEW n \in UEs, n # c PROVE Enrolled(n)'
    <3>1. s6a'[n] = s6a[n]
      BY <1>t, <2>3, <2>6
    <3> QED
      BY <1>d, <1>t, <2>1, <2>5, <2>6, <3>1, EnrolledStays
  <2>7. s6a'[0] = NoS6a
    BY <1>t, <2>2, <2>3
  <2> QED
    BY <2>5, <2>6, <2>7 DEF RegInv
<1> QED
  BY <1>1, <1>2

LEMMA RegInit == EpcInit => RegInv
<1> SUFFICES ASSUME EpcInit PROVE RegInv
  OBVIOUS
<1>1. /\ \A c \in Conn : s6a[c] = NoS6a /\ mme_w[c].pc = "idle" /\ down[c] = <<>>
      /\ \A n \in UEs : ran[n].pc = "off"
      /\ \A i \in Imsi : mme_ctx[i] = NoMmeCtx /\ loc_info[i] = 0
  BY DEF EpcInit, SctpInit, MmeInit, RanInit, HssInit
<1>2. ASSUME NEW n \in UEs PROVE Enrolled(n)
  <2>1. /\ s6a[n].k = "none" /\ mme_w[n].pc = "idle" /\ down[n] = <<>> /\ ran[n].pc = "off"
        /\ mme_ctx[n].emm = 0 /\ loc_info[n] = 0
    BY <1>1, MmeIdentifiers DEF NoS6a, NoMmeCtx
  <2> QED
    BY <2>1 DEF Enrolled, HssExchange, Located, LocationKnown, Emm, Authenticating
<1> QED
  BY <1>1, <1>2, MmeIdentifiers DEF RegInv

LEMMA RegNext == LockInv /\ RegInv /\ [EpcNext]_epcVars => RegInv'
<1> SUFFICES ASSUME LockInv, RegInv, [EpcNext]_epcVars PROVE RegInv'
  OBVIOUS
<1>t. /\ EpcTypeInv /\ MmeInv /\ MmeTypeInv /\ 0 \in Conn /\ Conn = UEs \cup {0} /\ 0 \notin UEs
      /\ s6a[0] = NoS6a /\ \A n \in UEs : Turn(n) /\ Enrolled(n)
  BY EnrolledTypes, MmeIdentifiers DEF LockInv, EpcInv, RegInv, MmeInv
<1>1. CASE RanNext
  <2>1. UNCHANGED <<mme_w, mme_ctx, loc_info, hss_up>>
    BY <1>1 DEF RanNext, mmeOwn, hssOwn
  <2>2. ASSUME NEW n \in UEs, RanUeStep(n) PROVE RegInv'
    <3>1. Enrolled(n)' /\ UNCHANGED s6a
      BY <1>t, <2>1, <2>2, RanUeEnrolled
    <3>2. ASSUME NEW m \in UEs, m # n PROVE Enrolled(m)'
      <4>1. ran'[m] = ran[m] /\ down'[m] = down[m]
        BY <1>t, <2>2, <3>2, RanOthers
      <4> QED
        BY <1>t, <2>1, <3>1, <4>1, EnrolledStays
    <3> QED
      BY <1>t, <3>1, <3>2 DEF RegInv
  <2>3. ASSUME RanHoStep PROVE RegInv'
    <3>1. \A n \in UEs : Enrolled(n)'
      BY <1>t, <2>1, <2>3, RanHoEnrolled
    <3>2. UNCHANGED s6a
      BY <2>3 DEF RanHoStep, RanInitiateHandover, RanHandleHandover, RanConnect,
                  RanAckHandover, RanIndirectTunnelComplete, RanCompleteHandover,
                  RanRequestTearDown, sctpVars
    <3> QED
      BY <1>t, <3>1, <3>2 DEF RegInv
  <2> QED
    BY <1>1, <2>2, <2>3 DEF RanNext
<1>2. ASSUME NEW c \in UEs, MmeProcess(c) PROVE RegInv'
  <2>1. MmeStep(c) /\ UNCHANGED <<ran, loc_info, hss_up>> /\ c \in Conn
    BY <1>2, <1>t DEF MmeProcess, ranOwn, hssOwn
  <2>2. Enrolled(c)'
    BY <1>t, <2>1, MmeEnrolled
  <2>3. ASSUME NEW n \in UEs, n # c PROVE Enrolled(n)'
    <3>1. n \in Conn /\ mme_w'[n] = mme_w[n] /\ mme_ctx'[n] = mme_ctx[n]
      BY <1>t, <2>1, <2>3, OtherHandlers, OtherContexts
    <3>2. down'[n] = down[n] /\ s6a'[n] = s6a[n]
      BY <1>t, <2>1, <2>3, <3>1, OtherQueues, OtherExchanges
    <3> QED
      BY <1>t, <2>1, <3>1, <3>2, EnrolledStays
  <2>4. s6a'[0] = NoS6a
    BY <1>t, <2>1, OtherExchanges
  <2> QED
    BY <2>2, <2>3, <2>4 DEF RegInv
<1>3. ASSUME MmeProcess(0) PROVE RegInv'
  <2>1. MmeStep(0) /\ UNCHANGED <<ran, loc_info, hss_up>>
    BY <1>3 DEF MmeProcess, ranOwn, hssOwn
  <2>2. UNCHANGED mme_ctx
    BY <1>t, <2>1, TargetStep
  <2>3. ASSUME NEW n \in UEs PROVE Enrolled(n)'
    <3>1. n \in Conn /\ n # 0
      BY <1>t
    <3>2. mme_w'[n] = mme_w[n] /\ down'[n] = down[n] /\ s6a'[n] = s6a[n]
      BY <1>t, <2>1, <3>1, OtherHandlers, OtherQueues, OtherExchanges
    <3> QED
      BY <1>t, <2>1, <2>2, <3>2, EnrolledStays
  <2>4. UNCHANGED s6a
    <3>1. mme_w[0].pc \in {"idle", "setup", "complete"}
      BY <1>t DEF MmeInv, TargetHandler
    <3>2. up[0] # <<>> => Head(up[0]).t \in {8, 9}
      BY <1>t, HeadOwn
    <3>3. ~MmeInitialAttach(0) /\ ~MmeSecurityComplete(0) /\ ~MmeAutnInfo(0)
          /\ ~MmeLocationUpdate(0)
      BY <3>1, <3>2 DEF MmeInitialAttach, MmeSecurityComplete, MmeAutnInfo,
                        MmeLocationUpdate, Receive, HandlerAt
    <3> QED
      BY <2>1, <3>3
      DEF MmeStep, MmeAuthentication, MmeCreateSession, MmeAttachComplete, MmeModifyBearer,
          MmeDetach, MmeDetachAnswer, MmeDetachRemove, MmeHandover, MmeHoRequest,
          MmeHoAnswer, MmeIgnore, sctpVars
  <2> QED
    BY <1>t, <2>3, <2>4 DEF RegInv
<1>4. ASSUME NEW c \in Conn, HssNext(c) PROVE RegInv'
  BY <1>4, HssEnrolled DEF HssNext, ranOwn, mmeOwn
<1>5. ASSUME UNCHANGED <<ran, down, s6a, mme_w, mme_ctx, loc_info, hss_up>> PROVE RegInv'
  BY <1>t, <1>5, EnrolledStays DEF RegInv
<1>6. ASSUME NEW t, SgwProcess(t) \/ PgwProcess(t) PROVE RegInv'
  BY <1>5, <1>6 DEF SgwProcess, PgwProcess, sctpVars, ranOwn, mmeOwn, hssOwn
<1>7. CASE UNCHANGED epcVars
  BY <1>5, <1>7 DEF epcVars, sctpVars, ranOwn, mmeOwn, hssOwn
<1> QED
  BY <1>1, <1>2, <1>3, <1>4, <1>6, <1>7, <1>t DEF EpcNext

LEMMA RegInvariant == EpcSpec => [](LockInv /\ RegInv)
<1>1. EpcInit => LockInv /\ RegInv
  BY LockInit, RegInit
<1>2. LockInv /\ RegInv /\ [EpcNext]_epcVars => (LockInv /\ RegInv)'
  BY LockNext, RegNext
<1> QED
  BY <1>1, <1>2, PTL DEF EpcSpec

(* However the deletions and insertions of concurrent attaches interleave, *)
(* a subscriber's location never has two rows, and the one the MME counts  *)
(* as registered has one (Hss::set_loc_info), timeouts of the gateways     *)
(* included.                                                               *)
THEOREM EpcRegistered == EpcSpec => []Registered
<1>1. LockInv /\ RegInv => Registered
  <2> SUFFICES ASSUME LockInv, RegInv, NEW n \in UEs
               PROVE  loc_info[n] < 2 /\ (hss_up /\ mme_ctx[n].emm = 1 => loc_info[n] = 1)
    BY DEF Registered
  <2>1. Located(n) /\ Emm(n)
    BY DEF RegInv, Enrolled
  <2> QED
    BY <2>1 DEF Located, Emm, LocationKnown
<1> QED
  BY <1>1, RegInvariant, PTL
-----------------------------------------------------------------------------
(* The session.  From here on the gateways answer in time and have one     *)
(* thread each, and the target eNodeB is connected in time: a second       *)
(* thread of the S11 server, an answer that is given up and a set-up that  *)
(* takes longer than the sleep of simulateHandover do break sessions (runs *)
(* EpcS11Race, EpcLostAnswer, EpcEarly), and a neighbour loses its uplink  *)
(* entry to the indirect tunnel (EpcNeighbours).                           *)
SgwT == CHOOSE t \in S11Threads : TRUE
PgwT == CHOOSE t \in S5Threads : TRUE

Orderly ==
  /\ S11Threads = {SgwT} /\ S5Threads = {PgwT}
  /\ MaxS11Timeouts = 0 /\ MaxS5Timeouts = 0 /\ SleepCovers
  /\ \A n \in UEs : n < MaxUeCount
  /\ \A n \in UEs \cap {HoUE} : n + 1 \notin UEs

th == sgw_th[SgwT]
pw == pgw_th[PgwT]

(* The stages of a detach after the gateway has answered.                  *)
Tail11 == {"rem_s11", "rem_s1", "rem_s5", "rem_ctx"}
Tail5 == {"rem_s5", "rem_sgi", "rem_ctx"}

On(n, S) == th.pc \in S /\ th.imsi = n
POn(n, S) == pw.pc \in S /\ pw.imsi = n
-----------------------------------------------------------------------------
(* S11.  What the handler on connection c asks the serving gateway, and    *)
(* what it is answered: one of the two is under way, or the gateway's      *)
(* thread is at work on it.                                                *)
Sock11(c) == <<c, 0>>

Asks(c) == mme_w[c].pc \in S11Op

Question(c) ==
  LET o == mme_w[c].pc
      g == mme_w[c].guti
  IN [op |-> o, sock |-> Sock11(c), teid |-> IF o = "create" THEN 0 ELSE g,
      imsi |-> IF o = "create" THEN g ELSE 0,
      arg |-> IF o \in {"create", "modify", "setup"} THEN g
              ELSE IF o = "teardown" THEN g + 1 ELSE 0]
Reply(c) ==
  LET o == mme_w[c].pc
      g == mme_w[c].guti
  IN [op |-> o, sock |-> Sock11(c), ok |-> TRUE,
      teid |-> IF o = "create" THEN g ELSE IF o = "setup" THEN g + 1 ELSE 0,
      ip |-> IF o = "create" THEN g ELSE 0]

Replied(c) == \E r \in s11r : r.sock = Sock11(c)

Working == th.pc \notin {"idle"} \cup Tail11
Served(c) == Working /\ th.req.sock = Sock11(c)

WorkOf(op) ==
  CASE op = "create" -> CreatePc [] op = "modify" -> {"modify"}
    [] op = "detach" -> {"detach", "wait_detach"} [] op = "setup" -> {"setup", "ho_add"}
    [] op = "complete" -> {"complete", "ho_erase"} [] op = "teardown" -> {"teardown"}

Line11(c) ==
  /\ Asks(c) => mme_w[c].guti \in UEs
  /\ \A d \in s11 : d.sock = Sock11(c) =>
       Asks(c) /\ d = Question(c) /\ ~Served(c) /\ ~Replied(c)
  /\ \A r \in s11r : r.sock = Sock11(c) => Asks(c) /\ r = Reply(c) /\ ~Served(c)
  /\ Served(c) =>
       /\ Asks(c) /\ th.req = Question(c) /\ th.pc \in WorkOf(mme_w[c].pc)
       /\ th.imsi = mme_w[c].guti
       /\ th.pc \in CreatePc \cup {"wait_detach", "ho_add"} => th.teid = mme_w[c].guti

Exchange11 ==
  /\ \A d \in s11 \cup s11r : \E c \in Conn : d.sock = Sock11(c)
  /\ Working => \E c \in Conn : Served(c)
  /\ th.pc \in Tail11 => th.imsi \in UEs /\ th.teid = th.imsi
  /\ \A c \in Conn : Line11(c)
-----------------------------------------------------------------------------
(* S5.                                                                     *)
Sock5 == <<SgwT, 0>>

Question5 == IF th.pc = "wait_create"
             THEN [op |-> "create", sock |-> Sock5, teid |-> th.imsi, imsi |-> th.imsi]
             ELSE [op |-> "detach", sock |-> Sock5, teid |-> th.imsi, imsi |-> 0]
Reply5 == LET n == IF th.pc = "wait_create" THEN th.imsi ELSE 0
          IN [sock |-> Sock5, ok |-> TRUE, teid |-> n, ip |-> n]

Asking5 == th.pc \in {"wait_create", "wait_detach"}

Exchange5 ==
  /\ \A q \in s5 : /\ q = Question5 /\ Asking5 /\ s5r = {}
                   /\ pw.pc \in {"idle"} \cup Tail5
  /\ \A r \in s5r : r = Reply5 /\ Asking5
  /\ s5r # {} /\ pw.pc # "idle" =>
       th.pc = "wait_detach" /\ pw.pc \in Tail5 /\ pw.imsi = th.imsi
  /\ pw.pc \in {"sgi", "ctx"} => th.pc = "wait_create"
  /\ pw.pc = "answer" => th.pc = "wait_detach"
  /\ pw.pc \in {"sgi", "ctx", "answer"} =>
       s5 = {} /\ s5r = {} /\ pw.req.sock = Sock5 /\ pw.imsi = th.imsi
  /\ pw.pc \in {"sgi", "ctx"} \cup Tail5 =>
       pw.imsi \in UEs /\ pw.teid = pw.imsi /\ pw.ip = pw.imsi
-----------------------------------------------------------------------------
(* The tables.  The session exists between the two answers of the serving  *)
(* gateway.                                                                *)
Present(n) ==
  \/ ran[n].pc \in {"attached", "ho", "end"}
  \/ ran[n].pc = "eps" /\ (down[n] # <<>> \/ Replied(n))
  \/ ran[n].pc = "bye" /\ down[n] = <<>> /\ ~(mme_w[n].pc = "detach" /\ Replied(n))

(* The entry of n in a table of the serving gateway.                       *)
Entry(itf, n) ==
  \/ Present(n) \/ On(n, {"init", "wait_create", "rem_s11"})
  \/ itf = "s11" /\ On(n, {"add_s1", "add_s5"})
  \/ itf = "s1" /\ On(n, {"add_s5", "rem_s1"})
  \/ itf = "s5" /\ On(n, {"rem_s1", "rem_s5"})

SgwRow(n) ==
  /\ \A itf \in Itf : sgw_id[itf][n] = IF Entry(itf, n) THEN n ELSE 0
  /\ sgw_ctx[n].in <=> Present(n) \/ On(n, {"wait_create"} \cup Tail11)
  /\ sgw_ctx[n].teid = IF sgw_ctx[n].in THEN n ELSE 0
  /\ sgw_ctx[n].s5 = IF Present(n) \/ On(n, Tail11) THEN n ELSE 0
  /\ ~sgw_ctx[n].in => sgw_ctx[n] = NoCtx
  /\ On(n, Tail11) => ~Present(n)

(* What is not a subscriber's own TEID leads nowhere, but for the indirect *)
(* tunnel.                                                                 *)
SgwExtra ==
  \A itf \in Itf, x \in Teid \ UEs :
    sgw_id[itf][x] # 0 => itf = "s1" /\ HoUE \in UEs /\ x = HoUE + 1 /\ sgw_id[itf][x] = HoUE

(* Before the modify bearer answer the eNodeB is not known.                *)
Unbound(n) ==
  \/ ran[n].pc = "eps" \/ \E k \in DOMAIN up[n] : up[n][k].t = 4
  \/ mme_w[n].pc = "modify" /\ ~Replied(n)

Bearer(n) == Present(n) /\ ~Unbound(n) => sgw_ctx[n].enb /\ sgw_ctx[n].dl = n

(* The packet gateway has a session a little earlier and loses it earlier. *)
Linked(n) == \/ Present(n) /\ ~(On(n, {"wait_detach"}) /\ s5r # {})
             \/ On(n, {"wait_create"}) /\ s5r # {}

PgwRow(n) ==
  /\ pgw_s5[n] = IF Linked(n) \/ POn(n, {"sgi", "ctx", "rem_s5"}) THEN n ELSE 0
  /\ pgw_sgi[n] = IF Linked(n) \/ POn(n, {"ctx", "rem_s5", "rem_sgi"}) THEN n ELSE 0
  /\ pgw_ctx[n] = IF Linked(n) \/ POn(n, Tail5)
                  THEN [in |-> TRUE, ip |-> n, teid |-> n] ELSE NoPgwCtx
  /\ POn(n, Tail5) => ~Linked(n)

PgwExtra == pgw_sgi[0] = 0 /\ \A x \in Teid \ UEs : pgw_s5[x] = 0
-----------------------------------------------------------------------------
(* The MME and the RAN know what the session was given.                    *)
MPresent(n) ==
  \/ mme_w[n].pc = "rem" \/ ran[n].pc \in {"attached", "ho", "end"}
  \/ ran[n].pc = "eps" /\ down[n] # <<>>
  \/ ran[n].pc = "bye" /\ down[n] = <<>>

(* Attach complete is the first message after the session.                 *)
Completes(n) == \E k \in DOMAIN up[n] : up[n][k].t = 4

Given(n) ==
  /\ \A k \in DOMAIN up[n] : up[n][k].t = 4 => up[n][k].arg = n /\ k = 1
  /\ down[n] # <<>> /\ down[n][1].t = 3 => down[n][1].arg = n /\ down[n][1].ip = n
  /\ ran[n].pc \in {"attached", "bye", "ho", "end"} => ran[n].dl = n /\ ran[n].ip = n
  /\ mme_w[n].pc = "modify" => ~Completes(n)
  /\ mme_w[n].pc = "rem" /\ ran[n].pc = "bye" => down[n] # <<>>
  /\ mme_ctx[n].teid = IF MPresent(n) THEN n ELSE 0
  /\ mme_ctx[n].ul = mme_ctx[n].teid
  /\ mme_ctx[n].emm = IF MPresent(n) /\ ran[n].pc # "eps" /\ ~Completes(n) THEN 1 ELSE 0
  /\ mme_ctx[n].ecm = IF mme_ctx[n].emm = 1 /\ mme_w[n].pc # "modify" THEN 1 ELSE 0

SessInv ==
  /\ Exchange11 /\ Exchange5 /\ SgwExtra /\ PgwExtra
  /\ \A n \in UEs : SgwRow(n) /\ PgwRow(n) /\ Bearer(n) /\ Given(n)
-----------------------------------------------------------------------------
(* The handover, stage by stage.                                           *)
HoId == ran[HoUE].id

HoToRan(s) ==
  /\ s = 2 => toRan = {[t |-> 7, id |-> HoId, arg |-> HoUE, enb |-> HoUE]}
  /\ s = 7 => toRan = {[t |-> 8, id |-> HoId, arg |-> HoUE + 1, enb |-> 0]}
  /\ s = 11 => toRan = {[t |-> 9, id |-> HoId, arg |-> 0, enb |-> 0]}
  /\ s \notin {2, 7, 11} => toRan = {}

HoUp(s) ==
  /\ s = 5 => up[0] = <<[t |-> 8, id |-> HoId, arg |-> HoUE]>>
  /\ s = 9 => up[0] = <<[t |-> 9, id |-> HoId, arg |-> 0]>>
  /\ s \notin {5, 9} => up[0] = <<>>
  /\ s = 1 => \E k \in DOMAIN up[HoUE] : up[HoUE][k].t = 7
  /\ \A k \in DOMAIN up[HoUE] :
       up[HoUE][k].t = 7 => s = 1 /\ k = Len(up[HoUE]) /\ k < 3 /\ up[HoUE][k].arg = HoUE
  /\ s = 12 => up[HoUE] = <<[t |-> 10, id |-> HoId, arg |-> HoUE + 1]>>
  /\ s > 1 /\ s # 12 => up[HoUE] = <<>>

HoWorker(s) ==
  /\ s = 6 => mme_w[0] = [pc |-> "setup", id |-> HoId, guti |-> HoUE]
  /\ s = 10 => mme_w[0] = [pc |-> "complete", id |-> HoId, guti |-> HoUE]
  /\ s \notin {6, 10} => mme_w[0].pc = "idle"
  /\ s > 1 => mme_w[HoUE].pc = IF s = 13 THEN "teardown" ELSE "idle"
  /\ s < 2 => mme_w[HoUE].pc # "teardown"

HoRan(s) ==
  /\ s = 0 <=> ran[HoUE].pc \notin {"ho", "end"}
  /\ s > 0 => ran[HoUE].pc = IF s < 9 THEN "ho" ELSE "end"
  /\ ran[HoUE].pc \in {"attached", "ho", "end"} => ran[HoUE].ul = IF s < 12 THEN HoUE ELSE 0
  /\ ranS.state = 4 <=> s > 7
  /\ s > 7 => ranS.indirect = HoUE + 1
  /\ ranT.pc = IF s = 3 THEN "connect" ELSE IF s = 4 THEN "send" ELSE "wait"
  /\ ranT.connected <=> s > 3
  /\ s > 2 => ranT.state # 0 /\ ranT.id = HoId /\ ranT.enb = HoUE

HoSgw(s) ==
  /\ sgw_ho[HoUE] = IF \/ s = 6 /\ (On(HoUE, {"ho_add"}) \/ Replied(0))
                       \/ s \in 7 .. 9
                       \/ s = 10 /\ ~Replied(0)
                    THEN [in |-> TRUE, dl |-> HoUE] ELSE NoHo
  /\ sgw_id["s1"][HoUE + 1] = IF \/ s = 6 /\ Replied(0)
                                 \/ s \in 7 .. 12
                                 \/ s = 13 /\ ~Replied(HoUE)
                              THEN HoUE ELSE 0

HoAt(s) == HoToRan(s) /\ HoUp(s) /\ HoWorker(s) /\ HoRan(s) /\ HoSgw(s)

NoHandover == toRan = {} /\ up[0] = <<>> /\ mme_w[0].pc = "idle" /\ ranT.pc = "wait"

HoInv ==
  /\ HoUE \in UEs => \E s \in 0 .. 14 : HoAt(s)
  /\ HoUE \notin UEs => NoHandover
  /\ \A n \in UEs \ {HoUE} :
       sgw_ho[n] = NoHo /\ ran[n].pc \notin {"ho", "end"} /\ mme_w[n].pc # "teardown"
-----------------------------------------------------------------------------
(* The exchange between the MME and the serving gateway.                   *)

LEMMA SockApart == \A c, d : Sock11(c) = Sock11(d) => c = d
BY DEF Sock11

(* A connection the step does not concern.                                 *)
LEMMA LineStays ==
  ASSUME NEW d \in Conn, Line11(d), mme_w'[d] = mme_w[d], UNCHANGED sgw_th,
         \A x \in s11' : x.sock = Sock11(d) => x \in s11,
         \A x \in s11r' : x.sock = Sock11(d) => x \in s11r
  PROVE  Line11(d)'
BY DEF Line11, Asks, Question, Reply, Replied, Served, Working, th

(* A step in which nobody asks and nobody is answered.                     *)
LEMMA NobodyAsks ==
  ASSUME Exchange11, UNCHANGED <<s11, s11r, sgw_th>>,
         \A d \in Conn : mme_w'[d] = mme_w[d] \/ (~Asks(d) /\ ~Asks(d)')
  PROVE  Exchange11' /\ \A d \in Conn : Replied(d)' <=> Replied(d)
<1>1. ASSUME NEW d \in Conn PROVE Line11(d)'
  <2>1. CASE mme_w'[d] = mme_w[d]
    BY <2>1, LineStays DEF Exchange11
  <2>2. CASE ~Asks(d) /\ ~Asks(d)'
    BY <2>2 DEF Exchange11, Line11, Served, Working, th
  <2> QED
    BY <2>1, <2>2
<1> QED
  BY <1>1 DEF Exchange11, Served, Working, th, Replied

(* Send and wait.                                                          *)
LEMMA SomebodyAsks ==
  ASSUME Exchange11, UNCHANGED <<s11r, sgw_th>>,
         NEW c \in Conn, ~Asks(c), Asks(c)', mme_w'[c].guti \in UEs,
         s11' = s11 \cup {Question(c)'},
         \A d \in Conn \ {c} : mme_w'[d] = mme_w[d]
  PROVE  Exchange11' /\ \A d \in Conn : Replied(d)' <=> Replied(d)
<1>1. /\ \A x \in s11 \cup s11r : x.sock # Sock11(c)
      /\ ~Served(c) /\ ~Replied(c)
  BY DEF Exchange11, Line11, Replied
<1>2. Question(c)'.sock = Sock11(c)
  BY DEF Question
<1>3. ASSUME NEW d \in Conn PROVE Line11(d)'
  <2>1. CASE d = c
    <3>1. /\ \A x \in s11' : x.sock = Sock11(c) => x = Question(c)'
          /\ \A x \in s11r' : x.sock # Sock11(c)
          /\ ~Served(c)' /\ ~Replied(c)'
      BY <1>1 DEF Served, Working, th, Replied
    <3> QED
      BY <2>1, <3>1 DEF Line11
  <2>2. CASE d # c
    <3>1. \A x \in s11' : x.sock = Sock11(d) => x \in s11
      BY <1>2, <2>2, SockApart
    <3> QED
      BY <2>2, <3>1, LineStays DEF Exchange11
  <2> QED
    BY <2>1, <2>2
<1>4. \A x \in s11' \cup s11r' : \E d \in Conn : x.sock = Sock11(d)
  BY <1>2 DEF Exchange11
<1> QED
  BY <1>3, <1>4 DEF Exchange11, Served, Working, th, Replied

(* The answer the MME reads is the one to its question.                    *)
LEMMA TakeReply ==
  ASSUME Orderly, EpcTypeInv, Exchange11, NEW c \in Conn, Asks(c),
         NEW r \in Replies(c), SgwReply(c, r)
  PROVE  /\ r = Reply(c) /\ r \in s11r /\ s11r' = s11r \ {r} /\ UNCHANGED s11port
         /\ Replied(c) /\ ~Replied(c)'
         /\ \A d \in Conn \ {c} : Replied(d)' <=> Replied(d)
<1>1. s11port[c] = 0
  <2>1. s11port \in [Conn -> 0 .. 0]
    BY DEF EpcTypeInv, EpcTypeOK, MmeTypeOK, Orderly
  <2> QED
    BY <2>1
<1>2. ~SgwTimeout(c, r)
  BY <1>1 DEF SgwTimeout, Orderly
<1>3. r \in s11r /\ r.sock = Sock11(c) /\ s11r' = s11r \ {r} /\ UNCHANGED s11port
  BY <1>1, <1>2 DEF SgwReply, SgwAnswers, Sock11
<1>4. \A x \in s11r : x.sock = Sock11(c) => x = Reply(c)
  BY DEF Exchange11, Line11
<1>5. Replied(c) /\ ~Replied(c)' /\ r = Reply(c)
  BY <1>3, <1>4 DEF Replied
<1>6. \A d \in Conn \ {c} : Replied(d)' <=> Replied(d)
  BY <1>3, SockApart DEF Replied
<1> QED
  BY <1>3, <1>5, <1>6

LEMMA SomebodyIsAnswered ==
  ASSUME Exchange11, UNCHANGED <<s11, sgw_th>>,
         NEW c \in Conn, Asks(c), ~Asks(c)',
         Reply(c) \in s11r, s11r' = s11r \ {Reply(c)},
         \A d \in Conn \ {c} : mme_w'[d] = mme_w[d]
  PROVE  Exchange11'
<1>1. Reply(c).sock = Sock11(c)
  BY DEF Reply
<1>2. /\ \A x \in s11 : x.sock # Sock11(c)
      /\ \A x \in s11r' : x.sock # Sock11(c)
      /\ ~Served(c)
  BY <1>1 DEF Exchange11, Line11, Replied
<1>3. ASSUME NEW d \in Conn PROVE Line11(d)'
  <2>1. CASE d = c
    BY <1>2, <2>1 DEF Line11, Served, Working, th
  <2>2. CASE d # c
    BY <2>2, LineStays DEF Exchange11
  <2> QED
    BY <2>1, <2>2
<1> QED
  BY <1>3 DEF Exchange11, Served, Working, th
-----------------------------------------------------------------------------
(* Signalling: the steps of the RAN and the MME.                           *)

(* They leave the tables of the gateways alone.                            *)
LEMMA TablesStay ==
  ASSUME UNCHANGED <<s5, s5r, sgw_th, pgw_th, sgw_id, sgw_ctx, pgw_s5, pgw_sgi, pgw_ctx>>,
         Exchange5, SgwExtra, PgwExtra
  PROVE  /\ Exchange5' /\ SgwExtra' /\ PgwExtra'
         /\ \A n \in UEs : /\ Present(n)' <=> Present(n)
                           /\ SgwRow(n) /\ PgwRow(n)
                           => SgwRow(n)' /\ PgwRow(n)'
<1>1. Exchange5'
  BY DEF Exchange5, Question5, Reply5, Asking5, th, pw
<1>2. SgwExtra' /\ PgwExtra'
  BY DEF SgwExtra, PgwExtra
<1>3. ASSUME NEW n \in UEs, Present(n)' <=> Present(n), SgwRow(n), PgwRow(n)
      PROVE  SgwRow(n)' /\ PgwRow(n)'
  <2>1. /\ \A S : On(n, S)' <=> On(n, S)
        /\ \A S : POn(n, S)' <=> POn(n, S)
    BY DEF On, POn, th, pw
  <2>2. \A itf : Entry(itf, n)' <=> Entry(itf, n)
    BY <1>3, <2>1 DEF Entry
  <2>3. Linked(n)' <=> Linked(n)
    BY <1>3, <2>1 DEF Linked
  <2>4. SgwRow(n)'
    BY <1>3, <2>1, <2>2 DEF SgwRow
  <2>5. PgwRow(n)'
    BY <1>3, <2>1, <2>3 DEF PgwRow
  <2> QED
    BY <2>4, <2>5
<1> QED
  BY <1>1, <1>2, <1>3

(* What the session of n depends on, apart from the tables.                *)
LEMMA SignalStays ==
  ASSUME NEW n \in UEs, Given(n), Bearer(n),
         ran'[n] = ran[n], up'[n] = up[n], down'[n] = down[n], mme_w'[n] = mme_w[n],
         mme_ctx'[n] = mme_ctx[n], sgw_ctx'[n] = sgw_ctx[n], Replied(n)' <=> Replied(n)
  PROVE  Given(n)' /\ Bearer(n)' /\ (Present(n)' <=> Present(n))
<1>1. Completes(n)' <=> Completes(n)
  BY DEF Completes
<1>2. Given(n)'
  BY <1>1 DEF Given, MPresent
<1>3. Present(n)' <=> Present(n)
  BY DEF Present
<1>4. Unbound(n)' <=> Unbound(n)
  BY DEF Unbound
<1> QED
  BY <1>2, <1>3, <1>4 DEF Bearer

LEMMA SessTypes ==
  ASSUME EpcTypeInv, NEW n \in UEs
  PROVE  /\ n \in Conn /\ n \in Imsi /\ n \in Teid /\ n \in Nat /\ n # 0
         /\ ran \in [UEs -> RanCtx] /\ ran[n] \in RanCtx /\ ran[n].pc \in RanPc
         /\ mme_w \in [Conn -> [pc : MmePc, id : UeId, guti : Imsi]]
         /\ mme_ctx \in [Imsi -> MmeCtx] /\ mme_ctx[n] \in MmeCtx
         /\ up[n] \in Seq(Up) /\ Len(up[n]) \in Nat /\ DOMAIN up[n] = 1 .. Len(up[n])
         /\ up \in [Conn -> Seq(Up)] /\ down \in [Conn -> Seq(Down)]
         /\ down[n] # <<>> => down[n][1].t \in {1, 2, 3, 5}
<1>1. n \in Conn /\ n \in Imsi /\ n \in Teid /\ n \in Nat /\ n # 0
  BY MmeIdentifiers
<1>2. /\ up[n] \in Seq(Up) /\ Len(up[n]) \in Nat /\ DOMAIN up[n] = 1 .. Len(up[n])
      /\ down[n] # <<>> => down[n][1] \in Down
  BY <1>1, Queues
<1>3. down[n] # <<>> => down[n][1].t \in {1, 2, 3, 5}
  BY <1>2 DEF Down
<1>4. up \in [Conn -> Seq(Up)] /\ down \in [Conn -> Seq(Down)]
  BY DEF EpcTypeInv, EpcTypeOK, SctpTypeOK
<1>5. /\ mme_w \in [Conn -> [pc : MmePc, id : UeId, guti : Imsi]]
      /\ mme_ctx \in [Imsi -> MmeCtx] /\ mme_ctx[n] \in MmeCtx
  BY <1>1 DEF EpcTypeInv, EpcTypeOK, MmeTypeOK
<1>6. ran \in [UEs -> RanCtx] /\ ran[n] \in RanCtx /\ ran[n].pc \in RanPc
  BY DEF EpcTypeInv, EpcTypeOK, RanTypeOK, RanCtx
<1> QED
  BY <1>1, <1>2, <1>3, <1>4, <1>5, <1>6

(* An attach complete stays where it is when the thread sends more.        *)
LEMMA SendCompletes ==
  ASSUME EpcTypeInv, NEW n \in UEs, NEW t, NEW id, NEW arg, Send(n, t, id, arg)
  PROVE  /\ Completes(n)' <=> Completes(n) \/ t = 4
         /\ \A k \in DOMAIN up'[n] : up'[n][k].t = 4 =>
              \/ k \in DOMAIN up[n] /\ up'[n][k] = up[n][k]
              \/ t = 4 /\ k = Len(up[n]) + 1 /\ up'[n][k].arg = arg
<1>1. n \in Conn /\ Len(up[n]) \in Nat /\ DOMAIN up[n] = 1 .. Len(up[n])
  BY SessTypes
<1>2. /\ DOMAIN up'[n] = 1 .. Len(up[n]) + 1
      /\ \A k \in 1 .. Len(up[n]) : up'[n][k] = up[n][k]
      /\ up'[n][Len(up[n]) + 1] = [t |-> t, id |-> id, arg |-> arg]
  BY <1>1, SendQueue
<1>3. \A k \in DOMAIN up'[n] : k \in DOMAIN up[n] \/ k = Len(up[n]) + 1
  BY <1>1, <1>2
<1>4. DOMAIN up[n] \subseteq DOMAIN up'[n] /\ Len(up[n]) + 1 \in DOMAIN up'[n]
  BY <1>1, <1>2
<1>5. \A k \in DOMAIN up[n] : up'[n][k] = up[n][k]
  BY <1>1, <1>2
<1>6. up'[n][Len(up[n]) + 1].t = t /\ up'[n][Len(up[n]) + 1].arg = arg
  BY <1>2
<1> QED
  BY <1>3, <1>4, <1>5, <1>6 DEF Completes

(* Who does not ask is not answered.                                       *)
LEMMA NoReply ==
  ASSUME Exchange11, NEW c \in Conn, ~Asks(c)
  PROVE  ~Replied(c)
BY DEF Exchange11, Line11, Replied

LEMMA RanUeSession ==
  ASSUME LockInv, Exchange11, NEW n \in UEs, Given(n), Bearer(n), RanUeStep(n),
         UNCHANGED <<mme_w, mme_ctx, s11r, sgw_ctx>>
  PROVE  Given(n)' /\ Bearer(n)' /\ (Present(n)' <=> Present(n))
<1>t. EpcTypeInv /\ Turn(n) /\ n \in Conn
  BY SessTypes DEF LockInv, EpcInv
<1>y. /\ ran \in [UEs -> RanCtx] /\ ran[n] \in RanCtx /\ ran[n].pc \in RanPc
      /\ Len(up[n]) \in Nat /\ DOMAIN up[n] = 1 .. Len(up[n])
      /\ down[n] # <<>> => down[n][1].t \in {1, 2, 3, 5}
  BY <1>t, SessTypes
<1>r. Replied(n)' <=> Replied(n)
  BY DEF Replied
(* Where the thread waits for nothing there is nothing to read.            *)
<1>o. ran[n].pc \in {"off", "attached"} => down[n] = <<>>
  BY <1>t, <1>y DEF Turn, Expected
<1>d. ASSUME Rcv(n)
      PROVE  /\ down'[n] = <<>> /\ down[n] # <<>> /\ Head(down[n]) = down[n][1]
             /\ up[n] = <<>> /\ ~Completes(n)
             /\ (mme_w[n].pc = "idle" \/ (mme_w[n].pc = "rem" /\ ran[n].pc = "bye"))
             /\ ~Replied(n)
  <2>1. /\ down'[n] = <<>> /\ down[n] # <<>> /\ Head(down[n]) = down[n][1] /\ up[n] = <<>>
        /\ (mme_w[n].pc = "idle" \/ (mme_w[n].pc = "rem" /\ ran[n].pc = "bye"))
    BY <1>d, <1>t, RcvQueue DEF Turn
  <2>2. ~Asks(n)
    BY <2>1 DEF Asks, S11Op
  <2>3. ~Completes(n)
    BY <2>1 DEF Completes
  <2> QED
    BY <1>t, <2>1, <2>2, <2>3, NoReply
<1>c. ASSUME ~Completes(n), \/ UNCHANGED up
                            \/ \E t \in {1, 2, 3, 5} : \E id, arg : Send(n, t, id, arg)
      PROVE  ~Completes(n)' /\ \A k \in DOMAIN up'[n] : up'[n][k].t # 4
  <2>1. ~Completes(n)'
    BY <1>c, <1>t, SendCompletes DEF Completes
  <2> QED
    BY <2>1 DEF Completes
<1>1. CASE RanInitialAttach(n)
  <2>1. /\ ran[n].pc = "off" /\ ran'[n].pc = "auth" /\ down'[n] = <<>> /\ down[n] = <<>>
        /\ Send(n, 1, 0, n)
    BY <1>1, <1>y, <1>o DEF RanInitialAttach, RanAt, RanCtx
  <2>2. ~Completes(n)
    BY <1>t, <2>1 DEF Turn, Says, Completes
  <2>3. ~Completes(n)' /\ \A k \in DOMAIN up'[n] : up'[n][k].t # 4
    BY <1>c, <2>1, <2>2
  <2> QED
    BY <1>r, <2>1, <2>2, <2>3 DEF Given, MPresent, Bearer, Present
<1>2. CASE RanAuthenticate(n)
  <2>1. /\ ran[n].pc = "auth" /\ ran'[n].pc \in {"sec", "off"} /\ Rcv(n)
        /\ UNCHANGED up \/ Send(n, 2, Head(down[n]).id, n)
    BY <1>2, <1>y DEF RanAuthenticate, RanAt, RanCtx
  <2>2. ~Completes(n)' /\ \A k \in DOMAIN up'[n] : up'[n][k].t # 4
    BY <1>c, <1>d, <2>1
  <2> QED
    BY <1>r, <1>d, <2>1, <2>2 DEF Given, MPresent, Bearer, Present
<1>3. CASE RanSetSecurity(n)
  <2>1. /\ ran[n].pc = "sec" /\ ran'[n].pc = "eps" /\ Rcv(n) /\ Send(n, 3, ran[n].id, 0)
    BY <1>3, <1>y DEF RanSetSecurity, RanAt, RanCtx
  <2>2. ~Completes(n)' /\ \A k \in DOMAIN up'[n] : up'[n][k].t # 4
    BY <1>c, <1>d, <2>1
  <2> QED
    BY <1>r, <1>d, <2>1, <2>2 DEF Given, MPresent, Bearer, Present
<1>4. CASE RanSetEpsSession(n)
  <2> DEFINE m == down[n][1]
  <2>1. /\ ran[n].pc = "eps" /\ Rcv(n) /\ Head(down[n]) = m
        /\ down'[n] = <<>> /\ down[n] # <<>> /\ up[n] = <<>> /\ ~Completes(n)
        /\ mme_w[n].pc = "idle" /\ ~Replied(n)
    BY <1>4, <1>d DEF RanSetEpsSession, RanAt
  <2>2. m.arg = n /\ m.ip = n
    BY <1>t, <2>1 DEF Given, Turn, Expected
  <2>3. /\ Send(n, 4, ran[n].id, n) /\ ran'[n].pc = "attached"
        /\ ran'[n].dl = n /\ ran'[n].ip = n
    BY <1>4, <1>y, <2>1, <2>2 DEF RanSetEpsSession, RanCtx
  <2>4. /\ Completes(n)'
        /\ \A k \in DOMAIN up'[n] : up'[n][k].t = 4 => up'[n][k].arg = n /\ k = 1
    <3>1. Len(up[n]) = 0
      BY <2>1
    <3>2. \A k \in DOMAIN up'[n] : up'[n][k].t = 4 =>
            \/ k \in DOMAIN up[n] /\ up'[n][k] = up[n][k]
            \/ k = Len(up[n]) + 1 /\ up'[n][k].arg = n
      BY <1>t, <2>3, SendCompletes
    <3>3. Completes(n)'
      BY <1>t, <2>3, SendCompletes
    <3> QED
      BY <1>y, <3>1, <3>2, <3>3
  <2>5. Given(n)'
    BY <2>1, <2>3, <2>4 DEF Given, MPresent
  <2>6. Unbound(n)'
    BY <2>4 DEF Unbound, Completes
  <2>7. Present(n)' /\ Present(n)
    BY <2>1, <2>3 DEF Present
  <2> QED
    BY <2>5, <2>6, <2>7 DEF Bearer
<1>5. CASE RanDetach(n)
  <2>1. /\ ran[n].pc = "attached" /\ ran'[n].pc = "bye" /\ down'[n] = <<>> /\ down[n] = <<>>
        /\ ran'[n].dl = ran[n].dl /\ ran'[n].ip = ran[n].ip
        /\ Send(n, 5, ran[n].id, ran[n].guti)
    BY <1>5, <1>y, <1>o DEF RanDetach, RanAt, RanCtx
  <2>2. /\ Completes(n)' <=> Completes(n)
        /\ \A k \in DOMAIN up'[n] : up'[n][k].t = 4 =>
             k \in DOMAIN up[n] /\ up'[n][k] = up[n][k]
    BY <1>t, <2>1, SendCompletes
  <2>3. mme_w[n].pc \in {"idle", "modify"}
    BY <1>t, <2>1 DEF Turn, Serves
  <2>4. Given(n)'
    BY <2>1, <2>2, <2>3 DEF Given, MPresent
  <2>5. Present(n)' /\ Present(n)
    BY <2>1, <2>3 DEF Present
  <2>6. Unbound(n) => Unbound(n)'
    BY <1>r, <2>1, <2>2 DEF Unbound, Completes
  <2> QED
    BY <2>4, <2>5, <2>6 DEF Bearer
<1>6. CASE RanDetached(n)
  <2>1. /\ ran[n].pc = "bye" /\ ran'[n].pc = "off" /\ Rcv(n) /\ UNCHANGED up
    BY <1>6, <1>y DEF RanDetached, RanAt, RanCtx
  <2>2. ~Completes(n)' /\ \A k \in DOMAIN up'[n] : up'[n][k].t # 4
    BY <1>c, <1>d, <2>1
  <2> QED
    BY <1>r, <1>d, <2>1, <2>2 DEF Given, MPresent, Bearer, Present
<1> QED
  BY <1>1, <1>2, <1>3, <1>4, <1>5, <1>6 DEF RanUeStep

LEMMA RanHoSession ==
  ASSUME LockInv, RanHoStep, NEW n \in UEs, Given(n), Bearer(n),
         UNCHANGED <<mme_w, mme_ctx, s11r, sgw_ctx>>
  PROVE  Given(n)' /\ Bearer(n)' /\ (Present(n)' <=> Present(n))
<1>t. EpcTypeInv /\ Turn(n) /\ n \in Conn /\ 0 \in Conn /\ n # 0
  BY SessTypes, MmeIdentifiers DEF LockInv, EpcInv
<1>y. /\ ran \in [UEs -> RanCtx] /\ ran[n] \in RanCtx /\ ran[n].pc \in RanPc
      /\ down[n] # <<>> => down[n][1].t \in {1, 2, 3, 5}
  BY <1>t, SessTypes
<1>r. Replied(n)' <=> Replied(n)
  BY DEF Replied
<1>d. UNCHANGED down
  BY DEF RanHoStep, RanInitiateHandover, RanHandleHandover, RanConnect, RanAckHandover,
         RanIndirectTunnelComplete, RanCompleteHandover, RanRequestTearDown, sctpVars
<1>1. /\ ran'[n].dl = ran[n].dl /\ ran'[n].ip = ran[n].ip
      /\ \/ ran'[n].pc = ran[n].pc
         \/ /\ ran[n].pc \in {"attached", "ho"} /\ ran'[n].pc \in {"ho", "end"}
  <2>1. CASE RanInitiateHandover
    BY <1>y, <2>1 DEF RanInitiateHandover, RanAt, RanCtx
  <2>2. CASE RanCompleteHandover
    BY <1>y, <2>2 DEF RanCompleteHandover, RanAt, RanCtx
  <2>3. CASE RanRequestTearDown
    BY <1>y, <2>3 DEF RanRequestTearDown, RanCtx
  <2>4. CASE UNCHANGED ran
    BY <2>4
  <2> QED
    BY <2>1, <2>2, <2>3, <2>4 DEF RanHoStep, RanHandleHandover, RanConnect, RanAckHandover,
                                  RanIndirectTunnelComplete
<1>2. up'[n] = up[n] \/ \E t \in {7, 10} : \E id, arg : Send(n, t, id, arg)
  <2>1. \/ UNCHANGED up \/ (\E t, id, arg : Send(0, t, id, arg))
        \/ \E m \in UEs : \E t \in {7, 10} : \E id, arg : Send(m, t, id, arg)
    BY DEF RanHoStep, RanInitiateHandover, RanHandleHandover, RanConnect, RanAckHandover,
           RanIndirectTunnelComplete, RanCompleteHandover, RanRequestTearDown, sctpVars
  <2>2. ASSUME NEW t, NEW id, NEW arg, Send(0, t, id, arg) PROVE up'[n] = up[n]
    BY <1>t, <2>2, SendQueue
  <2>3. ASSUME NEW m \in UEs, m # n, NEW t, NEW id, NEW arg, Send(m, t, id, arg)
        PROVE  up'[n] = up[n]
    <3>1. m \in Conn
      BY <1>t, SessTypes
    <3> QED
      BY <1>t, <2>3, <3>1, SendQueue
  <2> QED
    BY <2>1, <2>2, <2>3
<1>3. /\ Completes(n)' <=> Completes(n)
      /\ \A k \in DOMAIN up'[n] : up'[n][k].t = 4 =>
           k \in DOMAIN up[n] /\ up'[n][k] = up[n][k]
  <2>1. CASE up'[n] = up[n]
    BY <2>1 DEF Completes
  <2>2. ASSUME NEW t \in {7, 10}, NEW id, NEW arg, Send(n, t, id, arg)
        PROVE  /\ Completes(n)' <=> Completes(n)
               /\ \A k \in DOMAIN up'[n] : up'[n][k].t = 4 =>
                    k \in DOMAIN up[n] /\ up'[n][k] = up[n][k]
    BY <1>t, <2>2, SendCompletes
  <2> QED
    BY <1>2, <2>1, <2>2
<1>4. Given(n)'
  BY <1>d, <1>1, <1>3 DEF Given, MPresent
<1>5. Present(n)' <=> Present(n)
  BY <1>d, <1>r, <1>1 DEF Present
<1>6. Unbound(n) => Unbound(n)'
  BY <1>r, <1>1, <1>3 DEF Unbound, Completes
<1> QED
  BY <1>4, <1>5, <1>6 DEF Bearer
-----------------------------------------------------------------------------
(* Taking a message off the queue.                                         *)
LEMMA TakeCompletes ==
  ASSUME LockInv, NEW c \in UEs, NEW t, Receive(c, t),
         \A k \in DOMAIN up[c] : up[c][k].t = 4 => k = 1
  PROVE  /\ ~Completes(c)' /\ \A k \in DOMAIN up'[c] : up'[c][k].t # 4
         /\ t # 4 => ~Completes(c)
         /\ t = 4 => 1 \in DOMAIN up[c] /\ up[c][1].t = 4 /\ Head(up[c]) = up[c][1]
<1>t. EpcTypeInv /\ c \in Conn /\ Len(up[c]) \in Nat /\ DOMAIN up[c] = 1 .. Len(up[c])
  BY SessTypes DEF LockInv
<1>1. /\ 1 \in DOMAIN up[c] /\ Head(up[c]) = up[c][1]
      /\ DOMAIN up'[c] = 1 .. Len(up[c]) - 1
      /\ \A k \in 1 .. Len(up[c]) - 1 : up'[c][k] = up[c][k + 1]
  BY <1>t, ReceiveQueue DEF Receive
<1>2. \A k \in DOMAIN up'[c] : up'[c][k].t # 4
  BY <1>t, <1>1
<1>3. up[c][1].t = t
  BY <1>1 DEF Receive
<1>4. t # 4 => ~Completes(c)
  BY <1>3 DEF Completes
<1> QED
  BY <1>1, <1>2, <1>3, <1>4 DEF Completes

(* A worker's step that neither asks the gateway nor is answered by it.    *)
LEMMA WorkerSilent ==
  ASSUME EpcTypeInv, Exchange11, NEW c \in Conn, MmeStep(c), MmeTypeInv,
         ~Asks(c), ~Asks(c)', UNCHANGED <<s11, s11r, sgw_th>>
  PROVE  Exchange11' /\ \A d \in Conn : Replied(d)' <=> Replied(d)
<1>1. \A d \in Conn : mme_w'[d] = mme_w[d] \/ (~Asks(d) /\ ~Asks(d)')
  BY OtherHandlers
<1> QED
  BY <1>1, NobodyAsks

(* The question follows from what the session was given.                   *)
LEMMA WorkerAsks ==
  ASSUME EpcTypeInv, MmeTypeInv, Exchange11, NEW c \in Conn, MmeStep(c), ~Asks(c),
         NEW op \in S11Op, NEW teid, NEW imsi, NEW arg, AskSgw(c, op, teid, imsi, arg),
         NEW id, NEW n \in UEs, Wait(c, op, id, n), Orderly,
         teid = IF op = "create" THEN 0 ELSE n, imsi = IF op = "create" THEN n ELSE 0,
         op \in {"create", "modify", "setup"} => arg = n,
         op = "teardown" => arg = n + 1, op \in {"detach", "complete"} => arg = 0,
         UNCHANGED <<s11r, sgw_th>>
  PROVE  /\ Exchange11' /\ Asks(c)' /\ mme_w'[c].pc = op
         /\ \A d \in Conn : Replied(d)' <=> Replied(d)
<1>1. mme_w'[c] = [pc |-> op, id |-> id, guti |-> n]
  BY DEF Wait, EpcTypeInv, EpcTypeOK, MmeTypeOK
<1>2. s11port[c] = 0
  <2>1. s11port \in [Conn -> 0 .. 0]
    BY DEF EpcTypeInv, EpcTypeOK, MmeTypeOK, Orderly
  <2> QED
    BY <2>1
<1>3. s11' = s11 \cup {Question(c)'}
  <2>1. Question(c)' = [op |-> op, sock |-> <<c, 0>>, teid |-> teid, imsi |-> imsi,
                        arg |-> arg]
    BY <1>1 DEF Question, Sock11, S11Op
  <2> QED
    BY <1>2, <2>1 DEF AskSgw
<1>4. Asks(c)' /\ mme_w'[c].guti \in UEs
  BY <1>1 DEF Asks
<1>5. \A d \in Conn \ {c} : mme_w'[d] = mme_w[d]
  BY OtherHandlers
<1> QED
  BY <1>1, <1>3, <1>4, <1>5, SomebodyAsks

LEMMA WorkerAnswered ==
  ASSUME EpcTypeInv, MmeTypeInv, Orderly, Exchange11, NEW c \in Conn, MmeStep(c),
         Asks(c), ~Asks(c)', NEW r \in Replies(c), SgwReply(c, r),
         UNCHANGED <<s11, sgw_th>>
  PROVE  /\ Exchange11' /\ r = Reply(c) /\ Replied(c) /\ ~Replied(c)'
         /\ \A d \in Conn \ {c} : Replied(d)' <=> Replied(d)
<1>1. /\ r = Reply(c) /\ r \in s11r /\ s11r' = s11r \ {r}
      /\ Replied(c) /\ ~Replied(c)'
      /\ \A d \in Conn \ {c} : Replied(d)' <=> Replied(d)
  BY TakeReply
<1>2. \A d \in Conn \ {c} : mme_w'[d] = mme_w[d]
  BY OtherHandlers
<1> QED
  BY <1>1, <1>2, SomebodyIsAnswered
-----------------------------------------------------------------------------
LEMMA MmeUeSession ==
  ASSUME Orderly, LockInv, RegInv, Exchange11, NEW c \in UEs, Given(c), Bearer(c),
         HoUE \in UEs => \A k \in DOMAIN up[HoUE] : up[HoUE][k].t = 10 =>
                           up[HoUE][k].arg = HoUE + 1,
         c # HoUE => ran[c].pc \notin {"ho", "end"},
         MmeStep(c), UNCHANGED <<ran, sgw_th, sgw_ctx>>
  PROVE  /\ Exchange11' /\ Given(c)' /\ Bearer(c)' /\ (Present(c)' <=> Present(c))
         /\ \A d \in Conn \ {c} : Replied(d)' <=> Replied(d)
<1> DEFINE w == mme_w[c]
           m == Head(up[c])
<1>t. /\ EpcTypeInv /\ Turn(c) /\ Knows(c) /\ c \in Conn /\ c # 0 /\ c \in Imsi /\ c \in Nat
      /\ MmeTypeInv /\ s1mme_id[0] = 0 /\ mme_up
  BY SessTypes DEF LockInv, EpcInv, MmeInv
<1>y. /\ mme_w \in [Conn -> [pc : MmePc, id : UeId, guti : Imsi]]
      /\ mme_ctx \in [Imsi -> MmeCtx] /\ mme_ctx[c] \in MmeCtx /\ ran[c].pc \in RanPc
      /\ Len(up[c]) \in Nat /\ DOMAIN up[c] = 1 .. Len(up[c])
      /\ down[c] # <<>> => down[c][1].t \in {1, 2, 3, 5}
  BY <1>t, SessTypes
<1>g. w.pc # "idle" => w.guti = c
  BY <1>t DEF Knows
<1>p. ran[c].pc \in RanPc
  BY <1>y
<1>q. \A k \in DOMAIN up[c] : up[c][k].t = 4 => k = 1 /\ up[c][k].arg = c
  BY DEF Given
(* Where the thread is, by what the worker received or does.               *)
<1>s. /\ \A t \in {1} : t \in Says[ran[c].pc] => ran[c].pc = "auth"
      /\ \A t \in {2} : t \in Says[ran[c].pc] => ran[c].pc = "sec"
      /\ \A t \in {3} : t \in Says[ran[c].pc] => ran[c].pc = "eps"
      /\ \A t \in {4} : t \in Says[ran[c].pc] => ran[c].pc \in {"attached", "bye", "ho", "end"}
      /\ \A t \in {5} : t \in Says[ran[c].pc] => ran[c].pc = "bye"
      /\ \A t \in {7} : t \in Says[ran[c].pc] => ran[c].pc \in {"ho", "end"}
      /\ \A t \in {8, 9} : t \notin Says[ran[c].pc]
      /\ \A t \in {10} : t \in Says[ran[c].pc] => ran[c].pc = "end"
  BY <1>p DEF Says, RanPc
<1>v. /\ w.pc = "autn" => ran[c].pc = "auth"
      /\ w.pc \in {"loc", "create"} => ran[c].pc = "eps"
      /\ w.pc = "modify" => ran[c].pc \in {"attached", "bye", "ho", "end"}
      /\ w.pc = "detach" => ran[c].pc = "bye"
      /\ w.pc = "teardown" => ran[c].pc \in {"ho", "end"}
      /\ w.pc = "rem" => ran[c].pc \in {"off", "auth", "bye"}
      /\ w.pc \notin {"setup", "complete"}
      /\ w.pc \in Answering \cup {"modify", "teardown"} => down[c] = <<>>
      /\ w.pc \in Answering => ~Completes(c) /\ \A k \in DOMAIN up[c] : up[c][k].t # 4
      /\ w.pc = "rem" /\ down[c] # <<>> => ran[c].pc = "bye"
  <2>1. /\ w.pc \in Serves[ran[c].pc] /\ (w.pc \in Answering => up[c] = <<>> /\ down[c] = <<>>)
        /\ down[c] # <<>> => w.pc = "idle" \/ (w.pc = "rem" /\ ran[c].pc = "bye")
    BY <1>t DEF Turn
  <2>2. up[c] = <<>> => ~Completes(c) /\ \A k \in DOMAIN up[c] : up[c][k].t # 4
    BY DEF Completes
  <2> QED
    BY <1>p, <2>1, <2>2 DEF Serves, RanPc
<1>w. ASSUME NEW pc, NEW id, NEW guti, Wait(c, pc, id, guti) PROVE mme_w'[c].pc = pc
  BY <1>y, <1>t, <1>w DEF Wait
<1>d. Done(c) => mme_w'[c].pc = "idle"
  BY <1>w DEF Done
<1>k. ASSUME NEW t, Receive(c, t)
      PROVE  /\ w.pc = "idle" /\ ~Asks(c) /\ ~Replied(c) /\ down[c] = <<>>
             /\ ~Completes(c)' /\ (\A k \in DOMAIN up'[c] : up'[c][k].t # 4)
             /\ t # 4 => ~Completes(c)
             /\ t # 1 => get_guti(c) = c
  <2>1. w.pc = "idle" /\ down[c] = <<>> /\ (t # 1 => get_guti(c) = c)
    BY <1>k, TakeMessage
  <2>2. ~Asks(c)
    BY <2>1 DEF Asks, S11Op
  <2>3. ~Replied(c)
    BY <1>t, <2>2, NoReply
  <2> QED
    BY <1>k, <1>q, <2>1, <2>2, <2>3, TakeCompletes
(* Signalling that does not touch the session.                             *)
<1>u. ASSUME s11' = s11, s11r' = s11r, w.pc \notin S11Op, mme_w'[c].pc \notin S11Op
      PROVE  /\ Exchange11' /\ \A d \in Conn : Replied(d)' <=> Replied(d)
             /\ ~Replied(c)
  <2>1. ~Asks(c) /\ ~Asks(c)'
    BY <1>u DEF Asks
  <2> QED
    BY <1>u, <1>t, <2>1, WorkerSilent, NoReply
<1>1. CASE MmeInitialAttach(c)
  <2>4. Receive(c, 1) /\ m.arg = c
    BY <1>1, TakeMessage DEF MmeInitialAttach, UpTrue
  <2>1. /\ ran[c].pc = "auth" /\ UNCHANGED <<down, s11, s11r>>
        /\ Wait(c, "autn", NextUeId, c) /\ mme_ctx' = [mme_ctx EXCEPT ![c].imsi = c]
    BY <1>1, <1>s, <2>4, TakeMessage DEF MmeInitialAttach, gtpVars
  <2>2. /\ mme_ctx'[c].teid = mme_ctx[c].teid /\ mme_ctx'[c].ul = mme_ctx[c].ul
        /\ mme_ctx'[c].emm = mme_ctx[c].emm /\ mme_ctx'[c].ecm = mme_ctx[c].ecm
    BY <1>y, <1>t, <2>1 DEF MmeCtx
  <2>3. mme_w'[c].pc = "autn"
    BY <1>w, <2>1
  <2>5. w.pc = "idle" /\ down[c] = <<>> /\ ~Completes(c)' /\ ~Completes(c)
        /\ \A k \in DOMAIN up'[c] : up'[c][k].t # 4
    BY <1>k, <2>4
  <2>6. Given(c)'
    BY <2>1, <2>2, <2>3, <2>5 DEF Given, MPresent
  <2>7. ~Present(c) /\ ~Present(c)'
    BY <2>1 DEF Present
  <2>8. Exchange11' /\ \A d \in Conn : Replied(d)' <=> Replied(d)
    BY <1>u, <2>1, <2>3, <2>5 DEF S11Op
  <2> QED
    BY <2>6, <2>7, <2>8 DEF Bearer
<1>2. CASE MmeAutnInfo(c)
  <2>1. /\ w.pc = "autn" /\ UNCHANGED <<up, s11, s11r>> /\ Done(c)
        /\ mme_ctx' = [mme_ctx EXCEPT ![c].xres = s6a[c].x]
        /\ ToUe(c, 1, w.id, s6a[c].x, 0, 0)
    BY <1>2, <1>g DEF MmeAutnInfo, HandlerAt, gtpVars
  <2>2. /\ mme_ctx'[c].teid = mme_ctx[c].teid /\ mme_ctx'[c].ul = mme_ctx[c].ul
        /\ mme_ctx'[c].emm = mme_ctx[c].emm /\ mme_ctx'[c].ecm = mme_ctx[c].ecm
    BY <1>y, <1>t, <2>1 DEF MmeCtx
  <2>3. mme_w'[c].pc = "idle"
    BY <1>d, <2>1
  <2>5. ran[c].pc = "auth" /\ down[c] = <<>>
    BY <1>v, <2>1 DEF Answering
  <2>10. down'[c] # <<>> /\ down'[c][1].t = 1
    <3>1. /\ Len(down'[c]) = 1
          /\ down'[c][1] = [t |-> 1, id |-> w.id, arg |-> s6a[c].x, guti |-> 0, ip |-> 0]
      BY <1>t, <2>1, <2>5, ToUeQueue
    <3> QED
      BY <3>1
  <2>6. Completes(c)' <=> Completes(c)
    BY <2>1 DEF Completes
  <2>9. Given(c)'
    BY <2>1, <2>2, <2>3, <2>5, <2>6, <2>10 DEF Given, MPresent
  <2>7. ~Present(c) /\ ~Present(c)'
    BY <2>1, <2>5 DEF Present
  <2>8. Exchange11' /\ \A d \in Conn : Replied(d)' <=> Replied(d)
    BY <1>u, <2>1, <2>3 DEF S11Op
  <2> QED
    BY <2>7, <2>8, <2>9 DEF Bearer
<1>3. CASE MmeAuthentication(c)
  <2>1. /\ Receive(c, 2) /\ ran[c].pc = "sec" /\ get_guti(c) = c /\ m.arg = mme_ctx[c].xres
    BY <1>3, <1>s, TakeMessage DEF MmeAuthentication, UpTrue
  <2>2. UNCHANGED <<mme_ctx, mme_w, s11, s11r>> /\ ToUe(c, 2, m.id, 0, 0, 0)
    BY <1>3, <2>1 DEF MmeAuthentication, gtpVars
  <2>5. w.pc = "idle" /\ down[c] = <<>> /\ ~Completes(c)' /\ ~Completes(c)
        /\ \A k \in DOMAIN up'[c] : up'[c][k].t # 4
    BY <1>k, <2>1
  <2>3. down'[c] # <<>> /\ down'[c][1].t = 2
    <3>1. /\ Len(down'[c]) = 1
          /\ down'[c][1] = [t |-> 2, id |-> m.id, arg |-> 0, guti |-> 0, ip |-> 0]
      BY <1>t, <2>2, <2>5, ToUeQueue
    <3> QED
      BY <3>1
  <2>6. Given(c)'
    BY <2>1, <2>2, <2>3, <2>5 DEF Given, MPresent
  <2>7. ~Present(c) /\ ~Present(c)'
    BY <2>1 DEF Present
  <2>8. Exchange11' /\ \A d \in Conn : Replied(d)' <=> Replied(d)
    BY <1>u, <2>2, <2>5 DEF S11Op
  <2> QED
    BY <2>6, <2>7, <2>8 DEF Bearer
<1>4. CASE MmeSecurityComplete(c)
  <2>1. /\ Receive(c, 3) /\ ran[c].pc = "eps" /\ UNCHANGED <<down, mme_ctx, s11, s11r>>
        /\ Wait(c, "loc", m.id, c)
    BY <1>4, <1>s, TakeMessage DEF MmeSecurityComplete, gtpVars
  <2>3. mme_w'[c].pc = "loc"
    BY <1>w, <2>1
  <2>5. w.pc = "idle" /\ down[c] = <<>> /\ ~Completes(c)' /\ ~Completes(c)
        /\ \A k \in DOMAIN up'[c] : up'[c][k].t # 4
    BY <1>k, <2>1
  <2>6. Given(c)'
    BY <2>1, <2>3, <2>5 DEF Given, MPresent
  <2>8. Exchange11' /\ (\A d \in Conn : Replied(d)' <=> Replied(d)) /\ ~Replied(c)
    BY <1>u, <2>1, <2>3, <2>5 DEF S11Op
  <2>7. ~Present(c) /\ ~Present(c)'
    BY <1>t, <2>1, <2>5, <2>8 DEF Present
  <2> QED
    BY <2>6, <2>7, <2>8 DEF Bearer
<1>5. CASE MmeLocationUpdate(c)
  <2>1. /\ w.pc = "loc" /\ w.guti = c /\ ran[c].pc = "eps" /\ down[c] = <<>>
        /\ AskSgw(c, "create", 0, mme_ctx[c].imsi, c) /\ Wait(c, "create", w.id, c)
        /\ UNCHANGED <<up, down, mme_ctx, s11r>>
    BY <1>5, <1>g, <1>t, <1>v DEF MmeLocationUpdate, HandlerAt, get_s11cteidmme, Answering
  <2>2. mme_ctx[c].imsi = c
    BY <2>1 DEF RegInv, Enrolled, Emm, Authenticating
  <2>3. ~Asks(c)
    BY <2>1 DEF Asks, S11Op
  <2>4. /\ Exchange11' /\ Asks(c)' /\ mme_w'[c].pc = "create"
        /\ \A d \in Conn : Replied(d)' <=> Replied(d)
    BY <1>t, <2>1, <2>2, <2>3, WorkerAsks DEF S11Op
  <2>5. Completes(c)' <=> Completes(c)
    BY <2>1 DEF Completes
  <2>6. Given(c)'
    BY <2>1, <2>4, <2>5 DEF Given, MPresent
  <2>7. ~Present(c) /\ ~Present(c)'
    BY <1>t, <2>1, <2>3, <2>4, NoReply DEF Present
  <2> QED
    BY <2>4, <2>6, <2>7 DEF Bearer
<1>6. CASE MmeCreateSession(c)
  <2>1. PICK r \in Replies(c) :
          /\ w.pc = "create" /\ SgwReply(c, r) /\ Done(c) /\ UNCHANGED <<up, s11>>
          /\ mme_ctx' = [mme_ctx EXCEPT ![w.guti].teid = r.teid, ![w.guti].ul = r.teid]
          /\ ToUe(c, 3, w.id, r.teid, w.guti, r.ip)
    BY <1>6 DEF MmeCreateSession, HandlerAt
  <2>2. Asks(c) /\ ~Asks(c)' /\ mme_w'[c].pc = "idle"
    BY <1>d, <2>1 DEF Asks, S11Op
  <2>3. /\ Exchange11' /\ r = Reply(c) /\ Replied(c) /\ ~Replied(c)'
        /\ \A d \in Conn \ {c} : Replied(d)' <=> Replied(d)
    BY <1>t, <2>1, <2>2, WorkerAnswered
  <2>4. w.guti = c /\ r.teid = c /\ r.ip = c
    BY <1>g, <2>1, <2>3 DEF Reply
  <2>5. /\ ran[c].pc = "eps" /\ down[c] = <<>> /\ ~Completes(c)
        /\ \A k \in DOMAIN up[c] : up[c][k].t # 4
    BY <1>v, <2>1 DEF Answering
  <2>6. down'[c] # <<>> /\ down'[c][1].arg = c /\ down'[c][1].ip = c
    <3>1. Len(down'[c]) = 1 /\ down'[c][1] = [t |-> 3, id |-> w.id, arg |-> c, guti |-> c, ip |-> c]
      BY <1>t, <2>1, <2>4, <2>5, ToUeQueue
    <3> QED
      BY <3>1
  <2>7. /\ mme_ctx'[c].teid = c /\ mme_ctx'[c].ul = c
        /\ mme_ctx'[c].emm = mme_ctx[c].emm /\ mme_ctx'[c].ecm = mme_ctx[c].ecm
    BY <1>y, <1>t, <2>1, <2>4 DEF MmeCtx
  <2>8. ~MPresent(c)
    BY <2>1, <2>5 DEF MPresent
  <2>10. ~Completes(c)' /\ \A k \in DOMAIN up'[c] : up'[c][k].t # 4
    BY <2>1, <2>5 DEF Completes
  <2>9. Given(c)'
    BY <2>2, <2>5, <2>6, <2>7, <2>8, <2>10 DEF Given, MPresent
  <2>11. Present(c) /\ Present(c)' /\ Unbound(c)'
    BY <2>3, <2>5, <2>6 DEF Present, Unbound
  <2> QED
    BY <2>3, <2>9, <2>11 DEF Bearer
<1>7. CASE MmeAttachComplete(c)
  <2>1. /\ Receive(c, 4) /\ ran[c].pc \in {"attached", "bye", "ho", "end"}
        /\ get_guti(c) = c /\ UNCHANGED <<down, s11r>>
        /\ mme_ctx' = [mme_ctx EXCEPT ![c].dl = m.arg, ![c].emm = 1]
        /\ AskSgw(c, "modify", mme_ctx[c].teid, 0, m.arg)
        /\ Wait(c, "modify", m.id, c)
    BY <1>7, <1>s, TakeMessage DEF MmeAttachComplete
  <2>2. /\ w.pc = "idle" /\ ~Asks(c) /\ ~Replied(c) /\ down[c] = <<>> /\ ~Completes(c)'
        /\ \A k \in DOMAIN up'[c] : up'[c][k].t # 4
    BY <1>k, <2>1
  <2>3. m.arg = c /\ Completes(c)
    BY <1>q, <2>1, TakeCompletes DEF Completes
  <2>4. MPresent(c) /\ mme_ctx[c].teid = c /\ mme_ctx[c].ecm = 0
    BY <2>1, <2>2, <2>3 DEF MPresent, Given
  <2>5. /\ Exchange11' /\ Asks(c)' /\ mme_w'[c].pc = "modify"
        /\ \A d \in Conn : Replied(d)' <=> Replied(d)
    BY <1>t, <2>1, <2>2, <2>3, <2>4, WorkerAsks DEF S11Op
  <2>6. /\ mme_ctx'[c].teid = mme_ctx[c].teid /\ mme_ctx'[c].ul = mme_ctx[c].ul
        /\ mme_ctx'[c].emm = 1 /\ mme_ctx'[c].ecm = mme_ctx[c].ecm
    BY <1>y, <1>t, <2>1 DEF MmeCtx
  <2>7. MPresent(c)'
    BY <2>1, <2>2 DEF MPresent
  <2>8. Given(c)'
    BY <2>1, <2>2, <2>4, <2>5, <2>6, <2>7 DEF Given
  <2>9. Present(c)' <=> Present(c)
    BY <1>t, <2>1, <2>2, <2>5 DEF Present
  <2>10. Unbound(c)'
    BY <1>t, <2>2, <2>5 DEF Unbound
  <2> QED
    BY <2>5, <2>8, <2>9, <2>10 DEF Bearer
<1>8. CASE MmeModifyBearer(c)
  <2>1. PICK r \in Replies(c) :
          /\ w.pc = "modify" /\ SgwReply(c, r) /\ Done(c) /\ UNCHANGED <<up, down, s11>>
          /\ mme_ctx' = IF r.ok THEN [mme_ctx EXCEPT ![w.guti].ecm = 1] ELSE mme_ctx
    BY <1>8 DEF MmeModifyBearer, HandlerAt, sctpVars
  <2>2. Asks(c) /\ ~Asks(c)' /\ mme_w'[c].pc = "idle"
    BY <1>d, <2>1 DEF Asks, S11Op
  <2>3. /\ Exchange11' /\ r = Reply(c) /\ Replied(c) /\ ~Replied(c)'
        /\ \A d \in Conn \ {c} : Replied(d)' <=> Replied(d)
    BY <1>t, <2>1, <2>2, WorkerAnswered
  <2>4. w.guti = c /\ r.ok
    BY <1>g, <2>1, <2>3 DEF Reply
  <2>5. /\ ran[c].pc \in {"attached", "bye", "ho", "end"} /\ down[c] = <<>> /\ ~Completes(c)
    BY <1>v, <2>1 DEF Given
  <2>6. MPresent(c) /\ MPresent(c)' /\ (Completes(c)' <=> Completes(c))
    BY <2>1, <2>5 DEF MPresent, Completes
  <2>7. /\ mme_ctx'[c].teid = mme_ctx[c].teid /\ mme_ctx'[c].ul = mme_ctx[c].ul
        /\ mme_ctx'[c].emm = mme_ctx[c].emm /\ mme_ctx'[c].ecm = 1
    BY <1>y, <1>t, <2>1, <2>4 DEF MmeCtx
  <2>8. mme_ctx[c].emm = 1
    BY <2>5, <2>6 DEF Given
  <2>9. Given(c)'
    BY <2>1, <2>2, <2>5, <2>6, <2>7, <2>8 DEF Given
  <2>10. Present(c)' <=> Present(c)
    BY <2>1, <2>2, <2>5 DEF Present
  <2>11. Unbound(c) => Unbound(c)'
    BY <2>1, <2>3, <2>6 DEF Unbound, Completes
  <2> QED
    BY <2>3, <2>9, <2>10, <2>11 DEF Bearer
<1>9. CASE MmeDetach(c)
  <2>3. Receive(c, 5) /\ ran[c].pc = "bye" /\ get_guti(c) = c
    BY <1>9, <1>s, TakeMessage DEF MmeDetach
  <2>6. m.arg = c
    <3>1. up[c] # <<>> /\ m.t = 5
      BY <2>3 DEF Receive
    <3>2. m = up[c][1] /\ 1 \in DOMAIN up[c]
      BY <1>t, <3>1, QueueRead
    <3>3. UpTrue(c, m)
      BY <1>t, <3>2 DEF Knows
    <3> QED
      BY <3>1, <3>3 DEF UpTrue
  <2>1. /\ Receive(c, 5) /\ ran[c].pc = "bye" /\ get_guti(c) = c /\ m.arg = c
        /\ UNCHANGED <<down, mme_ctx, s11r>>
        /\ AskSgw(c, "detach", mme_ctx[c].teid, 0, 0) /\ Wait(c, "detach", m.id, c)
    BY <1>9, <1>t, <2>3, <2>6 DEF MmeDetach
  <2>2. /\ w.pc = "idle" /\ ~Asks(c) /\ ~Replied(c) /\ down[c] = <<>>
        /\ ~Completes(c)' /\ ~Completes(c) /\ \A k \in DOMAIN up'[c] : up'[c][k].t # 4
    BY <1>k, <2>1
  <2>4. MPresent(c) /\ mme_ctx[c].teid = c
    BY <2>1, <2>2 DEF MPresent, Given
  <2>5. /\ Exchange11' /\ Asks(c)' /\ mme_w'[c].pc = "detach"
        /\ \A d \in Conn : Replied(d)' <=> Replied(d)
    BY <1>t, <2>1, <2>2, <2>4, WorkerAsks DEF S11Op
  <2>8. Given(c)'
    BY <2>1, <2>2, <2>5 DEF Given, MPresent
  <2>9. Present(c)' /\ Present(c)
    BY <1>t, <2>1, <2>2, <2>5 DEF Present
  <2>10. Unbound(c)' <=> Unbound(c)
    BY <1>t, <2>1, <2>2, <2>5 DEF Unbound, Completes
  <2> QED
    BY <2>5, <2>8, <2>9, <2>10 DEF Bearer
<1>10. CASE MmeDetachAnswer(c)
  <2>1. PICK r \in Replies(c) :
          /\ w.pc = "detach" /\ SgwReply(c, r) /\ UNCHANGED <<up, s11, mme_ctx>>
          /\ IF r.ok THEN ToUe(c, 5, w.id, 0, 0, 0) /\ Wait(c, "rem", w.id, w.guti)
                     ELSE Done(c) /\ UNCHANGED down
    BY <1>10 DEF MmeDetachAnswer, HandlerAt
  <2>2. Asks(c) /\ ~Asks(c)'
    BY <1>d, <1>w, <2>1 DEF Asks, S11Op
  <2>3. /\ Exchange11' /\ r = Reply(c) /\ Replied(c) /\ ~Replied(c)'
        /\ \A d \in Conn \ {c} : Replied(d)' <=> Replied(d)
    BY <1>t, <2>1, <2>2, WorkerAnswered
  <2>4. ToUe(c, 5, w.id, 0, 0, 0) /\ mme_w'[c].pc = "rem"
    BY <1>w, <2>1, <2>3 DEF Reply
  <2>5. ran[c].pc = "bye" /\ down[c] = <<>>
    BY <1>v, <2>1 DEF Answering
  <2>6. down'[c] # <<>> /\ down'[c][1].t = 5
    <3>1. /\ Len(down'[c]) = 1
          /\ down'[c][1] = [t |-> 5, id |-> w.id, arg |-> 0, guti |-> 0, ip |-> 0]
      BY <1>t, <2>4, <2>5, ToUeQueue
    <3> QED
      BY <3>1
  <2>7. Completes(c)' <=> Completes(c)
    BY <2>1 DEF Completes
  <2>8. Given(c)'
    BY <2>1, <2>4, <2>5, <2>6, <2>7 DEF Given, MPresent
  <2>9. ~Present(c) /\ ~Present(c)'
    BY <2>1, <2>3, <2>5, <2>6 DEF Present
  <2> QED
    BY <2>3, <2>8, <2>9 DEF Bearer
<1>11. CASE MmeDetachRemove(c)
  <2>1. /\ w.pc = "rem" /\ UNCHANGED <<up, down, s11, s11r>> /\ Done(c)
        /\ mme_ctx' = [mme_ctx EXCEPT ![c] = NoMmeCtx]
    BY <1>11, <1>g DEF MmeDetachRemove, HandlerAt, Forget, sctpVars, gtpVars
  <2>2. /\ mme_ctx'[c].emm = 0 /\ mme_ctx'[c].ecm = 0 /\ mme_ctx'[c].teid = 0
        /\ mme_ctx'[c].ul = 0 /\ mme_w'[c].pc = "idle"
    BY <1>y, <1>t, <1>d, <2>1 DEF NoMmeCtx
  <2>3. ran[c].pc \in {"off", "auth", "bye"} /\ (ran[c].pc = "bye" => down[c] # <<>>)
    BY <1>v, <2>1 DEF Given
  <2>4. ~MPresent(c)' /\ ~Present(c) /\ ~Present(c)' /\ (Completes(c)' <=> Completes(c))
    BY <2>1, <2>2, <2>3 DEF MPresent, Present, Completes
  <2>5. Given(c)'
    BY <2>1, <2>2, <2>4 DEF Given
  <2>8. Exchange11' /\ \A d \in Conn : Replied(d)' <=> Replied(d)
    BY <1>u, <2>1, <2>2 DEF S11Op
  <2> QED
    BY <2>4, <2>5, <2>8 DEF Bearer
<1>12. CASE MmeHandover(c)
  <2>1. Receive(c, 7) /\ UNCHANGED <<down, s11, s11r, mme_w, mme_ctx>>
    BY <1>12 DEF MmeHandover, mmeOwn, gtpVars
  <2>5. w.pc = "idle" /\ down[c] = <<>> /\ ~Completes(c)' /\ ~Completes(c)
        /\ \A k \in DOMAIN up'[c] : up'[c][k].t # 4
    BY <1>k, <2>1
  <2>8. Exchange11' /\ \A d \in Conn : Replied(d)' <=> Replied(d)
    BY <1>u, <2>1, <2>5 DEF S11Op
  <2>6. Given(c)'
    BY <2>1, <2>5 DEF Given, MPresent
  <2>7. (Present(c)' <=> Present(c)) /\ (Unbound(c)' <=> Unbound(c))
    BY <1>t, <2>1, <2>5, <2>8 DEF Present, Unbound, Completes
  <2> QED
    BY <2>6, <2>7, <2>8 DEF Bearer
(* Only the source eNodeB asks for a tear-down here.                       *)
<1>13. CASE MmeHoRequest(c)
  <2>1. PICK h \in HoOp :
          /\ Receive(c, h[1]) /\ AskSgw(c, h[2], mme_ctx[get_guti(c)].teid, 0, m.arg)
          /\ Wait(c, h[2], m.id, get_guti(c)) /\ UNCHANGED <<down, mme_ctx, s11r>>
    BY <1>13 DEF MmeHoRequest
  <2>2. h[1] \in Says[ran[c].pc] /\ m.t = h[1]
    BY <2>1, TakeMessage
  <2>3. h[1] \in {8, 9, 10} /\ (h[1] = 10 => h[2] = "teardown")
    BY DEF HoOp
  <2>4. h[1] = 10 /\ h[2] = "teardown" /\ ran[c].pc = "end" /\ get_guti(c) = c /\ c = HoUE
    BY <1>k, <1>s, <2>1, <2>2, <2>3
  <2>5. /\ w.pc = "idle" /\ ~Asks(c) /\ ~Replied(c) /\ down[c] = <<>>
        /\ ~Completes(c)' /\ ~Completes(c) /\ \A k \in DOMAIN up'[c] : up'[c][k].t # 4
    BY <1>k, <2>1, <2>4
  <2>6. m.arg = c + 1
    <3>1. up[c] # <<>>
      BY <2>1 DEF Receive
    <3>2. m = up[c][1] /\ 1 \in DOMAIN up[c]
      BY <1>t, <3>1, QueueRead
    <3> QED
      BY <2>2, <2>4, <3>2
  <2>7. MPresent(c) /\ mme_ctx[c].teid = c
    BY <2>4 DEF MPresent, Given
  <2>8. /\ Exchange11' /\ Asks(c)' /\ mme_w'[c].pc = "teardown"
        /\ \A d \in Conn : Replied(d)' <=> Replied(d)
    BY <1>t, <2>1, <2>4, <2>5, <2>6, <2>7, WorkerAsks DEF S11Op
  <2>9. Given(c)'
    BY <2>1, <2>4, <2>5, <2>8 DEF Given, MPresent
  <2>10. (Present(c)' <=> Present(c)) /\ (Unbound(c)' <=> Unbound(c))
    BY <1>t, <2>1, <2>4, <2>5, <2>8 DEF Present, Unbound, Completes
  <2> QED
    BY <2>8, <2>9, <2>10 DEF Bearer
<1>14. CASE MmeHoAnswer(c)
  <2>1. PICK h \in HoOp, r \in Replies(c) :
          /\ w.pc = h[2] /\ SgwReply(c, r) /\ Done(c) /\ UNCHANGED <<up, down, s11, mme_ctx>>
    BY <1>14 DEF MmeHoAnswer, HandlerAt
  <2>2. w.pc = "teardown" /\ Asks(c) /\ ~Asks(c)' /\ mme_w'[c].pc = "idle"
    BY <1>d, <1>v, <2>1 DEF Asks, S11Op, HoOp
  <2>3. /\ Exchange11' /\ Replied(c) /\ ~Replied(c)'
        /\ \A d \in Conn \ {c} : Replied(d)' <=> Replied(d)
    BY <1>t, <2>1, <2>2, WorkerAnswered
  <2>4. ran[c].pc \in {"ho", "end"} /\ (Completes(c)' <=> Completes(c))
    BY <1>v, <2>1, <2>2 DEF Completes
  <2>5. Given(c)'
    BY <2>1, <2>2, <2>4 DEF Given, MPresent
  <2>6. (Present(c)' <=> Present(c)) /\ (Unbound(c)' <=> Unbound(c))
    BY <2>1, <2>2, <2>4 DEF Present, Unbound, Completes
  <2> QED
    BY <2>3, <2>5, <2>6 DEF Bearer
(* Nothing a thread sends is ignored.                                      *)
<1>15. CASE MmeIgnore(c)
  <2>1. up[c] # <<>> /\ (m.id = 0 <=> m.t # 1)
    BY <1>15 DEF MmeIgnore
  <2>2. m = up[c][1] /\ 1 \in DOMAIN up[c]
    BY <1>t, <2>1, QueueRead
  <2>3. UpTrue(c, m)
    BY <1>t, <2>2 DEF Knows
  <2> QED
    BY <1>t, <2>1, <2>3 DEF UpTrue
<1> QED
  BY <1>1, <1>2, <1>3, <1>4, <1>5, <1>6, <1>7, <1>8, <1>9, <1>10, <1>11, <1>12, <1>13, <1>14,
     <1>15 DEF MmeStep
-----------------------------------------------------------------------------
(* Whom the handler on a connection asks about, and where that             *)
(* subscriber's thread is.                                                 *)
LEMMA Subjects ==
  ASSUME LockInv, HoInv, NEW c \in Conn, Asks(c)
  PROVE  LET n == mme_w[c].guti
             o == mme_w[c].pc
         IN  /\ n \in UEs
             /\ o \in {"setup", "complete"} => c = 0 /\ n = HoUE
             /\ o \notin {"setup", "complete"} => c = n
             /\ o = "create" => ran[n].pc = "eps" /\ down[n] = <<>>
             /\ o = "detach" => ran[n].pc = "bye" /\ down[n] = <<>>
             /\ o = "modify" => ran[n].pc \in {"attached", "bye", "ho", "end"} /\ down[n] = <<>>
             /\ o \in {"setup", "complete"} => ran[n].pc \in {"ho", "end"}
             /\ o = "teardown" => ran[n].pc \in {"ho", "end"} /\ n = HoUE
<1> DEFINE w == mme_w[c]
<1>t. EpcTypeInv
  BY DEF LockInv
<1>1. CASE c \in UEs
  <2>1. Turn(c) /\ Knows(c) /\ ran[c].pc \in RanPc
    BY <1>1, <1>t, SessTypes DEF LockInv, EpcInv
  <2>2. w.guti = c
    BY <2>1 DEF Knows, Asks, S11Op
  <2>3. /\ w.pc \in Serves[ran[c].pc] /\ (w.pc \in Answering => down[c] = <<>>)
        /\ down[c] # <<>> => w.pc = "idle" \/ (w.pc = "rem" /\ ran[c].pc = "bye")
    BY <2>1 DEF Turn
  <2>4. /\ w.pc = "create" => ran[c].pc = "eps"
        /\ w.pc = "modify" => ran[c].pc \in {"attached", "bye", "ho", "end"}
        /\ w.pc = "detach" => ran[c].pc = "bye"
        /\ w.pc = "teardown" => ran[c].pc \in {"ho", "end"}
        /\ w.pc \notin {"setup", "complete"}
    BY <2>1, <2>3 DEF Serves, RanPc
  <2>5. down[c] = <<>>
    BY <2>3 DEF Asks, S11Op
  <2>6. w.pc = "teardown" => c = HoUE
    BY <1>1 DEF HoInv
  <2> QED
    BY <1>1, <2>2, <2>4, <2>5, <2>6
<1>2. CASE c = 0
  <2>1. HoUE \in UEs
    BY <1>2 DEF HoInv, NoHandover, Asks, S11Op
  <2>2. PICK s \in 0 .. 14 : HoAt(s)
    BY <2>1 DEF HoInv
  <2>3. s \in {6, 10}
    BY <1>2, <2>2 DEF HoAt, HoWorker, Asks, S11Op
  <2>4. /\ w.guti = HoUE /\ w.pc \in {"setup", "complete"}
        /\ ran[HoUE].pc \in {"ho", "end"}
    BY <1>2, <2>2, <2>3 DEF HoAt, HoWorker, HoRan
  <2> QED
    BY <1>2, <2>1, <2>4
<1> QED
  BY <1>1, <1>2 DEF Conn

(* The session is there unless it is to be made or has been taken down.    *)
LEMMA SubjectPresent ==
  ASSUME LockInv, HoInv, NEW c \in Conn, Asks(c)
  PROVE  LET n == mme_w[c].guti
             o == mme_w[c].pc
         IN  /\ o = "create" => (Present(n) <=> Replied(n))
             /\ o = "detach" => (Present(n) <=> ~Replied(n))
             /\ o \notin {"create", "detach"} => Present(n)
<1> DEFINE n == mme_w[c].guti
           o == mme_w[c].pc
<1>1. /\ n \in UEs
      /\ o \notin {"setup", "complete"} => c = n
      /\ o = "create" => ran[n].pc = "eps" /\ down[n] = <<>>
      /\ o = "detach" => ran[n].pc = "bye" /\ down[n] = <<>>
      /\ o = "modify" => ran[n].pc \in {"attached", "bye", "ho", "end"} /\ down[n] = <<>>
      /\ o \in {"setup", "complete"} => ran[n].pc \in {"ho", "end"}
      /\ o = "teardown" => ran[n].pc \in {"ho", "end"}
  BY Subjects
<1>2. o \in S11Op
  BY DEF Asks
<1>3. CASE o = "create"
  BY <1>1, <1>3 DEF Present
<1>4. CASE o = "detach"
  BY <1>1, <1>4 DEF Present
<1>5. CASE o = "modify"
  BY <1>1, <1>5 DEF Present
<1>6. CASE o \in {"setup", "complete", "teardown"}
  BY <1>1, <1>6 DEF Present
<1> QED
  BY <1>2, <1>3, <1>4, <1>5, <1>6 DEF S11Op
-----------------------------------------------------------------------------
(* The one thread of the S11 server.                                       *)
LEMMA SgwTypes ==
  ASSUME Orderly, EpcTypeInv
  PROVE  /\ S11Threads = {SgwT} /\ DOMAIN sgw_th = {SgwT} /\ th \in SgwThread
         /\ th.pc \in SgwPc \cup {"idle"} /\ s5port[SgwT] = 0
         /\ sgw_id \in [Itf -> [Teid -> Imsi]] /\ sgw_ctx \in [Imsi -> Ctx]
         /\ sgw_ho \in [Imsi -> HoCtx]
<1>1. /\ S11Threads = {SgwT} /\ sgw_th \in [S11Threads -> SgwThread]
      /\ s5port \in [S11Threads -> 0 .. 0]
      /\ sgw_id \in [Itf -> [Teid -> Imsi]] /\ sgw_ctx \in [Imsi -> Ctx]
      /\ sgw_ho \in [Imsi -> HoCtx]
  BY DEF Orderly, EpcTypeInv, EpcTypeOK, SgwTypeOK
<1>2. th \in SgwThread /\ s5port[SgwT] = 0
  BY <1>1 DEF th
<1>3. th.pc \in SgwPc \cup {"idle"}
  BY <1>2 DEF SgwThread, Idle
<1> QED
  BY <1>1, <1>2, <1>3

LEMMA ThreadGoes ==
  ASSUME Orderly, EpcTypeInv, NEW pc, NEW imsi, NEW teid, Goto(SgwT, pc, imsi, teid)
  PROVE  /\ th' = [pc |-> pc, req |-> th.req, imsi |-> imsi, teid |-> teid]
         /\ th'.pc = pc /\ th'.req = th.req /\ th'.imsi = imsi /\ th'.teid = teid
<1>1. sgw_th'[SgwT] = [pc |-> pc, req |-> th.req, imsi |-> imsi, teid |-> teid]
  BY SgwTypes DEF Goto, th
<1> QED
  BY <1>1 DEF th

LEMMA ThreadReturns ==
  ASSUME Orderly, EpcTypeInv, Return(SgwT)
  PROVE  th'.pc = "idle" /\ th'.imsi = 0
<1>1. sgw_th'[SgwT] = Idle
  BY SgwTypes DEF Return
<1> QED
  BY <1>1 DEF th, Idle

LEMMA ThreadTakes ==
  ASSUME Orderly, EpcTypeInv, NEW d, NEW pc, NEW imsi, NEW teid,
         Take(SgwT, d, pc, imsi, teid)
  PROVE  /\ th.pc = "idle" /\ th.imsi = 0 /\ s11' = s11 \ {d}
         /\ th'.pc = pc /\ th'.req = d /\ th'.imsi = imsi /\ th'.teid = teid
<1>1. sgw_th'[SgwT] = [pc |-> pc, req |-> d, imsi |-> imsi, teid |-> teid]
  BY SgwTypes DEF Take
<1>2. th.pc = "idle"
  BY DEF Take, At, th
<1>3. th = Idle
  BY <1>2, SgwTypes DEF SgwThread, SgwPc, LookupOp, S11Op, CreatePc, DetachPc
<1> QED
  BY <1>1, <1>2, <1>3 DEF th, Idle, Take
-----------------------------------------------------------------------------
(* The exchange of S11 when the gateway takes a question,                  *)
LEMMA GatewayTakes ==
  ASSUME Exchange11, NEW c \in Conn, NEW d \in s11, d = Question(c),
         th.pc = "idle", s11' = s11 \ {d}, UNCHANGED <<s11r, mme_w>>,
         th'.req = d, th'.pc \in WorkOf(d.op), th'.imsi = mme_w[c].guti,
         th'.pc \in CreatePc \cup {"wait_detach", "ho_add"} => th'.teid = mme_w[c].guti
  PROVE  /\ Exchange11' /\ Served(c)' /\ Asks(c) /\ ~Replied(c)
         /\ \A e \in Conn : Replied(e)' <=> Replied(e)
<1>1. d.sock = Sock11(c) /\ d.op = mme_w[c].pc
  BY DEF Question
<1>2. /\ Asks(c) /\ ~Replied(c) /\ mme_w[c].guti \in UEs
      /\ \A x \in s11 : x.sock = Sock11(c) => x = d
  BY <1>1 DEF Exchange11, Line11
<1>3. th'.pc \notin {"idle"} \cup Tail11
  BY <1>1, <1>2 DEF WorkOf, Asks, S11Op, CreatePc, Tail11
<1>4. /\ Served(c)' /\ Question(c)' = Question(c) /\ (Asks(c)' <=> Asks(c))
      /\ \A e \in Conn : Replied(e)' <=> Replied(e)
  BY <1>1, <1>3 DEF Served, Working, Question, Asks, Replied
<1>5. ASSUME NEW e \in Conn PROVE Line11(e)'
  <2>1. CASE e = c
    BY <1>1, <1>2, <1>4, <2>1 DEF Line11, Replied
  <2>2. CASE e # c
    <3>1. ~Served(e)'
      BY <1>1, <2>2, SockApart DEF Served
    <3> QED
      BY <3>1 DEF Exchange11, Line11, Asks, Question, Reply, Replied, Served
  <2> QED
    BY <2>1, <2>2
<1> QED
  BY <1>2, <1>3, <1>4, <1>5 DEF Exchange11, Working

(* works on it,                                                            *)
LEMMA GatewayWorks ==
  ASSUME Exchange11, NEW c \in Conn, Served(c), UNCHANGED <<s11, s11r, mme_w>>,
         th'.req = th.req, th'.pc \in WorkOf(mme_w[c].pc), th'.imsi = mme_w[c].guti,
         th'.pc \in CreatePc \cup {"wait_detach", "ho_add"} => th'.teid = mme_w[c].guti
  PROVE  /\ Exchange11' /\ Served(c)'
         /\ \A e \in Conn : Replied(e)' <=> Replied(e)
<1>2. Asks(c)
  BY DEF Exchange11, Line11
<1>3. th'.pc \notin {"idle"} \cup Tail11
  BY <1>2 DEF WorkOf, Asks, S11Op, CreatePc, Tail11
<1>4. \A e \in Conn : (Served(e)' <=> Served(e)) /\ (Replied(e)' <=> Replied(e))
  BY <1>3 DEF Served, Working, Replied
<1>5. ASSUME NEW e \in Conn PROVE Line11(e)'
  <2>1. CASE e = c
    <3>1. Line11(c) /\ Served(c)'
      BY <1>4 DEF Exchange11
    <3> QED
      BY <2>1, <3>1, <1>4 DEF Line11, Asks, Question, Reply
  <2>2. CASE e # c
    <3>1. ~Served(e) /\ ~Served(e)'
      BY <1>4, <2>2, SockApart DEF Served
    <3> QED
      BY <1>4, <3>1 DEF Exchange11, Line11, Asks, Question, Reply
  <2> QED
    BY <2>1, <2>2
<1> QED
  BY <1>3, <1>4, <1>5 DEF Exchange11, Working

(* and answers it.                                                         *)
LEMMA GatewayAnswers ==
  ASSUME Exchange11, NEW c \in Conn, Served(c), UNCHANGED <<s11, mme_w>>,
         s11r' = s11r \cup {Reply(c)},
         \/ th'.pc = "idle"
         \/ th'.pc \in Tail11 /\ th'.imsi = mme_w[c].guti /\ th'.teid = mme_w[c].guti
  PROVE  /\ Exchange11' /\ Replied(c)' /\ ~Replied(c)
         /\ \A e \in Conn \ {c} : Replied(e)' <=> Replied(e)
<1>1. Reply(c).sock = Sock11(c)
  BY DEF Reply
<1>2. /\ Asks(c) /\ ~Replied(c) /\ mme_w[c].guti \in UEs
      /\ \A x \in s11 : x.sock # Sock11(c)
      /\ \A x \in s11r : x.sock # Sock11(c)
  BY DEF Exchange11, Line11, Replied
<1>3. ~Working' /\ \A e \in Conn : ~Served(e)'
  BY DEF Served, Working
<1>4. /\ Reply(c)' = Reply(c) /\ (Asks(c)' <=> Asks(c)) /\ Replied(c)'
      /\ \A e \in Conn \ {c} : Replied(e)' <=> Replied(e)
  BY <1>1, SockApart DEF Reply, Asks, Replied
<1>5. ASSUME NEW e \in Conn PROVE Line11(e)'
  <2>1. CASE e = c
    BY <1>2, <1>3, <1>4, <2>1 DEF Line11
  <2>2. CASE e # c
    <3>1. \A x \in s11r' : x.sock = Sock11(e) => x \in s11r
      BY <1>1, <2>2, SockApart
    <3> QED
      BY <1>3, <1>4, <2>2, <3>1 DEF Exchange11, Line11, Asks, Question, Reply
  <2> QED
    BY <2>1, <2>2
<1>6. \A d \in s11' \cup s11r' : \E e \in Conn : d.sock = Sock11(e)
  BY <1>1 DEF Exchange11
<1> QED
  BY <1>2, <1>3, <1>4, <1>5, <1>6 DEF Exchange11, Tail11

(* After a detach has been answered it is at work for itself.              *)
LEMMA GatewayTidies ==
  ASSUME Exchange11, th.pc \in Tail11, UNCHANGED <<s11, s11r, mme_w>>,
         \/ th'.pc = "idle"
         \/ th'.pc \in Tail11 /\ th'.imsi = th.imsi /\ th'.teid = th.teid
  PROVE  Exchange11' /\ \A e \in Conn : Replied(e)' <=> Replied(e)
<1>1. ~Working /\ ~Working' /\ \A e \in Conn : ~Served(e) /\ ~Served(e)'
  BY DEF Served, Working
<1>2. \A e \in Conn : Replied(e)' <=> Replied(e)
  BY DEF Replied
<1>3. ASSUME NEW e \in Conn PROVE Line11(e)'
  BY <1>1, <1>2 DEF Exchange11, Line11, Asks, Question, Reply
<1> QED
  BY <1>1, <1>2, <1>3 DEF Exchange11, Tail11
-----------------------------------------------------------------------------
(* The thread at work, the handler it works for, and the session.          *)
LEMMA AtWork ==
  ASSUME Orderly, LockInv, SessInv, HoInv, Working
  PROVE  \E c \in Conn :
           LET n == th.imsi
               o == mme_w[c].pc
           IN  /\ Served(c) /\ Asks(c) /\ ~Replied(c) /\ th.req = Question(c)
               /\ mme_w[c].guti = n /\ n \in UEs /\ th.pc \in WorkOf(o)
               /\ th.pc \in CreatePc \cup {"wait_detach", "ho_add"} => th.teid = n
               /\ o = "create" \/ Present(n)
               /\ th.pc \in CreatePc =>
                    o = "create" /\ c = n /\ ~Present(n) /\ ran[n].pc = "eps" /\ down[n] = <<>>
               /\ th.pc = "modify" => o = "modify" /\ c = n
               /\ th.pc \in {"detach", "wait_detach"} =>
                    o = "detach" /\ c = n /\ ran[n].pc = "bye" /\ down[n] = <<>>
               /\ th.pc \in {"setup", "ho_add"} => o = "setup" /\ c = 0 /\ n = HoUE
               /\ th.pc \in {"complete", "ho_erase"} => o = "complete" /\ c = 0 /\ n = HoUE
               /\ th.pc = "teardown" => o = "teardown" /\ c = n /\ n = HoUE
               /\ th.pc \in LookupOp \cup {"ho_add", "ho_erase", "wait_detach"} \cup CreatePc
<1>1. PICK c \in Conn : Served(c)
  BY DEF SessInv, Exchange11
<1> DEFINE n == th.imsi
           o == mme_w[c].pc
<1>2. /\ Asks(c) /\ ~Replied(c) /\ th.req = Question(c)
      /\ mme_w[c].guti = n /\ n \in UEs /\ th.pc \in WorkOf(o)
      /\ th.pc \in CreatePc \cup {"wait_detach", "ho_add"} => th.teid = n
  BY <1>1 DEF SessInv, Exchange11, Line11, Replied
<1>3. o \in S11Op
  BY <1>2 DEF Asks
<1>4. /\ th.pc \in CreatePc => o = "create"
      /\ th.pc = "modify" => o = "modify"
      /\ th.pc \in {"detach", "wait_detach"} => o = "detach"
      /\ th.pc \in {"setup", "ho_add"} => o = "setup"
      /\ th.pc \in {"complete", "ho_erase"} => o = "complete"
      /\ th.pc = "teardown" => o = "teardown"
      /\ th.pc \in LookupOp \cup {"ho_add", "ho_erase", "wait_detach"} \cup CreatePc
  BY <1>2, <1>3 DEF WorkOf, S11Op, CreatePc, LookupOp
<1>5. /\ o \in {"setup", "complete"} => c = 0 /\ n = HoUE
      /\ o \notin {"setup", "complete"} => c = n
      /\ o = "create" => ran[n].pc = "eps" /\ down[n] = <<>>
      /\ o = "detach" => ran[n].pc = "bye" /\ down[n] = <<>>
      /\ o = "teardown" => n = HoUE
  BY <1>2, Subjects
<1>6. /\ o = "create" => (Present(n) <=> Replied(n))
      /\ o = "detach" => (Present(n) <=> ~Replied(n))
      /\ o \notin {"create", "detach"} => Present(n)
  BY <1>2, SubjectPresent
<1> QED
  BY <1>1, <1>2, <1>3, <1>4, <1>5, <1>6
-----------------------------------------------------------------------------
(* S5 when the gateway asks nothing.                                       *)
LEMMA QuietS5 ==
  ASSUME Orderly, EpcTypeInv, Exchange5, ~Asking5
  PROVE  s5 = {} /\ s5r = {} /\ pw.pc \in {"idle"} \cup Tail5
<1>1. s5 = {} /\ s5r = {}
  BY DEF Exchange5
<1>2. pw \in PgwThread
  BY DEF Orderly, EpcTypeInv, EpcTypeOK, PgwTypeOK, pw
<1>3. pw.pc \in PgwPc \cup {"idle"}
  BY <1>2 DEF PgwThread, PgwIdle
<1>4. pw.pc \notin {"sgi", "ctx", "answer"}
  BY DEF Exchange5, Asking5
<1> QED
  BY <1>1, <1>3, <1>4 DEF PgwPc, Tail5

LEMMA StillQuietS5 ==
  ASSUME Exchange5, pw.pc \in {"idle"} \cup Tail5, UNCHANGED pgw_th,
         s5' = {}, s5r' = {}
  PROVE  Exchange5'
<1>1. pw' = pw
  BY DEF pw
<1>2. pw.pc \notin {"sgi", "ctx", "answer"}
  BY DEF Tail5
<1> QED
  BY <1>1, <1>2 DEF Exchange5

LEMMA AsksS5 ==
  ASSUME Exchange5, pw.pc \in {"idle"} \cup Tail5, UNCHANGED pgw_th,
         s5' = {Question5'}, s5r' = {}, Asking5'
  PROVE  Exchange5'
<1>1. pw' = pw
  BY DEF pw
<1>2. pw.pc \notin {"sgi", "ctx", "answer"}
  BY DEF Tail5
<1> QED
  BY <1>1, <1>2 DEF Exchange5
-----------------------------------------------------------------------------
(* The rows of a subscriber whose session neither comes nor goes.          *)
LEMMA RowsStay ==
  ASSUME NEW n \in UEs, SgwRow(n), PgwRow(n),
         UNCHANGED <<pgw_s5, pgw_sgi, pgw_ctx, pgw_th>>,
         ~On(n, CreatePc \cup DetachPc), ~On(n, CreatePc \cup DetachPc)',
         Present(n)' <=> Present(n),
         \A itf \in Itf : sgw_id'[itf][n] = sgw_id[itf][n],
         sgw_ctx'[n].in <=> sgw_ctx[n].in, sgw_ctx'[n].teid = sgw_ctx[n].teid,
         sgw_ctx'[n].s5 = sgw_ctx[n].s5, ~sgw_ctx'[n].in => sgw_ctx'[n] = sgw_ctx[n]
  PROVE  SgwRow(n)' /\ PgwRow(n)'
<1>2. /\ ~On(n, {"wait_create"} \cup Tail11) /\ ~On(n, {"wait_create"} \cup Tail11)'
      /\ ~On(n, Tail11) /\ ~On(n, Tail11)'
      /\ ~On(n, {"wait_detach"}) /\ ~On(n, {"wait_detach"})'
      /\ ~On(n, {"wait_create"}) /\ ~On(n, {"wait_create"})'
      /\ \A S : POn(n, S)' <=> POn(n, S)
  BY DEF On, POn, pw, CreatePc, DetachPc, Tail11
<1>3. \A itf : Entry(itf, n)' <=> Entry(itf, n)
  BY DEF Entry, On, CreatePc, DetachPc
<1>4. Linked(n)' <=> Linked(n)
  BY <1>2 DEF Linked
<1>5. SgwRow(n)'
  BY <1>2, <1>3 DEF SgwRow
<1>6. PgwRow(n)'
  BY <1>2, <1>4 DEF PgwRow
<1> QED
  BY <1>5, <1>6

(* A subscriber the gateway's thread is not at work for.                   *)
LEMMA Bystander ==
  ASSUME NEW n \in UEs, SgwRow(n), PgwRow(n), Bearer(n),
         UNCHANGED <<up, down, ran, mme_w, pgw_s5, pgw_sgi, pgw_ctx, pgw_th>>,
         ~On(n, CreatePc \cup DetachPc), ~On(n, CreatePc \cup DetachPc)',
         Replied(n)' <=> Replied(n),
         \A itf \in Itf : sgw_id'[itf][n] = sgw_id[itf][n], sgw_ctx'[n] = sgw_ctx[n]
  PROVE  SgwRow(n)' /\ PgwRow(n)' /\ Bearer(n)'
<1>1. (Present(n)' <=> Present(n)) /\ (Unbound(n)' <=> Unbound(n))
  BY DEF Present, Unbound
<1>2. SgwRow(n)' /\ PgwRow(n)'
  BY <1>1, RowsStay
<1> QED
  BY <1>1, <1>2 DEF Bearer

(* A step for one subscriber.                                              *)
LEMMA SgwFrame ==
  ASSUME Orderly, EpcTypeInv, SessInv, SgwProcess(SgwT), NEW n \in UEs,
         th.imsi \in {0, n}, th'.imsi \in {0, n},
         Exchange11', Exchange5', SgwExtra', SgwRow(n)', PgwRow(n)', Bearer(n)',
         \A m \in UEs \ {n} : Replied(m)' <=> Replied(m),
         \A itf \in Itf, m \in UEs \ {n} : sgw_id'[itf][m] = sgw_id[itf][m],
         \A m \in UEs \ {n} : sgw_ctx'[m] = sgw_ctx[m]
  PROVE  SessInv'
<1>1. UNCHANGED <<up, down, ran, mme_w, mme_ctx, pgw_s5, pgw_sgi, pgw_ctx, pgw_th>>
  BY DEF SgwProcess, sctpVars, ranOwn, mmeOwn, pgwOwn
<1>2. PgwExtra'
  BY <1>1 DEF SessInv, PgwExtra
<1>3. ASSUME NEW m \in UEs PROVE Given(m)'
  <2>1. Given(m)
    BY DEF SessInv
  <2> QED
    BY <1>1, <2>1 DEF Given, MPresent, Completes
<1>4. ASSUME NEW m \in UEs, m # n PROVE SgwRow(m)' /\ PgwRow(m)' /\ Bearer(m)'
  <2>1. m # 0
    BY SessTypes
  <2>2. ~On(m, CreatePc \cup DetachPc) /\ ~On(m, CreatePc \cup DetachPc)'
    BY <1>4, <2>1 DEF On
  <2>3. SgwRow(m) /\ PgwRow(m) /\ Bearer(m)
    BY DEF SessInv
  <2> QED
    BY <1>1, <1>4, <2>2, <2>3, Bystander
<1> QED
  BY <1>2, <1>3, <1>4 DEF SessInv

(* A step that makes and removes no session.                               *)
LEMMA SgwAside ==
  ASSUME SessInv, SgwProcess(SgwT), Exchange11', Exchange5', SgwExtra',
         th.pc \notin CreatePc \cup DetachPc, th'.pc \notin CreatePc \cup DetachPc,
         \A m \in UEs : (Present(m)' <=> Present(m)) /\ Bearer(m)',
         \A itf \in Itf, m \in UEs : sgw_id'[itf][m] = sgw_id[itf][m],
         \A m \in UEs : /\ (sgw_ctx'[m].in <=> sgw_ctx[m].in)
                        /\ sgw_ctx'[m].teid = sgw_ctx[m].teid
                        /\ sgw_ctx'[m].s5 = sgw_ctx[m].s5
                        /\ ~sgw_ctx'[m].in => sgw_ctx'[m] = sgw_ctx[m]
  PROVE  SessInv'
<1>1. UNCHANGED <<up, down, ran, mme_w, mme_ctx, pgw_s5, pgw_sgi, pgw_ctx, pgw_th>>
  BY DEF SgwProcess, sctpVars, ranOwn, mmeOwn, pgwOwn
<1>2. PgwExtra'
  BY <1>1 DEF SessInv, PgwExtra
<1>3. ASSUME NEW m \in UEs PROVE Given(m)'
  <2>1. Given(m)
    BY DEF SessInv
  <2> QED
    BY <1>1, <2>1 DEF Given, MPresent, Completes
<1>4. ASSUME NEW m \in UEs PROVE SgwRow(m)' /\ PgwRow(m)'
  <2>1. ~On(m, CreatePc \cup DetachPc) /\ ~On(m, CreatePc \cup DetachPc)'
    BY DEF On
  <2>2. SgwRow(m) /\ PgwRow(m)
    BY DEF SessInv
  <2> QED
    BY <1>1, <2>1, <2>2, RowsStay
<1> QED
  BY <1>2, <1>3, <1>4 DEF SessInv

(* What the handover depends on.                                           *)
Unconcerned ==
  /\ UNCHANGED sgw_ho /\ th.pc # "ho_add" /\ th'.pc # "ho_add"
  /\ \A x \in Teid \ UEs : sgw_id'["s1"][x] = sgw_id["s1"][x]
  /\ \A c \in Conn : mme_w[c].pc \in {"setup", "complete", "teardown"} =>
                      (Replied(c)' <=> Replied(c))

LEMMA HoUnconcerned ==
  ASSUME Orderly, EpcTypeInv, HoInv, SgwProcess(SgwT), Unconcerned
  PROVE  HoInv'
<1>1. UNCHANGED <<up, down, toRan, ran, ranS, ranT, mme_w>>
  BY DEF SgwProcess, sctpVars, ranOwn, mmeOwn
<1>2. ASSUME NEW s \in 0 .. 14, HoAt(s), HoUE \in UEs PROVE HoAt(s)'
  <2>1. HoToRan(s)' /\ HoUp(s)' /\ HoWorker(s)' /\ HoRan(s)'
    BY <1>1, <1>2 DEF HoAt, HoToRan, HoUp, HoWorker, HoRan, HoId
  <2>2. /\ s \in {6, 10} => mme_w[0].pc \in {"setup", "complete"}
        /\ s = 13 => mme_w[HoUE].pc = "teardown"
    BY <1>2 DEF HoAt, HoWorker
  <2>3. HoUE \in Conn /\ 0 \in Conn /\ HoUE + 1 \in Teid \ UEs
    BY <1>2, SessTypes, MmeIdentifiers DEF Orderly, Teid, Imsi
  <2>4. /\ s \in {6, 10} => (Replied(0)' <=> Replied(0))
        /\ s = 13 => (Replied(HoUE)' <=> Replied(HoUE))
        /\ ~On(HoUE, {"ho_add"}) /\ ~On(HoUE, {"ho_add"})'
    BY <2>2, <2>3 DEF Unconcerned, On
  <2>5. UNCHANGED sgw_ho /\ sgw_id'["s1"][HoUE + 1] = sgw_id["s1"][HoUE + 1]
    BY <2>3 DEF Unconcerned
  <2>6. HoSgw(s)'
    BY <1>2, <2>4, <2>5 DEF HoAt, HoSgw
  <2> QED
    BY <2>1, <2>6 DEF HoAt
<1> QED
  BY <1>1, <1>2 DEF HoInv, NoHandover, Unconcerned

(* The exchange with the packet gateway and the indirect tunnel are not    *)
(* concerned.                                                              *)
LEMMA SgwPlain ==
  ASSUME Orderly, EpcTypeInv, SessInv, SgwProcess(SgwT), ~Asking5, ~Asking5',
         UNCHANGED <<s5, s5r>>
  PROVE  Exchange5'
<1>1. UNCHANGED pgw_th
  BY DEF SgwProcess, pgwOwn
<1>2. s5 = {} /\ s5r = {} /\ pw.pc \in {"idle"} \cup Tail5
  BY QuietS5 DEF SessInv
<1> QED
  BY <1>1, <1>2, StillQuietS5 DEF SessInv
-----------------------------------------------------------------------------
(* The creation of a session in the serving gateway.                       *)
LEMMA SgwCreates ==
  ASSUME Orderly, LockInv, SessInv, HoInv, SgwProcess(SgwT),
         \/ SgwCreateSession(SgwT) \/ SgwCreateItf(SgwT) \/ SgwCreateCtx(SgwT)
         \/ SgwCreateRsp(SgwT) \/ SgwCreateTimeout(SgwT)
  PROVE  SessInv' /\ HoInv' /\ UNCHANGED sgw_up
<1>t. /\ EpcTypeInv /\ Exchange11 /\ Exchange5 /\ SgwExtra
      /\ UNCHANGED <<up, down, ran, mme_w, mme_ctx, pgw_s5, pgw_sgi, pgw_ctx, pgw_th>>
      /\ \A m \in UEs : SgwRow(m) /\ PgwRow(m) /\ Bearer(m)
      /\ \A m \in UEs : m # 0 /\ m \in Teid /\ m \in Imsi /\ m \in Conn
  BY SessTypes DEF LockInv, SessInv, SgwProcess, sctpVars, ranOwn, mmeOwn, pgwOwn
<1>y. sgw_id \in [Itf -> [Teid -> Imsi]] /\ sgw_ctx \in [Imsi -> Ctx] /\ s5port[SgwT] = 0
  BY <1>t, SgwTypes
(* The thread at one of the steps of a creation.                           *)
<1>w. ASSUME th.pc \in CreatePc
      PROVE  \E n \in UEs :
             /\ n = th.imsi /\ n \in Conn /\ mme_w[n].pc = "create" /\ mme_w[n].guti = n
             /\ Served(n) /\ Asks(n) /\ ~Replied(n) /\ th.teid = n /\ ~Present(n)
             /\ ran[n].pc = "eps" /\ down[n] = <<>>
  <2>1. Working
    BY <1>w DEF Working, CreatePc, Tail11
  <2> QED
    BY <1>w, <1>t, <2>1, AtWork
<1>1. CASE SgwCreateSession(SgwT)
  <2>1. PICK d \in s11 :
          /\ d.op = "create" /\ Take(SgwT, d, "add_s1", d.imsi, d.arg)
          /\ sgw_id' = [sgw_id EXCEPT !["s11"][d.arg] = d.imsi]
          /\ UNCHANGED <<s11r, s5, s5r, sgw_ctx, sgw_ho, sgw_up, s5port>>
    BY <1>1 DEF SgwCreateSession, update_itfid
  <2>2. PICK c \in Conn : d.sock = Sock11(c)
    BY <1>t DEF Exchange11
  <2>3. Asks(c) /\ d = Question(c) /\ ~Replied(c)
    BY <1>t, <2>2 DEF Exchange11, Line11
  <2>4. mme_w[c].pc = "create"
    BY <2>1, <2>3 DEF Question
  <2>5. PICK k \in UEs :
        /\ k = mme_w[c].guti /\ c = k /\ d.imsi = k /\ d.arg = k /\ ~Present(k)
        /\ ran[k].pc = "eps"
    BY <2>3, <2>4, <1>t, Subjects, SubjectPresent DEF Question
  <2>6. /\ th.pc = "idle" /\ th.imsi = 0 /\ s11' = s11 \ {d} /\ th'.req = d
        /\ th'.pc = "add_s1" /\ th'.imsi = k /\ th'.teid = k
    BY <1>t, <2>1, <2>5, ThreadTakes
  <2>7. Exchange11' /\ \A e \in Conn : Replied(e)' <=> Replied(e)
    <3>1. th'.pc \in WorkOf(d.op)
      BY <2>1, <2>6 DEF WorkOf, CreatePc
    <3>2. Exchange11' /\ \A e \in Conn : Replied(e)' <=> Replied(e)
      <4>1. /\ th'.imsi = mme_w[c].guti /\ th'.teid = mme_w[c].guti
            /\ UNCHANGED <<s11r, mme_w>>
        BY <1>t, <2>1, <2>5, <2>6
      <4>2. Exchange11 /\ d = Question(c) /\ th.pc = "idle" /\ s11' = s11 \ {d} /\ th'.req = d
        BY <1>t, <2>3, <2>6
      <4> QED
        BY <3>1, <4>1, <4>2, GatewayTakes
    <3> QED
      BY <3>2
  <2>8. Exchange5'
    BY <1>t, <2>1, <2>6, SgwPlain DEF Asking5
  <2>9. /\ sgw_id'["s11"][k] = k
        /\ \A j \in Itf, y \in Teid : j # "s11" \/ y # k => sgw_id'[j][y] = sgw_id[j][y]
    <3>1. sgw_id' = [sgw_id EXCEPT !["s11"][k] = k] /\ "s11" \in Itf /\ k \in Teid
      BY <1>t, <2>1, <2>5 DEF Itf
    <3> QED
      BY <1>y, <3>1
  <2>10. SgwExtra' /\ \A x \in Teid \ UEs : sgw_id'["s1"][x] = sgw_id["s1"][x]
    <3>1. \A itf \in Itf, x \in Teid \ UEs : sgw_id'[itf][x] = sgw_id[itf][x]
      BY <2>5, <2>9
    <3> QED
      BY <1>t, <3>1 DEF SgwExtra, Itf
  <2>11. ~Present(k)' /\ Unbound(k)'
    BY <1>t, <2>5, <2>7 DEF Present, Unbound
  <2>12. /\ ~On(k, {"wait_create"} \cup Tail11) /\ ~On(k, {"wait_create"} \cup Tail11)'
         /\ ~On(k, Tail11) /\ ~On(k, Tail11)'
         /\ ~On(k, {"wait_create"}) /\ ~On(k, {"wait_create"})'
    BY <1>t, <2>5, <2>6 DEF On, Tail11
  <2>13. SgwRow(k)'
    <3>1. \A itf \in Itf : Entry(itf, k)' <=> itf = "s11"
      BY <2>6, <2>11 DEF Entry, On, Itf
    <3>2. \A itf \in Itf : ~Entry(itf, k)
      BY <1>t, <2>5, <2>6 DEF Entry, On
    <3>3. \A itf \in Itf : sgw_id'[itf][k] = IF itf = "s11" THEN k ELSE 0
      BY <1>t, <2>5, <2>9, <3>2 DEF SgwRow
    <3>4. SgwRow(k)'
      <4>1. \A itf \in Itf : sgw_id'[itf][k] = IF Entry(itf, k)' THEN k ELSE 0
        BY <3>1, <3>3
      <4>2. SgwRow(k) /\ ~Present(k) /\ UNCHANGED sgw_ctx
        BY <1>t, <2>1, <2>5
      <4> QED
        BY <2>11, <2>12, <4>1, <4>2 DEF SgwRow
    <3> QED
      BY <3>4
  <2>14. PgwRow(k)'
    <3>1. ~Linked(k) /\ ~Linked(k)' /\ \A S : POn(k, S)' <=> POn(k, S)
      BY <1>t, <2>5, <2>11, <2>12 DEF Linked, POn, pw
    <3> QED
      BY <1>t, <2>5, <3>1 DEF PgwRow
  <2>15. Bearer(k)'
    BY <2>11 DEF Bearer
  <2>16. SessInv'
    BY <1>t, <2>1, <2>5, <2>6, <2>7, <2>8, <2>9, <2>10, <2>13, <2>14, <2>15, SgwFrame
  <2> QED
    BY <1>t, <2>1, <2>6, <2>7, <2>10, <2>16, HoUnconcerned DEF Unconcerned
<1>2. CASE SgwCreateItf(SgwT)
  <2>1. PICK itf \in {"s1", "s5"} :
          /\ th.pc = (IF itf = "s1" THEN "add_s1" ELSE "add_s5")
          /\ sgw_id' = [sgw_id EXCEPT ![itf][th.teid] = th.imsi]
          /\ Goto(SgwT, IF itf = "s1" THEN "add_s5" ELSE "init", th.imsi, th.teid)
          /\ UNCHANGED <<gtpVars, sgw_ctx, sgw_ho, sgw_up, s5port>>
    BY <1>2 DEF SgwCreateItf, update_itfid, At, Continue, th
  <2>2. PICK n \in UEs :
        /\ n = th.imsi /\ n \in Conn /\ mme_w[n].pc = "create" /\ mme_w[n].guti = n
        /\ Served(n) /\ Asks(n) /\ ~Replied(n) /\ th.teid = n /\ ~Present(n)
        /\ ran[n].pc = "eps"
    BY <1>w, <2>1 DEF CreatePc
  <2>3. /\ th'.pc = (IF itf = "s1" THEN "add_s5" ELSE "init") /\ th'.req = th.req
        /\ th'.imsi = n /\ th'.teid = n
    BY <1>t, <2>1, <2>2, ThreadGoes
  <2>4. UNCHANGED <<s11, s11r, s5, s5r>>
    BY <2>1 DEF gtpVars
  <2>5. Exchange11' /\ \A e \in Conn : Replied(e)' <=> Replied(e)
    <3>1. th'.pc \in WorkOf(mme_w[n].pc)
      BY <2>2, <2>3 DEF WorkOf, CreatePc
    <3> QED
      BY <1>t, <2>2, <2>3, <2>4, <3>1, GatewayWorks
  <2>6. Exchange5'
    BY <1>t, <2>1, <2>3, <2>4, SgwPlain DEF Asking5
  <2>7. /\ sgw_id'[itf][n] = n
        /\ \A j \in Itf, y \in Teid : j # itf \/ y # n => sgw_id'[j][y] = sgw_id[j][y]
    <3>1. sgw_id' = [sgw_id EXCEPT ![itf][n] = n] /\ itf \in Itf /\ n \in Teid
      BY <1>t, <2>1, <2>2 DEF Itf
    <3> QED
      BY <1>y, <3>1
  <2>8. SgwExtra' /\ \A x \in Teid \ UEs : sgw_id'["s1"][x] = sgw_id["s1"][x]
    <3>1. \A j \in Itf, x \in Teid \ UEs : sgw_id'[j][x] = sgw_id[j][x]
      BY <2>2, <2>7
    <3> QED
      BY <1>t, <3>1 DEF SgwExtra, Itf
  <2>9. ~Present(n)' /\ Unbound(n)'
    BY <1>t, <2>2, <2>3, <2>5 DEF Present, Unbound
  <2>10. /\ ~On(n, {"wait_create"} \cup Tail11) /\ ~On(n, {"wait_create"} \cup Tail11)'
         /\ ~On(n, Tail11) /\ ~On(n, Tail11)'
         /\ ~On(n, {"wait_create"}) /\ ~On(n, {"wait_create"})'
    BY <1>t, <2>1, <2>2, <2>3 DEF On, Tail11
  <2>11. SgwRow(n)'
    <3>1. \A j \in Itf : Entry(j, n) <=> j = "s11" \/ (j = "s1" /\ itf = "s5")
      BY <2>1, <2>2 DEF Entry, On, Itf
    <3>2. \A j \in Itf : Entry(j, n)' <=> j \in {"s11", "s1"} \/ itf = "s5"
      BY <2>3, <2>9 DEF Entry, On, Itf
    <3>3. \A j \in Itf : sgw_id[j][n] = IF Entry(j, n) THEN n ELSE 0
      BY <1>t, <2>2 DEF SgwRow
    <3>4. \A j \in Itf : sgw_id'[j][n] = IF Entry(j, n)' THEN n ELSE 0
      BY <1>t, <2>2, <2>7, <3>1, <3>2, <3>3 DEF Itf
    <3> QED
      BY <1>t, <2>1, <2>2, <2>9, <2>10, <3>4 DEF SgwRow
  <2>12. PgwRow(n)'
    <3>1. ~Linked(n) /\ ~Linked(n)' /\ \A S : POn(n, S)' <=> POn(n, S)
      BY <1>t, <2>2, <2>3, <2>9, <2>10 DEF Linked, POn, pw
    <3> QED
      BY <1>t, <2>2, <3>1 DEF PgwRow
  <2>13. Bearer(n)'
    BY <2>3, <2>9 DEF Bearer
  <2>14. SessInv'
    BY <1>t, <2>1, <2>2, <2>3, <2>5, <2>6, <2>7, <2>8, <2>11, <2>12, <2>13, SgwFrame
  <2> QED
    BY <1>t, <2>1, <2>3, <2>5, <2>8, <2>14, HoUnconcerned DEF Unconcerned
<1>3. CASE SgwCreateCtx(SgwT)
  <2>1. /\ th.pc = "init" /\ Goto(SgwT, "wait_create", th.imsi, th.teid)
        /\ sgw_ctx' = [sgw_ctx EXCEPT ![th.imsi].in = TRUE, ![th.imsi].teid = th.teid]
        /\ AskPgw(SgwT, "create", th.teid, th.imsi)
        /\ UNCHANGED <<s11, s11r, s5r, sgw_id, sgw_ho, sgw_up, s5port>>
    BY <1>3 DEF SgwCreateCtx, At, Continue, th
  <2>2. PICK n \in UEs :
        /\ n = th.imsi /\ n \in Conn /\ mme_w[n].pc = "create" /\ mme_w[n].guti = n
        /\ Served(n) /\ Asks(n) /\ ~Replied(n) /\ th.teid = n /\ ~Present(n)
        /\ ran[n].pc = "eps"
    BY <1>w, <2>1 DEF CreatePc
  <2>3. /\ th'.pc = "wait_create" /\ th'.req = th.req /\ th'.imsi = n /\ th'.teid = n
    BY <1>t, <2>1, <2>2, ThreadGoes
  <2>5. Exchange11' /\ \A e \in Conn : Replied(e)' <=> Replied(e)
    <3>1. th'.pc \in WorkOf(mme_w[n].pc)
      BY <2>2, <2>3 DEF WorkOf, CreatePc
    <3> QED
      BY <1>t, <2>1, <2>2, <2>3, <3>1, GatewayWorks
  <2>6. Exchange5'
    <3>1. s5 = {} /\ s5r = {} /\ pw.pc \in {"idle"} \cup Tail5
      BY <1>t, <2>1, QuietS5 DEF Asking5
    <3>2. s5' = {Question5'} /\ s5r' = {} /\ Asking5'
      BY <1>y, <2>1, <2>2, <2>3, <3>1 DEF AskPgw, S5Socket, Question5, Sock5, Asking5
    <3> QED
      BY <1>t, <3>1, <3>2, AsksS5
  <2>8. SgwExtra'
    BY <1>t, <2>1 DEF SgwExtra
  <2>9. ~Present(n)' /\ Unbound(n)'
    BY <1>t, <2>2, <2>3, <2>5 DEF Present, Unbound
  <2>10. /\ ~On(n, {"wait_create"} \cup Tail11) /\ On(n, {"wait_create"} \cup Tail11)'
         /\ ~On(n, Tail11) /\ ~On(n, Tail11)'
         /\ ~On(n, {"wait_create"}) /\ ~On(n, {"wait_detach"})'
    BY <1>t, <2>1, <2>2, <2>3 DEF On, Tail11
  <2>7. /\ sgw_ctx'[n].in /\ sgw_ctx'[n].teid = n /\ sgw_ctx'[n].s5 = 0
        /\ \A m \in UEs \ {n} : sgw_ctx'[m] = sgw_ctx[m]
    <3>1. sgw_ctx[n].s5 = 0
      BY <1>t, <2>2, <2>10 DEF SgwRow
    <3> QED
      BY <1>t, <1>y, <2>1, <2>2, <3>1 DEF Ctx
  <2>11. SgwRow(n)'
    <3>1. \A j \in Itf : Entry(j, n) /\ Entry(j, n)'
      BY <2>1, <2>2, <2>3 DEF Entry, On
    <3>2. \A j \in Itf : sgw_id'[j][n] = n
      BY <1>t, <2>1, <2>2, <3>1 DEF SgwRow
    <3> QED
      BY <2>2, <2>7, <2>9, <2>10, <3>1, <3>2 DEF SgwRow
  <2>12. PgwRow(n)'
    <3>1. s5r = {}
      BY <1>t, <2>1, QuietS5 DEF Asking5
    <3>2. ~Linked(n) /\ ~Linked(n)' /\ \A S : POn(n, S)' <=> POn(n, S)
      BY <1>t, <2>1, <2>2, <2>9, <2>10, <3>1 DEF Linked, POn, pw
    <3> QED
      BY <1>t, <2>2, <3>2 DEF PgwRow
  <2>13. Bearer(n)'
    BY <2>3, <2>9 DEF Bearer
  <2>14. SessInv'
    BY <1>t, <2>1, <2>2, <2>3, <2>5, <2>6, <2>7, <2>8, <2>11, <2>12, <2>13, SgwFrame
  <2> QED
    BY <1>t, <2>1, <2>3, <2>5, <2>14, HoUnconcerned DEF Unconcerned
<1>4. CASE SgwCreateRsp(SgwT)
  <2>1. PICK r \in s5r :
          /\ th.pc = "wait_create" /\ Return(SgwT) /\ s5r' = s5r \ {r}
          /\ sgw_ctx' = [sgw_ctx EXCEPT ![th.imsi].in = TRUE, ![th.imsi].s5 = r.teid]
          /\ Answer(SgwT, TRUE, th.teid, r.ip)
          /\ UNCHANGED <<s11, s5, sgw_id, sgw_ho, sgw_up>>
    BY <1>4 DEF SgwCreateRsp, SgwCreateFinish, PgwAnswers, At, th
  <2>2. PICK n \in UEs :
        /\ n = th.imsi /\ n \in Conn /\ mme_w[n].pc = "create" /\ mme_w[n].guti = n
        /\ Served(n) /\ Asks(n) /\ ~Replied(n) /\ th.teid = n /\ ~Present(n)
        /\ ran[n].pc = "eps" /\ down[n] = <<>>
    BY <1>w, <2>1 DEF CreatePc
  <2>3. th'.pc = "idle" /\ th'.imsi = 0
    BY <1>t, <2>1, ThreadReturns
  <2>4. r.teid = n /\ r.ip = n /\ s5' = {} /\ s5r' = {} /\ pw.pc = "idle"
    <3>1. r = Reply5 /\ \A q \in s5r : q = Reply5
      BY <1>t DEF Exchange5
    <3>2. s5 = {} /\ pw.pc = "idle"
      BY <1>t, <2>1 DEF Exchange5
    <3> QED
      BY <2>1, <2>2, <3>1, <3>2 DEF Reply5
  <2>5. Exchange11' /\ Replied(n)' /\ \A e \in Conn \ {n} : Replied(e)' <=> Replied(e)
    <3>1. th.req = Question(n)
      BY <1>t, <2>2 DEF Exchange11, Line11
    <3>2. Reply(n) = [op |-> "create", sock |-> Sock11(n), ok |-> TRUE, teid |-> n, ip |-> n]
      BY <2>2 DEF Reply
    <3>3. th.req.op = "create" /\ th.req.sock = Sock11(n)
      BY <2>2, <3>1 DEF Question
    <3>4. s11r' = s11r \cup {Reply(n)}
      BY <2>1, <2>2, <2>4, <3>2, <3>3 DEF Answer, th
    <3> QED
      BY <1>t, <2>1, <2>2, <2>3, <3>4, GatewayAnswers
  <2>6. Exchange5'
    BY <1>t, <2>4, StillQuietS5
  <2>8. SgwExtra'
    BY <1>t, <2>1 DEF SgwExtra
  <2>9. Present(n)' /\ Unbound(n)'
    BY <1>t, <2>2, <2>5 DEF Present, Unbound
  <2>10. /\ On(n, {"wait_create"} \cup Tail11) /\ ~On(n, {"wait_create"} \cup Tail11)'
         /\ ~On(n, Tail11) /\ ~On(n, Tail11)'
         /\ On(n, {"wait_create"}) /\ ~On(n, {"wait_create"})' /\ ~On(n, {"wait_detach"})'
    BY <1>t, <2>1, <2>2, <2>3 DEF On, Tail11
  <2>7. /\ sgw_ctx'[n].in /\ sgw_ctx'[n].teid = n /\ sgw_ctx'[n].s5 = n
        /\ \A m \in UEs \ {n} : sgw_ctx'[m] = sgw_ctx[m]
    <3>1. sgw_ctx[n].teid = n
      BY <1>t, <2>2, <2>10 DEF SgwRow
    <3> QED
      BY <1>t, <1>y, <2>1, <2>2, <2>4, <3>1 DEF Ctx
  <2>11. SgwRow(n)'
    <3>1. \A j \in Itf : Entry(j, n) /\ Entry(j, n)'
      BY <2>1, <2>2, <2>9 DEF Entry, On
    <3>2. \A j \in Itf : sgw_id'[j][n] = n
      BY <1>t, <2>1, <2>2, <3>1 DEF SgwRow
    <3> QED
      BY <2>2, <2>7, <2>9, <2>10, <3>1, <3>2 DEF SgwRow
  <2>12. PgwRow(n)'
    <3>1. Linked(n) /\ Linked(n)' /\ \A S : POn(n, S)' <=> POn(n, S)
      BY <1>t, <2>2, <2>9, <2>10 DEF Linked, POn, pw
    <3>2. ~POn(n, Tail5)'
      BY <1>t, <2>2, <3>1 DEF PgwRow
    <3> QED
      BY <1>t, <2>2, <3>1, <3>2 DEF PgwRow
  <2>13. Bearer(n)'
    BY <2>3, <2>9 DEF Bearer
  <2>14. SessInv'
    BY <1>t, <2>1, <2>2, <2>3, <2>5, <2>6, <2>7, <2>8, <2>11, <2>12, <2>13, SgwFrame
  <2> QED
    BY <1>t, <2>1, <2>2, <2>3, <2>5, <2>14, HoUnconcerned DEF Unconcerned
<1>5. CASE SgwCreateTimeout(SgwT)
  BY <1>5, <1>y DEF SgwCreateTimeout, PgwTimeout, Orderly
<1> QED
  BY <1>1, <1>2, <1>3, <1>4, <1>5
-----------------------------------------------------------------------------
(* The handlers that look a session up and neither make nor remove it.     *)
LEMMA SgwLooks ==
  ASSUME Orderly, LockInv, SessInv, HoInv, SgwProcess(SgwT), sgw_up,
         SgwLookup(SgwT) \/ SgwModifyBearer(SgwT) \/ SgwExit(SgwT)
  PROVE  SessInv' /\ HoInv' /\ UNCHANGED sgw_up
<1>t. /\ EpcTypeInv /\ Exchange11 /\ Exchange5 /\ SgwExtra
      /\ UNCHANGED <<up, down, ran, mme_w, mme_ctx, pgw_s5, pgw_sgi, pgw_ctx, pgw_th>>
      /\ \A m \in UEs : SgwRow(m) /\ PgwRow(m) /\ Bearer(m)
      /\ \A m \in UEs : m # 0 /\ m \in Teid /\ m \in Imsi /\ m \in Conn
  BY SessTypes DEF LockInv, SessInv, SgwProcess, sctpVars, ranOwn, mmeOwn, pgwOwn
<1>y. sgw_id \in [Itf -> [Teid -> Imsi]] /\ sgw_ctx \in [Imsi -> Ctx]
  BY <1>t, SgwTypes
<1>1. CASE SgwLookup(SgwT)
  <2>1. PICK d \in s11 :
          /\ d.op \in LookupOp /\ Take(SgwT, d, d.op, sgw_id["s11"][d.teid], 0)
          /\ UNCHANGED <<s11r, s5, s5r, sgw_id, sgw_ctx, sgw_ho, sgw_up, s5port>>
    BY <1>1 DEF SgwLookup, get_imsi
  <2>2. PICK c \in Conn : d.sock = Sock11(c)
    BY <1>t DEF Exchange11
  <2>3. Asks(c) /\ d = Question(c) /\ ~Replied(c)
    BY <1>t, <2>2 DEF Exchange11, Line11
  <2>4. mme_w[c].pc = d.op /\ d.op # "create" /\ d.op \in S11Op
    BY <2>1, <2>3 DEF Question, LookupOp
  <2>5. PICK k \in UEs :
        /\ k = mme_w[c].guti /\ d.teid = k /\ Present(k)
    BY <2>3, <2>4, <1>t, Subjects, SubjectPresent DEF Question
  <2>6. sgw_id["s11"][k] = k
    BY <1>t, <2>5 DEF SgwRow, Entry, Itf
  <2>7. /\ th.pc = "idle" /\ th.imsi = 0 /\ s11' = s11 \ {d} /\ th'.req = d
        /\ th'.pc = d.op /\ th'.imsi = k
    BY <1>t, <2>1, <2>5, <2>6, ThreadTakes
  <2>8. Exchange11' /\ \A e \in Conn : Replied(e)' <=> Replied(e)
    <3>1. th'.pc \in WorkOf(d.op)
      BY <2>4, <2>7 DEF WorkOf, S11Op
    <3>2. th'.pc \notin CreatePc \cup {"wait_detach", "ho_add"}
      BY <2>4, <2>7 DEF S11Op, CreatePc
    <3>3. th'.imsi = mme_w[c].guti /\ UNCHANGED <<s11r, mme_w>>
      BY <1>t, <2>1, <2>5, <2>7
    <3>4. /\ Exchange11 /\ d = Question(c) /\ th.pc = "idle" /\ s11' = s11 \ {d}
          /\ th'.req = d
      BY <1>t, <2>3, <2>7
    <3> QED
      BY <3>1, <3>2, <3>3, <3>4, GatewayTakes
  <2>9. ~Asking5 /\ ~Asking5'
    BY <2>4, <2>7 DEF Asking5, S11Op
  <2>10. Exchange5'
    BY <1>t, <2>1, <2>9, SgwPlain
  <2>11. SgwExtra'
    BY <1>t, <2>1 DEF SgwExtra
  <2>12. th.pc \notin CreatePc \cup DetachPc /\ th'.pc \notin CreatePc \cup DetachPc
    BY <2>4, <2>7 DEF S11Op, CreatePc, DetachPc
  <2>13. \A m \in UEs : (Present(m)' <=> Present(m)) /\ (Unbound(m)' <=> Unbound(m))
    BY <1>t, <2>8 DEF Present, Unbound
  <2>14. \A m \in UEs : Bearer(m)'
    BY <1>t, <2>1, <2>13 DEF Bearer
  <2>15. SessInv'
    BY <2>1, <2>8, <2>10, <2>11, <2>12, <2>13, <2>14, SgwAside
  <2>16. Unconcerned
    BY <2>1, <2>4, <2>7, <2>8 DEF Unconcerned, S11Op
  <2> QED
    BY <1>t, <2>1, <2>15, <2>16, HoUnconcerned
<1>2. CASE SgwModifyBearer(SgwT)
  <2>1. /\ th.pc = "modify" /\ Return(SgwT) /\ Answer(SgwT, TRUE, 0, 0)
        /\ sgw_ctx' = [sgw_ctx EXCEPT ![th.imsi].in = TRUE, ![th.imsi].enb = TRUE,
                                      ![th.imsi].dl = th.req.arg]
        /\ UNCHANGED <<s11, s5, s5r, sgw_id, sgw_ho, sgw_up, s5port>>
    BY <1>2 DEF SgwModifyBearer, At, th
  <2>2. Working
    BY <2>1 DEF Working, Tail11
  <2>3. PICK k \in UEs :
          /\ k = th.imsi /\ Served(k) /\ Asks(k) /\ ~Replied(k) /\ th.req = Question(k)
          /\ mme_w[k].guti = k /\ mme_w[k].pc = "modify" /\ Present(k)
    BY <1>t, <2>1, <2>2, AtWork
  <2>4. th.req.arg = k /\ th.req.op = "modify" /\ th.req.sock = Sock11(k)
    BY <2>3 DEF Question
  <2>5. th'.pc = "idle" /\ th'.imsi = 0
    BY <1>t, <2>1, ThreadReturns
  <2>6. Exchange11' /\ Replied(k)' /\ \A e \in Conn \ {k} : Replied(e)' <=> Replied(e)
    <3>1. Reply(k) = [op |-> "modify", sock |-> Sock11(k), ok |-> TRUE, teid |-> 0, ip |-> 0]
      BY <2>3 DEF Reply
    <3>2. s11r' = s11r \cup {Reply(k)}
      BY <2>1, <2>4, <3>1 DEF Answer, th
    <3> QED
      BY <1>t, <2>1, <2>3, <2>5, <3>2, GatewayAnswers
  <2>7. ~Asking5 /\ ~Asking5'
    BY <2>1, <2>5 DEF Asking5
  <2>8. Exchange5'
    BY <1>t, <2>1, <2>7, SgwPlain
  <2>9. SgwExtra'
    BY <1>t, <2>1 DEF SgwExtra
  <2>10. th.pc \notin CreatePc \cup DetachPc /\ th'.pc \notin CreatePc \cup DetachPc
    BY <2>1, <2>5 DEF CreatePc, DetachPc
  <2>11. \A m \in UEs \ {k} : (Present(m)' <=> Present(m)) /\ (Unbound(m)' <=> Unbound(m))
    BY <1>t, <2>6 DEF Present, Unbound
  <2>12. Present(k)'
    <3>1. ran[k].pc \in {"attached", "bye", "ho", "end"} /\ down[k] = <<>>
      BY <1>t, <2>3, Subjects
    <3> QED
      BY <1>t, <2>3, <3>1 DEF Present
  <2>13. /\ sgw_ctx[k].in
         /\ \A m \in UEs \ {k} : sgw_ctx'[m] = sgw_ctx[m]
         /\ sgw_ctx'[k].in /\ sgw_ctx'[k].teid = sgw_ctx[k].teid
         /\ sgw_ctx'[k].s5 = sgw_ctx[k].s5 /\ sgw_ctx'[k].enb /\ sgw_ctx'[k].dl = k
    <3>1. sgw_ctx[k].in
      BY <1>t, <2>3 DEF SgwRow
    <3> QED
      BY <1>t, <1>y, <2>1, <2>3, <2>4, <3>1 DEF Ctx
  <2>14. \A m \in UEs : (Present(m)' <=> Present(m)) /\ Bearer(m)'
    BY <1>t, <2>3, <2>11, <2>12, <2>13 DEF Bearer
  <2>15. \A m \in UEs : /\ (sgw_ctx'[m].in <=> sgw_ctx[m].in)
                        /\ sgw_ctx'[m].teid = sgw_ctx[m].teid
                        /\ sgw_ctx'[m].s5 = sgw_ctx[m].s5
                        /\ ~sgw_ctx'[m].in => sgw_ctx'[m] = sgw_ctx[m]
    BY <2>13
  <2>16. SessInv'
    BY <2>1, <2>6, <2>8, <2>9, <2>10, <2>14, <2>15, SgwAside
  <2>17. Unconcerned
    BY <2>1, <2>3, <2>5, <2>6 DEF Unconcerned
  <2> QED
    BY <1>t, <2>1, <2>16, <2>17, HoUnconcerned
(* The session a request names is there.                                   *)
<1>3. CASE SgwExit(SgwT)
  <2>1. \/ th.pc = "modify" /\ th.imsi = 0
        \/ th.pc = "detach" /\ ~HasPgw(th.imsi)
    BY <1>3 DEF SgwExit, At, th
  <2>2. Working
    BY <2>1 DEF Working, Tail11
  <2>3. th.imsi \in UEs /\ (th.pc = "detach" => Present(th.imsi))
    BY <1>t, <2>2, AtWork
  <2>4. PICK k \in UEs : k = th.imsi
    BY <2>3
  <2>5. th.pc = "detach" => HasPgw(k)
    BY <1>t, <2>3, <2>4 DEF HasPgw, SgwRow
  <2> QED
    BY <1>t, <2>1, <2>4, <2>5
<1> QED
  BY <1>1, <1>2, <1>3
-----------------------------------------------------------------------------
(* The handover in the serving gateway.                                    *)

LEMMA HoSameStage ==
  ASSUME HoInv, HoUE \in UEs, NEW s \in 0 .. 14, HoAt(s), SgwProcess(SgwT), HoSgw(s)',
         \A n \in UEs \ {HoUE} : sgw_ho'[n] = sgw_ho[n]
  PROVE  HoInv'
<1>1. UNCHANGED <<up, down, toRan, ran, ranS, ranT, mme_w>>
  BY DEF SgwProcess, sctpVars, ranOwn, mmeOwn
<1>2. HoToRan(s)' /\ HoUp(s)' /\ HoWorker(s)' /\ HoRan(s)'
  BY <1>1 DEF HoAt, HoToRan, HoUp, HoWorker, HoRan, HoId
<1> QED
  BY <1>1, <1>2 DEF HoInv, HoAt

LEMMA SgwHandsOver ==
  ASSUME Orderly, LockInv, SessInv, HoInv, SgwProcess(SgwT),
         \/ SgwHoSetup(SgwT) \/ SgwHoAdd(SgwT)
         \/ SgwHoCompletion(SgwT) \/ SgwHoErase(SgwT) \/ SgwTeardown(SgwT)
  PROVE  SessInv' /\ HoInv' /\ UNCHANGED sgw_up
<1> DEFINE k == HoUE
<1>t. /\ EpcTypeInv /\ Exchange11 /\ Exchange5 /\ SgwExtra
      /\ UNCHANGED <<up, down, ran, mme_w, mme_ctx, pgw_s5, pgw_sgi, pgw_ctx, pgw_th>>
      /\ \A m \in UEs : SgwRow(m) /\ PgwRow(m) /\ Bearer(m)
      /\ \A m \in UEs : m # 0 /\ m \in Teid /\ m \in Imsi /\ m \in Conn /\ m \in Nat
      /\ 0 \in Conn
  BY SessTypes, MmeIdentifiers DEF LockInv, SessInv, SgwProcess, sctpVars, ranOwn, mmeOwn, pgwOwn
<1>y. /\ sgw_id \in [Itf -> [Teid -> Imsi]] /\ sgw_ctx \in [Imsi -> Ctx]
      /\ sgw_ho \in [Imsi -> HoCtx]
  BY <1>t, SgwTypes
<1>p. th.pc \in {"setup", "ho_add", "complete", "ho_erase", "teardown"}
  BY DEF SgwHoSetup, SgwHoAdd, SgwHoCompletion, SgwHoErase, SgwTeardown, At, th
<1>w. PICK c \in Conn :
        /\ Served(c) /\ Asks(c) /\ ~Replied(c) /\ th.req = Question(c)
        /\ mme_w[c].guti = k /\ th.imsi = k /\ k \in UEs /\ Present(k)
        /\ th.pc = "ho_add" => th.teid = k
        /\ th.pc \in {"setup", "ho_add"} => mme_w[c].pc = "setup" /\ c = 0
        /\ th.pc \in {"complete", "ho_erase"} => mme_w[c].pc = "complete" /\ c = 0
        /\ th.pc = "teardown" => mme_w[c].pc = "teardown" /\ c = k
  <2>1. Working
    BY <1>p DEF Working, Tail11
  <2> QED
    BY <1>p, <1>t, <2>1, AtWork
<1>o. /\ th.req.op = mme_w[c].pc /\ th.req.sock = Sock11(c)
      /\ th.pc = "setup" => th.req.arg = k
      /\ th.pc = "teardown" => th.req.arg = k + 1
  BY <1>w DEF Question
<1>s. PICK s \in 0 .. 14 : HoAt(s)
  BY <1>w DEF HoInv
<1>a. /\ th.pc \in {"setup", "ho_add"} => s = 6
      /\ th.pc \in {"complete", "ho_erase"} => s = 10
      /\ th.pc = "teardown" => s = 13
  <2>1. th.pc \in {"setup", "ho_add", "complete", "ho_erase"} => s \in {6, 10}
    BY <1>w, <1>s DEF HoAt, HoWorker
  <2>2. /\ s = 6 => mme_w[0].pc = "setup"
        /\ s = 10 => mme_w[0].pc = "complete"
    BY <1>s DEF HoAt, HoWorker
  <2>3. th.pc = "teardown" => s = 13
    BY <1>w, <1>s DEF HoAt, HoWorker
  <2> QED
    BY <1>w, <2>1, <2>2, <2>3
<1>e. /\ k + 1 \in Teid /\ k + 1 \notin UEs /\ k + 1 # 0
  BY <1>t, <1>w DEF Orderly, Teid, Imsi
<1>c. sgw_ctx[k].in /\ sgw_ctx[k].teid = k
  BY <1>t, <1>w DEF SgwRow
<1>f. ~Unbound(k)
  <2>1. s > 1 /\ s # 12 /\ s \in Nat
    BY <1>p, <1>a
  <2>2. up[k] = <<>> /\ mme_w[k].pc # "modify"
    BY <1>s, <2>1 DEF HoAt, HoUp, HoWorker
  <2>3. ran[k].pc # "eps"
    BY <1>s, <2>1 DEF HoAt, HoRan
  <2> QED
    BY <2>2, <2>3 DEF Unbound
(* What the step leaves to show.                                           *)
<1>q. ASSUME Exchange11', th'.pc \in {"idle", "ho_add", "ho_erase"}, UNCHANGED <<s5, s5r>>,
             \A e \in Conn \ {c} : Replied(e)' <=> Replied(e),
             \A itf \in Itf, x \in Teid : (itf = "s1" /\ x = k + 1) \/ sgw_id'[itf][x] = sgw_id[itf][x],
             sgw_id'["s1"][k + 1] \in {0, k},
             \A m \in UEs : /\ (sgw_ctx'[m].in <=> sgw_ctx[m].in)
                            /\ sgw_ctx'[m].teid = sgw_ctx[m].teid
                            /\ sgw_ctx'[m].s5 = sgw_ctx[m].s5
                            /\ sgw_ctx[m].enb => sgw_ctx'[m].enb
                            /\ m = k \/ sgw_ctx'[m].dl = sgw_ctx[m].dl
                            /\ ~sgw_ctx'[m].in => sgw_ctx'[m] = sgw_ctx[m],
             sgw_ctx[k].dl = k => sgw_ctx'[k].dl = k
      PROVE  SessInv'
  <2>1. ~Asking5 /\ ~Asking5'
    BY <1>p, <1>q DEF Asking5
  <2>2. Exchange5'
    BY <1>q, <1>t, <2>1, SgwPlain
  <2>3. SgwExtra'
    <3>1. \A itf \in Itf, x \in Teid \ UEs : sgw_id'[itf][x] # 0 =>
            itf = "s1" /\ HoUE \in UEs /\ x = HoUE + 1 /\ sgw_id'[itf][x] = HoUE
      BY <1>q, <1>t, <1>w DEF SgwExtra
    <3> QED
      BY <3>1 DEF SgwExtra
  <2>4. th.pc \notin CreatePc \cup DetachPc /\ th'.pc \notin CreatePc \cup DetachPc
    BY <1>p, <1>q DEF CreatePc, DetachPc
  <2>5. \A m \in UEs : (Present(m)' <=> Present(m)) /\ (Unbound(m)' <=> Unbound(m))
    <3>1. ASSUME NEW m \in UEs, m # c
          PROVE  (Present(m)' <=> Present(m)) /\ (Unbound(m)' <=> Unbound(m))
      <4>1. Replied(m)' <=> Replied(m)
        BY <1>q, <1>t, <3>1
      <4> QED
        BY <1>t, <4>1 DEF Present, Unbound
    <3>2. ASSUME c \in UEs
          PROVE  (Present(c)' <=> Present(c)) /\ (Unbound(c)' <=> Unbound(c))
      <4>1. mme_w[c].pc = "teardown" /\ c = k
        BY <1>p, <1>t, <1>w, <3>2
      <4>2. ran[c].pc # "eps"
        BY <1>f, <4>1 DEF Unbound
      <4> QED
        BY <1>t, <4>1, <4>2 DEF Present, Unbound
    <3> QED
      BY <3>1, <3>2
  <2>6. \A m \in UEs : Bearer(m)'
    <3>1. ASSUME NEW m \in UEs, Present(m), ~Unbound(m)
          PROVE  sgw_ctx'[m].enb /\ sgw_ctx'[m].dl = m
      <4>1. sgw_ctx[m].enb /\ sgw_ctx[m].dl = m
        BY <1>t, <3>1 DEF Bearer
      <4> QED
        BY <1>q, <4>1
    <3> QED
      BY <2>5, <3>1 DEF Bearer
  <2>7. \A itf \in Itf, m \in UEs : sgw_id'[itf][m] = sgw_id[itf][m]
    BY <1>q, <1>t, <1>e
  <2> QED
    BY <1>q, <2>2, <2>3, <2>4, <2>5, <2>6, <2>7, SgwAside
<1>1. CASE SgwHoSetup(SgwT)
  <2>1. /\ th.pc = "setup" /\ Goto(SgwT, "ho_add", th.imsi, sgw_ctx[th.imsi].teid)
        /\ sgw_ho' = [sgw_ho EXCEPT ![th.imsi] = [in |-> TRUE, dl |-> th.req.arg]]
        /\ sgw_ctx' = [sgw_ctx EXCEPT ![th.imsi].in = TRUE]
        /\ UNCHANGED <<s11, s11r, s5, s5r, sgw_id, sgw_up>>
    BY <1>1 DEF SgwHoSetup, At, th, Touch, gtpVars
  <2>2. th'.pc = "ho_add" /\ th'.req = th.req /\ th'.imsi = k /\ th'.teid = k
    BY <1>t, <1>w, <1>c, <2>1, ThreadGoes
  <2>3. /\ Exchange11' /\ Served(c)' /\ \A e \in Conn : Replied(e)' <=> Replied(e)
    <3>1. th'.pc \in WorkOf(mme_w[c].pc)
      BY <1>w, <2>1, <2>2 DEF WorkOf
    <3> QED
      BY <1>t, <1>w, <2>1, <2>2, <3>1, GatewayWorks
  <2>4. /\ \A m \in UEs \ {k} : sgw_ctx'[m] = sgw_ctx[m]
        /\ sgw_ctx'[k].in /\ sgw_ctx'[k].teid = sgw_ctx[k].teid
        /\ sgw_ctx'[k].s5 = sgw_ctx[k].s5 /\ (sgw_ctx'[k].enb <=> sgw_ctx[k].enb)
        /\ sgw_ctx'[k].dl = sgw_ctx[k].dl
    BY <1>t, <1>y, <1>w, <2>1 DEF Ctx
  <2>5. sgw_id["s1"][k + 1] = 0
    BY <1>a, <1>s, <1>w, <2>1 DEF HoAt, HoSgw
  <2>6. SessInv'
    BY <1>q, <1>c, <2>1, <2>2, <2>3, <2>4, <2>5
  <2>7. /\ sgw_ho'[k] = [in |-> TRUE, dl |-> k]
        /\ \A n \in UEs \ {k} : sgw_ho'[n] = sgw_ho[n]
    BY <1>t, <1>y, <1>w, <1>o, <2>1
  <2>8. HoSgw(s)'
    <3>1. s = 6 /\ On(k, {"ho_add"})' /\ ~Replied(0)'
      BY <1>a, <1>w, <1>t, <2>1, <2>2, <2>3 DEF On
    <3> QED
      BY <2>1, <2>5, <2>7, <3>1 DEF HoSgw
  <2> QED
    BY <1>s, <1>w, <2>1, <2>6, <2>7, <2>8, HoSameStage
<1>2. CASE SgwHoAdd(SgwT)
  <2>1. /\ th.pc = "ho_add" /\ Return(SgwT)
        /\ sgw_id' = [sgw_id EXCEPT !["s1"][IndirectTeid(th.teid)] = th.imsi]
        /\ Answer(SgwT, TRUE, IndirectTeid(th.teid), 0)
        /\ UNCHANGED <<s11, s5, s5r, sgw_ctx, sgw_ho, sgw_up>>
    BY <1>2 DEF SgwHoAdd, At, th, update_itfid
  <2>2. th'.pc = "idle" /\ th'.imsi = 0
    BY <1>t, <2>1, ThreadReturns
  <2>3. th.teid = k /\ IndirectTeid(th.teid) = k + 1
    BY <1>w, <2>1 DEF IndirectTeid
  <2>4. Exchange11' /\ Replied(c)' /\ \A e \in Conn \ {c} : Replied(e)' <=> Replied(e)
    <3>1. Reply(c) = [op |-> "setup", sock |-> Sock11(c), ok |-> TRUE, teid |-> k + 1, ip |-> 0]
      BY <1>w, <2>1 DEF Reply
    <3>2. s11r' = s11r \cup {Reply(c)}
      BY <1>w, <1>o, <2>1, <2>3, <3>1 DEF Answer, th
    <3> QED
      BY <1>t, <1>w, <2>1, <2>2, <3>2, GatewayAnswers
  <2>5. /\ sgw_id'["s1"][k + 1] = k
        /\ \A itf \in Itf, x \in Teid : (itf = "s1" /\ x = k + 1) \/ sgw_id'[itf][x] = sgw_id[itf][x]
    <3>1. sgw_id' = [sgw_id EXCEPT !["s1"][k + 1] = k] /\ "s1" \in Itf
      BY <1>w, <2>1, <2>3 DEF Itf
    <3> QED
      BY <1>y, <1>e, <3>1
  <2>6. SessInv'
    BY <1>q, <2>1, <2>2, <2>4, <2>5
  <2>7. HoSgw(s)'
    <3>1. s = 6 /\ On(k, {"ho_add"}) /\ Replied(0)'
      BY <1>a, <1>w, <2>1, <2>4 DEF On
    <3>2. sgw_ho'[k] = [in |-> TRUE, dl |-> k]
      BY <1>s, <2>1, <3>1 DEF HoAt, HoSgw
    <3> QED
      BY <2>5, <3>1, <3>2 DEF HoSgw
  <2> QED
    BY <1>s, <1>w, <2>1, <2>6, <2>7, HoSameStage
<1>3. CASE SgwHoCompletion(SgwT)
  <2>1. /\ th.pc = "complete" /\ Goto(SgwT, "ho_erase", th.imsi, th.teid)
        /\ sgw_ho' = [sgw_ho EXCEPT ![th.imsi].in = TRUE]
        /\ sgw_ctx' = [sgw_ctx EXCEPT ![th.imsi].in = TRUE, ![th.imsi].dl = sgw_ho[th.imsi].dl]
        /\ UNCHANGED <<s11, s11r, s5, s5r, sgw_id, sgw_up>>
    BY <1>3 DEF SgwHoCompletion, At, th, Continue, gtpVars
  <2>2. th'.pc = "ho_erase" /\ th'.req = th.req /\ th'.imsi = k
    BY <1>t, <1>w, <1>c, <2>1, ThreadGoes
  <2>3. /\ Exchange11' /\ Served(c)' /\ \A e \in Conn : Replied(e)' <=> Replied(e)
    <3>1. th'.pc \in WorkOf(mme_w[c].pc) /\ th'.pc \notin CreatePc \cup {"wait_detach", "ho_add"}
      BY <1>w, <2>1, <2>2 DEF WorkOf, CreatePc
    <3> QED
      BY <1>t, <1>w, <2>1, <2>2, <3>1, GatewayWorks
  <2>5. /\ s = 10 /\ sgw_ho[k] = [in |-> TRUE, dl |-> k] /\ sgw_id["s1"][k + 1] = k
        /\ ~Replied(0)
    BY <1>a, <1>s, <1>w, <2>1 DEF HoAt, HoSgw
  <2>4. /\ \A m \in UEs \ {k} : sgw_ctx'[m] = sgw_ctx[m]
        /\ sgw_ctx'[k].in /\ sgw_ctx'[k].teid = sgw_ctx[k].teid
        /\ sgw_ctx'[k].s5 = sgw_ctx[k].s5 /\ (sgw_ctx'[k].enb <=> sgw_ctx[k].enb)
        /\ sgw_ctx'[k].dl = k
    <3>1. sgw_ho[th.imsi].dl = k
      BY <1>w, <2>5
    <3> QED
      BY <1>t, <1>y, <1>w, <2>1, <3>1 DEF Ctx
  <2>6. SessInv'
    BY <1>q, <1>c, <2>1, <2>2, <2>3, <2>4, <2>5
  <2>7. /\ sgw_ho'[k] = [in |-> TRUE, dl |-> k]
        /\ \A n \in UEs \ {k} : sgw_ho'[n] = sgw_ho[n]
    <3>1. /\ sgw_ho'[k] = [sgw_ho[k] EXCEPT !.in = TRUE]
          /\ \A n \in UEs \ {k} : sgw_ho'[n] = sgw_ho[n]
      BY <1>t, <1>y, <1>w, <2>1
    <3>2. sgw_ho[k] \in HoCtx /\ sgw_ho[k].in = TRUE
      BY <1>t, <1>y, <1>w, <2>5
    <3>3. [sgw_ho[k] EXCEPT !.in = TRUE] = sgw_ho[k]
      BY <3>2 DEF HoCtx
    <3> QED
      BY <2>5, <3>1, <3>3
  <2>8. HoSgw(s)'
    <3>1. ~Replied(0)'
      BY <1>t, <2>3, <2>5
    <3> QED
      BY <2>1, <2>5, <2>7, <3>1 DEF HoSgw
  <2> QED
    BY <1>s, <1>w, <2>1, <2>6, <2>7, <2>8, HoSameStage
<1>4. CASE SgwHoErase(SgwT)
  <2>1. /\ th.pc = "ho_erase" /\ Return(SgwT) /\ Answer(SgwT, TRUE, 0, 0)
        /\ sgw_ho' = [sgw_ho EXCEPT ![th.imsi] = NoHo]
        /\ UNCHANGED <<s11, s5, s5r, sgw_id, sgw_ctx, sgw_up>>
    BY <1>4 DEF SgwHoErase, At, th
  <2>2. th'.pc = "idle" /\ th'.imsi = 0
    BY <1>t, <2>1, ThreadReturns
  <2>4. Exchange11' /\ Replied(c)' /\ \A e \in Conn \ {c} : Replied(e)' <=> Replied(e)
    <3>1. Reply(c) = [op |-> "complete", sock |-> Sock11(c), ok |-> TRUE, teid |-> 0, ip |-> 0]
      BY <1>w, <2>1 DEF Reply
    <3>2. s11r' = s11r \cup {Reply(c)}
      BY <1>w, <1>o, <2>1, <3>1 DEF Answer, th
    <3> QED
      BY <1>t, <1>w, <2>1, <2>2, <3>2, GatewayAnswers
  <2>5. s = 10 /\ Replied(0)' /\ sgw_id["s1"][k + 1] = k
    BY <1>a, <1>s, <1>w, <2>1, <2>4 DEF HoAt, HoSgw
  <2>6. SessInv'
    BY <1>q, <2>1, <2>2, <2>4, <2>5
  <2>7. sgw_ho'[k] = NoHo /\ \A n \in UEs \ {k} : sgw_ho'[n] = sgw_ho[n]
    BY <1>t, <1>y, <1>w, <2>1
  <2>8. HoSgw(s)'
    BY <2>1, <2>5, <2>7 DEF HoSgw
  <2> QED
    BY <1>s, <1>w, <2>1, <2>6, <2>7, <2>8, HoSameStage
<1>5. CASE SgwTeardown(SgwT)
  <2>1. /\ th.pc = "teardown" /\ Return(SgwT) /\ Answer(SgwT, TRUE, 0, 0)
        /\ sgw_ctx' = [sgw_ctx EXCEPT ![th.imsi].in = TRUE]
        /\ sgw_id' = [sgw_id EXCEPT !["s1"][th.req.arg] = 0]
        /\ UNCHANGED <<s11, s5, s5r, sgw_ho, sgw_up>>
    BY <1>5 DEF SgwTeardown, At, th, rem_itfid, Touch
  <2>2. th'.pc = "idle" /\ th'.imsi = 0
    BY <1>t, <2>1, ThreadReturns
  <2>3. /\ sgw_id'["s1"][k + 1] = 0
        /\ \A itf \in Itf, x \in Teid : (itf = "s1" /\ x = k + 1) \/ sgw_id'[itf][x] = sgw_id[itf][x]
    <3>1. sgw_id' = [sgw_id EXCEPT !["s1"][k + 1] = 0] /\ "s1" \in Itf
      BY <1>w, <1>o, <2>1 DEF Itf
    <3> QED
      BY <1>y, <1>e, <3>1
  <2>4. Exchange11' /\ Replied(c)' /\ \A e \in Conn \ {c} : Replied(e)' <=> Replied(e)
    <3>1. Reply(c) = [op |-> "teardown", sock |-> Sock11(c), ok |-> TRUE, teid |-> 0, ip |-> 0]
      BY <1>w, <2>1 DEF Reply
    <3>2. s11r' = s11r \cup {Reply(c)}
      BY <1>w, <1>o, <2>1, <3>1 DEF Answer, th
    <3> QED
      BY <1>t, <1>w, <2>1, <2>2, <3>2, GatewayAnswers
  <2>5. /\ \A m \in UEs \ {k} : sgw_ctx'[m] = sgw_ctx[m]
        /\ sgw_ctx'[k].in /\ sgw_ctx'[k].teid = sgw_ctx[k].teid
        /\ sgw_ctx'[k].s5 = sgw_ctx[k].s5 /\ (sgw_ctx'[k].enb <=> sgw_ctx[k].enb)
        /\ sgw_ctx'[k].dl = sgw_ctx[k].dl
    BY <1>t, <1>y, <1>w, <2>1 DEF Ctx
  <2>6. SessInv'
    BY <1>q, <1>c, <2>1, <2>2, <2>3, <2>4, <2>5
  <2>7. HoSgw(s)'
    <3>1. s = 13 /\ Replied(HoUE)'
      BY <1>a, <1>w, <2>1, <2>4
    <3>2. sgw_ho[HoUE] = NoHo
      BY <1>s, <3>1 DEF HoAt, HoSgw
    <3> QED
      BY <2>1, <2>3, <3>1, <3>2 DEF HoSgw
  <2> QED
    BY <1>s, <1>w, <2>1, <2>6, <2>7, HoSameStage
<1> QED
  BY <1>1, <1>2, <1>3, <1>4, <1>5
-----------------------------------------------------------------------------
(* The detach in the serving gateway.                                      *)
LEMMA SgwDetaches ==
  ASSUME Orderly, LockInv, SessInv, HoInv, SgwProcess(SgwT),
         \/ SgwDetach(SgwT) \/ SgwDetachRsp(SgwT) \/ SgwDetachTimeout(SgwT)
         \/ SgwDetachItf(SgwT) \/ SgwDetachCtx(SgwT)
  PROVE  SessInv' /\ HoInv' /\ UNCHANGED sgw_up
<1>t. /\ EpcTypeInv /\ Exchange11 /\ Exchange5 /\ SgwExtra
      /\ UNCHANGED <<up, down, ran, mme_w, mme_ctx, pgw_s5, pgw_sgi, pgw_ctx, pgw_th>>
      /\ \A m \in UEs : SgwRow(m) /\ PgwRow(m) /\ Bearer(m)
      /\ \A m \in UEs : m # 0 /\ m \in Teid /\ m \in Imsi /\ m \in Conn
  BY SessTypes DEF LockInv, SessInv, SgwProcess, sctpVars, ranOwn, mmeOwn, pgwOwn
<1>y. /\ sgw_id \in [Itf -> [Teid -> Imsi]] /\ sgw_ctx \in [Imsi -> Ctx] /\ s5port[SgwT] = 0
  BY <1>t, SgwTypes
(* Before the answer.                                                      *)
<1>w. ASSUME th.pc \in {"detach", "wait_detach"}
      PROVE  \E n \in UEs :
             /\ n = th.imsi /\ mme_w[n].pc = "detach" /\ mme_w[n].guti = n
             /\ Served(n) /\ Asks(n) /\ ~Replied(n) /\ Present(n) /\ th.req = Question(n)
             /\ ran[n].pc = "bye" /\ down[n] = <<>>
             /\ th.pc = "wait_detach" => th.teid = n
  <2>1. Working
    BY <1>w DEF Working, Tail11
  <2> QED
    BY <1>w, <1>t, <2>1, AtWork
(* After it.                                                               *)
<1>v. ASSUME th.pc \in Tail11
      PROVE  \E n \in UEs : n = th.imsi /\ n = th.teid /\ ~Present(n)
  <2>1. PICK n \in UEs : n = th.imsi /\ th.teid = n
    BY <1>v, <1>t DEF Exchange11
  <2>2. On(n, Tail11)
    BY <1>v, <2>1 DEF On
  <2> QED
    BY <1>t, <2>1, <2>2 DEF SgwRow
<1>1. CASE SgwDetach(SgwT)
  <2>1. /\ th.pc = "detach" /\ AskPgw(SgwT, "detach", sgw_ctx[th.imsi].s5, 0)
        /\ Goto(SgwT, "wait_detach", th.imsi, sgw_ctx[th.imsi].teid)
        /\ UNCHANGED <<s11, s11r, s5r, sgw_id, sgw_ctx, sgw_ho, sgw_up, s5port>>
    BY <1>1 DEF SgwDetach, At, th
  <2>2. PICK n \in UEs :
             /\ n = th.imsi /\ mme_w[n].pc = "detach" /\ mme_w[n].guti = n
             /\ Served(n) /\ Asks(n) /\ ~Replied(n) /\ Present(n)
             /\ ran[n].pc = "bye" /\ down[n] = <<>>
    BY <1>w, <2>1
  <2>3. sgw_ctx[n].in /\ sgw_ctx[n].teid = n /\ sgw_ctx[n].s5 = n
    BY <1>t, <2>2 DEF SgwRow
  <2>4. th'.pc = "wait_detach" /\ th'.req = th.req /\ th'.imsi = n /\ th'.teid = n
    BY <1>t, <2>1, <2>2, <2>3, ThreadGoes
  <2>5. Exchange11' /\ \A e \in Conn : Replied(e)' <=> Replied(e)
    <3>1. th'.pc \in WorkOf(mme_w[n].pc)
      BY <2>2, <2>4 DEF WorkOf
    <3> QED
      BY <1>t, <2>1, <2>2, <2>4, <3>1, GatewayWorks
  <2>6. s5 = {} /\ s5r = {} /\ pw.pc \in {"idle"} \cup Tail5
    BY <1>t, <2>1, QuietS5 DEF Asking5
  <2>7. Exchange5'
    <3>1. s5' = {Question5'} /\ s5r' = {} /\ Asking5'
      BY <1>y, <2>1, <2>2, <2>3, <2>4, <2>6 DEF AskPgw, S5Socket, Question5, Sock5, Asking5
    <3> QED
      BY <1>t, <2>6, <3>1, AsksS5
  <2>8. SgwExtra'
    BY <1>t, <2>1 DEF SgwExtra
  <2>9. (Present(n)' <=> Present(n)) /\ (Unbound(n)' <=> Unbound(n))
    BY <1>t, <2>2, <2>5 DEF Present, Unbound
  <2>10. ~On(n, Tail11) /\ ~On(n, Tail11)'
    BY <2>1, <2>4 DEF On, Tail11
  <2>11. SgwRow(n)'
    <3>1. \A j \in Itf : Entry(j, n) /\ Entry(j, n)'
      BY <2>2, <2>9 DEF Entry
    <3>2. \A j \in Itf : sgw_id'[j][n] = n
      BY <1>t, <2>1, <2>2, <3>1 DEF SgwRow
    <3> QED
      BY <1>t, <2>1, <2>2, <2>3, <2>9, <2>10, <3>1, <3>2 DEF SgwRow
  <2>12. PgwRow(n)'
    <3>1. Linked(n) /\ Linked(n)' /\ \A S : POn(n, S)' <=> POn(n, S)
      BY <1>t, <2>1, <2>2, <2>6, <2>9 DEF Linked, POn, pw
    <3> QED
      BY <1>t, <2>2, <3>1 DEF PgwRow
  <2>13. Bearer(n)'
    BY <1>t, <2>1, <2>9 DEF Bearer
  <2>14. SessInv'
    BY <1>t, <2>1, <2>2, <2>4, <2>5, <2>7, <2>8, <2>11, <2>12, <2>13, SgwFrame
  <2> QED
    BY <1>t, <2>1, <2>4, <2>5, <2>14, HoUnconcerned DEF Unconcerned
<1>2. CASE SgwDetachRsp(SgwT)
  <2>1. PICK r \in s5r :
          /\ th.pc = "wait_detach" /\ s5r' = s5r \ {r}
          /\ IF r.ok THEN Answer(SgwT, TRUE, 0, 0) /\ Continue(SgwT, "rem_s11")
                     ELSE Return(SgwT) /\ UNCHANGED s11r
          /\ UNCHANGED <<s11, s5, sgw_id, sgw_ctx, sgw_ho, sgw_up>>
    BY <1>2 DEF SgwDetachRsp, PgwAnswers, At, th
  <2>2. PICK n \in UEs :
             /\ n = th.imsi /\ mme_w[n].pc = "detach" /\ mme_w[n].guti = n
             /\ Served(n) /\ Asks(n) /\ ~Replied(n) /\ Present(n) /\ th.req = Question(n)
             /\ ran[n].pc = "bye" /\ down[n] = <<>> /\ th.teid = n
    BY <1>w, <2>1
  <2>3. r.ok /\ s5' = {} /\ s5r' = {} /\ pw.pc \in {"idle"} \cup Tail5
    <3>1. r = Reply5 /\ \A q \in s5r : q = Reply5
      BY <1>t DEF Exchange5
    <3>2. s5 = {} /\ pw.pc \in {"idle"} \cup Tail5
      BY <1>t, <2>1 DEF Exchange5
    <3> QED
      BY <2>1, <3>1, <3>2 DEF Reply5
  <2>4. th'.pc = "rem_s11" /\ th'.imsi = n /\ th'.teid = n
    <3>1. Goto(SgwT, "rem_s11", th.imsi, th.teid)
      BY <2>1, <2>3 DEF Continue, th
    <3> QED
      BY <1>t, <2>2, <3>1, ThreadGoes
  <2>5. Exchange11' /\ Replied(n)' /\ \A e \in Conn \ {n} : Replied(e)' <=> Replied(e)
    <3>1. Reply(n) = [op |-> "detach", sock |-> Sock11(n), ok |-> TRUE, teid |-> 0, ip |-> 0]
      BY <2>2 DEF Reply
    <3>2. th.req.op = "detach" /\ th.req.sock = Sock11(n)
      BY <2>2 DEF Question
    <3>3. s11r' = s11r \cup {Reply(n)}
      BY <2>1, <2>3, <3>1, <3>2 DEF Answer, th
    <3>4. th'.pc \in Tail11
      BY <2>4 DEF Tail11
    <3> QED
      BY <1>t, <2>1, <2>2, <2>4, <3>3, <3>4, GatewayAnswers
  <2>6. Exchange5'
    BY <1>t, <2>3, StillQuietS5
  <2>7. SgwExtra'
    BY <1>t, <2>1 DEF SgwExtra
  <2>8. ~Present(n)'
    BY <1>t, <2>2, <2>5 DEF Present
  <2>9. /\ On(n, Tail11)' /\ On(n, {"rem_s11"})' /\ On(n, {"wait_create"} \cup Tail11)'
        /\ ~On(n, {"wait_create"})' /\ On(n, {"wait_detach"}) /\ ~On(n, {"wait_create"})
    BY <2>1, <2>2, <2>4 DEF On, Tail11
  <2>10. SgwRow(n)'
    <3>1. \A j \in Itf : Entry(j, n) /\ Entry(j, n)'
      BY <2>2, <2>4 DEF Entry, On
    <3>2. \A j \in Itf : sgw_id'[j][n] = n
      BY <1>t, <2>1, <2>2, <3>1 DEF SgwRow
    <3>3. sgw_ctx[n].in /\ sgw_ctx[n].teid = n /\ sgw_ctx[n].s5 = n
      BY <1>t, <2>2 DEF SgwRow
    <3> QED
      BY <2>1, <2>8, <2>9, <3>1, <3>2, <3>3 DEF SgwRow
  <2>11. PgwRow(n)'
    <3>1. ~Linked(n) /\ ~Linked(n)' /\ \A S : POn(n, S)' <=> POn(n, S)
      BY <1>t, <2>1, <2>8, <2>9 DEF Linked, POn, pw
    <3> QED
      BY <1>t, <3>1 DEF PgwRow
  <2>12. Bearer(n)'
    BY <2>8 DEF Bearer
  <2>13. SessInv'
    BY <1>t, <2>1, <2>2, <2>4, <2>5, <2>6, <2>7, <2>10, <2>11, <2>12, SgwFrame
  <2> QED
    BY <1>t, <2>1, <2>2, <2>4, <2>5, <2>13, HoUnconcerned DEF Unconcerned
<1>3. CASE SgwDetachTimeout(SgwT)
  BY <1>3, <1>y DEF SgwDetachTimeout, PgwTimeout, Orderly
<1>4. CASE SgwDetachItf(SgwT)
  <2>1. PICK step \in {<<"s11", "rem_s11", "rem_s1">>, <<"s1", "rem_s1", "rem_s5">>,
                       <<"s5", "rem_s5", "rem_ctx">>} :
          /\ th.pc = step[2] /\ sgw_id' = [sgw_id EXCEPT ![step[1]][th.teid] = 0]
          /\ Goto(SgwT, step[3], th.imsi, th.teid)
          /\ UNCHANGED <<gtpVars, sgw_ctx, sgw_ho, sgw_up, s5port>>
    BY <1>4 DEF SgwDetachItf, At, th, rem_itfid, Continue
  <2>2. /\ step[1] \in Itf /\ step[2] \in Tail11 /\ step[3] \in Tail11
        /\ step[1] = "s11" => step[2] = "rem_s11" /\ step[3] = "rem_s1"
        /\ step[1] = "s1" => step[2] = "rem_s1" /\ step[3] = "rem_s5"
        /\ step[1] = "s5" => step[2] = "rem_s5" /\ step[3] = "rem_ctx"
    BY DEF Itf, Tail11
  <2>3. PICK n \in UEs : n = th.imsi /\ n = th.teid /\ ~Present(n)
    BY <1>v, <2>1, <2>2
  <2>4. th'.pc = step[3] /\ th'.imsi = n /\ th'.teid = n
    BY <1>t, <2>1, <2>3, ThreadGoes
  <2>5. UNCHANGED <<s11, s11r, s5, s5r>>
    BY <2>1 DEF gtpVars
  <2>6. Exchange11' /\ \A e \in Conn : Replied(e)' <=> Replied(e)
    BY <1>t, <2>1, <2>2, <2>3, <2>4, <2>5, GatewayTidies
  <2>7. Exchange5'
    <3>1. ~Asking5 /\ ~Asking5'
      BY <2>1, <2>2, <2>4 DEF Asking5, Tail11
    <3> QED
      BY <1>t, <2>5, <3>1, SgwPlain
  <2>8. /\ sgw_id'[step[1]][n] = 0
        /\ \A j \in Itf, y \in Teid : j # step[1] \/ y # n => sgw_id'[j][y] = sgw_id[j][y]
    <3>1. sgw_id' = [sgw_id EXCEPT ![step[1]][n] = 0] /\ n \in Teid
      BY <1>t, <2>1, <2>3
    <3> QED
      BY <1>y, <2>2, <3>1
  <2>9. SgwExtra' /\ \A x \in Teid \ UEs : sgw_id'["s1"][x] = sgw_id["s1"][x]
    <3>1. \A j \in Itf, x \in Teid \ UEs : sgw_id'[j][x] = sgw_id[j][x]
      BY <2>8
    <3> QED
      BY <1>t, <3>1 DEF SgwExtra, Itf
  <2>10. ~Present(n)'
    BY <1>t, <2>3, <2>6 DEF Present
  <2>11. /\ On(n, Tail11) /\ On(n, Tail11)'
         /\ On(n, {"wait_create"} \cup Tail11) /\ On(n, {"wait_create"} \cup Tail11)'
         /\ ~On(n, {"wait_create"}) /\ ~On(n, {"wait_create"})'
    BY <2>1, <2>2, <2>3, <2>4 DEF On, Tail11
  <2>12. SgwRow(n)'
    <3>1. /\ Entry("s11", n) <=> step[1] = "s11"
          /\ Entry("s1", n) <=> step[1] \in {"s11", "s1"}
          /\ Entry("s5", n)
      BY <2>1, <2>2, <2>3 DEF Entry, On, Itf
    <3>2. /\ ~Entry("s11", n)'
          /\ Entry("s1", n)' <=> step[1] = "s11"
          /\ Entry("s5", n)' <=> step[1] \in {"s11", "s1"}
      BY <2>2, <2>4, <2>10 DEF Entry, On, Itf
    <3>3. \A j \in Itf : sgw_id[j][n] = IF Entry(j, n) THEN n ELSE 0
      BY <1>t DEF SgwRow
    <3>4. \A j \in Itf : sgw_id'[j][n] = IF Entry(j, n)' THEN n ELSE 0
      BY <1>t, <2>2, <2>8, <3>1, <3>2, <3>3 DEF Itf
    <3> QED
      BY <1>t, <2>1, <2>3, <2>10, <2>11, <3>4 DEF SgwRow
  <2>13. PgwRow(n)'
    <3>1. ~Linked(n) /\ ~Linked(n)' /\ \A S : POn(n, S)' <=> POn(n, S)
      BY <1>t, <2>3, <2>10, <2>11 DEF Linked, POn, pw
    <3> QED
      BY <1>t, <3>1 DEF PgwRow
  <2>14. Bearer(n)'
    BY <2>10 DEF Bearer
  <2>15. SessInv'
    BY <1>t, <2>1, <2>3, <2>4, <2>6, <2>7, <2>8, <2>9, <2>12, <2>13, <2>14, SgwFrame
  <2>16. th.pc # "ho_add" /\ th'.pc # "ho_add"
    BY <2>1, <2>2, <2>4 DEF Tail11
  <2> QED
    BY <1>t, <2>1, <2>6, <2>9, <2>15, <2>16, HoUnconcerned DEF Unconcerned
<1>5. CASE SgwDetachCtx(SgwT)
  <2>1. /\ th.pc = "rem_ctx" /\ sgw_ctx' = [sgw_ctx EXCEPT ![th.imsi] = NoCtx]
        /\ Return(SgwT) /\ UNCHANGED <<gtpVars, sgw_id, sgw_ho, sgw_up, s5port>>
    BY <1>5 DEF SgwDetachCtx, At, th
  <2>2. th.pc \in Tail11
    BY <2>1 DEF Tail11
  <2>3. PICK n \in UEs : n = th.imsi /\ n = th.teid /\ ~Present(n)
    BY <1>v, <2>2
  <2>4. th'.pc = "idle" /\ th'.imsi = 0
    BY <1>t, <2>1, ThreadReturns
  <2>5. UNCHANGED <<s11, s11r, s5, s5r>>
    BY <2>1 DEF gtpVars
  <2>6. Exchange11' /\ \A e \in Conn : Replied(e)' <=> Replied(e)
    BY <1>t, <2>2, <2>4, <2>5, GatewayTidies
  <2>7. Exchange5'
    <3>1. ~Asking5 /\ ~Asking5'
      BY <2>1, <2>4 DEF Asking5
    <3> QED
      BY <1>t, <2>5, <3>1, SgwPlain
  <2>8. SgwExtra'
    BY <1>t, <2>1 DEF SgwExtra
  <2>9. ~Present(n)'
    BY <1>t, <2>3, <2>6 DEF Present
  <2>10. /\ ~On(n, Tail11)' /\ ~On(n, {"wait_create"} \cup Tail11)'
         /\ ~On(n, {"wait_create"}) /\ ~On(n, {"wait_create"})'
    BY <2>1, <2>4 DEF On, Tail11
  <2>11. sgw_ctx'[n] = NoCtx /\ \A m \in UEs \ {n} : sgw_ctx'[m] = sgw_ctx[m]
    BY <1>t, <1>y, <2>1, <2>3
  <2>12. SgwRow(n)'
    <3>1. \A j \in Itf : ~Entry(j, n) /\ ~Entry(j, n)'
      BY <2>1, <2>3, <2>4, <2>9 DEF Entry, On
    <3>2. \A j \in Itf : sgw_id'[j][n] = 0
      BY <1>t, <2>1, <3>1 DEF SgwRow
    <3>3. ~sgw_ctx'[n].in /\ sgw_ctx'[n].teid = 0 /\ sgw_ctx'[n].s5 = 0
      BY <2>11 DEF NoCtx
    <3> QED
      BY <2>9, <2>10, <2>11, <3>1, <3>2, <3>3 DEF SgwRow
  <2>13. PgwRow(n)'
    <3>1. ~Linked(n) /\ ~Linked(n)' /\ \A S : POn(n, S)' <=> POn(n, S)
      BY <1>t, <2>3, <2>9, <2>10 DEF Linked, POn, pw
    <3> QED
      BY <1>t, <3>1 DEF PgwRow
  <2>14. Bearer(n)'
    BY <2>9 DEF Bearer
  <2>15. SessInv'
    BY <1>t, <2>1, <2>3, <2>4, <2>6, <2>7, <2>8, <2>11, <2>12, <2>13, <2>14, SgwFrame
  <2> QED
    BY <1>t, <2>1, <2>4, <2>6, <2>15, HoUnconcerned DEF Unconcerned
<1> QED
  BY <1>1, <1>2, <1>3, <1>4, <1>5

(* Every step of the serving gateway.                                      *)
LEMMA SgwSession ==
  ASSUME Orderly, LockInv, SessInv, HoInv, NEW t \in S11Threads, SgwProcess(t), sgw_up
  PROVE  SessInv' /\ HoInv' /\ sgw_up'
<1>1. t = SgwT
  BY DEF Orderly
<1>2. SgwStep(SgwT)
  BY <1>1 DEF SgwProcess
<1> QED
  BY <1>1, <1>2, SgwCreates, SgwLooks, SgwHandsOver, SgwDetaches DEF SgwStep
-----------------------------------------------------------------------------
(* The packet gateway, in the answer to the one question that is under     *)
(* way, or at the end of a detach it has answered.                         *)
LEMMA PacketTypes ==
  ASSUME Orderly, EpcTypeInv
  PROVE  /\ S5Threads = {PgwT} /\ DOMAIN pgw_th = {PgwT} /\ pw \in PgwThread
         /\ pw.pc \in PgwPc \cup {"idle"}
         /\ pgw_s5 \in [Teid -> Imsi] /\ pgw_sgi \in [Imsi -> Imsi]
         /\ pgw_ctx \in [Imsi -> PgwCtx]
<1>1. /\ S5Threads = {PgwT} /\ pgw_th \in [S5Threads -> PgwThread]
      /\ pgw_s5 \in [Teid -> Imsi] /\ pgw_sgi \in [Imsi -> Imsi]
      /\ pgw_ctx \in [Imsi -> PgwCtx]
  BY DEF Orderly, EpcTypeInv, EpcTypeOK, PgwTypeOK
<1>2. pw \in PgwThread
  BY <1>1 DEF pw
<1>3. pw.pc \in PgwPc \cup {"idle"}
  BY <1>2 DEF PgwThread, PgwIdle
<1> QED
  BY <1>1, <1>2, <1>3

(* A step for one subscriber.                                              *)
LEMMA PgwFrame ==
  ASSUME Orderly, EpcTypeInv, SessInv, PgwProcess(PgwT), NEW n \in UEs,
         pw.imsi \in {0, n}, pw'.imsi \in {0, n},
         Exchange5', PgwRow(n)', UNCHANGED <<s11, s11r>>,
         s5r' = s5r \/ th.imsi = n,
         \A x \in Teid \ {n} : pgw_s5'[x] = pgw_s5[x],
         \A a \in Imsi \ {n} : pgw_sgi'[a] = pgw_sgi[a] /\ pgw_ctx'[a] = pgw_ctx[a]
  PROVE  SessInv'
<1>1. /\ UNCHANGED <<up, down, ran, mme_w, mme_ctx, sgw_id, sgw_ctx, sgw_th, s11, s11r>>
      /\ n # 0 /\ n \in Imsi /\ 0 \in Imsi
  BY SessTypes, MmeIdentifiers DEF PgwProcess, sctpVars, ranOwn, mmeOwn, sgwOwn
<1>2. PgwExtra'
  BY <1>1 DEF SessInv, PgwExtra
<1>3. Exchange11'
  BY <1>1 DEF SessInv, Exchange11, Line11, Working, Served, Replied, Asks, Question, Reply, th
<1>4. SgwExtra'
  BY <1>1 DEF SessInv, SgwExtra
<1>5. ASSUME NEW m \in UEs PROVE Given(m)' /\ SgwRow(m)' /\ Bearer(m)' /\ (Present(m)' <=> Present(m))
  <2>1. /\ Present(m)' <=> Present(m)
        /\ Unbound(m)' <=> Unbound(m)
        /\ \A S : On(m, S)' <=> On(m, S)
    BY <1>1 DEF Present, Replied, Unbound, On, th
  <2>2. Given(m)'
    BY <1>1 DEF SessInv, Given, MPresent, Completes
  <2>3. \A itf : Entry(itf, m)' <=> Entry(itf, m)
    BY <2>1 DEF Entry
  <2>4. SgwRow(m)'
    BY <1>1, <2>1, <2>3 DEF SessInv, SgwRow
  <2>5. Bearer(m)'
    BY <1>1, <2>1 DEF SessInv, Bearer
  <2> QED
    BY <2>1, <2>2, <2>4, <2>5
<1>6. ASSUME NEW m \in UEs, m # n PROVE PgwRow(m)'
  <2>1. m # 0 /\ m \in Imsi /\ m \in Teid
    BY SessTypes
  <2>2. Linked(m)' <=> Linked(m)
    <3>1. CASE s5r' = s5r
      BY <1>1, <1>5, <3>1 DEF Linked, On, th
    <3>2. CASE th.imsi = n
      <4>1. ~On(m, {"wait_detach"}) /\ ~On(m, {"wait_detach"})'
            /\ ~On(m, {"wait_create"}) /\ ~On(m, {"wait_create"})'
        BY <1>1, <1>6, <3>2 DEF On, th
      <4> QED
        BY <1>5, <4>1 DEF Linked
    <3> QED
      BY <3>1, <3>2
  <2>3. \A S : ~POn(m, S) /\ ~POn(m, S)'
    BY <1>6, <2>1 DEF POn
  <2>4. pgw_s5'[m] = pgw_s5[m] /\ pgw_sgi'[m] = pgw_sgi[m] /\ pgw_ctx'[m] = pgw_ctx[m]
    BY <1>6, <2>1
  <2> QED
    BY <2>2, <2>3, <2>4 DEF SessInv, PgwRow
<1> QED
  BY <1>2, <1>3, <1>4, <1>5, <1>6 DEF SessInv

LEMMA PgwGoes ==
  ASSUME Orderly, EpcTypeInv, NEW pc, PgwGoto(PgwT, pc), pw.pc # "idle"
  PROVE  /\ pw'.pc = pc /\ pw'.req = pw.req /\ pw'.imsi = pw.imsi
         /\ pw'.teid = pw.teid /\ pw'.ip = pw.ip
<1>1. pgw_th'[PgwT] = [pw EXCEPT !.pc = pc] /\ pw \in PgwThread
  BY PacketTypes DEF PgwGoto, pw
<1>2. pw \in [pc : PgwPc, req : S5Req, imsi : Imsi, teid : Teid, ip : Imsi]
  BY <1>1 DEF PgwThread, PgwIdle
<1> QED
  BY <1>1, <1>2 DEF pw

LEMMA PgwReturns ==
  ASSUME Orderly, EpcTypeInv, PgwReturn(PgwT)
  PROVE  pw'.pc = "idle" /\ pw'.imsi = 0
<1>1. pgw_th'[PgwT] = PgwIdle
  BY PacketTypes DEF PgwReturn
<1> QED
  BY <1>1 DEF pw, PgwIdle

LEMMA PgwTakes ==
  ASSUME Orderly, EpcTypeInv, NEW q, NEW pc, NEW imsi, NEW teid, NEW ip,
         PgwTake(PgwT, q, pc, imsi, teid, ip)
  PROVE  /\ pw.pc = "idle" /\ pw.imsi = 0 /\ s5' = s5 \ {q} /\ pw'.pc = pc /\ pw'.req = q
         /\ pw'.imsi = imsi /\ pw'.teid = teid /\ pw'.ip = ip
<1>1. /\ pgw_th'[PgwT] = [pc |-> pc, req |-> q, imsi |-> imsi, teid |-> teid, ip |-> ip]
      /\ pw.pc = "idle"
  BY PacketTypes DEF PgwTake, pw
<1>2. pw = PgwIdle
  BY <1>1, PacketTypes DEF PgwThread, PgwPc
<1> QED
  BY <1>1, <1>2 DEF pw, PgwIdle, PgwTake

LEMMA PgwSession ==
  ASSUME Orderly, LockInv, SessInv, HoInv, PgwProcess(PgwT)
  PROVE  SessInv'
<1>t. /\ EpcTypeInv /\ Exchange11 /\ Exchange5 /\ PgwExtra
      /\ UNCHANGED <<up, down, ran, mme_w, mme_ctx, sgw_id, sgw_ctx, sgw_th>>
      /\ \A m \in UEs : PgwRow(m)
      /\ \A m \in UEs : m # 0 /\ m \in Teid /\ m \in Imsi /\ m \in Conn
  BY SessTypes DEF LockInv, SessInv, PgwProcess, sctpVars, ranOwn, mmeOwn, sgwOwn
<1>y. /\ pgw_s5 \in [Teid -> Imsi] /\ pgw_sgi \in [Imsi -> Imsi] /\ pgw_ctx \in [Imsi -> PgwCtx]
      /\ th' = th
  BY <1>t, PacketTypes DEF th
(* The question under way and the thread that asked it.                    *)
<1>w. ASSUME Asking5
      PROVE  \E n \in UEs :
               /\ n = th.imsi
               /\ th.pc = "wait_create" => ~Present(n)
               /\ th.pc = "wait_detach" => Present(n)
  <2>1. Working
    BY <1>w DEF Asking5, Working, Tail11
  <2>2. PICK c \in Conn :
          LET n == th.imsi
              o == mme_w[c].pc
          IN  /\ Served(c) /\ Asks(c) /\ ~Replied(c) /\ th.req = Question(c)
              /\ n \in UEs
              /\ o = "create" \/ Present(n)
              /\ th.pc \in CreatePc => ~Present(n)
              /\ th.pc \in {"detach", "wait_detach"} => o = "detach"
    BY <1>t, <2>1, AtWork
  <2> QED
    BY <1>w, <2>2 DEF Asking5, CreatePc
<1>p. ASSUME NEW n \in UEs
      PROVE  (Present(n)' <=> Present(n)) \/ s11r' # s11r
  BY <1>t DEF Present, Replied
<1>1. CASE PgwCreateSession(PgwT)
  <2>1. PICK q \in s5 :
          /\ q.op = "create" /\ PgwTake(PgwT, q, "sgi", q.imsi, q.teid, ip_addrs[q.imsi])
          /\ pgw_s5' = [pgw_s5 EXCEPT ![q.teid] = q.imsi]
          /\ UNCHANGED <<s11, s11r, s5r, pgw_sgi, pgw_ctx>>
    BY <1>1 DEF PgwCreateSession
  <2>2. q = Question5 /\ Asking5 /\ s5r = {} /\ \A x \in s5 : x = q
    BY <1>t DEF Exchange5
  <2>3. th.pc = "wait_create"
    BY <2>1, <2>2 DEF Question5, Asking5
  <2>4. PICK n \in UEs : n = th.imsi /\ ~Present(n)
    BY <1>w, <2>2, <2>3
  <2>5. q.imsi = n /\ q.teid = n /\ q.sock = Sock5 /\ ip_addrs[n] = n
    BY <1>t, <2>2, <2>3, <2>4 DEF Question5, ip_addrs, Orderly
  <2>6. /\ pw.pc = "idle" /\ pw.imsi = 0 /\ s5' = {} /\ pw'.pc = "sgi" /\ pw'.req = q
        /\ pw'.imsi = n /\ pw'.teid = n /\ pw'.ip = n
    BY <1>t, <2>1, <2>2, <2>5, PgwTakes
  <2>7. Exchange5'
    BY <1>y, <2>1, <2>2, <2>3, <2>4, <2>5, <2>6 DEF Exchange5, Tail5, Sock5
  <2>8. /\ pgw_s5'[n] = n /\ \A x \in Teid \ {n} : pgw_s5'[x] = pgw_s5[x]
    BY <1>t, <1>y, <2>1, <2>5
  <2>9. PgwRow(n)'
    <3>1. ~Linked(n) /\ ~Linked(n)'
      BY <1>t, <1>y, <1>p, <2>1, <2>2, <2>4 DEF Linked
    <3>2. /\ \A S : ~POn(n, S)
          /\ POn(n, {"sgi", "ctx", "rem_s5"})'
          /\ ~POn(n, {"ctx", "rem_s5", "rem_sgi"})' /\ ~POn(n, Tail5)'
      BY <1>t, <2>6 DEF POn, Tail5
    <3> QED
      BY <1>t, <2>1, <2>8, <3>1, <3>2 DEF PgwRow
  <2> QED
    BY <1>t, <2>1, <2>6, <2>7, <2>8, <2>9, PgwFrame
<1>2. CASE PgwCreateSgi(PgwT)
  <2>1. /\ pw.pc = "sgi" /\ pgw_sgi' = [pgw_sgi EXCEPT ![pw.ip] = pw.imsi]
        /\ PgwGoto(PgwT, "ctx") /\ UNCHANGED <<gtpVars, pgw_s5, pgw_ctx>>
    BY <1>2 DEF PgwCreateSgi, pw
  <2>2. /\ th.pc = "wait_create" /\ s5 = {} /\ s5r = {} /\ pw.req.sock = Sock5
        /\ pw.imsi = th.imsi /\ pw.teid = pw.imsi /\ pw.ip = pw.imsi
    BY <1>t, <2>1 DEF Exchange5
  <2>3. PICK n \in UEs : n = th.imsi /\ ~Present(n)
    BY <1>w, <2>2 DEF Asking5
  <2>4. /\ pw'.pc = "ctx" /\ pw'.req = pw.req /\ pw'.imsi = n /\ pw'.teid = n /\ pw'.ip = n
    BY <1>t, <2>1, <2>2, <2>3, PgwGoes
  <2>5. UNCHANGED <<s11, s11r, s5, s5r>>
    BY <2>1 DEF gtpVars
  <2>6. Exchange5'
    BY <1>y, <2>2, <2>3, <2>4, <2>5 DEF Exchange5, Tail5, Sock5
  <2>7. /\ pgw_sgi'[n] = n /\ \A a \in Imsi \ {n} : pgw_sgi'[a] = pgw_sgi[a]
    BY <1>t, <1>y, <2>1, <2>2, <2>3
  <2>8. PgwRow(n)'
    <3>1. ~Linked(n) /\ ~Linked(n)'
      BY <1>t, <1>y, <1>p, <2>2, <2>3, <2>5 DEF Linked
    <3>2. /\ POn(n, {"sgi", "ctx", "rem_s5"}) /\ ~POn(n, {"ctx", "rem_s5", "rem_sgi"})
          /\ ~POn(n, Tail5)
          /\ POn(n, {"sgi", "ctx", "rem_s5"})' /\ POn(n, {"ctx", "rem_s5", "rem_sgi"})'
          /\ ~POn(n, Tail5)'
      BY <1>t, <2>1, <2>2, <2>3, <2>4 DEF POn, Tail5
    <3> QED
      BY <1>t, <2>1, <2>7, <3>1, <3>2 DEF PgwRow
  <2> QED
    BY <1>t, <2>1, <2>2, <2>3, <2>4, <2>5, <2>6, <2>7, <2>8, PgwFrame
<1>3. CASE PgwCreateCtx(PgwT)
  <2>1. /\ pw.pc = "ctx" /\ PgwReturn(PgwT) /\ PgwAnswer(PgwT, TRUE, pw.teid, pw.ip)
        /\ pgw_ctx' = [pgw_ctx EXCEPT ![pw.imsi] = [in |-> TRUE, ip |-> pw.ip, teid |-> pw.teid]]
        /\ UNCHANGED <<s11, s11r, s5, pgw_s5, pgw_sgi>>
    BY <1>3 DEF PgwCreateCtx, pw
  <2>2. /\ th.pc = "wait_create" /\ s5 = {} /\ s5r = {} /\ pw.req.sock = Sock5
        /\ pw.imsi = th.imsi /\ pw.teid = pw.imsi /\ pw.ip = pw.imsi
    BY <1>t, <2>1 DEF Exchange5
  <2>3. PICK n \in UEs : n = th.imsi /\ ~Present(n)
    BY <1>w, <2>2 DEF Asking5
  <2>4. pw'.pc = "idle" /\ pw'.imsi = 0
    BY <1>t, <2>1, PgwReturns
  <2>5. s5' = {} /\ s5r' = {[sock |-> Sock5, ok |-> TRUE, teid |-> n, ip |-> n]}
    BY <2>1, <2>2, <2>3 DEF PgwAnswer, pw
  <2>6. Exchange5'
    <3>1. Reply5' = [sock |-> Sock5, ok |-> TRUE, teid |-> n, ip |-> n] /\ Asking5'
      BY <1>y, <2>2, <2>3 DEF Reply5, Sock5, Asking5
    <3> QED
      BY <2>4, <2>5, <3>1 DEF Exchange5, Tail5
  <2>7. /\ pgw_ctx'[n] = [in |-> TRUE, ip |-> n, teid |-> n]
        /\ \A a \in Imsi \ {n} : pgw_ctx'[a] = pgw_ctx[a]
    BY <1>t, <1>y, <2>1, <2>2, <2>3
  <2>8. PgwRow(n)'
    <3>1. ~Linked(n) /\ Linked(n)'
      BY <1>t, <1>y, <1>p, <2>1, <2>2, <2>3, <2>5 DEF Linked, On
    <3>2. /\ POn(n, {"sgi", "ctx", "rem_s5"}) /\ POn(n, {"ctx", "rem_s5", "rem_sgi"})
          /\ \A S : ~POn(n, S)'
      BY <1>t, <2>1, <2>2, <2>3, <2>4 DEF POn
    <3> QED
      BY <1>t, <2>1, <2>7, <3>1, <3>2 DEF PgwRow
  <2> QED
    BY <1>t, <2>1, <2>2, <2>3, <2>4, <2>6, <2>7, <2>8, PgwFrame
<1>4. CASE PgwDetach(PgwT)
  <2>1. PICK q \in s5 :
          /\ q.op = "detach" /\ PgwTake(PgwT, q, "answer", pgw_s5[q.teid], 0, 0)
          /\ UNCHANGED <<s11, s11r, s5r, pgw_s5, pgw_sgi, pgw_ctx>>
    BY <1>4 DEF PgwDetach
  <2>2. q = Question5 /\ Asking5 /\ s5r = {} /\ \A x \in s5 : x = q
    BY <1>t DEF Exchange5
  <2>3. th.pc = "wait_detach"
    BY <2>1, <2>2 DEF Question5, Asking5
  <2>4. PICK n \in UEs : n = th.imsi /\ Present(n)
    BY <1>w, <2>2, <2>3
  <2>5. q.teid = n /\ q.sock = Sock5
    BY <2>2, <2>3, <2>4 DEF Question5
  <2>6. Linked(n) /\ Linked(n)' /\ pgw_s5[n] = n
    BY <1>t, <1>p, <2>1, <2>2, <2>4 DEF Linked, PgwRow
  <2>7. /\ pw.pc = "idle" /\ pw.imsi = 0 /\ s5' = {} /\ pw'.pc = "answer" /\ pw'.req = q
        /\ pw'.imsi = n
    BY <1>t, <2>1, <2>2, <2>5, <2>6, PgwTakes
  <2>8. Exchange5'
    BY <1>y, <2>1, <2>2, <2>3, <2>4, <2>5, <2>7 DEF Exchange5, Tail5, Sock5
  <2>9. PgwRow(n)'
    <3>1. ~POn(n, Tail5)'
      BY <2>7 DEF POn, Tail5
    <3> QED
      BY <1>t, <2>1, <2>6, <3>1 DEF PgwRow
  <2> QED
    BY <1>t, <2>1, <2>7, <2>8, <2>9, PgwFrame
<1>5. CASE PgwDetachAnswer(PgwT)
  <2>1. /\ pw.pc = "answer" /\ PgwAnswer(PgwT, TRUE, 0, 0)
        /\ pgw_ctx' = [pgw_ctx EXCEPT ![pw.imsi].in = TRUE]
        /\ pgw_th' = [pgw_th EXCEPT ![PgwT].pc = "rem_s5",
                                    ![PgwT].teid = pgw_ctx[pw.imsi].teid,
                                    ![PgwT].ip = pgw_ctx[pw.imsi].ip]
        /\ UNCHANGED <<s11, s11r, s5, pgw_s5, pgw_sgi>>
    BY <1>5 DEF PgwDetachAnswer, pw
  <2>2. /\ th.pc = "wait_detach" /\ s5 = {} /\ s5r = {} /\ pw.req.sock = Sock5
        /\ pw.imsi = th.imsi
    BY <1>t, <2>1 DEF Exchange5
  <2>3. PICK n \in UEs : n = th.imsi /\ Present(n)
    BY <1>w, <2>2 DEF Asking5
  <2>4. Linked(n) /\ pgw_ctx[n] = [in |-> TRUE, ip |-> n, teid |-> n]
    BY <1>t, <2>2, <2>3 DEF Linked, PgwRow
  <2>5. pw'.pc = "rem_s5" /\ pw'.imsi = n /\ pw'.teid = n /\ pw'.ip = n
    <3>1. pw \in [pc : PgwPc, req : S5Req, imsi : Imsi, teid : Teid, ip : Imsi]
      BY <1>t, <2>1, PacketTypes DEF PgwThread, PgwIdle
    <3>2. pgw_ctx[pw.imsi].teid = n /\ pgw_ctx[pw.imsi].ip = n
      BY <2>2, <2>3, <2>4
    <3>3. pgw_th'[PgwT] = [pw EXCEPT !.pc = "rem_s5", !.teid = n, !.ip = n]
      BY <1>t, <2>1, <3>2, PacketTypes DEF pw
    <3> QED
      BY <2>2, <2>3, <3>1, <3>3 DEF pw
  <2>6. s5' = {} /\ s5r' = {[sock |-> Sock5, ok |-> TRUE, teid |-> 0, ip |-> 0]}
    BY <2>1, <2>2 DEF PgwAnswer, pw
  <2>7. Exchange5'
    <3>1. Reply5' = [sock |-> Sock5, ok |-> TRUE, teid |-> 0, ip |-> 0] /\ Asking5'
          /\ th'.pc = "wait_detach" /\ th'.imsi = n
      BY <1>y, <2>2, <2>3 DEF Reply5, Sock5, Asking5
    <3> QED
      BY <2>3, <2>5, <2>6, <3>1 DEF Exchange5, Tail5
  <2>8. /\ pgw_ctx'[n] = [in |-> TRUE, ip |-> n, teid |-> n]
        /\ \A a \in Imsi \ {n} : pgw_ctx'[a] = pgw_ctx[a]
    <3>1. /\ pgw_ctx'[n] = [pgw_ctx[n] EXCEPT !.in = TRUE]
          /\ \A a \in Imsi \ {n} : pgw_ctx'[a] = pgw_ctx[a]
      BY <1>t, <1>y, <2>1, <2>2, <2>3
    <3>2. pgw_ctx[n] \in PgwCtx /\ pgw_ctx[n].in = TRUE
      BY <1>t, <1>y, <2>4
    <3>3. [pgw_ctx[n] EXCEPT !.in = TRUE] = pgw_ctx[n]
      BY <3>2 DEF PgwCtx
    <3> QED
      BY <2>4, <3>1, <3>3
  <2>9. PgwRow(n)'
    <3>1. ~Linked(n)'
      BY <1>y, <2>2, <2>3, <2>6 DEF Linked, On
    <3>2. /\ POn(n, {"sgi", "ctx", "rem_s5"})' /\ POn(n, {"ctx", "rem_s5", "rem_sgi"})'
          /\ POn(n, Tail5)'
      BY <2>5 DEF POn, Tail5
    <3> QED
      BY <1>t, <2>1, <2>4, <2>8, <3>1, <3>2 DEF PgwRow
  <2> QED
    BY <1>t, <2>1, <2>2, <2>3, <2>5, <2>7, <2>8, <2>9, PgwFrame
(* The answer is out: what asked may be anywhere by now.                   *)
<1>r. ASSUME pw.pc \in Tail5
      PROVE  \E n \in UEs : n = pw.imsi /\ pw.teid = n /\ pw.ip = n /\ ~Linked(n)
  <2>1. PICK n \in UEs : n = pw.imsi /\ pw.teid = n /\ pw.ip = n
    BY <1>r, <1>t DEF Exchange5
  <2>2. POn(n, Tail5)
    BY <1>r, <2>1 DEF POn
  <2> QED
    BY <1>t, <2>1, <2>2 DEF PgwRow
<1>z. ASSUME pw.pc \in Tail5, UNCHANGED <<s5, s5r>>,
             \/ pw'.pc = "idle"
             \/ pw'.pc \in Tail5 /\ pw'.imsi = pw.imsi /\ pw'.teid = pw.teid /\ pw'.ip = pw.ip
      PROVE  Exchange5'
  <2>1. pw.pc \notin {"idle", "sgi", "ctx", "answer"} /\ pw'.pc \notin {"sgi", "ctx", "answer"}
    BY <1>z DEF Tail5
  <2>2. /\ Question5' = Question5 /\ Reply5' = Reply5 /\ (Asking5' <=> Asking5)
        /\ th'.pc = th.pc /\ th'.imsi = th.imsi
    BY <1>y DEF Question5, Reply5, Asking5, Sock5
  <2>3. pw'.pc # "idle" =>
          pw'.imsi \in UEs /\ pw'.teid = pw'.imsi /\ pw'.ip = pw'.imsi /\ pw'.imsi = pw.imsi
          /\ pw'.pc \in Tail5
    BY <1>t, <1>z DEF Exchange5
  <2>4. \A q \in s5' : /\ q = Question5' /\ Asking5' /\ s5r' = {}
                       /\ pw'.pc \in {"idle"} \cup Tail5
    BY <1>t, <1>z, <2>2 DEF Exchange5
  <2>5. \A r \in s5r' : r = Reply5' /\ Asking5'
    BY <1>t, <1>z, <2>2 DEF Exchange5
  <2>6. s5r' # {} /\ pw'.pc # "idle" =>
          th'.pc = "wait_detach" /\ pw'.pc \in Tail5 /\ pw'.imsi = th'.imsi
    <3>1. s5r # {} => th.pc = "wait_detach" /\ pw.imsi = th.imsi
      BY <1>t, <2>1 DEF Exchange5
    <3> QED
      BY <1>z, <2>2, <2>3, <3>1
  <2> QED
    <3>1. pw'.pc \notin {"sgi", "ctx"}
      BY <2>1
    <3>2. pw'.pc \in {"sgi", "ctx"} \cup Tail5 =>
            pw'.imsi \in UEs /\ pw'.teid = pw'.imsi /\ pw'.ip = pw'.imsi
      BY <2>3, <3>1 DEF Tail5
    <3> QED
      BY <2>1, <2>4, <2>5, <2>6, <3>1, <3>2 DEF Exchange5
<1>6. CASE PgwDetachS5(PgwT)
  <2>1. /\ pw.pc = "rem_s5" /\ pgw_s5' = [pgw_s5 EXCEPT ![pw.teid] = 0]
        /\ PgwGoto(PgwT, "rem_sgi") /\ UNCHANGED <<s11, s11r, s5, s5r, pgw_sgi, pgw_ctx>>
    BY <1>6 DEF PgwDetachS5, pw, gtpVars
  <2>2. PICK n \in UEs : n = pw.imsi /\ pw.teid = n /\ pw.ip = n /\ ~Linked(n)
    BY <1>r, <2>1 DEF Tail5
  <2>3. pw'.pc = "rem_sgi" /\ pw'.imsi = n /\ pw'.teid = n /\ pw'.ip = n
    BY <1>t, <2>1, <2>2, PgwGoes
  <2>4. Exchange5'
    BY <1>z, <2>1, <2>2, <2>3 DEF Tail5
  <2>5. pgw_s5'[n] = 0 /\ \A x \in Teid \ {n} : pgw_s5'[x] = pgw_s5[x]
    BY <1>t, <1>y, <2>1, <2>2
  <2>6. PgwRow(n)'
    <3>1. ~Linked(n)'
      BY <1>t, <1>y, <1>p, <2>1, <2>2 DEF Linked, On
    <3>2. /\ POn(n, {"sgi", "ctx", "rem_s5"}) /\ POn(n, {"ctx", "rem_s5", "rem_sgi"})
          /\ POn(n, Tail5)
          /\ ~POn(n, {"sgi", "ctx", "rem_s5"})' /\ POn(n, {"ctx", "rem_s5", "rem_sgi"})'
          /\ POn(n, Tail5)'
      BY <2>1, <2>2, <2>3 DEF POn, Tail5
    <3> QED
      BY <1>t, <2>1, <2>5, <3>1, <3>2 DEF PgwRow
  <2> QED
    BY <1>t, <2>1, <2>2, <2>3, <2>4, <2>5, <2>6, PgwFrame
<1>7. CASE PgwDetachSgi(PgwT)
  <2>1. /\ pw.pc = "rem_sgi" /\ pgw_sgi' = [pgw_sgi EXCEPT ![pw.ip] = 0]
        /\ PgwGoto(PgwT, "rem_ctx") /\ UNCHANGED <<s11, s11r, s5, s5r, pgw_s5, pgw_ctx>>
    BY <1>7 DEF PgwDetachSgi, pw, gtpVars
  <2>2. PICK n \in UEs : n = pw.imsi /\ pw.teid = n /\ pw.ip = n /\ ~Linked(n)
    BY <1>r, <2>1 DEF Tail5
  <2>3. pw'.pc = "rem_ctx" /\ pw'.imsi = n /\ pw'.teid = n /\ pw'.ip = n
    BY <1>t, <2>1, <2>2, PgwGoes
  <2>4. Exchange5'
    BY <1>z, <2>1, <2>2, <2>3 DEF Tail5
  <2>5. pgw_sgi'[n] = 0 /\ \A a \in Imsi \ {n} : pgw_sgi'[a] = pgw_sgi[a]
    BY <1>t, <1>y, <2>1, <2>2
  <2>6. PgwRow(n)'
    <3>1. ~Linked(n)'
      BY <1>t, <1>y, <1>p, <2>1, <2>2 DEF Linked, On
    <3>2. /\ ~POn(n, {"sgi", "ctx", "rem_s5"}) /\ POn(n, {"ctx", "rem_s5", "rem_sgi"})
          /\ POn(n, Tail5)
          /\ ~POn(n, {"sgi", "ctx", "rem_s5"})' /\ ~POn(n, {"ctx", "rem_s5", "rem_sgi"})'
          /\ POn(n, Tail5)'
      BY <2>1, <2>2, <2>3 DEF POn, Tail5
    <3> QED
      BY <1>t, <2>1, <2>5, <3>1, <3>2 DEF PgwRow
  <2> QED
    BY <1>t, <2>1, <2>2, <2>3, <2>4, <2>5, <2>6, PgwFrame
<1>8. CASE PgwDetachCtx(PgwT)
  <2>1. /\ pw.pc = "rem_ctx" /\ pgw_ctx' = [pgw_ctx EXCEPT ![pw.imsi] = NoPgwCtx]
        /\ PgwReturn(PgwT) /\ UNCHANGED <<s11, s11r, s5, s5r, pgw_s5, pgw_sgi>>
    BY <1>8 DEF PgwDetachCtx, pw, gtpVars
  <2>2. PICK n \in UEs : n = pw.imsi /\ pw.teid = n /\ pw.ip = n /\ ~Linked(n)
    BY <1>r, <2>1 DEF Tail5
  <2>3. pw'.pc = "idle" /\ pw'.imsi = 0
    BY <1>t, <2>1, PgwReturns
  <2>4. Exchange5'
    BY <1>z, <2>1, <2>2, <2>3 DEF Tail5
  <2>5. pgw_ctx'[n] = NoPgwCtx /\ \A a \in Imsi \ {n} : pgw_ctx'[a] = pgw_ctx[a]
    BY <1>t, <1>y, <2>1, <2>2
  <2>6. PgwRow(n)'
    <3>1. ~Linked(n)'
      BY <1>t, <1>y, <1>p, <2>1, <2>2 DEF Linked, On
    <3>2. /\ ~POn(n, {"sgi", "ctx", "rem_s5"}) /\ ~POn(n, {"ctx", "rem_s5", "rem_sgi"})
          /\ ~POn(n, {"sgi", "ctx", "rem_s5"})' /\ ~POn(n, {"ctx", "rem_s5", "rem_sgi"})'
          /\ ~POn(n, Tail5)'
      BY <1>t, <2>1, <2>2, <2>3 DEF POn
    <3>3. pgw_s5'[n] = 0 /\ pgw_sgi'[n] = 0
      BY <1>t, <2>1, <2>2, <3>2 DEF PgwRow
    <3> QED
      BY <2>5, <3>1, <3>2, <3>3 DEF PgwRow
  <2> QED
    BY <1>t, <2>1, <2>2, <2>3, <2>4, <2>5, <2>6, PgwFrame
<1> QED
  BY <1>1, <1>2, <1>3, <1>4, <1>5, <1>6, <1>7, <1>8 DEF PgwProcess, PgwStep
-----------------------------------------------------------------------------
(* The steps that leave the gateways alone.                                *)
GatewaysStay ==
  UNCHANGED <<s5, s5r, sgw_th, pgw_th, sgw_id, sgw_ctx, sgw_ho, pgw_s5, pgw_sgi, pgw_ctx>>

LEMMA SignalInv ==
  ASSUME SessInv, Exchange11', GatewaysStay,
         \A n \in UEs : Given(n)' /\ Bearer(n)' /\ (Present(n)' <=> Present(n))
  PROVE  SessInv'
<1>1. Exchange5' /\ SgwExtra' /\ PgwExtra'
      /\ \A n \in UEs : SgwRow(n)' /\ PgwRow(n)'
  BY TablesStay DEF SessInv, GatewaysStay
<1> QED
  BY <1>1 DEF SessInv

(* Nothing the handover depends on moves.                                  *)
LEMMA HoStays ==
  ASSUME HoInv, UNCHANGED <<toRan, ranS, ranT, sgw_ho, sgw_id, sgw_th>>,
         up'[0] = up[0], mme_w'[0] = mme_w[0], Replied(0)' <=> Replied(0),
         HoUE \in UEs => /\ ran'[HoUE] = ran[HoUE] /\ up'[HoUE] = up[HoUE]
                         /\ mme_w'[HoUE] = mme_w[HoUE]
                         /\ Replied(HoUE)' <=> Replied(HoUE),
         \A n \in UEs \ {HoUE} : ran'[n].pc \notin {"ho", "end"} /\ mme_w'[n].pc # "teardown"
  PROVE  HoInv'
<1>1. ASSUME NEW s \in 0 .. 14, HoAt(s), HoUE \in UEs PROVE HoAt(s)'
  <2>1. /\ ran'[HoUE] = ran[HoUE] /\ up'[HoUE] = up[HoUE] /\ mme_w'[HoUE] = mme_w[HoUE]
        /\ Replied(HoUE)' <=> Replied(HoUE)
    BY <1>1
  <2>2. HoToRan(s)' /\ HoUp(s)' /\ HoWorker(s)' /\ HoRan(s)'
    BY <1>1, <2>1 DEF HoAt, HoToRan, HoUp, HoWorker, HoRan, HoId
  <2>3. On(HoUE, {"ho_add"})' <=> On(HoUE, {"ho_add"})
    BY DEF On, th
  <2>4. HoSgw(s)'
    BY <1>1, <2>1, <2>3 DEF HoAt, HoSgw
  <2> QED
    BY <2>2, <2>4 DEF HoAt
<1> QED
  BY <1>1 DEF HoInv, NoHandover

LEMMA HoStage ==
  ASSUME HoInv, HoUE \in UEs, NEW s \in 0 .. 14, HoAt(s)', UNCHANGED sgw_ho,
         \A n \in UEs \ {HoUE} : ran'[n] = ran[n] /\ mme_w'[n] = mme_w[n]
  PROVE  HoInv'
BY DEF HoInv

LEMMA PgwHandover ==
  ASSUME HoInv, PgwProcess(PgwT)
  PROVE  HoInv'
<1>1. UNCHANGED <<up, toRan, ran, ranS, ranT, mme_w, sgw_ho, sgw_id, sgw_th>>
  BY DEF PgwProcess, sctpVars, ranOwn, mmeOwn, sgwOwn
<1>2. UNCHANGED s11r
  BY DEF PgwProcess, PgwStep, PgwCreateSession, PgwCreateSgi, PgwCreateCtx, PgwDetach,
         PgwDetachAnswer, PgwDetachS5, PgwDetachSgi, PgwDetachCtx, gtpVars
<1>3. \A c : Replied(c)' <=> Replied(c)
  BY <1>2 DEF Replied
<1> QED
  BY <1>1, <1>3, HoStays DEF HoInv

LEMMA HssSession ==
  ASSUME SessInv, HoInv,
         UNCHANGED <<up, down, toRan, gtpVars, ranOwn, mmeOwn, pgwOwn>>,
         UNCHANGED <<sgw_id, sgw_ctx, sgw_ho, sgw_th>>
  PROVE  SessInv' /\ HoInv'
<1>1. /\ UNCHANGED <<s11, s11r, sgw_th, mme_w, mme_ctx, ran, ranS, ranT, up, down, sgw_ctx>>
      /\ GatewaysStay
  BY DEF GatewaysStay, gtpVars, ranOwn, mmeOwn, pgwOwn
<1>2. Exchange11' /\ \A c : Replied(c)' <=> Replied(c)
  BY <1>1 DEF SessInv, Exchange11, Line11, Asks, Question, Reply, Replied, Served, Working, th
<1>3. \A n \in UEs : Given(n)' /\ Bearer(n)' /\ (Present(n)' <=> Present(n))
  BY <1>1, <1>2, SignalStays DEF SessInv
<1>4. HoInv'
  BY <1>1, <1>2, HoStays DEF GatewaysStay, HoInv
<1> QED
  BY <1>1, <1>2, <1>3, <1>4, SignalInv
-----------------------------------------------------------------------------
(* The RAN.                                                                *)

LEMMA RanSession ==
  ASSUME LockInv, SessInv, RanNext
  PROVE  SessInv' /\ \A c \in Conn : Replied(c)' <=> Replied(c)
<1>t. /\ EpcTypeInv /\ Exchange11 /\ \A n \in UEs : Turn(n) /\ Given(n) /\ Bearer(n)
      /\ UNCHANGED <<s11, s11r, sgw_th, mme_w, mme_ctx, sgw_ctx>> /\ GatewaysStay
      /\ UEs \subseteq Conn
  BY MmeIdentifiers
  DEF LockInv, EpcInv, SessInv, RanNext, GatewaysStay, gtpVars, mmeOwn, sgwOwn, pgwOwn
<1>1. Exchange11' /\ \A d \in Conn : Replied(d)' <=> Replied(d)
  BY <1>t, NobodyAsks
<1>2. ASSUME NEW n \in UEs, RanUeStep(n), NEW m \in UEs
      PROVE  Given(m)' /\ Bearer(m)' /\ (Present(m)' <=> Present(m))
  <2>1. CASE m = n
    BY <1>t, <1>2, <2>1, RanUeSession
  <2>2. CASE m # n
    <3>1. ran'[m] = ran[m] /\ down'[m] = down[m] /\ up'[m] = up[m]
      BY <1>t, <1>2, <2>2, RanOthers
    <3> QED
      BY <1>t, <1>1, <3>1, SignalStays
  <2> QED
    BY <2>1, <2>2
<1>3. ASSUME RanHoStep, NEW m \in UEs
      PROVE  Given(m)' /\ Bearer(m)' /\ (Present(m)' <=> Present(m))
  BY <1>t, <1>3, RanHoSession
<1> QED
  BY <1>t, <1>1, <1>2, <1>3, SignalInv DEF RanNext
-----------------------------------------------------------------------------
(* The thread of another subscriber than the one that is handed over, and  *)
(* that one before the handover.                                           *)
LEMMA RanUeHandover ==
  ASSUME LockInv, SessInv, HoInv, RanNext, NEW n \in UEs, RanUeStep(n)
  PROVE  HoInv'
<1>t. /\ EpcTypeInv /\ Turn(n) /\ Given(n) /\ n \in Conn /\ n # 0 /\ 0 \in Conn
      /\ UEs \subseteq Conn
      /\ UNCHANGED <<toRan, ranS, ranT, sgw_ho, sgw_id, sgw_th, mme_w>>
      /\ ran \in [UEs -> RanCtx]
      /\ \A d \in Conn \ {n} : up'[d] = up[d]
      /\ \A m \in UEs \ {n} : ran'[m] = ran[m]
  <2>1. EpcTypeInv /\ Turn(n) /\ Given(n) /\ n \in Conn /\ n # 0 /\ 0 \in Conn /\ UEs \subseteq Conn
    BY MmeIdentifiers DEF LockInv, EpcInv, SessInv
  <2>2. /\ UNCHANGED toRan /\ \A d \in Conn \ {n} : up'[d] = up[d]
        /\ \A m \in UEs \ {n} : ran'[m] = ran[m]
    BY <2>1, RanOthers
  <2>3. UNCHANGED <<ranS, ranT>>
    BY DEF RanUeStep, RanInitialAttach, RanAuthenticate, RanSetSecurity, RanSetEpsSession,
           RanDetach, RanDetached
  <2>4. UNCHANGED <<sgw_ho, sgw_id, sgw_th, mme_w>>
    BY DEF RanNext, mmeOwn, sgwOwn
  <2>5. ran \in [UEs -> RanCtx]
    BY <2>1, SessTypes
  <2> QED
    BY <2>1, <2>2, <2>3, <2>4, <2>5
<1>r. \A c \in Conn : Replied(c)' <=> Replied(c)
  BY RanSession
<1>p. /\ ran[n].pc \notin {"ho", "end"} /\ ran'[n].pc \notin {"ho", "end"}
      /\ ran'[n].pc = "attached" => RanSetEpsSession(n)
  BY <1>t DEF RanUeStep, RanInitialAttach, RanAuthenticate, RanSetSecurity, RanSetEpsSession,
              RanDetach, RanDetached, RanAt, RanCtx
<1>1. CASE n # HoUE
  <2>1. up'[0] = up[0] /\ mme_w'[0] = mme_w[0]
    BY <1>t
  <2>2. HoUE \in UEs => ran'[HoUE] = ran[HoUE] /\ up'[HoUE] = up[HoUE]
    BY <1>1, <1>t
  <2>3. \A m \in UEs \ {HoUE} : ran'[m].pc \notin {"ho", "end"} /\ mme_w'[m].pc # "teardown"
    BY <1>t, <1>p DEF HoInv
  <2> QED
    BY <1>t, <1>r, <2>1, <2>2, <2>3, HoStays
<1>2. CASE n = HoUE
  <2>1. PICK s \in 0 .. 14 : HoAt(s)
    BY <1>2 DEF HoInv
  <2>2. s = 0
    BY <1>2, <1>p, <2>1 DEF HoAt, HoRan
  <2>3. ran'[n].pc = "attached" => ran'[n].ul = n
    <3>1. ASSUME RanSetEpsSession(n) PROVE ran'[n].ul = n
      <4>1. Rcv(n) /\ ran[n].pc = "eps" /\ ran' = [ran EXCEPT ![n].pc = "attached",
                ![n].guti = Head(down[n]).guti,
                ![n].ul = Head(down[n]).arg, ![n].dl = Head(down[n]).arg,
                ![n].ip = Head(down[n]).ip]
        BY <3>1 DEF RanSetEpsSession, RanAt
      <4>2. down[n] # <<>> /\ Head(down[n]) = down[n][1]
        BY <1>t, <4>1, RcvQueue
      <4>3. down[n][1].t = 3
        BY <1>t, <4>1, <4>2 DEF Turn, Expected
      <4>4. Head(down[n]).arg = n
        BY <1>t, <4>2, <4>3 DEF Given
      <4>5. ran'[n].ul = Head(down[n]).arg
        BY <1>t, <4>1 DEF RanCtx
      <4> QED
        BY <4>4, <4>5
    <3> QED
      BY <1>p, <3>1
  <2>4. \A k \in DOMAIN up'[n] : up'[n][k].t # 7
    <3>1. \A k \in DOMAIN up[n] : up[n][k].t # 7
      BY <1>2, <2>1, <2>2 DEF HoAt, HoUp
    <3>2. UNCHANGED up \/ \E t \in {1, 2, 3, 4, 5} : \E id, arg : Send(n, t, id, arg)
      BY DEF RanUeStep, RanInitialAttach, RanAuthenticate, RanSetSecurity, RanSetEpsSession,
             RanDetach, RanDetached
    <3>3. ASSUME NEW t \in {1, 2, 3, 4, 5}, NEW id, NEW arg, Send(n, t, id, arg),
                 NEW k \in DOMAIN up'[n]
          PROVE  up'[n][k].t # 7
      <4>1. /\ DOMAIN up'[n] = 1 .. Len(up[n]) + 1
            /\ \A j \in 1 .. Len(up[n]) : up'[n][j] = up[n][j]
            /\ up'[n][Len(up[n]) + 1] = [t |-> t, id |-> id, arg |-> arg]
        BY <1>t, <3>3, SendQueue
      <4>2. Len(up[n]) \in Nat /\ DOMAIN up[n] = 1 .. Len(up[n])
        BY <1>t, Queues
      <4>3. CASE k \in DOMAIN up[n]
        BY <3>1, <4>1, <4>2, <4>3
      <4>4. CASE k = Len(up[n]) + 1
        <5>1. up'[n][k].t = t
          BY <4>1, <4>4
        <5> QED
          BY <3>3, <5>1
      <4> QED
        BY <3>3, <4>1, <4>2, <4>3, <4>4
    <3> QED
      BY <3>1, <3>2, <3>3
  <2>5. HoToRan(0)' /\ HoSgw(0)'
    <3>1. On(HoUE, {"ho_add"})' <=> On(HoUE, {"ho_add"})
      BY <1>t DEF On, th
    <3> QED
      BY <1>t, <2>1, <2>2, <3>1 DEF HoAt, HoToRan, HoSgw
  <2>6. HoUp(0)' /\ HoWorker(0)'
    <3>1. up'[0] = up[0] /\ mme_w' = mme_w
      BY <1>t
    <3> QED
      BY <1>2, <2>1, <2>2, <2>4, <3>1 DEF HoAt, HoUp, HoWorker
  <2>7. HoRan(0)'
    BY <1>t, <1>2, <1>p, <2>1, <2>2, <2>3 DEF HoAt, HoRan
  <2>8. HoAt(0)' /\ 0 \in 0 .. 14
    BY <2>5, <2>6, <2>7 DEF HoAt
  <2> QED
    BY <1>t, <1>2, <2>8, HoStage
<1> QED
  BY <1>1, <1>2
-----------------------------------------------------------------------------
(* The handover's own steps: each takes it one stage further.              *)
LEMMA RanHoHandover ==
  ASSUME LockInv, SessInv, HoInv, Orderly, RanNext, RanHoStep
  PROVE  HoInv'
<1> DEFINE n == HoUE
<1>a. HoUE \in UEs
  <2>1. RanInitiateHandover \/ RanCompleteHandover \/ RanRequestTearDown \/ toRan # {} \/ ranT.pc # "wait"
    BY DEF RanHoStep, RanHandleHandover, RanConnect, RanAckHandover, RanIndirectTunnelComplete
  <2> QED
    BY <2>1 DEF HoInv, NoHandover, RanInitiateHandover, RanCompleteHandover, RanRequestTearDown
<1>t. /\ EpcTypeInv /\ Turn(n) /\ Given(n) /\ n \in Conn /\ n # 0 /\ 0 \in Conn /\ n \in Nat
      /\ UNCHANGED <<sgw_ho, sgw_id, sgw_th, mme_w, s11r>>
      /\ ran \in [UEs -> RanCtx] /\ ran[n] \in RanCtx
      /\ ranT \in TargetEnb /\ ranS \in SourceEnb
      /\ up \in [Conn -> Seq(Up)] /\ Len(up[n]) \in Nat /\ DOMAIN up[n] = 1 .. Len(up[n])
  <2>1. EpcTypeInv /\ Turn(n) /\ Given(n) /\ 0 \in Conn
    BY <1>a, MmeIdentifiers DEF LockInv, EpcInv, SessInv
  <2>2. UNCHANGED <<sgw_ho, sgw_id, sgw_th, mme_w, s11r>>
    BY DEF RanNext, mmeOwn, sgwOwn, gtpVars
  <2>3. ranT \in TargetEnb /\ ranS \in SourceEnb
    BY <2>1 DEF EpcTypeInv, EpcTypeOK, RanTypeOK
  <2> QED
    BY <1>a, <2>1, <2>2, <2>3, SessTypes
<1>s. PICK s \in 0 .. 14 : HoAt(s)
  BY <1>a DEF HoInv
<1>q. /\ HoToRan(s) /\ HoUp(s) /\ HoWorker(s) /\ HoRan(s) /\ HoSgw(s)
  BY <1>s DEF HoAt
<1>r. \A c \in Conn : Replied(c)' <=> Replied(c)
  BY <1>t DEF Replied
<1>h. On(HoUE, {"ho_add"})' <=> On(HoUE, {"ho_add"})
  BY <1>t DEF On, th
(* A stage follows that is no other to the MME and the gateway.            *)
<1>m. ASSUME NEW x \in 0 .. 14, HoToRan(x)', HoUp(x)', HoRan(x)',
             \/ s < 2 /\ x < 2
             \/ s \in {2, 3, 4, 5} /\ x \in {2, 3, 4, 5}
             \/ s \in {7, 8, 9} /\ x \in {7, 8, 9}
             \/ s \in {11, 12} /\ x \in {11, 12},
             \A m \in UEs \ {n} : ran'[m] = ran[m]
      PROVE  HoInv'
  <2>1. HoWorker(x)'
    BY <1>m, <1>t, <1>q DEF HoWorker, HoId
  <2>2. HoSgw(x)'
    BY <1>m, <1>t, <1>q, <1>a, <1>r, <1>h DEF HoSgw
  <2>3. HoAt(x)'
    BY <1>m, <2>1, <2>2 DEF HoAt
  <2> QED
    BY <1>a, <1>m, <1>t, <2>3, HoStage
<1>1. CASE RanInitiateHandover
  <2>1. /\ ran[n].pc = "attached" /\ ranS' = [ranS EXCEPT !.state = 1]
        /\ Send(n, 7, ran[n].id, n) /\ ran' = [ran EXCEPT ![n].pc = "ho"]
        /\ UNCHANGED <<toRan, ranT>>
    BY <1>1 DEF RanInitiateHandover, RanAt
  <2>2. s = 0
    BY <1>q, <2>1 DEF HoRan
  <2>3. /\ DOMAIN up'[n] = 1 .. Len(up[n]) + 1 /\ Len(up'[n]) = Len(up[n]) + 1
        /\ \A k \in 1 .. Len(up[n]) : up'[n][k] = up[n][k]
        /\ up'[n][Len(up[n]) + 1] = [t |-> 7, id |-> ran[n].id, arg |-> n]
        /\ \A d \in Conn \ {n} : up'[d] = up[d]
    BY <1>t, <2>1, SendQueue
  <2>4. \A k \in DOMAIN up[n] : up[n][k].t = 4 /\ k = 1
    <3>1. \A k \in DOMAIN up[n] : up[n][k].t \in {4}
      BY <1>t, <2>1 DEF Turn, Says
    <3> QED
      BY <1>t, <3>1 DEF Given
  <2>5. Len(up[n]) < 2
    <3>1. Len(up[n]) > 1 => 2 \in DOMAIN up[n]
      BY <1>t
    <3> QED
      BY <1>t, <2>4, <3>1
  <2>6. HoUp(1)'
    <3>1. \A k \in DOMAIN up'[n] : k \in DOMAIN up[n] \/ k = Len(up[n]) + 1
      BY <1>t, <2>3
    <3>2. \A k \in DOMAIN up'[n] : up'[n][k].t = 7 => k = Len(up[n]) + 1 /\ up'[n][k].arg = n
      BY <1>t, <2>3, <2>4, <3>1
    <3>3. Len(up[n]) + 1 \in DOMAIN up'[n] /\ up'[n][Len(up[n]) + 1].t = 7
      BY <1>t, <2>3
    <3>4. up'[0] = <<>>
      BY <1>t, <1>q, <2>2, <2>3 DEF HoUp
    <3>5. Len(up[n]) + 1 < 3
      BY <1>t, <2>5
    <3> QED
      BY <2>3, <3>2, <3>3, <3>4, <3>5 DEF HoUp
  <2>7. HoToRan(1)'
    BY <1>q, <2>1, <2>2 DEF HoToRan
  <2>8. HoRan(1)' /\ \A m \in UEs \ {n} : ran'[m] = ran[m]
    <3>1. ran'[n].pc = "ho" /\ ran'[n].ul = ran[n].ul /\ ran'[n].id = ran[n].id
          /\ ranS'.state = 1
      BY <1>a, <1>t, <2>1 DEF RanCtx, SourceEnb
    <3> QED
      BY <1>q, <1>t, <2>1, <2>2, <3>1 DEF HoRan
  <2> QED
    BY <1>m, <2>2, <2>6, <2>7, <2>8
<1>2. CASE RanHandleHandover
  <2>1. PICK m \in toRan :
          /\ m.t = 7 /\ ranT.pc = "wait" /\ toRan' = toRan \ {m}
          /\ ranT' = [ranT EXCEPT !.state = 2, !.enb = m.enb, !.id = m.id, !.ul = m.arg,
                                  !.pc = "connect"]
          /\ UNCHANGED <<up, ran, ranS>>
    BY <1>2 DEF RanHandleHandover
  <2>2. s = 2
    BY <1>q, <2>1 DEF HoToRan
  <2>3. m.id = ran[n].id /\ m.enb = n /\ toRan' = {}
    BY <1>q, <2>1, <2>2 DEF HoToRan, HoId
  <2>4. ranT'.state = 2 /\ ranT'.enb = n /\ ranT'.id = ran[n].id /\ ranT'.pc = "connect"
        /\ ranT'.connected = ranT.connected
    BY <1>t, <2>1, <2>3 DEF TargetEnb
  <2>5. HoToRan(3)' /\ HoUp(3)' /\ HoRan(3)'
    BY <1>q, <2>1, <2>2, <2>3, <2>4 DEF HoToRan, HoUp, HoRan, HoId
  <2> QED
    BY <1>m, <2>1, <2>2, <2>5
<1>3. CASE RanConnect
  <2>1. /\ ranT.pc = "connect" /\ ranT' = [ranT EXCEPT !.connected = TRUE, !.pc = "send"]
        /\ UNCHANGED <<up, toRan, ran, ranS>>
    BY <1>3 DEF RanConnect, sctpVars
  <2>2. s = 3
    BY <1>q, <2>1 DEF HoRan
  <2>3. ranT'.state = ranT.state /\ ranT'.enb = ranT.enb /\ ranT'.id = ranT.id
        /\ ranT'.pc = "send" /\ ranT'.connected
    BY <1>t, <2>1 DEF TargetEnb
  <2>4. HoToRan(4)' /\ HoUp(4)' /\ HoRan(4)'
    BY <1>q, <2>1, <2>2, <2>3 DEF HoToRan, HoUp, HoRan, HoId
  <2> QED
    BY <1>m, <2>1, <2>2, <2>4
<1>4. CASE RanAckHandover
  <2>1. /\ ranT.pc = "send" /\ ranT' = [ranT EXCEPT !.state = 3, !.pc = "wait"]
        /\ Send(0, 8, ranT.id, ranT.enb) /\ UNCHANGED <<toRan, ran, ranS>>
    BY <1>4 DEF RanAckHandover
  <2>2. s = 4
    BY <1>q, <2>1 DEF HoRan
  <2>3. ranT'.state = 3 /\ ranT'.enb = ranT.enb /\ ranT'.id = ranT.id
        /\ ranT'.pc = "wait" /\ ranT'.connected = ranT.connected
    BY <1>t, <2>1 DEF TargetEnb
  <2>4. up[0] = <<>> /\ ranT.id = HoId /\ ranT.enb = n
    BY <1>q, <2>2 DEF HoUp, HoRan
  <2>5. up'[0] = <<[t |-> 8, id |-> HoId, arg |-> n]>> /\ up'[n] = up[n]
    <3>1. up' = [up EXCEPT ![0] = Append(@, [t |-> 8, id |-> HoId, arg |-> n])]
      BY <2>1, <2>4 DEF Send
    <3> QED
      BY <1>t, <2>4, <3>1
  <2>6. HoUp(5)'
    BY <1>q, <2>1, <2>2, <2>5 DEF HoUp, HoId
  <2>7. HoToRan(5)' /\ HoRan(5)'
    BY <1>q, <2>1, <2>2, <2>3 DEF HoToRan, HoRan, HoId
  <2> QED
    BY <1>m, <2>1, <2>2, <2>6, <2>7
<1>5. CASE RanIndirectTunnelComplete
  <2>1. PICK m \in toRan :
          /\ m.t = 8 /\ toRan' = toRan \ {m} /\ ranS' = [state |-> 4, indirect |-> m.arg]
          /\ UNCHANGED <<up, ran, ranT>>
    BY <1>5 DEF RanIndirectTunnelComplete
  <2>2. s = 7
    BY <1>q, <2>1 DEF HoToRan
  <2>3. m.arg = n + 1 /\ toRan' = {}
    BY <1>q, <2>1, <2>2 DEF HoToRan
  <2>4. HoToRan(8)' /\ HoUp(8)'
    BY <1>q, <2>1, <2>2, <2>3 DEF HoToRan, HoUp, HoId
  <2>5. HoRan(8)'
    BY <1>q, <2>1, <2>2, <2>3 DEF HoRan, HoId
  <2> QED
    BY <1>m, <2>1, <2>2, <2>4, <2>5
<1>6. CASE RanCompleteHandover
  <2>1. /\ ran[n].pc = "ho" /\ (SleepCovers => ranS.state = 4)
        /\ IF ranT.connected THEN Send(0, 9, ranT.id, 0) ELSE UNCHANGED up
        /\ ran' = [ran EXCEPT ![n].pc = "end"]
        /\ UNCHANGED <<toRan, ranS, ranT>>
    BY <1>6 DEF RanCompleteHandover, RanAt
  <2>2. s = 8
    <3>1. s > 7
      BY <1>q, <2>1 DEF HoRan, Orderly
    <3>2. s < 9
      BY <1>q, <2>1 DEF HoRan
    <3> QED
      BY <3>1, <3>2
  <2>3. /\ up[0] = <<>> /\ ranT.id = HoId /\ ranT.connected
    BY <1>q, <2>2 DEF HoUp, HoRan
  <2>4. ran'[n].pc = "end" /\ ran'[n].id = ran[n].id /\ ran'[n].ul = ran[n].ul
        /\ \A m \in UEs \ {n} : ran'[m] = ran[m]
    BY <1>a, <1>t, <2>1 DEF RanCtx
  <2>5. up'[0] = <<[t |-> 9, id |-> HoId, arg |-> 0]>> /\ up'[n] = up[n]
    <3>1. up' = [up EXCEPT ![0] = Append(@, [t |-> 9, id |-> HoId, arg |-> 0])]
      BY <2>1, <2>3 DEF Send
    <3> QED
      BY <1>t, <2>3, <3>1
  <2>6. HoUp(9)'
    BY <1>q, <2>2, <2>4, <2>5 DEF HoUp, HoId
  <2>7. HoToRan(9)' /\ HoRan(9)'
    BY <1>q, <2>1, <2>2, <2>4 DEF HoToRan, HoRan, HoId
  <2> QED
    BY <1>m, <2>2, <2>4, <2>6, <2>7
<1>7. CASE RanRequestTearDown
  <2>1. PICK m \in toRan :
          /\ m.t = 9 /\ toRan' = toRan \ {m} /\ Send(n, 10, ran[n].id, ranS.indirect)
          /\ ran' = [ran EXCEPT ![n].ul = 0] /\ UNCHANGED <<ranS, ranT>>
    BY <1>7 DEF RanRequestTearDown
  <2>2. s = 11
    BY <1>q, <2>1 DEF HoToRan
  <2>3. up[n] = <<>> /\ up[0] = <<>> /\ ranS.indirect = n + 1 /\ toRan' = {}
    BY <1>q, <2>1, <2>2 DEF HoUp, HoRan, HoToRan
  <2>4. ran'[n].ul = 0 /\ ran'[n].id = ran[n].id /\ ran'[n].pc = ran[n].pc
        /\ \A m2 \in UEs \ {n} : ran'[m2] = ran[m2]
    BY <1>a, <1>t, <2>1 DEF RanCtx
  <2>5. up'[n] = <<[t |-> 10, id |-> HoId, arg |-> n + 1]>> /\ up'[0] = up[0]
    <3>1. up' = [up EXCEPT ![n] = Append(@, [t |-> 10, id |-> HoId, arg |-> n + 1])]
      BY <2>1, <2>3 DEF Send, HoId
    <3> QED
      BY <1>t, <2>3, <3>1
  <2>6. HoUp(12)'
    <3>1. DOMAIN up'[n] = {1} /\ up'[n][1].t = 10
      BY <1>t, <2>3, <2>1, <2>5, SendAlone
    <3> QED
      BY <1>q, <2>2, <2>3, <2>4, <2>5, <3>1 DEF HoUp, HoId
  <2>7. HoToRan(12)'
    BY <2>3 DEF HoToRan
  <2>8. HoRan(12)'
    BY <1>q, <2>1, <2>2, <2>4 DEF HoRan, HoId
  <2> QED
    BY <1>m, <2>2, <2>4, <2>6, <2>7, <2>8
<1> QED
  BY <1>1, <1>2, <1>3, <1>4, <1>5, <1>6, <1>7 DEF RanHoStep
-----------------------------------------------------------------------------
(* The MME.                                                                *)

LEMMA MmeGateways ==
  ASSUME NEW c, MmeProcess(c)
  PROVE  /\ GatewaysStay /\ MmeStep(c)
         /\ UNCHANGED <<ran, ranS, ranT, sgw_th, sgw_ctx, sgw_up, sgw_ho, sgw_id>>
<1>1. UNCHANGED <<s5, s5r>>
  BY DEF MmeProcess, MmeStep, MmeInitialAttach, MmeAutnInfo, MmeAuthentication,
         MmeSecurityComplete, MmeLocationUpdate, MmeCreateSession, MmeAttachComplete,
         MmeModifyBearer, MmeDetach, MmeDetachAnswer, MmeDetachRemove, MmeHandover,
         MmeHoRequest, MmeHoAnswer, MmeIgnore, gtpVars
<1> QED
  BY <1>1 DEF MmeProcess, ranOwn, sgwOwn, pgwOwn, GatewaysStay

(* What a worker of a subscriber's own connection may do.                  *)
LEMMA WorkerDoes ==
  ASSUME LockInv, NEW c \in UEs, MmeStep(c)
  PROVE  \/ MmeHandover(c) /\ ran[c].pc \in {"ho", "end"}
         \/ /\ MmeHoRequest(c) /\ ran[c].pc = "end" /\ Receive(c, 10)
            /\ mme_w'[c] = [pc |-> "teardown", id |-> Head(up[c]).id, guti |-> c]
            /\ UNCHANGED toRan
         \/ /\ MmeHoAnswer(c) /\ mme_w[c].pc = "teardown" /\ mme_w'[c].pc = "idle"
            /\ UNCHANGED <<toRan, up>>
         \/ /\ UNCHANGED toRan /\ mme_w'[c].pc # "teardown"
            /\ \/ UNCHANGED up /\ mme_w[c].pc \notin {"idle", "teardown"}
               \/ \E t \in 1 .. 5 : Receive(c, t)
<1>t. /\ Turn(c) /\ Knows(c) /\ c \in Conn /\ EpcTypeInv /\ s1mme_id[0] = 0
      /\ mme_w \in [Conn -> [pc : MmePc, id : UeId, guti : Imsi]]
  BY SessTypes DEF LockInv, EpcInv
<1>s. /\ 7 \in Says[ran[c].pc] => ran[c].pc \in {"ho", "end"}
      /\ 10 \in Says[ran[c].pc] => ran[c].pc = "end"
      /\ 8 \notin Says[ran[c].pc] /\ 9 \notin Says[ran[c].pc]
      /\ mme_w[c].pc \notin {"setup", "complete"}
  <2>1. ran[c].pc \in RanPc
    BY <1>t, SessTypes
  <2> QED
    <3>1. /\ 7 \in Says[ran[c].pc] => ran[c].pc \in {"ho", "end"}
          /\ 10 \in Says[ran[c].pc] => ran[c].pc = "end"
          /\ 8 \notin Says[ran[c].pc] /\ 9 \notin Says[ran[c].pc]
      BY <2>1 DEF Says, RanPc
    <3>2. mme_w[c].pc \in Serves[ran[c].pc]
      BY <1>t DEF Turn
    <3>3. mme_w[c].pc \notin {"setup", "complete"}
      BY <2>1, <3>2 DEF Serves, RanPc
    <3> QED
      BY <3>1, <3>3
<1>1. CASE MmeInitialAttach(c) \/ MmeAuthentication(c) \/ MmeSecurityComplete(c)
           \/ MmeAttachComplete(c) \/ MmeDetach(c)
  <2>1. UNCHANGED toRan /\ \E t \in 1 .. 5 : Receive(c, t)
    BY <1>1 DEF MmeInitialAttach, MmeAuthentication, MmeSecurityComplete, MmeAttachComplete,
                MmeDetach
  <2>2. mme_w[c].pc = "idle"
    BY <2>1 DEF Receive
  <2>3. UNCHANGED mme_w \/ \E pc \in {"autn", "loc", "modify", "detach"} : \E id, g : Wait(c, pc, id, g)
    BY <1>1 DEF MmeInitialAttach, MmeAuthentication, MmeSecurityComplete, MmeAttachComplete,
                MmeDetach
  <2> QED
    BY <1>t, <2>1, <2>2, <2>3 DEF Wait
<1>2. CASE MmeAutnInfo(c) \/ MmeLocationUpdate(c) \/ MmeCreateSession(c) \/ MmeModifyBearer(c)
           \/ MmeDetachAnswer(c) \/ MmeDetachRemove(c)
  <2>1. /\ UNCHANGED <<toRan, up>>
        /\ mme_w[c].pc \in {"autn", "loc", "create", "modify", "detach", "rem"}
    BY <1>2 DEF MmeAutnInfo, MmeLocationUpdate, MmeCreateSession, MmeModifyBearer,
                MmeDetachAnswer, MmeDetachRemove, HandlerAt, sctpVars
  <2>2. UNCHANGED mme_w \/ \E pc \in {"idle", "create", "rem"} : \E id, g : Wait(c, pc, id, g)
    BY <1>2 DEF MmeAutnInfo, MmeLocationUpdate, MmeCreateSession, MmeModifyBearer,
                MmeDetachAnswer, MmeDetachRemove, Done
  <2> QED
    BY <1>t, <2>1, <2>2 DEF Wait
<1>3. CASE MmeHandover(c)
  BY <1>3, <1>s, TakeMessage DEF MmeHandover
<1>4. CASE MmeHoRequest(c)
  <2>1. PICK h \in HoOp : Receive(c, h[1]) /\ Wait(c, h[2], Head(up[c]).id, get_guti(c))
                          /\ UNCHANGED toRan
    BY <1>4 DEF MmeHoRequest
  <2>2. h[1] \in Says[ran[c].pc] /\ (h[1] # 1 => get_guti(c) = c)
    BY <2>1, TakeMessage
  <2>3. h[1] = 10 /\ h[2] = "teardown"
    BY <1>s, <2>1, <2>2 DEF HoOp
  <2> QED
    BY <1>4, <1>s, <1>t, <2>1, <2>2, <2>3 DEF Wait
<1>5. CASE MmeHoAnswer(c)
  <2>1. PICK h \in HoOp, r \in Replies(c) :
          /\ mme_w[c].pc = h[2] /\ Done(c) /\ UNCHANGED up
          /\ IF r.ok /\ h[1] # 10 THEN ToEnb(h[1], mme_w[c].id, r.teid, 0) ELSE UNCHANGED toRan
    BY <1>5 DEF MmeHoAnswer, HandlerAt
  <2>2. h[1] = 10 /\ h[2] = "teardown"
    BY <1>s, <2>1 DEF HoOp
  <2>3. mme_w'[c].pc = "idle"
    BY <1>t, <2>1 DEF Done, Wait
  <2> QED
    BY <1>5, <2>1, <2>2, <2>3
<1>6. CASE MmeIgnore(c)
  <2>1. up[c] # <<>> /\ (Head(up[c]).id = 0 <=> Head(up[c]).t # 1)
    BY <1>6 DEF MmeIgnore
  <2>2. 1 \in DOMAIN up[c] /\ Head(up[c]) = up[c][1]
    BY <1>t, <2>1, QueueRead DEF LockInv, MmeInv
  <2>3. UpTrue(c, up[c][1])
    BY <1>t, <2>2 DEF Knows
  <2> QED
    BY <1>t, <2>1, <2>2, <2>3, MmeIdentifiers DEF UpTrue
<1> QED
  BY <1>1, <1>2, <1>3, <1>4, <1>5, <1>6 DEF MmeStep

LEMMA MmeUeRest ==
  ASSUME Orderly, LockInv, RegInv, SessInv, HoInv, NEW c \in UEs, MmeProcess(c)
  PROVE  SessInv' /\ \A d \in Conn \ {c} : Replied(d)' <=> Replied(d)
<1>t. /\ EpcTypeInv /\ MmeInv /\ MmeTypeInv /\ Exchange11 /\ c \in Conn /\ UEs \subseteq Conn
      /\ \A n \in UEs : Given(n) /\ Bearer(n)
      /\ GatewaysStay /\ MmeStep(c) /\ UNCHANGED <<ran, sgw_th, sgw_ctx>>
  BY MmeIdentifiers, MmeGateways DEF LockInv, MmeInv, SessInv
<1>1. HoUE \in UEs => \A k \in DOMAIN up[HoUE] : up[HoUE][k].t = 10 => up[HoUE][k].arg = HoUE + 1
  <2> SUFFICES ASSUME HoUE \in UEs, NEW k \in DOMAIN up[HoUE], up[HoUE][k].t = 10
               PROVE  up[HoUE][k].arg = HoUE + 1
    OBVIOUS
  <2>1. PICK s \in 0 .. 14 : HoAt(s)
    BY DEF HoInv
  <2>2. ran[HoUE].pc = "end"
    <3>1. 10 \in Says[ran[HoUE].pc] /\ ran[HoUE].pc \in RanPc
      BY <1>t, SessTypes DEF LockInv, EpcInv, Turn
    <3> QED
      BY <3>1 DEF Says, RanPc
  <2>3. s > 1
    <3>1. s # 0 /\ (s > 0 /\ s < 9 => ran[HoUE].pc = "ho")
      BY <2>1, <2>2 DEF HoAt, HoRan
    <3> QED
      BY <2>2, <3>1
  <2>4. s # 12 => up[HoUE] = <<>>
    BY <2>1, <2>3 DEF HoAt, HoUp
  <2>5. s = 12
    BY <2>4
  <2>6. up[HoUE] = <<[t |-> 10, id |-> HoId, arg |-> HoUE + 1]>>
    BY <2>1, <2>5 DEF HoAt, HoUp
  <2> QED
    BY <2>6
<1>2. c # HoUE => ran[c].pc \notin {"ho", "end"}
  BY DEF HoInv
<1>3. /\ Exchange11' /\ Given(c)' /\ Bearer(c)' /\ (Present(c)' <=> Present(c))
      /\ \A d \in Conn \ {c} : Replied(d)' <=> Replied(d)
  BY <1>t, <1>1, <1>2, MmeUeSession
<1>4. ASSUME NEW n \in UEs, n # c PROVE Given(n)' /\ Bearer(n)' /\ (Present(n)' <=> Present(n))
  <2>1. up'[n] = up[n] /\ down'[n] = down[n]
    BY <1>t, <1>4, OtherQueues
  <2>2. mme_w'[n] = mme_w[n] /\ mme_ctx'[n] = mme_ctx[n]
    BY <1>t, <1>4, OtherHandlers, OtherContexts
  <2>3. Replied(n)' <=> Replied(n)
    BY <1>t, <1>3, <1>4
  <2> QED
    BY <1>t, <2>1, <2>2, <2>3, SignalStays
<1> QED
  BY <1>t, <1>3, <1>4, SignalInv
-----------------------------------------------------------------------------
LEMMA MmeUeHandover ==
  ASSUME Orderly, LockInv, RegInv, SessInv, HoInv, NEW c \in UEs, MmeProcess(c)
  PROVE  HoInv'
<1>t. /\ EpcTypeInv /\ MmeTypeInv /\ Turn(c) /\ Knows(c) /\ Exchange11 /\ Given(c)
      /\ c \in Conn /\ 0 \in Conn /\ c # 0 /\ UEs \subseteq Conn
      /\ GatewaysStay /\ MmeStep(c)
      /\ UNCHANGED <<ran, ranS, ranT, sgw_th, sgw_ho, sgw_id>>
      /\ \A d \in Conn \ {c} : mme_w'[d] = mme_w[d] /\ up'[d] = up[d]
      /\ s1mme_id[0] = 0
  <2>1. /\ EpcTypeInv /\ MmeTypeInv /\ Turn(c) /\ Knows(c) /\ Exchange11 /\ Given(c)
        /\ c \in Conn /\ 0 \in Conn /\ c # 0 /\ UEs \subseteq Conn /\ s1mme_id[0] = 0
    BY MmeIdentifiers DEF LockInv, EpcInv, MmeInv, SessInv
  <2>2. \A d \in Conn \ {c} : mme_w'[d] = mme_w[d] /\ up'[d] = up[d]
    BY <2>1, MmeGateways, OtherHandlers, OtherQueues
  <2> QED
    BY <2>1, <2>2, MmeGateways
<1>r. \A d \in Conn \ {c} : Replied(d)' <=> Replied(d)
  BY MmeUeRest
<1>o. up'[0] = up[0] /\ mme_w'[0] = mme_w[0] /\ (Replied(0)' <=> Replied(0))
  BY <1>t, <1>r
<1>y. /\ Len(up[c]) \in Nat /\ DOMAIN up[c] = 1 .. Len(up[c]) /\ up[c] \in Seq(Up)
      /\ mme_ctx \in [Imsi -> MmeCtx]
  BY <1>t, SessTypes
<1>1. CASE c # HoUE
  <2>1. ran[c].pc \notin {"ho", "end"} /\ mme_w[c].pc # "teardown"
    BY <1>1 DEF HoInv
  <2>2. UNCHANGED toRan /\ mme_w'[c].pc # "teardown"
    BY <1>t, <2>1, WorkerDoes
  <2>3. \A n \in UEs \ {HoUE} : ran'[n].pc \notin {"ho", "end"} /\ mme_w'[n].pc # "teardown"
    BY <1>t, <2>2 DEF HoInv
  <2>4. HoUE \in UEs => up'[HoUE] = up[HoUE] /\ mme_w'[HoUE] = mme_w[HoUE]
                        /\ (Replied(HoUE)' <=> Replied(HoUE))
    BY <1>1, <1>t, <1>r
  <2> QED
    BY <1>t, <1>o, <2>2, <2>3, <2>4, HoStays
<1>2. CASE c = HoUE
  <2>s. PICK s \in 0 .. 14 : HoAt(s)
    BY <1>2 DEF HoInv
  <2>q. /\ HoToRan(s) /\ HoUp(s) /\ HoWorker(s) /\ HoRan(s) /\ HoSgw(s)
    BY <2>s DEF HoAt
  <2>h. On(HoUE, {"ho_add"})' <=> On(HoUE, {"ho_add"})
    BY <1>t DEF On, th
  <2>m. ASSUME NEW x \in 0 .. 14, HoToRan(x)', HoUp(x)', HoWorker(x)', HoRan(x)', HoSgw(x)'
        PROVE  HoInv'
    <3>1. HoAt(x)'
      BY <2>m DEF HoAt
    <3> QED
      BY <1>2, <1>t, <2>m, <3>1, HoStage
  <2>r. ASSUME NEW x \in {13, 14}, s \in {12, 13}
        PROVE  HoRan(x)'
    BY <1>t, <2>q, <2>r DEF HoRan, HoId
  <2>1. ASSUME MmeHandover(c) PROVE HoInv'
    <3>1. /\ Receive(c, 7) /\ ToEnb(7, Head(up[c]).id, mme_ctx[get_guti(c)].ul, Head(up[c]).arg)
          /\ UNCHANGED mme_w
      BY <2>1 DEF MmeHandover, mmeOwn
    <3>2. /\ mme_w[c].pc = "idle" /\ up[c] # <<>> /\ up' = [up EXCEPT ![c] = Tail(@)]
          /\ Head(up[c]).t = 7
      BY <3>1 DEF Receive
    <3>3. /\ 1 \in DOMAIN up[c] /\ Head(up[c]) = up[c][1] /\ (Len(up[c]) = 1 => up'[c] = <<>>)
      BY <1>t, <3>2, ReceiveQueue
    <3>4. s = 1 /\ Len(up[c]) = 1 /\ up[c][1].arg = c
      BY <1>2, <1>y, <2>q, <3>2, <3>3 DEF HoUp
    <3>5. get_guti(c) = c /\ Head(up[c]).id = ran[c].id
      <4>1. get_guti(c) = c /\ UpTrue(c, Head(up[c]))
        BY <3>1, TakeMessage
      <4> QED
        BY <3>2, <4>1 DEF UpTrue
    <3>6. mme_ctx[c].ul = c
      <4>1. ran[c].pc = "ho"
        BY <1>2, <2>q, <3>4 DEF HoRan
      <4>2. MPresent(c)
        BY <4>1 DEF MPresent
      <4> QED
        BY <1>t, <4>2 DEF Given
    <3>7. toRan = {}
      BY <2>q, <3>4 DEF HoToRan
    <3>8. toRan' = {[t |-> 7, id |-> HoId', arg |-> HoUE, enb |-> HoUE]}
      BY <1>2, <1>t, <3>1, <3>3, <3>4, <3>5, <3>6, <3>7 DEF ToEnb, HoId
    <3>9. HoToRan(2)'
      BY <3>8 DEF HoToRan
    <3>10. HoUp(2)'
      <4>1. up'[0] = <<>> /\ up'[HoUE] = <<>>
        BY <1>2, <1>o, <2>q, <3>3, <3>4 DEF HoUp
      <4>2. DOMAIN up'[HoUE] = {}
        BY <4>1
      <4> QED
        BY <4>1, <4>2 DEF HoUp
    <3>11. HoWorker(2)' /\ HoSgw(2)'
      BY <1>2, <1>t, <1>o, <2>q, <2>h, <3>1, <3>2, <3>4 DEF HoWorker, HoSgw
    <3>12. HoRan(2)'
      BY <1>t, <2>q, <3>4 DEF HoRan, HoId
    <3> QED
      BY <2>m, <3>9, <3>10, <3>11, <3>12
  <2>2. ASSUME MmeHoRequest(c), ran[c].pc = "end", Receive(c, 10),
               mme_w'[c] = [pc |-> "teardown", id |-> Head(up[c]).id, guti |-> c],
               UNCHANGED toRan
        PROVE  HoInv'
    <3>1. /\ mme_w[c].pc = "idle" /\ up[c] # <<>> /\ up' = [up EXCEPT ![c] = Tail(@)]
          /\ UNCHANGED s11r
      BY <2>2 DEF Receive, MmeHoRequest
    <3>2. s > 8
      BY <1>2, <2>q, <2>2 DEF HoRan
    <3>3. s = 12
      BY <1>2, <2>q, <3>1, <3>2 DEF HoUp
    <3>4. up'[c] = <<>>
      <4>1. up[c] = <<[t |-> 10, id |-> HoId, arg |-> HoUE + 1]>>
        BY <1>2, <2>q, <3>3 DEF HoUp
      <4>2. Len(up[c]) = 1
        BY <4>1
      <4> QED
        BY <1>t, <3>1, <4>2, ReceiveQueue
    <3>5. ~Replied(c)'
      <4>1. ~Asks(c)
        BY <3>1 DEF Asks, S11Op
      <4> QED
        BY <1>t, <3>1, <4>1, NoReply DEF Replied
    <3>6. HoToRan(13)'
      BY <2>2, <2>q, <3>3 DEF HoToRan
    <3>7. HoUp(13)'
      <4>1. up'[0] = <<>> /\ up'[HoUE] = <<>>
        BY <1>2, <1>o, <2>q, <3>3, <3>4 DEF HoUp
      <4>2. DOMAIN up'[HoUE] = {}
        BY <4>1
      <4> QED
        BY <4>1, <4>2 DEF HoUp
    <3>8. HoWorker(13)'
      BY <1>2, <1>o, <2>2, <2>q, <3>3 DEF HoWorker
    <3>9. HoSgw(13)'
      BY <1>2, <1>t, <2>q, <3>3, <3>5 DEF HoSgw
    <3> QED
      BY <2>m, <2>r, <3>3, <3>6, <3>7, <3>8, <3>9
  <2>3. ASSUME MmeHoAnswer(c), mme_w[c].pc = "teardown", mme_w'[c].pc = "idle",
               UNCHANGED <<toRan, up>>
        PROVE  HoInv'
    <3>1. s = 13
      <4>1. s > 1
        BY <1>2, <2>3, <2>q DEF HoWorker
      <4> QED
        BY <1>2, <2>3, <2>q, <4>1 DEF HoWorker
    <3>2. PICK r \in Replies(c) : SgwReply(c, r)
      BY <2>3 DEF MmeHoAnswer
    <3>3. Replied(c)
      <4>1. Asks(c)
        BY <2>3 DEF Asks, S11Op
      <4> QED
        BY <1>t, <3>2, <4>1, TakeReply
    <3>4. HoToRan(14)' /\ HoUp(14)'
      BY <1>t, <2>3, <2>q, <3>1 DEF HoToRan, HoUp, HoId
    <3>5. HoWorker(14)'
      BY <1>2, <1>o, <2>3, <2>q, <3>1 DEF HoWorker
    <3>6. HoSgw(14)'
      BY <1>2, <1>t, <2>q, <3>1, <3>3 DEF HoSgw
    <3> QED
      BY <2>m, <2>r, <3>1, <3>4, <3>5, <3>6
  <2>4. ASSUME UNCHANGED toRan, mme_w'[c].pc # "teardown",
               \/ UNCHANGED up /\ mme_w[c].pc \notin {"idle", "teardown"}
               \/ \E t \in 1 .. 5 : Receive(c, t)
        PROVE  HoInv'
    <3>1. s < 2
      <4>1. CASE mme_w[c].pc \notin {"idle", "teardown"}
        BY <1>2, <2>q, <4>1 DEF HoWorker
      <4>2. CASE \E t \in 1 .. 5 : Receive(c, t)
        <5>1. up[c] # <<>> /\ Head(up[c]).t \in 1 .. 5
          BY <4>2 DEF Receive
        <5>2. s = 12 => Head(up[c]).t = 10
          BY <1>2, <2>q DEF HoUp
        <5>3. s > 1 => s = 12
          BY <1>2, <2>q, <5>1 DEF HoUp
        <5> QED
          BY <5>1, <5>2, <5>3
      <4> QED
        BY <2>4, <4>1, <4>2
    <3>2. /\ s = 1 => \E k \in DOMAIN up'[c] : up'[c][k].t = 7
          /\ \A k \in DOMAIN up'[c] :
               up'[c][k].t = 7 => s = 1 /\ k = Len(up'[c]) /\ k < 3 /\ up'[c][k].arg = HoUE
      <4>1. CASE UNCHANGED up
        BY <1>2, <2>q, <4>1 DEF HoUp
      <4>2. CASE \E t \in 1 .. 5 : Receive(c, t)
        <5>1. up[c] # <<>> /\ Head(up[c]).t \in 1 .. 5 /\ up' = [up EXCEPT ![c] = Tail(@)]
          BY <4>2 DEF Receive
        <5>2. /\ 1 \in DOMAIN up[c] /\ Head(up[c]) = up[c][1]
              /\ DOMAIN up'[c] = 1 .. Len(up[c]) - 1 /\ Len(up'[c]) = Len(up[c]) - 1
              /\ \A k \in 1 .. Len(up[c]) - 1 : up'[c][k] = up[c][k + 1]
          BY <1>t, <5>1, ReceiveQueue
        <5>3. \A k \in DOMAIN up[c] :
                up[c][k].t = 7 => s = 1 /\ k = Len(up[c]) /\ k < 3 /\ up[c][k].arg = HoUE
          BY <1>2, <2>q DEF HoUp
        <5>4. ASSUME NEW k \in DOMAIN up'[c], up'[c][k].t = 7
              PROVE  s = 1 /\ k = Len(up'[c]) /\ k < 3 /\ up'[c][k].arg = HoUE
          <6>1. k \in Nat /\ k + 1 \in DOMAIN up[c] /\ up'[c][k] = up[c][k + 1]
            BY <1>y, <5>2, <5>4
          <6>2. s = 1 /\ k + 1 = Len(up[c]) /\ k + 1 < 3 /\ up[c][k + 1].arg = HoUE
            BY <5>3, <5>4, <6>1
          <6> QED
            BY <1>y, <5>2, <6>1, <6>2
        <5>5. ASSUME s = 1 PROVE \E k \in DOMAIN up'[c] : up'[c][k].t = 7
          <6>1. PICK j \in DOMAIN up[c] : up[c][j].t = 7
            BY <1>2, <2>q, <5>5 DEF HoUp
          <6>2. j # 1
            BY <5>1, <5>2, <6>1
          <6>3. j - 1 \in DOMAIN up'[c] /\ up'[c][j - 1] = up[c][j]
            BY <1>y, <5>2, <6>1, <6>2
          <6> QED
            BY <6>1, <6>3
        <5> QED
          BY <5>4, <5>5
      <4> QED
        BY <2>4, <4>1, <4>2
    <3>3. HoUp(s)'
      BY <1>2, <1>o, <2>q, <3>1, <3>2 DEF HoUp
    <3>4. HoToRan(s)' /\ HoRan(s)'
      BY <1>t, <2>4, <2>q, <3>1 DEF HoToRan, HoRan
    <3>5. HoWorker(s)' /\ HoSgw(s)'
      BY <1>2, <1>t, <1>o, <2>4, <2>q, <2>h, <3>1 DEF HoWorker, HoSgw
    <3> QED
      BY <2>m, <3>3, <3>4, <3>5
  <2> QED
    BY <1>t, <2>1, <2>2, <2>3, <2>4, WorkerDoes
<1> QED
  BY <1>1, <1>2
-----------------------------------------------------------------------------
(* The connection of the target eNodeB.                                    *)
LEMMA TargetDoes ==
  ASSUME LockInv, MmeStep(0)
  PROVE  \/ MmeHoRequest(0) /\ mme_w[0].pc = "idle" /\ up[0] # <<>> /\ Head(up[0]).t \in {8, 9}
         \/ MmeHoAnswer(0) /\ mme_w[0].pc \in {"setup", "complete"}
         \/ MmeIgnore(0) /\ up[0] # <<>>
<1>h. mme_w[0].pc \in {"idle", "setup", "complete"} /\ (up[0] # <<>> => Head(up[0]).t \in {8, 9})
  BY HeadOwn, MmeIdentifiers DEF LockInv, MmeInv, TargetHandler
<1>1. ~MmeInitialAttach(0) /\ ~MmeAuthentication(0) /\ ~MmeSecurityComplete(0) /\ ~MmeHandover(0)
  BY <1>h DEF MmeInitialAttach, MmeAuthentication, MmeSecurityComplete, MmeHandover, Receive
<1>2. ~MmeAttachComplete(0) /\ ~MmeDetach(0)
  BY <1>h DEF MmeAttachComplete, MmeDetach, Receive
<1>3. ~MmeAutnInfo(0) /\ ~MmeLocationUpdate(0) /\ ~MmeDetachRemove(0)
  BY <1>h DEF MmeAutnInfo, MmeLocationUpdate, MmeDetachRemove, HandlerAt
<1>4. ~MmeCreateSession(0) /\ ~MmeModifyBearer(0) /\ ~MmeDetachAnswer(0)
  BY <1>h DEF MmeCreateSession, MmeModifyBearer, MmeDetachAnswer, HandlerAt
<1>5. MmeHoRequest(0) => mme_w[0].pc = "idle" /\ up[0] # <<>>
  BY DEF MmeHoRequest, Receive
<1>6. MmeHoAnswer(0) => mme_w[0].pc \in {"setup", "complete"}
  BY <1>h DEF MmeHoAnswer, HandlerAt, HoOp
<1>7. MmeIgnore(0) => up[0] # <<>>
  BY DEF MmeIgnore
<1> QED
  BY <1>h, <1>1, <1>2, <1>3, <1>4, <1>5, <1>6, <1>7 DEF MmeStep

(* What the target has under way is the handover of the one subscriber.    *)
LEMMA TargetSubject ==
  ASSUME LockInv, SessInv, HoInv, up[0] # <<>> \/ mme_w[0].pc # "idle"
  PROVE  /\ HoUE \in UEs /\ s1mme_id[HoId] = HoUE /\ HoId # 0
         /\ mme_ctx[HoUE].teid = HoUE /\ mme_ctx[HoUE].ul = HoUE
         /\ \E s \in {5, 6, 9, 10} : HoAt(s)
<1>1. HoUE \in UEs
  BY DEF HoInv, NoHandover
<1>2. PICK s \in 0 .. 14 : HoAt(s)
  BY <1>1 DEF HoInv
<1>3. s \in {5, 6, 9, 10}
  BY <1>2 DEF HoAt, HoUp, HoWorker
<1>4. ran[HoUE].pc \in {"ho", "end"}
  BY <1>2, <1>3 DEF HoAt, HoRan
<1>5. s1mme_id[HoId] = HoUE /\ s1mme_id[0] = 0 /\ HoUE # 0
  BY <1>1, <1>4, MmeIdentifiers DEF LockInv, EpcInv, Knows, HoId
<1>6. MPresent(HoUE)
  BY <1>4 DEF MPresent
<1> QED
  BY <1>1, <1>2, <1>3, <1>5, <1>6 DEF SessInv, Given

LEMMA MmeTargetSession ==
  ASSUME Orderly, LockInv, SessInv, HoInv, MmeProcess(0)
  PROVE  SessInv' /\ HoInv'
<1> DEFINE n == HoUE
<1>t. /\ EpcTypeInv /\ MmeTypeInv /\ Exchange11 /\ 0 \in Conn /\ UEs \subseteq Conn
      /\ \A m \in UEs : Given(m) /\ Bearer(m) /\ m # 0
      /\ GatewaysStay /\ MmeStep(0)
      /\ UNCHANGED <<ran, ranS, ranT, sgw_th, sgw_ctx, sgw_ho, sgw_id, mme_ctx>>
      /\ mme_w \in [Conn -> [pc : MmePc, id : UeId, guti : Imsi]]
      /\ up \in [Conn -> Seq(Up)]
  BY MmeIdentifiers, MmeGateways, TargetStep
  DEF LockInv, MmeInv, SessInv, EpcTypeInv, EpcTypeOK, MmeTypeOK, SctpTypeOK
<1>o. \A d \in UEs : up'[d] = up[d] /\ down'[d] = down[d] /\ mme_w'[d] = mme_w[d]
  BY <1>t, OtherQueues, OtherHandlers
<1>e. ASSUME Exchange11', \A d \in UEs : Replied(d)' <=> Replied(d) PROVE SessInv'
  <2>1. \A m \in UEs : Given(m)' /\ Bearer(m)' /\ (Present(m)' <=> Present(m))
    BY <1>e, <1>o, <1>t, SignalStays
  <2> QED
    BY <1>e, <1>t, <2>1, SignalInv
<1>a. /\ n \in UEs /\ s1mme_id[HoId] = n /\ HoId # 0 /\ mme_ctx[n].teid = n
      /\ \E s \in {5, 6, 9, 10} : HoAt(s)
  <2>1. up[0] # <<>> \/ mme_w[0].pc # "idle"
    BY <1>t, TargetDoes
  <2> QED
    BY <2>1, TargetSubject
<1>s. PICK s \in {5, 6, 9, 10} : HoAt(s)
  BY <1>a
<1>q. /\ HoToRan(s) /\ HoUp(s) /\ HoWorker(s) /\ HoRan(s) /\ HoSgw(s)
  BY <1>s DEF HoAt
<1>h. On(HoUE, {"ho_add"})' <=> On(HoUE, {"ho_add"})
  BY <1>t DEF On, th
<1>m. ASSUME NEW x \in 0 .. 14, HoToRan(x)', HoUp(x)', HoWorker(x)', HoRan(x)', HoSgw(x)'
      PROVE  HoInv'
  <2>1. HoAt(x)'
    BY <1>m DEF HoAt
  <2> QED
    BY <1>a, <1>t, <1>m, <1>o, <2>1, HoStage
<1>1. CASE MmeHoRequest(0)
  <2>1. PICK h \in HoOp :
          /\ Receive(0, h[1]) /\ AskSgw(0, h[2], mme_ctx[get_guti(0)].teid, 0, Head(up[0]).arg)
          /\ Wait(0, h[2], Head(up[0]).id, get_guti(0)) /\ UNCHANGED <<toRan, s11r>>
    BY <1>1 DEF MmeHoRequest
  <2>2. /\ up[0] # <<>> /\ mme_w[0].pc = "idle" /\ Head(up[0]).t = h[1]
        /\ up' = [up EXCEPT ![0] = Tail(@)]
    BY <2>1 DEF Receive
  <2>3. s \in {5, 9}
    BY <1>q, <2>2 DEF HoUp
  <2>4. up[0] = <<[t |-> IF s = 5 THEN 8 ELSE 9, id |-> HoId, arg |-> IF s = 5 THEN n ELSE 0]>>
    BY <1>q, <2>3 DEF HoUp
  <2>5. /\ Head(up[0]) = [t |-> IF s = 5 THEN 8 ELSE 9, id |-> HoId, arg |-> IF s = 5 THEN n ELSE 0]
        /\ Tail(up[0]) = <<>>
    BY <2>4
  <2>6. h = IF s = 5 THEN <<8, "setup">> ELSE <<9, "complete">>
    BY <2>2, <2>3, <2>5 DEF HoOp
  <2>7. get_guti(0) = n /\ Head(up[0]).id = HoId /\ up'[0] = <<>>
    BY <1>a, <1>t, <2>2, <2>5 DEF get_guti
  <2> DEFINE op == IF s = 5 THEN "setup" ELSE "complete"
             arg == IF s = 5 THEN n ELSE 0
  <2>8. AskSgw(0, op, n, 0, arg) /\ Wait(0, op, HoId, n) /\ op \in S11Op
    BY <1>a, <2>1, <2>3, <2>5, <2>6, <2>7 DEF S11Op
  <2>9. ~Asks(0)
    BY <2>2 DEF Asks, S11Op
  <2>10. /\ op # "create" /\ (op = "setup" => arg = n) /\ op \notin {"modify", "teardown", "detach"}
         /\ (op = "complete" => arg = 0)
    BY <2>3
  <2> HIDE DEF op, arg
  <2>11. Exchange11' /\ \A d \in Conn : Replied(d)' <=> Replied(d)
    BY <1>a, <1>t, <2>1, <2>8, <2>9, <2>10, WorkerAsks
  <2>12. SessInv'
    BY <1>e, <1>t, <2>11
  <2>13. mme_w'[0] = [pc |-> op, id |-> HoId, guti |-> n] /\ ~Replied(0)'
    <3>1. mme_w'[0] = [pc |-> op, id |-> HoId, guti |-> n]
      BY <1>t, <2>8 DEF Wait
    <3> QED
      BY <1>t, <2>9, <2>11, <3>1, NoReply
  <2>14. CASE s = 5
    <3>1. mme_w'[0] = [pc |-> "setup", id |-> HoId', guti |-> n]
      BY <1>t, <2>13, <2>14 DEF op, HoId
    <3>2. HoToRan(6)' /\ HoUp(6)'
      BY <1>a, <1>o, <1>q, <2>1, <2>7, <2>14 DEF HoToRan, HoUp
    <3>3. HoWorker(6)'
      BY <1>a, <1>o, <1>q, <3>1, <2>14 DEF HoWorker
    <3>4. HoRan(6)'
      BY <1>t, <1>q, <2>14 DEF HoRan, HoId
    <3>5. ~On(HoUE, {"ho_add"})
      <4>1. Working /\ On(HoUE, {"ho_add"}) => mme_w[0].pc = "setup"
        BY AtWork DEF On
      <4>2. On(HoUE, {"ho_add"}) => Working
        BY DEF On, Working, Tail11
      <4> QED
        BY <2>2, <4>1, <4>2
    <3>6. HoSgw(6)'
      BY <1>a, <1>o, <1>t, <1>q, <1>h, <2>13, <2>14, <3>5 DEF HoSgw
    <3> QED
      BY <1>m, <2>12, <3>2, <3>3, <3>4, <3>6
  <2>15. CASE s = 9
    <3>1. mme_w'[0] = [pc |-> "complete", id |-> HoId', guti |-> n]
      BY <1>t, <2>13, <2>15 DEF op, HoId
    <3>2. HoToRan(10)' /\ HoUp(10)'
      BY <1>a, <1>o, <1>q, <2>1, <2>7, <2>15 DEF HoToRan, HoUp
    <3>3. HoWorker(10)'
      BY <1>a, <1>o, <1>q, <3>1, <2>15 DEF HoWorker
    <3>4. HoRan(10)'
      BY <1>t, <1>q, <2>15 DEF HoRan, HoId
    <3>5. HoSgw(10)'
      BY <1>a, <1>o, <1>t, <1>q, <2>13, <2>15 DEF HoSgw
    <3> QED
      BY <1>m, <2>12, <3>2, <3>3, <3>4, <3>5
  <2> QED
    BY <2>3, <2>14, <2>15
<1>2. CASE MmeHoAnswer(0)
  <2>1. PICK h \in HoOp, r \in Replies(0) :
          /\ mme_w[0].pc = h[2] /\ SgwReply(0, r) /\ Done(0) /\ UNCHANGED <<up, s11>>
          /\ IF r.ok /\ h[1] # 10 THEN ToEnb(h[1], mme_w[0].id, r.teid, 0) ELSE UNCHANGED toRan
    BY <1>2 DEF MmeHoAnswer, HandlerAt
  <2>2. /\ Asks(0) /\ mme_w'[0].pc = "idle" /\ ~Asks(0)'
    BY <1>t, <2>1 DEF HoOp, Asks, S11Op, Done, Wait
  <2>3. /\ Exchange11' /\ r = Reply(0) /\ Replied(0) /\ ~Replied(0)'
        /\ \A d \in Conn \ {0} : Replied(d)' <=> Replied(d)
    BY <1>t, <2>1, <2>2, WorkerAnswered
  <2>4. SessInv'
    BY <1>e, <1>t, <2>3
  <2>5. s \in {6, 10}
    BY <1>q, <2>2 DEF HoWorker, Asks, S11Op
  <2>6. CASE s = 6
    <3>1. mme_w[0] = [pc |-> "setup", id |-> HoId, guti |-> n]
      BY <1>q, <2>6 DEF HoWorker
    <3>2. h = <<8, "setup">> /\ r.ok /\ r.teid = n + 1
      BY <2>1, <2>3, <3>1 DEF HoOp, Reply
    <3>3. toRan' = {[t |-> 8, id |-> HoId', arg |-> n + 1, enb |-> 0]}
      BY <1>t, <1>q, <2>1, <2>6, <3>1, <3>2 DEF ToEnb, HoToRan, HoId
    <3>4. HoToRan(7)'
      BY <3>3 DEF HoToRan
    <3>5. HoUp(7)' /\ HoWorker(7)'
      BY <1>a, <1>o, <1>q, <2>1, <2>2, <2>6 DEF HoUp, HoWorker
    <3>6. HoRan(7)'
      BY <1>t, <1>q, <2>6 DEF HoRan, HoId
    <3>7. HoSgw(7)'
      BY <1>t, <1>q, <2>3, <2>6 DEF HoSgw
    <3> QED
      BY <1>m, <2>4, <3>4, <3>5, <3>6, <3>7
  <2>7. CASE s = 10
    <3>1. mme_w[0] = [pc |-> "complete", id |-> HoId, guti |-> n]
      BY <1>q, <2>7 DEF HoWorker
    <3>2. h = <<9, "complete">> /\ r.ok /\ r.teid = 0
      BY <2>1, <2>3, <3>1 DEF HoOp, Reply
    <3>3. toRan' = {[t |-> 9, id |-> HoId', arg |-> 0, enb |-> 0]}
      BY <1>t, <1>q, <2>1, <2>7, <3>1, <3>2 DEF ToEnb, HoToRan, HoId
    <3>4. HoToRan(11)'
      BY <3>3 DEF HoToRan
    <3>5. HoUp(11)' /\ HoWorker(11)'
      BY <1>a, <1>o, <1>q, <2>1, <2>2, <2>7 DEF HoUp, HoWorker
    <3>6. HoRan(11)'
      BY <1>t, <1>q, <2>7 DEF HoRan, HoId
    <3>7. HoSgw(11)'
      BY <1>t, <1>q, <2>3, <2>7 DEF HoSgw
    <3> QED
      BY <1>m, <2>4, <3>4, <3>5, <3>6, <3>7
  <2> QED
    BY <2>5, <2>6, <2>7
(* Nothing the target sends is ignored.                                    *)
<1>3. CASE MmeIgnore(0)
  <2>1. up[0] # <<>> /\ (Head(up[0]).id = 0 <=> Head(up[0]).t # 1)
    BY <1>3 DEF MmeIgnore
  <2>2. Head(up[0]).t \in {8, 9} /\ Head(up[0]).id = HoId
    BY <1>q, <2>1 DEF HoUp
  <2> QED
    BY <1>a, <2>1, <2>2
<1> QED
  BY <1>1, <1>2, <1>3, <1>t, TargetDoes
-----------------------------------------------------------------------------
(* The invariant.                                                          *)
OrderlyInv == LockInv /\ RegInv /\ SessInv /\ HoInv

LEMMA SessInit ==
  ASSUME Orderly, EpcInit
  PROVE  SessInv /\ HoInv /\ sgw_up
<1>t. /\ EpcTypeInv /\ 0 \in Conn /\ UEs \subseteq Conn /\ 0 \in Imsi
      /\ \A n \in UEs : n \in Conn /\ n # 0 /\ n \in Imsi /\ n \in Teid
  BY LockInit, MmeIdentifiers DEF LockInv, Teid
<1>1. /\ s11 = {} /\ s11r = {} /\ s5 = {} /\ s5r = {}
      /\ \A c \in Conn : up[c] = <<>> /\ down[c] = <<>> /\ mme_w[c].pc = "idle"
      /\ toRan = {} /\ sgw_up
      /\ \A n \in UEs : ran[n].pc = "off" /\ ran[n].ul = 0
      /\ ranS.state = 0 /\ ranT.pc = "wait" /\ ~ranT.connected
  BY DEF EpcInit, SctpInit, GtpInit, RanInit, MmeInit, SgwInit
<1>2. /\ th.pc = "idle" /\ pw.pc = "idle"
  BY DEF EpcInit, SgwInit, PgwInit, Orderly, th, pw, Idle, PgwIdle
<1>3. /\ \A itf \in Itf, x \in Teid : sgw_id[itf][x] = 0
      /\ \A i \in Imsi : sgw_ctx[i] = NoCtx /\ sgw_ho[i] = NoHo
      /\ \A x \in Teid : pgw_s5[x] = 0
      /\ \A a \in Imsi : pgw_sgi[a] = 0 /\ pgw_ctx[a] = NoPgwCtx /\ mme_ctx[a] = NoMmeCtx
  BY DEF EpcInit, SgwInit, PgwInit, MmeInit
<1>4. /\ ~Working /\ ~Asking5 /\ \A c \in Conn : ~Asks(c) /\ ~Replied(c) /\ ~Served(c)
      /\ \A n : ~On(n, {"init", "wait_create", "rem_s11"}) /\ ~On(n, {"add_s1", "add_s5"})
                /\ ~On(n, {"add_s5", "rem_s1"}) /\ ~On(n, {"rem_s1", "rem_s5"})
                /\ ~On(n, {"wait_create"} \cup Tail11) /\ ~On(n, Tail11)
                /\ ~On(n, {"wait_create"}) /\ ~On(n, {"ho_add"})
      /\ \A n : ~POn(n, {"sgi", "ctx", "rem_s5"}) /\ ~POn(n, {"ctx", "rem_s5", "rem_sgi"})
                /\ ~POn(n, Tail5)
  BY <1>1, <1>2 DEF Working, Asking5, Asks, S11Op, Replied, Served, On, POn, Tail11, Tail5
<1>5. \A n \in UEs : ~Present(n) /\ ~MPresent(n) /\ ~Completes(n) /\ DOMAIN up[n] = {}
  <2>1. \A n \in UEs : up[n] = <<>> /\ ran[n].pc = "off" /\ mme_w[n].pc = "idle"
    BY <1>1, <1>t
  <2>2. \A n \in UEs : DOMAIN up[n] = {}
    <3>1. ASSUME NEW n \in UEs PROVE DOMAIN up[n] = {}
      <4>1. up[n] = <<>>
        BY <2>1
      <4> QED
        BY <4>1
    <3> QED
      BY <3>1
  <2> QED
    BY <2>1, <2>2 DEF Present, MPresent, Completes
<1>6. Exchange11
  BY <1>1, <1>2, <1>4 DEF Exchange11, Line11, Tail11
<1>7. Exchange5
  BY <1>1, <1>2 DEF Exchange5, Tail5
<1>8. SgwExtra /\ PgwExtra
  BY <1>t, <1>3 DEF SgwExtra, PgwExtra
<1>9. ASSUME NEW n \in UEs PROVE SgwRow(n) /\ PgwRow(n) /\ Bearer(n) /\ Given(n)
  <2>1. SgwRow(n)
    <3>1. sgw_ctx[n] = NoCtx /\ \A itf \in Itf : sgw_id[itf][n] = 0 /\ ~Entry(itf, n)
      BY <1>t, <1>3, <1>4, <1>5 DEF Entry
    <3> QED
      BY <3>1, <1>4, <1>5 DEF SgwRow, NoCtx
  <2>2. PgwRow(n)
    BY <1>t, <1>3, <1>4, <1>5 DEF PgwRow, Linked
  <2>3. Bearer(n)
    BY <1>5 DEF Bearer
  <2>4. Given(n)
    <3>1. mme_ctx[n] = NoMmeCtx /\ mme_w[n].pc = "idle" /\ down[n] = <<>> /\ ran[n].pc = "off"
      BY <1>t, <1>1, <1>3
    <3> QED
      BY <3>1, <1>5 DEF Given, NoMmeCtx
  <2> QED
    BY <2>1, <2>2, <2>3, <2>4
<1>10. SessInv
  BY <1>6, <1>7, <1>8, <1>9 DEF SessInv
<1>11. ASSUME HoUE \in UEs PROVE HoAt(0)
  <2>1. HoToRan(0)
    BY <1>1 DEF HoToRan
  <2>2. HoUp(0)
    BY <1>t, <1>1, <1>5, <1>11 DEF HoUp
  <2>3. HoWorker(0)
    BY <1>t, <1>1, <1>11 DEF HoWorker
  <2>4. HoRan(0)
    BY <1>1, <1>11 DEF HoRan
  <2>5. HoSgw(0)
    <3>1. HoUE + 1 \in Teid /\ sgw_ho[HoUE] = NoHo
      BY <1>t, <1>3, <1>11 DEF Teid
    <3>2. sgw_id["s1"][HoUE + 1] = 0
      BY <1>3, <3>1 DEF Itf
    <3> QED
      BY <3>1, <3>2 DEF HoSgw
  <2> QED
    BY <2>1, <2>2, <2>3, <2>4, <2>5 DEF HoAt
<1>12. \A n \in UEs : sgw_ho[n] = NoHo /\ ran[n].pc \notin {"ho", "end"} /\ mme_w[n].pc # "teardown"
  BY <1>t, <1>1, <1>3
<1>13. HoInv
  BY <1>t, <1>1, <1>11, <1>12 DEF HoInv, NoHandover
<1> QED
  BY <1>1, <1>10, <1>13

(* A gateway that runs leaves no session behind that could end it; one     *)
(* that is down, which only the user plane can bring about, does nothing.  *)
LEMMA OrderlyNext ==
  ASSUME Orderly, OrderlyInv, [EpcNext]_epcVars
  PROVE  OrderlyInv' /\ (sgw_up => sgw_up')
<1>t. LockInv /\ RegInv /\ SessInv /\ HoInv /\ LockInv' /\ RegInv'
  BY LockNext, RegNext DEF OrderlyInv
<1>1. CASE RanNext
  <2>1. SessInv' /\ UNCHANGED sgw_up
    BY <1>1, <1>t, RanSession DEF RanNext, sgwOwn
  <2>2. HoInv'
    BY <1>1, <1>t, RanUeHandover, RanHoHandover DEF RanNext
  <2> QED
    BY <1>t, <2>1, <2>2 DEF OrderlyInv
<1>2. ASSUME NEW c \in Conn, MmeProcess(c) PROVE OrderlyInv' /\ UNCHANGED sgw_up
  <2>1. UNCHANGED sgw_up
    BY <1>2, <1>t, MmeGateways
  <2>2. CASE c = 0
    BY <1>2, <1>t, <2>1, <2>2, MmeTargetSession DEF OrderlyInv
  <2>3. CASE c \in UEs
    BY <1>2, <1>t, <2>1, <2>3, MmeUeRest, MmeUeHandover DEF OrderlyInv
  <2> QED
    BY <2>2, <2>3, MmeIdentifiers
<1>3. ASSUME UNCHANGED <<up, down, toRan, gtpVars, ranOwn, mmeOwn, sgwOwn, pgwOwn>>
      PROVE  OrderlyInv' /\ UNCHANGED sgw_up
  BY <1>3, <1>t, HssSession DEF OrderlyInv, sgwOwn
<1>4. ASSUME NEW c \in Conn, HssNext(c) PROVE OrderlyInv' /\ UNCHANGED sgw_up
  BY <1>3, <1>4 DEF HssNext, HssStep, HssAutnInfo, HssExit, HssDeleteLoc, HssInsertLoc
<1>5. ASSUME NEW t \in S11Threads, SgwProcess(t) PROVE OrderlyInv' /\ sgw_up'
  <2>1. sgw_up
    BY <1>5 DEF SgwProcess, SgwStep, SgwCreateSession, SgwCreateItf, SgwCreateCtx, SgwCreateRsp,
                SgwCreateTimeout, SgwCreateFinish, SgwLookup, SgwModifyBearer, SgwExit,
                SgwHoSetup, SgwHoAdd, SgwHoCompletion, SgwHoErase, SgwTeardown, SgwDetach,
                SgwDetachRsp, SgwDetachTimeout, SgwDetachItf, SgwDetachCtx, Take, At
  <2> QED
    BY <1>5, <1>t, <2>1, SgwSession DEF OrderlyInv
<1>6. ASSUME NEW t \in S5Threads, PgwProcess(t) PROVE OrderlyInv' /\ UNCHANGED sgw_up
  <2>1. PgwProcess(PgwT)
    BY <1>6 DEF Orderly
  <2>2. UNCHANGED sgw_up
    BY <1>t, <2>1 DEF PgwProcess, sgwOwn
  <2> QED
    BY <1>t, <2>1, <2>2, PgwSession, PgwHandover DEF OrderlyInv
<1>7. CASE UNCHANGED epcVars
  BY <1>3, <1>7 DEF epcVars, sctpVars
<1> QED
  BY <1>1, <1>2, <1>4, <1>5, <1>6, <1>7 DEF EpcNext

LEMMA OrderlyInvariant ==
  ASSUME Orderly
  PROVE  EpcSpec => [](OrderlyInv /\ sgw_up)
<1>1. EpcInit => OrderlyInv /\ sgw_up
  BY LockInit, RegInit, SessInit DEF OrderlyInv
<1>2. OrderlyInv /\ sgw_up /\ [EpcNext]_epcVars => (OrderlyInv /\ sgw_up)'
  BY OrderlyNext
<1> QED
  BY <1>1, <1>2, PTL DEF EpcSpec
=============================================================================
