--------------------------------- MODULE Mme ---------------------------------
(***************************************************************************)
(* The mobility management entity (mme.cpp, mme_server.cpp).               *)
(*                                                                         *)
(* A connection is in the server's queue or with one worker, so a          *)
(* connection has one handler at a time, and handlers of different         *)
(* connections interleave.  A step runs from one exchange with the HSS or  *)
(* the SGW to the next.  It may take s1mmeid_mux and uectx_mux several     *)
(* times; but apart from ue_count, which one critical section increments   *)
(* and reads, what it touches is the entry of its own id and the context   *)
(* of its own GUTI, and the only handlers that run beside it for the same  *)
(* subscriber, those of a handover's second connection, only read them.    *)
(***************************************************************************)
EXTENDS SctpNet

CONSTANT MaxS11Timeouts   \* bound: the answers of the SGW given up on one connection

ASSUME MaxS11TimeoutsAssumption == MaxS11Timeouts \in Nat
ASSUME S11SockAssumption == Conn \X (0 .. MaxS11Timeouts) \subseteq S11Sock

VARIABLES
  ue_count,    \* the last mme_s1ap_ue_id given out
  s1mme_id,    \* mme_s1ap_ue_id -> GUTI, 0 where there is no entry
  mme_ctx,     \* ue_ctx: GUTI -> UeContext
  mme_w,       \* the handler on each connection
  mme_up,      \* the process is running
  s11port      \* the ephemeral port of the handler's UdpClient towards the SGW

mmeOwn == <<ue_count, s1mme_id, mme_ctx, mme_w, mme_up, s11port>>
mmeVars == <<sctpVars, gtpVars, mmeOwn>>
-----------------------------------------------------------------------------
(* ue_ctx is only reached through operator[] and erase, so a context that  *)
(* is not there is one with all fields zero.  xres is what the HSS         *)
(* computed, teid is s11_cteid_sgw, ul and dl are the S1 TEIDs.            *)
MmeCtx == [imsi : Imsi, xres : Imsi, teid : Teid, ul : Teid, dl : Teid,
           emm : {0, 1}, ecm : {0, 1}]
NoMmeCtx == [imsi |-> 0, xres |-> 0, teid |-> 0, ul |-> 0, dl |-> 0,
             emm |-> 0, ecm |-> 0]

MmePc == {"idle", "autn", "loc", "rem"} \cup S11Op

MmeTypeOK ==
  /\ ue_count \in UeId
  /\ s1mme_id \in [UeId -> Imsi]
  /\ mme_ctx \in [Imsi -> MmeCtx]
  /\ mme_w \in [Conn -> [pc : MmePc, id : UeId, guti : Imsi]]
  /\ mme_up \in BOOLEAN
  /\ s11port \in [Conn -> 0 .. MaxS11Timeouts]

MmeInit ==
  /\ ue_count = 0
  /\ s1mme_id = [i \in UeId |-> 0]
  /\ mme_ctx = [g \in Imsi |-> NoMmeCtx]
  /\ mme_w = [c \in Conn |-> [pc |-> "idle", id |-> 0, guti |-> 0]]
  /\ mme_up = TRUE
  /\ s11port = [c \in Conn |-> 0]
-----------------------------------------------------------------------------
(* handle_ue: the worker reads one message and calls its handler; the      *)
(* message names a subscriber exactly if it is not an initial attach.      *)
Receive(c, t) ==
  /\ mme_up
  /\ mme_w[c].pc = "idle"
  /\ up[c] # <<>>
  /\ Head(up[c]).t = t /\ (Head(up[c]).id = 0 <=> t = 1)
  /\ up' = [up EXCEPT ![c] = Tail(@)]

get_guti(c) == s1mme_id[Head(up[c]).id]

HandlerAt(c, pc) == mme_up /\ mme_w[c].pc = pc

Wait(c, pc, id, guti) ==
  mme_w' = [mme_w EXCEPT ![c] = [pc |-> pc, id |-> id, guti |-> guti]]

Done(c) == Wait(c, "idle", 0, 0)

ToUe(c, t, id, arg, guti, ip) ==
  down' = [down EXCEPT ![c] =
             Append(@, [t |-> t, id |-> id, arg |-> arg, guti |-> guti, ip |-> ip])]

ToEnb(t, id, arg, enb) ==
  toRan' = toRan \cup {[t |-> t, id |-> id, arg |-> arg, enb |-> enb]}

(* Faulty variant: the header's TEID is not filled in.                     *)
AskWithoutTeid(c, op, teid, imsi, arg) ==
  s11' = s11 \cup {[op |-> op, sock |-> <<c, s11port[c]>>, teid |-> 0,
                    imsi |-> imsi, arg |-> arg]}

AskSgw(c, op, teid, imsi, arg) ==
  s11' = s11 \cup {[op |-> op, sock |-> <<c, s11port[c]>>, teid |-> teid,
                    imsi |-> imsi, arg |-> arg]}

(* What sgw_client.rcv leaves in the packet: an answer, or zeros after     *)
(* five seconds; the next UdpClient has another port.                      *)
Nothing(c) == [op |-> mme_w[c].pc, sock |-> <<c, s11port[c]>>, ok |-> FALSE,
               teid |-> 0, ip |-> 0]

SgwAnswers(c, r) ==
  /\ r \in s11r /\ r.sock = <<c, s11port[c]>>
  /\ s11r' = s11r \ {r}
  /\ UNCHANGED s11port

SgwTimeout(c, r) ==
  /\ r = Nothing(c)
  /\ s11port[c] < MaxS11Timeouts
  /\ s11port' = [s11port EXCEPT ![c] = @ + 1]
  /\ UNCHANGED s11r

SgwReply(c, r) == SgwAnswers(c, r) \/ SgwTimeout(c, r)

Replies(c) == s11r \cup {Nothing(c)}

(* Faulty variants: the id, or the context, stays.                         *)
ForgetCtx(id, guti) ==
  mme_ctx' = [mme_ctx EXCEPT ![guti] = NoMmeCtx] /\ UNCHANGED s1mme_id
ForgetId(id, guti) == s1mme_id' = [s1mme_id EXCEPT ![id] = 0] /\ UNCHANGED mme_ctx

(* rem_itfid and rem_uectx: two critical sections, one step.  No handler   *)
(* of another subscriber looks at either entry, so what is lost is only    *)
(* the state between the two, in which the id is gone and the context is   *)
(* not.                                                                    *)
Forget(id, guti) ==
  /\ s1mme_id' = [s1mme_id EXCEPT ![id] = 0]
  /\ mme_ctx' = [mme_ctx EXCEPT ![guti] = NoMmeCtx]
-----------------------------------------------------------------------------
(* Attach.                                                                 *)

(* Faulty variant: the counter is not incremented.                         *)
SameUeId == ue_count

NextUeId == ue_count + 1

(* handle_initial_attach, up to its question to the HSS.  UeContext::init  *)
(* leaves the rest of a context that is there already.                     *)
MmeInitialAttach(c) ==
  LET n == Head(up[c]).arg IN
  /\ Receive(c, 1)
  /\ ue_count < MaxUeId
  /\ ue_count' = NextUeId
  /\ s1mme_id' = [s1mme_id EXCEPT ![NextUeId] = n]
  /\ mme_ctx' = [mme_ctx EXCEPT ![n].imsi = n]
  /\ s6a' = [s6a EXCEPT ![c] = [k |-> "autn", x |-> n]]
  /\ Wait(c, "autn", NextUeId, n)
  /\ UNCHANGED <<down, toRan, gtpVars, mme_up, s11port>>

MmeAutnInfo(c) ==
  LET w == mme_w[c] IN
  /\ HandlerAt(c, "autn")
  /\ s6a[c].k = "autn_ok"
  /\ s6a' = [s6a EXCEPT ![c] = NoS6a]
  /\ mme_ctx' = [mme_ctx EXCEPT ![w.guti].xres = s6a[c].x]
  /\ ToUe(c, 1, w.id, s6a[c].x, 0, 0)
  /\ Done(c)
  /\ UNCHANGED <<up, toRan, gtpVars, ue_count, s1mme_id, mme_up, s11port>>

(* handle_autn, and handle_security_mode_cmd if it succeeds; if not, the   *)
(* subscriber is forgotten and hears nothing.                              *)
MmeAuthentication(c) ==
  LET m == Head(up[c])
      g == get_guti(c)
  IN /\ Receive(c, 2)
     /\ \/ /\ m.arg = mme_ctx[g].xres
           /\ ToUe(c, 2, m.id, 0, 0, 0)
           /\ UNCHANGED <<s1mme_id, mme_ctx>>
        \/ /\ m.arg # mme_ctx[g].xres
           /\ Forget(m.id, g)
           /\ UNCHANGED down
     /\ UNCHANGED <<toRan, s6a, gtpVars, ue_count, mme_w, mme_up, s11port>>

(* handle_security_mode_complete, which the RAN always sends with success, *)
(* and handle_location_update up to its question.                          *)
MmeSecurityComplete(c) ==
  LET g == get_guti(c) IN
  /\ Receive(c, 3)
  /\ s6a' = [s6a EXCEPT ![c] = [k |-> "loc", x |-> mme_ctx[g].imsi]]
  /\ Wait(c, "loc", Head(up[c]).id, g)
  /\ UNCHANGED <<down, toRan, gtpVars, ue_count, s1mme_id, mme_ctx, mme_up, s11port>>

(* Faulty variant: digits are cut off at the wrong place.                  *)
WrongS11Teid(guti) == guti + 2

(* The rest of handle_location_update, handle_create_session up to its     *)
(* question.  get_s11cteidmme drops the seven digits before the            *)
(* subscriber's number from the GUTI; of GUTI 0 nothing is left and the    *)
(* exception ends the process.                                             *)
get_s11cteidmme(guti) == guti

MmeLocationUpdate(c) ==
  LET w == mme_w[c] IN
  /\ HandlerAt(c, "loc")
  /\ s6a[c].k = "loc_ok"
  /\ s6a' = [s6a EXCEPT ![c] = NoS6a]
  /\ \/ /\ w.guti # 0
        /\ AskSgw(c, "create", 0, mme_ctx[w.guti].imsi, get_s11cteidmme(w.guti))
        /\ Wait(c, "create", w.id, w.guti)
        /\ UNCHANGED mme_up
     \/ /\ w.guti = 0
        /\ mme_up' = FALSE
        /\ UNCHANGED <<s11, mme_w>>
  /\ UNCHANGED <<up, down, toRan, s11r, s5, s5r, ue_count, s1mme_id, mme_ctx, s11port>>

(* The attach is accepted whatever the SGW said.                           *)
MmeCreateSession(c) ==
  LET w == mme_w[c] IN
  \E r \in Replies(c) :
    /\ HandlerAt(c, "create")
    /\ SgwReply(c, r)
    /\ mme_ctx' = [mme_ctx EXCEPT ![w.guti].teid = r.teid, ![w.guti].ul = r.teid]
    /\ ToUe(c, 3, w.id, r.teid, w.guti, r.ip)
    /\ Done(c)
    /\ UNCHANGED <<up, toRan, s6a, s11, s5, s5r, ue_count, s1mme_id, mme_up>>

(* handle_attach_complete and handle_modify_bearer                         *)
MmeAttachComplete(c) ==
  LET m == Head(up[c])
      g == get_guti(c)
  IN /\ Receive(c, 4)
     /\ mme_ctx' = [mme_ctx EXCEPT ![g].dl = m.arg, ![g].emm = 1]
     /\ AskSgw(c, "modify", mme_ctx[g].teid, 0, m.arg)
     /\ Wait(c, "modify", m.id, g)
     /\ UNCHANGED <<down, toRan, s6a, s11r, s5, s5r, ue_count, s1mme_id, mme_up, s11port>>

MmeModifyBearer(c) ==
  LET w == mme_w[c] IN
  \E r \in Replies(c) :
    /\ HandlerAt(c, "modify")
    /\ SgwReply(c, r)
    /\ mme_ctx' = IF r.ok THEN [mme_ctx EXCEPT ![w.guti].ecm = 1] ELSE mme_ctx
    /\ Done(c)
    /\ UNCHANGED <<sctpVars, s11, s5, s5r, ue_count, s1mme_id, mme_up>>
-----------------------------------------------------------------------------
(* Detach.                                                                 *)

(* handle_detach: a GUTI of 0 ends the process; the GUTI of the body       *)
(* replaces the one found, and is what is removed in the end.              *)
MmeDetach(c) ==
  LET m == Head(up[c])
      g == get_guti(c)
  IN /\ Receive(c, 5)
     /\ \/ /\ g # 0
           /\ AskSgw(c, "detach", mme_ctx[g].teid, 0, 0)
           /\ Wait(c, "detach", m.id, m.arg)
           /\ UNCHANGED mme_up
        \/ /\ g = 0
           /\ mme_up' = FALSE
           /\ UNCHANGED <<s11, mme_w>>
     /\ UNCHANGED <<down, toRan, s6a, s11r, s5, s5r, ue_count, s1mme_id, mme_ctx, s11port>>

(* Without the SGW's consent there is no answer; with it the answer goes   *)
(* out before anything is removed.                                         *)
MmeDetachAnswer(c) ==
  LET w == mme_w[c] IN
  \E r \in Replies(c) :
    /\ HandlerAt(c, "detach")
    /\ SgwReply(c, r)
    /\ IF r.ok THEN ToUe(c, 5, w.id, 0, 0, 0) /\ Wait(c, "rem", w.id, w.guti)
               ELSE Done(c) /\ UNCHANGED down
    /\ UNCHANGED <<up, toRan, s6a, s11, s5, s5r, ue_count, s1mme_id, mme_ctx, mme_up>>

MmeDetachRemove(c) ==
  LET w == mme_w[c] IN
  /\ HandlerAt(c, "rem")
  /\ Forget(w.id, w.guti)
  /\ Done(c)
  /\ UNCHANGED <<sctpVars, gtpVars, ue_count, mme_up, s11port>>
-----------------------------------------------------------------------------
(* Handover.                                                               *)

(* handle_handover, request_target_RAN                                     *)
MmeHandover(c) ==
  LET m == Head(up[c]) IN
  /\ Receive(c, 7)
  /\ ToEnb(7, m.id, mme_ctx[get_guti(c)].ul, m.arg)
  /\ UNCHANGED <<down, s6a, gtpVars, mmeOwn>>

(* Faulty variant: the completion is not dispatched.                       *)
HoOpWithoutCompletion == {<<8, "setup">>, <<10, "teardown">>}

(* setup_indirect_tunnel, handle_handover_completion and                   *)
(* teardown_indirect_tunnel ask the SGW about the session of the message's *)
(* subscriber.                                                             *)
HoOp == {<<8, "setup">>, <<9, "complete">>, <<10, "teardown">>}

MmeHoRequest(c) ==
  \E h \in HoOp :
    LET m == Head(up[c])
        g == get_guti(c)
    IN /\ Receive(c, h[1])
       /\ AskSgw(c, h[2], mme_ctx[g].teid, 0, m.arg)
       /\ Wait(c, h[2], m.id, g)
       /\ UNCHANGED <<down, toRan, s6a, s11r, s5, s5r, ue_count, s1mme_id,
                      mme_ctx, mme_up, s11port>>

(* If the SGW agrees, the source eNodeB hears of the first two.  If not,   *)
(* the MME connects to it all the same and closes the connection without a *)
(* message, which is left out.                                             *)
MmeHoAnswer(c) ==
  LET w == mme_w[c] IN
  \E h \in HoOp, r \in Replies(c) :
    /\ HandlerAt(c, h[2])
    /\ SgwReply(c, r)
    /\ IF r.ok /\ h[1] # 10 THEN ToEnb(h[1], w.id, r.teid, 0) ELSE UNCHANGED toRan
    /\ Done(c)
    /\ UNCHANGED <<up, down, s6a, s11, s5, s5r, ue_count, s1mme_id, mme_ctx, mme_up>>

(* A message that does not fit its id falls into a default case.           *)
MmeIgnore(c) ==
  /\ mme_up /\ mme_w[c].pc = "idle" /\ up[c] # <<>>
  /\ Head(up[c]).id = 0 <=> Head(up[c]).t # 1
  /\ up' = [up EXCEPT ![c] = Tail(@)]
  /\ UNCHANGED <<down, toRan, s6a, gtpVars, mmeOwn>>

MmeStep(c) ==
  \/ MmeInitialAttach(c) \/ MmeAutnInfo(c) \/ MmeAuthentication(c)
  \/ MmeSecurityComplete(c) \/ MmeLocationUpdate(c) \/ MmeCreateSession(c)
  \/ MmeAttachComplete(c) \/ MmeModifyBearer(c)
  \/ MmeDetach(c) \/ MmeDetachAnswer(c) \/ MmeDetachRemove(c)
  \/ MmeHandover(c) \/ MmeHoRequest(c) \/ MmeHoAnswer(c) \/ MmeIgnore(c)

(* A message an eNodeB may send on the connection of subscriber c: its id  *)
(* was given out, and is c's or nobody's by now; an attach and a detach    *)
(* name c.                                                                 *)
OwnMessage(c, m) ==
  /\ m.id \in 0 .. ue_count /\ s1mme_id[m.id] \in {0, c}
  /\ m.t \in {1, 5} => m.arg = c

(* Whoever else moves sends such messages, on the connection of the target *)
(* eNodeB those of a handover, in any order; and any answers.              *)
MmeEnv ==
  /\ SctpTypeOK'
  /\ \A c \in UEs : \A k \in DOMAIN up'[c] : OwnMessage(c, up'[c][k])
  /\ \A k \in DOMAIN up'[0] : up'[0][k].t \in {8, 9}
  /\ s11' \subseteq S11Req /\ s11r' \subseteq S11Rsp
  /\ UNCHANGED mmeOwn

MmeNext == MmeEnv \/ \E c \in Conn : MmeStep(c)

MmeSpec == SctpInit /\ GtpInit /\ MmeInit /\ [][MmeNext]_mmeVars
-----------------------------------------------------------------------------
(* An id is given out once: no subscriber's id is overwritten by another   *)
(* attach, and none lies ahead of the counter (ue_count and s1mme_id under *)
(* s1mmeid_mux).                                                           *)
IdsGivenOnce ==
  [][\A i \in UeId : /\ s1mme_id'[i] \in {0, s1mme_id[i]} \/ i > ue_count
                     /\ ue_count' < i => s1mme_id'[i] = 0]_mmeVars

(* A subscriber's context is reachable by some id: what no message can     *)
(* name, no detach would ever remove (handle_autn, handle_detach).         *)
ContextReachable ==
  \A g \in UEs : mme_ctx[g] # NoMmeCtx => \E i \in UeId : s1mme_id[i] = g

(* What a handler writes once the HSS or the SGW has answered goes to the  *)
(* subscriber whose message it handles, although the tables change while   *)
(* it waits: its id still means its GUTI (the two handlers of the target   *)
(* eNodeB's connection write nothing).                                     *)
HandlerKeepsSubscriber ==
  \A c \in UEs : mme_w[c].pc # "idle" => s1mme_id[mme_w[c].id] = mme_w[c].guti
=============================================================================
