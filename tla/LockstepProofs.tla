-------------------------- MODULE LockstepProofs --------------------------
(***************************************************************************)
(* Proofs about the procedures that run through all five programs.  The    *)
(* RAN reads a message without looking at its type and the MME looks up an *)
(* id without knowing whose connection it came on: that they understand    *)
(* each other all the same is an invariant of who may say what when        *)
(* (EpcInv), for every number of subscribers and every interleaving,       *)
(* timeouts of the gateways included.                                      *)
(***************************************************************************)
EXTENDS EpcProofs

(* The messages the MME answers on the connection they came on, and what   *)
(* its worker does between the message and the answer.                     *)
Answered == {1, 2, 3, 5}
Answering == {"autn", "loc", "create", "detach"}

(* What may be under way from a subscriber, and what the worker of its     *)
(* connection may be doing, by where its thread is.                        *)
Says == [off |-> {}, auth |-> {1}, sec |-> {2}, eps |-> {3}, attached |-> {4},
         bye |-> {4, 5}, ho |-> {4, 7}, end |-> {4, 7, 10}]
Serves == [off |-> {"idle", "rem"}, auth |-> {"idle", "rem", "autn"}, sec |-> {"idle"},
           eps |-> {"idle", "loc", "create"}, attached |-> {"idle", "modify"},
           bye |-> {"idle", "modify", "detach", "rem"},
           ho |-> {"idle", "modify", "teardown"}, end |-> {"idle", "modify", "teardown"}]

(* One of the two talks at a time: the subscriber asks last, the worker    *)
(* answers when nothing else is under way.                                 *)
Turn(n) ==
  /\ \A k \in DOMAIN up[n] : /\ up[n][k].t \in Says[ran[n].pc]
                             /\ up[n][k].t \in Answered => k = Len(up[n])
  /\ mme_w[n].pc \in Serves[ran[n].pc]
  /\ mme_w[n].pc \in Answering => up[n] = <<>> /\ down[n] = <<>>
  /\ mme_w[n].pc = "rem" /\ ran[n].pc = "bye" => up[n] = <<>>
  /\ down[n] # <<>> =>
       /\ Len(down[n]) = 1 /\ down[n][1].t = Expected[ran[n].pc]
       /\ up[n] = <<>>
       /\ mme_w[n].pc = "idle" \/ (mme_w[n].pc = "rem" /\ ran[n].pc = "bye")

(* What they say is true: the id is the subscriber's, so is the GUTI, and  *)
(* the result of an authentication is the one the MME expects.             *)
UpTrue(n, m) ==
  /\ m.t = 1 => m.id = 0 /\ m.arg = n
  /\ m.t # 1 => m.id = ran[n].id /\ s1mme_id[m.id] = n
  /\ m.t = 2 => m.arg = mme_ctx[n].xres
  /\ m.t = 5 => m.arg = n

DownTrue(n, m) ==
  /\ m.t = 1 => s1mme_id[m.id] = n /\ mme_ctx[n].xres = m.arg
  /\ m.t = 3 => m.guti = n

Knows(n) ==
  /\ \A k \in DOMAIN up[n] : UpTrue(n, up[n][k])
  /\ down[n] # <<>> => DownTrue(n, down[n][1])
  /\ ran[n].pc \in {"sec", "eps", "attached", "ho", "end"} => s1mme_id[ran[n].id] = n
  /\ ran[n].pc \in {"attached", "bye", "ho", "end"} => ran[n].guti = n
  /\ mme_w[n].pc # "idle" => mme_w[n].guti = n

(* No two subscribers use one id.                                          *)
Apart(n) ==
  /\ ran[n].id \in 0 .. ue_count /\ s1mme_id[ran[n].id] \in {0, n}
  /\ \A m \in UEs \ {n} : ran[n].id # 0 => ran[n].id # ran[m].id

(* The handover is completed by a source that has nothing left to ask.     *)
AtEnd == \A n \in UEs \cap {HoUE} : ran[n].pc = "end"
Completing ==
  \/ \E k \in DOMAIN up[0] : up[0][k].t = 9
  \/ mme_w[0].pc = "complete"
  \/ \E m \in toRan : m.t = 9

EpcInv ==
  /\ mme_up /\ s1mme_id[0] = 0 /\ (Completing => AtEnd)
  /\ \A n \in UEs : Turn(n) /\ Knows(n) /\ Apart(n)

LockInv == EpcTypeInv /\ MmeInv /\ EpcInv
-----------------------------------------------------------------------------
(* Queues.                                                                 *)

LEMMA HeadElement ==
  ASSUME NEW S, NEW s \in Seq(S), s # <<>>
  PROVE  /\ s[1] \in S /\ Head(s) = s[1]
         /\ Len(s) = 1 => Tail(s) = <<>>
<1>1. Len(s) \in Nat \ {0}
  BY EmptySeq
<1>2. 1 \in 1 .. Len(s)
  BY <1>1
<1>3. s[1] \in S
  BY <1>2, ElementOfSeq
<1>4. Head(s) = s[1]
  OBVIOUS
<1>5. ASSUME Len(s) = 1 PROVE Tail(s) = <<>>
  <2>1. Tail(s) \in Seq(S) /\ Len(Tail(s)) = Len(s) - 1
    BY HeadTailProperties
  <2>2. Len(Tail(s)) = 0
    BY <1>5, <2>1
  <2> QED
    BY <2>1, <2>2, EmptySeq
<1> QED
  BY <1>3, <1>4, <1>5

LEMMA Queues ==
  ASSUME EpcTypeInv, NEW c \in Conn
  PROVE  /\ up[c] \in Seq(Up) /\ Len(up[c]) \in Nat /\ DOMAIN up[c] = 1 .. Len(up[c])
         /\ up[c] = <<>> <=> Len(up[c]) = 0
         /\ down[c] \in Seq(Down) /\ (down[c] # <<>> => down[c][1] \in Down)
         /\ \A k \in DOMAIN up[c] : up[c][k].id \in UeId
<1>1. up[c] \in Seq(Up) /\ down[c] \in Seq(Down)
  BY DEF EpcTypeInv, EpcTypeOK, SctpTypeOK
<1>2. Len(up[c]) \in Nat /\ DOMAIN up[c] = 1 .. Len(up[c])
  BY <1>1, LenProperties
<1>3. (up[c] = <<>> <=> Len(up[c]) = 0) /\ (down[c] # <<>> => down[c][1] \in Down)
  BY <1>1, EmptySeq, HeadElement
<1>4. \A k \in DOMAIN up[c] : up[c][k].id \in UeId
  BY <1>1, <1>2, ElementOfSeq DEF Up, UpAny
<1> QED
  BY <1>1, <1>2, <1>3, <1>4

LEMMA SendQueue ==
  ASSUME EpcTypeInv, NEW c \in Conn, NEW t, NEW id, NEW arg, Send(c, t, id, arg)
  PROVE  /\ DOMAIN up'[c] = 1 .. Len(up[c]) + 1 /\ Len(up'[c]) = Len(up[c]) + 1
         /\ \A k \in 1 .. Len(up[c]) : up'[c][k] = up[c][k]
         /\ up'[c][Len(up[c]) + 1] = [t |-> t, id |-> id, arg |-> arg]
         /\ \A d \in Conn \ {c} : up'[d] = up[d]
<1> DEFINE m == [t |-> t, id |-> id, arg |-> arg]
<1>1. up \in [Conn -> Seq(Up)]
  BY DEF EpcTypeInv, EpcTypeOK, SctpTypeOK
<1>2. up'[c] = Append(up[c], m) /\ \A d \in Conn \ {c} : up'[d] = up[d]
  BY <1>1 DEF Send
<1> HIDE DEF m
<1>3. up[c] \in Seq(Up)
  BY <1>1
<1>4. /\ DOMAIN Append(up[c], m) = 1 .. Len(up[c]) + 1 /\ Len(Append(up[c], m)) = Len(up[c]) + 1
      /\ \A k \in 1 .. Len(up[c]) : Append(up[c], m)[k] = up[c][k]
      /\ Append(up[c], m)[Len(up[c]) + 1] = m
  BY <1>3
<1> QED
  BY <1>2, <1>4 DEF m

LEMMA SendAlone ==
  ASSUME EpcTypeInv, NEW c \in Conn, NEW t, NEW id, NEW arg, Send(c, t, id, arg),
         up[c] = <<>>
  PROVE  /\ DOMAIN up'[c] = {1} /\ Len(up'[c]) = 1
         /\ up'[c][1] = [t |-> t, id |-> id, arg |-> arg]
<1>1. Len(up[c]) = 0
  BY Queues
<1>2. DOMAIN up'[c] = 1 .. Len(up[c]) + 1
  BY SendQueue
<1>4. Len(up'[c]) = Len(up[c]) + 1
  BY SendQueue
<1>5. up'[c][Len(up[c]) + 1] = [t |-> t, id |-> id, arg |-> arg]
  BY SendQueue
<1>3. 0 + 1 = 1 /\ 1 .. 1 = {1}
  OBVIOUS
<1> QED
  BY <1>1, <1>2, <1>3, <1>4, <1>5

LEMMA RcvQueue ==
  ASSUME EpcTypeInv, NEW n \in UEs, Turn(n), Rcv(n)
  PROVE  /\ up[n] = <<>> /\ Head(down[n]) = down[n][1]
         /\ down'[n] = <<>> /\ \A m \in UEs \ {n} : down'[m] = down[m]
         /\ down[n] # <<>>
<1>1. n \in Conn /\ UEs \subseteq Conn
  BY MmeIdentifiers
<1>2. down \in [Conn -> Seq(Down)] /\ down[n] \in Seq(Down)
  BY <1>1 DEF EpcTypeInv, EpcTypeOK, SctpTypeOK
<1>3. down[n] # <<>> /\ Len(down[n]) = 1 /\ up[n] = <<>>
  BY DEF Rcv, Turn
<1>4. Tail(down[n]) = <<>> /\ Head(down[n]) = down[n][1]
  BY <1>2, <1>3, HeadElement
<1> QED
  BY <1>1, <1>2, <1>3, <1>4 DEF Rcv

LEMMA ReceiveQueue ==
  ASSUME EpcTypeInv, NEW c \in Conn, up[c] # <<>>, up' = [up EXCEPT ![c] = Tail(@)]
  PROVE  /\ 1 \in DOMAIN up[c] /\ Head(up[c]) = up[c][1]
         /\ DOMAIN up'[c] = 1 .. Len(up[c]) - 1 /\ Len(up'[c]) = Len(up[c]) - 1
         /\ \A k \in 1 .. Len(up[c]) - 1 : up'[c][k] = up[c][k + 1]
         /\ Len(up[c]) = 1 => up'[c] = <<>>
         /\ \A d \in Conn \ {c} : up'[d] = up[d]
<1>1. up \in [Conn -> Seq(Up)] /\ up[c] \in Seq(Up)
  BY DEF EpcTypeInv, EpcTypeOK, SctpTypeOK
<1>2. up'[c] = Tail(up[c]) /\ \A d \in Conn \ {c} : up'[d] = up[d]
  BY <1>1
<1>3. Len(up[c]) \in Nat /\ Len(up[c]) # 0
  BY Queues
<1>4. /\ Head(up[c]) = up[c][1] /\ Len(Tail(up[c])) = Len(up[c]) - 1
      /\ DOMAIN Tail(up[c]) = 1 .. Len(up[c]) - 1
      /\ \A k \in 1 .. Len(up[c]) - 1 : Tail(up[c])[k] = up[c][k + 1]
      /\ Len(up[c]) = 1 => Tail(up[c]) = <<>>
  BY <1>1, <1>3
<1>5. 1 \in DOMAIN up[c]
  BY <1>3, Queues
<1> QED
  BY <1>2, <1>4, <1>5
-----------------------------------------------------------------------------
(* A subscriber nobody works for has nothing to fear from the others.      *)
LEMMA Untouched ==
  ASSUME EpcTypeInv, NEW n \in UEs, Turn(n), Knows(n),
         ran'[n] = ran[n], up'[n] = up[n], down'[n] = down[n], mme_w'[n] = mme_w[n],
         mme_ctx'[n] = mme_ctx[n],
         \A i \in UeId : s1mme_id[i] = n => s1mme_id'[i] = n
  PROVE  Turn(n)' /\ Knows(n)'
<1>n. n \in Conn
  BY MmeIdentifiers
<1>1. Turn(n)'
  BY DEF Turn
<1>2. ran[n].id \in UeId
  BY DEF EpcTypeInv, EpcTypeOK, RanTypeOK, RanCtx
<1>3. ASSUME NEW k \in DOMAIN up[n] PROVE UpTrue(n, up[n][k])'
  <2>1. UpTrue(n, up[n][k]) /\ up[n][k].id \in UeId
    BY <1>n, Queues DEF Knows
  <2> QED
    BY <2>1 DEF UpTrue
<1>4. ASSUME down[n] # <<>> PROVE DownTrue(n, down[n][1])'
  <2>2. down[n][1].id \in UeId
    BY <1>4, <1>n, Queues DEF Down
  <2> QED
    BY <1>4, <2>2 DEF Knows, DownTrue
<1>5. Knows(n)'
  BY <1>2, <1>3, <1>4 DEF Knows
<1> QED
  BY <1>1, <1>5
-----------------------------------------------------------------------------
(* The steps of the RAN.                                                   *)

(* A thread's own step concerns its own connection.                        *)
LEMMA RanOthers ==
  ASSUME EpcTypeInv, NEW n \in UEs, Turn(n), RanUeStep(n)
  PROVE  /\ UNCHANGED toRan
         /\ \A d \in Conn \ {n} : up'[d] = up[d]
         /\ \A m \in UEs \ {n} : ran'[m] = ran[m] /\ down'[m] = down[m]
<1>n. n \in Conn
  BY MmeIdentifiers
<1>r. ran \in [UEs -> RanCtx]
  BY DEF EpcTypeInv, EpcTypeOK, RanTypeOK
<1>1. UNCHANGED toRan /\ \A m \in UEs \ {n} : ran'[m] = ran[m]
  BY <1>r DEF RanUeStep, RanInitialAttach, RanAuthenticate, RanSetSecurity, RanSetEpsSession,
              RanDetach, RanDetached
<1>2. \A m \in UEs \ {n} : down'[m] = down[m]
  <2>1. UNCHANGED down \/ Rcv(n)
    BY DEF RanUeStep, RanInitialAttach, RanAuthenticate, RanSetSecurity, RanSetEpsSession,
           RanDetach, RanDetached
  <2> QED
    BY <2>1, RcvQueue
<1>3. \A d \in Conn \ {n} : up'[d] = up[d]
  <2>1. UNCHANGED up \/ \E t, id, arg : Send(n, t, id, arg)
    BY DEF RanUeStep, RanInitialAttach, RanAuthenticate, RanSetSecurity, RanSetEpsSession,
           RanDetach, RanDetached
  <2> QED
    BY <1>n, <2>1, SendQueue
<1> QED
  BY <1>1, <1>2, <1>3

LEMMA RanUeLock ==
  ASSUME LockInv, NEW n \in UEs, RanUeStep(n), UNCHANGED mmeOwn
  PROVE  Turn(n)' /\ Knows(n)'
<1>t. EpcTypeInv /\ Turn(n) /\ Knows(n) /\ n \in Conn /\ n # 0
  BY MmeIdentifiers DEF LockInv, EpcInv
<1>r. ran \in [UEs -> RanCtx] /\ ran[n] \in RanCtx
  BY DEF LockInv, EpcTypeInv, EpcTypeOK, RanTypeOK
<1>q. Len(up[n]) \in Nat /\ DOMAIN up[n] = 1 .. Len(up[n]) /\ (up[n] = <<>> <=> Len(up[n]) = 0)
  BY <1>t, Queues
<1>u. UNCHANGED <<mme_w, s1mme_id, mme_ctx>>
  BY DEF mmeOwn
(* An action that reads an answer, and sends or not.                       *)
<1>a. ASSUME Rcv(n)
      PROVE  /\ up[n] = <<>> /\ down'[n] = <<>> /\ Len(up[n]) = 0
             /\ Head(down[n]) = down[n][1] /\ DownTrue(n, down[n][1])
             /\ down[n][1].t = Expected[ran[n].pc]
             /\ mme_w[n].pc = "idle" \/ (mme_w[n].pc = "rem" /\ ran[n].pc = "bye")
  BY <1>a, <1>t, <1>q, RcvQueue DEF Turn, Knows
<1>1. CASE RanInitialAttach(n)
  <2>1. /\ ran[n].pc = "off" /\ ran' = [ran EXCEPT ![n].pc = "auth"]
        /\ Send(n, 1, 0, n) /\ down' = down
    BY <1>1 DEF RanInitialAttach, RanAt
  <2>2. up[n] = <<>>
    <3>1. 1 \notin DOMAIN up[n]
      BY <1>t, <2>1 DEF Turn, Says
    <3> QED
      BY <1>q, <3>1
  <2>3. down[n] = <<>>
    <3>1. ASSUME down[n] # <<>> PROVE FALSE
      <4>1. down[n][1].t = 0 /\ down[n][1] \in Down
        BY <1>t, <2>1, <3>1, Queues DEF Turn, Expected
      <4> QED
        BY <4>1 DEF Down
    <3> QED
      BY <3>1
  <2>4. /\ DOMAIN up'[n] = {1} /\ Len(up'[n]) = 1 /\ up'[n][1] = [t |-> 1, id |-> 0, arg |-> n]
    BY <1>t, <2>1, <2>2, SendAlone
  <2>5. ran'[n].pc = "auth" /\ down'[n] = <<>> /\ mme_w'[n] = mme_w[n]
    BY <1>r, <1>u, <2>1, <2>3
  <2>6. mme_w[n].pc \in {"idle", "rem"}
    BY <1>t, <2>1 DEF Turn, Serves
  <2>7. Turn(n)'
    BY <2>4, <2>5, <2>6 DEF Turn, Says, Serves, Answering
  <2>8. Knows(n)'
    BY <1>t, <2>4, <2>5 DEF Knows, UpTrue
  <2> QED
    BY <2>7, <2>8
<1>2. CASE RanAuthenticate(n)
  <2> DEFINE m == down[n][1]
  <2>1. /\ ran[n].pc = "auth" /\ Rcv(n) /\ Head(down[n]) = m
        /\ up[n] = <<>> /\ down'[n] = <<>> /\ DownTrue(n, m) /\ m.t = 1 /\ mme_w[n].pc = "idle"
    BY <1>2, <1>a DEF RanAuthenticate, RanAt, Expected
  <2>2. s1mme_id[m.id] = n /\ mme_ctx[n].xres = m.arg
    BY <2>1 DEF DownTrue
  <2>3. ran'[n].id = m.id /\ ran'[n].pc = IF m.arg = n \/ n = HoUE THEN "sec" ELSE "off"
    BY <1>2, <1>r, <2>1 DEF RanAuthenticate, RanCtx
  <2>4. CASE m.arg = n
    <3>1. Send(n, 2, m.id, n)
      BY <1>2, <2>1, <2>4 DEF RanAuthenticate
    <3>2. /\ DOMAIN up'[n] = {1} /\ Len(up'[n]) = 1
          /\ up'[n][1] = [t |-> 2, id |-> m.id, arg |-> n]
      BY <1>t, <2>1, <3>1, SendAlone
    <3>3. Turn(n)'
      BY <1>u, <2>1, <2>3, <2>4, <3>2 DEF Turn, Says, Serves, Answering
    <3>4. Knows(n)'
      BY <1>u, <2>1, <2>2, <2>3, <2>4, <3>2 DEF Knows, UpTrue
    <3> QED
      BY <3>3, <3>4
  <2>5. CASE m.arg # n
    <3>1. up'[n] = <<>> /\ DOMAIN up'[n] = {}
      BY <1>2, <1>q, <2>1, <2>5 DEF RanAuthenticate
    <3>2. ran'[n].pc \in {"sec", "off"} /\ mme_w'[n].pc = "idle"
      BY <1>u, <2>1, <2>3
    <3>3. Turn(n)'
      BY <2>1, <3>1, <3>2 DEF Turn, Says, Serves, Answering
    <3>4. Knows(n)'
      BY <1>u, <2>1, <2>2, <2>3, <3>1, <3>2 DEF Knows
    <3> QED
      BY <3>3, <3>4
  <2> QED
    BY <2>4, <2>5
<1>3. CASE RanSetSecurity(n)
  <2>1. /\ ran[n].pc = "sec" /\ Rcv(n) /\ Send(n, 3, ran[n].id, 0)
        /\ ran' = [ran EXCEPT ![n].pc = "eps"]
    BY <1>3 DEF RanSetSecurity, RanAt
  <2>2. up[n] = <<>> /\ down'[n] = <<>> /\ mme_w[n].pc = "idle" /\ s1mme_id[ran[n].id] = n
    BY <1>a, <1>t, <2>1 DEF Knows
  <2>3. /\ DOMAIN up'[n] = {1} /\ Len(up'[n]) = 1
        /\ up'[n][1] = [t |-> 3, id |-> ran[n].id, arg |-> 0]
    BY <1>t, <2>1, <2>2, SendAlone
  <2>4. ran'[n].pc = "eps" /\ ran'[n].id = ran[n].id
    BY <1>r, <2>1 DEF RanCtx
  <2>5. Turn(n)'
    BY <1>u, <2>2, <2>3, <2>4 DEF Turn, Says, Serves, Answering
  <2>6. Knows(n)'
    BY <1>u, <2>2, <2>3, <2>4 DEF Knows, UpTrue
  <2> QED
    BY <2>5, <2>6
<1>4. CASE RanSetEpsSession(n)
  <2> DEFINE m == down[n][1]
  <2>1. /\ ran[n].pc = "eps" /\ Rcv(n) /\ Head(down[n]) = m
        /\ up[n] = <<>> /\ down'[n] = <<>> /\ mme_w[n].pc = "idle"
        /\ m.t = 3 /\ m.guti = n /\ s1mme_id[ran[n].id] = n
    BY <1>4, <1>a, <1>t DEF RanSetEpsSession, RanAt, Expected, DownTrue, Knows
  <2>2. Send(n, 4, ran[n].id, m.arg)
    BY <1>4, <2>1 DEF RanSetEpsSession
  <2>3. /\ DOMAIN up'[n] = {1} /\ Len(up'[n]) = 1
        /\ up'[n][1] = [t |-> 4, id |-> ran[n].id, arg |-> m.arg]
    BY <1>t, <2>1, <2>2, SendAlone
  <2>4. ran'[n].pc = "attached" /\ ran'[n].id = ran[n].id /\ ran'[n].guti = n
    BY <1>4, <1>r, <2>1 DEF RanSetEpsSession, RanCtx
  <2>5. Turn(n)'
    BY <1>u, <2>1, <2>3, <2>4 DEF Turn, Says, Serves, Answering, Answered
  <2>6. Knows(n)'
    BY <1>u, <2>1, <2>3, <2>4 DEF Knows, UpTrue
  <2> QED
    BY <2>5, <2>6
<1>5. CASE RanDetach(n)
  <2>1. /\ ran[n].pc = "attached" /\ Send(n, 5, ran[n].id, ran[n].guti) /\ down' = down
        /\ ran' = [ran EXCEPT ![n].pc = "bye"]
    BY <1>5 DEF RanDetach, RanAt
  <2>2. /\ \A k \in DOMAIN up[n] : up[n][k].t = 4 /\ UpTrue(n, up[n][k])
        /\ mme_w[n].pc \in {"idle", "modify"}
        /\ s1mme_id[ran[n].id] = n /\ ran[n].guti = n
        /\ mme_w[n].pc # "idle" => mme_w[n].guti = n
    BY <1>t, <2>1 DEF Turn, Says, Serves, Knows
  <2>3. down[n] = <<>>
    <3>1. ASSUME down[n] # <<>> PROVE FALSE
      <4>1. down[n][1].t = 0 /\ down[n][1] \in Down
        BY <1>t, <2>1, <3>1, Queues DEF Turn, Expected
      <4> QED
        BY <4>1 DEF Down
    <3> QED
      BY <3>1
  <2>4. ran'[n].pc = "bye" /\ ran'[n].id = ran[n].id /\ ran'[n].guti = n
    BY <1>r, <2>1, <2>2 DEF RanCtx
  <2>5. /\ DOMAIN up'[n] = 1 .. Len(up[n]) + 1 /\ Len(up'[n]) = Len(up[n]) + 1
        /\ \A k \in 1 .. Len(up[n]) : up'[n][k] = up[n][k]
        /\ up'[n][Len(up[n]) + 1] = [t |-> 5, id |-> ran[n].id, arg |-> n]
    BY <1>t, <2>1, <2>2, SendQueue
  <2>6. \A k \in DOMAIN up'[n] : /\ up'[n][k].t \in {4, 5} /\ UpTrue(n, up[n][k])'
                                 /\ up'[n][k].t # 4 => k = Len(up'[n])
    <3> SUFFICES ASSUME NEW k \in DOMAIN up'[n]
                 PROVE  /\ up'[n][k].t \in {4, 5} /\ UpTrue(n, up[n][k])'
                        /\ up'[n][k].t # 4 => k = Len(up'[n])
      OBVIOUS
    <3>1. CASE k \in 1 .. Len(up[n])
      BY <1>q, <1>u, <2>2, <2>4, <2>5, <3>1 DEF UpTrue
    <3>2. CASE k = Len(up[n]) + 1
      BY <1>u, <2>2, <2>4, <2>5, <3>2 DEF UpTrue
    <3> QED
      BY <1>q, <2>5, <3>1, <3>2
  <2>7. Turn(n)'
    BY <1>u, <2>1, <2>2, <2>3, <2>4, <2>6 DEF Turn, Says, Serves, Answering, Answered
  <2>8. Knows(n)'
    BY <1>u, <2>1, <2>2, <2>3, <2>4, <2>6 DEF Knows
  <2> QED
    BY <2>7, <2>8
<1>6. CASE RanDetached(n)
  <2>1. /\ ran[n].pc = "bye" /\ Rcv(n) /\ up' = up /\ ran' = [ran EXCEPT ![n].pc = "off"]
    BY <1>6 DEF RanDetached, RanAt
  <2>2. /\ up[n] = <<>> /\ down'[n] = <<>> /\ mme_w[n].pc \in {"idle", "rem"}
    BY <1>a, <2>1
  <2>3. ran'[n].pc = "off" /\ up'[n] = <<>> /\ DOMAIN up'[n] = {}
    BY <1>r, <1>q, <2>1, <2>2 DEF RanCtx
  <2>4. Turn(n)'
    BY <1>u, <2>2, <2>3 DEF Turn, Says, Serves, Answering
  <2>5. Knows(n)'
    BY <1>t, <1>u, <2>2, <2>3 DEF Knows
  <2> QED
    BY <2>4, <2>5
<1> QED
  BY <1>1, <1>2, <1>3, <1>4, <1>5, <1>6 DEF RanUeStep

(* Once attached, a thread may say more, as long as it asks for nothing.   *)
LEMMA SaysMore ==
  ASSUME LockInv, NEW n \in UEs, UNCHANGED mmeOwn, NEW t \in {7, 10}, NEW arg,
         Send(n, t, ran[n].id, arg), UNCHANGED down, ran[n].pc \in {"attached", "ho", "end"},
         ran'[n].pc \in {"ho", "end"}, t \in Says[ran'[n].pc],
         Says[ran[n].pc] \subseteq Says[ran'[n].pc],
         ran'[n].id = ran[n].id, ran'[n].guti = ran[n].guti
  PROVE  Turn(n)' /\ Knows(n)'
<1>t. EpcTypeInv /\ Turn(n) /\ Knows(n) /\ n \in Conn /\ n # 0
  BY MmeIdentifiers DEF LockInv, EpcInv
<1>q. Len(up[n]) \in Nat /\ DOMAIN up[n] = 1 .. Len(up[n])
  BY <1>t, Queues
<1>u. UNCHANGED <<mme_w, s1mme_id, mme_ctx>>
  BY DEF mmeOwn
<1>1. \A k \in DOMAIN up[n] : up[n][k].t \in Says[ran[n].pc] /\ UpTrue(n, up[n][k])
  BY <1>t DEF Turn, Knows
<1>2. Says[ran'[n].pc] \subseteq {4, 7, 10}
  BY DEF Says
<1>3. s1mme_id[ran[n].id] = n /\ ran[n].guti = n
  BY <1>t DEF Knows
<1>4. down[n] = <<>>
  <2>1. ASSUME down[n] # <<>> PROVE FALSE
    <3>1. down[n][1].t = 0 /\ down[n][1] \in Down
      BY <1>t, <2>1, Queues DEF Turn, Expected
    <3> QED
      BY <3>1 DEF Down
  <2> QED
    BY <2>1
<1>5. /\ DOMAIN up'[n] = 1 .. Len(up[n]) + 1
      /\ \A k \in 1 .. Len(up[n]) : up'[n][k] = up[n][k]
      /\ up'[n][Len(up[n]) + 1] = [t |-> t, id |-> ran[n].id, arg |-> arg]
  BY <1>t, SendQueue
<1>6. ASSUME NEW k \in DOMAIN up'[n]
      PROVE  up'[n][k].t \in Says[ran'[n].pc] /\ UpTrue(n, up[n][k])'
  <2>1. CASE k \in 1 .. Len(up[n])
    <3>1. up'[n][k] = up[n][k] /\ UpTrue(n, up[n][k]) /\ up[n][k].t \in Says[ran'[n].pc]
      BY <1>q, <1>1, <1>5, <2>1
    <3> QED
      BY <1>u, <3>1 DEF UpTrue
  <2>2. CASE k = Len(up[n]) + 1
    <3>1. up'[n][k] = [t |-> t, id |-> ran[n].id, arg |-> arg]
      BY <1>5, <2>2
    <3> QED
      BY <1>u, <1>3, <3>1 DEF UpTrue
  <2> QED
    BY <1>q, <1>5, <2>1, <2>2
<1>7. mme_w[n].pc \in {"idle", "modify", "teardown"} /\ mme_w[n].pc \in Serves[ran'[n].pc]
  BY <1>t DEF Turn, Serves
<1>8. Turn(n)'
  BY <1>u, <1>2, <1>4, <1>6, <1>7 DEF Turn, Answering, Answered
<1>9. Knows(n)'
  BY <1>t, <1>u, <1>3, <1>4, <1>6 DEF Knows
<1> QED
  BY <1>8, <1>9

(* The handover, seen from any subscriber.                                 *)
LEMMA RanHoLock ==
  ASSUME LockInv, NEW n \in UEs, RanHoStep, UNCHANGED mmeOwn
  PROVE  /\ Turn(n)' /\ Knows(n)'
         /\ ran'[n].id = ran[n].id
<1>t. EpcTypeInv /\ Turn(n) /\ Knows(n) /\ n \in Conn /\ n # 0 /\ 0 \in Conn
  BY MmeIdentifiers DEF LockInv, EpcInv
<1>r. ran \in [UEs -> RanCtx] /\ ran[n] \in RanCtx
  BY DEF LockInv, EpcTypeInv, EpcTypeOK, RanTypeOK
<1>u. UNCHANGED <<mme_w, s1mme_id, mme_ctx>>
  BY DEF mmeOwn
<1>1. CASE RanInitiateHandover
  <2>1. PICK m \in UEs \cap {HoUE} :
          /\ ran[m].pc = "attached" /\ Send(m, 7, ran[m].id, m)
          /\ ran' = [ran EXCEPT ![m].pc = "ho"] /\ down' = down
    BY <1>1 DEF RanInitiateHandover, RanAt
  <2>2. CASE m = n
    <3>1. ran'[n].pc = "ho" /\ ran'[n].id = ran[n].id /\ ran'[n].guti = ran[n].guti
      BY <1>r, <2>1, <2>2 DEF RanCtx
    <3>2. 7 \in Says["ho"] /\ Says["attached"] \subseteq Says["ho"]
      BY DEF Says
    <3> QED
      BY <2>1, <2>2, <3>1, <3>2, SaysMore
  <2>3. CASE m # n
    <3>1. ran'[n] = ran[n] /\ m \in Conn /\ n \in Conn \ {m}
      BY <1>t, <1>r, <2>1, <2>3, MmeIdentifiers
    <3>2. up'[n] = up[n]
      BY <1>t, <2>1, <3>1, SendQueue
    <3> QED
      BY <1>t, <1>u, <2>1, <3>1, <3>2, Untouched
  <2> QED
    BY <2>2, <2>3
<1>2. CASE RanHandleHandover \/ RanConnect \/ RanIndirectTunnelComplete
  <2>1. UNCHANGED <<up, down, ran>>
    BY <1>2 DEF RanHandleHandover, RanConnect, RanIndirectTunnelComplete, sctpVars
  <2> QED
    BY <1>t, <1>u, <2>1, Untouched
<1>3. CASE RanAckHandover
  <2>1. UNCHANGED <<down, ran>> /\ Send(0, 8, ranT.id, ranT.enb)
    BY <1>3 DEF RanAckHandover
  <2>2. up'[n] = up[n]
    BY <1>t, <2>1, SendQueue
  <2> QED
    BY <1>t, <1>u, <2>1, <2>2, Untouched
<1>4. CASE RanCompleteHandover
  <2>1. PICK m \in UEs \cap {HoUE} :
          /\ ran[m].pc = "ho" /\ down' = down /\ ran' = [ran EXCEPT ![m].pc = "end"]
          /\ Send(0, 9, ranT.id, 0) \/ UNCHANGED up
    BY <1>4 DEF RanCompleteHandover, RanAt
  <2>2. up'[n] = up[n]
    BY <1>t, <2>1, SendQueue
  <2>3. CASE m = n
    <3>1. ran'[n].pc = "end" /\ ran'[n].id = ran[n].id /\ ran'[n].guti = ran[n].guti
      BY <1>r, <2>1, <2>3 DEF RanCtx
    <3>2. /\ \A k \in DOMAIN up[n] : up[n][k].t \in {4, 7} /\ UpTrue(n, up[n][k])
          /\ mme_w[n].pc \in {"idle", "modify", "teardown"}
          /\ s1mme_id[ran[n].id] = n /\ ran[n].guti = n
          /\ mme_w[n].pc # "idle" => mme_w[n].guti = n
      BY <1>t, <2>1, <2>3 DEF Turn, Knows, Says, Serves
    <3>3. down[n] = <<>>
      <4>1. ASSUME down[n] # <<>> PROVE FALSE
        <5>1. down[n][1].t = 0 /\ down[n][1] \in Down
          BY <1>t, <2>1, <2>3, <4>1, Queues DEF Turn, Expected
        <5> QED
          BY <5>1 DEF Down
      <4> QED
        BY <4>1
    <3>4. Turn(n)'
      BY <1>u, <2>1, <2>2, <3>1, <3>2, <3>3 DEF Turn, Says, Serves, Answering, Answered
    <3>5. ASSUME NEW k \in DOMAIN up'[n] PROVE UpTrue(n, up[n][k])'
      <4>1. up'[n][k] = up[n][k] /\ UpTrue(n, up[n][k])
        BY <2>2, <3>2
      <4> QED
        BY <1>u, <3>1, <4>1 DEF UpTrue
    <3>6. Knows(n)'
      BY <1>u, <2>1, <3>1, <3>2, <3>3, <3>5 DEF Knows
    <3> QED
      BY <3>1, <3>4, <3>6
  <2>4. CASE m # n
    <3>1. ran'[n] = ran[n]
      BY <1>r, <2>1, <2>4
    <3> QED
      BY <1>t, <1>u, <2>1, <2>2, <3>1, Untouched
  <2> QED
    BY <2>3, <2>4
<1>5. CASE RanRequestTearDown
  <2>1. PICK x \in toRan, m \in UEs \cap {HoUE} :
          /\ x.t = 9 /\ Send(m, 10, ran[m].id, ranS.indirect)
          /\ ran' = [ran EXCEPT ![m].ul = 0] /\ down' = down
    BY <1>5 DEF RanRequestTearDown
  <2>2. ran[m].pc = "end"
    BY <2>1 DEF LockInv, EpcInv, Completing, AtEnd
  <2>3. CASE m = n
    <3>1. ran'[n].pc = "end" /\ ran'[n].id = ran[n].id /\ ran'[n].guti = ran[n].guti
      BY <1>r, <2>1, <2>2, <2>3 DEF RanCtx
    <3>2. 10 \in Says["end"]
      BY DEF Says
    <3> QED
      BY <2>1, <2>2, <2>3, <3>1, <3>2, SaysMore
  <2>4. CASE m # n
    <3>1. ran'[n] = ran[n] /\ m \in Conn /\ n \in Conn \ {m}
      BY <1>t, <1>r, <2>1, <2>4, MmeIdentifiers
    <3>2. up'[n] = up[n]
      BY <1>t, <2>1, <3>1, SendQueue
    <3> QED
      BY <1>t, <1>u, <2>1, <3>1, <3>2, Untouched
  <2> QED
    BY <2>3, <2>4
<1> QED
  BY <1>1, <1>2, <1>3, <1>4, <1>5 DEF RanHoStep
-----------------------------------------------------------------------------
(* The steps of the MME.                                                   *)

LEMMA TakeMessage ==
  ASSUME LockInv, NEW c \in UEs, NEW t, Receive(c, t)
  PROVE  /\ mme_w[c].pc = "idle" /\ down[c] = <<>>
         /\ Head(up[c]).t = t /\ t \in Says[ran[c].pc] /\ UpTrue(c, Head(up[c]))
         /\ t \in Answered => up'[c] = <<>>
         /\ \A k \in DOMAIN up'[c] : /\ up'[c][k].t \in Says[ran[c].pc]
                                     /\ up'[c][k].t \in Answered => k = Len(up'[c])
                                     /\ UpTrue(c, up'[c][k])
         /\ t # 1 => get_guti(c) = c
<1>t. EpcTypeInv /\ Turn(c) /\ Knows(c) /\ c \in Conn
  BY MmeIdentifiers DEF LockInv, EpcInv
<1>1. mme_w[c].pc = "idle" /\ up[c] # <<>> /\ up' = [up EXCEPT ![c] = Tail(@)]
  BY DEF Receive
<1>2. Len(up[c]) \in Nat /\ DOMAIN up[c] = 1 .. Len(up[c])
  BY <1>t, Queues
<1>3. /\ 1 \in DOMAIN up[c] /\ Head(up[c]) = up[c][1]
      /\ DOMAIN up'[c] = 1 .. Len(up[c]) - 1 /\ Len(up'[c]) = Len(up[c]) - 1
      /\ \A k \in 1 .. Len(up[c]) - 1 : up'[c][k] = up[c][k + 1]
      /\ Len(up[c]) = 1 => up'[c] = <<>>
  BY <1>t, <1>1, ReceiveQueue
<1>4. \A k \in DOMAIN up[c] : /\ up[c][k].t \in Says[ran[c].pc]
                              /\ up[c][k].t \in Answered => k = Len(up[c])
                              /\ UpTrue(c, up[c][k])
  BY <1>t DEF Turn, Knows
<1>5. Head(up[c]).t = t /\ t \in Says[ran[c].pc] /\ UpTrue(c, Head(up[c]))
  BY <1>3, <1>4 DEF Receive
<1>6. t \in Answered => up'[c] = <<>>
  BY <1>3, <1>4, <1>5
<1>7. ASSUME NEW k \in DOMAIN up'[c]
      PROVE  /\ up'[c][k].t \in Says[ran[c].pc]
             /\ up'[c][k].t \in Answered => k = Len(up'[c])
             /\ UpTrue(c, up'[c][k])
  <2>1. k + 1 \in DOMAIN up[c] /\ up'[c][k] = up[c][k + 1] /\ k \in Nat
    BY <1>2, <1>3
  <2>2. k + 1 = Len(up[c]) => k = Len(up'[c])
    BY <1>2, <1>3, <2>1
  <2>3. /\ up[c][k + 1].t \in Says[ran[c].pc] /\ UpTrue(c, up[c][k + 1])
        /\ up[c][k + 1].t \in Answered => k + 1 = Len(up[c])
    BY <1>4, <2>1
  <2> QED
    BY <2>1, <2>2, <2>3
<1>8. down[c] = <<>>
  BY <1>t, <1>1 DEF Turn
<1>9. t # 1 => get_guti(c) = c
  BY <1>5 DEF UpTrue, get_guti
<1> QED
  BY <1>1, <1>5, <1>6, <1>7, <1>8, <1>9

(* A step after which the worker owes no answer, or still owes it.         *)
LEMMA Serving ==
  ASSUME NEW n \in UEs, Knows(n), ran'[n] = ran[n],
         \A k \in DOMAIN up'[n] : /\ up'[n][k].t \in Says[ran[n].pc]
                                  /\ up'[n][k].t \in Answered => k = Len(up'[n])
                                  /\ UpTrue(n, up'[n][k]),
         down'[n] = <<>>, UNCHANGED s1mme_id, mme_ctx'[n].xres = mme_ctx[n].xres,
         mme_w'[n].pc \in Serves[ran[n].pc],
         mme_w'[n].pc \in Answering \cup {"rem"} => up'[n] = <<>>,
         mme_w'[n].pc # "idle" => mme_w'[n].guti = n
  PROVE  Turn(n)' /\ Knows(n)'
<1>1. Turn(n)'
  BY DEF Turn
<1>2. ASSUME NEW k \in DOMAIN up'[n] PROVE UpTrue(n, up[n][k])'
  <2>1. UpTrue(n, up'[n][k])
    BY <1>2
  <2> QED
    BY <2>1 DEF UpTrue
<1>3. Knows(n)'
  BY <1>2 DEF Knows
<1> QED
  BY <1>1, <1>3

(* A step that answers.                                                    *)
LEMMA AnswerSent ==
  ASSUME EpcTypeInv, NEW n \in UEs, Knows(n), ran'[n] = ran[n], up'[n] = <<>>,
         NEW m, Len(down'[n]) = 1, down'[n][1] = m, m.t = Expected[ran[n].pc],
         UNCHANGED s1mme_id,
         m.t = 1 => s1mme_id[m.id] = n /\ mme_ctx'[n].xres = m.arg, m.t = 3 => m.guti = n,
         \/ mme_w'[n].pc = "idle"
         \/ mme_w'[n].pc = "rem" /\ ran[n].pc = "bye" /\ mme_w'[n].guti = n
  PROVE  Turn(n)' /\ Knows(n)'
<1>5. down'[n][1].t = m.t /\ DownTrue(n, down[n][1])'
  BY DEF DownTrue
<1>6. mme_w'[n].pc \in Serves[ran[n].pc]
  BY DEF Serves, EpcTypeInv, EpcTypeOK, RanTypeOK, RanCtx, RanPc
<1>7. DOMAIN up'[n] = {}
  OBVIOUS
<1>8. Turn(n)'
  BY <1>5, <1>6, <1>7 DEF Turn, Answering
<1>9. Knows(n)'
  BY <1>5, <1>7 DEF Knows
<1> QED
  BY <1>8, <1>9

LEMMA ToUeQueue ==
  ASSUME EpcTypeInv, NEW n \in UEs, down[n] = <<>>,
         NEW t, NEW id, NEW arg, NEW guti, NEW ip, ToUe(n, t, id, arg, guti, ip)
  PROVE  /\ Len(down'[n]) = 1
         /\ down'[n][1] = [t |-> t, id |-> id, arg |-> arg, guti |-> guti, ip |-> ip]
<1> DEFINE m == [t |-> t, id |-> id, arg |-> arg, guti |-> guti, ip |-> ip]
<1>1. n \in Conn /\ down \in [Conn -> Seq(Down)]
  BY MmeIdentifiers DEF EpcTypeInv, EpcTypeOK, SctpTypeOK
<1>2. down'[n] = Append(<<>>, m)
  BY <1>1 DEF ToUe
<1> HIDE DEF m
<1>3. Append(<<>>, m) = <<m>>
  OBVIOUS
<1>4. Len(down'[n]) = 1 /\ down'[n][1] = m
  BY <1>2, <1>3
<1> QED
  BY <1>4 DEF m

(* The steps a worker takes on its own subscriber's connection.            *)
LEMMA MmeUeLock ==
  ASSUME LockInv, NEW c \in UEs, MmeStep(c), UNCHANGED ran
  PROVE  /\ Turn(c)' /\ Knows(c)'
         /\ mme_up' /\ \A m \in toRan' : m.t = 9 => m \in toRan
<1> DEFINE w == mme_w[c]
           m == Head(up[c])
           g == get_guti(c)
<1>t. /\ EpcTypeInv /\ Turn(c) /\ Knows(c) /\ c \in Conn /\ c # 0 /\ mme_up
      /\ s1mme_id[0] = 0 /\ MmeInv /\ Keeps(c)
  BY MmeIdentifiers DEF LockInv, EpcInv, MmeInv
<1>y. /\ mme_w \in [Conn -> [pc : MmePc, id : UeId, guti : Imsi]]
      /\ mme_ctx \in [Imsi -> MmeCtx] /\ c \in Imsi /\ s1mme_id \in [UeId -> Imsi]
      /\ down \in [Conn -> Seq(Down)]
  BY <1>t, MmeIdentifiers DEF EpcTypeInv, EpcTypeOK, MmeTypeOK, SctpTypeOK
<1>p. ran[c].pc \in RanPc
  BY <1>t DEF EpcTypeInv, EpcTypeOK, RanTypeOK, RanCtx
<1>k. /\ w.pc \in Serves[ran[c].pc] /\ (w.pc # "idle" => w.guti = c /\ s1mme_id[w.id] = c)
      /\ w.pc \in Answering => up[c] = <<>> /\ down[c] = <<>>
      /\ w.pc \in {"modify", "teardown"} => down[c] = <<>>
      /\ w.pc = "rem" /\ ran[c].pc = "bye" => up[c] = <<>>
  BY <1>t DEF Turn, Knows, Keeps
<1>o. \A k \in DOMAIN up[c] : /\ up[c][k].t \in Says[ran[c].pc]
                              /\ up[c][k].t \in Answered => k = Len(up[c])
                              /\ UpTrue(c, up[c][k])
  BY <1>t DEF Turn, Knows
(* Where the thread is, by what the worker received or does.               *)
<1>s. /\ \A t \in {1} : t \in Says[ran[c].pc] => ran[c].pc = "auth"
      /\ \A t \in {2} : t \in Says[ran[c].pc] => ran[c].pc = "sec"
      /\ \A t \in {3} : t \in Says[ran[c].pc] => ran[c].pc = "eps"
      /\ \A t \in {4} : t \in Says[ran[c].pc] => ran[c].pc \in {"attached", "bye", "ho", "end"}
      /\ \A t \in {5} : t \in Says[ran[c].pc] => ran[c].pc = "bye"
      /\ \A t \in {7} : t \in Says[ran[c].pc] => ran[c].pc \in {"ho", "end"}
      /\ \A t \in {8, 9} : t \notin Says[ran[c].pc]
      /\ \A t \in {10} : t \in Says[ran[c].pc] => ran[c].pc = "end"
  BY <1>p DEF Says, RanPc
<1>v. /\ w.pc = "autn" => ran[c].pc = "auth"
      /\ w.pc \in {"loc", "create"} => ran[c].pc = "eps"
      /\ w.pc = "modify" => ran[c].pc \in {"attached", "bye", "ho", "end"}
      /\ w.pc = "detach" => ran[c].pc = "bye"
      /\ w.pc = "rem" => ran[c].pc \in {"off", "auth", "bye"}
      /\ w.pc \notin {"setup", "complete"}
  BY <1>k, <1>p DEF Serves, RanPc
<1>1. CASE MmeInitialAttach(c)
  <2>1. /\ Receive(c, 1) /\ m.arg = c
        /\ s1mme_id' = [s1mme_id EXCEPT ![NextUeId] = c]
        /\ Wait(c, "autn", NextUeId, c) /\ UNCHANGED <<down, toRan, mme_up>>
    BY <1>1, TakeMessage DEF MmeInitialAttach, UpTrue
  <2>2. ran[c].pc = "auth" /\ up'[c] = <<>> /\ down'[c] = <<>>
    BY <1>s, <2>1, TakeMessage DEF Answered
  <2>3. mme_w'[c].pc = "autn" /\ mme_w'[c].guti = c
    BY <1>y, <1>t, <2>1 DEF Wait
  <2>4. DOMAIN up'[c] = {}
    BY <2>2
  <2>5. Turn(c)'
    BY <2>2, <2>3, <2>4 DEF Turn, Serves, Answering
  <2>6. Knows(c)'
    BY <2>2, <2>3, <2>4 DEF Knows
  <2> QED
    BY <1>t, <2>1, <2>5, <2>6
<1>2. CASE MmeAutnInfo(c)
  <2>1. /\ w.pc = "autn" /\ mme_ctx' = [mme_ctx EXCEPT ![w.guti].xres = s6a[c].x]
        /\ ToUe(c, 1, w.id, s6a[c].x, 0, 0) /\ Done(c)
        /\ UNCHANGED <<up, toRan, s1mme_id, mme_up>>
    BY <1>2 DEF MmeAutnInfo, HandlerAt
  <2>2. /\ ran[c].pc = "auth" /\ up'[c] = <<>> /\ down[c] = <<>>
        /\ w.guti = c /\ s1mme_id[w.id] = c
    BY <1>k, <1>v, <2>1 DEF Answering
  <2>3. mme_ctx'[c].xres = s6a[c].x
    BY <1>y, <2>1, <2>2 DEF MmeCtx
  <2>4. mme_w'[c].pc = "idle"
    BY <1>y, <1>t, <2>1 DEF Done, Wait
  <2>5. Expected[ran[c].pc] = 1
    BY <2>2 DEF Expected
  <2>6. /\ Len(down'[c]) = 1
        /\ down'[c][1] = [t |-> 1, id |-> w.id, arg |-> s6a[c].x, guti |-> 0, ip |-> 0]
    BY <1>t, <2>1, <2>2, ToUeQueue
  <2>7. Turn(c)' /\ Knows(c)'
    BY <1>t, <2>1, <2>2, <2>3, <2>4, <2>5, <2>6, AnswerSent
  <2> QED
    BY <1>t, <2>1, <2>7
<1>3. CASE MmeAuthentication(c)
  <2>1. Receive(c, 2) /\ UNCHANGED <<toRan, mme_w, mme_up>>
    BY <1>3 DEF MmeAuthentication
  <2>2. /\ ran[c].pc = "sec" /\ up'[c] = <<>> /\ down[c] = <<>> /\ w.pc = "idle"
        /\ g = c /\ m.arg = mme_ctx[c].xres
    BY <1>s, <2>1, TakeMessage DEF Answered, UpTrue
  <2>3. ToUe(c, 2, m.id, 0, 0, 0) /\ UNCHANGED <<s1mme_id, mme_ctx>>
    BY <1>3, <2>2 DEF MmeAuthentication
  <2>4. Expected[ran[c].pc] = 2 /\ mme_w'[c].pc = "idle"
    BY <2>1, <2>2 DEF Expected
  <2>5. /\ Len(down'[c]) = 1
        /\ down'[c][1] = [t |-> 2, id |-> m.id, arg |-> 0, guti |-> 0, ip |-> 0]
    BY <1>t, <2>2, <2>3, ToUeQueue
  <2>6. Turn(c)' /\ Knows(c)'
    BY <1>t, <2>2, <2>3, <2>4, <2>5, AnswerSent
  <2> QED
    BY <1>t, <2>1, <2>6
<1>4. CASE MmeSecurityComplete(c)
  <2>1. Receive(c, 3) /\ Wait(c, "loc", m.id, g)
        /\ UNCHANGED <<down, toRan, s1mme_id, mme_ctx, mme_up>>
    BY <1>4 DEF MmeSecurityComplete
  <2>2. ran[c].pc = "eps" /\ up'[c] = <<>> /\ down'[c] = <<>> /\ g = c
    BY <1>s, <2>1, TakeMessage DEF Answered
  <2>3. mme_w'[c].pc = "loc" /\ mme_w'[c].guti = c
    BY <1>y, <1>t, <2>1, <2>2 DEF Wait
  <2>4. DOMAIN up'[c] = {}
    BY <2>2
  <2>5. "loc" \in Serves[ran[c].pc]
    BY <2>2 DEF Serves
  <2>6. Turn(c)' /\ Knows(c)'
    BY <1>t, <2>1, <2>2, <2>3, <2>4, <2>5, Serving
  <2> QED
    BY <1>t, <2>1, <2>6
<1>5. CASE MmeLocationUpdate(c)
  <2>1. w.pc = "loc" /\ UNCHANGED <<up, down, toRan, s1mme_id, mme_ctx>>
    BY <1>5 DEF MmeLocationUpdate, HandlerAt
  <2>2. ran[c].pc = "eps" /\ up'[c] = <<>> /\ down'[c] = <<>> /\ w.guti = c
    BY <1>k, <1>v, <2>1 DEF Answering
  <2>3. Wait(c, "create", w.id, w.guti) /\ UNCHANGED mme_up
    BY <1>5, <1>t, <2>2 DEF MmeLocationUpdate
  <2>4. mme_w'[c].pc = "create" /\ mme_w'[c].guti = c
    BY <1>y, <1>t, <2>2, <2>3 DEF Wait
  <2>5. DOMAIN up'[c] = {} /\ "create" \in Serves[ran[c].pc]
    BY <2>2 DEF Serves
  <2>6. Turn(c)' /\ Knows(c)'
    BY <1>t, <2>1, <2>2, <2>4, <2>5, Serving
  <2> QED
    BY <1>t, <2>1, <2>3, <2>6
<1>6. CASE MmeCreateSession(c)
  <2>1. PICK r \in Replies(c) :
          /\ w.pc = "create"
          /\ mme_ctx' = [mme_ctx EXCEPT ![w.guti].teid = r.teid, ![w.guti].ul = r.teid]
          /\ ToUe(c, 3, w.id, r.teid, w.guti, r.ip) /\ Done(c)
          /\ UNCHANGED <<up, toRan, s1mme_id, mme_up>>
    BY <1>6 DEF MmeCreateSession, HandlerAt
  <2>2. ran[c].pc = "eps" /\ up'[c] = <<>> /\ down[c] = <<>> /\ w.guti = c
    BY <1>k, <1>v, <2>1 DEF Answering
  <2>3. mme_w'[c].pc = "idle"
    BY <1>y, <1>t, <2>1 DEF Done, Wait
  <2>4. Expected[ran[c].pc] = 3
    BY <2>2 DEF Expected
  <2>5. /\ Len(down'[c]) = 1
        /\ down'[c][1] = [t |-> 3, id |-> w.id, arg |-> r.teid, guti |-> c, ip |-> r.ip]
    BY <1>t, <2>1, <2>2, ToUeQueue
  <2>6. Turn(c)' /\ Knows(c)'
    BY <1>t, <2>1, <2>2, <2>3, <2>4, <2>5, AnswerSent
  <2> QED
    BY <1>t, <2>1, <2>6
<1>7. CASE MmeAttachComplete(c)
  <2>1. /\ Receive(c, 4) /\ Wait(c, "modify", m.id, g)
        /\ mme_ctx' = [mme_ctx EXCEPT ![g].dl = m.arg, ![g].emm = 1]
        /\ UNCHANGED <<down, toRan, s1mme_id, mme_up>>
    BY <1>7 DEF MmeAttachComplete
  <2>2. /\ ran[c].pc \in {"attached", "bye", "ho", "end"} /\ down'[c] = <<>> /\ g = c
        /\ \A k \in DOMAIN up'[c] : /\ up'[c][k].t \in Says[ran[c].pc]
                                    /\ up'[c][k].t \in Answered => k = Len(up'[c])
                                    /\ UpTrue(c, up'[c][k])
    BY <1>s, <2>1, TakeMessage
  <2>3. mme_w'[c].pc = "modify" /\ mme_w'[c].guti = c
    BY <1>y, <1>t, <2>1, <2>2 DEF Wait
  <2>4. mme_ctx'[c].xres = mme_ctx[c].xres
    BY <1>y, <2>1, <2>2 DEF MmeCtx
  <2>5. "modify" \in Serves[ran[c].pc] /\ "modify" \notin Answering \cup {"rem"}
    BY <2>2 DEF Serves, Answering
  <2>6. Turn(c)' /\ Knows(c)'
    BY <1>t, <2>1, <2>2, <2>3, <2>4, <2>5, Serving
  <2> QED
    BY <1>t, <2>1, <2>6
<1>8. CASE MmeModifyBearer(c)
  <2>1. /\ w.pc = "modify" /\ Done(c)
        /\ mme_ctx' = [mme_ctx EXCEPT ![w.guti].ecm = 1] \/ mme_ctx' = mme_ctx
        /\ UNCHANGED <<up, down, toRan, s1mme_id, mme_up>>
    BY <1>8 DEF MmeModifyBearer, HandlerAt, sctpVars
  <2>2. mme_w'[c].pc = "idle"
    BY <1>y, <1>t, <2>1 DEF Done, Wait
  <2>3. mme_ctx'[c].xres = mme_ctx[c].xres
    BY <1>y, <1>k, <2>1 DEF MmeCtx
  <2>4. "idle" \in Serves[ran[c].pc] /\ "idle" \notin Answering \cup {"rem"}
    BY <1>p DEF Serves, Answering, RanPc
  <2>5. down'[c] = <<>>
    BY <1>k, <2>1
  <2>6. Turn(c)' /\ Knows(c)'
    BY <1>t, <1>o, <2>1, <2>2, <2>3, <2>4, <2>5, Serving
  <2> QED
    BY <1>t, <2>1, <2>6
<1>9. CASE MmeDetach(c)
  <2>1. Receive(c, 5) /\ UNCHANGED <<down, toRan, s1mme_id, mme_ctx>>
    BY <1>9 DEF MmeDetach
  <2>2. /\ ran[c].pc = "bye" /\ up'[c] = <<>> /\ down'[c] = <<>> /\ g = c /\ m.arg = c
    BY <1>s, <2>1, TakeMessage DEF Answered, UpTrue
  <2>3. Wait(c, "detach", m.id, m.arg) /\ UNCHANGED mme_up
    BY <1>9, <1>t, <2>2 DEF MmeDetach
  <2>4. mme_w'[c].pc = "detach" /\ mme_w'[c].guti = c
    BY <1>y, <1>t, <2>2, <2>3 DEF Wait
  <2>5. DOMAIN up'[c] = {} /\ "detach" \in Serves[ran[c].pc]
    BY <2>2 DEF Serves
  <2>6. Turn(c)' /\ Knows(c)'
    BY <1>t, <2>1, <2>2, <2>4, <2>5, Serving
  <2> QED
    BY <1>t, <2>1, <2>3, <2>6
<1>10. CASE MmeDetachAnswer(c)
  <2>1. /\ w.pc = "detach" /\ UNCHANGED <<up, toRan, s1mme_id, mme_ctx, mme_up>>
        /\ \/ ToUe(c, 5, w.id, 0, 0, 0) /\ Wait(c, "rem", w.id, w.guti)
           \/ Done(c) /\ UNCHANGED down
    BY <1>10 DEF MmeDetachAnswer, HandlerAt
  <2>2. ran[c].pc = "bye" /\ up'[c] = <<>> /\ down[c] = <<>> /\ w.guti = c
    BY <1>k, <1>v, <2>1 DEF Answering
  <2>3. CASE ToUe(c, 5, w.id, 0, 0, 0) /\ Wait(c, "rem", w.id, w.guti)
    <3>1. mme_w'[c].pc = "rem" /\ mme_w'[c].guti = c
      BY <1>y, <1>t, <2>2, <2>3 DEF Wait
    <3>2. Expected[ran[c].pc] = 5
      BY <2>2 DEF Expected
    <3>3. /\ Len(down'[c]) = 1
          /\ down'[c][1] = [t |-> 5, id |-> w.id, arg |-> 0, guti |-> 0, ip |-> 0]
      BY <1>t, <2>2, <2>3, ToUeQueue
    <3> QED
      BY <1>t, <2>1, <2>2, <3>1, <3>2, <3>3, AnswerSent
  <2>4. CASE Done(c) /\ UNCHANGED down
    <3>1. mme_w'[c].pc = "idle"
      BY <1>y, <1>t, <2>4 DEF Done, Wait
    <3>2. DOMAIN up'[c] = {} /\ "idle" \in Serves[ran[c].pc]
      BY <2>2 DEF Serves
    <3> QED
      BY <1>t, <2>1, <2>2, <2>4, <3>1, <3>2, Serving
  <2> QED
    BY <1>t, <2>1, <2>3, <2>4
<1>11. CASE MmeDetachRemove(c)
  <2>1. /\ w.pc = "rem" /\ Done(c) /\ UNCHANGED <<up, down, toRan, mme_up>>
    BY <1>11 DEF MmeDetachRemove, HandlerAt, sctpVars
  <2>2. mme_w'[c].pc = "idle"
    BY <1>y, <1>t, <2>1 DEF Done, Wait
  <2>3. ran[c].pc \in {"off", "auth", "bye"} /\ (ran[c].pc = "bye" => up[c] = <<>>)
    BY <1>k, <1>v, <2>1
  <2>4. \A k \in DOMAIN up[c] : up[c][k].t = 1 /\ UpTrue(c, up[c][k])
    BY <1>o, <2>3 DEF Says
  <2>5. down[c] # <<>> => down[c][1].t = 5
    BY <1>t, <2>1, <2>3 DEF Turn, Expected
  <2>6. Turn(c)'
    BY <1>t, <1>p, <2>1, <2>2 DEF Turn, Serves, Answering, RanPc
  <2>7. ASSUME NEW k \in DOMAIN up'[c] PROVE UpTrue(c, up[c][k])'
    BY <2>1, <2>4, <2>7 DEF UpTrue
  <2>8. down'[c] # <<>> => DownTrue(c, down[c][1])'
    BY <2>1, <2>5 DEF DownTrue
  <2>9. Knows(c)'
    BY <1>t, <2>2, <2>3, <2>7, <2>8 DEF Knows
  <2> QED
    BY <1>t, <2>1, <2>6, <2>9
<1>12. CASE MmeHandover(c)
  <2> DEFINE x == [t |-> 7, id |-> m.id, arg |-> mme_ctx[g].ul, enb |-> m.arg]
  <2>1. /\ Receive(c, 7) /\ toRan' = toRan \cup {x} /\ x.t = 7
        /\ UNCHANGED <<down, mmeOwn>>
    BY <1>12 DEF MmeHandover, ToEnb
  <2>2. UNCHANGED <<mme_w, s1mme_id, mme_ctx, mme_up>>
    BY <2>1 DEF mmeOwn
  <2>3. /\ down'[c] = <<>> /\ mme_w'[c].pc = "idle"
        /\ \A k \in DOMAIN up'[c] : /\ up'[c][k].t \in Says[ran[c].pc]
                                    /\ up'[c][k].t \in Answered => k = Len(up'[c])
                                    /\ UpTrue(c, up'[c][k])
    BY <2>1, <2>2, TakeMessage
  <2>4. "idle" \in Serves[ran[c].pc] /\ "idle" \notin Answering \cup {"rem"}
    BY <1>p DEF Serves, Answering, RanPc
  <2>5. Turn(c)' /\ Knows(c)'
    BY <1>t, <2>2, <2>3, <2>4, Serving
  <2> QED
    BY <1>t, <2>1, <2>2, <2>5
<1>13. CASE MmeHoRequest(c)
  <2>1. PICK h \in HoOp : Receive(c, h[1]) /\ Wait(c, h[2], m.id, g)
    BY <1>13 DEF MmeHoRequest
  <2>2. UNCHANGED <<down, toRan, s1mme_id, mme_ctx, mme_up>>
    BY <1>13 DEF MmeHoRequest
  <2>3. /\ h[1] \in Says[ran[c].pc] /\ (h[1] # 1 => g = c) /\ down'[c] = <<>>
        /\ \A k \in DOMAIN up'[c] : /\ up'[c][k].t \in Says[ran[c].pc]
                                    /\ up'[c][k].t \in Answered => k = Len(up'[c])
                                    /\ UpTrue(c, up'[c][k])
    BY <2>1, <2>2, TakeMessage
  <2>4. h[2] = "teardown" /\ ran[c].pc = "end" /\ g = c
    BY <1>s, <2>3 DEF HoOp
  <2>5. mme_w'[c].pc = "teardown" /\ mme_w'[c].guti = c
    BY <1>y, <1>t, <2>1, <2>4 DEF Wait
  <2>6. "teardown" \in Serves[ran[c].pc] /\ "teardown" \notin Answering \cup {"rem"}
    BY <2>4 DEF Serves, Answering
  <2>7. Turn(c)' /\ Knows(c)'
    BY <1>t, <2>2, <2>3, <2>5, <2>6, Serving
  <2> QED
    BY <1>t, <2>2, <2>7
<1>14. CASE MmeHoAnswer(c)
  <2>1. PICK h \in HoOp, r \in Replies(c) :
          /\ w.pc = h[2] /\ Done(c)
          /\ IF r.ok /\ h[1] # 10 THEN ToEnb(h[1], w.id, r.teid, 0) ELSE UNCHANGED toRan
    BY <1>14 DEF MmeHoAnswer, HandlerAt
  <2>2. h[2] = "teardown" /\ h[1] = 10
    BY <1>v, <2>1 DEF HoOp
  <2>3. UNCHANGED <<up, down, toRan, s1mme_id, mme_ctx, mme_up>>
    BY <1>14, <2>1, <2>2 DEF MmeHoAnswer
  <2>4. mme_w'[c].pc = "idle" /\ down'[c] = <<>>
    BY <1>y, <1>t, <1>k, <2>1, <2>2, <2>3 DEF Done, Wait
  <2>5. "idle" \in Serves[ran[c].pc] /\ "idle" \notin Answering \cup {"rem"}
    BY <1>p DEF Serves, Answering, RanPc
  <2>6. Turn(c)' /\ Knows(c)'
    BY <1>t, <1>o, <2>3, <2>4, <2>5, Serving
  <2> QED
    BY <1>t, <2>3, <2>6
<1>15. CASE MmeIgnore(c)
  <2>1. up[c] # <<>> /\ (m.id = 0 <=> m.t # 1)
    BY <1>15 DEF MmeIgnore
  <2>2. 1 \in DOMAIN up[c] /\ m = up[c][1]
    <3>1. up[c] \in Seq(Up)
      BY <1>t DEF EpcTypeInv, EpcTypeOK, SctpTypeOK
    <3>2. Len(up[c]) \in Nat /\ Len(up[c]) # 0 /\ DOMAIN up[c] = 1 .. Len(up[c])
      BY <1>t, <2>1, Queues
    <3> QED
      BY <3>1, <3>2, <2>1, HeadElement
  <2>3. UpTrue(c, m)
    BY <1>o, <2>2
  <2> QED
    BY <1>t, <2>1, <2>3 DEF UpTrue
<1> QED
  BY <1>1, <1>2, <1>3, <1>4, <1>5, <1>6, <1>7, <1>8, <1>9, <1>10, <1>11, <1>12, <1>13,
     <1>14, <1>15 DEF MmeStep

(* A step on one connection leaves the queues of another alone.            *)
LEMMA OtherQueues ==
  ASSUME EpcTypeInv, NEW c \in Conn, MmeStep(c), NEW d \in Conn, d # c
  PROVE  up'[d] = up[d] /\ down'[d] = down[d]
<1>1. up \in [Conn -> Seq(Up)] /\ down \in [Conn -> Seq(Down)]
  BY DEF EpcTypeInv, EpcTypeOK, SctpTypeOK
<1>2. up' = up \/ up' = [up EXCEPT ![c] = Tail(@)]
  BY DEF MmeStep, MmeInitialAttach, MmeAutnInfo, MmeAuthentication, MmeSecurityComplete,
         MmeLocationUpdate, MmeCreateSession, MmeAttachComplete, MmeModifyBearer,
         MmeDetach, MmeDetachAnswer, MmeDetachRemove, MmeHandover, MmeHoRequest,
         MmeHoAnswer, MmeIgnore, Receive, sctpVars
<1>3. down' = down \/ \E t, id, arg, guti, ip : ToUe(c, t, id, arg, guti, ip)
  BY DEF MmeStep, MmeInitialAttach, MmeAutnInfo, MmeAuthentication, MmeSecurityComplete,
         MmeLocationUpdate, MmeCreateSession, MmeAttachComplete, MmeModifyBearer,
         MmeDetach, MmeDetachAnswer, MmeDetachRemove, MmeHandover, MmeHoRequest,
         MmeHoAnswer, MmeIgnore, sctpVars
<1>4. up'[d] = up[d]
  BY <1>1, <1>2
<1>5. down'[d] = down[d]
  BY <1>1, <1>3 DEF ToUe
<1> QED
  BY <1>4, <1>5

(* The ids in use stay apart when the MME removes some and gives out more. *)
LEMMA StillApart ==
  ASSUME NEW n \in UEs, Apart(n), UNCHANGED ran,
         ue_count \in Nat, ue_count' \in {ue_count, ue_count + 1},
         \A i \in 0 .. ue_count : s1mme_id'[i] \in {s1mme_id[i], 0}
  PROVE  Apart(n)'
<1>1. ran[n].id \in 0 .. ue_count' /\ s1mme_id'[ran[n].id] \in {0, n}
  BY DEF Apart
<1> QED
  BY <1>1 DEF Apart

LEMMA MmeUeInv ==
  ASSUME LockInv, NEW c \in UEs, MmeStep(c), UNCHANGED ran
  PROVE  EpcInv'
<1>t. /\ EpcTypeInv /\ MmeInv /\ MmeTypeInv /\ ue_count \in Nat /\ UEs \subseteq Conn
      /\ c \in Conn /\ 0 \in Conn /\ 0 # c
      /\ s1mme_id[0] = 0 /\ (Completing => AtEnd)
      /\ \A n \in UEs : Turn(n) /\ Knows(n) /\ Apart(n)
  BY CountIds, MmeIdentifiers DEF LockInv, MmeInv, EpcInv
<1>e. /\ ue_count' \in {ue_count, ue_count + 1}
      /\ \A i \in 0 .. ue_count :
           s1mme_id'[i] = s1mme_id[i] \/ (s1mme_id'[i] = 0 /\ s1mme_id[i] = c)
  BY <1>t, EntryChange
<1>1. Turn(c)' /\ Knows(c)' /\ mme_up' /\ \A m \in toRan' : m.t = 9 => m \in toRan
  BY MmeUeLock
<1>2. ASSUME NEW n \in UEs, n # c PROVE Turn(n)' /\ Knows(n)'
  <2>1. up'[n] = up[n] /\ down'[n] = down[n]
    BY <1>t, <1>2, OtherQueues
  <2>2. mme_w'[n] = mme_w[n] /\ mme_ctx'[n] = mme_ctx[n]
    BY <1>t, <1>2, OtherHandlers, OtherContexts
  <2>3. \A i \in UeId : s1mme_id[i] = n => s1mme_id'[i] = n
    <3>1. \A i \in UeId : i > ue_count => s1mme_id[i] = 0
      BY <1>t DEF MmeInv, IdsBehind
    <3> QED
      BY <1>t, <1>e, <1>2, <3>1, MmeIdentifiers
  <2> QED
    BY <1>t, <2>1, <2>2, <2>3, Untouched
<1>3. \A n \in UEs : Apart(n)'
  BY <1>t, <1>e, StillApart
<1>4. s1mme_id'[0] = 0
  BY <1>t, <1>e
<1>5. Completing' => AtEnd'
  <2>1. up'[0] = up[0] /\ mme_w'[0] = mme_w[0]
    BY <1>t, OtherQueues, OtherHandlers
  <2>2. Completing' => Completing
    BY <1>1, <2>1 DEF Completing
  <2> QED
    BY <1>t, <2>2 DEF AtEnd
<1> QED
  BY <1>1, <1>2, <1>3, <1>4, <1>5 DEF EpcInv

LEMMA MmeTargetInv ==
  ASSUME LockInv, MmeStep(0), UNCHANGED ran
  PROVE  EpcInv'
<1>t. /\ EpcTypeInv /\ MmeInv /\ MmeTypeInv /\ 0 \in Conn /\ mme_up /\ ue_count \in Nat
      /\ s1mme_id[0] = 0 /\ (Completing => AtEnd)
      /\ \A n \in UEs : n \in Conn /\ n # 0 /\ Turn(n) /\ Knows(n) /\ Apart(n)
  BY CountIds, MmeIdentifiers DEF LockInv, MmeInv, EpcInv
<1>u. UNCHANGED <<ue_count, s1mme_id, mme_ctx>>
  BY <1>t, TargetStep
<1>h. mme_w[0].pc \in {"idle", "setup", "complete"} /\ (up[0] # <<>> => Head(up[0]).t \in {8, 9})
  BY <1>t, HeadOwn DEF MmeInv, TargetHandler
<1>y. mme_w \in [Conn -> [pc : MmePc, id : UeId, guti : Imsi]]
  BY <1>t DEF MmeTypeInv, MmeTypeOK
<1>1. ASSUME NEW n \in UEs PROVE Turn(n)' /\ Knows(n)' /\ Apart(n)'
  <2>1. up'[n] = up[n] /\ down'[n] = down[n] /\ mme_w'[n] = mme_w[n]
    BY <1>t, OtherQueues, OtherHandlers
  <2>2. Turn(n)' /\ Knows(n)'
    BY <1>t, <1>u, <2>1, Untouched
  <2> QED
    BY <1>t, <1>u, <2>2, StillApart
<1>2. MmeHandover(0) \/ MmeHoRequest(0) \/ MmeHoAnswer(0) \/ MmeIgnore(0)
  <2>1. ~MmeInitialAttach(0) /\ ~MmeAuthentication(0) /\ ~MmeSecurityComplete(0)
    BY <1>h DEF MmeInitialAttach, MmeAuthentication, MmeSecurityComplete, Receive
  <2>2. ~MmeAttachComplete(0) /\ ~MmeDetach(0)
    BY <1>h DEF MmeAttachComplete, MmeDetach, Receive
  <2>3. ~MmeAutnInfo(0) /\ ~MmeLocationUpdate(0) /\ ~MmeDetachRemove(0)
    BY <1>h DEF MmeAutnInfo, MmeLocationUpdate, MmeDetachRemove, HandlerAt
  <2>4. ~MmeCreateSession(0) /\ ~MmeModifyBearer(0) /\ ~MmeDetachAnswer(0)
    BY <1>h DEF MmeCreateSession, MmeModifyBearer, MmeDetachAnswer, HandlerAt
  <2> QED
    BY <2>1, <2>2, <2>3, <2>4 DEF MmeStep
<1>3. mme_up'
  BY <1>t, <1>2 DEF MmeHandover, MmeHoRequest, MmeHoAnswer, MmeIgnore, mmeOwn
<1>4. Completing' => Completing
  <2>1. ASSUME NEW k \in DOMAIN up'[0], up'[0][k].t = 9 PROVE Completing
    <3>1. \E j \in DOMAIN up[0] : up'[0][k] = up[0][j]
      BY <1>t, MessagesTaken
    <3> QED
      BY <2>1, <3>1 DEF Completing
  <2>2. ASSUME mme_w'[0].pc = "complete" PROVE Completing
    <3>1. CASE MmeHoRequest(0)
      <4>1. PICK h \in HoOp : Receive(0, h[1]) /\ Wait(0, h[2], Head(up[0]).id, get_guti(0))
        BY <3>1 DEF MmeHoRequest
      <4>2. mme_w'[0].pc = h[2]
        BY <1>t, <1>y, <4>1 DEF Wait
      <4>3. h[1] = 9 /\ up[0] # <<>> /\ Head(up[0]).t = 9
        BY <2>2, <4>1, <4>2 DEF HoOp, Receive
      <4>4. 1 \in DOMAIN up[0] /\ Head(up[0]) = up[0][1]
        BY <1>t, <4>3, QueueRead
      <4> QED
        BY <4>3, <4>4 DEF Completing
    <3>2. CASE MmeHoAnswer(0)
      <4>1. mme_w'[0].pc = "idle"
        BY <1>t, <1>y, <3>2 DEF MmeHoAnswer, Done, Wait
      <4> QED
        BY <2>2, <4>1
    <3>3. CASE UNCHANGED mme_w
      BY <2>2, <3>3 DEF Completing
    <3> QED
      BY <1>2, <3>1, <3>2, <3>3 DEF MmeHandover, MmeIgnore, mmeOwn
  <2>3. ASSUME NEW m \in toRan', m.t = 9 PROVE Completing
    <3>1. CASE MmeHandover(0)
      BY <1>h, <3>1 DEF MmeHandover, Receive
    <3>2. CASE MmeHoAnswer(0)
      <4>1. PICK h \in HoOp, r \in Replies(0) :
              /\ mme_w[0].pc = h[2]
              /\ IF r.ok /\ h[1] # 10 THEN ToEnb(h[1], mme_w[0].id, r.teid, 0)
                                      ELSE UNCHANGED toRan
        BY <3>2 DEF MmeHoAnswer, HandlerAt
      <4>2. CASE m \in toRan
        BY <2>3, <4>2 DEF Completing
      <4>3. CASE m \notin toRan
        <5>1. m.t = h[1]
          BY <4>1, <4>3 DEF ToEnb
        <5>2. h[2] = "complete"
          BY <2>3, <5>1 DEF HoOp
        <5> QED
          BY <4>1, <5>2 DEF Completing
      <4> QED
        BY <4>2, <4>3
    <3>3. CASE UNCHANGED toRan
      BY <2>3, <3>3 DEF Completing
    <3> QED
      BY <1>2, <3>1, <3>2, <3>3 DEF MmeHoRequest, MmeIgnore
  <2> QED
    BY <2>1, <2>2, <2>3 DEF Completing
<1>5. Completing' => AtEnd'
  BY <1>t, <1>4 DEF AtEnd
<1> QED
  BY <1>t, <1>u, <1>1, <1>3, <1>5 DEF EpcInv
-----------------------------------------------------------------------------
(* The invariant.                                                          *)

LEMMA RanUeInv ==
  ASSUME LockInv, NEW n \in UEs, RanUeStep(n), UNCHANGED mmeOwn
  PROVE  EpcInv'
<1>t. /\ EpcTypeInv /\ MmeInv /\ ue_count \in Nat /\ n \in Conn /\ 0 \in Conn /\ 0 # n
      /\ mme_up /\ s1mme_id[0] = 0 /\ (Completing => AtEnd)
      /\ \A m \in UEs : Turn(m) /\ Knows(m) /\ Apart(m)
  BY CountIds, MmeIdentifiers DEF LockInv, MmeInv, EpcInv
<1>r. ran \in [UEs -> RanCtx]
  BY <1>t DEF EpcTypeInv, EpcTypeOK, RanTypeOK
<1>u. UNCHANGED <<ue_count, s1mme_id, mme_ctx, mme_w, mme_up>>
  BY DEF mmeOwn
<1>o. /\ UNCHANGED toRan
      /\ \A d \in Conn \ {n} : up'[d] = up[d]
      /\ \A m \in UEs \ {n} : ran'[m] = ran[m] /\ down'[m] = down[m]
  BY <1>t, RanOthers
<1>1. ASSUME NEW m \in UEs PROVE Turn(m)' /\ Knows(m)'
  <2>1. CASE m = n
    BY <2>1, RanUeLock
  <2>2. CASE m # n
    <3>1. up'[m] = up[m]
      BY <1>o, <2>2, MmeIdentifiers
    <3> QED
      BY <1>t, <1>u, <1>o, <2>2, <3>1, Untouched
  <2> QED
    BY <2>1, <2>2
(* The id of the thread is the one it had, or the one it was just given.   *)
<1>2. \/ ran'[n].id = ran[n].id
      \/ ran'[n].id \in 0 .. ue_count /\ s1mme_id[ran'[n].id] = n
  <2>1. CASE RanAuthenticate(n)
    <3>1. down[n] # <<>> /\ Head(down[n]) = down[n][1] /\ ran[n].pc = "auth"
      BY <1>t, <2>1, RcvQueue DEF RanAuthenticate, RanAt
    <3>2. ran'[n].id = down[n][1].id
      BY <1>r, <2>1, <3>1 DEF RanAuthenticate, RanCtx
    <3>3. down[n][1].t = 1 /\ s1mme_id[down[n][1].id] = n
      BY <1>t, <3>1 DEF Turn, Knows, DownTrue, Expected
    <3>4. down[n][1].id \in UeId /\ IdsBehind
      BY <1>t, <3>1, Queues DEF Down, MmeInv
    <3>5. down[n][1].id \in 0 .. ue_count
      <4> DEFINE i == down[n][1].id
      <4>1. i \in Nat /\ s1mme_id[i] # 0 /\ (i > ue_count => s1mme_id[i] = 0)
        BY <1>t, <3>3, <3>4, MmeIdentifiers DEF IdsBehind
      <4> HIDE DEF i
      <4>2. i \in 0 .. ue_count
        BY <1>t, <4>1
      <4> QED
        BY <4>2 DEF i
    <3> QED
      BY <3>2, <3>3, <3>5
  <2>2. CASE ~RanAuthenticate(n)
    BY <1>r, <2>2 DEF RanUeStep, RanInitialAttach, RanSetSecurity, RanSetEpsSession,
                      RanDetach, RanDetached, RanCtx
  <2> QED
    BY <2>1, <2>2
<1>3. ASSUME NEW m \in UEs PROVE Apart(m)'
  <2>1. CASE ran'[n].id = ran[n].id
    <3>1. \A k \in UEs : ran'[k].id = ran[k].id
      BY <1>o, <2>1
    <3> QED
      BY <1>t, <1>u, <3>1 DEF Apart
  <2>2. CASE ran'[n].id \in 0 .. ue_count /\ s1mme_id[ran'[n].id] = n
    <3>1. \A k \in UEs \ {n} : ran'[k].id = ran[k].id /\ ran'[n].id # ran[k].id
      BY <1>t, <1>o, <2>2 DEF Apart
    <3> QED
      BY <1>t, <1>u, <2>2, <3>1 DEF Apart
  <2> QED
    BY <1>2, <2>1, <2>2
<1>4. Completing' => AtEnd'
  <2>1. Completing' => Completing
    BY <1>t, <1>u, <1>o DEF Completing
  <2>2. ran[n].pc # "end"
    BY DEF RanUeStep, RanInitialAttach, RanAuthenticate, RanSetSecurity, RanSetEpsSession,
           RanDetach, RanDetached, RanAt
  <2>3. AtEnd => AtEnd'
    BY <1>o, <2>2 DEF AtEnd
  <2> QED
    BY <1>t, <2>1, <2>3
<1> QED
  BY <1>t, <1>u, <1>1, <1>3, <1>4 DEF EpcInv

LEMMA RanHoInv ==
  ASSUME LockInv, RanHoStep, UNCHANGED mmeOwn
  PROVE  EpcInv'
<1>t. /\ EpcTypeInv /\ 0 \in Conn /\ UEs \subseteq Conn /\ 0 \notin UEs
      /\ mme_up /\ s1mme_id[0] = 0 /\ (Completing => AtEnd)
      /\ \A m \in UEs : Turn(m) /\ Knows(m) /\ Apart(m)
  BY MmeIdentifiers DEF LockInv, EpcInv
<1>r. ran \in [UEs -> RanCtx]
  BY <1>t DEF EpcTypeInv, EpcTypeOK, RanTypeOK
<1>u. UNCHANGED <<ue_count, s1mme_id, mme_ctx, mme_w, mme_up>>
  BY DEF mmeOwn
<1>1. \A m \in UEs : Turn(m)' /\ Knows(m)' /\ ran'[m].id = ran[m].id
  BY RanHoLock
<1>2. \A m \in UEs : Apart(m)'
  BY <1>t, <1>u, <1>1 DEF Apart
<1>3. Completing' => AtEnd'
  <2>1. CASE RanInitiateHandover
    <3>1. PICK m \in UEs \cap {HoUE} :
            /\ ran[m].pc = "attached" /\ Send(m, 7, ran[m].id, m) /\ UNCHANGED toRan
      BY <2>1 DEF RanInitiateHandover, RanAt
    <3>2. up'[0] = up[0]
      <4>1. m \in Conn /\ 0 \in Conn \ {m}
        BY <1>t
      <4> QED
        BY <1>t, <3>1, <4>1, SendQueue
    <3>3. Completing' => Completing
      BY <1>u, <3>1, <3>2 DEF Completing
    <3> QED
      BY <1>t, <3>1, <3>3 DEF AtEnd
  <2>2. CASE RanHandleHandover \/ RanConnect \/ RanIndirectTunnelComplete
    <3>1. UNCHANGED <<up, ran>> /\ toRan' \subseteq toRan
      BY <2>2 DEF RanHandleHandover, RanConnect, RanIndirectTunnelComplete, sctpVars
    <3>2. Completing' => Completing
      BY <1>u, <3>1 DEF Completing
    <3> QED
      BY <1>t, <3>1, <3>2 DEF AtEnd
  <2>3. CASE RanAckHandover
    <3>1. UNCHANGED <<ran, toRan>> /\ Send(0, 8, ranT.id, ranT.enb)
      BY <2>3 DEF RanAckHandover
    <3>2. /\ DOMAIN up'[0] = 1 .. Len(up[0]) + 1
          /\ \A k \in 1 .. Len(up[0]) : up'[0][k] = up[0][k]
          /\ up'[0][Len(up[0]) + 1] = [t |-> 8, id |-> ranT.id, arg |-> ranT.enb]
      BY <1>t, <3>1, SendQueue
    <3>3. Len(up[0]) \in Nat /\ DOMAIN up[0] = 1 .. Len(up[0])
      BY <1>t, Queues
    <3>4. ASSUME NEW k \in DOMAIN up'[0], up'[0][k].t = 9 PROVE Completing
      <4>1. k # Len(up[0]) + 1
        BY <3>2, <3>4
      <4>2. k \in DOMAIN up[0] /\ up'[0][k] = up[0][k]
        BY <3>2, <3>3, <4>1
      <4> QED
        BY <3>4, <4>2 DEF Completing
    <3>5. Completing' => Completing
      BY <1>u, <3>1, <3>4 DEF Completing
    <3> QED
      BY <1>t, <3>1, <3>5 DEF AtEnd
  <2>4. CASE RanCompleteHandover
    <3>1. \E m \in UEs \cap {HoUE} : ran' = [ran EXCEPT ![m].pc = "end"]
      BY <2>4 DEF RanCompleteHandover
    <3> QED
      BY <1>r, <3>1 DEF AtEnd, RanCtx
  <2>5. CASE RanRequestTearDown
    <3>1. PICK x \in toRan, m \in UEs \cap {HoUE} :
            /\ x.t = 9 /\ ran' = [ran EXCEPT ![m].ul = 0]
      BY <2>5 DEF RanRequestTearDown
    <3>2. AtEnd
      BY <1>t, <3>1 DEF Completing
    <3> QED
      BY <1>r, <3>1, <3>2 DEF AtEnd, RanCtx
  <2> QED
    BY <2>1, <2>2, <2>3, <2>4, <2>5 DEF RanHoStep
<1> QED
  BY <1>t, <1>u, <1>1, <1>2, <1>3 DEF EpcInv

LEMMA LockInit == EpcInit => LockInv
<1> SUFFICES ASSUME EpcInit PROVE LockInv
  OBVIOUS
<1>1. EpcTypeInv /\ MmeInv
  BY EpcInitType, MmeInitInv DEF EpcInit
<1>2. \A c \in Conn : up[c] = <<>> /\ down[c] = <<>> /\ DOMAIN up[c] = {}
  BY DEF EpcInit, SctpInit
<1>3. /\ toRan = {} /\ ue_count = 0 /\ mme_up /\ s1mme_id[0] = 0
      /\ \A c \in Conn : mme_w[c].pc = "idle"
      /\ \A n \in UEs : ran[n].pc = "off" /\ ran[n].id = 0
  BY MmeIdentifiers DEF EpcInit, SctpInit, MmeInit, RanInit
<1>4. ASSUME NEW n \in UEs PROVE Turn(n) /\ Knows(n) /\ Apart(n)
  <2>1. n \in Conn
    BY MmeIdentifiers
  <2> QED
    BY <1>2, <1>3, <2>1 DEF Turn, Knows, Apart, Serves, Answering
<1>5. ~Completing
  BY <1>2, <1>3, MmeIdentifiers DEF Completing
<1> QED
  BY <1>1, <1>3, <1>4, <1>5 DEF LockInv, EpcInv

(* The other four programs, seen from the MME, are its environment.        *)
LEMMA OthersAreEnv ==
  ASSUME MmeInv, EpcTypeInv', EpcInv', UNCHANGED mmeOwn,
         \A k \in DOMAIN up'[0] : up'[0][k].t \in {8, 9}
  PROVE  MmeEnv
<1>1. SctpTypeOK' /\ s11' \subseteq S11Req /\ s11r' \subseteq S11Rsp
  BY DEF EpcTypeInv, EpcTypeOK, GtpTypeOK
<1>2. ASSUME NEW c \in UEs, NEW k \in DOMAIN up'[c] PROVE OwnMessage(c, up'[c][k])
  <2>1. UpTrue(c, up[c][k])' /\ Apart(c)' /\ s1mme_id'[0] = 0
    BY <1>2 DEF EpcInv, Knows
  <2>2. ue_count \in Nat /\ UNCHANGED <<s1mme_id, ue_count>>
    BY CountIds DEF MmeInv, mmeOwn
  <2>3. up'[c][k].id \in 0 .. ue_count /\ s1mme_id[up'[c][k].id] \in {0, c}
    BY <2>1, <2>2 DEF UpTrue, Apart
  <2>4. up'[c][k].t \in {1, 5} => up'[c][k].arg = c
    BY <2>1 DEF UpTrue
  <2> QED
    BY <2>3, <2>4 DEF OwnMessage
<1> QED
  BY <1>1, <1>2 DEF MmeEnv

(* The target eNodeB's connection carries what complete_handover and       *)
(* handle_handover send.                                                   *)
LEMMA TargetTalks ==
  ASSUME LockInv, RanNext
  PROVE  \A k \in DOMAIN up'[0] : up'[0][k].t \in {8, 9}
<1>t. /\ EpcTypeInv /\ 0 \in Conn /\ UEs \subseteq Conn /\ 0 \notin UEs /\ TargetMessages
      /\ \A m \in UEs : Turn(m)
  BY MmeIdentifiers DEF LockInv, MmeInv, EpcInv
<1>1. ASSUME NEW t \in {8, 9}, NEW id, NEW arg, Send(0, t, id, arg), NEW k \in DOMAIN up'[0]
      PROVE  up'[0][k].t \in {8, 9}
  <2>1. /\ DOMAIN up'[0] = 1 .. Len(up[0]) + 1
        /\ \A j \in 1 .. Len(up[0]) : up'[0][j] = up[0][j]
        /\ up'[0][Len(up[0]) + 1] = [t |-> t, id |-> id, arg |-> arg]
    BY <1>t, <1>1, SendQueue
  <2>2. Len(up[0]) \in Nat /\ DOMAIN up[0] = 1 .. Len(up[0])
    BY <1>t, Queues
  <2>3. CASE k \in DOMAIN up[0]
    BY <1>t, <2>1, <2>2, <2>3 DEF TargetMessages
  <2>4. CASE k = Len(up[0]) + 1
    BY <2>1, <2>4
  <2> QED
    BY <1>1, <2>1, <2>2, <2>3, <2>4
<1>2. ASSUME up'[0] = up[0], NEW k \in DOMAIN up'[0] PROVE up'[0][k].t \in {8, 9}
  BY <1>t, <1>2 DEF TargetMessages
<1>3. ASSUME NEW n \in UEs, RanUeStep(n) PROVE up'[0] = up[0]
  BY <1>t, <1>3, RanOthers
<1>4. CASE RanInitiateHandover \/ RanRequestTearDown
  <2>1. PICK m \in UEs : \E t, id, arg : Send(m, t, id, arg)
    BY <1>4 DEF RanInitiateHandover, RanRequestTearDown
  <2>2. up'[0] = up[0]
    <3>1. m \in Conn /\ 0 \in Conn \ {m}
      BY <1>t
    <3> QED
      BY <1>t, <2>1, <3>1, SendQueue
  <2> QED
    BY <1>2, <2>2
<1>5. CASE RanHandleHandover \/ RanConnect \/ RanIndirectTunnelComplete
  BY <1>2, <1>5 DEF RanHandleHandover, RanConnect, RanIndirectTunnelComplete, sctpVars
<1>6. CASE RanAckHandover
  BY <1>1, <1>6 DEF RanAckHandover
<1>7. CASE RanCompleteHandover
  BY <1>1, <1>2, <1>7 DEF RanCompleteHandover
<1> QED
  BY <1>2, <1>3, <1>4, <1>5, <1>6, <1>7 DEF RanNext, RanHoStep

LEMMA LockNext ==
  ASSUME LockInv, [EpcNext]_epcVars
  PROVE  LockInv' /\ [MmeNext]_mmeVars
<1>t. EpcTypeInv /\ EpcTypeInv' /\ MmeInv /\ EpcInv
  BY EpcNextType DEF LockInv
<1>1. CASE RanNext
  <2>1. UNCHANGED mmeOwn
    BY <1>1 DEF RanNext
  <2>2. EpcInv'
    BY <1>1, <2>1, RanUeInv, RanHoInv DEF RanNext
  <2>3. MmeNext
    BY <1>1, <1>t, <2>1, <2>2, TargetTalks, OthersAreEnv DEF MmeNext
  <2> QED
    BY <1>t, <2>2, <2>3, MmeNextInv DEF LockInv
<1>2. ASSUME NEW c \in Conn, MmeProcess(c) PROVE LockInv' /\ [MmeNext]_mmeVars
  <2>1. MmeStep(c) /\ UNCHANGED ran
    BY <1>2 DEF MmeProcess, ranOwn
  <2>2. EpcInv'
    <3>1. CASE c = 0
      BY <2>1, <3>1, MmeTargetInv
    <3>2. CASE c \in UEs
      BY <2>1, <3>2, MmeUeInv
    <3> QED
      BY <3>1, <3>2, MmeIdentifiers
  <2>3. MmeNext
    BY <2>1 DEF MmeNext
  <2> QED
    BY <1>t, <2>2, <2>3, MmeNextInv DEF LockInv
<1>3. ASSUME UNCHANGED <<up, down, toRan, ran, mmeOwn>> PROVE LockInv' /\ [MmeNext]_mmeVars
  <2>1. EpcInv'
    BY <1>t, <1>3
    DEF EpcInv, Completing, AtEnd, Turn, Knows, Apart, UpTrue, DownTrue, mmeOwn
  <2>2. \A k \in DOMAIN up'[0] : up'[0][k].t \in {8, 9}
    BY <1>t, <1>3 DEF MmeInv, TargetMessages
  <2>3. MmeNext
    BY <1>t, <1>3, <2>1, <2>2, OthersAreEnv DEF MmeNext
  <2> QED
    BY <1>t, <2>1, <2>3, MmeNextInv DEF LockInv
<1>4. ASSUME NEW c \in Conn, HssNext(c) PROVE UNCHANGED <<up, down, toRan, ran, mmeOwn>>
  BY <1>4 DEF HssNext, HssStep, HssAutnInfo, HssExit, HssDeleteLoc, HssInsertLoc, ranOwn
<1>5. ASSUME NEW t, SgwProcess(t) \/ PgwProcess(t)
      PROVE  UNCHANGED <<up, down, toRan, ran, mmeOwn>>
  BY <1>5 DEF SgwProcess, PgwProcess, ranOwn, sctpVars
<1>6. CASE UNCHANGED epcVars
  BY <1>3, <1>6 DEF epcVars, sctpVars, ranOwn
<1> QED
  BY <1>1, <1>2, <1>3, <1>4, <1>5, <1>6 DEF EpcNext

LEMMA LockInvariant == EpcSpec => []LockInv
BY LockInit, LockNext, PTL DEF EpcSpec
-----------------------------------------------------------------------------
(* What the RAN reads as the answer it waits for is that answer, whatever  *)
(* the attaches, detaches and handovers of others do meanwhile             *)
(* (Ran::authenticate, set_security, set_eps_session, detach).             *)
THEOREM EpcLockstep == EpcSpec => []Lockstep
<1>1. LockInv => Lockstep
  <2> SUFFICES ASSUME LockInv, NEW n \in UEs, NEW k \in 1 .. Len(down[n])
               PROVE  k = 1 /\ down[n][k].t = Expected[ran[n].pc]
    BY DEF Lockstep
  <2>1. Turn(n) /\ EpcTypeInv /\ n \in Conn
    BY MmeIdentifiers DEF LockInv, EpcInv
  <2>2. down[n] \in Seq(Down)
    BY <2>1 DEF EpcTypeInv, EpcTypeOK, SctpTypeOK
  <2>3. down[n] # <<>>
    BY <2>2
  <2> QED
    BY <2>1, <2>3 DEF Turn
<1> QED
  BY <1>1, LockInvariant, PTL

(* The id a subscriber uses between authentication and detach is its own   *)
(* in the MME and nobody else's in the RAN (get_guti, s1mme_id).           *)
THEOREM EpcIdentity == EpcSpec => []Identity
<1>1. LockInv => Identity
  BY DEF LockInv, EpcInv, Knows, Apart, Identity
<1> QED
  BY <1>1, LockInvariant, PTL

(* The RAN, the HSS and the gateways ask nothing of the MME that MmeEnv    *)
(* does not allow, so what is proved of the MME alone holds in the system  *)
(* (handle_ue).                                                            *)
THEOREM EpcImplementsMme == EpcSpec => MmeSpec
<1>1. EpcInit => SctpInit /\ GtpInit /\ MmeInit
  BY DEF EpcInit
<1>2. LockInv /\ [EpcNext]_epcVars => [MmeNext]_mmeVars
  BY LockNext
<1> QED
  BY <1>1, <1>2, LockInvariant, PTL DEF EpcSpec, MmeSpec

(* No message of a run names a subscriber the MME does not have, so the    *)
(* MME never leaves through handle_type1_error or the exception of         *)
(* get_s11cteidmme, even when the gateways do not answer in time.          *)
THEOREM EpcMmeNeverExits == EpcSpec => []mme_up
<1>1. LockInv => mme_up
  BY DEF LockInv, EpcInv
<1> QED
  BY <1>1, LockInvariant, PTL

(* What the handlers of the MME write reaches the right subscriber in the  *)
(* whole system too.                                                       *)
THEOREM EpcHandlerKeepsSubscriber == EpcSpec => []HandlerKeepsSubscriber
BY EpcImplementsMme, MmeHandlerKeepsSubscriber, PTL
=============================================================================
