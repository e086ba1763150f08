------------------------------- MODULE MCMme -------------------------------
(***************************************************************************)
(* The mobility management entity in an open environment: eNodeBs that     *)
(* send any message, in any order, with an id they were given or one that  *)
(* is no longer in use, and an HSS and an SGW that answer anything.        *)
(***************************************************************************)
EXTENDS Mme

CONSTANT MaxMessages   \* bound: the messages of the eNodeBs

VARIABLE sent

MCS11Sock == Conn \X (0 .. MaxS11Timeouts)

(* A subscriber uses its ids on its own connection alone, and ids that     *)
(* were anybody's but are removed.                                         *)
MCIds(n) == {i \in 0 .. ue_count : s1mme_id[i] \in {0, n}}

MCMessages(n) == {[t |-> 1, id |-> 0, arg |-> n]} \cup
                 {[t |-> t, id |-> i, arg |-> n] : t \in {2, 3, 4, 5, 7, 8, 9, 10},
                                                   i \in MCIds(n)}

MCRan ==
  \E n \in UEs : \E m \in MCMessages(n) :
    /\ sent < MaxMessages /\ up[n] = <<>> /\ mme_w[n].pc = "idle"
    /\ sent' = sent + 1
    /\ up' = [up EXCEPT ![n] = <<m>>]
    /\ down' = [c \in Conn |-> <<>>] /\ toRan' = {}
    /\ UNCHANGED <<s6a, gtpVars, mmeOwn>>

MCHss ==
  \E c \in UEs :
    /\ \/ s6a[c].k = "autn" /\ \E x \in {0, c} : s6a' = [s6a EXCEPT ![c] = [k |-> "autn_ok", x |-> x]]
       \/ s6a[c].k = "loc" /\ s6a' = [s6a EXCEPT ![c].k = "loc_ok"]
    /\ UNCHANGED <<up, down, toRan, gtpVars, mmeOwn, sent>>

MCSgwAnswer ==
  \E d \in s11, ok \in BOOLEAN :
    /\ s11' = s11 \ {d}
    /\ s11r' = s11r \cup {[op |-> d.op, sock |-> d.sock, ok |-> ok, teid |-> d.arg, ip |-> 0]}
    /\ UNCHANGED <<sctpVars, s5, s5r, mmeOwn, sent>>

MCNext == \/ MCRan \/ MCHss \/ MCSgwAnswer
          \/ \E c \in UEs : MmeStep(c) /\ UNCHANGED sent

MCInit == SctpInit /\ GtpInit /\ MmeInit /\ sent = 0

MCSpec == MCInit /\ [][MCNext]_<<mmeVars, sent>>

MCView == <<up, s6a, s11, s11r, mmeOwn, sent>>
=============================================================================
