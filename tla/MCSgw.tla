------------------------------- MODULE MCSgw -------------------------------
(***************************************************************************)
(* The serving gateway in an open environment: an MME and a PGW that send  *)
(* any well-formed datagram in any order, whatever was asked before.       *)
(***************************************************************************)
EXTENDS Sgw, TLC

CONSTANTS
  MaxRequests,   \* bound: the requests the environment makes
  Requests       \* the operations it makes them for

VARIABLE made

CONSTANTS t1, t2
MCThreads == {t1, t2}
MCSymmetry == Permutations(MCThreads)

(* Nothing reads s11r here: states that differ in it alone are one.        *)
MCView == <<s11, s5, s5r, sgwOwn, made>>
MCS11Sock == {1}
MCS5Sock == MCThreads \X (0 .. 1)

(* S5 TEIDs are opaque to the gateway; the others are a subscriber's own   *)
(* and the indirect one after it.                                          *)
MCRequest ==
  {d \in S11Req : /\ d.op \in Requests
                  /\ d.op # "create" => d.imsi = 0
                  /\ d.op = "create" => d.teid = 0
                  /\ d.op \in {"detach", "complete"} => d.arg = 0
                  /\ d.op \in {"modify", "setup"} => d.arg \in UEs}

(* A request waits in the socket buffer only until a thread takes it, so   *)
(* an environment that keeps one there at a time, and sends the next when  *)
(* a thread may take it, loses no interleaving of the handlers.            *)
MCEnv ==
  /\ \/ /\ made < MaxRequests /\ s11 = {}
        /\ made' = made + 1
        /\ \E d \in MCRequest : s11' = s11 \cup {d}
        /\ UNCHANGED <<s5, s5r>>
     \/ \E q \in s5, ok \in BOOLEAN :
          /\ s5' = s5 \ {q}
          /\ s5r' = s5r \cup {[sock |-> q.sock, ok |-> ok, teid |-> q.teid, ip |-> 0]}
          /\ UNCHANGED <<s11, made>>
  /\ s11r' = {}
  /\ UNCHANGED sgwOwn

MCNext == \/ MCEnv
          \/ \E t \in S11Threads : SgwStep(t) /\ UNCHANGED made

MCInit == GtpInit /\ SgwInit /\ made = 0

MCSpec == MCInit /\ [][MCNext]_<<sgwVars, made>>
=============================================================================
