------------------------------- MODULE Session -------------------------------
(***************************************************************************)
(* What the packet core promises its subscribers, whatever the processes   *)
(* that serve them: each subscriber's session is one thing, in one phase   *)
(* at a time, which a step changes for that subscriber alone and only      *)
(* along the life of a session.                                            *)
(***************************************************************************)
CONSTANT UEs        \* the subscribers

VARIABLES
  phase,       \* the phase each subscriber's session is in
  authorised   \* the subscribers whose key the core knows

sessionVars == <<phase, authorised>>

(* none: the core does not know the subscriber; known: it does, and routes *)
(* nothing; routed: signalling and uplink packets find their way; active:  *)
(* downlink packets too; handover: the downlink is about to move.          *)
Phase == {"none", "known", "routed", "active", "handover"}

SessionTypeOK == phase \in [UEs -> Phase] /\ authorised \subseteq UEs

SessionInit == phase = [n \in UEs |-> "none"] /\ authorised \subseteq UEs

Moves(n, from, to) == phase[n] = from /\ phase' = [phase EXCEPT ![n] = to]

Attach(n)   == Moves(n, "none", "known")
Reject(n)   == Moves(n, "known", "none")
Admit(n)    == n \in authorised /\ Moves(n, "known", "routed")
Activate(n) == Moves(n, "routed", "active")
Prepare(n)  == Moves(n, "active", "handover")
Switch(n)   == Moves(n, "handover", "active")
Release(n)  == Moves(n, "active", "routed")
Withdraw(n) == Moves(n, "routed", "known") \/ Moves(n, "routed", "none")

SessionNext ==
  /\ \E n \in UEs : \/ Attach(n) \/ Reject(n) \/ Admit(n) \/ Activate(n)
                    \/ Prepare(n) \/ Switch(n) \/ Release(n) \/ Withdraw(n)
  /\ UNCHANGED authorised

SessionSpec == SessionInit /\ [][SessionNext]_sessionVars
=============================================================================
