------------------------------ MODULE MCCodec ------------------------------
(***************************************************************************)
(* Small instances of the messages and of the identifiers.  The two share  *)
(* nothing, so each is explored while the other has not begun.             *)
(***************************************************************************)
EXTENDS Wire, Identifiers

codecVars == <<wireVars, idVars>>

CodecNext ==
  \/ i = 0 /\ WireNext /\ UNCHANGED idVars
  \/ msg = "none" /\ IdNext /\ UNCHANGED wireVars
  \/ i = MAX_UE_COUNT /\ UNCHANGED codecVars

CodecInit == WireInit /\ IdInit

CodecSpec == CodecInit /\ [][CodecNext]_codecVars

AllMessages == DOMAIN Program
AgreedMessages == AllMessages \ {"sec_cmd"}
=============================================================================
