--------------------------------- MODULE Hss ---------------------------------
(***************************************************************************)
(* The home subscriber server (hss.cpp, hss_server.cpp).  Its workers      *)
(* share one MySQL connection under a lock that is held for one query; a   *)
(* step is one query, the last one of a handler with its answer.           *)
(***************************************************************************)
EXTENDS SctpNet

CONSTANT AutnInfo   \* the contents table autn_info may have

(* The row of a subscriber holds the key on its SIM, or another one, or    *)
(* there is no row.                                                        *)
ASSUME AutnInfoAssumption == AutnInfo \subseteq [UEs -> {"same", "other", "none"}]

VARIABLES
  autn_info,     \* the subscribers' rows; no program writes this table
  loc_info,      \* IMSI -> number of rows in loc_info, up to two
  hss_up         \* the process has not left through handle_type1_error

hssOwn == <<autn_info, loc_info, hss_up>>

HssTypeOK == /\ autn_info \in AutnInfo
             /\ loc_info \in [Imsi -> 0 .. 2]
             /\ hss_up \in BOOLEAN

HssInit == /\ autn_info \in AutnInfo
           /\ loc_info = [i \in Imsi |-> 0]
           /\ hss_up = TRUE
-----------------------------------------------------------------------------
Provisioned == {n \in UEs : autn_info[n] = "same"}

HasRow(imsi) == imsi \in UEs /\ autn_info[imsi] # "none"

Asked(c, k) == hss_up /\ s6a[c].k = k

(* The vector for imsi: what its key yields.  A SIM with another key finds *)
(* another token; the random number, equal on both sides, is left out.     *)
get_autn_info(imsi) == IF imsi \in Provisioned THEN imsi ELSE 0

(* handle_autninfo_req *)
HssAutnInfo(c) ==
  /\ Asked(c, "autn") /\ HasRow(s6a[c].x)
  /\ s6a' = [s6a EXCEPT ![c] = [k |-> "autn_ok", x |-> get_autn_info(s6a[c].x)]]
  /\ UNCHANGED <<up, down, toRan, hssOwn>>

(* What the MME reads on a connection that is closed on it: a cleared      *)
(* packet, zeros.                                                          *)
Closed(x) ==
  CASE x.k = "autn" -> [k |-> "autn_ok", x |-> 0]
    [] x.k \in {"loc", "insert"} -> [k |-> "loc_ok", x |-> x.x]
    [] OTHER -> x

(* An IMSI without a row ends the process, and with it every exchange.     *)
HssExit(c) ==
  /\ Asked(c, "autn") /\ ~HasRow(s6a[c].x)
  /\ hss_up' = FALSE
  /\ s6a' = [d \in Conn |-> Closed(s6a[d])]
  /\ UNCHANGED <<up, down, toRan, autn_info, loc_info>>

(* Faulty variant: the old row stays.                                      *)
KeepDeleteLoc(c) ==
  /\ Asked(c, "loc")
  /\ s6a' = [s6a EXCEPT ![c].k = "insert"]
  /\ UNCHANGED <<up, down, toRan, hssOwn>>

(* handle_location_update: set_loc_info deletes the row, releases the      *)
(* lock, and inserts the new one.                                          *)
HssDeleteLoc(c) ==
  /\ Asked(c, "loc")
  /\ loc_info' = [loc_info EXCEPT ![s6a[c].x] = 0]
  /\ s6a' = [s6a EXCEPT ![c].k = "insert"]
  /\ UNCHANGED <<up, down, toRan, autn_info, hss_up>>

HssInsertLoc(c) ==
  /\ Asked(c, "insert")
  /\ loc_info' = [loc_info EXCEPT ![s6a[c].x] = IF @ < 2 THEN @ + 1 ELSE 2]
  /\ s6a' = [s6a EXCEPT ![c].k = "loc_ok"]
  /\ UNCHANGED <<up, down, toRan, autn_info, hss_up>>

HssStep(c) == HssAutnInfo(c) \/ HssExit(c) \/ HssDeleteLoc(c) \/ HssInsertLoc(c)
=============================================================================
