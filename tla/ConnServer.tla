----------------------------- MODULE ConnServer -----------------------------
(***************************************************************************)
(* What SctpServer promises to the process it serves: the messages of a    *)
(* connection are handled one after the other, each exactly once, while    *)
(* the handlers of different connections run side by side, at most as many *)
(* as there are workers.  A connection is closed only by a handler of its  *)
(* own, that is while nothing of it is being handled.                      *)
(***************************************************************************)
EXTENDS Naturals, FiniteSets

CONSTANTS Connections, WorkersCount

VARIABLES
  pending,    \* the messages that wait, for every connection
  handling,   \* the connections a handler is running for
  gone        \* the connections that were closed

connVars == <<pending, handling, gone>>

ConnInit == /\ pending = [c \in Connections |-> 0]
            /\ handling = {}
            /\ gone = {}

ConnArrive(c) == /\ pending' = [pending EXCEPT ![c] = @ + 1]
                 /\ UNCHANGED <<handling, gone>>

ConnBegin(c) == /\ c \notin handling \cup gone /\ pending[c] > 0
                /\ Cardinality(handling) < WorkersCount
                /\ pending' = [pending EXCEPT ![c] = @ - 1]
                /\ handling' = handling \cup {c}
                /\ UNCHANGED gone

ConnEnd(c) == /\ c \in handling
              /\ handling' = handling \ {c}
              /\ UNCHANGED <<pending, gone>>

ConnClose(c) == /\ c \notin handling \cup gone /\ pending[c] = 0
                /\ gone' = gone \cup {c}
                /\ UNCHANGED <<pending, handling>>

ConnNext == \E c \in Connections :
              ConnArrive(c) \/ ConnBegin(c) \/ ConnEnd(c) \/ ConnClose(c)

ConnSpec == ConnInit /\ [][ConnNext]_connVars
=============================================================================
