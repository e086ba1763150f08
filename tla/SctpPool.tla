------------------------------ MODULE SctpPool ------------------------------
(***************************************************************************)
(* The thread pool of SctpServer (sctp_server.cpp, sync.cpp), which serves *)
(* the MME, the HSS and the RAN: an acceptor and workers share a queue of  *)
(* connections under one mutex and two condition variables.                *)
(*                                                                         *)
(* A step is one critical section of mux, or one step of serve_client.     *)
(* A connection is served by one worker for one message and queued again.  *)
(***************************************************************************)
EXTENDS Naturals, Sequences, FiniteSets

CONSTANTS
  Connections,
  Workers,
  NoConnection,
  MaxQSize,      \* max_qsize, INT_MAX in the code
  MaxMessages    \* bound: the messages a client sends on one connection

ASSUME WorkersAssumption == IsFiniteSet(Workers) /\ Workers # {}
ASSUME NoConnectionAssumption == NoConnection \notin Connections
ASSUME MaxQSizeAssumption == MaxQSize \in Nat \ {0}

Acceptor == "acceptor"
Threads == Workers \cup {Acceptor}

ASSUME AcceptorAssumption == Acceptor \notin Workers

VARIABLES
  backlog,   \* connections that accept has not returned yet
  conn_q,    \* the queue
  pc,        \* where each thread is
  conn_fd,   \* the connection a thread has in its hands
  qempty,    \* the threads waiting on the condition variable qempty
  qfull,     \* and on qfull
  inbox,     \* messages that arrived on a connection and are not read
  sent,      \* messages sent on it
  closed     \* connections the server has closed

vars == <<backlog, conn_q, pc, conn_fd, qempty, qfull, inbox, sent, closed>>
-----------------------------------------------------------------------------
Pc == {"loop", "rcv", "serve", "push"}

Queued == {conn_q[i] : i \in 1 .. Len(conn_q)}

PoolTypeOK ==
  /\ backlog \subseteq Connections
  /\ conn_q \in Seq(Connections)
  /\ pc \in [Threads -> Pc]
  /\ conn_fd \in [Threads -> Connections \cup {NoConnection}]
  /\ qempty \subseteq Workers
  /\ qfull \subseteq Threads
  /\ inbox \in [Connections -> Nat]
  /\ sent \in [Connections -> Nat]
  /\ closed \subseteq Connections

PoolInit ==
  /\ backlog = Connections
  /\ conn_q = <<>>
  /\ pc = [t \in Threads |-> "loop"]
  /\ conn_fd = [t \in Threads |-> NoConnection]
  /\ qempty = {} /\ qfull = {}
  /\ inbox = [c \in Connections |-> 0]
  /\ sent = [c \in Connections |-> 0]
  /\ closed = {}
-----------------------------------------------------------------------------
(* Faulty variant: nobody is woken.                                        *)
NoSignal(waiting, waiting_next) == waiting_next = waiting

(* pthread_cond_signal wakes one of the waiting threads, if there are any. *)
Signal(waiting, waiting_next) ==
  \/ waiting = {} /\ waiting_next = {}
  \/ \E t \in waiting : waiting_next = waiting \ {t}

At(t, where) == pc[t] = where /\ t \notin qempty \cup qfull

(* Faulty variant: a thread keeps the connection it gives away.            *)
GotoKeeping(t, where, c) ==
  /\ pc' = [pc EXCEPT ![t] = where]
  /\ conn_fd' = IF c = NoConnection THEN conn_fd ELSE [conn_fd EXCEPT ![t] = c]

Goto(t, where, c) ==
  /\ pc' = [pc EXCEPT ![t] = where]
  /\ conn_fd' = [conn_fd EXCEPT ![t] = c]

(* accept, after which the acceptor pushes like a worker.                  *)
Accept(c) ==
  /\ At(Acceptor, "loop")
  /\ c \in backlog
  /\ backlog' = backlog \ {c}
  /\ Goto(Acceptor, "push", c)
  /\ UNCHANGED <<conn_q, qempty, qfull, inbox, sent, closed>>

(* worker_func with an empty queue: it waits once and looks again when it  *)
(* is woken.                                                               *)
WaitEmpty(w) ==
  /\ At(w, "loop") /\ conn_q = <<>>
  /\ qempty' = qempty \cup {w}
  /\ UNCHANGED <<backlog, conn_q, pc, conn_fd, qfull, inbox, sent, closed>>

Pop(w) ==
  /\ At(w, "loop") /\ conn_q # <<>>
  /\ conn_q' = Tail(conn_q)
  /\ Signal(qfull, qfull')
  /\ Goto(w, "rcv", Head(conn_q))
  /\ UNCHANGED <<backlog, qempty, inbox, sent, closed>>

(* Faulty variant: an end of file is taken for a message.                  *)
BlindRcv(w) ==
  /\ At(w, "rcv")
  /\ inbox' = [inbox EXCEPT ![conn_fd[w]] = @ - 1]
  /\ Goto(w, "serve", conn_fd[w])
  /\ UNCHANGED <<backlog, conn_q, qempty, qfull, sent, closed>>

(* serve_client reads a message, and handles it.                           *)
Rcv(w) ==
  LET c == conn_fd[w] IN
  /\ At(w, "rcv") /\ inbox[c] > 0
  /\ inbox' = [inbox EXCEPT ![c] = @ - 1]
  /\ Goto(w, "serve", c)
  /\ UNCHANGED <<backlog, conn_q, qempty, qfull, sent, closed>>

Served(w) ==
  /\ At(w, "serve")
  /\ Goto(w, "push", conn_fd[w])
  /\ UNCHANGED <<backlog, conn_q, qempty, qfull, inbox, sent, closed>>

(* Faulty variant: the connection is neither closed nor queued.            *)
DropRcvNothing(w) ==
  /\ At(w, "rcv") /\ inbox[conn_fd[w]] = 0
  /\ Goto(w, "loop", NoConnection)
  /\ UNCHANGED <<backlog, conn_q, qempty, qfull, inbox, sent, closed>>

(* Nothing for a minute, or the client has closed: the serve_client of the *)
(* MME and of the HSS returns 0.                                           *)
RcvNothing(w) ==
  LET c == conn_fd[w] IN
  /\ At(w, "rcv") /\ inbox[c] = 0
  /\ closed' = closed \cup {c}
  /\ Goto(w, "loop", NoConnection)
  /\ UNCHANGED <<backlog, conn_q, qempty, qfull, inbox, sent>>

(* That of the RAN returns 1 all the same: the connection is queued again, *)
(* also one that will never bring anything.                                *)
RcvAgain(w) ==
  /\ At(w, "rcv") /\ inbox[conn_fd[w]] = 0
  /\ Goto(w, "push", conn_fd[w])
  /\ UNCHANGED <<backlog, conn_q, qempty, qfull, inbox, sent, closed>>

WaitFull(t) ==
  /\ At(t, "push") /\ Len(conn_q) >= MaxQSize
  /\ qfull' = qfull \cup {t}
  /\ UNCHANGED <<backlog, conn_q, pc, conn_fd, qempty, inbox, sent, closed>>

Push(t) ==
  /\ At(t, "push") /\ Len(conn_q) < MaxQSize
  /\ conn_q' = Append(conn_q, conn_fd[t])
  /\ Signal(qempty, qempty')
  /\ Goto(t, "loop", NoConnection)
  /\ UNCHANGED <<backlog, qfull, inbox, sent, closed>>

(* pthread_cond_wait may return without a signal.                          *)
Spurious(t) ==
  /\ t \in qempty \cup qfull
  /\ qempty' = qempty \ {t} /\ qfull' = qfull \ {t}
  /\ UNCHANGED <<backlog, conn_q, pc, conn_fd, inbox, sent, closed>>

(* A client sends on a connection the server has not closed.               *)
Arrive(c) ==
  /\ c \notin closed
  /\ sent[c] < MaxMessages
  /\ sent' = [sent EXCEPT ![c] = @ + 1]
  /\ inbox' = [inbox EXCEPT ![c] = @ + 1]
  /\ UNCHANGED <<backlog, conn_q, pc, conn_fd, qempty, qfull, closed>>

WorkerStep(w) ==
  \/ WaitEmpty(w) \/ Pop(w) \/ Rcv(w) \/ Served(w)
  \/ RcvNothing(w) \/ RcvAgain(w)

PoolNext ==
  \/ \E w \in Workers : WorkerStep(w)
  \/ \E t \in Threads : WaitFull(t) \/ Push(t) \/ Spurious(t)
  \/ \E c \in Connections : Accept(c) \/ Arrive(c)

PoolSpec == PoolInit /\ [][PoolNext]_vars

(* Threads that can run do; nothing wakes a waiting thread but a signal.   *)
PoolFairness ==
  /\ \A w \in Workers : WF_vars(WorkerStep(w))
  /\ \A t \in Threads : WF_vars(WaitFull(t) \/ Push(t))
  /\ WF_vars(\E c \in Connections : Accept(c))

FairPoolSpec == PoolSpec /\ PoolFairness
-----------------------------------------------------------------------------
(* One owner: a connection is waiting to be accepted, queued once, in the  *)
(* hands of one thread, or closed.  So one worker at a time reads from it  *)
(* and handles its messages; close never takes a descriptor another thread *)
(* still uses (worker_func, accept_clients).                               *)
OneOwner ==
  /\ \A i, j \in 1 .. Len(conn_q) : conn_q[i] = conn_q[j] => i = j
  /\ \A t \in Threads : conn_fd[t] # NoConnection =>
       /\ conn_fd[t] \notin backlog \cup closed \cup Queued
       /\ \A u \in Threads \ {t} : conn_fd[u] # conn_fd[t]
  /\ Queued \cap (backlog \cup closed) = {}
  /\ backlog \cap closed = {}

(* No lost wake-up: workers wait on qempty with an if, not a while, and a  *)
(* push signals once; still, a queued connection never finds all workers   *)
(* asleep on qempty.                                                       *)
NoLostWakeup == conn_q # <<>> => \E w \in Workers : w \notin qempty

(* Nobody loses a connection: each one is somewhere.                       *)
NoneLost ==
  \A c \in Connections :
    \/ c \in backlog \cup closed \cup Queued
    \/ \E t \in Threads : conn_fd[t] = c

(* A message that arrived is read in the end, also when idle connections   *)
(* keep all the workers in rcv: after a minute they are closed, or queued  *)
(* behind the others (worker_func).  Only a thread that waits with the     *)
(* connection for room in a full queue can be overtaken for ever, which at *)
(* INT_MAX connections nobody meets.                                       *)
MessagesRead ==
  \A c \in Connections :
    inbox[c] > 0 ~> inbox[c] = 0 \/ \E t \in qfull : conn_fd[t] = c

(* The pool implements the abstract server.                                *)
Server == INSTANCE ConnServer WITH
  WorkersCount <- Cardinality(Workers),
  pending <- inbox,
  handling <- {conn_fd[w] : w \in {v \in Workers : pc[v] = "serve"}},
  gone <- closed

ImplementsConnServer == Server!ConnSpec
=============================================================================
