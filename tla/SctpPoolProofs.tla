--------------------------- MODULE SctpPoolProofs ---------------------------
(***************************************************************************)
(* Proofs about the thread pool, for any number of workers, connections    *)
(* and messages and any length of the queue: types, one owner for every    *)
(* connection, none lost, no lost wake-up, and that the pool implements    *)
(* the abstract server ConnServer.                                         *)
(***************************************************************************)
EXTENDS SctpPool, FiniteSetTheorems, TLAPS

(* A thread has a connection in its hands exactly if it is not looking for *)
(* one, and the queue holds no connection twice: this and OneOwner are     *)
(* needed together, because a worker takes a connection where OneOwner     *)
(* says nobody has it only if the one it had is gone.                      *)
HandsInv == \A t \in Threads : pc[t] = "loop" <=> conn_fd[t] = NoConnection

OwnerInv == PoolTypeOK /\ HandsInv /\ OneOwner
-----------------------------------------------------------------------------
(* Types.                                                                  *)

(* Waking a thread takes it out of the set of those that wait, and adds    *)
(* none (cndsignal).                                                       *)
LEMMA SignalSubset ==
  ASSUME NEW A, NEW B, Signal(A, B)
  PROVE  B \subseteq A
BY DEF Signal

(* Moving a thread keeps pc and conn_fd well typed.                        *)
LEMMA GotoType ==
  ASSUME PoolTypeOK, NEW t \in Threads, NEW where \in Pc,
         NEW c \in Connections \cup {NoConnection}, Goto(t, where, c)
  PROVE  /\ pc' \in [Threads -> Pc]
         /\ conn_fd' \in [Threads -> Connections \cup {NoConnection}]
BY DEF PoolTypeOK, Goto

(* The initial state is well typed.                                        *)
LEMMA InitType == PoolInit => PoolTypeOK
BY DEF PoolInit, PoolTypeOK, Pc

(* No step disturbs the types; that a thread that serves or pushes has a   *)
(* connection comes from HandsInv.                                         *)
LEMMA NextType ==
  ASSUME PoolTypeOK, HandsInv, [PoolNext]_vars
  PROVE  PoolTypeOK'
<1> USE DEF PoolTypeOK
<1>1. ASSUME NEW w \in Workers, WaitEmpty(w) PROVE PoolTypeOK'
  BY <1>1 DEF WaitEmpty
<1>2. ASSUME NEW w \in Workers, Pop(w) PROVE PoolTypeOK'
  <2>1. /\ w \in Threads /\ "rcv" \in Pc
        /\ Head(conn_q) \in Connections /\ Tail(conn_q) \in Seq(Connections)
    BY <1>2 DEF Pop, Threads, Pc
  <2>2. qfull' \subseteq qfull
    BY <1>2, SignalSubset DEF Pop
  <2>3. /\ pc' \in [Threads -> Pc]
        /\ conn_fd' \in [Threads -> Connections \cup {NoConnection}]
    BY <1>2, <2>1, GotoType DEF Pop
  <2> QED
    BY <1>2, <2>1, <2>2, <2>3 DEF Pop
<1>3. ASSUME NEW w \in Workers, Rcv(w) PROVE PoolTypeOK'
  <2>1. w \in Threads /\ "serve" \in Pc
    BY DEF Threads, Pc
  <2>2. /\ pc' \in [Threads -> Pc]
        /\ conn_fd' \in [Threads -> Connections \cup {NoConnection}]
    BY <1>3, <2>1, GotoType DEF Rcv
  <2>3. conn_fd[w] \in Connections
    BY <1>3, <2>1 DEF Rcv, At, HandsInv
  <2>4. inbox[conn_fd[w]] \in Nat /\ inbox[conn_fd[w]] > 0
    BY <1>3, <2>3 DEF Rcv
  <2>5. inbox[conn_fd[w]] - 1 \in Nat
    BY <2>4
  <2>6. inbox' \in [Connections -> Nat]
    BY <1>3, <2>3, <2>5 DEF Rcv
  <2> QED
    BY <1>3, <2>2, <2>6 DEF Rcv
<1>4. ASSUME NEW w \in Workers, Served(w) PROVE PoolTypeOK'
  <2>1. w \in Threads /\ "push" \in Pc
    BY DEF Threads, Pc
  <2>2. /\ pc' \in [Threads -> Pc]
        /\ conn_fd' \in [Threads -> Connections \cup {NoConnection}]
    BY <1>4, <2>1, GotoType DEF Served
  <2> QED
    BY <1>4, <2>2 DEF Served
<1>5. ASSUME NEW w \in Workers, RcvNothing(w) PROVE PoolTypeOK'
  <2>1. w \in Threads /\ "loop" \in Pc
    BY DEF Threads, Pc
  <2>2. /\ pc' \in [Threads -> Pc]
        /\ conn_fd' \in [Threads -> Connections \cup {NoConnection}]
    BY <1>5, <2>1, GotoType DEF RcvNothing
  <2>3. conn_fd[w] \in Connections
    BY <1>5, <2>1 DEF RcvNothing, At, HandsInv
  <2> QED
    BY <1>5, <2>2, <2>3 DEF RcvNothing
<1>12. ASSUME NEW w \in Workers, RcvAgain(w) PROVE PoolTypeOK'
  <2>1. w \in Threads /\ "push" \in Pc
    BY DEF Threads, Pc
  <2>2. /\ pc' \in [Threads -> Pc]
        /\ conn_fd' \in [Threads -> Connections \cup {NoConnection}]
    BY <1>12, <2>1, GotoType DEF RcvAgain
  <2> QED
    BY <1>12, <2>2 DEF RcvAgain
<1>6. ASSUME NEW t \in Threads, WaitFull(t) PROVE PoolTypeOK'
  BY <1>6 DEF WaitFull
<1>7. ASSUME NEW t \in Threads, Push(t) PROVE PoolTypeOK'
  <2>1. /\ pc' \in [Threads -> Pc]
        /\ conn_fd' \in [Threads -> Connections \cup {NoConnection}]
    BY <1>7, GotoType DEF Push, Pc
  <2>2. conn_fd[t] \in Connections
    BY <1>7 DEF Push, At, HandsInv
  <2>3. qempty' \subseteq qempty
    BY <1>7, SignalSubset DEF Push
  <2> QED
    BY <1>7, <2>1, <2>2, <2>3 DEF Push
<1>8. ASSUME NEW t \in Threads, Spurious(t) PROVE PoolTypeOK'
  BY <1>8 DEF Spurious
<1>9. ASSUME NEW c \in Connections, Accept(c) PROVE PoolTypeOK'
  <2>1. Acceptor \in Threads /\ "push" \in Pc
    BY DEF Threads, Pc
  <2>2. /\ pc' \in [Threads -> Pc]
        /\ conn_fd' \in [Threads -> Connections \cup {NoConnection}]
    BY <1>9, <2>1, GotoType DEF Accept
  <2> QED
    BY <1>9, <2>2 DEF Accept
<1>10. ASSUME NEW c \in Connections, Arrive(c) PROVE PoolTypeOK'
  BY <1>10 DEF Arrive
<1>11. CASE UNCHANGED vars
  BY <1>11 DEF vars
<1> QED
  BY <1>1, <1>2, <1>3, <1>4, <1>5, <1>6, <1>7, <1>8, <1>9, <1>10, <1>11, <1>12
  DEF PoolNext, WorkerStep

-----------------------------------------------------------------------------
(* One owner.                                                              *)

(* What popping does to the set of queued connections: the first one is no *)
(* longer among them, if it was there once.                                *)
LEMMA QueuedAfterPop ==
  ASSUME PoolTypeOK, OneOwner, conn_q # <<>>, conn_q' = Tail(conn_q)
  PROVE  /\ Head(conn_q) \in Queued /\ Head(conn_q) \notin Queued'
         /\ Queued' \cup {Head(conn_q)} = Queued
         /\ \A i, j \in 1 .. Len(conn_q') : conn_q'[i] = conn_q'[j] => i = j
<1> USE DEF PoolTypeOK
<1>1. /\ Len(conn_q) \in Nat \ {0} /\ Len(conn_q') = Len(conn_q) - 1
      /\ Head(conn_q) = conn_q[1]
      /\ \A i \in 1 .. Len(conn_q') : conn_q'[i] = conn_q[i + 1]
  OBVIOUS
<1>2. \A i, j \in 1 .. Len(conn_q) : conn_q[i] = conn_q[j] => i = j
  BY DEF OneOwner
<1>3. Head(conn_q) \in Queued
  BY <1>1 DEF Queued
<1>4. Head(conn_q) \notin Queued'
  <2> SUFFICES ASSUME NEW i \in 1 .. Len(conn_q'), conn_q'[i] = Head(conn_q)
               PROVE  FALSE
    BY DEF Queued
  <2>1. i + 1 \in 1 .. Len(conn_q) /\ 1 \in 1 .. Len(conn_q)
    BY <1>1
  <2> QED
    BY <1>1, <1>2, <2>1
<1>5. Queued \subseteq Queued' \cup {Head(conn_q)}
  <2> SUFFICES ASSUME NEW i \in 1 .. Len(conn_q), i # 1
               PROVE  conn_q[i] \in Queued'
    BY <1>1 DEF Queued
  <2>1. i - 1 \in 1 .. Len(conn_q') /\ (i - 1) + 1 = i
    BY <1>1
  <2> QED
    BY <1>1, <2>1 DEF Queued
<1>6. Queued' \subseteq Queued
  <2> SUFFICES ASSUME NEW i \in 1 .. Len(conn_q') PROVE conn_q'[i] \in Queued
    BY DEF Queued
  <2>1. i + 1 \in 1 .. Len(conn_q)
    BY <1>1
  <2> QED
    BY <1>1, <2>1 DEF Queued
<1>7. \A i, j \in 1 .. Len(conn_q') : conn_q'[i] = conn_q'[j] => i = j
  <2> SUFFICES ASSUME NEW i \in 1 .. Len(conn_q'), NEW j \in 1 .. Len(conn_q'),
                      conn_q'[i] = conn_q'[j]
               PROVE  i = j
    OBVIOUS
  <2>1. i + 1 \in 1 .. Len(conn_q) /\ j + 1 \in 1 .. Len(conn_q)
    BY <1>1
  <2>2. i + 1 = j + 1
    BY <1>1, <1>2, <2>1
  <2> QED
    BY <2>2
<1> QED
  BY <1>3, <1>4, <1>5, <1>6, <1>7

(* What pushing a connection that is not queued does.                      *)
LEMMA QueuedAfterPush ==
  ASSUME PoolTypeOK, OneOwner, NEW c \in Connections, c \notin Queued,
         conn_q' = Append(conn_q, c)
  PROVE  /\ Queued' = Queued \cup {c}
         /\ \A i, j \in 1 .. Len(conn_q') : conn_q'[i] = conn_q'[j] => i = j
<1> USE DEF PoolTypeOK
<1>1. /\ Len(conn_q) \in Nat /\ Len(conn_q') = Len(conn_q) + 1
      /\ conn_q'[Len(conn_q')] = c
      /\ \A i \in 1 .. Len(conn_q) : conn_q'[i] = conn_q[i]
  OBVIOUS
<1>2. \A i \in 1 .. Len(conn_q') : i \in 1 .. Len(conn_q) \/ i = Len(conn_q')
  BY <1>1
<1>3. Queued' = Queued \cup {c}
  <2>1. Queued' \subseteq Queued \cup {c}
    BY <1>1, <1>2 DEF Queued
  <2>2. Queued \subseteq Queued'
    <3> SUFFICES ASSUME NEW i \in 1 .. Len(conn_q) PROVE conn_q[i] \in Queued'
      BY DEF Queued
    <3>1. i \in 1 .. Len(conn_q')
      BY <1>1
    <3> QED
      BY <1>1, <3>1 DEF Queued
  <2>3. c \in Queued'
    <3>1. Len(conn_q') \in 1 .. Len(conn_q')
      BY <1>1
    <3> QED
      BY <1>1, <3>1 DEF Queued
  <2> QED
    BY <2>1, <2>2, <2>3
<1>4. \A i, j \in 1 .. Len(conn_q) : conn_q[i] = conn_q[j] => i = j
  BY DEF OneOwner
<1>5. \A i \in 1 .. Len(conn_q) : conn_q[i] # c
  BY DEF Queued
<1> QED
  BY <1>1, <1>2, <1>3, <1>4, <1>5

(* A thread takes a connection when, and only when, it leaves the loop.    *)
LEMMA GotoHands ==
  ASSUME PoolTypeOK, HandsInv, NEW t \in Threads, NEW where, NEW c,
         where = "loop" <=> c = NoConnection, Goto(t, where, c)
  PROVE  HandsInv'
BY DEF PoolTypeOK, HandsInv, Goto

(* The initial state has one owner for every connection.                   *)
LEMMA InitOwner == PoolInit => HandsInv /\ OneOwner
BY DEF PoolInit, HandsInv, OneOwner, Queued

(* A step that leaves the queue, the threads and the sets alone keeps the  *)
(* owners, whatever it does with messages and waiting threads.             *)
LEMMA OwnerFrame ==
  ASSUME HandsInv, OneOwner, UNCHANGED <<backlog, conn_q, conn_fd, closed>>,
         \A t \in Threads : pc'[t] = "loop" <=> pc[t] = "loop"
  PROVE  HandsInv' /\ OneOwner'
BY DEF HandsInv, OneOwner, Queued

(* The acceptor takes a connection out of the backlog.                     *)
LEMMA AcceptOwner ==
  ASSUME OwnerInv, NEW c \in Connections, Accept(c)
  PROVE  HandsInv' /\ OneOwner'
<1> USE DEF OwnerInv
<1>1. Acceptor \in Threads /\ c # NoConnection
  BY NoConnectionAssumption DEF Threads
<1>2. HandsInv'
  BY <1>1, GotoHands DEF Accept
<1>3. /\ Queued' = Queued /\ closed' = closed /\ backlog' = backlog \ {c}
      /\ conn_q' = conn_q /\ c \in backlog
      /\ conn_fd' = [conn_fd EXCEPT ![Acceptor] = c]
  BY DEF Accept, Goto, Queued
<1>4. conn_fd'[Acceptor] = c /\ \A t \in Threads \ {Acceptor} : conn_fd'[t] = conn_fd[t]
  BY <1>1, <1>3 DEF PoolTypeOK
<1> QED
  BY <1>1, <1>2, <1>3, <1>4 DEF OneOwner

(* A worker takes the first connection of the queue.                       *)
LEMMA PopOwner ==
  ASSUME OwnerInv, NEW w \in Workers, Pop(w)
  PROVE  HandsInv' /\ OneOwner'
<1> USE DEF OwnerInv
<1> DEFINE c == Head(conn_q)
<1>1. /\ c \in Queued /\ c \notin Queued' /\ Queued' \cup {c} = Queued
      /\ \A i, j \in 1 .. Len(conn_q') : conn_q'[i] = conn_q'[j] => i = j
  BY QueuedAfterPop DEF Pop
<1>2. w \in Threads /\ c \in Connections /\ c # NoConnection
  BY NoConnectionAssumption DEF Pop, PoolTypeOK, Threads
<1>3. HandsInv'
  BY <1>2, GotoHands DEF Pop
<1>4. backlog' = backlog /\ closed' = closed /\ conn_fd' = [conn_fd EXCEPT ![w] = c]
  BY DEF Pop, Goto
<1>5. conn_fd'[w] = c /\ \A t \in Threads \ {w} : conn_fd'[t] = conn_fd[t]
  BY <1>2, <1>4 DEF PoolTypeOK
<1> HIDE DEF c
<1> QED
  BY <1>1, <1>2, <1>3, <1>4, <1>5 DEF OneOwner

(* A worker closes the connection it has.                                  *)
LEMMA CloseOwner ==
  ASSUME OwnerInv, NEW w \in Workers, RcvNothing(w)
  PROVE  HandsInv' /\ OneOwner'
<1> USE DEF OwnerInv
<1>1. w \in Threads /\ pc[w] # "loop"
  BY DEF RcvNothing, At, Threads
<1>2. HandsInv'
  BY <1>1, GotoHands DEF RcvNothing
<1>3. conn_fd[w] # NoConnection
  BY <1>1 DEF HandsInv
<1>4. /\ Queued' = Queued /\ closed' = closed \cup {conn_fd[w]} /\ backlog' = backlog
      /\ conn_q' = conn_q /\ conn_fd' = [conn_fd EXCEPT ![w] = NoConnection]
  BY DEF RcvNothing, Goto, Queued
<1>5. /\ conn_fd'[w] = NoConnection
      /\ \A t \in Threads \ {w} : conn_fd'[t] = conn_fd[t]
  BY <1>1, <1>4 DEF PoolTypeOK
<1> QED
  BY <1>1, <1>2, <1>3, <1>4, <1>5 DEF OneOwner

(* A thread gives the connection it has back to the queue.                 *)
LEMMA PushOwner ==
  ASSUME OwnerInv, NEW t \in Threads, Push(t)
  PROVE  HandsInv' /\ OneOwner'
<1> USE DEF OwnerInv
<1>1. pc[t] # "loop"
  BY DEF Push, At
<1>2. HandsInv'
  BY GotoHands DEF Push
<1>3. conn_fd[t] # NoConnection /\ conn_fd[t] \in Connections /\ conn_fd[t] \notin Queued
  BY <1>1 DEF HandsInv, OneOwner, PoolTypeOK
<1>4. /\ Queued' = Queued \cup {conn_fd[t]}
      /\ \A i, j \in 1 .. Len(conn_q') : conn_q'[i] = conn_q'[j] => i = j
  BY <1>3, QueuedAfterPush DEF Push
<1>5. /\ closed' = closed /\ backlog' = backlog
      /\ conn_fd' = [conn_fd EXCEPT ![t] = NoConnection]
  BY DEF Push, Goto
<1>6. /\ conn_fd'[t] = NoConnection
      /\ \A u \in Threads \ {t} : conn_fd'[u] = conn_fd[u]
  BY <1>5 DEF PoolTypeOK
<1> QED
  BY <1>2, <1>3, <1>4, <1>5, <1>6 DEF OneOwner

(* Reading and handling a message, or reading none, keeps the connection.  *)
LEMMA ServeOwner ==
  ASSUME OwnerInv, NEW w \in Workers, Rcv(w) \/ Served(w) \/ RcvAgain(w)
  PROVE  HandsInv' /\ OneOwner'
<1>1. conn_fd' = conn_fd /\ UNCHANGED <<backlog, conn_q, closed>>
  BY DEF Rcv, Served, RcvAgain, Goto, OwnerInv, PoolTypeOK
<1>2. \A t \in Threads : pc'[t] = "loop" <=> pc[t] = "loop"
  BY DEF Rcv, Served, RcvAgain, At, Goto, OwnerInv, PoolTypeOK
<1> QED
  BY <1>1, <1>2, OwnerFrame DEF OwnerInv

(* OwnerInv is inductive.                                                  *)
LEMMA NextOwner ==
  ASSUME OwnerInv, [PoolNext]_vars
  PROVE  OwnerInv'
<1>1. PoolTypeOK'
  BY NextType DEF OwnerInv
<1>2. ASSUME NEW t \in Threads, WaitFull(t) \/ Spurious(t) PROVE HandsInv' /\ OneOwner'
  BY <1>2, OwnerFrame DEF OwnerInv, WaitFull, Spurious
<1>3. ASSUME NEW w \in Workers, WaitEmpty(w) PROVE HandsInv' /\ OneOwner'
  BY <1>3, OwnerFrame DEF OwnerInv, WaitEmpty
<1>4. ASSUME NEW c \in Connections, Arrive(c) PROVE HandsInv' /\ OneOwner'
  BY <1>4, OwnerFrame DEF OwnerInv, Arrive
<1>5. ASSUME UNCHANGED vars PROVE HandsInv' /\ OneOwner'
  BY <1>5, OwnerFrame DEF OwnerInv, vars
<1>6. HandsInv' /\ OneOwner'
  BY <1>2, <1>3, <1>4, <1>5, AcceptOwner, PopOwner, CloseOwner, PushOwner, ServeOwner
  DEF PoolNext, WorkerStep
<1> QED
  BY <1>1, <1>6 DEF OwnerInv

(* Types, and one owner for every connection, in every reachable state     *)
(* (worker_func, accept_clients).                                          *)
LEMMA PoolOwnerInv == PoolSpec => []OwnerInv
<1>1. PoolInit => OwnerInv
  BY InitType, InitOwner DEF OwnerInv
<1>2. OwnerInv /\ [PoolNext]_vars => OwnerInv'
  BY NextOwner
<1> QED
  BY <1>1, <1>2, PTL DEF PoolSpec

(* The pool's variables keep their types.                                  *)
THEOREM PoolTypeCorrect == PoolSpec => []PoolTypeOK
BY PoolOwnerInv, PTL DEF OwnerInv

(* One owner: no two threads ever serve, queue or close one connection, for *)
(* any number of workers and connections and any length of the queue.      *)
THEOREM PoolOneOwner == PoolSpec => []OneOwner
BY PoolOwnerInv, PTL DEF OwnerInv
-----------------------------------------------------------------------------
(* Nobody loses a connection.                                              *)

(* Where a connection goes in each step that moves one: to the acceptor,   *)
(* to a worker, to the closed ones, or back to the queue.                  *)
LEMMA NextNoneLost ==
  ASSUME OwnerInv, NoneLost, [PoolNext]_vars
  PROVE  NoneLost'
<1> USE DEF OwnerInv, NoneLost
<1>1. ASSUME NEW d \in Connections, Accept(d) PROVE NoneLost'
  <2>1. /\ Acceptor \in Threads /\ pc[Acceptor] = "loop" /\ Queued' = Queued
        /\ backlog' = backlog \ {d} /\ closed' = closed
        /\ conn_fd' = [conn_fd EXCEPT ![Acceptor] = d]
    BY <1>1 DEF Accept, At, Goto, Queued, Threads
  <2>2. conn_fd[Acceptor] = NoConnection
    BY <2>1 DEF HandsInv
  <2> QED
    BY <2>1, <2>2, NoConnectionAssumption DEF PoolTypeOK
<1>2. ASSUME NEW w \in Workers, Pop(w) PROVE NoneLost'
  <2>1. /\ w \in Threads /\ pc[w] = "loop" /\ UNCHANGED <<backlog, closed>>
        /\ conn_fd' = [conn_fd EXCEPT ![w] = Head(conn_q)]
    BY <1>2 DEF Pop, At, Goto, Threads
  <2>2. conn_fd[w] = NoConnection
    BY <2>1 DEF HandsInv
  <2>3. Queued' \cup {Head(conn_q)} = Queued
    BY <1>2, QueuedAfterPop DEF Pop
  <2> QED
    BY <2>1, <2>2, <2>3, NoConnectionAssumption DEF PoolTypeOK
<1>3. ASSUME NEW w \in Workers, RcvNothing(w) PROVE NoneLost'
  <2>1. /\ w \in Threads /\ closed' = closed \cup {conn_fd[w]}
        /\ Queued' = Queued /\ backlog' = backlog
        /\ conn_fd' = [conn_fd EXCEPT ![w] = NoConnection]
    BY <1>3 DEF RcvNothing, Goto, Queued, Threads
  <2> QED
    BY <2>1 DEF PoolTypeOK
<1>4. ASSUME NEW t \in Threads, Push(t) PROVE NoneLost'
  <2>1. /\ pc[t] # "loop" /\ UNCHANGED <<backlog, closed>>
        /\ conn_fd' = [conn_fd EXCEPT ![t] = NoConnection]
    BY <1>4 DEF Push, At, Goto
  <2>2. conn_fd[t] \in Connections /\ conn_fd[t] \notin Queued
    BY <2>1 DEF HandsInv, OneOwner, PoolTypeOK
  <2>3. Queued' = Queued \cup {conn_fd[t]}
    BY <1>4, <2>2, QueuedAfterPush DEF Push
  <2> QED
    BY <2>1, <2>3 DEF PoolTypeOK
<1>5. ASSUME UNCHANGED <<backlog, conn_q, conn_fd, closed>> PROVE NoneLost'
  BY <1>5 DEF Queued
<1>6. ASSUME NEW w \in Workers, Rcv(w) \/ Served(w) \/ RcvAgain(w) PROVE NoneLost'
  <2>1. conn_fd' = conn_fd /\ UNCHANGED <<backlog, conn_q, closed>>
    BY <1>6 DEF Rcv, Served, RcvAgain, Goto, PoolTypeOK
  <2> QED
    BY <2>1, <1>5
<1>7. ASSUME NEW w \in Workers, WaitEmpty(w) PROVE NoneLost'
  BY <1>5, <1>7 DEF WaitEmpty
<1>8. ASSUME NEW t \in Threads, WaitFull(t) \/ Spurious(t) PROVE NoneLost'
  BY <1>5, <1>8 DEF WaitFull, Spurious
<1>9. ASSUME NEW c \in Connections, Arrive(c) PROVE NoneLost'
  BY <1>5, <1>9 DEF Arrive
<1>10. CASE UNCHANGED vars
  BY <1>5, <1>10 DEF vars
<1> QED
  BY <1>1, <1>2, <1>3, <1>4, <1>6, <1>7, <1>8, <1>9, <1>10 DEF PoolNext, WorkerStep

(* Every connection is waiting, queued, in the hands of a thread or closed. *)
THEOREM PoolNoneLost == PoolSpec => []NoneLost
<1>1. PoolInit => NoneLost
  BY DEF PoolInit, NoneLost
<1>2. OwnerInv /\ NoneLost /\ [PoolNext]_vars => NoneLost'
  BY NextNoneLost
<1> QED
  BY <1>1, <1>2, PoolOwnerInv, PTL DEF PoolSpec
-----------------------------------------------------------------------------
(* No lost wake-up.                                                        *)

(* A signal leaves somebody awake: no one waits after it, or the one it    *)
(* woke does not.                                                          *)
LEMMA SignalWakes ==
  ASSUME NEW A, A \subseteq Workers, NEW B, Signal(A, B)
  PROVE  \E w \in Workers : w \notin B
BY WorkersAssumption DEF Signal

(* A worker falls asleep on qempty only while the queue is empty, and the  *)
(* push that ends this wakes one; pops do not put anyone to sleep.         *)
LEMMA NextWakeup ==
  ASSUME PoolTypeOK, NoLostWakeup, [PoolNext]_vars
  PROVE  NoLostWakeup'
<1> USE DEF NoLostWakeup
<1>1. ASSUME NEW w \in Workers, WaitEmpty(w) PROVE NoLostWakeup'
  BY <1>1 DEF WaitEmpty
<1>2. ASSUME NEW w \in Workers, Pop(w) PROVE NoLostWakeup'
  BY <1>2 DEF Pop, At
<1>3. ASSUME NEW t \in Threads, Push(t) PROVE NoLostWakeup'
  BY <1>3, SignalWakes DEF Push, PoolTypeOK
<1>4. ASSUME NEW t \in Threads, Spurious(t) PROVE NoLostWakeup'
  BY <1>4 DEF Spurious
<1>5. ASSUME UNCHANGED <<conn_q, qempty>> PROVE NoLostWakeup'
  BY <1>5
<1>6. ASSUME NEW w \in Workers, Rcv(w) \/ Served(w) \/ RcvNothing(w) \/ RcvAgain(w)
      PROVE  NoLostWakeup'
  BY <1>5, <1>6 DEF Rcv, Served, RcvNothing, RcvAgain
<1>7. ASSUME NEW t \in Threads, WaitFull(t) PROVE NoLostWakeup'
  BY <1>5, <1>7 DEF WaitFull
<1>8. ASSUME NEW c \in Connections, Accept(c) \/ Arrive(c) PROVE NoLostWakeup'
  BY <1>5, <1>8 DEF Accept, Arrive
<1>9. CASE UNCHANGED vars
  BY <1>5, <1>9 DEF vars
<1> QED
  BY <1>1, <1>2, <1>3, <1>4, <1>6, <1>7, <1>8, <1>9 DEF PoolNext, WorkerStep

(* A queued connection never finds every worker asleep, although each push *)
(* signals once and a worker that finds the queue empty waits once.        *)
THEOREM PoolNoLostWakeup == PoolSpec => []NoLostWakeup
<1>1. PoolInit => NoLostWakeup
  BY DEF PoolInit, NoLostWakeup
<1>2. PoolTypeOK /\ NoLostWakeup /\ [PoolNext]_vars => NoLostWakeup'
  BY NextWakeup
<1> QED
  BY <1>1, <1>2, PoolTypeCorrect, PTL DEF PoolSpec
-----------------------------------------------------------------------------
(* The abstract server.  Reading a message begins a handler and handling   *)
(* it ends one; what the threads do with the queue and the condition       *)
(* variables is invisible.                                                 *)
Serving == {w \in Workers : pc[w] = "serve"}
Handling == {conn_fd[w] : w \in Serving}
-----------------------------------------------------------------------------
(* The abstract server counts as the pool does.                            *)
LEMMA SameCardinality ==
  ASSUME NEW S
  PROVE  Server!Cardinality(S) = Cardinality(S)
BY DEF Server!Cardinality, Cardinality, Server!IsFiniteSet, IsFiniteSet

(* While a worker is not serving, fewer connections than there are workers *)
(* are being handled (worker_func: a worker serves one at a time).         *)
LEMMA WorkerToSpare ==
  ASSUME NEW w \in Workers, w \notin Serving
  PROVE  Cardinality(Handling) < Cardinality(Workers)
<1>1. IsFiniteSet(Workers) /\ Cardinality(Workers) \in Nat
  BY WorkersAssumption, FS_CardinalityType
<1>2. /\ IsFiniteSet(Workers \ {w})
      /\ Cardinality(Workers \ {w}) = Cardinality(Workers) - 1
  BY <1>1, FS_RemoveElement
<1>3. Serving \in SUBSET (Workers \ {w})
  BY DEF Serving
<1>4. IsFiniteSet(Serving) /\ Cardinality(Serving) <= Cardinality(Workers) - 1
  BY <1>2, <1>3, FS_Subset
<1>5. /\ IsFiniteSet(Handling)
      /\ Cardinality(Handling) <= Cardinality(Serving)
  <2>1. [v \in Serving |-> conn_fd[v]] \in Surjection(Serving, Handling)
    BY DEF Surjection, Handling
  <2> QED
    BY <2>1, <1>4, FS_Surjection
<1>6. Cardinality(Handling) \in Nat /\ Cardinality(Serving) \in Nat
  BY <1>4, <1>5, FS_CardinalityType
<1> QED
  BY <1>1, <1>4, <1>5, <1>6

(* A step that neither begins nor ends a handler is not seen.              *)
LEMMA Stutter ==
  ASSUME UNCHANGED <<inbox, closed>>, Serving' = Serving,
         \A w \in Serving : conn_fd'[w] = conn_fd[w]
  PROVE  UNCHANGED Server!connVars
<1>1. Handling' = Handling
  BY DEF Handling
<1> QED
  BY <1>1 DEF Server!connVars, Handling, Serving

(* A thread that goes somewhere but to serve_client's handler, and does    *)
(* not come from there, changes no handler.                                *)
LEMMA GotoElsewhere ==
  ASSUME PoolTypeOK, NEW t \in Threads, NEW where, NEW c, Goto(t, where, c),
         pc[t] # "serve", where # "serve"
  PROVE  Serving' = Serving /\ \A w \in Serving : conn_fd'[w] = conn_fd[w]
BY DEF PoolTypeOK, Goto, Serving, Threads

(* Reading a message begins a handler: the connection had none, by         *)
(* OneOwner, and the worker was free.                                      *)
LEMMA RcvBegins ==
  ASSUME OwnerInv, NEW w \in Workers, NEW c \in Connections, c = conn_fd[w], Rcv(w)
  PROVE  Server!ConnBegin(c)
<1>1. w \in Threads /\ pc[w] = "rcv" /\ w \notin Serving
  BY DEF Rcv, At, Threads, Serving
<1>2. c # NoConnection /\ c \notin closed
  BY <1>1 DEF OwnerInv, HandsInv, OneOwner
<1>3. c \notin Handling
  BY <1>1, <1>2 DEF Handling, Serving, Threads, OwnerInv, OneOwner
<1>4. Cardinality(Handling) < Cardinality(Workers)
  BY <1>1, WorkerToSpare
<1>5. Serving' = Serving \cup {w} /\ conn_fd' = conn_fd
  BY <1>1 DEF Rcv, Goto, Serving, Threads, OwnerInv, PoolTypeOK
<1>6. Handling' = Handling \cup {c}
  BY <1>5 DEF Handling
<1>7. inbox[c] > 0 /\ inbox' = [inbox EXCEPT ![c] = @ - 1] /\ closed' = closed
  BY DEF Rcv
<1>8. Server!Cardinality({conn_fd[v] : v \in {u \in Workers : pc[u] = "serve"}})
        < Cardinality(Workers)
  BY <1>4, SameCardinality DEF Handling, Serving
<1>9. /\ c \notin {conn_fd[v] : v \in {u \in Workers : pc[u] = "serve"}} \cup closed
      /\ {conn_fd[v] : v \in {u \in Workers : pc[u] = "serve"}}'
           = {conn_fd[v] : v \in {u \in Workers : pc[u] = "serve"}} \cup {c}
  BY <1>2, <1>3, <1>6 DEF Handling, Serving
<1> QED
  BY <1>7, <1>8, <1>9 DEF Server!ConnBegin

(* Handling it ends the handler, and no other worker has this connection.  *)
LEMMA ServedEnds ==
  ASSUME OwnerInv, NEW w \in Workers, NEW c \in Connections, c = conn_fd[w], Served(w)
  PROVE  Server!ConnEnd(c)
<1>1. w \in Threads /\ pc[w] = "serve" /\ w \in Serving
  BY DEF Served, At, Threads, Serving
<1>2. c # NoConnection
  BY <1>1 DEF OwnerInv, HandsInv
<1>3. Serving' = Serving \ {w} /\ conn_fd' = conn_fd
  BY <1>1 DEF Served, Goto, Serving, Threads, OwnerInv, PoolTypeOK
<1>4. \A v \in Serving \ {w} : conn_fd[v] # c
  BY <1>1, <1>2 DEF Serving, Threads, OwnerInv, OneOwner
<1>5. Handling' = Handling \ {c} /\ c \in Handling
  BY <1>1, <1>3, <1>4 DEF Handling
<1>6. UNCHANGED <<inbox, closed>>
  BY DEF Served
<1> QED
  BY <1>5, <1>6 DEF Server!ConnEnd, Handling, Serving

(* A connection is closed by the worker that has it, while it has no       *)
(* message and no handler.                                                 *)
LEMMA RcvNothingCloses ==
  ASSUME OwnerInv, NEW w \in Workers, NEW c \in Connections, c = conn_fd[w], RcvNothing(w)
  PROVE  Server!ConnClose(c)
<1>1. w \in Threads /\ pc[w] = "rcv"
  BY DEF RcvNothing, At, Threads
<1>2. c # NoConnection /\ c \notin closed
  BY <1>1 DEF OwnerInv, HandsInv, OneOwner
<1>3. c \notin Handling
  BY <1>1, <1>2 DEF Handling, Serving, Threads, OwnerInv, OneOwner
<1>4. Serving' = Serving /\ \A v \in Serving : conn_fd'[v] = conn_fd[v]
  BY <1>1, GotoElsewhere DEF RcvNothing, OwnerInv
<1>5. Handling' = Handling
  BY <1>4 DEF Handling
<1>6. inbox[c] = 0 /\ inbox' = inbox /\ closed' = closed \cup {c}
  BY DEF RcvNothing
<1> QED
  BY <1>2, <1>3, <1>5, <1>6 DEF Server!ConnClose, Handling, Serving

(* A message that arrives, arrives at the abstract server.                 *)
LEMMA ArriveArrives ==
  ASSUME NEW c \in Connections, Arrive(c)
  PROVE  Server!ConnArrive(c)
<1>1. Handling' = Handling
  BY DEF Arrive, Handling, Serving
<1> QED
  BY <1>1 DEF Arrive, Server!ConnArrive, Handling, Serving

(* Every step of the pool is a step of the abstract server or none.        *)
LEMMA NextImplements ==
  ASSUME OwnerInv, [PoolNext]_vars
  PROVE  [Server!ConnNext]_Server!connVars
<1>1. ASSUME NEW w \in Workers, Rcv(w) \/ Served(w) \/ RcvNothing(w)
      PROVE  Server!ConnNext
  <2>1. PICK c \in Connections : c = conn_fd[w]
    BY <1>1 DEF Rcv, Served, RcvNothing, At, Threads, OwnerInv, HandsInv, PoolTypeOK
  <2>2. Server!ConnBegin(c) \/ Server!ConnEnd(c) \/ Server!ConnClose(c)
    BY <1>1, <2>1, RcvBegins, ServedEnds, RcvNothingCloses
  <2> QED
    BY <2>2 DEF Server!ConnNext
<1>2. ASSUME NEW c \in Connections, Arrive(c) PROVE Server!ConnNext
  BY <1>2, ArriveArrives DEF Server!ConnNext
<1>3. ASSUME NEW w \in Workers, Pop(w) PROVE UNCHANGED Server!connVars
  <2>1. w \in Threads /\ pc[w] # "serve"
    BY <1>3 DEF Pop, At, Threads
  <2> QED
    BY <1>3, <2>1, GotoElsewhere, Stutter DEF Pop, OwnerInv
<1>10. ASSUME NEW w \in Workers, RcvAgain(w) PROVE UNCHANGED Server!connVars
  <2>1. w \in Threads /\ pc[w] # "serve"
    BY <1>10 DEF RcvAgain, At, Threads
  <2> QED
    BY <1>10, <2>1, GotoElsewhere, Stutter DEF RcvAgain, OwnerInv
<1>4. ASSUME NEW t \in Threads, Push(t) PROVE UNCHANGED Server!connVars
  BY <1>4, GotoElsewhere, Stutter DEF Push, At, OwnerInv
<1>5. ASSUME NEW c \in Connections, Accept(c) PROVE UNCHANGED Server!connVars
  <2>1. Acceptor \in Threads /\ pc[Acceptor] # "serve"
    BY <1>5 DEF Accept, At, Threads
  <2> QED
    BY <1>5, <2>1, GotoElsewhere, Stutter DEF Accept, OwnerInv
<1>6. ASSUME UNCHANGED <<inbox, closed, pc, conn_fd>> PROVE UNCHANGED Server!connVars
  BY <1>6, Stutter DEF Serving
<1>7. ASSUME NEW w \in Workers, WaitEmpty(w) PROVE UNCHANGED Server!connVars
  BY <1>6, <1>7 DEF WaitEmpty
<1>8. ASSUME NEW t \in Threads, WaitFull(t) \/ Spurious(t)
      PROVE  UNCHANGED Server!connVars
  BY <1>6, <1>8 DEF WaitFull, Spurious
<1>9. ASSUME UNCHANGED vars PROVE UNCHANGED Server!connVars
  BY <1>6, <1>9 DEF vars
<1> QED
  BY <1>1, <1>2, <1>3, <1>4, <1>5, <1>7, <1>8, <1>9, <1>10
  DEF PoolNext, WorkerStep

(* The pool implements ConnServer: messages of a connection are handled    *)
(* one after the other, each once, by at most as many handlers as there    *)
(* are workers, and no connection is closed under a running handler        *)
(* (worker_func, accept_clients, serve_client).                            *)
THEOREM PoolImplements == PoolSpec => ImplementsConnServer
<1>1. PoolInit => Server!ConnInit
  <2> SUFFICES ASSUME PoolInit PROVE Server!ConnInit
    OBVIOUS
  <2>1. Handling = {}
    BY DEF PoolInit, Handling, Serving, Threads
  <2> QED
    BY <2>1 DEF PoolInit, Server!ConnInit, Handling, Serving
<1>2. OwnerInv /\ [PoolNext]_vars => [Server!ConnNext]_Server!connVars
  BY NextImplements
<1> QED
  BY <1>1, <1>2, PoolOwnerInv, PTL DEF PoolSpec, ImplementsConnServer, Server!ConnSpec
=============================================================================
