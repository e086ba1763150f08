# vEPC with handover: specifications, model checking and proofs

This directory holds TLA+ specifications of the virtualised LTE packet core in
`src/source`: five programs (RAN simulator, MME, HSS, SGW, PGW) that attach,
detach and hand over subscribers and carry their packets, the SCTP server they
are built on, and the packets and identifiers they exchange. TLC checks small
instances. TLAPS proves, for every value of the constants, the safety results
about the SGW, the PGW, the MME, the thread pool, the identifiers, and the five
programs together: that sessions are routed, handed over and removed as a
subscriber is promised, and that packets reach their own subscriber.

    tlc -config EpcSafety.cfg MCEpc.tla      # one of the runs below
    tlapm SessionProofs.tla                  # one of the proof modules

## 1. Inventory

| Part | State | Operations | Talks to |
|---|---|---|---|
| RAN simulator (`ran.cpp`, `ran_simulator.cpp`) | `RanContext` of each subscriber; `handover_state`, ids and connection of the source and target eNodeB | initial attach, authentication, security, session, detach; initiate, accept, complete a handover, tear its tunnel down | MME: SCTP, one connection for a subscriber, one for the target; a server thread pair for what the MME starts |
| Traffic monitor (`ran.cpp`, `ran_simulator.cpp`) | `uplink_info`: address -> TEID | uplink from the tun device, downlink from the SGW | SGW: UDP; tun device |
| MME (`mme.cpp`, `mme_server.cpp`) | `ue_count`, `s1mme_id`: id -> GUTI, `ue_ctx`: GUTI -> context | one handler for a message type | RAN; HSS (a connection for each question); SGW (a UDP client for each question) |
| HSS (`hss.cpp`, `hss_server.cpp`) | tables `autn_info`, `loc_info` in MySQL | authentication vector, location update | MME |
| SGW (`sgw.cpp`, `sgw_server.cpp`) | `s11_id`, `s1_id`, `s5_id`: TEID -> IMSI; `ue_ctx`, `ho_ue_ctx`: IMSI -> context | create session, modify bearer, detach, indirect tunnel set-up, handover completion, tunnel teardown; uplink and downlink data | MME (S11), PGW (S5), eNodeBs (S1): UDP |
| PGW (`pgw.cpp`, `pgw_server.cpp`) | `s5_id`: TEID -> IMSI, `sgi_id`: address -> IMSI, `ue_ctx`, `ip_addrs` | create session, detach; uplink and downlink data | SGW, sink: UDP |
| Sink (`sink.cpp`) | none | the far end of the data path | PGW |
| `SctpServer`, `Sync` | queue of connections, a mutex, two condition variables | accept, worker loop | runs the handlers of MME, HSS, RAN |
| `SctpClient`, `UdpClient`, `UdpServer`, `Network` | sockets, timeouts, a byte stream | send, receive, framing | all |
| `Packet` and the header classes | a buffer of 1024 bytes, a position, a length | append, prepend, extract, truncate, clear, copy | all |
| `Telecom`, `set_ip_addrs`, `get_s11cteidmme` | none; `ip_addrs` | build and take apart IMSI, GUTI, TEID, addresses | all |
| `Security`, `Utils`, `MySql`, `Tun` | | OpenSSL, errors, libmysql, tun device | all |

The programs share no memory. What is hard is in the threads of one program
and in the order of messages between programs:

* **threads**: gateway handlers hold a lock for one table access at a time, so
  whatever is read is stale by the time it is used, and a handler of another
  thread can come between any two accesses. The servers of MME, HSS and RAN
  multiplex connections over workers with hand-written synchronisation. The
  data plane reads, packet by packet, the tables the control plane changes.
* **order**: the detach handlers of MME, SGW and PGW all answer before they
  remove their entries. In the gateways a subscriber can be back, on another
  thread, while the tail of its own detach still runs; in the MME its next
  message is on the same connection and waits behind the tail. The RAN reads the
  next message as whatever it expects, the MME believes the id in a message whatever
  connection it came on.
* **failure**: a UDP receive gives up after five seconds and leaves an empty
  packet, which handlers take for an answer. A process that meets an unknown
  TEID, a subscriber without a row or an empty address ends, and with it
  everybody's session. Nobody repeats a request.
* **time**: the handover is completed after half a second, ready or not.
* **layout**: sender and receiver list the fields of a message by hand, in two
  programs, over one packet object that is used again and again; a stream
  delivers a message in pieces or not to its end; identifiers are decimal
  numbers cut at fixed places.

What makes each part correct:

* SGW: a subscriber's TEID leads to nobody else (`UeIsolation`,
  `HandlerIsolation`); a handover's context and tunnel exist exactly while they
  are needed (`HandoverContext`, `IndirectTunnelLive`, `HandoverClean`).
* MME: ids are given out once (`IdsGivenOnce`), contexts stay reachable
  (`ContextReachable`), a handler that waited still works for the same
  subscriber (`HandlerKeepsSubscriber`).
* HSS: a registered subscriber has one location row (`Registered`).
* PGW: addresses and TEIDs lead to their own subscriber (`PgwIsolation`), which
  rests on no address being given twice (`AddressesDistinct`).
* RAN: it stays in step with the MME (`Lockstep`), with an id nobody else has
  (`Identity`); attaches and handovers end (`AttachDetachCompletes`,
  `HandoverCompletes`).
* All together: an active session is routed from end to end (`SessionRouted`),
  a finished one leaves nothing (`DetachedClean`), nobody exits (`NeverExits`),
  and the life of a session is the one a subscriber is promised (`SessionLife`).
* Data plane: packets reach their own subscriber (`DataIsolation`), an active
  session loses none (`ServedWhileActive`), and only a session that is being
  changed can take the SGW down (`ExitWindows`).
* Thread pool: one owner of a connection, none lost, no lost wake-up, every
  message read; it implements a simple abstract server.
* Packets and identifiers: what is extracted is what was appended
  (`FieldsAgree`), within the buffer (`InBuffer`); the programs agree on who is
  who (`SameSubscriber`).

`PROJECT.json` lists all components, also those that are not modelled, and the
hazards of the code line by line, each with the properties about it.

## 2. Modules

| Module | What it models |
|---|---|
| `GtpNet` | identifiers (subscribers, TEIDs) and the datagrams of S11 and S5 |
| `SctpNet` | S1AP and Diameter messages and connections |
| `Sgw`, `Pgw`, `Mme` | control planes of the gateways and the MME, each also a specification of its own with an open environment |
| `Hss` | the HSS |
| `Ran` | the simulator: `simulate`, `simulateHandover`, `handle_mme_conn` |
| `Epc` | the five programs together, and the properties across them |
| `Session` | abstract: the life of a subscriber's session |
| `UserPlane` | `Epc` with traffic monitor, the gateways' data handlers and the sink |
| `SctpPool` | `SctpServer::worker_func` and `accept_clients` with `Sync` |
| `ConnServer` | abstract: what the pool promises the handlers |
| `Wire` | packets, framing, and what each program appends to and extracts from each message |
| `Identifiers` | `set_ip_addrs`, and the decimal identifiers |
| `MCSgw`, `MCMme`, `MCEpc`, `MCUser`, `MCSctpPool`, `MCCodec` | instances for TLC |
| `GatewayProofs`, `MmeProofs`, `SctpPoolProofs`, `CodecProofs` | theorems about one component; the last is about `Wire` and `Identifiers` |
| `EpcProofs`, `LockstepProofs` | theorems about the five programs together: types, refinements, RAN and MME |
| `SessionProofs` | the invariant of a session through all five programs, and its preservation |
| `ServiceProofs` | what follows from it: the properties across programs, `SessionLife`, the user plane; `UeIsolation` in the whole system |

`Epc` extends `Ran`, `Mme`, `Hss`, `Sgw` and `Pgw`, which share the network
variables of `GtpNet` and `SctpNet`; a step of `Epc` is a step of one program.

**Open specifications.** `SgwSpec`, `PgwSpec` and `MmeSpec` describe one program
beside an environment that knows nothing of the others: `SgwEnv` puts any
well-formed datagrams on S11 and S5, and may end the process, as the data plane
can; `PgwEnv` puts any well-formed datagrams on S5; `MmeEnv` puts any messages on
the connections as long as one on a subscriber's connection names an id that was
given out and is that subscriber's or nobody's, and one on the target's
connection is a handover message. `Epc` implements all three: TLC checks it in
`epc_safety`, TLAPS proves it. What is proved of the open specification
therefore holds in the whole system.

**A session.** `Session` knows of no process: a subscriber's session is in one
phase (`none`, `known`, `routed`, `active`, `handover`), and a step moves one
session one phase on. `Epc!Promised` reads the phase off the tables of three
processes (`SessionPhase`); `SessionLife` is the refinement.

How state and steps correspond to the code:

* **Identifiers.** Subscriber `n` is the number the RAN derives its identifiers
  from (`9000000000 + n`); `n` stands for its IMSI, its GUTI, its IP address and
  the TEID the MME cuts out of the GUTI. `Identifiers` has the decimal numbers,
  and `SameSubscriber` and `AddressesDistinct` say that this identification is
  right. All TEIDs the SGW and the PGW choose are copies of that one, except the
  indirect tunnel's, which is `n + 1`; so `Teid` is the subscribers, their
  successors, 0 and 1.
* **Tables.** A map from identifiers is a function; 0 means there is no entry.
  `operator[]` that makes a missing entry is modelled where something looks
  (`in` in `Sgw!Ctx`).
* **Steps of the gateways.** A critical section, with the sends and the local
  computation next to it. `sgw_th[t]` and `pgw_th[t]` hold a handler's place
  and local variables. A thread that waits for the PGW is in a `wait_` state. The
  tunnel's teardown is one step although it reaches `ue_ctx[imsi]` without the
  lock (`sgw.cpp:261`) before `rem_itfid` (`265`): what it reads there goes into a
  header field that nobody looks at.
* **Steps of the MME.** From one exchange with HSS or SGW to the next. That is
  coarser than its critical sections; a connection has one handler at a time,
  a handler touches the entry of its own id and the context of its own GUTI,
  and the only other handlers of the same subscriber, those of a handover's
  second connection, only read them; `ue_count` is incremented and read in one
  critical section.
  What a step leaves out: the state between `rem_itfid` and `rem_uectx`
  (`mme.cpp:218-219`, `573-574`), where a subscriber's id is gone and its context
  is not (`Forget`); and the connection to the source eNodeB that is opened and
  closed without a message when the SGW refused (`mme.cpp:619-620`, `708-709`,
  `MmeHoAnswer`).
* **Steps of the HSS.** One query; the lock is released between the delete and
  the insert of a location update. A row of `autn_info` has the SIM's key,
  another one, or is missing, which ends the process (`HssExit`); whoever waits
  for it reads zeros, whoever connects later waits for ever.
* **Steps of the data plane.** A handler holds one packet from the datagram it
  takes to the one it sends, so its place is the packet's stage; a step is one
  access to a table. Packets under way are numbered (`no`): two alike are still
  two, and a step that drops one can be told from a step that moves it.
* **Network.** An SCTP connection is a sequence. UDP datagrams, and the messages
  for which the MME opens a connection each, are sets. A datagram is lost only
  as far as the receiver can tell: the client gives up (`SgwTimeout`,
  `PgwTimeout`) and its next port is another one, so a late answer is dropped.
* **Bytes.** In `Wire` a message is a program of packet operations: the
  sender's, a transfer, the receiver's. A byte is named by the item it belongs
  to, so `FieldsAgree` can tell whose byte was read. A read of a stream returns
  any prefix, and the sender may end in the middle of a message.
* **Ends.** `handle_type1_error` and uncaught exceptions set `sgw_up`, `mme_up`
  or `hss_up` to FALSE.

At this commit `run` of the simulator starts the handover thread only;
`simulate`, which attaches and detaches in a loop, is defined beside it, and
`simulate`'s `transfer_data` and the start of the traffic monitor are commented
out. All are modelled as they are written; `HoUE = 0` or a subscriber other than
`HoUE` selects.

Definitions with a comment "Faulty variant" are deliberate mistakes. Nothing
uses them; `PROJECT.json` pairs each with the definition it would replace and
the property that then fails, which shows that the property depends on it.

## 3. Runs

The passing runs, with the number of distinct states:

| Run | Instance | What it shows |
|---|---|---|
| `sgw_open` (1 932 000) | subscribers 3 and 5, two S11 threads, three requests of any kind, one timeout a thread | the SGW keeps subscribers apart whatever it is asked, in every interleaving |
| `mme_open` (208 000) | two subscribers, four messages with valid or stale ids, any answers, one timeout | the MME's id table and contexts stay consistent |
| `epc_safety` (51 000) | 1 is handed over while 3 attaches and detaches twice; rows of the HSS right, wrong or missing; one thread in each gateway; fair | all properties across programs; that the system implements `SgwSpec`, `PgwSpec`, `MmeSpec` and `Session`; that attaches and the handover complete |
| `epc_lossy` (710 000) | as `epc_safety`, one attach each, one lost answer for each client | what survives lost answers: identity, lockstep, isolation |
| `epc_data` (422 000) | as `epc_safety`, one attach each, a user packet at any moment, in either direction | whom packets reach, which are lost, when one ends the SGW |
| `pool` (59 000) | two workers, three connections, two messages each, a queue of two places | one owner, none lost, no lost wake-up, refinement of `ConnServer`, and every message is read |
| `codec` (72 000) | every message but one, strings of 7 and 15 bytes, user packets of 20, 540 and 1008, a stream in up to three pieces or cut off; 270 subscribers | fields agree, the buffer holds, addresses are distinct, identifiers agree |

The runs that end in a counterexample, each a disagreement of the code with
what the code says of itself (section `findings` of `PROJECT.json`):

* `epc_s11_race`: two S11 threads. The SGW answers a detach, the subscriber
  attaches again, and the tail of the detach removes the new session's entry;
  the modify that follows ends the SGW. Two threads are an argument away
  (`./sgw_server_exec 2 1 1`). The PGW's detach has the same order of answer and
  removal (`pgw.cpp:145`).
* `epc_neighbours`: subscribers 1 and 2. The indirect tunnel of 1 takes TEID 2.
* `epc_lost_answer`: the MME accepts an attach the SGW has not answered.
* `epc_early`: without the assumption that half a second covers the set-up, the
  completion can be lost; the handover then never ends.
* `wire_hmac`: the RAN takes a 20-byte HMAC out of the security mode command
  that the MME no longer puts in, and reads the fields behind it. It is the one
  message that `codec` leaves out.

A worker of the pool may close a connection that brings nothing for a minute
(MME, HSS), or queue it again (`RcvAgain`: the RAN's `handle_mme_conn`, also for
a connection that the MME has closed).

Why the bounds are enough:

* Subscribers 1 and 3 (or 3 and 5) are spaced: their TEIDs and indirect TEIDs are different.
  The case in which they are not has a run of its own. Two subscribers are the
  least that can be mixed up; no handler relates three.
* Two threads are the least that interleave; `UeIsolation` is proved for any
  number. The runs of the whole system have one thread in each gateway, since
  with two the races above end every longer behaviour.
* `MaxAttaches = 2`: a second attach meets what the first left. `MaxUeId` is
  the number of ids those attaches use.
* `MaxS11Timeouts`, `MaxS5Timeouts = 1`: one lost answer for each client.
* `MaxRequests = 3` in `MCSgw`: a session, something that changes it and
  something that uses it. `MaxMessages` in `MCMme` and `MCSctpPool` likewise.
* `MaxPackets = 1` in `MCUser`: the data handlers write no table, so packets
  disturb each other only in the traffic monitor's second receive. The theorems
  about the user plane hold for any number of packets.
* `MaxQSize` is `INT_MAX` in the code. Two places for three connections make
  threads wait on `qfull` as well as on `qempty`.
* `MaxUeCount = 10` is above every subscriber, so all have an address. In
  `codec`, 270 subscribers go past the end of the first subnet, at 252.
* `MaxSegments = 3` cuts a message in its length, in its body, and in both. A
  payload of 1008 bytes with its header just fits `BUF_SIZE`. The simulator
  limits segments to 500 bytes (`iperf3 -M 500`); a packet above 1008 would
  leave the buffer. `LengthsAssumption` says so of all lengths: an address in
  dotted notation has 15 characters at most, a user packet leaves room for a
  GTP header. The theorems about `Wire` hold for any such lengths and any
  number of segments.

`CHECK_DEADLOCK FALSE` is set because the bounds end a run, as the end of
`simulate` does; the pool's workers wait for ever once all clients are served.
`sgw_open` uses symmetry of the two threads and leaves out of the view the
answers nobody reads; no other run uses either.

**Fairness.** `EpcFairness` is weak fairness of each thread: the operating
system schedules every thread that can run; one that cannot waits for a
message, a datagram or a lock held for a bounded time. `epc_safety` has no
timeouts, since nothing repeats a request, and assumes with `SleepCovers` that
the half second is longer than the set-up; `epc_early` drops that assumption.
Fairness of `MmeProcess(c)` for every connection also assumes that the MME has a
worker for each connection with a message (`./mme_server_exec` takes the number):
with fewer, an idle connection keeps its worker for up to a minute, and the others
wait behind it. `pool` has that wait, with two workers for three connections; the
runs of the whole system do not.
`PoolFairness` is weak fairness of each worker's loop, of waiting for and using
a free place, and of `accept`; a waiting thread is woken by a signal, not by
fairness.

## 4. Proofs

**SGW** (`GatewayProofs`), for any set of subscribers, any number of threads, any
sockets and any number of timeouts, with an environment that may send any
well-formed datagram:

* `SgwTypeCorrect`: `SgwSpec => []SgwTypeOK`. It needs that the datagrams under
  way are well formed (`TypeInv`).
* `SgwHandlerIsolation`, from `IsolationInv`: a handler keeps the subscriber it
  looked up, so what matters is that the S11 and S5 tables map every TEID to its
  own number or to none, also TEIDs that are no subscriber's (`IdInv`), and that
  what a thread carries while it makes or serves a session belongs together
  (`ThreadInv`).
* `SgwUeIsolation` assumes `Spaced`: no subscriber's number follows another's,
  and none is 1. The S1 table needs it, since the indirect tunnel enters the
  number that follows a TEID read from a context, and the environment may hand
  over anybody, also a subscriber whose context is gone and reads as 0. Without
  `Spaced` the property is false (`epc_neighbours`). In the whole system, where
  one subscriber is handed over and has a context, only that one's neighbour
  matters: `EpcUeIsolation` below.

**PGW** (`GatewayProofs`), for any subscribers, threads and requests: `PgwTypes`,
and `PgwIsolated`, that a TEID, an address and a context lead to no other
subscriber. `PgwInv` adds what a thread between two critical sections carries
(`ThreadOwn`, `Making`).

**Identifiers** (`CodecProofs`), for any `MAX_UE_COUNT`. `NoSharedAddress`
follows from `IdInvariant`: the `n`-th address satisfies
`252 * (subnet - 1) + host - 3 = n`, so `n` can be read off it. That the
addresses differ is not inductive without it. `AlwaysSameSubscriber` assumes
`MAX_UE_COUNT <= 10^9` (`utils.h` has 10000): with a tenth digit the programs do
disagree. It rests on `NineDigits`, that the nine remainders by 10 give the
number back, which is nine steps of arithmetic and no induction.

**Messages** (`CodecProofs`), for any strings and user packets within
`LengthsAssumption`, any number of segments, a sender that may end at any byte,
and any sequence of messages that share one packet: `FieldsAlwaysAgree` and
`AlwaysInBuffer`, from `WireInvariant`. Neither property is inductive: they speak of
what is out of a packet already, and what comes out next depends on bytes that
were laid down, put in front, cut, and put together again. `WireInv` therefore
says where every byte of a message is at every place of its program:

* while the sender builds it (`Building`, `Prepended`), the pieces lie one behind
  the other, each at its offset (`Laid`), and belong to the types of the list in
  turn (`Itemized`, since a string is two pieces);
* on its way (`InTransit`), what the reader has, what is in the stream and what
  the writer has left are the message with its length in front, or the
  beginning of it once the sender is gone (`Parts`). A step of `write_stream` or
  `read_stream` moves bytes from one to the next and keeps this;
* the receiver (`Arrived`, `Unpacking`) stands at the offset of the next piece,
  and a length read there is the one that was put in (`IntField`);
* `Half` is a receiver that did not look at `pkt.len`: there only the size of the
  buffer is kept. `UserInv` has user packets, with a tunnel's header in front or
  without.

The senders' and receivers' lists enter through one fact, `ExtractsMatch`: for each
message the two are equal, or the receiver takes nothing out. It is false of
`sec_cmd` (`wire_hmac`), so the theorems assume that `Messages` is without it, as
`codec` does. The bytes are few enough because of `AppendsGood`: a message has 13
items at most.

**MME** (`MmeProofs`), for any subscribers, identifiers, messages and timeouts,
in the environment `MmeEnv`: `MmeTypes`, `MmeHandlerKeepsSubscriber`,
`MmeContextReachable`, `MmeIdsGivenOnce`. The handlers of other connections
could take a handler's entry away while it waits, were it not for what messages
may say. `MmeInv` therefore has, beside types: no id lies ahead of `ue_count`
(`IdsBehind`); messages of a subscriber's connection name its own ids
(`OwnMessages`), those of the target's are of handovers (`TargetMessages`), and
so is what its handler does (`TargetHandler`); `Keeps` and `Reachable` are the
results.

**Thread pool** (`SctpPoolProofs`), for any finite,
nonempty set of workers, any connections, any `MaxQSize` and any messages:

* `PoolTypeCorrect`, `PoolOneOwner`: the inductive invariant is `OwnerInv`:
  types, `OneOwner` and `HandsInv`, which says that a thread has a connection
  exactly when it is not looking for one. Without `HandsInv`, a worker that
  pops could drop the connection it had, or push none.
* `PoolNoneLost`: from `OwnerInv`; `PoolNoLostWakeup`: from the types alone. A
  worker falls asleep only while the queue is empty, and the push that ends
  this wakes one, so it does not matter that the code tests with an `if`.
* `PoolImplements`: `PoolSpec => ImplementsConnServer`. `Rcv` begins a handler,
  `Served` ends it, `RcvNothing` closes; the rest is invisible. That a handler
  never begins twice for one connection is `OneOwner`; that no more handlers
  run than there are workers is an argument on cardinalities
  (`WorkerToSpare`).

**The whole system, gateways** (`EpcProofs`), for any subscribers, threads,
identifiers, bounds and contents of the HSS:

* `EpcTypes`: `EpcSpec => []EpcTypeOK`. What one program sends another is well
  formed only because of what the sender's tables hold, so `EpcTypeInv` adds
  that contexts hold their own numbers (`CtxOwn`) and so does a session in the
  making (`SgwMaking`).
* `EpcImplementsSgw`, `EpcImplementsPgw`: from the types, every step of another
  program is a step of the environment. Hence `EpcHandlerIsolation` and
  `EpcPgwIsolation`.

**The whole system, RAN and MME** (`LockstepProofs`), for all of the above, with
any number of lost answers and however early the handover is completed:

* `EpcLockstep`, `EpcIdentity`: the RAN takes the next message for the answer it
  waits for, and the id in it for its own. `EpcInv` says who may say what when
  (`Turn`: what can be on a subscriber's connection, and what its worker in the
  MME can be doing, follows from where the subscriber's thread is), that what is
  said is true (`Knows`: the id, the GUTI and the result of the authentication
  are the subscriber's), that the ids in use differ (`Apart`), and that a
  handover is completed by a thread that asks for nothing more (`Completing`).
  None of these is inductive alone: that an answer is the right one depends on
  the id in the request, that on the id in the answer before. Together with
  `EpcTypeInv` and `MmeInv` they are (`LockInv`).
* `EpcImplementsMme`: what RAN, HSS and gateways send the MME is what `MmeEnv`
  may send. Hence `EpcHandlerKeepsSubscriber`.
* `EpcMmeNeverExits`: the MME never meets the GUTI of 0 on which it ends. Lost
  answers leave this half of `NeverExits` true, and break the SGW's
  (`epc_lost_answer`).

**The whole system, sessions** (`SessionProofs`). `EpcRegistered`, that a
registered subscriber has one location row, needs no assumption: `RegInv` says
what HSS and MME hold of a subscriber, and that an exchange with the HSS is the
one its handler waits for.

All that follows is proved under `Orderly`:

* the gateways have one S11 and one S5 thread, and every answer comes in time
  (`MaxS11Timeouts = MaxS5Timeouts = 0`). With two threads, or with a lost
  answer, sessions do break: `epc_s11_race`, `epc_lost_answer`;
* the half second covers the set-up (`SleepCovers`). Otherwise the handover may
  end half done: `epc_early`;
* the subscriber handed over has no neighbour whose TEID is its indirect one:
  `epc_neighbours`;
* every subscriber is below `MaxUeCount`, so that it has an address.

The instances of `epc_safety` and `epc_data` satisfy it; subscribers,
identifiers, attaches and contents of the HSS are arbitrary in both.

`SessionRouted` speaks of the tables of three processes at rest. To be
inductive it needs the place of every procedure in all five programs at once.
`OrderlyInv` consists of `LockInv`, `RegInv`, `SessInv` and `HoInv`:

* `Exchange11`, `Exchange5`: of a question, a handler at work on it and an
  answer there is one at a time, and it is determined by what the asking thread
  waits for (`Question`, `Reply`; `Question5`, `Reply5`). This is what one
  thread and no timeouts buy.
* `SgwRow`, `PgwRow`: which entries a subscriber has in each table. A session is
  there (`Present`) from the SGW's answer to a create to its answer to a detach;
  entries are there a little earlier or later, by the place of the handler that
  adds or removes them. `SgwExtra`, `PgwExtra`: no other TEID leads anywhere but
  the indirect one.
* `Bearer`: once the MME has the answer to the modify, the SGW has the eNodeB.
  `Given`: what MME and RAN know of the session, by their own places.
* `HoInv`: the handover is at one of 15 stages (`HoAt`), each a line across the
  messages between RAN and MME, the MME's two workers, the RAN's threads
  and the SGW's handover tables.

The proof takes the five programs in turn. The tail of a detach is the hard
part: it runs beside the subscriber's next attach, and what keeps it harmless
with one thread is that the next create waits behind it.

**The whole system, what is promised** (`ServiceProofs`), from `OrderlyInv`:

* `EpcSessionRouted`, `EpcNeverExits`, `EpcIndirectTunnelLive`,
  `EpcHandoverContext`, `EpcHandoverClean`.
* `EpcDetachedClean` also needs `ForgetInv`: the MME's entries of a subscriber
  are the ones its attach made, so its detach removes all of them.
* `EpcSessionLife`: `EpcSpec => SessionLife`, the refinement of `Session`. Under
  the invariant a phase can be read off the MME's context, one entry of each
  table and the handover context (`PhaseOf`); a step changes these for one
  subscriber at most (`OneMoves`) and moves it one phase on (`Passage`). That
  a session which comes to be is an authorised one rests on `StrangerInv`: a subscriber whose key the HSS does not have gets no
  further than the authentication. `StrangerInv` and `ForgetInv` themselves need
  nothing of `Orderly`.
* `UserDataIsolation`, `UserServedWhileActive`, `UserExitWindows`, for any number
  of packets at any stages. `UserInv` adds to `OrderlyInv` that the traffic
  monitor and the SGW hold a subscriber's own tunnels or none (`Uplinked`,
  `Downlinked`), that nobody wrote a context for the 0 of a failed lookup
  (`Nobody`), that a packet carries its own subscriber's address and TEID
  (`Carries`), and `UserTypeOK`. A packet can end the SGW, so `OrderlyInv` does
  not say `sgw_up`; `EpcNeverExits` is about `EpcSpec`, without packets, and
  `UserExitWindows` about which packets they are.

`EpcUeIsolation`, also in `ServiceProofs`, needs nothing of `Orderly` but its
clause on neighbours, `NoNeighbour`: nobody's number follows that of the
subscriber handed over. It holds with any number of threads and of lost answers,
for subscriber 1 and for consecutive numbers of all others (`epc_safety` and
`epc_lossy` hand over subscriber 1; `epc_neighbours` is what happens without
`NoNeighbour`). It adds `IndirectInv` to `LockInv`, `RegInv` and `IsolationInv`:

* the ids that the RAN, the target and the MME pass on in a handover are
  `HoUE`'s or nobody's (`HandoverIds`);
* a create, a detach and a set-up name the subscriber of the connection the MME
  asks for (`Ordered`), and so do the answers (`Told`);
* the MME has a TEID for `HoUE` only once the SGW has its context, and that
  context stays, since `HoUE` never detaches (`HoThere`). So a set-up that finds
  a subscriber finds a context that is filled in, and never enters TEID 1 for a
  context that is gone;
* a thread of the SGW does what it was asked (`WorksOn`).

The inductive invariants were checked with TLC before they were proved. The
assumptions on the constants are stated in the modules and evaluated by TLC in
the runs.

**Only model-checked**:

* `AttachDetachCompletes`, `HandoverCompletes` and `MessagesRead`: liveness under
  fairness is out of the prover's reach;
* messages with `sec_cmd` among them, for which `FieldsAgree` is false;
* `DataIsolation` outside `Orderly`. The other properties across programs are
  false there, as the runs that end in a counterexample show.

## 5. Not modelled

* data races inside a container (`ho_ue_ctx.erase` without lock): their
  outcomes are not a choice among states of this model. `ExitWindows` and
  `ServedWhileActive` check what its readers do with a context that is there
  and one that is not;
* the reuse of a UDP port by a later client, which a late answer could reach;
* two threads in the PGW beside the rest of the system: the race of
  `pgw.cpp:145` has the form of `epc_s11_race`, and nothing in the repository
  says what must then not happen;
* restart of a program: nothing is stored but the HSS's tables, and no program
  looks for the state it had. An HSS that ends between the delete and the insert
  of a location update leaves no row; `Registered` speaks of a running HSS;
* reconnection of an SCTP client, except the MME's to an HSS that has ended;
* OpenSSL, the NAS keys (every call of the ciphers is commented out), the
  comparison of codes that are constants, measurement, start-up code and
  arguments, the Makefile;
* the contents of header fields nobody reads, and of the IP header but for its
  addresses.

`UserPlane` has a type invariant, `UserTypeOK`; it is part of `UserInv`, and
`epc_data` is spent on the properties that say more.

## 6. Plan

Written in this order: `GtpNet`, `Sgw` with its proofs; `SctpNet`, `Mme`, `Hss`,
`Pgw`, `Ran`; `Epc`; `SctpPool` and `ConnServer` with their proofs; `UserPlane`;
`Session`; `Wire` and `Identifiers`; the open specifications of PGW and MME with
their proofs; `EpcProofs`; `LockstepProofs`; `SessionProofs`; `ServiceProofs`;
`CodecProofs`.
What would come next:

1. `DataIsolation` from `NoNeighbour` alone, with several threads in the gateways
   and lost answers: what a table holds is somebody's own even where it is not what
   it should be (`IsolationInv`, `IndirectInv`, `PgwInv`).
2. Finer steps of the MME, one critical section each, shown to implement `Mme`.
3. Port reuse in `GtpNet`, so that a late answer can reach the next client.
4. Choosing, for every reader of `ho_ue_ctx`, between the outcomes of a lookup
   that races with its `erase`.
