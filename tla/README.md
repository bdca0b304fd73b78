# libjingle4c in TLA+

TLA+ models, TLC configurations and TLAPS proofs for libjingle4c: libjingle
0.5.8 (XMPP and Jingle peer-to-peer sessions in C++) with a C interface. The
core of the library is the peer-to-peer tunnel: a session negotiated over XMPP,
a transport found by ICE-like checks, and a byte stream (PseudoTcp) over it,
run by several threads that post messages to each other.

## Inventory

| Part | State | Operations | Hard because |
|---|---|---|---|
| `Session` (`talk/p2p/base/session.cc`) | `state_`, `error_`, `remote_name_`, `initiate_acked_`, one `TransportProxy` per content | Initiate, Accept, Reject, Terminate, incoming messages, responses and failures, MSG_STATE, MSG_ERROR, MSG_TIMEOUT | effects are posted, not done: states, errors and timeouts overtake each other; both ends act at once |
| `SessionManager` | `session_map_` | create, find, destroy, route, error replies | stanzas for sessions that are gone, or not there yet |
| `SessionSendTask` | the stanza it waits for | send, response, timeout | late answers, answers after the session died |
| `Transport` | `connect_requested_`, `writable_`, channels | ConnectChannels, CreateChannel, write state | runs on the worker and tells the signaling thread by messages |
| `TunnelSession(Client)` | the tunnels | CreateTunnel, AcceptTunnel, DeclineTunnel, FindSessionByStream | reacts inside `SignalState`, i.e. in the middle of a handler |
| `PseudoTcpChannel` | `session_`, `channel_`, `worker_thread_`, `stream_`, `tcp_`, `cs_` | Connect, Read, Write, Close, channel signals, five messages | three threads, a lock held across a blocking call, an object that deletes itself |
| `PseudoTcp` | connection state, buffers, windows, timers | Connect, Send, Recv, Close, NotifyClock, NotifyPacket | loss, re-ordering, wrap-around, closed windows |
| `cif/`, `service/` | the service thread, the client, `p2p_session_t` | start, stop, login, create, connect, read, write, close | called from any thread of the application |
| `talk/base` | message queues, threads, tasks | Post, Send, Clear, Task steps | nested receives, timers, aborts |
| P2P transport, ports, STUN, relay, allocators | connections, requests, bindings | pings, sorting, retransmission, expiry | timers and stale connections |
| XMPP engine and login | stream state, handlers | login steps, dispatch | order of stanzas |

What makes the parts correct:

* **Session**: a transient state always moves on; an error always ends the
  session; a terminated session stays so; both ends agree on the answer; no
  candidate is lost or overtakes the initiate; a transport that is not writable
  is watched by the timer; no half-open session stays for ever.
* **PseudoTcpChannel**: no cleared pointer is used, the clock runs as long as the
  connection needs it, the reader is woken, the owner hears of the end once,
  the object is deleted exactly when it should be, nobody waits for ever.
* **PseudoTcp**: what is read is a prefix of what was written; windows re-open.
* **P2PTransportChannel**: writable exactly if its best connection is; it never
  stops trying; nothing useless stays and nothing destroyed is used.
* **Threads and tasks**: no wake-up is lost, no message outlives its handler, no
  task its parent; no locks wait for each other.
* **cif / service**: no authentication without TLS; the status is true; a login, a
  silent server and a restart all come to an end.

`PROJECT.json` lists the hazards with their lines and the properties for them.

## Modules

| Module | What | Depends on |
|---|---|---|
| `Call.tla` | abstract: what a session promises two clients | |
| `Session.tla`, `MCSession.tla` | two endpoints of `session.cc`, with the manager, send tasks and transport, and the XMPP server between them | refines `Call` |
| `SessionProofs.tla` | theorems about `Session.tla`: signaling; queues, timer and candidates | `Session` |
| `MessageQueue.tla`, `MessageQueueProofs.tla` | queues as sequences, `MessageQueue::Clear`, and lemmas about them | |
| `PseudoTcpChannel.tla`, `MCPseudoTcpChannel.tla` | one end of a tunnel: three threads, the lock, the lifetime | `MessageQueue` |
| `PseudoTcp.tla`, `MCPseudoTcp.tla` | two ends of the byte stream over a faulty network | |
| `P2PTransportChannel.tla`, `MCP2PTransportChannel.tla` | one end of a channel: ports, connections, pings, sorting, allocation | `MessageQueue` |
| `Thread.tla`, `MCThread.tla` | threads, message queues, Send, the queue manager | `MessageQueue` |
| `TaskRunner.tla`, `MCTaskRunner.tla` | tasks, their parents, timeouts and RunTasks | |
| `Service.tla` | the C interface's service from start to restart, with login and pings | |
| `PseudoTcpProofs.tla`, `PseudoTcpChannelProofs.tla`, `P2PTransportChannelProofs.tla`, `ThreadProofs.tla`, `TaskRunnerProofs.tla`, `ServiceProofs.tla` | theorems about the module each is named after | |

Each module is a layer; the layers above use a layer by the contract that its
own module checks. `Session` and `PseudoTcpChannel` take `Post`, `Clear` and
`Send` as atomic, which is what `Thread` is about; `PseudoTcpChannel` reduces
PseudoTcp to a connection that may be busy or have data, which is what
`PseudoTcp` is about; `Session` reduces the channel to writable or not, which
is `P2PTransportChannel`; `Service` and the send tasks of `Session` are run by
`TaskRunner`.

### Session.tla

Every handler of `session.cc` runs on the signaling thread of its endpoint, so
an action is one whole handler: the state change, the stanzas it sends, the
messages it posts, and what the tunnel client does inside `SignalState`
(`OnInitiateMessage` may accept or reject; `OnAcceptMessage` creates the
channel). Posted messages wait in `posted[e]` in order; the delayed MSG_TIMEOUT
is `timer`; the worker thread's view of the channel is `conn`, the cached flag
is `writable`. MSG_STATE is handled by the state the session is in when it
arrives, as in the code, not the one that posted it.

Stanzas in flight are a set, because the code expects the server to re-order
them. The server may lose a stanza or bounce it (`Lose`, `Bounce`), and a send
task may time out although the answer is only late (`OnSendTimeout`); a
resource `fwd` answers with redirects. A stanza is the action, sender,
recipient and candidates; XML is left out. The answer to a transport-info is
not awaited: an acknowledgement and an error are ignored by the code, and the
server redirects only the initiate. ACTION_TRANSPORT_ACCEPT, which does nothing,
and ACTION_UPDATE, which no client here sends, are left out.

Session ids are left out: there is one session per pair. A destroyed session
takes its queue, timer, transport and waiting tasks with it.

`Call.tla` says what this amounts to for the clients. The mapping takes the ten
states of the code to idle, trying, connected and ended (`CallPhase`).

### PseudoTcpChannel.tla

The threads are `si` (signaling), `wk` (worker) and `st` (stream); with
`SharedThread` the stream thread is the worker, as `cif/` makes it. A method
that takes `cs_` has up to three steps: the call (`pc[t]`), the body under the
lock (`Enter`), and `Leave`. `OnAccept` and `CreateChannel` are the two halves
of `Connect`, which keeps `cs_` while `Session::CreateChannel` waits for the
worker. MSG_SI_DESTROY is handled without the lock and ends the model: after it
only `Leave` is possible.

`ptr` holds the member pointers that are not NULL. PseudoTcp is its connection
state, `m_shutdown`, whether it has something to send or acknowledge (`busy`),
whether there is something to read (`data`) and the two enable flags; packets
and clocks change these in every way that `process` and `NotifyClock` can.
SYN-SENT and SYN-RECEIVED are one state. When MSG_STATE destroys a terminated
session is left open (the order of that message and MSG_SI_DESTROY is not
fixed by the code).

Constants: `Initiators`, the roles this end may have; `CloseEarly`, whether the owner may close a stream
before it has opened (`cif/` waits for the tunnel to open or to be closed);
`OtherTunnels`, whether other tunnels of the client search for their streams
(`FindSessionByStream` calls `GetStream` on every tunnel, see Observations).
`DeletedClean` is the destructor's assertions as they stand; it holds, and is
proved, where no other tunnel searches.

### PseudoTcp.tla

`tcb[e]` is the object of end `e`, a record with the members' names. The private
methods (`queue`, `transmit`, `attemptSend`, `process`, `clock_check`,
`closedown`, ...) are operators from record to record; the public ones
(`Connect`, `Send`, `Recv`, `Close`, `NotifyPacket`, `NotifyClock`, `NotifyMTU`)
are the actions. Bytes are numbered by their writer, so that what is read can be
compared with what was written; the receive buffer is an array with a read
position, as in the code, and unused bytes are `Junk`. The owner is the one of
`PseudoTcpChannel`: it reads and writes when it was told that it can, and deletes
the connection when `GetNextClock` says so. Packets are queues with faults:
lost, repeated, overtaken, later than a timer.

Time, round-trip estimates and the congestion window are choices: a timer that
is set may be due at any clock, and the congestion window is one segment or wide
open whenever it is looked at. So the model says nothing about throughput.

### P2PTransportChannel.tla

`ch` is the channel with its connections, ports, posted and delayed messages.
The methods are operators on it, the handlers are the actions: `Connect`,
`Reset`, the messages (`OnSort`, `OnPing`, `OnAllocate`, `OnDelete`,
`OnCheckTimeout`, candidates and signaling-ready, which come from the signaling
thread), `OnPortReady` of an allocator session, and the packets (binding request
of a known or unknown address, response, error, data). Messages are handled
before packets, except that one wait for the sockets may still serve ports after
a handler has posted: `PhysicalSocketServer::Wait` goes on with the sockets that
select found and may make another pass before it sees the wake-up. `served`
counts these packets up to `MaxBurst`. Connections are destroyed by posted
messages, so this order matters. `Reset` drops the channel's own messages;
what `Transport` has posted stays. Candidates of one kind have one preference:
the remote candidate's is left out of `Prefers`. Silence, failures and timeouts are
choices, except for a connection that was just heard.

### Thread.tla

`stack[t]` are the calls of thread `t`: the message loop, handlers, the calls
they make and the handlers nested in a waiting `Send`. A step ends where a
thread can be preempted or has to wait, so a block under `crit_` is one step
unless it takes the manager's lock (`Lock`, `Activate`). `Get` is `GetSends`,
`GetMessage`, `GetEmpty` (the read of `fStop_` without the lock) and `Wait`.
`signaled` and `fWait` are the event and the flag of `PhysicalSocketServer`. The
contracts that the classes rely on are the guards of `Destroy` and `Stop`.

### TaskRunner.tla

`task[t]` has the members of `Task`, `children` those of `TaskParent`, `at` is
where `RunTasks` is. What a task's `Process` does is any sequence of calls
(`Start`, `Wake`, `Error`, `Abort`, `SetTimeout`) and a result (`StepReturns`,
`StepDone`); the calls also come from other handlers of the thread. `Abort`, which
recurses through `Stop` and `AbortAllChildren`, stops the tasks of a least set
(`Aborted`), and the list that `RunTasks` leaves is described by what it keeps and
in which order (`Removed`). The clock
has `Wrap` values, 2^32 in the code.

### Service.tla

The application's thread (`ServiceStart`, `DeleteThread`, `NewThread`) and the
service's (`DoLogin`, its message loop, `RunEnds`, `DoDisconnect`,
`ServiceEnds`). `doing` says what the loop is in the middle of: the tasks
(`ClientConnects`, `ClientResponse`, `JingleInfoStart`, `PingStart`,
`PingResponse`) or one read of the socket, whose stanzas are handled one after
the other before the engine reports its state; then it ends (`InputEnds`) or
`OnSocketRead` reads on (`InputGoesOn`), whatever was posted. The server sends
any stanza at any time; the login task's answer to each is an action
(`StreamStart`, `Features`, `Proceed`, `SaslSuccess`, `BindAnswered`, ... and
their failures).

## Runs

| Run | Shows | States, time (2 workers) |
|---|---|---|
| `session_signaling` | one fault or info message: transient states, errors, agreement and its inductive invariant, finality, refinement of `Call` | 464k, 55 s |
| `session_candidates` | candidates, acknowledgement, redirect | 786k, 50 s |
| `session_half_open` | the timer watches a channel that flips; no half-open session | 294k, 150 s |
| `tunnel_threads` | the invariants of a live object, as initiator and as responder, next to other tunnels; the owner hears of the end once | 97k, 5 s |
| `tunnel_reclaim` | the destructor's assertions and liveness of both roles, as `cif/` runs it, with one tunnel | 15k, 35 s |
| `tunnel_declined` | **violated**: a declined tunnel's object is never destroyed | 5 s |
| `pseudotcp` | what is read is what was written; segments, windows, close; nothing is stuck | 1.1M, 110 s |
| `connectivity` | the best connection, writability, the chain of allocations, deletion | 507k, 80 s |
| `threads` | locks, wake-ups, destroyed handlers and threads | 1.1M, 35 s |
| `tasks` | dangling tasks, lost wakes, children | 1.9M, 40 s |
| `service` | TLS before authentication, the status, login, silence, restart | 14k, 10 s |
| `task_timeout` | **violated**: a timeout near the end of the clock is over at once | 1 s |

Bounds, and why they are enough:

* `Session`: `MaxExtras` bounds faults and info messages together: one is every
  single lost, bounced or late stanza, or info message, at every point of a call;
  two candidate reports add nothing to the order of one, so
  `Cand` has one element; one flap makes the channel writable and unwritable
  again and lets every queued message meet both values. `session_candidates` has
  no faults because a lost transport-info is never sent again.
* `PseudoTcpChannel`: `MaxEvents` bounds only how far the writer runs ahead of
  the events of the stream.
* `PseudoTcp`: four bytes one way fill a receive buffer of three and close the
  window (segments of one or two bytes, so that splits happen), two and one both
  ways give acknowledgements that carry data; one fault anywhere. `MaxXmit` is
  the code's 15: a segment is given up after `MaxXmit` transmissions when the
  connection is established and after twice as many before. `RcvBufSize + 1 < SndBufSize` keeps the
  code's relation of the buffers.
* `P2PTransportChannel`: one kind of port, one remote address and two allocator
  sessions give two connections of which either may be the best or pruned;
  `Reset` happens once, at any point, with one session after it (it leaves
  nothing of the others). `MaxBurst` is two packets after the first message was
  posted, so that the same port or the other one is served again. `MaxPosted` bounds only what other threads and timers
  add to a queue that is not empty; what handlers post is not bounded.
* `Thread`: two threads with a handler each and four calls: two crossing sends
  with a destruction and a socket event, or a stop among posts.
* `TaskRunner`: three tasks in every parent relation and five calls, so that a
  grandchild can be woken after its grandparent was aborted.
* `Service`: nothing is bounded; a ping is polled five times, once a second for the
  code's five seconds.

Deadlock is checked in `connectivity` and `service`. The other systems end: the
sessions or the object are destroyed, everything is delivered, or the calls are
used up (in `threads` the property `NoDeadlock` says what is allowed then).

Every property has a mutant in `PROJECT.json`: a plausible slip in one
definition that makes the property fail.

## Fairness

`Session!Fairness`: signaling threads run their queues, timers fire, the server
delivers what it does not lose, a send task times out after 15 seconds, and a
channel whose peer is gone stops being writable (the pings of `Connection` time
out). Nothing is assumed of the clients: they may never answer or hang up.

`PseudoTcpChannel!Fairness`: threads release the lock and run their messages.
Bodies that need `cs_` get strong fairness, because other threads can take it
again and again; a pthread mutex with bounded critical sections gives that in
practice. `Drain`: a connection that shuts down gracefully is acknowledged or
given up (retransmissions are counted, a closed window is probed for 15 s of
silence); a peer that answers probes for ever without reading would break it.

`Service!Fairness`: the service's thread and its tasks run, one `OnSocketRead` ends
(the server does not send faster for ever than the bytes are read), and so does
the destructor of `TalkClient`, which `ServiceEnds` takes as one step. The delayed messages get strong fairness: each becomes due, and the queue
is first in, first out, so that it is handled although the thread is often busy
when TLC looks. Nothing is assumed of the server or the application: the
liveness of the service has to come from its own timers.

The other modules state safety only. `NothingStuck`, `KeepsTrying`,
`NoLostWakeUp` and `NoLostWake` are the safety side of progress: whenever
something is left to do, a timer, a packet or a posted message is left to do it.

## What is proved

Each theorem is of the form `Spec => []P`, for every value of the constants that
meets the module's assumption: any number of threads, handlers, tasks, candidates,
calls, faults, bytes and posted messages, where TLC has a few. Every invariant that
a passing run checks is proved; each inductive invariant was model-checked on the
bounds of its run before it was proved.

Proofs go action by action: lemmas say what each action does to the part of the
state that the invariant talks about, then there is one step per conjunct that the
action can disturb. The inductive invariants are part of the model modules
(sections "The inductive invariant").

`SessionProofs`, from `SessionAssumption`:

* `TypeCorrect`: `Spec => []TypeOK`.
* `CallInvariant`: `Spec => []CallInv`. `Agreement` is not inductive: that the
  caller has seen an accept says nothing about the accept on its way. `OfferInv`
  (at most one offer in flight, and only while the callee has no session) and
  `AnswerInv` (an answer in flight is the one given, each end visits only the
  states of its role) make it so; `IdleInv` says that a session that does not
  exist owns nothing, so that its remains cannot act. TLC checks `CallInv` too.
* `AgreementHolds`: `Spec => []Agreement`, from the above.
* `SessionImplementsCall`: `Spec => C!Spec`. Each action is shown to be a step of
  `Call` or to leave the phases alone, using `CallInv` for the steps that need
  to know where the other end is (an accept that arrives implies the answer).

* `QueueInvariant`. What is posted, when the timer runs and where a candidate is
  depend on each other: a state is transient only with its MSG_STATE in the queue
  (`TransientPosted`), an error waits for its MSG_ERROR (`ErrorsHandled`), a
  channel that is not writable has the timer or the message that will set it
  (`WatchdogHolds`; `WatchInv` adds what the cached `writable` may be).
* `TerminationFinal`, the action property: no handler moves a terminated session on.
* `CandidatesHeldBack`, `CandidatesKept`: `HeldInv`, `RouteInv` and `ChannelInv`
  say where stanzas for whom may be while the caller has no acknowledgement, so
  that a redirect or a bounce does not let candidates overtake the initiate.

`ServiceProofs`, from `ServiceAssumption`: `LoginOverTls` (`TlsInv` says in which
states of the login the stream is encrypted or dead) and `StatusTrue` (`StatusInv`
relates the reported status to the engine, to what is in the middle of a read and
to the messages in the queue).

`TaskRunnerProofs`, from `TaskAssumption`: `NothingDangles`, `NoWakeLost`,
`ChildrenAreEnded`. `TreeInv` relates parents, lists of children and the flags of
a task; `ScanInv` says where `RunTasks` is: what it has passed is blocked, or it
will go round once more.

`PseudoTcpChannelProofs`, under `~CloseEarly` (the owner waits for the stream to
open or to be closed, as `cif/` does; without it `NoDanglingUse` and
`DeletedClean` fail, see below): `PointersValid`, `PurgeIsLast`, `ClockIsSet`,
`DataIsAnnounced`, `CloseIsHeardOnce`, and, also under `~OtherTunnels`,
`DeletedLast`. `LifeInv` is the order in which the pointers are cleared and the
messages of the three threads follow each other; `ReadInv` says who will tell the
reader; `OnceInv` that an SE_CLOSE which is posted or was heard leaves no other
source able to tell the owner again; `DeletedInv` what is left at the deletion.

`P2PTransportChannelProofs`, from `ChannelAssumption` (the kinds of ports and the
addresses are finite sets): `ChannelInvariant`, and from it `NothingOutlived`,
`WritableFollowsBest`, `NeverGivesUp`, `UselessReclaimed`. The methods are
operators on the channel, so most lemmas are about them: what a method leaves of
the pointers, the posted messages and the flags, which the handlers combine.

`ThreadProofs`, from `ThreadAssumption`, for every number of threads and depth of
nested calls:

* `ThreadTypes`: the types, and which call is made from which (`StackInv`).
* `QueuesConsistent`: `LockInv`, `HandlerInv`, `StopInv` and `WakeInv`. A message
  is queued only for a handler that exists or whose destructor has yet to come to
  that queue, which needs the order of the locks of the queues and the manager.
  Hence `NothingStale`; and `NoWakeUpLost`, because a wake-up that a `Send` has
  consumed is passed on.
* `SendsConsistent`: `IdInv` (a sent message is in one place), `SendInv` (its
  `Send` goes on until it is reported, and what a handler sends is younger than
  what it handles) and `AnswerInv` (a report comes with a wake-up). Hence
  `ReadyFlagLives`.
* `NobodyWaitsForEver`: `Spec => []NoDeadlock`. If all threads are blocked no lock
  is held; of the threads that wait in `Send` take the one with the youngest
  message: its receiver would be awake, or wait in a `Send` of its own that is
  younger still. `WFMin` gives the youngest.

`PseudoTcpProofs`, from `PseudoTcpAssumption` (sizes are positive and the send
buffer is larger than the receive buffer by more than a byte, as in the code), for
every size of the buffers and segments, every load, MTU and number of faults:

* `Invariant`: `Spec => []IInv`, and `TypesKept`. The connect code is byte 0 and the
  n-th byte of data has the value n, so `IInv` can say of every place what is there:
  in the send buffer and its segments (`Tiled`), in the receive buffer and the
  segments saved out of order (`Buffered`), and in a packet, however old
  (`Carries`). `Flow` and `Acks` relate the two ends: what is acknowledged, received
  and sent are in that order, and no window, known or on its way, reaches past the
  room the receiver has. An acknowledgement never falls inside a segment
  (`Uncut`): the code would shorten such a segment and keep its number, and
  `transmit` would then read the wrong bytes. `Opened` is the handshake,
  `Informed` what an owner knows.
* `ReadsPrefix`, `SegmentsTile`, `HonoursWindow`, `ClosesFlushed`, `NeverStuck`: the
  five invariants of the run, from `IInv`.
* The argument follows the calls. For each method of `PseudoTcp` a lemma says what it
  leaves of an object that is in step with its peer (`Live`, `Linked`): `transmit`,
  `packet`, `attemptSend`, `queue`, the parts of `process`. From these come one lemma
  for each public method, and one for each action with what `AdjustClock`
  and the owner do after it. The loop of `attemptSend`, the segments that an
  acknowledgement frees and the saved segments that are joined are recursive
  functions over an interval; that each exists, and what holds after each turn,
  is shown by taking the least turn for which it would fail (`LeastNat`, `UpTo`).

Only model-checked:

* liveness (`NoHalfOpen`, `Reclaimed` of `PseudoTcpChannel`, `OwnerHears`,
  `CloseReturns`, `LoginEnds`, `SilenceNoticed`, `RestartReturns`), which is out of
  the prover's reach.

## Findings

`tunnel_declined`: the comment of the class says that a `PseudoTcpChannel` is
"destroyed when worker_thread_ and stream_ are both gone"
(`pseudotcpchannel.cc:94-95`). A responder that declines, or whose peer hangs up
before it accepts, has made neither; `OnSessionTerminate` (190) clears `session_`
and does not call `CheckDestroy`, and there is no stream whose `Close` would. The
object stays. For an object whose stream was closed the promise holds (`Reclaimed`).

`task_timeout`: `task.h` defines a timeout as staying blocked longer than
`timeout_seconds_`. `ResetTimeout` subtracts 0xFFFFFFFF from a time past the end of
the 32-bit clock, and `TimedOut` compares `CurrentTime() >= timeout_time_`: for
the last `timeout_seconds_` before the clock wraps (every 49.7 days) a task that
has just set its timeout has timed out.

## Observations

Things met while modelling that no run asserts, each at its line.

Sessions and tunnels

* `transport.h:151` speaks of "current and future channels"; `ConnectChannels_w`
  (`transport.cc:180`) returns early without a channel and forgets the request.
* `PseudoTcpChannel` posts the message that deletes it while it holds `cs_`
  (`pseudotcpchannel.cc:542`), and the handler (484) takes no lock.
* `Connect` holds `cs_` while it waits for the worker (`pseudotcpchannel.cc:133`):
  a stream call on the worker at that moment waits for itself. `cif/` closes a
  stream only after it opened or was closed.
* With `CloseEarly` TRUE a stream that is closed before the session connects
  deletes the channel while `session_` is set (the ASSERT at
  `pseudotcpchannel.cc:116`); `cif/` destroys the session instead.
* `FindSessionByStream` calls `GetStream` on every tunnel and so makes a new
  stream for one that is going away: against the ASSERT of `GetStream` that the
  session is there (`pseudotcpchannel.cc:161`) and, later, the one of the
  destructor that no stream is left (118). `DeletedClean` is therefore checked and
  proved for a client with one tunnel.

* `SessionManager::TerminateAll` loops until `session_map_` is empty, but `Terminate`
  only posts the message that removes a session (`sessionmanager.cc:127`); nothing
  calls it. A session id that is already in the map is overwritten (96).
* One MSG_TIMEOUT serves all transports of a session (`session.cc:571`): with
  several contents one that becomes writable clears the timer of another.

Connectivity

* `HandleWritable` says "Stop further allocations", but an `OnSignalingReady` that
  comes later posts MSG_ALLOCATE all the same (933-939).
* A connection whose deletion is posted may hear a packet in the same wait for
  the sockets; it is deleted although it is readable again.
* `readable_` stays TRUE when the last readable connection is destroyed before a
  sort.
* `Reset` and a later `Connect` each start a chain of MSG_PING.
* A pruned connection may become the best one again, and `OnUnknownAddress` marks
  the connections of ports that did not receive the packet as readable.
* `Prune` clears the request manager without deleting its requests.
* `SendPacket` uses `best_connection_` on the caller's thread without a lock (495).

Service

* `xmpp_service_wait` documents seconds and passes its argument as milliseconds.
* READY and the next ping may fall due while the queue is drained after `Quit`
  and then use a deleted `XmppClient` (`talkclient.cc:267`); READY may so be
  reported after CLOSED. `xmpp_lasterror` has the same use.
* The service becomes READY, and is supervised by pings, only after a jingle-info
  answer whose relay host is resolved; without it an OPEN service is not
  supervised, and a second push runs `InitClientStage2` again (the model takes the
  first answer or push only).
* `XmppNotify::Reset` runs on the new thread and forgets listeners that were
  registered right after `xmpp_service_start`; `xmpp_service_start` from a status
  callback would join its own thread.
* `XmppSocket::Close` does nothing once TLS is open.

Threads and tasks

* `Join` does not receive sends: a thread that sends to the one that joins it
  waits for ever. `NoDeadlock` names this case.
* A `Get` that found its queue empty may end on `Quit` with messages posted in
  between; `~Thread` clears them.
* `PhysicalSocketServer::Wait` holds its lock while it runs the handlers of its
  sockets (`physicalsocketserver.cc:1305`).
* `Error` or `Wake` of a task inside its own `Process` is undone when that returns
  STATE_BLOCKED (`task.cc:192`); `NoLostWake` says nothing of such a task.
* `next_timeout_task_` is not always the earliest after a timeout is set again,
  and nothing in this program calls `PollTasks`.

## Plan

1. `p2p_session_t` in `cif/` (create, connect, close from the application's
   threads), composed with the tunnel.
2. `SessionManager` with several sessions and contents: id collisions,
   `TerminateAll`, the shared MSG_TIMEOUT.
3. The phases of the port allocators; several generations of candidates.

## Not modelled

* Formatting, parsing and I/O: XML (`xmllite`, session messages), STUN encoding,
  sockets, proxies, SSL adapters, HTTP, streams, logging, string and path
  helpers. They hold most of `talk/base`.
* Voice and video (`session/phone`), sound, the examples and the vendored code
  (expat, srtp): most of the repository's lines, none of them built into the
  library. So the models cover a small share of all lines, and nearly all of the
  control of the path that the C interface uses.
* Of the parts that are built: relay ports and servers, the phases of the
  allocators, `SignalThread`, the secure tunnel's handshake, the choice of
  transports by the offer, roster, presence and chat, `p2p_session_t`.
* Wrap-around of PseudoTcp's sequence numbers: the code does not handle it.
