------------------------ MODULE P2PTransportChannel -------------------------
(***************************************************************************)
(* One end of a P2PTransportChannel (talk/p2p/base/p2ptransportchannel.cc)  *)
(* with the Ports its allocator sessions make, the Connections between a   *)
(* port and a remote address (port.cc) and the STUN requests of a          *)
(* connection (stunrequest.cc).  All of them live on the worker thread; the *)
(* other end, the network and the signaling thread are the environment.    *)
(*                                                                         *)
(* ch is the channel, a record whose fields have the names of the members, *)
(* with the connections in ch.conn, the ports in ch.port, the worker's     *)
(* message queue in ch.posted and its delayed messages in ch.delayed.      *)
(* The methods are operators from such a record to the one they leave.     *)
(*                                                                         *)
(* MessageQueue::Get waits for sockets only when no message is posted, and *)
(* PhysicalSocketServer::Wait then serves every socket that is ready.  A   *)
(* message that is posted meanwhile ends Wait, but only after the next of  *)
(* its passes over the sockets, so that some packets are handled before    *)
(* it: not more than two for each port in the code, and not more than      *)
(* MaxBurst in all here.                                                   *)
(*                                                                         *)
(* Time is left out: a delayed message may be due and a connection may     *)
(* have been silent for too long at any moment, unless it was just heard.  *)
(* Round-trip times are left out too: of equally preferred connections any *)
(* may be the fastest.  All remote candidates are of one generation; TCP   *)
(* (connected_, incoming_only_) is left out and the ports are compatible.  *)
(***************************************************************************)
EXTENDS Integers, Sequences, FiniteSets, SequencesExt, MessageQueue

CONSTANTS
  Kinds,      \* the ports one allocator session makes
  NetworkOf,  \* NetworkOf[k]: the network of port kind k
  Preference, \* Preference[k]: its preference
  Addr,       \* remote addresses
  UserOf,     \* UserOf[a]: the candidate address whose username is used at a
  MaxSessions,\* allocator sessions, one less after each Reset
  MaxResets,  \* calls of Reset
  MaxPosted,  \* messages in the queue when another thread or timer adds one
  MaxBurst    \* packets that Wait handles while a message is posted

ASSUME ChannelAssumption ==
  /\ IsFiniteSet(Kinds) /\ IsFiniteSet(Addr)
  /\ NetworkOf \in [Kinds -> STRING] /\ Preference \in [Kinds -> Nat]
  /\ UserOf \in [Addr -> Addr]
  /\ {MaxSessions, MaxPosted, MaxBurst} \subseteq Nat \ {0} /\ MaxResets \in Nat

VARIABLES
  ch,        \* the channel
  signaling, \* SignalRequestSignaling was raised and not answered
  served,    \* packets that Wait has handled since a message was posted
  resets     \* calls of Reset so far

vars == <<ch, signaling, served, resets>>

None == <<>>
Port == (1..MaxSessions) \X Kinds
Conn == Port \X Addr
Network(c) == NetworkOf[c[1][2]]
Candidates == {UserOf[a] : a \in Addr}      \* the addresses that are signalled

(* Connection::Connection.                                                  *)
NewConnection ==
  [read |-> "TIMEOUT", write |-> "CONNECT", pruned |-> FALSE, pings |-> FALSE, req |-> FALSE]
Useless(r) == r.read = "TIMEOUT" /\ r.write = "TIMEOUT"

(* P2PTransportChannel::P2PTransportChannel; sessions holds the state of    *)
(* each allocator session.                                                  *)
NewChannel ==
  [conn |-> <<>>, port |-> <<>>, ports |-> {}, best |-> None, remote |-> {}, sessions |-> <<>>,
   writable |-> FALSE, readable |-> FALSE, waiting |-> FALSE, pinging |-> FALSE,
   dirty |-> FALSE, was_writable |-> FALSE, was_timed_out |-> TRUE,
   connected |-> FALSE, posted |-> <<>>, delayed |-> {}]

Post(c, m) == [c EXCEPT !.posted = Append(@, m)]
PostDelayed(c, m) == [c EXCEPT !.delayed = @ \cup {m}]
Clear(c, m) == [c EXCEPT !.posted = Cleared(@, {m}), !.delayed = @ \ {m}]

-----------------------------------------------------------------------------
(* Connections.                                                             *)

RequestSort(c) == IF c.dirty THEN c ELSE Post([c EXCEPT !.dirty = TRUE], <<"SORT">>)

(* set_read_state and set_write_state for any number of connections: a      *)
(* change is signalled, and CheckTimeout posts the end of a connection that *)
(* became useless.                                                          *)
SetStates(c, conn) ==
  LET changed == {k \in DOMAIN conn : \/ conn[k].read # c.conn[k].read
                                      \/ conn[k].write # c.conn[k].write}
      dead == SetToSeq({<<"DELETE", k>> : k \in {x \in changed : Useless(conn[x])}})
      d == [c EXCEPT !.conn = conn]
  IN  IF changed = {} THEN d
      ELSE [RequestSort(d) EXCEPT !.posted = @ \o dead]

(* Connection::UpdateState of every connection: those in r were not pinged  *)
(* for too long, those in w had too many pings fail, those in t waited too  *)
(* long for an answer.                                                      *)
Silent(c, fresh) == {k \in DOMAIN c.conn \ fresh : c.conn[k].read = "READABLE"}
Failing(c) == {k \in DOMAIN c.conn : c.conn[k].write = "WRITABLE" /\ c.conn[k].pings}
Stalled(c, w) == {k \in DOMAIN c.conn : c.conn[k].write = "CONNECT" /\ c.conn[k].pings} \cup w
UpdateConnectionStates(c, r, w, t) ==
  SetStates(c, [k \in DOMAIN c.conn |->
                  [c.conn[k] EXCEPT !.read = IF k \in r THEN "TIMEOUT" ELSE @,
                                    !.write = IF k \in t THEN "TIMEOUT"
                                              ELSE IF k \in w THEN "CONNECT" ELSE @]])

(* Connection::Prune: the requests are dropped, so that no late answer      *)
(* makes the connection writable.                                           *)
Prune(c, ks) ==
  SetStates(c, [k \in DOMAIN c.conn |->
                  IF k \in ks /\ ~c.conn[k].pruned
                    THEN [c.conn[k] EXCEPT !.pruned = TRUE, !.req = FALSE, !.write = "TIMEOUT"]
                    ELSE c.conn[k]])

(* Connection::ReceivedPing.                                                *)
ReceivedPing(c, ks) ==
  SetStates(c, [k \in DOMAIN c.conn |->
                  IF k \in ks THEN [c.conn[k] EXCEPT !.read = "READABLE"] ELSE c.conn[k]])

(* A connection that was given up is tried again when the peer uses it.     *)
TryAgain(c, k) ==
  IF ~c.conn[k].pruned /\ c.conn[k].write = "TIMEOUT"
    THEN SetStates(c, [c.conn EXCEPT ![k].write = "CONNECT"]) ELSE c

(* CompareConnectionCandidates: static preference, then the generation; the *)
(* remote candidates are all equally preferred.                             *)
Prefers(k, l) ==
  LET p == Preference[k[1][2]]
      q == Preference[l[1][2]]
  IN  p > q \/ (p = q /\ k[1][1] >= l[1][1])

(* CompareConnections.                                                      *)
Rank(c, k) == CASE c.conn[k].write = "WRITABLE" -> 2
                [] c.conn[k].write = "CONNECT" -> 1
                [] OTHER -> 0
NotWorse(c, k, l) == Rank(c, k) > Rank(c, l) \/ (Rank(c, k) = Rank(c, l) /\ Prefers(k, l))
Top(c, ks) == {k \in ks : \A l \in ks : NotWorse(c, k, l)}

-----------------------------------------------------------------------------
(* The channel.                                                             *)

(* Allocate, without SignalRequestSignaling: see Step.                      *)
Allocate(c) == [Clear(c, <<"ALLOCATE">>) EXCEPT !.waiting = TRUE]

(* IsGettingAllPorts and StopGetAllPorts.                                   *)
StopGetAllPorts(ss) == [g \in DOMAIN ss |-> IF ss[g] = "getting" THEN "stopped" ELSE ss[g]]

HandleWritable(c) ==
  LET d == IF c.writable THEN c
           ELSE [Clear(c, <<"ALLOCATE">>) EXCEPT !.sessions = StopGetAllPorts(@)]
  IN  [d EXCEPT !.was_writable = TRUE, !.was_timed_out = FALSE, !.writable = TRUE]

HandleNotWritable(c) ==
  LET d == IF c.was_writable THEN Allocate([c EXCEPT !.was_writable = FALSE]) ELSE c
  IN  [d EXCEPT !.was_timed_out = FALSE, !.writable = FALSE]

(* Mutant: no new session when everything times out at once.                *)
HandleAllTimedOutIdle(c) ==
  [c EXCEPT !.was_timed_out = TRUE, !.was_writable = FALSE, !.writable = FALSE]

HandleAllTimedOut(c) ==
  LET d == IF ~c.was_timed_out THEN Allocate(c) ELSE c
  IN  [d EXCEPT !.was_timed_out = TRUE, !.was_writable = FALSE, !.writable = FALSE]

(* UpdateChannelState.                                                      *)
UpdateChannelState(c) ==
  [c EXCEPT !.readable = \E k \in DOMAIN c.conn : c.conn[k].read = "READABLE"]

(* SwitchBestConnectionTo(top) if ShouldSwitch: among equals the top one is *)
(* never slower, so that the code always switches.                          *)
SwitchBest(c, top) ==
  IF c.best # None /\ top # None /\ ~NotWorse(c, top, c.best) THEN c
  ELSE [c EXCEPT !.best = top]

(* Whom the best connection of a network dominates: GetBestConnectionOn-    *)
(* Network is the best connection if it is there, or the first one.         *)
Dominated(c, first) ==
  UNION {LET p == IF c.best # None /\ Network(c.best) = n THEN c.best ELSE first[n]
         IN  IF c.conn[p].write # "WRITABLE" THEN {}
             ELSE {k \in DOMAIN c.conn \ {p} : Network(k) = n /\ Prefers(p, k)}
         : n \in DOMAIN first}

(* SortConnections after UpdateConnectionStates: top is the first of the    *)
(* sorted connections and first[n] the first one on network n.              *)
Sorted(c, top, first) ==
  LET b == SwitchBest([c EXCEPT !.dirty = FALSE], top)
      d == Prune(b, Dominated(b, first))
      writes == {d.conn[k].write : k \in DOMAIN d.conn}
  IN  UpdateChannelState(IF "WRITABLE" \in writes THEN HandleWritable(d)
                         ELSE IF "CONNECT" \in writes THEN HandleNotWritable(d)
                         ELSE HandleAllTimedOut(d))

Networks(c) == {Network(k) : k \in DOMAIN c.conn}
Firsts(c) ==
  {f \in [Networks(c) -> DOMAIN c.conn] :
     \A n \in Networks(c) : f[n] \in Top(c, {k \in DOMAIN c.conn : Network(k) = n})}
Tops(c, f) == IF Networks(c) = {} THEN {None} ELSE Top(c, {f[n] : n \in Networks(c)})

(* The channels UpdateConnectionStates and SortConnections may leave; the   *)
(* connections in fresh were heard from in the same call.                   *)
Updated(c, fresh) ==
  UNION {{UpdateConnectionStates(c, r, w, t) :
            r \in SUBSET Silent(c, fresh), t \in SUBSET Stalled(c, w)} : w \in SUBSET Failing(c)}
SortConnections(c, fresh) ==
  UNION {UNION {{Sorted(u, top, f) : top \in Tops(u, f)} : f \in Firsts(u)}
         : u \in Updated(c, fresh)}

(* CreateConnection from each of the ports ps to address a.                 *)
CreateConnections(c, ps, a) ==
  [c EXCEPT !.conn = [k \in DOMAIN c.conn \cup {<<p, a>> : p \in ps} |->
                        IF k \in DOMAIN c.conn THEN c.conn[k] ELSE NewConnection]]

(* StartGetAllPorts: the ports of the sessions gs have begun official use.  *)
StartGetAllPorts(c, gs) ==
  LET ps == {p \in DOMAIN c.port : p[1] \in gs /\ c.port[p] = "PRESTART"}
  IN  [c EXCEPT !.sessions = [g \in DOMAIN c.sessions |-> IF g \in gs THEN "getting" ELSE @[g]],
                !.port = [p \in DOMAIN c.port |-> IF p \in ps THEN "PRETIMEOUT" ELSE @[p]],
                !.delayed = @ \cup {<<"CHECKTIMEOUT", p>> : p \in ps}]

(* RememberRemoteCandidate: the first one starts the search for all ports.  *)
RememberRemoteCandidate(c, a) ==
  LET d == [c EXCEPT !.remote = @ \cup {a}, !.pinging = TRUE]
  IN  IF c.pinging THEN d
      ELSE StartGetAllPorts(d, {g \in DOMAIN c.sessions : c.sessions[g] # "getting"})

(* Port::CheckTimeout: a port past its time without connections is gone.    *)
PortsGone(c) ==
  LET gone == {p \in DOMAIN c.port : /\ c.port[p] = "POSTTIMEOUT"
                                     /\ \A k \in DOMAIN c.conn : k[1] # p}
  IN  [c EXCEPT !.port = [p \in DOMAIN c.port \ gone |-> @[p]], !.ports = @ \ gone]

-----------------------------------------------------------------------------
(* A call on the worker thread leaves channel c.  One that waits for        *)
(* signaling after Allocate has raised SignalRequestSignaling.              *)
Leave(c) ==
  /\ ch' = c
  /\ signaling' = (signaling \/ (c.waiting /\ ~ch.waiting))

(* A call while no packet is being handled.                                 *)
Step(c) == Leave(c) /\ served' = (IF c.posted = <<>> THEN 0 ELSE MaxBurst) /\ UNCHANGED resets

(* Another thread posts a message while Wait may be in select, with one of  *)
(* its two passes left.                                                     *)
Interrupts == served' = IF ch.posted = <<>> THEN MaxBurst \div 2 ELSE served

(* The head of the queue is a message m.                                    *)
Handles(m) == ch.posted # <<>> /\ Head(ch.posted) = m
Rest == [ch EXCEPT !.posted = Tail(@)]

(* Connect and Reset are sent by the signaling thread.  ResetChannels_w has *)
(* withdrawn the request to connect, so that Reset does not allocate; it    *)
(* leaves nothing of the connections, the ports or their messages and those *)
(* of the channel.  What Transport has posted stays.                        *)
TransportMessage == {<<"SIGNALINGREADY">>} \cup {<<"CANDIDATE", a>> : a \in Candidates}
Connect ==
  /\ ~ch.connected
  /\ Step(Post(Allocate([ch EXCEPT !.connected = TRUE]), <<"PING", "Connect">>))

Reset ==
  /\ resets < MaxResets
  /\ ch.connected
  /\ LET own  == Range(ch.posted) \ TransportMessage
         left == [NewChannel EXCEPT !.posted = Cleared(ch.posted, own)]
     IN  ch' = Post(left, <<"PING", "Reset">>)
  /\ served' = MaxBurst
  /\ resets' = resets + 1
  /\ UNCHANGED signaling

(* A delayed message is due: Wait has timed out.                            *)
Due ==
  /\ Len(ch.posted) < MaxPosted
  /\ \E m \in ch.delayed : ch' = Post([ch EXCEPT !.delayed = @ \ {m}], m)
  /\ served' = IF ch.posted = <<>> THEN MaxBurst ELSE served
  /\ UNCHANGED <<signaling, resets>>

(* Transport posts that signaling is ready, or a remote candidate.  After   *)
(* the last session (MaxSessions) the channel waits for signaling.          *)
SignalingReady ==
  /\ signaling /\ Len(ch.posted) < MaxPosted /\ Len(ch.sessions) + resets < MaxSessions
  /\ ch' = Post(ch, <<"SIGNALINGREADY">>)
  /\ Interrupts
  /\ signaling' = FALSE
  /\ UNCHANGED resets

RemoteCandidate(a) ==
  /\ ch.connected
  /\ Len(ch.posted) < MaxPosted /\ <<"CANDIDATE", a>> \notin Range(ch.posted)
  /\ ch' = Post(ch, <<"CANDIDATE", a>>)
  /\ Interrupts
  /\ UNCHANGED <<signaling, resets>>

(* OnSignalingReady: a new session replaces the ports of the others.        *)
OnSignalingReady ==
  /\ Handles(<<"SIGNALINGREADY">>)
  /\ IF ~ch.waiting \/ Len(ch.sessions) + resets >= MaxSessions THEN Step(Rest)
     ELSE LET n == Len(ch.sessions) + 1
              c == [Rest EXCEPT !.waiting = FALSE, !.ports = {},
                                !.sessions = Append(@, IF ch.pinging THEN "getting" ELSE "new")]
          IN  Step(PostDelayed(c, <<"ALLOCATE">>))

OnAllocate == Handles(<<"ALLOCATE">>) /\ Step(Allocate(Rest))

OnSort ==
  /\ Handles(<<"SORT">>)
  /\ \E c \in SortConnections(Rest, {}) : Step(c)

(* IsPingable, and OnPing: the one not pinged for longest is pinged, which  *)
(* any of them may be.                                                      *)
IsPingable(c, k) ==
  c.conn[k].write # "TIMEOUT" \/ (~c.writable /\ c.conn[k].read # "TIMEOUT")
Ping(c, k) == [c EXCEPT !.conn[k].pings = TRUE, !.conn[k].req = TRUE]
OnPing(chain) ==
  /\ Handles(<<"PING", chain>>)
  /\ \E c \in Updated(Rest, {}) :
       LET ks == {k \in DOMAIN c.conn : IsPingable(c, k)}
       IN  IF ks = {} THEN Step(PostDelayed(c, <<"PING", chain>>))
           ELSE \E k \in ks : Step(PostDelayed(Ping(c, k), <<"PING", chain>>))

(* OnCandidate.                                                             *)
OnCandidate(a) ==
  /\ Handles(<<"CANDIDATE", a>>)
  /\ \E c \in SortConnections(
                RememberRemoteCandidate(CreateConnections(Rest, ch.ports, a), a), {}) : Step(c)

(* Mutants: the best connection is not forgotten; nothing is sorted without *)
(* it; the port is not asked whether it is still of use.                    *)
OnDeleteKeepsBest(k) ==
  /\ Handles(<<"DELETE", k>>)
  /\ Step(PortsGone([Rest EXCEPT !.conn = [l \in DOMAIN @ \ {k} |-> @[l]],
                                 !.posted = Cleared(@, {<<"DELETE", k>>})]))
OnDeleteNoSort(k) ==
  /\ Handles(<<"DELETE", k>>)
  /\ Step(PortsGone([Rest EXCEPT !.conn = [l \in DOMAIN @ \ {k} |-> @[l]],
                                 !.posted = Cleared(@, {<<"DELETE", k>>}),
                                 !.best = IF @ = k THEN None ELSE @]))
OnDeleteKeepsPort(k) ==
  /\ Handles(<<"DELETE", k>>)
  /\ LET c == [Rest EXCEPT !.conn = [l \in DOMAIN @ \ {k} |-> @[l]],
                           !.posted = Cleared(@, {<<"DELETE", k>>})]
     IN  Step(IF c.best = k THEN RequestSort([c EXCEPT !.best = None]) ELSE c)

(* Connection::OnMessage: the connection is gone, and with it perhaps its   *)
(* port; without a best connection the others are sorted.                   *)
OnDelete(k) ==
  /\ Handles(<<"DELETE", k>>)
  /\ LET c == PortsGone([Rest EXCEPT !.conn = [l \in DOMAIN @ \ {k} |-> @[l]],
                                     !.posted = Cleared(@, {<<"DELETE", k>>})])
     IN  Step(IF c.best = k THEN RequestSort([c EXCEPT !.best = None]) ELSE c)

(* Port::OnMessage.                                                         *)
OnCheckTimeout(p) ==
  /\ Handles(<<"CHECKTIMEOUT", p>>)
  /\ Step(PortsGone([Rest EXCEPT !.port[p] = "POSTTIMEOUT"]))

(* OnPortReady, from a message or a packet of the allocator session: a port *)
(* that was made while its session was running has been started.            *)
OnPortReady(p, life) ==
  /\ p[1] \in DOMAIN ch.sessions /\ p \notin DOMAIN ch.port
  /\ life \in CASE ch.sessions[p[1]] = "new" -> {"PRESTART"}
                [] ch.sessions[p[1]] = "getting" -> {"PRETIMEOUT"}
                [] OTHER -> {"PRESTART", "PRETIMEOUT"}
  /\ LET c == [ch EXCEPT !.port = [q \in DOMAIN @ \cup {p} |-> IF q = p THEN life ELSE @[q]],
                         !.ports = @ \cup {p},
                         !.conn = [k \in DOMAIN @ \cup ({p} \X ch.remote) |->
                                     IF k \in DOMAIN @ THEN @[k] ELSE NewConnection]]
         d == IF life = "PRETIMEOUT" THEN PostDelayed(c, <<"CHECKTIMEOUT", p>>) ELSE c
     IN  \E e \in SortConnections(d, {}) : Step(e)

-----------------------------------------------------------------------------
(* A packet comes in at port p.                                             *)
Served(p) ==
  /\ p \in DOMAIN ch.port /\ served < MaxBurst
  /\ served' = IF ch'.posted = <<>> THEN 0 ELSE served + 1
  /\ UNCHANGED resets

(* A ping from a known address is answered.                                 *)
OnBindingRequest(k) ==
  /\ k \in DOMAIN ch.conn
  /\ Leave(TryAgain(ReceivedPing(ch, {k}), k))
  /\ Served(k[1])

(* OnUnknownAddress: connections to it are made from every port, and all of *)
(* them count as pinged.  A username that was not signalled is refused.     *)
OnUnknownAddress(p, a) ==
  /\ <<p, a>> \notin DOMAIN ch.conn
  /\ UserOf[a] \in {UserOf[b] : b \in ch.remote}
  /\ LET ps == ch.ports \cup {p}
         ks == {<<q, a>> : q \in ps}
         c == ReceivedPing(CreateConnections(ch, ps, a), ks)
     IN  \E d \in SortConnections(RememberRemoteCandidate(c, a), ks) : Leave(d)
  /\ Served(p)

(* CheckResponse of a request that is outstanding; another may be, too.     *)
OnResponse(k) ==
  /\ k \in DOMAIN ch.conn /\ ch.conn[k].req
  /\ Leave(SetStates(ch, [ch.conn EXCEPT ![k].write = "WRITABLE", ![k].pings = FALSE]))
  /\ Served(k[1])

OnErrorResponse(k, fatal) ==
  /\ k \in DOMAIN ch.conn /\ ch.conn[k].req
  /\ Leave(SetStates(ch, [ch.conn EXCEPT ![k].write = IF fatal THEN "TIMEOUT" ELSE @]))
  /\ Served(k[1])

(* The payload of a readable connection.                                    *)
OnData(k) ==
  /\ k \in DOMAIN ch.conn /\ ch.conn[k].read = "READABLE"
  /\ Leave(TryAgain(ch, k))
  /\ Served(k[1])

(* StunRequest::OnMessage after CONNECTION_RESPONSE_TIMEOUT.                *)
OnRequestTimeout(k) ==
  /\ k \in DOMAIN ch.conn /\ ch.conn[k].req
  /\ ch' = [ch EXCEPT !.conn[k].req = FALSE]
  /\ UNCHANGED <<signaling, served, resets>>

-----------------------------------------------------------------------------
Init ==
  /\ ch = NewChannel
  /\ signaling = FALSE
  /\ served = 0
  /\ resets = 0

Next ==
  \/ Connect
  \/ Reset
  \/ Due
  \/ SignalingReady
  \/ \E a \in Candidates : RemoteCandidate(a)
  \/ OnSignalingReady
  \/ OnAllocate
  \/ OnSort
  \/ \E chain \in {"Connect", "Reset"} : OnPing(chain)
  \/ \E a \in Candidates : OnCandidate(a)
  \/ \E p \in Port : OnCheckTimeout(p)
  \/ \E p \in Port, life \in {"PRESTART", "PRETIMEOUT"} : OnPortReady(p, life)
  \/ \E p \in Port, a \in Addr : OnUnknownAddress(p, a)
  \/ \E k \in Conn :
       \/ OnDelete(k)
       \/ OnBindingRequest(k)
       \/ OnResponse(k)
       \/ \E fatal \in BOOLEAN : OnErrorResponse(k, fatal)
       \/ OnData(k)
       \/ OnRequestTimeout(k)

Spec == Init /\ [][Next]_vars
-----------------------------------------------------------------------------
(* The states of the objects and the messages.                              *)
Connection ==
  [read : {"READABLE", "TIMEOUT"}, write : {"CONNECT", "WRITABLE", "TIMEOUT"},
   pruned : BOOLEAN, pings : BOOLEAN, req : BOOLEAN]
Connections == UNION {[ks -> Connection] : ks \in SUBSET Conn}
Ports == UNION {[ps -> {"PRESTART", "PRETIMEOUT", "POSTTIMEOUT"}] : ps \in SUBSET Port}
Message ==
  {<<"SORT">>, <<"ALLOCATE">>, <<"SIGNALINGREADY">>}
    \cup ({"PING"} \X {"Connect", "Reset"}) \cup ({"CANDIDATE"} \X Candidates)
    \cup ({"DELETE"} \X Conn) \cup ({"CHECKTIMEOUT"} \X Port)
Channel ==
  [conn : Connections, port : Ports, ports : SUBSET Port, best : Conn \cup {None},
   remote : SUBSET Addr, sessions : Seq({"new", "getting", "stopped"}),
   writable : BOOLEAN, readable : BOOLEAN, waiting : BOOLEAN, pinging : BOOLEAN,
   dirty : BOOLEAN, was_writable : BOOLEAN, was_timed_out : BOOLEAN,
   connected : BOOLEAN, posted : Seq(Message), delayed : SUBSET Message]

TypeOK ==
  /\ ch \in Channel
  /\ signaling \in BOOLEAN
  /\ served \in 0..MaxBurst
  /\ resets \in Nat

Pending(c, m) == Queued(c.posted, m) \/ m \in c.delayed

(* The parts of the inductive invariant, of any channel c.                  *)

(* Pointers and the handlers of messages exist.                             *)
Pointers(c) ==
  /\ c.best = None \/ c.best \in DOMAIN c.conn
  /\ \A k \in DOMAIN c.conn : k[1] \in DOMAIN c.port
  /\ c.ports \subseteq DOMAIN c.port

(* A port asks once for its time to be checked, when it is started; a       *)
(* connection posts its own end and never delays it.                        *)
Checks == {<<"CHECKTIMEOUT", p>> : p \in Port}
CheckOnce(c) == \A i, j \in 1..Len(c.posted) :
                  c.posted[i] = c.posted[j] /\ c.posted[i] \in Checks => i = j
Addressed(c) ==
  /\ \A k \in Conn : Queued(c.posted, <<"DELETE", k>>) => k \in DOMAIN c.conn
  /\ \A k \in Conn : <<"DELETE", k>> \notin c.delayed
  /\ \A p \in Port : Pending(c, <<"CHECKTIMEOUT", p>>) =>
                       p \in DOMAIN c.port /\ c.port[p] = "PRETIMEOUT"
  /\ \A p \in Port : Queued(c.posted, <<"CHECKTIMEOUT", p>>) => <<"CHECKTIMEOUT", p>> \notin c.delayed
  /\ CheckOnce(c)

(* What is useless is about to go.                                          *)
ConnectionsEnd(c) ==
  \A k \in DOMAIN c.conn : Useless(c.conn[k]) => Queued(c.posted, <<"DELETE", k>>)
PortsEnd(c) ==
  \A p \in DOMAIN c.port : c.port[p] = "POSTTIMEOUT" => \E k \in DOMAIN c.conn : k[1] = p

(* was_writable_ is the channel's state, and one that was writable has not  *)
(* been told that all timed out.                                            *)
Remembered(c) == (c.was_writable <=> c.writable) /\ (c.writable => ~c.was_timed_out)
Allocating(c) == c.connected => c.writable \/ c.waiting \/ Pending(c, <<"ALLOCATE">>)
Pinging(c) == c.connected => \E x \in {"Connect", "Reset"} : Pending(c, <<"PING", x>>)

Sorting(c) == c.dirty => Queued(c.posted, <<"SORT">>)
BestWritable(c) == c.best # None /\ c.conn[c.best].write = "WRITABLE"

ChannelInv ==
  /\ TypeOK
  /\ Pointers(ch) /\ Addressed(ch) /\ ConnectionsEnd(ch) /\ PortsEnd(ch)
  /\ Remembered(ch) /\ Allocating(ch) /\ Pinging(ch)
  /\ Sorting(ch) /\ (~ch.dirty => (ch.writable <=> BestWritable(ch)))

(* No pointer outlives its object: the best connection, the connections of  *)
(* a port, the ports new candidates are tried on and the handlers of the    *)
(* messages that are queued all exist.                                      *)
NoDangling ==
  /\ ch.best = None \/ ch.best \in DOMAIN ch.conn
  /\ \A k \in DOMAIN ch.conn : k[1] \in DOMAIN ch.port
  /\ ch.ports \subseteq DOMAIN ch.port
  /\ \A k \in Conn : Pending(ch, <<"DELETE", k>>) => k \in DOMAIN ch.conn
  /\ \A p \in Port : Pending(ch, <<"CHECKTIMEOUT", p>>) => p \in DOMAIN ch.port

(* The assertion of UpdateChannelState, at every moment: the channel is     *)
(* writable exactly if its best connection is, unless a sort was requested, *)
(* and then it is queued.                                                   *)
WritableIsBest ==
  /\ ch.dirty => Queued(ch.posted, <<"SORT">>)
  /\ ~ch.dirty => (ch.writable <=> (ch.best # None /\ ch.conn[ch.best].write = "WRITABLE"))

(* A connected channel never gives up: it is always about to ping, and one  *)
(* that is not writable is on its way to new ports, waiting for signaling   *)
(* or about to allocate again.                                              *)
KeepsTrying ==
  ch.connected =>
    /\ \E x \in {"Connect", "Reset"} : Pending(ch, <<"PING", x>>)
    /\ ch.writable \/ ch.waiting \/ Pending(ch, <<"ALLOCATE">>)

(* Nothing useless is kept: the end of a connection that timed out both     *)
(* ways is posted, and a port without connections is gone after its time.   *)
Reclaimed ==
  /\ \A k \in DOMAIN ch.conn : Useless(ch.conn[k]) => Pending(ch, <<"DELETE", k>>)
  /\ \A p \in DOMAIN ch.port :
       ch.port[p] = "POSTTIMEOUT" => \E k \in DOMAIN ch.conn : k[1] = p
=============================================================================
