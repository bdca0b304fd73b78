---------------------- MODULE P2PTransportChannelProofs ----------------------
(***************************************************************************)
(* Proofs about P2PTransportChannel.tla, for any ports, networks and        *)
(* preferences, any remote addresses and any number of sessions, resets and *)
(* messages.                                                                *)
(***************************************************************************)
EXTENDS P2PTransportChannel, MessageQueueProofs

(* What a call may find when it is about to sort, and what it leaves.       *)
Core(c) ==
  /\ c \in Channel
  /\ Pointers(c) /\ Addressed(c) /\ ConnectionsEnd(c) /\ PortsEnd(c)
  /\ Remembered(c) /\ Allocating(c) /\ Pinging(c)
Good(c) == Core(c) /\ Sorting(c) /\ (~c.dirty => (c.writable <=> BestWritable(c)))

-----------------------------------------------------------------------------
(* Types.                                                                   *)

(* A set of connections and of ports are functions on a set of them.        *)
LEMMA Domains ==
  /\ \A f \in Connections : DOMAIN f \subseteq Conn /\ f \in [DOMAIN f -> Connection]
  /\ \A ks \in SUBSET Conn : [ks -> Connection] \subseteq Connections
  /\ \A f \in Ports : /\ DOMAIN f \subseteq Port
                      /\ f \in [DOMAIN f -> {"PRESTART", "PRETIMEOUT", "POSTTIMEOUT"}]
  /\ \A ps \in SUBSET Port :
       [ps -> {"PRESTART", "PRETIMEOUT", "POSTTIMEOUT"}] \subseteq Ports
  BY DEF Connections, Ports

(* The messages, and that those of different kinds differ.                  *)
LEMMA Messages ==
  /\ {<<"SORT">>, <<"ALLOCATE">>, <<"SIGNALINGREADY">>} \subseteq Message
  /\ \A x \in {"Connect", "Reset"} : <<"PING", x>> \in Message
  /\ \A a \in Candidates : <<"CANDIDATE", a>> \in Message
  /\ \A k \in Conn : <<"DELETE", k>> \in Message
  /\ \A p \in Port : <<"CHECKTIMEOUT", p>> \in Message
  BY DEF Message

(* Messages of different kinds differ.                                      *)
LEMMA Distinct ==
  ASSUME NEW x, NEW y
  PROVE  /\ <<"SORT">> # <<"ALLOCATE">> /\ <<"SORT">> # <<"SIGNALINGREADY">>
         /\ <<"ALLOCATE">> # <<"SIGNALINGREADY">>
         /\ \A s \in {"SORT", "ALLOCATE", "SIGNALINGREADY"} :
              /\ <<s>> # <<"PING", x>> /\ <<s>> # <<"CANDIDATE", x>>
              /\ <<s>> # <<"DELETE", x>> /\ <<s>> # <<"CHECKTIMEOUT", x>>
         /\ <<"PING", x>> # <<"CANDIDATE", y>> /\ <<"PING", x>> # <<"DELETE", y>>
         /\ <<"PING", x>> # <<"CHECKTIMEOUT", y>> /\ <<"CANDIDATE", x>> # <<"DELETE", y>>
         /\ <<"CANDIDATE", x>> # <<"CHECKTIMEOUT", y>> /\ <<"DELETE", x>> # <<"CHECKTIMEOUT", y>>
         /\ <<"DELETE", x>> = <<"DELETE", y>> => x = y
         /\ <<"CHECKTIMEOUT", x>> = <<"CHECKTIMEOUT", y>> => x = y
         /\ <<"PING", x>> = <<"PING", y>> => x = y
  OBVIOUS

(* CheckOnce says that no check is queued twice.                            *)
LEMMA CheckedOnce == \A c : CheckOnce(c) <=> Once(c.posted, Checks)
  BY DEF CheckOnce, Once

(* There are finitely many connections.                                     *)
LEMMA FiniteConns == IsFiniteSet(Conn)
<1>1. IsFiniteSet(1..MaxSessions)
  BY ChannelAssumption, FS_Interval
<1>2. IsFiniteSet(Port)
  BY <1>1, ChannelAssumption, FS_Product DEF Port
<1>. QED
  BY <1>2, ChannelAssumption, FS_Product DEF Conn

-----------------------------------------------------------------------------
(* What set_read_state and set_write_state do to a channel.                 *)

(* The fields that they leave alone.                                        *)
Apart(c, d) ==
  /\ d.port = c.port /\ d.ports = c.ports /\ d.best = c.best /\ d.remote = c.remote
  /\ d.sessions = c.sessions /\ d.writable = c.writable /\ d.readable = c.readable
  /\ d.waiting = c.waiting /\ d.pinging = c.pinging /\ d.was_writable = c.was_writable
  /\ d.was_timed_out = c.was_timed_out /\ d.connected = c.connected /\ d.delayed = c.delayed

(* d is c after some of them: messages are only added, a sort whenever a    *)
(* connection changed, the end of a connection when it became useless.      *)
Stirs(c, d) ==
  /\ d \in Channel /\ Apart(c, d)
  /\ DOMAIN d.conn = DOMAIN c.conn
  /\ c.dirty => d.dirty
  /\ ~d.dirty => \A k \in DOMAIN c.conn : d.conn[k].write = c.conn[k].write
  /\ d.dirty /\ ~c.dirty => Queued(d.posted, <<"SORT">>)
  /\ \A m : Queued(c.posted, m) => Queued(d.posted, m)
  /\ \A m : Queued(d.posted, m) =>
       Queued(c.posted, m) \/ m = <<"SORT">> \/ \E k \in DOMAIN c.conn : m = <<"DELETE", k>>
  /\ \A k \in DOMAIN c.conn :
       Useless(d.conn[k]) => Queued(d.posted, <<"DELETE", k>>) \/ Useless(c.conn[k])
  /\ CheckOnce(c) => CheckOnce(d)

(* RequestSort posts at most the sort.                                      *)
LEMMA RequestSortFields ==
  ASSUME NEW c \in Channel
  PROVE  LET d == RequestSort(c) IN
           /\ d \in Channel /\ Apart(c, d) /\ d.conn = c.conn /\ d.dirty
           /\ c.dirty \/ Queued(d.posted, <<"SORT">>)
           /\ \A m : Queued(d.posted, m) => Queued(c.posted, m) \/ m = <<"SORT">>
           /\ \A m : Queued(c.posted, m) => Queued(d.posted, m)
           /\ CheckOnce(c) => CheckOnce(d)
<1>. DEFINE q == Append(c.posted, <<"SORT">>)
            e == [c EXCEPT !.dirty = TRUE]
            d == [e EXCEPT !.posted = q]
<1>1. CASE c.dirty
  BY <1>1 DEF RequestSort, Apart
<1>2. CASE ~c.dirty
  <2>1. c.posted \in Seq(Message) /\ <<"SORT">> \in Message
    BY Messages DEF Channel
  <2>2. q \in Seq(Message) /\ \A m : Queued(q, m) <=> Queued(c.posted, m) \/ m = <<"SORT">>
    BY <2>1, QueueAppend
  <2>3. Once(c.posted, Checks) => Once(q, Checks)
    <3>1. <<"SORT">> \notin Checks
      BY Distinct DEF Checks
    <3>. QED
      BY <2>1, <3>1, OnceAppend
  <2>. HIDE DEF q
  <2>4. e \in Channel /\ Apart(c, e) /\ e.conn = c.conn /\ e.dirty /\ e.posted = c.posted
    BY DEF Channel, Apart
  <2>. HIDE DEF e
  <2>5. d \in Channel /\ Apart(e, d) /\ d.conn = e.conn /\ d.dirty = e.dirty /\ d.posted = q
    BY <2>2, <2>4 DEF Channel, Apart
  <2>6. RequestSort(c) = d
    BY <1>2, <2>4 DEF RequestSort, Post, e, q
  <2>. HIDE DEF d
  <2>7. Apart(c, d)
    BY <2>4, <2>5 DEF Apart
  <2>8. CheckOnce(c) => CheckOnce(d)
    BY <2>3, <2>5, CheckedOnce
  <2>. QED
    BY <2>2, <2>4, <2>5, <2>6, <2>7, <2>8
<1>. QED
  BY <1>1, <1>2 DEF Channel

(* SetStates.                                                               *)
LEMMA SetStatesStirs ==
  ASSUME NEW c \in Channel, NEW conn \in [DOMAIN c.conn -> Connection]
  PROVE  Stirs(c, SetStates(c, conn)) /\ SetStates(c, conn).conn = conn
<1>. DEFINE changed == {k \in DOMAIN conn : \/ conn[k].read # c.conn[k].read
                                            \/ conn[k].write # c.conn[k].write}
            ends == {<<"DELETE", k>> : k \in {x \in changed : Useless(conn[x])}}
            dead == SetToSeq(ends)
            d == [c EXCEPT !.conn = conn]
            e == RequestSort(d)
            f == [e EXCEPT !.posted = @ \o dead]
<1>1. c.conn \in Connections /\ DOMAIN c.conn \subseteq Conn /\ conn \in Connections
      /\ DOMAIN conn = DOMAIN c.conn
  <2>1. c.conn \in Connections
    BY DEF Channel
  <2>2. DOMAIN c.conn \in SUBSET Conn
    BY <2>1, Domains
  <2>. QED
    BY <2>1, <2>2, Domains
<1>2. d \in Channel /\ Apart(c, d) /\ d.conn = conn /\ d.dirty = c.dirty /\ d.posted = c.posted
  BY <1>1 DEF Channel, Apart
<1>3. SetStates(c, conn) = IF changed = {} THEN d ELSE f
  BY DEF SetStates
<1>4. CASE changed = {}
  <2>1. \A k \in DOMAIN c.conn : conn[k].write = c.conn[k].write /\ conn[k].read = c.conn[k].read
    BY <1>1, <1>4
  <2>2. CheckOnce(c) => CheckOnce(d)
    BY <1>2 DEF CheckOnce
  <2>. HIDE DEF d, changed
  <2>3. \A k \in DOMAIN c.conn : Useless(conn[k]) => Useless(c.conn[k])
    BY <2>1 DEF Useless
  <2>. QED
    BY <1>1, <1>2, <1>3, <1>4, <2>1, <2>2, <2>3 DEF Stirs
<1>5. CASE changed # {}
  <2>1. ends \subseteq {<<"DELETE", k>> : k \in DOMAIN c.conn} /\ ends \subseteq Message
    BY <1>1, Messages
  <2>2. dead \in Seq(ends) /\ \A m : Queued(dead, m) <=> m \in ends
    <3>1. IsFiniteSet({x \in changed : Useless(conn[x])})
      BY <1>1, FiniteConns, FS_Subset
    <3>2. IsFiniteSet(ends)
      <4>. DEFINE D == {x \in changed : Useless(conn[x])}
                  g == [k \in D |-> <<"DELETE", k>>]
      <4>1. g \in Surjection(D, ends)
        BY DEF Surjection
      <4>. HIDE DEF D, g
      <4>2. IsFiniteSet(D)
        BY <3>1 DEF D
      <4>. QED
        BY <4>1, <4>2, FS_Surjection
    <3>. HIDE DEF ends
    <3>. QED
      BY <3>2, SetQueue
  <2>3. \A k \in DOMAIN conn : k \notin changed =>
          conn[k].write = c.conn[k].write /\ conn[k].read = c.conn[k].read
    OBVIOUS
  <2>4. \A k \in changed : Useless(conn[k]) => <<"DELETE", k>> \in ends
    OBVIOUS
  <2>. HIDE DEF ends, dead, d, changed
  <2>5. /\ e \in Channel /\ Apart(d, e) /\ e.conn = d.conn /\ e.dirty
        /\ d.dirty \/ Queued(e.posted, <<"SORT">>)
        /\ \A m : Queued(e.posted, m) => Queued(d.posted, m) \/ m = <<"SORT">>
        /\ \A m : Queued(d.posted, m) => Queued(e.posted, m)
        /\ CheckOnce(d) => CheckOnce(e)
    BY <1>2, RequestSortFields
  <2>. HIDE DEF e
  <2>6. /\ e.posted \o dead \in Seq(Message)
        /\ \A m : Queued(e.posted \o dead, m) <=> Queued(e.posted, m) \/ m \in ends
        /\ Once(e.posted, Checks) => Once(e.posted \o dead, Checks)
    <3>1. e.posted \in Seq(Message) /\ dead \in Seq(Message)
      BY <2>1, <2>2, <2>5 DEF Channel
    <3>2. \A y \in Checks : ~Queued(dead, y)
      BY <2>1, <2>2, Distinct DEF Checks
    <3>. QED
      BY <2>2, <3>1, <3>2, QueueConcat, OnceConcat
  <2>7. f \in Channel /\ Apart(e, f) /\ f.conn = e.conn /\ f.dirty = e.dirty
        /\ f.posted = e.posted \o dead
    BY <2>5, <2>6 DEF Channel, Apart
  <2>. HIDE DEF f
  <2>8. Apart(c, f)
    BY <1>2, <2>5, <2>7 DEF Apart
  <2>9. CheckOnce(c) => CheckOnce(f)
    <3>1. CheckOnce(c) => CheckOnce(d)
      BY <1>2 DEF CheckOnce
    <3>. QED
      BY <2>5, <2>6, <2>7, <3>1, CheckedOnce
  <2>10. \A m : Queued(f.posted, m) <=> Queued(e.posted, m) \/ m \in ends
    BY <2>6, <2>7
  <2>11. \A k \in DOMAIN c.conn :
           Useless(conn[k]) => Queued(f.posted, <<"DELETE", k>>) \/ Useless(c.conn[k])
    <3>. SUFFICES ASSUME NEW k \in DOMAIN c.conn, Useless(conn[k]), ~Useless(c.conn[k])
                  PROVE  k \in changed
      BY <2>4, <2>10
    <3>. QED
      BY <1>1, <2>3 DEF Useless
  <2>12. \A m : Queued(f.posted, m) =>
           Queued(c.posted, m) \/ m = <<"SORT">> \/ \E k \in DOMAIN c.conn : m = <<"DELETE", k>>
    BY <1>2, <2>1, <2>5, <2>10
  <2>13. f.conn = conn /\ f.dirty /\ f \in Channel
    BY <1>2, <2>5, <2>7
  <2>14. \A m : Queued(c.posted, m) => Queued(f.posted, m)
    BY <1>2, <2>5, <2>10
  <2>15. ~c.dirty => Queued(f.posted, <<"SORT">>)
    BY <1>2, <2>5, <2>10
  <2>. QED
    BY <1>1, <1>3, <1>5, <2>8, <2>9, <2>11, <2>12, <2>13, <2>14, <2>15 DEF Stirs
<1>. QED
  BY <1>4, <1>5

(* Core and Good survive it.                                                *)
LEMMA StirsCore ==
  ASSUME NEW c, NEW d, Core(c), Stirs(c, d)
  PROVE  Core(d)
<1>0. /\ c \in Channel /\ d \in Channel /\ Apart(c, d) /\ DOMAIN d.conn = DOMAIN c.conn
      /\ \A m : Queued(c.posted, m) => Queued(d.posted, m)
      /\ \A m : Queued(d.posted, m) =>
           Queued(c.posted, m) \/ m = <<"SORT">> \/ \E k \in DOMAIN c.conn : m = <<"DELETE", k>>
      /\ \A k \in DOMAIN c.conn :
           Useless(d.conn[k]) => Queued(d.posted, <<"DELETE", k>>) \/ Useless(c.conn[k])
      /\ CheckOnce(c) => CheckOnce(d)
  BY DEF Core, Stirs
<1>1. /\ Pointers(c) /\ Addressed(c) /\ ConnectionsEnd(c) /\ PortsEnd(c)
      /\ Remembered(c) /\ Allocating(c) /\ Pinging(c)
  BY DEF Core
<1>2. Pointers(d) /\ PortsEnd(d) /\ Remembered(d)
  BY <1>0, <1>1 DEF Pointers, PortsEnd, Remembered, Apart
<1>3. Allocating(d) /\ Pinging(d)
  BY <1>0, <1>1 DEF Allocating, Pinging, Pending, Apart
<1>4. ConnectionsEnd(d)
  BY <1>0, <1>1 DEF ConnectionsEnd
<1>5. \A k \in Conn : Queued(d.posted, <<"DELETE", k>>) => k \in DOMAIN d.conn
  BY <1>0, <1>1, Distinct DEF Addressed
<1>6. \A p \in Port : Queued(d.posted, <<"CHECKTIMEOUT", p>>) => Queued(c.posted, <<"CHECKTIMEOUT", p>>)
  BY <1>0, Distinct
<1>7. Addressed(d)
  BY <1>0, <1>1, <1>5, <1>6 DEF Addressed, Pending, Apart
<1>. QED
  BY <1>0, <1>2, <1>3, <1>4, <1>7 DEF Core

(* Such a method leaves a good channel good.                                *)
LEMMA StirsGood ==
  ASSUME NEW c, NEW d, Good(c), Stirs(c, d)
  PROVE  Good(d)
<1>1. Core(d)
  BY StirsCore DEF Good
<1>2. Sorting(d)
  BY DEF Good, Stirs, Sorting
<1>3. ~d.dirty => (d.writable <=> BestWritable(d))
  <2>1. ASSUME ~d.dirty PROVE d.writable <=> BestWritable(d)
    <3>1. /\ ~c.dirty /\ \A k \in DOMAIN c.conn : d.conn[k].write = c.conn[k].write
          /\ d.writable = c.writable /\ d.best = c.best
      BY <2>1 DEF Stirs, Apart
    <3>2. c.writable <=> BestWritable(c)
      BY <3>1 DEF Good
    <3>3. c.best = None \/ c.best \in DOMAIN c.conn
      BY DEF Good, Core, Pointers
    <3>4. BestWritable(d) <=> BestWritable(c)
      BY <3>1, <3>3 DEF BestWritable
    <3>. QED
      BY <3>1, <3>2, <3>4
  <2>. QED
    BY <2>1
<1>. QED
  BY <1>1, <1>2, <1>3 DEF Good

(* Whatever is done twice.                                                  *)
LEMMA StirsTwice ==
  ASSUME NEW c, NEW d, NEW e, Stirs(c, d), Stirs(d, e)
  PROVE  Stirs(c, e)
<1>1. Apart(c, e)
  BY DEF Stirs, Apart
<1>2. c.dirty => e.dirty
  BY DEF Stirs
<1>3. ~e.dirty => \A k \in DOMAIN c.conn : e.conn[k].write = c.conn[k].write
  BY DEF Stirs
<1>4. e.dirty /\ ~c.dirty => Queued(e.posted, <<"SORT">>)
  BY DEF Stirs
<1>5. \A m : Queued(e.posted, m) =>
        Queued(c.posted, m) \/ m = <<"SORT">> \/ \E k \in DOMAIN c.conn : m = <<"DELETE", k>>
  BY DEF Stirs
<1>6. \A k \in DOMAIN c.conn :
        Useless(e.conn[k]) => Queued(e.posted, <<"DELETE", k>>) \/ Useless(c.conn[k])
  BY DEF Stirs
<1>. QED
  BY <1>1, <1>2, <1>3, <1>4, <1>5, <1>6 DEF Stirs

(* The methods that set states.                                             *)
LEMMA ConnType ==
  ASSUME NEW c \in Channel
  PROVE  /\ c.conn \in Connections /\ DOMAIN c.conn \subseteq Conn
         /\ c.conn \in [DOMAIN c.conn -> Connection]
         /\ \A k \in DOMAIN c.conn : c.conn[k] \in Connection
         /\ c.port \in Ports /\ DOMAIN c.port \subseteq Port
         /\ c.port \in [DOMAIN c.port -> {"PRESTART", "PRETIMEOUT", "POSTTIMEOUT"}]
<1>1. c.conn \in Connections /\ c.port \in Ports
  BY DEF Channel
<1>2. DOMAIN c.conn \subseteq Conn /\ c.conn \in [DOMAIN c.conn -> Connection]
  BY <1>1, Domains
<1>3. /\ DOMAIN c.port \subseteq Port
      /\ c.port \in [DOMAIN c.port -> {"PRESTART", "PRETIMEOUT", "POSTTIMEOUT"}]
  BY <1>1, Domains
<1>. QED
  BY <1>1, <1>2, <1>3

(* The methods that only touch connections.                                 *)
LEMMA MethodsStir ==
  ASSUME NEW c \in Channel, NEW r, NEW w, NEW t
  PROVE  /\ Stirs(c, UpdateConnectionStates(c, r, w, t))
         /\ Stirs(c, Prune(c, r))
         /\ Stirs(c, ReceivedPing(c, r))
         /\ r \in DOMAIN c.conn => Stirs(c, TryAgain(c, r))
<1>1. \A k \in DOMAIN c.conn : c.conn[k] \in Connection
  BY ConnType
<1>2. Stirs(c, UpdateConnectionStates(c, r, w, t))
  <2>. DEFINE conn == [k \in DOMAIN c.conn |->
                  [c.conn[k] EXCEPT !.read = IF k \in r THEN "TIMEOUT" ELSE @,
                                    !.write = IF k \in t THEN "TIMEOUT"
                                              ELSE IF k \in w THEN "CONNECT" ELSE @]]
  <2>1. conn \in [DOMAIN c.conn -> Connection]
    BY <1>1 DEF Connection
  <2>. HIDE DEF conn
  <2>2. Stirs(c, SetStates(c, conn))
    BY <2>1, SetStatesStirs
  <2>. QED
    BY <2>2 DEF UpdateConnectionStates, conn
<1>3. Stirs(c, Prune(c, r))
  <2>. DEFINE conn == [k \in DOMAIN c.conn |->
                  IF k \in r /\ ~c.conn[k].pruned
                    THEN [c.conn[k] EXCEPT !.pruned = TRUE, !.req = FALSE, !.write = "TIMEOUT"]
                    ELSE c.conn[k]]
  <2>1. conn \in [DOMAIN c.conn -> Connection]
    BY <1>1 DEF Connection
  <2>. HIDE DEF conn
  <2>2. Stirs(c, SetStates(c, conn))
    BY <2>1, SetStatesStirs
  <2>. QED
    BY <2>2 DEF Prune, conn
<1>4. Stirs(c, ReceivedPing(c, r))
  <2>. DEFINE conn == [k \in DOMAIN c.conn |->
                  IF k \in r THEN [c.conn[k] EXCEPT !.read = "READABLE"] ELSE c.conn[k]]
  <2>1. conn \in [DOMAIN c.conn -> Connection]
    BY <1>1 DEF Connection
  <2>. HIDE DEF conn
  <2>2. Stirs(c, SetStates(c, conn))
    BY <2>1, SetStatesStirs
  <2>. QED
    BY <2>2 DEF ReceivedPing, conn
<1>5. ASSUME r \in DOMAIN c.conn PROVE Stirs(c, TryAgain(c, r))
  <2>. DEFINE conn == [c.conn EXCEPT ![r].write = "CONNECT"]
  <2>1. conn \in [DOMAIN c.conn -> Connection]
    BY <1>1, <1>5, ConnType DEF Connection
  <2>. HIDE DEF conn
  <2>2. Stirs(c, SetStates(c, conn))
    BY <2>1, SetStatesStirs
  <2>3. Stirs(c, c)
    BY DEF Stirs, Apart
  <2>. QED
    BY <2>2, <2>3 DEF TryAgain, conn
<1>. QED
  BY <1>2, <1>3, <1>4, <1>5

-----------------------------------------------------------------------------
(* Sorting.                                                                 *)

(* Clear takes one message away.                                            *)
LEMMA ClearFields ==
  ASSUME NEW c \in Channel, NEW m
  PROVE  LET d == Clear(c, m) IN
           /\ d \in Channel /\ d.conn = c.conn /\ d.dirty = c.dirty
           /\ d.port = c.port /\ d.ports = c.ports /\ d.best = c.best /\ d.remote = c.remote
           /\ d.sessions = c.sessions /\ d.writable = c.writable /\ d.readable = c.readable
           /\ d.waiting = c.waiting /\ d.pinging = c.pinging
           /\ d.was_writable = c.was_writable /\ d.was_timed_out = c.was_timed_out
           /\ d.connected = c.connected
           /\ \A y : Queued(d.posted, y) <=> Queued(c.posted, y) /\ y # m
           /\ d.delayed = c.delayed \ {m}
           /\ CheckOnce(c) => CheckOnce(d)
<1>. DEFINE q == Cleared(c.posted, {m})
            d == [c EXCEPT !.posted = q, !.delayed = c.delayed \ {m}]
<1>1. c.posted \in Seq(Message)
  BY DEF Channel
<1>2. /\ q \in Seq(Message) /\ \A y : Queued(q, y) <=> Queued(c.posted, y) /\ y \notin {m}
      /\ Once(c.posted, Checks) => Once(q, Checks)
  BY <1>1, ClearedQueue
<1>3. Clear(c, m) = d
  BY DEF Clear
<1>. HIDE DEF q
<1>4. /\ d \in Channel /\ d.conn = c.conn /\ d.dirty = c.dirty
      /\ d.port = c.port /\ d.ports = c.ports /\ d.best = c.best /\ d.remote = c.remote
      /\ d.sessions = c.sessions /\ d.writable = c.writable /\ d.readable = c.readable
      /\ d.waiting = c.waiting /\ d.pinging = c.pinging
      /\ d.was_writable = c.was_writable /\ d.was_timed_out = c.was_timed_out
      /\ d.connected = c.connected /\ d.posted = q /\ d.delayed = c.delayed \ {m}
  BY <1>2 DEF Channel
<1>. HIDE DEF d
<1>5. CheckOnce(c) => CheckOnce(d)
  BY <1>2, <1>4, CheckedOnce
<1>. QED
  BY <1>2, <1>3, <1>4, <1>5

(* d is c with other flags, and at most the allocation withdrawn.           *)
Reports(c, d) ==
  /\ d \in Channel /\ d.conn = c.conn /\ d.dirty = c.dirty
  /\ d.port = c.port /\ d.ports = c.ports /\ d.best = c.best /\ d.connected = c.connected
  /\ \A m : Queued(d.posted, m) => Queued(c.posted, m)
  /\ \A m : m # <<"ALLOCATE">> => (Queued(c.posted, m) => Queued(d.posted, m))
  /\ d.delayed \subseteq c.delayed /\ c.delayed \subseteq d.delayed \cup {<<"ALLOCATE">>}
  /\ CheckOnce(c) => CheckOnce(d)

(* A report keeps the core, and the sort that is due.                       *)
LEMMA ReportsCore ==
  ASSUME NEW c, NEW d, Core(c), Reports(c, d), Remembered(d), Allocating(d)
  PROVE  Core(d) /\ (Sorting(c) => Sorting(d))
<1>0. /\ d \in Channel /\ d.conn = c.conn /\ d.dirty = c.dirty
      /\ d.port = c.port /\ d.ports = c.ports /\ d.best = c.best /\ d.connected = c.connected
      /\ \A m : Queued(d.posted, m) => Queued(c.posted, m)
      /\ \A m : m # <<"ALLOCATE">> => (Queued(c.posted, m) => Queued(d.posted, m))
      /\ d.delayed \subseteq c.delayed /\ c.delayed \subseteq d.delayed \cup {<<"ALLOCATE">>}
      /\ CheckOnce(c) => CheckOnce(d)
  BY DEF Reports
<1>1. /\ Pointers(c) /\ Addressed(c) /\ ConnectionsEnd(c) /\ PortsEnd(c)
      /\ Pinging(c)
  BY DEF Core
<1>2. Pointers(d) /\ PortsEnd(d)
  BY <1>0, <1>1 DEF Pointers, PortsEnd
<1>3. Addressed(d)
  BY <1>0, <1>1 DEF Addressed, Pending
<1>4. ConnectionsEnd(d)
  <2>1. \A k : <<"DELETE", k>> # <<"ALLOCATE">>
    BY Distinct
  <2>. QED
    BY <1>0, <1>1, <2>1 DEF ConnectionsEnd
<1>5. Pinging(d)
  <2>1. \A x : <<"PING", x>> # <<"ALLOCATE">>
    BY Distinct
  <2>. QED
    BY <1>0, <1>1, <2>1 DEF Pinging, Pending
<1>6. Sorting(c) => Sorting(d)
  BY <1>0, Distinct DEF Sorting
<1>. QED
  BY <1>0, <1>2, <1>3, <1>4, <1>5, <1>6 DEF Core

(* HandleWritable, HandleNotWritable, HandleAllTimedOut.                    *)
LEMMA WritableHandled ==
  ASSUME NEW c, Core(c)
  PROVE  LET d == HandleWritable(c) IN
           Reports(c, d) /\ d.writable /\ Remembered(d) /\ Allocating(d)
<1>. DEFINE e == Clear(c, <<"ALLOCATE">>)
            f == [e EXCEPT !.sessions = StopGetAllPorts(@)]
            g == IF c.writable THEN c ELSE f
            d == [g EXCEPT !.was_writable = TRUE, !.was_timed_out = FALSE, !.writable = TRUE]
<1>1. c \in Channel
  BY DEF Core
<1>2. /\ e \in Channel /\ e.conn = c.conn /\ e.dirty = c.dirty
      /\ e.port = c.port /\ e.ports = c.ports /\ e.best = c.best /\ e.connected = c.connected
      /\ \A y : Queued(e.posted, y) <=> Queued(c.posted, y) /\ y # <<"ALLOCATE">>
      /\ e.delayed = c.delayed \ {<<"ALLOCATE">>}
      /\ CheckOnce(c) => CheckOnce(e)
  BY <1>1, ClearFields
<1>. HIDE DEF e
<1>3. StopGetAllPorts(e.sessions) \in Seq({"new", "getting", "stopped"})
  <2>1. e.sessions \in Seq({"new", "getting", "stopped"})
    BY <1>2 DEF Channel
  <2>. QED
    BY <2>1 DEF StopGetAllPorts
<1>4. /\ f \in Channel /\ f.conn = e.conn /\ f.dirty = e.dirty
      /\ f.port = e.port /\ f.ports = e.ports /\ f.best = e.best /\ f.connected = e.connected
      /\ f.posted = e.posted /\ f.delayed = e.delayed
  BY <1>2, <1>3 DEF Channel
<1>. HIDE DEF f
<1>5. CheckOnce(e) => CheckOnce(f)
  BY <1>4 DEF CheckOnce
<1>6. /\ g \in Channel /\ g.conn = c.conn /\ g.dirty = c.dirty
      /\ g.port = c.port /\ g.ports = c.ports /\ g.best = c.best /\ g.connected = c.connected
      /\ \A m : Queued(g.posted, m) => Queued(c.posted, m)
      /\ \A m : m # <<"ALLOCATE">> => (Queued(c.posted, m) => Queued(g.posted, m))
      /\ g.delayed \subseteq c.delayed /\ c.delayed \subseteq g.delayed \cup {<<"ALLOCATE">>}
      /\ CheckOnce(c) => CheckOnce(g)
  BY <1>1, <1>2, <1>4, <1>5
<1>. HIDE DEF g
<1>7. /\ d \in Channel /\ d.conn = g.conn /\ d.dirty = g.dirty
      /\ d.port = g.port /\ d.ports = g.ports /\ d.best = g.best /\ d.connected = g.connected
      /\ d.posted = g.posted /\ d.delayed = g.delayed
      /\ d.was_writable = TRUE /\ d.was_timed_out = FALSE /\ d.writable = TRUE
  BY <1>6 DEF Channel
<1>8. HandleWritable(c) = d
  BY DEF HandleWritable, g, f, e
<1>. HIDE DEF d
<1>9. CheckOnce(g) => CheckOnce(d)
  BY <1>7 DEF CheckOnce
<1>10. Reports(c, d)
  BY <1>6, <1>7, <1>9 DEF Reports
<1>. QED
  BY <1>7, <1>8, <1>10 DEF Remembered, Allocating

(* Allocate, which starts a session and waits for it.                       *)
LEMMA AllocateReports ==
  ASSUME NEW c \in Channel
  PROVE  LET d == Allocate(c) IN
           /\ Reports(c, d) /\ d.waiting = TRUE
           /\ d.writable = c.writable /\ d.was_writable = c.was_writable
           /\ d.was_timed_out = c.was_timed_out
<1>. DEFINE e == Clear(c, <<"ALLOCATE">>)
            d == [e EXCEPT !.waiting = TRUE]
<1>1. /\ e \in Channel /\ e.conn = c.conn /\ e.dirty = c.dirty
      /\ e.port = c.port /\ e.ports = c.ports /\ e.best = c.best /\ e.connected = c.connected
      /\ e.writable = c.writable /\ e.was_writable = c.was_writable
      /\ e.was_timed_out = c.was_timed_out
      /\ \A y : Queued(e.posted, y) <=> Queued(c.posted, y) /\ y # <<"ALLOCATE">>
      /\ e.delayed = c.delayed \ {<<"ALLOCATE">>}
      /\ CheckOnce(c) => CheckOnce(e)
  BY ClearFields
<1>. HIDE DEF e
<1>2. /\ d \in Channel /\ d.conn = e.conn /\ d.dirty = e.dirty
      /\ d.port = e.port /\ d.ports = e.ports /\ d.best = e.best /\ d.connected = e.connected
      /\ d.writable = e.writable /\ d.was_writable = e.was_writable
      /\ d.was_timed_out = e.was_timed_out
      /\ d.posted = e.posted /\ d.delayed = e.delayed /\ d.waiting = TRUE
  BY <1>1 DEF Channel
<1>3. Allocate(c) = d
  BY DEF Allocate, e
<1>. HIDE DEF d
<1>4. CheckOnce(e) => CheckOnce(d)
  BY <1>2 DEF CheckOnce
<1>. QED
  BY <1>1, <1>2, <1>3, <1>4 DEF Reports

(* HandleNotWritable and HandleAllTimedOut.                                 *)
LEMMA NotWritableHandled ==
  ASSUME NEW c, Core(c)
  PROVE  /\ LET d == HandleNotWritable(c) IN
              Reports(c, d) /\ ~d.writable /\ Remembered(d) /\ Allocating(d)
         /\ LET d == HandleAllTimedOut(c) IN
              Reports(c, d) /\ ~d.writable /\ Remembered(d) /\ Allocating(d)
<1>1. c \in Channel /\ Remembered(c) /\ Allocating(c)
  BY DEF Core
<1>2. LET d == HandleNotWritable(c) IN
        Reports(c, d) /\ ~d.writable /\ Remembered(d) /\ Allocating(d)
  <2>. DEFINE e == [c EXCEPT !.was_writable = FALSE]
              g == IF c.was_writable THEN Allocate(e) ELSE c
              d == [g EXCEPT !.was_timed_out = FALSE, !.writable = FALSE]
  <2>1. /\ e \in Channel /\ e.conn = c.conn /\ e.dirty = c.dirty
        /\ e.port = c.port /\ e.ports = c.ports /\ e.best = c.best /\ e.connected = c.connected
        /\ e.posted = c.posted /\ e.delayed = c.delayed /\ e.was_writable = FALSE
    BY <1>1 DEF Channel
  <2>. HIDE DEF e
  <2>2. CheckOnce(c) => CheckOnce(e)
    BY <2>1 DEF CheckOnce
  <2>3. /\ g \in Channel /\ Reports(c, g) /\ g.was_writable = FALSE
        /\ g.waiting = TRUE \/ (g = c /\ ~c.was_writable)
    <3>1. CASE c.was_writable
      <4>1. Reports(e, Allocate(e)) /\ Allocate(e).waiting = TRUE
            /\ Allocate(e).was_writable = FALSE
        BY <2>1, AllocateReports
      <4>2. Reports(c, Allocate(e)) /\ Allocate(e) \in Channel
        BY <2>1, <2>2, <4>1 DEF Reports
      <4>. QED
        BY <3>1, <4>1, <4>2
    <3>2. CASE ~c.was_writable
      <4>1. Reports(c, c) /\ c.was_writable = FALSE
        BY <1>1, <3>2 DEF Reports, Channel
      <4>. QED
        BY <1>1, <3>2, <4>1
    <3>. QED
      BY <3>1, <3>2
  <2>. HIDE DEF g
  <2>4. /\ d \in Channel /\ d.conn = g.conn /\ d.dirty = g.dirty
        /\ d.port = g.port /\ d.ports = g.ports /\ d.best = g.best /\ d.connected = g.connected
        /\ d.posted = g.posted /\ d.delayed = g.delayed /\ d.waiting = g.waiting
        /\ d.was_writable = g.was_writable /\ d.writable = FALSE
    BY <2>3 DEF Channel
  <2>5. HandleNotWritable(c) = d
    BY DEF HandleNotWritable, g, e
  <2>. HIDE DEF d
  <2>6. CheckOnce(g) => CheckOnce(d)
    BY <2>4 DEF CheckOnce
  <2>7. Reports(c, d)
    BY <2>3, <2>4, <2>6 DEF Reports
  <2>8. Remembered(d)
    BY <2>3, <2>4 DEF Remembered
  <2>9. Allocating(d)
    BY <1>1, <2>3, <2>4 DEF Allocating, Remembered, Pending
  <2>. QED
    BY <2>4, <2>5, <2>7, <2>8, <2>9
<1>3. LET d == HandleAllTimedOut(c) IN
        Reports(c, d) /\ ~d.writable /\ Remembered(d) /\ Allocating(d)
  <2>. DEFINE g == IF ~c.was_timed_out THEN Allocate(c) ELSE c
              d == [g EXCEPT !.was_timed_out = TRUE, !.was_writable = FALSE, !.writable = FALSE]
  <2>1. /\ g \in Channel /\ Reports(c, g)
        /\ g.waiting = TRUE \/ (g = c /\ c.was_timed_out)
    <3>1. Reports(c, Allocate(c)) /\ Allocate(c).waiting = TRUE
      BY <1>1, AllocateReports
    <3>2. Allocate(c) \in Channel
      BY <3>1 DEF Reports
    <3>3. Reports(c, c)
      BY <1>1 DEF Reports
    <3>. QED
      BY <1>1, <3>1, <3>2, <3>3
  <2>. HIDE DEF g
  <2>2. /\ d \in Channel /\ d.conn = g.conn /\ d.dirty = g.dirty
        /\ d.port = g.port /\ d.ports = g.ports /\ d.best = g.best /\ d.connected = g.connected
        /\ d.posted = g.posted /\ d.delayed = g.delayed /\ d.waiting = g.waiting
        /\ d.was_writable = FALSE /\ d.writable = FALSE
    BY <2>1 DEF Channel
  <2>3. HandleAllTimedOut(c) = d
    BY DEF HandleAllTimedOut, g
  <2>. HIDE DEF d
  <2>4. CheckOnce(g) => CheckOnce(d)
    BY <2>2 DEF CheckOnce
  <2>5. Reports(c, d)
    BY <2>1, <2>2, <2>4 DEF Reports
  <2>6. Remembered(d)
    BY <2>2 DEF Remembered
  <2>7. Allocating(d)
    BY <1>1, <2>1, <2>2 DEF Allocating, Remembered, Pending
  <2>. QED
    BY <2>2, <2>3, <2>5, <2>6, <2>7
<1>. QED
  BY <1>2, <1>3

(* If a connection is writable, so is the best one after the sort: the      *)
(* first on its network is not worse, the top one is not worse than that    *)
(* one, and the best one is kept only if the top one is worse.              *)
LEMMA BestIsWritable ==
  ASSUME NEW c \in Channel, Pointers(c), NEW f \in Firsts(c), NEW top \in Tops(c, f),
         NEW d \in Channel, d.conn = c.conn, d.best = c.best
  PROVE  LET b == SwitchBest(d, top) IN
           /\ b.best = None \/ b.best \in DOMAIN c.conn
           /\ BestWritable(b) <=> \E k \in DOMAIN c.conn : c.conn[k].write = "WRITABLE"
           /\ b \in Channel /\ b.conn = c.conn /\ b.dirty = d.dirty
           /\ b.port = d.port /\ b.ports = d.ports /\ b.writable = d.writable
           /\ b.was_writable = d.was_writable /\ b.was_timed_out = d.was_timed_out
           /\ b.waiting = d.waiting /\ b.connected = d.connected
           /\ b.posted = d.posted /\ b.delayed = d.delayed
<1>. DEFINE b == SwitchBest(d, top)
<1>1. DOMAIN c.conn \subseteq Conn /\ \A k \in DOMAIN c.conn : c.conn[k] \in Connection
  BY ConnType
<1>2. /\ f \in [Networks(c) -> DOMAIN c.conn]
      /\ \A n \in Networks(c) :
           /\ f[n] \in DOMAIN c.conn
           /\ \A l \in DOMAIN c.conn : Network(l) = n => NotWorse(c, f[n], l)
  BY DEF Firsts, Top
<1>3. top = None \/ top \in DOMAIN c.conn
  BY <1>2 DEF Tops, Top
<1>4. \A k \in DOMAIN c.conn : Network(k) \in Networks(c)
  BY DEF Networks
<1>5. \A k \in DOMAIN c.conn : top \in DOMAIN c.conn /\ NotWorse(c, top, f[Network(k)])
  BY <1>2, <1>4 DEF Tops, Top
<1>6. \A k \in DOMAIN c.conn : /\ Rank(c, k) \in {0, 1, 2} /\ Rank(d, k) = Rank(c, k)
                               /\ Rank(c, k) = 2 <=> c.conn[k].write = "WRITABLE"
  BY <1>1 DEF Rank, Connection
<1>7. \A k, l \in DOMAIN c.conn : NotWorse(c, k, l) => Rank(c, k) >= Rank(c, l)
  <2>1. SUFFICES ASSUME NEW k \in DOMAIN c.conn, NEW l \in DOMAIN c.conn, NotWorse(c, k, l)
                 PROVE  Rank(c, k) >= Rank(c, l)
    OBVIOUS
  <2>2. Rank(c, k) > Rank(c, l) \/ Rank(c, k) = Rank(c, l)
    BY <2>1 DEF NotWorse
  <2>3. Rank(c, k) \in {0, 1, 2} /\ Rank(c, l) \in {0, 1, 2}
    BY <1>6
  <2>. QED
    BY <2>2, <2>3
<1>8. \A k, l \in DOMAIN c.conn : ~NotWorse(d, k, l) => Rank(c, k) <= Rank(c, l)
  <2>1. SUFFICES ASSUME NEW k \in DOMAIN c.conn, NEW l \in DOMAIN c.conn, ~NotWorse(d, k, l)
                 PROVE  Rank(c, k) <= Rank(c, l)
    OBVIOUS
  <2>2. ~(Rank(c, k) > Rank(c, l))
    BY <1>6, <2>1 DEF NotWorse
  <2>3. Rank(c, k) \in {0, 1, 2} /\ Rank(c, l) \in {0, 1, 2}
    BY <1>6
  <2>. QED
    BY <2>2, <2>3
<1>9. \A k \in DOMAIN c.conn :
        c.conn[k].write = "WRITABLE" => top \in DOMAIN c.conn /\ c.conn[top].write = "WRITABLE"
  <2>1. SUFFICES ASSUME NEW k \in DOMAIN c.conn, c.conn[k].write = "WRITABLE"
                 PROVE  top \in DOMAIN c.conn /\ c.conn[top].write = "WRITABLE"
    OBVIOUS
  <2>2. f[Network(k)] \in DOMAIN c.conn /\ NotWorse(c, f[Network(k)], k)
    BY <1>2, <1>4
  <2>3. top \in DOMAIN c.conn /\ NotWorse(c, top, f[Network(k)])
    BY <1>5
  <2>4. Rank(c, top) >= Rank(c, f[Network(k)]) /\ Rank(c, f[Network(k)]) >= Rank(c, k)
    BY <1>7, <2>2, <2>3
  <2>5. Rank(c, k) = 2 /\ Rank(c, top) \in {0, 1, 2} /\ Rank(c, f[Network(k)]) \in {0, 1, 2}
    BY <1>6, <2>1, <2>2, <2>3
  <2>6. Rank(c, top) = 2
    BY <2>4, <2>5
  <2>. QED
    BY <1>6, <2>3, <2>6
<1>10. c.best = None \/ c.best \in DOMAIN c.conn
  BY DEF Pointers
<1>11. CASE c.best # None /\ top # None /\ ~NotWorse(d, top, c.best)
  <2>1. b = d /\ c.best \in DOMAIN c.conn /\ top \in DOMAIN c.conn
    BY <1>3, <1>10, <1>11 DEF SwitchBest
  <2>2. Rank(c, top) <= Rank(c, c.best)
    BY <1>8, <1>11, <2>1
  <2>3. c.conn[top].write = "WRITABLE" => c.conn[c.best].write = "WRITABLE"
    BY <1>6, <2>1, <2>2
  <2>. QED
    BY <1>9, <1>11, <2>1, <2>3 DEF BestWritable
<1>12. CASE ~(c.best # None /\ top # None /\ ~NotWorse(d, top, c.best))
  <2>1. b = [d EXCEPT !.best = top]
    BY <1>12 DEF SwitchBest
  <2>2. top \in Conn \cup {None}
    BY <1>1, <1>3
  <2>3. /\ b \in Channel /\ b.best = top /\ b.conn = d.conn /\ b.dirty = d.dirty
        /\ b.port = d.port /\ b.ports = d.ports /\ b.writable = d.writable
        /\ b.was_writable = d.was_writable /\ b.was_timed_out = d.was_timed_out
        /\ b.waiting = d.waiting /\ b.connected = d.connected
        /\ b.posted = d.posted /\ b.delayed = d.delayed
    BY <2>1, <2>2 DEF Channel
  <2>4. None \notin Conn
    BY DEF None, Conn
  <2>5. BestWritable(b) => \E k \in DOMAIN c.conn : c.conn[k].write = "WRITABLE"
    BY <1>3, <2>3 DEF BestWritable
  <2>6. (\E k \in DOMAIN c.conn : c.conn[k].write = "WRITABLE") => BestWritable(b)
    BY <1>1, <1>9, <2>3, <2>4 DEF BestWritable
  <2>. QED
    BY <1>3, <2>3, <2>5, <2>6
<1>. QED
  BY <1>11, <1>12

(* What Core says only of some fields.                                      *)
LEMMA CoreFields ==
  ASSUME NEW c, NEW d \in Channel, Core(c),
         d.conn = c.conn, d.best = None \/ d.best \in DOMAIN c.conn, d.port = c.port,
         d.ports = c.ports, d.writable = c.writable, d.was_writable = c.was_writable,
         d.was_timed_out = c.was_timed_out, d.waiting = c.waiting,
         d.connected = c.connected, d.posted = c.posted, d.delayed = c.delayed
  PROVE  Core(d)
<1>1. Pointers(d)
  BY DEF Core, Pointers
<1>2. Addressed(d)
  BY DEF Core, Addressed, Pending, CheckOnce
<1>3. ConnectionsEnd(d) /\ PortsEnd(d)
  BY DEF Core, ConnectionsEnd, PortsEnd
<1>4. Remembered(d) /\ Allocating(d) /\ Pinging(d)
  BY DEF Core, Remembered, Allocating, Pinging, Pending
<1>. QED
  BY <1>1, <1>2, <1>3, <1>4 DEF Core

(* SortConnections after UpdateConnectionStates.                            *)
LEMMA SortedGood ==
  ASSUME NEW c, Core(c), NEW f \in Firsts(c), NEW top \in Tops(c, f)
  PROVE  Good(Sorted(c, top, f))
<1>. DEFINE a == [c EXCEPT !.dirty = FALSE]
            b == SwitchBest(a, top)
            d == Prune(b, Dominated(b, f))
            writes == {d.conn[k].write : k \in DOMAIN d.conn}
            e == IF "WRITABLE" \in writes THEN HandleWritable(d)
                 ELSE IF "CONNECT" \in writes THEN HandleNotWritable(d) ELSE HandleAllTimedOut(d)
            g == UpdateChannelState(e)
<1>1. c \in Channel /\ Pointers(c)
  BY DEF Core
<1>2. /\ a \in Channel /\ a.conn = c.conn /\ a.best = c.best /\ a.dirty = FALSE
      /\ a.port = c.port /\ a.ports = c.ports /\ a.writable = c.writable
      /\ a.was_writable = c.was_writable /\ a.was_timed_out = c.was_timed_out
      /\ a.waiting = c.waiting /\ a.connected = c.connected
      /\ a.posted = c.posted /\ a.delayed = c.delayed
  BY <1>1 DEF Channel
<1>3. Sorted(c, top, f) = g
  BY DEF Sorted
<1>. HIDE DEF a
<1>4. /\ b.best = None \/ b.best \in DOMAIN c.conn
      /\ BestWritable(b) <=> \E k \in DOMAIN c.conn : c.conn[k].write = "WRITABLE"
      /\ b \in Channel /\ b.conn = c.conn /\ b.dirty = a.dirty
      /\ b.port = a.port /\ b.ports = a.ports /\ b.writable = a.writable
      /\ b.was_writable = a.was_writable /\ b.was_timed_out = a.was_timed_out
      /\ b.waiting = a.waiting /\ b.connected = a.connected
      /\ b.posted = a.posted /\ b.delayed = a.delayed
  BY <1>1, <1>2, BestIsWritable
<1>. HIDE DEF b
<1>5. Core(b) /\ ~b.dirty /\ b \in Channel
  <2>1. Core(b)
    BY <1>2, <1>4, CoreFields
  <2>. QED
    BY <1>2, <1>4, <2>1
<1>6. Stirs(b, d)
  BY <1>5, MethodsStir
<1>. HIDE DEF d
<1>7. Core(d) /\ d \in Channel
  BY <1>5, <1>6, StirsCore DEF Core
<1>8. Sorting(d)
  BY <1>5, <1>6 DEF Stirs, Sorting
<1>9. /\ Reports(d, e) /\ Remembered(e) /\ Allocating(e)
      /\ e.writable <=> "WRITABLE" \in writes
  <2>1. CASE "WRITABLE" \in writes
    BY <1>7, <2>1, WritableHandled
  <2>2. CASE "WRITABLE" \notin writes
    BY <1>7, <2>2, NotWritableHandled
  <2>. QED
    BY <2>1, <2>2
<1>10. "WRITABLE" \in writes <=> \E k \in DOMAIN d.conn : d.conn[k].write = "WRITABLE"
  OBVIOUS
<1>. HIDE DEF e
<1>11. Core(e) /\ Sorting(e) /\ e \in Channel
  BY <1>7, <1>8, <1>9, ReportsCore DEF Core
<1>12. /\ g \in Channel /\ g.conn = e.conn /\ g.best = e.best /\ g.dirty = e.dirty
       /\ g.port = e.port /\ g.ports = e.ports /\ g.writable = e.writable
       /\ g.was_writable = e.was_writable /\ g.was_timed_out = e.was_timed_out
       /\ g.waiting = e.waiting /\ g.connected = e.connected
       /\ g.posted = e.posted /\ g.delayed = e.delayed
  <2>. DEFINE x == \E k \in DOMAIN e.conn : e.conn[k].read = "READABLE"
  <2>1. x \in BOOLEAN
    OBVIOUS
  <2>2. g = [e EXCEPT !.readable = x]
    BY DEF UpdateChannelState
  <2>. HIDE DEF x, g
  <2>. QED
    BY <1>11, <2>1, <2>2 DEF Channel
<1>. HIDE DEF g
<1>13. e.best = None \/ e.best \in DOMAIN e.conn
  BY <1>11 DEF Core, Pointers
<1>14. Core(g) /\ Sorting(g)
  <2>1. Core(g)
    BY <1>11, <1>12, <1>13, CoreFields
  <2>. QED
    BY <1>11, <1>12, <2>1 DEF Sorting
<1>15. ASSUME ~g.dirty PROVE g.writable <=> BestWritable(g)
  <2>1. ~d.dirty /\ g.best = d.best /\ g.conn = d.conn /\ (g.writable <=> "WRITABLE" \in writes)
    BY <1>9, <1>12, <1>15 DEF Reports
  <2>2. /\ DOMAIN d.conn = DOMAIN b.conn /\ d.best = b.best
        /\ \A k \in DOMAIN b.conn : d.conn[k].write = b.conn[k].write
    BY <1>6, <2>1 DEF Stirs, Apart
  <2>3. "WRITABLE" \in writes <=> BestWritable(b)
    BY <1>4, <1>10, <2>2
  <2>4. BestWritable(g) <=> BestWritable(b)
    BY <1>4, <2>1, <2>2 DEF BestWritable
  <2>. QED
    BY <2>1, <2>3, <2>4
<1>. QED
  BY <1>3, <1>14, <1>15 DEF Good

(* SortConnections.                                                         *)
LEMMA SortConnectionsGood ==
  ASSUME NEW c, Core(c), NEW fresh, NEW d \in SortConnections(c, fresh)
  PROVE  Good(d)
<1>1. PICK u \in Updated(c, fresh) :
        d \in UNION {{Sorted(u, top, f) : top \in Tops(u, f)} : f \in Firsts(u)}
  BY DEF SortConnections
<1>2. PICK f \in Firsts(u) : d \in {Sorted(u, top, f) : top \in Tops(u, f)}
  BY <1>1
<1>3. PICK top \in Tops(u, f) : d = Sorted(u, top, f)
  BY <1>2
<1>4. PICK r, w, t : u = UpdateConnectionStates(c, r, w, t)
  BY DEF Updated
<1>5. c \in Channel
  BY DEF Core
<1>6. Stirs(c, u)
  BY <1>4, <1>5, MethodsStir
<1>7. Core(u)
  BY <1>6, StirsCore
<1>. QED
  BY <1>3, <1>7, SortedGood

-----------------------------------------------------------------------------
(* New connections and ports, and their end.                                *)

(* d is c with more connections, none of them useless.                      *)
LEMMA GrowsCore ==
  ASSUME NEW c, Core(c), NEW d \in Channel, Apart(c, d), d.posted = c.posted,
         DOMAIN c.conn \subseteq DOMAIN d.conn,
         \A k \in DOMAIN c.conn : d.conn[k] = c.conn[k],
         \A k \in DOMAIN d.conn \ DOMAIN c.conn :
           ~Useless(d.conn[k]) /\ k[1] \in DOMAIN c.port
  PROVE  Core(d)
<1>1. Pointers(d)
  BY DEF Core, Pointers, Apart
<1>2. Addressed(d)
  BY DEF Core, Addressed, Pending, CheckOnce, Apart
<1>3. ConnectionsEnd(d)
  BY DEF Core, ConnectionsEnd
<1>4. PortsEnd(d)
  BY DEF Core, PortsEnd, Apart
<1>5. Remembered(d) /\ Allocating(d) /\ Pinging(d)
  BY DEF Core, Remembered, Allocating, Pinging, Pending, Apart
<1>. QED
  BY <1>1, <1>2, <1>3, <1>4, <1>5 DEF Core

(* CreateConnections from ports that exist.                                 *)
LEMMA CreateCore ==
  ASSUME NEW c, Core(c), NEW ps \in SUBSET DOMAIN c.port, NEW a \in Addr
  PROVE  LET d == CreateConnections(c, ps, a) IN
           Core(d) /\ d.port = c.port /\ d.remote = c.remote
<1>. DEFINE ks == {<<p, a>> : p \in ps}
            conn == [k \in DOMAIN c.conn \cup ks |->
                       IF k \in DOMAIN c.conn THEN c.conn[k] ELSE NewConnection]
            d == [c EXCEPT !.conn = conn]
<1>1. c \in Channel
  BY DEF Core
<1>2. /\ DOMAIN c.conn \subseteq Conn /\ DOMAIN c.port \subseteq Port
      /\ \A k \in DOMAIN c.conn : c.conn[k] \in Connection
  BY <1>1, ConnType
<1>3. ks \subseteq Conn /\ \A k \in ks : k[1] \in DOMAIN c.port
  BY <1>2 DEF Conn
<1>4. NewConnection \in Connection /\ ~Useless(NewConnection)
  BY DEF NewConnection, Connection, Useless
<1>5. conn \in Connections
  <2>1. conn \in [DOMAIN c.conn \cup ks -> Connection]
    BY <1>2, <1>4
  <2>2. DOMAIN c.conn \cup ks \in SUBSET Conn
    BY <1>2, <1>3
  <2>. HIDE DEF conn, ks
  <2>. QED
    BY <2>1, <2>2, Domains
<1>6. /\ DOMAIN c.conn \subseteq DOMAIN conn
      /\ \A k \in DOMAIN c.conn : conn[k] = c.conn[k]
      /\ \A k \in DOMAIN conn \ DOMAIN c.conn : ~Useless(conn[k]) /\ k[1] \in DOMAIN c.port
  BY <1>3, <1>4
<1>7. CreateConnections(c, ps, a) = d
  BY DEF CreateConnections
<1>. HIDE DEF conn
<1>8. d \in Channel /\ Apart(c, d) /\ d.posted = c.posted /\ d.conn = conn
  BY <1>1, <1>5 DEF Channel, Apart
<1>. HIDE DEF d
<1>9. Core(d)
  BY <1>6, <1>8, GrowsCore
<1>. QED
  BY <1>7, <1>8, <1>9 DEF Apart

(* StartGetAllPorts: a port that has not begun has no check pending.        *)
LEMMA StartCore ==
  ASSUME NEW c, Core(c), NEW gs
  PROVE  Core(StartGetAllPorts(c, gs))
<1>. DEFINE ps == {p \in DOMAIN c.port : p[1] \in gs /\ c.port[p] = "PRESTART"}
            ss == [g \in DOMAIN c.sessions |-> IF g \in gs THEN "getting" ELSE c.sessions[g]]
            port == [p \in DOMAIN c.port |-> IF p \in ps THEN "PRETIMEOUT" ELSE c.port[p]]
            new == {<<"CHECKTIMEOUT", p>> : p \in ps}
            d == [c EXCEPT !.sessions = ss, !.port = port, !.delayed = c.delayed \cup new]
<1>1. c \in Channel
  BY DEF Core
<1>2. /\ DOMAIN c.port \subseteq Port
      /\ c.port \in [DOMAIN c.port -> {"PRESTART", "PRETIMEOUT", "POSTTIMEOUT"}]
  BY <1>1, ConnType
<1>3. ss \in Seq({"new", "getting", "stopped"})
  <2>1. c.sessions \in Seq({"new", "getting", "stopped"})
    BY <1>1 DEF Channel
  <2>. QED
    BY <2>1
<1>4. port \in Ports /\ DOMAIN port = DOMAIN c.port
  <2>1. port \in [DOMAIN c.port -> {"PRESTART", "PRETIMEOUT", "POSTTIMEOUT"}]
    BY <1>2
  <2>. HIDE DEF port
  <2>. QED
    BY <1>2, <2>1, Domains
<1>5. ps \subseteq Port /\ new \subseteq Message
  BY <1>2, Messages
<1>6. \A p \in DOMAIN c.port : /\ c.port[p] # "PRESTART" => port[p] = c.port[p]
                               /\ port[p] = "POSTTIMEOUT" => c.port[p] = "POSTTIMEOUT"
  OBVIOUS
<1>7. \A p \in ps : port[p] = "PRETIMEOUT" /\ c.port[p] = "PRESTART" /\ p \in DOMAIN c.port
  OBVIOUS
<1>8. \A p : <<"CHECKTIMEOUT", p>> \in new => p \in ps
  BY Distinct
<1>9. \A k : <<"DELETE", k>> \notin new
  BY Distinct
<1>10. StartGetAllPorts(c, gs) = d
  BY DEF StartGetAllPorts
<1>. HIDE DEF ps, ss, port, new
<1>11. /\ d \in Channel /\ d.conn = c.conn /\ d.best = c.best /\ d.port = port
       /\ d.ports = c.ports /\ d.writable = c.writable /\ d.was_writable = c.was_writable
       /\ d.was_timed_out = c.was_timed_out /\ d.waiting = c.waiting
       /\ d.connected = c.connected /\ d.posted = c.posted /\ d.delayed = c.delayed \cup new
  BY <1>1, <1>3, <1>4, <1>5 DEF Channel
<1>. HIDE DEF d
<1>12. Pointers(d) /\ ConnectionsEnd(d) /\ Remembered(d) /\ Allocating(d) /\ Pinging(d)
  BY <1>4, <1>11 DEF Core, Pointers, ConnectionsEnd, Remembered, Allocating, Pinging, Pending
<1>13. PortsEnd(d)
  BY <1>4, <1>6, <1>11 DEF Core, PortsEnd
<1>14. Addressed(c)
  BY DEF Core
<1>15. \A p \in Port : Queued(c.posted, <<"CHECKTIMEOUT", p>>) => p \notin ps
  BY <1>7, <1>14 DEF Addressed, Pending
<1>16. \A p \in Port : Pending(d, <<"CHECKTIMEOUT", p>>) =>
                         Pending(c, <<"CHECKTIMEOUT", p>>) \/ p \in ps
  BY <1>8, <1>11 DEF Pending
<1>17. \A p \in Port : Pending(d, <<"CHECKTIMEOUT", p>>) =>
                         p \in DOMAIN d.port /\ d.port[p] = "PRETIMEOUT"
  <2>1. SUFFICES ASSUME NEW p \in Port, Pending(d, <<"CHECKTIMEOUT", p>>)
                 PROVE  p \in DOMAIN d.port /\ d.port[p] = "PRETIMEOUT"
    OBVIOUS
  <2>2. CASE p \in ps
    BY <1>4, <1>7, <1>11, <2>2
  <2>3. CASE p \notin ps
    <3>1. p \in DOMAIN c.port /\ c.port[p] = "PRETIMEOUT"
      BY <1>14, <1>16, <2>1, <2>3 DEF Addressed
    <3>. QED
      BY <1>4, <1>6, <1>11, <3>1
  <2>. QED
    BY <2>2, <2>3
<1>18. Addressed(d)
  <2>1. CheckOnce(d)
    BY <1>11, <1>14 DEF Addressed, CheckOnce
  <2>2. \A p \in Port : Queued(d.posted, <<"CHECKTIMEOUT", p>>) =>
                          <<"CHECKTIMEOUT", p>> \notin d.delayed
    BY <1>8, <1>11, <1>14, <1>15 DEF Addressed
  <2>3. /\ \A k \in Conn : Queued(d.posted, <<"DELETE", k>>) => k \in DOMAIN d.conn
        /\ \A k \in Conn : <<"DELETE", k>> \notin d.delayed
    BY <1>9, <1>11, <1>14 DEF Addressed
  <2>. QED
    BY <1>17, <2>1, <2>2, <2>3 DEF Addressed
<1>. QED
  BY <1>10, <1>11, <1>12, <1>13, <1>18 DEF Core

(* RememberRemoteCandidate.                                                 *)
LEMMA RememberCore ==
  ASSUME NEW c, Core(c), NEW a \in Addr
  PROVE  Core(RememberRemoteCandidate(c, a))
<1>. DEFINE d == [c EXCEPT !.remote = @ \cup {a}, !.pinging = TRUE]
<1>1. c \in Channel /\ (c.best = None \/ c.best \in DOMAIN c.conn)
  BY DEF Core, Pointers
<1>2. /\ d \in Channel /\ d.conn = c.conn /\ d.best = c.best /\ d.port = c.port
      /\ d.ports = c.ports /\ d.writable = c.writable /\ d.was_writable = c.was_writable
      /\ d.was_timed_out = c.was_timed_out /\ d.waiting = c.waiting
      /\ d.connected = c.connected /\ d.posted = c.posted /\ d.delayed = c.delayed
  BY <1>1 DEF Channel
<1>. HIDE DEF d
<1>3. Core(d)
  BY <1>1, <1>2, CoreFields
<1>4. \A gs : Core(StartGetAllPorts(d, gs))
  BY <1>3, StartCore
<1>5. \/ RememberRemoteCandidate(c, a) = d
      \/ \E gs : RememberRemoteCandidate(c, a) = StartGetAllPorts(d, gs)
  BY DEF RememberRemoteCandidate, d
<1>. QED
  BY <1>3, <1>4, <1>5

(* Port::CheckTimeout: the ports that go have no connection and no check    *)
(* pending, and none that should have gone is left.                         *)
LEMMA PortsGoneFields ==
  ASSUME NEW c \in Channel, Pointers(c), Addressed(c)
  PROVE  LET d == PortsGone(c) IN
           /\ d \in Channel /\ d.conn = c.conn /\ d.best = c.best /\ d.dirty = c.dirty
           /\ d.writable = c.writable /\ d.was_writable = c.was_writable
           /\ d.was_timed_out = c.was_timed_out /\ d.waiting = c.waiting
           /\ d.connected = c.connected /\ d.posted = c.posted /\ d.delayed = c.delayed
           /\ Pointers(d) /\ Addressed(d) /\ PortsEnd(d)
<1>. DEFINE gone == {p \in DOMAIN c.port : /\ c.port[p] = "POSTTIMEOUT"
                                           /\ \A k \in DOMAIN c.conn : k[1] # p}
            port == [p \in DOMAIN c.port \ gone |-> c.port[p]]
            d == [c EXCEPT !.port = port, !.ports = c.ports \ gone]
<1>1. /\ DOMAIN c.port \subseteq Port
      /\ c.port \in [DOMAIN c.port -> {"PRESTART", "PRETIMEOUT", "POSTTIMEOUT"}]
  BY ConnType
<1>2. port \in Ports
  <2>1. port \in [DOMAIN c.port \ gone -> {"PRESTART", "PRETIMEOUT", "POSTTIMEOUT"}]
    BY <1>1
  <2>2. DOMAIN c.port \ gone \in SUBSET Port
    BY <1>1
  <2>. HIDE DEF port, gone
  <2>. QED
    BY <2>1, <2>2, Domains
<1>3. DOMAIN port = DOMAIN c.port \ gone /\ \A p \in DOMAIN port : port[p] = c.port[p]
  OBVIOUS
<1>4. \A p \in gone : c.port[p] = "POSTTIMEOUT" /\ \A k \in DOMAIN c.conn : k[1] # p
  OBVIOUS
<1>5. \A p \in DOMAIN c.port \ gone :
        c.port[p] = "POSTTIMEOUT" => \E k \in DOMAIN c.conn : k[1] = p
  OBVIOUS
<1>6. PortsGone(c) = d
  BY DEF PortsGone
<1>. HIDE DEF gone, port
<1>7. /\ d \in Channel /\ d.conn = c.conn /\ d.best = c.best /\ d.dirty = c.dirty
      /\ d.port = port /\ d.ports = c.ports \ gone
      /\ d.writable = c.writable /\ d.was_writable = c.was_writable
      /\ d.was_timed_out = c.was_timed_out /\ d.waiting = c.waiting
      /\ d.connected = c.connected /\ d.posted = c.posted /\ d.delayed = c.delayed
  BY <1>2 DEF Channel
<1>. HIDE DEF d
<1>8. Pointers(d)
  BY <1>3, <1>4, <1>7 DEF Pointers
<1>9. PortsEnd(d)
  BY <1>3, <1>5, <1>7 DEF PortsEnd
<1>10. Addressed(d)
  <2>1. \A p \in Port : Pending(d, <<"CHECKTIMEOUT", p>>) =>
                          p \in DOMAIN d.port /\ d.port[p] = "PRETIMEOUT"
    <3>1. SUFFICES ASSUME NEW p \in Port, Pending(d, <<"CHECKTIMEOUT", p>>)
                   PROVE  p \in DOMAIN d.port /\ d.port[p] = "PRETIMEOUT"
      OBVIOUS
    <3>2. p \in DOMAIN c.port /\ c.port[p] = "PRETIMEOUT"
      BY <1>7, <3>1 DEF Addressed, Pending
    <3>. QED
      BY <1>3, <1>4, <1>7, <3>2
  <2>2. CheckOnce(d)
    BY <1>7 DEF Addressed, CheckOnce
  <2>. QED
    BY <1>7, <2>1, <2>2 DEF Addressed
<1>. QED
  BY <1>6, <1>7, <1>8, <1>9, <1>10

-----------------------------------------------------------------------------
(* The queue.                                                               *)

(* The fields that no change of the messages touches.                       *)
Same(c, d) ==
  /\ d.conn = c.conn /\ d.best = c.best /\ d.port = c.port /\ d.ports = c.ports
  /\ d.remote = c.remote /\ d.sessions = c.sessions /\ d.dirty = c.dirty
  /\ d.writable = c.writable /\ d.was_writable = c.was_writable /\ d.pinging = c.pinging
  /\ d.was_timed_out = c.was_timed_out /\ d.waiting = c.waiting /\ d.connected = c.connected

(* A message that no connection or port waits for.                          *)
Plain(m) == /\ m \in Message
            /\ \A k : m # <<"DELETE", k>>
            /\ \A p : m # <<"CHECKTIMEOUT", p>>

(* The messages that are about no connection and no port.                   *)
LEMMA PlainMessages ==
  /\ Plain(<<"SORT">>) /\ Plain(<<"ALLOCATE">>) /\ Plain(<<"SIGNALINGREADY">>)
  /\ \A x \in {"Connect", "Reset"} : Plain(<<"PING", x>>)
  /\ \A a \in Candidates : Plain(<<"CANDIDATE", a>>)
<1>1. \A k : /\ <<"SORT">> # <<"DELETE", k>> /\ <<"SORT">> # <<"CHECKTIMEOUT", k>>
             /\ <<"ALLOCATE">> # <<"DELETE", k>> /\ <<"ALLOCATE">> # <<"CHECKTIMEOUT", k>>
             /\ <<"SIGNALINGREADY">> # <<"DELETE", k>>
             /\ <<"SIGNALINGREADY">> # <<"CHECKTIMEOUT", k>>
  BY Distinct
<1>2. \A x, k : /\ <<"PING", x>> # <<"DELETE", k>> /\ <<"PING", x>> # <<"CHECKTIMEOUT", k>>
                /\ <<"CANDIDATE", x>> # <<"DELETE", k>>
                /\ <<"CANDIDATE", x>> # <<"CHECKTIMEOUT", k>>
  BY Distinct
<1>. QED
  BY <1>1, <1>2, Messages DEF Plain

(* Messages are added and none is taken away.                               *)
LEMMA AddedGood ==
  ASSUME NEW c, NEW d \in Channel, NEW m, Plain(m), Same(c, d),
         \A y : Queued(c.posted, y) => Queued(d.posted, y),
         \A y : Queued(d.posted, y) => Queued(c.posted, y) \/ y = m,
         c.delayed \subseteq d.delayed, d.delayed \subseteq c.delayed \cup {m},
         CheckOnce(c) => CheckOnce(d)
  PROVE  (Core(c) => Core(d)) /\ (Good(c) => Good(d))
<1>1. ASSUME Core(c) PROVE Core(d)
  <2>1. /\ Pointers(c) /\ Addressed(c) /\ ConnectionsEnd(c) /\ PortsEnd(c)
        /\ Remembered(c) /\ Allocating(c) /\ Pinging(c)
    BY <1>1 DEF Core
  <2>2. Pointers(d) /\ PortsEnd(d) /\ Remembered(d)
    BY <2>1 DEF Pointers, PortsEnd, Remembered, Same
  <2>3. Allocating(d) /\ Pinging(d) /\ ConnectionsEnd(d)
    BY <2>1 DEF Allocating, Pinging, ConnectionsEnd, Pending, Same
  <2>4. /\ \A k : /\ Queued(d.posted, <<"DELETE", k>>) => Queued(c.posted, <<"DELETE", k>>)
                  /\ <<"DELETE", k>> \in d.delayed => <<"DELETE", k>> \in c.delayed
        /\ \A p : /\ Queued(d.posted, <<"CHECKTIMEOUT", p>>) => Queued(c.posted, <<"CHECKTIMEOUT", p>>)
                  /\ <<"CHECKTIMEOUT", p>> \in d.delayed => <<"CHECKTIMEOUT", p>> \in c.delayed
    BY DEF Plain
  <2>5. Addressed(d)
    BY <2>1, <2>4 DEF Addressed, Pending, Same
  <2>. QED
    BY <2>2, <2>3, <2>5 DEF Core
<1>2. ASSUME Good(c) PROVE Good(d)
  <2>1. Core(d)
    BY <1>1, <1>2 DEF Good
  <2>2. Sorting(d)
    BY <1>2 DEF Good, Sorting, Same
  <2>3. ~d.dirty => (d.writable <=> BestWritable(d))
    BY <1>2 DEF Good, BestWritable, Same
  <2>. QED
    BY <2>1, <2>2, <2>3 DEF Good
<1>. QED
  BY <1>1, <1>2

(* What Post and PostDelayed leave.                                         *)
LEMMA PostFields ==
  ASSUME NEW c \in Channel, NEW m \in Message
  PROVE  /\ Post(c, m) \in Channel /\ Same(c, Post(c, m)) /\ Post(c, m).delayed = c.delayed
         /\ \A y : Queued(Post(c, m).posted, y) <=> Queued(c.posted, y) \/ y = m
         /\ CheckOnce(c) /\ (m \in Checks => ~Queued(c.posted, m)) => CheckOnce(Post(c, m))
         /\ PostDelayed(c, m) \in Channel /\ Same(c, PostDelayed(c, m))
         /\ PostDelayed(c, m).posted = c.posted
         /\ PostDelayed(c, m).delayed = c.delayed \cup {m}
<1>. DEFINE q == Append(c.posted, m)
            d == [c EXCEPT !.posted = q]
<1>1. c.posted \in Seq(Message)
  BY DEF Channel
<1>2. /\ q \in Seq(Message) /\ \A y : Queued(q, y) <=> Queued(c.posted, y) \/ y = m
  BY <1>1, QueueAppend
<1>3. Once(c.posted, Checks) /\ (m \in Checks => ~Queued(c.posted, m)) => Once(q, Checks)
  BY <1>1, OnceAppend
<1>4. Post(c, m) = d
  BY DEF Post
<1>. HIDE DEF q
<1>5. d \in Channel /\ Same(c, d) /\ d.delayed = c.delayed /\ d.posted = q
  BY <1>2 DEF Channel, Same
<1>. HIDE DEF d
<1>6. CheckOnce(c) /\ (m \in Checks => ~Queued(c.posted, m)) => CheckOnce(d)
  BY <1>3, <1>5, CheckedOnce
<1>7. /\ PostDelayed(c, m) \in Channel /\ Same(c, PostDelayed(c, m))
      /\ PostDelayed(c, m).posted = c.posted
      /\ PostDelayed(c, m).delayed = c.delayed \cup {m}
  BY DEF PostDelayed, Channel, Same
<1>. QED
  BY <1>2, <1>4, <1>5, <1>6, <1>7

(* To post a plain message keeps the channel good.                          *)
LEMMA PostGood ==
  ASSUME NEW c, NEW m, Plain(m)
  PROVE  /\ Core(c) => Core(Post(c, m)) /\ Core(PostDelayed(c, m))
         /\ Good(c) => Good(Post(c, m)) /\ Good(PostDelayed(c, m))
<1>. SUFFICES ASSUME c \in Channel
              PROVE  /\ Core(c) => Core(Post(c, m)) /\ Core(PostDelayed(c, m))
                     /\ Good(c) => Good(Post(c, m)) /\ Good(PostDelayed(c, m))
  BY DEF Core, Good
<1>1. m \in Message /\ m \notin Checks
  BY DEF Plain, Checks
<1>. DEFINE d == Post(c, m)
            e == PostDelayed(c, m)
<1>2. /\ d \in Channel /\ Same(c, d) /\ d.delayed = c.delayed
      /\ \A y : Queued(d.posted, y) <=> Queued(c.posted, y) \/ y = m
      /\ CheckOnce(c) => CheckOnce(d)
      /\ e \in Channel /\ Same(c, e) /\ e.posted = c.posted /\ e.delayed = c.delayed \cup {m}
  BY <1>1, PostFields
<1>. HIDE DEF d, e
<1>3. CheckOnce(c) => CheckOnce(e)
  BY <1>2 DEF CheckOnce
<1>4. (Core(c) => Core(d)) /\ (Good(c) => Good(d))
  BY <1>2, AddedGood
<1>5. (Core(c) => Core(e)) /\ (Good(c) => Good(e))
  BY <1>2, <1>3, AddedGood
<1>. QED
  BY <1>4, <1>5 DEF d, e

(* The message that is handled is gone.                                     *)
LEMMA RestFields ==
  ASSUME ch \in Channel, NEW m, Handles(m)
  PROVE  /\ Rest \in Channel /\ Same(ch, Rest) /\ Rest.delayed = ch.delayed
         /\ m \in Message
         /\ \A y : Queued(ch.posted, y) <=> Queued(Rest.posted, y) \/ y = m
         /\ CheckOnce(ch) => CheckOnce(Rest) /\ (m \in Checks => ~Queued(Rest.posted, m))
<1>. DEFINE q == Tail(ch.posted)
            d == [ch EXCEPT !.posted = q]
<1>1. ch.posted \in Seq(Message) /\ ch.posted # <<>> /\ Head(ch.posted) = m
  BY DEF Channel, Handles
<1>2. /\ q \in Seq(Message) /\ \A y : Queued(ch.posted, y) <=> m = y \/ Queued(q, y)
  BY <1>1, QueueTail
<1>3. Once(ch.posted, Checks) => Once(q, Checks) /\ (m \in Checks => ~Queued(q, m))
  BY <1>1, OnceTail
<1>4. Rest = d /\ m \in Message
  BY <1>1 DEF Rest
<1>. HIDE DEF q
<1>5. d \in Channel /\ Same(ch, d) /\ d.delayed = ch.delayed /\ d.posted = q
  BY <1>2 DEF Channel, Same
<1>. HIDE DEF d
<1>6. CheckOnce(ch) => CheckOnce(d) /\ (m \in Checks => ~Queued(d.posted, m))
  BY <1>3, <1>5, CheckedOnce
<1>. QED
  BY <1>2, <1>4, <1>5, <1>6

(* What is left to do when it was handled: of Good only what the message    *)
(* stood for may be lost.                                                   *)
LEMMA RestParts ==
  ASSUME Good(ch), NEW m, Handles(m)
  PROVE  /\ Rest \in Channel /\ Same(ch, Rest) /\ Rest.delayed = ch.delayed
         /\ Pointers(Rest) /\ Addressed(Rest) /\ PortsEnd(Rest) /\ Remembered(Rest)
         /\ (\A k : m # <<"DELETE", k>>) => ConnectionsEnd(Rest)
         /\ m # <<"ALLOCATE">> => Allocating(Rest)
         /\ (\A x : m # <<"PING", x>>) => Pinging(Rest)
         /\ m # <<"SORT">> => Sorting(Rest)
         /\ ~Rest.dirty => (Rest.writable <=> BestWritable(Rest))
<1>0. /\ ch \in Channel /\ Pointers(ch) /\ Addressed(ch) /\ ConnectionsEnd(ch) /\ PortsEnd(ch)
      /\ Remembered(ch) /\ Allocating(ch) /\ Pinging(ch) /\ Sorting(ch)
      /\ ~ch.dirty => (ch.writable <=> BestWritable(ch))
  BY DEF Good, Core
<1>. DEFINE d == Rest
<1>1. /\ d \in Channel /\ Same(ch, d) /\ d.delayed = ch.delayed
      /\ \A y : Queued(ch.posted, y) <=> Queued(d.posted, y) \/ y = m
      /\ CheckOnce(ch) => CheckOnce(d)
  BY <1>0, RestFields
<1>. HIDE DEF d
<1>2. Pointers(d) /\ PortsEnd(d) /\ Remembered(d)
  BY <1>0, <1>1 DEF Pointers, PortsEnd, Remembered, Same
<1>3. Addressed(d)
  BY <1>0, <1>1 DEF Addressed, Pending, Same
<1>4. (\A k : m # <<"DELETE", k>>) => ConnectionsEnd(d)
  BY <1>0, <1>1 DEF ConnectionsEnd, Same
<1>5. m # <<"ALLOCATE">> => Allocating(d)
  BY <1>0, <1>1 DEF Allocating, Pending, Same
<1>6. (\A x : m # <<"PING", x>>) => Pinging(d)
  BY <1>0, <1>1 DEF Pinging, Pending, Same
<1>7. m # <<"SORT">> => Sorting(d)
  BY <1>0, <1>1 DEF Sorting, Same
<1>8. ~d.dirty => (d.writable <=> BestWritable(d))
  BY <1>0, <1>1 DEF BestWritable, Same
<1>. QED
  BY <1>1, <1>2, <1>3, <1>4, <1>5, <1>6, <1>7, <1>8 DEF d

-----------------------------------------------------------------------------
(* The actions.                                                             *)

(* The invariant says that the channel is good.                             *)
LEMMA InvGood ==
  ChannelInv <=> /\ Good(ch) /\ signaling \in BOOLEAN /\ served \in 0..MaxBurst /\ resets \in Nat
  BY DEF ChannelInv, TypeOK, Good, Core

(* It is enough that a call leaves a good channel.                          *)
LEMMA LeavesGood ==
  ASSUME NEW c, ch' = c, Good(c), signaling' \in BOOLEAN, served' \in 0..MaxBurst, resets' \in Nat
  PROVE  ChannelInv'
<1>1. Good(ch')
  OBVIOUS
<1>2. Good(ch)'
  BY <1>1 DEF Good, Core, Sorting, BestWritable, Pointers, Addressed, ConnectionsEnd, PortsEnd,
              Remembered, Allocating, Pinging, Pending, CheckOnce, Queued, Useless
<1>. QED
  BY <1>2 DEF ChannelInv, TypeOK, Good, Core

(* How many packets Wait may have handled.                                  *)
LEMMA Burst ==
  0 \in 0..MaxBurst /\ MaxBurst \in 0..MaxBurst /\ MaxBurst \div 2 \in 0..MaxBurst
<1>1. MaxBurst \in Nat
  BY ChannelAssumption
<1>. QED
  BY <1>1

(* The same for the actions that are steps of the worker.                   *)
LEMMA StepInv ==
  ASSUME ChannelInv, NEW c, Step(c), Good(c)
  PROVE  ChannelInv'
<1>1. ch' = c /\ resets' \in Nat /\ served' \in 0..MaxBurst /\ signaling' \in BOOLEAN
  BY InvGood, Burst DEF Step, Leave
<1>. QED
  BY <1>1, LeavesGood

(* Init, and what Reset leaves: a new channel, and messages of Transport.   *)
LEMMA LeftGood ==
  ASSUME NEW c \in Channel, \A y : Queued(c.posted, y) => y \in TransportMessage,
         c.conn = <<>>, c.port = <<>>, c.ports = {}, c.best = None, c.writable = FALSE,
         c.dirty = FALSE, c.was_writable = FALSE, c.connected = FALSE, c.delayed = {}
  PROVE  Good(c)
<1>1. DOMAIN <<>> = {}
  OBVIOUS
<1>2. \A k : <<"DELETE", k>> \notin TransportMessage /\ <<"CHECKTIMEOUT", k>> \notin TransportMessage
  <2>1. \A m \in TransportMessage : Plain(m)
    BY PlainMessages DEF TransportMessage
  <2>. QED
    BY <2>1 DEF Plain
<1>3. \A k : /\ ~Queued(c.posted, <<"DELETE", k>>) /\ ~Queued(c.posted, <<"CHECKTIMEOUT", k>>)
             /\ ~Pending(c, <<"CHECKTIMEOUT", k>>)
  BY <1>2 DEF Pending
<1>4. Pointers(c) /\ ConnectionsEnd(c) /\ PortsEnd(c)
  BY <1>1 DEF Pointers, ConnectionsEnd, PortsEnd
<1>5. CheckOnce(c)
  <2>1. \A i \in 1..Len(c.posted) : c.posted[i] \notin Checks
    BY <1>3 DEF Checks, Queued
  <2>. QED
    BY <2>1 DEF CheckOnce
<1>6. Addressed(c)
  BY <1>3, <1>5 DEF Addressed
<1>7. Remembered(c) /\ Allocating(c) /\ Pinging(c) /\ Sorting(c) /\ ~BestWritable(c)
  BY DEF Remembered, Allocating, Pinging, Sorting, BestWritable
<1>. QED
  BY <1>4, <1>6, <1>7 DEF Good, Core

(* The new channel itself, with some messages.                              *)
LEMMA NewFields ==
  ASSUME NEW q \in Seq(Message), NEW c, c = [NewChannel EXCEPT !.posted = q] \/ (q = <<>> /\ c = NewChannel)
  PROVE  /\ c \in Channel /\ c.posted = q
         /\ c.conn = <<>> /\ c.port = <<>> /\ c.ports = {} /\ c.best = None /\ c.writable = FALSE
         /\ c.dirty = FALSE /\ c.was_writable = FALSE /\ c.connected = FALSE /\ c.delayed = {}
<1>1. <<>> \in Connections /\ <<>> \in Ports
  <2>1. <<>> \in [{} -> Connection] /\ <<>> \in [{} -> {"PRESTART", "PRETIMEOUT", "POSTTIMEOUT"}]
    OBVIOUS
  <2>. QED
    BY <2>1, Domains
<1>2. NewChannel \in Channel /\ NewChannel.posted = <<>>
  BY <1>1 DEF NewChannel, Channel
<1>3. c \in Channel
  BY <1>2 DEF Channel
<1>. QED
  BY <1>2, <1>3 DEF NewChannel

(* The new channel is good.                                                 *)
LEMMA NewGood == Good(NewChannel)
<1>1. <<>> \in Seq(Message) /\ \A y : ~Queued(<<>>, y)
  BY DEF Queued
<1>2. PICK q, c : q = <<>> /\ c = NewChannel
  BY <1>1
<1>3. /\ c \in Channel /\ q \in Seq(Message) /\ c.posted = q
      /\ c.conn = <<>> /\ c.port = <<>> /\ c.ports = {} /\ c.best = None /\ c.writable = FALSE
      /\ c.dirty = FALSE /\ c.was_writable = FALSE /\ c.connected = FALSE /\ c.delayed = {}
  BY <1>1, <1>2, NewFields
<1>4. Good(c)
  BY <1>1, <1>2, <1>3, LeftGood
<1>. QED
  BY <1>2, <1>4

(* The constructor.                                                         *)
LEMMA InitInv == Init => ChannelInv
<1>. SUFFICES ASSUME Init PROVE ChannelInv
  OBVIOUS
<1>1. ch = NewChannel /\ signaling \in BOOLEAN /\ served \in 0..MaxBurst /\ resets \in Nat
  BY Burst DEF Init
<1>2. Good(ch)
  BY <1>1, NewGood
<1>. QED
  BY <1>1, <1>2, InvGood

(* Calls and messages from the other threads and the timers.                *)
LEMMA StepConnect ==
  ASSUME ChannelInv, Connect
  PROVE  ChannelInv'
<1>. DEFINE e == [ch EXCEPT !.connected = TRUE]
            d == Allocate(e)
            m == <<"PING", "Connect">>
<1>1. Good(ch) /\ Core(ch) /\ ch \in Channel
  BY InvGood DEF Good, Core
<1>2. /\ e \in Channel /\ e.conn = ch.conn /\ e.best = ch.best /\ e.port = ch.port
      /\ e.ports = ch.ports /\ e.dirty = ch.dirty /\ e.writable = ch.writable
      /\ e.was_writable = ch.was_writable /\ e.was_timed_out = ch.was_timed_out
      /\ e.waiting = ch.waiting /\ e.connected = TRUE
      /\ e.posted = ch.posted /\ e.delayed = ch.delayed
  BY <1>1 DEF Channel
<1>. HIDE DEF e
<1>3. /\ Reports(e, d) /\ d.waiting = TRUE /\ d.writable = e.writable
      /\ d.was_writable = e.was_writable /\ d.was_timed_out = e.was_timed_out
  BY <1>2, AllocateReports
<1>4. Step(Post(d, m))
  BY DEF Connect, e
<1>. HIDE DEF d
<1>5. m \in Message /\ d \in Channel /\ m \notin Checks /\ Plain(m)
  BY <1>3, PlainMessages DEF Reports, Plain, Checks
<1>. DEFINE f == Post(d, m)
<1>6. /\ f \in Channel /\ Same(d, f) /\ f.delayed = d.delayed
      /\ \A y : Queued(f.posted, y) <=> Queued(d.posted, y) \/ y = m
      /\ CheckOnce(d) => CheckOnce(f)
  BY <1>5, PostFields
<1>. HIDE DEF f
<1>7. /\ \A y : y # <<"ALLOCATE">> => (Queued(ch.posted, y) => Queued(f.posted, y))
      /\ \A y : Queued(f.posted, y) => Queued(ch.posted, y) \/ y = m
      /\ f.delayed \subseteq ch.delayed
      /\ CheckOnce(ch) => CheckOnce(f)
  <2>1. CheckOnce(ch) => CheckOnce(e)
    BY <1>2 DEF CheckOnce
  <2>. QED
    BY <1>2, <1>3, <1>6, <2>1 DEF Reports
<1>8. /\ f.conn = ch.conn /\ f.best = ch.best /\ f.port = ch.port /\ f.ports = ch.ports
      /\ f.dirty = ch.dirty /\ f.writable = ch.writable /\ f.was_writable = ch.was_writable
      /\ f.was_timed_out = ch.was_timed_out /\ f.waiting = TRUE
  BY <1>2, <1>3, <1>6 DEF Reports, Same
<1>9. Pointers(f) /\ PortsEnd(f) /\ Remembered(f)
  BY <1>1, <1>8 DEF Core, Pointers, PortsEnd, Remembered
<1>10. Addressed(f)
  <2>1. Addressed(ch)
    BY <1>1 DEF Core
  <2>2. \A k : m # <<"DELETE", k>> /\ m # <<"CHECKTIMEOUT", k>>
    BY <1>5 DEF Plain
  <2>3. \A p : Pending(f, <<"CHECKTIMEOUT", p>>) => Pending(ch, <<"CHECKTIMEOUT", p>>)
    BY <1>7, <2>2 DEF Pending
  <2>. QED
    BY <1>7, <1>8, <2>1, <2>2, <2>3 DEF Addressed
<1>11. ConnectionsEnd(f) /\ Sorting(f)
  <2>1. ConnectionsEnd(ch) /\ Sorting(ch)
    BY <1>1 DEF Core, Good
  <2>2. \A k : <<"DELETE", k>> # <<"ALLOCATE">> /\ <<"SORT">> # <<"ALLOCATE">>
    BY Distinct
  <2>. QED
    BY <1>7, <1>8, <2>1, <2>2 DEF ConnectionsEnd, Sorting
<1>12. Allocating(f) /\ Pinging(f)
  <2>1. Queued(f.posted, m)
    BY <1>6
  <2>. QED
    BY <1>8, <2>1 DEF Allocating, Pinging, Pending
<1>13. ~f.dirty => (f.writable <=> BestWritable(f))
  BY <1>1, <1>8 DEF Good, BestWritable
<1>14. Good(f)
  BY <1>6, <1>9, <1>10, <1>11, <1>12, <1>13 DEF Good, Core
<1>. QED
  BY <1>4, <1>14, StepInv DEF f

(* Reset leaves a new channel that pings.                                   *)
LEMMA StepReset ==
  ASSUME ChannelInv, Reset
  PROVE  ChannelInv'
<1>. DEFINE own == Range(ch.posted) \ TransportMessage
            q == Cleared(ch.posted, own)
            c == [NewChannel EXCEPT !.posted = q]
<1>1. ch.posted \in Seq(Message) /\ resets \in Nat /\ signaling \in BOOLEAN
  BY DEF ChannelInv, TypeOK, Channel
<1>2. /\ q \in Seq(Message)
      /\ \A y : Queued(q, y) <=> Queued(ch.posted, y) /\ y \notin own
  BY <1>1, ClearedQueue
<1>3. ASSUME NEW y, Queued(q, y) PROVE y \in TransportMessage
  <2>1. Queued(ch.posted, y) /\ y \notin own
    BY <1>2, <1>3
  <2>2. y \in Range(ch.posted)
    BY <1>1, <2>1 DEF Queued, Range
  <2>. QED
    BY <2>1, <2>2
<1>. HIDE DEF q
<1>4. Good(c)
  BY <1>2, <1>3, NewFields, LeftGood
<1>5. Good(Post(c, <<"PING", "Reset">>))
  BY <1>4, PlainMessages, PostGood
<1>6. /\ ch' = Post(c, <<"PING", "Reset">>)
      /\ signaling' = signaling /\ served' = MaxBurst /\ resets' = resets + 1
  BY DEF Reset, q
<1>7. served' \in 0..MaxBurst /\ resets' \in Nat
  BY <1>1, <1>6, Burst
<1>. QED
  BY <1>1, <1>5, <1>6, <1>7, LeavesGood

(* What the signaling thread posts.                                         *)
LEMMA StepPosted ==
  ASSUME ChannelInv, SignalingReady \/ \E a \in Candidates : RemoteCandidate(a)
  PROVE  ChannelInv'
<1>1. PICK m : /\ Plain(m) /\ ch' = Post(ch, m)
               /\ signaling' \in BOOLEAN /\ served' \in 0..MaxBurst /\ resets' \in Nat
  <2>1. served' \in 0..MaxBurst
    BY Burst, InvGood DEF SignalingReady, RemoteCandidate, Interrupts
  <2>2. signaling' \in BOOLEAN /\ resets' \in Nat
    BY InvGood DEF SignalingReady, RemoteCandidate
  <2>3. \E m : Plain(m) /\ ch' = Post(ch, m)
    BY PlainMessages DEF SignalingReady, RemoteCandidate
  <2>. QED
    BY <2>1, <2>2, <2>3
<1>2. Good(Post(ch, m))
  BY <1>1, PostGood, InvGood
<1>. QED
  BY <1>1, <1>2, LeavesGood

(* A check that is due was not queued.                                      *)
LEMMA StepDue ==
  ASSUME ChannelInv, Due
  PROVE  ChannelInv'
<1>1. PICK m \in ch.delayed :
        /\ ch' = Post([ch EXCEPT !.delayed = @ \ {m}], m)
        /\ signaling' \in BOOLEAN /\ served' \in 0..MaxBurst /\ resets' \in Nat
  <2>1. served' \in 0..MaxBurst /\ signaling' \in BOOLEAN /\ resets' \in Nat
    BY Burst, InvGood DEF Due
  <2>2. \E m \in ch.delayed : ch' = Post([ch EXCEPT !.delayed = @ \ {m}], m)
    BY DEF Due
  <2>. QED
    BY <2>1, <2>2
<1>. DEFINE c == [ch EXCEPT !.delayed = @ \ {m}]
            d == Post(c, m)
<1>2. Good(ch) /\ ch \in Channel
  BY InvGood DEF Good, Core
<1>3. c \in Channel /\ Same(ch, c) /\ c.delayed = ch.delayed \ {m} /\ c.posted = ch.posted
  BY <1>2 DEF Channel, Same
<1>4. m \in Message
  BY <1>2 DEF Channel
<1>. HIDE DEF c
<1>5. /\ d \in Channel /\ Same(c, d) /\ d.delayed = c.delayed
      /\ \A y : Queued(d.posted, y) <=> Queued(c.posted, y) \/ y = m
      /\ CheckOnce(c) /\ (m \in Checks => ~Queued(c.posted, m)) => CheckOnce(d)
  BY <1>3, <1>4, PostFields
<1>. HIDE DEF d
<1>6. Addressed(ch)
  BY <1>2 DEF Good, Core
<1>7. m \in Checks => ~Queued(ch.posted, m)
  BY <1>6 DEF Addressed, Checks
<1>8. Same(ch, d)
  BY <1>3, <1>5 DEF Same
<1>9. \A y : Pending(d, y) <=> Pending(ch, y)
  BY <1>3, <1>5 DEF Pending
<1>10. \A y : Queued(ch.posted, y) => Queued(d.posted, y)
  BY <1>3, <1>5
<1>11. Pointers(d) /\ PortsEnd(d) /\ Remembered(d)
  BY <1>2, <1>8 DEF Good, Core, Pointers, PortsEnd, Remembered, Same
<1>12. ConnectionsEnd(d) /\ Sorting(d)
  BY <1>2, <1>8, <1>10 DEF Good, Core, ConnectionsEnd, Sorting, Same
<1>13. Allocating(d) /\ Pinging(d)
  BY <1>2, <1>8, <1>9 DEF Good, Core, Allocating, Pinging, Same
<1>14. ~d.dirty => (d.writable <=> BestWritable(d))
  BY <1>2, <1>8 DEF Good, BestWritable, Same
<1>15. Addressed(d)
  <2>1. CheckOnce(d)
    <3>1. CheckOnce(ch) => CheckOnce(c)
      BY <1>3 DEF CheckOnce
    <3>. QED
      BY <1>3, <1>5, <1>6, <1>7, <3>1 DEF Addressed
  <2>2. \A k \in Conn : Pending(d, <<"DELETE", k>>) => Queued(ch.posted, <<"DELETE", k>>)
    BY <1>6, <1>9 DEF Addressed, Pending
  <2>3. \A k \in Conn : Queued(d.posted, <<"DELETE", k>>) => k \in DOMAIN d.conn
    BY <1>6, <1>8, <2>2 DEF Addressed, Same, Pending
  <2>4. \A k \in Conn : <<"DELETE", k>> \notin d.delayed
    BY <1>3, <1>5, <1>6 DEF Addressed
  <2>5. \A p \in Port : Pending(d, <<"CHECKTIMEOUT", p>>) =>
                          p \in DOMAIN d.port /\ d.port[p] = "PRETIMEOUT"
    BY <1>6, <1>8, <1>9 DEF Addressed, Same
  <2>6. \A p \in Port : Queued(d.posted, <<"CHECKTIMEOUT", p>>) => <<"CHECKTIMEOUT", p>> \notin d.delayed
    BY <1>3, <1>5, <1>6 DEF Addressed
  <2>. QED
    BY <2>1, <2>3, <2>4, <2>5, <2>6 DEF Addressed
<1>16. Good(d)
  BY <1>5, <1>11, <1>12, <1>13, <1>14, <1>15 DEF Good, Core
<1>17. ch' = d
  BY <1>1 DEF d, c
<1>. QED
  BY <1>1, <1>16, <1>17, LeavesGood

(* OnSignalingReady: the allocation is pending when it no longer waits.     *)
LEMMA StepSignalingReady ==
  ASSUME ChannelInv, OnSignalingReady
  PROVE  ChannelInv'
<1>. DEFINE m == <<"SIGNALINGREADY">>
            ss == Append(Rest.sessions, IF ch.pinging THEN "getting" ELSE "new")
            c == [Rest EXCEPT !.waiting = FALSE, !.ports = {}, !.sessions = ss]
            d == PostDelayed(c, <<"ALLOCATE">>)
<1>1. Good(ch) /\ ch \in Channel /\ Handles(m)
  BY InvGood DEF Good, Core, OnSignalingReady
<1>2. /\ \A k : m # <<"DELETE", k>> /\ m # <<"PING", k>>
      /\ m # <<"ALLOCATE">> /\ m # <<"SORT">>
  BY Distinct
<1>. HIDE DEF m
<1>3. /\ Rest \in Channel /\ Same(ch, Rest) /\ Rest.delayed = ch.delayed
      /\ Pointers(Rest) /\ Addressed(Rest) /\ PortsEnd(Rest) /\ Remembered(Rest)
      /\ ConnectionsEnd(Rest) /\ Allocating(Rest) /\ Pinging(Rest) /\ Sorting(Rest)
      /\ ~Rest.dirty => (Rest.writable <=> BestWritable(Rest))
  BY <1>1, <1>2, RestParts
<1>4. Good(Rest)
  BY <1>3 DEF Good, Core
<1>5. CASE Step(Rest)
  BY <1>4, <1>5, StepInv
<1>6. CASE Step(d)
  <2>1. ss \in Seq({"new", "getting", "stopped"})
    <3>1. Rest.sessions \in Seq({"new", "getting", "stopped"})
      BY <1>3 DEF Channel
    <3>. QED
      BY <3>1
  <2>. HIDE DEF ss
  <2>2. /\ c \in Channel /\ c.conn = Rest.conn /\ c.best = Rest.best /\ c.port = Rest.port
        /\ c.ports = {} /\ c.dirty = Rest.dirty /\ c.writable = Rest.writable
        /\ c.was_writable = Rest.was_writable /\ c.was_timed_out = Rest.was_timed_out
        /\ c.connected = Rest.connected /\ c.posted = Rest.posted /\ c.delayed = Rest.delayed
    BY <1>3, <2>1 DEF Channel
  <2>. HIDE DEF c
  <2>3. <<"ALLOCATE">> \in Message /\ \A k : /\ <<"ALLOCATE">> # <<"DELETE", k>>
                                             /\ <<"ALLOCATE">> # <<"CHECKTIMEOUT", k>>
    BY PlainMessages DEF Plain
  <2>4. /\ d \in Channel /\ Same(c, d) /\ d.posted = c.posted
        /\ d.delayed = c.delayed \cup {<<"ALLOCATE">>}
    BY <2>2, <2>3, PostFields
  <2>. HIDE DEF d
  <2>5. /\ d.conn = Rest.conn /\ d.best = Rest.best /\ d.port = Rest.port
        /\ d.ports = {} /\ d.dirty = Rest.dirty /\ d.writable = Rest.writable
        /\ d.was_writable = Rest.was_writable /\ d.was_timed_out = Rest.was_timed_out
        /\ d.connected = Rest.connected /\ d.posted = Rest.posted
        /\ d.delayed = Rest.delayed \cup {<<"ALLOCATE">>}
    BY <2>2, <2>4 DEF Same
  <2>6. Pointers(d) /\ PortsEnd(d) /\ Remembered(d) /\ ConnectionsEnd(d) /\ Sorting(d)
    BY <1>3, <2>5 DEF Pointers, PortsEnd, Remembered, ConnectionsEnd, Sorting
  <2>7. Allocating(d) /\ Pinging(d)
    BY <1>3, <2>5 DEF Allocating, Pinging, Pending
  <2>8. Addressed(d)
    BY <1>3, <2>3, <2>5 DEF Addressed, Pending, CheckOnce
  <2>9. ~d.dirty => (d.writable <=> BestWritable(d))
    BY <1>3, <2>5 DEF BestWritable
  <2>10. Good(d)
    BY <2>4, <2>6, <2>7, <2>8, <2>9 DEF Good, Core
  <2>. QED
    BY <1>6, <2>10, StepInv
<1>. QED
  BY <1>5, <1>6 DEF OnSignalingReady

(* MSG_ALLOCATE.                                                            *)
LEMMA StepAllocate ==
  ASSUME ChannelInv, OnAllocate
  PROVE  ChannelInv'
<1>. DEFINE d == Allocate(Rest)
            r == Rest
<1>1. Good(ch) /\ Core(ch) /\ ch \in Channel /\ Handles(<<"ALLOCATE">>)
  BY InvGood DEF Good, Core, OnAllocate
<1>2. /\ r \in Channel /\ Same(ch, r) /\ r.delayed = ch.delayed
      /\ \A y : Queued(ch.posted, y) <=> Queued(r.posted, y) \/ y = <<"ALLOCATE">>
      /\ CheckOnce(ch) => CheckOnce(r)
  BY <1>1, RestFields
<1>3. Reports(r, d) /\ d.waiting = TRUE /\ d.writable = r.writable
      /\ d.was_writable = r.was_writable /\ d.was_timed_out = r.was_timed_out
  BY <1>2, AllocateReports
<1>4. Step(d)
  BY DEF OnAllocate
<1>. HIDE DEF d, r
<1>5. Reports(ch, d)
  BY <1>2, <1>3 DEF Reports, Same
<1>6. Remembered(d) /\ Allocating(d)
  BY <1>1, <1>2, <1>3 DEF Core, Remembered, Allocating, Same
<1>7. Core(d) /\ Sorting(d)
  BY <1>1, <1>5, <1>6, ReportsCore DEF Good
<1>8. ~d.dirty => (d.writable <=> BestWritable(d))
  BY <1>1, <1>2, <1>3, <1>5 DEF Good, BestWritable, Reports, Same
<1>. QED
  BY <1>4, <1>7, <1>8, StepInv DEF Good

(* MSG_SORT.                                                                *)
LEMMA StepSort ==
  ASSUME ChannelInv, OnSort
  PROVE  ChannelInv'
<1>1. Good(ch) /\ Handles(<<"SORT">>)
  BY InvGood DEF OnSort
<1>2. \A k : <<"SORT">> # <<"DELETE", k>> /\ <<"SORT">> # <<"PING", k>> /\ <<"SORT">> # <<"ALLOCATE">>
  BY Distinct
<1>3. Core(Rest)
  BY <1>1, <1>2, RestParts DEF Core
<1>4. PICK c \in SortConnections(Rest, {}) : Step(c)
  BY DEF OnSort
<1>. QED
  BY <1>3, <1>4, SortConnectionsGood, StepInv

(* OnCandidate.                                                             *)
LEMMA StepCandidate ==
  ASSUME ChannelInv, NEW a \in Candidates, OnCandidate(a)
  PROVE  ChannelInv'
<1>. DEFINE m == <<"CANDIDATE", a>>
            c == CreateConnections(Rest, ch.ports, a)
            d == RememberRemoteCandidate(c, a)
<1>1. Good(ch) /\ Handles(m) /\ a \in Addr
  BY InvGood, ChannelAssumption DEF OnCandidate, Candidates
<1>2. \A k : m # <<"DELETE", k>> /\ m # <<"PING", k>> /\ m # <<"ALLOCATE">>
  BY Distinct
<1>. HIDE DEF m
<1>3. Core(Rest) /\ Same(ch, Rest)
  BY <1>1, <1>2, RestParts DEF Core
<1>4. ch.ports \in SUBSET DOMAIN Rest.port
  BY <1>1, <1>3 DEF Good, Core, Pointers, Same
<1>5. Core(c)
  BY <1>1, <1>3, <1>4, CreateCore
<1>. HIDE DEF c
<1>6. Core(d)
  BY <1>1, <1>5, RememberCore
<1>. HIDE DEF d
<1>7. PICK e \in SortConnections(d, {}) : Step(e)
  BY DEF OnCandidate, d, c
<1>. QED
  BY <1>6, <1>7, SortConnectionsGood, StepInv

(* Connection::Ping: the states stay.                                       *)
LEMMA RequestStirs ==
  ASSUME NEW c \in Channel, NEW conn \in [DOMAIN c.conn -> Connection],
         \A k \in DOMAIN c.conn : conn[k].read = c.conn[k].read /\ conn[k].write = c.conn[k].write
  PROVE  Stirs(c, [c EXCEPT !.conn = conn])
<1>. DEFINE d == [c EXCEPT !.conn = conn]
<1>1. conn \in Connections
  <2>1. DOMAIN c.conn \in SUBSET Conn
    BY ConnType
  <2>. QED
    BY <2>1, Domains
<1>2. d \in Channel /\ Apart(c, d) /\ d.conn = conn /\ d.dirty = c.dirty /\ d.posted = c.posted
  BY <1>1 DEF Channel, Apart
<1>. HIDE DEF d
<1>3. CheckOnce(c) => CheckOnce(d)
  BY <1>2 DEF CheckOnce
<1>4. \A k \in DOMAIN c.conn : Useless(d.conn[k]) => Useless(c.conn[k])
  BY <1>2 DEF Useless
<1>5. Stirs(c, d)
  BY <1>2, <1>3, <1>4 DEF Stirs
<1>. QED
  BY <1>5 DEF d

(* OnPing: the next ping is pending before the last one is forgotten.       *)
LEMMA StepPing ==
  ASSUME ChannelInv, NEW chain \in {"Connect", "Reset"}, OnPing(chain)
  PROVE  ChannelInv'
<1>. DEFINE m == <<"PING", chain>>
            r == Rest
            s == PostDelayed(r, m)
<1>1. Good(ch) /\ Handles(m) /\ Plain(m) /\ m \in Message
  BY InvGood, PlainMessages DEF OnPing, Plain
<1>2. m # <<"ALLOCATE">> /\ m # <<"SORT">>
  BY Distinct
<1>3. PICK c \in Updated(r, {}) :
        \/ Step(PostDelayed(c, m))
        \/ \E k \in DOMAIN c.conn : Step(PostDelayed(Ping(c, k), m))
  BY DEF OnPing
<1>4. PICK w1, w2, w3 : c = UpdateConnectionStates(r, w1, w2, w3)
  BY DEF Updated
<1>. HIDE DEF m
<1>5. /\ r \in Channel /\ Pointers(r) /\ Addressed(r) /\ PortsEnd(r) /\ Remembered(r)
      /\ ConnectionsEnd(r) /\ Allocating(r) /\ Sorting(r)
      /\ ~r.dirty => (r.writable <=> BestWritable(r))
  <2>1. \A k : m # <<"DELETE", k>>
    BY <1>1 DEF Plain
  <2>. QED
    BY <1>1, <1>2, <2>1, RestParts
<1>. HIDE DEF r
<1>6. Stirs(r, c)
  BY <1>4, <1>5, MethodsStir
<1>7. /\ s \in Channel /\ Same(r, s) /\ s.posted = r.posted /\ s.delayed = r.delayed \cup {m}
  BY <1>1, <1>5, PostFields
<1>8. Good(s)
  <2>. HIDE DEF s
  <2>1. \A k : m # <<"DELETE", k>> /\ m # <<"CHECKTIMEOUT", k>>
    BY <1>1 DEF Plain
  <2>2. Pinging(s)
    BY <1>7 DEF Pinging, Pending, m
  <2>3. Pointers(s) /\ PortsEnd(s) /\ Remembered(s) /\ ConnectionsEnd(s) /\ Sorting(s)
    BY <1>5, <1>7 DEF Pointers, PortsEnd, Remembered, ConnectionsEnd, Sorting, Same
  <2>4. Allocating(s)
    BY <1>5, <1>7 DEF Allocating, Pending, Same
  <2>5. Addressed(s)
    BY <1>5, <1>7, <2>1 DEF Addressed, Pending, CheckOnce, Same
  <2>6. ~s.dirty => (s.writable <=> BestWritable(s))
    BY <1>5, <1>7 DEF BestWritable, Same
  <2>. QED
    BY <1>7, <2>2, <2>3, <2>4, <2>5, <2>6 DEF Good, Core
<1>. HIDE DEF s
<1>9. ASSUME NEW d, Stirs(r, d) PROVE Stirs(s, PostDelayed(d, m))
  <2>. DEFINE e == PostDelayed(d, m)
  <2>1. /\ e \in Channel /\ Same(d, e) /\ e.posted = d.posted /\ e.delayed = d.delayed \cup {m}
        /\ e.readable = d.readable /\ s.readable = r.readable
    <3>1. d \in Channel
      BY <1>9 DEF Stirs
    <3>2. /\ e \in Channel /\ Same(d, e) /\ e.posted = d.posted
          /\ e.delayed = d.delayed \cup {m}
      BY <1>1, <3>1, PostFields
    <3>3. e.readable = d.readable /\ s.readable = r.readable
      BY <1>5, <3>1 DEF PostDelayed, Channel, s
    <3>. QED
      BY <3>2, <3>3
  <2>. HIDE DEF e
  <2>2. Apart(s, e)
    BY <1>7, <1>9, <2>1 DEF Stirs, Apart, Same
  <2>3. (CheckOnce(s) => CheckOnce(r)) /\ (CheckOnce(d) => CheckOnce(e))
    BY <1>7, <2>1 DEF CheckOnce
  <2>4. CheckOnce(s) => CheckOnce(e)
    BY <1>9, <2>3 DEF Stirs
  <2>5. /\ s.conn = r.conn /\ e.conn = d.conn /\ s.dirty = r.dirty /\ e.dirty = d.dirty
        /\ s.posted = r.posted /\ e.posted = d.posted /\ e \in Channel
    BY <1>7, <2>1 DEF Same
  <2>6. Stirs(s, e)
    BY <1>9, <2>2, <2>4, <2>5 DEF Stirs
  <2>. QED
    BY <2>6 DEF e
<1>10. ASSUME NEW k \in DOMAIN c.conn PROVE Stirs(r, Ping(c, k))
  <2>. DEFINE conn == [c.conn EXCEPT ![k] = [c.conn[k] EXCEPT !.pings = TRUE, !.req = TRUE]]
              n == [c.conn[k] EXCEPT !.pings = TRUE, !.req = TRUE]
  <2>1. c \in Channel
    BY <1>6 DEF Stirs
  <2>2. c.conn \in [DOMAIN c.conn -> Connection] /\ c.conn[k] \in Connection
    BY <2>1, ConnType
  <2>3. n \in Connection /\ n.read = c.conn[k].read /\ n.write = c.conn[k].write
    BY <2>2 DEF Connection
  <2>4. Ping(c, k) = [c EXCEPT !.conn = conn]
    BY <2>1, <2>2 DEF Ping, Channel
  <2>. HIDE DEF n
  <2>5. conn = [c.conn EXCEPT ![k] = n]
    BY DEF n
  <2>6. /\ conn \in [DOMAIN c.conn -> Connection]
        /\ \A l \in DOMAIN c.conn : conn[l].read = c.conn[l].read /\ conn[l].write = c.conn[l].write
    BY <2>2, <2>3, <2>5
  <2>. HIDE DEF conn
  <2>7. Stirs(c, [c EXCEPT !.conn = conn])
    BY <2>1, <2>6, RequestStirs
  <2>. QED
    BY <1>6, <2>4, <2>7, StirsTwice
<1>11. PICK d : Stirs(r, d) /\ Step(PostDelayed(d, m))
  BY <1>3, <1>6, <1>10
<1>12. Good(PostDelayed(d, m))
  BY <1>8, <1>9, <1>11, StirsGood
<1>. QED
  BY <1>11, <1>12, StepInv

(* Port::OnMessage: the check was the only one.                             *)
LEMMA StepCheckTimeout ==
  ASSUME ChannelInv, NEW p \in Port, OnCheckTimeout(p)
  PROVE  ChannelInv'
<1>. DEFINE m == <<"CHECKTIMEOUT", p>>
            r == Rest
            c == [r EXCEPT !.port[p] = "POSTTIMEOUT"]
            d == PortsGone(c)
<1>1. Good(ch) /\ Handles(m) /\ Step(d) /\ ch \in Channel
  BY InvGood DEF OnCheckTimeout, Good, Core
<1>2. \A k : m # <<"DELETE", k>> /\ m # <<"PING", k>> /\ m # <<"ALLOCATE">> /\ m # <<"SORT">>
  BY Distinct
<1>3. /\ r \in Channel /\ Pointers(r) /\ Addressed(r) /\ PortsEnd(r) /\ Remembered(r)
      /\ ConnectionsEnd(r) /\ Allocating(r) /\ Pinging(r) /\ Sorting(r)
      /\ ~r.dirty => (r.writable <=> BestWritable(r))
      /\ Same(ch, r) /\ r.delayed = ch.delayed
  BY <1>1, <1>2, RestParts
<1>4. ~Pending(r, m) /\ p \in DOMAIN r.port
  <2>1. Addressed(ch)
    BY <1>1 DEF Good, Core
  <2>2. m \in Checks
    BY DEF Checks
  <2>3. Queued(ch.posted, m) /\ ~Queued(r.posted, m)
    BY <1>1, <2>1, <2>2, RestFields DEF Addressed
  <2>. QED
    BY <1>3, <2>1, <2>3 DEF Addressed, Pending, Same
<1>. HIDE DEF r
<1>5. /\ DOMAIN r.port \subseteq Port
      /\ r.port \in [DOMAIN r.port -> {"PRESTART", "PRETIMEOUT", "POSTTIMEOUT"}]
  BY <1>3, ConnType
<1>. DEFINE port == [r.port EXCEPT ![p] = "POSTTIMEOUT"]
<1>6. /\ port \in Ports /\ DOMAIN port = DOMAIN r.port
      /\ \A q \in DOMAIN r.port : q # p => port[q] = r.port[q]
  <2>1. port \in [DOMAIN r.port -> {"PRESTART", "PRETIMEOUT", "POSTTIMEOUT"}]
    BY <1>5
  <2>2. port \in Ports
    <3>. HIDE DEF port
    <3>. QED
      BY <1>5, <2>1, Domains
  <2>. QED
    BY <1>5, <2>1, <2>2
<1>7. c = [r EXCEPT !.port = port]
  OBVIOUS
<1>. HIDE DEF port
<1>8. /\ c \in Channel /\ c.conn = r.conn /\ c.best = r.best /\ c.port = port
      /\ c.ports = r.ports /\ c.dirty = r.dirty /\ c.writable = r.writable
      /\ c.was_writable = r.was_writable /\ c.was_timed_out = r.was_timed_out
      /\ c.waiting = r.waiting /\ c.connected = r.connected
      /\ c.posted = r.posted /\ c.delayed = r.delayed
  BY <1>3, <1>6, <1>7 DEF Channel
<1>. HIDE DEF c
<1>9. Pointers(c)
  BY <1>3, <1>6, <1>8 DEF Pointers
<1>10. Addressed(c)
  <2>1. \A y : Pending(c, y) <=> Pending(r, y)
    BY <1>8 DEF Pending
  <2>2. \A q \in Port : Pending(c, <<"CHECKTIMEOUT", q>>) =>
                          q \in DOMAIN c.port /\ c.port[q] = "PRETIMEOUT"
    <3>1. SUFFICES ASSUME NEW q \in Port, Pending(r, <<"CHECKTIMEOUT", q>>)
                   PROVE  q \in DOMAIN c.port /\ c.port[q] = "PRETIMEOUT"
      BY <2>1
    <3>2. q \in DOMAIN r.port /\ r.port[q] = "PRETIMEOUT" /\ q # p
      BY <1>3, <1>4, <3>1 DEF Addressed
    <3>. QED
      BY <1>6, <1>8, <3>2
  <2>3. CheckOnce(c)
    BY <1>3, <1>8 DEF Addressed, CheckOnce
  <2>. QED
    BY <1>3, <1>8, <2>2, <2>3 DEF Addressed
<1>11. /\ d \in Channel /\ d.conn = c.conn /\ d.best = c.best /\ d.dirty = c.dirty
       /\ d.writable = c.writable /\ d.was_writable = c.was_writable
       /\ d.was_timed_out = c.was_timed_out /\ d.waiting = c.waiting
       /\ d.connected = c.connected /\ d.posted = c.posted /\ d.delayed = c.delayed
       /\ Pointers(d) /\ Addressed(d) /\ PortsEnd(d)
  BY <1>8, <1>9, <1>10, PortsGoneFields
<1>. HIDE DEF d
<1>12. Remembered(d) /\ ConnectionsEnd(d) /\ Sorting(d)
  BY <1>3, <1>8, <1>11 DEF Remembered, ConnectionsEnd, Sorting
<1>13. Allocating(d) /\ Pinging(d)
  BY <1>3, <1>8, <1>11 DEF Allocating, Pinging, Pending
<1>14. ~d.dirty => (d.writable <=> BestWritable(d))
  BY <1>3, <1>8, <1>11 DEF BestWritable
<1>15. Good(d)
  BY <1>11, <1>12, <1>13, <1>14 DEF Good, Core
<1>. QED
  BY <1>1, <1>15, StepInv

(* OnPortReady.                                                             *)
LEMMA StepPortReady ==
  ASSUME ChannelInv, NEW p \in Port, NEW life \in {"PRESTART", "PRETIMEOUT"}, OnPortReady(p, life)
  PROVE  ChannelInv'
<1>. DEFINE m == <<"CHECKTIMEOUT", p>>
            port == [q \in DOMAIN ch.port \cup {p} |-> IF q = p THEN life ELSE ch.port[q]]
            conn == [k \in DOMAIN ch.conn \cup ({p} \X ch.remote) |->
                       IF k \in DOMAIN ch.conn THEN ch.conn[k] ELSE NewConnection]
            c == [ch EXCEPT !.port = port, !.ports = @ \cup {p}, !.conn = conn]
            d == IF life = "PRETIMEOUT" THEN PostDelayed(c, m) ELSE c
<1>1. Good(ch) /\ Core(ch) /\ ch \in Channel
  BY InvGood DEF Good, Core
<1>2. PICK e \in SortConnections(d, {}) : Step(e)
  BY DEF OnPortReady
<1>3. p \notin DOMAIN ch.port
  BY DEF OnPortReady
<1>4. /\ DOMAIN ch.conn \subseteq Conn /\ \A k \in DOMAIN ch.conn : ch.conn[k] \in Connection
      /\ DOMAIN ch.port \subseteq Port
      /\ ch.port \in [DOMAIN ch.port -> {"PRESTART", "PRETIMEOUT", "POSTTIMEOUT"}]
      /\ ch.remote \subseteq Addr
  BY <1>1, ConnType DEF Channel
<1>5. /\ port \in Ports /\ DOMAIN port = DOMAIN ch.port \cup {p} /\ port[p] = life
      /\ \A q \in DOMAIN ch.port : port[q] = ch.port[q]
  <2>1. port \in [DOMAIN ch.port \cup {p} -> {"PRESTART", "PRETIMEOUT", "POSTTIMEOUT"}]
    BY <1>4
  <2>2. DOMAIN ch.port \cup {p} \in SUBSET Port
    BY <1>4
  <2>3. port \in Ports
    <3>. HIDE DEF port
    <3>. QED
      BY <2>1, <2>2, Domains
  <2>. QED
    BY <1>3, <2>3
<1>6. /\ conn \in Connections /\ DOMAIN ch.conn \subseteq DOMAIN conn
      /\ \A k \in DOMAIN ch.conn : conn[k] = ch.conn[k]
      /\ \A k \in DOMAIN conn \ DOMAIN ch.conn : ~Useless(conn[k]) /\ k[1] = p
  <2>1. NewConnection \in Connection /\ ~Useless(NewConnection)
    BY DEF NewConnection, Connection, Useless
  <2>2. conn \in [DOMAIN ch.conn \cup ({p} \X ch.remote) -> Connection]
    BY <1>4, <2>1
  <2>3. DOMAIN ch.conn \cup ({p} \X ch.remote) \in SUBSET Conn
    BY <1>4 DEF Conn
  <2>4. conn \in Connections
    <3>. HIDE DEF conn
    <3>. QED
      BY <2>2, <2>3, Domains
  <2>. QED
    BY <2>1, <2>4
<1>. HIDE DEF port, conn
<1>7. /\ c \in Channel /\ c.conn = conn /\ c.port = port /\ c.ports = ch.ports \cup {p}
      /\ c.best = ch.best /\ c.writable = ch.writable /\ c.was_writable = ch.was_writable
      /\ c.was_timed_out = ch.was_timed_out /\ c.waiting = ch.waiting
      /\ c.connected = ch.connected /\ c.posted = ch.posted /\ c.delayed = ch.delayed
  BY <1>1, <1>5, <1>6 DEF Channel
<1>. HIDE DEF c
<1>8. m \in Message /\ ~Pending(ch, m)
  BY <1>1, <1>3, Messages DEF Core, Addressed
<1>9. /\ d \in Channel /\ d.conn = conn /\ d.port = port /\ d.ports = ch.ports \cup {p}
      /\ d.best = ch.best /\ d.writable = ch.writable /\ d.was_writable = ch.was_writable
      /\ d.was_timed_out = ch.was_timed_out /\ d.waiting = ch.waiting
      /\ d.connected = ch.connected /\ d.posted = ch.posted
      /\ d.delayed = ch.delayed \cup (IF life = "PRETIMEOUT" THEN {m} ELSE {})
  <2>1. /\ PostDelayed(c, m) \in Channel /\ Same(c, PostDelayed(c, m))
        /\ PostDelayed(c, m).posted = c.posted
        /\ PostDelayed(c, m).delayed = c.delayed \cup {m}
    BY <1>7, <1>8, PostFields
  <2>. QED
    BY <1>7, <2>1 DEF Same
<1>. HIDE DEF d
<1>10. Pointers(d)
  BY <1>1, <1>5, <1>6, <1>9 DEF Core, Pointers
<1>11. ConnectionsEnd(d) /\ PortsEnd(d)
  BY <1>1, <1>5, <1>6, <1>9 DEF Core, ConnectionsEnd, PortsEnd
<1>12. Remembered(d) /\ Allocating(d) /\ Pinging(d)
  BY <1>1, <1>9 DEF Core, Remembered, Allocating, Pinging, Pending
<1>13. Addressed(d)
  <2>1. Addressed(ch)
    BY <1>1 DEF Core
  <2>2. CheckOnce(d)
    BY <1>9, <2>1 DEF Addressed, CheckOnce
  <2>3. /\ \A k : <<"DELETE", k>> \in d.delayed => <<"DELETE", k>> \in ch.delayed
        /\ \A q : <<"CHECKTIMEOUT", q>> \in d.delayed =>
                    <<"CHECKTIMEOUT", q>> \in ch.delayed \/ (q = p /\ life = "PRETIMEOUT")
    BY <1>9, Distinct
  <2>4. \A q \in Port : Pending(d, <<"CHECKTIMEOUT", q>>) =>
                          q \in DOMAIN d.port /\ d.port[q] = "PRETIMEOUT"
    <3>1. SUFFICES ASSUME NEW q \in Port, Pending(d, <<"CHECKTIMEOUT", q>>)
                   PROVE  q \in DOMAIN d.port /\ d.port[q] = "PRETIMEOUT"
      OBVIOUS
    <3>2. Pending(ch, <<"CHECKTIMEOUT", q>>) \/ (q = p /\ life = "PRETIMEOUT")
      BY <1>9, <2>3, <3>1 DEF Pending
    <3>3. CASE Pending(ch, <<"CHECKTIMEOUT", q>>)
      <4>1. q \in DOMAIN ch.port /\ ch.port[q] = "PRETIMEOUT"
        BY <2>1, <3>3 DEF Addressed
      <4>. QED
        BY <1>5, <1>9, <4>1
    <3>4. CASE q = p /\ life = "PRETIMEOUT"
      BY <1>5, <1>9, <3>4
    <3>. QED
      BY <3>2, <3>3, <3>4
  <2>5. \A q \in Port : Queued(d.posted, <<"CHECKTIMEOUT", q>>) => <<"CHECKTIMEOUT", q>> \notin d.delayed
    BY <1>8, <1>9, <2>1, <2>3 DEF Addressed, Pending
  <2>6. \A k \in Conn : Queued(d.posted, <<"DELETE", k>>) => k \in DOMAIN d.conn
    BY <1>6, <1>9, <2>1 DEF Addressed
  <2>. QED
    BY <2>1, <2>2, <2>3, <2>4, <2>5, <2>6 DEF Addressed
<1>14. Core(d)
  BY <1>9, <1>10, <1>11, <1>12, <1>13 DEF Core
<1>. QED
  BY <1>2, <1>14, SortConnectionsGood, StepInv

(* Connection::OnMessage: its end, and that of its port.                    *)
LEMMA StepDelete ==
  ASSUME ChannelInv, NEW k \in Conn, OnDelete(k)
  PROVE  ChannelInv'
<1>. DEFINE m == <<"DELETE", k>>
            r == Rest
            conn == [l \in DOMAIN r.conn \ {k} |-> r.conn[l]]
            q == Cleared(r.posted, {m})
            c == [r EXCEPT !.conn = conn, !.posted = q]
            d == PortsGone(c)
            e == [d EXCEPT !.best = None]
            n == IF d.best = k THEN RequestSort(e) ELSE d
<1>1. Good(ch) /\ Core(ch) /\ ch \in Channel /\ Handles(m)
  BY InvGood DEF Good, Core, OnDelete
<1>2. Step(n)
  BY DEF OnDelete
<1>3. /\ r \in Channel /\ Same(ch, r) /\ r.delayed = ch.delayed
      /\ \A y : Queued(ch.posted, y) <=> Queued(r.posted, y) \/ y = m
      /\ CheckOnce(ch) => CheckOnce(r)
  BY <1>1, RestFields
<1>. HIDE DEF r
<1>4. r.conn = ch.conn /\ DOMAIN r.conn \subseteq Conn /\ r.conn \in [DOMAIN r.conn -> Connection]
  BY <1>3, ConnType DEF Same
<1>5. /\ conn \in Connections /\ DOMAIN conn = DOMAIN ch.conn \ {k}
      /\ \A l \in DOMAIN conn : conn[l] = ch.conn[l]
  <2>1. conn \in [DOMAIN r.conn \ {k} -> Connection] /\ DOMAIN r.conn \ {k} \in SUBSET Conn
    BY <1>4
  <2>2. conn \in Connections
    <3>. HIDE DEF conn
    <3>. QED
      BY <2>1, Domains
  <2>. QED
    BY <1>4, <2>2
<1>6. /\ q \in Seq(Message) /\ \A y : Queued(q, y) <=> Queued(r.posted, y) /\ y \notin {m}
      /\ Once(r.posted, Checks) => Once(q, Checks)
  <2>1. r.posted \in Seq(Message)
    BY <1>3 DEF Channel
  <2>. QED
    BY <2>1, ClearedQueue
<1>. HIDE DEF conn, q
<1>7. /\ c \in Channel /\ c.conn = conn /\ c.posted = q /\ c.delayed = ch.delayed
      /\ c.best = ch.best /\ c.port = ch.port /\ c.ports = ch.ports /\ c.dirty = ch.dirty
      /\ c.writable = ch.writable /\ c.was_writable = ch.was_writable
      /\ c.was_timed_out = ch.was_timed_out /\ c.waiting = ch.waiting
      /\ c.connected = ch.connected
  BY <1>3, <1>5, <1>6 DEF Channel, Same
<1>. HIDE DEF c
<1>8. \A y : Queued(c.posted, y) <=> Queued(ch.posted, y) /\ y # m
  BY <1>3, <1>6, <1>7
<1>. DEFINE f == [c EXCEPT !.best = IF @ = k THEN None ELSE @]
            g == PortsGone(f)
<1>9. /\ f \in Channel /\ f.conn = conn /\ f.posted = q /\ f.delayed = ch.delayed
      /\ f.best = (IF ch.best = k THEN None ELSE ch.best)
      /\ f.port = ch.port /\ f.ports = ch.ports
  BY <1>7 DEF Channel
<1>. HIDE DEF f
<1>10. Pointers(f)
  <2>1. Pointers(ch)
    BY <1>1 DEF Core
  <2>. QED
    BY <1>5, <1>9, <2>1 DEF Pointers
<1>11. Addressed(f)
  <2>1. Addressed(ch)
    BY <1>1 DEF Core
  <2>2. CheckOnce(f)
    BY <1>3, <1>6, <1>9, <2>1, CheckedOnce DEF Addressed
  <2>3. \A y : Queued(f.posted, y) <=> Queued(ch.posted, y) /\ y # m
    BY <1>7, <1>8, <1>9
  <2>4. \A l \in Conn : Queued(f.posted, <<"DELETE", l>>) => l \in DOMAIN f.conn
    BY <1>5, <1>9, <2>1, <2>3 DEF Addressed
  <2>. QED
    BY <1>9, <2>1, <2>2, <2>3, <2>4 DEF Addressed, Pending
<1>12. Pointers(g) /\ Addressed(g) /\ PortsEnd(g) /\ g \in Channel /\ g.conn = conn
       /\ g.best = (IF ch.best = k THEN None ELSE ch.best)
  BY <1>9, <1>10, <1>11, PortsGoneFields
(* What PortsGone does does not depend on the best connection.              *)
<1>13. /\ g.port = d.port /\ g.ports = d.ports /\ g.posted = d.posted /\ g.delayed = d.delayed
       /\ d \in Channel /\ d.conn = conn /\ d.posted = q /\ d.delayed = ch.delayed
       /\ d.best = ch.best /\ d.dirty = ch.dirty
       /\ d.writable = ch.writable /\ d.was_writable = ch.was_writable
       /\ d.was_timed_out = ch.was_timed_out /\ d.waiting = ch.waiting
       /\ d.connected = ch.connected
  <2>. DEFINE gone == {p \in DOMAIN ch.port : /\ ch.port[p] = "POSTTIMEOUT"
                                              /\ \A l \in DOMAIN conn : l[1] # p}
              port == [p \in DOMAIN ch.port \ gone |-> ch.port[p]]
  <2>1. d = [c EXCEPT !.port = port, !.ports = ch.ports \ gone]
    BY <1>7 DEF PortsGone
  <2>2. g = [f EXCEPT !.port = port, !.ports = ch.ports \ gone]
    BY <1>9 DEF PortsGone
  <2>3. port \in Ports
    <3>1. g.port = port
      BY <1>9, <2>2 DEF Channel
    <3>. QED
      BY <1>12, <3>1 DEF Channel
  <2>. HIDE DEF gone, port, d, g
  <2>4. g.port = port /\ g.ports = ch.ports \ gone /\ g.posted = q /\ g.delayed = ch.delayed
    BY <1>9, <2>2 DEF Channel
  <2>5. /\ d \in Channel /\ d.port = port /\ d.ports = ch.ports \ gone
        /\ d.conn = conn /\ d.posted = q /\ d.delayed = ch.delayed
        /\ d.best = ch.best /\ d.dirty = ch.dirty
        /\ d.writable = ch.writable /\ d.was_writable = ch.was_writable
        /\ d.was_timed_out = ch.was_timed_out /\ d.waiting = ch.waiting
        /\ d.connected = ch.connected
    BY <1>7, <2>1, <2>3 DEF Channel
  <2>. QED
    BY <2>4, <2>5
<1>. HIDE DEF d, g
<1>14. /\ e \in Channel /\ e.best = None /\ e.port = d.port /\ e.ports = d.ports
       /\ e.conn = conn /\ e.posted = q /\ e.delayed = ch.delayed /\ e.dirty = ch.dirty
       /\ e.writable = ch.writable /\ e.was_writable = ch.was_writable
       /\ e.was_timed_out = ch.was_timed_out /\ e.waiting = ch.waiting
       /\ e.connected = ch.connected
  BY <1>13 DEF Channel
<1>. HIDE DEF e
<1>. DEFINE h == IF d.best = k THEN e ELSE d
<1>15. /\ h \in Channel /\ h.best = g.best /\ h.port = g.port /\ h.ports = g.ports
       /\ h.conn = conn /\ h.posted = q /\ h.delayed = ch.delayed /\ h.dirty = ch.dirty
       /\ g.conn = conn /\ g.posted = q /\ g.delayed = ch.delayed
       /\ h.writable = ch.writable /\ h.was_writable = ch.was_writable
       /\ h.was_timed_out = ch.was_timed_out /\ h.waiting = ch.waiting
       /\ h.connected = ch.connected
  BY <1>12, <1>13, <1>14
<1>. HIDE DEF h
<1>16. \A y : Queued(h.posted, y) <=> Queued(ch.posted, y) /\ y # m
  BY <1>7, <1>8, <1>15
<1>17. Pointers(h) /\ PortsEnd(h)
  BY <1>12, <1>15 DEF Pointers, PortsEnd
<1>18. Addressed(h)
  BY <1>12, <1>15 DEF Addressed, Pending, CheckOnce
<1>19. ConnectionsEnd(h)
  <2>1. ConnectionsEnd(ch) /\ \A l : l # k => <<"DELETE", l>> # m
    BY <1>1, Distinct DEF Core
  <2>. QED
    BY <1>5, <1>15, <1>16, <2>1 DEF ConnectionsEnd
<1>20. Remembered(h) /\ Allocating(h) /\ Pinging(h) /\ Sorting(h)
  <2>1. m # <<"ALLOCATE">> /\ m # <<"SORT">> /\ \A x : m # <<"PING", x>>
    BY Distinct
  <2>. QED
    BY <1>1, <1>15, <1>16, <2>1
       DEF Good, Core, Remembered, Allocating, Pinging, Sorting, Pending
<1>21. Core(h)
  BY <1>15, <1>17, <1>18, <1>19, <1>20 DEF Core
<1>22. CASE d.best = k
  <2>1. h = e /\ n = RequestSort(h)
    BY <1>22 DEF h
  <2>. DEFINE s == RequestSort(h)
  <2>2. /\ s \in Channel /\ Apart(h, s) /\ s.conn = h.conn /\ s.dirty
        /\ h.dirty \/ Queued(s.posted, <<"SORT">>)
        /\ \A y : Queued(s.posted, y) => Queued(h.posted, y) \/ y = <<"SORT">>
        /\ \A y : Queued(h.posted, y) => Queued(s.posted, y)
        /\ CheckOnce(h) => CheckOnce(s)
    BY <1>15, RequestSortFields
  <2>. HIDE DEF s
  <2>3. Stirs(h, s)
    BY <2>2 DEF Stirs
  <2>4. Core(s)
    BY <1>21, <2>3, StirsCore
  <2>5. Sorting(s)
    BY <1>20, <2>2 DEF Sorting
  <2>. QED
    BY <1>2, <2>1, <2>2, <2>4, <2>5, StepInv DEF Good, s
<1>23. CASE d.best # k
  <2>1. h = d /\ n = h
    BY <1>23 DEF h
  <2>2. ~h.dirty => (h.writable <=> BestWritable(h))
    <3>1. h.best = ch.best /\ (ch.best = None \/ ch.best \in DOMAIN conn)
      BY <1>1, <1>5, <1>13, <1>23, <2>1 DEF Core, Pointers
    <3>2. BestWritable(h) <=> BestWritable(ch)
      BY <1>5, <1>15, <3>1 DEF BestWritable
    <3>. QED
      BY <1>1, <1>15, <3>2 DEF Good
  <2>. QED
    BY <1>2, <1>20, <1>21, <2>1, <2>2, StepInv DEF Good
<1>. QED
  BY <1>22, <1>23

(* Packets.                                                                 *)
LEMMA PacketInv ==
  ASSUME ChannelInv, NEW c, Leave(c), NEW p \in Port, Served(p), Good(c)
  PROVE  ChannelInv'
<1>1. ch' = c /\ resets' \in Nat /\ served' \in 0..MaxBurst /\ signaling' \in BOOLEAN
  BY InvGood, ChannelAssumption DEF Leave, Served
<1>. QED
  BY <1>1, LeavesGood

(* A binding request of an unknown address.                                 *)
LEMMA StepUnknownAddress ==
  ASSUME ChannelInv, NEW p \in Port, NEW a \in Addr, OnUnknownAddress(p, a)
  PROVE  ChannelInv'
<1>. DEFINE ps == ch.ports \cup {p}
            ks == {<<q, a>> : q \in ps}
            b == CreateConnections(ch, ps, a)
            c == ReceivedPing(b, ks)
            d == RememberRemoteCandidate(c, a)
<1>1. Core(ch) /\ Served(p)
  BY InvGood DEF Good, OnUnknownAddress
<1>2. ps \in SUBSET DOMAIN ch.port
  BY <1>1 DEF Core, Pointers, Served
<1>3. PICK e \in SortConnections(d, ks) : Leave(e)
  BY DEF OnUnknownAddress
<1>. HIDE DEF ps, ks
<1>4. Core(b)
  BY <1>1, <1>2, CreateCore
<1>. HIDE DEF b
<1>5. Stirs(b, c)
  BY <1>4, MethodsStir DEF Core
<1>. HIDE DEF c
<1>6. Core(c)
  BY <1>4, <1>5, StirsCore
<1>7. Core(d)
  BY <1>6, RememberCore
<1>8. Good(e)
  BY <1>3, <1>7, SortConnectionsGood
<1>. QED
  BY <1>1, <1>3, <1>8, PacketInv

(* A binding request of a known one.                                        *)
LEMMA StepBindingRequest ==
  ASSUME ChannelInv, NEW k \in Conn, OnBindingRequest(k)
  PROVE  ChannelInv'
<1>. DEFINE c == ReceivedPing(ch, {k})
            d == TryAgain(c, k)
<1>1. Good(ch) /\ ch \in Channel /\ k \in DOMAIN ch.conn /\ k[1] \in Port
  BY InvGood DEF Good, Core, OnBindingRequest, Conn
<1>2. Leave(d) /\ Served(k[1])
  BY DEF OnBindingRequest
<1>3. Stirs(ch, c)
  BY <1>1, MethodsStir
<1>. HIDE DEF c
<1>4. c \in Channel /\ k \in DOMAIN c.conn
  BY <1>1, <1>3 DEF Stirs
<1>5. Stirs(c, d)
  BY <1>4, MethodsStir
<1>. HIDE DEF d
<1>6. Good(d)
  BY <1>1, <1>3, <1>5, StirsGood
<1>. QED
  BY <1>1, <1>2, <1>6, PacketInv

(* The answer to a ping.                                                    *)
LEMMA StepResponse ==
  ASSUME ChannelInv, NEW k \in Conn,
         OnResponse(k) \/ \E fatal \in BOOLEAN : OnErrorResponse(k, fatal)
  PROVE  ChannelInv'
<1>1. Good(ch) /\ ch \in Channel /\ k \in DOMAIN ch.conn /\ k[1] \in Port
  BY InvGood DEF Good, Core, OnResponse, OnErrorResponse, Conn
<1>2. ch.conn \in [DOMAIN ch.conn -> Connection] /\ ch.conn[k] \in Connection
  BY <1>1, ConnType
<1>3. PICK conn : /\ conn \in [DOMAIN ch.conn -> Connection]
                  /\ Leave(SetStates(ch, conn)) /\ Served(k[1])
  <2>1. ASSUME OnResponse(k)
        PROVE  \E conn : /\ conn \in [DOMAIN ch.conn -> Connection]
                         /\ Leave(SetStates(ch, conn)) /\ Served(k[1])
    <3>. DEFINE n == [ch.conn[k] EXCEPT !.write = "WRITABLE", !.pings = FALSE]
                conn == [ch.conn EXCEPT ![k].write = "WRITABLE", ![k].pings = FALSE]
    <3>1. n \in Connection
      BY <1>2 DEF Connection
    <3>2. conn = [ch.conn EXCEPT ![k] = n]
      BY <1>1, <1>2
    <3>3. Leave(SetStates(ch, conn)) /\ Served(k[1])
      BY <2>1 DEF OnResponse
    <3>. HIDE DEF n, conn
    <3>4. conn \in [DOMAIN ch.conn -> Connection]
      BY <1>2, <3>1, <3>2
    <3>. QED
      BY <3>3, <3>4
  <2>2. ASSUME NEW fatal \in BOOLEAN, OnErrorResponse(k, fatal)
        PROVE  \E conn : /\ conn \in [DOMAIN ch.conn -> Connection]
                         /\ Leave(SetStates(ch, conn)) /\ Served(k[1])
    <3>. DEFINE conn == [ch.conn EXCEPT ![k].write = IF fatal THEN "TIMEOUT" ELSE @]
    <3>1. conn \in [DOMAIN ch.conn -> Connection]
      BY <1>2 DEF Connection
    <3>2. Leave(SetStates(ch, conn)) /\ Served(k[1])
      BY <2>2 DEF OnErrorResponse
    <3>. HIDE DEF conn
    <3>. QED
      BY <3>1, <3>2
  <2>. QED
    BY <2>1, <2>2
<1>4. Stirs(ch, SetStates(ch, conn))
  BY <1>1, <1>3, SetStatesStirs
<1>5. Good(SetStates(ch, conn))
  BY <1>1, <1>4, StirsGood
<1>. QED
  BY <1>1, <1>3, <1>5, PacketInv

(* Data, which shows that the peer is there.                                *)
LEMMA StepData ==
  ASSUME ChannelInv, NEW k \in Conn, OnData(k)
  PROVE  ChannelInv'
<1>1. Good(ch) /\ ch \in Channel /\ k \in DOMAIN ch.conn /\ k[1] \in Port
  BY InvGood DEF Good, Core, OnData, Conn
<1>2. Leave(TryAgain(ch, k)) /\ Served(k[1])
  BY DEF OnData
<1>3. Stirs(ch, TryAgain(ch, k))
  BY <1>1, MethodsStir
<1>4. Good(TryAgain(ch, k))
  BY <1>1, <1>3, StirsGood
<1>. QED
  BY <1>1, <1>2, <1>4, PacketInv

(* A ping that is not answered.                                             *)
LEMMA StepRequestTimeout ==
  ASSUME ChannelInv, NEW k \in Conn, OnRequestTimeout(k)
  PROVE  ChannelInv'
<1>. DEFINE n == [ch.conn[k] EXCEPT !.req = FALSE]
            conn == [ch.conn EXCEPT ![k] = n]
            d == [ch EXCEPT !.conn = conn]
<1>1. Good(ch) /\ ch \in Channel /\ k \in DOMAIN ch.conn
  BY InvGood DEF Good, Core, OnRequestTimeout
<1>2. ch.conn \in [DOMAIN ch.conn -> Connection] /\ ch.conn[k] \in Connection
  BY <1>1, ConnType
<1>3. n \in Connection /\ n.read = ch.conn[k].read /\ n.write = ch.conn[k].write
  BY <1>2 DEF Connection
<1>4. ch' = d
  BY <1>1, <1>2 DEF OnRequestTimeout, Channel
<1>. HIDE DEF n
<1>5. /\ conn \in [DOMAIN ch.conn -> Connection]
      /\ \A l \in DOMAIN ch.conn :
           conn[l].read = ch.conn[l].read /\ conn[l].write = ch.conn[l].write
  BY <1>2, <1>3
<1>. HIDE DEF conn
<1>6. Stirs(ch, d)
  BY <1>1, <1>5, RequestStirs
<1>7. Good(d)
  BY <1>1, <1>6, StirsGood
<1>8. signaling' \in BOOLEAN /\ served' \in 0..MaxBurst /\ resets' \in Nat
  BY InvGood DEF OnRequestTimeout
<1>. QED
  BY <1>4, <1>7, <1>8, LeavesGood

-----------------------------------------------------------------------------
(* Every step keeps the invariant.                                          *)
LEMMA NextInv == ChannelInv /\ [Next]_vars => ChannelInv'
<1>. SUFFICES ASSUME ChannelInv, [Next]_vars PROVE ChannelInv'
  OBVIOUS
<1>1. CASE Connect
  BY <1>1, StepConnect
<1>2. CASE Reset
  BY <1>2, StepReset
<1>3. CASE Due
  BY <1>3, StepDue
<1>4. CASE SignalingReady \/ \E a \in Candidates : RemoteCandidate(a)
  BY <1>4, StepPosted
<1>5. CASE OnSignalingReady
  BY <1>5, StepSignalingReady
<1>6. CASE OnAllocate
  BY <1>6, StepAllocate
<1>7. CASE OnSort
  BY <1>7, StepSort
<1>8. CASE \E chain \in {"Connect", "Reset"} : OnPing(chain)
  BY <1>8, StepPing
<1>9. CASE \E a \in Candidates : OnCandidate(a)
  BY <1>9, StepCandidate
<1>10. CASE \E p \in Port : OnCheckTimeout(p)
  BY <1>10, StepCheckTimeout
<1>11. CASE \E p \in Port, life \in {"PRESTART", "PRETIMEOUT"} : OnPortReady(p, life)
  BY <1>11, StepPortReady
<1>12. CASE \E p \in Port, a \in Addr : OnUnknownAddress(p, a)
  BY <1>12, StepUnknownAddress
<1>13. ASSUME NEW k \in Conn,
              \/ OnDelete(k) \/ OnBindingRequest(k) \/ OnResponse(k)
              \/ \E fatal \in BOOLEAN : OnErrorResponse(k, fatal)
              \/ OnData(k) \/ OnRequestTimeout(k)
       PROVE  ChannelInv'
  BY <1>13, StepDelete, StepBindingRequest, StepResponse, StepData, StepRequestTimeout
<1>14. CASE UNCHANGED vars
  <2>1. ch' = ch /\ signaling' = signaling /\ served' = served /\ resets' = resets
    BY <1>14 DEF vars
  <2>2. Good(ch) /\ signaling' \in BOOLEAN /\ served' \in 0..MaxBurst /\ resets' \in Nat
    BY <2>1, InvGood
  <2>. QED
    BY <2>1, <2>2, LeavesGood
<1>. QED
  BY <1>1, <1>2, <1>3, <1>4, <1>5, <1>6, <1>7, <1>8, <1>9, <1>10, <1>11, <1>12, <1>13, <1>14
     DEF Next

(* The inductive invariant of the channel holds in every state.             *)
THEOREM ChannelInvariant == Spec => []ChannelInv
  BY InitInv, NextInv, PTL DEF Spec

(* No pointer of the channel, of a port or of a queued message outlives     *)
(* what it points to.                                                       *)
THEOREM NothingOutlived == Spec => []NoDangling
<1>1. ChannelInv => NoDangling
  BY DEF ChannelInv, Pointers, Addressed, Pending, NoDangling
<1>. QED
  BY <1>1, ChannelInvariant, PTL

(* The assertion of UpdateChannelState: unless a sort is queued the channel *)
(* is writable exactly if its best connection is.                           *)
THEOREM WritableFollowsBest == Spec => []WritableIsBest
<1>1. ChannelInv => WritableIsBest
  BY DEF ChannelInv, Sorting, BestWritable, WritableIsBest
<1>. QED
  BY <1>1, ChannelInvariant, PTL

(* A connected channel pings for ever, and one that is not writable is on   *)
(* its way to new ports.                                                    *)
THEOREM NeverGivesUp == Spec => []KeepsTrying
<1>1. ChannelInv => KeepsTrying
  BY DEF ChannelInv, Allocating, Pinging, KeepsTrying
<1>. QED
  BY <1>1, ChannelInvariant, PTL

(* Useless connections and ports are on their way out.                      *)
THEOREM UselessReclaimed == Spec => []Reclaimed
<1>1. ChannelInv => Reclaimed
  BY DEF ChannelInv, ConnectionsEnd, PortsEnd, Pending, Reclaimed
<1>. QED
  BY <1>1, ChannelInvariant, PTL
=============================================================================
