------------------------- MODULE PseudoTcpChannel --------------------------
(***************************************************************************)
(* One end of a tunnel: PseudoTcpChannel with its InternalStream           *)
(* (talk/session/tunnel/pseudotcpchannel.cc) and the TunnelSession that    *)
(* drives it (talk/session/tunnel/tunnelsessionclient.cc).                 *)
(*                                                                         *)
(* Three threads use the object: "si", the signaling thread, which runs    *)
(* the session, "wk", the worker, which runs the transport channel and the *)
(* PseudoTcp, and the stream thread of the owner of the stream.  They meet *)
(* in the lock cs_ and in the messages they post to each other.  A method  *)
(* that takes cs_ is a call (pc[t] names what the thread is in), a step    *)
(* under the lock, and Leave, which releases it: what may happen between   *)
(* the last statement of a method and the end of its CritScope matters     *)
(* here, because one of the messages deletes the object.                   *)
(*                                                                         *)
(* The PseudoTcp is reduced to its state, its shutdown mode and whether it *)
(* has data to read, or data and acknowledgements to send.                 *)
(***************************************************************************)
EXTENDS Naturals, Sequences, FiniteSets, MessageQueue

CONSTANTS
  Initiators,    \* did this end create the tunnel?  TRUE, FALSE or either
  SharedThread,  \* is the stream thread the worker, as it is under cif/?
  CloseEarly,    \* may the owner close a stream that is not connected yet?
  OtherTunnels,  \* are there other tunnels, which look for their stream?
  MaxEvents      \* events queued for the stream beyond which nobody writes

ASSUME ChannelAssumption ==
  /\ {SharedThread, CloseEarly, OtherTunnels} \subseteq BOOLEAN
  /\ Initiators \subseteq BOOLEAN /\ Initiators # {}
  /\ MaxEvents \in Nat

VARIABLES
  initiator,  \* Session::initiator()
  ptr,        \* the members session_, channel_, worker_thread_, stream_ that are not NULL
  tcp,        \* "NULL", or the state of tcp_
  shutdown,   \* PseudoTcp::m_shutdown
  busy,       \* has tcp_ something to send, to be acknowledged or to acknowledge?
  data,       \* is there something to read?
  flags,      \* the flags that are set
  si, wk, st, \* what is queued for the object on each thread
  pc,         \* pc[t]: the method thread t is in
  cs,         \* the thread that holds cs_, or "none"
  sess,       \* the session, as TunnelSession sees it
  owner,      \* the owner of the stream: has none yet, has it open or closed it
  heard,      \* the events the owner has heard and not dealt with
  object      \* "live", or "deleted" by MSG_SI_DESTROY

tcpvars == <<tcp, shutdown, busy, data, flags>>
queues == <<si, wk, st>>
vars == <<initiator, ptr, tcpvars, queues, pc, cs, sess, owner, heard, object>>

Pointer == {"session_", "channel_", "worker_thread_", "stream_"}
Flag == {"ready_to_connect_", "pending_read_event_", "m_bReadEnable", "m_bWriteEnable"}
Event == {"OPEN", "READ", "WRITE", "CLOSE"}
Thread == {"si", "wk", "st"}
StreamThread == IF SharedThread THEN "wk" ELSE "st"
WorkerCall == {"Clock", "Writable", "Packet", "Route"}
StreamCall == {"Read", "Write", "Close"}

(* The constructor of TunnelSession; an initiator's CreateTunnel also gets  *)
(* the stream at once.                                                      *)
Init ==
  /\ initiator \in Initiators
  /\ ptr = IF initiator THEN {"session_", "stream_"} ELSE {"session_"}
  /\ tcp = "NULL" /\ shutdown = "NONE" /\ busy = 0 /\ data = 0
  /\ flags = {}
  /\ si = <<>> /\ wk = <<>> /\ st = <<>>
  /\ pc = [t \in Thread |-> "idle"]
  /\ cs = "none"
  /\ sess = "trying"
  /\ owner = IF initiator THEN "open" ELSE "none"
  /\ heard = {}
  /\ object = "live"

(* CritScope: thread t is in method m, gets the lock, and keeps it until    *)
(* Leave.                                                                   *)
Enter(t, m) == pc[t] = m /\ cs = "none" /\ cs' = t /\ pc' = [pc EXCEPT ![t] = "leave"]
Leave(t) ==
  /\ cs = t /\ pc[t] = "leave"
  /\ cs' = "none"
  /\ pc' = [pc EXCEPT ![t] = "idle"]
  /\ UNCHANGED <<ptr, tcpvars, queues, sess, owner, heard, initiator, object>>

Unclocked == Cleared(wk, {"CLOCK"})

(* PseudoTcp::clock_check: FALSE when the connection has nothing more to do.*)
ClockCheck(s, mode, b) ==
  ~(mode = "FORCEFUL" \/ (mode = "GRACEFUL" /\ (s # "ESTABLISHED" \/ b = 0)))

(* Mutant: the old clock is cleared after the new one was set.              *)
AdjustClockThenClear(clear, s, mode, b, f) ==
  IF ClockCheck(s, mode, b)
    THEN /\ tcp' = s /\ shutdown' = mode /\ busy' = b /\ flags' = f
         /\ wk' = IF clear THEN Unclocked ELSE Append(wk, "CLOCK")
         /\ UNCHANGED si
    ELSE /\ tcp' = "NULL" /\ shutdown' = "NONE" /\ busy' = 0
         /\ flags' = f \ {"ready_to_connect_"}
         /\ si' = IF "channel_" \in ptr THEN Append(si, "DESTROYCHANNEL") ELSE si
         /\ UNCHANGED wk

(* AdjustClock, after the PseudoTcp went to state s with mode, b and the    *)
(* flags f: the next clock is set, or tcp_ is deleted and the channel given *)
(* up.                                                                      *)
AdjustClock(clear, s, mode, b, f) ==
  IF ClockCheck(s, mode, b)
    THEN /\ tcp' = s /\ shutdown' = mode /\ busy' = b /\ flags' = f
         /\ wk' = Append(IF clear THEN Unclocked ELSE wk, "CLOCK")
         /\ UNCHANGED si
    ELSE /\ tcp' = "NULL" /\ shutdown' = "NONE" /\ busy' = 0
         /\ flags' = f \ {"ready_to_connect_"}
         /\ si' = IF "channel_" \in ptr THEN Append(si, "DESTROYCHANNEL") ELSE si
         /\ UNCHANGED wk

(* An acknowledgement may have been all that was to be sent (m_t_ack), not  *)
(* when the send buffer is full.                                            *)
Acknowledged(b) == b <= busy /\ (b < busy => "m_bWriteEnable" \notin flags)

(* What the PseudoTcp's callbacks post to the stream, if there is one.      *)
Notify(evs) == IF "stream_" \in ptr THEN evs ELSE <<>>

-----------------------------------------------------------------------------
(* The signaling thread.                                                    *)

(* TunnelSession::OnAccept calls Connect, which keeps cs_ while             *)
(* Transport::CreateChannel waits for the worker.                           *)
OnAccept ==
  /\ sess = "trying"
  /\ pc["si"] = "idle" /\ cs = "none"
  /\ sess' = "accepted"
  /\ cs' = "si"
  /\ pc' = [pc EXCEPT !["si"] = "Connect"]
  /\ ptr' = ptr \cup {"worker_thread_"}
  /\ UNCHANGED <<tcpvars, queues, owner, heard, initiator, object>>

(* The worker, when it is back in its message loop, creates the channel.    *)
(* An end that accepts from within SignalState needs no worker, because the *)
(* TransportProxy is still in STATE_INIT.                                   *)
CreateChannel ==
  /\ pc["si"] = "Connect"
  /\ pc["wk"] = "idle" \/ ~initiator
  /\ pc' = [pc EXCEPT !["si"] = "leave"]
  /\ ptr' = ptr \cup {"channel_"} \cup IF initiator THEN {} ELSE {"stream_"}
  /\ owner' = "open"
  /\ tcp' = "LISTEN"
  /\ flags' = flags \cup {"m_bReadEnable"} \cup IF initiator THEN {"ready_to_connect_"} ELSE {}
  /\ UNCHANGED <<shutdown, busy, data, queues, cs, sess, heard, initiator, object>>

(* FindSessionByStream of another tunnel: GetStream makes a stream for      *)
(* every session of the client that has none, also for one that has let go  *)
(* of session_ (ASSERT(NULL != session_), which a release build ignores).   *)
FindSessionByStream ==
  /\ OtherTunnels
  /\ pc["si"] = "idle" /\ cs = "none"
  /\ sess # "destroyed"
  /\ "stream_" \notin ptr
  /\ ptr' = ptr \cup {"stream_"}
  /\ UNCHANGED <<tcpvars, queues, pc, cs, sess, owner, heard, initiator, object>>

(* The session is terminated by either side; OnSessionTerminate only acts   *)
(* on a channel that never connected.                                       *)
OnTerminate ==
  /\ sess \in {"trying", "accepted"}
  /\ Enter("si", "idle")
  /\ sess' = "terminating"
  /\ IF "session_" \in ptr /\ "channel_" \notin ptr
       THEN /\ ptr' = ptr \ {"session_"}
            /\ st' = st \o Notify(<<{"CLOSE"}>>)
       ELSE UNCHANGED <<ptr, st>>
  /\ UNCHANGED <<tcpvars, si, wk, owner, heard, initiator, object>>

Undestroyed == Cleared(si, {"DESTROYCHANNEL"})

(* What OnChannelDestroyed leaves when the signaling thread still has msgs, *)
(* the worker clocks and the stream is told evs.                            *)
ChannelGone(msgs, clocks, evs) ==
  /\ ptr' = ptr \ {"session_", "channel_"}
  /\ si' = msgs
  /\ wk' = Append(clocks, "PURGE")
  /\ st' = st \o evs
  /\ tcp' = "NULL" /\ shutdown' = "NONE" /\ busy' = 0
  /\ flags' = flags \ {"ready_to_connect_"}
ClosedEvent == IF tcp # "CLOSED" THEN Notify(<<{"CLOSE"}>>) ELSE <<>>

(* Mutants of OnChannelDestroyed: MSG_SI_DESTROYCHANNEL or MSG_WK_CLOCK is  *)
(* not cleared; the stream is told only if the connection was open, or also *)
(* if OnTcpClosed has told it.                                              *)
OnChannelDestroyedKeepsMsg == ChannelGone(si, Unclocked, ClosedEvent)
OnChannelDestroyedKeepsClock ==
  ChannelGone(Undestroyed, wk, ClosedEvent)
OnChannelDestroyedTellsOpen ==
  ChannelGone(Undestroyed, Unclocked,
              IF tcp = "ESTABLISHED" THEN ClosedEvent ELSE <<>>)
OnChannelDestroyedTellsAgain ==
  ChannelGone(Undestroyed, Unclocked, Notify(<<{"CLOSE"}>>))

(* OnChannelDestroyed: Close(true) makes AdjustClock delete tcp_.           *)
OnChannelDestroyed ==
  ChannelGone(Undestroyed, Unclocked, ClosedEvent)

(* SessionManager::DestroySession: the TunnelSession goes, then the         *)
(* transport proxies and with them the channel.                             *)
OnSessionDestroy ==
  /\ sess = "terminating"
  /\ sess' = "destroyed"
  /\ IF "channel_" \in ptr
       THEN Enter("si", "idle") /\ OnChannelDestroyed
       ELSE pc["si"] = "idle" /\ UNCHANGED <<ptr, si, wk, st, tcp, shutdown, busy,
                                             flags, pc, cs>>
  /\ UNCHANGED <<data, owner, heard, initiator, object>>

(* MSG_SI_DESTROYCHANNEL: the channel is destroyed, and SignalChannelClosed *)
(* makes the TunnelSession terminate the session.                           *)
OnDestroyChannelMsg ==
  /\ si # <<>> /\ Head(si) = "DESTROYCHANNEL"
  /\ Enter("si", "idle") /\ OnChannelDestroyed
  /\ sess' = IF sess = "accepted" THEN "terminating" ELSE sess
  /\ UNCHANGED <<data, owner, heard, initiator, object>>

(* MSG_SI_DESTROY: delete this, without the lock.                           *)
OnDestroyMsg ==
  /\ si # <<>> /\ Head(si) = "DESTROY"
  /\ pc["si"] = "idle"
  /\ object' = "deleted"
  /\ si' = <<>> /\ wk' = <<>> /\ st' = <<>>
  /\ UNCHANGED <<initiator, ptr, tcpvars, pc, cs, sess, owner, heard>>

-----------------------------------------------------------------------------
(* The worker thread.                                                       *)

(* Mutant: the stream is not asked.                                         *)
CheckDestroyWorker(p) ==
  si' = IF "worker_thread_" \notin p THEN Append(si, "DESTROY") ELSE si

(* CheckDestroy, with the members p.                                        *)
CheckDestroy(p) ==
  si' = IF p \cap {"worker_thread_", "stream_"} = {} THEN Append(si, "DESTROY") ELSE si

(* The channel signals, or a clock is due: the worker is on its way to cs_. *)
Signal(m) ==
  /\ m \in WorkerCall \ {"Clock"}
  /\ "channel_" \in ptr
  /\ pc["wk"] = "idle"
  /\ pc' = [pc EXCEPT !["wk"] = m]
  /\ UNCHANGED <<ptr, tcpvars, queues, cs, sess, owner, heard, initiator, object>>

ClockDue ==
  /\ wk # <<>> /\ Head(wk) = "CLOCK"
  /\ pc["wk"] = "idle"
  /\ pc' = [pc EXCEPT !["wk"] = "Clock"]
  /\ wk' = Tail(wk)
  /\ UNCHANGED <<ptr, tcpvars, si, st, cs, sess, owner, heard, initiator, object>>

(* A signal that comes too late finds no channel or no tcp_.                *)
TooLate(m) ==
  /\ m \in WorkerCall
  /\ Enter("wk", m)
  /\ tcp = "NULL" \/ (m # "Clock" /\ "channel_" \notin ptr)
  /\ UNCHANGED <<ptr, tcpvars, queues, sess, owner, heard, initiator, object>>

(* OnChannelWritableState: the initiator connects on the first writable; a  *)
(* channel that is not writable (any more) is left alone.                   *)
OnChannelWritable(writable) ==
  /\ Enter("wk", "Writable")
  /\ "channel_" \in ptr /\ tcp # "NULL"
  /\ IF "ready_to_connect_" \in flags /\ writable
       THEN IF tcp = "LISTEN"
              THEN AdjustClock(TRUE, "SYN", shutdown, 1, flags \ {"ready_to_connect_"})
              ELSE AdjustClock(TRUE, tcp, shutdown, busy, flags \ {"ready_to_connect_"})
       ELSE UNCHANGED <<flags, tcp, shutdown, busy, si, wk>>
  /\ UNCHANGED <<ptr, data, st, sess, owner, heard, initiator, object>>

(* OnChannelConnectionChanged: another route, another MTU.                  *)
OnChannelConnectionChanged ==
  /\ Enter("wk", "Route")
  /\ "channel_" \in ptr /\ tcp # "NULL"
  /\ AdjustClock(TRUE, tcp, shutdown, busy, flags)
  /\ UNCHANGED <<ptr, data, st, sess, owner, heard, initiator, object>>

(* OnChannelRead: what a packet may do to the connection.  It resets it,    *)
(* moves the handshake on, acknowledges what was sent, or brings data,      *)
(* which a connection that is shutting down drops.                          *)
PacketState(s) ==
  CASE s = "LISTEN" -> {"LISTEN", "SYN"}
    [] s = "SYN" -> {"SYN", "ESTABLISHED"}
    [] OTHER -> {s}

(* The callbacks of one packet, in the order of PseudoTcp::process: OnTcpOpen,*)
(* OnTcpWriteable when there is room again, OnTcpReadable on new data.      *)
OnChannelRead(s, b, fresh, room) ==
  LET opens    == s = "ESTABLISHED" /\ tcp = "SYN"
      writable == "m_bWriteEnable" \in flags /\ room
      readable == fresh /\ "m_bReadEnable" \in flags
      pending  == opens \/ "pending_read_event_" \in flags
      evs == (IF opens THEN <<{"OPEN", "READ", "WRITE"}>> ELSE <<>>)
             \o (IF writable THEN <<{"WRITE"}>> ELSE <<>>)
             \o (IF readable /\ ~pending THEN <<{"READ"}>> ELSE <<>>)
  IN  /\ Enter("wk", "Packet")
      /\ "channel_" \in ptr
      /\ s \in PacketState(tcp) /\ tcp # "NULL"
      /\ fresh => s = "ESTABLISHED" /\ shutdown = "NONE"
      /\ s \in {"LISTEN", "CLOSED"} => b = busy /\ ~room
      /\ b < busy => room
      /\ tcp = "LISTEN" /\ s = "SYN" => b = 1
      /\ st' = st \o Notify(evs)
      /\ data' = IF fresh THEN 1 ELSE data
      /\ AdjustClock(TRUE, s, shutdown, b,
           (flags \ ((IF writable THEN {"m_bWriteEnable"} ELSE {}) \cup
                     (IF readable THEN {"m_bReadEnable"} ELSE {})))
           \cup (IF "stream_" \in ptr /\ (opens \/ readable)
                   THEN {"pending_read_event_"} ELSE {}))
      /\ UNCHANGED <<ptr, sess, owner, heard, initiator, object>>

(* PseudoTcp::closedown, by a reset packet or by the clock after too many   *)
(* retransmissions or probes: OnTcpClosed tells the stream.                 *)
Closedown(m) ==
  /\ Enter("wk", m)
  /\ tcp \notin {"NULL", "CLOSED"}
  /\ \/ m = "Packet" /\ "channel_" \in ptr
     \/ m = "Clock" /\ (busy = 1 \/ tcp = "ESTABLISHED")
  /\ st' = st \o Notify(<<{"CLOSE"}>>)
  /\ AdjustClock(m = "Packet", "CLOSED", shutdown, 0, flags)
  /\ UNCHANGED <<ptr, data, sess, owner, heard, initiator, object>>

(* MSG_WK_CLOCK otherwise: retransmit, probe or acknowledge, and go on.     *)
OnClock(b) ==
  /\ Enter("wk", "Clock")
  /\ tcp # "NULL"
  /\ Acknowledged(b) /\ (b < busy => tcp = "ESTABLISHED")
  /\ AdjustClock(FALSE, tcp, shutdown, b, flags)
  /\ UNCHANGED <<ptr, data, st, sess, owner, heard, initiator, object>>

(* Mutant: CheckDestroy is not called.                                      *)
OnPurgeUnchecked ==
  /\ wk # <<>> /\ Head(wk) = "PURGE"
  /\ Enter("wk", "idle")
  /\ wk' = Tail(wk)
  /\ ptr' = ptr \ {"worker_thread_"}
  /\ UNCHANGED <<tcpvars, si, st, sess, owner, heard, initiator, object>>

(* MSG_WK_PURGE: no more messages from the worker.                          *)
OnPurge ==
  /\ wk # <<>> /\ Head(wk) = "PURGE"
  /\ Enter("wk", "idle")
  /\ wk' = Tail(wk)
  /\ ptr' = ptr \ {"worker_thread_"}
  /\ CheckDestroy(ptr')
  /\ UNCHANGED <<tcpvars, st, sess, owner, heard, initiator, object>>

-----------------------------------------------------------------------------
(* The stream thread.                                                       *)

(* Mutant: cif/ closes a tunnel that is not connected like any other.       *)
MayCloseAtOnce == TRUE

(* May the owner close the stream?  cif/jinglep2p.cc waits for the tunnel   *)
(* to open or to be closed, unless it has accepted the tunnel.              *)
MayClose == CloseEarly \/ ~initiator \/ heard \cap {"OPEN", "CLOSE"} # {}

(* The owner calls the stream; a closed stream has no parent_ to call.      *)
Call(m) ==
  /\ owner = "open"
  /\ pc[StreamThread] = "idle"
  /\ \/ m = "Read"
     \/ m = "Write" /\ Len(st) < MaxEvents
     \/ m = "Close" /\ MayClose
  /\ pc' = [pc EXCEPT ![StreamThread] = m]
  /\ UNCHANGED <<ptr, tcpvars, queues, cs, sess, owner, heard, initiator, object>>

(* Mutant: SE_READ is posted once, by OnTcpReadable only.                   *)
ReadOnce(more, b) ==
  /\ Enter(StreamThread, "Read")
  /\ b = busy
  /\ heard' = heard \ {"READ"}
  /\ IF tcp = "ESTABLISHED" /\ data = 1
       THEN data' = more /\ UNCHANGED flags
       ELSE /\ more = 0
            /\ flags' = IF tcp = "ESTABLISHED" THEN flags \cup {"m_bReadEnable"} ELSE flags
            /\ UNCHANGED data
  /\ UNCHANGED <<ptr, tcp, shutdown, busy, queues, sess, owner, initiator, object>>

(* Read: after a successful read SE_READ is posted again, and a window that *)
(* was closed is opened with an acknowledgement.                            *)
Read(more, b) ==
  /\ Enter(StreamThread, "Read")
  /\ heard' = heard \ {"READ"}
  /\ IF tcp = "ESTABLISHED" /\ data = 1
       THEN /\ data' = more
            /\ Acknowledged(b) /\ busy' = b
            /\ st' = IF "pending_read_event_" \in flags THEN st ELSE Append(st, {"READ"})
            /\ flags' = flags \cup {"pending_read_event_"}
       ELSE /\ more = 0 /\ b = busy
            /\ flags' = IF tcp = "ESTABLISHED" THEN flags \cup {"m_bReadEnable"} ELSE flags
            /\ UNCHANGED <<data, busy, st>>
  /\ UNCHANGED <<ptr, tcp, shutdown, si, wk, sess, owner, initiator, object>>

(* Write: the data is queued, or the buffer is full and the writer waits    *)
(* for SE_WRITE.                                                            *)
Write(full) ==
  /\ Enter(StreamThread, "Write")
  /\ IF tcp = "ESTABLISHED"
       THEN /\ full => busy = 1
            /\ busy' = 1
            /\ flags' = IF full THEN flags \cup {"m_bWriteEnable"} ELSE flags
       ELSE ~full /\ UNCHANGED <<busy, flags>>
  /\ UNCHANGED <<ptr, tcp, shutdown, data, queues, sess, owner, heard, initiator, object>>

(* Close: a graceful shutdown, or the end if there is no connection.        *)
Close ==
  /\ Enter(StreamThread, "Close")
  /\ ptr' = ptr \ {"stream_"}
  /\ st' = <<>>
  /\ owner' = "closed"
  /\ IF tcp # "NULL"
       THEN AdjustClock(TRUE, tcp, "GRACEFUL", busy, flags)
       ELSE CheckDestroy(ptr') /\ UNCHANGED <<tcp, shutdown, busy, wk, flags>>
  /\ UNCHANGED <<data, sess, heard, initiator, object>>

(* MSG_ST_EVENT: the owner hears of it.                                     *)
OnStreamEvent ==
  /\ st # <<>>
  /\ pc[StreamThread] = "idle"
  /\ "READ" \in Head(st) => cs = "none"
  /\ st' = Tail(st)
  /\ heard' = heard \cup Head(st)
  /\ flags' = IF "READ" \in Head(st) THEN flags \ {"pending_read_event_"} ELSE flags
  /\ UNCHANGED <<ptr, tcp, shutdown, busy, data, si, wk, pc, cs, sess, owner, initiator, object>>

-----------------------------------------------------------------------------
SignalThreadStep ==
  \/ OnAccept
  \/ CreateChannel
  \/ FindSessionByStream
  \/ OnTerminate
  \/ OnSessionDestroy
  \/ OnDestroyChannelMsg
  \/ OnDestroyMsg

WorkerMessage == ClockDue \/ OnPurge
WorkerBody ==
  \/ \E m \in WorkerCall : TooLate(m) \/ Closedown(m)
  \/ \E writable \in BOOLEAN : OnChannelWritable(writable)
  \/ OnChannelConnectionChanged
  \/ \E s \in {"LISTEN", "SYN", "ESTABLISHED", "CLOSED"}, b \in {0, 1} :
       \E fresh, room \in BOOLEAN : OnChannelRead(s, b, fresh, room)
  \/ \E b \in {0, 1} : OnClock(b)

StreamBody ==
  \/ \E more, b \in {0, 1} : Read(more, b)
  \/ \E full \in BOOLEAN : Write(full)
  \/ Close

(* Every step but the release of the lock is one of a live object.          *)
Next ==
  \/ /\ object = "live"
     /\ \/ SignalThreadStep
        \/ WorkerMessage
        \/ \E m \in WorkerCall : Signal(m)
        \/ WorkerBody
        \/ \E m \in StreamCall : Call(m)
        \/ StreamBody
        \/ OnStreamEvent
  \/ \E t \in Thread : Leave(t)

Spec == Init /\ [][Next]_vars

(* A step of a live object.                                                 *)
Live(A) == object = "live" /\ A

(* What ends a graceful shutdown: the peer acknowledges everything, or the  *)
(* segment was sent too often, or a closed window probed too long.          *)
Drain ==
  /\ shutdown = "GRACEFUL"
  /\ Closedown("Clock") \/ OnChannelRead(tcp, 0, FALSE, TRUE)

(* Every thread runs its messages and gets the lock in the end, although    *)
(* others contend for it; a terminated session is destroyed (MSG_STATE);    *)
(* and the peer of a connection that shuts down reads on or falls silent.   *)
Fairness ==
  /\ \A t \in Thread : WF_vars(Leave(t))
  /\ WF_vars(Live(CreateChannel))
  /\ SF_vars(Live(OnSessionDestroy))
  /\ SF_vars(Live(OnDestroyChannelMsg))
  /\ WF_vars(Live(OnDestroyMsg))
  /\ SF_vars(Live(ClockDue))
  /\ SF_vars(Live(OnPurge))
  /\ SF_vars(Live(WorkerBody))
  /\ SF_vars(Live(Drain))
  /\ SF_vars(Live(StreamBody))
  /\ SF_vars(Live(OnStreamEvent))

FairSpec == Spec /\ Fairness
-----------------------------------------------------------------------------
(* The pointers the methods dereference: the PseudoTcp writes its packets   *)
(* to channel_ and sets its clock on worker_thread_ (TcpWritePacket,        *)
(* AdjustClock), and MSG_SI_DESTROYCHANNEL uses session_ and channel_       *)
(* without looking, although they are cleared by other paths.               *)
NoDanglingUse ==
  object = "live" =>
    /\ tcp # "NULL" => {"session_", "channel_", "worker_thread_"} \subseteq ptr
    /\ Queued(si, "DESTROYCHANNEL") => {"session_", "channel_"} \subseteq ptr
    /\ "channel_" \in ptr => sess # "destroyed"

(* The comment in OnChannelDestroyed: after MSG_WK_PURGE the worker has     *)
(* nothing more for the object; and no second MSG_SI_DESTROY is queued.     *)
WorkerPurged ==
  object = "live" =>
    /\ Queued(si, "DESTROY") => /\ "worker_thread_" \notin ptr
                                /\ wk = <<>> /\ st = <<>>
                                /\ pc["wk"] \notin WorkerCall
                                /\ Len(si) = 1
    /\ Queued(wk, "PURGE") => "channel_" \notin ptr /\ ~Queued(wk, "CLOCK")

(* A connection that is being set up or is open always has its clock        *)
(* running, whoever cleared and reset it last: without it nothing would be  *)
(* sent again.                                                              *)
ClockRuns ==
  object = "live" /\ tcp \in {"SYN", "ESTABLISHED"} =>
    Queued(wk, "CLOCK") \/ pc["wk"] = "Clock"

(* No lost wake-up: data to read is announced, or the owner has heard of it *)
(* and has not read yet (pending_read_event_, m_bReadEnable).               *)
ReadableIsAnnounced ==
  object = "live" /\ owner = "open" /\ tcp = "ESTABLISHED" /\ data = 1 =>
      "READ" \in heard \/ \E i \in 1..Len(st) : "READ" \in st[i]

(* SE_CLOSE comes from OnTcpClosed, OnChannelDestroyed and                  *)
(* OnSessionTerminate, on two threads: the owner hears it at most once.     *)
CloseHeardOnce ==
  object = "live" /\ owner = "open" =>
    \A i \in 1..Len(st) : "CLOSE" \in st[i] =>
      "CLOSE" \notin heard /\ \A j \in 1..Len(st) : "CLOSE" \in st[j] => i = j

(* The assertions of ~PseudoTcpChannel: the object is deleted when its      *)
(* session, channel, connection, worker and stream are gone.  Other tunnels *)
(* can break the one about the stream: see FindSessionByStream.             *)
DeletedClean == object = "deleted" => ptr = {} /\ tcp = "NULL" /\ owner # "open"

(* Every variable has the values the code can give it.                      *)
TypeOK ==
  /\ initiator \in BOOLEAN
  /\ ptr \in SUBSET Pointer
  /\ tcp \in {"NULL", "LISTEN", "SYN", "ESTABLISHED", "CLOSED"}
  /\ shutdown \in {"NONE", "GRACEFUL", "FORCEFUL"}
  /\ busy \in {0, 1} /\ data \in {0, 1}
  /\ flags \in SUBSET Flag
  /\ si \in Seq({"DESTROYCHANNEL", "DESTROY"})
  /\ wk \in Seq({"CLOCK", "PURGE"})
  /\ st \in Seq(SUBSET Event)
  /\ pc \in [Thread -> {"idle", "leave", "Connect"} \cup WorkerCall \cup StreamCall]
  /\ cs \in Thread \cup {"none"}
  /\ sess \in {"trying", "accepted", "terminating", "destroyed"}
  /\ owner \in {"none", "open", "closed"}
  /\ heard \in SUBSET Event
  /\ object \in {"live", "deleted"}

(* The tunnel has no channel yet.                                           *)
Before == sess = "trying" \/ pc["si"] = "Connect"

(* Why nothing dangles.  Before the channel is there, nothing is queued and *)
(* the owner cannot close.  The channel has its session and its worker;     *)
(* without it there is no connection, the session is let go, and the worker *)
(* is kept until it has run MSG_WK_PURGE, its last message.  MSG_SI_DESTROY *)
(* is the last of all.                                                      *)
LifeInv ==
  /\ Before => /\ ptr \cap {"session_", "channel_"} = {"session_"}
               /\ tcp = "NULL" /\ flags = {} /\ heard = {}
               /\ si = <<>> /\ wk = <<>> /\ st = <<>>
               /\ pc["wk"] \notin WorkerCall /\ pc[StreamThread] # "Close"
               /\ owner = IF initiator THEN "open" ELSE "none"
  /\ pc["si"] = "Connect" => cs = "si" /\ sess = "accepted" /\ "worker_thread_" \in ptr
  /\ sess = "trying" => "worker_thread_" \notin ptr
  /\ owner = "open" => "stream_" \in ptr
  /\ pc[StreamThread] \in StreamCall => owner = "open"
  /\ tcp # "NULL" => "channel_" \in ptr
  /\ "channel_" \in ptr => /\ {"session_", "worker_thread_"} \subseteq ptr
                           /\ sess \in {"accepted", "terminating"}
                           /\ ~Queued(wk, "PURGE") /\ ~Queued(si, "DESTROY")
  /\ ~Before /\ "channel_" \notin ptr =>
       /\ "session_" \notin ptr
       /\ ~Queued(si, "DESTROYCHANNEL")
       /\ "worker_thread_" \in ptr => wk = <<"PURGE">> /\ si = <<>>
  /\ "worker_thread_" \notin ptr => wk = <<>> /\ pc["wk"] \notin WorkerCall
  /\ "stream_" \notin ptr => st = <<>>
  /\ Queued(si, "DESTROY") => /\ owner # "open" /\ st = <<>> /\ Len(si) = 1
                              /\ "worker_thread_" \notin ptr
                              /\ "stream_" \in ptr => OtherTunnels

(* Why no data is overlooked: the flag m_bReadEnable is off, and            *)
(* pending_read_event_ is on, only while SE_READ is announced.              *)
ReadInv ==
  owner = "open" =>
    /\ "pending_read_event_" \in flags => \E i \in 1..Len(st) : "READ" \in st[i]
    /\ tcp = "ESTABLISHED" /\ (data = 1 \/ "m_bReadEnable" \notin flags) =>
         "READ" \in heard \/ \E i \in 1..Len(st) : "READ" \in st[i]

(* Why SE_CLOSE is heard once: it was posted only if the connection is      *)
(* closed or the session let go, and nobody shuts down the connection of a  *)
(* stream that is open.                                                     *)
Told == "CLOSE" \in heard \/ \E i \in 1..Len(st) : "CLOSE" \in st[i]
OnceInv ==
  /\ CloseHeardOnce
  /\ owner = "open" /\ Told => "session_" \notin ptr \/ tcp = "CLOSED"
  /\ shutdown = "NONE" \/ owner = "closed"

(* What is left of the object when it is deleted, whatever other tunnels    *)
(* have searched.                                                           *)
DeletedInv ==
  object = "deleted" =>
    /\ owner # "open" /\ tcp = "NULL"
    /\ ptr \subseteq IF OtherTunnels THEN {"stream_"} ELSE {}

(* The invariants of a tunnel whose owner waits before it closes.           *)
ChannelInv ==
  /\ object = "live" => LifeInv /\ ReadInv /\ ClockRuns
  /\ DeletedInv

(* An object whose stream was closed is deleted in the end, whatever        *)
(* connection, channel and messages it still had.                           *)
Reclaimed == (owner = "closed") ~> (object = "deleted")

(* The lifetime that the class comment promises: the object is destroyed    *)
(* when worker_thread_ and stream_ are both gone, also if they never came:  *)
(* once its session is destroyed nothing can give it one.                   *)
DestroyedWhenGone ==
  (sess = "destroyed" /\ ptr \cap {"worker_thread_", "stream_"} = {}) ~> (object = "deleted")

(* The owner of a stream hears that its tunnel is gone.                     *)
OwnerHears ==
  (sess = "destroyed" /\ owner = "open") ~> ("CLOSE" \in heard \/ owner = "closed")

(* Close returns.                                                           *)
CloseReturns == (pc[StreamThread] = "Close") ~> (pc[StreamThread] # "Close")
=============================================================================
