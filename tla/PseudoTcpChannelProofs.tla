----------------------- MODULE PseudoTcpChannelProofs -----------------------
(***************************************************************************)
(* Proofs about PseudoTcpChannel.tla: for either end of a tunnel, whether  *)
(* the stream has a thread of its own or not, and whatever other tunnels   *)
(* do, as long as the owner of the stream waits for the tunnel to open or  *)
(* close before it closes the stream itself, as cif/ does.                 *)
(***************************************************************************)
EXTENDS PseudoTcpChannel, MessageQueueProofs

-----------------------------------------------------------------------------
(* Queues.                                                                  *)

(* What Clear leaves of the two queues.                                     *)
LEMMA ClearedMessages ==
  ASSUME TypeOK
  PROVE  /\ Unclocked \in Seq({"CLOCK", "PURGE"}) /\ ~Queued(Unclocked, "CLOCK")
         /\ ~Queued(wk, "PURGE") => Unclocked = <<>>
         /\ Undestroyed \in Seq({"DESTROYCHANNEL", "DESTROY"})
         /\ ~Queued(Undestroyed, "DESTROYCHANNEL")
         /\ ~Queued(si, "DESTROY") => Undestroyed = <<>>
<1>1. wk \in Seq({"CLOCK", "PURGE"}) /\ si \in Seq({"DESTROYCHANNEL", "DESTROY"})
  BY DEF TypeOK
<1>2. /\ Unclocked \in Seq({"CLOCK", "PURGE"})
      /\ \A y : Queued(Unclocked, y) <=> Queued(wk, y) /\ y \notin {"CLOCK"}
  BY <1>1, ClearedQueue DEF Unclocked
<1>3. /\ Undestroyed \in Seq({"DESTROYCHANNEL", "DESTROY"})
      /\ \A y : Queued(Undestroyed, y) <=> Queued(si, y) /\ y \notin {"DESTROYCHANNEL"}
  BY <1>1, ClearedQueue DEF Undestroyed
<1>4. ASSUME ~Queued(wk, "PURGE") PROVE Unclocked = <<>>
  <2>1. \A y \in {"CLOCK", "PURGE"} : ~Queued(Unclocked, y)
    BY <1>2, <1>4
  <2>. QED
    BY <1>2, <2>1, QueueEmpty
<1>5. ASSUME ~Queued(si, "DESTROY") PROVE Undestroyed = <<>>
  <2>1. \A y \in {"DESTROYCHANNEL", "DESTROY"} : ~Queued(Undestroyed, y)
    BY <1>3, <1>5
  <2>. QED
    BY <1>3, <2>1, QueueEmpty
<1>. QED
  BY <1>2, <1>3, <1>4, <1>5

(* SE_READ is announced in a queue of events.                               *)
Announced(s) == \E i \in 1..Len(s) : "READ" \in s[i]

(* Events that are posted and the event that is taken.                      *)
LEMMA AnnouncedPosted ==
  ASSUME NEW s \in Seq(SUBSET Event), NEW e \in Seq(SUBSET Event)
  PROVE  /\ s \o e \in Seq(SUBSET Event)
         /\ Announced(s \o e) <=> Announced(s) \/ Announced(e)
<1>1. /\ s \o e \in Seq(SUBSET Event) /\ Len(s \o e) = Len(s) + Len(e)
      /\ Len(s) \in Nat /\ Len(e) \in Nat
      /\ \A i \in 1..Len(s) : (s \o e)[i] = s[i]
      /\ \A i \in 1..Len(e) : (s \o e)[Len(s) + i] = e[i]
  OBVIOUS
<1>2. ASSUME Announced(s \o e) PROVE Announced(s) \/ Announced(e)
  <2>1. PICK i \in 1..(Len(s) + Len(e)) : "READ" \in (s \o e)[i]
    BY <1>1, <1>2 DEF Announced
  <2>2. CASE i <= Len(s)
    BY <1>1, <2>1, <2>2 DEF Announced
  <2>3. CASE i > Len(s)
    <3>1. i - Len(s) \in 1..Len(e) /\ (s \o e)[Len(s) + (i - Len(s))] = e[i - Len(s)]
      BY <1>1, <2>1, <2>3
    <3>2. (s \o e)[i] = e[i - Len(s)]
      BY <1>1, <3>1
    <3>. QED
      BY <2>1, <3>1, <3>2 DEF Announced
  <2>. QED
    BY <1>1, <2>1, <2>2, <2>3
<1>3. ASSUME Announced(e) PROVE Announced(s \o e)
  <2>1. PICK i \in 1..Len(e) : "READ" \in e[i]
    BY <1>3 DEF Announced
  <2>2. Len(s) + i \in 1..(Len(s) + Len(e)) /\ "READ" \in (s \o e)[Len(s) + i]
    BY <1>1, <2>1
  <2>. QED
    BY <1>1, <2>2 DEF Announced
<1>4. ASSUME Announced(s) PROVE Announced(s \o e)
  <2>1. PICK i \in 1..Len(s) : "READ" \in s[i]
    BY <1>4 DEF Announced
  <2>2. i \in 1..(Len(s) + Len(e)) /\ "READ" \in (s \o e)[i]
    BY <1>1, <2>1
  <2>. QED
    BY <1>1, <2>2 DEF Announced
<1>. QED
  BY <1>1, <1>2, <1>3, <1>4

-----------------------------------------------------------------------------
(* The life of the object.                                                  *)

(* Initially there is a session and perhaps a stream.                       *)
LEMMA ChannelInit == Init => TypeOK /\ ChannelInv
<1>. SUFFICES ASSUME Init PROVE TypeOK /\ ChannelInv
  OBVIOUS
<1>1. initiator \in BOOLEAN /\ object = "live" /\ tcp = "NULL" /\ pc["wk"] = "idle" /\ pc["si"] = "idle"
      /\ pc["st"] = "idle"
  BY ChannelAssumption DEF Init, Thread
<1>2. TypeOK
  BY <1>1 DEF Init, TypeOK, Pointer, Thread
<1>3. LifeInv
  <2>1. ptr \cap {"session_", "channel_"} = {"session_"} /\ "worker_thread_" \notin ptr
        /\ "channel_" \notin ptr
    BY DEF Init
  <2>2. owner = IF initiator THEN "open" ELSE "none"
    BY DEF Init
  <2>3. owner = "open" => "stream_" \in ptr
    BY DEF Init
  <2>4. pc["wk"] \notin WorkerCall /\ pc[StreamThread] # "Close" /\ pc[StreamThread] \notin StreamCall
    BY <1>1 DEF WorkerCall, StreamThread, StreamCall
  <2>5. flags = {} /\ heard = {} /\ si = <<>> /\ wk = <<>> /\ st = <<>> /\ sess = "trying"
    BY DEF Init
  <2>6. ~Queued(si, "DESTROY")
    BY <2>5 DEF Queued
  <2>. QED
    BY <1>1, <2>1, <2>2, <2>3, <2>4, <2>5, <2>6 DEF LifeInv, Before
<1>4. ReadInv /\ ClockRuns /\ DeletedInv
  BY <1>1 DEF Init, ReadInv, ClockRuns, DeletedInv
<1>. QED
  BY <1>1, <1>2, <1>3, <1>4 DEF ChannelInv

(* A step that leaves the pointers, the messages and the session alone.     *)
LEMMA LifeKept ==
  ASSUME TypeOK, LifeInv, UNCHANGED <<initiator, sess, ptr, owner, si, wk>>,
         pc'["si"] = "Connect" <=> pc["si"] = "Connect",
         pc["si"] = "Connect" => cs' = cs,
         Before => tcp' = tcp /\ flags' = flags /\ heard' = {} /\ st' = st /\ pc'[StreamThread] # "Close",
         pc'["wk"] \in WorkerCall => pc["wk"] \in WorkerCall \/ "channel_" \in ptr,
         pc'[StreamThread] \in StreamCall => owner = "open",
         tcp' # "NULL" => tcp # "NULL",
         "stream_" \notin ptr => st' = <<>>,
         Queued(si, "DESTROY") => st' = <<>>
  PROVE  LifeInv'
<1>1. Before' <=> Before
  BY DEF Before
<1>2. "channel_" \in ptr => ~Before /\ "worker_thread_" \in ptr
  BY DEF LifeInv
<1>3. Before' => /\ ptr' \cap {"session_", "channel_"} = {"session_"}
                 /\ tcp' = "NULL" /\ flags' = {} /\ heard' = {}
                 /\ si' = <<>> /\ wk' = <<>> /\ st' = <<>>
                 /\ pc'["wk"] \notin WorkerCall /\ pc'[StreamThread] # "Close"
                 /\ owner' = IF initiator' THEN "open" ELSE "none"
  BY <1>1, <1>2 DEF LifeInv
<1>4. /\ pc'["si"] = "Connect" => cs' = "si" /\ sess' = "accepted" /\ "worker_thread_" \in ptr'
      /\ sess' = "trying" => "worker_thread_" \notin ptr'
      /\ owner' = "open" => "stream_" \in ptr'
      /\ tcp' # "NULL" => "channel_" \in ptr'
      /\ "stream_" \notin ptr' => st' = <<>>
      /\ pc'[StreamThread] \in StreamCall => owner' = "open"
  BY DEF LifeInv
<1>5. "channel_" \in ptr' => /\ {"session_", "worker_thread_"} \subseteq ptr'
                             /\ sess' \in {"accepted", "terminating"}
                             /\ ~Queued(wk', "PURGE") /\ ~Queued(si', "DESTROY")
  BY DEF LifeInv
<1>6. ~Before' /\ "channel_" \notin ptr' =>
         /\ "session_" \notin ptr'
         /\ ~Queued(si', "DESTROYCHANNEL")
         /\ "worker_thread_" \in ptr' => wk' = <<"PURGE">> /\ si' = <<>>
  BY <1>1 DEF LifeInv
<1>7. "worker_thread_" \notin ptr' => wk' = <<>> /\ pc'["wk"] \notin WorkerCall
  BY <1>2 DEF LifeInv
<1>8. Queued(si', "DESTROY") => /\ owner' # "open" /\ st' = <<>> /\ Len(si') = 1
                                /\ "worker_thread_" \notin ptr'
                                /\ "stream_" \in ptr' => OtherTunnels
  BY DEF LifeInv
<1>. QED
  BY <1>3, <1>4, <1>5, <1>6, <1>7, <1>8 DEF LifeInv, Before

(* A step that has a channel before and after it.                           *)
LEMMA LifeChannel ==
  ASSUME "channel_" \in ptr', {"session_", "worker_thread_"} \subseteq ptr',
         sess' \in {"accepted", "terminating"}, pc'["si"] # "Connect",
         owner' = "open" => "stream_" \in ptr',
         ~Queued(wk', "PURGE"), ~Queued(si', "DESTROY"),
         "stream_" \notin ptr' => st' = <<>>,
         pc'[StreamThread] \in StreamCall => owner' = "open"
  PROVE  LifeInv'
<1>1. ~Before'
  BY DEF Before
<1>. QED
  BY <1>1 DEF LifeInv, Before

(* What AdjustClock leaves: the clock runs as long as there is a connection.*)
LEMMA Adjusted ==
  ASSUME TypeOK, LifeInv, "channel_" \in ptr, NEW clear \in BOOLEAN,
         NEW s \in {"LISTEN", "SYN", "ESTABLISHED", "CLOSED"},
         NEW mode \in {"NONE", "GRACEFUL", "FORCEFUL"}, NEW b \in {0, 1}, NEW f \in SUBSET Flag,
         AdjustClock(clear, s, mode, b, f)
  PROVE  /\ tcp' \in {"NULL", s} /\ shutdown' \in {"NONE", "GRACEFUL", "FORCEFUL"} /\ busy' \in {0, 1}
         /\ flags' \in SUBSET Flag /\ flags' \subseteq f /\ (tcp' # "NULL" => flags' = f)
         /\ si' \in Seq({"DESTROYCHANNEL", "DESTROY"}) /\ wk' \in Seq({"CLOCK", "PURGE"})
         /\ ~Queued(wk', "PURGE") /\ ~Queued(si', "DESTROY")
         /\ tcp' # "NULL" => Queued(wk', "CLOCK")
<1>0. /\ wk \in Seq({"CLOCK", "PURGE"}) /\ si \in Seq({"DESTROYCHANNEL", "DESTROY"})
      /\ ~Queued(wk, "PURGE") /\ ~Queued(si, "DESTROY")
  BY DEF TypeOK, LifeInv
<1>1. CASE ClockCheck(s, mode, b)
  <2>. DEFINE q == IF clear THEN Unclocked ELSE wk
  <2>1. /\ tcp' = s /\ shutdown' = mode /\ busy' = b /\ flags' = f
        /\ wk' = Append(q, "CLOCK") /\ si' = si
    BY <1>1 DEF AdjustClock
  <2>2. Unclocked = <<>>
    BY <1>0, ClearedMessages
  <2>3. q \in Seq({"CLOCK", "PURGE"}) /\ ~Queued(q, "PURGE")
    BY <1>0, <2>2, QueueEmpty
  <2>. HIDE DEF q
  <2>4. /\ Append(q, "CLOCK") \in Seq({"CLOCK", "PURGE"})
        /\ Queued(Append(q, "CLOCK"), "CLOCK") /\ ~Queued(Append(q, "CLOCK"), "PURGE")
    BY <2>3, QueueAppend
  <2>. QED
    BY <1>0, <2>1, <2>4
<1>2. CASE ~ClockCheck(s, mode, b)
  <2>1. /\ tcp' = "NULL" /\ shutdown' = "NONE" /\ busy' = 0 /\ flags' = f \ {"ready_to_connect_"}
        /\ si' = Append(si, "DESTROYCHANNEL") /\ wk' = wk
    BY <1>2 DEF AdjustClock
  <2>2. /\ Append(si, "DESTROYCHANNEL") \in Seq({"DESTROYCHANNEL", "DESTROY"})
        /\ ~Queued(Append(si, "DESTROYCHANNEL"), "DESTROY")
    BY <1>0, QueueAppend
  <2>. QED
    BY <1>0, <2>1, <2>2
<1>. QED
  BY <1>1, <1>2

-----------------------------------------------------------------------------
(* Steps.                                                                   *)

(* The thread that takes cs_: Connect does not have it.                     *)
LEMMA Entered ==
  ASSUME TypeOK, LifeInv, NEW t \in Thread, NEW m, Enter(t, m)
  PROVE  /\ pc["si"] # "Connect" /\ pc'["si"] # "Connect" /\ pc[t] = m /\ pc'[t] = "leave"
         /\ \A u \in Thread \ {t} : pc'[u] = pc[u]
         /\ pc' \in [Thread -> {"idle", "leave", "Connect"} \cup WorkerCall \cup StreamCall]
         /\ cs' \in Thread \cup {"none"}
         /\ pc'["wk"] \notin WorkerCall \/ pc'["wk"] = pc["wk"]
         /\ pc'[StreamThread] # "Close" \/ pc'[StreamThread] = pc[StreamThread]
         /\ pc'[StreamThread] \in StreamCall => owner = "open"
<1>1. pc[t] = m /\ cs = "none" /\ cs' = t /\ pc' = [pc EXCEPT ![t] = "leave"]
  BY DEF Enter
<1>2. pc["si"] # "Connect"
  BY <1>1 DEF LifeInv
<1>3. pc'[t] = "leave" /\ \A u \in Thread \ {t} : pc'[u] = pc[u]
  BY <1>1 DEF TypeOK
<1>4. "si" \in Thread /\ "wk" \in Thread /\ StreamThread \in Thread
  BY DEF Thread, StreamThread
<1>5. pc' \in [Thread -> {"idle", "leave", "Connect"} \cup WorkerCall \cup StreamCall]
  BY <1>1 DEF TypeOK
<1>6. pc'[StreamThread] \in StreamCall => owner = "open"
  <2>1. pc[StreamThread] \in StreamCall => owner = "open"
    BY DEF LifeInv
  <2>. QED
    BY <1>3, <1>4, <2>1 DEF StreamCall
<1>. QED
  BY <1>1, <1>2, <1>3, <1>4, <1>5, <1>6 DEF WorkerCall

(* The stream thread is not the signaling thread.                           *)
LEMMA StreamThreadType == StreamThread \in {"wk", "st"} /\ StreamThread \in Thread
BY DEF StreamThread, Thread

(* Leave.                                                                   *)
LEMMA StepLeave ==
  ASSUME TypeOK, LifeInv, ReadInv, ClockRuns, NEW t \in Thread, Leave(t)
  PROVE  TypeOK' /\ LifeInv' /\ ReadInv' /\ ClockRuns'
<1>1. /\ cs = t /\ pc[t] = "leave" /\ cs' = "none" /\ pc' = [pc EXCEPT ![t] = "idle"]
      /\ UNCHANGED <<ptr, tcpvars, queues, sess, owner, heard, initiator, object>>
  BY DEF Leave
<1>2. UNCHANGED <<tcp, shutdown, busy, data, flags, si, wk, st>>
  BY <1>1 DEF tcpvars, queues
<1>3. pc'[t] = "idle" /\ \A u \in Thread \ {t} : pc'[u] = pc[u]
  BY <1>1 DEF TypeOK
<1>4. "si" \in Thread /\ "wk" \in Thread /\ StreamThread \in Thread
  BY DEF Thread, StreamThread
<1>5. TypeOK'
  BY <1>1, <1>2 DEF TypeOK
<1>6. /\ pc["si"] # "Connect" /\ pc'["si"] # "Connect"
  <2>1. pc["si"] = "Connect" => cs = "si"
    BY DEF LifeInv
  <2>2. pc["si"] # "Connect"
    BY <1>1, <2>1
  <2>. QED
    BY <1>3, <1>4, <2>2
<1>7. /\ pc'["wk"] \in WorkerCall => pc["wk"] \in WorkerCall
      /\ pc'[StreamThread] = "Close" => pc[StreamThread] = "Close"
      /\ pc["wk"] = "Clock" => pc'["wk"] = "Clock"
      /\ pc'[StreamThread] \in StreamCall => pc[StreamThread] \in StreamCall
  BY <1>1, <1>3, <1>4 DEF WorkerCall, StreamCall
<1>8. LifeInv'
  <2>1. Before => heard = {} /\ pc[StreamThread] # "Close"
    BY DEF LifeInv
  <2>2. /\ "stream_" \notin ptr => st' = <<>>
        /\ Queued(si, "DESTROY") => st' = <<>>
        /\ pc'[StreamThread] \in StreamCall => owner = "open"
    BY <1>2, <1>7 DEF LifeInv
  <2>. QED
    BY <1>1, <1>2, <1>6, <1>7, <2>1, <2>2, LifeKept
<1>9. ReadInv'
  BY <1>1, <1>2 DEF ReadInv
<1>10. ClockRuns'
  BY <1>1, <1>2, <1>7 DEF ClockRuns
<1>. QED
  BY <1>5, <1>8, <1>9, <1>10

(* A thread is on its way to the lock.                                      *)
LEMMA StepCall ==
  ASSUME TypeOK, LifeInv, ReadInv, ClockRuns, ~CloseEarly,
         \/ \E m \in WorkerCall : Signal(m)
         \/ \E m \in StreamCall : Call(m)
  PROVE  TypeOK' /\ LifeInv' /\ ReadInv' /\ ClockRuns'
<1>1. /\ UNCHANGED <<tcp, shutdown, busy, data, flags, si, wk, st>>
      /\ UNCHANGED <<ptr, cs, sess, owner, heard, initiator, object>>
  BY DEF tcpvars, queues, Signal, Call
<1>2. \E t \in {"wk", "st"}, m \in WorkerCall \cup StreamCall :
        /\ pc[t] = "idle" /\ pc' = [pc EXCEPT ![t] = m]
        /\ m \in WorkerCall => "channel_" \in ptr
        /\ m = "Close" => owner = "open" /\ MayClose /\ t = StreamThread
        /\ m \in StreamCall => owner = "open"
  <2>1. CASE \E m \in WorkerCall : Signal(m)
    <3>1. PICK m \in WorkerCall : Signal(m)
      BY <2>1
    <3>. QED
      BY <3>1 DEF Signal, WorkerCall, StreamCall
  <2>2. CASE \E m \in StreamCall : Call(m)
    <3>1. PICK m \in StreamCall : Call(m)
      BY <2>2
    <3>2. m \notin WorkerCall
      BY DEF StreamCall, WorkerCall
    <3>. QED
      BY <3>1, <3>2, StreamThreadType DEF Call
  <2>. QED
    BY <2>1, <2>2
<1>3. PICK t \in {"wk", "st"}, m \in WorkerCall \cup StreamCall :
        /\ pc[t] = "idle" /\ pc' = [pc EXCEPT ![t] = m]
        /\ m \in WorkerCall => "channel_" \in ptr
        /\ m = "Close" => owner = "open" /\ MayClose /\ t = StreamThread
        /\ m \in StreamCall => owner = "open"
  BY <1>2
<1>4. t \in Thread /\ pc'[t] = m /\ \A u \in Thread \ {t} : pc'[u] = pc[u]
  BY <1>3 DEF TypeOK, Thread
<1>5. "si" \in Thread /\ "wk" \in Thread /\ StreamThread \in Thread /\ t # "si"
  BY DEF Thread, StreamThread
<1>6. TypeOK'
  <2>1. pc' \in [Thread -> {"idle", "leave", "Connect"} \cup WorkerCall \cup StreamCall]
    BY <1>3, <1>4 DEF TypeOK
  <2>. QED
    BY <1>1, <2>1 DEF TypeOK
<1>7. /\ pc'["si"] = pc["si"]
      /\ pc'["wk"] \in WorkerCall => pc["wk"] \in WorkerCall \/ "channel_" \in ptr
      /\ pc["wk"] = "Clock" => pc'["wk"] = "Clock"
  BY <1>3, <1>4, <1>5
<1>8. Before => pc'[StreamThread] # "Close"
  <2>. SUFFICES ASSUME Before PROVE pc'[StreamThread] # "Close"
    OBVIOUS
  <2>1. pc[StreamThread] # "Close" /\ heard = {} /\ (owner = "open" => initiator)
    BY DEF LifeInv
  <2>2. m # "Close"
    BY <1>3, <2>1 DEF MayClose
  <2>. QED
    BY <1>4, <1>5, <2>1, <2>2
<1>9. LifeInv'
  <2>1. Before => heard = {}
    BY DEF LifeInv
  <2>2. /\ "stream_" \notin ptr => st' = <<>>
        /\ Queued(si, "DESTROY") => st' = <<>>
        /\ pc[StreamThread] \in StreamCall => owner = "open"
    BY <1>1 DEF LifeInv
  <2>3. pc'[StreamThread] \in StreamCall => owner = "open"
    BY <1>3, <1>4, <1>5, <2>2
  <2>. QED
    BY <1>1, <1>7, <1>8, <2>1, <2>2, <2>3, LifeKept
<1>10. ReadInv'
  BY <1>1 DEF ReadInv
<1>11. ClockRuns'
  BY <1>1, <1>7 DEF ClockRuns
<1>. QED
  BY <1>6, <1>9, <1>10, <1>11

(* A clock is due: there is a channel, as MSG_WK_PURGE is alone.            *)
LEMMA StepClockDue ==
  ASSUME TypeOK, LifeInv, ReadInv, ClockRuns, ClockDue
  PROVE  TypeOK' /\ LifeInv' /\ ReadInv' /\ ClockRuns'
<1>1. /\ UNCHANGED <<tcp, shutdown, busy, data, flags, si, st>>
      /\ UNCHANGED <<ptr, cs, sess, owner, heard, initiator, object>>
      /\ wk # <<>> /\ Head(wk) = "CLOCK" /\ pc["wk"] = "idle"
      /\ pc' = [pc EXCEPT !["wk"] = "Clock"] /\ wk' = Tail(wk)
  BY DEF tcpvars, ClockDue
<1>2. wk \in Seq({"CLOCK", "PURGE"})
  BY DEF TypeOK
<1>3. wk' \in Seq({"CLOCK", "PURGE"}) /\ (Queued(wk', "PURGE") => Queued(wk, "PURGE"))
  BY <1>1, <1>2, QueueTail
<1>4. ~Before /\ "channel_" \in ptr
  <2>1. ~Before
    BY <1>1 DEF LifeInv
  <2>2. wk # <<"PURGE">>
    BY <1>1
  <2>. QED
    BY <1>1, <2>1, <2>2 DEF LifeInv
<1>5. /\ pc'["wk"] = "Clock" /\ pc'["si"] = pc["si"]
      /\ pc'[StreamThread] \in StreamCall => owner = "open"
  <2>1. /\ pc'["wk"] = "Clock" /\ pc'["si"] = pc["si"] /\ pc'["st"] = pc["st"]
    BY <1>1 DEF TypeOK, Thread
  <2>2. pc[StreamThread] \in StreamCall => owner = "open"
    BY DEF LifeInv
  <2>. QED
    BY <2>1, <2>2 DEF StreamThread, StreamCall
<1>6. TypeOK'
  <2>1. pc' \in [Thread -> {"idle", "leave", "Connect"} \cup WorkerCall \cup StreamCall]
    BY <1>1 DEF TypeOK, WorkerCall
  <2>. QED
    BY <1>1, <1>3, <2>1 DEF TypeOK
<1>7. LifeInv'
  <2>1. /\ {"session_", "worker_thread_"} \subseteq ptr
        /\ sess \in {"accepted", "terminating"} /\ ~Queued(wk, "PURGE") /\ ~Queued(si, "DESTROY")
        /\ owner = "open" => "stream_" \in ptr
        /\ "stream_" \notin ptr => st = <<>>
    BY <1>4 DEF LifeInv
  <2>2. pc["si"] # "Connect"
    BY <1>4 DEF Before
  <2>. QED
    BY <1>1, <1>3, <1>4, <1>5, <2>1, <2>2, LifeChannel
<1>8. ReadInv'
  BY <1>1 DEF ReadInv
<1>9. ClockRuns'
  BY <1>5 DEF ClockRuns
<1>. QED
  BY <1>6, <1>7, <1>8, <1>9

(* What is posted to the stream, if there is one.                           *)
LEMMA Notified ==
  ASSUME TypeOK, LifeInv, NEW evs \in Seq(SUBSET Event), st' = st \o Notify(evs)
  PROVE  /\ st' \in Seq(SUBSET Event) /\ ("stream_" \notin ptr => st' = <<>>)
         /\ Announced(st) => Announced(st')
         /\ "stream_" \in ptr /\ Announced(evs) => Announced(st')
<1>1. st \in Seq(SUBSET Event)
  BY DEF TypeOK
<1>2. CASE "stream_" \in ptr
  <2>1. st' = st \o evs
    BY <1>2 DEF Notify
  <2>. QED
    BY <1>1, <1>2, <2>1, AnnouncedPosted
<1>3. CASE "stream_" \notin ptr
  <2>1. st' = st \o <<>> /\ st = <<>>
    BY <1>3 DEF Notify, LifeInv
  <2>. QED
    BY <1>1, <1>3, <2>1
<1>. QED
  BY <1>2, <1>3

(* A method of the worker or the stream that ends with AdjustClock.         *)
LEMMA StepBody ==
  ASSUME TypeOK, LifeInv, "channel_" \in ptr, NEW t \in {"wk", "st"}, NEW m, Enter(t, m),
         NEW clear \in BOOLEAN,
         NEW s \in {"LISTEN", "SYN", "ESTABLISHED", "CLOSED"},
         NEW mode \in {"NONE", "GRACEFUL", "FORCEFUL"}, NEW b \in {0, 1}, NEW f \in SUBSET Flag,
         AdjustClock(clear, s, mode, b, f),
         UNCHANGED <<sess, heard, initiator, object>>,
         ptr' \in {ptr, ptr \ {"stream_"}}, owner' \in {owner, "closed"},
         owner' = "open" => "stream_" \in ptr',
         owner' = owner \/ t = StreamThread,
         st' \in Seq(SUBSET Event), "stream_" \notin ptr' => st' = <<>>, data' \in {0, 1}
  PROVE  /\ TypeOK' /\ LifeInv' /\ ClockRuns'
         /\ tcp' \in {"NULL", s} /\ (tcp' # "NULL" => flags' = f) /\ flags' \subseteq f
<1>1. /\ tcp' \in {"NULL", s} /\ shutdown' \in {"NONE", "GRACEFUL", "FORCEFUL"} /\ busy' \in {0, 1}
      /\ flags' \in SUBSET Flag /\ flags' \subseteq f /\ (tcp' # "NULL" => flags' = f)
      /\ si' \in Seq({"DESTROYCHANNEL", "DESTROY"}) /\ wk' \in Seq({"CLOCK", "PURGE"})
      /\ ~Queued(wk', "PURGE") /\ ~Queued(si', "DESTROY")
      /\ tcp' # "NULL" => Queued(wk', "CLOCK")
  BY Adjusted
<1>2. /\ pc'["si"] # "Connect"
      /\ pc' \in [Thread -> {"idle", "leave", "Connect"} \cup WorkerCall \cup StreamCall]
      /\ cs' \in Thread \cup {"none"} /\ pc'[t] = "leave"
      /\ pc'[StreamThread] \in StreamCall => owner = "open"
  BY Entered DEF Thread
<1>3. TypeOK'
  BY <1>1, <1>2 DEF TypeOK
<1>4. LifeInv'
  <2>1. {"session_", "worker_thread_"} \subseteq ptr /\ sess \in {"accepted", "terminating"}
    BY DEF LifeInv
  <2>2. {"session_", "worker_thread_"} \subseteq ptr' /\ "channel_" \in ptr'
    BY <2>1
  <2>3. pc'[StreamThread] \in StreamCall => owner' = "open"
    BY <1>2 DEF StreamCall
  <2>. QED
    BY <1>1, <1>2, <2>1, <2>2, <2>3, LifeChannel
<1>5. ClockRuns'
  BY <1>1 DEF ClockRuns
<1>. QED
  BY <1>1, <1>3, <1>4, <1>5

(* The first writable, another route, the clock.                            *)
LEMMA StepAdjust ==
  ASSUME TypeOK, LifeInv, ReadInv, ClockRuns, NEW b0 \in {0, 1},
         OnChannelConnectionChanged \/ OnClock(b0)
         \/ (OnChannelWritable(TRUE) /\ "ready_to_connect_" \in flags)
  PROVE  TypeOK' /\ LifeInv' /\ ReadInv' /\ ClockRuns'
<1>1. /\ UNCHANGED <<ptr, data, st, sess, owner, heard, initiator, object>> /\ tcp # "NULL"
      /\ \E m : Enter("wk", m)
  BY DEF OnChannelConnectionChanged, OnClock, OnChannelWritable
<1>2. "channel_" \in ptr /\ (owner = "open" => "stream_" \in ptr) /\ ("stream_" \notin ptr => st = <<>>)
  BY <1>1 DEF LifeInv
<1>3. \E clear \in BOOLEAN, s \in {"LISTEN", "SYN", "ESTABLISHED", "CLOSED"}, b \in {0, 1},
         f \in SUBSET Flag :
        /\ AdjustClock(clear, s, shutdown, b, f)
        /\ s \in {tcp, "SYN"} /\ f \in {flags, flags \ {"ready_to_connect_"}}
  <2>1. /\ tcp \in {"LISTEN", "SYN", "ESTABLISHED", "CLOSED"} /\ busy \in {0, 1}
        /\ flags \in SUBSET Flag /\ flags \ {"ready_to_connect_"} \in SUBSET Flag
    BY <1>1 DEF TypeOK
  <2>2. CASE OnChannelConnectionChanged
    <3>1. AdjustClock(TRUE, tcp, shutdown, busy, flags)
      BY <2>2 DEF OnChannelConnectionChanged
    <3>. QED
      BY <2>1, <3>1
  <2>3. CASE OnClock(b0)
    <3>1. AdjustClock(FALSE, tcp, shutdown, b0, flags)
      BY <2>3 DEF OnClock
    <3>. QED
      BY <2>1, <3>1
  <2>4. CASE OnChannelWritable(TRUE) /\ "ready_to_connect_" \in flags
    <3>1. \/ AdjustClock(TRUE, "SYN", shutdown, 1, flags \ {"ready_to_connect_"})
          \/ AdjustClock(TRUE, tcp, shutdown, busy, flags \ {"ready_to_connect_"})
      BY <2>4 DEF OnChannelWritable
    <3>. QED
      BY <2>1, <3>1
  <2>. QED
    BY <2>2, <2>3, <2>4
<1>4. PICK clear \in BOOLEAN, s \in {"LISTEN", "SYN", "ESTABLISHED", "CLOSED"}, b \in {0, 1},
           f \in SUBSET Flag :
        /\ AdjustClock(clear, s, shutdown, b, f)
        /\ s \in {tcp, "SYN"} /\ f \in {flags, flags \ {"ready_to_connect_"}}
  BY <1>3
<1>5. PICK m : Enter("wk", m)
  BY <1>1
<1>6. /\ TypeOK' /\ LifeInv' /\ ClockRuns'
      /\ tcp' \in {"NULL", s} /\ (tcp' # "NULL" => flags' = f) /\ flags' \subseteq f
  <2>1. /\ shutdown \in {"NONE", "GRACEFUL", "FORCEFUL"} /\ st' \in Seq(SUBSET Event)
        /\ data' \in {0, 1}
    BY <1>1 DEF TypeOK
  <2>. QED
    BY <1>1, <1>2, <1>4, <1>5, <2>1, StepBody
<1>7. ReadInv'
  <2>1. tcp' = "ESTABLISHED" => tcp = "ESTABLISHED"
    BY <1>4, <1>6
  <2>2. /\ "pending_read_event_" \in flags' => "pending_read_event_" \in flags
        /\ tcp' = "ESTABLISHED" /\ "m_bReadEnable" \notin flags' => "m_bReadEnable" \notin flags
    BY <1>4, <1>6
  <2>. QED
    BY <1>1, <2>1, <2>2 DEF ReadInv
<1>. QED
  BY <1>6, <1>7

(* The connection is reset or given up.                                     *)
LEMMA StepClosedown ==
  ASSUME TypeOK, LifeInv, ReadInv, ClockRuns, NEW m \in WorkerCall, Closedown(m)
  PROVE  TypeOK' /\ LifeInv' /\ ReadInv' /\ ClockRuns'
<1>1. /\ UNCHANGED <<ptr, data, sess, owner, heard, initiator, object>> /\ tcp # "NULL"
      /\ Enter("wk", m) /\ st' = st \o Notify(<<{"CLOSE"}>>)
      /\ AdjustClock(m = "Packet", "CLOSED", shutdown, 0, flags)
  BY DEF Closedown
<1>2. "channel_" \in ptr /\ (owner = "open" => "stream_" \in ptr)
  BY <1>1 DEF LifeInv
<1>3. /\ st' \in Seq(SUBSET Event) /\ ("stream_" \notin ptr => st' = <<>>)
      /\ Announced(st) => Announced(st')
  <2>1. <<{"CLOSE"}>> \in Seq(SUBSET Event)
    BY DEF Event
  <2>. QED
    BY <1>1, <2>1, Notified
<1>4. /\ TypeOK' /\ LifeInv' /\ ClockRuns'
      /\ tcp' \in {"NULL", "CLOSED"} /\ (tcp' # "NULL" => flags' = flags) /\ flags' \subseteq flags
  <2>1. /\ shutdown \in {"NONE", "GRACEFUL", "FORCEFUL"} /\ flags \in SUBSET Flag
        /\ data' \in {0, 1}
    BY <1>1 DEF TypeOK
  <2>2. PICK c \in BOOLEAN : AdjustClock(c, "CLOSED", shutdown, 0, flags)
    <3>1. (m = "Packet") \in BOOLEAN
      BY Zenon
    <3>. QED
      BY <1>1, <3>1
  <2>3. PICK s \in {"LISTEN", "SYN", "ESTABLISHED", "CLOSED"}, b \in {0, 1} :
          s = "CLOSED" /\ b = 0 /\ AdjustClock(c, s, shutdown, b, flags)
    BY <2>2
  <2>4. /\ Enter("wk", m) /\ UNCHANGED <<sess, heard, initiator, object>>
        /\ ptr' = ptr /\ owner' = owner
    BY <1>1
  <2>. QED
    BY <1>2, <1>3, <2>1, <2>3, <2>4, StepBody
<1>5. ReadInv'
  BY <1>1, <1>3, <1>4 DEF ReadInv, Announced
<1>. QED
  BY <1>4, <1>5

(* A signal that comes too late, and a writable that changes nothing.       *)
LEMMA StepTooLate ==
  ASSUME TypeOK, LifeInv, ReadInv, ClockRuns,
         \/ \E m \in WorkerCall : TooLate(m)
         \/ \E w \in BOOLEAN : OnChannelWritable(w) /\ ~("ready_to_connect_" \in flags /\ w)
  PROVE  TypeOK' /\ LifeInv' /\ ReadInv' /\ ClockRuns'
<1>1. /\ UNCHANGED <<tcp, shutdown, busy, data, flags, si, wk, st>>
      /\ UNCHANGED <<ptr, sess, owner, heard, initiator, object>>
  BY DEF tcpvars, queues, TooLate, OnChannelWritable
<1>2. \E m : Enter("wk", m) /\ (m = "Clock" => tcp = "NULL")
  <2>1. CASE \E m \in WorkerCall : TooLate(m)
    BY <2>1 DEF TooLate
  <2>2. CASE \E w \in BOOLEAN : OnChannelWritable(w)
    <3>1. Enter("wk", "Writable")
      BY <2>2 DEF OnChannelWritable
    <3>. QED
      BY <3>1
  <2>. QED
    BY <2>1, <2>2
<1>3. PICK m : Enter("wk", m) /\ (m = "Clock" => tcp = "NULL")
  BY <1>2
<1>4. /\ pc["si"] # "Connect" /\ pc'["si"] # "Connect" /\ pc["wk"] = m
      /\ pc' \in [Thread -> {"idle", "leave", "Connect"} \cup WorkerCall \cup StreamCall]
      /\ cs' \in Thread \cup {"none"}
      /\ pc'["wk"] \notin WorkerCall \/ pc'["wk"] = pc["wk"]
      /\ pc'[StreamThread] # "Close" \/ pc'[StreamThread] = pc[StreamThread]
      /\ pc'[StreamThread] \in StreamCall => owner = "open"
  BY <1>3, Entered DEF Thread
<1>5. TypeOK'
  BY <1>1, <1>4 DEF TypeOK
<1>6. LifeInv'
  <2>1. Before => heard = {} /\ pc[StreamThread] # "Close"
    BY DEF LifeInv
  <2>2. /\ "stream_" \notin ptr => st' = <<>>
        /\ Queued(si, "DESTROY") => st' = <<>>
    BY <1>1 DEF LifeInv
  <2>. QED
    BY <1>1, <1>4, <2>1, <2>2, LifeKept
<1>7. ReadInv'
  BY <1>1 DEF ReadInv
<1>8. ClockRuns'
  BY <1>1, <1>3, <1>4 DEF ClockRuns
<1>. QED
  BY <1>5, <1>6, <1>7, <1>8

(* A packet: SE_READ is announced when the connection opens and when there  *)
(* is new data, unless it is announced already.                             *)
LEMMA StepPacket ==
  ASSUME TypeOK, LifeInv, ReadInv, ClockRuns,
         NEW s \in {"LISTEN", "SYN", "ESTABLISHED", "CLOSED"}, NEW b \in {0, 1},
         NEW fresh \in BOOLEAN, NEW room \in BOOLEAN, OnChannelRead(s, b, fresh, room)
  PROVE  TypeOK' /\ LifeInv' /\ ReadInv' /\ ClockRuns'
<1>. DEFINE opens    == s = "ESTABLISHED" /\ tcp = "SYN"
            writable == "m_bWriteEnable" \in flags /\ room
            readable == fresh /\ "m_bReadEnable" \in flags
            pending  == opens \/ "pending_read_event_" \in flags
            e1 == IF opens THEN <<{"OPEN", "READ", "WRITE"}>> ELSE <<>>
            e2 == IF writable THEN <<{"WRITE"}>> ELSE <<>>
            e3 == IF readable /\ ~pending THEN <<{"READ"}>> ELSE <<>>
            evs == e1 \o e2 \o e3
            f == (flags \ ((IF writable THEN {"m_bWriteEnable"} ELSE {}) \cup
                           (IF readable THEN {"m_bReadEnable"} ELSE {})))
                 \cup (IF "stream_" \in ptr /\ (opens \/ readable)
                         THEN {"pending_read_event_"} ELSE {})
<1>1. /\ UNCHANGED <<ptr, sess, owner, heard, initiator, object>> /\ tcp # "NULL"
      /\ Enter("wk", "Packet") /\ "channel_" \in ptr /\ s \in PacketState(tcp)
      /\ st' = st \o Notify(evs) /\ data' = (IF fresh THEN 1 ELSE data)
      /\ fresh => s = "ESTABLISHED"
  BY DEF OnChannelRead
<1>2. AdjustClock(TRUE, s, shutdown, b, f)
  BY DEF OnChannelRead
<1>3. f \in SUBSET Flag
  BY DEF TypeOK, Flag
<1>4. /\ e1 \in Seq(SUBSET Event) /\ e2 \in Seq(SUBSET Event) /\ e3 \in Seq(SUBSET Event)
      /\ opens => Announced(e1)
      /\ readable /\ ~pending => Announced(e3)
  <2>1. \A e \in SUBSET Event : <<e>> \in Seq(SUBSET Event) /\ Len(<<e>>) = 1 /\ <<e>>[1] = e
    OBVIOUS
  <2>2. {"OPEN", "READ", "WRITE"} \in SUBSET Event /\ {"WRITE"} \in SUBSET Event /\ {"READ"} \in SUBSET Event
    BY DEF Event
  <2>3. /\ Announced(<<{"OPEN", "READ", "WRITE"}>>) /\ Announced(<<{"READ"}>>)
        /\ <<>> \in Seq(SUBSET Event)
    BY <2>1, <2>2 DEF Announced
  <2>. QED
    BY <2>1, <2>2, <2>3
<1>. HIDE DEF e1, e2, e3
<1>5. /\ evs \in Seq(SUBSET Event)
      /\ Announced(e1) \/ Announced(e3) => Announced(evs)
  <2>1. e1 \o e2 \in Seq(SUBSET Event) /\ (Announced(e1) => Announced(e1 \o e2))
    BY <1>4, AnnouncedPosted
  <2>. QED
    BY <1>4, <2>1, AnnouncedPosted
<1>. HIDE DEF evs
<1>6. /\ st' \in Seq(SUBSET Event) /\ ("stream_" \notin ptr => st' = <<>>)
      /\ Announced(st) => Announced(st')
      /\ "stream_" \in ptr /\ Announced(evs) => Announced(st')
  BY <1>1, <1>5, Notified
<1>7. owner = "open" => "stream_" \in ptr
  BY DEF LifeInv
<1>8. /\ TypeOK' /\ LifeInv' /\ ClockRuns'
      /\ tcp' \in {"NULL", s} /\ (tcp' # "NULL" => flags' = f) /\ flags' \subseteq f
  <2>1. shutdown \in {"NONE", "GRACEFUL", "FORCEFUL"} /\ data' \in {0, 1} /\ TRUE \in BOOLEAN
    BY <1>1 DEF TypeOK
  <2>. HIDE DEF f
  <2>2. /\ Enter("wk", "Packet") /\ UNCHANGED <<sess, heard, initiator, object>>
        /\ ptr' = ptr /\ owner' = owner /\ "channel_" \in ptr
    BY <1>1
  <2>3. PICK c \in BOOLEAN : AdjustClock(c, s, shutdown, b, f)
    BY <1>2
  <2>. QED
    BY <1>3, <1>6, <1>7, <2>1, <2>2, <2>3, StepBody
<1>9. ReadInv'
  <2>. SUFFICES ASSUME owner = "open"
                PROVE  /\ "pending_read_event_" \in flags' => Announced(st')
                       /\ tcp' = "ESTABLISHED" /\ (data' = 1 \/ "m_bReadEnable" \notin flags') =>
                            "READ" \in heard \/ Announced(st')
    BY <1>1 DEF ReadInv, Announced
  <2>1. "pending_read_event_" \in flags => Announced(st)
    BY DEF ReadInv, Announced
  <2>2. opens \/ readable => Announced(st')
    BY <1>4, <1>5, <1>6, <1>7, <2>1
  <2>3. "pending_read_event_" \in f => "pending_read_event_" \in flags \/ opens \/ readable
    OBVIOUS
  <2>4. "m_bReadEnable" \notin f => "m_bReadEnable" \notin flags \/ readable
    OBVIOUS
  <2>5. tcp' = "ESTABLISHED" => s = "ESTABLISHED" /\ (opens \/ tcp = "ESTABLISHED")
    BY <1>1, <1>8 DEF PacketState
  <2>6. tcp = "ESTABLISHED" /\ (data = 1 \/ "m_bReadEnable" \notin flags) => "READ" \in heard \/ Announced(st)
    BY DEF ReadInv, Announced
  <2>7. data' = 1 => data = 1 \/ readable \/ "m_bReadEnable" \notin flags
    BY <1>1
  <2>. HIDE DEF f, opens, readable
  <2>8. "pending_read_event_" \in flags' => Announced(st')
    BY <1>6, <1>8, <2>1, <2>2, <2>3
  <2>9. ASSUME tcp' = "ESTABLISHED", data' = 1 \/ "m_bReadEnable" \notin flags'
        PROVE  "READ" \in heard \/ Announced(st')
    <3>1. flags' = f
      BY <1>8, <2>9
    <3>. QED
      BY <1>6, <2>2, <2>4, <2>5, <2>6, <2>7, <2>9, <3>1
  <2>. QED
    BY <2>8, <2>9
<1>. QED
  BY <1>8, <1>9

(* A method of the stream that leaves the connection as it is.              *)
LEMMA StepStream ==
  ASSUME TypeOK, LifeInv, ClockRuns, NEW m \in StreamCall, Enter(StreamThread, m),
         UNCHANGED <<ptr, tcp, shutdown, si, wk, sess, owner, initiator, object>>,
         st' \in Seq(SUBSET Event), flags' \in SUBSET Flag, data' \in {0, 1}, busy' \in {0, 1},
         heard' \in SUBSET Event,
         Before => flags' = flags /\ heard' = {} /\ st' = st,
         owner = "open" =>
           /\ "pending_read_event_" \in flags' => Announced(st')
           /\ tcp = "ESTABLISHED" /\ (data' = 1 \/ "m_bReadEnable" \notin flags') =>
                "READ" \in heard' \/ Announced(st')
  PROVE  TypeOK' /\ LifeInv' /\ ReadInv' /\ ClockRuns'
<1>1. /\ pc["si"] # "Connect" /\ pc'["si"] # "Connect" /\ pc[StreamThread] = m
      /\ pc' \in [Thread -> {"idle", "leave", "Connect"} \cup WorkerCall \cup StreamCall]
      /\ cs' \in Thread \cup {"none"}
      /\ pc'["wk"] \notin WorkerCall \/ pc'["wk"] = pc["wk"]
      /\ pc'[StreamThread] = "leave"
      /\ \A u \in Thread \ {StreamThread} : pc'[u] = pc[u]
  BY Entered, StreamThreadType
<1>2. TypeOK'
  BY <1>1 DEF TypeOK
<1>3. owner = "open" /\ "stream_" \in ptr /\ ~Queued(si, "DESTROY")
  BY <1>1 DEF LifeInv
<1>4. LifeInv'
  BY <1>1, <1>3, LifeKept DEF StreamCall
<1>5. ReadInv'
  BY <1>3 DEF ReadInv, Announced
<1>6. pc["wk"] = "Clock" => pc'["wk"] = "Clock"
  BY <1>1, StreamThreadType DEF StreamCall, Thread
<1>7. ClockRuns'
  BY <1>6 DEF ClockRuns
<1>. QED
  BY <1>2, <1>4, <1>5, <1>7

(* Read: what was read may leave more, and SE_READ is posted again.         *)
LEMMA StepRead ==
  ASSUME TypeOK, LifeInv, ReadInv, ClockRuns, NEW more \in {0, 1}, NEW b \in {0, 1}, Read(more, b)
  PROVE  TypeOK' /\ LifeInv' /\ ReadInv' /\ ClockRuns'
<1>1. /\ UNCHANGED <<ptr, tcp, shutdown, si, wk, sess, owner, initiator, object>>
      /\ Enter(StreamThread, "Read") /\ heard' = heard \ {"READ"}
  BY DEF Read
<1>2. st \in Seq(SUBSET Event) /\ {"READ"} \in SUBSET Event
  BY DEF TypeOK, Event
<1>5. "Read" \in StreamCall /\ heard' \in SUBSET Event
  BY <1>1 DEF StreamCall, TypeOK
<1>3. CASE tcp = "ESTABLISHED" /\ data = 1
  <2>1. /\ data' = more /\ busy' = b
        /\ st' = (IF "pending_read_event_" \in flags THEN st ELSE Append(st, {"READ"}))
        /\ flags' = flags \cup {"pending_read_event_"}
    BY <1>3 DEF Read
  <2>2. /\ Append(st, {"READ"}) \in Seq(SUBSET Event) /\ Len(Append(st, {"READ"})) = Len(st) + 1
        /\ Append(st, {"READ"})[Len(st) + 1] = {"READ"} /\ Len(st) \in Nat
    BY <1>2
  <2>3. Announced(Append(st, {"READ"}))
    BY <2>2 DEF Announced
  <2>4. st' \in Seq(SUBSET Event) /\ flags' \in SUBSET Flag /\ data' \in {0, 1} /\ busy' \in {0, 1}
    BY <1>2, <2>1, <2>2 DEF TypeOK, Flag
  <2>5. owner = "open" => Announced(st')
    BY <2>1, <2>3 DEF ReadInv, Announced
  <2>6. ~Before
    BY <1>3 DEF LifeInv
  <2>. QED
    BY <1>1, <1>5, <2>4, <2>5, <2>6, StepStream
<1>4. CASE ~(tcp = "ESTABLISHED" /\ data = 1)
  <2>1. /\ UNCHANGED <<data, busy, st>>
        /\ flags' = (IF tcp = "ESTABLISHED" THEN flags \cup {"m_bReadEnable"} ELSE flags)
    BY <1>4 DEF Read
  <2>2. st' \in Seq(SUBSET Event) /\ flags' \in SUBSET Flag /\ data' \in {0, 1} /\ busy' \in {0, 1}
    BY <1>2, <2>1 DEF TypeOK, Flag
  <2>3. Before => tcp = "NULL" /\ heard = {}
    BY DEF LifeInv
  <2>4. Before => flags' = flags /\ heard' = {} /\ st' = st
    BY <1>1, <2>1, <2>3
  <2>5. /\ "pending_read_event_" \in flags' => "pending_read_event_" \in flags
        /\ ~(tcp = "ESTABLISHED" /\ (data' = 1 \/ "m_bReadEnable" \notin flags'))
    BY <1>4, <2>1
  <2>6. owner = "open" => ("pending_read_event_" \in flags => Announced(st))
    BY DEF ReadInv, Announced
  <2>. QED
    <3>1. owner = "open" => ("pending_read_event_" \in flags' => Announced(st'))
      BY <2>1, <2>5, <2>6
    <3>. QED
      BY <1>1, <1>5, <2>2, <2>4, <2>5, <3>1, StepStream
<1>. QED
  BY <1>3, <1>4

(* Write leaves what is to be read alone.                                   *)
LEMMA StepWrite ==
  ASSUME TypeOK, LifeInv, ReadInv, ClockRuns, NEW full \in BOOLEAN, Write(full)
  PROVE  TypeOK' /\ LifeInv' /\ ReadInv' /\ ClockRuns'
<1>1. /\ UNCHANGED <<ptr, tcp, shutdown, si, wk, sess, owner, initiator, object>>
      /\ UNCHANGED <<st, data, heard>>
      /\ Enter(StreamThread, "Write")
  BY DEF Write, queues
<1>2. /\ busy' \in {busy, 1} /\ flags' \in {flags, flags \cup {"m_bWriteEnable"}}
      /\ tcp # "ESTABLISHED" => flags' = flags
  BY DEF Write
<1>3. st' \in Seq(SUBSET Event) /\ flags' \in SUBSET Flag /\ data' \in {0, 1} /\ busy' \in {0, 1}
      /\ heard' \in SUBSET Event
  BY <1>1, <1>2 DEF TypeOK, Flag
<1>4. Before => tcp = "NULL" /\ heard = {}
  BY DEF LifeInv
<1>5. owner = "open" =>
        /\ "pending_read_event_" \in flags' => Announced(st')
        /\ tcp = "ESTABLISHED" /\ (data' = 1 \/ "m_bReadEnable" \notin flags') =>
             "READ" \in heard' \/ Announced(st')
  BY <1>1, <1>2 DEF ReadInv, Announced
<1>6. "Write" \in StreamCall /\ (Before => flags' = flags /\ heard' = {} /\ st' = st)
  BY <1>1, <1>2, <1>4 DEF StreamCall
<1>. QED
  BY <1>1, <1>3, <1>5, <1>6, StepStream

(* The owner hears of an event.                                             *)
LEMMA StepEvent ==
  ASSUME TypeOK, LifeInv, ReadInv, ClockRuns, OnStreamEvent
  PROVE  TypeOK' /\ LifeInv' /\ ReadInv' /\ ClockRuns'
<1>1. /\ UNCHANGED <<ptr, tcp, shutdown, busy, data, si, wk, pc, cs, sess, owner, initiator, object>>
      /\ st # <<>> /\ st' = Tail(st) /\ heard' = heard \cup Head(st)
      /\ flags' = IF "READ" \in Head(st) THEN flags \ {"pending_read_event_"} ELSE flags
  BY DEF OnStreamEvent
<1>2. /\ st \in Seq(SUBSET Event) /\ Tail(st) \in Seq(SUBSET Event) /\ Head(st) \in SUBSET Event
      /\ Len(Tail(st)) = Len(st) - 1 /\ Len(st) \in Nat /\ Len(st) >= 1
      /\ Head(st) = st[1] /\ \A i \in 1..(Len(st) - 1) : Tail(st)[i] = st[i + 1]
  BY <1>1 DEF TypeOK
<1>3. TypeOK'
  BY <1>1, <1>2 DEF TypeOK
<1>4. LifeInv'
  <2>1. ~Before /\ "stream_" \in ptr /\ ~Queued(si, "DESTROY")
        /\ (pc[StreamThread] \in StreamCall => owner = "open")
    BY <1>1 DEF LifeInv
  <2>. QED
    BY <1>1, <2>1, LifeKept
<1>5. Announced(st) => "READ" \in Head(st) \/ Announced(Tail(st))
  <2>. SUFFICES ASSUME Announced(st), "READ" \notin Head(st) PROVE Announced(Tail(st))
    OBVIOUS
  <2>1. PICK i \in 1..Len(st) : "READ" \in st[i]
    BY DEF Announced
  <2>2. i # 1
    BY <1>2, <2>1
  <2>3. i - 1 \in 1..(Len(st) - 1) /\ Tail(st)[i - 1] = st[(i - 1) + 1] /\ (i - 1) + 1 = i
    BY <1>2, <2>1, <2>2
  <2>. QED
    BY <1>2, <2>1, <2>3 DEF Announced
<1>6. ReadInv'
  <2>. SUFFICES ASSUME owner = "open"
                PROVE  /\ "pending_read_event_" \in flags' => Announced(st')
                       /\ tcp = "ESTABLISHED" /\ (data = 1 \/ "m_bReadEnable" \notin flags') =>
                            "READ" \in heard' \/ Announced(st')
    BY <1>1 DEF ReadInv, Announced
  <2>1. /\ "pending_read_event_" \in flags => Announced(st)
        /\ tcp = "ESTABLISHED" /\ (data = 1 \/ "m_bReadEnable" \notin flags) =>
             "READ" \in heard \/ Announced(st)
    BY DEF ReadInv, Announced
  <2>. QED
    BY <1>1, <1>5, <2>1
<1>7. ClockRuns'
  BY <1>1 DEF ClockRuns
<1>. QED
  BY <1>3, <1>4, <1>6, <1>7

(* Close: the last one who lets go posts MSG_SI_DESTROY.                    *)
LEMMA StepClose ==
  ASSUME TypeOK, LifeInv, ReadInv, ClockRuns, Close
  PROVE  TypeOK' /\ LifeInv' /\ ReadInv' /\ ClockRuns'
<1>1. /\ UNCHANGED <<data, sess, heard, initiator, object>>
      /\ Enter(StreamThread, "Close") /\ ptr' = ptr \ {"stream_"} /\ st' = <<>> /\ owner' = "closed"
  BY DEF Close
<1>2. ReadInv'
  BY <1>1 DEF ReadInv
<1>3. CASE tcp # "NULL"
  <2>1. AdjustClock(TRUE, tcp, "GRACEFUL", busy, flags)
    BY <1>3 DEF Close
  <2>2. /\ "channel_" \in ptr /\ tcp \in {"LISTEN", "SYN", "ESTABLISHED", "CLOSED"}
        /\ busy \in {0, 1} /\ flags \in SUBSET Flag /\ data' \in {0, 1}
        /\ st' \in Seq(SUBSET Event)
    BY <1>1, <1>3 DEF LifeInv, TypeOK
  <2>3. PICK c \in BOOLEAN, s \in {"LISTEN", "SYN", "ESTABLISHED", "CLOSED"},
             mode \in {"NONE", "GRACEFUL", "FORCEFUL"}, b \in {0, 1} :
          AdjustClock(c, s, mode, b, flags)
    BY <2>1, <2>2
  <2>4. PICK t \in {"wk", "st"} : t = StreamThread
    BY StreamThreadType
  <2>5. Enter(t, "Close")
    BY <1>1, <2>4
  <2>. QED
    BY <1>1, <1>2, <2>2, <2>3, <2>4, <2>5, StepBody
<1>4. CASE tcp = "NULL"
  <2>0. /\ UNCHANGED <<tcp, shutdown, busy, wk, flags>>
        /\ si' = IF ptr' \cap {"worker_thread_", "stream_"} = {} THEN Append(si, "DESTROY") ELSE si
    BY <1>4 DEF Close, CheckDestroy
  <2>1. /\ pc["si"] # "Connect" /\ pc'["si"] # "Connect" /\ pc[StreamThread] = "Close"
        /\ pc' \in [Thread -> {"idle", "leave", "Connect"} \cup WorkerCall \cup StreamCall]
        /\ cs' \in Thread \cup {"none"}
        /\ pc'["wk"] \notin WorkerCall \/ pc'["wk"] = pc["wk"]
        /\ pc'[StreamThread] = "leave"
    BY <1>1, Entered, StreamThreadType
  <2>2. owner = "open" /\ "stream_" \in ptr /\ ~Before /\ ~Queued(si, "DESTROY")
    BY <2>1 DEF LifeInv, StreamCall
  <2>3. ~Before'
    BY <1>1, <2>1, <2>2 DEF Before
  <2>4. si \in Seq({"DESTROYCHANNEL", "DESTROY"})
    BY DEF TypeOK
  <2>5. /\ si' \in Seq({"DESTROYCHANNEL", "DESTROY"})
        /\ Queued(si', "DESTROYCHANNEL") => Queued(si, "DESTROYCHANNEL")
        /\ Queued(si', "DESTROY") => "worker_thread_" \notin ptr'
        /\ "worker_thread_" \in ptr => si' = si
    BY <1>1, <2>0, <2>2, <2>4, QueueAppend
  <2>6. TypeOK'
    BY <1>1, <2>0, <2>1, <2>5 DEF TypeOK
  <2>7. ASSUME Queued(si', "DESTROY") PROVE Len(si') = 1
    <3>1. "worker_thread_" \notin ptr /\ si' = Append(si, "DESTROY")
      BY <1>1, <2>0, <2>2, <2>5, <2>7
    <3>2. "channel_" \notin ptr
      BY <3>1 DEF LifeInv
    <3>3. ~Queued(si, "DESTROYCHANNEL")
      BY <2>2, <3>2 DEF LifeInv
    <3>4. si = <<>>
      BY <2>2, <2>4, <3>3, QueueEmpty
    <3>. QED
      BY <3>1, <3>4
  <2>8. LifeInv'
    <3>1. "channel_" \in ptr => /\ {"session_", "worker_thread_"} \subseteq ptr
                                /\ sess \in {"accepted", "terminating"}
                                /\ ~Queued(wk, "PURGE")
      BY DEF LifeInv
    <3>2. "channel_" \in ptr' => /\ {"session_", "worker_thread_"} \subseteq ptr'
                                 /\ sess' \in {"accepted", "terminating"}
                                 /\ ~Queued(wk', "PURGE") /\ ~Queued(si', "DESTROY")
      BY <1>1, <2>0, <2>2, <2>5, <3>1
    <3>3. "channel_" \notin ptr =>
            /\ "session_" \notin ptr
            /\ ~Queued(si, "DESTROYCHANNEL")
            /\ "worker_thread_" \in ptr => wk = <<"PURGE">> /\ si = <<>>
      BY <2>2 DEF LifeInv
    <3>4. "channel_" \notin ptr' =>
            /\ "session_" \notin ptr'
            /\ ~Queued(si', "DESTROYCHANNEL")
            /\ "worker_thread_" \in ptr' => wk' = <<"PURGE">> /\ si' = <<>>
      BY <1>1, <2>0, <2>5, <3>3
    <3>5. "worker_thread_" \notin ptr' => wk' = <<>> /\ pc'["wk"] \notin WorkerCall
      BY <1>1, <2>0, <2>1 DEF LifeInv
    <3>6. sess' = "trying" => FALSE
      BY <2>3 DEF Before
    <3>. QED
      BY <1>1, <1>4, <2>0, <2>1, <2>3, <2>5, <2>7, <3>2, <3>4, <3>5, <3>6 DEF LifeInv, Before, StreamCall
  <2>9. ClockRuns'
    BY <1>4, <2>0 DEF ClockRuns
  <2>. QED
    BY <1>2, <2>6, <2>8, <2>9
<1>. QED
  BY <1>3, <1>4

(* MSG_WK_PURGE: the worker lets go of the object.                          *)
LEMMA StepPurge ==
  ASSUME TypeOK, LifeInv, ReadInv, ClockRuns, OnPurge
  PROVE  TypeOK' /\ LifeInv' /\ ReadInv' /\ ClockRuns'
<1>1. /\ UNCHANGED <<tcp, shutdown, busy, data, flags, st, sess, owner, heard, initiator, object>>
      /\ wk # <<>> /\ Head(wk) = "PURGE" /\ Enter("wk", "idle") /\ wk' = Tail(wk)
      /\ ptr' = ptr \ {"worker_thread_"}
      /\ si' = IF ptr' \cap {"worker_thread_", "stream_"} = {} THEN Append(si, "DESTROY") ELSE si
  BY DEF OnPurge, tcpvars, CheckDestroy
<1>2. wk \in Seq({"CLOCK", "PURGE"}) /\ si \in Seq({"DESTROYCHANNEL", "DESTROY"})
  BY DEF TypeOK
<1>3. Queued(wk, "PURGE") /\ wk' \in Seq({"CLOCK", "PURGE"})
  BY <1>1, <1>2, QueueTail
<1>4. /\ pc["si"] # "Connect" /\ pc'["si"] # "Connect"
      /\ pc' \in [Thread -> {"idle", "leave", "Connect"} \cup WorkerCall \cup StreamCall]
      /\ cs' \in Thread \cup {"none"} /\ pc'["wk"] = "leave"
      /\ pc'[StreamThread] \in StreamCall => owner = "open"
  BY <1>1, Entered DEF Thread
<1>5. "channel_" \notin ptr /\ ~Before /\ "worker_thread_" \in ptr /\ tcp = "NULL"
  BY <1>1, <1>3 DEF LifeInv
<1>6. /\ "session_" \notin ptr /\ wk = <<"PURGE">> /\ si = <<>>
      /\ owner = "open" => "stream_" \in ptr
      /\ "stream_" \notin ptr => st = <<>>
  BY <1>5 DEF LifeInv
<1>7. ~Before' /\ sess' # "trying"
  BY <1>1, <1>4, <1>5 DEF Before
<1>8. wk' = <<>>
  BY <1>1, <1>6
<1>9. /\ si' \in Seq({"DESTROYCHANNEL", "DESTROY"}) /\ ~Queued(si', "DESTROYCHANNEL")
      /\ Queued(si', "DESTROY") => Len(si') = 1 /\ "stream_" \notin ptr
  <2>1. ~Queued(si, "DESTROYCHANNEL") /\ ~Queued(si, "DESTROY") /\ Len(si) = 0
    BY <1>2, <1>6 DEF Queued
  <2>2. /\ Append(si, "DESTROY") \in Seq({"DESTROYCHANNEL", "DESTROY"})
        /\ ~Queued(Append(si, "DESTROY"), "DESTROYCHANNEL") /\ Len(Append(si, "DESTROY")) = 1
    <3>1. /\ Append(si, "DESTROY") \in Seq({"DESTROYCHANNEL", "DESTROY"})
          /\ Len(Append(si, "DESTROY")) = Len(si) + 1
          /\ \A y : Queued(Append(si, "DESTROY"), y) <=> Queued(si, y) \/ y = "DESTROY"
      <4>. DEFINE S == {"DESTROYCHANNEL", "DESTROY"}
      <4>1. si \in Seq(S) /\ "DESTROY" \in S
        BY <1>2
      <4>. HIDE DEF S
      <4>2. /\ Append(si, "DESTROY") \in Seq(S)
            /\ Len(Append(si, "DESTROY")) = Len(si) + 1
            /\ \A y : Queued(Append(si, "DESTROY"), y) <=> Queued(si, y) \/ y = "DESTROY"
        BY <4>1, QueueAppend
      <4>. QED
        BY <4>2 DEF S
    <3>. QED
      BY <2>1, <3>1
  <2>3. si' = si \/ (si' = Append(si, "DESTROY") /\ "stream_" \notin ptr)
    BY <1>1
  <2>. QED
    BY <1>2, <2>1, <2>2, <2>3
<1>10. TypeOK'
  BY <1>1, <1>3, <1>4, <1>9 DEF TypeOK
<1>11. LifeInv'
  <2>1. "worker_thread_" \notin ptr' /\ "channel_" \notin ptr' /\ "session_" \notin ptr'
        /\ ("stream_" \in ptr' <=> "stream_" \in ptr)
    BY <1>1, <1>5, <1>6
  <2>2. pc'["wk"] \notin WorkerCall
    BY <1>4 DEF WorkerCall
  <2>. QED
    BY <1>1, <1>4, <1>5, <1>6, <1>7, <1>8, <1>9, <2>1, <2>2 DEF LifeInv, Before
<1>12. ReadInv' /\ ClockRuns'
  BY <1>1, <1>5 DEF ReadInv, ClockRuns
<1>. QED
  BY <1>10, <1>11, <1>12

(* Connect begins.                                                          *)
LEMMA StepAccept ==
  ASSUME TypeOK, LifeInv, ReadInv, ClockRuns, OnAccept
  PROVE  TypeOK' /\ LifeInv' /\ ReadInv' /\ ClockRuns'
<1>1. /\ UNCHANGED <<tcp, shutdown, busy, data, flags, si, wk, st, owner, heard, initiator, object>>
      /\ sess = "trying" /\ sess' = "accepted" /\ cs' = "si" /\ pc' = [pc EXCEPT !["si"] = "Connect"]
      /\ ptr' = ptr \cup {"worker_thread_"}
  BY DEF OnAccept, tcpvars, queues
<1>2. Before
  BY <1>1 DEF Before
<1>3. /\ ptr \cap {"session_", "channel_"} = {"session_"}
      /\ tcp = "NULL" /\ flags = {} /\ heard = {}
      /\ si = <<>> /\ wk = <<>> /\ st = <<>>
      /\ pc["wk"] \notin WorkerCall /\ pc[StreamThread] # "Close"
      /\ owner = IF initiator THEN "open" ELSE "none"
      /\ owner = "open" => "stream_" \in ptr
      /\ pc[StreamThread] \in StreamCall => owner = "open"
  BY <1>2 DEF LifeInv
<1>4. pc'["si"] = "Connect" /\ pc'["wk"] = pc["wk"] /\ pc'[StreamThread] = pc[StreamThread]
  BY <1>1, StreamThreadType DEF TypeOK, Thread
<1>5. TypeOK'
  <2>1. ptr' \in SUBSET Pointer /\ cs' \in Thread \cup {"none"}
        /\ pc' \in [Thread -> {"idle", "leave", "Connect"} \cup WorkerCall \cup StreamCall]
    BY <1>1 DEF TypeOK, Pointer, Thread
  <2>. QED
    BY <1>1, <2>1 DEF TypeOK
<1>6. LifeInv'
  <2>1. ptr' \cap {"session_", "channel_"} = {"session_"} /\ "worker_thread_" \in ptr'
        /\ "channel_" \notin ptr' /\ ("stream_" \in ptr' <=> "stream_" \in ptr)
    BY <1>1, <1>3
  <2>2. ~Queued(si', "DESTROY") /\ Before'
    BY <1>1, <1>3, <1>4 DEF Queued, Before
  <2>. QED
    BY <1>1, <1>3, <1>4, <2>1, <2>2 DEF LifeInv
<1>7. ReadInv' /\ ClockRuns'
  BY <1>1, <1>3 DEF ReadInv, ClockRuns
<1>. QED
  BY <1>5, <1>6, <1>7

(* Connect ends with a channel and a connection that listens.               *)
LEMMA StepCreate ==
  ASSUME TypeOK, LifeInv, ReadInv, ClockRuns, CreateChannel
  PROVE  TypeOK' /\ LifeInv' /\ ReadInv' /\ ClockRuns'
<1>1. /\ UNCHANGED <<shutdown, busy, data, si, wk, st, cs, sess, heard, initiator, object>>
      /\ pc["si"] = "Connect" /\ pc' = [pc EXCEPT !["si"] = "leave"]
      /\ ptr' = ptr \cup {"channel_"} \cup (IF initiator THEN {} ELSE {"stream_"})
      /\ owner' = "open" /\ tcp' = "LISTEN"
      /\ flags' = flags \cup {"m_bReadEnable"} \cup (IF initiator THEN {"ready_to_connect_"} ELSE {})
  BY DEF CreateChannel, queues
<1>2. Before
  BY <1>1 DEF Before
<1>3. /\ ptr \cap {"session_", "channel_"} = {"session_"} /\ flags = {}
      /\ si = <<>> /\ wk = <<>> /\ st = <<>> /\ sess = "accepted"
      /\ "worker_thread_" \in ptr
      /\ initiator => "stream_" \in ptr
  BY <1>1, <1>2 DEF LifeInv
<1>4. pc'["si"] = "leave"
  BY <1>1 DEF TypeOK, Thread
<1>5. {"session_", "channel_", "worker_thread_", "stream_"} \subseteq ptr'
  BY <1>1, <1>3
<1>6. TypeOK'
  <2>1. ptr' \in SUBSET Pointer /\ flags' \in SUBSET Flag
        /\ pc' \in [Thread -> {"idle", "leave", "Connect"} \cup WorkerCall \cup StreamCall]
    BY <1>1 DEF TypeOK, Pointer, Flag
  <2>. QED
    BY <1>1, <2>1 DEF TypeOK
<1>7. ~Queued(wk', "PURGE") /\ ~Queued(si', "DESTROY")
  BY <1>1, <1>3 DEF Queued
<1>8. LifeInv'
  BY <1>1, <1>3, <1>4, <1>5, <1>7, LifeChannel
<1>9. ReadInv'
  <2>1. "pending_read_event_" \notin flags' /\ tcp' # "ESTABLISHED"
    BY <1>1, <1>3
  <2>. QED
    BY <2>1 DEF ReadInv
<1>10. ClockRuns'
  BY <1>1 DEF ClockRuns
<1>. QED
  BY <1>6, <1>8, <1>9, <1>10

(* Another tunnel makes a stream that nobody owns.                          *)
LEMMA StepFind ==
  ASSUME TypeOK, LifeInv, ReadInv, ClockRuns, FindSessionByStream
  PROVE  TypeOK' /\ LifeInv' /\ ReadInv' /\ ClockRuns'
<1>1. /\ UNCHANGED <<tcp, shutdown, busy, data, flags, si, wk, st>>
      /\ UNCHANGED <<pc, cs, sess, owner, heard, initiator, object>>
      /\ OtherTunnels /\ "stream_" \notin ptr /\ ptr' = ptr \cup {"stream_"}
  BY DEF FindSessionByStream, tcpvars, queues
<1>2. TypeOK'
  <2>1. ptr' \in SUBSET Pointer
    BY <1>1 DEF TypeOK, Pointer
  <2>. QED
    BY <1>1, <2>1 DEF TypeOK
<1>3. LifeInv'
  <2>1. Before' <=> Before
    BY <1>1 DEF Before
  <2>2. /\ "channel_" \in ptr' <=> "channel_" \in ptr
        /\ "session_" \in ptr' <=> "session_" \in ptr
        /\ "worker_thread_" \in ptr' <=> "worker_thread_" \in ptr
        /\ "stream_" \in ptr'
        /\ ptr' \cap {"session_", "channel_"} = ptr \cap {"session_", "channel_"}
        /\ {"session_", "worker_thread_"} \subseteq ptr => {"session_", "worker_thread_"} \subseteq ptr'
    BY <1>1
  <2>3. Before' => /\ ptr' \cap {"session_", "channel_"} = {"session_"}
                   /\ tcp' = "NULL" /\ flags' = {} /\ heard' = {}
                   /\ si' = <<>> /\ wk' = <<>> /\ st' = <<>>
                   /\ pc'["wk"] \notin WorkerCall /\ pc'[StreamThread] # "Close"
                   /\ owner' = IF initiator' THEN "open" ELSE "none"
    BY <1>1, <2>1, <2>2 DEF LifeInv
  <2>4. Queued(si', "DESTROY") => /\ owner' # "open" /\ st' = <<>> /\ Len(si') = 1
                                  /\ "worker_thread_" \notin ptr'
                                  /\ "stream_" \in ptr' => OtherTunnels
    BY <1>1, <2>2 DEF LifeInv
  <2>5. "channel_" \in ptr' => /\ {"session_", "worker_thread_"} \subseteq ptr'
                               /\ sess' \in {"accepted", "terminating"}
                               /\ ~Queued(wk', "PURGE") /\ ~Queued(si', "DESTROY")
    BY <1>1, <2>2 DEF LifeInv
  <2>6. ~Before' /\ "channel_" \notin ptr' =>
           /\ "session_" \notin ptr'
           /\ ~Queued(si', "DESTROYCHANNEL")
           /\ "worker_thread_" \in ptr' => wk' = <<"PURGE">> /\ si' = <<>>
    BY <1>1, <2>1, <2>2 DEF LifeInv
  <2>7. /\ pc'["si"] = "Connect" => cs' = "si" /\ sess' = "accepted" /\ "worker_thread_" \in ptr'
        /\ sess' = "trying" => "worker_thread_" \notin ptr'
        /\ pc'[StreamThread] \in StreamCall => owner' = "open"
        /\ tcp' # "NULL" => "channel_" \in ptr'
        /\ "worker_thread_" \notin ptr' => wk' = <<>> /\ pc'["wk"] \notin WorkerCall
    BY <1>1, <2>2 DEF LifeInv
  <2>. QED
    BY <2>2, <2>3, <2>4, <2>5, <2>6, <2>7 DEF LifeInv, Before
<1>4. ReadInv' /\ ClockRuns'
  BY <1>1 DEF ReadInv, ClockRuns
<1>. QED
  BY <1>2, <1>3, <1>4

(* The session is terminated.                                               *)
LEMMA StepTerminate ==
  ASSUME TypeOK, LifeInv, ReadInv, ClockRuns, OnTerminate
  PROVE  TypeOK' /\ LifeInv' /\ ReadInv' /\ ClockRuns'
<1>1. /\ UNCHANGED <<tcp, shutdown, busy, data, flags, si, wk, owner, heard, initiator, object>>
      /\ sess \in {"trying", "accepted"} /\ sess' = "terminating" /\ Enter("si", "idle")
  BY DEF OnTerminate, tcpvars
<1>2. /\ pc["si"] # "Connect" /\ pc'["si"] # "Connect"
      /\ pc' \in [Thread -> {"idle", "leave", "Connect"} \cup WorkerCall \cup StreamCall]
      /\ cs' \in Thread \cup {"none"} /\ pc'["wk"] = pc["wk"]
      /\ pc'[StreamThread] \in StreamCall => owner = "open"
  BY <1>1, Entered DEF Thread
<1>3. ~Before'
  BY <1>1, <1>2 DEF Before
<1>4. /\ st' \in Seq(SUBSET Event) /\ ("stream_" \notin ptr => st' = <<>>)
      /\ Announced(st) => Announced(st')
      /\ st' # st => "session_" \in ptr /\ "channel_" \notin ptr
  <2>1. <<{"CLOSE"}>> \in Seq(SUBSET Event)
    BY DEF Event
  <2>2. CASE "session_" \in ptr /\ "channel_" \notin ptr
    <3>1. st' = st \o Notify(<<{"CLOSE"}>>)
      BY <2>2 DEF OnTerminate
    <3>. QED
      BY <2>1, <2>2, <3>1, Notified
  <2>3. CASE ~("session_" \in ptr /\ "channel_" \notin ptr)
    <3>1. st' = st
      BY <2>3 DEF OnTerminate
    <3>. QED
      BY <3>1 DEF TypeOK, LifeInv
  <2>. QED
    BY <2>2, <2>3
<1>5. ptr' = IF "session_" \in ptr /\ "channel_" \notin ptr THEN ptr \ {"session_"} ELSE ptr
  BY DEF OnTerminate
<1>6. TypeOK'
  <2>1. ptr' \in SUBSET Pointer
    BY <1>5 DEF TypeOK
  <2>. QED
    BY <1>1, <1>2, <1>4, <2>1 DEF TypeOK
<1>7. LifeInv'
  <2>1. CASE "channel_" \in ptr
    <3>1. /\ {"session_", "worker_thread_"} \subseteq ptr /\ ptr' = ptr
          /\ ~Queued(wk, "PURGE") /\ ~Queued(si, "DESTROY")
          /\ owner = "open" => "stream_" \in ptr
      BY <1>5, <2>1 DEF LifeInv
    <3>. QED
      BY <1>1, <1>2, <1>4, <2>1, <3>1, LifeChannel
  <2>2. CASE "channel_" \notin ptr
    <3>1. /\ "session_" \notin ptr' /\ "channel_" \notin ptr'
          /\ "worker_thread_" \in ptr' <=> "worker_thread_" \in ptr
          /\ "stream_" \in ptr' <=> "stream_" \in ptr
      BY <1>5, <2>2
    <3>2. tcp = "NULL" /\ (owner = "open" => "stream_" \in ptr)
          /\ ("worker_thread_" \notin ptr => wk = <<>> /\ pc["wk"] \notin WorkerCall)
      BY <2>2 DEF LifeInv
    <3>3. CASE Before
      <4>1. si = <<>> /\ wk = <<>> /\ sess = "trying" /\ "worker_thread_" \notin ptr
        BY <1>2, <3>3 DEF LifeInv, Before
      <4>2. ~Queued(si', "DESTROY") /\ ~Queued(si', "DESTROYCHANNEL")
        BY <1>1, <4>1 DEF Queued
      <4>. QED
        BY <1>1, <1>2, <1>3, <1>4, <3>1, <3>2, <4>1, <4>2 DEF LifeInv, Before
    <3>4. CASE ~Before
      <4>1. /\ ~Queued(si, "DESTROYCHANNEL") /\ "session_" \notin ptr
            /\ "worker_thread_" \in ptr => wk = <<"PURGE">> /\ si = <<>>
        BY <2>2, <3>4 DEF LifeInv
      <4>2. st' = st
        BY <1>4, <4>1
      <4>3. Queued(si, "DESTROY") => /\ owner # "open" /\ st = <<>> /\ Len(si) = 1
                                     /\ "worker_thread_" \notin ptr
                                     /\ "stream_" \in ptr => OtherTunnels
        BY DEF LifeInv
      <4>. QED
        BY <1>1, <1>2, <1>3, <1>4, <3>1, <3>2, <4>1, <4>2, <4>3 DEF LifeInv, Before
    <3>. QED
      BY <3>3, <3>4
  <2>. QED
    BY <2>1, <2>2
<1>8. ReadInv'
  BY <1>1, <1>4 DEF ReadInv, Announced
<1>9. ClockRuns'
  BY <1>1, <1>2 DEF ClockRuns
<1>. QED
  BY <1>6, <1>7, <1>8, <1>9

(* The channel goes: the worker is left one message, MSG_WK_PURGE.          *)
LEMMA StepGone ==
  ASSUME TypeOK, LifeInv, ReadInv, "channel_" \in ptr, Enter("si", "idle"), OnChannelDestroyed,
         sess' \in {"accepted", "terminating", "destroyed"},
         UNCHANGED <<data, owner, heard, initiator, object>>
  PROVE  TypeOK' /\ LifeInv' /\ ReadInv' /\ ClockRuns'
<1>1. /\ ptr' = ptr \ {"session_", "channel_"} /\ si' = Undestroyed
      /\ wk' = Append(Unclocked, "PURGE") /\ st' = st \o ClosedEvent
      /\ tcp' = "NULL" /\ shutdown' = "NONE" /\ busy' = 0
      /\ flags' = flags \ {"ready_to_connect_"}
  BY DEF OnChannelDestroyed, ChannelGone
<1>2. /\ {"session_", "worker_thread_"} \subseteq ptr
      /\ ~Queued(wk, "PURGE") /\ ~Queued(si, "DESTROY")
      /\ owner = "open" => "stream_" \in ptr
      /\ "stream_" \notin ptr => st = <<>>
  BY DEF LifeInv
<1>3. Undestroyed = <<>> /\ Unclocked = <<>>
  BY <1>2, ClearedMessages
<1>4. /\ si' = <<>> /\ wk' = <<"PURGE">>
      /\ si' \in Seq({"DESTROYCHANNEL", "DESTROY"}) /\ wk' \in Seq({"CLOCK", "PURGE"})
      /\ ~Queued(si', "DESTROYCHANNEL") /\ ~Queued(si', "DESTROY")
  BY <1>1, <1>3 DEF Queued
<1>5. /\ st' \in Seq(SUBSET Event) /\ ("stream_" \notin ptr => st' = <<>>)
      /\ Announced(st) => Announced(st')
  <2>1. <<{"CLOSE"}>> \in Seq(SUBSET Event) /\ st \in Seq(SUBSET Event)
    BY DEF Event, TypeOK
  <2>2. CASE tcp # "CLOSED"
    <3>1. st' = st \o Notify(<<{"CLOSE"}>>)
      BY <1>1, <2>2 DEF ClosedEvent
    <3>. QED
      BY <2>1, <3>1, Notified
  <2>3. CASE tcp = "CLOSED"
    <3>1. st' = st
      BY <1>1, <2>1, <2>3 DEF ClosedEvent
    <3>. QED
      BY <1>2, <2>1, <3>1
  <2>. QED
    BY <2>2, <2>3
<1>6. /\ pc["si"] # "Connect" /\ pc'["si"] # "Connect"
      /\ pc' \in [Thread -> {"idle", "leave", "Connect"} \cup WorkerCall \cup StreamCall]
      /\ cs' \in Thread \cup {"none"}
      /\ pc'[StreamThread] \in StreamCall => owner = "open"
  BY Entered DEF Thread
<1>7. ~Before' /\ sess' # "trying"
  BY <1>6 DEF Before
<1>8. TypeOK'
  <2>1. ptr' \in SUBSET Pointer /\ flags' \in SUBSET Flag
    BY <1>1 DEF TypeOK
  <2>. QED
    BY <1>1, <1>4, <1>5, <1>6, <2>1 DEF TypeOK
<1>9. LifeInv'
  <2>1. /\ "session_" \notin ptr' /\ "channel_" \notin ptr' /\ "worker_thread_" \in ptr'
        /\ "stream_" \in ptr' <=> "stream_" \in ptr
    BY <1>1, <1>2
  <2>. QED
    BY <1>1, <1>2, <1>4, <1>5, <1>6, <1>7, <2>1 DEF LifeInv, Before
<1>10. ClockRuns'
  BY <1>1 DEF ClockRuns
<1>11. ReadInv'
  BY <1>1, <1>5 DEF ReadInv, Announced
<1>. QED
  BY <1>8, <1>9, <1>10, <1>11

(* The session is destroyed, or the channel at the request of the worker.   *)
LEMMA StepDestroy ==
  ASSUME TypeOK, LifeInv, ReadInv, ClockRuns, OnSessionDestroy \/ OnDestroyChannelMsg
  PROVE  TypeOK' /\ LifeInv' /\ ReadInv' /\ ClockRuns'
<1>1. CASE OnSessionDestroy /\ "channel_" \in ptr
  <2>1. /\ Enter("si", "idle") /\ OnChannelDestroyed /\ sess' = "destroyed"
        /\ UNCHANGED <<data, owner, heard, initiator, object>>
    BY <1>1 DEF OnSessionDestroy
  <2>. QED
    BY <1>1, <2>1, StepGone
<1>2. CASE OnDestroyChannelMsg
  <2>1. /\ Enter("si", "idle") /\ OnChannelDestroyed
        /\ sess' = (IF sess = "accepted" THEN "terminating" ELSE sess)
        /\ UNCHANGED <<data, owner, heard, initiator, object>>
        /\ si # <<>> /\ Head(si) = "DESTROYCHANNEL"
    BY <1>2 DEF OnDestroyChannelMsg
  <2>2. Queued(si, "DESTROYCHANNEL")
    BY <2>1, QueueTail DEF TypeOK
  <2>3. ~Before /\ "channel_" \in ptr
    BY <2>1, <2>2 DEF LifeInv
  <2>4. sess \in {"accepted", "terminating"}
    BY <2>3 DEF LifeInv
  <2>. QED
    BY <2>1, <2>3, <2>4, StepGone
<1>3. CASE OnSessionDestroy /\ "channel_" \notin ptr
  <2>1. /\ UNCHANGED <<ptr, si, wk, st, tcp, shutdown, busy, flags, pc, cs>>
        /\ UNCHANGED <<data, owner, heard, initiator, object>>
        /\ sess = "terminating" /\ sess' = "destroyed"
    BY <1>3 DEF OnSessionDestroy
  <2>2. TypeOK'
    BY <2>1 DEF TypeOK
  <2>3. ReadInv' /\ ClockRuns'
    BY <2>1 DEF ReadInv, ClockRuns
  <2>4. pc["si"] # "Connect"
    BY <2>1 DEF LifeInv
  <2>5. ~Before /\ ~Before'
    BY <2>1, <2>4 DEF Before
  <2>6. LifeInv'
    BY <1>3, <2>1, <2>4, <2>5 DEF LifeInv, Before
  <2>. QED
    BY <2>2, <2>3, <2>6
<1>. QED
  BY <1>1, <1>2, <1>3

(* MSG_SI_DESTROY.                                                          *)
LEMMA StepDelete ==
  ASSUME TypeOK, LifeInv, OnDestroyMsg
  PROVE  TypeOK' /\ DeletedInv' /\ object' = "deleted"
<1>1. /\ UNCHANGED <<initiator, ptr, tcp, shutdown, busy, data, flags, pc, cs, sess, owner, heard>>
      /\ object' = "deleted" /\ si' = <<>> /\ wk' = <<>> /\ st' = <<>>
      /\ si # <<>> /\ Head(si) = "DESTROY"
  BY DEF OnDestroyMsg, tcpvars
<1>2. TypeOK'
  BY <1>1 DEF TypeOK
<1>3. Queued(si, "DESTROY")
  BY <1>1, QueueTail DEF TypeOK
<1>4. ~Before /\ "channel_" \notin ptr /\ owner # "open" /\ "worker_thread_" \notin ptr
      /\ ("stream_" \in ptr => OtherTunnels)
  BY <1>1, <1>3 DEF LifeInv
<1>5. "session_" \notin ptr /\ tcp = "NULL"
  BY <1>4 DEF LifeInv
<1>6. DeletedInv'
  BY <1>1, <1>4, <1>5 DEF DeletedInv, TypeOK, Pointer
<1>. QED
  BY <1>1, <1>2, <1>6

(* Every step keeps the invariant.                                          *)
LEMMA ChannelNext ==
  ASSUME ~CloseEarly, TypeOK, ChannelInv, [Next]_vars
  PROVE  TypeOK' /\ ChannelInv'
<1>1. CASE UNCHANGED vars
  <2>1. TypeOK'
    BY <1>1 DEF vars, tcpvars, queues, TypeOK
  <2>2. ChannelInv'
    BY <1>1 DEF vars, tcpvars, queues, ChannelInv, LifeInv, ReadInv, ClockRuns, DeletedInv, Before
  <2>. QED
    BY <2>1, <2>2
<1>2. ASSUME NEW t \in Thread, Leave(t) PROVE TypeOK' /\ ChannelInv'
  <2>1. CASE object = "live"
    <3>1. object' = "live"
      BY <1>2, <2>1 DEF Leave
    <3>2. LifeInv /\ ReadInv /\ ClockRuns
      BY <2>1 DEF ChannelInv
    <3>3. TypeOK' /\ LifeInv' /\ ReadInv' /\ ClockRuns'
      BY <1>2, <3>2, StepLeave
    <3>. QED
      BY <3>1, <3>3 DEF ChannelInv, DeletedInv
  <2>2. CASE object = "deleted"
    <3>1. /\ UNCHANGED <<ptr, tcp, shutdown, busy, data, flags, si, wk, st, sess, owner, heard, initiator, object>>
          /\ cs' = "none" /\ pc' = [pc EXCEPT ![t] = "idle"]
      BY <1>2 DEF Leave, tcpvars, queues
    <3>2. TypeOK'
      BY <3>1 DEF TypeOK
    <3>. QED
      BY <2>2, <3>1, <3>2 DEF ChannelInv, DeletedInv
  <2>. QED
    BY <2>1, <2>2 DEF TypeOK
<1>3. CASE object = "live" /\ OnDestroyMsg
  <2>1. LifeInv
    BY <1>3 DEF ChannelInv
  <2>. QED
    BY <1>3, <2>1, StepDelete DEF ChannelInv
<1>4. ASSUME object = "live",
             \/ OnAccept \/ CreateChannel \/ FindSessionByStream \/ OnTerminate
             \/ OnSessionDestroy \/ OnDestroyChannelMsg \/ WorkerMessage
             \/ \E m \in WorkerCall : Signal(m)
             \/ WorkerBody
             \/ \E m \in StreamCall : Call(m)
             \/ StreamBody \/ OnStreamEvent
      PROVE  TypeOK' /\ ChannelInv'
  <2>0. LifeInv /\ ReadInv /\ ClockRuns
    BY <1>4 DEF ChannelInv
  <2>1. TypeOK' /\ LifeInv' /\ ReadInv' /\ ClockRuns'
    <3>1. CASE OnAccept \/ CreateChannel \/ FindSessionByStream \/ OnTerminate
      BY <2>0, <3>1, StepAccept, StepCreate, StepFind, StepTerminate
    <3>2. CASE OnSessionDestroy \/ OnDestroyChannelMsg
      BY <2>0, <3>2, StepDestroy
    <3>3. CASE WorkerMessage
      BY <2>0, <3>3, StepClockDue, StepPurge DEF WorkerMessage
    <3>4. CASE (\E m \in WorkerCall : Signal(m)) \/ (\E m \in StreamCall : Call(m))
      BY <2>0, <3>4, StepCall
    <3>5. CASE WorkerBody
      <4>1. CASE \E m \in WorkerCall : TooLate(m)
        BY <2>0, <4>1, StepTooLate
      <4>2. CASE \E m \in WorkerCall : Closedown(m)
        BY <2>0, <4>2, StepClosedown
      <4>3. CASE OnChannelConnectionChanged \/ \E b \in {0, 1} : OnClock(b)
        <5>1. PICK b \in {0, 1} : OnChannelConnectionChanged \/ OnClock(b)
          BY <4>3
        <5>. QED
          BY <2>0, <5>1, StepAdjust
      <4>5. ASSUME NEW w \in BOOLEAN, OnChannelWritable(w)
            PROVE  TypeOK' /\ LifeInv' /\ ReadInv' /\ ClockRuns'
        <5>1. CASE "ready_to_connect_" \in flags /\ w
          <6>1. OnChannelWritable(TRUE)
            BY <4>5, <5>1 DEF OnChannelWritable
          <6>2. 0 \in {0, 1}
            OBVIOUS
          <6>. QED
            BY <2>0, <5>1, <6>1, <6>2, StepAdjust
        <5>2. CASE ~("ready_to_connect_" \in flags /\ w)
          BY <2>0, <4>5, <5>2, StepTooLate
        <5>. QED
          BY <5>1, <5>2
      <4>4. CASE \E s \in {"LISTEN", "SYN", "ESTABLISHED", "CLOSED"}, b \in {0, 1} :
                   \E fresh, room \in BOOLEAN : OnChannelRead(s, b, fresh, room)
        BY <2>0, <4>4, StepPacket
      <4>. QED
        BY <3>5, <4>1, <4>2, <4>3, <4>4, <4>5 DEF WorkerBody
    <3>6. CASE StreamBody
      BY <2>0, <3>6, StepRead, StepWrite, StepClose DEF StreamBody
    <3>7. CASE OnStreamEvent
      BY <2>0, <3>7, StepEvent
    <3>. QED
      BY <1>4, <3>1, <3>2, <3>3, <3>4, <3>5, <3>6, <3>7
  <2>2. UNCHANGED object
    <3>1. CASE \/ OnAccept \/ CreateChannel \/ FindSessionByStream \/ OnTerminate
               \/ OnSessionDestroy \/ OnDestroyChannelMsg \/ WorkerMessage
      BY <3>1 DEF OnAccept, CreateChannel, FindSessionByStream, OnTerminate, OnSessionDestroy,
                  OnDestroyChannelMsg, WorkerMessage, ClockDue, OnPurge
    <3>2. CASE \/ (\E m \in WorkerCall : Signal(m)) \/ (\E m \in StreamCall : Call(m))
               \/ StreamBody \/ OnStreamEvent
      BY <3>2 DEF Signal, Call, StreamBody, Read, Write, Close, OnStreamEvent
    <3>3. CASE WorkerBody
      <4>1. CASE \E m \in WorkerCall : TooLate(m) \/ Closedown(m)
        BY <4>1 DEF TooLate, Closedown
      <4>2. CASE \/ \E w \in BOOLEAN : OnChannelWritable(w)
                 \/ OnChannelConnectionChanged \/ \E b \in {0, 1} : OnClock(b)
        BY <4>2 DEF OnChannelWritable, OnChannelConnectionChanged, OnClock
      <4>3. CASE \E s \in {"LISTEN", "SYN", "ESTABLISHED", "CLOSED"}, b \in {0, 1} :
                   \E fresh, room \in BOOLEAN : OnChannelRead(s, b, fresh, room)
        BY <4>3 DEF OnChannelRead
      <4>. QED
        BY <3>3, <4>1, <4>2, <4>3 DEF WorkerBody
    <3>. QED
      BY <1>4, <3>1, <3>2, <3>3
  <2>. QED
    BY <1>4, <2>1, <2>2 DEF ChannelInv, DeletedInv
<1>. QED
  BY <1>1, <1>2, <1>3, <1>4 DEF Next, SignalThreadStep

-----------------------------------------------------------------------------
(* The invariants hold always.                                              *)
LEMMA ChannelInvariant == ASSUME ~CloseEarly PROVE Spec => [](TypeOK /\ ChannelInv)
<1>1. Init => TypeOK /\ ChannelInv
  BY ChannelInit
<1>2. TypeOK /\ ChannelInv /\ [Next]_vars => (TypeOK /\ ChannelInv)'
  BY ChannelNext
<1>. QED
  BY <1>1, <1>2, PTL DEF Spec

(* The pointers that the PseudoTcp's callbacks and MSG_SI_DESTROYCHANNEL    *)
(* use without looking are there, whichever thread clears them.             *)
THEOREM PointersValid == ASSUME ~CloseEarly PROVE Spec => []NoDanglingUse
<1>1. TypeOK /\ ChannelInv => NoDanglingUse
  <2>. SUFFICES ASSUME TypeOK, ChannelInv, object = "live"
                PROVE  /\ tcp # "NULL" => {"session_", "channel_", "worker_thread_"} \subseteq ptr
                       /\ Queued(si, "DESTROYCHANNEL") => {"session_", "channel_"} \subseteq ptr
                       /\ "channel_" \in ptr => sess # "destroyed"
    BY DEF NoDanglingUse
  <2>1. LifeInv
    BY DEF ChannelInv
  <2>2. Queued(si, "DESTROYCHANNEL") => si # <<>>
    BY DEF Queued
  <2>3. Queued(si, "DESTROYCHANNEL") => "channel_" \in ptr
    BY <2>1, <2>2 DEF LifeInv
  <2>. QED
    BY <2>1, <2>3 DEF LifeInv
<1>. QED
  BY <1>1, ChannelInvariant, PTL

(* After MSG_WK_PURGE the worker has nothing more for the object, and       *)
(* MSG_SI_DESTROY is queued once, as the last message of all.               *)
THEOREM PurgeIsLast == ASSUME ~CloseEarly PROVE Spec => []WorkerPurged
<1>1. TypeOK /\ ChannelInv => WorkerPurged
  <2>. SUFFICES ASSUME TypeOK, ChannelInv, object = "live"
                PROVE  /\ Queued(si, "DESTROY") => /\ "worker_thread_" \notin ptr
                                                   /\ wk = <<>> /\ st = <<>>
                                                   /\ pc["wk"] \notin WorkerCall
                                                   /\ Len(si) = 1
                       /\ Queued(wk, "PURGE") => "channel_" \notin ptr /\ ~Queued(wk, "CLOCK")
    BY DEF WorkerPurged
  <2>1. LifeInv
    BY DEF ChannelInv
  <2>2. Queued(wk, "PURGE") => wk # <<>>
    BY DEF Queued
  <2>3. Queued(wk, "PURGE") => "channel_" \notin ptr /\ wk = <<"PURGE">>
    BY <2>1, <2>2 DEF LifeInv
  <2>4. wk = <<"PURGE">> => ~Queued(wk, "CLOCK")
    BY DEF Queued
  <2>. QED
    BY <2>1, <2>3, <2>4 DEF LifeInv
<1>. QED
  BY <1>1, ChannelInvariant, PTL

(* A connection that is being set up or is open has its clock running.      *)
THEOREM ClockIsSet == ASSUME ~CloseEarly PROVE Spec => []ClockRuns
<1>1. TypeOK /\ ChannelInv => ClockRuns
  BY DEF ChannelInv, ClockRuns
<1>. QED
  BY <1>1, ChannelInvariant, PTL

(* Data that can be read is announced to the owner of the stream.           *)
THEOREM DataIsAnnounced == ASSUME ~CloseEarly PROVE Spec => []ReadableIsAnnounced
<1>1. TypeOK /\ ChannelInv => ReadableIsAnnounced
  BY DEF ChannelInv, ReadInv, ReadableIsAnnounced
<1>. QED
  BY <1>1, ChannelInvariant, PTL

(* The assertions of ~PseudoTcpChannel hold when the object is deleted, as  *)
(* long as no other tunnel looks for its stream.                            *)
THEOREM DeletedLast == ASSUME ~CloseEarly, ~OtherTunnels PROVE Spec => []DeletedClean
<1>1. TypeOK /\ ChannelInv => DeletedClean
  BY DEF ChannelInv, DeletedInv, DeletedClean
<1>. QED
  BY <1>1, ChannelInvariant, PTL

-----------------------------------------------------------------------------
(* SE_CLOSE is heard once.                                                  *)

(* SE_CLOSE is announced in a queue of events, and at one place only.       *)
Closing(s) == \E i \in 1..Len(s) : "CLOSE" \in s[i]
ClosedOnce(s) == \A i, j \in 1..Len(s) : "CLOSE" \in s[i] /\ "CLOSE" \in s[j] => i = j

(* Other events may be posted, and SE_CLOSE if it was not.                  *)
LEMMA ClosingPosted ==
  ASSUME NEW s \in Seq(SUBSET Event), NEW e \in Seq(SUBSET Event),
         ClosedOnce(s), ClosedOnce(e), ~Closing(s) \/ ~Closing(e)
  PROVE  ClosedOnce(s \o e) /\ (Closing(s \o e) => Closing(s) \/ Closing(e))
<1>1. /\ Len(s \o e) = Len(s) + Len(e) /\ Len(s) \in Nat /\ Len(e) \in Nat
      /\ \A i \in 1..Len(s) : (s \o e)[i] = s[i]
      /\ \A i \in 1..Len(e) : (s \o e)[Len(s) + i] = e[i]
  OBVIOUS
<1>2. ASSUME NEW i \in 1..Len(s \o e), "CLOSE" \in (s \o e)[i]
      PROVE  \/ i <= Len(s) /\ i \in 1..Len(s) /\ "CLOSE" \in s[i]
             \/ i > Len(s) /\ i - Len(s) \in 1..Len(e) /\ "CLOSE" \in e[i - Len(s)]
  <2>1. CASE i <= Len(s)
    BY <1>1, <1>2, <2>1
  <2>2. CASE i > Len(s)
    <3>1. i - Len(s) \in 1..Len(e) /\ (s \o e)[Len(s) + (i - Len(s))] = e[i - Len(s)]
      BY <1>1, <2>2
    <3>2. (s \o e)[i] = e[i - Len(s)]
      BY <1>1, <3>1
    <3>. QED
      BY <1>2, <2>2, <3>1, <3>2
  <2>. QED
    BY <1>1, <2>1, <2>2
<1>3. ASSUME NEW i \in 1..Len(s \o e), NEW j \in 1..Len(s \o e),
             "CLOSE" \in (s \o e)[i], "CLOSE" \in (s \o e)[j]
      PROVE  i = j
  <2>1. CASE ~Closing(s)
    <3>1. /\ i > Len(s) /\ i - Len(s) \in 1..Len(e) /\ "CLOSE" \in e[i - Len(s)]
          /\ j > Len(s) /\ j - Len(s) \in 1..Len(e) /\ "CLOSE" \in e[j - Len(s)]
      BY <1>2, <1>3, <2>1 DEF Closing
    <3>2. i - Len(s) = j - Len(s)
      BY <3>1 DEF ClosedOnce
    <3>. QED
      BY <1>1, <3>2
  <2>2. CASE ~Closing(e)
    <3>1. i \in 1..Len(s) /\ "CLOSE" \in s[i] /\ j \in 1..Len(s) /\ "CLOSE" \in s[j]
      BY <1>2, <1>3, <2>2 DEF Closing
    <3>. QED
      BY <3>1 DEF ClosedOnce
  <2>. QED
    BY <2>1, <2>2
<1>4. ClosedOnce(s \o e)
  BY <1>3 DEF ClosedOnce
<1>5. ASSUME Closing(s \o e) PROVE Closing(s) \/ Closing(e)
  BY <1>2, <1>5 DEF Closing
<1>. QED
  BY <1>4, <1>5

(* The event that is taken.                                                 *)
LEMMA ClosingTaken ==
  ASSUME NEW s \in Seq(SUBSET Event), s # <<>>, ClosedOnce(s)
  PROVE  /\ ClosedOnce(Tail(s)) /\ (Closing(Tail(s)) => Closing(s))
         /\ "CLOSE" \in Head(s) => Closing(s) /\ ~Closing(Tail(s))
<1>1. /\ Len(s) \in Nat \ {0} /\ Len(Tail(s)) = Len(s) - 1 /\ Head(s) = s[1]
      /\ \A i \in 1..(Len(s) - 1) : Tail(s)[i] = s[i + 1]
  OBVIOUS
<1>2. ASSUME NEW i \in 1..Len(Tail(s)), "CLOSE" \in Tail(s)[i]
      PROVE  i + 1 \in 1..Len(s) /\ "CLOSE" \in s[i + 1] /\ i + 1 # 1
  BY <1>1, <1>2
<1>3. ClosedOnce(Tail(s))
  <2>. SUFFICES ASSUME NEW i \in 1..Len(Tail(s)), NEW j \in 1..Len(Tail(s)),
                       "CLOSE" \in Tail(s)[i], "CLOSE" \in Tail(s)[j]
                PROVE  i = j
    BY DEF ClosedOnce
  <2>1. i + 1 = j + 1
    BY <1>2 DEF ClosedOnce
  <2>. QED
    BY <1>1, <2>1
<1>4. Closing(Tail(s)) => Closing(s)
  BY <1>2 DEF Closing
<1>5. ASSUME "CLOSE" \in Head(s) PROVE Closing(s) /\ ~Closing(Tail(s))
  <2>1. 1 \in 1..Len(s) /\ "CLOSE" \in s[1]
    BY <1>1, <1>5
  <2>. QED
    BY <1>2, <2>1 DEF Closing, ClosedOnce
<1>. QED
  BY <1>3, <1>4, <1>5

(* OnceInv of a live object, over the queue as a whole.                     *)
OnceState ==
  /\ owner = "open" =>
       /\ ClosedOnce(st) /\ (Closing(st) => "CLOSE" \notin heard)
       /\ "CLOSE" \in heard \/ Closing(st) => "session_" \notin ptr \/ tcp = "CLOSED"
  /\ shutdown = "NONE" \/ owner = "closed"
LEMMA OnceStateIs == ASSUME object = "live" PROVE OnceInv <=> OnceState
BY DEF OnceInv, OnceState, CloseHeardOnce, Told, ClosedOnce, Closing

(* Steps that post no SE_CLOSE.                                             *)
LEMMA OnceQuiet ==
  ASSUME TypeOK, OnceState, shutdown' = "NONE" \/ owner' = "closed",
         owner' = "open" =>
           /\ owner = "open"
           /\ \E e \in Seq(SUBSET Event) : st' = st \o e /\ ~Closing(e)
           /\ "CLOSE" \in heard' => "CLOSE" \in heard
           /\ "session_" \in ptr' => "session_" \in ptr /\ (tcp = "CLOSED" => tcp' = "CLOSED")
  PROVE  OnceState'
<1>. SUFFICES ASSUME owner' = "open"
              PROVE  /\ ClosedOnce(st') /\ (Closing(st') => "CLOSE" \notin heard')
                     /\ "CLOSE" \in heard' \/ Closing(st') => "session_" \notin ptr' \/ tcp' = "CLOSED"
  BY DEF OnceState, ClosedOnce, Closing
<1>1. PICK e \in Seq(SUBSET Event) : st' = st \o e /\ ~Closing(e)
  OBVIOUS
<1>2. ClosedOnce(e) /\ ClosedOnce(st) /\ st \in Seq(SUBSET Event)
  BY <1>1 DEF ClosedOnce, Closing, OnceState, TypeOK
<1>3. ClosedOnce(st') /\ (Closing(st') => Closing(st))
  BY <1>1, <1>2, ClosingPosted
<1>. QED
  BY <1>3 DEF OnceState

(* Steps that post SE_CLOSE or nothing, to an owner that was not told.      *)
LEMMA OnceNew ==
  ASSUME TypeOK, OnceState, shutdown' = "NONE" \/ owner' = "closed",
         owner' = owner, heard' = heard,
         owner = "open" => "session_" \in ptr /\ tcp # "CLOSED",
         st' = st \o Notify(<<{"CLOSE"}>>),
         "session_" \notin ptr' \/ tcp' = "CLOSED"
  PROVE  OnceState'
<1>. SUFFICES ASSUME owner' = "open"
              PROVE  /\ ClosedOnce(st') /\ (Closing(st') => "CLOSE" \notin heard')
  BY DEF OnceState, ClosedOnce, Closing
<1>1. ClosedOnce(st) /\ ~Closing(st) /\ "CLOSE" \notin heard /\ st \in Seq(SUBSET Event)
  BY DEF OnceState, TypeOK
<1>2. Notify(<<{"CLOSE"}>>) \in {<<>>, <<{"CLOSE"}>>}
  BY DEF Notify
<1>3. /\ <<{"CLOSE"}>> \in Seq(SUBSET Event) /\ ClosedOnce(<<{"CLOSE"}>>)
      /\ <<>> \in Seq(SUBSET Event) /\ ClosedOnce(<<>>)
  BY DEF Event, ClosedOnce
<1>4. ClosedOnce(st')
  BY <1>1, <1>2, <1>3, ClosingPosted
<1>. QED
  BY <1>1, <1>4

(* A step that leaves the stream, the connection and session_ alone.        *)
LEMMA OnceSame ==
  ASSUME OnceState, UNCHANGED <<st, heard, owner, tcp, shutdown>>,
         "session_" \in ptr' => "session_" \in ptr
  PROVE  OnceState'
BY DEF OnceState, ClosedOnce, Closing

(* AdjustClock of a connection that is not shut down.                       *)
LEMMA AdjustedOpen ==
  ASSUME NEW clear, NEW s, NEW b, NEW f, AdjustClock(clear, s, "NONE", b, f)
  PROVE  tcp' = s /\ shutdown' = "NONE"
BY DEF AdjustClock, ClockCheck

(* A method of the worker that posts no SE_CLOSE and ends with AdjustClock. *)
LEMMA OnceAdjust ==
  ASSUME TypeOK, OnceState, NEW clear, NEW s, NEW b, NEW f,
         AdjustClock(clear, s, shutdown, b, f), tcp = "CLOSED" => s = "CLOSED",
         UNCHANGED <<ptr, owner, heard>>,
         \E e \in Seq(SUBSET Event) : st' = st \o e /\ ~Closing(e)
  PROVE  OnceState'
<1>1. CASE shutdown = "NONE"
  <2>1. tcp' = s /\ shutdown' = "NONE"
    BY <1>1, AdjustedOpen
  <2>. QED
    BY <2>1, OnceQuiet
<1>2. CASE shutdown # "NONE"
  <2>1. owner' = "closed"
    BY <1>2 DEF OnceState
  <2>. QED
    BY <2>1, OnceQuiet
<1>. QED
  BY <1>1, <1>2

(* Nothing is posted.                                                       *)
LEMMA NothingPosted ==
  ASSUME TypeOK, st' = st
  PROVE  \E e \in Seq(SUBSET Event) : st' = st \o e /\ ~Closing(e)
<1>1. <<>> \in Seq(SUBSET Event) /\ st \o <<>> = st /\ ~Closing(<<>>)
  BY DEF TypeOK, Closing
<1>. QED
  BY <1>1

(* One event that is not SE_CLOSE, and none.                                *)
LEMMA OneEvent ==
  ASSUME NEW ev \in SUBSET Event, "CLOSE" \notin ev
  PROVE  /\ <<ev>> \in Seq(SUBSET Event) /\ ~Closing(<<ev>>) /\ ClosedOnce(<<ev>>)
         /\ <<>> \in Seq(SUBSET Event) /\ ~Closing(<<>>) /\ ClosedOnce(<<>>)
         /\ \A s \in Seq(SUBSET Event) : Append(s, ev) = s \o <<ev>>
<1>1. <<ev>> \in Seq(SUBSET Event) /\ <<>> \in Seq(SUBSET Event)
  OBVIOUS
<1>2. ~Closing(<<ev>>) /\ ClosedOnce(<<ev>>) /\ ~Closing(<<>>) /\ ClosedOnce(<<>>)
  BY DEF Closing, ClosedOnce
<1>3. \A s \in Seq(SUBSET Event) : Append(s, ev) = s \o <<ev>>
  OBVIOUS
<1>. QED
  BY <1>1, <1>2, <1>3

(* The events of a packet are not SE_CLOSE.                                 *)
LEMMA PacketEvents ==
  ASSUME NEW a \in BOOLEAN, NEW b \in BOOLEAN, NEW c \in BOOLEAN
  PROVE  LET evs == (IF a THEN <<{"OPEN", "READ", "WRITE"}>> ELSE <<>>)
                    \o (IF b THEN <<{"WRITE"}>> ELSE <<>>)
                    \o (IF c THEN <<{"READ"}>> ELSE <<>>)
         IN  Notify(evs) \in Seq(SUBSET Event) /\ ~Closing(Notify(evs))
<1>. DEFINE x == IF a THEN <<{"OPEN", "READ", "WRITE"}>> ELSE <<>>
            y == IF b THEN <<{"WRITE"}>> ELSE <<>>
            z == IF c THEN <<{"READ"}>> ELSE <<>>
<1>1. /\ x \in Seq(SUBSET Event) /\ ~Closing(x) /\ ClosedOnce(x)
      /\ y \in Seq(SUBSET Event) /\ ~Closing(y) /\ ClosedOnce(y)
      /\ z \in Seq(SUBSET Event) /\ ~Closing(z) /\ ClosedOnce(z)
      /\ <<>> \in Seq(SUBSET Event) /\ ~Closing(<<>>)
  <2>1. \A ev \in {{"OPEN", "READ", "WRITE"}, {"WRITE"}, {"READ"}} :
          ev \in SUBSET Event /\ "CLOSE" \notin ev
    BY DEF Event
  <2>. QED
    BY <2>1, OneEvent
<1>. HIDE DEF x, y, z
<1>2. x \o y \in Seq(SUBSET Event) /\ ClosedOnce(x \o y) /\ ~Closing(x \o y)
  <2>1. x \o y \in Seq(SUBSET Event)
    BY <1>1, AnnouncedPosted
  <2>. QED
    BY <1>1, <2>1, ClosingPosted
<1>3. (x \o y) \o z \in Seq(SUBSET Event) /\ ~Closing((x \o y) \o z)
  <2>1. (x \o y) \o z \in Seq(SUBSET Event)
    BY <1>1, <1>2, AnnouncedPosted
  <2>. QED
    BY <1>1, <1>2, <2>1, ClosingPosted
<1>4. Notify((x \o y) \o z) \in Seq(SUBSET Event) /\ ~Closing(Notify((x \o y) \o z))
  BY <1>1, <1>3 DEF Notify
<1>. QED
  BY <1>4 DEF x, y, z

(* The steps of the worker.                                                 *)
LEMMA OnceWorker ==
  ASSUME TypeOK, LifeInv, OnceState, WorkerBody
  PROVE  OnceState'
<1>1. ASSUME NEW m \in WorkerCall, TooLate(m) PROVE OnceState'
  BY <1>1, OnceSame DEF TooLate, tcpvars, queues
<1>2. ASSUME NEW m \in WorkerCall, Closedown(m) PROVE OnceState'
  <2>1. /\ UNCHANGED <<ptr, owner, heard>> /\ tcp \notin {"NULL", "CLOSED"}
        /\ st' = st \o Notify(<<{"CLOSE"}>>)
        /\ AdjustClock(m = "Packet", "CLOSED", shutdown, 0, flags)
    BY <1>2 DEF Closedown
  <2>2. "session_" \in ptr
    BY <2>1 DEF LifeInv
  <2>3. CASE shutdown = "NONE"
    <3>1. tcp' = "CLOSED" /\ shutdown' = "NONE"
      BY <2>1, <2>3, AdjustedOpen
    <3>. QED
      BY <2>1, <2>2, <3>1, OnceNew
  <2>4. CASE shutdown # "NONE"
    <3>1. owner' = "closed"
      BY <2>1, <2>4 DEF OnceState
    <3>. QED
      BY <3>1, OnceQuiet
  <2>. QED
    BY <2>3, <2>4
<1>3. ASSUME NEW w \in BOOLEAN, OnChannelWritable(w) PROVE OnceState'
  <2>1. UNCHANGED <<ptr, owner, heard, st>>
    BY <1>3 DEF OnChannelWritable
  <2>2. \E e \in Seq(SUBSET Event) : st' = st \o e /\ ~Closing(e)
    BY <2>1, NothingPosted
  <2>3. CASE "ready_to_connect_" \in flags /\ w
    <3>1. \/ tcp # "CLOSED" /\ AdjustClock(TRUE, "SYN", shutdown, 1, flags \ {"ready_to_connect_"})
          \/ AdjustClock(TRUE, tcp, shutdown, busy, flags \ {"ready_to_connect_"})
      BY <1>3, <2>3 DEF OnChannelWritable
    <3>. QED
      BY <2>1, <2>2, <3>1, OnceAdjust
  <2>4. CASE ~("ready_to_connect_" \in flags /\ w)
    <3>1. UNCHANGED <<tcp, shutdown>>
      BY <1>3, <2>4 DEF OnChannelWritable
    <3>. QED
      BY <2>1, <3>1, OnceSame
  <2>. QED
    BY <2>3, <2>4
<1>4. CASE OnChannelConnectionChanged
  <2>1. UNCHANGED <<ptr, owner, heard, st>> /\ AdjustClock(TRUE, tcp, shutdown, busy, flags)
    BY <1>4 DEF OnChannelConnectionChanged
  <2>2. \E e \in Seq(SUBSET Event) : st' = st \o e /\ ~Closing(e)
    BY <2>1, NothingPosted
  <2>. QED
    BY <2>1, <2>2, OnceAdjust
<1>5. ASSUME NEW b \in {0, 1}, OnClock(b) PROVE OnceState'
  <2>1. UNCHANGED <<ptr, owner, heard, st>> /\ AdjustClock(FALSE, tcp, shutdown, b, flags)
    BY <1>5 DEF OnClock
  <2>2. \E e \in Seq(SUBSET Event) : st' = st \o e /\ ~Closing(e)
    BY <2>1, NothingPosted
  <2>. QED
    BY <2>1, <2>2, OnceAdjust
<1>6. ASSUME NEW s, NEW b, NEW fresh \in BOOLEAN, NEW room \in BOOLEAN,
             OnChannelRead(s, b, fresh, room)
      PROVE  OnceState'
  <2>1. UNCHANGED <<ptr, owner, heard>> /\ s \in PacketState(tcp)
    BY <1>6 DEF OnChannelRead
  <2>2. tcp = "CLOSED" => s = "CLOSED"
    BY <2>1 DEF PacketState
  <2>3. \E f : AdjustClock(TRUE, s, shutdown, b, f)
    BY <1>6 DEF OnChannelRead
  <2>4. \E e \in Seq(SUBSET Event) : st' = st \o e /\ ~Closing(e)
    <3>. DEFINE opens == s = "ESTABLISHED" /\ tcp = "SYN"
                writable == "m_bWriteEnable" \in flags /\ room
                readable == fresh /\ "m_bReadEnable" \in flags
                pending == opens \/ "pending_read_event_" \in flags
                late == readable /\ ~pending
                evs == (IF opens THEN <<{"OPEN", "READ", "WRITE"}>> ELSE <<>>)
                       \o (IF writable THEN <<{"WRITE"}>> ELSE <<>>)
                       \o (IF late THEN <<{"READ"}>> ELSE <<>>)
    <3>1. st' = st \o Notify(evs)
      BY <1>6 DEF OnChannelRead
    <3>2. opens \in BOOLEAN /\ writable \in BOOLEAN /\ late \in BOOLEAN
      BY Zenon
    <3>3. Notify(evs) \in Seq(SUBSET Event) /\ ~Closing(Notify(evs))
      <4>. HIDE DEF opens, writable, late
      <4>. QED
        BY <3>2, PacketEvents
    <3>. QED
      BY <3>1, <3>3
  <2>. QED
    BY <2>1, <2>2, <2>3, <2>4, OnceAdjust
<1>. QED
  BY <1>1, <1>2, <1>3, <1>4, <1>5, <1>6 DEF WorkerBody

(* The steps of the stream thread.                                          *)
LEMMA OnceStream ==
  ASSUME TypeOK, LifeInv, OnceState, StreamBody \/ OnStreamEvent
  PROVE  OnceState'
<1>1. ASSUME NEW more, NEW b, Read(more, b) PROVE OnceState'
  <2>1. UNCHANGED <<ptr, tcp, shutdown, owner>> /\ heard' = heard \ {"READ"}
        /\ st' \in {st, Append(st, {"READ"})}
    BY <1>1 DEF Read
  <2>2. \E e \in Seq(SUBSET Event) : st' = st \o e /\ ~Closing(e)
    <3>1. CASE st' = st
      BY <3>1, NothingPosted
    <3>2. CASE st' = Append(st, {"READ"})
      <4>1. /\ <<{"READ"}>> \in Seq(SUBSET Event) /\ ~Closing(<<{"READ"}>>)
            /\ Append(st, {"READ"}) = st \o <<{"READ"}>>
        <5>1. {"READ"} \in SUBSET Event /\ "CLOSE" \notin {"READ"} /\ st \in Seq(SUBSET Event)
          BY DEF Event, TypeOK
        <5>. QED
          BY <5>1, OneEvent
      <4>. QED
        BY <3>2, <4>1
    <3>. QED
      BY <2>1, <3>1, <3>2
  <2>3. shutdown' = "NONE" \/ owner' = "closed"
    BY <2>1 DEF OnceState
  <2>. QED
    BY <2>1, <2>2, <2>3, OnceQuiet
<1>2. ASSUME NEW full, Write(full) PROVE OnceState'
  BY <1>2, OnceSame DEF Write, queues
<1>3. CASE Close
  <2>1. owner' = "closed"
    BY <1>3 DEF Close
  <2>. QED
    BY <2>1, OnceQuiet
<1>4. CASE OnStreamEvent
  <2>1. /\ st # <<>> /\ st' = Tail(st) /\ heard' = heard \cup Head(st)
        /\ UNCHANGED <<ptr, tcp, shutdown, owner>> /\ st \in Seq(SUBSET Event)
    BY <1>4 DEF OnStreamEvent, TypeOK
  <2>2. CASE owner = "open"
    <3>1. /\ ClosedOnce(Tail(st)) /\ (Closing(Tail(st)) => Closing(st))
          /\ "CLOSE" \in Head(st) => Closing(st) /\ ~Closing(Tail(st))
      BY <2>1, <2>2, ClosingTaken DEF OnceState
    <3>2. ClosedOnce(st') <=> ClosedOnce(Tail(st))
      BY <2>1
    <3>3. Closing(st') <=> Closing(Tail(st))
      BY <2>1
    <3>. QED
      BY <2>1, <2>2, <3>1, <3>2, <3>3 DEF OnceState, ClosedOnce, Closing
  <2>3. CASE owner # "open"
    BY <2>1, <2>3 DEF OnceState
  <2>. QED
    BY <2>2, <2>3
<1>. QED
  BY <1>1, <1>2, <1>3, <1>4 DEF StreamBody

(* The steps of the signaling thread that the object survives.              *)
LEMMA OnceSignal ==
  ASSUME TypeOK, LifeInv, OnceState,
         \/ OnAccept \/ CreateChannel \/ FindSessionByStream \/ OnTerminate
         \/ OnSessionDestroy \/ OnDestroyChannelMsg
  PROVE  OnceState'
<1>1. CASE OnAccept \/ FindSessionByStream
  <2>1. /\ UNCHANGED <<tcp, shutdown, st, heard, owner>>
        /\ ptr' \in {ptr \cup {"worker_thread_"}, ptr \cup {"stream_"}}
    BY <1>1 DEF OnAccept, FindSessionByStream, tcpvars, queues
  <2>. QED
    BY <2>1, OnceSame
<1>2. CASE CreateChannel
  <2>1. /\ Before /\ UNCHANGED <<shutdown, heard, st>>
    BY <1>2 DEF CreateChannel, Before, queues
  <2>2. heard = {} /\ st = <<>> /\ owner # "closed"
    BY <2>1 DEF LifeInv
  <2>3. shutdown = "NONE"
    BY <2>2 DEF OnceState
  <2>4. ClosedOnce(<<>>) /\ ~Closing(<<>>)
    BY DEF ClosedOnce, Closing
  <2>. QED
    BY <2>1, <2>2, <2>3, <2>4 DEF OnceState, ClosedOnce, Closing
<1>3. CASE OnTerminate
  <2>1. UNCHANGED <<tcp, shutdown, heard, owner>>
    BY <1>3 DEF OnTerminate, tcpvars
  <2>2. CASE "session_" \in ptr /\ "channel_" \notin ptr
    <3>1. ptr' = ptr \ {"session_"} /\ st' = st \o Notify(<<{"CLOSE"}>>)
      BY <1>3, <2>2 DEF OnTerminate
    <3>2. tcp = "NULL"
      BY <2>2 DEF LifeInv
    <3>3. shutdown' = "NONE" \/ owner' = "closed"
      BY <2>1 DEF OnceState
    <3>. QED
      BY <2>1, <2>2, <3>1, <3>2, <3>3, OnceNew
  <2>3. CASE ~("session_" \in ptr /\ "channel_" \notin ptr)
    <3>1. UNCHANGED <<ptr, st>>
      BY <1>3, <2>3 DEF OnTerminate
    <3>. QED
      BY <2>1, <3>1, OnceSame
  <2>. QED
    BY <2>2, <2>3
<1>4. ASSUME OnChannelDestroyed, "channel_" \in ptr, UNCHANGED <<owner, heard>>
      PROVE  OnceState'
  <2>1. /\ ptr' = ptr \ {"session_", "channel_"} /\ st' = st \o ClosedEvent
        /\ shutdown' = "NONE"
    BY <1>4 DEF OnChannelDestroyed, ChannelGone
  <2>2. "session_" \in ptr
    BY <1>4 DEF LifeInv
  <2>3. CASE tcp = "CLOSED"
    <3>1. st' = st
      BY <2>1, <2>3 DEF ClosedEvent, TypeOK
    <3>2. \E e \in Seq(SUBSET Event) : st' = st \o e /\ ~Closing(e)
      BY <3>1, NothingPosted
    <3>. QED
      BY <1>4, <2>1, <3>2, OnceQuiet
  <2>4. CASE tcp # "CLOSED"
    <3>1. st' = st \o Notify(<<{"CLOSE"}>>)
      BY <2>1, <2>4 DEF ClosedEvent
    <3>. QED
      BY <1>4, <2>1, <2>2, <2>4, <3>1, OnceNew
  <2>. QED
    BY <2>3, <2>4
<1>5. CASE OnSessionDestroy
  <2>1. UNCHANGED <<owner, heard>>
    BY <1>5 DEF OnSessionDestroy
  <2>2. CASE "channel_" \in ptr
    <3>1. OnChannelDestroyed
      BY <1>5, <2>2 DEF OnSessionDestroy
    <3>. QED
      BY <1>4, <2>1, <2>2, <3>1
  <2>3. CASE "channel_" \notin ptr
    <3>1. UNCHANGED <<ptr, st, tcp, shutdown>>
      BY <1>5, <2>3 DEF OnSessionDestroy
    <3>. QED
      BY <2>1, <3>1, OnceSame
  <2>. QED
    BY <2>2, <2>3
<1>6. CASE OnDestroyChannelMsg
  <2>1. OnChannelDestroyed /\ UNCHANGED <<owner, heard>> /\ si # <<>> /\ Head(si) = "DESTROYCHANNEL"
    BY <1>6 DEF OnDestroyChannelMsg
  <2>2. Queued(si, "DESTROYCHANNEL")
    BY <2>1, QueueTail DEF TypeOK
  <2>3. "channel_" \in ptr
    BY <2>1, <2>2 DEF LifeInv
  <2>. QED
    BY <1>4, <2>1, <2>3
<1>. QED
  BY <1>1, <1>2, <1>3, <1>5, <1>6

(* Every step keeps OnceInv.                                                *)
LEMMA OnceNext ==
  ASSUME TypeOK, ChannelInv, object = "live" => OnceInv, [Next]_vars
  PROVE  (object = "live" => OnceInv)'
<1>. SUFFICES ASSUME object' = "live" PROVE OnceState'
  <2>1. object' = "live" => (OnceInv' <=> OnceState')
    BY DEF OnceInv, OnceState, CloseHeardOnce, Told, ClosedOnce, Closing
  <2>. QED
    BY <2>1
<1>1. CASE UNCHANGED vars
  <2>1. OnceState /\ UNCHANGED <<st, heard, owner, tcp, shutdown, ptr>>
    BY <1>1, OnceStateIs DEF vars, tcpvars, queues
  <2>. QED
    BY <2>1, OnceSame
<1>2. ASSUME NEW t \in Thread, Leave(t) PROVE OnceState'
  <2>1. OnceState /\ UNCHANGED <<st, heard, owner, tcp, shutdown, ptr>>
    BY <1>2, OnceStateIs DEF Leave, tcpvars, queues
  <2>. QED
    BY <2>1, OnceSame
<1>3. ASSUME object = "live", WorkerMessage \/ (\E m \in WorkerCall : Signal(m))
                              \/ (\E m \in StreamCall : Call(m))
      PROVE  OnceState'
  <2>1. /\ OnceState /\ UNCHANGED <<st, heard, owner, tcp, shutdown>>
        /\ ptr' \in {ptr, ptr \ {"worker_thread_"}}
    BY <1>3, OnceStateIs DEF WorkerMessage, ClockDue, OnPurge, Signal, Call, tcpvars, queues
  <2>. QED
    BY <2>1, OnceSame
<1>4. ASSUME object = "live", SignalThreadStep \/ WorkerBody \/ StreamBody \/ OnStreamEvent
      PROVE  OnceState'
  <2>1. OnceState /\ LifeInv
    BY <1>4, OnceStateIs DEF ChannelInv
  <2>2. ~OnDestroyMsg
    BY DEF OnDestroyMsg
  <2>. QED
    BY <1>4, <2>1, <2>2, OnceSignal, OnceWorker, OnceStream DEF SignalThreadStep
<1>. QED
  BY <1>1, <1>2, <1>3, <1>4 DEF Next

(* The owner of a stream hears SE_CLOSE at most once, whichever of the      *)
(* connection, the channel and the session ends first.                      *)
THEOREM CloseIsHeardOnce == ASSUME ~CloseEarly PROVE Spec => []CloseHeardOnce
<1>1. Init => (object = "live" => OnceInv)
  <2>1. Init => st = <<>> /\ heard = {} /\ shutdown = "NONE"
    BY DEF Init
  <2>. QED
    BY <2>1 DEF OnceInv, Told, CloseHeardOnce
<1>2. TypeOK /\ ChannelInv /\ (object = "live" => OnceInv) /\ [Next]_vars
        => (object = "live" => OnceInv)'
  BY OnceNext
<1>3. (object = "live" => OnceInv) => CloseHeardOnce
  BY DEF OnceInv, CloseHeardOnce
<1>. QED
  BY <1>1, <1>2, <1>3, ChannelInvariant, PTL DEF Spec
=============================================================================
