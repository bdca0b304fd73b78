----------------------------- MODULE PseudoTcp ------------------------------
(***************************************************************************)
(* The two ends of a PseudoTcp connection (talk/p2p/base/pseudotcp.cc) over *)
(* a transport channel that may lose, duplicate and re-order packets.      *)
(*                                                                         *)
(* tcb[e] is the object of end e, a record whose fields have the names of  *)
(* the members without m_.  The methods are operators from such a record   *)
(* to the record they leave; "out" collects what they pass to              *)
(* TcpWritePacket and "told" what they tell the owner.                     *)
(*                                                                         *)
(* Time is left out: a timer that is set may be due at any clock.  So are  *)
(* the round-trip estimate and the congestion window, which only say how   *)
(* long to wait and how much to send at once: every call finds the window  *)
(* at one segment or wide open.  A transport that fails for good (WR_FAIL, *)
(* which PseudoTcpChannel asserts away) is left out.  Sequence numbers do  *)
(* not wrap: the code compares them with < and >, so a connection carries  *)
(* less than 2^32 bytes either way.                                        *)
(***************************************************************************)
EXTENDS Integers, Sequences, FiniteSets, FiniteSetsExt

CONSTANTS
  Loads,      \* how many bytes the owners write: a set of pairs
  SndBufSize, \* kSndBufSize
  RcvBufSize, \* kRcvBufSize
  MaxMss,     \* segment size of a route with the largest MTU
  MaxXmit,    \* transmissions of one segment before an open connection is given up
  MaxFaults   \* packets lost, duplicated, overtaken or later than a timer,
              \* routes that change and connections closed early

ASSUME PseudoTcpAssumption ==
  /\ {SndBufSize, RcvBufSize, MaxMss, MaxXmit} \subseteq Nat \ {0}
  /\ RcvBufSize + 1 < SndBufSize
  /\ MaxFaults \in Nat
  /\ Loads \subseteq [{1, 2} -> Nat]

VARIABLES
  tcb,    \* tcb[e]: the PseudoTcp of end e
  net,    \* net[e]: the packets on their way to e
  mtu,    \* mtu[e]: the largest payload the route of e takes
  todo,   \* todo[e]: bytes its owner has yet to write
  wrote,  \* wrote[e]: bytes it has written, which are 1, 2, 3, ...
  got,    \* got[e]: what its owner has read
  can,    \* can[e]: what its owner was told it can do and could do since
  faults  \* faults so far

vars == <<tcb, net, mtu, todo, wrote, got, can, faults>>

End == {1, 2}              \* 1 connects, 2 listens
Peer(e) == 3 - e
Junk == 0                  \* a byte nobody wrote: unused buffer, control code

(* The constructor.  sbuf holds the m_slen bytes from snd_una on; the route *)
(* has been estimated to take m.                                            *)
Fresh(m) ==
  [state |-> "LISTEN", shutdown |-> "NONE",
   snd_una |-> 0, snd_nxt |-> 0, snd_wnd |-> 1, sbuf |-> <<>>, slist |-> <<>>,
   mss |-> 1, mtu_advise |-> m, rto_base |-> FALSE, dup_acks |-> 0, recover |-> 0,
   rcv_nxt |-> 0, rcv_wnd |-> RcvBufSize, rlen |-> 0, rpos |-> 0,
   rbuf |-> [i \in 1..RcvBufSize |-> Junk], rlist |-> {}, t_ack |-> FALSE,
   bReadEnable |-> TRUE, bWriteEnable |-> FALSE,
   out |-> <<>>, told |-> {}]

-----------------------------------------------------------------------------
(* Sending.                                                                 *)

(* queue: data joins the last segment if that was not transmitted yet and   *)
(* is of the same type.                                                     *)
Joined(slist, n) == [slist EXCEPT ![Len(slist)].len = @ + n]
Queue(t, data, bCtrl) ==
  LET n == Len(t.slist) IN
  [t EXCEPT !.sbuf = @ \o data,
            !.slist = IF n > 0 /\ @[n].bCtrl = bCtrl /\ @[n].xmit = 0
                        THEN Joined(@, Len(data))
                        ELSE Append(@, [seq |-> t.snd_una + Len(t.sbuf), len |-> Len(data),
                                        xmit |-> 0, bCtrl |-> bCtrl])]

(* packet: every packet carries the acknowledgement and the window.         *)
Packet(t, seq, ctl, data) ==
  [t EXCEPT !.out = Append(@, [seq |-> seq, ack |-> t.rcv_nxt, wnd |-> t.rcv_wnd,
                               ctl |-> ctl, data |-> data]),
            !.t_ack = FALSE]

(* Mutant: the second half counts as never sent.                            *)
SplitUnsent(slist, i, n) ==
  IF n >= slist[i].len THEN slist
  ELSE SubSeq(slist, 1, i - 1)
       \o <<[slist[i] EXCEPT !.len = n],
            [slist[i] EXCEPT !.seq = @ + n, !.len = @ - n, !.xmit = 0]>>
       \o SubSeq(slist, i + 1, Len(slist))

(* A segment cut in two after n bytes; both halves count as sent as often.  *)
Split(slist, i, n) ==
  IF n >= slist[i].len THEN slist
  ELSE SubSeq(slist, 1, i - 1)
       \o <<[slist[i] EXCEPT !.len = n],
            [slist[i] EXCEPT !.seq = @ + n, !.len = @ - n]>>
       \o SubSeq(slist, i + 1, Len(slist))

(* Mutant: transmit does not start the retransmission timer.                *)
TransmitNoTimer(t, i, m) ==
  LET seg == t.slist[i]
      n   == Min({seg.len, t.mss, m})
      off == seg.seq - t.snd_una
      p   == Packet(t, seg.seq, seg.bCtrl, SubSeq(t.sbuf, off + 1, off + n))
  IN  [p EXCEPT !.mss = IF n < Min({seg.len, @}) THEN n ELSE @,
                !.slist = [Split(@, i, n) EXCEPT ![i].xmit = @ + 1],
                !.snd_nxt = IF seg.xmit = 0 THEN @ + n ELSE @]

(* transmit: the i-th segment, cut to what mss and the route allow, unless  *)
(* it was sent too often, which is twice as often during the handshake.     *)
(* Every route carries the smallest packet (not "MTU too small").           *)
Exhausted(t, i) ==
  t.slist[i].xmit >= IF t.state = "ESTABLISHED" THEN MaxXmit ELSE 2 * MaxXmit
Resent(slist, i) == [slist EXCEPT ![i].xmit = @ + 1]
Transmit(t, i, m) ==
  LET seg == t.slist[i]
      fit == Min({seg.len, t.mss})
      n   == Min({fit, m})
      off == seg.seq - t.snd_una
      p   == Packet(t, seg.seq, seg.bCtrl, SubSeq(t.sbuf, off + 1, off + n))
  IN  [p EXCEPT !.mss = IF n < fit THEN n ELSE t.mss,
                !.slist = Resent(Split(t.slist, i, n), i),
                !.snd_nxt = IF seg.xmit = 0 THEN t.snd_nxt + n ELSE t.snd_nxt,
                !.rto_base = TRUE]

(* Mutant: only the congestion window counts.                               *)
AvailableAnyWindow(t, cwnd) ==
  LET nInFlight == t.snd_nxt - t.snd_una
      nUseable  == IF nInFlight < cwnd THEN cwnd - nInFlight ELSE 0
  IN  Min({Len(t.sbuf) - nInFlight, t.mss, nUseable})

(* attemptSend: how much of the queue may go now.                           *)
Available(t, cwnd) ==
  LET nWindow   == Min({t.snd_wnd, cwnd})
      nInFlight == t.snd_nxt - t.snd_una
      nUseable  == IF nInFlight < nWindow THEN nWindow - nInFlight ELSE 0
      nQueued   == Min({Len(t.sbuf) - nInFlight, t.mss})
  IN  IF nQueued <= nUseable THEN nQueued
      ELSE IF nUseable * 4 < nWindow THEN 0 ELSE nUseable

Nagle(t, n) == t.snd_nxt > t.snd_una /\ n < t.mss

SendOne(t, n, m) ==
  LET i == Min({j \in 1..Len(t.slist) : t.slist[j].xmit = 0})
  IN  Transmit([t EXCEPT !.slist = Split(@, i, n)], i, m)

(* The loop of attemptSend: sent[k] is the object after at most k segments. *)
(* Nagle's algorithm leaves it at once, with the acknowledgement unsent.    *)
AttemptSend(t, sflags, cwnd, m) ==
  LET sent[k \in 0..SndBufSize] ==
        IF k = 0 THEN t
        ELSE LET u == sent[k - 1]
                 n == Available(u, cwnd)
             IN  IF n = 0 \/ Nagle(u, n) THEN u ELSE SendOne(u, n, m)
      last == sent[SndBufSize]
  IN  IF last.snd_nxt # t.snd_nxt \/ Available(last, cwnd) > 0 \/ sflags = "none" THEN last
      ELSE IF sflags = "immediate" \/ last.t_ack
        THEN Packet(last, last.snd_nxt, FALSE, <<>>)
        ELSE [last EXCEPT !.t_ack = TRUE]

(* closedown: m_slen = 0, and OnTcpClosed.                                  *)
Closedown(t) ==
  [t EXCEPT !.state = "CLOSED", !.sbuf = <<>>, !.told = @ \cup {"close"}]

(* adjustMTU, and OnTcpOpen.                                                *)
Establish(t) ==
  [t EXCEPT !.state = "ESTABLISHED", !.mss = t.mtu_advise, !.told = @ \cup {"read", "write"}]

-----------------------------------------------------------------------------
(* Receiving.  process has four parts: control data, acknowledgement, data, *)
(* answer.                                                                  *)

(* Mutant: only the data in order is moved.                                 *)
consolidateInOrder(t) ==
  [t EXCEPT !.rbuf = [i \in 1..RcvBufSize |->
                        IF i + t.rpos <= t.rlen THEN @[i + t.rpos] ELSE @[i]],
            !.rlen = @ - t.rpos, !.rpos = 0]

getReceiveBufferSpace(t) == RcvBufSize - t.rlen + t.rpos
getReceiveBufferConsecutiveSpace(t) == RcvBufSize - t.rlen
consolidateReceiveBufferSpace(t) ==
  [t EXCEPT !.rbuf = [i \in 1..RcvBufSize |->
                        IF i + t.rpos <= RcvBufSize THEN @[i + t.rpos] ELSE @[i]],
            !.rlen = @ - t.rpos, !.rpos = 0]

(* The connect code moves the handshake on.                                 *)
ProcessControl(t, seg) ==
  IF ~seg.ctl THEN t
  ELSE CASE t.state = "LISTEN" ->
              Queue([t EXCEPT !.state = "SYN_RECEIVED"], <<Junk>>, TRUE)
         [] t.state = "SYN_SENT" -> Establish(t)
         [] OTHER -> t

(* The segments that are left when nFree bytes are acknowledged.  One that  *)
(* is acknowledged in part gets shorter but keeps its number.               *)
Unacked(slist, nFree) ==
  LET upto[i \in 0..Len(slist)] == IF i = 0 THEN 0 ELSE upto[i - 1] + slist[i].len
      k == Max({i \in 0..Len(slist) : upto[i] <= nFree})
  IN  IF upto[k] = nFree THEN SubSeq(slist, k + 1, Len(slist))
      ELSE SubSeq([slist EXCEPT ![k + 1].len = @ - (nFree - upto[k])], k + 1, Len(slist))

(* A valuable acknowledgement frees the queue, and the writer is told when  *)
(* there is room again.  In recovery the next segment is sent again.        *)
kIdealRefillSize == (SndBufSize + RcvBufSize) \div 2
ProcessNewAck(t, seg, m) ==
  LET u == [t EXCEPT !.snd_wnd = seg.wnd, !.snd_una = seg.ack,
                     !.rto_base = seg.ack # t.snd_nxt,
                     !.sbuf = SubSeq(@, seg.ack - t.snd_una + 1, Len(@)),
                     !.slist = Unacked(@, seg.ack - t.snd_una)]
      partial == t.dup_acks = 3 /\ seg.ack < t.recover
      v == IF ~partial THEN [u EXCEPT !.dup_acks = 0]
           ELSE IF Exhausted(u, 1) THEN Closedown(u) ELSE Transmit(u, 1, m)
      w == IF v.state = "SYN_RECEIVED" /\ ~seg.ctl THEN Establish(v) ELSE v
  IN  IF w.state # "CLOSED" /\ w.bWriteEnable /\ Len(w.sbuf) < kIdealRefillSize
        THEN [w EXCEPT !.bWriteEnable = FALSE, !.told = @ \cup {"write"}]
        ELSE w

(* A repeated one opens a closed window; the third starts recovery.         *)
ProcessDupAck(t, seg, m) ==
  LET u == [t EXCEPT !.snd_wnd = seg.wnd]
      n == t.dup_acks + 1
  IN  CASE seg.data # <<>> -> u
        [] seg.data = <<>> /\ t.snd_una = t.snd_nxt -> [u EXCEPT !.dup_acks = 0]
        [] OTHER ->
             IF n # 3 THEN [u EXCEPT !.dup_acks = Min({n, 3})]
             ELSE IF Exhausted(u, 1) THEN Closedown(u)
             ELSE [Transmit(u, 1, m) EXCEPT !.dup_acks = 3, !.recover = t.snd_nxt]

ProcessAck(t, seg, m) ==
  IF seg.ack > t.snd_una /\ seg.ack <= t.snd_nxt THEN ProcessNewAck(t, seg, m)
  ELSE IF seg.ack = t.snd_una THEN ProcessDupAck(t, seg, m)
  ELSE t

(* The part of a segment that is new and fits the buffer.                   *)
Fitting(t, seg) ==
  LET first == IF seg.seq < t.rcv_nxt THEN t.rcv_nxt ELSE seg.seq
      end   == Min({seg.seq + Len(seg.data), t.rcv_nxt + getReceiveBufferSpace(t)})
  IN  [seq |-> first,
       data |-> IF first < end THEN SubSeq(seg.data, first - seg.seq + 1, end - seg.seq)
                               ELSE <<>>]

(* Where the data in order ends, with the segments that were saved.         *)
Recovered(rlist, from) ==
  LET reach[k \in 0..Cardinality(rlist)] ==
        IF k = 0 THEN from
        ELSE LET r == reach[k - 1]
             IN  Max({r} \cup {s[1] + s[2] : s \in {x \in rlist : x[1] <= r}})
  IN  reach[Cardinality(rlist)]

(* The data goes to its place in the buffer, in order or not.               *)
ProcessData(t, seg) ==
  LET fit  == Fitting(t, seg)
      n    == Len(fit.data)
      off  == fit.seq - t.rcv_nxt
      u    == IF getReceiveBufferConsecutiveSpace(t) < n + off
                THEN consolidateReceiveBufferSpace(t) ELSE t
      v    == [u EXCEPT !.rbuf = [i \in 1..RcvBufSize |->
                 IF i - u.rlen - off \in 1..n THEN fit.data[i - u.rlen - off] ELSE @[i]]]
      reach == Recovered(t.rlist, fit.seq + n)
  IN  IF n = 0 THEN t
      ELSE IF seg.ctl \/ t.shutdown # "NONE"
        THEN IF off = 0 THEN [t EXCEPT !.rcv_nxt = @ + n] ELSE t
      ELSE IF off > 0 THEN [v EXCEPT !.rlist = @ \cup {<<fit.seq, n>>}]
      ELSE [v EXCEPT !.rlen = @ + (reach - t.rcv_nxt),
                     !.rcv_wnd = @ - (reach - t.rcv_nxt),
                     !.rcv_nxt = reach,
                     !.rlist = {s \in @ : s[1] > reach}]

(* How the segment is answered: at once if it is old, too new or fills a    *)
(* gap, later if it is data in order, not at all if it is empty.            *)
AckFlags(t, seg, u) ==
  CASE seg.seq # t.rcv_nxt -> "immediate"
    [] seg.seq = t.rcv_nxt /\ seg.data = <<>> -> "none"
    [] OTHER -> IF u.rcv_nxt > Min({seg.seq + Len(seg.data), t.rcv_nxt + getReceiveBufferSpace(t)})
                  THEN "immediate" ELSE "delayed"

Process(t, seg, cwnd, m) ==
  LET u == ProcessAck(ProcessControl(t, seg), seg, m)
      v == ProcessData(u, seg)
      w == AttemptSend(v, AckFlags(u, seg, v), cwnd, m)
      new == v.rlen - v.rpos > u.rlen - u.rpos
  IN  IF u.state = "CLOSED" THEN u
      ELSE IF new /\ w.bReadEnable
        THEN [w EXCEPT !.bReadEnable = FALSE, !.told = @ \cup {"read"}]
        ELSE w

-----------------------------------------------------------------------------
(* NotifyClock, when the retransmission (r), the probe of a closed window   *)
(* (p) or the delayed acknowledgement (a) is due; "silent" says that        *)
(* nothing was received for 15 seconds.                                     *)
ClockDue(t, r, p, a) ==
  /\ r => t.rto_base
  /\ p => t.snd_wnd = 0
  /\ a => t.t_ack
  /\ r \/ p \/ a
Clock(t, r, p, a, silent, m) ==
  LET u == IF r THEN Transmit(t, 1, m) ELSE t
      v == IF p THEN Packet(u, u.snd_nxt - 1, FALSE, <<>>) ELSE u
  IN  IF r /\ Exhausted(t, 1) THEN Closedown(t)
      ELSE IF p /\ silent THEN Closedown(u)
      ELSE IF a /\ v.t_ack THEN Packet(v, v.snd_nxt, FALSE, <<>>) ELSE v

(* Mutant: data that is not acknowledged does not keep the object.          *)
ClockCheckNoData(t) ==
  t.shutdown = "NONE" \/ (t.state = "ESTABLISHED" /\ t.t_ack)

(* clock_check: FALSE when the object is ready to be destroyed.             *)
ClockCheck(t) ==
  t.shutdown = "NONE" \/ (t.state = "ESTABLISHED" /\ (t.sbuf # <<>> \/ t.t_ack))

(* What the caller does with the object a method left: the packets go out   *)
(* and the owner is told; "rest" is what e has yet to receive.              *)
Finish(e, t, rest) ==
  /\ tcb' = [tcb EXCEPT ![e] = [t EXCEPT !.out = <<>>, !.told = {}]]
  /\ net' = [net EXCEPT ![e] = rest, ![Peer(e)] = @ \o t.out]
  /\ can' = [can EXCEPT ![e] = IF t.shutdown = "NONE" THEN @ \cup t.told ELSE {}]

(* PseudoTcpChannel::AdjustClock, after a clock, a packet, a route or Close,*)
(* deletes the object if clock_check says so: DESTROYED if it had nothing   *)
(* more to do, ABORTED if there was no connection (any more).               *)
Deleted(t) ==
  IF t.state = "ESTABLISHED" /\ t.shutdown = "GRACEFUL" THEN "DESTROYED" ELSE "ABORTED"
AdjustClock(e, t, rest) ==
  Finish(e, IF ClockCheck(t) THEN t ELSE [t EXCEPT !.state = Deleted(t)], rest)

Gone == {"CLOSED", "ABORTED", "DESTROYED"}
Cwnd(t) == {t.mss, t.mss + SndBufSize}
-----------------------------------------------------------------------------
Init ==
  /\ \E m \in 1..MaxMss : tcb = [e \in End |-> Fresh(m)]
  /\ net = [e \in End |-> <<>>]
  /\ mtu = [e \in End |-> MaxMss]
  /\ todo \in Loads
  /\ wrote = [e \in End |-> 0]
  /\ got = [e \in End |-> <<>>]
  /\ can = [e \in End |-> {}]
  /\ faults = 0

(* The initiator's PseudoTcpChannel connects.                               *)
Connect ==
  /\ tcb[1].state = "LISTEN"
  /\ LET t == Queue([tcb[1] EXCEPT !.state = "SYN_SENT"], <<Junk>>, TRUE)
     IN  \E c \in Cwnd(t) : AdjustClock(1, AttemptSend(t, "none", c, mtu[1]), net[1])
  /\ UNCHANGED <<mtu, todo, wrote, got, faults>>

(* NotifyPacket; a connection that is closed or deleted ignores it.         *)
NotifyPacket(e) ==
  /\ net[e] # <<>>
  /\ IF tcb[e].state \in Gone
       THEN net' = [net EXCEPT ![e] = Tail(@)] /\ UNCHANGED <<tcb, can>>
       ELSE \E c \in Cwnd(tcb[e]) :
              AdjustClock(e, Process(tcb[e], Head(net[e]), c, mtu[e]), Tail(net[e]))
  /\ UNCHANGED <<mtu, todo, wrote, got, faults>>

(* A timer that is due while packets are on their way is early.             *)
NotifyClock(e, r, p, a, silent) ==
  /\ tcb[e].state \notin Gone
  /\ ClockDue(tcb[e], r, p, a)
  /\ faults' = IF net # [f \in End |-> <<>>] THEN faults + 1 ELSE faults
  /\ faults' <= MaxFaults
  /\ AdjustClock(e, Clock(tcb[e], r, p, a, silent, mtu[e]), net[e])
  /\ UNCHANGED <<mtu, todo, wrote, got>>

(* NotifyMTU: e has another route, and an estimate of what it takes.        *)
NotifyMTU(e, real, estimate) ==
  /\ faults < MaxFaults
  /\ tcb[e].state \notin Gone
  /\ faults' = faults + 1
  /\ mtu' = [mtu EXCEPT ![e] = real]
  /\ AdjustClock(e, [tcb[e] EXCEPT !.mtu_advise = estimate,
                                   !.mss = IF tcb[e].state = "ESTABLISHED" THEN estimate ELSE @],
                 net[e])
  /\ UNCHANGED <<todo, wrote, got>>

(* The owner of e writes up to n bytes, or finds the buffer full.           *)
Send(e, n) ==
  /\ "write" \in can[e] /\ tcb[e].state = "ESTABLISHED"
  /\ todo[e] > 0
  /\ LET t == tcb[e]
         m == Min({n, SndBufSize - Len(t.sbuf)})
     IN  IF m = 0
           THEN /\ tcb' = [tcb EXCEPT ![e].bWriteEnable = TRUE]
                /\ can' = [can EXCEPT ![e] = @ \ {"write"}]
                /\ UNCHANGED <<net, todo, wrote>>
           ELSE /\ \E c \in Cwnd(t) :
                     Finish(e, AttemptSend(Queue(t, [i \in 1..m |-> wrote[e] + i], FALSE),
                                           "none", c, mtu[e]), net[e])
                /\ wrote' = [wrote EXCEPT ![e] = @ + m]
                /\ todo' = [todo EXCEPT ![e] = @ - m]
  /\ UNCHANGED <<mtu, got, faults>>

(* The owner of e reads up to n bytes, or finds none.  When enough room was *)
(* made the window is opened, and the peer is told if it was closed.        *)
Recv(e, n) ==
  /\ "read" \in can[e] /\ tcb[e].state = "ESTABLISHED"
  /\ LET t == tcb[e]
         m == Min({n, t.rlen - t.rpos})
         u == [t EXCEPT !.rpos = @ + m]
         opens == getReceiveBufferSpace(u) - u.rcv_wnd >= Min({RcvBufSize \div 2, u.mss})
         v == IF opens THEN [u EXCEPT !.rcv_wnd = getReceiveBufferSpace(u)] ELSE u
     IN  IF m = 0
           THEN /\ tcb' = [tcb EXCEPT ![e].bReadEnable = TRUE]
                /\ can' = [can EXCEPT ![e] = @ \ {"read"}]
                /\ UNCHANGED <<net, got>>
           ELSE /\ IF opens /\ u.rcv_wnd = 0
                     THEN \E c \in Cwnd(v) : Finish(e, AttemptSend(v, "immediate", c, mtu[e]), net[e])
                     ELSE Finish(e, v, net[e])
                /\ got' = [got EXCEPT ![e] = @ \o SubSeq(t.rbuf, t.rpos + 1, t.rpos + m)]
  /\ UNCHANGED <<mtu, todo, wrote, faults>>

(* Close: what is queued is still delivered, unless forced, at once or      *)
(* later.  To close before everything is written is a fault of the owner.   *)
Close(e, force) ==
  /\ tcb[e].shutdown = "NONE" \/ (tcb[e].shutdown = "GRACEFUL" /\ force)
  /\ tcb[e].state \notin Gone
  /\ faults' = IF force \/ todo[1] + todo[2] > 0 THEN faults + 1 ELSE faults
  /\ faults' <= MaxFaults
  /\ AdjustClock(e, [tcb[e] EXCEPT !.shutdown = IF force THEN "FORCEFUL" ELSE "GRACEFUL"], net[e])
  /\ UNCHANGED <<mtu, todo, wrote, got>>

(* The network loses the i-th packet, delivers it twice or late.            *)
Without(s, i) == SubSeq(s, 1, i - 1) \o SubSeq(s, i + 1, Len(s))
Fault(e, i) ==
  /\ faults < MaxFaults
  /\ i \in 1..Len(net[e])
  /\ faults' = faults + 1
  /\ \/ net' = [net EXCEPT ![e] = Without(@, i)]
     \/ net' = [net EXCEPT ![e] = Append(@, @[i])]
     \/ net' = [net EXCEPT ![e] = Append(Without(@, i), @[i])]
  /\ UNCHANGED <<tcb, mtu, todo, wrote, got, can>>

Next ==
  \/ Connect
  \/ \E e \in End :
       \/ NotifyPacket(e)
       \/ \E r, p, a, silent \in BOOLEAN : NotifyClock(e, r, p, a, silent)
       \/ \E real, estimate \in 1..MaxMss : NotifyMTU(e, real, estimate)
       \/ \E n \in {1, todo[e]} : Send(e, n)
       \/ \E n \in {1, RcvBufSize} : Recv(e, n)
       \/ \E force \in BOOLEAN : Close(e, force)
       \/ \E i \in 1..Len(net[e]) : Fault(e, i)

Spec == Init /\ [][Next]_vars
-----------------------------------------------------------------------------
(* What is read is what was written, in order and without gaps, whatever    *)
(* the network did to the packets and however the buffer was filled.        *)
ReadIsPrefix ==
  \A e \in End : /\ Len(got[e]) <= wrote[Peer(e)]
                 /\ \A i \in 1..Len(got[e]) : got[e][i] = i

(* The list of segments covers the send buffer, in order, the ones sent     *)
(* first: transmit takes its data at seq - m_snd_una, and a segment that    *)
(* is acknowledged in part would be taken from outside of the buffer.       *)
SegmentsTileBuffer ==
  \A e \in End : LET t == tcb[e] IN
    t.state \notin Gone =>
      /\ \A i \in 1..Len(t.slist) :
           t.slist[i].seq = IF i = 1 THEN t.snd_una ELSE t.slist[i - 1].seq + t.slist[i - 1].len
      /\ t.snd_una + Len(t.sbuf) =
           IF t.slist = <<>> THEN t.snd_una
           ELSE t.slist[Len(t.slist)].seq + t.slist[Len(t.slist)].len
      /\ \A i \in 1..Len(t.slist) : t.slist[i].xmit > 0 <=> t.slist[i].seq < t.snd_nxt

(* An end never sends more than its peer has room for, although windows     *)
(* are learnt from old, repeated and overtaken packets.                     *)
WindowHonoured ==
  \A e \in End : LET t == tcb[e]
                     u == tcb[Peer(e)] IN
    {t.state, u.state} \cap Gone = {} /\ u.state # "LISTEN" =>
      t.snd_nxt <= u.rcv_nxt + u.rcv_wnd

(* A connection that was closed gracefully and deleted itself has           *)
(* delivered everything: the peer has it, unless the peer was closed.       *)
ClosedFlushed ==
  \A e \in End :
    tcb[e].state = "DESTROYED" /\ tcb[Peer(e)].shutdown = "NONE" =>
      Len(got[Peer(e)]) + tcb[Peer(e)].rlen - tcb[Peer(e)].rpos = wrote[e]

(* Nothing is stuck: when no packet is on its way, no timer of either end   *)
(* is set and no owner has anything it was told to read, all that was       *)
(* written has been read and nobody waits to write, unless an end is closed *)
(* or given up.  So no window stays closed, no segment waits for a timer    *)
(* that is not set and no reader or writer sleeps for ever.                 *)
Idle(e) ==
  /\ net[e] = <<>>
  /\ ~tcb[e].rto_base /\ ~tcb[e].t_ack /\ tcb[e].snd_wnd # 0
  /\ "read" \notin can[e]
NothingStuck ==
  (\A e \in End : Idle(e) /\ tcb[e].state = "ESTABLISHED" /\ tcb[e].shutdown = "NONE") =>
    \A e \in End : Len(got[Peer(e)]) = wrote[e] /\ "write" \in can[e]
-----------------------------------------------------------------------------
(* The inductive invariant.  The byte at sequence number s has the value s, *)
(* so that what is in a buffer or a packet can be told by its place.        *)
Segment == [seq : Nat, len : Nat \ {0}, xmit : Nat, bCtrl : BOOLEAN]
Pkt == [seq : Int, ack : Nat, wnd : Nat, ctl : BOOLEAN, data : Seq(Nat)]
Field ==
  {"state", "shutdown", "snd_una", "snd_nxt", "snd_wnd", "sbuf", "slist", "mss",
   "mtu_advise", "rto_base", "dup_acks", "recover", "rcv_nxt", "rcv_wnd", "rlen", "rpos",
   "rbuf", "rlist", "t_ack", "bReadEnable", "bWriteEnable", "out", "told"}
Unaltered(t) == t = [f \in Field |-> t[f]]

(* What the members of an object hold.                                      *)
Typed(t) ==
  /\ Unaltered(t)
  /\ t.state \in {"LISTEN", "SYN_SENT", "SYN_RECEIVED", "ESTABLISHED"} \cup Gone
  /\ t.shutdown \in {"NONE", "GRACEFUL", "FORCEFUL"}
  /\ t.snd_una \in Nat /\ t.snd_nxt \in Nat /\ t.snd_wnd \in Nat
  /\ t.sbuf \in Seq(Nat) /\ t.slist \in Seq(Segment)
  /\ t.mss \in Nat \ {0} /\ t.mtu_advise \in Nat \ {0}
  /\ t.dup_acks \in Nat /\ t.recover \in Nat
  /\ t.rcv_nxt \in Nat /\ t.rcv_wnd \in Nat /\ t.rlen \in Nat /\ t.rpos \in Nat
  /\ t.rbuf \in [1..RcvBufSize -> Nat]
  /\ t.rlist \subseteq Nat \X (Nat \ {0}) /\ IsFiniteSet(t.rlist)
  /\ t.rto_base \in BOOLEAN /\ t.t_ack \in BOOLEAN
  /\ t.bReadEnable \in BOOLEAN /\ t.bWriteEnable \in BOOLEAN
  /\ t.out \in Seq(Pkt) /\ t.told \subseteq {"read", "write", "close"}

(* The segments s cover the bytes from una to end, in order, the connect    *)
(* code in one of its own; no segment has x inside; those before nxt have   *)
(* been sent.                                                               *)
EndOf(s) == s.seq + s.len
Tiles(s, una, end) ==
  /\ \A i \in 1..Len(s) :
       /\ s[i].seq = IF i = 1 THEN una ELSE EndOf(s[i - 1])
       /\ s[i].bCtrl <=> s[i].seq = 0
       /\ s[i].seq = 0 => s[i].len = 1
  /\ \A i, j \in 1..Len(s) : i < j => EndOf(s[i]) <= s[j].seq
  /\ end = IF s = <<>> THEN una ELSE EndOf(s[Len(s)])
Uncut(s, x) == \A i \in 1..Len(s) : s[i].seq < x => EndOf(s[i]) <= x
SentTo(s, nxt) ==
  /\ \A i \in 1..Len(s) : s[i].xmit > 0 <=> s[i].seq < nxt
  /\ Uncut(s, nxt)

(* The queue of a sender.                                                   *)
Tiled(t) ==
  /\ Tiles(t.slist, t.snd_una, t.snd_una + Len(t.sbuf))
  /\ SentTo(t.slist, t.snd_nxt)
  /\ \A j \in 1..Len(t.sbuf) : t.sbuf[j] = t.snd_una + j - 1
  /\ Len(t.sbuf) <= SndBufSize
  /\ t.snd_una <= t.snd_nxt /\ t.snd_nxt <= t.snd_una + Len(t.sbuf)
  /\ t.rto_base <=> t.snd_una < t.snd_nxt
  /\ t.recover <= t.snd_nxt

(* w bytes were written.                                                    *)
Queued(t, w) ==
  /\ t.state \notin Gone => Tiled(t) /\ t.snd_una + Len(t.sbuf) = IF t.state = "LISTEN" THEN 0 ELSE w + 1
  /\ t.snd_nxt <= w + 1
  /\ t.state = "LISTEN" => w = 0
  /\ t.state = "DESTROYED" => t.snd_una = w + 1

(* What u has received of t.                                                *)
Edge(u) == u.rcv_nxt + u.rcv_wnd
Flow(t, u) ==
  /\ t.snd_una <= u.rcv_nxt /\ u.rcv_nxt <= t.snd_nxt
  /\ t.snd_una + t.snd_wnd <= Edge(u) /\ t.snd_nxt <= Edge(u)
  /\ Uncut(t.slist, u.rcv_nxt)
  /\ \A s \in u.rlist : s[1] + s[2] <= t.snd_nxt /\ Uncut(t.slist, s[1] + s[2])

(* A packet on its way from u acknowledges what u received of t.            *)
Acks(t, u, p) ==
  /\ p.ack <= u.rcv_nxt /\ p.ack + p.wnd <= Edge(u)
  /\ Uncut(t.slist, p.ack)

(* A packet on its way from t has bytes t sent.                             *)
Carries(t, p) ==
  /\ p.data # <<>> =>
       /\ 0 <= p.seq /\ p.seq + Len(p.data) <= t.snd_nxt
       /\ Uncut(t.slist, p.seq + Len(p.data))
       /\ \A j \in 1..Len(p.data) : p.data[j] = p.seq + j - 1
       /\ p.ctl <=> p.seq = 0
  /\ p.ctl => Len(p.data) = 1

(* The buffer of a receiver whose owner has read g: byte x is at At(u, x).  *)
At(u, x) == u.rlen - u.rcv_nxt + x + 1
Buffered(u, g) ==
  /\ u.rpos <= u.rlen /\ u.rlen <= RcvBufSize
  /\ u.rcv_wnd <= getReceiveBufferSpace(u)
  /\ \A i \in 1..Len(g) : g[i] = i
  /\ Len(g) + u.rlen - u.rpos <= IF u.rcv_nxt = 0 THEN 0 ELSE u.rcv_nxt - 1
  /\ u.rcv_nxt = 0 => u.rlist = {}
  /\ u.shutdown = "NONE" =>
       /\ Len(g) + u.rlen - u.rpos = IF u.rcv_nxt = 0 THEN 0 ELSE u.rcv_nxt - 1
       /\ \A i \in u.rpos + 1 .. u.rlen : u.rbuf[i] = u.rcv_nxt - u.rlen + i - 1
       /\ \A s \in u.rlist :
            /\ s[1] > u.rcv_nxt
            /\ u.rlen - u.rcv_nxt + s[1] + s[2] <= RcvBufSize
            /\ \A x \in s[1] .. s[1] + s[2] - 1 : u.rbuf[At(u, x)] = x

(* The handshake.                                                           *)
Opened(e, t, u, w) ==
  /\ t.state # IF e = 1 THEN "SYN_RECEIVED" ELSE "SYN_SENT"
  /\ e = 2 /\ t.snd_nxt > 0 => t.rcv_nxt > 0
  /\ t.state \in {"SYN_RECEIVED", "ESTABLISHED"} => t.rcv_nxt > 0
  /\ t.state = "ESTABLISHED" \/ w > 0 => u.rcv_nxt > 0

(* What the owner was told.                                                 *)
Informed(t, c) ==
  /\ c # {} => t.shutdown = "NONE"
  /\ t.shutdown = "NONE" /\ "read" \notin c => t.rlen = t.rpos /\ t.bReadEnable
  /\ t.state = "ESTABLISHED" /\ t.shutdown = "NONE" /\ "write" \notin c =>
       t.bWriteEnable /\ Len(t.sbuf) >= kIdealRefillSize
  /\ t.state = "ESTABLISHED" /\ t.snd_una = t.snd_nxt /\ t.snd_wnd # 0 => t.sbuf = <<>>

(* The types of the variables.  Between two steps a packet is on the        *)
(* network and the owner has been told.                                     *)
TypeOK ==
  /\ tcb = [e \in End |-> tcb[e]] /\ \A e \in End : Typed(tcb[e])
  /\ \A e \in End : tcb[e].out = <<>> /\ tcb[e].told = {}
  /\ net \in [End -> Seq(Pkt)]
  /\ mtu \in [End -> Nat \ {0}]
  /\ todo \in [End -> Nat] /\ wrote \in [End -> Nat]
  /\ got \in [End -> Seq(Nat)]
  /\ can \in [End -> SUBSET {"read", "write", "close"}]

(* For each end: its queue, what its peer has of it, the packets both ways, *)
(* its buffer, the handshake and its owner.                                 *)
Packets(s) == {s[i] : i \in 1..Len(s)}
IInv ==
  /\ TypeOK
  /\ \A e \in End : LET t == tcb[e]
                        u == tcb[Peer(e)] IN
       /\ Queued(t, wrote[e])
       /\ Flow(t, u)
       /\ \A p \in Packets(net[e]) : Acks(t, u, p)
       /\ \A p \in Packets(net[Peer(e)]) : Carries(t, p)
       /\ Buffered(t, got[e])
       /\ Opened(e, t, u, wrote[e])
       /\ Informed(t, can[e])
=============================================================================
