------------------------------- MODULE Thread -------------------------------
(***************************************************************************)
(* Threads, their message queues and the wake-up of their socket servers   *)
(* (talk/base/thread.cc, messagequeue.cc, physicalsocketserver.cc).        *)
(*                                                                         *)
(* stack[t] are the calls thread t is in, innermost last.  At the bottom   *)
(* is ProcessMessages; above it a handler ("run"), what the handler calls  *)
(* (Post, Send, a destructor) and the handlers that run while Send waits.  *)
(* A step is what a thread does between two points where it may be         *)
(* preempted or has to wait: a block under crit_ is one step, unless it    *)
(* takes the manager's lock inside.                                        *)
(*                                                                         *)
(* Thread 1 starts in the main program and owns the other threads, which   *)
(* start in ProcessMessages.  What a handler does is any sequence of       *)
(* calls, at most MaxCalls in all.  Callers keep the contracts of the      *)
(* classes: a handler is destroyed on its own thread, outside its          *)
(* OnMessage, and neither a handler nor a thread while a call for it is    *)
(* on its way into the queue.                                              *)
(*                                                                         *)
(* Left out: Peek, MQID_DISPOSE, ids of messages, Clear called by itself,  *)
(* priorities, and delayed messages in the order of their times (any       *)
(* subset of them may be due).                                             *)
(***************************************************************************)
EXTENDS Integers, Sequences, FiniteSets, SequencesExt, MessageQueue

CONSTANTS
  Threads,   \* 1..n
  Handlers,  \* the message handlers
  Owner,     \* Owner[h]: the thread that handles the messages of h
  MaxCalls   \* calls of Post, PostDelayed, Send, destructors; socket events

ASSUME ThreadAssumption ==
  /\ Threads \subseteq Nat \ {0} /\ 1 \in Threads
  /\ Owner \in [Handlers -> Threads]
  /\ MaxCalls \in Nat

VARIABLES
  stack,     \* stack[t]: the calls thread t is in
  msgq,      \* msgq[t]: posted messages
  dmsgq,     \* dmsgq[t]: delayed messages
  sendlist,  \* sendlist[t]: sent messages, each with its sender
  has_sends, \* the threads with has_sends_
  signaled,  \* the threads whose wake-up event is set (fSignaled_)
  fWait,     \* the threads whose Wait goes on (fWait_)
  fStop,     \* the threads that were told to quit
  active,    \* the queues with active_
  queues,    \* message_queues_ of the MessageQueueManager
  qlock,     \* qlock[t]: who holds crit_ of queue t between steps
  mlock,     \* who holds crit_ of the manager between steps
  ready,     \* the sends whose ready flag is set
  alive,     \* the handlers that exist
  calls      \* calls so far

vars == <<stack, msgq, dmsgq, sendlist, has_sends, signaled, fWait, fStop, active,
          queues, qlock, mlock, ready, alive, calls>>
locks == <<qlock, mlock>>
event == <<signaled, fWait>>
queue == <<msgq, dmsgq, sendlist, has_sends>>
registry == <<active, queues>>

Nobody == 0
Free(t) == qlock[t] = Nobody

(* Frames of the stacks.                                                    *)
Loop(pc, timer) == [pc |-> pc, timer |-> timer]
Running(h) == [pc |-> "run", h |-> h]
Receiving(m) == [pc |-> "recv", msg |-> m]
Queueing(pc, kind, m, u) == [pc |-> pc, kind |-> kind, msg |-> m, to |-> u]
Sending(pc, id, u, waited) == [pc |-> pc, id |-> id, to |-> u, waited |-> waited]
Destroying(h, left) == [pc |-> "destroy", h |-> h, left |-> left]
Joining(pc, u) == [pc |-> pc, to |-> u]

Main == "main"     \* the main program and socket callbacks, as a handler
NoMessage == [id |-> 0, h |-> Main, thread |-> Nobody]

Frames(t) == ToSet(stack[t])
Top(t) == Last(stack[t])
At(t, pc) == Top(t).pc = pc
Goto(t, f) == stack' = [stack EXCEPT ![t] = Append(Front(@), f)]
Call(t, f, g) == stack' = [stack EXCEPT ![t] = Front(@) \o <<f, g>>]
Push(t, g) == stack' = [stack EXCEPT ![t] = Append(@, g)]
Return(t) == stack' = [stack EXCEPT ![t] = Front(@)]

Init ==
  /\ stack = [t \in Threads |-> IF t = 1 THEN <<Loop("get", FALSE), Running(Main)>>
                                          ELSE <<Loop("get", FALSE)>>]
  /\ msgq = [t \in Threads |-> <<>>]
  /\ dmsgq = [t \in Threads |-> {}]
  /\ sendlist = [t \in Threads |-> <<>>]
  /\ has_sends = {} /\ signaled = {} /\ fWait = {} /\ fStop = {}
  /\ active = {} /\ queues = {}
  /\ qlock = [t \in Threads |-> Nobody]
  /\ mlock = Nobody
  /\ ready = {}
  /\ alive = Handlers
  /\ calls = 0

-----------------------------------------------------------------------------
(* ProcessMessages and Get: first the sent messages,                        *)
GetSends(t) ==
  /\ At(t, "get")
  /\ IF t \in has_sends THEN Call(t, Loop("check", FALSE), Receiving(NoMessage))
                         ELSE Goto(t, Loop("check", FALSE))
  /\ UNCHANGED <<queue, event, fStop, registry, locks, ready, alive, calls>>

(* then, under crit_, the delayed messages that are due join the posted     *)
(* ones and the first of these is dispatched.                               *)
GetMessage(t, due) ==
  /\ At(t, "check") /\ Free(t)
  /\ due \subseteq dmsgq[t]
  /\ LET q == msgq[t] \o SetToSeq(due) IN
       /\ dmsgq' = [dmsgq EXCEPT ![t] = @ \ due]
       /\ msgq' = [msgq EXCEPT ![t] = IF q = <<>> THEN q ELSE Tail(q)]
       /\ IF q = <<>> THEN Goto(t, Loop("empty", dmsgq[t] # {}))
                      ELSE Call(t, Loop("get", FALSE), Running(Head(q).h))
  /\ UNCHANGED <<sendlist, has_sends, event, fStop, registry, locks, ready, alive, calls>>

(* Without one the loop ends, whatever was posted since, or waits, no       *)
(* longer than for the next delayed message it has seen.                    *)
GetEmpty(t) ==
  /\ At(t, "empty")
  /\ IF t \in fStop THEN Goto(t, Loop("done", FALSE)) /\ UNCHANGED fWait
                     ELSE Goto(t, Loop("wait", Top(t).timer)) /\ fWait' = fWait \cup {t}
  /\ UNCHANGED <<queue, signaled, fStop, registry, locks, ready, alive, calls>>

(* PhysicalSocketServer::Wait ends when the event is set, which it resets,  *)
(* when a nested Wait has cleared fWait_, or when the time is over.         *)
Wait(t) ==
  /\ At(t, "wait")
  /\ \/ /\ t \in signaled
        /\ signaled' = signaled \ {t} /\ fWait' = fWait \ {t}
     \/ /\ t \notin fWait \/ Top(t).timer
        /\ UNCHANGED event
  /\ Goto(t, Loop("get", FALSE))
  /\ UNCHANGED <<queue, fStop, registry, locks, ready, alive, calls>>

(* Wait calls the handler of a socket, after it has reset the event if both *)
(* were set.                                                                *)
SocketEvent(t) ==
  /\ At(t, "wait") /\ t \in fWait
  /\ calls < MaxCalls /\ calls' = calls + 1
  /\ \/ UNCHANGED event
     \/ t \in signaled /\ signaled' = signaled \ {t} /\ fWait' = fWait \ {t}
  /\ Push(t, Running(Main))
  /\ UNCHANGED <<queue, fStop, registry, locks, ready, alive>>

(* ReceiveSends: the message that was handled is reported to its sender,    *)
(* and the next one is handled.                                             *)
ReceiveSends(t) ==
  /\ At(t, "recv") /\ Free(t)
  /\ LET m == Top(t).msg IN
       /\ ready' = ready \cup ({m.id} \ {0})
       /\ signaled' = signaled \cup ({m.thread} \ {Nobody})
  /\ IF sendlist[t] = <<>>
       THEN /\ has_sends' = has_sends \ {t}
            /\ Return(t)
            /\ UNCHANGED sendlist
       ELSE /\ sendlist' = [sendlist EXCEPT ![t] = Tail(@)]
            /\ Call(t, Receiving(Head(sendlist[t])), Running(Head(sendlist[t]).h))
            /\ UNCHANGED has_sends
  /\ UNCHANGED <<msgq, dmsgq, fWait, fStop, registry, locks, alive, calls>>

-----------------------------------------------------------------------------
(* What a handler may do.                                                   *)
Calls(t) == At(t, "run") /\ calls < MaxCalls /\ calls' = calls + 1

HandlerReturns(t) ==
  /\ At(t, "run")
  /\ Return(t)
  /\ UNCHANGED <<queue, event, fStop, registry, locks, ready, alive, calls>>

(* The block of Post, DoDelayPost and Send under crit_.  Post and           *)
(* DoDelayPost wake the thread up inside it, Send after it.                 *)
Enqueue(u, kind, m) ==
  /\ msgq' = IF kind = "post" THEN [msgq EXCEPT ![u] = Append(@, m)] ELSE msgq
  /\ dmsgq' = IF kind = "delay" THEN [dmsgq EXCEPT ![u] = @ \cup {m}] ELSE dmsgq
  /\ sendlist' = IF kind = "send" THEN [sendlist EXCEPT ![u] = Append(@, m)] ELSE sendlist
  /\ has_sends' = IF kind = "send" THEN has_sends \cup {u} ELSE has_sends
  /\ signaled' = IF kind = "send" THEN signaled ELSE signaled \cup {u}

Enqueued(t, f) ==
  IF f.kind = "send" THEN Goto(t, Sending("wake", f.msg.id, f.to, FALSE)) ELSE Return(t)

(* Post, PostDelayed and Send do nothing when the thread was told to quit;  *)
(* Send to the own thread is a call of the handler.  The id only tells the  *)
(* messages apart.                                                          *)
Submit(t, h, kind) ==
  /\ Calls(t)
  /\ h \in alive
  /\ LET u == Owner[h]
         m == [id |-> calls + 1, h |-> h, thread |-> t]
     IN  IF u \in fStop THEN UNCHANGED stack
         ELSE IF kind = "send" /\ u = t THEN Push(t, Running(h))
         ELSE Push(t, Queueing("queue", kind, m, u))
  /\ UNCHANGED <<queue, event, fStop, registry, locks, ready, alive>>

(* Mutant: EnsureActive adds the queue each time.                           *)
NeedsActivationAlways(u) == u \in Threads

NeedsActivation(u) == u \notin active

(* EnsureActive takes the manager's lock while crit_ is held.               *)
Lock(t) ==
  /\ At(t, "queue")
  /\ LET f == Top(t) IN
       /\ Free(f.to)
       /\ active' = active \cup {f.to}
       /\ IF NeedsActivation(f.to)
            THEN /\ qlock' = [qlock EXCEPT ![f.to] = t]
                 /\ Goto(t, Queueing("activate", f.kind, f.msg, f.to))
                 /\ UNCHANGED <<queue, signaled>>
            ELSE Enqueue(f.to, f.kind, f.msg) /\ Enqueued(t, f) /\ UNCHANGED qlock
  /\ UNCHANGED <<fWait, fStop, queues, mlock, ready, alive, calls>>

Activate(t) ==
  /\ At(t, "activate") /\ mlock = Nobody
  /\ LET f == Top(t) IN
       /\ queues' = queues \cup {f.to}
       /\ qlock' = [qlock EXCEPT ![f.to] = Nobody]
       /\ Enqueue(f.to, f.kind, f.msg)
       /\ Enqueued(t, f)
  /\ UNCHANGED <<fWait, fStop, active, mlock, ready, alive, calls>>

(* Mutant: Send wakes its own thread up.                                    *)
SendWakeUpSelf(t) ==
  /\ At(t, "wake")
  /\ signaled' = signaled \cup {t}
  /\ Goto(t, [Top(t) EXCEPT !.pc = "loop"])
  /\ UNCHANGED <<queue, fWait, fStop, registry, locks, ready, alive, calls>>

(* Send wakes the thread up, then receives what is sent to its own thread   *)
(* and waits, until the answer is there.                                    *)
SendWakeUp(t) ==
  /\ At(t, "wake")
  /\ signaled' = signaled \cup {Top(t).to}
  /\ Goto(t, [Top(t) EXCEPT !.pc = "loop"])
  /\ UNCHANGED <<queue, fWait, fStop, registry, locks, ready, alive, calls>>

(* Mutant: Send waits once, if for while.                                   *)
SendLoopOnce(t) ==
  /\ At(t, "loop")
  /\ LET wait == [Top(t) EXCEPT !.pc = "swait", !.waited = TRUE] IN
       IF Top(t).id \in ready \/ Top(t).waited
         THEN /\ signaled' = IF Top(t).waited THEN signaled \cup {t} ELSE signaled
              /\ ready' = ready \ {Top(t).id}
              /\ Return(t)
         ELSE /\ IF t \in has_sends THEN Call(t, wait, Receiving(NoMessage)) ELSE Goto(t, wait)
              /\ UNCHANGED <<signaled, ready>>
  /\ UNCHANGED <<queue, fWait, fStop, registry, locks, alive, calls>>

SendLoop(t) ==
  /\ At(t, "loop")
  /\ LET wait == [Top(t) EXCEPT !.pc = "swait", !.waited = TRUE] IN
       IF Top(t).id \in ready
         THEN /\ signaled' = IF Top(t).waited THEN signaled \cup {t} ELSE signaled
              /\ ready' = ready \ {Top(t).id}
              /\ Return(t)
         ELSE /\ IF t \in has_sends THEN Call(t, wait, Receiving(NoMessage)) ELSE Goto(t, wait)
              /\ UNCHANGED <<signaled, ready>>
  /\ UNCHANGED <<queue, fWait, fStop, registry, locks, alive, calls>>

SendWait(t) ==
  /\ At(t, "swait") /\ t \in signaled
  /\ signaled' = signaled \ {t} /\ fWait' = fWait \ {t}
  /\ Goto(t, [Top(t) EXCEPT !.pc = "loop"])
  /\ UNCHANGED <<queue, fStop, registry, locks, ready, alive, calls>>

-----------------------------------------------------------------------------
(* The messages in q for the handlers hs.                                   *)
For(hs, q) == {m \in ToSet(q) : m.h \in hs}

(* Mutant: Thread::Clear without the delayed messages.                      *)
ClearQueueNotDelayed(u, hs) ==
  LET gone == For(hs, sendlist[u])
  IN  /\ msgq' = [msgq EXCEPT ![u] = Cleared(@, For(hs, @))]
      /\ sendlist' = [sendlist EXCEPT ![u] = Cleared(@, gone)]
      /\ ready' = ready \cup {m.id : m \in gone}
      /\ signaled' = signaled \cup {m.thread : m \in gone}
      /\ UNCHANGED <<dmsgq, has_sends>>

(* Thread::Clear of queue u: the messages for the handlers hs go, and the   *)
(* senders of the sent ones are told that they are done.                    *)
ClearQueue(u, hs) ==
  LET gone == For(hs, sendlist[u])
  IN  /\ msgq' = [msgq EXCEPT ![u] = Cleared(@, For(hs, @))]
      /\ dmsgq' = [dmsgq EXCEPT ![u] = {m \in @ : m.h \notin hs}]
      /\ sendlist' = [sendlist EXCEPT ![u] = Cleared(@, gone)]
      /\ ready' = ready \cup {m.id : m \in gone}
      /\ signaled' = signaled \cup {m.thread : m \in gone}
      /\ UNCHANGED has_sends

(* A call that has not reached the queue yet.                               *)
OnItsWay(f) == f.pc \in {"queue", "activate", "wake"}

(* ~MessageHandler: MessageQueueManager::Clear takes the manager's lock and *)
(* then the lock of one queue after the other.                              *)
Destroy(t, h) ==
  /\ Calls(t)
  /\ h \in alive /\ Owner[h] = t
  /\ Running(h) \notin Frames(t)
  /\ \A u \in Threads : \A f \in Frames(u) : f.pc \in {"queue", "activate"} => f.msg.h # h
  /\ mlock = Nobody /\ mlock' = t
  /\ alive' = alive \ {h}
  /\ Push(t, Destroying(h, queues))
  /\ UNCHANGED <<queue, event, fStop, registry, qlock, ready>>

DestroyClear(t, u) ==
  /\ At(t, "destroy")
  /\ u \in Top(t).left /\ Free(u)
  /\ ClearQueue(u, {Top(t).h})
  /\ Goto(t, [Top(t) EXCEPT !.left = @ \ {u}])
  /\ UNCHANGED <<fWait, fStop, registry, locks, alive, calls>>

Destroyed(t) ==
  /\ At(t, "destroy") /\ Top(t).left = {}
  /\ mlock' = Nobody
  /\ Return(t)
  /\ UNCHANGED <<queue, event, fStop, registry, qlock, ready, alive, calls>>

(* ~Thread: Quit, Join, Clear of all messages; ~MessageQueue leaves the     *)
(* manager.                                                                 *)
Stop(t, u) ==
  /\ Calls(t)
  /\ t = 1 /\ u # t /\ u \notin fStop
  /\ \A v \in Threads : \A f \in Frames(v) : OnItsWay(f) => f.to # u
  /\ fStop' = fStop \cup {u}
  /\ signaled' = signaled \cup {u}
  /\ Push(t, Joining("join", u))
  /\ UNCHANGED <<queue, fWait, registry, locks, ready, alive>>

Join(t) ==
  /\ At(t, "join") /\ At(Top(t).to, "done") /\ Free(Top(t).to)
  /\ ClearQueue(Top(t).to, Handlers)
  /\ Goto(t, Joining("remove", Top(t).to))
  /\ UNCHANGED <<fWait, fStop, registry, locks, alive, calls>>

RemoveQueue(t) ==
  /\ At(t, "remove") /\ mlock = Nobody
  /\ queues' = queues \ {Top(t).to}
  /\ alive' = {h \in alive : Owner[h] # Top(t).to}
  /\ Return(t)
  /\ UNCHANGED <<queue, event, fStop, active, locks, ready, calls>>

-----------------------------------------------------------------------------
Step(t) ==
  \/ GetSends(t) \/ GetEmpty(t) \/ Wait(t) \/ SocketEvent(t) \/ ReceiveSends(t) \/ HandlerReturns(t)
  \/ \E due \in SUBSET dmsgq[t] : GetMessage(t, due)
  \/ \E h \in Handlers, kind \in {"post", "delay", "send"} : Submit(t, h, kind)
  \/ Lock(t) \/ Activate(t) \/ SendWakeUp(t) \/ SendLoop(t) \/ SendWait(t)
  \/ \E h \in Handlers : Destroy(t, h)
  \/ \E u \in Threads : DestroyClear(t, u)
  \/ Destroyed(t)
  \/ \E u \in Threads : Stop(t, u)
  \/ Join(t) \/ RemoveQueue(t)

Next == \E t \in Threads : Step(t)
Spec == Init /\ [][Next]_vars

-----------------------------------------------------------------------------
(* The inductive invariant.                                                 *)

Message == [id : Nat \ {0}, h : Handlers, thread : Threads]
LoopPc == {"get", "check", "empty", "wait", "done"}
SendPc == {"wake", "loop", "swait"}
QueuePc == {"queue", "activate"}
Frame ==
  [pc : LoopPc, timer : BOOLEAN]
    \cup [pc : {"run"}, h : Handlers \cup {Main}]
    \cup [pc : {"recv"}, msg : Message \cup {NoMessage}]
    \cup [pc : QueuePc, kind : {"post", "delay", "send"}, msg : Message, to : Threads]
    \cup [pc : SendPc, id : Nat \ {0}, to : Threads, waited : BOOLEAN]
    \cup [pc : {"destroy"}, h : Handlers, left : SUBSET Threads]
    \cup [pc : {"join", "remove"}, to : Threads]

TypeOK ==
  /\ stack \in [Threads -> Seq(Frame)]
  /\ msgq \in [Threads -> Seq(Message)]
  /\ dmsgq \in [Threads -> SUBSET Message] /\ \A t \in Threads : IsFiniteSet(dmsgq[t])
  /\ sendlist \in [Threads -> Seq(Message)]
  /\ {has_sends, signaled, fWait, fStop, active, queues} \subseteq SUBSET Threads
  /\ qlock \in [Threads -> Threads \cup {Nobody}] /\ mlock \in Threads \cup {Nobody}
  /\ ready \subseteq Nat \ {0} /\ alive \subseteq Handlers /\ calls \in Nat

(* Which call may be made from which: the loop is at the bottom, a handler  *)
(* makes the calls, and sends are received by the loop or by a Send that    *)
(* waits.                                                                   *)
Calling(f, g) ==
  /\ g.pc \notin LoopPc
  /\ g.pc = "recv" => f.pc \in {"check", "swait"}
  /\ g.pc = "run" => f.pc \in {"get", "wait", "recv", "run"}
  /\ g.pc \notin {"recv", "run"} => f.pc = "run"
StackInv ==
  \A t \in Threads :
    /\ stack[t] # <<>> /\ stack[t][1].pc \in LoopPc
    /\ \A i \in 1..(Len(stack[t]) - 1) : Calling(stack[t][i], stack[t][i + 1])

(* Who holds which lock, and that a queue is in the manager's list when it  *)
(* is active, unless that is about to happen or the thread has ended.       *)
LockInv ==
  /\ \A t, u \in Threads : qlock[u] = t => At(t, "activate") /\ Top(t).to = u /\ u \notin queues
  /\ \A t \in Threads : At(t, "activate") => qlock[Top(t).to] = t /\ Top(t).to \in active
  /\ \A t \in Threads : mlock = t <=> At(t, "destroy")
  /\ \A t \in Threads : At(t, "destroy") => Top(t).left \subseteq queues
  /\ queues \subseteq active
  /\ \A u \in active \ queues : u \in fStop \/ ~Free(u)

(* The messages that are queued or on their way are for handlers of the     *)
(* thread, that exist or whose destructor has yet to clear the queue.       *)
Pending(t) == ToSet(msgq[t]) \cup dmsgq[t] \cup ToSet(sendlist[t])
HandlerInv ==
  /\ \A t \in Threads : Top(t).pc \in QueuePc =>
       /\ Top(t).msg.h \in alive /\ Owner[Top(t).msg.h] = Top(t).to
       /\ Top(t).to \notin fStop /\ Top(t).msg.thread = t
  /\ \A t \in Threads : \A m \in Pending(t) :
       /\ t \in queues /\ Owner[m.h] = t
       /\ m.h \in alive \/ \E v \in Threads : At(v, "destroy") /\ Top(v).h = m.h /\ t \in Top(v).left

(* Only the first thread stops others, and nothing is left in the queues of *)
(* one that was stopped and joined.                                         *)
StopInv ==
  /\ \A t \in Threads : Top(t).pc \in {"join", "remove"} => t = 1 /\ Top(t).to \in fStop \ {1}
  /\ \A u \in fStop : (At(1, "join") /\ Top(1).to = u) \/ Pending(u) = {}
  /\ \A t \in Threads : At(t, "done") => t \in fStop
  /\ 1 \notin fStop

(* A sent message is in one place: with the call that queues it, in a list, *)
(* with its receiver or, by its id, in ready.  Carried(f) is the message    *)
(* that f has, Sent(f) the one that f sends.                                *)
Carried(f) == IF f.pc \in QueuePc \cup {"recv"} THEN f.msg.id ELSE 0
Sent(f) == IF f.pc \in QueuePc THEN f.msg.id ELSE IF f.pc \in SendPc THEN f.id ELSE 0
Listed(t, x) == \E m \in ToSet(sendlist[t]) : m.id = x
Depths(t) == 1..Len(stack[t])
KnownInv ==
  /\ \A t \in Threads : \A i \in Depths(t) :
       Carried(stack[t][i]) <= calls /\ Sent(stack[t][i]) <= calls
  /\ \A t \in Threads : \A m \in ToSet(sendlist[t]) : m.id <= calls
  /\ \A x \in ready : x <= calls
FrameInv ==
  \A t, u \in Threads : \A i \in Depths(t), j \in Depths(u) :
    /\ Carried(stack[t][i]) = Carried(stack[u][j]) /\ Carried(stack[t][i]) # 0 => t = u /\ i = j
    /\ Sent(stack[t][i]) = Sent(stack[u][j]) /\ Sent(stack[t][i]) # 0 => t = u /\ i = j
CarriedInv ==
  \A t \in Threads : \A i \in Depths(t) : Carried(stack[t][i]) # 0 =>
    /\ Carried(stack[t][i]) \notin ready
    /\ \A u \in Threads : ~Listed(u, Carried(stack[t][i]))
ListInv ==
  /\ \A t, u \in Threads : \A m \in ToSet(sendlist[t]), n \in ToSet(sendlist[u]) :
       m.id = n.id => t = u /\ m = n
  /\ \A t \in Threads : \A i, j \in 1..Len(sendlist[t]) : sendlist[t][i] = sendlist[t][j] => i = j
  /\ \A t \in Threads : \A m \in ToSet(sendlist[t]) : m.id \notin ready
IdInv == KnownInv /\ FrameInv /\ CarriedInv /\ ListInv

(* A Send goes on until its message was handled or dropped, and what a      *)
(* handler sends is younger than the message it handles.                    *)
Sends(t, i, x) == stack[t][i].pc \in SendPc /\ stack[t][i].id = x
Handles(t, i, x) == stack[t][i].pc = "recv" /\ stack[t][i].msg.id = x
Sender(m) == \E i \in Depths(m.thread) : Sends(m.thread, i, m.id)
Receiver(t, x) == \E i \in Depths(t) : Handles(t, i, x)
SenderInv ==
  /\ \A t \in Threads : \A m \in ToSet(sendlist[t]) : Sender(m)
  /\ \A t \in Threads : \A i \in Depths(t) :
       stack[t][i].pc = "recv" /\ stack[t][i].msg # NoMessage => Sender(stack[t][i].msg)
ReceiverInv ==
  \A t \in Threads : \A i \in Depths(t) : stack[t][i].pc \in SendPc =>
    LET f == stack[t][i] IN f.id \in ready \/ Listed(f.to, f.id) \/ Receiver(f.to, f.id)
YoungerInv ==
  \A t \in Threads : \A i, j \in Depths(t) :
    i < j /\ Carried(stack[t][i]) # 0 /\ Sent(stack[t][j]) # 0
    => Carried(stack[t][i]) < Sent(stack[t][j])
SendInv == SenderInv /\ ReceiverInv /\ YoungerInv

(* A wake-up is not lost: for an answer, which a Send above may have taken  *)
(* and then passes on,                                                      *)
Waiting(f) == f.pc \in SendPc /\ f.waited
AnswerInv ==
  \A t \in Threads : \A i \in Depths(t) : stack[t][i].pc = "swait" =>
    /\ Waiting(stack[t][i])
    /\ stack[t][i].id \in ready /\ t \notin signaled =>
         \E j \in Depths(t) : i < j /\ Waiting(stack[t][j])

(* and for a message.                                                       *)
Woken(t) == t \in signaled \/ \E v \in Threads : At(v, "wake") /\ Top(v).to = t
WakeInv ==
  \A t \in Threads :
    /\ sendlist[t] # <<>> => t \in has_sends
    /\ Top(t).pc \in {"check", "empty", "swait"} /\ sendlist[t] # <<>> => Woken(t)
    /\ Top(t).pc = "empty" =>
         /\ msgq[t] # <<>> => t \in signaled
         /\ dmsgq[t] # {} => t \in signaled \/ Top(t).timer
    /\ stack[t][1].pc = "wait" /\ t \in fWait =>
         /\ sendlist[t] # <<>> => Woken(t)
         /\ msgq[t] # <<>> \/ t \in fStop => t \in signaled
         /\ dmsgq[t] # {} => t \in signaled \/ stack[t][1].timer

-----------------------------------------------------------------------------
(* Properties.                                                              *)

Idle(t) == At(t, "wait") /\ t \notin signaled /\ t \in fWait /\ ~Top(t).timer
Blocked(t) ==
  \/ Idle(t)
  \/ At(t, "done")
  \/ At(t, "swait") /\ t \notin signaled
  \/ At(t, "join") /\ ~(At(Top(t).to, "done") /\ Free(Top(t).to))
  \/ Top(t).pc \in {"check", "recv"} /\ ~Free(t)
  \/ At(t, "queue") /\ ~Free(Top(t).to)
  \/ Top(t).pc \in {"activate", "remove"} /\ mlock # Nobody
  \/ At(t, "destroy") /\ Top(t).left # {} /\ \A u \in Top(t).left : ~Free(u)

(* Nobody waits for ever: when no thread can move (the wake-up events, the  *)
(* locks of the queues and of the manager, the answers of Send), every      *)
(* thread that is left sits idle in Get with nothing to do.  The exception  *)
(* is a Send to a thread that waits in Join, which does not receive sends.  *)
NoDeadlock ==
  (\A t \in Threads : Blocked(t)) =>
    \/ \A t \in Threads :
         /\ Idle(t) \/ At(t, "done")
         /\ msgq[t] = <<>> /\ dmsgq[t] = {} /\ sendlist[t] = <<>>
    \/ \E t, u \in Threads : At(t, "swait") /\ At(u, "join") /\ Top(t).to = u

(* An idle thread has nothing in its queues: the wake-up for a message is   *)
(* never lost, not even when a Send on that thread has consumed it.         *)
NoLostWakeUp ==
  \A t \in Threads : Idle(t) =>
    /\ msgq[t] = <<>>
    /\ sendlist[t] = <<>> \/ \E u \in Threads : \E f \in Frames(u) : f.pc = "wake" /\ f.to = t

(* No message is left for, and no OnMessage is begun on, a handler whose    *)
(* destructor has cleared the queues.                                       *)
NoStaleDispatch ==
  \A t \in Threads, h \in Handlers \ alive :
    (\A u \in Threads : \A f \in Frames(u) : f.pc = "destroy" => f.h # h)
    => \A m \in ToSet(msgq[t]) \cup dmsgq[t] \cup ToSet(sendlist[t]) : m.h # h

(* The flag that a receiver will set (ready, on the sender's stack) still   *)
(* exists: whoever sent a message that is queued or being handled is still  *)
(* inside that Send.                                                        *)
NoDanglingReady ==
  \A t \in Threads :
    \A m \in ToSet(sendlist[t]) \cup {f.msg : f \in {g \in Frames(t) : g.pc = "recv"}} :
      m.id # 0 => \E f \in Frames(m.thread) :
                    f.pc \in {"wake", "loop", "swait"} /\ f.id = m.id
=============================================================================
