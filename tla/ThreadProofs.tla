---------------------------- MODULE ThreadProofs ----------------------------
(***************************************************************************)
(* Proofs about Thread.tla, for any threads and handlers, any number of     *)
(* calls and any depth of nested handlers.                                  *)
(***************************************************************************)
EXTENDS Thread, MessageQueueProofs, WellFoundedInduction

-----------------------------------------------------------------------------
(* Frames and stacks.                                                       *)

(* What is known of a frame from where it is.                               *)
LEMMA FrameFields ==
  ASSUME NEW f \in Frame
  PROVE  /\ f.pc \in LoopPc \cup SendPc \cup QueuePc \cup {"run", "recv", "destroy", "join", "remove"}
         /\ f.pc \in LoopPc => f \in [pc : LoopPc, timer : BOOLEAN]
         /\ f.pc = "run" => f \in [pc : {"run"}, h : Handlers \cup {Main}]
         /\ f.pc = "recv" => f \in [pc : {"recv"}, msg : Message \cup {NoMessage}]
         /\ f.pc \in QueuePc =>
              f \in [pc : QueuePc, kind : {"post", "delay", "send"}, msg : Message, to : Threads]
         /\ f.pc \in SendPc => f \in [pc : SendPc, id : Nat \ {0}, to : Threads, waited : BOOLEAN]
         /\ f.pc = "destroy" => f \in [pc : {"destroy"}, h : Handlers, left : SUBSET Threads]
         /\ f.pc \in {"join", "remove"} => f \in [pc : {"join", "remove"}, to : Threads]
  BY DEF Frame, LoopPc, SendPc, QueuePc

(* The frames that the calls make.                                          *)
LEMMA FrameTypes ==
  /\ \A pc \in LoopPc, b \in BOOLEAN : Loop(pc, b) \in Frame
  /\ \A h \in Handlers \cup {Main} : Running(h) \in Frame
  /\ \A m \in Message \cup {NoMessage} : Receiving(m) \in Frame
  /\ \A pc \in QueuePc, kind \in {"post", "delay", "send"}, m \in Message, u \in Threads :
       Queueing(pc, kind, m, u) \in Frame
  /\ \A pc \in SendPc, id \in Nat \ {0}, u \in Threads, b \in BOOLEAN :
       Sending(pc, id, u, b) \in Frame
  /\ \A h \in Handlers, left \in SUBSET Threads : Destroying(h, left) \in Frame
  /\ \A pc \in {"join", "remove"}, u \in Threads : Joining(pc, u) \in Frame
<1>1. \A pc \in LoopPc, b \in BOOLEAN : Loop(pc, b) \in Frame
  BY DEF Loop, Frame
<1>2. \A h \in Handlers \cup {Main} : Running(h) \in Frame
  BY DEF Running, Frame
<1>3. \A m \in Message \cup {NoMessage} : Receiving(m) \in Frame
  BY DEF Receiving, Frame
<1>4. \A pc \in QueuePc, kind \in {"post", "delay", "send"}, m \in Message, u \in Threads :
        Queueing(pc, kind, m, u) \in Frame
  BY DEF Queueing, Frame
<1>5. \A pc \in SendPc, id \in Nat \ {0}, u \in Threads, b \in BOOLEAN :
        Sending(pc, id, u, b) \in Frame
  BY DEF Sending, Frame
<1>6. \A h \in Handlers, left \in SUBSET Threads : Destroying(h, left) \in Frame
  BY DEF Destroying, Frame
<1>7. \A pc \in {"join", "remove"}, u \in Threads : Joining(pc, u) \in Frame
  BY DEF Joining, Frame
<1>. QED
  BY <1>1, <1>2, <1>3, <1>4, <1>5, <1>6, <1>7

(* What a step of t does to the stacks: it replaces the innermost call by   *)
(* f, replaces it by f and calls g, or returns.                             *)
Others(t) ==
  /\ stack' \in [Threads -> Seq(Frame)]
  /\ \A u \in Threads \ {t} : stack'[u] = stack[u] /\ Top(u)' = Top(u)
  /\ \A i \in 1..(Len(stack[t]) - 1) : i \in 1..Len(stack'[t]) /\ stack'[t][i] = stack[t][i]
Replaces(t, f) ==
  /\ Others(t) /\ Len(stack'[t]) = Len(stack[t])
  /\ stack'[t][Len(stack[t])] = f /\ Top(t)' = f
Adds(t, f, g) ==
  /\ Others(t) /\ Len(stack'[t]) = Len(stack[t]) + 1
  /\ stack'[t][Len(stack[t])] = f
  /\ stack'[t][Len(stack[t]) + 1] = g /\ Top(t)' = g
Drops(t) ==
  /\ Others(t) /\ Len(stack'[t]) = Len(stack[t]) - 1 /\ Len(stack[t]) > 1
  /\ Top(t)' = stack[t][Len(stack[t]) - 1]

(* The stacks in terms of their positions.                                  *)
LEMMA StackFacts ==
  ASSUME stack \in [Threads -> Seq(Frame)], StackInv, NEW t \in Threads
  PROVE  /\ Len(stack[t]) \in Nat \ {0} /\ Len(stack[t]) \in 1..Len(stack[t])
         /\ Top(t) = stack[t][Len(stack[t])] /\ Top(t) \in Frame
         /\ \A i \in 1..Len(stack[t]) : stack[t][i] \in Frame
         /\ \A f : f \in Frames(t) <=> \E i \in 1..Len(stack[t]) : stack[t][i] = f
         /\ stack[t] # <<>>
<1>1. stack[t] \in Seq(Frame) /\ stack[t] # <<>>
  BY DEF StackInv
<1>2. Len(stack[t]) \in Nat \ {0} /\ DOMAIN stack[t] = 1..Len(stack[t])
      /\ \A i \in 1..Len(stack[t]) : stack[t][i] \in Frame
  BY <1>1
<1>. QED
  BY <1>1, <1>2 DEF Top, Last, Frames, ToSet

(* The calls outside the innermost one.                                     *)
LEMMA FrontSeq ==
  ASSUME NEW S, NEW s \in Seq(S), Len(s) # 0
  PROVE  /\ Front(s) \in Seq(S) /\ Len(Front(s)) = Len(s) - 1
         /\ \A i \in 1..(Len(s) - 1) : Front(s)[i] = s[i]
<1>. DEFINE n == Len(s) - 1
<1>1. Len(s) \in Nat /\ n \in Nat /\ n <= Len(s)
  OBVIOUS
<1>2. \A i \in 1..n : i \in 1..Len(s) /\ s[i] \in S
  BY <1>1
<1>3. SubSeq(s, 1, n) \in Seq(S)
  BY <1>1, <1>2
<1>4. Len(SubSeq(s, 1, n)) = n
  <2>1. \A k \in Nat : Len(SubSeq(s, 1, k)) = k
    OBVIOUS
  <2>. QED
    BY <1>1, <2>1
<1>5. \A i \in 1..n : SubSeq(s, 1, n)[i] = s[i]
  BY <1>1, <1>2
<1>. QED
  BY <1>3, <1>4, <1>5 DEF Front

(* Goto replaces the innermost call,                                        *)
LEMMA GotoStack ==
  ASSUME stack \in [Threads -> Seq(Frame)], StackInv, NEW t \in Threads, NEW f \in Frame,
         Goto(t, f)
  PROVE  Replaces(t, f)
<1>. DEFINE s == stack[t]
            r == Append(Front(s), f)
<1>1. s \in Seq(Frame) /\ Len(s) \in Nat \ {0}
  BY StackFacts
<1>2. Front(s) \in Seq(Frame) /\ Len(Front(s)) = Len(s) - 1
      /\ \A i \in 1..(Len(s) - 1) : Front(s)[i] = s[i]
  BY <1>1, FrontSeq
<1>3. r \in Seq(Frame) /\ Len(r) = Len(s) /\ r[Len(s)] = f
      /\ \A i \in 1..(Len(s) - 1) : i \in 1..Len(r) /\ r[i] = s[i]
  BY <1>1, <1>2
<1>4. stack' = [stack EXCEPT ![t] = r]
  BY DEF Goto
<1>. HIDE DEF r
<1>5. stack'[t] = r /\ stack' \in [Threads -> Seq(Frame)]
      /\ \A u \in Threads \ {t} : stack'[u] = stack[u]
  BY <1>3, <1>4
<1>. QED
  BY <1>3, <1>5 DEF Replaces, Others, Top, Last

(* Call replaces it and makes another,                                      *)
LEMMA CallStack ==
  ASSUME stack \in [Threads -> Seq(Frame)], StackInv, NEW t \in Threads, NEW f \in Frame,
         NEW g \in Frame, Call(t, f, g)
  PROVE  Adds(t, f, g)
<1>. DEFINE s == stack[t]
            r == Front(s) \o <<f, g>>
<1>1. s \in Seq(Frame) /\ Len(s) \in Nat \ {0}
  BY StackFacts
<1>2. Front(s) \in Seq(Frame) /\ Len(Front(s)) = Len(s) - 1
      /\ \A i \in 1..(Len(s) - 1) : Front(s)[i] = s[i]
  BY <1>1, FrontSeq
<1>3. r \in Seq(Frame) /\ Len(r) = Len(s) + 1 /\ r[Len(s)] = f /\ r[Len(s) + 1] = g
      /\ \A i \in 1..(Len(s) - 1) : i \in 1..Len(r) /\ r[i] = s[i]
  <2>1. <<f, g>> \in Seq(Frame) /\ Len(<<f, g>>) = 2 /\ <<f, g>>[1] = f /\ <<f, g>>[2] = g
    OBVIOUS
  <2>. QED
    BY <1>1, <1>2, <2>1
<1>4. stack' = [stack EXCEPT ![t] = r]
  BY DEF Call
<1>. HIDE DEF r
<1>5. stack'[t] = r /\ stack' \in [Threads -> Seq(Frame)]
      /\ \A u \in Threads \ {t} : stack'[u] = stack[u]
  BY <1>3, <1>4
<1>. QED
  BY <1>3, <1>5 DEF Adds, Others, Top, Last

(* Push makes another,                                                      *)
LEMMA PushStack ==
  ASSUME stack \in [Threads -> Seq(Frame)], StackInv, NEW t \in Threads, NEW g \in Frame,
         Push(t, g)
  PROVE  Adds(t, Top(t), g)
<1>. DEFINE s == stack[t]
            r == Append(s, g)
<1>1. s \in Seq(Frame) /\ Len(s) \in Nat \ {0} /\ Top(t) = s[Len(s)]
  BY StackFacts
<1>2. r \in Seq(Frame) /\ Len(r) = Len(s) + 1 /\ r[Len(s)] = s[Len(s)] /\ r[Len(s) + 1] = g
      /\ \A i \in 1..(Len(s) - 1) : i \in 1..Len(r) /\ r[i] = s[i]
  BY <1>1
<1>3. stack' = [stack EXCEPT ![t] = r]
  BY DEF Push
<1>. HIDE DEF r
<1>4. stack'[t] = r /\ stack' \in [Threads -> Seq(Frame)]
      /\ \A u \in Threads \ {t} : stack'[u] = stack[u]
  BY <1>2, <1>3
<1>. QED
  BY <1>1, <1>2, <1>4 DEF Adds, Others, Top, Last

(* and Return drops it.                                                     *)
LEMMA ReturnStack ==
  ASSUME stack \in [Threads -> Seq(Frame)], StackInv, NEW t \in Threads,
         Top(t).pc \notin LoopPc, Return(t)
  PROVE  /\ Drops(t)
         /\ Calling(stack[t][Len(stack[t]) - 1], Top(t))
<1>. DEFINE s == stack[t]
            r == Front(s)
<1>1. s \in Seq(Frame) /\ Len(s) \in Nat \ {0} /\ Top(t) = s[Len(s)]
  BY StackFacts
<1>2. Len(s) > 1 /\ Calling(s[Len(s) - 1], s[(Len(s) - 1) + 1])
  BY <1>1 DEF StackInv
<1>3. r \in Seq(Frame) /\ Len(r) = Len(s) - 1
      /\ \A i \in 1..(Len(s) - 1) : i \in 1..Len(r) /\ r[i] = s[i]
  BY <1>1, FrontSeq
<1>4. stack' = [stack EXCEPT ![t] = r]
  BY DEF Return
<1>. HIDE DEF r
<1>5. stack'[t] = r /\ stack' \in [Threads -> Seq(Frame)]
      /\ \A u \in Threads \ {t} : stack'[u] = stack[u]
  BY <1>3, <1>4
<1>6. Len(s) - 1 \in 1..(Len(s) - 1) /\ (Len(s) - 1) + 1 = Len(s)
  BY <1>1, <1>2
<1>. QED
  BY <1>1, <1>2, <1>3, <1>5, <1>6 DEF Drops, Others, Top, Last

(* f may stand where g stands.                                              *)
Like(f, g) ==
  /\ f.pc \in LoopPc <=> g.pc \in LoopPc
  /\ f.pc = "recv" <=> g.pc = "recv"
  /\ f.pc = "run" <=> g.pc = "run"

(* The shape of the stacks is kept.                                         *)
LEMMA ReplaceShape ==
  ASSUME stack \in [Threads -> Seq(Frame)], StackInv, NEW t \in Threads, NEW f,
         Replaces(t, f), Like(f, Top(t))
  PROVE  StackInv'
<1>. DEFINE n == Len(stack[t])
<1>1. n \in Nat \ {0} /\ Top(t) = stack[t][n]
  BY StackFacts
<1>2. /\ stack'[t] \in Seq(Frame) /\ Len(stack'[t]) = n /\ stack'[t][n] = f
      /\ \A i \in 1..(n - 1) : stack'[t][i] = stack[t][i]
      /\ \A u \in Threads \ {t} : stack'[u] = stack[u]
  BY DEF Replaces, Others
<1>3. ASSUME NEW i \in 1..(n - 1) PROVE Calling(stack'[t][i], stack'[t][i + 1])
  <2>1. Calling(stack[t][i], stack[t][i + 1])
    BY <1>1 DEF StackInv
  <2>2. CASE i + 1 = n
    BY <1>1, <1>2, <2>1, <2>2 DEF Calling, Like
  <2>3. CASE i + 1 # n
    <3>1. i + 1 \in 1..(n - 1)
      BY <1>1, <2>3
    <3>. QED
      BY <1>2, <2>1, <3>1
  <2>. QED
    BY <2>2, <2>3
<1>4. stack'[t] # <<>> /\ stack'[t][1].pc \in LoopPc
  <2>1. stack[t][1].pc \in LoopPc
    BY DEF StackInv
  <2>. QED
    BY <1>1, <1>2, <2>1 DEF Like
<1>. QED
  BY <1>2, <1>3, <1>4 DEF StackInv

(* The same for a call that is made,                                        *)
LEMMA AddShape ==
  ASSUME stack \in [Threads -> Seq(Frame)], StackInv, NEW t \in Threads, NEW f, NEW g,
         Adds(t, f, g), Like(f, Top(t)), Calling(f, g)
  PROVE  StackInv'
<1>. DEFINE n == Len(stack[t])
<1>1. n \in Nat \ {0} /\ Top(t) = stack[t][n]
  BY StackFacts
<1>2. /\ stack'[t] \in Seq(Frame) /\ Len(stack'[t]) = n + 1 /\ stack'[t][n] = f
      /\ stack'[t][n + 1] = g
      /\ \A i \in 1..(n - 1) : stack'[t][i] = stack[t][i]
      /\ \A u \in Threads \ {t} : stack'[u] = stack[u]
  BY DEF Adds, Others
<1>3. ASSUME NEW i \in 1..n PROVE Calling(stack'[t][i], stack'[t][i + 1])
  <2>1. CASE i = n
    BY <1>1, <1>2, <2>1
  <2>2. CASE i # n
    <3>1. i \in 1..(n - 1)
      BY <1>1, <2>2
    <3>2. Calling(stack[t][i], stack[t][i + 1])
      BY <1>1, <3>1 DEF StackInv
    <3>3. CASE i + 1 = n
      BY <1>1, <1>2, <3>1, <3>2, <3>3 DEF Calling, Like
    <3>4. CASE i + 1 # n
      <4>1. i + 1 \in 1..(n - 1)
        BY <1>1, <3>1, <3>4
      <4>. QED
        BY <1>2, <3>1, <3>2, <4>1
    <3>. QED
      BY <3>3, <3>4
  <2>. QED
    BY <2>1, <2>2
<1>4. stack'[t] # <<>> /\ stack'[t][1].pc \in LoopPc
  <2>1. stack[t][1].pc \in LoopPc
    BY DEF StackInv
  <2>. QED
    BY <1>1, <1>2, <2>1 DEF Like
<1>5. Len(stack'[t]) - 1 = n
  BY <1>1, <1>2
<1>6. \A i \in 1..(Len(stack'[t]) - 1) : Calling(stack'[t][i], stack'[t][i + 1])
  BY <1>3, <1>5
<1>. QED
  BY <1>2, <1>4, <1>6 DEF StackInv

(* and for one that returns.                                                *)
LEMMA DropShape ==
  ASSUME stack \in [Threads -> Seq(Frame)], StackInv, NEW t \in Threads, Drops(t)
  PROVE  StackInv'
<1>. DEFINE n == Len(stack[t])
<1>1. n \in Nat \ {0} /\ n > 1
  BY StackFacts DEF Drops
<1>2. /\ stack'[t] \in Seq(Frame) /\ Len(stack'[t]) = n - 1
      /\ \A i \in 1..(n - 1) : stack'[t][i] = stack[t][i]
      /\ \A u \in Threads \ {t} : stack'[u] = stack[u]
  BY DEF Drops, Others
<1>3. ASSUME NEW i \in 1..(n - 2) PROVE Calling(stack'[t][i], stack'[t][i + 1])
  <2>1. i \in 1..(n - 1) /\ i + 1 \in 1..(n - 1)
    BY <1>1
  <2>2. Calling(stack[t][i], stack[t][i + 1])
    BY <1>1, <2>1 DEF StackInv
  <2>. QED
    BY <1>2, <2>1, <2>2
<1>4. stack'[t] # <<>> /\ stack'[t][1].pc \in LoopPc
  <2>1. stack[t][1].pc \in LoopPc
    BY DEF StackInv
  <2>. QED
    BY <1>1, <1>2, <2>1
<1>5. Len(stack'[t]) - 1 = n - 2
  BY <1>1, <1>2
<1>6. \A i \in 1..(Len(stack'[t]) - 1) : Calling(stack'[t][i], stack'[t][i + 1])
  BY <1>3, <1>5
<1>. QED
  BY <1>2, <1>4, <1>6 DEF StackInv

(* A call that does not call on is the innermost one, and the loop is the   *)
(* outermost one.                                                           *)
LEMMA Innermost ==
  ASSUME stack \in [Threads -> Seq(Frame)], StackInv, NEW t \in Threads
  PROVE  /\ \A i \in 1..Len(stack[t]) :
              stack[t][i].pc \notin {"get", "check", "wait", "recv", "run", "swait"}
              => i = Len(stack[t])
         /\ \A i \in 1..Len(stack[t]) : stack[t][i].pc \in LoopPc => i = 1
         /\ stack[t][1].pc \in LoopPc
         /\ \A i \in 1..(Len(stack[t]) - 1) :
              i + 1 \in 1..Len(stack[t]) /\ Calling(stack[t][i], stack[t][i + 1])
<1>. DEFINE n == Len(stack[t])
<1>1. n \in Nat \ {0} /\ \A i \in 1..n : stack[t][i] \in Frame
  BY StackFacts
<1>2. /\ stack[t][1].pc \in LoopPc
      /\ \A i \in 1..(n - 1) : i + 1 \in 1..n /\ Calling(stack[t][i], stack[t][i + 1])
  BY <1>1 DEF StackInv
<1>3. ASSUME NEW i \in 1..n,
             stack[t][i].pc \notin {"get", "check", "wait", "recv", "run", "swait"}, i # n
      PROVE  FALSE
  <2>1. i \in 1..(n - 1)
    BY <1>1, <1>3
  <2>2. Calling(stack[t][i], stack[t][i + 1])
    BY <1>2, <2>1
  <2>. QED
    BY <1>3, <2>2 DEF Calling
<1>4. ASSUME NEW i \in 1..n, stack[t][i].pc \in LoopPc, i # 1
      PROVE  FALSE
  <2>1. i - 1 \in 1..(n - 1) /\ (i - 1) + 1 = i
    BY <1>1, <1>4
  <2>2. Calling(stack[t][i - 1], stack[t][i])
    BY <1>2, <2>1
  <2>. QED
    BY <1>4, <2>2 DEF Calling
<1>. QED
  BY <1>2, <1>3, <1>4

-----------------------------------------------------------------------------
(* What each step does to the stacks, and that it keeps the types.          *)

Sound == TypeOK /\ StackInv

(* The types of the variables, apart from the stacks.                       *)
LEMMA SoundFacts ==
  ASSUME Sound, NEW t \in Threads
  PROVE  /\ stack \in [Threads -> Seq(Frame)] /\ StackInv
         /\ Top(t) \in Frame
         /\ Top(t).pc \in LoopPc => Top(t) \in [pc : LoopPc, timer : BOOLEAN]
         /\ At(t, "run") => Top(t) \in [pc : {"run"}, h : Handlers \cup {Main}]
         /\ At(t, "recv") => Top(t) \in [pc : {"recv"}, msg : Message \cup {NoMessage}]
         /\ Top(t).pc \in QueuePc =>
              Top(t) \in [pc : QueuePc, kind : {"post", "delay", "send"}, msg : Message, to : Threads]
         /\ Top(t).pc \in SendPc =>
              Top(t) \in [pc : SendPc, id : Nat \ {0}, to : Threads, waited : BOOLEAN]
         /\ At(t, "destroy") => Top(t) \in [pc : {"destroy"}, h : Handlers, left : SUBSET Threads]
         /\ Top(t).pc \in {"join", "remove"} => Top(t) \in [pc : {"join", "remove"}, to : Threads]
<1>1. stack \in [Threads -> Seq(Frame)] /\ StackInv
  BY DEF Sound, TypeOK
<1>2. Top(t) \in Frame
  BY <1>1, StackFacts
<1>. QED
  BY <1>1, <1>2, FrameFields DEF At

(* What GetSends does to the stacks and the types.                          *)
LEMMA GetSendsEffect ==
  ASSUME Sound, NEW t \in Threads, GetSends(t)
  PROVE  /\ Sound'
         /\ \/ Replaces(t, Loop("check", FALSE)) /\ t \notin has_sends
            \/ Adds(t, Loop("check", FALSE), Receiving(NoMessage))
<1>1. Loop("check", FALSE) \in Frame /\ Receiving(NoMessage) \in Frame
  BY FrameTypes DEF LoopPc
<1>2. Top(t).pc = "get" /\ stack \in [Threads -> Seq(Frame)] /\ StackInv
  BY SoundFacts DEF GetSends, At
<1>3. \/ Replaces(t, Loop("check", FALSE)) /\ t \notin has_sends
      \/ Adds(t, Loop("check", FALSE), Receiving(NoMessage))
  BY <1>1, <1>2, GotoStack, CallStack DEF GetSends
<1>4. Like(Loop("check", FALSE), Top(t)) /\ Calling(Loop("check", FALSE), Receiving(NoMessage))
  BY <1>2 DEF Like, Calling, Loop, Receiving, LoopPc
<1>5. StackInv'
  BY <1>2, <1>3, <1>4, ReplaceShape, AddShape
<1>6. TypeOK'
  <2>1. stack' \in [Threads -> Seq(Frame)]
    BY <1>3 DEF Replaces, Adds, Others
  <2>. QED
    BY <2>1 DEF Sound, TypeOK, GetSends, queue, event, registry, locks
<1>. QED
  BY <1>3, <1>5, <1>6 DEF Sound

(* What GetEmpty does to the stacks and the types.                          *)
LEMMA GetEmptyEffect ==
  ASSUME Sound, NEW t \in Threads, GetEmpty(t)
  PROVE  /\ Sound'
         /\ \/ Replaces(t, Loop("done", FALSE)) /\ t \in fStop /\ fWait' = fWait
            \/ Replaces(t, Loop("wait", Top(t).timer)) /\ t \notin fStop /\ fWait' = fWait \cup {t}
<1>1. Top(t).pc = "empty" /\ stack \in [Threads -> Seq(Frame)] /\ StackInv
  BY SoundFacts DEF GetEmpty, At
<1>2. Loop("done", FALSE) \in Frame /\ Loop("wait", Top(t).timer) \in Frame
  <2>1. Top(t).timer \in BOOLEAN
    BY <1>1, SoundFacts DEF LoopPc
  <2>. QED
    BY <2>1, FrameTypes DEF LoopPc
<1>3. \/ Replaces(t, Loop("done", FALSE)) /\ t \in fStop /\ fWait' = fWait
      \/ Replaces(t, Loop("wait", Top(t).timer)) /\ t \notin fStop /\ fWait' = fWait \cup {t}
  BY <1>1, <1>2, GotoStack DEF GetEmpty
<1>4. Like(Loop("done", FALSE), Top(t)) /\ Like(Loop("wait", Top(t).timer), Top(t))
  BY <1>1 DEF Like, Loop, LoopPc
<1>5. StackInv'
  BY <1>1, <1>3, <1>4, ReplaceShape
<1>6. TypeOK'
  <2>1. stack' \in [Threads -> Seq(Frame)] /\ fWait' \subseteq fWait \cup {t}
    BY <1>3 DEF Replaces, Others
  <2>. QED
    BY <2>1 DEF Sound, TypeOK, GetEmpty, queue, registry, locks
<1>. QED
  BY <1>3, <1>5, <1>6 DEF Sound

(* What Wait does to the stacks and the types.                              *)
LEMMA WaitEffect ==
  ASSUME Sound, NEW t \in Threads, Wait(t)
  PROVE  Sound' /\ Replaces(t, Loop("get", FALSE))
<1>1. Top(t).pc = "wait" /\ stack \in [Threads -> Seq(Frame)] /\ StackInv
  BY SoundFacts DEF Wait, At
<1>2. Loop("get", FALSE) \in Frame
  BY FrameTypes DEF LoopPc
<1>3. Replaces(t, Loop("get", FALSE))
  BY <1>1, <1>2, GotoStack DEF Wait
<1>4. Like(Loop("get", FALSE), Top(t))
  BY <1>1 DEF Like, Loop, LoopPc
<1>5. StackInv'
  BY <1>1, <1>3, <1>4, ReplaceShape
<1>6. TypeOK'
  <2>1. stack' \in [Threads -> Seq(Frame)]
    BY <1>3 DEF Replaces, Others
  <2>. QED
    BY <2>1 DEF Sound, TypeOK, Wait, queue, event, registry, locks
<1>. QED
  BY <1>3, <1>5, <1>6 DEF Sound

(* What SocketEvent does to the stacks and the types.                       *)
LEMMA SocketEventEffect ==
  ASSUME Sound, NEW t \in Threads, SocketEvent(t)
  PROVE  Sound' /\ Adds(t, Top(t), Running(Main))
<1>1. Top(t).pc = "wait" /\ stack \in [Threads -> Seq(Frame)] /\ StackInv
  BY SoundFacts DEF SocketEvent, At
<1>2. Running(Main) \in Frame
  BY FrameTypes
<1>3. Adds(t, Top(t), Running(Main))
  BY <1>1, <1>2, PushStack DEF SocketEvent
<1>4. Like(Top(t), Top(t)) /\ Calling(Top(t), Running(Main))
  BY <1>1 DEF Like, Calling, Running, LoopPc
<1>5. StackInv'
  BY <1>1, <1>3, <1>4, AddShape
<1>6. TypeOK'
  <2>1. stack' \in [Threads -> Seq(Frame)]
    BY <1>3 DEF Adds, Others
  <2>. QED
    BY <2>1 DEF Sound, TypeOK, SocketEvent, queue, event, registry, locks
<1>. QED
  BY <1>3, <1>5, <1>6 DEF Sound

(* What HandlerReturns does to the stacks and the types.                    *)
LEMMA HandlerReturnsEffect ==
  ASSUME Sound, NEW t \in Threads, HandlerReturns(t)
  PROVE  Sound' /\ Drops(t) /\ Top(t)'.pc \in {"get", "wait", "recv", "run"}
<1>1. Top(t).pc = "run" /\ stack \in [Threads -> Seq(Frame)] /\ StackInv
  BY SoundFacts DEF HandlerReturns, At
<1>2. Drops(t) /\ Calling(stack[t][Len(stack[t]) - 1], Top(t))
  BY <1>1, ReturnStack DEF HandlerReturns, LoopPc
<1>3. Top(t)'.pc \in {"get", "wait", "recv", "run"}
  BY <1>1, <1>2 DEF Drops, Calling
<1>4. StackInv'
  BY <1>1, <1>2, DropShape
<1>5. TypeOK'
  <2>1. stack' \in [Threads -> Seq(Frame)]
    BY <1>2 DEF Drops, Others
  <2>. QED
    BY <2>1 DEF Sound, TypeOK, HandlerReturns, queue, event, registry, locks
<1>. QED
  BY <1>2, <1>3, <1>4, <1>5 DEF Sound

(* Where a call that is not a handler or a Receive returns to.              *)
LEMMA CallReturns ==
  ASSUME Sound, NEW t \in Threads, Top(t).pc \notin LoopPc \cup {"run", "recv"}, Return(t)
  PROVE  /\ Drops(t) /\ Top(t)'.pc = "run" /\ StackInv'
         /\ stack' \in [Threads -> Seq(Frame)]
<1>1. stack \in [Threads -> Seq(Frame)] /\ StackInv
  BY SoundFacts
<1>2. Drops(t) /\ Calling(stack[t][Len(stack[t]) - 1], Top(t))
  BY <1>1, ReturnStack
<1>3. Top(t)'.pc = "run"
  BY <1>2 DEF Drops, Calling
<1>4. StackInv'
  BY <1>1, <1>2, DropShape
<1>. QED
  BY <1>2, <1>3, <1>4 DEF Drops, Others

(* What SendWakeUp does to the stacks and the types.                        *)
LEMMA SendWakeUpEffect ==
  ASSUME Sound, NEW t \in Threads, SendWakeUp(t)
  PROVE  /\ Sound'
         /\ Replaces(t, Sending("loop", Top(t).id, Top(t).to, Top(t).waited))
         /\ Top(t) = Sending("wake", Top(t).id, Top(t).to, Top(t).waited)
<1>. DEFINE f == Sending("loop", Top(t).id, Top(t).to, Top(t).waited)
<1>1. Top(t).pc = "wake" /\ stack \in [Threads -> Seq(Frame)] /\ StackInv
  BY SoundFacts DEF SendWakeUp, At
<1>2. Top(t) \in [pc : SendPc, id : Nat \ {0}, to : Threads, waited : BOOLEAN]
  BY <1>1, SoundFacts DEF SendPc
<1>3. [Top(t) EXCEPT !.pc = "loop"] = f
      /\ Top(t) = Sending("wake", Top(t).id, Top(t).to, Top(t).waited)
  BY <1>1, <1>2 DEF Sending
<1>4. f \in Frame
  BY <1>2, FrameTypes DEF SendPc
<1>5. Like(f, Top(t))
  BY <1>1 DEF Like, Sending, LoopPc
<1>. HIDE DEF f
<1>6. Replaces(t, f)
  BY <1>1, <1>3, <1>4, GotoStack DEF SendWakeUp
<1>7. StackInv'
  BY <1>1, <1>5, <1>6, ReplaceShape
<1>8. TypeOK'
  <2>1. stack' \in [Threads -> Seq(Frame)]
    BY <1>6 DEF Replaces, Others
  <2>2. Top(t).to \in Threads
    BY <1>2
  <2>. QED
    BY <2>1, <2>2 DEF Sound, TypeOK, SendWakeUp, queue, registry, locks
<1>. QED
  BY <1>3, <1>6, <1>7, <1>8 DEF Sound, f

(* What SendWait does to the stacks and the types.                          *)
LEMMA SendWaitEffect ==
  ASSUME Sound, NEW t \in Threads, SendWait(t)
  PROVE  /\ Sound'
         /\ Replaces(t, Sending("loop", Top(t).id, Top(t).to, Top(t).waited))
         /\ Top(t) = Sending("swait", Top(t).id, Top(t).to, Top(t).waited)
<1>. DEFINE f == Sending("loop", Top(t).id, Top(t).to, Top(t).waited)
<1>1. Top(t).pc = "swait" /\ stack \in [Threads -> Seq(Frame)] /\ StackInv
  BY SoundFacts DEF SendWait, At
<1>2. Top(t) \in [pc : SendPc, id : Nat \ {0}, to : Threads, waited : BOOLEAN]
  BY <1>1, SoundFacts DEF SendPc
<1>3. [Top(t) EXCEPT !.pc = "loop"] = f
      /\ Top(t) = Sending("swait", Top(t).id, Top(t).to, Top(t).waited)
  BY <1>1, <1>2 DEF Sending
<1>4. f \in Frame
  BY <1>2, FrameTypes DEF SendPc
<1>5. Like(f, Top(t))
  BY <1>1 DEF Like, Sending, LoopPc
<1>. HIDE DEF f
<1>6. Replaces(t, f)
  BY <1>1, <1>3, <1>4, GotoStack DEF SendWait
<1>7. StackInv'
  BY <1>1, <1>5, <1>6, ReplaceShape
<1>8. TypeOK'
  <2>1. stack' \in [Threads -> Seq(Frame)]
    BY <1>6 DEF Replaces, Others
  <2>. QED
    BY <2>1 DEF Sound, TypeOK, SendWait, queue, registry, locks
<1>. QED
  BY <1>3, <1>6, <1>7, <1>8 DEF Sound, f

(* What SendLoop does to the stacks and the types.                          *)
LEMMA SendLoopEffect ==
  ASSUME Sound, NEW t \in Threads, SendLoop(t)
  PROVE  LET f == Sending("swait", Top(t).id, Top(t).to, TRUE) IN
         /\ Sound'
         /\ Top(t) = Sending("loop", Top(t).id, Top(t).to, Top(t).waited)
         /\ \/ /\ Top(t).id \in ready /\ ready' = ready \ {Top(t).id}
               /\ Drops(t) /\ Top(t)'.pc = "run"
               /\ signaled' = IF Top(t).waited THEN signaled \cup {t} ELSE signaled
            \/ /\ Top(t).id \notin ready /\ ready' = ready /\ signaled' = signaled
               /\ (Replaces(t, f) /\ t \notin has_sends) \/ Adds(t, f, Receiving(NoMessage))
<1>. DEFINE f == Sending("swait", Top(t).id, Top(t).to, TRUE)
<1>1. Top(t).pc = "loop" /\ stack \in [Threads -> Seq(Frame)] /\ StackInv
  BY SoundFacts DEF SendLoop, At
<1>2. Top(t) \in [pc : SendPc, id : Nat \ {0}, to : Threads, waited : BOOLEAN]
  BY <1>1, SoundFacts DEF SendPc
<1>3. [Top(t) EXCEPT !.pc = "swait", !.waited = TRUE] = f
      /\ Top(t) = Sending("loop", Top(t).id, Top(t).to, Top(t).waited)
  <2>1. Top(t) = Sending("loop", Top(t).id, Top(t).to, Top(t).waited)
    BY <1>1, <1>2 DEF Sending
  <2>2. ASSUME NEW g \in [pc : SendPc, id : Nat \ {0}, to : Threads, waited : BOOLEAN],
               NEW b \in BOOLEAN
        PROVE  [g EXCEPT !.waited = b] = Sending(g.pc, g.id, g.to, b)
    BY DEF Sending
  <2>. DEFINE e == [Top(t) EXCEPT !.pc = "swait"]
  <2>3. e \in [pc : SendPc, id : Nat \ {0}, to : Threads, waited : BOOLEAN]
        /\ e.pc = "swait" /\ e.id = Top(t).id /\ e.to = Top(t).to
    BY <1>2 DEF SendPc
  <2>4. [e EXCEPT !.waited = TRUE] = f
    <3>. HIDE DEF e
    <3>. QED
      BY <2>2, <2>3
  <2>. QED
    BY <2>1, <2>4
<1>4. f \in Frame /\ Receiving(NoMessage) \in Frame
  BY <1>2, FrameTypes DEF SendPc
<1>5. Like(f, Top(t)) /\ Calling(f, Receiving(NoMessage))
  BY <1>1 DEF Like, Calling, Sending, Receiving, LoopPc
<1>. HIDE DEF f
<1>6. CASE Top(t).id \in ready
  <2>1. ready' = ready \ {Top(t).id} /\ Return(t)
        /\ signaled' = IF Top(t).waited THEN signaled \cup {t} ELSE signaled
    BY <1>6 DEF SendLoop
  <2>2. Drops(t) /\ Top(t)'.pc = "run" /\ StackInv' /\ stack' \in [Threads -> Seq(Frame)]
    BY <1>1, <2>1, CallReturns DEF LoopPc
  <2>3. TypeOK'
    BY <2>1, <2>2 DEF Sound, TypeOK, SendLoop, queue, registry, locks
  <2>. QED
    BY <1>3, <1>6, <2>1, <2>2, <2>3 DEF Sound
<1>7. CASE Top(t).id \notin ready
  <2>1. /\ ready' = ready /\ signaled' = signaled
        /\ IF t \in has_sends THEN Call(t, f, Receiving(NoMessage)) ELSE Goto(t, f)
    BY <1>3, <1>7 DEF SendLoop
  <2>2. (Replaces(t, f) /\ t \notin has_sends) \/ Adds(t, f, Receiving(NoMessage))
    BY <1>1, <1>4, <2>1, GotoStack, CallStack
  <2>3. StackInv'
    BY <1>1, <1>5, <2>2, ReplaceShape, AddShape
  <2>4. stack' \in [Threads -> Seq(Frame)]
    BY <2>2 DEF Replaces, Adds, Others
  <2>5. TypeOK'
    BY <2>1, <2>4 DEF Sound, TypeOK, SendLoop, queue, registry, locks
  <2>. QED
    BY <1>3, <1>7, <2>1, <2>2, <2>3, <2>5 DEF Sound, f
<1>. QED
  BY <1>6, <1>7

-----------------------------------------------------------------------------
(* The queues.                                                              *)

(* The messages of a queue as a set.                                        *)
LEMMA QueueSet ==
  ASSUME NEW S, NEW q \in Seq(S)
  PROVE  /\ \A y : y \in ToSet(q) <=> Queued(q, y)
         /\ ToSet(q) \subseteq S
         /\ ToSet(q) = {} <=> q = <<>>
<1>1. DOMAIN q = 1..Len(q) /\ Len(q) \in Nat /\ \A i \in 1..Len(q) : q[i] \in S
  OBVIOUS
<1>2. /\ \A y : y \in ToSet(q) <=> Queued(q, y)
      /\ ToSet(q) \subseteq S
  BY <1>1 DEF ToSet, Queued
<1>3. ToSet(q) = {} <=> q = <<>>
  <2>1. q = <<>> => ToSet(q) = {}
    BY <1>2, QueueEmpty
  <2>2. q # <<>> => ToSet(q) # {}
    <3>1. q # <<>> => Queued(q, Head(q))
      BY QueueTail
    <3>. QED
      BY <1>2, <3>1
  <2>. QED
    BY <2>1, <2>2
<1>. QED
  BY <1>2, <1>3

(* The set of a queue with one more message.                                *)
LEMMA AppendSet ==
  ASSUME NEW S, NEW q \in Seq(S), NEW x \in S
  PROVE  Append(q, x) \in Seq(S) /\ ToSet(Append(q, x)) = ToSet(q) \cup {x}
         /\ Append(q, x) # <<>>
<1>1. Append(q, x) \in Seq(S) /\ \A y : Queued(Append(q, x), y) <=> Queued(q, y) \/ y = x
  BY QueueAppend
<1>. DEFINE r == Append(q, x)
<1>. HIDE DEF r
<1>2. (\A y : y \in ToSet(r) <=> Queued(r, y)) /\ (ToSet(r) = {} <=> r = <<>>)
  BY <1>1, QueueSet DEF r
<1>3. \A y : y \in ToSet(q) <=> Queued(q, y)
  BY QueueSet
<1>4. ToSet(r) = ToSet(q) \cup {x}
  BY <1>1, <1>2, <1>3 DEF r
<1>. QED
  BY <1>1, <1>2, <1>4 DEF r

(* The set of a queue without its first message.                            *)
LEMMA TailSet ==
  ASSUME NEW S, NEW q \in Seq(S), q # <<>>
  PROVE  Tail(q) \in Seq(S) /\ Head(q) \in S /\ ToSet(q) = ToSet(Tail(q)) \cup {Head(q)}
<1>1. Tail(q) \in Seq(S) /\ \A y : Queued(q, y) <=> Head(q) = y \/ Queued(Tail(q), y)
  BY QueueTail
<1>. QED
  BY <1>1, QueueSet

(* The types of the queues.                                                 *)
LEMMA QueueTypes ==
  ASSUME Sound, NEW t \in Threads
  PROVE  /\ msgq[t] \in Seq(Message) /\ sendlist[t] \in Seq(Message)
         /\ dmsgq[t] \subseteq Message /\ IsFiniteSet(dmsgq[t])
         /\ Pending(t) \subseteq Message
         /\ ToSet(msgq[t]) \subseteq Message /\ ToSet(sendlist[t]) \subseteq Message
         /\ ToSet(sendlist[t]) = {} <=> sendlist[t] = <<>>
         /\ ToSet(msgq[t]) = {} <=> msgq[t] = <<>>
<1>1. /\ msgq[t] \in Seq(Message) /\ sendlist[t] \in Seq(Message)
      /\ dmsgq[t] \subseteq Message /\ IsFiniteSet(dmsgq[t])
  BY DEF Sound, TypeOK
<1>. QED
  BY <1>1, QueueSet DEF Pending

(* Thread::Clear.                                                           *)
LEMMA ClearQueueEffect ==
  ASSUME Sound, NEW u \in Threads, NEW hs \in SUBSET Handlers, ClearQueue(u, hs)
  PROVE  LET gone == {m \in ToSet(sendlist[u]) : m.h \in hs} IN
         /\ \A v \in Threads \ {u} : /\ msgq'[v] = msgq[v] /\ dmsgq'[v] = dmsgq[v]
                                     /\ sendlist'[v] = sendlist[v]
         /\ Pending(u)' = {m \in Pending(u) : m.h \notin hs}
         /\ ToSet(sendlist'[u]) = ToSet(sendlist[u]) \ gone
         /\ ToSet(msgq'[u]) \subseteq ToSet(msgq[u]) /\ dmsgq'[u] \subseteq dmsgq[u]
         /\ Once(sendlist[u], Message) => Once(sendlist'[u], Message)
         /\ msgq' \in [Threads -> Seq(Message)] /\ sendlist' \in [Threads -> Seq(Message)]
         /\ dmsgq' \in [Threads -> SUBSET Message] /\ \A v \in Threads : IsFiniteSet(dmsgq'[v])
         /\ has_sends' = has_sends
         /\ ready' = ready \cup {m.id : m \in gone} /\ ready' \subseteq Nat \ {0}
         /\ signaled' = signaled \cup {m.thread : m \in gone} /\ signaled' \subseteq Threads
<1>. DEFINE gone == {m \in ToSet(sendlist[u]) : m.h \in hs}
            q == Cleared(msgq[u], For(hs, msgq[u]))
            s == Cleared(sendlist[u], gone)
            d == {m \in dmsgq[u] : m.h \notin hs}
<1>1. /\ msgq[u] \in Seq(Message) /\ sendlist[u] \in Seq(Message)
      /\ dmsgq[u] \subseteq Message /\ IsFiniteSet(dmsgq[u])
      /\ ToSet(sendlist[u]) \subseteq Message
  BY QueueTypes
<1>2. /\ msgq \in [Threads -> Seq(Message)] /\ sendlist \in [Threads -> Seq(Message)]
      /\ dmsgq \in [Threads -> SUBSET Message] /\ \A v \in Threads : IsFiniteSet(dmsgq[v])
      /\ ready \subseteq Nat \ {0} /\ signaled \subseteq Threads
  BY DEF Sound, TypeOK
<1>3. For(hs, sendlist[u]) = gone /\ For(hs, msgq[u]) = {m \in ToSet(msgq[u]) : m.h \in hs}
  BY DEF For
<1>4. /\ msgq' = [msgq EXCEPT ![u] = q] /\ sendlist' = [sendlist EXCEPT ![u] = s]
      /\ dmsgq' = [dmsgq EXCEPT ![u] = d] /\ has_sends' = has_sends
      /\ ready' = ready \cup {m.id : m \in gone}
      /\ signaled' = signaled \cup {m.thread : m \in gone}
  BY <1>3 DEF ClearQueue
<1>5. q \in Seq(Message) /\ ToSet(q) = {m \in ToSet(msgq[u]) : m.h \notin hs}
  <2>1. q \in Seq(Message)
        /\ \A y : Queued(q, y) <=> Queued(msgq[u], y) /\ y \notin For(hs, msgq[u])
    BY <1>1, ClearedQueue
  <2>2. /\ \A y : y \in ToSet(q) <=> Queued(q, y)
        /\ \A y : y \in ToSet(msgq[u]) <=> Queued(msgq[u], y)
    BY <1>1, <2>1, QueueSet
  <2>. HIDE DEF q
  <2>. QED
    BY <1>3, <2>1, <2>2
<1>6. s \in Seq(Message) /\ ToSet(s) = ToSet(sendlist[u]) \ gone
      /\ (Once(sendlist[u], Message) => Once(s, Message))
  <2>1. s \in Seq(Message) /\ \A y : Queued(s, y) <=> Queued(sendlist[u], y) /\ y \notin gone
    BY <1>1, ClearedQueue
  <2>2. Once(sendlist[u], Message) => Once(s, Message)
    BY <1>1, ClearedQueue
  <2>. HIDE DEF s, gone
  <2>3. /\ \A y : y \in ToSet(s) <=> Queued(s, y)
        /\ \A y : y \in ToSet(sendlist[u]) <=> Queued(sendlist[u], y)
    BY <1>1, <2>1, QueueSet
  <2>. QED
    BY <2>1, <2>2, <2>3
<1>7. d \in SUBSET Message /\ IsFiniteSet(d)
  BY <1>1, FS_Subset
<1>8. gone \subseteq Message
  BY <1>1
<1>9. {m.id : m \in gone} \subseteq Nat \ {0} /\ {m.thread : m \in gone} \subseteq Threads
  BY <1>8 DEF Message
<1>10. /\ ready' \subseteq Nat \ {0} /\ signaled' \subseteq Threads
  BY <1>2, <1>4, <1>9
<1>. HIDE DEF q, s
<1>11. msgq'[u] = q /\ dmsgq'[u] = d /\ sendlist'[u] = s
       /\ \A v \in Threads \ {u} : /\ msgq'[v] = msgq[v] /\ dmsgq'[v] = dmsgq[v]
                                   /\ sendlist'[v] = sendlist[v]
  BY <1>2, <1>4
<1>12. msgq' \in [Threads -> Seq(Message)] /\ sendlist' \in [Threads -> Seq(Message)]
       /\ dmsgq' \in [Threads -> SUBSET Message]
  BY <1>2, <1>4, <1>5, <1>6, <1>7
<1>13. \A v \in Threads : IsFiniteSet(dmsgq'[v])
  BY <1>2, <1>7, <1>11
<1>14. Pending(u)' = {m \in Pending(u) : m.h \notin hs}
  BY <1>5, <1>6, <1>11 DEF Pending
<1>15. ToSet(msgq'[u]) \subseteq ToSet(msgq[u]) /\ dmsgq'[u] \subseteq dmsgq[u]
  BY <1>5, <1>11
<1>. QED
  BY <1>4, <1>6, <1>10, <1>11, <1>12, <1>13, <1>14, <1>15

(* Post, DoDelayPost and Send under crit_.                                  *)
LEMMA EnqueueEffect ==
  ASSUME Sound, NEW u \in Threads, NEW kind \in {"post", "delay", "send"}, NEW m \in Message,
         Enqueue(u, kind, m)
  PROVE  /\ msgq' \in [Threads -> Seq(Message)] /\ sendlist' \in [Threads -> Seq(Message)]
         /\ dmsgq' \in [Threads -> SUBSET Message] /\ \A v \in Threads : IsFiniteSet(dmsgq'[v])
         /\ has_sends' \subseteq Threads /\ signaled' \subseteq Threads
         /\ \A v \in Threads \ {u} : /\ msgq'[v] = msgq[v] /\ dmsgq'[v] = dmsgq[v]
                                     /\ sendlist'[v] = sendlist[v]
         /\ Pending(u)' = Pending(u) \cup {m}
         /\ kind = "send" =>
              /\ sendlist'[u] = Append(sendlist[u], m) /\ sendlist'[u] # <<>>
              /\ ToSet(sendlist'[u]) = ToSet(sendlist[u]) \cup {m}
              /\ msgq' = msgq /\ dmsgq' = dmsgq /\ signaled' = signaled
              /\ has_sends' = has_sends \cup {u}
         /\ kind # "send" =>
              /\ sendlist' = sendlist /\ has_sends' = has_sends /\ signaled' = signaled \cup {u}
<1>1. /\ msgq \in [Threads -> Seq(Message)] /\ sendlist \in [Threads -> Seq(Message)]
      /\ dmsgq \in [Threads -> SUBSET Message] /\ \A v \in Threads : IsFiniteSet(dmsgq[v])
      /\ signaled \subseteq Threads /\ has_sends \subseteq Threads
  BY DEF Sound, TypeOK
<1>2. CASE kind = "post"
  <2>. DEFINE q == Append(msgq[u], m)
  <2>1. q \in Seq(Message) /\ ToSet(q) = ToSet(msgq[u]) \cup {m}
    BY <1>1, AppendSet
  <2>. HIDE DEF q
  <2>2. /\ msgq' = [msgq EXCEPT ![u] = q] /\ dmsgq' = dmsgq /\ sendlist' = sendlist
        /\ has_sends' = has_sends /\ signaled' = signaled \cup {u}
    BY <1>2 DEF Enqueue, q
  <2>3. msgq' \in [Threads -> Seq(Message)] /\ msgq'[u] = q
        /\ \A v \in Threads \ {u} : msgq'[v] = msgq[v]
    BY <1>1, <2>1, <2>2
  <2>4. Pending(u)' = Pending(u) \cup {m}
    BY <2>1, <2>2, <2>3 DEF Pending
  <2>. QED
    BY <1>1, <1>2, <2>2, <2>3, <2>4
<1>3. CASE kind = "delay"
  <2>. DEFINE d == dmsgq[u] \cup {m}
  <2>1. d \in SUBSET Message /\ IsFiniteSet(d)
    BY <1>1, FS_AddElement
  <2>2. /\ dmsgq' = [dmsgq EXCEPT ![u] = d] /\ msgq' = msgq /\ sendlist' = sendlist
        /\ has_sends' = has_sends /\ signaled' = signaled \cup {u}
    BY <1>3 DEF Enqueue
  <2>3. dmsgq' \in [Threads -> SUBSET Message] /\ dmsgq'[u] = d
        /\ \A v \in Threads \ {u} : dmsgq'[v] = dmsgq[v]
    BY <1>1, <2>1, <2>2
  <2>4. Pending(u)' = Pending(u) \cup {m}
    BY <2>1, <2>2, <2>3 DEF Pending
  <2>. HIDE DEF d
  <2>. QED
    BY <1>1, <1>3, <2>1, <2>2, <2>3, <2>4
<1>4. CASE kind = "send"
  <2>. DEFINE q == Append(sendlist[u], m)
  <2>1. q \in Seq(Message) /\ ToSet(q) = ToSet(sendlist[u]) \cup {m} /\ q # <<>>
    BY <1>1, AppendSet
  <2>. HIDE DEF q
  <2>2. /\ sendlist' = [sendlist EXCEPT ![u] = q] /\ dmsgq' = dmsgq /\ msgq' = msgq
        /\ has_sends' = has_sends \cup {u} /\ signaled' = signaled
    BY <1>4 DEF Enqueue, q
  <2>3. sendlist' \in [Threads -> Seq(Message)] /\ sendlist'[u] = q
        /\ \A v \in Threads \ {u} : sendlist'[v] = sendlist[v]
    BY <1>1, <2>1, <2>2
  <2>4. Pending(u)' = Pending(u) \cup {m}
    BY <2>1, <2>2, <2>3 DEF Pending
  <2>. QED
    BY <1>1, <1>4, <2>1, <2>2, <2>3, <2>4 DEF q
<1>. QED
  BY <1>2, <1>3, <1>4

-----------------------------------------------------------------------------
(* The steps that change the queues, the locks and the handlers.            *)

(* What GetMessage does to the stacks and the types.                        *)
LEMMA GetMessageEffect ==
  ASSUME Sound, NEW t \in Threads, NEW due \in SUBSET dmsgq[t], GetMessage(t, due)
  PROVE  /\ Sound' /\ At(t, "check") /\ Free(t)
         /\ \A v \in Threads \ {t} : msgq'[v] = msgq[v] /\ dmsgq'[v] = dmsgq[v]
         /\ Pending(t)' \subseteq Pending(t)
         /\ \/ /\ Replaces(t, Loop("empty", dmsgq[t] # {}))
               /\ msgq[t] = <<>> /\ msgq'[t] = <<>> /\ dmsgq'[t] = dmsgq[t]
            \/ \E h \in Handlers : Adds(t, Loop("get", FALSE), Running(h))
<1>. DEFINE r == SetToSeq(due)
            q == msgq[t] \o r
            b == dmsgq[t] # {}
<1>1. Top(t).pc = "check" /\ stack \in [Threads -> Seq(Frame)] /\ StackInv
      /\ At(t, "check") /\ Free(t)
  BY SoundFacts DEF GetMessage, At
<1>2. /\ msgq[t] \in Seq(Message) /\ dmsgq[t] \subseteq Message /\ IsFiniteSet(dmsgq[t])
      /\ msgq \in [Threads -> Seq(Message)]
      /\ dmsgq \in [Threads -> SUBSET Message] /\ \A v \in Threads : IsFiniteSet(dmsgq[v])
  BY QueueTypes DEF Sound, TypeOK
<1>3. IsFiniteSet(due) /\ IsFiniteSet(dmsgq[t] \ due) /\ due \subseteq Message
  BY <1>2, FS_Subset
<1>4. /\ r \in Seq(due) /\ Len(r) = Cardinality(due) /\ \A y : Queued(r, y) <=> y \in due
  BY <1>3, SetQueue
<1>5. r \in Seq(Message)
  BY <1>3, <1>4
<1>. HIDE DEF r
<1>6. /\ q \in Seq(Message) /\ Len(q) = Len(msgq[t]) + Len(r)
      /\ \A y : Queued(q, y) <=> Queued(msgq[t], y) \/ Queued(r, y)
  BY <1>2, <1>5, QueueConcat
<1>7. ToSet(q) = ToSet(msgq[t]) \cup due
  <2>1. /\ \A y : y \in ToSet(q) <=> Queued(q, y)
        /\ \A y : y \in ToSet(msgq[t]) <=> Queued(msgq[t], y)
    BY <1>2, <1>6, QueueSet
  <2>. HIDE DEF q
  <2>. QED
    BY <1>4, <1>6, <2>1
<1>. DEFINE p == IF q = <<>> THEN q ELSE Tail(q)
<1>8. /\ dmsgq' = [dmsgq EXCEPT ![t] = @ \ due]
      /\ msgq' = [msgq EXCEPT ![t] = p]
      /\ IF q = <<>> THEN Goto(t, Loop("empty", b))
                     ELSE Call(t, Loop("get", FALSE), Running(Head(q).h))
  BY DEF GetMessage, r
<1>9. b \in BOOLEAN
  OBVIOUS
<1>. HIDE DEF q, b
<1>10. p \in Seq(Message) /\ ToSet(p) \subseteq ToSet(q)
  BY <1>6, TailSet
<1>. HIDE DEF p
<1>11. /\ msgq' \in [Threads -> Seq(Message)] /\ dmsgq' \in [Threads -> SUBSET Message]
       /\ msgq'[t] = p /\ dmsgq'[t] = dmsgq[t] \ due
       /\ \A v \in Threads \ {t} : msgq'[v] = msgq[v] /\ dmsgq'[v] = dmsgq[v]
  BY <1>2, <1>8, <1>10
<1>12. \A v \in Threads : IsFiniteSet(dmsgq'[v])
  BY <1>2, <1>3, <1>11
<1>13. Pending(t)' \subseteq Pending(t)
  <2>1. sendlist' = sendlist
    BY DEF GetMessage
  <2>. QED
    BY <1>7, <1>10, <1>11, <2>1 DEF Pending
<1>14. ASSUME stack' \in [Threads -> Seq(Frame)] PROVE TypeOK'
  BY <1>11, <1>12, <1>14 DEF Sound, TypeOK, GetMessage, event, registry, locks
<1>15. CASE q = <<>>
  <2>1. Loop("empty", b) \in Frame
    BY <1>9, FrameTypes DEF LoopPc
  <2>2. Replaces(t, Loop("empty", b))
    BY <1>1, <1>8, <1>15, <2>1, GotoStack
  <2>3. Like(Loop("empty", b), Top(t))
    BY <1>1 DEF Like, Loop, LoopPc
  <2>4. StackInv' /\ stack' \in [Threads -> Seq(Frame)]
    BY <1>1, <2>2, <2>3, ReplaceShape DEF Replaces, Others
  <2>5. Len(msgq[t]) = 0 /\ Cardinality(due) = 0
    <3>1. Len(q) = 0 /\ Len(msgq[t]) \in Nat /\ Len(r) \in Nat
      BY <1>2, <1>5, <1>15
    <3>. QED
      BY <1>4, <1>6, <3>1
  <2>6. msgq[t] = <<>> /\ due = {} /\ p = <<>>
    BY <1>2, <1>3, <1>15, <2>5, FS_EmptySet DEF p
  <2>7. msgq'[t] = <<>> /\ dmsgq'[t] = dmsgq[t]
    BY <1>11, <2>6
  <2>. QED
    BY <1>1, <1>11, <1>13, <1>14, <2>2, <2>4, <2>6, <2>7 DEF Sound, b
<1>16. CASE q # <<>>
  <2>1. Head(q).h \in Handlers
    <3>1. Head(q) \in Message
      BY <1>6, <1>16, TailSet
    <3>. QED
      BY <3>1 DEF Message
  <2>2. Loop("get", FALSE) \in Frame /\ Running(Head(q).h) \in Frame
    BY <2>1, FrameTypes DEF LoopPc
  <2>3. Adds(t, Loop("get", FALSE), Running(Head(q).h))
    BY <1>1, <1>8, <1>16, <2>2, CallStack
  <2>4. Like(Loop("get", FALSE), Top(t)) /\ Calling(Loop("get", FALSE), Running(Head(q).h))
    BY <1>1 DEF Like, Calling, Loop, Running, LoopPc
  <2>5. StackInv' /\ stack' \in [Threads -> Seq(Frame)]
    BY <1>1, <2>3, <2>4, AddShape DEF Adds, Others
  <2>. QED
    BY <1>1, <1>11, <1>13, <1>14, <2>1, <2>3, <2>5 DEF Sound
<1>. QED
  BY <1>15, <1>16

(* What ReceiveSends does to the stacks and the types.                      *)
LEMMA ReceiveSendsEffect ==
  ASSUME Sound, NEW t \in Threads, ReceiveSends(t)
  PROVE  LET m == Top(t).msg
             n == Head(sendlist[t])
         IN
         /\ Sound' /\ Top(t).pc = "recv" /\ m \in Message \cup {NoMessage} /\ Free(t)
         /\ ready' = ready \cup ({m.id} \ {0}) /\ signaled' = signaled \cup ({m.thread} \ {Nobody})
         /\ \A v \in Threads \ {t} : sendlist'[v] = sendlist[v]
         /\ \/ /\ sendlist[t] = <<>> /\ sendlist' = sendlist /\ has_sends' = has_sends \ {t}
               /\ Drops(t) /\ Top(t)'.pc \in {"check", "swait"}
            \/ /\ sendlist[t] # <<>> /\ n \in Message /\ has_sends' = has_sends
               /\ sendlist'[t] = Tail(sendlist[t])
               /\ ToSet(sendlist[t]) = ToSet(sendlist'[t]) \cup {n}
               /\ Adds(t, Receiving(n), Running(n.h))
<1>. DEFINE m == Top(t).msg
            n == Head(sendlist[t])
<1>1. Top(t).pc = "recv" /\ stack \in [Threads -> Seq(Frame)] /\ StackInv /\ Free(t)
  BY SoundFacts DEF ReceiveSends, At
<1>2. m \in Message \cup {NoMessage}
  BY <1>1, SoundFacts DEF At
<1>3. m.id \in Nat /\ m.thread \in Threads \cup {Nobody}
  BY <1>2 DEF Message, NoMessage
<1>4. /\ sendlist[t] \in Seq(Message) /\ sendlist \in [Threads -> Seq(Message)]
      /\ signaled \subseteq Threads /\ ready \subseteq Nat \ {0} /\ has_sends \subseteq Threads
  BY QueueTypes DEF Sound, TypeOK
<1>5. /\ ready' = ready \cup ({m.id} \ {0}) /\ signaled' = signaled \cup ({m.thread} \ {Nobody})
      /\ UNCHANGED <<msgq, dmsgq, fWait, fStop, registry, locks, alive, calls>>
      /\ IF sendlist[t] = <<>>
           THEN has_sends' = has_sends \ {t} /\ Return(t) /\ sendlist' = sendlist
           ELSE /\ sendlist' = [sendlist EXCEPT ![t] = Tail(@)]
                /\ Call(t, Receiving(n), Running(n.h))
                /\ has_sends' = has_sends
  BY DEF ReceiveSends
<1>6. ready' \subseteq Nat \ {0} /\ signaled' \subseteq Threads /\ has_sends' \subseteq Threads
  BY <1>3, <1>4, <1>5
<1>7. ASSUME stack' \in [Threads -> Seq(Frame)], sendlist' \in [Threads -> Seq(Message)]
      PROVE  TypeOK'
  BY <1>5, <1>6, <1>7 DEF Sound, TypeOK, registry, locks
<1>. HIDE DEF m
<1>8. CASE sendlist[t] = <<>>
  <2>1. Drops(t) /\ Calling(stack[t][Len(stack[t]) - 1], Top(t))
    BY <1>1, <1>5, <1>8, ReturnStack DEF LoopPc
  <2>2. Top(t)'.pc \in {"check", "swait"}
    BY <1>1, <2>1 DEF Drops, Calling
  <2>3. StackInv' /\ stack' \in [Threads -> Seq(Frame)]
    BY <1>1, <2>1, DropShape DEF Drops, Others
  <2>. QED
    BY <1>1, <1>2, <1>4, <1>5, <1>7, <1>8, <2>1, <2>2, <2>3 DEF Sound, m
<1>9. CASE sendlist[t] # <<>>
  <2>1. Tail(sendlist[t]) \in Seq(Message) /\ n \in Message
        /\ ToSet(sendlist[t]) = ToSet(Tail(sendlist[t])) \cup {n}
    BY <1>4, <1>9, TailSet
  <2>2. n.h \in Handlers
    BY <2>1 DEF Message
  <2>3. Receiving(n) \in Frame /\ Running(n.h) \in Frame
    BY <2>1, <2>2, FrameTypes
  <2>. HIDE DEF n
  <2>4. Adds(t, Receiving(n), Running(n.h))
    BY <1>1, <1>5, <1>9, <2>3, CallStack
  <2>5. Like(Receiving(n), Top(t)) /\ Calling(Receiving(n), Running(n.h))
    BY <1>1 DEF Like, Calling, Receiving, Running, LoopPc
  <2>6. StackInv' /\ stack' \in [Threads -> Seq(Frame)]
    BY <1>1, <2>4, <2>5, AddShape DEF Adds, Others
  <2>7. sendlist' \in [Threads -> Seq(Message)] /\ sendlist'[t] = Tail(sendlist[t])
        /\ \A v \in Threads \ {t} : sendlist'[v] = sendlist[v]
    BY <1>4, <1>5, <1>9, <2>1
  <2>. QED
    BY <1>1, <1>2, <1>5, <1>7, <1>9, <2>1, <2>4, <2>6, <2>7 DEF Sound, m, n
<1>. QED
  BY <1>8, <1>9

(* What Submit does to the stacks and the types.                            *)
LEMMA SubmitEffect ==
  ASSUME Sound, NEW t \in Threads, NEW h \in Handlers, NEW kind \in {"post", "delay", "send"},
         Submit(t, h, kind)
  PROVE  LET u == Owner[h]
             m == [id |-> calls + 1, h |-> h, thread |-> t]
         IN
         /\ Sound' /\ Top(t).pc = "run" /\ h \in alive /\ u \in Threads /\ m \in Message
         /\ calls' = calls + 1
         /\ \/ stack' = stack
            \/ Adds(t, Top(t), Running(h))
            \/ u \notin fStop /\ Adds(t, Top(t), Queueing("queue", kind, m, u))
<1>. DEFINE u == Owner[h]
            m == [id |-> calls + 1, h |-> h, thread |-> t]
            f == Queueing("queue", kind, m, u)
<1>1. Top(t).pc = "run" /\ stack \in [Threads -> Seq(Frame)] /\ StackInv
  BY SoundFacts DEF Submit, Calls, At
<1>2. calls \in Nat /\ u \in Threads
  BY ThreadAssumption DEF Sound, TypeOK
<1>3. m \in Message
  BY <1>2 DEF Message
<1>4. Running(h) \in Frame /\ f \in Frame
  BY <1>2, <1>3, FrameTypes DEF QueuePc
<1>5. Like(Top(t), Top(t)) /\ Calling(Top(t), Running(h)) /\ Calling(Top(t), f)
  BY <1>1 DEF Like, Calling, Running, Queueing, LoopPc
<1>6. \/ stack' = stack
      \/ Push(t, Running(h))
      \/ u \notin fStop /\ Push(t, f)
  BY DEF Submit
<1>. HIDE DEF f, m
<1>7. \/ stack' = stack
      \/ Adds(t, Top(t), Running(h))
      \/ u \notin fStop /\ Adds(t, Top(t), f)
  BY <1>1, <1>4, <1>6, PushStack
<1>8. StackInv' /\ stack' \in [Threads -> Seq(Frame)]
  <2>1. CASE stack' = stack
    BY <1>1, <2>1 DEF StackInv
  <2>2. CASE Adds(t, Top(t), Running(h))
    BY <1>1, <1>5, <2>2, AddShape DEF Adds, Others
  <2>3. CASE Adds(t, Top(t), f)
    BY <1>1, <1>5, <2>3, AddShape DEF Adds, Others
  <2>. QED
    BY <1>7, <2>1, <2>2, <2>3
<1>9. h \in alive /\ calls' = calls + 1
  BY DEF Submit, Calls
<1>10. TypeOK'
  BY <1>2, <1>8, <1>9 DEF Sound, TypeOK, Submit, queue, event, registry, locks
<1>. QED
  BY <1>1, <1>2, <1>3, <1>7, <1>8, <1>9, <1>10 DEF Sound, f, m

(* After the block under crit_: Send goes on, Post returns.                 *)
LEMMA EnqueuedEffect ==
  ASSUME Sound, NEW t \in Threads, Top(t).pc \in QueuePc, Enqueued(t, Top(t))
  PROVE  /\ StackInv' /\ stack' \in [Threads -> Seq(Frame)]
         /\ \/ Top(t).kind = "send" /\ Replaces(t, Sending("wake", Top(t).msg.id, Top(t).to, FALSE))
            \/ Top(t).kind # "send" /\ Drops(t) /\ Top(t)'.pc = "run"
<1>. DEFINE f == Sending("wake", Top(t).msg.id, Top(t).to, FALSE)
<1>1. stack \in [Threads -> Seq(Frame)] /\ StackInv
  BY SoundFacts
<1>2. Top(t).msg \in Message /\ Top(t).to \in Threads
  BY SoundFacts
<1>3. Top(t).msg.id \in Nat \ {0}
  BY <1>2 DEF Message
<1>4. f \in Frame
  BY <1>2, <1>3, FrameTypes DEF SendPc
<1>5. Like(f, Top(t))
  BY DEF Like, Sending, LoopPc, QueuePc
<1>. HIDE DEF f
<1>6. CASE Top(t).kind = "send"
  <2>1. Replaces(t, f)
    BY <1>1, <1>4, <1>6, GotoStack DEF Enqueued, f
  <2>2. StackInv' /\ stack' \in [Threads -> Seq(Frame)]
    BY <1>1, <1>5, <2>1, ReplaceShape DEF Replaces, Others
  <2>. QED
    BY <1>6, <2>1, <2>2 DEF f
<1>7. CASE Top(t).kind # "send"
  <2>1. Return(t) /\ Top(t).pc \notin LoopPc \cup {"run", "recv"}
    BY <1>7 DEF Enqueued, QueuePc, LoopPc
  <2>. QED
    BY <1>7, <2>1, CallReturns
<1>. QED
  BY <1>6, <1>7

(* What Lock does to the stacks and the types.                              *)
LEMMA LockEffect ==
  ASSUME Sound, NEW t \in Threads, Lock(t)
  PROVE  LET f == Top(t) IN
         /\ Sound' /\ f.pc = "queue" /\ Free(f.to) /\ active' = active \cup {f.to}
         /\ f.to \in Threads /\ f.msg \in Message /\ f.kind \in {"post", "delay", "send"}
         /\ \/ /\ f.to \notin active /\ qlock' = [qlock EXCEPT ![f.to] = t]
               /\ Replaces(t, Queueing("activate", f.kind, f.msg, f.to))
               /\ UNCHANGED <<queue, signaled>>
            \/ /\ f.to \in active /\ qlock' = qlock
               /\ Enqueue(f.to, f.kind, f.msg)
               /\ \/ /\ f.kind = "send"
                     /\ Replaces(t, Sending("wake", f.msg.id, f.to, FALSE))
                  \/ f.kind # "send" /\ Drops(t) /\ Top(t)'.pc = "run"
<1>. DEFINE f == Top(t)
            g == Queueing("activate", f.kind, f.msg, f.to)
<1>1. f.pc = "queue" /\ stack \in [Threads -> Seq(Frame)] /\ StackInv
  BY SoundFacts DEF Lock, At
<1>2. f.to \in Threads /\ f.msg \in Message /\ f.kind \in {"post", "delay", "send"}
  BY <1>1, SoundFacts DEF QueuePc
<1>3. /\ Free(f.to) /\ active' = active \cup {f.to}
      /\ UNCHANGED <<fWait, fStop, queues, mlock, ready, alive, calls>>
      /\ IF f.to \notin active
           THEN /\ qlock' = [qlock EXCEPT ![f.to] = t] /\ Goto(t, g)
                /\ UNCHANGED <<queue, signaled>>
           ELSE Enqueue(f.to, f.kind, f.msg) /\ Enqueued(t, f) /\ UNCHANGED qlock
  BY DEF Lock, NeedsActivation
<1>4. /\ active \subseteq Threads /\ qlock \in [Threads -> Threads \cup {Nobody}]
  BY DEF Sound, TypeOK
<1>5. g \in Frame
  BY <1>2, FrameTypes DEF QueuePc
<1>6. Like(g, f)
  BY <1>1 DEF Like, Queueing, LoopPc
<1>. HIDE DEF g
<1>7. CASE f.to \notin active
  <2>1. Replaces(t, g)
    BY <1>1, <1>3, <1>5, <1>7, GotoStack
  <2>2. StackInv' /\ stack' \in [Threads -> Seq(Frame)]
    BY <1>1, <1>6, <2>1, ReplaceShape DEF Replaces, Others
  <2>3. qlock' \in [Threads -> Threads \cup {Nobody}] /\ active' \subseteq Threads
    BY <1>2, <1>3, <1>4, <1>7
  <2>4. TypeOK'
    BY <1>3, <1>7, <2>2, <2>3 DEF Sound, TypeOK, queue
  <2>. QED
    BY <1>1, <1>2, <1>3, <1>7, <2>1, <2>2, <2>4 DEF Sound, g
<1>8. CASE f.to \in active
  <2>1. Enqueue(f.to, f.kind, f.msg) /\ Enqueued(t, f) /\ qlock' = qlock
    BY <1>3, <1>8
  <2>2. /\ StackInv' /\ stack' \in [Threads -> Seq(Frame)]
        /\ \/ f.kind = "send" /\ Replaces(t, Sending("wake", f.msg.id, f.to, FALSE))
           \/ f.kind # "send" /\ Drops(t) /\ Top(t)'.pc = "run"
    BY <1>1, <2>1, EnqueuedEffect DEF QueuePc
  <2>3. /\ msgq' \in [Threads -> Seq(Message)] /\ sendlist' \in [Threads -> Seq(Message)]
        /\ dmsgq' \in [Threads -> SUBSET Message] /\ \A v \in Threads : IsFiniteSet(dmsgq'[v])
        /\ has_sends' \subseteq Threads /\ signaled' \subseteq Threads
    BY <1>2, <2>1, EnqueueEffect
  <2>4. active' \subseteq Threads
    BY <1>2, <1>3, <1>4
  <2>5. TypeOK'
    BY <1>3, <2>1, <2>2, <2>3, <2>4 DEF Sound, TypeOK
  <2>. QED
    BY <1>1, <1>2, <1>3, <1>8, <2>1, <2>2, <2>5 DEF Sound
<1>. QED
  BY <1>7, <1>8

(* What Activate does to the stacks and the types.                          *)
LEMMA ActivateEffect ==
  ASSUME Sound, NEW t \in Threads, Activate(t)
  PROVE  LET f == Top(t) IN
         /\ Sound' /\ f.pc = "activate" /\ mlock = Nobody
         /\ f.to \in Threads /\ f.msg \in Message /\ f.kind \in {"post", "delay", "send"}
         /\ Enqueue(f.to, f.kind, f.msg)
         /\ \/ f.kind = "send" /\ Replaces(t, Sending("wake", f.msg.id, f.to, FALSE))
            \/ f.kind # "send" /\ Drops(t) /\ Top(t)'.pc = "run"
<1>. DEFINE f == Top(t)
<1>1. f.pc = "activate" /\ stack \in [Threads -> Seq(Frame)] /\ StackInv /\ mlock = Nobody
  BY SoundFacts DEF Activate, At
<1>2. f.to \in Threads /\ f.msg \in Message /\ f.kind \in {"post", "delay", "send"}
  BY <1>1, SoundFacts DEF QueuePc
<1>3. /\ queues' = queues \cup {f.to} /\ qlock' = [qlock EXCEPT ![f.to] = Nobody]
      /\ Enqueue(f.to, f.kind, f.msg) /\ Enqueued(t, f)
      /\ UNCHANGED <<fWait, fStop, active, mlock, ready, alive, calls>>
  BY DEF Activate
<1>4. /\ queues \subseteq Threads /\ qlock \in [Threads -> Threads \cup {Nobody}]
  BY DEF Sound, TypeOK
<1>5. /\ StackInv' /\ stack' \in [Threads -> Seq(Frame)]
      /\ \/ f.kind = "send" /\ Replaces(t, Sending("wake", f.msg.id, f.to, FALSE))
         \/ f.kind # "send" /\ Drops(t) /\ Top(t)'.pc = "run"
  BY <1>1, <1>3, EnqueuedEffect DEF QueuePc
<1>6. /\ msgq' \in [Threads -> Seq(Message)] /\ sendlist' \in [Threads -> Seq(Message)]
      /\ dmsgq' \in [Threads -> SUBSET Message] /\ \A v \in Threads : IsFiniteSet(dmsgq'[v])
      /\ has_sends' \subseteq Threads /\ signaled' \subseteq Threads
  BY <1>2, <1>3, EnqueueEffect
<1>7. queues' \subseteq Threads /\ qlock' \in [Threads -> Threads \cup {Nobody}]
  BY <1>2, <1>3, <1>4
<1>8. TypeOK'
  <2>1. /\ fWait' \subseteq Threads /\ fStop' \subseteq Threads /\ active' \subseteq Threads
        /\ mlock' \in Threads \cup {Nobody}
        /\ ready' \subseteq Nat \ {0} /\ alive' \subseteq Handlers /\ calls' \in Nat
    BY <1>3 DEF Sound, TypeOK
  <2>. QED
    BY <1>5, <1>6, <1>7, <2>1 DEF TypeOK
<1>. QED
  BY <1>1, <1>2, <1>3, <1>5, <1>8 DEF Sound

(* What Destroy does to the stacks and the types.                           *)
LEMMA DestroyEffect ==
  ASSUME Sound, NEW t \in Threads, NEW h \in Handlers, Destroy(t, h)
  PROVE  Sound' /\ Top(t).pc = "run" /\ Adds(t, Top(t), Destroying(h, queues))
<1>. DEFINE g == Destroying(h, queues)
<1>1. Top(t).pc = "run" /\ stack \in [Threads -> Seq(Frame)] /\ StackInv
  BY SoundFacts DEF Destroy, Calls, At
<1>2. g \in Frame
  BY FrameTypes DEF Sound, TypeOK
<1>3. Like(Top(t), Top(t)) /\ Calling(Top(t), g)
  BY <1>1 DEF Like, Calling, Destroying, LoopPc
<1>. HIDE DEF g
<1>4. Adds(t, Top(t), g)
  BY <1>1, <1>2, PushStack DEF Destroy, g
<1>5. StackInv' /\ stack' \in [Threads -> Seq(Frame)]
  BY <1>1, <1>3, <1>4, AddShape DEF Adds, Others
<1>6. TypeOK'
  BY <1>5 DEF Sound, TypeOK, Destroy, Calls, queue, event, registry
<1>. QED
  BY <1>1, <1>4, <1>5, <1>6 DEF Sound, g

(* What DestroyClear does to the stacks and the types.                      *)
LEMMA DestroyClearEffect ==
  ASSUME Sound, NEW t \in Threads, NEW u \in Threads, DestroyClear(t, u)
  PROVE  /\ Sound' /\ Top(t).pc = "destroy" /\ u \in Top(t).left /\ Free(u)
         /\ Top(t).h \in Handlers /\ ClearQueue(u, {Top(t).h})
         /\ Replaces(t, Destroying(Top(t).h, Top(t).left \ {u}))
<1>. DEFINE f == Destroying(Top(t).h, Top(t).left \ {u})
<1>1. /\ Top(t).pc = "destroy" /\ stack \in [Threads -> Seq(Frame)] /\ StackInv
      /\ u \in Top(t).left /\ Free(u) /\ ClearQueue(u, {Top(t).h})
  BY SoundFacts DEF DestroyClear, At
<1>2. Top(t) \in [pc : {"destroy"}, h : Handlers, left : SUBSET Threads]
  BY <1>1, SoundFacts DEF At
<1>3. Top(t).h \in Handlers /\ f \in Frame
  BY <1>2, FrameTypes
<1>4. [Top(t) EXCEPT !.left = @ \ {u}] = f
  <2>1. ASSUME NEW g \in [pc : {"destroy"}, h : Handlers, left : SUBSET Threads],
               NEW l \in SUBSET Threads
        PROVE  [g EXCEPT !.left = l] = Destroying(g.h, l)
    BY DEF Destroying
  <2>. QED
    BY <1>2, <2>1
<1>5. Like(f, Top(t))
  BY <1>1 DEF Like, Destroying, LoopPc
<1>. HIDE DEF f
<1>6. Replaces(t, f)
  BY <1>1, <1>3, <1>4, GotoStack DEF DestroyClear
<1>7. StackInv' /\ stack' \in [Threads -> Seq(Frame)]
  BY <1>1, <1>5, <1>6, ReplaceShape DEF Replaces, Others
<1>8. /\ msgq' \in [Threads -> Seq(Message)] /\ sendlist' \in [Threads -> Seq(Message)]
      /\ dmsgq' \in [Threads -> SUBSET Message] /\ \A v \in Threads : IsFiniteSet(dmsgq'[v])
      /\ has_sends' = has_sends /\ ready' \subseteq Nat \ {0} /\ signaled' \subseteq Threads
  <2>1. {Top(t).h} \in SUBSET Handlers
    BY <1>3
  <2>. QED
    BY <1>1, <2>1, ClearQueueEffect
<1>9. TypeOK'
  BY <1>7, <1>8 DEF Sound, TypeOK, DestroyClear, registry, locks
<1>. QED
  BY <1>1, <1>3, <1>6, <1>7, <1>9 DEF Sound, f

(* What Destroyed does to the stacks and the types.                         *)
LEMMA DestroyedEffect ==
  ASSUME Sound, NEW t \in Threads, Destroyed(t)
  PROVE  Sound' /\ Top(t).pc = "destroy" /\ Drops(t) /\ Top(t)'.pc = "run"
<1>1. Top(t).pc = "destroy" /\ Return(t)
  BY DEF Destroyed, At
<1>2. Drops(t) /\ Top(t)'.pc = "run" /\ StackInv' /\ stack' \in [Threads -> Seq(Frame)]
  BY <1>1, CallReturns DEF LoopPc
<1>3. TypeOK'
  BY <1>2 DEF Sound, TypeOK, Destroyed, queue, event, registry
<1>. QED
  BY <1>1, <1>2, <1>3 DEF Sound

(* What Stop does to the stacks and the types.                              *)
LEMMA StopEffect ==
  ASSUME Sound, NEW t \in Threads, NEW u \in Threads, Stop(t, u)
  PROVE  Sound' /\ Top(t).pc = "run" /\ Adds(t, Top(t), Joining("join", u))
<1>. DEFINE g == Joining("join", u)
<1>1. Top(t).pc = "run" /\ stack \in [Threads -> Seq(Frame)] /\ StackInv
  BY SoundFacts DEF Stop, Calls, At
<1>2. g \in Frame
  BY FrameTypes
<1>3. Like(Top(t), Top(t)) /\ Calling(Top(t), g)
  BY <1>1 DEF Like, Calling, Joining, LoopPc
<1>. HIDE DEF g
<1>4. Adds(t, Top(t), g)
  BY <1>1, <1>2, PushStack DEF Stop, g
<1>5. StackInv' /\ stack' \in [Threads -> Seq(Frame)]
  BY <1>1, <1>3, <1>4, AddShape DEF Adds, Others
<1>6. TypeOK'
  <2>1. fStop' \subseteq Threads /\ signaled' \subseteq Threads /\ calls' \in Nat
    BY DEF Sound, TypeOK, Stop, Calls
  <2>. QED
    BY <1>5, <2>1 DEF Sound, TypeOK, Stop, queue, registry, locks
<1>. QED
  BY <1>1, <1>4, <1>5, <1>6 DEF Sound, g

(* What Join does to the stacks and the types.                              *)
LEMMA JoinEffect ==
  ASSUME Sound, NEW t \in Threads, Join(t)
  PROVE  /\ Sound' /\ Top(t).pc = "join" /\ Top(t).to \in Threads
         /\ At(Top(t).to, "done") /\ ClearQueue(Top(t).to, Handlers)
         /\ Replaces(t, Joining("remove", Top(t).to))
<1>. DEFINE f == Joining("remove", Top(t).to)
<1>1. /\ Top(t).pc = "join" /\ stack \in [Threads -> Seq(Frame)] /\ StackInv
      /\ At(Top(t).to, "done") /\ ClearQueue(Top(t).to, Handlers) /\ Goto(t, f)
  BY SoundFacts DEF Join, At
<1>2. Top(t).to \in Threads
  BY <1>1, SoundFacts
<1>3. f \in Frame
  BY <1>2, FrameTypes
<1>4. Like(f, Top(t))
  BY <1>1 DEF Like, Joining, LoopPc
<1>. HIDE DEF f
<1>5. Replaces(t, f)
  BY <1>1, <1>3, GotoStack
<1>6. StackInv' /\ stack' \in [Threads -> Seq(Frame)]
  BY <1>1, <1>4, <1>5, ReplaceShape DEF Replaces, Others
<1>7. /\ msgq' \in [Threads -> Seq(Message)] /\ sendlist' \in [Threads -> Seq(Message)]
      /\ dmsgq' \in [Threads -> SUBSET Message] /\ \A v \in Threads : IsFiniteSet(dmsgq'[v])
      /\ has_sends' = has_sends /\ ready' \subseteq Nat \ {0} /\ signaled' \subseteq Threads
  BY <1>1, <1>2, ClearQueueEffect
<1>8. TypeOK'
  BY <1>6, <1>7 DEF Sound, TypeOK, Join, registry, locks
<1>. QED
  BY <1>1, <1>2, <1>5, <1>6, <1>8 DEF Sound, f

(* What RemoveQueue does to the stacks and the types.                       *)
LEMMA RemoveQueueEffect ==
  ASSUME Sound, NEW t \in Threads, RemoveQueue(t)
  PROVE  /\ Sound' /\ Top(t).pc = "remove" /\ Top(t).to \in Threads
         /\ Drops(t) /\ Top(t)'.pc = "run"
<1>1. Top(t).pc = "remove" /\ Return(t)
  BY DEF RemoveQueue, At
<1>2. Drops(t) /\ Top(t)'.pc = "run" /\ StackInv' /\ stack' \in [Threads -> Seq(Frame)]
  BY <1>1, CallReturns DEF LoopPc
<1>3. Top(t).to \in Threads
  BY <1>1, SoundFacts
<1>4. TypeOK'
  BY <1>2 DEF Sound, TypeOK, RemoveQueue, queue, event, locks
<1>. QED
  BY <1>1, <1>2, <1>3, <1>4 DEF Sound

-----------------------------------------------------------------------------
(* The locks.                                                               *)

(* The innermost calls after a step.                                        *)
LEMMA Tops ==
  ASSUME NEW t \in Threads, NEW f, NEW g
  PROVE  /\ Replaces(t, f) => Top(t)' = f /\ \A u \in Threads \ {t} : Top(u)' = Top(u)
         /\ Adds(t, f, g) => Top(t)' = g /\ \A u \in Threads \ {t} : Top(u)' = Top(u)
         /\ Drops(t) => \A u \in Threads \ {t} : Top(u)' = Top(u)
  BY DEF Replaces, Adds, Drops, Others

(* The steps that have nothing to do with the locks.                        *)
LEMMA LockQuiet ==
  ASSUME LockInv, NEW t \in Threads, UNCHANGED <<qlock, mlock, active, queues>>,
         fStop \subseteq fStop', \A u \in Threads \ {t} : Top(u)' = Top(u),
         Top(t).pc \notin {"activate", "destroy"}, Top(t)'.pc \notin {"activate", "destroy"}
  PROVE  LockInv'
<1>1. \A u \in Threads : Top(u)'.pc \in {"activate", "destroy"} \/ Top(u).pc \in {"activate", "destroy"}
        => Top(u)' = Top(u)
  OBVIOUS
<1>2. \A u \in Threads : /\ At(u, "activate")' <=> At(u, "activate")
                         /\ At(u, "destroy")' <=> At(u, "destroy")
  BY <1>1 DEF At
<1>. QED
  BY <1>1, <1>2 DEF LockInv, Free, At

(* No thread has the number that stands for nobody.                         *)
LEMMA ThreadIsSomebody == Nobody \notin Threads
  BY ThreadAssumption DEF Nobody

(* Lock keeps the locks in order.                                           *)
LEMMA LockLocks ==
  ASSUME Sound, LockInv, NEW t \in Threads, Lock(t)
  PROVE  LockInv'
<1>. DEFINE u == Top(t).to
<1>0. UNCHANGED <<fStop, queues, mlock>>
  BY DEF Lock
<1>1. /\ Top(t).pc = "queue" /\ Free(u) /\ active' = active \cup {u} /\ u \in Threads
      /\ qlock \in [Threads -> Threads \cup {Nobody}]
  BY LockEffect DEF Sound, TypeOK
<1>2. CASE u \notin active
  <2>. DEFINE f == Queueing("activate", Top(t).kind, Top(t).msg, u)
  <2>1. Replaces(t, f) /\ qlock' = [qlock EXCEPT ![u] = t]
    BY <1>2, LockEffect
  <2>2. /\ Top(t)'.pc = "activate" /\ Top(t)'.to = u /\ \A v \in Threads \ {t} : Top(v)' = Top(v)
    <3>1. f.pc = "activate" /\ f.to = u
      BY DEF Queueing
    <3>. HIDE DEF f
    <3>. QED
      BY <2>1, <3>1, Tops
  <2>3. qlock'[u] = t /\ \A v \in Threads \ {u} : qlock'[v] = qlock[v]
    BY <1>1, <2>1
  <2>4. \A v, w \in Threads : qlock'[w] = v => At(v, "activate")' /\ Top(v)'.to = w /\ w \notin queues'
    <3>1. ASSUME NEW v \in Threads, NEW w \in Threads, qlock'[w] = v
          PROVE  At(v, "activate")' /\ Top(v)'.to = w /\ w \notin queues'
      <4>1. CASE w = u
        BY <1>0, <1>2, <2>2, <2>3, <3>1, <4>1 DEF LockInv, At
      <4>2. CASE w # u
        <5>1. At(v, "activate") /\ Top(v).to = w /\ w \notin queues
          BY <2>3, <3>1, <4>2 DEF LockInv
        <5>. QED
          BY <1>0, <1>1, <2>2, <5>1 DEF At
      <4>. QED
        BY <4>1, <4>2
    <3>. QED
      BY <3>1
  <2>5. \A v \in Threads : At(v, "activate")' => qlock'[Top(v)'.to] = v /\ Top(v)'.to \in active'
    <3>1. ASSUME NEW v \in Threads, At(v, "activate"), v # t
          PROVE  qlock'[Top(v).to] = v /\ Top(v).to \in active'
      <4>1. qlock[Top(v).to] = v /\ Top(v).to \in active /\ Top(v).to \in Threads
        <5>1. Top(v).to \in Threads
          BY <3>1, SoundFacts DEF At, QueuePc
        <5>. QED
          BY <3>1, <5>1 DEF LockInv
      <4>2. Top(v).to # u
        BY <1>1, <4>1, ThreadIsSomebody DEF Free
      <4>. QED
        BY <1>1, <2>3, <4>1, <4>2
    <3>. QED
      BY <1>1, <2>2, <2>3, <3>1 DEF At
  <2>6. \A v \in Threads : At(v, "destroy")' <=> At(v, "destroy")
    BY <1>1, <2>2 DEF At
  <2>7. \A v \in Threads : At(v, "destroy")' => Top(v)' = Top(v)
    BY <2>2 DEF At
  <2>8. \A w \in active' \ queues' : w \in fStop' \/ ~Free(w)'
    <3>. SUFFICES ASSUME NEW w \in active' \ queues', w \notin fStop' PROVE ~Free(w)'
      OBVIOUS
    <3>1. CASE w = u
      BY <2>3, <3>1, ThreadIsSomebody DEF Free
    <3>2. CASE w # u
      <4>1. w \in active \ queues /\ w \in Threads
        BY <1>0, <1>1, <3>2 DEF Sound, TypeOK
      <4>2. ~Free(w)
        BY <1>0, <4>1 DEF LockInv
      <4>. QED
        BY <2>3, <3>2, <4>1, <4>2 DEF Free
    <3>. QED
      BY <3>1, <3>2
  <2>. QED
    BY <1>0, <1>1, <2>4, <2>5, <2>6, <2>7, <2>8 DEF LockInv
<1>3. CASE u \in active
  <2>. DEFINE f == Sending("wake", Top(t).msg.id, u, FALSE)
  <2>1. /\ qlock' = qlock
        /\ \/ Top(t).kind = "send" /\ Replaces(t, f)
           \/ Top(t).kind # "send" /\ Drops(t) /\ Top(t)'.pc = "run"
    BY <1>3, LockEffect, Zenon
  <2>2. f.pc = "wake"
    BY DEF Sending
  <2>. HIDE DEF f
  <2>3. Top(t)'.pc \in {"wake", "run"} /\ \A v \in Threads \ {t} : Top(v)' = Top(v)
    BY <2>1, <2>2, Tops
  <2>4. active' = active
    BY <1>1, <1>3
  <2>. QED
    BY <1>0, <1>1, <2>1, <2>3, <2>4, LockQuiet
<1>. QED
  BY <1>2, <1>3

(* Activate keeps the locks in order.                                       *)
LEMMA ActivateLocks ==
  ASSUME Sound, LockInv, NEW t \in Threads, Activate(t)
  PROVE  LockInv'
<1>. DEFINE u == Top(t).to
            f == Sending("wake", Top(t).msg.id, u, FALSE)
<1>0. /\ UNCHANGED <<fStop, active, mlock>> /\ queues' = queues \cup {u}
      /\ qlock' = [qlock EXCEPT ![u] = Nobody]
  BY DEF Activate
<1>1. /\ Top(t).pc = "activate" /\ u \in Threads /\ mlock = Nobody
      /\ qlock \in [Threads -> Threads \cup {Nobody}]
      /\ Replaces(t, f) \/ (Drops(t) /\ Top(t)'.pc = "run")
  <2>1. \/ Top(t).kind = "send" /\ Replaces(t, f)
        \/ Top(t).kind # "send" /\ Drops(t) /\ Top(t)'.pc = "run"
    BY ActivateEffect, Zenon
  <2>2. Top(t).pc = "activate" /\ u \in Threads /\ mlock = Nobody
    BY ActivateEffect
  <2>3. qlock \in [Threads -> Threads \cup {Nobody}]
    BY DEF Sound, TypeOK
  <2>. HIDE DEF f
  <2>. QED
    BY <2>1, <2>2, <2>3
<1>2. qlock[u] = t /\ u \in active
  BY <1>1 DEF LockInv, At
<1>3. Top(t)'.pc \in {"wake", "run"} /\ \A v \in Threads \ {t} : Top(v)' = Top(v)
  <2>1. f.pc = "wake"
    BY DEF Sending
  <2>. HIDE DEF f
  <2>. QED
    BY <1>1, <2>1, Tops
<1>4. qlock'[u] = Nobody /\ \A v \in Threads \ {u} : qlock'[v] = qlock[v]
  BY <1>0, <1>1
<1>5. ASSUME NEW v \in Threads, NEW w \in Threads, qlock'[w] = v
      PROVE  At(v, "activate")' /\ Top(v)'.to = w /\ w \notin queues'
  <2>1. w # u
    BY <1>4, <1>5, ThreadIsSomebody
  <2>2. At(v, "activate") /\ Top(v).to = w /\ w \notin queues
    BY <1>4, <1>5, <2>1 DEF LockInv
  <2>3. v # t
    BY <2>1, <2>2
  <2>. QED
    BY <1>0, <1>3, <2>1, <2>2, <2>3 DEF At
<1>6. ASSUME NEW v \in Threads, At(v, "activate")'
      PROVE  qlock'[Top(v)'.to] = v /\ Top(v)'.to \in active'
  <2>1. v # t /\ Top(v)' = Top(v) /\ At(v, "activate")
    BY <1>3, <1>6 DEF At
  <2>2. Top(v).to \in Threads
    BY <2>1, SoundFacts DEF At, QueuePc
  <2>3. qlock[Top(v).to] = v /\ Top(v).to \in active
    BY <2>1 DEF LockInv
  <2>4. Top(v).to # u
    BY <1>2, <2>1, <2>3
  <2>. QED
    BY <1>0, <1>4, <2>1, <2>2, <2>3, <2>4
<1>7. \A v \in Threads : ~At(v, "destroy") /\ ~At(v, "destroy")'
  <2>1. \A v \in Threads : ~At(v, "destroy")
    BY <1>1, ThreadIsSomebody DEF LockInv
  <2>. QED
    BY <1>3, <2>1 DEF At
<1>8. \A v \in Threads : mlock' = v <=> At(v, "destroy")'
  BY <1>0, <1>1, <1>7, ThreadIsSomebody
<1>9. queues' \subseteq active'
  BY <1>0, <1>2 DEF LockInv
<1>10. ASSUME NEW w \in active' \ queues', w \notin fStop' PROVE ~Free(w)'
  <2>1. w \in active \ queues /\ w \in Threads /\ w # u
    BY <1>0, <1>10 DEF Sound, TypeOK
  <2>2. ~Free(w)
    BY <1>0, <1>10, <2>1 DEF LockInv
  <2>. QED
    BY <1>4, <2>1, <2>2 DEF Free
<1>. QED
  BY <1>5, <1>6, <1>7, <1>8, <1>9, <1>10 DEF LockInv

(* Destroy keeps the locks in order.                                        *)
LEMMA DestroyLocks ==
  ASSUME Sound, LockInv, NEW t \in Threads, NEW h \in Handlers, Destroy(t, h)
  PROVE  LockInv'
<1>0. UNCHANGED <<fStop, active, queues, qlock>> /\ mlock = Nobody /\ mlock' = t
  BY DEF Destroy, registry
<1>1. Top(t).pc = "run" /\ Adds(t, Top(t), Destroying(h, queues))
  BY DestroyEffect
<1>2. /\ Top(t)'.pc = "destroy" /\ Top(t)'.left = queues
      /\ \A v \in Threads \ {t} : Top(v)' = Top(v)
  <2>1. Destroying(h, queues).pc = "destroy" /\ Destroying(h, queues).left = queues
    BY DEF Destroying
  <2>. QED
    BY <1>1, <2>1, Tops
<1>3. \A v \in Threads : At(v, "activate")' <=> At(v, "activate")
  BY <1>1, <1>2 DEF At
<1>4. \A v \in Threads : At(v, "activate") => Top(v)' = Top(v)
  BY <1>1, <1>2 DEF At
<1>5. \A v \in Threads : At(v, "destroy")' <=> v = t
  BY <1>0, <1>2, ThreadIsSomebody DEF LockInv, At
<1>. QED
  BY <1>0, <1>2, <1>3, <1>4, <1>5 DEF LockInv, Free

(* DestroyClear keeps the locks in order.                                   *)
LEMMA DestroyClearLocks ==
  ASSUME Sound, LockInv, NEW t \in Threads, NEW u \in Threads, DestroyClear(t, u)
  PROVE  LockInv'
<1>0. UNCHANGED <<fStop, active, queues, qlock, mlock>>
  BY DEF DestroyClear, registry, locks
<1>. DEFINE f == Destroying(Top(t).h, Top(t).left \ {u})
<1>1. Top(t).pc = "destroy" /\ Replaces(t, f)
  BY DestroyClearEffect
<1>2. /\ Top(t)'.pc = "destroy" /\ Top(t)'.left \subseteq Top(t).left
      /\ \A v \in Threads \ {t} : Top(v)' = Top(v)
  <2>1. f.pc = "destroy" /\ f.left \subseteq Top(t).left
    BY DEF Destroying
  <2>. HIDE DEF f
  <2>. QED
    BY <1>1, <2>1, Tops
<1>3. \A v \in Threads : /\ At(v, "activate")' <=> At(v, "activate")
                         /\ At(v, "destroy")' <=> At(v, "destroy")
  BY <1>1, <1>2 DEF At
<1>4. \A v \in Threads : At(v, "activate") => Top(v)' = Top(v)
  BY <1>1, <1>2 DEF At
<1>5. \A v \in Threads : Top(v)'.left \subseteq Top(v).left \/ Top(v)' = Top(v)
  BY <1>2
<1>. QED
  BY <1>0, <1>3, <1>4, <1>5 DEF LockInv, Free

(* Destroyed keeps the locks in order.                                      *)
LEMMA DestroyedLocks ==
  ASSUME Sound, LockInv, NEW t \in Threads, Destroyed(t)
  PROVE  LockInv'
<1>0. UNCHANGED <<fStop, active, queues, qlock>> /\ mlock' = Nobody
  BY DEF Destroyed, registry
<1>1. Top(t).pc = "destroy" /\ Drops(t) /\ Top(t)'.pc = "run"
  BY DestroyedEffect
<1>2. \A v \in Threads \ {t} : Top(v)' = Top(v)
  BY <1>1, Tops
<1>3. \A v \in Threads : At(v, "activate")' <=> At(v, "activate")
  BY <1>1, <1>2 DEF At
<1>4. \A v \in Threads : At(v, "activate") => Top(v)' = Top(v)
  BY <1>1, <1>2 DEF At
<1>5. \A v \in Threads : ~At(v, "destroy")'
  <2>1. mlock = t
    BY <1>1 DEF LockInv, At
  <2>. QED
    BY <1>1, <1>2, <2>1 DEF LockInv, At
<1>. QED
  BY <1>0, <1>3, <1>4, <1>5, ThreadIsSomebody DEF LockInv, Free

(* RemoveQueue keeps the locks in order.                                    *)
LEMMA RemoveQueueLocks ==
  ASSUME Sound, LockInv, StopInv, NEW t \in Threads, RemoveQueue(t)
  PROVE  LockInv'
<1>0. UNCHANGED <<fStop, active, mlock, qlock>> /\ queues' = queues \ {Top(t).to} /\ mlock = Nobody
  BY DEF RemoveQueue, locks
<1>1. Top(t).pc = "remove" /\ Drops(t) /\ Top(t)'.pc = "run"
  BY RemoveQueueEffect
<1>2. \A v \in Threads \ {t} : Top(v)' = Top(v)
  BY <1>1, Tops
<1>3. \A v \in Threads : At(v, "activate")' <=> At(v, "activate")
  BY <1>1, <1>2 DEF At
<1>4. \A v \in Threads : At(v, "activate") => Top(v)' = Top(v)
  BY <1>1, <1>2 DEF At
<1>5. \A v \in Threads : ~At(v, "destroy")'
  <2>1. \A v \in Threads : ~At(v, "destroy")
    BY <1>0, ThreadIsSomebody DEF LockInv
  <2>. QED
    BY <1>1, <1>2, <2>1 DEF At
<1>6. Top(t).to \in fStop
  BY <1>1 DEF StopInv
<1>. QED
  BY <1>0, <1>3, <1>4, <1>5, <1>6, ThreadIsSomebody DEF LockInv, Free

-----------------------------------------------------------------------------
(* The steps that leave the locks, the handlers and the registry alone.     *)

Plain(t) ==
  /\ UNCHANGED <<qlock, mlock, active, queues, fStop, alive>>
  /\ \A v \in Threads : Pending(v)' \subseteq Pending(v)
  /\ \A u \in Threads \ {t} : Top(u)' = Top(u)
  /\ Top(t).pc \notin {"queue", "activate", "destroy", "join", "remove"}
  /\ Top(t)'.pc \notin {"activate", "destroy", "join", "remove"}
  /\ Top(t)'.pc = "queue" =>
       /\ Top(t)'.msg.h \in alive /\ Owner[Top(t)'.msg.h] = Top(t)'.to
       /\ Top(t)'.to \notin fStop /\ Top(t)'.msg.thread = t
  /\ Top(t)'.pc = "done" => t \in fStop

(* What is pending depends on the queues only.                              *)
LEMMA SameQueues ==
  ASSUME UNCHANGED queue
  PROVE  \A v \in Threads : Pending(v)' = Pending(v)
  BY DEF queue, Pending

(* GetSends is plain.                                                       *)
LEMMA PlainGetSends ==
  ASSUME Sound, NEW t \in Threads, GetSends(t)
  PROVE  Plain(t)
<1>1. \/ Replaces(t, Loop("check", FALSE))
      \/ Adds(t, Loop("check", FALSE), Receiving(NoMessage))
  BY GetSendsEffect
<1>2. Loop("check", FALSE).pc = "check" /\ Receiving(NoMessage).pc = "recv"
  BY DEF Loop, Receiving
<1>3. Top(t)'.pc \in {"check", "recv"} /\ \A u \in Threads \ {t} : Top(u)' = Top(u)
  BY <1>1, <1>2, Tops
<1>4. Top(t).pc = "get" /\ UNCHANGED <<qlock, mlock, active, queues, fStop, alive>> /\ UNCHANGED queue
  BY DEF GetSends, At, registry, locks
<1>. QED
  BY <1>3, <1>4, SameQueues DEF Plain

(* GetEmpty is plain.                                                       *)
LEMMA PlainGetEmpty ==
  ASSUME Sound, NEW t \in Threads, GetEmpty(t)
  PROVE  Plain(t)
<1>1. \/ Replaces(t, Loop("done", FALSE)) /\ t \in fStop
      \/ Replaces(t, Loop("wait", Top(t).timer))
  BY GetEmptyEffect
<1>2. Loop("done", FALSE).pc = "done" /\ Loop("wait", Top(t).timer).pc = "wait"
  BY DEF Loop
<1>3. /\ Top(t)'.pc = "wait" \/ (Top(t)'.pc = "done" /\ t \in fStop)
      /\ \A u \in Threads \ {t} : Top(u)' = Top(u)
  BY <1>1, <1>2, Tops
<1>4. Top(t).pc = "empty" /\ UNCHANGED <<qlock, mlock, active, queues, fStop, alive>> /\ UNCHANGED queue
  BY DEF GetEmpty, At, registry, locks
<1>. QED
  BY <1>3, <1>4, SameQueues DEF Plain

(* Wait is plain.                                                           *)
LEMMA PlainWait ==
  ASSUME Sound, NEW t \in Threads, Wait(t)
  PROVE  Plain(t)
<1>1. Replaces(t, Loop("get", FALSE))
  BY WaitEffect
<1>2. Loop("get", FALSE).pc = "get"
  BY DEF Loop
<1>3. Top(t)'.pc = "get" /\ \A u \in Threads \ {t} : Top(u)' = Top(u)
  BY <1>1, <1>2, Tops
<1>4. Top(t).pc = "wait" /\ UNCHANGED <<qlock, mlock, active, queues, fStop, alive>> /\ UNCHANGED queue
  BY DEF Wait, At, registry, locks
<1>. QED
  BY <1>3, <1>4, SameQueues DEF Plain

(* SocketEvent is plain.                                                    *)
LEMMA PlainSocketEvent ==
  ASSUME Sound, NEW t \in Threads, SocketEvent(t)
  PROVE  Plain(t)
<1>1. Adds(t, Top(t), Running(Main))
  BY SocketEventEffect
<1>2. Running(Main).pc = "run"
  BY DEF Running
<1>3. Top(t)'.pc = "run" /\ \A u \in Threads \ {t} : Top(u)' = Top(u)
  BY <1>1, <1>2, Tops
<1>4. Top(t).pc = "wait" /\ UNCHANGED <<qlock, mlock, active, queues, fStop, alive>> /\ UNCHANGED queue
  BY DEF SocketEvent, At, registry, locks
<1>. QED
  BY <1>3, <1>4, SameQueues DEF Plain

(* HandlerReturns is plain.                                                 *)
LEMMA PlainHandlerReturns ==
  ASSUME Sound, NEW t \in Threads, HandlerReturns(t)
  PROVE  Plain(t)
<1>1. Drops(t) /\ Top(t)'.pc \in {"get", "wait", "recv", "run"}
  BY HandlerReturnsEffect
<1>2. \A u \in Threads \ {t} : Top(u)' = Top(u)
  BY <1>1, Tops
<1>3. Top(t).pc = "run" /\ UNCHANGED <<qlock, mlock, active, queues, fStop, alive>> /\ UNCHANGED queue
  BY DEF HandlerReturns, At, registry, locks
<1>. QED
  BY <1>1, <1>2, <1>3, SameQueues DEF Plain

(* GetMessage is plain.                                                     *)
LEMMA PlainGetMessage ==
  ASSUME Sound, NEW t \in Threads, NEW due \in SUBSET dmsgq[t], GetMessage(t, due)
  PROVE  Plain(t)
<1>. DEFINE b == dmsgq[t] # {}
<1>1. /\ Replaces(t, Loop("empty", b)) \/ \E h \in Handlers : Adds(t, Loop("get", FALSE), Running(h))
      /\ At(t, "check") /\ Pending(t)' \subseteq Pending(t)
      /\ \A v \in Threads \ {t} : msgq'[v] = msgq[v] /\ dmsgq'[v] = dmsgq[v]
  <2>1. Replaces(t, Loop("empty", b)) \/ \E h \in Handlers : Adds(t, Loop("get", FALSE), Running(h))
    BY GetMessageEffect, Zenon
  <2>. HIDE DEF b
  <2>. QED
    BY <2>1, GetMessageEffect
<1>. HIDE DEF b
<1>2. Loop("empty", b).pc = "empty" /\ \A h \in Handlers : Running(h).pc = "run"
  BY DEF Loop, Running
<1>3. Top(t)'.pc \in {"empty", "run"} /\ \A u \in Threads \ {t} : Top(u)' = Top(u)
  BY <1>1, <1>2, Tops
<1>4. /\ UNCHANGED <<qlock, mlock, active, queues, fStop, alive>> /\ sendlist' = sendlist
  BY DEF GetMessage, registry, locks
<1>5. \A v \in Threads : Pending(v)' \subseteq Pending(v)
  BY <1>1, <1>4 DEF Pending
<1>. QED
  BY <1>1, <1>3, <1>4, <1>5 DEF Plain, At

(* ReceiveSends is plain.                                                   *)
LEMMA PlainReceiveSends ==
  ASSUME Sound, NEW t \in Threads, ReceiveSends(t)
  PROVE  Plain(t)
<1>. DEFINE n == Head(sendlist[t])
<1>1. /\ Top(t).pc = "recv"
      /\ \A v \in Threads \ {t} : sendlist'[v] = sendlist[v]
      /\ ToSet(sendlist'[t]) \subseteq ToSet(sendlist[t])
      /\ \/ Drops(t) /\ Top(t)'.pc \in {"check", "swait"}
         \/ Adds(t, Receiving(n), Running(n.h))
  BY ReceiveSendsEffect
<1>2. Running(n.h).pc = "run"
  BY DEF Running
<1>3. Top(t)'.pc \in {"check", "swait", "run"} /\ \A u \in Threads \ {t} : Top(u)' = Top(u)
  BY <1>1, <1>2, Tops
<1>4. /\ UNCHANGED <<qlock, mlock, active, queues, fStop, alive>> /\ UNCHANGED <<msgq, dmsgq>>
  BY DEF ReceiveSends, registry, locks
<1>5. \A v \in Threads : Pending(v)' \subseteq Pending(v)
  BY <1>1, <1>4 DEF Pending
<1>. QED
  BY <1>1, <1>3, <1>4, <1>5 DEF Plain

(* Submit is plain.                                                         *)
LEMMA PlainSubmit ==
  ASSUME Sound, NEW t \in Threads, NEW h \in Handlers, NEW kind \in {"post", "delay", "send"},
         Submit(t, h, kind)
  PROVE  Plain(t)
<1>. DEFINE u == Owner[h]
            m == [id |-> calls + 1, h |-> h, thread |-> t]
            f == Queueing("queue", kind, m, u)
<1>1. /\ Top(t).pc = "run" /\ h \in alive
      /\ \/ stack' = stack
         \/ Adds(t, Top(t), Running(h))
         \/ u \notin fStop /\ Adds(t, Top(t), f)
  BY SubmitEffect
<1>2. /\ f.pc = "queue" /\ f.msg.h = h /\ f.to = u /\ f.msg.thread = t
      /\ Running(h).pc = "run"
  BY DEF Queueing, Running
<1>. HIDE DEF f
<1>3. /\ UNCHANGED <<qlock, mlock, active, queues, fStop, alive>> /\ UNCHANGED queue
  BY DEF Submit, registry, locks
<1>4. CASE stack' = stack
  <2>1. \A v \in Threads : Top(v)' = Top(v)
    BY <1>4 DEF Top
  <2>. QED
    BY <1>1, <1>3, <2>1, SameQueues DEF Plain
<1>5. CASE Adds(t, Top(t), Running(h))
  <2>1. Top(t)'.pc = "run" /\ \A v \in Threads \ {t} : Top(v)' = Top(v)
    BY <1>2, <1>5, Tops
  <2>. QED
    BY <1>1, <1>3, <2>1, SameQueues DEF Plain
<1>6. CASE u \notin fStop /\ Adds(t, Top(t), f)
  <2>1. Top(t)' = f /\ \A v \in Threads \ {t} : Top(v)' = Top(v)
    BY <1>6, Tops
  <2>. QED
    BY <1>1, <1>2, <1>3, <1>6, <2>1, SameQueues DEF Plain
<1>. QED
  BY <1>1, <1>4, <1>5, <1>6

(* So are the steps of Send after its message is listed.                    *)
LEMMA PlainSend ==
  ASSUME Sound, NEW t \in Threads, SendWakeUp(t) \/ SendLoop(t) \/ SendWait(t)
  PROVE  Plain(t)
<1>. DEFINE f == Sending("loop", Top(t).id, Top(t).to, Top(t).waited)
            g == Sending("swait", Top(t).id, Top(t).to, TRUE)
<1>0. f.pc = "loop" /\ g.pc = "swait" /\ Receiving(NoMessage).pc = "recv"
  BY DEF Sending, Receiving
<1>1. ASSUME SendLoop(t)
      PROVE  \/ Drops(t) /\ Top(t)'.pc = "run"
             \/ Replaces(t, g)
             \/ Adds(t, g, Receiving(NoMessage))
  BY <1>1, SendLoopEffect, Zenon
<1>2. \/ Replaces(t, f)
      \/ Drops(t) /\ Top(t)'.pc = "run"
      \/ Replaces(t, g)
      \/ Adds(t, g, Receiving(NoMessage))
  <2>. HIDE DEF g
  <2>. QED
    BY <1>1, SendWakeUpEffect, SendWaitEffect
<1>. HIDE DEF f, g
<1>3. Top(t)'.pc \in {"loop", "swait", "recv", "run"} /\ \A u \in Threads \ {t} : Top(u)' = Top(u)
  BY <1>0, <1>2, Tops
<1>4. /\ Top(t).pc \in {"wake", "loop", "swait"}
      /\ UNCHANGED <<qlock, mlock, active, queues, fStop, alive>> /\ UNCHANGED queue
  BY DEF SendWakeUp, SendLoop, SendWait, At, registry, locks
<1>. QED
  BY <1>3, <1>4, SameQueues DEF Plain

(* They keep the invariants of the locks, the handlers and the threads that *)
(* were stopped.                                                            *)
LEMMA PlainKeeps ==
  ASSUME Sound, LockInv, HandlerInv, StopInv, NEW t \in Threads, Plain(t)
  PROVE  LockInv' /\ HandlerInv' /\ StopInv'
<1>1. /\ UNCHANGED <<qlock, mlock, active, queues, fStop, alive>>
      /\ \A v \in Threads : Pending(v)' \subseteq Pending(v)
      /\ \A u \in Threads \ {t} : Top(u)' = Top(u)
      /\ Top(t).pc \notin {"queue", "activate", "destroy", "join", "remove"}
      /\ Top(t)'.pc \notin {"activate", "destroy", "join", "remove"}
      /\ Top(t)'.pc = "queue" =>
           /\ Top(t)'.msg.h \in alive /\ Owner[Top(t)'.msg.h] = Top(t)'.to
           /\ Top(t)'.to \notin fStop /\ Top(t)'.msg.thread = t
      /\ Top(t)'.pc = "done" => t \in fStop
  BY DEF Plain
<1>2. LockInv'
  BY <1>1, LockQuiet
<1>3. HandlerInv'
  <2>1. ASSUME NEW v \in Threads, Top(v)'.pc \in QueuePc
        PROVE  /\ Top(v)'.msg.h \in alive' /\ Owner[Top(v)'.msg.h] = Top(v)'.to
               /\ Top(v)'.to \notin fStop' /\ Top(v)'.msg.thread = v
    <3>1. CASE v = t
      BY <1>1, <2>1, <3>1 DEF QueuePc
    <3>2. CASE v # t
      BY <1>1, <2>1, <3>2 DEF HandlerInv
    <3>. QED
      BY <3>1, <3>2
  <2>2. ASSUME NEW v \in Threads, NEW m \in Pending(v)'
        PROVE  /\ v \in queues' /\ Owner[m.h] = v
               /\ m.h \in alive' \/ \E w \in Threads : At(w, "destroy")' /\ Top(w)'.h = m.h
                                                       /\ v \in Top(w)'.left
    <3>1. m \in Pending(v)
      BY <1>1
    <3>2. /\ v \in queues /\ Owner[m.h] = v
          /\ m.h \in alive \/ \E w \in Threads : At(w, "destroy") /\ Top(w).h = m.h
                                                  /\ v \in Top(w).left
      BY <3>1 DEF HandlerInv
    <3>3. \A w \in Threads : At(w, "destroy") => Top(w)' = Top(w) /\ At(w, "destroy")'
      BY <1>1 DEF At
    <3>. QED
      BY <1>1, <3>2, <3>3
  <2>. QED
    BY <2>1, <2>2 DEF HandlerInv
<1>4. StopInv'
  <2>1. ASSUME NEW v \in Threads, Top(v)'.pc \in {"join", "remove"}
        PROVE  v = 1 /\ Top(v)'.to \in fStop' \ {1}
    BY <1>1, <2>1 DEF StopInv
  <2>2. ASSUME NEW u \in fStop' PROVE (At(1, "join")' /\ Top(1)'.to = u) \/ Pending(u)' = {}
    <3>0. u \in Threads /\ 1 \in Threads
      BY <1>1, ThreadAssumption DEF Sound, TypeOK
    <3>1. CASE Pending(u) = {}
      BY <1>1, <3>0, <3>1
    <3>2. CASE At(1, "join") /\ Top(1).to = u
      BY <1>1, <3>0, <3>2 DEF At
    <3>. QED
      BY <1>1, <3>1, <3>2 DEF StopInv
  <2>3. \A v \in Threads : At(v, "done")' => v \in fStop'
    BY <1>1 DEF StopInv, At
  <2>. QED
    BY <1>1, <2>1, <2>2, <2>3 DEF StopInv
<1>. QED
  BY <1>2, <1>3, <1>4

-----------------------------------------------------------------------------
(* The other steps keep them as well.                                       *)

(* A message joins a queue that is in the manager's list.                   *)
LEMMA EnqueueKeeps ==
  ASSUME Sound, HandlerInv, StopInv, NEW t \in Threads, Top(t).pc \in QueuePc,
         Enqueue(Top(t).to, Top(t).kind, Top(t).msg), Top(t).to \in queues',
         queues \subseteq queues', UNCHANGED <<alive, fStop>>, Top(t)'.pc \in {"wake", "run"},
         \A v \in Threads \ {t} : Top(v)' = Top(v)
  PROVE  HandlerInv' /\ StopInv'
<1>0. Top(t).to \in Threads /\ Top(t).msg \in Message /\ Top(t).kind \in {"post", "delay", "send"}
  BY SoundFacts
<1>. PICK u \in Threads, m \in Message, kind \in {"post", "delay", "send"} :
       u = Top(t).to /\ m = Top(t).msg /\ kind = Top(t).kind
  BY <1>0
<1>1. m.h \in alive /\ Owner[m.h] = u /\ u \notin fStop /\ Enqueue(u, kind, m) /\ u \in queues'
  BY DEF HandlerInv
<1>2. \A v \in Threads : \A n \in Pending(v)' : n \in Pending(v) \/ (v = u /\ n = m)
  <2>1. Pending(u)' = Pending(u) \cup {m}
    BY <1>1, EnqueueEffect
  <2>2. \A v \in Threads \ {u} : /\ msgq'[v] = msgq[v] /\ dmsgq'[v] = dmsgq[v]
                                 /\ sendlist'[v] = sendlist[v]
    BY <1>1, EnqueueEffect
  <2>. QED
    BY <2>1, <2>2 DEF Pending
<1>3. HandlerInv'
  <2>1. ASSUME NEW v \in Threads, Top(v)'.pc \in QueuePc
        PROVE  /\ Top(v)'.msg.h \in alive' /\ Owner[Top(v)'.msg.h] = Top(v)'.to
               /\ Top(v)'.to \notin fStop' /\ Top(v)'.msg.thread = v
    <3>1. v # t
      BY <2>1 DEF QueuePc
    <3>. QED
      BY <2>1, <3>1 DEF HandlerInv
  <2>2. ASSUME NEW v \in Threads, NEW n \in Pending(v)'
        PROVE  /\ v \in queues' /\ Owner[n.h] = v
               /\ n.h \in alive' \/ \E w \in Threads : At(w, "destroy")' /\ Top(w)'.h = n.h
                                                       /\ v \in Top(w)'.left
    <3>1. CASE n \in Pending(v)
      <4>1. /\ v \in queues /\ Owner[n.h] = v
            /\ n.h \in alive \/ \E w \in Threads : At(w, "destroy") /\ Top(w).h = n.h
                                                    /\ v \in Top(w).left
        BY <3>1 DEF HandlerInv
      <4>2. \A w \in Threads : At(w, "destroy") => Top(w)' = Top(w) /\ At(w, "destroy")'
        BY DEF At, QueuePc
      <4>. QED
        BY <4>1, <4>2
    <3>2. CASE n \notin Pending(v)
      <4>1. v = u /\ n = m
        BY <1>2, <2>2, <3>2
      <4>. QED
        BY <1>1, <4>1
    <3>. QED
      BY <3>1, <3>2
  <2>. QED
    BY <2>1, <2>2 DEF HandlerInv
<1>4. StopInv'
  <2>0. 1 \in Threads /\ fStop \subseteq Threads
    BY ThreadAssumption DEF Sound, TypeOK
  <2>1. ASSUME NEW v \in Threads, Top(v)'.pc \in {"join", "remove"}
        PROVE  v = 1 /\ Top(v)'.to \in fStop' \ {1}
    BY <2>1 DEF StopInv
  <2>2. ASSUME NEW w \in fStop' PROVE (At(1, "join")' /\ Top(1)'.to = w) \/ Pending(w)' = {}
    <3>1. w \in Threads /\ w # u /\ w \in fStop
      BY <1>1, <2>0
    <3>2. CASE Pending(w) = {}
      BY <1>2, <3>1, <3>2
    <3>3. CASE At(1, "join") /\ Top(1).to = w
      BY <2>0, <3>3 DEF At, QueuePc
    <3>. QED
      BY <3>1, <3>2, <3>3 DEF StopInv
  <2>3. \A v \in Threads : At(v, "done")' => v \in fStop'
    BY DEF StopInv, At
  <2>. QED
    BY <2>1, <2>2, <2>3 DEF StopInv
<1>. QED
  BY <1>3, <1>4

(* Lock keeps the handlers and the stopped threads in order.                *)
LEMMA LockKeeps ==
  ASSUME Sound, LockInv, HandlerInv, StopInv, NEW t \in Threads, Lock(t)
  PROVE  HandlerInv' /\ StopInv'
<1>. DEFINE u == Top(t).to
            f == Queueing("activate", Top(t).kind, Top(t).msg, u)
            g == Sending("wake", Top(t).msg.id, u, FALSE)
<1>0. UNCHANGED <<fStop, queues, mlock, alive>>
  BY DEF Lock
<1>1. Top(t).pc = "queue" /\ Free(u) /\ u \in Threads
  BY LockEffect
<1>2. u \notin fStop
  BY <1>1 DEF HandlerInv, QueuePc
<1>3. CASE u \notin active
  <2>1. Replaces(t, f) /\ UNCHANGED queue
    BY <1>3, LockEffect
  <2>2. f.pc = "activate" /\ f.to = u /\ f.msg = Top(t).msg
    BY DEF Queueing
  <2>. HIDE DEF f
  <2>3. Top(t)' = f /\ \A v \in Threads \ {t} : Top(v)' = Top(v)
    BY <2>1, Tops
  <2>4. \A v \in Threads : Pending(v)' = Pending(v)
    BY <2>1, SameQueues
  <2>5. HandlerInv'
    <3>1. ASSUME NEW v \in Threads, Top(v)'.pc \in QueuePc
          PROVE  /\ Top(v)'.msg.h \in alive' /\ Owner[Top(v)'.msg.h] = Top(v)'.to
                 /\ Top(v)'.to \notin fStop' /\ Top(v)'.msg.thread = v
      <4>1. Top(v).pc \in QueuePc /\ Top(v)'.msg = Top(v).msg /\ Top(v)'.to = Top(v).to
        BY <1>1, <2>2, <2>3, <3>1 DEF QueuePc
      <4>. QED
        BY <1>0, <4>1 DEF HandlerInv
    <3>2. \A w \in Threads : At(w, "destroy") => Top(w)' = Top(w) /\ At(w, "destroy")'
      BY <1>1, <2>3 DEF At
    <3>. QED
      BY <1>0, <2>4, <3>1, <3>2 DEF HandlerInv
  <2>6. StopInv'
    <3>1. \A v \in Threads : Top(v)'.pc \in {"join", "remove", "done"} <=> Top(v).pc \in {"join", "remove", "done"}
      BY <1>1, <2>2, <2>3
    <3>2. \A v \in Threads : Top(v)'.pc \in {"join", "remove", "done"} => Top(v)' = Top(v)
      BY <1>1, <2>2, <2>3
    <3>3. 1 \in Threads /\ fStop \subseteq Threads
      BY ThreadAssumption DEF Sound, TypeOK
    <3>. QED
      BY <1>0, <2>4, <3>1, <3>2, <3>3 DEF StopInv, At
  <2>. QED
    BY <2>5, <2>6
<1>4. CASE u \in active
  <2>1. \/ Top(t).kind = "send" /\ Replaces(t, g)
        \/ Top(t).kind # "send" /\ Drops(t) /\ Top(t)'.pc = "run"
    BY <1>4, LockEffect, Zenon
  <2>2. g.pc = "wake"
    BY DEF Sending
  <2>. HIDE DEF g
  <2>3. Top(t)'.pc \in {"wake", "run"} /\ \A v \in Threads \ {t} : Top(v)' = Top(v)
    BY <2>1, <2>2, Tops
  <2>4. Enqueue(u, Top(t).kind, Top(t).msg)
    BY <1>4, LockEffect
  <2>5. u \in queues'
    BY <1>0, <1>1, <1>2, <1>4 DEF LockInv
  <2>. QED
    BY <1>0, <1>1, <2>3, <2>4, <2>5, EnqueueKeeps DEF QueuePc
<1>. QED
  BY <1>3, <1>4

(* Activate keeps the handlers and the stopped threads in order.            *)
LEMMA ActivateKeeps ==
  ASSUME Sound, HandlerInv, StopInv, NEW t \in Threads, Activate(t)
  PROVE  HandlerInv' /\ StopInv'
<1>. DEFINE u == Top(t).to
            g == Sending("wake", Top(t).msg.id, u, FALSE)
<1>0. UNCHANGED <<fStop, mlock, alive>> /\ queues' = queues \cup {u}
  BY DEF Activate
<1>1. \/ Top(t).kind = "send" /\ Replaces(t, g)
      \/ Top(t).kind # "send" /\ Drops(t) /\ Top(t)'.pc = "run"
  BY ActivateEffect, Zenon
<1>2. g.pc = "wake"
  BY DEF Sending
<1>. HIDE DEF g
<1>3. Top(t)'.pc \in {"wake", "run"} /\ \A v \in Threads \ {t} : Top(v)' = Top(v)
  BY <1>1, <1>2, Tops
<1>4. Enqueue(u, Top(t).kind, Top(t).msg) /\ Top(t).pc = "activate"
  BY ActivateEffect
<1>. QED
  BY <1>0, <1>3, <1>4, EnqueueKeeps DEF QueuePc

(* A step inside a destructor, as far as the other threads are concerned.   *)
LEMMA DestroyStops ==
  ASSUME Sound, StopInv, NEW t \in Threads, UNCHANGED fStop,
         Top(t).pc \in {"run", "destroy"}, Top(t)'.pc \in {"run", "destroy"},
         \A v \in Threads \ {t} : Top(v)' = Top(v),
         \A v \in Threads : Pending(v)' \subseteq Pending(v)
  PROVE  StopInv'
<1>0. 1 \in Threads /\ fStop \subseteq Threads
  BY ThreadAssumption DEF Sound, TypeOK
<1>1. \A v \in Threads : Top(v)'.pc \in {"join", "remove", "done"} <=> Top(v).pc \in {"join", "remove", "done"}
  OBVIOUS
<1>2. \A v \in Threads : Top(v)'.pc \in {"join", "remove", "done"} => Top(v)' = Top(v)
  OBVIOUS
<1>3. ASSUME NEW w \in fStop' PROVE (At(1, "join")' /\ Top(1)'.to = w) \/ Pending(w)' = {}
  <2>1. w \in Threads /\ w \in fStop
    BY <1>0
  <2>2. CASE Pending(w) = {}
    BY <2>1, <2>2
  <2>3. CASE At(1, "join") /\ Top(1).to = w
    BY <1>0, <2>3 DEF At
  <2>. QED
    BY <2>1, <2>2, <2>3 DEF StopInv
<1>. QED
  BY <1>0, <1>1, <1>2, <1>3 DEF StopInv, At

(* Destroy keeps the handlers and the stopped threads in order.             *)
LEMMA DestroyKeeps ==
  ASSUME Sound, HandlerInv, StopInv, NEW t \in Threads, NEW h \in Handlers, Destroy(t, h)
  PROVE  HandlerInv' /\ StopInv'
<1>0. /\ UNCHANGED <<fStop, queues>> /\ UNCHANGED queue /\ alive' = alive \ {h}
      /\ \A u \in Threads : \A f \in Frames(u) : f.pc \in {"queue", "activate"} => f.msg.h # h
  BY DEF Destroy, registry
<1>. DEFINE g == Destroying(h, queues)
<1>1. Top(t).pc = "run" /\ Adds(t, Top(t), g)
  BY DestroyEffect
<1>2. g.pc = "destroy" /\ g.h = h /\ g.left = queues
  BY DEF Destroying
<1>. HIDE DEF g
<1>3. Top(t)' = g /\ \A v \in Threads \ {t} : Top(v)' = Top(v)
  BY <1>1, Tops
<1>4. \A v \in Threads : Pending(v)' = Pending(v)
  BY <1>0, SameQueues
<1>5. ASSUME NEW v \in Threads, Top(v)'.pc \in QueuePc
      PROVE  /\ Top(v)'.msg.h \in alive' /\ Owner[Top(v)'.msg.h] = Top(v)'.to
             /\ Top(v)'.to \notin fStop' /\ Top(v)'.msg.thread = v
  <2>1. v # t /\ Top(v)' = Top(v)
    BY <1>2, <1>3, <1>5 DEF QueuePc
  <2>2. Top(v) \in Frames(v)
    <3>1. stack \in [Threads -> Seq(Frame)] /\ StackInv
      BY SoundFacts
    <3>. QED
      BY <3>1, StackFacts
  <2>3. Top(v).msg.h # h
    BY <1>0, <1>5, <2>1, <2>2 DEF QueuePc
  <2>. QED
    BY <1>0, <1>5, <2>1, <2>3 DEF HandlerInv
<1>6. ASSUME NEW v \in Threads, NEW n \in Pending(v)'
      PROVE  /\ v \in queues' /\ Owner[n.h] = v
             /\ n.h \in alive' \/ \E w \in Threads : At(w, "destroy")' /\ Top(w)'.h = n.h
                                                     /\ v \in Top(w)'.left
  <2>1. /\ v \in queues /\ Owner[n.h] = v
        /\ n.h \in alive \/ \E w \in Threads : At(w, "destroy") /\ Top(w).h = n.h
                                                /\ v \in Top(w).left
    BY <1>4 DEF HandlerInv
  <2>2. \A w \in Threads : At(w, "destroy") => Top(w)' = Top(w) /\ At(w, "destroy")'
    BY <1>1, <1>3 DEF At
  <2>3. CASE n.h = h
    BY <1>0, <1>2, <1>3, <2>1, <2>3 DEF At
  <2>4. CASE n.h # h
    BY <1>0, <2>1, <2>2, <2>4
  <2>. QED
    BY <2>3, <2>4
<1>7. HandlerInv'
  BY <1>5, <1>6 DEF HandlerInv
<1>8. StopInv'
  BY <1>0, <1>1, <1>2, <1>3, <1>4, DestroyStops
<1>. QED
  BY <1>7, <1>8

(* DestroyClear keeps the handlers and the stopped threads in order.        *)
LEMMA DestroyClearKeeps ==
  ASSUME Sound, HandlerInv, StopInv, NEW t \in Threads, NEW u \in Threads, DestroyClear(t, u)
  PROVE  HandlerInv' /\ StopInv'
<1>0. UNCHANGED <<fStop, queues, alive>>
  BY DEF DestroyClear, registry
<1>. DEFINE g == Destroying(Top(t).h, Top(t).left \ {u})
            h == Top(t).h
<1>1. Top(t).pc = "destroy" /\ Replaces(t, g) /\ ClearQueue(u, {h}) /\ {h} \in SUBSET Handlers
  BY DestroyClearEffect
<1>2. g.pc = "destroy" /\ g.h = h /\ g.left = Top(t).left \ {u}
  BY DEF Destroying
<1>. HIDE DEF g
<1>3. Top(t)' = g /\ \A v \in Threads \ {t} : Top(v)' = Top(v)
  BY <1>1, Tops
<1>4. /\ Pending(u)' = {m \in Pending(u) : m.h \notin {h}}
      /\ \A v \in Threads \ {u} : Pending(v)' = Pending(v)
  <2>1. Pending(u)' = {m \in Pending(u) : m.h \notin {h}}
    BY <1>1, ClearQueueEffect
  <2>2. \A v \in Threads \ {u} : /\ msgq'[v] = msgq[v] /\ dmsgq'[v] = dmsgq[v]
                                 /\ sendlist'[v] = sendlist[v]
    BY <1>1, ClearQueueEffect
  <2>3. \A v \in Threads \ {u} : Pending(v)' = Pending(v)
    BY <2>2 DEF Pending
  <2>. QED
    BY <2>1, <2>3
<1>5. \A v \in Threads : Pending(v)' \subseteq Pending(v)
  BY <1>4
<1>6. ASSUME NEW v \in Threads, Top(v)'.pc \in QueuePc
      PROVE  /\ Top(v)'.msg.h \in alive' /\ Owner[Top(v)'.msg.h] = Top(v)'.to
             /\ Top(v)'.to \notin fStop' /\ Top(v)'.msg.thread = v
  <2>1. v # t /\ Top(v)' = Top(v)
    BY <1>2, <1>3, <1>6 DEF QueuePc
  <2>. QED
    BY <1>0, <1>6, <2>1 DEF HandlerInv
<1>7. ASSUME NEW v \in Threads, NEW n \in Pending(v)'
      PROVE  /\ v \in queues' /\ Owner[n.h] = v
             /\ n.h \in alive' \/ \E w \in Threads : At(w, "destroy")' /\ Top(w)'.h = n.h
                                                     /\ v \in Top(w)'.left
  <2>1. /\ v \in queues /\ Owner[n.h] = v
        /\ n.h \in alive \/ \E w \in Threads : At(w, "destroy") /\ Top(w).h = n.h
                                                /\ v \in Top(w).left
    BY <1>5 DEF HandlerInv
  <2>2. CASE n.h \in alive
    BY <1>0, <2>1, <2>2
  <2>3. CASE n.h \notin alive
    <3>1. PICK w \in Threads : At(w, "destroy") /\ Top(w).h = n.h /\ v \in Top(w).left
      BY <2>1, <2>3
    <3>2. CASE w # t
      BY <1>0, <1>3, <2>1, <3>1, <3>2 DEF At
    <3>3. CASE w = t
      <4>1. v # u
        BY <1>4, <3>1, <3>3
      <4>2. At(t, "destroy")' /\ Top(t)'.h = n.h /\ v \in Top(t)'.left
        BY <1>2, <1>3, <3>1, <3>3, <4>1 DEF At
      <4>. QED
        BY <1>0, <2>1, <4>2
    <3>. QED
      BY <3>2, <3>3
  <2>. QED
    BY <2>2, <2>3
<1>8. HandlerInv'
  BY <1>6, <1>7 DEF HandlerInv
<1>9. StopInv'
  BY <1>0, <1>1, <1>2, <1>3, <1>5, DestroyStops
<1>. QED
  BY <1>8, <1>9

(* Destroyed keeps the handlers and the stopped threads in order.           *)
LEMMA DestroyedKeeps ==
  ASSUME Sound, HandlerInv, StopInv, NEW t \in Threads, Destroyed(t)
  PROVE  HandlerInv' /\ StopInv'
<1>0. UNCHANGED <<fStop, queues, alive>> /\ UNCHANGED queue /\ Top(t).left = {}
  BY DEF Destroyed, registry
<1>1. Top(t).pc = "destroy" /\ Drops(t) /\ Top(t)'.pc = "run"
  BY DestroyedEffect
<1>2. \A v \in Threads \ {t} : Top(v)' = Top(v)
  BY <1>1, Tops
<1>3. \A v \in Threads : Pending(v)' = Pending(v)
  BY <1>0, SameQueues
<1>4. ASSUME NEW v \in Threads, Top(v)'.pc \in QueuePc
      PROVE  /\ Top(v)'.msg.h \in alive' /\ Owner[Top(v)'.msg.h] = Top(v)'.to
             /\ Top(v)'.to \notin fStop' /\ Top(v)'.msg.thread = v
  <2>1. v # t /\ Top(v)' = Top(v)
    BY <1>1, <1>2, <1>4 DEF QueuePc
  <2>. QED
    BY <1>0, <1>4, <2>1 DEF HandlerInv
<1>5. ASSUME NEW v \in Threads, NEW n \in Pending(v)'
      PROVE  /\ v \in queues' /\ Owner[n.h] = v
             /\ n.h \in alive' \/ \E w \in Threads : At(w, "destroy")' /\ Top(w)'.h = n.h
                                                     /\ v \in Top(w)'.left
  <2>1. /\ v \in queues /\ Owner[n.h] = v
        /\ n.h \in alive \/ \E w \in Threads : At(w, "destroy") /\ Top(w).h = n.h
                                                /\ v \in Top(w).left
    BY <1>3 DEF HandlerInv
  <2>2. \A w \in Threads : At(w, "destroy") /\ v \in Top(w).left => Top(w)' = Top(w) /\ At(w, "destroy")'
    BY <1>0, <1>2 DEF At
  <2>. QED
    BY <1>0, <2>1, <2>2
<1>6. HandlerInv'
  BY <1>4, <1>5 DEF HandlerInv
<1>7. StopInv'
  BY <1>0, <1>1, <1>2, <1>3, DestroyStops
<1>. QED
  BY <1>6, <1>7

(* Stop keeps the handlers and the stopped threads in order.                *)
LEMMA StopKeeps ==
  ASSUME Sound, LockInv, HandlerInv, StopInv, NEW t \in Threads, NEW u \in Threads, Stop(t, u)
  PROVE  LockInv' /\ HandlerInv' /\ StopInv'
<1>0. /\ UNCHANGED <<qlock, mlock, active, queues, alive>> /\ UNCHANGED queue
      /\ fStop' = fStop \cup {u} /\ t = 1 /\ u # t
      /\ \A v \in Threads : \A f \in Frames(v) : OnItsWay(f) => f.to # u
  BY DEF Stop, registry, locks
<1>. DEFINE g == Joining("join", u)
<1>1. Top(t).pc = "run" /\ Adds(t, Top(t), g)
  BY StopEffect
<1>2. g.pc = "join" /\ g.to = u
  BY DEF Joining
<1>. HIDE DEF g
<1>3. Top(t)' = g /\ \A v \in Threads \ {t} : Top(v)' = Top(v)
  BY <1>1, Tops
<1>4. \A v \in Threads : Pending(v)' = Pending(v)
  BY <1>0, SameQueues
<1>5. LockInv'
  BY <1>0, <1>1, <1>2, <1>3, LockQuiet
<1>6. ASSUME NEW v \in Threads, Top(v)'.pc \in QueuePc
      PROVE  /\ Top(v)'.msg.h \in alive' /\ Owner[Top(v)'.msg.h] = Top(v)'.to
             /\ Top(v)'.to \notin fStop' /\ Top(v)'.msg.thread = v
  <2>1. v # t /\ Top(v)' = Top(v)
    BY <1>2, <1>3, <1>6 DEF QueuePc
  <2>2. Top(v) \in Frames(v)
    <3>1. stack \in [Threads -> Seq(Frame)] /\ StackInv
      BY SoundFacts
    <3>. QED
      BY <3>1, StackFacts
  <2>3. Top(v).to # u
    BY <1>0, <1>6, <2>1, <2>2 DEF QueuePc, OnItsWay
  <2>. QED
    BY <1>0, <1>6, <2>1, <2>3 DEF HandlerInv
<1>7. HandlerInv'
  <2>1. \A w \in Threads : At(w, "destroy") => Top(w)' = Top(w) /\ At(w, "destroy")'
    BY <1>1, <1>3 DEF At
  <2>. QED
    BY <1>0, <1>4, <1>6, <2>1 DEF HandlerInv
<1>8. StopInv'
  <2>0. 1 \in Threads /\ fStop \subseteq Threads
    BY ThreadAssumption DEF Sound, TypeOK
  <2>1. ASSUME NEW v \in Threads, Top(v)'.pc \in {"join", "remove"}
        PROVE  v = 1 /\ Top(v)'.to \in fStop' \ {1}
    BY <1>0, <1>2, <1>3, <2>1 DEF StopInv
  <2>2. ASSUME NEW w \in fStop' PROVE (At(1, "join")' /\ Top(1)'.to = w) \/ Pending(w)' = {}
    <3>1. CASE w = u
      BY <1>0, <1>2, <1>3, <3>1 DEF At
    <3>2. CASE w # u
      BY <1>0, <1>1, <1>4, <2>0, <3>2 DEF StopInv, At
    <3>. QED
      BY <3>1, <3>2
  <2>3. \A v \in Threads : At(v, "done")' => v \in fStop'
    BY <1>0, <1>2, <1>3 DEF StopInv, At
  <2>4. 1 \notin fStop'
    BY <1>0 DEF StopInv
  <2>. QED
    BY <2>1, <2>2, <2>3, <2>4 DEF StopInv
<1>. QED
  BY <1>5, <1>7, <1>8

(* Join keeps the handlers and the stopped threads in order.                *)
LEMMA JoinKeeps ==
  ASSUME Sound, LockInv, HandlerInv, StopInv, NEW t \in Threads, Join(t)
  PROVE  LockInv' /\ HandlerInv' /\ StopInv'
<1>0. UNCHANGED <<qlock, mlock, active, queues, fStop, alive>>
  BY DEF Join, registry, locks
<1>1. /\ Top(t).pc = "join" /\ Replaces(t, Joining("remove", Top(t).to)) /\ Top(t).to \in Threads
      /\ ClearQueue(Top(t).to, Handlers)
  BY JoinEffect
<1>. PICK u \in Threads : u = Top(t).to
  BY <1>1
<1>. DEFINE g == Joining("remove", u)
<1>2. g.pc = "remove" /\ g.to = u
  BY DEF Joining
<1>3. Replaces(t, g) /\ ClearQueue(u, Handlers)
  BY <1>1
<1>. HIDE DEF g
<1>4. Top(t)' = g /\ \A v \in Threads \ {t} : Top(v)' = Top(v)
  BY <1>3, Tops
<1>5. /\ \A v \in Threads : Pending(v)' \subseteq Pending(v)
      /\ \A v \in Threads : v = u => Pending(v)' = {}
  <2>1. Pending(u)' = {m \in Pending(u) : m.h \notin Handlers}
    BY <1>3, ClearQueueEffect
  <2>2. \A v \in Threads \ {u} : /\ msgq'[v] = msgq[v] /\ dmsgq'[v] = dmsgq[v]
                                 /\ sendlist'[v] = sendlist[v]
    BY <1>3, ClearQueueEffect
  <2>3. \A v \in Threads \ {u} : Pending(v)' = Pending(v)
    BY <2>2 DEF Pending
  <2>4. \A m \in Pending(u) : m.h \in Handlers
    BY QueueTypes DEF Message
  <2>. QED
    BY <2>1, <2>3, <2>4
<1>6. LockInv'
  BY <1>0, <1>1, <1>2, <1>4, LockQuiet
<1>7. HandlerInv'
  <2>1. ASSUME NEW v \in Threads, Top(v)'.pc \in QueuePc
        PROVE  /\ Top(v)'.msg.h \in alive' /\ Owner[Top(v)'.msg.h] = Top(v)'.to
               /\ Top(v)'.to \notin fStop' /\ Top(v)'.msg.thread = v
    <3>1. v # t /\ Top(v)' = Top(v)
      BY <1>2, <1>4, <2>1 DEF QueuePc
    <3>. QED
      BY <1>0, <2>1, <3>1 DEF HandlerInv
  <2>2. \A w \in Threads : At(w, "destroy") => Top(w)' = Top(w) /\ At(w, "destroy")'
    BY <1>1, <1>4 DEF At
  <2>. QED
    BY <1>0, <1>5, <2>1, <2>2 DEF HandlerInv
<1>8. StopInv'
  <2>0. 1 \in Threads /\ fStop \subseteq Threads /\ t = 1 /\ u \in fStop \ {1}
    BY <1>1, ThreadAssumption DEF Sound, TypeOK, StopInv
  <2>1. ASSUME NEW v \in Threads, Top(v)'.pc \in {"join", "remove"}
        PROVE  v = 1 /\ Top(v)'.to \in fStop' \ {1}
    BY <1>0, <1>2, <1>4, <2>0, <2>1 DEF StopInv
  <2>2. ASSUME NEW w \in fStop' PROVE Pending(w)' = {}
    <3>1. CASE w = u
      BY <1>5, <3>1
    <3>2. CASE w # u
      BY <1>0, <1>5, <2>0, <3>2 DEF StopInv, At
    <3>. QED
      BY <3>1, <3>2
  <2>3. \A v \in Threads : At(v, "done")' => v \in fStop'
    BY <1>0, <1>2, <1>4 DEF StopInv, At
  <2>. QED
    BY <1>0, <2>1, <2>2, <2>3 DEF StopInv
<1>. QED
  BY <1>6, <1>7, <1>8

(* RemoveQueue keeps the handlers and the stopped threads in order.         *)
LEMMA RemoveQueueKeeps ==
  ASSUME Sound, LockInv, HandlerInv, StopInv, NEW t \in Threads, RemoveQueue(t)
  PROVE  HandlerInv' /\ StopInv'
<1>1. Top(t).pc = "remove" /\ Drops(t) /\ Top(t)'.pc = "run" /\ Top(t).to \in Threads
  BY RemoveQueueEffect
<1>. PICK u \in Threads : u = Top(t).to
  BY <1>1
<1>2. /\ UNCHANGED fStop /\ UNCHANGED queue /\ queues' = queues \ {u} /\ mlock = Nobody
      /\ alive' = {h \in alive : Owner[h] # u}
  BY DEF RemoveQueue
<1>3. \A v \in Threads \ {t} : Top(v)' = Top(v)
  BY <1>1, Tops
<1>4. \A v \in Threads : Pending(v)' = Pending(v)
  BY <1>2, SameQueues
<1>5. 1 \in Threads /\ fStop \subseteq Threads /\ t = 1 /\ u \in fStop \ {1}
  BY <1>1, ThreadAssumption DEF Sound, TypeOK, StopInv
<1>6. \A w \in fStop : Pending(w) = {}
  BY <1>1, <1>5 DEF StopInv, At
<1>7. ASSUME NEW v \in Threads, Top(v)'.pc \in QueuePc
      PROVE  /\ Top(v)'.msg.h \in alive' /\ Owner[Top(v)'.msg.h] = Top(v)'.to
             /\ Top(v)'.to \notin fStop' /\ Top(v)'.msg.thread = v
  <2>1. v # t /\ Top(v)' = Top(v)
    BY <1>1, <1>3, <1>7 DEF QueuePc
  <2>2. /\ Top(v).msg.h \in alive /\ Owner[Top(v).msg.h] = Top(v).to
        /\ Top(v).to \notin fStop /\ Top(v).msg.thread = v
    BY <1>7, <2>1 DEF HandlerInv
  <2>3. Owner[Top(v).msg.h] # u
    BY <1>5, <2>2
  <2>4. Top(v).msg.h \in alive'
    BY <1>2, <2>2, <2>3
  <2>. QED
    BY <1>2, <2>1, <2>2, <2>4
<1>8. ASSUME NEW v \in Threads, NEW n \in Pending(v)'
      PROVE  v \in queues' /\ Owner[n.h] = v /\ n.h \in alive'
  <2>1. /\ v \in queues /\ Owner[n.h] = v
        /\ n.h \in alive \/ \E w \in Threads : At(w, "destroy") /\ Top(w).h = n.h
                                                /\ v \in Top(w).left
    BY <1>4 DEF HandlerInv
  <2>2. \A w \in Threads : ~At(w, "destroy")
    BY <1>2, ThreadIsSomebody DEF LockInv
  <2>3. v # u
    BY <1>4, <1>5, <1>6
  <2>. QED
    BY <1>2, <2>1, <2>2, <2>3
<1>9. HandlerInv'
  BY <1>7, <1>8 DEF HandlerInv
<1>10. StopInv'
  <2>1. ASSUME NEW v \in Threads, Top(v)'.pc \in {"join", "remove"}
        PROVE  v = 1 /\ Top(v)'.to \in fStop' \ {1}
    BY <1>1, <1>2, <1>3, <2>1 DEF StopInv
  <2>2. \A w \in fStop' : Pending(w)' = {}
    BY <1>2, <1>4, <1>5, <1>6
  <2>3. \A v \in Threads : At(v, "done")' => v \in fStop'
    BY <1>1, <1>2, <1>3 DEF StopInv, At
  <2>. QED
    BY <1>2, <2>1, <2>2, <2>3 DEF StopInv
<1>. QED
  BY <1>9, <1>10

(* Every step keeps the types, the shape of the stacks and these            *)
(* invariants.                                                              *)
Registered == Sound /\ LockInv /\ HandlerInv /\ StopInv

(* By the kind of the step.                                                 *)
LEMMA RegisteredStep ==
  ASSUME Registered, NEW t \in Threads, Step(t)
  PROVE  Registered'
<1>0. Sound /\ LockInv /\ HandlerInv /\ StopInv
  BY DEF Registered
<1>1. ASSUME Sound', Plain(t) PROVE Registered'
  BY <1>0, <1>1, PlainKeeps DEF Registered
<1>2. CASE GetSends(t)
  BY <1>0, <1>1, <1>2, GetSendsEffect, PlainGetSends
<1>3. CASE GetEmpty(t)
  BY <1>0, <1>1, <1>3, GetEmptyEffect, PlainGetEmpty
<1>4. CASE Wait(t)
  BY <1>0, <1>1, <1>4, WaitEffect, PlainWait
<1>5. CASE SocketEvent(t)
  BY <1>0, <1>1, <1>5, SocketEventEffect, PlainSocketEvent
<1>6. CASE ReceiveSends(t)
  BY <1>0, <1>1, <1>6, ReceiveSendsEffect, PlainReceiveSends
<1>7. CASE HandlerReturns(t)
  BY <1>0, <1>1, <1>7, HandlerReturnsEffect, PlainHandlerReturns
<1>8. ASSUME NEW due \in SUBSET dmsgq[t], GetMessage(t, due) PROVE Registered'
  BY <1>0, <1>1, <1>8, GetMessageEffect, PlainGetMessage
<1>9. ASSUME NEW h \in Handlers, NEW kind \in {"post", "delay", "send"}, Submit(t, h, kind)
      PROVE  Registered'
  BY <1>0, <1>1, <1>9, SubmitEffect, PlainSubmit
<1>10. CASE SendWakeUp(t) \/ SendLoop(t) \/ SendWait(t)
  <2>1. Sound'
    BY <1>0, <1>10, SendWakeUpEffect, SendLoopEffect, SendWaitEffect
  <2>. QED
    BY <1>0, <1>1, <1>10, <2>1, PlainSend
<1>11. CASE Lock(t)
  <2>1. Sound'
    BY <1>0, <1>11, LockEffect
  <2>. QED
    BY <1>0, <1>11, <2>1, LockLocks, LockKeeps DEF Registered
<1>12. CASE Activate(t)
  <2>1. Sound'
    BY <1>0, <1>12, ActivateEffect
  <2>. QED
    BY <1>0, <1>12, <2>1, ActivateLocks, ActivateKeeps DEF Registered
<1>13. ASSUME NEW h \in Handlers, Destroy(t, h) PROVE Registered'
  <2>1. Sound'
    BY <1>0, <1>13, DestroyEffect
  <2>. QED
    BY <1>0, <1>13, <2>1, DestroyLocks, DestroyKeeps DEF Registered
<1>14. ASSUME NEW u \in Threads, DestroyClear(t, u) PROVE Registered'
  <2>1. Sound'
    BY <1>0, <1>14, DestroyClearEffect
  <2>. QED
    BY <1>0, <1>14, <2>1, DestroyClearLocks, DestroyClearKeeps DEF Registered
<1>15. CASE Destroyed(t)
  <2>1. Sound'
    BY <1>0, <1>15, DestroyedEffect
  <2>. QED
    BY <1>0, <1>15, <2>1, DestroyedLocks, DestroyedKeeps DEF Registered
<1>16. ASSUME NEW u \in Threads, Stop(t, u) PROVE Registered'
  <2>1. Sound'
    BY <1>0, <1>16, StopEffect
  <2>. QED
    BY <1>0, <1>16, <2>1, StopKeeps DEF Registered
<1>17. CASE Join(t)
  <2>1. Sound'
    BY <1>0, <1>17, JoinEffect
  <2>. QED
    BY <1>0, <1>17, <2>1, JoinKeeps DEF Registered
<1>18. CASE RemoveQueue(t)
  <2>1. Sound'
    BY <1>0, <1>18, RemoveQueueEffect
  <2>. QED
    BY <1>0, <1>18, <2>1, RemoveQueueLocks, RemoveQueueKeeps DEF Registered
<1>. QED
  BY <1>2, <1>3, <1>4, <1>5, <1>6, <1>7, <1>8, <1>9, <1>10, <1>11, <1>12, <1>13, <1>14, <1>15,
     <1>16, <1>17, <1>18 DEF Step

(* The first state, and steps of nobody.                                    *)
LEMMA InitRegistered == Init => Registered
<1>. SUFFICES ASSUME Init PROVE Registered
  OBVIOUS
<1>1. Loop("get", FALSE) \in Frame /\ Running(Main) \in Frame
  BY FrameTypes DEF LoopPc
<1>. DEFINE f == Loop("get", FALSE)
            g == Running(Main)
<1>2. f.pc = "get" /\ g.pc = "run"
  BY DEF Loop, Running
<1>. HIDE DEF f, g
<1>3. \A t \in Threads : stack[t] = IF t = 1 THEN <<f, g>> ELSE <<f>>
  BY DEF Init, f, g
<1>4. f \in Frame /\ g \in Frame
  BY <1>1 DEF f, g
<1>5. ASSUME NEW t \in Threads
      PROVE  /\ stack[t] \in Seq(Frame) /\ stack[t] # <<>> /\ stack[t][1].pc = "get"
             /\ Top(t).pc \in {"get", "run"}
             /\ \A i \in 1..(Len(stack[t]) - 1) : Calling(stack[t][i], stack[t][i + 1])
  <2>1. CASE t = 1
    <3>1. stack[t] = <<f, g>>
      BY <1>3, <2>1
    <3>2. Len(stack[t]) = 2 /\ stack[t][1] = f /\ stack[t][2] = g /\ stack[t] \in Seq(Frame)
      BY <1>4, <3>1
    <3>3. Calling(f, g)
      BY <1>2 DEF Calling, LoopPc
    <3>4. \A i \in 1..(Len(stack[t]) - 1) : i = 1 /\ i + 1 = 2
      BY <3>2
    <3>. QED
      BY <1>2, <3>2, <3>3, <3>4 DEF Top, Last
  <2>2. CASE t # 1
    <3>1. stack[t] = <<f>>
      BY <1>3, <2>2
    <3>2. Len(stack[t]) = 1 /\ stack[t][1] = f /\ stack[t] \in Seq(Frame)
      BY <1>4, <3>1
    <3>. QED
      BY <1>2, <3>2 DEF Top, Last
  <2>. QED
    BY <2>1, <2>2
<1>6. StackInv
  BY <1>5 DEF StackInv, LoopPc
<1>7. TypeOK
  <2>1. stack \in [Threads -> Seq(Frame)]
    <3>1. stack = [t \in Threads |-> stack[t]]
      BY DEF Init
    <3>. QED
      BY <1>5, <3>1
  <2>2. <<>> \in Seq(Message) /\ IsFiniteSet({})
    BY FS_EmptySet
  <2>. QED
    BY <2>1, <2>2 DEF Init, TypeOK
<1>8. LockInv
  BY <1>5, ThreadIsSomebody DEF Init, LockInv, At, Free
<1>9. \A t \in Threads : Pending(t) = {}
  <2>1. <<>> \in Seq(Message)
    OBVIOUS
  <2>2. ToSet(<<>>) = {}
    BY <2>1, QueueSet
  <2>. QED
    BY <2>2 DEF Init, Pending
<1>10. HandlerInv
  BY <1>5, <1>9 DEF HandlerInv, QueuePc
<1>11. StopInv
  BY <1>5 DEF Init, StopInv, At
<1>. QED
  BY <1>6, <1>7, <1>8, <1>10, <1>11 DEF Registered, Sound

-----------------------------------------------------------------------------
(* The wake-ups.                                                            *)

(* What WakeInv says of a thread.                                           *)
Resting(t) == Top(t).pc \in {"check", "empty", "swait"}
Watched(t) ==
  /\ sendlist[t] # <<>> => t \in has_sends
  /\ Resting(t) /\ sendlist[t] # <<>> => Woken(t)
  /\ Top(t).pc = "empty" =>
       /\ msgq[t] # <<>> => t \in signaled
       /\ dmsgq[t] # {} => t \in signaled \/ Top(t).timer
  /\ stack[t][1].pc = "wait" /\ t \in fWait =>
       /\ sendlist[t] # <<>> => Woken(t)
       /\ msgq[t] # <<>> \/ t \in fStop => t \in signaled
       /\ dmsgq[t] # {} => t \in signaled \/ stack[t][1].timer

(* The invariant, one thread at a time.                                     *)
LEMMA WakeInvWatched ==
  /\ WakeInv <=> \A t \in Threads : Watched(t)
  /\ WakeInv' <=> \A t \in Threads : Watched(t)'
  BY DEF WakeInv, Watched, Resting

(* A step that does not disturb v: what comes to its queues comes with a    *)
(* wake-up, and a wake-up that goes is not needed.                          *)
Undisturbed(v) ==
  /\ stack'[v][1] = stack[v][1]
  /\ Resting(v)' => Top(v)' = Top(v)
  /\ v \in fWait' => v \in fWait
  /\ v \in has_sends /\ sendlist'[v] # <<>> => v \in has_sends'
  /\ v \in signaled => v \in signaled' \/ (v \notin fWait' /\ ~Resting(v)')
  /\ Woken(v) => Woken(v)' \/ (v \notin fWait' /\ ~Resting(v)')
  /\ sendlist'[v] # <<>> => sendlist[v] # <<>> \/ (Woken(v)' /\ v \in has_sends')
  /\ msgq'[v] # <<>> => msgq[v] # <<>> \/ v \in signaled'
  /\ dmsgq'[v] # {} => dmsgq[v] # {} \/ v \in signaled'
  /\ v \in fStop' => v \in fStop \/ v \in signaled'

(* Such a thread stays watched.                                             *)
LEMMA UndisturbedWatched ==
  ASSUME NEW v \in Threads, Watched(v), Undisturbed(v)
  PROVE  Watched(v)'
<1>1. sendlist'[v] # <<>> => v \in has_sends'
  BY DEF Watched, Undisturbed
<1>2. Resting(v)' /\ sendlist'[v] # <<>> => Woken(v)'
  BY DEF Watched, Undisturbed, Resting
<1>3. ASSUME Top(v)'.pc = "empty"
      PROVE  /\ msgq'[v] # <<>> => v \in signaled'
             /\ dmsgq'[v] # {} => v \in signaled' \/ Top(v)'.timer
  <2>1. Resting(v)' /\ Top(v)' = Top(v)
    BY <1>3 DEF Undisturbed, Resting
  <2>. QED
    BY <1>3, <2>1 DEF Watched, Undisturbed
<1>4. ASSUME stack'[v][1].pc = "wait", v \in fWait'
      PROVE  /\ sendlist'[v] # <<>> => Woken(v)'
             /\ msgq'[v] # <<>> \/ v \in fStop' => v \in signaled'
             /\ dmsgq'[v] # {} => v \in signaled' \/ stack'[v][1].timer
  BY <1>4 DEF Watched, Undisturbed
<1>. QED
  BY <1>1, <1>2, <1>3, <1>4 DEF Watched

(* The outermost call stays, unless it is the only one.                     *)
LEMMA Bottom ==
  ASSUME Sound, NEW t \in Threads
  PROVE  /\ Top(t).pc \in LoopPc => Len(stack[t]) = 1 /\ stack[t][1] = Top(t)
         /\ Top(t).pc \notin LoopPc => Len(stack[t]) > 1
         /\ Top(t).pc \notin LoopPc /\ Others(t) => stack'[t][1] = stack[t][1]
         /\ \A f : Top(t).pc \in LoopPc /\ Replaces(t, f) => stack'[t][1] = f
         /\ \A f, g : Top(t).pc \in LoopPc /\ Adds(t, f, g) => stack'[t][1] = f
<1>0. stack \in [Threads -> Seq(Frame)] /\ StackInv
  BY SoundFacts
<1>1. Len(stack[t]) \in Nat \ {0} /\ Top(t) = stack[t][Len(stack[t])] /\ Len(stack[t]) \in 1..Len(stack[t])
  BY <1>0, StackFacts
<1>2. stack[t][1].pc \in LoopPc /\ \A i \in 1..Len(stack[t]) : stack[t][i].pc \in LoopPc => i = 1
  BY <1>0, Innermost
<1>3. Top(t).pc \in LoopPc => Len(stack[t]) = 1 /\ stack[t][1] = Top(t)
  BY <1>1, <1>2
<1>4. Top(t).pc \notin LoopPc => Len(stack[t]) > 1
  BY <1>1, <1>2
<1>5. Top(t).pc \notin LoopPc /\ Others(t) => stack'[t][1] = stack[t][1]
  BY <1>1, <1>4 DEF Others
<1>. QED
  BY <1>3, <1>4, <1>5 DEF Replaces, Adds

(* What holds for the other threads in most steps.                          *)
LEMMA OthersUndisturbed ==
  ASSUME NEW t \in Threads, Others(t), Top(t).pc # "wake",
         \A v \in Threads \ {t} :
           /\ v \in signaled => v \in signaled'
           /\ v \in fWait' => v \in fWait
           /\ v \in has_sends => v \in has_sends'
           /\ sendlist'[v] # <<>> => sendlist[v] # <<>> \/ (Woken(v)' /\ v \in has_sends')
           /\ msgq'[v] # <<>> => msgq[v] # <<>> \/ v \in signaled'
           /\ dmsgq'[v] # {} => dmsgq[v] # {} \/ v \in signaled'
           /\ v \in fStop' => v \in fStop \/ v \in signaled'
  PROVE  \A v \in Threads \ {t} : Undisturbed(v)
<1>. SUFFICES ASSUME NEW v \in Threads \ {t} PROVE Undisturbed(v)
  OBVIOUS
<1>1. stack'[v] = stack[v] /\ Top(v)' = Top(v)
  BY DEF Others
<1>2. Woken(v) => Woken(v)'
  <2>1. \A w \in Threads : At(w, "wake") => Top(w)' = Top(w) /\ At(w, "wake")'
    BY DEF Others, At
  <2>. QED
    BY <2>1 DEF Woken
<1>. QED
  BY <1>1, <1>2 DEF Undisturbed

(* And for the thread itself, when it comes back to a handler.              *)
LEMMA SelfUndisturbed ==
  ASSUME Sound, NEW t \in Threads, Others(t), Top(t).pc \notin LoopPc, ~Resting(t)',
         t \in fWait' => t \in fWait,
         t \in has_sends /\ sendlist'[t] # <<>> => t \in has_sends',
         t \in signaled => t \in signaled' \/ t \notin fWait',
         Woken(t) => Woken(t)' \/ t \notin fWait',
         sendlist'[t] # <<>> => sendlist[t] # <<>> \/ (Woken(t)' /\ t \in has_sends'),
         msgq'[t] # <<>> => msgq[t] # <<>> \/ t \in signaled',
         dmsgq'[t] # {} => dmsgq[t] # {} \/ t \in signaled',
         t \in fStop' => t \in fStop \/ t \in signaled'
  PROVE  Undisturbed(t)
<1>1. stack'[t][1] = stack[t][1]
  BY Bottom
<1>. QED
  BY <1>1 DEF Undisturbed

(* Wake-ups that are announced stay announced.                              *)
LEMMA WokenKept ==
  ASSUME NEW t \in Threads, Others(t), Top(t).pc # "wake", signaled \subseteq signaled'
  PROVE  \A v \in Threads : Woken(v) => Woken(v)'
<1>1. \A w \in Threads : At(w, "wake") => Top(w)' = Top(w) /\ At(w, "wake")'
  BY DEF Others, At
<1>. QED
  BY <1>1 DEF Woken

(* A change of one stack leaves the others alone.                           *)
LEMMA OthersOf ==
  ASSUME NEW t \in Threads, NEW f, NEW g
  PROVE  /\ Replaces(t, f) => Others(t)
         /\ Adds(t, f, g) => Others(t)
         /\ Drops(t) => Others(t)
  BY DEF Replaces, Adds, Drops

(* Steps of handlers and of the calls that they make.                       *)
LEMMA HandlerWatched ==
  ASSUME Sound, WakeInv, NEW t \in Threads, Others(t), Top(t).pc \notin LoopPc \cup {"wake"},
         ~Resting(t)', fWait' = fWait, signaled \subseteq signaled', has_sends \subseteq has_sends',
         \A v \in Threads :
           /\ sendlist'[v] # <<>> => sendlist[v] # <<>> \/ (Woken(v)' /\ v \in has_sends')
           /\ msgq'[v] # <<>> => msgq[v] # <<>> \/ v \in signaled'
           /\ dmsgq'[v] # {} => dmsgq[v] # {} \/ v \in signaled'
           /\ v \in fStop' => v \in fStop \/ v \in signaled'
  PROVE  WakeInv'
<1>1. \A v \in Threads \ {t} : Undisturbed(v)
  BY OthersUndisturbed
<1>2. \A v \in Threads : Woken(v) => Woken(v)'
  BY WokenKept
<1>3. Undisturbed(t)
  BY <1>2, SelfUndisturbed
<1>. QED
  BY <1>1, <1>3, UndisturbedWatched, WakeInvWatched

(* GetSends loses no wake-up.                                               *)
LEMMA GetSendsWatched ==
  ASSUME Sound, WakeInv, NEW t \in Threads, GetSends(t)
  PROVE  WakeInv'
<1>0. Top(t).pc = "get" /\ UNCHANGED <<queue, event, fStop>> /\ Watched(t)
  BY WakeInvWatched DEF GetSends, At
<1>. DEFINE f == Loop("check", FALSE)
            g == Receiving(NoMessage)
<1>1. (Replaces(t, f) /\ t \notin has_sends) \/ Adds(t, f, g)
  BY GetSendsEffect
<1>2. f.pc = "check" /\ g.pc = "recv"
  BY DEF Loop, Receiving
<1>. HIDE DEF f, g
<1>3. Others(t)
  BY <1>1, OthersOf
<1>4. \A v \in Threads \ {t} : Undisturbed(v)
  BY <1>0, <1>3, OthersUndisturbed DEF queue, event
<1>5. stack'[t][1] = f
  BY <1>0, <1>1, Bottom DEF LoopPc
<1>6. sendlist' = sendlist /\ has_sends' = has_sends
  BY <1>0 DEF queue
<1>7. (Top(t)'.pc = "check" /\ t \notin has_sends) \/ Top(t)'.pc = "recv"
  BY <1>1, <1>2, Tops
<1>8. Watched(t)'
  BY <1>0, <1>2, <1>5, <1>6, <1>7 DEF Watched, Resting
<1>. QED
  BY <1>4, <1>8, UndisturbedWatched, WakeInvWatched

(* GetMessage loses no wake-up.                                             *)
LEMMA GetMessageWatched ==
  ASSUME Sound, WakeInv, NEW t \in Threads, NEW due \in SUBSET dmsgq[t], GetMessage(t, due)
  PROVE  WakeInv'
<1>. DEFINE b == dmsgq[t] # {}
            f == Loop("empty", b)
            e == Loop("get", FALSE)
<1>0. /\ UNCHANGED <<sendlist, has_sends, signaled, fWait, fStop>> /\ Watched(t)
  BY WakeInvWatched DEF GetMessage, event
<1>1. /\ Top(t).pc = "check"
      /\ \A v \in Threads \ {t} : msgq'[v] = msgq[v] /\ dmsgq'[v] = dmsgq[v]
  BY GetMessageEffect DEF At
<1>2. \/ Replaces(t, f) /\ msgq[t] = <<>> /\ msgq'[t] = <<>> /\ dmsgq'[t] = dmsgq[t]
      \/ \E h \in Handlers : Adds(t, e, Running(h))
  BY GetMessageEffect, Zenon
<1>3. f.pc = "empty" /\ (f.timer <=> dmsgq[t] # {}) /\ e.pc = "get" /\ \A h \in Handlers : Running(h).pc = "run"
  BY DEF Loop, Running
<1>. HIDE DEF e, f
<1>4. Others(t)
  BY <1>2, OthersOf
<1>5. \A v \in Threads \ {t} : Undisturbed(v)
  BY <1>0, <1>1, <1>4, OthersUndisturbed
<1>6. Watched(t)'
  <2>1. CASE Replaces(t, f) /\ msgq[t] = <<>> /\ msgq'[t] = <<>> /\ dmsgq'[t] = dmsgq[t]
    <3>1. stack'[t][1] = f /\ Top(t)' = f
      BY <1>1, <2>1, Bottom, Tops DEF LoopPc
    <3>2. Woken(t) => Woken(t)'
      BY <1>0, <1>1, <1>4, WokenKept
    <3>3. sendlist[t] # <<>> => Woken(t)
      BY <1>0, <1>1 DEF Watched, Resting
    <3>. QED
      BY <1>0, <1>3, <2>1, <3>1, <3>2, <3>3 DEF Watched
  <2>2. ASSUME NEW h \in Handlers, Adds(t, e, Running(h)) PROVE Watched(t)'
    <3>1. stack'[t][1] = e /\ Top(t)' = Running(h)
      BY <1>1, <2>2, Bottom, Tops DEF LoopPc
    <3>. QED
      BY <1>0, <1>3, <3>1 DEF Watched, Resting
  <2>. QED
    BY <1>2, <2>1, <2>2
<1>. QED
  BY <1>5, <1>6, UndisturbedWatched, WakeInvWatched

(* GetEmpty loses no wake-up.                                               *)
LEMMA GetEmptyWatched ==
  ASSUME Sound, WakeInv, NEW t \in Threads, GetEmpty(t)
  PROVE  WakeInv'
<1>. DEFINE e == Loop("done", FALSE)
            f == Loop("wait", Top(t).timer)
<1>0. Top(t).pc = "empty" /\ UNCHANGED <<queue, signaled, fStop>> /\ Watched(t)
  BY WakeInvWatched DEF GetEmpty, At
<1>1. \/ Replaces(t, e) /\ fWait' = fWait
      \/ Replaces(t, f) /\ t \notin fStop /\ fWait' = fWait \cup {t}
  BY GetEmptyEffect
<1>2. e.pc = "done" /\ f.pc = "wait" /\ f.timer = Top(t).timer
  BY DEF Loop
<1>. HIDE DEF e, f
<1>3. Others(t)
  BY <1>1, OthersOf
<1>4. \A v \in Threads \ {t} : Undisturbed(v)
  BY <1>0, <1>1, <1>3, OthersUndisturbed DEF queue
<1>5. Watched(t)'
  <2>1. CASE Replaces(t, e)
    <3>1. stack'[t][1] = e /\ Top(t)' = e
      BY <1>0, <2>1, Bottom, Tops DEF LoopPc
    <3>. QED
      BY <1>0, <1>2, <3>1 DEF Watched, Resting, queue
  <2>2. CASE Replaces(t, f) /\ t \notin fStop
    <3>1. stack'[t][1] = f /\ Top(t)' = f
      BY <1>0, <2>2, Bottom, Tops DEF LoopPc
    <3>2. Woken(t) => Woken(t)'
      BY <1>0, <1>3, WokenKept
    <3>3. /\ sendlist[t] # <<>> => Woken(t) /\ t \in has_sends
          /\ msgq[t] # <<>> => t \in signaled
          /\ dmsgq[t] # {} => t \in signaled \/ Top(t).timer
      BY <1>0 DEF Watched, Resting
    <3>. QED
      BY <1>0, <1>2, <2>2, <3>1, <3>2, <3>3 DEF Watched, Resting, queue
  <2>. QED
    BY <1>1, <2>1, <2>2
<1>. QED
  BY <1>4, <1>5, UndisturbedWatched, WakeInvWatched

(* Wait loses no wake-up.                                                   *)
LEMMA WaitWatched ==
  ASSUME Sound, WakeInv, NEW t \in Threads, Wait(t)
  PROVE  WakeInv'
<1>. DEFINE f == Loop("get", FALSE)
<1>0. /\ Top(t).pc = "wait" /\ UNCHANGED <<queue, fStop>> /\ Watched(t)
      /\ signaled \ {t} \subseteq signaled' /\ fWait' \subseteq fWait
  BY WakeInvWatched DEF Wait, At, event
<1>1. Replaces(t, f)
  BY WaitEffect
<1>2. f.pc = "get"
  BY DEF Loop
<1>. HIDE DEF f
<1>3. Others(t)
  BY <1>1, OthersOf
<1>4. \A v \in Threads \ {t} : Undisturbed(v)
  BY <1>0, <1>1, <1>3, OthersUndisturbed DEF queue
<1>5. stack'[t][1] = f /\ Top(t)' = f
  BY <1>0, <1>1, Bottom, Tops DEF LoopPc
<1>6. Watched(t)'
  BY <1>0, <1>2, <1>5 DEF Watched, Resting, queue
<1>. QED
  BY <1>4, <1>6, UndisturbedWatched, WakeInvWatched

(* SocketEvent loses no wake-up.                                            *)
LEMMA SocketEventWatched ==
  ASSUME Sound, WakeInv, NEW t \in Threads, SocketEvent(t)
  PROVE  WakeInv'
<1>. DEFINE g == Running(Main)
<1>0. /\ Top(t).pc = "wait" /\ UNCHANGED <<queue, fStop>>
      /\ \/ UNCHANGED <<signaled, fWait>>
         \/ signaled' = signaled \ {t} /\ fWait' = fWait \ {t}
  BY DEF SocketEvent, At, event
<1>1. Adds(t, Top(t), g)
  BY SocketEventEffect
<1>2. g.pc = "run"
  BY DEF Running
<1>. HIDE DEF g
<1>3. Others(t)
  BY <1>1, OthersOf
<1>4. \A v \in Threads \ {t} : Undisturbed(v)
  BY <1>0, <1>1, <1>3, OthersUndisturbed DEF queue
<1>5. stack'[t][1] = stack[t][1] /\ Top(t)' = g
  BY <1>0, <1>1, Bottom, Tops DEF LoopPc
<1>6. ~Resting(t)'
  BY <1>2, <1>5 DEF Resting
<1>7. CASE UNCHANGED <<signaled, fWait>>
  <2>1. Woken(t) => Woken(t)'
    BY <1>0, <1>3, <1>7, WokenKept
  <2>2. Undisturbed(t)
    BY <1>0, <1>5, <1>6, <1>7, <2>1 DEF Undisturbed, queue
  <2>. QED
    BY <1>4, <2>2, UndisturbedWatched, WakeInvWatched
<1>8. CASE signaled' = signaled \ {t} /\ fWait' = fWait \ {t}
  <2>1. Undisturbed(t)
    BY <1>0, <1>5, <1>6, <1>8 DEF Undisturbed, queue
  <2>. QED
    BY <1>4, <2>1, UndisturbedWatched, WakeInvWatched
<1>. QED
  BY <1>0, <1>7, <1>8

(* ReceiveSends loses no wake-up.                                           *)
LEMMA ReceiveSendsWatched ==
  ASSUME Sound, WakeInv, NEW t \in Threads, ReceiveSends(t)
  PROVE  WakeInv'
<1>. DEFINE n == Head(sendlist[t])
            g == Running(n.h)
<1>0. UNCHANGED <<msgq, dmsgq, fWait, fStop>> /\ Watched(t)
  BY WakeInvWatched DEF ReceiveSends
<1>1. /\ Top(t).pc = "recv" /\ signaled \subseteq signaled'
      /\ \A v \in Threads \ {t} : sendlist'[v] = sendlist[v]
      /\ \/ /\ sendlist[t] = <<>> /\ sendlist' = sendlist /\ has_sends' = has_sends \ {t}
            /\ Drops(t) /\ Top(t)'.pc \in {"check", "swait"}
         \/ /\ sendlist[t] # <<>> /\ has_sends' = has_sends
            /\ Adds(t, Receiving(n), g)
  BY ReceiveSendsEffect
<1>2. g.pc = "run"
  BY DEF Running
<1>. HIDE DEF g
<1>3. Others(t)
  BY <1>1, OthersOf
<1>4. \A v \in Threads \ {t} : Undisturbed(v)
  BY <1>0, <1>1, <1>3, OthersUndisturbed
<1>5. CASE Adds(t, Receiving(n), g) /\ sendlist[t] # <<>> /\ has_sends' = has_sends
  <2>1. ~Resting(t)'
    BY <1>2, <1>5, Tops DEF Resting
  <2>. QED
    BY <1>0, <1>1, <1>3, <1>5, <2>1, HandlerWatched DEF LoopPc
<1>6. CASE Drops(t) /\ Top(t)'.pc \in {"check", "swait"} /\ sendlist[t] = <<>> /\ sendlist' = sendlist
  <2>1. stack'[t][1] = stack[t][1]
    BY <1>1, <1>3, Bottom DEF LoopPc
  <2>2. Watched(t)'
    BY <1>0, <1>1, <1>6, <2>1 DEF Watched
  <2>. QED
    BY <1>4, <2>2, UndisturbedWatched, WakeInvWatched
<1>. QED
  BY <1>1, <1>5, <1>6

(* SendWakeUp loses no wake-up.                                             *)
LEMMA SendWakeUpWatched ==
  ASSUME Sound, WakeInv, NEW t \in Threads, SendWakeUp(t)
  PROVE  WakeInv'
<1>. DEFINE f == Sending("loop", Top(t).id, Top(t).to, Top(t).waited)
<1>0. /\ Top(t).pc = "wake" /\ UNCHANGED <<queue, fWait, fStop>>
      /\ signaled' = signaled \cup {Top(t).to}
  BY DEF SendWakeUp, At
<1>1. Replaces(t, f)
  BY SendWakeUpEffect
<1>2. f.pc = "loop"
  BY DEF Sending
<1>. HIDE DEF f
<1>3. Others(t) /\ Top(t)' = f
  BY <1>1, OthersOf, Tops
<1>4. \A v \in Threads : Woken(v) => Woken(v)'
  <2>1. \A w \in Threads \ {t} : At(w, "wake") => Top(w)' = Top(w) /\ At(w, "wake")'
    BY <1>3 DEF Others, At
  <2>. QED
    BY <1>0, <2>1 DEF Woken
<1>5. \A v \in Threads \ {t} : Undisturbed(v)
  <2>. SUFFICES ASSUME NEW v \in Threads \ {t} PROVE Undisturbed(v)
    OBVIOUS
  <2>1. stack'[v] = stack[v] /\ Top(v)' = Top(v)
    BY <1>3 DEF Others
  <2>. QED
    BY <1>0, <1>4, <2>1 DEF Undisturbed, queue
<1>6. Undisturbed(t)
  <2>1. ~Resting(t)'
    BY <1>2, <1>3 DEF Resting
  <2>. QED
    BY <1>0, <1>3, <1>4, <2>1, SelfUndisturbed DEF queue, LoopPc
<1>. QED
  BY <1>5, <1>6, UndisturbedWatched, WakeInvWatched

(* SendLoop loses no wake-up.                                               *)
LEMMA SendLoopWatched ==
  ASSUME Sound, WakeInv, NEW t \in Threads, SendLoop(t)
  PROVE  WakeInv'
<1>. DEFINE f == Sending("swait", Top(t).id, Top(t).to, TRUE)
            g == Receiving(NoMessage)
<1>0. Top(t).pc = "loop" /\ UNCHANGED <<queue, fWait, fStop>> /\ signaled \subseteq signaled' /\ Watched(t)
  BY WakeInvWatched DEF SendLoop, At
<1>1. \/ Drops(t) /\ Top(t)'.pc = "run"
      \/ Replaces(t, f) /\ t \notin has_sends
      \/ Adds(t, f, g)
  BY SendLoopEffect, Zenon
<1>2. f.pc = "swait" /\ g.pc = "recv"
  BY DEF Sending, Receiving
<1>. HIDE DEF f, g
<1>3. Others(t)
  BY <1>1, OthersOf
<1>4. CASE ~Resting(t)'
  BY <1>0, <1>3, <1>4, HandlerWatched DEF queue, LoopPc
<1>5. CASE Replaces(t, f) /\ t \notin has_sends
  <2>1. \A v \in Threads \ {t} : Undisturbed(v)
    BY <1>0, <1>3, OthersUndisturbed DEF queue
  <2>2. stack'[t][1] = stack[t][1] /\ Top(t)' = f
    BY <1>0, <1>3, <1>5, Bottom, Tops DEF LoopPc
  <2>3. Watched(t)'
    BY <1>0, <1>2, <1>5, <2>2 DEF Watched, queue
  <2>. QED
    BY <2>1, <2>3, UndisturbedWatched, WakeInvWatched
<1>. QED
  BY <1>1, <1>2, <1>4, <1>5, Tops DEF Resting

(* SendWait loses no wake-up.                                               *)
LEMMA SendWaitWatched ==
  ASSUME Sound, WakeInv, NEW t \in Threads, SendWait(t)
  PROVE  WakeInv'
<1>. DEFINE f == Sending("loop", Top(t).id, Top(t).to, Top(t).waited)
<1>0. /\ Top(t).pc = "swait" /\ UNCHANGED <<queue, fStop>>
      /\ signaled' = signaled \ {t} /\ fWait' = fWait \ {t}
  BY DEF SendWait, At
<1>1. Replaces(t, f)
  BY SendWaitEffect
<1>2. f.pc = "loop"
  BY DEF Sending
<1>. HIDE DEF f
<1>3. Others(t) /\ Top(t)' = f
  BY <1>1, OthersOf, Tops
<1>4. \A v \in Threads \ {t} : Undisturbed(v)
  BY <1>0, <1>3, OthersUndisturbed DEF queue
<1>5. Undisturbed(t)
  <2>1. ~Resting(t)'
    BY <1>2, <1>3 DEF Resting
  <2>. QED
    BY <1>0, <1>3, <2>1, SelfUndisturbed DEF queue, LoopPc
<1>. QED
  BY <1>4, <1>5, UndisturbedWatched, WakeInvWatched

(* Submit loses no wake-up.                                                 *)
LEMMA SubmitWatched ==
  ASSUME Sound, WakeInv, NEW t \in Threads, NEW h \in Handlers,
         NEW kind \in {"post", "delay", "send"}, Submit(t, h, kind)
  PROVE  WakeInv'
<1>. DEFINE m == [id |-> calls + 1, h |-> h, thread |-> t]
            f == Queueing("queue", kind, m, Owner[h])
<1>0. UNCHANGED queue /\ UNCHANGED event /\ UNCHANGED fStop
  BY DEF Submit
<1>1. /\ Top(t).pc = "run"
      /\ stack' = stack \/ Adds(t, Top(t), Running(h)) \/ Adds(t, Top(t), f)
  BY SubmitEffect
<1>2. f.pc = "queue" /\ Running(h).pc = "run"
  BY DEF Queueing, Running
<1>. HIDE DEF f
<1>3. Others(t) /\ ~Resting(t)'
  <2>1. CASE stack' = stack
    <3>1. stack \in [Threads -> Seq(Frame)] /\ StackInv
      BY SoundFacts
    <3>2. Len(stack[t]) \in Nat
      BY <3>1, StackFacts
    <3>. QED
      BY <1>1, <2>1, <3>1, <3>2 DEF Others, Top, Resting
  <2>2. CASE Adds(t, Top(t), Running(h)) \/ Adds(t, Top(t), f)
    BY <1>2, <2>2, OthersOf, Tops DEF Resting
  <2>. QED
    BY <1>1, <2>1, <2>2
<1>. QED
  BY <1>0, <1>1, <1>3, HandlerWatched DEF queue, event, LoopPc

(* Calls that return keep the wake-ups.                                     *)
LEMMA ReturnWatched ==
  ASSUME Sound, WakeInv, NEW t \in Threads, HandlerReturns(t) \/ Destroyed(t) \/ RemoveQueue(t)
  PROVE  WakeInv'
<1>1. UNCHANGED queue /\ UNCHANGED event /\ UNCHANGED fStop
  BY DEF HandlerReturns, Destroyed, RemoveQueue
<1>2. /\ Drops(t) /\ Top(t)'.pc \in {"get", "wait", "recv", "run"}
      /\ Top(t).pc \in {"run", "destroy", "remove"}
  BY HandlerReturnsEffect, DestroyedEffect, RemoveQueueEffect DEF HandlerReturns, At
<1>3. Others(t) /\ ~Resting(t)'
  BY <1>2, OthersOf DEF Resting
<1>. QED
  BY <1>1, <1>2, <1>3, HandlerWatched DEF queue, event, LoopPc

(* Destroy loses no wake-up.                                                *)
LEMMA DestroyWatched ==
  ASSUME Sound, WakeInv, NEW t \in Threads, NEW h \in Handlers, Destroy(t, h)
  PROVE  WakeInv'
<1>1. UNCHANGED queue /\ UNCHANGED event /\ UNCHANGED fStop
  BY DEF Destroy
<1>2. Top(t).pc = "run" /\ Adds(t, Top(t), Destroying(h, queues))
  BY DestroyEffect
<1>3. Destroying(h, queues).pc = "destroy"
  BY DEF Destroying
<1>4. Others(t) /\ ~Resting(t)'
  BY <1>2, <1>3, OthersOf, Tops DEF Resting
<1>. QED
  BY <1>1, <1>2, <1>4, HandlerWatched DEF queue, event, LoopPc

(* Stop loses no wake-up.                                                   *)
LEMMA StopWatched ==
  ASSUME Sound, WakeInv, NEW t \in Threads, NEW u \in Threads, Stop(t, u)
  PROVE  WakeInv'
<1>1. UNCHANGED queue /\ UNCHANGED fWait /\ fStop' = fStop \cup {u} /\ signaled' = signaled \cup {u}
  BY DEF Stop
<1>2. Top(t).pc = "run" /\ Adds(t, Top(t), Joining("join", u))
  BY StopEffect
<1>3. Joining("join", u).pc = "join"
  BY DEF Joining
<1>4. Others(t) /\ ~Resting(t)'
  BY <1>2, <1>3, OthersOf, Tops DEF Resting
<1>. QED
  BY <1>1, <1>2, <1>4, HandlerWatched DEF queue, LoopPc

(* Clear takes messages away and wakes threads up.                          *)
LEMMA ClearShrinks ==
  ASSUME Sound, Sound', NEW u \in Threads, NEW hs \in SUBSET Handlers, ClearQueue(u, hs)
  PROVE  /\ has_sends' = has_sends /\ signaled \subseteq signaled'
         /\ \A v \in Threads : /\ sendlist'[v] # <<>> => sendlist[v] # <<>>
                               /\ msgq'[v] # <<>> => msgq[v] # <<>>
                               /\ dmsgq'[v] # {} => dmsgq[v] # {}
<1>1. /\ \A v \in Threads \ {u} : /\ msgq'[v] = msgq[v] /\ dmsgq'[v] = dmsgq[v]
                                  /\ sendlist'[v] = sendlist[v]
      /\ ToSet(sendlist'[u]) \subseteq ToSet(sendlist[u])
      /\ ToSet(msgq'[u]) \subseteq ToSet(msgq[u]) /\ dmsgq'[u] \subseteq dmsgq[u]
      /\ has_sends' = has_sends /\ signaled \subseteq signaled'
      /\ msgq' \in [Threads -> Seq(Message)] /\ sendlist' \in [Threads -> Seq(Message)]
  BY ClearQueueEffect
<1>2. /\ ToSet(sendlist[u]) = {} <=> sendlist[u] = <<>>
      /\ ToSet(msgq[u]) = {} <=> msgq[u] = <<>>
  BY QueueTypes
<1>3. /\ ToSet(sendlist'[u]) = {} <=> sendlist'[u] = <<>>
      /\ ToSet(msgq'[u]) = {} <=> msgq'[u] = <<>>
  <2>1. msgq'[u] \in Seq(Message) /\ sendlist'[u] \in Seq(Message)
    BY <1>1
  <2>. QED
    BY <2>1, QueueSet
<1>4. /\ sendlist'[u] # <<>> => sendlist[u] # <<>>
      /\ msgq'[u] # <<>> => msgq[u] # <<>>
      /\ dmsgq'[u] # {} => dmsgq[u] # {}
  BY <1>1, <1>2, <1>3
<1>. QED
  BY <1>1, <1>4

(* DestroyClear loses no wake-up.                                           *)
LEMMA DestroyClearWatched ==
  ASSUME Sound, WakeInv, NEW t \in Threads, NEW u \in Threads, DestroyClear(t, u)
  PROVE  WakeInv'
<1>. DEFINE f == Destroying(Top(t).h, Top(t).left \ {u})
<1>1. UNCHANGED <<fWait, fStop>>
  BY DEF DestroyClear
<1>2. /\ Top(t).pc = "destroy" /\ Replaces(t, f) /\ Sound'
      /\ ClearQueue(u, {Top(t).h}) /\ {Top(t).h} \in SUBSET Handlers
  BY DestroyClearEffect
<1>3. f.pc = "destroy"
  BY DEF Destroying
<1>. HIDE DEF f
<1>4. Others(t) /\ ~Resting(t)'
  BY <1>2, <1>3, OthersOf, Tops DEF Resting
<1>5. /\ has_sends' = has_sends /\ signaled \subseteq signaled'
      /\ \A v \in Threads : /\ sendlist'[v] # <<>> => sendlist[v] # <<>>
                            /\ msgq'[v] # <<>> => msgq[v] # <<>>
                            /\ dmsgq'[v] # {} => dmsgq[v] # {}
  BY <1>2, ClearShrinks
<1>. QED
  BY <1>1, <1>2, <1>4, <1>5, HandlerWatched DEF LoopPc

(* Join loses no wake-up.                                                   *)
LEMMA JoinWatched ==
  ASSUME Sound, WakeInv, NEW t \in Threads, Join(t)
  PROVE  WakeInv'
<1>1. UNCHANGED <<fWait, fStop>>
  BY DEF Join
<1>2. /\ Top(t).pc = "join" /\ Replaces(t, Joining("remove", Top(t).to)) /\ Sound'
      /\ Top(t).to \in Threads /\ ClearQueue(Top(t).to, Handlers)
  BY JoinEffect
<1>. PICK u \in Threads : u = Top(t).to
  BY <1>2
<1>3. Joining("remove", u).pc = "remove"
  BY DEF Joining
<1>4. Others(t) /\ ~Resting(t)'
  BY <1>2, <1>3, OthersOf, Tops DEF Resting
<1>5. /\ has_sends' = has_sends /\ signaled \subseteq signaled'
      /\ \A v \in Threads : /\ sendlist'[v] # <<>> => sendlist[v] # <<>>
                            /\ msgq'[v] # <<>> => msgq[v] # <<>>
                            /\ dmsgq'[v] # {} => dmsgq[v] # {}
  BY <1>2, ClearShrinks
<1>. QED
  BY <1>1, <1>2, <1>4, <1>5, HandlerWatched DEF LoopPc

(* A message comes to a queue with a wake-up: at once, or from the Send     *)
(* that is about to wake the thread up.                                     *)
LEMMA EnqueueWatched ==
  ASSUME Sound, WakeInv, NEW t \in Threads, Top(t).pc \in QueuePc,
         Enqueue(Top(t).to, Top(t).kind, Top(t).msg), UNCHANGED <<fWait, fStop>>,
         \/ Top(t).kind = "send" /\ Replaces(t, Sending("wake", Top(t).msg.id, Top(t).to, FALSE))
         \/ Top(t).kind # "send" /\ Drops(t) /\ Top(t)'.pc = "run"
  PROVE  WakeInv'
<1>0. Top(t).to \in Threads /\ Top(t).msg \in Message /\ Top(t).kind \in {"post", "delay", "send"}
  BY SoundFacts
<1>. PICK u \in Threads, m \in Message, kind \in {"post", "delay", "send"} :
       u = Top(t).to /\ m = Top(t).msg /\ kind = Top(t).kind
  BY <1>0
<1>. DEFINE f == Sending("wake", m.id, u, FALSE)
<1>1. \/ kind = "send" /\ Replaces(t, f)
      \/ kind # "send" /\ Drops(t) /\ Top(t)'.pc = "run"
  BY Zenon
<1>2. f.pc = "wake" /\ f.to = u
  BY DEF Sending
<1>. HIDE DEF f
<1>3. Others(t) /\ ~Resting(t)'
  BY <1>1, <1>2, OthersOf, Tops DEF Resting
<1>4. Enqueue(u, kind, m)
  OBVIOUS
<1>5. /\ \A v \in Threads \ {u} : /\ msgq'[v] = msgq[v] /\ dmsgq'[v] = dmsgq[v]
                                  /\ sendlist'[v] = sendlist[v]
      /\ kind = "send" =>
           /\ msgq' = msgq /\ dmsgq' = dmsgq /\ signaled' = signaled
           /\ has_sends' = has_sends \cup {u}
      /\ kind # "send" =>
           /\ sendlist' = sendlist /\ has_sends' = has_sends /\ signaled' = signaled \cup {u}
  BY <1>4, EnqueueEffect
<1>6. kind = "send" => Woken(u)'
  <2>1. kind = "send" => Top(t)' = f
    BY <1>1, Tops
  <2>. QED
    BY <1>2, <2>1 DEF Woken, At
<1>7. \A v \in Threads :
        /\ sendlist'[v] # <<>> => sendlist[v] # <<>> \/ (Woken(v)' /\ v \in has_sends')
        /\ msgq'[v] # <<>> => msgq[v] # <<>> \/ v \in signaled'
        /\ dmsgq'[v] # {} => dmsgq[v] # {} \/ v \in signaled'
  <2>. SUFFICES ASSUME NEW v \in Threads
                PROVE  /\ sendlist'[v] # <<>> => sendlist[v] # <<>> \/ (Woken(v)' /\ v \in has_sends')
                       /\ msgq'[v] # <<>> => msgq[v] # <<>> \/ v \in signaled'
                       /\ dmsgq'[v] # {} => dmsgq[v] # {} \/ v \in signaled'
    OBVIOUS
  <2>1. CASE v # u
    BY <1>5, <2>1
  <2>2. CASE v = u /\ kind # "send"
    BY <1>5, <2>2
  <2>3. CASE v = u /\ kind = "send"
    <3>1. Woken(v)'
      BY <1>6, <2>3 DEF Woken
    <3>. QED
      BY <1>5, <2>3, <3>1
  <2>. QED
    BY <2>1, <2>2, <2>3
<1>8. signaled \subseteq signaled' /\ has_sends \subseteq has_sends'
  BY <1>5
<1>. QED
  BY <1>3, <1>7, <1>8, HandlerWatched DEF LoopPc, QueuePc

(* Lock loses no wake-up.                                                   *)
LEMMA LockWatched ==
  ASSUME Sound, WakeInv, NEW t \in Threads, Lock(t)
  PROVE  WakeInv'
<1>. DEFINE f == Queueing("activate", Top(t).kind, Top(t).msg, Top(t).to)
<1>0. UNCHANGED <<fWait, fStop>>
  BY DEF Lock
<1>1. Top(t).pc = "queue"
  BY LockEffect
<1>2. CASE Top(t).to \notin active
  <2>1. Replaces(t, f) /\ UNCHANGED queue /\ UNCHANGED signaled
    BY <1>2, LockEffect
  <2>2. f.pc = "activate"
    BY DEF Queueing
  <2>. HIDE DEF f
  <2>3. Others(t) /\ ~Resting(t)'
    BY <2>1, <2>2, OthersOf, Tops DEF Resting
  <2>. QED
    BY <1>0, <1>1, <2>1, <2>3, HandlerWatched DEF queue, LoopPc
<1>3. CASE Top(t).to \in active
  <2>1. \/ Top(t).kind = "send" /\ Replaces(t, Sending("wake", Top(t).msg.id, Top(t).to, FALSE))
        \/ Top(t).kind # "send" /\ Drops(t) /\ Top(t)'.pc = "run"
    BY <1>3, LockEffect, Zenon
  <2>2. Enqueue(Top(t).to, Top(t).kind, Top(t).msg)
    BY <1>3, LockEffect
  <2>3. Top(t).pc \in QueuePc
    BY <1>1 DEF QueuePc
  <2>. QED
    BY <1>0, <2>1, <2>2, <2>3, EnqueueWatched, Zenon
<1>. QED
  BY <1>2, <1>3

(* Activate loses no wake-up.                                               *)
LEMMA ActivateWatched ==
  ASSUME Sound, WakeInv, NEW t \in Threads, Activate(t)
  PROVE  WakeInv'
<1>1. UNCHANGED <<fWait, fStop>>
  BY DEF Activate
<1>2. \/ Top(t).kind = "send" /\ Replaces(t, Sending("wake", Top(t).msg.id, Top(t).to, FALSE))
      \/ Top(t).kind # "send" /\ Drops(t) /\ Top(t)'.pc = "run"
  BY ActivateEffect, Zenon
<1>3. Enqueue(Top(t).to, Top(t).kind, Top(t).msg)
  BY ActivateEffect
<1>4. Top(t).pc \in QueuePc
  BY ActivateEffect DEF QueuePc
<1>. QED
  BY <1>1, <1>2, <1>3, <1>4, EnqueueWatched, Zenon

(* No step loses a wake-up.                                                 *)
LEMMA WakeStep ==
  ASSUME Sound, WakeInv, NEW t \in Threads, Step(t)
  PROVE  WakeInv'
<1>1. ASSUME NEW due \in SUBSET dmsgq[t], GetMessage(t, due) PROVE WakeInv'
  BY <1>1, GetMessageWatched
<1>2. ASSUME NEW h \in Handlers, NEW kind \in {"post", "delay", "send"}, Submit(t, h, kind)
      PROVE  WakeInv'
  BY <1>2, SubmitWatched
<1>3. ASSUME NEW h \in Handlers, Destroy(t, h) PROVE WakeInv'
  BY <1>3, DestroyWatched
<1>4. ASSUME NEW u \in Threads, DestroyClear(t, u) \/ Stop(t, u) PROVE WakeInv'
  BY <1>4, DestroyClearWatched, StopWatched
<1>5. CASE GetSends(t) \/ GetEmpty(t) \/ Wait(t) \/ SocketEvent(t) \/ ReceiveSends(t)
  BY <1>5, GetSendsWatched, GetEmptyWatched, WaitWatched, SocketEventWatched, ReceiveSendsWatched
<1>6. CASE HandlerReturns(t) \/ Destroyed(t) \/ RemoveQueue(t)
  BY <1>6, ReturnWatched
<1>7. CASE Lock(t) \/ Activate(t) \/ Join(t)
  BY <1>7, LockWatched, ActivateWatched, JoinWatched
<1>8. CASE SendWakeUp(t) \/ SendLoop(t) \/ SendWait(t)
  BY <1>8, SendWakeUpWatched, SendLoopWatched, SendWaitWatched
<1>. QED
  BY <1>1, <1>2, <1>3, <1>4, <1>5, <1>6, <1>7, <1>8 DEF Step

(* The first state.                                                         *)
LEMMA InitWake == Init => WakeInv
<1>. SUFFICES ASSUME Init PROVE WakeInv
  OBVIOUS
<1>. DEFINE f == Loop("get", FALSE)
            g == Running(Main)
<1>1. f.pc = "get" /\ g.pc = "run"
  BY DEF Loop, Running
<1>. HIDE DEF f, g
<1>2. \A t \in Threads : stack[t] = IF t = 1 THEN <<f, g>> ELSE <<f>>
  BY DEF Init, f, g
<1>3. ASSUME NEW t \in Threads
      PROVE  stack[t][1].pc = "get" /\ Top(t).pc \in {"get", "run"}
  <2>1. CASE stack[t] = <<f, g>>
    BY <1>1, <2>1 DEF Top, Last
  <2>2. CASE stack[t] = <<f>>
    BY <1>1, <2>2 DEF Top, Last
  <2>. QED
    BY <1>2, <2>1, <2>2
<1>. QED
  BY <1>3 DEF Init, WakeInv

(* A step of nobody changes nothing.                                        *)
LEMMA RegisteredStutter ==
  ASSUME UNCHANGED vars
  PROVE  /\ Registered => Registered'
         /\ WakeInv => WakeInv'
<1>1. UNCHANGED <<stack, msgq, dmsgq, sendlist>>
      /\ UNCHANGED <<has_sends, signaled, fWait, fStop, active, queues, qlock, mlock, ready, alive, calls>>
  BY DEF vars
<1>2. TypeOK => TypeOK'
  BY <1>1 DEF TypeOK
<1>3. StackInv => StackInv'
  BY <1>1 DEF StackInv
<1>4. LockInv => LockInv'
  BY <1>1 DEF LockInv, At, Top, Free
<1>5. HandlerInv => HandlerInv'
  BY <1>1 DEF HandlerInv, At, Top, Pending
<1>6. StopInv => StopInv'
  BY <1>1 DEF StopInv, At, Top, Pending
<1>7. WakeInv => WakeInv'
  BY <1>1 DEF WakeInv, Woken, At, Top
<1>. QED
  BY <1>2, <1>3, <1>4, <1>5, <1>6, <1>7 DEF Registered, Sound

(* The locks, the registered queues and the wake-ups, in every state that   *)
(* the threads reach (Thread and MessageQueue, Send, Post, Get and the      *)
(* destructors).                                                            *)
THEOREM QueuesConsistent == Spec => [](Registered /\ WakeInv)
<1>1. Init => Registered /\ WakeInv
  BY InitRegistered, InitWake
<1>2. Registered /\ WakeInv /\ [Next]_vars => (Registered /\ WakeInv)'
  <2>. SUFFICES ASSUME Registered, WakeInv, [Next]_vars PROVE Registered' /\ WakeInv'
    OBVIOUS
  <2>1. ASSUME NEW t \in Threads, Step(t) PROVE Registered' /\ WakeInv'
    BY <2>1, RegisteredStep, WakeStep DEF Registered
  <2>2. CASE UNCHANGED vars
    BY <2>2, RegisteredStutter
  <2>. QED
    BY <2>1, <2>2 DEF Next
<1>. QED
  BY <1>1, <1>2, PTL DEF Spec

(* The types and the shape of the stacks.                                   *)
THEOREM ThreadTypes == Spec => [](TypeOK /\ StackInv)
<1>1. Registered => TypeOK /\ StackInv
  BY DEF Registered, Sound
<1>. QED
  BY <1>1, QueuesConsistent, PTL

(* ~MessageHandler leaves no message for its handler in any queue: every    *)
(* queue that holds messages is in the list of the MessageQueueManager, and *)
(* nobody queues one after it has been passed.                              *)
THEOREM NothingStale == Spec => []NoStaleDispatch
<1>1. Registered => NoStaleDispatch
  <2>. SUFFICES ASSUME Registered, NEW t \in Threads, NEW h \in Handlers \ alive,
                       \A u \in Threads : \A f \in Frames(u) : f.pc = "destroy" => f.h # h,
                       NEW m \in Pending(t), m.h = h
                PROVE  FALSE
    BY DEF NoStaleDispatch, Pending
  <2>1. Sound /\ HandlerInv
    BY DEF Registered
  <2>2. PICK v \in Threads : At(v, "destroy") /\ Top(v).h = h
    BY <2>1 DEF HandlerInv
  <2>3. Top(v) \in Frames(v)
    BY <2>1, SoundFacts, StackFacts
  <2>. QED
    BY <2>2, <2>3 DEF At
<1>. QED
  BY <1>1, QueuesConsistent, PTL

(* A thread never sleeps in Get over a message: Post and PostDelayed wake   *)
(* it up while they hold the lock of the queue, a Send that took the wake-  *)
(* up passes it on, and the one that queued a message last has yet to call  *)
(* WakeUp.                                                                  *)
THEOREM NoWakeUpLost == Spec => []NoLostWakeUp
<1>1. Registered /\ WakeInv => NoLostWakeUp
  <2>. SUFFICES ASSUME Registered, WakeInv, NEW t \in Threads, Idle(t)
                PROVE  /\ msgq[t] = <<>>
                       /\ sendlist[t] = <<>> \/ \E u \in Threads : \E f \in Frames(u) : f.pc = "wake" /\ f.to = t
    BY DEF NoLostWakeUp
  <2>1. Sound
    BY DEF Registered
  <2>2. Top(t).pc = "wait" /\ t \notin signaled /\ t \in fWait
    BY DEF Idle, At
  <2>3. stack[t][1].pc = "wait"
    BY <2>1, <2>2, Bottom DEF LoopPc
  <2>4. msgq[t] = <<>> /\ (sendlist[t] # <<>> => Woken(t))
    BY <2>2, <2>3 DEF WakeInv
  <2>5. \A u \in Threads : Top(u) \in Frames(u)
    BY <2>1, SoundFacts, StackFacts
  <2>. QED
    BY <2>2, <2>4, <2>5 DEF Woken, At
<1>. QED
  BY <1>1, QueuesConsistent, PTL

-----------------------------------------------------------------------------
(* The ids of the messages that are sent.                                   *)

(* What a frame carries and sends.                                          *)
Mute(f) == Carried(f) = 0 /\ Sent(f) = 0
(* The fields behind this, for each kind of call.                           *)
LEMMA FrameIds ==
  ASSUME NEW f \in Frame
  PROVE  /\ Carried(f) \in Nat /\ Sent(f) \in Nat
         /\ f.pc \in QueuePc => Carried(f) = f.msg.id /\ Sent(f) = f.msg.id /\ f.msg \in Message
         /\ f.pc = "recv" => /\ Carried(f) = f.msg.id /\ Sent(f) = 0
                             /\ f.msg \in Message \/ (f.msg = NoMessage /\ f.msg.id = 0)
                             /\ f.msg # NoMessage => f.msg \in Message /\ f.msg.id # 0
         /\ f.pc \in SendPc => Carried(f) = 0 /\ Sent(f) = f.id /\ f.id \in Nat \ {0} /\ f.to \in Threads
         /\ f.pc \notin QueuePc \cup SendPc \cup {"recv"} => Mute(f)
<1>1. \A m \in Message : m.id \in Nat \ {0}
  BY DEF Message
<1>2. NoMessage.id = 0
  BY DEF NoMessage
<1>3. CASE f.pc \in QueuePc
  BY <1>1, <1>3, FrameFields DEF Carried, Sent, QueuePc, SendPc
<1>4. CASE f.pc = "recv"
  <2>1. f.msg \in Message \cup {NoMessage}
    BY <1>4, FrameFields
  <2>. QED
    BY <1>1, <1>2, <1>4, <2>1 DEF Carried, Sent, QueuePc, SendPc
<1>5. CASE f.pc \in SendPc
  BY <1>5, FrameFields DEF Carried, Sent, QueuePc, SendPc
<1>6. CASE f.pc \notin QueuePc \cup SendPc \cup {"recv"}
  BY <1>6 DEF Carried, Sent, Mute
<1>. QED
  BY <1>3, <1>4, <1>5, <1>6 DEF QueuePc, SendPc

(* g continues f: it is the same call, further on.                          *)
Continues(f, g) ==
  /\ Carried(g) = Carried(f) /\ Sent(g) = Sent(f)
  /\ g.pc = "recv" <=> f.pc = "recv"
  /\ f.pc = "recv" => g.msg = f.msg
  /\ g.pc \in SendPc <=> f.pc \in SendPc
  /\ f.pc \in SendPc => g.id = f.id /\ g.to = f.to

(* The call at depth j of v goes on.                                        *)
Steady(v, j) ==
  /\ j \in 1..Len(stack[v]) /\ j \in 1..Len(stack'[v])
  /\ Continues(stack[v][j], stack'[v][j])

(* A step of t, but for the calls in old, which end, and those in new.      *)
Traced(t, old, new) ==
  /\ stack' \in [Threads -> Seq(Frame)]
  /\ \A v \in Threads : \A j \in 1..Len(stack'[v]) :
       Steady(v, j) \/ Mute(stack'[v][j]) \/ (v = t /\ j \in new)
  /\ \A v \in Threads : \A j \in 1..Len(stack[v]) :
       Steady(v, j) \/ Mute(stack[v][j]) \/ (v = t /\ j \in old)

(* The calls of the other threads, and those outside the innermost.         *)
LEMMA OutsideSteady ==
  ASSUME Sound, NEW t \in Threads, Others(t)
  PROVE  /\ \A v \in Threads \ {t} : \A j \in 1..Len(stack[v]) : Steady(v, j)
         /\ \A j \in 1..(Len(stack[t]) - 1) : Steady(t, j)
         /\ \A v \in Threads \ {t} : Len(stack'[v]) = Len(stack[v])
         /\ Len(stack[t]) \in Nat \ {0} /\ Top(t) = stack[t][Len(stack[t])]
<1>1. stack \in [Threads -> Seq(Frame)] /\ StackInv
  BY SoundFacts
<1>2. Len(stack[t]) \in Nat \ {0} /\ Top(t) = stack[t][Len(stack[t])]
  BY <1>1, StackFacts
<1>3. \A f : Continues(f, f)
  BY DEF Continues
<1>. QED
  BY <1>2, <1>3 DEF Others, Steady

(* A call that is replaced,                                                 *)
LEMMA TracedReplaces ==
  ASSUME Sound, NEW t \in Threads, NEW f, Replaces(t, f)
  PROVE  /\ Continues(Top(t), f) => Traced(t, {}, {})
         /\ Mute(Top(t)) /\ Mute(f) => Traced(t, {}, {})
         /\ Traced(t, {Len(stack[t])}, {Len(stack[t])})
<1>. DEFINE n == Len(stack[t])
<1>1. Others(t) /\ Len(stack'[t]) = n /\ stack'[t][n] = f
  BY DEF Replaces
<1>2. /\ \A v \in Threads \ {t} : \A j \in 1..Len(stack[v]) : Steady(v, j)
      /\ \A j \in 1..(n - 1) : Steady(t, j)
      /\ \A v \in Threads \ {t} : Len(stack'[v]) = Len(stack[v])
      /\ n \in Nat \ {0} /\ Top(t) = stack[t][n]
  BY <1>1, OutsideSteady
<1>3. \A j \in 1..n : Steady(t, j) \/ j = n
  BY <1>2
<1>4. Continues(Top(t), f) => Steady(t, n)
  BY <1>1, <1>2 DEF Steady
<1>5. stack' \in [Threads -> Seq(Frame)]
  BY <1>1 DEF Others
<1>. HIDE DEF n
<1>6. Traced(t, {n}, {n})
  BY <1>1, <1>2, <1>3, <1>5 DEF Traced, n
<1>7. Continues(Top(t), f) => Traced(t, {}, {})
  BY <1>1, <1>2, <1>3, <1>4, <1>5 DEF Traced, n
<1>8. Mute(Top(t)) /\ Mute(f) => Traced(t, {}, {})
  BY <1>1, <1>2, <1>3, <1>5 DEF Traced, n
<1>. QED
  BY <1>6, <1>7, <1>8 DEF n

(* one that is made,                                                        *)
LEMMA TracedAdds ==
  ASSUME Sound, NEW t \in Threads, NEW f, NEW g, Adds(t, f, g)
  PROVE  /\ Continues(Top(t), f) /\ Mute(g) => Traced(t, {}, {})
         /\ Mute(Top(t)) /\ Mute(f) /\ Mute(g) => Traced(t, {}, {})
         /\ Continues(Top(t), f) => Traced(t, {}, {Len(stack[t]) + 1})
         /\ Mute(g) => Traced(t, {Len(stack[t])}, {Len(stack[t])})
<1>. DEFINE n == Len(stack[t])
<1>1. Others(t) /\ Len(stack'[t]) = n + 1 /\ stack'[t][n] = f /\ stack'[t][n + 1] = g
  BY DEF Adds
<1>2. /\ \A v \in Threads \ {t} : \A j \in 1..Len(stack[v]) : Steady(v, j)
      /\ \A j \in 1..(n - 1) : Steady(t, j)
      /\ \A v \in Threads \ {t} : Len(stack'[v]) = Len(stack[v])
      /\ n \in Nat \ {0} /\ Top(t) = stack[t][n]
  BY <1>1, OutsideSteady
<1>3. /\ \A j \in 1..n : Steady(t, j) \/ j = n
      /\ \A j \in 1..(n + 1) : Steady(t, j) \/ j = n \/ j = n + 1
  <2>1. \A k \in Nat : \A j \in 1..(k + 1) : j \in 1..(k - 1) \/ j = k \/ j = k + 1
    OBVIOUS
  <2>2. \A k \in Nat : \A j \in 1..k : j \in 1..(k - 1) \/ j = k
    OBVIOUS
  <2>. QED
    BY <1>2, <2>1, <2>2
<1>4. Continues(Top(t), f) => Steady(t, n)
  BY <1>1, <1>2 DEF Steady
<1>5. stack' \in [Threads -> Seq(Frame)]
  BY <1>1 DEF Others
<1>. HIDE DEF n
<1>6. Mute(g) => Traced(t, {n}, {n})
  BY <1>1, <1>2, <1>3, <1>5 DEF Traced, n
<1>7. Continues(Top(t), f) /\ Mute(g) => Traced(t, {}, {})
  BY <1>1, <1>2, <1>3, <1>4, <1>5 DEF Traced, n
<1>8. Continues(Top(t), f) => Traced(t, {}, {n + 1})
  BY <1>1, <1>2, <1>3, <1>4, <1>5 DEF Traced, n
<1>9. Mute(Top(t)) /\ Mute(f) /\ Mute(g) => Traced(t, {}, {})
  BY <1>1, <1>2, <1>3, <1>5 DEF Traced, n
<1>. QED
  BY <1>6, <1>7, <1>8, <1>9 DEF n

(* one that returns,                                                        *)
LEMMA TracedDrops ==
  ASSUME Sound, NEW t \in Threads, Drops(t)
  PROVE  /\ Mute(Top(t)) => Traced(t, {}, {})
         /\ Traced(t, {Len(stack[t])}, {})
<1>. DEFINE n == Len(stack[t])
<1>1. Others(t) /\ Len(stack'[t]) = n - 1
  BY DEF Drops
<1>2. /\ \A v \in Threads \ {t} : \A j \in 1..Len(stack[v]) : Steady(v, j)
      /\ \A j \in 1..(n - 1) : Steady(t, j)
      /\ \A v \in Threads \ {t} : Len(stack'[v]) = Len(stack[v])
      /\ n \in Nat \ {0} /\ Top(t) = stack[t][n]
  BY <1>1, OutsideSteady
<1>3. \A j \in 1..n : Steady(t, j) \/ j = n
  BY <1>2
<1>5. stack' \in [Threads -> Seq(Frame)]
  BY <1>1 DEF Others
<1>. HIDE DEF n
<1>6. Traced(t, {n}, {})
  BY <1>1, <1>2, <1>3, <1>5 DEF Traced, n
<1>7. Mute(Top(t)) => Traced(t, {}, {})
  BY <1>1, <1>2, <1>3, <1>5 DEF Traced, n
<1>. QED
  BY <1>6, <1>7 DEF n

(* and stacks that stay.                                                    *)
LEMMA TracedNothing ==
  ASSUME Sound, NEW t \in Threads, stack' = stack
  PROVE  Traced(t, {}, {})
<1>1. \A f : Continues(f, f)
  BY DEF Continues
<1>2. stack \in [Threads -> Seq(Frame)]
  BY SoundFacts
<1>. QED
  BY <1>1, <1>2 DEF Traced, Steady

(* What the call at depth j of v carries and sends, it did before.          *)
KeptId(v, j) ==
  /\ Carried(stack'[v][j]) # 0 =>
       j \in 1..Len(stack[v]) /\ Carried(stack'[v][j]) = Carried(stack[v][j])
  /\ Sent(stack'[v][j]) # 0 =>
       j \in 1..Len(stack[v]) /\ Sent(stack'[v][j]) = Sent(stack[v][j])

(* Every call but the one at depth k of t.                                  *)
KeptIds(t, k) == \A v \in Threads : \A j \in 1..Len(stack'[v]) : (v = t /\ j = k) \/ KeptId(v, j)

(* What is traced is kept.                                                  *)
LEMMA TracedKept ==
  ASSUME NEW t \in Threads, NEW old
  PROVE  /\ \A k : Traced(t, old, {k}) => KeptIds(t, k)
         /\ Traced(t, old, {}) => KeptIds(t, 0)
<1>1. ASSUME NEW v, NEW j, Steady(v, j) \/ Mute(stack'[v][j]) PROVE KeptId(v, j)
  BY <1>1 DEF Steady, Continues, Mute, KeptId
<1>. QED
  BY <1>1 DEF Traced, KeptIds

(* No two calls carry or send the same message.                             *)
LEMMA IdsUnique ==
  ASSUME FrameInv, NEW t \in Threads, NEW k, KeptIds(t, k),
         k \in 1..Len(stack'[t]) => \A v \in Threads : \A j \in 1..Len(stack[v]) :
           /\ Carried(stack'[t][k]) # 0 => Carried(stack[v][j]) # Carried(stack'[t][k])
           /\ Sent(stack'[t][k]) # 0 => Sent(stack[v][j]) # Sent(stack'[t][k])
  PROVE  FrameInv'
<1>. SUFFICES ASSUME NEW v \in Threads, NEW w \in Threads,
                     NEW i \in 1..Len(stack'[v]), NEW j \in 1..Len(stack'[w])
              PROVE  /\ Carried(stack'[v][i]) = Carried(stack'[w][j]) /\ Carried(stack'[v][i]) # 0
                          => v = w /\ i = j
                     /\ Sent(stack'[v][i]) = Sent(stack'[w][j]) /\ Sent(stack'[v][i]) # 0
                          => v = w /\ i = j
  BY DEF FrameInv, Depths
<1>1. CASE (v = t /\ i = k) /\ (w = t /\ j = k)
  BY <1>1
<1>2. CASE (v = t /\ i = k) /\ KeptId(w, j)
  BY <1>2 DEF KeptId
<1>3. CASE KeptId(v, i) /\ (w = t /\ j = k)
  BY <1>3 DEF KeptId
<1>4. CASE KeptId(v, i) /\ KeptId(w, j)
  BY <1>4 DEF KeptId, FrameInv, Depths
<1>. QED
  BY <1>1, <1>2, <1>3, <1>4 DEF KeptIds

(* What a call carries is neither in a list nor answered.                   *)
LEMMA IdsCarried ==
  ASSUME CarriedInv, NEW t \in Threads, NEW k, KeptIds(t, k), NEW gone,
         ready' \subseteq ready \cup gone,
         \A u \in Threads : \A x : Listed(u, x)' => Listed(u, x) \/ x \in gone,
         \A v \in Threads : \A j \in 1..Len(stack'[v]) :
           Carried(stack'[v][j]) # 0 => Carried(stack'[v][j]) \notin gone,
         k \in 1..Len(stack'[t]) /\ Carried(stack'[t][k]) # 0 =>
           /\ Carried(stack'[t][k]) \notin ready'
           /\ \A u \in Threads : \A x : x = Carried(stack'[t][k]) => ~Listed(u, x)'
  PROVE  CarriedInv'
<1>. SUFFICES ASSUME NEW v \in Threads, NEW j \in 1..Len(stack'[v]), NEW x,
                     x = Carried(stack'[v][j]), x # 0
              PROVE  x \notin ready' /\ \A u \in Threads : ~Listed(u, x)'
  <2>1. CarriedInv' <=> \A v \in Threads : \A j \in 1..Len(stack'[v]) :
          Carried(stack'[v][j]) # 0 =>
            /\ Carried(stack'[v][j]) \notin ready'
            /\ \A u \in Threads : ~(\E m \in ToSet(sendlist'[u]) : m.id = Carried(stack'[v][j]))
    BY DEF CarriedInv, Depths, Listed
  <2>. QED
    BY <2>1 DEF Listed
<1>1. CASE v = t /\ j = k
  BY <1>1
<1>2. CASE KeptId(v, j)
  <2>1. j \in 1..Len(stack[v]) /\ x = Carried(stack[v][j])
    BY <1>2 DEF KeptId
  <2>2. x \notin ready /\ \A u \in Threads : ~Listed(u, x)
    BY <2>1 DEF CarriedInv, Depths
  <2>. QED
    BY <2>2
<1>. QED
  BY <1>1, <1>2 DEF KeptIds

(* All ids were given out.                                                  *)
LEMMA IdsKnown ==
  ASSUME Sound, KnownInv, NEW t \in Threads, NEW k, KeptIds(t, k), stack' \in [Threads -> Seq(Frame)],
         calls' \in Nat, calls <= calls',
         k \in 1..Len(stack'[t]) => Carried(stack'[t][k]) <= calls' /\ Sent(stack'[t][k]) <= calls',
         \A u \in Threads : \A m \in ToSet(sendlist'[u]) : m.id <= calls',
         \A x \in ready' : x <= calls'
  PROVE  KnownInv'
<1>1. calls \in Nat
  BY DEF Sound, TypeOK
<1>2. ASSUME NEW v \in Threads, NEW j \in 1..Len(stack'[v])
      PROVE  Carried(stack'[v][j]) <= calls' /\ Sent(stack'[v][j]) <= calls'
  <2>1. CASE v = t /\ j = k
    BY <2>1
  <2>2. CASE KeptId(v, j)
    <3>1. stack'[v][j] \in Frame
      OBVIOUS
    <3>2. Carried(stack'[v][j]) \in Nat /\ Sent(stack'[v][j]) \in Nat
      BY <3>1, FrameIds
    <3>3. /\ Carried(stack'[v][j]) # 0 => Carried(stack'[v][j]) <= calls
          /\ Sent(stack'[v][j]) # 0 => Sent(stack'[v][j]) <= calls
      BY <2>2 DEF KeptId, KnownInv, Depths
    <3>. QED
      BY <1>1, <3>2, <3>3
  <2>. QED
    BY <2>1, <2>2 DEF KeptIds
<1>. QED
  BY <1>2 DEF KnownInv, Depths

(* The steps that send, list and receive nothing.                           *)
LEMMA QuietIds ==
  ASSUME Sound, IdInv, NEW t \in Threads, NEW old, Traced(t, old, {}),
         sendlist' = sendlist, ready' \subseteq ready, calls' \in Nat, calls <= calls'
  PROVE  IdInv'
<1>0. KnownInv /\ FrameInv /\ CarriedInv /\ ListInv
  BY DEF IdInv
<1>1. KeptIds(t, 0) /\ stack' \in [Threads -> Seq(Frame)]
  BY TracedKept DEF Traced
<1>2. 0 \notin 1..Len(stack'[t])
  OBVIOUS
<1>3. FrameInv'
  BY <1>0, <1>1, <1>2, IdsUnique
<1>4. CarriedInv'
  <2>0. PICK gone : gone = {}
    OBVIOUS
  <2>1. \A u \in Threads : \A x : Listed(u, x)' => Listed(u, x) \/ x \in gone
    BY DEF Listed
  <2>2. /\ ready' \subseteq ready \cup gone
        /\ \A v \in Threads : \A j \in 1..Len(stack'[v]) :
             Carried(stack'[v][j]) # 0 => Carried(stack'[v][j]) \notin gone
    BY <2>0
  <2>. QED
    BY <1>0, <1>1, <1>2, <2>1, <2>2, IdsCarried
<1>5. KnownInv'
  <2>1. \A u \in Threads : \A m \in ToSet(sendlist'[u]) : m.id <= calls'
    <3>. SUFFICES ASSUME NEW u \in Threads, NEW m \in ToSet(sendlist[u]) PROVE m.id <= calls'
      OBVIOUS
    <3>1. m.id <= calls /\ m.id \in Nat
      BY <1>0, QueueTypes DEF KnownInv, Message
    <3>. QED
      BY <3>1 DEF Sound, TypeOK
  <2>2. \A x \in ready' : x <= calls'
    <3>. SUFFICES ASSUME NEW x \in ready PROVE x <= calls'
      OBVIOUS
    <3>. QED
      BY <1>0 DEF KnownInv, Sound, TypeOK
  <2>. QED
    BY <1>0, <1>1, <1>2, <2>1, <2>2, IdsKnown
<1>6. ListInv'
  BY <1>0 DEF ListInv
<1>. QED
  BY <1>3, <1>4, <1>5, <1>6 DEF IdInv

(* A call gets a new id.                                                    *)
LEMMA FreshIds ==
  ASSUME Sound, IdInv, NEW t \in Threads, NEW k, Traced(t, {}, {k}),
         Carried(stack'[t][k]) = calls + 1, Sent(stack'[t][k]) = calls + 1,
         sendlist' = sendlist, ready' = ready, calls' = calls + 1
  PROVE  IdInv'
<1>0. KnownInv /\ FrameInv /\ CarriedInv /\ ListInv /\ calls \in Nat
  BY DEF IdInv, Sound, TypeOK
<1>1. KeptIds(t, k) /\ stack' \in [Threads -> Seq(Frame)]
  BY TracedKept DEF Traced
<1>2. \A x : x <= calls => x # calls + 1
  BY <1>0
<1>3. FrameInv'
  <2>1. \A v \in Threads : \A j \in 1..Len(stack[v]) :
          Carried(stack[v][j]) # calls + 1 /\ Sent(stack[v][j]) # calls + 1
    BY <1>0, <1>2 DEF KnownInv, Depths
  <2>. QED
    BY <1>0, <1>1, <2>1, IdsUnique
<1>4. CarriedInv'
  <2>0. PICK gone : gone = {}
    OBVIOUS
  <2>1. \A u \in Threads : \A x : Listed(u, x)' => Listed(u, x) \/ x \in gone
    BY DEF Listed
  <2>2. /\ ready' \subseteq ready \cup gone
        /\ \A v \in Threads : \A j \in 1..Len(stack'[v]) :
             Carried(stack'[v][j]) # 0 => Carried(stack'[v][j]) \notin gone
    BY <2>0
  <2>3. calls + 1 \notin ready' /\ \A u \in Threads : \A x : x = calls + 1 => ~Listed(u, x)'
    BY <1>0, <1>2 DEF KnownInv, Listed
  <2>. QED
    BY <1>0, <1>1, <2>1, <2>2, <2>3, IdsCarried
<1>5. KnownInv'
  <2>1. \A u \in Threads : \A m \in ToSet(sendlist'[u]) : m.id <= calls'
    <3>. SUFFICES ASSUME NEW u \in Threads, NEW m \in ToSet(sendlist[u]) PROVE m.id <= calls'
      OBVIOUS
    <3>1. m.id <= calls /\ m.id \in Nat
      BY <1>0, QueueTypes DEF KnownInv, Message
    <3>. QED
      BY <1>0, <3>1
  <2>2. \A x \in ready' : x <= calls'
    <3>. SUFFICES ASSUME NEW x \in ready PROVE x <= calls'
      OBVIOUS
    <3>. QED
      BY <1>0 DEF KnownInv, Sound, TypeOK
  <2>3. calls <= calls' /\ calls' \in Nat /\ calls + 1 <= calls'
    BY <1>0
  <2>. QED
    BY <1>0, <1>1, <2>1, <2>2, <2>3, IdsKnown
<1>6. ListInv'
  BY <1>0 DEF ListInv
<1>. QED
  BY <1>3, <1>4, <1>5, <1>6 DEF IdInv

(* The lists as sets.                                                       *)
LEMMA ListFacts ==
  ASSUME Sound, IdInv, NEW t \in Threads
  PROVE  /\ sendlist[t] \in Seq(Message) /\ Once(sendlist[t], Message)
         /\ \A y : y \in ToSet(sendlist[t]) <=> Queued(sendlist[t], y)
         /\ \A m \in ToSet(sendlist[t]) : m \in Message /\ m.id \in Nat \ {0} /\ m.thread \in Threads
         /\ \A x : Listed(t, x) => x # 0
<1>1. sendlist[t] \in Seq(Message) /\ ToSet(sendlist[t]) \subseteq Message
  BY QueueTypes
<1>2. Once(sendlist[t], Message)
  BY DEF IdInv, ListInv, Once
<1>3. \A m \in ToSet(sendlist[t]) : m \in Message /\ m.id \in Nat \ {0} /\ m.thread \in Threads
  BY <1>1 DEF Message
<1>. QED
  BY <1>1, <1>2, <1>3, QueueSet DEF Listed

(* The same after a step, from the sequence.                                *)
LEMMA OnceListed ==
  ASSUME NEW q \in Seq(Message), Once(q, Message)
  PROVE  \A i, j \in 1..Len(q) : q[i] = q[j] => i = j
  BY DEF Once

(* The innermost call, by its depth.                                        *)
LEMMA TopDepth ==
  ASSUME Sound, NEW t \in Threads
  PROVE  /\ Len(stack[t]) \in 1..Len(stack[t]) /\ Top(t) = stack[t][Len(stack[t])]
         /\ Len(stack[t]) \in Nat \ {0} /\ Top(t) \in Frame
         /\ stack \in [Threads -> Seq(Frame)]
         /\ \A v \in Threads : \A j \in 1..Len(stack[v]) : stack[v][j] \in Frame
  BY SoundFacts, StackFacts

(* Send puts its message into the list.                                     *)
LEMMA ListIds ==
  ASSUME Sound, IdInv, NEW t \in Threads, Top(t).pc \in QueuePc, NEW u \in Threads,
         NEW m \in Message, m = Top(t).msg, NEW f, f.pc \in SendPc, f.id = m.id, Replaces(t, f),
         sendlist'[u] = Append(sendlist[u], m), sendlist' \in [Threads -> Seq(Message)],
         \A v \in Threads \ {u} : sendlist'[v] = sendlist[v],
         ready' = ready, calls' = calls
  PROVE  IdInv'
<1>0. KnownInv /\ FrameInv /\ CarriedInv /\ ListInv /\ calls \in Nat
  BY DEF IdInv, Sound, TypeOK
<1>. DEFINE n == Len(stack[t])
<1>1. n \in 1..n /\ Top(t) = stack[t][n] /\ Top(t) \in Frame /\ n \in Nat \ {0}
  BY TopDepth
<1>2. Carried(stack[t][n]) = m.id /\ Sent(stack[t][n]) = m.id /\ m.id \in Nat \ {0}
  BY <1>1, FrameIds DEF Message
<1>3. stack' \in [Threads -> Seq(Frame)] /\ Len(stack'[t]) = n /\ stack'[t][n] = f
  BY DEF Replaces, Others
<1>4. f \in Frame
  BY <1>1, <1>3
<1>5. Carried(stack'[t][n]) = 0 /\ Sent(stack'[t][n]) = m.id
  BY <1>3, <1>4, FrameIds
<1>6. KeptIds(t, 0)
  <2>1. KeptIds(t, n)
    BY TracedReplaces, TracedKept
  <2>2. KeptId(t, n)
    BY <1>1, <1>2, <1>5 DEF KeptId
  <2>. QED
    BY <2>1, <2>2 DEF KeptIds
<1>7. /\ ToSet(sendlist'[u]) = ToSet(sendlist[u]) \cup {m}
      /\ \A v \in Threads : \A x \in ToSet(sendlist'[v]) : x \in ToSet(sendlist[v]) \/ (v = u /\ x = m)
  <2>1. ToSet(sendlist'[u]) = ToSet(sendlist[u]) \cup {m}
    BY QueueTypes, AppendSet
  <2>. QED
    BY <2>1
<1>8. m.id \notin ready /\ \A v \in Threads : \A x \in ToSet(sendlist[v]) : x.id # m.id
  BY <1>0, <1>1, <1>2 DEF CarriedInv, Listed, Depths
<1>. HIDE DEF n
<1>9. 0 \notin 1..Len(stack'[t])
  OBVIOUS
<1>10. FrameInv'
  BY <1>0, <1>6, <1>9, IdsUnique
<1>11. CarriedInv'
  <2>0. PICK gone : gone = {m.id}
    OBVIOUS
  <2>1. \A v \in Threads : \A x : Listed(v, x)' => Listed(v, x) \/ x \in gone
    BY <1>7, <2>0 DEF Listed
  <2>2. \A v \in Threads : \A j \in 1..Len(stack'[v]) :
          Carried(stack'[v][j]) # 0 => Carried(stack'[v][j]) \notin gone
    <3>. SUFFICES ASSUME NEW v \in Threads, NEW j \in 1..Len(stack'[v]),
                         Carried(stack'[v][j]) = m.id
                  PROVE  FALSE
      BY <2>0
    <3>1. KeptId(v, j)
      BY <1>6, <1>9 DEF KeptIds
    <3>2. j \in 1..Len(stack[v]) /\ Carried(stack[v][j]) = m.id
      BY <1>2, <3>1 DEF KeptId
    <3>3. v = t /\ j = n
      <4>1. n \in 1..Len(stack[t]) /\ Carried(stack[t][n]) = Carried(stack[v][j])
            /\ Carried(stack[t][n]) # 0
        BY <1>1, <1>2, <3>2 DEF n
      <4>. QED
        BY <1>0, <3>2, <4>1 DEF FrameInv, Depths
    <3>. QED
      BY <1>2, <1>5, <3>3
  <2>3. ready' \subseteq ready \cup gone
    OBVIOUS
  <2>. QED
    BY <1>0, <1>6, <1>9, <2>1, <2>2, <2>3, IdsCarried
<1>12. KnownInv'
  <2>1. Sent(stack[t][n]) <= calls
    BY <1>0, <1>1 DEF KnownInv, Depths, n
  <2>2. \A v \in Threads : \A x \in ToSet(sendlist'[v]) : x.id <= calls'
    BY <1>0, <1>2, <1>7, <2>1 DEF KnownInv
  <2>3. (\A x \in ready' : x <= calls') /\ calls <= calls' /\ calls' \in Nat
    BY <1>0 DEF KnownInv
  <2>. QED
    BY <1>0, <1>3, <1>6, <1>9, <2>2, <2>3, IdsKnown
<1>13. ListInv'
  <2>1. \A v, w \in Threads : \A x \in ToSet(sendlist'[v]), y \in ToSet(sendlist'[w]) :
          x.id = y.id => v = w /\ x = y
    BY <1>0, <1>7, <1>8 DEF ListInv
  <2>2. \A v \in Threads : \A x \in ToSet(sendlist'[v]) : x.id \notin ready'
    BY <1>0, <1>7, <1>8 DEF ListInv
  <2>3. ASSUME NEW v \in Threads
        PROVE  \A i, j \in 1..Len(sendlist'[v]) : sendlist'[v][i] = sendlist'[v][j] => i = j
    <3>1. CASE v # u
      BY <1>0, <3>1 DEF ListInv
    <3>2. CASE v = u
      <4>1. sendlist[u] \in Seq(Message) /\ Once(sendlist[u], Message) /\ ~Queued(sendlist[u], m)
        BY <1>8, ListFacts
      <4>2. Once(Append(sendlist[u], m), Message)
        BY <4>1, OnceAppend
      <4>3. sendlist'[u] \in Seq(Message) /\ Once(sendlist'[u], Message)
        BY <4>2
      <4>. QED
        BY <3>2, <4>3, OnceListed
    <3>. QED
      BY <3>1, <3>2
  <2>. QED
    BY <2>1, <2>2, <2>3 DEF ListInv
<1>. QED
  BY <1>10, <1>11, <1>12, <1>13 DEF IdInv

(* Only the innermost call of t carries its message.                        *)
LEMMA OnlyCarrier ==
  ASSUME Sound, FrameInv, NEW t \in Threads, NEW k, KeptIds(t, k),
         NEW v \in Threads, NEW j \in 1..Len(stack'[v]), ~(v = t /\ j = k),
         Carried(stack'[v][j]) = Carried(Top(t)), Carried(stack'[v][j]) # 0
  PROVE  v = t /\ j = Len(stack[t])
<1>1. KeptId(v, j)
  BY DEF KeptIds
<1>2. j \in 1..Len(stack[v]) /\ Carried(stack[v][j]) = Carried(Top(t)) /\ Carried(stack[v][j]) # 0
  BY <1>1 DEF KeptId
<1>3. Len(stack[t]) \in 1..Len(stack[t]) /\ Top(t) = stack[t][Len(stack[t])]
  BY TopDepth
<1>. QED
  BY <1>2, <1>3 DEF FrameInv, Depths

(* A receiver reports a message and takes the next one.                     *)
LEMMA ReceiveIds ==
  ASSUME Sound, IdInv, NEW t \in Threads, ReceiveSends(t)
  PROVE  IdInv'
<1>0. KnownInv /\ FrameInv /\ CarriedInv /\ ListInv /\ calls \in Nat
  BY DEF IdInv, Sound, TypeOK
<1>. DEFINE n == Len(stack[t])
            m == Top(t).msg
            h == Head(sendlist[t])
<1>1. n \in 1..n /\ Top(t) = stack[t][n] /\ Top(t) \in Frame /\ n \in Nat \ {0}
  BY TopDepth
<1>2. /\ Top(t).pc = "recv" /\ ready' = ready \cup ({m.id} \ {0}) /\ calls' = calls
      /\ \A v \in Threads \ {t} : sendlist'[v] = sendlist[v]
      /\ \/ sendlist[t] = <<>> /\ sendlist' = sendlist /\ Drops(t)
         \/ /\ sendlist[t] # <<>> /\ h \in Message
            /\ sendlist'[t] = Tail(sendlist[t])
            /\ ToSet(sendlist[t]) = ToSet(sendlist'[t]) \cup {h}
            /\ Adds(t, Receiving(h), Running(h.h))
  BY ReceiveSendsEffect DEF ReceiveSends
<1>3. Carried(Top(t)) = m.id /\ m.id \in Nat
  BY <1>1, <1>2, FrameIds
<1>4. m.id # 0 => m.id \notin ready /\ \A v \in Threads : \A x \in ToSet(sendlist[v]) : x.id # m.id
  BY <1>0, <1>1, <1>3 DEF CarriedInv, Listed, Depths
<1>5. m.id <= calls
  BY <1>0, <1>1, <1>3 DEF KnownInv, Depths
<1>. HIDE DEF n, m, h
<1>6. \A x \in ready' : x <= calls'
  BY <1>0, <1>2, <1>5 DEF KnownInv
<1>7. CASE sendlist[t] = <<>> /\ sendlist' = sendlist /\ Drops(t)
  <2>1. KeptIds(t, 0) /\ stack' \in [Threads -> Seq(Frame)]
    BY <1>7, TracedDrops, TracedKept DEF Traced
  <2>2. 0 \notin 1..Len(stack'[t]) /\ n \notin 1..Len(stack'[t])
    BY <1>1, <1>7 DEF Drops, n
  <2>3. FrameInv'
    BY <1>0, <2>1, <2>2, IdsUnique
  <2>4. CarriedInv'
    <3>0. PICK gone : gone = {m.id} \ {0}
      OBVIOUS
    <3>1. \A v \in Threads : \A x : Listed(v, x)' => Listed(v, x) \/ x \in gone
      BY <1>7 DEF Listed
    <3>2. \A v \in Threads : \A j \in 1..Len(stack'[v]) :
            Carried(stack'[v][j]) # 0 => Carried(stack'[v][j]) \notin gone
      <4>. SUFFICES ASSUME NEW v \in Threads, NEW j \in 1..Len(stack'[v]),
                           Carried(stack'[v][j]) # 0, Carried(stack'[v][j]) = m.id
                    PROVE  FALSE
        BY <3>0
      <4>1. v = t /\ j = n
        BY <1>0, <1>3, <2>1, <2>2, OnlyCarrier DEF n
      <4>. QED
        BY <2>2, <4>1
    <3>3. ready' \subseteq ready \cup gone
      BY <1>2, <3>0
    <3>. QED
      BY <1>0, <2>1, <2>2, <3>1, <3>2, <3>3, IdsCarried
  <2>5. KnownInv'
    <3>1. \A v \in Threads : \A x \in ToSet(sendlist'[v]) : x.id <= calls'
      BY <1>0, <1>2, <1>7 DEF KnownInv
    <3>. QED
      BY <1>0, <1>2, <1>6, <2>1, <2>2, <3>1, IdsKnown
  <2>6. ListInv'
    <3>1. \A v \in Threads : \A x \in ToSet(sendlist'[v]) : x.id \notin ready'
      BY <1>0, <1>2, <1>4, <1>7 DEF ListInv
    <3>. QED
      BY <1>0, <1>7, <3>1 DEF ListInv
  <2>. QED
    BY <2>3, <2>4, <2>5, <2>6 DEF IdInv
<1>8. CASE /\ sendlist[t] # <<>> /\ h \in Message
           /\ sendlist'[t] = Tail(sendlist[t])
           /\ ToSet(sendlist[t]) = ToSet(sendlist'[t]) \cup {h}
           /\ Adds(t, Receiving(h), Running(h.h))
  <2>1. /\ Len(stack'[t]) = n + 1 /\ stack'[t][n] = Receiving(h) /\ stack'[t][n + 1] = Running(h.h)
        /\ stack' \in [Threads -> Seq(Frame)]
    BY <1>8 DEF Adds, Others, n
  <2>2. Carried(stack'[t][n]) = h.id /\ Sent(stack'[t][n]) = 0 /\ h.id \in Nat \ {0}
    BY <1>8, <2>1 DEF Carried, Sent, Receiving, QueuePc, SendPc, Message
  <2>3. KeptIds(t, n)
    <3>1. Mute(Running(h.h))
      BY DEF Mute, Carried, Sent, Running, QueuePc, SendPc
    <3>. QED
      BY <1>8, <3>1, TracedAdds, TracedKept DEF n
  <2>4. h \in ToSet(sendlist[t]) /\ h \notin ToSet(sendlist'[t])
        /\ Tail(sendlist[t]) \in Seq(Message) /\ Once(Tail(sendlist[t]), Message)
    <3>1. sendlist[t] \in Seq(Message) /\ Once(sendlist[t], Message)
      BY ListFacts
    <3>2. Tail(sendlist[t]) \in Seq(Message)
      BY <1>8, <3>1, QueueTail
    <3>3. Once(Tail(sendlist[t]), Message) /\ ~Queued(Tail(sendlist[t]), h)
      BY <1>8, <3>1, OnceTail DEF h
    <3>4. h \notin ToSet(sendlist'[t])
      BY <1>8, <3>2, <3>3, QueueSet
    <3>. QED
      BY <1>8, <3>2, <3>3, <3>4
  <2>5. \A v \in Threads : ToSet(sendlist'[v]) \subseteq ToSet(sendlist[v])
    BY <1>2, <1>8
  <2>6. /\ h.id \notin ready /\ h.id # m.id
        /\ \A v \in Threads : \A j \in 1..Len(stack[v]) : Carried(stack[v][j]) # h.id
    <3>1. h.id \notin ready
      BY <1>0, <2>4 DEF ListInv
    <3>2. h.id # m.id
      BY <1>4, <2>2, <2>4
    <3>3. \A v \in Threads : \A j \in 1..Len(stack[v]) : Carried(stack[v][j]) # h.id
      BY <1>0, <2>2, <2>4 DEF CarriedInv, Listed, Depths
    <3>. QED
      BY <3>1, <3>2, <3>3
  <2>7. FrameInv'
    BY <1>0, <2>2, <2>3, <2>6, IdsUnique
  <2>8. CarriedInv'
    <3>0. PICK gone : gone = {m.id} \ {0}
      OBVIOUS
    <3>1. \A v \in Threads : \A x : Listed(v, x)' => Listed(v, x) \/ x \in gone
      BY <2>5 DEF Listed
    <3>2. \A v \in Threads : \A j \in 1..Len(stack'[v]) :
            Carried(stack'[v][j]) # 0 => Carried(stack'[v][j]) \notin gone
      <4>. SUFFICES ASSUME NEW v \in Threads, NEW j \in 1..Len(stack'[v]),
                           Carried(stack'[v][j]) # 0, Carried(stack'[v][j]) = m.id
                    PROVE  FALSE
        BY <3>0
      <4>1. ~(v = t /\ j = n)
        BY <2>2, <2>6
      <4>2. v = t /\ j = Len(stack[t])
        BY <1>0, <1>3, <2>3, <4>1, OnlyCarrier
      <4>. QED
        BY <4>1, <4>2 DEF n
    <3>3. ready' \subseteq ready \cup gone
      BY <1>2, <3>0
    <3>4. \A v \in Threads : \A x : x = h.id => ~Listed(v, x)'
      BY <1>0, <2>4, <2>5 DEF Listed, ListInv
    <3>5. h.id \notin ready'
      BY <1>2, <2>6
    <3>. QED
      BY <1>0, <2>2, <2>3, <3>1, <3>2, <3>3, <3>4, <3>5, IdsCarried
  <2>9. KnownInv'
    <3>1. \A v \in Threads : \A x \in ToSet(sendlist'[v]) : x.id <= calls'
      BY <1>0, <1>2, <2>5 DEF KnownInv
    <3>2. h.id <= calls' /\ 0 <= calls' /\ calls' \in Nat /\ calls <= calls'
      BY <1>0, <1>2, <2>4 DEF KnownInv
    <3>. QED
      BY <1>0, <1>6, <2>1, <2>2, <2>3, <3>1, <3>2, IdsKnown
  <2>10. ListInv'
    <3>1. \A v \in Threads : \A x \in ToSet(sendlist'[v]) : x.id \notin ready'
      BY <1>0, <1>2, <1>4, <2>5 DEF ListInv
    <3>2. \A v, w \in Threads : \A x \in ToSet(sendlist'[v]), y \in ToSet(sendlist'[w]) :
            x.id = y.id => v = w /\ x = y
      BY <1>0, <2>5 DEF ListInv
    <3>3. ASSUME NEW v \in Threads
          PROVE  \A i, j \in 1..Len(sendlist'[v]) : sendlist'[v][i] = sendlist'[v][j] => i = j
      <4>1. CASE v # t
        BY <1>0, <1>2, <4>1 DEF ListInv
      <4>2. CASE v = t
        <5>1. sendlist'[t] \in Seq(Message) /\ Once(sendlist'[t], Message)
          BY <1>8, <2>4
        <5>. QED
          BY <4>2, <5>1, OnceListed
      <4>. QED
        BY <4>1, <4>2
    <3>. QED
      BY <3>1, <3>2, <3>3 DEF ListInv
  <2>. QED
    BY <2>7, <2>8, <2>9, <2>10 DEF IdInv
<1>. QED
  BY <1>2, <1>7, <1>8

(* Clear answers the messages that it takes out of a list.                  *)
LEMMA ClearIds ==
  ASSUME Sound, IdInv, NEW t \in Threads, Traced(t, {}, {}), calls' = calls,
         NEW u \in Threads, NEW hs \in SUBSET Handlers, ClearQueue(u, hs)
  PROVE  IdInv'
<1>0. KnownInv /\ FrameInv /\ CarriedInv /\ ListInv /\ calls \in Nat
  BY DEF IdInv, Sound, TypeOK
<1>. DEFINE drop == {m \in ToSet(sendlist[u]) : m.h \in hs}
<1>1. /\ \A v \in Threads \ {u} : sendlist'[v] = sendlist[v]
      /\ ToSet(sendlist'[u]) = ToSet(sendlist[u]) \ drop
      /\ Once(sendlist[u], Message) => Once(sendlist'[u], Message)
      /\ sendlist' \in [Threads -> Seq(Message)]
      /\ ready' = ready \cup {m.id : m \in drop}
  BY ClearQueueEffect
<1>2. drop \subseteq ToSet(sendlist[u])
  OBVIOUS
<1>. HIDE DEF drop
<1>3. KeptIds(t, 0) /\ stack' \in [Threads -> Seq(Frame)] /\ 0 \notin 1..Len(stack'[t])
  <2>1. KeptIds(t, 0)
    BY TracedKept
  <2>2. stack' \in [Threads -> Seq(Frame)]
    BY DEF Traced
  <2>. QED
    BY <2>1, <2>2
<1>4. \A v \in Threads : ToSet(sendlist'[v]) \subseteq ToSet(sendlist[v])
  BY <1>1
<1>5. FrameInv'
  BY <1>0, <1>3, IdsUnique
<1>6. CarriedInv'
  <2>0. PICK gone : gone = {m.id : m \in drop}
    OBVIOUS
  <2>1. \A v \in Threads : \A x : Listed(v, x)' => Listed(v, x) \/ x \in gone
    BY <1>4 DEF Listed
  <2>2. \A v \in Threads : \A j \in 1..Len(stack'[v]) :
          Carried(stack'[v][j]) # 0 => Carried(stack'[v][j]) \notin gone
    <3>. SUFFICES ASSUME NEW v \in Threads, NEW j \in 1..Len(stack'[v]), NEW m \in drop,
                         Carried(stack'[v][j]) # 0, Carried(stack'[v][j]) = m.id
                  PROVE  FALSE
      BY <2>0
    <3>1. j \in 1..Len(stack[v]) /\ Carried(stack[v][j]) = m.id /\ Carried(stack[v][j]) # 0
      BY <1>3 DEF KeptIds, KeptId
    <3>. QED
      BY <1>0, <1>2, <3>1 DEF CarriedInv, Listed, Depths
  <2>3. ready' \subseteq ready \cup gone
    BY <1>1, <2>0
  <2>. QED
    BY <1>0, <1>3, <2>1, <2>2, <2>3, IdsCarried
<1>7. KnownInv'
  <2>1. \A v \in Threads : \A x \in ToSet(sendlist'[v]) : x.id <= calls'
    BY <1>0, <1>4 DEF KnownInv
  <2>2. \A x \in ready' : x <= calls'
    BY <1>0, <1>1, <1>2 DEF KnownInv
  <2>3. calls' \in Nat /\ calls <= calls'
    BY <1>0
  <2>. QED
    BY <1>0, <1>3, <2>1, <2>2, <2>3, IdsKnown
<1>8. ListInv'
  <2>1. \A v, w \in Threads : \A x \in ToSet(sendlist'[v]), y \in ToSet(sendlist'[w]) :
          x.id = y.id => v = w /\ x = y
    BY <1>0, <1>4 DEF ListInv
  <2>2. ASSUME NEW v \in Threads, NEW x \in ToSet(sendlist'[v]) PROVE x.id \notin ready'
    <3>1. x \in ToSet(sendlist[v]) /\ x.id \notin ready
      BY <1>0, <1>4 DEF ListInv
    <3>2. ASSUME NEW m \in drop, x.id = m.id PROVE FALSE
      <4>1. v = u /\ x = m
        BY <1>0, <1>2, <3>1, <3>2 DEF ListInv
      <4>. QED
        BY <1>1, <4>1
    <3>. QED
      BY <1>1, <3>1, <3>2
  <2>3. ASSUME NEW v \in Threads
        PROVE  \A i, j \in 1..Len(sendlist'[v]) : sendlist'[v][i] = sendlist'[v][j] => i = j
    <3>1. CASE v # u
      BY <1>0, <1>1, <3>1 DEF ListInv
    <3>2. CASE v = u
      <4>1. sendlist'[u] \in Seq(Message) /\ Once(sendlist'[u], Message)
        BY <1>1, ListFacts
      <4>. QED
        BY <3>2, <4>1, OnceListed
    <3>. QED
      BY <3>1, <3>2
  <2>. QED
    BY <2>1, <2>2, <2>3 DEF ListInv
<1>. QED
  BY <1>5, <1>6, <1>7, <1>8 DEF IdInv

(* What a step may do with the messages that are sent: nothing, give a call *)
(* its message, list it, report one and receive the next, end a Send, or    *)
(* clear a list.                                                            *)
Quiet(t) ==
  /\ sendlist' = sendlist /\ ready' = ready /\ calls' \in Nat /\ calls <= calls'
  /\ Traced(t, {}, {}) \/ (Top(t).pc \in QueuePc /\ Traced(t, {Len(stack[t])}, {}))
Submits(t) ==
  /\ sendlist' = sendlist /\ ready' = ready /\ calls' = calls + 1
  /\ Traced(t, {}, {Len(stack[t]) + 1})
  /\ Len(stack'[t]) = Len(stack[t]) + 1 /\ stack'[t][Len(stack[t]) + 1].pc \in QueuePc
  /\ Carried(stack'[t][Len(stack[t]) + 1]) = calls + 1 /\ Sent(stack'[t][Len(stack[t]) + 1]) = calls + 1
Lists(t) ==
  /\ Top(t).pc \in QueuePc /\ ready' = ready /\ calls' = calls
  /\ sendlist' \in [Threads -> Seq(Message)]
  /\ sendlist'[Top(t).to] = Append(sendlist[Top(t).to], Top(t).msg)
  /\ \A v \in Threads \ {Top(t).to} : sendlist'[v] = sendlist[v]
  /\ \E f : /\ f.pc \in SendPc /\ f.id = Top(t).msg.id /\ f.to = Top(t).to
            /\ Replaces(t, f)
Answered(t) ==
  /\ Top(t).pc \in SendPc /\ Top(t).id \in ready /\ ready' = ready \ {Top(t).id} /\ Drops(t)
  /\ sendlist' = sendlist /\ calls' = calls
Clears(t) ==
  /\ Traced(t, {}, {}) /\ calls' = calls
  /\ \E u \in Threads, hs \in SUBSET Handlers : ClearQueue(u, hs)

(* Calls that carry and send nothing.                                       *)
LEMMA MuteFrames ==
  /\ \A b : \A pc \in LoopPc : Mute(Loop(pc, b))
  /\ \A h : Mute(Running(h))
  /\ Mute(Receiving(NoMessage))
  /\ \A h, left : Mute(Destroying(h, left))
  /\ \A u : \A pc \in {"join", "remove"} : Mute(Joining(pc, u))
<1>1. \A b : \A pc \in LoopPc : Mute(Loop(pc, b))
  BY DEF Mute, Carried, Sent, Loop, LoopPc, QueuePc, SendPc
<1>2. \A h : Mute(Running(h))
  BY DEF Mute, Carried, Sent, Running, QueuePc, SendPc
<1>3. Mute(Receiving(NoMessage))
  BY DEF Mute, Carried, Sent, Receiving, NoMessage, QueuePc, SendPc
<1>4. \A h, left : Mute(Destroying(h, left))
  BY DEF Mute, Carried, Sent, Destroying, QueuePc, SendPc
<1>5. \A u : \A pc \in {"join", "remove"} : Mute(Joining(pc, u))
  BY DEF Mute, Carried, Sent, Joining, QueuePc, SendPc
<1>. QED
  BY <1>1, <1>2, <1>3, <1>4, <1>5

(* The calls that a thread may be in without a message.                     *)
LEMMA MuteTop ==
  ASSUME Sound, NEW t \in Threads, Top(t).pc \notin QueuePc \cup SendPc \cup {"recv"}
  PROVE  Mute(Top(t)) /\ Continues(Top(t), Top(t))
<1>1. Top(t) \in Frame
  BY SoundFacts
<1>. QED
  BY <1>1, FrameIds DEF Continues

(* A Send goes on.                                                          *)
LEMMA SendContinues ==
  ASSUME NEW f, NEW g, f.pc \in SendPc, g.pc \in SendPc, g.id = f.id, g.to = f.to
  PROVE  Continues(f, g)
  BY DEF Continues, Carried, Sent, QueuePc, SendPc

(* Posting and sending, once the queue is locked.                           *)
LEMMA EnqueueKind ==
  ASSUME Sound, NEW t \in Threads, Top(t).pc \in QueuePc,
         Enqueue(Top(t).to, Top(t).kind, Top(t).msg), ready' = ready, calls' = calls,
         \/ Top(t).kind = "send" /\ Replaces(t, Sending("wake", Top(t).msg.id, Top(t).to, FALSE))
         \/ Top(t).kind # "send" /\ Drops(t) /\ Top(t)'.pc = "run"
  PROVE  Quiet(t) \/ Lists(t)
<1>1. Top(t).to \in Threads /\ Top(t).msg \in Message /\ Top(t).kind \in {"post", "delay", "send"}
  BY SoundFacts
<1>2. CASE Top(t).kind = "send" /\ Replaces(t, Sending("wake", Top(t).msg.id, Top(t).to, FALSE))
  <2>1. /\ sendlist' \in [Threads -> Seq(Message)]
        /\ sendlist'[Top(t).to] = Append(sendlist[Top(t).to], Top(t).msg)
        /\ \A v \in Threads \ {Top(t).to} : sendlist'[v] = sendlist[v]
    <3>1. PICK u \in Threads, m \in Message : u = Top(t).to /\ m = Top(t).msg
      BY <1>1
    <3>2. Enqueue(u, "send", m)
      BY <1>2, <3>1
    <3>. QED
      BY <3>1, <3>2, EnqueueEffect
  <2>. DEFINE f == Sending("wake", Top(t).msg.id, Top(t).to, FALSE)
  <2>2. f.pc \in SendPc /\ f.id = Top(t).msg.id /\ f.to = Top(t).to
    BY DEF Sending, SendPc
  <2>3. Replaces(t, f)
    BY <1>2, Zenon
  <2>. HIDE DEF f
  <2>. QED
    BY <2>1, <2>2, <2>3 DEF Lists
<1>3. CASE Top(t).kind # "send" /\ Drops(t)
  <2>1. sendlist' = sendlist
    BY <1>1, <1>3 DEF Enqueue
  <2>2. Traced(t, {Len(stack[t])}, {})
    BY <1>3, TracedDrops
  <2>. QED
    BY <2>1, <2>2 DEF Quiet, Sound, TypeOK
<1>. QED
  BY <1>2, <1>3, Zenon

(* Steps among calls without a message.                                     *)
LEMMA MuteSteps ==
  ASSUME Sound, NEW t \in Threads, Mute(Top(t))
  PROVE  /\ \A f : Replaces(t, f) /\ Mute(f) => Traced(t, {}, {})
         /\ \A f, g : Adds(t, f, g) /\ Mute(f) /\ Mute(g) => Traced(t, {}, {})
         /\ Drops(t) => Traced(t, {}, {})
  BY TracedReplaces, TracedAdds, TracedDrops

(* What every step is to the messages that are sent.                        *)
LEMMA StepKind ==
  ASSUME Sound, NEW t \in Threads, Step(t)
  PROVE  Quiet(t) \/ Submits(t) \/ Lists(t) \/ ReceiveSends(t) \/ Answered(t) \/ Clears(t)
<1>0. calls \in Nat /\ calls <= calls /\ calls + 1 \in Nat /\ calls <= calls + 1
  BY DEF Sound, TypeOK
<1>1. ASSUME sendlist' = sendlist, ready' = ready, calls' \in {calls, calls + 1}, Traced(t, {}, {})
      PROVE  Quiet(t)
  BY <1>0, <1>1 DEF Quiet
<1>2. CASE GetSends(t) \/ GetEmpty(t) \/ Wait(t)
  <2>1. sendlist' = sendlist /\ ready' = ready /\ calls' = calls
    BY <1>2 DEF GetSends, GetEmpty, Wait, queue
  <2>2. Mute(Top(t))
    BY <1>2, MuteTop DEF GetSends, GetEmpty, Wait, At, QueuePc, SendPc
  <2>3. Traced(t, {}, {})
    <3>1. CASE GetSends(t)
      BY <2>2, <3>1, GetSendsEffect, MuteSteps, MuteFrames, Zenon DEF LoopPc
    <3>2. CASE GetEmpty(t)
      <4>1. \/ Replaces(t, Loop("done", FALSE))
            \/ Replaces(t, Loop("wait", Top(t).timer))
        BY <3>2, GetEmptyEffect, Zenon
      <4>2. "done" \in LoopPc /\ "wait" \in LoopPc
        BY DEF LoopPc
      <4>. QED
        BY <2>2, <4>1, <4>2, MuteSteps, MuteFrames, Zenon
    <3>3. CASE Wait(t)
      BY <2>2, <3>3, WaitEffect, MuteSteps, MuteFrames, Zenon DEF LoopPc
    <3>. QED
      BY <1>2, <3>1, <3>2, <3>3
  <2>. QED
    BY <1>1, <2>1, <2>3
<1>3. CASE SocketEvent(t) \/ HandlerReturns(t)
  <2>1. sendlist' = sendlist /\ ready' = ready /\ calls' \in {calls, calls + 1}
    BY <1>3 DEF SocketEvent, HandlerReturns, queue
  <2>2. Mute(Top(t))
    BY <1>3, MuteTop DEF SocketEvent, HandlerReturns, At, QueuePc, SendPc
  <2>3. Traced(t, {}, {})
    BY <1>3, <2>2, SocketEventEffect, HandlerReturnsEffect, MuteSteps, MuteFrames, Zenon
  <2>. QED
    BY <1>1, <2>1, <2>3
<1>4. ASSUME NEW due \in SUBSET dmsgq[t], GetMessage(t, due) PROVE Quiet(t)
  <2>1. sendlist' = sendlist /\ ready' = ready /\ calls' = calls
    BY <1>4 DEF GetMessage
  <2>2. Mute(Top(t))
    BY <1>4, MuteTop DEF GetMessage, At, QueuePc, SendPc
  <2>3. Traced(t, {}, {})
    <3>1. "empty" \in LoopPc /\ "get" \in LoopPc
      BY DEF LoopPc
    <3>2. \/ Replaces(t, Loop("empty", dmsgq[t] # {}))
          \/ \E h \in Handlers : Adds(t, Loop("get", FALSE), Running(h))
      BY <1>4, GetMessageEffect, Zenon
    <3>. QED
      BY <2>2, <3>1, <3>2, MuteSteps, MuteFrames, Zenon
  <2>. QED
    BY <1>1, <2>1, <2>3
<1>5. ASSUME NEW h \in Handlers, NEW kind \in {"post", "delay", "send"}, Submit(t, h, kind)
      PROVE  Quiet(t) \/ Submits(t)
  <2>. DEFINE u == Owner[h]
              m == [id |-> calls + 1, h |-> h, thread |-> t]
              g == Queueing("queue", kind, m, u)
  <2>1. /\ Top(t).pc = "run" /\ calls' = calls + 1 /\ m \in Message
        /\ stack' = stack \/ Adds(t, Top(t), Running(h)) \/ Adds(t, Top(t), g)
    BY <1>5, SubmitEffect
  <2>2. sendlist' = sendlist /\ ready' = ready
    BY <1>5 DEF Submit, queue
  <2>3. g.pc \in QueuePc /\ Carried(g) = calls + 1 /\ Sent(g) = calls + 1
    BY DEF Carried, Sent, Queueing, QueuePc
  <2>4. Mute(Top(t)) /\ Continues(Top(t), Top(t))
    BY <2>1, MuteTop DEF QueuePc, SendPc
  <2>. HIDE DEF g
  <2>5. CASE stack' = stack \/ Adds(t, Top(t), Running(h))
    <3>1. Traced(t, {}, {})
      BY <2>4, <2>5, TracedNothing, MuteSteps, MuteFrames
    <3>. QED
      BY <1>1, <2>1, <2>2, <3>1
  <2>6. CASE Adds(t, Top(t), g)
    <3>1. Traced(t, {}, {Len(stack[t]) + 1})
      BY <2>4, <2>6, TracedAdds
    <3>2. Len(stack'[t]) = Len(stack[t]) + 1 /\ stack'[t][Len(stack[t]) + 1] = g
      BY <2>6 DEF Adds
    <3>. QED
      BY <2>1, <2>2, <2>3, <3>1, <3>2 DEF Submits
  <2>. QED
    BY <2>1, <2>5, <2>6
<1>6. CASE Lock(t)
  <2>1. ready' = ready /\ calls' = calls /\ Top(t).pc = "queue"
    BY <1>6 DEF Lock, At
  <2>2. \/ /\ UNCHANGED queue
           /\ Replaces(t, Queueing("activate", Top(t).kind, Top(t).msg, Top(t).to))
        \/ /\ Enqueue(Top(t).to, Top(t).kind, Top(t).msg)
           /\ \/ Top(t).kind = "send" /\ Replaces(t, Sending("wake", Top(t).msg.id, Top(t).to, FALSE))
              \/ Top(t).kind # "send" /\ Drops(t) /\ Top(t)'.pc = "run"
    BY <1>6, LockEffect, Zenon
  <2>3. CASE UNCHANGED queue /\ Replaces(t, Queueing("activate", Top(t).kind, Top(t).msg, Top(t).to))
    <3>1. Continues(Top(t), Queueing("activate", Top(t).kind, Top(t).msg, Top(t).to))
      BY <2>1 DEF Continues, Queueing, Carried, Sent, QueuePc, SendPc
    <3>2. Traced(t, {}, {})
      BY <2>3, <3>1, TracedReplaces
    <3>3. sendlist' = sendlist
      BY <2>3 DEF queue
    <3>. QED
      BY <1>1, <2>1, <3>2, <3>3
  <2>4. CASE /\ Enqueue(Top(t).to, Top(t).kind, Top(t).msg)
             /\ \/ Top(t).kind = "send" /\ Replaces(t, Sending("wake", Top(t).msg.id, Top(t).to, FALSE))
                \/ Top(t).kind # "send" /\ Drops(t) /\ Top(t)'.pc = "run"
    <3>1. Top(t).pc \in QueuePc
      BY <2>1 DEF QueuePc
    <3>. QED
      BY <2>1, <2>4, <3>1, EnqueueKind, Zenon
  <2>. QED
    BY <2>2, <2>3, <2>4, Zenon
<1>7. CASE Activate(t)
  <2>1. ready' = ready /\ calls' = calls
    BY <1>7 DEF Activate
  <2>2. Top(t).pc \in QueuePc
    BY <1>7, ActivateEffect DEF QueuePc
  <2>3. /\ Enqueue(Top(t).to, Top(t).kind, Top(t).msg)
        /\ \/ Top(t).kind = "send" /\ Replaces(t, Sending("wake", Top(t).msg.id, Top(t).to, FALSE))
           \/ Top(t).kind # "send" /\ Drops(t) /\ Top(t)'.pc = "run"
    BY <1>7, ActivateEffect, Zenon
  <2>. QED
    BY <2>1, <2>2, <2>3, EnqueueKind, Zenon
<1>8. CASE SendWakeUp(t) \/ SendWait(t)
  <2>1. sendlist' = sendlist /\ ready' = ready /\ calls' = calls
    BY <1>8 DEF SendWakeUp, SendWait, queue
  <2>. DEFINE f == Sending("loop", Top(t).id, Top(t).to, Top(t).waited)
  <2>2. Replaces(t, f) /\ Top(t).pc \in SendPc
    BY <1>8, SendWakeUpEffect, SendWaitEffect DEF SendPc, SendWakeUp, SendWait, At
  <2>3. f.pc \in SendPc /\ f.id = Top(t).id /\ f.to = Top(t).to
    BY DEF Sending, SendPc
  <2>. HIDE DEF f
  <2>4. Traced(t, {}, {})
    BY <2>2, <2>3, SendContinues, TracedReplaces
  <2>. QED
    BY <1>1, <2>1, <2>4
<1>9. CASE SendLoop(t)
  <2>1. sendlist' = sendlist /\ calls' = calls /\ Top(t).pc \in SendPc
    BY <1>9 DEF SendLoop, queue, At, SendPc
  <2>. DEFINE f == Sending("swait", Top(t).id, Top(t).to, TRUE)
  <2>2. \/ Top(t).id \in ready /\ ready' = ready \ {Top(t).id} /\ Drops(t)
        \/ ready' = ready /\ (Replaces(t, f) \/ Adds(t, f, Receiving(NoMessage)))
    BY <1>9, SendLoopEffect, Zenon
  <2>3. f.pc \in SendPc /\ f.id = Top(t).id /\ f.to = Top(t).to
    BY DEF Sending, SendPc
  <2>. HIDE DEF f
  <2>4. Replaces(t, f) \/ Adds(t, f, Receiving(NoMessage)) => Traced(t, {}, {})
    BY <2>1, <2>3, SendContinues, TracedReplaces, TracedAdds, MuteFrames
  <2>. QED
    BY <1>1, <2>1, <2>2, <2>4 DEF Answered
<1>10. ASSUME NEW h \in Handlers, Destroy(t, h) PROVE Quiet(t)
  <2>1. sendlist' = sendlist /\ ready' = ready /\ calls' = calls + 1
    BY <1>10 DEF Destroy, Calls, queue
  <2>2. Top(t).pc = "run" /\ Adds(t, Top(t), Destroying(h, queues))
    BY <1>10, DestroyEffect
  <2>3. Traced(t, {}, {})
    BY <2>2, MuteTop, MuteSteps, MuteFrames DEF QueuePc, SendPc
  <2>. QED
    BY <1>1, <2>1, <2>3
<1>11. ASSUME NEW u \in Threads, DestroyClear(t, u) PROVE Clears(t)
  <2>1. /\ Top(t).pc = "destroy" /\ {Top(t).h} \in SUBSET Handlers /\ ClearQueue(u, {Top(t).h})
        /\ Replaces(t, Destroying(Top(t).h, Top(t).left \ {u}))
    BY <1>11, DestroyClearEffect
  <2>2. Traced(t, {}, {})
    BY <2>1, MuteTop, MuteSteps, MuteFrames DEF QueuePc, SendPc
  <2>3. calls' = calls
    BY <1>11 DEF DestroyClear
  <2>. QED
    BY <2>1, <2>2, <2>3 DEF Clears
<1>12. CASE Destroyed(t) \/ RemoveQueue(t)
  <2>1. sendlist' = sendlist /\ ready' = ready /\ calls' = calls
    BY <1>12 DEF Destroyed, RemoveQueue, queue
  <2>2. Top(t).pc \in {"destroy", "remove"} /\ Drops(t)
    BY <1>12, DestroyedEffect, RemoveQueueEffect
  <2>3. Traced(t, {}, {})
    BY <2>2, MuteTop, MuteSteps DEF QueuePc, SendPc
  <2>. QED
    BY <1>1, <2>1, <2>3
<1>13. ASSUME NEW u \in Threads, Stop(t, u) PROVE Quiet(t)
  <2>1. sendlist' = sendlist /\ ready' = ready /\ calls' = calls + 1
    BY <1>13 DEF Stop, Calls, queue
  <2>2. Top(t).pc = "run" /\ Adds(t, Top(t), Joining("join", u))
    BY <1>13, StopEffect
  <2>3. Traced(t, {}, {})
    BY <2>2, MuteTop, MuteSteps, MuteFrames DEF QueuePc, SendPc
  <2>. QED
    BY <1>1, <2>1, <2>3
<1>14. CASE Join(t)
  <2>1. /\ Top(t).pc = "join" /\ Top(t).to \in Threads /\ ClearQueue(Top(t).to, Handlers)
        /\ Replaces(t, Joining("remove", Top(t).to))
    BY <1>14, JoinEffect
  <2>2. Traced(t, {}, {})
    BY <2>1, MuteTop, MuteSteps, MuteFrames DEF QueuePc, SendPc
  <2>3. calls' = calls
    BY <1>14 DEF Join
  <2>. QED
    BY <2>1, <2>2, <2>3 DEF Clears
<1>. QED
  BY <1>2, <1>3, <1>4, <1>5, <1>6, <1>7, <1>8, <1>9, <1>10, <1>11, <1>12, <1>13, <1>14 DEF Step

(* Every step keeps each message in one place.                              *)
LEMMA IdStep ==
  ASSUME Sound, IdInv, NEW t \in Threads, Step(t)
  PROVE  IdInv'
<1>0. calls \in Nat /\ calls <= calls
  BY DEF Sound, TypeOK
<1>1. CASE Quiet(t)
  <2>1. PICK old : Traced(t, old, {})
    BY <1>1 DEF Quiet
  <2>2. sendlist' = sendlist /\ ready' \subseteq ready /\ calls' \in Nat /\ calls <= calls'
    BY <1>1 DEF Quiet
  <2>. QED
    BY <2>1, <2>2, QuietIds
<1>2. CASE Submits(t)
  <2>. DEFINE k == Len(stack[t]) + 1
  <2>1. /\ sendlist' = sendlist /\ ready' = ready /\ calls' = calls + 1
        /\ Traced(t, {}, {k}) /\ Carried(stack'[t][k]) = calls + 1 /\ Sent(stack'[t][k]) = calls + 1
    BY <1>2 DEF Submits
  <2>. HIDE DEF k
  <2>. QED
    BY <2>1, FreshIds
<1>3. CASE Lists(t)
  <2>1. PICK f : f.pc \in SendPc /\ f.id = Top(t).msg.id /\ Replaces(t, f)
    BY <1>3 DEF Lists
  <2>2. Top(t).pc \in QueuePc /\ Top(t).to \in Threads /\ Top(t).msg \in Message
    BY <1>3, SoundFacts DEF Lists
  <2>3. PICK u \in Threads, m \in Message : u = Top(t).to /\ m = Top(t).msg
    BY <2>2
  <2>4. /\ sendlist' \in [Threads -> Seq(Message)] /\ sendlist'[u] = Append(sendlist[u], m)
        /\ \A v \in Threads \ {u} : sendlist'[v] = sendlist[v]
        /\ ready' = ready /\ calls' = calls
    BY <1>3, <2>3 DEF Lists
  <2>. QED
    BY <2>1, <2>2, <2>3, <2>4, ListIds
<1>4. CASE ReceiveSends(t)
  BY <1>4, ReceiveIds
<1>5. CASE Answered(t)
  <2>1. sendlist' = sendlist /\ ready' \subseteq ready /\ calls' \in Nat /\ calls <= calls'
    BY <1>0, <1>5 DEF Answered
  <2>2. PICK old : Traced(t, old, {})
    BY <1>5, TracedDrops DEF Answered
  <2>. QED
    BY <2>1, <2>2, QuietIds
<1>6. CASE Clears(t)
  <2>1. PICK u \in Threads, hs \in SUBSET Handlers : ClearQueue(u, hs)
    BY <1>6 DEF Clears
  <2>2. Traced(t, {}, {}) /\ calls' = calls
    BY <1>6 DEF Clears
  <2>. QED
    BY <2>1, <2>2, ClearIds
<1>. QED
  BY <1>1, <1>2, <1>3, <1>4, <1>5, <1>6, StepKind

-----------------------------------------------------------------------------
(* Senders and receivers.                                                   *)

(* The Sends, but for the one at depth k of t, go on, and the receivers;    *)
(* and those after the step were there before it.                           *)
SendsStay(t, k) ==
  \A v \in Threads : \A i \in 1..Len(stack[v]) : stack[v][i].pc \in SendPc /\ ~(v = t /\ i = k) =>
    /\ i \in 1..Len(stack'[v]) /\ stack'[v][i].pc \in SendPc
    /\ stack'[v][i].id = stack[v][i].id
ReceivesStay(t, k) ==
  \A v \in Threads : \A i \in 1..Len(stack[v]) :
    stack[v][i].pc = "recv" /\ stack[v][i].msg.id # 0 /\ ~(v = t /\ i = k) =>
      /\ i \in 1..Len(stack'[v]) /\ stack'[v][i].pc = "recv"
      /\ stack'[v][i].msg = stack[v][i].msg
OldSends(t, k) ==
  \A v \in Threads : \A i \in 1..Len(stack'[v]) : stack'[v][i].pc \in SendPc /\ ~(v = t /\ i = k) =>
    /\ i \in 1..Len(stack[v]) /\ stack[v][i].pc \in SendPc
    /\ stack[v][i].id = stack'[v][i].id /\ stack[v][i].to = stack'[v][i].to
OldReceives(t, k) ==
  \A v \in Threads : \A i \in 1..Len(stack'[v]) :
    stack'[v][i].pc = "recv" /\ stack'[v][i].msg # NoMessage /\ ~(v = t /\ i = k) =>
      /\ i \in 1..Len(stack[v]) /\ stack[v][i].pc = "recv"
      /\ stack[v][i].msg = stack'[v][i].msg

(* Sends and receivers stay where they are if none of the old calls is one. *)
LEMMA TracedSends ==
  ASSUME Sound, NEW t \in Threads, NEW old, NEW new, Traced(t, old, new), NEW k, NEW l
  PROVE  /\ (\A i \in old : i \in 1..Len(stack[t]) /\ stack[t][i].pc \in SendPc => i = k) => SendsStay(t, k)
         /\ (\A i \in old : i \in 1..Len(stack[t]) /\ stack[t][i].pc = "recv" => i = k) => ReceivesStay(t, k)
         /\ (\A i \in new : i \in 1..Len(stack'[t]) /\ stack'[t][i].pc \in SendPc => i = l) => OldSends(t, l)
         /\ (\A i \in new : i \in 1..Len(stack'[t]) /\ stack'[t][i].pc = "recv" => i = l) => OldReceives(t, l)
<1>1. \A v \in Threads : \A i \in 1..Len(stack[v]) : stack[v][i] \in Frame
  BY TopDepth
<1>2. \A v \in Threads : \A i \in 1..Len(stack'[v]) : stack'[v][i] \in Frame
  BY DEF Traced
<1>3. ASSUME NEW f \in Frame
      PROVE  /\ f.pc \in SendPc => ~Mute(f)
             /\ f.pc = "recv" /\ f.msg.id # 0 => ~Mute(f)
             /\ f.pc = "recv" /\ f.msg # NoMessage => ~Mute(f)
  BY FrameIds DEF Mute
<1>4. ASSUME \A i \in old : i \in 1..Len(stack[t]) /\ stack[t][i].pc \in SendPc => i = k
      PROVE  SendsStay(t, k)
  BY <1>1, <1>3, <1>4 DEF SendsStay, Traced, Steady, Continues
<1>5. ASSUME \A i \in old : i \in 1..Len(stack[t]) /\ stack[t][i].pc = "recv" => i = k
      PROVE  ReceivesStay(t, k)
  BY <1>1, <1>3, <1>5 DEF ReceivesStay, Traced, Steady, Continues
<1>6. ASSUME \A i \in new : i \in 1..Len(stack'[t]) /\ stack'[t][i].pc \in SendPc => i = l
      PROVE  OldSends(t, l)
  BY <1>2, <1>3, <1>6 DEF OldSends, Traced, Steady, Continues
<1>7. ASSUME \A i \in new : i \in 1..Len(stack'[t]) /\ stack'[t][i].pc = "recv" => i = l
      PROVE  OldReceives(t, l)
  BY <1>2, <1>3, <1>7 DEF OldReceives, Traced, Steady, Continues
<1>. QED
  BY <1>4, <1>5, <1>6, <1>7

(* The sender of a message is still there.                                  *)
LEMMA SenderStays ==
  ASSUME NEW t \in Threads, NEW k, SendsStay(t, k), NEW m, m.thread \in Threads, Sender(m),
         k \in 1..Len(stack[t]) => stack[t][k].id # m.id
  PROVE  Sender(m)'
<1>1. PICK i \in 1..Len(stack[m.thread]) : stack[m.thread][i].pc \in SendPc /\ stack[m.thread][i].id = m.id
  BY DEF Sender, Sends, Depths
<1>2. ~(m.thread = t /\ i = k)
  BY <1>1
<1>3. /\ i \in 1..Len(stack'[m.thread]) /\ stack'[m.thread][i].pc \in SendPc
      /\ stack'[m.thread][i].id = m.id
  BY <1>1, <1>2 DEF SendsStay
<1>. QED
  BY <1>3 DEF Sender, Sends, Depths

(* And so are its receivers.                                                *)
LEMMA ReceiverStays ==
  ASSUME NEW t \in Threads, NEW k, ReceivesStay(t, k), NEW u \in Threads, NEW x, x # 0, Receiver(u, x)
  PROVE  \/ Receiver(u, x)'
         \/ u = t /\ k \in 1..Len(stack[t]) /\ stack[t][k].pc = "recv" /\ stack[t][k].msg.id = x
<1>1. PICK i \in 1..Len(stack[u]) : stack[u][i].pc = "recv" /\ stack[u][i].msg.id = x
  BY DEF Receiver, Handles, Depths
<1>2. CASE ~(u = t /\ i = k)
  <2>1. /\ i \in 1..Len(stack'[u]) /\ stack'[u][i].pc = "recv"
        /\ stack'[u][i].msg.id = x
    BY <1>1, <1>2 DEF ReceivesStay
  <2>. QED
    BY <2>1 DEF Receiver, Handles, Depths
<1>3. CASE u = t /\ i = k
  BY <1>1, <1>3
<1>. QED
  BY <1>2, <1>3

(* The parts of SendInv, for a step that changes the call at one depth.     *)
LEMMA SendersKept ==
  ASSUME Sound, SenderInv, NEW t \in Threads, NEW k, NEW l, SendsStay(t, k), OldReceives(t, l),
         \A v \in Threads : \A m \in ToSet(sendlist'[v]) : m \in ToSet(sendlist[v]) \/ Sender(m)',
         k \in 1..Len(stack[t]) =>
           /\ \A v \in Threads : \A m \in ToSet(sendlist'[v]) : m.id # stack[t][k].id
           /\ \A v \in Threads : \A i \in 1..Len(stack'[v]) :
                stack'[v][i].pc = "recv" => stack'[v][i].msg.id # stack[t][k].id,
         \A m : l \in 1..Len(stack'[t]) /\ m = stack'[t][l].msg => Sender(m)'
  PROVE  SenderInv'
<1>1. ASSUME NEW v \in Threads, NEW m \in ToSet(sendlist'[v]) PROVE Sender(m)'
  <2>1. CASE m \in ToSet(sendlist[v])
    <3>1. Sender(m) /\ m.thread \in Threads
      BY <2>1, QueueTypes DEF SenderInv, Message
    <3>2. k \in 1..Len(stack[t]) => stack[t][k].id # m.id
      OBVIOUS
    <3>. QED
      BY <3>1, <3>2, SenderStays
  <2>. QED
    BY <2>1
<1>2. ASSUME NEW v \in Threads, NEW i \in 1..Len(stack'[v]), NEW m,
             stack'[v][i].pc = "recv", m = stack'[v][i].msg, m # NoMessage
      PROVE  Sender(m)'
  <2>1. CASE v = t /\ i = l
    BY <1>2, <2>1
  <2>2. CASE ~(v = t /\ i = l)
    <3>1. i \in 1..Len(stack[v]) /\ stack[v][i].pc = "recv" /\ stack[v][i].msg = m
      BY <1>2, <2>2 DEF OldReceives
    <3>2. Sender(m)
      BY <1>2, <3>1 DEF SenderInv, Depths
    <3>3. m.thread \in Threads
      <4>1. stack[v][i] \in Frame
        BY <3>1, TopDepth
      <4>2. m \in Message
        BY <1>2, <3>1, <4>1, FrameIds
      <4>. QED
        BY <4>2 DEF Message
    <3>4. k \in 1..Len(stack[t]) => stack[t][k].id # m.id
      BY <1>2
    <3>. QED
      BY <3>2, <3>3, <3>4, SenderStays
  <2>. QED
    BY <2>1, <2>2
<1>3. ASSUME NEW v \in Threads, NEW i \in 1..Len(stack'[v]),
             stack'[v][i].pc = "recv", stack'[v][i].msg # NoMessage
      PROVE  Sender(stack[v][i].msg)'
  <2>1. PICK m : m = stack'[v][i].msg
    OBVIOUS
  <2>2. Sender(m)'
    BY <1>2, <1>3, <2>1
  <2>. QED
    BY <2>1, <2>2 DEF Sender, Sends, Depths
<1>. QED
  BY <1>1, <1>3 DEF SenderInv, Depths

(* Every Send still has its message listed, received or reported.           *)
LEMMA ReceiversKept ==
  ASSUME Sound, ReceiverInv, NEW t \in Threads, NEW l, OldSends(t, l), NEW lost,
         \A x \in ready : x \in ready' \/ x \in lost,
         \A v \in Threads : \A i \in 1..Len(stack'[v]) :
           stack'[v][i].pc \in SendPc => stack'[v][i].id \notin lost,
         \A u \in Threads : \A x : x # 0 /\ Listed(u, x) => x \in ready' \/ Listed(u, x)' \/ Receiver(u, x)',
         \A u \in Threads : \A x : x # 0 /\ Receiver(u, x) => x \in ready' \/ Receiver(u, x)',
         \A u, x : l \in 1..Len(stack'[t]) /\ u = stack'[t][l].to /\ x = stack'[t][l].id => Listed(u, x)'
  PROVE  ReceiverInv'
<1>1. ASSUME NEW v \in Threads, NEW i \in 1..Len(stack'[v]), stack'[v][i].pc \in SendPc,
             NEW u, NEW x, u = stack'[v][i].to, x = stack'[v][i].id
      PROVE  x \in ready' \/ Listed(u, x)' \/ Receiver(u, x)'
  <2>1. CASE v = t /\ i = l
    BY <1>1, <2>1
  <2>2. CASE ~(v = t /\ i = l)
    <3>1. i \in 1..Len(stack[v]) /\ stack[v][i].pc \in SendPc
          /\ stack[v][i].id = x /\ stack[v][i].to = u
      BY <1>1, <2>2 DEF OldSends
    <3>2. x # 0 /\ u \in Threads
      <4>1. stack[v][i] \in Frame
        BY <3>1, TopDepth
      <4>. QED
        BY <3>1, <4>1, FrameIds
    <3>3. x \in ready \/ Listed(u, x) \/ Receiver(u, x)
      BY <3>1 DEF ReceiverInv, Depths
    <3>4. x \notin lost
      BY <1>1
    <3>. QED
      BY <3>2, <3>3, <3>4
  <2>. QED
    BY <2>1, <2>2
<1>2. ASSUME NEW v \in Threads, NEW i \in 1..Len(stack'[v]), stack'[v][i].pc \in SendPc
      PROVE  \/ stack'[v][i].id \in ready'
             \/ Listed(stack[v][i].to, stack[v][i].id)'
             \/ Receiver(stack[v][i].to, stack[v][i].id)'
  <2>1. PICK u, x : u = stack'[v][i].to /\ x = stack'[v][i].id
    OBVIOUS
  <2>2. x \in ready' \/ Listed(u, x)' \/ Receiver(u, x)'
    BY <1>1, <1>2, <2>1
  <2>3. Listed(u, x)' => Listed(stack[v][i].to, stack[v][i].id)'
    BY <2>1 DEF Listed
  <2>4. Receiver(u, x)' => Receiver(stack[v][i].to, stack[v][i].id)'
    BY <2>1 DEF Receiver, Handles, Depths
  <2>. QED
    BY <2>1, <2>2, <2>3, <2>4
<1>. QED
  BY <1>2 DEF ReceiverInv, Depths

(* What is sent stays younger than what is handled below it.                *)
LEMMA YoungerKept ==
  ASSUME Sound, YoungerInv, NEW t \in Threads, NEW k \in Nat, KeptIds(t, k),
         k \in 1..Len(stack'[t]) =>
           /\ \A j \in 1..Len(stack'[t]) : k < j => Sent(stack'[t][j]) = 0
           /\ \A i \in 1..Len(stack'[t]) :
                i < k /\ Carried(stack'[t][i]) # 0 /\ Sent(stack'[t][k]) # 0
                => Carried(stack'[t][i]) < Sent(stack'[t][k])
  PROVE  YoungerInv'
<1>. SUFFICES ASSUME NEW v \in Threads, NEW i \in 1..Len(stack'[v]), NEW j \in 1..Len(stack'[v]),
                     i < j, Carried(stack'[v][i]) # 0, Sent(stack'[v][j]) # 0
              PROVE  Carried(stack'[v][i]) < Sent(stack'[v][j])
  BY DEF YoungerInv, Depths
<1>1. CASE v = t /\ i = k
  BY <1>1
<1>2. CASE v = t /\ j = k
  BY <1>2
<1>3. CASE KeptId(v, i) /\ KeptId(v, j)
  BY <1>3 DEF KeptId, YoungerInv, Depths
<1>. QED
  BY <1>1, <1>2, <1>3 DEF KeptIds

(* The steps that neither list nor report a message, nor end a Send.        *)
LEMMA CalmSends ==
  ASSUME Sound, NEW t \in Threads, Quiet(t) \/ Submits(t) \/ Clears(t)
  PROVE  SendsStay(t, 0) /\ ReceivesStay(t, 0) /\ OldSends(t, 0) /\ OldReceives(t, 0)
<1>. DEFINE n == Len(stack[t])
<1>1. Top(t) = stack[t][n]
  BY TopDepth
<1>2. QueuePc \cap SendPc = {} /\ "recv" \notin QueuePc
  BY DEF QueuePc, SendPc
<1>3. ASSUME NEW old, NEW new, Traced(t, old, new),
             \A i \in old : stack[t][i].pc \in QueuePc, \A i \in new : stack'[t][i].pc \in QueuePc
      PROVE  SendsStay(t, 0) /\ ReceivesStay(t, 0) /\ OldSends(t, 0) /\ OldReceives(t, 0)
  <2>1. /\ \A i \in old : stack[t][i].pc \notin SendPc /\ stack[t][i].pc # "recv"
        /\ \A i \in new : stack'[t][i].pc \notin SendPc /\ stack'[t][i].pc # "recv"
    BY <1>2, <1>3
  <2>. QED
    BY <1>3, <2>1, TracedSends
<1>4. CASE Traced(t, {}, {})
  <2>1. PICK old, new : old = {} /\ new = {}
    OBVIOUS
  <2>. QED
    BY <1>3, <1>4, <2>1
<1>5. CASE Top(t).pc \in QueuePc /\ Traced(t, {n}, {})
  <2>1. PICK old, new : old = {n} /\ new = {}
    OBVIOUS
  <2>2. \A i \in old : stack[t][i].pc \in QueuePc
    BY <1>1, <1>5, <2>1
  <2>. QED
    BY <1>3, <1>5, <2>1, <2>2
<1>6. CASE Traced(t, {}, {n + 1}) /\ stack'[t][n + 1].pc \in QueuePc
  <2>1. PICK old, new : old = {} /\ new = {n + 1}
    OBVIOUS
  <2>2. \A i \in new : stack'[t][i].pc \in QueuePc
    BY <1>6, <2>1
  <2>. QED
    BY <1>3, <1>6, <2>1, <2>2
<1>. QED
  BY <1>4, <1>5, <1>6 DEF Quiet, Submits, Clears

(* They keep SendInv.                                                       *)
LEMMA CalmStep ==
  ASSUME Sound, IdInv, SendInv, NEW t \in Threads, Quiet(t) \/ Submits(t) \/ Clears(t)
  PROVE  SendInv'
<1>0. SenderInv /\ ReceiverInv /\ YoungerInv
  BY DEF SendInv
<1>1. SendsStay(t, 0) /\ ReceivesStay(t, 0) /\ OldSends(t, 0) /\ OldReceives(t, 0)
  BY CalmSends
<1>2. 0 \notin 1..Len(stack[t]) /\ 0 \notin 1..Len(stack'[t])
  OBVIOUS
<1>3. /\ \A v \in Threads : ToSet(sendlist'[v]) \subseteq ToSet(sendlist[v])
      /\ \A v \in Threads : \A m \in ToSet(sendlist[v]) : m \in ToSet(sendlist'[v]) \/ m.id \in ready'
      /\ ready \subseteq ready'
  <2>1. CASE Quiet(t) \/ Submits(t)
    BY <2>1 DEF Quiet, Submits
  <2>2. CASE Clears(t)
    <3>1. PICK u \in Threads, hs \in SUBSET Handlers : ClearQueue(u, hs)
      BY <2>2 DEF Clears
    <3>. DEFINE drop == {m \in ToSet(sendlist[u]) : m.h \in hs}
    <3>2. /\ \A v \in Threads \ {u} : sendlist'[v] = sendlist[v]
          /\ ToSet(sendlist'[u]) = ToSet(sendlist[u]) \ drop
          /\ ready' = ready \cup {m.id : m \in drop}
      BY <3>1, ClearQueueEffect
    <3>. HIDE DEF drop
    <3>. QED
      BY <3>2
  <2>. QED
    BY <2>1, <2>2
<1>4. SenderInv'
  BY <1>0, <1>1, <1>2, <1>3, SendersKept
<1>5. ReceiverInv'
  <2>1. PICK lost : lost = {}
    OBVIOUS
  <2>2. /\ \A x \in ready : x \in ready' \/ x \in lost
        /\ \A v \in Threads : \A i \in 1..Len(stack'[v]) :
             stack'[v][i].pc \in SendPc => stack'[v][i].id \notin lost
    BY <1>3, <2>1
  <2>3. \A u \in Threads : \A x : x # 0 /\ Listed(u, x) => x \in ready' \/ Listed(u, x)' \/ Receiver(u, x)'
    BY <1>3 DEF Listed
  <2>4. \A u \in Threads : \A x : x # 0 /\ Receiver(u, x) => x \in ready' \/ Receiver(u, x)'
    BY <1>1, <1>2, ReceiverStays
  <2>. QED
    BY <1>0, <1>1, <1>2, <2>2, <2>3, <2>4, ReceiversKept
<1>6. YoungerInv'
  <2>1. CASE Quiet(t) \/ Clears(t)
    <3>1. PICK old : Traced(t, old, {})
      BY <2>1 DEF Quiet, Clears
    <3>2. KeptIds(t, 0)
      BY <3>1, TracedKept
    <3>. QED
      BY <1>0, <1>2, <3>2, YoungerKept
  <2>2. CASE Submits(t)
    <3>. DEFINE k == Len(stack[t]) + 1
    <3>1. k \in Nat
      BY TopDepth
    <3>2. /\ Traced(t, {}, {k}) /\ Len(stack'[t]) = k
          /\ Sent(stack'[t][k]) = calls + 1
      BY <2>2 DEF Submits
    <3>. HIDE DEF k
    <3>3. KeptIds(t, k) /\ stack' \in [Threads -> Seq(Frame)]
      <4>1. KeptIds(t, k)
        BY <3>2, TracedKept
      <4>2. stack' \in [Threads -> Seq(Frame)]
        BY <3>2 DEF Traced
      <4>. QED
        BY <4>1, <4>2
    <3>4. ASSUME NEW i \in 1..Len(stack'[t]), i < k, Carried(stack'[t][i]) # 0
          PROVE  Carried(stack'[t][i]) < calls + 1
      <4>1. KeptId(t, i)
        BY <3>1, <3>3, <3>4 DEF KeptIds
      <4>2. Carried(stack'[t][i]) <= calls
        BY <3>4, <4>1 DEF KeptId, IdInv, KnownInv, Depths
      <4>3. Carried(stack'[t][i]) \in Nat
        BY <3>3, FrameIds
      <4>. QED
        BY <4>2, <4>3 DEF Sound, TypeOK
    <3>5. \A j \in 1..Len(stack'[t]) : k < j => Sent(stack'[t][j]) = 0
      BY <3>1, <3>2
    <3>. QED
      BY <1>0, <3>1, <3>2, <3>3, <3>4, <3>5, YoungerKept
  <2>. QED
    BY <2>1, <2>2
<1>. QED
  BY <1>4, <1>5, <1>6 DEF SendInv

(* Send lists its message: it is the sender, and the message is listed.     *)
LEMMA ListsStep ==
  ASSUME Sound, IdInv, SendInv, HandlerInv, NEW t \in Threads, Lists(t)
  PROVE  SendInv'
<1>0. SenderInv /\ ReceiverInv /\ YoungerInv
  BY DEF SendInv
<1>. DEFINE n == Len(stack[t])
<1>1. n \in 1..n /\ Top(t) = stack[t][n] /\ Top(t) \in Frame /\ n \in Nat \ {0}
  BY TopDepth
<1>2. PICK f : f.pc \in SendPc /\ f.id = Top(t).msg.id /\ f.to = Top(t).to /\ Replaces(t, f)
  BY DEF Lists
<1>3. Top(t).pc \in QueuePc /\ Top(t).to \in Threads /\ Top(t).msg \in Message
  BY SoundFacts DEF Lists
<1>4. PICK u \in Threads, m \in Message : u = Top(t).to /\ m = Top(t).msg
  BY <1>3
<1>5. /\ sendlist'[u] = Append(sendlist[u], m)
      /\ \A v \in Threads \ {u} : sendlist'[v] = sendlist[v]
      /\ ready' = ready /\ calls' = calls
  BY <1>4 DEF Lists
<1>6. ToSet(sendlist'[u]) = ToSet(sendlist[u]) \cup {m}
  BY <1>5, QueueTypes, AppendSet
<1>7. m.thread = t
  BY <1>3, <1>4 DEF HandlerInv
<1>8. stack' \in [Threads -> Seq(Frame)] /\ Len(stack'[t]) = n /\ stack'[t][n] = f
  BY <1>2 DEF Replaces, Others
<1>9. f \in Frame
  BY <1>1, <1>8
<1>10. Traced(t, {n}, {n})
  BY <1>2, TracedReplaces
<1>11. Carried(f) = 0 /\ Sent(f) = m.id /\ Carried(stack[t][n]) = m.id /\ Sent(stack[t][n]) = m.id
  BY <1>1, <1>2, <1>3, <1>4, <1>9, FrameIds
<1>. HIDE DEF n
<1>12. SendsStay(t, 0) /\ ReceivesStay(t, 0) /\ OldSends(t, n) /\ OldReceives(t, 0)
  <2>1. stack[t][n].pc \notin SendPc /\ stack[t][n].pc # "recv" /\ stack'[t][n].pc # "recv"
    BY <1>1, <1>2, <1>3, <1>8 DEF SendPc, QueuePc
  <2>2. PICK old : old = {n}
    OBVIOUS
  <2>3. Traced(t, old, old)
    BY <1>10, <2>2
  <2>4. /\ \A i \in old : i \in 1..Len(stack[t]) /\ stack[t][i].pc \in SendPc => i = 0
        /\ \A i \in old : i \in 1..Len(stack[t]) /\ stack[t][i].pc = "recv" => i = 0
        /\ \A i \in old : i \in 1..Len(stack'[t]) /\ stack'[t][i].pc \in SendPc => i = n
        /\ \A i \in old : i \in 1..Len(stack'[t]) /\ stack'[t][i].pc = "recv" => i = 0
    BY <2>1, <2>2
  <2>5. SendsStay(t, 0)
    BY <2>3, <2>4, TracedSends
  <2>6. ReceivesStay(t, 0)
    BY <2>3, <2>4, TracedSends
  <2>7. OldSends(t, n)
    BY <2>3, <2>4, TracedSends
  <2>8. OldReceives(t, 0)
    BY <2>3, <2>4, TracedSends
  <2>. QED
    BY <2>5, <2>6, <2>7, <2>8
<1>13. 0 \notin 1..Len(stack[t]) /\ 0 \notin 1..Len(stack'[t])
  OBVIOUS
<1>14. SenderInv'
  <2>1. Sender(m)'
    BY <1>1, <1>2, <1>4, <1>7, <1>8 DEF Sender, Sends, Depths
  <2>2. \A v \in Threads : \A x \in ToSet(sendlist'[v]) : x \in ToSet(sendlist[v]) \/ Sender(x)'
    BY <1>5, <1>6, <2>1
  <2>. QED
    BY <1>0, <1>12, <1>13, <2>2, SendersKept
<1>15. ReceiverInv'
  <2>1. PICK lost : lost = {}
    OBVIOUS
  <2>2. /\ \A x \in ready : x \in ready' \/ x \in lost
        /\ \A v \in Threads : \A i \in 1..Len(stack'[v]) :
             stack'[v][i].pc \in SendPc => stack'[v][i].id \notin lost
    BY <1>5, <2>1
  <2>3. \A w \in Threads : \A x : x # 0 /\ Listed(w, x) => x \in ready' \/ Listed(w, x)' \/ Receiver(w, x)'
    BY <1>5, <1>6 DEF Listed
  <2>4. \A w \in Threads : \A x : x # 0 /\ Receiver(w, x) => x \in ready' \/ Receiver(w, x)'
    BY <1>12, <1>13, ReceiverStays
  <2>5. \A w, x : n \in 1..Len(stack'[t]) /\ w = stack'[t][n].to /\ x = stack'[t][n].id => Listed(w, x)'
    BY <1>2, <1>4, <1>6, <1>8 DEF Listed
  <2>6. OldSends(t, n)
    BY <1>12
  <2>. QED
    BY <1>0, <2>2, <2>3, <2>4, <2>5, <2>6, ReceiversKept
<1>16. YoungerInv'
  <2>1. KeptIds(t, n)
    BY <1>10, TracedKept
  <2>2. KeptId(t, n)
    BY <1>1, <1>8, <1>11 DEF KeptId, n
  <2>3. KeptIds(t, 0)
    BY <2>1, <2>2 DEF KeptIds
  <2>. QED
    BY <1>0, <1>13, <2>3, YoungerKept
<1>. QED
  BY <1>14, <1>15, <1>16 DEF SendInv

(* Send ends only when its message was reported.                            *)
LEMMA AnsweredStep ==
  ASSUME Sound, IdInv, SendInv, NEW t \in Threads, Answered(t)
  PROVE  SendInv'
<1>0. SenderInv /\ ReceiverInv /\ YoungerInv /\ FrameInv /\ CarriedInv /\ ListInv
  BY DEF SendInv, IdInv
<1>. DEFINE n == Len(stack[t])
<1>1. n \in 1..n /\ Top(t) = stack[t][n] /\ Top(t) \in Frame /\ n \in Nat \ {0}
  BY TopDepth
<1>2. PICK x : x = Top(t).id
  OBVIOUS
<1>3. /\ stack[t][n].pc \in SendPc /\ x \in ready /\ ready' = ready \ {x} /\ Drops(t)
      /\ sendlist' = sendlist
  BY <1>1, <1>2 DEF Answered
<1>4. x # 0 /\ Sent(stack[t][n]) = x /\ stack[t][n].id = x
  BY <1>1, <1>2, <1>3, FrameIds
<1>5. Traced(t, {n}, {}) /\ Len(stack'[t]) = n - 1
  BY <1>3, TracedDrops DEF Drops
<1>6. n \notin 1..Len(stack'[t])
  BY <1>1, <1>5
<1>. HIDE DEF n
<1>7. SendsStay(t, n) /\ ReceivesStay(t, 0) /\ OldSends(t, 0) /\ OldReceives(t, 0)
  <2>1. PICK old, new : old = {n} /\ new = {}
    OBVIOUS
  <2>2. stack[t][n].pc # "recv"
    BY <1>3 DEF SendPc
  <2>. QED
    BY <1>5, <2>1, <2>2, TracedSends
<1>8. KeptIds(t, 0) /\ stack' \in [Threads -> Seq(Frame)]
  <2>1. KeptIds(t, 0)
    BY <1>5, TracedKept
  <2>2. stack' \in [Threads -> Seq(Frame)]
    BY <1>5 DEF Traced
  <2>. QED
    BY <2>1, <2>2
<1>9. 0 \notin 1..Len(stack[t]) /\ 0 \notin 1..Len(stack'[t])
  OBVIOUS
<1>10. SenderInv'
  <2>1. \A v \in Threads : \A m \in ToSet(sendlist'[v]) : m.id # stack[t][n].id
    BY <1>0, <1>3, <1>4 DEF ListInv
  <2>2. ASSUME NEW v \in Threads, NEW i \in 1..Len(stack'[v]), stack'[v][i].pc = "recv",
               stack'[v][i].msg.id = stack[t][n].id
        PROVE  FALSE
    <3>1. Carried(stack'[v][i]) = x
      BY <1>4, <1>8, <2>2, FrameIds
    <3>2. KeptId(v, i)
      BY <1>8, <1>9 DEF KeptIds
    <3>3. i \in 1..Len(stack[v]) /\ Carried(stack[v][i]) = x
      BY <1>4, <3>1, <3>2 DEF KeptId
    <3>. QED
      BY <1>0, <1>3, <1>4, <3>3 DEF CarriedInv, Depths
  <2>3. \A v \in Threads : \A m \in ToSet(sendlist'[v]) : m \in ToSet(sendlist[v]) \/ Sender(m)'
    BY <1>3
  <2>. QED
    BY <1>0, <1>7, <1>9, <2>1, <2>2, <2>3, SendersKept
<1>11. ReceiverInv'
  <2>1. PICK lost : lost = {x}
    OBVIOUS
  <2>2. \A y \in ready : y \in ready' \/ y \in lost
    BY <1>3, <2>1
  <2>3. ASSUME NEW v \in Threads, NEW i \in 1..Len(stack'[v]), stack'[v][i].pc \in SendPc,
               stack'[v][i].id \in lost
        PROVE  FALSE
    <3>1. Sent(stack'[v][i]) = x
      BY <1>8, <2>1, <2>3, FrameIds
    <3>2. KeptId(v, i)
      BY <1>8, <1>9 DEF KeptIds
    <3>3. i \in 1..Len(stack[v]) /\ Sent(stack[v][i]) = x
      BY <1>4, <3>1, <3>2 DEF KeptId
    <3>4. n \in 1..Len(stack[t])
      BY <1>1 DEF n
    <3>5. v = t /\ i = n
      BY <1>0, <1>4, <3>3, <3>4 DEF FrameInv, Depths
    <3>. QED
      BY <1>6, <3>5
  <2>4. \A w \in Threads : \A y : y # 0 /\ Listed(w, y) => y \in ready' \/ Listed(w, y)' \/ Receiver(w, y)'
    BY <1>3 DEF Listed
  <2>5. \A w \in Threads : \A y : y # 0 /\ Receiver(w, y) => y \in ready' \/ Receiver(w, y)'
    BY <1>7, <1>9, ReceiverStays
  <2>. QED
    BY <1>0, <1>7, <1>9, <2>2, <2>3, <2>4, <2>5, ReceiversKept
<1>12. YoungerInv'
  BY <1>0, <1>8, <1>9, YoungerKept
<1>. QED
  BY <1>10, <1>11, <1>12 DEF SendInv

(* A message goes from the list to a receiver, which reports it.            *)
LEMMA ReceiveStep ==
  ASSUME Sound, IdInv, SendInv, NEW t \in Threads, ReceiveSends(t)
  PROVE  SendInv'
<1>0. SenderInv /\ ReceiverInv /\ YoungerInv
  BY DEF SendInv
<1>. DEFINE n == Len(stack[t])
            m == Top(t).msg
            h == Head(sendlist[t])
<1>1. n \in 1..n /\ Top(t) = stack[t][n] /\ Top(t) \in Frame /\ n \in Nat \ {0}
  BY TopDepth
<1>2. /\ Top(t).pc = "recv" /\ ready' = ready \cup ({m.id} \ {0}) /\ calls' = calls
      /\ \A v \in Threads \ {t} : sendlist'[v] = sendlist[v]
      /\ \/ sendlist[t] = <<>> /\ sendlist' = sendlist /\ Drops(t)
         \/ /\ sendlist[t] # <<>> /\ h \in Message
            /\ sendlist'[t] = Tail(sendlist[t])
            /\ ToSet(sendlist[t]) = ToSet(sendlist'[t]) \cup {h}
            /\ Adds(t, Receiving(h), Running(h.h))
  BY ReceiveSendsEffect DEF ReceiveSends
<1>3. stack[t][n].msg = m
  BY <1>1
<1>. HIDE DEF n, m, h
<1>4. stack[t][n].pc \notin SendPc /\ 0 \notin 1..Len(stack[t]) /\ 0 \notin 1..Len(stack'[t])
  BY <1>1, <1>2 DEF SendPc
<1>5. PICK lost : lost = {}
  OBVIOUS
<1>6. /\ \A x \in ready : x \in ready' \/ x \in lost
      /\ \A v \in Threads : \A i \in 1..Len(stack'[v]) :
           stack'[v][i].pc \in SendPc => stack'[v][i].id \notin lost
  BY <1>2, <1>5
<1>7. ASSUME ReceivesStay(t, n)
      PROVE  \A w \in Threads : \A x : x # 0 /\ Receiver(w, x) => x \in ready' \/ Receiver(w, x)'
  BY <1>2, <1>3, <1>7, ReceiverStays
<1>8. CASE sendlist[t] = <<>> /\ sendlist' = sendlist /\ Drops(t)
  <2>1. Traced(t, {n}, {})
    BY <1>8, TracedDrops DEF n
  <2>2. SendsStay(t, 0) /\ ReceivesStay(t, n) /\ OldSends(t, 0) /\ OldReceives(t, 0)
    <3>1. PICK old, new : old = {n} /\ new = {}
      OBVIOUS
    <3>. QED
      BY <1>4, <2>1, <3>1, TracedSends
  <2>3. KeptIds(t, 0)
    BY <2>1, TracedKept
  <2>4. SenderInv'
    <3>1. \A v \in Threads : \A x \in ToSet(sendlist'[v]) : x \in ToSet(sendlist[v]) \/ Sender(x)'
      BY <1>8
    <3>. QED
      BY <1>0, <1>4, <2>2, <3>1, SendersKept
  <2>5. ReceiverInv'
    <3>1. \A w \in Threads : \A x : x # 0 /\ Listed(w, x) => x \in ready' \/ Listed(w, x)' \/ Receiver(w, x)'
      BY <1>8 DEF Listed
    <3>. QED
      BY <1>0, <1>4, <1>6, <1>7, <2>2, <3>1, ReceiversKept
  <2>6. YoungerInv'
    BY <1>0, <1>4, <2>3, YoungerKept
  <2>. QED
    BY <2>4, <2>5, <2>6 DEF SendInv
<1>9. CASE /\ sendlist[t] # <<>> /\ h \in Message
           /\ sendlist'[t] = Tail(sendlist[t])
           /\ ToSet(sendlist[t]) = ToSet(sendlist'[t]) \cup {h}
           /\ Adds(t, Receiving(h), Running(h.h))
  <2>1. /\ Len(stack'[t]) = n + 1 /\ stack'[t][n] = Receiving(h)
        /\ stack'[t][n].pc = "recv" /\ stack'[t][n].msg = h
    BY <1>9 DEF Adds, Others, n, Receiving
  <2>2. Traced(t, {n}, {n})
    BY <1>9, TracedAdds, MuteFrames DEF n
  <2>3. SendsStay(t, 0) /\ ReceivesStay(t, n) /\ OldSends(t, 0) /\ OldReceives(t, n)
    <3>1. PICK old, new : old = {n} /\ new = {n}
      OBVIOUS
    <3>2. stack'[t][n].pc \notin SendPc
      BY <2>1 DEF SendPc
    <3>. QED
      BY <1>4, <2>2, <3>1, <3>2, TracedSends
  <2>4. KeptIds(t, n)
    BY <2>2, TracedKept
  <2>5. \A v \in Threads : ToSet(sendlist'[v]) \subseteq ToSet(sendlist[v])
    BY <1>2, <1>9
  <2>6. SenderInv'
    <3>1. \A v \in Threads : \A x \in ToSet(sendlist'[v]) : x \in ToSet(sendlist[v]) \/ Sender(x)'
      BY <2>5
    <3>2. ASSUME NEW x, x = stack'[t][n].msg PROVE Sender(x)'
      <4>1. Sender(x) /\ x.thread \in Threads
        BY <1>0, <1>9, <2>1, <3>2 DEF SenderInv, Message
      <4>. QED
        BY <1>4, <2>3, <4>1, SenderStays
    <3>. QED
      BY <1>0, <1>4, <2>1, <2>3, <3>1, <3>2, SendersKept
  <2>7. ReceiverInv'
    <3>1. \A w \in Threads : \A x : x # 0 /\ Listed(w, x) => x \in ready' \/ Listed(w, x)' \/ Receiver(w, x)'
      <4>1. \A x : x = h.id => Receiver(t, x)'
        BY <1>1, <2>1 DEF Receiver, Handles, Depths
      <4>. QED
        BY <1>2, <1>9, <4>1 DEF Listed
    <3>. QED
      BY <1>0, <1>4, <1>6, <1>7, <2>3, <3>1, ReceiversKept
  <2>8. YoungerInv'
    <3>1. n \in Nat /\ n = Len(stack[t])
      BY <1>1 DEF n
    <3>2. Sent(stack'[t][n]) = 0
      BY <2>1 DEF Sent, Receiving, QueuePc, SendPc
    <3>3. ASSUME NEW j \in 1..Len(stack'[t]), n < j PROVE Sent(stack'[t][j]) = 0
      <4>1. KeptId(t, j) /\ j \notin 1..Len(stack[t])
        BY <2>4, <3>1, <3>3 DEF KeptIds
      <4>. QED
        BY <4>1 DEF KeptId
    <3>. QED
      BY <1>0, <2>4, <3>1, <3>2, <3>3, YoungerKept
  <2>. QED
    BY <2>6, <2>7, <2>8 DEF SendInv
<1>. QED
  BY <1>2, <1>8, <1>9

(* Every Send goes on until its message is reported.                        *)
LEMMA SendStep ==
  ASSUME Sound, IdInv, SendInv, HandlerInv, NEW t \in Threads, Step(t)
  PROVE  SendInv'
  BY StepKind, CalmStep, ListsStep, ReceiveStep, AnsweredStep

-----------------------------------------------------------------------------
(* The wake-ups for answers.                                                *)

(* No call that the step of t has begun waits for an answer that is there.  *)
Unanswered(f) == Waiting(f) /\ f.id \notin ready'
Unwaiting(t) ==
  \A j \in 1..Len(stack'[t]) :
    j < Len(stack[t]) \/ stack'[t][j].pc # "swait" \/ Unanswered(stack'[t][j])
(* The innermost call of t is still there, and has waited.                  *)
StillWaiting(t) ==
  Len(stack[t]) \in 1..Len(stack'[t]) /\ Waiting(stack'[t][Len(stack[t])])
(* Who has an answer is woken up.                                           *)
Told ==
  \A v \in Threads : \A i \in 1..Len(stack[v]) :
    stack[v][i].pc \in SendPc /\ stack[v][i].id \in ready' => stack[v][i].id \in ready \/ v \in signaled'

(* Then a report still comes with a wake-up.                                *)
LEMMA AnswerKept ==
  ASSUME Sound, AnswerInv, NEW t \in Threads, Others(t), Told, Unwaiting(t),
         signaled \ {t} \subseteq signaled',
         t \in signaled => t \in signaled' \/ Len(stack[t]) = 1 \/ StillWaiting(t),
         Waiting(Top(t)) => t \in signaled' \/ StillWaiting(t)
  PROVE  AnswerInv'
<1>. DEFINE n == Len(stack[t])
<1>1. n \in 1..n /\ Top(t) = stack[t][n] /\ n \in Nat \ {0}
  BY TopDepth
<1>2. /\ \A v \in Threads \ {t} : stack'[v] = stack[v]
      /\ \A i \in 1..(n - 1) : i \in 1..Len(stack'[t]) /\ stack'[t][i] = stack[t][i]
      /\ \A j \in 1..Len(stack'[t]) :
           j < n \/ stack'[t][j].pc # "swait" \/ Unanswered(stack'[t][j])
  BY DEF Others, Unwaiting
<1>3. StillWaiting(t) => n \in 1..Len(stack'[t]) /\ Waiting(stack'[t][n])
  BY DEF StillWaiting
<1>4. ASSUME NEW v \in Threads \ {t}, NEW i \in 1..Len(stack'[v]), stack'[v][i].pc = "swait"
      PROVE  /\ Waiting(stack'[v][i])
             /\ stack'[v][i].id \in ready' /\ v \notin signaled' =>
                  \E j \in 1..Len(stack'[v]) : i < j /\ Waiting(stack'[v][j])
  <2>1. stack'[v] = stack[v]
    BY <1>2
  <2>2. /\ Waiting(stack[v][i])
        /\ stack[v][i].id \in ready /\ v \notin signaled =>
             \E j \in 1..Len(stack[v]) : i < j /\ Waiting(stack[v][j])
    BY <1>4, <2>1 DEF AnswerInv, Depths
  <2>3. v \in signaled => v \in signaled'
    OBVIOUS
  <2>4. stack[v][i].id \in ready' => stack[v][i].id \in ready \/ v \in signaled'
    BY <2>1, <2>2 DEF Told, Waiting
  <2>. QED
    BY <2>1, <2>2, <2>3, <2>4
<1>. HIDE DEF n
<1>5. ASSUME NEW i \in 1..Len(stack'[t]), stack'[t][i].pc = "swait"
      PROVE  /\ Waiting(stack'[t][i])
             /\ stack'[t][i].id \in ready' /\ t \notin signaled' =>
                  \E j \in 1..Len(stack'[t]) : i < j /\ Waiting(stack'[t][j])
  <2>0. SUFFICES ASSUME i < n PROVE
             /\ Waiting(stack'[t][i])
             /\ stack'[t][i].id \in ready' /\ t \notin signaled' =>
                  \E j \in 1..Len(stack'[t]) : i < j /\ Waiting(stack'[t][j])
    BY <1>2, <1>5 DEF Unanswered
  <2>1. i < n /\ i \in 1..(n - 1) /\ i \in 1..Len(stack[t])
    BY <1>1, <2>0 DEF n
  <2>2. stack'[t][i] = stack[t][i]
    BY <1>2, <2>1
  <2>3. /\ Waiting(stack[t][i])
        /\ stack[t][i].id \in ready /\ t \notin signaled =>
             \E j \in 1..Len(stack[t]) : i < j /\ Waiting(stack[t][j])
    BY <1>5, <2>1, <2>2 DEF AnswerInv, Depths
  <2>4. ASSUME stack[t][i].id \in ready', t \notin signaled'
        PROVE  \E j \in 1..Len(stack'[t]) : i < j /\ Waiting(stack'[t][j])
    <3>1. stack[t][i].id \in ready
      BY <2>1, <2>3, <2>4 DEF Told, Waiting
    <3>2. CASE StillWaiting(t)
      BY <1>3, <2>1, <3>2
    <3>3. CASE ~StillWaiting(t)
      <4>1. t \notin signaled /\ ~Waiting(Top(t))
        BY <1>1, <2>1, <2>4, <3>3 DEF n
      <4>2. PICK j \in 1..Len(stack[t]) : i < j /\ Waiting(stack[t][j])
        BY <2>3, <3>1, <4>1
      <4>3. j # n
        BY <1>1, <4>1, <4>2
      <4>4. j \in 1..(n - 1)
        BY <1>1, <4>3 DEF n
      <4>. QED
        BY <1>2, <4>2, <4>4
    <3>. QED
      BY <3>2, <3>3
  <2>. QED
    BY <2>2, <2>3, <2>4
<1>. QED
  BY <1>4, <1>5 DEF AnswerInv, Depths

(* The calls that a step makes.                                             *)
LEMMA UnwaitingSteps ==
  ASSUME Sound, NEW t \in Threads
  PROVE  /\ \A f : Replaces(t, f) /\ (f.pc # "swait" \/ Unanswered(f)) => Unwaiting(t)
         /\ \A f, g : Adds(t, f, g) /\ (f.pc # "swait" \/ Unanswered(f)) /\ g.pc # "swait"
                     => Unwaiting(t)
         /\ Drops(t) => Unwaiting(t)
         /\ stack' = stack /\ Top(t).pc # "swait" => Unwaiting(t) /\ Others(t)
<1>. DEFINE n == Len(stack[t])
<1>1. n \in Nat \ {0} /\ Top(t) = stack[t][n] /\ stack \in [Threads -> Seq(Frame)]
  BY TopDepth
<1>2. \A k \in Nat : /\ \A j \in 1..k : j < k \/ j = k
                     /\ \A j \in 1..(k + 1) : j < k \/ j = k \/ j = k + 1
                     /\ \A j \in 1..(k - 1) : j < k
  OBVIOUS
<1>3. ASSUME stack' = stack, Top(t).pc # "swait" PROVE Unwaiting(t) /\ Others(t)
  <2>1. Unwaiting(t)
    BY <1>1, <1>2, <1>3 DEF Unwaiting
  <2>2. \A i \in 1..(n - 1) : i \in 1..Len(stack'[t])
    BY <1>1, <1>3
  <2>. QED
    BY <1>1, <1>3, <2>1, <2>2 DEF Others, Top
<1>. QED
  BY <1>1, <1>2, <1>3 DEF Unwaiting, Replaces, Adds, Drops

(* Who is not in Send: the step wakes nobody, or the one it answers.        *)
LEMMA AnswerPlain ==
  ASSUME Sound, AnswerInv, NEW t \in Threads, Others(t), Unwaiting(t), Top(t).pc \notin SendPc,
         signaled \subseteq signaled', Told
  PROVE  AnswerInv'
<1>1. ~Waiting(Top(t))
  BY DEF Waiting
<1>. QED
  BY <1>1, AnswerKept

(* The sender of a message is the thread that it names.                     *)
LEMMA SenderIs ==
  ASSUME Sound, FrameInv, NEW m \in Message, Sender(m), NEW v \in Threads, NEW i \in 1..Len(stack[v]),
         stack[v][i].pc \in SendPc, stack[v][i].id = m.id
  PROVE  v = m.thread
<1>1. m.thread \in Threads
  BY DEF Message
<1>2. PICK j \in 1..Len(stack[m.thread]) : stack[m.thread][j].pc \in SendPc /\ stack[m.thread][j].id = m.id
  BY DEF Sender, Sends, Depths
<1>3. stack[v][i] \in Frame /\ stack[m.thread][j] \in Frame
  BY <1>1, TopDepth
<1>4. Sent(stack[v][i]) = m.id /\ Sent(stack[m.thread][j]) = m.id /\ m.id # 0
  BY <1>2, <1>3, FrameIds
<1>. QED
  BY <1>1, <1>2, <1>4 DEF FrameInv, Depths

(* An answer is given with a wake-up.                                       *)
LEMMA AnswersTold ==
  ASSUME Sound, IdInv, SendInv, NEW t \in Threads
  PROVE  /\ ready' \subseteq ready => Told
         /\ ReceiveSends(t) => Told /\ signaled \subseteq signaled'
         /\ \A u \in Threads, hs \in SUBSET Handlers :
              ClearQueue(u, hs) => Told /\ signaled \subseteq signaled'
<1>0. FrameInv /\ SenderInv
  BY DEF IdInv, SendInv
<1>1. ready' \subseteq ready => Told
  BY DEF Told
<1>2. ASSUME NEW M, \A m \in M : m \in Message /\ Sender(m) /\ m.thread \in signaled',
             ready' \subseteq ready \cup {m.id : m \in M}
      PROVE  Told
  <2>. SUFFICES ASSUME NEW v \in Threads, NEW i \in 1..Len(stack[v]), stack[v][i].pc \in SendPc,
                       stack[v][i].id \in ready', stack[v][i].id \notin ready
                PROVE  v \in signaled'
    BY DEF Told
  <2>1. PICK m \in M : stack[v][i].id = m.id
    BY <1>2
  <2>2. v = m.thread
    BY <1>0, <1>2, <2>1, SenderIs
  <2>. QED
    BY <1>2, <2>2
<1>3. ASSUME ReceiveSends(t) PROVE Told /\ signaled \subseteq signaled'
  <2>1. PICK m : m = Top(t).msg
    OBVIOUS
  <2>2. /\ Top(t).pc = "recv" /\ m \in Message \cup {NoMessage} /\ ready' = ready \cup ({m.id} \ {0})
        /\ signaled' = signaled \cup ({m.thread} \ {Nobody})
    BY <1>3, <2>1, ReceiveSendsEffect
  <2>3. CASE m = NoMessage
    <3>1. m.id = 0
      BY <2>3 DEF NoMessage
    <3>. QED
      BY <1>1, <2>2, <3>1
  <2>4. CASE m # NoMessage
    <3>1. m \in Message /\ m.thread \in Threads
      BY <2>2, <2>4 DEF Message
    <3>2. Len(stack[t]) \in 1..Len(stack[t]) /\ Top(t) = stack[t][Len(stack[t])]
      BY TopDepth
    <3>3. Sender(m)
      BY <1>0, <2>1, <2>2, <2>4, <3>2 DEF SenderInv, Depths
    <3>4. m.thread \in signaled'
      BY <2>2, <3>1, ThreadIsSomebody
    <3>5. PICK M : M = {m}
      OBVIOUS
    <3>6. \A x \in M : x \in Message /\ Sender(x) /\ x.thread \in signaled'
      BY <3>1, <3>3, <3>4, <3>5
    <3>7. ready' \subseteq ready \cup {x.id : x \in M}
      BY <2>2, <3>5
    <3>. QED
      BY <1>2, <2>2, <3>6, <3>7
  <2>. QED
    BY <2>3, <2>4
<1>4. ASSUME NEW u \in Threads, NEW hs \in SUBSET Handlers, ClearQueue(u, hs)
      PROVE  Told /\ signaled \subseteq signaled'
  <2>1. PICK M : M = {m \in ToSet(sendlist[u]) : m.h \in hs}
    OBVIOUS
  <2>2. /\ ready' = ready \cup {m.id : m \in M}
        /\ signaled' = signaled \cup {m.thread : m \in M}
    BY <1>4, <2>1, ClearQueueEffect
  <2>3. \A m \in M : m \in Message /\ Sender(m) /\ m.thread \in signaled'
    BY <1>0, <2>1, <2>2, QueueTypes DEF SenderInv
  <2>. QED
    BY <1>2, <2>2, <2>3
<1>. QED
  BY <1>1, <1>3, <1>4

(* No answer is lost.                                                       *)
LEMMA AnswerStep ==
  ASSUME Sound, IdInv, SendInv, AnswerInv, NEW t \in Threads, Step(t)
  PROVE  AnswerInv'
<1>0. ready' \subseteq ready => Told
  BY AnswersTold
<1>1. /\ \A b : \A pc \in LoopPc : Loop(pc, b).pc # "swait"
      /\ \A h : Running(h).pc # "swait"
      /\ \A m : Receiving(m).pc # "swait"
      /\ \A pc \in QueuePc : \A kind, m, u : Queueing(pc, kind, m, u).pc # "swait"
      /\ \A id, u, b : Sending("wake", id, u, b).pc # "swait" /\ Sending("loop", id, u, b).pc # "swait"
      /\ \A h, left : Destroying(h, left).pc # "swait"
      /\ \A u : \A pc \in {"join", "remove"} : Joining(pc, u).pc # "swait"
  BY DEF Loop, Running, Receiving, Queueing, Sending, Destroying, Joining, LoopPc, QueuePc
<1>2. CASE GetSends(t) \/ GetEmpty(t)
  <2>1. ready' = ready /\ signaled' = signaled
    BY <1>2 DEF GetSends, GetEmpty, event
  <2>2. Top(t).pc \notin SendPc
    BY <1>2 DEF GetSends, GetEmpty, At, SendPc
  <2>3. "check" \in LoopPc /\ "done" \in LoopPc /\ "wait" \in LoopPc
    BY DEF LoopPc
  <2>4. Others(t) /\ Unwaiting(t)
    <3>1. \/ Replaces(t, Loop("check", FALSE))
          \/ Adds(t, Loop("check", FALSE), Receiving(NoMessage))
          \/ Replaces(t, Loop("done", FALSE))
          \/ Replaces(t, Loop("wait", Top(t).timer))
      BY <1>2, GetSendsEffect, GetEmptyEffect, Zenon
    <3>2. /\ Loop("check", FALSE).pc # "swait" /\ Receiving(NoMessage).pc # "swait"
          /\ Loop("done", FALSE).pc # "swait" /\ Loop("wait", Top(t).timer).pc # "swait"
      BY <1>1, <2>3, Zenon
    <3>3. Unwaiting(t)
      BY <3>1, <3>2, UnwaitingSteps, Zenon
    <3>. QED
      BY <3>1, <3>3, OthersOf, Zenon
  <2>. QED
    BY <1>0, <2>1, <2>2, <2>4, AnswerPlain
<1>3. CASE Wait(t) \/ SocketEvent(t)
  <2>1. ready' = ready /\ signaled \ {t} \subseteq signaled' /\ Top(t).pc = "wait"
    BY <1>3 DEF Wait, SocketEvent, event, At
  <2>2. Len(stack[t]) = 1
    BY <2>1, Bottom DEF LoopPc
  <2>3. "get" \in LoopPc /\ ~Waiting(Top(t))
    BY <2>1 DEF LoopPc, Waiting, SendPc
  <2>4. Others(t) /\ Unwaiting(t)
    BY <1>1, <1>3, <2>1, <2>3, WaitEffect, SocketEventEffect, OthersOf, UnwaitingSteps
  <2>. QED
    BY <1>0, <2>1, <2>2, <2>3, <2>4, AnswerKept
<1>4. CASE HandlerReturns(t) \/ Destroyed(t) \/ RemoveQueue(t)
  <2>1. ready' = ready /\ signaled' = signaled /\ Top(t).pc \notin SendPc
    BY <1>4 DEF HandlerReturns, Destroyed, RemoveQueue, event, At, SendPc
  <2>2. Others(t) /\ Unwaiting(t)
    BY <1>4, HandlerReturnsEffect, DestroyedEffect, RemoveQueueEffect, OthersOf, UnwaitingSteps
  <2>. QED
    BY <1>0, <2>1, <2>2, AnswerPlain
<1>5. CASE ReceiveSends(t)
  <2>1. Top(t).pc \notin SendPc /\ Told /\ signaled \subseteq signaled'
    BY <1>5, AnswersTold DEF ReceiveSends, At, SendPc
  <2>2. Others(t) /\ Unwaiting(t)
    BY <1>1, <1>5, ReceiveSendsEffect, OthersOf, UnwaitingSteps
  <2>. QED
    BY <2>1, <2>2, AnswerPlain
<1>6. ASSUME NEW due \in SUBSET dmsgq[t], GetMessage(t, due) PROVE AnswerInv'
  <2>1. ready' = ready /\ signaled' = signaled /\ Top(t).pc \notin SendPc
    BY <1>6 DEF GetMessage, event, At, SendPc
  <2>2. "get" \in LoopPc /\ "empty" \in LoopPc
    BY DEF LoopPc
  <2>3. Others(t) /\ Unwaiting(t)
    BY <1>1, <1>6, <2>2, GetMessageEffect, OthersOf, UnwaitingSteps, Zenon
  <2>. QED
    BY <1>0, <2>1, <2>3, AnswerPlain
<1>7. ASSUME NEW h \in Handlers, NEW kind \in {"post", "delay", "send"}, Submit(t, h, kind)
      PROVE  AnswerInv'
  <2>1. ready' = ready /\ signaled' = signaled
    BY <1>7 DEF Submit, event
  <2>. DEFINE m == [id |-> calls + 1, h |-> h, thread |-> t]
  <2>2. /\ Top(t).pc = "run"
        /\ stack' = stack \/ Adds(t, Top(t), Running(h)) \/ Adds(t, Top(t), Queueing("queue", kind, m, Owner[h]))
    BY <1>7, SubmitEffect
  <2>3. "queue" \in QueuePc /\ Top(t).pc \notin SendPc
    BY <2>2 DEF QueuePc, SendPc
  <2>. HIDE DEF m
  <2>4. Others(t) /\ Unwaiting(t)
    BY <1>1, <2>2, <2>3, OthersOf, UnwaitingSteps
  <2>. QED
    BY <1>0, <2>1, <2>3, <2>4, AnswerPlain
<1>8. ASSUME Top(t).pc \in QueuePc, ready' = ready, Enqueue(Top(t).to, Top(t).kind, Top(t).msg),
             \/ Top(t).kind = "send" /\ Replaces(t, Sending("wake", Top(t).msg.id, Top(t).to, FALSE))
             \/ Top(t).kind # "send" /\ Drops(t) /\ Top(t)'.pc = "run"
      PROVE  AnswerInv'
  <2>1. Top(t).pc \notin SendPc
    BY <1>8 DEF QueuePc, SendPc
  <2>2. signaled \subseteq signaled'
    BY <1>8 DEF Enqueue
  <2>3. Others(t) /\ Unwaiting(t)
    BY <1>1, <1>8, OthersOf, UnwaitingSteps, Zenon
  <2>. QED
    BY <1>0, <1>8, <2>1, <2>2, <2>3, AnswerPlain
<1>9. CASE Lock(t)
  <2>1. ready' = ready /\ Top(t).pc = "queue"
    BY <1>9 DEF Lock, At
  <2>2. Top(t).pc \in QueuePc /\ "activate" \in QueuePc /\ Top(t).pc \notin SendPc
    BY <2>1 DEF QueuePc, SendPc
  <2>3. \/ /\ UNCHANGED <<queue, signaled>>
           /\ Replaces(t, Queueing("activate", Top(t).kind, Top(t).msg, Top(t).to))
        \/ /\ Enqueue(Top(t).to, Top(t).kind, Top(t).msg)
           /\ \/ Top(t).kind = "send" /\ Replaces(t, Sending("wake", Top(t).msg.id, Top(t).to, FALSE))
              \/ Top(t).kind # "send" /\ Drops(t) /\ Top(t)'.pc = "run"
    BY <1>9, LockEffect, Zenon
  <2>4. ASSUME UNCHANGED <<queue, signaled>>,
               Replaces(t, Queueing("activate", Top(t).kind, Top(t).msg, Top(t).to))
        PROVE  AnswerInv'
    <3>1. Others(t) /\ Unwaiting(t)
      BY <1>1, <2>2, <2>4, OthersOf, UnwaitingSteps
    <3>. QED
      BY <1>0, <2>1, <2>2, <2>4, <3>1, AnswerPlain
  <2>. QED
    BY <1>8, <2>1, <2>2, <2>3, <2>4, Zenon
<1>10. CASE Activate(t)
  <2>1. ready' = ready
    BY <1>10 DEF Activate
  <2>2. Top(t).pc \in QueuePc
    BY <1>10, ActivateEffect DEF QueuePc
  <2>3. /\ Enqueue(Top(t).to, Top(t).kind, Top(t).msg)
        /\ \/ Top(t).kind = "send" /\ Replaces(t, Sending("wake", Top(t).msg.id, Top(t).to, FALSE))
           \/ Top(t).kind # "send" /\ Drops(t) /\ Top(t)'.pc = "run"
    BY <1>10, ActivateEffect, Zenon
  <2>. QED
    BY <1>8, <2>1, <2>2, <2>3, Zenon
<1>11. ASSUME NEW h \in Handlers, Destroy(t, h) PROVE AnswerInv'
  <2>1. ready' = ready /\ signaled' = signaled
    BY <1>11 DEF Destroy, event
  <2>2. Top(t).pc = "run" /\ Adds(t, Top(t), Destroying(h, queues))
    BY <1>11, DestroyEffect
  <2>3. Others(t) /\ Unwaiting(t) /\ Top(t).pc \notin SendPc
    BY <1>1, <2>2, OthersOf, UnwaitingSteps DEF SendPc
  <2>. QED
    BY <1>0, <2>1, <2>3, AnswerPlain
<1>12. ASSUME NEW u \in Threads, Stop(t, u) PROVE AnswerInv'
  <2>1. ready' = ready /\ signaled \subseteq signaled'
    BY <1>12 DEF Stop
  <2>2. Top(t).pc = "run" /\ Adds(t, Top(t), Joining("join", u))
    BY <1>12, StopEffect
  <2>3. Others(t) /\ Unwaiting(t) /\ Top(t).pc \notin SendPc
    BY <1>1, <2>2, OthersOf, UnwaitingSteps DEF SendPc
  <2>. QED
    BY <1>0, <2>1, <2>3, AnswerPlain
<1>13. ASSUME NEW u \in Threads, DestroyClear(t, u) PROVE AnswerInv'
  <2>1. /\ Top(t).pc = "destroy" /\ {Top(t).h} \in SUBSET Handlers /\ ClearQueue(u, {Top(t).h})
        /\ Replaces(t, Destroying(Top(t).h, Top(t).left \ {u}))
    BY <1>13, DestroyClearEffect
  <2>2. Told /\ signaled \subseteq signaled'
    BY <2>1, AnswersTold
  <2>3. Others(t) /\ Unwaiting(t) /\ Top(t).pc \notin SendPc
    BY <1>1, <2>1, OthersOf, UnwaitingSteps DEF SendPc
  <2>. QED
    BY <2>2, <2>3, AnswerPlain
<1>14. CASE Join(t)
  <2>1. /\ Top(t).pc = "join" /\ Top(t).to \in Threads /\ ClearQueue(Top(t).to, Handlers)
        /\ Replaces(t, Joining("remove", Top(t).to))
    BY <1>14, JoinEffect
  <2>2. Told /\ signaled \subseteq signaled'
    BY <2>1, AnswersTold
  <2>3. Others(t) /\ Unwaiting(t) /\ Top(t).pc \notin SendPc
    BY <1>1, <2>1, OthersOf, UnwaitingSteps DEF SendPc
  <2>. QED
    BY <2>2, <2>3, AnswerPlain
<1>15. CASE SendWakeUp(t) \/ SendWait(t)
  <2>. DEFINE f == Sending("loop", Top(t).id, Top(t).to, Top(t).waited)
  <2>1. Replaces(t, f) /\ ready' = ready /\ signaled \ {t} \subseteq signaled'
    BY <1>15, SendWakeUpEffect, SendWaitEffect DEF SendWakeUp, SendWait
  <2>2. Waiting(Top(t)) => Waiting(f)
    BY Zenon DEF Waiting, Sending, SendPc
  <2>3. f.pc # "swait"
    BY DEF Sending
  <2>. HIDE DEF f
  <2>4. Others(t) /\ Unwaiting(t)
    BY <2>1, <2>3, OthersOf, UnwaitingSteps
  <2>5. Waiting(Top(t)) => StillWaiting(t)
    BY <2>1, <2>2, TopDepth DEF Replaces, StillWaiting
  <2>6. t \in signaled => t \in signaled' \/ StillWaiting(t)
    <3>1. CASE SendWakeUp(t)
      BY <3>1 DEF SendWakeUp
    <3>2. CASE SendWait(t)
      <4>1. Top(t).pc = "swait"
        BY <3>2 DEF SendWait, At
      <4>2. Waiting(Top(t))
        BY <4>1, TopDepth DEF AnswerInv, Depths
      <4>. QED
        BY <2>5, <4>2
    <3>. QED
      BY <1>15, <3>1, <3>2
  <2>. QED
    BY <1>0, <2>1, <2>4, <2>5, <2>6, AnswerKept
<1>16. CASE SendLoop(t)
  <2>. DEFINE f == Sending("swait", Top(t).id, Top(t).to, TRUE)
  <2>1. \/ /\ ready' = ready \ {Top(t).id} /\ Drops(t)
           /\ signaled' = IF Top(t).waited THEN signaled \cup {t} ELSE signaled
        \/ /\ Top(t).id \notin ready /\ ready' = ready /\ signaled' = signaled
           /\ Replaces(t, f) \/ Adds(t, f, Receiving(NoMessage))
    BY <1>16, SendLoopEffect, Zenon
  <2>2. Waiting(f) /\ f.id = Top(t).id
    BY Zenon DEF Waiting, Sending, SendPc
  <2>. HIDE DEF f
  <2>3. CASE /\ ready' = ready \ {Top(t).id} /\ Drops(t)
             /\ signaled' = IF Top(t).waited THEN signaled \cup {t} ELSE signaled
    <3>1. Waiting(Top(t)) => t \in signaled'
      BY <2>3, Zenon DEF Waiting
    <3>2. signaled \subseteq signaled' /\ ready' \subseteq ready
      BY <2>3
    <3>3. Others(t) /\ Unwaiting(t)
      BY <2>3, OthersOf, UnwaitingSteps
    <3>. QED
      BY <1>0, <3>1, <3>2, <3>3, AnswerKept
  <2>4. CASE /\ Top(t).id \notin ready /\ ready' = ready /\ signaled' = signaled
             /\ Replaces(t, f) \/ Adds(t, f, Receiving(NoMessage))
    <3>1. Unanswered(f)
      BY <2>2, <2>4 DEF Unanswered
    <3>2. Others(t) /\ Unwaiting(t)
      BY <1>1, <2>4, <3>1, OthersOf, UnwaitingSteps
    <3>3. StillWaiting(t)
      <4>1. Len(stack[t]) \in 1..Len(stack'[t]) /\ stack'[t][Len(stack[t])] = f
        BY <2>4, TopDepth DEF Replaces, Adds
      <4>. QED
        BY <2>2, <4>1 DEF StillWaiting
    <3>. QED
      BY <1>0, <2>4, <3>2, <3>3, AnswerKept
  <2>. QED
    BY <2>1, <2>3, <2>4, Zenon
<1>. QED
  BY <1>2, <1>3, <1>4, <1>5, <1>6, <1>7, <1>9, <1>10, <1>11, <1>12, <1>13, <1>14, <1>15, <1>16 DEF Step

-----------------------------------------------------------------------------
(* Sends and answers in every state.                                        *)

(* At the start nothing is sent.                                            *)
LEMMA InitAnswered == Init => IdInv /\ SendInv /\ AnswerInv
<1>. SUFFICES ASSUME Init PROVE IdInv /\ SendInv /\ AnswerInv
  OBVIOUS
<1>. DEFINE f == Loop("get", FALSE)
            g == Running(Main)
<1>1. f.pc = "get" /\ g.pc = "run"
  BY DEF Loop, Running
<1>. HIDE DEF f, g
<1>2. \A t \in Threads : stack[t] = IF t = 1 THEN <<f, g>> ELSE <<f>>
  BY DEF Init, f, g
<1>3. ASSUME NEW t \in Threads, NEW i \in 1..Len(stack[t])
      PROVE  stack[t][i].pc \in {"get", "run"}
  <2>1. CASE stack[t] = <<f, g>>
    <3>1. Len(stack[t]) = 2 /\ stack[t][1] = f /\ stack[t][2] = g
      BY <2>1
    <3>2. i = 1 \/ i = 2
      BY <3>1
    <3>. QED
      BY <1>1, <3>1, <3>2
  <2>2. CASE stack[t] = <<f>>
    <3>1. Len(stack[t]) = 1 /\ stack[t][1] = f
      BY <2>2
    <3>2. i = 1
      BY <3>1
    <3>. QED
      BY <1>1, <3>1, <3>2
  <2>. QED
    BY <1>2, <2>1, <2>2
<1>4. ASSUME NEW t \in Threads, NEW i \in 1..Len(stack[t])
      PROVE  /\ Carried(stack[t][i]) = 0 /\ Sent(stack[t][i]) = 0
             /\ stack[t][i].pc \notin SendPc \cup {"recv", "swait"}
  BY <1>3 DEF Carried, Sent, QueuePc, SendPc
<1>5. \A t \in Threads : sendlist[t] = <<>> /\ ToSet(sendlist[t]) = {}
  <2>1. <<>> \in Seq(Message)
    OBVIOUS
  <2>2. ToSet(<<>>) = {}
    BY <2>1, QueueSet
  <2>. QED
    BY <2>2 DEF Init
<1>6. ready = {} /\ calls = 0
  BY DEF Init
<1>7. KnownInv
  BY <1>4, <1>5, <1>6 DEF KnownInv, Depths
<1>8. FrameInv /\ CarriedInv
  BY <1>4 DEF FrameInv, CarriedInv, Depths
<1>9. ListInv
  <2>1. \A t \in Threads : Len(sendlist[t]) = 0
    BY <1>5
  <2>. QED
    BY <1>5, <2>1 DEF ListInv
<1>10. SendInv
  BY <1>4, <1>5 DEF SendInv, SenderInv, ReceiverInv, YoungerInv, Depths
<1>11. AnswerInv
  BY <1>4 DEF AnswerInv, Depths
<1>. QED
  BY <1>7, <1>8, <1>9, <1>10, <1>11 DEF IdInv

(* A stuttering step changes none of it.                                    *)
LEMMA AnsweredStutter ==
  ASSUME UNCHANGED vars
  PROVE  IdInv /\ SendInv /\ AnswerInv => IdInv' /\ SendInv' /\ AnswerInv'
<1>1. UNCHANGED <<stack, sendlist, signaled, ready, calls>>
  BY DEF vars
<1>2. IdInv => IdInv'
  BY <1>1 DEF IdInv, KnownInv, FrameInv, CarriedInv, ListInv, Listed, Depths
<1>3. SendInv => SendInv'
  <2>1. /\ \A m : Sender(m)' <=> Sender(m)
        /\ \A u, x : Receiver(u, x)' <=> Receiver(u, x)
        /\ \A u, x : Listed(u, x)' <=> Listed(u, x)
    BY <1>1 DEF Sender, Receiver, Sends, Handles, Listed, Depths
  <2>2. SenderInv => SenderInv'
    BY <1>1, <2>1 DEF SenderInv, Depths
  <2>3. ReceiverInv => ReceiverInv'
    BY <1>1, <2>1 DEF ReceiverInv, Depths
  <2>4. YoungerInv => YoungerInv'
    BY <1>1 DEF YoungerInv, Depths
  <2>. QED
    BY <2>2, <2>3, <2>4 DEF SendInv
<1>4. AnswerInv => AnswerInv'
  BY <1>1 DEF AnswerInv, Depths
<1>. QED
  BY <1>2, <1>3, <1>4

(* A sent message is in one place and its Send goes on until it is reported *)
(* with a wake-up, however many Sends are nested (Thread::Send,             *)
(* ReceiveSends, Clear).                                                    *)
THEOREM SendsConsistent == Spec => [](IdInv /\ SendInv /\ AnswerInv)
<1>1. Init => IdInv /\ SendInv /\ AnswerInv
  BY InitAnswered
<1>2. Registered /\ (IdInv /\ SendInv /\ AnswerInv) /\ [Next]_vars => (IdInv /\ SendInv /\ AnswerInv)'
  <2>. SUFFICES ASSUME Registered, IdInv, SendInv, AnswerInv, [Next]_vars
                PROVE  IdInv' /\ SendInv' /\ AnswerInv'
    OBVIOUS
  <2>1. ASSUME NEW t \in Threads, Step(t) PROVE IdInv' /\ SendInv' /\ AnswerInv'
    BY <2>1, IdStep, SendStep, AnswerStep DEF Registered
  <2>2. CASE UNCHANGED vars
    BY <2>2, AnsweredStutter
  <2>. QED
    BY <2>1, <2>2 DEF Next
<1>. QED
  BY <1>1, <1>2, QueuesConsistent, PTL DEF Spec

(* The ready flag that a receiver, or Clear, sets is on the stack of a Send *)
(* that has not returned: Send returns only when its own message was        *)
(* reported, whatever it handles meanwhile.                                 *)
THEOREM ReadyFlagLives == Spec => []NoDanglingReady
<1>1. Registered /\ (IdInv /\ SendInv /\ AnswerInv) => NoDanglingReady
  <2>. SUFFICES ASSUME Registered, SendInv, NEW t \in Threads,
                       NEW m \in ToSet(sendlist[t]) \cup {f.msg : f \in {g \in Frames(t) : g.pc = "recv"}},
                       m.id # 0
                PROVE  \E f \in Frames(m.thread) : f.pc \in {"wake", "loop", "swait"} /\ f.id = m.id
    BY DEF NoDanglingReady
  <2>1. Sound /\ SenderInv
    BY DEF Registered, SendInv
  <2>2. stack \in [Threads -> Seq(Frame)] /\ StackInv
    BY <2>1, SoundFacts
  <2>3. Sender(m) /\ m.thread \in Threads
    <3>1. CASE m \in ToSet(sendlist[t])
      BY <2>1, <3>1, QueueTypes DEF SenderInv, Message
    <3>2. CASE m \in {f.msg : f \in {g \in Frames(t) : g.pc = "recv"}}
      <4>1. PICK f \in Frames(t) : f.pc = "recv" /\ m = f.msg
        BY <3>2
      <4>2. PICK i \in 1..Len(stack[t]) : stack[t][i] = f
        BY <2>2, <4>1, StackFacts
      <4>3. f \in Frame
        BY <2>1, <4>2, TopDepth
      <4>4. m # NoMessage /\ m \in Message
        <5>1. NoMessage.id = 0
          BY DEF NoMessage
        <5>2. m # NoMessage
          BY <5>1
        <5>3. f.msg # NoMessage => f.msg \in Message
          BY <4>1, <4>3, FrameIds
        <5>. QED
          BY <4>1, <5>2, <5>3
      <4>5. Sender(m)
        BY <2>1, <4>1, <4>2, <4>4 DEF SenderInv, Depths
      <4>. QED
        BY <4>4, <4>5 DEF Message
    <3>. QED
      BY <3>1, <3>2
  <2>4. PICK i \in 1..Len(stack[m.thread]) : stack[m.thread][i].pc \in SendPc /\ stack[m.thread][i].id = m.id
    BY <2>3 DEF Sender, Sends, Depths
  <2>5. stack[m.thread][i] \in Frames(m.thread)
    BY <2>2, <2>3, <2>4, StackFacts
  <2>. QED
    BY <2>4, <2>5 DEF SendPc
<1>. QED
  BY <1>1, QueuesConsistent, SendsConsistent, PTL

-----------------------------------------------------------------------------
(* Deadlock.                                                                *)

(* Of some threads in Send, one has the youngest message.                   *)
LEMMA YoungestSend ==
  ASSUME NEW n \in Nat, NEW S \in SUBSET Nat, S # {}, \A x \in S : x <= n
  PROVE  \E x \in S : \A y \in S : y <= x
<1>. DEFINE T == {n - x : x \in S}
<1>1. T \subseteq Nat /\ T # {}
  <2>1. \A x \in S : n - x \in Nat
    OBVIOUS
  <2>2. PICK x \in S : TRUE
    OBVIOUS
  <2>3. n - x \in T
    BY <2>2
  <2>. QED
    BY <2>1, <2>3
<1>2. PICK m \in T : \A y \in T : ~(<<y, m>> \in OpToRel(<, Nat))
  BY <1>1, WFMin, NatLessThanWellFounded
<1>3. \A y \in T : ~(y < m)
  BY <1>1, <1>2 DEF OpToRel
<1>4. PICK x \in S : m = n - x
  BY <1>2
<1>5. ASSUME NEW y \in S PROVE y <= x
  <2>1. n - y \in T
    BY <1>5
  <2>2. ~(n - y < n - x)
    BY <1>3, <1>4, <2>1
  <2>. QED
    BY <2>2
<1>. QED
  BY <1>5

(* When all threads are blocked, no lock is held.                           *)
LEMMA BlockedUnlocked ==
  ASSUME Registered, \A t \in Threads : Blocked(t)
  PROVE  \A t \in Threads : /\ Free(t)
                            /\ Top(t).pc \in {"wait", "done", "swait", "join"}
                            /\ At(t, "wait") => Idle(t)
                            /\ At(t, "swait") => t \notin signaled
                            /\ At(t, "join") => ~At(Top(t).to, "done")
<1>0. Sound /\ LockInv /\ StopInv
  BY DEF Registered
<1>1. \A t \in Threads : qlock[t] \in Threads \cup {Nobody} /\ mlock \in Threads \cup {Nobody}
  BY <1>0 DEF Sound, TypeOK
<1>2. ASSUME NEW t \in Threads, At(t, "destroy") PROVE FALSE
  <2>1. Top(t).left # {} /\ \A u \in Top(t).left : ~Free(u)
    BY <1>2 DEF Blocked, Idle, At
  <2>2. PICK u \in Top(t).left : TRUE
    BY <2>1
  <2>3. u \in queues /\ u \in Threads
    BY <1>0, <1>2, <2>2 DEF LockInv, Sound, TypeOK
  <2>4. qlock[u] \in Threads
    BY <1>1, <2>1, <2>3 DEF Free
  <2>. QED
    BY <1>0, <2>3, <2>4 DEF LockInv
<1>3. mlock = Nobody
  <2>1. 1 \in Threads
    BY ThreadAssumption
  <2>. QED
    BY <1>0, <1>1, <1>2, <2>1 DEF LockInv
<1>4. \A t \in Threads : Top(t).pc \notin {"activate", "remove", "destroy"}
  BY <1>2, <1>3 DEF Blocked, Idle, At
<1>5. \A t \in Threads : Free(t)
  BY <1>0, <1>1, <1>4 DEF LockInv, Free, At
<1>. SUFFICES ASSUME NEW t \in Threads
              PROVE  /\ Top(t).pc \in {"wait", "done", "swait", "join"}
                     /\ At(t, "wait") => Idle(t)
                     /\ At(t, "swait") => t \notin signaled
                     /\ At(t, "join") => ~At(Top(t).to, "done")
  BY <1>5
<1>6. Top(t).pc \in {"queue", "join"} => Top(t).to \in Threads
  BY <1>0, SoundFacts DEF QueuePc
<1>7. Top(t).pc # "queue"
  BY <1>5, <1>6 DEF Blocked, Idle, At
<1>8. At(t, "join") => ~At(Top(t).to, "done")
  <2>. SUFFICES ASSUME At(t, "join") PROVE ~At(Top(t).to, "done")
    OBVIOUS
  <2>1. ~(At(Top(t).to, "done") /\ Free(Top(t).to))
    BY DEF Blocked, Idle, At
  <2>2. Free(Top(t).to)
    BY <1>5, <1>6 DEF At
  <2>. QED
    BY <2>1, <2>2
<1>. QED
  BY <1>4, <1>5, <1>7, <1>8 DEF Blocked, Idle, At

(* Then no thread waits for the answer to its Send, unless the receiver     *)
(* waits in Join: the receiver of the youngest message would be awake, or   *)
(* wait for the answer to a younger one.                                    *)
LEMMA BlockedNoSend ==
  ASSUME Registered, WakeInv, IdInv, SendInv, AnswerInv, \A t \in Threads : Blocked(t),
         ~\E t, u \in Threads : At(t, "swait") /\ At(u, "join") /\ Top(t).to = u
  PROVE  \A t \in Threads : ~At(t, "swait")
<1>0. Sound /\ StopInv
  BY DEF Registered
<1>1. \A t \in Threads : /\ Top(t).pc \in {"wait", "done", "swait", "join"}
                         /\ At(t, "wait") => Idle(t)
                         /\ At(t, "swait") => t \notin signaled
                         /\ At(t, "join") => ~At(Top(t).to, "done")
  BY BlockedUnlocked
<1>2. \A t \in Threads : Woken(t) => t \in signaled
  BY <1>1 DEF Woken, At
<1>. DEFINE Waits == {t \in Threads : At(t, "swait")}
<1>. DEFINE S == {Top(t).id : t \in Waits}
<1>3. ASSUME NEW t \in Waits
      PROVE  /\ t \in Threads /\ Top(t).pc \in SendPc /\ Top(t).id \in Nat \ {0} /\ Top(t).to \in Threads
             /\ Sent(Top(t)) = Top(t).id /\ Top(t).id <= calls
  <2>1. t \in Threads /\ Top(t).pc = "swait"
    BY <1>3 DEF At
  <2>2. Top(t) \in Frame /\ Top(t) = stack[t][Len(stack[t])] /\ Len(stack[t]) \in Depths(t)
    BY <1>0, <2>1, TopDepth DEF Depths
  <2>3. Top(t).pc \in SendPc
    BY <2>1 DEF SendPc
  <2>4. Top(t).id \in Nat \ {0} /\ Top(t).to \in Threads /\ Sent(Top(t)) = Top(t).id
    BY <2>2, <2>3, FrameIds
  <2>5. Sent(Top(t)) <= calls
    BY <2>1, <2>2 DEF IdInv, KnownInv
  <2>. QED
    BY <2>1, <2>3, <2>4, <2>5
<1>. SUFFICES ASSUME Waits # {} PROVE FALSE
  OBVIOUS
<1>4. S \in SUBSET Nat /\ S # {} /\ \A x \in S : x <= calls
  BY <1>3
<1>5. calls \in Nat
  BY <1>0 DEF Sound, TypeOK
<1>6. PICK x \in S : \A y \in S : y <= x
  <2>. HIDE DEF S
  <2>. QED
    BY <1>4, <1>5, YoungestSend
<1>7. PICK t \in Waits : x = Top(t).id
  BY <1>6
<1>8. \A v \in Threads : At(v, "swait") => Top(v).id <= x
  BY <1>6
<1>. HIDE DEF S
<1>9. /\ t \in Threads /\ At(t, "swait") /\ Top(t).pc \in SendPc /\ Top(t).to \in Threads
      /\ x \in Nat \ {0}
  BY <1>3, <1>7
<1>. HIDE DEF Waits
<1>. DEFINE n == Len(stack[t])
<1>10. n \in Depths(t) /\ n \in Nat /\ Top(t) = stack[t][n]
  BY <1>0, <1>9, TopDepth DEF Depths
<1>11. x \notin ready
  <2>. SUFFICES ASSUME x \in ready PROVE FALSE
    OBVIOUS
  <2>1. t \notin signaled
    BY <1>1, <1>9
  <2>2. stack[t][n].pc = "swait" /\ stack[t][n].id = x
    BY <1>7, <1>9, <1>10 DEF At
  <2>3. \E j \in Depths(t) : n < j
    BY <1>9, <1>10, <2>1, <2>2 DEF AnswerInv
  <2>. QED
    BY <1>10, <2>3 DEF Depths
<1>12. PICK u \in Threads : u = Top(t).to
  BY <1>9
<1>13. ~At(u, "join")
  BY <1>9, <1>12
<1>14. Listed(u, x) \/ Receiver(u, x)
  <2>1. stack[t][n].pc \in SendPc /\ stack[t][n].id = x /\ stack[t][n].to = u
    BY <1>7, <1>9, <1>10, <1>12
  <2>. QED
    BY <1>9, <1>10, <1>11, <2>1 DEF SendInv, ReceiverInv
<1>15. ASSUME Listed(u, x) PROVE FALSE
  <2>1. ToSet(sendlist[u]) # {}
    BY <1>15 DEF Listed
  <2>2. sendlist[u] # <<>>
    BY <1>0, <2>1, QueueTypes
  <2>3. CASE At(u, "wait")
    <3>1. u \notin signaled /\ u \in fWait /\ Top(u).pc = "wait"
      BY <1>1, <2>3 DEF Idle, At
    <3>2. stack[u][1].pc = "wait"
      BY <1>0, <3>1, Bottom DEF LoopPc
    <3>3. Woken(u)
      BY <2>2, <3>1, <3>2 DEF WakeInv
    <3>. QED
      BY <1>2, <3>1, <3>3
  <2>4. CASE At(u, "done")
    <3>1. u \in fStop
      BY <1>0, <2>4 DEF StopInv
    <3>2. ~(At(1, "join") /\ Top(1).to = u)
      BY <1>1, <2>4, ThreadAssumption
    <3>3. Pending(u) = {}
      BY <1>0, <3>1, <3>2 DEF StopInv
    <3>. QED
      BY <2>1, <3>3 DEF Pending
  <2>5. CASE At(u, "swait")
    <3>1. Woken(u)
      BY <2>2, <2>5 DEF WakeInv, At
    <3>. QED
      BY <1>1, <1>2, <2>5, <3>1
  <2>. QED
    BY <1>1, <1>13, <2>3, <2>4, <2>5 DEF At
<1>16. ASSUME Receiver(u, x) PROVE FALSE
  <2>. DEFINE k == Len(stack[u])
  <2>1. PICK i \in Depths(u) : stack[u][i].pc = "recv" /\ stack[u][i].msg.id = x
    BY <1>16 DEF Receiver, Handles
  <2>2. /\ k \in Depths(u) /\ k \in Nat \ {0} /\ Top(u) = stack[u][k] /\ stack[u][i] \in Frame
        /\ i \in Nat /\ i <= k
    BY <1>0, <2>1, TopDepth DEF Depths
  <2>3. i # k
    BY <1>1, <2>1, <2>2
  <2>4. ~(Top(u).pc \in LoopPc)
    <3>. SUFFICES ASSUME Top(u).pc \in LoopPc PROVE FALSE
      OBVIOUS
    <3>1. k = 1
      BY <1>0, Bottom
    <3>. QED
      BY <2>1, <2>2, <2>3, <3>1 DEF Depths
  <2>5. At(u, "swait")
    BY <1>1, <1>13, <2>4 DEF LoopPc, At
  <2>6. Top(u).id <= x /\ Sent(Top(u)) = Top(u).id /\ Top(u).id \in Nat \ {0}
    BY <1>3, <1>8, <2>5 DEF Waits
  <2>7. Carried(stack[u][i]) = x
    BY <2>1, <2>2, FrameIds
  <2>8. Carried(stack[u][i]) < Sent(stack[u][k])
    BY <1>9, <2>1, <2>2, <2>3, <2>6, <2>7 DEF SendInv, YoungerInv
  <2>. QED
    BY <1>9, <2>2, <2>6, <2>7, <2>8
<1>. QED
  BY <1>14, <1>15, <1>16

(* Nor does one wait in Join: a thread that was told to quit is awake or    *)
(* has ended.                                                               *)
LEMMA BlockedNoJoin ==
  ASSUME Registered, WakeInv, \A t \in Threads : Blocked(t), \A t \in Threads : ~At(t, "swait")
  PROVE  \A t \in Threads : ~At(t, "join")
<1>0. Sound /\ StopInv
  BY DEF Registered
<1>1. \A t \in Threads : /\ Top(t).pc \in {"wait", "done", "swait", "join"}
                         /\ At(t, "wait") => Idle(t)
                         /\ At(t, "join") => ~At(Top(t).to, "done")
  BY BlockedUnlocked
<1>. SUFFICES ASSUME NEW t \in Threads, At(t, "join") PROVE FALSE
  OBVIOUS
<1>2. PICK u : u = Top(t).to
  OBVIOUS
<1>3. t = 1 /\ u \in fStop \ {1} /\ u \in Threads
  BY <1>0, <1>2 DEF StopInv, At, Sound, TypeOK
<1>4. ~At(u, "join") /\ ~At(u, "done")
  BY <1>0, <1>1, <1>2, <1>3 DEF StopInv, At
<1>5. At(u, "wait")
  BY <1>1, <1>3, <1>4 DEF At
<1>6. u \notin signaled /\ u \in fWait /\ Top(u).pc = "wait"
  BY <1>1, <1>3, <1>5 DEF Idle, At
<1>7. stack[u][1].pc = "wait"
  BY <1>0, <1>3, <1>6, Bottom DEF LoopPc
<1>. QED
  BY <1>3, <1>6, <1>7 DEF WakeInv

(* When no thread can move, all are idle or have ended and have nothing     *)
(* queued, unless one sends to a thread that waits in Join: no cycle of     *)
(* Sends, of the locks of the queues and the manager (MessageQueue::Clear,  *)
(* ReceiveSends, EnsureActive) or of lost wake-ups stops the threads.       *)
THEOREM NobodyWaitsForEver == Spec => []NoDeadlock
<1>1. Registered /\ WakeInv /\ (IdInv /\ SendInv /\ AnswerInv) => NoDeadlock
  <2>. SUFFICES ASSUME Registered, WakeInv, IdInv, SendInv, AnswerInv,
                       \A t \in Threads : Blocked(t),
                       ~\E t, u \in Threads : At(t, "swait") /\ At(u, "join") /\ Top(t).to = u,
                       NEW t \in Threads
                PROVE  /\ Idle(t) \/ At(t, "done")
                       /\ msgq[t] = <<>> /\ dmsgq[t] = {} /\ sendlist[t] = <<>>
    BY DEF NoDeadlock
  <2>0. Sound /\ StopInv
    BY DEF Registered
  <2>1. \A v \in Threads : ~At(v, "swait")
    BY BlockedNoSend
  <2>2. \A v \in Threads : ~At(v, "join")
    BY <2>1, BlockedNoJoin
  <2>3. \A v \in Threads : (At(v, "wait") /\ Idle(v)) \/ At(v, "done")
    BY <2>1, <2>2, BlockedUnlocked DEF At
  <2>4. CASE At(t, "done")
    <3>1. Pending(t) = {}
      BY <2>0, <2>2, <2>4, ThreadAssumption DEF StopInv
    <3>. QED
      BY <2>0, <2>4, <3>1, QueueTypes DEF Pending
  <2>5. CASE Idle(t)
    <3>1. t \notin signaled /\ t \in fWait /\ Top(t).pc = "wait" /\ ~Top(t).timer
      BY <2>5 DEF Idle, At
    <3>2. stack[t][1] = Top(t)
      BY <2>0, <3>1, Bottom DEF LoopPc
    <3>3. ~Woken(t)
      BY <2>3, <3>1 DEF Woken, At
    <3>. QED
      BY <2>5, <3>1, <3>2, <3>3 DEF WakeInv
  <2>. QED
    BY <2>3, <2>4, <2>5
<1>. QED
  BY <1>1, QueuesConsistent, SendsConsistent, PTL
=============================================================================
