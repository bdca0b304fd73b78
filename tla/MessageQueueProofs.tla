------------------------- MODULE MessageQueueProofs -------------------------
(* What Append, Tail, concatenation and MessageQueue::Clear do to a queue,  *)
(* for the proofs about the modules that have queues.                       *)
EXTENDS MessageQueue, SequencesExt, FiniteSetTheorems, TLAPS

(* No message of M is queued twice.                                         *)
Once(q, M) == \A i, j \in 1..Len(q) : q[i] = q[j] /\ q[i] \in M => i = j

(* Append adds its message at the end.                                      *)
LEMMA QueueAppend ==
  ASSUME NEW S, NEW q \in Seq(S), NEW x \in S
  PROVE  /\ Append(q, x) \in Seq(S) /\ Len(Append(q, x)) = Len(q) + 1
         /\ \A y : Queued(Append(q, x), y) <=> Queued(q, y) \/ y = x
<1>1. /\ Append(q, x) \in Seq(S) /\ Len(Append(q, x)) = Len(q) + 1 /\ Len(q) \in Nat
      /\ \A i \in 1..Len(q) : Append(q, x)[i] = q[i]
      /\ Append(q, x)[Len(q) + 1] = x
  OBVIOUS
<1>. QED
  BY <1>1 DEF Queued

(* Tail takes the first message away.                                       *)
LEMMA QueueTail ==
  ASSUME NEW S, NEW q \in Seq(S), q # <<>>
  PROVE  /\ Tail(q) \in Seq(S) /\ Len(Tail(q)) = Len(q) - 1 /\ Queued(q, Head(q))
         /\ \A y : Queued(q, y) <=> Head(q) = y \/ Queued(Tail(q), y)
<1>1. /\ Tail(q) \in Seq(S) /\ Len(Tail(q)) = Len(q) - 1 /\ Len(q) \in Nat /\ Len(q) >= 1
      /\ Head(q) = q[1] /\ \A i \in 1..(Len(q) - 1) : Tail(q)[i] = q[i + 1]
  OBVIOUS
<1>2. ASSUME NEW y, Queued(q, y) PROVE Head(q) = y \/ Queued(Tail(q), y)
  <2>1. PICK i \in 1..Len(q) : q[i] = y
    BY <1>2 DEF Queued
  <2>2. CASE i = 1
    BY <1>1, <2>1, <2>2
  <2>3. CASE i # 1
    <3>1. i - 1 \in 1..(Len(q) - 1) /\ Tail(q)[i - 1] = y
      BY <1>1, <2>1, <2>3
    <3>. QED
      BY <1>1, <3>1 DEF Queued
  <2>. QED
    BY <2>2, <2>3
<1>3. ASSUME NEW y, Queued(Tail(q), y) PROVE Queued(q, y)
  <2>1. PICK i \in 1..(Len(q) - 1) : Tail(q)[i] = y
    BY <1>1, <1>3 DEF Queued
  <2>2. i + 1 \in 1..Len(q) /\ q[i + 1] = y
    BY <1>1, <2>1
  <2>. QED
    BY <2>2 DEF Queued
<1>4. 1 \in 1..Len(q) /\ q[1] = Head(q)
  BY <1>1
<1>5. Queued(q, Head(q))
  BY <1>4 DEF Queued
<1>. QED
  BY <1>1, <1>2, <1>3, <1>5

(* Nothing is in an empty queue.                                            *)
LEMMA QueueEmpty ==
  ASSUME NEW S, NEW q \in Seq(S)
  PROVE  /\ \A y : ~Queued(<<>>, y)
         /\ (\A y \in S : ~Queued(q, y)) => q = <<>>
<1>1. \A y : ~Queued(<<>>, y)
  BY DEF Queued
<1>2. ASSUME q # <<>> PROVE \E y \in S : Queued(q, y)
  BY <1>2, QueueTail
<1>. QED
  BY <1>1, <1>2

(* The queue that follows another one.                                      *)
LEMMA QueueConcat ==
  ASSUME NEW S, NEW q \in Seq(S), NEW r \in Seq(S)
  PROVE  /\ q \o r \in Seq(S) /\ Len(q \o r) = Len(q) + Len(r)
         /\ \A y : Queued(q \o r, y) <=> Queued(q, y) \/ Queued(r, y)
<1>1. /\ q \o r \in Seq(S) /\ Len(q \o r) = Len(q) + Len(r) /\ Len(q) \in Nat /\ Len(r) \in Nat
      /\ \A i \in 1..Len(q) : (q \o r)[i] = q[i]
      /\ \A i \in 1..Len(r) : (q \o r)[Len(q) + i] = r[i]
  OBVIOUS
<1>2. ASSUME NEW y, Queued(q \o r, y) PROVE Queued(q, y) \/ Queued(r, y)
  <2>1. PICK i \in 1..(Len(q) + Len(r)) : (q \o r)[i] = y
    BY <1>1, <1>2 DEF Queued
  <2>2. CASE i <= Len(q)
    BY <1>1, <2>1, <2>2 DEF Queued
  <2>3. CASE i > Len(q)
    <3>1. i - Len(q) \in 1..Len(r) /\ Len(q) + (i - Len(q)) = i
      BY <1>1, <2>3
    <3>2. r[i - Len(q)] = y
      BY <1>1, <2>1, <3>1
    <3>. QED
      BY <3>1, <3>2 DEF Queued
  <2>. QED
    BY <1>1, <2>2, <2>3
<1>3. ASSUME NEW y, Queued(q, y) \/ Queued(r, y) PROVE Queued(q \o r, y)
  <2>1. CASE Queued(q, y)
    BY <1>1, <2>1 DEF Queued
  <2>2. CASE Queued(r, y)
    <3>1. PICK i \in 1..Len(r) : r[i] = y
      BY <2>2 DEF Queued
    <3>2. Len(q) + i \in 1..(Len(q) + Len(r)) /\ (q \o r)[Len(q) + i] = y
      BY <1>1, <3>1
    <3>. QED
      BY <1>1, <3>2 DEF Queued
  <2>. QED
    BY <1>3, <2>1, <2>2
<1>. QED
  BY <1>1, <1>2, <1>3

(* What is not queued twice is not queued twice after a Tail, an Append of  *)
(* something else or of what is not yet queued.                             *)
LEMMA OnceTail ==
  ASSUME NEW S, NEW q \in Seq(S), q # <<>>, NEW M, Once(q, M)
  PROVE  Once(Tail(q), M) /\ (Head(q) \in M => ~Queued(Tail(q), Head(q)))
<1>1. /\ Tail(q) \in Seq(S) /\ Len(Tail(q)) = Len(q) - 1 /\ Len(q) \in Nat /\ Len(q) >= 1
      /\ Head(q) = q[1] /\ \A i \in 1..(Len(q) - 1) : Tail(q)[i] = q[i + 1]
  OBVIOUS
<1>2. \A i \in 1..(Len(q) - 1) : i + 1 \in 1..Len(q) /\ i + 1 # 1
  BY <1>1
<1>3. 1 \in 1..Len(q)
  BY <1>1
<1>4. Head(q) \in M => ~Queued(Tail(q), Head(q))
  BY <1>1, <1>2, <1>3 DEF Once, Queued
<1>5. ASSUME NEW i \in 1..(Len(q) - 1), NEW j \in 1..(Len(q) - 1),
             Tail(q)[i] = Tail(q)[j], Tail(q)[i] \in M
      PROVE  i = j
  <2>1. q[i + 1] = q[j + 1] /\ q[i + 1] \in M
    BY <1>1, <1>5
  <2>2. i + 1 = j + 1
    BY <1>2, <2>1 DEF Once
  <2>. QED
    BY <2>2
<1>. QED
  BY <1>1, <1>4, <1>5 DEF Once

(* A message that is not queued may be added.                               *)
LEMMA OnceAppend ==
  ASSUME NEW S, NEW q \in Seq(S), NEW x \in S, NEW M, Once(q, M), x \in M => ~Queued(q, x)
  PROVE  Once(Append(q, x), M)
<1>1. /\ Len(Append(q, x)) = Len(q) + 1 /\ Len(q) \in Nat
      /\ \A i \in 1..Len(q) : Append(q, x)[i] = q[i]
      /\ Append(q, x)[Len(q) + 1] = x
  OBVIOUS
<1>2. \A i \in 1..(Len(q) + 1) : i \in 1..Len(q) \/ i = Len(q) + 1
  BY <1>1
<1>. QED
  BY <1>1, <1>2 DEF Once, Queued

(* So may a queue that has none of them.                                    *)
LEMMA OnceConcat ==
  ASSUME NEW S, NEW q \in Seq(S), NEW r \in Seq(S), NEW M, Once(q, M), \A y \in M : ~Queued(r, y)
  PROVE  Once(q \o r, M)
<1>1. /\ Len(q \o r) = Len(q) + Len(r) /\ Len(q) \in Nat /\ Len(r) \in Nat
      /\ \A i \in 1..Len(q) : (q \o r)[i] = q[i]
      /\ \A i \in 1..Len(r) : (q \o r)[Len(q) + i] = r[i]
  OBVIOUS
<1>2. ASSUME NEW i \in 1..Len(q \o r), (q \o r)[i] \in M
      PROVE  i \in 1..Len(q) /\ (q \o r)[i] = q[i]
  <2>1. CASE i <= Len(q)
    BY <1>1, <2>1
  <2>2. CASE i > Len(q)
    <3>1. i - Len(q) \in 1..Len(r) /\ Len(q) + (i - Len(q)) = i
      BY <1>1, <2>2
    <3>2. r[i - Len(q)] = (q \o r)[i]
      BY <1>1, <3>1
    <3>. QED
      BY <1>2, <3>1, <3>2 DEF Queued
  <2>. QED
    BY <1>1, <2>1, <2>2
<1>. QED
  BY <1>2 DEF Once

(* Clear leaves exactly the other messages, each of them as often as        *)
(* before.                                                                  *)
LEMMA ClearedQueue ==
  ASSUME NEW S, NEW q \in Seq(S), NEW gone
  PROVE  /\ Cleared(q, gone) \in Seq(S)
         /\ \A y : Queued(Cleared(q, gone), y) <=> Queued(q, y) /\ y \notin gone
         /\ \A M : Once(q, M) => Once(Cleared(q, gone), M)
<1>. DEFINE left == {i \in DOMAIN q : q[i] \notin gone}
            upto(i) == {l \in left : l <= i}
            size == Cardinality(left)
            Nth(n) == CHOOSE i \in left : Cardinality(upto(i)) = n
            count == [i \in left |-> Cardinality(upto(i))]
<1>1. DOMAIN q = 1..Len(q) /\ Len(q) \in Nat /\ \A i \in 1..Len(q) : q[i] \in S
  OBVIOUS
<1>2. IsFiniteSet(left) /\ size \in Nat /\ left \subseteq Nat
  <2>1. IsFiniteSet(1..Len(q)) /\ left \subseteq 1..Len(q)
    BY <1>1, FS_Interval
  <2>2. IsFiniteSet(left)
    BY <2>1, FS_Subset
  <2>. QED
    BY <1>1, <2>1, <2>2, FS_CardinalityType
<1>3. ASSUME NEW i \in left
      PROVE  /\ IsFiniteSet(upto(i)) /\ Cardinality(upto(i)) \in 1..size
             /\ upto(i) \subseteq left /\ i \in upto(i)
  <2>1. upto(i) \subseteq left /\ i \in upto(i)
    BY <1>2
  <2>2. /\ IsFiniteSet(upto(i)) /\ Cardinality(upto(i)) \in Nat
        /\ Cardinality(upto(i)) <= size
    BY <1>2, <2>1, FS_Subset, FS_CardinalityType
  <2>3. Cardinality(upto(i)) # 0
    BY <2>1, <2>2, FS_EmptySet
  <2>. QED
    BY <1>2, <2>1, <2>2, <2>3
<1>4. ASSUME NEW i \in left, NEW j \in left, i < j
      PROVE  Cardinality(upto(i)) < Cardinality(upto(j))
  <2>1. upto(i) \subseteq upto(j) /\ upto(i) # upto(j)
    BY <1>2, <1>4
  <2>2. /\ Cardinality(upto(i)) <= Cardinality(upto(j))
        /\ Cardinality(upto(i)) = Cardinality(upto(j)) => upto(i) = upto(j)
    BY <1>3, <2>1, FS_Subset
  <2>3. Cardinality(upto(i)) \in Nat /\ Cardinality(upto(j)) \in Nat
    BY <1>3, FS_CardinalityType
  <2>. HIDE DEF upto
  <2>. QED
    BY <2>1, <2>2, <2>3
<1>. HIDE DEF upto
<1>5. count \in Injection(left, 1..size)
  <2>1. count \in [left -> 1..size]
    BY <1>3
  <2>2. \A i, j \in left : count[i] = count[j] => i = j
    BY <1>2, <1>3, <1>4
  <2>. QED
    BY <2>1, <2>2 DEF Injection, IsInjective
<1>6. count \in Surjection(left, 1..size)
  <2>1. IsFiniteSet(1..size) /\ Cardinality(1..size) = size
    BY <1>2, FS_Interval
  <2>. QED
    BY <1>5, <2>1, FS_Injection
<1>7. ASSUME NEW n \in 1..size
      PROVE  Nth(n) \in left /\ Cardinality(upto(Nth(n))) = n
  <2>1. \E i \in left : Cardinality(upto(i)) = n
    BY <1>6 DEF Surjection
  <2>. QED
    BY <2>1
<1>8. \A i \in left : \E n \in 1..size : Nth(n) = i
  <2>. SUFFICES ASSUME NEW i \in left PROVE Nth(Cardinality(upto(i))) = i
    BY <1>3
  <2>1. Nth(Cardinality(upto(i))) \in left
        /\ Cardinality(upto(Nth(Cardinality(upto(i))))) = Cardinality(upto(i))
    BY <1>3, <1>7
  <2>. QED
    BY <1>2, <1>3, <1>4, <2>1
<1>9. \A m, n \in 1..size : Nth(m) = Nth(n) => m = n
  BY <1>7
<1>10. Cleared(q, gone) = [n \in 1..size |-> q[Nth(n)]]
  BY DEF Cleared, upto
<1>. HIDE DEF Nth, size
<1>11. /\ Cleared(q, gone) \in Seq(S) /\ Len(Cleared(q, gone)) = size
       /\ \A n \in 1..size : Cleared(q, gone)[n] = q[Nth(n)]
  <2>1. \A n \in 1..size : q[Nth(n)] \in S
    BY <1>1, <1>7
  <2>2. [n \in 1..size |-> q[Nth(n)]] \in Seq(S) /\ Len([n \in 1..size |-> q[Nth(n)]]) = size
    BY <1>2, <2>1
  <2>. QED
    BY <1>10, <2>2
<1>12. \A y : Queued(Cleared(q, gone), y) <=> Queued(q, y) /\ y \notin gone
  <2>1. ASSUME NEW y, Queued(Cleared(q, gone), y) PROVE Queued(q, y) /\ y \notin gone
    <3>1. PICK n \in 1..size : q[Nth(n)] = y
      BY <1>11, <2>1 DEF Queued
    <3>. QED
      BY <1>1, <1>7, <3>1 DEF Queued
  <2>2. ASSUME NEW y, Queued(q, y), y \notin gone PROVE Queued(Cleared(q, gone), y)
    <3>1. PICK i \in 1..Len(q) : q[i] = y
      BY <2>2 DEF Queued
    <3>2. i \in left
      BY <1>1, <2>2, <3>1
    <3>3. PICK n \in 1..size : Nth(n) = i
      BY <1>8, <3>2
    <3>. QED
      BY <1>11, <3>1, <3>3 DEF Queued
  <2>. QED
    BY <2>1, <2>2
<1>13. ASSUME NEW M, Once(q, M) PROVE Once(Cleared(q, gone), M)
  <2>. SUFFICES ASSUME NEW i \in 1..size, NEW j \in 1..size,
                       q[Nth(i)] = q[Nth(j)], q[Nth(i)] \in M
                PROVE  i = j
    BY <1>11 DEF Once
  <2>1. Nth(i) \in 1..Len(q) /\ Nth(j) \in 1..Len(q)
    BY <1>1, <1>7
  <2>2. Nth(i) = Nth(j)
    BY <1>13, <2>1 DEF Once
  <2>. QED
    BY <1>9, <2>2
<1>. QED
  BY <1>11, <1>12, <1>13

(* The messages of a finite set, in any order.                              *)
LEMMA SetQueue ==
  ASSUME NEW S, IsFiniteSet(S)
  PROVE  /\ SetToSeq(S) \in Seq(S) /\ Len(SetToSeq(S)) = Cardinality(S)
         /\ \A y : Queued(SetToSeq(S), y) <=> y \in S
         /\ \A M : Once(SetToSeq(S), M)
<1>. DEFINE n == Cardinality(S)
            f == SetToSeq(S)
<1>1. n \in Nat /\ ExistsBijection(1..n, S)
  BY FS_CardinalityType
<1>2. PICK g \in Bijection(1..n, S) : TRUE
  BY <1>1 DEF ExistsBijection
<1>3. g \in [1..n -> S] /\ IsInjective(g)
  BY <1>2 DEF Bijection, Injection
<1>4. f \in [1..n -> S] /\ IsInjective(f)
  BY <1>3 DEF SetToSeq
<1>. HIDE DEF f
<1>5. f \in Seq(S) /\ Len(f) = n /\ DOMAIN f = 1..n
  BY <1>1, <1>4
<1>6. f \in Injection(1..n, S)
  BY <1>4 DEF Injection
<1>7. IsFiniteSet(1..n) /\ Cardinality(1..n) = n
  BY <1>1, FS_Interval
<1>8. f \in Surjection(1..n, S)
  BY <1>6, <1>7, FS_Injection
<1>9. \A y : Queued(f, y) <=> y \in S
  BY <1>4, <1>5, <1>8 DEF Surjection, Queued
<1>10. \A M : Once(f, M)
  BY <1>4, <1>5 DEF Once, IsInjective
<1>. QED
  BY <1>5, <1>9, <1>10 DEF f
=============================================================================
