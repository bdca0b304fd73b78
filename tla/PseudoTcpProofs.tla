-------------------------- MODULE PseudoTcpProofs ---------------------------
(***************************************************************************)
(* Proofs about module PseudoTcp: its inductive invariant IInv holds in    *)
(* every state, and with it what the two owners rely on.                   *)
(***************************************************************************)
EXTENDS PseudoTcp, TLAPS, FiniteSetTheorems, SequenceTheorems, WellFoundedInduction

(* Least and greatest elements.                                             *)
LEMMA MinOfTwo ==
  ASSUME NEW a \in Int, NEW b \in Int
  PROVE  Min({a, b}) = IF a <= b THEN a ELSE b
<1>1. \E x \in {a, b} : \A y \in {a, b} : x <= y
  OBVIOUS
<1>. QED
  BY <1>1 DEF Min

(* A set of naturals has a least one.                                       *)
LEMMA LeastNat ==
  ASSUME NEW S, S \subseteq Nat, S # {}
  PROVE  \E x \in S : \A y \in S : x <= y
<1>1. PICK x \in S : \A y \in S : ~(<<y, x>> \in OpToRel(<, Nat))
  BY NatLessThanWellFounded, WFMin
<1>2. \A y \in S : ~(y < x)
  BY <1>1 DEF OpToRel
<1>. QED
  BY <1>2

(* Min is that one.                                                         *)
LEMMA MinOfNat ==
  ASSUME NEW S, S \subseteq Nat, S # {}
  PROVE  /\ Min(S) \in S
         /\ \A y \in S : Min(S) <= y
<1>1. \E x \in S : \A y \in S : x <= y
  BY LeastNat
<1>. QED
  BY <1>1 DEF Min

(* A bounded set of naturals has a greatest one, and Max is that one.       *)
LEMMA MaxBounded ==
  ASSUME NEW S, S \subseteq Nat, S # {}, NEW M \in Nat, \A y \in S : y <= M
  PROVE  /\ Max(S) \in S
         /\ \A y \in S : y <= Max(S)
<1>. DEFINE D == {M - y : y \in S}
<1>1. D \subseteq Nat /\ D # {}
  <2>1. \A y \in S : M - y \in Nat
    OBVIOUS
  <2>2. PICK y \in S : TRUE
    OBVIOUS
  <2>3. M - y \in D
    BY <2>2
  <2>. QED
    BY <2>1, <2>3
<1>2. \A y \in S : M - y \in D
  OBVIOUS
<1>3. \A d \in D : \E x \in S : d = M - x
  OBVIOUS
<1>. HIDE DEF D
<1>4. PICK d \in D : \A y \in D : d <= y
  BY <1>1, LeastNat
<1>5. PICK x \in S : d = M - x
  BY <1>3, <1>4
<1>6. \A y \in S : x >= y
  BY <1>2, <1>4, <1>5
<1>. QED
  BY <1>6 DEF Max

(* What is true of 0 and carries over to the next number is true up to n:   *)
(* F is the set of numbers it is true of.                                   *)
LEMMA UpTo ==
  ASSUME NEW n \in Nat, NEW F, 0 \in F, \A k \in 0..n - 1 : k \in F => k + 1 \in F
  PROVE  \A k \in 0..n : k \in F
<1>. SUFFICES ASSUME NEW j \in 0..n, j \notin F PROVE FALSE
  OBVIOUS
<1>. DEFINE S == {k \in 0..n : k \notin F}
<1>1. S \subseteq Nat /\ S # {}
  OBVIOUS
<1>2. PICK k \in S : \A y \in S : k <= y
  BY <1>1, LeastNat
<1>3. k # 0
  BY <1>2
<1>4. k - 1 \in 0..n - 1 /\ k - 1 \notin S
  BY <1>2, <1>3
<1>. QED
  BY <1>2, <1>4

-----------------------------------------------------------------------------
(* Segments.                                                                *)
LEMMA SegmentFields ==
  ASSUME NEW x \in Segment
  PROVE  x.seq \in Nat /\ x.len \in Nat /\ x.len > 0 /\ x.xmit \in Nat /\ x.bCtrl \in BOOLEAN
  BY DEF Segment

(* A segment cut after n bytes, one sent again, one with k bytes more.      *)
FirstHalf(x, n) == [x EXCEPT !.len = n]
SecondHalf(x, n) == [x EXCEPT !.seq = @ + n, !.len = @ - n]
Again(x) == [x EXCEPT !.xmit = @ + 1]
Longer(x, k) == [x EXCEPT !.len = @ + k]

(* The two halves of one that is cut.                                       *)
LEMMA SegmentHalves ==
  ASSUME NEW x \in Segment, NEW n \in Nat, 0 < n, n < x.len
  PROVE  /\ FirstHalf(x, n) \in Segment
         /\ FirstHalf(x, n).seq = x.seq /\ FirstHalf(x, n).len = n
         /\ FirstHalf(x, n).xmit = x.xmit /\ FirstHalf(x, n).bCtrl = x.bCtrl
         /\ SecondHalf(x, n) \in Segment
         /\ SecondHalf(x, n).seq = x.seq + n /\ SecondHalf(x, n).len = x.len - n
         /\ SecondHalf(x, n).xmit = x.xmit /\ SecondHalf(x, n).bCtrl = x.bCtrl
<1>1. x = [seq |-> x.seq, len |-> x.len, xmit |-> x.xmit, bCtrl |-> x.bCtrl]
  BY DEF Segment
<1>2. x.seq \in Nat /\ x.len \in Nat /\ x.len > 0 /\ x.xmit \in Nat /\ x.bCtrl \in BOOLEAN
  BY SegmentFields
<1>3. FirstHalf(x, n) = [seq |-> x.seq, len |-> n, xmit |-> x.xmit, bCtrl |-> x.bCtrl]
  BY <1>1 DEF FirstHalf
<1>4. SecondHalf(x, n)
        = [seq |-> x.seq + n, len |-> x.len - n, xmit |-> x.xmit, bCtrl |-> x.bCtrl]
  <2>1. PICK b : b = SecondHalf(x, n)
    OBVIOUS
  <2>2. b = [seq |-> x.seq + n, len |-> x.len - n, xmit |-> x.xmit, bCtrl |-> x.bCtrl]
    BY <1>1, <2>1 DEF SecondHalf
  <2>. QED
    BY <2>1, <2>2
<1>5. x.len - n \in Nat \ {0} /\ x.seq + n \in Nat
  BY <1>2
<1>. QED
  BY <1>2, <1>3, <1>4, <1>5 DEF Segment

(* One that is sent once more, and one that gets k bytes more.              *)
LEMMA SegmentChanged ==
  ASSUME NEW x \in Segment, NEW k \in Nat
  PROVE  /\ Again(x) \in Segment
         /\ Again(x).seq = x.seq /\ Again(x).len = x.len
         /\ Again(x).xmit = x.xmit + 1 /\ Again(x).bCtrl = x.bCtrl
         /\ Longer(x, k) \in Segment
         /\ Longer(x, k).seq = x.seq /\ Longer(x, k).len = x.len + k
         /\ Longer(x, k).xmit = x.xmit /\ Longer(x, k).bCtrl = x.bCtrl
<1>1. x = [seq |-> x.seq, len |-> x.len, xmit |-> x.xmit, bCtrl |-> x.bCtrl]
  BY DEF Segment
<1>2. x.seq \in Nat /\ x.len \in Nat /\ x.len > 0 /\ x.xmit \in Nat /\ x.bCtrl \in BOOLEAN
  BY SegmentFields
<1>3. Again(x) = [seq |-> x.seq, len |-> x.len, xmit |-> x.xmit + 1, bCtrl |-> x.bCtrl]
  BY <1>1 DEF Again
<1>4. Longer(x, k) = [seq |-> x.seq, len |-> x.len + k, xmit |-> x.xmit, bCtrl |-> x.bCtrl]
  BY <1>1 DEF Longer
<1>5. x.len + k \in Nat \ {0} /\ x.xmit + 1 \in Nat
  BY <1>2
<1>. QED
  BY <1>2, <1>3, <1>4, <1>5 DEF Segment

(* The segments of a list.                                                  *)
LEMMA ListFields ==
  ASSUME NEW s \in Seq(Segment)
  PROVE  /\ Len(s) \in Nat
         /\ \A i \in 1..Len(s) : /\ s[i] \in Segment
                                 /\ s[i].seq \in Nat /\ s[i].len \in Nat /\ s[i].len > 0
                                 /\ s[i].xmit \in Nat
<1>1. \A i \in 1..Len(s) : s[i] \in Segment
  OBVIOUS
<1>. QED
  BY <1>1, SegmentFields

(* A list with its i-th element replaced by ab.                             *)
Replaced(s, i, ab) == SubSeq(s, 1, i - 1) \o ab \o SubSeq(s, i + 1, Len(s))

(* Where the elements are when ab are two.                                  *)
LEMMA CutIndex ==
  ASSUME NEW S, NEW s \in Seq(S), NEW i \in 1..Len(s), NEW ab \in Seq(S), Len(ab) = 2
  PROVE  /\ Replaced(s, i, ab) \in Seq(S)
         /\ Len(Replaced(s, i, ab)) = Len(s) + 1
         /\ \A j \in 1..Len(s) + 1 :
              Replaced(s, i, ab)[j] = IF j < i THEN s[j] ELSE IF j = i THEN ab[1]
                                      ELSE IF j = i + 1 THEN ab[2] ELSE s[j - 1]
<1>0. PICK r : r = Replaced(s, i, ab)
  OBVIOUS
<1>1. PICK p, q : p = SubSeq(s, 1, i - 1) /\ q = SubSeq(s, i + 1, Len(s))
  OBVIOUS
<1>2. p \in Seq(S) /\ Len(p) = i - 1 /\ \A j \in 1..i - 1 : p[j] = s[j]
  BY <1>1
<1>3. q \in Seq(S) /\ Len(q) = Len(s) - i /\ \A j \in 1..Len(s) - i : q[j] = s[i + j]
  BY <1>1
<1>5. ab \in Seq(S) /\ Len(ab) = 2
  OBVIOUS
<1>6. PICK m : m = p \o ab
  OBVIOUS
<1>7. /\ m \in Seq(S) /\ Len(m) = i + 1
      /\ \A j \in 1..i + 1 : m[j] = IF j <= i - 1 THEN p[j] ELSE ab[j - (i - 1)]
  <2>1. /\ p \o ab \in Seq(S) /\ Len(p \o ab) = Len(p) + Len(ab)
        /\ \A j \in 1..Len(p) + Len(ab) : (p \o ab)[j] = IF j <= Len(p) THEN p[j] ELSE ab[j - Len(p)]
    BY <1>2, <1>5, ConcatProperties, Zenon
  <2>. QED
    BY <1>2, <1>5, <1>6, <2>1
<1>8. (\A j \in 1..i - 1 : m[j] = s[j]) /\ m[i] = ab[1] /\ m[i + 1] = ab[2]
  <2>1. i - (i - 1) = 1 /\ (i + 1) - (i - 1) = 2 /\ i \in 1..i + 1 /\ i + 1 \in 1..i + 1
        /\ ~(i <= i - 1) /\ ~(i + 1 <= i - 1)
    OBVIOUS
  <2>2. m[i] = ab[1] /\ m[i + 1] = ab[2]
    BY <1>5, <1>7, <2>1
  <2>3. ASSUME NEW j \in 1..i - 1 PROVE m[j] = s[j]
    <3>1. p[j] = s[j]
      BY <1>2
    <3>2. j \in 1..i + 1 /\ j <= i - 1
      OBVIOUS
    <3>. QED
      BY <1>7, <3>1, <3>2
  <2>. QED
    BY <2>2, <2>3
<1>9. r = m \o q
  BY <1>0, <1>1, <1>6 DEF Replaced
<1>10. /\ m \o q \in Seq(S) /\ Len(m \o q) = Len(m) + Len(q)
       /\ \A j \in 1..Len(m) + Len(q) : (m \o q)[j] = IF j <= Len(m) THEN m[j] ELSE q[j - Len(m)]
  BY <1>3, <1>7, ConcatProperties, Zenon
<1>11. r \in Seq(S) /\ Len(r) = Len(s) + 1
  BY <1>3, <1>7, <1>9, <1>10
<1>12. ASSUME NEW j \in 1..Len(r)
       PROVE  r[j] = IF j < i THEN s[j] ELSE IF j = i THEN ab[1] ELSE IF j = i + 1 THEN ab[2] ELSE s[j - 1]
  <2>1. r[j] = IF j <= i + 1 THEN m[j] ELSE q[j - (i + 1)]
    BY <1>3, <1>7, <1>9, <1>10, <1>11
  <2>2. CASE j < i
    <3>1. m[j] = s[j]
      BY <1>8, <2>2
    <3>. QED
      BY <2>1, <2>2, <3>1
  <2>3. CASE j = i \/ j = i + 1
    BY <1>8, <2>1, <2>3
  <2>4. CASE j > i + 1
    <3>1. PICK k \in 1..Len(s) - i : k = j - (i + 1)
      BY <1>11, <2>4
    <3>2. q[k] = s[i + k] /\ i + k = j - 1
      BY <1>3, <3>1, SMTT(30)
    <3>. QED
      BY <2>1, <2>4, <3>1, <3>2
  <2>. QED
    BY <2>2, <2>3, <2>4
<1>. QED
  BY <1>0, <1>11, <1>12

(* The i-th element replaced by y.                                          *)
LEMMA PutIndex ==
  ASSUME NEW S, NEW s \in Seq(S), NEW i \in 1..Len(s), NEW y \in S
  PROVE  /\ [s EXCEPT ![i] = y] \in Seq(S) /\ Len([s EXCEPT ![i] = y]) = Len(s)
         /\ [s EXCEPT ![i] = y][i] = y
         /\ \A j \in 1..Len(s) : j # i => [s EXCEPT ![i] = y][j] = s[j]
  OBVIOUS

(* Split, in terms of the halves.                                           *)
LEMMA SplitNot ==
  ASSUME NEW s, NEW i, NEW n, n >= s[i].len
  PROVE  Split(s, i, n) = s
  BY Zenon DEF Split

(* A segment that is longer than n is replaced by two.                      *)
LEMMA SplitCut ==
  ASSUME NEW s, NEW i, NEW n, ~(n >= s[i].len)
  PROVE  Split(s, i, n) = Replaced(s, i, <<FirstHalf(s[i], n), SecondHalf(s[i], n)>>)
  BY Zenon DEF Split, FirstHalf, SecondHalf, Replaced

(* i is the place of an element of the list s.                              *)
Entry(s, i) == s \in Seq(Segment) /\ i \in 1..Len(s)

(* The segment the j-th was part of before the i-th was cut.                *)
Src(i, j) == IF j <= i THEN j ELSE j - 1

(* transmit and attemptSend cut a segment: the list still tiles the buffer, *)
(* and a number that was inside no segment is inside none of the halves.    *)
LEMMA SplitTiles ==
  ASSUME NEW s, NEW i, Entry(s, i), NEW n \in Nat, n > 0,
         NEW una \in Nat, NEW end \in Nat, NEW nxt \in Nat,
         Tiles(s, una, end), SentTo(s, nxt),
         NEW r, r = Split(s, i, n)
  PROVE  /\ r \in Seq(Segment) /\ i \in 1..Len(r)
         /\ Tiles(r, una, end) /\ SentTo(r, nxt)
         /\ \A x \in Int : Uncut(s, x) => Uncut(r, x)
         /\ r[i].seq = s[i].seq /\ r[i].xmit = s[i].xmit
         /\ r[i].len = (IF n < s[i].len THEN n ELSE s[i].len)
         /\ r[i].bCtrl = s[i].bCtrl
<1>e. s \in Seq(Segment) /\ i \in 1..Len(s)
  BY DEF Entry
<1>0. \A j \in 1..Len(s) : /\ s[j] \in Segment /\ s[j].seq \in Nat /\ s[j].len \in Nat
                           /\ s[j].len > 0 /\ s[j].xmit \in Nat
  BY <1>e, ListFields
<1>1. CASE n >= s[i].len
  <2>1. r = s
    BY <1>1, SplitNot
  <2>. QED
    BY <1>e, <1>0, <1>1, <2>1
<1>2. CASE n < s[i].len
  <2>1. PICK a, b : a = FirstHalf(s[i], n) /\ b = SecondHalf(s[i], n)
    OBVIOUS
  <2>2. s[i] \in Segment /\ 0 < n /\ ~(n >= s[i].len)
    BY <1>e, <1>0, <1>2
  <2>3. /\ a \in Segment /\ b \in Segment
        /\ a.seq = s[i].seq /\ a.len = n /\ a.xmit = s[i].xmit /\ a.bCtrl = s[i].bCtrl
        /\ b.seq = s[i].seq + n /\ b.len = s[i].len - n /\ b.xmit = s[i].xmit
        /\ b.bCtrl = s[i].bCtrl
    BY <1>2, <2>1, <2>2, SegmentHalves
  <2>4. r = Replaced(s, i, <<a, b>>)
    BY <2>1, <2>2, SplitCut, Zenon
  <2>5. /\ r \in Seq(Segment)
        /\ Len(r) = Len(s) + 1
        /\ \A j \in 1..Len(r) :
             r[j] = IF j < i THEN s[j] ELSE IF j = i THEN a ELSE IF j = i + 1 THEN b ELSE s[j - 1]
    <3>1. PICK ab : ab = <<a, b>>
      OBVIOUS
    <3>2. ab \in Seq(Segment) /\ Len(ab) = 2 /\ ab[1] = a /\ ab[2] = b
      BY <2>3, <3>1
    <3>3. r = Replaced(s, i, ab)
      BY <2>4, <3>1
    <3>4. /\ r \in Seq(Segment)
          /\ Len(r) = Len(s) + 1
          /\ \A j \in 1..Len(r) :
               r[j] = IF j < i THEN s[j] ELSE IF j = i THEN ab[1]
                      ELSE IF j = i + 1 THEN ab[2] ELSE s[j - 1]
      <4>1. /\ Replaced(s, i, ab) \in Seq(Segment)
            /\ Len(Replaced(s, i, ab)) = Len(s) + 1
            /\ \A j \in 1..Len(s) + 1 :
                 Replaced(s, i, ab)[j] = IF j < i THEN s[j] ELSE IF j = i THEN ab[1]
                                         ELSE IF j = i + 1 THEN ab[2] ELSE s[j - 1]
        BY <1>e, <3>2, CutIndex
      <4>. QED
        BY <3>3, <4>1
    <3>. QED
      BY <3>2, <3>4
  <2>. HIDE DEF Segment
  <2>6. s[i].len > 1 /\ s[i].seq # 0
    BY <1>e, <1>0, <1>2 DEF Tiles
  <2>7. ~s[i].bCtrl
    BY <1>e, <2>6 DEF Tiles
  <2>8. Len(s) \in Nat /\ i \in Nat /\ 1 <= i /\ i <= Len(s)
    BY <1>e
  <2>9. ASSUME NEW j \in 1..Len(r)
        PROVE  /\ Src(i, j) \in 1..Len(s)
               /\ s[Src(i, j)].seq <= r[j].seq /\ EndOf(r[j]) <= EndOf(s[Src(i, j)])
               /\ r[j].xmit = s[Src(i, j)].xmit /\ r[j].bCtrl = s[Src(i, j)].bCtrl
               /\ r[j].seq \in Nat /\ EndOf(r[j]) \in Nat /\ r[j].seq < EndOf(r[j])
               /\ s[Src(i, j)].seq \in Nat /\ EndOf(s[Src(i, j)]) \in Nat
               /\ j # i /\ j # i + 1 => r[j] = s[Src(i, j)]
    <3>1. CASE j < i
      <4>1. r[j] = s[j] /\ Src(i, j) = j /\ j \in 1..Len(s)
        BY <2>5, <2>8, <3>1 DEF Src
      <4>. QED
        BY <1>0, <3>1, <4>1 DEF EndOf
    <3>2. CASE j = i
      <4>1. r[j] = a /\ Src(i, j) = i
        BY <2>5, <2>8, <3>2 DEF Src
      <4>. QED
        BY <1>0, <1>2, <2>3, <2>8, <3>2, <4>1, SMTT(30) DEF EndOf
    <3>3. CASE j = i + 1
      <4>1. r[j] = b /\ Src(i, j) = i
        BY <2>5, <2>8, <3>3 DEF Src
      <4>2. s[i].seq \in Nat /\ s[i].len \in Nat /\ s[i].len - n > 0
        BY <1>e, <1>0, <1>2
      <4>3. r[j].seq = s[i].seq + n /\ r[j].len = s[i].len - n
            /\ r[j].xmit = s[i].xmit /\ r[j].bCtrl = s[i].bCtrl
        BY <2>3, <4>1
      <4>4. EndOf(r[j]) = s[i].seq + n + (s[i].len - n)
        BY <4>3 DEF EndOf
      <4>5. EndOf(r[j]) = EndOf(s[i]) /\ EndOf(s[i]) \in Nat
        <5>1. PICK u \in Nat, v \in Nat : u = s[i].seq /\ v = s[i].len
          BY <4>2
        <5>2. EndOf(s[i]) = u + v
          BY <5>1 DEF EndOf
        <5>3. EndOf(r[j]) = u + n + (v - n)
          BY <4>4, <5>1
        <5>4. u + n + (v - n) = u + v /\ u + v \in Nat
          OBVIOUS
        <5>. QED
          BY <5>2, <5>3, <5>4
      <4>6. r[j].seq \in Nat /\ r[j].seq < EndOf(r[j])
        BY <4>2, <4>3, <4>4, SMTT(30)
      <4>. QED
        BY <2>8, <3>3, <4>1, <4>2, <4>3, <4>5, <4>6, SMTT(30)
    <3>4. CASE j > i + 1
      <4>1. r[j] = s[j - 1] /\ Src(i, j) = j - 1 /\ j - 1 \in 1..Len(s)
        BY <2>5, <2>8, <3>4 DEF Src
      <4>2. PICK k \in 1..Len(s) : k = j - 1
        BY <4>1
      <4>3. r[j] = s[k] /\ Src(i, j) = k /\ k \in 1..Len(s) /\ s[k].seq \in Nat /\ s[k].len \in Nat
            /\ s[k].len > 0
        BY <1>0, <4>1, <4>2
      <4>. QED
        BY <3>4, <4>3, SMTT(30) DEF EndOf
    <3>. QED
      BY <2>8, <3>1, <3>2, <3>3, <3>4
  <2>10. r[i] = a /\ r[i + 1] = b /\ i \in 1..Len(r) /\ i + 1 \in 1..Len(r)
    BY <2>5, <2>8
  <2>11. ASSUME NEW x \in Int, Uncut(s, x) PROVE Uncut(r, x)
    <3>1. ASSUME NEW j \in 1..Len(r), r[j].seq < x PROVE EndOf(r[j]) <= x
      <4>1. /\ Src(i, j) \in 1..Len(s)
            /\ s[Src(i, j)].seq <= r[j].seq /\ EndOf(r[j]) <= EndOf(s[Src(i, j)])
            /\ s[Src(i, j)].seq \in Nat /\ EndOf(s[Src(i, j)]) \in Nat
            /\ EndOf(r[j]) \in Nat /\ r[j].seq \in Nat
        BY <2>9
      <4>2. s[Src(i, j)].seq < x
        BY <3>1, <4>1, SMTT(30)
      <4>3. EndOf(s[Src(i, j)]) <= x
        BY <2>11, <4>1, <4>2 DEF Uncut
      <4>. QED
        BY <4>1, <4>3
    <3>. QED
      BY <3>1 DEF Uncut
  <2>12. Tiles(r, una, end)
    <3>1. ASSUME NEW j \in 1..Len(r)
          PROVE  r[j].seq = IF j = 1 THEN una ELSE EndOf(r[j - 1])
      <4>1. CASE j < i
        <5>1. r[j] = s[j] /\ (j # 1 => r[j - 1] = s[j - 1]) /\ j \in 1..Len(s)
          BY <2>5, <2>8, <4>1
        <5>. QED
          BY <5>1 DEF Tiles
      <4>2. CASE j = i
        <5>1. r[j].seq = s[j].seq /\ (j # 1 => r[j - 1] = s[j - 1]) /\ j \in 1..Len(s)
          BY <2>3, <2>5, <2>8, <4>2
        <5>. QED
          BY <5>1 DEF Tiles
      <4>3. CASE j = i + 1
        BY <1>0, <2>3, <2>8, <2>10, <4>3 DEF EndOf
      <4>4. CASE j = i + 2
        <5>1. r[j] = s[i + 1] /\ r[j - 1] = b /\ i + 1 \in 1..Len(s) /\ j # 1
          BY <2>5, <2>8, <4>4
        <5>2. s[i + 1].seq = EndOf(s[i])
          BY <2>8, <5>1 DEF Tiles
        <5>. QED
          BY <1>0, <2>3, <2>8, <5>1, <5>2, SMTT(30) DEF EndOf
      <4>5. CASE j > i + 2
        <5>1. r[j] = s[j - 1] /\ r[j - 1] = s[j - 2] /\ j # 1
          BY <2>5, <2>8, <4>5
        <5>2. PICK k \in 1..Len(s) : k = j - 1 /\ k # 1 /\ k - 1 = j - 2
          BY <2>5, <2>8, <4>5
        <5>3. s[k].seq = EndOf(s[k - 1])
          BY <5>2 DEF Tiles
        <5>. QED
          BY <5>1, <5>2, <5>3
      <4>. QED
        BY <2>8, <4>1, <4>2, <4>3, <4>4, <4>5
    <3>2. ASSUME NEW j \in 1..Len(r) PROVE r[j].seq = 0 => r[j].len = 1
      <4>1. CASE j = i \/ j = i + 1
        BY <1>0, <2>3, <2>6, <2>8, <2>10, <4>1
      <4>2. CASE j # i /\ j # i + 1
        BY <2>9, <4>2 DEF Tiles
      <4>. QED
        BY <4>1, <4>2
    <3>3. ASSUME NEW j \in 1..Len(r) PROVE r[j].bCtrl <=> r[j].seq = 0
      <4>1. CASE j = i \/ j = i + 1
        <5>1. r[j].seq # 0
          BY <1>0, <2>3, <2>6, <2>8, <2>10, <4>1, SMTT(30)
        <5>2. ~r[j].bCtrl
          BY <2>3, <2>7, <2>10, <4>1
        <5>. QED
          BY <5>1, <5>2
      <4>2. CASE j # i /\ j # i + 1
        <5>1. r[j] = s[Src(i, j)] /\ Src(i, j) \in 1..Len(s)
          BY <2>9, <4>2
        <5>. QED
          BY <5>1 DEF Tiles
      <4>. QED
        BY <4>1, <4>2
    <3>4. ASSUME NEW j \in 1..Len(r), NEW k \in 1..Len(r), j < k
          PROVE  EndOf(r[j]) <= r[k].seq
      <4>1. CASE j = i /\ k = i + 1
        BY <1>0, <2>3, <2>8, <2>10, <4>1 DEF EndOf
      <4>2. CASE ~(j = i /\ k = i + 1)
        <5>1. Src(i, j) < Src(i, k)
          BY <2>8, <3>4, <4>2 DEF Src
        <5>2. EndOf(s[Src(i, j)]) <= s[Src(i, k)].seq
          BY <2>9, <5>1 DEF Tiles
        <5>3. /\ EndOf(r[j]) <= EndOf(s[Src(i, j)])
              /\ EndOf(r[j]) \in Nat /\ EndOf(s[Src(i, j)]) \in Nat
          BY <2>9
        <5>4. s[Src(i, k)].seq <= r[k].seq /\ s[Src(i, k)].seq \in Nat /\ r[k].seq \in Nat
          BY <2>9
        <5>. QED
          BY <5>2, <5>3, <5>4
      <4>. QED
        BY <4>1, <4>2
    <3>5. end = IF r = <<>> THEN una ELSE EndOf(r[Len(r)])
      <4>1. r # <<>> /\ s # <<>> /\ end = EndOf(s[Len(s)])
        BY <2>5, <2>8 DEF Tiles
      <4>2. CASE i = Len(s)
        BY <1>0, <2>3, <2>5, <2>8, <2>10, <4>1, <4>2 DEF EndOf
      <4>3. CASE i # Len(s)
        <5>1. r[Len(r)] = s[Len(s)]
          BY <2>5, <2>8, <4>3
        <5>. QED
          BY <4>1, <5>1
      <4>. QED
        BY <4>2, <4>3
    <3>. QED
      BY <3>1, <3>2, <3>3, <3>4, <3>5 DEF Tiles
  <2>13. SentTo(r, nxt)
    <3>1. ASSUME NEW j \in 1..Len(r) PROVE r[j].xmit > 0 <=> r[j].seq < nxt
      <4>1. /\ s[Src(i, j)].xmit > 0 <=> s[Src(i, j)].seq < nxt
            /\ s[Src(i, j)].seq < nxt => EndOf(s[Src(i, j)]) <= nxt
        BY <2>9 DEF SentTo, Uncut
      <4>. QED
        BY <2>9, <4>1
    <3>. QED
      BY <2>11, <3>1 DEF SentTo
  <2>. QED
    BY <1>2, <2>3, <2>5, <2>10, <2>11, <2>12, <2>13
<1>. QED
  BY <1>e, <1>0, <1>1, <1>2

-----------------------------------------------------------------------------
(* Lists of segments of the same shape.                                     *)
LEMMA SameShape ==
  ASSUME NEW s \in Seq(Segment), NEW r \in Seq(Segment), Len(r) = Len(s),
         \A j \in 1..Len(s) : r[j].seq = s[j].seq /\ r[j].len = s[j].len /\ r[j].bCtrl = s[j].bCtrl,
         NEW una, NEW end, Tiles(s, una, end)
  PROVE  /\ Tiles(r, una, end)
         /\ \A x : Uncut(s, x) => Uncut(r, x)
<1>1. \A j \in 1..Len(s) : EndOf(r[j]) = EndOf(s[j])
  BY DEF EndOf
<1>2. ASSUME NEW j \in 1..Len(r) PROVE r[j].seq = IF j = 1 THEN una ELSE EndOf(r[j - 1])
  <2>1. s[j].seq = IF j = 1 THEN una ELSE EndOf(s[j - 1])
    BY DEF Tiles
  <2>2. j # 1 => j - 1 \in 1..Len(s)
    OBVIOUS
  <2>. QED
    BY <1>1, <2>1, <2>2
<1>3. \A j \in 1..Len(r) : (r[j].bCtrl <=> r[j].seq = 0) /\ (r[j].seq = 0 => r[j].len = 1)
  BY DEF Tiles
<1>4. \A j, k \in 1..Len(r) : j < k => EndOf(r[j]) <= r[k].seq
  BY <1>1 DEF Tiles
<1>5. end = IF r = <<>> THEN una ELSE EndOf(r[Len(r)])
  <2>1. r = <<>> <=> s = <<>>
    OBVIOUS
  <2>2. s # <<>> => Len(s) \in 1..Len(s)
    OBVIOUS
  <2>. QED
    BY <1>1, <2>1, <2>2 DEF Tiles
<1>. QED
  BY <1>1, <1>2, <1>3, <1>4, <1>5 DEF Tiles, Uncut

(* The end of a segment is inside no other, and inside the buffer.          *)
LEMMA EndUncut ==
  ASSUME NEW s \in Seq(Segment), NEW una \in Nat, NEW end \in Nat, Tiles(s, una, end),
         NEW i \in 1..Len(s)
  PROVE  /\ Uncut(s, EndOf(s[i]))
         /\ una <= s[i].seq /\ EndOf(s[i]) <= end
         /\ s[i].seq \in Nat /\ EndOf(s[i]) \in Nat /\ s[i].seq < EndOf(s[i])
<1>1. \A j \in 1..Len(s) : s[j].seq \in Nat /\ EndOf(s[j]) \in Nat /\ s[j].seq < EndOf(s[j])
  BY ListFields DEF EndOf
<1>2. \A j, k \in 1..Len(s) : j < k => EndOf(s[j]) <= s[k].seq
  BY DEF Tiles
<1>3. ASSUME NEW j \in 1..Len(s), s[j].seq < EndOf(s[i]) PROVE EndOf(s[j]) <= EndOf(s[i])
  <2>1. CASE j < i
    BY <1>1, <1>2, <2>1
  <2>2. CASE j = i
    BY <1>1, <2>2
  <2>3. CASE j > i
    BY <1>1, <1>2, <1>3, <2>3
  <2>. QED
    BY <2>1, <2>2, <2>3
<1>4. una <= s[i].seq
  <2>1. 1 \in 1..Len(s) /\ s[1].seq = una
    BY DEF Tiles
  <2>2. CASE i = 1
    BY <1>1, <2>1, <2>2
  <2>3. CASE i # 1
    <3>1. EndOf(s[1]) <= s[i].seq
      BY <1>2, <2>1, <2>3
    <3>. QED
      BY <1>1, <2>1, <3>1
  <2>. QED
    BY <2>2, <2>3
<1>5. EndOf(s[i]) <= end
  <2>1. Len(s) \in 1..Len(s) /\ end = EndOf(s[Len(s)])
    BY DEF Tiles
  <2>2. CASE i = Len(s)
    BY <1>1, <2>1, <2>2
  <2>3. CASE i # Len(s)
    <3>1. EndOf(s[i]) <= s[Len(s)].seq
      BY <1>2, <2>1, <2>3
    <3>. QED
      BY <1>1, <2>1, <3>1
  <2>. QED
    BY <2>2, <2>3
<1>. QED
  BY <1>1, <1>3, <1>4, <1>5 DEF Uncut

(* Resent, in terms of one segment.                                         *)
LEMMA ResentAgain ==
  ASSUME NEW s, NEW i
  PROVE  Resent(s, i) = [s EXCEPT ![i] = Again(s[i])]
  BY Zenon DEF Resent, Again

(* The i-th segment is sent: for the first time if it is the one at nxt.    *)
LEMMA MarkTiles ==
  ASSUME NEW r \in Seq(Segment), NEW i \in 1..Len(r), NEW una \in Nat, NEW end \in Nat,
         NEW nxt \in Nat, Tiles(r, una, end), SentTo(r, nxt),
         r[i].xmit = 0 => r[i].seq = nxt,
         NEW new, new = IF r[i].xmit = 0 THEN nxt + r[i].len ELSE nxt
  PROVE  LET q == Resent(r, i) IN
         /\ q \in Seq(Segment) /\ Tiles(q, una, end) /\ SentTo(q, new)
         /\ \A x : Uncut(r, x) => Uncut(q, x)
         /\ Uncut(q, EndOf(r[i])) /\ EndOf(r[i]) <= new
         /\ new \in Nat /\ nxt <= new /\ una < new
         /\ nxt <= end => new <= end
<1>0. PICK q : q = Resent(r, i)
  OBVIOUS
<1>1. r[i] \in Segment /\ \A j \in 1..Len(r) : r[j].xmit \in Nat /\ r[j].len \in Nat /\ r[j].len > 0
  BY ListFields
<1>2. /\ Again(r[i]) \in Segment
      /\ Again(r[i]).seq = r[i].seq /\ Again(r[i]).len = r[i].len
      /\ Again(r[i]).xmit = r[i].xmit + 1 /\ Again(r[i]).bCtrl = r[i].bCtrl
  BY <1>1, SegmentChanged
<1>3. /\ q \in Seq(Segment) /\ Len(q) = Len(r) /\ q[i] = Again(r[i])
      /\ \A j \in 1..Len(r) : j # i => q[j] = r[j]
  <2>1. q = [r EXCEPT ![i] = Again(r[i])]
    BY <1>0, ResentAgain
  <2>. QED
    BY <1>2, <2>1, PutIndex
<1>4. \A j \in 1..Len(r) : q[j].seq = r[j].seq /\ q[j].len = r[j].len /\ q[j].bCtrl = r[j].bCtrl
  BY <1>2, <1>3
<1>5. Tiles(q, una, end) /\ \A x : Uncut(r, x) => Uncut(q, x)
  BY <1>3, <1>4, SameShape
<1>6. /\ Uncut(r, EndOf(r[i]))
      /\ una <= r[i].seq /\ EndOf(r[i]) <= end
      /\ r[i].seq \in Nat /\ EndOf(r[i]) \in Nat /\ r[i].seq < EndOf(r[i])
  BY EndUncut
<1>7. \A j \in 1..Len(r) : r[j].seq \in Nat /\ EndOf(r[j]) \in Nat /\ r[j].seq < EndOf(r[j])
  BY EndUncut
<1>8. CASE r[i].xmit = 0
  <2>1. new = EndOf(r[i]) /\ nxt = r[i].seq
    BY <1>8 DEF EndOf
  <2>2. ASSUME NEW j \in 1..Len(q) PROVE q[j].xmit > 0 <=> q[j].seq < new
    <3>1. r[j].xmit > 0 <=> r[j].seq < nxt
      BY <1>3 DEF SentTo
    <3>2. CASE j < i
      <4>1. EndOf(r[j]) <= r[i].seq
        BY <1>3, <3>2 DEF Tiles
      <4>2. r[j].seq < nxt /\ r[j].seq < new /\ q[j] = r[j]
        BY <1>3, <1>6, <1>7, <2>1, <3>2, <4>1
      <4>. QED
        BY <3>1, <4>2
    <3>3. CASE j = i
      BY <1>1, <1>2, <1>3, <1>6, <2>1, <3>3
    <3>4. CASE j > i
      <4>1. EndOf(r[i]) <= r[j].seq
        BY <1>3, <3>4 DEF Tiles
      <4>2. ~(r[j].seq < nxt) /\ ~(r[j].seq < new) /\ q[j] = r[j]
        BY <1>3, <1>6, <1>7, <2>1, <3>4, <4>1
      <4>. QED
        BY <3>1, <4>2
    <3>. QED
      BY <3>2, <3>3, <3>4
  <2>3. Uncut(q, new)
    BY <1>5, <1>6, <2>1
  <2>4. SentTo(q, new)
    BY <2>2, <2>3 DEF SentTo
  <2>5. new \in Nat /\ nxt <= new /\ una < new /\ EndOf(r[i]) <= new /\ new <= end
    BY <1>6, <2>1
  <2>. QED
    BY <1>0, <1>3, <1>5, <1>6, <2>4, <2>5
<1>9. CASE r[i].xmit # 0
  <2>1. new = nxt /\ r[i].xmit > 0
    BY <1>1, <1>9
  <2>2. r[i].seq < nxt /\ EndOf(r[i]) <= nxt
    BY <2>1 DEF SentTo, Uncut
  <2>3. ASSUME NEW j \in 1..Len(q) PROVE q[j].xmit > 0 <=> q[j].seq < new
    <3>1. r[j].xmit > 0 <=> r[j].seq < nxt
      BY <1>3 DEF SentTo
    <3>2. q[j].xmit > 0 <=> r[j].xmit > 0
      BY <1>1, <1>2, <1>3, <2>1
    <3>. QED
      BY <1>3, <1>4, <2>1, <3>1, <3>2
  <2>4. Uncut(q, new)
    BY <1>5, <2>1 DEF SentTo
  <2>5. SentTo(q, new)
    BY <2>3, <2>4 DEF SentTo
  <2>6. new \in Nat /\ nxt <= new /\ una < new /\ EndOf(r[i]) <= new
    BY <1>6, <2>1, <2>2
  <2>. QED
    BY <1>0, <1>3, <1>5, <1>6, <2>1, <2>5, <2>6
<1>. QED
  BY <1>0, <1>8, <1>9

-----------------------------------------------------------------------------
(* Objects.  q has the members of t, but for those of F.                    *)
SameBut(t, q, F) == \A f \in Field \ F : q[f] = t[f]
PacketOf(t, seq, ctl, data) ==
  [seq |-> seq, ack |-> t.rcv_nxt, wnd |-> t.rcv_wnd, ctl |-> ctl, data |-> data]
SendFields == {"out", "t_ack", "mss", "slist", "snd_nxt", "rto_base"}

(* packet appends to what is sent.                                          *)
LEMMA PacketFields ==
  ASSUME NEW t, Unaltered(t), NEW seq, NEW ctl, NEW data
  PROVE  /\ Unaltered(Packet(t, seq, ctl, data))
         /\ SameBut(t, Packet(t, seq, ctl, data), {"out", "t_ack"})
         /\ Packet(t, seq, ctl, data).t_ack = FALSE
         /\ Packet(t, seq, ctl, data).out = Append(t.out, PacketOf(t, seq, ctl, data))
<1>1. PICK q : q = Packet(t, seq, ctl, data)
  OBVIOUS
<1>2. /\ Unaltered(q) /\ SameBut(t, q, {"out", "t_ack"})
      /\ q.t_ack = FALSE /\ q.out = Append(t.out, PacketOf(t, seq, ctl, data))
  BY <1>1 DEF Unaltered, Packet, PacketOf, Field, SameBut
<1>. QED
  BY <1>1, <1>2

(* Members that a method does not touch.                                    *)
LEMMA SameSent ==
  ASSUME NEW t, NEW q, SameBut(t, q, SendFields)
  PROVE  /\ q.state = t.state /\ q.shutdown = t.shutdown
         /\ q.snd_una = t.snd_una /\ q.snd_wnd = t.snd_wnd /\ q.sbuf = t.sbuf
         /\ q.mtu_advise = t.mtu_advise /\ q.dup_acks = t.dup_acks /\ q.recover = t.recover
         /\ q.rcv_nxt = t.rcv_nxt /\ q.rcv_wnd = t.rcv_wnd /\ q.rlen = t.rlen /\ q.rpos = t.rpos
         /\ q.rbuf = t.rbuf /\ q.rlist = t.rlist
         /\ q.bReadEnable = t.bReadEnable /\ q.bWriteEnable = t.bWriteEnable /\ q.told = t.told
  BY DEF SameBut, Field, SendFields

(* How much of the i-th segment transmit takes, and its bytes.              *)
Fit(t, i) == Min({t.slist[i].len, t.mss})
FitTo(t, i, m) == Min({Fit(t, i), m})
Bytes(t, seq, n) == SubSeq(t.sbuf, seq - t.snd_una + 1, seq - t.snd_una + n)

(* transmit, member by member.                                              *)
Transmitted(t, i, n, q) ==
  /\ Unaltered(q) /\ SameBut(t, q, SendFields)
  /\ q.rto_base = TRUE /\ q.t_ack = FALSE
  /\ q.mss = IF n < Fit(t, i) THEN n ELSE t.mss
  /\ q.slist = Resent(Split(t.slist, i, n), i)
  /\ q.snd_nxt = IF t.slist[i].xmit = 0 THEN t.snd_nxt + n ELSE t.snd_nxt
  /\ q.out = Append(t.out, PacketOf(t, t.slist[i].seq, t.slist[i].bCtrl,
                                    Bytes(t, t.slist[i].seq, n)))

(* The object that transmit leaves.                                         *)
LEMMA TransmitFields ==
  ASSUME NEW t, Unaltered(t), NEW i, NEW m
  PROVE  Transmitted(t, i, FitTo(t, i, m), Transmit(t, i, m))
<1>0. PICK q, n, fit : q = Transmit(t, i, m) /\ n = FitTo(t, i, m) /\ fit = Fit(t, i)
  OBVIOUS
<1>1. PICK seq, ctl, data : /\ seq = t.slist[i].seq /\ ctl = t.slist[i].bCtrl
                            /\ data = Bytes(t, t.slist[i].seq, n)
  OBVIOUS
<1>2. PICK p : p = Packet(t, seq, ctl, data)
  OBVIOUS
<1>3. PICK a, b, c : /\ a = (IF n < fit THEN n ELSE t.mss)
                     /\ b = Resent(Split(t.slist, i, n), i)
                     /\ c = (IF t.slist[i].xmit = 0 THEN t.snd_nxt + n ELSE t.snd_nxt)
  OBVIOUS
<1>4. q = [p EXCEPT !.mss = a, !.slist = b, !.snd_nxt = c, !.rto_base = TRUE]
  BY <1>0, <1>1, <1>2, <1>3, Zenon DEF Transmit, FitTo, Fit, Bytes
<1>5. /\ Unaltered(p) /\ SameBut(t, p, {"out", "t_ack"})
      /\ p.t_ack = FALSE /\ p.out = Append(t.out, PacketOf(t, seq, ctl, data))
  BY <1>2, PacketFields, Zenon
<1>6. /\ Unaltered(q) /\ SameBut(p, q, {"mss", "slist", "snd_nxt", "rto_base"})
      /\ q.mss = a /\ q.slist = b /\ q.snd_nxt = c /\ q.rto_base = TRUE
  BY <1>4, <1>5, Zenon DEF Unaltered, Field, SameBut
<1>7. SameBut(t, q, SendFields)
  BY <1>5, <1>6 DEF SameBut, Field, SendFields
<1>8. q.t_ack = p.t_ack /\ q.out = p.out
  BY <1>6 DEF SameBut, Field
<1>. QED
  BY <1>0, <1>1, <1>3, <1>5, <1>6, <1>7, <1>8 DEF Transmitted

-----------------------------------------------------------------------------
(* One end t of a connection, seen against the other, u: A are the packets  *)
(* on their way to t, B those on their way to u.                            *)
Linked(t, u, A, B) ==
  /\ Flow(t, u) /\ Flow(u, t)
  /\ \A p \in A : Acks(t, u, p)
  /\ \A p \in B \cup Packets(t.out) : Carries(t, p) /\ Acks(u, t, p)
Live(t, u, A, B) ==
  /\ Typed(t) /\ Typed(u) /\ A \subseteq Pkt /\ B \subseteq Pkt
  /\ Tiled(t)
  /\ Linked(t, u, A, B)

(* The last byte a receiver has room for.                                   *)
LEMMA EdgeNat ==
  ASSUME NEW u, Typed(u)
  PROVE  Edge(u) \in Nat
<1>1. u.rcv_nxt \in Nat /\ u.rcv_wnd \in Nat
  BY DEF Typed
<1>. QED
  BY <1>1 DEF Edge

(* A packet that is appended to those to be sent.                           *)
LEMMA PacketsAppend ==
  ASSUME NEW S, NEW s \in Seq(S), NEW x \in S
  PROVE  Append(s, x) \in Seq(S) /\ Packets(Append(s, x)) = Packets(s) \cup {x}
<1>1. PICK r : r = Append(s, x)
  OBVIOUS
<1>2. r \in Seq(S) /\ Len(r) = Len(s) + 1 /\ r[Len(s) + 1] = x /\ \A i \in 1..Len(s) : r[i] = s[i]
  BY <1>1
<1>3. ASSUME NEW p \in Packets(r) PROVE p \in Packets(s) \cup {x}
  <2>1. PICK i \in 1..Len(r) : p = r[i]
    BY DEF Packets
  <2>2. CASE i <= Len(s)
    BY <1>2, <2>1, <2>2 DEF Packets
  <2>3. CASE i = Len(s) + 1
    BY <1>2, <2>1, <2>3
  <2>. QED
    BY <1>2, <2>1, <2>2, <2>3
<1>4. ASSUME NEW p \in Packets(s) PROVE p \in Packets(r)
  <2>1. PICK i \in 1..Len(s) : p = s[i]
    BY DEF Packets
  <2>. QED
    BY <1>2, <2>1 DEF Packets
<1>5. x \in Packets(r)
  <2>1. Len(s) + 1 \in 1..Len(r)
    BY <1>2
  <2>. QED
    BY <1>2, <2>1 DEF Packets
<1>. QED
  BY <1>1, <1>2, <1>3, <1>4, <1>5

(* The members that the sending methods change keep their types.            *)
LEMMA TypedSend ==
  ASSUME NEW t, NEW q, Typed(t), Unaltered(q), SameBut(t, q, SendFields),
         q.mss \in Nat \ {0}, q.slist \in Seq(Segment), q.snd_nxt \in Nat,
         q.t_ack \in BOOLEAN, q.rto_base \in BOOLEAN, q.out \in Seq(Pkt)
  PROVE  Typed(q)
<1>1. /\ q.state = t.state /\ q.shutdown = t.shutdown
      /\ q.snd_una = t.snd_una /\ q.snd_wnd = t.snd_wnd /\ q.sbuf = t.sbuf
      /\ q.mtu_advise = t.mtu_advise /\ q.dup_acks = t.dup_acks /\ q.recover = t.recover
      /\ q.rcv_nxt = t.rcv_nxt /\ q.rcv_wnd = t.rcv_wnd /\ q.rlen = t.rlen /\ q.rpos = t.rpos
      /\ q.rbuf = t.rbuf /\ q.rlist = t.rlist
      /\ q.bReadEnable = t.bReadEnable /\ q.bWriteEnable = t.bWriteEnable /\ q.told = t.told
  BY SameSent
<1>. QED
  BY <1>1, Zenon DEF Typed

(* A step of the sending side: the receiving members stay, and no packet    *)
(* goes out that does not carry what was sent and acknowledge what was      *)
(* received.                                                                *)
LEMMA SenderStep ==
  ASSUME NEW t, NEW u, NEW A, NEW B, NEW q, Live(t, u, A, B), Typed(q), Tiled(q),
         q.rcv_nxt = t.rcv_nxt, q.rcv_wnd = t.rcv_wnd, q.rlist = t.rlist,
         t.snd_nxt <= q.snd_nxt, q.snd_nxt <= Edge(u),
         q.snd_una <= u.rcv_nxt, q.snd_una + q.snd_wnd <= Edge(u),
         \A x \in Int : x <= t.snd_nxt /\ Uncut(t.slist, x) => Uncut(q.slist, x),
         \A p \in Packets(q.out) :
           p \in Packets(t.out) \/ (Carries(q, p) /\ p.ack = t.rcv_nxt /\ p.wnd = t.rcv_wnd)
  PROVE  Live(q, u, A, B)
<1>1. /\ t.snd_nxt \in Nat /\ q.snd_nxt \in Nat /\ t.rcv_nxt \in Nat /\ t.rcv_wnd \in Nat
      /\ u.rcv_nxt \in Nat /\ u.rcv_wnd \in Nat /\ u.snd_nxt \in Nat
  BY DEF Live, Typed
<1>2. Flow(t, u) /\ Flow(u, t) /\ A \subseteq Pkt /\ B \subseteq Pkt /\ Typed(u)
  BY DEF Live, Linked
<1>3. Edge(q) = Edge(t)
  BY DEF Edge
<1>4. Flow(q, u)
  <2>1. u.rcv_nxt <= t.snd_nxt /\ Uncut(t.slist, u.rcv_nxt)
    BY <1>2 DEF Flow
  <2>2. u.rcv_nxt <= q.snd_nxt /\ Uncut(q.slist, u.rcv_nxt)
    BY <1>1, <2>1
  <2>3. ASSUME NEW s \in u.rlist
        PROVE  s[1] + s[2] <= q.snd_nxt /\ Uncut(q.slist, s[1] + s[2])
    <3>1. s[1] + s[2] <= t.snd_nxt /\ Uncut(t.slist, s[1] + s[2])
      BY <1>2 DEF Flow
    <3>2. s[1] + s[2] \in Int
      BY <1>2 DEF Typed
    <3>. QED
      BY <1>1, <3>1, <3>2
  <2>. QED
    BY <2>2, <2>3 DEF Flow
<1>5. Flow(u, q)
  BY <1>2, <1>3 DEF Flow
<1>6. ASSUME NEW p \in A PROVE Acks(q, u, p)
  <2>1. p.ack <= u.rcv_nxt /\ p.ack + p.wnd <= Edge(u) /\ Uncut(t.slist, p.ack)
    BY DEF Live, Linked, Acks
  <2>2. p.ack \in Nat
    BY <1>2 DEF Pkt
  <2>3. p.ack <= t.snd_nxt
    BY <1>1, <1>2, <2>1, <2>2 DEF Flow
  <2>. QED
    BY <2>1, <2>2, <2>3 DEF Acks
<1>7. ASSUME NEW p, p \in B \cup Packets(t.out) PROVE Carries(q, p) /\ Acks(u, q, p)
  <2>1. Carries(t, p) /\ Acks(u, t, p)
    BY <1>7 DEF Live, Linked
  <2>2. Acks(u, q, p)
    BY <1>3, <2>1 DEF Acks
  <2>3. ASSUME p.data # <<>>
        PROVE  p.seq + Len(p.data) <= q.snd_nxt /\ Uncut(q.slist, p.seq + Len(p.data))
    <3>1. p.seq + Len(p.data) <= t.snd_nxt /\ Uncut(t.slist, p.seq + Len(p.data))
      BY <2>1, <2>3 DEF Carries
    <3>2. p \in Pkt
      <4>1. t.out \in Seq(Pkt)
        BY DEF Live, Typed
      <4>. QED
        BY <1>2, <1>7, <4>1 DEF Packets
    <3>3. p.seq + Len(p.data) \in Int
      BY <3>2 DEF Pkt
    <3>. QED
      BY <1>1, <3>1, <3>3
  <2>. QED
    BY <2>1, <2>2, <2>3 DEF Carries
<1>8. ASSUME NEW p \in Packets(q.out) PROVE Carries(q, p) /\ Acks(u, q, p)
  <2>1. CASE p \in Packets(t.out)
    BY <1>7, <2>1
  <2>2. CASE Carries(q, p) /\ p.ack = t.rcv_nxt /\ p.wnd = t.rcv_wnd
    <3>1. Uncut(u.slist, t.rcv_nxt)
      BY <1>2 DEF Flow
    <3>. QED
      BY <1>1, <2>2, <3>1 DEF Acks, Edge
  <2>. QED
    BY <2>1, <2>2
<1>. QED
  BY <1>2, <1>4, <1>5, <1>6, <1>7, <1>8 DEF Live, Linked

(* What is known of the queue of an object, number by number.               *)
LEMMA TiledFacts ==
  ASSUME NEW t, Typed(t), Tiled(t)
  PROVE  /\ t.snd_una \in Nat /\ t.snd_nxt \in Nat /\ t.snd_wnd \in Nat /\ t.mss \in Nat \ {0}
         /\ t.sbuf \in Seq(Nat) /\ t.slist \in Seq(Segment)
         /\ Len(t.sbuf) \in Nat /\ t.snd_una + Len(t.sbuf) \in Nat
         /\ Tiles(t.slist, t.snd_una, t.snd_una + Len(t.sbuf))
         /\ SentTo(t.slist, t.snd_nxt)
         /\ \A j \in 1..Len(t.sbuf) : t.sbuf[j] = t.snd_una + j - 1
         /\ t.snd_una <= t.snd_nxt /\ t.snd_nxt <= t.snd_una + Len(t.sbuf)
<1>1. t.snd_una \in Nat /\ t.sbuf \in Seq(Nat)
  BY DEF Typed
<1>2. Len(t.sbuf) \in Nat
  BY <1>1
<1>3. t.snd_una + Len(t.sbuf) \in Nat
  BY <1>1, <1>2
<1>. QED
  BY <1>1, <1>2, <1>3, Zenon DEF Typed, Tiled

(* The bytes of one segment.                                                *)
LEMMA SegmentBytes ==
  ASSUME NEW t, Typed(t), Tiled(t), NEW seq \in Nat, NEW n \in Nat,
         t.snd_una <= seq, seq + n <= t.snd_una + Len(t.sbuf)
  PROVE  /\ Bytes(t, seq, n) \in Seq(Nat) /\ Len(Bytes(t, seq, n)) = n
         /\ \A j \in 1..n : Bytes(t, seq, n)[j] = seq + j - 1
<1>1. PICK b, una : b = t.sbuf /\ una = t.snd_una
  OBVIOUS
<1>2. una \in Nat /\ b \in Seq(Nat) /\ Len(b) \in Nat /\ \A j \in 1..Len(b) : b[j] = una + j - 1
  BY <1>1, TiledFacts
<1>3. PICK o \in Nat : o = seq - una
  BY <1>1, <1>2
<1>4. PICK d : d = Bytes(t, seq, n)
  OBVIOUS
<1>5. o + n <= Len(b) /\ d = SubSeq(b, o + 1, o + n)
  <2>1. o + n <= Len(b)
    BY <1>1, <1>2, <1>3
  <2>2. d = SubSeq(b, seq - una + 1, seq - una + n)
    BY <1>1, <1>4, Zenon DEF Bytes
  <2>. QED
    BY <1>3, <2>1, <2>2
<1>6. d \in Seq(Nat) /\ Len(d) = n /\ \A j \in 1..n : d[j] = b[o + j]
  BY <1>2, <1>5
<1>7. ASSUME NEW j \in 1..n PROVE d[j] = seq + j - 1
  <2>1. o + j \in 1..Len(b) /\ una + (o + j) - 1 = seq + j - 1
    BY <1>2, <1>3, <1>5
  <2>. QED
    BY <1>2, <1>6, <2>1
<1>. QED
  BY <1>4, <1>6, <1>7

(* transmit sends a segment that was sent before, or the next one.          *)
LEMMA TransmitLive ==
  ASSUME NEW t, NEW u, NEW A, NEW B, Live(t, u, A, B), NEW i, Entry(t.slist, i),
         NEW m \in Nat \ {0},
         t.slist[i].xmit = 0 => t.slist[i].seq = t.snd_nxt /\ EndOf(t.slist[i]) <= Edge(u),
         NEW q, q = Transmit(t, i, m)
  PROVE  /\ Live(q, u, A, B) /\ SameBut(t, q, SendFields)
         /\ q.snd_una < q.snd_nxt /\ t.snd_nxt <= q.snd_nxt
         /\ IF t.slist[i].xmit = 0
              THEN t.snd_nxt < q.snd_nxt /\ q.snd_nxt <= EndOf(t.slist[i])
              ELSE q.snd_nxt = t.snd_nxt
<1>11. PICK s, end : s = t.slist /\ end = t.snd_una + Len(t.sbuf)
  OBVIOUS
<1>f. PICK fit : fit = Fit(t, i)
  OBVIOUS
<1>n. PICK n : n = FitTo(t, i, m)
  OBVIOUS
<1>r. PICK r, data : /\ r = Split(s, i, n)
                     /\ data = Bytes(t, s[i].seq, n)
  OBVIOUS
<1>p. PICK pk : pk = PacketOf(t, s[i].seq, s[i].bCtrl, data)
  OBVIOUS
<1>1. Typed(t) /\ Tiled(t) /\ Typed(u) /\ Linked(t, u, A, B)
  BY DEF Live
<1>2. /\ t.snd_una \in Nat /\ t.snd_nxt \in Nat /\ t.mss \in Nat \ {0}
      /\ t.sbuf \in Seq(Nat) /\ s \in Seq(Segment) /\ end \in Nat
      /\ Tiles(s, t.snd_una, end) /\ SentTo(s, t.snd_nxt)
      /\ \A j \in 1..Len(t.sbuf) : t.sbuf[j] = t.snd_una + j - 1
      /\ t.snd_una <= t.snd_nxt /\ t.snd_nxt <= end
  <2>1. /\ t.snd_una \in Nat /\ t.snd_nxt \in Nat /\ t.mss \in Nat \ {0}
        /\ t.sbuf \in Seq(Nat) /\ t.slist \in Seq(Segment)
        /\ t.snd_una + Len(t.sbuf) \in Nat
        /\ Tiles(t.slist, t.snd_una, t.snd_una + Len(t.sbuf)) /\ SentTo(t.slist, t.snd_nxt)
        /\ \A j \in 1..Len(t.sbuf) : t.sbuf[j] = t.snd_una + j - 1
        /\ t.snd_una <= t.snd_nxt /\ t.snd_nxt <= t.snd_una + Len(t.sbuf)
    BY <1>1, TiledFacts, Zenon
  <2>. QED
    BY <1>11, <2>1
<1>3. /\ i \in 1..Len(s) /\ s[i].len \in Nat /\ s[i].len > 0 /\ s[i].seq \in Nat
      /\ s[i].xmit \in Nat
  BY <1>2, <1>11, ListFields DEF Entry
<1>4. s[i].bCtrl \in BOOLEAN
  BY <1>2, <1>3, SegmentFields
<1>5. /\ t.snd_una <= s[i].seq /\ EndOf(s[i]) <= end
  BY <1>2, <1>3, EndUncut
<1>6. /\ fit = IF s[i].len <= t.mss THEN s[i].len ELSE t.mss
      /\ n = IF fit <= m THEN fit ELSE m
      /\ fit \in Nat
  <2>1. fit = (IF s[i].len <= t.mss THEN s[i].len ELSE t.mss) /\ fit \in Nat
    <3>1. s[i].len \in Int /\ t.mss \in Int
      BY <1>2, <1>3
    <3>2. fit = IF s[i].len <= t.mss THEN s[i].len ELSE t.mss
      BY <1>f, <1>11, <3>1, MinOfTwo DEF Fit
    <3>. QED
      BY <1>2, <1>3, <3>2
  <2>2. n = IF fit <= m THEN fit ELSE m
    BY <1>n, <1>f, <2>1, MinOfTwo DEF FitTo
  <2>. QED
    BY <2>1, <2>2
<1>7. fit \in Nat /\ n \in Nat /\ n > 0 /\ n <= s[i].len
  BY <1>2, <1>3, <1>6
<1>8. /\ Unaltered(q) /\ SameBut(t, q, SendFields)
      /\ q.rto_base = TRUE /\ q.t_ack = FALSE
      /\ q.mss = IF n < fit THEN n ELSE t.mss
      /\ q.slist = Resent(r, i)
      /\ q.snd_nxt = IF s[i].xmit = 0 THEN t.snd_nxt + n ELSE t.snd_nxt
      /\ q.out = Append(t.out, pk)
  <2>1. Unaltered(t)
    BY <1>1 DEF Typed
  <2>. QED
    <3>1. Transmitted(t, i, n, q)
      BY <1>n, <2>1, TransmitFields
    <3>. QED
      BY <1>11, <1>f, <1>r, <1>p, <3>1, Zenon DEF Transmitted
<1>9. q.mss \in Nat \ {0}
  BY <1>2, <1>7, <1>8
<1>10. /\ data \in Seq(Nat) /\ Len(data) = n
       /\ \A j \in 1..n : data[j] = s[i].seq + j - 1
  <2>1. s[i].seq + n <= end
    BY <1>2, <1>3, <1>5, <1>7 DEF EndOf
  <2>. QED
    BY <1>1, <1>3, <1>5, <1>7, <1>11, <1>r, <2>1, SegmentBytes, SMTT(30)
<1>12. /\ r \in Seq(Segment) /\ i \in 1..Len(r)
       /\ Tiles(r, t.snd_una, end) /\ SentTo(r, t.snd_nxt)
       /\ \A x \in Int : Uncut(s, x) => Uncut(r, x)
       /\ r[i].seq = s[i].seq /\ r[i].xmit = s[i].xmit
       /\ r[i].len = n
       /\ r[i].bCtrl = s[i].bCtrl
  <2>1. Entry(s, i)
    BY <1>2, <1>3 DEF Entry
  <2>2. /\ r \in Seq(Segment) /\ i \in 1..Len(r)
        /\ Tiles(r, t.snd_una, end) /\ SentTo(r, t.snd_nxt)
        /\ \A x \in Int : Uncut(s, x) => Uncut(r, x)
        /\ r[i].seq = s[i].seq /\ r[i].xmit = s[i].xmit
        /\ r[i].len = (IF n < s[i].len THEN n ELSE s[i].len)
        /\ r[i].bCtrl = s[i].bCtrl
    BY <1>2, <1>7, <1>r, <2>1, SplitTiles
  <2>3. r[i].len = n
    BY <1>3, <1>7, <2>2
  <2>. QED
    BY <2>2, <2>3
<1>13. q.slist = Resent(r, i)
  BY <1>8
<1>14. r[i].xmit = 0 => r[i].seq = t.snd_nxt
  BY <1>11, <1>12
<1>15. q.snd_nxt = IF r[i].xmit = 0 THEN t.snd_nxt + r[i].len ELSE t.snd_nxt
  BY <1>8, <1>12
<1>16. /\ q.slist \in Seq(Segment) /\ Tiles(q.slist, t.snd_una, end) /\ SentTo(q.slist, q.snd_nxt)
       /\ \A x : Uncut(r, x) => Uncut(q.slist, x)
       /\ Uncut(q.slist, EndOf(r[i])) /\ EndOf(r[i]) <= q.snd_nxt
       /\ q.snd_nxt \in Nat /\ t.snd_nxt <= q.snd_nxt /\ t.snd_una < q.snd_nxt
       /\ t.snd_nxt <= end => q.snd_nxt <= end
  BY <1>2, <1>12, <1>13, <1>14, <1>15, MarkTiles, SMTT(30)
<1>17. EndOf(r[i]) = s[i].seq + n
  BY <1>12 DEF EndOf
<1>18. pk \in Pkt /\ pk.seq = s[i].seq /\ pk.ack = t.rcv_nxt /\ pk.wnd = t.rcv_wnd
       /\ pk.data = data /\ pk.ctl = s[i].bCtrl
  <2>1. t.rcv_nxt \in Nat /\ t.rcv_wnd \in Nat
    BY <1>1 DEF Typed
  <2>. QED
    BY <1>3, <1>4, <1>10, <1>p, <2>1 DEF Pkt, PacketOf
<1>19. Carries(q, pk)
  <2>1. s[i].seq = 0 => n = 1
    BY <1>12 DEF Tiles
  <2>2. s[i].bCtrl <=> s[i].seq = 0
    BY <1>2, <1>3 DEF Tiles
  <2>3. pk.seq + Len(pk.data) <= q.snd_nxt /\ Uncut(q.slist, pk.seq + Len(pk.data))
    BY <1>10, <1>16, <1>17, <1>18
  <2>4. \A j \in 1..Len(pk.data) : pk.data[j] = pk.seq + j - 1
    BY <1>10, <1>18
  <2>5. 0 <= pk.seq
    BY <1>3, <1>18
  <2>6. pk.ctl <=> pk.seq = 0
    BY <1>18, <2>2
  <2>7. pk.ctl => Len(pk.data) = 1
    BY <1>10, <1>18, <2>1, <2>2
  <2>. QED
    BY <2>3, <2>4, <2>5, <2>6, <2>7 DEF Carries
<1>20. q.out \in Seq(Pkt) /\ Packets(q.out) = Packets(t.out) \cup {pk}
  <2>1. t.out \in Seq(Pkt)
    BY <1>1 DEF Typed
  <2>. QED
    BY <1>8, <1>18, <2>1, PacketsAppend
<1>21. Typed(q)
  BY <1>1, <1>8, <1>9, <1>16, <1>20, TypedSend
<1>22. /\ q.snd_una = t.snd_una /\ q.snd_wnd = t.snd_wnd /\ q.sbuf = t.sbuf /\ q.recover = t.recover
       /\ q.rcv_nxt = t.rcv_nxt /\ q.rcv_wnd = t.rcv_wnd /\ q.rlist = t.rlist
  BY <1>8, SameSent
<1>23. Tiled(q)
  <2>1. t.recover <= t.snd_nxt /\ t.recover \in Nat /\ Len(t.sbuf) <= SndBufSize
    BY <1>1 DEF Tiled, Typed
  <2>2. q.recover <= q.snd_nxt
    BY <1>2, <1>16, <1>22, <2>1
  <2>3. q.rto_base <=> q.snd_una < q.snd_nxt
    BY <1>8, <1>16, <1>22
  <2>. QED
    BY <1>2, <1>11, <1>16, <1>22, <2>1, <2>2, <2>3 DEF Tiled
<1>24. IF s[i].xmit = 0 THEN t.snd_nxt < q.snd_nxt /\ q.snd_nxt <= EndOf(s[i])
                        ELSE q.snd_nxt = t.snd_nxt
  BY <1>2, <1>3, <1>7, <1>8, <1>11 DEF EndOf
<1>25. q.snd_nxt <= Edge(u)
  <2>1. t.snd_nxt <= Edge(u) /\ Edge(u) \in Nat
    BY <1>1, EdgeNat DEF Linked, Flow
  <2>2. EndOf(s[i]) \in Nat
    BY <1>3 DEF EndOf
  <2>. QED
    BY <1>11, <1>16, <1>24, <2>1, <2>2
<1>26. t.snd_una <= u.rcv_nxt /\ t.snd_una + t.snd_wnd <= Edge(u)
  BY <1>1 DEF Linked, Flow
<1>27. \A x \in Int : Uncut(t.slist, x) => Uncut(q.slist, x)
  BY <1>11, <1>12, <1>16
<1>28. Live(q, u, A, B)
  BY <1>16, <1>18, <1>19, <1>20, <1>21, <1>22, <1>23, <1>25, <1>26, <1>27, SenderStep
<1>. QED
  BY <1>8, <1>11, <1>16, <1>22, <1>24, <1>28

-----------------------------------------------------------------------------
(* Methods that send.                                                       *)

(* What makes a change of the members for sending harmless.                 *)
LEMMA SendStep ==
  ASSUME NEW t, NEW u, NEW A, NEW B, NEW q, Live(t, u, A, B),
         Unaltered(q), SameBut(t, q, SendFields),
         q.mss = t.mss, q.rto_base = t.rto_base, q.snd_nxt = t.snd_nxt, q.t_ack \in BOOLEAN,
         q.slist \in Seq(Segment), Tiles(q.slist, t.snd_una, t.snd_una + Len(t.sbuf)),
         SentTo(q.slist, t.snd_nxt), \A x \in Int : Uncut(t.slist, x) => Uncut(q.slist, x),
         q.out \in Seq(Pkt),
         \A p \in Packets(q.out) :
           p \in Packets(t.out) \/ (Carries(q, p) /\ p.ack = t.rcv_nxt /\ p.wnd = t.rcv_wnd)
  PROVE  Live(q, u, A, B)
<1>1. Typed(t) /\ Tiled(t) /\ Flow(t, u)
  BY DEF Live, Linked
<1>2. t.mss \in Nat \ {0} /\ t.snd_nxt \in Nat /\ t.rto_base \in BOOLEAN
  BY <1>1 DEF Typed
<1>3. Typed(q)
  BY <1>1, <1>2, TypedSend, Zenon
<1>4. /\ q.snd_una = t.snd_una /\ q.snd_wnd = t.snd_wnd /\ q.sbuf = t.sbuf /\ q.recover = t.recover
      /\ q.rcv_nxt = t.rcv_nxt /\ q.rcv_wnd = t.rcv_wnd /\ q.rlist = t.rlist
  BY SameSent
<1>5. Tiled(q)
  BY <1>1, <1>4, Zenon DEF Tiled
<1>6. t.snd_nxt <= q.snd_nxt /\ q.snd_nxt <= Edge(u) /\ q.snd_una <= u.rcv_nxt
      /\ q.snd_una + q.snd_wnd <= Edge(u)
  BY <1>1, <1>2, <1>4 DEF Flow
<1>. QED
  BY <1>3, <1>4, <1>5, <1>6, SenderStep

(* packet: an acknowledgement without data.                                 *)
LEMMA PacketLive ==
  ASSUME NEW t, NEW u, NEW A, NEW B, Live(t, u, A, B), NEW seq \in Int
  PROVE  /\ Live(Packet(t, seq, FALSE, <<>>), u, A, B)
         /\ SameBut(t, Packet(t, seq, FALSE, <<>>), {"out", "t_ack"})
<1>1. PICK q, pk : q = Packet(t, seq, FALSE, <<>>) /\ pk = PacketOf(t, seq, FALSE, <<>>)
  OBVIOUS
<1>2. Typed(t) /\ Tiled(t)
  BY DEF Live
<1>3. Unaltered(t) /\ t.out \in Seq(Pkt) /\ t.rcv_nxt \in Nat /\ t.rcv_wnd \in Nat
      /\ t.slist \in Seq(Segment)
  BY <1>2 DEF Typed
<1>4. Unaltered(q) /\ SameBut(t, q, {"out", "t_ack"}) /\ q.t_ack = FALSE /\ q.out = Append(t.out, pk)
  BY <1>1, <1>3, PacketFields, Zenon
<1>5. /\ pk \in Pkt /\ pk.ack = t.rcv_nxt /\ pk.wnd = t.rcv_wnd /\ pk.data = <<>> /\ pk.ctl = FALSE
  BY <1>1, <1>3 DEF PacketOf, Pkt
<1>6. Carries(q, pk)
  BY <1>5, Zenon DEF Carries
<1>7. q.out \in Seq(Pkt) /\ Packets(q.out) = Packets(t.out) \cup {pk}
  BY <1>3, <1>4, <1>5, PacketsAppend
<1>8. SameBut(t, q, SendFields) /\ q.mss = t.mss /\ q.rto_base = t.rto_base
      /\ q.snd_nxt = t.snd_nxt /\ q.slist = t.slist /\ q.t_ack \in BOOLEAN
  BY <1>4, Zenon DEF SameBut, Field, SendFields
<1>9. Tiles(t.slist, t.snd_una, t.snd_una + Len(t.sbuf)) /\ SentTo(t.slist, t.snd_nxt)
  BY <1>2 DEF Tiled
<1>10. Live(q, u, A, B)
  <2>1. \A p \in Packets(q.out) :
          p \in Packets(t.out) \/ (Carries(q, p) /\ p.ack = t.rcv_nxt /\ p.wnd = t.rcv_wnd)
    BY <1>5, <1>6, <1>7
  <2>2. q.slist \in Seq(Segment) /\ Tiles(q.slist, t.snd_una, t.snd_una + Len(t.sbuf))
        /\ SentTo(q.slist, t.snd_nxt) /\ \A x \in Int : Uncut(t.slist, x) => Uncut(q.slist, x)
    BY <1>3, <1>8, <1>9, Zenon
  <2>. QED
    BY <1>4, <1>7, <1>8, <2>1, <2>2, SendStep, Zenon
<1>. QED
  BY <1>1, <1>4, <1>10

(* The delayed acknowledgement is pending.                                  *)
LEMMA AckPending ==
  ASSUME NEW t, NEW u, NEW A, NEW B, Live(t, u, A, B), NEW q, q = [t EXCEPT !.t_ack = TRUE]
  PROVE  Live(q, u, A, B) /\ SameBut(t, q, {"out", "t_ack"})
<1>1. Typed(t) /\ Tiled(t)
  BY DEF Live
<1>2. Unaltered(t) /\ t.out \in Seq(Pkt) /\ t.slist \in Seq(Segment)
  BY <1>1 DEF Typed
<1>3. Unaltered(q) /\ SameBut(t, q, {"t_ack"}) /\ q.t_ack = TRUE
  BY <1>2, Zenon DEF Unaltered, SameBut, Field
<1>4. SameBut(t, q, SendFields) /\ SameBut(t, q, {"out", "t_ack"})
      /\ q.mss = t.mss /\ q.rto_base = t.rto_base
      /\ q.snd_nxt = t.snd_nxt /\ q.slist = t.slist /\ q.out = t.out /\ q.t_ack \in BOOLEAN
  BY <1>3, Zenon DEF SameBut, Field, SendFields
<1>5. Tiles(q.slist, t.snd_una, t.snd_una + Len(t.sbuf)) /\ SentTo(q.slist, t.snd_nxt)
      /\ q.slist \in Seq(Segment) /\ q.out \in Seq(Pkt)
      /\ \A x \in Int : Uncut(t.slist, x) => Uncut(q.slist, x)
  BY <1>1, <1>2, <1>4, Zenon DEF Tiled
<1>6. \A p \in Packets(q.out) :
        p \in Packets(t.out) \/ (Carries(q, p) /\ p.ack = t.rcv_nxt /\ p.wnd = t.rcv_wnd)
  BY <1>4
<1>. QED
  BY <1>3, <1>4, <1>5, <1>6, SendStep, Zenon

(* attemptSend: the segment to send is the one at m_snd_nxt.                *)
FirstUnsent(t) == Min({j \in 1..Len(t.slist) : t.slist[j].xmit = 0})
LEMMA NextSegment ==
  ASSUME NEW t, Typed(t), Tiled(t), t.snd_nxt < t.snd_una + Len(t.sbuf)
  PROVE  /\ FirstUnsent(t) \in 1..Len(t.slist)
         /\ t.slist[FirstUnsent(t)].xmit = 0 /\ t.slist[FirstUnsent(t)].seq = t.snd_nxt
<1>1. PICK s, una, nxt, end : s = t.slist /\ una = t.snd_una /\ nxt = t.snd_nxt
                              /\ end = t.snd_una + Len(t.sbuf)
  OBVIOUS
<1>2. /\ una \in Nat /\ nxt \in Nat /\ end \in Nat /\ s \in Seq(Segment)
      /\ Tiles(s, una, end) /\ SentTo(s, nxt) /\ una <= nxt /\ nxt < end
  BY <1>1, TiledFacts
<1>3. PICK U, i : U = {j \in 1..Len(s) : s[j].xmit = 0} /\ i = Min(U)
  OBVIOUS
<1>4. \A j \in 1..Len(s) : s[j].xmit \in Nat /\ s[j].seq \in Nat
                           /\ EndOf(s[j]) \in Nat /\ s[j].seq < EndOf(s[j])
  BY <1>2, ListFields DEF EndOf
<1>5. U \subseteq Nat /\ U # {}
  <2>1. s # <<>> /\ end = EndOf(s[Len(s)])
    BY <1>2 DEF Tiles
  <2>2. Len(s) \in 1..Len(s)
    BY <1>2, <2>1
  <2>3. s[Len(s)].xmit = 0
    BY <1>2, <1>4, <2>1, <2>2 DEF SentTo, Uncut
  <2>. QED
    BY <1>3, <2>2, <2>3
<1>6. i \in U /\ \A j \in U : i <= j
  BY <1>3, <1>5, MinOfNat
<1>7. i \in 1..Len(s) /\ s[i].xmit = 0
  BY <1>3, <1>6
<1>8. s[i].seq >= nxt
  BY <1>2, <1>4, <1>7 DEF SentTo
<1>9. s[i].seq <= nxt
  <2>1. CASE i = 1
    BY <1>2, <1>7, <2>1 DEF Tiles
  <2>2. CASE i # 1
    <3>1. i - 1 \in 1..Len(s) /\ i - 1 < i
      BY <1>2, <1>7, <2>2
    <3>2. i - 1 \notin U
      BY <1>5, <1>6, <3>1
    <3>3. s[i - 1].xmit > 0
      BY <1>3, <1>4, <3>1, <3>2
    <3>4. EndOf(s[i - 1]) <= nxt
      BY <1>2, <3>1, <3>3 DEF SentTo, Uncut
    <3>5. s[i].seq = EndOf(s[i - 1])
      BY <1>2, <1>7, <2>2 DEF Tiles
    <3>. QED
      BY <3>4, <3>5
  <2>. QED
    BY <2>1, <2>2
<1>10. FirstUnsent(t) = i
  BY <1>1, <1>3 DEF FirstUnsent
<1>. QED
  BY <1>1, <1>2, <1>4, <1>7, <1>8, <1>9, <1>10

(* The object with its list of segments replaced.                           *)
WithList(t, s) == [t EXCEPT !.slist = s]
LEMMA SendOneSteps ==
  ASSUME NEW t, NEW n, NEW m
  PROVE  SendOne(t, n, m) = Transmit(WithList(t, Split(t.slist, FirstUnsent(t), n)), FirstUnsent(t), m)
  BY Zenon DEF SendOne, WithList, FirstUnsent

(* One turn of the loop of attemptSend, with room for n bytes at the peer.  *)
LEMMA SendOneLive ==
  ASSUME NEW t, NEW u, NEW A, NEW B, Live(t, u, A, B), NEW n \in Nat, 0 < n,
         t.snd_nxt + n <= t.snd_una + Len(t.sbuf), t.snd_nxt + n <= Edge(u),
         NEW m \in Nat \ {0}, NEW q, q = SendOne(t, n, m)
  PROVE  /\ Live(q, u, A, B) /\ SameBut(t, q, SendFields)
         /\ q.snd_una < q.snd_nxt /\ t.snd_nxt <= q.snd_nxt
<1>1. Typed(t) /\ Tiled(t)
  BY DEF Live
<1>2. PICK s, i : s = t.slist /\ i = FirstUnsent(t)
  OBVIOUS
<1>3. /\ t.snd_una \in Nat /\ t.snd_nxt \in Nat /\ t.snd_una + Len(t.sbuf) \in Nat
      /\ s \in Seq(Segment) /\ Tiles(s, t.snd_una, t.snd_una + Len(t.sbuf)) /\ SentTo(s, t.snd_nxt)
  BY <1>1, <1>2, TiledFacts
<1>4. i \in 1..Len(s) /\ s[i].xmit = 0 /\ s[i].seq = t.snd_nxt
  <2>1. t.snd_nxt < t.snd_una + Len(t.sbuf)
    BY <1>3
  <2>. QED
    BY <1>1, <1>2, <2>1, NextSegment
<1>5. PICK r : r = Split(s, i, n)
  OBVIOUS
<1>6. /\ r \in Seq(Segment) /\ i \in 1..Len(r)
      /\ Tiles(r, t.snd_una, t.snd_una + Len(t.sbuf)) /\ SentTo(r, t.snd_nxt)
      /\ \A x \in Int : Uncut(s, x) => Uncut(r, x)
      /\ r[i].seq = s[i].seq /\ r[i].xmit = s[i].xmit
      /\ r[i].len = (IF n < s[i].len THEN n ELSE s[i].len)
  <2>1. Entry(s, i)
    BY <1>3, <1>4 DEF Entry
  <2>2. PICK una, end, nxt : una = t.snd_una /\ end = t.snd_una + Len(t.sbuf) /\ nxt = t.snd_nxt
    OBVIOUS
  <2>3. una \in Nat /\ end \in Nat /\ nxt \in Nat /\ Tiles(s, una, end) /\ SentTo(s, nxt)
    BY <1>3, <2>2
  <2>4. /\ r \in Seq(Segment) /\ i \in 1..Len(r)
        /\ Tiles(r, una, end) /\ SentTo(r, nxt)
        /\ \A x \in Int : Uncut(s, x) => Uncut(r, x)
        /\ r[i].seq = s[i].seq /\ r[i].xmit = s[i].xmit
        /\ r[i].len = (IF n < s[i].len THEN n ELSE s[i].len)
    BY <1>5, <2>1, <2>3, SplitTiles
  <2>. QED
    BY <2>2, <2>4
<1>7. PICK v : v = WithList(t, r)
  OBVIOUS
<1>8. Unaltered(v) /\ SameBut(t, v, {"slist"}) /\ v.slist = r
  <2>1. Unaltered(t)
    BY <1>1 DEF Typed
  <2>. QED
    BY <1>7, <2>1, Zenon DEF WithList, Unaltered, SameBut, Field
<1>9. SameBut(t, v, SendFields) /\ v.mss = t.mss /\ v.rto_base = t.rto_base
      /\ v.snd_nxt = t.snd_nxt /\ v.out = t.out /\ v.t_ack = t.t_ack
  BY <1>8, Zenon DEF SameBut, Field, SendFields
<1>10. Live(v, u, A, B)
  <2>1. t.t_ack \in BOOLEAN /\ t.out \in Seq(Pkt)
    BY <1>1 DEF Typed
  <2>2. v.t_ack \in BOOLEAN /\ v.out \in Seq(Pkt) /\ \A p \in Packets(v.out) :
          p \in Packets(t.out) \/ (Carries(v, p) /\ p.ack = t.rcv_nxt /\ p.wnd = t.rcv_wnd)
    BY <1>9, <2>1, Zenon
  <2>3. v.slist \in Seq(Segment) /\ Tiles(v.slist, t.snd_una, t.snd_una + Len(t.sbuf))
        /\ SentTo(v.slist, t.snd_nxt) /\ \A x \in Int : Uncut(t.slist, x) => Uncut(v.slist, x)
    BY <1>2, <1>6, <1>8
  <2>. QED
    BY <1>8, <1>9, <2>2, <2>3, SendStep, Zenon
<1>11. q = Transmit(v, i, m)
  BY <1>2, <1>5, <1>7, SendOneSteps
<1>12. v.slist[i].seq = v.snd_nxt /\ v.slist[i].xmit = 0 /\ EndOf(v.slist[i]) <= Edge(u)
  <2>1. s[i].len \in Nat
    BY <1>3, <1>4, ListFields
  <2>2. Edge(u) \in Nat
    BY EdgeNat DEF Live
  <2>3. EndOf(r[i]) <= t.snd_nxt + n
    BY <1>3, <1>4, <1>6, <2>1 DEF EndOf
  <2>4. EndOf(r[i]) \in Nat
    BY <1>3, <1>4, <1>6, <2>1 DEF EndOf
  <2>. QED
    BY <1>3, <1>4, <1>6, <1>8, <1>9, <2>2, <2>3, <2>4
<1>13. Entry(v.slist, i)
  BY <1>6, <1>8 DEF Entry
<1>14. /\ Live(q, u, A, B) /\ SameBut(v, q, SendFields)
       /\ q.snd_una < q.snd_nxt /\ v.snd_nxt <= q.snd_nxt
  BY <1>10, <1>11, <1>12, <1>13, TransmitLive
<1>15. SameBut(t, q, SendFields)
  BY <1>9, <1>14, Zenon DEF SameBut
<1>. QED
  BY <1>9, <1>14, <1>15

(* attemptSend never takes more than the window of the peer and the queue   *)
(* have; it takes nothing of a queue that is not in flight only when the    *)
(* window is closed.                                                        *)
LEMMA AvailableBound ==
  ASSUME NEW t, Typed(t), Tiled(t), NEW c \in Nat \ {0}
  PROVE  /\ Available(t, c) \in Nat
         /\ Available(t, c) # 0 =>
              /\ t.snd_nxt + Available(t, c) <= t.snd_una + Len(t.sbuf)
              /\ t.snd_nxt + Available(t, c) <= t.snd_una + t.snd_wnd
         /\ Available(t, c) = 0 /\ t.snd_una = t.snd_nxt /\ t.snd_wnd # 0 => t.sbuf = <<>>
<1>1. /\ t.snd_una \in Nat /\ t.snd_nxt \in Nat /\ t.snd_wnd \in Nat /\ t.mss \in Nat \ {0}
      /\ Len(t.sbuf) \in Nat /\ t.snd_una <= t.snd_nxt /\ t.snd_nxt <= t.snd_una + Len(t.sbuf)
      /\ t.sbuf \in Seq(Nat)
  BY TiledFacts
<1>2. PICK w, f, l, una, nxt, n :
        /\ una = t.snd_una /\ nxt = t.snd_nxt /\ n = Len(t.sbuf)
        /\ w = t.snd_wnd /\ f = nxt - una /\ l = n - f
  OBVIOUS
<1>a. una \in Nat /\ nxt \in Nat /\ n \in Nat /\ f = nxt - una /\ l = n - f
  BY <1>1, <1>2
<1>3. w \in Nat /\ f \in Nat /\ l \in Nat /\ t.mss \in Nat /\ t.mss > 0 /\ c > 0
  <2>1. una <= nxt /\ nxt <= una + n /\ w \in Nat
    BY <1>1, <1>2
  <2>. QED
    BY <1>1, <1>a, <2>1
<1>4. Min({w, c}) = (IF w <= c THEN w ELSE c) /\ Min({l, t.mss}) = (IF l <= t.mss THEN l ELSE t.mss)
  BY <1>3, MinOfTwo
<1>5. PICK nw, nq : nw = Min({w, c}) /\ nq = Min({l, t.mss})
  OBVIOUS
<1>6. nw \in Nat /\ nq \in Nat /\ nw <= w /\ nq <= l /\ (nw = 0 => w = 0) /\ (nq = 0 => l = 0)
  BY <1>3, <1>4, <1>5
<1>7. PICK nu : nu = IF f < nw THEN nw - f ELSE 0
  OBVIOUS
<1>8. Available(t, c) = IF nq <= nu THEN nq ELSE IF nu * 4 < nw THEN 0 ELSE nu
  BY <1>2, <1>5, <1>7, Zenon DEF Available
<1>9. nu \in Nat /\ (nu # 0 => f + nu <= w) /\ (f = 0 => nu = nw)
  BY <1>3, <1>6, <1>7
<1>10. PICK av : av = Available(t, c)
  OBVIOUS
<1>11. av = IF nq <= nu THEN nq ELSE IF nu * 4 < nw THEN 0 ELSE nu
  BY <1>8, <1>10
<1>12. av \in Nat /\ av <= nq /\ av <= nu
  BY <1>6, <1>9, <1>11
<1>13. av # 0 => f + av <= n /\ f + av <= w
  BY <1>a, <1>3, <1>6, <1>9, <1>12
<1>14. av # 0 => nxt + av <= una + n /\ nxt + av <= una + w
  BY <1>a, <1>3, <1>12, <1>13
<1>15. ASSUME av = 0, t.snd_una = t.snd_nxt, w # 0 PROVE t.sbuf = <<>>
  <2>1. f = 0 /\ nu = nw /\ nw > 0
    BY <1>a, <1>2, <1>6, <1>9, <1>15
  <2>2. ~(nu * 4 < nw)
    BY <1>6, <2>1
  <2>3. nq = 0
    BY <1>6, <1>11, <1>15, <2>1, <2>2
  <2>4. Len(t.sbuf) = 0
    BY <1>a, <1>2, <1>3, <1>6, <2>1, <2>3
  <2>. QED
    BY <1>1, <2>4
<1>. QED
  BY <1>2, <1>10, <1>12, <1>14, <1>15

(* The loop of attemptSend: one turn, the function it defines, and what     *)
(* follows it.                                                              *)
Turn(u, cwnd, m) ==
  IF Available(u, cwnd) = 0 \/ Nagle(u, Available(u, cwnd)) THEN u
  ELSE SendOne(u, Available(u, cwnd), m)
Turns(t, cwnd, m, n, f) == f = [k \in 0..n |-> IF k = 0 THEN t ELSE Turn(f[k - 1], cwnd, m)]
Answered(t, last, sflags, cwnd) ==
  IF last.snd_nxt # t.snd_nxt \/ Available(last, cwnd) > 0 \/ sflags = "none" THEN last
  ELSE IF sflags = "immediate" \/ last.t_ack
    THEN Packet(last, last.snd_nxt, FALSE, <<>>)
    ELSE [last EXCEPT !.t_ack = TRUE]

(* The function exists.                                                     *)
LEMMA TurnsExist ==
  ASSUME NEW t, NEW c, NEW m, NEW N \in Nat
  PROVE  \E f : Turns(t, c, m, N, f)
<1>. DEFINE F == {n \in Nat : \E f : Turns(t, c, m, n, f)}
<1>1. 0 \in F
  <2>1. PICK f : f = [k \in 0..0 |-> t]
    OBVIOUS
  <2>2. f = [k \in 0..0 |-> IF k = 0 THEN t ELSE Turn(f[k - 1], c, m)]
    BY <2>1
  <2>. QED
    BY <2>2 DEF Turns
<1>2. ASSUME NEW n \in 0..N - 1, n \in F PROVE n + 1 \in F
  <2>1. PICK f : f = [k \in 0..n |-> IF k = 0 THEN t ELSE Turn(f[k - 1], c, m)]
    BY <1>2 DEF Turns
  <2>2. PICK g : g = [k \in 0..n + 1 |-> IF k <= n THEN f[k] ELSE Turn(f[n], c, m)]
    OBVIOUS
  <2>3. ASSUME NEW k \in 0..n + 1 PROVE g[k] = IF k = 0 THEN t ELSE Turn(g[k - 1], c, m)
    <3>1. CASE k = 0
      BY <2>1, <2>2, <3>1
    <3>2. CASE k # 0 /\ k <= n
      <4>1. k \in 0..n /\ k - 1 \in 0..n + 1 /\ k - 1 <= n
        BY <3>2
      <4>2. g[k] = f[k] /\ g[k - 1] = f[k - 1]
        BY <2>2, <4>1
      <4>3. f[k] = Turn(f[k - 1], c, m)
        BY <2>1, <3>2, <4>1
      <4>. QED
        BY <3>2, <4>2, <4>3
    <3>3. CASE k = n + 1
      <4>1. n \in 0..n + 1 /\ k - 1 = n /\ ~(k <= n) /\ k # 0
        BY <3>3
      <4>2. g[k] = Turn(f[n], c, m) /\ g[n] = f[n]
        BY <2>2, <4>1
      <4>. QED
        BY <4>1, <4>2
    <3>. QED
      BY <3>1, <3>2, <3>3
  <2>4. g = [k \in 0..n + 1 |-> IF k = 0 THEN t ELSE Turn(g[k - 1], c, m)]
    BY <2>2, <2>3
  <2>5. Turns(t, c, m, n + 1, g)
    BY <2>4 DEF Turns
  <2>. QED
    BY <2>5
<1>3. \A n \in 0..N : n \in F
  <2>. HIDE DEF F
  <2>. QED
    BY <1>1, <1>2, UpTo
<1>. QED
  BY <1>3

(* attemptSend is what follows the last turn.                               *)
LEMMA AttemptSendTurns ==
  ASSUME NEW t, NEW sflags, NEW cwnd, NEW m
  PROVE  \E f : /\ Turns(t, cwnd, m, SndBufSize, f)
                /\ AttemptSend(t, sflags, cwnd, m) = Answered(t, f[SndBufSize], sflags, cwnd)
<1>2. \E f : Turns(t, cwnd, m, SndBufSize, f)
  <2>1. SndBufSize \in Nat
    BY PseudoTcpAssumption
  <2>. QED
    BY <2>1, TurnsExist
<1>1. PICK f : f = CHOOSE g : Turns(t, cwnd, m, SndBufSize, g)
  OBVIOUS
<1>3. Turns(t, cwnd, m, SndBufSize, f)
  BY <1>1, <1>2, Zenon
<1>4. AttemptSend(t, sflags, cwnd, m) = Answered(t, f[SndBufSize], sflags, cwnd)
  BY <1>1, <1>2, Zenon DEF AttemptSend, Turns, Turn, Answered
<1>. QED
  BY <1>3, <1>4

(* What the sending methods leave of t.                                     *)
Pushed(t, q, u, A, B) ==
  Live(q, u, A, B) /\ SameBut(t, q, SendFields) /\ t.snd_nxt <= q.snd_nxt
LEMMA TurnLive ==
  ASSUME NEW t, NEW u, NEW A, NEW B, Live(t, u, A, B), NEW c \in Nat \ {0}, NEW m \in Nat \ {0},
         NEW q, q = Turn(t, c, m)
  PROVE  /\ Pushed(t, q, u, A, B)
         /\ q.snd_una < q.snd_nxt \/ (q = t /\ Available(t, c) = 0)
<1>1. Typed(t) /\ Tiled(t) /\ Flow(t, u) /\ Edge(u) \in Nat
  BY EdgeNat DEF Live, Linked
<1>2. PICK n : n = Available(t, c)
  OBVIOUS
<1>3. /\ n \in Nat
      /\ n # 0 => /\ t.snd_nxt + n <= t.snd_una + Len(t.sbuf)
                  /\ t.snd_nxt + n <= t.snd_una + t.snd_wnd
  BY <1>1, <1>2, AvailableBound
<1>4. t.snd_nxt \in Nat /\ t.snd_una \in Nat /\ t.snd_wnd \in Nat
  BY <1>1 DEF Typed
<1>5. CASE n = 0 \/ Nagle(t, n)
  <2>1. q = t
    BY <1>2, <1>5, Zenon DEF Turn
  <2>2. SameBut(t, q, SendFields)
    BY <2>1, Zenon DEF SameBut
  <2>3. Nagle(t, n) => t.snd_una < t.snd_nxt
    BY <1>4 DEF Nagle
  <2>. QED
    BY <1>2, <1>4, <1>5, <2>1, <2>2, <2>3 DEF Pushed
<1>6. CASE ~(n = 0 \/ Nagle(t, n))
  <2>1. q = SendOne(t, n, m)
    BY <1>2, <1>6, Zenon DEF Turn
  <2>2. t.snd_nxt + n <= Edge(u)
    <3>1. t.snd_una + t.snd_wnd <= Edge(u)
      BY <1>1 DEF Flow
    <3>. QED
      BY <1>1, <1>3, <1>4, <1>6, <3>1
  <2>3. /\ Live(q, u, A, B) /\ SameBut(t, q, SendFields)
        /\ q.snd_una < q.snd_nxt /\ t.snd_nxt <= q.snd_nxt
    <3>1. n \in Nat /\ 0 < n /\ t.snd_nxt + n <= t.snd_una + Len(t.sbuf)
      BY <1>3, <1>6
    <3>. QED
      BY <2>1, <2>2, <3>1, SendOneLive
  <2>. QED
    BY <2>3 DEF Pushed
<1>. QED
  BY <1>5, <1>6

(* attemptSend: something is in flight, or there is nothing to send, or the *)
(* window is closed.                                                        *)
Flushed(q) == q.snd_una = q.snd_nxt /\ q.snd_wnd # 0 => q.sbuf = <<>>
LEMMA AttemptSendLive ==
  ASSUME NEW t, NEW u, NEW A, NEW B, Live(t, u, A, B), NEW c \in Nat \ {0}, NEW m \in Nat \ {0},
         NEW sflags, NEW q, q = AttemptSend(t, sflags, c, m)
  PROVE  Pushed(t, q, u, A, B) /\ Flushed(q)
<1>1. PICK f : Turns(t, c, m, SndBufSize, f) /\ q = Answered(t, f[SndBufSize], sflags, c)
  BY AttemptSendTurns
<1>2. SndBufSize \in Nat /\ SndBufSize > 0
  BY PseudoTcpAssumption
<1>3. f[0] = t /\ \A k \in 0..SndBufSize - 1 : f[k + 1] = Turn(f[k], c, m)
  <2>1. f = [k \in 0..SndBufSize |-> IF k = 0 THEN t ELSE Turn(f[k - 1], c, m)]
    BY <1>1, Zenon DEF Turns
  <2>2. \A k \in 0..SndBufSize : f[k] = IF k = 0 THEN t ELSE Turn(f[k - 1], c, m)
    BY <2>1, Zenon
  <2>3. f[0] = t
    BY <1>2, <2>2
  <2>4. ASSUME NEW k \in 0..SndBufSize - 1 PROVE f[k + 1] = Turn(f[k], c, m)
    <3>1. k + 1 \in 0..SndBufSize /\ k + 1 # 0 /\ (k + 1) - 1 = k
      BY <1>2
    <3>2. f[k + 1] = Turn(f[(k + 1) - 1], c, m)
      BY <2>2, <3>1
    <3>. QED
      BY <3>1, <3>2
  <2>. QED
    BY <2>3, <2>4
<1>. DEFINE F == {k \in Nat : /\ Pushed(t, f[k], u, A, B)
                              /\ f[k].snd_una < f[k].snd_nxt \/ (f[k] = t /\ (k = 0 \/ Available(t, c) = 0))}
<1>4. t.snd_nxt \in Nat
  BY DEF Live, Typed
<1>5. 0 \in F
  <2>1. SameBut(t, t, SendFields)
    BY Zenon DEF SameBut
  <2>. QED
    BY <1>3, <1>4, <2>1 DEF Pushed
<1>6. ASSUME NEW k \in 0..SndBufSize - 1, k \in F PROVE k + 1 \in F
  <2>1. PICK v, w : v = f[k] /\ w = f[k + 1]
    OBVIOUS
  <2>2. Pushed(t, v, u, A, B) /\ w = Turn(v, c, m)
    BY <1>3, <1>6, <2>1
  <2>3. Live(v, u, A, B)
    BY <2>2 DEF Pushed
  <2>4. Pushed(v, w, u, A, B) /\ (w.snd_una < w.snd_nxt \/ (w = v /\ Available(v, c) = 0))
    BY <2>2, <2>3, TurnLive
  <2>5. Pushed(t, w, u, A, B)
    <3>1. SameBut(t, w, SendFields)
      BY <2>2, <2>4, Zenon DEF Pushed, SameBut
    <3>2. v.snd_nxt \in Nat /\ w.snd_nxt \in Nat
      BY <2>3, <2>4 DEF Pushed, Live, Typed
    <3>. QED
      BY <1>4, <2>2, <2>4, <3>1, <3>2 DEF Pushed
  <2>6. w.snd_una < w.snd_nxt \/ (w = t /\ Available(t, c) = 0)
    BY <1>6, <2>1, <2>4
  <2>. QED
    BY <2>1, <2>5, <2>6
<1>7. \A k \in 0..SndBufSize : k \in F
  <2>. HIDE DEF F
  <2>. QED
    BY <1>2, <1>5, <1>6, UpTo
<1>8. PICK v : v = f[SndBufSize]
  OBVIOUS
<1>9. Pushed(t, v, u, A, B) /\ (v.snd_una < v.snd_nxt \/ (v = t /\ Available(t, c) = 0))
  BY <1>2, <1>7, <1>8
<1>10. Live(v, u, A, B)
  BY <1>9 DEF Pushed
<1>11. Flushed(v)
  <2>1. Typed(t) /\ Tiled(t) /\ v.snd_una \in Nat /\ v.snd_nxt \in Nat
    BY <1>10 DEF Live, Typed
  <2>2. CASE v.snd_una < v.snd_nxt
    BY <2>1, <2>2 DEF Flushed
  <2>3. CASE v = t /\ Available(t, c) = 0
    BY <2>1, <2>3, AvailableBound DEF Flushed
  <2>. QED
    BY <1>9, <2>2, <2>3
<1>12. q = Answered(t, v, sflags, c)
  BY <1>1, <1>8
<1>13. CASE q = v
  BY <1>9, <1>11, <1>13
<1>14. ASSUME Live(q, u, A, B), SameBut(v, q, {"out", "t_ack"}) PROVE Pushed(t, q, u, A, B) /\ Flushed(q)
  <2>1. q.snd_nxt = v.snd_nxt /\ q.snd_una = v.snd_una /\ q.snd_wnd = v.snd_wnd /\ q.sbuf = v.sbuf
    BY <1>14, Zenon DEF SameBut, Field
  <2>2. SameBut(t, q, SendFields)
    BY <1>9, <1>14, Zenon DEF Pushed, SameBut, SendFields
  <2>. QED
    BY <1>9, <1>11, <1>14, <2>1, <2>2 DEF Pushed, Flushed
<1>15. CASE q = Packet(v, v.snd_nxt, FALSE, <<>>)
  <2>1. v.snd_nxt \in Int
    BY <1>10 DEF Live, Typed
  <2>2. Live(q, u, A, B) /\ SameBut(v, q, {"out", "t_ack"})
    BY <1>10, <1>15, <2>1, PacketLive, Zenon
  <2>. QED
    BY <1>14, <2>2
<1>16. CASE q = [v EXCEPT !.t_ack = TRUE]
  <2>1. Live(q, u, A, B) /\ SameBut(v, q, {"out", "t_ack"})
    BY <1>10, <1>16, AckPending
  <2>. QED
    BY <1>14, <2>1
<1>. QED
  BY <1>12, <1>13, <1>15, <1>16, Zenon DEF Answered

-----------------------------------------------------------------------------
(* queue.  Data joins the last segment, or follows it as a new one.         *)
NewSegment(seq, k, bCtrl) == [seq |-> seq, len |-> k, xmit |-> 0, bCtrl |-> bCtrl]
LEMMA MergeTiles ==
  ASSUME NEW s, NEW una \in Nat, NEW end \in Nat, NEW nxt \in Nat, NEW k \in Nat,
         Tiles(s, una, end), SentTo(s, nxt), Entry(s, Len(s)),
         s[Len(s)].xmit = 0, s[Len(s)].seq # 0
  PROVE  /\ Joined(s, k) \in Seq(Segment) /\ Tiles(Joined(s, k), una, end + k)
         /\ SentTo(Joined(s, k), nxt)
         /\ \A x \in Int : x <= nxt /\ Uncut(s, x) => Uncut(Joined(s, k), x)
<1>1. PICK r, n : r = Joined(s, k) /\ n = Len(s)
  OBVIOUS
<1>2. s \in Seq(Segment) /\ n \in 1..Len(s) /\ n \in Nat /\ n = Len(s) /\ n > 0
  BY <1>1 DEF Entry
<1>3. \A j \in 1..n : s[j] \in Segment /\ s[j].seq \in Nat /\ s[j].len \in Nat /\ s[j].len > 0
                      /\ s[j].xmit \in Nat
  BY <1>2, ListFields
<1>4. PICK y : y = Longer(s[n], k)
  OBVIOUS
<1>5. y \in Segment /\ y.seq = s[n].seq /\ y.len = s[n].len + k /\ y.xmit = s[n].xmit
      /\ y.bCtrl = s[n].bCtrl
  BY <1>2, <1>3, <1>4, SegmentChanged
<1>6. r \in Seq(Segment) /\ Len(r) = n /\ r[n] = y /\ \A j \in 1..n : j # n => r[j] = s[j]
  <2>1. r = [s EXCEPT ![n] = y]
    BY <1>1, <1>4, Zenon DEF Joined, Longer
  <2>. QED
    BY <1>2, <1>5, <2>1, PutIndex
<1>7. \A j \in 1..n : r[j].seq = s[j].seq /\ r[j].xmit = s[j].xmit /\ r[j].bCtrl = s[j].bCtrl
  BY <1>5, <1>6
<1>8. \A j \in 1..n : j # n => EndOf(r[j]) = EndOf(s[j])
  BY <1>6
<1>9. EndOf(r[n]) = EndOf(s[n]) + k
  BY <1>2, <1>3, <1>5, <1>6 DEF EndOf
<1>10. Tiles(r, una, end + k)
  <2>1. ASSUME NEW j \in 1..Len(r) PROVE r[j].seq = IF j = 1 THEN una ELSE EndOf(r[j - 1])
    <3>1. s[j].seq = IF j = 1 THEN una ELSE EndOf(s[j - 1])
      BY <1>2, <1>6 DEF Tiles
    <3>2. j # 1 => j - 1 \in 1..n /\ j - 1 # n
      BY <1>2, <1>6
    <3>. QED
      BY <1>6, <1>7, <1>8, <3>1, <3>2
  <2>2. ASSUME NEW j \in 1..Len(r) PROVE r[j].bCtrl <=> r[j].seq = 0
    <3>1. s[j].bCtrl <=> s[j].seq = 0
      BY <1>2, <1>6 DEF Tiles
    <3>. QED
      BY <1>6, <1>7, <3>1
  <2>3. ASSUME NEW j \in 1..Len(r) PROVE r[j].seq = 0 => r[j].len = 1
    <3>1. s[j].seq = 0 => s[j].len = 1
      BY <1>2, <1>6 DEF Tiles
    <3>2. s[n].seq # 0
      BY <1>1
    <3>. QED
      BY <1>5, <1>6, <3>1, <3>2
  <2>4. ASSUME NEW i \in 1..Len(r), NEW j \in 1..Len(r), i < j PROVE EndOf(r[i]) <= r[j].seq
    <3>1. EndOf(s[i]) <= s[j].seq
      BY <1>2, <1>6, <2>4 DEF Tiles
    <3>2. i # n
      BY <1>2, <1>6, <2>4
    <3>. QED
      BY <1>6, <1>7, <1>8, <3>1, <3>2
  <2>5. end + k = IF r = <<>> THEN una ELSE EndOf(r[Len(r)])
    <3>1. r # <<>> /\ s # <<>>
      BY <1>2, <1>6
    <3>2. end = EndOf(s[n])
      BY <1>1, <3>1 DEF Tiles
    <3>. QED
      BY <1>6, <1>9, <3>1, <3>2
  <2>. QED
    BY <2>1, <2>2, <2>3, <2>4, <2>5 DEF Tiles
<1>11. ~(s[n].seq < nxt)
  BY <1>1, <1>2 DEF SentTo
<1>12. ASSUME NEW x \in Int, x <= nxt, Uncut(s, x) PROVE Uncut(r, x)
  <2>1. ASSUME NEW j \in 1..Len(r), r[j].seq < x PROVE EndOf(r[j]) <= x
    <3>1. CASE j = n
      BY <1>2, <1>3, <1>7, <1>11, <1>12, <2>1, <3>1
    <3>2. CASE j # n
      BY <1>2, <1>6, <1>12, <2>1, <3>2 DEF Uncut
    <3>. QED
      BY <3>1, <3>2
  <2>. QED
    BY <2>1 DEF Uncut
<1>13. SentTo(r, nxt)
  <2>1. Uncut(s, nxt) /\ \A j \in 1..n : s[j].xmit > 0 <=> s[j].seq < nxt
    BY <1>1 DEF SentTo
  <2>2. Uncut(r, nxt)
    BY <1>12, <2>1
  <2>. QED
    BY <1>6, <1>7, <2>1, <2>2 DEF SentTo
<1>. QED
  BY <1>1, <1>6, <1>10, <1>12, <1>13

(* A new segment.                                                           *)
LEMMA AppendTiles ==
  ASSUME NEW s, s \in Seq(Segment), NEW una \in Nat, NEW end \in Nat, NEW nxt \in Nat, nxt <= end,
         Tiles(s, una, end), SentTo(s, nxt),
         NEW y, y \in Segment, y.seq = end, y.xmit = 0, y.bCtrl <=> end = 0, end = 0 => y.len = 1
  PROVE  /\ Append(s, y) \in Seq(Segment) /\ Tiles(Append(s, y), una, end + y.len)
         /\ SentTo(Append(s, y), nxt)
         /\ \A x \in Int : x <= nxt /\ Uncut(s, x) => Uncut(Append(s, y), x)
<1>1. PICK r, n : r = Append(s, y) /\ n = Len(s)
  OBVIOUS
<1>2. /\ r \in Seq(Segment) /\ Len(r) = n + 1 /\ r[n + 1] = y /\ \A j \in 1..n : r[j] = s[j]
      /\ n \in Nat
  BY <1>1
<1>3. \A j \in 1..n : s[j].seq \in Nat /\ EndOf(s[j]) \in Nat /\ s[j].seq < EndOf(s[j])
                      /\ EndOf(s[j]) <= end
  BY <1>1, EndUncut
<1>4. y.len \in Nat /\ EndOf(y) = end + y.len
  BY SegmentFields DEF EndOf
<1>5. Tiles(r, una, end + y.len)
  <2>1. ASSUME NEW j \in 1..Len(r) PROVE r[j].seq = IF j = 1 THEN una ELSE EndOf(r[j - 1])
    <3>1. CASE j <= n
      <4>1. s[j].seq = IF j = 1 THEN una ELSE EndOf(s[j - 1])
        BY <1>1, <1>2, <3>1 DEF Tiles
      <4>2. j \in 1..n /\ (j # 1 => j - 1 \in 1..n)
        BY <1>2, <3>1
      <4>. QED
        BY <1>2, <4>1, <4>2
    <3>2. CASE j = n + 1
      <4>1. end = IF n = 0 THEN una ELSE EndOf(s[n])
        BY <1>1, <1>2 DEF Tiles
      <4>2. n # 0 => n \in 1..n
        BY <1>2
      <4>. QED
        BY <1>2, <3>2, <4>1, <4>2
    <3>. QED
      BY <1>2, <3>1, <3>2
  <2>2. ASSUME NEW j \in 1..Len(r) PROVE (r[j].bCtrl <=> r[j].seq = 0) /\ (r[j].seq = 0 => r[j].len = 1)
    <3>1. CASE j <= n
      <4>1. j \in 1..n
        BY <1>2, <3>1
      <4>2. (s[j].bCtrl <=> s[j].seq = 0) /\ (s[j].seq = 0 => s[j].len = 1)
        BY <1>1, <4>1 DEF Tiles
      <4>. QED
        BY <1>2, <4>1, <4>2
    <3>2. CASE j = n + 1
      <4>1. r[j] = y
        BY <1>2, <3>2
      <4>. QED
        BY <4>1
    <3>. QED
      BY <1>2, <3>1, <3>2
  <2>3. ASSUME NEW i \in 1..Len(r), NEW j \in 1..Len(r), i < j PROVE EndOf(r[i]) <= r[j].seq
    <3>1. i \in 1..n /\ r[i] = s[i]
      BY <1>2, <2>3
    <3>2. CASE j <= n
      <4>1. j \in 1..n /\ r[j] = s[j]
        BY <1>2, <3>2
      <4>. QED
        BY <1>1, <2>3, <3>1, <4>1 DEF Tiles
    <3>3. CASE j = n + 1
      BY <1>2, <1>3, <3>1, <3>3
    <3>. QED
      BY <1>2, <3>2, <3>3
  <2>4. end + y.len = IF r = <<>> THEN una ELSE EndOf(r[Len(r)])
    <3>1. r # <<>>
      BY <1>2
    <3>. QED
      BY <1>2, <1>4, <3>1
  <2>. QED
    BY <2>1, <2>2, <2>3, <2>4 DEF Tiles
<1>6. ASSUME NEW x \in Int, x <= nxt, Uncut(s, x) PROVE Uncut(r, x)
  <2>1. ASSUME NEW j \in 1..Len(r), r[j].seq < x PROVE EndOf(r[j]) <= x
    <3>1. CASE j = n + 1
      BY <1>2, <1>6, <2>1, <3>1
    <3>2. CASE j <= n
      <4>1. j \in 1..n /\ r[j] = s[j]
        BY <1>2, <3>2
      <4>. QED
        BY <1>1, <1>6, <2>1, <4>1 DEF Uncut
    <3>. QED
      BY <1>2, <3>1, <3>2
  <2>. QED
    BY <2>1 DEF Uncut
<1>7. SentTo(r, nxt)
  <2>1. Uncut(s, nxt) /\ \A j \in 1..n : s[j].xmit > 0 <=> s[j].seq < nxt
    BY <1>1 DEF SentTo
  <2>2. Uncut(r, nxt)
    BY <1>6, <2>1
  <2>3. ASSUME NEW j \in 1..Len(r) PROVE r[j].xmit > 0 <=> r[j].seq < nxt
    <3>1. CASE j = n + 1
      <4>1. r[j] = y
        BY <1>2, <3>1
      <4>. QED
        BY <4>1
    <3>2. CASE j <= n
      <4>1. j \in 1..n /\ r[j] = s[j]
        BY <1>2, <3>2
      <4>. QED
        BY <2>1, <4>1
    <3>. QED
      BY <1>2, <3>1, <3>2
  <2>. QED
    BY <2>2, <2>3 DEF SentTo
<1>. QED
  BY <1>1, <1>2, <1>5, <1>6, <1>7

(* queue, member by member.                                                 *)
Joins(t, bCtrl) ==
  Len(t.slist) > 0 /\ t.slist[Len(t.slist)].bCtrl = bCtrl /\ t.slist[Len(t.slist)].xmit = 0
IsQueued(t, data, bCtrl, q) ==
  /\ Unaltered(q) /\ SameBut(t, q, {"sbuf", "slist"})
  /\ q.sbuf = t.sbuf \o data
  /\ q.slist = IF Joins(t, bCtrl) THEN Joined(t.slist, Len(data))
               ELSE Append(t.slist, NewSegment(t.snd_una + Len(t.sbuf), Len(data), bCtrl))
LEMMA QueueFields ==
  ASSUME NEW t, Unaltered(t), NEW data, NEW bCtrl
  PROVE  IsQueued(t, data, bCtrl, Queue(t, data, bCtrl))
<1>1. PICK q, a, b : /\ q = Queue(t, data, bCtrl) /\ a = t.sbuf \o data
                     /\ b = IF Joins(t, bCtrl) THEN Joined(t.slist, Len(data))
                            ELSE Append(t.slist, NewSegment(t.snd_una + Len(t.sbuf), Len(data), bCtrl))
  OBVIOUS
<1>2. q = [t EXCEPT !.sbuf = a, !.slist = b]
  BY <1>1, Zenon DEF Queue, Joins, NewSegment
<1>3. Unaltered(q) /\ SameBut(t, q, {"sbuf", "slist"}) /\ q.sbuf = a /\ q.slist = b
  BY <1>2, Zenon DEF Unaltered, SameBut, Field
<1>. QED
  BY <1>1, <1>3, Zenon DEF IsQueued

(* Bytes that join a buffer.                                                *)
LEMMA BytesJoin ==
  ASSUME NEW b \in Seq(Nat), NEW d \in Seq(Nat), NEW una \in Nat,
         \A j \in 1..Len(b) : b[j] = una + j - 1,
         \A j \in 1..Len(d) : d[j] = una + Len(b) + j - 1
  PROVE  /\ b \o d \in Seq(Nat) /\ Len(b \o d) = Len(b) + Len(d)
         /\ \A j \in 1..Len(b) + Len(d) : (b \o d)[j] = una + j - 1
<1>1. PICK r, m, n : r = b \o d /\ m = Len(b) /\ n = Len(d)
  OBVIOUS
<1>2. r \in Seq(Nat) /\ m \in Nat /\ n \in Nat /\ Len(r) = m + n
      /\ \A j \in 1..m + n : r[j] = IF j <= m THEN b[j] ELSE d[j - m]
  <2>1. /\ b \o d \in Seq(Nat) /\ Len(b \o d) = Len(b) + Len(d)
        /\ \A j \in 1..Len(b) + Len(d) : (b \o d)[j] = IF j <= Len(b) THEN b[j] ELSE d[j - Len(b)]
    BY ConcatProperties, Zenon
  <2>. QED
    BY <1>1, <2>1
<1>3. ASSUME NEW j \in 1..m + n PROVE r[j] = una + j - 1
  <2>1. CASE j <= m
    <3>1. j \in 1..m /\ b[j] = una + j - 1
      BY <1>1, <1>2, <2>1
    <3>. QED
      BY <1>2, <2>1, <3>1
  <2>2. CASE ~(j <= m)
    <3>1. PICK k \in 1..n : k = j - m
      BY <1>2, <2>2
    <3>2. d[k] = una + m + k - 1
      BY <1>1, <3>1
    <3>3. r[j] = d[k]
      BY <1>2, <2>2, <3>1
    <3>. QED
      BY <1>2, <3>1, <3>2, <3>3
  <2>. QED
    BY <2>1, <2>2
<1>. QED
  BY <1>1, <1>2, <1>3

(* The object the data was queued in.                                       *)
LEMMA QueueLive ==
  ASSUME NEW t, NEW u, NEW A, NEW B, Live(t, u, A, B), NEW data, NEW bCtrl,
         data \in Seq(Nat), Len(data) > 0, Len(t.sbuf) + Len(data) <= SndBufSize,
         \A j \in 1..Len(data) : data[j] = t.snd_una + Len(t.sbuf) + j - 1,
         bCtrl \in BOOLEAN, bCtrl <=> t.snd_una + Len(t.sbuf) = 0, bCtrl => Len(data) = 1
  PROVE  /\ Live(Queue(t, data, bCtrl), u, A, B)
         /\ SameBut(t, Queue(t, data, bCtrl), {"sbuf", "slist"})
         /\ Len(Queue(t, data, bCtrl).sbuf) = Len(t.sbuf) + Len(data)
<1>1. PICK q, s, una, nxt, l, k : /\ q = Queue(t, data, bCtrl) /\ s = t.slist /\ una = t.snd_una
                                  /\ nxt = t.snd_nxt /\ l = Len(t.sbuf) /\ k = Len(data)
  OBVIOUS
<1>2. Typed(t) /\ Tiled(t) /\ Flow(t, u) /\ Unaltered(t)
  BY DEF Live, Linked, Typed
<1>3. /\ Unaltered(q) /\ SameBut(t, q, {"sbuf", "slist"}) /\ q.sbuf = t.sbuf \o data
      /\ q.slist = IF Joins(t, bCtrl) THEN Joined(s, k) ELSE Append(s, NewSegment(una + l, k, bCtrl))
  <2>1. IsQueued(t, data, bCtrl, q)
    BY <1>1, <1>2, QueueFields
  <2>. QED
    BY <1>1, <2>1, Zenon DEF IsQueued
<1>4. /\ una \in Nat /\ nxt \in Nat /\ t.snd_wnd \in Nat /\ s \in Seq(Segment) /\ l \in Nat /\ una + l \in Nat
      /\ Tiles(s, una, una + l) /\ SentTo(s, nxt) /\ una <= nxt /\ nxt <= una + l
      /\ t.sbuf \in Seq(Nat)
      /\ \A j \in 1..Len(t.sbuf) : t.sbuf[j] = t.snd_una + j - 1
  BY <1>1, <1>2, TiledFacts
<1>5. k \in Nat /\ k > 0 /\ l + k <= SndBufSize /\ una + l + k = una + (l + k)
  <2>1. k \in Nat /\ k > 0 /\ l + k <= SndBufSize
    BY <1>1
  <2>. QED
    BY <1>4, <2>1
<1>6. q.sbuf \in Seq(Nat) /\ Len(q.sbuf) = l + k /\ \A j \in 1..l + k : q.sbuf[j] = una + j - 1
  <2>1. /\ t.sbuf \o data \in Seq(Nat) /\ Len(t.sbuf \o data) = Len(t.sbuf) + Len(data)
        /\ \A j \in 1..Len(t.sbuf) + Len(data) : (t.sbuf \o data)[j] = t.snd_una + j - 1
    <3>1. t.sbuf \in Seq(Nat) /\ t.snd_una \in Nat
      BY <1>1, <1>4
    <3>. QED
      BY <1>4, <3>1, BytesJoin, Zenon
  <2>. QED
    BY <1>1, <1>3, <2>1
<1>7. /\ q.slist \in Seq(Segment) /\ Tiles(q.slist, una, una + l + k) /\ SentTo(q.slist, nxt)
      /\ \A x \in Int : x <= nxt /\ Uncut(s, x) => Uncut(q.slist, x)
  <2>1. CASE Joins(t, bCtrl)
    <3>1. Len(s) > 0 /\ s[Len(s)].bCtrl = bCtrl /\ s[Len(s)].xmit = 0
      BY <1>1, <2>1, Zenon DEF Joins
    <3>2. Entry(s, Len(s))
      BY <1>4, <3>1 DEF Entry
    <3>3. una + l > 0
      <4>1. s # <<>> /\ una + l = EndOf(s[Len(s)])
        BY <1>4, <3>1 DEF Tiles
      <4>. QED
        BY <1>4, <3>1, <4>1, ListFields DEF EndOf
    <3>4. ~s[Len(s)].bCtrl
      BY <1>1, <1>4, <3>1, <3>3
    <3>5. s[Len(s)].seq # 0
      BY <1>4, <3>1, <3>4 DEF Tiles
    <3>6. PICK end : end = una + l
      OBVIOUS
    <3>7. /\ Joined(s, k) \in Seq(Segment) /\ Tiles(Joined(s, k), una, end + k)
          /\ SentTo(Joined(s, k), nxt)
          /\ \A x \in Int : x <= nxt /\ Uncut(s, x) => Uncut(Joined(s, k), x)
      BY <1>4, <1>5, <3>1, <3>2, <3>5, <3>6, MergeTiles
    <3>. QED
      BY <1>3, <2>1, <3>6, <3>7
  <2>2. CASE ~Joins(t, bCtrl)
    <3>1. PICK y, end : y = NewSegment(una + l, k, bCtrl) /\ end = una + l
      OBVIOUS
    <3>2. y \in Segment /\ y.seq = end /\ y.xmit = 0 /\ y.len = k /\ y.bCtrl = bCtrl
      BY <1>4, <1>5, <3>1 DEF NewSegment, Segment
    <3>3. (y.bCtrl <=> end = 0) /\ (end = 0 => y.len = 1)
      BY <1>1, <3>1, <3>2
    <3>4. /\ Append(s, y) \in Seq(Segment) /\ Tiles(Append(s, y), una, end + y.len)
          /\ SentTo(Append(s, y), nxt)
          /\ \A x \in Int : x <= nxt /\ Uncut(s, x) => Uncut(Append(s, y), x)
      BY <1>4, <3>1, <3>2, <3>3, AppendTiles
    <3>. QED
      BY <1>3, <2>2, <3>1, <3>2, <3>4
  <2>. QED
    BY <2>1, <2>2
<1>8. /\ q.state = t.state /\ q.shutdown = t.shutdown /\ q.snd_una = una /\ q.snd_nxt = nxt
      /\ q.snd_wnd = t.snd_wnd /\ q.mss = t.mss /\ q.mtu_advise = t.mtu_advise
      /\ q.rto_base = t.rto_base /\ q.dup_acks = t.dup_acks /\ q.recover = t.recover
      /\ q.rcv_nxt = t.rcv_nxt /\ q.rcv_wnd = t.rcv_wnd /\ q.rlen = t.rlen /\ q.rpos = t.rpos
      /\ q.rbuf = t.rbuf /\ q.rlist = t.rlist /\ q.t_ack = t.t_ack
      /\ q.bReadEnable = t.bReadEnable /\ q.bWriteEnable = t.bWriteEnable
      /\ q.out = t.out /\ q.told = t.told
  BY <1>1, <1>3, Zenon DEF SameBut, Field
<1>9. Typed(q)
  BY <1>1, <1>2, <1>3, <1>6, <1>7, <1>8, Zenon DEF Typed
<1>10. Tiled(q)
  <2>1. t.recover <= nxt /\ (t.rto_base <=> una < nxt)
    BY <1>1, <1>2 DEF Tiled
  <2>2. Tiles(q.slist, q.snd_una, q.snd_una + Len(q.sbuf))
    BY <1>5, <1>6, <1>7, <1>8
  <2>3. q.snd_nxt <= q.snd_una + Len(q.sbuf) /\ q.snd_una <= q.snd_nxt
    BY <1>4, <1>5, <1>6, <1>8
  <2>4. SentTo(q.slist, q.snd_nxt) /\ q.recover <= q.snd_nxt /\ Len(q.sbuf) <= SndBufSize
        /\ \A j \in 1..Len(q.sbuf) : q.sbuf[j] = q.snd_una + j - 1
    BY <1>5, <1>6, <1>7, <1>8, <2>1
  <2>5. q.rto_base <=> q.snd_una < q.snd_nxt
    BY <1>8, <2>1
  <2>. QED
    BY <2>2, <2>3, <2>4, <2>5 DEF Tiled
<1>11. t.snd_nxt <= q.snd_nxt /\ q.snd_nxt <= Edge(u) /\ q.snd_una <= u.rcv_nxt
       /\ q.snd_una + q.snd_wnd <= Edge(u)
  BY <1>1, <1>2, <1>4, <1>8 DEF Flow
<1>12. Live(q, u, A, B)
  <2>1. \A x \in Int : x <= t.snd_nxt /\ Uncut(t.slist, x) => Uncut(q.slist, x)
    BY <1>1, <1>7
  <2>2. \A p \in Packets(q.out) :
          p \in Packets(t.out) \/ (Carries(q, p) /\ p.ack = t.rcv_nxt /\ p.wnd = t.rcv_wnd)
    BY <1>8
  <2>. QED
    BY <1>8, <1>9, <1>10, <1>11, <2>1, <2>2, SenderStep
<1>. QED
  BY <1>1, <1>3, <1>6, <1>12

-----------------------------------------------------------------------------
(* Acknowledgements.  The sums of the lengths, and what is left of the list *)
(* with nFree bytes acknowledged.                                           *)
Sums(s, f) == f = [i \in 0..Len(s) |-> IF i = 0 THEN 0 ELSE f[i - 1] + s[i].len]
Covered(s, f, nFree) == Max({i \in 0..Len(s) : f[i] <= nFree})
LeftOf(s, f, nFree) ==
  IF f[Covered(s, f, nFree)] = nFree THEN SubSeq(s, Covered(s, f, nFree) + 1, Len(s))
  ELSE SubSeq([s EXCEPT ![Covered(s, f, nFree) + 1].len = @ - (nFree - f[Covered(s, f, nFree)])],
              Covered(s, f, nFree) + 1, Len(s))
LEMMA UnackedSums ==
  ASSUME NEW s, NEW nFree, \E f : Sums(s, f)
  PROVE  \E f : Sums(s, f) /\ Unacked(s, nFree) = LeftOf(s, f, nFree)
<1>1. PICK f : f = CHOOSE g : Sums(s, g)
  OBVIOUS
<1>2. Sums(s, f)
  BY <1>1, Zenon
<1>3. Unacked(s, nFree) = LeftOf(s, f, nFree)
  BY <1>1, Zenon DEF Unacked, Sums, LeftOf, Covered
<1>. QED
  BY <1>2, <1>3

(* In a list that tiles the buffer the sums are the ends of the segments.   *)
LEMMA SumsAreEnds ==
  ASSUME NEW s, s \in Seq(Segment), NEW una \in Nat, NEW end \in Nat, Tiles(s, una, end)
  PROVE  /\ \E f : Sums(s, f)
         /\ \A f : Sums(s, f) => /\ f[0] = 0
                                 /\ \A i \in 1..Len(s) : f[i] = EndOf(s[i]) - una
<1>1. /\ Len(s) \in Nat
      /\ \A i \in 1..Len(s) : s[i].seq \in Nat /\ s[i].len \in Nat /\ EndOf(s[i]) = s[i].seq + s[i].len
  BY ListFields DEF EndOf
<1>2. \A i \in 1..Len(s) : s[i].seq = IF i = 1 THEN una ELSE EndOf(s[i - 1])
  BY DEF Tiles
<1>3. PICK g : g = [i \in 0..Len(s) |-> IF i = 0 THEN 0 ELSE EndOf(s[i]) - una]
  OBVIOUS
<1>4. g[0] = 0 /\ \A i \in 1..Len(s) : g[i] = EndOf(s[i]) - una
  BY <1>1, <1>3
<1>5. ASSUME NEW i \in 1..Len(s) PROVE g[i] = g[i - 1] + s[i].len
  <2>1. s[i].seq \in Nat /\ s[i].len \in Nat /\ EndOf(s[i]) = s[i].seq + s[i].len
        /\ g[i] = EndOf(s[i]) - una
    BY <1>1, <1>4
  <2>2. CASE i = 1
    <3>1. s[i].seq = una /\ g[i - 1] = 0
      BY <1>2, <1>4, <2>2
    <3>. QED
      BY <2>1, <3>1
  <2>3. CASE i # 1
    <3>1. i - 1 \in 1..Len(s)
      BY <1>1, <2>3
    <3>2. s[i].seq = EndOf(s[i - 1]) /\ g[i - 1] = EndOf(s[i - 1]) - una
      BY <1>2, <1>4, <2>3, <3>1
    <3>. QED
      BY <2>1, <3>2
  <2>. QED
    BY <2>2, <2>3
<1>6. g = [i \in 0..Len(s) |-> IF i = 0 THEN 0 ELSE g[i - 1] + s[i].len]
  <2>1. \A i \in 0..Len(s) : g[i] = IF i = 0 THEN 0 ELSE g[i - 1] + s[i].len
    BY <1>1, <1>4, <1>5
  <2>. QED
    BY <1>3, <2>1
<1>7. ASSUME NEW f, Sums(s, f)
      PROVE  f[0] = 0 /\ \A i \in 1..Len(s) : f[i] = EndOf(s[i]) - una
  <2>1. \A i \in 0..Len(s) : f[i] = IF i = 0 THEN 0 ELSE f[i - 1] + s[i].len
    <3>1. f = [i \in 0..Len(s) |-> IF i = 0 THEN 0 ELSE f[i - 1] + s[i].len]
      BY <1>7, Zenon DEF Sums
    <3>. QED
      BY <3>1, Zenon
  <2>2. f[0] = 0
    BY <1>1, <2>1
  <2>. DEFINE F == {i \in Nat : f[i] = g[i]}
  <2>3. 0 \in F
    BY <1>4, <2>2
  <2>4. ASSUME NEW i \in 0..Len(s) - 1, i \in F PROVE i + 1 \in F
    <3>1. PICK j \in 1..Len(s) : j = i + 1 /\ j - 1 = i
      BY <1>1
    <3>2. g[j] = g[j - 1] + s[j].len
      BY <1>5
    <3>3. f[j] = f[j - 1] + s[j].len
      BY <1>1, <2>1, <3>1
    <3>. QED
      BY <2>4, <3>1, <3>2, <3>3
  <2>5. \A i \in 0..Len(s) : i \in F
    <3>. HIDE DEF F
    <3>. QED
      BY <1>1, <2>3, <2>4, UpTo
  <2>6. \A i \in 1..Len(s) : f[i] = g[i]
    BY <1>1, <2>5
  <2>. QED
    BY <1>4, <2>2, <2>6
<1>8. Sums(s, g)
  BY <1>6, Zenon DEF Sums
<1>. QED
  BY <1>7, <1>8

(* A list without its first k segments.                                     *)
Dropped(s, k) == SubSeq(s, k + 1, Len(s))
LEMMA DropTiles ==
  ASSUME NEW s, s \in Seq(Segment), NEW una \in Nat, NEW end \in Nat, NEW nxt \in Nat, NEW ack \in Nat,
         Tiles(s, una, end), SentTo(s, nxt), NEW k \in 0..Len(s),
         IF k = Len(s) THEN ack = end ELSE s[k + 1].seq = ack
  PROVE  /\ Dropped(s, k) \in Seq(Segment) /\ Tiles(Dropped(s, k), ack, end)
         /\ SentTo(Dropped(s, k), nxt)
         /\ \A x \in Int : Uncut(s, x) => Uncut(Dropped(s, k), x)
<1>0. PICK r : r = Dropped(s, k)
  OBVIOUS
<1>1. Len(s) \in Nat /\ k \in Nat /\ k <= Len(s)
  OBVIOUS
<1>2. r \in Seq(Segment) /\ Len(r) = Len(s) - k /\ \A j \in 1..Len(r) : r[j] = s[k + j]
  BY <1>0, <1>1 DEF Dropped
<1>3. \A j \in 1..Len(r) : k + j \in 1..Len(s)
  BY <1>1, <1>2
<1>4. Tiles(r, ack, end)
  <2>1. ASSUME NEW j \in 1..Len(r) PROVE r[j].seq = IF j = 1 THEN ack ELSE EndOf(r[j - 1])
    <3>1. CASE j = 1
      BY <1>1, <1>2, <3>1
    <3>2. CASE j # 1
      <4>1. PICK i \in 1..Len(s) : i = k + j /\ i # 1 /\ i - 1 = k + (j - 1) /\ j - 1 \in 1..Len(r)
        BY <1>1, <1>2, <3>2
      <4>2. s[i].seq = EndOf(s[i - 1])
        BY <4>1 DEF Tiles
      <4>3. r[j] = s[i] /\ r[j - 1] = s[i - 1]
        BY <1>2, <4>1
      <4>. QED
        BY <3>2, <4>2, <4>3
    <3>. QED
      BY <3>1, <3>2
  <2>2. ASSUME NEW j \in 1..Len(r) PROVE (r[j].bCtrl <=> r[j].seq = 0) /\ (r[j].seq = 0 => r[j].len = 1)
    <3>1. PICK i \in 1..Len(s) : i = k + j
      BY <1>3
    <3>2. (s[i].bCtrl <=> s[i].seq = 0) /\ (s[i].seq = 0 => s[i].len = 1)
      BY <3>1 DEF Tiles
    <3>. QED
      BY <1>2, <3>1, <3>2
  <2>3. ASSUME NEW i \in 1..Len(r), NEW j \in 1..Len(r), i < j PROVE EndOf(r[i]) <= r[j].seq
    <3>1. PICK a \in 1..Len(s), b \in 1..Len(s) : a = k + i /\ b = k + j /\ a < b
      BY <1>1, <1>3, <2>3
    <3>2. EndOf(s[a]) <= s[b].seq
      BY <3>1 DEF Tiles
    <3>. QED
      BY <1>2, <3>1, <3>2
  <2>4. end = IF r = <<>> THEN ack ELSE EndOf(r[Len(r)])
    <3>1. CASE k = Len(s)
      BY <1>2, <3>1
    <3>2. CASE k # Len(s)
      <4>1. r # <<>> /\ s # <<>> /\ Len(r) \in 1..Len(r) /\ k + Len(r) = Len(s)
        <5>0. Len(r) \in Nat
          BY <1>2, LenProperties
        <5>1. PICK n \in Nat, l \in Nat : n = Len(r) /\ l = Len(s)
          BY <1>1, <5>0
        <5>2. n = l - k /\ k < l
          BY <1>1, <1>2, <3>2, <5>1
        <5>3. n > 0 /\ l > 0 /\ k + n = l /\ n \in 1..n
          BY <1>1, <5>2
        <5>4. r # <<>> /\ s # <<>>
          BY <5>1, <5>3
        <5>. QED
          BY <5>1, <5>3, <5>4
      <4>2. end = EndOf(s[Len(s)])
        BY <4>1 DEF Tiles
      <4>3. r[Len(r)] = s[Len(s)]
        BY <1>2, <4>1
      <4>. QED
        BY <4>1, <4>2, <4>3
    <3>. QED
      BY <3>1, <3>2
  <2>. QED
    BY <2>1, <2>2, <2>3, <2>4 DEF Tiles
<1>5. ASSUME NEW x \in Int, Uncut(s, x) PROVE Uncut(r, x)
  <2>1. ASSUME NEW j \in 1..Len(r), r[j].seq < x PROVE EndOf(r[j]) <= x
    <3>1. PICK i \in 1..Len(s) : i = k + j /\ r[j] = s[i]
      BY <1>2, <1>3
    <3>. QED
      BY <1>5, <2>1, <3>1 DEF Uncut
  <2>. QED
    BY <2>1 DEF Uncut
<1>6. SentTo(r, nxt)
  <2>1. ASSUME NEW j \in 1..Len(r) PROVE r[j].xmit > 0 <=> r[j].seq < nxt
    <3>1. PICK i \in 1..Len(s) : i = k + j /\ r[j] = s[i]
      BY <1>2, <1>3
    <3>2. s[i].xmit > 0 <=> s[i].seq < nxt
      BY <3>1 DEF SentTo
    <3>. QED
      BY <3>1, <3>2
  <2>. QED
    BY <1>5, <2>1 DEF SentTo
<1>. QED
  BY <1>0, <1>2, <1>4, <1>5, <1>6

(* The segments that are left begin at the number that is acknowledged.     *)
LEMMA UnackedTiles ==
  ASSUME NEW s, s \in Seq(Segment), NEW una \in Nat, NEW end \in Nat, NEW nxt \in Nat, NEW ack \in Nat,
         Tiles(s, una, end), SentTo(s, nxt), Uncut(s, ack), una <= ack, ack <= end
  PROVE  /\ Unacked(s, ack - una) \in Seq(Segment) /\ Tiles(Unacked(s, ack - una), ack, end)
         /\ SentTo(Unacked(s, ack - una), nxt)
         /\ \A x \in Int : Uncut(s, x) => Uncut(Unacked(s, ack - una), x)
<1>1. PICK n \in Nat : n = ack - una
  OBVIOUS
<1>2. \E f : Sums(s, f)
  BY SumsAreEnds
<1>3. PICK f : Sums(s, f) /\ Unacked(s, n) = LeftOf(s, f, n)
  BY <1>2, UnackedSums
<1>4. f[0] = 0 /\ \A i \in 1..Len(s) : f[i] = EndOf(s[i]) - una
  BY <1>3, SumsAreEnds
<1>5. /\ Len(s) \in Nat
      /\ \A i \in 1..Len(s) : s[i].seq \in Nat /\ EndOf(s[i]) \in Nat /\ s[i].seq < EndOf(s[i])
  BY ListFields DEF EndOf
<1>6. PICK S, k : S = {i \in 0..Len(s) : f[i] <= n} /\ k = Max(S)
  OBVIOUS
<1>7. S \subseteq Nat /\ 0 \in S /\ \A i \in S : i <= Len(s)
  BY <1>1, <1>4, <1>5, <1>6
<1>8. k \in S /\ \A i \in S : i <= k
  BY <1>5, <1>6, <1>7, MaxBounded
<1>9. k \in 0..Len(s) /\ f[k] <= n /\ k \in Nat
  BY <1>5, <1>6, <1>8
<1>10. f[k] = n /\ IF k = Len(s) THEN ack = end ELSE s[k + 1].seq = ack
  <2>1. CASE k = Len(s)
    <3>1. CASE k = 0
      <4>1. end = una
        <5>1. s = <<>>
          BY <2>1, <3>1, EmptySeq
        <5>. QED
          BY <5>1 DEF Tiles
      <4>. QED
        BY <1>1, <1>4, <2>1, <3>1, <4>1
    <3>2. CASE k # 0
      <4>1. k \in 1..Len(s) /\ s # <<>>
        BY <1>9, <3>2
      <4>2. end = EndOf(s[k])
        BY <2>1, <4>1 DEF Tiles
      <4>3. f[k] = end - una
        BY <1>4, <4>1, <4>2
      <4>. QED
        BY <1>1, <1>9, <2>1, <4>3
    <3>. QED
      BY <3>1, <3>2
  <2>2. CASE k # Len(s)
    <3>1. PICK j \in 1..Len(s) : j = k + 1
      BY <1>5, <1>9, <2>2
    <3>2. s[j].seq = una + f[k] /\ f[k] \in Int
      <4>1. s[j].seq = IF j = 1 THEN una ELSE EndOf(s[j - 1])
        BY DEF Tiles
      <4>2. CASE k = 0
        BY <1>4, <3>1, <4>1, <4>2
      <4>3. CASE k # 0
        <5>1. k \in 1..Len(s) /\ j # 1 /\ j - 1 = k
          BY <1>9, <3>1, <4>3
        <5>2. f[k] = EndOf(s[k]) - una /\ EndOf(s[k]) \in Nat
          BY <1>4, <1>5, <5>1
        <5>. QED
          BY <4>1, <5>1, <5>2
      <4>. QED
        BY <4>2, <4>3
    <3>3. f[j] > n
      <4>1. j \notin S /\ j \in 0..Len(s)
        BY <1>8, <1>9, <3>1
      <4>2. f[j] \in Int
        BY <1>4, <1>5
      <4>. QED
        BY <1>6, <4>1, <4>2
    <3>4. EndOf(s[j]) > ack
      BY <1>1, <1>4, <1>5, <3>3
    <3>5. ~(s[j].seq < ack)
      BY <1>5, <3>4 DEF Uncut
    <3>6. s[j].seq <= ack
      BY <1>1, <1>9, <3>2
    <3>7. s[j].seq = ack
      BY <1>5, <3>5, <3>6
    <3>8. f[k] = n
      BY <1>1, <3>2, <3>7
    <3>. QED
      BY <2>2, <3>1, <3>7, <3>8
  <2>. QED
    BY <2>1, <2>2
<1>11. PICK r : r = Unacked(s, n)
  OBVIOUS
<1>12. r = Dropped(s, k)
  <2>1. k = Covered(s, f, n)
    BY <1>6, Zenon DEF Covered
  <2>. QED
    BY <1>3, <1>10, <1>11, <2>1, Zenon DEF LeftOf, Dropped
<1>13. /\ r \in Seq(Segment) /\ Tiles(r, ack, end) /\ SentTo(r, nxt)
       /\ \A x \in Int : Uncut(s, x) => Uncut(r, x)
  BY <1>9, <1>10, <1>12, DropTiles
<1>. QED
  BY <1>1, <1>11, <1>13

-----------------------------------------------------------------------------
(* Members that say nothing about the bytes and the packets.                *)
Quiet ==
  {"state", "shutdown", "mss", "mtu_advise", "dup_acks", "rlen", "rpos", "rbuf", "t_ack",
   "bReadEnable", "bWriteEnable", "told"}
LEMMA QuietSame ==
  ASSUME NEW t, NEW q, SameBut(t, q, Quiet)
  PROVE  /\ q.snd_una = t.snd_una /\ q.snd_nxt = t.snd_nxt /\ q.snd_wnd = t.snd_wnd
         /\ q.sbuf = t.sbuf /\ q.slist = t.slist /\ q.rto_base = t.rto_base
         /\ q.recover = t.recover /\ q.rcv_nxt = t.rcv_nxt /\ q.rcv_wnd = t.rcv_wnd
         /\ q.rlist = t.rlist /\ q.out = t.out
  BY Zenon DEF SameBut, Quiet, Field

(* A change of those members.                                               *)
LEMMA QuietLive ==
  ASSUME NEW t, NEW u, NEW A, NEW B, NEW q, Live(t, u, A, B), Typed(q), SameBut(t, q, Quiet)
  PROVE  Live(q, u, A, B)
<1>1. Typed(t) /\ Tiled(t) /\ Flow(t, u)
  BY DEF Live, Linked
<1>2. /\ q.snd_una = t.snd_una /\ q.snd_nxt = t.snd_nxt /\ q.snd_wnd = t.snd_wnd
      /\ q.sbuf = t.sbuf /\ q.slist = t.slist /\ q.rto_base = t.rto_base
      /\ q.recover = t.recover /\ q.rcv_nxt = t.rcv_nxt /\ q.rcv_wnd = t.rcv_wnd
      /\ q.rlist = t.rlist /\ q.out = t.out
  BY QuietSame
<1>3. Tiled(q)
  BY <1>1, <1>2, Zenon DEF Tiled
<1>4. t.snd_nxt \in Nat
  BY <1>1 DEF Typed
<1>5. t.snd_nxt <= q.snd_nxt /\ q.snd_nxt <= Edge(u) /\ q.snd_una <= u.rcv_nxt
      /\ q.snd_una + q.snd_wnd <= Edge(u)
  BY <1>1, <1>2, <1>4 DEF Flow
<1>. QED
  BY <1>2, <1>3, <1>5, SenderStep

(* The packets of an object that keeps its numbers and its list, whatever   *)
(* becomes of its buffer.                                                   *)
LEMMA LinkedSame ==
  ASSUME NEW t, NEW u, NEW A, NEW B, NEW q, Linked(t, u, A, B),
         q.snd_una = t.snd_una, q.snd_nxt = t.snd_nxt, q.snd_wnd = t.snd_wnd, q.slist = t.slist,
         q.rcv_nxt = t.rcv_nxt, q.rcv_wnd = t.rcv_wnd, q.rlist = t.rlist, q.out = t.out
  PROVE  Linked(q, u, A, B)
<1>1. Edge(q) = Edge(t)
  BY DEF Edge
<1>2. Flow(q, u) /\ Flow(u, q)
  BY <1>1 DEF Linked, Flow
<1>3. \A p : Acks(t, u, p) => Acks(q, u, p)
  BY DEF Acks
<1>4. \A p : Carries(t, p) /\ Acks(u, t, p) => Carries(q, p) /\ Acks(u, q, p)
  BY <1>1 DEF Carries, Acks
<1>. QED
  BY <1>2, <1>3, <1>4 DEF Linked

(* closedown.                                                               *)
LEMMA ClosedownLinked ==
  ASSUME NEW t, NEW u, NEW A, NEW B, Live(t, u, A, B)
  PROVE  /\ Typed(Closedown(t)) /\ Linked(Closedown(t), u, A, B)
         /\ SameBut(t, Closedown(t), {"state", "sbuf", "told"})
         /\ Closedown(t).state = "CLOSED" /\ t.told \subseteq Closedown(t).told
<1>1. PICK q : q = Closedown(t)
  OBVIOUS
<1>2. Typed(t) /\ Linked(t, u, A, B) /\ Unaltered(t)
  BY DEF Live, Typed
<1>3. /\ Unaltered(q) /\ SameBut(t, q, {"state", "sbuf", "told"})
      /\ q.state = "CLOSED" /\ q.sbuf = <<>> /\ q.told = t.told \cup {"close"}
  BY <1>1, <1>2, Zenon DEF Closedown, Unaltered, SameBut, Field
<1>4. /\ q.shutdown = t.shutdown /\ q.snd_una = t.snd_una /\ q.snd_nxt = t.snd_nxt
      /\ q.snd_wnd = t.snd_wnd /\ q.slist = t.slist /\ q.mss = t.mss /\ q.mtu_advise = t.mtu_advise
      /\ q.rto_base = t.rto_base /\ q.dup_acks = t.dup_acks /\ q.recover = t.recover
      /\ q.rcv_nxt = t.rcv_nxt /\ q.rcv_wnd = t.rcv_wnd /\ q.rlen = t.rlen /\ q.rpos = t.rpos
      /\ q.rbuf = t.rbuf /\ q.rlist = t.rlist /\ q.t_ack = t.t_ack
      /\ q.bReadEnable = t.bReadEnable /\ q.bWriteEnable = t.bWriteEnable /\ q.out = t.out
  BY <1>3, Zenon DEF SameBut, Field
<1>5. q.sbuf \in Seq(Nat) /\ q.state \in Gone /\ q.told \subseteq {"read", "write", "close"}
  <2>1. t.told \subseteq {"read", "write", "close"}
    BY <1>2 DEF Typed
  <2>. QED
    BY <1>3, <2>1 DEF Gone
<1>6. Typed(q)
  BY <1>2, <1>3, <1>4, <1>5, Zenon DEF Typed
<1>7. Linked(q, u, A, B)
  BY <1>2, <1>4, LinkedSame
<1>. QED
  BY <1>1, <1>3, <1>6, <1>7

(* adjustMTU and OnTcpOpen.                                                 *)
LEMMA EstablishLive ==
  ASSUME NEW t, NEW u, NEW A, NEW B, Live(t, u, A, B)
  PROVE  /\ Live(Establish(t), u, A, B)
         /\ SameBut(t, Establish(t), {"state", "mss", "told"})
         /\ Establish(t).state = "ESTABLISHED" /\ t.told \subseteq Establish(t).told
         /\ "read" \in Establish(t).told /\ "write" \in Establish(t).told
<1>1. PICK q : q = Establish(t)
  OBVIOUS
<1>2. Typed(t) /\ Unaltered(t)
  BY DEF Live, Typed
<1>3. /\ Unaltered(q) /\ SameBut(t, q, {"state", "mss", "told"})
      /\ q.state = "ESTABLISHED" /\ q.mss = t.mtu_advise /\ q.told = t.told \cup {"read", "write"}
  BY <1>1, <1>2, Zenon DEF Establish, Unaltered, SameBut, Field
<1>4. /\ q.shutdown = t.shutdown /\ q.snd_una = t.snd_una /\ q.snd_nxt = t.snd_nxt
      /\ q.snd_wnd = t.snd_wnd /\ q.sbuf = t.sbuf /\ q.slist = t.slist /\ q.mtu_advise = t.mtu_advise
      /\ q.rto_base = t.rto_base /\ q.dup_acks = t.dup_acks /\ q.recover = t.recover
      /\ q.rcv_nxt = t.rcv_nxt /\ q.rcv_wnd = t.rcv_wnd /\ q.rlen = t.rlen /\ q.rpos = t.rpos
      /\ q.rbuf = t.rbuf /\ q.rlist = t.rlist /\ q.t_ack = t.t_ack
      /\ q.bReadEnable = t.bReadEnable /\ q.bWriteEnable = t.bWriteEnable /\ q.out = t.out
  BY <1>3, Zenon DEF SameBut, Field
<1>5. q.state \in {"LISTEN", "SYN_SENT", "SYN_RECEIVED", "ESTABLISHED"} \cup Gone
      /\ q.told \subseteq {"read", "write", "close"}
  <2>1. t.told \subseteq {"read", "write", "close"}
    BY <1>2 DEF Typed
  <2>. QED
    BY <1>3, <2>1
<1>6. Typed(q)
  BY <1>2, <1>3, <1>4, <1>5, Zenon DEF Typed
<1>7. SameBut(t, q, Quiet)
  BY <1>3, Zenon DEF SameBut, Quiet
<1>8. Live(q, u, A, B)
  BY <1>6, <1>7, QuietLive
<1>. QED
  BY <1>1, <1>3, <1>8

(* What an acknowledgement may do to t, and what the writer is told.        *)
Upto(t) == t.snd_una + Len(t.sbuf)
AckFields ==
  SendFields \cup {"snd_una", "snd_wnd", "sbuf", "dup_acks", "recover", "state", "told", "bWriteEnable"}
Tells(t, q) ==
  /\ t.told \subseteq q.told
  /\ "write" \notin q.told /\ q.state = "ESTABLISHED" =>
       /\ t.state = "ESTABLISHED"
       /\ t.bWriteEnable => q.bWriteEnable
       /\ t.bWriteEnable /\ Len(t.sbuf) >= kIdealRefillSize => Len(q.sbuf) >= kIdealRefillSize
AckDone(t, q, u, A, B) ==
  /\ Typed(q) /\ Linked(q, u, A, B) /\ SameBut(t, q, AckFields)
  /\ q.state \in {t.state, "CLOSED"} \/ (t.state = "SYN_RECEIVED" /\ q.state = "ESTABLISHED" /\ u.rcv_nxt > 0)
  /\ q.state # "CLOSED" => Live(q, u, A, B) /\ Upto(q) = Upto(t)
  /\ q.snd_nxt = t.snd_nxt
  /\ Tells(t, q)

(* A valuable acknowledgement: what is left of the queue.                   *)
Freed(t, seg) ==
  [t EXCEPT !.snd_wnd = seg.wnd, !.snd_una = seg.ack, !.rto_base = seg.ack # t.snd_nxt,
            !.sbuf = SubSeq(t.sbuf, seg.ack - t.snd_una + 1, Len(t.sbuf)),
            !.slist = Unacked(t.slist, seg.ack - t.snd_una)]
FreedFields == {"snd_wnd", "snd_una", "rto_base", "sbuf", "slist"}
LEMMA FreedLive ==
  ASSUME NEW t, NEW u, NEW A, NEW B, Live(t, u, A, B), NEW seg, seg \in A,
         t.snd_una < seg.ack, seg.ack <= t.snd_nxt
  PROVE  /\ Live(Freed(t, seg), u, A, B) /\ SameBut(t, Freed(t, seg), FreedFields)
         /\ Upto(Freed(t, seg)) = Upto(t) /\ Freed(t, seg).snd_una = seg.ack
         /\ u.rcv_nxt > 0
<1>1. PICK q, ack, una, nxt, s, l : /\ q = Freed(t, seg) /\ ack = seg.ack /\ una = t.snd_una
                                    /\ nxt = t.snd_nxt /\ s = t.slist /\ l = Len(t.sbuf)
  OBVIOUS
<1>2. Typed(t) /\ Tiled(t) /\ Typed(u) /\ Unaltered(t) /\ Linked(t, u, A, B)
  BY DEF Live, Typed
<1>3. /\ una \in Nat /\ nxt \in Nat /\ s \in Seq(Segment) /\ l \in Nat /\ una + l \in Nat
      /\ Tiles(s, una, una + l) /\ SentTo(s, nxt) /\ una <= nxt /\ nxt <= una + l
      /\ t.sbuf \in Seq(Nat)
      /\ \A j \in 1..l : t.sbuf[j] = una + j - 1
  BY <1>1, <1>2, TiledFacts
<1>4. ack \in Nat /\ seg.wnd \in Nat
  <2>1. seg \in Pkt
    BY DEF Live
  <2>. QED
    BY <1>1, <2>1 DEF Pkt
<1>5. ack <= u.rcv_nxt /\ ack + seg.wnd <= Edge(u) /\ Uncut(s, ack)
  BY <1>1, <1>2 DEF Linked, Acks
<1>6. una < ack /\ ack <= nxt
  BY <1>1
<1>7. PICK b, r : b = SubSeq(t.sbuf, ack - una + 1, l) /\ r = Unacked(s, ack - una)
  OBVIOUS
<1>8. /\ Unaltered(q) /\ SameBut(t, q, FreedFields)
      /\ q.snd_wnd = seg.wnd /\ q.snd_una = ack /\ q.rto_base = (ack # nxt) /\ q.sbuf = b /\ q.slist = r
  <2>1. q = [t EXCEPT !.snd_wnd = seg.wnd, !.snd_una = ack, !.rto_base = ack # nxt, !.sbuf = b, !.slist = r]
    BY <1>1, <1>7, Zenon DEF Freed
  <2>2. PICK a, d : a = seg.wnd /\ d = (ack # nxt)
    OBVIOUS
  <2>3. q = [t EXCEPT !.snd_wnd = a, !.snd_una = ack, !.rto_base = d, !.sbuf = b, !.slist = r]
    BY <2>1, <2>2, Zenon
  <2>4. /\ Unaltered(q) /\ SameBut(t, q, FreedFields)
        /\ q.snd_wnd = a /\ q.snd_una = ack /\ q.rto_base = d /\ q.sbuf = b /\ q.slist = r
    BY <1>2, <2>3, Zenon DEF Unaltered, SameBut, Field, FreedFields
  <2>. QED
    BY <2>2, <2>4, Zenon
<1>9. PICK o \in Nat : o = ack - una /\ o <= l
  BY <1>3, <1>4, <1>6
<1>10. b \in Seq(Nat) /\ Len(b) = l - o /\ \A j \in 1..l - o : b[j] = ack + j - 1
  <2>1. b = SubSeq(t.sbuf, o + 1, l) /\ l = Len(t.sbuf)
    BY <1>1, <1>7, <1>9
  <2>2. b \in Seq(Nat) /\ Len(b) = l - o /\ \A j \in 1..l - o : b[j] = t.sbuf[o + j]
    <3>1. PICK c \in Seq(Nat) : c = t.sbuf
      BY <1>3
    <3>2. b = SubSeq(c, o + 1, Len(c)) /\ l = Len(c) /\ o \in Nat /\ o <= Len(c)
      BY <1>9, <2>1, <3>1
    <3>3. b \in Seq(Nat) /\ Len(b) = Len(c) - o /\ \A j \in 1..Len(c) - o : b[j] = c[o + j]
      <4>1. \A i \in o + 1..Len(c) : c[i] \in Nat
        BY <3>2
      <4>2. /\ SubSeq(c, o + 1, Len(c)) \in Seq(Nat)
            /\ Len(SubSeq(c, o + 1, Len(c))) =
                 IF o + 1 <= Len(c) THEN Len(c) - (o + 1) + 1 ELSE 0
            /\ \A j \in 1..Len(c) - (o + 1) + 1 :
                 SubSeq(c, o + 1, Len(c))[j] = c[o + 1 + j - 1]
        BY <3>2, <4>1, SubSeqProperties
      <4>. QED
        BY <3>2, <4>2
    <3>. QED
      BY <3>1, <3>2, <3>3
  <2>3. ASSUME NEW j \in 1..l - o PROVE b[j] = ack + j - 1
    <3>1. PICK k \in 1..l : k = o + j
      BY <1>3, <1>9
    <3>2. t.sbuf[k] = una + k - 1
      BY <1>3, <3>1
    <3>. QED
      BY <1>3, <1>4, <1>9, <2>2, <3>1, <3>2
  <2>. QED
    BY <2>2, <2>3
<1>11. ack + Len(b) = una + l /\ Len(b) \in Nat /\ Len(b) <= l
  BY <1>3, <1>4, <1>9, <1>10
<1>12. /\ r \in Seq(Segment) /\ Tiles(r, ack, una + l) /\ SentTo(r, nxt)
       /\ \A x \in Int : Uncut(s, x) => Uncut(r, x)
  <2>1. PICK end : end = una + l
    OBVIOUS
  <2>2. end \in Nat /\ Tiles(s, una, end) /\ una <= ack /\ ack <= end
    BY <1>3, <1>4, <1>6, <2>1
  <2>3. /\ r \in Seq(Segment) /\ Tiles(r, ack, end) /\ SentTo(r, nxt)
        /\ \A x \in Int : Uncut(s, x) => Uncut(r, x)
    BY <1>3, <1>4, <1>5, <1>7, <2>2, UnackedTiles
  <2>. QED
    BY <2>1, <2>3
<1>13. /\ q.state = t.state /\ q.shutdown = t.shutdown /\ q.snd_nxt = nxt
       /\ q.mss = t.mss /\ q.mtu_advise = t.mtu_advise
       /\ q.dup_acks = t.dup_acks /\ q.recover = t.recover
       /\ q.rcv_nxt = t.rcv_nxt /\ q.rcv_wnd = t.rcv_wnd /\ q.rlen = t.rlen /\ q.rpos = t.rpos
       /\ q.rbuf = t.rbuf /\ q.rlist = t.rlist /\ q.t_ack = t.t_ack
       /\ q.bReadEnable = t.bReadEnable /\ q.bWriteEnable = t.bWriteEnable
       /\ q.out = t.out /\ q.told = t.told
  BY <1>1, <1>8, Zenon DEF SameBut, Field, FreedFields
<1>14. Typed(q)
  <2>1. q.rto_base \in BOOLEAN
    BY <1>8
  <2>2. q.snd_una \in Nat /\ q.snd_wnd \in Nat /\ q.sbuf \in Seq(Nat) /\ q.slist \in Seq(Segment)
    BY <1>4, <1>8, <1>10, <1>12
  <2>3. q.snd_nxt = t.snd_nxt
    BY <1>1, <1>13
  <2>. QED
    BY <1>2, <1>8, <1>13, <2>1, <2>2, <2>3, Zenon DEF Typed
<1>15. Tiled(q)
  <2>1. t.recover <= nxt /\ Len(t.sbuf) <= SndBufSize
    BY <1>1, <1>2 DEF Tiled
  <2>2. Tiles(q.slist, q.snd_una, q.snd_una + Len(q.sbuf)) /\ SentTo(q.slist, q.snd_nxt)
    BY <1>8, <1>11, <1>12, <1>13
  <2>3. q.snd_una <= q.snd_nxt /\ q.snd_nxt <= q.snd_una + Len(q.sbuf)
    BY <1>3, <1>6, <1>8, <1>11, <1>13
  <2>4. Len(q.sbuf) <= SndBufSize
    <3>1. SndBufSize \in Nat
      BY PseudoTcpAssumption
    <3>. QED
      BY <1>1, <1>3, <1>8, <1>11, <2>1, <3>1
  <2>5. q.rto_base <=> q.snd_una < q.snd_nxt
    <3>1. (ack # nxt) <=> ack < nxt
      BY <1>3, <1>4, <1>6
    <3>. QED
      BY <1>8, <1>13, <3>1
  <2>6. q.recover <= q.snd_nxt /\ \A j \in 1..Len(q.sbuf) : q.sbuf[j] = q.snd_una + j - 1
    BY <1>8, <1>10, <1>13, <2>1
  <2>. QED
    BY <2>2, <2>3, <2>4, <2>5, <2>6 DEF Tiled
<1>16. t.snd_nxt <= q.snd_nxt /\ q.snd_nxt <= Edge(u) /\ q.snd_una <= u.rcv_nxt
       /\ q.snd_una + q.snd_wnd <= Edge(u)
  <2>1. t.snd_nxt <= Edge(u)
    BY <1>2 DEF Linked, Flow
  <2>. QED
    BY <1>1, <1>3, <1>5, <1>8, <1>13, <2>1
<1>17. Live(q, u, A, B)
  <2>1. \A x \in Int : x <= t.snd_nxt /\ Uncut(t.slist, x) => Uncut(q.slist, x)
    BY <1>1, <1>8, <1>12
  <2>2. \A p \in Packets(q.out) :
          p \in Packets(t.out) \/ (Carries(q, p) /\ p.ack = t.rcv_nxt /\ p.wnd = t.rcv_wnd)
    BY <1>13
  <2>. QED
    BY <1>13, <1>14, <1>15, <1>16, <2>1, <2>2, SenderStep
<1>18. Upto(q) = Upto(t)
  BY <1>1, <1>8, <1>11 DEF Upto
<1>19. u.rcv_nxt > 0
  <2>1. u.rcv_nxt \in Nat
    BY <1>2 DEF Typed
  <2>. QED
    BY <1>3, <1>4, <1>5, <1>6, <2>1
<1>. QED
  BY <1>1, <1>8, <1>17, <1>18, <1>19

(* Members that stay when the buffer is freed and when a segment is sent.   *)
LEMMA AckSame ==
  ASSUME NEW t, NEW q, SameBut(t, q, AckFields)
  PROVE  /\ q.shutdown = t.shutdown /\ q.mtu_advise = t.mtu_advise
         /\ q.rcv_nxt = t.rcv_nxt /\ q.rcv_wnd = t.rcv_wnd /\ q.rlen = t.rlen /\ q.rpos = t.rpos
         /\ q.rbuf = t.rbuf /\ q.rlist = t.rlist /\ q.bReadEnable = t.bReadEnable
  BY Zenon DEF SameBut, Field, AckFields, SendFields

(* One member of an object replaced.                                        *)
Put(t, f, x) == [t EXCEPT ![f] = x]
LEMMA PutFields ==
  ASSUME NEW t, Unaltered(t), NEW f \in Field, NEW x
  PROVE  Unaltered(Put(t, f, x)) /\ SameBut(t, Put(t, f, x), {f}) /\ Put(t, f, x)[f] = x
<1>1. PICK q : q = Put(t, f, x)
  OBVIOUS
<1>2. t = [g \in Field |-> t[g]] /\ q = [t EXCEPT ![f] = x]
  BY <1>1, Zenon DEF Unaltered, Put
<1>3. q = [g \in Field |-> IF g = f THEN x ELSE t[g]]
  BY <1>2, Zenon
<1>4. q = [g \in Field |-> q[g]] /\ (\A g \in Field \ {f} : q[g] = t[g]) /\ q[f] = x
  BY <1>3, Zenon
<1>. QED
  BY <1>1, <1>4, Zenon DEF Unaltered, SameBut

(* dup_acks, the flag of the writer and what the owner is told may change.  *)
Fits(f, x) ==
  \/ f = "dup_acks" /\ x \in Nat
  \/ f \in {"bWriteEnable", "bReadEnable", "t_ack"} /\ x \in BOOLEAN
  \/ f = "told" /\ x \subseteq {"read", "write", "close"}
  \/ f \in {"mss", "mtu_advise"} /\ x \in Nat \ {0}
  \/ f = "state" /\ x \in {"LISTEN", "SYN_SENT", "SYN_RECEIVED", "ESTABLISHED"} \cup Gone
  \/ f = "shutdown" /\ x \in {"NONE", "GRACEFUL", "FORCEFUL"}
  \/ f = "rpos" /\ x \in Nat
LEMMA PutLive ==
  ASSUME NEW t, NEW u, NEW A, NEW B, Live(t, u, A, B), NEW f \in Quiet, NEW x, Fits(f, x)
  PROVE  /\ Live(Put(t, f, x), u, A, B) /\ SameBut(t, Put(t, f, x), {f})
         /\ Put(t, f, x)[f] = x
<1>1. PICK q : q = Put(t, f, x)
  OBVIOUS
<1>2. Typed(t) /\ Unaltered(t) /\ f \in Field
  BY DEF Live, Typed, Quiet, Field
<1>3. Unaltered(q) /\ SameBut(t, q, {f}) /\ q[f] = x
  BY <1>1, <1>2, PutFields
<1>4. \A g \in Field : g # f => q[g] = t[g]
  BY <1>3, Zenon DEF SameBut
<1>5. Typed(q)
  <2>1. CASE f = "dup_acks" /\ x \in Nat
    <3>1. q.dup_acks \in Nat /\ SameBut(t, q, {"dup_acks"})
      BY <1>3, <2>1, Zenon
    <3>. QED
      BY <1>2, <1>3, <3>1, Zenon DEF Typed, SameBut, Field
  <2>2. CASE f = "bWriteEnable" /\ x \in BOOLEAN
    <3>1. q.bWriteEnable \in BOOLEAN /\ SameBut(t, q, {"bWriteEnable"})
      BY <1>3, <2>2, Zenon
    <3>. QED
      BY <1>2, <1>3, <3>1, Zenon DEF Typed, SameBut, Field
  <2>3. CASE f = "bReadEnable" /\ x \in BOOLEAN
    <3>1. q.bReadEnable \in BOOLEAN /\ SameBut(t, q, {"bReadEnable"})
      BY <1>3, <2>3, Zenon
    <3>. QED
      BY <1>2, <1>3, <3>1, Zenon DEF Typed, SameBut, Field
  <2>4. CASE f = "t_ack" /\ x \in BOOLEAN
    <3>1. q.t_ack \in BOOLEAN /\ SameBut(t, q, {"t_ack"})
      BY <1>3, <2>4, Zenon
    <3>. QED
      BY <1>2, <1>3, <3>1, Zenon DEF Typed, SameBut, Field
  <2>5. CASE f = "told" /\ x \subseteq {"read", "write", "close"}
    <3>1. q.told \subseteq {"read", "write", "close"} /\ SameBut(t, q, {"told"})
      BY <1>3, <2>5, Zenon
    <3>. QED
      BY <1>2, <1>3, <3>1, Zenon DEF Typed, SameBut, Field
  <2>6. CASE f = "mss" /\ x \in Nat \ {0}
    <3>1. q.mss \in Nat \ {0} /\ SameBut(t, q, {"mss"})
      BY <1>3, <2>6, Zenon
    <3>. QED
      BY <1>2, <1>3, <3>1, Zenon DEF Typed, SameBut, Field
  <2>7. CASE f = "mtu_advise" /\ x \in Nat \ {0}
    <3>1. q.mtu_advise \in Nat \ {0} /\ SameBut(t, q, {"mtu_advise"})
      BY <1>3, <2>7, Zenon
    <3>. QED
      BY <1>2, <1>3, <3>1, Zenon DEF Typed, SameBut, Field
  <2>8. CASE f = "state" /\ x \in {"LISTEN", "SYN_SENT", "SYN_RECEIVED", "ESTABLISHED"} \cup Gone
    <3>1. q.state \in {"LISTEN", "SYN_SENT", "SYN_RECEIVED", "ESTABLISHED"} \cup Gone
          /\ SameBut(t, q, {"state"})
      BY <1>3, <2>8, Zenon
    <3>. QED
      BY <1>2, <1>3, <3>1, Zenon DEF Typed, SameBut, Field
  <2>9. CASE f = "shutdown" /\ x \in {"NONE", "GRACEFUL", "FORCEFUL"}
    <3>1. q.shutdown \in {"NONE", "GRACEFUL", "FORCEFUL"} /\ SameBut(t, q, {"shutdown"})
      BY <1>3, <2>9, Zenon
    <3>. QED
      BY <1>2, <1>3, <3>1, Zenon DEF Typed, SameBut, Field
  <2>10. CASE f = "rpos" /\ x \in Nat
    <3>1. q.rpos \in Nat /\ SameBut(t, q, {"rpos"})
      BY <1>3, <2>10, Zenon
    <3>. QED
      BY <1>2, <1>3, <3>1, Zenon DEF Typed, SameBut, Field
  <2>. QED
    BY <2>1, <2>2, <2>3, <2>4, <2>5, <2>6, <2>7, <2>8, <2>9, <2>10, Zenon DEF Fits
<1>6. SameBut(t, q, Quiet)
  BY <1>3, Zenon DEF SameBut
<1>7. Live(q, u, A, B)
  BY <1>5, <1>6, QuietLive
<1>. QED
  BY <1>1, <1>3, <1>7

(* Two changes in a row.                                                    *)
LEMMA SameTrans ==
  ASSUME NEW t, NEW u, NEW v, NEW F, NEW G, NEW H, SameBut(t, u, F), SameBut(u, v, G),
         F \subseteq H, G \subseteq H
  PROVE  SameBut(t, v, H)
  BY Zenon DEF SameBut

(* The first segment, when something is in flight, is sent again.           *)
LEMMA AgainLive ==
  ASSUME NEW t, NEW u, NEW A, NEW B, Live(t, u, A, B), t.snd_una < t.snd_nxt, NEW m \in Nat \ {0}
  PROVE  /\ Live(Transmit(t, 1, m), u, A, B) /\ SameBut(t, Transmit(t, 1, m), SendFields)
         /\ Transmit(t, 1, m).snd_nxt = t.snd_nxt
<1>1. Typed(t) /\ Tiled(t)
  BY DEF Live
<1>2. PICK s, una, nxt, end : s = t.slist /\ una = t.snd_una /\ nxt = t.snd_nxt
                              /\ end = t.snd_una + Len(t.sbuf)
  OBVIOUS
<1>3. /\ una \in Nat /\ nxt \in Nat /\ end \in Nat /\ s \in Seq(Segment)
      /\ Tiles(s, una, end) /\ SentTo(s, nxt) /\ una < nxt /\ nxt <= end
  BY <1>1, <1>2, TiledFacts
<1>4. s # <<>>
  BY <1>3 DEF Tiles
<1>5. 1 \in 1..Len(s)
  <2>1. Len(s) \in Nat /\ Len(s) # 0
    BY <1>3, <1>4, EmptySeq, LenProperties
  <2>. QED
    BY <2>1
<1>6. s[1].seq = una /\ (s[1].xmit > 0 <=> s[1].seq < nxt)
  BY <1>3, <1>5, Zenon DEF Tiles, SentTo
<1>7. s[1].xmit # 0
  BY <1>3, <1>6
<1>8. Entry(t.slist, 1) /\ t.slist[1].xmit # 0
  BY <1>2, <1>3, <1>5, <1>7 DEF Entry
<1>9. PICK q : q = Transmit(t, 1, m)
  OBVIOUS
<1>10. /\ Live(q, u, A, B) /\ SameBut(t, q, SendFields)
       /\ IF t.slist[1].xmit = 0
            THEN t.snd_nxt < q.snd_nxt /\ q.snd_nxt <= EndOf(t.slist[1])
            ELSE q.snd_nxt = t.snd_nxt
  BY <1>8, <1>9, TransmitLive
<1>. QED
  BY <1>8, <1>9, <1>10

(* The steps of a valuable acknowledgement: recovery, the handshake, the    *)
(* writer is told.                                                          *)
Caught(t, u, seg, m) ==
  IF ~(t.dup_acks = 3 /\ seg.ack < t.recover) THEN [u EXCEPT !.dup_acks = 0]
  ELSE IF Exhausted(u, 1) THEN Closedown(u) ELSE Transmit(u, 1, m)
Shaken(v, seg) == IF v.state = "SYN_RECEIVED" /\ ~seg.ctl THEN Establish(v) ELSE v
Refill(w) ==
  IF w.state # "CLOSED" /\ w.bWriteEnable /\ Len(w.sbuf) < kIdealRefillSize
    THEN [w EXCEPT !.bWriteEnable = FALSE, !.told = @ \cup {"write"}]
    ELSE w
LEMMA NewAckSteps ==
  ASSUME NEW t, NEW seg, NEW m
  PROVE  ProcessNewAck(t, seg, m) = Refill(Shaken(Caught(t, Freed(t, seg), seg, m), seg))
  BY Zenon DEF ProcessNewAck, Refill, Shaken, Caught, Freed

(* What the steps before the last have done.                                *)
AckMid(t, q, u, A, B) ==
  /\ Typed(q) /\ Linked(q, u, A, B) /\ SameBut(t, q, AckFields)
  /\ q.state \in {t.state, "CLOSED"}
       \/ (t.state = "SYN_RECEIVED" /\ q.state = "ESTABLISHED" /\ u.rcv_nxt > 0 /\ "write" \in q.told)
  /\ q.state # "CLOSED" => Live(q, u, A, B) /\ Upto(q) = Upto(t)
  /\ q.snd_nxt = t.snd_nxt
  /\ t.told \subseteq q.told /\ q.bWriteEnable = t.bWriteEnable
LEMMA CaughtMid ==
  ASSUME NEW t, NEW u, NEW A, NEW B, Live(t, u, A, B), NEW seg, seg \in A,
         t.snd_una < seg.ack, seg.ack <= t.snd_nxt, NEW m \in Nat \ {0}, NEW q,
         q = Caught(t, Freed(t, seg), seg, m)
  PROVE  AckMid(t, q, u, A, B) /\ q.state \in {t.state, "CLOSED"} /\ u.rcv_nxt > 0
<1>1. PICK f : f = Freed(t, seg)
  OBVIOUS
<1>2. /\ Live(f, u, A, B) /\ SameBut(t, f, FreedFields)
      /\ Upto(f) = Upto(t) /\ f.snd_una = seg.ack /\ u.rcv_nxt > 0
  BY <1>1, FreedLive
<1>3. /\ f.state = t.state /\ f.snd_nxt = t.snd_nxt /\ f.told = t.told
      /\ f.bWriteEnable = t.bWriteEnable /\ f.recover = t.recover
  BY <1>2, Zenon DEF SameBut, Field, FreedFields
<1>4. SameBut(t, f, AckFields) /\ FreedFields \subseteq AckFields
  BY <1>2, SameTrans, Zenon DEF FreedFields, AckFields, SendFields, SameBut
<1>5. CASE ~(t.dup_acks = 3 /\ seg.ack < t.recover)
  <2>1. q = Put(f, "dup_acks", 0)
    BY <1>1, <1>5, Zenon DEF Caught, Put
  <2>2. Live(q, u, A, B) /\ SameBut(f, q, {"dup_acks"})
    BY <1>2, <2>1, PutLive DEF Quiet, Fits
  <2>3. SameBut(t, q, AckFields)
    BY <1>4, <2>2, Zenon DEF SameBut, AckFields
  <2>4. /\ q.state = f.state /\ q.snd_nxt = f.snd_nxt /\ q.told = f.told
        /\ q.bWriteEnable = f.bWriteEnable /\ q.snd_una = f.snd_una /\ q.sbuf = f.sbuf
    BY <2>2, Zenon DEF SameBut, Field
  <2>5. Upto(q) = Upto(t)
    BY <1>2, <2>4, Zenon DEF Upto
  <2>6. Typed(q) /\ Linked(q, u, A, B)
    BY <2>2 DEF Live
  <2>. QED
    BY <1>2, <1>3, <2>2, <2>3, <2>4, <2>5, <2>6, Zenon DEF AckMid
<1>6. CASE (t.dup_acks = 3 /\ seg.ack < t.recover) /\ Exhausted(f, 1)
  <2>1. q = Closedown(f)
    BY <1>1, <1>6, Zenon DEF Caught
  <2>2. /\ Typed(q) /\ Linked(q, u, A, B) /\ SameBut(f, q, {"state", "sbuf", "told"})
        /\ q.state = "CLOSED" /\ f.told \subseteq q.told
    BY <1>2, <2>1, ClosedownLinked
  <2>3. SameBut(t, q, AckFields)
    BY <1>4, <2>2, Zenon DEF SameBut, AckFields
  <2>4. q.snd_nxt = f.snd_nxt /\ q.bWriteEnable = f.bWriteEnable
    BY <2>2, Zenon DEF SameBut, Field
  <2>. QED
    BY <1>2, <1>3, <2>2, <2>3, <2>4, Zenon DEF AckMid
<1>7. CASE (t.dup_acks = 3 /\ seg.ack < t.recover) /\ ~Exhausted(f, 1)
  <2>1. q = Transmit(f, 1, m)
    BY <1>1, <1>7, Zenon DEF Caught
  <2>2. f.snd_una < f.snd_nxt
    <3>1. f.recover <= f.snd_nxt /\ f.snd_nxt \in Nat /\ f.recover \in Nat /\ f.snd_una \in Nat
      BY <1>2 DEF Live, Tiled, Typed
    <3>. QED
      BY <1>2, <1>3, <1>7, <3>1
  <2>3. Live(q, u, A, B) /\ SameBut(f, q, SendFields) /\ q.snd_nxt = f.snd_nxt
    BY <1>2, <2>1, <2>2, AgainLive
  <2>4. SameBut(t, q, AckFields)
    BY <1>4, <2>3, Zenon DEF SameBut, AckFields
  <2>5. /\ q.state = f.state /\ q.told = f.told
        /\ q.bWriteEnable = f.bWriteEnable /\ q.snd_una = f.snd_una /\ q.sbuf = f.sbuf
    BY <2>3, SameSent
  <2>6. Upto(q) = Upto(t)
    BY <1>2, <2>5, Zenon DEF Upto
  <2>7. Typed(q) /\ Linked(q, u, A, B)
    BY <2>3 DEF Live
  <2>. QED
    BY <1>2, <1>3, <2>3, <2>4, <2>5, <2>6, <2>7, Zenon DEF AckMid
<1>. QED
  BY <1>5, <1>6, <1>7

(* The acknowledgement that ends the handshake of the listening end.        *)
LEMMA ShakenMid ==
  ASSUME NEW t, NEW v, NEW u, NEW A, NEW B, AckMid(t, v, u, A, B), v.state \in {t.state, "CLOSED"},
         u.rcv_nxt > 0, NEW seg, NEW q, q = Shaken(v, seg)
  PROVE  AckMid(t, q, u, A, B)
<1>1. CASE ~(v.state = "SYN_RECEIVED" /\ ~seg.ctl)
  BY <1>1, Zenon DEF Shaken
<1>2. CASE v.state = "SYN_RECEIVED" /\ ~seg.ctl
  <2>1. q = Establish(v)
    BY <1>2, Zenon DEF Shaken
  <2>2. v.state # "CLOSED" /\ v.state = t.state
    BY <1>2
  <2>3. Live(v, u, A, B) /\ Upto(v) = Upto(t) /\ SameBut(t, v, AckFields)
        /\ v.snd_nxt = t.snd_nxt /\ t.told \subseteq v.told /\ v.bWriteEnable = t.bWriteEnable
    BY <2>2, Zenon DEF AckMid
  <2>4. /\ Live(q, u, A, B) /\ SameBut(v, q, {"state", "mss", "told"})
        /\ q.state = "ESTABLISHED" /\ v.told \subseteq q.told /\ "write" \in q.told
    BY <2>1, <2>3, EstablishLive
  <2>5. SameBut(t, q, AckFields)
    BY <2>3, <2>4, Zenon DEF SameBut, AckFields, SendFields
  <2>6. /\ q.snd_nxt = v.snd_nxt /\ q.bWriteEnable = v.bWriteEnable
        /\ q.snd_una = v.snd_una /\ q.sbuf = v.sbuf
    BY <2>4, Zenon DEF SameBut, Field
  <2>7. Upto(q) = Upto(t)
    BY <2>3, <2>6, Zenon DEF Upto
  <2>8. Typed(q) /\ Linked(q, u, A, B)
    BY <2>4 DEF Live
  <2>. QED
    BY <1>2, <2>2, <2>3, <2>4, <2>5, <2>6, <2>7, <2>8, Zenon DEF AckMid
<1>. QED
  BY <1>1, <1>2

(* Sizes of the send buffer.                                                *)
LEMMA RefillSize == kIdealRefillSize \in Nat /\ kIdealRefillSize >= 1
  BY PseudoTcpAssumption, SMT DEF kIdealRefillSize

(* The writer is told when there is room again.                             *)
LEMMA RefillDone ==
  ASSUME NEW t, NEW w, NEW u, NEW A, NEW B, AckMid(t, w, u, A, B), NEW q, q = Refill(w)
  PROVE  AckDone(t, q, u, A, B)
<1>1. Typed(w) /\ Linked(w, u, A, B) /\ SameBut(t, w, AckFields) /\ w.snd_nxt = t.snd_nxt
      /\ t.told \subseteq w.told /\ w.bWriteEnable = t.bWriteEnable
      /\ (w.state # "CLOSED" => Live(w, u, A, B) /\ Upto(w) = Upto(t))
      /\ (w.state \in {t.state, "CLOSED"}
           \/ (t.state = "SYN_RECEIVED" /\ w.state = "ESTABLISHED" /\ u.rcv_nxt > 0 /\ "write" \in w.told))
  BY Zenon DEF AckMid
<1>2. CASE w.state # "CLOSED" /\ w.bWriteEnable /\ Len(w.sbuf) < kIdealRefillSize
  <2>1. PICK x : x = w.told \cup {"write"}
    OBVIOUS
  <2>2. q = [w EXCEPT !.bWriteEnable = FALSE, !.told = x]
    BY <1>2, <2>1, Zenon DEF Refill
  <2>3. PICK v : v = Put(w, "bWriteEnable", FALSE)
    OBVIOUS
  <2>4. Live(v, u, A, B) /\ SameBut(w, v, {"bWriteEnable"})
    BY <1>1, <1>2, <2>3, PutLive DEF Quiet, Fits
  <2>5. q = Put(v, "told", x)
    BY <2>2, <2>3, Zenon DEF Put
  <2>6. x \subseteq {"read", "write", "close"}
    <3>1. w.told \subseteq {"read", "write", "close"}
      BY <1>1 DEF Typed
    <3>. QED
      BY <2>1, <3>1
  <2>7. Live(q, u, A, B) /\ SameBut(v, q, {"told"}) /\ q.told = x
    <3>1. "told" \in Quiet /\ Fits("told", x)
      BY <2>6, Zenon DEF Quiet, Fits
    <3>2. /\ Live(Put(v, "told", x), u, A, B) /\ SameBut(v, Put(v, "told", x), {"told"})
          /\ Put(v, "told", x)["told"] = x
      BY <2>4, <3>1, PutLive
    <3>. QED
      BY <2>5, <3>2, Zenon
  <2>8. /\ q.state = w.state /\ q.snd_nxt = w.snd_nxt /\ q.snd_una = w.snd_una /\ q.sbuf = w.sbuf
        /\ SameBut(t, q, AckFields)
    BY <1>1, <2>4, <2>7, Zenon DEF SameBut, Field, AckFields
  <2>9. Upto(q) = Upto(t)
    BY <1>1, <1>2, <2>8, Zenon DEF Upto
  <2>10. Tells(t, q)
    BY <1>1, <2>1, <2>7, Zenon DEF Tells
  <2>11. Typed(q) /\ Linked(q, u, A, B)
    BY <2>7 DEF Live
  <2>. QED
    BY <1>1, <2>7, <2>8, <2>9, <2>10, <2>11, Zenon DEF AckDone
<1>3. CASE ~(w.state # "CLOSED" /\ w.bWriteEnable /\ Len(w.sbuf) < kIdealRefillSize)
  <2>1. q = w
    BY <1>3, Zenon DEF Refill
  <2>2. w.state # "CLOSED" /\ w.bWriteEnable => Len(w.sbuf) >= kIdealRefillSize
    <3>1. w.sbuf \in Seq(Nat)
      BY <1>1 DEF Typed
    <3>2. Len(w.sbuf) \in Nat
      BY <3>1, LenProperties
    <3>3. ~(Len(w.sbuf) < kIdealRefillSize) => Len(w.sbuf) >= kIdealRefillSize
      BY <3>2, RefillSize
    <3>. QED
      BY <1>3, <3>3, Zenon
  <2>3. "write" \notin w.told /\ w.state = "ESTABLISHED" => t.state = "ESTABLISHED"
    BY <1>1
  <2>4. Tells(t, q)
    BY <1>1, <2>1, <2>2, <2>3, Zenon DEF Tells
  <2>. QED
    BY <1>1, <2>1, <2>4, Zenon DEF AckDone
<1>. QED
  BY <1>2, <1>3

(* A valuable acknowledgement.                                              *)
LEMMA NewAckDone ==
  ASSUME NEW t, NEW u, NEW A, NEW B, Live(t, u, A, B), NEW seg, seg \in A,
         t.snd_una < seg.ack, seg.ack <= t.snd_nxt, NEW m \in Nat \ {0}
  PROVE  AckDone(t, ProcessNewAck(t, seg, m), u, A, B)
<1>1. PICK v : v = Caught(t, Freed(t, seg), seg, m)
  OBVIOUS
<1>2. AckMid(t, v, u, A, B) /\ v.state \in {t.state, "CLOSED"} /\ u.rcv_nxt > 0
  BY <1>1, CaughtMid
<1>3. PICK w : w = Shaken(v, seg)
  OBVIOUS
<1>4. AckMid(t, w, u, A, B)
  BY <1>2, <1>3, ShakenMid
<1>5. AckDone(t, Refill(w), u, A, B)
  BY <1>4, RefillDone
<1>. QED
  BY <1>1, <1>3, <1>5, NewAckSteps

(* A window that is learnt from a packet that acknowledges nothing new.     *)
LEMMA WindowLive ==
  ASSUME NEW t, NEW u, NEW A, NEW B, Live(t, u, A, B), NEW seg, seg \in A, seg.ack = t.snd_una
  PROVE  /\ Live(Put(t, "snd_wnd", seg.wnd), u, A, B)
         /\ SameBut(t, Put(t, "snd_wnd", seg.wnd), {"snd_wnd"})
<1>1. PICK q : q = Put(t, "snd_wnd", seg.wnd)
  OBVIOUS
<1>2. Typed(t) /\ Tiled(t) /\ Unaltered(t) /\ Linked(t, u, A, B)
  BY DEF Live, Typed
<1>3. Unaltered(q) /\ SameBut(t, q, {"snd_wnd"}) /\ q.snd_wnd = seg.wnd
  <2>1. "snd_wnd" \in Field
    BY DEF Field
  <2>. QED
    BY <1>1, <1>2, <2>1, PutFields
<1>4. seg.wnd \in Nat /\ seg.ack + seg.wnd <= Edge(u)
  <2>1. seg \in Pkt
    BY DEF Live
  <2>. QED
    BY <1>2, <2>1 DEF Pkt, Linked, Acks
<1>5. Typed(q)
  <2>1. q.snd_wnd \in Nat
    BY <1>3, <1>4
  <2>. QED
    BY <1>2, <1>3, <2>1, Zenon DEF Typed, SameBut, Field
<1>6. /\ q.snd_una = t.snd_una /\ q.snd_nxt = t.snd_nxt /\ q.sbuf = t.sbuf /\ q.slist = t.slist
      /\ q.rto_base = t.rto_base /\ q.recover = t.recover /\ q.rcv_nxt = t.rcv_nxt
      /\ q.rcv_wnd = t.rcv_wnd /\ q.rlist = t.rlist /\ q.out = t.out
  BY <1>3, Zenon DEF SameBut, Field
<1>7. Tiled(q)
  BY <1>2, <1>6, Zenon DEF Tiled
<1>8. t.snd_nxt <= q.snd_nxt /\ q.snd_nxt <= Edge(u) /\ q.snd_una <= u.rcv_nxt
      /\ q.snd_una + q.snd_wnd <= Edge(u)
  <2>1. t.snd_nxt <= Edge(u) /\ t.snd_una <= u.rcv_nxt
    BY <1>2 DEF Linked, Flow
  <2>2. t.snd_nxt \in Nat
    BY <1>2 DEF Typed
  <2>. QED
    BY <1>3, <1>4, <1>6, <2>1, <2>2
<1>9. Live(q, u, A, B)
  BY <1>5, <1>6, <1>7, <1>8, SenderStep
<1>. QED
  BY <1>1, <1>3, <1>9

(* What is sent in recovery is remembered.                                  *)
LEMMA RecoverLive ==
  ASSUME NEW t, NEW u, NEW A, NEW B, Live(t, u, A, B), NEW x, x = t.snd_nxt
  PROVE  Live(Put(t, "recover", x), u, A, B) /\ SameBut(t, Put(t, "recover", x), {"recover"})
<1>1. PICK q : q = Put(t, "recover", x)
  OBVIOUS
<1>2. Typed(t) /\ Tiled(t) /\ Unaltered(t) /\ Linked(t, u, A, B) /\ t.snd_nxt \in Nat
  BY DEF Live, Typed
<1>3. Unaltered(q) /\ SameBut(t, q, {"recover"}) /\ q.recover = x
  <2>1. "recover" \in Field
    BY DEF Field
  <2>. QED
    BY <1>1, <1>2, <2>1, PutFields
<1>4. Typed(q)
  <2>1. q.recover \in Nat
    BY <1>2, <1>3
  <2>. QED
    BY <1>2, <1>3, <2>1, Zenon DEF Typed, SameBut, Field
<1>5. /\ q.snd_una = t.snd_una /\ q.snd_nxt = t.snd_nxt /\ q.sbuf = t.sbuf /\ q.slist = t.slist
      /\ q.rto_base = t.rto_base /\ q.snd_wnd = t.snd_wnd /\ q.rcv_nxt = t.rcv_nxt
      /\ q.rcv_wnd = t.rcv_wnd /\ q.rlist = t.rlist /\ q.out = t.out
  BY <1>3, Zenon DEF SameBut, Field
<1>6. q.recover <= q.snd_nxt
  BY <1>2, <1>3, <1>5
<1>7. Tiled(q)
  BY <1>2, <1>5, <1>6, Zenon DEF Tiled
<1>8. Linked(q, u, A, B)
  BY <1>2, <1>5, LinkedSame
<1>9. Live(q, u, A, B)
  BY <1>4, <1>7, <1>8 DEF Live
<1>. QED
  BY <1>1, <1>3, <1>9

(* An acknowledgement that frees nothing.                                   *)
KeptFields == SendFields \cup {"snd_wnd", "dup_acks", "recover"}
LEMMA AckKept ==
  ASSUME NEW t, NEW u, NEW A, NEW B, NEW q, Live(q, u, A, B), SameBut(t, q, KeptFields),
         q.snd_nxt = t.snd_nxt
  PROVE  AckDone(t, q, u, A, B)
<1>1. /\ q.state = t.state /\ q.snd_una = t.snd_una /\ q.sbuf = t.sbuf
      /\ q.bWriteEnable = t.bWriteEnable /\ q.told = t.told
  BY Zenon DEF SameBut, Field, KeptFields, SendFields
<1>2. SameBut(t, q, AckFields)
  BY Zenon DEF SameBut, KeptFields, AckFields
<1>3. Typed(q) /\ Linked(q, u, A, B)
  BY DEF Live
<1>4. Upto(q) = Upto(t)
  BY <1>1, Zenon DEF Upto
<1>5. Tells(t, q)
  BY <1>1, Zenon DEF Tells
<1>. QED
  BY <1>1, <1>2, <1>3, <1>4, <1>5, Zenon DEF AckDone

(* The connection is given up while an acknowledgement is processed.        *)
LEMMA AckClosed ==
  ASSUME NEW t, NEW u, NEW A, NEW B, NEW v, Live(v, u, A, B), SameBut(t, v, KeptFields),
         v.snd_nxt = t.snd_nxt
  PROVE  AckDone(t, Closedown(v), u, A, B)
<1>1. PICK q : q = Closedown(v)
  OBVIOUS
<1>2. /\ Typed(q) /\ Linked(q, u, A, B) /\ SameBut(v, q, {"state", "sbuf", "told"})
      /\ q.state = "CLOSED" /\ v.told \subseteq q.told
  BY <1>1, ClosedownLinked
<1>3. SameBut(t, q, AckFields)
  BY <1>2, Zenon DEF SameBut, AckFields, KeptFields
<1>4. q.snd_nxt = v.snd_nxt
  BY <1>2, Zenon DEF SameBut, Field
<1>5. v.told = t.told
  BY Zenon DEF SameBut, Field, KeptFields, SendFields
<1>6. Tells(t, q)
  <2>1. q.state # "ESTABLISHED"
    BY <1>2
  <2>. QED
    BY <1>2, <1>5, <2>1, Zenon DEF Tells
<1>. QED
  BY <1>1, <1>2, <1>3, <1>4, <1>6, Zenon DEF AckDone

(* A repeated acknowledgement.                                              *)
DupAcked(t, u, seg, m) ==
  IF seg.data # <<>> THEN u
  ELSE IF t.snd_una = t.snd_nxt THEN Put(u, "dup_acks", 0)
  ELSE IF t.dup_acks + 1 # 3 THEN Put(u, "dup_acks", Min({t.dup_acks + 1, 3}))
  ELSE IF Exhausted(u, 1) THEN Closedown(u)
  ELSE Put(Put(Transmit(u, 1, m), "dup_acks", 3), "recover", t.snd_nxt)
LEMMA DupAckSteps ==
  ASSUME NEW t, NEW seg, NEW m
  PROVE  ProcessDupAck(t, seg, m) = DupAcked(t, Put(t, "snd_wnd", seg.wnd), seg, m)
<1>1. PICK u : u = Put(t, "snd_wnd", seg.wnd)
  OBVIOUS
<1>2. PICK x, y, p : x = Min({t.dup_acks + 1, 3}) /\ y = t.snd_nxt /\ p = Transmit(u, 1, m)
  OBVIOUS
<1>3. ProcessDupAck(t, seg, m) =
        IF seg.data # <<>> THEN u
        ELSE IF t.snd_una = t.snd_nxt THEN [u EXCEPT !.dup_acks = 0]
        ELSE IF t.dup_acks + 1 # 3 THEN [u EXCEPT !.dup_acks = x]
        ELSE IF Exhausted(u, 1) THEN Closedown(u)
        ELSE [p EXCEPT !.dup_acks = 3, !.recover = y]
  BY <1>1, <1>2, Zenon DEF ProcessDupAck, Put
<1>. QED
  BY <1>1, <1>2, <1>3, Zenon DEF DupAcked, Put

(* It opens a closed window; the third starts recovery.                     *)
LEMMA DupAckDone ==
  ASSUME NEW t, NEW u, NEW A, NEW B, Live(t, u, A, B), NEW seg, seg \in A, seg.ack = t.snd_una,
         NEW m \in Nat \ {0}
  PROVE  AckDone(t, ProcessDupAck(t, seg, m), u, A, B)
<1>1. PICK v, q : v = Put(t, "snd_wnd", seg.wnd) /\ q = DupAcked(t, v, seg, m)
  OBVIOUS
<1>2. Live(v, u, A, B) /\ SameBut(t, v, {"snd_wnd"})
  BY <1>1, WindowLive
<1>3. /\ v.snd_nxt = t.snd_nxt /\ v.snd_una = t.snd_una /\ v.dup_acks = t.dup_acks
      /\ SameBut(t, v, KeptFields)
  BY <1>2, Zenon DEF SameBut, Field, KeptFields
<1>4. "dup_acks" \in Quiet
  BY DEF Quiet
<1>5. t.snd_una \in Nat /\ t.snd_nxt \in Nat /\ t.dup_acks \in Nat /\ t.snd_una <= t.snd_nxt
  BY DEF Live, Typed, Tiled
<1>6. ASSUME NEW x \in Nat PROVE AckDone(t, Put(v, "dup_acks", x), u, A, B)
  <2>1. PICK w : w = Put(v, "dup_acks", x)
    OBVIOUS
  <2>2. Fits("dup_acks", x)
    BY <1>6, Zenon DEF Fits
  <2>3. Live(w, u, A, B) /\ SameBut(v, w, {"dup_acks"})
    BY <1>2, <1>4, <2>1, <2>2, PutLive
  <2>4. SameBut(t, w, KeptFields) /\ w.snd_nxt = t.snd_nxt
    BY <1>3, <2>3, Zenon DEF SameBut, Field, KeptFields
  <2>. QED
    BY <2>1, <2>3, <2>4, AckKept
<1>7. CASE seg.data # <<>>
  <2>1. q = v
    BY <1>1, <1>7, Zenon DEF DupAcked
  <2>2. AckDone(t, v, u, A, B)
    BY <1>2, <1>3, AckKept
  <2>. QED
    BY <1>1, <2>1, <2>2, DupAckSteps
<1>8. CASE seg.data = <<>> /\ t.snd_una = t.snd_nxt
  <2>1. q = Put(v, "dup_acks", 0)
    BY <1>1, <1>8, Zenon DEF DupAcked
  <2>2. AckDone(t, Put(v, "dup_acks", 0), u, A, B)
    BY <1>6
  <2>. QED
    BY <1>1, <2>1, <2>2, DupAckSteps
<1>9. CASE seg.data = <<>> /\ t.snd_una # t.snd_nxt /\ t.dup_acks + 1 # 3
  <2>1. PICK x : x = Min({t.dup_acks + 1, 3})
    OBVIOUS
  <2>2. x \in Nat
    BY <1>5, <2>1, MinOfTwo
  <2>3. q = Put(v, "dup_acks", x)
    BY <1>1, <1>9, <2>1, Zenon DEF DupAcked
  <2>4. AckDone(t, Put(v, "dup_acks", x), u, A, B)
    BY <1>6, <2>2
  <2>. QED
    BY <1>1, <2>3, <2>4, DupAckSteps
<1>10. CASE seg.data = <<>> /\ t.snd_una # t.snd_nxt /\ t.dup_acks + 1 = 3 /\ Exhausted(v, 1)
  <2>1. q = Closedown(v)
    BY <1>1, <1>10, Zenon DEF DupAcked
  <2>2. AckDone(t, Closedown(v), u, A, B)
    BY <1>2, <1>3, AckClosed
  <2>. QED
    BY <1>1, <2>1, <2>2, DupAckSteps
<1>11. CASE seg.data = <<>> /\ t.snd_una # t.snd_nxt /\ t.dup_acks + 1 = 3 /\ ~Exhausted(v, 1)
  <2>1. PICK p, w, y : p = Transmit(v, 1, m) /\ w = Put(p, "dup_acks", 3) /\ y = t.snd_nxt
    OBVIOUS
  <2>2. q = Put(w, "recover", y)
    BY <1>1, <1>11, <2>1, Zenon DEF DupAcked
  <2>3. v.snd_una < v.snd_nxt
    BY <1>3, <1>5, <1>11
  <2>4. Live(p, u, A, B) /\ SameBut(v, p, SendFields) /\ p.snd_nxt = v.snd_nxt
    BY <1>2, <2>1, <2>3, AgainLive
  <2>5. Fits("dup_acks", 3)
    <3>1. 3 \in Nat
      OBVIOUS
    <3>. QED
      BY <3>1, Zenon DEF Fits
  <2>6. Live(w, u, A, B) /\ SameBut(p, w, {"dup_acks"})
    BY <1>4, <2>1, <2>4, <2>5, PutLive
  <2>7. w.snd_nxt = t.snd_nxt
    BY <1>3, <2>4, <2>6, Zenon DEF SameBut, Field
  <2>8. Live(q, u, A, B) /\ SameBut(w, q, {"recover"})
    BY <2>1, <2>2, <2>6, <2>7, RecoverLive
  <2>9. SameBut(t, q, KeptFields) /\ q.snd_nxt = t.snd_nxt
    <3>1. SameBut(t, p, KeptFields)
      BY <1>3, <2>4, Zenon DEF SameBut, KeptFields
    <3>2. SameBut(t, w, KeptFields)
      BY <2>6, <3>1, Zenon DEF SameBut, KeptFields
    <3>. QED
      BY <2>7, <2>8, <3>2, Zenon DEF SameBut, Field, KeptFields
  <2>10. AckDone(t, q, u, A, B)
    BY <2>8, <2>9, AckKept
  <2>. QED
    BY <1>1, <2>10, DupAckSteps
<1>. QED
  BY <1>7, <1>8, <1>9, <1>10, <1>11

(* The acknowledgement of a packet.                                         *)
LEMMA ProcessAckDone ==
  ASSUME NEW t, NEW u, NEW A, NEW B, Live(t, u, A, B), NEW seg, seg \in A, NEW m \in Nat \ {0}
  PROVE  AckDone(t, ProcessAck(t, seg, m), u, A, B)
<1>1. CASE seg.ack > t.snd_una /\ seg.ack <= t.snd_nxt
  <2>1. t.snd_una < seg.ack
    BY <1>1
  <2>2. AckDone(t, ProcessNewAck(t, seg, m), u, A, B)
    BY <1>1, <2>1, NewAckDone
  <2>. QED
    BY <1>1, <2>2, Zenon DEF ProcessAck
<1>2. CASE ~(seg.ack > t.snd_una /\ seg.ack <= t.snd_nxt) /\ seg.ack = t.snd_una
  <2>1. AckDone(t, ProcessDupAck(t, seg, m), u, A, B)
    BY <1>2, DupAckDone
  <2>. QED
    BY <1>2, <2>1, Zenon DEF ProcessAck
<1>3. CASE ~(seg.ack > t.snd_una /\ seg.ack <= t.snd_nxt) /\ seg.ack # t.snd_una
  <2>1. ProcessAck(t, seg, m) = t
    BY <1>3, Zenon DEF ProcessAck
  <2>2. SameBut(t, t, KeptFields)
    BY Zenon DEF SameBut
  <2>3. AckDone(t, t, u, A, B)
    BY <2>2, AckKept
  <2>. QED
    BY <2>1, <2>3
<1>. QED
  BY <1>1, <1>2, <1>3

-----------------------------------------------------------------------------
(* Receiving.  t gets more of what u sent, or opens its window.             *)
LEMMA ReceiverStep ==
  ASSUME NEW t, NEW u, NEW A, NEW B, NEW q, Live(t, u, A, B), Typed(q),
         q.snd_una = t.snd_una, q.snd_nxt = t.snd_nxt, q.snd_wnd = t.snd_wnd, q.sbuf = t.sbuf,
         q.slist = t.slist, q.rto_base = t.rto_base, q.recover = t.recover, q.out = t.out,
         t.rcv_nxt <= q.rcv_nxt, q.rcv_nxt <= u.snd_nxt, Edge(t) <= Edge(q),
         Uncut(u.slist, q.rcv_nxt),
         \A s \in q.rlist : s[1] + s[2] <= u.snd_nxt /\ Uncut(u.slist, s[1] + s[2])
  PROVE  Live(q, u, A, B)
<1>1. Typed(t) /\ Typed(u) /\ A \subseteq Pkt /\ B \subseteq Pkt /\ Tiled(t) /\ Linked(t, u, A, B)
  BY DEF Live
<1>2. Tiled(q)
  BY <1>1, Zenon DEF Tiled
<1>3. /\ t.rcv_nxt \in Nat /\ q.rcv_nxt \in Nat /\ Edge(t) \in Nat /\ Edge(q) \in Nat
      /\ u.snd_una \in Nat /\ u.snd_nxt \in Nat /\ u.snd_wnd \in Nat
  BY <1>1, EdgeNat DEF Typed
<1>4. Flow(q, u)
  BY <1>1, Zenon DEF Linked, Flow
<1>5. Flow(u, q)
  <2>1. /\ u.snd_una <= t.rcv_nxt /\ u.snd_una + u.snd_wnd <= Edge(t) /\ u.snd_nxt <= Edge(t)
    BY <1>1 DEF Linked, Flow
  <2>2. u.snd_una <= q.rcv_nxt /\ u.snd_una + u.snd_wnd <= Edge(q) /\ u.snd_nxt <= Edge(q)
    BY <1>3, <2>1
  <2>. QED
    BY <2>2, Zenon DEF Flow
<1>6. \A p \in A : Acks(q, u, p)
  BY <1>1, Zenon DEF Linked, Acks
<1>7. \A p \in B \cup Packets(q.out) : Carries(q, p) /\ Acks(u, q, p)
  <2>. SUFFICES ASSUME NEW p \in B \cup Packets(q.out) PROVE Carries(q, p) /\ Acks(u, q, p)
    OBVIOUS
  <2>1. Carries(t, p) /\ Acks(u, t, p)
    BY <1>1, Zenon DEF Linked
  <2>2. p \in Pkt
    <3>1. q.out \in Seq(Pkt)
      BY DEF Typed
    <3>2. Packets(q.out) \subseteq Pkt
      BY <3>1 DEF Packets
    <3>. QED
      BY <1>1, <3>2
  <2>3. p.ack \in Nat /\ p.wnd \in Nat
    BY <2>2 DEF Pkt
  <2>4. p.ack <= t.rcv_nxt /\ p.ack + p.wnd <= Edge(t) /\ Uncut(u.slist, p.ack)
    BY <2>1 DEF Acks
  <2>5. p.ack <= q.rcv_nxt /\ p.ack + p.wnd <= Edge(q)
    BY <1>3, <2>3, <2>4
  <2>6. Carries(q, p)
    BY <2>1, Zenon DEF Carries
  <2>. QED
    BY <2>4, <2>5, <2>6 DEF Acks
<1>. QED
  BY <1>1, <1>2, <1>4, <1>5, <1>6, <1>7 DEF Live, Linked

(* The buffer of an object whose buffer is left alone.                      *)
BufferFields == {"rpos", "rlen", "rcv_wnd", "rcv_nxt", "rlist", "rbuf", "shutdown"}
LEMMA BufferedSame ==
  ASSUME NEW t, NEW q, NEW g, Buffered(t, g),
         q.rpos = t.rpos, q.rlen = t.rlen, q.rcv_wnd = t.rcv_wnd, q.rcv_nxt = t.rcv_nxt,
         q.rlist = t.rlist, q.rbuf = t.rbuf, q.shutdown = t.shutdown
  PROVE  Buffered(q, g)
  BY Zenon DEF Buffered, At, getReceiveBufferSpace

(* The queue reaches to what was written.                                   *)
Sized(t, w) == Upto(t) = IF t.state = "LISTEN" THEN 0 ELSE w + 1

(* The connect code is queued.                                              *)
Connecting(t, x) == Queue(Put(t, "state", x), <<Junk>>, TRUE)
LEMMA ConnectQueued ==
  ASSUME NEW t, NEW u, NEW A, NEW B, Live(t, u, A, B), NEW w, w = 0, Sized(t, w), t.state = "LISTEN",
         NEW x \in {"SYN_SENT", "SYN_RECEIVED"},
         NEW q, q = Connecting(t, x)
  PROVE  /\ Live(q, u, A, B) /\ SameBut(t, q, {"state", "sbuf", "slist"})
         /\ q.state = x /\ Sized(q, w)
<1>1. PICK v : v = Put(t, "state", x)
  OBVIOUS
<1>2. q = Queue(v, <<Junk>>, TRUE)
  BY <1>1, Zenon DEF Connecting
<1>3. "state" \in Quiet /\ Fits("state", x)
  BY Zenon DEF Quiet, Fits
<1>4. Live(v, u, A, B) /\ SameBut(t, v, {"state"}) /\ v.state = x
  BY <1>1, <1>3, PutLive
<1>5. v.snd_una = t.snd_una /\ v.sbuf = t.sbuf
  BY <1>4, Zenon DEF SameBut, Field
<1>6. Upto(t) = 0
  BY DEF Sized
<1>7. v.snd_una \in Nat /\ Len(v.sbuf) \in Nat
  <2>1. v.snd_una \in Nat /\ v.sbuf \in Seq(Nat)
    BY <1>4 DEF Live, Typed
  <2>. QED
    BY <2>1, LenProperties
<1>8. v.snd_una = 0 /\ Len(v.sbuf) = 0
  BY <1>5, <1>6, <1>7 DEF Upto
<1>9. PICK d : d = <<Junk>>
  OBVIOUS
<1>10. d \in Seq(Nat) /\ Len(d) = 1 /\ d[1] = 0
  BY <1>9 DEF Junk
<1>11. \A j \in 1..Len(d) : d[j] = v.snd_una + Len(v.sbuf) + j - 1
  BY <1>8, <1>10
<1>12. Len(v.sbuf) + Len(d) <= SndBufSize
  BY <1>8, <1>10, PseudoTcpAssumption
<1>13. PICK b : b = TRUE
  OBVIOUS
<1>14. /\ Live(q, u, A, B) /\ SameBut(v, q, {"sbuf", "slist"})
       /\ Len(q.sbuf) = Len(v.sbuf) + Len(d)
  <2>1. Len(d) > 0 /\ b \in BOOLEAN /\ (b => Len(d) = 1)
    BY <1>10, <1>13
  <2>2. b <=> v.snd_una + Len(v.sbuf) = 0
    BY <1>8, <1>13
  <2>3. q = Queue(v, d, b)
    BY <1>2, <1>9, <1>13
  <2>4. /\ Live(Queue(v, d, b), u, A, B)
        /\ SameBut(v, Queue(v, d, b), {"sbuf", "slist"})
        /\ Len(Queue(v, d, b).sbuf) = Len(v.sbuf) + Len(d)
    <3>1. Live(v, u, A, B)
      BY <1>4
    <3>2. d \in Seq(Nat)
      BY <1>10
    <3>. QED
      BY <1>11, <1>12, <2>1, <2>2, <3>1, <3>2, QueueLive, SMTT(30)
  <2>. QED
    BY <2>3, <2>4, Zenon
<1>15. q.state = x /\ q.snd_una = v.snd_una /\ SameBut(t, q, {"state", "sbuf", "slist"})
  BY <1>4, <1>5, <1>14, Zenon DEF SameBut, Field
<1>16. Upto(q) = w + 1
  BY <1>8, <1>10, <1>14, <1>15 DEF Upto
<1>17. q.state # "LISTEN"
  BY <1>15
<1>18. Sized(q, w)
  BY <1>16, <1>17, Zenon DEF Sized
<1>. QED
  BY <1>14, <1>15, <1>18

(* What the control data of a packet does.  Only the end that connected or  *)
(* listens is moved on.                                                     *)
CtlFields == {"state", "sbuf", "slist", "mss", "told"}
CtlDone(t, q, u, w, A, B) ==
  /\ Live(q, u, A, B) /\ SameBut(t, q, CtlFields)
  /\ Sized(q, w)
  /\ t.told \subseteq q.told
  /\ IF q.state = t.state THEN q = t
     ELSE \/ (t.state = "LISTEN" /\ q.state = "SYN_RECEIVED")
          \/ (t.state = "SYN_SENT" /\ q.state = "ESTABLISHED" /\ {"read", "write"} \subseteq q.told)
LEMMA ControlDone ==
  ASSUME NEW t, NEW u, NEW A, NEW B, Live(t, u, A, B), NEW w, Sized(t, w), t.state = "LISTEN" => w = 0,
         NEW seg
  PROVE  /\ CtlDone(t, ProcessControl(t, seg), u, w, A, B)
         /\ ProcessControl(t, seg).state # t.state => seg.ctl
<1>1. PICK q : q = ProcessControl(t, seg)
  OBVIOUS
<1>2. CASE ~seg.ctl \/ ~(t.state \in {"LISTEN", "SYN_SENT"})
  <2>1. q = t
    BY <1>1, <1>2, Zenon DEF ProcessControl
  <2>2. SameBut(t, t, CtlFields)
    BY Zenon DEF SameBut
  <2>. QED
    BY <1>1, <2>1, <2>2, Zenon DEF CtlDone
<1>3. CASE seg.ctl /\ t.state = "LISTEN"
  <2>1. q = Connecting(t, "SYN_RECEIVED")
    <3>1. t.state # "SYN_SENT"
      BY <1>3
    <3>. QED
      BY <1>1, <1>3, <3>1, Zenon DEF ProcessControl, Put, Connecting
  <2>2. /\ Live(q, u, A, B) /\ SameBut(t, q, {"state", "sbuf", "slist"})
        /\ q.state = "SYN_RECEIVED" /\ Sized(q, w)
    <3>1. w = 0
      BY <1>3
    <3>. QED
      BY <1>3, <2>1, <3>1, ConnectQueued
  <2>3. q.told = t.told /\ SameBut(t, q, CtlFields)
    BY <2>2, Zenon DEF SameBut, Field, CtlFields
  <2>4. q.state # t.state
    BY <1>3, <2>2
  <2>. QED
    BY <1>1, <1>3, <2>2, <2>3, <2>4, Zenon DEF CtlDone
<1>4. CASE seg.ctl /\ t.state = "SYN_SENT"
  <2>1. q = Establish(t)
    <3>1. t.state # "LISTEN"
      BY <1>4
    <3>. QED
      BY <1>1, <1>4, <3>1, Zenon DEF ProcessControl
  <2>2. /\ Live(q, u, A, B)
        /\ SameBut(t, q, {"state", "mss", "told"})
        /\ q.state = "ESTABLISHED" /\ t.told \subseteq q.told
        /\ "read" \in q.told /\ "write" \in q.told
    BY <2>1, EstablishLive
  <2>3. q.snd_una = t.snd_una /\ q.sbuf = t.sbuf /\ SameBut(t, q, CtlFields)
    BY <2>2, Zenon DEF SameBut, Field, CtlFields
  <2>4. q.state # t.state /\ q.state # "LISTEN" /\ t.state # "LISTEN"
    BY <1>4, <2>2
  <2>5. Sized(q, w)
    BY <2>3, <2>4, Zenon DEF Sized, Upto
  <2>. QED
    BY <1>1, <1>4, <2>2, <2>3, <2>4, <2>5, Zenon DEF CtlDone
<1>. QED
  BY <1>2, <1>3, <1>4

(* The saved segments: where one ends, one turn of the loop that joins them *)
(* to the data in order, and the function the loop defines.                 *)
Past(s) == s[1] + s[2]
Join(rl, r) == Max({r} \cup {s[1] + s[2] : s \in {x \in rl : x[1] <= r}})
Joinings(rl, from, n, f) == f = [k \in 0..n |-> IF k = 0 THEN from ELSE Join(rl, f[k - 1])]
LEMMA JoiningsExist ==
  ASSUME NEW rl, NEW from, NEW N \in Nat
  PROVE  \E f : Joinings(rl, from, N, f)
<1>. DEFINE F == {n \in Nat : \E f : Joinings(rl, from, n, f)}
<1>1. 0 \in F
  <2>1. PICK f : f = [k \in 0..0 |-> from]
    OBVIOUS
  <2>2. f = [k \in 0..0 |-> IF k = 0 THEN from ELSE Join(rl, f[k - 1])]
    BY <2>1
  <2>. QED
    BY <2>2 DEF Joinings
<1>2. ASSUME NEW n \in 0..N - 1, n \in F PROVE n + 1 \in F
  <2>1. PICK f : f = [k \in 0..n |-> IF k = 0 THEN from ELSE Join(rl, f[k - 1])]
    BY <1>2 DEF Joinings
  <2>2. PICK g : g = [k \in 0..n + 1 |-> IF k <= n THEN f[k] ELSE Join(rl, f[n])]
    OBVIOUS
  <2>3. ASSUME NEW k \in 0..n + 1 PROVE g[k] = IF k = 0 THEN from ELSE Join(rl, g[k - 1])
    <3>1. CASE k = 0
      BY <2>1, <2>2, <3>1
    <3>2. CASE k # 0 /\ k <= n
      <4>1. k \in 0..n /\ k - 1 \in 0..n + 1 /\ k - 1 <= n
        BY <3>2
      <4>2. g[k] = f[k] /\ g[k - 1] = f[k - 1]
        BY <2>2, <4>1
      <4>3. f[k] = Join(rl, f[k - 1])
        BY <2>1, <3>2, <4>1
      <4>. QED
        BY <3>2, <4>2, <4>3
    <3>3. CASE k = n + 1
      <4>1. n \in 0..n + 1 /\ k - 1 = n /\ ~(k <= n) /\ k # 0
        BY <3>3
      <4>2. g[k] = Join(rl, f[n]) /\ g[n] = f[n]
        BY <2>2, <4>1
      <4>. QED
        BY <4>1, <4>2
    <3>. QED
      BY <3>1, <3>2, <3>3
  <2>4. g = [k \in 0..n + 1 |-> IF k = 0 THEN from ELSE Join(rl, g[k - 1])]
    BY <2>2, <2>3
  <2>5. Joinings(rl, from, n + 1, g)
    BY <2>4 DEF Joinings
  <2>. QED
    BY <2>5
<1>3. \A n \in 0..N : n \in F
  <2>. HIDE DEF F
  <2>. QED
    BY <1>1, <1>2, UpTo
<1>. QED
  BY <1>3

(* Where it ends up is the value of the function after as many turns as     *)
(* there are segments.                                                      *)
LEMMA RecoveredJoins ==
  ASSUME NEW rl, IsFiniteSet(rl), NEW from
  PROVE  \E f, n : /\ n \in Nat /\ Joinings(rl, from, n, f)
                   /\ Recovered(rl, from) = f[n]
<1>1. PICK n : n = Cardinality(rl)
  OBVIOUS
<1>2. n \in Nat
  BY <1>1, FS_CardinalityType
<1>3. \E f : Joinings(rl, from, n, f)
  BY <1>2, JoiningsExist
<1>4. PICK f : f = CHOOSE g : Joinings(rl, from, n, g)
  OBVIOUS
<1>5. Joinings(rl, from, n, f)
  BY <1>3, <1>4, Zenon
<1>6. Recovered(rl, from) = f[n]
  BY <1>1, <1>3, <1>4, Zenon DEF Recovered, Joinings, Join
<1>. QED
  BY <1>2, <1>5, <1>6

(* r is where the data in order ends: all from "from" on is in a segment.   *)
Reached(rl, from, M, r) ==
  /\ r \in Nat /\ from <= r /\ r <= M
  /\ r = from \/ \E s \in rl : r = Past(s)
  /\ \A x \in from .. r - 1 : \E s \in rl : s[1] <= x /\ x < Past(s)
LEMMA JoinReached ==
  ASSUME NEW rl, NEW from \in Nat, NEW M \in Nat, NEW r, Reached(rl, from, M, r),
         \A s \in rl : s[1] \in Nat /\ Past(s) \in Nat /\ Past(s) <= M
  PROVE  Reached(rl, from, M, Join(rl, r))
<1>1. r \in Nat /\ from <= r /\ r <= M
  BY DEF Reached
<1>2. PICK S, q : S = {r} \cup {s[1] + s[2] : s \in {x \in rl : x[1] <= r}} /\ q = Max(S)
  OBVIOUS
<1>3. \A y \in S : y = r \/ \E s \in rl : s[1] <= r /\ y = Past(s)
  BY <1>2, Zenon DEF Past
<1>4. r \in S
  BY <1>2
<1>5. S \subseteq Nat /\ S # {} /\ \A y \in S : y <= M
  BY <1>1, <1>3, <1>4
<1>6. q \in S /\ r <= q
  BY <1>2, <1>4, <1>5, MaxBounded
<1>7. q \in Nat /\ q <= M /\ from <= q
  BY <1>1, <1>5, <1>6
<1>8. q = from \/ \E s \in rl : q = Past(s)
  BY <1>3, <1>6 DEF Reached
<1>9. ASSUME NEW x \in from .. q - 1 PROVE \E s \in rl : s[1] <= x /\ x < Past(s)
  <2>1. CASE x < r
    <3>1. x \in from .. r - 1
      BY <1>1, <1>7, <1>9, <2>1
    <3>. QED
      BY <3>1 DEF Reached
  <2>2. CASE ~(x < r)
    <3>1. q # r
      BY <1>1, <1>7, <1>9, <2>2
    <3>2. PICK s \in rl : s[1] <= r /\ q = Past(s)
      BY <1>3, <1>6, <3>1
    <3>3. s[1] \in Nat
      OBVIOUS
    <3>4. s[1] <= x /\ x < Past(s)
      BY <1>1, <1>7, <1>9, <2>2, <3>2, <3>3
    <3>. QED
      BY <3>4
  <2>. QED
    BY <2>1, <2>2
<1>10. Reached(rl, from, M, q)
  BY <1>7, <1>8, <1>9 DEF Reached
<1>. QED
  BY <1>2, <1>10, Zenon DEF Join

(* The segments that are joined reach from one to the next.                 *)
LEMMA RecoveredReached ==
  ASSUME NEW rl, IsFiniteSet(rl), NEW from \in Nat, NEW M \in Nat, from <= M,
         \A s \in rl : s[1] \in Nat /\ Past(s) \in Nat /\ Past(s) <= M
  PROVE  Reached(rl, from, M, Recovered(rl, from))
<1>1. PICK f, n : n \in Nat /\ Joinings(rl, from, n, f) /\ Recovered(rl, from) = f[n]
  BY RecoveredJoins
<1>2. f = [k \in 0..n |-> IF k = 0 THEN from ELSE Join(rl, f[k - 1])]
  BY <1>1 DEF Joinings
<1>. DEFINE F == {k \in 0..n : Reached(rl, from, M, f[k])}
<1>3. 0 \in F
  <2>1. f[0] = from
    BY <1>1, <1>2
  <2>2. Reached(rl, from, M, from)
    BY DEF Reached
  <2>. QED
    BY <1>1, <2>1, <2>2
<1>4. ASSUME NEW k \in 0..n - 1, k \in F PROVE k + 1 \in F
  <2>1. k + 1 \in 0..n /\ k + 1 # 0 /\ (k + 1) - 1 = k
    BY <1>1
  <2>2. f[k + 1] = Join(rl, f[k])
    BY <1>2, <2>1
  <2>3. Reached(rl, from, M, f[k])
    BY <1>4
  <2>4. Reached(rl, from, M, Join(rl, f[k]))
    BY <2>3, JoinReached
  <2>. QED
    BY <2>1, <2>2, <2>4
<1>5. n \in F
  <2>1. \A k \in 0..n : k \in F
    <3>. HIDE DEF F
    <3>. QED
      BY <1>1, <1>3, <1>4, UpTo
  <2>2. n \in 0..n
    BY <1>1
  <2>. QED
    BY <2>1, <2>2
<1>. QED
  BY <1>1, <1>5

(* A part of a sequence.                                                    *)
LEMMA PartOf ==
  ASSUME NEW c \in Seq(Nat), NEW o \in Nat, NEW n \in Nat, o + n <= Len(c)
  PROVE  /\ SubSeq(c, o + 1, o + n) \in Seq(Nat) /\ Len(SubSeq(c, o + 1, o + n)) = n
         /\ \A j \in 1..n : SubSeq(c, o + 1, o + n)[j] = c[o + j]
  OBVIOUS

(* The part of a segment that is new: d, from "first" on.  All of it fits,  *)
(* since the sender has honoured the window.                                *)
Fitted(t, u, seg, first, d) ==
  /\ first \in Nat /\ t.rcv_nxt <= first /\ d \in Seq(Nat) /\ Len(d) \in Nat
  /\ Len(d) # 0 =>
       /\ first + Len(d) <= u.snd_nxt /\ Uncut(u.slist, first + Len(d))
       /\ \A j \in 1..Len(d) : d[j] = first + j - 1
       /\ seg.ctl => t.rcv_nxt = 0 /\ first = 0 /\ Len(d) = 1
       /\ ~seg.ctl => first + Len(d) > 1
  /\ Len(d) = 0 /\ seg.ctl => t.rcv_nxt > 0
LEMMA FittingIs ==
  ASSUME NEW t, NEW u, Typed(t), Typed(u), u.snd_nxt <= Edge(t),
         t.rcv_wnd <= getReceiveBufferSpace(t), NEW seg, seg \in Pkt, Carries(u, seg)
  PROVE  Fitted(t, u, seg, Fitting(t, seg).seq, Fitting(t, seg).data)
<1>1. PICK seq, data, nxt, room, k : /\ seq = seg.seq /\ data = seg.data /\ nxt = t.rcv_nxt
                                     /\ room = t.rcv_nxt + getReceiveBufferSpace(t)
                                     /\ k = Len(data)
  OBVIOUS
<1>2. seq \in Int /\ data \in Seq(Nat) /\ k \in Nat
  <2>1. seq \in Int /\ data \in Seq(Nat)
    BY <1>1 DEF Pkt
  <2>. QED
    BY <1>1, <2>1, LenProperties
<1>3. nxt \in Nat /\ room \in Int /\ u.snd_nxt \in Nat /\ u.snd_nxt <= room
  <2>1. t.rcv_nxt \in Nat /\ t.rcv_wnd \in Nat /\ t.rlen \in Nat /\ t.rpos \in Nat /\ u.snd_nxt \in Nat
    BY DEF Typed
  <2>2. RcvBufSize \in Nat
    BY PseudoTcpAssumption
  <2>. QED
    BY <1>1, <2>1, <2>2, SMTT(30) DEF Edge, getReceiveBufferSpace
<1>4. PICK first, end, d : /\ first = (IF seq < nxt THEN nxt ELSE seq)
                           /\ end = Min({seq + k, room})
                           /\ d = IF first < end THEN SubSeq(data, first - seq + 1, end - seq) ELSE <<>>
  OBVIOUS
<1>5. Fitting(t, seg) = [seq |-> first, data |-> d]
  BY <1>1, <1>4, Zenon DEF Fitting
<1>6. first \in Nat /\ nxt <= first /\ seq <= first
  BY <1>2, <1>3, <1>4
<1>7. end \in Int /\ (k = 0 => end <= seq)
  BY <1>2, <1>3, <1>4, MinOfTwo
<1>8. k # 0 => /\ data # <<>> /\ 0 <= seq /\ seq + k <= u.snd_nxt /\ Uncut(u.slist, seq + k)
               /\ \A j \in 1..k : data[j] = seq + j - 1
               /\ (seg.ctl <=> seq = 0)
  <2>1. k # 0 => data # <<>>
    BY <1>1, <1>2, EmptySeq
  <2>. QED
    BY <1>1, <2>1, Zenon DEF Carries
<1>9. seg.ctl => k = 1
  BY <1>1 DEF Carries
<1>10. k # 0 => end = seq + k
  BY <1>2, <1>3, <1>4, <1>8, MinOfTwo
<1>11. CASE ~(first < end)
  <2>1. d = <<>> /\ d \in Seq(Nat) /\ Len(d) = 0
    BY <1>4, <1>11
  <2>2. seg.ctl => nxt > 0
    <3>1. seg.ctl => k = 1 /\ seq = 0 /\ end = 1
      BY <1>8, <1>9, <1>10
    <3>. QED
      BY <1>2, <1>3, <1>4, <1>11, <3>1
  <2>3. Fitted(t, u, seg, first, d)
    BY <1>1, <1>6, <2>1, <2>2 DEF Fitted
  <2>. QED
    BY <1>5, <2>3
<1>12. CASE first < end
  <2>1. k # 0 /\ end = seq + k
    BY <1>2, <1>6, <1>7, <1>10, <1>12
  <2>2. PICK o, n : o \in Nat /\ n \in Nat /\ o = first - seq /\ n = end - first /\ o + n = k /\ n # 0
    BY <1>2, <1>6, <1>12, <2>1
  <2>3. d = SubSeq(data, o + 1, o + n)
    <3>1. end - seq = o + n
      BY <1>2, <1>6, <2>1, <2>2
    <3>. QED
      BY <1>4, <1>12, <2>2, <3>1
  <2>4. d \in Seq(Nat) /\ Len(d) = n /\ \A j \in 1..n : d[j] = data[o + j]
    <3>1. o + n <= Len(data)
      BY <1>1, <1>2, <2>2
    <3>2. data \in Seq(Nat) /\ o \in Nat /\ n \in Nat
      BY <1>2, <2>2
    <3>3. /\ SubSeq(data, o + 1, o + n) \in Seq(Nat) /\ Len(SubSeq(data, o + 1, o + n)) = n
          /\ \A j \in 1..n : SubSeq(data, o + 1, o + n)[j] = data[o + j]
      BY <3>1, <3>2, PartOf
    <3>. QED
      BY <2>3, <3>3
  <2>5. ASSUME NEW j \in 1..n PROVE d[j] = first + j - 1
    <3>1. o + j \in 1..k
      BY <1>2, <2>2
    <3>2. data[o + j] = seq + (o + j) - 1
      BY <1>8, <2>1, <3>1
    <3>. QED
      BY <1>2, <1>6, <2>2, <2>4, <3>2
  <2>6. first + n = seq + k
    BY <1>2, <1>6, <2>1, <2>2
  <2>7. first + n <= u.snd_nxt /\ Uncut(u.slist, first + n)
    BY <1>8, <2>1, <2>6
  <2>8. seg.ctl => nxt = 0 /\ first = 0 /\ n = 1
    <3>1. seg.ctl => k = 1 /\ seq = 0 /\ end = 1
      BY <1>8, <1>9, <1>10
    <3>. QED
      BY <1>3, <1>6, <1>12, <2>2, <3>1
  <2>9. ~seg.ctl => first + n > 1
    <3>1. ~seg.ctl => seq # 0 /\ 0 <= seq
      BY <1>8, <2>1
    <3>. QED
      BY <1>2, <2>1, <2>6, <3>1
  <2>10. Fitted(t, u, seg, first, d)
    BY <1>1, <1>6, <2>2, <2>4, <2>5, <2>7, <2>8, <2>9 DEF Fitted
  <2>. QED
    BY <1>5, <2>10
<1>. QED
  BY <1>11, <1>12

(* The receive buffer.  Byte x is where it belongs.                         *)
Holds(t, x) == t.rbuf[At(t, x)] = x
Shifted(b, n) ==
  [i \in 1..RcvBufSize |-> IF i + n <= RcvBufSize THEN b[i + n] ELSE b[i]]
Placed(b, l, off, d) ==
  [i \in 1..RcvBufSize |-> IF i - l - off \in 1..Len(d) THEN d[i - l - off] ELSE b[i]]

(* What Typed says of the receiver.                                         *)
LEMMA ReceiverTypes ==
  ASSUME NEW t, Typed(t)
  PROVE  /\ t.rcv_nxt \in Nat /\ t.rcv_wnd \in Nat /\ t.rlen \in Nat /\ t.rpos \in Nat
         /\ t.rbuf \in [1..RcvBufSize -> Nat] /\ RcvBufSize \in Nat \ {0}
         /\ t.rlist \subseteq Nat \X (Nat \ {0}) /\ IsFiniteSet(t.rlist)
         /\ \A s \in t.rlist : s[1] \in Nat /\ s[2] \in Nat \ {0} /\ Past(s) \in Nat /\ s[1] < Past(s)
<1>1. RcvBufSize \in Nat \ {0}
  BY PseudoTcpAssumption
<1>2. t.rlist \subseteq Nat \X (Nat \ {0})
  BY DEF Typed
<1>3. \A s \in t.rlist : s[1] \in Nat /\ s[2] \in Nat \ {0} /\ Past(s) \in Nat /\ s[1] < Past(s)
  BY <1>2 DEF Past
<1>. QED
  BY <1>1, <1>2, <1>3 DEF Typed

(* The buffer after the data that was read is dropped from its front.       *)
LEMMA ShiftedBytes ==
  ASSUME NEW b \in [1..RcvBufSize -> Nat], NEW n \in Nat, RcvBufSize \in Nat
  PROVE  /\ Shifted(b, n) \in [1..RcvBufSize -> Nat]
         /\ \A i \in 1..RcvBufSize : i + n <= RcvBufSize => Shifted(b, n)[i] = b[i + n]
  BY DEF Shifted

(* The buffer after d is copied behind its first l + off bytes.             *)
IsPlaced(c, b, l, off, d) ==
  /\ c \in [1..RcvBufSize -> Nat]
  /\ \A i \in 1..RcvBufSize : c[i] = IF i - l - off \in 1..Len(d) THEN d[i - l - off] ELSE b[i]
LEMMA PlacedBytes ==
  ASSUME NEW b, b \in [1..RcvBufSize -> Nat], NEW l, l \in Nat, NEW off, off \in Nat,
         RcvBufSize \in Nat, NEW d, d \in Seq(Nat)
  PROVE  IsPlaced(Placed(b, l, off, d), b, l, off, d)
<1>1. \A i \in 1..RcvBufSize : i - l - off \in 1..Len(d) => d[i - l - off] \in Nat
  OBVIOUS
<1>. QED
  BY <1>1 DEF Placed, IsPlaced

(* consolidateReceiveBufferSpace, member by member.                         *)
LEMMA ConsolidateFields ==
  ASSUME NEW t, Unaltered(t)
  PROVE  LET q == consolidateReceiveBufferSpace(t) IN
         /\ Unaltered(q) /\ SameBut(t, q, {"rbuf", "rlen", "rpos"})
         /\ q.rbuf = Shifted(t.rbuf, t.rpos) /\ q.rlen = t.rlen - t.rpos /\ q.rpos = 0
<1>1. PICK q : q = consolidateReceiveBufferSpace(t)
  OBVIOUS
<1>2. PICK b, l : b = Shifted(t.rbuf, t.rpos) /\ l = t.rlen - t.rpos
  OBVIOUS
<1>3. q = [t EXCEPT !.rbuf = b, !.rlen = l, !.rpos = 0]
  BY <1>1, <1>2, Zenon DEF consolidateReceiveBufferSpace, Shifted
<1>4. /\ Unaltered(q) /\ SameBut(t, q, {"rbuf", "rlen", "rpos"})
      /\ q.rbuf = b /\ q.rlen = l /\ q.rpos = 0
  BY <1>3, Zenon DEF Unaltered, SameBut, Field
<1>. QED
  BY <1>1, <1>2, <1>4

(* It keeps what has not been read and what was saved.                      *)
LEMMA ConsolidateBuffered ==
  ASSUME NEW t, NEW g, Typed(t), g \in Seq(Nat), Buffered(t, g), t.shutdown = "NONE",
         NEW q, q = consolidateReceiveBufferSpace(t)
  PROVE  /\ Typed(q) /\ SameBut(t, q, {"rbuf", "rlen", "rpos"}) /\ Buffered(q, g)
         /\ q.rlen = t.rlen - t.rpos /\ q.rpos = 0
<1>1. /\ Unaltered(q) /\ SameBut(t, q, {"rbuf", "rlen", "rpos"})
      /\ q.rbuf = Shifted(t.rbuf, t.rpos) /\ q.rlen = t.rlen - t.rpos /\ q.rpos = 0
  BY ConsolidateFields DEF Typed
<1>2. q.rcv_nxt = t.rcv_nxt /\ q.rcv_wnd = t.rcv_wnd /\ q.rlist = t.rlist /\ q.shutdown = t.shutdown
  BY <1>1, Zenon DEF SameBut, Field
<1>3. PICK len, pos, nxt, b, c : /\ len = t.rlen /\ pos = t.rpos /\ nxt = t.rcv_nxt
                                 /\ b = t.rbuf /\ c = Shifted(b, pos)
  OBVIOUS
<1>4. /\ len \in Nat /\ pos \in Nat /\ nxt \in Nat /\ b \in [1..RcvBufSize -> Nat]
      /\ RcvBufSize \in Nat
      /\ \A s \in t.rlist : s[1] \in Nat /\ s[2] \in Nat \ {0} /\ Past(s) \in Nat /\ s[1] < Past(s)
  BY <1>3, ReceiverTypes
<1>5. /\ c \in [1..RcvBufSize -> Nat]
      /\ \A i \in 1..RcvBufSize : i + pos <= RcvBufSize => c[i] = b[i + pos]
  BY <1>3, <1>4, ShiftedBytes
<1>6. pos <= len /\ len <= RcvBufSize
  BY <1>3 DEF Buffered
<1>7. Typed(q)
  <2>1. q.rbuf \in [1..RcvBufSize -> Nat] /\ q.rlen \in Nat /\ q.rpos \in Nat
    BY <1>1, <1>3, <1>4, <1>5, <1>6
  <2>. QED
    BY <1>1, <2>1, Zenon DEF Typed, SameBut, Field
<1>8. getReceiveBufferSpace(q) = getReceiveBufferSpace(t)
  BY <1>1, <1>3, <1>4 DEF getReceiveBufferSpace
<1>9. PICK l : l = Len(g) /\ l \in Nat
  BY LenProperties
<1>10. l + q.rlen - q.rpos = l + t.rlen - t.rpos
  BY <1>1, <1>3, <1>4, <1>9
<1>11. ASSUME NEW i \in q.rpos + 1 .. q.rlen PROVE q.rbuf[i] = q.rcv_nxt - q.rlen + i - 1
  <2>1. i \in 1..RcvBufSize /\ i + pos <= RcvBufSize /\ i + pos \in pos + 1 .. len
    BY <1>1, <1>3, <1>4, <1>6, <1>11, SMTT(30)
  <2>2. c[i] = b[i + pos]
    BY <1>5, <2>1
  <2>3. b[i + pos] = nxt - len + (i + pos) - 1
    <3>1. \A k \in pos + 1 .. len : b[k] = nxt - len + k - 1
      BY <1>3 DEF Buffered
    <3>. QED
      BY <2>1, <3>1
  <2>4. nxt - len + (i + pos) - 1 = nxt - (len - pos) + i - 1
    BY <1>4, <2>1
  <2>5. q.rbuf = c /\ q.rcv_nxt = nxt /\ q.rlen = len - pos
    BY <1>1, <1>2, <1>3
  <2>. QED
    BY <2>2, <2>3, <2>4, <2>5
<1>12. ASSUME NEW s \in q.rlist
       PROVE  /\ s[1] > q.rcv_nxt
              /\ q.rlen - q.rcv_nxt + s[1] + s[2] <= RcvBufSize
              /\ \A x \in s[1] .. s[1] + s[2] - 1 : q.rbuf[At(q, x)] = x
  <2>1. /\ s[1] > nxt /\ len - nxt + s[1] + s[2] <= RcvBufSize
        /\ \A x \in s[1] .. s[1] + s[2] - 1 : b[At(t, x)] = x
    BY <1>2, <1>3, <1>12 DEF Buffered
  <2>2. s[1] \in Nat /\ s[2] \in Nat
    BY <1>2, <1>4, <1>12
  <2>3. q.rlen = len - pos /\ q.rcv_nxt = nxt
    BY <1>1, <1>2, <1>3
  <2>4. q.rlen - q.rcv_nxt + s[1] + s[2] <= RcvBufSize
    BY <1>4, <2>1, <2>2, <2>3
  <2>5. ASSUME NEW x \in s[1] .. s[1] + s[2] - 1 PROVE q.rbuf[At(q, x)] = x
    <3>1. PICK i, k : i = At(q, x) /\ k = At(t, x)
      OBVIOUS
    <3>2. i = len - pos - nxt + x + 1 /\ k = len - nxt + x + 1
      BY <1>3, <2>3, <3>1 DEF At
    <3>3. i \in 1..RcvBufSize /\ i + pos = k /\ k <= RcvBufSize
      BY <1>4, <1>6, <2>1, <2>2, <2>5, <3>2, SMTT(30)
    <3>4. c[i] = b[k] /\ b[k] = x
      BY <1>5, <2>1, <2>5, <3>1, <3>3
    <3>. QED
      BY <1>1, <1>3, <3>1, <3>4
  <2>. QED
    BY <1>2, <1>3, <2>1, <2>4, <2>5
<1>13. Buffered(q, g)
  <2>1. q.rpos <= q.rlen /\ q.rlen <= RcvBufSize
    BY <1>1, <1>3, <1>4, <1>6
  <2>2. q.rcv_wnd <= getReceiveBufferSpace(q)
    BY <1>2, <1>8 DEF Buffered
  <2>3. \A i \in 1..Len(g) : g[i] = i
    BY DEF Buffered
  <2>4. Len(g) + t.rlen - t.rpos = IF q.rcv_nxt = 0 THEN 0 ELSE q.rcv_nxt - 1
    BY <1>2 DEF Buffered
  <2>5. /\ Len(g) + q.rlen - q.rpos = IF q.rcv_nxt = 0 THEN 0 ELSE q.rcv_nxt - 1
        /\ Len(g) + q.rlen - q.rpos <= IF q.rcv_nxt = 0 THEN 0 ELSE q.rcv_nxt - 1
    BY <1>2, <1>3, <1>4, <1>9, <1>10, <2>4
  <2>6. q.rcv_nxt = 0 => q.rlist = {}
    BY <1>2 DEF Buffered
  <2>. QED
    BY <1>11, <1>12, <2>1, <2>2, <2>3, <2>5, <2>6, Zenon DEF Buffered
<1>. QED
  BY <1>1, <1>7, <1>13

(* There is room for the data behind what is in the buffer.                 *)
Moved(t, n, off) ==
  IF getReceiveBufferConsecutiveSpace(t) < n + off THEN consolidateReceiveBufferSpace(t) ELSE t
LEMMA MovedBuffered ==
  ASSUME NEW t, NEW g, Typed(t), g \in Seq(Nat), Buffered(t, g), t.shutdown = "NONE",
         NEW n \in Nat, NEW off \in Nat, t.rcv_nxt + off + n <= Edge(t),
         NEW q, q = Moved(t, n, off)
  PROVE  /\ Typed(q) /\ SameBut(t, q, {"rbuf", "rlen", "rpos"}) /\ Buffered(q, g)
         /\ q.rlen + off + n <= RcvBufSize
<1>1. /\ t.rcv_nxt \in Nat /\ t.rcv_wnd \in Nat /\ t.rlen \in Nat /\ t.rpos \in Nat
      /\ RcvBufSize \in Nat
  BY ReceiverTypes
<1>2. CASE getReceiveBufferConsecutiveSpace(t) < n + off
  <2>1. q = consolidateReceiveBufferSpace(t)
    BY <1>2, Zenon DEF Moved
  <2>2. /\ Typed(q) /\ SameBut(t, q, {"rbuf", "rlen", "rpos"}) /\ Buffered(q, g)
        /\ q.rlen = t.rlen - t.rpos /\ q.rpos = 0
    BY <2>1, ConsolidateBuffered
  <2>3. t.rcv_wnd <= getReceiveBufferSpace(t)
    BY DEF Buffered
  <2>4. q.rlen + off + n <= RcvBufSize
    BY <1>1, <2>2, <2>3, SMTT(30) DEF getReceiveBufferSpace, Edge
  <2>. QED
    BY <2>2, <2>4
<1>3. CASE ~(getReceiveBufferConsecutiveSpace(t) < n + off)
  <2>1. q = t
    BY <1>3, Zenon DEF Moved
  <2>2. SameBut(t, t, {"rbuf", "rlen", "rpos"})
    BY Zenon DEF SameBut
  <2>3. q.rlen + off + n <= RcvBufSize
    BY <1>1, <1>3, <2>1 DEF getReceiveBufferConsecutiveSpace
  <2>. QED
    BY <2>1, <2>2, <2>3
<1>. QED
  BY <1>2, <1>3

(* The bytes from "first" on are copied to their place; what was there is   *)
(* there still.                                                             *)
Counts(d, first) == \A j \in 1..Len(d) : d[j] = first + j - 1
LEMMA FilledBuffered ==
  ASSUME NEW t, NEW g, Typed(t), Buffered(t, g), t.shutdown = "NONE",
         NEW first \in Nat, NEW off \in Nat, first = t.rcv_nxt + off, NEW d, d \in Seq(Nat),
         Counts(d, first), NEW q, q = Put(t, "rbuf", Placed(t.rbuf, t.rlen, off, d))
  PROVE  /\ Typed(q) /\ SameBut(t, q, {"rbuf"}) /\ Buffered(q, g)
         /\ \A x \in first .. first + Len(d) - 1 : At(t, x) <= RcvBufSize => Holds(q, x)
<1>1. PICK len, nxt, b, c, n : /\ len = t.rlen /\ nxt = t.rcv_nxt /\ b = t.rbuf
                               /\ c = Placed(b, len, off, d) /\ n = Len(d)
  OBVIOUS
<1>2. /\ len \in Nat /\ nxt \in Nat /\ b \in [1..RcvBufSize -> Nat] /\ RcvBufSize \in Nat /\ n \in Nat
      /\ \A s \in t.rlist : s[1] \in Nat /\ s[2] \in Nat \ {0} /\ Past(s) \in Nat /\ s[1] < Past(s)
  BY <1>1, ReceiverTypes, LenProperties
<1>n. first \in Nat /\ off \in Nat /\ first = nxt + off /\ nxt \in Nat /\ len \in Nat /\ n \in Nat
  BY <1>1, <1>2
<1>3. /\ c \in [1..RcvBufSize -> Nat]
      /\ \A i \in 1..RcvBufSize : c[i] = IF i - len - off \in 1..n THEN d[i - len - off] ELSE b[i]
  <2>1. IsPlaced(c, b, len, off, d)
    BY <1>1, <1>2, PlacedBytes, Zenon
  <2>. QED
    BY <1>1, <2>1, Zenon DEF IsPlaced
<1>4. Unaltered(q) /\ SameBut(t, q, {"rbuf"}) /\ q.rbuf = c
  <2>1. "rbuf" \in Field /\ Unaltered(t)
    BY DEF Field, Typed
  <2>2. q = Put(t, "rbuf", c)
    BY <1>1
  <2>3. /\ Unaltered(Put(t, "rbuf", c)) /\ SameBut(t, Put(t, "rbuf", c), {"rbuf"})
        /\ Put(t, "rbuf", c)["rbuf"] = c
    BY <2>1, PutFields
  <2>. QED
    BY <2>2, <2>3, Zenon
<1>5. Typed(q)
  <2>1. q.rbuf \in [1..RcvBufSize -> Nat]
    BY <1>3, <1>4
  <2>. QED
    BY <1>4, <2>1, Zenon DEF Typed, SameBut, Field
<1>6. /\ q.rpos = t.rpos /\ q.rlen = t.rlen /\ q.rcv_wnd = t.rcv_wnd /\ q.rcv_nxt = t.rcv_nxt
      /\ q.rlist = t.rlist /\ q.shutdown = t.shutdown
  BY <1>4, Zenon DEF SameBut, Field
<1>7. ASSUME NEW i \in 1..RcvBufSize, NEW x \in Int, i = len - nxt + x + 1,
             b[i] = x \/ x \in first .. first + n - 1
      PROVE  c[i] = x
  <2>1. PICK j \in Int : j = i - len - off
    BY <1>2, <1>7
  <2>2. j = x + 1 - first
    BY <1>n, <1>7, <2>1
  <2>3. CASE j \in 1..n
    <3>1. c[i] = d[j]
      BY <1>3, <1>7, <2>1, <2>3
    <3>2. d[j] = first + j - 1
      BY <1>1, <2>3 DEF Counts
    <3>. QED
      BY <1>n, <1>7, <2>2, <3>1, <3>2
  <2>4. CASE j \notin 1..n
    <3>1. c[i] = b[i]
      BY <1>3, <1>7, <2>1, <2>4
    <3>2. x \notin first .. first + n - 1
      BY <1>n, <1>7, <2>2, <2>4, SMTT(30)
    <3>. QED
      BY <1>7, <3>1, <3>2
  <2>. QED
    BY <2>3, <2>4
<1>8. \A x : At(q, x) = len - nxt + x + 1 /\ At(t, x) = len - nxt + x + 1
  BY <1>1, <1>6, Zenon DEF At
<1>9. ASSUME NEW i \in t.rpos + 1 .. t.rlen PROVE q.rbuf[i] = q.rcv_nxt - q.rlen + i - 1
  <2>1. t.rpos \in Nat /\ t.rlen <= RcvBufSize
    BY ReceiverTypes DEF Buffered
  <2>2. i \in 1..RcvBufSize
    BY <1>1, <1>2, <1>9, <2>1
  <2>3. PICK x \in Int : x = nxt - len + i - 1
    BY <1>2, <2>2
  <2>4. i = len - nxt + x + 1
    BY <1>2, <2>2, <2>3
  <2>5. b[i] = x
    BY <1>1, <1>9, <2>3 DEF Buffered
  <2>6. c[i] = x
    BY <1>7, <2>2, <2>4, <2>5
  <2>. QED
    BY <1>1, <1>4, <1>6, <2>3, <2>6
<1>10. ASSUME NEW s \in t.rlist
       PROVE  \A x \in s[1] .. s[1] + s[2] - 1 : q.rbuf[At(q, x)] = x
  <2>. SUFFICES ASSUME NEW x \in s[1] .. s[1] + s[2] - 1 PROVE q.rbuf[At(q, x)] = x
    OBVIOUS
  <2>1. s[1] \in Nat /\ s[2] \in Nat
    BY <1>2, <1>10
  <2>2. s[1] > nxt /\ len - nxt + s[1] + s[2] <= RcvBufSize /\ b[At(t, x)] = x
    BY <1>1, <1>10 DEF Buffered
  <2>3. PICK i : i = At(q, x)
    OBVIOUS
  <2>4. i = len - nxt + x + 1 /\ i = At(t, x)
    BY <1>8, <2>3, Zenon
  <2>5. i \in 1..RcvBufSize /\ x \in Int
    BY <1>2, <2>1, <2>2, <2>4, SMTT(30)
  <2>6. c[i] = x
    BY <1>7, <2>2, <2>4, <2>5
  <2>. QED
    BY <1>4, <2>3, <2>6
<1>11. Buffered(q, g)
  <2>1. getReceiveBufferSpace(q) = getReceiveBufferSpace(t)
    BY <1>6, Zenon DEF getReceiveBufferSpace
  <2>2. \A s \in t.rlist : s[1] > t.rcv_nxt /\ t.rlen - t.rcv_nxt + s[1] + s[2] <= RcvBufSize
    BY DEF Buffered
  <2>. QED
    BY <1>6, <1>9, <1>10, <2>1, <2>2, Zenon DEF Buffered
<1>12. ASSUME NEW x \in first .. first + Len(d) - 1, At(t, x) <= RcvBufSize PROVE Holds(q, x)
  <2>1. PICK i : i = At(q, x)
    OBVIOUS
  <2>2. i = len - nxt + x + 1 /\ i <= RcvBufSize
    BY <1>8, <1>12, <2>1, Zenon
  <2>3. x \in Int /\ first <= x /\ x <= first + n - 1
    BY <1>1, <1>n, <1>12
  <2>5. i \in 1..RcvBufSize /\ x \in first .. first + n - 1
    BY <1>2, <1>n, <2>2, <2>3
  <2>4. c[i] = x
    BY <1>7, <2>2, <2>3, <2>5
  <2>. QED
    BY <1>4, <2>1, <2>4 DEF Holds
<1>. QED
  BY <1>4, <1>5, <1>11, <1>12

(* A segment that is out of order is saved.                                 *)
HoldsAll(t, from, to) == \A x \in from .. to - 1 : Holds(t, x)
RoomFor(t, first, n) ==
  /\ first \in Nat /\ n \in Nat \ {0} /\ t.rcv_nxt < first /\ t.rcv_nxt > 0
  /\ t.rlen - t.rcv_nxt + first + n <= RcvBufSize
  /\ HoldsAll(t, first, first + n)
SavedAs(t, first, n) == Put(t, "rlist", t.rlist \cup {<<first, n>>})
LEMMA SavedBuffered ==
  ASSUME NEW t, NEW g, Typed(t), Buffered(t, g), NEW first, NEW n, RoomFor(t, first, n),
         NEW q, q = SavedAs(t, first, n)
  PROVE  /\ Typed(q) /\ SameBut(t, q, {"rlist"}) /\ Buffered(q, g)
         /\ \A s \in q.rlist : s \in t.rlist \/ (s[1] = first /\ s[2] = n)
<1>0. /\ first \in Nat /\ n \in Nat \ {0} /\ t.rcv_nxt < first /\ t.rcv_nxt > 0
      /\ t.rlen - t.rcv_nxt + first + n <= RcvBufSize
  BY DEF RoomFor
<1>1. PICK rl, s0 : s0 = <<first, n>> /\ rl = t.rlist \cup {s0}
  OBVIOUS
<1>2. Unaltered(q) /\ SameBut(t, q, {"rlist"}) /\ q.rlist = rl
  <2>1. "rlist" \in Field /\ Unaltered(t)
    BY DEF Field, Typed
  <2>2. q = Put(t, "rlist", rl)
    BY <1>1 DEF SavedAs
  <2>3. /\ Unaltered(Put(t, "rlist", rl)) /\ SameBut(t, Put(t, "rlist", rl), {"rlist"})
        /\ Put(t, "rlist", rl)["rlist"] = rl
    BY <2>1, PutFields
  <2>. QED
    BY <2>2, <2>3, Zenon
<1>3. rl \subseteq Nat \X (Nat \ {0}) /\ IsFiniteSet(rl)
  <2>1. t.rlist \subseteq Nat \X (Nat \ {0}) /\ IsFiniteSet(t.rlist)
    BY ReceiverTypes
  <2>2. s0 \in Nat \X (Nat \ {0})
    BY <1>0, <1>1
  <2>3. IsFiniteSet(rl)
    BY <1>1, <2>1, FS_AddElement
  <2>. QED
    BY <1>1, <2>1, <2>2, <2>3
<1>4. Typed(q)
  <2>1. q.rlist \subseteq Nat \X (Nat \ {0}) /\ IsFiniteSet(q.rlist)
    BY <1>2, <1>3
  <2>. QED
    BY <1>2, <2>1, Zenon DEF Typed, SameBut, Field
<1>5. /\ q.rpos = t.rpos /\ q.rlen = t.rlen /\ q.rcv_wnd = t.rcv_wnd /\ q.rcv_nxt = t.rcv_nxt
      /\ q.rbuf = t.rbuf /\ q.shutdown = t.shutdown
  BY <1>2, Zenon DEF SameBut, Field
<1>6. \A x : At(q, x) = At(t, x)
  BY <1>5, Zenon DEF At
<1>7. t.rcv_nxt \in Nat /\ t.rlen \in Nat
  BY ReceiverTypes
<1>8. ASSUME NEW s \in rl, t.shutdown = "NONE"
      PROVE  /\ s[1] > t.rcv_nxt
             /\ t.rlen - t.rcv_nxt + s[1] + s[2] <= RcvBufSize
             /\ \A x \in s[1] .. s[1] + s[2] - 1 : t.rbuf[At(t, x)] = x
  <2>1. CASE s = s0
    <3>1. s[1] = first /\ s[2] = n
      BY <1>1, <2>1
    <3>2. t.rlen - t.rcv_nxt + first + n <= RcvBufSize /\ first > t.rcv_nxt
      BY <1>0, <1>7
    <3>. QED
      BY <3>1, <3>2 DEF Holds, HoldsAll, RoomFor
  <2>2. CASE s \in t.rlist
    BY <1>8, <2>2, Zenon DEF Buffered
  <2>. QED
    BY <1>1, <1>8, <2>1, <2>2
<1>9. Buffered(q, g)
  <2>1. getReceiveBufferSpace(q) = getReceiveBufferSpace(t)
    BY <1>5, Zenon DEF getReceiveBufferSpace
  <2>2. t.rcv_nxt # 0
    BY <1>0, <1>7
  <2>3. ASSUME NEW s \in q.rlist, q.shutdown = "NONE"
        PROVE  /\ s[1] > q.rcv_nxt
               /\ q.rlen - q.rcv_nxt + s[1] + s[2] <= RcvBufSize
               /\ \A x \in s[1] .. s[1] + s[2] - 1 : q.rbuf[At(q, x)] = x
    BY <1>2, <1>5, <1>6, <1>8, <2>3, Zenon
  <2>. QED
    BY <1>5, <2>1, <2>2, <2>3, ZenonT(60) DEF Buffered
<1>10. \A s \in q.rlist : s \in t.rlist \/ (s[1] = first /\ s[2] = n)
  BY <1>1, <1>2
<1>. QED
  BY <1>2, <1>4, <1>9, <1>10

(* Data in order, with the saved segments it reaches.                       *)
Advanced(t, d, reach) ==
  [t EXCEPT !.rlen = t.rlen + d, !.rcv_wnd = t.rcv_wnd - d, !.rcv_nxt = reach,
            !.rlist = {s \in t.rlist : s[1] > reach}]
AdvFields == {"rlen", "rcv_wnd", "rcv_nxt", "rlist"}
LEMMA AdvancedBuffered ==
  ASSUME NEW t, NEW g, Typed(t), g \in Seq(Nat), Buffered(t, g), t.shutdown = "NONE", t.rcv_nxt > 0,
         NEW end \in Nat, t.rcv_nxt < end, t.rlen + (end - t.rcv_nxt) <= RcvBufSize,
         HoldsAll(t, t.rcv_nxt, end), NEW M \in Nat, NEW reach, Reached(t.rlist, end, M, reach), M <= Edge(t),
         NEW q, q = Advanced(t, reach - t.rcv_nxt, reach)
  PROVE  /\ Typed(q) /\ SameBut(t, q, AdvFields) /\ Buffered(q, g)
         /\ q.rcv_nxt = reach /\ Edge(q) = Edge(t) /\ q.rlist \subseteq t.rlist
<1>1. PICK len, nxt, pos, wnd : len = t.rlen /\ nxt = t.rcv_nxt /\ pos = t.rpos /\ wnd = t.rcv_wnd
  OBVIOUS
<1>2. len \in Nat /\ nxt \in Nat /\ pos \in Nat /\ wnd \in Nat /\ RcvBufSize \in Nat
  BY <1>1, ReceiverTypes
<1>3. reach \in Nat /\ end <= reach /\ reach <= nxt + wnd /\ nxt < end /\ len + (end - nxt) <= RcvBufSize
  <2>1. reach \in Nat /\ end <= reach /\ reach <= M
    BY DEF Reached
  <2>2. Edge(t) = nxt + wnd
    BY <1>1 DEF Edge
  <2>. QED
    BY <1>1, <1>2, <2>1, <2>2
<1>d. PICK d \in Nat : reach = nxt + d /\ d <= wnd
  <2>1. reach - nxt \in Nat /\ reach - nxt <= wnd /\ reach = nxt + (reach - nxt)
    BY <1>2, <1>3
  <2>. QED
    BY <2>1
<1>5. PICK a, b, rl : a = len + d /\ b = wnd - d /\ rl = {s \in t.rlist : s[1] > reach}
  OBVIOUS
<1>4. /\ len \in Nat /\ nxt \in Nat /\ pos \in Nat /\ wnd \in Nat /\ d \in Nat /\ a \in Nat /\ b \in Nat
      /\ end \in Nat /\ reach = nxt + d /\ a = len + d /\ wnd = b + d
  BY <1>2, <1>d, <1>5
<1>6. /\ Unaltered(q) /\ SameBut(t, q, AdvFields)
      /\ q.rlen = a /\ q.rcv_wnd = b /\ q.rcv_nxt = reach /\ q.rlist = rl
  <2>1. q = [t EXCEPT !.rlen = a, !.rcv_wnd = b, !.rcv_nxt = reach, !.rlist = rl]
    <3>1. d = reach - t.rcv_nxt
      BY <1>1, <1>4
    <3>. QED
      BY <1>1, <1>5, <3>1, Zenon DEF Advanced
  <2>2. Unaltered(t)
    BY DEF Typed
  <2>. QED
    BY <2>1, <2>2, Zenon DEF Unaltered, SameBut, Field, AdvFields
<1>7. rl \subseteq t.rlist /\ IsFiniteSet(rl) /\ rl \subseteq Nat \X (Nat \ {0})
  <2>1. t.rlist \subseteq Nat \X (Nat \ {0}) /\ IsFiniteSet(t.rlist)
    BY ReceiverTypes
  <2>2. rl \subseteq t.rlist
    BY <1>5
  <2>. QED
    BY <2>1, <2>2, FS_Subset
<1>8. Typed(q)
  <2>1. /\ q.rlen \in Nat /\ q.rcv_wnd \in Nat /\ q.rcv_nxt \in Nat
        /\ q.rlist \subseteq Nat \X (Nat \ {0}) /\ IsFiniteSet(q.rlist)
    BY <1>3, <1>4, <1>5, <1>6, <1>7
  <2>. QED
    BY <1>6, <2>1, Zenon DEF Typed, SameBut, Field, AdvFields
<1>9. q.rpos = t.rpos /\ q.rbuf = t.rbuf /\ q.shutdown = t.shutdown
  BY <1>6, Zenon DEF SameBut, Field, AdvFields
<1>10. Edge(q) = Edge(t)
  <2>1. reach + b = nxt + wnd
    BY <1>4
  <2>. QED
    BY <1>1, <1>6, <2>1 DEF Edge
<1>11. q.rlen - q.rcv_nxt = len - nxt
  <2>1. a - reach = len - nxt
    BY <1>4
  <2>. QED
    BY <1>6, <2>1
<1>12. \A x : At(q, x) = At(t, x)
  BY <1>1, <1>11 DEF At
<1>13. pos <= len /\ len <= RcvBufSize /\ wnd <= RcvBufSize - len + pos
  BY <1>1 DEF Buffered, getReceiveBufferSpace
<1>14. \A s \in t.rlist : /\ s[1] \in Nat /\ s[2] \in Nat \ {0} /\ s[1] > nxt /\ Past(s) = s[1] + s[2]
                          /\ len - nxt + Past(s) <= RcvBufSize
                          /\ \A x \in s[1] .. s[1] + s[2] - 1 : Holds(t, x)
  <2>1. ASSUME NEW s \in t.rlist
        PROVE  /\ s[1] > nxt /\ len - nxt + s[1] + s[2] <= RcvBufSize
               /\ \A x \in s[1] .. s[1] + s[2] - 1 : Holds(t, x)
    BY <1>1, <2>1 DEF Buffered, Holds
  <2>2. ASSUME NEW s \in t.rlist PROVE s[1] \in Nat /\ s[2] \in Nat \ {0}
    BY <2>2, ReceiverTypes
  <2>3. ASSUME NEW s \in t.rlist PROVE len - nxt + Past(s) <= RcvBufSize
    BY <1>2, <2>1, <2>2, <2>3 DEF Past
  <2>. QED
    BY <2>1, <2>2, <2>3 DEF Past
<1>15. a <= RcvBufSize
  <2>1. CASE reach = end
    BY <1>2, <1>3, <1>4, <2>1
  <2>2. CASE \E s \in t.rlist : reach = Past(s)
    <3>1. PICK s \in t.rlist : reach = Past(s)
      BY <2>2
    <3>2. len - nxt + reach <= RcvBufSize
      BY <1>14, <3>1
    <3>. QED
      BY <1>2, <1>4, <3>2
  <2>. QED
    BY <2>1, <2>2 DEF Reached
<1>16. ASSUME NEW x \in nxt .. reach - 1 PROVE Holds(t, x)
  <2>1. CASE x < end
    <3>1. x \in nxt .. end - 1
      BY <1>2, <1>3, <1>16, <2>1
    <3>. QED
      BY <1>1, <3>1 DEF HoldsAll
  <2>2. CASE ~(x < end)
    <3>1. x \in end .. reach - 1
      BY <1>2, <1>3, <1>16, <2>2
    <3>2. PICK s \in t.rlist : s[1] <= x /\ x < Past(s)
      BY <3>1 DEF Reached
    <3>3. s[1] \in Nat /\ s[2] \in Nat /\ Past(s) = s[1] + s[2]
          /\ \A y \in s[1] .. s[1] + s[2] - 1 : Holds(t, y)
      BY <1>14, <3>2
    <3>4. x \in s[1] .. s[1] + s[2] - 1
      BY <1>2, <1>16, <3>2, <3>3
    <3>. QED
      BY <3>3, <3>4
  <2>. QED
    BY <2>1, <2>2
<1>17. ASSUME NEW i \in q.rpos + 1 .. q.rlen PROVE q.rbuf[i] = q.rcv_nxt - q.rlen + i - 1
  <2>1. i \in pos + 1 .. a /\ i \in Int /\ i > pos /\ i <= a
    <3>1. i \in pos + 1 .. a
      BY <1>1, <1>6, <1>9, <1>17
    <3>. QED
      BY <1>4, <3>1
  <2>2. q.rcv_nxt - q.rlen + i - 1 = nxt - len + i - 1
    <3>1. reach - a + i - 1 = nxt - len + i - 1
      BY <1>4, <2>1
    <3>. QED
      BY <1>6, <3>1
  <2>3. CASE i <= len
    <3>1. t.rbuf[i] = nxt - len + i - 1
      <4>1. i \in t.rpos + 1 .. t.rlen
        BY <1>1, <1>2, <2>1, <2>3
      <4>. QED
        BY <1>1, <4>1 DEF Buffered
    <3>. QED
      BY <1>9, <2>2, <3>1
  <2>4. CASE i > len
    <3>1. PICK x : x = nxt - len + i - 1
      OBVIOUS
    <3>2. x \in nxt .. reach - 1 /\ i = len - nxt + x + 1
      BY <1>4, <2>1, <2>4, <3>1
    <3>3. Holds(t, x)
      BY <1>16, <3>2
    <3>4. t.rbuf[i] = x
      BY <1>1, <3>2, <3>3 DEF Holds, At
    <3>. QED
      BY <1>9, <2>2, <3>1, <3>4
  <2>. QED
    BY <1>2, <2>1, <2>3, <2>4
<1>18. Buffered(q, g)
  <2>1. q.rpos <= q.rlen /\ q.rlen <= RcvBufSize /\ q.rcv_wnd <= getReceiveBufferSpace(q)
    <3>1. pos <= a /\ a <= RcvBufSize /\ b <= RcvBufSize - a + pos
      BY <1>2, <1>4, <1>13, <1>15
    <3>. QED
      BY <1>1, <1>6, <1>9, <3>1 DEF getReceiveBufferSpace
  <2>2. \A i \in 1..Len(g) : g[i] = i
    BY DEF Buffered
  <2>3. PICK l \in Nat : l = Len(g)
    BY LenProperties
  <2>4. l + len - pos = nxt - 1
    BY <1>1, <1>2, <2>3 DEF Buffered
  <2>5. l + q.rlen - q.rpos = q.rcv_nxt - 1 /\ q.rcv_nxt # 0
    <3>1. l + a - pos = reach - 1 /\ reach # 0
      BY <1>3, <1>4, <2>4
    <3>. QED
      BY <1>1, <1>6, <1>9, <3>1
  <2>6. /\ Len(g) + q.rlen - q.rpos = IF q.rcv_nxt = 0 THEN 0 ELSE q.rcv_nxt - 1
        /\ Len(g) + q.rlen - q.rpos <= IF q.rcv_nxt = 0 THEN 0 ELSE q.rcv_nxt - 1
    BY <1>3, <1>6, <2>3, <2>5
  <2>7. ASSUME NEW s \in q.rlist
        PROVE  /\ s[1] > q.rcv_nxt
               /\ q.rlen - q.rcv_nxt + s[1] + s[2] <= RcvBufSize
               /\ \A x \in s[1] .. s[1] + s[2] - 1 : q.rbuf[At(q, x)] = x
    <3>1. s \in t.rlist /\ s[1] > reach
      BY <1>5, <1>6, <2>7
    <3>2. len - nxt + s[1] + s[2] <= RcvBufSize
      BY <1>2, <1>14, <3>1
    <3>3. \A x \in s[1] .. s[1] + s[2] - 1 : t.rbuf[At(t, x)] = x
      BY <1>14, <3>1 DEF Holds
    <3>. QED
      BY <1>6, <1>9, <1>11, <1>12, <3>1, <3>2, <3>3
  <2>. QED
    BY <1>17, <2>1, <2>2, <2>5, <2>6, <2>7, Zenon DEF Buffered
<1>. QED
  BY <1>6, <1>7, <1>8, <1>10, <1>18

(* The data of a packet, step by step: d is new, from "first" on.           *)
DataFields == {"rcv_nxt", "rcv_wnd", "rlen", "rpos", "rbuf", "rlist"}
Stored(t, off, d) ==
  Put(Moved(t, Len(d), off), "rbuf",
      Placed(Moved(t, Len(d), off).rbuf, Moved(t, Len(d), off).rlen, off, d))
Taken(t, seg, first, off, d) ==
  IF Len(d) = 0 THEN t
  ELSE IF seg.ctl \/ t.shutdown # "NONE"
    THEN IF off = 0 THEN Put(t, "rcv_nxt", t.rcv_nxt + Len(d)) ELSE t
  ELSE IF off > 0
    THEN SavedAs(Stored(t, off, d), first, Len(d))
  ELSE Advanced(Stored(t, off, d), Recovered(t.rlist, first + Len(d)) - t.rcv_nxt,
                Recovered(t.rlist, first + Len(d)))
LEMMA DataSteps ==
  ASSUME NEW t, NEW seg, NEW first, NEW d, NEW off, first = Fitting(t, seg).seq,
         d = Fitting(t, seg).data, off = first - t.rcv_nxt
  PROVE  ProcessData(t, seg) = Taken(t, seg, first, off, d)
  BY ZenonT(60) DEF ProcessData, Taken, Stored, Moved, Placed, Advanced, SavedAs, Put

(* What t has received after the data of a packet.                          *)
DataDone(t, q, u, g, A, B) ==
  /\ Live(q, u, A, B) /\ SameBut(t, q, DataFields) /\ Buffered(q, g)
  /\ t.rcv_nxt <= q.rcv_nxt
LEMMA TakenControl ==
  ASSUME NEW t, NEW u, NEW A, NEW B, NEW g, Live(t, u, A, B), g \in Seq(Nat), Buffered(t, g),
         NEW n, n \in Nat \ {0}, t.rcv_nxt + n <= u.snd_nxt, Uncut(u.slist, t.rcv_nxt + n),
         t.shutdown = "NONE" => t.rcv_nxt = 0 /\ n = 1,
         NEW q, q = Put(t, "rcv_nxt", t.rcv_nxt + n)
  PROVE  DataDone(t, q, u, g, A, B) /\ q.rcv_nxt > 0
<1>1. Typed(t) /\ Typed(u) /\ Linked(t, u, A, B) /\ Unaltered(t)
  BY DEF Live, Typed
<1>2. t.rcv_nxt \in Nat /\ t.rcv_wnd \in Nat /\ t.rlen \in Nat /\ t.rpos \in Nat /\ u.snd_nxt \in Nat
  BY <1>1 DEF Typed
<1>3. PICK x : x = t.rcv_nxt + n
  OBVIOUS
<1>4. Unaltered(q) /\ SameBut(t, q, {"rcv_nxt"}) /\ q.rcv_nxt = x
  <2>1. "rcv_nxt" \in Field
    BY DEF Field
  <2>2. /\ Unaltered(Put(t, "rcv_nxt", x)) /\ SameBut(t, Put(t, "rcv_nxt", x), {"rcv_nxt"})
        /\ Put(t, "rcv_nxt", x)["rcv_nxt"] = x
    BY <1>1, <2>1, PutFields
  <2>. QED
    BY <1>3, <2>2, Zenon
<1>5. x \in Nat /\ x > 0 /\ t.rcv_nxt <= x /\ x <= u.snd_nxt /\ Uncut(u.slist, x)
  BY <1>2, <1>3
<1>6. Typed(q)
  <2>1. q.rcv_nxt \in Nat
    BY <1>4, <1>5
  <2>. QED
    BY <1>1, <1>4, <2>1, Zenon DEF Typed, SameBut, Field
<1>7. /\ q.snd_una = t.snd_una /\ q.snd_nxt = t.snd_nxt /\ q.snd_wnd = t.snd_wnd /\ q.sbuf = t.sbuf
      /\ q.slist = t.slist /\ q.rto_base = t.rto_base /\ q.recover = t.recover /\ q.out = t.out
      /\ q.rcv_wnd = t.rcv_wnd /\ q.rlist = t.rlist /\ q.rlen = t.rlen /\ q.rpos = t.rpos
      /\ q.rbuf = t.rbuf /\ q.shutdown = t.shutdown /\ SameBut(t, q, DataFields)
  BY <1>4, Zenon DEF SameBut, Field, DataFields
<1>8. Edge(t) <= Edge(q)
  BY <1>2, <1>4, <1>5, <1>7 DEF Edge
<1>9. Live(q, u, A, B)
  <2>1. \A s \in q.rlist : s[1] + s[2] <= u.snd_nxt /\ Uncut(u.slist, s[1] + s[2])
    BY <1>1, <1>7, Zenon DEF Linked, Flow
  <2>2. t.rcv_nxt <= q.rcv_nxt /\ q.rcv_nxt <= u.snd_nxt /\ Uncut(u.slist, q.rcv_nxt)
    BY <1>4, <1>5
  <2>. QED
    BY <1>6, <1>7, <1>8, <2>1, <2>2, ReceiverStep
<1>10. Buffered(q, g)
  <2>1. PICK l \in Nat : l = Len(g)
    BY LenProperties
  <2>2. /\ t.rpos <= t.rlen /\ t.rlen <= RcvBufSize /\ t.rcv_wnd <= getReceiveBufferSpace(t)
        /\ (t.rcv_nxt = 0 => t.rlist = {})
        /\ \A i \in 1..Len(g) : g[i] = i
    BY DEF Buffered
  <2>3. l + t.rlen - t.rpos <= IF t.rcv_nxt = 0 THEN 0 ELSE t.rcv_nxt - 1
    BY <2>1 DEF Buffered
  <2>4. getReceiveBufferSpace(q) = getReceiveBufferSpace(t)
    BY <1>7, Zenon DEF getReceiveBufferSpace
  <2>5. x # 0 /\ l + t.rlen - t.rpos <= x - 1
    BY <1>2, <1>5, <2>1, <2>3
  <2>6. l + q.rlen - q.rpos <= IF q.rcv_nxt = 0 THEN 0 ELSE q.rcv_nxt - 1
    BY <1>4, <1>7, <2>5
  <2>7. t.shutdown = "NONE" => l = 0 /\ t.rlen = t.rpos /\ t.rlist = {} /\ x = 1
    <3>1. t.shutdown = "NONE" => t.rcv_nxt = 0 /\ x = 1
      BY <1>3
    <3>. QED
      BY <1>2, <2>1, <2>2, <2>3, <3>1
  <2>8. q.shutdown = "NONE" =>
          /\ l + q.rlen - q.rpos = IF q.rcv_nxt = 0 THEN 0 ELSE q.rcv_nxt - 1
          /\ q.rlist = {}
          /\ \A i \in q.rpos + 1 .. q.rlen : FALSE
    BY <1>2, <1>4, <1>7, <2>7
  <2>9. q.rcv_nxt # 0
    BY <1>4, <2>5
  <2>10. q.rpos <= q.rlen /\ q.rlen <= RcvBufSize /\ q.rcv_wnd <= getReceiveBufferSpace(q)
    BY <1>7, <2>2, <2>4
  <2>11. q.shutdown = "NONE" => \A s \in q.rlist : FALSE
    BY <2>8
  <2>12. q.shutdown = "NONE" => \A i \in q.rpos + 1 .. q.rlen : q.rbuf[i] = q.rcv_nxt - q.rlen + i - 1
    BY <2>8
  <2>. QED
    BY <2>1, <2>2, <2>6, <2>8, <2>9, <2>10, <2>11, <2>12, Zenon DEF Buffered
<1>. QED
  BY <1>4, <1>5, <1>7, <1>9, <1>10 DEF DataDone

(* The place of a byte that fits.                                           *)
LEMMA PlaceBound ==
  ASSUME NEW l, NEW nxt, NEW off, NEW n, NEW R, NEW first, l \in Nat, nxt \in Nat, off \in Nat, n \in Nat,
         R \in Nat, first = nxt + off, l + off + n <= R, NEW x \in first .. first + n - 1
  PROVE  l - nxt + x + 1 <= R
  OBVIOUS

(* The data is in its place.                                                *)
LEMMA StoredBuffered ==
  ASSUME NEW t, NEW g, Typed(t), g \in Seq(Nat), Buffered(t, g), t.shutdown = "NONE",
         NEW first, NEW off, NEW d, first \in Nat, off \in Nat, first = t.rcv_nxt + off,
         d \in Seq(Nat), Counts(d, first), first + Len(d) <= Edge(t),
         NEW q, q = Stored(t, off, d)
  PROVE  /\ Typed(q) /\ SameBut(t, q, {"rbuf", "rlen", "rpos"}) /\ Buffered(q, g)
         /\ q.rlen + off + Len(d) <= RcvBufSize /\ HoldsAll(q, first, first + Len(d))
<1>1. PICK n, c : n = Len(d) /\ c = Moved(t, n, off)
  OBVIOUS
<1>2. n \in Nat /\ t.rcv_nxt \in Nat /\ RcvBufSize \in Nat
  BY <1>1, LenProperties, ReceiverTypes
<1>3. /\ Typed(c) /\ SameBut(t, c, {"rbuf", "rlen", "rpos"}) /\ Buffered(c, g)
      /\ c.rlen + off + n <= RcvBufSize
  <2>1. t.rcv_nxt + off + n <= Edge(t)
    BY <1>1
  <2>. QED
    BY <1>1, <1>2, <2>1, MovedBuffered
<1>4. c.shutdown = "NONE" /\ c.rcv_nxt = t.rcv_nxt
  BY <1>3, Zenon DEF SameBut, Field
<1>5. q = Put(c, "rbuf", Placed(c.rbuf, c.rlen, off, d))
  BY <1>1, Zenon DEF Stored
<1>6. /\ Typed(q) /\ SameBut(c, q, {"rbuf"}) /\ Buffered(q, g)
      /\ \A x \in first .. first + Len(d) - 1 : At(c, x) <= RcvBufSize => Holds(q, x)
  <2>1. first = c.rcv_nxt + off
    BY <1>4
  <2>. QED
    BY <1>3, <1>4, <1>5, <2>1, FilledBuffered
<1>7. q.rlen = c.rlen /\ SameBut(t, q, {"rbuf", "rlen", "rpos"})
  BY <1>3, <1>6, Zenon DEF SameBut, Field
<1>8. ASSUME NEW x \in first .. first + n - 1 PROVE Holds(q, x)
  <2>1. PICK l, nxt : l = c.rlen /\ nxt = t.rcv_nxt /\ l \in Nat /\ nxt \in Nat
    BY <1>2, <1>3, ReceiverTypes
  <2>2. first = nxt + off /\ l + off + n <= RcvBufSize
    BY <1>3, <2>1
  <2>4. l - nxt + x + 1 <= RcvBufSize
    BY <1>2, <1>8, <2>1, <2>2, PlaceBound
  <2>5. At(c, x) <= RcvBufSize
    BY <1>4, <2>1, <2>4 DEF At
  <2>. QED
    BY <1>1, <1>6, <1>8, <2>5
<1>9. HoldsAll(q, first, first + Len(d))
  BY <1>1, <1>8 DEF HoldsAll
<1>. QED
  BY <1>1, <1>3, <1>6, <1>7, <1>9

(* The place of a segment that is saved.                                    *)
LEMMA SaveBound ==
  ASSUME NEW l, NEW nxt, NEW off, NEW n, NEW R, NEW first, l \in Nat, nxt \in Nat, off \in Nat, off > 0,
         n \in Nat \ {0}, R \in Nat, first = nxt + off, l + off + n <= R
  PROVE  nxt < first /\ l - nxt + first + n <= R
  OBVIOUS

(* Data that is out of order.                                               *)
LEMMA TakenSaved ==
  ASSUME NEW t, NEW u, NEW A, NEW B, NEW g, Live(t, u, A, B), g \in Seq(Nat), Buffered(t, g),
         t.shutdown = "NONE", t.rcv_nxt > 0,
         NEW first, NEW off, NEW d, first \in Nat, off \in Nat, off > 0, first = t.rcv_nxt + off,
         d \in Seq(Nat), Len(d) \in Nat \ {0}, Counts(d, first),
         first + Len(d) <= u.snd_nxt, Uncut(u.slist, first + Len(d)),
         NEW q, q = SavedAs(Stored(t, off, d), first, Len(d))
  PROVE  DataDone(t, q, u, g, A, B)
<1>1. PICK n, v : n = Len(d) /\ v = Stored(t, off, d)
  OBVIOUS
<1>2. Typed(t) /\ Typed(u) /\ Linked(t, u, A, B) /\ u.snd_nxt <= Edge(t)
  BY DEF Live, Linked, Flow
<1>3. t.rcv_nxt \in Nat /\ u.snd_nxt \in Nat /\ Edge(t) \in Nat
  BY <1>2, EdgeNat DEF Typed
<1>4. first + Len(d) <= Edge(t)
  BY <1>2, <1>3
<1>5. /\ Typed(v) /\ SameBut(t, v, {"rbuf", "rlen", "rpos"}) /\ Buffered(v, g)
      /\ v.rlen + off + n <= RcvBufSize /\ HoldsAll(v, first, first + n)
  BY <1>1, <1>2, <1>4, StoredBuffered
<1>6. v.rcv_nxt = t.rcv_nxt /\ v.rlist = t.rlist
  BY <1>5, Zenon DEF SameBut, Field
<1>7. /\ Typed(q) /\ SameBut(v, q, {"rlist"}) /\ Buffered(q, g)
      /\ \A s \in q.rlist : s \in v.rlist \/ (s[1] = first /\ s[2] = n)
  <2>1. RoomFor(v, first, n)
    <3>1. PICK l, nxt : l = v.rlen /\ nxt = v.rcv_nxt /\ l \in Nat /\ nxt \in Nat
      BY <1>5, ReceiverTypes
    <3>2. RcvBufSize \in Nat /\ n \in Nat \ {0} /\ first = nxt + off /\ nxt > 0 /\ l + off + n <= RcvBufSize
      BY <1>1, <1>5, <1>6, <3>1, PseudoTcpAssumption
    <3>3. nxt < first /\ l - nxt + first + n <= RcvBufSize
      BY <3>1, <3>2, SaveBound
    <3>. QED
      BY <1>5, <3>1, <3>2, <3>3 DEF RoomFor
  <2>2. q = SavedAs(v, first, n)
    BY <1>1
  <2>. QED
    BY <1>5, <2>1, <2>2, SavedBuffered
<1>8. /\ q.snd_una = t.snd_una /\ q.snd_nxt = t.snd_nxt /\ q.snd_wnd = t.snd_wnd /\ q.sbuf = t.sbuf
      /\ q.slist = t.slist /\ q.rto_base = t.rto_base /\ q.recover = t.recover /\ q.out = t.out
      /\ q.rcv_nxt = t.rcv_nxt /\ q.rcv_wnd = t.rcv_wnd /\ SameBut(t, q, DataFields)
  BY <1>5, <1>7, Zenon DEF SameBut, Field, DataFields
<1>9. Edge(q) = Edge(t)
  BY <1>8, Zenon DEF Edge
<1>10. ASSUME NEW s \in q.rlist PROVE s[1] + s[2] <= u.snd_nxt /\ Uncut(u.slist, s[1] + s[2])
  <2>1. CASE s \in t.rlist
    BY <1>2, <2>1, Zenon DEF Linked, Flow
  <2>2. CASE s[1] = first /\ s[2] = n
    BY <1>1, <2>2
  <2>. QED
    BY <1>6, <1>7, <1>10, <2>1, <2>2
<1>11. t.rcv_nxt <= q.rcv_nxt /\ Edge(t) <= Edge(q)
  BY <1>3, <1>8, <1>9
<1>12. q.rcv_nxt <= u.snd_nxt /\ Uncut(u.slist, q.rcv_nxt)
  BY <1>2, <1>8 DEF Linked, Flow
<1>13. Live(q, u, A, B)
  BY <1>7, <1>8, <1>10, <1>11, <1>12, ReceiverStep, ZenonT(60)
<1>. QED
  BY <1>7, <1>8, <1>11, <1>13 DEF DataDone

(* Data in order.                                                           *)
LEMMA TakenInOrder ==
  ASSUME NEW t, NEW u, NEW A, NEW B, NEW g, Live(t, u, A, B), g \in Seq(Nat), Buffered(t, g),
         t.shutdown = "NONE", t.rcv_nxt > 0,
         NEW first, NEW off, NEW d, first \in Nat, off = 0, first = t.rcv_nxt,
         d \in Seq(Nat), Len(d) \in Nat \ {0}, Counts(d, first),
         first + Len(d) <= u.snd_nxt, Uncut(u.slist, first + Len(d)),
         NEW q, q = Advanced(Stored(t, off, d), Recovered(t.rlist, first + Len(d)) - t.rcv_nxt,
                             Recovered(t.rlist, first + Len(d)))
  PROVE  DataDone(t, q, u, g, A, B)
<1>1. PICK n, end, v, reach : /\ n = Len(d) /\ v = Stored(t, off, d) /\ end = first + n
                              /\ reach = Recovered(t.rlist, end)
  OBVIOUS
<1>2. Typed(t) /\ Typed(u) /\ Linked(t, u, A, B) /\ u.snd_nxt <= Edge(t)
  BY DEF Live, Linked, Flow
<1>3. /\ t.rcv_nxt \in Nat /\ u.snd_nxt \in Nat /\ Edge(t) \in Nat /\ end \in Nat
      /\ end <= u.snd_nxt /\ first < end /\ Uncut(u.slist, end)
  <2>1. t.rcv_nxt \in Nat /\ u.snd_nxt \in Nat /\ Edge(t) \in Nat
    BY <1>2, EdgeNat DEF Typed
  <2>2. n \in Nat \ {0} /\ end = first + n /\ end <= u.snd_nxt /\ Uncut(u.slist, end)
    BY <1>1
  <2>3. end \in Nat /\ first < end
    BY <2>2
  <2>. QED
    BY <2>1, <2>2, <2>3
<1>4. /\ Typed(v) /\ SameBut(t, v, {"rbuf", "rlen", "rpos"}) /\ Buffered(v, g)
      /\ v.rlen + off + n <= RcvBufSize /\ HoldsAll(v, first, end)
  <2>1. first + Len(d) <= Edge(t) /\ first = t.rcv_nxt + off /\ off \in Nat
    BY <1>1, <1>2, <1>3
  <2>. QED
    BY <1>1, <1>2, <2>1, StoredBuffered
<1>5. v.rcv_nxt = t.rcv_nxt /\ v.rcv_wnd = t.rcv_wnd /\ v.rlist = t.rlist /\ v.shutdown = t.shutdown
  BY <1>4, Zenon DEF SameBut, Field
<1>6. Edge(v) = Edge(t)
  BY <1>5, Zenon DEF Edge
<1>7. Reached(t.rlist, end, u.snd_nxt, reach)
  <2>1. \A s \in t.rlist : s[1] \in Nat /\ Past(s) \in Nat
    BY <1>2, ReceiverTypes
  <2>2. \A s \in t.rlist : Past(s) <= u.snd_nxt
    BY <1>2 DEF Linked, Flow, Past
  <2>3. IsFiniteSet(t.rlist)
    BY <1>2, ReceiverTypes
  <2>. QED
    BY <1>1, <1>3, <2>1, <2>2, <2>3, RecoveredReached
<1>8. /\ Typed(q) /\ SameBut(v, q, AdvFields) /\ Buffered(q, g)
      /\ q.rcv_nxt = reach /\ Edge(q) = Edge(v) /\ q.rlist \subseteq v.rlist
  <2>1. q = Advanced(v, reach - v.rcv_nxt, reach)
    BY <1>1, <1>5
  <2>2. v.rcv_nxt > 0 /\ v.rcv_nxt < end /\ HoldsAll(v, v.rcv_nxt, end)
    BY <1>3, <1>4, <1>5
  <2>3. v.rlen + (end - v.rcv_nxt) <= RcvBufSize
    <3>1. end - v.rcv_nxt = n /\ v.rlen \in Nat /\ n \in Nat
      <4>1. n \in Nat /\ end = first + n /\ v.rcv_nxt = first
        BY <1>1, <1>5
      <4>2. v.rlen \in Nat
        BY <1>4, ReceiverTypes
      <4>. QED
        BY <4>1, <4>2
    <3>. QED
      BY <1>4, <3>1
  <2>4. Reached(v.rlist, end, u.snd_nxt, reach) /\ u.snd_nxt <= Edge(v) /\ v.shutdown = "NONE"
    BY <1>2, <1>5, <1>6, <1>7
  <2>. QED
    BY <1>3, <1>4, <2>1, <2>2, <2>3, <2>4, AdvancedBuffered
<1>9. /\ q.snd_una = t.snd_una /\ q.snd_nxt = t.snd_nxt /\ q.snd_wnd = t.snd_wnd /\ q.sbuf = t.sbuf
      /\ q.slist = t.slist /\ q.rto_base = t.rto_base /\ q.recover = t.recover /\ q.out = t.out
      /\ SameBut(t, q, DataFields)
  BY <1>4, <1>8, Zenon DEF SameBut, Field, DataFields, AdvFields
<1>10. \A s \in q.rlist : s[1] + s[2] <= u.snd_nxt /\ Uncut(u.slist, s[1] + s[2])
  BY <1>2, <1>5, <1>8, Zenon DEF Linked, Flow
<1>11. t.rcv_nxt <= q.rcv_nxt /\ Edge(t) <= Edge(q) /\ q.rcv_nxt <= u.snd_nxt
  <2>1. reach \in Nat /\ end <= reach /\ reach <= u.snd_nxt
    BY <1>7 DEF Reached
  <2>. QED
    BY <1>3, <1>6, <1>8, <2>1, SMTT(30)
<1>12. Uncut(u.slist, q.rcv_nxt)
  <2>1. reach = end \/ \E s \in t.rlist : reach = Past(s)
    BY <1>7 DEF Reached
  <2>2. \A s \in t.rlist : Uncut(u.slist, Past(s))
    BY <1>2 DEF Linked, Flow, Past
  <2>. QED
    BY <1>3, <1>8, <2>1, <2>2
<1>13. Live(q, u, A, B)
  BY <1>8, <1>9, <1>10, <1>11, <1>12, ReceiverStep, ZenonT(60)
<1>. QED
  BY <1>8, <1>9, <1>11, <1>13 DEF DataDone

(* The data of a packet.                                                    *)
LEMMA ProcessDataDone ==
  ASSUME NEW t, NEW u, NEW A, NEW B, NEW g, Live(t, u, A, B), g \in Seq(Nat), Buffered(t, g),
         NEW seg, seg \in Pkt, Carries(u, seg), u.snd_nxt > 1 => t.rcv_nxt > 0
  PROVE  /\ DataDone(t, ProcessData(t, seg), u, g, A, B)
         /\ seg.ctl => ProcessData(t, seg).rcv_nxt > 0
<1>1. Typed(t) /\ Typed(u) /\ u.snd_nxt <= Edge(t) /\ t.rcv_wnd <= getReceiveBufferSpace(t)
  BY DEF Live, Linked, Flow, Buffered
<1>2. t.rcv_nxt \in Nat /\ u.snd_nxt \in Nat
  BY <1>1 DEF Typed
<1>3. PICK first, d, off, n, q : /\ first = Fitting(t, seg).seq /\ d = Fitting(t, seg).data
                                 /\ off = first - t.rcv_nxt /\ n = Len(d)
                                 /\ q = ProcessData(t, seg)
  OBVIOUS
<1>4. Fitted(t, u, seg, first, d)
  BY <1>1, <1>3, FittingIs
<1>5. q = Taken(t, seg, first, off, d)
  BY <1>3, DataSteps
<1>6. DataDone(t, t, u, g, A, B)
  <2>1. SameBut(t, t, DataFields)
    BY Zenon DEF SameBut
  <2>2. t.rcv_nxt <= t.rcv_nxt
    BY <1>2
  <2>. QED
    BY <2>1, <2>2 DEF DataDone
<1>7. /\ first \in Nat /\ t.rcv_nxt <= first /\ d \in Seq(Nat) /\ n \in Nat
      /\ off \in Nat /\ first = t.rcv_nxt + off
  <2>1. first \in Nat /\ t.rcv_nxt <= first /\ d \in Seq(Nat) /\ n \in Nat
    BY <1>3, <1>4 DEF Fitted
  <2>. QED
    BY <1>2, <1>3, <2>1
<1>8. CASE n = 0
  <2>1. q = t
    BY <1>3, <1>5, <1>8, Zenon DEF Taken
  <2>2. seg.ctl => t.rcv_nxt > 0
    BY <1>3, <1>4, <1>8, Zenon DEF Fitted
  <2>. QED
    BY <1>3, <1>6, <2>1, <2>2
<1>9. CASE n # 0
  <2>1. /\ first + Len(d) <= u.snd_nxt /\ Uncut(u.slist, first + Len(d)) /\ Counts(d, first)
        /\ (seg.ctl => t.rcv_nxt = 0 /\ first = 0 /\ Len(d) = 1)
        /\ (~seg.ctl => first + Len(d) > 1)
    BY <1>3, <1>4, <1>9, Zenon DEF Fitted, Counts
  <2>2. Len(d) \in Nat \ {0}
    BY <1>3, <1>7, <1>9
  <2>3. CASE seg.ctl \/ t.shutdown # "NONE"
    <3>1. CASE off = 0
      <4>1. q = Put(t, "rcv_nxt", t.rcv_nxt + Len(d))
        BY <1>3, <1>5, <1>9, <2>3, <3>1, Zenon DEF Taken
      <4>2. first = t.rcv_nxt
        BY <1>2, <1>7, <3>1
      <4>3. t.shutdown = "NONE" => t.rcv_nxt = 0 /\ Len(d) = 1
        BY <2>1, <2>3
      <4>4. DataDone(t, q, u, g, A, B) /\ q.rcv_nxt > 0
        BY <2>1, <2>2, <4>1, <4>2, <4>3, TakenControl
      <4>. QED
        BY <1>3, <4>4
    <3>2. CASE off # 0
      <4>1. q = t
        BY <1>3, <1>5, <1>9, <2>3, <3>2, Zenon DEF Taken
      <4>2. ~seg.ctl
        BY <1>7, <2>1, <3>2
      <4>. QED
        BY <1>3, <1>6, <4>1, <4>2
    <3>. QED
      BY <3>1, <3>2
  <2>4. CASE ~(seg.ctl \/ t.shutdown # "NONE")
    <3>1. ~seg.ctl /\ t.shutdown = "NONE"
      BY <2>4
    <3>2. t.rcv_nxt > 0
      <4>1. u.snd_nxt > 1
        BY <1>2, <1>7, <2>1, <2>2, <3>1
      <4>. QED
        BY <4>1
    <3>3. CASE off > 0
      <4>1. q = SavedAs(Stored(t, off, d), first, Len(d))
        BY <1>3, <1>5, <1>9, <2>4, <3>3, Zenon DEF Taken
      <4>2. DataDone(t, q, u, g, A, B)
        BY <1>7, <2>1, <2>2, <3>1, <3>2, <3>3, <4>1, TakenSaved
      <4>. QED
        BY <1>3, <3>1, <4>2
    <3>4. CASE ~(off > 0)
      <4>1. q = Advanced(Stored(t, off, d), Recovered(t.rlist, first + Len(d)) - t.rcv_nxt,
                         Recovered(t.rlist, first + Len(d)))
        BY <1>3, <1>5, <1>9, <2>4, <3>4, Zenon DEF Taken
      <4>2. off = 0 /\ first = t.rcv_nxt
        BY <1>2, <1>7, <3>4
      <4>3. DataDone(t, q, u, g, A, B)
        BY <1>7, <2>1, <2>2, <3>1, <3>2, <4>1, <4>2, TakenInOrder
      <4>. QED
        BY <1>3, <3>1, <4>3
    <3>. QED
      BY <3>3, <3>4
  <2>. QED
    BY <2>3, <2>4
<1>. QED
  BY <1>7, <1>8, <1>9

-----------------------------------------------------------------------------
(* A whole step of an object: t, its peer u, the w bytes written and the    *)
(* bytes g read by its owner, the packets A to it and B from it.            *)
Sound(e, t, u, w, g, A, B) ==
  /\ Typed(t) /\ Typed(u) /\ A \subseteq Pkt /\ B \subseteq Pkt /\ g \in Seq(Nat) /\ w \in Nat
  /\ Linked(t, u, A, B)
  /\ Queued(t, w) /\ Buffered(t, g) /\ Opened(e, t, u, w)
Heard(e, t, u) ==
  /\ u.snd_nxt > 1 => t.rcv_nxt > 0
  /\ e = 1 /\ u.snd_nxt > 0 => u.rcv_nxt > 0
Notes(q, c) == IF q.shutdown = "NONE" THEN c \cup q.told ELSE {}

(* An object that is not closed or deleted.                                 *)
LEMMA SoundLive ==
  ASSUME NEW e, NEW t, NEW u, NEW w, NEW g, NEW A, NEW B, Sound(e, t, u, w, g, A, B), t.state \notin Gone
  PROVE  Live(t, u, A, B) /\ Sized(t, w) /\ (t.state = "LISTEN" => w = 0)
<1>1. Queued(t, w)
  BY DEF Sound
<1>2. Tiled(t) /\ t.snd_una + Len(t.sbuf) = IF t.state = "LISTEN" THEN 0 ELSE w + 1
  BY <1>1, Zenon DEF Queued
<1>3. Sized(t, w)
  BY <1>2, Zenon DEF Sized, Upto
<1>4. t.state = "LISTEN" => w = 0
  BY <1>1, Zenon DEF Queued
<1>. QED
  BY <1>2, <1>3, <1>4, Zenon DEF Sound, Live

(* And the other way round.                                                 *)
LEMMA LiveSound ==
  ASSUME NEW e, NEW t, NEW u, NEW w, NEW g, NEW A, NEW B, Live(t, u, A, B), Sized(t, w), w \in Nat,
         g \in Seq(Nat), t.state = "LISTEN" => w = 0, t.state # "DESTROYED",
         Buffered(t, g), Opened(e, t, u, w)
  PROVE  Sound(e, t, u, w, g, A, B)
<1>1. Typed(t) /\ Tiled(t) /\ t.snd_nxt \in Nat /\ t.snd_nxt <= Upto(t)
  BY DEF Live, Typed, Tiled, Upto
<1>2. Upto(t) = IF t.state = "LISTEN" THEN 0 ELSE w + 1
  BY DEF Sized
<1>3. t.snd_nxt <= w + 1
  BY <1>1, <1>2
<1>4. Queued(t, w)
  BY <1>1, <1>2, <1>3, Zenon DEF Queued, Upto
<1>. QED
  BY <1>4, Zenon DEF Sound, Live

(* The parts of process.                                                    *)
Noticed(u, v, w) ==
  IF v.rlen - v.rpos > u.rlen - u.rpos /\ w.bReadEnable
    THEN Put(Put(w, "bReadEnable", FALSE), "told", w.told \cup {"read"})
    ELSE w
LEMMA ProcessSteps ==
  ASSUME NEW t, NEW seg, NEW c, NEW m, NEW u, u = ProcessAck(ProcessControl(t, seg), seg, m),
         NEW v, v = ProcessData(u, seg)
  PROVE  Process(t, seg, c, m) =
           IF u.state = "CLOSED" THEN u
           ELSE Noticed(u, v, AttemptSend(v, AckFlags(u, seg, v), c, m))
<1>1. PICK w, x : w = AttemptSend(v, AckFlags(u, seg, v), c, m) /\ x = w.told \cup {"read"}
  OBVIOUS
<1>2. Put(Put(w, "bReadEnable", FALSE), "told", x) = [w EXCEPT !.bReadEnable = FALSE, !.told = x]
  BY Zenon DEF Put
<1>. QED
  BY <1>1, <1>2, Zenon DEF Process, Noticed

(* The control data and the acknowledgement together.                       *)
SynDone(t, q, seg, u, w, A, B) ==
  /\ Typed(q) /\ Linked(q, u, A, B) /\ SameBut(t, q, AckFields)
  /\ q.snd_nxt = t.snd_nxt /\ t.told \subseteq q.told
  /\ q.state # "CLOSED" => Live(q, u, A, B) /\ Sized(q, w)
  /\ \/ q.state \in {t.state, "CLOSED"}
     \/ (t.state = "SYN_RECEIVED" /\ q.state = "ESTABLISHED" /\ u.rcv_nxt > 0)
     \/ (t.state = "LISTEN" /\ q.state \in {"SYN_RECEIVED", "ESTABLISHED"} /\ seg.ctl
           /\ (q.state = "ESTABLISHED" => u.rcv_nxt > 0))
     \/ (t.state = "SYN_SENT" /\ q.state = "ESTABLISHED" /\ seg.ctl)
  /\ Tells(t, q)
LEMMA SynAckDone ==
  ASSUME NEW t, NEW u, NEW A, NEW B, Live(t, u, A, B), NEW w, Sized(t, w), t.state = "LISTEN" => w = 0,
         NEW seg, seg \in A, NEW m \in Nat \ {0}, NEW q, q = ProcessAck(ProcessControl(t, seg), seg, m)
  PROVE  SynDone(t, q, seg, u, w, A, B)
<1>1. PICK v : v = ProcessControl(t, seg)
  OBVIOUS
<1>2. CtlDone(t, v, u, w, A, B) /\ (v.state # t.state => seg.ctl)
  BY <1>1, ControlDone
<1>3. /\ Live(v, u, A, B) /\ SameBut(t, v, CtlFields) /\ Sized(v, w) /\ t.told \subseteq v.told
      /\ IF v.state = t.state THEN v = t
         ELSE \/ (t.state = "LISTEN" /\ v.state = "SYN_RECEIVED")
              \/ (t.state = "SYN_SENT" /\ v.state = "ESTABLISHED" /\ {"read", "write"} \subseteq v.told)
  BY <1>2, Zenon DEF CtlDone
<1>4. AckDone(v, q, u, A, B)
  BY <1>1, <1>3, ProcessAckDone
<1>5. /\ Typed(q) /\ Linked(q, u, A, B) /\ SameBut(v, q, AckFields)
      /\ (q.state \in {v.state, "CLOSED"}
            \/ (v.state = "SYN_RECEIVED" /\ q.state = "ESTABLISHED" /\ u.rcv_nxt > 0))
      /\ (q.state # "CLOSED" => Live(q, u, A, B) /\ Upto(q) = Upto(v))
      /\ q.snd_nxt = v.snd_nxt /\ Tells(v, q)
  BY <1>4, Zenon DEF AckDone
<1>6. SameBut(t, q, AckFields) /\ v.snd_nxt = t.snd_nxt
  BY <1>3, <1>5, Zenon DEF SameBut, AckFields, SendFields, CtlFields, Field
<1>7. q.state # "CLOSED" => Sized(q, w)
  <2>1. q.state # "CLOSED" => (q.state = "LISTEN" <=> v.state = "LISTEN")
    BY <1>5
  <2>. QED
    BY <1>3, <1>5, <2>1, Zenon DEF Sized
<1>8. \/ q.state \in {t.state, "CLOSED"}
      \/ (t.state = "SYN_RECEIVED" /\ q.state = "ESTABLISHED" /\ u.rcv_nxt > 0)
      \/ (t.state = "LISTEN" /\ q.state \in {"SYN_RECEIVED", "ESTABLISHED"} /\ seg.ctl
            /\ (q.state = "ESTABLISHED" => u.rcv_nxt > 0))
      \/ (t.state = "SYN_SENT" /\ q.state = "ESTABLISHED" /\ seg.ctl)
  <2>1. CASE v.state = t.state
    BY <1>5, <2>1
  <2>2. CASE v.state # t.state
    <3>1. seg.ctl
      BY <1>2, <2>2
    <3>2. \/ (t.state = "LISTEN" /\ v.state = "SYN_RECEIVED")
          \/ (t.state = "SYN_SENT" /\ v.state = "ESTABLISHED")
      BY <1>3, <2>2
    <3>. QED
      BY <1>5, <3>1, <3>2
  <2>. QED
    BY <2>1, <2>2
<1>9. Tells(t, q)
  <2>1. CASE v.state = t.state
    BY <1>3, <1>5, <2>1, Zenon
  <2>2. CASE v.state # t.state
    <3>1. /\ v.told \subseteq q.told
          /\ "write" \notin q.told /\ q.state = "ESTABLISHED" => v.state = "ESTABLISHED"
      BY <1>5, Zenon DEF Tells
    <3>2. v.state = "ESTABLISHED" => "write" \in v.told
      BY <1>3, <2>2
    <3>3. ~("write" \notin q.told /\ q.state = "ESTABLISHED")
      BY <3>1, <3>2
    <3>. QED
      BY <1>3, <3>1, <3>3, Zenon DEF Tells
  <2>. QED
    BY <2>1, <2>2
<1>10. t.told \subseteq q.told
  BY <1>9 DEF Tells
<1>. QED
  BY <1>5, <1>6, <1>7, <1>8, <1>9, <1>10, Zenon DEF SynDone

(* What a step of t has to show.                                            *)
StepDone(e, t, q, u, w, g, A, B, c) ==
  Sound(e, q, u, w, g, A, B) /\ Informed(q, Notes(q, c)) /\ t.rcv_nxt <= q.rcv_nxt

(* The connection is given up while the acknowledgement is processed.       *)
LEMMA ProcessClosed ==
  ASSUME NEW e \in End, NEW t, NEW u, NEW w, NEW g, NEW A, NEW B, NEW c, Sound(e, t, u, w, g, A, B),
         Informed(t, c), NEW q, q.state = "CLOSED",
         Typed(q), Linked(q, u, A, B), q.snd_nxt = t.snd_nxt, q.rcv_nxt = t.rcv_nxt,
         q.rcv_wnd = t.rcv_wnd, q.rlen = t.rlen, q.rpos = t.rpos, q.rbuf = t.rbuf, q.rlist = t.rlist,
         q.shutdown = t.shutdown, q.bReadEnable = t.bReadEnable
  PROVE  StepDone(e, t, q, u, w, g, A, B, c)
<1>1. Buffered(q, g)
  <2>1. Buffered(t, g)
    BY DEF Sound
  <2>. QED
    BY <2>1, BufferedSame
<1>2. q.state \in Gone /\ q.state # "LISTEN" /\ q.state # "DESTROYED" /\ q.state # "ESTABLISHED"
      /\ q.state # "SYN_RECEIVED" /\ q.state # "SYN_SENT"
  BY DEF Gone
<1>3. Queued(q, w)
  <2>1. t.snd_nxt <= w + 1
    BY DEF Sound, Queued
  <2>. QED
    BY <1>2, <2>1, Zenon DEF Queued
<1>4. Opened(e, q, u, w)
  <2>1. /\ (e = 2 /\ t.snd_nxt > 0 => t.rcv_nxt > 0)
        /\ (w > 0 => u.rcv_nxt > 0)
    BY Zenon DEF Sound, Opened
  <2>2. q.state # IF e = 1 THEN "SYN_RECEIVED" ELSE "SYN_SENT"
    BY <1>2
  <2>3. q.state \notin {"SYN_RECEIVED", "ESTABLISHED"}
    BY <1>2
  <2>. QED
    BY <1>2, <2>1, <2>2, <2>3, Zenon DEF Opened
<1>5. Informed(q, Notes(q, c))
  <2>1. Notes(q, c) # {} => q.shutdown = "NONE"
    BY Zenon DEF Notes
  <2>2. q.shutdown = "NONE" /\ "read" \notin Notes(q, c) => "read" \notin c
    BY Zenon DEF Notes
  <2>3. t.shutdown = "NONE" /\ "read" \notin c => t.rlen = t.rpos /\ t.bReadEnable
    BY Zenon DEF Informed
  <2>. QED
    BY <1>2, <2>1, <2>2, <2>3, Zenon DEF Informed
<1>6. Sound(e, q, u, w, g, A, B)
  BY <1>1, <1>3, <1>4, Zenon DEF Sound
<1>7. t.rcv_nxt <= q.rcv_nxt
  <2>1. q.rcv_nxt \in Nat
    BY DEF Typed
  <2>. QED
    BY <2>1
<1>. QED
  BY <1>5, <1>6, <1>7 DEF StepDone

(* The connect code was sent.                                               *)
LEMMA ControlSent ==
  ASSUME NEW u, NEW seg, u.snd_nxt \in Nat, seg \in Pkt, Carries(u, seg), seg.ctl
  PROVE  u.snd_nxt > 0
<1>1. PICK seq, data : seq = seg.seq /\ data = seg.data /\ seq \in Int /\ data \in Seq(Nat)
  BY DEF Pkt
<1>2. Len(data) = 1
  BY <1>1 DEF Carries
<1>3. data # <<>>
  <2>1. Len(data) # 0
    BY <1>2
  <2>2. data \in Seq(Nat)
    BY <1>1
  <2>. QED
    BY <2>1, <2>2, EmptySeq, Zenon
<1>4. 0 <= seq /\ seq + Len(data) <= u.snd_nxt
  BY <1>1, <1>3, Zenon DEF Carries
<1>. QED
  BY <1>1, <1>2, <1>4

(* The handshake after a packet.                                            *)
LEMMA ProcessOpened ==
  ASSUME NEW e \in End, NEW t, NEW u, NEW w, NEW A, NEW B, NEW seg, Opened(e, t, u, w), Heard(e, t, u),
         Live(t, u, A, B), Sized(t, w), Carries(u, seg), seg \in Pkt,
         NEW q, Typed(q), Tiled(q), Sized(q, w), q.state # "CLOSED", t.state \notin Gone,
         \/ q.state = t.state
         \/ (t.state = "SYN_RECEIVED" /\ q.state = "ESTABLISHED" /\ u.rcv_nxt > 0)
         \/ (t.state = "LISTEN" /\ q.state \in {"SYN_RECEIVED", "ESTABLISHED"} /\ seg.ctl
               /\ (q.state = "ESTABLISHED" => u.rcv_nxt > 0))
         \/ (t.state = "SYN_SENT" /\ q.state = "ESTABLISHED" /\ seg.ctl),
         t.rcv_nxt <= q.rcv_nxt, seg.ctl => q.rcv_nxt > 0
  PROVE  Opened(e, q, u, w)
<1>1. /\ t.rcv_nxt \in Nat /\ q.rcv_nxt \in Nat /\ u.rcv_nxt \in Nat /\ u.snd_nxt \in Nat
      /\ t.snd_nxt \in Nat /\ q.snd_nxt \in Nat
  BY DEF Live, Typed
<1>2. seg.ctl => u.snd_nxt > 0
  BY <1>1, ControlSent
<1>3. seg.ctl /\ e = 1 => t.state # "LISTEN"
  <2>1. t.snd_nxt <= Upto(t) /\ u.rcv_nxt <= t.snd_nxt
    BY DEF Live, Linked, Flow, Tiled, Upto
  <2>2. t.state = "LISTEN" => Upto(t) = 0
    BY DEF Sized
  <2>3. seg.ctl /\ e = 1 => u.rcv_nxt > 0
    BY <1>2 DEF Heard
  <2>. QED
    BY <1>1, <2>1, <2>2, <2>3
<1>4. /\ t.state # (IF e = 1 THEN "SYN_RECEIVED" ELSE "SYN_SENT")
      /\ (t.state \in {"SYN_RECEIVED", "ESTABLISHED"} => t.rcv_nxt > 0)
      /\ (t.state = "ESTABLISHED" \/ w > 0 => u.rcv_nxt > 0)
  BY Zenon DEF Opened
<1>5. e \in {1, 2}
  BY DEF End
<1>6. q.state # IF e = 1 THEN "SYN_RECEIVED" ELSE "SYN_SENT"
  BY <1>3, <1>4, <1>5
<1>7. q.state \in {"SYN_RECEIVED", "ESTABLISHED"} => q.rcv_nxt > 0
  BY <1>1, <1>4
<1>8. e = 2 /\ q.snd_nxt > 0 => q.rcv_nxt > 0
  <2>1. q.snd_nxt <= Upto(q)
    BY DEF Tiled, Upto
  <2>2. q.state = "LISTEN" => Upto(q) = 0
    BY DEF Sized
  <2>3. q.snd_nxt > 0 => q.state # "LISTEN"
    BY <1>1, <2>1, <2>2
  <2>4. q.state \in {"LISTEN", "SYN_SENT", "SYN_RECEIVED", "ESTABLISHED"}
    <3>1. t.state \in {"LISTEN", "SYN_SENT", "SYN_RECEIVED", "ESTABLISHED"} \cup Gone
      BY DEF Live, Typed
    <3>. QED
      BY <3>1
  <2>5. e = 2 => q.state # "SYN_SENT"
    BY <1>6
  <2>. QED
    BY <1>7, <2>3, <2>4, <2>5
<1>9. q.state = "ESTABLISHED" \/ w > 0 => u.rcv_nxt > 0
  <2>1. CASE t.state = "SYN_SENT" /\ q.state = "ESTABLISHED" /\ seg.ctl
    <3>1. e = 1
      BY <1>4, <1>5, <2>1
    <3>2. u.rcv_nxt > 0
      BY <1>2, <2>1, <3>1 DEF Heard
    <3>. QED
      BY <3>2
  <2>2. CASE ~(t.state = "SYN_SENT" /\ q.state = "ESTABLISHED" /\ seg.ctl)
    BY <1>4, <2>2
  <2>. QED
    BY <2>1, <2>2
<1>. QED
  BY <1>6, <1>7, <1>8, <1>9, Zenon DEF Opened

(* The reader is told of new data.                                          *)
LEMMA NoticedLive ==
  ASSUME NEW u, NEW v, NEW s, NEW p, NEW A, NEW B, Live(s, p, A, B), NEW q, q = Noticed(u, v, s)
  PROVE  /\ Live(q, p, A, B) /\ SameBut(s, q, {"bReadEnable", "told"}) /\ s.told \subseteq q.told
         /\ "read" \notin q.told => /\ q.bReadEnable = s.bReadEnable
                                    /\ ~(v.rlen - v.rpos > u.rlen - u.rpos /\ s.bReadEnable)
<1>1. CASE v.rlen - v.rpos > u.rlen - u.rpos /\ s.bReadEnable
  <2>1. PICK x, y : x = Put(s, "bReadEnable", FALSE) /\ y = s.told \cup {"read"}
    OBVIOUS
  <2>2. q = Put(x, "told", y)
    BY <1>1, <2>1, Zenon DEF Noticed
  <2>3. y \subseteq {"read", "write", "close"}
    <3>1. s.told \subseteq {"read", "write", "close"}
      BY DEF Live, Typed
    <3>. QED
      BY <2>1, <3>1
  <2>4. "told" \in Quiet /\ "bReadEnable" \in Quiet /\ Fits("told", y) /\ Fits("bReadEnable", FALSE)
    BY <2>3, Zenon DEF Quiet, Fits
  <2>5. Live(x, p, A, B) /\ SameBut(s, x, {"bReadEnable"})
    BY <2>1, <2>4, PutLive
  <2>6. /\ Live(Put(x, "told", y), p, A, B) /\ SameBut(x, Put(x, "told", y), {"told"})
        /\ Put(x, "told", y)["told"] = y
    BY <2>4, <2>5, PutLive
  <2>7. Live(q, p, A, B) /\ SameBut(x, q, {"told"}) /\ q.told = y
    BY <2>2, <2>6, Zenon
  <2>8. SameBut(s, q, {"bReadEnable", "told"})
    BY <2>5, <2>7, Zenon DEF SameBut
  <2>. QED
    BY <2>1, <2>7, <2>8, Zenon
<1>2. CASE ~(v.rlen - v.rpos > u.rlen - u.rpos /\ s.bReadEnable)
  <2>1. q = s
    BY <1>2, Zenon DEF Noticed
  <2>2. SameBut(s, s, {"bReadEnable", "told"})
    BY Zenon DEF SameBut
  <2>. QED
    BY <1>2, <2>1, <2>2, Zenon
<1>. QED
  BY <1>1, <1>2

(* process: a packet on its way to t.                                       *)
LEMMA ProcessSound ==
  ASSUME NEW e \in End, NEW t, NEW u, NEW w, NEW g, NEW A, NEW B, NEW c, Sound(e, t, u, w, g, A, B),
         t.state \notin Gone, Heard(e, t, u), Informed(t, c), NEW seg, seg \in A, Carries(u, seg),
         NEW cwnd \in Nat \ {0}, NEW m \in Nat \ {0}, NEW q, q = Process(t, seg, cwnd, m)
  PROVE  StepDone(e, t, q, u, w, g, A, B, c)
<1>1. Live(t, u, A, B) /\ Sized(t, w) /\ (t.state = "LISTEN" => w = 0)
  BY SoundLive
<1>2. PICK a, d, s : /\ a = ProcessAck(ProcessControl(t, seg), seg, m) /\ d = ProcessData(a, seg)
                     /\ s = AttemptSend(d, AckFlags(a, seg, d), cwnd, m)
  OBVIOUS
<1>3. SynDone(t, a, seg, u, w, A, B)
  BY <1>1, <1>2, SynAckDone
<1>4. /\ Typed(a) /\ Linked(a, u, A, B) /\ SameBut(t, a, AckFields)
      /\ a.snd_nxt = t.snd_nxt /\ t.told \subseteq a.told /\ Tells(t, a)
      /\ (a.state # "CLOSED" => Live(a, u, A, B) /\ Sized(a, w))
      /\ (\/ a.state \in {t.state, "CLOSED"}
          \/ (t.state = "SYN_RECEIVED" /\ a.state = "ESTABLISHED" /\ u.rcv_nxt > 0)
          \/ (t.state = "LISTEN" /\ a.state \in {"SYN_RECEIVED", "ESTABLISHED"} /\ seg.ctl
                /\ (a.state = "ESTABLISHED" => u.rcv_nxt > 0))
          \/ (t.state = "SYN_SENT" /\ a.state = "ESTABLISHED" /\ seg.ctl))
  BY <1>3, Zenon DEF SynDone
<1>5. /\ a.shutdown = t.shutdown /\ a.mtu_advise = t.mtu_advise
      /\ a.rcv_nxt = t.rcv_nxt /\ a.rcv_wnd = t.rcv_wnd /\ a.rlen = t.rlen /\ a.rpos = t.rpos
      /\ a.rbuf = t.rbuf /\ a.rlist = t.rlist /\ a.bReadEnable = t.bReadEnable
  BY <1>4, AckSame
<1>6. q = IF a.state = "CLOSED" THEN a ELSE Noticed(a, d, s)
  BY <1>2, ProcessSteps
<1>7. CASE a.state = "CLOSED"
  <2>1. q = a
    BY <1>6, <1>7
  <2>2. StepDone(e, t, a, u, w, g, A, B, c)
    BY <1>4, <1>5, <1>7, ProcessClosed
  <2>. QED
    BY <2>1, <2>2
<1>8. CASE a.state # "CLOSED"
  <2>1. q = Noticed(a, d, s) /\ Live(a, u, A, B) /\ Sized(a, w)
    BY <1>4, <1>6, <1>8
  <2>2. g \in Seq(Nat) /\ w \in Nat /\ Buffered(t, g) /\ A \subseteq Pkt /\ Opened(e, t, u, w)
    BY DEF Sound
  <2>3. Buffered(a, g)
    BY <1>5, <2>2, BufferedSame
  <2>4. u.snd_nxt > 1 => a.rcv_nxt > 0
    BY <1>5 DEF Heard
  <2>5. DataDone(a, d, u, g, A, B) /\ (seg.ctl => d.rcv_nxt > 0)
    <3>1. seg \in Pkt
      BY <2>2
    <3>. QED
      BY <1>2, <2>1, <2>2, <2>3, <2>4, <3>1, ProcessDataDone
  <2>6. Live(d, u, A, B) /\ SameBut(a, d, DataFields) /\ Buffered(d, g) /\ a.rcv_nxt <= d.rcv_nxt
    BY <2>5 DEF DataDone
  <2>7. Pushed(d, s, u, A, B) /\ Flushed(s)
    BY <1>2, <2>6, AttemptSendLive
  <2>8. Live(s, u, A, B) /\ SameBut(d, s, SendFields)
    BY <2>7 DEF Pushed
  <2>9. /\ Live(q, u, A, B) /\ SameBut(s, q, {"bReadEnable", "told"}) /\ s.told \subseteq q.told
        /\ ("read" \notin q.told => /\ q.bReadEnable = s.bReadEnable
                                    /\ ~(d.rlen - d.rpos > a.rlen - a.rpos /\ s.bReadEnable))
    BY <2>1, <2>8, NoticedLive
  <2>10. /\ q.state = s.state /\ q.shutdown = s.shutdown /\ q.snd_una = s.snd_una
         /\ q.snd_nxt = s.snd_nxt /\ q.snd_wnd = s.snd_wnd /\ q.sbuf = s.sbuf
         /\ q.rcv_nxt = s.rcv_nxt /\ q.rcv_wnd = s.rcv_wnd /\ q.rlen = s.rlen /\ q.rpos = s.rpos
         /\ q.rbuf = s.rbuf /\ q.rlist = s.rlist /\ q.bWriteEnable = s.bWriteEnable
    BY <2>9, Zenon DEF SameBut, Field
  <2>11. /\ s.state = d.state /\ s.shutdown = d.shutdown /\ s.snd_una = d.snd_una
         /\ s.snd_wnd = d.snd_wnd /\ s.sbuf = d.sbuf
         /\ s.rcv_nxt = d.rcv_nxt /\ s.rcv_wnd = d.rcv_wnd /\ s.rlen = d.rlen /\ s.rpos = d.rpos
         /\ s.rbuf = d.rbuf /\ s.rlist = d.rlist /\ s.bWriteEnable = d.bWriteEnable
         /\ s.bReadEnable = d.bReadEnable /\ s.told = d.told
    BY <2>8, SameSent
  <2>12. /\ d.state = a.state /\ d.shutdown = a.shutdown /\ d.snd_una = a.snd_una /\ d.sbuf = a.sbuf
         /\ d.bWriteEnable = a.bWriteEnable /\ d.bReadEnable = a.bReadEnable /\ d.told = a.told
    BY <2>6, Zenon DEF SameBut, Field, DataFields
  <2>13. Buffered(q, g)
    BY <2>6, <2>10, <2>11, BufferedSame
  <2>14. Sized(q, w) /\ q.state = a.state
    BY <2>1, <2>10, <2>11, <2>12, Zenon DEF Sized, Upto
  <2>15. t.rcv_nxt <= q.rcv_nxt /\ (seg.ctl => q.rcv_nxt > 0)
    BY <1>5, <2>5, <2>6, <2>10, <2>11
  <2>16. Opened(e, q, u, w)
    <3>1. Typed(q) /\ Tiled(q)
      BY <2>9 DEF Live
    <3>2. q.state # "CLOSED" /\ seg \in Pkt
      BY <1>8, <2>2, <2>14
    <3>3. \/ q.state = t.state
          \/ (t.state = "SYN_RECEIVED" /\ q.state = "ESTABLISHED" /\ u.rcv_nxt > 0)
          \/ (t.state = "LISTEN" /\ q.state \in {"SYN_RECEIVED", "ESTABLISHED"} /\ seg.ctl
                /\ (q.state = "ESTABLISHED" => u.rcv_nxt > 0))
          \/ (t.state = "SYN_SENT" /\ q.state = "ESTABLISHED" /\ seg.ctl)
      BY <1>4, <1>8, <2>14
    <3>. QED
      BY <1>1, <2>2, <2>14, <2>15, <3>1, <3>2, <3>3, ProcessOpened
  <2>17. (q.state = "LISTEN" => w = 0) /\ q.state # "DESTROYED"
    <3>1. t.state # "DESTROYED"
      BY DEF Gone
    <3>. QED
      BY <1>1, <1>4, <1>8, <2>14, <3>1
  <2>18. Sound(e, q, u, w, g, A, B)
    BY <2>2, <2>9, <2>13, <2>14, <2>16, <2>17, LiveSound
  <2>19. q.shutdown = t.shutdown
    BY <1>5, <2>10, <2>11, <2>12
  <2>20. Notes(q, c) # {} => q.shutdown = "NONE"
    BY Zenon DEF Notes
  <2>21. q.shutdown = "NONE" /\ "read" \notin Notes(q, c) => q.rlen = q.rpos /\ q.bReadEnable
    <3>. SUFFICES ASSUME q.shutdown = "NONE", "read" \notin Notes(q, c)
                  PROVE  q.rlen = q.rpos /\ q.bReadEnable
      OBVIOUS
    <3>1. "read" \notin c /\ "read" \notin q.told
      BY Zenon DEF Notes
    <3>2. t.rlen = t.rpos /\ t.bReadEnable
      BY <2>19, <3>1, Zenon DEF Informed
    <3>3. s.bReadEnable = t.bReadEnable /\ q.bReadEnable = s.bReadEnable
      BY <1>5, <2>9, <2>11, <2>12, <3>1
    <3>4. ~(d.rlen - d.rpos > a.rlen - a.rpos)
      BY <2>9, <3>1, <3>2, <3>3, Zenon
    <3>5. /\ a.rlen = a.rpos /\ q.rlen = d.rlen /\ q.rpos = d.rpos
      BY <1>5, <2>10, <2>11, <3>2
    <3>6. a.rlen \in Nat /\ d.rlen \in Nat /\ d.rpos \in Nat /\ d.rpos <= d.rlen
      BY <2>1, <2>6, ReceiverTypes DEF Live, Buffered
    <3>7. d.rlen = d.rpos
      BY <3>4, <3>5, <3>6
    <3>. QED
      BY <3>2, <3>3, <3>5, <3>7, Zenon
  <2>22. q.state = "ESTABLISHED" /\ q.shutdown = "NONE" /\ "write" \notin Notes(q, c) =>
           q.bWriteEnable /\ Len(q.sbuf) >= kIdealRefillSize
    <3>. SUFFICES ASSUME q.state = "ESTABLISHED", q.shutdown = "NONE", "write" \notin Notes(q, c)
                  PROVE  q.bWriteEnable /\ Len(q.sbuf) >= kIdealRefillSize
      OBVIOUS
    <3>1. "write" \notin c /\ "write" \notin q.told
      BY Zenon DEF Notes
    <3>2. "write" \notin a.told
      BY <2>9, <2>11, <2>12, <3>1
    <3>3. /\ t.state = "ESTABLISHED"
          /\ (t.bWriteEnable => a.bWriteEnable)
          /\ (t.bWriteEnable /\ Len(t.sbuf) >= kIdealRefillSize => Len(a.sbuf) >= kIdealRefillSize)
      BY <1>4, <2>14, <3>2, Zenon DEF Tells
    <3>4. t.bWriteEnable /\ Len(t.sbuf) >= kIdealRefillSize
      BY <2>19, <3>1, <3>3, Zenon DEF Informed
    <3>5. q.bWriteEnable = a.bWriteEnable /\ q.sbuf = a.sbuf
      BY <2>10, <2>11, <2>12
    <3>. QED
      BY <3>3, <3>4, <3>5, Zenon
  <2>23. q.state = "ESTABLISHED" /\ q.snd_una = q.snd_nxt /\ q.snd_wnd # 0 => q.sbuf = <<>>
    BY <2>7, <2>10, Zenon DEF Flushed
  <2>24. Informed(q, Notes(q, c))
    BY <2>20, <2>21, <2>22, <2>23, Zenon DEF Informed
  <2>. QED
    BY <2>15, <2>18, <2>24 DEF StepDone
<1>. QED
  BY <1>7, <1>8

-----------------------------------------------------------------------------
(* The other steps.  A step that leaves what is sent, received and told as  *)
(* it is, or shuts the object down.                                         *)
LEMMA KeptSound ==
  ASSUME NEW e \in End, NEW t, NEW u, NEW w, NEW g, NEW A, NEW B, NEW c, Sound(e, t, u, w, g, A, B),
         t.state \notin Gone, Informed(t, c), NEW q, Live(q, u, A, B), Buffered(q, g),
         q.shutdown \in {t.shutdown, "GRACEFUL", "FORCEFUL"},
         q.state = t.state, q.snd_una = t.snd_una, q.snd_nxt = t.snd_nxt, q.snd_wnd = t.snd_wnd,
         q.sbuf = t.sbuf, q.rcv_nxt = t.rcv_nxt, q.rlen = t.rlen, q.rpos = t.rpos,
         q.bReadEnable = t.bReadEnable, q.bWriteEnable = t.bWriteEnable
  PROVE  StepDone(e, t, q, u, w, g, A, B, c)
<1>1. Live(t, u, A, B) /\ Sized(t, w) /\ (t.state = "LISTEN" => w = 0)
  BY SoundLive
<1>2. w \in Nat /\ g \in Seq(Nat) /\ Opened(e, t, u, w)
  BY DEF Sound
<1>3. Sized(q, w)
  BY <1>1, Zenon DEF Sized, Upto
<1>4. Opened(e, q, u, w)
  BY <1>2, Zenon DEF Opened
<1>5. q.state # "DESTROYED"
  BY DEF Gone
<1>6. Sound(e, q, u, w, g, A, B)
  BY <1>1, <1>2, <1>3, <1>4, <1>5, LiveSound
<1>7. t.rcv_nxt <= q.rcv_nxt
  <2>1. t.rcv_nxt \in Nat
    BY <1>1 DEF Live, Typed
  <2>. QED
    BY <2>1
<1>8. Notes(q, c) # {} => q.shutdown = "NONE"
  BY Zenon DEF Notes
<1>9. q.shutdown = "NONE" => t.shutdown = "NONE" /\ c \subseteq Notes(q, c)
  BY Zenon DEF Notes
<1>10. Informed(q, Notes(q, c))
  <2>1. q.shutdown = "NONE" /\ "read" \notin Notes(q, c) => q.rlen = q.rpos /\ q.bReadEnable
    BY <1>9, Zenon DEF Informed
  <2>2. q.state = "ESTABLISHED" /\ q.shutdown = "NONE" /\ "write" \notin Notes(q, c) =>
          q.bWriteEnable /\ Len(q.sbuf) >= kIdealRefillSize
    BY <1>9, Zenon DEF Informed
  <2>3. q.state = "ESTABLISHED" /\ q.snd_una = q.snd_nxt /\ q.snd_wnd # 0 => q.sbuf = <<>>
    BY Zenon DEF Informed
  <2>. QED
    BY <1>8, <2>1, <2>2, <2>3, Zenon DEF Informed
<1>. QED
  BY <1>6, <1>7, <1>10 DEF StepDone

(* The connection is given up by a timer.                                   *)
LEMMA GivenUp ==
  ASSUME NEW e \in End, NEW t, NEW u, NEW w, NEW g, NEW A, NEW B, NEW c, Sound(e, t, u, w, g, A, B),
         Informed(t, c), NEW s, Live(s, u, A, B), SameBut(t, s, SendFields), s.snd_nxt = t.snd_nxt,
         NEW q, q = Closedown(s)
  PROVE  StepDone(e, t, q, u, w, g, A, B, c)
<1>1. /\ Typed(q) /\ Linked(q, u, A, B) /\ SameBut(s, q, {"state", "sbuf", "told"})
      /\ q.state = "CLOSED"
  BY ClosedownLinked
<1>2. /\ q.snd_nxt = s.snd_nxt /\ q.rcv_nxt = s.rcv_nxt
      /\ q.rcv_wnd = s.rcv_wnd /\ q.rlen = s.rlen /\ q.rpos = s.rpos /\ q.rbuf = s.rbuf
      /\ q.rlist = s.rlist /\ q.shutdown = s.shutdown /\ q.bReadEnable = s.bReadEnable
  BY <1>1, Zenon DEF SameBut, Field
<1>3. /\ s.rcv_nxt = t.rcv_nxt
      /\ s.rcv_wnd = t.rcv_wnd /\ s.rlen = t.rlen /\ s.rpos = t.rpos /\ s.rbuf = t.rbuf
      /\ s.rlist = t.rlist /\ s.shutdown = t.shutdown /\ s.bReadEnable = t.bReadEnable
  BY SameSent
<1>4. /\ q.snd_nxt = t.snd_nxt /\ q.rcv_nxt = t.rcv_nxt
      /\ q.rcv_wnd = t.rcv_wnd /\ q.rlen = t.rlen /\ q.rpos = t.rpos /\ q.rbuf = t.rbuf
      /\ q.rlist = t.rlist /\ q.shutdown = t.shutdown /\ q.bReadEnable = t.bReadEnable
  BY <1>2, <1>3, Zenon
<1>. QED
  BY <1>1, <1>4, ProcessClosed

(* NotifyClock.                                                             *)
LEMMA ClockSound ==
  ASSUME NEW e \in End, NEW t, NEW u, NEW w, NEW g, NEW A, NEW B, NEW c, Sound(e, t, u, w, g, A, B),
         t.state \notin Gone, Informed(t, c), NEW r, NEW p, NEW a, NEW silent, ClockDue(t, r, p, a),
         NEW m \in Nat \ {0}, NEW q, q = Clock(t, r, p, a, silent, m)
  PROVE  StepDone(e, t, q, u, w, g, A, B, c)
<1>1. Live(t, u, A, B)
  BY SoundLive
<1>2. SameBut(t, t, SendFields)
  BY Zenon DEF SameBut
<1>3. CASE r /\ Exhausted(t, 1)
  <2>1. q = Closedown(t)
    BY <1>3, Zenon DEF Clock
  <2>. QED
    BY <1>1, <1>2, <2>1, GivenUp
<1>4. CASE ~(r /\ Exhausted(t, 1))
  <2>1. PICK s : s = IF r THEN Transmit(t, 1, m) ELSE t
    OBVIOUS
  <2>2. Live(s, u, A, B) /\ SameBut(t, s, SendFields) /\ s.snd_nxt = t.snd_nxt
    <3>1. CASE r
      <4>1. t.snd_una < t.snd_nxt
        BY <1>1, <3>1 DEF ClockDue, Live, Tiled
      <4>2. s = Transmit(t, 1, m)
        BY <2>1, <3>1
      <4>. QED
        BY <1>1, <4>1, <4>2, AgainLive
    <3>2. CASE ~r
      BY <1>1, <1>2, <2>1, <3>2
    <3>. QED
      BY <3>1, <3>2
  <2>3. CASE p /\ silent
    <3>1. q = Closedown(s)
      BY <1>4, <2>1, <2>3, Zenon DEF Clock
    <3>. QED
      BY <2>2, <3>1, GivenUp
  <2>4. CASE ~(p /\ silent)
    <3>1. PICK v : v = IF p THEN Packet(s, s.snd_nxt - 1, FALSE, <<>>) ELSE s
      OBVIOUS
    <3>2. Live(v, u, A, B) /\ SameBut(s, v, {"out", "t_ack"})
      <4>1. s.snd_nxt \in Nat
        BY <2>2 DEF Live, Typed
      <4>2. s.snd_nxt - 1 \in Int
        BY <4>1
      <4>3. SameBut(s, s, {"out", "t_ack"})
        BY Zenon DEF SameBut
      <4>. QED
        BY <2>2, <3>1, <4>2, <4>3, PacketLive, Zenon
    <3>3. q = IF a /\ v.t_ack THEN Packet(v, v.snd_nxt, FALSE, <<>>) ELSE v
      BY <1>4, <2>1, <2>4, <3>1, Zenon DEF Clock
    <3>4. Live(q, u, A, B) /\ SameBut(v, q, {"out", "t_ack"})
      <4>1. v.snd_nxt \in Int
        <5>1. v.snd_nxt \in Nat
          BY <3>2 DEF Live, Typed
        <5>. QED
          BY <5>1
      <4>2. SameBut(v, v, {"out", "t_ack"})
        BY Zenon DEF SameBut
      <4>. QED
        BY <3>2, <3>3, <4>1, <4>2, PacketLive, Zenon
    <3>5. SameBut(s, q, {"out", "t_ack"})
      BY <3>2, <3>4, Zenon DEF SameBut
    <3>6. SameBut(t, q, SendFields) /\ q.snd_nxt = t.snd_nxt
      BY <2>2, <3>5, Zenon DEF SameBut, SendFields, Field
    <3>7. /\ q.state = t.state /\ q.shutdown = t.shutdown
          /\ q.snd_una = t.snd_una /\ q.snd_wnd = t.snd_wnd /\ q.sbuf = t.sbuf
          /\ q.rcv_nxt = t.rcv_nxt /\ q.rcv_wnd = t.rcv_wnd /\ q.rlen = t.rlen /\ q.rpos = t.rpos
          /\ q.rbuf = t.rbuf /\ q.rlist = t.rlist
          /\ q.bReadEnable = t.bReadEnable /\ q.bWriteEnable = t.bWriteEnable
      BY <3>6, SameSent
    <3>8. Buffered(q, g)
      <4>1. Buffered(t, g)
        BY DEF Sound
      <4>. QED
        BY <3>7, <4>1, BufferedSame
    <3>. QED
      BY <3>4, <3>6, <3>7, <3>8, KeptSound
  <2>. QED
    BY <2>3, <2>4
<1>. QED
  BY <1>3, <1>4

(* NotifyMTU.                                                               *)
LEMMA MtuSound ==
  ASSUME NEW e \in End, NEW t, NEW u, NEW w, NEW g, NEW A, NEW B, NEW c, Sound(e, t, u, w, g, A, B),
         t.state \notin Gone, Informed(t, c), NEW x \in Nat \ {0}, NEW y \in Nat \ {0},
         NEW q, q = Put(Put(t, "mtu_advise", x), "mss", y)
  PROVE  StepDone(e, t, q, u, w, g, A, B, c)
<1>1. Live(t, u, A, B)
  BY SoundLive
<1>2. PICK v : v = Put(t, "mtu_advise", x)
  OBVIOUS
<1>3. "mtu_advise" \in Quiet /\ "mss" \in Quiet /\ Fits("mtu_advise", x) /\ Fits("mss", y)
  BY Zenon DEF Quiet, Fits
<1>4. Live(v, u, A, B) /\ SameBut(t, v, {"mtu_advise"})
  BY <1>1, <1>2, <1>3, PutLive
<1>5. Live(q, u, A, B) /\ SameBut(v, q, {"mss"})
  BY <1>2, <1>3, <1>4, PutLive
<1>6. SameBut(t, q, {"mtu_advise", "mss"})
  BY <1>4, <1>5, Zenon DEF SameBut
<1>7. /\ q.state = t.state /\ q.shutdown = t.shutdown /\ q.snd_nxt = t.snd_nxt
      /\ q.snd_una = t.snd_una /\ q.snd_wnd = t.snd_wnd /\ q.sbuf = t.sbuf
      /\ q.rcv_nxt = t.rcv_nxt /\ q.rcv_wnd = t.rcv_wnd /\ q.rlen = t.rlen /\ q.rpos = t.rpos
      /\ q.rbuf = t.rbuf /\ q.rlist = t.rlist
      /\ q.bReadEnable = t.bReadEnable /\ q.bWriteEnable = t.bWriteEnable
  BY <1>6, Zenon DEF SameBut, Field
<1>8. Buffered(q, g)
  <2>1. Buffered(t, g)
    BY DEF Sound
  <2>. QED
    BY <1>7, <2>1, BufferedSame
<1>. QED
  BY <1>5, <1>7, <1>8, KeptSound

(* Close.                                                                   *)
LEMMA CloseSound ==
  ASSUME NEW e \in End, NEW t, NEW u, NEW w, NEW g, NEW A, NEW B, NEW c, Sound(e, t, u, w, g, A, B),
         t.state \notin Gone, Informed(t, c), NEW x \in {"GRACEFUL", "FORCEFUL"},
         NEW q, q = Put(t, "shutdown", x)
  PROVE  StepDone(e, t, q, u, w, g, A, B, c)
<1>1. Live(t, u, A, B)
  BY SoundLive
<1>2. "shutdown" \in Quiet /\ Fits("shutdown", x) /\ x # "NONE"
  BY Zenon DEF Quiet, Fits
<1>3. Live(q, u, A, B) /\ SameBut(t, q, {"shutdown"}) /\ q.shutdown = x
  BY <1>1, <1>2, PutLive
<1>4. /\ q.state = t.state /\ q.snd_nxt = t.snd_nxt
      /\ q.snd_una = t.snd_una /\ q.snd_wnd = t.snd_wnd /\ q.sbuf = t.sbuf
      /\ q.rcv_nxt = t.rcv_nxt /\ q.rcv_wnd = t.rcv_wnd /\ q.rlen = t.rlen /\ q.rpos = t.rpos
      /\ q.rbuf = t.rbuf /\ q.rlist = t.rlist
      /\ q.bReadEnable = t.bReadEnable /\ q.bWriteEnable = t.bWriteEnable
  BY <1>3, Zenon DEF SameBut, Field
<1>5. Buffered(q, g)
  <2>1. Buffered(t, g)
    BY DEF Sound
  <2>2. q.shutdown # "NONE"
    BY <1>2, <1>3
  <2>. QED
    BY <1>4, <2>1, <2>2, Zenon DEF Buffered, getReceiveBufferSpace
<1>6. q.shutdown \in {t.shutdown, "GRACEFUL", "FORCEFUL"}
  BY <1>3
<1>. QED
  BY <1>3, <1>4, <1>5, <1>6, KeptSound

(* AdjustClock: an object that clock_check gives up is deleted.             *)
LEMMA DeletedSound ==
  ASSUME NEW e \in End, NEW t, NEW s, NEW u, NEW w, NEW g, NEW A, NEW B, NEW c,
         StepDone(e, t, s, u, w, g, A, B, c), ~ClockCheck(s), NEW q, q = Put(s, "state", Deleted(s))
  PROVE  StepDone(e, t, q, u, w, g, A, B, c)
<1>1. /\ Typed(s) /\ Typed(u) /\ A \subseteq Pkt /\ B \subseteq Pkt /\ g \in Seq(Nat) /\ w \in Nat
      /\ Linked(s, u, A, B) /\ Queued(s, w) /\ Buffered(s, g) /\ Opened(e, s, u, w)
      /\ t.rcv_nxt <= s.rcv_nxt
  BY Zenon DEF StepDone, Sound
<1>2. Deleted(s) \in {"DESTROYED", "ABORTED"}
  BY DEF Deleted
<1>3. Unaltered(s) /\ "state" \in Field
  BY <1>1, Zenon DEF Typed, Field
<1>4. Unaltered(q) /\ SameBut(s, q, {"state"}) /\ q.state = Deleted(s)
  BY <1>3, PutFields
<1>5. /\ q.shutdown = s.shutdown /\ q.snd_nxt = s.snd_nxt /\ q.slist = s.slist /\ q.out = s.out
      /\ q.snd_una = s.snd_una /\ q.snd_wnd = s.snd_wnd /\ q.sbuf = s.sbuf
      /\ q.rcv_nxt = s.rcv_nxt /\ q.rcv_wnd = s.rcv_wnd /\ q.rlen = s.rlen /\ q.rpos = s.rpos
      /\ q.rbuf = s.rbuf /\ q.rlist = s.rlist
  BY <1>4, Zenon DEF SameBut, Field
<1>6. /\ q.state \in Gone /\ q.state # "LISTEN" /\ q.state # "ESTABLISHED"
      /\ q.state # "SYN_RECEIVED" /\ q.state # "SYN_SENT"
  BY <1>2, <1>4 DEF Gone
<1>7. Typed(q)
  <2>1. q.state \in {"LISTEN", "SYN_SENT", "SYN_RECEIVED", "ESTABLISHED"} \cup Gone
    BY <1>6
  <2>. QED
    BY <1>1, <1>4, <2>1, Zenon DEF Typed, SameBut, Field
<1>8. Linked(q, u, A, B)
  BY <1>1, <1>5, LinkedSame
<1>9. s.shutdown # "NONE" /\ (s.state = "ESTABLISHED" => s.sbuf = <<>>)
  BY Zenon DEF ClockCheck
<1>10. Queued(q, w)
  <2>1. q.state = "DESTROYED" => q.snd_una = w + 1
    <3>. SUFFICES ASSUME q.state = "DESTROYED" PROVE q.snd_una = w + 1
      OBVIOUS
    <3>1. s.state = "ESTABLISHED"
      BY <1>4 DEF Deleted
    <3>2. s.state \notin Gone /\ s.state # "LISTEN"
      BY <3>1 DEF Gone
    <3>3. s.snd_una + Len(s.sbuf) = w + 1
      BY <1>1, <3>2, Zenon DEF Queued
    <3>4. Len(s.sbuf) = 0 /\ s.snd_una \in Nat
      BY <1>1, <1>9, <3>1 DEF Typed
    <3>. QED
      BY <1>5, <3>3, <3>4
  <2>2. q.snd_nxt <= w + 1
    BY <1>1, <1>5 DEF Queued
  <2>. QED
    BY <1>6, <2>1, <2>2, Zenon DEF Queued
<1>11. Buffered(q, g)
  BY <1>1, <1>5, BufferedSame
<1>12. Opened(e, q, u, w)
  <2>1. /\ (e = 2 /\ s.snd_nxt > 0 => s.rcv_nxt > 0)
        /\ (w > 0 => u.rcv_nxt > 0)
    BY <1>1, Zenon DEF Opened
  <2>2. q.state # IF e = 1 THEN "SYN_RECEIVED" ELSE "SYN_SENT"
    BY <1>6
  <2>3. q.state \notin {"SYN_RECEIVED", "ESTABLISHED"}
    BY <1>6
  <2>. QED
    BY <1>5, <1>6, <2>1, <2>2, <2>3, Zenon DEF Opened
<1>13. Informed(q, Notes(q, c))
  <2>1. q.shutdown # "NONE"
    BY <1>5, <1>9
  <2>2. Notes(q, c) = {}
    BY <2>1, Zenon DEF Notes
  <2>. QED
    BY <1>6, <2>1, <2>2, Zenon DEF Informed
<1>14. Sound(e, q, u, w, g, A, B)
  BY <1>1, <1>7, <1>8, <1>10, <1>11, <1>12, Zenon DEF Sound
<1>. QED
  BY <1>1, <1>5, <1>13, <1>14, Zenon DEF StepDone

(* Connect.                                                                 *)
LEMMA ConnectSound ==
  ASSUME NEW t, NEW u, NEW w, NEW g, NEW A, NEW B, NEW c, Sound(1, t, u, w, g, A, B),
         t.state = "LISTEN", Informed(t, c), NEW cwnd \in Nat \ {0}, NEW m \in Nat \ {0},
         NEW q, q = AttemptSend(Connecting(t, "SYN_SENT"), "none", cwnd, m)
  PROVE  StepDone(1, t, q, u, w, g, A, B, c)
<1>1. t.state \notin Gone
  BY DEF Gone
<1>2. Live(t, u, A, B) /\ Sized(t, w) /\ w = 0
  BY <1>1, SoundLive
<1>3. PICK s : s = Connecting(t, "SYN_SENT")
  OBVIOUS
<1>4. /\ Live(s, u, A, B) /\ SameBut(t, s, {"state", "sbuf", "slist"})
      /\ s.state = "SYN_SENT" /\ Sized(s, w)
  BY <1>2, <1>3, ConnectQueued
<1>5. Pushed(s, q, u, A, B)
  BY <1>3, <1>4, AttemptSendLive
<1>6. Live(q, u, A, B) /\ SameBut(s, q, SendFields)
  BY <1>5 DEF Pushed
<1>7. /\ q.state = s.state /\ q.shutdown = s.shutdown
      /\ q.snd_una = s.snd_una /\ q.sbuf = s.sbuf
      /\ q.rcv_nxt = s.rcv_nxt /\ q.rcv_wnd = s.rcv_wnd /\ q.rlen = s.rlen /\ q.rpos = s.rpos
      /\ q.rbuf = s.rbuf /\ q.rlist = s.rlist /\ q.bReadEnable = s.bReadEnable
  BY <1>6, SameSent
<1>8. /\ s.shutdown = t.shutdown
      /\ s.rcv_nxt = t.rcv_nxt /\ s.rcv_wnd = t.rcv_wnd /\ s.rlen = t.rlen /\ s.rpos = t.rpos
      /\ s.rbuf = t.rbuf /\ s.rlist = t.rlist /\ s.bReadEnable = t.bReadEnable
  BY <1>4, Zenon DEF SameBut, Field
<1>9. /\ q.state = "SYN_SENT" /\ q.state # "LISTEN" /\ q.state # "ESTABLISHED"
      /\ q.state # "DESTROYED" /\ q.state # "SYN_RECEIVED"
  BY <1>4, <1>7
<1>10. Sized(q, w)
  BY <1>4, <1>7, Zenon DEF Sized, Upto
<1>11. g \in Seq(Nat) /\ w \in Nat /\ Buffered(t, g)
  BY DEF Sound
<1>12. Buffered(q, g)
  BY <1>7, <1>8, <1>11, BufferedSame
<1>13. Opened(1, q, u, w)
  <2>1. q.state # IF 1 = 1 THEN "SYN_RECEIVED" ELSE "SYN_SENT"
    BY <1>9
  <2>2. q.state \notin {"SYN_RECEIVED", "ESTABLISHED"}
    BY <1>9
  <2>3. ~(q.state = "ESTABLISHED" \/ w > 0)
    BY <1>2, <1>9
  <2>4. ~(1 = 2 /\ q.snd_nxt > 0)
    OBVIOUS
  <2>. QED
    BY <2>1, <2>2, <2>3, <2>4, Zenon DEF Opened
<1>14. Sound(1, q, u, w, g, A, B)
  BY <1>6, <1>9, <1>10, <1>11, <1>12, <1>13, LiveSound
<1>15. Informed(q, Notes(q, c))
  <2>1. Notes(q, c) # {} => q.shutdown = "NONE"
    BY Zenon DEF Notes
  <2>2. q.shutdown = "NONE" => t.shutdown = "NONE" /\ c \subseteq Notes(q, c)
    BY <1>7, <1>8, Zenon DEF Notes
  <2>3. q.shutdown = "NONE" /\ "read" \notin Notes(q, c) => q.rlen = q.rpos /\ q.bReadEnable
    <3>1. t.shutdown = "NONE" /\ "read" \notin c => t.rlen = t.rpos /\ t.bReadEnable
      BY Zenon DEF Informed
    <3>2. q.rlen = t.rlen /\ q.rpos = t.rpos /\ q.bReadEnable = t.bReadEnable
      BY <1>7, <1>8
    <3>. QED
      BY <2>2, <3>1, <3>2, Zenon
  <2>. QED
    BY <1>9, <2>1, <2>3, Zenon DEF Informed
<1>16. t.rcv_nxt <= q.rcv_nxt
  <2>1. q.rcv_nxt \in Nat
    BY <1>6 DEF Live, Typed
  <2>. QED
    BY <1>7, <1>8, <2>1
<1>. QED
  BY <1>14, <1>15, <1>16 DEF StepDone

(* Send, when the buffer has room: k more bytes are queued.                 *)
Written(w, k) == [i \in 1..k |-> w + i]
Sending(t, d, cwnd, m) == AttemptSend(Queue(t, d, FALSE), "none", cwnd, m)
SpaceFor(t, k) == Len(t.sbuf) + k <= SndBufSize
LEMMA SendSound ==
  ASSUME NEW e \in End, NEW t, NEW u, NEW w, NEW g, NEW A, NEW B, NEW c, Sound(e, t, u, w, g, A, B),
         t.state = "ESTABLISHED", Informed(t, c), "write" \in c, NEW k \in Nat \ {0},
         SpaceFor(t, k), NEW d, d = Written(w, k),
         NEW cwnd \in Nat \ {0}, NEW m \in Nat \ {0},
         NEW q, q = Sending(t, d, cwnd, m)
  PROVE  StepDone(e, t, q, u, w + k, g, A, B, c)
<1>1. t.state \notin Gone /\ t.state # "LISTEN"
  BY DEF Gone
<1>2. Live(t, u, A, B) /\ Sized(t, w) /\ w \in Nat /\ g \in Seq(Nat) /\ Buffered(t, g)
  BY <1>1, SoundLive DEF Sound
<1>3. t.snd_una + Len(t.sbuf) = w + 1
  BY <1>1, <1>2 DEF Sized, Upto
<1>4. PICK s, b : s = Queue(t, d, b) /\ b = FALSE
  OBVIOUS
<1>5. d \in Seq(Nat) /\ Len(d) = k /\ \A j \in 1..k : d[j] = w + j
  BY <1>2 DEF Written
<1>6. /\ Live(s, u, A, B) /\ SameBut(t, s, {"sbuf", "slist"})
      /\ Len(s.sbuf) = Len(t.sbuf) + k
  <2>1. \A j \in 1..Len(d) : d[j] = t.snd_una + Len(t.sbuf) + j - 1
    BY <1>2, <1>3, <1>5
  <2>2. Len(d) > 0 /\ Len(t.sbuf) + Len(d) <= SndBufSize /\ d \in Seq(Nat)
    BY <1>5 DEF SpaceFor
  <2>3. b \in BOOLEAN /\ (b => Len(d) = 1)
    BY <1>4
  <2>4. b <=> t.snd_una + Len(t.sbuf) = 0
    BY <1>2, <1>3, <1>4
  <2>5. /\ Live(Queue(t, d, b), u, A, B)
        /\ SameBut(t, Queue(t, d, b), {"sbuf", "slist"})
        /\ Len(Queue(t, d, b).sbuf) = Len(t.sbuf) + Len(d)
    <3>1. Live(t, u, A, B)
      BY <1>2
    <3>. QED
      BY <2>1, <2>2, <2>3, <2>4, <3>1, QueueLive, SMTT(30)
  <2>. QED
    BY <1>4, <1>5, <2>5, Zenon
<1>7. q = AttemptSend(s, "none", cwnd, m)
  BY <1>4, Zenon DEF Sending
<1>8. Pushed(s, q, u, A, B) /\ Flushed(q)
  BY <1>6, <1>7, AttemptSendLive
<1>9. Live(q, u, A, B) /\ SameBut(s, q, SendFields)
  BY <1>8 DEF Pushed
<1>10. /\ q.state = s.state /\ q.shutdown = s.shutdown
       /\ q.snd_una = s.snd_una /\ q.sbuf = s.sbuf
       /\ q.rcv_nxt = s.rcv_nxt /\ q.rcv_wnd = s.rcv_wnd /\ q.rlen = s.rlen /\ q.rpos = s.rpos
       /\ q.rbuf = s.rbuf /\ q.rlist = s.rlist /\ q.bReadEnable = s.bReadEnable
  BY <1>9, SameSent
<1>11. /\ s.state = t.state /\ s.shutdown = t.shutdown /\ s.snd_una = t.snd_una
       /\ s.rcv_nxt = t.rcv_nxt /\ s.rcv_wnd = t.rcv_wnd /\ s.rlen = t.rlen /\ s.rpos = t.rpos
       /\ s.rbuf = t.rbuf /\ s.rlist = t.rlist /\ s.bReadEnable = t.bReadEnable
  BY <1>6, Zenon DEF SameBut, Field
<1>12. Buffered(q, g)
  BY <1>2, <1>10, <1>11, BufferedSame
<1>13. q.state = "ESTABLISHED" /\ q.state # "LISTEN" /\ q.state # "DESTROYED"
  BY <1>10, <1>11
<1>14. Sized(q, w + k)
  <2>1. t.snd_una \in Nat /\ Len(t.sbuf) \in Nat
    <3>1. t.snd_una \in Nat /\ t.sbuf \in Seq(Nat)
      BY <1>2 DEF Live, Typed
    <3>. QED
      BY <3>1, LenProperties
  <2>2. Len(q.sbuf) = Len(t.sbuf) + k /\ q.snd_una = t.snd_una
    BY <1>6, <1>10, <1>11
  <2>3. Upto(q) = w + k + 1
    <3>1. PICK a, l : a = t.snd_una /\ l = Len(t.sbuf)
      OBVIOUS
    <3>2. a \in Nat /\ l \in Nat /\ w \in Nat /\ a + l = w + 1
      BY <1>2, <1>3, <2>1, <3>1
    <3>3. a + (l + k) = w + k + 1
      BY <3>2
    <3>. QED
      BY <2>2, <3>1, <3>3, Zenon DEF Upto
  <2>. QED
    BY <1>13, <2>3, Zenon DEF Sized
<1>15. Opened(e, q, u, w + k)
  <2>1. t.rcv_nxt > 0 /\ u.rcv_nxt > 0
    BY DEF Sound, Opened
  <2>2. q.rcv_nxt > 0
    BY <1>10, <1>11, <2>1
  <2>3. q.state # IF e = 1 THEN "SYN_RECEIVED" ELSE "SYN_SENT"
    BY <1>13
  <2>. QED
    BY <2>1, <2>2, <2>3, Zenon DEF Opened
<1>16. Sound(e, q, u, w + k, g, A, B)
  <2>1. w + k \in Nat
    BY <1>2
  <2>. QED
    BY <1>2, <1>9, <1>12, <1>13, <1>14, <1>15, <2>1, LiveSound
<1>17. Informed(q, Notes(q, c))
  <2>1. Notes(q, c) # {} => q.shutdown = "NONE"
    BY Zenon DEF Notes
  <2>2. q.shutdown = "NONE" => t.shutdown = "NONE" /\ c \subseteq Notes(q, c)
    BY <1>10, <1>11, Zenon DEF Notes
  <2>3. q.shutdown = "NONE" /\ "read" \notin Notes(q, c) => q.rlen = q.rpos /\ q.bReadEnable
    <3>1. t.shutdown = "NONE" /\ "read" \notin c => t.rlen = t.rpos /\ t.bReadEnable
      BY Zenon DEF Informed
    <3>2. q.rlen = t.rlen /\ q.rpos = t.rpos /\ q.bReadEnable = t.bReadEnable
      BY <1>10, <1>11
    <3>. QED
      BY <2>2, <3>1, <3>2, Zenon
  <2>4. q.shutdown = "NONE" => "write" \in Notes(q, c)
    BY <2>2
  <2>5. q.snd_una = q.snd_nxt /\ q.snd_wnd # 0 => q.sbuf = <<>>
    BY <1>8, Zenon DEF Flushed
  <2>. QED
    BY <2>1, <2>3, <2>4, <2>5, Zenon DEF Informed
<1>18. t.rcv_nxt <= q.rcv_nxt
  <2>1. q.rcv_nxt \in Nat
    BY <1>9 DEF Live, Typed
  <2>. QED
    BY <1>10, <1>11, <2>1
<1>. QED
  BY <1>16, <1>17, <1>18 DEF StepDone

(* Send finds the buffer full, or Recv finds nothing: the owner is to be    *)
(* told of f when that changes.                                             *)
Waiting(t, f) == Put(t, f, TRUE)
LEMMA WaitingSound ==
  ASSUME NEW e \in End, NEW t, NEW u, NEW w, NEW g, NEW A, NEW B, Sound(e, t, u, w, g, A, B),
         t.state = "ESTABLISHED", NEW f \in {"bReadEnable", "bWriteEnable"}, NEW q, q = Waiting(t, f)
  PROVE  /\ Sound(e, q, u, w, g, A, B) /\ Live(t, u, A, B)
         /\ SameBut(t, q, {f}) /\ q[f] = TRUE /\ t.rcv_nxt <= q.rcv_nxt
<1>1. t.state \notin Gone /\ t.state # "DESTROYED" /\ t.state # "LISTEN"
  BY DEF Gone
<1>2. /\ Live(t, u, A, B) /\ Sized(t, w) /\ w \in Nat /\ g \in Seq(Nat) /\ Buffered(t, g)
      /\ Opened(e, t, u, w)
  BY <1>1, SoundLive DEF Sound
<1>3. PICK b : b = TRUE
  OBVIOUS
<1>4. Live(q, u, A, B) /\ SameBut(t, q, {f}) /\ q[f] = TRUE
  <2>1. f \in Quiet /\ b \in BOOLEAN
    BY <1>3 DEF Quiet
  <2>2. Fits(f, b)
    BY <2>1, Zenon DEF Fits
  <2>3. q = Put(t, f, b)
    BY <1>3, Zenon DEF Waiting
  <2>4. Live(q, u, A, B) /\ SameBut(t, q, {f}) /\ q[f] = b
    BY <1>2, <2>1, <2>2, <2>3, PutLive
  <2>. QED
    BY <1>3, <2>4
<1>5. SameBut(t, q, {"bReadEnable", "bWriteEnable"})
  BY <1>4, Zenon DEF SameBut
<1>6. /\ q.state = t.state /\ q.shutdown = t.shutdown /\ q.snd_nxt = t.snd_nxt
      /\ q.snd_una = t.snd_una /\ q.sbuf = t.sbuf
      /\ q.rcv_nxt = t.rcv_nxt /\ q.rcv_wnd = t.rcv_wnd /\ q.rlen = t.rlen /\ q.rpos = t.rpos
      /\ q.rbuf = t.rbuf /\ q.rlist = t.rlist
  BY <1>5, Zenon DEF SameBut, Field
<1>7. Buffered(q, g)
  BY <1>2, <1>6, BufferedSame
<1>8. Sized(q, w) /\ Opened(e, q, u, w)
  BY <1>2, <1>6, Zenon DEF Sized, Upto, Opened
<1>9. q.state # "DESTROYED" /\ (q.state = "LISTEN" => w = 0)
  BY <1>1, <1>6
<1>10. Sound(e, q, u, w, g, A, B)
  BY <1>2, <1>4, <1>7, <1>8, <1>9, LiveSound
<1>11. t.rcv_nxt <= q.rcv_nxt
  <2>1. q.rcv_nxt \in Nat
    BY <1>4 DEF Live, Typed
  <2>. QED
    BY <1>6, <2>1
<1>. QED
  BY <1>2, <1>4, <1>10, <1>11

(* Send finds the buffer full.                                              *)
LEMMA FullSound ==
  ASSUME NEW e \in End, NEW t, NEW u, NEW w, NEW g, NEW A, NEW B, NEW c, Sound(e, t, u, w, g, A, B),
         t.state = "ESTABLISHED", Informed(t, c), ~SpaceFor(t, 1),
         NEW q, q = Waiting(t, "bWriteEnable")
  PROVE  StepDone(e, t, q, u, w, g, A, B, c \ {"write"})
<1>1. /\ Sound(e, q, u, w, g, A, B) /\ Live(t, u, A, B)
      /\ SameBut(t, q, {"bWriteEnable"}) /\ q.bWriteEnable = TRUE /\ t.rcv_nxt <= q.rcv_nxt
  BY WaitingSound
<1>2. /\ q.state = t.state /\ q.shutdown = t.shutdown /\ q.snd_nxt = t.snd_nxt
      /\ q.snd_una = t.snd_una /\ q.sbuf = t.sbuf /\ q.snd_wnd = t.snd_wnd
      /\ q.rlen = t.rlen /\ q.rpos = t.rpos /\ q.bReadEnable = t.bReadEnable
  BY <1>1, Zenon DEF SameBut, Field
<1>3. Len(q.sbuf) >= kIdealRefillSize
  <2>1. t.sbuf \in Seq(Nat)
    BY <1>1 DEF Live, Typed
  <2>2. PICK l : l = Len(t.sbuf) /\ l \in Nat
    BY <2>1, LenProperties
  <2>3. ~(l + 1 <= SndBufSize)
    BY <2>2, Zenon DEF SpaceFor
  <2>4. l >= kIdealRefillSize
    BY <2>2, <2>3, PseudoTcpAssumption DEF kIdealRefillSize
  <2>. QED
    BY <1>2, <2>2, <2>4
<1>4. Informed(q, Notes(q, c \ {"write"}))
  <2>1. Notes(q, c \ {"write"}) # {} => q.shutdown = "NONE"
    BY Zenon DEF Notes
  <2>2. q.shutdown = "NONE" /\ "read" \notin Notes(q, c \ {"write"}) => "read" \notin c
    BY DEF Notes
  <2>3. t.shutdown = "NONE" /\ "read" \notin c => t.rlen = t.rpos /\ t.bReadEnable
    BY Zenon DEF Informed
  <2>4. t.snd_una = t.snd_nxt /\ t.snd_wnd # 0 => t.sbuf = <<>>
    BY Zenon DEF Informed
  <2>5. q.shutdown = "NONE" /\ "read" \notin Notes(q, c \ {"write"}) => q.rlen = q.rpos /\ q.bReadEnable
    BY <1>2, <2>2, <2>3, Zenon
  <2>6. q.snd_una = q.snd_nxt /\ q.snd_wnd # 0 => q.sbuf = <<>>
    BY <1>2, <2>4, Zenon
  <2>. QED
    BY <1>1, <1>3, <2>1, <2>5, <2>6, Zenon DEF Informed
<1>. QED
  BY <1>1, <1>4 DEF StepDone

(* Recv finds nothing to read.                                              *)
LEMMA EmptySound ==
  ASSUME NEW e \in End, NEW t, NEW u, NEW w, NEW g, NEW A, NEW B, NEW c, Sound(e, t, u, w, g, A, B),
         t.state = "ESTABLISHED", Informed(t, c), t.rlen = t.rpos,
         NEW q, q = Waiting(t, "bReadEnable")
  PROVE  StepDone(e, t, q, u, w, g, A, B, c \ {"read"})
<1>1. /\ Sound(e, q, u, w, g, A, B) /\ Live(t, u, A, B)
      /\ SameBut(t, q, {"bReadEnable"}) /\ q.bReadEnable = TRUE /\ t.rcv_nxt <= q.rcv_nxt
  BY WaitingSound
<1>2. /\ q.state = t.state /\ q.shutdown = t.shutdown /\ q.snd_nxt = t.snd_nxt
      /\ q.snd_una = t.snd_una /\ q.sbuf = t.sbuf /\ q.snd_wnd = t.snd_wnd
      /\ q.rlen = t.rlen /\ q.rpos = t.rpos /\ q.bWriteEnable = t.bWriteEnable
  BY <1>1, Zenon DEF SameBut, Field
<1>3. Informed(q, Notes(q, c \ {"read"}))
  <2>1. Notes(q, c \ {"read"}) # {} => q.shutdown = "NONE"
    BY Zenon DEF Notes
  <2>2. q.shutdown = "NONE" /\ "write" \notin Notes(q, c \ {"read"}) => "write" \notin c
    BY DEF Notes
  <2>3. t.shutdown = "NONE" /\ "write" \notin c => t.bWriteEnable /\ Len(t.sbuf) >= kIdealRefillSize
    BY Zenon DEF Informed
  <2>4. t.snd_una = t.snd_nxt /\ t.snd_wnd # 0 => t.sbuf = <<>>
    BY Zenon DEF Informed
  <2>5. q.shutdown = "NONE" /\ "write" \notin Notes(q, c \ {"read"}) =>
          q.bWriteEnable /\ Len(q.sbuf) >= kIdealRefillSize
    BY <1>2, <2>2, <2>3, Zenon
  <2>6. q.snd_una = q.snd_nxt /\ q.snd_wnd # 0 => q.sbuf = <<>>
    BY <1>2, <2>4, Zenon
  <2>7. q.rlen = q.rpos
    BY <1>2
  <2>. QED
    BY <1>1, <2>1, <2>5, <2>6, <2>7, Zenon DEF Informed
<1>. QED
  BY <1>1, <1>3 DEF StepDone

(* Recv: what is read, and the buffer after that.                           *)
ReadOn(g, t, k) == g \o SubSeq(t.rbuf, t.rpos + 1, t.rpos + k)
Readable(t, k) == k \in Nat \ {0} /\ t.rpos + k <= t.rlen
LEMMA ReadNumbers ==
  ASSUME NEW t, NEW g, Typed(t), Buffered(t, g), g \in Seq(Nat), t.shutdown = "NONE",
         NEW k, Readable(t, k), NEW h, h = ReadOn(g, t, k)
  PROVE  /\ h \in Seq(Nat) /\ Len(h) = Len(g) + k /\ Len(g) \in Nat
         /\ \A i \in 1..Len(h) : h[i] = i
<1>1. PICK b, o, l, n, N : b = t.rbuf /\ o = t.rpos /\ l = t.rlen /\ n = t.rcv_nxt /\ N = Len(g)
  OBVIOUS
<1>2. /\ n \in Nat /\ l \in Nat /\ o \in Nat /\ b \in [1..RcvBufSize -> Nat] /\ RcvBufSize \in Nat
      /\ N \in Nat
  BY <1>1, ReceiverTypes, LenProperties
<1>3. k \in Nat \ {0} /\ o + k <= l /\ l <= RcvBufSize
  BY <1>1 DEF Readable, Buffered
<1>4. /\ N + l - o = IF n = 0 THEN 0 ELSE n - 1
      /\ \A i \in o + 1 .. l : b[i] = n - l + i - 1
      /\ \A i \in 1..N : g[i] = i
  BY <1>1, Zenon DEF Buffered
<1>5. \A i \in o + 1 .. l : b[i] = N - o + i
  <2>1. N + l - o = n - 1
    BY <1>2, <1>3, <1>4
  <2>2. ASSUME NEW i \in o + 1 .. l PROVE n - l + i - 1 = N - o + i
    BY <1>2, <2>1
  <2>. QED
    BY <1>4, <2>2
<1>6. b \in Seq(Nat) /\ Len(b) = RcvBufSize
  BY <1>2
<1>7. PICK d : d = SubSeq(b, o + 1, o + k)
  OBVIOUS
<1>8. d \in Seq(Nat) /\ Len(d) = k /\ \A j \in 1..k : d[j] = b[o + j]
  <2>1. o + k <= Len(b) /\ k \in Nat
    BY <1>2, <1>3, <1>6
  <2>. QED
    BY <1>2, <1>6, <1>7, <2>1, PartOf
<1>9. \A j \in 1..k : d[j] = N + j
  <2>. SUFFICES ASSUME NEW j \in 1..k PROVE d[j] = N + j
    OBVIOUS
  <2>1. o + j \in o + 1 .. l
    BY <1>2, <1>3
  <2>2. b[o + j] = N - o + (o + j)
    BY <1>5, <2>1
  <2>3. N - o + (o + j) = N + j
    BY <1>2
  <2>. QED
    BY <1>8, <2>2, <2>3
<1>10. h = g \o d
  BY <1>1, <1>7, Zenon DEF ReadOn
<1>11. /\ h \in Seq(Nat) /\ Len(h) = N + k
       /\ \A i \in 1..N + k : h[i] = IF i <= N THEN g[i] ELSE d[i - N]
  <2>1. PICK r : r = g \o d
    OBVIOUS
  <2>2. /\ r \in Seq(Nat) /\ Len(r) = Len(g) + Len(d)
        /\ \A i \in 1..Len(g) + Len(d) : r[i] = IF i <= Len(g) THEN g[i] ELSE d[i - Len(g)]
    BY <1>8, <2>1, ConcatProperties
  <2>3. h = r /\ Len(g) = N /\ Len(d) = k
    BY <1>1, <1>8, <1>10, <2>1
  <2>. QED
    BY <2>2, <2>3, Zenon
<1>12. \A i \in 1..N + k : h[i] = i
  <2>. SUFFICES ASSUME NEW i \in 1..N + k PROVE h[i] = i
    OBVIOUS
  <2>1. CASE i <= N
    BY <1>2, <1>4, <1>11, <2>1
  <2>2. CASE i > N
    <3>1. i - N \in 1..k /\ N + (i - N) = i /\ ~(i <= N)
      BY <1>2, <1>3, <2>2
    <3>2. d[i - N] = N + (i - N)
      BY <1>9, <3>1
    <3>. QED
      BY <1>11, <3>1, <3>2
  <2>. QED
    BY <1>2, <1>3, <2>1, <2>2
<1>. QED
  BY <1>1, <1>2, <1>11, <1>12

(* The buffer after the read.                                               *)
LEMMA ReadBuffered ==
  ASSUME NEW t, NEW g, Typed(t), Buffered(t, g), g \in Seq(Nat), t.shutdown = "NONE",
         NEW k, Readable(t, k), NEW h, h = ReadOn(g, t, k),
         NEW q, Typed(q), SameBut(t, q, {"rpos", "rcv_wnd"}), q.rpos = t.rpos + k,
         q.rcv_wnd <= getReceiveBufferSpace(q)
  PROVE  Buffered(q, h)
<1>1. h \in Seq(Nat) /\ Len(h) = Len(g) + k /\ Len(g) \in Nat /\ \A i \in 1..Len(h) : h[i] = i
  BY ReadNumbers
<1>2. /\ q.rlen = t.rlen /\ q.rcv_nxt = t.rcv_nxt /\ q.rlist = t.rlist /\ q.rbuf = t.rbuf
      /\ q.shutdown = t.shutdown
  BY Zenon DEF SameBut, Field
<1>3. t.rcv_nxt \in Nat /\ t.rlen \in Nat /\ t.rpos \in Nat /\ k \in Nat \ {0} /\ t.rpos + k <= t.rlen
  BY ReceiverTypes DEF Readable
<1>4. /\ t.rlen <= RcvBufSize
      /\ Len(g) + t.rlen - t.rpos = IF t.rcv_nxt = 0 THEN 0 ELSE t.rcv_nxt - 1
      /\ (t.rcv_nxt = 0 => t.rlist = {})
      /\ \A i \in t.rpos + 1 .. t.rlen : t.rbuf[i] = t.rcv_nxt - t.rlen + i - 1
      /\ \A s \in t.rlist :
            /\ s[1] > t.rcv_nxt
            /\ t.rlen - t.rcv_nxt + s[1] + s[2] <= RcvBufSize
            /\ \A x \in s[1] .. s[1] + s[2] - 1 : t.rbuf[At(t, x)] = x
  BY Zenon DEF Buffered
<1>5. PICK N, M, z : N = Len(g) /\ M = Len(h) /\ z = (IF t.rcv_nxt = 0 THEN 0 ELSE t.rcv_nxt - 1)
  OBVIOUS
<1>6. M + q.rlen - q.rpos = z /\ q.rpos <= q.rlen /\ z \in Int
  <2>1. N \in Nat /\ M = N + k /\ N + t.rlen - t.rpos = z /\ z \in Int
    BY <1>1, <1>3, <1>4, <1>5
  <2>2. N + k + t.rlen - (t.rpos + k) = N + t.rlen - t.rpos
    BY <1>3, <2>1
  <2>. QED
    BY <1>2, <1>3, <2>1, <2>2
<1>7. Len(h) + q.rlen - q.rpos = (IF q.rcv_nxt = 0 THEN 0 ELSE q.rcv_nxt - 1)
  BY <1>2, <1>5, <1>6, Zenon
<1>8. Len(h) + q.rlen - q.rpos <= (IF q.rcv_nxt = 0 THEN 0 ELSE q.rcv_nxt - 1)
  <2>1. z <= z
    BY <1>6
  <2>. QED
    BY <1>2, <1>5, <1>6, <2>1, Zenon
<1>9. \A i \in q.rpos + 1 .. q.rlen : q.rbuf[i] = q.rcv_nxt - q.rlen + i - 1
  <2>1. \A i \in q.rpos + 1 .. q.rlen : i \in t.rpos + 1 .. t.rlen
    BY <1>2, <1>3
  <2>. QED
    BY <1>2, <1>4, <2>1, Zenon
<1>10. \A x : At(q, x) = At(t, x)
  BY <1>2, Zenon DEF At
<1>11. \A s \in q.rlist :
            /\ s[1] > q.rcv_nxt
            /\ q.rlen - q.rcv_nxt + s[1] + s[2] <= RcvBufSize
            /\ \A x \in s[1] .. s[1] + s[2] - 1 : q.rbuf[At(q, x)] = x
  BY <1>2, <1>4, <1>10, Zenon
<1>. QED
  BY <1>1, <1>2, <1>4, <1>6, <1>7, <1>8, <1>9, <1>11, Zenon DEF Buffered

(* The window after the read.                                               *)
Opens(s) == getReceiveBufferSpace(s) - s.rcv_wnd >= Min({RcvBufSize \div 2, s.mss})
Widened(s) == IF Opens(s) THEN Put(s, "rcv_wnd", getReceiveBufferSpace(s)) ELSE s
LEMMA WidenedLive ==
  ASSUME NEW s, NEW u, NEW A, NEW B, Live(s, u, A, B), s.rcv_wnd <= getReceiveBufferSpace(s),
         s.rlen <= RcvBufSize, NEW q, q = Widened(s)
  PROVE  /\ Live(q, u, A, B) /\ SameBut(s, q, {"rcv_wnd"})
         /\ q.rcv_wnd <= getReceiveBufferSpace(q)
<1>1. CASE ~Opens(s)
  <2>1. q = s
    BY <1>1, Zenon DEF Widened
  <2>2. SameBut(s, s, {"rcv_wnd"})
    BY Zenon DEF SameBut
  <2>. QED
    BY <2>1, <2>2
<1>2. CASE Opens(s)
  <2>1. PICK x : x = getReceiveBufferSpace(s)
    OBVIOUS
  <2>2. q = Put(s, "rcv_wnd", x)
    BY <1>2, <2>1, Zenon DEF Widened
  <2>3. Typed(s) /\ Unaltered(s) /\ "rcv_wnd" \in Field /\ Flow(u, s) /\ Typed(u)
    BY DEF Live, Typed, Field, Linked
  <2>4. Unaltered(q) /\ SameBut(s, q, {"rcv_wnd"}) /\ q.rcv_wnd = x
    BY <2>2, <2>3, PutFields
  <2>5. /\ s.rlen \in Nat /\ s.rpos \in Nat /\ RcvBufSize \in Nat /\ s.rcv_nxt \in Nat
        /\ s.rcv_wnd \in Nat
    BY <2>3, ReceiverTypes
  <2>6. x \in Nat /\ s.rcv_wnd <= x
    BY <2>1, <2>5 DEF getReceiveBufferSpace
  <2>7. Typed(q)
    <3>1. q.rcv_wnd \in Nat
      BY <2>4, <2>6
    <3>. QED
      BY <2>3, <2>4, <3>1, Zenon DEF Typed, SameBut, Field
  <2>8. /\ q.snd_una = s.snd_una /\ q.snd_nxt = s.snd_nxt /\ q.snd_wnd = s.snd_wnd /\ q.sbuf = s.sbuf
        /\ q.slist = s.slist /\ q.rto_base = s.rto_base /\ q.recover = s.recover /\ q.out = s.out
        /\ q.rcv_nxt = s.rcv_nxt /\ q.rlist = s.rlist /\ q.rlen = s.rlen /\ q.rpos = s.rpos
    BY <2>4, Zenon DEF SameBut, Field
  <2>9. s.rcv_nxt <= q.rcv_nxt /\ Edge(s) <= Edge(q)
    BY <2>4, <2>5, <2>6, <2>8 DEF Edge
  <2>10. /\ q.rcv_nxt <= u.snd_nxt /\ Uncut(u.slist, q.rcv_nxt)
         /\ \A r \in q.rlist : r[1] + r[2] <= u.snd_nxt /\ Uncut(u.slist, r[1] + r[2])
    BY <2>3, <2>8, Zenon DEF Flow
  <2>11. Live(q, u, A, B)
    BY <2>7, <2>8, <2>9, <2>10, ReceiverStep
  <2>12. q.rcv_wnd <= getReceiveBufferSpace(q)
    <3>1. getReceiveBufferSpace(q) = x
      BY <2>1, <2>8, Zenon DEF getReceiveBufferSpace
    <3>2. x <= x
      BY <2>6
    <3>. QED
      BY <2>4, <3>1, <3>2
  <2>. QED
    BY <2>4, <2>11, <2>12
<1>. QED
  BY <1>1, <1>2

(* Recv, when there is something to read.                                   *)
Took(t, k) == Put(t, "rpos", t.rpos + k)
LEMMA TookLive ==
  ASSUME NEW t, NEW u, NEW A, NEW B, NEW g, Live(t, u, A, B), Buffered(t, g), g \in Seq(Nat),
         t.shutdown = "NONE", NEW k, Readable(t, k), NEW h, h = ReadOn(g, t, k),
         NEW q, q = Widened(Took(t, k))
  PROVE  /\ Live(q, u, A, B) /\ SameBut(t, q, {"rpos", "rcv_wnd"})
         /\ h \in Seq(Nat) /\ Buffered(q, h)
<1>1. PICK s, x : s = Put(t, "rpos", x) /\ x = t.rpos + k
  OBVIOUS
<1>2. Typed(t) /\ t.rlen <= RcvBufSize /\ t.rcv_wnd <= getReceiveBufferSpace(t)
  BY Zenon DEF Live, Buffered
<1>3. /\ t.rlen \in Nat /\ t.rpos \in Nat /\ RcvBufSize \in Nat /\ t.rcv_wnd \in Nat
      /\ k \in Nat \ {0} /\ t.rpos + k <= t.rlen
  BY <1>2, ReceiverTypes DEF Readable
<1>4. x \in Nat
  BY <1>1, <1>3
<1>5. "rpos" \in Quiet /\ Fits("rpos", x)
  BY <1>4, Zenon DEF Quiet, Fits
<1>6. Live(s, u, A, B) /\ SameBut(t, s, {"rpos"}) /\ s.rpos = x
  BY <1>1, <1>5, PutLive
<1>7. s.rlen = t.rlen /\ s.rcv_wnd = t.rcv_wnd
  BY <1>6, Zenon DEF SameBut, Field
<1>8. s.rlen <= RcvBufSize /\ s.rcv_wnd <= getReceiveBufferSpace(s)
  <2>1. PICK l, o, d : l = t.rlen /\ o = t.rpos /\ d = t.rcv_wnd
    OBVIOUS
  <2>2. l \in Nat /\ o \in Nat /\ d \in Nat /\ x = o + k
    BY <1>1, <1>3, <2>1
  <2>3. d <= RcvBufSize - l + o
    BY <1>2, <2>1 DEF getReceiveBufferSpace
  <2>4. d <= RcvBufSize - l + x
    BY <1>3, <2>2, <2>3
  <2>5. s.rcv_wnd <= getReceiveBufferSpace(s)
    BY <1>6, <1>7, <2>1, <2>4, Zenon DEF getReceiveBufferSpace
  <2>. QED
    BY <1>2, <1>7, <2>5, Zenon
<1>9. q = Widened(s)
  BY <1>1, Zenon DEF Took
<1>10. /\ Live(q, u, A, B) /\ SameBut(s, q, {"rcv_wnd"})
       /\ q.rcv_wnd <= getReceiveBufferSpace(q)
  BY <1>6, <1>8, <1>9, WidenedLive
<1>11. SameBut(t, q, {"rpos", "rcv_wnd"}) /\ q.rpos = s.rpos
  BY <1>6, <1>10, Zenon DEF SameBut, Field
<1>12. h \in Seq(Nat)
  BY <1>2, ReadNumbers
<1>13. Buffered(q, h)
  <2>1. Typed(q) /\ q.rpos = t.rpos + k
    BY <1>1, <1>6, <1>10, <1>11 DEF Live
  <2>. QED
    BY <1>2, <1>10, <1>11, <2>1, ReadBuffered
<1>. QED
  BY <1>10, <1>11, <1>12, <1>13

(* The whole step.                                                          *)
LEMMA RecvSound ==
  ASSUME NEW e \in End, NEW t, NEW u, NEW w, NEW g, NEW A, NEW B, NEW c, Sound(e, t, u, w, g, A, B),
         t.state = "ESTABLISHED", Informed(t, c), "read" \in c, NEW k, Readable(t, k),
         NEW h, h = ReadOn(g, t, k), NEW v, v = Widened(Took(t, k)),
         NEW sflags, NEW cwnd \in Nat \ {0}, NEW m \in Nat \ {0},
         NEW q, q = v \/ q = AttemptSend(v, sflags, cwnd, m)
  PROVE  StepDone(e, t, q, u, w, h, A, B, c)
<1>1. t.state \notin Gone /\ t.state # "LISTEN" /\ t.state # "DESTROYED"
  BY DEF Gone
<1>2. /\ Live(t, u, A, B) /\ Sized(t, w) /\ w \in Nat /\ g \in Seq(Nat) /\ Buffered(t, g)
      /\ Opened(e, t, u, w)
  BY <1>1, SoundLive DEF Sound
<1>3. t.shutdown = "NONE"
  <2>1. c # {}
    OBVIOUS
  <2>. QED
    BY <2>1, Zenon DEF Informed
<1>4. Live(v, u, A, B) /\ SameBut(t, v, {"rpos", "rcv_wnd"}) /\ h \in Seq(Nat) /\ Buffered(v, h)
  BY <1>2, <1>3, TookLive
<1>5. /\ v.state = t.state /\ v.shutdown = t.shutdown /\ v.snd_una = t.snd_una
      /\ v.snd_nxt = t.snd_nxt /\ v.snd_wnd = t.snd_wnd
      /\ v.sbuf = t.sbuf /\ v.rcv_nxt = t.rcv_nxt /\ v.bWriteEnable = t.bWriteEnable
  BY <1>4, Zenon DEF SameBut, Field
<1>6. Live(q, u, A, B) /\ SameBut(v, q, SendFields) /\ Flushed(q)
  <2>1. CASE q = v
    <3>1. t.snd_una = t.snd_nxt /\ t.snd_wnd # 0 => t.sbuf = <<>>
      BY Zenon DEF Informed
    <3>2. Flushed(q)
      BY <1>5, <2>1, <3>1, Zenon DEF Flushed
    <3>3. SameBut(v, v, SendFields)
      BY Zenon DEF SameBut
    <3>. QED
      BY <1>4, <2>1, <3>2, <3>3
  <2>2. CASE q = AttemptSend(v, sflags, cwnd, m)
    <3>1. Pushed(v, q, u, A, B) /\ Flushed(q)
      BY <1>4, <2>2, AttemptSendLive
    <3>. QED
      BY <3>1 DEF Pushed
  <2>. QED
    BY <2>1, <2>2
<1>7. /\ q.state = v.state /\ q.shutdown = v.shutdown
      /\ q.snd_una = v.snd_una /\ q.sbuf = v.sbuf
      /\ q.rcv_nxt = v.rcv_nxt /\ q.rcv_wnd = v.rcv_wnd /\ q.rlen = v.rlen /\ q.rpos = v.rpos
      /\ q.rbuf = v.rbuf /\ q.rlist = v.rlist /\ q.bWriteEnable = v.bWriteEnable
  BY <1>6, SameSent
<1>8. Buffered(q, h)
  BY <1>4, <1>7, BufferedSame
<1>9. q.state = "ESTABLISHED" /\ q.state # "LISTEN" /\ q.state # "DESTROYED"
  BY <1>5, <1>7
<1>10. Sized(q, w)
  BY <1>2, <1>5, <1>7, Zenon DEF Sized, Upto
<1>11. Opened(e, q, u, w)
  <2>1. t.rcv_nxt > 0 /\ u.rcv_nxt > 0
    BY <1>2 DEF Opened
  <2>2. q.rcv_nxt > 0
    BY <1>5, <1>7, <2>1
  <2>3. q.state # IF e = 1 THEN "SYN_RECEIVED" ELSE "SYN_SENT"
    BY <1>9
  <2>. QED
    BY <2>1, <2>2, <2>3, Zenon DEF Opened
<1>12. Sound(e, q, u, w, h, A, B)
  BY <1>2, <1>4, <1>6, <1>8, <1>9, <1>10, <1>11, LiveSound
<1>13. Informed(q, Notes(q, c))
  <2>1. Notes(q, c) # {} => q.shutdown = "NONE"
    BY Zenon DEF Notes
  <2>2. q.shutdown = "NONE" => c \subseteq Notes(q, c)
    BY Zenon DEF Notes
  <2>3. q.shutdown = "NONE" => "read" \in Notes(q, c)
    BY <2>2
  <2>4. "write" \notin c => t.bWriteEnable /\ Len(t.sbuf) >= kIdealRefillSize
    BY <1>3, Zenon DEF Informed
  <2>5. q.bWriteEnable = t.bWriteEnable /\ q.sbuf = t.sbuf
    BY <1>5, <1>7
  <2>6. q.shutdown = "NONE" /\ "write" \notin Notes(q, c) =>
          q.bWriteEnable /\ Len(q.sbuf) >= kIdealRefillSize
    BY <2>2, <2>4, <2>5, Zenon
  <2>7. q.snd_una = q.snd_nxt /\ q.snd_wnd # 0 => q.sbuf = <<>>
    BY <1>6, Zenon DEF Flushed
  <2>. QED
    BY <2>1, <2>3, <2>6, <2>7, Zenon DEF Informed
<1>14. t.rcv_nxt <= q.rcv_nxt
  <2>1. q.rcv_nxt \in Nat
    BY <1>6 DEF Live, Typed
  <2>. QED
    BY <1>5, <1>7, <2>1
<1>. QED
  BY <1>12, <1>13, <1>14 DEF StepDone

-----------------------------------------------------------------------------
(* From a step of one object to a state of the system.  What the invariant  *)
(* says of an end:                                                          *)
Whole(e, t, u, w, g, c, A, B) ==
  /\ Queued(t, w) /\ Flow(t, u)
  /\ \A p \in A : Acks(t, u, p)
  /\ \A p \in B : Carries(t, p)
  /\ Buffered(t, g) /\ Opened(e, t, u, w) /\ Informed(t, c)

(* Both ends of a connection, before a step.                                *)
LEMMA WholeSound ==
  ASSUME NEW e \in End, NEW t, NEW u, NEW w, NEW v, NEW g, NEW h, NEW c, NEW d, NEW A, NEW B,
         Whole(e, t, u, w, g, c, A, B), Whole(Peer(e), u, t, v, h, d, B, A),
         Typed(t), Typed(u), A \subseteq Pkt, B \subseteq Pkt, g \in Seq(Nat), w \in Nat, v \in Nat,
         t.out = <<>>
  PROVE  Sound(e, t, u, w, g, A, B) /\ Heard(e, t, u) /\ (\A p \in A : Carries(u, p))
<1>1. /\ Queued(t, w) /\ Flow(t, u) /\ (\A p \in A : Acks(t, u, p)) /\ (\A p \in B : Carries(t, p))
      /\ Buffered(t, g) /\ Opened(e, t, u, w)
  BY Zenon DEF Whole
<1>2. /\ Queued(u, v) /\ Flow(u, t) /\ (\A p \in B : Acks(u, t, p)) /\ (\A p \in A : Carries(u, p))
      /\ Opened(Peer(e), u, t, v)
  BY Zenon DEF Whole
<1>3. Packets(t.out) = {}
  BY DEF Packets
<1>4. Linked(t, u, A, B)
  BY <1>1, <1>2, <1>3, Zenon DEF Linked
<1>5. Sound(e, t, u, w, g, A, B)
  BY <1>1, <1>4, Zenon DEF Sound
<1>6. u.snd_nxt > 1 => t.rcv_nxt > 0
  <2>1. u.snd_nxt \in Nat /\ u.snd_nxt <= v + 1
    BY <1>2 DEF Typed, Queued
  <2>2. u.snd_nxt > 1 => v > 0
    BY <2>1
  <2>3. v > 0 => t.rcv_nxt > 0
    BY <1>2, Zenon DEF Opened
  <2>. QED
    BY <2>2, <2>3
<1>7. e = 1 /\ u.snd_nxt > 0 => u.rcv_nxt > 0
  <2>1. e = 1 => Peer(e) = 2
    BY DEF Peer
  <2>. QED
    BY <1>2, <2>1, Zenon DEF Opened
<1>. QED
  BY <1>2, <1>5, <1>6, <1>7, Zenon DEF Heard

(* The object is left without what it passed on.                            *)
Cleared(q) == [q EXCEPT !.out = <<>>, !.told = {}]
LEMMA ClearedIs ==
  ASSUME NEW q, Typed(q), NEW s, s = Cleared(q)
  PROVE  Typed(s) /\ SameBut(q, s, {"out", "told"}) /\ s.out = <<>> /\ s.told = {}
<1>1. PICK x, y : x = <<>> /\ y = {}
  OBVIOUS
<1>2. s = [q EXCEPT !.out = x, !.told = y] /\ Unaltered(q)
  BY <1>1, Zenon DEF Cleared, Typed
<1>3. Unaltered(s) /\ SameBut(q, s, {"out", "told"}) /\ s.out = x /\ s.told = y
  BY <1>2, Zenon DEF Unaltered, SameBut, Field
<1>4. x \in Seq(Pkt) /\ y \subseteq {"read", "write", "close"}
  BY <1>1
<1>5. Typed(s)
  BY <1>3, <1>4, Zenon DEF Typed, SameBut, Field
<1>. QED
  BY <1>1, <1>3, <1>5

(* Both ends after a step of one.                                           *)
Outgoing(B, q) == B \cup Packets(q.out)
LEMMA StepWhole ==
  ASSUME NEW e \in End, NEW t, NEW u, NEW w, NEW v, NEW g, NEW h, NEW c, NEW d, NEW A, NEW B,
         Whole(Peer(e), u, t, v, h, d, B, A), Typed(t), NEW q, StepDone(e, t, q, u, w, g, A, B, c),
         NEW R, R \subseteq A, NEW N, N = Outgoing(B, q), NEW s, s = Cleared(q)
  PROVE  Whole(e, s, u, w, g, Notes(q, c), R, N) /\ Whole(Peer(e), u, s, v, h, d, N, R)
<1>1. /\ Typed(q) /\ Linked(q, u, A, B) /\ Queued(q, w) /\ Buffered(q, g) /\ Opened(e, q, u, w)
      /\ Informed(q, Notes(q, c)) /\ t.rcv_nxt <= q.rcv_nxt
  BY Zenon DEF StepDone, Sound
<1>2. SameBut(q, s, {"out", "told"})
  BY <1>1, ClearedIs
<1>3. /\ s.state = q.state /\ s.shutdown = q.shutdown /\ s.snd_una = q.snd_una
      /\ s.snd_nxt = q.snd_nxt /\ s.snd_wnd = q.snd_wnd /\ s.sbuf = q.sbuf /\ s.slist = q.slist
      /\ s.rto_base = q.rto_base /\ s.recover = q.recover
      /\ s.rcv_nxt = q.rcv_nxt /\ s.rcv_wnd = q.rcv_wnd /\ s.rlen = q.rlen /\ s.rpos = q.rpos
      /\ s.rbuf = q.rbuf /\ s.rlist = q.rlist
      /\ s.bReadEnable = q.bReadEnable /\ s.bWriteEnable = q.bWriteEnable
  BY <1>2, Zenon DEF SameBut, Field
<1>4. Edge(s) = Edge(q)
  BY <1>3, Zenon DEF Edge
<1>5. Flow(s, u) /\ Flow(u, s)
  <2>1. Flow(q, u) /\ Flow(u, q)
    BY <1>1, Zenon DEF Linked
  <2>2. Flow(s, u)
    BY <1>3, <2>1, Zenon DEF Flow
  <2>3. Flow(u, s)
    BY <1>3, <1>4, <2>1, Zenon DEF Flow
  <2>. QED
    BY <2>2, <2>3
<1>6. Queued(s, w)
  <2>1. Tiled(q) => Tiled(s)
    <3>1. /\ s.snd_una = q.snd_una /\ s.snd_nxt = q.snd_nxt /\ s.sbuf = q.sbuf /\ s.slist = q.slist
          /\ s.rto_base = q.rto_base /\ s.recover = q.recover
      BY <1>3, Zenon
    <3>. QED
      BY <3>1, Zenon DEF Tiled
  <2>. QED
    BY <1>1, <1>3, <2>1, Zenon DEF Queued
<1>7. Buffered(s, g)
  BY <1>1, <1>3, BufferedSame
<1>8. Opened(e, s, u, w)
  BY <1>1, <1>3, Zenon DEF Opened
<1>9. Informed(s, Notes(q, c))
  BY <1>1, <1>3, Zenon DEF Informed
<1>10. \A p \in R : Acks(s, u, p)
  <2>1. \A p \in A : Acks(q, u, p)
    BY <1>1, Zenon DEF Linked
  <2>. QED
    BY <1>3, <2>1, Zenon DEF Acks
<1>11. \A p \in N : Carries(s, p) /\ Acks(u, s, p)
  <2>1. \A p \in N : Carries(q, p) /\ Acks(u, q, p)
    BY <1>1, Zenon DEF Linked, Outgoing
  <2>2. \A p : Carries(q, p) => Carries(s, p)
    BY <1>3, Zenon DEF Carries
  <2>3. \A p : Acks(u, q, p) => Acks(u, s, p)
    BY <1>3, <1>4, Zenon DEF Acks
  <2>. QED
    BY <2>1, <2>2, <2>3, Zenon
<1>12. /\ Queued(u, v) /\ (\A p \in A : Carries(u, p)) /\ Buffered(u, h) /\ Informed(u, d)
       /\ Opened(Peer(e), u, t, v)
  BY Zenon DEF Whole
<1>13. Opened(Peer(e), u, s, v)
  <2>1. t.rcv_nxt \in Nat /\ q.rcv_nxt \in Nat
    BY <1>1 DEF Typed
  <2>2. t.rcv_nxt > 0 => s.rcv_nxt > 0
    BY <1>1, <1>3, <2>1
  <2>. QED
    BY <1>12, <2>2, Zenon DEF Opened
<1>14. \A p \in R : Carries(u, p)
  BY <1>12
<1>. QED
  BY <1>5, <1>6, <1>7, <1>8, <1>9, <1>10, <1>11, <1>12, <1>13, <1>14, Zenon DEF Whole

(* There are two ends.                                                      *)
LEMMA Ends ==
  ASSUME NEW e \in End
  PROVE  /\ Peer(e) \in End /\ Peer(e) # e /\ Peer(Peer(e)) = e
         /\ \A x \in End : x = e \/ x = Peer(e)
  BY DEF End, Peer

(* The packets of two sequences.                                            *)
LEMMA PacketsConcat ==
  ASSUME NEW a \in Seq(Pkt), NEW b \in Seq(Pkt)
  PROVE  a \o b \in Seq(Pkt) /\ Packets(a \o b) = Packets(a) \cup Packets(b)
<1>1. PICK r, m, n : r = a \o b /\ m = Len(a) /\ n = Len(b)
  OBVIOUS
<1>2. /\ r \in Seq(Pkt) /\ Len(r) = m + n /\ m \in Nat /\ n \in Nat
      /\ \A i \in 1..m + n : r[i] = IF i <= m THEN a[i] ELSE b[i - m]
  <2>1. /\ r \in Seq(Pkt) /\ Len(r) = Len(a) + Len(b)
        /\ \A i \in 1..Len(a) + Len(b) : r[i] = IF i <= Len(a) THEN a[i] ELSE b[i - Len(a)]
    BY <1>1, ConcatProperties
  <2>2. Len(a) \in Nat /\ Len(b) \in Nat
    BY LenProperties
  <2>. QED
    BY <1>1, <2>1, <2>2, Zenon
<1>3. ASSUME NEW i \in 1..m + n PROVE r[i] \in Packets(a) \cup Packets(b)
  <2>1. CASE i <= m
    <3>1. i \in 1..m /\ r[i] = a[i]
      BY <1>2, <2>1
    <3>. QED
      BY <1>1, <3>1, Zenon DEF Packets
  <2>2. CASE ~(i <= m)
    <3>1. i - m \in 1..n /\ r[i] = b[i - m]
      BY <1>2, <2>2
    <3>. QED
      BY <1>1, <3>1, Zenon DEF Packets
  <2>. QED
    BY <2>1, <2>2
<1>4. ASSUME NEW i \in 1..m PROVE a[i] \in Packets(r)
  <2>1. i \in 1..m + n /\ r[i] = a[i]
    BY <1>2
  <2>. QED
    BY <1>2, <2>1, Zenon DEF Packets
<1>5. ASSUME NEW i \in 1..n PROVE b[i] \in Packets(r)
  <2>1. i + m \in 1..m + n /\ ~(i + m <= m) /\ i + m - m = i
    BY <1>2
  <2>2. r[i + m] = b[i]
    BY <1>2, <2>1
  <2>. QED
    BY <1>2, <2>1, <2>2 DEF Packets
<1>6. Packets(r) \subseteq Packets(a) \cup Packets(b)
  BY <1>2, <1>3, Zenon DEF Packets
<1>7. Packets(a) \subseteq Packets(r) /\ Packets(b) \subseteq Packets(r)
  BY <1>1, <1>4, <1>5 DEF Packets
<1>. QED
  BY <1>1, <1>2, <1>6, <1>7

(* The invariant, end by end.                                               *)
WholeAt(e) ==
  Whole(e, tcb[e], tcb[Peer(e)], wrote[e], got[e], can[e], Packets(net[e]), Packets(net[Peer(e)]))
LEMMA InvEnds == IInv <=> TypeOK /\ \A e \in End : WholeAt(e)
  BY Zenon DEF IInv, WholeAt, Whole

(* What a step finds.                                                       *)
LEMMA InvSound ==
  ASSUME IInv, NEW e \in End
  PROVE  /\ Sound(e, tcb[e], tcb[Peer(e)], wrote[e], got[e], Packets(net[e]), Packets(net[Peer(e)]))
         /\ Heard(e, tcb[e], tcb[Peer(e)]) /\ Informed(tcb[e], can[e])
         /\ \A p \in Packets(net[e]) : Carries(tcb[Peer(e)], p)
<1>1. TypeOK /\ WholeAt(e) /\ WholeAt(Peer(e))
  BY InvEnds, Ends
<1>2. PICK f, t, u, A, B : /\ f = Peer(e) /\ t = tcb[e] /\ u = tcb[f]
                           /\ A = Packets(net[e]) /\ B = Packets(net[f])
  OBVIOUS
<1>3. f \in End /\ Peer(f) = e
  BY <1>2, Ends
<1>4. Whole(e, t, u, wrote[e], got[e], can[e], A, B) /\ Whole(f, u, t, wrote[f], got[f], can[f], B, A)
  BY <1>1, <1>2, <1>3, Zenon DEF WholeAt
<1>5. /\ Typed(t) /\ Typed(u) /\ t.out = <<>> /\ net[e] \in Seq(Pkt) /\ net[f] \in Seq(Pkt)
      /\ wrote[e] \in Nat /\ wrote[f] \in Nat /\ got[e] \in Seq(Nat)
  BY <1>1, <1>2, <1>3 DEF TypeOK
<1>6. A \subseteq Pkt /\ B \subseteq Pkt
  BY <1>2, <1>5 DEF Packets
<1>7. Sound(e, t, u, wrote[e], got[e], A, B) /\ Heard(e, t, u) /\ (\A p \in A : Carries(u, p))
  <2>1. Whole(Peer(e), u, t, wrote[f], got[f], can[f], B, A)
    BY <1>2, <1>4
  <2>. QED
    BY <1>4, <1>5, <1>6, <2>1, WholeSound
<1>8. Informed(t, can[e])
  BY <1>4, Zenon DEF Whole
<1>. QED
  BY <1>2, <1>7, <1>8, Zenon

(* What the caller does with the object that a step of e leaves.            *)
Leaves(e, q, rest, c) ==
  /\ tcb' = [tcb EXCEPT ![e] = Cleared(q)]
  /\ net' = [net EXCEPT ![e] = rest, ![Peer(e)] = @ \o q.out]
  /\ can' = [can EXCEPT ![e] = Notes(q, c)]
LEMMA FinishLeaves ==
  ASSUME NEW e, NEW q, NEW rest, Finish(e, q, rest)
  PROVE  Leaves(e, q, rest, can[e])
  BY Zenon DEF Finish, Leaves, Cleared, Notes

(* The invariant after a step of one object.                                *)
LEMMA LeavesInv ==
  ASSUME IInv, NEW e \in End, NEW q, NEW rest, NEW c, NEW w, NEW g,
         StepDone(e, tcb[e], q, tcb[Peer(e)], w, g, Packets(net[e]), Packets(net[Peer(e)]), c),
         Leaves(e, q, rest, c), rest \in Seq(Pkt), Packets(rest) \subseteq Packets(net[e]),
         c \subseteq {"read", "write", "close"},
         wrote' = [wrote EXCEPT ![e] = w], got' = [got EXCEPT ![e] = g],
         mtu' \in [End -> Nat \ {0}], todo' \in [End -> Nat]
  PROVE  IInv'
<1>1. PICK f, t, u, s, A, B, R, N : /\ f = Peer(e) /\ t = tcb[e] /\ u = tcb[f] /\ s = Cleared(q)
                                    /\ A = Packets(net[e]) /\ B = Packets(net[f])
                                    /\ R = Packets(rest) /\ N = Outgoing(B, q)
  OBVIOUS
<1>2. f \in End /\ f # e /\ Peer(f) = e /\ \A x \in End : x = e \/ x = f
  BY <1>1, Ends
<1>3. TypeOK /\ WholeAt(f)
  BY <1>2, InvEnds
<1>4. /\ tcb = [x \in End |-> tcb[x]] /\ Typed(t) /\ Typed(u) /\ u.out = <<>> /\ u.told = {}
      /\ net \in [End -> Seq(Pkt)] /\ wrote \in [End -> Nat] /\ got \in [End -> Seq(Nat)]
      /\ can \in [End -> SUBSET {"read", "write", "close"}]
  BY <1>1, <1>2, <1>3, Zenon DEF TypeOK
<1>5. StepDone(e, t, q, u, w, g, A, B, c)
  BY <1>1, Zenon
<1>6. Typed(q) /\ g \in Seq(Nat) /\ w \in Nat
  BY <1>5, Zenon DEF StepDone, Sound
<1>7. q.out \in Seq(Pkt) /\ q.told \subseteq {"read", "write", "close"}
  BY <1>6, Zenon DEF Typed
<1>8. Typed(s) /\ s.out = <<>> /\ s.told = {}
  BY <1>1, <1>6, ClearedIs
<1>9. Whole(Peer(e), u, t, wrote[f], got[f], can[f], B, A)
  BY <1>1, <1>2, <1>3, Zenon DEF WholeAt
<1>10. R \subseteq A
  BY <1>1
<1>11. /\ Whole(e, s, u, w, g, Notes(q, c), R, N)
       /\ Whole(Peer(e), u, s, wrote[f], got[f], can[f], N, R)
  <2>1. s = Cleared(q) /\ N = Outgoing(B, q) /\ Typed(t)
    BY <1>1, <1>4
  <2>2. PICK v, h, d : v = wrote[f] /\ h = got[f] /\ d = can[f]
    OBVIOUS
  <2>3. Whole(Peer(e), u, t, v, h, d, B, A)
    BY <1>9, <2>2
  <2>4. /\ Whole(e, s, u, w, g, Notes(q, c), R, N)
        /\ Whole(Peer(e), u, s, v, h, d, N, R)
    BY <1>5, <1>10, <2>1, <2>3, StepWhole
  <2>. QED
    BY <2>2, <2>4, Zenon
<1>12. tcb' = [tcb EXCEPT ![e] = s]
  BY <1>1, Zenon DEF Leaves
<1>13. tcb' = [x \in End |-> tcb'[x]] /\ tcb'[e] = s /\ tcb'[f] = u
  BY <1>1, <1>2, <1>4, <1>12, Zenon
<1>14. PICK r : r = net[f] \o q.out
  OBVIOUS
<1>15. r \in Seq(Pkt) /\ Packets(r) = N
  <2>1. net[f] \in Seq(Pkt)
    BY <1>2, <1>4
  <2>2. net[f] \o q.out \in Seq(Pkt) /\ Packets(net[f] \o q.out) = Packets(net[f]) \cup Packets(q.out)
    BY <1>7, <2>1, PacketsConcat
  <2>. QED
    BY <1>1, <1>14, <2>2, Zenon DEF Outgoing
<1>16. net' \in [End -> Seq(Pkt)] /\ net'[e] = rest /\ net'[f] = r
  <2>1. net' = [net EXCEPT ![e] = rest, ![f] = @ \o q.out]
    BY <1>1, Zenon DEF Leaves
  <2>2. net' = [net EXCEPT ![e] = rest, ![f] = r]
    BY <1>2, <1>4, <1>14, <2>1
  <2>. QED
    BY <1>2, <1>4, <1>15, <2>2
<1>17. PICK k : k = Notes(q, c)
  OBVIOUS
<1>18. k \subseteq {"read", "write", "close"}
  BY <1>7, <1>17 DEF Notes
<1>19. can' \in [End -> SUBSET {"read", "write", "close"}] /\ can'[e] = k /\ can'[f] = can[f]
  <2>1. can' = [can EXCEPT ![e] = k]
    BY <1>17, Zenon DEF Leaves
  <2>. QED
    BY <1>2, <1>4, <1>18, <2>1
<1>20. wrote' \in [End -> Nat] /\ wrote'[e] = w /\ wrote'[f] = wrote[f]
  BY <1>2, <1>4, <1>6
<1>21. got' \in [End -> Seq(Nat)] /\ got'[e] = g /\ got'[f] = got[f]
  BY <1>2, <1>4, <1>6
<1>22. \A x \in End : Typed(tcb'[x]) /\ tcb'[x].out = <<>> /\ tcb'[x].told = {}
  BY <1>2, <1>4, <1>8, <1>13, Zenon
<1>23. TypeOK'
  BY <1>13, <1>16, <1>19, <1>20, <1>21, <1>22, Zenon DEF TypeOK
<1>24. Whole(e, tcb'[e], tcb'[f], wrote'[e], got'[e], can'[e], Packets(net'[e]), Packets(net'[f]))
  BY <1>1, <1>11, <1>13, <1>15, <1>16, <1>17, <1>19, <1>20, <1>21, Zenon
<1>25. Whole(f, tcb'[f], tcb'[e], wrote'[f], got'[f], can'[f], Packets(net'[f]), Packets(net'[e]))
  BY <1>1, <1>11, <1>13, <1>15, <1>16, <1>19, <1>20, <1>21, Zenon
<1>26. \A x \in End : Whole(x, tcb'[x], tcb'[Peer(x)], wrote'[x], got'[x], can'[x],
                            Packets(net'[x]), Packets(net'[Peer(x)]))
  BY <1>1, <1>2, <1>24, <1>25, Zenon
<1>. QED
  BY <1>23, <1>26, Zenon DEF IInv, Whole

(* What the invariant says of the types.                                    *)
LEMMA InvTypes ==
  ASSUME IInv, NEW e \in End
  PROVE  /\ Typed(tcb[e]) /\ tcb[e].out = <<>> /\ tcb[e].told = {}
         /\ net[e] \in Seq(Pkt) /\ mtu[e] \in Nat \ {0} /\ todo[e] \in Nat /\ wrote[e] \in Nat
         /\ got[e] \in Seq(Nat) /\ can[e] \subseteq {"read", "write", "close"}
         /\ wrote = [wrote EXCEPT ![e] = wrote[e]] /\ got = [got EXCEPT ![e] = got[e]]
         /\ mtu \in [End -> Nat \ {0}] /\ todo \in [End -> Nat]
<1>1. TypeOK
  BY DEF IInv
<1>2. Typed(tcb[e]) /\ tcb[e].out = <<>> /\ tcb[e].told = {}
  BY <1>1, Zenon DEF TypeOK
<1>3. /\ net \in [End -> Seq(Pkt)] /\ mtu \in [End -> Nat \ {0}] /\ todo \in [End -> Nat]
      /\ wrote \in [End -> Nat] /\ got \in [End -> Seq(Nat)]
      /\ can \in [End -> SUBSET {"read", "write", "close"}]
  BY <1>1, Zenon DEF TypeOK
<1>. QED
  BY <1>2, <1>3

(* The congestion window of a call.                                         *)
LEMMA CwndNat ==
  ASSUME NEW t, Typed(t), NEW c \in Cwnd(t)
  PROVE  c \in Nat \ {0}
<1>1. t.mss \in Nat \ {0} /\ SndBufSize \in Nat
  BY PseudoTcpAssumption DEF Typed
<1>. QED
  BY <1>1 DEF Cwnd

(* A step that ends with AdjustClock.                                       *)
LEMMA AdjustInv ==
  ASSUME IInv, NEW e \in End, NEW s, NEW rest,
         StepDone(e, tcb[e], s, tcb[Peer(e)], wrote[e], got[e],
                  Packets(net[e]), Packets(net[Peer(e)]), can[e]),
         AdjustClock(e, s, rest), rest \in Seq(Pkt), Packets(rest) \subseteq Packets(net[e]),
         wrote' = wrote, got' = got, mtu' \in [End -> Nat \ {0}], todo' = todo
  PROVE  IInv'
<1>1. PICK q : q = IF ClockCheck(s) THEN s ELSE [s EXCEPT !.state = Deleted(s)]
  OBVIOUS
<1>2. StepDone(e, tcb[e], q, tcb[Peer(e)], wrote[e], got[e],
               Packets(net[e]), Packets(net[Peer(e)]), can[e])
  <2>1. CASE ClockCheck(s)
    BY <1>1, <2>1
  <2>2. CASE ~ClockCheck(s)
    <3>1. q = Put(s, "state", Deleted(s))
      BY <1>1, <2>2, Zenon DEF Put
    <3>2. PICK t, u, w, g, A, B, c : /\ t = tcb[e] /\ u = tcb[Peer(e)] /\ w = wrote[e] /\ g = got[e]
                                     /\ A = Packets(net[e]) /\ B = Packets(net[Peer(e)]) /\ c = can[e]
      OBVIOUS
    <3>3. StepDone(e, t, s, u, w, g, A, B, c)
      BY <3>2, Zenon
    <3>4. StepDone(e, t, q, u, w, g, A, B, c)
      BY <2>2, <3>1, <3>3, DeletedSound
    <3>. QED
      BY <3>2, <3>4, Zenon
  <2>. QED
    BY <2>1, <2>2
<1>3. Finish(e, q, rest)
  BY <1>1, Zenon DEF AdjustClock
<1>4. Leaves(e, q, rest, can[e])
  BY <1>3, FinishLeaves
<1>5. /\ can[e] \subseteq {"read", "write", "close"} /\ todo' \in [End -> Nat]
      /\ wrote' = [wrote EXCEPT ![e] = wrote[e]] /\ got' = [got EXCEPT ![e] = got[e]]
  BY InvTypes
<1>. QED
  BY <1>2, <1>4, <1>5, LeavesInv

(* Connect keeps the invariant.                                             *)
LEMMA ConnectInv ==
  ASSUME IInv, Connect
  PROVE  IInv'
<1>1. PICK t : t = tcb[1] /\ t.state = "LISTEN"
  BY DEF Connect
<1>2. 1 \in End
  BY DEF End
<1>3. PICK x : x = Connecting(t, "SYN_SENT")
  OBVIOUS
<1>4. \E c \in Cwnd(x) : AdjustClock(1, AttemptSend(x, "none", c, mtu[1]), net[1])
  BY <1>1, <1>3, Zenon DEF Connect, Connecting, Put
<1>5. PICK c \in Cwnd(x) : AdjustClock(1, AttemptSend(x, "none", c, mtu[1]), net[1])
  BY <1>4
<1>6. PICK q : q = AttemptSend(x, "none", c, mtu[1])
  OBVIOUS
<1>7. /\ mtu[1] \in Nat \ {0} /\ net[1] \in Seq(Pkt) /\ mtu \in [End -> Nat \ {0}]
  BY <1>2, InvTypes
<1>8. PICK u, w, g, A, B, d, m : /\ u = tcb[Peer(1)] /\ w = wrote[1] /\ g = got[1]
                                 /\ A = Packets(net[1]) /\ B = Packets(net[Peer(1)]) /\ d = can[1]
                                 /\ m = mtu[1]
  OBVIOUS
<1>9. Sound(1, t, u, w, g, A, B) /\ Informed(t, d)
  BY <1>1, <1>2, <1>8, InvSound
<1>10. c \in Nat \ {0}
  <2>1. t.state \notin Gone
    BY <1>1 DEF Gone
  <2>2. Live(t, u, A, B) /\ Sized(t, w) /\ w = 0
    BY <1>1, <1>9, <2>1, SoundLive
  <2>3. Live(x, u, A, B)
    BY <1>1, <1>3, <2>2, ConnectQueued
  <2>4. Typed(x)
    BY <2>3 DEF Live
  <2>. QED
    BY <1>5, <2>4, CwndNat
<1>11. StepDone(1, t, q, u, w, g, A, B, d)
  <2>1. m \in Nat \ {0} /\ q = AttemptSend(Connecting(t, "SYN_SENT"), "none", c, m)
    BY <1>3, <1>6, <1>7, <1>8
  <2>. QED
    BY <1>1, <1>9, <1>10, <2>1, ConnectSound
<1>12. StepDone(1, tcb[1], q, tcb[Peer(1)], wrote[1], got[1],
                Packets(net[1]), Packets(net[Peer(1)]), can[1])
  BY <1>1, <1>8, <1>11, Zenon
<1>13. AdjustClock(1, q, net[1])
  BY <1>5, <1>6, Zenon
<1>14. wrote' = wrote /\ got' = got /\ mtu' \in [End -> Nat \ {0}] /\ todo' = todo
  BY <1>7 DEF Connect
<1>15. Packets(net[1]) \subseteq Packets(net[1])
  OBVIOUS
<1>. QED
  BY <1>2, <1>7, <1>12, <1>13, <1>14, <1>15, AdjustInv

(* The network may lose, repeat and re-order packets.                       *)
LEMMA NetInv ==
  ASSUME IInv, UNCHANGED <<tcb, mtu, todo, wrote, got, can>>, net' \in [End -> Seq(Pkt)],
         \A x \in End : Packets(net'[x]) \subseteq Packets(net[x])
  PROVE  IInv'
<1>1. TypeOK
  BY DEF IInv
<1>2. TypeOK'
  BY <1>1, Zenon DEF TypeOK
<1>3. \A x \in End : Peer(x) \in End
  BY Ends
<1>4. \A x \in End : Whole(x, tcb[x], tcb[Peer(x)], wrote[x], got[x], can[x],
                           Packets(net[x]), Packets(net[Peer(x)]))
  BY InvEnds, Zenon DEF WholeAt
<1>5. \A x \in End : Whole(x, tcb[x], tcb[Peer(x)], wrote[x], got[x], can[x],
                           Packets(net'[x]), Packets(net'[Peer(x)]))
  <2>. SUFFICES ASSUME NEW x \in End
                PROVE  Whole(x, tcb[x], tcb[Peer(x)], wrote[x], got[x], can[x],
                             Packets(net'[x]), Packets(net'[Peer(x)]))
    OBVIOUS
  <2>1. /\ Packets(net'[x]) \subseteq Packets(net[x])
        /\ Packets(net'[Peer(x)]) \subseteq Packets(net[Peer(x)])
    BY <1>3
  <2>. QED
    BY <1>4, <2>1, Zenon DEF Whole
<1>. QED
  BY <1>2, <1>5, Zenon DEF IInv, Whole

(* The packet that is delivered and those after it.                         *)
LEMMA HeadPackets ==
  ASSUME NEW s \in Seq(Pkt), s # <<>>
  PROVE  Head(s) \in Packets(s) /\ Tail(s) \in Seq(Pkt) /\ Packets(Tail(s)) \subseteq Packets(s)
<1>1. Len(s) \in Nat /\ Len(s) > 0 /\ Head(s) = s[1]
  BY EmptySeq, LenProperties
<1>2. PICK r : r = Tail(s)
  OBVIOUS
<1>3. r \in Seq(Pkt) /\ Len(r) = Len(s) - 1 /\ \A i \in 1..Len(r) : r[i] = s[i + 1]
  BY <1>1, <1>2
<1>4. ASSUME NEW i \in 1..Len(r) PROVE r[i] \in Packets(s)
  <2>1. i + 1 \in 1..Len(s) /\ r[i] = s[i + 1]
    BY <1>1, <1>3
  <2>. QED
    BY <2>1 DEF Packets
<1>5. Packets(r) \subseteq Packets(s)
  BY <1>4, Zenon DEF Packets
<1>6. 1 \in 1..Len(s)
  BY <1>1
<1>7. s[1] \in Packets(s)
  BY <1>6, Zenon DEF Packets
<1>. QED
  BY <1>1, <1>2, <1>3, <1>5, <1>7

(* NotifyPacket keeps the invariant.                                        *)
LEMMA PacketInv ==
  ASSUME IInv, NEW e \in End, NotifyPacket(e)
  PROVE  IInv'
<1>1. PICK n, seg, rest : n = net[e] /\ seg = Head(n) /\ rest = Tail(n)
  OBVIOUS
<1>2. n \in Seq(Pkt) /\ n # <<>>
  BY <1>1, InvTypes DEF NotifyPacket
<1>3. seg \in Packets(n) /\ rest \in Seq(Pkt) /\ Packets(rest) \subseteq Packets(n)
  BY <1>1, <1>2, HeadPackets
<1>4. UNCHANGED <<mtu, todo, wrote, got>>
  BY Zenon DEF NotifyPacket
<1>5. CASE tcb[e].state \in Gone
  <2>1. net' = [net EXCEPT ![e] = Tail(net[e])] /\ UNCHANGED <<tcb, can>>
    BY <1>5, Zenon DEF NotifyPacket
  <2>2. net \in [End -> Seq(Pkt)]
    BY DEF IInv, TypeOK
  <2>3. net' = [net EXCEPT ![e] = rest]
    BY <1>1, <2>1, Zenon
  <2>4. net' \in [End -> Seq(Pkt)] /\ net'[e] = rest /\ \A x \in End : x # e => net'[x] = net[x]
    BY <1>3, <2>2, <2>3
  <2>5. \A x \in End : Packets(net'[x]) \subseteq Packets(net[x])
    <3>. SUFFICES ASSUME NEW x \in End PROVE Packets(net'[x]) \subseteq Packets(net[x])
      OBVIOUS
    <3>1. CASE x = e
      BY <1>1, <1>3, <2>4, <3>1, Zenon
    <3>2. CASE x # e
      <4>1. net'[x] = net[x]
        BY <2>4, <3>2
      <4>. QED
        BY <4>1, Zenon
    <3>. QED
      BY <3>1, <3>2
  <2>6. UNCHANGED <<tcb, mtu, todo, wrote, got, can>>
    BY <1>4, <2>1
  <2>. QED
    BY <2>4, <2>5, <2>6, NetInv
<1>6. CASE tcb[e].state \notin Gone
  <2>1. \E c \in Cwnd(tcb[e]) : AdjustClock(e, Process(tcb[e], seg, c, mtu[e]), rest)
    BY <1>1, <1>6, Zenon DEF NotifyPacket
  <2>2. PICK c \in Cwnd(tcb[e]) : AdjustClock(e, Process(tcb[e], seg, c, mtu[e]), rest)
    BY <2>1
  <2>3. PICK t, u, w, g, A, B, d, m, q :
             /\ t = tcb[e] /\ u = tcb[Peer(e)] /\ w = wrote[e] /\ g = got[e]
             /\ A = Packets(net[e]) /\ B = Packets(net[Peer(e)]) /\ d = can[e] /\ m = mtu[e]
             /\ q = Process(t, seg, c, m)
    OBVIOUS
  <2>4. /\ Sound(e, t, u, w, g, A, B) /\ Heard(e, t, u) /\ Informed(t, d)
        /\ \A p \in A : Carries(u, p)
    BY <2>3, InvSound
  <2>5. Typed(t) /\ m \in Nat \ {0} /\ mtu \in [End -> Nat \ {0}]
    BY <2>3, InvTypes
  <2>6. c \in Nat \ {0}
    BY <2>2, <2>3, <2>5, CwndNat
  <2>7. seg \in A /\ Carries(u, seg) /\ t.state \notin Gone
    BY <1>1, <1>3, <1>6, <2>3, <2>4
  <2>8. StepDone(e, t, q, u, w, g, A, B, d)
    BY <2>3, <2>4, <2>5, <2>6, <2>7, ProcessSound
  <2>9. StepDone(e, tcb[e], q, tcb[Peer(e)], wrote[e], got[e],
                 Packets(net[e]), Packets(net[Peer(e)]), can[e])
    BY <2>3, <2>8, Zenon
  <2>10. AdjustClock(e, q, rest)
    BY <2>2, <2>3, Zenon
  <2>11. wrote' = wrote /\ got' = got /\ mtu' \in [End -> Nat \ {0}] /\ todo' = todo
    BY <1>4, <2>5
  <2>12. Packets(rest) \subseteq Packets(net[e])
    BY <1>1, <1>3
  <2>. QED
    BY <1>3, <2>9, <2>10, <2>11, <2>12, AdjustInv
<1>. QED
  BY <1>5, <1>6

(* A step of e that takes nothing from the network.                         *)
LEMMA OwnStep ==
  ASSUME IInv, NEW e \in End, NEW s, AdjustClock(e, s, net[e]),
         StepDone(e, tcb[e], s, tcb[Peer(e)], wrote[e], got[e],
                  Packets(net[e]), Packets(net[Peer(e)]), can[e]),
         wrote' = wrote, got' = got, todo' = todo, mtu' \in [End -> Nat \ {0}]
  PROVE  IInv'
<1>1. net[e] \in Seq(Pkt)
  BY InvTypes
<1>2. Packets(net[e]) \subseteq Packets(net[e])
  OBVIOUS
<1>. QED
  BY <1>1, <1>2, AdjustInv

(* NotifyClock keeps the invariant.                                         *)
LEMMA ClockInv ==
  ASSUME IInv, NEW e \in End, NEW r, NEW p, NEW a, NEW silent, NotifyClock(e, r, p, a, silent)
  PROVE  IInv'
<1>1. PICK t, u, w, g, A, B, d, m, q :
           /\ t = tcb[e] /\ u = tcb[Peer(e)] /\ w = wrote[e] /\ g = got[e]
           /\ A = Packets(net[e]) /\ B = Packets(net[Peer(e)]) /\ d = can[e] /\ m = mtu[e]
           /\ q = Clock(t, r, p, a, silent, m)
  OBVIOUS
<1>2. /\ t.state \notin Gone /\ ClockDue(t, r, p, a) /\ AdjustClock(e, q, net[e])
      /\ wrote' = wrote /\ got' = got /\ mtu' = mtu /\ todo' = todo
  BY <1>1, Zenon DEF NotifyClock
<1>3. Sound(e, t, u, w, g, A, B) /\ Informed(t, d)
  BY <1>1, InvSound
<1>4. m \in Nat \ {0} /\ mtu' \in [End -> Nat \ {0}]
  BY <1>1, <1>2, InvTypes
<1>5. StepDone(e, t, q, u, w, g, A, B, d)
  BY <1>1, <1>2, <1>3, <1>4, ClockSound
<1>6. StepDone(e, tcb[e], q, tcb[Peer(e)], wrote[e], got[e],
               Packets(net[e]), Packets(net[Peer(e)]), can[e])
  BY <1>1, <1>5, Zenon
<1>. QED
  BY <1>2, <1>4, <1>6, OwnStep

(* NotifyMTU keeps the invariant.                                           *)
LEMMA MtuInv ==
  ASSUME IInv, NEW e \in End, NEW real \in 1..MaxMss, NEW estimate \in 1..MaxMss,
         NotifyMTU(e, real, estimate)
  PROVE  IInv'
<1>1. PICK t, u, w, g, A, B, d, x :
           /\ t = tcb[e] /\ u = tcb[Peer(e)] /\ w = wrote[e] /\ g = got[e]
           /\ A = Packets(net[e]) /\ B = Packets(net[Peer(e)]) /\ d = can[e]
           /\ x = IF t.state = "ESTABLISHED" THEN estimate ELSE t.mss
  OBVIOUS
<1>2. PICK q : q = Put(Put(t, "mtu_advise", estimate), "mss", x)
  OBVIOUS
<1>3. q = [t EXCEPT !.mtu_advise = estimate, !.mss = IF t.state = "ESTABLISHED" THEN estimate ELSE @]
  BY <1>1, <1>2, Zenon DEF Put
<1>4. /\ t.state \notin Gone /\ AdjustClock(e, q, net[e]) /\ mtu' = [mtu EXCEPT ![e] = real]
      /\ wrote' = wrote /\ got' = got /\ todo' = todo
  BY <1>1, <1>3, Zenon DEF NotifyMTU
<1>5. Sound(e, t, u, w, g, A, B) /\ Informed(t, d)
  BY <1>1, InvSound
<1>6. real \in Nat \ {0} /\ estimate \in Nat \ {0}
  BY PseudoTcpAssumption
<1>7. x \in Nat \ {0} /\ mtu' \in [End -> Nat \ {0}]
  <2>1. mtu \in [End -> Nat \ {0}] /\ Typed(t)
    BY <1>1, InvTypes
  <2>2. t.mss \in Nat \ {0}
    BY <2>1 DEF Typed
  <2>. QED
    BY <1>1, <1>4, <1>6, <2>1, <2>2
<1>8. StepDone(e, t, q, u, w, g, A, B, d)
  BY <1>2, <1>4, <1>5, <1>6, <1>7, MtuSound
<1>9. StepDone(e, tcb[e], q, tcb[Peer(e)], wrote[e], got[e],
               Packets(net[e]), Packets(net[Peer(e)]), can[e])
  BY <1>1, <1>8, Zenon
<1>. QED
  BY <1>4, <1>7, <1>9, OwnStep

(* Close keeps the invariant.                                               *)
LEMMA CloseInv ==
  ASSUME IInv, NEW e \in End, NEW force, Close(e, force)
  PROVE  IInv'
<1>1. PICK t, u, w, g, A, B, d, x, q :
           /\ t = tcb[e] /\ u = tcb[Peer(e)] /\ w = wrote[e] /\ g = got[e]
           /\ A = Packets(net[e]) /\ B = Packets(net[Peer(e)]) /\ d = can[e]
           /\ x = (IF force THEN "FORCEFUL" ELSE "GRACEFUL")
           /\ q = Put(t, "shutdown", x)
  OBVIOUS
<1>2. q = [t EXCEPT !.shutdown = IF force THEN "FORCEFUL" ELSE "GRACEFUL"]
  BY <1>1, Zenon DEF Put
<1>3. /\ t.state \notin Gone /\ AdjustClock(e, q, net[e])
      /\ wrote' = wrote /\ got' = got /\ mtu' = mtu /\ todo' = todo
  BY <1>1, <1>2, Zenon DEF Close
<1>4. Sound(e, t, u, w, g, A, B) /\ Informed(t, d)
  BY <1>1, InvSound
<1>5. mtu' \in [End -> Nat \ {0}]
  BY <1>3, InvTypes
<1>6. x \in {"GRACEFUL", "FORCEFUL"}
  BY <1>1
<1>7. StepDone(e, t, q, u, w, g, A, B, d)
  BY <1>1, <1>3, <1>4, <1>6, CloseSound
<1>8. StepDone(e, tcb[e], q, tcb[Peer(e)], wrote[e], got[e],
               Packets(net[e]), Packets(net[Peer(e)]), can[e])
  BY <1>1, <1>7, Zenon
<1>. QED
  BY <1>3, <1>5, <1>8, OwnStep

(* An owner that has to wait is told nothing, and nothing is sent.          *)
LEMMA WaitingLeaves ==
  ASSUME IInv, NEW e \in End, NEW f \in {"bReadEnable", "bWriteEnable"}, NEW c,
         tcb[e].shutdown = "NONE", NEW q, q = Waiting(tcb[e], f),
         tcb' = [tcb EXCEPT ![e] = q], net' = net, can' = [can EXCEPT ![e] = c]
  PROVE  Leaves(e, q, net[e], c)
<1>1. PICK t, b : t = tcb[e] /\ b = TRUE
  OBVIOUS
<1>2. Typed(t) /\ t.out = <<>> /\ t.told = {} /\ Unaltered(t) /\ f \in Field
  BY <1>1, InvTypes DEF Typed, Field
<1>3. q = Put(t, f, b)
  BY <1>1, Zenon DEF Waiting
<1>4. Unaltered(q) /\ SameBut(t, q, {f})
  BY <1>2, <1>3, PutFields
<1>5. q.out = t.out /\ q.told = t.told /\ q.shutdown = t.shutdown
  <2>1. SameBut(t, q, {"bReadEnable", "bWriteEnable"})
    BY <1>4, Zenon DEF SameBut
  <2>. QED
    BY <2>1, Zenon DEF SameBut, Field
<1>6. q.out = <<>> /\ q.told = {} /\ q.shutdown = "NONE"
  BY <1>1, <1>2, <1>5
<1>7. Cleared(q) = q
  <2>1. PICK y, z : y = <<>> /\ z = {}
    OBVIOUS
  <2>2. Cleared(q) = [q EXCEPT !.out = y, !.told = z]
    BY <2>1, Zenon DEF Cleared
  <2>3. q.out = y /\ q.told = z
    BY <1>6, <2>1
  <2>4. q = [h \in Field |-> q[h]]
    BY <1>4, Zenon DEF Unaltered
  <2>5. Cleared(q) = [h \in Field |-> q[h]]
    BY <2>2, <2>3, <2>4, Zenon
  <2>. QED
    BY <2>4, <2>5
<1>8. Notes(q, c) = c
  BY <1>6 DEF Notes
<1>9. net = [net EXCEPT ![e] = net[e], ![Peer(e)] = @ \o q.out]
  <2>1. net \in [End -> Seq(Pkt)]
    BY DEF IInv, TypeOK
  <2>2. Peer(e) \in End /\ Peer(e) # e
    BY Ends
  <2>3. PICK r : r = net[Peer(e)]
    OBVIOUS
  <2>4. r \o q.out = r
    <3>1. r \in Seq(Pkt)
      BY <2>1, <2>2, <2>3
    <3>2. r \o <<>> = r
      BY <3>1, ConcatEmptySeq
    <3>. QED
      BY <1>6, <3>2
  <2>5. [net EXCEPT ![e] = net[e], ![Peer(e)] = @ \o q.out] =
          [net EXCEPT ![e] = net[e], ![Peer(e)] = r \o q.out]
    BY <2>1, <2>2, <2>3
  <2>6. net = [net EXCEPT ![e] = net[e], ![Peer(e)] = r]
    BY <2>1, <2>3
  <2>. QED
    BY <2>4, <2>5, <2>6, Zenon
<1>. QED
  BY <1>1, <1>7, <1>8, <1>9, Zenon DEF Leaves

(* And the invariant is kept.                                               *)
LEMMA WaitingInv ==
  ASSUME IInv, NEW e \in End, NEW f \in {"bReadEnable", "bWriteEnable"}, NEW c,
         c \subseteq {"read", "write", "close"},
         tcb[e].shutdown = "NONE", NEW q, q = Waiting(tcb[e], f),
         tcb' = [tcb EXCEPT ![e] = q], net' = net, can' = [can EXCEPT ![e] = c],
         UNCHANGED <<mtu, todo, wrote, got>>,
         StepDone(e, tcb[e], q, tcb[Peer(e)], wrote[e], got[e],
                  Packets(net[e]), Packets(net[Peer(e)]), c)
  PROVE  IInv'
<1>1. Leaves(e, q, net[e], c)
  BY WaitingLeaves
<1>2. /\ net[e] \in Seq(Pkt)
      /\ wrote' = [wrote EXCEPT ![e] = wrote[e]] /\ got' = [got EXCEPT ![e] = got[e]]
      /\ mtu' \in [End -> Nat \ {0}] /\ todo' \in [End -> Nat]
  BY InvTypes
<1>3. Packets(net[e]) \subseteq Packets(net[e])
  OBVIOUS
<1>. QED
  BY <1>1, <1>2, <1>3, LeavesInv

(* How much an owner writes or reads at once.                               *)
LEMMA Portion ==
  ASSUME NEW n, NEW l, NEW m, m = Min({n, l}), n \in Nat \ {0}, l \in Nat
  PROVE  m \in Nat /\ m <= n /\ m <= l /\ (m = 0 <=> l = 0)
<1>1. m = IF n <= l THEN n ELSE l
  BY MinOfTwo
<1>. QED
  BY <1>1

(* Send keeps the invariant.                                                *)
LEMMA SendInv ==
  ASSUME IInv, NEW e \in End, NEW n \in {1, todo[e]}, Send(e, n)
  PROVE  IInv'
<1>1. PICK t, u, w, g, A, B, c, k, l, j :
           /\ t = tcb[e] /\ u = tcb[Peer(e)] /\ w = wrote[e] /\ g = got[e]
           /\ A = Packets(net[e]) /\ B = Packets(net[Peer(e)]) /\ c = can[e]
           /\ l = SndBufSize - Len(t.sbuf) /\ k = Min({n, l}) /\ j = todo[e]
  OBVIOUS
<1>2. "write" \in c /\ t.state = "ESTABLISHED" /\ j > 0 /\ mtu' = mtu /\ got' = got
  BY <1>1, Zenon DEF Send
<1>3. Sound(e, t, u, w, g, A, B) /\ Informed(t, c)
  BY <1>1, InvSound
<1>4. t.shutdown = "NONE"
  <2>1. c # {}
    BY <1>2
  <2>. QED
    BY <1>3, <2>1, Zenon DEF Informed
<1>5. /\ j \in Nat /\ todo \in [End -> Nat] /\ mtu \in [End -> Nat \ {0}] /\ Typed(t)
      /\ mtu[e] \in Nat \ {0}
  BY <1>1, InvTypes
<1>6. n \in Nat \ {0} /\ n <= j
  BY <1>1, <1>2, <1>5
<1>7. PICK b : b = Len(t.sbuf) /\ b \in Nat /\ b <= SndBufSize /\ SndBufSize \in Nat
  <2>1. t.state \notin Gone
    BY <1>2 DEF Gone
  <2>2. Live(t, u, A, B)
    BY <1>3, <2>1, SoundLive
  <2>3. Len(t.sbuf) <= SndBufSize /\ t.sbuf \in Seq(Nat)
    BY <2>2 DEF Live, Tiled, Typed
  <2>4. Len(t.sbuf) \in Nat
    BY <2>3, LenProperties
  <2>. QED
    BY <2>3, <2>4, PseudoTcpAssumption
<1>8. l \in Nat /\ b + l = SndBufSize
  BY <1>1, <1>7
<1>9. k \in Nat /\ k <= n /\ k <= l /\ (k = 0 <=> l = 0)
  <2>1. k = Min({n, l})
    BY <1>1
  <2>. QED
    BY <1>6, <1>8, <2>1, Portion, Zenon
<1>10. CASE k = 0
  <2>1. PICK q : q = Waiting(t, "bWriteEnable")
    OBVIOUS
  <2>2. /\ tcb' = [tcb EXCEPT ![e].bWriteEnable = TRUE]
        /\ can' = [can EXCEPT ![e] = can[e] \ {"write"}] /\ UNCHANGED <<net, todo, wrote>>
    BY <1>1, <1>10, Zenon DEF Send
  <2>3. tcb' = [tcb EXCEPT ![e] = q]
    BY <1>1, <2>1, <2>2, Zenon DEF Waiting, Put
  <2>4. ~SpaceFor(t, 1)
    <3>1. ~(b + 1 <= SndBufSize)
      BY <1>7, <1>8, <1>9, <1>10
    <3>. QED
      BY <1>7, <3>1, Zenon DEF SpaceFor
  <2>5. StepDone(e, t, q, u, w, g, A, B, c \ {"write"})
    BY <1>2, <1>3, <2>1, <2>4, FullSound
  <2>6. PICK d : d = c \ {"write"}
    OBVIOUS
  <2>7. /\ StepDone(e, tcb[e], q, tcb[Peer(e)], wrote[e], got[e],
                    Packets(net[e]), Packets(net[Peer(e)]), d)
        /\ q = Waiting(tcb[e], "bWriteEnable") /\ tcb[e].shutdown = "NONE"
        /\ can' = [can EXCEPT ![e] = d]
    BY <1>1, <1>4, <2>1, <2>2, <2>5, <2>6, Zenon
  <2>8. UNCHANGED <<mtu, todo, wrote, got>> /\ net' = net
    BY <1>2, <2>2
  <2>9. d \subseteq {"read", "write", "close"}
    BY <1>1, <2>6, InvTypes
  <2>. QED
    BY <2>3, <2>7, <2>8, <2>9, WaitingInv
<1>11. CASE k # 0
  <2>1. /\ \E d \in Cwnd(t) : Finish(e, Sending(t, Written(w, k), d, mtu[e]), net[e])
        /\ wrote' = [wrote EXCEPT ![e] = wrote[e] + k] /\ todo' = [todo EXCEPT ![e] = todo[e] - k]
    BY <1>1, <1>11, Zenon DEF Send, Sending, Written
  <2>2. PICK d \in Cwnd(t) : Finish(e, Sending(t, Written(w, k), d, mtu[e]), net[e])
    BY <2>1
  <2>3. PICK x, m, q, v : x = Written(w, k) /\ m = mtu[e] /\ q = Sending(t, x, d, m) /\ v = w + k
    OBVIOUS
  <2>4. Leaves(e, q, net[e], can[e])
    <3>1. Finish(e, q, net[e])
      BY <2>2, <2>3, Zenon
    <3>. QED
      BY <3>1, FinishLeaves
  <2>5. d \in Nat \ {0}
    BY <1>5, <2>2, CwndNat
  <2>6. SpaceFor(t, k)
    <3>1. b + k <= SndBufSize
      BY <1>7, <1>8, <1>9
    <3>. QED
      BY <1>7, <3>1, Zenon DEF SpaceFor
  <2>7. StepDone(e, t, q, u, w + k, g, A, B, c)
    <3>1. k \in Nat \ {0} /\ m \in Nat \ {0}
      BY <1>5, <1>9, <1>11, <2>3
    <3>. QED
      BY <1>2, <1>3, <2>3, <2>5, <2>6, <3>1, SendSound
  <2>8. /\ StepDone(e, tcb[e], q, tcb[Peer(e)], v, got[e],
                    Packets(net[e]), Packets(net[Peer(e)]), can[e])
    BY <1>1, <2>3, <2>7, Zenon
  <2>9. /\ wrote' = [wrote EXCEPT ![e] = v] /\ got' = [got EXCEPT ![e] = got[e]]
        /\ mtu' \in [End -> Nat \ {0}]
        /\ net[e] \in Seq(Pkt) /\ can[e] \subseteq {"read", "write", "close"}
    BY <1>1, <1>2, <2>1, <2>3, InvTypes
  <2>10. todo' \in [End -> Nat]
    <3>1. j - k \in Nat
      BY <1>5, <1>6, <1>9
    <3>2. todo' = [todo EXCEPT ![e] = j - k]
      BY <1>1, <2>1, Zenon
    <3>. QED
      BY <1>5, <3>1, <3>2
  <2>11. Packets(net[e]) \subseteq Packets(net[e])
    OBVIOUS
  <2>. QED
    BY <2>4, <2>8, <2>9, <2>10, <2>11, LeavesInv
<1>. QED
  BY <1>10, <1>11

(* Recv keeps the invariant.                                                *)
LEMMA RecvInv ==
  ASSUME IInv, NEW e \in End, NEW n \in {1, RcvBufSize}, Recv(e, n)
  PROVE  IInv'
<1>1. PICK t, u, w, g, A, B, c, k, l :
           /\ t = tcb[e] /\ u = tcb[Peer(e)] /\ w = wrote[e] /\ g = got[e]
           /\ A = Packets(net[e]) /\ B = Packets(net[Peer(e)]) /\ c = can[e]
           /\ l = t.rlen - t.rpos /\ k = Min({n, l})
  OBVIOUS
<1>2. "read" \in c /\ t.state = "ESTABLISHED" /\ mtu' = mtu /\ wrote' = wrote /\ todo' = todo
  BY <1>1, Zenon DEF Recv
<1>3. Sound(e, t, u, w, g, A, B) /\ Informed(t, c)
  BY <1>1, InvSound
<1>4. t.shutdown = "NONE"
  <2>1. c # {}
    BY <1>2
  <2>. QED
    BY <1>3, <2>1, Zenon DEF Informed
<1>5. Typed(t) /\ todo \in [End -> Nat] /\ mtu \in [End -> Nat \ {0}] /\ mtu[e] \in Nat \ {0}
  BY <1>1, InvTypes
<1>6. n \in Nat \ {0}
  BY PseudoTcpAssumption
<1>7. t.rlen \in Nat /\ t.rpos \in Nat /\ t.rpos <= t.rlen
  <2>1. t.rpos <= t.rlen
    BY <1>3 DEF Sound, Buffered
  <2>. QED
    BY <1>5, <2>1, ReceiverTypes
<1>8. l \in Nat /\ t.rpos + l = t.rlen
  BY <1>1, <1>7
<1>9. k \in Nat /\ k <= l /\ (k = 0 <=> l = 0)
  <2>1. k = Min({n, l})
    BY <1>1
  <2>. QED
    BY <1>6, <1>8, <2>1, Portion, Zenon
<1>10. CASE k = 0
  <2>1. PICK q : q = Waiting(t, "bReadEnable")
    OBVIOUS
  <2>2. /\ tcb' = [tcb EXCEPT ![e].bReadEnable = TRUE]
        /\ can' = [can EXCEPT ![e] = can[e] \ {"read"}] /\ UNCHANGED <<net, got>>
    BY <1>1, <1>10, Zenon DEF Recv
  <2>3. tcb' = [tcb EXCEPT ![e] = q]
    BY <1>1, <2>1, <2>2, Zenon DEF Waiting, Put
  <2>4. t.rlen = t.rpos
    BY <1>7, <1>8, <1>9, <1>10
  <2>5. StepDone(e, t, q, u, w, g, A, B, c \ {"read"})
    BY <1>2, <1>3, <2>1, <2>4, EmptySound
  <2>6. PICK d : d = c \ {"read"}
    OBVIOUS
  <2>7. /\ StepDone(e, tcb[e], q, tcb[Peer(e)], wrote[e], got[e],
                    Packets(net[e]), Packets(net[Peer(e)]), d)
        /\ q = Waiting(tcb[e], "bReadEnable") /\ tcb[e].shutdown = "NONE"
        /\ can' = [can EXCEPT ![e] = d]
    BY <1>1, <1>4, <2>1, <2>2, <2>5, <2>6, Zenon
  <2>8. UNCHANGED <<mtu, todo, wrote, got>> /\ net' = net
    BY <1>2, <2>2
  <2>9. d \subseteq {"read", "write", "close"}
    BY <1>1, <2>6, InvTypes
  <2>. QED
    BY <2>3, <2>7, <2>8, <2>9, WaitingInv
<1>11. CASE k # 0
  <2>1. PICK s, v, h : s = Took(t, k) /\ v = Widened(s) /\ h = ReadOn(g, t, k)
    OBVIOUS
  <2>2. s = [t EXCEPT !.rpos = @ + k]
    BY <2>1, Zenon DEF Took, Put
  <2>3. v = IF getReceiveBufferSpace(s) - s.rcv_wnd >= Min({RcvBufSize \div 2, s.mss})
              THEN [s EXCEPT !.rcv_wnd = getReceiveBufferSpace(s)] ELSE s
    BY <2>1, Zenon DEF Widened, Opens, Put
  <2>4. /\ \/ \E d \in Cwnd(v) : Finish(e, AttemptSend(v, "immediate", d, mtu[e]), net[e])
           \/ Finish(e, v, net[e])
        /\ got' = [got EXCEPT ![e] = got[e] \o SubSeq(t.rbuf, t.rpos + 1, t.rpos + k)]
    BY <1>1, <1>11, <2>2, <2>3, Zenon DEF Recv
  <2>5. got' = [got EXCEPT ![e] = h]
    BY <1>1, <2>1, <2>4, Zenon DEF ReadOn
  <2>6. Readable(t, k)
    <3>1. k \in Nat \ {0} /\ t.rpos + k <= t.rlen
      BY <1>7, <1>8, <1>9, <1>11
    <3>. QED
      BY <3>1, Zenon DEF Readable
  <2>7. Typed(v)
    <3>1. t.state \notin Gone
      BY <1>2 DEF Gone
    <3>2. Live(t, u, A, B) /\ Buffered(t, g) /\ g \in Seq(Nat)
      BY <1>3, <3>1, SoundLive DEF Sound
    <3>3. v = Widened(Took(t, k))
      BY <2>1
    <3>4. Live(v, u, A, B)
      BY <1>4, <2>1, <2>6, <3>2, <3>3, TookLive
    <3>. QED
      BY <3>4 DEF Live
  <2>8. PICK m : m = mtu[e] /\ m \in Nat \ {0}
    BY <1>5
  <2>9. \E d \in Nat \ {0} : \E q :
            (q = v \/ q = AttemptSend(v, "immediate", d, m)) /\ Finish(e, q, net[e])
    <3>1. CASE Finish(e, v, net[e])
      <4>1. 1 \in Nat \ {0}
        OBVIOUS
      <4>. QED
        BY <3>1, <4>1, Zenon
    <3>2. CASE \E d \in Cwnd(v) : Finish(e, AttemptSend(v, "immediate", d, mtu[e]), net[e])
      <4>1. PICK d \in Cwnd(v) : Finish(e, AttemptSend(v, "immediate", d, mtu[e]), net[e])
        BY <3>2
      <4>2. d \in Nat \ {0}
        BY <2>7, <4>1, CwndNat
      <4>. QED
        BY <2>8, <4>1, <4>2, Zenon
    <3>. QED
      BY <2>4, <3>1, <3>2
  <2>10. PICK d, q : /\ d \in Nat \ {0}
                     /\ (q = v \/ q = AttemptSend(v, "immediate", d, m)) /\ Finish(e, q, net[e])
    BY <2>9
  <2>11. StepDone(e, t, q, u, w, h, A, B, c)
    <3>1. v = Widened(Took(t, k)) /\ h = ReadOn(g, t, k)
      BY <2>1
    <3>. QED
      BY <1>2, <1>3, <2>6, <2>8, <2>10, <3>1, RecvSound
  <2>12. StepDone(e, tcb[e], q, tcb[Peer(e)], wrote[e], h,
                  Packets(net[e]), Packets(net[Peer(e)]), can[e])
    BY <1>1, <2>11, Zenon
  <2>13. Leaves(e, q, net[e], can[e])
    BY <2>10, FinishLeaves
  <2>14. /\ wrote' = [wrote EXCEPT ![e] = wrote[e]] /\ mtu' \in [End -> Nat \ {0}]
         /\ todo' \in [End -> Nat]
         /\ net[e] \in Seq(Pkt) /\ can[e] \subseteq {"read", "write", "close"}
    BY <1>2, InvTypes
  <2>15. Packets(net[e]) \subseteq Packets(net[e])
    OBVIOUS
  <2>. QED
    BY <2>5, <2>12, <2>13, <2>14, <2>15, LeavesInv
<1>. QED
  BY <1>10, <1>11

(* A part of the packets.                                                   *)
LEMMA PartPackets ==
  ASSUME NEW s \in Seq(Pkt), NEW a \in Nat \ {0}, NEW b \in Nat, b <= Len(s)
  PROVE  SubSeq(s, a, b) \in Seq(Pkt) /\ Packets(SubSeq(s, a, b)) \subseteq Packets(s)
<1>1. PICK r : r = SubSeq(s, a, b)
  OBVIOUS
<1>2. /\ r \in Seq(Pkt)
      /\ Len(r) = IF a <= b THEN b - a + 1 ELSE 0
      /\ \A i \in 1..b - a + 1 : r[i] = s[a + i - 1]
  BY <1>1
<1>3. ASSUME NEW i \in 1..Len(r) PROVE r[i] \in Packets(s)
  <2>1. a <= b /\ i \in 1..b - a + 1
    BY <1>2
  <2>2. a + i - 1 \in 1..Len(s)
    BY <2>1, LenProperties
  <2>3. r[i] = s[a + i - 1]
    BY <1>2, <2>1
  <2>. QED
    BY <2>2, <2>3 DEF Packets
<1>4. Packets(r) \subseteq Packets(s)
  BY <1>3, Zenon DEF Packets
<1>. QED
  BY <1>1, <1>2, <1>4

(* The packets without one.                                                 *)
LEMMA WithoutPackets ==
  ASSUME NEW s \in Seq(Pkt), NEW i \in 1..Len(s)
  PROVE  Without(s, i) \in Seq(Pkt) /\ Packets(Without(s, i)) \subseteq Packets(s)
<1>1. Len(s) \in Nat /\ i - 1 \in Nat /\ i + 1 \in Nat \ {0} /\ i - 1 <= Len(s) /\ Len(s) <= Len(s)
  BY LenProperties
<1>2. PICK a, b : a = SubSeq(s, 1, i - 1) /\ b = SubSeq(s, i + 1, Len(s))
  OBVIOUS
<1>3. a \in Seq(Pkt) /\ Packets(a) \subseteq Packets(s)
  <2>1. 1 \in Nat \ {0}
    OBVIOUS
  <2>. QED
    BY <1>1, <1>2, <2>1, PartPackets
<1>4. b \in Seq(Pkt) /\ Packets(b) \subseteq Packets(s)
  BY <1>1, <1>2, PartPackets
<1>5. a \o b \in Seq(Pkt) /\ Packets(a \o b) = Packets(a) \cup Packets(b)
  BY <1>3, <1>4, PacketsConcat
<1>6. Without(s, i) = a \o b
  BY <1>2, Zenon DEF Without
<1>. QED
  BY <1>3, <1>4, <1>5, <1>6

(* The faults of the network keep the invariant.                            *)
LEMMA FaultInv ==
  ASSUME IInv, NEW e \in End, NEW i, Fault(e, i)
  PROVE  IInv'
<1>1. PICK n, x : n = net[e] /\ x = n[i]
  OBVIOUS
<1>2. net \in [End -> Seq(Pkt)] /\ n \in Seq(Pkt) /\ i \in 1..Len(n)
  BY <1>1 DEF IInv, TypeOK, Fault
<1>3. x \in Packets(n) /\ x \in Pkt
  BY <1>1, <1>2 DEF Packets
<1>4. Without(n, i) \in Seq(Pkt) /\ Packets(Without(n, i)) \subseteq Packets(n)
  BY <1>2, WithoutPackets
<1>5. Append(n, x) \in Seq(Pkt) /\ Packets(Append(n, x)) = Packets(n) \cup {x}
  BY <1>2, <1>3, PacketsAppend
<1>6. /\ Append(Without(n, i), x) \in Seq(Pkt)
      /\ Packets(Append(Without(n, i), x)) = Packets(Without(n, i)) \cup {x}
  BY <1>3, <1>4, PacketsAppend
<1>7. PICK r : /\ r \in {Without(n, i), Append(n, x), Append(Without(n, i), x)}
               /\ net' = [net EXCEPT ![e] = r]
  <2>1. \/ net' = [net EXCEPT ![e] = Without(n, i)]
        \/ net' = [net EXCEPT ![e] = Append(n, x)]
        \/ net' = [net EXCEPT ![e] = Append(Without(n, i), x)]
    BY <1>1, Zenon DEF Fault
  <2>. QED
    BY <2>1, Zenon
<1>8. r \in Seq(Pkt) /\ Packets(r) \subseteq Packets(n)
  <2>1. CASE r = Without(n, i)
    BY <1>4, <2>1, Zenon
  <2>2. CASE r = Append(n, x)
    BY <1>3, <1>5, <2>2
  <2>3. CASE r = Append(Without(n, i), x)
    <3>1. Packets(Append(Without(n, i), x)) \subseteq Packets(n)
      BY <1>3, <1>4, <1>6
    <3>. QED
      BY <1>6, <2>3, <3>1, Zenon
  <2>. QED
    BY <1>7, <2>1, <2>2, <2>3
<1>9. net' \in [End -> Seq(Pkt)] /\ net'[e] = r /\ \A y \in End : y # e => net'[y] = net[y]
  BY <1>2, <1>7, <1>8
<1>10. \A y \in End : Packets(net'[y]) \subseteq Packets(net[y])
  <2>. SUFFICES ASSUME NEW y \in End PROVE Packets(net'[y]) \subseteq Packets(net[y])
    OBVIOUS
  <2>1. CASE y = e
    BY <1>1, <1>8, <1>9, <2>1, Zenon
  <2>2. CASE y # e
    <3>1. net'[y] = net[y]
      BY <1>9, <2>2
    <3>. QED
      BY <3>1, Zenon
  <2>. QED
    BY <2>1, <2>2
<1>11. UNCHANGED <<tcb, mtu, todo, wrote, got, can>>
  BY Zenon DEF Fault
<1>. QED
  BY <1>9, <1>10, <1>11, NetInv

(* The object that the constructor leaves.                                  *)
LEMMA FreshTyped ==
  ASSUME NEW m \in Nat \ {0}, NEW t, t = Fresh(m)
  PROVE  Typed(t) /\ t.out = <<>> /\ t.told = {}
<1>1. PICK b, z, j : b = [i \in 1..RcvBufSize |-> Junk] /\ z = <<>> /\ j = {}
  OBVIOUS
<1>2. t = [state |-> "LISTEN", shutdown |-> "NONE",
           snd_una |-> 0, snd_nxt |-> 0, snd_wnd |-> 1, sbuf |-> z, slist |-> z,
           mss |-> 1, mtu_advise |-> m, rto_base |-> FALSE, dup_acks |-> 0, recover |-> 0,
           rcv_nxt |-> 0, rcv_wnd |-> RcvBufSize, rlen |-> 0, rpos |-> 0,
           rbuf |-> b, rlist |-> j, t_ack |-> FALSE,
           bReadEnable |-> TRUE, bWriteEnable |-> FALSE,
           out |-> z, told |-> j]
  BY <1>1, Zenon DEF Fresh
<1>3. Unaltered(t)
  BY <1>2, Zenon DEF Unaltered, Field
<1>4. b \in [1..RcvBufSize -> Nat]
  BY <1>1 DEF Junk
<1>5. z \in Seq(Nat) /\ z \in Seq(Segment) /\ z \in Seq(Pkt)
  BY <1>1
<1>6. j \subseteq Nat \X (Nat \ {0}) /\ IsFiniteSet(j) /\ j \subseteq {"read", "write", "close"}
  BY <1>1, FS_EmptySet
<1>7. 0 \in Nat /\ 1 \in Nat /\ 1 \in Nat \ {0} /\ RcvBufSize \in Nat
  BY PseudoTcpAssumption
<1>8. t.out = z /\ t.told = j
  BY <1>2
<1>9. Typed(t)
  BY <1>2, <1>3, <1>4, <1>5, <1>6, <1>7 DEF Typed, Gone
<1>. QED
  BY <1>1, <1>8, <1>9

(* Two of them are in order.                                                *)
LEMMA FreshWhole ==
  ASSUME NEW e, NEW m \in Nat \ {0}, NEW t, t = Fresh(m), NEW A, A = {}, NEW g, g = <<>>
  PROVE  Whole(e, t, t, 0, g, A, A, A)
<1>1. Typed(t)
  BY FreshTyped
<1>2. /\ t.state = "LISTEN" /\ t.shutdown = "NONE" /\ t.snd_una = 0 /\ t.snd_nxt = 0 /\ t.snd_wnd = 1
      /\ t.sbuf = <<>> /\ t.slist = <<>> /\ t.rto_base = FALSE /\ t.recover = 0
      /\ t.rcv_nxt = 0 /\ t.rcv_wnd = RcvBufSize /\ t.rlen = 0 /\ t.rpos = 0 /\ t.rlist = {}
      /\ t.bReadEnable = TRUE
  BY DEF Fresh
<1>3. RcvBufSize \in Nat /\ RcvBufSize > 0 /\ SndBufSize \in Nat
  BY PseudoTcpAssumption
<1>4. Edge(t) = RcvBufSize
  BY <1>2, <1>3 DEF Edge
<1>5. \A x : Uncut(t.slist, x)
  BY <1>2 DEF Uncut
<1>6. Tiled(t)
  <2>1. Len(t.sbuf) = 0 /\ Len(t.slist) = 0
    BY <1>2
  <2>2. Tiles(t.slist, t.snd_una, t.snd_una + Len(t.sbuf))
    BY <1>2, <2>1 DEF Tiles
  <2>3. SentTo(t.slist, t.snd_nxt)
    BY <1>5, <2>1 DEF SentTo
  <2>. QED
    BY <1>2, <1>3, <2>1, <2>2, <2>3 DEF Tiled
<1>7. Queued(t, 0)
  <2>1. t.snd_una + Len(t.sbuf) = 0
    BY <1>2
  <2>. QED
    BY <1>2, <1>6, <2>1 DEF Queued
<1>8. Flow(t, t)
  BY <1>2, <1>3, <1>4, <1>5 DEF Flow
<1>9. Buffered(t, g)
  BY <1>2, <1>3 DEF Buffered, getReceiveBufferSpace
<1>10. Opened(e, t, t, 0)
  BY <1>2 DEF Opened
<1>11. Informed(t, A)
  BY <1>2 DEF Informed
<1>. QED
  BY <1>7, <1>8, <1>9, <1>10, <1>11 DEF Whole

-----------------------------------------------------------------------------
(* The invariant holds at first.                                            *)
LEMMA InitInv == Init => IInv
<1>. SUFFICES ASSUME Init PROVE IInv
  OBVIOUS
<1>1. PICK m \in 1..MaxMss : tcb = [e \in End |-> Fresh(m)]
  BY Zenon DEF Init
<1>2. m \in Nat \ {0} /\ MaxMss \in Nat \ {0}
  BY PseudoTcpAssumption
<1>3. PICK t, z, A : t = Fresh(m) /\ z = <<>> /\ A = {}
  OBVIOUS
<1>4. /\ tcb = [e \in End |-> t] /\ net = [e \in End |-> z] /\ mtu = [e \in End |-> MaxMss]
      /\ todo \in Loads /\ wrote = [e \in End |-> 0] /\ got = [e \in End |-> z]
      /\ can = [e \in End |-> A]
  BY <1>1, <1>3, Zenon DEF Init
<1>5. Typed(t) /\ t.out = z /\ t.told = {}
  BY <1>2, <1>3, FreshTyped
<1>6. z \in Seq(Pkt) /\ z \in Seq(Nat) /\ Packets(z) = A /\ A \subseteq {"read", "write", "close"}
  BY <1>3 DEF Packets
<1>7. todo \in [End -> Nat]
  BY <1>4, PseudoTcpAssumption DEF End
<1>8. TypeOK
  <2>1. tcb = [e \in End |-> tcb[e]]
    BY <1>4
  <2>2. \A e \in End : Typed(tcb[e]) /\ tcb[e].out = <<>> /\ tcb[e].told = {}
    BY <1>3, <1>4, <1>5
  <2>3. /\ net \in [End -> Seq(Pkt)] /\ got \in [End -> Seq(Nat)]
        /\ can \in [End -> SUBSET {"read", "write", "close"}]
    BY <1>4, <1>6
  <2>4. mtu \in [End -> Nat \ {0}] /\ wrote \in [End -> Nat]
    BY <1>2, <1>4
  <2>. QED
    BY <1>7, <2>1, <2>2, <2>3, <2>4, Zenon DEF TypeOK
<1>9. \A e \in End : WholeAt(e)
  <2>. SUFFICES ASSUME NEW e \in End PROVE WholeAt(e)
    OBVIOUS
  <2>1. Whole(e, t, t, 0, z, A, A, A)
    BY <1>2, <1>3, FreshWhole
  <2>2. Peer(e) \in End
    BY Ends
  <2>3. /\ tcb[e] = t /\ tcb[Peer(e)] = t /\ wrote[e] = 0 /\ got[e] = z /\ can[e] = A
        /\ net[e] = z /\ net[Peer(e)] = z
    BY <1>4, <2>2
  <2>. QED
    BY <1>6, <2>1, <2>3, Zenon DEF WholeAt
<1>. QED
  BY <1>8, <1>9, InvEnds

(* Every step keeps it.                                                     *)
LEMMA NextInv == IInv /\ [Next]_vars => IInv'
<1>. SUFFICES ASSUME IInv, [Next]_vars PROVE IInv'
  OBVIOUS
<1>1. CASE Connect
  BY <1>1, ConnectInv
<1>2. ASSUME NEW e \in End, NotifyPacket(e) PROVE IInv'
  BY <1>2, PacketInv
<1>3. ASSUME NEW e \in End, NEW r \in BOOLEAN, NEW p \in BOOLEAN, NEW a \in BOOLEAN,
             NEW silent \in BOOLEAN, NotifyClock(e, r, p, a, silent)
      PROVE  IInv'
  BY <1>3, ClockInv, Zenon
<1>4. ASSUME NEW e \in End, NEW real \in 1..MaxMss, NEW estimate \in 1..MaxMss,
             NotifyMTU(e, real, estimate)
      PROVE  IInv'
  BY <1>4, MtuInv
<1>5. ASSUME NEW e \in End, NEW n \in {1, todo[e]}, Send(e, n) PROVE IInv'
  BY <1>5, SendInv
<1>6. ASSUME NEW e \in End, NEW n \in {1, RcvBufSize}, Recv(e, n) PROVE IInv'
  BY <1>6, RecvInv
<1>7. ASSUME NEW e \in End, NEW force \in BOOLEAN, Close(e, force) PROVE IInv'
  BY <1>7, CloseInv, Zenon
<1>8. ASSUME NEW e \in End, NEW i \in 1..Len(net[e]), Fault(e, i) PROVE IInv'
  BY <1>8, FaultInv
<1>9. CASE UNCHANGED vars
  BY <1>9 DEF vars, IInv, TypeOK
<1>. QED
  BY <1>1, <1>2, <1>3, <1>4, <1>5, <1>6, <1>7, <1>8, <1>9 DEF Next

(* The inductive invariant holds in every state: the two ends of a          *)
(* connection, their buffers, the packets between them and what the owners  *)
(* were told stay in step whatever the network, the timers and the owners   *)
(* do.                                                                      *)
THEOREM Invariant == Spec => []IInv
  BY InitInv, NextInv, PTL DEF Spec

(* Every member of an object and every packet is of its type.               *)
THEOREM TypesKept == Spec => []TypeOK
<1>1. IInv => TypeOK
  BY DEF IInv
<1>. QED
  BY <1>1, Invariant, PTL

(* What is read is what was written.                                        *)
LEMMA InvRead == IInv => ReadIsPrefix
<1>. SUFFICES ASSUME IInv, NEW e \in End
              PROVE  Len(got[e]) <= wrote[Peer(e)] /\ \A i \in 1..Len(got[e]) : got[e][i] = i
  BY DEF ReadIsPrefix
<1>1. PICK f, t, u, w, g : f = Peer(e) /\ t = tcb[e] /\ u = tcb[f] /\ w = wrote[f] /\ g = got[e]
  OBVIOUS
<1>2. f \in End /\ Peer(f) = e
  BY <1>1, Ends
<1>3. Buffered(t, g) /\ Flow(u, t) /\ Queued(u, w)
  BY <1>1, <1>2, Zenon DEF IInv
<1>4. /\ Typed(t) /\ Typed(u) /\ w \in Nat /\ g \in Seq(Nat)
  BY <1>1, <1>2, InvTypes
<1>5. t.rcv_nxt \in Nat /\ t.rlen \in Nat /\ t.rpos \in Nat /\ u.snd_nxt \in Nat
  BY <1>4 DEF Typed
<1>6. PICK l : l = Len(g) /\ l \in Nat
  BY <1>4, LenProperties
<1>7. /\ t.rpos <= t.rlen
      /\ l + t.rlen - t.rpos <= IF t.rcv_nxt = 0 THEN 0 ELSE t.rcv_nxt - 1
      /\ \A i \in 1..l : g[i] = i
  BY <1>3, <1>6, Zenon DEF Buffered
<1>8. t.rcv_nxt <= u.snd_nxt /\ u.snd_nxt <= w + 1
  BY <1>3, Zenon DEF Flow, Queued
<1>9. l <= w
  BY <1>4, <1>5, <1>6, <1>7, <1>8
<1>. QED
  BY <1>1, <1>6, <1>7, <1>9, Zenon

(* ReadIsPrefix, for every buffer size, segment size, load and number of    *)
(* faults: the reader gets the bytes in order, none twice, none missing.    *)
THEOREM ReadsPrefix == Spec => []ReadIsPrefix
  BY InvRead, Invariant, PTL

(* The segments cover the send buffer.                                      *)
LEMMA InvTiles == IInv => SegmentsTileBuffer
<1>. SUFFICES ASSUME IInv, NEW e \in End, tcb[e].state \notin Gone
              PROVE  LET t == tcb[e] IN
                     /\ \A i \in 1..Len(t.slist) :
                          t.slist[i].seq = IF i = 1 THEN t.snd_una
                                           ELSE t.slist[i - 1].seq + t.slist[i - 1].len
                     /\ t.snd_una + Len(t.sbuf) =
                          IF t.slist = <<>> THEN t.snd_una
                          ELSE t.slist[Len(t.slist)].seq + t.slist[Len(t.slist)].len
                     /\ \A i \in 1..Len(t.slist) : t.slist[i].xmit > 0 <=> t.slist[i].seq < t.snd_nxt
  BY Zenon DEF SegmentsTileBuffer
<1>1. Queued(tcb[e], wrote[e])
  BY Zenon DEF IInv
<1>2. Tiled(tcb[e])
  BY <1>1, Zenon DEF Queued
<1>. QED
  BY <1>2, Zenon DEF Tiled, Tiles, SentTo, EndOf

(* SegmentsTileBuffer, for every instance: transmit never takes its data    *)
(* from outside of the buffer.                                              *)
THEOREM SegmentsTile == Spec => []SegmentsTileBuffer
  BY InvTiles, Invariant, PTL

(* WindowHonoured, for every instance: an end never sends more than its     *)
(* peer has room for.                                                       *)
THEOREM HonoursWindow == Spec => []WindowHonoured
<1>1. IInv => WindowHonoured
  BY Zenon DEF IInv, Flow, Edge, WindowHonoured
<1>. QED
  BY <1>1, Invariant, PTL

(* What a connection that was closed and deleted itself had to deliver.     *)
LEMMA InvFlushed == IInv => ClosedFlushed
<1>. SUFFICES ASSUME IInv, NEW e \in End, tcb[e].state = "DESTROYED", tcb[Peer(e)].shutdown = "NONE"
              PROVE  Len(got[Peer(e)]) + tcb[Peer(e)].rlen - tcb[Peer(e)].rpos = wrote[e]
  BY Zenon DEF ClosedFlushed
<1>1. PICK f, t, u, w, g : f = Peer(e) /\ t = tcb[e] /\ u = tcb[f] /\ w = wrote[e] /\ g = got[f]
  OBVIOUS
<1>2. f \in End /\ Peer(f) = e /\ t.state = "DESTROYED" /\ u.shutdown = "NONE"
  BY <1>1, Ends
<1>3. Buffered(u, g) /\ Flow(t, u) /\ Queued(t, w)
  BY <1>1, <1>2, Zenon DEF IInv
<1>4. Typed(u) /\ Typed(t) /\ w \in Nat
  BY <1>1, <1>2, InvTypes
<1>5. u.rcv_nxt \in Nat /\ t.snd_nxt \in Nat
  BY <1>4 DEF Typed
<1>6. t.snd_una = w + 1 /\ t.snd_nxt <= w + 1
  BY <1>2, <1>3, Zenon DEF Queued
<1>7. t.snd_una <= u.rcv_nxt /\ u.rcv_nxt <= t.snd_nxt
  BY <1>3, Zenon DEF Flow
<1>8. Len(g) + u.rlen - u.rpos = IF u.rcv_nxt = 0 THEN 0 ELSE u.rcv_nxt - 1
  BY <1>2, <1>3, Zenon DEF Buffered
<1>9. (IF u.rcv_nxt = 0 THEN 0 ELSE u.rcv_nxt - 1) = w
  BY <1>4, <1>5, <1>6, <1>7
<1>. QED
  BY <1>1, <1>8, <1>9, Zenon

(* ClosedFlushed, for every instance: a graceful close loses nothing.       *)
THEOREM ClosesFlushed == Spec => []ClosedFlushed
  BY InvFlushed, Invariant, PTL

(* When nothing is on its way and no timer is set, e has nothing left to    *)
(* deliver and its owner may write.                                         *)
LEMMA IdleDone ==
  ASSUME IInv, NEW e \in End,
         \A x \in End : Idle(x) /\ tcb[x].state = "ESTABLISHED" /\ tcb[x].shutdown = "NONE"
  PROVE  Len(got[Peer(e)]) = wrote[e] /\ "write" \in can[e]
<1>1. PICK f, t, u, w, g, c, d : /\ f = Peer(e) /\ t = tcb[e] /\ u = tcb[f] /\ w = wrote[e]
                                 /\ g = got[f] /\ c = can[e] /\ d = can[f]
  OBVIOUS
<1>2. f \in End /\ Peer(f) = e
  BY <1>1, Ends
<1>3. /\ t.state = "ESTABLISHED" /\ t.shutdown = "NONE" /\ ~t.rto_base /\ t.snd_wnd # 0
      /\ u.shutdown = "NONE" /\ "read" \notin d
  BY <1>1, <1>2, Zenon DEF Idle
<1>4. Buffered(u, g) /\ Flow(t, u) /\ Queued(t, w) /\ Informed(t, c) /\ Informed(u, d)
  BY <1>1, <1>2, Zenon DEF IInv
<1>5. Typed(u) /\ Typed(t) /\ w \in Nat /\ g \in Seq(Nat)
  BY <1>1, <1>2, InvTypes
<1>6. /\ u.rcv_nxt \in Nat /\ u.rlen \in Nat /\ t.snd_nxt \in Nat /\ t.snd_una \in Nat
  BY <1>5 DEF Typed
<1>7. t.state \notin Gone /\ t.state # "LISTEN"
  BY <1>3 DEF Gone
<1>8. Tiled(t) /\ t.snd_una + Len(t.sbuf) = w + 1
  BY <1>4, <1>7, Zenon DEF Queued
<1>9. t.snd_una = t.snd_nxt
  <2>1. t.snd_una <= t.snd_nxt /\ ~(t.snd_una < t.snd_nxt)
    BY <1>3, <1>8, Zenon DEF Tiled
  <2>. QED
    BY <1>6, <2>1
<1>10. t.sbuf = <<>>
  BY <1>3, <1>4, <1>9, Zenon DEF Informed
<1>11. Len(t.sbuf) = 0
  BY <1>10
<1>12. t.snd_una = w + 1
  BY <1>6, <1>8, <1>11
<1>13. t.snd_una <= u.rcv_nxt /\ u.rcv_nxt <= t.snd_nxt
  BY <1>4, Zenon DEF Flow
<1>14. u.rcv_nxt = w + 1 /\ u.rcv_nxt # 0
  BY <1>5, <1>6, <1>9, <1>12, <1>13
<1>15. u.rlen = u.rpos
  BY <1>3, <1>4, Zenon DEF Informed
<1>16. PICK l : l = Len(g) /\ l \in Nat
  BY <1>5, LenProperties
<1>17. l + u.rlen - u.rpos = u.rcv_nxt - 1
  BY <1>3, <1>4, <1>14, <1>16, Zenon DEF Buffered
<1>18. l = w
  BY <1>5, <1>6, <1>14, <1>15, <1>16, <1>17
<1>19. "write" \in c
  <2>1. "write" \notin c => Len(t.sbuf) >= kIdealRefillSize
    BY <1>3, <1>4, Zenon DEF Informed
  <2>2. ~(Len(t.sbuf) >= kIdealRefillSize)
    BY <1>11, RefillSize
  <2>. QED
    BY <2>1, <2>2, Zenon
<1>. QED
  BY <1>1, <1>16, <1>18, <1>19, Zenon

(* NothingStuck, for every instance: no window stays closed, no segment     *)
(* waits for a timer that is not set and no reader or writer sleeps for     *)
(* ever.                                                                    *)
THEOREM NeverStuck == Spec => []NothingStuck
<1>1. IInv => NothingStuck
  <2>. SUFFICES ASSUME IInv,
                       \A x \in End : Idle(x) /\ tcb[x].state = "ESTABLISHED" /\ tcb[x].shutdown = "NONE",
                       NEW e \in End
                PROVE  Len(got[Peer(e)]) = wrote[e] /\ "write" \in can[e]
    BY Zenon DEF NothingStuck
  <2>. QED
    BY IdleDone
<1>. QED
  BY <1>1, Invariant, PTL
=============================================================================
