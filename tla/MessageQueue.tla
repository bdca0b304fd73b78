---------------------------- MODULE MessageQueue ----------------------------
(* Message queues as sequences, as talk/base/messagequeue.cc keeps them.    *)
EXTENDS Naturals, Sequences, FiniteSets

Queued(q, x) == \E i \in 1..Len(q) : q[i] = x

(* MessageQueue::Clear: the messages in gone are taken out of q; the others *)
(* keep their order.                                                        *)
Cleared(q, gone) ==
  LET left == {i \in DOMAIN q : q[i] \notin gone}
      Nth(n) == CHOOSE i \in left : Cardinality({l \in left : l <= i}) = n
  IN  [n \in 1..Cardinality(left) |-> q[Nth(n)]]
=============================================================================
