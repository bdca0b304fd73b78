--------------------------- MODULE SessionProofs ---------------------------
(***************************************************************************)
(* Proofs about Session.tla, for every set of candidates, both kinds of    *)
(* client and every bound.                                                 *)
(*                                                                         *)
(*   TypeCorrect        Spec => []TypeOK                                   *)
(*   CallInvariant      Spec => []CallInv, hence AgreementHolds            *)
(*   SessionImplementsCall   Spec => CallSpec                              *)
(*   QueueInvariant     the queues, the timer and the candidates, hence    *)
(*                      TransientPosted, ErrorsHandled, WatchdogHolds,     *)
(*                      TerminationFinal, CandidatesHeldBack and           *)
(*                      CandidatesKept                                     *)
(***************************************************************************)
EXTENDS Session, TLAPS

(* The initial states are well typed.                                       *)
LEMMA TypeInit == Init => TypeOK
BY SessionAssumption DEF Init, TypeOK, Endpoint, Peer, Name, SessionState, Error

(* A stanza an endpoint sends is an iq of type set.                         *)
LEMMA IqType ==
  ASSUME NEW e \in Endpoint, NEW to \in Name, NEW act \in Action, NEW cs \in SUBSET Cand
  PROVE  Iq(e, to, act, cs) \in IqSet
BY DEF Iq, IqSet

(* Every request is a stanza.                                               *)
LEMMA IqIsStanza == IqSet \subseteq Stanza
BY DEF IqSet, Stanza, Kind, Name

(* The answer to a stanza is a stanza.                                      *)
LEMMA ReplyType ==
  ASSUME NEW m \in Stanza, NEW kind \in Kind PROVE Reply(m, kind) \in Stanza
BY DEF Reply, Stanza

(* Queues of messages stay so when one is added or taken.                   *)
LEMMA SeqType ==
  ASSUME NEW q \in Seq(Message), NEW x \in Message
  PROVE  /\ q \o <<x>> \in Seq(Message)
         /\ q \o <<>> \in Seq(Message)
         /\ q # <<>> => Tail(q) \in Seq(Message)
OBVIOUS

(* Posting messages keeps the queues well typed.                            *)
LEMMA PostType ==
  ASSUME posted \in [Endpoint -> Seq(Message)], NEW e \in Endpoint,
         NEW msgs \in Seq(Message), Post(e, msgs)
  PROVE  posted' \in [Endpoint -> Seq(Message)]
BY DEF Post

(* ConnectChannels keeps its variables well typed.                          *)
LEMMA ConnectType ==
  ASSUME TypeOK, NEW e \in Endpoint, NEW has \in BOOLEAN,
         NEW msgs \in Seq(Message), ConnectChannels(e, has, msgs)
  PROVE  posted' \in [Endpoint -> Seq(Message)] /\ connreq' \subseteq Endpoint
<1>1. msgs \o <<"CONNECTING">> \in Seq(Message)
  BY DEF Message
<1>2. posted' \in [Endpoint -> Seq(Message)]
  BY <1>1, PostType DEF ConnectChannels, TypeOK
<1>. QED
  BY <1>2 DEF ConnectChannels, TypeOK

(* CompleteNegotiation keeps its variables well typed.                      *)
LEMMA NegotiationType ==
  ASSUME TypeOK, NEW e \in Endpoint, NEW has \in BOOLEAN,
         NEW msgs \in Seq(Message), CompleteNegotiation(e, has, msgs)
  PROVE  /\ posted' \in [Endpoint -> Seq(Message)]
         /\ connreq' \subseteq Endpoint
         /\ tproxy' \in [Endpoint -> {"NONE", "INIT", "CONNECTING", "NEGOTIATED"}]
<1>1. posted' \in [Endpoint -> Seq(Message)] /\ connreq' \subseteq Endpoint
  BY ConnectType, PostType DEF CompleteNegotiation, TypeOK
<1>. QED
  BY <1>1 DEF CompleteNegotiation, TypeOK

(* What OnInitiateAcked flushes are requests.                               *)
LEMMA FlushType == TypeOK => FlushedIqs \subseteq IqSet
BY IqType DEF FlushedIqs, TypeOK, Endpoint, Name, Action

(* TerminateWithReason keeps its variables well typed.                      *)
LEMMA TerminateType ==
  ASSUME TypeOK, NEW e \in Endpoint, NEW msgs \in Seq(Message),
         TerminateWithReason(e, msgs)
  PROVE  /\ state' \in [Endpoint -> SessionState]
         /\ posted' \in [Endpoint -> Seq(Message)]
         /\ net' \subseteq Stanza /\ tasks' \subseteq IqSet
<1>1. msgs \o <<"STATE">> \in Seq(Message)
  BY DEF Message
<1>2. TerminateIq(e) \subseteq IqSet
  BY IqType DEF TerminateIq, TypeOK, Endpoint, Name, Action
<1>. QED
  BY <1>1, <1>2, IqIsStanza DEF TerminateWithReason, TypeOK, SessionState, Send, Waiting

(* OnFailedSend keeps its variables well typed.                             *)
LEMMA FailedSendType ==
  ASSUME TypeOK, NEW e \in Endpoint, NEW t, NEW kind,
         NEW n \in SUBSET Stanza, OnFailedSend(e, t, kind, n)
  PROVE  /\ net' \subseteq Stanza /\ tasks' \subseteq IqSet
         /\ remote_name' \in [Endpoint -> Name]
         /\ sent' \in [Endpoint -> SUBSET Cand]
         /\ error' \in [Endpoint -> Error]
         /\ posted' \in [Endpoint -> Seq(Message)]
<1>1. OnRedirect(e).iqs \subseteq IqSet
  BY IqType DEF OnRedirect, TypeOK, Endpoint, Name, Action
<1>2. net' \subseteq Stanza /\ tasks' \subseteq IqSet
  BY <1>1, IqIsStanza DEF OnFailedSend, TypeOK, Waiting
<1>3. remote_name' \in [Endpoint -> Name] /\ sent' \in [Endpoint -> SUBSET Cand]
  BY DEF OnFailedSend, TypeOK, Name, Endpoint
<1>4. error' \in [Endpoint -> Error]
  BY DEF OnFailedSend, TypeOK, SetError, Error
<1>5. posted' \in [Endpoint -> Seq(Message)]
  <2>1. <<"ERROR">> \in Seq(Message)
    BY DEF Message
  <2>2. SetError(e, "RESPONSE") \/ UNCHANGED posted
    BY DEF OnFailedSend
  <2>. QED
    BY <2>1, <2>2, PostType DEF SetError, TypeOK
<1>. QED
  BY <1>2, <1>3, <1>4, <1>5

(* Every step keeps the variables well typed.                               *)
LEMMA TypeNext == TypeOK /\ [Next]_vars => TypeOK'
<1>. SUFFICES ASSUME TypeOK, [Next]_vars PROVE TypeOK'
  OBVIOUS
<1>. USE SessionAssumption, IqType, IqIsStanza, ReplyType, SeqType
     DEF TypeOK, tvars, cvars, wire, bounds, Post, Send, Waiting
<1>1. ASSUME NEW to \in Name, Initiate(to) PROVE TypeOK'
  <2>1. <<"STATE">> \in Seq(Message) /\ Early \in BOOLEAN
    BY SessionAssumption DEF Message
  <2>2. posted' \in [Endpoint -> Seq(Message)] /\ connreq' \subseteq Endpoint
    BY <1>1, <2>1, ConnectType DEF Initiate, Endpoint
  <2>. QED
    BY <1>1, <2>2 DEF Initiate, Endpoint, Name, SessionState, Action
<1>2. CASE Accept
  BY <1>2 DEF Accept,
     Endpoint, Name, SessionState, Message, Kind, ErrorKind, Action, Error
<1>3. CASE Reject
  BY <1>3 DEF Reject,
     Endpoint, Name, SessionState, Message, Kind, ErrorKind, Action, Error
<1>4. ASSUME NEW e \in Endpoint, Terminate(e) PROVE TypeOK'
  BY <1>4 DEF Terminate, TerminateWithReason, TerminateIq,
     Endpoint, Name, SessionState, Message, Kind, ErrorKind, Action, Error
<1>5. ASSUME NEW e \in Endpoint, CloseUnconnected(e) PROVE TypeOK'
  BY <1>5 DEF CloseUnconnected, Destroy, TerminateIq,
     Endpoint, Name, SessionState, Message, Kind, ErrorKind, Action, Error
<1>6. ASSUME NEW e \in Endpoint, Shutdown(e) PROVE TypeOK'
  BY <1>6 DEF Shutdown, Destroy,
     Endpoint, Name, SessionState, Message, Kind, ErrorKind, Action, Error
<1>7. ASSUME NEW e \in Endpoint, SendInfoMessage(e) PROVE TypeOK'
  BY <1>7 DEF SendInfoMessage,
     Endpoint, Name, SessionState, Message, Kind, ErrorKind, Action, Error
<1>8. ASSUME NEW e \in Endpoint, OnState(e) PROVE TypeOK'
  <2>1. Tail(posted[e]) \in Seq(Message) /\ Tail(posted[e]) \o <<"STATE">> \in Seq(Message)
    BY <1>8 DEF OnState, Message
  <2>2. CASE OnStateAccepted(e)
    BY <2>1, <2>2 DEF OnStateAccepted, SessionState
  <2>3. CASE OnStateRejected(e)
    BY <2>1, <2>3, TerminateType DEF OnStateRejected
  <2>4. CASE OnStateTerminating(e)
    BY <2>4 DEF OnStateTerminating, Destroy, SessionState
  <2>5. CASE OnStateOther(e)
    BY <2>1, <2>5 DEF OnStateOther
  <2>. QED
    BY <1>8, <2>2, <2>3, <2>4, <2>5 DEF OnState
<1>9. ASSUME NEW e \in Endpoint, OnError(e) PROVE TypeOK'
  <2>1. Tail(posted[e]) \in Seq(Message)
    BY <1>9 DEF OnError
  <2>2. CASE state[e] \in Terminating
    BY <1>9, <2>1, <2>2 DEF OnError
  <2>3. CASE state[e] \notin Terminating
    BY <1>9, <2>1, <2>3, TerminateType DEF OnError
  <2>. QED
    BY <2>2, <2>3
<1>10. ASSUME NEW e \in Endpoint, OnConnecting(e) PROVE TypeOK'
  BY <1>10 DEF OnConnecting, OnTransportWritable,
     Endpoint, Name, SessionState, Message, Kind, ErrorKind, Action, Error
<1>11. ASSUME NEW e \in Endpoint, OnWriteState(e) PROVE TypeOK'
  BY <1>11 DEF OnWriteState, OnTransportWritable,
     Endpoint, Name, SessionState, Message, Kind, ErrorKind, Action, Error
<1>12. ASSUME NEW e \in Endpoint, OnTimeout(e) PROVE TypeOK'
  BY <1>12 DEF OnTimeout, SetError,
     Endpoint, Name, SessionState, Message, Kind, ErrorKind, Action, Error
<1>13. ASSUME NEW e \in Endpoint, NEW c \in Cand, CandidatesReady(e, c) PROVE TypeOK'
  BY <1>13 DEF CandidatesReady,
     Endpoint, Name, SessionState, Message, Kind, ErrorKind, Action, Error
<1>14. ASSUME NEW e \in Endpoint, ChannelWritable(e) PROVE TypeOK'
  BY <1>14 DEF ChannelWritable,
     Endpoint, Name, SessionState, Message, Kind, ErrorKind, Action, Error
<1>15. ASSUME NEW e \in Endpoint, ChannelUnwritable(e) PROVE TypeOK'
  BY <1>15 DEF ChannelUnwritable,
     Endpoint, Name, SessionState, Message, Kind, ErrorKind, Action, Error
<1>16. ASSUME NEW m \in net, NEW r \in {"none", "accept", "reject"}, OnInitiateMessage(m, r) PROVE TypeOK'
  <2>. DEFINE msgs == IF r = "none" THEN <<"STATE">> ELSE <<"STATE", "STATE">>
              chan == Early \/ r = "accept"
              mine == IF r = "none" THEN {} ELSE {Iq("callee", m.from, r, {})}
  <2>1. msgs \in Seq(Message) /\ "callee" \in Endpoint
    <3>1. <<"STATE">> \in Seq(Message) /\ <<"STATE", "STATE">> \in Seq(Message)
      BY DEF Message
    <3>. QED
      BY <3>1 DEF Endpoint
  <2>0. chan \in BOOLEAN
    BY Zenon
  <2>2. mine \subseteq IqSet /\ Reply(m, "result") \in Stanza
    <3>1. r # "none" => r \in Action
      BY DEF Action
    <3>2. m \in Stanza
      OBVIOUS
    <3>3. m.from \in Name
      BY <3>2 DEF Stanza
    <3>4. r # "none" => Iq("callee", m.from, r, {}) \in IqSet
      BY <2>1, <3>1, <3>2, <3>3, IqType
    <3>5. Reply(m, "result") \in Stanza
      BY <3>2, ReplyType DEF Kind
    <3>. QED
      BY <3>4, <3>5
  <2>3. net' \subseteq Stanza /\ tasks' \subseteq IqSet
    BY <1>16, <2>2 DEF OnInitiateMessage, Answer
  <2>4. /\ posted' \in [Endpoint -> Seq(Message)]
        /\ connreq' \subseteq Endpoint
        /\ tproxy' \in [Endpoint -> {"NONE", "INIT", "CONNECTING", "NEGOTIATED"}]
    <3>1. CASE r = "reject"
      BY <1>16, <2>1, <3>1, PostType DEF OnInitiateMessage
    <3>2. CASE r # "reject"
      BY <1>16, <2>0, <2>1, <3>2, NegotiationType DEF OnInitiateMessage
    <3>. QED
      BY <3>1, <3>2
  <2>. QED
    BY <1>16, <2>1, <2>3, <2>4 DEF OnInitiateMessage, SessionState, Stanza, Error
<1>17. ASSUME NEW m \in net, OnAcceptMessage(m) PROVE TypeOK'
  <2>1. <<"STATE">> \in Seq(Message) /\ "caller" \in Endpoint
    BY DEF Message, Endpoint
  <2>2. /\ posted' \in [Endpoint -> Seq(Message)]
        /\ connreq' \subseteq Endpoint
        /\ tproxy' \in [Endpoint -> {"NONE", "INIT", "CONNECTING", "NEGOTIATED"}]
    BY <1>17, <2>1, NegotiationType DEF OnAcceptMessage
  <2>3. Reply(m, "result") \in Stanza
    BY DEF Kind
  <2>4. net' \subseteq Stanza /\ tasks' \subseteq IqSet
    BY <1>17, <2>3, FlushType DEF OnAcceptMessage, Answer
  <2>. QED
    BY <1>17, <2>1, <2>2, <2>4 DEF OnAcceptMessage, OnInitiateAcked, SessionState
<1>18. ASSUME NEW m \in net, OnRejectMessage(m) PROVE TypeOK'
  BY <1>18 DEF OnRejectMessage, Answer,
     Endpoint, Name, SessionState, Message, Kind, ErrorKind, Action, Error
<1>19. ASSUME NEW e \in Endpoint, NEW m \in net, OnTerminateMessage(e, m) PROVE TypeOK'
  <2>1. posted' \in [Endpoint -> Seq(Message)]
    <3>1. <<"STATE">> \in Seq(Message) /\ <<>> \in Seq(Message)
      BY DEF Message
    <3>. QED
      BY <1>19, <3>1, PostType DEF OnTerminateMessage
  <2>. QED
    BY <1>19, <2>1 DEF OnTerminateMessage, Answer, SessionState, Kind
<1>20. ASSUME NEW e \in Endpoint, NEW m \in net, OnInfoMessage(e, m) PROVE TypeOK'
  BY <1>20 DEF OnInfoMessage, Answer,
     Endpoint, Name, SessionState, Message, Kind, ErrorKind, Action, Error
<1>21. ASSUME NEW e \in Endpoint, NEW m \in net, OnTransportInfoMessage(e, m) PROVE TypeOK'
  <2>1. /\ posted' \in [Endpoint -> Seq(Message)]
        /\ connreq' \subseteq Endpoint
        /\ tproxy' \in [Endpoint -> {"NONE", "INIT", "CONNECTING", "NEGOTIATED"}]
    <3>1. <<>> \in Seq(Message) /\ (e \in channel) \in BOOLEAN
      OBVIOUS
    <3>. QED
      BY <1>21, <3>1, NegotiationType DEF OnTransportInfoMessage
  <2>2. Reply(m, "result") \in Stanza /\ Reply(m, "modify") \in Stanza
    BY DEF Kind, ErrorKind
  <2>3. net' \subseteq Stanza /\ tasks' \subseteq IqSet
    BY <1>21, <2>2 DEF OnTransportInfoMessage, Answer
  <2>4. remote' \in [Endpoint -> SUBSET Cand]
    <3>1. m.cands \in SUBSET Cand
      BY DEF Stanza
    <3>2. remote[e] \cup m.cands \in SUBSET Cand
      BY <3>1
    <3>. QED
      BY <1>21, <3>2 DEF OnTransportInfoMessage
  <2>. QED
    BY <1>21, <2>1, <2>3, <2>4 DEF OnTransportInfoMessage
<1>22. ASSUME NEW e \in Endpoint, NEW m \in net, OnRefusedMessage(e, m) PROVE TypeOK'
  BY <1>22 DEF OnRefusedMessage, Answer,
     Endpoint, Name, SessionState, Message, Kind, ErrorKind, Action, Error
<1>23. ASSUME NEW m \in net, OnIncomingResponse(m) PROVE TypeOK'
  <2>1. net' \subseteq Stanza /\ tasks' \subseteq IqSet
    BY <1>23, FlushType DEF OnIncomingResponse
  <2>2. /\ initiate_acked' \subseteq Endpoint
        /\ unsent' \in [Endpoint -> SUBSET Cand]
    <3>1. OnInitiateAcked \/ UNCHANGED <<initiate_acked, unsent>>
      BY <1>23 DEF OnIncomingResponse
    <3>2. CASE OnInitiateAcked
      BY <3>2 DEF OnInitiateAcked, Endpoint
    <3>. QED
      BY <3>1, <3>2
  <2>3. UNCHANGED <<state, error, remote_name, posted, timer, tvars, gathered,
                    sent, remote, answer, bounds>>
    BY <1>23 DEF OnIncomingResponse
  <2>. QED
    BY <2>1, <2>2, <2>3
<1>24. ASSUME NEW m \in net, OnErrorResponse(m) PROVE TypeOK'
  <2>1. Request(m) \in tasks /\ m.to = Request(m).from
    BY <1>24 DEF OnErrorResponse, Request, Reply
  <2>2. m.to \in Endpoint
    BY <2>1 DEF IqSet
  <2>3. OnFailedSend(m.to, Request(m), m.kind, net \ {m}) /\ UNCHANGED bounds
    BY <1>24 DEF OnErrorResponse
  <2>4. /\ net' \subseteq Stanza /\ tasks' \subseteq IqSet
        /\ remote_name' \in [Endpoint -> Name]
        /\ sent' \in [Endpoint -> SUBSET Cand]
        /\ error' \in [Endpoint -> Error]
        /\ posted' \in [Endpoint -> Seq(Message)]
    BY <2>2, <2>3, FailedSendType
  <2>. QED
    BY <2>3, <2>4 DEF OnFailedSend
<1>25. ASSUME NEW m \in net, NEW kind \in ErrorKind, Redirect(m, kind) PROVE TypeOK'
  BY <1>25 DEF Redirect, Answer,
     Endpoint, Name, SessionState, Message, Kind, ErrorKind, Action, Error
<1>26. ASSUME NEW m \in net, Lose(m) PROVE TypeOK'
  BY <1>26 DEF Lose, Fault,
     Endpoint, Name, SessionState, Message, Kind, ErrorKind, Action, Error
<1>27. ASSUME NEW m \in net, NEW kind \in ErrorKind, Bounce(m, kind) PROVE TypeOK'
  BY <1>27 DEF Bounce, Fault,
     Endpoint, Name, SessionState, Message, Kind, ErrorKind, Action, Error
<1>28. ASSUME NEW t \in tasks, OnSendTimeout(t) PROVE TypeOK'
  <2>1. t \in Stanza /\ t.from \in Endpoint /\ net \ Answers(t) \in SUBSET Stanza
    BY DEF IqSet
  <2>2. OnFailedSend(t.from, t, "cancel", net \ Answers(t))
    BY <1>28 DEF OnSendTimeout
  <2>3. /\ net' \subseteq Stanza /\ tasks' \subseteq IqSet
        /\ remote_name' \in [Endpoint -> Name]
        /\ sent' \in [Endpoint -> SUBSET Cand]
        /\ error' \in [Endpoint -> Error]
        /\ posted' \in [Endpoint -> Seq(Message)]
    BY <2>1, <2>2, FailedSendType
  <2>4. faults' \in 0..MaxExtras
    BY <1>28, SessionAssumption DEF OnSendTimeout
  <2>. QED
    BY <1>28, <2>2, <2>3, <2>4 DEF OnSendTimeout, OnFailedSend
<1>29. CASE UNCHANGED vars
  BY <1>29 DEF vars
<1>. QED
  BY <1>1, <1>2, <1>3, <1>4, <1>5, <1>6, <1>7, <1>8, <1>9, <1>10, <1>11, <1>12, 
     <1>13, <1>14, <1>15, <1>16, <1>17, <1>18, <1>19, <1>20, <1>21, <1>22, <1>23, <1>24, 
     <1>25, <1>26, <1>27, <1>28, <1>29
  DEF Next, Client, SignalingThread, Receive, ReceiveSet, ErrorKind

(* Session's variables always have the values TypeOK gives them: no handler *)
(* of session.cc, in any order, leaves the states and sets of the code.     *)
THEOREM TypeCorrect == Spec => []TypeOK
BY TypeInit, TypeNext, PTL DEF Spec

-----------------------------------------------------------------------------
(* The fields of a request and of an answer.                                *)
LEMMA StanzaFields ==
  /\ \A e, to, act, cs : /\ Iq(e, to, act, cs).kind = "set"
                         /\ Iq(e, to, act, cs).act = act
                         /\ Iq(e, to, act, cs).from = e
                         /\ Iq(e, to, act, cs).to = to
  /\ \A m, kind : /\ Reply(m, kind).kind = kind
                   /\ Reply(m, kind).act = m.act
                   /\ Reply(m, kind).from = m.to
                   /\ Reply(m, kind).to = m.from
BY DEF Iq, Reply

(* Initially nothing is in flight and nobody has answered.                  *)
LEMMA CallInit == Init => CallInv
BY DEF Init, CallInv, OfferInv, AnswerInv, IdleInv, Agreement, Endpoint

(* Every step keeps the single offer, the answer, the idle sessions and the *)
(* agreement; the parts depend on each other, so they go together.          *)
LEMMA CallNext == TypeOK /\ CallInv /\ [Next]_vars => CallInv'
<1>. SUFFICES ASSUME TypeOK, CallInv, [Next]_vars PROVE CallInv'
  OBVIOUS
<1>. USE StanzaFields
     DEF CallInv, OfferInv, AnswerInv, IdleInv, Agreement, Offer, TypeOK,
         tvars, cvars, wire, bounds, Post, Send, Waiting, Endpoint, Live,
         FindSession, Terminating, Accepted, Rejected
<1>1. ASSUME NEW to \in Name, Initiate(to) PROVE CallInv'
  <2>1. OfferInv'
    BY <1>1 DEF Initiate, ConnectChannels
  <2>2. AnswerInv'
    BY <1>1 DEF Initiate, ConnectChannels
  <2>3. IdleInv'
    BY <1>1 DEF Initiate, ConnectChannels
  <2>4. Agreement'
    BY <1>1 DEF Initiate, ConnectChannels
  <2>. QED
    BY <2>1, <2>2, <2>3, <2>4
<1>2. CASE Accept
  <2>1. OfferInv'
    BY <1>2 DEF Accept
  <2>2. AnswerInv'
    BY <1>2 DEF Accept
  <2>3. IdleInv'
    BY <1>2 DEF Accept
  <2>4. Agreement'
    BY <1>2 DEF Accept
  <2>. QED
    BY <2>1, <2>2, <2>3, <2>4
<1>3. CASE Reject
  <2>1. OfferInv'
    BY <1>3 DEF Reject
  <2>2. AnswerInv'
    BY <1>3 DEF Reject
  <2>3. IdleInv'
    BY <1>3 DEF Reject
  <2>4. Agreement'
    BY <1>3 DEF Reject
  <2>. QED
    BY <2>1, <2>2, <2>3, <2>4
<1>4. ASSUME NEW e \in Endpoint, Terminate(e) PROVE CallInv'
  <2>1. OfferInv'
    BY <1>4 DEF Terminate, TerminateWithReason, TerminateIq
  <2>2. AnswerInv'
    BY <1>4 DEF Terminate, TerminateWithReason, TerminateIq
  <2>3. IdleInv'
    BY <1>4 DEF Terminate, TerminateWithReason, TerminateIq
  <2>4. Agreement'
    BY <1>4 DEF Terminate, TerminateWithReason, TerminateIq
  <2>. QED
    BY <2>1, <2>2, <2>3, <2>4
<1>5. ASSUME NEW e \in Endpoint, CloseUnconnected(e) PROVE CallInv'
  <2>1. OfferInv'
    BY <1>5 DEF CloseUnconnected, Destroy, TerminateIq
  <2>2. AnswerInv'
    BY <1>5 DEF CloseUnconnected, Destroy, TerminateIq
  <2>3. IdleInv'
    BY <1>5 DEF CloseUnconnected, Destroy, TerminateIq
  <2>4. Agreement'
    BY <1>5 DEF CloseUnconnected, Destroy, TerminateIq
  <2>. QED
    BY <2>1, <2>2, <2>3, <2>4
<1>6. ASSUME NEW e \in Endpoint, Shutdown(e) PROVE CallInv'
  <2>1. OfferInv'
    BY <1>6 DEF Shutdown, Destroy
  <2>2. AnswerInv'
    BY <1>6 DEF Shutdown, Destroy
  <2>3. IdleInv'
    BY <1>6 DEF Shutdown, Destroy
  <2>4. Agreement'
    BY <1>6 DEF Shutdown, Destroy
  <2>. QED
    BY <2>1, <2>2, <2>3, <2>4
<1>7. ASSUME NEW e \in Endpoint, SendInfoMessage(e) PROVE CallInv'
  <2>1. OfferInv'
    BY <1>7 DEF SendInfoMessage
  <2>2. AnswerInv'
    BY <1>7 DEF SendInfoMessage
  <2>3. IdleInv'
    BY <1>7 DEF SendInfoMessage
  <2>4. Agreement'
    BY <1>7 DEF SendInfoMessage
  <2>. QED
    BY <2>1, <2>2, <2>3, <2>4
<1>8. ASSUME NEW e \in Endpoint, OnState(e) PROVE CallInv'
  <2>1. OfferInv'
    BY <1>8 DEF OnState, OnStateAccepted, OnStateRejected, OnStateTerminating, OnStateOther, Destroy, TerminateWithReason, TerminateIq
  <2>2. AnswerInv'
    BY <1>8 DEF OnState, OnStateAccepted, OnStateRejected, OnStateTerminating, OnStateOther, Destroy, TerminateWithReason, TerminateIq
  <2>3. IdleInv'
    BY <1>8 DEF OnState, OnStateAccepted, OnStateRejected, OnStateTerminating, OnStateOther, Destroy, TerminateWithReason, TerminateIq
  <2>4. Agreement'
    BY <1>8 DEF OnState, OnStateAccepted, OnStateRejected, OnStateTerminating, OnStateOther, Destroy, TerminateWithReason, TerminateIq
  <2>. QED
    BY <2>1, <2>2, <2>3, <2>4
<1>9. ASSUME NEW e \in Endpoint, OnError(e) PROVE CallInv'
  <2>1. OfferInv'
    BY <1>9 DEF OnError, TerminateWithReason, TerminateIq
  <2>2. AnswerInv'
    BY <1>9 DEF OnError, TerminateWithReason, TerminateIq
  <2>3. IdleInv'
    BY <1>9 DEF OnError, TerminateWithReason, TerminateIq
  <2>4. Agreement'
    BY <1>9 DEF OnError, TerminateWithReason, TerminateIq
  <2>. QED
    BY <2>1, <2>2, <2>3, <2>4
<1>10. ASSUME NEW e \in Endpoint, OnConnecting(e) PROVE CallInv'
  <2>1. OfferInv'
    BY <1>10 DEF OnConnecting, OnTransportWritable
  <2>2. AnswerInv'
    BY <1>10 DEF OnConnecting, OnTransportWritable
  <2>3. IdleInv'
    BY <1>10 DEF OnConnecting, OnTransportWritable
  <2>4. Agreement'
    BY <1>10 DEF OnConnecting, OnTransportWritable
  <2>. QED
    BY <2>1, <2>2, <2>3, <2>4
<1>11. ASSUME NEW e \in Endpoint, OnWriteState(e) PROVE CallInv'
  <2>1. OfferInv'
    BY <1>11 DEF OnWriteState, OnTransportWritable
  <2>2. AnswerInv'
    BY <1>11 DEF OnWriteState, OnTransportWritable
  <2>3. IdleInv'
    BY <1>11 DEF OnWriteState, OnTransportWritable
  <2>4. Agreement'
    BY <1>11 DEF OnWriteState, OnTransportWritable
  <2>. QED
    BY <2>1, <2>2, <2>3, <2>4
<1>12. ASSUME NEW e \in Endpoint, OnTimeout(e) PROVE CallInv'
  <2>1. OfferInv'
    BY <1>12 DEF OnTimeout, SetError
  <2>2. AnswerInv'
    BY <1>12 DEF OnTimeout, SetError
  <2>3. IdleInv'
    BY <1>12 DEF OnTimeout, SetError
  <2>4. Agreement'
    BY <1>12 DEF OnTimeout, SetError
  <2>. QED
    BY <2>1, <2>2, <2>3, <2>4
<1>13. ASSUME NEW e \in Endpoint, NEW c \in Cand, CandidatesReady(e, c) PROVE CallInv'
  <2>1. OfferInv'
    BY <1>13 DEF CandidatesReady
  <2>2. AnswerInv'
    BY <1>13 DEF CandidatesReady
  <2>3. IdleInv'
    BY <1>13 DEF CandidatesReady
  <2>4. Agreement'
    BY <1>13 DEF CandidatesReady
  <2>. QED
    BY <2>1, <2>2, <2>3, <2>4
<1>14. ASSUME NEW e \in Endpoint, ChannelWritable(e) PROVE CallInv'
  <2>1. OfferInv'
    BY <1>14 DEF ChannelWritable
  <2>2. AnswerInv'
    BY <1>14 DEF ChannelWritable
  <2>3. IdleInv'
    BY <1>14 DEF ChannelWritable
  <2>4. Agreement'
    BY <1>14 DEF ChannelWritable
  <2>. QED
    BY <2>1, <2>2, <2>3, <2>4
<1>15. ASSUME NEW e \in Endpoint, ChannelUnwritable(e) PROVE CallInv'
  <2>1. OfferInv'
    BY <1>15 DEF ChannelUnwritable
  <2>2. AnswerInv'
    BY <1>15 DEF ChannelUnwritable
  <2>3. IdleInv'
    BY <1>15 DEF ChannelUnwritable
  <2>4. Agreement'
    BY <1>15 DEF ChannelUnwritable
  <2>. QED
    BY <2>1, <2>2, <2>3, <2>4
<1>16. ASSUME NEW m \in net, NEW r \in {"none", "accept", "reject"}, m.kind = "set", OnInitiateMessage(m, r) PROVE CallInv'
  <2>0. /\ Offer(m) /\ m.from # "callee" /\ m \in Stanza
        /\ state["caller"] # "NONE" /\ state["callee"] = "NONE"
    BY <1>16 DEF OnInitiateMessage
  <2>a. /\ state'["caller"] = state["caller"] /\ state'["callee"] # "NONE"
        /\ \A x \in net' : \/ x \in net \ {m}
                           \/ x.kind = "set" /\ x.act \in {"accept", "reject"}
                           \/ x.kind = "result"
    BY <1>16 DEF OnInitiateMessage, Answer, Iq, Reply
  <2>1. OfferInv'
    <3>1. \A x \in net' : ~Offer(x) /\ x.kind # "redirect"
      BY <2>0, <2>a
    <3>. QED
      BY <2>0, <2>a, <3>1
  <2>b. /\ state'["callee"] = IF r = "accept" THEN "SENTACCEPT"
                              ELSE IF r = "reject" THEN "SENTREJECT"
                              ELSE "RECEIVEDINITIATE"
        /\ answer' = IF r = "none" THEN answer ELSE r
        /\ answer = "none"
    BY <1>16, <2>0 DEF OnInitiateMessage
  <2>c. \A x \in net' : \/ x \in net \ {m}
                        \/ r # "none" /\ x.act = r
                        \/ x.kind = "result"
    BY <1>16 DEF OnInitiateMessage, Answer, Iq, Reply
  <2>2. AnswerInv'
    <3>1. \A x \in net' : x.kind = "set" /\ x.act \in {"accept", "reject"} => answer' = x.act
      BY <2>b, <2>c
    <3>. QED
      BY <2>a, <2>b, <3>1
  <2>3. IdleInv'
    BY <1>16 DEF OnInitiateMessage, CompleteNegotiation, ConnectChannels, Answer
  <2>4. Agreement'
    BY <1>16 DEF OnInitiateMessage, CompleteNegotiation, ConnectChannels, Answer
  <2>. QED
    BY <2>1, <2>2, <2>3, <2>4
<1>17. ASSUME NEW m \in net, m.kind = "set", OnAcceptMessage(m) PROVE CallInv'
  <2>1. OfferInv'
    BY <1>17 DEF OnAcceptMessage, OnInitiateAcked, FlushedIqs, CompleteNegotiation, ConnectChannels, Answer
  <2>2. AnswerInv'
    BY <1>17 DEF OnAcceptMessage, OnInitiateAcked, FlushedIqs, CompleteNegotiation, ConnectChannels, Answer
  <2>3. IdleInv'
    BY <1>17 DEF OnAcceptMessage, OnInitiateAcked, FlushedIqs, CompleteNegotiation, ConnectChannels, Answer
  <2>4. Agreement'
    BY <1>17 DEF OnAcceptMessage, OnInitiateAcked, FlushedIqs, CompleteNegotiation, ConnectChannels, Answer
  <2>. QED
    BY <2>1, <2>2, <2>3, <2>4
<1>18. ASSUME NEW m \in net, m.kind = "set", OnRejectMessage(m) PROVE CallInv'
  <2>1. OfferInv'
    BY <1>18 DEF OnRejectMessage, Answer
  <2>2. AnswerInv'
    BY <1>18 DEF OnRejectMessage, Answer
  <2>3. IdleInv'
    BY <1>18 DEF OnRejectMessage, Answer
  <2>4. Agreement'
    BY <1>18 DEF OnRejectMessage, Answer
  <2>. QED
    BY <2>1, <2>2, <2>3, <2>4
<1>19. ASSUME NEW e \in Endpoint, NEW m \in net, m.kind = "set", OnTerminateMessage(e, m) PROVE CallInv'
  <2>1. OfferInv'
    BY <1>19 DEF OnTerminateMessage, Answer
  <2>2. AnswerInv'
    BY <1>19 DEF OnTerminateMessage, Answer
  <2>3. IdleInv'
    BY <1>19 DEF OnTerminateMessage, Answer
  <2>4. Agreement'
    BY <1>19 DEF OnTerminateMessage, Answer
  <2>. QED
    BY <2>1, <2>2, <2>3, <2>4
<1>20. ASSUME NEW e \in Endpoint, NEW m \in net, m.kind = "set", OnInfoMessage(e, m) PROVE CallInv'
  <2>1. OfferInv'
    BY <1>20 DEF OnInfoMessage, Answer
  <2>2. AnswerInv'
    BY <1>20 DEF OnInfoMessage, Answer
  <2>3. IdleInv'
    BY <1>20 DEF OnInfoMessage, Answer
  <2>4. Agreement'
    BY <1>20 DEF OnInfoMessage, Answer
  <2>. QED
    BY <2>1, <2>2, <2>3, <2>4
<1>21. ASSUME NEW e \in Endpoint, NEW m \in net, m.kind = "set", OnTransportInfoMessage(e, m) PROVE CallInv'
  <2>1. OfferInv'
    BY <1>21 DEF OnTransportInfoMessage, CompleteNegotiation, ConnectChannels, Answer
  <2>2. AnswerInv'
    BY <1>21 DEF OnTransportInfoMessage, CompleteNegotiation, ConnectChannels, Answer
  <2>3. IdleInv'
    <3>1. Live(e) /\ UNCHANGED <<state, timer, conn, writable>>
      BY <1>21 DEF OnTransportInfoMessage
    <3>2. CompleteNegotiation(e, e \in channel, <<>>)
      BY <1>21 DEF OnTransportInfoMessage
    <3>3. \E msgs : Post(e, msgs)
      BY <3>2 DEF CompleteNegotiation, ConnectChannels
    <3>4. connreq' = connreq \/ connreq' = connreq \cup {e}
      BY <3>2, Zenon DEF CompleteNegotiation, ConnectChannels
    <3>. QED
      BY <3>1, <3>3, <3>4
  <2>4. Agreement'
    BY <1>21 DEF OnTransportInfoMessage, CompleteNegotiation, ConnectChannels, Answer
  <2>. QED
    BY <2>1, <2>2, <2>3, <2>4
<1>22. ASSUME NEW e \in Endpoint, NEW m \in net, m.kind = "set", OnRefusedMessage(e, m) PROVE CallInv'
  <2>1. OfferInv'
    BY <1>22 DEF OnRefusedMessage, Answer
  <2>2. AnswerInv'
    BY <1>22 DEF OnRefusedMessage, Answer
  <2>3. IdleInv'
    BY <1>22 DEF OnRefusedMessage, Answer
  <2>4. Agreement'
    BY <1>22 DEF OnRefusedMessage, Answer
  <2>. QED
    BY <2>1, <2>2, <2>3, <2>4
<1>23. ASSUME NEW m \in net, OnIncomingResponse(m) PROVE CallInv'
  <2>1. OfferInv'
    BY <1>23 DEF OnIncomingResponse, OnInitiateAcked, FlushedIqs
  <2>2. AnswerInv'
    BY <1>23 DEF OnIncomingResponse, OnInitiateAcked, FlushedIqs
  <2>3. IdleInv'
    BY <1>23 DEF OnIncomingResponse, OnInitiateAcked, FlushedIqs
  <2>4. Agreement'
    BY <1>23 DEF OnIncomingResponse, OnInitiateAcked, FlushedIqs
  <2>. QED
    BY <2>1, <2>2, <2>3, <2>4
<1>24. ASSUME NEW m \in net, OnErrorResponse(m) PROVE CallInv'
  <2>1. OfferInv'
    BY <1>24 DEF OnErrorResponse, OnFailedSend, Request, OnRedirect, SetError, IqSet, Reply
  <2>2. AnswerInv'
    BY <1>24 DEF OnErrorResponse, OnFailedSend, Request, OnRedirect, SetError, IqSet, Reply
  <2>3. IdleInv'
    <3>1. m.to = Request(m).from /\ Request(m) \in tasks
      BY <1>24 DEF OnErrorResponse, Request
    <3>2. m.to \in Endpoint
      BY <3>1 DEF IqSet
    <3>3. OnFailedSend(m.to, Request(m), m.kind, net \ {m})
      BY <1>24 DEF OnErrorResponse
    <3>4. \/ UNCHANGED posted
          \/ Live(m.to) /\ Post(m.to, <<"ERROR">>)
      BY <3>3 DEF OnFailedSend, SetError
    <3>5. UNCHANGED <<state, connreq, timer, conn, writable>>
      BY <3>3 DEF OnFailedSend
    <3>. QED
      BY <3>2, <3>4, <3>5
  <2>4. Agreement'
    BY <1>24 DEF OnErrorResponse, OnFailedSend, Request, OnRedirect, SetError, IqSet, Reply
  <2>. QED
    BY <2>1, <2>2, <2>3, <2>4
<1>25. ASSUME NEW m \in net, NEW kind \in ErrorKind, Redirect(m, kind) PROVE CallInv'
  <2>1. OfferInv'
    BY <1>25 DEF Redirect, Answer
  <2>2. AnswerInv'
    BY <1>25 DEF Redirect, Answer
  <2>3. IdleInv'
    BY <1>25 DEF Redirect, Answer
  <2>4. Agreement'
    BY <1>25 DEF Redirect, Answer
  <2>. QED
    BY <2>1, <2>2, <2>3, <2>4
<1>26. ASSUME NEW m \in net, Lose(m) PROVE CallInv'
  <2>1. OfferInv'
    BY <1>26 DEF Lose, Fault
  <2>2. AnswerInv'
    BY <1>26 DEF Lose, Fault
  <2>3. IdleInv'
    BY <1>26 DEF Lose, Fault
  <2>4. Agreement'
    BY <1>26 DEF Lose, Fault
  <2>. QED
    BY <2>1, <2>2, <2>3, <2>4
<1>27. ASSUME NEW m \in net, NEW kind \in ErrorKind, Bounce(m, kind) PROVE CallInv'
  <2>1. OfferInv'
    BY <1>27 DEF Bounce, Fault
  <2>2. AnswerInv'
    BY <1>27 DEF Bounce, Fault
  <2>3. IdleInv'
    BY <1>27 DEF Bounce, Fault
  <2>4. Agreement'
    BY <1>27 DEF Bounce, Fault
  <2>. QED
    BY <2>1, <2>2, <2>3, <2>4
<1>28. ASSUME NEW t \in tasks, OnSendTimeout(t) PROVE CallInv'
  <2>1. OfferInv'
    BY <1>28 DEF OnSendTimeout, OnFailedSend, OnRedirect, SetError
  <2>2. AnswerInv'
    BY <1>28 DEF OnSendTimeout, OnFailedSend, OnRedirect, SetError
  <2>3. IdleInv'
    BY <1>28 DEF OnSendTimeout, OnFailedSend, OnRedirect, SetError
  <2>4. Agreement'
    BY <1>28 DEF OnSendTimeout, OnFailedSend, OnRedirect, SetError
  <2>. QED
    BY <2>1, <2>2, <2>3, <2>4
<1>29. CASE UNCHANGED vars
  BY <1>29 DEF vars
<1>. HIDE DEF CallInv, OfferInv, AnswerInv, IdleInv, Agreement, Offer, TypeOK,
              tvars, cvars, wire, bounds, Post, Send, Waiting, Endpoint, Live,
              FindSession, Terminating, Accepted, Rejected
<1>. QED
  BY <1>1, <1>2, <1>3, <1>4, <1>5, <1>6, <1>7, <1>8, <1>9, <1>10, <1>11, <1>12, 
     <1>13, <1>14, <1>15, <1>16, <1>17, <1>18, <1>19, <1>20, <1>21, <1>22, <1>23, <1>24, 
     <1>25, <1>26, <1>27, <1>28, <1>29
  DEF Next, Client, SignalingThread, Receive, ReceiveSet, ErrorKind

(* At most one offer is ever in flight, an answer in flight is the one the  *)
(* callee gave, and nothing is queued or armed for a session that is gone.  *)
THEOREM CallInvariant == Spec => []CallInv
BY TypeInit, TypeNext, CallInit, CallNext, PTL DEF Spec

(* The caller is in RECEIVEDACCEPT or INPROGRESS only if the callee has     *)
(* called Session::Accept, and in RECEIVEDREJECT only if it called Reject,  *)
(* however the server loses, bounces, delays and re-orders the stanzas.     *)
THEOREM AgreementHolds == Spec => []Agreement
<1>1. CallInv => Agreement
  BY DEF CallInv
<1>. QED
  BY <1>1, CallInvariant, PTL

-----------------------------------------------------------------------------
(* What a change of one end's state is for the contract.                    *)
LEMMA PhaseStep ==
  ASSUME TypeOK, NEW e \in Endpoint, NEW s, state' = [state EXCEPT ![e] = s]
  PROVE  CallPhase' = [CallPhase EXCEPT ![e] = Phase(s)]
BY DEF TypeOK, CallPhase

(* The phase of every state.                                                *)
LEMMA PhaseValues ==
  /\ Phase("NONE") = "idle"
  /\ \A s \in {"SENTINITIATE", "RECEIVEDINITIATE"} : Phase(s) = "trying"
  /\ \A s \in Accepted \cup {"INPROGRESS"} : Phase(s) = "connected"
  /\ \A s \in Rejected \cup Terminating \cup {"DEINIT"} : Phase(s) = "ended"
BY Zenon DEF Phase, Accepted, Rejected, Terminating

(* However a session ends, the contract sees its end ending, or nothing.    *)
LEMMA EndStep ==
  ASSUME TypeOK, NEW e \in Endpoint, Live(e), UNCHANGED answer,
         NEW s \in Rejected \cup Terminating \cup {"DEINIT"},
         state' = [state EXCEPT ![e] = s]
  PROVE  [C!Next]_<<CallPhase, answer>>
<1>1. CallPhase' = [CallPhase EXCEPT ![e] = "ended"]
  BY PhaseStep, PhaseValues
<1>2. CallPhase[e] \in {"trying", "connected", "ended"}
  BY PhaseValues
     DEF CallPhase, Live, TypeOK, SessionState, Accepted, Rejected, Terminating
<1>3. CASE CallPhase[e] = "ended"
  BY <1>1, <1>3 DEF CallPhase
<1>4. CASE CallPhase[e] # "ended"
  <2>1. C!End(e)
    BY <1>1, <1>2, <1>4 DEF C!End
  <2>. QED
    BY <2>1 DEF C!Next, C!Ends, Endpoint
<1>. QED
  BY <1>3, <1>4

(* Every step of the session is a step of the contract, or none.            *)
LEMMA CallStep ==
  TypeOK /\ CallInv /\ [Next]_vars => [C!Next]_<<CallPhase, answer>>
<1>. SUFFICES ASSUME TypeOK, CallInv, [Next]_vars
              PROVE  [C!Next]_<<CallPhase, answer>>
  OBVIOUS
<1>0. ASSUME UNCHANGED <<state, answer>> PROVE [C!Next]_<<CallPhase, answer>>
  BY <1>0 DEF CallPhase
<1>. USE DEF CallInv, OfferInv, AnswerInv, IdleInv, Agreement
<1>1. ASSUME NEW to \in Name, Initiate(to)
      PROVE  [C!Next]_<<CallPhase, answer>>
  <2>1. CallPhase' = [CallPhase EXCEPT !["caller"] = "trying"]
    <3>1. state' = [state EXCEPT !["caller"] = "SENTINITIATE"] /\ "caller" \in Endpoint
      BY <1>1 DEF Initiate, Endpoint
    <3>2. Phase("SENTINITIATE") = "trying"
      BY PhaseValues
    <3>. QED
      BY <3>1, <3>2 DEF TypeOK, CallPhase
  <2>2. CallPhase["caller"] = "idle"
    BY <1>1, PhaseValues DEF Initiate, CallPhase, Endpoint
  <2>. QED
    BY <1>1, <2>1, <2>2 DEF Initiate, C!Next, C!Dial
<1>2. CASE Accept
  <2>1. CallPhase' = [CallPhase EXCEPT !["callee"] = "connected"]
    <3>1. state' = [state EXCEPT !["callee"] = "SENTACCEPT"] /\ "callee" \in Endpoint
      BY <1>2 DEF Accept, Endpoint
    <3>2. Phase("SENTACCEPT") = "connected"
      BY PhaseValues DEF Accepted, Rejected
    <3>. QED
      BY <3>1, <3>2 DEF TypeOK, CallPhase
  <2>2. CallPhase["callee"] = "trying" /\ CallPhase["caller"] # "idle"
    BY <1>2, PhaseValues
       DEF Accept, CallPhase, Endpoint, TypeOK, SessionState, Accepted, Rejected, Terminating
  <2>3. C!Answer("accept")
    BY <1>2, <2>1, <2>2 DEF Accept, C!Answer
  <2>. QED
    BY <2>3 DEF C!Next
<1>3. CASE Reject
  <2>1. CallPhase' = [CallPhase EXCEPT !["callee"] = "ended"]
    <3>1. state' = [state EXCEPT !["callee"] = "SENTREJECT"] /\ "callee" \in Endpoint
      BY <1>3 DEF Reject, Endpoint
    <3>2. Phase("SENTREJECT") = "ended"
      BY PhaseValues DEF Accepted, Rejected
    <3>. QED
      BY <3>1, <3>2 DEF TypeOK, CallPhase
  <2>2. CallPhase["callee"] = "trying" /\ CallPhase["caller"] # "idle"
    BY <1>3, PhaseValues
       DEF Reject, CallPhase, Endpoint, TypeOK, SessionState, Accepted, Rejected, Terminating
  <2>3. C!Answer("reject")
    BY <1>3, <2>1, <2>2 DEF Reject, C!Answer
  <2>. QED
    BY <2>3 DEF C!Next
<1>4. ASSUME NEW e \in Endpoint, Terminate(e)
      PROVE  [C!Next]_<<CallPhase, answer>>
  BY <1>4, EndStep DEF Terminate, TerminateWithReason, Terminating
<1>5. ASSUME NEW e \in Endpoint, CloseUnconnected(e)
      PROVE  [C!Next]_<<CallPhase, answer>>
  BY <1>5, EndStep DEF CloseUnconnected, Destroy, Terminating
<1>6. ASSUME NEW e \in Endpoint, Shutdown(e)
      PROVE  [C!Next]_<<CallPhase, answer>>
  BY <1>6, EndStep DEF Shutdown, Destroy, Terminating
<1>7. ASSUME NEW e \in Endpoint, SendInfoMessage(e)
      PROVE  [C!Next]_<<CallPhase, answer>>
  BY <1>0, <1>7 DEF SendInfoMessage
<1>8. ASSUME NEW e \in Endpoint, OnState(e)
      PROVE  [C!Next]_<<CallPhase, answer>>
  <2>1. Live(e)
    BY <1>8 DEF OnState
  <2>2. CASE OnStateAccepted(e)
    <3>1. CallPhase' = [CallPhase EXCEPT ![e] = "connected"]
      <4>1. state' = [state EXCEPT ![e] = "INPROGRESS"] /\ Phase("INPROGRESS") = "connected"
        BY <2>2, PhaseValues DEF OnStateAccepted
      <4>. QED
        BY <4>1 DEF TypeOK, CallPhase
    <3>2. CallPhase[e] = "connected"
      BY <2>2, PhaseValues DEF OnStateAccepted, CallPhase
    <3>. QED
      BY <2>2, <3>1, <3>2 DEF OnStateAccepted, CallPhase
  <2>3. CASE OnStateRejected(e)
    BY <2>1, <2>3, EndStep DEF OnStateRejected, TerminateWithReason, Terminating
  <2>4. CASE OnStateTerminating(e)
    BY <2>1, <2>4, EndStep DEF OnStateTerminating, Destroy
  <2>5. CASE OnStateOther(e)
    BY <1>0, <2>5 DEF OnStateOther
  <2>. QED
    BY <1>8, <2>2, <2>3, <2>4, <2>5 DEF OnState
<1>9. ASSUME NEW e \in Endpoint, OnError(e)
      PROVE  [C!Next]_<<CallPhase, answer>>
  <2>1. CASE state[e] \in Terminating
    BY <1>0, <1>9, <2>1 DEF OnError
  <2>2. CASE state[e] \notin Terminating
    <3>1. Live(e)
      BY <1>9 DEF OnError
    <3>. QED
      BY <1>9, <2>2, <3>1, EndStep DEF OnError, TerminateWithReason, Terminating
  <2>. QED
    BY <2>1, <2>2
<1>10. ASSUME NEW e \in Endpoint, OnConnecting(e)
      PROVE  [C!Next]_<<CallPhase, answer>>
  BY <1>0, <1>10 DEF OnConnecting
<1>11. ASSUME NEW e \in Endpoint, OnWriteState(e)
      PROVE  [C!Next]_<<CallPhase, answer>>
  BY <1>0, <1>11 DEF OnWriteState
<1>12. ASSUME NEW e \in Endpoint, OnTimeout(e)
      PROVE  [C!Next]_<<CallPhase, answer>>
  BY <1>0, <1>12 DEF OnTimeout
<1>13. ASSUME NEW e \in Endpoint, NEW c \in Cand, CandidatesReady(e, c)
      PROVE  [C!Next]_<<CallPhase, answer>>
  BY <1>0, <1>13 DEF CandidatesReady
<1>14. ASSUME NEW e \in Endpoint, ChannelWritable(e)
      PROVE  [C!Next]_<<CallPhase, answer>>
  BY <1>0, <1>14 DEF ChannelWritable
<1>15. ASSUME NEW e \in Endpoint, ChannelUnwritable(e)
      PROVE  [C!Next]_<<CallPhase, answer>>
  BY <1>0, <1>15 DEF ChannelUnwritable
<1>16. ASSUME NEW m \in net, NEW r \in {"none", "accept", "reject"}, m.kind = "set", OnInitiateMessage(m, r)
      PROVE  [C!Next]_<<CallPhase, answer>>
  <2>1. state["callee"] = "NONE" /\ state["caller"] # "NONE" /\ answer = "none"
    BY <1>16 DEF OnInitiateMessage, Offer
  <2>2. CallPhase["callee"] = "idle" /\ CallPhase["caller"] # "idle"
    BY <2>1, PhaseValues
       DEF CallPhase, Endpoint, TypeOK, SessionState, Accepted, Rejected, Terminating
  <2>3. CASE r = "none"
    <3>1. CallPhase' = [CallPhase EXCEPT !["callee"] = "trying"]
      <4>1. state' = [state EXCEPT !["callee"] = "RECEIVEDINITIATE"] /\ "callee" \in Endpoint
        BY <1>16, <2>3 DEF OnInitiateMessage, Endpoint
      <4>2. Phase("RECEIVEDINITIATE") = "trying"
        BY PhaseValues
      <4>. QED
        BY <4>1, <4>2 DEF TypeOK, CallPhase
    <3>. QED
      BY <1>16, <2>2, <2>3, <3>1 DEF OnInitiateMessage, C!Next, C!Ring
  <2>4. CASE r \in {"accept", "reject"}
    <3>1. CallPhase' = [CallPhase EXCEPT !["callee"] =
                          IF r = "accept" THEN "connected" ELSE "ended"]
      <4>1. /\ state' = [state EXCEPT !["callee"] = IF r = "accept" THEN "SENTACCEPT" ELSE "SENTREJECT"]
            /\ "callee" \in Endpoint
        BY <1>16, <2>4 DEF OnInitiateMessage, Endpoint
      <4>2. Phase("SENTACCEPT") = "connected" /\ Phase("SENTREJECT") = "ended"
        BY PhaseValues DEF Accepted, Rejected
      <4>3. CASE r = "accept"
        BY <4>1, <4>2, <4>3 DEF TypeOK, CallPhase
      <4>4. CASE r # "accept"
        BY <4>1, <4>2, <4>4 DEF TypeOK, CallPhase
      <4>. QED
        BY <4>3, <4>4
    <3>2. C!Answer(r)
      BY <1>16, <2>1, <2>2, <2>4, <3>1 DEF OnInitiateMessage, C!Answer
    <3>. QED
      BY <2>4, <3>2 DEF C!Next
  <2>. QED
    BY <2>3, <2>4
<1>17. ASSUME NEW m \in net, m.kind = "set", OnAcceptMessage(m)
      PROVE  [C!Next]_<<CallPhase, answer>>
  <2>1. CallPhase' = [CallPhase EXCEPT !["caller"] = "connected"]
    <3>1. state' = [state EXCEPT !["caller"] = "RECEIVEDACCEPT"] /\ "caller" \in Endpoint
      BY <1>17 DEF OnAcceptMessage, Endpoint
    <3>2. Phase("RECEIVEDACCEPT") = "connected"
      BY PhaseValues DEF Accepted
    <3>. QED
      BY <3>1, <3>2 DEF TypeOK, CallPhase
  <2>2. CallPhase["caller"] = "trying" /\ answer = "accept" /\ UNCHANGED answer
    BY <1>17, PhaseValues DEF OnAcceptMessage, CallPhase, Endpoint
  <2>. QED
    BY <2>1, <2>2 DEF C!Next, C!Connect
<1>18. ASSUME NEW m \in net, m.kind = "set", OnRejectMessage(m)
      PROVE  [C!Next]_<<CallPhase, answer>>
  BY <1>18, EndStep DEF OnRejectMessage, Rejected, Endpoint, FindSession
<1>19. ASSUME NEW e \in Endpoint, NEW m \in net, m.kind = "set", OnTerminateMessage(e, m)
      PROVE  [C!Next]_<<CallPhase, answer>>
  BY <1>19, EndStep DEF OnTerminateMessage, FindSession, Terminating
<1>20. ASSUME NEW e \in Endpoint, NEW m \in net, m.kind = "set", OnInfoMessage(e, m)
      PROVE  [C!Next]_<<CallPhase, answer>>
  BY <1>0, <1>20 DEF OnInfoMessage
<1>21. ASSUME NEW e \in Endpoint, NEW m \in net, m.kind = "set", OnTransportInfoMessage(e, m)
      PROVE  [C!Next]_<<CallPhase, answer>>
  BY <1>0, <1>21 DEF OnTransportInfoMessage
<1>22. ASSUME NEW e \in Endpoint, NEW m \in net, m.kind = "set", OnRefusedMessage(e, m)
      PROVE  [C!Next]_<<CallPhase, answer>>
  BY <1>0, <1>22 DEF OnRefusedMessage
<1>23. ASSUME NEW m \in net, OnIncomingResponse(m)
      PROVE  [C!Next]_<<CallPhase, answer>>
  BY <1>0, <1>23 DEF OnIncomingResponse
<1>24. ASSUME NEW m \in net, OnErrorResponse(m)
      PROVE  [C!Next]_<<CallPhase, answer>>
  BY <1>0, <1>24 DEF OnErrorResponse, OnFailedSend
<1>25. ASSUME NEW m \in net, NEW kind \in ErrorKind, Redirect(m, kind)
      PROVE  [C!Next]_<<CallPhase, answer>>
  BY <1>0, <1>25 DEF Redirect
<1>26. ASSUME NEW m \in net, Lose(m)
      PROVE  [C!Next]_<<CallPhase, answer>>
  BY <1>0, <1>26 DEF Lose, Fault
<1>27. ASSUME NEW m \in net, NEW kind \in ErrorKind, Bounce(m, kind)
      PROVE  [C!Next]_<<CallPhase, answer>>
  BY <1>0, <1>27 DEF Bounce, Fault
<1>28. ASSUME NEW t \in tasks, OnSendTimeout(t)
      PROVE  [C!Next]_<<CallPhase, answer>>
  BY <1>0, <1>28 DEF OnSendTimeout, OnFailedSend
<1>29. CASE UNCHANGED vars
  BY <1>0, <1>29 DEF vars
<1>. QED
  BY <1>1, <1>2, <1>3, <1>4, <1>5, <1>6, <1>7, <1>8, <1>9, <1>10, <1>11, <1>12, 
     <1>13, <1>14, <1>15, <1>16, <1>17, <1>18, <1>19, <1>20, <1>21, <1>22, <1>23, <1>24, 
     <1>25, <1>26, <1>27, <1>28, <1>29
  DEF Next, Client, SignalingThread, Receive, ReceiveSet, ErrorKind

(* The endpoints implement the contract of Call.tla: the offer rings once,  *)
(* the callee answers once, the caller connects only after an accept, and   *)
(* an end that has ended, by whatever terminate, error, timeout or reject,  *)
(* stays so.                                                                *)
THEOREM SessionImplementsCall == Spec => CallSpec
<1>1. Init => C!Init
  BY PhaseValues DEF Init, C!Init, C!Ends, CallPhase, Endpoint
<1>. QED
  BY <1>1, TypeInit, TypeNext, CallInit, CallNext, CallStep, PTL
     DEF Spec, CallSpec, C!Spec

-----------------------------------------------------------------------------
(* What the queue of each signaling thread, the transport's timeout and the *)
(* candidates promise.                                                      *)

(* A message is in two queues put together if it is in one of them.         *)
LEMMA HasConcat ==
  ASSUME NEW q \in Seq(Message), NEW r \in Seq(Message), NEW x
  PROVE  Has(q \o r, x) <=> Has(q, x) \/ Has(r, x)
<1>. DEFINE s == q \o r
<1>1. s \in Seq(Message) /\ Len(s) = Len(q) + Len(r) /\ Len(q) \in Nat /\ Len(r) \in Nat
  OBVIOUS
<1>2. \A i \in 1..Len(q) : s[i] = q[i]
  OBVIOUS
<1>3. \A i \in 1..Len(r) : s[Len(q) + i] = r[i]
  OBVIOUS
<1>4. ASSUME Has(s, x) PROVE Has(q, x) \/ Has(r, x)
  <2>1. PICK i \in 1..Len(s) : s[i] = x
    BY <1>4 DEF Has
  <2>2. CASE i \in 1..Len(q)
    BY <1>2, <2>1, <2>2 DEF Has
  <2>3. CASE i \notin 1..Len(q)
    <3>1. i - Len(q) \in 1..Len(r) /\ Len(q) + (i - Len(q)) = i
      BY <1>1, <2>3
    <3>2. r[i - Len(q)] = x
      BY <1>3, <2>1, <3>1
    <3>. QED
      BY <3>1, <3>2 DEF Has
  <2>. QED
    BY <2>2, <2>3
<1>5. ASSUME Has(q, x) PROVE Has(s, x)
  BY <1>1, <1>2, <1>5 DEF Has
<1>6. ASSUME Has(r, x) PROVE Has(s, x)
  <2>1. PICK i \in 1..Len(r) : r[i] = x
    BY <1>6 DEF Has
  <2>2. Len(q) + i \in 1..Len(s) /\ s[Len(q) + i] = x
    BY <1>1, <1>3, <2>1
  <2>. QED
    BY <2>2 DEF Has
<1>. QED
  BY <1>4, <1>5, <1>6

(* The queues the handlers post, and what is in them.                       *)
LEMMA HasListed ==
  /\ \A x : ~Has(<<>>, x)
  /\ \A a, x : Has(<<a>>, x) <=> x = a
  /\ \A a, b, x : Has(<<a, b>>, x) <=> x = a \/ x = b
BY DEF Has

(* A message is in a queue after another one is added if it was there or is *)
(* the new one.                                                             *)
LEMMA HasPosted ==
  ASSUME NEW q \in Seq(Message), NEW a \in Message, NEW x
  PROVE  Has(q \o <<a>>, x) <=> Has(q, x) \/ x = a
<1>1. <<a>> \in Seq(Message)
  OBVIOUS
<1>. QED
  <2>1. Has(q \o <<a>>, x) <=> Has(q, x) \/ Has(<<a>>, x)
    BY <1>1, HasConcat
  <2>. QED
    BY <2>1, HasListed

(* Handling the first message of a queue takes no other one out of it.      *)
LEMMA HasTail ==
  ASSUME NEW q \in Seq(Message), q # <<>>, NEW x, Has(q, x), Head(q) # x
  PROVE  Has(Tail(q), x)
<1>1. PICK i \in 1..Len(q) : q[i] = x
  BY DEF Has
<1>2. i # 1
  BY <1>1
<1>3. i - 1 \in 1..Len(Tail(q)) /\ Tail(q)[i - 1] = q[i]
  BY <1>1, <1>2
<1>. QED
  BY <1>1, <1>3 DEF Has

(* QueueInv for one endpoint.                                               *)
EndInv(f) ==
  /\ state[f] \in Accepted \cup Rejected \cup Terminating => Has(posted[f], "STATE")
  /\ Live(f) /\ error[f] # "NONE" => state[f] \in Terminating \/ Has(posted[f], "ERROR")
  /\ f \in connreq => HasChannels(f)
  /\ f \in connreq /\ f \notin writable =>
       f \in timer \/ Has(posted[f], "CONNECTING") \/ error[f] # "NONE"
  /\ (f \in conn) # (f \in writable) => Has(posted[f], "WRITESTATE")
  /\ state[f] = "NONE" => error[f] = "NONE"

(* QueueInv is EndInv of every endpoint, before and after a step.           *)
LEMMA EndInvs ==
  /\ QueueInv <=> \A f \in Endpoint : EndInv(f)
  /\ QueueInv' <=> \A f \in Endpoint : EndInv(f)'
BY DEF QueueInv, EndInv, TransientIsPosted, ErrorNotForgotten, WatchInv

(* An endpoint that a step does not touch keeps its part of QueueInv.       *)
Same(f) ==
  /\ state'[f] = state[f] /\ error'[f] = error[f] /\ posted'[f] = posted[f]
  /\ tproxy'[f] = tproxy[f]
  /\ f \in timer' <=> f \in timer
  /\ f \in channel' <=> f \in channel
  /\ f \in connreq' <=> f \in connreq
  /\ f \in conn' <=> f \in conn
  /\ f \in writable' <=> f \in writable

(* What does not touch an end keeps its part of the invariant.              *)
LEMMA EndSame ==
  ASSUME NEW f \in Endpoint, EndInv(f), Same(f) PROVE EndInv(f)'
BY DEF EndInv, Same, Live, HasChannels

(* What posting adds to the queue of e, and that it leaves the other alone. *)
LEMMA PostHas ==
  ASSUME TypeOK, NEW e \in Endpoint, NEW msgs \in Seq(Message), Post(e, msgs)
  PROVE  /\ \A x : Has(posted'[e], x) <=> Has(posted[e], x) \/ Has(msgs, x)
         /\ \A f \in Endpoint : f # e => posted'[f] = posted[f]
BY HasConcat DEF Post, TypeOK

(* The same when one message is posted.                                     *)
LEMMA PostOne ==
  ASSUME TypeOK, NEW e \in Endpoint, NEW a \in Message, Post(e, <<a>>)
  PROVE  /\ \A x : Has(posted'[e], x) <=> Has(posted[e], x) \/ x = a
         /\ \A f \in Endpoint : f # e => posted'[f] = posted[f]
<1>1. <<a>> \in Seq(Message)
  OBVIOUS
<1>2. \A x : Has(<<a>>, x) <=> x = a
  BY HasListed
<1>. QED
  BY <1>1, <1>2, PostHas

(* The same for ConnectChannels: a first request to connect is announced.   *)
LEMMA ConnectHas ==
  ASSUME TypeOK, NEW e \in Endpoint, NEW has \in BOOLEAN,
         NEW msgs \in Seq(Message), ConnectChannels(e, has, msgs)
  PROVE  /\ \A x : Has(posted[e], x) \/ Has(msgs, x) => Has(posted'[e], x)
         /\ \A f \in Endpoint : f # e => posted'[f] = posted[f]
         /\ connreq' = IF has THEN connreq \cup {e} ELSE connreq
         /\ e \in connreq' => e \in connreq \/ Has(posted'[e], "CONNECTING")
<1>. DEFINE all == IF has /\ e \notin connreq THEN msgs \o <<"CONNECTING">> ELSE msgs
<1>1. "CONNECTING" \in Message
  BY DEF Message
<1>2. all \in Seq(Message)
  BY <1>1
<1>3. Post(e, all) /\ connreq' = IF has THEN connreq \cup {e} ELSE connreq
  BY DEF ConnectChannels
<1>4. \A x : Has(msgs, x) => Has(all, x)
  BY <1>1, HasPosted
<1>5. has /\ e \notin connreq => Has(all, "CONNECTING")
  BY <1>1, HasPosted
<1>. QED
  BY <1>2, <1>3, <1>4, <1>5, PostHas

(* The same for CompleteNegotiation.                                        *)
LEMMA NegotiationHas ==
  ASSUME TypeOK, NEW e \in Endpoint, NEW has \in BOOLEAN,
         NEW msgs \in Seq(Message), CompleteNegotiation(e, has, msgs)
  PROVE  /\ \A x : Has(posted[e], x) \/ Has(msgs, x) => Has(posted'[e], x)
         /\ \A f \in Endpoint : f # e => posted'[f] = posted[f]
         /\ connreq' = connreq \/ (has /\ connreq' = connreq \cup {e})
         /\ e \in connreq' => e \in connreq \/ Has(posted'[e], "CONNECTING")
         /\ tproxy' = [tproxy EXCEPT ![e] = "NEGOTIATED"]
<1>1. tproxy' = [tproxy EXCEPT ![e] = "NEGOTIATED"]
  BY DEF CompleteNegotiation
<1>2. CASE tproxy[e] # "NEGOTIATED"
  BY <1>1, <1>2, ConnectHas DEF CompleteNegotiation
<1>3. CASE tproxy[e] = "NEGOTIATED"
  BY <1>1, <1>3, PostHas DEF CompleteNegotiation
<1>. QED
  BY <1>2, <1>3

(* A session that is destroyed leaves nothing behind and the other alone.   *)
LEMMA DestroyEnd ==
  ASSUME TypeOK, NEW e \in Endpoint, NEW ms, Destroy(e, ms),
         NEW f \in Endpoint, EndInv(f)
  PROVE  EndInv(f)'
<1>1. /\ state' = [state EXCEPT ![e] = "DEINIT"]
      /\ posted' = [posted EXCEPT ![e] = <<>>]
      /\ tproxy' = [tproxy EXCEPT ![e] = "NONE"]
      /\ timer' = timer \ {e} /\ channel' = channel \ {e}
      /\ connreq' = connreq \ {e} /\ conn' = conn \ {e} /\ writable' = writable \ {e}
      /\ UNCHANGED error
  BY DEF Destroy
<1>2. CASE f # e
  BY <1>1, <1>2, EndSame DEF Same
<1>3. CASE f = e
  BY <1>1, <1>3 DEF TypeOK, EndInv, Live, Accepted, Rejected, Terminating
<1>. QED
  BY <1>2, <1>3

(* A failed send either posts the error or changes nothing the queues care  *)
(* about, and only a live session hears of it.                              *)
LEMMA FailedSendEnd ==
  ASSUME TypeOK, NEW e \in Endpoint, NEW t, NEW kind, NEW n,
         OnFailedSend(e, t, kind, n), NEW f \in Endpoint, EndInv(f)
  PROVE  EndInv(f)'
<1>1. /\ UNCHANGED <<state, timer, tproxy, channel, connreq, conn, writable>>
      /\ (Live(e) /\ SetError(e, "RESPONSE")) \/ UNCHANGED <<error, posted>>
  BY DEF OnFailedSend, FindSession, tvars
<1>2. CASE UNCHANGED <<error, posted>>
  BY <1>1, <1>2, EndSame DEF Same
<1>3. CASE Live(e) /\ SetError(e, "RESPONSE")
  <2>0. "ERROR" \in Message /\ <<"ERROR">> \in Seq(Message)
    BY DEF Message
  <2>1. /\ error' = [error EXCEPT ![e] = "RESPONSE"]
        /\ \A x : Has(posted'[e], x) <=> Has(posted[e], x) \/ x = "ERROR"
        /\ \A g \in Endpoint : g # e => posted'[g] = posted[g]
    BY <1>3, <2>0, PostOne DEF SetError
  <2>2. CASE f # e
    BY <1>1, <2>1, <2>2, EndSame DEF Same, TypeOK
  <2>3. CASE f = e
    BY <1>1, <1>3, <2>1, <2>3 DEF TypeOK, EndInv, Live, HasChannels
  <2>. QED
    BY <2>2, <2>3
<1>. QED
  BY <1>1, <1>2, <1>3

(* Initially the queues are empty and no session has begun.                 *)
LEMMA QueueInit == Init => QueueInv
BY DEF Init, QueueInv, TransientIsPosted, ErrorNotForgotten, WatchInv, Endpoint,
       Live, Accepted, Rejected, Terminating

(* Every step keeps QueueInv: what a handler leaves to be done is queued    *)
(* behind whatever was queued before, or it is the message being handled.   *)
LEMMA QueueNext == TypeOK /\ CallInv /\ QueueInv /\ [Next]_vars => QueueInv'
<1>. SUFFICES ASSUME TypeOK, CallInv, QueueInv, [Next]_vars,
                     NEW f \in Endpoint
              PROVE  EndInv(f)'
  BY EndInvs
<1>0. EndInv(f) /\ posted \in [Endpoint -> Seq(Message)]
  BY EndInvs DEF TypeOK
<1>a. /\ <<>> \in Seq(Message)
      /\ \A x \in Message : <<x>> \in Seq(Message)
      /\ <<"STATE", "STATE">> \in Seq(Message)
  BY DEF Message
<1>b. Message = {"STATE", "ERROR", "CONNECTING", "WRITESTATE"}
  BY DEF Message
<1>c. IdleInv
  BY DEF CallInv
<1>1. ASSUME NEW to \in Name, Initiate(to) PROVE EndInv(f)'
  <2>. DEFINE e == "caller"
  <2>0. Early \in BOOLEAN /\ e \in Endpoint
    BY SessionAssumption DEF Endpoint
  <2>1. Has(<<"STATE">>, "STATE") /\ <<"STATE">> \in Seq(Message)
    BY <1>a, <1>b, HasListed
  <2>2. ConnectChannels(e, Early, <<"STATE">>)
    BY <1>1 DEF Initiate
  <2>3. /\ Has(posted'[e], "STATE")
        /\ \A g \in Endpoint : g # e => posted'[g] = posted[g]
        /\ connreq' = IF Early THEN connreq \cup {e} ELSE connreq
        /\ e \in connreq' => e \in connreq \/ Has(posted'[e], "CONNECTING")
    BY <2>0, <2>1, <2>2, ConnectHas
  <2>4. /\ state' = [state EXCEPT ![e] = "SENTINITIATE"] /\ state[e] = "NONE"
        /\ tproxy' = [tproxy EXCEPT ![e] = "CONNECTING"]
        /\ channel' = IF Early THEN channel \cup {e} ELSE channel
        /\ UNCHANGED <<error, timer, conn, writable>>
    BY <1>1 DEF Initiate
  <2>5. CASE f # e
    BY <1>0, <2>3, <2>4, <2>5, EndSame DEF Same
  <2>6. CASE f = e
    <3>1. e \notin connreq /\ e \notin conn /\ e \notin writable /\ error[e] = "NONE"
      BY <1>0, <1>c, <2>0, <2>4, <2>6 DEF IdleInv, Live, EndInv
    <3>. QED
      BY <2>0, <2>3, <2>4, <2>6, <3>1
         DEF TypeOK, EndInv, Live, HasChannels, Accepted, Rejected, Terminating
  <2>. QED
    BY <2>5, <2>6
<1>2. CASE Accept
  <2>1. "callee" \in Endpoint /\ Post("callee", <<"STATE">>)
    BY <1>2 DEF Accept, Endpoint
  <2>2. /\ \A x : Has(posted'["callee"], x) <=> Has(posted["callee"], x) \/ x = "STATE"
        /\ \A g \in Endpoint : g # "callee" => posted'[g] = posted[g]
    BY <1>b, <2>1, PostOne
  <2>3. /\ state' = [state EXCEPT !["callee"] = "SENTACCEPT"] /\ state["callee"] = "RECEIVEDINITIATE"
        /\ channel' = channel \cup {"callee"}
        /\ UNCHANGED <<error, timer, tproxy, connreq, conn, writable>>
    BY <1>2, <1>c DEF Accept, tvars, IdleInv, Live, FindSession
  <2>4. CASE f # "callee"
    BY <1>0, <2>1, <2>2, <2>3, <2>4, EndSame DEF Same, TypeOK
  <2>5. CASE f = "callee"
    BY <1>0, <2>1, <2>2, <2>3, <2>5 DEF TypeOK, EndInv, Live, HasChannels, Accepted, Rejected, Terminating
  <2>. QED
    BY <2>4, <2>5
<1>3. CASE Reject
  <2>1. "callee" \in Endpoint /\ Post("callee", <<"STATE">>)
    BY <1>3 DEF Reject, Endpoint
  <2>2. /\ \A x : Has(posted'["callee"], x) <=> Has(posted["callee"], x) \/ x = "STATE"
        /\ \A g \in Endpoint : g # "callee" => posted'[g] = posted[g]
    BY <1>b, <2>1, PostOne
  <2>3. /\ state' = [state EXCEPT !["callee"] = "SENTREJECT"] /\ state["callee"] = "RECEIVEDINITIATE"
        /\ UNCHANGED <<error, timer, tproxy, channel, connreq, conn, writable>>
    BY <1>3, <1>c DEF Reject, tvars, IdleInv, Live, FindSession
  <2>4. CASE f # "callee"
    BY <1>0, <2>1, <2>2, <2>3, <2>4, EndSame DEF Same, TypeOK
  <2>5. CASE f = "callee"
    BY <1>0, <2>1, <2>2, <2>3, <2>5 DEF TypeOK, EndInv, Live, HasChannels, Accepted, Rejected, Terminating
  <2>. QED
    BY <2>4, <2>5
<1>4. ASSUME NEW e \in Endpoint, Terminate(e) PROVE EndInv(f)'
  <2>1. e \in Endpoint /\ Post(e, <<"STATE">>)
    BY <1>4 DEF Terminate, TerminateWithReason, Post, Endpoint
  <2>2. /\ \A x : Has(posted'[e], x) <=> Has(posted[e], x) \/ x = "STATE"
        /\ \A g \in Endpoint : g # e => posted'[g] = posted[g]
    BY <1>b, <2>1, PostOne
  <2>3. /\ state' = [state EXCEPT ![e] = "SENTTERMINATE"]
        /\ UNCHANGED <<error, timer, tproxy, channel, connreq, conn, writable>>
    BY <1>4, <1>c DEF Terminate, TerminateWithReason, Post, tvars, IdleInv, Live, FindSession
  <2>4. CASE f # e
    BY <1>0, <2>1, <2>2, <2>3, <2>4, EndSame DEF Same, TypeOK
  <2>5. CASE f = e
    BY <1>0, <2>1, <2>2, <2>3, <2>5 DEF TypeOK, EndInv, Live, HasChannels, Accepted, Rejected, Terminating
  <2>. QED
    BY <2>4, <2>5
<1>5. ASSUME NEW e \in Endpoint, CloseUnconnected(e) PROVE EndInv(f)'
  <2>1. PICK ms : Destroy(e, ms)
    BY <1>5 DEF CloseUnconnected
  <2>. QED
    BY <1>0, <2>1, DestroyEnd
<1>6. ASSUME NEW e \in Endpoint, Shutdown(e) PROVE EndInv(f)'
  <2>1. PICK ms : Destroy(e, ms)
    BY <1>6 DEF Shutdown
  <2>. QED
    BY <1>0, <2>1, DestroyEnd
<1>7. ASSUME NEW e \in Endpoint, SendInfoMessage(e) PROVE EndInv(f)'
  BY <1>0, <1>7, EndSame DEF Same, SendInfoMessage, tvars, wire, bounds
<1>8. ASSUME NEW e \in Endpoint, OnState(e) PROVE EndInv(f)'
  <2>. DEFINE q == Tail(posted[e])
  <2>1. q \in Seq(Message) /\ \A x : Has(posted[e], x) /\ x # "STATE" => Has(q, x)
    BY <1>0, <1>8, HasTail DEF OnState
  <2>2. \A x : Has(q \o <<"STATE">>, x) <=> Has(q, x) \/ x = "STATE"
    BY <1>b, <2>1, HasPosted
  <2>3. CASE OnStateAccepted(e)
    <3>1. /\ state' = [state EXCEPT ![e] = "INPROGRESS"] /\ state[e] \in Accepted
          /\ posted' = [posted EXCEPT ![e] = q \o <<"STATE">>]
          /\ UNCHANGED <<error, timer, tproxy, channel, connreq, conn, writable>>
      BY <2>3 DEF OnStateAccepted, tvars
    <3>2. CASE f # e
      BY <1>0, <3>1, <3>2, EndSame DEF Same, TypeOK
    <3>3. CASE f = e
      BY <1>0, <2>1, <2>2, <3>1, <3>3 DEF TypeOK, EndInv, Live, HasChannels, Accepted, Rejected, Terminating
    <3>. QED
      BY <3>2, <3>3
  <2>4. CASE OnStateRejected(e)
    <3>1. /\ state' = [state EXCEPT ![e] = "SENTTERMINATE"] /\ state[e] \in Rejected
          /\ posted' = [posted EXCEPT ![e] = q \o <<"STATE">>]
          /\ UNCHANGED <<error, timer, tproxy, channel, connreq, conn, writable>>
      BY <2>4 DEF OnStateRejected, TerminateWithReason, tvars
    <3>2. CASE f # e
      BY <1>0, <3>1, <3>2, EndSame DEF Same, TypeOK
    <3>3. CASE f = e
      BY <1>0, <2>1, <2>2, <3>1, <3>3 DEF TypeOK, EndInv, Live, HasChannels, Accepted, Rejected, Terminating
    <3>. QED
      BY <3>2, <3>3
  <2>5. CASE OnStateTerminating(e)
    BY <1>0, <2>5, DestroyEnd DEF OnStateTerminating
  <2>6. CASE OnStateOther(e)
    <3>1. /\ state[e] \notin Accepted \cup Rejected \cup Terminating
          /\ posted' = [posted EXCEPT ![e] = q]
          /\ UNCHANGED <<state, error, timer, tproxy, channel, connreq, conn, writable>>
      BY <2>6 DEF OnStateOther, tvars
    <3>2. CASE f # e
      BY <1>0, <3>1, <3>2, EndSame DEF Same, TypeOK
    <3>3. CASE f = e
      BY <1>0, <2>1, <3>1, <3>3 DEF TypeOK, EndInv, Live, HasChannels, Accepted, Rejected, Terminating
    <3>. QED
      BY <3>2, <3>3
  <2>. QED
    BY <1>8, <2>3, <2>4, <2>5, <2>6 DEF OnState
<1>9. ASSUME NEW e \in Endpoint, OnError(e) PROVE EndInv(f)'
  <2>. DEFINE q == Tail(posted[e])
  <2>1. q \in Seq(Message) /\ \A x : Has(posted[e], x) /\ x # "ERROR" => Has(q, x)
    BY <1>0, <1>9, HasTail DEF OnError
  <2>2. \A x : Has(q \o <<"STATE">>, x) <=> Has(q, x) \/ x = "STATE"
    BY <1>b, <2>1, HasPosted
  <2>3. CASE state[e] \in Terminating
    <3>1. /\ posted' = [posted EXCEPT ![e] = q]
          /\ UNCHANGED <<state, error, timer, tproxy, channel, connreq, conn, writable>>
      BY <1>9, <2>3 DEF OnError, tvars
    <3>2. CASE f # e
      BY <1>0, <3>1, <3>2, EndSame DEF Same, TypeOK
    <3>3. CASE f = e
      BY <1>0, <2>1, <2>3, <3>1, <3>3 DEF TypeOK, EndInv, Live, HasChannels, Accepted, Rejected, Terminating
    <3>. QED
      BY <3>2, <3>3
  <2>4. CASE state[e] \notin Terminating
    <3>1. /\ state' = [state EXCEPT ![e] = "SENTTERMINATE"]
          /\ posted' = [posted EXCEPT ![e] = q \o <<"STATE">>]
          /\ UNCHANGED <<error, timer, tproxy, channel, connreq, conn, writable>>
      BY <1>9, <2>4 DEF OnError, TerminateWithReason, tvars
    <3>2. CASE f # e
      BY <1>0, <3>1, <3>2, EndSame DEF Same, TypeOK
    <3>3. CASE f = e
      BY <1>0, <2>1, <2>2, <3>1, <3>3 DEF TypeOK, EndInv, Live, HasChannels, Accepted, Rejected, Terminating
    <3>. QED
      BY <3>2, <3>3
  <2>. QED
    BY <2>3, <2>4
<1>10. ASSUME NEW e \in Endpoint, OnConnecting(e) PROVE EndInv(f)'
  <2>. DEFINE q == Tail(posted[e])
  <2>1. q \in Seq(Message) /\ \A x : Has(posted[e], x) /\ x # "CONNECTING" => Has(q, x)
    BY <1>0, <1>10, HasTail DEF OnConnecting
  <2>2. /\ posted' = [posted EXCEPT ![e] = q]
        /\ timer' = IF HasChannels(e) /\ e \notin writable THEN timer \cup {e} ELSE timer \ {e}
        /\ UNCHANGED <<state, error, tproxy, channel, connreq, conn, writable>>
    BY <1>10 DEF OnConnecting, OnTransportWritable, tvars
  <2>3. CASE f # e
    BY <1>0, <2>2, <2>3, EndSame DEF Same
  <2>4. CASE f = e
    BY <1>0, <2>1, <2>2, <2>4 DEF EndInv, Live, HasChannels
  <2>. QED
    BY <2>3, <2>4
<1>11. ASSUME NEW e \in Endpoint, OnWriteState(e) PROVE EndInv(f)'
  <2>. DEFINE q == Tail(posted[e])
  <2>1. q \in Seq(Message) /\ \A x : Has(posted[e], x) /\ x # "WRITESTATE" => Has(q, x)
    BY <1>0, <1>11, HasTail DEF OnWriteState
  <2>2. /\ posted' = [posted EXCEPT ![e] = q]
        /\ writable' = IF e \in conn THEN writable \cup {e} ELSE writable \ {e}
        /\ UNCHANGED <<state, error, tproxy, channel, connreq, conn>>
    BY <1>11 DEF OnWriteState
  <2>3. IF writable' # writable
          THEN timer' = IF HasChannels(e) /\ e \notin conn THEN timer \cup {e} ELSE timer \ {e}
          ELSE timer' = timer
    BY <1>11 DEF OnWriteState, OnTransportWritable
  <2>4. CASE f # e
    BY <1>0, <2>2, <2>3, <2>4, EndSame DEF Same
  <2>5. CASE f = e
    BY <1>0, <2>1, <2>2, <2>3, <2>5 DEF EndInv, Live, HasChannels
  <2>. QED
    BY <2>4, <2>5
<1>12. ASSUME NEW e \in Endpoint, OnTimeout(e) PROVE EndInv(f)'
  <2>1. e \in Endpoint /\ Post(e, <<"ERROR">>)
    BY <1>12 DEF OnTimeout, SetError, Endpoint
  <2>2. /\ \A x : Has(posted'[e], x) <=> Has(posted[e], x) \/ x = "ERROR"
        /\ \A g \in Endpoint : g # e => posted'[g] = posted[g]
    BY <1>b, <2>1, PostOne
  <2>3. /\ timer' = timer \ {e} /\ error' = [error EXCEPT ![e] = "TIME"]
        /\ state[e] # "NONE"
        /\ UNCHANGED <<state, tproxy, channel, connreq, conn, writable>>
    BY <1>12, <1>c DEF OnTimeout, SetError, tvars, IdleInv, Live, FindSession
  <2>4. CASE f # e
    BY <1>0, <2>1, <2>2, <2>3, <2>4, EndSame DEF Same, TypeOK
  <2>5. CASE f = e
    BY <1>0, <2>1, <2>2, <2>3, <2>5 DEF TypeOK, EndInv, Live, HasChannels, Accepted, Rejected, Terminating
  <2>. QED
    BY <2>4, <2>5
<1>13. ASSUME NEW e \in Endpoint, NEW c \in Cand, CandidatesReady(e, c) PROVE EndInv(f)'
  BY <1>0, <1>13, EndSame DEF Same, CandidatesReady, tvars, wire, bounds
<1>14. ASSUME NEW e \in Endpoint, ChannelWritable(e) PROVE EndInv(f)'
  <2>1. e \in Endpoint /\ Post(e, <<"WRITESTATE">>)
    BY <1>14 DEF ChannelWritable, Endpoint
  <2>2. /\ \A x : Has(posted'[e], x) <=> Has(posted[e], x) \/ x = "WRITESTATE"
        /\ \A g \in Endpoint : g # e => posted'[g] = posted[g]
    BY <1>b, <2>1, PostOne
  <2>3. /\ conn' = conn \cup {e}
        /\ UNCHANGED <<state, error, timer, tproxy, channel, connreq, writable>>
    BY <1>14, <1>c DEF ChannelWritable, tvars, IdleInv, Live, FindSession
  <2>4. CASE f # e
    BY <1>0, <2>1, <2>2, <2>3, <2>4, EndSame DEF Same, TypeOK
  <2>5. CASE f = e
    BY <1>0, <2>1, <2>2, <2>3, <2>5 DEF TypeOK, EndInv, Live, HasChannels, Accepted, Rejected, Terminating
  <2>. QED
    BY <2>4, <2>5
<1>15. ASSUME NEW e \in Endpoint, ChannelUnwritable(e) PROVE EndInv(f)'
  <2>1. e \in Endpoint /\ Post(e, <<"WRITESTATE">>)
    BY <1>15 DEF ChannelUnwritable, Endpoint
  <2>2. /\ \A x : Has(posted'[e], x) <=> Has(posted[e], x) \/ x = "WRITESTATE"
        /\ \A g \in Endpoint : g # e => posted'[g] = posted[g]
    BY <1>b, <2>1, PostOne
  <2>3. /\ conn' = conn \ {e}
        /\ UNCHANGED <<state, error, timer, tproxy, channel, connreq, writable>>
    BY <1>15, <1>c DEF ChannelUnwritable, tvars, IdleInv, Live, FindSession
  <2>4. CASE f # e
    BY <1>0, <2>1, <2>2, <2>3, <2>4, EndSame DEF Same, TypeOK
  <2>5. CASE f = e
    BY <1>0, <2>1, <2>2, <2>3, <2>5 DEF TypeOK, EndInv, Live, HasChannels, Accepted, Rejected, Terminating
  <2>. QED
    BY <2>4, <2>5
<1>16. ASSUME NEW m \in net, NEW r \in {"none", "accept", "reject"}, m.kind = "set", OnInitiateMessage(m, r)
       PROVE  EndInv(f)'
  <2>. DEFINE e == "callee"
              msgs == IF r = "none" THEN <<"STATE">> ELSE <<"STATE", "STATE">>
              chan == Early \/ r = "accept"
  <2>1. e \in Endpoint /\ chan \in BOOLEAN /\ msgs \in Seq(Message) /\ Has(msgs, "STATE")
    <3>1. e \in Endpoint /\ chan \in BOOLEAN
      BY Zenon DEF Endpoint
    <3>. QED
      BY <1>a, <1>b, <3>1, HasListed
  <2>2. state[e] = "NONE"
    BY <1>16 DEF OnInitiateMessage, CallInv, OfferInv, Offer
  <2>3. e \notin connreq /\ e \notin conn /\ e \notin writable
    BY <1>c, <2>1, <2>2 DEF IdleInv, Live
  <2>4. /\ state' = [state EXCEPT ![e] = IF r = "accept" THEN "SENTACCEPT"
                                          ELSE IF r = "reject" THEN "SENTREJECT"
                                          ELSE "RECEIVEDINITIATE"]
        /\ error' = [error EXCEPT ![e] = "NONE"]
        /\ channel' = IF chan THEN channel \cup {e} ELSE channel
        /\ UNCHANGED <<timer, conn, writable>>
    BY <1>16 DEF OnInitiateMessage
  <2>5. CASE r = "reject"
    <3>1. /\ tproxy' = [tproxy EXCEPT ![e] = "INIT"]
          /\ Post(e, msgs) /\ connreq' = connreq
      BY <1>16, <2>5 DEF OnInitiateMessage
    <3>2. /\ Has(posted'[e], "STATE")
          /\ \A g \in Endpoint : g # e => posted'[g] = posted[g]
      BY <2>1, <3>1, PostHas
    <3>3. CASE f # e
      BY <1>0, <2>4, <3>1, <3>2, <3>3, EndSame DEF Same
    <3>4. CASE f = e
      BY <2>1, <2>3, <2>4, <3>1, <3>2, <3>4 DEF TypeOK, EndInv, Live
    <3>. QED
      BY <3>3, <3>4
  <2>6. CASE r # "reject"
    <3>0. CompleteNegotiation(e, chan, msgs)
      BY <1>16, <2>6 DEF OnInitiateMessage
    <3>1. /\ \A x : Has(posted[e], x) \/ Has(msgs, x) => Has(posted'[e], x)
          /\ \A g \in Endpoint : g # e => posted'[g] = posted[g]
          /\ connreq' = connreq \/ (chan /\ connreq' = connreq \cup {e})
          /\ e \in connreq' => e \in connreq \/ Has(posted'[e], "CONNECTING")
          /\ tproxy' = [tproxy EXCEPT ![e] = "NEGOTIATED"]
      BY <2>1, <3>0, NegotiationHas
    <3>3. CASE f # e
      BY <1>0, <2>4, <3>1, <3>3, EndSame DEF Same
    <3>4. CASE f = e
      BY <2>1, <2>3, <2>4, <3>1, <3>4 DEF TypeOK, EndInv, Live, HasChannels
    <3>. QED
      BY <3>3, <3>4
  <2>. QED
    BY <2>5, <2>6
<1>17. ASSUME NEW m \in net, OnAcceptMessage(m) PROVE EndInv(f)'
  <2>. DEFINE e == "caller"
  <2>1. e \in Endpoint /\ TRUE \in BOOLEAN
    BY DEF Endpoint
  <2>2. /\ state' = [state EXCEPT ![e] = "RECEIVEDACCEPT"] /\ state[e] = "SENTINITIATE"
        /\ channel' = channel \cup {e}
        /\ CompleteNegotiation(e, TRUE, <<"STATE">>)
        /\ UNCHANGED <<error, timer, conn, writable>>
    BY <1>17 DEF OnAcceptMessage
  <2>3. Has(<<"STATE">>, "STATE") /\ <<"STATE">> \in Seq(Message)
    BY <1>a, <1>b, HasListed
  <2>4. /\ Has(posted'[e], "STATE") /\ \A x : Has(posted[e], x) => Has(posted'[e], x)
        /\ \A g \in Endpoint : g # e => posted'[g] = posted[g]
        /\ connreq' = connreq \/ connreq' = connreq \cup {e}
        /\ e \in connreq' => e \in connreq \/ Has(posted'[e], "CONNECTING")
        /\ tproxy' = [tproxy EXCEPT ![e] = "NEGOTIATED"]
    BY <2>1, <2>2, <2>3, NegotiationHas
  <2>5. CASE f # e
    BY <1>0, <2>2, <2>4, <2>5, EndSame DEF Same
  <2>6. CASE f = e
    BY <1>0, <2>1, <2>2, <2>4, <2>6 DEF TypeOK, EndInv, Live, HasChannels, Terminating
  <2>. QED
    BY <2>5, <2>6
<1>18. ASSUME NEW m \in net, OnRejectMessage(m) PROVE EndInv(f)'
  <2>1. "caller" \in Endpoint /\ Post("caller", <<"STATE">>)
    BY <1>18 DEF OnRejectMessage, Endpoint
  <2>2. /\ \A x : Has(posted'["caller"], x) <=> Has(posted["caller"], x) \/ x = "STATE"
        /\ \A g \in Endpoint : g # "caller" => posted'[g] = posted[g]
    BY <1>b, <2>1, PostOne
  <2>3. /\ state' = [state EXCEPT !["caller"] = "RECEIVEDREJECT"] /\ state["caller"] = "SENTINITIATE"
        /\ UNCHANGED <<error, timer, tproxy, channel, connreq, conn, writable>>
    BY <1>18, <1>c DEF OnRejectMessage, tvars, IdleInv, Live, FindSession
  <2>4. CASE f # "caller"
    BY <1>0, <2>1, <2>2, <2>3, <2>4, EndSame DEF Same, TypeOK
  <2>5. CASE f = "caller"
    BY <1>0, <2>1, <2>2, <2>3, <2>5 DEF TypeOK, EndInv, Live, HasChannels, Accepted, Rejected, Terminating
  <2>. QED
    BY <2>4, <2>5
<1>19. ASSUME NEW e \in Endpoint, NEW m \in net, OnTerminateMessage(e, m) PROVE EndInv(f)'
  <2>. DEFINE msgs == IF state[e] = "RECEIVEDTERMINATE" THEN <<>> ELSE <<"STATE">>
  <2>1. msgs \in Seq(Message) /\ Post(e, msgs)
    BY <1>19, <1>a, <1>b DEF OnTerminateMessage
  <2>2. /\ \A x : Has(posted'[e], x) <=> Has(posted[e], x) \/ Has(msgs, x)
        /\ \A g \in Endpoint : g # e => posted'[g] = posted[g]
    BY <2>1, PostHas
  <2>3. /\ state' = [state EXCEPT ![e] = "RECEIVEDTERMINATE"] /\ Live(e)
        /\ UNCHANGED <<error, timer, tproxy, channel, connreq, conn, writable>>
    BY <1>19 DEF OnTerminateMessage, FindSession, tvars
  <2>4. CASE f # e
    BY <1>0, <2>2, <2>3, <2>4, EndSame DEF Same
  <2>5. CASE f = e
    <3>1. Has(posted'[e], "STATE")
      BY <1>0, <2>2, <2>5, HasListed DEF EndInv, Terminating
    <3>. QED
      BY <1>0, <2>2, <2>3, <2>5, <3>1 DEF TypeOK, EndInv, Live, HasChannels, Terminating
  <2>. QED
    BY <2>4, <2>5
<1>20. ASSUME NEW e \in Endpoint, NEW m \in net, OnInfoMessage(e, m) PROVE EndInv(f)'
  BY <1>0, <1>20, EndSame DEF Same, OnInfoMessage, tvars, wire, bounds
<1>21. ASSUME NEW e \in Endpoint, NEW m \in net, OnTransportInfoMessage(e, m) PROVE EndInv(f)'
  <2>1. (e \in channel) \in BOOLEAN /\ CompleteNegotiation(e, e \in channel, <<>>)
    BY <1>21 DEF OnTransportInfoMessage
  <2>2. /\ \A x : Has(posted[e], x) => Has(posted'[e], x)
        /\ \A g \in Endpoint : g # e => posted'[g] = posted[g]
        /\ connreq' = connreq \/ (e \in channel /\ connreq' = connreq \cup {e})
        /\ e \in connreq' => e \in connreq \/ Has(posted'[e], "CONNECTING")
        /\ tproxy' = [tproxy EXCEPT ![e] = "NEGOTIATED"]
    BY <1>a, <2>1, NegotiationHas
  <2>3. UNCHANGED <<state, error, timer, channel, conn, writable>>
    BY <1>21 DEF OnTransportInfoMessage
  <2>4. CASE f # e
    BY <1>0, <2>2, <2>3, <2>4, EndSame DEF Same
  <2>5. CASE f = e
    BY <1>0, <2>2, <2>3, <2>5 DEF TypeOK, EndInv, Live, HasChannels
  <2>. QED
    BY <2>4, <2>5
<1>22. ASSUME NEW e \in Endpoint, NEW m \in net, OnRefusedMessage(e, m) PROVE EndInv(f)'
  BY <1>0, <1>22, EndSame DEF Same, OnRefusedMessage, tvars, wire, bounds
<1>23. ASSUME NEW m \in net, OnIncomingResponse(m) PROVE EndInv(f)'
  BY <1>0, <1>23, EndSame DEF Same, OnIncomingResponse, tvars, wire, bounds
<1>24. ASSUME NEW m \in net, OnErrorResponse(m) PROVE EndInv(f)'
  <2>1. Request(m) \in tasks /\ m.to = Request(m).from
    BY <1>24 DEF OnErrorResponse, Request, Reply
  <2>2. m.to \in Endpoint
    BY <2>1 DEF TypeOK, IqSet
  <2>. QED
    BY <1>0, <1>24, <2>2, FailedSendEnd DEF OnErrorResponse
<1>25. ASSUME NEW m \in net, NEW kind \in ErrorKind, Redirect(m, kind) PROVE EndInv(f)'
  BY <1>0, <1>25, EndSame DEF Same, Redirect, tvars, wire, bounds
<1>26. ASSUME NEW m \in net, Lose(m) PROVE EndInv(f)'
  BY <1>0, <1>26, EndSame DEF Same, Lose, Fault, tvars, wire, bounds
<1>27. ASSUME NEW m \in net, NEW kind \in ErrorKind, Bounce(m, kind) PROVE EndInv(f)'
  BY <1>0, <1>27, EndSame DEF Same, Bounce, Fault, tvars, wire, bounds
<1>28. ASSUME NEW t \in tasks, OnSendTimeout(t) PROVE EndInv(f)'
  <2>1. t.from \in Endpoint
    BY DEF TypeOK, IqSet
  <2>. QED
    BY <1>0, <1>28, <2>1, FailedSendEnd DEF OnSendTimeout
<1>29. CASE UNCHANGED vars
  BY <1>0, <1>29, EndSame DEF Same, vars, tvars
<1>. QED
  BY <1>1, <1>2, <1>3, <1>4, <1>5, <1>6, <1>7, <1>8, <1>9, <1>10, <1>11, <1>12,
     <1>13, <1>14, <1>15, <1>16, <1>17, <1>18, <1>19, <1>20, <1>21, <1>22, <1>23, <1>24,
     <1>25, <1>26, <1>27, <1>28, <1>29
  DEF Next, Client, SignalingThread, Receive, ReceiveSet, ErrorKind

(* A session that must move on always has its MSG_STATE queued, a failed    *)
(* one its MSG_ERROR, and a connecting one its timeout, in every reachable  *)
(* state of two endpoints of session.cc.                                    *)
THEOREM QueueInvariant == Spec => []QueueInv
BY TypeInit, TypeNext, CallInit, CallNext, QueueInit, QueueNext, PTL DEF Spec

(* No session sticks half-way: BaseSession::OnMessage has still to hear of  *)
(* every accepted, rejected or terminating state.                           *)
THEOREM TransientPosted == Spec => []TransientIsPosted
<1>1. QueueInv => TransientIsPosted
  BY DEF QueueInv
<1>. QED
  BY <1>1, QueueInvariant, PTL

(* No error is lost between Session::SetError and the MSG_ERROR that ends   *)
(* the session.                                                             *)
THEOREM ErrorsHandled == Spec => []ErrorNotForgotten
<1>1. QueueInv => ErrorNotForgotten
  BY DEF QueueInv
<1>. QED
  BY <1>1, QueueInvariant, PTL

(* A session that waits for its transport is never without its timeout,     *)
(* however the worker's channel flaps between two MSG_WRITESTATE.           *)
THEOREM WatchdogHolds == Spec => []Watchdog
<1>1. QueueInv => Watchdog
  BY DEF QueueInv, WatchInv, Watchdog
<1>. QED
  BY <1>1, QueueInvariant, PTL

-----------------------------------------------------------------------------
(* One step never revives a terminating or a destroyed session.             *)
LEMMA FinalStep ==
  ASSUME TypeOK, CallInv, [Next]_vars, NEW e \in Endpoint
  PROVE  /\ state[e] = "DEINIT" => state'[e] = "DEINIT"
         /\ state[e] \in Terminating => state'[e] \in Terminating \cup {"DEINIT"}
<1>. DEFINE Final == /\ state[e] = "DEINIT" => state'[e] = "DEINIT"
                     /\ state[e] \in Terminating => state'[e] \in Terminating \cup {"DEINIT"}
<1>. USE DEF TypeOK, Endpoint, Live, FindSession, Terminating, Accepted, Rejected
<1>1. ASSUME NEW to \in Name, Initiate(to) PROVE Final
  BY <1>1 DEF Initiate
<1>2. ASSUME Accept PROVE Final
  BY <1>2 DEF Accept
<1>3. ASSUME Reject PROVE Final
  BY <1>3 DEF Reject
<1>4. ASSUME NEW x \in Endpoint, Terminate(x) PROVE Final
  BY <1>4 DEF Terminate, TerminateWithReason
<1>5. ASSUME NEW x \in Endpoint, CloseUnconnected(x) PROVE Final
  BY <1>5 DEF CloseUnconnected, Destroy
<1>6. ASSUME NEW x \in Endpoint, Shutdown(x) PROVE Final
  BY <1>6 DEF Shutdown, Destroy
<1>7. ASSUME NEW x \in Endpoint, SendInfoMessage(x) PROVE Final
  BY <1>7 DEF SendInfoMessage
<1>8. ASSUME NEW x \in Endpoint, OnState(x) PROVE Final
  BY <1>8 DEF OnState, OnStateAccepted, OnStateRejected, OnStateTerminating,
         OnStateOther, Destroy, TerminateWithReason
<1>9. ASSUME NEW x \in Endpoint, OnError(x) PROVE Final
  BY <1>9 DEF OnError, TerminateWithReason, CallInv, IdleInv
<1>10. ASSUME NEW x \in Endpoint, OnConnecting(x) PROVE Final
  BY <1>10 DEF OnConnecting
<1>11. ASSUME NEW x \in Endpoint, OnWriteState(x) PROVE Final
  BY <1>11 DEF OnWriteState
<1>12. ASSUME NEW x \in Endpoint, OnTimeout(x) PROVE Final
  BY <1>12 DEF OnTimeout
<1>13. ASSUME NEW x \in Endpoint, NEW c \in Cand, CandidatesReady(x, c) PROVE Final
  BY <1>13 DEF CandidatesReady
<1>14. ASSUME NEW x \in Endpoint, ChannelWritable(x) PROVE Final
  BY <1>14 DEF ChannelWritable
<1>15. ASSUME NEW x \in Endpoint, ChannelUnwritable(x) PROVE Final
  BY <1>15 DEF ChannelUnwritable
<1>16. ASSUME NEW m \in net, NEW r \in {"none", "accept", "reject"}, m.kind = "set", OnInitiateMessage(m, r) PROVE Final
  BY <1>16 DEF OnInitiateMessage, CallInv, OfferInv, Offer
<1>17. ASSUME NEW m \in net, OnAcceptMessage(m) PROVE Final
  BY <1>17 DEF OnAcceptMessage
<1>18. ASSUME NEW m \in net, OnRejectMessage(m) PROVE Final
  BY <1>18 DEF OnRejectMessage
<1>19. ASSUME NEW x \in Endpoint, NEW m \in net, OnTerminateMessage(x, m) PROVE Final
  BY <1>19 DEF OnTerminateMessage
<1>20. ASSUME NEW x \in Endpoint, NEW m \in net, OnInfoMessage(x, m) PROVE Final
  BY <1>20 DEF OnInfoMessage
<1>21. ASSUME NEW x \in Endpoint, NEW m \in net, OnTransportInfoMessage(x, m) PROVE Final
  BY <1>21 DEF OnTransportInfoMessage
<1>22. ASSUME NEW x \in Endpoint, NEW m \in net, OnRefusedMessage(x, m) PROVE Final
  BY <1>22 DEF OnRefusedMessage
<1>23. ASSUME NEW m \in net, OnIncomingResponse(m) PROVE Final
  BY <1>23 DEF OnIncomingResponse
<1>24. ASSUME NEW m \in net, OnErrorResponse(m) PROVE Final
  BY <1>24 DEF OnErrorResponse, OnFailedSend
<1>25. ASSUME NEW m \in net, NEW kind \in ErrorKind, Redirect(m, kind) PROVE Final
  BY <1>25 DEF Redirect
<1>26. ASSUME NEW m \in net, Lose(m) PROVE Final
  BY <1>26 DEF Lose, Fault
<1>27. ASSUME NEW m \in net, NEW kind \in ErrorKind, Bounce(m, kind) PROVE Final
  BY <1>27 DEF Bounce, Fault
<1>28. ASSUME NEW t \in tasks, OnSendTimeout(t) PROVE Final
  BY <1>28 DEF OnSendTimeout, OnFailedSend
<1>29. CASE UNCHANGED vars
  BY <1>29 DEF vars
<1>. QED
  BY <1>1, <1>2, <1>3, <1>4, <1>5, <1>6, <1>7, <1>8, <1>9, <1>10, <1>11, <1>12,
     <1>13, <1>14, <1>15, <1>16, <1>17, <1>18, <1>19, <1>20, <1>21, <1>22, <1>23, <1>24,
     <1>25, <1>26, <1>27, <1>28, <1>29
  DEF Next, Client, SignalingThread, Receive, ReceiveSet, ErrorKind

(* No late accept, redirect, error or initiate revives a session that has   *)
(* terminated or was destroyed.                                             *)
THEOREM TerminationFinal == Spec => TerminationIsFinal
<1>1. TypeOK /\ CallInv /\ [Next]_vars =>
        [\A e \in Endpoint :
           /\ state[e] = "DEINIT" => state'[e] = "DEINIT"
           /\ state[e] \in Terminating => state'[e] \in Terminating \cup {"DEINIT"}]_vars
  BY FinalStep
<1>. QED
  BY <1>1, TypeInit, TypeNext, CallInit, CallNext, PTL DEF Spec, TerminationIsFinal

-----------------------------------------------------------------------------
(* Initially nothing has been sent.                                         *)
LEMMA HeldInit == Init => HeldInv
BY DEF Init, HeldInv, Endpoint

(* Every step keeps the caller's candidates back until the callee knows the *)
(* session.                                                                 *)
LEMMA HeldNext == TypeOK /\ CallInv /\ HeldInv /\ [Next]_vars => HeldInv'
<1>. SUFFICES ASSUME TypeOK, CallInv, HeldInv, [Next]_vars, state'["callee"] = "NONE"
              PROVE  HeldInv'
  BY DEF HeldInv
<1>. USE StanzaFields
     DEF HeldInv, CallInv, OfferInv, AnswerInv, IdleInv, Offer, TypeOK, tvars,
         cvars, wire, bounds, Send, Waiting, Endpoint, Live, FindSession,
         Terminating, Accepted, Rejected
<1>1. ASSUME NEW to \in Name, Initiate(to) PROVE HeldInv'
  BY <1>1 DEF Initiate
<1>2. ASSUME Accept PROVE HeldInv'
  BY <1>2 DEF Accept
<1>3. ASSUME Reject PROVE HeldInv'
  BY <1>3 DEF Reject
<1>4. ASSUME NEW x \in Endpoint, Terminate(x) PROVE HeldInv'
  BY <1>4 DEF Terminate, TerminateWithReason, TerminateIq
<1>5. ASSUME NEW x \in Endpoint, CloseUnconnected(x) PROVE HeldInv'
  BY <1>5 DEF CloseUnconnected, Destroy, TerminateIq
<1>6. ASSUME NEW x \in Endpoint, Shutdown(x) PROVE HeldInv'
  BY <1>6 DEF Shutdown, Destroy
<1>7. ASSUME NEW x \in Endpoint, SendInfoMessage(x) PROVE HeldInv'
  BY <1>7 DEF SendInfoMessage
<1>8. ASSUME NEW x \in Endpoint, OnState(x) PROVE HeldInv'
  BY <1>8 DEF OnState, OnStateAccepted, OnStateRejected, OnStateTerminating,
         OnStateOther, Destroy, TerminateWithReason, TerminateIq
<1>9. ASSUME NEW x \in Endpoint, OnError(x) PROVE HeldInv'
  BY <1>9 DEF OnError, TerminateWithReason, TerminateIq
<1>10. ASSUME NEW x \in Endpoint, OnConnecting(x) PROVE HeldInv'
  BY <1>10 DEF OnConnecting
<1>11. ASSUME NEW x \in Endpoint, OnWriteState(x) PROVE HeldInv'
  BY <1>11 DEF OnWriteState
<1>12. ASSUME NEW x \in Endpoint, OnTimeout(x) PROVE HeldInv'
  BY <1>12 DEF OnTimeout
<1>13. ASSUME NEW x \in Endpoint, NEW c \in Cand, CandidatesReady(x, c) PROVE HeldInv'
  BY <1>13 DEF CandidatesReady
<1>14. ASSUME NEW x \in Endpoint, ChannelWritable(x) PROVE HeldInv'
  BY <1>14 DEF ChannelWritable
<1>15. ASSUME NEW x \in Endpoint, ChannelUnwritable(x) PROVE HeldInv'
  BY <1>15 DEF ChannelUnwritable
<1>16. ASSUME NEW m \in net, NEW r \in {"none", "accept", "reject"}, m.kind = "set", OnInitiateMessage(m, r) PROVE HeldInv'
  BY <1>16 DEF OnInitiateMessage, Answer
<1>17. ASSUME NEW m \in net, m.kind = "set", OnAcceptMessage(m) PROVE HeldInv'
  BY <1>17 DEF OnAcceptMessage, OnInitiateAcked, FlushedIqs, Answer
<1>18. ASSUME NEW m \in net, OnRejectMessage(m) PROVE HeldInv'
  BY <1>18 DEF OnRejectMessage, Answer
<1>19. ASSUME NEW x \in Endpoint, NEW m \in net, OnTerminateMessage(x, m) PROVE HeldInv'
  BY <1>19 DEF OnTerminateMessage, Answer
<1>20. ASSUME NEW x \in Endpoint, NEW m \in net, OnInfoMessage(x, m) PROVE HeldInv'
  BY <1>20 DEF OnInfoMessage, Answer
<1>21. ASSUME NEW x \in Endpoint, NEW m \in net, OnTransportInfoMessage(x, m) PROVE HeldInv'
  BY <1>21 DEF OnTransportInfoMessage, Answer
<1>22. ASSUME NEW x \in Endpoint, NEW m \in net, OnRefusedMessage(x, m) PROVE HeldInv'
  BY <1>22 DEF OnRefusedMessage, Answer
<1>23. ASSUME NEW m \in net, OnIncomingResponse(m) PROVE HeldInv'
  BY <1>23 DEF OnIncomingResponse, OnInitiateAcked, FlushedIqs, Request
<1>24. ASSUME NEW m \in net, OnErrorResponse(m) PROVE HeldInv'
  BY <1>24 DEF OnErrorResponse, OnFailedSend, OnRedirect, Request
<1>25. ASSUME NEW m \in net, NEW kind \in ErrorKind, Redirect(m, kind) PROVE HeldInv'
  BY <1>25 DEF Redirect, Answer
<1>26. ASSUME NEW m \in net, Lose(m) PROVE HeldInv'
  BY <1>26 DEF Lose, Fault
<1>27. ASSUME NEW m \in net, NEW kind \in ErrorKind, Bounce(m, kind) PROVE HeldInv'
  BY <1>27 DEF Bounce, Fault
<1>28. ASSUME NEW t \in tasks, OnSendTimeout(t) PROVE HeldInv'
  BY <1>28 DEF OnSendTimeout, OnFailedSend, OnRedirect
<1>29. CASE UNCHANGED vars
  BY <1>29 DEF vars
<1>. QED
  BY <1>1, <1>2, <1>3, <1>4, <1>5, <1>6, <1>7, <1>8, <1>9, <1>10, <1>11, <1>12,
     <1>13, <1>14, <1>15, <1>16, <1>17, <1>18, <1>19, <1>20, <1>21, <1>22, <1>23, <1>24,
     <1>25, <1>26, <1>27, <1>28, <1>29
  DEF Next, Client, SignalingThread, Receive, ReceiveSet, ErrorKind

(* The work-around for the server's re-ordering works: no transport-info of *)
(* the caller can overtake its initiate.                                    *)
THEOREM CandidatesHeldBack == Spec => []NoEarlyCandidates
<1>1. HeldInv => NoEarlyCandidates
  BY DEF HeldInv, NoEarlyCandidates
<1>. QED
  BY <1>1, TypeInit, TypeNext, CallInit, CallNext, HeldInit, HeldNext, PTL DEF Spec

-----------------------------------------------------------------------------
(* The candidates of a request and of its answer.                           *)
LEMMA StanzaCands ==
  /\ \A e, to, act, cs : Iq(e, to, act, cs).cands = cs
  /\ \A m, kind : Reply(m, kind).cands = m.cands
BY DEF Iq, Reply

(* Initially nothing is in flight, and nobody has a channel.                *)
LEMMA RouteInit == Init => RouteInv /\ ChannelInv /\ KeptInv
BY DEF Init, RouteInv, ChannelInv, KeptInv, Kept, Endpoint, Live, Peer

(* Every step addresses candidates to the peer, whose session answers to    *)
(* that address.                                                            *)
LEMMA RouteNext == TypeOK /\ CallInv /\ HeldInv /\ RouteInv /\ [Next]_vars => RouteInv'
<1>. SUFFICES ASSUME TypeOK, CallInv, HeldInv, RouteInv, [Next]_vars PROVE RouteInv'
  OBVIOUS
<1>. USE StanzaFields, StanzaCands
     DEF RouteInv, HeldInv, CallInv, OfferInv, AnswerInv, IdleInv, Offer, TypeOK, tvars,
         cvars, wire, bounds, Send, Waiting, Endpoint, Peer, Live, FindSession,
         Terminating, Accepted, Rejected
<1>1. ASSUME NEW to \in Name, Initiate(to) PROVE RouteInv'
  BY <1>1 DEF Initiate
<1>2. ASSUME Accept PROVE RouteInv'
  BY <1>2 DEF Accept
<1>3. ASSUME Reject PROVE RouteInv'
  BY <1>3 DEF Reject
<1>4. ASSUME NEW x \in Endpoint, Terminate(x) PROVE RouteInv'
  BY <1>4 DEF Terminate, TerminateWithReason, TerminateIq
<1>5. ASSUME NEW x \in Endpoint, CloseUnconnected(x) PROVE RouteInv'
  BY <1>5 DEF CloseUnconnected, Destroy, TerminateIq
<1>6. ASSUME NEW x \in Endpoint, Shutdown(x) PROVE RouteInv'
  BY <1>6 DEF Shutdown, Destroy
<1>7. ASSUME NEW x \in Endpoint, SendInfoMessage(x) PROVE RouteInv'
  BY <1>7 DEF SendInfoMessage
<1>8. ASSUME NEW x \in Endpoint, OnState(x) PROVE RouteInv'
  BY <1>8 DEF OnState, OnStateAccepted, OnStateRejected, OnStateTerminating,
         OnStateOther, Destroy, TerminateWithReason, TerminateIq
<1>9. ASSUME NEW x \in Endpoint, OnError(x) PROVE RouteInv'
  <2>0. Live(x)
    BY <1>9 DEF OnError
  <2>1. CASE state[x] \in Terminating
    BY <1>9, <2>1 DEF OnError
  <2>2. CASE state[x] \notin Terminating
    <3>1. /\ net' = net \cup TerminateIq(x) /\ remote_name' = remote_name
          /\ state' = [state EXCEPT ![x] = "SENTTERMINATE"]
      BY <1>9, <2>2 DEF OnError, TerminateWithReason
    <3>2. \A m \in TerminateIq(x) : m.act = "terminate" /\ m.cands = {}
      BY DEF TerminateIq
    <3>3. state'["callee"] # "NONE" => state["callee"] # "NONE"
      BY <2>0, <3>1
    <3>. HIDE DEF HeldInv, CallInv, TypeOK
    <3>. QED
      BY <3>1, <3>2, <3>3
  <2>. QED
    BY <2>1, <2>2
<1>10. ASSUME NEW x \in Endpoint, OnConnecting(x) PROVE RouteInv'
  BY <1>10 DEF OnConnecting
<1>11. ASSUME NEW x \in Endpoint, OnWriteState(x) PROVE RouteInv'
  BY <1>11 DEF OnWriteState
<1>12. ASSUME NEW x \in Endpoint, OnTimeout(x) PROVE RouteInv'
  BY <1>12 DEF OnTimeout
<1>13. ASSUME NEW x \in Endpoint, NEW c \in Cand, CandidatesReady(x, c) PROVE RouteInv'
  BY <1>13 DEF CandidatesReady
<1>14. ASSUME NEW x \in Endpoint, ChannelWritable(x) PROVE RouteInv'
  BY <1>14 DEF ChannelWritable
<1>15. ASSUME NEW x \in Endpoint, ChannelUnwritable(x) PROVE RouteInv'
  BY <1>15 DEF ChannelUnwritable
<1>16. ASSUME NEW m \in net, NEW r \in {"none", "accept", "reject"}, m.kind = "set", OnInitiateMessage(m, r) PROVE RouteInv'
  BY <1>16 DEF OnInitiateMessage, Answer
<1>17. ASSUME NEW m \in net, m.kind = "set", OnAcceptMessage(m) PROVE RouteInv'
  BY <1>17 DEF OnAcceptMessage, OnInitiateAcked, FlushedIqs, Answer
<1>18. ASSUME NEW m \in net, m.kind = "set", OnRejectMessage(m) PROVE RouteInv'
  BY <1>18 DEF OnRejectMessage, Answer
<1>19. ASSUME NEW x \in Endpoint, NEW m \in net, m.kind = "set", OnTerminateMessage(x, m) PROVE RouteInv'
  BY <1>19 DEF OnTerminateMessage, Answer
<1>20. ASSUME NEW x \in Endpoint, NEW m \in net, m.kind = "set", OnInfoMessage(x, m) PROVE RouteInv'
  BY <1>20 DEF OnInfoMessage, Answer
<1>21. ASSUME NEW x \in Endpoint, NEW m \in net, m.kind = "set", OnTransportInfoMessage(x, m) PROVE RouteInv'
  BY <1>21 DEF OnTransportInfoMessage, Answer
<1>22. ASSUME NEW x \in Endpoint, NEW m \in net, m.kind = "set", OnRefusedMessage(x, m) PROVE RouteInv'
  BY <1>22 DEF OnRefusedMessage, Answer
<1>23. ASSUME NEW m \in net, OnIncomingResponse(m) PROVE RouteInv'
  BY <1>23 DEF OnIncomingResponse, OnInitiateAcked, FlushedIqs, Request
<1>24. ASSUME NEW m \in net, OnErrorResponse(m) PROVE RouteInv'
  BY <1>24 DEF OnErrorResponse, OnFailedSend, OnRedirect, Request
<1>25. ASSUME NEW m \in net, NEW kind \in ErrorKind, Redirect(m, kind) PROVE RouteInv'
  BY <1>25 DEF Redirect, Answer
<1>26. ASSUME NEW m \in net, Lose(m) PROVE RouteInv'
  BY <1>26 DEF Lose, Fault
<1>27. ASSUME NEW m \in net, NEW kind \in ErrorKind, Bounce(m, kind) PROVE RouteInv'
  BY <1>27 DEF Bounce, Fault
<1>28. ASSUME NEW t \in tasks, OnSendTimeout(t) PROVE RouteInv'
  BY <1>28 DEF OnSendTimeout, OnFailedSend, OnRedirect
<1>29. CASE UNCHANGED vars
  BY <1>29 DEF vars
<1>. QED
  BY <1>1, <1>2, <1>3, <1>4, <1>5, <1>6, <1>7, <1>8, <1>9, <1>10, <1>11, <1>12,
     <1>13, <1>14, <1>15, <1>16, <1>17, <1>18, <1>19, <1>20, <1>21, <1>22, <1>23, <1>24,
     <1>25, <1>26, <1>27, <1>28, <1>29
  DEF Next, Client, SignalingThread, Receive, ReceiveSet, ErrorKind

(* Every step keeps a channel ready for the candidates that may arrive.     *)
LEMMA ChannelNext ==
  TypeOK /\ CallInv /\ QueueInv /\ ChannelInv /\ [Next]_vars => ChannelInv'
<1>. SUFFICES ASSUME TypeOK, CallInv, QueueInv, ChannelInv, [Next]_vars PROVE ChannelInv'
  OBVIOUS
<1>0. \A e \in Endpoint : e \in connreq => e \in channel
  BY DEF QueueInv, WatchInv, HasChannels
<1>. USE StanzaFields, StanzaCands
     DEF ChannelInv, CallInv, OfferInv, AnswerInv, IdleInv, Offer, TypeOK, tvars,
         cvars, wire, bounds, Send, Waiting, Endpoint, Peer, Live, FindSession,
         Terminating, Accepted, Rejected
<1>1. ASSUME NEW to \in Name, Initiate(to) PROVE ChannelInv'
  BY <1>1 DEF Initiate
<1>2. ASSUME Accept PROVE ChannelInv'
  BY <1>2 DEF Accept
<1>3. ASSUME Reject PROVE ChannelInv'
  BY <1>3 DEF Reject
<1>4. ASSUME NEW x \in Endpoint, Terminate(x) PROVE ChannelInv'
  BY <1>4 DEF Terminate, TerminateWithReason, TerminateIq
<1>5. ASSUME NEW x \in Endpoint, CloseUnconnected(x) PROVE ChannelInv'
  BY <1>5 DEF CloseUnconnected, Destroy, TerminateIq
<1>6. ASSUME NEW x \in Endpoint, Shutdown(x) PROVE ChannelInv'
  BY <1>6 DEF Shutdown, Destroy
<1>7. ASSUME NEW x \in Endpoint, SendInfoMessage(x) PROVE ChannelInv'
  BY <1>7 DEF SendInfoMessage
<1>8. ASSUME NEW x \in Endpoint, OnState(x) PROVE ChannelInv'
  BY <1>8 DEF OnState, OnStateAccepted, OnStateRejected, OnStateTerminating,
         OnStateOther, Destroy, TerminateWithReason, TerminateIq
<1>9. ASSUME NEW x \in Endpoint, OnError(x) PROVE ChannelInv'
  <2>0. Live(x)
    BY <1>9 DEF OnError
  <2>1. CASE state[x] \in Terminating
    BY <1>9, <2>1 DEF OnError
  <2>2. CASE state[x] \notin Terminating
    <3>1. /\ state' = [state EXCEPT ![x] = "SENTTERMINATE"]
          /\ net' = net \cup TerminateIq(x)
          /\ UNCHANGED <<channel, answer, unsent, sent>>
      BY <1>9, <2>2 DEF OnError, TerminateWithReason
    <3>2. \A m \in TerminateIq(x) : m.cands = {}
      BY DEF TerminateIq
    <3>. QED
      BY <2>0, <3>1, <3>2
  <2>. QED
    BY <2>1, <2>2
<1>10. ASSUME NEW x \in Endpoint, OnConnecting(x) PROVE ChannelInv'
  BY <1>10 DEF OnConnecting
<1>11. ASSUME NEW x \in Endpoint, OnWriteState(x) PROVE ChannelInv'
  BY <1>11 DEF OnWriteState
<1>12. ASSUME NEW x \in Endpoint, OnTimeout(x) PROVE ChannelInv'
  BY <1>12 DEF OnTimeout
<1>13. ASSUME NEW x \in Endpoint, NEW c \in Cand, CandidatesReady(x, c) PROVE ChannelInv'
  <2>1. x \in channel /\ UNCHANGED <<channel, answer, state>>
    BY <1>0, <1>13 DEF CandidatesReady
  <2>2. CASE x = "caller" /\ x \notin initiate_acked
    <3>1. unsent' = [unsent EXCEPT ![x] = @ \cup {c}] /\ UNCHANGED <<sent, net>>
      BY <1>13, <2>2 DEF CandidatesReady
    <3>. QED
      BY <2>1, <2>2, <3>1
  <2>3. CASE ~(x = "caller" /\ x \notin initiate_acked)
    <3>1. /\ sent' \in {sent, [sent EXCEPT ![x] = @ \cup {c}]} /\ unsent' = unsent
          /\ net' = net \cup {Iq(x, remote_name[x], "transport-info", {c})}
      BY <1>13, <2>3 DEF CandidatesReady
    <3>2. /\ ~Early /\ answer # "accept" => x = "callee"
      BY <2>1
    <3>3. Iq(x, remote_name[x], "transport-info", {c}).from = x
      BY DEF Iq
    <3>. QED
      BY <2>1, <3>1, <3>2, <3>3
  <2>. QED
    BY <2>2, <2>3
<1>14. ASSUME NEW x \in Endpoint, ChannelWritable(x) PROVE ChannelInv'
  BY <1>14 DEF ChannelWritable
<1>15. ASSUME NEW x \in Endpoint, ChannelUnwritable(x) PROVE ChannelInv'
  BY <1>15 DEF ChannelUnwritable
<1>16. ASSUME NEW m \in net, NEW r \in {"none", "accept", "reject"}, m.kind = "set", OnInitiateMessage(m, r) PROVE ChannelInv'
  BY <1>16 DEF OnInitiateMessage, Answer
<1>17. ASSUME NEW m \in net, m.kind = "set", OnAcceptMessage(m) PROVE ChannelInv'
  BY <1>17 DEF OnAcceptMessage, OnInitiateAcked, FlushedIqs, Answer
<1>18. ASSUME NEW m \in net, m.kind = "set", OnRejectMessage(m) PROVE ChannelInv'
  BY <1>18 DEF OnRejectMessage, Answer
<1>19. ASSUME NEW x \in Endpoint, NEW m \in net, m.kind = "set", OnTerminateMessage(x, m) PROVE ChannelInv'
  BY <1>19 DEF OnTerminateMessage, Answer
<1>20. ASSUME NEW x \in Endpoint, NEW m \in net, m.kind = "set", OnInfoMessage(x, m) PROVE ChannelInv'
  BY <1>20 DEF OnInfoMessage, Answer
<1>21. ASSUME NEW x \in Endpoint, NEW m \in net, m.kind = "set", OnTransportInfoMessage(x, m) PROVE ChannelInv'
  BY <1>21 DEF OnTransportInfoMessage, Answer
<1>22. ASSUME NEW x \in Endpoint, NEW m \in net, m.kind = "set", OnRefusedMessage(x, m) PROVE ChannelInv'
  BY <1>22 DEF OnRefusedMessage, Answer
<1>23. ASSUME NEW m \in net, OnIncomingResponse(m) PROVE ChannelInv'
  BY <1>23 DEF OnIncomingResponse, OnInitiateAcked, FlushedIqs, Request
<1>24. ASSUME NEW m \in net, OnErrorResponse(m) PROVE ChannelInv'
  BY <1>24 DEF OnErrorResponse, OnFailedSend, OnRedirect, Request
<1>25. ASSUME NEW m \in net, NEW kind \in ErrorKind, Redirect(m, kind) PROVE ChannelInv'
  BY <1>25 DEF Redirect, Answer
<1>26. ASSUME NEW m \in net, Lose(m) PROVE ChannelInv'
  BY <1>26 DEF Lose, Fault
<1>27. ASSUME NEW m \in net, NEW kind \in ErrorKind, Bounce(m, kind) PROVE ChannelInv'
  BY <1>27 DEF Bounce, Fault
<1>28. ASSUME NEW t \in tasks, OnSendTimeout(t) PROVE ChannelInv'
  BY <1>28 DEF OnSendTimeout, OnFailedSend, OnRedirect
<1>29. CASE UNCHANGED vars
  BY <1>29 DEF vars
<1>. QED
  BY <1>1, <1>2, <1>3, <1>4, <1>5, <1>6, <1>7, <1>8, <1>9, <1>10, <1>11, <1>12,
     <1>13, <1>14, <1>15, <1>16, <1>17, <1>18, <1>19, <1>20, <1>21, <1>22, <1>23, <1>24,
     <1>25, <1>26, <1>27, <1>28, <1>29
  DEF Next, Client, SignalingThread, Receive, ReceiveSet, ErrorKind

(* Session::OnInitiateAcked sends what it takes out of unsent_candidates_.  *)
LEMMA FlushKeeps ==
  ASSUME TypeOK, OnInitiateAcked, NEW n, FlushedIqs \subseteq n,
         NEW e \in Endpoint, NEW c \in unsent[e]
  PROVE  c \in unsent'[e] \/ \E m \in n : m.kind = "set" /\ m.from = e /\ c \in m.cands
<1>1. CASE e = "caller" /\ e \notin initiate_acked
  BY <1>1, StanzaFields, StanzaCands DEF FlushedIqs
<1>2. CASE ~(e = "caller" /\ e \notin initiate_acked)
  BY <1>2 DEF OnInitiateAcked, TypeOK
<1>. QED
  BY <1>1, <1>2

(* Every step keeps every candidate.                                        *)
LEMMA KeptNext ==
  /\ TypeOK /\ CallInv /\ HeldInv /\ RouteInv /\ ChannelInv /\ KeptInv
  /\ [Next]_vars
  => KeptInv'
<1>. SUFFICES ASSUME TypeOK, CallInv, HeldInv, RouteInv, ChannelInv, KeptInv, [Next]_vars,
                     NEW e \in (IF Early THEN Endpoint ELSE {"caller"}),
                     faults' = 0, state'[e] # "DEINIT", state'[Peer(e)] # "DEINIT",
                     NEW c \in gathered'[e]
              PROVE  \/ c \in unsent'[e] \cup remote'[Peer(e)]
                     \/ \E m \in net' : m.kind = "set" /\ m.from = e /\ c \in m.cands
  BY DEF KeptInv, Kept
<1>. DEFINE Goal == \/ c \in unsent'[e] \cup remote'[Peer(e)]
                    \/ \E m \in net' : m.kind = "set" /\ m.from = e /\ c \in m.cands
            Here == \/ c \in unsent[e] \cup remote[Peer(e)]
                    \/ \E m \in net : m.kind = "set" /\ m.from = e /\ c \in m.cands
<1>a. e \in Endpoint /\ Peer(e) \in Endpoint /\ e # Peer(e) /\ faults \in Nat
  BY DEF Endpoint, Peer, TypeOK
<1>b. c \in gathered[e] /\ faults = 0 /\ state[e] # "DEINIT" /\ state[Peer(e)] # "DEINIT" => Here
  BY DEF KeptInv, Kept
<1>c. \A m \in net : m.kind = "set" /\ m.cands # {} =>
        m.act = "transport-info" /\ m.from \in Endpoint /\ m.to = Peer(m.from)
  BY DEF RouteInv
<1>d. ASSUME gathered' = gathered, unsent' = unsent, remote' = remote, faults' = faults,
             \A x \in Endpoint : state[x] = "DEINIT" => state'[x] = "DEINIT",
             \A m \in net : m.kind = "set" /\ m.cands # {} => m \in net'
      PROVE  Goal
  <2>1. Here
    BY <1>a, <1>b, <1>d
  <2>. QED
    BY <1>d, <2>1
<1>e. /\ \A t : \A m \in Answers(t) : m.kind # "set"
      /\ "set" \notin ErrorKind
  BY StanzaFields DEF Answers, Kind, ErrorKind
<1>f. \A x \in Endpoint : state[x] = "DEINIT" => state'[x] = "DEINIT"
  BY FinalStep
<1>g. ASSUME NEW x \in Endpoint, NEW ms, Destroy(x, ms) PROVE FALSE
  <2>1. state'[x] = "DEINIT"
    BY <1>g DEF Destroy, TypeOK
  <2>. QED
    BY <1>a, <2>1 DEF Endpoint, Peer
<1>. USE StanzaFields, StanzaCands
     DEF tvars, cvars, wire, bounds, Send
<1>1. ASSUME NEW to \in Name, Initiate(to) PROVE Goal
  BY <1>1, <1>d, <1>e, <1>f DEF Initiate
<1>2. ASSUME Accept PROVE Goal
  BY <1>2, <1>d, <1>e, <1>f DEF Accept
<1>3. ASSUME Reject PROVE Goal
  BY <1>3, <1>d, <1>e, <1>f DEF Reject
<1>4. ASSUME NEW x \in Endpoint, Terminate(x) PROVE Goal
  BY <1>4, <1>d, <1>e, <1>f DEF Terminate, TerminateWithReason, TerminateIq
<1>5. ASSUME NEW x \in Endpoint, CloseUnconnected(x) PROVE Goal
  BY <1>5, <1>g DEF CloseUnconnected
<1>6. ASSUME NEW x \in Endpoint, Shutdown(x) PROVE Goal
  BY <1>6, <1>g DEF Shutdown
<1>7. ASSUME NEW x \in Endpoint, SendInfoMessage(x) PROVE Goal
  BY <1>7, <1>d, <1>e, <1>f DEF SendInfoMessage
<1>8. ASSUME NEW x \in Endpoint, OnState(x) PROVE Goal
  <2>1. CASE OnStateAccepted(x)
    BY <1>d, <1>f, <2>1 DEF OnStateAccepted
  <2>2. CASE OnStateRejected(x)
    BY <1>d, <1>f, <2>2 DEF OnStateRejected, TerminateWithReason, TerminateIq
  <2>3. CASE OnStateTerminating(x)
    BY <1>g, <2>3 DEF OnStateTerminating
  <2>4. CASE OnStateOther(x)
    BY <1>d, <1>f, <2>4 DEF OnStateOther
  <2>. QED
    BY <1>8, <2>1, <2>2, <2>3, <2>4 DEF OnState
<1>9. ASSUME NEW x \in Endpoint, OnError(x) PROVE Goal
  BY <1>9, <1>d, <1>e, <1>f DEF OnError, TerminateWithReason, TerminateIq
<1>10. ASSUME NEW x \in Endpoint, OnConnecting(x) PROVE Goal
  BY <1>10, <1>d, <1>e, <1>f DEF OnConnecting
<1>11. ASSUME NEW x \in Endpoint, OnWriteState(x) PROVE Goal
  BY <1>11, <1>d, <1>e, <1>f DEF OnWriteState
<1>12. ASSUME NEW x \in Endpoint, OnTimeout(x) PROVE Goal
  BY <1>12, <1>d, <1>e, <1>f DEF OnTimeout
<1>13. ASSUME NEW x \in Endpoint, NEW d \in Cand, CandidatesReady(x, d) PROVE Goal
  <2>1. CASE c \in gathered[e]
    BY <1>13, <1>a, <1>b, <2>1 DEF CandidatesReady, TypeOK
  <2>2. CASE c \notin gathered[e]
    <3>1. x = e /\ d = c
      BY <1>13, <1>a, <2>2 DEF CandidatesReady, TypeOK
    <3>2. CASE x = "caller" /\ x \notin initiate_acked
      BY <1>13, <1>a, <3>1, <3>2 DEF CandidatesReady, TypeOK
    <3>3. CASE ~(x = "caller" /\ x \notin initiate_acked)
      BY <1>13, <3>1, <3>3 DEF CandidatesReady
    <3>. QED
      BY <3>2, <3>3
  <2>. QED
    BY <2>1, <2>2
<1>14. ASSUME NEW x \in Endpoint, ChannelWritable(x) PROVE Goal
  BY <1>14, <1>d, <1>e, <1>f DEF ChannelWritable
<1>15. ASSUME NEW x \in Endpoint, ChannelUnwritable(x) PROVE Goal
  BY <1>15, <1>d, <1>e, <1>f DEF ChannelUnwritable
<1>16. ASSUME NEW m \in net, NEW r \in {"none", "accept", "reject"}, m.kind = "set", OnInitiateMessage(m, r) PROVE Goal
  <2>1. m.cands = {}
    BY <1>16, <1>c DEF OnInitiateMessage, Answer
  <2>. QED
    BY <1>16, <2>1, <1>d, <1>f DEF OnInitiateMessage, Answer
<1>17. ASSUME NEW m \in net, m.kind = "set", OnAcceptMessage(m) PROVE Goal
  <2>1. m.cands = {}
    BY <1>17, <1>c DEF OnAcceptMessage
  <2>2. Here /\ \A n \in net : n # m => n \in net'
    BY <1>17, <1>a, <1>b, <1>f DEF OnAcceptMessage, Answer
  <2>3. UNCHANGED <<gathered, remote>> /\ OnInitiateAcked /\ FlushedIqs \subseteq net'
    BY <1>17 DEF OnAcceptMessage, Answer
  <2>. QED
    <3>1. CASE c \in unsent[e]
      <4>1. c \in unsent'[e] \/ \E n \in net' : n.kind = "set" /\ n.from = e /\ c \in n.cands
        BY <1>a, <2>3, <3>1, FlushKeeps
      <4>. QED
        BY <4>1
    <3>2. CASE c \in remote[Peer(e)]
      BY <2>3, <3>2
    <3>3. CASE \E n \in net : n.kind = "set" /\ n.from = e /\ c \in n.cands
      BY <2>1, <2>2, <3>3
    <3>. QED
      BY <2>2, <3>1, <3>2, <3>3
<1>18. ASSUME NEW m \in net, m.kind = "set", OnRejectMessage(m) PROVE Goal
  <2>1. m.cands = {}
    BY <1>18, <1>c DEF OnRejectMessage, Answer
  <2>. QED
    BY <1>18, <2>1, <1>d, <1>f DEF OnRejectMessage, Answer
<1>19. ASSUME NEW x \in Endpoint, NEW m \in net, m.kind = "set", OnTerminateMessage(x, m) PROVE Goal
  <2>1. m.cands = {}
    BY <1>19, <1>c DEF OnTerminateMessage, Answer
  <2>. QED
    BY <1>19, <2>1, <1>d, <1>f DEF OnTerminateMessage, Answer
<1>20. ASSUME NEW x \in Endpoint, NEW m \in net, m.kind = "set", OnInfoMessage(x, m) PROVE Goal
  <2>1. m.cands = {}
    BY <1>20, <1>c DEF OnInfoMessage, Answer
  <2>. QED
    BY <1>20, <2>1, <1>d, <1>f DEF OnInfoMessage, Answer
<1>21. ASSUME NEW x \in Endpoint, NEW m \in net, m.kind = "set", OnTransportInfoMessage(x, m) PROVE Goal
  <2>1. /\ UNCHANGED <<gathered, unsent, state, faults>>
        /\ \A n \in net : n # m => n \in net'
        /\ Live(x) /\ m.to = x
    BY <1>21 DEF OnTransportInfoMessage, Answer, FindSession
  <2>2. Here
    BY <1>a, <1>b, <1>f, <2>1
  <2>3. \A y \in Endpoint : remote[y] \subseteq remote'[y]
    <3>1. \/ remote' = remote
          \/ remote' = [remote EXCEPT ![x] = remote[x] \cup m.cands]
      BY <1>21 DEF OnTransportInfoMessage
    <3>2. remote \in [Endpoint -> SUBSET Cand]
      BY DEF TypeOK
    <3>. QED
      BY <3>1, <3>2
  <2>4. ASSUME m.from = e, c \in m.cands PROVE c \in remote'[Peer(e)]
    <3>1. x = Peer(e)
      BY <1>21, <1>c, <2>1, <2>4
    <3>2. x \in channel
      BY <1>21, <2>1, <2>4, <3>1 DEF ChannelInv, Peer, Endpoint
    <3>. QED
      BY <1>21, <1>a, <2>4, <3>1, <3>2 DEF OnTransportInfoMessage, TypeOK
  <2>. QED
    BY <1>a, <2>1, <2>2, <2>3, <2>4
<1>22. ASSUME NEW x \in Endpoint, NEW m \in net, m.kind = "set", OnRefusedMessage(x, m) PROVE Goal
  <2>1. m.cands = {} \/ Here
    BY <1>22, <1>a, <1>b, <1>f DEF OnRefusedMessage
  <2>2. ASSUME m.cands # {} PROVE ~Live(x) /\ x = Peer(m.from) /\ m.from \in Endpoint
    <3>1. m.act = "transport-info" /\ x = Peer(m.from) /\ m.from \in Endpoint
      BY <1>22, <1>c, <2>2 DEF OnRefusedMessage
    <3>2. state["callee"] # "NONE"
      BY <1>22, <3>1 DEF HeldInv
    <3>3. remote_name[x] = m.from
      BY <3>1, <3>2 DEF RouteInv, Peer, Endpoint
    <3>. QED
      BY <1>22, <3>1, <3>3 DEF OnRefusedMessage, Refused, FindSession
  <2>3. ASSUME m.cands # {} PROVE state[x] = "DEINIT"
    <3>1. m.act = "transport-info"
      BY <1>c, <1>22, <2>3
    <3>2. state["callee"] # "NONE" /\ state["caller"] # "NONE"
      BY <1>22, <3>1 DEF HeldInv, CallInv, OfferInv
    <3>. QED
      BY <2>2, <2>3, <3>2 DEF Live, Peer, Endpoint
  <2>4. m.cands # {} => m.from # e
    BY <1>22, <1>f, <2>2, <2>3
  <2>5. /\ UNCHANGED <<gathered, unsent, remote, state, faults>>
        /\ \A n \in net : n # m => n \in net'
    BY <1>22 DEF OnRefusedMessage, Answer
  <2>6. Here
    BY <1>a, <1>b, <1>f, <2>5
  <2>. QED
    BY <2>4, <2>5, <2>6
<1>23. ASSUME NEW m \in net, OnIncomingResponse(m) PROVE Goal
  <2>1. Here /\ \A n \in net : n.kind = "set" => n \in net'
    BY <1>23, <1>a, <1>b, <1>f DEF OnIncomingResponse
  <2>2. UNCHANGED <<gathered, remote>>
    BY <1>23 DEF OnIncomingResponse
  <2>3. CASE unsent' = unsent
    BY <2>1, <2>2, <2>3
  <2>4. CASE OnInitiateAcked /\ FlushedIqs \subseteq net'
    BY <1>a, <2>1, <2>2, <2>4, FlushKeeps
  <2>. QED
    BY <1>23, <2>3, <2>4 DEF OnIncomingResponse
<1>24. ASSUME NEW m \in net, OnErrorResponse(m) PROVE Goal
  BY <1>24, <1>d, <1>e, <1>f DEF OnErrorResponse, OnFailedSend, OnRedirect, Request
<1>25. ASSUME NEW m \in net, NEW kind \in ErrorKind, Redirect(m, kind) PROVE Goal
  <2>1. m.cands = {}
    BY <1>25, <1>c DEF Redirect, Answer, Peer, Endpoint
  <2>. QED
    BY <1>25, <2>1, <1>d, <1>f DEF Redirect, Answer
<1>26. ASSUME NEW m \in net, Lose(m) PROVE Goal
  BY <1>26, <1>a DEF Lose, Fault
<1>27. ASSUME NEW m \in net, NEW kind \in ErrorKind, Bounce(m, kind) PROVE Goal
  BY <1>27, <1>a DEF Bounce, Fault
<1>28. ASSUME NEW t \in tasks, OnSendTimeout(t) PROVE Goal
  <2>1. faults' = faults
    BY <1>28, <1>a DEF OnSendTimeout
  <2>2. net' = net \ Answers(t) /\ UNCHANGED <<gathered, unsent, remote>>
    BY <1>28 DEF OnSendTimeout, OnFailedSend
  <2>. QED
    BY <1>d, <1>e, <1>f, <2>1, <2>2
<1>29. ASSUME UNCHANGED vars PROVE Goal
  BY <1>29, <1>d DEF vars
<1>. QED
  BY <1>1, <1>2, <1>3, <1>4, <1>5, <1>6, <1>7, <1>8, <1>9, <1>10, <1>11, <1>12,
     <1>13, <1>14, <1>15, <1>16, <1>17, <1>18, <1>19, <1>20, <1>21, <1>22, <1>23, <1>24,
     <1>25, <1>26, <1>27, <1>28, <1>29
  DEF Next, Client, SignalingThread, Receive, ReceiveSet, ErrorKind

(* No candidate is lost between two live sessions while the server delivers *)
(* what it is given.                                                        *)
THEOREM CandidatesKept == Spec => []NoCandidateLost
<1>1. KeptInv => NoCandidateLost
  BY DEF KeptInv, NoCandidateLost, Live
<1>. QED
  BY <1>1, TypeInit, TypeNext, CallInit, CallNext, QueueInit, QueueNext, HeldInit,
     HeldNext, RouteInit, RouteNext, ChannelNext, KeptNext, PTL DEF Spec

=============================================================================
