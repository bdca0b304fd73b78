------------------------------ MODULE Session ------------------------------
(***************************************************************************)
(* One Jingle session between two libjingle endpoints: Session and         *)
(* BaseSession (talk/p2p/base/session.cc), the SessionManager that routes  *)
(* stanzas to them (talk/p2p/base/sessionmanager.cc), the SessionSendTask  *)
(* that waits for the answer of every iq (talk/p2p/client) and the part of *)
(* Transport that the session watches (talk/p2p/base/transport.cc).        *)
(*                                                                         *)
(* Every handler runs on the signaling thread of its endpoint, so an       *)
(* action is one handler, with every call the handler makes.  What the     *)
(* handlers post to that thread waits in the sequence posted[e].  Stanzas  *)
(* in flight are a set: the code says that the server re-orders them.      *)
(***************************************************************************)
EXTENDS Integers, Sequences

CONSTANTS
  Cand,          \* the candidates an endpoint may gather
  Early,         \* TRUE: the client creates its channel with the session, as
                 \* a call does; FALSE: at the accept, as a tunnel does
  MaxExtras,     \* stanzas the server may lose, bounce or delay, and
                 \* session-infos the clients may send, taken together
  MaxFlaps       \* times a channel may become writable

ASSUME SessionAssumption ==
  /\ Early \in BOOLEAN
  /\ MaxExtras \in Nat
  /\ MaxFlaps \in Nat

VARIABLES
  state,         \* state[e]: Session::state_, "NONE" when there is no session yet
  error,         \* error[e]: BaseSession::error_
  remote_name,   \* remote_name[e]: the JID this session talks to
  initiate_acked,\* the endpoints whose Session::initiate_acked_ is set
  posted,        \* posted[e]: messages of the session and its transport queued
                 \* on the signaling thread
  timer,         \* the endpoints with a delayed MSG_TIMEOUT pending
  tproxy,        \* tproxy[e]: TransportProxy::state_, "NONE" before it exists
  channel,       \* the endpoints whose client has a channel in the proxy
  connreq,       \* the endpoints whose Transport::connect_requested_ is set
  conn,          \* the endpoints whose channel is writable (worker thread)
  writable,      \* the same as cached in Transport::writable_
  gathered,      \* gathered[e]: candidates the transport has reported
  unsent,        \* unsent[e]: TransportProxy::unsent_candidates_
  sent,          \* sent[e]: TransportProxy::sent_candidates_
  remote,        \* remote[e]: the peer's candidates given to the transport
  net,           \* the stanzas in flight
  tasks,         \* iq stanzas whose SessionSendTask still waits for an answer
  answer,        \* what the callee has answered (history)
  faults, flaps, infos

tvars == <<tproxy, channel, connreq, conn, writable>>
cvars == <<gathered, unsent, sent, remote>>
wire  == <<net, tasks>>
bounds == <<faults, flaps, infos>>
vars == <<state, error, remote_name, initiate_acked, posted, timer, tvars,
          cvars, wire, answer, bounds>>

Endpoint == {"caller", "callee"}
Peer(e) == IF e = "caller" THEN "callee" ELSE "caller"

(* The JIDs an initiate can be addressed to: the callee, or another         *)
(* resource of the same account that redirects.                             *)
Name == Endpoint \cup {"fwd"}

SessionState == {"NONE", "SENTINITIATE", "RECEIVEDINITIATE", "SENTACCEPT",
  "RECEIVEDACCEPT", "SENTREJECT", "RECEIVEDREJECT", "SENTTERMINATE",
  "RECEIVEDTERMINATE", "INPROGRESS", "DEINIT"}
Terminating == {"SENTTERMINATE", "RECEIVEDTERMINATE"}
Rejected    == {"SENTREJECT", "RECEIVEDREJECT"}
Accepted    == {"SENTACCEPT", "RECEIVEDACCEPT"}
Error       == {"NONE", "TIME", "RESPONSE"}
Message     == {"STATE", "ERROR", "CONNECTING", "WRITESTATE"}
Action      == {"initiate", "accept", "reject", "terminate", "info",
                "transport-info"}
ErrorKind   == {"modify", "cancel", "wait", "redirect", "badredirect"}
Kind        == {"set", "result"} \cup ErrorKind
Stanza      == [kind : Kind, act : Action, from : Name, to : Name,
                cands : SUBSET Cand]
IqSet       == [kind : {"set"}, act : Action, from : Endpoint, to : Name,
                cands : SUBSET Cand]

(* Does SessionManager hold a session for this sid?                         *)
Live(e) == state[e] \notin {"NONE", "DEINIT"}

(* SessionManager::FindSession: the session exists and talks to that JID.   *)
FindSession(e, name) == Live(e) /\ remote_name[e] = name

(* Transport::HasChannels: the proxy hands a channel to the transport as    *)
(* soon as it has left STATE_INIT.                                          *)
HasChannels(e) == e \in channel /\ tproxy[e] \in {"CONNECTING", "NEGOTIATED"}

Post(e, msgs) == posted' = [posted EXCEPT ![e] = @ \o msgs]

(* Session::SendMessage through SessionManagerTask and SessionSendTask.     *)
Iq(e, to, act, cands) ==
  [kind |-> "set", act |-> act, from |-> e, to |-> to, cands |-> cands]
Reply(m, kind) ==
  [kind |-> kind, act |-> m.act, from |-> m.to, to |-> m.from, cands |-> m.cands]
Answers(m) == {Reply(m, kind) : kind \in Kind \ {"set"}}

(* The SessionSendTasks of these stanzas.  Nobody waits for the answer to a *)
(* transport-info here: an acknowledgement or an error changes nothing, and *)
(* the forwarding resource redirects only an initiate (OnFailedSend would   *)
(* look for a redirect in any answer).                                      *)
Waiting(ms) == {m \in ms : m.act # "transport-info"}
Send(ms) == net' = net \cup ms /\ tasks' = tasks \cup Waiting(ms)

(* m is answered, if somebody still waits for the answer; the handler also  *)
(* sends ms.                                                                *)
Answer(m, ms, kind) ==
  /\ net' = (net \ {m}) \cup ms \cup (IF m \in tasks THEN {Reply(m, kind)} ELSE {})
  /\ tasks' = tasks \cup Waiting(ms)

-----------------------------------------------------------------------------
Init ==
  /\ state = [e \in Endpoint |-> "NONE"]
  /\ error = [e \in Endpoint |-> "NONE"]
  /\ remote_name = [e \in Endpoint |-> Peer(e)]
  /\ initiate_acked = {}
  /\ posted = [e \in Endpoint |-> <<>>]
  /\ timer = {}
  /\ tproxy = [e \in Endpoint |-> "NONE"]
  /\ channel = {}
  /\ connreq = {}
  /\ conn = {}
  /\ writable = {}
  /\ gathered = [e \in Endpoint |-> {}]
  /\ unsent = [e \in Endpoint |-> {}]
  /\ sent = [e \in Endpoint |-> {}]
  /\ remote = [e \in Endpoint |-> {}]
  /\ net = {} /\ tasks = {}
  /\ answer = "none"
  /\ faults = 0 /\ flaps = 0 /\ infos = 0

(* Transport::ConnectChannels_w: nothing happens without a channel, and     *)
(* only the first request counts.  has says whether the transport has a     *)
(* channel, msgs is what the handler has posted before.                     *)
ConnectChannels(e, has, msgs) ==
  /\ connreq' = IF has THEN connreq \cup {e} ELSE connreq
  /\ Post(e, IF has /\ e \notin connreq THEN msgs \o <<"CONNECTING">> ELSE msgs)

(* TransportProxy::CompleteNegotiation; has as above.                       *)
CompleteNegotiation(e, has, msgs) ==
  /\ tproxy' = [tproxy EXCEPT ![e] = "NEGOTIATED"]
  /\ IF tproxy[e] # "NEGOTIATED"
       THEN ConnectChannels(e, has, msgs)
       ELSE Post(e, msgs) /\ UNCHANGED connreq

(* TunnelSessionClient OnMessage(MSG_CREATE_TUNNEL): create the session and *)
(* Session::Initiate it towards one of the callee's resources.              *)
Initiate(to) ==
  /\ state["caller"] = "NONE"
  /\ to # "caller"
  /\ Send({Iq("caller", to, "initiate", {})})
  /\ remote_name' = [remote_name EXCEPT !["caller"] = to]
  /\ state' = [state EXCEPT !["caller"] = "SENTINITIATE"]
  /\ tproxy' = [tproxy EXCEPT !["caller"] = "CONNECTING"]
  /\ channel' = IF Early THEN channel \cup {"caller"} ELSE channel
  /\ ConnectChannels("caller", Early, <<"STATE">>)
  /\ UNCHANGED <<error, initiate_acked, timer, conn, writable, cvars, answer,
                 bounds>>

(* Session::Accept by the client, some time after the initiate: the tunnel  *)
(* client creates its channel when it hears of STATE_SENTACCEPT.            *)
Accept ==
  /\ state["callee"] = "RECEIVEDINITIATE"
  /\ Send({Iq("callee", remote_name["callee"], "accept", {})})
  /\ state' = [state EXCEPT !["callee"] = "SENTACCEPT"]
  /\ channel' = channel \cup {"callee"}
  /\ answer' = "accept"
  /\ Post("callee", <<"STATE">>)
  /\ UNCHANGED <<error, remote_name, initiate_acked, timer, tproxy, connreq,
                 conn, writable, cvars, bounds>>

(* Session::Reject by the client, some time after the initiate.             *)
Reject ==
  /\ state["callee"] = "RECEIVEDINITIATE"
  /\ Send({Iq("callee", remote_name["callee"], "reject", {})})
  /\ state' = [state EXCEPT !["callee"] = "SENTREJECT"]
  /\ answer' = "reject"
  /\ Post("callee", <<"STATE">>)
  /\ UNCHANGED <<error, remote_name, initiate_acked, timer, tvars, cvars,
                 bounds>>

(* The stanza Session::TerminateWithReason sends: none after a reject.      *)
TerminateIq(e) ==
  IF state[e] \in Rejected THEN {}
  ELSE {Iq(e, remote_name[e], "terminate", {})}

(* Mutant: the state is assigned without BaseSession::SetState, so that no  *)
(* MSG_STATE is posted.                                                     *)
TerminateWithoutPost(e, msgs) ==
  /\ state[e] \notin Terminating
  /\ Send(TerminateIq(e))
  /\ state' = [state EXCEPT ![e] = "SENTTERMINATE"]
  /\ posted' = [posted EXCEPT ![e] = msgs]

(* Session::TerminateWithReason; msgs is what remains queued before it.     *)
TerminateWithReason(e, msgs) ==
  /\ state[e] \notin Terminating
  /\ Send(TerminateIq(e))
  /\ state' = [state EXCEPT ![e] = "SENTTERMINATE"]
  /\ posted' = [posted EXCEPT ![e] = msgs \o <<"STATE">>]

(* The client ends the session (a hang-up, or its channel was closed).      *)
Terminate(e) ==
  /\ Live(e)
  /\ TerminateWithReason(e, posted[e])
  /\ UNCHANGED <<error, remote_name, initiate_acked, timer, tvars, cvars,
                 answer, bounds>>

(* SessionManager::DestroySession: the session and its transports go, with  *)
(* everything queued for them.  The send tasks stay, but as FindSession     *)
(* finds nothing for them any more they and the answers to them are dropped.*)
Destroy(e, ms) ==
  LET gone == {t \in tasks : t.from = e}
  IN  /\ net' = (net \cup ms) \ UNION {Answers(t) : t \in gone}
      /\ tasks' = tasks \ gone
  /\ state' = [state EXCEPT ![e] = "DEINIT"]
  /\ posted' = [posted EXCEPT ![e] = <<>>]
  /\ timer' = timer \ {e}
  /\ tproxy' = [tproxy EXCEPT ![e] = "NONE"]
  /\ channel' = channel \ {e}
  /\ connreq' = connreq \ {e}
  /\ conn' = conn \ {e}
  /\ writable' = writable \ {e}
  /\ unsent' = [unsent EXCEPT ![e] = {}]
  /\ sent' = [sent EXCEPT ![e] = {}]
  /\ UNCHANGED <<error, remote_name, initiate_acked, gathered, remote, answer,
                 bounds>>

(* MSG_CHECK_SESSION_DESTROY of the C interface: terminate, and destroy the *)
(* session without waiting for MSG_STATE.                                   *)
CloseUnconnected(e) ==
  /\ Live(e)
  /\ Destroy(e, IF state[e] \in Terminating THEN {} ELSE TerminateIq(e))

(* ~TunnelSessionClientBase: the client goes away and takes its sessions    *)
(* with it; the peer is told nothing.                                       *)
Shutdown(e) == Live(e) /\ Destroy(e, {})

(* Session::SendInfoMessage; the next one waits for the answer of the last. *)
SendInfoMessage(e) ==
  /\ Live(e)
  /\ faults + infos < MaxExtras
  /\ ~\E t \in tasks : t.act = "info" /\ t.from = e
  /\ Send({Iq(e, remote_name[e], "info", {})})
  /\ infos' = infos + 1
  /\ UNCHANGED <<state, error, remote_name, initiate_acked, posted, timer,
                 tvars, cvars, answer, faults, flaps>>

-----------------------------------------------------------------------------
(* Session::SetError.                                                       *)
SetError(e, err) ==
  /\ error' = [error EXCEPT ![e] = err]
  /\ Post(e, <<"ERROR">>)

(* Mutant: MSG_STATE moves on to INPROGRESS whatever the state.             *)
OnStateAnyInProgress(e) ==
  /\ state' = [state EXCEPT ![e] = "INPROGRESS"]
  /\ posted' = [posted EXCEPT ![e] = Tail(@) \o <<"STATE">>]
  /\ UNCHANGED <<error, remote_name, initiate_acked, timer, tvars, cvars,
                 wire, answer, bounds>>

(* MSG_STATE, by the state the session is in when it arrives.               *)
OnStateAccepted(e) ==
  /\ state[e] \in Accepted
  /\ state' = [state EXCEPT ![e] = "INPROGRESS"]
  /\ posted' = [posted EXCEPT ![e] = Tail(@) \o <<"STATE">>]
  /\ UNCHANGED <<error, remote_name, initiate_acked, timer, tvars, cvars,
                 wire, answer, bounds>>

OnStateRejected(e) ==
  /\ state[e] \in Rejected
  /\ TerminateWithReason(e, Tail(posted[e]))
  /\ UNCHANGED <<error, remote_name, initiate_acked, timer, tvars, cvars,
                 answer, bounds>>

OnStateTerminating(e) == state[e] \in Terminating /\ Destroy(e, {})

OnStateOther(e) ==
  /\ state[e] \notin Accepted \cup Rejected \cup Terminating
  /\ posted' = [posted EXCEPT ![e] = Tail(@)]
  /\ UNCHANGED <<state, error, remote_name, initiate_acked, timer, tvars,
                 cvars, wire, answer, bounds>>

OnState(e) ==
  /\ posted[e] # <<>> /\ Head(posted[e]) = "STATE"
  /\ \/ OnStateAccepted(e)
     \/ OnStateRejected(e)
     \/ OnStateTerminating(e)
     \/ OnStateOther(e)

(* Mutant: MSG_ERROR is ignored until the session is in progress.           *)
OnErrorInProgress(e) ==
  /\ posted[e] # <<>> /\ Head(posted[e]) = "ERROR"
  /\ IF state[e] # "INPROGRESS"
       THEN posted' = [posted EXCEPT ![e] = Tail(@)] /\ UNCHANGED <<state, wire>>
       ELSE TerminateWithReason(e, Tail(posted[e]))
  /\ UNCHANGED <<error, remote_name, initiate_acked, timer, tvars, cvars,
                 answer, bounds>>

(* MSG_ERROR.                                                               *)
OnError(e) ==
  /\ posted[e] # <<>> /\ Head(posted[e]) = "ERROR"
  /\ IF state[e] \in Terminating
       THEN posted' = [posted EXCEPT ![e] = Tail(@)] /\ UNCHANGED <<state, wire>>
       ELSE TerminateWithReason(e, Tail(posted[e]))
  /\ UNCHANGED <<error, remote_name, initiate_acked, timer, tvars, cvars,
                 answer, bounds>>

(* Mutant: the timeout is only ever cleared.                                *)
OnTransportWritableClear(e, w) == timer' = timer \ {e}

(* Session::OnTransportWritable, for MSG_CONNECTING and MSG_WRITESTATE of   *)
(* the transport: the pending timeout is replaced.                          *)
OnTransportWritable(e, w) ==
  timer' = IF HasChannels(e) /\ ~w THEN timer \cup {e} ELSE timer \ {e}

OnConnecting(e) ==
  /\ posted[e] # <<>> /\ Head(posted[e]) = "CONNECTING"
  /\ posted' = [posted EXCEPT ![e] = Tail(@)]
  /\ OnTransportWritable(e, e \in writable)
  /\ UNCHANGED <<state, error, remote_name, initiate_acked, tvars, cvars,
                 wire, answer, bounds>>

(* Mutant: the session is told of the flag cached before the change.        *)
OnWriteStateStale(e) ==
  /\ posted[e] # <<>> /\ Head(posted[e]) = "WRITESTATE"
  /\ posted' = [posted EXCEPT ![e] = Tail(@)]
  /\ writable' = IF e \in conn THEN writable \cup {e} ELSE writable \ {e}
  /\ IF writable' # writable THEN OnTransportWritable(e, e \in writable)
                             ELSE UNCHANGED timer
  /\ UNCHANGED <<state, error, remote_name, initiate_acked, tproxy, channel,
                 connreq, conn, cvars, wire, answer, bounds>>

OnWriteState(e) ==
  /\ posted[e] # <<>> /\ Head(posted[e]) = "WRITESTATE"
  /\ posted' = [posted EXCEPT ![e] = Tail(@)]
  /\ writable' = IF e \in conn THEN writable \cup {e} ELSE writable \ {e}
  /\ IF writable' # writable THEN OnTransportWritable(e, e \in conn)
                             ELSE UNCHANGED timer
  /\ UNCHANGED <<state, error, remote_name, initiate_acked, tproxy, channel,
                 connreq, conn, cvars, wire, answer, bounds>>

(* The delayed MSG_TIMEOUT.                                                 *)
OnTimeout(e) ==
  /\ e \in timer
  /\ timer' = timer \ {e}
  /\ SetError(e, "TIME")
  /\ UNCHANGED <<state, remote_name, initiate_acked, tvars, cvars, wire,
                 answer, bounds>>

-----------------------------------------------------------------------------
(* Mutant: candidates are sent as soon as they are ready.                   *)
CandidatesReadyAtOnce(e, c) ==
  /\ e \in connreq
  /\ c \notin gathered[e]
  /\ gathered' = [gathered EXCEPT ![e] = @ \cup {c}]
  /\ sent' = [sent EXCEPT ![e] = @ \cup {c}]
  /\ Send({Iq(e, remote_name[e], "transport-info", {c})})
  /\ UNCHANGED <<state, error, remote_name, initiate_acked, posted, timer,
                 tvars, unsent, remote, answer, bounds>>

(* Session::OnTransportCandidatesReady: the caller holds its candidates     *)
(* back until the initiate is acknowledged.                                 *)
CandidatesReady(e, c) ==
  /\ e \in connreq
  /\ c \notin gathered[e]
  /\ gathered' = [gathered EXCEPT ![e] = @ \cup {c}]
  /\ IF e = "caller" /\ e \notin initiate_acked
       THEN /\ unsent' = [unsent EXCEPT ![e] = @ \cup {c}]
            /\ UNCHANGED <<sent, wire>>
       ELSE /\ sent' = IF tproxy[e] = "NEGOTIATED" THEN sent
                       ELSE [sent EXCEPT ![e] = @ \cup {c}]
            /\ Send({Iq(e, remote_name[e], "transport-info", {c})})
            /\ UNCHANGED unsent
  /\ UNCHANGED <<state, error, remote_name, initiate_acked, posted, timer,
                 tvars, remote, answer, bounds>>

(* The worker thread's channel becomes writable or stops being so.          *)
ChannelWritable(e) ==
  /\ {e, Peer(e)} \subseteq connreq /\ e \notin conn /\ flaps < MaxFlaps
  /\ flaps' = flaps + 1
  /\ conn' = conn \cup {e}
  /\ Post(e, <<"WRITESTATE">>)
  /\ UNCHANGED <<state, error, remote_name, initiate_acked, timer, tproxy,
                 channel, connreq, writable, cvars, wire, answer, faults, infos>>

ChannelUnwritable(e) ==
  /\ e \in conn
  /\ conn' = conn \ {e}
  /\ Post(e, <<"WRITESTATE">>)
  /\ UNCHANGED <<state, error, remote_name, initiate_acked, timer, tproxy,
                 channel, connreq, writable, cvars, wire, answer, bounds>>

-----------------------------------------------------------------------------
(* SessionManager::OnIncomingMessage: an initiate for which there is no     *)
(* session creates one.  The client may answer it inside SignalState, that  *)
(* is, before the remote candidates complete the negotiation.               *)
OnInitiateMessage(m, reaction) ==
  LET e == "callee"
      accepts == reaction = "accept"
      rejects == reaction = "reject"
      mine == IF reaction = "none" THEN {} ELSE {Iq(e, m.from, reaction, {})}
      msgs == IF reaction = "none" THEN <<"STATE">> ELSE <<"STATE", "STATE">>
      chan == Early \/ accepts
  IN  /\ m.act = "initiate" /\ m.to = e /\ ~FindSession(e, m.from)
      /\ remote_name' = [remote_name EXCEPT ![e] = m.from]
      /\ error' = [error EXCEPT ![e] = "NONE"]
      /\ state' = [state EXCEPT ![e] = IF accepts THEN "SENTACCEPT"
                                       ELSE IF rejects THEN "SENTREJECT"
                                       ELSE "RECEIVEDINITIATE"]
      /\ answer' = IF reaction = "none" THEN answer ELSE reaction
      /\ channel' = IF chan THEN channel \cup {e} ELSE channel
      /\ IF rejects
           THEN /\ tproxy' = [tproxy EXCEPT ![e] = "INIT"]
                /\ Post(e, msgs)
                /\ UNCHANGED connreq
           ELSE CompleteNegotiation(e, chan, msgs)
      /\ Answer(m, mine, "result")
      /\ UNCHANGED <<initiate_acked, timer, conn, writable, cvars, bounds>>

(* Mutant: the flag is tested the wrong way round.                          *)
FlushedIqsLate ==
  IF "caller" \notin initiate_acked \/ unsent["caller"] = {} THEN {}
  ELSE {Iq("caller", remote_name["caller"], "transport-info", unsent["caller"])}

(* Session::OnInitiateAcked: what was held back is sent now, in one stanza. *)
FlushedIqs ==
  IF "caller" \in initiate_acked \/ unsent["caller"] = {} THEN {}
  ELSE {Iq("caller", remote_name["caller"], "transport-info", unsent["caller"])}

OnInitiateAcked ==
  /\ initiate_acked' = initiate_acked \cup {"caller"}
  /\ unsent' = IF "caller" \in initiate_acked THEN unsent
               ELSE [unsent EXCEPT !["caller"] = {}]

(* Session::OnAcceptMessage: the tunnel client creates its channel inside   *)
(* SignalState(STATE_RECEIVEDACCEPT), then the negotiation completes.       *)
OnAcceptMessage(m) ==
  LET e == "caller"
  IN  /\ m.act = "accept" /\ m.to = e /\ FindSession(e, m.from)
      /\ state[e] = "SENTINITIATE"
      /\ OnInitiateAcked
      /\ state' = [state EXCEPT ![e] = "RECEIVEDACCEPT"]
      /\ channel' = channel \cup {e}
      /\ CompleteNegotiation(e, TRUE, <<"STATE">>)
      /\ Answer(m, FlushedIqs, "result")
      /\ UNCHANGED <<error, remote_name, timer, conn, writable, gathered, sent,
                     remote, answer, bounds>>

(* Mutant: a reject is taken without CheckState.                            *)
OnRejectMessageUnchecked(m) ==
  /\ m.act = "reject" /\ m.to = "caller" /\ FindSession("caller", m.from)
  /\ state' = [state EXCEPT !["caller"] = "RECEIVEDREJECT"]
  /\ Post("caller", <<"STATE">>)
  /\ Answer(m, {}, "result")
  /\ UNCHANGED <<error, remote_name, initiate_acked, timer, tvars, cvars,
                 answer, bounds>>

(* Session::OnRejectMessage and Session::OnTerminateMessage.                *)
OnRejectMessage(m) ==
  /\ m.act = "reject" /\ m.to = "caller" /\ FindSession("caller", m.from)
  /\ state["caller"] = "SENTINITIATE"
  /\ state' = [state EXCEPT !["caller"] = "RECEIVEDREJECT"]
  /\ Post("caller", <<"STATE">>)
  /\ Answer(m, {}, "result")
  /\ UNCHANGED <<error, remote_name, initiate_acked, timer, tvars, cvars,
                 answer, bounds>>

OnTerminateMessage(e, m) ==
  /\ m.act = "terminate" /\ m.to = e /\ FindSession(e, m.from)
  /\ state' = [state EXCEPT ![e] = "RECEIVEDTERMINATE"]
  /\ Post(e, IF state[e] = "RECEIVEDTERMINATE" THEN <<>> ELSE <<"STATE">>)
  /\ Answer(m, {}, "result")
  /\ UNCHANGED <<error, remote_name, initiate_acked, timer, tvars, cvars,
                 answer, bounds>>

OnInfoMessage(e, m) ==
  /\ m.act = "info" /\ m.to = e /\ FindSession(e, m.from)
  /\ Answer(m, {}, "result")
  /\ UNCHANGED <<state, error, remote_name, initiate_acked, posted, timer,
                 tvars, cvars, answer, bounds>>

(* Session::OnTransportInfoMessage, which checks no state: the negotiation  *)
(* completes even when the candidates are then refused for want of a        *)
(* channel.                                                                 *)
OnTransportInfoMessage(e, m) ==
  /\ m.act = "transport-info" /\ m.to = e /\ FindSession(e, m.from)
  /\ CompleteNegotiation(e, e \in channel, <<>>)
  /\ IF e \in channel
       THEN /\ remote' = [remote EXCEPT ![e] = @ \cup m.cands]
            /\ Answer(m, {}, "result")
       ELSE Answer(m, {}, "modify") /\ UNCHANGED remote
  /\ UNCHANGED <<state, error, remote_name, initiate_acked, timer, channel,
                 conn, writable, gathered, unsent, sent, answer, bounds>>

(* A message that its state does not allow (Session::CheckState), or that   *)
(* names no session here, is answered with an error and changes nothing.    *)
Refused(e, m) ==
  IF FindSession(e, m.from)
    THEN \/ m.act = "initiate"
         \/ m.act \in {"accept", "reject"} /\ state[e] # "SENTINITIATE"
    ELSE m.act # "initiate"

OnRefusedMessage(e, m) ==
  /\ m.to = e /\ Refused(e, m)
  /\ Answer(m, {}, "modify")
  /\ UNCHANGED <<state, error, remote_name, initiate_acked, posted, timer,
                 tvars, cvars, answer, bounds>>

(* Session::OnIncomingMessage.  ACTION_TRANSPORT_ACCEPT, which does         *)
(* nothing, and ACTION_UPDATE, which no client here sends, are left out.    *)
ReceiveSet(m) ==
  /\ m.kind = "set"
  /\ \/ \E reaction \in {"none", "accept", "reject"} : OnInitiateMessage(m, reaction)
     \/ OnAcceptMessage(m)
     \/ OnRejectMessage(m)
     \/ \E e \in Endpoint :
          \/ OnTerminateMessage(e, m)
          \/ OnInfoMessage(e, m)
          \/ OnTransportInfoMessage(e, m)
          \/ OnRefusedMessage(e, m)

-----------------------------------------------------------------------------
(* The stanza a response answers (XmppTask::MatchResponseIq).               *)
Request(m) == Reply(m, "set")

(* Session::OnRedirectError: start over with the new JID.                   *)
OnRedirect(e) ==
  LET resend == IF sent[e] = {} THEN {}
                ELSE {Iq(e, "callee", "transport-info", sent[e])}
  IN  [ok |-> state[e] = "SENTINITIATE",
       iqs |-> {Iq(e, "callee", "initiate", {})} \cup resend]

(* Session::OnFailedSend for request t of endpoint e, which got an error of *)
(* this kind, or none in time; n is what is left in flight.                 *)
OnFailedSend(e, t, kind, n) ==
  LET redirected == kind = "redirect" /\ OnRedirect(e).ok
      fatal == \/ kind = "badredirect"
               \/ kind = "redirect" /\ ~redirected
               \/ kind \in {"modify", "cancel"} /\ t.act # "transport-info"
      iqs == IF FindSession(e, t.to) /\ redirected THEN OnRedirect(e).iqs ELSE {}
  IN  /\ net' = n \cup iqs
      /\ tasks' = (tasks \ {t}) \cup Waiting(iqs)
      /\ IF FindSession(e, t.to) /\ redirected
           THEN /\ remote_name' = [remote_name EXCEPT ![e] = "callee"]
                /\ sent' = [sent EXCEPT ![e] = {}]
           ELSE UNCHANGED <<remote_name, sent>>
      /\ IF FindSession(e, t.to) /\ fatal
           THEN SetError(e, "RESPONSE")
           ELSE UNCHANGED <<error, posted>>
      /\ UNCHANGED <<state, initiate_acked, timer, tvars, gathered, unsent,
                     remote, answer>>

(* SessionSendTask::ProcessResponse with a result.                          *)
OnIncomingResponse(m) ==
  LET t == Request(m)
      acked == t.act = "initiate" /\ FindSession(m.to, t.to)
      iqs == IF acked THEN FlushedIqs ELSE {}
  IN  /\ m.kind = "result" /\ t \in tasks
      /\ net' = (net \ {m}) \cup iqs
      /\ tasks' = (tasks \ {t}) \cup Waiting(iqs)
      /\ IF acked THEN OnInitiateAcked ELSE UNCHANGED <<initiate_acked, unsent>>
      /\ UNCHANGED <<state, error, remote_name, posted, timer, tvars, gathered,
                     sent, remote, answer, bounds>>

(* SessionSendTask::ProcessResponse with an error.                          *)
OnErrorResponse(m) ==
  /\ m.kind \in ErrorKind
  /\ Request(m) \in tasks
  /\ OnFailedSend(m.to, Request(m), m.kind, net \ {m})
  /\ UNCHANGED bounds

(* Mutant: a stanza without an answer is sent again.                        *)
OnSendTimeoutRetry(t) ==
  /\ t \in tasks
  /\ faults + infos < MaxExtras
  /\ faults' = faults + 1
  /\ net' = net \cup {t}
  /\ UNCHANGED <<state, error, remote_name, initiate_acked, posted, timer,
                 tvars, cvars, tasks, answer, flaps, infos>>

(* SessionSendTask::OnTimeout: no answer in time is a "cancel" error, and   *)
(* the answer reaches nobody when it comes after all.  The stanza or its    *)
(* answer was lost, or is late, which counts as a fault.                    *)
OnSendTimeout(t) ==
  LET late == net \cap (Answers(t) \cup {t}) # {}
  IN  /\ t \in tasks
      /\ late => faults + infos < MaxExtras
      /\ faults' = IF late THEN faults + 1 ELSE faults
      /\ OnFailedSend(t.from, t, "cancel", net \ Answers(t))
      /\ UNCHANGED <<flaps, infos>>

-----------------------------------------------------------------------------
(* The forwarding resource answers an initiate with a redirect, to the same *)
(* account or to another one.                                               *)
Redirect(m, kind) ==
  /\ m.kind = "set" /\ m.to = "fwd" /\ kind \in {"redirect", "badredirect"}
  /\ Answer(m, {}, IF m.act = "initiate" THEN kind ELSE "cancel")
  /\ UNCHANGED <<state, error, remote_name, initiate_acked, posted, timer,
                 tvars, cvars, answer, bounds>>

(* The server loses a stanza, or answers an iq in its recipient's place.    *)
Fault(m, ms) ==
  /\ faults + infos < MaxExtras
  /\ faults' = faults + 1
  /\ net' = (net \ {m}) \cup ms
  /\ UNCHANGED <<state, error, remote_name, initiate_acked, posted, timer,
                 tvars, cvars, tasks, answer, flaps, infos>>

Lose(m) == Fault(m, {})
Bounce(m, kind) ==
  /\ m \in tasks
  /\ kind \in {"cancel", "wait"}
  /\ Fault(m, {Reply(m, kind)})

Client(e) ==
  \/ Terminate(e)
  \/ CloseUnconnected(e)
  \/ Shutdown(e)
  \/ SendInfoMessage(e)

SignalingThread(e) ==
  \/ OnState(e)
  \/ OnError(e)
  \/ OnConnecting(e)
  \/ OnWriteState(e)

Receive(m) ==
  \/ ReceiveSet(m)
  \/ OnIncomingResponse(m)
  \/ OnErrorResponse(m)
  \/ \E kind \in {"redirect", "badredirect"} : Redirect(m, kind)

Next ==
  \/ \E to \in Name : Initiate(to)
  \/ Accept
  \/ Reject
  \/ \E e \in Endpoint :
       \/ Client(e)
       \/ SignalingThread(e)
       \/ OnTimeout(e)
       \/ \E c \in Cand : CandidatesReady(e, c)
       \/ ChannelWritable(e)
       \/ ChannelUnwritable(e)
  \/ \E m \in net :
       \/ Receive(m)
       \/ Lose(m)
       \/ \E kind \in {"cancel", "wait"} : Bounce(m, kind)
  \/ \E t \in tasks : OnSendTimeout(t)

(* The signaling threads run, timers fire, the server delivers what it does *)
(* not lose, a send task times out, and a channel whose peer is gone stops  *)
(* being writable (Connection's ping timeouts).                             *)
Fairness ==
  /\ \A e \in Endpoint :
       /\ WF_vars(SignalingThread(e))
       /\ WF_vars(OnTimeout(e))
       /\ WF_vars(Peer(e) \notin connreq /\ ChannelUnwritable(e))
  /\ WF_vars(\E m \in net : Receive(m))
  /\ WF_vars(\E t \in tasks : OnSendTimeout(t))

Spec == Init /\ [][Next]_vars
FairSpec == Spec /\ Fairness
-----------------------------------------------------------------------------
(* The contract of Call.tla, with the phase each state of the code is in.   *)
Phase(s) ==
  CASE s = "NONE" -> "idle"
    [] s \in {"SENTINITIATE", "RECEIVEDINITIATE"} -> "trying"
    [] s \in Accepted \cup {"INPROGRESS"} -> "connected"
    [] OTHER -> "ended"

CallPhase == [e \in Endpoint |-> Phase(state[e])]

C == INSTANCE Call WITH phase <- CallPhase

(* Two endpoints running session.cc over a server that loses, bounces and   *)
(* re-orders stanzas keep the contract of a call.                           *)
CallSpec == C!Spec

(* Every variable has the values the code can give it.                      *)
TypeOK ==
  /\ state \in [Endpoint -> SessionState]
  /\ error \in [Endpoint -> Error]
  /\ remote_name \in [Endpoint -> Name]
  /\ initiate_acked \subseteq Endpoint
  /\ posted \in [Endpoint -> Seq(Message)]
  /\ timer \subseteq Endpoint
  /\ tproxy \in [Endpoint -> {"NONE", "INIT", "CONNECTING", "NEGOTIATED"}]
  /\ channel \subseteq Endpoint
  /\ connreq \subseteq Endpoint
  /\ conn \subseteq Endpoint
  /\ writable \subseteq Endpoint
  /\ gathered \in [Endpoint -> SUBSET Cand]
  /\ unsent \in [Endpoint -> SUBSET Cand]
  /\ sent \in [Endpoint -> SUBSET Cand]
  /\ remote \in [Endpoint -> SUBSET Cand]
  /\ net \subseteq Stanza
  /\ tasks \subseteq IqSet
  /\ answer \in {"none", "accept", "reject"}
  /\ faults \in 0..MaxExtras
  /\ flaps \in 0..MaxFlaps
  /\ infos \in 0..MaxExtras

Has(q, x) == \E i \in 1..Len(q) : q[i] = x

(* A session in a state that BaseSession::OnMessage must move on from       *)
(* (accepted, rejected, terminating) always has a MSG_STATE queued, whatever*)
(* was queued before it and however states overtook each other: no session  *)
(* sticks half-way and none terminates without being destroyed.             *)
TransientIsPosted ==
  \A e \in Endpoint :
    state[e] \in Accepted \cup Rejected \cup Terminating => Has(posted[e], "STATE")

(* A session whose send failed or whose transport timed out (Session::      *)
(* SetError) is being torn down, or the message that will do so is queued.  *)
ErrorNotForgotten ==
  \A e \in Endpoint :
    Live(e) /\ error[e] # "NONE" => state[e] \in Terminating \/ Has(posted[e], "ERROR")

(* While a transport that has been told to connect is not writable, the     *)
(* session's timeout is running or about to be set (OnTransportWritable),   *)
(* although the worker thread flips the channel at any moment and the       *)
(* session only sees the cached flag.                                       *)
Watchdog ==
  \A e \in Endpoint :
    Live(e) /\ e \in connreq \ conn =>
      \/ e \in timer
      \/ Has(posted[e], "CONNECTING")
      \/ Has(posted[e], "WRITESTATE")
      \/ error[e] # "NONE"

(* The caller believes the call was accepted only if the callee accepted    *)
(* it, and rejected only if the callee rejected it, whatever the server     *)
(* lost, bounced or re-ordered and wherever the initiate was redirected.    *)
Agreement ==
  /\ state["caller"] \in {"RECEIVEDACCEPT", "INPROGRESS"} => answer = "accept"
  /\ state["caller"] = "RECEIVEDREJECT" => answer = "reject"

(* An offer is on its way: an initiate, or the redirect of one.             *)
Offer(m) == m.kind = "redirect" \/ (m.kind = "set" /\ m.act = "initiate")

(* Why Agreement holds: there is at most one offer in flight and only until *)
(* the callee has seen it, an answer in flight is the one the callee gave,  *)
(* and each end only visits the states of its role.                         *)
OfferInv ==
  /\ state["caller"] = "NONE" => state["callee"] = "NONE" /\ net = {}
  /\ \A m \in net : Offer(m) => state["callee"] = "NONE"
  /\ \A m1, m2 \in net : Offer(m1) /\ Offer(m2) => m1 = m2
  /\ \A m \in net : m.kind = "redirect" => m.to = "caller"
  /\ \A m \in net : m.kind = "set" /\ m.act = "initiate" => m.from = "caller"

AnswerInv ==
  /\ \A m \in net : m.kind = "set" /\ m.act \in {"accept", "reject"} => answer = m.act
  /\ state["callee"] \in {"NONE", "RECEIVEDINITIATE"} => answer = "none"
  /\ state["caller"] \notin {"RECEIVEDINITIATE", "SENTACCEPT", "SENTREJECT"}
  /\ state["callee"] \notin {"SENTINITIATE", "RECEIVEDACCEPT", "RECEIVEDREJECT"}

(* Nothing is queued, armed or connecting for a session that does not exist.*)
IdleInv ==
  \A e \in Endpoint :
    ~Live(e) => /\ posted[e] = <<>>
                /\ e \notin connreq /\ e \notin timer
                /\ e \notin conn /\ e \notin writable

(* Why Watchdog holds: the timeout follows the cached flag, and a           *)
(* MSG_WRITESTATE is queued whenever the cached flag is out of date.        *)
WatchInv ==
  \A e \in Endpoint :
    /\ e \in connreq => HasChannels(e)
    /\ e \in connreq /\ e \notin writable =>
         e \in timer \/ Has(posted[e], "CONNECTING") \/ error[e] # "NONE"
    /\ (e \in conn) # (e \in writable) => Has(posted[e], "WRITESTATE")

(* Why these hold on every queue: they are inductive together, once a       *)
(* session that has not begun is known to have no error.                    *)
QueueInv ==
  /\ TransientIsPosted
  /\ ErrorNotForgotten
  /\ WatchInv
  /\ \A e \in Endpoint : state[e] = "NONE" => error[e] = "NONE"

CallInv == OfferInv /\ AnswerInv /\ IdleInv /\ Agreement

(* The work-around in OnTransportCandidatesReady: no transport-info of the  *)
(* caller is in flight before the callee knows the session, so re-ordering  *)
(* cannot make it overtake the initiate.                                    *)
NoEarlyCandidates ==
  \A m \in net :
    m.kind = "set" /\ m.act = "transport-info" /\ m.from = "caller"
      => state["callee"] # "NONE"

(* Every candidate the transport of e has reported is held back, in flight  *)
(* or at the peer.                                                          *)
Kept(e) ==
  \A c \in gathered[e] :
    \/ c \in unsent[e] \cup remote[Peer(e)]
    \/ \E m \in net : m.kind = "set" /\ m.from = e /\ c \in m.cands

(* As long as the server loses nothing and both sessions live, no candidate *)
(* is lost between OnTransportCandidatesReady and the peer's transport; for *)
(* the callee's this needs a caller that creates its channel early.         *)
NoCandidateLost ==
  \A e \in (IF Early THEN Endpoint ELSE {"caller"}) :
    (faults = 0 /\ Live(e) /\ Live(Peer(e))) => Kept(e)

(* Why NoEarlyCandidates holds: until the callee knows the session, nobody  *)
(* has acknowledged the initiate and no candidate is in flight.             *)
HeldInv ==
  state["callee"] = "NONE" =>
    /\ "caller" \notin initiate_acked
    /\ sent["caller"] = {}
    /\ \A m \in net : /\ ~(m.kind = "set" /\ m.act = "transport-info")
                      /\ ~(m.kind = "result" /\ m.act = "initiate")

(* Why NoCandidateLost holds: only transport-info carries candidates, it is *)
(* addressed to the peer, the peer's session answers to that address, and   *)
(* it has a channel to give them to: from its start when Early, and else,   *)
(* for the caller's candidates, because the caller has none to send before  *)
(* the callee accepts.                                                      *)
RouteInv ==
  /\ \A m \in net : m.kind = "set" /\ m.cands # {} =>
       m.act = "transport-info" /\ m.from \in Endpoint /\ m.to = Peer(m.from)
  /\ \A m \in net : m.kind = "set" /\ m.act = "initiate" /\ m.to = "callee" =>
       remote_name["caller"] = "callee"
  /\ state["callee"] # "NONE" => \A e \in Endpoint : remote_name[e] = Peer(e)

ChannelInv ==
  /\ Early => \A e \in Endpoint : Live(e) => e \in channel
  /\ answer = "accept" /\ Live("callee") => "callee" \in channel
  /\ ~Early /\ answer # "accept" =>
       /\ "caller" \notin channel
       /\ unsent["caller"] = {} /\ sent["caller"] = {}
       /\ \A m \in net : m.kind = "set" /\ m.from = "caller" => m.cands = {}

(* NoCandidateLost, said of sessions that have not begun as well.           *)
KeptInv ==
  \A e \in (IF Early THEN Endpoint ELSE {"caller"}) :
    (faults = 0 /\ state[e] # "DEINIT" /\ state[Peer(e)] # "DEINIT") => Kept(e)

(* A terminated session stays terminated, and a destroyed one is never      *)
(* entered again: no late accept, redirect or error revives it.             *)
TerminationIsFinal ==
  [][\A e \in Endpoint :
       /\ state[e] = "DEINIT" => state'[e] = "DEINIT"
       /\ state[e] \in Terminating => state'[e] \in Terminating \cup {"DEINIT"}]_vars

(* No half-open session: once the peer's session is gone, a session whose   *)
(* transport was told to connect is destroyed too, even when the peer said  *)
(* nothing or its terminate was lost.                                       *)
NoHalfOpen ==
  \A e \in Endpoint :
    (Live(e) /\ e \in connreq /\ state[Peer(e)] = "DEINIT") ~> ~Live(e)
============================================================================
