------------------------------ MODULE Service ------------------------------
(***************************************************************************)
(* The XMPP service of the C interface, from xmpp_service_start to the end *)
(* of its thread: cif/xmpp.cc and notify.cc, service/xmpppump.cc,          *)
(* xmppsocket.cc, talkclient.cc, pingtask.cc and jingleinfotask.cc, and    *)
(* the client, engine and login task of talk/xmpp.                         *)
(*                                                                         *)
(* The application starts the service, again if it likes.  The service's   *)
(* thread runs its message loop; "doing" is what it is in the middle of:   *)
(* nothing, the tasks (RunTasks) or a read from the socket, whose bytes    *)
(* are handled one stanza after the other before anything else happens.    *)
(* The server sends any stanza at any time and may fall silent.            *)
(*                                                                         *)
(* Left out: PreXmppAuth, which the service does not use; the tasks for    *)
(* presence, roster and messages, whose stanzas only wake the tasks; one   *)
(* answer to the jingle info query and to a ping; of the SSL adapter only  *)
(* that it opens or fails; what the status listeners do.                   *)
(***************************************************************************)
EXTENDS Integers, Sequences, FiniteSets

CONSTANT PingPolls   \* looks at a ping before its time is over

ASSUME ServiceAssumption == PingPolls \in Nat \ {0}

VARIABLES
  app,          \* the caller of xmpp_service_start: free, deleting, joining
  thread,       \* none, starting, run, leaving, ended
  fStop,        \* the thread was told to quit
  client_stat,  \* what the application sees
  pump,         \* state_ of XmppPump
  doing,        \* idle, tasks, input
  wake,         \* the message of WakeTasks is posted
  delayed,      \* the delayed messages that are posted
  runnable,     \* the tasks that are not blocked
  xclient,      \* the XmppClient task: INIT, START, RESPONSE, deleted
  signal_closed,
  jit,          \* JingleInfoTask: none, waiting, answered, resolving, done
  ping,         \* PingTask: [pc, done, polls]
  socket,       \* XmppSocket: closed, connecting, open, tls_connecting, tls_open, dead
  engine,       \* XmppEngineImpl: [state, error, reset, tls_needed, entry]
  login,        \* XmppLoginTask: [state, authNeeded]
  silent        \* the server sends nothing any more

talk == <<xclient, signal_closed, jit, ping>>
stream == <<socket, engine, login>>
queue == <<wake, delayed, runnable>>
vars == <<app, thread, fStop, client_stat, pump, doing, queue, talk, stream, silent>>

NoPing == [pc |-> "none", done |-> FALSE, polls |-> 0]
NewEngine == [state |-> "START", error |-> FALSE, reset |-> FALSE, tls_needed |-> TRUE,
              entry |-> "START"]
NewLogin == [state |-> "INIT", authNeeded |-> TRUE]

Init ==
  /\ app = "free" /\ thread = "none" /\ fStop = FALSE
  /\ client_stat = "NONE" /\ pump = "NONE" /\ doing = "idle"
  /\ wake = FALSE /\ delayed = {} /\ runnable = {}
  /\ xclient = "deleted" /\ signal_closed = FALSE /\ jit = "none" /\ ping = NoPing
  /\ socket = "closed" /\ engine = NewEngine /\ login = NewLogin
  /\ silent = FALSE

-----------------------------------------------------------------------------
(* xmpp_service_start.  Deleting the thread of the last service is Quit and *)
(* Join.                                                                    *)
ServiceStart ==
  /\ app = "free"
  /\ client_stat' = "INIT"
  /\ app' = "deleting"
  /\ UNCHANGED <<thread, fStop, pump, doing, queue, talk, stream, silent>>

(* Mutant: the thread is joined and was not told to quit.                   *)
DeleteThreadNoQuit ==
  /\ app = "deleting"
  /\ app' = "joining"
  /\ UNCHANGED <<thread, fStop, client_stat, pump, doing, queue, talk, stream, silent>>

DeleteThread ==
  /\ app = "deleting"
  /\ app' = "joining" /\ fStop' = TRUE
  /\ UNCHANGED <<thread, client_stat, pump, doing, queue, talk, stream, silent>>

NewThread ==
  /\ app = "joining" /\ thread \in {"none", "ended"}
  /\ app' = "free" /\ thread' = "starting" /\ fStop' = FALSE
  /\ UNCHANGED <<client_stat, pump, doing, queue, talk, stream, silent>>

(* xmpp_service up to the loop: XmppPump, TalkClient, XmppSocket, DoLogin.  *)
DoLogin ==
  /\ thread = "starting"
  /\ thread' = "run"
  /\ pump' = "START" /\ client_stat' = "START" /\ doing' = "idle"
  /\ wake' = ~fStop /\ delayed' = IF fStop THEN {} ELSE {"login timeout"}
  /\ runnable' = {"client"}
  /\ xclient' = "INIT" /\ signal_closed' = FALSE /\ jit' = "none" /\ ping' = NoPing
  /\ socket' = "closed" /\ engine' = NewEngine /\ login' = NewLogin
  /\ silent' = FALSE
  /\ UNCHANGED <<app, fStop>>

Idle == thread = "run" /\ doing = "idle"

(* The loop ends when nothing is posted any more; a delayed message may     *)
(* still have become due before.                                            *)
RunEnds ==
  /\ Idle /\ fStop /\ ~wake
  /\ thread' = "leaving"
  /\ UNCHANGED <<app, fStop, client_stat, pump, doing, queue, talk, stream, silent>>

(* DoDisconnect closes the engine, which is reported once.                  *)
DoDisconnect ==
  /\ thread = "leaving" /\ pump # "CLOSED"
  /\ pump' = "CLOSED" /\ client_stat' = "CLOSED"
  /\ fStop' = TRUE
  /\ engine' = [engine EXCEPT !.state = "CLOSED"] /\ socket' = "closed"
  /\ signal_closed' = TRUE
  /\ UNCHANGED <<app, thread, doing, queue, xclient, jit, ping, login, silent>>

(* The rest of xmpp_service: TalkClient, the pump, its tasks and their      *)
(* messages are deleted.  The destructor of TalkClient, which ends the      *)
(* sessions and joins the worker, is taken to return.                       *)
ServiceEnds ==
  /\ thread = "leaving" /\ pump = "CLOSED"
  /\ thread' = "ended" /\ client_stat' = "NONE"
  /\ wake' = FALSE /\ delayed' = {} /\ runnable' = {}
  /\ xclient' = "deleted" /\ jit' = "none" /\ ping' = NoPing
  /\ UNCHANGED <<app, fStop, pump, doing, signal_closed, stream, silent>>

-----------------------------------------------------------------------------
(* Post does nothing when the thread was told to quit.                      *)
PostWake(stop) == wake' = (wake \/ ~stop)

(* XmppClient reports a state of the engine.  CLOSED is reported once, and  *)
(* XmppNotify and TalkClient end the loop; on OPEN TalkClient asks for the  *)
(* jingle info, or has a preset configuration and is ready 1.5 s later.     *)
Report(state) ==
  IF state = "CLOSED"
    THEN /\ signal_closed' = TRUE
         /\ IF signal_closed THEN UNCHANGED <<pump, client_stat, fStop>>
            ELSE pump' = "CLOSED" /\ client_stat' = "CLOSED" /\ fStop' = TRUE
         /\ UNCHANGED <<wake, delayed, jit>>
    ELSE /\ pump' = state /\ client_stat' = state
         /\ PostWake(fStop)
         /\ \/ state = "OPEN" /\ jit' = "waiting" /\ UNCHANGED delayed
            \/ state = "OPEN" /\ ~fStop /\ delayed' = delayed \cup {"ready"} /\ UNCHANGED jit
            \/ state # "OPEN" /\ UNCHANGED <<delayed, jit>>
         /\ UNCHANGED <<signal_closed, fStop>>

-----------------------------------------------------------------------------
(* RunTasks, and the tasks.                                                 *)
RunTasks ==
  /\ Idle /\ wake
  /\ wake' = FALSE /\ doing' = "tasks"
  /\ UNCHANGED <<app, thread, fStop, client_stat, pump, delayed, runnable, talk, stream, silent>>

RunTasksEnds ==
  /\ thread = "run" /\ doing = "tasks" /\ runnable = {}
  /\ doing' = "idle"
  /\ UNCHANGED <<app, thread, fStop, client_stat, pump, queue, talk, stream, silent>>

Runs(t) == thread = "run" /\ doing = "tasks" /\ t \in runnable

(* XmppClient connects its socket; failing is the end,                      *)
ClientConnects ==
  /\ Runs("client") /\ xclient = "INIT"
  /\ socket' = "connecting" /\ xclient' = "RESPONSE"
  /\ UNCHANGED <<app, thread, fStop, client_stat, pump, doing, queue, signal_closed, jit, ping,
                 engine, login, silent>>

ClientCannotConnect ==
  /\ Runs("client") /\ xclient = "INIT"
  /\ Report("CLOSED")
  /\ xclient' = "deleted" /\ runnable' = {} /\ ping' = NoPing
  /\ UNCHANGED <<app, thread, doing, stream, silent>>

(* and stays until the engine is closed.  Its tasks end with it.            *)
ClientResponse ==
  /\ Runs("client") /\ xclient = "RESPONSE"
  /\ IF engine.state = "CLOSED"
       THEN /\ xclient' = "deleted" /\ runnable' = {} /\ socket' = "closed"
            /\ jit' = "none" /\ ping' = NoPing /\ delayed' = delayed \ {"poll"}
       ELSE /\ runnable' = runnable \ {"client"}
            /\ UNCHANGED <<xclient, socket, jit, ping, delayed>>
  /\ UNCHANGED <<app, thread, fStop, client_stat, pump, doing, wake, signal_closed, engine,
                 login, silent>>

(* JingleInfoTask has the relay's name resolved, if it is not an address.   *)
JingleInfoStart ==
  /\ Runs("jit")
  /\ runnable' = runnable \ {"jit"}
  /\ jit' \in {"resolving", "done"}
  /\ UNCHANGED <<app, thread, fStop, client_stat, pump, doing, wake, delayed, xclient,
                 signal_closed, ping, stream, silent>>

(* OnResolveResult; with an address TalkClient is ready 1.5 s later.        *)
OnResolveResult(found) ==
  /\ Idle /\ jit = "resolving"
  /\ jit' = "done"
  /\ delayed' = IF found /\ ~fStop THEN delayed \cup {"ready"} ELSE delayed
  /\ UNCHANGED <<app, thread, fStop, client_stat, pump, doing, wake, runnable, xclient,
                 signal_closed, ping, stream, silent>>

(* PingTask: the ping is sent,                                              *)
PingStart ==
  /\ Runs("ping") /\ ping.pc = "START"
  /\ IF engine.state = "CLOSED"
       THEN ping' = NoPing /\ runnable' = runnable \ {"ping"}
       ELSE ping' = [ping EXCEPT !.pc = "RESPONSE"] /\ UNCHANGED runnable
  /\ UNCHANGED <<app, thread, fStop, client_stat, pump, doing, wake, delayed, xclient,
                 signal_closed, jit, stream, silent>>

(* Mutant: PingTask does not look again.                                    *)
PingResponseNoPoll ==
  /\ Runs("ping") /\ ping.pc = "RESPONSE"
  /\ runnable' = runnable \ {"ping"}
  /\ \/ /\ ping.polls = PingPolls
        /\ fStop' = TRUE /\ ping' = NoPing /\ delayed' = delayed \ {"poll"}
     \/ /\ ping.polls < PingPolls /\ ping.done
        /\ ping' = NoPing /\ delayed' = delayed \ {"poll"} /\ UNCHANGED fStop
     \/ /\ ping.polls < PingPolls /\ ~ping.done
        /\ UNCHANGED <<ping, delayed, fStop>>
  /\ UNCHANGED <<app, thread, client_stat, pump, doing, wake, xclient, signal_closed, jit,
                 stream, silent>>

(* and until it is answered or its time is over, looked at every second.    *)
(* Without an answer the loop ends (OnPingTimeout).                         *)
PingResponse ==
  /\ Runs("ping") /\ ping.pc = "RESPONSE"
  /\ runnable' = runnable \ {"ping"}
  /\ \/ /\ ping.polls = PingPolls
        /\ fStop' = TRUE /\ ping' = NoPing /\ delayed' = delayed \ {"poll"}
     \/ /\ ping.polls < PingPolls /\ ping.done
        /\ ping' = NoPing /\ delayed' = delayed \ {"poll"} /\ UNCHANGED fStop
     \/ /\ ping.polls < PingPolls /\ ~ping.done
        /\ ping' = [ping EXCEPT !.polls = @ + 1]
        /\ delayed' = IF fStop THEN delayed ELSE delayed \cup {"poll"}
        /\ UNCHANGED fStop
  /\ UNCHANGED <<app, thread, client_stat, pump, doing, wake, xclient, signal_closed, jit,
                 stream, silent>>

-----------------------------------------------------------------------------
(* The delayed messages.                                                    *)
Due(m) == Idle /\ m \in delayed /\ delayed' = delayed \ {m}

(* Mutant: the login timeout only warns.                                    *)
OnLoginTimeoutWarns ==
  /\ Due("login timeout")
  /\ UNCHANGED <<app, thread, fStop, client_stat, pump, doing, wake, runnable, talk, stream, silent>>

(* XmppPump::OnMessage.                                                     *)
OnLoginTimeout ==
  /\ Due("login timeout")
  /\ fStop' = (fStop \/ pump # "OPEN")
  /\ UNCHANGED <<app, thread, client_stat, pump, doing, wake, runnable, talk, stream, silent>>

(* TalkClient::OnMessage: the first ping, and the next.  The client is used *)
(* even when it has been deleted; what is modelled then is the case that    *)
(* its memory still reads as before.                                        *)
Ping ==
  /\ ping' = [NoPing EXCEPT !.pc = "START"]
  /\ runnable' = runnable \cup {"ping"}
  /\ PostWake(fStop)

OnReady ==
  /\ Due("ready")
  /\ client_stat' = "READY"
  /\ Ping
  /\ UNCHANGED <<app, thread, fStop, pump, doing, xclient, signal_closed, jit, stream, silent>>

OnPing ==
  /\ Due("ping")
  /\ ping.pc = "none"  \* the answered one was woken long before
  /\ Ping
  /\ UNCHANGED <<app, thread, fStop, client_stat, pump, doing, xclient, signal_closed, jit,
                 stream, silent>>

(* PingTask::OnMessage.                                                     *)
OnPoll ==
  /\ Due("poll")
  /\ runnable' = runnable \cup {"ping"}
  /\ PostWake(fStop)
  /\ UNCHANGED <<app, thread, fStop, client_stat, pump, doing, talk, stream, silent>>

-----------------------------------------------------------------------------
(* The socket's events.  The thread waits for them when nothing is posted   *)
(* and it was not told to quit.                                             *)
Waits == Idle /\ ~wake /\ ~fStop /\ xclient = "RESPONSE"

(* The connection opens: the engine starts the login with a new stream,     *)
SocketConnected ==
  /\ Waits /\ socket = "connecting"
  /\ socket' = "open"
  /\ engine' = [engine EXCEPT !.state = "OPENING"]
  /\ login' = [login EXCEPT !.state = "STREAMSTART_SENT"]
  /\ runnable' = runnable \cup {"client"}
  /\ Report("OPENING")
  /\ UNCHANGED <<app, thread, doing, xclient, ping, silent>>

(* TLS opens,                                                               *)
TlsConnected ==
  /\ Waits /\ socket = "tls_connecting"
  /\ socket' = "tls_open"
  /\ UNCHANGED <<app, thread, fStop, client_stat, pump, doing, queue, talk, engine, login, silent>>

(* Mutant: the status is set and the loop goes on.                          *)
SocketClosesNoQuit ==
  /\ Waits /\ ~silent /\ socket \notin {"closed", "dead"}
  /\ socket' = "dead" /\ client_stat' = "CLOSED"
  /\ UNCHANGED <<app, thread, fStop, pump, doing, queue, talk, engine, login, silent>>

(* or the connection fails or is closed: XmppNotify::OnSocketClose.  The    *)
(* engine is not told.                                                      *)
SocketCloses ==
  /\ Waits /\ ~silent /\ socket \notin {"closed", "dead"}
  /\ socket' = "dead" /\ client_stat' = "CLOSED" /\ fStop' = TRUE
  /\ UNCHANGED <<app, thread, pump, doing, queue, talk, engine, login, silent>>

-----------------------------------------------------------------------------
(* OnSocketRead and HandleInput: EnterExit, the stanzas of the bytes that   *)
(* were read, and the end of EnterExit, which reports a new state of the    *)
(* engine.                                                                  *)
InputBegins ==
  /\ Waits /\ ~silent
  /\ socket \in {"open", "tls_open"} /\ engine.state \in {"OPENING", "OPEN"}
  /\ doing' = "input" /\ engine' = [engine EXCEPT !.entry = engine.state]
  /\ UNCHANGED <<app, thread, fStop, client_stat, pump, queue, talk, socket, login, silent>>

EntryExits ==
  /\ thread = "run" /\ doing = "input"
  /\ IF engine.state # engine.entry
       THEN Report(engine.state) /\ runnable' = runnable \cup {"client"}
       ELSE UNCHANGED <<fStop, client_stat, pump, queue, signal_closed, jit>>
  /\ socket' = IF engine.state = "CLOSED" /\ socket = "open" THEN "closed" ELSE socket
  /\ UNCHANGED <<app, thread, xclient, ping, login, silent>>

InputEnds ==
  /\ EntryExits
  /\ doing' = "idle" /\ engine' = [engine EXCEPT !.reset = FALSE]

(* OnSocketRead reads on while there are bytes, whatever was posted and     *)
(* although the thread was told to quit.                                    *)
InputGoesOn ==
  /\ EntryExits /\ ~silent
  /\ socket \in {"open", "tls_open"} /\ engine.state # "CLOSED"
  /\ doing' = "input" /\ engine' = [engine EXCEPT !.reset = FALSE, !.entry = engine.state]

(* What follows an error or the start of a new stream is ignored.           *)
Reads == thread = "run" /\ doing = "input" /\ ~engine.error /\ ~engine.reset

streamOnly == <<app, thread, fStop, client_stat, pump, doing, queue, talk, silent>>

SignalError == engine' = [engine EXCEPT !.state = "CLOSED", !.error = TRUE]
Failure == SignalError /\ login' = [login EXCEPT !.state = "DONE"] /\ UNCHANGED socket

(* A login that goes on, and one that begins a new stream.                  *)
Goes(state) == login' = [login EXCEPT !.state = state] /\ UNCHANGED <<socket, engine>>

(* Any stream error, the end of the stream or malformed XML.                *)
IncomingEnd ==
  /\ Reads
  /\ SignalError
  /\ UNCHANGED <<socket, login>> /\ UNCHANGED streamOnly

(* XmppLoginTask::Advance, with the stanza the state waits for or another.  *)
StreamStart ==
  /\ Reads /\ login.state = "STREAMSTART_SENT"
  /\ Goes("STARTED_XMPP") \/ Failure
  /\ UNCHANGED streamOnly

(* Mutant: TLS is used when the server offers it, needed or not.            *)
FeaturesTlsIfOffered(features) ==
  /\ Reads /\ login.state = "STARTED_XMPP"
  /\ IF "tls" \in features THEN Goes("TLS_REQUESTED")
     ELSE IF login.authNeeded
       THEN IF "sasl" \in features THEN Goes("SASL_RUNNING") ELSE Failure
       ELSE IF "bind" \in features THEN Goes("BIND_REQUESTED") ELSE Failure
  /\ UNCHANGED streamOnly

Features(features) ==
  /\ Reads /\ login.state = "STARTED_XMPP"
  /\ IF engine.tls_needed \/ "tls" \in features
       THEN IF "tls" \in features THEN Goes("TLS_REQUESTED") ELSE Failure
     ELSE IF login.authNeeded
       THEN IF "sasl" \in features THEN Goes("SASL_RUNNING") ELSE Failure
       ELSE IF "bind" \in features THEN Goes("BIND_REQUESTED") ELSE Failure
  /\ UNCHANGED streamOnly

NotFeatures ==
  /\ Reads /\ login.state = "STARTED_XMPP"
  /\ Failure
  /\ UNCHANGED streamOnly

(* StartTls may fail, which is not looked at; a failed socket reads nothing *)
(* any more.  TLS is not started twice.                                     *)
Proceed ==
  /\ Reads /\ login.state = "TLS_REQUESTED"
  /\ IF socket = "open" THEN socket' \in {"tls_connecting", "dead"} ELSE UNCHANGED socket
  /\ engine' = [engine EXCEPT !.tls_needed = FALSE, !.reset = TRUE]
  /\ login' = [login EXCEPT !.state = "STREAMSTART_SENT"]
  /\ UNCHANGED streamOnly

NotProceed ==
  /\ Reads /\ login.state = "TLS_REQUESTED"
  /\ Failure
  /\ UNCHANGED streamOnly

(* A challenge is answered and the state stays.                             *)
SaslSuccess ==
  /\ Reads /\ login.state = "SASL_RUNNING"
  /\ engine' = [engine EXCEPT !.reset = TRUE]
  /\ login' = [state |-> "STREAMSTART_SENT", authNeeded |-> FALSE]
  /\ UNCHANGED socket /\ UNCHANGED streamOnly

SaslFailure ==
  /\ Reads /\ login.state = "SASL_RUNNING"
  /\ Failure
  /\ UNCHANGED streamOnly

(* Stanzas that do not answer the request are ignored.                      *)
BindAnswered ==
  /\ Reads /\ login.state = "BIND_REQUESTED"
  /\ Goes("SESSION_REQUESTED") \/ Failure
  /\ UNCHANGED streamOnly

SessionAnswered ==
  /\ Reads /\ login.state = "SESSION_REQUESTED"
  /\ \/ /\ engine' = [engine EXCEPT !.state = "OPEN"]
        /\ login' = [login EXCEPT !.state = "DONE"]
        /\ UNCHANGED socket
     \/ Failure
  /\ UNCHANGED streamOnly

-----------------------------------------------------------------------------
(* The stanzas after the login: the answer to the jingle info query or a    *)
(* push of it (only the first: a later one makes it ready once more),       *)
JingleInfo ==
  /\ Reads /\ engine.state = "OPEN" /\ jit = "waiting"
  /\ jit' = "answered" /\ runnable' = runnable \cup {"jit"}
  /\ PostWake(fStop)
  /\ UNCHANGED <<app, thread, fStop, client_stat, pump, doing, delayed, xclient, signal_closed,
                 ping, stream, silent>>

(* and the answer to a ping, after which the next one is sent 5 s later.    *)
Pong ==
  /\ Reads /\ engine.state = "OPEN" /\ ping.pc = "RESPONSE" /\ ~ping.done
  /\ ping' = [ping EXCEPT !.done = TRUE] /\ runnable' = runnable \cup {"ping"}
  /\ PostWake(fStop)
  /\ delayed' = IF fStop THEN delayed ELSE delayed \cup {"ping"}
  /\ UNCHANGED <<app, thread, fStop, client_stat, pump, doing, xclient, signal_closed, jit,
                 stream, silent>>

(* The server, or the network, falls silent for good.                       *)
GoSilent ==
  /\ thread = "run" /\ ~silent
  /\ silent' = TRUE
  /\ UNCHANGED <<app, thread, fStop, client_stat, pump, doing, queue, talk, stream>>

-----------------------------------------------------------------------------
Application == ServiceStart \/ DeleteThread \/ NewThread

Tasks ==
  \/ RunTasks \/ RunTasksEnds \/ ClientConnects \/ ClientCannotConnect \/ ClientResponse
  \/ JingleInfoStart \/ PingStart \/ PingResponse

Messages == OnLoginTimeout \/ OnReady \/ OnPing \/ OnPoll

Server ==
  \/ SocketConnected \/ TlsConnected \/ SocketCloses \/ InputBegins \/ InputGoesOn
  \/ IncomingEnd \/ StreamStart \/ NotFeatures
  \/ \E features \in SUBSET {"tls", "sasl", "bind"} : Features(features)
  \/ Proceed \/ NotProceed \/ SaslSuccess \/ SaslFailure \/ BindAnswered \/ SessionAnswered
  \/ JingleInfo \/ Pong

Next ==
  \/ Application
  \/ DoLogin \/ RunEnds \/ DoDisconnect \/ ServiceEnds
  \/ Tasks \/ Messages \/ InputEnds
  \/ \E found \in BOOLEAN : OnResolveResult(found)
  \/ Server \/ GoSilent

(* A thread that can run does; a delayed message is handled once its time   *)
(* has come; one OnSocketRead ends, because the server does not send faster *)
(* for ever than they are read.  The application need not start the         *)
(* service, and nothing else is promised by the server.                     *)
Fairness ==
  /\ WF_vars(DeleteThread) /\ WF_vars(NewThread)
  /\ WF_vars(DoLogin) /\ WF_vars(RunEnds) /\ WF_vars(DoDisconnect) /\ WF_vars(ServiceEnds)
  /\ WF_vars(Tasks) /\ WF_vars(InputEnds)
  /\ SF_vars(OnLoginTimeout) /\ SF_vars(OnReady) /\ SF_vars(OnPing) /\ SF_vars(OnPoll)

Spec == Init /\ [][Next]_vars /\ Fairness

-----------------------------------------------------------------------------
(* The account's authentication, and the binding that trusts it, are only   *)
(* ever spoken over an open TLS connection: a server that offers no TLS, or *)
(* a TLS that fails, ends in an error or in the login timeout.              *)
AuthenticatedOverTls ==
  engine.state = "OPENING" /\ login.state \in {"SASL_RUNNING", "BIND_REQUESTED", "SESSION_REQUESTED"}
    => socket \in {"tls_open", "dead"}

(* What xmpp_get_service_state says is true while the loop runs: it is the  *)
(* engine's state, or READY, and a closed socket has ended the loop.  A new *)
(* service starts with INIT, or with the NONE that the last one leaves when *)
(* its thread ends, never with a status from within the life of the last.   *)
StatusIsTrue ==
  /\ Idle /\ ~fStop /\ app = "free" =>
       /\ client_stat \in {engine.state, "READY"}
       /\ client_stat = "READY" => engine.state = "OPEN"
       /\ client_stat # "CLOSED"
  /\ thread = "starting" => client_stat \in {"INIT", "NONE"}

(* The records and flags that the two properties above depend on.           *)
TypeOK ==
  /\ fStop \in BOOLEAN /\ signal_closed \in BOOLEAN
  /\ thread \in {"none", "starting", "run", "leaving", "ended"}
  /\ doing \in {"idle", "tasks", "input"}
  /\ engine \in [state : {"START", "OPENING", "OPEN", "CLOSED"}, error : BOOLEAN,
                 reset : BOOLEAN, tls_needed : BOOLEAN,
                 entry : {"START", "OPENING", "OPEN", "CLOSED"}]
  /\ login \in [state : {"INIT", "STREAMSTART_SENT", "STARTED_XMPP", "TLS_REQUESTED",
                         "SASL_RUNNING", "BIND_REQUESTED", "SESSION_REQUESTED", "DONE"},
                authNeeded : BOOLEAN]

(* Why AuthenticatedOverTls holds: TLS stops being needed only when it has  *)
(* been started or has failed, and nothing more of that read is looked at;  *)
(* after it bytes come from the old connection no more.                     *)
TlsInv ==
  /\ thread = "run" /\ xclient = "INIT" =>
       engine = NewEngine /\ login = NewLogin /\ socket = "closed"
  /\ socket = "connecting" => engine = NewEngine /\ login = NewLogin
  /\ ~engine.tls_needed /\ engine.state # "CLOSED" =>
       socket \in {"tls_connecting", "tls_open", "dead"}
  /\ login.state \in {"SASL_RUNNING", "BIND_REQUESTED", "SESSION_REQUESTED"} =>
       /\ ~engine.tls_needed
       /\ engine.state # "CLOSED" => socket \in {"tls_open", "dead"}
  /\ Reads => socket \in {"open", "tls_open"} /\ engine.state # "CLOSED"

(* The state of the engine that was last reported.                          *)
Seen == IF doing = "input" THEN engine.entry ELSE engine.state

(* Why StatusIsTrue holds: what the engine becomes during a read is         *)
(* reported at its end, a closed engine has ended the loop, and the jingle  *)
(* info and the message that makes the service READY only exist once it is  *)
(* OPEN.                                                                    *)
StatusInv ==
  /\ thread \in {"none", "starting", "ended"} => client_stat \in {"INIT", "NONE"}
  /\ thread = "run" /\ (signal_closed \/ Seen = "CLOSED") => fStop
  /\ thread = "run" /\ doing = "input" =>
       /\ engine.entry \in {"OPENING", "OPEN"}
       /\ engine.state \in {engine.entry, "OPEN", "CLOSED"}
  /\ thread = "run" /\ ~fStop =>
       /\ app = "free" => /\ client_stat \in {Seen, "READY"}
                          /\ client_stat = "READY" => Seen = "OPEN"
       /\ jit # "none" \/ "jit" \in runnable \/ "ready" \in delayed => Seen = "OPEN"

(* A login does not hang, whatever the server does: the service becomes     *)
(* OPEN or ends.                                                            *)
LoginEnds == client_stat \in {"START", "OPENING"} ~> client_stat \notin {"START", "OPENING"}

(* A server that falls silent is noticed by a ping that is not answered.    *)
SilenceNoticed == silent /\ client_stat = "READY" ~> client_stat # "READY"

(* xmpp_service_start returns: the thread of the last service ends.         *)
RestartReturns == app # "free" ~> app = "free"
=============================================================================
