--------------------------- MODULE ServiceProofs ---------------------------
(***************************************************************************)
(* Proofs about Service.tla, for every length of a ping's time: the login  *)
(* authenticates over TLS only, and the status the application sees is     *)
(* true.                                                                   *)
(***************************************************************************)
EXTENDS Service, TLAPS

(* Initially there is no service and no connection.                         *)
LEMMA ServiceInit == Init => TypeOK /\ TlsInv /\ StatusInv
<1>. SUFFICES ASSUME Init PROVE TypeOK /\ TlsInv /\ StatusInv
  OBVIOUS
<1>1. fStop \in BOOLEAN /\ signal_closed \in BOOLEAN
  BY Zenon DEF Init
<1>2. TypeOK
  BY <1>1 DEF Init, TypeOK, NewEngine, NewLogin
<1>. QED
  BY <1>2 DEF Init, TlsInv, StatusInv, NewEngine, NewLogin, Reads, Seen

(* Every step keeps the engine's and the login's records well typed.        *)
LEMMA ServiceType == TypeOK /\ [Next]_vars => TypeOK'
<1>. SUFFICES ASSUME TypeOK, [Next]_vars PROVE TypeOK'
  OBVIOUS
<1>. USE DEF TypeOK, talk, stream, queue, streamOnly
<1>1. ASSUME ServiceStart PROVE TypeOK'
  BY <1>1 DEF ServiceStart
<1>2. ASSUME DeleteThread PROVE TypeOK'
  BY <1>2 DEF DeleteThread
<1>3. ASSUME NewThread PROVE TypeOK'
  <2>1. fStop' \in BOOLEAN /\ signal_closed' \in BOOLEAN
    BY <1>3, Zenon DEF NewThread
  <2>. QED
    BY <1>3, <2>1 DEF NewThread
<1>4. ASSUME DoLogin PROVE TypeOK'
  BY <1>4 DEF DoLogin, NewEngine, NewLogin
<1>5. ASSUME RunEnds PROVE TypeOK'
  BY <1>5 DEF RunEnds
<1>6. ASSUME DoDisconnect PROVE TypeOK'
  BY <1>6 DEF DoDisconnect
<1>7. ASSUME ServiceEnds PROVE TypeOK'
  BY <1>7 DEF ServiceEnds
<1>8. ASSUME RunTasks PROVE TypeOK'
  BY <1>8 DEF RunTasks
<1>9. ASSUME RunTasksEnds PROVE TypeOK'
  BY <1>9 DEF RunTasksEnds
<1>10. ASSUME ClientConnects PROVE TypeOK'
  BY <1>10 DEF ClientConnects
<1>11. ASSUME ClientCannotConnect PROVE TypeOK'
  <2>1. fStop' \in BOOLEAN /\ signal_closed' \in BOOLEAN
    BY <1>11, Zenon DEF ClientCannotConnect, Report
  <2>. QED
    BY <1>11, <2>1 DEF ClientCannotConnect, Report
<1>12. ASSUME ClientResponse PROVE TypeOK'
  BY <1>12 DEF ClientResponse
<1>13. ASSUME JingleInfoStart PROVE TypeOK'
  BY <1>13 DEF JingleInfoStart
<1>14. ASSUME PingStart PROVE TypeOK'
  BY <1>14 DEF PingStart
<1>15. ASSUME PingResponse PROVE TypeOK'
  <2>1. fStop' \in BOOLEAN /\ signal_closed' \in BOOLEAN
    BY <1>15, Zenon DEF PingResponse
  <2>. QED
    BY <1>15, <2>1 DEF PingResponse
<1>16. ASSUME OnLoginTimeout PROVE TypeOK'
  <2>1. fStop' \in BOOLEAN
    BY <1>16, Zenon DEF OnLoginTimeout, Due
  <2>2. UNCHANGED <<thread, doing, signal_closed, engine, login>>
    BY <1>16, Zenon DEF OnLoginTimeout
  <2>. QED
    BY <2>1, <2>2
<1>17. ASSUME OnReady PROVE TypeOK'
  BY <1>17 DEF OnReady, Due, Ping
<1>18. ASSUME OnPing PROVE TypeOK'
  BY <1>18 DEF OnPing, Due, Ping
<1>19. ASSUME OnPoll PROVE TypeOK'
  BY <1>19 DEF OnPoll, Due
<1>20. ASSUME InputEnds PROVE TypeOK'
  BY <1>20 DEF InputEnds, EntryExits, Report
<1>21. ASSUME NEW found \in BOOLEAN, OnResolveResult(found) PROVE TypeOK'
  BY <1>21 DEF OnResolveResult
<1>22. ASSUME SocketConnected PROVE TypeOK'
  BY <1>22 DEF SocketConnected, Report
<1>23. ASSUME TlsConnected PROVE TypeOK'
  BY <1>23 DEF TlsConnected
<1>24. ASSUME SocketCloses PROVE TypeOK'
  BY <1>24 DEF SocketCloses
<1>25. ASSUME InputBegins PROVE TypeOK'
  BY <1>25 DEF InputBegins
<1>26. ASSUME IncomingEnd PROVE TypeOK'
  BY <1>26 DEF IncomingEnd, SignalError
<1>27. ASSUME StreamStart PROVE TypeOK'
  BY <1>27 DEF StreamStart, Goes, Failure, SignalError
<1>28. ASSUME NotFeatures PROVE TypeOK'
  BY <1>28 DEF NotFeatures, Failure, SignalError
<1>29. ASSUME NEW features \in SUBSET {"tls", "sasl", "bind"}, Features(features) PROVE TypeOK'
  <2>1. \/ Goes("TLS_REQUESTED") \/ Goes("SASL_RUNNING") \/ Goes("BIND_REQUESTED") \/ Failure
    BY <1>29, Zenon DEF Features
  <2>2. UNCHANGED streamOnly
    BY <1>29, Zenon DEF Features
  <2>3. CASE Failure
    BY <2>2, <2>3 DEF Failure, SignalError
  <2>4. CASE ~Failure
    BY <2>1, <2>2, <2>4 DEF Goes
  <2>. QED
    BY <2>3, <2>4
<1>30. ASSUME Proceed PROVE TypeOK'
  BY <1>30 DEF Proceed
<1>31. ASSUME NotProceed PROVE TypeOK'
  BY <1>31 DEF NotProceed, Failure, SignalError
<1>32. ASSUME SaslSuccess PROVE TypeOK'
  BY <1>32 DEF SaslSuccess
<1>33. ASSUME SaslFailure PROVE TypeOK'
  BY <1>33 DEF SaslFailure, Failure, SignalError
<1>34. ASSUME BindAnswered PROVE TypeOK'
  BY <1>34 DEF BindAnswered, Goes, Failure, SignalError
<1>35. ASSUME SessionAnswered PROVE TypeOK'
  BY <1>35 DEF SessionAnswered, Failure, SignalError
<1>36. ASSUME JingleInfo PROVE TypeOK'
  BY <1>36 DEF JingleInfo
<1>37. ASSUME Pong PROVE TypeOK'
  BY <1>37 DEF Pong
<1>38. ASSUME GoSilent PROVE TypeOK'
  BY <1>38 DEF GoSilent
<1>39. CASE UNCHANGED vars
  BY <1>39 DEF vars
<1>40. ASSUME InputGoesOn PROVE TypeOK'
  BY <1>40 DEF InputGoesOn, EntryExits, Report
<1>. QED
  BY <1>1, <1>2, <1>3, <1>4, <1>5, <1>6, <1>7, <1>8, <1>9, <1>10, <1>11, <1>12,
     <1>13, <1>14, <1>15, <1>16, <1>17, <1>18, <1>19, <1>20, <1>21, <1>22, <1>23, <1>24,
     <1>25, <1>26, <1>27, <1>28, <1>29, <1>30, <1>31, <1>32, <1>33, <1>34, <1>35, <1>36,
     <1>37, <1>38, <1>39, <1>40
  DEF Next, Application, Tasks, Messages, Server

(* An error closes the engine, and nothing is read after it.                *)
LEMMA ErrorFields ==
  ASSUME TypeOK, SignalError
  PROVE  /\ engine'.state = "CLOSED" /\ engine'.error = TRUE
         /\ engine'.tls_needed = engine.tls_needed
BY DEF TypeOK, SignalError

(* A read that fails keeps the login off a connection without TLS.          *)
LEMMA FailureTls ==
  ASSUME TypeOK, TlsInv, Reads, SignalError, UNCHANGED <<thread, xclient, socket>>,
         login' \in {login, [login EXCEPT !.state = "DONE"]}
  PROVE  TlsInv'
<1>1. engine'.state = "CLOSED" /\ engine'.error = TRUE /\ engine'.tls_needed = engine.tls_needed
  BY ErrorFields
<1>2. ~Reads' /\ socket' # "connecting" /\ (thread = "run" => xclient # "INIT")
  BY <1>1 DEF Reads, TlsInv, NewEngine, TypeOK
<1>3. login'.state = login.state \/ login'.state = "DONE"
  BY DEF TypeOK
<1>. QED
  BY <1>1, <1>2, <1>3 DEF TlsInv

(* Every step keeps the login off a connection without TLS.                 *)
LEMMA TlsNext == TypeOK /\ TlsInv /\ [Next]_vars => TlsInv'
<1>. SUFFICES ASSUME TypeOK, TlsInv, [Next]_vars PROVE TlsInv'
  OBVIOUS
<1>. USE DEF TypeOK, TlsInv, Reads, Idle, Runs, Waits, talk, stream, queue, streamOnly
<1>1. ASSUME ServiceStart PROVE TlsInv'
  BY <1>1 DEF ServiceStart
<1>2. ASSUME DeleteThread PROVE TlsInv'
  BY <1>2 DEF DeleteThread
<1>3. ASSUME NewThread PROVE TlsInv'
  BY <1>3 DEF NewThread
<1>4. ASSUME DoLogin PROVE TlsInv'
  BY <1>4 DEF DoLogin, NewEngine, NewLogin
<1>5. ASSUME RunEnds PROVE TlsInv'
  BY <1>5 DEF RunEnds
<1>6. ASSUME DoDisconnect PROVE TlsInv'
  BY <1>6 DEF DoDisconnect, NewEngine, NewLogin
<1>7. ASSUME ServiceEnds PROVE TlsInv'
  BY <1>7 DEF ServiceEnds
<1>8. ASSUME RunTasks PROVE TlsInv'
  BY <1>8 DEF RunTasks
<1>9. ASSUME RunTasksEnds PROVE TlsInv'
  BY <1>9 DEF RunTasksEnds
<1>10. ASSUME ClientConnects PROVE TlsInv'
  BY <1>10 DEF ClientConnects, NewEngine, NewLogin
<1>11. ASSUME ClientCannotConnect PROVE TlsInv'
  BY <1>11 DEF ClientCannotConnect, Report
<1>12. ASSUME ClientResponse PROVE TlsInv'
  BY <1>12 DEF ClientResponse, NewEngine, NewLogin
<1>13. ASSUME JingleInfoStart PROVE TlsInv'
  BY <1>13 DEF JingleInfoStart
<1>14. ASSUME PingStart PROVE TlsInv'
  BY <1>14 DEF PingStart
<1>15. ASSUME PingResponse PROVE TlsInv'
  BY <1>15 DEF PingResponse
<1>16. ASSUME OnLoginTimeout PROVE TlsInv'
  BY <1>16 DEF OnLoginTimeout, Due
<1>17. ASSUME OnReady PROVE TlsInv'
  BY <1>17 DEF OnReady, Due, Ping
<1>18. ASSUME OnPing PROVE TlsInv'
  BY <1>18 DEF OnPing, Due, Ping
<1>19. ASSUME OnPoll PROVE TlsInv'
  BY <1>19 DEF OnPoll, Due
<1>20. ASSUME InputEnds PROVE TlsInv'
  BY <1>20 DEF InputEnds, EntryExits, Report, NewEngine, NewLogin
<1>21. ASSUME NEW found \in BOOLEAN, OnResolveResult(found) PROVE TlsInv'
  BY <1>21 DEF OnResolveResult
<1>22. ASSUME SocketConnected PROVE TlsInv'
  BY <1>22 DEF SocketConnected, Report, NewEngine, NewLogin
<1>23. ASSUME TlsConnected PROVE TlsInv'
  BY <1>23 DEF TlsConnected
<1>24. ASSUME SocketCloses PROVE TlsInv'
  BY <1>24 DEF SocketCloses
<1>25. ASSUME InputBegins PROVE TlsInv'
  BY <1>25 DEF InputBegins, NewEngine, NewLogin
<1>26. ASSUME IncomingEnd PROVE TlsInv'
  BY <1>26, FailureTls DEF IncomingEnd
<1>27. ASSUME StreamStart PROVE TlsInv'
  <2>1. CASE Failure
    BY <1>27, <2>1, FailureTls DEF StreamStart, Failure
  <2>2. CASE ~Failure
    BY <1>27, <2>2 DEF StreamStart, Goes, NewEngine, NewLogin
  <2>. QED
    BY <2>1, <2>2
<1>28. ASSUME NotFeatures PROVE TlsInv'
  BY <1>28, FailureTls DEF NotFeatures, Failure
<1>29. ASSUME NEW features \in SUBSET {"tls", "sasl", "bind"}, Features(features) PROVE TlsInv'
  <2>1. CASE Failure
    BY <1>29, <2>1, FailureTls DEF Features, Failure
  <2>2. CASE ~Failure
    BY <1>29, <2>2 DEF Features, Goes, NewEngine, NewLogin
  <2>. QED
    BY <2>1, <2>2
<1>30. ASSUME Proceed PROVE TlsInv'
  BY <1>30 DEF Proceed, NewEngine, NewLogin
<1>31. ASSUME NotProceed PROVE TlsInv'
  BY <1>31, FailureTls DEF NotProceed, Failure
<1>32. ASSUME SaslSuccess PROVE TlsInv'
  BY <1>32 DEF SaslSuccess, NewEngine, NewLogin
<1>33. ASSUME SaslFailure PROVE TlsInv'
  BY <1>33, FailureTls DEF SaslFailure, Failure
<1>34. ASSUME BindAnswered PROVE TlsInv'
  <2>1. CASE Failure
    BY <1>34, <2>1, FailureTls DEF BindAnswered, Failure
  <2>2. CASE ~Failure
    BY <1>34, <2>2 DEF BindAnswered, Goes, NewEngine, NewLogin
  <2>. QED
    BY <2>1, <2>2
<1>35. ASSUME SessionAnswered PROVE TlsInv'
  <2>1. CASE Failure
    BY <1>35, <2>1, FailureTls DEF SessionAnswered, Failure
  <2>2. CASE ~Failure
    <3>1. /\ engine' = [engine EXCEPT !.state = "OPEN"] /\ login'.state = "DONE"
          /\ UNCHANGED <<thread, xclient, socket, doing>>
      BY <1>35, <2>2 DEF SessionAnswered
    <3>2. /\ engine.tls_needed = TRUE \/ socket = "tls_open"
          /\ engine'.tls_needed = engine.tls_needed
      BY <1>35, <3>1 DEF SessionAnswered
    <3>3. socket \in {"open", "tls_open"}
      BY <1>35 DEF SessionAnswered
    <3>. QED
      BY <1>35, <3>1, <3>2, <3>3 DEF SessionAnswered
  <2>. QED
    BY <2>1, <2>2
<1>36. ASSUME JingleInfo PROVE TlsInv'
  BY <1>36 DEF JingleInfo
<1>37. ASSUME Pong PROVE TlsInv'
  BY <1>37 DEF Pong
<1>38. ASSUME GoSilent PROVE TlsInv'
  BY <1>38 DEF GoSilent
<1>39. CASE UNCHANGED vars
  BY <1>39 DEF vars
<1>40. ASSUME InputGoesOn PROVE TlsInv'
  BY <1>40 DEF InputGoesOn, EntryExits, Report, NewEngine, NewLogin
<1>. QED
  BY <1>1, <1>2, <1>3, <1>4, <1>5, <1>6, <1>7, <1>8, <1>9, <1>10, <1>11, <1>12,
     <1>13, <1>14, <1>15, <1>16, <1>17, <1>18, <1>19, <1>20, <1>21, <1>22, <1>23, <1>24,
     <1>25, <1>26, <1>27, <1>28, <1>29, <1>30, <1>31, <1>32, <1>33, <1>34, <1>35, <1>36,
     <1>37, <1>38, <1>39, <1>40
  DEF Next, Application, Tasks, Messages, Server

(* The account is never authenticated, and nothing is bound, over a         *)
(* connection that is not TLS, whatever the server offers or leaves out.    *)
THEOREM LoginOverTls == Spec => []AuthenticatedOverTls
<1>1. TlsInv => AuthenticatedOverTls
  BY DEF TlsInv, AuthenticatedOverTls
<1>. QED
  BY <1>1, ServiceInit, ServiceType, TlsNext, PTL DEF Spec

-----------------------------------------------------------------------------
(* Every step keeps the status, the engine and what depends on them in      *)
(* agreement.                                                               *)
LEMMA StatusNext == TypeOK /\ TlsInv /\ StatusInv /\ [Next]_vars => StatusInv'
<1>. SUFFICES ASSUME TypeOK, TlsInv, StatusInv, [Next]_vars PROVE StatusInv'
  OBVIOUS
<1>. USE DEF TypeOK, StatusInv, Seen, Reads, Idle, Runs, Waits, talk, stream, queue, streamOnly
<1>1. ASSUME ServiceStart PROVE StatusInv'
  BY <1>1 DEF ServiceStart
<1>2. ASSUME DeleteThread PROVE StatusInv'
  BY <1>2 DEF DeleteThread
<1>3. ASSUME NewThread PROVE StatusInv'
  BY <1>3 DEF NewThread
<1>4. ASSUME DoLogin PROVE StatusInv'
  BY <1>4 DEF DoLogin, NewEngine, NewLogin
<1>5. ASSUME RunEnds PROVE StatusInv'
  BY <1>5 DEF RunEnds
<1>6. ASSUME DoDisconnect PROVE StatusInv'
  BY <1>6 DEF DoDisconnect
<1>7. ASSUME ServiceEnds PROVE StatusInv'
  BY <1>7 DEF ServiceEnds
<1>8. ASSUME RunTasks PROVE StatusInv'
  BY <1>8 DEF RunTasks
<1>9. ASSUME RunTasksEnds PROVE StatusInv'
  BY <1>9 DEF RunTasksEnds
<1>10. ASSUME ClientConnects PROVE StatusInv'
  BY <1>10 DEF ClientConnects
<1>11. ASSUME ClientCannotConnect PROVE StatusInv'
  BY <1>11 DEF ClientCannotConnect, Report
<1>12. ASSUME ClientResponse PROVE StatusInv'
  BY <1>12 DEF ClientResponse
<1>13. ASSUME JingleInfoStart PROVE StatusInv'
  BY <1>13 DEF JingleInfoStart
<1>14. ASSUME PingStart PROVE StatusInv'
  BY <1>14 DEF PingStart
<1>15. ASSUME PingResponse PROVE StatusInv'
  BY <1>15 DEF PingResponse
<1>16. ASSUME OnLoginTimeout PROVE StatusInv'
  BY <1>16 DEF OnLoginTimeout, Due
<1>17. ASSUME OnReady PROVE StatusInv'
  BY <1>17 DEF OnReady, Due, Ping
<1>18. ASSUME OnPing PROVE StatusInv'
  BY <1>18 DEF OnPing, Due, Ping
<1>19. ASSUME OnPoll PROVE StatusInv'
  BY <1>19 DEF OnPoll, Due
<1>20. ASSUME InputEnds PROVE StatusInv'
  BY <1>20 DEF InputEnds, EntryExits, Report
<1>21. ASSUME NEW found \in BOOLEAN, OnResolveResult(found) PROVE StatusInv'
  BY <1>21 DEF OnResolveResult
<1>22. ASSUME SocketConnected PROVE StatusInv'
  BY <1>22 DEF SocketConnected, Report, TlsInv, NewEngine
<1>23. ASSUME TlsConnected PROVE StatusInv'
  BY <1>23 DEF TlsConnected
<1>24. ASSUME SocketCloses PROVE StatusInv'
  BY <1>24 DEF SocketCloses
<1>25. ASSUME InputBegins PROVE StatusInv'
  BY <1>25 DEF InputBegins
<1>26. ASSUME IncomingEnd PROVE StatusInv'
  BY <1>26 DEF IncomingEnd, SignalError
<1>27. ASSUME StreamStart PROVE StatusInv'
  BY <1>27 DEF StreamStart, Goes, Failure, SignalError
<1>28. ASSUME NotFeatures PROVE StatusInv'
  BY <1>28 DEF NotFeatures, Failure, SignalError
<1>29. ASSUME NEW features \in SUBSET {"tls", "sasl", "bind"}, Features(features) PROVE StatusInv'
  BY <1>29 DEF Features, Goes, Failure, SignalError
<1>30. ASSUME Proceed PROVE StatusInv'
  BY <1>30 DEF Proceed
<1>31. ASSUME NotProceed PROVE StatusInv'
  BY <1>31 DEF NotProceed, Failure, SignalError
<1>32. ASSUME SaslSuccess PROVE StatusInv'
  BY <1>32 DEF SaslSuccess
<1>33. ASSUME SaslFailure PROVE StatusInv'
  BY <1>33 DEF SaslFailure, Failure, SignalError
<1>34. ASSUME BindAnswered PROVE StatusInv'
  BY <1>34 DEF BindAnswered, Goes, Failure, SignalError
<1>35. ASSUME SessionAnswered PROVE StatusInv'
  BY <1>35 DEF SessionAnswered, Failure, SignalError
<1>36. ASSUME JingleInfo PROVE StatusInv'
  BY <1>36 DEF JingleInfo
<1>37. ASSUME Pong PROVE StatusInv'
  BY <1>37 DEF Pong
<1>38. ASSUME GoSilent PROVE StatusInv'
  BY <1>38 DEF GoSilent
<1>39. CASE UNCHANGED vars
  BY <1>39 DEF vars
<1>40. ASSUME InputGoesOn PROVE StatusInv'
  BY <1>40 DEF InputGoesOn, EntryExits, Report
<1>. QED
  BY <1>1, <1>2, <1>3, <1>4, <1>5, <1>6, <1>7, <1>8, <1>9, <1>10, <1>11, <1>12,
     <1>13, <1>14, <1>15, <1>16, <1>17, <1>18, <1>19, <1>20, <1>21, <1>22, <1>23, <1>24,
     <1>25, <1>26, <1>27, <1>28, <1>29, <1>30, <1>31, <1>32, <1>33, <1>34, <1>35, <1>36,
     <1>37, <1>38, <1>39, <1>40
  DEF Next, Application, Tasks, Messages, Server

(* What xmpp_get_service_state returns is true: no status of an engine that *)
(* has changed since, none that outlives its service, and no READY without  *)
(* an open stream.                                                          *)
THEOREM StatusTrue == Spec => []StatusIsTrue
<1>1. StatusInv => StatusIsTrue
  BY DEF StatusInv, StatusIsTrue, Idle, Seen
<1>. QED
  BY <1>1, ServiceInit, ServiceType, TlsNext, StatusNext, PTL DEF Spec
=============================================================================
