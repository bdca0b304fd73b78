-------------------------------- MODULE Call --------------------------------
(***************************************************************************)
(* What a session promises the two clients that use it, without stanzas,   *)
(* queues, timers or transports: the caller is connected only to a callee  *)
(* that accepted, the callee answers once, and an end that has ended stays *)
(* so.                                                                     *)
(***************************************************************************)
VARIABLES
  phase,    \* phase[e]: idle, trying, connected or ended
  answer    \* what the callee has answered: none, accept or reject

Ends == {"caller", "callee"}

Init ==
  /\ phase = [e \in Ends |-> "idle"]
  /\ answer = "none"

Dial ==
  /\ phase["caller"] = "idle"
  /\ phase' = [phase EXCEPT !["caller"] = "trying"]
  /\ UNCHANGED answer

(* The offer reaches the callee, once, after the caller has made it.        *)
Ring ==
  /\ phase["caller"] # "idle"
  /\ phase["callee"] = "idle"
  /\ phase' = [phase EXCEPT !["callee"] = "trying"]
  /\ UNCHANGED answer

(* The callee answers, at once or later.                                    *)
Answer(a) ==
  /\ answer = "none"
  /\ phase["caller"] # "idle"
  /\ phase["callee"] \in {"idle", "trying"}
  /\ answer' = a
  /\ phase' = [phase EXCEPT !["callee"] = IF a = "accept" THEN "connected" ELSE "ended"]

Connect ==
  /\ answer = "accept"
  /\ phase["caller"] = "trying"
  /\ phase' = [phase EXCEPT !["caller"] = "connected"]
  /\ UNCHANGED answer

End(e) ==
  /\ phase[e] \in {"trying", "connected"}
  /\ phase' = [phase EXCEPT ![e] = "ended"]
  /\ UNCHANGED answer

Next ==
  \/ Dial
  \/ Ring
  \/ \E a \in {"accept", "reject"} : Answer(a)
  \/ Connect
  \/ \E e \in Ends : End(e)

Spec == Init /\ [][Next]_<<phase, answer>>
=============================================================================
