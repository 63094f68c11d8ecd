--------------------------- MODULE DaemonRunProofs ---------------------------
(***************************************************************************)
(* The properties of the daemon's life cycle, for any number of daemons,   *)
(* addresses and requests.  The invariant says at each place of Run which  *)
(* listeners serve, on what addresses, and whose requests may be left.     *)
(***************************************************************************)
EXTENDS DaemonRun, TLAPS

\* No request that came in by listener s of daemon d is being handled.
Drained(d, s) ==
    \A r \in Requests : via[r].daemon = d /\ via[r].server = s => stage[r] \notin InFlight

(* Until the listeners are up: nothing serves that was not checked.        *)
Starting(d) ==
    /\ pc[d] \in {"checkHttps", "cert", "listenHttps"} =>
          server[d]["https"] = "off" /\ server[d]["http"] = "off"
    /\ pc[d] \in {"cert", "listenHttps"} => cfg[d]["https"] \in Loopback
    /\ pc[d] \in {"checkHttp", "listenHttp"} =>
          server[d]["http"] = "off" /\ cfg[d]["http"] # None
    /\ pc[d] = "listenHttp" => cfg[d]["http"] \in Loopback
    /\ server[d]["https"] = "serving" /\ server[d]["http"] = "serving" =>
          cfg[d]["https"] # cfg[d]["http"]

(* From the select on: what has been told to stop, what it waited for, and *)
(* why.                                                                    *)
Stopping(d) ==
    /\ pc[d] \in {"stopHttps", "stopHttp", "exited"} => server[d]["https"] # "serving"
    /\ pc[d] \in {"stopHttp", "exited"} => server[d]["http"] # "serving"
    /\ pc[d] = "stopHttp" => Drained(d, "https") \/ expired[d]
    /\ pc[d] = "returned" =>
          \/ failure[d] /\ cfg[d]["http"] # None /\ server[d]["http"] = "off"
          \/ expired[d]
          \/ /\ \A s \in Servers : server[d][s] # "serving"
             /\ \A s \in Servers : Drained(d, s)
    /\ pc[d] \in {"stopHttps", "stopHttp", "returned", "exited"} =>
          failure[d] \/ signalled[d]
    /\ exit[d] # -1 <=> pc[d] = "exited"
    /\ exit[d] = 0 => ~failure[d]

(* A request in flight came in by a listener; one that was cut short came  *)
(* to a daemon that has exited.                                            *)
Accepted(r) ==
    /\ stage[r] \in InFlight =>
          /\ via[r].daemon \in Daemons /\ via[r].server \in Servers
          /\ server[via[r].daemon][via[r].server] # "off"
    /\ r \in cut => /\ stage[r] = "cut"
                    /\ via[r].daemon \in Daemons /\ via[r].server \in Servers
                    /\ pc[via[r].daemon] = "exited"

IndInv == /\ TypeOK
          /\ \A d \in Daemons : Starting(d) /\ Stopping(d)
          /\ \A r \in Requests : Accepted(r)
          /\ ListenersOwnAddresses
          /\ CutOnlyLate

-----------------------------------------------------------------------------
(* Both of a daemon's addresses are addresses, or none is asked for.       *)
LEMMA ConfigTypes ==
  ASSUME TypeOK, NEW d \in Daemons
  PROVE  cfg[d]["https"] \in Addrs /\ cfg[d]["http"] \in Addrs \cup {None}
<1>1. cfg[d] \in [https : Addrs, http : Addrs \cup {None}]
  BY RunAssumption DEF TypeOK
<1> QED
  BY <1>1

(* No request came in by a listener that never served.                     *)
LEMMA OffIsDrained ==
  ASSUME IndInv, NEW d \in Daemons, NEW s \in Servers, server[d][s] = "off"
  PROVE  Drained(d, s)
  BY DEF IndInv, Accepted, Drained

(* A listener that changes leaves the others as they were.                 *)
LEMMA ServerTypes ==
  ASSUME TypeOK, NEW d \in Daemons, NEW s \in Servers,
         NEW v \in {"off", "serving", "failed", "closed"},
         server' = [server EXCEPT ![d][s] = v]
  PROVE  /\ server' \in [Daemons -> [Servers -> {"off", "serving", "failed", "closed"}]]
         /\ \A e \in Daemons, t \in Servers :
                server'[e][t] = IF e = d /\ t = s THEN v ELSE server[e][t]
  BY DEF TypeOK

(* What has been said of the cut requests stays true of a daemon that has  *)
(* exited and of which nothing changes any more.                           *)
LEMMA CutStays ==
  ASSUME IndInv, UNCHANGED <<cfg, via, cut>>,
         \A e \in Daemons : pc[e] = "exited" =>
             /\ expired[e] => expired'[e]
             /\ server[e]["http"] = "off" => server'[e]["http"] = "off"
             /\ exit'[e] = exit[e]
  PROVE  CutOnlyLate'
<1> SUFFICES ASSUME NEW r \in cut, NEW d, d = via[r].daemon
             PROVE  \/ expired'[d]
                    \/ /\ cfg[d].http # None /\ server'[d]["http"] = "off"
                       /\ exit'[d] = 1 /\ via[r].server = "https"
  BY DEF CutOnlyLate
<1>1. d \in Daemons /\ pc[d] = "exited"
  BY DEF IndInv, TypeOK, Accepted
<1> QED
  BY <1>1 DEF IndInv, CutOnlyLate

(* Daemons start with nothing open and nothing accepted.                   *)
LEMMA InitHolds == Init => IndInv
<1> SUFFICES ASSUME Init PROVE IndInv
  OBVIOUS
<1> USE RunAssumption DEF Init
<1>1. TypeOK
  BY DEF TypeOK, Servers, InFlight, Nowhere
<1>2. ASSUME NEW d \in Daemons PROVE Starting(d) /\ Stopping(d)
  BY DEF Starting, Stopping, Servers
<1>3. ASSUME NEW r \in Requests PROVE Accepted(r)
  BY DEF Accepted, InFlight
<1>4. ListenersOwnAddresses
  BY DEF ListenersOwnAddresses, Servers
<1>5. CutOnlyLate
  BY DEF CutOnlyLate
<1> QED
  BY <1>1, <1>2, <1>3, <1>4, <1>5 DEF IndInv

(* An error before the select returns with no request of a listener other  *)
(* than the HTTPS one of a daemon that wants HTTP too.                     *)
LEMMA FailStep ==
  ASSUME IndInv, NEW d \in Daemons, Fail(d),
         pc[d] \in {"checkHttps", "cert", "listenHttps", "checkHttp", "listenHttp"},
         UNCHANGED <<cfg, signalled, server, bound, serveErrs, expired, exit, requestVars>>
  PROVE  IndInv'
<1> USE DEF IndInv, Fail, Goto, requestVars
<1>1. TypeOK' /\ ListenersOwnAddresses' /\ CutOnlyLate'
  <2>1. TypeOK'
    BY DEF TypeOK
  <2>2. ListenersOwnAddresses'
    BY DEF ListenersOwnAddresses
  <2> QED
    BY <2>1, <2>2, CutStays
<1>2. ASSUME NEW e \in Daemons PROVE Starting(e)' /\ Stopping(e)'
  <2>1. \A s \in Servers : Drained(e, s)' = Drained(e, s)
    BY DEF Drained
  <2>2. \A s \in Servers : server[e][s] = "off" => Drained(e, s)
    BY OffIsDrained
  <2> QED
    BY <2>1, <2>2 DEF TypeOK, Starting, Stopping, Servers
<1>3. ASSUME NEW r \in Requests PROVE Accepted(r)'
  BY DEF TypeOK, Accepted
<1> QED
  BY <1>1, <1>2, <1>3

(* A check that passes, and a certificate that loads, only go on.          *)
LEMMA GoOnStep ==
  ASSUME IndInv, NEW d \in Daemons,
         \/ pc[d] = "checkHttps" /\ cfg[d]["https"] \in Loopback /\ Goto(d, "cert")
         \/ pc[d] = "cert" /\ Goto(d, "listenHttps")
         \/ pc[d] = "checkHttp" /\ cfg[d]["http"] \in Loopback /\ Goto(d, "listenHttp"),
         UNCHANGED <<cfg, signalled, server, bound, failure, serveErrs, expired, exit,
                     requestVars>>
  PROVE  IndInv'
<1> USE DEF IndInv, Goto, requestVars
<1>1. TypeOK' /\ ListenersOwnAddresses' /\ CutOnlyLate'
  <2>1. TypeOK'
    BY DEF TypeOK
  <2>2. ListenersOwnAddresses'
    BY DEF ListenersOwnAddresses
  <2> QED
    BY <2>1, <2>2, CutStays
<1>2. ASSUME NEW e \in Daemons PROVE Starting(e)' /\ Stopping(e)'
  <2>1. \A s \in Servers : Drained(e, s)' = Drained(e, s)
    BY DEF Drained
  <2> QED
    BY <2>1 DEF TypeOK, Starting, Stopping, Servers
<1>3. ASSUME NEW r \in Requests PROVE Accepted(r)'
  BY DEF TypeOK, Accepted
<1> QED
  BY <1>1, <1>2, <1>3

(* A listener that comes up takes a loopback address that was free, so     *)
(* that two of them never have the same.                                   *)
LEMMA ListenStep ==
  ASSUME IndInv, NEW d \in Daemons, NEW s \in Servers,
         NEW next \in {"select", "checkHttp"},
         pc[d] \in {"listenHttps", "listenHttp"},
         server[d][s] = "off", server[d]["http"] = "off",
         next = "checkHttp" => s = "https" /\ cfg[d]["http"] # None,
         cfg[d][s] \in Loopback, bound[cfg[d][s]] = None,
         bound' = [bound EXCEPT ![cfg[d][s]] = d],
         server' = [server EXCEPT ![d][s] = "serving"],
         pc' = [pc EXCEPT ![d] = next],
         UNCHANGED <<cfg, signalled, failure, serveErrs, expired, exit, requestVars>>
  PROVE  IndInv'
<1> USE RunAssumption DEF IndInv, requestVars
<1>1. /\ server' \in [Daemons -> [Servers -> {"off", "serving", "failed", "closed"}]]
      /\ \A e \in Daemons, t \in Servers :
             server'[e][t] = IF e = d /\ t = s THEN "serving" ELSE server[e][t]
  BY DEF TypeOK
<1>2. bound' \in [Addrs -> Daemons \cup {None}]
  BY DEF TypeOK
<1>3. TypeOK'
  BY <1>1, <1>2 DEF TypeOK
<1>4. ASSUME NEW e \in Daemons PROVE Starting(e)'
  BY <1>1 DEF TypeOK, Starting, ListenersOwnAddresses, Servers
<1>5. ASSUME NEW e \in Daemons PROVE Stopping(e)'
  <2>1. \A t \in Servers : Drained(e, t)' = Drained(e, t)
    BY DEF Drained
  <2> QED
    BY <1>1, <2>1 DEF TypeOK, Starting, Stopping, Servers
<1>6. ASSUME NEW r \in Requests PROVE Accepted(r)'
  BY <1>1 DEF TypeOK, Accepted
<1>7. ListenersOwnAddresses'
  <2>1. \A a \in Addrs : bound'[a] = IF a = cfg[d][s] THEN d ELSE bound[a]
    BY DEF TypeOK
  <2>2. Loopback \subseteq Addrs /\ None \notin Daemons
    OBVIOUS
  <2> QED
    BY <1>1, <2>1, <2>2 DEF ListenersOwnAddresses
<1>8. CutOnlyLate'
  BY <1>1, CutStays DEF Servers
<1> QED
  BY <1>3, <1>4, <1>5, <1>6, <1>7, <1>8

(* The steps of Run up to its select.                                      *)
LEMMA StartStep ==
  ASSUME IndInv, NEW d \in Daemons,
         \/ CheckHttps(d) \/ LoadCert(d) \/ ListenHttps(d) \/ CheckHttp(d) \/ ListenHttp(d)
  PROVE  IndInv'
<1>1. CASE CheckHttps(d)
  BY <1>1, FailStep, GoOnStep DEF CheckHttps, Checked
<1>2. CASE LoadCert(d)
  BY <1>2, FailStep, GoOnStep DEF LoadCert
<1>3. CASE CheckHttp(d)
  BY <1>3, FailStep, GoOnStep DEF CheckHttp, Checked
<1>4. CASE ListenHttps(d)
  <2>1. /\ pc[d] = "listenHttps" /\ cfg[d]["https"] \in Loopback
        /\ server[d]["https"] = "off" /\ server[d]["http"] = "off"
    BY <1>4 DEF ListenHttps, IndInv, Starting
  <2> QED
    BY <1>4, <2>1, FailStep, ListenStep DEF ListenHttps, Listen, Goto, Servers
<1>5. CASE ListenHttp(d)
  <2>1. /\ pc[d] = "listenHttp" /\ cfg[d]["http"] \in Loopback
        /\ server[d]["http"] = "off"
    BY <1>5 DEF ListenHttp, IndInv, Starting
  <2> QED
    BY <1>5, <2>1, FailStep, ListenStep DEF ListenHttp, Listen, Goto, Servers
<1> QED
  BY <1>1, <1>2, <1>3, <1>4, <1>5

(* A listener that is told to stop gives its address up.                   *)
LEMMA ClosingEffect ==
  ASSUME TypeOK, ListenersOwnAddresses, NEW d \in Daemons, NEW s \in Servers,
         server[d]["https"] = "serving" /\ server[d]["http"] = "serving" =>
             cfg[d]["https"] # cfg[d]["http"],
         Closing(d, s), UNCHANGED cfg
  PROVE  /\ server' \in [Daemons -> [Servers -> {"off", "serving", "failed", "closed"}]]
         /\ bound' \in [Addrs -> Daemons \cup {None}]
         /\ server'[d][s] # "serving"
         /\ \A e \in Daemons, t \in Servers :
                /\ server'[e][t] # server[e][t] => e = d /\ t = s /\ server'[e][t] = "closed"
                /\ server'[e][t] = "off" <=> server[e][t] = "off"
         /\ ListenersOwnAddresses'
<1>1. CASE server[d][s] = "serving"
  <2> USE <1>1, RunAssumption DEF Closing, Released
  <2>1. /\ server' \in [Daemons -> [Servers -> {"off", "serving", "failed", "closed"}]]
        /\ \A e \in Daemons, t \in Servers :
               server'[e][t] = IF e = d /\ t = s THEN "closed" ELSE server[e][t]
    BY ServerTypes
  <2>2. bound' \in [Addrs -> Daemons \cup {None}]
    BY DEF TypeOK
  <2>3. ListenersOwnAddresses'
    BY <2>1 DEF TypeOK, ListenersOwnAddresses, Servers
  <2> QED
    BY <1>1, <2>1, <2>2, <2>3
<1>2. CASE server[d][s] # "serving"
  BY <1>2 DEF Closing, TypeOK, ListenersOwnAddresses
<1> QED
  BY <1>1, <1>2

(* A signal or a listener's error begins the first Shutdown.               *)
LEMMA SelectStep ==
  ASSUME IndInv, NEW d \in Daemons, Select(d)
  PROVE  IndInv'
<1> USE DEF IndInv, Select, Goto, requestVars
<1>1. /\ server' \in [Daemons -> [Servers -> {"off", "serving", "failed", "closed"}]]
      /\ bound' \in [Addrs -> Daemons \cup {None}]
      /\ server'[d]["https"] # "serving"
      /\ \A e \in Daemons, t \in Servers :
             /\ server'[e][t] # server[e][t] => e = d /\ server'[e][t] = "closed"
             /\ server'[e][t] = "off" <=> server[e][t] = "off"
      /\ ListenersOwnAddresses'
  BY ClosingEffect DEF Starting, Servers
<1>2. TypeOK'
  <2>1. failure' \in [Daemons -> BOOLEAN]
    BY DEF TypeOK
  <2> QED
    BY <1>1, <2>1 DEF TypeOK
<1>3. ASSUME NEW e \in Daemons PROVE Starting(e)' /\ Stopping(e)'
  <2>1. \A t \in Servers : Drained(e, t)' = Drained(e, t)
    BY DEF Drained
  <2> QED
    BY <1>1, <2>1 DEF TypeOK, Starting, Stopping, Servers
<1>4. ASSUME NEW r \in Requests PROVE Accepted(r)'
  BY <1>1 DEF TypeOK, Accepted
<1>5. CutOnlyLate'
  BY <1>1, CutStays DEF Servers
<1> QED
  BY <1>1, <1>2, <1>3, <1>4, <1>5

(* The second Shutdown begins when the first has drained or timed out.     *)
LEMMA StopHttpsStep ==
  ASSUME IndInv, NEW d \in Daemons, StopHttps(d)
  PROVE  IndInv'
<1> USE DEF IndInv, StopHttps, Goto, requestVars
<1>1. /\ server' \in [Daemons -> [Servers -> {"off", "serving", "failed", "closed"}]]
      /\ bound' \in [Addrs -> Daemons \cup {None}]
      /\ server'[d]["http"] # "serving"
      /\ \A e \in Daemons, t \in Servers :
             /\ server'[e][t] # server[e][t] => e = d /\ server'[e][t] = "closed"
             /\ server'[e][t] = "off" <=> server[e][t] = "off"
      /\ ListenersOwnAddresses'
  BY ClosingEffect DEF Starting, Servers
<1>2. TypeOK'
  BY <1>1 DEF TypeOK
<1>3. Drained(d, "https") \/ expired[d]
  BY DEF HandlingBy, Handling, Drained
<1>4. ASSUME NEW e \in Daemons PROVE Starting(e)' /\ Stopping(e)'
  <2>1. \A t \in Servers : Drained(e, t)' = Drained(e, t)
    BY DEF Drained
  <2> QED
    BY <1>1, <1>3, <2>1 DEF TypeOK, Starting, Stopping, Servers
<1>5. ASSUME NEW r \in Requests PROVE Accepted(r)'
  BY <1>1 DEF TypeOK, Accepted
<1>6. CutOnlyLate'
  BY <1>1, CutStays DEF Servers
<1> QED
  BY <1>1, <1>2, <1>4, <1>5, <1>6

(* Run returns when both have drained or the deadline is past.             *)
LEMMA StopHttpStep ==
  ASSUME IndInv, NEW d \in Daemons, StopHttp(d)
  PROVE  IndInv'
<1> USE RunAssumption DEF IndInv, StopHttp, HandlingBy, Handling, Goto, requestVars
<1>1. TypeOK'
  BY DEF TypeOK, Servers, InFlight
<1>2. ASSUME NEW e \in Daemons PROVE Starting(e)'
  BY ConfigTypes DEF TypeOK, Starting, ListenersOwnAddresses, Servers
<1>3. ASSUME NEW e \in Daemons PROVE Stopping(e)'
  BY ConfigTypes DEF TypeOK, Starting, Stopping, Drained, Accepted, Servers, InFlight
<1>4. ASSUME NEW r \in Requests PROVE Accepted(r)'
  BY DEF TypeOK, Starting, Accepted, Servers, InFlight
<1>5. ListenersOwnAddresses'
  BY ConfigTypes DEF TypeOK, Starting, Stopping, ListenersOwnAddresses, Servers
<1>6. CutOnlyLate'
  BY DEF TypeOK, Accepted, Starting, Stopping, CutOnlyLate, Servers
<1> QED
  BY <1>1, <1>2, <1>3, <1>4, <1>5, <1>6

(* What an exit cuts short is what Run did not wait for.                   *)
LEMMA ExitStep ==
  ASSUME IndInv, NEW d \in Daemons, Exit(d)
  PROVE  IndInv'
<1> USE RunAssumption DEF IndInv, Exit, Handling, Goto
<1>1. TypeOK'
  BY DEF TypeOK, Servers, InFlight
<1>2. ASSUME NEW e \in Daemons PROVE Starting(e)'
  BY ConfigTypes DEF TypeOK, Starting, ListenersOwnAddresses, Servers
<1>3. ASSUME NEW e \in Daemons PROVE Stopping(e)'
  BY ConfigTypes DEF TypeOK, Starting, Stopping, Drained, Accepted, Servers, InFlight
<1>4. ASSUME NEW r \in Requests PROVE Accepted(r)'
  BY DEF TypeOK, Starting, Accepted, Servers, InFlight
<1>5. ListenersOwnAddresses'
  BY ConfigTypes DEF TypeOK, Starting, Stopping, ListenersOwnAddresses, Servers
<1>6. CutOnlyLate'
  <2> SUFFICES ASSUME NEW r \in cut', NEW e, e = via[r].daemon
               PROVE  \/ expired[e]
                      \/ /\ cfg[e].http # None /\ server'[e]["http"] = "off"
                         /\ exit'[e] = 1 /\ via[r].server = "https"
    BY DEF CutOnlyLate
  <2>1. CASE r \in cut
    <3>1. r \in Requests /\ e \in Daemons /\ pc[e] = "exited" /\ e # d
      BY <2>1 DEF TypeOK, Accepted
    <3>2. exit'[e] = exit[e] /\ server'[e] = server[e]
      BY <3>1 DEF TypeOK
    <3> QED
      BY <2>1, <3>2 DEF CutOnlyLate
  <2>2. CASE r \in Handling(d)
    <3>1. /\ r \in Requests /\ e = d /\ stage[r] \in InFlight /\ via[r].server \in Servers
          /\ server[d][via[r].server] # "off"
      BY <2>2 DEF Accepted
    <3>2. expired[d] \/ (failure[d] /\ cfg[d]["http"] # None /\ server[d]["http"] = "off")
      BY <3>1 DEF Stopping, Drained
    <3>3. server[d]["http"] = "off" => server'[d]["http"] = "off"
      BY DEF TypeOK, Servers
    <3>4. failure[d] => exit'[d] = 1
      BY DEF TypeOK
    <3> QED
      BY <3>1, <3>2, <3>3, <3>4 DEF Servers
  <2> QED
    BY <2>1, <2>2
<1> QED
  BY <1>1, <1>2, <1>3, <1>4, <1>5, <1>6

(* The deadline passes once and for all.                                   *)
LEMMA DeadlineStep ==
  ASSUME IndInv, NEW d \in Daemons, Deadline(d)
  PROVE  IndInv'
<1> USE RunAssumption DEF IndInv, Deadline, requestVars
<1>1. TypeOK'
  BY DEF TypeOK, Servers, InFlight
<1>2. ASSUME NEW e \in Daemons PROVE Starting(e)'
  BY ConfigTypes DEF TypeOK, Starting, ListenersOwnAddresses, Servers
<1>3. ASSUME NEW e \in Daemons PROVE Stopping(e)'
  BY ConfigTypes DEF TypeOK, Starting, Stopping, Drained, Accepted, Servers, InFlight
<1>4. ASSUME NEW r \in Requests PROVE Accepted(r)'
  BY DEF TypeOK, Starting, Accepted, Servers, InFlight
<1>5. ListenersOwnAddresses'
  BY ConfigTypes DEF TypeOK, Starting, Stopping, ListenersOwnAddresses, Servers
<1>6. CutOnlyLate'
  BY DEF TypeOK, Accepted, Starting, Stopping, CutOnlyLate, Servers
<1> QED
  BY <1>1, <1>2, <1>3, <1>4, <1>5, <1>6

(* A signal is only noted.                                                 *)
LEMMA SignalStep ==
  ASSUME IndInv, NEW d \in Daemons, Signal(d)
  PROVE  IndInv'
<1> USE RunAssumption DEF IndInv, Signal, lifeVars, requestVars
<1>1. TypeOK'
  BY DEF TypeOK, Servers, InFlight
<1>2. ASSUME NEW e \in Daemons PROVE Starting(e)'
  BY ConfigTypes DEF TypeOK, Starting, ListenersOwnAddresses, Servers
<1>3. ASSUME NEW e \in Daemons PROVE Stopping(e)'
  BY ConfigTypes DEF TypeOK, Starting, Stopping, Drained, Accepted, Servers, InFlight
<1>4. ASSUME NEW r \in Requests PROVE Accepted(r)'
  BY DEF TypeOK, Starting, Accepted, Servers, InFlight
<1>5. ListenersOwnAddresses'
  BY ConfigTypes DEF TypeOK, Starting, Stopping, ListenersOwnAddresses, Servers
<1>6. CutOnlyLate'
  BY DEF TypeOK, Accepted, Starting, Stopping, CutOnlyLate, Servers
<1> QED
  BY <1>1, <1>2, <1>3, <1>4, <1>5, <1>6

(* A listener that fails gives its address up.                             *)
LEMMA ServeFailsStep ==
  ASSUME IndInv, NEW d \in Daemons, NEW s \in Servers, ServeFails(d, s)
  PROVE  IndInv'
<1> USE RunAssumption DEF IndInv, ServeFails, Released, requestVars
<1>1. TypeOK'
  BY DEF TypeOK, Servers, InFlight
<1>2. ASSUME NEW e \in Daemons PROVE Starting(e)'
  BY ConfigTypes DEF TypeOK, Starting, ListenersOwnAddresses, Servers
<1>3. ASSUME NEW e \in Daemons PROVE Stopping(e)'
  BY ConfigTypes DEF TypeOK, Starting, Stopping, Drained, Accepted, Servers, InFlight
<1>4. ASSUME NEW r \in Requests PROVE Accepted(r)'
  BY DEF TypeOK, Starting, Accepted, Servers, InFlight
<1>5. ListenersOwnAddresses'
  BY ConfigTypes DEF TypeOK, Starting, Stopping, ListenersOwnAddresses, Servers
<1>6. CutOnlyLate'
  BY DEF TypeOK, Accepted, Starting, Stopping, CutOnlyLate, Servers
<1> QED
  BY <1>1, <1>2, <1>3, <1>4, <1>5, <1>6

(* A request comes in by a listener that serves, and so one that is up,    *)
(* takes its turn, and is answered.                                        *)
LEMMA RequestStep ==
  ASSUME IndInv, NEW r \in Requests,
         \/ \E d \in Daemons, s \in Servers : Accept(r, d, s)
         \/ LockMu(r) \/ Confirm(r) \/ Finish(r)
  PROVE  IndInv'
<1> USE DEF IndInv, lifeVars
<1>1. /\ UNCHANGED <<cfg, signalled, lifeVars, cut>>
      /\ \E v \in InFlight \cup {"answered"} : stage' = [stage EXCEPT ![r] = v]
      /\ \/ stage[r] \in InFlight /\ via' = via
         \/ /\ stage[r] = "unsent"
            /\ \E d \in Daemons, s \in Servers :
                   server[d][s] = "serving" /\ via' = [via EXCEPT ![r] = [daemon |-> d, server |-> s]]
  BY DEF Accept, LockMu, Confirm, Finish, Advance, InFlight
<1>2. r \notin cut
  BY <1>1 DEF Accepted, InFlight
<1>3. TypeOK'
  <2>1. stage' \in [Requests -> InFlight \cup {"unsent", "answered", "cut"}]
    BY <1>1 DEF TypeOK
  <2>2. via' \in [Requests -> [daemon : Daemons \cup {None}, server : Servers \cup {None}]]
    <3>1. \A d \in Daemons, s \in Servers :
              [daemon |-> d, server |-> s]
                  \in [daemon : Daemons \cup {None}, server : Servers \cup {None}]
      OBVIOUS
    <3> QED
      BY <1>1, <3>1 DEF TypeOK
  <2> QED
    BY <1>1, <2>1, <2>2 DEF TypeOK
<1>4. \A q \in Requests : q # r => stage'[q] = stage[q] /\ via'[q] = via[q]
  BY <1>1 DEF TypeOK
<1>5. /\ via'[r].daemon \in Daemons /\ via'[r].server \in Servers
      /\ server[via'[r].daemon][via'[r].server] # "off"
      /\ \/ stage[r] \in InFlight /\ via'[r] = via[r]
         \/ server[via'[r].daemon][via'[r].server] = "serving"
  <2>1. CASE stage[r] \in InFlight /\ via' = via
    BY <2>1 DEF Accepted
  <2>2. ASSUME NEW d \in Daemons, NEW s \in Servers, server[d][s] = "serving",
               via' = [via EXCEPT ![r] = [daemon |-> d, server |-> s]]
        PROVE  /\ via'[r].daemon = d /\ via'[r].server = s
    BY <2>2 DEF TypeOK
  <2> QED
    BY <1>1, <2>1, <2>2
<1>6. ASSUME NEW e \in Daemons PROVE Starting(e)'
  BY <1>1 DEF Starting
<1>7. ASSUME NEW e \in Daemons PROVE Stopping(e)'
  <2>1. ASSUME NEW s \in Servers, server[e][s] # "serving", Drained(e, s)
        PROVE  Drained(e, s)'
    <3> SUFFICES ASSUME NEW q \in Requests, via'[q].daemon = e, via'[q].server = s
                 PROVE  stage'[q] \notin InFlight
      BY DEF Drained
    <3> QED
      BY <1>4, <1>5, <2>1 DEF Drained
  <2> QED
    BY <1>1, <2>1 DEF Stopping, Servers
<1>8. ASSUME NEW q \in Requests PROVE Accepted(q)'
  <2>1. UNCHANGED <<server, pc, cut>>
    BY <1>1
  <2>2. CASE q = r
    BY <1>2, <1>5, <2>1, <2>2 DEF Accepted
  <2>3. CASE q # r
    BY <1>4, <2>1, <2>3 DEF Accepted
  <2> QED
    BY <2>2, <2>3
<1>9. ListenersOwnAddresses'
  BY <1>1 DEF ListenersOwnAddresses
<1>10. CutOnlyLate'
  BY <1>1, <1>2, <1>4 DEF TypeOK, CutOnlyLate
<1> QED
  BY <1>3, <1>6, <1>7, <1>8, <1>9, <1>10

-----------------------------------------------------------------------------
(* The invariant holds of every behaviour of any number of daemons.        *)
THEOREM Inductive == Spec => []IndInv
<1>1. IndInv /\ [Next]_vars => IndInv'
  <2> SUFFICES ASSUME IndInv, [Next]_vars PROVE IndInv'
    OBVIOUS
  <2>1. CASE UNCHANGED vars
    BY <2>1 DEF vars, lifeVars, requestVars, IndInv, TypeOK, Starting, Stopping, Drained,
                Accepted, ListenersOwnAddresses, CutOnlyLate
  <2>2. ASSUME NEW d \in Daemons, Run(d) PROVE IndInv'
    BY <2>2, StartStep, SelectStep, StopHttpsStep, StopHttpStep, ExitStep DEF Run
  <2>3. ASSUME NEW d \in Daemons,
               Deadline(d) \/ Signal(d) \/ \E s \in Servers : ServeFails(d, s)
        PROVE  IndInv'
    BY <2>3, DeadlineStep, SignalStep, ServeFailsStep
  <2> QED
    BY <2>1, <2>2, <2>3, RequestStep DEF Next
<1> QED
  BY <1>1, InitHolds, PTL DEF Spec

(* The types.                                                              *)
THEOREM TypesHold == Spec => []TypeOK
<1>1. IndInv => TypeOK
  BY DEF IndInv
<1> QED
  BY <1>1, Inductive, PTL

(* Requests are cut short only after the deadline, or by a daemon that     *)
(* could not open its HTTP listener.                                       *)
THEOREM CutsAreLate == Spec => []CutOnlyLate
<1>1. IndInv => CutOnlyLate
  BY DEF IndInv
<1> QED
  BY <1>1, Inductive, PTL

(* Each serving listener has a loopback address to itself.                 *)
THEOREM AddressesAreOwned == Spec => []ListenersOwnAddresses
<1>1. IndInv => ListenersOwnAddresses
  BY DEF IndInv
<1> QED
  BY <1>1, Inductive, PTL

(* Exit code 0 is for a daemon that was told to stop.                      *)
THEOREM ExitsAreExplained == Spec => []ExitsForAReason
<1>1. IndInv => ExitsForAReason
  BY DEF IndInv, Stopping, ExitsForAReason
<1> QED
  BY <1>1, Inductive, PTL
=============================================================================
