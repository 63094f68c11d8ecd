----------------------------- MODULE DaemonRun -----------------------------
(***************************************************************************)
(* The life of "openmdsignd serve" (cmd/openmdsignd/root.go, Server.Run in *)
(* internal/server/listen.go): its two listeners come up, serve requests   *)
(* that end on one mutex, a dialog and a token, and go down on a signal or *)
(* a serve error.  Several daemons may be started on the same addresses.   *)
(***************************************************************************)
EXTENDS Integers, FiniteSets

CONSTANTS
    Daemons,        \* runs of "openmdsignd serve"
    Requests,       \* POSTs to /sign/data
    Addrs,          \* listen addresses
    Loopback,       \* those that are loopback only
    Configs,        \* what each daemon may be given as --https-addr and --http-addr
    None            \* no address, no daemon, no request

ASSUME RunAssumption ==
    /\ Loopback \subseteq Addrs
    /\ Configs \in [Daemons -> SUBSET [https : Addrs, http : Addrs \cup {None}]]
    /\ None \notin Addrs \cup Daemons \cup Requests

Servers == {"https", "http"}

VARIABLES
    cfg,        \* each daemon's addresses
    pc,         \* where its Run is
    server,     \* each of its listeners
    bound,      \* the daemon that listens on each address
    signalled,  \* it was sent SIGINT or SIGTERM
    failure,    \* the error Run will return
    serveErrs,  \* the listeners whose error is in errCh
    expired,    \* the five seconds of its shutdownCtx have passed
    exit,       \* its exit code, -1 before the end
    via,        \* the daemon and the listener that accepted each request
    stage,      \* how far each request is
    cut         \* observed: the requests their daemon's exit cut short

lifeVars == <<pc, server, bound, failure, serveErrs, expired, exit>>
requestVars == <<via, stage, cut>>
vars == <<cfg, signalled, lifeVars, requestVars>>

Nowhere == [daemon |-> None, server |-> None]

InFlight == {"queued", "confirming", "loggedIn"}

Init ==
    /\ cfg \in [Daemons -> [https : Addrs, http : Addrs \cup {None}]]
    /\ \A d \in Daemons : cfg[d] \in Configs[d]
    /\ pc = [d \in Daemons |-> "checkHttps"]
    /\ server = [d \in Daemons |-> [s \in Servers |-> "off"]]
    /\ bound = [a \in Addrs |-> None]
    /\ signalled = [d \in Daemons |-> FALSE]
    /\ failure = [d \in Daemons |-> FALSE]
    /\ serveErrs = [d \in Daemons |-> {}]
    /\ expired = [d \in Daemons |-> FALSE]
    /\ exit = [d \in Daemons |-> -1]
    /\ via = [r \in Requests |-> Nowhere]
    /\ stage = [r \in Requests |-> "unsent"]
    /\ cut = {}

-----------------------------------------------------------------------------
(* Run, up to its select.                                                  *)

\* The requests of daemon d, and of its listener s, that are being handled.
Handling(d) == {r \in Requests : via[r].daemon = d /\ stage[r] \in InFlight}
HandlingBy(d, s) == {r \in Handling(d) : via[r].server = s}

Goto(d, label) == pc' = [pc EXCEPT ![d] = label]

\* Run returns an error.
Fail(d) == Goto(d, "returned") /\ failure' = [failure EXCEPT ![d] = TRUE]

\* Mutation: any address will do.
Checked_Any(d, addr, next) == \/ Goto(d, next) /\ UNCHANGED failure
                              \/ Fail(d)

(* loopbackOnly, which also fails on an address it cannot parse or resolve.*)
Checked(d, addr, next) == \/ addr \in Loopback /\ Goto(d, next) /\ UNCHANGED failure
                          \/ Fail(d)

CheckHttps(d) ==
    /\ pc[d] = "checkHttps"
    /\ Checked(d, cfg[d].https, "cert")
    /\ UNCHANGED <<cfg, signalled, server, bound, serveErrs, expired, exit, requestVars>>

(* servingCert; ServingCert has its steps.                                 *)
LoadCert(d) ==
    /\ pc[d] = "cert"
    /\ \/ Goto(d, "listenHttps") /\ UNCHANGED failure
       \/ Fail(d)
    /\ UNCHANGED <<cfg, signalled, server, bound, serveErrs, expired, exit, requestVars>>

(* net.Listen and the goroutine that serves; the address may be taken.     *)
Listen(d, s, addr, next) ==
    \/ /\ bound[addr] = None
       /\ bound' = [bound EXCEPT ![addr] = d]
       /\ server' = [server EXCEPT ![d][s] = "serving"]
       /\ Goto(d, next)
       /\ UNCHANGED failure
    \/ Fail(d) /\ UNCHANGED <<bound, server>>

ListenHttps(d) ==
    /\ pc[d] = "listenHttps"
    /\ Listen(d, "https", cfg[d].https,
              IF cfg[d].http = None THEN "select" ELSE "checkHttp")
    /\ UNCHANGED <<cfg, signalled, serveErrs, expired, exit, requestVars>>

(* An error from here on returns with the HTTPS listener still serving.    *)
CheckHttp(d) ==
    /\ pc[d] = "checkHttp"
    /\ Checked(d, cfg[d].http, "listenHttp")
    /\ UNCHANGED <<cfg, signalled, server, bound, serveErrs, expired, exit, requestVars>>

ListenHttp(d) ==
    /\ pc[d] = "listenHttp"
    /\ Listen(d, "http", cfg[d].http, "select")
    /\ UNCHANGED <<cfg, signalled, serveErrs, expired, exit, requestVars>>

-----------------------------------------------------------------------------
(* The select, and the two calls of Shutdown under one deadline.           *)

\* The address of listener s is free once it stops listening.
Released(d, s) == [a \in Addrs |-> IF bound[a] = d /\ a = cfg[d][s] THEN None ELSE bound[a]]

\* Shutdown of listener s begins: it accepts no more.
Closing(d, s) ==
    IF server[d][s] = "serving"
    THEN /\ server' = [server EXCEPT ![d][s] = "closed"]
         /\ bound' = Released(d, s)
    ELSE UNCHANGED <<server, bound>>

\* Mutation: an error taken from errCh is logged, not returned.
Select_Logs(d) ==
    /\ pc[d] = "select"
    /\ signalled[d] \/ serveErrs[d] # {}
    /\ Closing(d, "https")
    /\ Goto(d, "stopHttps")
    /\ UNCHANGED <<cfg, signalled, failure, serveErrs, expired, exit, requestVars>>

(* ctx.Done or an error from a listener, whichever the select picks.       *)
Select(d) ==
    /\ pc[d] = "select"
    /\ \/ signalled[d] /\ UNCHANGED failure
       \/ serveErrs[d] # {} /\ failure' = [failure EXCEPT ![d] = TRUE]
    /\ Closing(d, "https")
    /\ Goto(d, "stopHttps")
    /\ UNCHANGED <<cfg, signalled, serveErrs, expired, exit, requestVars>>

\* Mutation: Close in the place of Shutdown, which waits for nobody.
StopHttps_Close(d) ==
    /\ pc[d] = "stopHttps"
    /\ Closing(d, "http")
    /\ Goto(d, "stopHttp")
    /\ UNCHANGED <<cfg, signalled, failure, serveErrs, expired, exit, requestVars>>

\* Mutation: the shutdown has no deadline.
StopHttps_Patient(d) ==
    /\ pc[d] = "stopHttps"
    /\ HandlingBy(d, "https") = {}
    /\ Closing(d, "http")
    /\ Goto(d, "stopHttp")
    /\ UNCHANGED <<cfg, signalled, failure, serveErrs, expired, exit, requestVars>>

(* The HTTPS server's Shutdown returns; only now does the HTTP listener,   *)
(* if there is one, stop accepting.                                        *)
StopHttps(d) ==
    /\ pc[d] = "stopHttps"
    /\ HandlingBy(d, "https") = {} \/ expired[d]
    /\ Closing(d, "http")
    /\ Goto(d, "stopHttp")
    /\ UNCHANGED <<cfg, signalled, failure, serveErrs, expired, exit, requestVars>>

(* The HTTP server's Shutdown returns, at once when the deadline is past.  *)
StopHttp(d) ==
    /\ pc[d] = "stopHttp"
    /\ HandlingBy(d, "http") = {} \/ expired[d]
    /\ Goto(d, "returned")
    /\ UNCHANGED <<cfg, signalled, server, bound, failure, serveErrs, expired, exit,
                   requestVars>>

\* Mutation: the exit code counts the listeners that failed.
Exit_Counts(d) ==
    /\ pc[d] = "returned"
    /\ Goto(d, "exited")
    /\ exit' = [exit EXCEPT ![d] = Cardinality(serveErrs[d])]
    /\ UNCHANGED <<cfg, signalled, server, bound, failure, serveErrs, expired, via, cut,
                   stage>>

(* The process exits with what Run returned, and takes its requests along. *)
Exit(d) ==
    /\ pc[d] = "returned"
    /\ Goto(d, "exited")
    /\ exit' = [exit EXCEPT ![d] = IF failure[d] THEN 1 ELSE 0]
    /\ server' = [server EXCEPT ![d] = [s \in Servers |->
                      IF server[d][s] = "serving" THEN "closed" ELSE server[d][s]]]
    /\ bound' = [a \in Addrs |-> IF bound[a] = d THEN None ELSE bound[a]]
    /\ cut' = cut \cup Handling(d)
    /\ stage' = [r \in Requests |-> IF r \in Handling(d) THEN "cut" ELSE stage[r]]
    /\ UNCHANGED <<cfg, signalled, failure, serveErrs, expired, via>>

(* The five seconds from the first Shutdown on.                            *)
Deadline(d) ==
    /\ pc[d] \in {"stopHttps", "stopHttp"}
    /\ ~expired[d]
    /\ expired' = [expired EXCEPT ![d] = TRUE]
    /\ UNCHANGED <<cfg, signalled, pc, server, bound, failure, serveErrs, exit,
                   requestVars>>

Run(d) == \/ CheckHttps(d) \/ LoadCert(d) \/ ListenHttps(d) \/ CheckHttp(d)
          \/ ListenHttp(d) \/ Select(d) \/ StopHttps(d) \/ StopHttp(d) \/ Exit(d)

-----------------------------------------------------------------------------
(* What happens to a daemon: signals, of which NotifyContext swallows all  *)
(* but the first, and listeners that fail.                                 *)

Signal(d) ==
    /\ pc[d] # "exited"
    /\ ~signalled[d]
    /\ signalled' = [signalled EXCEPT ![d] = TRUE]
    /\ UNCHANGED <<cfg, lifeVars, requestVars>>

(* Serve returns an error of its own and has closed its listener.          *)
ServeFails(d, s) ==
    /\ server[d][s] = "serving"
    /\ server' = [server EXCEPT ![d][s] = "failed"]
    /\ bound' = Released(d, s)
    /\ serveErrs' = [serveErrs EXCEPT ![d] = @ \cup {s}]
    /\ UNCHANGED <<cfg, signalled, pc, failure, expired, exit, requestVars>>

-----------------------------------------------------------------------------
(* The requests: SignDaemon has their steps; here they are accepted, wait  *)
(* for the mutex, wait for the user, hold a login, and are answered.       *)

Accept(r, d, s) ==
    /\ stage[r] = "unsent"
    /\ server[d][s] = "serving"
    /\ via' = [via EXCEPT ![r] = [daemon |-> d, server |-> s]]
    /\ stage' = [stage EXCEPT ![r] = "queued"]
    /\ UNCHANGED <<cfg, signalled, lifeVars, cut>>

Advance(r, s) == /\ stage' = [stage EXCEPT ![r] = s]
                 /\ UNCHANGED <<cfg, signalled, lifeVars, via, cut>>

LockMu(r) ==
    /\ stage[r] = "queued"
    /\ \A q \in Handling(via[r].daemon) : stage[q] = "queued"
    /\ Advance(r, "confirming")

\* The user types a PIN and the login succeeds, or the request ends here.
Confirm(r) ==
    /\ stage[r] = "confirming"
    /\ Advance(r, "loggedIn") \/ Advance(r, "answered")

Finish(r) ==
    /\ stage[r] = "loggedIn"
    /\ Advance(r, "answered")

Next == \/ \E d \in Daemons : \/ Run(d) \/ Deadline(d) \/ Signal(d)
                              \/ \E s \in Servers : ServeFails(d, s)
        \/ \E r \in Requests : \/ \E d \in Daemons, s \in Servers : Accept(r, d, s)
                               \/ LockMu(r) \/ Confirm(r) \/ Finish(r)

Spec == Init /\ [][Next]_vars

(* Run's goroutine and its timer.  Nobody need ever answer a dialog, so    *)
(* nothing is assumed of the requests.                                     *)
RunSpec == Spec /\ \A d \in Daemons : WF_vars(Run(d)) /\ WF_vars(Deadline(d))

-----------------------------------------------------------------------------
TypeOK ==
    /\ \A d \in Daemons : cfg[d] \in Configs[d]
    /\ pc \in [Daemons -> {"checkHttps", "cert", "listenHttps", "checkHttp", "listenHttp",
                           "select", "stopHttps", "stopHttp", "returned", "exited"}]
    /\ server \in [Daemons -> [Servers -> {"off", "serving", "failed", "closed"}]]
    /\ bound \in [Addrs -> Daemons \cup {None}]
    /\ signalled \in [Daemons -> BOOLEAN]
    /\ failure \in [Daemons -> BOOLEAN]
    /\ serveErrs \in [Daemons -> SUBSET Servers]
    /\ expired \in [Daemons -> BOOLEAN]
    /\ exit \in [Daemons -> {-1, 0, 1}]
    /\ via \in [Requests -> [daemon : Daemons \cup {None}, server : Servers \cup {None}]]
    /\ stage \in [Requests -> InFlight \cup {"unsent", "answered", "cut"}]
    /\ cut \subseteq Requests

(* An exit cuts a request short, in front of its dialog or between the     *)
(* login and the logout, only when the five seconds had passed, or when    *)
(* Run failed to open the HTTP listener of a daemon already serving HTTPS. *)
CutOnlyLate ==
    \A r \in cut : LET d == via[r].daemon IN
        \/ expired[d]
        \/ /\ cfg[d].http # None /\ server[d]["http"] = "off"
           /\ exit[d] = 1 /\ via[r].server = "https"

(* A listener that serves holds its own loopback address, nobody else      *)
(* does, and a daemon that has exited holds none (Run, loopbackOnly).      *)
ListenersOwnAddresses ==
    \A d \in Daemons :
        /\ \A s \in Servers : server[d][s] = "serving" =>
                cfg[d][s] \in Loopback /\ bound[cfg[d][s]] = d
        /\ \A a \in Addrs : bound[a] = d =>
                \E s \in Servers : server[d][s] = "serving" /\ cfg[d][s] = a

(* A daemon exits with 0 only when it was told to, and with an error it    *)
(* reports otherwise (Run's results, runServe, main).                      *)
ExitsForAReason ==
    \A d \in Daemons : exit[d] = 0 => signalled[d] /\ ~failure[d]

(* A signal, or a listener that fails, ends the daemon, whoever is still   *)
(* in front of a dialog and however often the signal is repeated.          *)
StopsWhenTold ==
    \A d \in Daemons : signalled[d] \/ serveErrs[d] # {} ~> pc[d] = "exited"
=============================================================================
