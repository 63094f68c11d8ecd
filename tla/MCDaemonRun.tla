---------------------------- MODULE MCDaemonRun ----------------------------
(* Two daemons that want the same addresses, the first with a plain       *)
(* listener, the second with none or with one that is not loopback; and    *)
(* two requests.                                                           *)
EXTENDS DaemonRun

CONSTANTS first, second, a, b, wildcard

MCConfigs == [d \in Daemons |->
    IF d = first THEN {[https |-> b, http |-> a]}
    ELSE {[https |-> a, http |-> None], [https |-> a, http |-> wildcard]}]
=============================================================================
