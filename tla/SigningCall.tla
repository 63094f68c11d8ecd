---------------------------- MODULE SigningCall ----------------------------
(***************************************************************************)
(* What a call of xades.Sign or xades.Validate promises, without helper,   *)
(* pipes, stray lines, crashes or cancellations: the data of this call's   *)
(* document is prepared, signed on the token, completed into a container   *)
(* and written, in this order and each once.  It may fail before any step, *)
(* or in the last, and then does nothing more.                             *)
(***************************************************************************)
CONSTANTS Calls, None, Partial

VARIABLES
    task,       \* the call
    prepared,   \* the data to be signed
    value,      \* the token's signature over it
    container,  \* the signed container
    file,       \* the output file
    outcome     \* how the call has ended

vars == <<task, prepared, value, container, file, outcome>>

Init ==
    /\ task \in Calls
    /\ prepared = None /\ value = None /\ container = None /\ file = None
    /\ outcome = "none"

Prepare ==
    /\ outcome = "none" /\ task.kind = "sign" /\ prepared = None
    /\ None \notin {task.doc, task.digest, task.level}
    /\ prepared' = [doc |-> task.doc, digest |-> task.digest, level |-> task.level]
    /\ UNCHANGED <<task, value, container, file, outcome>>

SignValue ==
    /\ outcome = "none" /\ prepared # None /\ value = None
    /\ value' = [over |-> prepared, digest |-> task.digest]
    /\ UNCHANGED <<task, prepared, container, file, outcome>>

Complete ==
    /\ outcome = "none" /\ value # None /\ container = None
    /\ container' = [info |-> prepared, alg |-> task.digest, sig |-> value,
                     stamped |-> task.level = "t"]
    /\ UNCHANGED <<task, prepared, value, file, outcome>>

Write ==
    /\ outcome = "none" /\ container # None
    /\ file' = container
    /\ outcome' = "signed"
    /\ UNCHANGED <<task, prepared, value, container>>

Validate ==
    /\ outcome = "none" /\ task.kind = "validate"
    /\ outcome' = "validated"
    /\ UNCHANGED <<task, prepared, value, container, file>>

Fail ==
    /\ outcome = "none"
    /\ outcome' = "failed"
    /\ UNCHANGED file \/ (container # None /\ file' = Partial)
    /\ UNCHANGED <<task, prepared, value, container>>

Next == Prepare \/ SignValue \/ Complete \/ Write \/ Validate \/ Fail

Spec == Init /\ [][Next]_vars
=============================================================================
