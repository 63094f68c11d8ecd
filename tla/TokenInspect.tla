---------------------------- MODULE TokenInspect ----------------------------
(***************************************************************************)
(* One run of "openmdsign inspect" (cmd/openmdsign/inspect.go): Inspect of *)
(* internal/token walks the module's slots and, when a PIN was given, logs *)
(* in to what it finds there, while tokens are pulled out and put in.      *)
(* The daemon's GET /certificates is the same walk without a PIN.          *)
(***************************************************************************)
EXTENDS Integers, FiniteSets

CONSTANTS
    Slots,          \* the slots C_GetSlotList reports, with or without a token
    Tokens,         \* the hardware tokens, each with a label of its own
    Pins,           \* what a user can type
    PinOf,          \* [Tokens -> Pins]: the PIN a token accepts
    MaxTries,       \* the wrong PINs a token takes before it locks
    NoPin, NoToken, NoFilter

ASSUME InspectAssumption ==
    /\ IsFiniteSet(Slots)
    /\ MaxTries \in Nat \ {0}
    /\ PinOf \in [Tokens -> Pins]
    /\ NoPin \notin Pins /\ NoToken \notin Tokens
    /\ NoFilter \notin Slots \cup Tokens

\* The flags and the config file: --pin, --slot and --token-label.
Options == [pin : Pins \cup {NoPin}, slot : Slots \cup {NoFilter}, label : Tokens \cup {NoFilter}]

(* The report has a line for a slot without a token, a warning when it     *)
(* could not be read, its objects otherwise, with what became of the       *)
(* login; and none for a slot skipped.                                     *)
Lines == {"none", "empty", "warned", "listed", "unlocked", "loginFailed"}

VARIABLES
    opts,       \* the options of this run
    reader,     \* the token in each slot
    tries,      \* the wrong PINs each token still accepts
    todo,       \* the slots Inspect has not looked at
    stage,      \* what it does next
    slot,       \* the slot it looks at, NoFilter between two
    session,    \* the token its session is open on
    report,     \* the line for each slot
    exit,       \* the exit code, -1 before the end
    logins,     \* observed: the C_Login calls on each token
    failures,   \* observed: the C_Login calls that failed
    moved       \* observed: the tokens pulled out or put in during the run

vars == <<opts, reader, tries, todo, stage, slot, session, report, exit, logins,
          failures, moved>>
envVars == <<opts, reader, moved>>
loginVars == <<tries, logins, failures>>

Init ==
    /\ opts \in Options
    /\ reader \in [Slots -> Tokens \cup {NoToken}]
    /\ \A s, u \in Slots : reader[s] = reader[u] => s = u \/ reader[s] = NoToken
    /\ tries \in [Tokens -> 0 .. MaxTries]
    /\ todo = {s \in Slots : opts.slot \in {NoFilter, s}}
    /\ stage = "load"
    /\ slot = NoFilter
    /\ session = NoToken
    /\ report = [s \in Slots |-> "none"]
    /\ exit = -1
    /\ logins = [t \in Tokens |-> 0]
    /\ failures = 0
    /\ moved = {}

-----------------------------------------------------------------------------
(* Inspect's loop and inspectSlot.                                         *)

\* inspectSlot returns with a line for the slot, or with none.
EndSlot(line) == /\ report' = [report EXCEPT ![slot] = line]
                 /\ stage' = "next"

Continue(s) == stage' = s /\ UNCHANGED report

(* token.Load, C_GetInfo and C_GetSlotList: without them there is no       *)
(* report.                                                                 *)
Load ==
    /\ stage = "load"
    /\ \/ stage' = "next" /\ UNCHANGED exit
       \/ stage' = "aborted" /\ exit' = 1
    /\ UNCHANGED <<todo, slot, session, report, envVars, loginVars>>

(* C_GetSlotInfo of the next slot, in the module's own order.              *)
VisitSlot(s) ==
    /\ stage = "next"
    /\ s \in todo
    /\ todo' = todo \ {s}
    /\ slot' = s
    /\ \/ report' = [report EXCEPT ![s] = "warned"] /\ UNCHANGED stage
       \/ /\ reader[s] = NoToken
          /\ report' = [report EXCEPT ![s] = "empty"] /\ UNCHANGED stage
       \/ reader[s] # NoToken /\ Continue("token")
    /\ UNCHANGED <<session, exit, envVars, loginVars>>

(* C_GetTokenInfo, which may fail, and the --token-label filter.           *)
ReadToken ==
    /\ stage = "token"
    /\ \/ EndSlot("warned")
       \/ /\ reader[slot] # NoToken
          /\ IF opts.label \in {NoFilter, reader[slot]} THEN Continue("open")
                                                       ELSE EndSlot("none")
    /\ UNCHANGED <<todo, slot, session, exit, envVars, loginVars>>

(* C_OpenSession, which may fail, on whatever token is in the slot by      *)
(* then, and the public objects.                                           *)
OpenSession ==
    /\ stage = "open"
    /\ \/ EndSlot("warned") /\ UNCHANGED session
       \/ /\ reader[slot] # NoToken
          /\ session' = reader[slot]
          /\ IF opts.pin = NoPin
             THEN report' = [report EXCEPT ![slot] = "listed"] /\ stage' = "close"
             ELSE Continue("login")
    /\ UNCHANGED <<todo, slot, exit, envVars, loginVars>>

\* C_Login may succeed: not on a wrong PIN, on a locked token, or in a
\* session that died with its token.
Accepted == session # NoToken /\ tries[session] > 0 /\ opts.pin = PinOf[session]

\* A wrong PIN costs a try; a locked token has none to lose.
AfterWrongPin(n) == IF n = 0 THEN 0 ELSE n - 1

\* A failed login; a device error costs no try.
LoginFails ==
    /\ failures' = failures + 1
    /\ tries' \in {tries} \cup
           IF session = NoToken \/ Accepted THEN {}
           ELSE {[tries EXCEPT ![session] = AfterWrongPin(@)]}

LoginSucceeds ==
    /\ Accepted
    /\ tries' = [tries EXCEPT ![session] = MaxTries]
    /\ UNCHANGED failures

\* Mutation: a failed login is tried again while the token has tries left.
Login_Retries ==
    /\ stage = "login"
    /\ logins' = [t \in Tokens |-> logins[t] + IF t = session THEN 1 ELSE 0]
    /\ \/ LoginSucceeds /\ Continue("keys")
       \/ /\ LoginFails
          /\ IF session # NoToken /\ tries[session] > 1 THEN Continue("login")
             ELSE report' = [report EXCEPT ![slot] = "loginFailed"] /\ stage' = "close"
    /\ UNCHANGED <<todo, slot, session, exit, envVars>>

\* Mutation: a locked token is reported as a warning, not as a failed login.
Login_LockedIsWarning ==
    /\ stage = "login"
    /\ logins' = [t \in Tokens |-> logins[t] + IF t = session THEN 1 ELSE 0]
    /\ \/ LoginSucceeds /\ Continue("keys")
       \/ /\ LoginFails
          /\ report' = [report EXCEPT ![slot] =
                            IF session # NoToken /\ tries[session] = 0
                            THEN "warned" ELSE "loginFailed"]
          /\ stage' = "close"
    /\ UNCHANGED <<todo, slot, session, exit, envVars>>

(* attemptLoginAndListPrivate's one C_Login, which any device error fails. *)
Login ==
    /\ stage = "login"
    /\ logins' = [t \in Tokens |-> logins[t] + IF t = session THEN 1 ELSE 0]
    /\ \/ LoginSucceeds /\ Continue("keys")
       \/ /\ LoginFails
          /\ report' = [report EXCEPT ![slot] = "loginFailed"]
          /\ stage' = "close"
    /\ UNCHANGED <<todo, slot, session, exit, envVars>>

(* The private keys, and the deferred C_Logout.                            *)
ListKeys ==
    /\ stage = "keys"
    /\ report' = [report EXCEPT ![slot] = "unlocked"]
    /\ stage' = "close"
    /\ UNCHANGED <<todo, slot, session, exit, envVars, loginVars>>

\* Mutation: the walk ends at the first slot it logged in to.
CloseSession_Stops ==
    /\ stage = "close"
    /\ session' = NoToken
    /\ todo' = IF report[slot] = "unlocked" THEN {} ELSE todo
    /\ Continue("next")
    /\ UNCHANGED <<slot, exit, envVars, loginVars>>

(* The deferred C_CloseSession.                                            *)
CloseSession ==
    /\ stage = "close"
    /\ session' = NoToken
    /\ Continue("next")
    /\ UNCHANGED <<todo, slot, exit, envVars, loginVars>>

\* Mutation: the exit code counts the failed logins.
Finish_Counts ==
    /\ stage = "next"
    /\ todo = {}
    /\ stage' = "exited"
    /\ exit' = Cardinality({s \in Slots : report[s] = "loginFailed"})
    /\ UNCHANGED <<todo, slot, session, report, envVars, loginVars>>

(* runInspect: a failed login makes the exit code 1; so does an error in   *)
(* exporting the certificates or writing the report.                       *)
Finish ==
    /\ stage = "next"
    /\ todo = {}
    /\ stage' = "exited"
    /\ exit' \in IF \E s \in Slots : report[s] = "loginFailed" THEN {1} ELSE {0, 1}
    /\ UNCHANGED <<todo, slot, session, report, envVars, loginVars>>

Inspect == \/ Load
           \/ \E s \in Slots : VisitSlot(s)
           \/ ReadToken \/ OpenSession \/ Login \/ ListKeys \/ CloseSession
           \/ Finish

-----------------------------------------------------------------------------
(* Tokens come and go while the run lasts; a session dies with its token.  *)

Unplug(s) ==
    /\ stage \notin {"exited", "aborted"}
    /\ reader[s] # NoToken
    /\ reader' = [reader EXCEPT ![s] = NoToken]
    /\ moved' = moved \cup {reader[s]}
    /\ session' = IF session = reader[s] THEN NoToken ELSE session
    /\ UNCHANGED <<opts, todo, stage, slot, report, exit, loginVars>>

Plug(t, s) ==
    /\ stage \notin {"exited", "aborted"}
    /\ reader[s] = NoToken
    /\ \A u \in Slots : reader[u] # t
    /\ reader' = [reader EXCEPT ![s] = t]
    /\ moved' = moved \cup {t}
    /\ UNCHANGED <<opts, todo, stage, slot, session, report, exit, loginVars>>

Next == \/ Inspect
        \/ \E s \in Slots : Unplug(s) \/ \E t \in Tokens : Plug(t, s)

Spec == Init /\ [][Next]_vars

-----------------------------------------------------------------------------
TypeOK ==
    /\ opts \in Options
    /\ reader \in [Slots -> Tokens \cup {NoToken}]
    /\ tries \in [Tokens -> 0 .. MaxTries]
    /\ todo \subseteq Slots
    /\ stage \in {"load", "next", "token", "open", "login", "keys", "close",
                  "exited", "aborted"}
    /\ slot \in Slots \cup {NoFilter}
    /\ session \in Tokens \cup {NoToken}
    /\ report \in [Slots -> Lines]
    /\ exit \in {-1, 0, 1}
    /\ logins \in [Tokens -> Nat]
    /\ failures \in Nat
    /\ moved \subseteq Tokens

(* Every failed C_Login shows as the failed login of one slot, and the run *)
(* exits 0 only if there was none, whatever was pulled out meanwhile       *)
(* (attemptLoginAndListPrivate, loginFailed).                              *)
FailuresAreReported ==
    /\ failures = Cardinality({s \in Slots : report[s] = "loginFailed"})
    /\ exit = 0 => failures = 0

(* A token that stays where it is gets one C_Login per run at most, and so *)
(* does a token that moves, when --slot names one slot ("used for exactly  *)
(* one C_Login per token", Options).                                       *)
OneLoginPerToken ==
    \A t \in Tokens : t \notin moved \/ opts.slot # NoFilter => logins[t] <= 1

(* A token left in place that the filters admit has a line of its own in   *)
(* the report of a finished run.                                           *)
NothingIsSkipped ==
    stage = "exited" =>
        \A s \in Slots :
            /\ opts.slot \in {NoFilter, s}
            /\ reader[s] # NoToken /\ reader[s] \notin moved
            /\ opts.label \in {NoFilter, reader[s]}
            => report[s] \notin {"none", "empty"}
=============================================================================
