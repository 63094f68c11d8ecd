-------------------------- MODULE DssSessionProofs --------------------------
(***************************************************************************)
(* The safety of a conversation with the DSS helper, for any documents and *)
(* any number of stray lines.  The invariant says how far the helper is    *)
(* with the request that the client's stage has sent it, and that no line  *)
(* but a stray one is read before that request's answer.                   *)
(***************************************************************************)
EXTENDS DssSession, TLAPS

Prepared == <<"getDataToSign">>
Completed == <<"getDataToSign", "signDocument">>

\* The value asked of the token, and the container it belongs in.
Signature == [over |-> Wanted, digest |-> task.digest]
Container == [info |-> Wanted, alg |-> task.digest, sig |-> Signature,
              stamped |-> task.level = "t"]

\* The two requests of a call, of which Validate makes one only.
First == IF task.kind = "validate" THEN [op |-> "validate", doc |-> task.doc]
         ELSE [op |-> "getDataToSign", info |-> Wanted]
Second == [op |-> "signDocument", sig |-> Signature]

\* The fields hold what was asked for.
Ready == /\ Complete(session) /\ SignedInfoOf(session) = Wanted
         /\ session.digestAlgo = task.digest /\ session.service = ServiceFor(task.level)

\* What an answer to request r says, if it is ok.
Good(r, a) ==
    a.ok => /\ r.op = "getDataToSign" => a.dtbs = Wanted /\ Ready
            /\ r.op = "signDocument" => a.xml = Container

(* How far the helper is: idle after the operations h, asked for r, at     *)
(* work on it, or about to print its answer.                               *)
Idle(h) == /\ handled = h /\ request = None /\ answer = None /\ stdin = <<>>
           /\ jvm \in {"off", "reading", "exited"}
Asked(h, r) == /\ handled = h /\ request = None /\ answer = None /\ stdin = <<r>>
               /\ jvm \in {"reading", "exited"}
Handling(h, r) == /\ handled = h /\ request = r /\ answer = None /\ stdin = <<>>
                  /\ jvm \in {"handling", "exited"}
Answering(h, r) == /\ handled = h /\ request = r /\ answer \in Answers /\ Good(r, answer)
                   /\ stdin = <<>> /\ jvm \in {"printing", "exited"}

Exchange(before, r, after) ==
    Asked(before, r) \/ Handling(before, r) \/ Answering(after, r) \/ Idle(after)

FirstExchange == Exchange(<<>>, First, <<First.op>>)
SecondExchange == task.kind = "sign" /\ Ready /\ Exchange(Prepared, Second, Completed)

HelperPhase == Idle(<<>>) \/ FirstExchange \/ SecondExchange

\* A line that is not a stray one is the answer, and the last.
Lines(r, after) ==
    \A i \in 1 .. Len(stdout) : stdout[i] # Stray =>
        i = Len(stdout) /\ Idle(after) /\ Good(r, stdout[i])

(* What the client's stage says of the helper and of the call.             *)
Progress ==
    /\ stage \in {"check", "start"} =>
          Idle(<<>>) /\ jvm = "off" /\ stdout = <<>> /\ sigValue = None
    /\ stage \notin {"check", "done"} => Supported
    /\ stage \in {"call", "read", "token"} => jvm # "off"
    /\ stage = "call" /\ sigValue = None => Idle(<<>>) /\ stdout = <<>>
    /\ stage = "read" /\ sigValue = None => FirstExchange /\ Lines(First, <<First.op>>)
    /\ stage = "token" \/ (stage = "call" /\ sigValue # None) =>
          task.kind = "sign" /\ Idle(Prepared) /\ stdout = <<>> /\ Ready
    /\ stage = "token" => dtbs = Wanted
    /\ stage = "read" /\ sigValue # None => SecondExchange /\ Lines(Second, Completed)
    /\ sigValue \in {None, Signature}
    /\ stage = "output" => xml = Container
    /\ stage = "done" => ~Alive
    /\ stage \in {"check", "start", "call", "read", "token", "output"} => outcome = "none"
    /\ outcome = "signed" => file = Container
    /\ outcome # "signed" => file = None \/ (file = Partial /\ outcome = "failed")

IndInv == TypeOK /\ HelperPhase /\ Progress

-----------------------------------------------------------------------------
(* What a supported call asks for is well typed, and no data is None.      *)
LEMMA CallTypes ==
  ASSUME TypeOK, Supported
  PROVE  /\ First \in Requests \ {None} /\ First # Second
         /\ task.kind = "sign" => /\ Wanted \in SignedInfos \ {None}
                                  /\ Signature \in Signatures \ {None}
                                  /\ Second \in Requests \ {None}
                                  /\ Container \in Xmls \ {None}
                                  /\ First.op = "getDataToSign" /\ First.info = Wanted
         /\ task.kind # "sign" => task.kind = "validate" /\ First.op = "validate"
<1>1. task \in Tasks
  BY DEF TypeOK
<1>2. CASE task.kind = "sign"
  <2>1. task.doc \in Docs /\ task.digest \in Digests /\ task.level \in Levels
    BY <1>1, <1>2 DEF Tasks, Supported
  <2>2. Wanted \in SignedInfos
    BY <2>1 DEF Wanted, SignedInfos
  <2>3. Signature \in Signatures
    BY <2>1, <2>2 DEF Signature, Signatures
  <2>4. Container \in Xmls
    BY <2>1, <2>2, <2>3 DEF Container, Xmls
  <2>5. First = [op |-> "getDataToSign", info |-> Wanted]
    BY <1>2 DEF First
  <2>6. First \in Requests /\ Second \in Requests
    BY <2>2, <2>3, <2>5 DEF Second, Requests
  <2>7. First # Second
    BY <2>5 DEF Second
  <2> QED
    BY <1>2, <2>2, <2>3, <2>4, <2>5, <2>6, <2>7, SentinelAssumption
<1>3. CASE task.kind # "sign"
  <2>1. task.kind = "validate" /\ task.doc \in Docs \cup {None}
    BY <1>1, <1>3 DEF Tasks
  <2>2. First = [op |-> "validate", doc |-> task.doc]
    BY <2>1 DEF First
  <2>3. First \in Requests /\ First # Second
    BY <2>1, <2>2 DEF Requests, Second
  <2> QED
    BY <1>3, <2>1, <2>2, <2>3, SentinelAssumption
<1> QED
  BY <1>2, <1>3

(* No answer is None or a stray line.                                      *)
LEMMA AnswerTypes ==
  /\ Failure \in Answers /\ Success \in Answers
  /\ None \notin Answers /\ Stray \notin Answers /\ None \notin Requests
  BY SentinelAssumption DEF Failure, Success, Answers

(* A call begins before the check, with no helper.                         *)
LEMMA InitHolds == Init => IndInv
<1> SUFFICES ASSUME Init PROVE IndInv
  OBVIOUS
<1>1. TypeOK
  <2>1. NoSession \in Sessions
    BY DEF NoSession, Sessions
  <2>2. MaxStrays \in Nat
    BY HelperAssumption
  <2>3. HelperTypeOK
    BY <2>1, <2>2 DEF Init, HelperInit, HelperTypeOK
  <2> QED
    BY <2>3 DEF Init, TypeOK
<1>2. Idle(<<>>)
  BY DEF Init, HelperInit, Idle
<1> QED
  BY <1>1, <1>2 DEF Init, HelperInit, IndInv, HelperPhase, Progress

-----------------------------------------------------------------------------
(* The helper.                                                             *)

(* A helper at work has a request of a supported call.                     *)
LEMMA AtWork ==
  ASSUME IndInv, jvm = "handling"
  PROVE  /\ Supported
         /\ \/ request = First
            \/ request = Second /\ task.kind = "sign" /\ Ready
         /\ answer = None
<1>1. Supported
  BY DEF IndInv, Progress, Alive
<1> QED
  BY <1>1 DEF IndInv, HelperPhase, FirstExchange, SecondExchange, Exchange,
     Idle, Asked, Handling, Answering

(* A helper step is well typed.                                            *)
LEMMA HelperTypes ==
  ASSUME IndInv, Helper
  PROVE  TypeOK'
<1> USE DEF Helper, dataVars, callVars, inVars
<1>1. TypeOK /\ HelperTypeOK /\ MaxStrays \in Nat
  BY HelperAssumption DEF IndInv, TypeOK
<1>2. ASSUME HelperTypeOK' PROVE TypeOK'
  BY <1>1, <1>2 DEF TypeOK
<1>3. ASSUME NEW s \in Sessions, NEW a \in Answers, Handled(s, a), jvm = "handling"
      PROVE  TypeOK'
  <2>1. request.op \in {"getDataToSign", "signDocument", "validate"}
    BY <1>3, AtWork DEF First, Second
  <2> QED
    BY <1>1, <1>2, <1>3, <2>1 DEF Handled, HelperTypeOK
<1>4. CASE ReadLine
  BY <1>1, <1>2, <1>4 DEF ReadLine, HelperTypeOK
<1>5. CASE EndOfInput
  BY <1>1, <1>2, <1>5 DEF EndOfInput, HelperTypeOK
<1>6. CASE PrintStray
  <2>1. strays' \in 0 .. MaxStrays /\ stdout' \in Seq(Answers \cup {Stray})
    BY <1>1, <1>6 DEF PrintStray, HelperTypeOK
  <2> QED
    BY <1>1, <1>2, <1>6, <2>1 DEF PrintStray, HelperTypeOK
<1>7. CASE Println(stage = "read")
  <2>1. answer \in Answers
    BY <1>7 DEF Println, IndInv, HelperPhase, FirstExchange, SecondExchange, Exchange,
       Idle, Asked, Handling, Answering
  <2>2. stdout' \in Seq(Answers \cup {Stray})
    BY <1>1, <1>7, <2>1 DEF Println, HelperTypeOK
  <2> QED
    BY <1>1, <1>2, <1>7, <2>2 DEF Println, HelperTypeOK
<1>8. CASE HandleGetDataToSign
  <2>1. Supported /\ jvm = "handling" /\ request.op = "getDataToSign"
    BY <1>8, AtWork DEF HandleGetDataToSign
  <2>2. request = First /\ task.kind = "sign" /\ First.info = Wanted /\ Wanted \in SignedInfos
    BY <1>1, <2>1, AtWork, CallTypes DEF Second
  <2> DEFINE info == request.info
             digested == [session EXCEPT !.digestAlgo = info.digest]
             loaded == [digested EXCEPT !.document = info.doc]
             ready == [loaded EXCEPT !.service = ServiceFor(info.level),
                          !.params = [digest |-> info.digest, level |-> info.level]]
  <2>3. /\ info.doc \in Docs /\ info.digest \in Digests /\ info.level \in Levels
        /\ session \in Sessions
    BY <1>1, <2>2 DEF SignedInfos, HelperTypeOK
  <2>4. digested \in Sessions /\ loaded \in Sessions
    BY <2>3 DEF Sessions
  <2>5. ready \in Sessions
    BY <2>3, <2>4 DEF Sessions, ServiceFor
  <2>6. [Success EXCEPT !.dtbs = SignedInfoOf(ready)] \in Answers
    <3>1. SignedInfoOf(ready) \in SignedInfos
      BY <2>3 DEF SignedInfoOf, Sessions, SignedInfos
    <3> QED
      BY <3>1 DEF Success, Answers
  <2> QED
    BY <1>3, <1>8, <2>1, <2>3, <2>4, <2>5, <2>6, AnswerTypes DEF HandleGetDataToSign
<1>9. CASE HandleSignDocument
  <2>1. Supported /\ jvm = "handling" /\ request.op = "signDocument" /\ session \in Sessions
    BY <1>1, <1>9, AtWork DEF HandleSignDocument, HelperTypeOK
  <2>2. request = Second /\ task.kind = "sign" /\ Ready
    BY <2>1, AtWork DEF First
  <2>3. [Success EXCEPT !.xml = [info |-> SignedInfoOf(session), alg |-> session.digestAlgo,
             sig |-> request.sig, stamped |-> session.service = "tsp"]] \in Answers
    <3>1. [info |-> SignedInfoOf(session), alg |-> session.digestAlgo,
             sig |-> request.sig, stamped |-> session.service = "tsp"] \in Xmls
      <4>1. /\ SignedInfoOf(session) \in SignedInfos /\ session.digestAlgo \in Digests
            /\ request.sig \in Signatures
        BY <1>1, <2>1, <2>2, CallTypes DEF Ready, Second, Signature, Xmls, Container, Wanted,
           SignedInfos
      <4> QED
        BY <4>1 DEF Xmls
    <3> QED
      BY <3>1 DEF Success, Answers
  <2> QED
    BY <1>3, <1>9, <2>1, <2>3, AnswerTypes DEF HandleSignDocument
<1>10. CASE HandleValidate
  BY <1>1, <1>3, <1>10, AnswerTypes DEF HandleValidate, HelperTypeOK
<1> QED
  BY <1>4, <1>5, <1>6, <1>7, <1>8, <1>9, <1>10 DEF Serve

(* A step of the helper, or its death, takes an exchange on: it answers    *)
(* well or not at all, once, after any stray lines.                        *)
LEMMA ExchangeStep ==
  ASSUME TypeOK, Supported, NEW before, NEW after, NEW r \in {First, Second},
         r = Second => task.kind = "sign" /\ Ready,
         after = Append(before, r.op), before \in {<<>>, Prepared},
         Exchange(before, r, after),
         \/ ReadLine \/ EndOfInput \/ HandleGetDataToSign \/ HandleSignDocument
         \/ HandleValidate \/ PrintStray \/ Println(stage = "read") \/ Crash \/ Kill,
         UNCHANGED <<dataVars, callVars, stage, outcome>>
  PROVE  /\ Exchange(before, r, after)'
         /\ Lines(r, after) => Lines(r, after)'
         /\ r = Second => session' = session
<1> USE DEF inVars, dataVars, callVars
<1>1. /\ r \in Requests /\ r # None /\ First # Second
      /\ r.op \in {"getDataToSign", "signDocument", "validate"}
      /\ r.op = "signDocument" <=> r = Second
  BY CallTypes DEF First, Second
<1>2. /\ First' = First /\ Second' = Second /\ Wanted' = Wanted /\ Container' = Container
  BY DEF First, Second, Wanted, Signature, Container
<1>3. /\ stdout \in Seq(Answers \cup {Stray}) /\ session \in Sessions
      /\ stdin \in Seq(Requests)
  BY DEF TypeOK, HelperTypeOK
<1>4. before # after
  <2>1. before \in Seq({"getDataToSign", "signDocument", "validate"})
    <3>1. Prepared \in Seq({"getDataToSign", "signDocument", "validate"})
      BY DEF Prepared
    <3>2. <<>> \in Seq({"getDataToSign", "signDocument", "validate"})
      OBVIOUS
    <3> QED
      BY <3>1, <3>2
  <2>2. Len(after) = Len(before) + 1 /\ Len(before) \in Nat
    BY <1>1, <2>1
  <2> QED
    BY <2>2
<1>5. CASE ReadLine
  <2>1. Asked(before, r)
    BY <1>5 DEF ReadLine, Exchange, Idle, Asked, Handling, Answering
  <2>2. Head(stdin) = r /\ Tail(stdin) = <<>>
    BY <2>1 DEF Asked
  <2>3. Handling(before, r)'
    BY <1>5, <2>1, <2>2 DEF ReadLine, Asked, Handling
  <2>4. Lines(r, after) => \A i \in 1 .. Len(stdout) : stdout[i] = Stray
    BY <1>4, <2>1 DEF Lines, Idle, Asked
  <2> QED
    BY <1>5, <2>3, <2>4 DEF ReadLine, Exchange, Lines
<1>6. CASE EndOfInput \/ Crash \/ Kill
  BY <1>2, <1>6 DEF EndOfInput, Crash, Kill, Exchange, Idle, Asked, Handling, Answering, Lines,
     Good, Ready
<1>7. CASE PrintStray
  <2>1. Handling(before, r) /\ Handling(before, r)'
    BY <1>7 DEF PrintStray, Exchange, Idle, Asked, Handling, Answering
  <2>2. Lines(r, after) => \A i \in 1 .. Len(stdout) : stdout[i] = Stray
    BY <1>4, <2>1 DEF Lines, Idle, Handling
  <2>3. (\A i \in 1 .. Len(stdout) : stdout[i] = Stray)
            => \A i \in 1 .. Len(stdout') : stdout'[i] = Stray
    BY <1>3, <1>7 DEF PrintStray
  <2> QED
    BY <1>2, <1>7, <2>1, <2>2, <2>3 DEF PrintStray, Exchange, Lines
<1>8. CASE Println(stage = "read")
  <2>1. Answering(after, r) /\ Idle(after)'
    BY <1>8 DEF Println, Exchange, Idle, Asked, Handling, Answering
  <2>2. Lines(r, after) => \A i \in 1 .. Len(stdout) : stdout[i] = Stray
    BY <2>1, AnswerTypes DEF Lines, Idle, Answering
  <2>3. /\ Len(stdout') = Len(stdout) + 1 /\ stdout'[Len(stdout) + 1] = answer
        /\ \A i \in 1 .. Len(stdout) : stdout'[i] = stdout[i]
        /\ Len(stdout) \in Nat
    BY <1>3, <1>8 DEF Println
  <2>4. Ready => Ready'
    BY <1>2, <1>8 DEF Println, Ready
  <2>5. ASSUME \A i \in 1 .. Len(stdout) : stdout[i] = Stray
        PROVE  Lines(r, after)'
    <3>1. ASSUME NEW i \in 1 .. Len(stdout'), stdout'[i] # Stray
          PROVE  i = Len(stdout') /\ Good(r, stdout[i])'
      <4>1. i = Len(stdout) + 1
        BY <2>3, <2>5, <3>1
      <4>2. stdout'[i] = answer /\ Good(r, answer)
        BY <2>1, <2>3, <4>1 DEF Answering
      <4> QED
        BY <1>2, <2>3, <2>4, <4>1, <4>2 DEF Good
    <3> QED
      BY <2>1, <3>1 DEF Lines
  <2> QED
    BY <1>8, <2>1, <2>2, <2>5 DEF Println, Exchange
<1>9. ASSUME jvm = "handling", request.op = r.op, NEW s, NEW a \in Answers, Handled(s, a),
             r = Second => s = session, Good(r, a)'
      PROVE  /\ Exchange(before, r, after)'
             /\ Lines(r, after) => Lines(r, after)'
             /\ r = Second => session' = session
  <2>1. Handling(before, r)
    BY <1>9 DEF Exchange, Idle, Asked, Handling, Answering
  <2>2. Lines(r, after) => \A i \in 1 .. Len(stdout) : stdout[i] = Stray
    BY <1>4, <2>1 DEF Lines, Idle, Handling
  <2>3. Answering(after, r)'
    BY <1>9, <2>1 DEF Handled, Handling, Answering
  <2> QED
    BY <1>9, <2>2, <2>3 DEF Handled, Exchange, Lines
<1>10. \A a : ~a.ok => Good(r, a)'
  BY DEF Good
<1>11. ~Failure.ok
  BY DEF Failure
<1>12. CASE HandleGetDataToSign
  <2>1. jvm = "handling" /\ request = r /\ r.op = "getDataToSign" /\ r = First
    BY <1>1, <1>12 DEF HandleGetDataToSign, Exchange, Idle, Asked, Handling, Answering
  <2>2. /\ task.kind = "sign" /\ r.info = Wanted
        /\ Wanted \in SignedInfos
    BY <2>1, CallTypes
  <2>3. /\ Wanted.doc \in Docs /\ Wanted.digest \in Digests /\ Wanted.level \in Levels
        /\ Wanted.level = task.level /\ Wanted.digest = task.digest
    BY <2>2 DEF SignedInfos, Wanted
  <2> DEFINE digested == [session EXCEPT !.digestAlgo = Wanted.digest]
             loaded == [digested EXCEPT !.document = Wanted.doc]
             ready == [loaded EXCEPT !.service = ServiceFor(Wanted.level),
                          !.params = [digest |-> Wanted.digest, level |-> Wanted.level]]
             done == [Success EXCEPT !.dtbs = SignedInfoOf(ready)]
  <2>4. /\ ready.document = Wanted.doc /\ ready.digestAlgo = Wanted.digest
        /\ ready.service = ServiceFor(Wanted.level)
        /\ ready.params = [digest |-> Wanted.digest, level |-> Wanted.level]
    BY <1>3 DEF Sessions
  <2>5. SignedInfoOf(ready) = Wanted /\ Complete(ready)
    <3>1. SignedInfoOf(ready) = Wanted
      BY <2>4 DEF SignedInfoOf, Wanted
    <3>2. Complete(ready)
      BY <2>3, <2>4, HelperAssumption, SentinelAssumption DEF Complete, ServiceFor
    <3> QED
      BY <3>1, <3>2
  <2>6. done \in Answers /\ done.dtbs = Wanted
    BY <2>2, <2>5 DEF Success, Answers
  <2>7. CASE \E s : Handled(s, Failure)
    <3>1. PICK s : Handled(s, Failure)
      BY <2>7
    <3> QED
      BY <1>1, <1>9, <1>10, <1>11, <2>1, <3>1, AnswerTypes
  <2>8. CASE Handled(ready, done)
    <3>1. PICK s, a : s = ready /\ a = done /\ Handled(s, a)
      BY <2>8
    <3>2. session' = ready
      BY <3>1 DEF Handled
    <3>3. Ready'
      BY <1>2, <2>3, <2>4, <2>5, <3>2 DEF Ready
    <3>4. Good(r, a)'
      BY <1>2, <2>1, <2>6, <3>1, <3>3 DEF Good
    <3>5. a \in Answers
      BY <2>6, <3>1
    <3> HIDE DEF ready, done
    <3> QED
      BY <1>1, <1>9, <2>1, <3>1, <3>4, <3>5
  <2> QED
    BY <1>12, <2>1, <2>2, <2>7, <2>8 DEF HandleGetDataToSign
<1>13. CASE HandleSignDocument
  <2>1. jvm = "handling" /\ request = r /\ r.op = "signDocument" /\ r = Second
    BY <1>1, <1>13 DEF HandleSignDocument, Exchange, Idle, Asked, Handling, Answering
  <2> DEFINE made == [info |-> SignedInfoOf(session), alg |-> session.digestAlgo,
                      sig |-> request.sig, stamped |-> session.service = "tsp"]
             done == [Success EXCEPT !.xml = made]
  <2>2. task.kind = "sign" /\ Container \in Xmls /\ task.level \in Levels
    BY <2>1, CallTypes DEF Supported, Wanted, SignedInfos
  <2>3. made = Container
    <3>1. (session.service = "tsp") = (task.level = "t")
      BY <2>1 DEF Ready, ServiceFor
    <3>2. request.sig = Signature
      BY <2>1 DEF Second
    <3> QED
      BY <2>1, <3>1, <3>2 DEF Container, Ready
  <2>4. done \in Answers /\ done.xml = Container
    BY <2>2, <2>3 DEF Success, Answers
  <2>5. CASE Handled(session, Failure)
    BY <1>9, <1>10, <1>11, <2>1, <2>5, AnswerTypes
  <2>6. CASE Handled(session, done)
    <3>1. PICK s, a : s = session /\ a = done /\ Handled(s, a)
      BY <2>6
    <3>2. Good(r, a)'
      BY <1>2, <2>1, <2>4, <3>1 DEF Good
    <3>3. a \in Answers
      BY <2>4, <3>1
    <3> HIDE DEF made, done
    <3> QED
      BY <1>9, <2>1, <3>1, <3>2, <3>3
  <2> QED
    BY <1>13, <2>5, <2>6 DEF HandleSignDocument
<1>14. CASE HandleValidate
  <2>1. jvm = "handling" /\ request = r /\ r.op = "validate" /\ r # Second
    BY <1>1, <1>14 DEF HandleValidate, Exchange, Idle, Asked, Handling, Answering
  <2>2. \A a : Good(r, a)'
    BY <2>1 DEF Good
  <2>3. PICK a \in {Failure, Success} : Handled(session, a)
    BY <1>14 DEF HandleValidate
  <2> QED
    BY <1>9, <2>1, <2>2, <2>3, AnswerTypes
<1> QED
  BY <1>5, <1>6, <1>7, <1>8, <1>12, <1>13, <1>14

-----------------------------------------------------------------------------
(* What the helper, a crash or a kill does leaves the call where it is.    *)
LEMMA HelperStep ==
  ASSUME IndInv,
         Helper \/ Kill \/ (Crash /\ UNCHANGED <<dataVars, callVars, stage, outcome>>)
  PROVE  IndInv'
<1> USE DEF inVars, dataVars, callVars
<1>1. /\ \/ ReadLine \/ EndOfInput \/ HandleGetDataToSign \/ HandleSignDocument
         \/ HandleValidate \/ PrintStray \/ Println(stage = "read") \/ Crash \/ Kill
      /\ UNCHANGED <<dataVars, callVars, stage, outcome>>
  BY DEF Helper, Serve, Kill
<1>2. TypeOK'
  <2>1. CASE Helper
    BY <2>1, HelperTypes
  <2>2. CASE Kill \/ Crash
    BY <1>1, <2>2 DEF IndInv, TypeOK, HelperTypeOK, Kill, Crash
  <2> QED
    BY <2>1, <2>2
<1>3. Alive /\ jvm' \in {"reading", "handling", "printing", "exited"}
  BY <1>1 DEF Alive, ReadLine, EndOfInput, HandleGetDataToSign, HandleSignDocument,
     HandleValidate, PrintStray, Println, Handled, Crash, Kill
<1>4. Supported /\ Supported'
  BY <1>1, <1>3 DEF IndInv, Progress, Alive, Supported
<1>5. /\ First' = First /\ Second' = Second /\ Wanted' = Wanted /\ Container' = Container
      /\ Signature' = Signature
  BY <1>1 DEF First, Second, Wanted, Signature, Container
<1>6. ASSUME NEW h, Idle(h) PROVE Idle(h)' /\ UNCHANGED <<stdout, session>>
  BY <1>1, <1>6 DEF Idle, ReadLine, EndOfInput, HandleGetDataToSign, HandleSignDocument,
     HandleValidate, PrintStray, Println, Crash, Kill
<1>7. FirstExchange => /\ FirstExchange'
                       /\ Lines(First, <<First.op>>) => Lines(First, <<First.op>>)'
  <2>1. PICK r, after : r = First /\ after = <<r.op>>
    OBVIOUS
  <2>2. after = Append(<<>>, r.op) /\ r # Second
    BY <1>4, <2>1, CallTypes DEF IndInv
  <2>3. Exchange(<<>>, r, after) =>
            /\ Exchange(<<>>, r, after)'
            /\ Lines(r, after) => Lines(r, after)'
    BY <1>1, <1>4, <2>1, <2>2, ExchangeStep DEF IndInv
  <2> QED
    BY <1>5, <2>1, <2>3 DEF FirstExchange
<1>8. SecondExchange => /\ SecondExchange'
                        /\ Lines(Second, Completed) => Lines(Second, Completed)'
  <2>1. PICK r : r = Second
    OBVIOUS
  <2>2. Completed = Append(Prepared, r.op)
    BY <2>1 DEF Completed, Prepared, Second
  <2>3. SecondExchange =>
            /\ Exchange(Prepared, r, Completed)'
            /\ Lines(r, Completed) => Lines(r, Completed)'
            /\ session' = session
    BY <1>1, <1>4, <2>1, <2>2, ExchangeStep DEF IndInv, SecondExchange
  <2>4. Ready /\ session' = session => Ready'
    BY <1>1, <1>5 DEF Ready
  <2> QED
    BY <1>1, <1>5, <2>1, <2>3, <2>4 DEF SecondExchange
<1>9. HelperPhase'
  BY <1>6, <1>7, <1>8 DEF IndInv, HelperPhase
<1>10. Progress'
  <2>1. stage \notin {"check", "start", "done"} /\ stage' = stage /\ sigValue' = sigValue
    BY <1>1, <1>3 DEF IndInv, Progress, Alive
  <2>2. /\ Idle(<<>>) => Idle(<<>>)' /\ UNCHANGED stdout
        /\ Idle(Prepared) => Idle(Prepared)' /\ UNCHANGED <<stdout, session>>
    BY <1>6
  <2>3. session' = session /\ Ready => Ready'
    BY <1>1, <1>5 DEF Ready
  <2>4. stage = "call" /\ sigValue = None => (Idle(<<>>) /\ stdout = <<>>)'
    BY <2>2 DEF IndInv, Progress
  <2>5. stage = "token" \/ (stage = "call" /\ sigValue # None) =>
            (task.kind = "sign" /\ Idle(Prepared) /\ stdout = <<>> /\ Ready)'
    BY <1>1, <2>2, <2>3 DEF IndInv, Progress
  <2>6. stage = "read" => /\ sigValue = None => (FirstExchange /\ Lines(First, <<First.op>>))'
                          /\ sigValue # None => (SecondExchange /\ Lines(Second, Completed))'
    BY <1>7, <1>8 DEF IndInv, Progress
  <2>7. UNCHANGED <<stage, sigValue, dtbs, xml, file, outcome>> /\ jvm' # "off"
    BY <1>1, <1>3
  <2> QED
    BY <1>4, <1>5, <2>1, <2>4, <2>5, <2>6, <2>7 DEF IndInv, Progress
<1> QED
  BY <1>2, <1>9, <1>10 DEF IndInv

-----------------------------------------------------------------------------
(* The client.                                                             *)

(* What is said of the helper alone outlasts a step of the client.         *)
LEMMA HelperStays ==
  ASSUME UNCHANGED <<jvm, session, request, answer, stdin, handled, task>>
  PROVE  /\ HelperPhase => HelperPhase'
         /\ Ready => Ready'
         /\ Idle(<<>>) => Idle(<<>>)'
         /\ Idle(Prepared) => Idle(Prepared)'
         /\ Wanted' = Wanted /\ Container' = Container /\ Signature' = Signature
         /\ First' = First /\ Second' = Second
  BY DEF HelperPhase, FirstExchange, SecondExchange, Exchange, Idle, Asked, Handling, Answering,
     Good, Ready, First, Second, Wanted, Signature, Container

(* The check, the start, the token, the output and the end.                *)
LEMMA QuietStep ==
  ASSUME IndInv, \/ CheckRequest \/ TokenSign \/ WriteOutput \/ CloseStdin \/ Wait \/ Cancel
  PROVE  IndInv'
<1> USE DEF jvmVars, inVars, dataVars, callVars, Return
<1>1. /\ UNCHANGED <<jvm, session, request, answer, stdin, stdout, strays, handled, task>>
      /\ task \in Tasks /\ TypeOK
  BY DEF IndInv, TypeOK, CheckRequest, TokenSign, WriteOutput, CloseStdin, Wait, Cancel
<1>2. Supported' = Supported /\ HelperPhase'
  BY <1>1, HelperStays DEF IndInv, Supported
<1>3. TypeOK'
  <2>1. HelperTypeOK'
    BY <1>1 DEF TypeOK, HelperTypeOK, CheckRequest, TokenSign, WriteOutput, CloseStdin, Wait, Cancel
  <2>2. sigValue' \in Signatures \cup {None} /\ file' \in Xmls \cup {None, Partial}
    <3>1. CASE TokenSign
      <4>1. Supported /\ task.kind = "sign" /\ dtbs = Wanted
        BY <3>1 DEF IndInv, Progress, TokenSign
      <4> QED
        BY <1>1, <3>1, <4>1, CallTypes DEF TypeOK, TokenSign, Signature
    <3>2. CASE ~TokenSign
      BY <1>1, <3>2 DEF TypeOK, CheckRequest, WriteOutput, CloseStdin, Wait, Cancel
    <3> QED
      BY <3>1, <3>2
  <2> QED
    BY <1>1, <2>1, <2>2
       DEF TypeOK, CheckRequest, TokenSign, WriteOutput, CloseStdin, Wait, Cancel
<1>4. Progress'
  <2> USE <1>1, <1>2, HelperStays DEF IndInv, Progress, Alive
  <2>1. CASE CheckRequest
    <3>1. /\ outcome = "none" /\ file = None /\ Idle(<<>>)' /\ jvm = "off" /\ stdout = <<>>
          /\ sigValue = None /\ UNCHANGED <<sigValue, file>>
      BY <2>1 DEF CheckRequest
    <3>2. \/ Supported' /\ stage' = "start" /\ outcome' = "none"
          \/ stage' = "done" /\ outcome' = "failed"
      BY <2>1, <3>1 DEF CheckRequest
    <3> HIDE <1>2, HelperStays DEF CheckRequest
    <3> QED
      BY <3>1, <3>2
  <2>2. CASE TokenSign
    <3>1. /\ Supported /\ task.kind = "sign" /\ dtbs = Wanted /\ Signature # None
          /\ sigValue' \in {None, Signature}
          /\ stage' = "call" => sigValue' = Signature
      BY <2>2, CallTypes DEF TokenSign, Signature
    <3>2. /\ Idle(Prepared)' /\ Ready' /\ stdout' = <<>> /\ Supported' /\ jvm' # "off"
          /\ outcome = "none" /\ file' = None /\ task' = task
          /\ \/ stage' = "call" /\ outcome' = "none" /\ sigValue' # None
             \/ stage' = "close" /\ outcome' = "failed"
          /\ Signature' = Signature
      BY <2>2, <3>1 DEF TokenSign
    <3> HIDE <1>2, HelperStays
    <3> QED
      BY <3>1, <3>2
  <2>3. CASE WriteOutput
    BY <2>3 DEF WriteOutput
  <2>4. CASE CloseStdin
    BY <2>4 DEF CloseStdin
  <2>5. CASE Wait
    BY <2>5 DEF Wait
  <2>6. CASE Cancel
    <3>1. /\ FirstExchange => FirstExchange'
          /\ SecondExchange => SecondExchange'
          /\ Lines(First, <<First.op>>) => Lines(First, <<First.op>>)'
          /\ Lines(Second, Completed) => Lines(Second, Completed)'
      BY DEF FirstExchange, SecondExchange, Exchange, Lines, Idle, Asked, Handling, Answering,
         Good
    <3>2. /\ UNCHANGED <<jvm, stdout, task, stage, sigValue, dtbs, xml, file, outcome>>
          /\ Idle(<<>>) => Idle(<<>>)'
          /\ Idle(Prepared) => Idle(Prepared)'
          /\ Container' = Container /\ Signature' = Signature /\ Wanted' = Wanted
          /\ Ready => Ready'
      BY <2>6 DEF Cancel
    <3> HIDE HelperStays
    <3> QED
      BY <3>1, <3>2
  <2> QED
    BY <2>1, <2>2, <2>3, <2>4, <2>5, <2>6
<1> QED
  BY <1>2, <1>3, <1>4 DEF IndInv

(* A started helper is idle and knows nothing.                             *)
LEMMA StartStep ==
  ASSUME IndInv, StartHelper
  PROVE  IndInv'
<1> USE DEF StartHelper, inVars, dataVars, callVars, Return
<1>1. /\ Idle(<<>>) /\ jvm = "off" /\ Supported /\ stdout = <<>> /\ sigValue = None
      /\ jvm' \in {"off", "reading"}
  BY DEF IndInv, Progress
<1>2. Idle(<<>>)' /\ Supported'
  BY <1>1 DEF Idle, Supported
<1>3. TypeOK'
  BY <1>1 DEF IndInv, TypeOK, HelperTypeOK
<1>4. Progress'
  BY <1>1, <1>2 DEF IndInv, Progress, Alive, Container, Wanted, Signature
<1> QED
  BY <1>2, <1>3, <1>4 DEF IndInv, HelperPhase

(* A request is sent to an idle helper.                                    *)
LEMMA WriteRequestStep ==
  ASSUME IndInv, WriteRequest
  PROVE  IndInv'
<1> USE DEF WriteRequest, dataVars, callVars, Return
<1>1. /\ Supported /\ stdout = <<>> /\ jvm # "off" /\ jvm \in {"reading", "exited"}
      /\ stdin = <<>> /\ request = None /\ answer = None
      /\ sigValue \in {None, Signature} /\ outcome = "none" /\ file = None
  BY DEF IndInv, Progress, Idle
<1>2. CASE jvm = "exited"
  <2>1. UNCHANGED <<jvm, session, request, answer, stdin, handled, task>>
    BY <1>2
  <2>2. TypeOK'
    BY <1>2 DEF IndInv, TypeOK, HelperTypeOK
  <2>3. Progress'
    BY <1>1, <1>2, <2>1, HelperStays DEF IndInv, Progress, Supported
  <2> QED
    BY <2>1, <2>2, <2>3, HelperStays DEF IndInv
<1>3. CASE jvm = "reading"
  <2>1. /\ First' = First /\ Second' = Second /\ Wanted' = Wanted /\ Container' = Container
        /\ Signature' = Signature /\ (Ready => Ready')
    BY <1>3 DEF First, Second, Wanted, Signature, Container, Ready
  <2>2. CASE sigValue = None
    <3>1. NextRequest = First /\ Idle(<<>>) /\ First \in Requests
      BY <1>1, <2>2, CallTypes DEF IndInv, Progress, NextRequest, First
    <3>2. stdin' = <<First>>
      BY <1>1, <1>3, <3>1
    <3>3. Asked(<<>>, First)'
      BY <1>1, <1>3, <2>1, <3>1, <3>2 DEF Idle, Asked
    <3>4. FirstExchange' /\ Lines(First, <<First.op>>)'
      BY <1>1, <1>3, <3>3 DEF FirstExchange, Exchange, Lines
    <3>5. TypeOK'
      BY <1>1, <1>3, <3>1, <3>2 DEF IndInv, TypeOK, HelperTypeOK
    <3>6. Progress'
      BY <1>1, <1>3, <2>1, <2>2, <3>4 DEF IndInv, Progress, Supported
    <3> QED
      BY <3>4, <3>5, <3>6 DEF IndInv, HelperPhase
  <2>3. CASE sigValue # None
    <3>1. /\ task.kind = "sign" /\ Idle(Prepared) /\ Ready /\ sigValue = Signature
          /\ NextRequest = Second /\ Second \in Requests
      BY <1>1, <2>3, CallTypes DEF IndInv, Progress, NextRequest, Second
    <3>2. stdin' = <<Second>>
      BY <1>1, <1>3, <3>1
    <3>3. Asked(Prepared, Second)'
      BY <1>1, <1>3, <2>1, <3>1, <3>2 DEF Idle, Asked
    <3>4. SecondExchange' /\ Lines(Second, Completed)'
      BY <1>1, <1>3, <2>1, <3>1, <3>3 DEF SecondExchange, Exchange, Lines
    <3>5. TypeOK'
      BY <1>1, <1>3, <3>1, <3>2 DEF IndInv, TypeOK, HelperTypeOK
    <3>6. Progress'
      BY <1>1, <1>3, <2>1, <2>3, <3>4 DEF IndInv, Progress, Supported
    <3> QED
      BY <3>4, <3>5, <3>6 DEF IndInv, HelperPhase
  <2> QED
    BY <2>2, <2>3
<1> QED
  BY <1>1, <1>2, <1>3

(* A line is read: the answer, after which there is none, or the end of    *)
(* the call.                                                               *)
LEMMA ReadAnswerStep ==
  ASSUME IndInv, ReadAnswer
  PROVE  IndInv'
<1> USE DEF ReadAnswer, inVars, callVars, Return
<1>1. UNCHANGED <<jvm, session, request, answer, stdin, handled, task, sigValue, file>>
      /\ HelperTypeOK /\ stage = "read" /\ Supported /\ outcome = "none" /\ file = None
      /\ task.kind \in {"sign", "validate"}
  BY CallTypes DEF IndInv, TypeOK, Progress
<1>2. HelperPhase' /\ (Supported <=> Supported')
  BY <1>1, HelperStays DEF IndInv, Supported
<1>3. stdout \in Seq(Answers \cup {Stray}) /\ stdout' \in Seq(Answers \cup {Stray})
  <2>1. stdout \in Seq(Answers \cup {Stray})
    BY <1>1 DEF HelperTypeOK
  <2>2. stdout' = stdout \/ (stdout # <<>> /\ stdout' = Tail(stdout))
    OBVIOUS
  <2> QED
    BY <2>1, <2>2
<1>4. CASE Refuse
  <2>1. TypeOK'
    BY <1>1, <1>3, <1>4 DEF Refuse, IndInv, TypeOK, HelperTypeOK
  <2>2. Progress'
    BY <1>1, <1>2, <1>4, HelperStays DEF Refuse, IndInv, Progress
  <2> QED
    BY <1>2, <2>1, <2>2 DEF IndInv
<1>5. ASSUME stdout # <<>>, Head(stdout) # Stray, Head(stdout).ok, Accept(Head(stdout)),
             stdout' = Tail(stdout)
      PROVE  IndInv'
  <2>1. Head(stdout) = stdout[1] /\ 1 \in 1 .. Len(stdout) /\ Head(stdout) \in Answers
    BY <1>3, <1>5
  <2>2. /\ dtbs' \in SignedInfos \cup {None} /\ xml' \in Xmls \cup {None}
        /\ stage' \in {"close", "token", "output"} /\ outcome' \in {"none", "validated"}
        /\ outcome' = "validated" => stage' = "close"
    BY <1>1, <1>5, <2>1 DEF Accept, Answers, IndInv, TypeOK
  <2>3. TypeOK'
    BY <1>1, <1>3, <2>2 DEF IndInv, TypeOK, HelperTypeOK
  <2>4. ASSUME NEW r, NEW after, Lines(r, after)
        PROVE  Idle(after) /\ Good(r, Head(stdout)) /\ stdout' = <<>>
    <3>1. Len(stdout) = 1 /\ Idle(after) /\ Good(r, stdout[1])
      BY <1>5, <2>1, <2>4 DEF Lines
    <3>2. stdout' = <<>>
      BY <1>3, <1>5, <3>1
    <3> QED
      BY <2>1, <3>1, <3>2
  <2>5. CASE task.kind = "validate"
    <3>1. stage' = "close"
      BY <1>5, <2>5 DEF Accept
    <3> QED
      BY <1>1, <1>2, <2>2, <2>3, <3>1, HelperStays DEF IndInv, Progress
  <2>6. CASE task.kind = "sign" /\ sigValue = None
    <3>1. First.op = "getDataToSign" /\ <<First.op>> = Prepared
      BY <1>1, <2>6, CallTypes DEF IndInv, Prepared
    <3>2. PICK r, after : r = First /\ after = Prepared /\ Lines(r, after)
      BY <1>1, <2>6, <3>1 DEF IndInv, Progress
    <3>3. Idle(Prepared) /\ Ready /\ Head(stdout).dtbs = Wanted /\ stdout' = <<>>
      BY <1>5, <2>4, <3>1, <3>2 DEF Good
    <3>4. stage' = "token" /\ dtbs' = Wanted /\ outcome' = "none"
      BY <1>1, <1>5, <2>6, <3>3 DEF Accept
    <3>5. /\ Idle(Prepared)' /\ Ready' /\ Supported' /\ jvm # "off" /\ UNCHANGED jvm
          /\ Wanted' = Wanted /\ Signature' = Signature
      BY <1>1, <1>2, <3>3, HelperStays DEF IndInv, Progress
    <3>6. Progress'
      BY <1>1, <2>6, <3>3, <3>4, <3>5 DEF Progress
    <3> QED
      BY <1>2, <2>3, <3>6 DEF IndInv
  <2>7. CASE task.kind = "sign" /\ sigValue # None
    <3>1. PICK r, after : r = Second /\ after = Completed /\ Lines(r, after)
      BY <1>1, <2>7 DEF IndInv, Progress
    <3>2. Head(stdout).xml = Container
      BY <1>5, <2>4, <3>1 DEF Good, Second
    <3>3. stage' = "output" /\ xml' = Container /\ outcome' = "none"
      BY <1>1, <1>5, <2>7, <3>2 DEF Accept
    <3> QED
      BY <1>1, <1>2, <2>3, <3>3, HelperStays DEF IndInv, Progress
  <2> QED
    BY <1>1, <2>5, <2>6, <2>7
<1> QED
  BY <1>4, <1>5

-----------------------------------------------------------------------------
(* The invariant holds, whatever the helper does or prints.                *)
THEOREM Inductive == Spec => []IndInv
<1>1. IndInv /\ [Next]_vars => IndInv'
  <2> SUFFICES ASSUME IndInv, [Next]_vars PROVE IndInv'
    OBVIOUS
  <2>1. CASE UNCHANGED vars
    <3> USE <2>1 DEF vars, jvmVars, inVars, dataVars, callVars
    <3>1. TypeOK'
      BY DEF IndInv, TypeOK, HelperTypeOK
    <3>2. HelperPhase'
      BY HelperStays DEF IndInv
    <3>3. Progress'
      BY DEF IndInv, Progress, FirstExchange, SecondExchange, Exchange, Lines, Idle, Asked,
         Handling, Answering, Good, Ready, Alive, First, Second, Wanted, Signature, Container,
         Supported, Complete, SignedInfoOf
    <3> QED
      BY <3>1, <3>2, <3>3 DEF IndInv
  <2> QED
    BY <2>1, QuietStep, StartStep, WriteRequestStep, ReadAnswerStep, HelperStep
       DEF Next, Client
<1> QED
  BY <1>1, InitHolds, PTL DEF Spec

(* The types.                                                              *)
THEOREM TypesHold == Spec => []TypeOK
<1>1. IndInv => TypeOK
  BY DEF IndInv
<1> QED
  BY <1>1, Inductive, PTL

(* The helper signs with the fields its value was made for.                *)
THEOREM ValuesMatchFields == Spec => []SignsWhatItReturned
<1>1. IndInv => SignsWhatItReturned
  <2> SUFFICES ASSUME IndInv, jvm = "handling", request.op = "signDocument"
               PROVE  /\ Complete(session)
                      /\ request.sig = [over |-> SignedInfoOf(session),
                                        digest |-> session.digestAlgo]
    BY DEF SignsWhatItReturned
  <2>1. request = Second /\ Ready
    BY AtWork DEF First
  <2> QED
    BY <2>1 DEF Second, Signature, Ready
<1> QED
  BY <1>1, Inductive, PTL

(* What Sign writes is the container it was asked for.                     *)
THEOREM SignedIsAsAsked == Spec => []SignedAsAsked
<1>1. IndInv => SignedAsAsked
  <2>1. IndInv => IF outcome = "signed" THEN file = Container
                  ELSE file = None \/ (file = Partial /\ outcome = "failed")
    BY DEF IndInv, Progress
  <2> QED
    BY <2>1 DEF SignedAsAsked, Container, Signature
<1> QED
  BY <1>1, Inductive, PTL

(* No helper outlives its call or serves another.                          *)
THEOREM HelpersAreReaped == Spec => []HelperIsReaped
<1>1. IndInv => HelperIsReaped
  <2> SUFFICES ASSUME IndInv PROVE HelperIsReaped
    OBVIOUS
  <2>1. stage = "done" => ~Alive
    BY DEF IndInv, Progress
  <2>2. First.op \in {"getDataToSign", "validate"}
    BY DEF First
  <2>3. handled \in {<<>>, <<First.op>>, Prepared, Completed}
    BY DEF IndInv, HelperPhase, FirstExchange, SecondExchange, Exchange, Idle, Asked, Handling,
       Answering
  <2> QED
    BY <2>1, <2>2, <2>3 DEF HelperIsReaped, Prepared, Completed
<1> QED
  BY <1>1, Inductive, PTL
-----------------------------------------------------------------------------
(* The refinement: seen from outside, a conversation is a call in one      *)
(* piece.                                                                  *)

(* Nothing a call returns is there before its stage, and the token's value *)
(* comes with the data that it was made for.                               *)
Fresh ==
    /\ stage \in {"check", "start", "call", "read"} /\ sigValue = None => dtbs = None
    /\ stage \in {"check", "start", "call", "read", "token"} => xml = None
    /\ stage = "token" => sigValue = None
    /\ sigValue # None => dtbs = Wanted
    /\ stage = "output" => task.kind = "sign"

\* The client's steps that move it on without a result, and everyone else's.
Unseen == \/ Helper \/ Cancel \/ Kill \/ CloseStdin \/ Wait
          \/ Crash /\ UNCHANGED <<dataVars, callVars, stage, outcome>>

(* What the answer that ends an exchange holds: what its request asked.    *)
LEMMA AnswersFit ==
  ASSUME IndInv, ReadAnswer, stdout # <<>>, Head(stdout) # Stray, Head(stdout).ok
  PROVE  /\ task.kind = "sign" /\ sigValue = None => Head(stdout).dtbs = Wanted
         /\ task.kind = "sign" /\ sigValue # None => Head(stdout).xml = Container
<1>1. stage = "read" /\ Supported /\ stdout \in Seq(Answers \cup {Stray})
  BY DEF ReadAnswer, IndInv, Progress, TypeOK, HelperTypeOK
<1>2. Head(stdout) = stdout[1] /\ 1 \in 1 .. Len(stdout)
  BY <1>1
<1>3. ASSUME task.kind = "sign", sigValue = None PROVE Head(stdout).dtbs = Wanted
  <2>1. Lines(First, <<First.op>>) /\ First.op = "getDataToSign"
    BY <1>1, <1>3, CallTypes DEF IndInv, Progress
  <2> QED
    BY <1>2, <2>1 DEF Lines, Good
<1>4. ASSUME task.kind = "sign", sigValue # None PROVE Head(stdout).xml = Container
  <2>1. Lines(Second, Completed)
    BY <1>1, <1>4 DEF IndInv, Progress
  <2> QED
    BY <1>2, <2>1 DEF Lines, Good, Second
<1> QED
  BY <1>3, <1>4

(* A read line is the data of this document, its container, a verdict, or  *)
(* the end of the call.                                                    *)
LEMMA ReadCases ==
  ASSUME IndInv, Fresh, ReadAnswer
  PROVE  /\ outcome = "none" /\ UNCHANGED <<task, sigValue, file>>
         /\ \/ Call!Prepare /\ stage' = "token" /\ sigValue = None
            \/ Call!Complete /\ stage' = "output" /\ task.kind = "sign"
            \/ Call!Validate /\ stage' = "close"
            \/ Call!Fail /\ stage' = "close"
<1>1. /\ stage = "read" /\ Supported /\ outcome = "none" /\ UNCHANGED <<task, sigValue, file>>
      /\ sigValue \in {None, Signature} /\ task.kind \in {"sign", "validate"}
  BY CallTypes DEF ReadAnswer, callVars, IndInv, Progress
<1>2. CASE Refuse
  BY <1>1, <1>2 DEF Refuse, Return, Call!Fail
<1>3. ASSUME stdout # <<>>, Head(stdout) # Stray, Head(stdout).ok, Accept(Head(stdout))
      PROVE  \/ Call!Prepare /\ stage' = "token" /\ sigValue = None
             \/ Call!Complete /\ stage' = "output" /\ task.kind = "sign"
             \/ Call!Validate /\ stage' = "close"
  <2>1. CASE task.kind = "validate"
    BY <1>1, <1>3, <2>1 DEF Accept, Return, Call!Validate
  <2>2. CASE task.kind = "sign" /\ sigValue = None
    <3>1. dtbs' = Wanted /\ dtbs = None /\ stage' = "token" /\ UNCHANGED <<xml, outcome>>
      BY <1>1, <1>3, <2>2, AnswersFit DEF Accept, Return, Fresh
    <3> QED
      BY <1>1, <2>2, <3>1 DEF Call!Prepare, Wanted, Supported
  <2>3. CASE task.kind = "sign" /\ sigValue # None
    <3>1. xml' = Container /\ xml = None /\ stage' = "output" /\ UNCHANGED <<dtbs, outcome>>
      BY <1>1, <1>3, <2>3, AnswersFit DEF Accept, Return, Fresh
    <3>2. dtbs = Wanted /\ sigValue = Signature
      BY <1>1, <2>3 DEF Fresh
    <3> QED
      BY <1>1, <2>3, <3>1, <3>2 DEF Call!Complete, Container
  <2> QED
    BY <1>1, <2>1, <2>2, <2>3
<1> QED
  BY <1>1, <1>2, <1>3 DEF ReadAnswer

(* The token signs once, over the data returned.                           *)
LEMMA TokenCases ==
  ASSUME IndInv, Fresh, TokenSign
  PROVE  /\ dtbs = Wanted /\ UNCHANGED <<task, dtbs, xml>>
         /\ \/ Call!SignValue /\ stage' = "call" /\ sigValue' # None
            \/ Call!Fail /\ stage' = "close" /\ UNCHANGED sigValue
<1>1. /\ stage = "token" /\ Supported /\ outcome = "none" /\ dtbs = Wanted /\ sigValue = None
      /\ task.kind = "sign" /\ UNCHANGED <<task, dtbs, xml, file>>
  BY DEF TokenSign, callVars, IndInv, Progress, Fresh
<1>2. dtbs # None /\ Signature # None /\ Signature = [over |-> dtbs, digest |-> task.digest]
  BY <1>1, CallTypes DEF IndInv, Signature
<1> QED
  BY <1>1, <1>2 DEF TokenSign, Return, Call!SignValue, Call!Fail

(* Fresh holds along with the invariant.                                   *)
LEMMA FreshStep ==
  ASSUME IndInv, Fresh, [Next]_vars
  PROVE  Fresh'
<1>1. /\ UNCHANGED <<task, dtbs, sigValue, xml>>
      /\ \/ stage' = stage
         \/ stage' \in {"close", "wait", "done"}
         \/ stage \in {"check", "start", "call"} /\ stage' \in {"start", "call", "read"}
      => Fresh'
  BY DEF Fresh, Wanted
<1>2. CASE ReadAnswer
  <2>1. task' = task /\ sigValue' = sigValue /\ Wanted' = Wanted /\ stage = "read"
    BY <1>2, ReadCases DEF ReadAnswer, Wanted
  <2>2. \/ dtbs' = Wanted /\ xml' = xml /\ stage' = "token" /\ sigValue = None
        \/ dtbs' = dtbs /\ stage' = "output" /\ task.kind = "sign"
        \/ dtbs' = dtbs /\ xml' = xml /\ stage' = "close"
    BY <1>2, ReadCases DEF Wanted, Call!Prepare, Call!Complete, Call!Validate, Call!Fail
  <2> QED
    BY <2>1, <2>2 DEF Fresh
<1>3. CASE TokenSign
  <2>1. /\ dtbs' = Wanted /\ Wanted' = Wanted /\ stage = "token" /\ xml' = xml
        /\ stage' = "close" \/ (stage' = "call" /\ sigValue' # None)
    BY <1>3, TokenCases DEF TokenSign, Wanted
  <2> QED
    BY <2>1 DEF Fresh
<1>4. CASE CheckRequest \/ StartHelper \/ WriteRequest \/ WriteOutput
  <2>1. /\ UNCHANGED <<task, dtbs, sigValue, xml>>
        /\ \/ stage' \in {"close", "wait", "done"}
           \/ stage \in {"check", "start", "call"} /\ stage' \in {"start", "call", "read"}
    BY <1>4 DEF CheckRequest, StartHelper, WriteRequest, WriteOutput, Return, dataVars, callVars
  <2> QED
    BY <1>1, <2>1
<1>5. CASE Unseen \/ UNCHANGED vars
  <2>1. /\ UNCHANGED <<task, dtbs, sigValue, xml>>
        /\ \/ stage' = stage
           \/ stage' \in {"close", "wait", "done"}
    BY <1>5 DEF Unseen, Helper, Cancel, Kill, CloseStdin, Wait, vars, dataVars, callVars
  <2> QED
    BY <1>1, <2>1
<1> QED
  BY <1>2, <1>3, <1>4, <1>5 DEF Next, Client, Unseen

(* Every step is a step of the call in one piece, or none that it sees.    *)
LEMMA CallStep ==
  ASSUME IndInv, Fresh, [Next]_vars
  PROVE  [Call!Next]_(Call!vars)
<1>1. CASE ReadAnswer
  BY <1>1, ReadCases DEF Call!Next
<1>2. CASE TokenSign
  BY <1>2, TokenCases DEF Call!Next
<1>3. CASE WriteOutput
  <2>1. xml # None /\ outcome = "none" /\ UNCHANGED <<task, dtbs, sigValue, xml>>
    <3>1. stage = "output" /\ Supported /\ xml = Container /\ outcome = "none"
      BY <1>3 DEF WriteOutput, IndInv, Progress
    <3>2. task.kind = "sign"
      BY <3>1 DEF Fresh
    <3> QED
      BY <1>3, <3>1, <3>2, CallTypes DEF IndInv, WriteOutput, callVars
  <2> QED
    BY <1>3, <2>1 DEF WriteOutput, Return, Call!Next, Call!Write, Call!Fail
<1>4. CASE CheckRequest \/ StartHelper \/ WriteRequest
  <2>1. outcome = "none" /\ UNCHANGED <<task, dtbs, sigValue, xml, file>>
    BY <1>4 DEF CheckRequest, StartHelper, WriteRequest, IndInv, Progress, dataVars, callVars
  <2>2. outcome' \in {outcome, "failed"}
    BY <1>4 DEF CheckRequest, StartHelper, WriteRequest, Return
  <2> QED
    BY <2>1, <2>2 DEF Call!Next, Call!Fail, Call!vars
<1>5. CASE Unseen \/ UNCHANGED vars
  BY <1>5 DEF Unseen, Helper, Cancel, Kill, CloseStdin, Wait, vars, dataVars, callVars, Call!vars
<1> QED
  BY <1>1, <1>2, <1>3, <1>4, <1>5 DEF Next, Client, Unseen

(* A conversation over two processes and their pipes, with stray lines, a  *)
(* crash or a kill at any point, does what a call in one piece does.       *)
THEOREM ConversationIsACall == Spec => ImplementsCall
<1>1. Init => Call!Init /\ Fresh
  BY DEF Init, Call!Init, Fresh
<1>2. IndInv /\ Fresh /\ [Next]_vars => Fresh' /\ [Call!Next]_(Call!vars)
  BY FreshStep, CallStep
<1> QED
  BY <1>1, <1>2, Inductive, PTL DEF Spec, ImplementsCall, Call!Spec
=============================================================================
