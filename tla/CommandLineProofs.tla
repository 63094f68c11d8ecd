-------------------------- MODULE CommandLineProofs --------------------------
(***************************************************************************)
(* The properties of the command line, for any processes, command lines    *)
(* and files.  The invariant says what a process at each stage has done,   *)
(* that every signed file has a maker whom the token signed for,           *)
(* and what became of the output of a process that has written one.        *)
(***************************************************************************)
EXTENDS CommandLine, FiniteSetTheorems, TLAPS

Early == {"start", "login", "sign", "truncate"}

(* What the stage of a process says of it.                                 *)
Progress(c) ==
    /\ stage[c] \in {"start", "login"} => logins[c] = 0
    /\ stage[c] \in {"login", "sign", "truncate", "fill", "report"} => Signing(c)
    /\ stage[c] \in {"sign", "truncate", "fill", "report"} =>
          logins[c] = 1 /\ opts[c].pin = Pin
    /\ stage[c] \in {"truncate", "fill", "report"} => c \in signed
    /\ stage[c] \in {"resolve", "judge"} =>
          /\ ~Signing(c)
          /\ IsSigned(input[c]) /\ Form(input[c].maker) # "raw"
    /\ logins[c] <= 1
    /\ ~Signing(c) => logins[c] = 0
    /\ exit[c] # Running => stage[c] = "exited"

(* A signed file was made by a process that logged in, had the token's     *)
(* signature, and has moved on.                                            *)
Made(content) ==
    IsSigned(content) =>
        /\ content.maker \in Commands /\ Signing(content.maker)
        /\ logins[content.maker] = 1 /\ opts[content.maker].pin = Pin
        /\ content.maker \in signed
        /\ stage[content.maker] \notin Early

Authentic == /\ \A p \in Paths : Made(fs[p])
             /\ \A c \in Commands : Made(input[c])

(* Another process writes the same output.                                 *)
Shared(c) == \E d \in Commands \ {c} : /\ Signing(d) /\ logins[d] = 1
                                       /\ OutPath(opts[d]) = OutPath(opts[c])

(* An output that is truncated stays so until it is written, and one that  *)
(* is written stays so, but for other processes and the user.              *)
OnDisk(c) ==
    /\ stage[c] = "fill" => fs[OutPath(opts[c])] = Torn \/ Shared(c)
    /\ stage[c] = "report" \/ (exit[c] = 0 /\ Signing(c)) =>
          \/ fs[OutPath(opts[c])] = Whole(c)
          \/ touched[OutPath(opts[c])] = "user"
          \/ Shared(c)
    /\ exit[c] = 0 /\ Signing(c) => (Form(c) = "raw" => matches[c])

IndInv == /\ TypeOK
          /\ \A c \in Commands : Progress(c) /\ OnDisk(c)
          /\ Authentic
          /\ PinIsTriedOnce
          /\ FailureLeavesFiles
          /\ VerdictIsEarned

(* Everything but the types, where it is proved in one go.                 *)
Rest == /\ \A c \in Commands : OnDisk(c)
        /\ Authentic /\ FailureLeavesFiles /\ VerdictIsEarned

-----------------------------------------------------------------------------
(* A command line has an output path, and a profile.                       *)
LEMMA OptionTypes ==
  ASSUME opts \in CommandLines, NEW c \in Commands
  PROVE  /\ opts[c] \in Options
         /\ opts[c].file \in Paths
         /\ opts[c].original \in Paths \cup {None}
         /\ OutPath(opts[c]) \in Paths
         /\ opts[c].cmd \in {"sign", "sign-raw", "verify"}
         /\ Form(c) = "raw" <=> opts[c].cmd = "sign-raw"
<1>1. opts[c] \in Options
  BY CommandAssumption DEF CommandLines
<1>2. /\ opts[c].file \in Paths /\ opts[c].out \in Paths \cup {None}
      /\ opts[c].original \in Paths \cup {None}
      /\ opts[c].cmd \in {"sign", "sign-raw", "verify"}
      /\ opts[c].profile \in {"auto", "pades", "xades"}
  BY <1>1 DEF Options
<1>3. OutPath(opts[c]) \in Paths
  BY PathAssumption DEF CommandLines
<1>4. Form(c) = "raw" <=> opts[c].cmd = "sign-raw"
  BY <1>2 DEF Form, Profile
<1> QED
  BY <1>1, <1>2, <1>3, <1>4

(* No exit code says that a process is running.                            *)
LEMMA RunningIsNoCode == Running \notin {0, 1, 2, 3, 130}
  BY DEF Running

(* What is not a document, not torn and not absent is signed.              *)
LEMMA SignedType ==
  ASSUME NEW content \in Contents
  PROVE  IsSigned(content) <=> content \in Signed
  BY CommandAssumption DEF Contents, IsSigned

(* What a process writes is a signed file of its own.                      *)
LEMMA WholeType ==
  ASSUME NEW c \in Commands
  PROVE  /\ Whole(c) \in Signed /\ Whole(c).maker = c
         /\ Whole(c) \in Contents /\ Whole(c) # Torn
<1>1. (IF Form(c) # "raw" /\ opts[c].level = "t" THEN "own" ELSE "none") \in {"own", "none"}
  OBVIOUS
<1>2. Whole(c) \in Signed /\ Whole(c).maker = c
  BY <1>1 DEF Whole, Signed
<1> QED
  BY <1>2, CommandAssumption DEF Contents

(* One more process that was given a wrong PIN is one more.                *)
WrongPins == {c \in Commands : logins[c] > 0 /\ opts[c].pin # Pin}

LEMMA OneMoreWrongPin ==
  ASSUME NEW c \in Commands, c \notin WrongPins, WrongPins' = WrongPins \cup {c}
  PROVE  Cardinality(WrongPins') = Cardinality(WrongPins) + 1
<1>1. IsFiniteSet(WrongPins)
  BY CommandAssumption, FS_Subset DEF WrongPins
<1> QED
  BY <1>1, FS_AddElement

(* Nobody has done anything yet.                                           *)
LEMMA InitHolds == Init => IndInv
<1> SUFFICES ASSUME Init PROVE IndInv
  OBVIOUS
<1>1. TypeOK
  <2>1. \A n \in Names : Documents[n] \in Docs
    BY CommandAssumption
  <2>2. \A p \in Paths : p.name \in Names
    BY CommandAssumption DEF AllPaths
  <2>3. fs \in [Paths -> Contents]
    BY <2>1, <2>2 DEF Init, Contents
  <2>4. tries \in 0 .. MaxTries
    <3>1. MaxTries \in Nat /\ tries = MaxTries
      BY CommandAssumption DEF Init
    <3> QED
      BY <3>1
  <2>5. /\ input \in [Commands -> Contents] /\ original \in [Commands -> Contents]
        /\ touched \in [Paths -> Commands \cup {None, "user"}]
    BY DEF Init, Contents
  <2>6. /\ expired \in BOOLEAN /\ stamped \in [Commands -> BOOLEAN]
        /\ matches \in [Commands -> BOOLEAN] /\ signed \subseteq Commands
        /\ result \in [Commands -> Results]
    BY DEF Init, Results, NoResult
  <2>7. /\ opts \in CommandLines /\ logins \in [Commands -> Nat]
        /\ exit \in [Commands -> {Running, 0, 1, 2, 3, 130}]
        /\ stage \in [Commands -> {"start", "login", "sign", "truncate", "fill", "report",
                                    "resolve", "judge", "exited"}]
    BY DEF Init
  <2> QED
    BY <2>3, <2>4, <2>5, <2>6, <2>7 DEF TypeOK
<1>2. \A c \in Commands : stage[c] = "start" /\ logins[c] = 0 /\ exit[c] = Running /\ Running # 0
  BY RunningIsNoCode DEF Init
<1>3. ASSUME NEW c \in Commands PROVE Progress(c) /\ OnDisk(c)
  BY <1>2 DEF Progress, OnDisk
<1>4. Authentic
  <2>1. \A n \in Names : Documents[n] \in Docs
    BY CommandAssumption
  <2>2. \A p \in Paths : p.name \in Names
    BY CommandAssumption DEF AllPaths
  <2> QED
    BY <2>1, <2>2 DEF Init, Authentic, Made, IsSigned
<1>5. PinIsTriedOnce
  <2>1. {c \in Commands : logins[c] > 0 /\ opts[c].pin # Pin} = {}
    BY <1>2
  <2>2. MaxTries - tries <= 0
    <3>1. tries = MaxTries /\ MaxTries \in Nat
      BY CommandAssumption DEF Init
    <3> QED
      BY <3>1
  <2> QED
    BY <1>2, <2>1, <2>2, FS_EmptySet DEF PinIsTriedOnce
<1>6. FailureLeavesFiles
  BY CommandAssumption DEF Init, FailureLeavesFiles
<1>7. VerdictIsEarned
  BY <1>2 DEF VerdictIsEarned
<1> QED
  BY <1>1, <1>3, <1>4, <1>5, <1>6, <1>7 DEF IndInv

-----------------------------------------------------------------------------
(* What is said of makers and of shared outputs outlasts a step that takes *)
(* no process back.                                                        *)
LEMMA Frame ==
  ASSUME IndInv, opts' = opts,
         \A m \in Commands : logins[m] = 1 => logins'[m] = 1,
         signed \subseteq signed',
         \A m \in Commands : stage[m] \notin Early => stage'[m] \notin Early
  PROVE  /\ \A content : Made(content) => Made(content)'
         /\ \A c \in Commands : Shared(c) => Shared(c)'
  BY DEF Made, Shared, Signing, IsSigned

(* A verdict that was earned stays so while its process and the maker of   *)
(* what it read keep what they know.                                       *)
LEMMA VerdictStays ==
  ASSUME IndInv, opts' = opts,
         \A m \in Commands : logins[m] = 1 => logins'[m] = 1,
         signed \subseteq signed',
         \A m \in Commands : stage[m] \notin Early =>
             input'[m] = input[m] \/ ~Signing(m),
         \A m \in Commands : stage[m] \notin Early => stamped'[m] = stamped[m],
         NEW v \in Commands, exit[v] = 0, opts[v].cmd = "verify",
         input'[v] = input[v], original'[v] = original[v], result'[v] = result[v]
  PROVE  Earned(v)'
<1> DEFINE c == input[v].maker
<1>1. Earned(v)
  BY DEF IndInv, VerdictIsEarned
<1>2. c \in Commands /\ Signing(c) /\ stage[c] \notin Early
  BY <1>1 DEF IndInv, Authentic, Made, Earned
<1>3. /\ input'[c] = input[c] /\ stamped'[c] = stamped[c]
      /\ logins[c] = 1 => logins'[c] = 1
  BY <1>2
<1> QED
  BY <1>1, <1>3 DEF Earned, IsSigned, Detached, Form, Profile

(* A step of one process that writes no file and gives no verdict keeps    *)
(* what is said of files and verdicts.                                     *)
LEMMA QuietStep ==
  ASSUME IndInv, NEW c \in Commands, UNCHANGED <<fs, touched, opts>>,
         stage[c] # "exited",
         \A m \in Commands \ {c} : /\ stage'[m] = stage[m] /\ exit'[m] = exit[m]
                                   /\ logins'[m] = logins[m] /\ input'[m] = input[m]
                                   /\ original'[m] = original[m] /\ stamped'[m] = stamped[m]
                                   /\ matches'[m] = matches[m] /\ result'[m] = result[m],
         signed \subseteq signed',
         logins[c] = 1 => logins'[c] = 1,
         stage[c] \notin Early => stage'[c] \notin Early,
         stage[c] \notin Early => stamped'[c] = stamped[c],
         stage[c] \notin Early => input'[c] = input[c] \/ ~Signing(c),
         Made(input'[c]),
         stage'[c] = "fill" => stage[c] = "fill",
         stage'[c] = "report" => stage[c] = "report",
         exit'[c] # 0
  PROVE  Rest'
<1>1. /\ \A content : Made(content) => Made(content)'
      /\ \A d \in Commands : Shared(d) => Shared(d)'
  BY Frame DEF IndInv
<1>2. ASSUME NEW d \in Commands PROVE OnDisk(d)'
  BY <1>1 DEF IndInv, OnDisk, Whole, Signing, Form, Profile
<1>3. Authentic'
  BY <1>1 DEF IndInv, Authentic
<1>4. FailureLeavesFiles'
  BY DEF IndInv, FailureLeavesFiles, Signing
<1>5. VerdictIsEarned'
  <2> SUFFICES ASSUME NEW v \in Commands, exit'[v] = 0, opts[v].cmd = "verify"
               PROVE  Earned(v)'
    BY DEF VerdictIsEarned
  <2> QED
    BY VerdictStays
<1> QED
  BY <1>2, <1>3, <1>4, <1>5 DEF Rest

(* Reading the input.                                                      *)
LEMMA ReadInputStep ==
  ASSUME IndInv, NEW c \in Commands, ReadInput(c)
  PROVE  IndInv'
<1> USE DEF ReadInput, Continue, Leave, fileVars, tokenVars, signVars
<1>1. opts[c].file \in Paths /\ fs[opts[c].file] \in Contents /\ Made(fs[opts[c].file])
  BY OptionTypes DEF IndInv, TypeOK, Authentic
<1>2. TypeOK'
  BY <1>1 DEF IndInv, TypeOK
<1>3. ASSUME NEW d \in Commands PROVE Progress(d)'
  BY DEF IndInv, TypeOK, Progress, Signing, IsSigned, Form, Profile
<1>4. Rest'
  <2>1. Made(input'[c])
    BY <1>1 DEF IndInv, TypeOK
  <2> QED
    BY <2>1, QuietStep, RunningIsNoCode DEF IndInv, TypeOK, Progress, Early
<1>5. PinIsTriedOnce'
  BY DEF IndInv, PinIsTriedOnce, Signing
<1> QED
  BY <1>2, <1>3, <1>4, <1>5 DEF IndInv, Rest

(* The one login: it counts, and costs a try at most if the PIN is wrong.  *)
LEMMA LoginStep ==
  ASSUME IndInv, NEW c \in Commands, Login(c)
  PROVE  IndInv'
<1> USE DEF Login, Continue, Leave, fileVars, readVars, signVars, tokenVars
<1>1. /\ Signing(c) /\ logins[c] = 0 /\ stage[c] = "login" /\ exit[c] = Running
      /\ tries \in 0 .. MaxTries /\ MaxTries \in Nat
  BY CommandAssumption DEF IndInv, TypeOK, Progress
<1>2. tries' \in 0 .. MaxTries /\ logins' \in [Commands -> Nat]
  BY <1>1 DEF IndInv, TypeOK, AfterWrongPin
<1>3. TypeOK'
  BY <1>2 DEF IndInv, TypeOK
<1>4. ASSUME NEW d \in Commands PROVE Progress(d)'
  BY <1>1 DEF IndInv, TypeOK, Progress, Signing, IsSigned, Form, Profile
<1>5. Rest'
  BY <1>1, QuietStep, RunningIsNoCode DEF IndInv, TypeOK, Early, Authentic
<1>6. PinIsTriedOnce'
  <2>1. \A d \in Commands : logins'[d] <= IF Signing(d) THEN 1 ELSE 0
    BY <1>1 DEF IndInv, TypeOK, PinIsTriedOnce
  <2>2. MaxTries - tries <= Cardinality(WrongPins) /\ Cardinality(WrongPins) \in Nat
    BY CommandAssumption, FS_Subset, FS_CardinalityType
       DEF IndInv, PinIsTriedOnce, WrongPins
  <2>3. CASE logins' = logins
    <3>1. tries' = tries \/ tries' = MaxTries
      BY <1>1, <2>3 DEF IndInv, TypeOK
    <3> QED
      BY <1>1, <2>1, <2>2, <2>3, <3>1 DEF PinIsTriedOnce, WrongPins, Signing
  <2>4. CASE opts[c].pin = Pin /\ logins' = [logins EXCEPT ![c] = @ + 1]
    <3>1. WrongPins' = WrongPins
      BY <2>4 DEF IndInv, TypeOK, WrongPins
    <3>2. MaxTries - tries' <= Cardinality(WrongPins)
      BY <1>1, <2>2, <2>4
    <3> QED
      BY <2>1, <3>1, <3>2 DEF PinIsTriedOnce, WrongPins, Signing
  <2>5. CASE opts[c].pin # Pin /\ logins' = [logins EXCEPT ![c] = @ + 1]
    <3>1. WrongPins' = WrongPins \cup {c} /\ c \notin WrongPins
      BY <1>1, <2>5 DEF IndInv, TypeOK, WrongPins
    <3>2. Cardinality(WrongPins') = Cardinality(WrongPins) + 1
      BY <3>1, OneMoreWrongPin
    <3>3. tries' >= tries - 1
      BY <1>1, <2>5 DEF AfterWrongPin
    <3>4. MaxTries - tries' <= Cardinality(WrongPins')
      BY <1>1, <1>2, <2>2, <3>2, <3>3
    <3> QED
      BY <2>1, <3>4 DEF PinIsTriedOnce, WrongPins, Signing
  <2> QED
    BY <2>3, <2>4, <2>5
<1> QED
  BY <1>3, <1>4, <1>5, <1>6 DEF IndInv, Rest

(* A step that is quiet and takes no login keeps the count of logins.      *)
LEMMA PinStays ==
  ASSUME IndInv, UNCHANGED <<tries, logins, opts>>
  PROVE  PinIsTriedOnce'
  BY DEF IndInv, PinIsTriedOnce, Signing

(* Signing, with its result and its time noted.                            *)
LEMMA SignStep ==
  ASSUME IndInv, NEW c \in Commands, Sign(c)
  PROVE  IndInv'
<1> USE DEF Sign, Continue, Leave, fileVars, tokenVars, readVars, signVars
<1>1. TypeOK'
  <2>1. stamped' \in [Commands -> BOOLEAN] /\ matches' \in [Commands -> BOOLEAN]
    <3>1. (opts[c].level = "t" /\ ~expired) \in BOOLEAN
      OBVIOUS
    <3>2. \A ok \in BOOLEAN : (Form(c) = "raw" /\ ok) \in BOOLEAN
      OBVIOUS
    <3>3. /\ stamped \in [Commands -> BOOLEAN] /\ matches \in [Commands -> BOOLEAN]
          /\ \/ UNCHANGED <<stamped, matches>>
             \/ /\ \E b \in BOOLEAN : stamped' = [stamped EXCEPT ![c] = b]
                /\ \E b \in BOOLEAN : matches' = [matches EXCEPT ![c] = b]
      BY <3>1, <3>2, Zenon DEF IndInv, TypeOK
    <3> QED
      BY <3>3
  <2>2. /\ stage' \in [Commands -> {"start", "login", "sign", "truncate", "fill", "report",
                                     "resolve", "judge", "exited"}]
        /\ exit' \in [Commands -> {Running, 0, 1, 2, 3, 130}]
    BY DEF IndInv, TypeOK
  <2>3. UNCHANGED <<fs, touched, expired, tries, logins, input, original, opts, result>>
    OBVIOUS
  <2> QED
    BY <2>1, <2>2, <2>3 DEF IndInv, TypeOK
<1>2. ASSUME NEW d \in Commands PROVE Progress(d)'
  BY RunningIsNoCode DEF IndInv, TypeOK, Progress, Signing, IsSigned, Form, Profile
<1>3. Rest'
  BY QuietStep, RunningIsNoCode DEF IndInv, TypeOK, Progress, Early, Authentic
<1> QED
  BY <1>1, <1>2, <1>3, PinStays DEF IndInv, Rest

(* A process that writes its output is known by its login, and is one that *)
(* the others with the same output share it with.                          *)
LEMMA WriteStep ==
  ASSUME IndInv, NEW c \in Commands, stage[c] \in {"truncate", "fill"},
         NEW content \in {Torn, Whole(c)}, Write(c, content),
         NEW next \in {"fill", "report"}, Continue(c, next), content # Torn => next = "report",
         UNCHANGED <<expired, tokenVars, readVars, signVars, opts, result>>
  PROVE  /\ TypeOK'
         /\ \A d \in Commands : Progress(d)'
         /\ \A d \in Commands \ {c} : OnDisk(d)'
         /\ Authentic' /\ FailureLeavesFiles' /\ VerdictIsEarned' /\ PinIsTriedOnce'
<1> USE DEF Write, Continue, tokenVars, readVars, signVars
<1>1. /\ OutPath(opts[c]) \in Paths /\ Signing(c) /\ logins[c] = 1 /\ opts[c].pin = Pin
      /\ exit[c] = Running
  BY OptionTypes, RunningIsNoCode DEF IndInv, TypeOK, Progress
<1>2. content \in Contents /\ (content # Torn => content.maker = c)
  BY WholeType DEF Contents
<1>3. TypeOK'
  BY <1>1, <1>2 DEF IndInv, TypeOK
<1>4. ASSUME NEW d \in Commands PROVE Progress(d)'
  BY <1>1 DEF IndInv, TypeOK, Progress, Signing, IsSigned, Form, Profile
<1>5. /\ \A any : Made(any) => Made(any)'
      /\ \A d \in Commands : Shared(d) => Shared(d)'
  BY Frame DEF IndInv, TypeOK, Early
<1>6. ASSUME NEW d \in Commands \ {c} PROVE OnDisk(d)'
  <2>1. CASE OutPath(opts[d]) = OutPath(opts[c])
    <3>1. Shared(d)'
      BY <1>1, <2>1 DEF Shared, Signing
    <3> QED
      BY <3>1 DEF IndInv, TypeOK, OnDisk, Whole, Signing, Form, Profile
  <2>2. CASE OutPath(opts[d]) # OutPath(opts[c])
    <3>1. /\ OutPath(opts[d]) \in Paths
          /\ fs'[OutPath(opts[d])] = fs[OutPath(opts[d])]
          /\ touched'[OutPath(opts[d])] = touched[OutPath(opts[d])]
      BY <2>2, OptionTypes DEF IndInv, TypeOK
    <3> QED
      BY <1>5, <3>1 DEF IndInv, TypeOK, OnDisk, Whole, Signing, Form, Profile
  <2> QED
    BY <2>1, <2>2
<1>7. Authentic'
  <2>1. Made(content)'
    <3>1. CASE content = Torn
      BY <3>1 DEF Made, IsSigned
    <3>2. CASE content # Torn
      BY <1>1, <1>2, <3>2 DEF IndInv, TypeOK, Progress, Made, Signing, Early
    <3> QED
      BY <3>1, <3>2
  <2>2. ASSUME NEW p \in Paths PROVE Made(fs[p])'
    BY <1>1, <1>5, <2>1 DEF IndInv, TypeOK, Authentic
  <2>3. ASSUME NEW d \in Commands PROVE Made(input[d])'
    BY <1>5 DEF IndInv, Authentic
  <2> QED
    BY <2>2, <2>3 DEF Authentic
<1>8. FailureLeavesFiles'
  BY <1>1 DEF IndInv, TypeOK, Progress, FailureLeavesFiles, Signing
<1>9. VerdictIsEarned'
  BY DEF IndInv, VerdictIsEarned, Earned, IsSigned, Detached, Form, Profile
<1>10. PinIsTriedOnce'
  BY PinStays
<1> QED
  BY <1>3, <1>4, <1>6, <1>7, <1>8, <1>9, <1>10

(* Giving up where the output is written, or reported, or with no more     *)
(* than an error.                                                          *)
LEMMA GiveUpStep ==
  ASSUME IndInv, NEW c \in Commands, stage[c] # "exited",
         NEW code \in {1, 2, 130}, Leave(c, code),
         result' \in [Commands -> Results],
         \A m \in Commands \ {c} : result'[m] = result[m],
         UNCHANGED <<fs, touched, expired, tokenVars, readVars, signVars, opts>>
  PROVE  IndInv'
<1> USE DEF Leave, tokenVars, readVars, signVars
<1>1. TypeOK'
  BY DEF IndInv, TypeOK
<1>2. ASSUME NEW d \in Commands PROVE Progress(d)'
  BY DEF IndInv, TypeOK, Progress, Signing, IsSigned, Form, Profile
<1>3. Rest'
  BY QuietStep DEF IndInv, TypeOK, Early, Authentic
<1> QED
  BY <1>1, <1>2, <1>3, PinStays DEF IndInv, Rest

(* The output is truncated, ...                                            *)
LEMMA TruncateStep ==
  ASSUME IndInv, NEW c \in Commands, Truncate(c)
  PROVE  IndInv'
<1>1. CASE Write(c, Torn) /\ Continue(c, "fill")
  <2>1. OnDisk(c)'
    <3>1. fs'[OutPath(opts[c])] = Torn /\ stage'[c] = "fill" /\ exit'[c] = Running /\ opts' = opts
      BY <1>1, OptionTypes, RunningIsNoCode
         DEF IndInv, TypeOK, Progress, Truncate, Write, Continue
    <3> QED
      BY <3>1, RunningIsNoCode DEF OnDisk
  <2> QED
    BY <1>1, <2>1, WriteStep DEF Truncate, IndInv
<1>2. CASE Leave(c, 1) /\ UNCHANGED fileVars
  BY <1>2, GiveUpStep DEF Truncate, fileVars, IndInv, TypeOK
<1> QED
  BY <1>1, <1>2 DEF Truncate

(* ... and written whole, unless another process has been there since.     *)
LEMMA FillStep ==
  ASSUME IndInv, NEW c \in Commands, Fill(c)
  PROVE  IndInv'
<1>1. ASSUME NEW content \in {Torn, Whole(c)},
             content = Torn => fs[OutPath(opts[c])] # Torn,
             Write(c, content), Continue(c, "report")
      PROVE  IndInv'
  <2>1. OnDisk(c)'
    <3>1. /\ fs'[OutPath(opts[c])] = content /\ stage'[c] = "report"
          /\ exit'[c] = Running /\ opts' = opts /\ stage[c] = "fill"
      BY <1>1, OptionTypes, RunningIsNoCode
         DEF IndInv, TypeOK, Progress, Fill, Write, Continue
    <3>2. content = Torn => Shared(c)
      BY <1>1, <3>1 DEF IndInv, OnDisk
    <3>3. Shared(c) => Shared(c)'
      BY <3>1 DEF Fill, tokenVars, Shared, Signing
    <3> QED
      BY <3>1, <3>2, <3>3, RunningIsNoCode DEF OnDisk, Whole, Form, Profile
  <2> QED
    BY <1>1, <2>1, WriteStep DEF Fill, IndInv
<1>2. CASE Leave(c, 1) /\ UNCHANGED fileVars
  BY <1>2, GiveUpStep DEF Fill, fileVars, IndInv, TypeOK
<1>3. CASE Write(c, Whole(c)) /\ Continue(c, "report")
  BY <1>1, <1>3, WholeType
<1>4. CASE fs[OutPath(opts[c])] # Torn /\ Write(c, Torn) /\ Continue(c, "report")
  BY <1>1, <1>4
<1> QED
  BY <1>2, <1>3, <1>4 DEF Fill

(* Exit code 0 after a signature that verified, if it is a raw one.        *)
LEMMA ReportStep ==
  ASSUME IndInv, NEW c \in Commands, Report(c)
  PROVE  IndInv'
<1>1. CASE Leave(c, 1)
  BY <1>1, GiveUpStep DEF Report, fileVars, IndInv, TypeOK
<1>2. CASE (Form(c) = "raw" => matches[c]) /\ Leave(c, 0)
  <2> USE <1>2 DEF Report, Leave, fileVars, tokenVars, readVars, signVars
  <2>1. TypeOK' /\ Signing(c)
    BY DEF IndInv, TypeOK, Progress
  <2>2. ASSUME NEW d \in Commands PROVE Progress(d)'
    BY DEF IndInv, TypeOK, Progress, Signing, IsSigned, Form, Profile
  <2>3. /\ \A any : Made(any) => Made(any)'
        /\ \A d \in Commands : Shared(d) => Shared(d)'
    BY Frame DEF IndInv, TypeOK, Early
  <2>4. ASSUME NEW d \in Commands PROVE OnDisk(d)'
    BY <2>3 DEF IndInv, TypeOK, OnDisk, Whole, Signing, Form, Profile
  <2>5. Authentic' /\ FailureLeavesFiles'
    BY <2>3 DEF IndInv, Authentic, FailureLeavesFiles, Signing
  <2>6. \A v \in Commands : exit'[v] = 0 /\ opts[v].cmd = "verify" => exit[v] = 0
    BY <2>1 DEF IndInv, TypeOK, Signing
  <2>7. VerdictIsEarned'
    BY <2>6 DEF IndInv, VerdictIsEarned, Earned, IsSigned, Detached, Form, Profile
  <2> QED
    BY <2>1, <2>2, <2>4, <2>5, <2>7, PinStays DEF IndInv
<1> QED
  BY <1>1, <1>2 DEF Report

-----------------------------------------------------------------------------
(* What verify opens has a maker, if it is signed.                         *)
LEMMA OpenSignedStep ==
  ASSUME IndInv, NEW v \in Commands, OpenSigned(v)
  PROVE  IndInv'
<1> USE DEF OpenSigned, Continue, Leave, others, fileVars, tokenVars, signVars
<1>1. opts[v].file \in Paths /\ fs[opts[v].file] \in Contents /\ Made(fs[opts[v].file])
  BY OptionTypes DEF IndInv, TypeOK, Authentic
<1>2. TypeOK'
  BY <1>1 DEF IndInv, TypeOK
<1>3. ASSUME NEW d \in Commands PROVE Progress(d)'
  <2>1. CASE d = v
    <3>1. /\ ~Signing(v) /\ logins[v] = 0 /\ exit[v] = Running
          /\ stage'[v] \in {"judge", "resolve", "exited"}
          /\ exit'[v] # Running => stage'[v] = "exited"
          /\ logins' = logins /\ opts' = opts
      BY RunningIsNoCode DEF IndInv, TypeOK, Progress, Signing
    <3>2. stage'[v] \in {"judge", "resolve"} =>
              IsSigned(input'[v]) /\ Form(input'[v].maker) # "raw"
      BY DEF IndInv, TypeOK, Readable
    <3> QED
      BY <2>1, <3>1, <3>2 DEF Progress, Signing, IsSigned, Form, Profile
  <2>2. CASE d # v
    <3>1. /\ stage'[d] = stage[d] /\ exit'[d] = exit[d] /\ input'[d] = input[d]
          /\ logins' = logins /\ opts' = opts
      BY <2>2 DEF IndInv, TypeOK
    <3> QED
      BY <3>1 DEF IndInv, Progress, Signing, IsSigned, Form, Profile
  <2> QED
    BY <2>1, <2>2
<1>4. Rest'
  <2>1. Made(input'[v])
    BY <1>1 DEF IndInv, TypeOK
  <2> QED
    BY <2>1, QuietStep, RunningIsNoCode DEF IndInv, TypeOK, Progress, Early
<1> QED
  BY <1>2, <1>3, <1>4, PinStays DEF IndInv, Rest

(* The original is read, or the run ends in an error.                      *)
LEMMA ResolveStep ==
  ASSUME IndInv, NEW v \in Commands, Resolve(v)
  PROVE  IndInv'
<1> USE DEF Resolve, Continue, Leave, others, fileVars, tokenVars, signVars
<1>1. Found(v) \in Contents
  BY DEF Found, IndInv, TypeOK, Contents
<1>2. TypeOK'
  BY <1>1 DEF IndInv, TypeOK
<1>3. ASSUME NEW d \in Commands PROVE Progress(d)'
  BY DEF IndInv, TypeOK, Progress, Signing, IsSigned, Form, Profile
<1>4. Rest'
  BY QuietStep, RunningIsNoCode DEF IndInv, TypeOK, Progress, Early, Authentic
<1> QED
  BY <1>2, <1>3, <1>4, PinStays DEF IndInv, Rest

(* A verdict VALID is given only of a signature that holds, of a maker who *)
(* logged in, and in the certificate's time.                               *)
LEMMA JudgeStep ==
  ASSUME IndInv, NEW v \in Commands, Judge(v)
  PROVE  IndInv'
<1> USE DEF Judge, others, fileVars, tokenVars, readVars, signVars
<1>1. PICK r \in Findings(v), code \in {0, 1, 2, 3} :
          /\ result' = [result EXCEPT ![v] = r]
          /\ Leave(v, code)
          /\ code = 0 => r.valid /\ ~r.revoked /\ r.trusted
  <2>1. PICK r \in Findings(v) :
            /\ result' = [result EXCEPT ![v] = r]
            /\ \E code \in {1} \cup (IF Form(input[v].maker) = "pades" THEN PadesVerdict(r)
                                                                 ELSE XadesVerdict(r)) :
                  Leave(v, code)
    OBVIOUS
  <2>2. /\ PadesVerdict(r) \subseteq {0, 1, 3}
        /\ 0 \in PadesVerdict(r) => r.valid /\ ~r.revoked /\ r.trusted
    BY DEF PadesVerdict
  <2>3. /\ XadesVerdict(r) \subseteq {0, 1, 2, 3}
        /\ 0 \in XadesVerdict(r) => r.valid /\ ~r.revoked /\ r.trusted
    <3>1. CASE r.valid /\ ~r.revoked /\ r.trusted
      BY <3>1 DEF XadesVerdict
    <3>2. CASE ~(r.valid /\ ~r.revoked /\ r.trusted)
      <4>1. {code \in {0} : r.valid /\ ~r.revoked /\ r.trusted} = {}
        BY <3>2, Zenon
      <4> QED
        BY <4>1 DEF XadesVerdict
    <3> QED
      BY <3>1, <3>2
  <2> DEFINE codes == {1} \cup (IF Form(input[v].maker) = "pades" THEN PadesVerdict(r)
                                                             ELSE XadesVerdict(r))
  <2>4. codes \subseteq {0, 1, 2, 3} /\ (0 \in codes => r.valid /\ ~r.revoked /\ r.trusted)
    BY <2>2, <2>3
  <2>5. PICK code \in codes : Leave(v, code)
    BY <2>1
  <2>6. code \in {0, 1, 2, 3} /\ (code = 0 => r.valid /\ ~r.revoked /\ r.trusted)
    BY <2>4
  <2> HIDE DEF codes
  <2> QED
    BY <2>1, <2>5, <2>6
<1>2. CASE code \in {1, 2}
  <2>1. result' \in [Commands -> Results] /\ \A m \in Commands \ {v} : result'[m] = result[m]
    BY <1>1 DEF Findings, IndInv, TypeOK
  <2> QED
    BY <1>1, <1>2, <2>1, GiveUpStep
<1>3. CASE code \in {0, 3}
  <2> USE <1>1, <1>3 DEF Leave
  <2>1. TypeOK' /\ ~Signing(v)
    BY DEF Findings, IndInv, TypeOK, Progress
  <2>2. ASSUME NEW d \in Commands PROVE Progress(d)'
    BY DEF IndInv, TypeOK, Progress, Signing, IsSigned, Form, Profile
  <2>3. /\ \A any : Made(any) => Made(any)'
        /\ \A d \in Commands : Shared(d) => Shared(d)'
    BY Frame DEF IndInv, TypeOK, Early
  <2>4. ASSUME NEW d \in Commands PROVE OnDisk(d)'
    BY <2>1, <2>3 DEF IndInv, TypeOK, OnDisk, Whole, Signing, Form, Profile
  <2>5. Authentic' /\ FailureLeavesFiles'
    BY <2>3 DEF IndInv, Authentic, FailureLeavesFiles, Signing
  <2>6. VerdictIsEarned'
    <3>1. IsSigned(input[v]) /\ Form(input[v].maker) # "raw" /\ Made(input[v])
      BY DEF IndInv, Progress, Authentic
    <3>2. opts[input[v].maker].cmd = "sign"
      BY <3>1, OptionTypes DEF Made, Signing, IndInv, TypeOK
    <3>3. r \in Results /\ r.valid = SignatureHolds(v)
          /\ (r.trusted => InTime(v)) /\ r.late = expired
      BY DEF Findings
    <3>4. result'[v] = r
      BY <1>1 DEF IndInv, TypeOK
    <3>5. code = 0 => Earned(v)'
      BY <1>1, <3>1, <3>2, <3>3, <3>4 DEF Made, SignatureHolds, InTime, Earned,
         IsSigned, Detached, Form, Profile
    <3>6. \A u \in Commands \ {v} : Earned(u) => Earned(u)'
      BY <1>1 DEF IndInv, TypeOK, Earned, IsSigned, Detached, Form, Profile
    <3> QED
      BY <3>5, <3>6 DEF IndInv, TypeOK, VerdictIsEarned
  <2> QED
    BY <2>1, <2>2, <2>4, <2>5, <2>6, PinStays DEF IndInv
<1> QED
  BY <1>2, <1>3

-----------------------------------------------------------------------------
(* An edit leaves a signed file its maker and a torn one torn.             *)
LEMMA EditStep ==
  ASSUME IndInv, NEW p \in Paths, Edit(p)
  PROVE  IndInv'
<1> USE DEF Edit, tokenVars, readVars, signVars
<1>1. PICK content \in Contents :
          /\ fs' = [fs EXCEPT ![p] = content]
          /\ fs[p] # Torn
          /\ Made(fs[p]) => Made(content)
  <2>1. CASE fs[p] \in Docs /\ \E d \in Docs \ {fs[p]} : fs' = [fs EXCEPT ![p] = d]
    BY <2>1, CommandAssumption DEF Contents, Made, IsSigned
  <2>2. ASSUME IsSigned(fs[p]), NEW file \in Edited(fs[p]), fs' = [fs EXCEPT ![p] = file]
        PROVE  fs[p] # Torn /\ file \in Contents /\ (Made(fs[p]) => Made(file))
    <3>1. fs[p] \in Signed /\ fs[p] # Torn
      BY <2>2, SignedType DEF IndInv, TypeOK, IsSigned
    <3>2. file \in Signed /\ file.maker = fs[p].maker
      BY <2>2, <3>1 DEF Edited, Signed
    <3> QED
      BY <2>2, <3>1, <3>2 DEF Contents, Made
  <2> QED
    BY <2>1, <2>2
<1>2. TypeOK'
  BY <1>1 DEF IndInv, TypeOK
<1>3. ASSUME NEW d \in Commands PROVE Progress(d)'
  BY DEF IndInv, Progress, Signing, IsSigned, Form, Profile
<1>4. /\ \A any : Made(any) => Made(any)'
      /\ \A d \in Commands : Shared(d) => Shared(d)'
  BY Frame DEF IndInv
<1>5. ASSUME NEW d \in Commands PROVE OnDisk(d)'
  <2>1. OutPath(opts[d]) \in Paths
    BY OptionTypes DEF IndInv, TypeOK
  <2>2. CASE OutPath(opts[d]) = p
    BY <1>1, <1>4, <2>2 DEF IndInv, TypeOK, OnDisk, Whole, Signing, Form, Profile
  <2>3. CASE OutPath(opts[d]) # p
    <3>1. /\ fs'[OutPath(opts[d])] = fs[OutPath(opts[d])]
          /\ touched'[OutPath(opts[d])] = touched[OutPath(opts[d])]
      BY <1>1, <2>1, <2>3 DEF IndInv, TypeOK
    <3> QED
      BY <1>4, <3>1 DEF IndInv, OnDisk, Whole, Signing, Form, Profile
  <2> QED
    BY <2>2, <2>3
<1>6. Authentic'
  BY <1>1, <1>4 DEF IndInv, TypeOK, Authentic
<1>7. FailureLeavesFiles'
  BY CommandAssumption DEF IndInv, TypeOK, FailureLeavesFiles, Signing
<1>8. VerdictIsEarned'
  BY DEF IndInv, VerdictIsEarned, Earned, IsSigned, Detached, Form, Profile
<1> QED
  BY <1>2, <1>3, <1>5, <1>6, <1>7, <1>8, PinStays DEF IndInv

(* The certificate's end, and nothing at all, change no process or file.   *)
LEMMA ExpireStep ==
  ASSUME IndInv, Expire \/ UNCHANGED vars
  PROVE  IndInv'
<1>1. /\ UNCHANGED <<fileVars, tokenVars, readVars, signVars, opts, stage, exit, result>>
      /\ expired' \in BOOLEAN
  BY DEF IndInv, TypeOK, Expire, vars
<1> USE <1>1 DEF fileVars, tokenVars, readVars, signVars
<1>2. TypeOK'
  BY DEF IndInv, TypeOK
<1>3. ASSUME NEW d \in Commands PROVE Progress(d)' /\ OnDisk(d)'
  BY DEF IndInv, Progress, OnDisk, Whole, Shared, Signing, IsSigned, Form, Profile
<1>4. Authentic'
  BY DEF IndInv, Authentic, Made, Signing, IsSigned
<1>5. FailureLeavesFiles' /\ VerdictIsEarned'
  BY DEF IndInv, FailureLeavesFiles, VerdictIsEarned, Earned, Signing, IsSigned, Detached, Form, Profile
<1> QED
  BY <1>2, <1>3, <1>4, <1>5, PinStays DEF IndInv

-----------------------------------------------------------------------------
(* The invariant holds of all that processes, users and time do.           *)
THEOREM Inductive == Spec => []IndInv
<1>1. IndInv /\ [Next]_vars => IndInv'
  <2> SUFFICES ASSUME IndInv, [Next]_vars PROVE IndInv'
    OBVIOUS
  <2>1. ASSUME NEW c \in Commands, Command(c) PROVE IndInv'
    BY <2>1, ReadInputStep, LoginStep, SignStep, TruncateStep, FillStep, ReportStep,
       OpenSignedStep, ResolveStep, JudgeStep DEF Command
  <2>2. ASSUME NEW c \in Commands, Interrupt(c) PROVE IndInv'
    BY <2>2, GiveUpStep DEF Interrupt, others, fileVars, IndInv, TypeOK
  <2> QED
    BY <2>1, <2>2, EditStep, ExpireStep DEF Next
<1> QED
  BY <1>1, InitHolds, PTL DEF Spec

(* The types.                                                              *)
THEOREM TypesHold == Spec => []TypeOK
<1>1. IndInv => TypeOK
  BY DEF IndInv
<1> QED
  BY <1>1, Inductive, PTL

(* One login per process at most, and one try lost per wrong PIN given.    *)
THEOREM PinsAreTriedOnce == Spec => []PinIsTriedOnce
<1>1. IndInv => PinIsTriedOnce
  BY DEF IndInv
<1> QED
  BY <1>1, Inductive, PTL

(* Without the token's signature no file is touched.                       *)
THEOREM FailuresLeaveFiles == Spec => []FailureLeavesFiles
<1>1. IndInv => FailureLeavesFiles
  BY DEF IndInv
<1> QED
  BY <1>1, Inductive, PTL

(* A success leaves its output on disk, but for other writers of it.       *)
THEOREM SuccessesAreOnDisk == Spec => []SuccessIsOnDisk
<1>1. IndInv => SuccessIsOnDisk
  BY DEF IndInv, OnDisk, Shared, SuccessIsOnDisk
<1> QED
  BY <1>1, Inductive, PTL

(* A verdict VALID is of signed bytes as the maker's token signed them, by *)
(* a certificate that was not found wanting at the time it was judged for. *)
THEOREM VerdictsAreEarned == Spec => []VerdictIsEarned
<1>1. IndInv => VerdictIsEarned
  BY DEF IndInv
<1> QED
  BY <1>1, Inductive, PTL
=============================================================================
