------------------------- MODULE ServingCertProofs -------------------------
(***************************************************************************)
(* The serving certificate's properties, for any number of processes and   *)
(* of key pairs.  The invariant says which stages each command goes        *)
(* through, and, of a process that has run alone, how what it has read and *)
(* minted relates to the files at each stage.                              *)
(***************************************************************************)
EXTENDS ServingCert, TLAPS

Reading == {"readCert", "readKey"}
Writing == {"truncateCert", "writeCert", "truncateKey", "writeKey"}
Removing == {"untrust", "delete", "removeCert", "removeKey"}

(* The stages of each command.                                             *)
Course(p) ==
    stage[p] \in {"new"} \cup Ended \cup
        CASE kind[p] = "serve"     -> Reading \cup Writing \cup {"probe", "serving"}
          [] kind[p] = "install"   -> Reading \cup Writing \cup {"trust"}
          [] kind[p] = "uninstall" -> Removing
          [] OTHER                 -> {"probe"}

\* It has ensured a key pair, and serves or trusts it.
HasEnsured(p) == /\ kind[p] \in {"serve", "install"}
                 /\ stage[p] \in {"probe", "serving", "trust"}

\* A key pair for the hostname it was told.
Has(p) == mine[p] \in Leaves /\ Covers[mine[p]] = Hostname[p]

(* How the files stand to a process that runs alone, at each stage: it     *)
(* writes only when they were unsound or it could not read them, and until *)
(* its last write they are not its pair.                                   *)
Holds(p) ==
    /\ stage[p] = "readKey" => \/ read[p] = certFile
                               \/ read[p] = NoFile /\ p \in misread
    /\ stage[p] = "truncateCert" => ~SoundFor(p) \/ p \in misread
    /\ stage[p] \in Writing => Has(p) /\ keyFile # mine[p]
    /\ stage[p] = "writeCert" => certFile = Torn
    /\ stage[p] = "writeKey" => keyFile = Torn
    /\ stage[p] \in {"truncateKey", "writeKey"} => certFile = mine[p]
    /\ HasEnsured(p) => Has(p) /\ certFile = mine[p] /\ keyFile = mine[p]
    /\ kind[p] = "install" /\ stage[p] = "done" =>
          certFile \in trusted /\ keyFile = certFile /\ Covers[certFile] = Hostname[p]

(* A process that has run alone since it started.                          *)
Solo(p) == /\ stage[p] # "new"
           /\ \A q \in Procs \ {p} : ~Busy(q)
           /\ Holds(p)

(* Every leaf anybody has was minted, and a process that writes has one.   *)
Minted ==
    /\ {certFile, keyFile} \subseteq minted \cup {NoFile, Torn}
    /\ \A p \in Procs : /\ mine[p] \in minted \cup {NoLeaf}
                        /\ read[p] \in minted \cup {NoFile, Torn}
                        /\ stage[p] \in Writing => mine[p] \in minted

IndInv == /\ TypeOK /\ Minted
          /\ \A p \in Procs : Course(p)
          /\ \A p \in last : Solo(p)

-----------------------------------------------------------------------------
(* No process has started.                                                 *)
LEMMA InitHolds == Init => IndInv
  BY DEF Init, IndInv, TypeOK, Minted, Writing, Course, Files, Kinds, Stages, Ended

(* A stage a command can be in tells which command it is.                  *)
LEMMA StagesTell ==
  ASSUME IndInv, NEW p \in Procs
  PROVE  /\ kind[p] \in {"serve", "install", "uninstall", "status"}
         /\ stage[p] \in Reading \cup Writing => kind[p] \in {"serve", "install"}
         /\ stage[p] = "probe" => kind[p] \in {"serve", "status"}
         /\ stage[p] = "serving" => kind[p] = "serve"
         /\ stage[p] = "trust" => kind[p] = "install"
         /\ stage[p] \in Removing => kind[p] = "uninstall"
<1>1. kind[p] \in {"serve", "install", "uninstall", "status"}
  BY DEF IndInv, TypeOK, Kinds
<1> QED
  BY <1>1 DEF IndInv, Course, Ended, Reading, Writing, Removing

(* A process that is not done with the files and takes a step is the one   *)
(* that runs alone, if one does.                                           *)
LEMMA OnlyTheSolo ==
  ASSUME IndInv, NEW q \in Procs, Busy(q), NEW p \in last
  PROVE  q = p /\ last = {p} /\ Solo(p)
<1>1. \A r \in last : r \in Procs /\ Solo(r)
  BY DEF IndInv, TypeOK
<1> QED
  BY <1>1 DEF Solo

(* A process that fails or is killed forgets what it had, makes nobody     *)
(* busy, and leaves what is said of the process that is alone.             *)
LEMMA Bystander ==
  ASSUME IndInv, NEW q \in Procs, NEW s \in Ended, Goto(q, s),
         stage[q] # "new", s # "done", Forget(q),
         UNCHANGED <<kind, observedVars, fileVars, keychainVars>>, UNCHANGED leafVars
  PROVE  IndInv'
<1> USE DEF Goto, Forget, observedVars, fileVars, keychainVars, leafVars
<1>1. TypeOK'
  BY DEF IndInv, TypeOK, Stages, Ended, Files
<1>2. Minted' /\ \A p \in Procs : Course(p)'
  BY DEF IndInv, TypeOK, Minted, Writing, Course, Ended
<1>3. ASSUME NEW p \in last PROVE Solo(p)'
  <2>1. p \in Procs /\ Solo(p)
    BY DEF IndInv, TypeOK
  <2>2. \A r \in Procs : Busy(r)' => Busy(r)
    BY DEF IndInv, TypeOK, Busy, Running, Ended
  <2> QED
    BY <2>1, <2>2 DEF IndInv, TypeOK, Solo, Holds, Has, HasEnsured, SoundFor, Writing, Ended
<1> QED
  BY <1>1, <1>2, <1>3 DEF IndInv

(* A start: from then on it is alone, or nobody is.                        *)
LEMMA StartStep ==
  ASSUME IndInv, NEW q \in Procs, Start(q)
  PROVE  IndInv'
<1> USE DEF Start, Goto, fileVars, keychainVars, leafVars
<1>1. /\ kind[q] \in {"serve", "install", "uninstall", "status"}
      /\ stage'[q] \in {"untrust", "probe", "readCert"}
      /\ kind[q] = "uninstall" => stage'[q] = "untrust"
      /\ kind[q] = "status" => stage'[q] = "probe"
      /\ kind[q] \in {"serve", "install"} => stage'[q] = "readCert"
      /\ \A p \in Procs \ {q} : stage'[p] = stage[p]
      /\ stage' \in [Procs -> Stages]
  BY StagesTell DEF IndInv, TypeOK, Stages
<1>2. TypeOK'
  BY <1>1 DEF IndInv, TypeOK
<1>3. Minted' /\ \A p \in Procs : Course(p)'
  BY <1>1 DEF IndInv, Minted, Writing, Course, Reading, Removing
<1>4. ASSUME NEW p \in last' PROVE Solo(p)'
  <2>1. p = q /\ \A r \in Procs : ~Busy(r)
    BY <1>4
  <2> QED
    BY <1>1, <2>1 DEF Solo, Holds, HasEnsured, Busy, Running, Writing, Ended
<1> QED
  BY <1>2, <1>3, <1>4 DEF IndInv

(* A step of a process that is busy changes what is said of itself only.   *)
LEMMA BusyStep ==
  ASSUME IndInv, NEW q \in Procs, Busy(q),
         NEW s \in Stages \ {"new"}, Goto(q, s),
         UNCHANGED <<kind, last>>, TypeOK', Minted', Course(q)',
         last = {q} /\ Solo(q) => Holds(q)'
  PROVE  IndInv'
<1> USE DEF Goto
<1>1. stage'[q] = s /\ \A p \in Procs \ {q} : stage'[p] = stage[p]
  BY DEF IndInv, TypeOK
<1>2. ASSUME NEW p \in Procs PROVE Course(p)'
  BY <1>1 DEF IndInv, Course
<1>3. ASSUME NEW p \in last PROVE Solo(p)'
  <2>1. q = p /\ last = {q} /\ Solo(q)
    BY OnlyTheSolo
  <2>2. \A r \in Procs \ {q} : ~Busy(r)'
    BY <1>1, <2>1 DEF Solo, Busy, Running
  <2> QED
    BY <1>1, <2>1, <2>2 DEF Solo
<1> QED
  BY <1>2, <1>3 DEF IndInv

(* EnsureCert: the pair on disk is taken if the two files agree, or a new  *)
(* one is written to both.                                                 *)
LEMMA EnsureStep ==
  ASSUME IndInv, NEW q \in Procs,
         ReadCert(q) \/ ReadKey(q) \/ WriteCert(q) \/ WriteKey(q)
  PROVE  IndInv'
<1> USE DEF fileVars, keychainVars, leafVars, procVars, observedVars, Stages, Ended,
            Busy, Running
<1>1. kind[q] \in {"serve", "install"} /\ Ensured(q) \in {"probe", "trust"}
      /\ (Ensured(q) = "probe" <=> kind[q] = "serve")
  BY StagesTell DEF ReadCert, ReadKey, WriteCert, WriteKey, Ensured, Reading, Writing
<1>2. CASE ReadCert(q)
  <2>1. TypeOK' /\ Minted' /\ Course(q)'
    BY <1>1, <1>2 DEF IndInv, TypeOK, Minted, Writing, ReadCert, Misread, Goto, Course,
                      Reading, Files
  <2>2. ASSUME last = {q} PROVE Holds(q)'
    <3>1. /\ stage'[q] = "readKey" /\ certFile' = certFile
          /\ read'[q] = certFile \/ (read'[q] = NoFile /\ q \in misread')
      BY <1>2, <2>2 DEF IndInv, TypeOK, ReadCert, Misread, Goto
    <3> QED
      BY <3>1 DEF Holds, HasEnsured, Writing
  <2> QED
    BY <1>2, <2>1, <2>2, BusyStep DEF ReadCert
<1>3. CASE ReadKey(q)
  <2>1. read' = [read EXCEPT ![q] = NoFile] /\ UNCHANGED <<kind, last, fileVars, expired>>
    BY <1>3 DEF ReadKey
  <2>2. CASE Usable(q) /\ Reuse(q) /\ UNCHANGED misread
    <3>1. TypeOK' /\ Minted' /\ Course(q)'
      BY <1>1, <1>3, <2>2, SentinelsAssumption
         DEF IndInv, TypeOK, Minted, Writing, ReadKey, Usable, Reuse, Goto, Course, Files
    <3>2. Solo(q) => Holds(q)'
      <4>1. Solo(q) => read[q] = certFile \/ read[q] = NoFile
        BY <1>3 DEF ReadKey, Solo, Holds
      <4>2. Solo(q) => Has(q)' /\ certFile = mine'[q] /\ keyFile = mine'[q]
        BY <2>2, <4>1, SentinelsAssumption DEF IndInv, TypeOK, Usable, Reuse, Has
      <4>3. stage'[q] \in {"probe", "trust"} /\ UNCHANGED <<certFile, keyFile>>
        BY <1>1, <2>1, <2>2 DEF IndInv, TypeOK, Reuse, Goto
      <4> QED
        BY <4>2, <4>3 DEF Holds, Writing
    <3> QED
      BY <1>1, <1>3, <2>1, <2>2, <3>1, <3>2, BusyStep DEF ReadKey, Reuse
  <2>3. CASE Mint(q) /\ ((~Usable(q) /\ UNCHANGED misread) \/ Misread(q))
    <3>1. TypeOK' /\ Minted' /\ Course(q)'
      BY <1>1, <1>3, <2>3
         DEF IndInv, TypeOK, Minted, ReadKey, Mint, Misread, Goto, Course, Writing, Files
    <3>2. ASSUME last = {q}, Solo(q) PROVE Holds(q)'
      <4>1. /\ mine'[q] \in Leaves \ minted /\ Covers[mine'[q]] = Hostname[q]
            /\ stage'[q] = "truncateCert"
            /\ UNCHANGED <<certFile, keyFile, expired>>
        BY <2>1, <2>3 DEF IndInv, TypeOK, Mint, Goto
      <4>2. keyFile # mine'[q]
        BY <4>1, SentinelsAssumption DEF IndInv, Minted
      <4>3. ~SoundFor(q)' \/ q \in misread'
        <5>1. CASE Misread(q)
          BY <3>2, <5>1 DEF Misread
        <5>2. CASE ~Usable(q) /\ UNCHANGED misread
          BY <1>3, <3>2, <4>1, <5>2 DEF ReadKey, Solo, Holds, SoundFor, Usable
        <5> QED
          BY <2>3, <5>1, <5>2
      <4> QED
        BY <4>1, <4>2, <4>3 DEF Holds, Has, HasEnsured, Writing
    <3>3. Goto(q, "truncateCert")
      BY <2>3 DEF Mint
    <3> QED
      BY <1>3, <2>1, <3>1, <3>2, <3>3, BusyStep DEF ReadKey
  <2> QED
    BY <1>3, <2>2, <2>3 DEF ReadKey
<1>4. CASE WriteCert(q)
  <2>1. PICK s \in {"writeCert", "truncateKey"} :
            /\ Goto(q, s) /\ stage[q] \in {"truncateCert", "writeCert"}
            /\ s = "truncateKey" => certFile' = mine[q]
    BY <1>4 DEF WriteCert
  <2>2. stage'[q] = s
    BY <2>1 DEF IndInv, TypeOK, Goto
  <2>3. TypeOK' /\ Minted'
    <3>1. mine[q] \in minted
      BY <2>1 DEF IndInv, Minted, Writing
    <3> QED
      BY <1>4, <2>1, <3>1 DEF IndInv, TypeOK, Minted, Writing, WriteCert, Goto, Files
  <2>4. Course(q)'
    BY <1>1, <1>4, <2>2 DEF WriteCert, Course, Writing
  <2>5. Solo(q) => Holds(q)'
    <3>1. /\ UNCHANGED <<keyFile, mine>>
          /\ s = "writeCert" => certFile' = Torn
      BY <1>4, <2>1, <2>2 DEF IndInv, TypeOK, WriteCert, Goto
    <3>2. Solo(q) => Has(q) /\ keyFile # mine[q]
      BY <2>1 DEF Solo, Holds, Writing
    <3> QED
      BY <2>1, <2>2, <3>1, <3>2 DEF Holds, Has, HasEnsured, Writing
  <2> QED
    BY <1>4, <2>1, <2>3, <2>4, <2>5, BusyStep DEF WriteCert
<1>5. CASE WriteKey(q)
  <2>1. PICK s \in {"writeKey", "probe", "trust"} :
            /\ Goto(q, s) /\ stage[q] \in {"truncateKey", "writeKey"}
            /\ s = "probe" => kind[q] = "serve"
            /\ s = "trust" => kind[q] = "install"
            /\ s # "writeKey" => keyFile' = mine[q]
    BY <1>1, <1>5 DEF WriteKey
  <2>2. stage'[q] = s
    BY <2>1 DEF IndInv, TypeOK, Goto
  <2>3. TypeOK' /\ Minted'
    <3>1. mine[q] \in minted
      BY <2>1 DEF IndInv, Minted, Writing
    <3> QED
      BY <1>5, <2>1, <3>1 DEF IndInv, TypeOK, Minted, Writing, WriteKey, Goto, Files
  <2>4. Course(q)'
    BY <1>1, <1>5, <2>1, <2>2 DEF WriteKey, Course, Writing
  <2>5. Solo(q) => Holds(q)'
    <3>1. /\ UNCHANGED <<certFile, mine>>
          /\ s = "writeKey" => keyFile' = Torn
      BY <1>1, <1>5, <2>1, <2>2 DEF IndInv, TypeOK, WriteKey, Goto
    <3>2. Solo(q) => Has(q) /\ certFile = mine[q]
      BY <2>1 DEF Solo, Holds, Writing
    <3> QED
      BY <2>1, <2>2, <3>1, <3>2, SentinelsAssumption DEF Holds, Has, HasEnsured, Writing
  <2> QED
    BY <1>5, <2>1, <2>3, <2>4, <2>5, BusyStep DEF WriteKey
<1> QED
  BY <1>2, <1>3, <1>4, <1>5

(* The keychain's commands, and the files' removal.                        *)
LEMMA KeychainStep ==
  ASSUME IndInv, NEW q \in Procs,
         \/ Probe(q) \/ AddTrust(q) \/ RemoveTrust(q) \/ DeleteCertificate(q)
         \/ RemoveCert(q) \/ RemoveKey(q)
  PROVE  IndInv'
<1> USE DEF fileVars, keychainVars, leafVars, procVars, observedVars, Stages, Ended,
            Busy, Running
<1>1. CASE Probe(q)
  <2>1. kind[q] \in {"serve", "status"}
    BY <1>1, StagesTell DEF Probe
  <2>2. PICK s \in {"serving", "done"} : Goto(q, s) /\ (s = "serving" <=> kind[q] = "serve")
    BY <1>1, <2>1 DEF Probe
  <2>3. report' \in [Procs -> [exists : BOOLEAN, trusted : BOOLEAN] \cup {NoReport}]
    BY <1>1 DEF IndInv, TypeOK, Probe
  <2>4. stage'[q] = s
    BY <2>2 DEF IndInv, TypeOK, Goto
  <2>5. TypeOK' /\ Minted'
    BY <1>1, <2>2, <2>3 DEF IndInv, TypeOK, Minted, Writing, Probe, Goto
  <2>6. Course(q)'
    BY <1>1, <2>1, <2>2, <2>4 DEF Probe, Course
  <2>7. Solo(q) => Holds(q)'
    BY <1>1, <2>1, <2>2, <2>4 DEF Probe, Solo, Holds, Has, HasEnsured, Writing
  <2> QED
    BY <1>1, <2>2, <2>5, <2>6, <2>7, BusyStep DEF Probe
<1>2. CASE AddTrust(q)
  <2>1. kind[q] = "install" /\ stage'[q] = "done"
    BY <1>2, StagesTell DEF IndInv, TypeOK, AddTrust, Goto
  <2>2. Solo(q) => certFile = keyFile /\ Covers[certFile] = Hostname[q]
    BY <1>2, <2>1 DEF AddTrust, Solo, Holds, Has, HasEnsured
  <2>3. certFile \in minted
    BY <1>2, SentinelsAssumption DEF IndInv, Minted, AddTrust
  <2>4. TypeOK' /\ Minted' /\ Course(q)'
    BY <1>2, <2>1, <2>3 DEF IndInv, TypeOK, Minted, Writing, AddTrust, Goto, Course
  <2>5. Solo(q) => Holds(q)'
    BY <1>2, <2>1, <2>2 DEF AddTrust, Holds, HasEnsured, Writing
  <2> QED
    BY <1>2, <2>4, <2>5, BusyStep DEF AddTrust
<1>3. ASSUME NEW s \in {"delete", "removeCert", "removeKey", "done"}, Goto(q, s),
             stage[q] \in Removing, UNCHANGED <<kind, last>>, TypeOK', Minted'
      PROVE  IndInv'
  <2>1. kind[q] = "uninstall" /\ stage'[q] = s
    BY <1>3, StagesTell DEF IndInv, TypeOK, Goto
  <2>2. Course(q)'
    BY <1>3, <2>1 DEF Course, Removing
  <2>3. Holds(q)'
    BY <1>3, <2>1 DEF Holds, HasEnsured, Writing
  <2> QED
    BY <1>3, <2>2, <2>3, BusyStep DEF Removing
<1>4. CASE RemoveTrust(q)
  <2>1. TypeOK' /\ Minted'
    BY <1>4 DEF IndInv, TypeOK, Minted, Writing, RemoveTrust, Goto
  <2> QED
    BY <1>3, <1>4, <2>1 DEF RemoveTrust, Removing
<1>5. CASE DeleteCertificate(q)
  <2>1. TypeOK' /\ Minted'
    BY <1>5 DEF IndInv, TypeOK, Minted, Writing, DeleteCertificate, Goto
  <2> QED
    BY <1>3, <1>5, <2>1 DEF DeleteCertificate, Removing
<1>6. CASE RemoveCert(q)
  <2>1. TypeOK' /\ Minted'
    BY <1>6 DEF IndInv, TypeOK, Minted, Writing, RemoveCert, Goto, Files
  <2> QED
    BY <1>3, <1>6, <2>1 DEF RemoveCert, Removing
<1>7. CASE RemoveKey(q)
  <2>1. TypeOK' /\ Minted'
    BY <1>7 DEF IndInv, TypeOK, Minted, Writing, RemoveKey, Goto, Files
  <2> QED
    BY <1>3, <1>7, <2>1 DEF RemoveKey, Removing
<1> QED
  BY <1>1, <1>2, <1>4, <1>5, <1>6, <1>7

(* A failure, a kill, an expiry.                                           *)
LEMMA EndStep ==
  ASSUME IndInv, NEW q \in Procs, Fail(q) \/ Kill(q)
  PROVE  IndInv'
  BY Bystander DEF Fail, Kill, Running, Ended

LEMMA ExpireStep ==
  ASSUME IndInv, (\E leaf \in Leaves : Expire(leaf)) \/ UNCHANGED vars
  PROVE  IndInv'
<1> USE DEF procVars, fileVars, keychainVars
<1>1. TypeOK' /\ Minted'
  BY DEF IndInv, TypeOK, Minted, Expire, vars
<1>2. UNCHANGED <<stage, procVars, fileVars, keychainVars>> /\ expired \subseteq expired'
  BY DEF Expire, vars
<1>3. ASSUME NEW p \in last PROVE Solo(p)'
  <2>1. Solo(p) /\ (SoundFor(p)' => SoundFor(p))
    BY <1>2 DEF IndInv, SoundFor
  <2> QED
    BY <1>2, <2>1 DEF Solo, Holds, Has, HasEnsured, Busy, Running
<1> QED
  BY <1>1, <1>2, <1>3 DEF IndInv, Course

(* The invariant holds, whatever fails, races or is killed.                *)
THEOREM Inductive == Spec => []IndInv
<1>1. IndInv /\ [Next]_vars => IndInv'
  <2> SUFFICES ASSUME IndInv, [Next]_vars PROVE IndInv'
    OBVIOUS
  <2>1. ASSUME NEW p \in Procs, Step(p) PROVE IndInv'
    BY <2>1, StartStep, EnsureStep, KeychainStep, EndStep DEF Step
  <2> QED
    BY <2>1, ExpireStep DEF Next
<1> QED
  BY <1>1, InitHolds, PTL DEF Spec

(* The types; what is trusted or stored was minted.                        *)
THEOREM TypesHold == Spec => []TypeOK
<1>1. IndInv => TypeOK
  BY DEF IndInv
<1> QED
  BY <1>1, Inductive, PTL

(* A serve that runs alone presents a pair for its hostname, the one both  *)
(* files hold, whatever was left there before.                             *)
THEOREM SoloServesHeal == Spec => []SoloServeHeals
<1>1. IndInv => SoloServeHeals
  BY DEF IndInv, Solo, Holds, Has, HasEnsured, SoloServeHeals
<1> QED
  BY <1>1, Inductive, PTL

(* An install that runs alone and succeeds trusts what is on disk, which   *)
(* is for its hostname.                                                    *)
THEOREM SoloInstallsTrust == Spec => []SoloInstallTrusts
<1>1. IndInv => SoloInstallTrusts
  BY DEF IndInv, Solo, Holds, SoloInstallTrusts
<1> QED
  BY <1>1, Inductive, PTL

-----------------------------------------------------------------------------
(* Of a process that runs alone, could read the files and does not         *)
(* uninstall, no step touches files that are sound: the invariant says     *)
(* that those it writes are not.                                           *)
LEMMA StepKeeps ==
  ASSUME IndInv, [Next]_vars, NEW p \in last \ misread
  PROVE  KeptBy(p)
<1> DEFINE Kept == UNCHANGED fileVars /\ (certFile \in trusted => certFile \in trusted')
<1> SUFFICES ASSUME kind[p] # "uninstall", SoundFor(p) PROVE Kept
  BY DEF KeptBy
<1> USE DEF fileVars, keychainVars
<1>1. ASSUME NEW q \in Procs, Start(q) \/ ReadCert(q) \/ ReadKey(q) \/ Probe(q) \/ AddTrust(q)
                              \/ DeleteCertificate(q) \/ Fail(q) \/ Kill(q)
      PROVE  Kept
  BY <1>1 DEF Start, ReadCert, ReadKey, Probe, AddTrust, DeleteCertificate, Fail, Kill
<1>2. ASSUME NEW q \in Procs, WriteCert(q) \/ WriteKey(q) PROVE Kept
  <2>1. stage[q] \in Writing
    BY <1>2 DEF WriteCert, WriteKey, Writing
  <2>2. Solo(q) /\ q = p
    BY <2>1, OnlyTheSolo DEF Busy, Running, Ended, Writing
  <2>3. certFile \in Leaves /\ keyFile = certFile /\ certFile # Torn
    BY SentinelsAssumption DEF SoundFor
  <2> QED
    BY <2>1, <2>2, <2>3 DEF Solo, Holds, Writing
<1>3. ASSUME NEW q \in Procs, RemoveTrust(q) \/ RemoveCert(q) \/ RemoveKey(q) PROVE Kept
  <2>1. stage[q] \in Removing
    BY <1>3 DEF RemoveTrust, RemoveCert, RemoveKey, Removing
  <2>2. q = p
    BY <2>1, OnlyTheSolo DEF Busy, Running, Ended, Removing
  <2> QED
    BY <2>1, <2>2, StagesTell
<1>4. ASSUME NEW leaf \in Leaves, Expire(leaf) PROVE Kept
  BY <1>4 DEF Expire
<1>5. CASE UNCHANGED vars
  BY <1>5 DEF vars
<1> QED
  BY <1>1, <1>2, <1>3, <1>4, <1>5 DEF Next, Step

(* A process that runs alone and could read the files, unless it           *)
(* uninstalls, leaves a pair that is sound for its hostname and the trust  *)
(* in its leaf as they are.                                                *)
THEOREM ReadPairsAreKept == Spec => ReadPairIsKept
<1>1. IndInv /\ [Next]_vars => KeepsReadPair
  BY StepKeeps DEF KeepsReadPair
<1> QED
  BY <1>1, Inductive, PTL DEF Spec, ReadPairIsKept
=============================================================================
