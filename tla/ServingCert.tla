---------------------------- MODULE ServingCert ----------------------------
(***************************************************************************)
(* The persistent serving certificate: CertStore's two files, the macOS    *)
(* keychain that securityTrustStore drives, and the processes that share   *)
(* them: "openmdsignd serve" and "openmdsignd trust install", "uninstall"  *)
(* and "status" (internal/server/servingcert.go, trust.go, listen.go,      *)
(* cmd/openmdsignd/trust.go).  A process may be killed between any two     *)
(* steps, and the steps of two processes interleave: nothing locks the     *)
(* files.                                                                  *)
(***************************************************************************)
CONSTANTS
    Procs,          \* the runs of openmdsignd, in any order and at any time
    Hostnames,      \* the names given with --hostname, none part of another
    Hostname,       \* [Procs -> Hostnames]: what each run is told to serve as
    Leaves,         \* the key pairs generateLeafCert mints, each with its leaf
    Covers,         \* [Leaves -> Hostnames]: the name a leaf is for
    NoFile, Torn,   \* a file that is absent, or truncated and not yet written
    NoLeaf, NoReport

ASSUME HostnamesAssumption ==
    Hostname \in [Procs -> Hostnames] /\ Covers \in [Leaves -> Hostnames]

ASSUME SentinelsAssumption ==
    /\ NoFile \notin Leaves /\ Torn \notin Leaves /\ NoLeaf \notin Leaves
    /\ NoFile # Torn /\ NoLeaf # Torn
    /\ NoReport \notin [exists : BOOLEAN, trusted : BOOLEAN]

Files == Leaves \cup {NoFile, Torn}
Kinds == {"serve", "install", "uninstall", "status"}
Ended == {"done", "failed", "killed"}
Stages == {"new", "readCert", "readKey", "truncateCert", "writeCert", "truncateKey",
           "writeKey", "probe", "serving", "trust", "untrust", "delete", "removeCert",
           "removeKey"} \cup Ended

VARIABLES
    kind,       \* the command each process runs
    stage,      \* where it stands
    mine,       \* the key pair it ensured
    read,       \* the certificate file as load read it
    report,     \* what Status told it
    certFile,   \* serving-cert.pem
    keyFile,    \* serving-key.pem
    minted,     \* the leaves that were generated
    expired,    \* those within servingCertRenewBefore of their end
    trusted,    \* the keychain's SSL trust settings
    stored,     \* the certificates stored in the keychain
    last,       \* observed: the process that started last, if alone since
    misread     \* observed: that process, if a file was there it could not read

vars == <<kind, stage, mine, read, report, certFile, keyFile, minted, expired,
          trusted, stored, last, misread>>
procVars == <<kind, mine, read, report, last, misread>>
observedVars == <<last, misread>>
fileVars == <<certFile, keyFile>>
keychainVars == <<trusted, stored>>
leafVars == <<minted, expired>>

TypeOK ==
    /\ kind \in [Procs -> Kinds]
    /\ stage \in [Procs -> Stages]
    /\ mine \in [Procs -> Leaves \cup {NoLeaf}]
    /\ read \in [Procs -> Files]
    /\ report \in [Procs -> [exists : BOOLEAN, trusted : BOOLEAN] \cup {NoReport}]
    /\ certFile \in Files /\ keyFile \in Files
    /\ minted \subseteq Leaves /\ expired \subseteq minted
    /\ trusted \subseteq minted /\ stored \subseteq minted
    /\ last \subseteq Procs /\ misread \subseteq last

Init ==
    /\ kind \in [Procs -> Kinds]
    /\ stage = [p \in Procs |-> "new"]
    /\ mine = [p \in Procs |-> NoLeaf]
    /\ read = [p \in Procs |-> NoFile]
    /\ report = [p \in Procs |-> NoReport]
    /\ certFile = NoFile /\ keyFile = NoFile
    /\ minted = {} /\ expired = {}
    /\ trusted = {} /\ stored = {}
    /\ last = {} /\ misread = {}

Goto(p, s) == stage' = [stage EXCEPT ![p] = s]

Running(p) == stage[p] \notin Ended \cup {"new"}

\* A daemon that serves has done with the files.
Busy(p) == Running(p) /\ stage[p] # "serving"

(* A process starts; it is alone if no other is busy, until one starts.    *)
Start(p) ==
    /\ stage[p] = "new"
    /\ Goto(p, CASE kind[p] = "uninstall" -> "untrust"
                 [] kind[p] = "status"    -> "probe"
                 [] OTHER                 -> "readCert")
    /\ last' = IF \E q \in Procs : Busy(q) THEN {} ELSE {p}
    /\ misread' = {}
    /\ UNCHANGED <<kind, mine, read, report, fileVars, leafVars, keychainVars>>

-----------------------------------------------------------------------------
(* EnsureCert, for serve and install.                                      *)

\* servingCert goes on to warnIfUntrusted, Install to security.
Ensured(p) == IF kind[p] = "serve" THEN "probe" ELSE "trust"

\* os.ReadFile fails on a file that is there.
Misread(p) == misread' = misread \cup (last \cap {p})

(* load reads the certificate; any error is the same to it as no file.     *)
ReadCert(p) ==
    /\ stage[p] = "readCert"
    /\ \/ read' = [read EXCEPT ![p] = certFile] /\ UNCHANGED misread
       \/ certFile # NoFile /\ read' = [read EXCEPT ![p] = NoFile] /\ Misread(p)
    /\ Goto(p, "readKey")
    /\ UNCHANGED <<kind, mine, report, last, fileVars, leafVars, keychainVars>>

\* generateLeafCert: a key pair nobody has, for the hostname asked for.
Mint(p) == \E leaf \in Leaves \ minted :
              /\ Covers[leaf] = Hostname[p]
              /\ mine' = [mine EXCEPT ![p] = leaf]
              /\ minted' = minted \cup {leaf}
              /\ Goto(p, "truncateCert")

Reuse(p) == /\ mine' = [mine EXCEPT ![p] = read[p]]
            /\ Goto(p, Ensured(p))
            /\ UNCHANGED minted

\* What load asks of the pair: it parses, matches (tls.X509KeyPair), is not
\* about to expire and covers the hostname.
Usable(p) == /\ read[p] \in Leaves \ expired
             /\ keyFile = read[p]
             /\ Covers[read[p]] = Hostname[p]

\* Mutation: a certificate that does not parse is taken if the key is no better.
ReadKey_Unparsed(p) ==
    /\ stage[p] = "readKey"
    /\ \/ /\ Usable(p) \/ (read[p] = Torn /\ keyFile = Torn)
          /\ Reuse(p)
          /\ UNCHANGED misread
       \/ ~Usable(p) /\ Mint(p) /\ UNCHANGED misread
       \/ Usable(p) /\ Mint(p) /\ Misread(p)
    /\ read' = [read EXCEPT ![p] = NoFile]
    /\ UNCHANGED <<kind, report, last, fileVars, expired, keychainVars>>

\* Mutation: the key is not compared with the certificate.
ReadKey_Unmatched(p) ==
    /\ stage[p] = "readKey"
    /\ IF /\ read[p] \in Leaves \ expired
          /\ keyFile \in Leaves
          /\ Covers[read[p]] = Hostname[p]
       THEN Reuse(p) ELSE Mint(p)
    /\ read' = [read EXCEPT ![p] = NoFile]
    /\ UNCHANGED <<kind, report, observedVars, fileVars, expired, keychainVars>>

\* Mutation: install makes a new pair, whatever is there.
ReadKey_Renews(p) ==
    /\ stage[p] = "readKey"
    /\ IF kind[p] = "serve" /\ Usable(p) THEN Reuse(p) ELSE Mint(p)
    /\ read' = [read EXCEPT ![p] = NoFile]
    /\ UNCHANGED <<kind, report, observedVars, fileVars, expired, keychainVars>>

(* load reads the key.  A pair it can use is reused; otherwise, or if the  *)
(* key cannot be read, a new one is generated.                             *)
ReadKey(p) ==
    /\ stage[p] = "readKey"
    /\ \/ Usable(p) /\ Reuse(p) /\ UNCHANGED misread
       \/ ~Usable(p) /\ Mint(p) /\ UNCHANGED misread
       \/ Usable(p) /\ Mint(p) /\ Misread(p)
    /\ read' = [read EXCEPT ![p] = NoFile]
    /\ UNCHANGED <<kind, report, last, fileVars, expired, keychainVars>>

(* write: os.WriteFile truncates, then writes; the certificate first.      *)
WriteCert(p) ==
    /\ \/ /\ stage[p] = "truncateCert"
          /\ certFile' = Torn
          /\ Goto(p, "writeCert")
       \/ /\ stage[p] = "writeCert"
          /\ certFile' = mine[p]
          /\ Goto(p, "truncateKey")
    /\ UNCHANGED <<procVars, keyFile, leafVars, keychainVars>>

WriteKey(p) ==
    /\ \/ /\ stage[p] = "truncateKey"
          /\ keyFile' = Torn
          /\ Goto(p, "writeKey")
       \/ /\ stage[p] = "writeKey"
          /\ keyFile' = mine[p]
          /\ Goto(p, Ensured(p))
    /\ UNCHANGED <<procVars, certFile, leafVars, keychainVars>>

-----------------------------------------------------------------------------
(* The keychain.                                                           *)

(* Status: whether there is a leaf on disk, and whether the trust settings *)
(* name the hostname; neither is seen if it cannot be read.                *)
Probe(p) ==
    /\ stage[p] = "probe"
    /\ \E exists, found \in BOOLEAN :
          /\ exists => certFile \in Leaves
          /\ found => \E leaf \in trusted : Covers[leaf] = Hostname[p]
          /\ report' = [report EXCEPT ![p] = [exists |-> exists, trusted |-> found]]
    /\ Goto(p, IF kind[p] = "serve" THEN "serving" ELSE "done")
    /\ UNCHANGED <<kind, mine, read, observedVars, fileVars, leafVars, keychainVars>>

\* Mutation: an error of add-trusted-cert is ignored, as uninstall ignores its.
AddTrust_Ignored(p) ==
    /\ stage[p] = "trust"
    /\ certFile \in Leaves
    /\ \/ trusted' = trusted \cup {certFile} /\ stored' = stored \cup {certFile}
       \/ UNCHANGED keychainVars
    /\ Goto(p, "done")
    /\ UNCHANGED <<procVars, fileVars, leafVars>>

(* security add-trusted-cert of whatever the file holds by then.  When the *)
(* user declines, or the file cannot be read, Install fails (Fail).        *)
AddTrust(p) ==
    /\ stage[p] = "trust"
    /\ certFile \in Leaves
    /\ trusted' = trusted \cup {certFile}
    /\ stored' = stored \cup {certFile}
    /\ Goto(p, "done")
    /\ UNCHANGED <<procVars, fileVars, leafVars>>

(* security remove-trusted-cert of the file, then delete-certificate by    *)
(* hostname; the errors of both are ignored.                               *)
RemoveTrust(p) ==
    /\ stage[p] = "untrust"
    /\ trusted' \in {trusted, trusted \ {certFile}}
    /\ Goto(p, "delete")
    /\ UNCHANGED <<procVars, fileVars, leafVars, stored>>

DeleteCertificate(p) ==
    /\ stage[p] = "delete"
    /\ \/ \E leaf \in stored : /\ Covers[leaf] = Hostname[p]
                             /\ stored' = stored \ {leaf}
       \/ UNCHANGED stored
    /\ Goto(p, "removeCert")
    /\ UNCHANGED <<procVars, fileVars, leafVars, trusted>>

RemoveCert(p) ==
    /\ stage[p] = "removeCert"
    /\ certFile' = NoFile
    /\ Goto(p, "removeKey")
    /\ UNCHANGED <<procVars, keyFile, leafVars, keychainVars>>

RemoveKey(p) ==
    /\ stage[p] = "removeKey"
    /\ keyFile' = NoFile
    /\ Goto(p, "done")
    /\ UNCHANGED <<procVars, certFile, leafVars, keychainVars>>

-----------------------------------------------------------------------------
\* What the process held in memory goes with it.
Forget(p) == /\ mine' = [mine EXCEPT ![p] = NoLeaf]
             /\ read' = [read EXCEPT ![p] = NoFile]
             /\ report' = [report EXCEPT ![p] = NoReport]

(* A file operation or security fails, and the command with it.            *)
Fail(p) ==
    /\ stage[p] \in {"truncateCert", "writeCert", "truncateKey", "writeKey", "trust",
                     "removeCert", "removeKey"}
    /\ Goto(p, "failed")
    /\ Forget(p)
    /\ UNCHANGED <<kind, observedVars, fileVars, leafVars, keychainVars>>

(* The process is killed, or serve is stopped.                             *)
Kill(p) ==
    /\ Running(p)
    /\ Goto(p, "killed")
    /\ Forget(p)
    /\ UNCHANGED <<kind, observedVars, fileVars, leafVars, keychainVars>>

Expire(leaf) ==
    /\ leaf \in minted \ expired
    /\ expired' = expired \cup {leaf}
    /\ UNCHANGED <<stage, procVars, fileVars, minted, keychainVars>>

Step(p) == \/ Start(p) \/ ReadCert(p) \/ ReadKey(p) \/ WriteCert(p) \/ WriteKey(p)
           \/ Probe(p) \/ AddTrust(p) \/ RemoveTrust(p) \/ DeleteCertificate(p)
           \/ RemoveCert(p) \/ RemoveKey(p) \/ Fail(p) \/ Kill(p)

Next == (\E p \in Procs : Step(p)) \/ \E leaf \in Leaves : Expire(leaf)

Spec == Init /\ [][Next]_vars

-----------------------------------------------------------------------------
(* Whatever kills, failures and races left on disk, a serve that runs      *)
(* alone presents a key pair for its hostname, and both files hold that    *)
(* pair (EnsureCert: missing, unparseable and mismatched pairs, those for  *)
(* another hostname and those that had expired when it read them, are      *)
(* replaced).                                                              *)
SoloServeHeals ==
    \A p \in last : kind[p] = "serve" /\ stage[p] \in {"probe", "serving"} =>
        /\ mine[p] \in Leaves /\ Covers[mine[p]] = Hostname[p]
        /\ certFile = mine[p] /\ keyFile = mine[p]

(* An install that ran alone and succeeded trusts the leaf on disk, which  *)
(* is for its hostname and whose key is there too.                         *)
SoloInstallTrusts ==
    \A p \in last : kind[p] = "install" /\ stage[p] = "done" =>
        /\ certFile \in trusted /\ Covers[certFile] = Hostname[p]
        /\ keyFile = certFile

\* Both files hold one key pair, which is not about to expire and is for the
\* process's hostname.
SoundFor(p) == /\ certFile \in Leaves \ expired
               /\ keyFile = certFile
               /\ Covers[certFile] = Hostname[p]

\* What no step may do to a sound pair, beside such a process nor its own.
KeptBy(p) ==
    kind[p] # "uninstall" /\ SoundFor(p) =>
        /\ UNCHANGED fileVars
        /\ certFile \in trusted => certFile \in trusted'

KeepsReadPair == \A p \in last \ misread : KeptBy(p)

(* A process that runs alone and could read the files, however it ends and *)
(* whatever was killed before it, leaves a pair that is sound for its      *)
(* hostname and the trust in its leaf as they are, unless it uninstalls    *)
(* them (EnsureCert, load): the user need not trust it again.              *)
ReadPairIsKept == [][KeepsReadPair]_vars

(* "Trusted reports whether the serving cert is a trusted SSL anchor":     *)
(* what Status told a process that runs alone is true of the leaf on disk. *)
StatusIsTrue ==
    \A p \in last : stage[p] \in {"serving", "done"} /\ report[p] # NoReport =>
        (report[p].trusted => certFile \in trusted)
=============================================================================
