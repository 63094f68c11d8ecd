--------------------------- MODULE MCCommandLine ---------------------------
(* A PDF and a text; two processes that sign and one that verifies, as a   *)
(* rule, each with one of a few command lines.                             *)
EXTENDS CommandLine, TLC

CONSTANTS pdfFile, textFile, report, note, signer, verifier

MCDocuments == (pdfFile :> report) @@ (textFile :> note)

At(dir, name, ext) == [dir |-> dir, name |-> name, ext |-> ext]
Here(name) == At(".", name, "")
Base == [cmd |-> "sign", file |-> Here(textFile), out |-> None, original |-> None,
         profile |-> "auto", packaging |-> "detached", level |-> "b",
         pin |-> Pin, revocation |-> FALSE]

\* The defaults; an explicit output beside the document, and over it; a
\* wrong PIN; a raw signature.
SignInvocations ==
    {Base,
     [Base EXCEPT !.level = "t", !.out = At(".", textFile, ".xades")],
     [Base EXCEPT !.file = Here(pdfFile), !.out = Here(pdfFile)],
     [Base EXCEPT !.file = Here(pdfFile), !.level = "t"],
     [Base EXCEPT !.file = Here(pdfFile), !.pin = "wrong"],
     [Base EXCEPT !.cmd = "sign-raw", !.file = Here(pdfFile)]}

\* What a second process signs meanwhile: the same text, twice over.
OtherInvocations ==
    {[Base EXCEPT !.packaging = "enveloping"],
     [Base EXCEPT !.pin = "wrong"]}

\* Where the outputs are, with the original's path and without.
VerifyInvocations ==
    {[Base EXCEPT !.cmd = "verify", !.file = At("sign-out", textFile, ".xades")],
     [Base EXCEPT !.cmd = "verify", !.file = At("sign-out", textFile, ".xades"),
                  !.original = Here(textFile)],
     [Base EXCEPT !.cmd = "verify", !.file = At(".", textFile, ".xades")],
     [Base EXCEPT !.cmd = "verify", !.file = At("sign-out", pdfFile, ".signed"),
                  !.revocation = TRUE]}

MCPaths ==
    {Here(pdfFile), Here(textFile), At(".", textFile, ".xades"),
     At("sign-out", textFile, ".xades"), At("sign-out", pdfFile, ".signed"),
     At("sign-raw-out", pdfFile, ".sig")}

\* The third process verifies, or is one more that has a wrong PIN.
MCInvocations ==
    [c \in Commands |-> IF c = verifier
                        THEN VerifyInvocations \cup {[Base EXCEPT !.pin = "wrong"]}
                        ELSE IF c = signer THEN SignInvocations ELSE OtherInvocations]
=============================================================================
