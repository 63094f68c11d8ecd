SPECIFICATION Spec
CONSTANTS
    Commands = {signer, other, verifier}
    signer = signer
    verifier = verifier
    pdfFile = pdfFile
    textFile = textFile
    Names = {pdfFile, textFile}
    PdfNames = {pdfFile}
    Docs = {report, note}
    PdfDocs = {report}
    Pin = Pin
    MaxTries = 2
    MaxEdits = 1
    None = None
    Torn = Torn
    report = report
    note = note
    Documents <- MCDocuments
    Invocations <- MCInvocations
    Paths <- MCPaths
INVARIANTS TypeOK PinIsTriedOnce FailureLeavesFiles SuccessIsOnDisk VerdictIsEarned
CHECK_DEADLOCK FALSE
