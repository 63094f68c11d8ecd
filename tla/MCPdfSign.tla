----------------------------- MODULE MCPdfSign -----------------------------
(***************************************************************************)
(* PdfSign for TLC.  The first attempt has 6 digits of space; the CMS may  *)
(* need fewer, exactly as many, or more by different amounts.              *)
(***************************************************************************)
EXTENDS PdfSign

File(n, kind, items, runs) ==
    [length |-> n, xref |-> kind, ids |-> 4, items |-> items, runs |-> runs]

\* Runs of zeros shorter than the space, one as long as the base; a /Size
\* that is exact and one that leaves a number unused.
PlainInputs == {File(n, kind, items, runs) :
                    n \in {20, 31}, kind \in {"table", "stream"}, items \in {5, 6},
                    runs \in {{}, {[at |-> 3, len |-> 4]},
                              {[at |-> 3, len |-> 2], [at |-> 9, len |-> 5]}}}

\* A document whose older signature reserved more space than this one will.
PaddedInputs == {File(31, kind, 5, {[at |-> 3, len |-> n]}) :
                     kind \in {"table", "stream"}, n \in 5 .. 12}
=============================================================================
