------------------------------ MODULE PdfSign ------------------------------
(***************************************************************************)
(* SignPDF of internal/pades/pdfsign, which internal/sign/pades runs: the  *)
(* incremental update that adds a signature object, its annotation, a new  *)
(* catalog, a cross-reference section and a trailer to a copy of the       *)
(* input, fills in the byte range and then the CMS.  The space for the CMS *)
(* is a guess; a CMS that outgrows it makes SignPDF call itself with a     *)
(* larger one, on the same SignContext.                                    *)
(*                                                                         *)
(* A file is its length, the objects in it and where they start, and what  *)
(* its last cross-reference section and signature dictionary say.          *)
(***************************************************************************)
EXTENDS Integers, Sequences, FiniteSets

CONSTANTS
    Inputs,         \* the PDFs given to Sign, a subset of InputTypes
    InitialBase,    \* what Sign puts in SignatureMaxLengthBase
    Estimate,       \* what SignPDF adds for certificates, digests and the TSA
    CmsLengths,     \* the hex lengths createSignature may come back with
    Before, After,   \* the signature object around its zero-filled /Contents
    Piece           \* the length of every other piece SignPDF appends

(* length: in bytes.  xref: the kind of its last cross-reference section.  *)
(* ids: the highest object number in use.  items: the trailer's /Size.     *)
(* runs: where it has runs of the digit 0, an older signature's padding;   *)
(* none is at the start, which the reader wants to be %PDF.                *)
InputTypes == [length : Nat, xref : {"table", "stream"}, ids : Nat \ {0},
               items : Nat, runs : SUBSET [at : Nat \ {0}, len : Nat]]

ASSUME PdfAssumption ==
    /\ Inputs \subseteq InputTypes
    /\ \A f \in Inputs : f.items > f.ids
    /\ \A f \in Inputs : \A run \in f.runs : run.at + run.len <= f.length
    /\ InitialBase \in Nat \ {0} /\ Estimate \in Nat
    /\ CmsLengths \subseteq Nat /\ IsFiniteSet(CmsLengths)
    /\ Before \in Nat \ {0, 1} /\ After \in Nat \ {0, 1} /\ Piece \in Nat \ {0, 1}

VARIABLES
    input,      \* InputFile
    stage,      \* the next piece the innermost SignPDF writes
    calls,      \* the calls of SignPDF that have not returned
    base,       \* SignatureMaxLengthBase
    space,      \* SignatureMaxLength
    entries,    \* newXrefEntries: the offset of each object added
    buffer,     \* OutputBuffer
    output      \* OutputFile: the files written to it, one after another

vars == <<input, stage, calls, base, space, entries, buffer, output>>

Objects == [id : Nat, at : Nat, kind : {"signature", "annotation", "catalog", "xref"},
            refers : Nat]
Sections == UNION {[ids -> Nat] : ids \in SUBSET Nat}
Files == [length : Nat, objects : SUBSET Objects, slot : Nat, space : Nat,
          xref : Sections, root : Nat, size : Nat, from : Nat, to : Nat, end : Nat,
          cms : Nat]

\* A copy of an input, and the newline that follows its %%EOF.
CopyOf(f) == [length |-> f.length + 1, objects |-> {}, slot |-> 0, space |-> 0,
              xref |-> [id \in {} |-> 0], root |-> 0, size |-> 0, from |-> 0, to |-> 0,
              end |-> 0, cms |-> 0]

Init == /\ input \in Inputs
        /\ stage = "copy"
        /\ calls = 1
        /\ base = InitialBase
        /\ space = 0
        /\ entries = <<>>
        /\ buffer = CopyOf(input)
        /\ output = <<>>

\* getLastObjectIDFromXref: one past the highest number in use.
LastXrefID == input.ids + 1

\* addObject's number for the next object; an xref line's place is its number.
NextID == LastXrefID + Len(entries) + 1

-----------------------------------------------------------------------------
(* SignPDF, from its start to its trailer.                                 *)

\* A buffer with a piece appended, and with an object appended.
Appended(b, n) == [b EXCEPT !.length = @ + n]

WithObject(b, kind, refers, n) ==
    [Appended(b, n) EXCEPT
        !.objects = @ \cup {[id |-> NextID, at |-> b.length + 1,
                             kind |-> kind, refers |-> refers]}]

\* addObject: the object, and its offset under the next number.
AddObject(b, kind, refers, n) ==
    /\ buffer' = WithObject(b, kind, refers, n)
    /\ entries' = Append(entries, b.length + 1)

(* A fresh buffer with the input in it, and the space for the CMS.         *)
CopyInput ==
    /\ stage = "copy"
    /\ buffer' = CopyOf(input)
    /\ space' = base + Estimate
    /\ stage' = "signature"
    /\ UNCHANGED <<input, calls, base, entries, output>>

(* createSignaturePlaceholder: the dictionary around a run of zeros.       *)
AddSignature ==
    /\ stage = "signature"
    /\ AddObject([buffer EXCEPT !.slot = buffer.length + Before, !.space = space],
                 "signature", 0, Before + space + After)
    /\ stage' = "annotation"
    /\ UNCHANGED <<input, calls, base, space, output>>

\* The numbers of the objects of this pass, which addObject returned.
IDOf(kind) == (CHOOSE o \in buffer.objects : o.kind = kind).id

(* The invisible annotation, whose /V is the signature, then the catalog,  *)
(* whose AcroForm lists the annotation.                                    *)
AddAnnotation ==
    /\ stage = "annotation"
    /\ AddObject(buffer, "annotation", IDOf("signature"), Piece)
    /\ stage' = "catalog"
    /\ UNCHANGED <<input, calls, base, space, output>>

AddCatalog ==
    /\ stage = "catalog"
    /\ AddObject([buffer EXCEPT !.root = NextID], "catalog", IDOf("annotation"), Piece)
    /\ stage' = "xref"
    /\ UNCHANGED <<input, calls, base, space, output>>

\* The /Size both kinds of section announce.
NewSize == input.items + Len(entries) + 1

\* Mutation: the section is numbered from the highest number in use.
Section_Shifted ==
    [Appended(buffer, 1) EXCEPT
        !.xref = [id \in input.ids + 1 .. input.ids + Len(entries) |->
                     entries[id - input.ids]]]

\* writeXref: a newline, and one line per entry, from lastXrefID + 1 on.
Section ==
    [Appended(buffer, 1) EXCEPT
        !.xref = [id \in LastXrefID + 1 .. LastXrefID + Len(entries) |->
                     entries[id - LastXrefID]]]

WriteIncrXrefTable ==
    /\ input.xref = "table"
    /\ buffer' = Appended(Section, Piece)
    /\ UNCHANGED entries

(* A stream is an object itself, added after its lines and its /Size were  *)
(* made.                                                                   *)
WriteXrefStream ==
    /\ input.xref = "stream"
    /\ AddObject([Section EXCEPT !.size = NewSize], "xref", 0, Piece)

WriteXref ==
    /\ stage = "xref"
    /\ WriteIncrXrefTable \/ WriteXrefStream
    /\ stage' = "trailer"
    /\ UNCHANGED <<input, calls, base, space, output>>

\* Mutation: the new objects of this pass only.
WriteTrailer_OnePass ==
    /\ stage = "trailer"
    /\ buffer' = IF input.xref = "table"
                 THEN [Appended(buffer, Piece) EXCEPT !.size = input.items + 3 + 1]
                 ELSE Appended(buffer, Piece)
    /\ stage' = "range"
    /\ UNCHANGED <<input, calls, base, space, entries, output>>

WriteTrailer ==
    /\ stage = "trailer"
    /\ buffer' = IF input.xref = "table"
                 THEN [Appended(buffer, Piece) EXCEPT !.size = NewSize]
                 ELSE Appended(buffer, Piece)
    /\ stage' = "range"
    /\ UNCHANGED <<input, calls, base, space, entries, output>>

-----------------------------------------------------------------------------
(* The byte range and the CMS.                                             *)

\* The runs of at least n zeros in the buffer.
RunsOf(n) == {run \in input.runs \cup {[at |-> buffer.slot, len |-> space]} : run.len >= n}

\* bytes.Index: where the first of them starts.
FirstRun(n) == CHOOSE at \in {run.at : run \in RunsOf(n)} :
                   \A run \in RunsOf(n) : at <= run.at

\* Mutation: the run searched for is as long as the base.
UpdateByteRange_Base ==
    /\ stage = "range"
    /\ LET start == FirstRun(base) - 1
       IN buffer' = [buffer EXCEPT !.from = start, !.to = start + space + 2,
                                   !.end = buffer.length]
    /\ stage' = "sign"
    /\ UNCHANGED <<input, calls, base, space, entries, output>>

\* Mutation: the closing bracket of /Contents is left in the range's tail.
UpdateByteRange_Short ==
    /\ stage = "range"
    /\ LET start == FirstRun(space) - 1
       IN buffer' = [buffer EXCEPT !.from = start, !.to = start + space + 2,
                                   !.end = buffer.length - 1]
    /\ stage' = "sign"
    /\ UNCHANGED <<input, calls, base, space, entries, output>>

(* Everything but the first run of space zeros, and the two brackets       *)
(* around it.                                                              *)
UpdateByteRange ==
    /\ stage = "range"
    /\ LET start == FirstRun(space) - 1
       IN buffer' = [buffer EXCEPT !.from = start, !.to = start + space + 2,
                                   !.end = buffer.length]
    /\ stage' = "sign"
    /\ UNCHANGED <<input, calls, base, space, entries, output>>

\* Mutation: the base is not raised.
ReplaceSignature_SameBase(n) ==
    /\ stage = "sign"
    /\ IF n > space
       THEN /\ calls' = calls + 1
            /\ stage' = "copy"
            /\ UNCHANGED <<base, buffer>>
       ELSE /\ buffer' = [buffer EXCEPT !.cms = n]
            /\ stage' = "write"
            /\ UNCHANGED <<base, calls>>
    /\ UNCHANGED <<input, space, entries, output>>

\* Mutation: the lengths are subtracted the wrong way round.
ReplaceSignature_Swapped(n) ==
    /\ stage = "sign"
    /\ IF n > space
       THEN /\ base' = base + (space - n) + 1
            /\ calls' = calls + 1
            /\ stage' = "copy"
            /\ UNCHANGED buffer
       ELSE /\ buffer' = [buffer EXCEPT !.cms = n]
            /\ stage' = "write"
            /\ UNCHANGED <<base, calls>>
    /\ UNCHANGED <<input, space, entries, output>>

(* createSignature signs the range on the token and has it time-stamped;   *)
(* replaceSignature writes the n digits into the gap, or calls SignPDF     *)
(* again with the space they need.                                         *)
ReplaceSignature(n) ==
    /\ stage = "sign"
    /\ IF n > space
       THEN /\ base' = base + (n - space) + 1
            /\ calls' = calls + 1
            /\ stage' = "copy"
            /\ UNCHANGED buffer
       ELSE /\ buffer' = [buffer EXCEPT !.cms = n]
            /\ stage' = "write"
            /\ UNCHANGED <<base, calls>>
    /\ UNCHANGED <<input, space, entries, output>>

(* The end of SignPDF, in each call that has not returned: the innermost   *)
(* one first, then those whose replaceSignature returns what it returned.  *)
WriteOutput ==
    /\ stage = "write"
    /\ output' = Append(output, buffer)
    /\ calls' = calls - 1
    /\ stage' = IF calls = 1 THEN "done" ELSE "write"
    /\ UNCHANGED <<input, base, space, entries, buffer>>

(* A piece cannot be made, or the token or the authority fails: every call *)
(* returns the error and pades.Sign writes no file.                        *)
Fail ==
    /\ stage \notin {"write", "done", "failed"}
    /\ stage' = "failed"
    /\ UNCHANGED <<input, calls, base, space, entries, buffer, output>>

Next == \/ CopyInput \/ AddSignature \/ AddAnnotation \/ AddCatalog \/ WriteXref
        \/ WriteTrailer \/ UpdateByteRange
        \/ \E n \in CmsLengths : ReplaceSignature(n)
        \/ WriteOutput \/ Fail

Spec == Init /\ [][Next]_vars

-----------------------------------------------------------------------------
(* The type invariant.                                                     *)
TypeOK ==
    /\ input \in Inputs
    /\ stage \in {"copy", "signature", "annotation", "catalog", "xref", "trailer",
                  "range", "sign", "write", "done", "failed"}
    /\ calls \in Nat
    /\ base \in Nat /\ base >= InitialBase
    /\ space \in Nat
    /\ entries \in Seq(Nat)
    /\ buffer.objects \subseteq Objects
    /\ {buffer.length, buffer.slot, buffer.root, buffer.size, buffer.from,
        buffer.to, buffer.end, buffer.cms} \subseteq Nat

\* What a reader finds under a number: the object that starts where the last
\* cross-reference section says.
Found(f, id) == {o \in f.objects : id \in DOMAIN f.xref /\ o.at = f.xref[id]
                                     /\ o.id = id}

Delivered == {output[i] : i \in DOMAIN output}

(* A reader that follows the trailer finds the catalog, from it the field  *)
(* and from that the signature, however many passes it took: the numbers   *)
(* addObject gave out are the places of their lines (writeXref).           *)
SignatureIsReachable ==
    \A f \in Delivered :
        \E c \in Found(f, f.root) : \E a \in Found(f, c.refers) :
            \E s \in Found(f, a.refers) :
                /\ c.kind = "catalog" /\ a.kind = "annotation" /\ s.kind = "signature"
                /\ f.slot = s.at - 1 + Before

(* /Size is above every number the section lists, after a retry too        *)
(* (writeTrailer, writeXrefStreamHeader).                                  *)
SizeCoversIDs == \A f \in Delivered : \A id \in DOMAIN f.xref : id < f.size

(* The bytes left out of the signature are its own /Contents, brackets     *)
(* included, and the CMS fits in them (updateByteRange, replaceSignature). *)
GapIsContents ==
    \A f \in Delivered : /\ f.from = f.slot - 1
                         /\ f.to = f.slot + f.space + 1
                         /\ f.cms <= f.space

\* One file, and the byte range ends where it ends.
OneCoveredFile == Len(output) = 1 /\ output[1].end = output[1].length

(* A CMS that fits at the first attempt is delivered in one file, covered  *)
(* to its end.                                                             *)
FirstFitIsCovered == stage = "done" /\ base = InitialBase => OneCoveredFile

(* "Single /ByteRange covering the whole document": what pades.Sign        *)
(* delivers is one file, covered to its end.                               *)
AlwaysCovered == stage = "done" => OneCoveredFile

(* Every retry reserves more than the CMS before it needed, so that no     *)
(* length makes SignPDF call itself twice, and it returns (the base that   *)
(* replaceSignature raises).                                               *)
AttemptsAreBounded ==
    calls + Len(output) <=
        1 + Cardinality({n \in CmsLengths : n > InitialBase + Estimate})
=============================================================================
