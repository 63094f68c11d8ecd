--------------------------- MODULE PdfSignProofs ---------------------------
(***************************************************************************)
(* The incremental update of a PDF, for any inputs and any lengths of the  *)
(* CMS.  The invariant says what the pieces written so far make of the     *)
(* buffer, and how many retries the base still allows.                     *)
(***************************************************************************)
EXTENDS PdfSign, FiniteSetTheorems, TLAPS

\* An input whose runs of zeros are all shorter than the first space.
Unpadded(f) == \A run \in f.runs : run.len < InitialBase + Estimate

\* The parts of SignatureIsReachable, SizeCoversIDs and GapIsContents.
Reachable(f) ==
    \E c \in Found(f, f.root) : \E a \in Found(f, c.refers) : \E s \in Found(f, a.refers) :
        /\ c.kind = "catalog" /\ a.kind = "annotation" /\ s.kind = "signature"
        /\ f.slot = s.at - 1 + Before

Sized(f) == \A id \in DOMAIN f.xref : id < f.size

Gapped(f) == f.from = f.slot - 1 /\ f.to = f.slot + f.space + 1

\* What every file that is delivered satisfies.
Good(f) == /\ Reachable(f) /\ Sized(f) /\ f.end = f.length /\ f.cms <= f.space
           /\ Unpadded(input) => Gapped(f)

\* The lengths a raised base has room for and the first one had not.
Outgrown(b) == {n \in CmsLengths : InitialBase + Estimate < n /\ n < b + Estimate}

Typed == TypeOK /\ buffer \in Files /\ output \in Seq(Files)

(* Calls, files and the space that the base makes.                         *)
Attempts ==
    /\ stage \notin {"copy", "failed"} => space = base + Estimate
    /\ stage \notin {"write", "done"} => output = <<>>
    /\ stage \notin {"done", "failed"} => calls >= 1
    /\ base = InitialBase => calls + Len(output) = 1
    /\ stage = "done" => calls = 0
    /\ calls + Len(output) <= 1 + Cardinality(Outgrown(base))

(* An object's number is the place of its offset among the entries of all  *)
(* passes.                                                                 *)
Numbered ==
    \A o \in buffer.objects :
        /\ o.id \in LastXrefID + 1 .. LastXrefID + Len(entries)
        /\ entries[o.id - LastXrefID] = o.at

IsSignature(s) == s.kind = "signature" /\ buffer.slot = s.at - 1 + Before
IsAnnotation(a, s) == a.kind = "annotation" /\ a.refers = s.id
IsCatalog(c, a) == c.kind = "catalog" /\ c.refers = a.id /\ buffer.root = c.id

(* The objects of this pass, as far as they are written.                   *)
Built ==
    /\ stage = "signature" => buffer.objects = {}
    /\ stage = "annotation" => \E s \in buffer.objects : buffer.objects = {s} /\ IsSignature(s)
    /\ stage = "catalog" => \E s, a \in buffer.objects :
          buffer.objects = {s, a} /\ IsSignature(s) /\ IsAnnotation(a, s)
    /\ stage = "xref" => \E s, a, c \in buffer.objects :
          IsSignature(s) /\ IsAnnotation(a, s) /\ IsCatalog(c, a)

(* What the cross-reference section, the trailer, the byte range and the   *)
(* CMS have made of the buffer.                                            *)
Finished ==
    /\ stage \in {"trailer", "range", "sign", "write"} => Reachable(buffer)
    /\ stage = "trailer" =>
          IF input.xref = "table"
          THEN \A id \in DOMAIN buffer.xref : id <= LastXrefID + Len(entries)
          ELSE Sized(buffer)
    /\ stage \in {"range", "sign", "write"} => Sized(buffer)
    /\ stage \in {"annotation", "catalog", "xref", "trailer", "range", "sign", "write"} =>
          buffer.space = space /\ buffer.slot > 0
    /\ stage \in {"sign", "write"} =>
          /\ buffer.end = buffer.length
          /\ Unpadded(input) => Gapped(buffer)
    /\ stage = "write" => buffer.cms <= buffer.space
    /\ \A i \in DOMAIN output : Good(output[i])

IndInv == Typed /\ Attempts /\ Numbered /\ Built /\ Finished

-----------------------------------------------------------------------------
(* Files and objects.                                                      *)

(* Every set of naturals has a least element, so bytes.Index finds its run.*)
LEMMA Least ==
  ASSUME NEW T, T \subseteq Nat, T # {}
  PROVE  \E x \in T : \A y \in T : x <= y
<1> DEFINE Below(x) == {y \in T : y < x}
           Belows == {Below(x) : x \in T}
<1>1. Belows \subseteq FiniteSubsetsOf(Nat) /\ Belows # {}
  <2>1. \A x \in T : IsFiniteSet(Below(x))
    <3> TAKE x \in T
    <3> QED
      BY FS_BoundedSetOfNaturals
  <2> QED
    BY <2>1 DEF FiniteSubsetsOf
<1>2. PICK b \in Belows : \A c \in Belows : <<c, b>> \notin StrictSubsetOrdering(Nat)
  <2>1. IsWellFoundedOn(StrictSubsetOrdering(Nat), FiniteSubsetsOf(Nat))
    BY FS_StrictSubsetOrderingWellFounded
  <2> HIDE DEF Belows
  <2> QED
    BY <1>1, <2>1, WFMin
<1>3. PICK x \in T : b = Below(x)
  BY <1>2
<1>4. ASSUME NEW y \in T, y < x PROVE FALSE
  <2>1. <<Below(y), b>> \notin StrictSubsetOrdering(Nat)
    BY <1>2
  <2>2. x \in Nat /\ y \in Nat
    OBVIOUS
  <2>3. ASSUME NEW z \in T, z < y PROVE z < x
    BY <2>2, <2>3, <1>4
  <2>4. Below(y) \subseteq b
    BY <1>3, <2>3
  <2>5. y \in b /\ y \notin Below(y)
    BY <1>3, <1>4, <2>2
  <2>6. Below(y) \in SUBSET Nat /\ b \in SUBSET Nat
    BY <1>3
  <2> HIDE DEF Below
  <2> QED
    BY <2>1, <2>4, <2>5, <2>6 DEF StrictSubsetOrdering
<1> QED
  BY <1>4

(* What an input says of itself.                                           *)
LEMMA InputFacts ==
  ASSUME input \in Inputs
  PROVE  /\ input.length \in Nat /\ input.xref \in {"table", "stream"}
         /\ input.ids \in Nat \ {0} /\ input.items \in Nat /\ input.items > input.ids
         /\ \A run \in input.runs : run.at \in Nat \ {0} /\ run.len \in Nat
         /\ LastXrefID \in Nat /\ LastXrefID > 0 /\ LastXrefID <= input.items
  BY PdfAssumption DEF InputTypes, LastXrefID

(* A fresh copy of an input has no objects and an empty section.           *)
LEMMA CopyIsFile ==
  ASSUME NEW f, f.length \in Nat
  PROVE  CopyOf(f) \in Files
<1>1. [id \in {} |-> 0] \in [{} -> Nat]
  OBVIOUS
<1>2. [id \in {} |-> 0] \in Sections
  BY <1>1 DEF Sections
<1> QED
  BY <1>2 DEF CopyOf, Files

(* A file that grows by objects is a file.                                 *)
LEMMA Grown ==
  ASSUME NEW f \in Files, NEW n \in Nat, NEW objects \in SUBSET Objects
  PROVE  [f EXCEPT !.length = n, !.objects = objects] \in Files
  BY DEF Files

(* A file that grows otherwise keeps the rest.                             *)
LEMMA AppendedEffect ==
  ASSUME NEW f \in Files, NEW n \in Nat
  PROVE  /\ Appended(f, n) \in Files
         /\ Appended(f, n).objects = f.objects /\ Appended(f, n).slot = f.slot
         /\ Appended(f, n).space = f.space /\ Appended(f, n).root = f.root
         /\ Appended(f, n).xref = f.xref /\ Appended(f, n).size = f.size
<1>1. f.length + n \in Nat
  BY DEF Files
<1>2. [f EXCEPT !.length = f.length + n] \in Files
  BY <1>1 DEF Files
<1> QED
  BY <1>2 DEF Appended, Files

\* The object that addObject makes.
New(b, kind, refers) ==
    [id |-> NextID, at |-> b.length + 1, kind |-> kind, refers |-> refers]

(* addObject: the buffer grows by one object, and its number is the place  *)
(* of its offset.                                                          *)
LEMMA AddObjectEffect ==
  ASSUME Typed, Numbered,
         NEW b \in Files, b.objects = buffer.objects,
         NEW kind \in {"signature", "annotation", "catalog", "xref"},
         NEW refers \in Nat, NEW n \in Nat,
         AddObject(b, kind, refers, n), UNCHANGED input
  PROVE  /\ New(b, kind, refers) \in Objects
         /\ buffer' = [b EXCEPT !.length = b.length + n,
                                !.objects = b.objects \cup {New(b, kind, refers)}]
         /\ buffer' \in Files
         /\ entries' \in Seq(Nat) /\ Len(entries') = Len(entries) + 1
         /\ Numbered'
<1> DEFINE o == New(b, kind, refers)
<1>1. LastXrefID \in Nat /\ LastXrefID' = LastXrefID
  BY InputFacts DEF Typed, TypeOK, LastXrefID
<1>2. entries \in Seq(Nat) /\ Len(entries) \in Nat /\ b.length \in Nat
  BY DEF Typed, TypeOK, Files
<1>3. o \in Objects
  BY <1>1, <1>2 DEF New, NextID, Objects
<1>4. buffer' = [b EXCEPT !.length = b.length + n, !.objects = b.objects \cup {o}]
  BY DEF AddObject, WithObject, Appended, New, Files
<1>5. buffer' \in Files
  <2>1. b.objects \cup {o} \in SUBSET Objects
    BY <1>3 DEF Files
  <2>2. b.length + n \in Nat
    BY <1>2
  <2> QED
    BY <1>4, <2>1, <2>2, Grown
<1>6. /\ entries' = Append(entries, b.length + 1)
      /\ entries' \in Seq(Nat) /\ Len(entries') = Len(entries) + 1
  BY <1>2 DEF AddObject
<1>7. Numbered'
  <2> SUFFICES ASSUME NEW q \in buffer'.objects
               PROVE  /\ q.id \in LastXrefID + 1 .. LastXrefID + Len(entries')
                      /\ entries'[q.id - LastXrefID] = q.at
    BY <1>1 DEF Numbered
  <2>1. q \in buffer.objects \/ q = o
    BY <1>4 DEF Files
  <2>2. CASE q \in buffer.objects
    <3>1. /\ q.id \in LastXrefID + 1 .. LastXrefID + Len(entries)
          /\ entries[q.id - LastXrefID] = q.at
      BY <2>2 DEF Numbered
    <3>2. q.id - LastXrefID \in 1 .. Len(entries)
      BY <3>1, <1>1, <1>2
    <3> QED
      BY <3>1, <3>2, <1>1, <1>2, <1>6
  <2>3. CASE q = o
    <3>1. q.id = LastXrefID + (Len(entries) + 1) /\ q.at = b.length + 1
      BY <2>3, <1>1, <1>2 DEF New, NextID
    <3> QED
      BY <3>1, <1>1, <1>2, <1>6
  <2> QED
    BY <2>1, <2>2, <2>3
<1> QED
  BY <1>3, <1>4, <1>5, <1>6, <1>7

-----------------------------------------------------------------------------
(* From the copy of the input to the new catalog.                          *)

(* The lengths with room in a base are finitely many.                      *)
LEMMA OutgrownFinite ==
  ASSUME NEW b
  PROVE  IsFiniteSet(Outgrown(b)) /\ Cardinality(Outgrown(b)) \in Nat
<1>1. Outgrown(b) \in SUBSET CmsLengths /\ IsFiniteSet(CmsLengths)
  BY PdfAssumption DEF Outgrown
<1> QED
  BY <1>1, FS_Subset, FS_CardinalityType

(* SignPDF starts on an input, once.                                       *)
LEMMA InitHolds == Init => IndInv
<1> SUFFICES ASSUME Init PROVE IndInv
  OBVIOUS
<1>1. input \in Inputs /\ input.length \in Nat
  BY InputFacts DEF Init
<1>2. buffer \in Files
  BY <1>1, CopyIsFile DEF Init
<1>3. buffer.objects = {}
  BY DEF Init, CopyOf
<1>4. Typed
  <2>1. InitialBase \in Nat /\ base >= InitialBase
    BY PdfAssumption DEF Init
  <2>2. entries \in Seq(Nat) /\ output \in Seq(Files)
    BY DEF Init
  <2> QED
    BY <1>1, <1>2, <1>3, <2>1, <2>2 DEF Init, Typed, TypeOK, Files
<1>5. Attempts
  BY OutgrownFinite DEF Init, Attempts
<1>6. Numbered /\ Built /\ Finished
  BY <1>3 DEF Init, Numbered, Built, Finished
<1> QED
  BY <1>4, <1>5, <1>6 DEF IndInv

(* A piece is written: the calls, the base and the files stay.             *)
LEMMA AttemptsStay ==
  ASSUME Attempts, UNCHANGED <<calls, base, output>>,
         stage \notin {"write", "done", "failed"},
         stage' \notin {"copy", "write", "done", "failed"} => space' = base + Estimate,
         stage' \notin {"write", "done"}
  PROVE  Attempts' /\ \A i \in DOMAIN output' : Good(output[i])'
<1>1. output' = <<>>
  BY DEF Attempts
<1> QED
  BY <1>1 DEF Attempts

LEMMA CopyInputStep == IndInv /\ CopyInput => IndInv'
<1> SUFFICES ASSUME IndInv, CopyInput PROVE IndInv'
  OBVIOUS
<1>1. input' \in Inputs /\ input.length \in Nat
  BY InputFacts DEF IndInv, Typed, TypeOK, CopyInput
<1>2. buffer' \in Files
  BY <1>1, CopyIsFile DEF CopyInput
<1>3. buffer'.objects = {}
  BY DEF CopyInput, CopyOf
<1>4. Typed'
  <2>1. space' \in Nat
    BY PdfAssumption DEF IndInv, Typed, TypeOK, CopyInput
  <2> QED
    BY <1>1, <1>2, <2>1 DEF IndInv, Typed, TypeOK, Files, CopyInput
<1>5. Attempts' /\ \A i \in DOMAIN output' : Good(output[i])'
  BY AttemptsStay DEF IndInv, CopyInput
<1>6. Numbered' /\ Built' /\ Finished'
  BY <1>3, <1>5 DEF CopyInput, Numbered, Built, Finished
<1> QED
  BY <1>4, <1>5, <1>6 DEF IndInv

LEMMA AddSignatureStep == IndInv /\ AddSignature => IndInv'
<1> SUFFICES ASSUME IndInv, AddSignature PROVE IndInv'
  OBVIOUS
<1> DEFINE at == buffer.length + Before
           b == [buffer EXCEPT !.slot = at, !.space = space]
           s == New(b, "signature", 0)
<1>1. /\ Typed /\ Numbered /\ Attempts /\ buffer.objects = {} /\ space = base + Estimate
      /\ buffer \in Files /\ space \in Nat
  BY DEF IndInv, Typed, TypeOK, Built, Attempts, AddSignature
<1>2. /\ Before \in Nat /\ Before > 0 /\ After \in Nat /\ Before + space + After \in Nat
      /\ buffer.length \in Nat /\ at \in Nat /\ at > 0
  BY <1>1, PdfAssumption DEF Files
<1>3. /\ b \in Files /\ b.objects = buffer.objects /\ b.space = space
      /\ b.slot = at /\ b.length = buffer.length
  <2> HIDE DEF at
  <2> QED
    BY <1>1, <1>2 DEF Files
<1>4. /\ s \in Objects
      /\ buffer' = [b EXCEPT !.length = b.length + (Before + space + After),
                             !.objects = b.objects \cup {s}]
      /\ buffer' \in Files /\ entries' \in Seq(Nat) /\ Numbered'
  <2> HIDE DEF b
  <2>1. AddObject(b, "signature", 0, Before + space + After) /\ UNCHANGED input
    BY DEF AddSignature, b
  <2> QED
    BY <1>1, <1>2, <1>3, <2>1, AddObjectEffect
<1>5. /\ buffer'.objects = {s} /\ buffer'.space = space
      /\ buffer'.slot = at /\ buffer'.slot > 0
  <2> HIDE DEF b, s, at
  <2> QED
    BY <1>1, <1>2, <1>3, <1>4 DEF Files
<1>6. s.kind = "signature" /\ s.at - 1 = buffer.length
  <2> HIDE DEF b
  <2> QED
    BY <1>2, <1>3 DEF New
<1>7. Typed'
  BY <1>4 DEF IndInv, Typed, TypeOK, Files, AddSignature
<1>8. Attempts' /\ \A i \in DOMAIN output' : Good(output[i])'
  BY <1>1, AttemptsStay DEF AddSignature
<1>9. Built'
  <2> HIDE DEF s, b
  <2> QED
    BY <1>5, <1>6 DEF AddSignature, Built, IsSignature
<1>10. Finished'
  BY <1>5, <1>8 DEF AddSignature, Finished
<1> QED
  BY <1>4, <1>7, <1>8, <1>9, <1>10 DEF IndInv

LEMMA AddAnnotationStep == IndInv /\ AddAnnotation => IndInv'
<1> SUFFICES ASSUME IndInv, AddAnnotation PROVE IndInv'
  OBVIOUS
<1>1. /\ Typed /\ Numbered /\ Attempts /\ Built /\ space = base + Estimate
      /\ buffer \in Files /\ Piece \in Nat /\ stage = "annotation"
      /\ buffer.space = space /\ buffer.slot > 0
  BY PdfAssumption DEF IndInv, Typed, Attempts, Finished, AddAnnotation
<1>2. PICK s \in buffer.objects : buffer.objects = {s} /\ IsSignature(s)
  BY <1>1 DEF Built
<1>3. IDOf("signature") = s.id /\ s.id \in Nat
  <2>1. s \in Objects
    BY <1>1, <1>2 DEF Files
  <2> QED
    BY <1>2, <2>1 DEF IDOf, IsSignature, Objects
<1> DEFINE a == New(buffer, "annotation", s.id)
<1>4. /\ a \in Objects
      /\ buffer' = [buffer EXCEPT !.length = buffer.length + Piece,
                                  !.objects = buffer.objects \cup {a}]
      /\ buffer' \in Files /\ entries' \in Seq(Nat) /\ Numbered'
  <2>1. AddObject(buffer, "annotation", s.id, Piece) /\ UNCHANGED input
    BY <1>3 DEF AddAnnotation
  <2> QED
    BY <1>1, <1>3, <2>1, AddObjectEffect
<1>5. /\ buffer'.objects = {s, a} /\ buffer'.space = space /\ buffer'.slot = buffer.slot
  BY <1>1, <1>2, <1>4 DEF Files
<1>6. a.kind = "annotation" /\ a.refers = s.id
  BY DEF New
<1>7. Typed'
  BY <1>4 DEF IndInv, Typed, TypeOK, Files, AddAnnotation
<1>8. Attempts' /\ \A i \in DOMAIN output' : Good(output[i])'
  BY <1>1, AttemptsStay DEF AddAnnotation
<1>9. Built'
  <2> HIDE DEF a
  <2> QED
    BY <1>2, <1>5, <1>6 DEF AddAnnotation, Built, IsSignature, IsAnnotation
<1>10. Finished'
  BY <1>1, <1>5, <1>8 DEF AddAnnotation, Finished
<1> QED
  BY <1>4, <1>7, <1>8, <1>9, <1>10 DEF IndInv

LEMMA AddCatalogStep == IndInv /\ AddCatalog => IndInv'
<1> SUFFICES ASSUME IndInv, AddCatalog PROVE IndInv'
  OBVIOUS
<1>1. /\ Typed /\ Numbered /\ Attempts /\ Built /\ space = base + Estimate
      /\ buffer \in Files /\ Piece \in Nat /\ stage = "catalog"
      /\ buffer.space = space /\ buffer.slot > 0
  BY PdfAssumption DEF IndInv, Typed, Attempts, Finished, AddCatalog
<1>2. PICK s, a \in buffer.objects :
          buffer.objects = {s, a} /\ IsSignature(s) /\ IsAnnotation(a, s)
  BY <1>1 DEF Built
<1>3. IDOf("annotation") = a.id /\ a.id \in Nat
  <2>1. a \in Objects
    BY <1>1, <1>2 DEF Files
  <2> QED
    BY <1>2, <2>1 DEF IDOf, IsSignature, IsAnnotation, Objects
<1> DEFINE b == [buffer EXCEPT !.root = NextID]
           c == New(b, "catalog", a.id)
<1>4. NextID \in Nat /\ b \in Files /\ b.objects = buffer.objects
  <2>1. NextID \in Nat
    BY <1>1, InputFacts DEF Typed, TypeOK, NextID
  <2> QED
    BY <1>1, <2>1 DEF Files
<1>5. /\ c \in Objects
      /\ buffer' = [b EXCEPT !.length = b.length + Piece, !.objects = b.objects \cup {c}]
      /\ buffer' \in Files /\ entries' \in Seq(Nat) /\ Numbered'
  <2>1. AddObject(b, "catalog", a.id, Piece) /\ UNCHANGED input
    BY <1>3 DEF AddCatalog
  <2> HIDE DEF b
  <2> QED
    BY <1>1, <1>3, <1>4, <2>1, AddObjectEffect
<1>6. /\ {s, a, c} \subseteq buffer'.objects /\ buffer'.space = space
      /\ buffer'.slot = buffer.slot /\ buffer'.root = NextID
  BY <1>1, <1>2, <1>5 DEF Files
<1>7. c.kind = "catalog" /\ c.refers = a.id /\ c.id = NextID
  BY DEF New
<1>8. Typed'
  BY <1>5 DEF IndInv, Typed, TypeOK, Files, AddCatalog
<1>9. Attempts' /\ \A i \in DOMAIN output' : Good(output[i])'
  BY <1>1, AttemptsStay DEF AddCatalog
<1>10. Built'
  <2> HIDE DEF c, b
  <2> QED
    BY <1>2, <1>6, <1>7 DEF AddCatalog, Built, IsSignature, IsAnnotation, IsCatalog
<1>11. Finished'
  BY <1>1, <1>6, <1>9 DEF AddCatalog, Finished
<1> QED
  BY <1>5, <1>8, <1>9, <1>10, <1>11 DEF IndInv

-----------------------------------------------------------------------------
(* The cross-reference section and the trailer.                            *)

(* The section lists each object that has been added under its number.     *)
LEMMA SectionEffect ==
  ASSUME Typed
  PROVE  /\ Section \in Files /\ Section.objects = buffer.objects
         /\ Section.slot = buffer.slot /\ Section.space = buffer.space
         /\ Section.root = buffer.root
         /\ DOMAIN Section.xref = LastXrefID + 1 .. LastXrefID + Len(entries)
         /\ \A id \in DOMAIN Section.xref : Section.xref[id] = entries[id - LastXrefID]
<1> DEFINE lines == [id \in LastXrefID + 1 .. LastXrefID + Len(entries) |->
                        entries[id - LastXrefID]]
<1>1. LastXrefID \in Nat /\ entries \in Seq(Nat) /\ Len(entries) \in Nat /\ buffer \in Files
  BY InputFacts DEF Typed, TypeOK
<1>2. lines \in [LastXrefID + 1 .. LastXrefID + Len(entries) -> Nat]
  <2> SUFFICES ASSUME NEW id \in LastXrefID + 1 .. LastXrefID + Len(entries)
               PROVE  entries[id - LastXrefID] \in Nat
    OBVIOUS
  <2>1. id - LastXrefID \in 1 .. Len(entries)
    BY <1>1
  <2> QED
    BY <1>1, <2>1
<1>3. LastXrefID + 1 .. LastXrefID + Len(entries) \in SUBSET Nat
  BY <1>1
<1>4. lines \in Sections
  BY <1>2, <1>3 DEF Sections
<1> DEFINE b == Appended(buffer, 1)
<1>5. Section = [b EXCEPT !.xref = lines]
  BY DEF Section
<1>6. /\ b \in Files /\ b.objects = buffer.objects /\ b.slot = buffer.slot
      /\ b.space = buffer.space /\ b.root = buffer.root
  BY <1>1, AppendedEffect
<1>7. Section \in Files /\ Section.xref = lines /\ Section.objects = buffer.objects
      /\ Section.slot = buffer.slot /\ Section.space = buffer.space
      /\ Section.root = buffer.root
  <2> HIDE DEF lines, b
  <2> QED
    BY <1>4, <1>5, <1>6 DEF Files
<1> QED
  BY <1>7

(* A signature that a listed annotation of a listed catalog names is       *)
(* reachable.                                                              *)
LEMMA ChainIsReachable ==
  ASSUME NEW f, NEW s \in f.objects, NEW a \in f.objects, NEW c \in f.objects,
         s.kind = "signature", a.kind = "annotation", c.kind = "catalog",
         f.root = c.id, c.refers = a.id, a.refers = s.id, f.slot = s.at - 1 + Before,
         \A o \in {s, a, c} : o.id \in DOMAIN f.xref /\ o.at = f.xref[o.id]
  PROVE  Reachable(f)
<1>1. c \in Found(f, f.root) /\ a \in Found(f, c.refers) /\ s \in Found(f, a.refers)
  BY DEF Found
<1> QED
  BY <1>1 DEF Reachable

(* What a reader finds depends on these fields only.                       *)
LEMMA ReachableStays ==
  ASSUME NEW f, NEW g, Reachable(f),
         g.objects = f.objects, g.xref = f.xref, g.root = f.root, g.slot = f.slot
  PROVE  Reachable(g)
  BY DEF Reachable, Found

LEMMA WriteXrefStep == IndInv /\ WriteXref => IndInv'
<1> SUFFICES ASSUME IndInv, WriteXref PROVE IndInv'
  OBVIOUS
<1>1. /\ Typed /\ Numbered /\ Attempts /\ Built /\ space = base + Estimate
      /\ buffer \in Files /\ Piece \in Nat /\ stage = "xref"
      /\ buffer.space = space /\ buffer.slot > 0
  BY PdfAssumption DEF IndInv, Typed, Attempts, Finished, WriteXref
<1>2. PICK s, a, c \in buffer.objects : IsSignature(s) /\ IsAnnotation(a, s) /\ IsCatalog(c, a)
  BY <1>1 DEF Built
<1>3. /\ LastXrefID \in Nat /\ LastXrefID <= input.items /\ input.items \in Nat
      /\ Len(entries) \in Nat /\ LastXrefID' = LastXrefID
  BY <1>1, InputFacts DEF Typed, TypeOK, LastXrefID, WriteXref
<1>4. /\ Typed' /\ Numbered'
      /\ buffer.objects \subseteq buffer'.objects /\ buffer'.slot = buffer.slot
      /\ buffer'.space = buffer.space /\ buffer'.root = buffer.root
      /\ buffer'.xref = Section.xref
      /\ IF input.xref = "table" THEN Len(entries') = Len(entries)
                                 ELSE buffer'.size = input.items + Len(entries) + 1
  <2>1. CASE WriteIncrXrefTable
    <3>1. buffer' = Appended(Section, Piece)
      BY <2>1 DEF WriteIncrXrefTable
    <3>2. /\ buffer' \in Files /\ buffer'.objects = buffer.objects
          /\ buffer'.slot = buffer.slot /\ buffer'.space = buffer.space
          /\ buffer'.root = buffer.root /\ buffer'.xref = Section.xref
      BY <1>1, <3>1, SectionEffect, AppendedEffect
    <3>3. Numbered'
      BY <1>1, <1>3, <2>1, <3>2 DEF Numbered, WriteIncrXrefTable
    <3>4. Typed'
      BY <1>1, <2>1, <3>2 DEF Typed, TypeOK, Files, WriteXref, WriteIncrXrefTable
    <3> QED
      BY <2>1, <3>2, <3>3, <3>4 DEF WriteIncrXrefTable
  <2>2. CASE WriteXrefStream
    <3> DEFINE b == [Section EXCEPT !.size = NewSize]
    <3>1. NewSize \in Nat
      BY <1>3 DEF NewSize
    <3>2. /\ b \in Files /\ b.objects = buffer.objects /\ b.slot = buffer.slot
          /\ b.space = buffer.space /\ b.root = buffer.root /\ b.xref = Section.xref
          /\ b.size = NewSize
      <4> HIDE DEF Section
      <4> QED
        BY <1>1, <3>1, SectionEffect DEF Files
    <3>3. AddObject(b, "xref", 0, Piece) /\ UNCHANGED input /\ input.xref = "stream"
      BY <2>2 DEF WriteXrefStream, WriteXref
    <3> HIDE DEF b
    <3>4. /\ buffer' = [b EXCEPT !.length = b.length + Piece,
                                 !.objects = b.objects \cup {New(b, "xref", 0)}]
          /\ buffer' \in Files /\ entries' \in Seq(Nat) /\ Numbered'
      BY <1>1, <3>2, <3>3, AddObjectEffect
    <3>5. /\ buffer.objects \subseteq buffer'.objects /\ buffer'.slot = buffer.slot
          /\ buffer'.space = buffer.space /\ buffer'.root = buffer.root
          /\ buffer'.xref = Section.xref /\ buffer'.size = NewSize
      BY <3>2, <3>4 DEF Files
    <3>6. Typed'
      BY <1>1, <3>4 DEF Typed, TypeOK, Files, WriteXref
    <3> QED
      BY <3>3, <3>4, <3>5, <3>6 DEF NewSize
  <2> QED
    BY <2>1, <2>2 DEF WriteXref
<1>5. \A o \in {s, a, c} : o.id \in DOMAIN buffer'.xref /\ o.at = buffer'.xref[o.id]
  BY <1>1, <1>4, SectionEffect DEF Numbered
<1>6. Reachable(buffer')
  <2>1. /\ {s, a, c} \subseteq buffer'.objects
        /\ s.kind = "signature" /\ a.kind = "annotation" /\ c.kind = "catalog"
        /\ buffer'.root = c.id /\ c.refers = a.id /\ a.refers = s.id
        /\ buffer'.slot = s.at - 1 + Before
    BY <1>2, <1>4 DEF IsSignature, IsAnnotation, IsCatalog
  <2> QED
    BY <1>5, <2>1, ChainIsReachable
<1>7. IF input.xref = "table"
      THEN \A id \in DOMAIN buffer'.xref : id <= LastXrefID + Len(entries')
      ELSE Sized(buffer')
  BY <1>1, <1>3, <1>4, SectionEffect DEF Sized
<1>8. Attempts' /\ \A i \in DOMAIN output' : Good(output[i])'
  BY <1>1, AttemptsStay DEF WriteXref
<1>9. Built' /\ Finished'
  BY <1>1, <1>3, <1>4, <1>6, <1>7, <1>8 DEF WriteXref, Built, Finished, Reachable, Sized
<1> QED
  BY <1>4, <1>8, <1>9 DEF IndInv

LEMMA WriteTrailerStep == IndInv /\ WriteTrailer => IndInv'
<1> SUFFICES ASSUME IndInv, WriteTrailer PROVE IndInv'
  OBVIOUS
<1>1. /\ Typed /\ Numbered /\ Attempts /\ space = base + Estimate
      /\ buffer \in Files /\ Piece \in Nat /\ stage = "trailer"
      /\ buffer.space = space /\ buffer.slot > 0 /\ Reachable(buffer)
  BY PdfAssumption DEF IndInv, Typed, Attempts, Finished, WriteTrailer
<1>2. /\ LastXrefID \in Nat /\ LastXrefID <= input.items /\ input.items \in Nat
      /\ Len(entries) \in Nat /\ LastXrefID' = LastXrefID
  BY <1>1, InputFacts DEF Typed, TypeOK, LastXrefID, WriteTrailer
<1>3. NewSize \in Nat
  BY <1>2 DEF NewSize
<1>4. /\ buffer' \in Files /\ buffer'.objects = buffer.objects /\ buffer'.slot = buffer.slot
      /\ buffer'.space = buffer.space /\ buffer'.root = buffer.root
      /\ buffer'.xref = buffer.xref
      /\ buffer'.size = IF input.xref = "table" THEN NewSize ELSE buffer.size
  <2> DEFINE b == Appended(buffer, Piece)
  <2>1. /\ b \in Files /\ b.objects = buffer.objects /\ b.slot = buffer.slot
        /\ b.space = buffer.space /\ b.root = buffer.root /\ b.xref = buffer.xref
        /\ b.size = buffer.size
    BY <1>1, AppendedEffect
  <2>2. buffer' = IF input.xref = "table" THEN [b EXCEPT !.size = NewSize] ELSE b
    BY DEF WriteTrailer
  <2> HIDE DEF b
  <2> QED
    BY <1>3, <2>1, <2>2 DEF Files
<1>5. Reachable(buffer')
  BY <1>1, <1>4, ReachableStays
<1>6. Sized(buffer')
  <2>1. DOMAIN buffer.xref \subseteq Nat
    BY <1>1 DEF Files, Sections
  <2>2. CASE input.xref = "table"
    <3>1. \A id \in DOMAIN buffer.xref : id <= LastXrefID + Len(entries)
      BY <1>1, <2>2 DEF IndInv, Finished
    <3> QED
      BY <1>2, <1>4, <2>1, <2>2, <3>1 DEF Sized, NewSize
  <2>3. CASE input.xref # "table"
    BY <1>1, <1>4, <2>3 DEF IndInv, Finished, Sized
  <2> QED
    BY <2>2, <2>3
<1>7. Typed'
  BY <1>1, <1>4 DEF Typed, TypeOK, Files, WriteTrailer
<1>8. Numbered'
  BY <1>1, <1>2, <1>4 DEF Numbered, WriteTrailer
<1>9. Attempts' /\ \A i \in DOMAIN output' : Good(output[i])'
  BY <1>1, AttemptsStay DEF WriteTrailer
<1>10. Built' /\ Finished'
  BY <1>1, <1>4, <1>5, <1>6, <1>9 DEF WriteTrailer, Built, Finished, Reachable, Sized
<1> QED
  BY <1>7, <1>8, <1>9, <1>10 DEF IndInv

-----------------------------------------------------------------------------
(* The byte range, the CMS and the retries.                                *)

(* bytes.Index finds a run that does not start the file, and without older *)
(* padding the signature's own.                                            *)
LEMMA FirstRunFound ==
  ASSUME Typed, buffer.slot > 0, space >= InitialBase + Estimate
  PROVE  /\ FirstRun(space) \in Nat \ {0}
         /\ Unpadded(input) => FirstRun(space) = buffer.slot
<1> DEFINE starts == {run.at : run \in RunsOf(space)}
           own == [at |-> buffer.slot, len |-> space]
<1>1. buffer.slot \in Nat \ {0} /\ space \in Nat /\ InitialBase + Estimate \in Nat
  BY PdfAssumption DEF Typed, TypeOK, Files
<1>2. \A run \in input.runs : run.at \in Nat \ {0} /\ run.len \in Nat
  BY InputFacts DEF Typed, TypeOK
<1>3. starts \subseteq Nat \ {0}
  BY <1>1, <1>2 DEF RunsOf
<1>4. own \in RunsOf(space) /\ own.at = buffer.slot
  BY <1>1 DEF RunsOf
<1>5. starts # {}
  BY <1>4
<1>6. FirstRun(space) \in starts
  <2>1. \E at \in starts : \A other \in starts : at <= other
    <3> HIDE DEF starts
    <3> QED
      BY <1>3, <1>5, Least
  <2>2. \E at \in starts : \A run \in RunsOf(space) : at <= run.at
    BY <2>1
  <2> QED
    BY <2>2 DEF FirstRun
<1>7. ASSUME Unpadded(input) PROVE FirstRun(space) = buffer.slot
  <2>1. \A run \in RunsOf(space) : run = own
    BY <1>1, <1>2, <1>7 DEF Unpadded, RunsOf
  <2>2. starts = {buffer.slot}
    BY <1>4, <2>1
  <2> QED
    BY <1>6, <2>2
<1> QED
  BY <1>3, <1>6, <1>7

LEMMA UpdateByteRangeStep == IndInv /\ UpdateByteRange => IndInv'
<1> SUFFICES ASSUME IndInv, UpdateByteRange PROVE IndInv'
  OBVIOUS
<1>1. /\ Typed /\ Numbered /\ Attempts /\ space = base + Estimate /\ buffer \in Files
      /\ stage = "range" /\ buffer.space = space /\ buffer.slot > 0
      /\ Reachable(buffer) /\ Sized(buffer)
  BY DEF IndInv, Typed, Attempts, Finished, UpdateByteRange
<1> DEFINE start == FirstRun(space) - 1
           tail == start + space + 2
<1>2. /\ start \in Nat /\ tail \in Nat /\ space \in Nat /\ buffer.length \in Nat
      /\ Unpadded(input) => start = buffer.slot - 1 /\ tail = buffer.slot + space + 1
  <2>1. space \in Nat /\ space >= InitialBase + Estimate
    BY <1>1, PdfAssumption DEF Typed, TypeOK
  <2>2. buffer.slot \in Nat /\ buffer.length \in Nat
    BY <1>1 DEF Files
  <2> QED
    BY <1>1, <2>1, <2>2, FirstRunFound
<1>3. buffer' = [buffer EXCEPT !.from = start, !.to = tail, !.end = buffer.length]
  BY DEF UpdateByteRange
<1>4. /\ buffer' \in Files /\ buffer'.objects = buffer.objects /\ buffer'.slot = buffer.slot
      /\ buffer'.space = buffer.space /\ buffer'.root = buffer.root
      /\ buffer'.xref = buffer.xref /\ buffer'.size = buffer.size
      /\ buffer'.end = buffer'.length /\ buffer'.from = start /\ buffer'.to = tail
  <2> HIDE DEF start, tail
  <2> QED
    BY <1>1, <1>2, <1>3 DEF Files
<1>5. Reachable(buffer') /\ Sized(buffer')
  BY <1>1, <1>4, ReachableStays DEF Sized
<1>6. Unpadded(input) => Gapped(buffer')
  <2> HIDE DEF start, tail
  <2> QED
    BY <1>1, <1>2, <1>4 DEF Gapped
<1>7. Typed'
  BY <1>1, <1>4 DEF Typed, TypeOK, Files, UpdateByteRange
<1>8. Numbered'
  BY <1>1, <1>4 DEF Numbered, UpdateByteRange, LastXrefID
<1>9. Attempts' /\ \A i \in DOMAIN output' : Good(output[i])'
  BY <1>1, AttemptsStay DEF UpdateByteRange
<1>10. Built' /\ Finished'
  BY <1>1, <1>4, <1>5, <1>6, <1>9
     DEF UpdateByteRange, Built, Finished, Reachable, Sized, Gapped, Unpadded
<1> QED
  BY <1>7, <1>8, <1>9, <1>10 DEF IndInv

(* A retry raises the base past one more of the lengths that the first     *)
(* space had no room for.                                                  *)
LEMMA RetryOutgrows ==
  ASSUME NEW b \in Nat, b >= InitialBase, NEW n \in CmsLengths, n > b + Estimate,
         NEW c \in Nat, c + Estimate = n + 1
  PROVE  c > InitialBase /\ Cardinality(Outgrown(c)) >= Cardinality(Outgrown(b)) + 1
<1>1. InitialBase \in Nat /\ Estimate \in Nat /\ CmsLengths \subseteq Nat /\ n \in Nat
  BY PdfAssumption
<1>2. n \notin Outgrown(b) /\ Outgrown(b) \cup {n} \subseteq Outgrown(c) /\ c > InitialBase
  <2>1. c > b /\ c > InitialBase /\ n > InitialBase + Estimate /\ n < c + Estimate
    BY <1>1
  <2>2. ASSUME NEW m \in CmsLengths, m < b + Estimate PROVE m < c + Estimate
    <3>1. m \in Nat
      BY <1>1
    <3> QED
      BY <1>1, <2>1, <2>2, <3>1
  <2>3. Outgrown(b) \subseteq Outgrown(c)
    BY <2>2 DEF Outgrown
  <2>4. n \in Outgrown(c)
    BY <2>1 DEF Outgrown
  <2>5. n \notin Outgrown(b)
    BY <1>1 DEF Outgrown
  <2> QED
    BY <2>1, <2>3, <2>4, <2>5
<1>3. Cardinality(Outgrown(b) \cup {n}) = Cardinality(Outgrown(b)) + 1
  BY <1>2, OutgrownFinite, FS_AddElement
<1>4. Cardinality(Outgrown(b) \cup {n}) <= Cardinality(Outgrown(c))
  BY <1>2, OutgrownFinite, FS_Subset
<1> QED
  BY <1>2, <1>3, <1>4, OutgrownFinite

LEMMA ReplaceSignatureStep ==
  ASSUME IndInv, NEW n \in CmsLengths, ReplaceSignature(n)
  PROVE  IndInv'
<1>1. /\ Typed /\ Numbered /\ Attempts /\ Finished /\ space = base + Estimate
      /\ buffer \in Files /\ stage = "sign" /\ output = <<>>
      /\ UNCHANGED <<input, space, entries, output>>
  BY DEF IndInv, Typed, Attempts, ReplaceSignature
<1>2. /\ n \in Nat /\ base \in Nat /\ base >= InitialBase /\ space \in Nat /\ calls \in Nat
      /\ Estimate \in Nat /\ InitialBase \in Nat
  BY <1>1, PdfAssumption DEF Typed, TypeOK
<1>3. CASE n > space
  <2>1. /\ base' = base + (n - space) + 1 /\ calls' = calls + 1 /\ stage' = "copy"
        /\ UNCHANGED buffer
    BY <1>3 DEF ReplaceSignature
  <2>2. base' \in Nat /\ base' + Estimate = n + 1
    BY <1>1, <1>2, <1>3, <2>1
  <2>3. /\ base' > InitialBase
        /\ Cardinality(Outgrown(base')) >= Cardinality(Outgrown(base)) + 1
    BY <1>1, <1>2, <1>3, <2>2, RetryOutgrows
  <2>4. Typed'
    BY <1>1, <1>2, <2>1, <2>2, <2>3 DEF Typed, TypeOK
  <2>5. Cardinality(Outgrown(base')) \in Nat /\ Cardinality(Outgrown(base)) \in Nat
    BY OutgrownFinite
  <2>6. Attempts'
    <3>1. calls + Len(output) <= 1 + Cardinality(Outgrown(base)) /\ Len(output) = 0
          /\ calls >= 1
      BY <1>1 DEF Attempts
    <3>2. calls' + Len(output') <= 1 + Cardinality(Outgrown(base'))
      BY <1>1, <1>2, <2>1, <2>3, <2>5, <3>1
    <3> QED
      BY <1>1, <1>2, <2>1, <2>3, <3>1, <3>2 DEF Attempts, Outgrown
  <2>7. Numbered' /\ Built' /\ Finished'
    BY <1>1, <2>1 DEF Numbered, Built, Finished, LastXrefID
  <2> QED
    BY <2>4, <2>6, <2>7 DEF IndInv
<1>4. CASE ~(n > space)
  <2>1. buffer' = [buffer EXCEPT !.cms = n] /\ stage' = "write" /\ UNCHANGED <<base, calls>>
    BY <1>4 DEF ReplaceSignature
  <2>2. /\ buffer' \in Files /\ buffer'.objects = buffer.objects
        /\ buffer'.slot = buffer.slot /\ buffer'.space = buffer.space
        /\ buffer'.root = buffer.root /\ buffer'.xref = buffer.xref
        /\ buffer'.size = buffer.size /\ buffer'.end = buffer.end
        /\ buffer'.length = buffer.length /\ buffer'.from = buffer.from
        /\ buffer'.to = buffer.to /\ buffer'.cms = n
    BY <1>1, <1>2, <2>1 DEF Files
  <2>3. Reachable(buffer)
    BY <1>1 DEF Finished
  <2>4. Reachable(buffer')
    BY <2>2, <2>3, ReachableStays
  <2>5. Typed'
    BY <1>1, <2>1, <2>2 DEF Typed, TypeOK, Files
  <2>6. Attempts'
    BY <1>1, <2>1 DEF Attempts, Outgrown
  <2>7. Numbered' /\ Built'
    BY <1>1, <2>1, <2>2 DEF Numbered, Built, LastXrefID
  <2>8. buffer.space = space /\ n <= space
    BY <1>1, <1>2, <1>4 DEF Finished
  <2>9. Finished'
    <3>1. \A i \in DOMAIN output' : Good(output[i])'
      BY <1>1
    <3>2. /\ buffer'.end = buffer'.length /\ Sized(buffer')
          /\ Unpadded(input) => Gapped(buffer')
          /\ buffer'.slot > 0 /\ buffer'.space = space /\ buffer'.cms <= buffer'.space
      BY <1>1, <2>2, <2>8 DEF Finished, Sized, Gapped
    <3> QED
      BY <1>1, <2>1, <2>4, <3>1, <3>2 DEF Finished, Reachable, Sized, Gapped, Unpadded
  <2> QED
    BY <2>5, <2>6, <2>7, <2>9 DEF IndInv
<1> QED
  BY <1>3, <1>4

LEMMA WriteOutputStep == IndInv /\ WriteOutput => IndInv'
<1> SUFFICES ASSUME IndInv, WriteOutput PROVE IndInv'
  OBVIOUS
<1>1. /\ Typed /\ Numbered /\ Attempts /\ Finished /\ buffer \in Files
      /\ output \in Seq(Files) /\ stage = "write" /\ calls \in Nat /\ calls >= 1
      /\ output' = Append(output, buffer) /\ calls' = calls - 1
      /\ stage' = IF calls = 1 THEN "done" ELSE "write"
      /\ UNCHANGED <<input, base, space, entries, buffer>>
  BY DEF IndInv, Typed, TypeOK, Attempts, WriteOutput
<1>2. /\ output' \in Seq(Files) /\ Len(output') = Len(output) + 1 /\ Len(output) \in Nat
      /\ DOMAIN output' = 1 .. Len(output) + 1 /\ DOMAIN output = 1 .. Len(output)
      /\ \A i \in DOMAIN output' : output'[i] = IF i \in DOMAIN output THEN output[i]
                                                                      ELSE buffer
  BY <1>1
<1>3. Good(buffer)
  BY <1>1 DEF Finished, Good
<1>4. \A i \in DOMAIN output' : Good(output[i])'
  <2> SUFFICES ASSUME NEW i \in DOMAIN output' PROVE Good(output[i])'
    OBVIOUS
  <2>1. CASE i \in DOMAIN output
    <3>1. Good(output[i]) /\ output'[i] = output[i]
      BY <1>1, <1>2, <2>1 DEF Finished
    <3> QED
      BY <1>1, <3>1 DEF Good, Reachable, Found, Sized, Gapped, Unpadded
  <2>2. CASE i \notin DOMAIN output
    <3>1. output'[i] = buffer
      BY <1>2, <2>2
    <3> QED
      BY <1>1, <1>3, <3>1 DEF Good, Reachable, Found, Sized, Gapped, Unpadded
  <2> QED
    BY <2>1, <2>2
<1>5. Typed'
  BY <1>1, <1>2 DEF Typed, TypeOK
<1>6. Attempts'
  BY <1>1, <1>2, OutgrownFinite DEF Attempts, Outgrown
<1>7. Numbered' /\ Built'
  BY <1>1 DEF Numbered, Built, LastXrefID
<1>8. Finished'
  BY <1>1, <1>4 DEF Finished, Reachable, Found, Sized, Gapped, Unpadded
<1> QED
  BY <1>5, <1>6, <1>7, <1>8 DEF IndInv

(* An error ends every call, and a stutter changes nothing.                *)
LEMMA QuietSteps == IndInv /\ (Fail \/ UNCHANGED vars) => IndInv'
<1>1. ASSUME IndInv, Fail PROVE IndInv'
  <2>1. /\ Typed /\ Numbered /\ Attempts /\ Finished /\ output = <<>>
        /\ stage' = "failed"
        /\ UNCHANGED <<input, calls, base, space, entries, buffer, output>>
    BY <1>1 DEF IndInv, Attempts, Fail
  <2>2. Typed' /\ Numbered'
    BY <2>1 DEF Typed, TypeOK, Numbered, LastXrefID
  <2>3. Attempts' /\ Built' /\ Finished'
    BY <2>1 DEF Attempts, Built, Finished, Outgrown
  <2> QED
    BY <2>2, <2>3 DEF IndInv
<1>2. ASSUME IndInv, UNCHANGED vars PROVE IndInv'
  <2>1. Typed' /\ Numbered' /\ Attempts' /\ Built'
    BY <1>2 DEF vars, IndInv, Typed, TypeOK, Numbered, LastXrefID, Attempts, Outgrown,
       Built, IsSignature, IsAnnotation, IsCatalog
  <2>2. Finished'
    BY <1>2 DEF vars, IndInv, Finished, Good, Reachable, Found, Sized, Gapped, Unpadded,
       LastXrefID
  <2> QED
    BY <2>1, <2>2 DEF IndInv
<1> QED
  BY <1>1, <1>2

-----------------------------------------------------------------------------
(* The invariant holds of every reachable state of every signing, for any  *)
(* inputs, guesses and lengths of the CMS.                                 *)
THEOREM Inductive == Spec => []IndInv
<1>1. IndInv /\ [Next]_vars => IndInv'
  BY CopyInputStep, AddSignatureStep, AddAnnotationStep, AddCatalogStep, WriteXrefStep,
     WriteTrailerStep, UpdateByteRangeStep, ReplaceSignatureStep, WriteOutputStep,
     QuietSteps DEF Next
<1> QED
  BY InitHolds, <1>1, PTL DEF Spec

(* The type invariant.                                                     *)
THEOREM TypesHold == Spec => []TypeOK
<1>1. IndInv => TypeOK
  BY DEF IndInv, Typed
<1> QED
  BY <1>1, Inductive, PTL

(* A reader that follows the trailer of any delivered file finds its       *)
(* signature, however many passes SignPDF took.                            *)
THEOREM SignaturesAreReachable == Spec => []SignatureIsReachable
<1>1. IndInv => SignatureIsReachable
  BY DEF IndInv, Finished, Good, SignatureIsReachable, Delivered, Reachable
<1> QED
  BY <1>1, Inductive, PTL

(* /Size is above every number that a section of ours lists.               *)
THEOREM SizesCoverIDs == Spec => []SizeCoversIDs
<1>1. IndInv => SizeCoversIDs
  BY DEF IndInv, Finished, Good, SizeCoversIDs, Delivered, Sized
<1> QED
  BY <1>1, Inductive, PTL

(* If no input has a run of zeros as long as the first placeholder, what a *)
(* signature leaves out is its own /Contents; MCPdfSignPadded shows that   *)
(* the hypothesis is needed.                                               *)
THEOREM GapsAreContents ==
  ASSUME \A f \in Inputs : Unpadded(f)
  PROVE  Spec => []GapIsContents
<1>1. IndInv => GapIsContents
  BY DEF IndInv, Typed, TypeOK, Finished, Good, GapIsContents, Delivered, Gapped
<1> QED
  BY <1>1, Inductive, PTL

(* A CMS that fits at the first attempt is delivered in one file, which    *)
(* the byte range covers to its end.                                       *)
THEOREM FirstFitsAreCovered == Spec => []FirstFitIsCovered
<1>1. IndInv => FirstFitIsCovered
  <2> SUFFICES ASSUME IndInv, stage = "done", base = InitialBase
               PROVE  OneCoveredFile
    BY DEF FirstFitIsCovered
  <2>1. Len(output) = 1 /\ output \in Seq(Files)
    BY DEF IndInv, Typed, Attempts
  <2>2. Good(output[1])
    BY <2>1 DEF IndInv, Finished
  <2> QED
    BY <2>1, <2>2 DEF OneCoveredFile, Good
<1> QED
  BY <1>1, Inductive, PTL

(* SignPDF calls itself at most once for each length that the first space  *)
(* has no room for.                                                        *)
THEOREM AttemptsStayBounded == Spec => []AttemptsAreBounded
<1>1. IndInv => AttemptsAreBounded
  <2> SUFFICES ASSUME IndInv PROVE AttemptsAreBounded
    OBVIOUS
  <2> DEFINE longer == {n \in CmsLengths : n > InitialBase + Estimate}
  <2>1. longer \in SUBSET CmsLengths /\ IsFiniteSet(CmsLengths)
    BY PdfAssumption
  <2>2. IsFiniteSet(longer) /\ Cardinality(longer) \in Nat
    BY <2>1, FS_Subset, FS_CardinalityType
  <2>3. Outgrown(base) \in SUBSET longer
    BY PdfAssumption DEF Outgrown
  <2>4. Cardinality(Outgrown(base)) <= Cardinality(longer)
    BY <2>2, <2>3, FS_Subset
  <2>5. /\ calls + Len(output) <= 1 + Cardinality(Outgrown(base))
        /\ calls \in Nat /\ Len(output) \in Nat
    BY DEF IndInv, Attempts, Typed, TypeOK
  <2>6. calls + Len(output) <= 1 + Cardinality(longer)
    <3> HIDE DEF longer
    <3> QED
      BY <2>2, <2>4, <2>5, OutgrownFinite
  <2> QED
    BY <2>6 DEF AttemptsAreBounded
<1> QED
  BY <1>1, Inductive, PTL
=============================================================================
