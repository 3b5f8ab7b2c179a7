------------------------- MODULE DocumentText_proofs -------------------------
(***************************************************************************)
(* For every document, chunk size and overlap: parsing keeps the positions *)
(* it works with inside the text, and the window loop of the chunker       *)
(* covers every section with windows that repeat exactly the overlap. No   *)
(* block of a filing and no row of its tables is lost, a section holds     *)
(* only text below its own header, and no run of undecodable text is kept.  *)
(***************************************************************************)
EXTENDS DocumentText, SequenceTheorems, FiniteSetTheorems, TLAPS

\* What the steps before the chunker work with.
DocumentOK ==
    /\ phase \in Phases
    /\ text \in Seq(FilingAtom) \cup Seq(PartAtom)
    /\ sizes \in (Nat \ {0}) \X Nat
    /\ next \in 1 .. Len(text) + 1
    /\ name \in Names \cup {"document"}
    /\ lines \in Seq(DOMAIN text) /\ kept \subseteq DOMAIN text
    /\ sections \in Seq([name : Names \cup {"document"}, atoms : Seq(DOMAIN text)])

\* The chunker has not begun.
Untouched == section = 1 /\ start = 0 /\ index = 0 /\ chunks = {}

\* Until the text is bounded nothing is taken from it, and until the document is
\* parsed nothing is chunked.
InOrder ==
    /\ phase \in {"read", "tables", "slice", "articles"}
          => next = 1 /\ lines = <<>> /\ kept = {} /\ sections = <<>>
    /\ phase \notin {"chunk", "done", "error"} => Untouched
    /\ kept \subseteq At("heading")

Parsing ==
    \/ ReadFiling \/ ExtractTables \/ ReadHeader \/ ReadBlock \/ EndFiling
    \/ ReadPart \/ SlicePart \/ KeepArticles \/ CutArticle \/ EndPart

Chunking == Refuse \/ ChunkWhole \/ ChunkWindow \/ EndChunks

-----------------------------------------------------------------------------
(* Parsing.                                                                 *)

\* An item header and an article heading have a name.
LEMMA HeadersAreNamed ==
    ASSUME DocumentOK, NEW p \in DOMAIN text, text[p].kind \in {"header", "heading"}
    PROVE  text[p].name \in Names
<1>1. text[p] \in FilingAtom \/ text[p] \in PartAtom
  BY DEF DocumentOK
<1>2. ASSUME text[p] \in FilingAtom PROVE text[p].name \in Names
  BY <1>2 DEF FilingAtom
<1>3. ASSUME text[p] \in PartAtom PROVE text[p].name \in Names
  BY <1>3 DEF PartAtom
<1> QED BY <1>1, <1>2, <1>3

\* A closed section joins the list, whatever its name is by then.
LEMMA SectionCloses ==
    ASSUME DocumentOK, CloseSection
    PROVE  /\ lines' \in Seq(DOMAIN text)
           /\ sections' \in Seq([name : Names \cup {"document"}, atoms : Seq(DOMAIN text)])
<1> DEFINE Section == [name : Names \cup {"document"}, atoms : Seq(DOMAIN text)]
           closed  == [name |-> name, atoms |-> lines]
<1>1. closed \in Section /\ sections \in Seq(Section)
  BY DEF DocumentOK
<1>2. Append(sections, closed) \in Seq(Section)
  BY <1>1, AppendProperties
<1>3. <<>> \in Seq(DOMAIN text)
  BY EmptySeq
<1> QED BY <1>1, <1>2, <1>3 DEF CloseSection

\* The steps of parse_filing_html.
LEMMA FilingSteps ==
    ASSUME DocumentOK, InOrder,
           ReadFiling \/ ExtractTables \/ ReadHeader \/ ReadBlock \/ EndFiling
    PROVE  DocumentOK' /\ InOrder'
<1> USE DEF Phases, At
<1>1. CASE ReadFiling
  <2>1. text' \in Seq(FilingAtom) /\ sizes' \in (Nat \ {0}) \X Nat
    BY <1>1, FilingsAssumption, SizesAssumption DEF ReadFiling
  <2> QED BY <1>1, <2>1 DEF ReadFiling, DocumentOK, InOrder, Untouched, parseVars, chunkVars
<1>2. CASE ExtractTables
  BY <1>2 DEF ExtractTables, DocumentOK, InOrder, Untouched, inputVars, parseVars, chunkVars
<1>3. CASE ReadHeader
  <2>1. next \in DOMAIN text
    BY <1>3 DEF ReadHeader, DocumentOK
  <2>2. name' \in Names
    BY <1>3, <2>1, HeadersAreNamed DEF ReadHeader
  <2>3. CloseSection
    BY <1>3 DEF ReadHeader
  <2> QED BY <1>3, <2>1, <2>2, <2>3, SectionCloses
         DEF ReadHeader, DocumentOK, InOrder, Untouched, inputVars, chunkVars
<1>4. CASE ReadBlock
  <2>1. next \in DOMAIN text
    BY <1>4 DEF ReadBlock, DocumentOK
  <2>2. lines' \in Seq(DOMAIN text)
    BY <1>4, <2>1 DEF ReadBlock, DocumentOK
  <2> QED BY <1>4, <2>1, <2>2 DEF ReadBlock, DocumentOK, InOrder, Untouched, inputVars, chunkVars
<1>5. CASE EndFiling
  <2>1. /\ lines' \in Seq(DOMAIN text)
        /\ sections' \in Seq([name : Names \cup {"document"}, atoms : Seq(DOMAIN text)])
    <3>1. CASE lines = <<>> /\ sections = <<>>
      <4> DEFINE Section == [name : Names \cup {"document"}, atoms : Seq(DOMAIN text)]
                 empty   == [name |-> "document", atoms |-> <<>>]
      <4>1. empty \in Section
        BY EmptySeq
      <4> HIDE DEF Section, empty
      <4>2. <<empty>> \in Seq(Section)
        BY <4>1
      <4>3. lines' = lines /\ sections' = <<empty>>
        BY <1>5, <3>1 DEF EndFiling, empty
      <4> QED BY <4>2, <4>3 DEF Section, DocumentOK
    <3>2. CASE ~(lines = <<>> /\ sections = <<>>)
      BY <1>5, <3>2, SectionCloses DEF EndFiling
    <3> QED BY <3>1, <3>2
  <2> QED BY <1>5, <2>1 DEF EndFiling, DocumentOK, InOrder, Untouched, inputVars, chunkVars
<1> QED BY <1>1, <1>2, <1>3, <1>4, <1>5

\* The steps of slice_between_markers and parse_articles before an article is cut.
LEMMA PartSteps ==
    ASSUME DocumentOK, InOrder, ReadPart \/ SlicePart \/ KeepArticles \/ EndPart
    PROVE  DocumentOK' /\ InOrder'
<1> USE DEF Phases, At
<1>1. CASE ReadPart
  <2>1. text' \in Seq(PartAtom) /\ sizes' \in (Nat \ {0}) \X Nat
    BY <1>1, PartsAssumption, SizesAssumption DEF ReadPart
  <2> QED BY <1>1, <2>1 DEF ReadPart, DocumentOK, InOrder, Untouched, parseVars, chunkVars
<1>2. CASE SlicePart
  <2>1. text' \in Seq(FilingAtom) \cup Seq(PartAtom)
    <3>1. CASE UNCHANGED text
      BY <3>1 DEF DocumentOK
    <3>2. ASSUME NEW b \in At("begin"), NEW e \in At("end"), text' = SubSeq(text, b, e - 1)
          PROVE  text' \in Seq(FilingAtom) \cup Seq(PartAtom)
      <4>1. b \in DOMAIN text /\ e \in DOMAIN text
        BY DEF At
      <4>2. ASSUME NEW A, text \in Seq(A) PROVE text' \in Seq(A)
        <5>1. b \in Int /\ e - 1 \in Int /\ \A i \in b .. e - 1 : text[i] \in A
          BY <4>1, <4>2, LenProperties, ElementOfSeq
        <5> QED BY <3>2, <5>1, SubSeqProperties
      <4> QED BY <4>2 DEF DocumentOK
    <3> QED BY <1>2, <3>1, <3>2 DEF SlicePart
  <2>2. /\ next = 1 /\ lines = <<>> /\ kept = {} /\ sections = <<>>
        /\ UNCHANGED <<sizes, next, parseVars, sections, chunkVars>>
        /\ phase' \in {"articles", "error"} /\ Untouched
    BY <1>2 DEF SlicePart, InOrder
  <2>3. Len(text') \in Nat
    BY <2>1, LenProperties
  <2> QED BY <2>1, <2>2, <2>3 DEF DocumentOK, InOrder, Untouched, parseVars, chunkVars
<1>3. CASE KeepArticles
  BY <1>3 DEF KeepArticles, IsKept, DocumentOK, InOrder, Untouched, inputVars, chunkVars
<1>4. CASE EndPart
  BY <1>4 DEF EndPart, DocumentOK, InOrder, Untouched, inputVars, parseVars, chunkVars
<1> QED BY <1>1, <1>2, <1>3, <1>4

\* The section of an article holds its heading and the start of its body.
LEMMA ArticleIsCut ==
    ASSUME DocumentOK, InOrder, CutArticle
    PROVE  DocumentOK' /\ InOrder'
<1>1. PICK p \in kept, end \in kept \cup {Len(text) + 1} :
        LET body == Body(p, end) IN
        /\ phase = "cut" /\ IsNextArticle(p, end)
        /\ \E clean \in 0 .. Len(body) :
              /\ IsCut(body, clean)
              /\ \/ /\ clean < Len(body)
                    /\ UNCHANGED sections
                 \/ /\ clean = Len(body) \/ clean > 0
                    /\ sections' = Append(sections, [name  |-> text[p].name,
                                                     atoms |-> <<p>> \o SubSeq(body, 1, clean)])
        /\ next' = p + 1
        /\ UNCHANGED <<phase, inputVars, parseVars, tables, chunkVars>>
  BY DEF CutArticle
<1>2. /\ Len(text) \in Nat /\ DOMAIN text = 1 .. Len(text)
      /\ p \in DOMAIN text /\ end \in 1 .. Len(text) + 1 /\ p < end
  <2>1. Len(text) \in Nat /\ DOMAIN text = 1 .. Len(text)
    <3>1. text \in Seq(FilingAtom) \/ text \in Seq(PartAtom)
      BY DEF DocumentOK
    <3> QED BY <3>1, LenProperties
  <2>2. p \in DOMAIN text /\ IsNextArticle(p, end)
    BY <1>1 DEF DocumentOK
  <2>3. p < end /\ end \in (DOMAIN text) \cup {Len(text) + 1}
    BY <1>1, <2>2 DEF DocumentOK, IsNextArticle
  <2> QED BY <2>1, <2>2, <2>3
<1> DEFINE body    == Body(p, end)
           Section == [name : Names \cup {"document"}, atoms : Seq(DOMAIN text)]
<1>3. body \in Seq(DOMAIN text)
  <2>1. end - p - 1 \in Nat /\ \A k \in 1 .. end - p - 1 : p + k \in DOMAIN text
    BY <1>2
  <2> QED BY <2>1, SeqDef DEF Body
<1>4. text[p].name \in Names
  BY <1>2, HeadersAreNamed DEF InOrder, At
<1>5. sections' \in Seq(Section)
  <2>1. CASE UNCHANGED sections
    BY <1>1, <2>1 DEF DocumentOK, inputVars
  <2>2. ASSUME NEW clean \in 0 .. Len(body),
               sections' = Append(sections, [name  |-> text[p].name,
                                             atoms |-> <<p>> \o SubSeq(body, 1, clean)])
        PROVE  sections' \in Seq(Section)
    <3>1. SubSeq(body, 1, clean) \in Seq(DOMAIN text)
      BY <1>3, LenProperties, ElementOfSeq, SubSeqProperties
    <3> QED BY <1>2, <1>4, <2>2, <3>1, ConcatProperties, AppendProperties DEF DocumentOK
  <2> QED BY <1>1, <2>1, <2>2
<1>6. next' \in 1 .. Len(text) + 1
  BY <1>1, <1>2
<1> HIDE DEF Section
<1>7. DocumentOK'
  BY <1>1, <1>5, <1>6 DEF DocumentOK, inputVars, parseVars, Section
<1>8. InOrder'
  BY <1>1 DEF InOrder, Untouched, At, inputVars, parseVars, chunkVars
<1> QED BY <1>7, <1>8

\* Parsing is done before the first chunk.
LEMMA ParsingStep ==
    ASSUME DocumentOK, InOrder, Parsing
    PROVE  DocumentOK' /\ InOrder' /\ Untouched'
<1>1. DocumentOK' /\ InOrder'
  BY FilingSteps, PartSteps, ArticleIsCut DEF Parsing
<1>2. phase \notin {"chunk", "done", "error"} /\ UNCHANGED chunkVars
  BY DEF Parsing, ReadFiling, ExtractTables, ReadHeader, ReadBlock, EndFiling,
         ReadPart, SlicePart, KeepArticles, CutArticle, EndPart
<1> QED BY <1>1, <1>2 DEF InOrder, Untouched, chunkVars

-----------------------------------------------------------------------------
(* Chunking.                                                                *)

\* The window before the next one is there, ends short of the section's end, and
\* everything up to its end is covered.
WindowsSoFar ==
    /\ start \in Nat /\ index \in Nat
    /\ index = 0 <=> start = 0
    /\ index > 0 =>
          /\ section <= Len(sections) /\ start + Overlap < Tokens(section)
          /\ [section |-> section, index |-> index - 1,
              from |-> start - Stride, to |-> start + Overlap] \in chunks
          /\ \A k \in 0 .. start + Overlap - 1 : IsCovered(section, k)

ChunksOK == section \in 1 .. Len(sections) + 1 /\ chunks \subseteq Chunk

ChunkInv == ChunksOK /\ WindowsSoFar /\ SectionsCovered /\ WindowsTile

TextInv == DocumentOK /\ InOrder /\ ChunkInv

\* Sections have a length.
LEMMA SectionsHaveTokens ==
    ASSUME DocumentOK
    PROVE  /\ Len(sections) \in Nat
           /\ \A s \in 1 .. Len(sections) : Tokens(s) \in Nat
<1>1. Len(sections) \in Nat /\ DOMAIN sections = 1 .. Len(sections)
  BY LenProperties DEF DocumentOK
<1>2. ASSUME NEW s \in 1 .. Len(sections) PROVE Tokens(s) \in Nat
  <2> DEFINE Section == [name : Names \cup {"document"}, atoms : Seq(DOMAIN text)]
  <2>1. sections[s].atoms \in Seq(DOMAIN text)
    <3>1. sections \in Seq(Section)
      BY DEF DocumentOK
    <3> HIDE DEF Section
    <3>2. sections[s] \in Section
      BY <1>1, <3>1, ElementOfSeq
    <3> QED BY <3>2 DEF Section
  <2> QED BY <2>1, LenProperties DEF Tokens
<1> QED BY <1>1, <1>2

\* Before the first chunk there is nothing to cover.
LEMMA NothingChunked == ASSUME DocumentOK, Untouched PROVE ChunkInv
BY SectionsHaveTokens
   DEF ChunkInv, ChunksOK, Untouched, WindowsSoFar, SectionsCovered, WindowsTile

\* A window from start ends behind the one before it.
LEMMA WindowIsNew ==
    ASSUME DocumentOK, ChunkInv, section <= Len(sections), Overlap < ChunkSize,
           Tokens(section) > ChunkSize, NEW end,
           end = IF start + ChunkSize < Tokens(section) THEN start + ChunkSize
                 ELSE Tokens(section)
    PROVE  /\ ChunkSize \in Nat \ {0} /\ Overlap \in Nat /\ Tokens(section) \in Nat
           /\ section \in Nat /\ start \in Nat /\ index \in Nat /\ end \in Nat
           /\ start < end /\ end <= Tokens(section) /\ start + Overlap < end
           /\ end < Tokens(section) => end = start + ChunkSize
           /\ Stride = ChunkSize - Overlap /\ Stride \in Nat \ {0}
<1>1. /\ ChunkSize \in Nat \ {0} /\ Overlap \in Nat /\ Tokens(section) \in Nat
      /\ section \in Nat /\ start \in Nat /\ index \in Nat
  BY SectionsHaveTokens DEF DocumentOK, ChunkInv, ChunksOK, WindowsSoFar, ChunkSize, Overlap
<1>2. start + Overlap < Tokens(section)
  BY <1>1 DEF ChunkInv, WindowsSoFar
<1> QED BY <1>1, <1>2 DEF Stride

\* One round of the window loop.
LEMMA WindowStep ==
    ASSUME TextInv, ChunkWindow
    PROVE  ChunkInv'
<1> DEFINE end == IF start + ChunkSize < Tokens(section) THEN start + ChunkSize
                  ELSE Tokens(section)
           new == [section |-> section, index |-> index, from |-> start, to |-> end]
<1>1. /\ Overlap < ChunkSize /\ section <= Len(sections) /\ Tokens(section) > ChunkSize
      /\ chunks' = chunks \cup {new}
      /\ \/ end = Tokens(section) /\ section' = section + 1 /\ start' = 0 /\ index' = 0
         \/ /\ end # Tokens(section)
            /\ index' = index + 1 /\ start' = start + Stride /\ section' = section
      /\ UNCHANGED <<text, sizes, sections>>
  BY DEF ChunkWindow, IsLast, NextSection, inputVars
<1>2. /\ ChunkSize \in Nat \ {0} /\ Overlap \in Nat /\ Tokens(section) \in Nat
      /\ section \in Nat /\ start \in Nat /\ index \in Nat /\ end \in Nat
      /\ start < end /\ end <= Tokens(section) /\ start + Overlap < end
      /\ end < Tokens(section) => end = start + ChunkSize
      /\ Stride = ChunkSize - Overlap /\ Stride \in Nat \ {0}
  BY <1>1, WindowIsNew DEF TextInv
<1> HIDE DEF end
<1>3. /\ ChunkSize' = ChunkSize /\ Overlap' = Overlap /\ Stride' = Stride
      /\ \A s : Tokens(s)' = Tokens(s)
  BY <1>1 DEF ChunkSize, Overlap, Stride, Tokens
<1>4. ChunksOK'
  BY <1>1, <1>2, SectionsHaveTokens DEF TextInv, ChunkInv, ChunksOK, Chunk
<1> DEFINE Covered(s, k) == \E c \in chunks' : c.section = s /\ c.from <= k /\ k < c.to
<1>5. \A k \in 0 .. end - 1 : Covered(section, k)
  <2> SUFFICES ASSUME NEW k \in 0 .. end - 1 PROVE Covered(section, k)
    OBVIOUS
  <2>1. CASE k < start + Overlap /\ index > 0
    <3>1. IsCovered(section, k)
      BY <1>2, <2>1 DEF TextInv, ChunkInv, WindowsSoFar
    <3> QED BY <1>1, <3>1 DEF IsCovered
  <2>2. CASE ~(k < start + Overlap /\ index > 0)
    <3>1. start <= k /\ k < end
      BY <1>2, <2>2 DEF TextInv, ChunkInv, WindowsSoFar
    <3>2. new \in chunks'
      BY <1>1
    <3>3. new.section = section /\ new.from <= k /\ k < new.to
      BY <3>1
    <3> QED BY <3>2, <3>3
  <2> QED BY <2>1, <2>2
<1>6. WindowsSoFar'
  <2>1. CASE end = Tokens(section)
    BY <1>1, <2>1 DEF WindowsSoFar
  <2>2. CASE end # Tokens(section)
    <3>1. /\ index' = index + 1 /\ start' = start + Stride /\ section' = section
          /\ end = start + ChunkSize
      BY <1>1, <1>2, <2>2
    <3>2. start' + Overlap = end /\ start' - Stride = start /\ index' - 1 = index
      BY <1>2, <3>1
    <3>3. new \in chunks'
      BY <1>1
    <3>4. \A k \in 0 .. start' + Overlap' - 1 : IsCovered(section, k)'
      <4>1. 0 .. start' + Overlap' - 1 = 0 .. end - 1
        BY <1>1, <1>2, <1>3, <3>2
      <4>2. \A k : Covered(section, k) => IsCovered(section, k)'
        BY <3>1 DEF IsCovered
      <4> QED BY <1>5, <4>1, <4>2
    <3> QED BY <1>1, <1>2, <1>3, <2>2, <3>1, <3>2, <3>3, <3>4 DEF WindowsSoFar
  <2> QED BY <2>1, <2>2
<1>7. SectionsCovered'
  <2> SUFFICES ASSUME NEW s \in 1 .. section' - 1, NEW k \in 0 .. Tokens(s) - 1
               PROVE  IsCovered(s, k)'
    BY <1>3 DEF SectionsCovered
  <2>1. CASE s < section
    <3>1. IsCovered(s, k)
      BY <1>2, <2>1 DEF TextInv, ChunkInv, SectionsCovered
    <3> QED BY <1>1, <3>1 DEF IsCovered
  <2>2. CASE ~(s < section)
    <3>1. s = section /\ end = Tokens(section)
      BY <1>1, <1>2, <2>2
    <3> QED BY <1>5, <3>1 DEF IsCovered
  <2> QED BY <2>1, <2>2
<1>8. WindowsTile'
  <2> SUFFICES ASSUME NEW c \in chunks'
               PROVE  /\ c.section <= section' /\ c.to <= Tokens(c.section) /\ c.from < c.to
                      /\ c.index = 0 <=> c.from = 0
                      /\ c.to < Tokens(c.section) => c.to - c.from = ChunkSize
                      /\ c.index > 0 => \E d \in chunks' :
                             /\ d.section = c.section /\ d.index = c.index - 1
                             /\ c.from = d.to - Overlap /\ d.to < c.to
    BY <1>3 DEF WindowsTile
  <2>1. CASE c \in chunks
    <3>1. c.section \in Nat /\ section' \in Nat /\ section <= section'
      BY <1>1, <1>2, <2>1 DEF TextInv, ChunkInv, ChunksOK, Chunk
    <3> QED BY <1>1, <1>2, <2>1, <3>1 DEF TextInv, ChunkInv, WindowsTile
  <2>2. CASE c = new
    <3>1. c.index > 0 => \E d \in chunks' :
             /\ d.section = c.section /\ d.index = c.index - 1
             /\ c.from = d.to - Overlap /\ d.to < c.to
      <4> SUFFICES ASSUME index > 0
                   PROVE  \E d \in chunks' :
                             /\ d.section = section /\ d.index = index - 1
                             /\ start = d.to - Overlap /\ d.to < end
        BY <2>2
      <4> DEFINE d == [section |-> section, index |-> index - 1,
                       from |-> start - Stride, to |-> start + Overlap]
      <4>1. d \in chunks'
        BY <1>1 DEF TextInv, ChunkInv, WindowsSoFar
      <4>2. start = d.to - Overlap /\ d.to < end
        BY <1>2
      <4> QED BY <4>1, <4>2
    <3>2. index = 0 <=> start = 0
      BY DEF TextInv, ChunkInv, WindowsSoFar
    <3> QED BY <1>1, <1>2, <2>2, <3>1, <3>2
  <2> QED BY <1>1, <2>1, <2>2
<1> QED BY <1>4, <1>6, <1>7, <1>8 DEF ChunkInv

\* A section that fits, or is empty, leaves at most one chunk.
LEMMA WholeStep ==
    ASSUME TextInv, ChunkWhole
    PROVE  ChunkInv'
<1> DEFINE whole == [section |-> section, index |-> 0, from |-> 0, to |-> Tokens(section)]
<1>1. /\ section <= Len(sections) /\ Tokens(section) <= ChunkSize
      /\ chunks' = IF Tokens(section) = 0 THEN chunks ELSE chunks \cup {whole}
      /\ section' = section + 1 /\ start' = 0 /\ index' = 0
      /\ UNCHANGED <<text, sizes, sections>>
  BY DEF ChunkWhole, NextSection, inputVars
<1>2. /\ section \in Nat /\ section \in 1 .. Len(sections) /\ Tokens(section) \in Nat
      /\ Len(sections) \in Nat
  BY <1>1, SectionsHaveTokens DEF TextInv, ChunkInv, ChunksOK
<1>3. ChunkSize' = ChunkSize /\ Overlap' = Overlap /\ \A s : Tokens(s)' = Tokens(s)
  BY <1>1 DEF ChunkSize, Overlap, Tokens
<1>4. ChunksOK' /\ WindowsSoFar'
  BY <1>1, <1>2 DEF TextInv, ChunkInv, ChunksOK, Chunk, WindowsSoFar
<1>5. SectionsCovered'
  <2> SUFFICES ASSUME NEW s \in 1 .. section' - 1, NEW k \in 0 .. Tokens(s) - 1
               PROVE  \E c \in chunks' : c.section = s /\ c.from <= k /\ k < c.to
    BY <1>3 DEF SectionsCovered, IsCovered
  <2>1. CASE s < section
    <3>1. IsCovered(s, k)
      BY <1>2, <2>1 DEF TextInv, ChunkInv, SectionsCovered
    <3> QED BY <1>1, <3>1 DEF IsCovered
  <2>2. CASE ~(s < section)
    <3>1. s = section /\ Tokens(section) # 0
      BY <1>1, <1>2, <2>2
    <3>2. whole \in chunks'
      BY <1>1, <3>1
    <3>3. whole.section = s /\ whole.from <= k /\ k < whole.to
      BY <1>2, <3>1
    <3> QED BY <3>2, <3>3
  <2> QED BY <2>1, <2>2
<1>6. WindowsTile'
  <2> SUFFICES ASSUME NEW c \in chunks'
               PROVE  /\ c.section <= section' /\ c.to <= Tokens(c.section) /\ c.from < c.to
                      /\ c.index = 0 <=> c.from = 0
                      /\ c.to < Tokens(c.section) => c.to - c.from = ChunkSize
                      /\ c.index > 0 => \E d \in chunks' :
                             /\ d.section = c.section /\ d.index = c.index - 1
                             /\ c.from = d.to - Overlap /\ d.to < c.to
    BY <1>3 DEF WindowsTile
  <2>1. CASE c \in chunks
    <3>1. c.section \in Nat
      BY <2>1 DEF TextInv, ChunkInv, ChunksOK, Chunk
    <3> QED BY <1>1, <1>2, <2>1, <3>1 DEF TextInv, ChunkInv, WindowsTile
  <2>2. CASE c = whole /\ Tokens(section) # 0
    BY <1>1, <1>2, <2>2
  <2> QED BY <1>1, <2>1, <2>2
<1> QED BY <1>4, <1>5, <1>6 DEF ChunkInv

\* A refusal and the chunks of the tables leave the text chunks alone.
LEMMA OtherChunkSteps ==
    ASSUME TextInv, Refuse \/ EndChunks
    PROVE  ChunkInv'
<1>1. UNCHANGED <<text, sizes, sections, section, start, index, chunks>>
  BY DEF Refuse, EndChunks, inputVars, chunkVars
<1> QED BY <1>1 DEF TextInv, ChunkInv, ChunksOK, WindowsSoFar, SectionsCovered, WindowsTile,
                    IsCovered, ChunkSize, Overlap, Stride, Tokens

LEMMA ChunkingKeepsTheDocument ==
    ASSUME DocumentOK, InOrder, Chunking
    PROVE  DocumentOK' /\ InOrder'
<1>1. /\ phase = "chunk" /\ phase' \in {"chunk", "done", "error"}
      /\ UNCHANGED <<inputVars, next, parseVars, sections>>
  BY DEF Chunking, Refuse, ChunkWhole, ChunkWindow, EndChunks
<1> QED BY <1>1 DEF DocumentOK, InOrder, Phases, At, inputVars, parseVars

-----------------------------------------------------------------------------
LEMMA TextInvInit == TextInit => TextInv
<1> SUFFICES ASSUME TextInit PROVE TextInv
  OBVIOUS
<1>1. DocumentOK
  BY DEF TextInit, DocumentOK, Phases
<1>2. Untouched /\ InOrder
  BY DEF TextInit, Untouched, InOrder
<1> QED BY <1>1, <1>2, NothingChunked DEF TextInv

LEMMA TextInvStep == TextInv /\ [TextNext]_textVars => TextInv'
<1> SUFFICES ASSUME TextInv, [TextNext]_textVars PROVE TextInv'
  OBVIOUS
<1>1. CASE Parsing
  <2>1. DocumentOK' /\ InOrder' /\ Untouched'
    BY <1>1, ParsingStep DEF TextInv
  <2>2. ChunkInv'
    <3>1. Len(sections') \in Nat
      BY <2>1, LenProperties DEF DocumentOK
    <3> QED BY <2>1, <3>1
            DEF ChunkInv, ChunksOK, Untouched, WindowsSoFar, SectionsCovered, WindowsTile
  <2> QED BY <2>1, <2>2 DEF TextInv
<1>2. CASE Chunking
  <2>1. ChunkInv'
    BY <1>2, WindowStep, WholeStep, OtherChunkSteps DEF Chunking
  <2> QED BY <1>2, <2>1, ChunkingKeepsTheDocument DEF TextInv
<1>3. CASE UNCHANGED textVars
  BY <1>3 DEF textVars, TextInv, DocumentOK, InOrder, Untouched, At, ChunkInv, ChunksOK,
              WindowsSoFar, SectionsCovered, WindowsTile, IsCovered, ChunkSize, Overlap,
              Stride, Tokens
<1> QED BY <1>1, <1>2, <1>3 DEF TextNext, TextStep, Read, Parsing, Chunking

LEMMA TextInvariant == TextSpec => []TextInv
BY TextInvInit, TextInvStep, PTL DEF TextSpec

\* Whatever the document, the parsers and the chunker point into its text only.
THEOREM TextTypeCorrect == TextSpec => []TextTypeOK
<1>1. TextInv => TextTypeOK
  <2> SUFFICES ASSUME TextInv PROVE TextTypeOK
    OBVIOUS
  <2>1. section <= Len(sections) => start \in 0 .. Tokens(section)
    BY SectionsHaveTokens DEF TextInv, ChunkInv, ChunksOK, WindowsSoFar, DocumentOK, Overlap
  <2> QED BY <2>1 DEF TextTypeOK, TextInv, DocumentOK, ChunkInv, ChunksOK, WindowsSoFar
<1> QED BY TextInvariant, <1>1, PTL

\* For every document, chunk size and overlap, _chunk_section reaches the last token.
THEOREM EverySectionIsCovered == TextSpec => []SectionsCovered
<1>1. TextInv => SectionsCovered
  BY DEF TextInv, ChunkInv
<1> QED BY TextInvariant, <1>1, PTL

\* Its windows are full but for the last, repeat exactly the overlap, and none is
\* without a token of its own.
THEOREM WindowsAlwaysTile == TextSpec => []WindowsTile
<1>1. TextInv => WindowsTile
  BY DEF TextInv, ChunkInv
<1> QED BY TextInvariant, <1>1, PTL

-----------------------------------------------------------------------------
(* What becomes of the text. The line the parser has reached divides the    *)
(* document: what comes before it stands in a section or is collected under *)
(* the header the parser is below.                                          *)

\* The texts a phase works on.
TextKinds ==
    /\ phase \in {"tables", "filing"} => text \in Seq(FilingAtom)
    /\ phase \in {"slice", "articles", "cut"} => text \in Seq(PartAtom)
    /\ phase = "cut" => kept = {p \in DOMAIN text : IsKept(p)}

\* The parser is below header h.
Below(h) ==
    /\ h < next /\ name = IF h = 0 THEN "document" ELSE text[h].name
    /\ \A g \in Headers : g < next => g <= h
    /\ \A p \in ToSet(lines) : h <= p /\ p < next

CurrentSection ==
    phase \in {"read", "tables", "filing"} => \E h \in Headers \cup {0} : Below(h)

Placed(p) == \E s \in ToSet(sections) : p \in ToSet(s.atoms)

TextPlaced ==
    /\ phase = "filing" => \A p \in At("text") : p < next => p \in ToSet(lines) \/ Placed(p)
    /\ phase \in {"chunk", "done"} => \A p \in At("text") : Placed(p)

Headed == (\A p \in At("heading") : IsKept(p)) => \A s \in ToSet(sections) : Belongs(s)

TablesPlaced ==
    /\ phase \in {"read", "slice", "articles", "cut"} => raw = <<>>
    /\ phase \in {"filing", "chunk", "done"} =>
          \A t \in DOMAIN raw : TextRows(t) # {} =>
              \E x \in tables : x.table = t /\ x.headers \cup x.rows = TextRows(t)
    /\ phase = "done" =>
          tableChunks = {[table |-> x.table, rows |-> x.headers \cup x.rows] : x \in tables}

ParseInv ==
    TextKinds /\ CurrentSection /\ TextPlaced /\ Headed /\ NoContaminatedRun /\ TablesPlaced

\* What a sequence holds after one more element.
LEMMA AppendAddsOne ==
    ASSUME NEW S, NEW s \in Seq(S), NEW x \in S
    PROVE  ToSet(Append(s, x)) = ToSet(s) \cup {x}
<1> DEFINE t == Append(s, x)
<1>1. /\ Len(s) \in Nat /\ DOMAIN s = 1 .. Len(s) /\ DOMAIN t = 1 .. Len(s) + 1
      /\ \A i \in 1 .. Len(s) : t[i] = s[i]
      /\ t[Len(s) + 1] = x
  BY AppendProperties, LenProperties
<1> HIDE DEF t
<1>2. ASSUME NEW y \in ToSet(t) PROVE y \in ToSet(s) \cup {x}
  <2>1. PICK i \in DOMAIN t : y = t[i]
    BY <1>2 DEF ToSet
  <2>2. CASE i \in 1 .. Len(s)
    BY <1>1, <2>1, <2>2 DEF ToSet
  <2>3. CASE i = Len(s) + 1
    BY <1>1, <2>1, <2>3
  <2> QED BY <1>1, <2>1, <2>2, <2>3
<1>3. ASSUME NEW y \in ToSet(s) PROVE y \in ToSet(t)
  <2>1. PICK i \in DOMAIN s : y = s[i]
    BY <1>3 DEF ToSet
  <2>2. i \in DOMAIN t /\ t[i] = y
    BY <1>1, <2>1
  <2> QED BY <2>2 DEF ToSet
<1>4. x \in ToSet(t)
  <2>1. Len(s) + 1 \in DOMAIN t
    BY <1>1
  <2> QED BY <1>1, <2>1 DEF ToSet
<1> QED BY <1>2, <1>3, <1>4 DEF t

\* A section of the document points into its text.
LEMMA SectionsPoint ==
    ASSUME DocumentOK, NEW s \in ToSet(sections)
    PROVE  ToSet(s.atoms) \subseteq DOMAIN text
<1> DEFINE Section == [name : Names \cup {"document"}, atoms : Seq(DOMAIN text)]
<1>1. sections \in Seq(Section)
  BY DEF DocumentOK
<1>2. s.atoms \in Seq(DOMAIN text)
  <2> HIDE DEF Section
  <2>1. s \in Section
    BY <1>1, ElementOfSeq, LenProperties DEF ToSet
  <2> QED BY <2>1 DEF Section
<1> QED BY <1>2, ElementOfSeq, LenProperties DEF ToSet

LEMMA LinesPoint == DocumentOK => ToSet(lines) \subseteq DOMAIN text
BY ElementOfSeq, LenProperties DEF DocumentOK, ToSet

\* The positions of the empty sequence.
LEMMA NothingInEmpty == ToSet(<<>>) = {}
BY DEF ToSet

\* A section that is closed takes the lines collected for it.
LEMMA ClosedSection ==
    ASSUME DocumentOK, CloseSection
    PROVE  /\ lines' = <<>>
           /\ \A s \in ToSet(sections') :
                 s \in ToSet(sections) \/ s = [name |-> name, atoms |-> lines]
           /\ \A s \in ToSet(sections) : s \in ToSet(sections')
           /\ \A p : p \in ToSet(lines) \/ Placed(p) => Placed(p)'
<1> DEFINE Section == [name : Names \cup {"document"}, atoms : Seq(DOMAIN text)]
           closed  == [name |-> name, atoms |-> lines]
<1>1. closed \in Section /\ sections \in Seq(Section)
  BY DEF DocumentOK
<1>2. CASE lines = <<>>
  <2>1. sections' = sections /\ lines' = <<>>
    BY <1>2 DEF CloseSection
  <2> QED BY <1>2, <2>1, NothingInEmpty DEF Placed
<1>3. CASE lines # <<>>
  <2>1. sections' = Append(sections, closed) /\ lines' = <<>>
    BY <1>3 DEF CloseSection
  <2> HIDE DEF Section
  <2>2. ToSet(sections') = ToSet(sections) \cup {closed}
    BY <1>1, <2>1, AppendAddsOne
  <2> QED BY <2>1, <2>2 DEF Placed
<1> QED BY <1>2, <1>3

\* What is collected below header h makes a section of its own.
LEMMA ClosedBelongs ==
    ASSUME DocumentOK, NEW h \in Headers \cup {0}, Below(h)
    PROVE  Belongs([name |-> name, atoms |-> lines])
<1>1. /\ Headers \subseteq 1 .. Len(text) /\ Len(text) \in Nat /\ next \in Nat
      /\ ToSet(lines) \subseteq 1 .. Len(text)
  BY LinesPoint, LenProperties DEF DocumentOK, Headers, At
<1> QED BY <1>1 DEF Belongs, Below

\* Text by its kind.
LEMMA FilingKinds ==
    ASSUME text \in Seq(FilingAtom), NEW p \in DOMAIN text
    PROVE  text[p].kind \in {"header", "text"}
<1>1. text[p] \in FilingAtom
  BY ElementOfSeq, LenProperties
<1> QED BY <1>1 DEF FilingAtom

LEMMA PartKinds ==
    ASSUME text \in Seq(PartAtom), NEW p \in DOMAIN text
    PROVE  text[p].kind \in {"begin", "end", "clean", "dirty", "heading"}
<1>1. text[p] \in PartAtom
  BY ElementOfSeq, LenProperties
<1> QED BY <1>1 DEF PartAtom

\* Without a section of its own a step keeps what the sections promise.
LEMMA SectionsKeep ==
    ASSUME Headed, NoContaminatedRun, UNCHANGED <<text, sections>>
    PROVE  Headed' /\ NoContaminatedRun' /\ \A p : Placed(p) => Placed(p)'
<1>1. \A s : HasNoRun(s)' <=> HasNoRun(s)
  BY DEF HasNoRun, Undecodable
<1>2. NoContaminatedRun'
  BY <1>1 DEF NoContaminatedRun
<1>3. Headed' /\ \A p : Placed(p) => Placed(p)'
  BY DEF Headed, Placed, Belongs, Headers, At, IsKept
<1> QED BY <1>2, <1>3

\* What holds no undecodable text holds no run of it.
LEMMA CleanHasNoRun ==
    ASSUME NEW s, \A q \in ToSet(s.atoms) : text[q].kind # "dirty"
    PROVE  HasNoRun(s)
<1>1. \A p : Undecodable(s, p) = {}
  BY DEF Undecodable
<1> QED BY <1>1, FS_EmptySet, WindowAssumption, ToleranceAssumption DEF HasNoRun

\* Before the first section there is nothing to keep.
LEMMA NoSectionsYet ==
    ASSUME sections = <<>> PROVE Headed /\ NoContaminatedRun
BY NothingInEmpty DEF Headed, NoContaminatedRun

\* Reading a document.
LEMMA ReadParses ==
    ASSUME DocumentOK, InOrder, ParseInv, Read
    PROVE  ParseInv'
<1>1. /\ phase = "read" /\ next = 1 /\ next' = 1 /\ name' = name
      /\ lines = <<>> /\ lines' = <<>> /\ sections' = <<>> /\ kept' = {}
  BY DEF Read, ReadFiling, ReadPart, InOrder, parseVars
<1>2. Headed' /\ NoContaminatedRun'
  BY <1>1, NothingInEmpty DEF Headed, NoContaminatedRun
<1>3. CurrentSection'
  <2>1. PICK h \in Headers \cup {0} : Below(h)
    BY <1>1 DEF ParseInv, CurrentSection
  <2>2. h = 0
    BY <1>1, <2>1, LenProperties DEF Below, Headers, At, DocumentOK
  <2>3. CASE ReadFiling
    <3>1. text' \in Seq(FilingAtom)
      BY <2>3, FilingsAssumption DEF ReadFiling
    <3>2. \A g \in Headers' : g \in Nat \ {0}
      BY <3>1, LenProperties DEF Headers, At
    <3>3. Below(0)'
      BY <1>1, <2>1, <2>2, <3>2, NothingInEmpty DEF Below
    <3> QED BY <3>3 DEF CurrentSection
  <2>4. CASE ReadPart
    BY <2>4 DEF ReadPart, CurrentSection
  <2> QED BY <2>3, <2>4 DEF Read
<1>4. CASE ReadFiling
  <2>1. text' \in Seq(FilingAtom) /\ phase' = "tables"
    BY <1>4, FilingsAssumption DEF ReadFiling
  <2> QED BY <1>2, <1>3, <2>1 DEF ParseInv, TextKinds, TextPlaced, TablesPlaced
<1>5. CASE ReadPart
  <2>1. text' \in Seq(PartAtom) /\ phase' = "slice" /\ raw' = raw
    BY <1>5, PartsAssumption DEF ReadPart
  <2> QED BY <1>1, <1>2, <1>3, <2>1 DEF ParseInv, TextKinds, TextPlaced, TablesPlaced
<1> QED BY <1>4, <1>5 DEF Read

\* The tables are taken out of a filing before its sections are cut.
LEMMA TablesParse ==
    ASSUME DocumentOK, InOrder, ParseInv, ExtractTables
    PROVE  ParseInv'
<1>1. /\ phase = "tables" /\ phase' = "filing" /\ next = 1
      /\ UNCHANGED <<text, raw, next, name, lines, sections>>
      /\ tables' = {Extracted(t) : t \in {u \in DOMAIN raw : TextRows(u) # {}}}
  BY DEF ExtractTables, InOrder, inputVars, parseVars
<1>2. Headed' /\ NoContaminatedRun'
  BY <1>1, SectionsKeep DEF ParseInv
<1>3. CurrentSection'
  <2>1. PICK h \in Headers \cup {0} : Below(h)
    BY <1>1 DEF ParseInv, CurrentSection
  <2>2. h \in Headers' \cup {0} /\ Below(h)'
    BY <1>1, <2>1 DEF Below, Headers, At
  <2> QED BY <2>2 DEF CurrentSection
<1>4. TextKinds'
  BY <1>1 DEF ParseInv, TextKinds
<1>5. TextPlaced'
  <2>1. \A p \in At("text") : p \in Nat \ {0}
    BY LenProperties DEF DocumentOK, At
  <2> QED BY <1>1, <2>1 DEF TextPlaced, At
<1>6. TablesPlaced'
  <2>1. ASSUME NEW t \in DOMAIN raw, TextRows(t) # {}
        PROVE  \E x \in tables' : x.table = t /\ x.headers \cup x.rows = TextRows(t)
    <3>1. Extracted(t) \in tables' /\ Extracted(t).table = t
      BY <1>1, <2>1 DEF Extracted
    <3>2. Extracted(t).headers \cup Extracted(t).rows = TextRows(t)
      BY DEF Extracted, FirstOf
    <3> QED BY <3>1, <3>2
  <2>2. \A t : TextRows(t)' = TextRows(t)
    BY <1>1 DEF TextRows
  <2> QED BY <1>1, <2>1, <2>2 DEF TablesPlaced
<1> QED BY <1>2, <1>3, <1>4, <1>5, <1>6 DEF ParseInv

\* What the filing steps leave of the tables.
LEMMA TablesKeep ==
    ASSUME TablesPlaced, UNCHANGED <<raw, tables, tableChunks>>,
           phase \in {"filing", "cut", "chunk"},
           phase' \in {phase, "error"} \/ (phase = "filing" /\ phase' = "chunk")
    PROVE  TablesPlaced'
BY DEF TablesPlaced, TextRows

\* A header closes the section above it.
LEMMA HeaderParses ==
    ASSUME DocumentOK, InOrder, ParseInv, ReadHeader
    PROVE  ParseInv'
<1> DEFINE closed == [name |-> name, atoms |-> lines]
<1>1. /\ phase = "filing" /\ phase' = "filing" /\ next \in DOMAIN text
      /\ next \in Nat /\ next' = next + 1 /\ next \in At("header")
      /\ name' = text[next].name /\ CloseSection /\ text \in Seq(FilingAtom)
      /\ UNCHANGED <<text, raw, tables, tableChunks, kept>>
      /\ Len(text) \in Nat /\ DOMAIN text = 1 .. Len(text)
  BY LenProperties DEF ReadHeader, DocumentOK, inputVars, chunkVars, ParseInv, TextKinds, At
<1>2. /\ lines' = <<>>
      /\ \A s \in ToSet(sections') : s \in ToSet(sections) \/ s = closed
      /\ \A p : p \in ToSet(lines) \/ Placed(p) => Placed(p)'
  BY <1>1, ClosedSection
<1>3. PICK h \in Headers \cup {0} : Below(h)
  BY <1>1 DEF ParseInv, CurrentSection
<1>4. \A s : Belongs(s)' = Belongs(s)
  BY <1>1 DEF Belongs, Headers, At
<1>5. Headed'
  <2>1. Belongs(closed)
    BY <1>3, ClosedBelongs
  <2>2. \A p \in At("heading") : FALSE
    BY <1>1, FilingKinds DEF At
  <2>3. \A s \in ToSet(sections) : Belongs(s)
    BY <2>2 DEF ParseInv, Headed
  <2> HIDE DEF closed
  <2> QED BY <1>2, <1>4, <2>1, <2>3 DEF Headed
<1>6. NoContaminatedRun'
  <2>1. ASSUME NEW s \in ToSet(sections'), NEW p \in ToSet(s.atoms)
        PROVE  text[p].kind # "dirty"
    <3>1. p \in DOMAIN text
      BY <1>2, SectionsPoint, LinesPoint
    <3> QED BY <1>1, <3>1, FilingKinds
  <2>2. \A s \in ToSet(sections') : HasNoRun(s)
    BY <2>1, CleanHasNoRun
  <2>3. \A s : HasNoRun(s)' <=> HasNoRun(s)
    BY <1>1 DEF HasNoRun, Undecodable
  <2> QED BY <2>2, <2>3 DEF NoContaminatedRun
<1>7. CurrentSection'
  <2>1. PICK n \in Headers : n = next
    BY <1>1 DEF Headers
  <2>2. Headers' = Headers /\ \A g \in Headers : g \in Nat \ {0}
    BY <1>1 DEF Headers, At
  <2>3. Below(n)'
    BY <1>1, <1>2, <2>1, <2>2, NothingInEmpty DEF Below
  <2> QED BY <2>1, <2>2, <2>3 DEF CurrentSection
<1>8. TextPlaced'
  <2> SUFFICES ASSUME NEW p \in At("text"), p < next + 1 PROVE Placed(p)'
    BY <1>1 DEF TextPlaced, At
  <2>1. p < next
    BY <1>1 DEF At
  <2>2. p \in ToSet(lines) \/ Placed(p)
    BY <1>1, <2>1 DEF ParseInv, TextPlaced
  <2> QED BY <1>2, <2>2
<1>9. TextKinds' /\ TablesPlaced'
  BY <1>1, TablesKeep DEF ParseInv, TextKinds
<1> QED BY <1>5, <1>6, <1>7, <1>8, <1>9 DEF ParseInv

\* A block is collected under the current header.
LEMMA BlockParses ==
    ASSUME DocumentOK, InOrder, ParseInv, ReadBlock
    PROVE  ParseInv'
<1>1. /\ phase = "filing" /\ phase' = "filing" /\ next \in DOMAIN text
      /\ next \in Nat /\ next' = next + 1 /\ text[next].kind # "header"
      /\ lines' = Append(lines, next) /\ text \in Seq(FilingAtom)
      /\ UNCHANGED <<text, raw, tables, tableChunks, kept, name, sections>>
      /\ Len(text) \in Nat /\ DOMAIN text = 1 .. Len(text)
  BY LenProperties DEF ReadBlock, DocumentOK, inputVars, chunkVars, ParseInv, TextKinds
<1>2. ToSet(lines') = ToSet(lines) \cup {next}
  <2>1. lines \in Seq(DOMAIN text)
    BY DEF DocumentOK
  <2> QED BY <1>1, <2>1, AppendAddsOne
<1>3. Headed' /\ NoContaminatedRun' /\ \A p : Placed(p) => Placed(p)'
  BY <1>1, SectionsKeep DEF ParseInv
<1>4. next \notin Headers
  BY <1>1, FilingKinds DEF Headers, At
<1>5. CurrentSection'
  <2>1. PICK h \in Headers \cup {0} : Below(h)
    BY <1>1 DEF ParseInv, CurrentSection
  <2>2. Headers' = Headers /\ \A g \in Headers : g \in Nat \ {0}
    BY <1>1 DEF Headers, At
  <2>3. \A p \in ToSet(lines) : p \in Nat
    BY <1>1, LinesPoint
  <2>4. h \in Nat /\ h < next /\ \A g \in Headers : g < next + 1 => g <= h
    BY <1>1, <1>4, <2>1, <2>2 DEF Below
  <2>5. \A p \in ToSet(lines') : h <= p /\ p < next + 1
    BY <1>1, <1>2, <2>1, <2>3, <2>4 DEF Below
  <2>6. Below(h)'
    BY <1>1, <2>1, <2>2, <2>4, <2>5 DEF Below
  <2> QED BY <2>1, <2>2, <2>6 DEF CurrentSection
<1>6. TextPlaced'
  <2> SUFFICES ASSUME NEW p \in At("text"), p < next + 1
               PROVE  p \in ToSet(lines') \/ Placed(p)'
    BY <1>1 DEF TextPlaced, At
  <2>1. p < next \/ p = next
    BY <1>1 DEF At
  <2>2. p < next => p \in ToSet(lines) \/ Placed(p)
    BY <1>1 DEF ParseInv, TextPlaced
  <2> QED BY <1>2, <1>3, <2>1, <2>2
<1>7. TextKinds' /\ TablesPlaced'
  BY <1>1, TablesKeep DEF ParseInv, TextKinds
<1> QED BY <1>3, <1>5, <1>6, <1>7 DEF ParseInv

\* The end of a filing closes its last section.
LEMMA EndParses ==
    ASSUME DocumentOK, InOrder, ParseInv, EndFiling
    PROVE  ParseInv'
<1> DEFINE closed == [name |-> name, atoms |-> lines]
           empty  == [name |-> "document", atoms |-> <<>>]
<1>1. /\ phase = "filing" /\ phase' = "chunk" /\ next' = next
      /\ next \in Nat /\ Len(text) \in Nat /\ DOMAIN text = 1 .. Len(text) /\ Len(text) < next
      /\ UNCHANGED <<text, raw, tables, tableChunks, kept>> /\ text \in Seq(FilingAtom)
  BY LenProperties DEF EndFiling, DocumentOK, inputVars, chunkVars, ParseInv, TextKinds
<1>2. \A p \in At("text") : p \in ToSet(lines) \/ Placed(p)
  <2>1. \A p \in At("text") : p < next
    BY <1>1 DEF At
  <2> QED BY <1>1, <2>1 DEF ParseInv, TextPlaced
<1>3. /\ \A s \in ToSet(sections') :
            s \in ToSet(sections) \/ s = closed \/ (ToSet(s.atoms) = {} /\ Belongs(s))
      /\ \A p \in At("text") : Placed(p)'
  <2>1. CASE lines = <<>> /\ sections = <<>>
    <3>1. sections' = <<empty>>
      BY <1>1, <2>1 DEF EndFiling
    <3>2. ToSet(sections') = {empty} /\ ToSet(empty.atoms) = {}
      BY <3>1, NothingInEmpty DEF ToSet
    <3>3. Belongs(empty)
      BY <3>2 DEF Belongs
    <3>4. \A p \in At("text") : FALSE
      BY <1>2, <2>1, NothingInEmpty DEF Placed
    <3> HIDE DEF empty
    <3> QED BY <3>2, <3>3, <3>4
  <2>2. CASE ~(lines = <<>> /\ sections = <<>>)
    <3>1. CloseSection
      BY <2>2 DEF EndFiling
    <3>2. \A s \in ToSet(sections') : s \in ToSet(sections) \/ s = closed
      BY <3>1, ClosedSection
    <3>3. \A p : p \in ToSet(lines) \/ Placed(p) => Placed(p)'
      BY <3>1, ClosedSection
    <3> HIDE DEF closed
    <3>4. \A p \in At("text") : Placed(p)'
      BY <1>2, <3>3
    <3> QED BY <3>2, <3>4
  <2> QED BY <2>1, <2>2
<1>4. \A s : Belongs(s)' = Belongs(s)
  BY <1>1 DEF Belongs, Headers, At
<1>5. Headed'
  <2>1. PICK h \in Headers \cup {0} : Below(h)
    BY <1>1 DEF ParseInv, CurrentSection
  <2>2. Belongs(closed)
    BY <2>1, ClosedBelongs
  <2>3. \A p \in At("heading") : FALSE
    BY <1>1, FilingKinds DEF At
  <2>4. \A s \in ToSet(sections) : Belongs(s)
    BY <2>3 DEF ParseInv, Headed
  <2> HIDE DEF closed
  <2> QED BY <1>3, <1>4, <2>2, <2>4 DEF Headed
<1>6. NoContaminatedRun'
  <2>1. ASSUME NEW s \in ToSet(sections'), NEW p \in ToSet(s.atoms)
        PROVE  text[p].kind # "dirty"
    <3>1. p \in DOMAIN text
      BY <1>3, SectionsPoint, LinesPoint
    <3> QED BY <1>1, <3>1, FilingKinds
  <2>2. \A s \in ToSet(sections') : HasNoRun(s)
    BY <2>1, CleanHasNoRun
  <2>3. \A s : HasNoRun(s)' <=> HasNoRun(s)
    BY <1>1 DEF HasNoRun, Undecodable
  <2> QED BY <2>2, <2>3 DEF NoContaminatedRun
<1>7. TextPlaced'
  BY <1>1, <1>3 DEF TextPlaced, At
<1>8. TextKinds' /\ CurrentSection' /\ TablesPlaced'
  BY <1>1, TablesKeep DEF ParseInv, TextKinds, CurrentSection
<1> QED BY <1>5, <1>6, <1>7, <1>8 DEF ParseInv

\* Bounding a Part and choosing its articles.
LEMMA PartParses ==
    ASSUME DocumentOK, InOrder, ParseInv, SlicePart \/ KeepArticles
    PROVE  ParseInv'
<1>1. /\ phase \in {"slice", "articles"} /\ phase' \in {"articles", "cut", "error"}
      /\ sections' = <<>> /\ raw = <<>> /\ raw' = raw /\ text \in Seq(PartAtom)
  BY DEF SlicePart, KeepArticles, InOrder, ParseInv, TablesPlaced, TextKinds, inputVars
<1>2. Headed' /\ NoContaminatedRun'
  BY <1>1, NothingInEmpty DEF Headed, NoContaminatedRun
<1>3. TextKinds'
  <2>1. CASE KeepArticles
    BY <1>1, <2>1 DEF KeepArticles, TextKinds, inputVars, IsKept, At
  <2>2. ASSUME NEW b \in At("begin"), NEW e \in At("end"), text' = SubSeq(text, b, e - 1),
               phase' = "articles"
        PROVE  TextKinds'
    <3>1. b \in DOMAIN text /\ e \in DOMAIN text
      BY DEF At
    <3>2. b \in Int /\ e - 1 \in Int /\ \A i \in b .. e - 1 : text[i] \in PartAtom
      BY <1>1, <3>1, LenProperties, ElementOfSeq
    <3>3. text' \in Seq(PartAtom)
      BY <2>2, <3>2, SubSeqProperties
    <3> QED BY <2>2, <3>3 DEF TextKinds
  <2>3. CASE SlicePart
    <3>1. CASE phase' = "error"
      BY <3>1 DEF TextKinds
    <3>2. CASE phase' # "error"
      BY <2>2, <2>3, <3>2 DEF SlicePart
    <3> QED BY <3>1, <3>2
  <2> QED BY <2>1, <2>3
<1>4. CurrentSection' /\ TextPlaced' /\ TablesPlaced'
  BY <1>1 DEF CurrentSection, TextPlaced, TablesPlaced
<1> QED BY <1>2, <1>3, <1>4 DEF ParseInv

\* The section of an article is the heading at p and the positions behind it.
LEMMA ArticleAtoms ==
    ASSUME NEW n \in Nat, NEW p \in 1 .. n, NEW end \in 1 .. n + 1, p < end,
           NEW clean \in 0 .. Len(Body(p, end))
    PROVE  /\ Len(Body(p, end)) = end - p - 1
           /\ DOMAIN Body(p, end) = 1 .. end - p - 1
           /\ \A k \in 1 .. end - p - 1 : Body(p, end)[k] = p + k
           /\ <<p>> \o SubSeq(Body(p, end), 1, clean) \in Seq(1 .. n)
           /\ ToSet(<<p>> \o SubSeq(Body(p, end), 1, clean)) \subseteq p .. p + clean
<1> DEFINE body == Body(p, end)
           cut  == SubSeq(body, 1, clean)
           atoms == <<p>> \o cut
<1>1. /\ end - p - 1 \in Nat /\ DOMAIN body = 1 .. end - p - 1
      /\ \A k \in 1 .. end - p - 1 : body[k] = p + k
  BY DEF Body
<1>2. body \in Seq(1 .. n) /\ Len(body) = end - p - 1
  <2>1. \A k \in 1 .. end - p - 1 : p + k \in 1 .. n
    OBVIOUS
  <2>2. body \in Seq(1 .. n)
    BY <1>1, <2>1, SeqDef DEF Body
  <2> QED BY <1>1, <2>2, LenProperties
<1>10. clean \in 0 .. end - p - 1
  BY <1>2
<1> HIDE DEF body
<1>3. \A i \in 1 .. clean : body[i] \in 1 .. n
  BY <1>1, <1>2, <1>10
<1>4. /\ cut \in Seq(1 .. n) /\ Len(cut) = clean
      /\ \A k \in 1 .. clean : cut[k] = body[k]
  <2>1. 1 \in Int /\ clean \in Int
    BY <1>2 DEF body
  <2>2. cut \in Seq(1 .. n)
    BY <1>3, <2>1, SubSeqProperties
  <2>3. Len(cut) = clean /\ \A k \in 1 .. clean : cut[k] = body[1 + k - 1]
    BY <1>2, <1>3, <2>1, SubSeqProperties DEF body
  <2> QED BY <2>1, <2>2, <2>3
<1> HIDE DEF cut
<1>5. /\ atoms \in Seq(1 .. n) /\ Len(atoms) = 1 + clean
      /\ atoms[1] = p /\ \A k \in 1 .. clean : atoms[k + 1] = cut[k]
  <2>1. <<p>> \in Seq(1 .. n) /\ Len(<<p>>) = 1 /\ <<p>>[1] = p
    OBVIOUS
  <2>2. clean \in Nat
    BY <1>10
  <2>3. \A k \in 1 .. clean : k + 1 \in 1 .. 1 + clean /\ (k + 1) - 1 = k /\ k + 1 > 1
    BY <2>2
  <2> QED BY <1>4, <2>1, <2>2, <2>3, ConcatProperties
<1> HIDE DEF atoms
<1>6. ToSet(atoms) \subseteq p .. p + clean
  <2> SUFFICES ASSUME NEW q \in ToSet(atoms) PROVE q \in p .. p + clean
    OBVIOUS
  <2>1. PICK i \in 1 .. 1 + clean : q = atoms[i]
    BY <1>5, LenProperties DEF ToSet
  <2>2. clean \in Nat /\ clean <= end - p - 1
    BY <1>2 DEF body
  <2>3. CASE i = 1
    BY <1>5, <2>1, <2>2, <2>3
  <2>4. CASE i # 1
    <3>1. PICK k \in 1 .. clean : i = k + 1
      <4>1. i - 1 \in 1 .. clean /\ i = (i - 1) + 1
        BY <2>1, <2>2, <2>4
      <4> QED BY <4>1
    <3>2. q = body[k] /\ k \in 1 .. end - p - 1
      BY <1>4, <1>5, <2>1, <2>2, <3>1
    <3> QED BY <1>1, <2>2, <3>2
  <2> QED BY <2>3, <2>4
<1> QED BY <1>1, <1>2, <1>5, <1>6 DEF body, cut, atoms

\* Of any number n of characters, the last window that starts at or before the
\* n-th starts less than a step before it.
LEMMA LastStart ==
    ASSUME NEW n \in Nat
    PROVE  \E a \in Nat : a <= n /\ n - a < Step /\ a % Step = 0
<1> DEFINE q == n \div Step
           a == Step * q
           m == a % Step
           d == a \div Step
<1>0. Step \in Nat \ {0}
  BY WindowAssumption
<1>1. q \in Nat /\ n = Step * q + (n % Step) /\ n % Step \in 0 .. Step - 1
  BY <1>0
<1>2. a \in Nat /\ a <= n /\ n - a < Step
  BY <1>0, <1>1
<1> HIDE DEF q
<1>3. d \in Nat /\ m \in 0 .. Step - 1 /\ Step * q = Step * d + m
  BY <1>0, <1>1, <1>2
<1> HIDE DEF a, m, d
<1>4. m = 0
  <2>1. Step * (q - d) = m
    BY <1>0, <1>1, <1>3
  <2>2. CASE q - d >= 1
    <3>1. Step * (q - d) >= Step * 1
      BY <1>0, <1>1, <1>3, <2>2
    <3> QED BY <1>0, <1>3, <2>1, <3>1
  <2>3. CASE q - d <= 0
    <3>1. Step * (q - d) <= 0
      BY <1>0, <1>1, <1>3, <2>3
    <3> QED BY <1>3, <2>1, <3>1
  <2> QED BY <1>1, <1>3, <2>2, <2>3
<1> QED BY <1>2, <1>4 DEF m

LEMMA ScaledOrder ==
    ASSUME NEW t \in Nat, NEW a \in Nat, NEW b \in Nat, a <= b
    PROVE  t * a <= t * b
OBVIOUS

\* A window that is not contaminated bounds what is undecodable in any part of it.
LEMMA WindowBounds ==
    ASSUME NEW p \in Nat, NEW n \in Nat, NEW k \in Nat,
           NEW body, DOMAIN body = 1 .. n, \A l \in 1 .. n : body[l] = p + l,
           ~IsContaminated(body, k),
           NEW U, \A q \in U : q \in WindowAt(body, k) /\ text[q].kind = "dirty"
    PROVE  Tolerance * Cardinality(U) <= Window
<1> DEFINE W == WindowAt(body, k)
           D == {q \in W : text[q].kind = "dirty"}
<1>1. W \subseteq p + k + 1 .. p + k + Window
  <2> SUFFICES ASSUME NEW q \in W PROVE q \in p + k + 1 .. p + k + Window
    OBVIOUS
  <2>1. PICK l \in (k + 1 .. k + Window) \cap DOMAIN body : q = body[l]
    BY DEF WindowAt
  <2>2. l \in Int /\ k + 1 <= l /\ l <= k + Window /\ q = p + l
    BY <2>1, WindowAssumption
  <2> QED BY <2>2, WindowAssumption
<1>2. /\ IsFiniteSet(p + k + 1 .. p + k + Window)
      /\ Cardinality(p + k + 1 .. p + k + Window) = Window
  <2>1. p + k + 1 \in Int /\ p + k + Window \in Int /\ p + k + 1 <= p + k + Window
    BY WindowAssumption
  <2>2. (p + k + Window) - (p + k + 1) + 1 = Window
    BY WindowAssumption
  <2> QED BY <2>1, <2>2, FS_Interval
<1> HIDE DEF W
<1>3. IsFiniteSet(W) /\ Cardinality(W) <= Window
  BY <1>1, <1>2, FS_Subset
<1>4. IsFiniteSet(D) /\ IsFiniteSet(U) /\ Cardinality(U) <= Cardinality(D)
  <2>1. IsFiniteSet(D)
    BY <1>3, FS_Subset
  <2>2. U \subseteq D
    BY DEF W
  <2> QED BY <2>1, <2>2, FS_Subset
<1>5. Cardinality(D) \in Nat /\ Cardinality(U) \in Nat /\ Cardinality(W) \in Nat
  BY <1>3, <1>4, FS_CardinalityType
<1>6. ~(Tolerance * Cardinality(D) > Cardinality(W))
  BY DEF IsContaminated, D, W
<1>7. Tolerance * Cardinality(U) <= Tolerance * Cardinality(D)
  BY <1>4, <1>5, ScaledOrder, ToleranceAssumption
<1> HIDE DEF D
<1>8. /\ Tolerance * Cardinality(D) \in Nat /\ Tolerance * Cardinality(U) \in Nat
  BY <1>5, ToleranceAssumption
<1> QED BY <1>3, <1>5, <1>6, <1>7, <1>8, WindowAssumption

\* The stretch behind any character of what is kept lies in one of the windows
\* that passed.
LEMMA CutHasNoRun ==
    ASSUME NEW p \in Nat, NEW n \in Nat, NEW clean \in 0 .. n,
           NEW body, DOMAIN body = 1 .. n, Len(body) = n,
           \A l \in 1 .. n : body[l] = p + l,
           IsCut(body, clean), text[p].kind # "dirty",
           NEW s, ToSet(s.atoms) \subseteq p .. p + clean
    PROVE  HasNoRun(s)
<1> SUFFICES ASSUME NEW q \in ToSet(s.atoms)
             PROVE  Tolerance * Cardinality(Undecodable(s, q)) <= Window
  BY DEF HasNoRun
<1> DEFINE U == Undecodable(s, q)
<1>0. q \in Int /\ p <= q /\ q <= p + clean /\ clean \in Nat
  OBVIOUS
<1>1. ASSUME NEW u \in U
      PROVE  /\ u \in Int /\ p < u /\ u <= p + clean /\ text[u].kind = "dirty"
             /\ q <= u /\ u <= q + Window - Step
  <2>1. /\ u \in p .. p + clean /\ text[u].kind = "dirty"
        /\ q <= u /\ u <= q + Window - Step
    BY DEF Undecodable
  <2> QED BY <2>1, <1>0
<1> HIDE DEF U
<1>2. CASE U = {}
  BY <1>2, FS_EmptySet, WindowAssumption, ToleranceAssumption DEF U
<1>3. CASE U # {}
  <2>1. clean > 0
    <3>1. PICK u \in U : TRUE
      BY <1>3
    <3> QED BY <1>0, <1>1, <3>1
  <2>2. PICK i \in Nat : /\ i < clean /\ q <= p + i + 1
                         /\ (q = p /\ i = 0) \/ q = p + i + 1
    <3>1. CASE q = p
      <4>1. 0 \in Nat /\ 0 < clean /\ q <= p + 0 + 1
        BY <1>0, <2>1, <3>1
      <4> QED BY <3>1, <4>1
    <3>2. CASE q # p
      <4>1. q - p - 1 \in Nat /\ q - p - 1 < clean /\ q = p + (q - p - 1) + 1
        BY <1>0, <3>2
      <4>2. q <= p + (q - p - 1) + 1
        BY <1>0
      <4> QED BY <4>1, <4>2
    <3> QED BY <3>1, <3>2
  <2>3. PICK a \in Nat : a <= i /\ i - a < Step /\ a % Step = 0
    BY LastStart
  <2>4. a \in Starts(body) /\ a < clean
    BY <1>0, <2>2, <2>3 DEF Starts
  <2>5. ~IsContaminated(body, a)
    BY <2>4 DEF IsCut
  <2>6. ASSUME NEW u \in U PROVE u \in WindowAt(body, a) /\ text[u].kind = "dirty"
    <3>1. u - p \in (a + 1 .. a + Window) \cap DOMAIN body
      <4>1. u - p \in Int /\ a + 1 <= u - p
        <5>1. CASE q = p + i + 1
          BY <1>0, <1>1, <2>2, <2>3, <2>6, <5>1
        <5>2. CASE q = p /\ i = 0
          BY <1>0, <1>1, <2>3, <2>6, <5>2
        <5> QED BY <2>2, <2>3, <5>1, <5>2
      <4>2. u - p <= a + Window
        BY <1>0, <1>1, <2>2, <2>3, <2>6, WindowAssumption
      <4>3. u - p <= n
        BY <1>0, <1>1, <2>6
      <4> QED BY <4>1, <4>2, <4>3, WindowAssumption
    <3>2. body[u - p] = u
      <4>1. u - p \in 1 .. n /\ p + (u - p) = u
        BY <1>1, <2>6, <3>1
      <4> QED BY <4>1
    <3> QED BY <1>1, <2>6, <3>1, <3>2 DEF WindowAt
  <2> QED BY <2>5, <2>6, WindowBounds DEF U
<1> QED BY <1>2, <1>3

\* What is cut off an article leaves text between two kept headings, without a run
\* of undecodable characters.
LEMMA ArticleParses ==
    ASSUME DocumentOK, InOrder, ParseInv, CutArticle
    PROVE  ParseInv'
<1>1. PICK p \in kept, end \in kept \cup {Len(text) + 1} :
        LET body == Body(p, end) IN
        /\ phase = "cut" /\ IsNextArticle(p, end)
        /\ \E clean \in 0 .. Len(body) :
              /\ IsCut(body, clean)
              /\ \/ /\ clean < Len(body)
                    /\ UNCHANGED sections
                 \/ /\ clean = Len(body) \/ clean > 0
                    /\ sections' = Append(sections, [name  |-> text[p].name,
                                                     atoms |-> <<p>> \o SubSeq(body, 1, clean)])
        /\ next' = p + 1
        /\ UNCHANGED <<phase, inputVars, parseVars, tables, chunkVars>>
  BY DEF CutArticle
<1>2. PICK clean \in 0 .. Len(Body(p, end)) :
        /\ IsCut(Body(p, end), clean)
        /\ \/ UNCHANGED sections
           \/ sections' = Append(sections, [name  |-> text[p].name,
                                            atoms |-> <<p>> \o SubSeq(Body(p, end), 1, clean)])
  BY <1>1
<1>3. /\ phase = "cut" /\ phase' = "cut" /\ text \in Seq(PartAtom)
      /\ UNCHANGED <<text, raw, tables, tableChunks, kept>>
      /\ Len(text) \in Nat /\ DOMAIN text = 1 .. Len(text)
      /\ p \in 1 .. Len(text) /\ end \in 1 .. Len(text) + 1 /\ p < end
      /\ \A q \in kept : q <= p \/ end <= q
      /\ kept = {q \in DOMAIN text : IsKept(q)} /\ p \in At("heading")
  BY <1>1, LenProperties
     DEF DocumentOK, InOrder, ParseInv, TextKinds, IsNextArticle, inputVars, parseVars, chunkVars
<1> DEFINE body == Body(p, end)
           atoms == <<p>> \o SubSeq(body, 1, clean)
           new == [name |-> text[p].name, atoms |-> atoms]
<1>4. /\ Len(body) = end - p - 1 /\ DOMAIN body = 1 .. end - p - 1
      /\ \A k \in 1 .. end - p - 1 : body[k] = p + k
      /\ atoms \in Seq(1 .. Len(text)) /\ ToSet(atoms) \subseteq p .. p + clean
  <2>1. PICK n \in Nat : n = Len(text)
    BY <1>3
  <2>2. p \in 1 .. n /\ end \in 1 .. n + 1 /\ p < end
    BY <1>3, <2>1
  <2>3. clean \in 0 .. Len(Body(p, end))
    OBVIOUS
  <2>4. /\ Len(Body(p, end)) = end - p - 1
        /\ DOMAIN Body(p, end) = 1 .. end - p - 1
        /\ \A k \in 1 .. end - p - 1 : Body(p, end)[k] = p + k
        /\ <<p>> \o SubSeq(Body(p, end), 1, clean) \in Seq(1 .. n)
        /\ ToSet(<<p>> \o SubSeq(Body(p, end), 1, clean)) \subseteq p .. p + clean
    BY ONLY <2>2, <2>3, ArticleAtoms
  <2> QED BY <2>1, <2>4
<1> HIDE DEF body, atoms
<1>5. \A s \in ToSet(sections') : s \in ToSet(sections) \/ s = new
  <2> DEFINE Section == [name : Names \cup {"document"}, atoms : Seq(DOMAIN text)]
  <2>1. new \in Section /\ sections \in Seq(Section)
    BY <1>3, <1>4, HeadersAreNamed DEF DocumentOK, At
  <2> HIDE DEF Section, new
  <2>2. CASE sections' = Append(sections, new)
    BY <2>1, <2>2, AppendAddsOne
  <2> QED BY <1>2, <2>2 DEF new, atoms, body
<1>6. clean \in Nat /\ clean <= end - p - 1
  BY <1>2, <1>4 DEF body
<1>7. NoContaminatedRun'
  <2>1. HasNoRun(new)
    <3>1. p \in Nat /\ end - p - 1 \in Nat /\ clean \in 0 .. end - p - 1
      BY <1>3, <1>6
    <3>2. IsCut(body, clean) /\ text[p].kind # "dirty"
      BY <1>2, <1>3 DEF At, body
    <3>3. ToSet(new.atoms) \subseteq p .. p + clean
      BY <1>4
    <3> HIDE DEF new
    <3> QED BY <1>4, <3>1, <3>2, <3>3, CutHasNoRun
  <2>2. \A s \in ToSet(sections') : HasNoRun(s)
    BY <1>5, <2>1 DEF ParseInv, NoContaminatedRun
  <2>3. \A s : HasNoRun(s)' <=> HasNoRun(s)
    BY <1>3 DEF HasNoRun, Undecodable
  <2> QED BY <2>2, <2>3 DEF NoContaminatedRun
<1>8. Headed'
  <2> SUFFICES ASSUME \A q \in At("heading") : IsKept(q), NEW s \in ToSet(sections')
               PROVE  Belongs(s)
    BY <1>3 DEF Headed, Belongs, Headers, At, IsKept
  <2>1. CASE s \in ToSet(sections)
    BY <2>1 DEF ParseInv, Headed
  <2>2. CASE s = new
    <3>1. Headers = kept /\ p \in Headers /\ p # 0
      BY <1>3, PartKinds DEF Headers, At, IsKept
    <3>2. ASSUME NEW q \in ToSet(atoms), NEW g \in Headers, g <= q
          PROVE  p <= q /\ g <= p
      <4>1. q \in Int /\ g \in Int /\ p <= q /\ q < end
        BY <1>3, <1>4, <1>6, <3>1, <3>2
      <4> QED BY <1>3, <3>1, <3>2, <4>1
    <3>3. \A q \in ToSet(atoms) : p <= q
      BY <1>3, <1>4, <1>6
    <3> QED BY <2>2, <3>1, <3>2, <3>3 DEF Belongs
  <2> QED BY <1>5, <2>1, <2>2
<1>9. TextKinds' /\ CurrentSection' /\ TextPlaced' /\ TablesPlaced'
  BY <1>3, TablesKeep DEF ParseInv, TextKinds, CurrentSection, TextPlaced, IsKept, At
<1> QED BY <1>7, <1>8, <1>9 DEF ParseInv

\* A Part has no plain text to lose.
LEMMA PartEnds ==
    ASSUME DocumentOK, InOrder, ParseInv, EndPart
    PROVE  ParseInv'
<1>1. /\ phase = "cut" /\ phase' \in {"chunk", "error"} /\ text \in Seq(PartAtom)
      /\ raw = <<>> /\ UNCHANGED <<text, raw, sections>>
  BY DEF EndPart, ParseInv, TextKinds, TablesPlaced, inputVars
<1>2. Headed' /\ NoContaminatedRun'
  BY <1>1, SectionsKeep DEF ParseInv
<1>3. TextPlaced'
  BY <1>1, PartKinds DEF TextPlaced, At
<1>4. TextKinds' /\ CurrentSection' /\ TablesPlaced'
  BY <1>1 DEF TextKinds, CurrentSection, TablesPlaced
<1> QED BY <1>2, <1>3, <1>4 DEF ParseInv

\* Chunking leaves the sections and the tables as they were.
LEMMA ChunkingParses ==
    ASSUME ParseInv, Chunking
    PROVE  ParseInv'
<1>1. /\ phase = "chunk" /\ phase' \in {"chunk", "done", "error"}
      /\ UNCHANGED <<text, raw, tables, sections>>
      /\ phase' = "done" =>
            tableChunks' = {[table |-> x.table, rows |-> x.headers \cup x.rows] : x \in tables}
  BY DEF Chunking, Refuse, ChunkWhole, ChunkWindow, EndChunks, inputVars
<1>2. Headed' /\ NoContaminatedRun'
  BY <1>1, SectionsKeep DEF ParseInv
<1>3. TextPlaced'
  BY <1>1 DEF ParseInv, TextPlaced, Placed, At
<1>4. TextKinds' /\ CurrentSection' /\ TablesPlaced'
  BY <1>1 DEF ParseInv, TextKinds, CurrentSection, TablesPlaced, TextRows
<1> QED BY <1>2, <1>3, <1>4 DEF ParseInv

LEMMA ParseInvInit == TextInit => ParseInv
<1> SUFFICES ASSUME TextInit PROVE ParseInv
  OBVIOUS
<1>1. Below(0)
  BY NothingInEmpty DEF TextInit, Below, Headers, At
<1>2. CurrentSection
  BY <1>1 DEF CurrentSection
<1>3. Headed /\ NoContaminatedRun
  BY NoSectionsYet DEF TextInit
<1> QED BY <1>2, <1>3 DEF TextInit, ParseInv, TextKinds, TextPlaced, TablesPlaced

LEMMA ParseInvStep == TextInv /\ ParseInv /\ [TextNext]_textVars => ParseInv'
<1> SUFFICES ASSUME TextInv, ParseInv, [TextNext]_textVars PROVE ParseInv'
  OBVIOUS
<1>1. DocumentOK /\ InOrder
  BY DEF TextInv
<1>2. CASE Read
  BY <1>1, <1>2, ReadParses
<1>3. CASE ExtractTables \/ ReadHeader \/ ReadBlock \/ EndFiling
  BY <1>1, <1>3, TablesParse, HeaderParses, BlockParses, EndParses
<1>4. CASE SlicePart \/ KeepArticles \/ CutArticle \/ EndPart
  BY <1>1, <1>4, PartParses, ArticleParses, PartEnds
<1>5. CASE Chunking
  BY <1>5, ChunkingParses
<1>6. CASE UNCHANGED textVars
  <2>1. UNCHANGED <<phase, text, raw, next, name, lines, kept, sections, tables, tableChunks>>
    BY <1>6 DEF textVars
  <2>2. Headed' /\ NoContaminatedRun' /\ TextKinds' /\ TablesPlaced'
    BY <2>1, SectionsKeep DEF ParseInv, TextKinds, TablesPlaced, TextRows, IsKept, At
  <2>3. TextPlaced'
    BY <2>1 DEF ParseInv, TextPlaced, Placed, At
  <2>4. CurrentSection'
    <3>1. \A h : Below(h) => Below(h)'
      BY <2>1 DEF Below, Headers, At
    <3> QED BY <2>1, <3>1 DEF ParseInv, CurrentSection, Headers, At
  <2> QED BY <2>2, <2>3, <2>4 DEF ParseInv
<1> QED BY <1>2, <1>3, <1>4, <1>5, <1>6 DEF TextNext, TextStep, Chunking

LEMMA ParseInvariant == TextSpec => []ParseInv
<1>1. TextSpec => [](TextInv /\ ParseInv)
  <2>1. TextInit => TextInv /\ ParseInv
    BY TextInvInit, ParseInvInit
  <2>2. (TextInv /\ ParseInv) /\ [TextNext]_textVars => (TextInv /\ ParseInv)'
    BY TextInvStep, ParseInvStep
  <2> QED BY <2>1, <2>2, PTL DEF TextSpec
<1> QED BY <1>1, PTL

\* Whatever the document, each block of a filing reaches a section and each row with
\* text of its tables the chunk of its table.
THEOREM NothingIsSkipped == TextSpec => []NothingIsLost
<1>1. ParseInv => NothingIsLost
  <2> SUFFICES ASSUME ParseInv, phase = "done" PROVE NothingIsLost
    BY DEF NothingIsLost
  <2>1. \A p \in At("text") : \E s \in DOMAIN sections : p \in ToSet(sections[s].atoms)
    <3>1. \A p \in At("text") : Placed(p)
      BY DEF ParseInv, TextPlaced
    <3> QED BY <3>1 DEF Placed, ToSet
  <2>2. ASSUME NEW t \in DOMAIN raw, NEW i \in DOMAIN raw[t], ~raw[t][i].blank
        PROVE  \E c \in tableChunks : c.table = t /\ i \in c.rows
    <3>1. i \in TextRows(t)
      BY <2>2 DEF TextRows
    <3>2. PICK x \in tables : x.table = t /\ x.headers \cup x.rows = TextRows(t)
      BY <3>1 DEF ParseInv, TablesPlaced
    <3> DEFINE c == [table |-> x.table, rows |-> x.headers \cup x.rows]
    <3>3. c \in tableChunks
      BY DEF ParseInv, TablesPlaced
    <3> QED BY <3>1, <3>2, <3>3
  <2> QED BY <2>1, <2>2 DEF NothingIsLost
<1> QED BY ParseInvariant, <1>1, PTL

\* Whatever the document, a section holds only text that stands between its own
\* header and the next, as long as no heading of a Part is dropped.
THEOREM SectionsUnderTheirHeader == TextSpec => []SectionsKeepToTheirHeader
<1>1. ParseInv => SectionsKeepToTheirHeader
  BY DEF ParseInv, Headed, SectionsKeepToTheirHeader
<1> QED BY ParseInvariant, <1>1, PTL

\* For every window, step and tolerance of _truncate_at_contamination, and every
\* document, no run of undecodable text is kept: any stretch of a section that is
\* a step shorter than a window, and one character longer than that, passes the
\* test of a window.
THEOREM NoRunIsKept == TextSpec => []NoContaminatedRun
<1>1. ParseInv => NoContaminatedRun
  BY DEF ParseInv
<1> QED BY ParseInvariant, <1>1, PTL

=============================================================================
