---------------------------- MODULE DocumentText ----------------------------
(***************************************************************************)
(* From one document to its chunks: an HTML filing is cut into sections at *)
(* its item headers (src/rag/ingestion/parser.py), a Part of the           *)
(* Constitution into articles (src/rag/ingestion/india_code.py), and the   *)
(* sections of either into overlapping windows of tokens                   *)
(* (src/rag/chunking/chunker.py).                                          *)
(*                                                                         *)
(* A text is a sequence of atoms, and an atom is known by its position. An *)
(* atom of a filing is what one element leaves after cleaning; an atom of  *)
(* a Part is a marker, an article heading or one character of body text.   *)
(* Every atom counts for one token. Elements without text, which the       *)
(* parser skips, are not part of the input.                                *)
(***************************************************************************)
EXTENDS Integers, FiniteSets, SequencesExt

CONSTANTS
    Names,       \* item names and article numbers
    Filings,     \* what the elements of a filing may hold: sequences of atoms
    Parts,       \* what the pages of a Part may hold
    Tables,      \* the tables a filing may hold: sequences of sequences of rows
    ChunkSizes,  \* <<chunk_size_tokens, overlap_tokens>>, as callers may give them
    Window,      \* _truncate_at_contamination: its window in characters (60),
    Step,        \* the distance between the starts of two windows (20),
    Tolerance    \* and one undecodable character in so many passes (10)

\* A short block that matches _ITEM_HEADER_PATTERN, and any other.
FilingAtom == [kind : {"header"}, name : Names] \cup [kind : {"text"}]

\* The markers the caller bounds a Part with, the headings _ARTICLE_PATTERN finds
\* in the range of the Part (others count as text), and the characters of body
\* text: "clean" ones are ASCII, "dirty" ones are not, which is how the code
\* recognises text the PDF's fonts did not decode. A replacement character of a
\* body is clean: it becomes " - " before the check (line 140).
PartAtom == [kind : {"begin", "end", "clean", "dirty"}]
            \cup [kind : {"heading"}, name : Names, garbled : BOOLEAN]

Row == [th : BOOLEAN, blank : BOOLEAN]

ASSUME FilingsAssumption == Filings \subseteq Seq(FilingAtom)
ASSUME PartsAssumption   == Parts \subseteq Seq(PartAtom)
ASSUME TablesAssumption  == Tables \subseteq Seq(Seq(Row) \ {<<>>})
ASSUME SizesAssumption   == ChunkSizes \subseteq (Nat \ {0}) \X Nat
ASSUME WindowAssumption  == Window \in Nat \ {0} /\ Step \in 1 .. Window
ASSUME ToleranceAssumption == Tolerance \in Nat \ {0}
ASSUME NamesAssumption   == "document" \notin Names

VARIABLES
    phase,
    text,      \* the atoms
    next,      \* the next atom to look at
    name,      \* current_name
    lines,     \* current_lines: positions of atoms
    kept,      \* the positions of the headings of kept articles
    sections,  \* [name, atoms]: positions in the text
    raw,       \* the tables of the filing
    tables,    \* the extracted ones: [table, headers, rows], as sets of row numbers
    sizes,     \* <<chunk size, overlap>>
    section,   \* the section being chunked
    start,     \* where its next window starts
    index,     \* chunk_index of the next chunk of the section
    chunks,    \* text chunks: [section, index, from, to], tokens from .. to-1
    tableChunks  \* [table, rows]

inputVars == <<text, raw, sizes>>
parseVars == <<name, lines, kept>>
chunkVars == <<section, start, index, chunks, tableChunks>>
textVars == <<phase, text, raw, sizes, next, name, lines, kept, sections, tables,
          section, start, index, chunks, tableChunks>>

TextInit ==
    /\ phase = "read"
    /\ text = <<>> /\ raw = <<>> /\ sizes = <<1, 0>> /\ tables = {}
    /\ next = 1 /\ name = "document" /\ lines = <<>> /\ kept = {}
    /\ sections = <<>>
    /\ section = 1 /\ start = 0 /\ index = 0
    /\ chunks = {} /\ tableChunks = {}

-----------------------------------------------------------------------------
(* parse_filing_html.                                                       *)

\* The rows of table t with text, and the first of them.
TextRows(t) == {i \in DOMAIN raw[t] : ~raw[t][i].blank}

FirstOf(rows) == {i \in rows : \A k \in rows : i <= k}

\* Mutant: the header is the first row, whether it has text or not.
Extracted_FirstRow(t) ==
    [table |-> t,
     headers |-> IF raw[t][1].th THEN TextRows(t) \cap {1} ELSE {},
     rows |-> IF raw[t][1].th THEN TextRows(t) \ FirstOf(TextRows(t)) ELSE TextRows(t)]

\* The first row with text is the header when the first row of the table has th
\* cells.
Extracted(t) ==
    LET header == IF raw[t][1].th THEN FirstOf(TextRows(t)) ELSE {}
    IN  [table |-> t, headers |-> header, rows |-> TextRows(t) \ header]

ReadFiling ==
    /\ phase = "read"
    /\ text' \in Filings /\ sizes' \in ChunkSizes /\ raw' \in Tables
    /\ phase' = "tables"
    /\ UNCHANGED <<next, tables, parseVars, sections, chunkVars>>

\* Tables without text are dropped; the sections are cut from what is left.
ExtractTables ==
    /\ phase = "tables"
    /\ tables' = {Extracted(t) : t \in {u \in DOMAIN raw : TextRows(u) # {}}}
    /\ phase' = "filing"
    /\ UNCHANGED <<inputVars, next, parseVars, sections, chunkVars>>

\* Mutant: the lines of a section are not dropped when it ends.
CloseSection_KeepsLines ==
    /\ sections' = IF lines = <<>> THEN sections
                   ELSE Append(sections, [name |-> name, atoms |-> lines])
    /\ UNCHANGED lines

\* A header without text below it leaves no section.
CloseSection ==
    /\ sections' = IF lines = <<>> THEN sections
                   ELSE Append(sections, [name |-> name, atoms |-> lines])
    /\ lines' = <<>>

ReadHeader ==
    /\ phase = "filing"
    /\ next <= Len(text) /\ text[next].kind = "header"
    /\ CloseSection
    /\ name' = text[next].name
    /\ next' = next + 1
    /\ UNCHANGED <<phase, inputVars, tables, kept, chunkVars>>

ReadBlock ==
    /\ phase = "filing"
    /\ next <= Len(text) /\ text[next].kind # "header"
    /\ lines' = Append(lines, next)
    /\ next' = next + 1
    /\ UNCHANGED <<phase, inputVars, tables, name, kept, sections, chunkVars>>

\* Mutant: the last section is left open.
EndFiling_DropsLast ==
    /\ phase = "filing" /\ next > Len(text)
    /\ phase' = "chunk"
    /\ UNCHANGED <<inputVars, tables, next, sections, parseVars, chunkVars>>

\* A filing without any text has one empty section.
EndFiling ==
    /\ phase = "filing" /\ next > Len(text)
    /\ IF lines = <<>> /\ sections = <<>>
       THEN /\ sections' = <<[name |-> "document", atoms |-> <<>>]>>
            /\ UNCHANGED lines
       ELSE CloseSection
    /\ phase' = "chunk"
    /\ UNCHANGED <<inputVars, tables, next, name, kept, chunkVars>>

-----------------------------------------------------------------------------
(* slice_between_markers and parse_articles.                                *)

ReadPart ==
    /\ phase = "read"
    /\ text' \in Parts /\ sizes' \in ChunkSizes
    /\ phase' = "slice"
    /\ UNCHANGED <<raw, next, tables, parseVars, sections, chunkVars>>

At(kind) == {p \in DOMAIN text : text[p].kind = kind}

\* The Part is what lies between the first begin marker and the first end marker
\* after it; without them the caller gets an error.
SlicePart ==
    /\ phase = "slice"
    /\ \/ \E b \in At("begin"), e \in At("end") :
             /\ b < e
             /\ \A p \in At("begin") : b <= p
             /\ \A p \in At("end") : p < b \/ e <= p
             /\ text' = SubSeq(text, b, e - 1)
             /\ phase' = "articles"
       \/ /\ \A b \in At("begin"), e \in At("end") : e < b
          /\ phase' = "error"
          /\ UNCHANGED text
    /\ UNCHANGED <<raw, sizes, next, tables, parseVars, sections, chunkVars>>

\* A heading is kept when its title is not garbled, and once per number.
IsKept(p) ==
    /\ p \in At("heading") /\ ~text[p].garbled
    /\ \A q \in At("heading") :
          q < p => text[q].garbled \/ text[q].name # text[p].name

KeepArticles ==
    /\ phase = "articles"
    /\ kept' = {p \in DOMAIN text : IsKept(p)}
    /\ phase' = IF kept' = {} THEN "error" ELSE "cut"
    /\ UNCHANGED <<inputVars, next, name, lines, sections, tables, chunkVars>>

\* The next kept article is that of the heading at p; its body reaches to the next
\* kept heading or the end of the Part.
IsNextArticle(p, end) ==
    /\ next <= p /\ \A q \in kept : q < next \/ p <= q
    /\ p < end /\ \A q \in kept : q <= p \/ end <= q

Body(p, end) == [k \in 1 .. end - p - 1 |-> p + k]

\* The window that starts behind the first k characters; the last ones are short.
WindowAt(body, k) == {body[l] : l \in (k + 1 .. k + Window) \cap DOMAIN body}

\* A window is contaminated when fewer than nine in ten of its characters are
\* ASCII: the ratio counts, so a stray character passes in a full window.
IsContaminated(body, k) ==
    LET window == WindowAt(body, k) IN
    Tolerance * Cardinality({q \in window : text[q].kind = "dirty"}) > Cardinality(window)

\* Mutant: the windows lie side by side.
Starts_NoOverlap(body) == {k \in 0 .. Len(body) - 1 : k % Window = 0}

\* Mutant: only full windows are looked at.
Starts_FullWindows(body) == {k \in 0 .. Len(body) - Window : k % Step = 0}

Starts(body) == {k \in 0 .. Len(body) - 1 : k % Step = 0}

\* What is kept of a body is what comes before the first contaminated window, if
\* there is one: up to its start, be the characters there clean or not.
IsCut(body, clean) ==
    /\ \A k \in Starts(body) : k < clean => ~IsContaminated(body, k)
    /\ clean < Len(body) => clean \in Starts(body) /\ IsContaminated(body, clean)

\* A truncated article that keeps less than 20 characters when its blanks are
\* collapsed is dropped. Which characters are blank is left open, so any may be;
\* one that keeps nothing always is.
CutArticle ==
    \E p \in kept, end \in kept \cup {Len(text) + 1} :
        LET body == Body(p, end) IN
        /\ phase = "cut" /\ IsNextArticle(p, end)
        /\ \E clean \in 0 .. Len(body) :
              /\ IsCut(body, clean)
              /\ \/ /\ clean < Len(body)
                    /\ UNCHANGED sections
                 \/ /\ clean = Len(body) \/ clean > 0
                    /\ sections' = Append(sections, [name  |-> text[p].name,
                                                     atoms |-> <<p>> \o SubSeq(body, 1, clean)])
        /\ next' = p + 1
        /\ UNCHANGED <<phase, inputVars, parseVars, tables, chunkVars>>

EndPart ==
    /\ phase = "cut" /\ \A p \in kept : p < next
    /\ phase' = IF sections = <<>> THEN "error" ELSE "chunk"
    /\ UNCHANGED <<inputVars, next, parseVars, sections, tables, chunkVars>>

-----------------------------------------------------------------------------
(* chunk_document.                                                          *)

ChunkSize == sizes[1]
Overlap   == sizes[2]
Stride    == ChunkSize - Overlap
Tokens(s) == Len(sections[s].atoms)

\* An overlap as long as the chunk is refused.
Refuse ==
    /\ phase = "chunk" /\ Overlap >= ChunkSize
    /\ phase' = "error"
    /\ UNCHANGED <<inputVars, next, parseVars, sections, tables, chunkVars>>

\* Mutant: the next section starts where the last window of this one did.
NextSection_KeepsStart == section' = section + 1 /\ index' = 0 /\ UNCHANGED start

NextSection == section' = section + 1 /\ start' = 0 /\ index' = 0

\* A section that fits is one chunk, an empty one none.
ChunkWhole ==
    /\ phase = "chunk" /\ Overlap < ChunkSize
    /\ section <= Len(sections) /\ Tokens(section) <= ChunkSize
    /\ chunks' = IF Tokens(section) = 0 THEN chunks
                 ELSE chunks \cup {[section |-> section, index |-> 0,
                                    from |-> 0, to |-> Tokens(section)]}
    /\ NextSection
    /\ UNCHANGED <<phase, inputVars, next, parseVars, sections, tables, tableChunks>>

\* Mutant: the loop goes on until the start has passed the last token.
IsLast_StartPassed(end) == start + Stride >= Tokens(section)

\* Mutant: what is no longer than the overlap is not worth another window.
IsLast_ShortTail(end) == Tokens(section) - end <= Overlap

IsLast(end) == end = Tokens(section)

ChunkWindow ==
    LET end == IF start + ChunkSize < Tokens(section) THEN start + ChunkSize
               ELSE Tokens(section)
    IN
    /\ phase = "chunk" /\ Overlap < ChunkSize
    /\ section <= Len(sections) /\ Tokens(section) > ChunkSize
    /\ chunks' = chunks \cup {[section |-> section, index |-> index,
                               from |-> start, to |-> end]}
    /\ \/ /\ IsLast(end)
          /\ NextSection
       \/ /\ ~IsLast(end)
          /\ index' = index + 1 /\ start' = start + Stride
          /\ UNCHANGED section
    /\ UNCHANGED <<phase, inputVars, next, parseVars, sections, tables, tableChunks>>

\* The tables follow, each one chunk of its own.
EndChunks ==
    /\ phase = "chunk" /\ Overlap < ChunkSize
    /\ section > Len(sections)
    /\ tableChunks' = {[table |-> x.table, rows |-> x.headers \cup x.rows] : x \in tables}
    /\ phase' = "done"
    /\ UNCHANGED <<inputVars, next, parseVars, sections, tables, section, start, index, chunks>>

-----------------------------------------------------------------------------
Read == ReadFiling \/ ReadPart

TextStep ==
    \/ ExtractTables \/ ReadHeader \/ ReadBlock \/ EndFiling
    \/ SlicePart \/ KeepArticles \/ CutArticle \/ EndPart
    \/ Refuse \/ ChunkWhole \/ ChunkWindow \/ EndChunks

TextNext == Read \/ TextStep

TextSpec == TextInit /\ [][TextNext]_textVars

FairTextSpec == TextSpec /\ WF_textVars(TextStep)

-----------------------------------------------------------------------------
(* Properties.                                                              *)

Phases == {"read", "tables", "filing", "slice", "articles", "cut", "chunk", "done", "error"}

Chunk == [section : Nat, index : Nat, from : Nat, to : Nat]

\* The positions kept anywhere are positions of the text, and a window starts in
\* its section.
TextTypeOK ==
    /\ phase \in Phases
    /\ text \in Seq(FilingAtom) \cup Seq(PartAtom)
    /\ sizes \in (Nat \ {0}) \X Nat
    /\ next \in 1 .. Len(text) + 1
    /\ name \in Names \cup {"document"}
    /\ lines \in Seq(DOMAIN text) /\ kept \subseteq DOMAIN text
    /\ sections \in Seq([name : Names \cup {"document"}, atoms : Seq(DOMAIN text)])
    /\ section \in 1 .. Len(sections) + 1
    /\ section <= Len(sections) => start \in 0 .. Tokens(section)
    /\ index \in Nat
    /\ chunks \subseteq Chunk

IsCovered(s, k) == \E c \in chunks : c.section = s /\ c.from <= k /\ k < c.to

\* The window loop reaches the last token of every section: once a section is
\* done, each of its tokens is in a chunk, whatever its length, the chunk size
\* and the overlap.
SectionsCovered ==
    \A s \in 1 .. section - 1 : \A k \in 0 .. Tokens(s) - 1 : IsCovered(s, k)

\* The windows of a section are numbered from 0, all but the last are full, each
\* repeats exactly the overlap of the one before it, and none is without a token
\* of its own.
WindowsTile ==
    \A c \in chunks :
        /\ c.section <= section /\ c.to <= Tokens(c.section) /\ c.from < c.to
        /\ c.index = 0 <=> c.from = 0
        /\ c.to < Tokens(c.section) => c.to - c.from = ChunkSize
        /\ c.index > 0 => \E d \in chunks :
               /\ d.section = c.section /\ d.index = c.index - 1
               /\ c.from = d.to - Overlap /\ d.to < c.to

\* Every block of a filing that is no header reaches a section, and every row with
\* text of its tables the one chunk of its table.
NothingIsLost ==
    phase = "done" =>
        /\ \A p \in At("text") : \E s \in DOMAIN sections : p \in ToSet(sections[s].atoms)
        /\ \A t \in DOMAIN raw : \A i \in DOMAIN raw[t] : ~raw[t][i].blank =>
               \E c \in tableChunks : c.table = t /\ i \in c.rows

Headers == At("header") \cup At("heading")

\* A section holds only text that stands between its own header and the next.
Belongs(s) ==
    \E h \in Headers \cup {0} :
        /\ s.name = IF h = 0 THEN "document" ELSE text[h].name
        /\ \A p \in ToSet(s.atoms) : h <= p /\ \A g \in Headers : g <= p => g <= h

\* Citations name the section a passage comes from: it is the one whose header
\* the passage stands under, as long as no heading of the Part was dropped.
SectionsKeepToTheirHeader ==
    phase \in {"cut", "filing", "chunk", "done"} /\ (\A p \in At("heading") : IsKept(p)) =>
        \A s \in ToSet(sections) : Belongs(s)

\* The text under a heading that is dropped for its garbled title is dropped with
\* it ("dropped rather than kept corrupted").
DroppedArticlesAreGone ==
    \A s \in ToSet(sections) : \A p \in ToSet(s.atoms) :
        \A g \in At("heading") :
            text[g].garbled /\ g < p => \E h \in At("heading") : g < h /\ h <= p

\* The undecodable characters of a section on the stretch that begins at p and is
\* long enough to lie in one window wherever it begins.
Undecodable(s, p) ==
    {q \in ToSet(s.atoms) : p <= q /\ q <= p + Window - Step /\ text[q].kind = "dirty"}

HasNoRun(s) ==
    \A p \in ToSet(s.atoms) : Tolerance * Cardinality(Undecodable(s, p)) <= Window

\* No run of undecodable text reaches a section of the Constitution, wherever it
\* stands: at the edge of a window, across two, or at the end of a body. Strays
\* do: with the code's numbers, of any 41 characters in a row (60 - 20 + 1) up to
\* six may be undecodable.
NoContaminatedRun == \A s \in ToSet(sections) : HasNoRun(s)

\* Reading a document always ends, in chunks or in an error.
EveryReadEnds == phase # "read" ~> phase \in {"done", "error"}
=============================================================================
