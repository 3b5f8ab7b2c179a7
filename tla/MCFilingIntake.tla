--------------------------- MODULE MCFilingIntake ---------------------------
(* Documents and sizes for model-checking FilingIntake.                    *)
EXTENDS FilingIntake

MCNames == {"n1", "n2"}

MCFilings == BoundedSeq(FilingAtom, 6)

MCBodies == BoundedSeq({a \in PartAtom : a.kind \notin {"begin", "end"}}, 4)

\* An article and a body of clean and undecodable characters that is longer than
\* a window.
MCLongBodies ==
    {<<[kind |-> "heading", name |-> "n1", garbled |-> FALSE]>> \o body :
        body \in BoundedSeq([kind : {"clean", "dirty"}], 9)}

Mark(kind) == <<[kind |-> kind]>>

\* A Part between its markers, followed by the next one, and pages that lack one
\* of the markers.
MCParts ==
    {Mark("begin") \o body \o Mark("end") \o Mark("clean") : body \in MCBodies \cup MCLongBodies}
    \cup {Mark("end") \o Mark("begin") \o Mark("clean"), Mark("clean") \o Mark("end")}

\* No table; one with a header row; one whose header row is blank, beside one
\* without any text.
Cells(th, blank) == [th |-> th, blank |-> blank]

MCTables ==
    {<<>>,
     <<<<Cells(TRUE, FALSE), Cells(FALSE, FALSE)>>>>,
     <<<<Cells(FALSE, TRUE)>>, <<Cells(TRUE, TRUE), Cells(FALSE, FALSE), Cells(FALSE, FALSE)>>>>}

MCChunkSizes == {<<3, 1>>, <<2, 0>>, <<1, 1>>}
=============================================================================
