------------------------- MODULE FilingIntake_proofs -------------------------
(***************************************************************************)
(* The front half of ingestion is its two components side by side: what is *)
(* proved of the client and of the text holds of the whole.                *)
(***************************************************************************)
EXTENDS FilingIntake, EdgarClient_proofs, DocumentText_proofs

\* Every step of the whole is one of the client or one of the text, and leaves the
\* other alone.
LEMMA StepsOfTheParts == [Next]_vars => [ClientNext]_clientVars /\ [TextNext]_textVars
BY DEF Next, Request, IngestFiling, IngestPart, ProcessText, ClientNext, TextNext, Read, vars

LEMMA PartsOfTheWhole == Spec => ClientSpec /\ TextSpec
BY StepsOfTheParts, PTL DEF Spec, Init, ClientSpec, TextSpec

\* Both halves keep their shape, for any threads, documents and sizes.
THEOREM IntakeTypeCorrect == Spec => []TypeOK
BY PartsOfTheWhole, ClientTypeCorrect, TextTypeCorrect, PTL DEF TypeOK

\* Requests of concurrent ingestions leave the limiter an interval apart.
THEOREM IntakeSpacesRequests == Spec => RequestsSpaced
BY PartsOfTheWhole, LimiterSpacesRequests, PTL

\* Every section of an ingested document is covered by its chunks, with windows
\* that overlap as they should.
THEOREM IntakeCovers == Spec => [](SectionsCovered /\ WindowsTile)
BY PartsOfTheWhole, EverySectionIsCovered, WindowsAlwaysTile, PTL

\* No block or row of an ingested document is skipped, no text filed under another
\* header, and no run of undecodable characters kept.
THEOREM IntakeKeepsTheText ==
    Spec => [](NothingIsLost /\ SectionsKeepToTheirHeader /\ NoContaminatedRun)
BY PartsOfTheWhole, NothingIsSkipped, SectionsUnderTheirHeader, NoRunIsKept, PTL
==============================================================================
