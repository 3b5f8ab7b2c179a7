---------------------------- MODULE FilingIntake ----------------------------
(***************************************************************************)
(* The front half of ingestion: threads that ingest filings fetch them     *)
(* with a shared SecEdgarClient, and each turns its document into chunks   *)
(* (ingest_filing in src/rag/ingestion/pipeline.py); a Part of the         *)
(* Constitution comes with the call instead (ingest_constitution_part in   *)
(* src/rag/ingestion/india_code.py). What becomes of the chunks is module  *)
(* Ingestion.                                                              *)
(*                                                                         *)
(* A text is private to its call and nothing the client does depends on    *)
(* it, so one text is followed, after the requests of all threads.         *)
(***************************************************************************)
EXTENDS EdgarClient, DocumentText

vars == <<clientVars, textVars>>

Init == ClientInit /\ TextInit

Request ==
    /\ phase = "read"
    /\ Tick \/ \E t \in Threads : ListFilings(t) \/ CallStep(t)
    /\ UNCHANGED textVars

\* Every thread has its filing, and the interval has passed.
IngestFiling ==
    /\ \A t \in Threads : pc[t] = "fetched"
    /\ sinceStamp = MinInterval
    /\ ReadFiling
    /\ UNCHANGED clientVars

IngestPart ==
    /\ \A t \in Threads : pc[t] = "idle"
    /\ ReadPart
    /\ UNCHANGED clientVars

ProcessText == TextStep /\ UNCHANGED clientVars

Next == Request \/ IngestFiling \/ IngestPart \/ ProcessText

Spec == Init /\ [][Next]_vars

\* Time goes on, and whoever is in a call is run.
Fairness ==
    /\ WF_vars(phase = "read" /\ Tick /\ UNCHANGED textVars)
    /\ \A t \in Threads : WF_vars(phase = "read" /\ CallStep(t) /\ UNCHANGED textVars)
    /\ WF_vars(ProcessText)

FairSpec == Spec /\ Fairness

-----------------------------------------------------------------------------
(* Properties.                                                              *)

TypeOK == ClientTypeOK /\ TextTypeOK

\* Every call of ingest_filing gets past its requests and its text: no thread
\* waits for the limiter for ever, retries end, and so do the loops over blocks,
\* articles and windows.
EveryIngestionEnds == EveryCallEnds /\ EveryReadEnds
=============================================================================
