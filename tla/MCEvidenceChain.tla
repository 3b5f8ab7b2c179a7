-------------------------- MODULE MCEvidenceChain --------------------------
(* Model-checking instances of EvidenceChain.                              *)
EXTENDS EvidenceChain

\* The model answers with indices one below and one above what exists.
MCIndices == -1 .. 2

\* The claims read nothing of the sub-questions but how much evidence they
\* verified, and change nothing of them: from there on states that differ only
\* in which passages those were behave alike, and the properties of the claims
\* do not tell them apart. The properties of the sub-questions have been
\* checked in the states before, where subVars took the values it keeps.
ClaimView ==
    IF stage \in {"claim", "cite", "done", "failed"} /\ verified # <<>>
    THEN <<stage, Len(verified), claimVars, rowVars, insufficient>>
    ELSE <<stage, subVars, insufficient>>
=============================================================================
