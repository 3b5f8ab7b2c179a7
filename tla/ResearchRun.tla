----------------------------- MODULE ResearchRun -----------------------------
(***************************************************************************)
(* The outcome of one run of run_research as JobLifecycle sees it: it      *)
(* works, may write claims, and ends with an answer (only after claims),   *)
(* with a declaration of insufficiency, or with an exception.              *)
(***************************************************************************)
VARIABLE phase

Init == phase = "work"

WriteClaims == phase = "work" /\ phase' = "cite"
Declare     == phase \in {"work", "cite"} /\ phase' = "insufficient"
Answer      == phase = "cite" /\ phase' = "answer"
Fail        == phase \in {"work", "cite"} /\ phase' = "failed"

Next == WriteClaims \/ Declare \/ Answer \/ Fail

Spec == Init /\ [][Next]_phase
=============================================================================
