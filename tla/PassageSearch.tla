--------------------------- MODULE PassageSearch ----------------------------
(***************************************************************************)
(* What EvidenceChain relies on when it asks for the passages of a         *)
(* sub-question: an answer is a short list of different passages that were *)
(* found, and is empty only if none was found; or the search fails.        *)
(***************************************************************************)
EXTENDS Naturals, Sequences

CONSTANTS Points, TopN

VARIABLES
    state,    \* "asked", "answered" or "failed"
    found,    \* the points that one of the two arms found
    answer    \* the points returned

vars == <<state, found, answer>>

Answers(S) ==
    {a \in UNION {[1 .. n -> S] : n \in 0 .. TopN} :
        \A k, l \in DOMAIN a : a[k] = a[l] => k = l}

Find ==
    /\ state = "asked" /\ found = {}
    /\ found' \in SUBSET Points
    /\ UNCHANGED <<state, answer>>

Reply ==
    /\ state = "asked" /\ state' = "answered"
    /\ answer' \in Answers(found)
    /\ answer' = <<>> => found = {}
    /\ UNCHANGED found

Refuse ==
    /\ state = "asked" /\ state' = "failed"
    /\ UNCHANGED <<found, answer>>

Init == state = "asked" /\ found = {} /\ answer = <<>>
Next == Find \/ Reply \/ Refuse
Spec == Init /\ [][Next]_vars
=============================================================================
