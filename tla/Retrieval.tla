----------------------------- MODULE Retrieval ------------------------------
(***************************************************************************)
(* One hybrid search: HybridRetriever fuses the dense and the sparse arm   *)
(* by reciprocal ranks, and the reranker service scores the candidates in  *)
(* batches with the language model, which may fail, leave passages out or  *)
(* name passages that do not exist. Indices are zero-based as in the code. *)
(***************************************************************************)
EXTENDS Integers, FiniteSets, SequencesExt

CONSTANTS
    Points,         \* what Qdrant can return
    DENSE_TOP_K,    \* limit of each arm (SPARSE_TOP_K is the same)
    RRF_K,
    RERANK_CANDIDATE_LIMIT,
    RERANK_BATCH_SIZE,
    MAX_RERANK_ATTEMPTS,
    LLMTries,       \* attempts of a model call at transient errors
    TopN,           \* top_n
    Indices,        \* the integers the model may answer with
    Scores,         \* the scores it may give
    MaxScores       \* bound: scores in one answer

ASSUME PositiveAssumption ==
    {DENSE_TOP_K, RRF_K, RERANK_CANDIDATE_LIMIT, RERANK_BATCH_SIZE,
     MAX_RERANK_ATTEMPTS, LLMTries, TopN} \subseteq Nat \ {0}
ASSUME AnswersAssumption == Indices \subseteq Int /\ Scores \subseteq Nat /\ MaxScores \in Nat
\* A rank in both arms is worth more than the first rank of one: 50 <= 60 + 1.
ASSUME ConsensusAssumption == DENSE_TOP_K <= RRF_K + 1

VARIABLES
    stage,
    dense, sparse,  \* the hits of the two arms, best first
    candidates,     \* what is sent to the reranker
    batchStart,     \* first candidate of the batch being scored
    attempt,        \* attempts its batch has used
    tries,          \* tries the current model call has used
    result,         \* the last answer for the batch: sequences of [index, score]
    answered,       \* whether it has one: result is not None
    lastError,      \* whether a batch ended without an answer
    byIndex,        \* by_index: index -> [score, first], its score and where the
                    \* answer of its batch first names it
    judged,         \* history: <<point, score>> for each score the model gave
    results         \* what search returns: [point, score]

searchVars == <<dense, sparse, candidates>>
batchVars  == <<batchStart, attempt, result, answered, lastError, byIndex, judged>>
vars       == <<stage, tries, searchVars, batchVars, results>>

Hits == {s \in BoundedSeq(Points, DENSE_TOP_K) :
            \A k, l \in DOMAIN s : s[k] = s[l] => k = l}

ScoreEntry == [index : Indices, score : Scores]

Init ==
    /\ stage = "embed"
    /\ dense = <<>> /\ sparse = <<>> /\ candidates = <<>>
    /\ batchStart = 0 /\ attempt = 0 /\ tries = 0
    /\ result = <<>> /\ answered = FALSE /\ lastError = FALSE
    /\ byIndex = <<>> /\ judged = {}
    /\ results = <<>>

Fail ==
    /\ stage' = "failed"
    /\ UNCHANGED <<tries, searchVars, batchVars, results>>

-----------------------------------------------------------------------------
(* The two arms and their fusion (fusion.py).                              *)

\* The query is embedded; transport errors and 5xx answers are tried again.
EmbedQuery ==
    /\ stage = "embed"
    /\ \/ stage' = "search" /\ tries' = 0
       \/ stage' = "embed" /\ tries + 1 < LLMTries /\ tries' = tries + 1
    /\ UNCHANGED <<searchVars, batchVars, results>>

\* An error that is not transient, or the last try.
EmbedFails ==
    /\ stage = "embed"
    /\ Fail

Rank(arm, p) == CHOOSE r \in DOMAIN arm : arm[r] = p

\* Mutant: a point counts with its better rank only.
RrfScore_Best(p) ==
    LET rank(arm) == IF p \in ToSet(arm) THEN Rank(arm, p) ELSE DENSE_TOP_K + 1
    IN  <<1, RRF_K + (IF rank(dense) < rank(sparse) THEN rank(dense) ELSE rank(sparse))>>

\* 1/(k + rank) in each arm that found p, added up: a fraction <<n, d>>.
RrfScore(p) ==
    LET share(arm) == IF p \in ToSet(arm) THEN <<1, RRF_K + Rank(arm, p)>> ELSE <<0, 1>>
        d == share(dense)
        s == share(sparse)
    IN  <<d[1] * s[2] + s[1] * d[2], d[2] * s[2]>>

Found == ToSet(dense) \cup ToSet(sparse)

\* The order in which the two loops first meet the points.
MetBefore(p, q) ==
    IF p \in ToSet(dense) THEN q \notin ToSet(dense) \/ Rank(dense, p) < Rank(dense, q)
    ELSE q \notin ToSet(dense) /\ Rank(sparse, p) < Rank(sparse, q)

\* Best score first; the sort is stable.
Precedes(p, q) ==
    LET s == RrfScore(p)
        t == RrfScore(q)
    IN  \/ s[1] * t[2] > t[1] * s[2]
        \/ s[1] * t[2] = t[1] * s[2] /\ MetBefore(p, q)

\* The found points in that order: there is one such sequence.
Fusions == {f \in SetToSeqs(Found) : \A k, l \in DOMAIN f : k < l => Precedes(f[k], f[l])}

Take(s, n) == SubSeq(s, 1, IF n < Len(s) THEN n ELSE Len(s))

\* Nothing found is an empty answer; anything else goes to the reranker.
Search ==
    /\ stage = "search"
    /\ dense' \in Hits /\ sparse' \in Hits
    /\ \E f \in Fusions' : candidates' = Take(f, RERANK_CANDIDATE_LIMIT)
    /\ stage' = IF candidates' = <<>> THEN "done" ELSE "score"
    /\ UNCHANGED <<tries, batchVars, results>>

SearchFails ==
    /\ stage = "search"
    /\ Fail

-----------------------------------------------------------------------------
(* The reranker service (apps/reranker/main.py).                           *)

BatchLen ==
    IF Len(candidates) - batchStart < RERANK_BATCH_SIZE
    THEN Len(candidates) - batchStart ELSE RERANK_BATCH_SIZE

\* Mutant: the model's numbering is taken to start at one.
Position_FromOne(entry) == batchStart + entry.index + 1

Position(entry) == batchStart + entry.index

InBatch(entry) == entry.index \in 0 .. BatchLen - 1

InRange(scores) == {e \in ToSet(scores) : InBatch(e)}

\* Where an answer names candidate i.
Given(scores, i) == {k \in DOMAIN scores : InBatch(scores[k]) /\ Position(scores[k]) = i}

\* by_index[i] = score, one entry of the answer after the other: the first for a
\* candidate gives it its place, the last its score.
Merged(scores) ==
    [i \in DOMAIN byIndex \cup {Position(e) : e \in InRange(scores)} |->
        IF Given(scores, i) = {} THEN byIndex[i]
        ELSE [score |-> scores[Max(Given(scores, i))].score, first |-> Min(Given(scores, i))]]

\* Mutant: an attempt that fails at the end leaves the answer to the next batch.
EndBatch_KeepsResult(scores, seen) ==
    /\ byIndex' = Merged(scores)
    /\ lastError' = (lastError \/ ~seen)
    /\ batchStart' = batchStart + RERANK_BATCH_SIZE
    /\ attempt' = 0 /\ result' = scores /\ answered' = seen
    /\ stage' = IF batchStart + RERANK_BATCH_SIZE < Len(candidates) THEN "score" ELSE "rank"

\* The batch is over: its last answer is merged, or its error is remembered.
EndBatch(scores, seen) ==
    /\ byIndex' = Merged(scores)
    /\ lastError' = (lastError \/ ~seen)
    /\ batchStart' = batchStart + RERANK_BATCH_SIZE
    /\ attempt' = 0 /\ result' = <<>> /\ answered' = FALSE
    /\ stage' = IF batchStart + RERANK_BATCH_SIZE < Len(candidates) THEN "score" ELSE "rank"

NextAttempt(scores, seen) ==
    /\ attempt' = attempt + 1
    /\ result' = scores /\ answered' = seen
    /\ UNCHANGED <<stage, batchStart, lastError, byIndex>>

IsLastAttempt == attempt = MAX_RERANK_ATTEMPTS - 1

Differentiated(scores) == Cardinality({e.score : e \in ToSet(scores)}) > 1

\* The model answers; equal scores for several passages are not trusted before
\* the last attempt.
ScoreOnce ==
    /\ stage = "score"
    /\ \E scores \in BoundedSeq(ScoreEntry, MaxScores) :
          /\ IF Differentiated(scores) \/ BatchLen = 1 \/ IsLastAttempt
             THEN EndBatch(scores, TRUE)
             ELSE NextAttempt(scores, TRUE)
          /\ judged' = judged \cup {<<candidates[batchStart + e.index + 1], e.score>> :
                                       e \in InRange(scores)}
    /\ tries' = 0
    /\ UNCHANGED <<searchVars, results>>

\* A transient error that leaves tries.
LLMRetries ==
    /\ stage = "score"
    /\ tries + 1 < LLMTries
    /\ tries' = tries + 1
    /\ UNCHANGED <<stage, searchVars, batchVars, results>>

\* LLMCallError: no content, content that does not fit, or no tries left. An
\* earlier answer survives it; a batch that never got one is left out.
ScoreFails ==
    /\ stage = "score"
    /\ IF IsLastAttempt THEN EndBatch(result, answered) ELSE NextAttempt(result, answered)
    /\ tries' = 0
    /\ UNCHANGED <<judged, searchVars, results>>

\* The client gives up waiting, cannot reach the service, or is told of an error
\* that is no LLMCallError.
RerankerUnreachable ==
    /\ stage \in {"score", "rank"}
    /\ Fail

\* by_index is in insertion order: batch after batch, and in the order of the answer.
InsertedBefore(i, j) ==
    \/ i \div RERANK_BATCH_SIZE < j \div RERANK_BATCH_SIZE
    \/ /\ i \div RERANK_BATCH_SIZE = j \div RERANK_BATCH_SIZE
       /\ byIndex[i].first < byIndex[j].first

\* Mutant: the sort is not reversed.
Better_Worst(i, j) ==
    \/ byIndex[i].score < byIndex[j].score
    \/ byIndex[i].score = byIndex[j].score /\ InsertedBefore(i, j)

\* Best score first; the sort is stable.
Better(i, j) ==
    \/ byIndex[i].score > byIndex[j].score
    \/ byIndex[i].score = byIndex[j].score /\ InsertedBefore(i, j)

\* The scored candidates in that order: there is one such sequence.
Rankings ==
    {f \in SetToSeqs(DOMAIN byIndex) : \A k, l \in DOMAIN f : k < l => Better(f[k], f[l])}

\* Mutant: a request without scores is answered with an empty list.
NothingScored_Empty == "done"

\* Nothing scored is an error, never an empty answer: a 502, or a failed
\* assertion when every batch was answered and no answer named a passage.
NothingScored == IF lastError THEN "failed" ELSE "assertion failed"

Respond ==
    /\ stage = "rank"
    /\ stage' = IF DOMAIN byIndex = {} THEN NothingScored ELSE "done"
    /\ \E f \in Rankings :
          LET top == Take(f, TopN)
          IN  results' = [k \in DOMAIN top |-> [point |-> candidates[top[k] + 1],
                                                score |-> byIndex[top[k]].score]]
    /\ UNCHANGED <<tries, searchVars, batchVars>>

Next ==
    \/ EmbedQuery \/ EmbedFails \/ Search \/ SearchFails
    \/ ScoreOnce \/ LLMRetries \/ ScoreFails \/ RerankerUnreachable \/ Respond

Spec == Init /\ [][Next]_vars

-----------------------------------------------------------------------------
\* The shape of every variable; by_index names candidates only.
TypeOK ==
    /\ stage \in {"embed", "search", "score", "rank", "done", "failed", "assertion failed"}
    /\ {dense, sparse} \subseteq Hits
    /\ candidates \in Seq(Points) /\ Len(candidates) <= RERANK_CANDIDATE_LIMIT
    /\ batchStart \in Nat /\ attempt \in 0 .. MAX_RERANK_ATTEMPTS - 1
    /\ tries \in 0 .. LLMTries - 1
    /\ result \in Seq(ScoreEntry)
    /\ {answered, lastError} \subseteq BOOLEAN
    /\ DOMAIN byIndex \subseteq 0 .. Len(candidates) - 1
    /\ \A i \in DOMAIN byIndex : byIndex[i] \in [score : Scores, first : Nat]
    /\ judged \subseteq Points \X Scores
    /\ results \in Seq([point : Points, score : Scores])

\* p is found wherever q is, and ranked before it there.
Dominates(p, q) ==
    /\ p # q
    /\ \A arm \in {dense, sparse} :
          q \in ToSet(arm) => p \in ToSet(arm) /\ Rank(arm, p) < Rank(arm, q)

\* The fusion and the cut at the candidate limit respect the arms: a point both
\* arms found, or one that no arm ranks lower, is never behind or cut before
\* another ("RRF rewards consensus across lists", fusion.py).
FusionRespectsArms ==
    \A p, q \in Found :
        \/ q \notin ToSet(candidates)
        \/ ~ \/ Dominates(p, q)
             \/ p \in ToSet(dense) \cap ToSet(sparse) /\ q \notin ToSet(dense) \cap ToSet(sparse)
        \/ p \in ToSet(candidates) /\ Rank(candidates, p) < Rank(candidates, q)

\* A score returned with a passage is one the model gave to that very passage,
\* through batches, retries and indices that do not exist.
ScoresBelong ==
    \A r \in ToSet(results) : <<r.point, r.score>> \in judged

\* What is returned is the best of all batches, best first: no scored candidate
\* that was left out is better than one returned (the "correctly
\* globally-ranked top_n out" of the service's tests).
GloballyRanked ==
    stage = "done" =>
        /\ \A k, l \in DOMAIN results : k < l => results[k].score >= results[l].score
        /\ \A i \in DOMAIN byIndex :
              \/ \E r \in ToSet(results) : r.point = candidates[i + 1]
              \/ Len(results) = TopN /\ \A r \in ToSet(results) : r.score >= byIndex[i].score

\* Seen by its caller, a search is a PassageSearch: a sub-question is told that
\* nothing was found only if neither arm found anything.
State ==
    CASE stage = "done" -> "answered"
      [] stage \in {"failed", "assertion failed"} -> "failed"
      [] OTHER -> "asked"

Promise == INSTANCE PassageSearch WITH
    state  <- State,
    found  <- Found,
    answer <- [k \in DOMAIN results |-> results[k].point]

ImplementsPassageSearch == Promise!Spec
=============================================================================
