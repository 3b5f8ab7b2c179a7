-------------------------- MODULE Retrieval_proofs --------------------------
(***************************************************************************)
(* For every limit of the arms up to RRF_K + 1, every candidate limit,     *)
(* batch size, number of attempts and answer of the model: the fusion      *)
(* respects the arms, scores stay with their passages, the ranking is      *)
(* global, and a search is a PassageSearch.                                *)
(***************************************************************************)
EXTENDS Retrieval, FiniteSetTheorems, SequenceTheorems, WellFoundedInduction, TLAPS

\* The arithmetic of it: two shares of at least 1/(2k + 1) are more than one of
\* at most 1/(k + 1).
LEMMA TwoSharesWin ==
    ASSUME NEW k \in Nat, NEW x \in k + 1 .. 2 * k + 1,
           NEW y \in k + 1 .. 2 * k + 1, NEW z \in k + 1 .. 2 * k + 1
    PROVE  (x + y) * z > x * y
<1>1. (x + y) * z >= (x + y) * (k + 1)
  BY SMT
<1>2. x * y < (x + y) * (k + 1)
  <2>1. CASE x <= y
    <3>1. x * y < x * (2 * (k + 1))
      BY SMT
    <3>2. x * (2 * (k + 1)) <= (x + y) * (k + 1)
      BY <2>1, SMT
    <3> QED BY <3>1, <3>2, SMT
  <2>2. CASE y <= x
    <3>1. x * y < y * (2 * (k + 1))
      BY SMT
    <3>2. y * (2 * (k + 1)) <= (x + y) * (k + 1)
      BY <2>2, SMT
    <3> QED BY <3>1, <3>2, SMT
  <2> QED BY <2>1, <2>2, SMT
<1> DEFINE a == (x + y) * z
           b == (x + y) * (k + 1)
           c == x * y
<1>3. a \in Int /\ b \in Int /\ c \in Int
  BY SMT
<1>4. a >= b /\ c < b
  BY <1>1, <1>2
<1> HIDE DEF a, b, c
<1>5. a > c
  BY <1>3, <1>4, SMT
<1> QED BY <1>5 DEF a, c

-----------------------------------------------------------------------------
\* A hit has a rank within the limit of its arm.
LEMMA RankBound ==
    ASSUME NEW arm \in Hits, NEW p \in ToSet(arm)
    PROVE  Rank(arm, p) \in 1 .. DENSE_TOP_K
<1>1. PICK m \in 0 .. DENSE_TOP_K : arm \in [1 .. m -> Points]
  BY DEF Hits, BoundedSeq, SeqOf
<1>2. DOMAIN arm = 1 .. m
  BY <1>1
<1>3. \E r \in DOMAIN arm : arm[r] = p
  BY DEF ToSet
<1>4. Rank(arm, p) \in DOMAIN arm
  BY <1>3 DEF Rank
<1> QED BY <1>1, <1>2, <1>4, PositiveAssumption

\* The share of a hit is 1/(RRF_K + rank), and there is room for two of them.
LEMMA ShareBound ==
    ASSUME NEW arm \in Hits, NEW p \in ToSet(arm)
    PROVE  RRF_K + Rank(arm, p) \in RRF_K + 1 .. 2 * RRF_K + 1
<1>1. RRF_K \in Nat /\ DENSE_TOP_K \in Nat
  BY PositiveAssumption
<1>2. Rank(arm, p) \in 1 .. DENSE_TOP_K
  BY RankBound
<1> QED BY <1>1, <1>2, ConsensusAssumption

\* Reciprocal rank fusion rewards consensus (fusion.py): whatever both arms
\* found precedes whatever only one of them found, at any ranks.
THEOREM ConsensusWins ==
    ASSUME dense \in Hits, sparse \in Hits,
           NEW p \in ToSet(dense) \cap ToSet(sparse),
           NEW q \in Found, q \notin ToSet(dense) \cap ToSet(sparse)
    PROVE  Precedes(p, q) /\ ~Precedes(q, p)
<1> DEFINE x == RRF_K + Rank(dense, p)
           y == RRF_K + Rank(sparse, p)
<1>0. RRF_K \in Nat
  BY PositiveAssumption
<1>1. x \in RRF_K + 1 .. 2 * RRF_K + 1 /\ y \in RRF_K + 1 .. 2 * RRF_K + 1
  BY ShareBound
<1>2. RrfScore(p) = <<1 * y + 1 * x, x * y>>
  BY DEF RrfScore
<1>3. \E z \in RRF_K + 1 .. 2 * RRF_K + 1 :
         RrfScore(q) = <<1 * 1 + 0 * z, z * 1>> \/ RrfScore(q) = <<0 * z + 1 * 1, 1 * z>>
  <2>1. CASE q \in ToSet(dense) /\ q \notin ToSet(sparse)
    <3>1. RRF_K + Rank(dense, q) \in RRF_K + 1 .. 2 * RRF_K + 1
      BY <2>1, ShareBound
    <3> QED BY <2>1, <3>1 DEF RrfScore
  <2>2. CASE q \in ToSet(sparse) /\ q \notin ToSet(dense)
    <3>1. RRF_K + Rank(sparse, q) \in RRF_K + 1 .. 2 * RRF_K + 1
      BY <2>2, ShareBound
    <3> QED BY <2>2, <3>1 DEF RrfScore
  <2> QED BY <2>1, <2>2 DEF Found
<1>4. PICK z \in RRF_K + 1 .. 2 * RRF_K + 1 : RrfScore(q) = <<1, z>>
  BY <1>0, <1>3
<1>5. (x + y) * z > x * y
  BY <1>0, <1>1, TwoSharesWin
<1> DEFINE n == RrfScore(p)[1] * RrfScore(q)[2]
           m == RrfScore(q)[1] * RrfScore(p)[2]
<1>6. n = (x + y) * z /\ m = x * y
  BY <1>0, <1>1, <1>2, <1>4
<1>7. n \in Int /\ m \in Int /\ n > m
  BY <1>0, <1>1, <1>5, <1>6
<1> HIDE DEF n, m
<1>8. n > m /\ ~(m > n) /\ n # m
  BY <1>7
<1> QED BY <1>8 DEF Precedes, n, m

-----------------------------------------------------------------------------
(* Sets, orders and prefixes.                                               *)

\* A set of positions has a first and a last one.
LEMMA FirstOfPositions ==
    ASSUME NEW K \in SUBSET Nat, K # {}
    PROVE  \E m \in K : \A k \in K : m <= k
<1>1. PICK m \in K : \A k \in K : ~ (<<k, m>> \in OpToRel(<, Nat))
  BY NatLessThanWellFounded, WFMin, Zenon
<1>2. \A k \in K : ~(k < m)
  BY <1>1 DEF OpToRel
<1> QED BY <1>2

LEMMA MinIsIn ==
    ASSUME NEW n \in Nat, NEW K \in SUBSET (1 .. n), K # {}
    PROVE  Min(K) \in K
<1>1. \E m \in K : \A k \in K : m <= k
  <2>1. K \in SUBSET Nat
    OBVIOUS
  <2> QED BY <2>1, FirstOfPositions
<1> QED BY <1>1 DEF Min

LEMMA MaxIsIn ==
    ASSUME NEW n \in Nat, NEW K \in SUBSET (1 .. n), K # {}
    PROVE  Max(K) \in K
<1> DEFINE R == {n - k : k \in K}
<1>1. R \in SUBSET Nat /\ R # {}
  <2>1. \A k \in K : n - k \in Nat
    OBVIOUS
  <2>2. R \subseteq Nat
    BY <2>1
  <2>3. PICK k \in K : TRUE
    OBVIOUS
  <2>4. n - k \in R
    OBVIOUS
  <2> QED BY <2>2, <2>4
<1>2. PICK r \in R : \A q \in R : r <= q
  <2> HIDE DEF R
  <2> QED BY <1>1, FirstOfPositions
<1>3. PICK m \in K : r = n - m
  OBVIOUS
<1>4. \A k \in K : m >= k
  <2> SUFFICES ASSUME NEW k \in K PROVE m >= k
    OBVIOUS
  <2>1. n - m <= n - k
    BY <1>2, <1>3
  <2>2. m \in 1 .. n /\ k \in 1 .. n
    OBVIOUS
  <2> QED BY <2>1, <2>2
<1>5. \E x \in K : \A y \in K : x >= y
  BY <1>4
<1> QED BY <1>5 DEF Max

\* An order of a finite set is a sequence of all its elements.
LEMMA OrderIsComplete ==
    ASSUME NEW S, IsFiniteSet(S), NEW f \in SetToSeqs(S)
    PROVE  /\ Cardinality(S) \in Nat /\ Len(f) = Cardinality(S)
           /\ f \in Seq(S) /\ DOMAIN f = 1 .. Len(f) /\ ToSet(f) = S
           /\ \A k, l \in DOMAIN f : f[k] = f[l] => k = l
<1> DEFINE n == Cardinality(S)
<1>1. n \in Nat
  BY FS_CardinalityType
<1>2. f \in [1 .. n -> S] /\ \A k, l \in 1 .. n : k # l => f[k] # f[l]
  BY DEF SetToSeqs
<1> HIDE DEF n
<1>3. f \in Injection(1 .. n, S)
  BY <1>2 DEF Injection, IsInjective
<1>4. IsFiniteSet(1 .. n) /\ Cardinality(1 .. n) = n
  BY <1>1, FS_Interval
<1>5. f \in Surjection(1 .. n, S)
  BY <1>3, <1>4, FS_Injection DEF n
<1>6. ToSet(f) = S
  BY <1>2, <1>5 DEF Surjection, ToSet
<1>7. f \in Seq(S)
  BY <1>1, <1>2, SeqDef
<1>8. Len(f) = n
  BY <1>1, <1>2, <1>7, LenProperties
<1> QED BY <1>1, <1>2, <1>6, <1>7, <1>8 DEF n

\* The first n elements of a sequence.
LEMMA TakeIsPrefix ==
    ASSUME NEW S, NEW s \in Seq(S), NEW n \in Nat
    PROVE  /\ Take(s, n) \in Seq(S)
           /\ Len(Take(s, n)) = IF n < Len(s) THEN n ELSE Len(s)
           /\ DOMAIN Take(s, n) = 1 .. Len(Take(s, n))
           /\ \A k \in 1 .. Len(Take(s, n)) : Take(s, n)[k] = s[k]
<1> DEFINE m == IF n < Len(s) THEN n ELSE Len(s)
           t == SubSeq(s, 1, m)
<1>1. Len(s) \in Nat /\ DOMAIN s = 1 .. Len(s)
  BY LenProperties
<1>2. m \in Nat /\ m <= Len(s) /\ 1 \in Int /\ m \in Int
  BY <1>1
<1> HIDE DEF m
<1>3. \A i \in 1 .. m : s[i] \in S
  BY <1>1, <1>2, ElementOfSeq
<1>4. /\ t \in Seq(S) /\ Len(t) = m
      /\ \A i \in 1 .. m : t[i] = s[1 + i - 1]
  BY <1>2, <1>3, SubSeqProperties
<1>5. \A i \in 1 .. m : t[i] = s[i]
  BY <1>2, <1>4
<1>6. DOMAIN t = 1 .. Len(t)
  BY <1>4, LenProperties
<1> QED BY <1>2, <1>4, <1>5, <1>6 DEF Take, m

\* A bounded sequence.
LEMMA BoundedIsSeq ==
    ASSUME NEW S, NEW n \in Nat, NEW s \in BoundedSeq(S, n)
    PROVE  s \in Seq(S)
<1>1. PICK m \in 0 .. n : s \in [1 .. m -> S]
  BY DEF BoundedSeq, SeqOf
<1> QED BY <1>1, SeqDef

\* An arm is an order of what it found.
LEMMA HitsAreOrders ==
    ASSUME NEW arm \in Hits
    PROVE  /\ arm \in Seq(Points) /\ IsFiniteSet(ToSet(arm)) /\ ToSet(arm) \subseteq Points
           /\ DOMAIN arm = 1 .. Len(arm) /\ Len(arm) \in Nat
           /\ \A k, l \in DOMAIN arm : arm[k] = arm[l] => k = l
<1>1. /\ arm \in BoundedSeq(Points, DENSE_TOP_K)
      /\ \A k, l \in DOMAIN arm : arm[k] = arm[l] => k = l
  BY DEF Hits
<1>2. arm \in Seq(Points) /\ Len(arm) \in Nat /\ DOMAIN arm = 1 .. Len(arm)
  BY <1>1, BoundedIsSeq, PositiveAssumption, LenProperties
<1>3. ToSet(arm) \subseteq Points
  BY <1>2, ElementOfSeq DEF ToSet
<1>4. IsFiniteSet(ToSet(arm))
  <2>1. arm \in Surjection(1 .. Len(arm), ToSet(arm))
    BY <1>2 DEF Surjection, ToSet
  <2>2. IsFiniteSet(1 .. Len(arm))
    BY <1>2, FS_Interval
  <2> QED BY <2>1, <2>2, FS_Surjection
<1> QED BY <1>1, <1>2, <1>3, <1>4

LEMMA FoundIsFinite ==
    ASSUME dense \in Hits, sparse \in Hits
    PROVE  IsFiniteSet(Found) /\ Found \subseteq Points
BY HitsAreOrders, FS_Union DEF Found

-----------------------------------------------------------------------------
(* What holds between the stages of a search.                               *)

\* A stage works on what the stages before it left.
InOrder ==
    /\ stage \in {"embed", "search"} =>
          /\ dense = <<>> /\ sparse = <<>> /\ candidates = <<>> /\ result = <<>>
          /\ batchStart = 0 /\ DOMAIN byIndex = {}
    /\ stage = "score" => batchStart < Len(candidates)
    /\ stage # "done" => results = <<>>

\* The candidates are different points that were found.
CandidatesFound ==
    /\ \A k, l \in DOMAIN candidates : candidates[k] = candidates[l] => k = l
    /\ ToSet(candidates) \subseteq Found

\* The scores merged so far, and those the current batch has for now, are the
\* model's for the candidates they stand at.
ScoresKept ==
    /\ \A i \in DOMAIN byIndex : <<candidates[i + 1], byIndex[i].score>> \in judged
    /\ stage = "score" => \A e \in InRange(result) :
          <<candidates[batchStart + e.index + 1], e.score>> \in judged

SearchInv ==
    /\ TypeOK /\ InOrder /\ CandidatesFound /\ FusionRespectsArms
    /\ ScoresKept /\ ScoresBelong /\ GloballyRanked

-----------------------------------------------------------------------------
(* The batches.                                                             *)

\* A batch is a range of the candidates, and an entry that passes the check of
\* its index names one of them.
LEMMA BatchIsInside ==
    ASSUME TypeOK, InOrder, stage = "score"
    PROVE  /\ Len(candidates) \in Nat /\ DOMAIN candidates = 1 .. Len(candidates)
           /\ BatchLen \in Nat /\ batchStart + BatchLen <= Len(candidates)
           /\ \A e \in ScoreEntry : InBatch(e) =>
                 /\ Position(e) \in 0 .. Len(candidates) - 1
                 /\ batchStart + e.index + 1 \in DOMAIN candidates
<1>1. /\ Len(candidates) \in Nat /\ DOMAIN candidates = 1 .. Len(candidates)
      /\ batchStart \in Nat /\ batchStart < Len(candidates) /\ RERANK_BATCH_SIZE \in Nat \ {0}
  BY LenProperties, PositiveAssumption DEF TypeOK, InOrder
<1>2. BatchLen \in Nat /\ batchStart + BatchLen <= Len(candidates)
  BY <1>1 DEF BatchLen
<1>3. ASSUME NEW e \in ScoreEntry, InBatch(e)
      PROVE  /\ Position(e) \in 0 .. Len(candidates) - 1
             /\ batchStart + e.index + 1 \in DOMAIN candidates
  <2>1. e.index \in 0 .. BatchLen - 1
    BY <1>3 DEF InBatch
  <2>2. batchStart + e.index \in 0 .. Len(candidates) - 1
    BY <1>1, <1>2, <2>1
  <2> QED BY <1>1, <1>2, <2>1, <2>2 DEF Position
<1> QED BY <1>1, <1>2, <1>3

\* What by_index holds after a batch is what it held, or what the answer of the
\* batch says of that candidate.
LEMMA MergedFits ==
    ASSUME TypeOK, InOrder, stage = "score", NEW scores \in Seq(ScoreEntry)
    PROVE  /\ DOMAIN Merged(scores) \subseteq 0 .. Len(candidates) - 1
           /\ \A i \in DOMAIN Merged(scores) :
                 /\ Merged(scores)[i] \in [score : Scores, first : Nat]
                 /\ \/ i \in DOMAIN byIndex /\ Merged(scores)[i] = byIndex[i]
                    \/ \E e \in InRange(scores) :
                          i = Position(e) /\ Merged(scores)[i].score = e.score
<1>1. /\ Len(scores) \in Nat /\ DOMAIN scores = 1 .. Len(scores)
      /\ \A k \in DOMAIN scores : scores[k] \in ScoreEntry
  BY LenProperties, ElementOfSeq
<1>2. DOMAIN Merged(scores) = DOMAIN byIndex \cup {Position(e) : e \in InRange(scores)}
  BY DEF Merged
<1>3. \A e \in InRange(scores) : Position(e) \in 0 .. Len(candidates) - 1
  <2>1. \A e \in InRange(scores) : e \in ScoreEntry /\ InBatch(e)
    BY <1>1 DEF InRange, ToSet
  <2> QED BY <2>1, BatchIsInside
<1>4. DOMAIN Merged(scores) \subseteq 0 .. Len(candidates) - 1
  BY <1>2, <1>3 DEF TypeOK
<1>5. ASSUME NEW i \in DOMAIN Merged(scores)
      PROVE  /\ Merged(scores)[i] \in [score : Scores, first : Nat]
             /\ \/ i \in DOMAIN byIndex /\ Merged(scores)[i] = byIndex[i]
                \/ \E e \in InRange(scores) :
                      i = Position(e) /\ Merged(scores)[i].score = e.score
  <2> DEFINE K == Given(scores, i)
  <2>1. K \in SUBSET (1 .. Len(scores))
    BY <1>1 DEF Given
  <2>2. CASE K = {}
    <3>1. i \in DOMAIN byIndex
      <4> SUFFICES ASSUME NEW e \in InRange(scores), i = Position(e) PROVE FALSE
        BY <1>2, <1>5
      <4>1. PICK k \in DOMAIN scores : scores[k] = e
        BY DEF InRange, ToSet
      <4>2. k \in K
        BY <4>1 DEF Given, InRange
      <4> QED BY <2>2, <4>2
    <3>2. Merged(scores)[i] = byIndex[i]
      BY <1>2, <2>2, <3>1 DEF Merged
    <3> QED BY <3>1, <3>2 DEF TypeOK
  <2>3. CASE K # {}
    <3>1. Max(K) \in K /\ Min(K) \in K
      BY <1>1, <2>1, <2>3, MaxIsIn, MinIsIn
    <3>2. Merged(scores)[i] = [score |-> scores[Max(K)].score, first |-> Min(K)]
      BY <1>2, <1>5, <2>3 DEF Merged
    <3> DEFINE k == Max(K)
               l == Min(K)
    <3> HIDE DEF k, l
    <3>3. k \in DOMAIN scores /\ InBatch(scores[k]) /\ Position(scores[k]) = i
      BY <3>1 DEF Given, k
    <3>4. l \in Nat
      BY <1>1, <2>1, <3>1 DEF l
    <3>5. scores[k] \in InRange(scores) /\ scores[k].score \in Scores
      BY <1>1, <3>3 DEF InRange, ToSet, ScoreEntry
    <3>6. Merged(scores)[i] = [score |-> scores[k].score, first |-> l]
      BY <3>2 DEF k, l
    <3> QED BY <3>3, <3>4, <3>5, <3>6
  <2> QED BY <2>2, <2>3
<1> QED BY <1>4, <1>5

\* The candidates and their order are not touched after the search.
LEMMA CandidatesKeep ==
    ASSUME CandidatesFound, FusionRespectsArms, UNCHANGED searchVars
    PROVE  CandidatesFound' /\ FusionRespectsArms'
<1>1. dense' = dense /\ sparse' = sparse /\ candidates' = candidates
  BY DEF searchVars
<1>2. Found' = Found
  BY <1>1 DEF Found
<1>3. \A p, q : Dominates(p, q)' = Dominates(p, q)
  BY <1>1 DEF Dominates
<1>4. FusionRespectsArms'
  BY <1>1, <1>2, <1>3 DEF FusionRespectsArms
<1> QED BY <1>1, <1>2, <1>4 DEF CandidatesFound

\* An attempt, or the end of a batch, with an answer whose scores are on record.
LEMMA BatchGoesOn ==
    ASSUME SearchInv, stage = "score", NEW scores \in Seq(ScoreEntry), NEW seen \in BOOLEAN,
           EndBatch(scores, seen) \/ (NextAttempt(scores, seen) /\ ~IsLastAttempt),
           judged \subseteq judged', judged' \subseteq Points \X Scores,
           \A e \in InRange(scores) : <<candidates[batchStart + e.index + 1], e.score>> \in judged',
           tries' = 0, UNCHANGED <<searchVars, results>>
    PROVE  SearchInv'
<1>1. /\ UNCHANGED <<dense, sparse, candidates, results>> /\ results = <<>>
      /\ stage' \in {"score", "rank"}
  BY DEF searchVars, SearchInv, InOrder, EndBatch, NextAttempt
<1>2. CandidatesFound' /\ FusionRespectsArms'
  BY CandidatesKeep DEF SearchInv
<1>3. ScoresBelong' /\ GloballyRanked'
  BY <1>1 DEF ScoresBelong, GloballyRanked, ToSet
<1>4. {MAX_RERANK_ATTEMPTS, LLMTries, RERANK_BATCH_SIZE} \subseteq Nat \ {0}
  BY PositiveAssumption
<1>5. CASE EndBatch(scores, seen)
  <2>1. /\ byIndex' = Merged(scores) /\ result' = <<>>
        /\ batchStart' = batchStart + RERANK_BATCH_SIZE /\ attempt' = 0
        /\ answered' = FALSE /\ lastError' = (lastError \/ ~seen)
        /\ stage' = IF batchStart + RERANK_BATCH_SIZE < Len(candidates) THEN "score" ELSE "rank"
    BY <1>5 DEF EndBatch
  <2>2. lastError' \in BOOLEAN
    BY <2>1 DEF SearchInv, TypeOK
  <2>3. TypeOK'
    <3>1. /\ DOMAIN byIndex' \subseteq 0 .. Len(candidates) - 1
          /\ \A i \in DOMAIN byIndex' : byIndex'[i] \in [score : Scores, first : Nat]
      BY <2>1, MergedFits DEF SearchInv
    <3>2. batchStart' \in Nat /\ attempt' \in 0 .. MAX_RERANK_ATTEMPTS - 1 /\ tries' \in 0 .. LLMTries - 1
      BY <1>4, <2>1 DEF SearchInv, TypeOK
    <3>3. result' \in Seq(ScoreEntry)
      BY <2>1
    <3> QED BY <1>1, <2>1, <2>2, <3>1, <3>2, <3>3 DEF SearchInv, TypeOK
  <2>4. InOrder'
    BY <1>1, <2>1 DEF InOrder
  <2>5. ScoresKept'
    <3>1. InRange(result)' = {}
      BY <2>1 DEF InRange, ToSet
    <3>2. ASSUME NEW i \in DOMAIN byIndex' PROVE <<candidates[i + 1], byIndex'[i].score>> \in judged'
      <4>1. CASE i \in DOMAIN byIndex /\ byIndex'[i] = byIndex[i]
        BY <4>1 DEF SearchInv, ScoresKept
      <4>2. CASE \E e \in InRange(scores) : i = Position(e) /\ byIndex'[i].score = e.score
        BY <4>2 DEF Position
      <4> QED BY <2>1, <3>2, <4>1, <4>2, MergedFits DEF SearchInv
    <3> QED BY <1>1, <3>1, <3>2 DEF ScoresKept
  <2> QED BY <1>2, <1>3, <2>3, <2>4, <2>5 DEF SearchInv
<1>6. CASE NextAttempt(scores, seen) /\ ~IsLastAttempt
  <2>1. /\ attempt' = attempt + 1 /\ result' = scores /\ answered' = seen
        /\ UNCHANGED <<stage, batchStart, lastError, byIndex>>
    BY <1>6 DEF NextAttempt
  <2>2. attempt' \in 0 .. MAX_RERANK_ATTEMPTS - 1 /\ tries' \in 0 .. LLMTries - 1
    BY <1>4, <1>6, <2>1 DEF SearchInv, TypeOK, IsLastAttempt
  <2>3. TypeOK'
    BY <1>1, <2>1, <2>2 DEF SearchInv, TypeOK
  <2>4. InOrder'
    BY <1>1, <2>1 DEF SearchInv, InOrder
  <2>5. ScoresKept'
    <3>1. InRange(result)' = InRange(scores)
      BY <1>1, <2>1 DEF InRange, InBatch, BatchLen
    <3> QED BY <1>1, <2>1, <3>1 DEF SearchInv, ScoresKept
  <2> QED BY <1>2, <1>3, <2>3, <2>4, <2>5 DEF SearchInv
<1> QED BY <1>5, <1>6

-----------------------------------------------------------------------------
(* The fusion.                                                              *)

LEMMA FactorsGrow ==
    ASSUME NEW a \in Nat \ {0}, NEW x \in Nat, NEW y \in Nat, x < y
    PROVE  a * x < a * y
BY SMT

\* A better rank in one arm, with or without a rank in the other.
LEMMA BetterRankWins ==
    ASSUME NEW x \in Nat \ {0}, NEW y \in Nat \ {0}, NEW z \in Nat \ {0}, x < z
    PROVE  (x + y) * z > x * y
<1> DEFINE a == y * z
           b == y * x
           c == x * z
<1>1. a \in Nat /\ b \in Nat /\ c \in Nat
  BY SMT
<1>2. b < a
  BY FactorsGrow
<1>3. (x + y) * z = c + a /\ x * y = b
  BY SMT
<1> HIDE DEF a, b, c
<1>4. c + a > b
  BY <1>1, <1>2
<1> QED BY <1>3, <1>4

\* Better ranks in both.
LEMMA BetterRanksWin ==
    ASSUME NEW x \in Nat \ {0}, NEW y \in Nat \ {0}, NEW u \in Nat, NEW v \in Nat,
           x < u, y < v
    PROVE  (x + y) * (u * v) > (u + v) * (x * y)
<1> DEFINE a == x * u
           b == y * v
<1>1. a \in Nat \ {0} /\ b \in Nat \ {0}
  <2>1. u \in Nat \ {0} /\ v \in Nat \ {0}
    OBVIOUS
  <2> QED BY <2>1, SMT
<1> HIDE DEF a, b
<1>2. a * y < a * v /\ b * x < b * u
  BY <1>1, FactorsGrow
<1>3. a * v + b * u > a * y + b * x
  <2> DEFINE c == a * y
             d == a * v
             e == b * x
             g == b * u
  <2>1. c \in Nat /\ d \in Nat /\ e \in Nat /\ g \in Nat
    BY <1>1, SMT
  <2>2. c < d /\ e < g
    BY <1>2
  <2> HIDE DEF c, d, e, g
  <2>3. d + g > c + e
    BY <2>1, <2>2
  <2> QED BY <2>3 DEF c, d, e, g
<1>4. (x + y) * (u * v) = a * v + b * u /\ (u + v) * (x * y) = a * y + b * x
  BY SMT DEF a, b
<1> QED BY <1>3, <1>4

\* The score decides before the order of the loops does.
LEMMA ScoreDecides ==
    ASSUME NEW p, NEW q, NEW n \in Int, NEW m \in Int, n > m,
           n = RrfScore(p)[1] * RrfScore(q)[2], m = RrfScore(q)[1] * RrfScore(p)[2]
    PROVE  Precedes(p, q) /\ ~Precedes(q, p)
<1>1. n > m /\ ~(m > n) /\ n # m
  OBVIOUS
<1> QED BY <1>1 DEF Precedes

\* Whatever is found wherever another is, and ranked before it, precedes it.
LEMMA DominanceWins ==
    ASSUME dense \in Hits, sparse \in Hits, NEW p \in Found, NEW q \in Found, Dominates(p, q)
    PROVE  Precedes(p, q) /\ ~Precedes(q, p)
<1> DEFINE x == RRF_K + Rank(dense, p)
           y == RRF_K + Rank(sparse, p)
           u == RRF_K + Rank(dense, q)
           v == RRF_K + Rank(sparse, q)
<1>1. RRF_K \in Nat \ {0}
  BY PositiveAssumption
<1>2. /\ p \in ToSet(dense) => x \in Nat \ {0}
      /\ p \in ToSet(sparse) => y \in Nat \ {0}
      /\ q \in ToSet(dense) => u \in Nat \ {0} /\ p \in ToSet(dense) /\ x < u
      /\ q \in ToSet(sparse) => v \in Nat \ {0} /\ p \in ToSet(sparse) /\ y < v
  <2>1. /\ p \in ToSet(dense) => Rank(dense, p) \in Nat \ {0}
        /\ p \in ToSet(sparse) => Rank(sparse, p) \in Nat \ {0}
        /\ q \in ToSet(dense) => Rank(dense, q) \in Nat \ {0}
        /\ q \in ToSet(sparse) => Rank(sparse, q) \in Nat \ {0}
    <3>1. ASSUME NEW arm \in Hits, NEW r \in ToSet(arm) PROVE Rank(arm, r) \in Nat \ {0}
      BY RankBound, PositiveAssumption
    <3> QED BY <3>1
  <2>2. /\ q \in ToSet(dense) => p \in ToSet(dense) /\ Rank(dense, p) < Rank(dense, q)
        /\ q \in ToSet(sparse) => p \in ToSet(sparse) /\ Rank(sparse, p) < Rank(sparse, q)
    BY DEF Dominates
  <2> QED BY <1>1, <2>1, <2>2
<1>3. CASE q \in ToSet(dense) /\ q \in ToSet(sparse)
  <2>1. RrfScore(p) = <<1 * y + 1 * x, x * y>> /\ RrfScore(q) = <<1 * v + 1 * u, u * v>>
    BY <1>2, <1>3 DEF RrfScore
  <2> HIDE DEF x, y, u, v
  <2>2. (x + y) * (u * v) > (u + v) * (x * y)
    BY <1>2, <1>3, BetterRanksWin
  <2>3. /\ RrfScore(p)[1] = x + y /\ RrfScore(p)[2] = x * y
        /\ RrfScore(q)[1] = u + v /\ RrfScore(q)[2] = u * v
    BY <1>2, <1>3, <2>1
  <2>4. (x + y) * (u * v) \in Int /\ (u + v) * (x * y) \in Int
    BY <1>2, <1>3, SMT
  <2> QED BY <2>2, <2>3, <2>4, ScoreDecides
<1>4. CASE q \in ToSet(dense) /\ q \notin ToSet(sparse)
  <2>1. RrfScore(q) = <<1 * 1 + 0 * u, u * 1>>
    BY <1>4 DEF RrfScore
  <2>2. RrfScore(q)[1] = 1 /\ RrfScore(q)[2] = u
    BY <1>2, <1>4, <2>1
  <2>3. CASE p \in ToSet(sparse)
    <3>1. RrfScore(p) = <<1 * y + 1 * x, x * y>>
      BY <1>2, <1>4, <2>3 DEF RrfScore
    <3> HIDE DEF x, y, u, v
    <3>2. RrfScore(p)[1] = x + y /\ RrfScore(p)[2] = x * y
      BY <1>2, <1>4, <2>3, <3>1
    <3>3. (x + y) * u > x * y
      BY <1>2, <1>4, <2>3, BetterRankWins
    <3>4. (x + y) * u \in Int /\ x * y \in Int /\ 1 * (x * y) = x * y
      BY <1>2, <1>4, <2>3, SMT
    <3> QED BY <2>2, <3>2, <3>3, <3>4, ScoreDecides
  <2>4. CASE p \notin ToSet(sparse)
    <3>1. RrfScore(p) = <<1 * 1 + 0 * x, x * 1>>
      BY <1>2, <1>4, <2>4 DEF RrfScore
    <3> HIDE DEF x, y, u, v
    <3>2. RrfScore(p)[1] = 1 /\ RrfScore(p)[2] = x
      BY <1>2, <1>4, <3>1
    <3>3. u > x /\ u \in Int /\ x \in Int /\ 1 * u = u /\ 1 * x = x
      BY <1>2, <1>4
    <3> QED BY <2>2, <3>2, <3>3, ScoreDecides
  <2> QED BY <2>3, <2>4
<1>5. CASE q \notin ToSet(dense) /\ q \in ToSet(sparse)
  <2>1. RrfScore(q) = <<0 * v + 1 * 1, 1 * v>>
    BY <1>5 DEF RrfScore
  <2>2. RrfScore(q)[1] = 1 /\ RrfScore(q)[2] = v
    BY <1>2, <1>5, <2>1
  <2>3. CASE p \in ToSet(dense)
    <3>1. RrfScore(p) = <<1 * y + 1 * x, x * y>>
      BY <1>2, <1>5, <2>3 DEF RrfScore
    <3> HIDE DEF x, y, u, v
    <3>2. RrfScore(p)[1] = y + x /\ RrfScore(p)[2] = y * x
      BY <1>2, <1>5, <2>3, <3>1
    <3>3. (y + x) * v > y * x
      BY <1>2, <1>5, <2>3, BetterRankWins
    <3>4. (y + x) * v \in Int /\ y * x \in Int /\ 1 * (y * x) = y * x
      BY <1>2, <1>5, <2>3, SMT
    <3> QED BY <2>2, <3>2, <3>3, <3>4, ScoreDecides
  <2>4. CASE p \notin ToSet(dense)
    <3>1. RrfScore(p) = <<0 * y + 1 * 1, 1 * y>>
      BY <1>2, <1>5, <2>4 DEF RrfScore
    <3> HIDE DEF x, y, u, v
    <3>2. RrfScore(p)[1] = 1 /\ RrfScore(p)[2] = y
      BY <1>2, <1>5, <3>1
    <3>3. v > y /\ v \in Int /\ y \in Int /\ 1 * v = v /\ 1 * y = y
      BY <1>2, <1>5
    <3> QED BY <2>2, <3>2, <3>3, ScoreDecides
  <2> QED BY <2>3, <2>4
<1> QED BY <1>3, <1>4, <1>5 DEF Found

\* In a sequence without repetition the rank of an element is where it stands.
LEMMA RankIsPlace ==
    ASSUME NEW s, NEW i \in DOMAIN s, \A k, l \in DOMAIN s : s[k] = s[l] => k = l
    PROVE  Rank(s, s[i]) = i
BY DEF Rank

\* What the search leaves to the reranker.
Fitting ==
    /\ candidates \in Seq(Points) /\ Len(candidates) \in 0 .. RERANK_CANDIDATE_LIMIT
    /\ CandidatesFound /\ FusionRespectsArms
    /\ candidates = <<>> => Found = {}

LEMMA FusionFits ==
    dense \in Hits /\ sparse \in Hits
    /\ (\E f \in Fusions : candidates = Take(f, RERANK_CANDIDATE_LIMIT)) => Fitting
<1> SUFFICES ASSUME dense \in Hits, sparse \in Hits, NEW f \in Fusions,
                    candidates = Take(f, RERANK_CANDIDATE_LIMIT)
             PROVE  Fitting
  OBVIOUS
<1>1. RERANK_CANDIDATE_LIMIT \in Nat \ {0}
  BY PositiveAssumption
<1>2. IsFiniteSet(Found) /\ Found \subseteq Points
  BY FoundIsFinite
<1>3. /\ Len(f) \in Nat /\ f \in Seq(Found) /\ DOMAIN f = 1 .. Len(f) /\ ToSet(f) = Found
      /\ \A k, l \in DOMAIN f : f[k] = f[l] => k = l
  <2>1. f \in SetToSeqs(Found)
    BY DEF Fusions
  <2> QED BY <1>2, <2>1, OrderIsComplete
<1>4. /\ candidates \in Seq(Found) /\ DOMAIN candidates = 1 .. Len(candidates)
      /\ Len(candidates) = IF RERANK_CANDIDATE_LIMIT < Len(f) THEN RERANK_CANDIDATE_LIMIT
                           ELSE Len(f)
      /\ \A k \in 1 .. Len(candidates) : candidates[k] = f[k]
  BY <1>1, <1>3, TakeIsPrefix
<1>5. Len(candidates) \in 0 .. RERANK_CANDIDATE_LIMIT /\ Len(candidates) <= Len(f)
  BY <1>1, <1>3, <1>4
<1>6. candidates \in Seq(Points)
  <2>1. \A k \in 1 .. Len(candidates) : candidates[k] \in Points
    BY <1>2, <1>4, ElementOfSeq
  <2> QED BY <1>4, <1>5, <2>1, SeqDef
<1>7. \A k, l \in DOMAIN candidates : candidates[k] = candidates[l] => k = l
  BY <1>3, <1>4, <1>5
<1>8. CandidatesFound
  <2>1. ToSet(candidates) \subseteq Found
    BY <1>4, ElementOfSeq DEF ToSet
  <2> QED BY <1>7, <2>1 DEF CandidatesFound
<1>9. candidates = <<>> => Found = {}
  <2> SUFFICES ASSUME Len(candidates) = 0 PROVE Found = {}
    BY <1>4
  <2>1. Len(f) = 0
    BY <1>1, <1>3, <1>4
  <2> QED BY <1>3, <2>1 DEF ToSet
<1>10. FusionRespectsArms
  <2> SUFFICES ASSUME NEW p \in Found, NEW q \in Found, q \in ToSet(candidates),
                      \/ Dominates(p, q)
                      \/ p \in ToSet(dense) \cap ToSet(sparse) /\ q \notin ToSet(dense) \cap ToSet(sparse)
               PROVE  p \in ToSet(candidates) /\ Rank(candidates, p) < Rank(candidates, q)
    BY DEF FusionRespectsArms
  <2>1. Precedes(p, q) /\ ~Precedes(q, p)
    BY DominanceWins, ConsensusWins
  <2>2. PICK j \in 1 .. Len(candidates) : q = candidates[j]
    BY <1>4 DEF ToSet
  <2>3. PICK i \in 1 .. Len(f) : p = f[i]
    BY <1>3 DEF ToSet
  <2>4. j \in 1 .. Len(f) /\ q = f[j]
    BY <1>3, <1>4, <1>5, <2>2
  <2>5. i < j
    <3>1. i # j
      BY <2>1, <2>3, <2>4
    <3>2. j < i => Precedes(q, p)
      BY <1>3, <2>3, <2>4 DEF Fusions
    <3> QED BY <2>1, <3>1, <3>2
  <2>6. i \in 1 .. Len(candidates) /\ candidates[i] = p
    BY <1>4, <1>5, <2>3, <2>5
  <2>7. Rank(candidates, p) = i /\ Rank(candidates, q) = j
    BY <1>4, <1>7, <2>2, <2>6, RankIsPlace
  <2> QED BY <1>4, <2>5, <2>6, <2>7 DEF ToSet
<1> QED BY <1>5, <1>6, <1>8, <1>9, <1>10 DEF Fitting

\* The same of the state the search leads to.
LEMMA FusionFitsThen ==
    (dense \in Hits /\ sparse \in Hits
     /\ (\E f \in Fusions : candidates = Take(f, RERANK_CANDIDATE_LIMIT)))' => Fitting'
BY FusionFits, PTL

-----------------------------------------------------------------------------
(* The steps of a search.                                                   *)

LEMMA SearchKeeps ==
    ASSUME SearchInv, Search
    PROVE  SearchInv'
<1>1. /\ stage = "search" /\ dense' \in Hits /\ sparse' \in Hits
      /\ stage' = IF candidates' = <<>> THEN "done" ELSE "score"
      /\ UNCHANGED <<tries, batchStart, attempt, result, answered, lastError, byIndex, judged, results>>
      /\ Fitting'
  BY FusionFitsThen DEF Search, batchVars
<1>2. result = <<>> /\ batchStart = 0 /\ DOMAIN byIndex = {} /\ results = <<>>
  BY <1>1 DEF SearchInv, InOrder
<1>3. /\ candidates' \in Seq(Points) /\ Len(candidates') \in Nat
      /\ Len(candidates') <= RERANK_CANDIDATE_LIMIT /\ RERANK_CANDIDATE_LIMIT \in Nat
      /\ CandidatesFound' /\ FusionRespectsArms'
  BY <1>1, PositiveAssumption DEF Fitting
<1>4. TypeOK'
  BY <1>1, <1>2, <1>3 DEF SearchInv, TypeOK
<1>5. InOrder'
  <2>1. candidates' # <<>> => Len(candidates') > 0
    BY <1>3, EmptySeq
  <2> QED BY <1>1, <1>2, <1>3, <2>1 DEF InOrder
<1>6. ScoresKept'
  <2>1. InRange(result)' = {}
    BY <1>1, <1>2 DEF InRange, ToSet
  <2> QED BY <1>1, <1>2, <2>1 DEF ScoresKept
<1>7. ScoresBelong' /\ GloballyRanked'
  BY <1>1, <1>2 DEF ScoresBelong, GloballyRanked, ToSet
<1> QED BY <1>3, <1>4, <1>5, <1>6, <1>7 DEF SearchInv

\* The best of all batches, best first.
LEMMA TopIsBest ==
    ASSUME SearchInv, Respond
    PROVE  /\ results' \in Seq([point : Points, score : Scores])
           /\ Len(results') \in 0 .. TopN /\ DOMAIN results' = 1 .. Len(results')
           /\ results' = <<>> <=> DOMAIN byIndex = {}
           /\ \A r \in ToSet(results') : r.point \in Found /\ <<r.point, r.score>> \in judged
           /\ \A k, l \in DOMAIN results' : results'[k].point = results'[l].point => k = l
           /\ \A k, l \in DOMAIN results' : k < l => results'[k].score >= results'[l].score
           /\ \A i \in DOMAIN byIndex :
                 \/ \E r \in ToSet(results') : r.point = candidates[i + 1]
                 \/ Len(results') = TopN /\ \A r \in ToSet(results') : r.score >= byIndex[i].score
<1>1. PICK f \in Rankings :
         results' = [k \in DOMAIN Take(f, TopN) |->
                        [point |-> candidates[Take(f, TopN)[k] + 1],
                         score |-> byIndex[Take(f, TopN)[k]].score]]
  BY DEF Respond
<1> DEFINE S   == DOMAIN byIndex
           top == Take(f, TopN)
<1>2. /\ S \subseteq 0 .. Len(candidates) - 1 /\ Len(candidates) \in Nat /\ TopN \in Nat \ {0}
      /\ DOMAIN candidates = 1 .. Len(candidates)
      /\ \A i \in S : byIndex[i].score \in Scores /\ byIndex[i].score \in Nat
  <2>1. \A i \in S : byIndex[i].score \in Scores
    BY DEF SearchInv, TypeOK
  <2> QED BY <2>1, LenProperties, PositiveAssumption, AnswersAssumption DEF SearchInv, TypeOK
<1>3. IsFiniteSet(S)
  <2>1. IsFiniteSet(0 .. Len(candidates) - 1)
    BY <1>2, FS_Interval
  <2> QED BY <1>2, <2>1, FS_Subset
<1>4. /\ Len(f) \in Nat /\ f \in Seq(S) /\ DOMAIN f = 1 .. Len(f) /\ ToSet(f) = S
      /\ \A k, l \in DOMAIN f : f[k] = f[l] => k = l
  <2>1. f \in SetToSeqs(S)
    BY DEF Rankings
  <2> QED BY <1>3, <2>1, OrderIsComplete
<1>5. \A k, l \in 1 .. Len(f) : k < l => byIndex[f[k]].score >= byIndex[f[l]].score
  <2> SUFFICES ASSUME NEW k \in 1 .. Len(f), NEW l \in 1 .. Len(f), k < l
               PROVE  byIndex[f[k]].score >= byIndex[f[l]].score
    OBVIOUS
  <2>1. Better(f[k], f[l])
    BY <1>4 DEF Rankings
  <2>2. f[k] \in S /\ f[l] \in S
    BY <1>4, ElementOfSeq
  <2> QED BY <1>2, <2>1, <2>2 DEF Better
<1>6. /\ top \in Seq(S) /\ DOMAIN top = 1 .. Len(top)
      /\ Len(top) = IF TopN < Len(f) THEN TopN ELSE Len(f)
      /\ \A k \in 1 .. Len(top) : top[k] = f[k]
  <2>1. f \in Seq(S) /\ TopN \in Nat
    BY <1>2, <1>4
  <2> HIDE DEF S
  <2> QED BY <2>1, TakeIsPrefix
<1> HIDE DEF top
<1>7. Len(top) \in 0 .. TopN /\ Len(top) <= Len(f) /\ Len(top) \in Nat
  BY <1>2, <1>4, <1>6
<1>8. /\ DOMAIN results' = 1 .. Len(top)
      /\ \A k \in 1 .. Len(top) :
            /\ f[k] \in S /\ f[k] + 1 \in DOMAIN candidates
            /\ results'[k] = [point |-> candidates[f[k] + 1], score |-> byIndex[f[k]].score]
  <2>1. \A k \in 1 .. Len(top) : f[k] \in S
    BY <1>4, <1>7, ElementOfSeq
  <2>2. \A i \in S : i + 1 \in DOMAIN candidates
    BY <1>2
  <2> QED BY <1>1, <1>6, <2>1, <2>2 DEF top
<1>9. \A i \in 1 .. Len(candidates) : candidates[i] \in Points /\ candidates[i] \in Found
  BY <1>2, ElementOfSeq DEF SearchInv, TypeOK, CandidatesFound, ToSet
<1>10. results' \in Seq([point : Points, score : Scores])
  <2>1. \A k \in 1 .. Len(top) : results'[k] \in [point : Points, score : Scores]
    <3> SUFFICES ASSUME NEW k \in 1 .. Len(top)
                 PROVE  results'[k] \in [point : Points, score : Scores]
      OBVIOUS
    <3>1. f[k] \in S /\ f[k] + 1 \in DOMAIN candidates
      BY <1>8
    <3>2. candidates[f[k] + 1] \in Points /\ byIndex[f[k]].score \in Scores
      BY <1>2, <1>9, <3>1
    <3> QED BY <1>8, <3>2
  <2>2. results' = [k \in 1 .. Len(top) |-> results'[k]]
    BY <1>1, <1>6 DEF top
  <2> DEFINE Result == [point : Points, score : Scores]
  <2> HIDE DEF Result
  <2>3. \A k \in 1 .. Len(top) : results'[k] \in Result
    BY <2>1 DEF Result
  <2>4. results' \in [1 .. Len(top) -> Result]
    BY <2>2, <2>3
  <2>5. results' \in Seq(Result)
    BY <1>7, <2>4, SeqDef
  <2> QED BY <2>5 DEF Result
<1>11. Len(results') = Len(top)
  BY <1>7, <1>8, <1>10, LenProperties
<1>12. results' = <<>> <=> S = {}
  <2>1. results' = <<>> <=> Len(top) = 0
    BY <1>10, <1>11, EmptySeq
  <2>2. Len(top) = 0 <=> Len(f) = 0
    BY <1>2, <1>4, <1>6
  <2>3. Len(f) = 0 <=> S = {}
    BY <1>4 DEF ToSet
  <2> QED BY <2>1, <2>2, <2>3
<1>13. \A r \in ToSet(results') : r.point \in Found /\ <<r.point, r.score>> \in judged
  <2> SUFFICES ASSUME NEW k \in 1 .. Len(top)
               PROVE  results'[k].point \in Found /\ <<results'[k].point, results'[k].score>> \in judged
    BY <1>8 DEF ToSet
  <2>1. results'[k].point = candidates[f[k] + 1] /\ results'[k].score = byIndex[f[k]].score
    BY <1>8
  <2>2. <<candidates[f[k] + 1], byIndex[f[k]].score>> \in judged
    BY <1>8 DEF SearchInv, ScoresKept
  <2> QED BY <1>2, <1>8, <1>9, <2>1, <2>2
<1>14. \A k, l \in 1 .. Len(top) : results'[k].point = results'[l].point => k = l
  <2> SUFFICES ASSUME NEW k \in 1 .. Len(top), NEW l \in 1 .. Len(top),
                      results'[k].point = results'[l].point
               PROVE  k = l
    OBVIOUS
  <2>1. candidates[f[k] + 1] = candidates[f[l] + 1]
    BY <1>8
  <2>2. f[k] + 1 = f[l] + 1
    BY <1>8, <2>1 DEF SearchInv, CandidatesFound
  <2>3. f[k] = f[l]
    BY <1>2, <1>8, <2>2
  <2> QED BY <1>4, <1>7, <2>3
<1>15. \A k, l \in 1 .. Len(top) : k < l => results'[k].score >= results'[l].score
  BY <1>5, <1>7, <1>8
<1>16. ASSUME NEW i \in S
       PROVE  \/ \E r \in ToSet(results') : r.point = candidates[i + 1]
              \/ Len(results') = TopN /\ \A r \in ToSet(results') : r.score >= byIndex[i].score
  <2>1. PICK j \in 1 .. Len(f) : f[j] = i
    BY <1>4 DEF ToSet
  <2>2. CASE j <= Len(top)
    <3>1. j \in 1 .. Len(top)
      BY <1>7, <2>2
    <3>2. results'[j].point = candidates[i + 1] /\ results'[j] \in ToSet(results')
      BY <1>8, <2>1, <3>1 DEF ToSet
    <3> QED BY <3>2
  <2>3. CASE ~(j <= Len(top))
    <3>1. Len(top) = TopN
      <4>1. j \in Nat /\ j <= Len(f) /\ Len(top) < j
        BY <1>4, <1>7, <2>3
      <4>2. Len(top) # Len(f)
        BY <1>4, <1>7, <4>1
      <4> QED BY <1>6, <4>2
    <3>2. ASSUME NEW k \in 1 .. Len(top) PROVE results'[k].score >= byIndex[i].score
      <4>1. k \in 1 .. Len(f) /\ k < j
        BY <1>7, <2>3
      <4> QED BY <1>5, <1>8, <2>1, <4>1
    <3> QED BY <1>8, <1>11, <3>1, <3>2 DEF ToSet
  <2> QED BY <2>2, <2>3
<1> QED BY <1>7, <1>8, <1>10, <1>11, <1>12, <1>13, <1>14, <1>15, <1>16

LEMMA RespondKeeps ==
    ASSUME SearchInv, Respond
    PROVE  SearchInv'
<1>1. /\ stage = "rank" /\ UNCHANGED <<tries, dense, sparse, candidates, batchStart, attempt,
                                       result, answered, lastError, byIndex, judged>>
      /\ stage' = IF DOMAIN byIndex = {} THEN NothingScored ELSE "done"
  BY DEF Respond, searchVars, batchVars
<1>2. CandidatesFound' /\ FusionRespectsArms'
  BY <1>1, CandidatesKeep DEF SearchInv, searchVars
<1>3. stage' \in {"done", "failed", "assertion failed"}
  BY <1>1 DEF NothingScored
<1>4. stage' # "done" => results' = <<>>
  BY <1>1, TopIsBest DEF NothingScored
<1>5. TypeOK'
  <2>1. results' \in Seq([point : Points, score : Scores])
    BY TopIsBest
  <2> QED BY <1>1, <1>3, <2>1 DEF SearchInv, TypeOK
<1>6. InOrder'
  BY <1>1, <1>3, <1>4 DEF InOrder
<1>7. ScoresKept'
  BY <1>1, <1>3 DEF SearchInv, ScoresKept
<1>8. ScoresBelong'
  BY <1>1, TopIsBest DEF ScoresBelong
<1>9. GloballyRanked'
  BY <1>1, TopIsBest DEF GloballyRanked
<1> QED BY <1>2, <1>5, <1>6, <1>7, <1>8, <1>9 DEF SearchInv

\* An answer of the model puts its scores on record.
LEMMA ScoreOnceKeeps ==
    ASSUME SearchInv, ScoreOnce
    PROVE  SearchInv'
<1>1. PICK scores \in BoundedSeq(ScoreEntry, MaxScores) :
         /\ IF Differentiated(scores) \/ BatchLen = 1 \/ IsLastAttempt
            THEN EndBatch(scores, TRUE)
            ELSE NextAttempt(scores, TRUE)
         /\ judged' = judged \cup {<<candidates[batchStart + e.index + 1], e.score>> :
                                      e \in InRange(scores)}
  BY DEF ScoreOnce
<1>2. stage = "score" /\ tries' = 0 /\ UNCHANGED <<searchVars, results>>
  BY DEF ScoreOnce
<1>3. scores \in Seq(ScoreEntry)
  BY BoundedIsSeq, AnswersAssumption
<1>4. EndBatch(scores, TRUE) \/ (NextAttempt(scores, TRUE) /\ ~IsLastAttempt)
  BY <1>1
<1>5. judged' \subseteq Points \X Scores
  <2> SUFFICES ASSUME NEW e \in InRange(scores)
               PROVE  <<candidates[batchStart + e.index + 1], e.score>> \in Points \X Scores
    BY <1>1 DEF SearchInv, TypeOK
  <2>1. e \in ScoreEntry /\ InBatch(e)
    BY <1>3, ElementOfSeq, LenProperties DEF InRange, ToSet
  <2>2. batchStart + e.index + 1 \in DOMAIN candidates
    BY <1>2, <2>1, BatchIsInside DEF SearchInv
  <2>3. candidates[batchStart + e.index + 1] \in Points
    BY <2>2, ElementOfSeq, LenProperties DEF SearchInv, TypeOK
  <2> QED BY <2>1, <2>3 DEF ScoreEntry
<1>6. judged \subseteq judged'
  BY <1>1
<1>7. \A e \in InRange(scores) : <<candidates[batchStart + e.index + 1], e.score>> \in judged'
  BY <1>1
<1>8. TRUE \in BOOLEAN
  OBVIOUS
<1> QED BY <1>2, <1>3, <1>4, <1>5, <1>6, <1>7, <1>8, BatchGoesOn

\* A failed call leaves what its batch has.
LEMMA ScoreFailsKeeps ==
    ASSUME SearchInv, ScoreFails
    PROVE  SearchInv'
<1>1. /\ stage = "score" /\ tries' = 0 /\ judged' = judged /\ UNCHANGED <<searchVars, results>>
      /\ EndBatch(result, answered) \/ (NextAttempt(result, answered) /\ ~IsLastAttempt)
  BY DEF ScoreFails
<1>2. result \in Seq(ScoreEntry) /\ answered \in BOOLEAN /\ judged \subseteq Points \X Scores
  BY DEF SearchInv, TypeOK
<1>3. \A e \in InRange(result) : <<candidates[batchStart + e.index + 1], e.score>> \in judged
  BY <1>1 DEF SearchInv, ScoresKept
<1> QED BY <1>1, <1>2, <1>3, BatchGoesOn

\* The other steps keep all but the stage and the tries.
LEMMA OtherStepsKeep ==
    ASSUME SearchInv,
           \/ EmbedQuery \/ EmbedFails \/ SearchFails \/ LLMRetries \/ RerankerUnreachable
           \/ UNCHANGED vars
    PROVE  SearchInv'
<1>1. /\ UNCHANGED <<searchVars, batchVars, results>>
      /\ \/ stage' = "failed" /\ stage # "done" /\ tries' = tries
         \/ stage' = stage /\ tries' = tries
         \/ stage' = stage /\ tries' = tries + 1 /\ tries + 1 < LLMTries
         \/ stage = "embed" /\ stage' = "search" /\ tries' = 0
  BY DEF EmbedQuery, EmbedFails, SearchFails, LLMRetries, RerankerUnreachable, Fail, vars
<1>2. CandidatesFound' /\ FusionRespectsArms'
  BY <1>1, CandidatesKeep DEF SearchInv
<1>3. UNCHANGED <<dense, sparse, candidates, batchStart, attempt, result, answered, lastError,
                  byIndex, judged, results>>
  BY <1>1 DEF searchVars, batchVars
<1>4. TypeOK'
  <2>1. tries' \in 0 .. LLMTries - 1
    <3>1. LLMTries \in Nat \ {0} /\ tries \in 0 .. LLMTries - 1
      BY PositiveAssumption DEF SearchInv, TypeOK
    <3> QED BY <1>1, <3>1
  <2> QED BY <1>1, <1>3, <2>1 DEF SearchInv, TypeOK
<1>5. InOrder'
  BY <1>1, <1>3 DEF SearchInv, InOrder
<1>6. ScoresKept'
  <2>1. InRange(result)' = InRange(result)
    BY <1>3 DEF InRange, InBatch, BatchLen
  <2>2. stage' = "score" => stage = "score"
    BY <1>1
  <2> QED BY <1>3, <2>1, <2>2 DEF SearchInv, ScoresKept
<1>7. ScoresBelong'
  BY <1>3 DEF SearchInv, ScoresBelong
<1>8. GloballyRanked'
  <2>1. stage' = "done" => stage = "done"
    BY <1>1
  <2> QED BY <1>3, <2>1 DEF SearchInv, GloballyRanked
<1> QED BY <1>2, <1>4, <1>5, <1>6, <1>7, <1>8 DEF SearchInv

LEMMA SearchInvInit == Init => SearchInv
<1> SUFFICES ASSUME Init PROVE SearchInv
  OBVIOUS
<1>1. /\ stage = "embed" /\ dense = <<>> /\ sparse = <<>> /\ candidates = <<>>
      /\ batchStart = 0 /\ attempt = 0 /\ tries = 0 /\ result = <<>>
      /\ answered = FALSE /\ lastError = FALSE
      /\ byIndex = <<>> /\ judged = {} /\ results = <<>>
  BY DEF Init
<1>2. {MAX_RERANK_ATTEMPTS, LLMTries, RERANK_CANDIDATE_LIMIT, DENSE_TOP_K} \subseteq Nat \ {0}
  BY PositiveAssumption
<1>3. <<>> \in Hits
  <2>1. <<>> \in [1 .. 0 -> Points]
    OBVIOUS
  <2>2. 0 \in 0 .. DENSE_TOP_K
    BY <1>2
  <2>3. <<>> \in BoundedSeq(Points, DENSE_TOP_K)
    BY <2>1, <2>2 DEF BoundedSeq, SeqOf
  <2> QED BY <2>3 DEF Hits
<1>4. DOMAIN byIndex = {} /\ Len(candidates) = 0 /\ Found = {}
  BY <1>1 DEF Found, ToSet
<1>5. TypeOK
  <2>1. /\ candidates \in Seq(Points) /\ result \in Seq(ScoreEntry)
        /\ results \in Seq([point : Points, score : Scores])
    BY <1>1
  <2>2. attempt \in 0 .. MAX_RERANK_ATTEMPTS - 1 /\ tries \in 0 .. LLMTries - 1
    BY <1>1, <1>2
  <2>3. Len(candidates) <= RERANK_CANDIDATE_LIMIT
    BY <1>2, <1>4
  <2> QED BY <1>1, <1>3, <1>4, <2>1, <2>2, <2>3 DEF TypeOK
<1>6. InOrder /\ CandidatesFound /\ FusionRespectsArms
  BY <1>1, <1>4 DEF InOrder, CandidatesFound, FusionRespectsArms, ToSet
<1>7. ScoresKept /\ ScoresBelong /\ GloballyRanked
  BY <1>1, <1>4 DEF ScoresKept, ScoresBelong, GloballyRanked, ToSet
<1> QED BY <1>5, <1>6, <1>7 DEF SearchInv

LEMMA SearchInvStep == SearchInv /\ [Next]_vars => SearchInv'
BY SearchKeeps, RespondKeeps, ScoreOnceKeeps, ScoreFailsKeeps, OtherStepsKeep DEF Next

LEMMA SearchInvariant == Spec => []SearchInv
BY SearchInvInit, SearchInvStep, PTL DEF Spec

\* For any limits, batch size, numbers of attempts and tries, and any answers of
\* the model, by_index names candidates only.
THEOREM TypeCorrect == Spec => []TypeOK
<1>1. SearchInv => TypeOK
  BY DEF SearchInv
<1> QED BY SearchInvariant, <1>1, PTL

\* The fusion and the cut at the candidate limit never put or keep a point before
\* one that both arms found, or that no arm ranks lower.
THEOREM FusionIsRespected == Spec => []FusionRespectsArms
<1>1. SearchInv => FusionRespectsArms
  BY DEF SearchInv
<1> QED BY SearchInvariant, <1>1, PTL

\* The service never hands a passage the score of another, whatever the model
\* answers and however often its batches are tried.
THEOREM ScoresStayTheirs == Spec => []ScoresBelong
<1>1. SearchInv => ScoresBelong
  BY DEF SearchInv
<1> QED BY SearchInvariant, <1>1, PTL

\* What the service returns is the best of all batches, best first.
THEOREM RankingIsGlobal == Spec => []GloballyRanked
<1>1. SearchInv => GloballyRanked
  BY DEF SearchInv
<1> QED BY SearchInvariant, <1>1, PTL

-----------------------------------------------------------------------------
(* The refinement of PassageSearch.                                         *)

Answer == [k \in DOMAIN results |-> results[k].point]

LEMMA NothingAnswered == results = <<>> => Answer = <<>>
BY DEF Answer

\* A step that does not end the search, and finds nothing new, is a stutter; an
\* error is a refusal.
LEMMA OpenSteps ==
    ASSUME State = "asked", UNCHANGED <<Found, results>>, State' \in {"asked", "failed"}
    PROVE  [Promise!Next]_(Promise!vars)
<1>1. Answer' = Answer
  BY DEF Answer
<1> QED BY <1>1 DEF Promise!Next, Promise!Refuse, Promise!vars, Answer

LEMMA SearchIsFound ==
    ASSUME SearchInv, Search
    PROVE  [Promise!Next]_(Promise!vars)
<1>1. /\ stage = "search" /\ dense' \in Hits /\ sparse' \in Hits
      /\ stage' = IF candidates' = <<>> THEN "done" ELSE "score"
      /\ results' = results /\ Fitting'
  BY FusionFitsThen DEF Search
<1>2. results = <<>> /\ Found = {}
  BY <1>1 DEF SearchInv, InOrder, Found, ToSet
<1>3. Answer = <<>> /\ Answer' = <<>>
  BY <1>1, <1>2 DEF Answer
<1>4. State = "asked"
  BY <1>1 DEF State
<1>5. Found' \subseteq Points
  BY <1>1, HitsAreOrders DEF Found
<1>6. CASE candidates' = <<>>
  <2>1. Found' = {} /\ State' = "answered"
    BY <1>1, <1>6 DEF Fitting, State
  <2>2. <<>> \in Promise!Answers({})
    <3>1. <<>> \in [1 .. 0 -> {}] /\ 0 \in 0 .. TopN
      BY PositiveAssumption
    <3> QED BY <3>1 DEF Promise!Answers
  <2>3. Promise!Reply
    BY <1>2, <1>3, <1>4, <2>1, <2>2 DEF Promise!Reply, Answer
  <2> QED BY <2>3 DEF Promise!Next
<1>7. CASE candidates' # <<>>
  <2>1. State' = "asked"
    BY <1>1, <1>7 DEF State
  <2>2. Promise!Find
    BY <1>2, <1>3, <1>4, <1>5, <2>1 DEF Promise!Find, Answer
  <2> QED BY <2>2 DEF Promise!Next
<1> QED BY <1>6, <1>7

LEMMA RespondIsReply ==
    ASSUME SearchInv, Respond
    PROVE  [Promise!Next]_(Promise!vars)
<1>1. /\ stage = "rank" /\ Found' = Found /\ results = <<>>
      /\ stage' = IF DOMAIN byIndex = {} THEN NothingScored ELSE "done"
  BY DEF Respond, searchVars, Found, SearchInv, InOrder
<1>2. State = "asked"
  BY <1>1 DEF State
<1>3. CASE DOMAIN byIndex = {}
  <2>1. State' = "failed"
    BY <1>1, <1>3 DEF State, NothingScored
  <2>2. results' = results
    BY <1>1, <1>3, TopIsBest
  <2> QED BY <1>1, <1>2, <2>1, <2>2, OpenSteps
<1>4. CASE DOMAIN byIndex # {}
  <2> DEFINE n == Len(results')
  <2>1. State' = "answered"
    BY <1>1, <1>4 DEF State
  <2>2. /\ n \in 0 .. TopN /\ DOMAIN results' = 1 .. n /\ results' # <<>>
        /\ \A k, l \in DOMAIN results' : results'[k].point = results'[l].point => k = l
        /\ results' \in Seq([point : Points, score : Scores])
    BY <1>4, TopIsBest
  <2>3. \A k \in 1 .. n : results'[k].point \in Found
    <3>1. \A k \in 1 .. n : results'[k] \in ToSet(results')
      BY <2>2 DEF ToSet
    <3> QED BY <3>1, TopIsBest
  <2> HIDE DEF n
  <2>4. /\ Answer' \in [1 .. n -> Found] /\ DOMAIN Answer' = 1 .. n
        /\ \A k, l \in 1 .. n : Answer'[k] = Answer'[l] => k = l
    BY <2>2, <2>3 DEF Answer
  <2>5. Answer' \in Promise!Answers(Found)
    BY <2>2, <2>4 DEF Promise!Answers
  <2>6. Answer' # <<>>
    <3>1. n # 0
      BY <2>2, EmptySeq DEF n
    <3>2. 1 \in 1 .. n
      BY <2>2, <3>1
    <3>3. DOMAIN Answer' # {} /\ DOMAIN <<>> = {}
      BY <2>4, <3>2
    <3> QED BY <3>3
  <2>7. Promise!Reply
    BY <1>1, <1>2, <2>1, <2>5, <2>6 DEF Promise!Reply, Answer
  <2> QED BY <2>7 DEF Promise!Next
<1> QED BY <1>3, <1>4

LEMMA EveryStepKeepsThePromise ==
    ASSUME SearchInv, [Next]_vars
    PROVE  [Promise!Next]_(Promise!vars)
<1>1. CASE Search
  BY <1>1, SearchIsFound
<1>2. CASE Respond
  BY <1>2, RespondIsReply
<1>3. CASE \/ EmbedQuery \/ EmbedFails \/ SearchFails \/ ScoreOnce \/ LLMRetries
           \/ ScoreFails \/ RerankerUnreachable
  <2>1. /\ UNCHANGED <<searchVars, results>> /\ stage \in {"embed", "search", "score", "rank"}
        /\ stage' \in {"embed", "search", "score", "rank", "failed"}
    BY <1>3 DEF EmbedQuery, EmbedFails, SearchFails, ScoreOnce, LLMRetries, ScoreFails,
                RerankerUnreachable, Fail, EndBatch, NextAttempt
  <2>2. Found' = Found
    BY <2>1 DEF Found, searchVars
  <2>3. State = "asked" /\ State' \in {"asked", "failed"}
    BY <2>1 DEF State
  <2> QED BY <2>1, <2>2, <2>3, OpenSteps
<1>4. CASE UNCHANGED vars
  <2>1. Found' = Found /\ State' = State /\ Answer' = Answer
    BY <1>4 DEF vars, searchVars, Found, State, Answer
  <2> QED BY <2>1 DEF Promise!vars, Answer
<1> QED BY <1>1, <1>2, <1>3, <1>4 DEF Next

\* Seen by its caller every search is a PassageSearch: it answers with a short list
\* of different points that were found, empty only if nothing was, or fails.
THEOREM PromiseIsKept == Spec => ImplementsPassageSearch
<1>1. Init => Promise!Init
  <2> SUFFICES ASSUME Init PROVE Promise!Init
    OBVIOUS
  <2>1. State = "asked" /\ Found = {} /\ Answer = <<>>
    BY NothingAnswered DEF Init, State, Found, ToSet
  <2> QED BY <2>1 DEF Promise!Init, Answer
<1>2. SearchInv /\ [Next]_vars => [Promise!Next]_(Promise!vars)
  BY EveryStepKeepsThePromise
<1> QED BY <1>1, <1>2, SearchInvariant, PTL DEF Spec, ImplementsPassageSearch, Promise!Spec

=============================================================================
