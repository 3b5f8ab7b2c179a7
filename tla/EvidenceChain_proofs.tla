------------------------ MODULE EvidenceChain_proofs ------------------------
(***************************************************************************)
(* What a run of run_research reports follows from the verdicts it got,    *)
(* for any number of sub-questions, claims and citations, and whatever the *)
(* model answers; seen from outside the run is a ResearchRun.              *)
(***************************************************************************)
EXTENDS EvidenceChain, SequenceTheorems, TLAPS

-----------------------------------------------------------------------------
(* Lists that grow by appending. What they hold is left open.               *)

IsList(s) == s \in Seq(ToSet(s))

LEMMA EmptyList == IsList(<<>>) /\ ToSet(<<>>) = {} /\ Len(<<>>) = 0
BY DEF IsList, ToSet

LEMMA AppendAdds ==
    ASSUME NEW s, IsList(s), NEW e
    PROVE  /\ IsList(Append(s, e))
           /\ ToSet(Append(s, e)) = ToSet(s) \cup {e}
           /\ Len(s) \in Nat /\ Len(Append(s, e)) = Len(s) + 1
           /\ Append(s, e) # <<>>
<1> DEFINE T == ToSet(s) \cup {e}
           a == Append(s, e)
<1>1. s \in Seq(T)
  BY DEF IsList
<1>2. /\ a \in Seq(T) /\ Len(s) \in Nat /\ Len(a) = Len(s) + 1
      /\ \A i \in 1 .. Len(s) : a[i] = s[i]
      /\ a[Len(s) + 1] = e
  BY <1>1
<1>3. ToSet(a) = T
  <2>1. DOMAIN a = 1 .. Len(s) + 1 /\ DOMAIN s = 1 .. Len(s)
    BY <1>1, <1>2
  <2> QED BY <1>2, <2>1 DEF ToSet
<1> QED BY <1>2, <1>3 DEF IsList

LEMMA ListIsEmpty ==
    ASSUME NEW s, IsList(s)
    PROVE  /\ Len(s) \in Nat
           /\ s = <<>> <=> ToSet(s) = {}
           /\ s = <<>> <=> Len(s) = 0
BY DEF IsList, ToSet

LEMMA Elements ==
    ASSUME NEW S, NEW s \in Seq(S)
    PROVE  ToSet(s) \subseteq S
BY DEF ToSet

LEMMA BoundedSeqs ==
    ASSUME NEW S, NEW n \in Nat, NEW s \in BoundedSeq(S, n)
    PROVE  s \in Seq(S)
<1>1. PICK m \in 0 .. n : s \in [1 .. m -> S]
  BY DEF BoundedSeq, SeqOf
<1> QED BY <1>1

LEMMA Bounds == {MaxSubQuestions, MaxHits, MaxItems, MaxPairs, MaxClaims, MaxCited} \subseteq Nat
                /\ MaxSubQuestions \in Nat /\ MaxHits \in Nat /\ MaxItems \in Nat
                /\ MaxClaims \in Nat /\ MaxCited \in Nat
BY BoundsAssumption

-----------------------------------------------------------------------------
(* The sub-questions.                                                       *)

Researching == {"retrieve", "extract", "verify", "contradict"}

\* What the lists of a sub-question hold; one that is researched is one the
\* decomposer made, and one that reaches the contradictions has evidence.
SubTypes ==
    /\ stage \in Stages
    /\ subQuestions \in 0 .. MaxSubQuestions /\ sub \in 1 .. MaxSubQuestions + 1
    /\ hits \in Seq(Chunks) /\ items \in Seq(Indices)
    /\ kept \in Seq([sub : {sub}, passage : DOMAIN hits])
    /\ verified \in Seq([sub : 1 .. MaxSubQuestions, chunk : Chunks])
    /\ gaps \subseteq 1 .. MaxSubQuestions
    /\ contradictions \subseteq [a : Int, b : Int, sub : 1 .. MaxSubQuestions, valid : BOOLEAN]
    /\ stage = "decompose" => sub = 1
    /\ stage \in Researching => sub <= subQuestions
    /\ stage = "contradict" => kept # <<>>
    /\ stage \notin {"contradict", "failed"} => kept = <<>>

SubInv == SubTypes /\ EverySubQuestionAccounted /\ ContradictionsNameTheirEvidence

\* A sub-question that is over without evidence has its gap.
LEMMA GapStep ==
    ASSUME SubInv, stage \in Researching, EndsInGap, UNCHANGED subQuestions
    PROVE  SubInv'
<1> USE Bounds DEF SubInv, SubTypes, EndsInGap, NextSubQuestion, Researching
<1>1. /\ MaxSubQuestions \in Nat /\ sub \in 1 .. MaxSubQuestions /\ sub' = sub + 1
      /\ sub' \in 1 .. MaxSubQuestions + 1
  OBVIOUS
<1>2. /\ stage' \in Stages /\ stage' # "contradict"
      /\ stage' # "decompose"
      /\ stage' \in Researching => sub' <= subQuestions'
  BY <1>1 DEF Stages
<1>3. /\ hits' \in Seq(Chunks) /\ items' \in Seq(Indices) /\ kept' = <<>>
      /\ kept' \in Seq([sub : {sub'}, passage : DOMAIN hits'])
  OBVIOUS
<1>4. gaps' \subseteq 1 .. MaxSubQuestions
  BY <1>1
<1>5. SubTypes'
  BY <1>1, <1>2, <1>3, <1>4
<1>6. EverySubQuestionAccounted'
  BY <1>1 DEF EverySubQuestionAccounted
<1>7. ContradictionsNameTheirEvidence'
  BY DEF ContradictionsNameTheirEvidence, InRange
<1> QED BY <1>5, <1>6, <1>7

\* The steps that only fill the lists of the sub-question, or end it.
LEMMA FillSteps ==
    ASSUME SubInv, Decompose \/ Retrieve \/ Extract \/ Verify
    PROVE  SubInv'
<1> USE Bounds DEF Stages, Researching
<1>1. ASSUME SubTypes', UNCHANGED <<sub, gaps, verified, contradictions>>
      PROVE  SubInv'
  BY <1>1 DEF SubInv, EverySubQuestionAccounted, ContradictionsNameTheirEvidence, InRange
<1>2. CASE Decompose
  <2>1. SubTypes'
    BY <1>2 DEF Decompose, Decompositions, SubInv, SubTypes
  <2> QED BY <1>1, <1>2, <2>1 DEF Decompose
<1>3. CASE Retrieve
  <2>1. CASE EndsInGap
    BY <1>3, <2>1, GapStep DEF Retrieve
  <2>2. ASSUME hits' \in BoundedSeq(Chunks, MaxHits), stage' = "extract",
               UNCHANGED <<subQuestions, sub, items, kept, verified, gaps, contradictions>>
        PROVE  SubInv'
    <3>1. hits' \in Seq(Chunks)
      BY <2>2, BoundedSeqs
    <3>2. kept' = <<>> /\ kept' \in Seq([sub : {sub'}, passage : DOMAIN hits'])
      BY <1>3, <2>2 DEF Retrieve, SubInv, SubTypes
    <3>3. SubTypes'
      BY <1>3, <2>2, <3>1, <3>2 DEF Retrieve, SubInv, SubTypes
    <3> QED BY <1>1, <2>2, <3>3
  <2> QED BY <1>3, <2>1, <2>2 DEF Retrieve
<1>4. CASE Extract
  <2>1. CASE EndsInGap
    BY <1>4, <2>1, GapStep DEF Extract
  <2>2. ASSUME items' \in Extractions, stage' = "verify",
               UNCHANGED <<subQuestions, sub, hits, kept, verified, gaps, contradictions>>
        PROVE  SubInv'
    <3>1. items' \in Seq(Indices)
      BY <2>2, BoundedSeqs DEF Extractions
    <3>2. SubTypes'
      BY <1>4, <2>2, <3>1 DEF Extract, SubInv, SubTypes
    <3> QED BY <1>1, <2>2, <3>2
  <2> QED BY <1>4, <2>1, <2>2 DEF Extract
<1>5. CASE Verify
  <2>1. PICK decisions \in Verifications, found \in BoundedSeq(DOMAIN items, Len(items)) :
           /\ IsSelection(found, decisions)
           /\ \/ found = <<>> /\ EndsInGap
              \/ /\ found # <<>>
                 /\ kept' = [k \in DOMAIN found |->
                                [sub |-> sub, passage |-> items[found[k]] + 1]]
                 /\ stage' = "contradict"
                 /\ UNCHANGED <<sub, hits, items, verified, gaps, contradictions>>
    BY <1>5 DEF Verify
  <2>2. stage = "verify" /\ UNCHANGED subQuestions
    BY <1>5 DEF Verify
  <2>3. CASE EndsInGap
    BY <2>2, <2>3, GapStep
  <2>4. CASE /\ found # <<>>
             /\ kept' = [k \in DOMAIN found |->
                            [sub |-> sub, passage |-> items[found[k]] + 1]]
             /\ stage' = "contradict"
             /\ UNCHANGED <<sub, hits, items, verified, gaps, contradictions>>
    <3>1. items \in Seq(Indices) /\ hits \in Seq(Chunks) /\ Len(items) \in Nat /\ Len(hits) \in Nat
      BY DEF SubInv, SubTypes
    <3>2. found \in Seq(DOMAIN items)
      BY <3>1, <2>1, BoundedSeqs
    <3>3. \A k \in DOMAIN found : items[found[k]] + 1 \in DOMAIN hits
      <4> SUFFICES ASSUME NEW k \in DOMAIN found PROVE items[found[k]] + 1 \in DOMAIN hits
        OBVIOUS
      <4>1. found[k] \in DOMAIN items /\ IsKept(decisions, found[k] - 1)
        BY <2>1, <3>2 DEF IsSelection, ToSet
      <4>2. items[found[k]] \in 0 .. Len(hits) - 1
        BY <3>1, <4>1 DEF IsKept
      <4> QED BY <3>1, <4>2
    <3>4. kept' \in Seq([sub : {sub}, passage : DOMAIN hits]) /\ kept' # <<>>
      <4> DEFINE Item == [sub : {sub}, passage : DOMAIN hits]
      <4>1. \A k \in DOMAIN found : [sub |-> sub, passage |-> items[found[k]] + 1] \in Item
        BY <3>3
      <4> HIDE DEF Item
      <4>2. Len(found) \in Nat /\ DOMAIN found = 1 .. Len(found) /\ Len(found) > 0
        BY <2>4, <3>2
      <4>3. kept' \in [1 .. Len(found) -> Item]
        BY <2>4, <4>1, <4>2
      <4>4. kept' \in Seq(Item) /\ Len(kept') = Len(found)
        BY <4>2, <4>3
      <4> QED BY <4>2, <4>4 DEF Item
    <3>5. SubTypes'
      BY <2>2, <2>4, <3>4 DEF SubInv, SubTypes
    <3> QED BY <1>1, <2>4, <3>5
  <2> QED BY <2>1, <2>3, <2>4
<1> QED BY <1>2, <1>3, <1>4, <1>5

\* A sub-question with evidence hands it over, and its contradictions with it.
LEMMA HandOverStep ==
    ASSUME SubInv, DetectContradictions
    PROVE  SubInv'
<1> DEFINE Evidence == [sub : 1 .. MaxSubQuestions, chunk : Chunks]
           own      == [k \in DOMAIN kept |-> [sub |-> sub, chunk |-> hits[kept[k].passage]]]
<1>1. /\ stage = "contradict" /\ kept # <<>> /\ sub \in 1 .. MaxSubQuestions
      /\ verified \in Seq(Evidence) /\ hits \in Seq(Chunks)
      /\ kept \in Seq([sub : {sub}, passage : DOMAIN hits])
      /\ MaxSubQuestions \in Nat /\ Len(verified) \in Nat /\ Len(kept) \in Nat
  BY Bounds DEF SubInv, SubTypes, DetectContradictions, Researching
<1>2. own \in Seq(Evidence) /\ Len(own) = Len(kept) /\ Len(own) > 0
  <2> DEFINE Item == [sub : {sub}, passage : DOMAIN hits]
  <2>1. \A i \in DOMAIN hits : hits[i] \in Chunks
    BY <1>1
  <2>2. \A e \in Item : e.passage \in DOMAIN hits
    OBVIOUS
  <2>3. kept \in Seq(Item) /\ DOMAIN kept = 1 .. Len(kept) /\ Len(kept) > 0
    BY <1>1
  <2>4. \A k \in DOMAIN kept : kept[k] \in Item
    <3> HIDE DEF Item
    <3> QED BY <2>3
  <2>5. \A k \in DOMAIN kept : [sub |-> sub, chunk |-> hits[kept[k].passage]] \in Evidence
    BY <1>1, <2>1, <2>2, <2>4
  <2> HIDE DEF Evidence, Item
  <2>6. own \in [1 .. Len(kept) -> Evidence]
    BY <2>3, <2>5
  <2> QED BY <1>1, <2>3, <2>6
<1>3. /\ verified' = verified \o own
      /\ sub' = sub + 1 /\ hits' = <<>> /\ items' = <<>> /\ kept' = <<>>
      /\ stage' = IF sub < subQuestions THEN "retrieve" ELSE "synthesize"
      /\ UNCHANGED subQuestions
  BY DEF DetectContradictions, NextSubQuestion
<1> HIDE DEF own
<1>4. /\ verified' \in Seq(Evidence)
      /\ \A i \in 1 .. Len(verified) : verified'[i] = verified[i]
      /\ \A k \in 1 .. Len(kept) : verified'[Len(verified) + k] = own[k]
      /\ Len(verified') = Len(verified) + Len(kept)
      /\ DOMAIN verified' = 1 .. Len(verified) + Len(kept)
      /\ DOMAIN verified = 1 .. Len(verified)
  <2> HIDE DEF Evidence
  <2>0. verified \in Seq(Evidence) /\ own \in Seq(Evidence) /\ verified' = verified \o own
    BY <1>1, <1>2, <1>3
  <2>1. /\ verified' \in Seq(Evidence) /\ Len(verified') = Len(verified) + Len(own)
        /\ \A i \in 1 .. Len(verified) + Len(own) :
              verified'[i] = IF i <= Len(verified) THEN verified[i] ELSE own[i - Len(verified)]
    BY <2>0, ConcatProperties
  <2>2. Len(own) = Len(kept) /\ Len(verified) \in Nat /\ Len(kept) \in Nat
    BY <1>1, <1>2
  <2>3. \A i \in 1 .. Len(verified) : verified'[i] = verified[i]
    BY <2>1, <2>2
  <2>4. ASSUME NEW k \in 1 .. Len(kept)
        PROVE  verified'[Len(verified) + k] = own[k]
    <3>1. /\ Len(verified) + k \in 1 .. Len(verified) + Len(own)
          /\ ~(Len(verified) + k <= Len(verified))
          /\ (Len(verified) + k) - Len(verified) = k
      BY <2>2
    <3> QED BY <2>1, <3>1
  <2>5. DOMAIN verified = 1 .. Len(verified) /\ DOMAIN verified' = 1 .. Len(verified')
    BY <2>0, <2>1
  <2> QED BY <2>1, <2>2, <2>3, <2>4, <2>5
<1>5. \A k \in 1 .. Len(kept) : own[k].sub = sub
  BY <1>1 DEF own
<1>6. PICK answer \in Detections :
        /\ contradictions' = contradictions \cup {Shifted(p) : p \in answer.pairs}
        /\ gaps' = IF answer.gap THEN gaps \cup {sub} ELSE gaps
  BY DEF DetectContradictions
<1>7. answer.pairs \subseteq Indices \X Indices
  BY <1>6 DEF Detections
<1>8. \A p \in answer.pairs :
        Shifted(p) \in [a : Int, b : Int, sub : 1 .. MaxSubQuestions, valid : BOOLEAN]
  <2> SUFFICES ASSUME NEW p \in answer.pairs
               PROVE  Shifted(p) \in
                         [a : Int, b : Int, sub : 1 .. MaxSubQuestions, valid : BOOLEAN]
    OBVIOUS
  <2>1. p[1] \in Int /\ p[2] \in Int
    BY <1>7, IndicesAssumption
  <2>2. p[1] + Len(verified) \in Int /\ p[2] + Len(verified) \in Int
    BY <1>1, <2>1
  <2>3. ({p[1], p[2]} \subseteq 0 .. Len(kept) - 1) \in BOOLEAN
    OBVIOUS
  <2> QED BY <1>1, <2>2, <2>3, Zenon DEF Shifted, EvidenceIndexOffset
<1>9. SubTypes'
  <2>1. gaps' \subseteq 1 .. MaxSubQuestions
    BY <1>1, <1>6 DEF SubInv, SubTypes
  <2>2. contradictions' \subseteq [a : Int, b : Int, sub : 1 .. MaxSubQuestions, valid : BOOLEAN]
    BY <1>6, <1>8 DEF SubInv, SubTypes
  <2>3. /\ hits' \in Seq(Chunks) /\ items' \in Seq(Indices)
        /\ kept' \in Seq([sub : {sub'}, passage : DOMAIN hits'])
    BY <1>3
  <2>4. /\ sub' \in 1 .. MaxSubQuestions + 1 /\ stage' \in Stages
        /\ subQuestions' \in 0 .. MaxSubQuestions
        /\ stage' \in Researching => sub' <= subQuestions'
        /\ stage' # "contradict"
    BY <1>1, <1>3 DEF SubInv, SubTypes, Stages, Researching
  <2> QED BY <1>3, <1>4, <2>1, <2>2, <2>3, <2>4 DEF SubTypes
<1>10. EverySubQuestionAccounted'
  <2> SUFFICES ASSUME NEW i \in 1 .. sub
               PROVE  i \in gaps' \/ \E e \in ToSet(verified') : e.sub = i
    BY <1>1, <1>3 DEF EverySubQuestionAccounted
  <2>1. CASE i = sub
    <3> HIDE DEF Evidence
    <3>1. 1 \in 1 .. Len(kept) /\ Len(verified) + 1 \in DOMAIN verified'
      BY <1>1, <1>2, <1>4
    <3>2. verified'[Len(verified) + 1] \in ToSet(verified')
      BY <3>1 DEF ToSet
    <3>3. verified'[Len(verified) + 1].sub = sub
      BY <1>4, <1>5, <3>1
    <3> QED BY <2>1, <3>2, <3>3
  <2>2. CASE i # sub
    <3>1. i \in gaps \/ \E e \in ToSet(verified) : e.sub = i
      BY <1>1, <2>2 DEF SubInv, EverySubQuestionAccounted
    <3>2. ToSet(verified) \subseteq ToSet(verified')
      BY <1>1, <1>4 DEF ToSet
    <3> QED BY <1>6, <3>1, <3>2
  <2> QED BY <2>1, <2>2
<1>11. ContradictionsNameTheirEvidence'
  <2> SUFFICES ASSUME NEW c \in contradictions', c.valid, NEW i \in {c.a, c.b}
               PROVE  i \in 0 .. Len(verified') - 1 /\ verified'[i + 1].sub = c.sub
    BY DEF ContradictionsNameTheirEvidence, InRange
  <2>1. CASE c \in contradictions
    <3>1. i \in 0 .. Len(verified) - 1 /\ verified[i + 1].sub = c.sub
      BY <2>1 DEF SubInv, ContradictionsNameTheirEvidence, InRange
    <3>2. i + 1 \in 1 .. Len(verified) /\ i \in 0 .. Len(verified') - 1
      <4>1. /\ Len(verified) \in Nat /\ Len(kept) \in Nat
            /\ Len(verified') = Len(verified) + Len(kept)
        BY <1>1, <1>4
      <4> HIDE DEF Evidence
      <4> QED BY <3>1, <4>1
    <3>3. verified'[i + 1] = verified[i + 1]
      BY <1>4, <3>2
    <3> QED BY <3>1, <3>2, <3>3
  <2>2. ASSUME NEW p \in answer.pairs, c = Shifted(p)
        PROVE  i \in 0 .. Len(verified') - 1 /\ verified'[i + 1].sub = c.sub
    <3>0. {p[1], p[2]} \subseteq 0 .. Len(kept) - 1
      BY <2>2 DEF Shifted, EvidenceIndexOffset
    <3>1. c.sub = sub /\ i \in {p[1] + Len(verified), p[2] + Len(verified)}
      BY <2>2 DEF Shifted, EvidenceIndexOffset
    <3>2. PICK n \in 0 .. Len(kept) - 1 : i = n + Len(verified)
      BY <3>0, <3>1
    <3>3. n + 1 \in 1 .. Len(kept) /\ i + 1 = Len(verified) + (n + 1)
      BY <1>1, <3>2
    <3>4. i \in 0 .. Len(verified') - 1
      <4>1. /\ Len(verified) \in Nat /\ Len(kept) \in Nat
            /\ Len(verified') = Len(verified) + Len(kept)
        BY <1>1, <1>4
      <4> HIDE DEF Evidence
      <4> QED BY <3>2, <4>1
    <3>5. verified'[i + 1] = own[n + 1] /\ own[n + 1].sub = sub
      BY <1>4, <1>5, <3>3
    <3> QED BY <3>1, <3>4, <3>5
  <2> QED BY <1>6, <2>1, <2>2
<1> QED BY <1>9, <1>10, <1>11 DEF SubInv

\* From the draft on, what the sub-questions left does not change.
LEMMA ClaimsKeepEvidence ==
    ASSUME SubInv, Synthesize \/ StartClaim \/ Cite \/ FinishClaim \/ Report \/ Fail
    PROVE  SubInv'
<1>1. /\ UNCHANGED <<subQuestions, sub, hits, items, kept, verified, gaps, contradictions>>
      /\ stage' \in Stages /\ stage' \notin Researching \cup {"decompose"}
  BY DEF Synthesize, StartClaim, Cite, FinishClaim, Report, Fail, Stages, Researching, subVars
<1>2. kept = <<>> \/ stage' = "failed"
  BY DEF Synthesize, StartClaim, Cite, FinishClaim, Report, Fail, SubInv, SubTypes
<1>3. SubTypes'
  BY <1>1, <1>2 DEF SubInv, SubTypes, Researching
<1> QED BY <1>1, <1>3 DEF SubInv, EverySubQuestionAccounted,
                          ContradictionsNameTheirEvidence, InRange

LEMMA SubInvariant == Spec => []SubInv
<1>1. Init => SubInv
  BY Bounds DEF Init, SubInv, SubTypes, Stages, Researching, EverySubQuestionAccounted,
                ContradictionsNameTheirEvidence
<1>2. SubInv /\ [Next]_vars => SubInv'
  <2> SUFFICES ASSUME SubInv, [Next]_vars PROVE SubInv'
    OBVIOUS
  <2>1. CASE UNCHANGED vars
    BY <2>1 DEF vars, subVars, SubInv, SubTypes, EverySubQuestionAccounted,
                ContradictionsNameTheirEvidence, InRange
  <2> QED BY <2>1, FillSteps, HandOverStep, ClaimsKeepEvidence DEF Next
<1> QED BY <1>1, <1>2, PTL DEF Spec

(* For every decomposition, every passage found and every answer of the     *)
(* model, each sub-question that is over has evidence or a gap of its own   *)
(* (the loop of run_research and the early returns of                       *)
(* _research_sub_question).                                                 *)
THEOREM SubQuestionsAccounted == Spec => []EverySubQuestionAccounted
BY SubInvariant, PTL DEF SubInv

(* A contradiction the model reports between two items it was shown names,  *)
(* once offset, two pieces of evidence of that sub-question, however many   *)
(* sub-questions came before it (evidence_index_offset).                    *)
THEOREM ContradictionsKeepTheirEvidence == Spec => []ContradictionsNameTheirEvidence
BY SubInvariant, PTL DEF SubInv

-----------------------------------------------------------------------------
(* The claims and the rows they leave.                                      *)

Early == Researching \cup {"decompose", "synthesize"}

\* Before the draft there is nothing to cite and nothing is stored.
Blank ==
    /\ drafts = <<>> /\ draft = 1 /\ lines = <<>> /\ ~insufficient
    /\ claimRows = <<>> /\ evidenceRows = <<>> /\ citations = <<>> /\ links = {}
    /\ persisted = [i \in Indices |-> 0]

CitationRows == [claim : 1 .. Len(claimRows), row : 1 .. Len(evidenceRows),
                 judged : 0 .. Len(verified) - 1, verdict : Verdicts]

\* What the tables hold. The citation being filed is never beyond the evidence
\* it is zipped with, and an index is filed under a row that exists.
RowInv ==
    /\ drafts \in Seq(Seq(Indices)) /\ draft \in Nat \ {0}
    /\ pair \in Nat \ {0} /\ place \in Nat /\ pair <= place + 1
    /\ IsList(claimRows) /\ ToSet(claimRows) \subseteq DOMAIN drafts
    /\ IsList(evidenceRows) /\ ToSet(evidenceRows) \subseteq 0 .. Len(verified) - 1
    /\ IsList(citations) /\ ToSet(citations) \subseteq CitationRows
    /\ links \subseteq (1 .. Len(claimRows)) \X (1 .. Len(evidenceRows))
    /\ persisted \in [Indices -> Nat]
    /\ stage # "failed" => \A i \in Indices : persisted[i] <= Len(evidenceRows)
    /\ stage # "failed" => accepted \in NoText .. Len(citations)
    /\ flagged \in BOOLEAN /\ insufficient \in BOOLEAN
    /\ stage = "cite" => /\ draft \in DOMAIN drafts /\ claimRows # <<>>
                         /\ Resolvable(draft)
    /\ stage \in Early => Blank

LEMMA EarlySteps ==
    ASSUME Decompose \/ Retrieve \/ Extract \/ Verify \/ DetectContradictions
    PROVE  UNCHANGED <<claimVars, rowVars, insufficient>> /\ {stage, stage'} \subseteq Early
BY DEF Decompose, Retrieve, Extract, Verify, DetectContradictions, EndsInGap,
       NextSubQuestion, Early, Researching

\* What one pass of the citation loop does to the rows.
LEMMA CiteFacts ==
    ASSUME SubInv, RowInv, Cite
    PROVE  \E p \in Cited(draft), verdict \in Verdicts :
              LET index == drafts[draft][pair]
                  ve    == drafts[draft][p]
              IN  \E row \in Nat :
                    /\ stage = "cite" /\ IsNextCited(p) /\ place' = p /\ pair' = pair + 1
                    /\ index \in Indices /\ ve \in Indices /\ ve \in 0 .. Len(verified) - 1
                    /\ p \in DOMAIN drafts[draft] /\ p \in Nat
                    /\ \/ /\ persisted[index] # 0 /\ row = persisted[index]
                          /\ evidenceRows' = evidenceRows
                       \/ /\ persisted[index] = 0 /\ row = Len(evidenceRows) + 1
                          /\ evidenceRows' = Append(evidenceRows, ve)
                    /\ persisted' = [persisted EXCEPT ![index] = row]
                    /\ links' = links \cup {<<Len(claimRows), row>>}
                    /\ citations' = Append(citations,
                          [claim |-> Len(claimRows), row |-> row,
                           judged |-> ve, verdict |-> verdict])
                    /\ accepted' = AcceptedText(verdict)
                    /\ flagged' = (flagged \/ verdict = "FLAG")
<1>1. PICK p \in DOMAIN drafts[draft], verdict \in Verdicts :
        LET index == drafts[draft][pair]
            ve    == drafts[draft][p]
            filed == Filed(index, ve)
        IN  /\ IsNextCited(p) /\ place' = p
            /\ evidenceRows' = filed.rows
            /\ persisted' = [persisted EXCEPT ![index] = filed.row]
            /\ links' = links \cup {<<Len(claimRows), filed.row>>}
            /\ citations' = Append(citations,
                  [claim |-> Len(claimRows), row |-> filed.row,
                   judged |-> ve, verdict |-> verdict])
            /\ accepted' = AcceptedText(verdict)
            /\ flagged' = (flagged \/ verdict = "FLAG")
  BY DEF Cite, CitationDecisions, FiledUnder
<1> DEFINE index == drafts[draft][pair]
           ve    == drafts[draft][p]
           filed == Filed(index, ve)
<1>2. stage = "cite" /\ pair' = pair + 1 /\ draft \in DOMAIN drafts
  BY DEF Cite, RowInv
<1>3. drafts[draft] \in Seq(Indices) /\ p \in Nat /\ p \in 1 .. Len(drafts[draft])
  BY <1>2 DEF RowInv
<1>4. p \in Cited(draft) /\ p > place /\ InRange(ve)
  BY <1>1 DEF IsNextCited, Cited
<1>5. pair \in 1 .. Len(drafts[draft])
  BY <1>3, <1>4 DEF RowInv
<1>6. index \in Indices /\ ve \in Indices /\ ve \in 0 .. Len(verified) - 1
  BY <1>3, <1>4, <1>5 DEF InRange
<1>7. persisted[index] \in Nat /\ Len(evidenceRows) \in Nat
  BY <1>6, ListIsEmpty DEF RowInv
<1>8. /\ filed.row \in Nat
      /\ \/ /\ persisted[index] # 0 /\ filed.row = persisted[index]
            /\ filed.rows = evidenceRows
         \/ /\ persisted[index] = 0 /\ filed.row = Len(evidenceRows) + 1
            /\ filed.rows = Append(evidenceRows, ve)
  <2> HIDE DEF index, ve
  <2> QED BY <1>7 DEF Filed
<1> HIDE DEF filed
<1> QED BY <1>1, <1>2, <1>3, <1>4, <1>6, <1>8 DEF filed

LEMMA RowInvCite ==
    ASSUME SubInv, RowInv, Cite
    PROVE  RowInv'
<1>1. PICK p \in Cited(draft), verdict \in Verdicts, row \in Nat :
        LET index == drafts[draft][pair]
            ve    == drafts[draft][p]
        IN  /\ stage = "cite" /\ IsNextCited(p) /\ place' = p /\ pair' = pair + 1
            /\ index \in Indices /\ ve \in Indices /\ ve \in 0 .. Len(verified) - 1
            /\ p \in DOMAIN drafts[draft] /\ p \in Nat
            /\ \/ /\ persisted[index] # 0 /\ row = persisted[index]
                  /\ evidenceRows' = evidenceRows
               \/ /\ persisted[index] = 0 /\ row = Len(evidenceRows) + 1
                  /\ evidenceRows' = Append(evidenceRows, ve)
            /\ persisted' = [persisted EXCEPT ![index] = row]
            /\ links' = links \cup {<<Len(claimRows), row>>}
            /\ citations' = Append(citations,
                  [claim |-> Len(claimRows), row |-> row,
                   judged |-> ve, verdict |-> verdict])
            /\ accepted' = AcceptedText(verdict)
            /\ flagged' = (flagged \/ verdict = "FLAG")
  BY CiteFacts
<1> DEFINE index == drafts[draft][pair]
           ve    == drafts[draft][p]
           new   == [claim |-> Len(claimRows), row |-> row, judged |-> ve, verdict |-> verdict]
<1>2. /\ UNCHANGED <<stage, subVars, drafts, draft, lines, claimRows, insufficient>>
      /\ claimRows # <<>>
  BY <1>1 DEF Cite, RowInv
<1>3. /\ Len(claimRows) \in Nat /\ Len(claimRows) \in 1 .. Len(claimRows)
      /\ Len(evidenceRows) \in Nat
  BY <1>2, ListIsEmpty DEF RowInv
<1>4. /\ IsList(evidenceRows') /\ ToSet(evidenceRows') \subseteq 0 .. Len(verified) - 1
      /\ Len(evidenceRows') \in Nat /\ Len(evidenceRows) <= Len(evidenceRows')
      /\ row \in 1 .. Len(evidenceRows')
  <2>1. CASE evidenceRows' = evidenceRows /\ persisted[index] # 0 /\ row = persisted[index]
    <3>1. persisted[index] \in Nat /\ persisted[index] <= Len(evidenceRows)
      BY <1>1 DEF RowInv
    <3>2. row \in 1 .. Len(evidenceRows)
      <4> HIDE DEF index
      <4> QED BY <1>3, <2>1, <3>1
    <3> QED BY <1>3, <2>1, <3>2 DEF RowInv
  <2>2. CASE evidenceRows' = Append(evidenceRows, ve) /\ row = Len(evidenceRows) + 1
    <3>1. IsList(evidenceRows)
      BY DEF RowInv
    <3>2. /\ IsList(evidenceRows') /\ ToSet(evidenceRows') = ToSet(evidenceRows) \cup {ve}
          /\ Len(evidenceRows') = Len(evidenceRows) + 1
      BY <2>2, <3>1, AppendAdds
    <3>3. ToSet(evidenceRows) \subseteq 0 .. Len(verified) - 1 /\ ve \in 0 .. Len(verified) - 1
      BY <1>1 DEF RowInv
    <3> HIDE DEF ve
    <3> QED BY <1>3, <2>2, <3>2, <3>3
  <2> QED BY <1>1, <2>1, <2>2
<1>5. IsList(citations') /\ ToSet(citations') = ToSet(citations) \cup {new}
  <2>1. IsList(citations) /\ citations' = Append(citations, new)
    BY <1>1 DEF RowInv
  <2> HIDE DEF new
  <2> QED BY <2>1, AppendAdds
<1>6. new \in CitationRows'
  BY <1>1, <1>2, <1>3, <1>4 DEF CitationRows, subVars
<1>7. CitationRows \subseteq CitationRows'
  <2>1. 1 .. Len(evidenceRows) \subseteq 1 .. Len(evidenceRows')
    BY <1>3, <1>4
  <2>2. UNCHANGED <<claimRows, verified>>
    BY <1>2 DEF subVars
  <2> QED BY <2>1, <2>2 DEF CitationRows
<1>8. ToSet(citations') \subseteq CitationRows'
  BY <1>5, <1>6, <1>7 DEF RowInv
<1>9. links' \subseteq (1 .. Len(claimRows')) \X (1 .. Len(evidenceRows'))
  <2>1. 1 .. Len(evidenceRows) \subseteq 1 .. Len(evidenceRows')
    BY <1>3, <1>4
  <2>2. <<Len(claimRows), row>> \in (1 .. Len(claimRows')) \X (1 .. Len(evidenceRows'))
    BY <1>2, <1>3, <1>4
  <2>3. links \subseteq (1 .. Len(claimRows')) \X (1 .. Len(evidenceRows'))
    BY <1>2, <2>1 DEF RowInv
  <2> QED BY <1>1, <2>2, <2>3
<1>10. /\ persisted' \in [Indices -> Nat]
       /\ \A i \in Indices : persisted'[i] <= Len(evidenceRows')
  <2>1. index \in Indices /\ persisted' = [persisted EXCEPT ![index] = row]
    BY <1>1
  <2>2. /\ persisted \in [Indices -> Nat] /\ row \in Nat /\ row <= Len(evidenceRows')
        /\ \A i \in Indices : persisted[i] <= Len(evidenceRows)
    BY <1>1, <1>4 DEF RowInv
  <2>3. persisted' \in [Indices -> Nat]
    <3> HIDE DEF index
    <3> QED BY <2>1, <2>2
  <2>4. ASSUME NEW i \in Indices PROVE persisted'[i] <= Len(evidenceRows')
    <3>1. persisted[i] \in Nat /\ persisted[i] <= Len(evidenceRows)
      BY <2>2
    <3>2. persisted'[i] = row \/ persisted'[i] = persisted[i]
      BY <2>1, <2>2
    <3> HIDE DEF index
    <3> QED BY <1>3, <1>4, <2>2, <3>1, <3>2
  <2> QED BY <2>3, <2>4
<1>11. pair' \in Nat \ {0} /\ place' \in Nat /\ pair' <= place' + 1
  <2>1. pair' = pair + 1 /\ place' = p /\ p \in Nat /\ p > place
    BY <1>1 DEF IsNextCited
  <2>2. pair \in Nat \ {0} /\ place \in Nat /\ pair <= place + 1
    BY DEF RowInv
  <2> QED BY <2>1, <2>2
<1>12. accepted' \in NoText .. Len(citations')
  <2>1. IsList(citations) /\ citations' = Append(citations, new)
    BY <1>1 DEF RowInv
  <2>2. Len(citations) \in Nat /\ Len(citations') = Len(citations) + 1
    <3> HIDE DEF new
    <3> QED BY <2>1, AppendAdds
  <2>3. accepted' = AcceptedText(verdict) /\ accepted \in NoText .. Len(citations)
    BY <1>1 DEF RowInv
  <2>4. accepted' \in {DraftText, Len(citations) + 1, accepted}
    BY <2>3 DEF AcceptedText
  <2> QED BY <2>2, <2>3, <2>4 DEF NoText, DraftText
<1>16. flagged' \in BOOLEAN
  BY <1>1 DEF RowInv
<1>13. stage' \notin Early
  BY <1>1, <1>2 DEF Early, Researching
<1>14. Resolvable(draft)'
  BY <1>1, <1>2 DEF RowInv, Resolvable, Cited, InRange, subVars
<1>15. UNCHANGED <<stage, verified, drafts, draft, claimRows, insufficient>>
  BY <1>2 DEF subVars
<1> QED BY <1>4, <1>5, <1>8, <1>9, <1>10, <1>11, <1>12, <1>13, <1>14, <1>15, <1>16 DEF RowInv

\* The other steps: only StartClaim writes a row.
LEMMA RowInvOthers ==
    ASSUME SubInv, RowInv, [Next]_vars, ~Cite
    PROVE  RowInv'
<1>1. CASE Decompose \/ Retrieve \/ Extract \/ Verify \/ DetectContradictions
  <2>1. /\ UNCHANGED <<claimVars, rowVars, insufficient>> /\ {stage, stage'} \subseteq Early
        /\ Blank
    BY <1>1, EarlySteps DEF RowInv
  <2>2. stage' \notin {"cite", "failed"} /\ stage # "failed"
    BY <2>1 DEF Early, Researching
  <2>3. accepted' \in NoText .. Len(citations') /\ UNCHANGED <<drafts, draft, claimRows>>
    BY <2>1, <2>2 DEF RowInv, claimVars, rowVars
  <2> QED BY <2>1, <2>2, <2>3, EmptyList
          DEF RowInv, Blank, claimVars, rowVars, CitationRows
<1>2. CASE Synthesize
  <2>1. /\ stage = "synthesize" /\ Blank
        /\ drafts' \in Seq(Seq(Indices))
        /\ stage' \in {"claim", "done"} /\ insufficient' \in BOOLEAN
        /\ UNCHANGED <<subVars, draft, pair, place, accepted, flagged, lines, rowVars>>
    <3>1. ASSUME drafts' \in Syntheses
          PROVE  drafts' \in Seq(Seq(Indices))
      <4> DEFINE C == BoundedSeq(Indices, MaxCited) \ {<<>>}
      <4>1. drafts' \in Seq(C)
        BY <3>1, Bounds, BoundedSeqs DEF Syntheses
      <4>2. C \subseteq Seq(Indices)
        BY Bounds, BoundedSeqs
      <4> HIDE DEF C
      <4> QED BY <4>1, <4>2
    <3> QED BY <1>2, <3>1 DEF Synthesize, RowInv, Early
  <2>2. stage' \notin Early
    BY <2>1 DEF Early, Researching
  <2> QED BY <2>1, <2>2, EmptyList
          DEF RowInv, Blank, subVars, rowVars, CitationRows
<1>3. CASE StartClaim
  <2>1. CASE ~Resolvable(draft)
    <3>1. /\ draft' = draft + 1
          /\ UNCHANGED <<stage, subVars, drafts, pair, place, accepted, flagged, lines,
                         rowVars, insufficient>>
          /\ stage = "claim"
      BY <1>3, <2>1 DEF StartClaim, rowVars
    <3> QED BY <3>1 DEF RowInv, Early, Researching, subVars, rowVars, CitationRows
  <2>2. CASE Resolvable(draft)
    <3>1. /\ stage = "claim" /\ stage' = "cite" /\ draft <= Len(drafts)
          /\ claimRows' = Append(claimRows, draft)
          /\ pair' = 1 /\ place' = 0 /\ accepted' = NoText /\ flagged' = FALSE
          /\ UNCHANGED <<subVars, drafts, draft, lines, evidenceRows, persisted, links,
                         citations, insufficient>>
      BY <1>3, <2>2 DEF StartClaim
    <3>2. /\ IsList(claimRows') /\ ToSet(claimRows') = ToSet(claimRows) \cup {draft}
          /\ Len(claimRows) \in Nat /\ Len(claimRows') = Len(claimRows) + 1
          /\ claimRows' # <<>>
      BY <3>1, AppendAdds DEF RowInv
    <3>3. draft \in DOMAIN drafts
      BY <3>1 DEF RowInv
    <3>4. 1 .. Len(claimRows) \subseteq 1 .. Len(claimRows')
      BY <3>2
    <3>5. CitationRows \subseteq CitationRows'
      BY <3>1, <3>4 DEF CitationRows, subVars
    <3>6. links' \subseteq (1 .. Len(claimRows')) \X (1 .. Len(evidenceRows'))
      BY <3>1, <3>4 DEF RowInv
    <3>7. Resolvable(draft)'
      BY <2>2, <3>1 DEF Resolvable, Cited, InRange, subVars
    <3>8. stage' \notin Early /\ stage # "failed"
      BY <3>1 DEF Early, Researching
    <3>9. UNCHANGED <<verified, drafts, draft, evidenceRows, persisted, citations, insufficient>>
      BY <3>1 DEF subVars
    <3>10. ToSet(citations') \subseteq CitationRows' /\ ToSet(claimRows') \subseteq DOMAIN drafts'
      BY <3>2, <3>3, <3>5, <3>9 DEF RowInv
    <3>11. /\ pair' \in Nat \ {0} /\ place' \in Nat /\ pair' <= place' + 1
           /\ accepted' \in NoText .. Len(citations')
      BY <3>1, ListIsEmpty DEF RowInv, NoText
    <3> QED BY <3>1, <3>2, <3>3, <3>6, <3>7, <3>8, <3>9, <3>10, <3>11 DEF RowInv
  <2> QED BY <2>1, <2>2
<1>4. CASE FinishClaim
  <2>1. /\ draft' = draft + 1 /\ stage' = "claim" /\ stage = "cite"
        /\ UNCHANGED <<subVars, drafts, pair, place, accepted, flagged, rowVars, insufficient>>
    BY <1>4 DEF FinishClaim
  <2> QED BY <2>1 DEF RowInv, Early, Researching, subVars, rowVars, CitationRows
<1>5. CASE Report
  <2>1. /\ stage' = "done" /\ stage = "claim" /\ insufficient' \in BOOLEAN
        /\ UNCHANGED <<subVars, claimVars, rowVars>>
    BY <1>5 DEF Report, NothingToReport
  <2> QED BY <2>1 DEF RowInv, Early, Researching, subVars, claimVars, rowVars, CitationRows
<1>6. CASE Fail
  <2>1. /\ stage' = "failed"
        /\ claimRows' = <<>> /\ evidenceRows' = <<>> /\ links' = {} /\ citations' = <<>>
        /\ UNCHANGED <<subVars, claimVars, persisted, insufficient>>
    BY <1>6 DEF Fail
  <2> QED BY <2>1, EmptyList DEF RowInv, Early, Researching, subVars, claimVars, CitationRows
<1>7. CASE UNCHANGED vars
  BY <1>7 DEF vars, subVars, claimVars, rowVars, RowInv, Early, Blank, CitationRows,
              Resolvable, Cited, InRange
<1> QED BY <1>1, <1>2, <1>3, <1>4, <1>5, <1>6, <1>7 DEF Next

LEMMA RowInvariant == Spec => [](SubInv /\ RowInv)
<1>1. Init => RowInv
  <2> SUFFICES ASSUME Init PROVE RowInv
    OBVIOUS
  <2>1. Blank /\ stage = "decompose"
    BY DEF Init, Blank
  <2>2. /\ drafts \in Seq(Seq(Indices)) /\ persisted \in [Indices -> Nat]
        /\ \A i \in Indices : persisted[i] <= Len(evidenceRows)
    BY EmptyList DEF Init
  <2>3. /\ IsList(claimRows) /\ ToSet(claimRows) = {}
        /\ IsList(evidenceRows) /\ ToSet(evidenceRows) = {}
        /\ IsList(citations) /\ ToSet(citations) = {} /\ links = {}
    BY EmptyList DEF Init
  <2>4. /\ draft \in Nat \ {0} /\ pair \in Nat \ {0} /\ place \in Nat /\ pair <= place + 1
        /\ accepted \in NoText .. Len(citations)
    BY SMT, EmptyList DEF Init, NoText
  <2>5. stage # "cite" /\ flagged \in BOOLEAN /\ insufficient \in BOOLEAN
    BY Zenon DEF Init
  <2> QED BY <2>1, <2>2, <2>3, <2>4, <2>5 DEF RowInv
<1>2. SubInv /\ RowInv /\ [Next]_vars => RowInv'
  BY RowInvCite, RowInvOthers
<1> QED BY <1>1, <1>2, SubInvariant, PTL DEF Spec

LEMMA ListDomain == ASSUME NEW s, IsList(s) PROVE DOMAIN s = 1 .. Len(s)
BY DEF IsList

(* Every list and table of a run holds what it should: a kept item points   *)
(* at a passage retrieved for it, a citation at a claim and at a piece of   *)
(* evidence that are stored (the range tests of run_research).              *)
THEOREM TypeCorrect == Spec => []TypeOK
<1>1. SubInv /\ RowInv => TypeOK
  <2> SUFFICES ASSUME SubInv, RowInv PROVE TypeOK
    OBVIOUS
  <2>1. /\ ToSet(hits) \subseteq Chunks /\ ToSet(items) \subseteq Indices
        /\ ToSet(kept) \subseteq [sub : {sub}, passage : DOMAIN hits]
        /\ ToSet(verified) \subseteq [sub : 1 .. MaxSubQuestions, chunk : Chunks]
    BY Elements DEF SubInv, SubTypes
  <2>2. /\ DOMAIN claimRows = 1 .. Len(claimRows)
        /\ DOMAIN evidenceRows = 1 .. Len(evidenceRows)
    BY ListDomain DEF RowInv
  <2>3. ToSet(citations) \subseteq [claim : DOMAIN claimRows, row : DOMAIN evidenceRows,
                                    judged : 0 .. Len(verified) - 1, verdict : Verdicts]
    BY <2>2 DEF RowInv, CitationRows
  <2>4. links \subseteq (DOMAIN claimRows) \X (DOMAIN evidenceRows)
    BY <2>2 DEF RowInv
  <2>5. /\ stage \in Stages
        /\ subQuestions \in 0 .. MaxSubQuestions /\ sub \in 1 .. MaxSubQuestions + 1
        /\ gaps \subseteq 1 .. MaxSubQuestions
        /\ contradictions \subseteq
              [a : Int, b : Int, sub : 1 .. MaxSubQuestions, valid : BOOLEAN]
    BY DEF SubInv, SubTypes
  <2>6. /\ ToSet(claimRows) \subseteq DOMAIN drafts
        /\ ToSet(evidenceRows) \subseteq 0 .. Len(verified) - 1
        /\ stage # "failed" => accepted \in NoText .. Len(citations)
        /\ flagged \in BOOLEAN /\ insufficient \in BOOLEAN
    BY DEF RowInv
  <2> QED BY <2>1, <2>3, <2>4, <2>5, <2>6, Zenon DEF TypeOK
<1> QED BY <1>1, RowInvariant, PTL

-----------------------------------------------------------------------------
(* What the report says of each claim.                                      *)

LinesOf(n) == {l \in ToSet(lines) : l.claim = n}

Reported(n) ==
    /\ LinesOf(n) # {} <=> VerdictsOn(n) \cap Ships # {}
    /\ \A l \in LinesOf(n) : /\ AreTheWordsOf(l.text, n)
                             /\ l.uncertain <=> "FLAG" \in VerdictsOn(n)

IsCited(n) == \E c \in ToSet(citations) : c.claim = n

\* The verdicts on the claim being cited are the ones its text and its mark
\* stand for.
OpenClaim ==
    LET last == Len(claimRows) IN
    /\ LinesOf(last) = {}
    /\ accepted = NoText <=> VerdictsOn(last) \cap Ships = {}
    /\ accepted # NoText => AreTheWordsOf(accepted, last)
    /\ flagged <=> "FLAG" \in VerdictsOn(last)
    /\ place = 0 \/ IsCited(last)

OutcomeInv ==
    /\ IsList(lines)
    /\ stage # "failed" => \A l \in ToSet(lines) : l.claim \in 1 .. Len(claimRows)
    /\ stage \in {"claim", "done"} => \A n \in 1 .. Len(claimRows) : Reported(n) /\ IsCited(n)
    /\ stage = "cite" => /\ \A n \in 1 .. Len(claimRows) - 1 : Reported(n) /\ IsCited(n)
                         /\ OpenClaim
    /\ stage = "done" => (insufficient <=> lines = <<>>)

\* A new citation adds itself to the rewrites of its claim, as the last one.
LEMMA RewritesGrow ==
    ASSUME IsList(citations), NEW new, citations' = Append(citations, new), NEW n
    PROVE  /\ Len(citations) \in Nat /\ RewritesOf(n) \subseteq 1 .. Len(citations)
           /\ RewritesOf(n)' = RewritesOf(n) \cup
                 IF new.claim = n /\ new.verdict = "REWRITE" THEN {Len(citations) + 1} ELSE {}
<1>1. /\ Len(citations) \in Nat /\ DOMAIN citations = 1 .. Len(citations)
      /\ DOMAIN citations' = 1 .. Len(citations) + 1
      /\ \A k \in 1 .. Len(citations) : citations'[k] = citations[k]
      /\ citations'[Len(citations) + 1] = new
  <2>1. citations \in Seq(ToSet(citations) \cup {new})
    BY DEF IsList
  <2> QED BY <2>1
<1> QED BY <1>1 DEF RewritesOf

LEMMA RewriteIsVerdict ==
    ASSUME IsList(citations), NEW n, NEW k \in RewritesOf(n)
    PROVE  "REWRITE" \in VerdictsOn(n)
<1>1. k \in DOMAIN citations /\ citations[k] \in ToSet(citations)
  BY DEF RewritesOf, IsList
<1> QED BY <1>1 DEF RewritesOf, VerdictsOn

LEMMA OutcomeCite ==
    ASSUME SubInv, RowInv, OutcomeInv, Cite
    PROVE  OutcomeInv'
<1> DEFINE last == Len(claimRows)
<1>1. PICK verdict, new :
        /\ stage = "cite" /\ new.claim = last /\ new.verdict = verdict
        /\ citations' = Append(citations, new)
        /\ accepted' = AcceptedText(verdict)
        /\ flagged' = (flagged \/ verdict = "FLAG")
  <2>1. PICK p \in Cited(draft), verdict \in Verdicts, row \in Nat :
          /\ stage = "cite"
          /\ citations' = Append(citations,
                [claim |-> Len(claimRows), row |-> row,
                 judged |-> drafts[draft][p], verdict |-> verdict])
          /\ accepted' = AcceptedText(verdict)
          /\ flagged' = (flagged \/ verdict = "FLAG")
    BY CiteFacts
  <2> QED BY <2>1
<1>2. UNCHANGED <<stage, lines, claimRows>> /\ last \in Nat
  BY ListIsEmpty DEF Cite, RowInv
<1>3. ToSet(citations') = ToSet(citations) \cup {new}
  BY <1>1, AppendAdds DEF RowInv
<1>4. \A n : LinesOf(n)' = LinesOf(n)
  BY <1>2 DEF LinesOf
<1>5. VerdictsOn(last)' = VerdictsOn(last) \cup {verdict}
  BY <1>1, <1>2, <1>3 DEF VerdictsOn
<1>6. ASSUME NEW n \in 1 .. Len(claimRows)' - 1
      PROVE  (Reported(n) /\ IsCited(n))'
  <2>1. Reported(n) /\ IsCited(n) /\ n # last
    BY <1>1, <1>2 DEF OutcomeInv
  <2>2. VerdictsOn(n)' = VerdictsOn(n)
    BY <1>1, <1>3, <2>1 DEF VerdictsOn
  <2>3. RewritesOf(n)' = RewritesOf(n)
    BY <1>1, <2>1, RewritesGrow DEF RowInv
  <2> QED BY <1>3, <1>4, <2>1, <2>2, <2>3 DEF Reported, IsCited, AreTheWordsOf
<1>7. OpenClaim'
  <2>1. OpenClaim
    BY <1>1 DEF OutcomeInv
  <2>7. /\ Len(citations) \in Nat /\ RewritesOf(last) \subseteq 1 .. Len(citations)
        /\ RewritesOf(last)' = RewritesOf(last) \cup
              IF verdict = "REWRITE" THEN {Len(citations) + 1} ELSE {}
    <3>1. IsList(citations) /\ citations' = Append(citations, new)
      BY <1>1 DEF RowInv
    <3>2. new.claim = last /\ new.verdict = verdict
      BY <1>1
    <3>3. \A n : /\ RewritesOf(n) \subseteq 1 .. Len(citations) /\ Len(citations) \in Nat
                /\ RewritesOf(n)' = RewritesOf(n) \cup
                     IF new.claim = n /\ new.verdict = "REWRITE"
                     THEN {Len(citations) + 1} ELSE {}
      BY <3>1, RewritesGrow
    <3>4. last' = last
      BY <1>2
    <3> HIDE DEF last
    <3> QED BY <3>2, <3>3, <3>4
  <2>2. (accepted' = NoText) <=> VerdictsOn(last)' \cap Ships = {}
    <3>1. accepted' = NoText <=> accepted = NoText /\ verdict \notin Ships
      BY <1>1, <2>7 DEF AcceptedText, Ships, NoText, DraftText
    <3> QED BY <1>5, <2>1, <3>1 DEF OpenClaim
  <2>3. accepted' # NoText => AreTheWordsOf(accepted, last)'
    <3>1. CASE verdict = "REWRITE"
      <4>1. accepted' = Len(citations) + 1
        BY <1>1, <3>1 DEF AcceptedText
      <4> QED BY <1>2, <2>7, <3>1, <4>1 DEF AreTheWordsOf
    <3>2. CASE verdict # "REWRITE" /\ accepted # NoText
      <4>1. accepted' = accepted /\ AreTheWordsOf(accepted, last)
        BY <1>1, <2>1, <3>2 DEF AcceptedText, OpenClaim
      <4> QED BY <1>2, <2>7, <3>2, <4>1 DEF AreTheWordsOf
    <3>3. CASE verdict # "REWRITE" /\ accepted = NoText
      <4>1. accepted' # NoText => accepted' = DraftText
        BY <1>1, <3>3 DEF AcceptedText
      <4>2. RewritesOf(last) = {}
        <5>1. "REWRITE" \notin VerdictsOn(last)
          BY <2>1, <3>3 DEF OpenClaim, Ships
        <5> QED BY <1>1, <5>1, RewriteIsVerdict DEF RowInv
      <4> QED BY <1>2, <2>7, <3>3, <4>1, <4>2 DEF AreTheWordsOf
    <3> QED BY <3>1, <3>2, <3>3
  <2>4. flagged' <=> "FLAG" \in VerdictsOn(last)'
    BY <1>1, <1>5, <2>1 DEF OpenClaim
  <2>5. IsCited(last)'
    BY <1>1, <1>2, <1>3 DEF IsCited
  <2>6. LinesOf(last)' = {}
    BY <1>2, <1>4, <2>1 DEF OpenClaim
  <2> QED BY <1>2, <2>2, <2>3, <2>4, <2>5, <2>6 DEF OpenClaim
<1> QED BY <1>1, <1>2, <1>6, <1>7 DEF OutcomeInv

LEMMA OutcomeFinish ==
    ASSUME SubInv, RowInv, OutcomeInv, FinishClaim
    PROVE  OutcomeInv'
<1> DEFINE last == Len(claimRows)
<1>1. /\ stage = "cite" /\ stage' = "claim"
      /\ lines' = IF accepted = NoText THEN lines ELSE Append(lines, Line(last))
      /\ UNCHANGED <<claimRows, citations>>
  BY DEF FinishClaim, rowVars
<1>2. last \in Nat /\ last \in 1 .. last /\ OpenClaim
  BY <1>1, ListIsEmpty DEF RowInv, OutcomeInv
<1>3. IsCited(last)
  <2>1. PICK p : p \in Cited(draft)
    BY <1>1 DEF RowInv, Resolvable
  <2>2. p \in Nat \ {0} /\ p <= place
    <3>1. drafts[draft] \in Seq(Indices) /\ p \in DOMAIN drafts[draft]
      BY <1>1, <2>1 DEF RowInv, Cited
    <3> QED BY <2>1, <3>1 DEF FinishClaim
  <2>3. place # 0
    BY <2>2 DEF RowInv
  <2> QED BY <1>2, <2>3 DEF OpenClaim
<1>4. \A n : /\ VerdictsOn(n)' = VerdictsOn(n) /\ (IsCited(n)' <=> IsCited(n))
            /\ RewritesOf(n)' = RewritesOf(n)
  BY <1>1 DEF VerdictsOn, IsCited, RewritesOf
<1>5. /\ IsList(lines')
      /\ ToSet(lines') = IF accepted = NoText THEN ToSet(lines)
                                              ELSE ToSet(lines) \cup {Line(last)}
  BY <1>1, AppendAdds DEF OutcomeInv
<1>6. \A n : n # last => LinesOf(n)' = LinesOf(n)
  BY <1>5 DEF LinesOf, Line
<1>7. LinesOf(last)' = IF accepted = NoText THEN {} ELSE {Line(last)}
  BY <1>1, <1>2, <1>5 DEF LinesOf, Line, OpenClaim
<1>8. Reported(last)'
  <2>1. CASE accepted = NoText
    BY <1>1, <1>2, <1>4, <1>7, <2>1 DEF Reported, OpenClaim
  <2>2. CASE accepted # NoText
    <3>1. /\ VerdictsOn(last) \cap Ships # {} /\ AreTheWordsOf(accepted, last)
          /\ flagged <=> "FLAG" \in VerdictsOn(last)
      BY <1>2, <2>2 DEF OpenClaim
    <3>2. Line(last).text = accepted /\ Line(last).uncertain = flagged
      BY DEF Line
    <3>3. LinesOf(last)' = {Line(last)} /\ VerdictsOn(last)' = VerdictsOn(last)
      BY <1>1, <1>4, <1>7, <2>2
    <3>4. AreTheWordsOf(accepted, last) => \A text : text = accepted => AreTheWordsOf(text, last)'
      BY <1>1, <1>4 DEF AreTheWordsOf
    <3>5. last' = last
      BY <1>1
    <3> HIDE DEF last
    <3> QED BY <3>1, <3>2, <3>3, <3>4, <3>5 DEF Reported
  <2> QED BY <2>1, <2>2
<1>9. ASSUME NEW n \in 1 .. Len(claimRows)'
      PROVE  (Reported(n) /\ IsCited(n))'
  <2>1. CASE n = last
    BY <1>1, <1>3, <1>4, <1>8, <2>1
  <2>2. CASE n # last
    <3>1. Reported(n) /\ IsCited(n)
      BY <1>1, <1>2, <2>2 DEF OutcomeInv
    <3> QED BY <1>4, <1>6, <2>2, <3>1 DEF Reported, AreTheWordsOf
  <2> QED BY <2>1, <2>2
<1>10. \A l \in ToSet(lines') : l.claim \in 1 .. Len(claimRows)'
  BY <1>1, <1>2, <1>5 DEF OutcomeInv, Line
<1> QED BY <1>1, <1>5, <1>9, <1>10 DEF OutcomeInv

LEMMA OutcomeStart ==
    ASSUME SubInv, RowInv, OutcomeInv, StartClaim
    PROVE  OutcomeInv'
<1>1. stage = "claim" /\ UNCHANGED <<lines, citations>>
  BY DEF StartClaim
<1>2. /\ \A n : VerdictsOn(n)' = VerdictsOn(n) /\ LinesOf(n)' = LinesOf(n)
      /\ \A n : IsCited(n)' <=> IsCited(n)
      /\ \A n : RewritesOf(n)' = RewritesOf(n)
  BY <1>1 DEF VerdictsOn, LinesOf, IsCited, RewritesOf
<1>3. \A n : Reported(n)' <=> Reported(n)
  BY <1>2 DEF Reported, AreTheWordsOf
<1>4. CASE ~Resolvable(draft)
  <2>1. UNCHANGED <<stage, claimRows>>
    BY <1>4 DEF StartClaim
  <2> QED BY <1>1, <1>2, <1>3, <2>1 DEF OutcomeInv
<1>5. CASE Resolvable(draft)
  <2>1. /\ stage' = "cite" /\ claimRows' = Append(claimRows, draft)
        /\ place' = 0 /\ accepted' = NoText /\ flagged' = FALSE
    BY <1>5 DEF StartClaim
  <2>2. Len(claimRows) \in Nat /\ Len(claimRows') = Len(claimRows) + 1
    BY <2>1, AppendAdds DEF RowInv
  <2>3. LinesOf(Len(claimRows')) = {} /\ VerdictsOn(Len(claimRows')) = {}
    BY <1>1, <2>2 DEF LinesOf, VerdictsOn, OutcomeInv, RowInv, CitationRows
  <2>4. OpenClaim'
    BY <1>2, <2>1, <2>3 DEF OpenClaim
  <2>5. \A n \in 1 .. Len(claimRows') - 1 : (Reported(n) /\ IsCited(n))'
    BY <1>1, <1>2, <1>3, <2>2 DEF OutcomeInv
  <2>6. \A l \in ToSet(lines') : l.claim \in 1 .. Len(claimRows')
    BY <1>1, <2>2 DEF OutcomeInv
  <2> QED BY <1>1, <2>1, <2>4, <2>5, <2>6 DEF OutcomeInv
<1> QED BY <1>4, <1>5

LEMMA OutcomeInvariant == Spec => [](SubInv /\ RowInv /\ OutcomeInv)
<1>1. Init => OutcomeInv
  BY EmptyList DEF Init, OutcomeInv
<1>2. SubInv /\ RowInv /\ OutcomeInv /\ [Next]_vars => OutcomeInv'
  <2> SUFFICES ASSUME SubInv, RowInv, OutcomeInv, [Next]_vars PROVE OutcomeInv'
    OBVIOUS
  <2>1. CASE Decompose \/ Retrieve \/ Extract \/ Verify \/ DetectContradictions
    <3>1. UNCHANGED <<claimVars, rowVars>> /\ {stage, stage'} \subseteq Early /\ Blank
      BY <2>1, EarlySteps DEF RowInv
    <3>2. stage' \notin {"claim", "done", "cite"}
      BY <3>1 DEF Early, Researching
    <3> QED BY <3>1, <3>2, EmptyList DEF OutcomeInv, Blank, claimVars, rowVars
  <2>2. CASE Synthesize
    <3>1. /\ Blank /\ stage' \in {"claim", "done"}
          /\ stage' = "done" => insufficient' = TRUE
          /\ UNCHANGED <<lines, rowVars>>
      BY <2>2 DEF Synthesize, RowInv, Early
    <3> QED BY <3>1, EmptyList DEF OutcomeInv, Blank, rowVars
  <2>3. CASE StartClaim
    BY <2>3, OutcomeStart
  <2>4. CASE Cite
    BY <2>4, OutcomeCite
  <2>5. CASE FinishClaim
    BY <2>5, OutcomeFinish
  <2>6. CASE Report
    <3>1. /\ stage = "claim" /\ stage' = "done" /\ insufficient' = (lines = <<>>)
          /\ UNCHANGED <<lines, claimRows, citations>>
      BY <2>6 DEF Report, NothingToReport, claimVars, rowVars
    <3>2. \A n : (Reported(n)' <=> Reported(n)) /\ (IsCited(n)' <=> IsCited(n))
      BY <3>1 DEF Reported, IsCited, LinesOf, VerdictsOn, RewritesOf, AreTheWordsOf
    <3> QED BY <3>1, <3>2 DEF OutcomeInv
  <2>7. CASE Fail
    BY <2>7 DEF Fail, OutcomeInv, claimVars
  <2>8. CASE UNCHANGED vars
    BY <2>8 DEF vars, claimVars, rowVars, OutcomeInv, OpenClaim, Reported, IsCited,
                LinesOf, VerdictsOn, RewritesOf, AreTheWordsOf
  <2> QED BY <2>1, <2>2, <2>3, <2>4, <2>5, <2>6, <2>7, <2>8 DEF Next
<1> QED BY <1>1, <1>2, RowInvariant, PTL DEF Spec

(* The report says of a claim what its citation rows record: a line unless  *)
(* all its verdicts drop it, uncertain if one flagged it, in the words of   *)
(* the last row that rewrote it (the citation loop of run_research).        *)
THEOREM LinesAreTheVerdicts == Spec => []LinesFollowVerdicts
<1>1. RowInv /\ OutcomeInv => LinesFollowVerdicts
  <2> SUFFICES ASSUME RowInv, OutcomeInv, stage \in {"claim", "done"},
                      NEW n \in DOMAIN claimRows
               PROVE  Reported(n)
    <3>1. \A n : LinesOf(n) = {l \in ToSet(lines) : l.claim = n}
      BY DEF LinesOf
    <3> QED BY <3>1, Zenon DEF LinesFollowVerdicts, Reported
  <2> QED BY ListDomain DEF RowInv, OutcomeInv
<1> QED BY <1>1, OutcomeInvariant, PTL

(* A claim that is stored and finished has a citation: the claim was        *)
(* resolvable when its row was written (the guard before add_claim).        *)
THEOREM ClaimsAreCited == Spec => []EveryClaimIsCited
<1>1. RowInv /\ OutcomeInv => EveryClaimIsCited
  BY ListDomain DEF RowInv, OutcomeInv, EveryClaimIsCited, IsCited
<1> QED BY <1>1, OutcomeInvariant, PTL

(* The run declares insufficiency exactly when no verdict let a claim ship  *)
(* (the two returns of run_research).                                       *)
THEOREM OutcomeIsHonest == Spec => []HonestOutcome
<1>1. RowInv /\ OutcomeInv => HonestOutcome
  <2> SUFFICES ASSUME RowInv, OutcomeInv, stage = "done"
               PROVE  insufficient <=> \A c \in ToSet(citations) : c.verdict \notin Ships
    BY DEF HonestOutcome
  <2>1. insufficient <=> ToSet(lines) = {}
    BY ListIsEmpty DEF OutcomeInv
  <2>2. /\ \A n \in 1 .. Len(claimRows) : LinesOf(n) # {} <=> VerdictsOn(n) \cap Ships # {}
        /\ \A l \in ToSet(lines) : l.claim \in 1 .. Len(claimRows)
        /\ \A c \in ToSet(citations) : c.claim \in 1 .. Len(claimRows)
    BY DEF OutcomeInv, RowInv, Reported, CitationRows
  <2>3. ASSUME ToSet(lines) = {}, NEW c \in ToSet(citations)
        PROVE  c.verdict \notin Ships
    <3>1. LinesOf(c.claim) = {}
      BY <2>3 DEF LinesOf
    <3>2. c.verdict \in VerdictsOn(c.claim)
      BY DEF VerdictsOn
    <3> QED BY <2>2, <3>1, <3>2
  <2>4. ASSUME NEW l \in ToSet(lines)
        PROVE  \E c \in ToSet(citations) : c.verdict \in Ships
    <3>1. VerdictsOn(l.claim) \cap Ships # {}
      BY <2>2 DEF LinesOf
    <3> QED BY <3>1 DEF VerdictsOn
  <2> QED BY <2>1, <2>3, <2>4
<1> QED BY <1>1, OutcomeInvariant, PTL

(* The run seen by JobLifecycle: it stores claims, and then answers,        *)
(* declares insufficiency or fails; it never answers without a claim.       *)
THEOREM ImplementsResearchRun == Spec => ImplementsRun
<1>1. Init => Run!Init
  BY DEF Init, Run!Init, Phase
<1>2. SubInv /\ RowInv /\ OutcomeInv /\ OutcomeInv' /\ RowInv' /\ [Next]_vars
        => [Run!Next]_Phase
  <2> SUFFICES ASSUME SubInv, RowInv, OutcomeInv, OutcomeInv', RowInv', [Next]_vars
               PROVE  Run!Next \/ Phase' = Phase
    BY DEF Phase
  <2> USE DEF Run!Next, Run!WriteClaims, Run!Declare, Run!Answer, Run!Fail
  <2>1. CASE Decompose \/ Retrieve \/ Extract \/ Verify \/ DetectContradictions
    <3>1. {stage, stage'} \subseteq Early /\ claimRows' = <<>> /\ claimRows = <<>>
      BY <2>1, EarlySteps DEF RowInv, Blank, rowVars
    <3> QED BY <3>1 DEF Phase, Early, Researching
  <2>2. CASE Synthesize
    <3>1. /\ stage = "synthesize" /\ claimRows' = <<>> /\ claimRows = <<>>
          /\ stage' = "claim" \/ (stage' = "done" /\ insufficient')
      BY <2>2 DEF Synthesize, RowInv, Early, Blank, rowVars
    <3> QED BY <3>1 DEF Phase
  <2>3. CASE StartClaim
    <3>1. /\ stage = "claim" /\ stage' \in {"claim", "cite"}
          /\ claimRows' = claimRows \/ claimRows' # <<>>
      BY <2>3 DEF StartClaim, RowInv
    <3> QED BY <3>1 DEF Phase
  <2>4. CASE Cite \/ FinishClaim
    <3>1. stage = "cite" /\ stage' \in {"claim", "cite"} /\ claimRows' = claimRows
      BY <2>4 DEF Cite, FinishClaim, rowVars
    <3> QED BY <3>1 DEF Phase
  <2>5. CASE Report
    <3>1. stage = "claim" /\ stage' = "done" /\ UNCHANGED <<lines, claimRows>>
      BY <2>5 DEF Report, claimVars, rowVars
    <3>2. claimRows = <<>> => insufficient'
      <4> SUFFICES ASSUME claimRows = <<>> PROVE lines' = <<>>
        BY <3>1 DEF OutcomeInv
      <4>1. ToSet(lines) = {}
        BY <3>1, EmptyList DEF OutcomeInv
      <4> QED BY <3>1, <4>1, ListIsEmpty DEF OutcomeInv
    <3> QED BY <3>1, <3>2 DEF Phase
  <2>6. CASE Fail
    <3>1. stage \notin {"done", "failed"} /\ stage' = "failed"
      BY <2>6 DEF Fail
    <3> QED BY <3>1 DEF Phase
  <2>7. CASE UNCHANGED vars
    BY <2>7 DEF vars, rowVars, Phase
  <2> QED BY <2>1, <2>2, <2>3, <2>4, <2>5, <2>6, <2>7 DEF Next
<1> QED BY <1>1, <1>2, OutcomeInvariant, PTL DEF Spec, ImplementsRun, Run!Spec

-----------------------------------------------------------------------------
(* The chain from a claim to its passages, while the drafts are aligned.    *)

AlignedSoFar == \A d \in DOMAIN drafts : d <= draft => Aligned(d)

\* An index is filed under the row that stores its evidence, and the citation
\* filed next is the evidence it is zipped with.
FiledRight ==
    /\ \A i \in Indices : persisted[i] # 0 => evidenceRows[persisted[i]] = i
    /\ CitationProvenance
    /\ \A link \in links : evidenceRows[link[2]] \in ToSet(drafts[claimRows[link[1]]])
    /\ stage = "cite" => pair = place + 1 /\ claimRows[Len(claimRows)] = draft

ChainInv ==
    /\ stage # "failed" => (AlignedSoFar => FiledRight)
    /\ stage = "failed" => citations = <<>> /\ links = {}

LEMMA ChainCite ==
    ASSUME SubInv, RowInv, ChainInv, Cite, AlignedSoFar
    PROVE  FiledRight'
<1>1. PICK p \in Cited(draft), verdict \in Verdicts, row \in Nat :
        LET index == drafts[draft][pair]
            ve    == drafts[draft][p]
        IN  /\ stage = "cite" /\ IsNextCited(p) /\ place' = p /\ pair' = pair + 1
            /\ index \in Indices /\ ve \in Indices /\ ve \in 0 .. Len(verified) - 1
            /\ p \in DOMAIN drafts[draft] /\ p \in Nat
            /\ \/ /\ persisted[index] # 0 /\ row = persisted[index]
                  /\ evidenceRows' = evidenceRows
               \/ /\ persisted[index] = 0 /\ row = Len(evidenceRows) + 1
                  /\ evidenceRows' = Append(evidenceRows, ve)
            /\ persisted' = [persisted EXCEPT ![index] = row]
            /\ links' = links \cup {<<Len(claimRows), row>>}
            /\ citations' = Append(citations,
                  [claim |-> Len(claimRows), row |-> row,
                   judged |-> ve, verdict |-> verdict])
  BY CiteFacts
<1> DEFINE ve  == drafts[draft][p]
           new == [claim |-> Len(claimRows), row |-> row, judged |-> ve, verdict |-> verdict]
<1>2. FiledRight /\ UNCHANGED <<stage, claimRows, drafts, draft>>
  BY <1>1 DEF ChainInv, Cite
<1>3. pair = p
  <2>1. pair = place + 1 /\ place \in Nat /\ p > place /\ pair \in Nat
    BY <1>1, <1>2 DEF FiledRight, RowInv, IsNextCited
  <2>2. drafts[draft] \in Seq(Indices) /\ draft \in DOMAIN drafts /\ draft \in Nat
    BY <1>1 DEF RowInv
  <2>3. pair \in DOMAIN drafts[draft] /\ pair <= p
    BY <1>1, <2>1, <2>2
  <2>4. Aligned(draft)
    BY <2>2 DEF AlignedSoFar
  <2>5. pair \in Cited(draft)
    BY <1>1, <2>1, <2>3, <2>4 DEF Aligned
  <2>6. p <= pair
    BY <1>1, <2>1, <2>5 DEF IsNextCited
  <2> QED BY <1>1, <2>1, <2>3, <2>6
<1>4. /\ persisted' = [persisted EXCEPT ![ve] = row] /\ ve \in Indices
      /\ persisted \in [Indices -> Nat]
      /\ \A i \in Indices : persisted[i] <= Len(evidenceRows)
      /\ Len(evidenceRows) \in Nat
  BY <1>1, <1>3, ListIsEmpty DEF RowInv
<1>5. evidenceRows'[row] = ve /\ \A r \in 1 .. Len(evidenceRows) : evidenceRows'[r] = evidenceRows[r]
  <2>1. CASE persisted[ve] # 0 /\ row = persisted[ve] /\ evidenceRows' = evidenceRows
    BY <1>1, <1>2, <2>1 DEF FiledRight
  <2>2. CASE row = Len(evidenceRows) + 1 /\ evidenceRows' = Append(evidenceRows, ve)
    <3>1. evidenceRows \in Seq(ToSet(evidenceRows) \cup {ve})
      BY DEF RowInv, IsList
    <3> HIDE DEF ve
    <3> QED BY <2>2, <3>1
  <2> QED BY <1>1, <1>3, <2>1, <2>2
<1>6. ASSUME NEW i \in Indices, persisted'[i] # 0
      PROVE  evidenceRows'[persisted'[i]] = i
  <2>1. CASE i = ve
    <3>1. persisted'[i] = row
      BY <1>4, <2>1
    <3> QED BY <1>5, <2>1, <3>1
  <2>2. CASE i # ve
    <3>1. persisted'[i] = persisted[i] /\ persisted[i] \in 1 .. Len(evidenceRows)
      BY <1>4, <1>6, <2>2
    <3> QED BY <1>2, <1>5, <1>6, <3>1 DEF FiledRight
  <2> QED BY <2>1, <2>2
<1>7. CitationProvenance'
  <2>1. ToSet(citations') = ToSet(citations) \cup {new}
    BY <1>1, AppendAdds DEF RowInv
  <2>2. \A c \in ToSet(citations) : c.row \in 1 .. Len(evidenceRows)
    BY DEF RowInv, CitationRows
  <2>3. \A c \in ToSet(citations) : evidenceRows'[c.row] = c.judged
    BY <1>2, <1>5, <2>2 DEF FiledRight, CitationProvenance
  <2>4. evidenceRows'[new.row] = new.judged
    BY <1>5
  <2> QED BY <2>1, <2>3, <2>4 DEF CitationProvenance
<1>8. \A link \in links' : evidenceRows'[link[2]] \in ToSet(drafts'[claimRows'[link[1]]])
  <2>1. ve \in ToSet(drafts[draft]) /\ claimRows[Len(claimRows)] = draft
    BY <1>1, <1>2 DEF FiledRight, ToSet
  <2>2. \A link \in links : link[2] \in 1 .. Len(evidenceRows)
    BY DEF RowInv
  <2>3. \A link \in links : evidenceRows'[link[2]] \in ToSet(drafts[claimRows[link[1]]])
    BY <1>2, <1>5, <2>2 DEF FiledRight
  <2> QED BY <1>1, <1>2, <1>5, <2>1, <2>3
<1>9. pair' = place' + 1 /\ claimRows'[Len(claimRows')] = draft'
  BY <1>1, <1>2, <1>3 DEF FiledRight
<1> QED BY <1>6, <1>7, <1>8, <1>9 DEF FiledRight

LEMMA ChainStart ==
    ASSUME SubInv, RowInv, FiledRight, StartClaim
    PROVE  FiledRight'
<1>1. /\ stage = "claim"
      /\ UNCHANGED <<drafts, evidenceRows, persisted, links, citations>>
  BY DEF StartClaim
<1>2. CASE ~Resolvable(draft)
  <2>1. UNCHANGED <<stage, claimRows>>
    BY <1>2 DEF StartClaim
  <2> QED BY <1>1, <2>1 DEF FiledRight, CitationProvenance
<1>3. CASE Resolvable(draft)
  <2>1. /\ claimRows' = Append(claimRows, draft) /\ draft' = draft
        /\ pair' = 1 /\ place' = 0
    BY <1>3 DEF StartClaim
  <2>2. /\ \A n \in 1 .. Len(claimRows) : claimRows'[n] = claimRows[n]
        /\ claimRows'[Len(claimRows')] = draft
    <3>1. claimRows \in Seq(ToSet(claimRows) \cup {draft})
      BY DEF RowInv, IsList
    <3> QED BY <2>1, <3>1
  <2>3. \A link \in links' : evidenceRows'[link[2]] \in ToSet(drafts'[claimRows'[link[1]]])
    BY <1>1, <2>2 DEF RowInv, FiledRight
  <2>4. \A i \in Indices : persisted'[i] # 0 => evidenceRows'[persisted'[i]] = i
    BY <1>1 DEF FiledRight
  <2>5. CitationProvenance'
    BY <1>1 DEF FiledRight, CitationProvenance
  <2>6. pair' = place' + 1 /\ claimRows'[Len(claimRows')] = draft'
    BY <2>1, <2>2
  <2> QED BY <2>3, <2>4, <2>5, <2>6 DEF FiledRight
<1> QED BY <1>2, <1>3

LEMMA ChainInvariant == Spec => [](SubInv /\ RowInv /\ ChainInv)
<1>1. Init => ChainInv
  BY EmptyList DEF Init, ChainInv, FiledRight, CitationProvenance
<1>2. SubInv /\ RowInv /\ ChainInv /\ [Next]_vars => ChainInv'
  <2>0. SubInv /\ RowInv /\ ChainInv /\ [Next]_vars /\ stage' = "failed"
          => citations' = <<>> /\ links' = {}
    BY DEF Next, Decompose, Retrieve, Extract, Verify, DetectContradictions, EndsInGap,
           NextSubQuestion, Synthesize, StartClaim, Cite, FinishClaim, Report, Fail,
           ChainInv, vars, rowVars
  <2> SUFFICES ASSUME SubInv, RowInv, ChainInv, [Next]_vars,
                      stage' # "failed", AlignedSoFar'
               PROVE  FiledRight'
    BY <2>0 DEF ChainInv
  <2>1. CASE Decompose \/ Retrieve \/ Extract \/ Verify \/ DetectContradictions
    <3>1. UNCHANGED <<claimVars, rowVars>> /\ {stage, stage'} \subseteq Early /\ Blank
      BY <2>1, EarlySteps DEF RowInv
    <3>2. stage' # "cite"
      BY <3>1 DEF Early, Researching
    <3> QED BY <3>1, <3>2, EmptyList DEF FiledRight, CitationProvenance, Blank, rowVars
  <2>2. CASE Synthesize
    <3>1. Blank /\ stage' \in {"claim", "done"} /\ UNCHANGED rowVars
      BY <2>2 DEF Synthesize, RowInv, Early
    <3> QED BY <3>1, EmptyList DEF FiledRight, CitationProvenance, Blank, rowVars
  <2>3. ASSUME UNCHANGED <<verified, drafts>>, draft' \in {draft, draft + 1}, stage # "failed"
        PROVE  AlignedSoFar /\ FiledRight
    <3>1. \A d \in DOMAIN drafts : Aligned(d)' <=> Aligned(d)
      BY <2>3 DEF Aligned, Cited, InRange
    <3>2. \A d \in DOMAIN drafts : d \in Nat /\ (d <= draft => d <= draft')
      BY <2>3 DEF RowInv
    <3>3. AlignedSoFar
      BY <2>3, <3>1, <3>2 DEF AlignedSoFar
    <3> QED BY <2>3, <3>3 DEF ChainInv
  <2>4. CASE StartClaim
    <3>1. /\ UNCHANGED <<verified, drafts>> /\ draft' \in {draft, draft + 1}
          /\ stage # "failed"
      BY <2>4 DEF StartClaim, subVars
    <3> QED BY <2>3, <2>4, <3>1, ChainStart
  <2>5. CASE Cite
    <3>1. UNCHANGED <<verified, drafts, draft>> /\ stage # "failed"
      BY <2>5 DEF Cite, subVars
    <3> QED BY <2>3, <2>5, <3>1, ChainCite
  <2>6. CASE FinishClaim
    <3>1. /\ UNCHANGED <<verified, drafts, rowVars>> /\ draft' = draft + 1
          /\ stage # "failed" /\ stage' # "cite"
      BY <2>6 DEF FinishClaim, subVars
    <3> QED BY <2>3, <3>1 DEF FiledRight, CitationProvenance, rowVars
  <2>7. CASE Report
    <3>1. /\ UNCHANGED <<verified, drafts, draft, rowVars>>
          /\ stage # "failed" /\ stage' # "cite"
      BY <2>7 DEF Report, subVars, claimVars
    <3> QED BY <2>3, <3>1 DEF FiledRight, CitationProvenance, rowVars
  <2>8. CASE UNCHANGED vars
    <3>1. UNCHANGED <<stage, verified, drafts, draft, pair, place, rowVars>>
      BY <2>8 DEF vars, subVars, claimVars
    <3> QED BY <2>3, <3>1 DEF FiledRight, CitationProvenance, rowVars
  <2> QED BY <2>1, <2>2, <2>4, <2>5, <2>6, <2>7, <2>8 DEF Next, Fail
<1> QED BY <1>1, <1>2, RowInvariant, PTL DEF Spec

(* While no draft named a missing index before an existing one, a citation  *)
(* points at the passage its verdict was about and a claim links only to    *)
(* evidence it named, however the indices repeat across claims (the zip of  *)
(* run_research and persisted_evidence_by_index).                           *)
THEOREM ChainIsIntact == Spec => []ChainIntact
<1>1. ChainInv => ChainIntact
  BY EmptyList DEF ChainInv, ChainIntact, AlignedSoFar, FiledRight, CitationProvenance
<1> QED BY <1>1, ChainInvariant, PTL
=============================================================================
