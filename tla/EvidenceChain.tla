---------------------------- MODULE EvidenceChain ----------------------------
(***************************************************************************)
(* One run of run_research (src/graph/pipeline.py): how retrieved passages *)
(* become verified evidence, cited claims and report lines, and which rows *)
(* record it. The language model's answers are nondeterministic: it may    *)
(* name indices that do not exist. Indices are zero-based as in the code;  *)
(* evidence is identified by its index in verified_evidence.               *)
(***************************************************************************)
EXTENDS Integers, FiniteSets, SequencesExt

CONSTANTS
    Chunks,           \* what retrieval can return
    Indices,          \* the integers the model may answer with
    Verdicts,         \* the citation verdicts the model may give
    MaxSubQuestions,  \* the decomposer's bound (max_length=5 in the schema)
    MaxHits,          \* top_n_per_subquestion
    MaxItems,         \* bound: items extracted, and decisions, per sub-question
    MaxPairs,         \* bound: contradictions found over the whole run
    MaxClaims,        \* bound: claims the synthesizer drafts
    MaxCited          \* bound: evidence indices in one claim

\* A REWRITE may lack its text: rewritten_claim is optional in the schema.
AllVerdicts == {"ACCEPT", "FLAG", "REMOVE", "REWRITE", "REWRITE without text"}

\* A text of a claim is known by where it comes from: nothing accepted yet
\* (None), the draft's own text, or n > 0, the rewritten_claim of the n-th
\* citation of the run.
NoText    == -1
DraftText == 0

ASSUME IndicesAssumption  == Indices \subseteq Int
ASSUME VerdictsAssumption == Verdicts \subseteq AllVerdicts
ASSUME BoundsAssumption   ==
    {MaxSubQuestions, MaxHits, MaxItems, MaxPairs, MaxClaims, MaxCited} \subseteq Nat

VARIABLES
    stage,
    subQuestions,    \* how many sub-questions the decomposer made
    sub,             \* the one being researched
    hits, items,     \* its passages, and the passage index of each extracted item
    kept,            \* its verified items, before they join verified
    verified,        \* verified_evidence: [sub, chunk] of each kept item
    gaps,            \* sub-questions that ended early
    contradictions,  \* [a, b, sub, valid]: offset indices; valid if the model's existed
    drafts,          \* the evidence_indices of each drafted claim
    draft, pair,     \* the claim and the citation being processed
    place,           \* where in the claim the evidence cited last stands
    claimRows,       \* rows of claims: the draft each came from
    evidenceRows,    \* rows of evidence_items: the index of the evidence each stores
    persisted,       \* persisted_evidence_by_index, 0 where absent
    links,           \* rows of claim_evidence: <<claim row, evidence row>>
    citations,       \* rows of citations: [claim, row, judged, verdict]
    accepted,        \* accepted_text: one of the texts above
    flagged,
    lines,           \* report_lines: [claim, text, uncertain]
    insufficient

subVars   == <<subQuestions, sub, hits, items, kept, verified, gaps, contradictions>>
claimVars == <<drafts, draft, pair, place, accepted, flagged, lines>>
rowVars   == <<claimRows, evidenceRows, persisted, links, citations>>
vars      == <<stage, subVars, claimVars, rowVars, insufficient>>


Init ==
    /\ stage = "decompose"
    /\ subQuestions = 0 /\ sub = 1
    /\ hits = <<>> /\ items = <<>> /\ kept = <<>>
    /\ verified = <<>> /\ gaps = {} /\ contradictions = {}
    /\ drafts = <<>> /\ draft = 1 /\ pair = 1 /\ place = 0
    /\ claimRows = <<>> /\ evidenceRows = <<>>
    /\ persisted = [i \in Indices |-> 0]
    /\ links = {} /\ citations = <<>>
    /\ accepted = NoText /\ flagged = FALSE
    /\ lines = <<>>
    /\ insufficient = FALSE

-----------------------------------------------------------------------------
(* What the model may answer at each node (nodes.py), within its schema.    *)

Decompositions == 1 .. MaxSubQuestions

\* The passage index of each item it extracts.
Extractions == BoundedSeq(Indices, MaxItems)

\* Its decisions on the items; SUPPORTS and PARTIAL both support.
Verifications == BoundedSeq([index : Indices, supports : BOOLEAN], MaxItems)

\* At most one contradiction per sub-question is modelled, and one further gap.
Detections == [pairs : {{}} \cup {{p} : p \in Indices \X Indices}, gap : BOOLEAN]

\* The claims of the draft, each with at least one evidence index.
Syntheses == BoundedSeq(BoundedSeq(Indices, MaxCited) \ {<<>>}, MaxClaims)

CitationDecisions == Verdicts

-----------------------------------------------------------------------------
(* The sub-questions, one after the other (_research_sub_question).         *)

\* Planner and decomposer.
Decompose ==
    /\ stage = "decompose"
    /\ subQuestions' \in Decompositions
    /\ stage' = "retrieve"
    /\ UNCHANGED <<sub, hits, items, kept, verified, gaps, contradictions,
                   claimVars, rowVars, insufficient>>

\* The sub-question is over: its lists are dropped and the next one starts.
NextSubQuestion ==
    /\ sub' = sub + 1
    /\ stage' = IF sub < subQuestions THEN "retrieve" ELSE "synthesize"
    /\ hits' = <<>> /\ items' = <<>> /\ kept' = <<>>

\* Mutant: a sub-question without evidence is skipped.
EndsInGap_Silently ==
    /\ NextSubQuestion
    /\ UNCHANGED <<gaps, verified, contradictions>>

EndsInGap ==
    /\ NextSubQuestion
    /\ gaps' = gaps \cup {sub}
    /\ UNCHANGED <<verified, contradictions>>

Retrieve ==
    /\ stage = "retrieve"
    /\ \/ EndsInGap
       \/ /\ hits' \in BoundedSeq(Chunks, MaxHits) \ {<<>>}
          /\ \A k, l \in DOMAIN hits' : hits'[k] = hits'[l] => k = l
          /\ stage' = "extract"
          /\ UNCHANGED <<sub, items, kept, verified, gaps, contradictions>>
    /\ UNCHANGED <<subQuestions, claimVars, rowVars, insufficient>>

Extract ==
    /\ stage = "extract"
    /\ \/ EndsInGap
       \/ /\ items' \in Extractions \ {<<>>}
          /\ stage' = "verify"
          /\ UNCHANGED <<sub, hits, kept, verified, gaps, contradictions>>
    /\ UNCHANGED <<subQuestions, claimVars, rowVars, insufficient>>

\* The last decision about an item counts (verdict_by_index is a dict), and an
\* item is kept when that supports it and its passage exists.
Supported(decisions, i) ==
    \E k \in DOMAIN decisions :
        /\ decisions[k].index = i /\ decisions[k].supports
        /\ \A l \in DOMAIN decisions : l > k => decisions[l].index # i

\* Mutant: the range of passage_index is tested one too far.
IsKept_OffByOne(decisions, i) ==
    Supported(decisions, i) /\ items[i + 1] \in 0 .. Len(hits)

IsKept(decisions, i) ==
    Supported(decisions, i) /\ items[i + 1] \in 0 .. Len(hits) - 1

\* The places of the items that are kept, in order.
IsSelection(found, decisions) ==
    /\ ToSet(found) = {n \in DOMAIN items : IsKept(decisions, n - 1)}
    /\ \A k, l \in DOMAIN found : k < l => found[k] < found[l]

Verify ==
    /\ stage = "verify"
    /\ \E decisions \in Verifications, found \in BoundedSeq(DOMAIN items, Len(items)) :
          /\ IsSelection(found, decisions)
          /\ \/ found = <<>> /\ EndsInGap
             \/ /\ found # <<>>
                /\ kept' = [k \in DOMAIN found |->
                               [sub |-> sub, passage |-> items[found[k]] + 1]]
                /\ stage' = "contradict"
                /\ UNCHANGED <<sub, hits, items, verified, gaps, contradictions>>
    /\ UNCHANGED <<subQuestions, claimVars, rowVars, insufficient>>

\* Mutant: the offset is taken after this sub-question's evidence has joined.
EvidenceIndexOffset_AfterExtend == Len(verified) + Len(kept)

EvidenceIndexOffset == Len(verified)

\* A pair the model names, in the numbering of verified_evidence. Its indices
\* are offset, and not checked.
Shifted(p) ==
    [a |-> p[1] + EvidenceIndexOffset, b |-> p[2] + EvidenceIndexOffset, sub |-> sub,
     valid |-> {p[1], p[2]} \subseteq 0 .. Len(kept) - 1]

DetectContradictions ==
    /\ stage = "contradict"
    /\ \E answer \in Detections :
          /\ contradictions' = contradictions \cup {Shifted(p) : p \in answer.pairs}
          /\ gaps' = IF answer.gap THEN gaps \cup {sub} ELSE gaps
    /\ Cardinality(contradictions') <= MaxPairs
    /\ verified' = verified \o [k \in DOMAIN kept |->
                                  [sub |-> sub, chunk |-> hits[kept[k].passage]]]
    /\ NextSubQuestion
    /\ UNCHANGED <<subQuestions, claimVars, rowVars, insufficient>>

-----------------------------------------------------------------------------
(* The draft report and its claims (run_research after the loop).           *)

\* Without verified evidence the run ends here; otherwise the synthesizer
\* drafts claims. The critic's findings are only recorded.
Synthesize ==
    /\ stage = "synthesize"
    /\ \/ /\ verified = <<>>
          /\ stage' = "done"
          /\ insufficient' = TRUE
          /\ UNCHANGED drafts
       \/ /\ verified # <<>>
          /\ drafts' \in Syntheses
          /\ stage' = "claim"
          /\ UNCHANGED insufficient
    /\ UNCHANGED <<subVars, draft, pair, place, accepted, flagged, lines, rowVars>>

InRange(i) == i \in 0 .. Len(verified) - 1

\* The places of draft d whose index exists.
Cited(d) == {p \in DOMAIN drafts[d] : InRange(drafts[d][p])}

\* Mutant: a claim is dropped only if it names no index at all.
Resolvable_Trusted(d) == drafts[d] # <<>>

\* A claim with no resolvable evidence index is dropped, not trusted.
Resolvable(d) == Cited(d) # {}

StartClaim ==
    /\ stage = "claim"
    /\ draft <= Len(drafts)
    /\ \/ /\ ~Resolvable(draft)
          /\ draft' = draft + 1
          /\ UNCHANGED <<stage, claimRows, pair, place, accepted, flagged>>
       \/ /\ Resolvable(draft)
          /\ claimRows' = Append(claimRows, draft)
          /\ pair' = 1 /\ place' = 0 /\ accepted' = NoText /\ flagged' = FALSE
          /\ stage' = "cite"
          /\ UNCHANGED draft
    /\ UNCHANGED <<subVars, drafts, lines, evidenceRows, persisted, links, citations,
                   insufficient>>

\* Mutant: FLAG only marks, as REMOVE only drops.
AcceptedText_FlagOnlyMarks(verdict) ==
    CASE verdict = "ACCEPT" /\ accepted = NoText -> DraftText
      [] verdict = "REWRITE" -> Len(citations) + 1
      [] OTHER -> accepted

\* Mutant: a REWRITE counts, as an ACCEPT does, only if nothing was accepted.
AcceptedText_FirstWins(verdict) ==
    CASE verdict \in {"ACCEPT", "FLAG"} /\ accepted = NoText -> DraftText
      [] verdict = "REWRITE" /\ accepted = NoText -> Len(citations) + 1
      [] OTHER -> accepted

\* The text the claim ships with after one more verdict. ACCEPT and FLAG take
\* the draft's text if there is none yet; a REWRITE replaces whatever there is,
\* an earlier REWRITE's text included, by the text of the citation being made.
AcceptedText(verdict) ==
    CASE verdict \in {"ACCEPT", "FLAG"} /\ accepted = NoText -> DraftText
      [] verdict = "REWRITE" -> Len(citations) + 1
      [] OTHER -> accepted

\* Mutant: the evidence is filed under its place in the claim.
FiledUnder_Place(d, p) == p - 1

\* The index a citation is filed under: the code zips the unfiltered indices
\* with the filtered evidence.
FiledUnder(d, p) == drafts[d][p]

\* The next piece of evidence that exists.
IsNextCited(p) ==
    /\ p \in Cited(draft) /\ p > place
    /\ \A q \in Cited(draft) : q <= place \/ p <= q

\* The evidence row of an index, with the table extended if it has none yet.
Filed(index, ve) ==
    IF persisted[index] # 0
    THEN [row |-> persisted[index], rows |-> evidenceRows]
    ELSE [row |-> Len(evidenceRows) + 1, rows |-> Append(evidenceRows, ve)]

\* One (index, evidence) pair: file the evidence, judge the claim against it,
\* record the citation. Linking a claim to the same row twice breaks the
\* primary key of claim_evidence, which ends the run.
Cite ==
    /\ stage = "cite"
    /\ \E p \in DOMAIN drafts[draft], verdict \in CitationDecisions :
          LET index == FiledUnder(draft, pair)
              ve    == drafts[draft][p]
              filed == Filed(index, ve)
              link  == <<Len(claimRows), filed.row>>
          IN
          /\ IsNextCited(p)
          /\ link \notin links
          /\ evidenceRows' = filed.rows
          /\ persisted' = [persisted EXCEPT ![index] = filed.row]
          /\ links' = links \cup {link}
          /\ citations' = Append(citations, [claim |-> Len(claimRows), row |-> filed.row,
                                             judged |-> ve, verdict |-> verdict])
          /\ accepted' = AcceptedText(verdict)
          /\ flagged' = (flagged \/ verdict = "FLAG")
          /\ place' = p
    /\ pair' = pair + 1
    /\ UNCHANGED <<stage, subVars, drafts, draft, lines, claimRows, insufficient>>

Line(claim) == [claim |-> claim, text |-> accepted, uncertain |-> flagged]

FinishClaim ==
    /\ stage = "cite"
    /\ \A p \in Cited(draft) : p <= place
    /\ lines' = IF accepted = NoText THEN lines ELSE Append(lines, Line(Len(claimRows)))
    /\ draft' = draft + 1
    /\ stage' = "claim"
    /\ UNCHANGED <<subVars, drafts, pair, place, accepted, flagged, rowVars, insufficient>>

\* Mutant: insufficiency is judged by the evidence instead of by the lines.
NothingToReport_NoEvidence == verified = <<>>

NothingToReport == lines = <<>>

Report ==
    /\ stage = "claim"
    /\ draft > Len(drafts)
    /\ stage' = "done"
    /\ insufficient' = NothingToReport
    /\ UNCHANGED <<subVars, claimVars, rowVars>>

\* Any call to the model, the retriever or the database may raise; the repeated
\* link always does. The caller's session then rolls every row back.
Fail ==
    /\ stage \notin {"done", "failed"}
    /\ stage' = "failed"
    /\ claimRows' = <<>> /\ evidenceRows' = <<>> /\ links' = {} /\ citations' = <<>>
    /\ UNCHANGED <<subVars, claimVars, persisted, insufficient>>

Next == \/ Decompose \/ Retrieve \/ Extract \/ Verify \/ DetectContradictions
        \/ Synthesize \/ StartClaim \/ Cite \/ FinishClaim \/ Report \/ Fail

Spec == Init /\ [][Next]_vars

-----------------------------------------------------------------------------
(* Properties.                                                              *)

Stages == {"decompose", "retrieve", "extract", "verify", "contradict",
           "synthesize", "claim", "cite", "done", "failed"}

\* Every list holds what it should, and in particular a kept item points at a
\* passage that was retrieved for it.
TypeOK ==
    /\ stage \in Stages
    /\ subQuestions \in 0 .. MaxSubQuestions /\ sub \in 1 .. MaxSubQuestions + 1
    /\ ToSet(hits) \subseteq Chunks /\ ToSet(items) \subseteq Indices
    /\ ToSet(kept) \subseteq [sub : {sub}, passage : DOMAIN hits]
    /\ ToSet(verified) \subseteq [sub : 1 .. MaxSubQuestions, chunk : Chunks]
    /\ gaps \subseteq 1 .. MaxSubQuestions
    /\ contradictions \subseteq [a : Int, b : Int, sub : 1 .. MaxSubQuestions, valid : BOOLEAN]
    /\ ToSet(claimRows) \subseteq DOMAIN drafts
    /\ ToSet(evidenceRows) \subseteq 0 .. Len(verified) - 1
    /\ links \subseteq (DOMAIN claimRows) \X (DOMAIN evidenceRows)
    /\ ToSet(citations) \subseteq [claim : DOMAIN claimRows, row : DOMAIN evidenceRows,
                                   judged : 0 .. Len(verified) - 1, verdict : Verdicts]
    /\ stage # "failed" => accepted \in NoText .. Len(citations)
    /\ flagged \in BOOLEAN /\ insufficient \in BOOLEAN

\* No sub-question disappears: once it is over, the report can name its gap or
\* the synthesizer has evidence for it.
EverySubQuestionAccounted ==
    \A i \in 1 .. sub - 1 : i \in gaps \/ \E e \in ToSet(verified) : e.sub = i

\* A contradiction the model reported between two items it was shown is, in the
\* numbering the synthesizer reads, between two items of the same sub-question.
ContradictionsNameTheirEvidence ==
    \A c \in contradictions : c.valid =>
        \A i \in {c.a, c.b} : InRange(i) /\ verified[i + 1].sub = c.sub

\* The indices of draft d that do not exist all come after those that do.
Aligned(d) == \A p \in DOMAIN drafts[d], q \in Cited(d) : p < q => p \in Cited(d)

\* The evidence row a citation points at stores the passage its verdict was
\* about ("Provenance is still exact because the caller resolves the index").
CitationProvenance ==
    \A c \in ToSet(citations) : evidenceRows[c.row] = c.judged

\* The chain from claim to passage is unbroken while every draft so far was
\* aligned: its citations store what was judged, and link only evidence the
\* draft cited.
ChainIntact ==
    (\A d \in DOMAIN drafts : d <= draft => Aligned(d)) =>
        /\ CitationProvenance
        /\ \A link \in links : evidenceRows[link[2]] \in ToSet(drafts[claimRows[link[1]]])

\* Every claim that is stored is backed: a finished one by at least one citation.
EveryClaimIsCited ==
    stage \in {"claim", "done"} =>
        \A n \in DOMAIN claimRows : \E c \in ToSet(citations) : c.claim = n

VerdictsOn(n) == {c.verdict : c \in {c \in ToSet(citations) : c.claim = n}}

Ships == {"ACCEPT", "FLAG", "REWRITE"}

\* The citations of claim n that rewrote it.
RewritesOf(n) ==
    {k \in DOMAIN citations : citations[k].claim = n /\ citations[k].verdict = "REWRITE"}

\* The words of claim n are those of the last citation that rewrote it, the
\* draft's own if none did.
AreTheWordsOf(text, n) ==
    \/ RewritesOf(n) = {} /\ text = DraftText
    \/ text \in RewritesOf(n) /\ \A k \in RewritesOf(n) : k <= text

\* What the report says of a claim is what its citation rows record: it ships
\* unless all its verdicts drop it, marked uncertain if any of them flagged it,
\* and in the words of the last row that rewrote it. So a REMOVE or an ACCEPT
\* after a REWRITE does not undo it, and of two rewrites the earlier is lost.
LinesFollowVerdicts ==
    stage \in {"claim", "done"} =>
        \A n \in DOMAIN claimRows :
            LET own == {l \in ToSet(lines) : l.claim = n} IN
            /\ (own # {}) <=> (VerdictsOn(n) \cap Ships # {})
            /\ \A l \in own : /\ AreTheWordsOf(l.text, n)
                              /\ l.uncertain <=> "FLAG" \in VerdictsOn(n)

\* Insufficiency is declared exactly when nothing survived: a run never ends
\* with an empty report that does not say so, nor hides an accepted claim.
HonestOutcome ==
    stage = "done" =>
        (insufficient <=> \A c \in ToSet(citations) : c.verdict \notin Ships)

\* The run ends in one of the ways JobLifecycle provides for, and stores claims
\* only when JobLifecycle says it may.
Phase == CASE stage = "failed" -> "failed"
           [] stage = "done" -> IF insufficient THEN "insufficient" ELSE "answer"
           [] OTHER -> IF claimRows = <<>> THEN "work" ELSE "cite"

Run == INSTANCE ResearchRun WITH phase <- Phase

ImplementsRun == Run!Spec
=============================================================================
